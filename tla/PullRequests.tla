---------------------------- MODULE PullRequests ----------------------------
(***************************************************************************)
(* Pull requests linked to works and their accepted ownership               *)
(* (pull_requests.py).  A change is one transaction under the row locks of  *)
(* the mailboxes it names, for a caller the server resolved before; a       *)
(* reader follows cursors from one page to the next, each page being a      *)
(* transaction of its own.  Repeated operations are the journal's business  *)
(* (CanonicalWork).                                                         *)
(***************************************************************************)
EXTENDS Naturals, Sequences, FiniteSets

CONSTANTS
  PrIds,      \* pull requests, numbered
  PrTraded,   \* the ones transfers are explored for
  PrNames,    \* names of mailboxes
  PrWorks,    \* works they are linked to
  PrPage,     \* size of a page; 10 in the code
  PrTakeovers,\* bound on the generations of a mailbox
  PrVersions  \* bound on the row_version of a pull request

VARIABLES
  prGen,      \* name -> generation of the mailbox
  prRows,     \* id -> owner and row_version, for the ones that exist
  prLinks,    \* work_pull_requests: pairs of a work and an id
  prMail,     \* acceptances delivered
  prCaller,   \* the caller a change was resolved for: name and generation
  prMoves,    \* the acceptances the transfers so far have used (observer)
  prReader    \* the reader's pages so far

prVars == <<prGen, prRows, prLinks, prMail, prCaller, prMoves, prReader>>

ASSUME PullRequestConstants ==
  /\ PrTraded \subseteq PrIds /\ PrIds \subseteq Nat /\ IsFiniteSet(PrIds) /\ PrPage \in Nat \ {0}
  /\ PrTakeovers \in Nat \ {0} /\ PrVersions \in Nat \ {0}

NoPullRequest == [version |-> 0]
NoCaller == [gen |-> 0]
NotReading == [at |-> "idle"]

PrInit ==
  /\ prGen = [n \in PrNames |-> 1]
  /\ prRows = [p \in PrIds |-> NoPullRequest]
  /\ prLinks = {} /\ prMail = {}
  /\ prCaller = NoCaller /\ prMoves = <<>> /\ prReader = NotReading

-----------------------------------------------------------------------------
\* Another session takes the name over.
Takeover(n) ==
  /\ prGen[n] < PrTakeovers
  /\ prGen' = [prGen EXCEPT ![n] = @ + 1]
  /\ UNCHANGED <<prRows, prLinks, prMail, prCaller, prMoves, prReader>>

\* The holder of a mailbox tells the owner that it accepts the pull request as it is.
Accepts(n, p) ==
  /\ prRows[p] # NoPullRequest /\ prRows[p].owner # n
  /\ prMail' = prMail \cup
       {[from |-> n, to |-> prRows[p].owner, pr |-> p, version |-> prRows[p].version,
         fromGen |-> prGen[n], toGen |-> prGen[prRows[p].owner]]}
  /\ UNCHANGED <<prGen, prRows, prLinks, prCaller, prMoves, prReader>>

ResolveCaller(n) ==
  /\ prCaller = NoCaller
  /\ prCaller' = [name |-> n, gen |-> prGen[n]]
  /\ UNCHANGED <<prGen, prRows, prLinks, prMail, prMoves, prReader>>

\* Mutant: the caller is not looked at again under the lock.
CallerOnceResolved == prCaller # NoCaller

\* "registered caller changed"
CallerHolds == prCaller # NoCaller /\ prGen[prCaller.name] = prCaller.gen

Add(w, p) ==
  /\ CallerHolds
  /\ prRows' = [prRows EXCEPT ![p] = IF @ = NoPullRequest THEN [owner |-> prCaller.name, version |-> 1]
                                     ELSE @]
  /\ prLinks' = prLinks \cup {<<w, p>>}
  /\ prCaller' = NoCaller
  /\ UNCHANGED <<prGen, prMail, prMoves, prReader>>

RemoveLink(w, p) ==
  /\ CallerHolds /\ <<w, p>> \in prLinks
  /\ prLinks' = prLinks \ {<<w, p>>}
  /\ prCaller' = NoCaller
  /\ UNCHANGED <<prGen, prRows, prMail, prMoves, prReader>>

\* The payload of the delivery the change names, compared as a whole.
ExactAcceptance(p, recipient, d) ==
  /\ d.pr = p /\ d.from = recipient /\ d.to = prCaller.name
  /\ d.version = prRows[p].version
  /\ d.fromGen = prGen[recipient] /\ d.toGen = prCaller.gen

Transfer(w, p, recipient) ==
  /\ CallerHolds /\ <<w, p>> \in prLinks
  /\ prRows[p].owner = prCaller.name /\ recipient # prCaller.name
  /\ prRows[p].version < PrVersions
  /\ \E d \in prMail :
       /\ ExactAcceptance(p, recipient, d)
       /\ prMoves' = Append(prMoves, d)
  /\ prRows' = [prRows EXCEPT ![p] = [owner |-> recipient, version |-> @.version + 1]]
  /\ prCaller' = NoCaller
  /\ UNCHANGED <<prGen, prLinks, prMail, prReader>>

\* A refused change leaves everything as it is.
Refused ==
  /\ prCaller # NoCaller /\ prCaller' = NoCaller
  /\ UNCHANGED <<prGen, prRows, prLinks, prMail, prMoves, prReader>>

-----------------------------------------------------------------------------
(* project: pages over the pull requests of one work.                       *)

\* What a page is computed from: the linked rows, with the works that share them.
Basis(w) ==
  {[pr |-> p, row |-> prRows[p], works |-> {v \in PrWorks : <<v, p>> \in prLinks}] :
     p \in {q \in PrIds : <<w, q>> \in prLinks}}

\* views[offset : offset + PrPage] in the order of the identities.
PageOf(views, offset) ==
  {v \in views : LET before == Cardinality({u \in views : u.pr < v.pr}) IN
                   before >= offset /\ before < offset + PrPage}

Reads(w, offset, seen) ==
  prReader' = [at |-> IF Cardinality(Basis(w)) > offset + PrPage THEN "more" ELSE "done",
               work |-> w, basis |-> Basis(w), offset |-> offset + PrPage,
               seen |-> seen \cup PageOf(Basis(w), offset)]

FirstPage(w) ==
  /\ prReader.at = "idle"
  /\ Reads(w, 0, {})
  /\ UNCHANGED <<prGen, prRows, prLinks, prMail, prCaller, prMoves>>

CursorHolds == prReader.basis = Basis(prReader.work)

\* A cursor whose basis has changed is answered stale.
NextPage ==
  /\ prReader.at = "more"
  /\ IF CursorHolds THEN Reads(prReader.work, prReader.offset, prReader.seen)
     ELSE prReader' = NotReading
  /\ UNCHANGED <<prGen, prRows, prLinks, prMail, prCaller, prMoves>>

\* Readers do not matter to ownership, nor the transfers to what pages show.
PrOwnersNext ==
  \/ \E n \in PrNames : Takeover(n) \/ ResolveCaller(n) \/ \E p \in PrTraded : Accepts(n, p)
  \/ \E w \in PrWorks, p \in PrTraded :
       Add(w, p) \/ RemoveLink(w, p) \/ \E n \in PrNames : Transfer(w, p, n)
  \/ Refused

PrPagesNext ==
  \/ \E n \in PrNames : Takeover(n) \/ ResolveCaller(n)
  \/ \E w \in PrWorks, p \in PrIds : Add(w, p) \/ RemoveLink(w, p)
  \/ Refused
  \/ \E w \in PrWorks : FirstPage(w)
  \/ NextPage

PrNext == PrOwnersNext \/ PrPagesNext

PrSpec == PrInit /\ [][PrNext]_prVars

-----------------------------------------------------------------------------
\* An acceptance moves a pull request once: when it has come back to its first owner
\* the old acceptance is void, and so is one given before a transfer to somebody else.
AcceptanceMovesOnce ==
  \A i, j \in DOMAIN prMoves : prMoves[i] = prMoves[j] => i = j

\* Both ends of a transfer are held, at the moment of the transfer, by the sessions that
\* agreed on the pull request as it is: a takeover of either mailbox between the
\* acceptance, the caller's admission and the transaction voids it.
SessionsAgreed ==
  \A p \in PrIds : (prRows[p] # NoPullRequest /\ prRows'[p] # prRows[p]) =>
    \E d \in prMail :
      /\ d.pr = p /\ d.version = prRows[p].version
      /\ d.from = prRows'[p].owner /\ d.fromGen = prGen[d.from]
      /\ d.to = prRows[p].owner /\ d.toGen = prGen[d.to]

\* A reader that followed the cursors to the end has seen every pull request of the work
\* exactly as it was at one moment, whatever changed between its pages.
PagesAreOneSnapshot ==
  prReader.at = "done" => prReader.seen = prReader.basis

\* Transfers of a pull request beside takeovers, repeated acceptances and readers: an
\* acceptance moves it once, between sessions that agreed, and pages show one moment.
OwnershipIsSound ==
  [][AcceptanceMovesOnce' /\ SessionsAgreed /\ PagesAreOneSnapshot']_prVars
=============================================================================
