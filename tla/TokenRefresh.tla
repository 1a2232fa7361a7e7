---------------------------- MODULE TokenRefresh ----------------------------
(***************************************************************************)
(* The edge's OAuth provider (oauth_continuity.py): every client's tokens  *)
(* are bound to one shared GitHub credential, whose refresh token can be   *)
(* spent once.  Refreshes run under one process-local lock; a client that  *)
(* lost the answer of its refresh is given the same pair again from a      *)
(* bounded cache that does not survive a restart.  FastMCP's base class    *)
(* and GitHub are modelled from how the provider uses them.  A request of  *)
(* another client for somebody's token is refused and changes nothing.     *)
(***************************************************************************)
EXTENDS Naturals, Sequences, FiniteSets

CONSTANTS
  TfCalls,    \* requests in progress at a time
  TfLines,    \* authorizations the user gives at GitHub, numbered
  TfOld,      \* the ones given before the shared credential existed
  TfPairs,    \* bound on the token pairs issued
  TfWindow,   \* REFRESH_REPLAY_MAX_ENTRIES
  TfSpan,     \* bound on the credentials of one authorization
  TfUpsets    \* bound on restarts, revocations and failed calls to GitHub

VARIABLES
  tfGit,      \* GitHub, per authorization: the current credential, expired, revoked
  tfUp,       \* _upstream_token_store
  tfPair,     \* pairs issued: _refresh_token_store and _jti_mapping_store
  tfReplay,   \* _refresh_replays: token -> pair, expired, place in the order of use
  tfCall,     \* requests being served
  tfKnown,    \* pairs that reached their client
  tfSpent,    \* credentials this process has refreshed (observer)
  tfUpsets    \* restarts, revocations and failed calls to GitHub so far (observer)

tfVars == <<tfGit, tfUp, tfPair, tfReplay, tfCall, tfKnown, tfSpent, tfUpsets>>

ASSUME TokenConstants ==
  /\ TfOld \subseteq TfLines /\ TfLines \subseteq Nat \ {0}
  /\ IsFiniteSet(TfOld) /\ TfOld = 1..Cardinality(TfOld)
  /\ TfPairs \in Nat /\ TfWindow \in Nat \ {0} /\ TfSpan \in Nat \ {0}
  /\ TfUpsets \in Nat

NoCred == [line |-> 0, n |-> 0]
Resting == [at |-> "idle"]
Shared == 0      \* CANONICAL_UPSTREAM_TOKEN_ID; a line is its own credential's id
Unmapped == <<>> \* a mapping is <<id>>
NoReplays == [t \in {} |-> 0]

\* Clients of an earlier release, each with its own credential; one may be shared already.
TfInit ==
  /\ tfGit = [l \in TfLines |-> [n |-> 1, aged |-> FALSE, ok |-> TRUE]]
  /\ \E first \in TfOld \cup {Shared} :
       /\ tfUp = [u \in TfLines \cup {Shared} |->
                    IF u = Shared /\ first # Shared THEN [line |-> first, n |-> 1]
                    ELSE IF u \in TfOld \ {first} THEN [line |-> u, n |-> 1] ELSE NoCred]
       /\ tfPair = [p \in 1..Cardinality(TfOld) |->
                      LET u == IF p = first THEN Shared ELSE p IN
                      [from |-> 0, stored |-> TRUE, refresh |-> <<u>>, access |-> <<u>>]]
  /\ tfReplay = NoReplays
  /\ tfCall = [r \in TfCalls |-> Resting]
  /\ tfKnown = DOMAIN tfPair
  /\ tfSpent = {} /\ tfUpsets = 0

-----------------------------------------------------------------------------
\* The refresh token of c is the one GitHub will take; its access token is good as well
\* unless it has expired (_valid_upstream).
Live(c) == c # NoCred /\ tfGit[c.line].ok /\ tfGit[c.line].n = c.n

Valid(c) == Live(c) /\ ~tfGit[c.line].aged

Successor(c) == [c EXCEPT !.n = @ + 1]

Spend(c) ==
  /\ Live(c) /\ c.n < TfSpan
  /\ tfGit' = [tfGit EXCEPT ![c.line].n = @ + 1, ![c.line].aged = FALSE]

Upset == tfUpsets < TfUpsets /\ tfUpsets' = tfUpsets + 1

\* Mutant: refreshes do not wait for each other.
NobodyWaits == TRUE

\* The canonical refresh lock.
RefreshLockFree == \A r \in TfCalls : tfCall[r].at \in {"idle", "loaded", "answer"}

Proceeds(r, state) == tfCall' = [tfCall EXCEPT ![r] = state]

\* The replays of the tokens in T, in the order they have, and t as the most recent one.
Kept(T) ==
  [u \in T |-> [pair |-> tfReplay[u].pair, old |-> tfReplay[u].old,
                rank |-> Cardinality({v \in T : tfReplay[v].rank < tfReplay[u].rank})]]

Newest(T, t, p) ==
  [u \in T \cup {t} |->
     IF u = t THEN [pair |-> p, old |-> FALSE, rank |-> Cardinality(T)] ELSE Kept(T)[u]]

Replayed == DOMAIN tfReplay

\* _load_refresh_replay: within its window and with the successor unspent.
ReplayHolds(t) ==
  /\ t \in Replayed /\ ~tfReplay[t].old
  /\ LET s == tfPair[tfReplay[t].pair] IN s.stored /\ s.refresh = <<Shared>>

\* The replay is used, and is then the most recent, or found unusable and dropped.
Touched(t) ==
  IF ReplayHolds(t) THEN Newest(Replayed \ {t}, t, tfReplay[t].pair) ELSE Kept(Replayed \ {t})

\* load_refresh_token, at the start of a request.
LoadRefreshToken(r, t) ==
  /\ tfCall[r] = Resting /\ t \in tfKnown
  /\ \/ tfPair[t].stored /\ Proceeds(r, [at |-> "loaded", token |-> t]) /\ UNCHANGED tfReplay
     \/ /\ ~tfPair[t].stored /\ RefreshLockFree
        /\ tfReplay' = Touched(t)
        /\ IF ReplayHolds(t) THEN Proceeds(r, [at |-> "loaded", token |-> t]) ELSE UNCHANGED tfCall
  /\ UNCHANGED <<tfGit, tfUp, tfPair, tfKnown, tfSpent, tfUpsets>>

\* exchange_refresh_token takes the lock and looks the token's mapping up.
ExchangeRefreshToken(r) ==
  /\ tfCall[r].at = "loaded" /\ RefreshLockFree
  /\ LET t == tfCall[r].token
         unmapped == tfPair[t].refresh = Unmapped
     IN
     /\ tfReplay' = IF unmapped THEN Touched(t) ELSE tfReplay
     /\ Proceeds(r, IF unmapped /\ ReplayHolds(t)
                  THEN [at |-> "answer", token |-> t,
                        pair |-> tfReplay[t].pair]
                ELSE IF unmapped /\ (t \in Replayed \/ ~tfPair[t].stored) THEN Resting
                ELSE [at |-> IF tfPair[t].refresh = <<Shared>> THEN "present" ELSE "rebind",
                      token |-> t, use |-> "refresh", again |-> FALSE])
  /\ UNCHANGED <<tfGit, tfUp, tfPair, tfKnown, tfSpent, tfUpsets>>

\* load_access_token of a pair whose access token is not bound to the shared credential.
LoadAccessToken(r, p) ==
  /\ tfCall[r] = Resting /\ RefreshLockFree
  /\ p \in tfKnown /\ tfPair[p].access # <<Shared>>
  /\ Proceeds(r, [at |-> "rebind", token |-> p, use |-> "access"])
  /\ UNCHANGED <<tfGit, tfUp, tfPair, tfReplay, tfKnown, tfSpent, tfUpsets>>

Rebound(call) ==
  [tfPair EXCEPT ![call.token] =
     IF call.use = "refresh" THEN [@ EXCEPT !.refresh = <<Shared>>]
     ELSE [@ EXCEPT !.access = <<Shared>>]]

\* _rebind_to_valid_canonical: bound to the shared credential when GitHub vouches for it;
\* a question to GitHub that fails counts as a no.
RebindToValidCanonical(r) ==
  /\ tfCall[r].at = "rebind"
  /\ \E good \in BOOLEAN :
       LET call == tfCall[r] IN
       /\ \/ good = Valid(tfUp[Shared]) /\ (good \/ ~Live(tfUp[Shared])) /\ UNCHANGED tfUpsets
          \/ ~good /\ Live(tfUp[Shared]) /\ Upset
       /\ tfPair' = IF good THEN Rebound(call) ELSE tfPair
       /\ Proceeds(r, IF call.use = "refresh" THEN [call EXCEPT !.at = "present"]
                  ELSE IF good THEN Resting ELSE [call EXCEPT !.at = "own"])
  /\ UNCHANGED <<tfGit, tfUp, tfReplay, tfKnown, tfSpent>>

\* _fresh_valid_upstream: the shared access token has expired and is refreshed in place;
\* without GitHub's answer nothing is rebound.
Renews(r) ==
  /\ tfCall[r].at = "rebind" /\ ~Valid(tfUp[Shared])
  /\ Spend(tfUp[Shared])
  /\ \/ /\ tfUp' = [tfUp EXCEPT ![Shared] = Successor(@)]
        /\ tfSpent' = tfSpent \cup {tfUp[Shared]}
        /\ UNCHANGED <<tfCall, tfUpsets>>
     \/ /\ Upset
        /\ Proceeds(r, [tfCall[r] EXCEPT !.at = IF tfCall[r].use = "refresh" THEN "present" ELSE "own"])
        /\ UNCHANGED <<tfUp, tfSpent>>
  /\ UNCHANGED <<tfPair, tfReplay, tfKnown>>

\* The credential the access token of a pair is bound to.
OwnCredential(call) ==
  IF tfPair[call.token].access = Unmapped THEN NoCred ELSE tfUp[tfPair[call.token].access[1]]

\* load_access_token without a good shared credential: the token's own credential, when
\* it is good, becomes the shared one.
PromoteOwnCredential(r) ==
  /\ tfCall[r].at = "own"
  /\ LET call == tfCall[r] IN
     /\ Valid(OwnCredential(call)) \/ ~Live(OwnCredential(call))
     /\ IF Valid(OwnCredential(call))
        THEN /\ tfUp' = [tfUp EXCEPT ![Shared] = OwnCredential(call)]
             /\ tfPair' = Rebound(call)
        ELSE UNCHANGED <<tfUp, tfPair>>
  /\ Proceeds(r, Resting)
  /\ UNCHANGED <<tfGit, tfReplay, tfKnown, tfSpent, tfUpsets>>

\* The base class refreshes the credential u of an access token that has expired.
BaseRenews(u) ==
  /\ ~Valid(tfUp[u]) /\ Spend(tfUp[u])
  /\ \/ /\ tfUp' = [tfUp EXCEPT ![u] = Successor(@)]
        /\ tfSpent' = tfSpent \cup {tfUp[u]} /\ UNCHANGED tfUpsets
     \/ Upset /\ UNCHANGED <<tfUp, tfSpent>>
  /\ UNCHANGED <<tfPair, tfReplay, tfCall, tfKnown>>

RenewsShared == RefreshLockFree /\ BaseRenews(Shared)

RenewsOwn(r) ==
  /\ tfCall[r].at = "own" /\ tfPair[tfCall[r].token].access # Unmapped
  /\ BaseRenews(tfPair[tfCall[r].token].access[1])

-----------------------------------------------------------------------------
(* The base class's exchange: GitHub is asked, then the pair is rotated.    *)

Source(call) ==
  IF ~tfPair[call.token].stored \/ tfPair[call.token].refresh = Unmapped THEN NoCred
  ELSE tfUp[tfPair[call.token].refresh[1]]

\* GitHub spends the credential and answers.
GitHubRefreshes(r) ==
  /\ tfCall[r].at = "present"
  /\ LET c == Source(tfCall[r]) IN
     /\ Spend(c)
     /\ tfSpent' = tfSpent \cup {c}
     /\ Proceeds(r, [at |-> "received", token |-> tfCall[r].token,
                 up |-> tfPair[tfCall[r].token].refresh[1], cred |-> Successor(c)])
  /\ UNCHANGED <<tfUp, tfPair, tfReplay, tfKnown, tfUpsets>>

\* _rebind_to_repaired_canonical: a good shared credential other than the one that failed.
RepairedCanonical(call) ==
  /\ Valid(tfUp[Shared])
  /\ tfPair[call.token].refresh = <<Shared>> => tfUp[Shared] # Source(call)

\* GitHub refuses, or its answer is lost; one more try with a repaired credential.
RefreshFails(r) ==
  /\ tfCall[r].at = "present"
  /\ LET call == tfCall[r]
         c == Source(call)
     IN
     /\ \/ ~Live(c) /\ UNCHANGED <<tfGit, tfUpsets>>
        \/ Spend(c) /\ Upset
     /\ IF ~call.again /\ c # NoCred /\ RepairedCanonical(call)
        THEN tfPair' = Rebound(call) /\ Proceeds(r, [call EXCEPT !.again = TRUE])
        ELSE UNCHANGED tfPair /\ Proceeds(r, Resting)
  /\ UNCHANGED <<tfUp, tfReplay, tfKnown, tfSpent>>

\* The base stores the credential, issues the next pair and consumes the old token.
Rotates(r) ==
  /\ tfCall[r].at = "received" /\ Len(tfPair) < TfPairs
  /\ LET call == tfCall[r] IN
     /\ tfUp' = [tfUp EXCEPT ![call.up] = call.cred]
     /\ tfPair' = Append([tfPair EXCEPT ![call.token].stored = FALSE,
                                        ![call.token].refresh = Unmapped],
                         [from |-> call.token, stored |-> TRUE,
                          refresh |-> <<call.up>>, access |-> <<call.up>>])
     /\ Proceeds(r, [at |-> "share", token |-> call.token, up |-> call.up, pair |-> Len(tfPair) + 1])
  /\ UNCHANGED <<tfGit, tfReplay, tfKnown, tfSpent, tfUpsets>>

\* exchange_authorization_code: a new authorization of the allowed user.
ExchangeAuthorizationCode(r, l) ==
  /\ tfCall[r] = Resting /\ RefreshLockFree /\ Len(tfPair) < TfPairs
  /\ l \notin TfOld /\ tfUp[l] = NoCred /\ tfUp[Shared].line # l
  /\ tfGit[l].n = 1 /\ [line |-> l, n |-> 1] \notin tfSpent
  /\ tfUp' = [tfUp EXCEPT ![l] = [line |-> l, n |-> 1]]
  /\ tfPair' = Append(tfPair, [from |-> 0, stored |-> TRUE, refresh |-> <<l>>, access |-> <<l>>])
  /\ Proceeds(r, [at |-> "share", token |-> 0, up |-> l, pair |-> Len(tfPair) + 1])
  /\ UNCHANGED <<tfGit, tfReplay, tfKnown, tfSpent, tfUpsets>>

(* _converge_issued_tokens: put, rebind, delete, each a write of its own.   *)
PutCanonical(r) ==
  /\ tfCall[r].at = "share"
  /\ tfUp' = [tfUp EXCEPT ![Shared] = tfUp[tfCall[r].up]]
  /\ Proceeds(r, [tfCall[r] EXCEPT !.at = "bind"])
  /\ UNCHANGED <<tfGit, tfPair, tfReplay, tfKnown, tfSpent, tfUpsets>>

BothBound(p) == [tfPair EXCEPT ![p].refresh = <<Shared>>, ![p].access = <<Shared>>]

Rebind(r) ==
  /\ tfCall[r].at = "bind"
  /\ tfPair' = BothBound(tfCall[r].pair)
  /\ Proceeds(r, [tfCall[r] EXCEPT !.at = "clear"])
  /\ UNCHANGED <<tfGit, tfUp, tfReplay, tfKnown, tfSpent, tfUpsets>>

\* _remember_refresh_replay: expired entries go, and beyond the window the oldest.
Remembered(t, p) ==
  LET young == {u \in Replayed \ {t} : ~tfReplay[u].old}
      recent == {u \in young : \E v \in young : tfReplay[v].rank < tfReplay[u].rank}
  IN Newest(IF Cardinality(young) < TfWindow THEN young ELSE recent, t, p)

DeleteSource(r) ==
  /\ tfCall[r].at = "clear"
  /\ LET call == tfCall[r] IN
     /\ tfUp' = [tfUp EXCEPT ![call.up] = IF call.up = Shared THEN @ ELSE NoCred]
     /\ tfReplay' = IF call.token = 0 THEN tfReplay ELSE Remembered(call.token, call.pair)
     /\ Proceeds(r, [at |-> "answer", token |-> call.token, pair |-> call.pair])
  /\ UNCHANGED <<tfGit, tfPair, tfKnown, tfSpent, tfUpsets>>

\* The answer reaches the client, or does not.
AnswersClient(r) ==
  /\ tfCall[r].at = "answer"
  /\ Proceeds(r, Resting)
  /\ tfKnown' \in {tfKnown, tfKnown \cup {tfCall[r].pair}}
  /\ UNCHANGED <<tfGit, tfUp, tfPair, tfReplay, tfSpent, tfUpsets>>

-----------------------------------------------------------------------------
ReplayExpires(t) ==
  /\ ~tfReplay[t].old
  /\ tfReplay' = [tfReplay EXCEPT ![t].old = TRUE]
  /\ UNCHANGED <<tfGit, tfUp, tfPair, tfCall, tfKnown, tfSpent, tfUpsets>>

\* The mappings of old pairs may live shorter than their tokens; _rebind gives a mapping
\* the token's own time.
MappingExpires(p) ==
  /\ p \in TfOld /\ tfPair[p].stored
  /\ tfPair' = [tfPair EXCEPT ![p].refresh = Unmapped, ![p].access = Unmapped]
  /\ \A r \in TfCalls : tfCall[r].at \in {"idle", "loaded"}
  /\ UNCHANGED <<tfGit, tfUp, tfReplay, tfCall, tfKnown, tfSpent, tfUpsets>>

CredentialAges(l) ==
  /\ ~tfGit[l].aged /\ tfGit[l].n < TfSpan
  /\ tfGit' = [tfGit EXCEPT ![l].aged = TRUE]
  /\ UNCHANGED <<tfUp, tfPair, tfReplay, tfCall, tfKnown, tfSpent, tfUpsets>>

UserRevokes(l) ==
  /\ tfGit[l].ok
  /\ tfGit' = [tfGit EXCEPT ![l].ok = FALSE]
  /\ Upset
  /\ UNCHANGED <<tfUp, tfPair, tfReplay, tfCall, tfKnown, tfSpent>>

Restarts ==
  /\ tfCall' = [r \in TfCalls |-> Resting]
  /\ tfReplay' = NoReplays /\ Upset
  /\ UNCHANGED <<tfGit, tfUp, tfPair, tfKnown, tfSpent>>

TfNext ==
  \/ \E r \in TfCalls :
       \/ \E t \in DOMAIN tfPair : LoadRefreshToken(r, t) \/ LoadAccessToken(r, t)
       \/ \E l \in TfLines : ExchangeAuthorizationCode(r, l)
       \/ ExchangeRefreshToken(r) \/ RebindToValidCanonical(r) \/ Renews(r)
       \/ PromoteOwnCredential(r) \/ RenewsOwn(r) \/ GitHubRefreshes(r) \/ RefreshFails(r)
       \/ Rotates(r) \/ PutCanonical(r) \/ Rebind(r) \/ DeleteSource(r) \/ AnswersClient(r)
  \/ RenewsShared
  \/ \E t \in Replayed : ReplayExpires(t)
  \/ \E p \in DOMAIN tfPair : MappingExpires(p)
  \/ \E l \in TfLines : CredentialAges(l) \/ UserRevokes(l)
  \/ Restarts

TfSpec == TfInit /\ [][TfNext]_tfVars

-----------------------------------------------------------------------------
\* The answer to a refresh is the one pair issued for that token, and when the request
\* decides to give it, that pair is unspent and bound to the shared credential: a repeated
\* request, however late, never hands the client a token that is already used up.
AnswerIsLiveSuccessor ==
  \A r \in TfCalls :
    (tfCall'[r].at = "answer" /\ tfCall[r].at # "answer" /\ tfCall'[r].token # 0) =>
      LET p == tfPair'[tfCall'[r].pair] IN
      /\ p.from = tfCall'[r].token
      /\ p.stored /\ p.refresh = <<Shared>>

\* Without a restart, a revocation or a failed call to GitHub, a request never takes a credential to
\* GitHub that this process has already refreshed, through whatever copy of it: the second
\* use of a refresh token would fail and could end the authorization of every client.
CredentialSpentOnce ==
  tfUpsets = 0 => \A r \in TfCalls :
    /\ tfCall[r].at = "present" => Source(tfCall[r]) \notin tfSpent
    /\ tfCall[r].at = "rebind" => tfUp[Shared] \notin tfSpent

\* A refresh token that can still be used is never bound to a credential that is gone,
\* wherever a restart interrupts the convergence of a new pair.
MappedCredentialExists ==
  \A p \in DOMAIN tfPair :
    (tfPair[p].stored /\ tfPair[p].refresh # Unmapped) => tfUp[tfPair[p].refresh[1]] # NoCred

\* Concurrent, repeated and interrupted refreshes: the answer is the live successor, the
\* upstream credential is spent once, and no mapping points at a missing credential.
RefreshIsSound ==
  [][AnswerIsLiveSuccessor /\ CredentialSpentOnce' /\ MappedCredentialExists']_tfVars
=============================================================================
