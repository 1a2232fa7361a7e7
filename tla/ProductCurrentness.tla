-------------------------- MODULE ProductCurrentness --------------------------
(***************************************************************************)
(* Whether the deployed product is current: the reconciliation of five     *)
(* sources read one after another (product_currentness.py) from the edge's *)
(* process, its database and a sealed receipt                              *)
(* (product_currentness_stateful.py), and the qualifier that earns that    *)
(* receipt (stateful_qualifier.py).  Migrations, other qualifiers and      *)
(* other writers of the disposable work go on between any two reads; reads *)
(* fail and the qualifier dies.                                            *)
(*                                                                         *)
(* The process reads its own configuration and tools, which do not change  *)
(* while it runs, so a basis token stands for what the database shows.     *)
(***************************************************************************)
EXTENDS Naturals, Sequences

CONSTANTS
  CkStores,   \* what the three persistence queries may show
  CkReady,    \* those with the expected migration, its receipt and the table
  CkServers,  \* the edge's processes: is it the selected one, enabled, of the expected schema
  CkRuns,     \* how often the attempt is started
  CkUpsets    \* migrations, failed reads, foreign edits and crashes, in all

ASSUME CkAssumption == CkReady \subseteq CkStores /\ "none" \notin CkStores

VARIABLES
  ckWho,      \* who evaluates: the edge's tool or the qualifier
  ckServer,   \* the process, as the evaluator sees it
  ckStore,    \* the database
  ckReceipt,  \* the sealed receipt on file, or nothing
  ckEval,     \* one evaluation
  ckAttempt,  \* the qualifier's process
  ckJournal,  \* prepared.json: the observed revision, 0 before it is written
  ckWork,     \* the disposable work: its revision, and the attempt's effect on it
  ckResult,   \* result.json: the receipt it names
  ckUpsets,
  ckMoments   \* what was live at each moment since the last token was rechecked

ckVars == <<ckWho, ckServer, ckStore, ckReceipt, ckEval, ckAttempt, ckJournal, ckWork, ckResult,
            ckUpsets, ckMoments>>

-----------------------------------------------------------------------------
STATEFUL_REQUIRED_SOURCES ==
  <<"runtime_identity", "feature_enabled", "schema_surface", "persistence_ready",
    "functional_proof">>

CkPositions == DOMAIN STATEFUL_REQUIRED_SOURCES
ProofPosition == Len(STATEFUL_REQUIRED_SOURCES)

\* The qualifier builds its snapshot from the identity it expects and the tools it is shown;
\* the receipt it seals names them.
Expected(server) == [server EXCEPT !.selected = TRUE, !.expected = TRUE]

Sealed(store) == [server |-> Expected(ckServer), store |-> store]

CkVerdict(b) == IF b THEN "TRUE" ELSE "FALSE"

\* A receipt sealed for anything but this exact process, contract and database conflicts.
FunctionalProof(store, receipts) ==
  CASE receipts = {} -> "UNKNOWN"
    [] receipts = {[server |-> ckServer, store |-> store]} -> "TRUE"
    [] OTHER -> "CONFLICT"

\* The outcome tool is one of the required tools and is listed only when it is enabled.
Condition(i, store, receipts) ==
  CASE STATEFUL_REQUIRED_SOURCES[i] = "runtime_identity" -> CkVerdict(ckServer.selected)
    [] STATEFUL_REQUIRED_SOURCES[i] = "feature_enabled" -> CkVerdict(ckServer.enabled)
    [] STATEFUL_REQUIRED_SOURCES[i] = "schema_surface" ->
         CkVerdict(ckServer.expected /\ ckServer.enabled)
    [] STATEFUL_REQUIRED_SOURCES[i] = "persistence_ready" -> CkVerdict(store \in CkReady)
    [] OTHER -> FunctionalProof(store, receipts)

\* The token of the proof is the digest of the file, whatever it is bound to.
SourceToken(i, store, receipts) ==
  CASE STATEFUL_REQUIRED_SOURCES[i] = "persistence_ready" -> store
    [] STATEFUL_REQUIRED_SOURCES[i] = "functional_proof" ->
         IF receipts = {} THEN "none" ELSE "receipt"
    [] OTHER -> "server"

Unavailable == [result |-> "UNKNOWN", token |-> "none", basis |-> "none"]

Evidence(i, store, receipts) ==
  IF Condition(i, store, receipts) = "UNKNOWN" THEN Unavailable
  ELSE [result |-> Condition(i, store, receipts), token |-> SourceToken(i, store, receipts),
        basis |-> store]

SharedBasisAtStart(e) ==
  IF e.basis # "none" /\ e.binding = e.basis THEN e.basis ELSE "none"

SharedBasis(e) ==
  IF e.basis # "none" /\ e.basis = e.endBasis /\ e.binding = e.endBinding /\ e.binding = e.basis
  THEN e.basis ELSE "none"

Coherent(e, i) ==
  LET item == e.items[i] IN
  IF /\ SharedBasis(e) # "none" /\ item.basis = SharedBasis(e)
     /\ item.token # "none" /\ e.tokens[i] = item.token
  THEN item.result ELSE "UNKNOWN"

Aggregate(results) ==
  IF "CONFLICT" \in results THEN "CONFLICT"
  ELSE IF "FALSE" \in results THEN "FALSE"
  ELSE IF "UNKNOWN" \in results THEN "UNKNOWN" ELSE "TRUE"

-----------------------------------------------------------------------------
\* A read of the database, and through it of the basis: what is there, or a failure.
ReadsStore(v) ==
  \/ v = ckStore /\ UNCHANGED ckUpsets
  \/ v = "none" /\ ckUpsets > 0 /\ ckUpsets' = ckUpsets - 1

NotEvaluating == [at |-> "idle"]

\* The qualifier's first evaluation has no receipt configured.
EvBegin(receipted) ==
  ckEval' = [at |-> "binding", receipted |-> receipted, binding |-> "none", basis |-> "none",
             held |-> "none", items |-> <<>>, tokens |-> <<>>, endBasis |-> "none",
             endBinding |-> "none", final |-> <<>>, current |-> "UNKNOWN"]

Configured(e) == IF e.receipted THEN ckReceipt ELSE {}

\* An unreadable binding is unbound: UNKNOWN, with no condition reported.
EvBinding(v) ==
  /\ ckEval.at = "binding"
  /\ ckEval' = IF v = "none" THEN [ckEval EXCEPT !.at = "answered"]
               ELSE [ckEval EXCEPT !.at = "basis", !.binding = v]

EvBasis(v) ==
  /\ ckEval.at = "basis"
  /\ ckEval' = [ckEval EXCEPT !.at = "read", !.basis = v]

EvRead(v) ==
  /\ ckEval.at = "read"
  /\ LET i == Len(ckEval.items) + 1 IN
     ckEval' = IF i = ProofPosition /\ v # "none" THEN [ckEval EXCEPT !.at = "proof", !.held = v]
               ELSE [ckEval EXCEPT
                 !.at = IF i = ProofPosition THEN "recheck" ELSE "read",
                 !.items = Append(@, IF v = "none" THEN Unavailable ELSE Evidence(i, v, {}))]

\* The receipt is read from its file after the database has answered.
EvProof ==
  /\ ckEval.at = "proof"
  /\ ckEval' = [ckEval EXCEPT
       !.at = "recheck",
       !.items = Append(@, Evidence(ProofPosition, ckEval.held, Configured(ckEval)))]
  /\ UNCHANGED ckUpsets

EvRecheck(v) ==
  /\ ckEval.at = "recheck"
  /\ LET i == Len(ckEval.tokens) + 1 IN
     ckEval' = [ckEval EXCEPT
       !.at = IF i = ProofPosition THEN "endBasis" ELSE "recheck",
       !.tokens = Append(@, IF v = "none" THEN "none"
                            ELSE SourceToken(i, v, Configured(ckEval)))]

EvEndBasis(v) ==
  /\ ckEval.at = "endBasis"
  /\ ckEval' = [ckEval EXCEPT !.at = "endBinding", !.endBasis = v]

EvAnswer(v) ==
  /\ ckEval.at = "endBinding"
  /\ LET e == [ckEval EXCEPT !.endBinding = v]
         final == [i \in CkPositions |-> Coherent(e, i)]
     IN ckEval' = [e EXCEPT !.at = "answered", !.final = final,
                            !.current = Aggregate({final[i] : i \in CkPositions})]

EvStep ==
  \/ \E v \in CkStores \cup {"none"} :
       /\ ReadsStore(v)
       /\ \/ EvBinding(v) \/ EvBasis(v) \/ EvRead(v) \/ EvRecheck(v) \/ EvEndBasis(v) \/ EvAnswer(v)
  \/ EvProof

Evaluate ==
  /\ EvStep
  /\ UNCHANGED <<ckWho, ckServer, ckStore, ckReceipt, ckAttempt, ckJournal, ckWork, ckResult>>

Blockers(e) == {i \in DOMAIN e.final : e.final[i] # "TRUE"}

-----------------------------------------------------------------------------
\* The edge's product_currentness tool is called; its process may be any of CkServers.
EdgeAsks ==
  /\ ckWho = "edge" /\ ckEval = NotEvaluating
  /\ EvBegin(TRUE)
  /\ UNCHANGED <<ckWho, ckServer, ckStore, ckReceipt, ckAttempt, ckJournal, ckWork, ckResult,
                 ckUpsets>>

AttemptIdle(n) == [at |-> "idle", runs |-> n, basis |-> "none", seen |-> 0]

Quit == ckAttempt' = AttemptIdle(ckAttempt.runs) /\ ckEval' = NotEvaluating

\* An attempt that finds another process or other tools than it was told to expect ends here.
QualifyStart ==
  /\ ckWho = "qualifier" /\ ckAttempt.at = "idle" /\ ckAttempt.runs < CkRuns
  /\ ckAttempt' = [AttemptIdle(ckAttempt.runs + 1) EXCEPT !.at = "before"]
  /\ EvBegin(FALSE)
  /\ UNCHANGED <<ckJournal, ckWork, ckResult, ckReceipt, ckUpsets>>

QualifyReady ==
  /\ ckAttempt.at = "before" /\ ckEval.at = "answered"
  /\ IF ckEval.current = "UNKNOWN" /\ ckEval.final # <<>> /\ Blockers(ckEval) = {ProofPosition}
     THEN ckAttempt' = [ckAttempt EXCEPT !.at = "basis"] /\ ckEval' = NotEvaluating
     ELSE Quit
  /\ UNCHANGED <<ckJournal, ckWork, ckResult, ckReceipt, ckUpsets>>

\* qualification_basis, then work_get of the disposable work.
QualifyBasis ==
  /\ ckAttempt.at = "basis"
  /\ \E v \in CkStores \cup {"none"} :
       /\ ReadsStore(v)
       /\ IF v = "none" THEN Quit
          ELSE /\ ckAttempt' = [ckAttempt EXCEPT !.at = "prepare", !.basis = v,
                                                 !.seen = ckWork.rev]
               /\ UNCHANGED ckEval
  /\ UNCHANGED <<ckJournal, ckWork, ckResult, ckReceipt>>

\* _load_or_prepare: a repeated attempt goes on with the revision it first observed.
QualifyPrepare ==
  /\ ckAttempt.at = "prepare"
  /\ ckJournal' = IF ckJournal = 0 THEN ckAttempt.seen ELSE ckJournal
  /\ ckAttempt' = [ckAttempt EXCEPT !.at = "update"]
  /\ UNCHANGED <<ckEval, ckWork, ckResult, ckReceipt, ckUpsets>>

\* The one real effect, under an operation id derived from the attempt: applied once,
\* replayed when it is on record, refused when somebody else revised the work first.
QualifyUpdate ==
  /\ ckAttempt.at = "update"
  /\ CASE ckWork.effect # 0 ->
            ckAttempt' = [ckAttempt EXCEPT !.at = "recheck"] /\ UNCHANGED <<ckWork, ckEval>>
       [] ckWork.effect = 0 /\ ckWork.rev = ckJournal ->
            /\ ckWork' = [ckWork EXCEPT !.rev = @ + 1, !.effect = ckWork.rev + 1]
            /\ ckAttempt' = [ckAttempt EXCEPT !.at = "recheck"] /\ UNCHANGED ckEval
       [] OTHER -> Quit /\ UNCHANGED ckWork
  /\ UNCHANGED <<ckJournal, ckResult, ckReceipt, ckUpsets>>

QualifyRecheck ==
  /\ ckAttempt.at = "recheck"
  /\ IF ckWork.rev = ckWork.effect
     THEN ckAttempt' = [ckAttempt EXCEPT !.at = "emit"] /\ UNCHANGED ckEval
     ELSE Quit
  /\ UNCHANGED <<ckJournal, ckWork, ckResult, ckReceipt, ckUpsets>>

\* The receipt is created, never replaced; an existing one is put to the same test.
Create(store) == IF ckReceipt = {} THEN {Sealed(store)} ELSE ckReceipt

QualifyEmit ==
  /\ ckAttempt.at = "emit"
  /\ ckReceipt' = Create(ckAttempt.basis)
  /\ ckAttempt' = [ckAttempt EXCEPT !.at = "after"]
  /\ EvBegin(TRUE)
  /\ UNCHANGED <<ckJournal, ckWork, ckResult, ckUpsets>>

QualifyPublish ==
  /\ ckAttempt.at = "after" /\ ckEval.at = "answered"
  /\ ckResult' = IF ckEval.current = "TRUE" /\ ckResult = {} THEN ckReceipt ELSE ckResult
  /\ Quit
  /\ UNCHANGED <<ckJournal, ckWork, ckReceipt, ckUpsets>>

Qualify ==
  /\ \/ QualifyStart \/ QualifyReady \/ QualifyBasis \/ QualifyPrepare \/ QualifyUpdate
     \/ QualifyRecheck \/ QualifyEmit \/ QualifyPublish
  /\ UNCHANGED <<ckWho, ckServer, ckStore>>

-----------------------------------------------------------------------------
\* What goes on beside it: a migration, another attempt's receipt, a foreign edit of the
\* disposable work, the death of the qualifier.
CkUpset ==
  /\ ckUpsets > 0 /\ ckUpsets' = ckUpsets - 1
  /\ \/ /\ \E s \in CkStores \ {ckStore} : ckStore' = s
        /\ UNCHANGED <<ckReceipt, ckWork, ckAttempt, ckEval>>
     \/ /\ ckReceipt = {} /\ \E s \in CkReady : ckReceipt' = Create(s)
        /\ UNCHANGED <<ckStore, ckWork, ckAttempt, ckEval>>
     \/ /\ ckWho = "qualifier" /\ ckWork' = [ckWork EXCEPT !.rev = @ + 1]
        /\ UNCHANGED <<ckStore, ckReceipt, ckAttempt, ckEval>>
     \/ /\ ckWho = "qualifier" /\ ckAttempt.at # "idle" /\ Quit
        /\ UNCHANGED <<ckStore, ckReceipt, ckWork>>
  /\ UNCHANGED <<ckWho, ckServer, ckJournal, ckResult>>

CkInit ==
  /\ ckWho \in {"edge", "qualifier"}
  /\ ckServer \in CkServers /\ (ckWho = "qualifier" => ckServer = Expected(ckServer))
  /\ ckStore \in CkStores
  /\ ckReceipt = {}
  /\ ckEval = NotEvaluating
  /\ ckAttempt = AttemptIdle(0)
  /\ ckJournal = 0
  /\ ckWork = [rev |-> 1, effect |-> 0]
  /\ ckResult = {}
  /\ ckUpsets = CkUpsets
  /\ ckMoments = {}

Moment == [store |-> ckStore, receipts |-> ckReceipt]

CkNext ==
  /\ EdgeAsks \/ Evaluate \/ Qualify \/ CkUpset
  /\ ckMoments' = IF ckEval'.at \in {"endBasis", "endBinding", "answered"}
                  THEN ckMoments \cup {Moment'} ELSE {}

CkSpec == CkInit /\ [][CkNext]_ckVars

-----------------------------------------------------------------------------
\* Every condition an evaluation reports as known held, all of them together, at one moment
\* after the last source was rechecked: a migration, a new receipt or a failed read
\* between any two of its reads never combines conditions of two different states.
AnswerHeldAtOnce ==
  ckEval.at = "answered" /\ ckEval.final # <<>> =>
    \E m \in ckMoments : \A i \in CkPositions :
      ckEval.final[i] # "UNKNOWN" =>
        ckEval.final[i] = Condition(i, m.store, IF ckEval.receipted THEN m.receipts ELSE {})

\* A published PASS names the receipt on file, sealed for this process and a database that
\* was ready, and the attempt's effect on the disposable work was made exactly once,
\* however often the attempt died and was repeated.
PassIsEarned ==
  ckResult # {} =>
    /\ ckResult = ckReceipt
    /\ \E s \in CkReady : ckResult = {Sealed(s)}
    /\ ckWork.effect = ckJournal + 1

\* What the product says of itself, and what a qualification rests on.
CurrentnessIsProved == AnswerHeldAtOnce /\ PassIsEarned
=============================================================================
