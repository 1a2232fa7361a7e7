----------------------------- MODULE HostProofs -----------------------------
(***************************************************************************)
(* Proofs about what runs on the host beside the edge: the retirement of a     *)
(* worktree, the managed runs of writers, the currentness check of a product    *)
(* claim, and the activation of the stable authorization service with its        *)
(* rollback and its failure evidence.                                           *)
(***************************************************************************)
EXTENDS WorktreeRetirement, WriterRuns, ProductCurrentness, StableAuth, FiniteSetTheorems,
        WellFoundedInduction,
        TLAPS

-----------------------------------------------------------------------------
(* WorktreeRetirement.                                                     *)

WtAmounts == [WtEvidence -> Nat]
WtIdentities == [complete : BOOLEAN, evidence : WtAmounts]
WtStarted ==
  [at : {"checked", "start", "mkdir", "move", "note", "unregister", "readback", "refused", "done"},
   plan : WtAmounts, moved : SUBSET WtEvidence, seen : WtAmounts, archivist : BOOLEAN]

RetirementTyped ==
  /\ wtDir \in [there : BOOLEAN, complete : BOOLEAN, evidence : WtAmounts]
  /\ wtRegistered \in BOOLEAN
  /\ wtArchive \in [made : BOOLEAN, evidence : WtAmounts]
  /\ wtPlan \in {NoPlan} \cup [made : {TRUE}, identity : WtIdentities]
  /\ wtReceipt \in {NoRetirement}
                     \cup [state : {"STARTED", "COMPLETE"}, plan : WtAmounts, listed : SUBSET WtEvidence]
  /\ wtApply \in [WtApplies -> {Unstarted} \cup WtStarted]
  /\ wtWrites \in Nat
  /\ \A e \in WtEvidence : wtDir.evidence[e] <= wtWrites

\* What an application relies on: only the one that made the archive moves anything, and
\* until the archive is there everything an application saw is still in the writer.
ApplicationFits(w) ==
  /\ w.plan = w.seen
  /\ \A e \in WtEvidence : w.seen[e] <= wtWrites
  /\ w.at \in {"move", "note", "unregister", "readback", "done"} => w.archivist
  /\ w.at \in {"checked", "start", "mkdir"} => ~w.archivist
  /\ w.archivist => wtArchive.made
  /\ ~w.archivist => w.moved = {}
  /\ (w.archivist \/ ~wtArchive.made) =>
       \A e \in WtEvidence : IF e \in w.moved THEN wtArchive.evidence[e] >= w.seen[e]
                             ELSE wtDir.evidence[e] >= w.seen[e]
  /\ w.at \in {"unregister", "readback", "done"} => \A e \in WtEvidence : w.seen[e] > 0 => e \in w.moved

ApplicationsFit == \A a \in WtApplies : wtApply[a] # Unstarted => ApplicationFits(wtApply[a])

Archives(a) == wtApply[a] # Unstarted /\ wtApply[a].archivist
OneArchivist == \A a, b \in WtApplies : Archives(a) /\ Archives(b) => a = b

\* The receipt on file lists what the one application that archives has moved, or nothing.
ReceiptFollows ==
  wtReceipt # NoRetirement =>
    /\ \/ wtReceipt.listed = {}
       \/ \E a \in WtApplies : /\ Archives(a) /\ wtReceipt.listed \subseteq wtApply[a].moved
                               /\ wtReceipt.plan = wtApply[a].plan
    /\ wtReceipt.state = "COMPLETE" =>
         /\ ~wtDir.there /\ ~wtRegistered
         /\ \A e \in WtEvidence : wtReceipt.plan[e] > 0 => e \in wtReceipt.listed

RetirementInv == RetirementTyped /\ ApplicationsFit /\ OneArchivist /\ ReceiptFollows

\* The invariant holds before anything is planned.
LEMMA RetirementStarts == WtInit => RetirementInv
<1> SUFFICES ASSUME WtInit PROVE RetirementInv
  OBVIOUS
<1>1. NoEvidence \in WtAmounts /\ \A e \in WtEvidence : NoEvidence[e] = 0
  BY DEF NoEvidence, WtAmounts
<1>2. RetirementTyped
  BY <1>1 DEF WtInit, RetirementTyped
<1>3. \A a \in WtApplies : wtApply[a] = Unstarted
  BY DEF WtInit
<1>4. wtReceipt = NoRetirement
  BY DEF WtInit
<1> QED BY <1>2, <1>3, <1>4 DEF RetirementInv, ApplicationsFit, OneArchivist, Archives, ReceiptFollows

\* An application is a record of its own kind from its first check on.
LEMMA StartedApplication ==
  ASSUME RetirementInv, NEW a \in WtApplies, wtApply[a].at # "ready"
  PROVE  wtApply[a] # Unstarted /\ wtApply[a] \in WtStarted /\ ApplicationFits(wtApply[a])
BY DEF RetirementInv, RetirementTyped, ApplicationsFit, Unstarted

\* The step of one application leaves all of them fitting when it and the others do.
LEMMA ApplicationsKeep ==
  ASSUME RetirementInv, NEW a \in WtApplies, NEW c \in WtStarted,
         wtApply' = [wtApply EXCEPT ![a] = c], ApplicationFits(c)',
         \A x \in WtApplies \ {a} : \A d \in WtStarted :
            (d = wtApply[x] /\ ApplicationFits(d)) => ApplicationFits(d)',
         c.archivist => \A x \in WtApplies \ {a} : ~Archives(x)
  PROVE  /\ wtApply' \in [WtApplies -> {Unstarted} \cup WtStarted]
         /\ ApplicationsFit' /\ OneArchivist'
<1>1. wtApply \in [WtApplies -> {Unstarted} \cup WtStarted] /\ ApplicationsFit /\ OneArchivist
  BY DEF RetirementInv, RetirementTyped
<1>2. /\ wtApply' \in [WtApplies -> {Unstarted} \cup WtStarted] /\ wtApply'[a] = c
      /\ \A x \in WtApplies \ {a} : wtApply'[x] = wtApply[x]
  BY <1>1
<1>3. ASSUME NEW x \in WtApplies, wtApply'[x] # Unstarted
      PROVE  ApplicationFits(wtApply[x])'
  <2>1. PICK d : d = wtApply'[x]
    OBVIOUS
  <2>2. ApplicationFits(d)'
    <3>1. CASE x = a
      BY <3>1, <2>1, <1>2
    <3>2. CASE x # a
      <4>1. d = wtApply[x] /\ d \in WtStarted
        BY <3>2, <2>1, <1>1, <1>2, <1>3
      <4>2. ApplicationFits(d)
        BY <4>1, <3>2, <1>1, <1>2, <1>3 DEF ApplicationsFit
      <4> QED BY <4>1, <4>2, <3>2
    <3> QED BY <3>1, <3>2
  <2> QED BY <2>1, <2>2 DEF ApplicationFits
<1>4. ApplicationsFit'
  BY <1>3 DEF ApplicationsFit
<1>5. \A x \in WtApplies \ {a} : Archives(x)' = Archives(x)
  BY <1>2 DEF Archives
<1>6. Archives(a)' => c.archivist
  BY <1>2 DEF Archives
<1>7. OneArchivist'
  BY <1>1, <1>5, <1>6 DEF OneArchivist
<1> QED BY <1>2, <1>4, <1>7

\* The receipt stays true while the application that archives keeps its plan and moves on.
LEMMA ReceiptKeeps ==
  ASSUME RetirementInv, NEW a \in WtApplies, NEW c \in WtStarted,
         wtApply' = [wtApply EXCEPT ![a] = c],
         Archives(a) => c.archivist /\ c.plan = wtApply[a].plan /\ wtApply[a].moved \subseteq c.moved,
         wtReceipt' = wtReceipt, ~wtDir.there => ~wtDir'.there, ~wtRegistered => ~wtRegistered'
  PROVE  ReceiptFollows'
<1>1. wtApply \in [WtApplies -> {Unstarted} \cup WtStarted] /\ ReceiptFollows
  BY DEF RetirementInv, RetirementTyped
<1>2. wtApply'[a] = c /\ c # Unstarted /\ \A x \in WtApplies \ {a} : wtApply'[x] = wtApply[x]
  BY <1>1 DEF WtStarted, Unstarted
<1>3. SUFFICES ASSUME wtReceipt # NoRetirement
               PROVE  /\ \/ wtReceipt.listed = {}
                         \/ \E x \in WtApplies : /\ Archives(x)' /\ wtReceipt.listed \subseteq wtApply'[x].moved
                                                 /\ wtReceipt.plan = wtApply'[x].plan
                      /\ wtReceipt.state = "COMPLETE" =>
                           /\ ~wtDir'.there /\ ~wtRegistered'
                           /\ \A e \in WtEvidence : wtReceipt.plan[e] > 0 => e \in wtReceipt.listed
  BY DEF ReceiptFollows
<1>4. CASE wtReceipt.listed = {}
  BY <1>1, <1>3, <1>4 DEF ReceiptFollows
<1>5. ASSUME NEW x \in WtApplies, Archives(x), wtReceipt.listed \subseteq wtApply[x].moved,
             wtReceipt.plan = wtApply[x].plan
      PROVE  Archives(x)' /\ wtReceipt.listed \subseteq wtApply'[x].moved
             /\ wtReceipt.plan = wtApply'[x].plan
  <2>1. CASE x = a
    BY <2>1, <1>2, <1>5 DEF Archives
  <2>2. CASE x # a
    BY <2>2, <1>2, <1>5 DEF Archives
  <2> QED BY <2>1, <2>2
<1> QED BY <1>1, <1>3, <1>4, <1>5 DEF ReceiptFollows

\* A step that only moves an application on, to a step it may be at.
LEMMA GotoKeeps ==
  ASSUME RetirementInv, NEW a \in WtApplies, wtApply[a].at # "ready",
         NEW pc \in {"checked", "start", "mkdir", "move", "note", "unregister", "readback", "refused", "done"},
         wtApply' = Goto(a, pc),
         pc \in {"move", "note", "unregister", "readback", "done"} => wtApply[a].archivist,
         pc \in {"checked", "start", "mkdir"} => ~wtApply[a].archivist,
         pc \in {"unregister", "readback", "done"} =>
            \A e \in WtEvidence : wtApply[a].seen[e] > 0 => e \in wtApply[a].moved,
         UNCHANGED <<wtDir, wtArchive, wtWrites>>
  PROVE  /\ wtApply' \in [WtApplies -> {Unstarted} \cup WtStarted]
         /\ ApplicationsFit' /\ OneArchivist'
         /\ (wtReceipt' = wtReceipt /\ (~wtRegistered => ~wtRegistered')) => ReceiptFollows'
         /\ wtApply'[a].archivist = wtApply[a].archivist /\ wtApply'[a].plan = wtApply[a].plan
         /\ wtApply'[a].moved = wtApply[a].moved /\ wtApply'[a] # Unstarted
<1>1. wtApply[a] # Unstarted /\ wtApply[a] \in WtStarted /\ ApplicationFits(wtApply[a])
  BY StartedApplication
<1>2. wtApply \in [WtApplies -> {Unstarted} \cup WtStarted]
  BY DEF RetirementInv, RetirementTyped
<1>3. PICK c : c = [wtApply[a] EXCEPT !.at = pc]
  OBVIOUS
<1>4. /\ c \in WtStarted /\ c.at = pc /\ c.plan = wtApply[a].plan /\ c.moved = wtApply[a].moved
      /\ c.seen = wtApply[a].seen /\ c.archivist = wtApply[a].archivist
  BY <1>1, <1>3 DEF WtStarted
<1>5. wtApply' = [wtApply EXCEPT ![a] = c]
  BY <1>2, <1>3 DEF Goto
<1>6. ApplicationFits(c)'
  BY <1>1, <1>4 DEF ApplicationFits
<1>7. \A x \in WtApplies \ {a} : \A d \in WtStarted :
         (d = wtApply[x] /\ ApplicationFits(d)) => ApplicationFits(d)'
  BY DEF ApplicationFits
<1>8. c.archivist => \A x \in WtApplies \ {a} : ~Archives(x)
  BY <1>1, <1>4 DEF RetirementInv, OneArchivist, Archives
<1>9. /\ wtApply' \in [WtApplies -> {Unstarted} \cup WtStarted]
      /\ ApplicationsFit' /\ OneArchivist'
  BY <1>4, <1>5, <1>6, <1>7, <1>8, ApplicationsKeep
<1>10. (wtReceipt' = wtReceipt /\ (~wtRegistered => ~wtRegistered')) => ReceiptFollows'
  BY <1>4, <1>5, ReceiptKeeps DEF Archives
<1>11. wtApply'[a] = c /\ c # Unstarted
  BY <1>2, <1>4, <1>5 DEF WtStarted, Unstarted
<1> QED BY <1>4, <1>9, <1>10, <1>11

\* A receipt written from an application lists what it has moved.
LEMMA NewReceipt ==
  ASSUME RetirementInv, NEW a \in WtApplies, wtApply[a].at # "ready",
         NEW state \in {"STARTED", "COMPLETE"}, wtReceipt' = RetireReceipt(a, state),
         wtApply'[a].archivist = wtApply[a].archivist, wtApply'[a].plan = wtApply[a].plan,
         wtApply'[a].moved = wtApply[a].moved, wtApply'[a] # Unstarted,
         state = "COMPLETE" =>
           /\ ~wtDir'.there /\ ~wtRegistered'
           /\ \A e \in WtEvidence : wtApply[a].seen[e] > 0 => e \in wtApply[a].moved
  PROVE  /\ ReceiptFollows'
         /\ wtReceipt' \in [state : {"STARTED", "COMPLETE"}, plan : WtAmounts, listed : SUBSET WtEvidence]
<1>1. wtApply[a] # Unstarted /\ wtApply[a] \in WtStarted /\ ApplicationFits(wtApply[a])
  BY StartedApplication
<1>2. /\ wtReceipt'.state = state /\ wtReceipt'.plan = wtApply[a].plan
      /\ wtReceipt'.listed = wtApply[a].moved
  BY DEF RetireReceipt
<1>3. wtReceipt' \in [state : {"STARTED", "COMPLETE"}, plan : WtAmounts, listed : SUBSET WtEvidence]
  BY <1>1 DEF RetireReceipt, WtStarted
<1>4. wtReceipt'.listed = {} \/ Archives(a)'
  BY <1>1, <1>2 DEF ApplicationFits, Archives
<1>5. wtApply[a].plan = wtApply[a].seen
  BY <1>1 DEF ApplicationFits
<1> QED BY <1>2, <1>3, <1>4, <1>5 DEF ReceiptFollows

\* Every step of the session, the applications and the pruning keeps the invariant.
LEMMA RetirementStep == RetirementInv /\ [WtNext]_wtVars => RetirementInv'
<1> SUFFICES ASSUME RetirementInv, [WtNext]_wtVars PROVE RetirementInv'
  OBVIOUS
<1>t. RetirementTyped /\ ApplicationsFit /\ OneArchivist /\ ReceiptFollows
  BY DEF RetirementInv
<1>k. ASSUME UNCHANGED <<wtDir, wtArchive, wtReceipt, wtApply, wtWrites>>,
             ~wtRegistered => ~wtRegistered', wtRegistered' \in BOOLEAN,
             wtPlan' \in {NoPlan} \cup [made : {TRUE}, identity : WtIdentities]
      PROVE  RetirementInv'
  <2>1. RetirementTyped'
    BY <1>t, <1>k DEF RetirementTyped
  <2>2. ApplicationsFit' /\ OneArchivist'
    BY <1>t, <1>k DEF ApplicationsFit, ApplicationFits, OneArchivist, Archives
  <2>3. ReceiptFollows'
    BY <1>t, <1>k DEF ReceiptFollows, Archives
  <2> QED BY <2>1, <2>2, <2>3 DEF RetirementInv
<1>p. wtPlan \in {NoPlan} \cup [made : {TRUE}, identity : WtIdentities] /\ wtRegistered \in BOOLEAN
  BY <1>t DEF RetirementTyped
<1>1. CASE UNCHANGED wtVars
  BY <1>1, <1>k, <1>p DEF wtVars
<1>2. ASSUME NEW e \in WtEvidence, WritesEvidence(e)
      PROVE  RetirementInv'
  <2>1. /\ wtDir' \in [there : BOOLEAN, complete : BOOLEAN, evidence : WtAmounts]
        /\ wtDir'.there = wtDir.there /\ wtDir'.evidence[e] = wtWrites + 1
        /\ \A f \in WtEvidence \ {e} : wtDir'.evidence[f] = wtDir.evidence[f]
    <3>1. wtWrites + 1 \in Nat /\ wtDir \in [there : BOOLEAN, complete : BOOLEAN, evidence : WtAmounts]
      BY <1>t DEF RetirementTyped
    <3>2. wtDir' = [wtDir EXCEPT !.evidence[e] = wtWrites + 1]
      BY <1>2 DEF WritesEvidence
    <3> QED BY <3>1, <3>2 DEF WtAmounts
  <2>2. /\ wtWrites' = wtWrites + 1
        /\ UNCHANGED <<wtRegistered, wtArchive, wtPlan, wtReceipt, wtApply, wtPrune>>
    BY <1>2 DEF WritesEvidence
  <2>3. RetirementTyped'
    <3>1. \A f \in WtEvidence : wtDir.evidence[f] \in Nat /\ wtDir.evidence[f] <= wtWrites
      BY <1>t DEF RetirementTyped, WtAmounts
    <3>2. wtWrites' \in Nat /\ \A f \in WtEvidence : wtDir'.evidence[f] <= wtWrites'
      BY <3>1, <2>1, <2>2, <1>t DEF RetirementTyped
    <3> QED BY <3>2, <2>1, <2>2, <1>t DEF RetirementTyped
  <2>4. ASSUME NEW d \in WtStarted, ApplicationFits(d)
        PROVE  ApplicationFits(d)'
    <3>1. \A f \in WtEvidence : d.seen[f] \in Nat /\ d.seen[f] <= wtWrites /\ wtDir.evidence[f] \in Nat
      BY <2>4, <1>t DEF WtStarted, WtAmounts, ApplicationFits, RetirementTyped
    <3>2. wtWrites \in Nat
      BY <1>t DEF RetirementTyped
    <3> QED BY <3>1, <3>2, <2>1, <2>2, <2>4 DEF ApplicationFits
  <2>5. ApplicationsFit'
    <3>1. \A a \in WtApplies : wtApply[a] # Unstarted => wtApply[a] \in WtStarted
      BY <1>t DEF RetirementTyped
    <3>2. ASSUME NEW a \in WtApplies, wtApply'[a] # Unstarted
          PROVE  ApplicationFits(wtApply[a])'
      <4>1. PICK d : d = wtApply[a]
        OBVIOUS
      <4>2. ApplicationFits(d)'
        BY <4>1, <3>1, <3>2, <2>2, <2>4, <1>t DEF ApplicationsFit
      <4> QED BY <4>1, <4>2, <2>2 DEF ApplicationFits
    <3> QED BY <3>2 DEF ApplicationsFit
  <2>6. OneArchivist' /\ ReceiptFollows'
    BY <2>1, <2>2, <1>t DEF OneArchivist, ReceiptFollows, Archives
  <2> QED BY <2>3, <2>5, <2>6 DEF RetirementInv
<1>3. ASSUME AssignmentChanges
      PROVE  RetirementInv'
  <2>1. /\ wtDir' \in [there : BOOLEAN, complete : BOOLEAN, evidence : WtAmounts]
        /\ wtDir'.there = wtDir.there /\ wtDir'.evidence = wtDir.evidence
    BY <1>3, <1>t DEF AssignmentChanges, RetirementTyped
  <2>2. /\ wtWrites' \in Nat /\ wtWrites' >= wtWrites /\ wtWrites \in Nat
        /\ UNCHANGED <<wtRegistered, wtArchive, wtPlan, wtReceipt, wtApply, wtPrune>>
    BY <1>3, <1>t DEF AssignmentChanges, RetirementTyped
  <2>3. \A f \in WtEvidence : wtDir.evidence[f] \in Nat /\ wtDir.evidence[f] <= wtWrites
    BY <1>t DEF RetirementTyped, WtAmounts
  <2>4. RetirementTyped'
    <3>1. \A f \in WtEvidence : wtDir'.evidence[f] <= wtWrites'
      BY <2>1, <2>2, <2>3
    <3> QED BY <3>1, <2>1, <2>2, <1>t DEF RetirementTyped
  <2>5. ASSUME NEW a \in WtApplies, wtApply'[a] # Unstarted
        PROVE  ApplicationFits(wtApply[a])'
    <3>1. wtApply[a] \in WtStarted /\ ApplicationFits(wtApply[a]) /\ wtApply'[a] = wtApply[a]
      BY <2>2, <2>5, <1>t DEF RetirementTyped, ApplicationsFit
    <3>2. \A f \in WtEvidence : wtApply[a].seen[f] \in Nat
      BY <3>1 DEF WtStarted, WtAmounts
    <3> QED BY <3>1, <3>2, <2>1, <2>2 DEF ApplicationFits
  <2>6. ApplicationsFit'
    BY <2>5 DEF ApplicationsFit
  <2>7. OneArchivist' /\ ReceiptFollows'
    BY <2>1, <2>2, <1>t DEF OneArchivist, ReceiptFollows, Archives
  <2> QED BY <2>4, <2>6, <2>7 DEF RetirementInv
<1>4. ASSUME PlanRetire
      PROVE  RetirementInv'
  BY <1>4, <1>k, <1>t DEF PlanRetire, Identity, WtIdentities, RetirementTyped
<1>5. ASSUME NEW a \in WtApplies, ApplyChecks(a)
      PROVE  RetirementInv'
  <2>1. PICK c : c = [at |-> "checked", plan |-> wtPlan.identity.evidence, moved |-> {},
                      seen |-> wtDir.evidence, archivist |-> FALSE]
    OBVIOUS
  <2>2. wtPlan.identity.evidence = wtDir.evidence /\ wtApply[a] = Unstarted
    BY <1>5 DEF ApplyChecks, PreimageHolds, Identity
  <2>3. wtDir.evidence \in WtAmounts /\ \A e \in WtEvidence : wtDir.evidence[e] \in Nat /\ wtDir.evidence[e] <= wtWrites
    BY <1>t DEF RetirementTyped, WtAmounts
  <2>4. c \in WtStarted
    BY <2>1, <2>2, <2>3 DEF WtStarted
  <2>5. /\ wtApply' = [wtApply EXCEPT ![a] = c]
        /\ UNCHANGED <<wtDir, wtRegistered, wtArchive, wtPlan, wtReceipt, wtPrune, wtWrites>>
    BY <1>5, <2>1 DEF ApplyChecks
  <2>6. ApplicationFits(c)'
    BY <2>1, <2>2, <2>3, <2>5 DEF ApplicationFits
  <2>7. \A x \in WtApplies \ {a} : \A d \in WtStarted :
           (d = wtApply[x] /\ ApplicationFits(d)) => ApplicationFits(d)'
    BY <2>5 DEF ApplicationFits
  <2>8. /\ wtApply' \in [WtApplies -> {Unstarted} \cup WtStarted]
        /\ ApplicationsFit' /\ OneArchivist'
    BY <2>1, <2>4, <2>5, <2>6, <2>7, ApplicationsKeep
  <2>9. ReceiptFollows'
    BY <2>2, <2>4, <2>5, ReceiptKeeps DEF Archives
  <2>10. RetirementTyped'
    BY <2>5, <2>8, <1>t DEF RetirementTyped
  <2> QED BY <2>8, <2>9, <2>10 DEF RetirementInv
<1>g. ASSUME NEW a \in WtApplies, wtApply[a].at # "ready",
             NEW pc \in {"checked", "start", "mkdir", "move", "note", "unregister", "readback", "refused", "done"},
             wtApply' = Goto(a, pc),
             pc \in {"move", "note", "unregister", "readback", "done"} => wtApply[a].archivist,
             pc \in {"checked", "start", "mkdir"} => ~wtApply[a].archivist,
             pc \in {"unregister", "readback", "done"} =>
                \A e \in WtEvidence : wtApply[a].seen[e] > 0 => e \in wtApply[a].moved,
             UNCHANGED <<wtDir, wtArchive, wtPlan, wtReceipt, wtWrites>>,
             ~wtRegistered => ~wtRegistered', wtRegistered' \in BOOLEAN
      PROVE  RetirementInv'
  <2>1. /\ wtApply' \in [WtApplies -> {Unstarted} \cup WtStarted]
        /\ ApplicationsFit' /\ OneArchivist' /\ ReceiptFollows'
    BY <1>g, GotoKeeps
  <2>2. RetirementTyped'
    BY <2>1, <1>g, <1>t DEF RetirementTyped
  <2> QED BY <2>1, <2>2 DEF RetirementInv
<1>6. ASSUME NEW a \in WtApplies, ApplyLooksForArchive(a)
      PROVE  RetirementInv'
  <2>1. PICK pc \in {"refused", "start"} : wtApply' = Goto(a, pc)
    BY <1>6 DEF ApplyLooksForArchive
  <2>2. wtApply[a].at = "checked" /\ ~wtApply[a].archivist
    BY <1>6, StartedApplication DEF ApplyLooksForArchive, ApplicationFits
  <2> QED BY <2>1, <2>2, <1>6, <1>g, <1>p DEF ApplyLooksForArchive
<1>r. ASSUME NEW a \in WtApplies, wtApply[a].at # "ready", NEW pc \in {"mkdir", "move"},
             wtApply' = Goto(a, pc), (pc = "move") = wtApply[a].archivist,
             wtReceipt' = RetireReceipt(a, "STARTED"),
             UNCHANGED <<wtDir, wtRegistered, wtArchive, wtPlan, wtPrune, wtWrites>>
      PROVE  RetirementInv'
  <2>1. /\ wtApply' \in [WtApplies -> {Unstarted} \cup WtStarted]
        /\ ApplicationsFit' /\ OneArchivist'
        /\ wtApply'[a].archivist = wtApply[a].archivist /\ wtApply'[a].plan = wtApply[a].plan
        /\ wtApply'[a].moved = wtApply[a].moved /\ wtApply'[a] # Unstarted
    BY <1>r, GotoKeeps
  <2>2. /\ ReceiptFollows'
        /\ wtReceipt' \in [state : {"STARTED", "COMPLETE"}, plan : WtAmounts, listed : SUBSET WtEvidence]
    BY <2>1, <1>r, NewReceipt
  <2>3. RetirementTyped'
    BY <2>1, <2>2, <1>r, <1>t DEF RetirementTyped
  <2> QED BY <2>1, <2>2, <2>3 DEF RetirementInv
<1>7. ASSUME NEW a \in WtApplies, ApplyStarts(a)
      PROVE  RetirementInv'
  <2>1. wtApply[a].at = "start" /\ ~wtApply[a].archivist
    BY <1>7, StartedApplication DEF ApplyStarts, ApplicationFits
  <2>2. ("mkdir" = "move") = wtApply[a].archivist
    BY <2>1, StartedApplication DEF WtStarted
  <2> QED BY <2>1, <2>2, <1>7, <1>r DEF ApplyStarts
<1>8. ASSUME NEW a \in WtApplies, ApplyNotesMove(a)
      PROVE  RetirementInv'
  <2>1. wtApply[a].at = "note" /\ wtApply[a].archivist
    BY <1>8, StartedApplication DEF ApplyNotesMove, ApplicationFits
  <2>2. ("move" = "move") = wtApply[a].archivist
    BY <2>1, StartedApplication DEF WtStarted
  <2> QED BY <2>1, <2>2, <1>8, <1>r DEF ApplyNotesMove
<1>9. ASSUME NEW a \in WtApplies, ApplyMakesArchive(a)
      PROVE  RetirementInv'
  <2>1. wtApply[a].at = "mkdir" /\ wtApply[a] # Unstarted /\ wtApply[a] \in WtStarted
        /\ ApplicationFits(wtApply[a])
    BY <1>9, StartedApplication DEF ApplyMakesArchive
  <2>2. wtArchive' \in [made : BOOLEAN, evidence : WtAmounts] /\ wtArchive'.made
        /\ wtArchive'.evidence = wtArchive.evidence /\ wtArchive.made \in BOOLEAN
    BY <1>9, <1>t DEF ApplyMakesArchive, RetirementTyped
  <2>3. PICK pc : pc = IF wtArchive.made THEN "refused" ELSE "move"
    OBVIOUS
  <2>4. PICK m \in BOOLEAN : m = ~wtArchive.made
    BY <2>2
  <2>5. PICK c : c = [wtApply[a] EXCEPT !.at = pc, !.archivist = m]
    OBVIOUS
  <2>6. /\ c \in WtStarted /\ c.at = pc /\ c.plan = wtApply[a].plan /\ c.moved = wtApply[a].moved
        /\ c.seen = wtApply[a].seen /\ c.archivist = m
    BY <2>1, <2>3, <2>4, <2>5 DEF WtStarted
  <2>7. /\ wtApply' = [wtApply EXCEPT ![a] = c]
        /\ UNCHANGED <<wtDir, wtRegistered, wtPlan, wtReceipt, wtPrune, wtWrites>>
    BY <1>9, <2>3, <2>4, <2>5, <1>t DEF ApplyMakesArchive, RetirementTyped
  <2>8. \A x \in WtApplies : Archives(x) => wtArchive.made
    BY <1>t DEF ApplicationsFit, ApplicationFits, Archives
  <2>9. ApplicationFits(c)'
    <3>1. wtApply[a].moved = {}
      BY <2>1 DEF ApplicationFits
    <3> QED BY <2>1, <2>2, <2>3, <2>4, <2>6, <2>7, <3>1 DEF ApplicationFits
  <2>10. \A x \in WtApplies \ {a} : \A d \in WtStarted :
           (d = wtApply[x] /\ ApplicationFits(d)) => ApplicationFits(d)'
    BY <2>2, <2>7 DEF ApplicationFits
  <2>11. /\ wtApply' \in [WtApplies -> {Unstarted} \cup WtStarted]
         /\ ApplicationsFit' /\ OneArchivist'
    BY <2>4, <2>6, <2>7, <2>8, <2>9, <2>10, ApplicationsKeep
  <2>12. ReceiptFollows'
    <3>1. ~Archives(a)
      BY <2>1 DEF ApplicationFits, Archives
    <3> QED BY <3>1, <2>6, <2>7, ReceiptKeeps
  <2>13. RetirementTyped'
    BY <2>2, <2>7, <2>11, <1>t DEF RetirementTyped
  <2> QED BY <2>11, <2>12, <2>13 DEF RetirementInv
<1>10. ASSUME NEW a \in WtApplies, NEW e \in WtEvidence, ApplyMoves(a, e)
       PROVE  RetirementInv'
  <2>1. wtApply[a].at = "move" /\ wtApply[a] # Unstarted /\ wtApply[a] \in WtStarted
        /\ ApplicationFits(wtApply[a]) /\ wtApply[a].archivist /\ e \notin wtApply[a].moved
    BY <1>10, StartedApplication DEF ApplyMoves, ApplicationFits, Unmoved
  <2>2. CASE wtApply' = Goto(a, "refused") /\ UNCHANGED <<wtArchive, wtDir>>
    BY <2>1, <2>2, <1>10, <1>g, <1>p DEF ApplyMoves
  <2>3. CASE /\ wtArchive' = [wtArchive EXCEPT !.evidence[e] = wtDir.evidence[e]]
             /\ wtDir' = [wtDir EXCEPT !.evidence[e] = 0]
             /\ wtApply' = [wtApply EXCEPT ![a].at = "note", ![a].moved = @ \cup {e}]
    <3>1. /\ wtArchive \in [made : BOOLEAN, evidence : WtAmounts] /\ wtDir.evidence[e] \in Nat
          /\ wtDir \in [there : BOOLEAN, complete : BOOLEAN, evidence : WtAmounts]
      BY <1>t DEF RetirementTyped, WtAmounts
    <3>2. /\ wtArchive' \in [made : BOOLEAN, evidence : WtAmounts]
          /\ wtArchive'.made = wtArchive.made /\ wtArchive'.evidence[e] = wtDir.evidence[e]
          /\ \A f \in WtEvidence \ {e} : wtArchive'.evidence[f] = wtArchive.evidence[f]
      BY <2>3, <3>1 DEF WtAmounts
    <3>3. /\ wtDir' \in [there : BOOLEAN, complete : BOOLEAN, evidence : WtAmounts]
          /\ wtDir'.there = wtDir.there /\ wtDir'.evidence[e] = 0
          /\ \A f \in WtEvidence \ {e} : wtDir'.evidence[f] = wtDir.evidence[f]
      BY <2>3, <3>1 DEF WtAmounts
    <3>4. PICK c : c = [wtApply[a] EXCEPT !.at = "note", !.moved = wtApply[a].moved \cup {e}]
      OBVIOUS
    <3>5. /\ c \in WtStarted /\ c.at = "note" /\ c.plan = wtApply[a].plan
          /\ c.moved = wtApply[a].moved \cup {e}
          /\ c.seen = wtApply[a].seen /\ c.archivist = wtApply[a].archivist
      BY <2>1, <3>4 DEF WtStarted
    <3>6. wtApply' = [wtApply EXCEPT ![a] = c]
      BY <2>3, <3>4, <1>t DEF RetirementTyped
    <3>7. UNCHANGED <<wtRegistered, wtPlan, wtReceipt, wtPrune, wtWrites>>
      BY <1>10 DEF ApplyMoves
    <3>8. ApplicationFits(c)'
      <4>1. wtDir.evidence[e] >= c.seen[e]
        BY <2>1, <3>5 DEF ApplicationFits
      <4>2. wtArchive'.made /\ c.archivist /\ c.plan = c.seen
            /\ \A f \in WtEvidence : c.seen[f] <= wtWrites
        BY <2>1, <3>2, <3>5 DEF ApplicationFits
      <4>3. \A f \in WtEvidence : IF f \in c.moved THEN wtArchive'.evidence[f] >= c.seen[f]
                                  ELSE wtDir'.evidence[f] >= c.seen[f]
        <5> TAKE f \in WtEvidence
        <5>1. CASE f = e
          BY <5>1, <4>1, <3>2, <3>5
        <5>2. CASE f # e
          BY <5>2, <2>1, <3>2, <3>3, <3>5 DEF ApplicationFits
        <5> QED BY <5>1, <5>2
      <4> QED BY <4>2, <4>3, <3>5, <3>7 DEF ApplicationFits
    <3>9. \A x \in WtApplies \ {a} : ~Archives(x)
      BY <2>1, <1>t DEF OneArchivist, Archives
    <3>10. \A x \in WtApplies \ {a} : \A d \in WtStarted :
             (d = wtApply[x] /\ ApplicationFits(d)) => ApplicationFits(d)'
      <4> SUFFICES ASSUME NEW x \in WtApplies \ {a}, NEW d \in WtStarted, d = wtApply[x], ApplicationFits(d)
                   PROVE  ApplicationFits(d)'
        OBVIOUS
      <4>1. ~d.archivist
        BY <3>9 DEF Archives, WtStarted, Unstarted
      <4>2. wtArchive'.made
        BY <2>1, <3>2 DEF ApplicationFits
      <4>3. ~(d.archivist \/ ~wtArchive'.made)
        BY <4>1, <4>2
      <4> QED BY <4>1, <4>2, <4>3, <3>7 DEF ApplicationFits
    <3>11. /\ wtApply' \in [WtApplies -> {Unstarted} \cup WtStarted]
           /\ ApplicationsFit' /\ OneArchivist'
      BY <3>5, <3>6, <3>8, <3>9, <3>10, ApplicationsKeep
    <3>12. ReceiptFollows'
      BY <2>1, <3>3, <3>5, <3>6, <3>7, ReceiptKeeps
    <3>13. \A f \in WtEvidence : wtDir'.evidence[f] <= wtWrites
      BY <3>3, <1>t DEF RetirementTyped
    <3>14. RetirementTyped'
      BY <3>2, <3>3, <3>7, <3>11, <3>13, <1>t DEF RetirementTyped
    <3> QED BY <3>11, <3>12, <3>14 DEF RetirementInv
  <2> QED BY <2>2, <2>3, <1>10 DEF ApplyMoves
<1>11. ASSUME NEW a \in WtApplies, GitRemovesDirectory(a)
       PROVE  RetirementInv'
  <2>1. wtApply[a].at = "move" /\ wtApply[a] # Unstarted /\ wtApply[a] \in WtStarted
        /\ ApplicationFits(wtApply[a]) /\ wtApply[a].archivist
    BY <1>11, StartedApplication DEF GitRemovesDirectory, ApplicationFits
  <2>2. \A e \in WtEvidence : wtApply[a].seen[e] > 0 => e \in wtApply[a].moved
    BY <2>1, <1>11 DEF GitRemovesDirectory, EverythingMoved, Unmoved, ApplicationFits
  <2>3. CASE wtApply' = Goto(a, "refused") /\ UNCHANGED wtDir
    BY <2>1, <2>3, <1>11, <1>g, <1>p DEF GitRemovesDirectory
  <2>4. CASE /\ wtDir' = [wtDir EXCEPT !.there = FALSE, !.evidence = NoEvidence]
             /\ wtApply' = Goto(a, "unregister")
    <3>1. NoEvidence \in WtAmounts /\ \A e \in WtEvidence : NoEvidence[e] = 0
      BY DEF NoEvidence, WtAmounts
    <3>2. /\ wtDir' \in [there : BOOLEAN, complete : BOOLEAN, evidence : WtAmounts]
          /\ ~wtDir'.there /\ wtDir'.evidence = NoEvidence
      <4>1. wtDir \in [there : BOOLEAN, complete : BOOLEAN, evidence : WtAmounts]
        BY <1>t DEF RetirementTyped
      <4> HIDE DEF NoEvidence
      <4> QED BY <4>1, <3>1, <2>4
    <3>3. UNCHANGED <<wtRegistered, wtArchive, wtPlan, wtReceipt, wtPrune, wtWrites>>
      BY <1>11 DEF GitRemovesDirectory
    <3>4. PICK c : c = [wtApply[a] EXCEPT !.at = "unregister"]
      OBVIOUS
    <3>5. /\ c \in WtStarted /\ c.at = "unregister" /\ c.plan = wtApply[a].plan /\ c.moved = wtApply[a].moved
          /\ c.seen = wtApply[a].seen /\ c.archivist = wtApply[a].archivist
      BY <2>1, <3>4 DEF WtStarted
    <3>6. wtApply' = [wtApply EXCEPT ![a] = c]
      BY <2>4, <3>4, <1>t DEF RetirementTyped, Goto
    <3>7. \A e \in WtEvidence : c.seen[e] \in Nat
      BY <3>5 DEF WtStarted, WtAmounts
    <3>8. ApplicationFits(c)'
      BY <2>1, <2>2, <3>1, <3>2, <3>3, <3>5, <3>7 DEF ApplicationFits
    <3>9. \A x \in WtApplies \ {a} : ~Archives(x)
      BY <2>1, <1>t DEF OneArchivist, Archives
    <3>10. \A x \in WtApplies \ {a} : \A d \in WtStarted :
             (d = wtApply[x] /\ ApplicationFits(d)) => ApplicationFits(d)'
      <4> SUFFICES ASSUME NEW x \in WtApplies \ {a}, NEW d \in WtStarted, d = wtApply[x], ApplicationFits(d)
                   PROVE  ApplicationFits(d)'
        OBVIOUS
      <4>1. ~d.archivist
        BY <3>9 DEF Archives, WtStarted, Unstarted
      <4>2. wtArchive'.made
        BY <2>1, <3>3 DEF ApplicationFits
      <4>3. ~(d.archivist \/ ~wtArchive'.made)
        BY <4>1, <4>2
      <4> QED BY <4>1, <4>2, <4>3, <3>3 DEF ApplicationFits
    <3>11. /\ wtApply' \in [WtApplies -> {Unstarted} \cup WtStarted]
           /\ ApplicationsFit' /\ OneArchivist'
      BY <3>5, <3>6, <3>8, <3>9, <3>10, ApplicationsKeep
    <3>12. ReceiptFollows'
      <4>1. wtApply[a].moved \subseteq c.moved /\ c.plan = wtApply[a].plan /\ c.archivist
        BY <2>1, <3>5
      <4> QED BY <4>1, <3>2, <3>3, <3>5, <3>6, ReceiptKeeps
    <3>13. wtWrites \in Nat /\ \A f \in WtEvidence : wtDir'.evidence[f] <= wtWrites
      BY <3>1, <3>2, <1>t DEF RetirementTyped
    <3>14. RetirementTyped'
      BY <3>2, <3>3, <3>11, <3>13, <1>t DEF RetirementTyped
    <3> QED BY <3>11, <3>12, <3>14 DEF RetirementInv
  <2> QED BY <2>3, <2>4, <1>11 DEF GitRemovesDirectory
<1>12. ASSUME NEW a \in WtApplies, GitUnregisters(a)
       PROVE  RetirementInv'
  <2>1. wtApply[a].at = "unregister" /\ wtApply[a].archivist
        /\ \A e \in WtEvidence : wtApply[a].seen[e] > 0 => e \in wtApply[a].moved
    BY <1>12, StartedApplication DEF GitUnregisters, ApplicationFits
  <2> QED BY <2>1, <1>12, <1>g DEF GitUnregisters
<1>13. ASSUME NEW a \in WtApplies, ApplyCompletes(a)
       PROVE  RetirementInv'
  <2>1. wtApply[a].at = "readback" /\ wtApply[a].archivist
        /\ \A e \in WtEvidence : wtApply[a].seen[e] > 0 => e \in wtApply[a].moved
    BY <1>13, StartedApplication DEF ApplyCompletes, ApplicationFits
  <2>2. CASE wtApply' = Goto(a, "refused") /\ UNCHANGED wtReceipt
    BY <2>1, <2>2, <1>13, <1>g, <1>p DEF ApplyCompletes
  <2>3. CASE /\ ~wtDir.there /\ ~wtRegistered
             /\ wtApply' = Goto(a, "done") /\ wtReceipt' = RetireReceipt(a, "COMPLETE")
    <3>1. UNCHANGED <<wtDir, wtRegistered, wtArchive, wtPlan, wtPrune, wtWrites>>
      BY <1>13 DEF ApplyCompletes
    <3>2. /\ wtApply' \in [WtApplies -> {Unstarted} \cup WtStarted]
          /\ ApplicationsFit' /\ OneArchivist'
          /\ wtApply'[a].archivist = wtApply[a].archivist /\ wtApply'[a].plan = wtApply[a].plan
          /\ wtApply'[a].moved = wtApply[a].moved /\ wtApply'[a] # Unstarted
      BY <2>1, <2>3, <3>1, GotoKeeps
    <3>3. /\ ReceiptFollows'
          /\ wtReceipt' \in [state : {"STARTED", "COMPLETE"}, plan : WtAmounts, listed : SUBSET WtEvidence]
      BY <2>1, <2>3, <3>1, <3>2, NewReceipt
    <3>4. RetirementTyped'
      BY <3>1, <3>2, <3>3, <1>t DEF RetirementTyped
    <3> QED BY <3>2, <3>3, <3>4 DEF RetirementInv
  <2> QED BY <2>2, <2>3, <1>13 DEF ApplyCompletes
<1>14. ASSUME NEW a \in WtApplies, ApplyDies(a)
       PROVE  RetirementInv'
  BY <1>14, <1>g, <1>p DEF ApplyDies
<1>15. ASSUME PlanPrune \/ ApplyPruneChecks
       PROVE  RetirementInv'
  <2>1. UNCHANGED <<wtDir, wtRegistered, wtArchive, wtPlan, wtReceipt, wtApply, wtWrites>>
    BY <1>15 DEF PlanPrune, ApplyPruneChecks
  <2> QED BY <2>1, <1>k, <1>p
<1>16. ASSUME ApplyPrune
       PROVE  RetirementInv'
  <2>1. wtRegistered' \in BOOLEAN /\ (~wtRegistered => ~wtRegistered')
    BY <1>16 DEF ApplyPrune
  <2> QED BY <2>1, <1>16, <1>k, <1>p DEF ApplyPrune
<1> QED
  BY <1>1, <1>2, <1>3, <1>4, <1>5, <1>6, <1>7, <1>8, <1>9, <1>10, <1>11, <1>12, <1>13, <1>14, <1>15, <1>16
     DEF WtNext

\* Retirement of a writer's worktree, for any number of applications of a plan and any
\* evidence (worktree_lifecycle.py): wherever an application dies and whatever the writer's
\* session still writes, what the application saw is kept, and the receipt on file says no
\* more than was done.
THEOREM RetirementStaysSound == WtSpec => []RetirementIsSound
<1>1. RetirementInv => EvidenceIsKept
  <2> SUFFICES ASSUME RetirementInv, NEW a \in WtApplies, wtApply[a] # Unstarted, wtApply[a].archivist,
                      NEW e \in WtEvidence
               PROVE  \/ wtDir.evidence[e] >= wtApply[a].seen[e]
                      \/ wtArchive.evidence[e] >= wtApply[a].seen[e]
    BY DEF EvidenceIsKept
  <2> QED BY DEF RetirementInv, ApplicationsFit, ApplicationFits
<1>2. RetirementInv => ReceiptIsTrue
  <2> SUFFICES ASSUME RetirementInv, wtReceipt # NoRetirement
               PROVE  \A e \in wtReceipt.listed : wtArchive.evidence[e] >= wtReceipt.plan[e]
    BY DEF ReceiptIsTrue, RetirementInv, ReceiptFollows
  <2>1. CASE wtReceipt.listed = {}
    BY <2>1
  <2>2. ASSUME NEW a \in WtApplies, Archives(a), wtReceipt.listed \subseteq wtApply[a].moved,
               wtReceipt.plan = wtApply[a].plan
        PROVE  \A e \in wtReceipt.listed : wtArchive.evidence[e] >= wtReceipt.plan[e]
    <3>1. wtApply[a].plan = wtApply[a].seen /\ wtApply[a] \in WtStarted
          /\ \A e \in WtEvidence : e \in wtApply[a].moved => wtArchive.evidence[e] >= wtApply[a].seen[e]
      BY <2>2 DEF RetirementInv, RetirementTyped, ApplicationsFit, ApplicationFits, Archives
    <3>2. wtApply[a].moved \subseteq WtEvidence
      BY <3>1 DEF WtStarted
    <3> QED BY <3>1, <3>2, <2>2
  <2> QED BY <2>1, <2>2 DEF RetirementInv, ReceiptFollows
<1>3. RetirementInv => RetirementIsSound
  BY <1>1, <1>2 DEF RetirementIsSound
<1> QED BY RetirementStarts, RetirementStep, <1>3, PTL DEF WtSpec

-----------------------------------------------------------------------------
(* WriterRuns.                                                             *)

WrRecords == {NoRun} \cup [run : WrLaunchers, pid : WrPids, token : Nat \ {0}]
WrUnborn == {"new", "gone"}
WrLooking == {"reclaim", "provision", "record"}
WrOwning == {"bind", "create", "ready", "armed", "supervise", "clean"}
WrLocking == WrLooking \cup {"inspect", "bind", "create"}
WrProcesses ==
  [at : WrUnborn \cup WrLooking \cup WrOwning \cup {"wait", "inspect", "leaving"},
   pid : WrPids \cup {0}, token : Nat, retry : BOOLEAN, halted : BOOLEAN]
WrStopping == {"read", "open", "identify", "term", "grace", "force"}
WrStops ==
  [at : {"unused", "idle", "done"} \cup WrStopping, receipt : WrRecords, fd : Nat, held : BOOLEAN,
   answer : {"none", "unknown", "stopped", "lost"}]
WrReads ==
  [at : {"unused", "first", "second", "process", "done"}, first : WrRecords, second : WrRecords,
   current : WrLaunchers \cup {"none"}, onFile : WrLaunchers \cup {"none"}]

RunsTyped ==
  /\ wrTable \in [WrPids -> Nat] /\ wrClock \in Nat
  /\ wrReceipt \in WrRecords
  /\ wrLock \in {"free", "stop"} \cup WrLaunchers
  /\ wrProc \in [WrLaunchers -> WrProcesses]
  /\ wrAgent \in [WrLaunchers -> {"none", "running", "gone"}]
  /\ wrDev \in [WrLaunchers -> SUBSET DevResources]
  /\ wrLate \subseteq WrLaunchers \X DevResources
  /\ wrStop \in WrStops
  /\ wrRead \in WrReads

\* A start token names one process for ever.
TokensAreUnique ==
  /\ \A p \in WrPids : wrTable[p] <= wrClock
  /\ \A p, q \in WrPids : wrTable[p] = wrTable[q] /\ wrTable[p] # 0 => p = q
  /\ \A l \in WrLaunchers : wrProc[l].at \notin WrUnborn =>
       /\ wrProc[l].pid \in WrPids /\ wrProc[l].token # 0
       /\ wrTable[wrProc[l].pid] = wrProc[l].token
  /\ \A l \in WrLaunchers : wrProc[l].at \in WrUnborn => wrProc[l].token = 0 /\ ~wrProc[l].halted
  /\ \A l, m \in WrLaunchers : wrProc[l].token = wrProc[m].token /\ wrProc[l].token # 0 => l = m

\* A record names the process that made it, which is past recording it or dead for good.
Recorded(r) ==
  r # NoRun =>
    /\ r.token <= wrClock
    /\ wrProc[r.run].at \in WrOwning \cup {"leaving", "gone"}
    /\ IF wrProc[r.run].at = "gone" THEN \A p \in WrPids : wrTable[p] # r.token
       ELSE r.pid = wrProc[r.run].pid /\ r.token = wrProc[r.run].token
RecordsFit == Recorded(wrReceipt) /\ Recorded(wrStop.receipt) /\ Recorded(wrRead.second)

LockIsHeld ==
  /\ \A l \in WrLaunchers :
       wrProc[l].at \in WrLocking => wrLock = l
  /\ wrStop.at \in WrStopping => wrLock = "stop"

\* A launcher that owns the writer is the one on file, so that no other gets past it.
OwnersAreOnFile ==
  \A l \in WrLaunchers : wrProc[l].at \in WrOwning => wrReceipt # NoRun /\ wrReceipt.run = l

Ended(r) == \A p \in WrPids : wrTable[p] # r.token
LeftLate(l) == \A r \in wrDev[l] : <<l, r>> \in wrLate

\* A launcher that has found the writer free relies on the last run having ended, and from
\* provisioning on of its resources being reclaimed.
FreeWriterIsFree ==
  \A l \in WrLaunchers :
    /\ wrProc[l].at \in WrLooking /\ wrReceipt # NoRun => Ended(wrReceipt)
    /\ wrProc[l].at = "reclaim" => wrReceipt # NoRun
    /\ wrProc[l].at \in {"provision", "record"} /\ wrReceipt # NoRun => LeftLate(wrReceipt.run)

AgentsAreSupervised ==
  \A l \in WrLaunchers \ Forsaken : wrAgent[l] = "running" => wrProc[l].at = "supervise"

StopFits ==
  /\ wrStop.at \in WrStopping \ {"read"} => wrStop.receipt # NoRun
  /\ wrStop.at = "identify" /\ wrTable[wrStop.receipt.pid] = wrStop.receipt.token =>
       wrStop.fd = wrStop.receipt.token
  /\ wrStop.at \in {"term", "grace", "force"} => wrStop.fd = wrStop.receipt.token
  /\ wrStop.held => wrStop.at \in {"grace", "force", "done"}
  /\ wrStop.answer \in {"stopped", "lost"} =>
       wrStop.at = "done" /\ wrStop.receipt # NoRun /\ Ended(wrStop.receipt)

\* A record whose process still lives is the one on file.
ReadFits ==
  /\ wrRead.at = "process" /\ wrRead.second # NoRun
       /\ wrTable[wrRead.second.pid] = wrRead.second.token => wrReceipt = wrRead.second
  /\ CurrentRunIsOnFile

WriterInv ==
  /\ RunsTyped /\ TokensAreUnique /\ RecordsFit /\ LockIsHeld /\ OwnersAreOnFile
  /\ FreeWriterIsFree /\ AgentsAreSupervised /\ StopFits /\ ReadFits /\ NothingIsOrphaned

\* The invariant holds before the first launch.
LEMMA WriterStarts == WrInit => WriterInv
<1> SUFFICES ASSUME WrInit PROVE WriterInv
  OBVIOUS
<1>1. /\ NoRun.token = 0 /\ NoRun \in WrRecords
      /\ NoProcess("new") \in WrProcesses /\ NoProcess("new").at = "new" /\ NoProcess("new").token = 0
      /\ ~NoProcess("new").halted
  BY DEF NoRun, WrRecords, NoProcess, WrProcesses, WrUnborn
<1>2. /\ wrStop.receipt = NoRun /\ wrStop.at \in {"idle", "unused"} /\ wrStop.answer = "none"
      /\ wrStop.fd = 0 /\ ~wrStop.held
      /\ wrStop \in WrStops
  <2>1. PICK at \in {"idle", "unused"} :
             wrStop = [at |-> at, receipt |-> NoRun, fd |-> 0, held |-> FALSE, answer |-> "none"]
    BY DEF WrInit, NotStopping
  <2> QED BY <2>1, <1>1 DEF WrStops
<1>3. /\ wrRead.second = NoRun /\ wrRead.at \in {"unused", "first"} /\ wrRead.current = "none"
      /\ wrRead \in WrReads
  BY <1>1 DEF WrInit, WrReads
<1>4. RunsTyped
  BY <1>1, <1>2, <1>3 DEF WrInit, RunsTyped
<1>5. \A l \in WrLaunchers : /\ wrProc[l].at = "new" /\ wrProc[l].token = 0 /\ ~wrProc[l].halted
                              /\ wrAgent[l] = "none" /\ wrDev[l] = {}
  BY <1>1 DEF WrInit
<1>6. TokensAreUnique
  BY <1>5 DEF WrInit, TokensAreUnique, WrUnborn
<1>7. RecordsFit
  BY <1>2, <1>3 DEF WrInit, RecordsFit, Recorded
<1>8. LockIsHeld /\ OwnersAreOnFile /\ FreeWriterIsFree
  BY <1>2, <1>5 DEF LockIsHeld, OwnersAreOnFile, FreeWriterIsFree, WrLocking, WrLooking, WrOwning,
     WrStopping
<1>9. AgentsAreSupervised /\ NothingIsOrphaned
  BY <1>5 DEF AgentsAreSupervised, NothingIsOrphaned
<1>10. StopFits /\ ReadFits
  BY <1>2, <1>3 DEF StopFits, ReadFits, CurrentRunIsOnFile, WrStopping
<1> QED BY <1>4, <1>6, <1>7, <1>8, <1>9, <1>10 DEF WriterInv

\* Tokens that were given out come back nowhere.
LEMMA TokensDoNotReturn ==
  ASSUME RunsTyped, NEW p0 \in WrPids, NEW v \in Nat, wrTable' = [wrTable EXCEPT ![p0] = v],
         v = 0 \/ v = wrClock + 1
  PROVE  /\ \A r \in WrRecords : r # NoRun /\ r.token <= wrClock =>
              /\ Ended(r) => Ended(r)'
              /\ wrTable'[r.pid] = r.token => wrTable[r.pid] = r.token
         /\ wrTable' \in [WrPids -> Nat]
         /\ \A p \in WrPids : wrTable'[p] = IF p = p0 THEN v ELSE wrTable[p]
<1>1. wrTable \in [WrPids -> Nat] /\ wrClock \in Nat
  BY DEF RunsTyped
<1>2. wrTable' \in [WrPids -> Nat] /\ \A p \in WrPids : wrTable'[p] = IF p = p0 THEN v ELSE wrTable[p]
  BY <1>1
<1>3. ASSUME NEW r \in WrRecords, r # NoRun, r.token <= wrClock
      PROVE  /\ Ended(r) => Ended(r)'
             /\ wrTable'[r.pid] = r.token => wrTable[r.pid] = r.token
  <2>1. r.pid \in WrPids /\ r.token \in Nat /\ r.token # 0 /\ r.token # v
    BY <1>1, <1>3 DEF WrRecords
  <2> QED BY <2>1, <1>2 DEF Ended
<1> QED BY <1>2, <1>3

\* A record is kept while its launcher goes on and tokens do not return.
LEMMA RecordsStand ==
  ASSUME RunsTyped, NEW l \in WrLaunchers, NEW c \in WrProcesses, wrProc' = [wrProc EXCEPT ![l] = c],
         wrProc[l].at \in WrOwning \cup {"leaving"} => c.at \in WrOwning \cup {"leaving"},
         wrProc[l].at \in WrOwning \cup {"leaving"} => c.pid = wrProc[l].pid /\ c.token = wrProc[l].token,
         wrProc[l].at # "gone", wrClock' \in Nat, wrClock' >= wrClock,
         \A r \in WrRecords : r # NoRun /\ r.token <= wrClock => (Ended(r) => Ended(r)'),
         NEW s \in WrRecords, Recorded(s)
  PROVE  Recorded(s)'
<1>1. /\ wrProc'[l] = c /\ \A m \in WrLaunchers \ {l} : wrProc'[m] = wrProc[m]
      /\ wrClock \in Nat
  BY DEF RunsTyped
<1>2. SUFFICES ASSUME s # NoRun
               PROVE  /\ s.token <= wrClock'
                      /\ wrProc'[s.run].at \in WrOwning \cup {"leaving", "gone"}
                      /\ IF wrProc'[s.run].at = "gone" THEN \A p \in WrPids : wrTable'[p] # s.token
                         ELSE s.pid = wrProc'[s.run].pid /\ s.token = wrProc'[s.run].token
  BY DEF Recorded
<1>3. s.run \in WrLaunchers /\ s.token \in Nat /\ s.token <= wrClock
  BY <1>2 DEF WrRecords, Recorded
<1>4. CASE s.run = l
  <2>1. wrProc[l].at \in WrOwning \cup {"leaving"} /\ s.pid = wrProc[l].pid /\ s.token = wrProc[l].token
    BY <1>2, <1>4 DEF Recorded
  <2>2. c.at # "gone"
    BY <2>1 DEF WrOwning
  <2> QED BY <2>1, <2>2, <1>1, <1>3, <1>4
<1>5. CASE s.run # l
  <2>1. wrProc'[s.run] = wrProc[s.run]
    BY <1>1, <1>3, <1>5
  <2>2. CASE wrProc[s.run].at = "gone"
    <3>1. Ended(s)
      BY <2>2, <1>2 DEF Recorded, Ended
    <3>2. Ended(s)'
      BY <3>1, <1>2, <1>3
    <3> QED BY <2>1, <2>2, <3>2, <1>1, <1>3 DEF Ended
  <2>3. CASE wrProc[s.run].at # "gone"
    BY <2>1, <2>3, <1>1, <1>2, <1>3 DEF Recorded
  <2> QED BY <2>2, <2>3
<1> QED BY <1>4, <1>5

\* The steps of a launcher that lives on and leaves the receipt as it is, with what they may do
\* to the stop and to the Docker commands under way.
LEMMA LauncherMoves ==
  ASSUME WriterInv, NEW l \in WrLaunchers, NEW c \in WrProcesses, wrProc' = [wrProc EXCEPT ![l] = c],
         wrProc[l].at \notin WrUnborn, c.at \notin WrUnborn,
         c.pid = wrProc[l].pid, c.token = wrProc[l].token,
         UNCHANGED <<wrTable, wrClock, wrReceipt, wrRead, wrKilled>>,
         wrLate \subseteq wrLate', wrLate' \subseteq WrLaunchers \X DevResources,
         NEW s \in WrStops, wrStop' = s, s.receipt = wrStop.receipt, wrStop.held => s.held,
         s.at \in WrStopping => wrStop.at \in WrStopping, StopFits',
         wrLock' = wrLock \/ (wrLock = l /\ wrLock' = "free") \/ (wrLock = "free" /\ wrLock' = l),
         c.at \in WrLocking => wrLock' = l,
         c.at \in WrOwning => wrProc[l].at \in WrOwning,
         wrProc[l].at \in WrOwning \cup {"leaving"} => c.at \in WrOwning \cup {"leaving"},
         c.at \in WrLooking /\ wrReceipt # NoRun => Ended(wrReceipt),
         c.at = "reclaim" => wrReceipt # NoRun,
         wrDev' \in [WrLaunchers -> SUBSET DevResources],
         c.at \in {"provision", "record"} /\ wrReceipt # NoRun => LeftLate(wrReceipt.run)',
         \A m \in WrLaunchers : LeftLate(m) => LeftLate(m)' \/ (m = wrReceipt.run /\ wrLock = l),
         wrAgent' \in [WrLaunchers -> {"none", "running", "gone"}],
         \A m \in WrLaunchers \ {l} : wrAgent'[m] = wrAgent[m],
         wrAgent'[l] = "running" => l \in Forsaken' \/ c.at = "supervise"
  PROVE  WriterInv'
<1>t. /\ RunsTyped /\ TokensAreUnique /\ RecordsFit /\ LockIsHeld /\ OwnersAreOnFile
      /\ FreeWriterIsFree /\ AgentsAreSupervised /\ StopFits /\ ReadFits /\ NothingIsOrphaned
  BY DEF WriterInv
<1>1. /\ wrProc' \in [WrLaunchers -> WrProcesses]
      /\ wrProc'[l] = c /\ \A m \in WrLaunchers \ {l} : wrProc'[m] = wrProc[m]
  BY <1>t DEF RunsTyped
<1>2. RunsTyped'
  BY <1>1, <1>t DEF RunsTyped
<1>3. TokensAreUnique'
  BY <1>1, <1>t DEF TokensAreUnique
<1>4. RecordsFit'
  <2>1. \A r \in WrRecords : r # NoRun /\ r.token <= wrClock => (Ended(r) => Ended(r)')
    BY DEF Ended
  <2>2. wrProc[l].at # "gone" /\ wrClock' \in Nat /\ wrClock' >= wrClock
    BY <1>t DEF RunsTyped, WrUnborn
  <2>3. ASSUME NEW x \in WrRecords, Recorded(x)
        PROVE  Recorded(x)'
    BY <2>1, <2>2, <2>3, <1>t, RecordsStand
  <2>4. PICK a \in WrRecords, b \in WrRecords, d \in WrRecords :
            a = wrReceipt /\ b = wrStop.receipt /\ d = wrRead.second
    BY <1>t DEF RunsTyped, WrStops, WrReads
  <2>5. Recorded(a)' /\ Recorded(b)' /\ Recorded(d)'
    BY <2>3, <2>4, <1>t DEF RecordsFit
  <2> QED BY <2>4, <2>5 DEF RecordsFit, Recorded
<1>5. LockIsHeld'
  <2>1. ASSUME NEW m \in WrLaunchers, wrProc'[m].at \in WrLocking
        PROVE  wrLock' = m
    <3>1. CASE m = l
      BY <3>1, <2>1, <1>1
    <3>2. CASE m # l
      BY <3>2, <2>1, <1>1, <1>t, WrAssumption DEF LockIsHeld
    <3> QED BY <3>1, <3>2
  <2>2. s.at \in WrStopping => wrLock' = "stop"
    BY <1>t, WrAssumption DEF LockIsHeld
  <2> QED BY <2>1, <2>2 DEF LockIsHeld
<1>6. OwnersAreOnFile'
  BY <1>1, <1>t DEF OwnersAreOnFile
<1>7. FreeWriterIsFree'
  <2> SUFFICES ASSUME NEW m \in WrLaunchers
               PROVE  /\ wrProc'[m].at \in WrLooking /\ wrReceipt' # NoRun => Ended(wrReceipt)'
                      /\ wrProc'[m].at = "reclaim" => wrReceipt' # NoRun
                      /\ wrProc'[m].at \in {"provision", "record"} /\ wrReceipt' # NoRun =>
                           LeftLate(wrReceipt.run)'
    BY DEF FreeWriterIsFree
  <2>1. CASE m = l
    BY <2>1, <1>1 DEF Ended
  <2>2. CASE m # l
    <3>1. wrProc'[m] = wrProc[m]
      BY <2>2, <1>1
    <3>2. wrProc[m].at \in {"provision", "record"} => wrLock # l
      BY <2>2, <1>t DEF LockIsHeld, WrLocking, WrLooking
    <3>3. wrReceipt # NoRun => wrReceipt.run \in WrLaunchers
      BY <1>t DEF RunsTyped, WrRecords
    <3>4. PICK run : run = wrReceipt.run
      OBVIOUS
    <3>5. wrProc[m].at \in {"provision", "record"} /\ wrReceipt # NoRun => LeftLate(run)'
      BY <3>2, <3>3, <3>4, <1>t DEF FreeWriterIsFree
    <3> QED BY <3>1, <3>4, <3>5, <1>t DEF FreeWriterIsFree, Ended, LeftLate
  <2> QED BY <2>1, <2>2
<1>8. AgentsAreSupervised'
  <2>1. Forsaken \subseteq Forsaken'
    BY DEF Forsaken
  <2> QED BY <2>1, <1>1, <1>t DEF AgentsAreSupervised
<1>9. ReadFits'
  BY <1>t DEF ReadFits, CurrentRunIsOnFile
<1>10. NothingIsOrphaned'
  <2> SUFFICES ASSUME NEW m \in WrLaunchers, m # wrReceipt.run
               PROVE  LeftLate(m)'
    BY DEF NothingIsOrphaned, LeftLate
  <2>1. LeftLate(m)
    BY <1>t DEF NothingIsOrphaned, LeftLate
  <2> QED BY <2>1
<1> QED BY <1>2, <1>3, <1>4, <1>5, <1>6, <1>7, <1>8, <1>9, <1>10 DEF WriterInv

\* The same, beside a stop that does nothing and with no other command left under way.
LEMMA LauncherSteps ==
  ASSUME WriterInv, NEW l \in WrLaunchers, NEW c \in WrProcesses, wrProc' = [wrProc EXCEPT ![l] = c],
         wrProc[l].at \notin WrUnborn, c.at \notin WrUnborn,
         c.pid = wrProc[l].pid, c.token = wrProc[l].token,
         UNCHANGED <<wrTable, wrClock, wrReceipt, wrLate, wrStop, wrRead, wrKilled>>,
         wrLock' = wrLock \/ (wrLock = l /\ wrLock' = "free") \/ (wrLock = "free" /\ wrLock' = l),
         c.at \in WrLocking => wrLock' = l,
         c.at \in WrOwning => wrProc[l].at \in WrOwning,
         wrProc[l].at \in WrOwning \cup {"leaving"} => c.at \in WrOwning \cup {"leaving"},
         c.at \in WrLooking /\ wrReceipt # NoRun => Ended(wrReceipt),
         c.at = "reclaim" => wrReceipt # NoRun,
         wrDev' \in [WrLaunchers -> SUBSET DevResources],
         c.at \in {"provision", "record"} /\ wrReceipt # NoRun => LeftLate(wrReceipt.run)',
         \A m \in WrLaunchers : LeftLate(m) => LeftLate(m)' \/ (m = wrReceipt.run /\ wrLock = l),
         wrAgent' \in [WrLaunchers -> {"none", "running", "gone"}],
         \A m \in WrLaunchers \ {l} : wrAgent'[m] = wrAgent[m],
         wrAgent'[l] = "running" => l \in Forsaken \/ c.at = "supervise"
  PROVE  WriterInv'
<1>t. RunsTyped /\ StopFits
  BY DEF WriterInv
<1>1. wrStop \in WrStops /\ wrLate' \subseteq WrLaunchers \X DevResources /\ wrLate \subseteq wrLate'
  BY <1>t DEF RunsTyped
<1>2. StopFits'
  BY <1>t DEF StopFits, Ended
<1>3. Forsaken' = Forsaken
  BY DEF Forsaken
<1>4. PICK s \in WrStops : s = wrStop
  BY <1>1
<1>5. /\ wrStop' = s /\ s.receipt = wrStop.receipt /\ (wrStop.held => s.held)
      /\ (s.at \in WrStopping => wrStop.at \in WrStopping)
  BY <1>4
<1> QED BY <1>1, <1>2, <1>3, <1>5, LauncherMoves

\* The end of a launcher's process, whoever ends it, up to the lock and the stop.
LEMMA VanishKeeps ==
  ASSUME WriterInv, NEW l \in WrLaunchers, wrProc[l].at \notin WrUnborn,
         wrTable' = [wrTable EXCEPT ![wrProc[l].pid] = 0],
         wrProc' = [wrProc EXCEPT ![l] = NoProcess("gone")],
         UNCHANGED <<wrClock, wrReceipt, wrAgent, wrDev, wrRead>>,
         wrLate \subseteq wrLate', wrLate' \subseteq WrLaunchers \X DevResources,
         Forsaken \subseteq Forsaken', wrAgent[l] = "running" => l \in Forsaken'
  PROVE  /\ wrTable' \in [WrPids -> Nat] /\ wrProc' \in [WrLaunchers -> WrProcesses]
         /\ wrProc'[l].at = "gone" /\ \A m \in WrLaunchers \ {l} : wrProc'[m] = wrProc[m]
         /\ TokensAreUnique' /\ OwnersAreOnFile' /\ FreeWriterIsFree' /\ AgentsAreSupervised'
         /\ ReadFits' /\ NothingIsOrphaned'
         /\ \A s \in WrRecords : Recorded(s) => Recorded(s)'
         /\ \A r \in WrRecords : r # NoRun /\ r.token <= wrClock =>
              /\ Ended(r) => Ended(r)'
              /\ wrTable'[r.pid] = r.token => wrTable[r.pid] = r.token
         /\ \A p \in WrPids : wrTable'[p] # wrProc[l].token
<1>t. /\ RunsTyped /\ TokensAreUnique /\ RecordsFit /\ LockIsHeld /\ OwnersAreOnFile
      /\ FreeWriterIsFree /\ AgentsAreSupervised /\ StopFits /\ ReadFits /\ NothingIsOrphaned
  BY DEF WriterInv
<1>1. /\ NoProcess("gone") \in WrProcesses /\ NoProcess("gone").at = "gone"
      /\ NoProcess("gone").token = 0 /\ ~NoProcess("gone").halted
  BY DEF NoProcess, WrProcesses, WrUnborn
<1>2. /\ wrProc' \in [WrLaunchers -> WrProcesses]
      /\ wrProc'[l].at = "gone" /\ wrProc'[l].token = 0 /\ ~wrProc'[l].halted
      /\ \A m \in WrLaunchers \ {l} : wrProc'[m] = wrProc[m]
  BY <1>1, <1>t DEF RunsTyped
<1>3. /\ wrProc[l].pid \in WrPids /\ wrProc[l].token # 0 /\ wrTable[wrProc[l].pid] = wrProc[l].token
  BY <1>t DEF TokensAreUnique
<1>4. /\ wrTable' \in [WrPids -> Nat]
      /\ \A p \in WrPids : wrTable'[p] = IF p = wrProc[l].pid THEN 0 ELSE wrTable[p]
      /\ \A r \in WrRecords : r # NoRun /\ r.token <= wrClock =>
              /\ Ended(r) => Ended(r)'
              /\ wrTable'[r.pid] = r.token => wrTable[r.pid] = r.token
  BY <1>3, <1>t, TokensDoNotReturn
<1>5. \A p \in WrPids : wrTable'[p] # wrProc[l].token
  BY <1>3, <1>4, <1>t DEF TokensAreUnique
<1>6. TokensAreUnique'
  <2>1. /\ \A p \in WrPids : wrTable'[p] <= wrClock'
        /\ \A p, q \in WrPids : wrTable'[p] = wrTable'[q] /\ wrTable'[p] # 0 => p = q
    BY <1>4, <1>t DEF TokensAreUnique, RunsTyped
  <2>2. ASSUME NEW m \in WrLaunchers, wrProc'[m].at \notin WrUnborn
        PROVE  /\ wrProc'[m].pid \in WrPids /\ wrProc'[m].token # 0
               /\ wrTable'[wrProc'[m].pid] = wrProc'[m].token
    <3>1. m # l /\ wrProc'[m] = wrProc[m]
      BY <2>2, <1>2 DEF WrUnborn
    <3>2. wrProc[m].token # wrProc[l].token
      BY <3>1, <1>3, <1>t DEF TokensAreUnique
    <3> QED BY <2>2, <3>1, <3>2, <1>3, <1>4, <1>t DEF TokensAreUnique
  <2>3. \A m \in WrLaunchers : wrProc'[m].at \in WrUnborn => wrProc'[m].token = 0 /\ ~wrProc'[m].halted
    BY <1>2, <1>t DEF TokensAreUnique
  <2>4. \A m, n \in WrLaunchers : wrProc'[m].token = wrProc'[n].token /\ wrProc'[m].token # 0 => m = n
    BY <1>2, <1>t DEF TokensAreUnique
  <2> QED BY <2>1, <2>2, <2>3, <2>4 DEF TokensAreUnique
<1>7. OwnersAreOnFile' /\ AgentsAreSupervised'
  BY <1>2, <1>t DEF OwnersAreOnFile, AgentsAreSupervised, WrOwning
<1>8. ASSUME NEW s \in WrRecords, Recorded(s)
      PROVE  Recorded(s)'
  <2> SUFFICES ASSUME s # NoRun
               PROVE  /\ s.token <= wrClock'
                      /\ wrProc'[s.run].at \in WrOwning \cup {"leaving", "gone"}
                      /\ IF wrProc'[s.run].at = "gone" THEN \A p \in WrPids : wrTable'[p] # s.token
                         ELSE s.pid = wrProc'[s.run].pid /\ s.token = wrProc'[s.run].token
    BY DEF Recorded
  <2>1. s.run \in WrLaunchers /\ s.token <= wrClock
    BY <1>8 DEF WrRecords, Recorded
  <2>2. CASE s.run = l
    <3>1. wrProc[l].at # "gone"
      BY DEF WrUnborn
    <3> QED BY <3>1, <2>1, <2>2, <1>2, <1>5, <1>8 DEF Recorded
  <2>3. CASE s.run # l
    <3>1. wrProc'[s.run] = wrProc[s.run]
      BY <2>1, <2>3, <1>2
    <3>2. CASE wrProc[s.run].at = "gone"
      <4>1. Ended(s)'
        BY <3>2, <2>1, <1>4, <1>8 DEF Recorded, Ended
      <4> QED BY <4>1, <3>1, <3>2, <2>1 DEF Ended
    <3>3. CASE wrProc[s.run].at # "gone"
      BY <3>1, <3>3, <2>1, <1>8 DEF Recorded
    <3> QED BY <3>2, <3>3
  <2> QED BY <2>2, <2>3
<1>9. /\ wrReceipt \in WrRecords /\ (wrReceipt # NoRun => wrReceipt.token <= wrClock)
      /\ wrRead.second \in WrRecords /\ (wrRead.second # NoRun => wrRead.second.token <= wrClock)
  BY <1>t DEF RunsTyped, WrReads, RecordsFit, Recorded
<1>10. FreeWriterIsFree'
  <2>1. wrReceipt # NoRun /\ Ended(wrReceipt) => Ended(wrReceipt)'
    <3>1. PICK r \in WrRecords : r = wrReceipt
      BY <1>9
    <3>2. r # NoRun /\ Ended(r) => Ended(r)'
      BY <3>1, <1>4, <1>9
    <3> QED BY <3>1, <3>2 DEF Ended
  <2>2. LeftLate(wrReceipt.run) => LeftLate(wrReceipt.run)'
    BY DEF LeftLate
  <2>3. \A m \in WrLaunchers : wrProc'[m].at = wrProc[m].at \/ wrProc'[m].at = "gone"
    BY <1>2
  <2> QED BY <2>1, <2>2, <2>3, <1>t DEF FreeWriterIsFree, WrLooking
<1>11. ReadFits'
  BY <1>4, <1>9, <1>t DEF ReadFits, CurrentRunIsOnFile
<1>12. NothingIsOrphaned'
  BY <1>t DEF NothingIsOrphaned
<1> QED BY <1>2, <1>4, <1>5, <1>6, <1>7, <1>8, <1>10, <1>11, <1>12

\* The end of a launcher's process, with what its end leaves of the lock and the stop.
LEMMA GoneKeeps ==
  ASSUME WriterInv, NEW l \in WrLaunchers, wrProc[l].at \notin WrUnborn,
         wrTable' = [wrTable EXCEPT ![wrProc[l].pid] = 0],
         wrProc' = [wrProc EXCEPT ![l] = NoProcess("gone")],
         UNCHANGED <<wrClock, wrReceipt, wrAgent, wrDev, wrRead>>,
         wrLate \subseteq wrLate', wrLate' \subseteq WrLaunchers \X DevResources,
         Forsaken \subseteq Forsaken', wrAgent[l] = "running" => l \in Forsaken',
         wrLock' = Closed(l) \/ (wrLock = "stop" /\ wrLock' = "free"),
         wrStop' \in WrStops, wrStop'.receipt = wrStop.receipt,
         wrStop'.at \in WrStopping => wrStop.at = wrStop'.at \/ wrLock = "stop",
         wrStop'.at \in WrStopping => wrLock' = Closed(l),
         StopFits'
  PROVE  WriterInv'
<1>t. /\ RunsTyped /\ TokensAreUnique /\ RecordsFit /\ LockIsHeld
  BY DEF WriterInv
<1>1. /\ wrTable' \in [WrPids -> Nat] /\ wrProc' \in [WrLaunchers -> WrProcesses]
      /\ wrProc'[l].at = "gone" /\ \A m \in WrLaunchers \ {l} : wrProc'[m] = wrProc[m]
      /\ TokensAreUnique' /\ OwnersAreOnFile' /\ FreeWriterIsFree' /\ AgentsAreSupervised'
      /\ ReadFits' /\ NothingIsOrphaned'
      /\ \A s \in WrRecords : Recorded(s) => Recorded(s)'
  BY VanishKeeps
<1>2. RunsTyped'
  <2>1. wrLock' \in {"free", "stop"} \cup WrLaunchers
    BY <1>t DEF RunsTyped, Closed
  <2> QED BY <2>1, <1>1, <1>t DEF RunsTyped
<1>3. RecordsFit'
  <2>1. PICK a \in WrRecords, b \in WrRecords, d \in WrRecords :
            a = wrReceipt /\ b = wrStop.receipt /\ d = wrRead.second
    BY <1>t DEF RunsTyped, WrStops, WrReads
  <2>2. Recorded(a)' /\ Recorded(b)' /\ Recorded(d)'
    BY <2>1, <1>1, <1>t DEF RecordsFit
  <2> QED BY <2>1, <2>2 DEF RecordsFit, Recorded
<1>4. LockIsHeld'
  <2>1. ASSUME NEW m \in WrLaunchers, wrProc'[m].at \in WrLocking
        PROVE  wrLock' = m
    <3>1. m # l /\ wrLock = m
      BY <2>1, <1>1, <1>t DEF LockIsHeld, WrLocking, WrLooking
    <3> QED BY <3>1, WrAssumption DEF Closed
  <2>2. wrStop'.at \in WrStopping => wrLock' = "stop"
    BY <1>t, WrAssumption DEF LockIsHeld, Closed
  <2> QED BY <2>1, <2>2 DEF LockIsHeld
<1> QED BY <1>1, <1>2, <1>3, <1>4 DEF WriterInv

\* The end of a launcher's process beside a stop that does nothing.
LEMMA LeaveKeeps ==
  ASSUME WriterInv, NEW l \in WrLaunchers, wrProc[l].at \notin WrUnborn,
         NEW late \in SUBSET (WrLaunchers \X DevResources), Vanish(l, wrAgent, late),
         UNCHANGED <<wrClock, wrReceipt, wrDev, wrStop, wrRead>>,
         Forsaken \subseteq Forsaken', wrAgent[l] = "running" => l \in Forsaken'
  PROVE  WriterInv'
<1>t. RunsTyped /\ RecordsFit /\ StopFits
  BY DEF WriterInv
<1>1. /\ wrTable' = [wrTable EXCEPT ![wrProc[l].pid] = 0]
      /\ wrProc' = [wrProc EXCEPT ![l] = NoProcess("gone")]
      /\ wrLock' = Closed(l) /\ UNCHANGED wrAgent
      /\ wrLate \subseteq wrLate' /\ wrLate' \subseteq WrLaunchers \X DevResources
  BY <1>t DEF Vanish, RunsTyped
<1>2. \A r \in WrRecords : r # NoRun /\ r.token <= wrClock =>
              /\ Ended(r) => Ended(r)'
              /\ wrTable'[r.pid] = r.token => wrTable[r.pid] = r.token
  BY <1>1, VanishKeeps
<1>3. StopFits'
  <2>1. PICK b \in WrRecords : b = wrStop.receipt
    BY <1>t DEF RunsTyped, WrStops, WrReads
  <2>2. b # NoRun => b.token <= wrClock
    BY <2>1, <1>t DEF RecordsFit, Recorded
  <2>3. (b # NoRun /\ Ended(b) => Ended(b)')
        /\ (b # NoRun /\ wrTable'[b.pid] = b.token => wrTable[b.pid] = b.token)
    BY <2>2, <1>2
  <2> QED BY <2>1, <2>3, <1>t DEF StopFits, Ended, WrStopping
<1>4. wrStop \in WrStops
  BY <1>t DEF RunsTyped
<1> QED BY <1>1, <1>3, <1>4, GoneKeeps

\* What a launcher is after it went on to a step.
LEMMA LauncherAt ==
  ASSUME RunsTyped, NEW l \in WrLaunchers,
         NEW step \in WrLooking \cup WrOwning \cup {"inspect", "leaving"}, Steps(l, step)
  PROVE  \E c \in WrProcesses : /\ wrProc' = [wrProc EXCEPT ![l] = c] /\ c.at = step
                                /\ c.pid = wrProc[l].pid /\ c.token = wrProc[l].token
<1>1. wrProc \in [WrLaunchers -> WrProcesses] /\ wrProc[l] \in WrProcesses
  BY DEF RunsTyped
<1>2. PICK c : c = [wrProc[l] EXCEPT !.at = step]
  OBVIOUS
<1>3. c \in WrProcesses /\ c.at = step /\ c.pid = wrProc[l].pid /\ c.token = wrProc[l].token
  BY <1>1, <1>2 DEF WrProcesses
<1>4. wrProc' = [wrProc EXCEPT ![l] = c]
  BY <1>1, <1>2 DEF Steps
<1> QED BY <1>3, <1>4

\* A process that starts takes a token nobody had.
LEMMA StartKeeps ==
  ASSUME WriterInv, NEW p0 \in WrPids, wrTable[p0] = 0, wrTable' = [wrTable EXCEPT ![p0] = wrClock + 1],
         wrClock' = wrClock + 1
  PROVE  /\ wrTable' \in [WrPids -> Nat] /\ wrClock' \in Nat
         /\ \A p \in WrPids : wrTable'[p] = IF p = p0 THEN wrClock + 1 ELSE wrTable[p]
         /\ \A p \in WrPids : wrTable'[p] <= wrClock'
         /\ \A p, q \in WrPids : wrTable'[p] = wrTable'[q] /\ wrTable'[p] # 0 => p = q
         /\ \A l \in WrLaunchers : wrProc[l].at \notin WrUnborn => wrTable'[wrProc[l].pid] = wrProc[l].token
         /\ \A l \in WrLaunchers : wrProc[l].token \in Nat /\ wrProc[l].token < wrClock + 1
         /\ \A r \in WrRecords : r # NoRun /\ r.token <= wrClock =>
              /\ Ended(r) => Ended(r)'
              /\ wrTable'[r.pid] = r.token => wrTable[r.pid] = r.token
<1>t. RunsTyped /\ TokensAreUnique
  BY DEF WriterInv
<1>1. wrClock \in Nat /\ wrClock + 1 \in Nat
  BY <1>t DEF RunsTyped
<1>2. /\ wrTable' \in [WrPids -> Nat]
      /\ \A p \in WrPids : wrTable'[p] = IF p = p0 THEN wrClock + 1 ELSE wrTable[p]
      /\ \A r \in WrRecords : r # NoRun /\ r.token <= wrClock =>
              /\ Ended(r) => Ended(r)'
              /\ wrTable'[r.pid] = r.token => wrTable[r.pid] = r.token
  BY <1>1, <1>t, TokensDoNotReturn
<1>3. \A p \in WrPids : wrTable[p] \in Nat /\ wrTable[p] <= wrClock
  BY <1>t DEF RunsTyped, TokensAreUnique
<1>4. \A l \in WrLaunchers : wrProc[l].token \in Nat /\ wrProc[l].token < wrClock + 1
  <2> SUFFICES ASSUME NEW l \in WrLaunchers
               PROVE  wrProc[l].token \in Nat /\ wrProc[l].token < wrClock + 1
    OBVIOUS
  <2>1. wrProc[l].token \in Nat
    BY <1>t DEF RunsTyped, WrProcesses
  <2> QED BY <2>1, <1>1, <1>3, <1>t DEF TokensAreUnique
<1>5. \A p, q \in WrPids : wrTable'[p] = wrTable'[q] /\ wrTable'[p] # 0 => p = q
  BY <1>1, <1>2, <1>3, <1>t DEF TokensAreUnique
<1>6. \A l \in WrLaunchers : wrProc[l].at \notin WrUnborn => wrTable'[wrProc[l].pid] = wrProc[l].token
  BY <1>2, <1>t DEF TokensAreUnique
<1>7. \A p \in WrPids : wrTable'[p] <= wrClock'
  BY <1>1, <1>2, <1>3
<1> QED BY <1>1, <1>2, <1>4, <1>5, <1>6, <1>7

\* A start, of a launcher or of something else, leaves what rests on the tokens before.
LEMMA StartRest ==
  ASSUME WriterInv, UNCHANGED <<wrReceipt, wrDev, wrLate, wrStop, wrRead>>,
         \A r \in WrRecords : r # NoRun /\ r.token <= wrClock =>
              /\ Ended(r) => Ended(r)'
              /\ wrTable'[r.pid] = r.token => wrTable[r.pid] = r.token
  PROVE  /\ wrReceipt # NoRun /\ Ended(wrReceipt) => Ended(wrReceipt)'
         /\ StopFits' /\ ReadFits' /\ NothingIsOrphaned'
<1>t. RunsTyped /\ RecordsFit /\ StopFits /\ ReadFits /\ NothingIsOrphaned
  BY DEF WriterInv
<1>1. PICK a \in WrRecords, b \in WrRecords, d \in WrRecords :
            a = wrReceipt /\ b = wrStop.receipt /\ d = wrRead.second
  BY <1>t DEF RunsTyped, WrStops, WrReads
<1>2. /\ a # NoRun => a.token <= wrClock
      /\ b # NoRun => b.token <= wrClock
      /\ d # NoRun => d.token <= wrClock
  BY <1>1, <1>t DEF RecordsFit, Recorded
<1>3. (a # NoRun /\ Ended(a) => Ended(a)') /\ (b # NoRun /\ Ended(b) => Ended(b)')
      /\ (b # NoRun /\ wrTable'[b.pid] = b.token => wrTable[b.pid] = b.token)
      /\ (d # NoRun /\ wrTable'[d.pid] = d.token => wrTable[d.pid] = d.token)
  BY <1>2
<1>4. wrReceipt # NoRun /\ Ended(wrReceipt) => Ended(wrReceipt)'
  BY <1>1, <1>3 DEF Ended
<1>5. StopFits'
  BY <1>1, <1>3, <1>t DEF StopFits, Ended, WrStopping
<1>6. ReadFits'
  BY <1>1, <1>3, <1>t DEF ReadFits, CurrentRunIsOnFile
<1>7. NothingIsOrphaned'
  BY <1>t DEF NothingIsOrphaned
<1> QED BY <1>4, <1>5, <1>6, <1>7

\* A record whose process id is free, or used by another, is of a process that has ended.
LEMMA NotThereIsEnded ==
  ASSUME RunsTyped, TokensAreUnique, NEW r \in WrRecords, r # NoRun, Recorded(r), wrTable[r.pid] # r.token
  PROVE  Ended(r)
<1>1. r.run \in WrLaunchers
  BY DEF WrRecords
<1>2. CASE wrProc[r.run].at = "gone"
  BY <1>2 DEF Recorded, Ended
<1>3. CASE wrProc[r.run].at # "gone"
  <2>1. wrProc[r.run].at \notin WrUnborn
    BY <1>3 DEF Recorded, WrOwning, WrUnborn
  <2> QED BY <2>1, <1>1, <1>3 DEF Recorded, TokensAreUnique
<1> QED BY <1>2, <1>3

\* Every step of a launcher keeps the invariant.
LEMMA LaunchKeeps ==
  ASSUME WriterInv, NEW l \in WrLaunchers, Launch(l) PROVE WriterInv'
<1>t. /\ RunsTyped /\ TokensAreUnique /\ RecordsFit /\ LockIsHeld /\ OwnersAreOnFile
      /\ FreeWriterIsFree /\ AgentsAreSupervised /\ StopFits /\ ReadFits /\ NothingIsOrphaned
  BY DEF WriterInv
<1>u. UNCHANGED <<wrStop, wrRead, wrKilled>>
  BY DEF Launch
<1>d. /\ wrDev \in [WrLaunchers -> SUBSET DevResources]
      /\ wrAgent \in [WrLaunchers -> {"none", "running", "gone"}]
  BY <1>t DEF RunsTyped
<1>f. Forsaken' = Forsaken
  BY <1>u DEF Forsaken
<1>a. wrAgent[l] = "running" => l \in Forsaken \/ wrProc[l].at = "supervise"
  BY <1>t DEF AgentsAreSupervised
<1>l. (UNCHANGED <<wrDev, wrLate>>) => \A m \in WrLaunchers : LeftLate(m) => LeftLate(m)'
  BY DEF LeftLate
<1>h. wrProc[l].at \in WrLocking => wrLock = l
  BY <1>t DEF LockIsHeld
<1>1. CASE WrStart(l)
  <2>1. PICK p0 \in WrPids :
          /\ wrTable[p0] = 0 /\ wrTable' = [wrTable EXCEPT ![p0] = wrClock + 1]
          /\ wrProc' = [wrProc EXCEPT ![l] = [at |-> "wait", pid |-> p0, token |-> wrClock + 1,
                                              retry |-> FALSE, halted |-> FALSE]]
    BY <1>1 DEF WrStart
  <2>2. /\ wrClock' = wrClock + 1 /\ wrProc[l].at = "new"
        /\ UNCHANGED <<wrReceipt, wrLock, wrAgent, wrDev, wrLate>>
    BY <1>1 DEF WrStart, At
  <2>3. /\ wrTable' \in [WrPids -> Nat] /\ wrClock' \in Nat
        /\ \A p \in WrPids : wrTable'[p] = IF p = p0 THEN wrClock + 1 ELSE wrTable[p]
        /\ \A p \in WrPids : wrTable'[p] <= wrClock'
        /\ \A p, q \in WrPids : wrTable'[p] = wrTable'[q] /\ wrTable'[p] # 0 => p = q
        /\ \A m \in WrLaunchers : wrProc[m].at \notin WrUnborn => wrTable'[wrProc[m].pid] = wrProc[m].token
        /\ \A m \in WrLaunchers : wrProc[m].token \in Nat /\ wrProc[m].token < wrClock + 1
    BY <2>1, <2>2, StartKeeps
  <2>4. \A r \in WrRecords : r # NoRun /\ r.token <= wrClock =>
              /\ Ended(r) => Ended(r)'
              /\ wrTable'[r.pid] = r.token => wrTable[r.pid] = r.token
    BY <2>1, <2>2, StartKeeps
  <2>5. PICK c : c = [at |-> "wait", pid |-> p0, token |-> wrClock + 1, retry |-> FALSE,
                     halted |-> FALSE]
    OBVIOUS
  <2>6. c \in WrProcesses /\ wrProc' = [wrProc EXCEPT ![l] = c] /\ wrClock \in Nat
        /\ c.at = "wait" /\ c.pid = p0 /\ c.token = wrClock + 1
    BY <2>1, <2>5, <1>t DEF WrProcesses, RunsTyped
  <2>7. /\ wrProc' \in [WrLaunchers -> WrProcesses] /\ wrProc'[l] = c
        /\ \A m \in WrLaunchers \ {l} : wrProc'[m] = wrProc[m]
    BY <2>6, <1>t DEF RunsTyped
  <2>8. RunsTyped'
    BY <2>2, <2>3, <2>7, <1>t, <1>u DEF RunsTyped
  <2>9. TokensAreUnique'
    <3>1. \A m \in WrLaunchers : wrProc'[m].at \notin WrUnborn =>
             /\ wrProc'[m].pid \in WrPids /\ wrProc'[m].token # 0
             /\ wrTable'[wrProc'[m].pid] = wrProc'[m].token
      BY <2>3, <2>6, <2>7, <1>t DEF TokensAreUnique
    <3>2. \A m \in WrLaunchers : wrProc'[m].at \in WrUnborn => wrProc'[m].token = 0 /\ ~wrProc'[m].halted
      BY <2>6, <2>7, <1>t DEF TokensAreUnique, WrUnborn
    <3>3. \A m, n \in WrLaunchers : wrProc'[m].token = wrProc'[n].token /\ wrProc'[m].token # 0 => m = n
      BY <2>3, <2>6, <2>7, <1>t DEF TokensAreUnique
    <3> QED BY <3>1, <3>2, <3>3, <2>3 DEF TokensAreUnique
  <2>10. RecordsFit'
    <3>1. wrProc[l].at \notin WrOwning \cup {"leaving"} /\ wrProc[l].at # "gone" /\ wrClock' >= wrClock
      BY <2>2, <2>6 DEF WrOwning
    <3>2. ASSUME NEW s \in WrRecords, Recorded(s)
          PROVE  Recorded(s)'
      BY <3>1, <3>2, <2>3, <2>4, <2>6, <1>t, RecordsStand
    <3>3. PICK a \in WrRecords, b \in WrRecords, d \in WrRecords :
              a = wrReceipt /\ b = wrStop.receipt /\ d = wrRead.second
      BY <1>t DEF RunsTyped, WrStops, WrReads
    <3>4. Recorded(a)' /\ Recorded(b)' /\ Recorded(d)'
      BY <3>2, <3>3, <1>t DEF RecordsFit
    <3> QED BY <3>3, <3>4, <2>2, <1>u DEF RecordsFit, Recorded
  <2>11. /\ wrReceipt # NoRun /\ Ended(wrReceipt) => Ended(wrReceipt)'
         /\ StopFits' /\ ReadFits' /\ NothingIsOrphaned'
    BY <2>2, <2>4, <1>u, StartRest
  <2>12. LockIsHeld' /\ OwnersAreOnFile' /\ AgentsAreSupervised'
    BY <2>2, <2>6, <2>7, <1>t, <1>u, <1>f
       DEF LockIsHeld, OwnersAreOnFile, AgentsAreSupervised, WrLocking, WrLooking, WrOwning
  <2>13. FreeWriterIsFree'
    <3>1. wrReceipt # NoRun /\ LeftLate(wrReceipt.run) => LeftLate(wrReceipt.run)'
      BY <2>2 DEF LeftLate
    <3> QED BY <3>1, <2>2, <2>6, <2>7, <2>11, <1>t DEF FreeWriterIsFree, WrLooking
  <2> QED BY <2>8, <2>9, <2>10, <2>11, <2>12, <2>13 DEF WriterInv
<1>2. CASE Reserve(l)
  <2>1. PICK c \in WrProcesses : /\ wrProc' = [wrProc EXCEPT ![l] = c] /\ c.at = "inspect"
                                 /\ c.pid = wrProc[l].pid /\ c.token = wrProc[l].token
    BY <1>2, <1>t, LauncherAt DEF Reserve
  <2> QED BY <2>1, <1>2, <1>u, <1>d, <1>a, <1>l, LauncherSteps
          DEF Reserve, At, WrUnborn, WrLocking, WrLooking, WrOwning
<1>s. wrReceipt \in WrRecords /\ (wrReceipt # NoRun => wrReceipt.run \in WrLaunchers)
  BY <1>t DEF RunsTyped, WrRecords
<1>3. CASE Inspect(l)
  <2>1. /\ wrProc[l].at = "inspect" /\ wrLock = l
        /\ UNCHANGED <<wrTable, wrClock, wrReceipt, wrAgent, wrDev, wrLate>>
    BY <1>3, <1>h DEF Inspect, At, WrLocking
  <2>2. CASE wrReceipt = NoRun /\ Steps(l, "provision") /\ UNCHANGED wrLock
    <3>1. PICK c \in WrProcesses : /\ wrProc' = [wrProc EXCEPT ![l] = c] /\ c.at = "provision"
                                   /\ c.pid = wrProc[l].pid /\ c.token = wrProc[l].token
      BY <2>2, <1>t, LauncherAt DEF WrLooking
    <3> QED BY <3>1, <2>1, <2>2, <1>u, <1>d, <1>a, <1>l, LauncherSteps
            DEF WrUnborn, WrLocking, WrLooking, WrOwning
  <2>3. CASE /\ wrReceipt # NoRun /\ Relaunchable(wrReceipt) /\ Steps(l, "reclaim") /\ UNCHANGED wrLock
    <3>1. PICK c \in WrProcesses : /\ wrProc' = [wrProc EXCEPT ![l] = c] /\ c.at = "reclaim"
                                   /\ c.pid = wrProc[l].pid /\ c.token = wrProc[l].token
      BY <2>3, <1>t, LauncherAt DEF WrLooking
    <3>2. wrReceipt.pid \in WrPids /\ wrReceipt.token # 0
      BY <2>3, <1>s DEF WrRecords
    <3>3. wrTable[wrReceipt.pid] # wrReceipt.token
      BY <2>3, <3>2 DEF Relaunchable, RunStatus
    <3>4. Ended(wrReceipt)
      BY <2>3, <3>3, <1>s, <1>t, NotThereIsEnded DEF RecordsFit
    <3> QED BY <3>1, <3>4, <2>1, <2>3, <1>u, <1>d, <1>a, <1>l, LauncherSteps
            DEF WrUnborn, WrLocking, WrLooking, WrOwning
  <2>4. CASE Steps(l, "leaving") /\ wrLock' = Closed(l)
    <3>1. PICK c \in WrProcesses : /\ wrProc' = [wrProc EXCEPT ![l] = c] /\ c.at = "leaving"
                                   /\ c.pid = wrProc[l].pid /\ c.token = wrProc[l].token
      BY <2>4, <1>t, LauncherAt
    <3> QED BY <3>1, <2>1, <2>4, <1>u, <1>d, <1>a, <1>l, LauncherSteps
            DEF WrUnborn, WrLocking, WrLooking, WrOwning, Closed
  <2> QED BY <1>3, <2>2, <2>3, <2>4 DEF Inspect
<1>4. CASE Reclaim(l)
  <2>1. /\ wrProc[l].at = "reclaim" /\ wrLock = l
        /\ UNCHANGED <<wrTable, wrClock, wrReceipt, wrAgent, wrLate>>
        /\ wrReceipt # NoRun /\ Ended(wrReceipt) /\ wrReceipt.run \in WrLaunchers
    BY <1>4, <1>h, <1>t, <1>s DEF Reclaim, At, WrLocking, WrLooking, FreeWriterIsFree
  <2>2. ASSUME NEW left \in SUBSET wrDev[wrReceipt.run], wrDev' = [wrDev EXCEPT ![wrReceipt.run] = left]
        PROVE  /\ wrDev' \in [WrLaunchers -> SUBSET DevResources]
               /\ \A m \in WrLaunchers : LeftLate(m) => LeftLate(m)'
    BY <2>1, <2>2, <1>d DEF LeftLate
  <2>3. CASE /\ wrDev' = [wrDev EXCEPT ![wrReceipt.run] = {}]
             /\ Steps(l, "provision") /\ UNCHANGED wrLock
    <3>1. PICK c \in WrProcesses : /\ wrProc' = [wrProc EXCEPT ![l] = c] /\ c.at = "provision"
                                   /\ c.pid = wrProc[l].pid /\ c.token = wrProc[l].token
      BY <2>3, <1>t, LauncherAt DEF WrLooking
    <3>2. LeftLate(wrReceipt.run)'
      BY <2>1, <2>3, <1>d DEF LeftLate
    <3>3. /\ wrDev' \in [WrLaunchers -> SUBSET DevResources]
          /\ \A m \in WrLaunchers : LeftLate(m) => LeftLate(m)'
      BY <2>2, <2>3
    <3> QED BY <3>1, <3>2, <3>3, <2>1, <2>3, <1>u, <1>d, <1>a, LauncherSteps
            DEF WrUnborn, WrLocking, WrLooking, WrOwning
  <2>4. CASE /\ \E left \in SUBSET wrDev[wrReceipt.run] : wrDev' = [wrDev EXCEPT ![wrReceipt.run] = left]
             /\ Steps(l, "leaving") /\ wrLock' = Closed(l)
    <3>1. PICK c \in WrProcesses : /\ wrProc' = [wrProc EXCEPT ![l] = c] /\ c.at = "leaving"
                                   /\ c.pid = wrProc[l].pid /\ c.token = wrProc[l].token
      BY <2>4, <1>t, LauncherAt
    <3>2. /\ wrDev' \in [WrLaunchers -> SUBSET DevResources]
          /\ \A m \in WrLaunchers : LeftLate(m) => LeftLate(m)'
      BY <2>2, <2>4
    <3> QED BY <3>1, <3>2, <2>1, <2>4, <1>u, <1>d, <1>a, LauncherSteps
            DEF WrUnborn, WrLocking, WrLooking, WrOwning, Closed
  <2> QED BY <1>4, <2>3, <2>4 DEF Reclaim, Remains
<1>5. CASE Provision(l)
  <2>1. /\ wrProc[l].at = "provision" /\ wrLock = l
        /\ UNCHANGED <<wrTable, wrClock, wrReceipt, wrAgent, wrDev, wrLate>>
        /\ wrReceipt # NoRun => Ended(wrReceipt) /\ LeftLate(wrReceipt.run)
    BY <1>5, <1>h, <1>t DEF Provision, At, WrLocking, WrLooking, FreeWriterIsFree
  <2>2. CASE Steps(l, "record") /\ UNCHANGED wrLock
    <3>1. PICK c \in WrProcesses : /\ wrProc' = [wrProc EXCEPT ![l] = c] /\ c.at = "record"
                                   /\ c.pid = wrProc[l].pid /\ c.token = wrProc[l].token
      BY <2>2, <1>t, LauncherAt DEF WrLooking
    <3>2. wrReceipt # NoRun => LeftLate(wrReceipt.run)'
      BY <2>1 DEF LeftLate
    <3> QED BY <3>1, <3>2, <2>1, <2>2, <1>u, <1>d, <1>a, <1>l, LauncherSteps
            DEF WrUnborn, WrLocking, WrLooking, WrOwning
  <2>3. CASE Steps(l, "leaving") /\ wrLock' = Closed(l)
    <3>1. PICK c \in WrProcesses : /\ wrProc' = [wrProc EXCEPT ![l] = c] /\ c.at = "leaving"
                                   /\ c.pid = wrProc[l].pid /\ c.token = wrProc[l].token
      BY <2>3, <1>t, LauncherAt
    <3> QED BY <3>1, <2>1, <2>3, <1>u, <1>d, <1>a, <1>l, LauncherSteps
            DEF WrUnborn, WrLocking, WrLooking, WrOwning, Closed
  <2> QED BY <1>5, <2>2, <2>3 DEF Provision
<1>6. CASE Record(l)
  <2>1. /\ wrProc[l].at = "record" /\ wrLock = l
        /\ wrReceipt' = [run |-> l, pid |-> wrProc[l].pid, token |-> wrProc[l].token]
        /\ UNCHANGED <<wrTable, wrClock, wrLock, wrAgent, wrDev, wrLate>>
        /\ wrReceipt # NoRun => Ended(wrReceipt) /\ LeftLate(wrReceipt.run)
    BY <1>6, <1>h, <1>t DEF Record, At, WrLocking, WrLooking, FreeWriterIsFree
  <2>2. PICK c \in WrProcesses : /\ wrProc' = [wrProc EXCEPT ![l] = c] /\ c.at = "bind"
                                 /\ c.pid = wrProc[l].pid /\ c.token = wrProc[l].token
    BY <1>6, <1>t, LauncherAt DEF Record, WrOwning
  <2>3. /\ wrProc' \in [WrLaunchers -> WrProcesses]
        /\ wrProc'[l] = c /\ \A m \in WrLaunchers \ {l} : wrProc'[m] = wrProc[m]
    BY <2>2, <1>t DEF RunsTyped
  <2>4. /\ wrProc[l].pid \in WrPids /\ wrProc[l].token # 0 /\ wrProc[l].token \in Nat
        /\ wrProc[l].token <= wrClock /\ wrTable[wrProc[l].pid] = wrProc[l].token
    BY <2>1, <1>t DEF RunsTyped, TokensAreUnique, WrUnborn, WrProcesses
  <2>5. PICK a : a = [run |-> l, pid |-> wrProc[l].pid, token |-> wrProc[l].token]
    OBVIOUS
  <2>6. /\ a \in WrRecords /\ a.run = l /\ a.pid = wrProc[l].pid /\ a.token = wrProc[l].token
        /\ wrReceipt' = a /\ a # NoRun
    BY <2>1, <2>4, <2>5, WrAssumption DEF WrRecords, NoRun
  <2>7. RunsTyped'
    BY <2>1, <2>3, <2>6, <1>t, <1>u DEF RunsTyped
  <2>8. TokensAreUnique'
    BY <2>1, <2>2, <2>3, <1>t DEF TokensAreUnique, WrUnborn
  <2>9. RecordsFit'
    <3>1. /\ wrProc[l].at \notin WrOwning \cup {"leaving"} /\ wrProc[l].at # "gone"
          /\ wrClock' >= wrClock /\ wrClock' \in Nat
          /\ \A r \in WrRecords : r # NoRun /\ r.token <= wrClock => (Ended(r) => Ended(r)')
      BY <2>1, <1>t DEF WrOwning, RunsTyped, Ended
    <3>2. ASSUME NEW s \in WrRecords, Recorded(s)
          PROVE  Recorded(s)'
      BY <3>1, <3>2, <2>2, <1>t, RecordsStand
    <3>3. PICK b \in WrRecords, d \in WrRecords : b = wrStop.receipt /\ d = wrRead.second
      BY <1>t DEF RunsTyped, WrStops, WrReads
    <3>4. Recorded(b)' /\ Recorded(d)'
      BY <3>2, <3>3, <1>t DEF RecordsFit
    <3>5. Recorded(a)'
      BY <2>1, <2>2, <2>3, <2>4, <2>6 DEF Recorded, WrOwning
    <3> QED BY <3>3, <3>4, <3>5, <2>6, <1>u DEF RecordsFit, Recorded
  <2>10. LockIsHeld' /\ AgentsAreSupervised'
    BY <2>1, <2>2, <2>3, <1>t, <1>u, <1>f DEF LockIsHeld, AgentsAreSupervised
  <2>11. OwnersAreOnFile'
    <3>1. ASSUME NEW m \in WrLaunchers \ {l}, wrProc[m].at \in WrOwning
          PROVE  FALSE
      <4>1. wrReceipt # NoRun /\ wrReceipt.run = m /\ Ended(wrReceipt)
        BY <3>1, <2>1, <1>t DEF OwnersAreOnFile
      <4>2. wrProc[m].at \notin WrUnborn /\ wrProc[m].at # "gone"
        BY <3>1 DEF WrOwning, WrUnborn
      <4>3. /\ wrReceipt.token = wrProc[m].token /\ wrProc[m].pid \in WrPids
            /\ wrTable[wrProc[m].pid] = wrProc[m].token
        BY <4>1, <4>2, <3>1, <1>t DEF RecordsFit, Recorded, TokensAreUnique
      <4> QED BY <4>1, <4>3 DEF Ended
    <3> QED BY <3>1, <2>3, <2>6 DEF OwnersAreOnFile
  <2>12. FreeWriterIsFree'
    <3>1. \A m \in WrLaunchers : wrProc'[m].at \notin WrLooking
      BY <2>1, <2>2, <2>3, <1>t DEF LockIsHeld, WrLocking, WrLooking
    <3> QED BY <3>1 DEF FreeWriterIsFree, WrLooking
  <2>13. StopFits'
    BY <2>1, <1>t, <1>u DEF StopFits, Ended
  <2>14. ReadFits'
    <3>1. wrRead.second # NoRun => wrRead.second.pid \in WrPids
      BY <1>t DEF RunsTyped, WrReads, WrRecords
    <3> QED BY <3>1, <2>1, <1>t, <1>u DEF ReadFits, Ended, CurrentRunIsOnFile
  <2>15. NothingIsOrphaned'
    <3> SUFFICES ASSUME NEW m \in WrLaunchers, m # l PROVE LeftLate(m)'
      BY <2>6 DEF NothingIsOrphaned, LeftLate
    <3>1. wrReceipt = NoRun => m # wrReceipt.run
      BY WrAssumption DEF NoRun
    <3>2. LeftLate(m)
      BY <3>1, <2>1, <1>t DEF NothingIsOrphaned, LeftLate
    <3> QED BY <3>2, <2>1, <1>l
  <2> QED BY <2>7, <2>8, <2>9, <2>10, <2>11, <2>12, <2>13, <2>14, <2>15 DEF WriterInv
<1>o. wrProc[l].at \in WrOwning => wrReceipt # NoRun /\ wrReceipt.run = l
  BY <1>t DEF OwnersAreOnFile
<1>7. CASE Bind(l)
  <2>1. /\ wrProc[l].at = "bind" /\ wrLock = l
        /\ UNCHANGED <<wrTable, wrClock, wrReceipt, wrAgent, wrDev, wrLate>>
    BY <1>7, <1>h DEF Bind, At, WrLocking
  <2>2. PICK c \in WrProcesses : /\ wrProc' = [wrProc EXCEPT ![l] = c]
                                 /\ c.pid = wrProc[l].pid /\ c.token = wrProc[l].token
                                 /\ \/ c.at \in {"create", "bind"} /\ UNCHANGED wrLock
                                    \/ c.at = "leaving" /\ wrLock' = Closed(l)
    <3>1. wrProc \in [WrLaunchers -> WrProcesses] /\ wrProc[l] \in WrProcesses
      BY <1>t DEF RunsTyped
    <3>2. CASE wrProc' = [wrProc EXCEPT ![l].at = "create", ![l].retry = FALSE] /\ UNCHANGED wrLock
      <4>1. PICK c : c = [wrProc[l] EXCEPT !.at = "create", !.retry = FALSE]
        OBVIOUS
      <4>2. c \in WrProcesses /\ c.at = "create" /\ c.pid = wrProc[l].pid /\ c.token = wrProc[l].token
        BY <3>1, <4>1 DEF WrProcesses, WrOwning
      <4>3. wrProc' = [wrProc EXCEPT ![l] = c]
        BY <3>1, <3>2, <4>1
      <4> QED BY <4>2, <4>3, <3>2
    <3>3. CASE wrProc' = [wrProc EXCEPT ![l].retry = TRUE] /\ UNCHANGED wrLock
      <4>1. PICK c : c = [wrProc[l] EXCEPT !.retry = TRUE]
        OBVIOUS
      <4>2. c \in WrProcesses /\ c.at = "bind" /\ c.pid = wrProc[l].pid /\ c.token = wrProc[l].token
        BY <3>1, <4>1, <2>1 DEF WrProcesses
      <4>3. wrProc' = [wrProc EXCEPT ![l] = c]
        BY <3>1, <3>3, <4>1
      <4> QED BY <4>2, <4>3, <3>3
    <3>4. CASE Steps(l, "leaving") /\ wrLock' = Closed(l)
      BY <3>4, <1>t, LauncherAt
    <3> QED BY <3>2, <3>3, <3>4, <1>7 DEF Bind
  <2> QED BY <2>1, <2>2, <1>u, <1>d, <1>a, <1>l, LauncherSteps
          DEF WrUnborn, WrLocking, WrLooking, WrOwning, Closed
<1>8. CASE PrepareDevelopment(l)
  <2>1. /\ wrProc[l].at = "create" /\ wrLock = l /\ wrReceipt.run = l
        /\ UNCHANGED <<wrTable, wrClock, wrReceipt, wrAgent>>
    BY <1>8, <1>h, <1>o DEF PrepareDevelopment, At, WrLocking, WrOwning
  <2>x. NextResource(l) \in DevResources
    BY DEF NextResource, DevResources
  <2>k. wrLate \subseteq wrLate' /\ wrLate' \subseteq WrLaunchers \X DevResources
    BY <2>x, <1>8, <1>t DEF PrepareDevelopment, TimedOut, RunsTyped
  <2>2. ASSUME NEW made \in SUBSET DevResources, wrDev' = [wrDev EXCEPT ![l] = made]
        PROVE  /\ wrDev' \in [WrLaunchers -> SUBSET DevResources]
               /\ \A m \in WrLaunchers : LeftLate(m) => LeftLate(m)' \/ (m = wrReceipt.run /\ wrLock = l)
    BY <2>1, <2>2, <2>k, <1>d DEF LeftLate
  <2>3. PICK made \in SUBSET DevResources : wrDev' = [wrDev EXCEPT ![l] = made]
    BY <2>x, <1>8, <1>d DEF PrepareDevelopment, Remains
  <2>4. \/ Steps(l, "ready") /\ wrLock' = Closed(l)
        \/ UNCHANGED <<wrProc, wrLock>>
        \/ Steps(l, "leaving") /\ wrLock' = Closed(l)
    BY <1>8 DEF PrepareDevelopment
  <2>5. PICK c \in WrProcesses : /\ wrProc' = [wrProc EXCEPT ![l] = c]
                                 /\ c.pid = wrProc[l].pid /\ c.token = wrProc[l].token
                                 /\ \/ c.at \in {"ready", "leaving"} /\ wrLock' = Closed(l)
                                    \/ c.at = "create" /\ UNCHANGED wrLock
    <3>1. CASE Steps(l, "ready") /\ wrLock' = Closed(l)
      BY <3>1, <1>t, LauncherAt DEF WrOwning
    <3>2. CASE Steps(l, "leaving") /\ wrLock' = Closed(l)
      BY <3>2, <1>t, LauncherAt
    <3>3. CASE UNCHANGED <<wrProc, wrLock>>
      <4>1. wrProc \in [WrLaunchers -> WrProcesses] /\ wrProc[l] \in WrProcesses
        BY <1>t DEF RunsTyped
      <4>2. wrProc' = [wrProc EXCEPT ![l] = wrProc[l]]
        BY <3>3, <4>1
      <4> QED BY <4>1, <4>2, <3>3, <2>1
    <3> QED BY <3>1, <3>2, <3>3, <2>4
  <2>6. PICK s \in WrStops : s = wrStop
    BY <1>t DEF RunsTyped
  <2>7. /\ wrStop' = s /\ s.receipt = wrStop.receipt /\ (wrStop.held => s.held)
        /\ (s.at \in WrStopping => wrStop.at \in WrStopping)
    BY <2>6, <1>u
  <2>8. StopFits'
    BY <2>1, <1>t, <1>u DEF StopFits, Ended
  <2> QED BY <2>1, <2>2, <2>3, <2>5, <2>7, <2>8, <2>k, <1>u, <1>d, <1>a, <1>f, LauncherMoves
          DEF WrUnborn, WrLocking, WrLooking, WrOwning, Closed
<1>9. CASE Arm(l)
  <2>1. PICK c \in WrProcesses : /\ wrProc' = [wrProc EXCEPT ![l] = c] /\ c.at = "armed"
                                 /\ c.pid = wrProc[l].pid /\ c.token = wrProc[l].token
    BY <1>9, <1>t, LauncherAt DEF Arm, WrOwning
  <2> QED BY <2>1, <1>9, <1>u, <1>d, <1>a, <1>l, LauncherSteps
          DEF Arm, At, WrUnborn, WrLocking, WrLooking, WrOwning
<1>10. CASE Spawn(l)
  <2>1. PICK c \in WrProcesses : /\ wrProc' = [wrProc EXCEPT ![l] = c] /\ c.at = "supervise"
                                 /\ c.pid = wrProc[l].pid /\ c.token = wrProc[l].token
    BY <1>10, <1>t, LauncherAt DEF Spawn, WrOwning
  <2>2. /\ wrAgent' \in [WrLaunchers -> {"none", "running", "gone"}]
        /\ \A m \in WrLaunchers \ {l} : wrAgent'[m] = wrAgent[m]
    BY <1>10, <1>d DEF Spawn
  <2> QED BY <2>1, <2>2, <1>10, <1>u, <1>d, <1>l, LauncherSteps
          DEF Spawn, At, WrUnborn, WrLocking, WrLooking, WrOwning
<1>11. CASE Reap(l)
  <2>1. PICK c \in WrProcesses : /\ wrProc' = [wrProc EXCEPT ![l] = c] /\ c.at = "clean"
                                 /\ c.pid = wrProc[l].pid /\ c.token = wrProc[l].token
    BY <1>11, <1>t, LauncherAt DEF Reap, WrOwning
  <2> QED BY <2>1, <1>11, <1>u, <1>d, <1>l, LauncherSteps
          DEF Reap, At, WrUnborn, WrLocking, WrLooking, WrOwning
<1>12. CASE Clean(l)
  <2>1. PICK c \in WrProcesses : /\ wrProc' = [wrProc EXCEPT ![l] = c] /\ c.at = "leaving"
                                 /\ c.pid = wrProc[l].pid /\ c.token = wrProc[l].token
    BY <1>12, <1>t, LauncherAt DEF Clean
  <2>2. PICK left \in SUBSET wrDev[l] : wrDev' = [wrDev EXCEPT ![l] = left]
    BY <1>12 DEF Clean, Remains
  <2>3. /\ wrDev' \in [WrLaunchers -> SUBSET DevResources]
        /\ \A m \in WrLaunchers : LeftLate(m) => LeftLate(m)'
    BY <2>2, <1>12, <1>d DEF LeftLate, Clean
  <2> QED BY <2>1, <2>3, <1>12, <1>u, <1>d, <1>a, LauncherSteps
          DEF Clean, At, WrUnborn, WrLocking, WrLooking, WrOwning
<1>13. CASE Leave(l)
  <2>1. /\ wrProc[l].at = "leaving" /\ Vanish(l, wrAgent, {})
        /\ UNCHANGED <<wrClock, wrReceipt, wrDev>>
    BY <1>13 DEF Leave, At
  <2> QED BY <2>1, <1>u, <1>a, <1>f, LeaveKeeps DEF WrUnborn
<1> QED BY <1>1, <1>2, <1>3, <1>4, <1>5, <1>6, <1>7, <1>8, <1>9, <1>10, <1>11, <1>12, <1>13 DEF Launch

\* A step of the stop that touches no process.
LEMMA StopSteps ==
  ASSUME WriterInv, NEW c \in WrStops, wrStop' = c, Recorded(c.receipt),
         UNCHANGED <<wrTable, wrClock, wrReceipt, wrProc, wrAgent, wrDev, wrLate, wrRead, wrKilled>>,
         wrLock' = wrLock \/ (wrLock = "free" /\ wrLock' = "stop") \/ (wrLock = "stop" /\ wrLock' = "free"),
         c.at \in WrStopping => wrLock' = "stop",
         wrStop.held => c.held /\ c.receipt = wrStop.receipt, StopFits'
  PROVE  WriterInv'
<1>t. /\ RunsTyped /\ TokensAreUnique /\ RecordsFit /\ LockIsHeld /\ OwnersAreOnFile
      /\ FreeWriterIsFree /\ AgentsAreSupervised /\ ReadFits /\ NothingIsOrphaned
  BY DEF WriterInv
<1>1. RunsTyped'
  BY <1>t DEF RunsTyped
<1>f. Forsaken \subseteq Forsaken'
  BY DEF Forsaken
<1>2. TokensAreUnique' /\ OwnersAreOnFile' /\ AgentsAreSupervised' /\ NothingIsOrphaned'
  BY <1>f, <1>t DEF TokensAreUnique, OwnersAreOnFile, AgentsAreSupervised, NothingIsOrphaned
<1>3. RecordsFit'
  BY <1>t DEF RecordsFit, Recorded
<1>4. LockIsHeld'
  BY <1>t, WrAssumption DEF LockIsHeld
<1>5. FreeWriterIsFree' /\ ReadFits'
  BY <1>t DEF FreeWriterIsFree, Ended, LeftLate, ReadFits, CurrentRunIsOnFile
<1> QED BY <1>1, <1>2, <1>3, <1>4, <1>5 DEF WriterInv

\* Every step of the stop keeps the invariant: it answers that a run has ended only of one that
\* has, and ends no process but the recorded one.
LEMMA StopKeeps ==
  ASSUME WriterInv, Stop PROVE WriterInv'
<1>t. /\ RunsTyped /\ TokensAreUnique /\ RecordsFit /\ LockIsHeld /\ OwnersAreOnFile
      /\ FreeWriterIsFree /\ AgentsAreSupervised /\ StopFits /\ ReadFits /\ NothingIsOrphaned
  BY DEF WriterInv
<1>u. UNCHANGED <<wrClock, wrReceipt, wrDev, wrRead, wrKilled>>
  BY DEF Stop
<1>s. /\ wrStop \in WrStops /\ wrStop.receipt \in WrRecords /\ Recorded(wrStop.receipt)
      /\ wrReceipt \in WrRecords /\ Recorded(wrReceipt)
  BY <1>t DEF RunsTyped, RecordsFit, WrStops
<1>p. wrStop.receipt # NoRun => wrStop.receipt.pid \in WrPids /\ wrStop.receipt.token \in Nat \ {0}
  BY <1>s DEF WrRecords
<1>h. wrStop.at \in WrStopping => wrLock = "stop"
  BY <1>t DEF LockIsHeld
<1>n. ~wrStop.held \/ wrStop.at \in {"grace", "force", "done"}
  BY <1>t DEF StopFits
<1>e. wrStop.receipt # NoRun /\ wrTable[wrStop.receipt.pid] # wrStop.receipt.token => Ended(wrStop.receipt)
  BY <1>s, <1>t, NotThereIsEnded
<1>a. ASSUME NEW answer \in {"unknown", "stopped", "lost"}, StopEnd(answer), wrLock = "stop",
             UNCHANGED <<wrTable, wrProc, wrAgent, wrLate>>,
             answer # "unknown" => wrStop.receipt # NoRun /\ Ended(wrStop.receipt)
      PROVE  WriterInv'
  <2>1. PICK c : c = [wrStop EXCEPT !.at = "done", !.answer = answer]
    OBVIOUS
  <2>2. c \in WrStops /\ c.receipt = wrStop.receipt /\ c.at = "done" /\ c.answer = answer
        /\ c.held = wrStop.held
    BY <2>1, <1>s DEF WrStops
  <2>3. wrStop' = c /\ wrLock' = "free"
    BY <2>1, <1>a DEF StopEnd
  <2>4. StopFits'
    BY <2>2, <2>3, <1>a DEF StopFits, Ended, WrStopping
  <2>5. Recorded(c.receipt)
    BY <2>2, <1>s
  <2> QED BY <2>2, <2>3, <2>4, <2>5, <1>a, <1>u, StopSteps DEF WrStopping
<1>1. CASE StopBegin
  <2>1. PICK c : c = [wrStop EXCEPT !.at = "read"]
    OBVIOUS
  <2>2. c \in WrStops /\ c.receipt = wrStop.receipt /\ c.at = "read" /\ c.answer = wrStop.answer
        /\ c.held = wrStop.held
    BY <2>1, <1>s DEF WrStops, WrStopping
  <2>3. /\ wrStop' = c /\ wrStop.at = "idle" /\ wrLock = "free" /\ wrLock' = "stop"
        /\ UNCHANGED <<wrTable, wrProc, wrAgent, wrLate>>
    BY <2>1, <1>1 DEF StopBegin
  <2>4. StopFits'
    BY <2>2, <2>3, <1>t DEF StopFits, Ended, WrStopping
  <2>5. Recorded(c.receipt)
    BY <2>2, <1>s
  <2> QED BY <2>2, <2>3, <2>4, <2>5, <1>u, StopSteps
<1>2. CASE StopRead
  <2>1. wrStop.at = "read" /\ wrLock = "stop" /\ UNCHANGED <<wrTable, wrProc, wrAgent, wrLate>>
    BY <1>2, <1>h DEF StopRead, WrStopping
  <2>2. CASE wrReceipt = NoRun /\ StopEnd("unknown")
    BY <2>1, <2>2, <1>a
  <2>3. CASE /\ wrReceipt # NoRun
             /\ wrStop' = [wrStop EXCEPT !.at = "open", !.receipt = wrReceipt] /\ UNCHANGED wrLock
    <3>1. PICK c : c = [wrStop EXCEPT !.at = "open", !.receipt = wrReceipt]
      OBVIOUS
    <3>2. c \in WrStops /\ c.receipt = wrReceipt /\ c.at = "open" /\ c.answer = wrStop.answer
          /\ ~wrStop.held /\ ~c.held
      BY <3>1, <2>1, <1>s, <1>n DEF WrStops, WrStopping
    <3>3. StopFits'
      BY <3>1, <3>2, <2>1, <2>3, <1>t DEF StopFits, Ended, WrStopping
    <3>4. Recorded(c.receipt)
      BY <3>2, <1>s
    <3> QED BY <3>1, <3>2, <3>3, <3>4, <2>1, <2>3, <1>u, StopSteps
  <2> QED BY <2>2, <2>3, <1>2 DEF StopRead
<1>3. CASE StopOpen
  <2>1. /\ wrStop.at = "open" /\ wrLock = "stop" /\ UNCHANGED <<wrTable, wrProc, wrAgent, wrLate>>
        /\ wrStop.receipt # NoRun
    BY <1>3, <1>h, <1>t DEF StopOpen, StopFits, WrStopping
  <2>2. CASE wrTable[wrStop.receipt.pid] = 0 /\ StopEnd("stopped")
    <3>1. Ended(wrStop.receipt)
      BY <2>1, <2>2, <1>e, <1>p
    <3> QED BY <3>1, <2>1, <2>2, <1>a
  <2>3. CASE /\ wrStop' = [wrStop EXCEPT !.at = "identify", !.fd = wrTable[wrStop.receipt.pid]]
             /\ UNCHANGED wrLock
    <3>1. PICK c : c = [wrStop EXCEPT !.at = "identify", !.fd = wrTable[wrStop.receipt.pid]]
      OBVIOUS
    <3>2. wrTable[wrStop.receipt.pid] \in Nat
      BY <2>1, <1>p, <1>t DEF RunsTyped
    <3>3. /\ c \in WrStops /\ c.receipt = wrStop.receipt /\ c.at = "identify" /\ c.answer = wrStop.answer
          /\ c.fd = wrTable[wrStop.receipt.pid] /\ ~wrStop.held /\ ~c.held
      BY <3>1, <3>2, <2>1, <1>s, <1>n DEF WrStops, WrStopping
    <3>4. StopFits'
      BY <3>1, <3>3, <2>1, <2>3, <1>t DEF StopFits, Ended, WrStopping
    <3>5. Recorded(c.receipt)
      BY <3>3, <1>s
    <3> QED BY <3>1, <3>3, <3>4, <3>5, <2>1, <2>3, <1>u, StopSteps
  <2> QED BY <2>2, <2>3, <1>3 DEF StopOpen
<1>4. CASE StopIdentify
  <2>1. /\ wrStop.at = "identify" /\ wrLock = "stop" /\ UNCHANGED <<wrTable, wrProc, wrAgent, wrLate>>
        /\ wrStop.receipt # NoRun
    BY <1>4, <1>h, <1>t DEF StopIdentify, StopFits, WrStopping
  <2>2. CASE /\ wrTable[wrStop.receipt.pid] # wrStop.receipt.token
             /\ StopEnd("stopped") \/ StopEnd("lost")
    <3>1. Ended(wrStop.receipt)
      BY <2>1, <2>2, <1>e, <1>p
    <3> QED BY <3>1, <2>1, <2>2, <1>a
  <2>3. CASE /\ SameIdentity(wrStop) /\ wrStop' = [wrStop EXCEPT !.at = "term"] /\ UNCHANGED wrLock
    <3>1. PICK c : c = [wrStop EXCEPT !.at = "term"]
      OBVIOUS
    <3>2. /\ c \in WrStops /\ c.receipt = wrStop.receipt /\ c.at = "term" /\ c.answer = wrStop.answer
          /\ c.fd = wrStop.fd /\ ~wrStop.held /\ ~c.held
      BY <3>1, <2>1, <1>s, <1>n DEF WrStops, WrStopping
    <3>3. wrStop.fd = wrStop.receipt.token
      BY <2>1, <2>3, <1>t DEF SameIdentity, StopFits
    <3>4. StopFits'
      BY <3>1, <3>2, <3>3, <2>1, <2>3, <1>t DEF StopFits, Ended, WrStopping
    <3>5. Recorded(c.receipt)
      BY <3>2, <1>s
    <3> QED BY <3>1, <3>2, <3>4, <3>5, <2>1, <2>3, <1>u, StopSteps
  <2> QED BY <2>1, <2>2, <2>3, <1>4, <1>p DEF StopIdentify, SameIdentity
<1>d. ASSUME wrStop.at \in {"term", "grace", "force"}
      PROVE  /\ wrStop.fd = wrStop.receipt.token /\ wrStop.receipt # NoRun /\ wrLock = "stop"
             /\ ~Alive(wrStop.fd) => Ended(wrStop.receipt)
             /\ \A l \in WrLaunchers : wrProc[l].token = wrStop.fd =>
                  wrProc[l].at \in WrOwning \cup {"leaving"} /\ l = wrStop.receipt.run
             /\ wrStop.answer \notin {"stopped", "lost"}
  <2>1. /\ wrStop.fd = wrStop.receipt.token /\ wrStop.receipt # NoRun /\ wrLock = "stop"
        /\ wrStop.answer \notin {"stopped", "lost"}
    BY <1>d, <1>h, <1>t DEF StopFits, WrStopping
  <2>2. ~Alive(wrStop.fd) => Ended(wrStop.receipt)
    BY <2>1 DEF Alive, Ended
  <2>3. ASSUME NEW l \in WrLaunchers, wrProc[l].token = wrStop.fd
        PROVE  wrProc[l].at \in WrOwning \cup {"leaving"} /\ l = wrStop.receipt.run
    <3>1. /\ wrProc[l].token # 0 /\ wrProc[l].pid \in WrPids
          /\ wrTable[wrProc[l].pid] = wrStop.receipt.token
      BY <2>1, <2>3, <1>p, <1>t DEF TokensAreUnique
    <3>2. wrStop.receipt.run \in WrLaunchers
      BY <2>1, <1>s DEF WrRecords
    <3>3. /\ wrProc[wrStop.receipt.run].at # "gone"
          /\ wrProc[wrStop.receipt.run].at \in WrOwning \cup {"leaving", "gone"}
          /\ wrProc[wrStop.receipt.run].token = wrStop.receipt.token
      BY <3>1, <2>1, <1>s DEF Recorded
    <3> QED BY <3>1, <3>2, <3>3, <2>1, <2>3, <1>t DEF TokensAreUnique
  <2> QED BY <2>1, <2>2, <2>3
<1>5. CASE StopTerm
  <2>1. wrStop.at = "term"
    BY <1>5 DEF StopTerm
  <2>2. PICK l \in WrLaunchers :
             /\ wrProc[l].token = wrStop.fd
             /\ wrStop' = [wrStop EXCEPT !.at = "grace", !.held = wrProc[l].halted]
             /\ IF Supervising(l) THEN UNCHANGED <<wrTable, wrLock, wrProc, wrAgent, wrLate>>
                ELSE Vanish(l, wrAgent, {})
    BY <1>5 DEF StopTerm
  <2>3. PICK c : c = [wrStop EXCEPT !.at = "grace", !.held = wrProc[l].halted]
    OBVIOUS
  <2>4. wrProc[l].halted \in BOOLEAN
    BY <1>t DEF RunsTyped, WrProcesses
  <2>5. /\ c \in WrStops /\ c.receipt = wrStop.receipt /\ c.at = "grace" /\ c.answer = wrStop.answer
        /\ c.fd = wrStop.fd /\ wrStop' = c /\ ~wrStop.held
    BY <2>1, <2>2, <2>3, <2>4, <1>s, <1>n DEF WrStops, WrStopping
  <2>6. StopFits'
    BY <2>5, <2>1, <1>d DEF StopFits, WrStopping
  <2>7. Recorded(c.receipt)
    BY <2>5, <1>s
  <2>8. CASE Supervising(l)
    BY <2>1, <2>2, <2>5, <2>6, <2>7, <2>8, <1>d, <1>u, StopSteps DEF WrStopping
  <2>9. CASE ~Supervising(l)
    <3>1. wrProc[l].at \notin WrUnborn /\ wrLock = "stop"
      BY <2>1, <2>2, <1>d DEF WrOwning, WrUnborn
    <3>2. Forsaken \subseteq Forsaken'
      BY <2>5, <1>u DEF Forsaken
    <3>3. wrAgent[l] = "running" => l \in Forsaken'
      BY <3>2, <2>9, <1>t DEF AgentsAreSupervised, Supervising, At
    <3>4. /\ wrTable' = [wrTable EXCEPT ![wrProc[l].pid] = 0]
          /\ wrProc' = [wrProc EXCEPT ![l] = NoProcess("gone")]
          /\ wrLock' = Closed(l) /\ UNCHANGED <<wrAgent, wrLate>>
          /\ wrLate \subseteq WrLaunchers \X DevResources
      BY <2>2, <2>9, <1>t DEF Vanish, RunsTyped
    <3> QED BY <3>1, <3>2, <3>3, <3>4, <2>5, <2>6, <1>u, GoneKeeps
  <2> QED BY <2>8, <2>9
<1>6. CASE StopGrace
  <2>1. wrStop.at = "grace" /\ UNCHANGED <<wrTable, wrLock, wrAgent, wrLate>>
    BY <1>6 DEF StopGrace
  <2>2. PICK l \in WrLaunchers :
             /\ wrProc[l].token = wrStop.fd /\ (AgentIsDown(l) \/ wrStop.held)
             /\ wrProc' = [wrProc EXCEPT ![l].at = "leaving", ![l].halted = FALSE]
    BY <1>6 DEF StopGrace
  <2>3. PICK s : s = [wrStop EXCEPT !.at = "force"]
    OBVIOUS
  <2>4. /\ s \in WrStops /\ s.receipt = wrStop.receipt /\ s.at = "force" /\ s.answer = wrStop.answer
        /\ s.fd = wrStop.fd /\ s.held = wrStop.held /\ wrStop' = s
    BY <2>3, <1>6, <1>s DEF WrStops, WrStopping, StopGrace
  <2>5. StopFits'
    BY <2>1, <2>4, <1>d DEF StopFits, WrStopping
  <2>6. wrProc \in [WrLaunchers -> WrProcesses] /\ wrProc[l] \in WrProcesses
    BY <1>t DEF RunsTyped
  <2>7. PICK c : c = [wrProc[l] EXCEPT !.at = "leaving", !.halted = FALSE]
    OBVIOUS
  <2>8. c \in WrProcesses /\ c.at = "leaving" /\ c.pid = wrProc[l].pid /\ c.token = wrProc[l].token
    BY <2>6, <2>7 DEF WrProcesses
  <2>9. wrProc' = [wrProc EXCEPT ![l] = c]
    BY <2>2, <2>6, <2>7
  <2>10. wrProc[l].at \in WrOwning \cup {"leaving"} /\ l = wrStop.receipt.run
    BY <2>1, <2>2, <1>d
  <2>11. wrAgent[l] = "running" => l \in Forsaken'
    BY <2>2, <2>4, <2>10 DEF AgentIsDown, Forsaken
  <2>12. /\ wrLate' \subseteq WrLaunchers \X DevResources /\ wrDev \in [WrLaunchers -> SUBSET DevResources]
         /\ wrAgent \in [WrLaunchers -> {"none", "running", "gone"}]
    BY <2>1, <1>t DEF RunsTyped
  <2>13. \A m \in WrLaunchers : LeftLate(m) => LeftLate(m)'
    BY <2>1, <1>u DEF LeftLate
  <2>14. /\ s.at \in WrStopping /\ wrStop.at \in WrStopping
         /\ wrProc[l].at \notin WrUnborn /\ c.at \notin WrUnborn
         /\ c.at \notin WrLocking \cup WrOwning \cup WrLooking
    BY <2>1, <2>4, <2>8, <2>10 DEF WrStopping, WrUnborn, WrLocking, WrLooking, WrOwning
  <2> QED BY <2>1, <2>4, <2>5, <2>8, <2>9, <2>10, <2>11, <2>12, <2>13, <2>14, <1>u, LauncherMoves
          DEF WrLooking
<1>7. CASE StopGone
  <2>1. /\ wrStop.at \in {"term", "grace", "force"} /\ ~Alive(wrStop.fd) /\ StopEnd("stopped")
        /\ UNCHANGED <<wrTable, wrProc, wrAgent, wrLate>>
    BY <1>7 DEF StopGone
  <2> QED BY <2>1, <1>a, <1>d
<1>8. CASE StopFails
  <2>1. wrLock = "stop" /\ StopEnd("unknown") /\ UNCHANGED <<wrTable, wrProc, wrAgent, wrLate>>
    BY <1>8, <1>h DEF StopFails, WrStopping
  <2> QED BY <2>1, <1>a
<1> QED BY <1>1, <1>2, <1>3, <1>4, <1>5, <1>6, <1>7, <1>8 DEF Stop

\* So does a kill from outside, the stop and everything else on the host.
LEMMA WriterStep == WriterInv /\ [WrNext]_wrVars => WriterInv'
<1> SUFFICES ASSUME WriterInv, [WrNext]_wrVars
             PROVE  WriterInv'
  OBVIOUS
<1>t. /\ RunsTyped /\ TokensAreUnique /\ RecordsFit /\ LockIsHeld /\ OwnersAreOnFile
      /\ FreeWriterIsFree /\ AgentsAreSupervised /\ StopFits /\ ReadFits /\ NothingIsOrphaned
  BY DEF WriterInv
<1>1. CASE UNCHANGED wrVars
  BY <1>1, <1>t DEF wrVars, WriterInv, RunsTyped, TokensAreUnique, RecordsFit, Recorded, LockIsHeld,
     OwnersAreOnFile, FreeWriterIsFree, AgentsAreSupervised, StopFits, ReadFits, NothingIsOrphaned, Ended,
     LeftLate, CurrentRunIsOnFile, Forsaken
<1>2. ASSUME NEW l \in WrLaunchers, Launch(l)
      PROVE  WriterInv'
  BY <1>2, LaunchKeeps
<1>3. ASSUME NEW l \in WrLaunchers, Kill(l)
      PROVE  WriterInv'
  <2>1. PICK late : late = IF At(l, "create") THEN {<<l, NextResource(l)>>} ELSE {}
    OBVIOUS
  <2>2. NextResource(l) \in DevResources
    BY DEF NextResource, DevResources
  <2>3. late \in SUBSET (WrLaunchers \X DevResources)
    BY <2>1, <2>2
  <2>4. /\ Vanish(l, wrAgent, late) /\ UNCHANGED <<wrClock, wrReceipt, wrDev, wrStop, wrRead>>
        /\ wrKilled' = wrKilled \cup {l} /\ wrProc[l].at \notin WrUnborn
    BY <2>1, <1>3 DEF Kill, KilledOutside, At, WrUnborn
  <2>5. Forsaken \subseteq Forsaken' /\ l \in Forsaken'
    BY <2>4 DEF Forsaken
  <2> QED BY <2>3, <2>4, <2>5, LeaveKeeps
<1>4. ASSUME Stop
      PROVE  WriterInv'
  BY <1>4, StopKeeps
<1>5. ASSUME ReadCurrent
      PROVE  WriterInv'
  <2>1. UNCHANGED <<wrTable, wrClock, wrReceipt, wrLock, wrProc, wrAgent, wrDev, wrLate, wrStop, wrKilled>>
    BY <1>5 DEF ReadCurrent
  <2>2. /\ wrReceipt \in WrRecords /\ wrRead.second \in WrRecords /\ wrRead.first \in WrRecords
        /\ wrReceipt.run \in WrLaunchers \cup {"none"} /\ wrRead.first.run \in WrLaunchers \cup {"none"}
    BY <1>t DEF RunsTyped, WrRecords, WrReads, NoRun
  <2>3. ASSUME NEW c \in WrReads, wrRead' = c, Recorded(c.second),
               c.at = "process" => c.second = wrReceipt,
               c.current # "none" => c.current = c.onFile
        PROVE  WriterInv'
    <3>1. RunsTyped'
      BY <2>1, <2>3, <1>t DEF RunsTyped
    <3>2. TokensAreUnique' /\ OwnersAreOnFile' /\ AgentsAreSupervised' /\ NothingIsOrphaned' /\ LockIsHeld'
      BY <2>1, <1>t DEF TokensAreUnique, OwnersAreOnFile, AgentsAreSupervised, Forsaken, NothingIsOrphaned,
         LockIsHeld
    <3>3. RecordsFit'
      BY <2>1, <2>3, <1>t DEF RecordsFit, Recorded
    <3>4. FreeWriterIsFree' /\ StopFits'
      BY <2>1, <1>t DEF FreeWriterIsFree, Ended, LeftLate, StopFits
    <3>5. ReadFits'
      BY <2>1, <2>3 DEF ReadFits, CurrentRunIsOnFile
    <3> QED BY <3>1, <3>2, <3>3, <3>4, <3>5 DEF WriterInv
  <2>4. wrRead \in WrReads /\ Recorded(wrReceipt) /\ Recorded(wrRead.second)
        /\ (wrRead.current # "none" => wrRead.current = wrRead.onFile)
    BY <1>t DEF RunsTyped, RecordsFit, ReadFits, CurrentRunIsOnFile
  <2>5. CASE wrRead' = [wrRead EXCEPT !.at = "second", !.first = wrReceipt]
    <3>1. PICK c : c = [wrRead EXCEPT !.at = "second", !.first = wrReceipt]
      OBVIOUS
    <3>2. /\ c \in WrReads /\ c.second = wrRead.second /\ c.at = "second" /\ c.current = wrRead.current
          /\ c.onFile = wrRead.onFile
      BY <3>1, <2>2, <2>4 DEF WrReads
    <3> QED BY <3>1, <3>2, <2>3, <2>4, <2>5
  <2>6. CASE wrRead' = [wrRead EXCEPT !.at = "process", !.second = wrReceipt]
    <3>1. PICK c : c = [wrRead EXCEPT !.at = "process", !.second = wrReceipt]
      OBVIOUS
    <3>2. /\ c \in WrReads /\ c.second = wrReceipt /\ c.at = "process" /\ c.current = wrRead.current
          /\ c.onFile = wrRead.onFile
      BY <3>1, <2>2, <2>4 DEF WrReads
    <3> QED BY <3>1, <3>2, <2>3, <2>4, <2>6
  <2>7. CASE /\ wrRead.at = "process"
             /\ wrRead' = [wrRead EXCEPT
                  !.at = "done",
                  !.current = IF /\ RunStatus(wrRead.second) = "running"
                                 /\ wrRead.first.run = wrRead.second.run
                              THEN wrRead.first.run ELSE "none",
                  !.onFile = wrReceipt.run]
    <3>1. PICK current : current = IF /\ RunStatus(wrRead.second) = "running"
                                      /\ wrRead.first.run = wrRead.second.run
                                   THEN wrRead.first.run ELSE "none"
      OBVIOUS
    <3>2. PICK c : c = [wrRead EXCEPT !.at = "done", !.current = current, !.onFile = wrReceipt.run]
      OBVIOUS
    <3>3. wrRead' = c
      BY <3>1, <3>2, <2>7
    <3>4. current \in WrLaunchers \cup {"none"}
      BY <3>1, <2>2
    <3>5. /\ c \in WrReads /\ c.second = wrRead.second /\ c.at = "done" /\ c.current = current
          /\ c.onFile = wrReceipt.run
      BY <3>2, <3>4, <2>2, <2>4 DEF WrReads
    <3>6. RunStatus(wrRead.second) = "running" =>
            wrRead.second # NoRun /\ wrTable[wrRead.second.pid] = wrRead.second.token
      BY DEF RunStatus
    <3>7. current # "none" => current = wrReceipt.run
      BY <3>1, <3>6, <2>7, <1>t DEF ReadFits
    <3>8. Recorded(c.second)
      BY <3>5, <2>4
    <3> QED BY <3>3, <3>5, <3>7, <3>8, <2>3
  <2> QED BY <2>5, <2>6, <2>7, <1>5 DEF ReadCurrent
<1>6. ASSUME Foreign
      PROVE  WriterInv'
  <2>1. PICK p0 \in WrPids : wrTable[p0] = 0 /\ wrTable' = [wrTable EXCEPT ![p0] = wrClock + 1]
    BY <1>6 DEF Foreign
  <2>2. /\ wrClock' = wrClock + 1
        /\ UNCHANGED <<wrReceipt, wrLock, wrProc, wrAgent, wrDev, wrLate, wrStop, wrRead, wrKilled>>
    BY <1>6 DEF Foreign
  <2>3. /\ wrTable' \in [WrPids -> Nat] /\ wrClock' \in Nat
        /\ \A p \in WrPids : wrTable'[p] <= wrClock'
        /\ \A p, q \in WrPids : wrTable'[p] = wrTable'[q] /\ wrTable'[p] # 0 => p = q
        /\ \A m \in WrLaunchers : wrProc[m].at \notin WrUnborn => wrTable'[wrProc[m].pid] = wrProc[m].token
    BY <2>1, <2>2, StartKeeps
  <2>4. \A r \in WrRecords : r # NoRun /\ r.token <= wrClock =>
              /\ Ended(r) => Ended(r)'
              /\ wrTable'[r.pid] = r.token => wrTable[r.pid] = r.token
    BY <2>1, <2>2, StartKeeps
  <2>5. RunsTyped'
    BY <2>2, <2>3, <1>t DEF RunsTyped
  <2>6. TokensAreUnique'
    BY <2>2, <2>3, <1>t DEF TokensAreUnique
  <2>7. RecordsFit'
    <3>1. ASSUME NEW s \in WrRecords, Recorded(s)
          PROVE  Recorded(s)'
      <4>1. SUFFICES ASSUME s # NoRun
                     PROVE  Recorded(s)'
        BY DEF Recorded
      <4>2. s.token <= wrClock /\ s.token \in Nat /\ wrClock \in Nat
        BY <3>1, <4>1, <1>t DEF Recorded, RunsTyped, WrRecords
      <4>3. Ended(s) => Ended(s)'
        BY <4>1, <4>2, <2>4
      <4> QED BY <3>1, <4>1, <4>2, <4>3, <2>2 DEF Recorded, Ended
    <3>2. PICK a \in WrRecords, b \in WrRecords, d \in WrRecords :
              a = wrReceipt /\ b = wrStop.receipt /\ d = wrRead.second
      BY <1>t DEF RunsTyped, WrStops, WrReads
    <3>3. Recorded(a)' /\ Recorded(b)' /\ Recorded(d)'
      BY <3>1, <3>2, <1>t DEF RecordsFit
    <3> QED BY <3>2, <3>3, <2>2 DEF RecordsFit, Recorded
  <2>8. /\ wrReceipt # NoRun /\ Ended(wrReceipt) => Ended(wrReceipt)'
        /\ StopFits' /\ ReadFits' /\ NothingIsOrphaned'
    BY <2>2, <2>4, StartRest
  <2>9. LockIsHeld' /\ OwnersAreOnFile' /\ AgentsAreSupervised'
    BY <2>2, <1>t DEF LockIsHeld, OwnersAreOnFile, AgentsAreSupervised, Forsaken
  <2>10. FreeWriterIsFree'
    <3>1. wrReceipt # NoRun /\ LeftLate(wrReceipt.run) => LeftLate(wrReceipt.run)'
      BY <2>2 DEF LeftLate
    <3> QED BY <3>1, <2>2, <2>8, <1>t DEF FreeWriterIsFree
  <2> QED BY <2>5, <2>6, <2>7, <2>8, <2>9, <2>10 DEF WriterInv
<1>7. ASSUME LateCommand
      PROVE  WriterInv'
  <2>1. PICK c \in wrLate : wrDev' = [wrDev EXCEPT ![c[1]] = @ \cup {c[2]}]
    BY <1>7 DEF LateCommand
  <2>2. UNCHANGED <<wrTable, wrClock, wrReceipt, wrLock, wrProc, wrAgent, wrLate, wrStop, wrRead, wrKilled>>
    BY <1>7 DEF LateCommand
  <2>3. PICK m \in WrLaunchers, r \in DevResources : c = <<m, r>>
    BY <2>1, <1>t DEF RunsTyped
  <2>4. /\ wrDev \in [WrLaunchers -> SUBSET DevResources]
        /\ wrDev' = [wrDev EXCEPT ![m] = wrDev[m] \cup {r}] /\ <<m, r>> \in wrLate
    BY <2>1, <2>3, <1>t DEF RunsTyped
  <2>5. /\ wrDev' \in [WrLaunchers -> SUBSET DevResources]
        /\ \A n \in WrLaunchers : LeftLate(n) => LeftLate(n)'
    BY <2>2, <2>4 DEF LeftLate
  <2>6. RunsTyped'
    BY <2>2, <2>5, <1>t DEF RunsTyped
  <2>7. TokensAreUnique' /\ OwnersAreOnFile' /\ AgentsAreSupervised' /\ LockIsHeld' /\ RecordsFit'
    BY <2>2, <1>t DEF TokensAreUnique, OwnersAreOnFile, AgentsAreSupervised, Forsaken, LockIsHeld,
       RecordsFit, Recorded
  <2>8. StopFits' /\ ReadFits'
    BY <2>2, <1>t DEF StopFits, ReadFits, Ended, CurrentRunIsOnFile
  <2>9. FreeWriterIsFree'
    <3>1. PICK run : run = wrReceipt.run
      OBVIOUS
    <3>2. wrReceipt # NoRun => run \in WrLaunchers
      BY <3>1, <1>t DEF RunsTyped, WrRecords
    <3>3. wrReceipt # NoRun /\ LeftLate(run) => LeftLate(run)'
      BY <3>2, <2>5
    <3> QED BY <3>1, <3>3, <2>2, <1>t DEF FreeWriterIsFree, Ended, LeftLate
  <2>10. NothingIsOrphaned'
    <3> SUFFICES ASSUME NEW n \in WrLaunchers, n # wrReceipt.run
                 PROVE  LeftLate(n)'
      BY <2>2 DEF NothingIsOrphaned, LeftLate
    <3>1. LeftLate(n)
      BY <1>t DEF NothingIsOrphaned, LeftLate
    <3> QED BY <3>1, <2>5
  <2> QED BY <2>6, <2>7, <2>8, <2>9, <2>10 DEF WriterInv
<1>8. ASSUME NEW l \in WrLaunchers, AgentEnds(l)
      PROVE  WriterInv'
  <2>1. UNCHANGED <<wrTable, wrClock, wrReceipt, wrLock, wrProc, wrDev, wrLate, wrStop, wrRead, wrKilled>>
    BY <1>8 DEF AgentEnds
  <2>2. /\ wrAgent' \in [WrLaunchers -> {"none", "running", "gone"}]
        /\ \A m \in WrLaunchers : wrAgent'[m] = "running" => wrAgent[m] = "running"
    BY <1>8, <1>t DEF AgentEnds, RunsTyped
  <2>3. RunsTyped'
    BY <2>1, <2>2, <1>t DEF RunsTyped
  <2>4. AgentsAreSupervised'
    BY <2>1, <2>2, <1>t DEF AgentsAreSupervised, Forsaken
  <2>5. TokensAreUnique' /\ OwnersAreOnFile' /\ LockIsHeld' /\ RecordsFit' /\ NothingIsOrphaned'
    BY <2>1, <1>t DEF TokensAreUnique, OwnersAreOnFile, LockIsHeld, RecordsFit, Recorded, NothingIsOrphaned
  <2>6. FreeWriterIsFree' /\ StopFits' /\ ReadFits'
    BY <2>1, <1>t DEF FreeWriterIsFree, StopFits, ReadFits, Ended, LeftLate, CurrentRunIsOnFile
  <2> QED BY <2>3, <2>4, <2>5, <2>6 DEF WriterInv
<1>v. \A l \in WrLaunchers : wrProc[l].at \in WrLocking => wrLock = l
  BY <1>t DEF LockIsHeld
<1>p. /\ wrProc \in [WrLaunchers -> WrProcesses] /\ wrStop \in WrStops
      /\ wrLate \subseteq WrLaunchers \X DevResources /\ wrDev \in [WrLaunchers -> SUBSET DevResources]
      /\ wrAgent \in [WrLaunchers -> {"none", "running", "gone"}]
  BY <1>t DEF RunsTyped
<1>9. ASSUME NEW l \in WrLaunchers, Halt(l)
      PROVE  WriterInv'
  <2>1. /\ wrProc[l].at \in {"supervise", "clean"} /\ wrProc' = [wrProc EXCEPT ![l].halted = TRUE]
        /\ UNCHANGED <<wrTable, wrClock, wrReceipt, wrLock, wrAgent, wrDev, wrLate, wrRead, wrKilled>>
    BY <1>9 DEF Halt, At
  <2>2. PICK held : held = (wrStop.held \/ (wrStop.at = "grace" /\ wrStop.fd = wrProc[l].token))
    OBVIOUS
  <2>3. PICK s : s = [wrStop EXCEPT !.held = held]
    OBVIOUS
  <2>4. wrStop' = s
    BY <1>9, <1>p, <2>2, <2>3 DEF Halt, WrStops
  <2>5. held \in BOOLEAN /\ (wrStop.held => held) /\ (held => wrStop.held \/ wrStop.at = "grace")
    BY <2>2
  <2>6. /\ s \in WrStops /\ s.receipt = wrStop.receipt /\ s.at = wrStop.at /\ s.answer = wrStop.answer
        /\ s.fd = wrStop.fd /\ s.held = held
    BY <2>3, <2>5, <1>p DEF WrStops
  <2>7. StopFits'
    BY <2>1, <2>4, <2>5, <2>6, <1>t DEF StopFits, Ended
  <2>8. PICK c : c = [wrProc[l] EXCEPT !.halted = TRUE]
    OBVIOUS
  <2>9. /\ c \in WrProcesses /\ c.at = wrProc[l].at /\ c.pid = wrProc[l].pid
        /\ c.token = wrProc[l].token /\ wrProc' = [wrProc EXCEPT ![l] = c]
    BY <2>1, <2>8, <1>p DEF WrProcesses
  <2>10. /\ wrProc[l].at \notin WrUnborn \cup WrLooking \cup WrLocking /\ wrProc[l].at \in WrOwning
         /\ wrProc[l].at \notin {"reclaim", "provision", "record"}
    BY <2>1 DEF WrUnborn, WrLooking, WrLocking, WrOwning
  <2>11. \A m \in WrLaunchers : LeftLate(m) => LeftLate(m)'
    BY <2>1 DEF LeftLate
  <2>12. wrAgent[l] = "running" => l \in Forsaken' \/ wrProc[l].at = "supervise"
    BY <2>1, <2>4, <2>5, <2>6, <1>t DEF AgentsAreSupervised, Forsaken
  <2>13. /\ wrStop.held => s.held
         /\ s.at \in WrStopping => wrStop.at \in WrStopping
    BY <2>5, <2>6
  <2>14. /\ c.at \notin WrUnborn /\ c.at \notin WrLocking /\ c.at \notin WrLooking /\ c.at \in WrOwning
         /\ c.at \notin {"reclaim", "provision", "record"}
    BY <2>9, <2>10
  <2>15. wrLate \subseteq wrLate' /\ wrLate' \subseteq WrLaunchers \X DevResources
    BY <2>1, <1>p
  <2>16. /\ wrDev' \in [WrLaunchers -> SUBSET DevResources]
         /\ wrAgent' \in [WrLaunchers -> {"none", "running", "gone"}]
         /\ \A m \in WrLaunchers \ {l} : wrAgent'[m] = wrAgent[m]
         /\ wrAgent'[l] = "running" => l \in Forsaken' \/ c.at = "supervise"
    BY <2>1, <2>9, <2>12, <1>p
  <2> QED BY <2>1, <2>4, <2>6, <2>7, <2>9, <2>10, <2>11, <2>13, <2>14, <2>15, <2>16, LauncherMoves
<1>10. ASSUME NEW l \in WrLaunchers, Continue(l)
       PROVE  WriterInv'
  <2>1. /\ wrProc[l].halted /\ wrProc' = [wrProc EXCEPT ![l].halted = FALSE]
        /\ UNCHANGED <<wrTable, wrClock, wrReceipt, wrLock, wrAgent, wrDev, wrLate, wrStop, wrRead,
                       wrKilled>>
    BY <1>10 DEF Continue
  <2>2. PICK c : c = [wrProc[l] EXCEPT !.halted = FALSE]
    OBVIOUS
  <2>3. /\ c \in WrProcesses /\ c.at = wrProc[l].at /\ c.pid = wrProc[l].pid
        /\ c.token = wrProc[l].token /\ wrProc' = [wrProc EXCEPT ![l] = c]
    BY <2>1, <2>2, <1>p DEF WrProcesses
  <2>4. wrProc[l].at \notin WrUnborn
    BY <2>1, <1>t DEF TokensAreUnique
  <2>5. \A m \in WrLaunchers : LeftLate(m) => LeftLate(m)'
    BY <2>1 DEF LeftLate
  <2>6. wrAgent[l] = "running" => l \in Forsaken \/ wrProc[l].at = "supervise"
    BY <1>t DEF AgentsAreSupervised
  <2>7. /\ wrProc[l].at \in WrLooking /\ wrReceipt # NoRun => Ended(wrReceipt)
        /\ wrProc[l].at = "reclaim" => wrReceipt # NoRun
        /\ wrProc[l].at \in {"provision", "record"} /\ wrReceipt # NoRun => LeftLate(wrReceipt.run)
    BY <1>t DEF FreeWriterIsFree
  <2>8. wrProc[l].at \in {"provision", "record"} /\ wrReceipt # NoRun => LeftLate(wrReceipt.run)'
    BY <2>1, <2>7 DEF LeftLate
  <2> QED BY <2>1, <2>3, <2>4, <2>5, <2>6, <2>7, <2>8, <1>p, <1>v, LauncherSteps
<1> QED BY <1>1, <1>2, <1>3, <1>4, <1>5, <1>6, <1>7, <1>8, <1>9, <1>10 DEF WrNext

\* The managed runs of one writer, for any number of launches, process ids, kills and starts of
\* other programs (run.py, launch.py, development.py): a stop signals the recorded process and no
\* other and says that a run has ended only when its launcher has; no two agents work in the
\* writer, what was made for a run that is no longer on file is gone, and a reader names no run
\* current that is not on file.  Excepted are the agent of a launcher that was killed from outside,
\* or by the stop after SIGTSTP had stopped it, and what a Docker command makes whose client is gone.
THEOREM WriterRunsStaySound == WrSpec => []WriterRunsAreSound
<1>1. WriterInv => StopHitsItsRun
  <2> SUFFICES ASSUME WriterInv, wrStop.answer \in {"stopped", "lost"}
               PROVE  /\ ~Alive(wrStop.receipt.token)
                      /\ wrStop.receipt.run \notin Forsaken => wrAgent[wrStop.receipt.run] # "running"
    BY DEF StopHitsItsRun, WriterInv, StopFits
  <2>1. wrStop.receipt # NoRun /\ Ended(wrStop.receipt) /\ Recorded(wrStop.receipt)
        /\ wrStop.receipt \in WrRecords
    BY DEF WriterInv, StopFits, RecordsFit, RunsTyped, WrStops
  <2>2. ~Alive(wrStop.receipt.token)
    BY <2>1 DEF Ended, Alive
  <2>3. wrStop.receipt.run \in WrLaunchers
    BY <2>1 DEF WrRecords
  <2>4. wrProc[wrStop.receipt.run].at # "supervise"
    <3> SUFFICES ASSUME wrProc[wrStop.receipt.run].at = "supervise"
                 PROVE  FALSE
      OBVIOUS
    <3>1. /\ wrStop.receipt.token = wrProc[wrStop.receipt.run].token
          /\ wrProc[wrStop.receipt.run].pid \in WrPids
          /\ wrTable[wrProc[wrStop.receipt.run].pid] = wrProc[wrStop.receipt.run].token
      BY <2>1, <2>3 DEF WriterInv, Recorded, TokensAreUnique, WrUnborn
    <3> QED BY <3>1, <2>1 DEF Ended
  <2> QED BY <2>2, <2>3, <2>4 DEF WriterInv, AgentsAreSupervised
<1>2. WriterInv => OneAgentPerWriter
  <2> SUFFICES ASSUME WriterInv
               PROVE  Cardinality({l \in WrLaunchers \ Forsaken : wrAgent[l] = "running"}) <= 1
    BY DEF OneAgentPerWriter
  <2>1. {l \in WrLaunchers \ Forsaken : wrAgent[l] = "running"} \subseteq {wrReceipt.run}
    BY DEF WriterInv, AgentsAreSupervised, OwnersAreOnFile, WrOwning
  <2>2. IsFiniteSet({wrReceipt.run}) /\ Cardinality({wrReceipt.run}) = 1
    BY FS_Singleton
  <2> QED BY <2>1, <2>2, FS_Subset
<1>3. WriterInv => WriterRunsAreSound
  BY <1>1, <1>2 DEF WriterInv, ReadFits, WriterRunsAreSound
<1> QED BY WriterStarts, WriterStep, <1>3, PTL DEF WrSpec

-----------------------------------------------------------------------------
(* ProductCurrentness.                                                     *)

CkResults == {"TRUE", "FALSE", "UNKNOWN", "CONFLICT"}
CkMaybe == CkStores \cup {"none"}
CkTokens == CkMaybe \cup {"server", "receipt"}
CkItems == [result : CkResults, token : CkTokens, basis : CkMaybe]
CkEvals ==
  [at : {"binding", "basis", "read", "proof", "recheck", "endBasis", "endBinding", "answered"},
   receipted : BOOLEAN, binding : CkMaybe, basis : CkMaybe, held : CkMaybe, items : Seq(CkItems),
   tokens : Seq(CkTokens), endBasis : CkMaybe, endBinding : CkMaybe,
   final : {<<>>} \cup [1..5 -> CkResults], current : CkResults]
CkAttempts ==
  [at : {"idle", "before", "basis", "prepare", "update", "recheck", "emit", "after"},
   runs : Nat, basis : CkMaybe, seen : Nat]

CkTyped ==
  /\ ckStore \in CkStores
  /\ ckEval \in {NotEvaluating} \cup CkEvals
  /\ ckAttempt \in CkAttempts
  /\ ckJournal \in Nat /\ ckWork \in [rev : Nat \ {0}, effect : Nat]

\* What a source shows of a process, as a function of the process.
Shown(server, i, store, receipts) ==
  CASE i = 1 -> CkVerdict(server.selected)
    [] i = 2 -> CkVerdict(server.enabled)
    [] i = 3 -> CkVerdict(server.expected /\ server.enabled)
    [] i = 4 -> CkVerdict(store \in CkReady)
    [] OTHER -> IF receipts = {} THEN "UNKNOWN"
                ELSE IF receipts = {[server |-> server, store |-> store]} THEN "TRUE" ELSE "CONFLICT"

\* A source that was read holds what it said of the basis it was read at; the proof can only
\* have been read from a receipt, which nobody replaces.
ItemFits(server, item, i, receipts) ==
  item.token # "none" =>
    /\ item.basis \in CkStores /\ item.result = Shown(server, i, item.basis, receipts)
    /\ i = 5 => receipts # {}
ItemsFit == \A i \in 1..Len(ckEval.items) : ItemFits(ckServer, ckEval.items[i], i, Configured(ckEval))

ReadingFits ==
  /\ Len(ckEval.items) <= 5
  /\ ckEval.at \in {"binding", "basis"} => Len(ckEval.items) = 0
  /\ ckEval.at # "answered" => ckEval.final = <<>> /\ ckEval.current = "UNKNOWN"
  /\ ckEval.at = "read" => Len(ckEval.items) < 5
  /\ ckEval.at = "proof" => Len(ckEval.items) = 4 /\ ckEval.held \in CkStores
  /\ ckEval.at \in {"recheck", "endBasis", "endBinding"} => Len(ckEval.items) = 5

\* The moment the answer will speak of is the one the basis was read for the second time.
MomentsFit ==
  /\ \A m \in ckMoments : m.receipts = {} \/ m.receipts = ckReceipt
  /\ ckEval.at = "endBinding" /\ ckEval.endBasis # "none" =>
       \E m \in ckMoments : /\ m.store = ckEval.endBasis
                            /\ ckEval.items[5].token # "none" => m.receipts = ckReceipt

HeldAt(m) ==
  \A i \in 1..5 : ckEval.final[i] # "UNKNOWN" =>
    ckEval.final[i] = Shown(ckServer, i, m.store, IF ckEval.receipted THEN m.receipts ELSE {})
AnswerFits ==
  ckEval.at = "answered" =>
    /\ ckEval.final = <<>> \/ \E m \in ckMoments : HeldAt(m)
    /\ ckEval.current = "TRUE" =>
         (\E m \in ckMoments : HeldAt(m)) /\ \A i \in 1..5 : ckEval.final[i] = "TRUE"

EvaluationFits == ckEval # NotEvaluating => ItemsFit /\ ReadingFits /\ MomentsFit /\ AnswerFits

\* The one effect of the attempt is made on the revision its journal names.
AttemptFits ==
  /\ ckWho = "edge" => ckAttempt.at = "idle"
  /\ ckWho = "edge" \/ ckServer = Expected(ckServer)
  /\ ckAttempt.at = "prepare" => ckAttempt.seen # 0
  /\ ckAttempt.at = "update" => ckJournal # 0
  /\ ckAttempt.at \in {"recheck", "emit", "after"} => ckWork.effect # 0
  /\ ckWork.effect # 0 => ckJournal # 0 /\ ckWork.effect = ckJournal + 1
  /\ ckAttempt.at = "after" => ckEval # NotEvaluating /\ ckEval.receipted
  /\ ckResult # {} => /\ ckResult = ckReceipt /\ ckWork.effect # 0
                      /\ \E s \in CkReady : ckResult = {Sealed(s)}

CurrentnessInv == CkTyped /\ EvaluationFits /\ AttemptFits

\* The five sources; only the proof looks at the receipt.
LEMMA Sources ==
  /\ CkPositions = 1..5 /\ ProofPosition = 5
  /\ \A i \in 1..5 : \A s, r : Condition(i, s, r) = Shown(ckServer, i, s, r)
  /\ \A s \in CkStores : \A i, r : SourceToken(i, s, r) \in CkTokens
<1>1. CkPositions = 1..5 /\ ProofPosition = 5
  BY DEF CkPositions, ProofPosition, STATEFUL_REQUIRED_SOURCES
<1>2. /\ STATEFUL_REQUIRED_SOURCES[1] = "runtime_identity"
      /\ STATEFUL_REQUIRED_SOURCES[2] = "feature_enabled"
      /\ STATEFUL_REQUIRED_SOURCES[3] = "schema_surface"
      /\ STATEFUL_REQUIRED_SOURCES[4] = "persistence_ready"
      /\ STATEFUL_REQUIRED_SOURCES[5] = "functional_proof"
  BY DEF STATEFUL_REQUIRED_SOURCES
<1>3. \A i \in 1..5 : i = 1 \/ i = 2 \/ i = 3 \/ i = 4 \/ i = 5
  OBVIOUS
<1>4. \A i \in 1..5 : \A s, r : Condition(i, s, r) = Shown(ckServer, i, s, r)
  BY <1>2, <1>3 DEF Condition, Shown, FunctionalProof
<1>5. \A s \in CkStores : \A i, r : SourceToken(i, s, r) \in CkTokens
  BY DEF SourceToken, CkTokens, CkMaybe
<1> QED BY <1>1, <1>4, <1>5

\* What a source shows is a verdict, and only the last one depends on the receipt.
LEMMA Verdicts ==
  ASSUME NEW server, NEW s, NEW r
  PROVE  /\ \A i \in 1..5 : Shown(server, i, s, r) \in CkResults
         /\ \A i \in 1..4 : \A q : Shown(server, i, s, r) = Shown(server, i, s, q)
         /\ Shown(server, 5, s, {}) = "UNKNOWN"
         /\ Shown(server, 4, s, r) = "TRUE" => s \in CkReady
         /\ Shown(server, 5, s, r) = "TRUE" => r = {[server |-> server, store |-> s]}
<1>1. \A i \in 1..5 : Shown(server, i, s, r) \in CkResults
  BY DEF Shown, CkVerdict, CkResults
<1>2. \A i \in 1..4 : \A q : Shown(server, i, s, r) = Shown(server, i, s, q)
  BY DEF Shown
<1>3. /\ Shown(server, 5, s, {}) = "UNKNOWN"
      /\ Shown(server, 4, s, r) = "TRUE" => s \in CkReady
      /\ Shown(server, 5, s, r) = "TRUE" => r = {[server |-> server, store |-> s]}
  BY DEF Shown, CkVerdict
<1> QED BY <1>1, <1>2, <1>3

\* An item that is not Unavailable holds what the source showed.
LEMMA EvidenceShown ==
  ASSUME NEW i \in 1..5, NEW v \in CkStores, NEW r, NEW item, item = Evidence(i, v, r)
  PROVE  item \in CkItems /\ ItemFits(ckServer, item, i, r)
<1>1. Condition(i, v, r) = Shown(ckServer, i, v, r) /\ SourceToken(i, v, r) \in CkTokens
  BY Sources
<1>2. Shown(ckServer, i, v, r) \in CkResults /\ Shown(ckServer, 5, v, {}) = "UNKNOWN"
  BY Verdicts
<1>3. CASE Shown(ckServer, i, v, r) = "UNKNOWN"
  BY <1>1, <1>3 DEF Evidence, Unavailable, CkItems, CkResults, CkTokens, CkMaybe, ItemFits
<1>4. CASE Shown(ckServer, i, v, r) # "UNKNOWN"
  <2>1. item = [result |-> Shown(ckServer, i, v, r), token |-> SourceToken(i, v, r), basis |-> v]
    BY <1>1, <1>4 DEF Evidence
  <2>2. i = 5 => r # {}
    BY <1>2, <1>4
  <2> QED BY <2>1, <2>2, <1>1, <1>2 DEF CkItems, CkMaybe, ItemFits
<1> QED BY <1>3, <1>4

\* Nothing is being evaluated, and nothing is recorded, before the first step.
LEMMA CurrentnessStarts == CkInit => CurrentnessInv
<1> SUFFICES ASSUME CkInit PROVE CurrentnessInv
  OBVIOUS
<1>1. AttemptIdle(0) \in CkAttempts /\ AttemptIdle(0).at = "idle"
  BY DEF AttemptIdle, CkAttempts, CkMaybe
<1>2. CkTyped
  BY <1>1 DEF CkInit, CkTyped
<1>3. EvaluationFits /\ AttemptFits
  BY <1>1 DEF CkInit, EvaluationFits, AttemptFits
<1> QED BY <1>2, <1>3 DEF CurrentnessInv

NextMoments == ckMoments' = IF ckEval'.at \in {"endBasis", "endBinding", "answered"}
                            THEN ckMoments \cup {Moment'} ELSE {}

\* An evaluation stands while others write: a receipt is created and never replaced.
LEMMA EvaluationStands ==
  ASSUME CkTyped, EvaluationFits, UNCHANGED <<ckEval, ckServer>>, NextMoments,
         ckReceipt' = ckReceipt \/ ckReceipt = {}
  PROVE  EvaluationFits'
<1> SUFFICES ASSUME ckEval # NotEvaluating
             PROVE  ItemsFit' /\ ReadingFits' /\ MomentsFit' /\ AnswerFits'
  BY DEF EvaluationFits
<1>t. ItemsFit /\ ReadingFits /\ MomentsFit /\ AnswerFits
  BY DEF EvaluationFits
<1>1. ItemsFit'
  <2> SUFFICES ASSUME NEW i \in 1..Len(ckEval.items)
               PROVE  ItemFits(ckServer, ckEval.items[i], i, Configured(ckEval)')
    BY DEF ItemsFit
  <2>1. ItemFits(ckServer, ckEval.items[i], i, Configured(ckEval))
    BY <1>t DEF ItemsFit
  <2>2. i \in 1..4 \/ i = 5
    <3>1. Len(ckEval.items) \in Nat /\ Len(ckEval.items) <= 5
      BY <1>t DEF CkTyped, CkEvals, ReadingFits
    <3> QED BY <3>1
  <2>3. CASE Configured(ckEval)' = Configured(ckEval)
    BY <2>1, <2>3
  <2>4. CASE Configured(ckEval) = {} /\ i = 5
    BY <2>1, <2>4 DEF ItemFits
  <2>5. CASE i \in 1..4
    <3>1. Shown(ckServer, i, ckEval.items[i].basis, Configured(ckEval))
            = Shown(ckServer, i, ckEval.items[i].basis, Configured(ckEval)')
      BY <2>5, Verdicts
    <3> QED BY <2>1, <2>5, <3>1 DEF ItemFits
  <2> QED BY <2>2, <2>3, <2>4, <2>5 DEF Configured
<1>2. ReadingFits'
  BY <1>t DEF ReadingFits
<1>3. MomentsFit'
  <2>1. \A m \in ckMoments' : m.receipts = {} \/ m.receipts = ckReceipt'
    BY <1>t DEF MomentsFit, NextMoments, Moment
  <2>2. ASSUME ckEval.at = "endBinding", ckEval.endBasis # "none"
        PROVE  \E m \in ckMoments' : /\ m.store = ckEval.endBasis
                                     /\ ckEval.items[5].token # "none" => m.receipts = ckReceipt'
    <3>1. PICK m \in ckMoments : /\ m.store = ckEval.endBasis
                                 /\ ckEval.items[5].token # "none" => m.receipts = ckReceipt
      BY <2>2, <1>t DEF MomentsFit
    <3>2. m \in ckMoments'
      BY <2>2 DEF NextMoments
    <3>3. ckEval.items[5].token # "none" => ckReceipt # {}
      <4>1. Len(ckEval.items) = 5
        BY <2>2, <1>t DEF ReadingFits
      <4>2. ItemFits(ckServer, ckEval.items[5], 5, Configured(ckEval))
        BY <4>1, <1>t DEF ItemsFit
      <4> QED BY <4>2 DEF ItemFits, Configured
    <3> QED BY <3>1, <3>2, <3>3
  <2> QED BY <2>1, <2>2 DEF MomentsFit
<1>4. AnswerFits'
  <2> SUFFICES ASSUME ckEval.at = "answered"
               PROVE  /\ ckEval.final = <<>> \/ \E m \in ckMoments' : HeldAt(m)'
                      /\ ckEval.current = "TRUE" =>
                           (\E m \in ckMoments' : HeldAt(m)') /\ \A i \in 1..5 : ckEval.final[i] = "TRUE"
    BY DEF AnswerFits
  <2>1. ckMoments \subseteq ckMoments'
    BY DEF NextMoments
  <2>2. ASSUME NEW m, HeldAt(m)
        PROVE  HeldAt(m)'
    BY <2>2 DEF HeldAt
  <2> QED BY <2>1, <2>2, <1>t DEF AnswerFits
<1> QED BY <1>1, <1>2, <1>3, <1>4

\* An evaluation that has not read anything says nothing.
LEMMA EvaluationBegins ==
  ASSUME NEW receipted \in BOOLEAN, EvBegin(receipted), NextMoments
  PROVE  /\ EvaluationFits' /\ ckEval' \in CkEvals /\ ckEval'.receipted = receipted
<1>1. PICK e : e = [at |-> "binding", receipted |-> receipted, binding |-> "none", basis |-> "none",
             held |-> "none", items |-> <<>>, tokens |-> <<>>, endBasis |-> "none",
             endBinding |-> "none", final |-> <<>>, current |-> "UNKNOWN"]
  OBVIOUS
<1>2. /\ e \in CkEvals /\ e.at = "binding" /\ Len(e.items) = 0 /\ e.receipted = receipted
      /\ e.final = <<>> /\ e.current = "UNKNOWN"
  BY <1>1 DEF CkEvals, CkMaybe, CkResults
<1>3. ckEval' = e /\ ckMoments' = {}
  BY <1>1, <1>2 DEF EvBegin, NextMoments
<1>4. ItemsFit' /\ ReadingFits' /\ MomentsFit' /\ AnswerFits'
  BY <1>2, <1>3 DEF ItemsFit, ReadingFits, MomentsFit, AnswerFits
<1> QED BY <1>2, <1>3, <1>4 DEF EvaluationFits

\* A step of an evaluation that adds no item and does not answer.
LEMMA EvaluationReads ==
  ASSUME EvaluationFits, ckEval # NotEvaluating, UNCHANGED <<ckServer, ckReceipt>>, NextMoments,
         NEW c \in CkEvals, ckEval' = c, c.items = ckEval.items, c.receipted = ckEval.receipted,
         ReadingFits', c.at # "endBinding", c.at = "answered" => c.final = <<>> /\ c.current = "UNKNOWN"
  PROVE  EvaluationFits'
<1>1. ItemsFit'
  BY DEF EvaluationFits, ItemsFit, Configured
<1>2. MomentsFit'
  BY DEF EvaluationFits, MomentsFit, NextMoments, Moment
<1>3. AnswerFits'
  BY DEF AnswerFits
<1> QED BY <1>1, <1>2, <1>3 DEF EvaluationFits

\* A step of an evaluation that adds an item.
LEMMA EvaluationAdds ==
  ASSUME CkTyped, EvaluationFits, ckEval # NotEvaluating, UNCHANGED <<ckServer, ckReceipt>>, NextMoments,
         NEW item \in CkItems, Len(ckEval.items) < 5,
         ItemFits(ckServer, item, Len(ckEval.items) + 1, Configured(ckEval)),
         NEW c \in CkEvals, ckEval' = c, c.items = Append(ckEval.items, item),
         c.receipted = ckEval.receipted, c.final = <<>>, c.current = "UNKNOWN",
         \/ c.at = "read" /\ Len(ckEval.items) < 4
         \/ c.at = "recheck" /\ Len(ckEval.items) = 4
  PROVE  EvaluationFits'
<1>1. /\ ckEval.items \in Seq(CkItems) /\ Len(ckEval.items) \in Nat
      /\ Len(c.items) = Len(ckEval.items) + 1
      /\ c.items[Len(ckEval.items) + 1] = item
      /\ \A i \in 1..Len(ckEval.items) : c.items[i] = ckEval.items[i]
  BY DEF CkTyped, CkEvals
<1>2. ItemsFit'
  <2> SUFFICES ASSUME NEW i \in 1..Len(c.items)
               PROVE  ItemFits(ckServer, c.items[i], i, Configured(ckEval))
    BY DEF ItemsFit, Configured
  <2>1. i \in 1..Len(ckEval.items) \/ i = Len(ckEval.items) + 1
    BY <1>1
  <2> QED BY <2>1, <1>1 DEF EvaluationFits, ItemsFit
<1>3. ReadingFits'
  BY <1>1 DEF ReadingFits
<1>4. MomentsFit'
  BY DEF EvaluationFits, MomentsFit, NextMoments
<1>5. AnswerFits'
  BY DEF AnswerFits
<1> QED BY <1>2, <1>3, <1>4, <1>5 DEF EvaluationFits

\* Every step of an evaluation: the answer holds of the moment at which the basis was read for
\* the second time.
LEMMA EvaluationSteps ==
  ASSUME CkTyped, EvaluationFits, EvStep, UNCHANGED <<ckServer, ckStore, ckReceipt>>, NextMoments
  PROVE  /\ EvaluationFits' /\ ckEval # NotEvaluating /\ ckEval' \in CkEvals
         /\ ckEval'.receipted = ckEval.receipted
<1>1. ckEval # NotEvaluating
  <2>1. \A v : \/ EvBinding(v) \/ EvBasis(v) \/ EvRead(v) \/ EvRecheck(v) \/ EvEndBasis(v) \/ EvAnswer(v)
              => ckEval.at # "idle"
    BY Zenon DEF EvBinding, EvBasis, EvRead, EvRecheck, EvEndBasis, EvAnswer
  <2>2. EvProof => ckEval.at # "idle"
    BY Zenon DEF EvProof
  <2>3. ckEval.at # "idle"
    BY <2>1, <2>2 DEF EvStep
  <2> QED BY <2>3 DEF NotEvaluating
<1>2. ckEval \in CkEvals /\ ckEval.items \in Seq(CkItems) /\ ckEval.tokens \in Seq(CkTokens)
      /\ Len(ckEval.items) \in Nat
  BY <1>1 DEF CkTyped, CkEvals
<1>t. ItemsFit /\ ReadingFits /\ MomentsFit /\ AnswerFits
  BY <1>1 DEF EvaluationFits
<1>p. CkPositions = 1..5 /\ ProofPosition = 5
  BY Sources
<1>f. ckEval.at # "answered" => ckEval.final = <<>> /\ ckEval.current = "UNKNOWN"
  BY <1>t DEF ReadingFits
<1>i. ASSUME NEW v \in CkMaybe, NEW item, item = IF v = "none" THEN Unavailable
                                                 ELSE Evidence(Len(ckEval.items) + 1, v, {}),
             Len(ckEval.items) < 4 \/ v = "none"
      PROVE  item \in CkItems
             /\ (Len(ckEval.items) < 5 => ItemFits(ckServer, item, Len(ckEval.items) + 1, Configured(ckEval)))
  <2>1. CASE v = "none"
    BY <1>i, <2>1 DEF Unavailable, CkItems, CkResults, CkTokens, CkMaybe, ItemFits
  <2>2. CASE v # "none"
    <3>1. v \in CkStores /\ Len(ckEval.items) + 1 \in 1..4 /\ item = Evidence(Len(ckEval.items) + 1, v, {})
      BY <1>2, <1>i, <2>2 DEF CkMaybe
    <3>2. item \in CkItems /\ ItemFits(ckServer, item, Len(ckEval.items) + 1, {})
      BY <3>1, EvidenceShown
    <3>3. Shown(ckServer, Len(ckEval.items) + 1, item.basis, {})
            = Shown(ckServer, Len(ckEval.items) + 1, item.basis, Configured(ckEval))
      BY <3>1, Verdicts
    <3> QED BY <3>1, <3>2, <3>3 DEF ItemFits
  <2> QED BY <2>1, <2>2
<1>3. ASSUME NEW v \in CkMaybe, EvBinding(v)
      PROVE  EvaluationFits' /\ ckEval' \in CkEvals /\ ckEval'.receipted = ckEval.receipted
  <2>1. PICK c : c = IF v = "none" THEN [ckEval EXCEPT !.at = "answered"]
                     ELSE [ckEval EXCEPT !.at = "basis", !.binding = v]
    OBVIOUS
  <2>2. /\ c \in CkEvals /\ c.items = ckEval.items /\ c.receipted = ckEval.receipted
        /\ c.at = IF v = "none" THEN "answered" ELSE "basis"
        /\ c.final = ckEval.final /\ c.current = ckEval.current
    BY <2>1, <1>2 DEF CkEvals
  <2>3. ckEval' = c /\ ckEval.at = "binding" /\ Len(ckEval.items) = 0
    BY <2>1, <1>3, <1>t DEF EvBinding, ReadingFits
  <2>4. ckEval.final = <<>> /\ ckEval.current = "UNKNOWN"
    BY <2>3, <1>t DEF ReadingFits
  <2>5. ReadingFits'
    BY <2>2, <2>3, <2>4 DEF ReadingFits
  <2> QED BY <2>2, <2>3, <2>4, <2>5, <1>1, EvaluationReads
<1>4. ASSUME NEW v \in CkMaybe, EvBasis(v)
      PROVE  EvaluationFits' /\ ckEval' \in CkEvals /\ ckEval'.receipted = ckEval.receipted
  <2>1. PICK c : c = [ckEval EXCEPT !.at = "read", !.basis = v]
    OBVIOUS
  <2>2. c \in CkEvals /\ c.items = ckEval.items /\ c.receipted = ckEval.receipted /\ c.at = "read"
        /\ c.final = ckEval.final /\ c.current = ckEval.current
    BY <2>1, <1>2 DEF CkEvals
  <2>3. ckEval' = c /\ ckEval.at = "basis"
    BY <2>1, <1>4 DEF EvBasis
  <2>4. ReadingFits'
    BY <2>2, <2>3, <1>t, <1>f DEF ReadingFits
  <2> QED BY <2>2, <2>3, <2>4, <1>1, EvaluationReads
<1>5. ASSUME NEW v \in CkMaybe, EvRead(v)
      PROVE  EvaluationFits' /\ ckEval' \in CkEvals /\ ckEval'.receipted = ckEval.receipted
  <2>n. PICK n \in Nat : n = Len(ckEval.items)
    BY <1>2
  <2>1. ckEval.at = "read" /\ Len(ckEval.items) < 5
    BY <1>5, <1>t DEF EvRead, ReadingFits
  <2>2. CASE Len(ckEval.items) = 4 /\ v # "none"
    <3>1. PICK c : c = [ckEval EXCEPT !.at = "proof", !.held = v]
      OBVIOUS
    <3>2. /\ c \in CkEvals /\ c.items = ckEval.items /\ c.receipted = ckEval.receipted /\ c.at = "proof"
          /\ c.held = v /\ c.final = ckEval.final /\ c.current = ckEval.current
      BY <3>1, <1>2 DEF CkEvals
    <3>3. ckEval' = c
      BY <3>1, <2>2, <1>5, <1>p DEF EvRead
    <3>5. v \in CkStores
      BY <2>2 DEF CkMaybe
    <3>4. ReadingFits'
      <4>1. ckEval'.items = ckEval.items /\ ckEval'.at = "proof" /\ ckEval'.held = v
            /\ ckEval'.final = <<>> /\ ckEval'.current = "UNKNOWN"
        BY <3>2, <3>3, <2>1, <1>f
      <4>2. n = 4 /\ Len(ckEval'.items) = n
        BY <4>1, <2>2, <2>n
      <4> QED BY <3>5, <4>1, <4>2 DEF ReadingFits
    <3> QED BY <3>2, <3>3, <3>4, <1>1, EvaluationReads
  <2>3. CASE Len(ckEval.items) < 4 \/ v = "none"
    <3>0. PICK i : i = Len(ckEval.items) + 1
      OBVIOUS
    <3>i. i = n + 1
      BY <3>0, <2>n
    <3>1. PICK item : item = IF v = "none" THEN Unavailable ELSE Evidence(i, v, {})
      OBVIOUS
    <3>2. item \in CkItems /\ ItemFits(ckServer, item, Len(ckEval.items) + 1, Configured(ckEval))
      BY <3>0, <3>1, <2>1, <2>3, <1>i
    <3>3. PICK at, items : /\ at = (IF i = ProofPosition THEN "recheck" ELSE "read")
                           /\ items = Append(ckEval.items, item)
      OBVIOUS
    <3>4. at \in {"recheck", "read"} /\ items \in Seq(CkItems)
      BY <3>2, <3>3, <1>2
    <3>5. PICK c : c = [ckEval EXCEPT !.at = at, !.items = items]
      OBVIOUS
    <3>6. /\ c \in CkEvals /\ c.items = Append(ckEval.items, item) /\ c.receipted = ckEval.receipted
          /\ c.at = at /\ c.final = ckEval.final /\ c.current = ckEval.current
      BY <3>3, <3>4, <3>5, <1>2 DEF CkEvals
    <3>7. ~(i = ProofPosition /\ v # "none")
      BY <3>i, <2>3, <2>n, <1>p
    <3>8. ckEval' = c
      BY <3>0, <3>1, <3>3, <3>5, <3>7, <1>5 DEF EvRead
    <3>a. at = IF n = 4 THEN "recheck" ELSE "read"
      BY <3>i, <3>3, <1>p
    <3>b. n < 5
      BY <2>1, <2>n
    <3>9. (at = "read" /\ n < 4) \/ (at = "recheck" /\ n = 4)
      BY <3>a, <3>b
    <3> QED BY <3>2, <3>6, <3>8, <3>9, <2>1, <2>n, <1>1, <1>f, EvaluationAdds
  <2>4. n < 5
    BY <2>1, <2>n
  <2>5. n < 4 \/ n = 4
    BY <2>4
  <2> QED BY <2>2, <2>3, <2>5, <2>n
<1>6. ASSUME EvProof
      PROVE  EvaluationFits' /\ ckEval' \in CkEvals /\ ckEval'.receipted = ckEval.receipted
  <2>1. ckEval.at = "proof" /\ Len(ckEval.items) = 4 /\ ckEval.held \in CkStores
    BY <1>6, <1>t DEF EvProof, ReadingFits
  <2>2. PICK item : item = Evidence(5, ckEval.held, Configured(ckEval))
    OBVIOUS
  <2>3. item \in CkItems /\ ItemFits(ckServer, item, 5, Configured(ckEval))
    BY <2>1, <2>2, EvidenceShown
  <2>8. PICK items : items = Append(ckEval.items, item)
    OBVIOUS
  <2>9. items \in Seq(CkItems)
    BY <2>3, <2>8, <1>2
  <2>4. PICK c : c = [ckEval EXCEPT !.at = "recheck", !.items = items]
    OBVIOUS
  <2>5. /\ c \in CkEvals /\ c.items = Append(ckEval.items, item) /\ c.receipted = ckEval.receipted
        /\ c.at = "recheck" /\ c.final = ckEval.final /\ c.current = ckEval.current
    BY <2>4, <2>8, <2>9, <1>2 DEF CkEvals
  <2>6. ckEval' = c
    BY <2>2, <2>4, <2>8, <1>6, <1>p DEF EvProof
  <2>7. ItemFits(ckServer, item, Len(ckEval.items) + 1, Configured(ckEval)) /\ Len(ckEval.items) < 5
    BY <2>1, <2>3
  <2> QED BY <2>1, <2>3, <2>5, <2>6, <2>7, <1>1, <1>f, EvaluationAdds
<1>7. ASSUME NEW v \in CkMaybe, EvRecheck(v)
      PROVE  EvaluationFits' /\ ckEval' \in CkEvals /\ ckEval'.receipted = ckEval.receipted
  <2>1. PICK c : c = ckEval'
    OBVIOUS
  <2>2. c \in CkEvals /\ c.items = ckEval.items /\ c.receipted = ckEval.receipted
        /\ c.at \in {"endBasis", "recheck"} /\ ckEval.at = "recheck"
        /\ c.final = ckEval.final /\ c.current = ckEval.current
    <3>1. PICK i, token, at : /\ i = Len(ckEval.tokens) + 1
                              /\ token = IF v = "none" THEN "none" ELSE SourceToken(i, v, Configured(ckEval))
                              /\ at = IF i = ProofPosition THEN "endBasis" ELSE "recheck"
      OBVIOUS
    <3>2. ckEval' = [ckEval EXCEPT !.at = at, !.tokens = Append(@, token)] /\ ckEval.at = "recheck"
      BY <3>1, <1>7 DEF EvRecheck
    <3>3. token \in CkTokens
      BY <3>1, <1>7, Sources DEF CkMaybe, CkTokens
    <3>4. PICK tokens : tokens = Append(ckEval.tokens, token)
      OBVIOUS
    <3>5. tokens \in Seq(CkTokens) /\ at \in {"endBasis", "recheck"}
      BY <3>1, <3>3, <3>4, <1>2
    <3>6. c = [ckEval EXCEPT !.at = at, !.tokens = tokens]
      BY <3>2, <3>4, <2>1
    <3> QED BY <3>2, <3>5, <3>6, <1>2 DEF CkEvals
  <2>3. ReadingFits'
    BY <2>1, <2>2, <1>t, <1>f DEF ReadingFits
  <2> QED BY <2>1, <2>2, <2>3, <1>1, EvaluationReads
<1>8. ASSUME NEW v \in CkMaybe, ReadsStore(v), EvEndBasis(v)
      PROVE  EvaluationFits' /\ ckEval' \in CkEvals /\ ckEval'.receipted = ckEval.receipted
  <2>1. PICK c : c = [ckEval EXCEPT !.at = "endBinding", !.endBasis = v]
    OBVIOUS
  <2>2. /\ c \in CkEvals /\ c.items = ckEval.items /\ c.receipted = ckEval.receipted /\ c.at = "endBinding"
        /\ c.endBasis = v /\ c.final = ckEval.final /\ c.current = ckEval.current
    BY <2>1, <1>2 DEF CkEvals
  <2>3. ckEval' = c /\ ckEval.at = "endBasis"
    BY <2>1, <1>8 DEF EvEndBasis
  <2>4. ReadingFits' /\ AnswerFits'
    BY <2>2, <2>3, <1>t DEF ReadingFits, AnswerFits
  <2>5. ItemsFit'
    BY <2>2, <2>3, <1>t DEF ItemsFit, Configured
  <2>6. MomentsFit'
    <3>1. ckMoments' = ckMoments \cup {Moment'} /\ Moment' = [store |-> ckStore, receipts |-> ckReceipt]
      BY <2>2, <2>3 DEF NextMoments, Moment
    <3>2. v # "none" => v = ckStore
      BY <1>8 DEF ReadsStore
    <3>3. \A m \in ckMoments' : m.receipts = {} \/ m.receipts = ckReceipt
      BY <3>1, <1>t DEF MomentsFit
    <3> QED BY <3>1, <3>2, <3>3, <2>2, <2>3 DEF MomentsFit
  <2> QED BY <2>2, <2>3, <2>4, <2>5, <2>6 DEF EvaluationFits
<1>9. ASSUME NEW v \in CkMaybe, EvAnswer(v)
      PROVE  EvaluationFits' /\ ckEval' \in CkEvals /\ ckEval'.receipted = ckEval.receipted
  <2>1. PICK e : e = [ckEval EXCEPT !.endBinding = v]
    OBVIOUS
  <2>2. PICK final : final = [i \in CkPositions |-> Coherent(e, i)]
    OBVIOUS
  <2>3. PICK current : current = Aggregate({final[i] : i \in CkPositions})
    OBVIOUS
  <2>4. PICK c : c = [e EXCEPT !.at = "answered", !.final = final, !.current = current]
    OBVIOUS
  <2>5. ckEval' = c /\ ckEval.at = "endBinding" /\ Len(ckEval.items) = 5
    BY <2>1, <2>2, <2>3, <2>4, <1>9, <1>t DEF EvAnswer, ReadingFits
  <2>6. /\ e \in CkEvals /\ e.items = ckEval.items /\ e.receipted = ckEval.receipted
        /\ e.endBasis = ckEval.endBasis /\ e.basis = ckEval.basis
    BY <2>1, <1>2 DEF CkEvals
  <2>7. \A i \in 1..5 : e.items[i] \in CkItems
    BY <2>5, <2>6, <1>2
  <2>8. \A i \in 1..5 : final[i] = Coherent(e, i) /\ final[i] \in CkResults
    BY <2>2, <2>7, <1>p DEF Coherent, CkItems, CkResults
  <2>9. final \in [1..5 -> CkResults]
    BY <2>2, <2>8, <1>p
  <2>10. current \in CkResults /\ (current = "TRUE" => \A i \in 1..5 : final[i] = "TRUE")
    BY <2>3, <2>8, <1>p DEF Aggregate, CkResults
  <2>11. /\ c \in CkEvals /\ c.items = ckEval.items /\ c.receipted = ckEval.receipted /\ c.at = "answered"
         /\ c.final = final /\ c.current = current
    BY <2>4, <2>6, <2>9, <2>10 DEF CkEvals
  <2>12. ItemsFit' /\ ReadingFits'
    BY <2>5, <2>11, <1>t DEF ItemsFit, Configured, ReadingFits
  <2>13. /\ ckMoments' = ckMoments \cup {Moment'} /\ Moment' = [store |-> ckStore, receipts |-> ckReceipt]
    BY <2>5, <2>11 DEF NextMoments, Moment
  <2>14. MomentsFit'
    BY <2>5, <2>11, <2>13, <1>t DEF MomentsFit
  <2>15. \E m \in ckMoments' : HeldAt(m)'
    <3>1. CASE SharedBasis(e) = "none"
      <4>1. \A i \in 1..5 : final[i] = "UNKNOWN"
        BY <3>1, <2>8 DEF Coherent
      <4>2. PICK m \in ckMoments' : m = Moment'
        BY <2>13
      <4>3. HeldAt(m)'
        BY <4>1, <2>5, <2>11 DEF HeldAt
      <4> QED BY <4>3
    <3>2. CASE SharedBasis(e) # "none"
      <4>1. SharedBasis(e) = ckEval.endBasis /\ ckEval.endBasis # "none"
        BY <3>2, <2>6 DEF SharedBasis
      <4>2. PICK m \in ckMoments : /\ m.store = ckEval.endBasis
                                   /\ ckEval.items[5].token # "none" => m.receipts = ckReceipt
        BY <4>1, <2>5, <1>t DEF MomentsFit
      <4>3. ASSUME NEW i \in 1..5, final[i] # "UNKNOWN"
            PROVE  final[i] = Shown(ckServer, i, m.store, IF ckEval.receipted THEN m.receipts ELSE {})
        <5>1. /\ final[i] = ckEval.items[i].result /\ ckEval.items[i].basis = m.store
              /\ ckEval.items[i].token # "none"
          BY <4>1, <4>2, <4>3, <2>6, <2>8 DEF Coherent
        <5>2. final[i] = Shown(ckServer, i, m.store, Configured(ckEval))
          BY <5>1, <2>5, <1>t DEF ItemsFit, ItemFits
        <5>3. CASE i = 5
          BY <5>1, <5>2, <5>3, <4>2 DEF Configured
        <5>4. CASE i \in 1..4
          BY <5>2, <5>4, Verdicts
        <5> QED BY <5>3, <5>4
      <4>4. HeldAt(m)'
        BY <4>3, <2>5, <2>11 DEF HeldAt
      <4> QED BY <4>4, <2>13
    <3> QED BY <3>1, <3>2
  <2>16. AnswerFits'
    BY <2>5, <2>10, <2>11, <2>15 DEF AnswerFits
  <2> QED BY <2>5, <2>11, <2>12, <2>14, <2>16 DEF EvaluationFits
<1> QED BY <1>1, <1>3, <1>4, <1>5, <1>6, <1>7, <1>8, <1>9 DEF EvStep, CkMaybe

\* Every step of the product keeps the invariant.
LEMMA CurrentnessStep == CurrentnessInv /\ [CkNext]_ckVars => CurrentnessInv'
<1> SUFFICES ASSUME CurrentnessInv, [CkNext]_ckVars
             PROVE  CurrentnessInv'
  OBVIOUS
<1>t. CkTyped /\ EvaluationFits /\ AttemptFits
  BY DEF CurrentnessInv
<1>1. CASE UNCHANGED ckVars
  <2>1. CkTyped' /\ AttemptFits'
    BY <1>1, <1>t DEF ckVars, CkTyped, AttemptFits, Sealed
  <2>2. EvaluationFits'
    BY <1>1, <1>t DEF ckVars, EvaluationFits, ItemsFit, ReadingFits, MomentsFit, AnswerFits, HeldAt, Configured
  <2> QED BY <2>1, <2>2 DEF CurrentnessInv
<1> SUFFICES ASSUME CkNext
             PROVE  CurrentnessInv'
  BY <1>1
<1>m. NextMoments
  BY DEF CkNext, NextMoments
<1>w. /\ ckAttempt \in CkAttempts /\ ckJournal \in Nat /\ ckWork \in [rev : Nat \ {0}, effect : Nat]
      /\ ckWork.rev \in Nat \ {0} /\ ckWork.effect \in Nat
  BY <1>t DEF CkTyped
<1>q. ASSUME Quit, UNCHANGED <<ckWho, ckServer>>, ckStore' \in CkStores, ckReceipt' = ckReceipt,
             UNCHANGED <<ckWork, ckJournal>>,
             \/ ckResult' = ckResult
             \/ ckResult' = ckReceipt /\ ckWork.effect # 0 /\ \E s \in CkReady : ckReceipt = {Sealed(s)}
      PROVE  CurrentnessInv'
  <2>1. ckAttempt.runs \in Nat
    BY <1>w DEF CkAttempts
  <2>2. ckAttempt' \in CkAttempts /\ ckAttempt'.at = "idle"
    BY <1>q, <2>1 DEF Quit, AttemptIdle, CkAttempts, CkMaybe
  <2>3. ckEval' = NotEvaluating
    BY <1>q DEF Quit
  <2>4. CkTyped' /\ EvaluationFits'
    BY <2>2, <2>3, <1>q, <1>t DEF CkTyped, EvaluationFits
  <2>5. AttemptFits'
    BY <2>2, <2>3, <1>q, <1>t DEF AttemptFits, Sealed
  <2> QED BY <2>4, <2>5 DEF CurrentnessInv
<1>a. ASSUME NEW c \in CkAttempts, ckAttempt' = c, UNCHANGED <<ckWho, ckServer, ckStore, ckResult>>,
             ckEval' \in {NotEvaluating} \cup CkEvals, EvaluationFits', ckWho # "edge",
             ckJournal' \in Nat, ckJournal' = ckJournal \/ (ckJournal = 0 /\ ckWork.effect = 0),
             ckWork' \in [rev : Nat \ {0}, effect : Nat],
             ckReceipt' = ckReceipt \/ ckReceipt = {},
             ckWork'.effect = ckWork.effect \/ (ckWork.effect = 0 /\ ckWork'.effect = ckJournal' + 1),
             ckWork'.effect # 0 => ckJournal' # 0,
             c.at = "prepare" => c.seen # 0,
             c.at = "update" => ckJournal' # 0,
             c.at \in {"recheck", "emit", "after"} => ckWork'.effect # 0,
             c.at = "after" => ckEval' # NotEvaluating /\ ckEval'.receipted
      PROVE  CurrentnessInv'
  <2>1. CkTyped'
    BY <1>a, <1>t DEF CkTyped
  <2>2. ckWork'.effect # 0 => ckJournal' # 0 /\ ckWork'.effect = ckJournal' + 1
    BY <1>a, <1>t DEF AttemptFits
  <2>3. ckResult # {} => ckReceipt' = ckReceipt /\ ckWork'.effect # 0
    BY <1>a, <1>t DEF AttemptFits
  <2>4. AttemptFits'
    BY <2>2, <2>3, <1>a, <1>t DEF AttemptFits, Sealed
  <2> QED BY <2>1, <2>4, <1>a DEF CurrentnessInv
<1>s. (UNCHANGED <<ckEval, ckServer, ckReceipt>>) => EvaluationFits'
  BY <1>m, <1>t, EvaluationStands
<1>n. (ckEval' = NotEvaluating) => EvaluationFits'
  BY DEF EvaluationFits
<1>2. CASE EdgeAsks
  <2>1. /\ EvaluationFits' /\ ckEval' \in CkEvals
    BY <1>2, <1>m, EvaluationBegins DEF EdgeAsks
  <2>2. /\ UNCHANGED <<ckWho, ckServer, ckStore, ckReceipt, ckAttempt, ckJournal, ckWork, ckResult>>
        /\ ckWho = "edge"
    BY <1>2 DEF EdgeAsks
  <2>3. CkTyped'
    BY <2>1, <2>2, <1>t DEF CkTyped
  <2>4. AttemptFits'
    BY <2>2, <1>t DEF AttemptFits, Sealed
  <2> QED BY <2>1, <2>3, <2>4 DEF CurrentnessInv
<1>3. CASE Evaluate
  <2>1. /\ UNCHANGED <<ckWho, ckServer, ckStore, ckReceipt, ckAttempt, ckJournal, ckWork, ckResult>>
        /\ EvStep
    BY <1>3 DEF Evaluate
  <2>2. /\ EvaluationFits' /\ ckEval # NotEvaluating /\ ckEval' \in CkEvals
        /\ ckEval'.receipted = ckEval.receipted
    BY <2>1, <1>t, <1>m, EvaluationSteps
  <2>3. ckEval' # NotEvaluating
    BY <2>2 DEF CkEvals, NotEvaluating
  <2>4. CkTyped'
    BY <2>1, <2>2, <1>t DEF CkTyped
  <2>5. AttemptFits'
    BY <2>1, <2>2, <2>3, <1>t DEF AttemptFits, Sealed
  <2> QED BY <2>2, <2>4, <2>5 DEF CurrentnessInv
<1>u. Qualify => UNCHANGED <<ckWho, ckServer, ckStore>>
  BY DEF Qualify
<1>v. ckStore \in CkStores /\ ckEval \in {NotEvaluating} \cup CkEvals
  BY <1>t DEF CkTyped
<1>e. ckAttempt.at # "idle" => ckWho # "edge"
  BY <1>t DEF AttemptFits
<1>4. CASE Qualify
  <2>u. UNCHANGED <<ckWho, ckServer, ckStore>>
    BY <1>4 DEF Qualify
  <2>1. CASE QualifyStart
    <3>1. PICK c : c = [AttemptIdle(ckAttempt.runs + 1) EXCEPT !.at = "before"]
      OBVIOUS
    <3>2. ckAttempt.runs + 1 \in Nat
      BY <1>w DEF CkAttempts
    <3>3. c \in CkAttempts /\ c.at = "before"
      BY <3>1, <3>2 DEF AttemptIdle, CkAttempts, CkMaybe
    <3>4. /\ ckAttempt' = c /\ ckWho # "edge" /\ EvBegin(FALSE)
          /\ UNCHANGED <<ckJournal, ckWork, ckResult, ckReceipt>>
      BY <3>1, <2>1 DEF QualifyStart
    <3>5. EvaluationFits' /\ ckEval' \in CkEvals
      BY <3>4, <1>m, EvaluationBegins
    <3>6. ckWork.effect # 0 => ckJournal # 0
      BY <1>t DEF AttemptFits
    <3> QED BY <3>3, <3>4, <3>5, <3>6, <2>u, <1>w, <1>a
  <2>2. CASE QualifyReady
    <3>1. UNCHANGED <<ckJournal, ckWork, ckResult, ckReceipt>> /\ ckAttempt.at = "before"
      BY <2>2 DEF QualifyReady
    <3>2. CASE Quit
      BY <3>1, <3>2, <2>u, <1>q, <1>v
    <3>3. CASE ckAttempt' = [ckAttempt EXCEPT !.at = "basis"] /\ ckEval' = NotEvaluating
      <4>1. PICK c : c = [ckAttempt EXCEPT !.at = "basis"]
        OBVIOUS
      <4>2. c \in CkAttempts /\ c.at = "basis"
        BY <4>1, <1>w DEF CkAttempts
      <4>3. ckWork.effect # 0 => ckJournal # 0
        BY <1>t DEF AttemptFits
      <4> QED BY <4>1, <4>2, <4>3, <3>1, <3>3, <2>u, <1>w, <1>a, <1>n, <1>e
    <3> QED BY <3>2, <3>3, <2>2 DEF QualifyReady
  <2>3. CASE QualifyBasis
    <3>1. UNCHANGED <<ckJournal, ckWork, ckResult, ckReceipt>> /\ ckAttempt.at = "basis"
      BY <2>3 DEF QualifyBasis
    <3>2. CASE Quit
      BY <3>1, <3>2, <2>u, <1>q, <1>v
    <3>3. ASSUME NEW v \in CkMaybe,
                 ckAttempt' = [ckAttempt EXCEPT !.at = "prepare", !.basis = v, !.seen = ckWork.rev],
                 UNCHANGED ckEval
          PROVE  CurrentnessInv'
      <4>1. PICK c : c = [ckAttempt EXCEPT !.at = "prepare", !.basis = v, !.seen = ckWork.rev]
        OBVIOUS
      <4>2. c \in CkAttempts /\ c.at = "prepare" /\ c.seen = ckWork.rev
        BY <4>1, <1>w DEF CkAttempts
      <4>3. ckWork.effect # 0 => ckJournal # 0
        BY <1>t DEF AttemptFits
      <4>4. ckAttempt' = c
        BY <3>3, <4>1
      <4>5. EvaluationFits' /\ ckEval' \in {NotEvaluating} \cup CkEvals
        BY <3>1, <3>3, <2>u, <1>s, <1>v
      <4>6. ckWho # "edge"
        BY <3>1, <1>e
      <4> QED BY <4>2, <4>3, <4>4, <4>5, <4>6, <3>1, <2>u, <1>w, <1>a
    <3> QED BY <3>2, <3>3, <2>3 DEF QualifyBasis, CkMaybe
  <2>4. CASE QualifyPrepare
    <3>1. /\ UNCHANGED <<ckEval, ckWork, ckResult, ckReceipt>> /\ ckAttempt.at = "prepare"
          /\ ckJournal' = IF ckJournal = 0 THEN ckAttempt.seen ELSE ckJournal
          /\ ckAttempt' = [ckAttempt EXCEPT !.at = "update"]
      BY <2>4 DEF QualifyPrepare
    <3>2. PICK c : c = [ckAttempt EXCEPT !.at = "update"]
      OBVIOUS
    <3>3. c \in CkAttempts /\ c.at = "update" /\ ckAttempt.seen \in Nat
      BY <3>2, <1>w DEF CkAttempts
    <3>4. /\ ckAttempt.seen # 0 /\ (ckWork.effect # 0 => ckJournal # 0)
      BY <3>1, <1>t DEF AttemptFits
    <3>5. /\ ckJournal' \in Nat /\ ckJournal' # 0
          /\ ckJournal' = ckJournal \/ (ckJournal = 0 /\ ckWork.effect = 0)
      BY <3>1, <3>3, <3>4, <1>w
    <3>6. EvaluationFits' /\ ckEval' \in {NotEvaluating} \cup CkEvals /\ ckWho # "edge"
      BY <3>1, <2>u, <1>s, <1>v, <1>e
    <3> QED BY <3>1, <3>2, <3>3, <3>5, <3>6, <2>u, <1>w, <1>a
  <2>5. CASE QualifyUpdate
    <3>1. /\ UNCHANGED <<ckJournal, ckResult, ckReceipt>> /\ ckAttempt.at = "update"
          /\ ckJournal # 0 /\ ckWho # "edge"
      BY <2>5, <1>t, <1>e DEF QualifyUpdate, AttemptFits
    <3>2. CASE Quit /\ UNCHANGED ckWork
      BY <3>1, <3>2, <2>u, <1>q, <1>v
    <3>3. PICK c : c = [ckAttempt EXCEPT !.at = "recheck"]
      OBVIOUS
    <3>4. c \in CkAttempts /\ c.at = "recheck"
      BY <3>3, <1>w DEF CkAttempts
    <3>5. CASE ckWork.effect # 0 /\ ckAttempt' = c /\ UNCHANGED <<ckWork, ckEval>>
      <4>1. EvaluationFits' /\ ckEval' \in {NotEvaluating} \cup CkEvals
        BY <3>1, <3>5, <2>u, <1>s, <1>v
      <4> QED BY <4>1, <3>1, <3>4, <3>5, <2>u, <1>w, <1>a
    <3>6. CASE /\ ckWork.effect = 0 /\ ckWork.rev = ckJournal /\ ckAttempt' = c /\ UNCHANGED ckEval
               /\ ckWork' = [ckWork EXCEPT !.rev = @ + 1, !.effect = ckWork.rev + 1]
      <4>1. EvaluationFits' /\ ckEval' \in {NotEvaluating} \cup CkEvals
        BY <3>1, <3>6, <2>u, <1>s, <1>v
      <4>0. PICK rev \in Nat \ {0} : rev = ckWork.rev + 1
        BY <1>w
      <4>5. ckWork' = [ckWork EXCEPT !.rev = rev, !.effect = rev]
        BY <4>0, <3>6
      <4>6. ckWork' \in [rev : Nat \ {0}, effect : Nat] /\ ckWork'.effect = rev
        BY <4>5, <1>w
      <4>2. ckWork' \in [rev : Nat \ {0}, effect : Nat] /\ ckWork'.effect = ckWork.rev + 1
        BY <4>0, <4>6
      <4>3. ckWork'.effect # 0 /\ ckWork'.effect = ckJournal + 1
        BY <4>2, <3>6, <1>w
      <4> QED BY <4>1, <4>2, <4>3, <3>1, <3>4, <3>6, <2>u, <1>w, <1>a
    <3>7. \/ ckWork.effect # 0 /\ ckAttempt' = [ckAttempt EXCEPT !.at = "recheck"] /\ UNCHANGED <<ckWork, ckEval>>
          \/ /\ ckWork.effect = 0 /\ ckWork.rev = ckJournal
             /\ ckWork' = [ckWork EXCEPT !.rev = @ + 1, !.effect = ckWork.rev + 1]
             /\ ckAttempt' = [ckAttempt EXCEPT !.at = "recheck"] /\ UNCHANGED ckEval
          \/ Quit /\ UNCHANGED ckWork
      BY <2>5 DEF QualifyUpdate
    <3> QED BY <3>2, <3>3, <3>5, <3>6, <3>7
  <2>6. CASE QualifyRecheck
    <3>1. /\ UNCHANGED <<ckJournal, ckWork, ckResult, ckReceipt>> /\ ckAttempt.at = "recheck"
          /\ ckWork.effect # 0 /\ ckJournal # 0 /\ ckWho # "edge"
      BY <2>6, <1>t, <1>e DEF QualifyRecheck, AttemptFits
    <3>2. CASE Quit
      BY <3>1, <3>2, <2>u, <1>q, <1>v
    <3>3. CASE ckAttempt' = [ckAttempt EXCEPT !.at = "emit"] /\ UNCHANGED ckEval
      <4>1. PICK c : c = [ckAttempt EXCEPT !.at = "emit"]
        OBVIOUS
      <4>2. c \in CkAttempts /\ c.at = "emit"
        BY <4>1, <1>w DEF CkAttempts
      <4>3. EvaluationFits' /\ ckEval' \in {NotEvaluating} \cup CkEvals
        BY <3>1, <3>3, <2>u, <1>s, <1>v
      <4> QED BY <4>1, <4>2, <4>3, <3>1, <3>3, <2>u, <1>w, <1>a
    <3> QED BY <3>2, <3>3, <2>6 DEF QualifyRecheck
  <2>7. CASE QualifyEmit
    <3>1. /\ UNCHANGED <<ckJournal, ckWork, ckResult>> /\ ckAttempt.at = "emit"
          /\ ckWork.effect # 0 /\ ckJournal # 0 /\ ckWho # "edge"
          /\ ckReceipt' = ckReceipt \/ ckReceipt = {}
      BY <2>7, <1>t, <1>e DEF QualifyEmit, AttemptFits, Create
    <3>2. PICK c : c = [ckAttempt EXCEPT !.at = "after"]
      OBVIOUS
    <3>3. c \in CkAttempts /\ c.at = "after" /\ ckAttempt' = c
      BY <3>2, <2>7, <1>w DEF CkAttempts, QualifyEmit
    <3>4. EvaluationFits' /\ ckEval' \in CkEvals /\ ckEval'.receipted
      BY <2>7, <1>m, EvaluationBegins DEF QualifyEmit
    <3>5. ckEval' # NotEvaluating
      BY <3>4 DEF CkEvals, NotEvaluating
    <3> QED BY <3>1, <3>3, <3>4, <3>5, <2>u, <1>w, <1>a
  <2>8. CASE QualifyPublish
    <3>1. /\ UNCHANGED <<ckJournal, ckWork, ckReceipt>> /\ ckAttempt.at = "after"
          /\ ckWork.effect # 0 /\ ckEval # NotEvaluating /\ ckEval.receipted
          /\ ckServer = Expected(ckServer) /\ Quit
          /\ ckResult' = IF ckEval.current = "TRUE" /\ ckResult = {} THEN ckReceipt ELSE ckResult
          /\ ckEval.at = "answered"
      BY <2>8, <1>t, <1>e DEF QualifyPublish, AttemptFits
    <3>2. ckEval.current = "TRUE" => \E s \in CkReady : ckReceipt = {Sealed(s)}
      <4> SUFFICES ASSUME ckEval.current = "TRUE"
                   PROVE  \E s \in CkReady : ckReceipt = {Sealed(s)}
        OBVIOUS
      <4>1. PICK m \in ckMoments : HeldAt(m) /\ \A i \in 1..5 : ckEval.final[i] = "TRUE"
        BY <3>1, <1>t DEF EvaluationFits, AnswerFits
      <4>2. /\ Shown(ckServer, 4, m.store, m.receipts) = "TRUE"
            /\ Shown(ckServer, 5, m.store, m.receipts) = "TRUE"
        BY <4>1, <3>1 DEF HeldAt
      <4>3. m.store \in CkReady /\ m.receipts = {[server |-> ckServer, store |-> m.store]}
        BY <4>2, Verdicts
      <4>4. m.receipts = ckReceipt
        BY <4>3, <3>1, <1>t DEF EvaluationFits, MomentsFit
      <4> QED BY <4>3, <4>4, <3>1 DEF Sealed
    <3> QED BY <3>1, <3>2, <2>u, <1>q, <1>v
  <2> QED BY <1>4, <2>1, <2>2, <2>3, <2>4, <2>5, <2>6, <2>7, <2>8 DEF Qualify
<1>5. CASE CkUpset
  <2>u. UNCHANGED <<ckWho, ckServer, ckJournal, ckResult>>
    BY <1>5 DEF CkUpset
  <2>1. CASE Quit /\ UNCHANGED <<ckStore, ckReceipt, ckWork>>
    BY <2>1, <2>u, <1>q, <1>v
  <2>2. CASE /\ UNCHANGED <<ckAttempt, ckEval>> /\ ckStore' \in CkStores
             /\ ckReceipt' = ckReceipt \/ ckReceipt = {}
             /\ ckWork' \in [rev : Nat \ {0}, effect : Nat] /\ ckWork'.effect = ckWork.effect
    <3>1. EvaluationFits'
      BY <2>2, <2>u, <1>m, <1>t, EvaluationStands
    <3>2. CkTyped'
      BY <2>2, <2>u, <1>t DEF CkTyped
    <3>3. AttemptFits'
      BY <2>2, <2>u, <1>t DEF AttemptFits, Sealed
    <3> QED BY <3>1, <3>2, <3>3 DEF CurrentnessInv
  <2>3. ckWork' = [ckWork EXCEPT !.rev = @ + 1] =>
          ckWork' \in [rev : Nat \ {0}, effect : Nat] /\ ckWork'.effect = ckWork.effect
    BY <1>w
  <2> QED BY <1>5, <2>1, <2>2, <2>3, <1>w, <1>v DEF CkUpset
<1> QED BY <1>2, <1>3, <1>4, <1>5 DEF CkNext

\* What the product says of itself, for any states of its database, any process and any number
\* of attempts and upsets (product_currentness.py, stateful_qualifier.py): the conditions an
\* answer reports as known held together at one moment, and a published PASS names the receipt on
\* file, sealed for this process and a ready database, with the one effect of the attempt made
\* once.
THEOREM CurrentnessStaysProved == CkSpec => []CurrentnessIsProved
<1>1. CurrentnessInv => AnswerHeldAtOnce
  <2> SUFFICES ASSUME CurrentnessInv, ckEval.at = "answered", ckEval.final # <<>>
               PROVE  \E m \in ckMoments : \A i \in CkPositions :
                        ckEval.final[i] # "UNKNOWN" =>
                          ckEval.final[i] = Condition(i, m.store, IF ckEval.receipted THEN m.receipts ELSE {})
    BY DEF AnswerHeldAtOnce
  <2>1. ckEval # NotEvaluating
    BY DEF NotEvaluating
  <2>2. PICK m \in ckMoments : HeldAt(m)
    BY <2>1 DEF CurrentnessInv, EvaluationFits, AnswerFits
  <2> QED BY <2>2, Sources DEF HeldAt
<1>2. CurrentnessInv => PassIsEarned
  BY DEF CurrentnessInv, AttemptFits, PassIsEarned
<1>3. CurrentnessInv => CurrentnessIsProved
  BY <1>1, <1>2 DEF CurrentnessIsProved
<1> QED BY CurrentnessStarts, CurrentnessStep, <1>3, PTL DEF CkSpec

-----------------------------------------------------------------------------
(* StableAuth.                                                             *)

SaHosts ==
  [gate : BOOLEAN, combined : BOOLEAN, auth : BOOLEAN, edge : BOOLEAN, split : SUBSET (1..SaProxies),
   boot : {"combined", "split"}, grants : Nat, migrated : Nat]
SaPhases ==
  {"PREFLIGHT", "GATED", "STOPPED", "EFFECTS_CLEAR", "STATE_COPIED", "SPLIT_INSTALLED",
   "AUTH_STARTED", "EDGE_STARTED", "SPLIT_ROUTED", "UNGATED", "COMPLETE", "ROLLED_BACK"}
SaReceipts ==
  [phase : SaPhases \cup {"none"},
   status : {"RUNNING", "PASS", "FAIL", "UNKNOWN", "ABORTED_PRE_BOUNDARY"},
   exposed : BOOLEAN, notSent : BOOLEAN, confirmed : BOOLEAN]

(* Where a command stands: before and after the boundary, undoing or reporting an    *)
(* attempt, or settling the one the pointer names.                                  *)
SaBefore ==
  {"preflight", "gate", "gated", "stop", "stopped", "effects", "cleared", "copy", "copied",
   "install", "installed", "startAuth", "authUp", "startEdge", "edgeUp", "route", "routed",
   "boundary"}
SaAfter == {"ungate", "ungated", "public", "complete"}
SaRollback == {"rbGate", "rbStop", "rbRoutes", "rbBoot", "rbStart", "rbUngate", "rbPublic"}
SaUndoing == SaRollback \cup {"retain", "rolledBack", "finish"}
SaSettling == {"settlePass", "settlePre", "freeze", "queue", "clear"}
SaActive == SaBefore \cup SaAfter \cup SaUndoing
SaPlaces == SaActive \cup SaSettling \cup {"idle", "reconcile", "start", "pointer"}

SaRuns ==
  [at : SaPlaces, a : 0..MaxActivations, back : {"idle", "start"}, mem : SaReceipts, phase : SaPhases,
   exposed : BOOLEAN, gated : BOOLEAN, pre : SaHosts]

AuthTyped ==
  /\ saHost \in SaHosts
  /\ saReceipt \in [Activations -> SaReceipts]
  /\ saPointer \in 0..MaxActivations
  /\ saRun \in SaRuns
  /\ saSent \subseteq Activations

(* Services, routes, gate and start-up ownership of two hosts agree. *)
SameSite(h, g) ==
  /\ h.gate = g.gate /\ h.combined = g.combined /\ h.auth = g.auth /\ h.edge = g.edge
  /\ h.split = g.split /\ h.boot = g.boot

(* The public is served and knows its grants. *)
Served(h) ==
  ~h.gate => \/ h.split = {} /\ h.combined
             \/ h.split = 1..SaProxies /\ h.auth /\ h.edge /\ ~h.combined /\ h.migrated = h.grants

(* The places of activate at which the site is gated, the state has been copied, and  *)
(* the split pair runs.                                                             *)
SaGated == (SaBefore \cup {"ungate"}) \ {"preflight", "gate"}
SaCopied ==
  SaAfter \cup {"copied", "install", "installed", "startAuth", "authUp", "startEdge", "edgeUp",
                "route", "routed", "boundary"}
SaSplitUp == SaAfter \cup {"edgeUp", "route", "routed", "boundary"}
SaRouted == SaAfter \cup {"routed", "boundary"}

(* What the host looks like at each place of an attempt. *)
HostFits(h, run) ==
  /\ Served(h)
  /\ run.at \in {"pointer", "preflight", "rolledBack"} => SameSite(h, run.pre)
  /\ run.at = "gate" => SameSite(h, run.pre)
  /\ run.at \in (SaBefore \ {"preflight"}) \cup SaRollback => SameSite(run.pre, SaHost0)
  /\ run.at \in SaGated \cup {"rbStop", "rbRoutes", "rbBoot", "rbStart", "rbUngate"} => h.gate
  /\ run.at \in SaCopied => ~h.combined /\ h.migrated = h.grants
  /\ run.at \in {"authUp", "startEdge"} \cup SaSplitUp => h.auth
  /\ run.at \in SaSplitUp => h.edge
  /\ run.at \in SaRouted => h.split = 1..SaProxies
  /\ run.at \in {"rbRoutes", "rbBoot", "rbStart", "rbUngate", "rbPublic"} => ~h.auth /\ ~h.edge
  /\ run.at \in {"rbBoot", "rbStart", "rbUngate", "rbPublic"} => h.split = {}
  /\ run.at \in {"rbStart", "rbUngate", "rbPublic"} => h.boot = "combined"
  /\ run.at \in {"rbUngate", "rbPublic"} => h.combined
  /\ run.at = "rbPublic" => ~h.gate
  /\ run.at = "finish" /\ run.mem.status = "FAIL" => SameSite(h, run.pre)

(* The phase and the exposure a failure is judged by. *)
PhaseFits(run) ==
  /\ run.at \in {"start", "pointer", "preflight", "gate"} => run.phase = "PREFLIGHT"
  /\ run.at \in {"reconcile"} \cup SaSettling /\ run.back = "start" => run.phase = "PREFLIGHT"
  /\ run.at \in SaBefore \ {"preflight", "gate", "gated"} => run.phase # "PREFLIGHT"
  /\ run.at \in SaAfter => run.exposed

(* An attempt whose ungate was sent says so in its receipt, and is named by the pointer,  *)
(* passed or on record.                                                              *)
SentFits(receipt, pointer, sent, kept) ==
  \A a \in sent : /\ receipt[a].exposed /\ ~receipt[a].notSent /\ receipt[a].phase # "none"
                  /\ pointer = a \/ PassIsDurable(receipt[a]) \/ a \in kept

(* The pointer names the attempt that runs or that is being settled; kept are the        *)
(* attempts on record.                                                               *)
AttemptFitsIn(run, receipt, pointer, sent, kept) ==
  /\ run.at \in SaActive => /\ run.a \in Activations /\ pointer = run.a
                            /\ run.mem.phase # "none"
                            /\ run.a \in sent => run.mem.exposed /\ ~run.mem.notSent
  /\ run.at \in {"start", "pointer"} => pointer = 0
  /\ run.at = "pointer" => run.a \in Activations /\ run.a \notin sent /\ ~run.mem.notSent
                             /\ run.mem.phase # "none"
  /\ run.at \in SaBefore => run.a \notin sent /\ ~run.mem.notSent
  /\ run.at \in SaAfter => /\ run.mem.exposed /\ ~run.mem.notSent
                           /\ receipt[run.a].exposed /\ ~receipt[run.a].notSent
                           /\ receipt[run.a].phase # "none"
  /\ run.at \in SaSettling => pointer \in Activations
  /\ run.at = "settlePass" => PassIsDurable(receipt[pointer])
  /\ run.at = "settlePre" => PreBoundary(receipt[pointer])
  /\ run.at = "clear" => pointer \notin sent \/ PassIsDurable(receipt[pointer]) \/ pointer \in kept
  /\ SentFits(receipt, pointer, sent, kept)

Kept == {r.attempt : r \in failFiles \cup failJournal}

(* Every record, in the queue, in the journal or on its way, is the one frozen for its     *)
(* attempt, and what a launch acknowledges is in the journal.                          *)
SaRecords == [attempt : Activations, body : [proven : BOOLEAN, stamp : Nat]]
FrozenIn(frozen) == {r \in SaRecords : r \in frozen[r.attempt]}
SaLaunches(R, J) ==
  [at : {"idle", "replay", "ack", "unlink", "done"}, frames : Seq(R), acks : Seq(J),
   failed : BOOLEAN]
FrozenFits(frozen, files, journal, launch) ==
  /\ frozen \in [Activations -> SUBSET SaRecords]
  /\ \A a \in Activations : \A r, s \in frozen[a] : r = s /\ r.attempt = a
  /\ files \subseteq FrozenIn(frozen) /\ journal \subseteq FrozenIn(frozen)
  /\ IsFiniteSet(files)
  /\ launch \in [FailLaunches -> SaLaunches(FrozenIn(frozen), journal)]
  /\ \A l \in FailLaunches : launch[l].at = "unlink" => launch[l].acks # <<>>

(* The inductive invariant of the stable authorization. *)
AuthInv ==
  /\ AuthTyped
  /\ HostFits(saHost, saRun)
  /\ PhaseFits(saRun)
  /\ AttemptFitsIn(saRun, saReceipt, saPointer, saSent, Kept)
  /\ FrozenFits(saFrozen, failFiles, failJournal, failLaunch)

(* The next proxy to move is one of those that are left. *)
LEMMA NextProxyIsLeft ==
  ASSUME NEW S \in SUBSET Nat, S # {}
  PROVE  NextProxy(S) \in S
<1>1. IsWellFoundedOn({p \in Nat \X Nat : p[1] < p[2]}, Nat)
  BY NatLessThanWellFounded DEF OpToRel
<1>2. PICK R : R = {p \in Nat \X Nat : p[1] < p[2]} /\ IsWellFoundedOn(R, Nat)
  BY <1>1
<1>3. PICK x \in S : \A y \in S : ~(<<y, x>> \in R)
  BY <1>2, WFMin
<1>4. ASSUME NEW y \in S PROVE x <= y
  <2>1. x \in Nat /\ y \in Nat
    OBVIOUS
  <2>2. <<y, x>> \in Nat \X Nat /\ <<y, x>>[1] = y /\ <<y, x>>[2] = x
    BY <2>1
  <2>3. ~(y < x)
    BY <2>2, <1>2, <1>3
  <2> QED
    BY <2>1, <2>3
<1> QED
  BY <1>4 DEF NextProxy

(* Run c is run moved to another place. *)
MovedTo(c, run, at) ==
  /\ c \in SaRuns /\ c.at = at /\ c.a = run.a /\ c.back = run.back /\ c.mem = run.mem
  /\ c.phase = run.phase /\ c.exposed = run.exposed /\ c.pre = run.pre

(* GoTo changes nothing but the place. *)
LEMMA GoesTo ==
  ASSUME NEW run \in SaRuns, NEW at \in SaPlaces
  PROVE  MovedTo([run EXCEPT !.at = at], run, at)
BY DEF MovedTo, SaRuns

(* A failure leads to the gate, to the rollback, or, when nothing was begun, straight  *)
(* to the report.                                                                  *)
LEMMA RaisesTo ==
  ASSUME NEW run \in SaRuns, NEW kind \in {"Failed", "Unknown"}
  PROVE  \E at \in {"retain", "rolledBack", "rbGate"} :
           /\ MovedTo(Raised(kind, run), run, at)
           /\ at = "rolledBack" => run.phase = "PREFLIGHT" /\ kind = "Failed" /\ ~run.exposed
           /\ at = "rbGate" => run.phase # "PREFLIGHT" /\ kind = "Failed" /\ ~run.exposed
<1>1. PICK at : at = IF kind = "Unknown" \/ run.exposed THEN "retain"
                     ELSE IF run.phase = "PREFLIGHT" THEN "rolledBack" ELSE "rbGate"
  OBVIOUS
<1>2. at \in SaPlaces /\ at \in {"retain", "rolledBack", "rbGate"}
  BY <1>1 DEF SaPlaces, SaActive, SaUndoing, SaRollback
<1>3. Raised(kind, run) = [run EXCEPT !.at = at]
  BY <1>1 DEF Raised
<1>4. MovedTo(Raised(kind, run), run, at)
  BY <1>2, <1>3, GoesTo
<1> QED
  BY <1>1, <1>2, <1>4

(* A step that leaves the queue alone keeps what is on record. *)
LEMMA AuthKeeps ==
  ASSUME AuthInv, KeepQueue, saFrozen' = saFrozen,
         NEW h \in SaHosts, saHost' = h,
         NEW c \in SaRuns, saRun' = c,
         NEW rec \in [Activations -> SaReceipts], saReceipt' = rec,
         NEW p \in 0..MaxActivations, saPointer' = p,
         NEW S \in SUBSET Activations, saSent' = S,
         HostFits(h, c), PhaseFits(c), AttemptFitsIn(c, rec, p, S, Kept)
  PROVE  AuthInv'
<1>1. Kept' = Kept
  BY DEF KeepQueue, failVars, Kept
<1>2. FrozenFits(saFrozen, failFiles, failJournal, failLaunch)'
  BY DEF AuthInv, KeepQueue, failVars
<1>3. AuthTyped'
  BY DEF AuthTyped
<1> QED
  BY <1>1, <1>2, <1>3 DEF AuthInv

(* An attempt moves on, before the boundary or after it, or turns back. *)
LEMMA AttemptMoves ==
  ASSUME NEW run \in SaRuns, NEW at \in SaActive, NEW c, MovedTo(c, run, at),
         NEW rec, NEW p, NEW S, NEW K, AttemptFitsIn(run, rec, p, S, K),
         run.at \in SaActive,
         at \in SaBefore => run.at \in SaBefore,
         at \in SaAfter => run.at \in SaAfter
  PROVE  AttemptFitsIn(c, rec, p, S, K)
<1>1. c.at \notin SaSettling /\ c.at \notin {"start", "pointer"}
  BY DEF MovedTo, SaActive, SaBefore, SaAfter, SaUndoing, SaRollback, SaSettling
<1>2. c.at # "settlePass" /\ c.at # "settlePre" /\ c.at # "clear" /\ c.at # "pointer"
  BY <1>1 DEF SaSettling
<1>3. c.a = run.a /\ c.mem = run.mem /\ c.at = at
  BY DEF MovedTo
<1> QED
  BY <1>1, <1>2, <1>3 DEF AttemptFitsIn

(* A host operation of activate: its effect, or a failure with the effect or without. *)
LEMMA OperationStep ==
  ASSUME AuthInv, NEW from \in SaBefore, NEW to \in SaBefore, NEW done \in SaHosts,
         NEW ready \in BOOLEAN, NEW kinds \in SUBSET {"Failed", "Unknown"},
         saRun.at = from,
         \/ ready /\ saHost' = done /\ saRun' = GoTo(to)
         \/ /\ saHost' \in IF ready THEN {saHost, done} ELSE {saHost}
            /\ \E k \in kinds : saRun' = Raised(k, saRun),
         UNCHANGED <<saReceipt, saFrozen, saPointer, saSent>>, KeepQueue,
         from # "preflight", to \notin {"preflight", "gate"},
         to # "gated" => from \notin {"gate", "gated"},
         "Failed" \in kinds => from \notin {"gate", "gated"},
         ready => Served(done),
         ready => \A c : MovedTo(c, saRun, to) => HostFits(done, c)
  PROVE  AuthInv'
<1>t. saRun \in SaRuns /\ saHost \in SaHosts /\ saReceipt \in [Activations -> SaReceipts]
        /\ saPointer \in 0..MaxActivations /\ saSent \in SUBSET Activations
  BY DEF AuthInv, AuthTyped
<1>i. /\ HostFits(saHost, saRun) /\ PhaseFits(saRun)
      /\ AttemptFitsIn(saRun, saReceipt, saPointer, saSent, Kept)
  BY DEF AuthInv
<1>b. SaBefore \subseteq SaActive /\ SaUndoing \subseteq SaActive /\ SaActive \subseteq SaPlaces
        /\ SaUndoing \cap (SaBefore \cup SaAfter) = {} /\ SaBefore \cap SaAfter = {}
  BY DEF SaActive, SaPlaces, SaBefore, SaAfter, SaUndoing, SaRollback
<1>1. CASE ready /\ saHost' = done /\ saRun' = GoTo(to)
  <2>1. PICK c : c = saRun' /\ MovedTo(c, saRun, to)
    BY <1>1, <1>t, <1>b, GoesTo DEF GoTo
  <2>2. HostFits(done, c)
    BY <1>1, <2>1
  <2>3. AttemptFitsIn(c, saReceipt, saPointer, saSent, Kept)
    BY <1>t, <1>i, <1>b, <2>1, AttemptMoves
  <2>4. PhaseFits(c)
    BY <1>i, <2>1 DEF PhaseFits, MovedTo, SaBefore, SaAfter, SaSettling
  <2> QED
    BY <1>1, <1>t, <2>1, <2>2, <2>3, <2>4, AuthKeeps DEF MovedTo
<1>2. CASE /\ saHost' \in IF ready THEN {saHost, done} ELSE {saHost}
           /\ \E k \in kinds : saRun' = Raised(k, saRun)
  <2>1. PICK k \in kinds : saRun' = Raised(k, saRun)
    BY <1>2
  <2>2. PICK at \in {"retain", "rolledBack", "rbGate"} :
           /\ MovedTo(saRun', saRun, at)
           /\ at = "rolledBack" => saRun.phase = "PREFLIGHT" /\ k = "Failed"
           /\ at = "rbGate" => saRun.phase # "PREFLIGHT" /\ k = "Failed"
    BY <1>t, <2>1, RaisesTo
  <2>3. PICK c : c = saRun' /\ MovedTo(c, saRun, at)
    BY <2>2
  <2>4. PICK h \in SaHosts : h = saHost' /\ Served(h)
    BY <1>2, <1>t, <1>i DEF HostFits
  <2>5. at # "rolledBack"
    BY <1>i, <2>2 DEF PhaseFits
  <2>6. at = "rbGate" => SameSite(saRun.pre, SaHost0)
    BY <1>i DEF HostFits
  <2>7. HostFits(h, c)
    BY <2>3, <2>4, <2>5, <2>6
    DEF HostFits, MovedTo, SaBefore, SaGated, SaCopied, SaSplitUp, SaRouted, SaAfter, SaRollback
  <2>8. at \in SaUndoing
    BY DEF SaUndoing, SaRollback
  <2>9. AttemptFitsIn(c, saReceipt, saPointer, saSent, Kept)
    BY <1>t, <1>i, <1>b, <2>3, <2>8, AttemptMoves
  <2>10. PhaseFits(c)
    BY <2>3 DEF PhaseFits, MovedTo, SaBefore, SaAfter, SaSettling
  <2> QED
    BY <1>2, <1>t, <2>3, <2>4, <2>7, <2>9, <2>10, AuthKeeps DEF MovedTo
<1> QED
  BY <1>1, <1>2

(* What the receipt says is written, or not, and the command goes on or fails. *)
LEMMA WritesReceipt ==
  ASSUME NEW a \in Activations, NEW r \in SaReceipts, NEW ok, NEW failed,
         saReceipt \in [Activations -> SaReceipts], WriteReceipt(a, r, ok, failed)
  PROVE  /\ saReceipt' \in [Activations -> SaReceipts]
         /\ \A b \in Activations \ {a} : saReceipt'[b] = saReceipt[b]
         /\ saReceipt'[a] \in {saReceipt[a], r}
         /\ (saRun' = ok /\ saReceipt'[a] = r) \/ saRun' = failed
<1>1. [saReceipt EXCEPT ![a] = r] \in [Activations -> SaReceipts]
  OBVIOUS
<1>2. saReceipt' \in {saReceipt, [saReceipt EXCEPT ![a] = r]}
  BY DEF WriteReceipt
<1>3. CASE saReceipt' = saReceipt
  BY <1>3 DEF WriteReceipt
<1>4. CASE saReceipt' = [saReceipt EXCEPT ![a] = r]
  BY <1>1, <1>4 DEF WriteReceipt
<1> QED
  BY <1>2, <1>3, <1>4

(* The phase is recorded after its operation. *)
LEMMA RecordStep ==
  ASSUME AuthInv, NEW from \in SaBefore, NEW to \in SaBefore,
         NEW phase \in SaPhases \ {"PREFLIGHT"},
         SaRecord(from, phase, to),
         from \notin {"preflight", "gate"}, to \notin {"preflight", "gate", "gated"},
         \A c : c.at = to /\ c.pre = saRun.pre => HostFits(saHost, c)
  PROVE  AuthInv'
<1>t. saRun \in SaRuns /\ saHost \in SaHosts /\ saReceipt \in [Activations -> SaReceipts]
        /\ saPointer \in 0..MaxActivations /\ saSent \in SUBSET Activations
  BY DEF AuthInv, AuthTyped
<1>i. /\ HostFits(saHost, saRun) /\ PhaseFits(saRun)
      /\ AttemptFitsIn(saRun, saReceipt, saPointer, saSent, Kept) /\ saRun.at = from
  BY DEF AuthInv, SaRecord
<1>b. SaBefore \subseteq SaActive /\ SaUndoing \subseteq SaActive /\ SaActive \subseteq SaPlaces
        /\ SaUndoing \cap (SaBefore \cup SaAfter) = {} /\ SaBefore \cap SaAfter = {}
  BY DEF SaActive, SaPlaces, SaBefore, SaAfter, SaUndoing, SaRollback
<1>u. saHost' = saHost /\ saFrozen' = saFrozen /\ saPointer' = saPointer /\ saSent' = saSent /\ KeepQueue
  BY DEF SaRecord
<1>1. PICK r : r = [saRun.mem EXCEPT !.phase = phase]
  OBVIOUS
<1>2. PICK run : run = [saRun EXCEPT !.phase = phase, !.mem = r]
  OBVIOUS
<1>3. /\ r \in SaReceipts /\ r.phase = phase /\ r.exposed = saRun.mem.exposed
      /\ r.notSent = saRun.mem.notSent /\ r.status = saRun.mem.status
  BY <1>t, <1>1 DEF SaRuns, SaReceipts
<1>4. /\ run \in SaRuns /\ run.at = from /\ run.a = saRun.a /\ run.back = saRun.back /\ run.mem = r
      /\ run.phase = phase /\ run.pre = saRun.pre
  BY <1>t, <1>i, <1>2, <1>3 DEF SaRuns
<1>5. saRun.a \in Activations /\ saPointer = saRun.a /\ saRun.a \notin saSent /\ ~saRun.mem.notSent
  BY <1>i, <1>b DEF AttemptFitsIn
<1>6. WriteReceipt(saRun.a, r, [run EXCEPT !.at = to], Raised("Failed", run))
  BY <1>1, <1>2 DEF SaRecord, WriteReceipt
<1>7. /\ saReceipt' \in [Activations -> SaReceipts]
      /\ \A b \in Activations \ {saRun.a} : saReceipt'[b] = saReceipt[b]
      /\ saRun' = [run EXCEPT !.at = to] \/ saRun' = Raised("Failed", run)
  <2>1. PICK a \in Activations : a = saRun.a
    BY <1>5
  <2>2. PICK ok, failed : ok = [run EXCEPT !.at = to] /\ failed = Raised("Failed", run)
    OBVIOUS
  <2>3. WriteReceipt(a, r, ok, failed)
    BY <1>6, <2>1, <2>2 DEF WriteReceipt
  <2> QED
    BY <1>t, <1>3, <2>1, <2>2, <2>3, WritesReceipt
<1>8. PICK rec \in [Activations -> SaReceipts] : rec = saReceipt'
  BY <1>7
<1>9. AttemptFitsIn(run, rec, saPointer, saSent, Kept)
  <2>1. \A b \in saSent : rec[b] = saReceipt[b]
    BY <1>5, <1>7, <1>8, <1>t
  <2>2. from \notin SaSettling /\ from \notin SaAfter /\ from \notin {"start", "pointer", "clear", "settlePass", "settlePre"}
    BY DEF SaBefore, SaSettling, SaAfter
  <2> QED
    BY <1>i, <1>b, <1>3, <1>4, <1>5, <2>1, <2>2 DEF AttemptFitsIn, SentFits, SaPhases
<1>10. CASE saRun' = [run EXCEPT !.at = to]
  <2>1. PICK c : c = saRun' /\ MovedTo(c, run, to)
    BY <1>10, <1>4, <1>b, GoesTo
  <2>2. HostFits(saHost, c)
    BY <1>4, <2>1 DEF MovedTo
  <2>3. AttemptFitsIn(c, rec, saPointer, saSent, Kept)
    BY <1>4, <1>9, <1>b, <2>1, AttemptMoves
  <2>4. PhaseFits(c)
    BY <1>4, <2>1 DEF PhaseFits, MovedTo, SaBefore, SaAfter, SaSettling
  <2> QED
    BY <1>t, <1>u, <1>8, <2>1, <2>2, <2>3, <2>4, AuthKeeps DEF MovedTo
<1>11. CASE saRun' = Raised("Failed", run)
  <2>2. PICK at \in {"retain", "rolledBack", "rbGate"} :
           /\ MovedTo(saRun', run, at)
           /\ at = "rolledBack" => run.phase = "PREFLIGHT"
    BY <1>4, <1>11, RaisesTo
  <2>3. PICK c : c = saRun' /\ MovedTo(c, run, at)
    BY <2>2
  <2>5. at # "rolledBack"
    BY <1>4, <2>2
  <2>6. SameSite(run.pre, SaHost0)
    BY <1>i, <1>4 DEF HostFits
  <2>7. HostFits(saHost, c)
    BY <1>i, <2>3, <2>5, <2>6
    DEF HostFits, MovedTo, SaBefore, SaGated, SaCopied, SaSplitUp, SaRouted, SaAfter, SaRollback
  <2>8. at \in SaUndoing
    BY DEF SaUndoing, SaRollback
  <2>9. AttemptFitsIn(c, rec, saPointer, saSent, Kept)
    BY <1>4, <1>9, <1>b, <2>3, <2>8, AttemptMoves
  <2>10. PhaseFits(c)
    BY <2>3 DEF PhaseFits, MovedTo, SaBefore, SaAfter, SaSettling
  <2> QED
    BY <1>t, <1>u, <1>8, <2>3, <2>7, <2>9, <2>10, AuthKeeps DEF MovedTo
<1> QED
  BY <1>7, <1>10, <1>11

(* A step of the rollback. *)
LEMMA UndoStep ==
  ASSUME AuthInv, NEW from \in SaRollback, NEW to \in SaUndoing, NEW done \in SaHosts,
         saRun.at = from,
         \/ saHost' = done /\ saRun' = GoTo(to)
         \/ saHost' \in {saHost, done} /\ saRun' = GoTo("retain"),
         UNCHANGED <<saReceipt, saFrozen, saPointer, saSent>>, KeepQueue,
         to # "finish",
         Served(done),
         \A c : c.at = to /\ c.pre = saRun.pre => HostFits(done, c)
  PROVE  AuthInv'
<1>t. saRun \in SaRuns /\ saHost \in SaHosts /\ saReceipt \in [Activations -> SaReceipts]
        /\ saPointer \in 0..MaxActivations /\ saSent \in SUBSET Activations
  BY DEF AuthInv, AuthTyped
<1>i. /\ HostFits(saHost, saRun) /\ PhaseFits(saRun)
      /\ AttemptFitsIn(saRun, saReceipt, saPointer, saSent, Kept)
  BY DEF AuthInv
<1>b. SaRollback \subseteq SaActive /\ SaUndoing \subseteq SaActive /\ SaActive \subseteq SaPlaces
        /\ SaUndoing \cap (SaBefore \cup SaAfter) = {} /\ "retain" \in SaUndoing
  BY DEF SaActive, SaPlaces, SaBefore, SaAfter, SaUndoing, SaRollback
<1>1. ASSUME NEW at \in {to, "retain"}, saRun' = GoTo(at), NEW h \in SaHosts, saHost' = h,
             \A c : c.at = at /\ c.pre = saRun.pre => HostFits(h, c)
      PROVE  AuthInv'
  <2>1. PICK c : c = saRun' /\ MovedTo(c, saRun, at)
    BY <1>1, <1>t, <1>b, GoesTo DEF GoTo
  <2>2. HostFits(h, c)
    BY <1>1, <2>1 DEF MovedTo
  <2>3. AttemptFitsIn(c, saReceipt, saPointer, saSent, Kept)
    BY <1>t, <1>i, <1>b, <2>1, AttemptMoves
  <2>4. PhaseFits(c)
    BY <1>b, <2>1 DEF PhaseFits, MovedTo, SaBefore, SaAfter, SaSettling, SaUndoing, SaRollback
  <2> QED
    BY <1>1, <1>t, <2>1, <2>2, <2>3, <2>4, AuthKeeps DEF MovedTo
<1>2. \A h, c : Served(h) /\ c.at = "retain" => HostFits(h, c)
  BY DEF HostFits, SaBefore, SaGated, SaCopied, SaSplitUp, SaRouted, SaAfter, SaRollback
<1>3. Served(saHost)
  BY <1>i DEF HostFits
<1>4. CASE saHost' = done /\ saRun' = GoTo(to)
  BY <1>1, <1>4
<1>5. CASE saHost' \in {saHost, done} /\ saRun' = GoTo("retain")
  BY <1>t, <1>1, <1>2, <1>3, <1>5
<1> QED
  BY <1>4, <1>5

(* The host operations of activate. *)
LEMMA OperationSteps ==
  ASSUME AuthInv,
         \/ GateSite \/ StopCombined \/ ProveNoUnknownEffects \/ CopyState \/ InstallSplit
         \/ StartAuth \/ StartEdge \/ RouteSplit
  PROVE  AuthInv'
<1>t. saRun \in SaRuns /\ saHost \in SaHosts
  BY DEF AuthInv, AuthTyped
<1>i. HostFits(saHost, saRun)
  BY DEF AuthInv
<1>p. {"gate", "gated", "stop", "stopped", "effects", "cleared", "copy", "copied", "install",
       "installed", "startAuth", "authUp", "startEdge", "edgeUp", "route", "routed"} \subseteq SaBefore
  BY DEF SaBefore
<1>1. CASE GateSite
  <2>1. PICK done : done = [saHost EXCEPT !.gate = TRUE]
    OBVIOUS
  <2>2. /\ done \in SaHosts /\ done.gate = TRUE
        /\ done.combined = saHost.combined /\ done.auth = saHost.auth /\ done.edge = saHost.edge /\ done.split = saHost.split /\ done.boot = saHost.boot /\ done.grants = saHost.grants /\ done.migrated = saHost.migrated
    BY <1>t, <2>1 DEF SaHosts
  <2>3. PICK ready \in BOOLEAN, kinds \in SUBSET {"Failed", "Unknown"} :
          (ready <=> TRUE) /\ kinds = {"Unknown"}
    OBVIOUS
  <2>4. /\ saRun.at = "gate"
        /\ \/ ready /\ saHost' = done /\ saRun' = GoTo("gated")
           \/ /\ saHost' \in IF ready THEN {saHost, done} ELSE {saHost}
              /\ \E k \in kinds : saRun' = Raised(k, saRun)
        /\ UNCHANGED <<saReceipt, saFrozen, saPointer, saSent>> /\ KeepQueue
    BY <1>1, <2>1, <2>3 DEF GateSite, SaOperation
  <2>5. ready => Served(done)
    BY <1>i, <2>2, <2>3, <2>4 DEF HostFits, Served, SaHost0, SameSite, SaGated, SaBefore
  <2>6. ASSUME ready, NEW c, MovedTo(c, saRun, "gated") PROVE HostFits(done, c)
    <3>1. c.at = "gated" /\ c.pre = saRun.pre
      BY <2>6 DEF MovedTo
    <3> QED
      BY <1>i, <2>2, <2>3, <2>4, <2>5, <2>6, <3>1
      DEF HostFits, SaBefore, SaGated, SaCopied, SaSplitUp, SaRouted, SaAfter, SaRollback
  <2>7. "Failed" \in kinds => "gate" \notin {"gate", "gated"}
    BY <2>3
  <2>8. /\ "gate" \in SaBefore /\ "gated" \in SaBefore /\ "gate" # "preflight"
        /\ "gated" \notin {"preflight", "gate"}
        /\ "gated" # "gated" => "gate" \notin {"gate", "gated"}
    BY <1>p
  <2> QED
    BY <2>2, <2>4, <2>5, <2>6, <2>7, <2>8, OperationStep
<1>2. CASE StopCombined
  <2>1. PICK done : done = [saHost EXCEPT !.combined = FALSE]
    OBVIOUS
  <2>2. /\ done \in SaHosts /\ done.combined = FALSE
        /\ done.gate = saHost.gate /\ done.auth = saHost.auth /\ done.edge = saHost.edge /\ done.split = saHost.split /\ done.boot = saHost.boot /\ done.grants = saHost.grants /\ done.migrated = saHost.migrated
    BY <1>t, <2>1 DEF SaHosts
  <2>3. PICK ready \in BOOLEAN, kinds \in SUBSET {"Failed", "Unknown"} :
          (ready <=> SaPublicGated) /\ kinds = {"Unknown"}
    OBVIOUS
  <2>4. /\ saRun.at = "stop"
        /\ \/ ready /\ saHost' = done /\ saRun' = GoTo("stopped")
           \/ /\ saHost' \in IF ready THEN {saHost, done} ELSE {saHost}
              /\ \E k \in kinds : saRun' = Raised(k, saRun)
        /\ UNCHANGED <<saReceipt, saFrozen, saPointer, saSent>> /\ KeepQueue
    BY <1>2, <2>1, <2>3 DEF StopCombined, SaOperation
  <2>5. ready => Served(done)
    BY <1>i, <2>2, <2>3, <2>4 DEF HostFits, Served, SaHost0, SameSite, SaGated, SaBefore, SaPublicGated
  <2>6. ASSUME ready, NEW c, MovedTo(c, saRun, "stopped") PROVE HostFits(done, c)
    <3>1. c.at = "stopped" /\ c.pre = saRun.pre
      BY <2>6 DEF MovedTo
    <3> QED
      BY <1>i, <2>2, <2>3, <2>4, <2>5, <2>6, <3>1
      DEF HostFits, SaBefore, SaGated, SaCopied, SaSplitUp, SaRouted, SaAfter, SaRollback, SaPublicGated
  <2>7. "Failed" \in kinds => "stop" \notin {"gate", "gated"}
    BY <2>3
  <2>8. /\ "stop" \in SaBefore /\ "stopped" \in SaBefore /\ "stop" # "preflight"
        /\ "stopped" \notin {"preflight", "gate"}
        /\ "stopped" # "gated" => "stop" \notin {"gate", "gated"}
    BY <1>p
  <2> QED
    BY <2>2, <2>4, <2>5, <2>6, <2>7, <2>8, OperationStep
<1>3. CASE ProveNoUnknownEffects
  <2>1. PICK done : done = saHost
    OBVIOUS
  <2>2. done \in SaHosts /\ done = saHost
    BY <1>t, <2>1
  <2>3. PICK ready \in BOOLEAN, kinds \in SUBSET {"Failed", "Unknown"} :
          (ready <=> TRUE) /\ kinds = {"Failed", "Unknown"}
    OBVIOUS
  <2>4. /\ saRun.at = "effects"
        /\ \/ ready /\ saHost' = done /\ saRun' = GoTo("cleared")
           \/ /\ saHost' \in IF ready THEN {saHost, done} ELSE {saHost}
              /\ \E k \in kinds : saRun' = Raised(k, saRun)
        /\ UNCHANGED <<saReceipt, saFrozen, saPointer, saSent>> /\ KeepQueue
    BY <1>3, <2>1, <2>3 DEF ProveNoUnknownEffects, SaOperation
  <2>5. ready => Served(done)
    BY <1>i, <2>2, <2>3, <2>4 DEF HostFits, Served, SaHost0, SameSite, SaGated, SaBefore
  <2>6. ASSUME ready, NEW c, MovedTo(c, saRun, "cleared") PROVE HostFits(done, c)
    <3>1. c.at = "cleared" /\ c.pre = saRun.pre
      BY <2>6 DEF MovedTo
    <3> QED
      BY <1>i, <2>2, <2>3, <2>4, <2>5, <2>6, <3>1
      DEF HostFits, SaBefore, SaGated, SaCopied, SaSplitUp, SaRouted, SaAfter, SaRollback
  <2>7. "Failed" \in kinds => "effects" \notin {"gate", "gated"}
    BY <2>3
  <2>8. /\ "effects" \in SaBefore /\ "cleared" \in SaBefore /\ "effects" # "preflight"
        /\ "cleared" \notin {"preflight", "gate"}
        /\ "cleared" # "gated" => "effects" \notin {"gate", "gated"}
    BY <1>p
  <2> QED
    BY <2>2, <2>4, <2>5, <2>6, <2>7, <2>8, OperationStep
<1>4. CASE CopyState
  <2>1. PICK done : done = [saHost EXCEPT !.migrated = saHost.grants]
    OBVIOUS
  <2>2. /\ done \in SaHosts /\ done.migrated = saHost.grants
        /\ done.gate = saHost.gate /\ done.combined = saHost.combined /\ done.auth = saHost.auth /\ done.edge = saHost.edge /\ done.split = saHost.split /\ done.boot = saHost.boot /\ done.grants = saHost.grants
    BY <1>t, <2>1 DEF SaHosts
  <2>3. PICK ready \in BOOLEAN, kinds \in SUBSET {"Failed", "Unknown"} :
          (ready <=> WritersStopped) /\ kinds = {"Failed"}
    OBVIOUS
  <2>4. /\ saRun.at = "copy"
        /\ \/ ready /\ saHost' = done /\ saRun' = GoTo("copied")
           \/ /\ saHost' \in IF ready THEN {saHost, done} ELSE {saHost}
              /\ \E k \in kinds : saRun' = Raised(k, saRun)
        /\ UNCHANGED <<saReceipt, saFrozen, saPointer, saSent>> /\ KeepQueue
    BY <1>4, <2>1, <2>3 DEF CopyState, SaOperation
  <2>5. ready => Served(done)
    BY <1>i, <2>2, <2>3, <2>4 DEF HostFits, Served, SaHost0, SameSite, SaGated, SaBefore, WritersStopped
  <2>6. ASSUME ready, NEW c, MovedTo(c, saRun, "copied") PROVE HostFits(done, c)
    <3>1. c.at = "copied" /\ c.pre = saRun.pre
      BY <2>6 DEF MovedTo
    <3> QED
      BY <1>i, <2>2, <2>3, <2>4, <2>5, <2>6, <3>1
      DEF HostFits, SaBefore, SaGated, SaCopied, SaSplitUp, SaRouted, SaAfter, SaRollback, WritersStopped
  <2>7. "Failed" \in kinds => "copy" \notin {"gate", "gated"}
    BY <2>3
  <2>8. /\ "copy" \in SaBefore /\ "copied" \in SaBefore /\ "copy" # "preflight"
        /\ "copied" \notin {"preflight", "gate"}
        /\ "copied" # "gated" => "copy" \notin {"gate", "gated"}
    BY <1>p
  <2> QED
    BY <2>2, <2>4, <2>5, <2>6, <2>7, <2>8, OperationStep
<1>5. CASE InstallSplit
  <2>1. PICK done : done = [saHost EXCEPT !.boot = "split"]
    OBVIOUS
  <2>2. /\ done \in SaHosts /\ done.boot = "split"
        /\ done.gate = saHost.gate /\ done.combined = saHost.combined /\ done.auth = saHost.auth /\ done.edge = saHost.edge /\ done.split = saHost.split /\ done.grants = saHost.grants /\ done.migrated = saHost.migrated
    BY <1>t, <2>1 DEF SaHosts
  <2>3. PICK ready \in BOOLEAN, kinds \in SUBSET {"Failed", "Unknown"} :
          (ready <=> TRUE) /\ kinds = {"Failed", "Unknown"}
    OBVIOUS
  <2>4. /\ saRun.at = "install"
        /\ \/ ready /\ saHost' = done /\ saRun' = GoTo("installed")
           \/ /\ saHost' \in IF ready THEN {saHost, done} ELSE {saHost}
              /\ \E k \in kinds : saRun' = Raised(k, saRun)
        /\ UNCHANGED <<saReceipt, saFrozen, saPointer, saSent>> /\ KeepQueue
    BY <1>5, <2>1, <2>3 DEF InstallSplit, SaOperation
  <2>5. ready => Served(done)
    BY <1>i, <2>2, <2>3, <2>4 DEF HostFits, Served, SaHost0, SameSite, SaGated, SaBefore
  <2>6. ASSUME ready, NEW c, MovedTo(c, saRun, "installed") PROVE HostFits(done, c)
    <3>1. c.at = "installed" /\ c.pre = saRun.pre
      BY <2>6 DEF MovedTo
    <3> QED
      BY <1>i, <2>2, <2>3, <2>4, <2>5, <2>6, <3>1
      DEF HostFits, SaBefore, SaGated, SaCopied, SaSplitUp, SaRouted, SaAfter, SaRollback
  <2>7. "Failed" \in kinds => "install" \notin {"gate", "gated"}
    BY <2>3
  <2>8. /\ "install" \in SaBefore /\ "installed" \in SaBefore /\ "install" # "preflight"
        /\ "installed" \notin {"preflight", "gate"}
        /\ "installed" # "gated" => "install" \notin {"gate", "gated"}
    BY <1>p
  <2> QED
    BY <2>2, <2>4, <2>5, <2>6, <2>7, <2>8, OperationStep
<1>6. CASE StartAuth
  <2>1. PICK done : done = [saHost EXCEPT !.auth = TRUE]
    OBVIOUS
  <2>2. /\ done \in SaHosts /\ done.auth = TRUE
        /\ done.gate = saHost.gate /\ done.combined = saHost.combined /\ done.edge = saHost.edge /\ done.split = saHost.split /\ done.boot = saHost.boot /\ done.grants = saHost.grants /\ done.migrated = saHost.migrated
    BY <1>t, <2>1 DEF SaHosts
  <2>3. PICK ready \in BOOLEAN, kinds \in SUBSET {"Failed", "Unknown"} :
          (ready <=> TRUE) /\ kinds = {"Failed", "Unknown"}
    OBVIOUS
  <2>4. /\ saRun.at = "startAuth"
        /\ \/ ready /\ saHost' = done /\ saRun' = GoTo("authUp")
           \/ /\ saHost' \in IF ready THEN {saHost, done} ELSE {saHost}
              /\ \E k \in kinds : saRun' = Raised(k, saRun)
        /\ UNCHANGED <<saReceipt, saFrozen, saPointer, saSent>> /\ KeepQueue
    BY <1>6, <2>1, <2>3 DEF StartAuth, SaOperation
  <2>5. ready => Served(done)
    BY <1>i, <2>2, <2>3, <2>4 DEF HostFits, Served, SaHost0, SameSite, SaGated, SaBefore
  <2>6. ASSUME ready, NEW c, MovedTo(c, saRun, "authUp") PROVE HostFits(done, c)
    <3>1. c.at = "authUp" /\ c.pre = saRun.pre
      BY <2>6 DEF MovedTo
    <3> QED
      BY <1>i, <2>2, <2>3, <2>4, <2>5, <2>6, <3>1
      DEF HostFits, SaBefore, SaGated, SaCopied, SaSplitUp, SaRouted, SaAfter, SaRollback
  <2>7. "Failed" \in kinds => "startAuth" \notin {"gate", "gated"}
    BY <2>3
  <2>8. /\ "startAuth" \in SaBefore /\ "authUp" \in SaBefore /\ "startAuth" # "preflight"
        /\ "authUp" \notin {"preflight", "gate"}
        /\ "authUp" # "gated" => "startAuth" \notin {"gate", "gated"}
    BY <1>p
  <2> QED
    BY <2>2, <2>4, <2>5, <2>6, <2>7, <2>8, OperationStep
<1>7. CASE StartEdge
  <2>1. PICK done : done = [saHost EXCEPT !.edge = TRUE]
    OBVIOUS
  <2>2. /\ done \in SaHosts /\ done.edge = TRUE
        /\ done.gate = saHost.gate /\ done.combined = saHost.combined /\ done.auth = saHost.auth /\ done.split = saHost.split /\ done.boot = saHost.boot /\ done.grants = saHost.grants /\ done.migrated = saHost.migrated
    BY <1>t, <2>1 DEF SaHosts
  <2>3. PICK ready \in BOOLEAN, kinds \in SUBSET {"Failed", "Unknown"} :
          (ready <=> AuthReady) /\ kinds = {"Failed", "Unknown"}
    OBVIOUS
  <2>4. /\ saRun.at = "startEdge"
        /\ \/ ready /\ saHost' = done /\ saRun' = GoTo("edgeUp")
           \/ /\ saHost' \in IF ready THEN {saHost, done} ELSE {saHost}
              /\ \E k \in kinds : saRun' = Raised(k, saRun)
        /\ UNCHANGED <<saReceipt, saFrozen, saPointer, saSent>> /\ KeepQueue
    BY <1>7, <2>1, <2>3 DEF StartEdge, SaOperation
  <2>5. ready => Served(done)
    BY <1>i, <2>2, <2>3, <2>4 DEF HostFits, Served, SaHost0, SameSite, SaGated, SaBefore, AuthReady
  <2>6. ASSUME ready, NEW c, MovedTo(c, saRun, "edgeUp") PROVE HostFits(done, c)
    <3>1. c.at = "edgeUp" /\ c.pre = saRun.pre
      BY <2>6 DEF MovedTo
    <3> QED
      BY <1>i, <2>2, <2>3, <2>4, <2>5, <2>6, <3>1
      DEF HostFits, SaBefore, SaGated, SaCopied, SaSplitUp, SaRouted, SaAfter, SaRollback, AuthReady
  <2>7. "Failed" \in kinds => "startEdge" \notin {"gate", "gated"}
    BY <2>3
  <2>8. /\ "startEdge" \in SaBefore /\ "edgeUp" \in SaBefore /\ "startEdge" # "preflight"
        /\ "edgeUp" \notin {"preflight", "gate"}
        /\ "edgeUp" # "gated" => "startEdge" \notin {"gate", "gated"}
    BY <1>p
  <2> QED
    BY <2>2, <2>4, <2>5, <2>6, <2>7, <2>8, OperationStep
<1>8. CASE RouteSplit
  <2>a. CASE saHost.split = 1..SaProxies
    <3>1. PICK done : done = saHost
      OBVIOUS
    <3>2. PICK ready \in BOOLEAN : ready = TRUE
      OBVIOUS
    <3>3. PICK kinds \in SUBSET {"Failed", "Unknown"} : kinds = {}
      OBVIOUS
    <3>4. /\ saRun.at = "route"
          /\ \/ ready /\ saHost' = done /\ saRun' = GoTo("routed")
             \/ /\ saHost' \in IF ready THEN {saHost, done} ELSE {saHost}
                /\ \E k \in kinds : saRun' = Raised(k, saRun)
          /\ UNCHANGED <<saReceipt, saFrozen, saPointer, saSent>> /\ KeepQueue
      BY <1>8, <2>a, <3>1, <3>2, <3>3 DEF RouteSplit, SaOperation
    <3>5. Served(done)
      BY <1>i, <3>1 DEF HostFits
    <3>6. \A c : MovedTo(c, saRun, "routed") => HostFits(done, c)
      BY <1>i, <2>a, <3>1, <3>4, <3>5
      DEF HostFits, MovedTo, SaBefore, SaGated, SaCopied, SaSplitUp, SaRouted,
          SaAfter, SaRollback
    <3>7. done \in SaHosts
      BY <1>t, <3>1
    <3>8. /\ "route" \in SaBefore /\ "routed" \in SaBefore /\ "route" # "preflight"
          /\ "routed" \notin {"preflight", "gate"} /\ "route" \notin {"gate", "gated"}
      BY <1>p
    <3>9. ready => (Served(done) /\ \A c : MovedTo(c, saRun, "routed") => HostFits(done, c))
      BY <3>5, <3>6
    <3> QED
      BY <3>4, <3>7, <3>8, <3>9, OperationStep
  <2>b. CASE saHost.split # 1..SaProxies
    <3>1. PICK S : S = saHost.split \cup {NextProxy(1..SaProxies \ saHost.split)}
      OBVIOUS
    <3>2. S \in SUBSET (1..SaProxies)
      <4>1. saHost.split \subseteq 1..SaProxies
        BY <1>t DEF SaHosts
      <4>2. PICK left : left = 1..SaProxies \ saHost.split
        OBVIOUS
      <4>3. left \in SUBSET Nat
        BY <4>2
      <4>5. left # {}
        BY <2>b, <4>1, <4>2
      <4>4. NextProxy(left) \in left
        BY <4>3, <4>5, NextProxyIsLeft
      <4> QED
        BY <3>1, <4>1, <4>2, <4>4
    <3>3. PICK done : done = [saHost EXCEPT !.split = S]
      OBVIOUS
    <3>4. /\ done \in SaHosts /\ done.split = S
          /\ done.gate = saHost.gate /\ done.combined = saHost.combined /\ done.auth = saHost.auth /\ done.edge = saHost.edge /\ done.boot = saHost.boot /\ done.grants = saHost.grants /\ done.migrated = saHost.migrated
      BY <1>t, <3>2, <3>3 DEF SaHosts
    <3>5. PICK ready \in BOOLEAN, kinds \in SUBSET {"Failed", "Unknown"} :
            (ready <=> EdgeReady) /\ kinds = {"Failed", "Unknown"}
      OBVIOUS
    <3>6. /\ saRun.at = "route"
          /\ \/ ready /\ saHost' = done /\ saRun' = GoTo("route")
             \/ /\ saHost' \in IF ready THEN {saHost, done} ELSE {saHost}
                /\ \E k \in kinds : saRun' = Raised(k, saRun)
          /\ UNCHANGED <<saReceipt, saFrozen, saPointer, saSent>> /\ KeepQueue
      BY <1>8, <2>b, <3>1, <3>3, <3>5 DEF RouteSplit, SaOperation
    <3>7. Served(done)
      BY <1>i, <3>4, <3>6 DEF HostFits, Served, SaGated, SaBefore
    <3>8. \A c : MovedTo(c, saRun, "route") => HostFits(done, c)
      BY <1>i, <3>4, <3>6, <3>7
      DEF HostFits, MovedTo, SaBefore, SaGated, SaCopied, SaSplitUp, SaRouted,
          SaAfter, SaRollback
    <3>9. "route" \in SaBefore /\ "route" \notin {"preflight", "gate", "gated"}
      BY <1>p
    <3>10. ready => (Served(done) /\ \A c : MovedTo(c, saRun, "route") => HostFits(done, c))
      BY <3>7, <3>8
    <3> QED
      BY <3>4, <3>6, <3>9, <3>10, OperationStep
  <2> QED
    BY <2>a, <2>b
<1> QED
  BY <1>1, <1>2, <1>3, <1>4, <1>5, <1>6, <1>7, <1>8

(* The records of activate's phases. *)
LEMMA RecordSteps ==
  ASSUME AuthInv,
         \/ GateRecorded \/ StopRecorded \/ EffectsRecorded \/ CopyRecorded \/ InstallRecorded
         \/ AuthRecorded \/ EdgeRecorded \/ RouteRecorded
  PROVE  AuthInv'
<1>i. HostFits(saHost, saRun)
  BY DEF AuthInv
<1>1. CASE GateRecorded
  <2>1. SaRecord("gated", "GATED", "stop")
    BY <1>1 DEF GateRecorded
  <2>2. saRun.at = "gated"
    BY <2>1 DEF SaRecord
  <2>3. \A c : c.at = "stop" /\ c.pre = saRun.pre => HostFits(saHost, c)
    BY <1>i, <2>2
    DEF HostFits, SaBefore, SaGated, SaCopied, SaSplitUp, SaRouted, SaAfter, SaRollback
  <2>4. "gated" \in SaBefore /\ "stop" \in SaBefore /\ "GATED" \in SaPhases \ {"PREFLIGHT"}
    BY DEF SaBefore, SaPhases
  <2> QED
    BY <2>1, <2>3, <2>4, RecordStep
<1>2. CASE StopRecorded
  <2>1. SaRecord("stopped", "STOPPED", "effects")
    BY <1>2 DEF StopRecorded
  <2>2. saRun.at = "stopped"
    BY <2>1 DEF SaRecord
  <2>3. \A c : c.at = "effects" /\ c.pre = saRun.pre => HostFits(saHost, c)
    BY <1>i, <2>2
    DEF HostFits, SaBefore, SaGated, SaCopied, SaSplitUp, SaRouted, SaAfter, SaRollback
  <2>4. "stopped" \in SaBefore /\ "effects" \in SaBefore /\ "STOPPED" \in SaPhases \ {"PREFLIGHT"}
    BY DEF SaBefore, SaPhases
  <2> QED
    BY <2>1, <2>3, <2>4, RecordStep
<1>3. CASE EffectsRecorded
  <2>1. SaRecord("cleared", "EFFECTS_CLEAR", "copy")
    BY <1>3 DEF EffectsRecorded
  <2>2. saRun.at = "cleared"
    BY <2>1 DEF SaRecord
  <2>3. \A c : c.at = "copy" /\ c.pre = saRun.pre => HostFits(saHost, c)
    BY <1>i, <2>2
    DEF HostFits, SaBefore, SaGated, SaCopied, SaSplitUp, SaRouted, SaAfter, SaRollback
  <2>4. "cleared" \in SaBefore /\ "copy" \in SaBefore /\ "EFFECTS_CLEAR" \in SaPhases \ {"PREFLIGHT"}
    BY DEF SaBefore, SaPhases
  <2> QED
    BY <2>1, <2>3, <2>4, RecordStep
<1>4. CASE CopyRecorded
  <2>1. SaRecord("copied", "STATE_COPIED", "install")
    BY <1>4 DEF CopyRecorded
  <2>2. saRun.at = "copied"
    BY <2>1 DEF SaRecord
  <2>3. \A c : c.at = "install" /\ c.pre = saRun.pre => HostFits(saHost, c)
    BY <1>i, <2>2
    DEF HostFits, SaBefore, SaGated, SaCopied, SaSplitUp, SaRouted, SaAfter, SaRollback
  <2>4. "copied" \in SaBefore /\ "install" \in SaBefore /\ "STATE_COPIED" \in SaPhases \ {"PREFLIGHT"}
    BY DEF SaBefore, SaPhases
  <2> QED
    BY <2>1, <2>3, <2>4, RecordStep
<1>5. CASE InstallRecorded
  <2>1. SaRecord("installed", "SPLIT_INSTALLED", "startAuth")
    BY <1>5 DEF InstallRecorded
  <2>2. saRun.at = "installed"
    BY <2>1 DEF SaRecord
  <2>3. \A c : c.at = "startAuth" /\ c.pre = saRun.pre => HostFits(saHost, c)
    BY <1>i, <2>2
    DEF HostFits, SaBefore, SaGated, SaCopied, SaSplitUp, SaRouted, SaAfter, SaRollback
  <2>4. "installed" \in SaBefore /\ "startAuth" \in SaBefore /\ "SPLIT_INSTALLED" \in SaPhases \ {"PREFLIGHT"}
    BY DEF SaBefore, SaPhases
  <2> QED
    BY <2>1, <2>3, <2>4, RecordStep
<1>6. CASE AuthRecorded
  <2>1. SaRecord("authUp", "AUTH_STARTED", "startEdge")
    BY <1>6 DEF AuthRecorded
  <2>2. saRun.at = "authUp"
    BY <2>1 DEF SaRecord
  <2>3. \A c : c.at = "startEdge" /\ c.pre = saRun.pre => HostFits(saHost, c)
    BY <1>i, <2>2
    DEF HostFits, SaBefore, SaGated, SaCopied, SaSplitUp, SaRouted, SaAfter, SaRollback
  <2>4. "authUp" \in SaBefore /\ "startEdge" \in SaBefore /\ "AUTH_STARTED" \in SaPhases \ {"PREFLIGHT"}
    BY DEF SaBefore, SaPhases
  <2> QED
    BY <2>1, <2>3, <2>4, RecordStep
<1>7. CASE EdgeRecorded
  <2>1. SaRecord("edgeUp", "EDGE_STARTED", "route")
    BY <1>7 DEF EdgeRecorded
  <2>2. saRun.at = "edgeUp"
    BY <2>1 DEF SaRecord
  <2>3. \A c : c.at = "route" /\ c.pre = saRun.pre => HostFits(saHost, c)
    BY <1>i, <2>2
    DEF HostFits, SaBefore, SaGated, SaCopied, SaSplitUp, SaRouted, SaAfter, SaRollback
  <2>4. "edgeUp" \in SaBefore /\ "route" \in SaBefore /\ "EDGE_STARTED" \in SaPhases \ {"PREFLIGHT"}
    BY DEF SaBefore, SaPhases
  <2> QED
    BY <2>1, <2>3, <2>4, RecordStep
<1>8. CASE RouteRecorded
  <2>1. SaRecord("routed", "SPLIT_ROUTED", "boundary")
    BY <1>8 DEF RouteRecorded
  <2>2. saRun.at = "routed"
    BY <2>1 DEF SaRecord
  <2>3. \A c : c.at = "boundary" /\ c.pre = saRun.pre => HostFits(saHost, c)
    BY <1>i, <2>2
    DEF HostFits, SaBefore, SaGated, SaCopied, SaSplitUp, SaRouted, SaAfter, SaRollback
  <2>4. "routed" \in SaBefore /\ "boundary" \in SaBefore /\ "SPLIT_ROUTED" \in SaPhases \ {"PREFLIGHT"}
    BY DEF SaBefore, SaPhases
  <2> QED
    BY <2>1, <2>3, <2>4, RecordStep
<1> QED
  BY <1>1, <1>2, <1>3, <1>4, <1>5, <1>6, <1>7, <1>8

(* The steps of the rollback. *)
LEMMA RollbackSteps ==
  ASSUME AuthInv,
         \/ RollbackGate \/ RollbackStop \/ RollbackRoutes \/ RollbackBoot \/ RollbackStart
         \/ RollbackUngate \/ RollbackPublic
  PROVE  AuthInv'
<1>t. saRun \in SaRuns /\ saHost \in SaHosts
  BY DEF AuthInv, AuthTyped
<1>i. HostFits(saHost, saRun)
  BY DEF AuthInv
<1>p. SaRollback \subseteq SaUndoing /\ "rolledBack" \in SaUndoing
      /\ SaRollback = {"rbGate", "rbStop", "rbRoutes", "rbBoot", "rbStart", "rbUngate", "rbPublic"}
  BY DEF SaUndoing, SaRollback
<1>k. \A h, c : c.at = "retain" /\ Served(h) => HostFits(h, c)
  BY DEF HostFits, SaBefore, SaGated, SaCopied, SaSplitUp, SaRouted, SaAfter, SaRollback
<1>1. CASE RollbackGate
  <2>a. CASE saHost.gate
    <3>1. PICK done : done = saHost
      OBVIOUS
    <3>2. done \in SaHosts /\ done = saHost
      BY <1>t, <3>1
    <3>3. /\ saRun.at = "rbGate"
          /\ \/ saHost' = done /\ saRun' = GoTo("rbStop")
             \/ saHost' \in {saHost, done} /\ saRun' = GoTo("retain")
          /\ UNCHANGED <<saReceipt, saFrozen, saPointer, saSent>> /\ KeepQueue
      BY <1>1, <2>a, <3>1 DEF RollbackGate, SaUndo
    <3>4. Served(done)
      BY <1>i, <3>2, <3>3 DEF HostFits, Served
    <3>5. ASSUME NEW c, c.at = "rbStop", c.pre = saRun.pre PROVE HostFits(done, c)
      BY <1>i, <3>2, <3>3, <3>4, <3>5, <2>a
      DEF HostFits, SaBefore, SaGated, SaCopied, SaSplitUp, SaRouted, SaAfter, SaRollback, SameSite, SaHost0
    <3>6. "rbGate" \in SaRollback /\ "rbStop" \in SaUndoing /\ "rbStop" # "finish"
      BY <1>p
    <3> QED
      BY <3>2, <3>3, <3>4, <3>5, <3>6, UndoStep
  <2>b. CASE ~saHost.gate
    <3>1. PICK done : done = saHost
      OBVIOUS
    <3>2. /\ saRun.at = "rbGate" /\ saHost' \in {saHost, done} /\ saRun' = GoTo("retain")
          /\ UNCHANGED <<saReceipt, saFrozen, saPointer, saSent>> /\ KeepQueue
      BY <1>1, <2>b, <3>1 DEF RollbackGate
    <3>3. done \in SaHosts /\ Served(done)
      BY <1>t, <1>i, <3>1 DEF HostFits
    <3>4. "rbGate" \in SaRollback /\ "retain" \in SaUndoing
      BY <1>p DEF SaUndoing
    <3>5. \A c : c.at = "retain" /\ c.pre = saRun.pre => HostFits(done, c)
      BY <1>k, <3>3
    <3> QED
      BY <3>2, <3>3, <3>4, <3>5, UndoStep
  <2> QED
    BY <2>a, <2>b
<1>2. CASE RollbackStop
  <2>1. PICK done : done = [saHost EXCEPT !.edge = FALSE, !.auth = FALSE]
    OBVIOUS
  <2>2. /\ done \in SaHosts /\ done.edge = FALSE /\ done.auth = FALSE
        /\ done.gate = saHost.gate /\ done.combined = saHost.combined /\ done.split = saHost.split
        /\ done.boot = saHost.boot /\ done.grants = saHost.grants /\ done.migrated = saHost.migrated
    BY <1>t, <2>1 DEF SaHosts
  <2>3. /\ saRun.at = "rbStop"
        /\ \/ saHost' = done /\ saRun' = GoTo("rbRoutes")
           \/ saHost' \in {saHost, done} /\ saRun' = GoTo("retain")
        /\ UNCHANGED <<saReceipt, saFrozen, saPointer, saSent>> /\ KeepQueue
    BY <1>2, <2>1 DEF RollbackStop, SaUndo
  <2>4. Served(done)
    BY <1>i, <2>2, <2>3 DEF HostFits, Served
  <2>5. ASSUME NEW c, c.at = "rbRoutes", c.pre = saRun.pre PROVE HostFits(done, c)
    BY <1>i, <2>2, <2>3, <2>4, <2>5
    DEF HostFits, SaBefore, SaGated, SaCopied, SaSplitUp, SaRouted, SaAfter, SaRollback, SameSite, SaHost0
  <2>6. "rbStop" \in SaRollback /\ "rbRoutes" \in SaUndoing /\ "rbRoutes" # "finish"
    BY <1>p
  <2> QED
    BY <2>2, <2>3, <2>4, <2>5, <2>6, UndoStep
<1>3. CASE RollbackRoutes
  <2>a. CASE saHost.split = {}
    <3>1. PICK done : done = saHost
      OBVIOUS
    <3>2. done \in SaHosts /\ done = saHost
      BY <1>t, <3>1
    <3>3. /\ saRun.at = "rbRoutes"
          /\ \/ saHost' = done /\ saRun' = GoTo("rbBoot")
             \/ saHost' \in {saHost, done} /\ saRun' = GoTo("retain")
          /\ UNCHANGED <<saReceipt, saFrozen, saPointer, saSent>> /\ KeepQueue
      BY <1>3, <2>a, <3>1 DEF RollbackRoutes, SaUndo
    <3>4. Served(done)
      BY <1>i, <3>2, <3>3 DEF HostFits, Served
    <3>5. ASSUME NEW c, c.at = "rbBoot", c.pre = saRun.pre PROVE HostFits(done, c)
      BY <1>i, <3>2, <3>3, <3>4, <3>5, <2>a
      DEF HostFits, SaBefore, SaGated, SaCopied, SaSplitUp, SaRouted, SaAfter, SaRollback, SameSite, SaHost0
    <3>6. "rbRoutes" \in SaRollback /\ "rbBoot" \in SaUndoing /\ "rbBoot" # "finish"
      BY <1>p
    <3> QED
      BY <3>2, <3>3, <3>4, <3>5, <3>6, UndoStep
  <2>b. CASE saHost.split # {}
    <3>p. PICK S : S = saHost.split \ {NextProxy(saHost.split)}
      OBVIOUS
    <3>s. S \in SUBSET (1..SaProxies)
      BY <1>t, <3>p DEF SaHosts
    <3>1. PICK done : done = [saHost EXCEPT !.split = S]
      OBVIOUS
    <3>2. /\ done \in SaHosts /\ done.split = S
          /\ done.gate = saHost.gate /\ done.combined = saHost.combined /\ done.auth = saHost.auth
          /\ done.edge = saHost.edge /\ done.boot = saHost.boot /\ done.grants = saHost.grants /\ done.migrated = saHost.migrated
      BY <1>t, <3>1, <3>s DEF SaHosts
    <3>3. /\ saRun.at = "rbRoutes"
          /\ \/ saHost' = done /\ saRun' = GoTo("rbRoutes")
             \/ saHost' \in {saHost, done} /\ saRun' = GoTo("retain")
          /\ UNCHANGED <<saReceipt, saFrozen, saPointer, saSent>> /\ KeepQueue
      BY <1>3, <2>b, <3>p, <3>1 DEF RollbackRoutes, SaUndo
    <3>4. Served(done)
      BY <1>i, <3>2, <3>3 DEF HostFits, Served
    <3>5. ASSUME NEW c, c.at = "rbRoutes", c.pre = saRun.pre PROVE HostFits(done, c)
      BY <1>i, <3>2, <3>3, <3>4, <3>5
      DEF HostFits, SaBefore, SaGated, SaCopied, SaSplitUp, SaRouted, SaAfter, SaRollback, SameSite, SaHost0
    <3>6. "rbRoutes" \in SaRollback /\ "rbRoutes" \in SaUndoing /\ "rbRoutes" # "finish"
      BY <1>p
    <3> QED
      BY <3>2, <3>3, <3>4, <3>5, <3>6, UndoStep
  <2> QED
    BY <2>a, <2>b
<1>4. CASE RollbackBoot
  <2>1. PICK done : done = [saHost EXCEPT !.boot = "combined"]
    OBVIOUS
  <2>2. /\ done \in SaHosts /\ done.boot = "combined"
        /\ done.gate = saHost.gate /\ done.combined = saHost.combined /\ done.auth = saHost.auth
        /\ done.edge = saHost.edge /\ done.split = saHost.split /\ done.grants = saHost.grants /\ done.migrated = saHost.migrated
    BY <1>t, <2>1 DEF SaHosts
  <2>3. /\ saRun.at = "rbBoot"
        /\ \/ saHost' = done /\ saRun' = GoTo("rbStart")
           \/ saHost' \in {saHost, done} /\ saRun' = GoTo("retain")
        /\ UNCHANGED <<saReceipt, saFrozen, saPointer, saSent>> /\ KeepQueue
    BY <1>4, <2>1 DEF RollbackBoot, SaUndo
  <2>4. Served(done)
    BY <1>i, <2>2, <2>3 DEF HostFits, Served
  <2>5. ASSUME NEW c, c.at = "rbStart", c.pre = saRun.pre PROVE HostFits(done, c)
    BY <1>i, <2>2, <2>3, <2>4, <2>5
    DEF HostFits, SaBefore, SaGated, SaCopied, SaSplitUp, SaRouted, SaAfter, SaRollback, SameSite, SaHost0
  <2>6. "rbBoot" \in SaRollback /\ "rbStart" \in SaUndoing /\ "rbStart" # "finish"
    BY <1>p
  <2> QED
    BY <2>2, <2>3, <2>4, <2>5, <2>6, UndoStep
<1>5. CASE RollbackStart
  <2>1. PICK done : done = [saHost EXCEPT !.combined = TRUE]
    OBVIOUS
  <2>2. /\ done \in SaHosts /\ done.combined = TRUE
        /\ done.gate = saHost.gate /\ done.auth = saHost.auth /\ done.edge = saHost.edge
        /\ done.split = saHost.split /\ done.boot = saHost.boot /\ done.grants = saHost.grants /\ done.migrated = saHost.migrated
    BY <1>t, <2>1 DEF SaHosts
  <2>3. /\ saRun.at = "rbStart"
        /\ \/ saHost' = done /\ saRun' = GoTo("rbUngate")
           \/ saHost' \in {saHost, done} /\ saRun' = GoTo("retain")
        /\ UNCHANGED <<saReceipt, saFrozen, saPointer, saSent>> /\ KeepQueue
    BY <1>5, <2>1 DEF RollbackStart, SaUndo
  <2>4. Served(done)
    BY <1>i, <2>2, <2>3 DEF HostFits, Served
  <2>5. ASSUME NEW c, c.at = "rbUngate", c.pre = saRun.pre PROVE HostFits(done, c)
    BY <1>i, <2>2, <2>3, <2>4, <2>5
    DEF HostFits, SaBefore, SaGated, SaCopied, SaSplitUp, SaRouted, SaAfter, SaRollback, SameSite, SaHost0
  <2>6. "rbStart" \in SaRollback /\ "rbUngate" \in SaUndoing /\ "rbUngate" # "finish"
    BY <1>p
  <2> QED
    BY <2>2, <2>3, <2>4, <2>5, <2>6, UndoStep
<1>6. CASE RollbackUngate
  <2>1. PICK done : done = [saHost EXCEPT !.gate = FALSE]
    OBVIOUS
  <2>2. /\ done \in SaHosts /\ done.gate = FALSE
        /\ done.combined = saHost.combined /\ done.auth = saHost.auth /\ done.edge = saHost.edge
        /\ done.split = saHost.split /\ done.boot = saHost.boot /\ done.grants = saHost.grants /\ done.migrated = saHost.migrated
    BY <1>t, <2>1 DEF SaHosts
  <2>3. /\ saRun.at = "rbUngate"
        /\ \/ saHost' = done /\ saRun' = GoTo("rbPublic")
           \/ saHost' \in {saHost, done} /\ saRun' = GoTo("retain")
        /\ UNCHANGED <<saReceipt, saFrozen, saPointer, saSent>> /\ KeepQueue
    BY <1>6, <2>1 DEF RollbackUngate, SaUndo
  <2>4. Served(done)
    BY <1>i, <2>2, <2>3 DEF HostFits, Served
  <2>5. ASSUME NEW c, c.at = "rbPublic", c.pre = saRun.pre PROVE HostFits(done, c)
    BY <1>i, <2>2, <2>3, <2>4, <2>5
    DEF HostFits, SaBefore, SaGated, SaCopied, SaSplitUp, SaRouted, SaAfter, SaRollback, SameSite, SaHost0
  <2>6. "rbUngate" \in SaRollback /\ "rbPublic" \in SaUndoing /\ "rbPublic" # "finish"
    BY <1>p
  <2> QED
    BY <2>2, <2>3, <2>4, <2>5, <2>6, UndoStep
<1>7. CASE RollbackPublic
  <2>1. PICK done : done = saHost
    OBVIOUS
  <2>2. done \in SaHosts /\ done = saHost
    BY <1>t, <2>1
  <2>3. /\ saRun.at = "rbPublic"
        /\ \/ saHost' = done /\ saRun' = GoTo("rolledBack")
           \/ saHost' \in {saHost, done} /\ saRun' = GoTo("retain")
        /\ UNCHANGED <<saReceipt, saFrozen, saPointer, saSent>> /\ KeepQueue
    BY <1>7, <2>1 DEF RollbackPublic, SaUndo
  <2>4. Served(done)
    BY <1>i, <2>2, <2>3 DEF HostFits, Served
  <2>5. ASSUME NEW c, c.at = "rolledBack", c.pre = saRun.pre PROVE HostFits(done, c)
    BY <1>i, <2>2, <2>3, <2>4, <2>5
    DEF HostFits, SaBefore, SaGated, SaCopied, SaSplitUp, SaRouted, SaAfter, SaRollback, SameSite, SaHost0
  <2>6. "rbPublic" \in SaRollback /\ "rolledBack" \in SaUndoing /\ "rolledBack" # "finish"
    BY <1>p
  <2> QED
    BY <2>2, <2>3, <2>4, <2>5, <2>6, UndoStep
<1> QED
  BY <1>1, <1>2, <1>3, <1>4, <1>5, <1>6, <1>7

(* A command that stops, and one that begins with reconcile_attempt, holds nothing. *)
AtRest(c) ==
  \/ c = SaIdle
  \/ \E back \in {"idle", "start"} : c = [SaIdle EXCEPT !.at = "reconcile", !.back = back]
  \/ c = [SaIdle EXCEPT !.at = "reconcile"]

(* Such a command fits wherever what it leaves behind is told. *)
LEMMA RestFits ==
  ASSUME NEW h, Served(h), NEW rec, NEW p, NEW S, NEW K, SentFits(rec, p, S, K),
         NEW c, AtRest(c)
  PROVE  /\ c \in SaRuns /\ HostFits(h, c) /\ PhaseFits(c) /\ AttemptFitsIn(c, rec, p, S, K)
<1>1. SaHost0 \in SaHosts /\ SaBlank \in SaReceipts
  BY DEF SaHost0, SaHosts, SaBlank, SaReceipts
<1>2. PICK b, g : b = SaBlank /\ g = SaHost0
  OBVIOUS
<1>i. PICK i : i = SaIdle
  OBVIOUS
<1>3. i \in SaRuns /\ i.at = "idle" /\ i.phase = "PREFLIGHT"
  <2>1. i = [at |-> "idle", a |-> 0, back |-> "idle", mem |-> b, phase |-> "PREFLIGHT",
             exposed |-> FALSE, gated |-> FALSE, pre |-> g]
    BY <1>i, <1>2 DEF SaIdle
  <2>2. 0 \in 0..MaxActivations /\ "idle" \in SaPlaces /\ "PREFLIGHT" \in SaPhases
    BY StableAuthConstants DEF SaPlaces, SaPhases
  <2> QED
    BY <1>1, <1>2, <2>1, <2>2 DEF SaRuns
<1>4. c \in SaRuns /\ c.at \in {"idle", "reconcile"} /\ c.phase = "PREFLIGHT"
  <2>1. CASE c = i
    BY <1>3, <2>1
  <2>2. ASSUME NEW back \in {"idle", "start"}, c = [i EXCEPT !.at = "reconcile", !.back = back]
        PROVE  c \in SaRuns /\ c.at \in {"idle", "reconcile"} /\ c.phase = "PREFLIGHT"
    BY <1>3, <2>2 DEF SaRuns, SaPlaces
  <2>3. CASE c = [i EXCEPT !.at = "reconcile"]
    BY <1>3, <2>3 DEF SaRuns, SaPlaces
  <2> QED
    BY <1>i, <2>1, <2>2, <2>3 DEF AtRest
<1>5. HostFits(h, c)
  BY <1>4 DEF HostFits, SaBefore, SaGated, SaCopied, SaSplitUp, SaRouted, SaAfter, SaRollback
<1>6. PhaseFits(c)
  BY <1>4 DEF PhaseFits, SaBefore, SaAfter
<1>7. AttemptFitsIn(c, rec, p, S, K)
  BY <1>4 DEF AttemptFitsIn, SaActive, SaBefore, SaAfter, SaUndoing, SaRollback, SaSettling
<1> QED
  BY <1>4, <1>5, <1>6, <1>7

(* So a step that stops the command, or begins one, keeps the invariant. *)
LEMMA StopsOrBegins ==
  ASSUME AuthInv, KeepQueue, saFrozen' = saFrozen, saSent' = saSent,
         NEW h \in SaHosts, saHost' = h, Served(h),
         NEW rec \in [Activations -> SaReceipts], saReceipt' = rec,
         NEW p \in 0..MaxActivations, saPointer' = p, SentFits(rec, p, saSent, Kept),
         NEW c, saRun' = c, AtRest(c)
  PROVE  AuthInv'
<1>1. PICK S \in SUBSET Activations : S = saSent
  BY DEF AuthInv, AuthTyped
<1>3. PICK K : K = Kept
  OBVIOUS
<1>4. c \in SaRuns /\ HostFits(h, c) /\ PhaseFits(c) /\ AttemptFitsIn(c, rec, p, S, K)
  BY <1>1, <1>3, RestFits
<1> QED
  BY <1>1, <1>3, <1>4, AuthKeeps

(* activate writes the receipt of a fresh attempt, then its pointer, then looks at the site. *)
LEMMA AttemptBegins ==
  ASSUME AuthInv, ActivateReceipt \/ ActivatePointer \/ Preflight
  PROVE  AuthInv'
<1>t. saRun \in SaRuns /\ saHost \in SaHosts /\ saReceipt \in [Activations -> SaReceipts]
        /\ saPointer \in 0..MaxActivations /\ saSent \in SUBSET Activations
  BY DEF AuthInv, AuthTyped
<1>i. /\ HostFits(saHost, saRun) /\ PhaseFits(saRun)
      /\ AttemptFitsIn(saRun, saReceipt, saPointer, saSent, Kept)
      /\ SentFits(saReceipt, saPointer, saSent, Kept) /\ Served(saHost)
  BY DEF AuthInv, AttemptFitsIn, HostFits
<1>1. CASE ActivateReceipt
  <2>1. /\ saRun.at = "start" /\ KeepQueue
        /\ UNCHANGED <<saHost, saFrozen, saPointer, saSent>>
    BY <1>1 DEF ActivateReceipt
  <2>2. PICK a \in Activations :
          /\ saReceipt[a].phase = "none"
          /\ WriteReceipt(a, [SaBlank EXCEPT !.phase = "PREFLIGHT"],
                          [GoTo("pointer") EXCEPT !.a = a,
                             !.mem = [SaBlank EXCEPT !.phase = "PREFLIGHT"], !.pre = saHost], SaIdle)
    BY <1>1 DEF ActivateReceipt
  <2>3. PICK r : r = [SaBlank EXCEPT !.phase = "PREFLIGHT"]
    OBVIOUS
  <2>4. r \in SaReceipts /\ r.phase = "PREFLIGHT" /\ ~r.notSent
    BY <2>3 DEF SaBlank, SaReceipts, SaPhases
  <2>5. PICK c : c = [saRun EXCEPT !.at = "pointer", !.a = a, !.mem = r, !.pre = saHost]
    OBVIOUS
  <2>6. c \in SaRuns /\ c.at = "pointer" /\ c.a = a /\ c.mem = r /\ c.pre = saHost
          /\ c.phase = saRun.phase
    <3>1. "pointer" \in SaPlaces /\ a \in 0..MaxActivations
      BY DEF SaPlaces, Activations
    <3> QED
      BY <1>t, <2>4, <2>5, <3>1 DEF SaRuns
  <2>w. WriteReceipt(a, r, c, SaIdle)
    BY <2>2, <2>3, <2>5 DEF WriteReceipt, GoTo
  <2>7. /\ saReceipt' \in [Activations -> SaReceipts]
        /\ \A b \in Activations \ {a} : saReceipt'[b] = saReceipt[b]
        /\ saRun' = c \/ saRun' = SaIdle
    BY <1>t, <2>4, <2>w, WritesReceipt
  <2>8. PICK rec \in [Activations -> SaReceipts] : rec = saReceipt'
    BY <2>7
  <2>9. a \notin saSent
    BY <1>i, <2>2 DEF SentFits
  <2>10. SentFits(rec, saPointer, saSent, Kept)
    <3>1. \A b \in saSent : rec[b] = saReceipt[b]
      BY <1>t, <2>7, <2>8, <2>9
    <3> QED
      BY <1>i, <3>1 DEF SentFits
  <2>11. CASE saRun' = c
    <3>1. HostFits(saHost, c)
      BY <1>i, <2>6
      DEF HostFits, SameSite, SaBefore, SaGated, SaCopied, SaSplitUp, SaRouted, SaAfter, SaRollback
    <3>2. PhaseFits(c)
      BY <1>i, <2>1, <2>6 DEF PhaseFits, SaBefore, SaAfter, SaSettling
    <3>3. saPointer = 0
      BY <1>i, <2>1 DEF AttemptFitsIn
    <3>4. AttemptFitsIn(c, rec, saPointer, saSent, Kept)
      BY <2>4, <2>6, <2>9, <2>10, <3>3
      DEF AttemptFitsIn, SaActive, SaBefore, SaAfter, SaUndoing, SaRollback, SaSettling
    <3> QED
      BY <1>t, <2>1, <2>6, <2>8, <2>11, <3>1, <3>2, <3>4, AuthKeeps
  <2>12. CASE saRun' = SaIdle
    BY <1>t, <1>i, <2>1, <2>8, <2>10, <2>12, StopsOrBegins DEF AtRest
  <2> QED
    BY <2>7, <2>11, <2>12
<1>2. CASE ActivatePointer
  <2>1. /\ saRun.at = "pointer" /\ KeepQueue
        /\ UNCHANGED <<saHost, saReceipt, saFrozen, saSent>>
        /\ \/ saPointer' = saRun.a /\ saRun' = GoTo("preflight")
           \/ saPointer' \in {saPointer, saRun.a} /\ saRun' = SaIdle
    BY <1>2 DEF ActivatePointer
  <2>2. /\ saPointer = 0 /\ saRun.a \in Activations /\ saRun.a \notin saSent /\ ~saRun.mem.notSent
        /\ saRun.mem.phase # "none"
    BY <1>i, <2>1 DEF AttemptFitsIn
  <2>3. PICK p \in 0..MaxActivations : p = saPointer'
    BY <1>t, <2>1, <2>2 DEF Activations
  <2>4. SentFits(saReceipt, p, saSent, Kept)
    <3>1. \A a \in saSent : a # saPointer
      BY <1>t, <2>2 DEF Activations
    <3> QED
      BY <1>i, <3>1 DEF SentFits
  <2>5. CASE saPointer' = saRun.a /\ saRun' = GoTo("preflight")
    <3>1. PICK c : c = saRun' /\ MovedTo(c, saRun, "preflight")
      <4>1. "preflight" \in SaPlaces
        BY DEF SaPlaces, SaActive, SaBefore
      <4> QED
        BY <1>t, <2>5, <4>1, GoesTo DEF GoTo
    <3>2. HostFits(saHost, c)
      BY <1>i, <2>1, <3>1
      DEF HostFits, MovedTo, SaBefore, SaGated, SaCopied, SaSplitUp, SaRouted, SaAfter, SaRollback
    <3>3. PhaseFits(c)
      BY <1>i, <2>1, <3>1 DEF PhaseFits, MovedTo, SaBefore, SaAfter, SaSettling
    <3>4. AttemptFitsIn(c, saReceipt, p, saSent, Kept)
      <4>1. c.at = "preflight" /\ c.a = saRun.a /\ c.mem = saRun.mem
        BY <3>1 DEF MovedTo
      <4> QED
        BY <2>2, <2>3, <2>4, <2>5, <4>1
        DEF AttemptFitsIn, SaActive, SaBefore, SaAfter, SaUndoing, SaRollback, SaSettling
    <3> QED
      BY <1>t, <2>1, <2>3, <3>1, <3>2, <3>3, <3>4, AuthKeeps DEF MovedTo
  <2>6. CASE saRun' = SaIdle
    BY <1>t, <1>i, <2>1, <2>3, <2>4, <2>6, StopsOrBegins DEF AtRest
  <2> QED
    BY <2>1, <2>5, <2>6
<1>3. CASE Preflight
  <2>1. /\ saRun.at = "preflight" /\ KeepQueue
        /\ UNCHANGED <<saHost, saReceipt, saFrozen, saPointer, saSent>>
        /\ \/ SiteIsCombined /\ saRun' = [GoTo("gate") EXCEPT !.gated = TRUE]
           \/ saRun' \in {Raised("Failed", saRun), Raised("Unknown", saRun)}
    BY <1>3 DEF Preflight
  <2>b. SaBefore \subseteq SaActive /\ SaUndoing \subseteq SaActive /\ SaActive \subseteq SaPlaces
          /\ SaUndoing \cap (SaBefore \cup SaAfter) = {} /\ SaBefore \cap SaAfter = {}
          /\ "gate" \in SaBefore /\ saRun.at \in SaBefore /\ {"retain", "rolledBack"} \subseteq SaUndoing
    BY <2>1 DEF SaActive, SaPlaces, SaBefore, SaAfter, SaUndoing, SaRollback
  <2>2. SameSite(saHost, saRun.pre) /\ saRun.phase = "PREFLIGHT"
    BY <1>i, <2>1 DEF HostFits, PhaseFits
  <2>3. CASE SiteIsCombined /\ saRun' = [GoTo("gate") EXCEPT !.gated = TRUE]
    <3>1. PICK c : c = saRun' /\ MovedTo(c, saRun, "gate")
      <4>1. [GoTo("gate") EXCEPT !.gated = TRUE] = [saRun EXCEPT !.at = "gate", !.gated = TRUE]
        BY DEF GoTo
      <4>2. PICK c : c = [saRun EXCEPT !.at = "gate", !.gated = TRUE]
        OBVIOUS
      <4>3. MovedTo(c, saRun, "gate")
        BY <1>t, <2>b, <4>2 DEF MovedTo, SaRuns
      <4> QED
        BY <2>3, <4>1, <4>2, <4>3
    <3>2. SameSite(saHost, SaHost0)
      <4>1. PICK g : g = SaHost0
        OBVIOUS
      <4>2. g \in SaHosts
        BY <4>1 DEF SaHost0, SaHosts
      <4>3. saHost = [g EXCEPT !.grants = saHost.grants, !.migrated = saHost.migrated]
        BY <2>3, <4>1 DEF SiteIsCombined
      <4> QED
        BY <4>1, <4>2, <4>3 DEF SameSite, SaHosts
    <3>3. SameSite(c.pre, SaHost0) /\ SameSite(saHost, c.pre) /\ c.at = "gate"
      BY <2>2, <3>1, <3>2 DEF SameSite, MovedTo
    <3>4. HostFits(saHost, c)
      BY <1>i, <3>3
      DEF HostFits, SaBefore, SaGated, SaCopied, SaSplitUp, SaRouted, SaAfter, SaRollback
    <3>5. PhaseFits(c)
      BY <2>2, <3>1 DEF PhaseFits, MovedTo, SaBefore, SaAfter, SaSettling
    <3>6. AttemptFitsIn(c, saReceipt, saPointer, saSent, Kept)
      BY <1>t, <1>i, <2>b, <3>1, AttemptMoves
    <3> QED
      BY <1>t, <2>1, <3>1, <3>4, <3>5, <3>6, AuthKeeps DEF MovedTo
  <2>4. CASE saRun' \in {Raised("Failed", saRun), Raised("Unknown", saRun)}
    <3>1. PICK k \in {"Failed", "Unknown"} : saRun' = Raised(k, saRun)
      BY <2>4
    <3>2. PICK at \in {"retain", "rolledBack"} : MovedTo(saRun', saRun, at)
      BY <1>t, <2>2, <3>1, RaisesTo
    <3>3. PICK c : c = saRun' /\ MovedTo(c, saRun, at)
      BY <3>2
    <3>4. HostFits(saHost, c)
      BY <1>i, <2>2, <3>3
      DEF HostFits, MovedTo, SaBefore, SaGated, SaCopied, SaSplitUp, SaRouted, SaAfter, SaRollback
    <3>5. PhaseFits(c)
      BY <2>2, <3>3 DEF PhaseFits, MovedTo, SaBefore, SaAfter, SaSettling
    <3>6. AttemptFitsIn(c, saReceipt, saPointer, saSent, Kept)
      BY <1>t, <1>i, <2>b, <3>3, AttemptMoves
    <3> QED
      BY <1>t, <2>1, <3>3, <3>4, <3>5, <3>6, AuthKeeps DEF MovedTo
  <2> QED
    BY <2>1, <2>3, <2>4
<1> QED
  BY <1>1, <1>2, <1>3

(* A failure after the boundary keeps the gate, one before it may roll back. *)
LEMMA FailureFits ==
  ASSUME NEW h, Served(h), NEW run \in SaRuns, NEW kind \in {"Failed", "Unknown"},
         run.at \in SaActive,
         run.phase = "PREFLIGHT" => kind = "Unknown" \/ run.exposed,
         SameSite(run.pre, SaHost0) \/ run.exposed \/ kind = "Unknown",
         NEW rec, NEW p, NEW S, NEW K,
         run.a \in Activations, p = run.a, run.mem.phase # "none",
         run.a \in S => run.mem.exposed /\ ~run.mem.notSent, SentFits(rec, p, S, K),
         NEW c, c = Raised(kind, run)
  PROVE  c \in SaRuns /\ HostFits(h, c) /\ PhaseFits(c) /\ AttemptFitsIn(c, rec, p, S, K)
<1>1. PICK at \in {"retain", "rbGate"} :
         /\ MovedTo(c, run, at)
         /\ at = "rbGate" => kind = "Failed" /\ ~run.exposed
  BY RaisesTo
<1>2. HostFits(h, c)
  BY <1>1
  DEF HostFits, MovedTo, SaBefore, SaGated, SaCopied, SaSplitUp, SaRouted, SaAfter, SaRollback
<1>3. PhaseFits(c)
  BY <1>1 DEF PhaseFits, MovedTo, SaBefore, SaAfter, SaSettling
<1>4. AttemptFitsIn(c, rec, p, S, K)
  <2>1. c.at \in {"retain", "rbGate"} /\ c.a = run.a /\ c.mem = run.mem
    BY <1>1 DEF MovedTo
  <2> QED
    BY <2>1 DEF AttemptFitsIn, SaActive, SaBefore, SaAfter, SaUndoing, SaRollback, SaSettling
<1> QED
  BY <1>1, <1>2, <1>3, <1>4 DEF MovedTo

(* The boundary is recorded, the ungate sent and recorded, the site checked, and the PASS   *)
(* written.                                                                            *)
LEMMA ExposureSteps ==
  ASSUME AuthInv, Boundary \/ UngateSplit \/ UngateRecorded \/ PublicReady \/ Complete
  PROVE  AuthInv'
<1>t. saRun \in SaRuns /\ saHost \in SaHosts /\ saReceipt \in [Activations -> SaReceipts]
        /\ saPointer \in 0..MaxActivations /\ saSent \in SUBSET Activations
        /\ saRun.mem \in SaReceipts
  BY DEF AuthInv, AuthTyped, SaRuns
<1>i. /\ HostFits(saHost, saRun) /\ PhaseFits(saRun)
      /\ AttemptFitsIn(saRun, saReceipt, saPointer, saSent, Kept)
      /\ SentFits(saReceipt, saPointer, saSent, Kept) /\ Served(saHost)
  BY DEF AuthInv, AttemptFitsIn, HostFits
<1>s. SaAfter \cup {"boundary"} \subseteq SaActive /\ SaActive \subseteq SaPlaces /\ SaBefore \subseteq SaActive
        /\ "boundary" \in SaBefore /\ SaBefore \cap SaAfter = {} /\ "clear" \in SaPlaces
        /\ SaAfter = {"ungate", "ungated", "public", "complete"}
  BY DEF SaActive, SaPlaces, SaBefore, SaAfter, SaSettling
<1>k. PICK K : K = Kept
  OBVIOUS
<1>a. ASSUME saRun.at \in SaActive
      PROVE  /\ saRun.a \in Activations /\ saPointer = saRun.a /\ saRun.mem.phase # "none"
             /\ saRun.a \in saSent => saRun.mem.exposed /\ ~saRun.mem.notSent
  BY <1>i, <1>a DEF AttemptFitsIn
<1>1. CASE Boundary
  <2>1. /\ saRun.at = "boundary" /\ KeepQueue /\ UNCHANGED <<saHost, saFrozen, saPointer, saSent>>
    BY <1>1 DEF Boundary
  <2>2. PICK r, n : r = [saRun.mem EXCEPT !.exposed = TRUE] /\ n = [r EXCEPT !.notSent = TRUE]
    OBVIOUS
  <2>3. /\ r \in SaReceipts /\ r.exposed /\ r.notSent = saRun.mem.notSent /\ r.phase = saRun.mem.phase
        /\ n \in SaReceipts /\ n.phase = saRun.mem.phase
    BY <1>t, <2>2 DEF SaReceipts
  <2>4. PICK c, run : /\ c = [saRun EXCEPT !.at = "ungate", !.mem = r, !.exposed = TRUE]
                      /\ run = [saRun EXCEPT !.mem = n]
    OBVIOUS
  <2>5. /\ c \in SaRuns /\ c.at = "ungate" /\ c.mem = r /\ c.exposed /\ c.a = saRun.a
        /\ run \in SaRuns /\ run.at = "boundary" /\ run.mem = n /\ run.a = saRun.a
        /\ run.phase = saRun.phase /\ run.pre = saRun.pre
    <3>1. "ungate" \in SaPlaces
      BY <1>s
    <3> QED
      BY <1>t, <2>1, <2>3, <2>4, <3>1 DEF SaRuns
  <2>6. PICK a \in Activations : a = saRun.a /\ a \notin saSent /\ ~saRun.mem.notSent
    BY <1>a, <1>i, <1>s, <2>1 DEF AttemptFitsIn
  <2>7. PICK f : f = Raised("Failed", run)
    OBVIOUS
  <2>8. WriteReceipt(a, r, c, f)
    <3>1. c = [GoTo("ungate") EXCEPT !.mem = r, !.exposed = TRUE]
      BY <2>4 DEF GoTo
    <3> QED
      BY <1>1, <2>2, <2>4, <2>6, <2>7, <3>1 DEF Boundary, WriteReceipt
  <2>9. /\ saReceipt' \in [Activations -> SaReceipts]
        /\ \A b \in Activations \ {a} : saReceipt'[b] = saReceipt[b]
        /\ (saRun' = c /\ saReceipt'[a] = r) \/ saRun' = f
    BY <1>t, <2>3, <2>8, WritesReceipt
  <2>10. PICK rec \in [Activations -> SaReceipts] : rec = saReceipt'
    BY <2>9
  <2>11. SentFits(rec, saPointer, saSent, Kept)
    <3>1. \A b \in saSent : rec[b] = saReceipt[b]
      BY <1>t, <2>6, <2>9, <2>10
    <3> QED
      BY <1>i, <3>1 DEF SentFits
  <2>12. CASE saRun' = c /\ saReceipt'[a] = r
    <3>1. HostFits(saHost, c)
      BY <1>i, <2>1, <2>5
      DEF HostFits, SaBefore, SaGated, SaCopied, SaSplitUp, SaRouted, SaAfter, SaRollback
    <3>2. PhaseFits(c)
      BY <2>5 DEF PhaseFits, SaBefore, SaAfter, SaSettling
    <3>3. saPointer = a /\ r.phase # "none" /\ ~r.notSent
      BY <1>a, <1>s, <2>1, <2>3, <2>6
    <3>4. AttemptFitsIn(c, rec, saPointer, saSent, Kept)
      BY <2>3, <2>5, <2>6, <2>10, <2>11, <2>12, <3>3
      DEF AttemptFitsIn, SaActive, SaBefore, SaAfter, SaUndoing, SaRollback, SaSettling
    <3> QED
      BY <1>t, <2>1, <2>5, <2>10, <2>12, <3>1, <3>2, <3>4, AuthKeeps
  <2>13. CASE saRun' = f
    <3>1. run.phase # "PREFLIGHT" /\ SameSite(run.pre, SaHost0)
      BY <1>i, <2>1, <2>5 DEF PhaseFits, HostFits, SaBefore
    <3>2. f \in SaRuns /\ HostFits(saHost, f) /\ PhaseFits(f) /\ AttemptFitsIn(f, rec, saPointer, saSent, K)
      <4>1. run.at \in SaActive /\ run.a \in Activations /\ saPointer = run.a /\ run.mem.phase # "none"
              /\ run.a \notin saSent
        BY <1>a, <1>s, <2>1, <2>3, <2>5, <2>6
      <4> QED
        BY <1>i, <1>k, <2>5, <2>7, <2>11, <3>1, <4>1, FailureFits
    <3> QED
      BY <1>t, <1>k, <2>1, <2>10, <2>13, <3>2, AuthKeeps
  <2> QED
    BY <2>9, <2>12, <2>13
<1>2. CASE UngateSplit
  <2>1. /\ saRun.at = "ungate" /\ KeepQueue /\ UNCHANGED <<saReceipt, saFrozen, saPointer>>
        /\ saSent' = saSent \cup {saRun.a}
        /\ \/ saHost' = [saHost EXCEPT !.gate = FALSE] /\ saRun' = GoTo("ungated")
           \/ /\ saHost' \in {saHost, [saHost EXCEPT !.gate = FALSE]}
              /\ saRun' = Raised("Unknown", saRun)
    BY <1>2 DEF UngateSplit
  <2>2. PICK done : done = [saHost EXCEPT !.gate = FALSE]
    OBVIOUS
  <2>3. /\ done \in SaHosts /\ done.combined = saHost.combined /\ done.auth = saHost.auth
        /\ done.edge = saHost.edge /\ done.split = saHost.split /\ done.grants = saHost.grants
        /\ done.migrated = saHost.migrated /\ done.boot = saHost.boot
    BY <1>t, <2>2 DEF SaHosts
  <2>4. Served(done) /\ done.split = 1..SaProxies /\ done.auth /\ done.edge /\ ~done.combined
          /\ done.migrated = done.grants
    BY <1>i, <2>1, <2>3 DEF HostFits, Served, SaCopied, SaSplitUp, SaRouted, SaAfter
  <2>5. PICK S \in SUBSET Activations : S = saSent' /\ S = saSent \cup {saRun.a}
    BY <1>a, <1>s, <1>t, <2>1
  <2>6. /\ saRun.mem.exposed /\ ~saRun.mem.notSent
        /\ saReceipt[saRun.a].exposed /\ ~saReceipt[saRun.a].notSent
        /\ saReceipt[saRun.a].phase # "none"
    BY <1>i, <1>s, <2>1 DEF AttemptFitsIn
  <2>7. saPointer = saRun.a
    BY <1>a, <1>s, <2>1
  <2>8. SentFits(saReceipt, saPointer, S, Kept)
    BY <1>i, <2>5, <2>6, <2>7 DEF SentFits
  <2>9. CASE saHost' = done /\ saRun' = GoTo("ungated")
    <3>1. PICK c : c = saRun' /\ MovedTo(c, saRun, "ungated")
      BY <1>t, <1>s, <2>9, GoesTo DEF GoTo
    <3>2. c.at = "ungated" /\ c.pre = saRun.pre /\ c.mem = saRun.mem /\ c.a = saRun.a
            /\ c.exposed = saRun.exposed
      BY <3>1 DEF MovedTo
    <3>3. HostFits(done, c)
      BY <2>4, <3>2
      DEF HostFits, SaBefore, SaGated, SaCopied, SaSplitUp, SaRouted, SaAfter, SaRollback
    <3>4. PhaseFits(c)
      BY <1>i, <1>s, <2>1, <3>2 DEF PhaseFits, SaBefore, SaSettling
    <3>5. AttemptFitsIn(c, saReceipt, saPointer, S, Kept)
      <4>1. saRun.a \in Activations /\ saRun.mem.phase # "none"
        BY <1>a, <1>s, <2>1
      <4> QED
        BY <2>6, <2>7, <2>8, <3>2, <4>1
        DEF AttemptFitsIn, SaActive, SaBefore, SaAfter, SaUndoing, SaRollback, SaSettling
    <3> QED
      BY <1>t, <2>1, <2>3, <2>5, <2>9, <3>1, <3>3, <3>4, <3>5, AuthKeeps DEF MovedTo
  <2>10. CASE saHost' \in {saHost, done} /\ saRun' = Raised("Unknown", saRun)
    <3>1. PICK h \in SaHosts : h = saHost' /\ Served(h)
      BY <1>t, <1>i, <2>3, <2>4, <2>10
    <3>2. PICK c : c = saRun' /\ c = Raised("Unknown", saRun)
      BY <2>10
    <3>3. c \in SaRuns /\ HostFits(h, c) /\ PhaseFits(c) /\ AttemptFitsIn(c, saReceipt, saPointer, S, K)
      BY <1>t, <1>a, <1>s, <1>k, <2>1, <2>6, <2>7, <2>8, <3>1, <3>2, FailureFits
    <3> QED
      BY <1>t, <1>k, <2>1, <2>5, <3>1, <3>2, <3>3, AuthKeeps
  <2> QED
    BY <2>1, <2>2, <2>9, <2>10
<1>3. CASE UngateRecorded
  <2>1. saRun.at = "ungated" /\ KeepQueue /\ UNCHANGED <<saHost, saFrozen, saPointer, saSent>>
    BY <1>3 DEF UngateRecorded
  <2>2. PICK r : r = [saRun.mem EXCEPT !.phase = "UNGATED", !.confirmed = TRUE]
    OBVIOUS
  <2>3. r \in SaReceipts /\ r.exposed = saRun.mem.exposed /\ r.notSent = saRun.mem.notSent
          /\ r.phase = "UNGATED"
    BY <1>t, <2>2 DEF SaReceipts, SaPhases
  <2>4. PICK run : run = [saRun EXCEPT !.phase = "UNGATED", !.mem = r]
    OBVIOUS
  <2>5. /\ run \in SaRuns /\ run.at = "ungated" /\ run.mem = r /\ run.a = saRun.a
        /\ run.exposed = saRun.exposed /\ run.phase = "UNGATED" /\ run.pre = saRun.pre
    BY <1>t, <2>1, <2>3, <2>4 DEF SaRuns, SaPhases
  <2>6. PICK c, f : c = [run EXCEPT !.at = "public"] /\ f = Raised("Failed", run)
    OBVIOUS
  <2>7. PICK a \in Activations : a = saRun.a
    BY <1>a, <1>s, <2>1
  <2>8. WriteReceipt(a, r, c, f)
    BY <1>3, <2>2, <2>4, <2>6, <2>7 DEF UngateRecorded, WriteReceipt
  <2>9. /\ saReceipt' \in [Activations -> SaReceipts]
        /\ \A b \in Activations \ {a} : saReceipt'[b] = saReceipt[b]
        /\ saReceipt'[a] \in {saReceipt[a], r}
        /\ saRun' = c \/ saRun' = f
    BY <1>t, <2>3, <2>8, WritesReceipt
  <2>10. PICK rec \in [Activations -> SaReceipts] : rec = saReceipt'
    BY <2>9
  <2>11. saPointer = a /\ r.exposed /\ ~r.notSent
           /\ rec[a].exposed /\ ~rec[a].notSent /\ rec[a].phase # "none"
    BY <1>a, <1>i, <1>s, <2>1, <2>3, <2>7, <2>9, <2>10 DEF AttemptFitsIn
  <2>12. SentFits(rec, saPointer, saSent, Kept)
    BY <1>t, <1>i, <2>9, <2>10, <2>11 DEF SentFits
  <2>13. run.exposed
    BY <1>i, <1>s, <2>1, <2>5 DEF PhaseFits
  <2>14. CASE saRun' = c
    <3>1. MovedTo(c, run, "public")
      BY <1>s, <2>5, <2>6, GoesTo
    <3>2. c.at = "public" /\ c.pre = saRun.pre /\ c.mem = r /\ c.a = a /\ c.exposed
      BY <2>5, <2>7, <2>13, <3>1 DEF MovedTo
    <3>3. HostFits(saHost, c)
      BY <1>i, <2>1, <3>2
      DEF HostFits, SaBefore, SaGated, SaCopied, SaSplitUp, SaRouted, SaAfter, SaRollback
    <3>4. PhaseFits(c)
      BY <3>2 DEF PhaseFits, SaBefore, SaSettling
    <3>5. AttemptFitsIn(c, rec, saPointer, saSent, Kept)
      BY <2>3, <2>11, <2>12, <3>2
      DEF AttemptFitsIn, SaActive, SaBefore, SaAfter, SaUndoing, SaRollback, SaSettling
    <3> QED
      BY <1>t, <2>1, <2>10, <2>14, <3>1, <3>3, <3>4, <3>5, AuthKeeps DEF MovedTo
  <2>15. CASE saRun' = f
    <3>1. f \in SaRuns /\ HostFits(saHost, f) /\ PhaseFits(f) /\ AttemptFitsIn(f, rec, saPointer, saSent, K)
      BY <1>i, <1>s, <1>k, <2>3, <2>5, <2>6, <2>7, <2>11, <2>12, <2>13, FailureFits
    <3> QED
      BY <1>t, <1>k, <2>1, <2>10, <2>15, <3>1, AuthKeeps
  <2> QED
    BY <2>9, <2>14, <2>15
<1>4. CASE PublicReady
  <2>1. /\ saRun.at = "public" /\ KeepQueue
        /\ UNCHANGED <<saHost, saReceipt, saFrozen, saPointer, saSent>>
        /\ saRun' = GoTo("complete") \/ saRun' = Raised("Unknown", saRun)
    BY <1>4 DEF PublicReady
  <2>2. CASE saRun' = GoTo("complete")
    <3>1. PICK c : c = saRun' /\ MovedTo(c, saRun, "complete")
      BY <1>t, <1>s, <2>2, GoesTo DEF GoTo
    <3>2. HostFits(saHost, c)
      BY <1>i, <2>1, <3>1
      DEF HostFits, MovedTo, SaBefore, SaGated, SaCopied, SaSplitUp, SaRouted, SaAfter, SaRollback
    <3>3. PhaseFits(c)
      BY <1>i, <1>s, <2>1, <3>1 DEF PhaseFits, MovedTo, SaBefore, SaSettling
    <3>4. AttemptFitsIn(c, saReceipt, saPointer, saSent, Kept)
      <4>1. "complete" \in SaActive /\ "complete" \notin SaBefore /\ saRun.at \in SaActive
              /\ saRun.at \in SaAfter
        BY <1>s, <2>1
      <4> QED
        BY <1>t, <1>i, <3>1, <4>1, AttemptMoves
    <3> QED
      BY <1>t, <2>1, <3>1, <3>2, <3>3, <3>4, AuthKeeps DEF MovedTo
  <2>3. CASE saRun' = Raised("Unknown", saRun)
    <3>1. PICK c : c = saRun' /\ c = Raised("Unknown", saRun)
      BY <2>3
    <3>2. c \in SaRuns /\ HostFits(saHost, c) /\ PhaseFits(c) /\ AttemptFitsIn(c, saReceipt, saPointer, saSent, K)
      BY <1>t, <1>i, <1>a, <1>s, <1>k, <2>1, <3>1, FailureFits
    <3> QED
      BY <1>t, <1>k, <2>1, <3>1, <3>2, AuthKeeps
  <2> QED
    BY <2>1, <2>2, <2>3
<1>5. CASE Complete
  <2>1. saRun.at = "complete" /\ KeepQueue /\ UNCHANGED <<saHost, saFrozen, saPointer, saSent>>
    BY <1>5 DEF Complete
  <2>2. PICK r : r = [saRun.mem EXCEPT !.phase = "COMPLETE", !.status = "PASS"]
    OBVIOUS
  <2>3. /\ r \in SaReceipts /\ r.exposed = saRun.mem.exposed /\ r.notSent = saRun.mem.notSent
        /\ r.phase = "COMPLETE" /\ r.status = "PASS"
    BY <1>t, <2>2 DEF SaReceipts, SaPhases
  <2>4. PICK c : c = [saRun EXCEPT !.at = "clear", !.back = "idle"]
    OBVIOUS
  <2>5. c \in SaRuns /\ c.at = "clear" /\ c.back = "idle"
    BY <1>t, <1>s, <2>4 DEF SaRuns
  <2>6. PICK a \in Activations : a = saRun.a
    BY <1>a, <1>s, <2>1
  <2>7. WriteReceipt(a, r, c, SaIdle)
    <3>1. c = [GoTo("clear") EXCEPT !.back = "idle"]
      BY <2>4 DEF GoTo
    <3> QED
      BY <1>5, <2>2, <2>6, <3>1 DEF Complete, WriteReceipt
  <2>9. /\ saReceipt' \in [Activations -> SaReceipts]
        /\ \A b \in Activations \ {a} : saReceipt'[b] = saReceipt[b]
        /\ saReceipt'[a] \in {saReceipt[a], r}
        /\ (saRun' = c /\ saReceipt'[a] = r) \/ saRun' = SaIdle
    BY <1>t, <2>3, <2>7, WritesReceipt
  <2>10. PICK rec \in [Activations -> SaReceipts] : rec = saReceipt'
    BY <2>9
  <2>11. saPointer = a /\ r.exposed
           /\ rec[a].exposed /\ ~rec[a].notSent /\ rec[a].phase # "none"
    BY <1>a, <1>i, <1>s, <2>1, <2>3, <2>6, <2>9, <2>10 DEF AttemptFitsIn
  <2>12. SentFits(rec, saPointer, saSent, Kept)
    BY <1>t, <1>i, <2>9, <2>10, <2>11 DEF SentFits
  <2>13. CASE saRun' = c /\ saReceipt'[a] = r
    <3>1. HostFits(saHost, c)
      BY <1>i, <2>5
      DEF HostFits, SaBefore, SaGated, SaCopied, SaSplitUp, SaRouted, SaAfter, SaRollback
    <3>2. PhaseFits(c)
      BY <2>5 DEF PhaseFits, SaBefore, SaAfter
    <3>3. PassIsDurable(rec[saPointer])
      BY <2>3, <2>10, <2>11, <2>13 DEF PassIsDurable
    <3>4. AttemptFitsIn(c, rec, saPointer, saSent, Kept)
      BY <2>5, <2>11, <2>12, <3>3
      DEF AttemptFitsIn, SaActive, SaBefore, SaAfter, SaUndoing, SaRollback, SaSettling
    <3> QED
      BY <1>t, <2>1, <2>5, <2>10, <2>13, <3>1, <3>2, <3>4, AuthKeeps
  <2>14. CASE saRun' = SaIdle
    BY <1>t, <1>i, <2>1, <2>10, <2>12, <2>14, StopsOrBegins DEF AtRest
  <2> QED
    BY <2>9, <2>13, <2>14
<1> QED
  BY <1>1, <1>2, <1>3, <1>4, <1>5

(* The gate is put back, the outcome reported and written to the receipt. *)
LEMMA ReportSteps ==
  ASSUME AuthInv, RetainGate \/ RolledBack \/ FinishAttempt
  PROVE  AuthInv'
<1>t. saRun \in SaRuns /\ saHost \in SaHosts /\ saReceipt \in [Activations -> SaReceipts]
        /\ saPointer \in 0..MaxActivations /\ saSent \in SUBSET Activations
        /\ saRun.mem \in SaReceipts /\ saRun.phase \in SaPhases
  BY DEF AuthInv, AuthTyped, SaRuns
<1>i. /\ HostFits(saHost, saRun) /\ PhaseFits(saRun)
      /\ AttemptFitsIn(saRun, saReceipt, saPointer, saSent, Kept)
      /\ SentFits(saReceipt, saPointer, saSent, Kept) /\ Served(saHost)
  BY DEF AuthInv, AttemptFitsIn, HostFits
<1>a. /\ saRun.a \in Activations /\ saPointer = saRun.a /\ saRun.mem.phase # "none"
      /\ saRun.a \in saSent => saRun.mem.exposed /\ ~saRun.mem.notSent
  <2>1. saRun.at \in SaActive
    BY DEF RetainGate, RolledBack, FinishAttempt, SaActive, SaUndoing
  <2> QED
    BY <1>i, <2>1 DEF AttemptFitsIn
<1>r. ASSUME NEW phase \in SaPhases, NEW status \in {"FAIL", "UNKNOWN"},
             NEW h \in SaHosts, saHost' = h, Served(h),
             status = "FAIL" => SameSite(h, saRun.pre),
             saRun' = Reporting(saRun, phase, status),
             UNCHANGED <<saReceipt, saFrozen, saPointer, saSent>>, KeepQueue
      PROVE  AuthInv'
  <2>1. PICK r : r = [saRun.mem EXCEPT !.phase = phase, !.status = status]
    OBVIOUS
  <2>2. /\ r \in SaReceipts /\ r.exposed = saRun.mem.exposed /\ r.notSent = saRun.mem.notSent
        /\ r.phase = phase /\ r.status = status
    BY <1>t, <2>1 DEF SaReceipts
  <2>3. PICK c : c = [saRun EXCEPT !.at = "finish", !.mem = r]
    OBVIOUS
  <2>4. c \in SaRuns /\ c.at = "finish" /\ c.mem = r /\ c.a = saRun.a /\ c.pre = saRun.pre
    <3>1. "finish" \in SaPlaces
      BY DEF SaPlaces, SaActive, SaUndoing
    <3> QED
      BY <1>t, <2>2, <2>3, <3>1 DEF SaRuns
  <2>5. saRun' = c
    BY <1>r, <2>1, <2>3 DEF Reporting
  <2>6. HostFits(h, c)
    BY <1>r, <2>2, <2>4
    DEF HostFits, SaBefore, SaGated, SaCopied, SaSplitUp, SaRouted, SaAfter, SaRollback
  <2>7. PhaseFits(c)
    BY <2>4 DEF PhaseFits, SaBefore, SaAfter, SaSettling
  <2>8. AttemptFitsIn(c, saReceipt, saPointer, saSent, Kept)
    BY <1>i, <1>a, <2>2, <2>4
    DEF AttemptFitsIn, SaActive, SaBefore, SaAfter, SaUndoing, SaRollback, SaSettling, SaPhases
  <2> QED
    BY <1>t, <1>r, <2>4, <2>5, <2>6, <2>7, <2>8, AuthKeeps
<1>1. CASE RetainGate
  <2>1. PICK done : done = [saHost EXCEPT !.gate = TRUE]
    OBVIOUS
  <2>2. done \in SaHosts /\ done.gate
    BY <1>t, <2>1 DEF SaHosts
  <2>3. PICK h \in SaHosts : h = saHost' /\ Served(h)
    BY <1>1, <1>t, <1>i, <2>1, <2>2 DEF RetainGate, Served
  <2>4. /\ saRun' = Reporting(saRun, saRun.phase, "UNKNOWN") /\ KeepQueue
        /\ UNCHANGED <<saReceipt, saFrozen, saPointer, saSent>>
    BY <1>1 DEF RetainGate
  <2> QED
    BY <1>t, <1>r, <2>3, <2>4
<1>2. CASE RolledBack
  <2>1. /\ saRun' = Reporting(saRun, "ROLLED_BACK", "FAIL") /\ KeepQueue
        /\ UNCHANGED <<saHost, saReceipt, saFrozen, saPointer, saSent>> /\ saRun.at = "rolledBack"
    BY <1>2 DEF RolledBack
  <2>2. SameSite(saHost, saRun.pre)
    BY <1>i, <2>1 DEF HostFits
  <2>3. "ROLLED_BACK" \in SaPhases
    BY DEF SaPhases
  <2> QED
    BY <1>t, <1>i, <1>r, <2>1, <2>2, <2>3
<1>3. CASE FinishAttempt
  <2>1. /\ saReceipt' \in {saReceipt, [saReceipt EXCEPT ![saRun.a] = saRun.mem]} /\ KeepQueue
        /\ saRun' = [SaIdle EXCEPT !.at = "reconcile"]
        /\ UNCHANGED <<saHost, saFrozen, saPointer, saSent>>
    BY <1>3 DEF FinishAttempt
  <2>2. PICK rec \in [Activations -> SaReceipts] :
          /\ rec = saReceipt'
          /\ \A b \in Activations \ {saRun.a} : rec[b] = saReceipt[b]
          /\ rec[saRun.a] \in {saReceipt[saRun.a], saRun.mem}
    <3>1. CASE saReceipt' = saReceipt
      BY <1>t, <3>1
    <3>2. CASE saReceipt' = [saReceipt EXCEPT ![saRun.a] = saRun.mem]
      <4>1. PICK rec : rec = [saReceipt EXCEPT ![saRun.a] = saRun.mem]
        OBVIOUS
      <4>2. rec \in [Activations -> SaReceipts] /\ rec[saRun.a] = saRun.mem
              /\ \A b \in Activations \ {saRun.a} : rec[b] = saReceipt[b]
        BY <1>t, <1>a, <4>1
      <4> QED
        BY <3>2, <4>1, <4>2
    <3> QED
      BY <2>1, <3>1, <3>2
  <2>3. SentFits(rec, saPointer, saSent, Kept)
    BY <1>t, <1>i, <1>a, <2>2 DEF SentFits
  <2>4. PICK c : c = saRun' /\ AtRest(c)
    BY <2>1 DEF AtRest
  <2> QED
    BY <1>t, <1>i, <2>1, <2>2, <2>3, <2>4, StopsOrBegins
<1> QED
  BY <1>1, <1>2, <1>3

(* reconcile_attempt up to its evidence: what it decides, and how it settles a receipt and *)
(* clears the pointer.                                                                 *)
LEMMA SettlingSteps ==
  ASSUME AuthInv,
         (\E back \in {"idle", "start"} : SaBegin(back)) \/ Reconcile \/ SettleReceipt
           \/ ClearPointer \/ SaKilled
  PROVE  AuthInv'
<1>t. saRun \in SaRuns /\ saHost \in SaHosts /\ saReceipt \in [Activations -> SaReceipts]
        /\ saPointer \in 0..MaxActivations /\ saSent \in SUBSET Activations
        /\ saRun.back \in {"idle", "start"}
  BY DEF AuthInv, AuthTyped, SaRuns
<1>i. /\ HostFits(saHost, saRun) /\ PhaseFits(saRun)
      /\ AttemptFitsIn(saRun, saReceipt, saPointer, saSent, Kept)
      /\ SentFits(saReceipt, saPointer, saSent, Kept) /\ Served(saHost)
  BY DEF AuthInv, AttemptFitsIn, HostFits
<1>z. Activations = 1..MaxActivations /\ 0 \notin Activations /\ MaxActivations \in Nat
        /\ \A p \in 0..MaxActivations : p # 0 => p \in Activations
  BY StableAuthConstants DEF Activations
<1>h. \A c : c.at \in SaSettling \cup {"idle", "start"} => HostFits(saHost, c)
  BY <1>i DEF HostFits, SaBefore, SaGated, SaCopied, SaSplitUp, SaRouted, SaAfter, SaRollback, SaSettling
<1>p. \A c : /\ c.at \in SaSettling \cup {"idle", "start"}
             /\ c.at = "start" \/ c.back = "start" => c.phase = "PREFLIGHT"
             => PhaseFits(c)
  BY DEF PhaseFits, SaBefore, SaAfter, SaSettling
<1>1. ASSUME NEW back \in {"idle", "start"}, SaBegin(back) PROVE AuthInv'
  <2>1. PICK c : c = saRun' /\ AtRest(c)
    BY <1>1 DEF SaBegin, AtRest
  <2> QED
    BY <1>1, <1>t, <1>i, <2>1, StopsOrBegins DEF SaBegin
<1>2. CASE Reconcile
  <2>1. /\ saRun.at = "reconcile" /\ KeepQueue
        /\ UNCHANGED <<saHost, saReceipt, saFrozen, saPointer, saSent>>
    BY <1>2 DEF Reconcile
  <2>2. PICK at : /\ at = IF saPointer = 0 THEN saRun.back
                          ELSE IF PassIsDurable(saReceipt[saPointer]) THEN "settlePass"
                          ELSE IF PreBoundary(saReceipt[saPointer]) THEN "settlePre" ELSE "freeze"
                  /\ saRun' = GoTo(at)
    BY <1>2 DEF Reconcile
  <2>3. at \in SaPlaces /\ at \in SaSettling \cup {"idle", "start"}
    BY <1>t, <2>2 DEF SaPlaces, SaSettling
  <2>4. PICK c : c = saRun' /\ MovedTo(c, saRun, at)
    BY <1>t, <2>2, <2>3, GoesTo DEF GoTo
  <2>5. /\ at \in {"idle", "start"} => saPointer = 0 /\ at = saRun.back
        /\ at \in SaSettling => saPointer \in Activations
        /\ at = "settlePass" => PassIsDurable(saReceipt[saPointer])
        /\ at = "settlePre" => PreBoundary(saReceipt[saPointer])
        /\ at \in {"settlePass", "settlePre", "freeze", "idle", "start"}
    BY <1>t, <1>z, <2>2 DEF SaSettling
  <2>6. c.at = at /\ c.back = saRun.back /\ c.phase = saRun.phase
    BY <2>4 DEF MovedTo
  <2>7. HostFits(saHost, c)
    BY <1>h, <2>3, <2>6
  <2>8. PhaseFits(c)
    BY <1>i, <1>p, <2>1, <2>3, <2>5, <2>6 DEF PhaseFits
  <2>9. AttemptFitsIn(c, saReceipt, saPointer, saSent, Kept)
    BY <1>i, <2>5, <2>6
    DEF AttemptFitsIn, SaActive, SaBefore, SaAfter, SaUndoing, SaRollback, SaSettling
  <2> QED
    BY <1>t, <2>1, <2>4, <2>7, <2>8, <2>9, AuthKeeps DEF MovedTo
<1>3. CASE SettleReceipt
  <2>1. /\ saRun.at \in {"settlePass", "settlePre"} /\ KeepQueue
        /\ UNCHANGED <<saHost, saFrozen, saPointer, saSent>>
    BY <1>3 DEF SettleReceipt
  <2>2. PICK p \in Activations : p = saPointer
    BY <1>i, <2>1 DEF AttemptFitsIn, SaSettling
  <2>3. PICK r : r = IF saRun.at = "settlePass" THEN saReceipt[p]
                     ELSE [saReceipt[p] EXCEPT !.status = "ABORTED_PRE_BOUNDARY"]
    OBVIOUS
  <2>4. PICK o : o = saReceipt[p] /\ o \in SaReceipts
    BY <1>t
  <2>5. r \in SaReceipts
    BY <2>3, <2>4 DEF SaReceipts
  <2>6. PICK c : c = GoTo("clear") /\ MovedTo(c, saRun, "clear")
    <3>1. "clear" \in SaPlaces
      BY DEF SaPlaces, SaSettling
    <3> QED
      BY <1>t, <3>1, GoesTo DEF GoTo
  <2>7. WriteReceipt(p, r, c, SaIdle)
    BY <1>3, <2>2, <2>3, <2>6 DEF SettleReceipt, WriteReceipt
  <2>8. /\ saReceipt' \in [Activations -> SaReceipts]
        /\ \A b \in Activations \ {p} : saReceipt'[b] = saReceipt[b]
        /\ saReceipt'[p] \in {saReceipt[p], r}
        /\ (saRun' = c /\ saReceipt'[p] = r) \/ saRun' = SaIdle
    BY <1>t, <2>5, <2>7, WritesReceipt
  <2>9. PICK rec \in [Activations -> SaReceipts] : rec = saReceipt'
    BY <2>8
  <2>10. p \notin saSent \/ (rec[p] = saReceipt[p] /\ PassIsDurable(rec[p]))
    <3>1. CASE saRun.at = "settlePass"
      BY <1>i, <2>2, <2>3, <2>8, <2>9, <3>1 DEF AttemptFitsIn
    <3>2. CASE saRun.at = "settlePre"
      BY <1>i, <2>2, <3>2 DEF AttemptFitsIn, SentFits, PreBoundary
    <3> QED
      BY <2>1, <3>1, <3>2
  <2>11. SentFits(rec, p, saSent, Kept)
    <3>1. \A b \in saSent : rec[b] = saReceipt[b]
      BY <1>t, <2>8, <2>9, <2>10
    <3> QED
      BY <1>i, <2>2, <3>1 DEF SentFits
  <2>12. CASE saRun' = c /\ saReceipt'[p] = r
    <3>1. c.at = "clear" /\ c.back = saRun.back /\ c.phase = saRun.phase
      BY <2>6 DEF MovedTo
    <3>2. HostFits(saHost, c)
      BY <1>h, <3>1 DEF SaSettling
    <3>3. PhaseFits(c)
      <4>1. saRun.back = "start" => saRun.phase = "PREFLIGHT"
        BY <1>i, <2>1 DEF PhaseFits, SaSettling
      <4> QED
        BY <1>p, <3>1, <4>1 DEF SaSettling
    <3>4. AttemptFitsIn(c, rec, p, saSent, Kept)
      BY <2>10, <2>11, <3>1
      DEF AttemptFitsIn, SaActive, SaBefore, SaAfter, SaUndoing, SaRollback, SaSettling
    <3> QED
      BY <1>t, <2>1, <2>2, <2>6, <2>9, <2>12, <3>2, <3>3, <3>4, AuthKeeps DEF MovedTo
  <2>13. CASE saRun' = SaIdle
    BY <1>t, <1>i, <2>1, <2>2, <2>9, <2>11, <2>13, StopsOrBegins DEF AtRest
  <2> QED
    BY <2>8, <2>12, <2>13
<1>4. CASE ClearPointer
  <2>1. /\ saRun.at = "clear" /\ KeepQueue /\ UNCHANGED <<saHost, saReceipt, saFrozen, saSent>>
        /\ \/ saPointer' = 0 /\ saRun' = GoTo(saRun.back)
           \/ saPointer' \in {saPointer, 0} /\ saRun' = SaIdle
    BY <1>4 DEF ClearPointer
  <2>2. PICK p \in 0..MaxActivations : p = saPointer' /\ p \in {saPointer, 0}
    BY <1>t, <1>z, <2>1
  <2>3. SentFits(saReceipt, p, saSent, Kept)
    <3>1. saPointer \in saSent => PassIsDurable(saReceipt[saPointer]) \/ saPointer \in Kept
      BY <1>i, <2>1 DEF AttemptFitsIn
    <3> QED
      BY <1>i, <2>2, <3>1 DEF SentFits
  <2>4. CASE saPointer' = 0 /\ saRun' = GoTo(saRun.back)
    <3>1. PICK back \in {"idle", "start"} : back = saRun.back /\ back \in SaPlaces
      BY <1>t DEF SaPlaces
    <3>2. PICK c : c = saRun' /\ MovedTo(c, saRun, back)
      BY <1>t, <2>4, <3>1, GoesTo DEF GoTo
    <3>3. c.at = back /\ c.back = back /\ c.phase = saRun.phase
      BY <3>1, <3>2 DEF MovedTo
    <3>4. HostFits(saHost, c)
      BY <1>h, <3>3
    <3>5. PhaseFits(c)
      <4>1. back = "start" => saRun.phase = "PREFLIGHT"
        BY <1>i, <2>1, <3>1 DEF PhaseFits, SaSettling
      <4> QED
        BY <1>p, <3>3, <4>1
    <3>6. AttemptFitsIn(c, saReceipt, p, saSent, Kept)
      BY <2>2, <2>3, <2>4, <3>3
      DEF AttemptFitsIn, SaActive, SaBefore, SaAfter, SaUndoing, SaRollback, SaSettling
    <3> QED
      BY <1>t, <2>1, <2>2, <3>2, <3>4, <3>5, <3>6, AuthKeeps DEF MovedTo
  <2>5. CASE saRun' = SaIdle
    BY <1>t, <1>i, <2>1, <2>2, <2>3, <2>5, StopsOrBegins DEF AtRest
  <2> QED
    BY <2>1, <2>4, <2>5
<1>5. CASE SaKilled
  <2>1. saRun' = SaIdle /\ KeepQueue /\ UNCHANGED <<saHost, saReceipt, saFrozen, saPointer, saSent>>
    BY <1>5 DEF SaKilled
  <2> QED
    BY <1>t, <1>i, <2>1, StopsOrBegins DEF AtRest
<1> QED
  BY <1>1, <1>2, <1>3, <1>4, <1>5

(* A grant written by the combined service comes before the state is copied. *)
LEMMA GrantKeeps ==
  ASSUME AuthInv, GrantWritten
  PROVE  AuthInv'
<1>t. saRun \in SaRuns /\ saHost \in SaHosts /\ saReceipt \in [Activations -> SaReceipts]
        /\ saPointer \in 0..MaxActivations /\ saSent \in SUBSET Activations
  BY DEF AuthInv, AuthTyped
<1>i. /\ HostFits(saHost, saRun) /\ PhaseFits(saRun)
      /\ AttemptFitsIn(saRun, saReceipt, saPointer, saSent, Kept) /\ Served(saHost)
  BY DEF AuthInv, HostFits
<1>1. /\ saHost.combined /\ KeepQueue /\ saHost' = [saHost EXCEPT !.grants = saHost.grants + 1]
      /\ UNCHANGED <<saReceipt, saFrozen, saPointer, saRun, saSent>>
  BY DEF GrantWritten
<1>2. PICK done : done = [saHost EXCEPT !.grants = saHost.grants + 1]
  OBVIOUS
<1>3. /\ done \in SaHosts /\ SameSite(done, saHost)
  <2>1. saHost.grants + 1 \in Nat
    BY <1>t DEF SaHosts
  <2> QED
    BY <1>t, <1>2, <2>1 DEF SaHosts, SameSite
<1>4. saRun.at \notin SaCopied
  BY <1>i, <1>1 DEF HostFits
<1>5. Served(done)
  BY <1>i, <1>1, <1>3 DEF Served, SameSite
<1>6. HostFits(done, saRun)
  BY <1>i, <1>3, <1>4, <1>5 DEF HostFits, SameSite
<1> QED
  BY <1>t, <1>i, <1>1, <1>2, <1>3, <1>6, AuthKeeps

(* What is on record only grows, so an attempt that was told stays told. *)
LEMMA KeptGrows ==
  ASSUME NEW run, NEW rec, NEW p, NEW S, NEW K, NEW L, K \subseteq L,
         AttemptFitsIn(run, rec, p, S, K)
  PROVE  AttemptFitsIn(run, rec, p, S, L)
BY DEF AttemptFitsIn, SentFits

(* The evidence is frozen once, and queued as it was frozen. *)
LEMMA EvidenceSteps ==
  ASSUME AuthInv, Freeze \/ QueueEscape
  PROVE  AuthInv'
<1>t. saRun \in SaRuns /\ saHost \in SaHosts /\ saReceipt \in [Activations -> SaReceipts]
        /\ saPointer \in 0..MaxActivations /\ saSent \in SUBSET Activations /\ AuthTyped
  BY DEF AuthInv, AuthTyped
<1>i. /\ HostFits(saHost, saRun) /\ PhaseFits(saRun)
      /\ AttemptFitsIn(saRun, saReceipt, saPointer, saSent, Kept)
      /\ SentFits(saReceipt, saPointer, saSent, Kept) /\ Served(saHost)
  BY DEF AuthInv, AttemptFitsIn, HostFits
<1>f. FrozenFits(saFrozen, failFiles, failJournal, failLaunch)
  BY DEF AuthInv
<1>g. saRun.at \in {"freeze", "queue"} /\ UNCHANGED <<saHost, saReceipt, saPointer, saSent>>
  BY DEF Freeze, QueueEscape
<1>p. PICK p \in Activations : p = saPointer
  BY <1>i, <1>g DEF AttemptFitsIn, SaSettling
<1>k. PICK K : K = Kept
  OBVIOUS
<1>b. saRun.back = "start" => saRun.phase = "PREFLIGHT"
  BY <1>i, <1>g DEF PhaseFits, SaSettling
<1>n. ASSUME NEW at \in {"queue", "clear"}, NEW L, at = "clear" => p \in L, K \subseteq L,
             NEW c, c = GoTo(at)
      PROVE  c \in SaRuns /\ HostFits(saHost, c) /\ PhaseFits(c)
               /\ AttemptFitsIn(c, saReceipt, saPointer, saSent, L)
  <2>1. at \in SaPlaces
    BY DEF SaPlaces, SaSettling
  <2>2. MovedTo(c, saRun, at)
    BY <1>t, <1>n, <2>1, GoesTo DEF GoTo
  <2>3. c \in SaRuns /\ c.at = at /\ c.back = saRun.back /\ c.phase = saRun.phase
    BY <2>2 DEF MovedTo
  <2>4. HostFits(saHost, c)
    BY <1>i, <2>3
    DEF HostFits, SaBefore, SaGated, SaCopied, SaSplitUp, SaRouted, SaAfter, SaRollback
  <2>5. PhaseFits(c)
    BY <1>b, <2>3 DEF PhaseFits, SaBefore, SaAfter, SaSettling
  <2>6. SentFits(saReceipt, saPointer, saSent, L)
    BY <1>i, <1>k, <1>n DEF SentFits
  <2>7. AttemptFitsIn(c, saReceipt, saPointer, saSent, L)
    BY <1>p, <1>n, <2>3, <2>6
    DEF AttemptFitsIn, SaActive, SaBefore, SaAfter, SaUndoing, SaRollback, SaSettling
  <2> QED
    BY <2>3, <2>4, <2>5, <2>7
<1>r. ASSUME NEW L, K \subseteq L, NEW c, c = SaIdle
      PROVE  c \in SaRuns /\ HostFits(saHost, c) /\ PhaseFits(c)
               /\ AttemptFitsIn(c, saReceipt, saPointer, saSent, L)
  <2>1. SentFits(saReceipt, saPointer, saSent, L)
    BY <1>i, <1>k, <1>r DEF SentFits
  <2>2. AtRest(c)
    BY <1>r DEF AtRest
  <2> QED
    BY <1>i, <2>1, <2>2, RestFits
<1>1. CASE Freeze
  <2>1. saRun.at = "freeze" /\ KeepQueue
    BY <1>1 DEF Freeze
  <2>2. PICK r \in IF saFrozen[p] # {} THEN saFrozen[p]
                   ELSE {EscapeRecord(p, saReceipt[p], s) : s \in {b.stamp : b \in FailBodies}} :
          \/ saFrozen' = [saFrozen EXCEPT ![p] = {r}] /\ saRun' = GoTo("queue")
          \/ saFrozen' \in {saFrozen, [saFrozen EXCEPT ![p] = {r}]} /\ saRun' = SaIdle
    BY <1>1, <1>p DEF Freeze
  <2>3. saFrozen \in [Activations -> SUBSET SaRecords]
          /\ \A a \in Activations : \A q, s \in saFrozen[a] : q = s /\ q.attempt = a
    BY <1>f DEF FrozenFits
  <2>4. r \in SaRecords /\ r.attempt = p
    <3>1. CASE saFrozen[p] # {}
      BY <1>p, <2>2, <2>3, <3>1
    <3>2. CASE saFrozen[p] = {}
      <4>1. PICK b \in FailBodies : r = EscapeRecord(p, saReceipt[p], b.stamp)
        BY <2>2, <3>2
      <4>2. b.stamp \in Nat
        BY StableAuthConstants
      <4>3. PICK e : e = saReceipt[p].confirmed /\ e \in BOOLEAN
        BY <1>t DEF SaReceipts
      <4>4. r = [attempt |-> p, body |-> [proven |-> e, stamp |-> b.stamp]]
        BY <4>1, <4>3 DEF EscapeRecord
      <4> QED
        BY <4>2, <4>3, <4>4 DEF SaRecords
    <3> QED
      BY <3>1, <3>2
  <2>5. saFrozen[p] \subseteq {r}
    BY <1>p, <2>2, <2>3
  <2>6. PICK fz \in [Activations -> SUBSET SaRecords] :
          /\ fz = saFrozen'
          /\ \A a \in Activations : saFrozen[a] \subseteq fz[a] /\ \A q, s \in fz[a] : q = s /\ q.attempt = a
    <3>1. CASE saFrozen' = saFrozen
      BY <2>3, <3>1
    <3>2. CASE saFrozen' = [saFrozen EXCEPT ![p] = {r}]
      <4>1. PICK fz : fz = [saFrozen EXCEPT ![p] = {r}]
        OBVIOUS
      <4>2. /\ fz \in [Activations -> SUBSET SaRecords] /\ fz[p] = {r}
            /\ \A a \in Activations \ {p} : fz[a] = saFrozen[a]
        BY <2>3, <2>4, <4>1
      <4>3. ASSUME NEW a \in Activations
            PROVE  saFrozen[a] \subseteq fz[a] /\ \A q, s \in fz[a] : q = s /\ q.attempt = a
        <5>1. CASE a = p
          BY <2>4, <2>5, <4>2, <5>1
        <5>2. CASE a # p
          BY <2>3, <4>2, <5>2
        <5> QED
          BY <5>1, <5>2
      <4> QED
        BY <3>2, <4>1, <4>2, <4>3
    <3> QED
      BY <2>2, <3>1, <3>2
  <2>7. FrozenIn(saFrozen) \subseteq FrozenIn(fz)
    BY <2>6 DEF FrozenIn, SaRecords
  <2>8. FrozenFits(fz, failFiles, failJournal, failLaunch)
    <3>1. PICK A, B, J, fl : A = FrozenIn(saFrozen) /\ B = FrozenIn(fz) /\ J = failJournal /\ fl = failLaunch
      OBVIOUS
    <3>2. \A s \in Seq(A) : s \in Seq(B)
      BY <2>7, <3>1
    <3>3. SaLaunches(A, J) \subseteq SaLaunches(B, J)
      BY <3>2 DEF SaLaunches
    <3>4. fl \in [FailLaunches -> SaLaunches(A, J)]
      BY <1>f, <3>1 DEF FrozenFits
    <3>5. fl \in [FailLaunches -> SaLaunches(B, J)]
      BY <3>3, <3>4
    <3> QED
      BY <1>f, <2>6, <2>7, <3>1, <3>5 DEF FrozenFits
  <2>9. KeepQueue /\ Kept' = K
    BY <1>k, <2>1 DEF KeepQueue, failVars, Kept
  <2>10. FrozenFits(saFrozen, failFiles, failJournal, failLaunch)'
    BY <2>6, <2>8, <2>9 DEF KeepQueue, failVars
  <2>11. PICK c : c = saRun' /\ c \in SaRuns /\ HostFits(saHost, c) /\ PhaseFits(c)
                    /\ AttemptFitsIn(c, saReceipt, saPointer, saSent, K)
    <3>1. CASE saRun' = GoTo("queue")
      BY <1>n, <3>1
    <3>2. CASE saRun' = SaIdle
      BY <1>r, <3>2
    <3> QED
      BY <2>2, <3>1, <3>2
  <2>12. AuthTyped'
    BY <1>t, <1>g, <2>11 DEF AuthTyped
  <2> QED
    BY <1>g, <2>9, <2>10, <2>11, <2>12 DEF AuthInv
<1>2. CASE QueueEscape
  <2>1. saRun.at = "queue" /\ UNCHANGED <<saFrozen, failJournal, failLaunch>>
    BY <1>2 DEF QueueEscape
  <2>2. PICK r \in saFrozen[p] :
          \/ Enqueue(r) /\ saRun' = IF EnqueueAnswer(r) = "PENDING_SYNC" THEN GoTo("clear") ELSE SaIdle
          \/ UNCHANGED <<failFiles, failKnown>> /\ saRun' = SaIdle
    BY <1>2, <1>p DEF QueueEscape
  <2>3. r \in SaRecords /\ r.attempt = p /\ r \in FrozenIn(saFrozen)
    BY <1>f, <1>p DEF FrozenFits, FrozenIn
  <2>4. failFiles' = failFiles \/ failFiles' = failFiles \cup {r}
    BY <2>2 DEF Enqueue
  <2>5. PICK ff : /\ ff = failFiles' /\ IsFiniteSet(ff)
                  /\ ff \subseteq FrozenIn(saFrozen) /\ failFiles \subseteq ff
    <3>1. IsFiniteSet(failFiles) /\ failFiles \subseteq FrozenIn(saFrozen)
      BY <1>f DEF FrozenFits
    <3>2. IsFiniteSet(failFiles \cup {r})
      BY <3>1, FS_AddElement
    <3> QED
      BY <2>3, <2>4, <3>1, <3>2
  <2>6. FrozenFits(saFrozen, ff, failJournal, failLaunch)
    BY <1>f, <2>5 DEF FrozenFits
  <2>7. FrozenFits(saFrozen, failFiles, failJournal, failLaunch)'
    BY <2>1, <2>5, <2>6
  <2>8. PICK L : L = Kept' /\ K \subseteq L /\ (r \in ff => p \in L)
    <3>1. Kept' = {q.attempt : q \in ff \cup failJournal}
      BY <2>1, <2>5 DEF Kept
    <3>2. K \subseteq Kept'
      BY <1>k, <2>5, <3>1 DEF Kept
    <3>3. r \in ff => p \in Kept'
      BY <2>3, <3>1
    <3> QED
      BY <3>2, <3>3
  <2>9. PICK c : c = saRun' /\ c \in SaRuns /\ HostFits(saHost, c) /\ PhaseFits(c)
                   /\ AttemptFitsIn(c, saReceipt, saPointer, saSent, L)
    <3>1. CASE saRun' = GoTo("clear") /\ failFiles' = failFiles \cup {r}
      <4>1. p \in L
        BY <2>5, <2>8, <3>1
      <4> QED
        BY <1>n, <2>8, <3>1, <4>1
    <3>2. CASE saRun' = SaIdle
      BY <1>r, <2>8, <3>2
    <3> QED
      BY <2>2, <3>1, <3>2 DEF Enqueue
  <2>10. AuthTyped'
    BY <1>t, <1>g, <2>9 DEF AuthTyped
  <2> QED
    BY <1>g, <2>7, <2>8, <2>9, <2>10 DEF AuthInv
<1> QED
  BY <1>1, <1>2

(* A launch moves records from the queue to the journal and loses none. *)
LEMMA QueueMovesOn ==
  ASSUME AuthInv, NEW l \in FailLaunches, LaunchSteps(l), UNCHANGED saOwnVars
  PROVE  AuthInv'
<1>u. UNCHANGED <<saHost, saReceipt, saFrozen, saPointer, saRun, saSent>>
  BY DEF saOwnVars
<1>1. PICK R, F, J, fl : /\ R = FrozenIn(saFrozen) /\ F = failFiles /\ J = failJournal
                         /\ fl = failLaunch
  OBVIOUS
<1>2. /\ F \subseteq R /\ J \subseteq R /\ IsFiniteSet(F)
      /\ fl \in [FailLaunches -> SaLaunches(R, J)]
      /\ \A m \in FailLaunches : fl[m].at = "unlink" => fl[m].acks # <<>>
  BY <1>1 DEF AuthInv, FrozenFits
<1>3. PICK x : x = fl[l] /\ x \in SaLaunches(R, J) /\ (x.at = "unlink" => x.acks # <<>>)
  BY <1>2
<1>4. /\ x.frames \in Seq(R) /\ x.acks \in Seq(J) /\ x.failed \in BOOLEAN
      /\ x.at \in {"idle", "replay", "ack", "unlink", "done"}
  BY <1>3 DEF SaLaunches
<1>w. ASSUME NEW ff, failFiles' = ff, ff \subseteq R, IsFiniteSet(ff),
             NEW jj, failJournal' = jj, J \subseteq jj, jj \subseteq R,
             \A q \in F : q \in ff \/ \E j \in jj : j.attempt = q.attempt,
             NEW y \in SaLaunches(R, jj), y.at = "unlink" => y.acks # <<>>,
             failLaunch' = [fl EXCEPT ![l] = y]
      PROVE  AuthInv'
  <2>1. \A s \in Seq(J) : s \in Seq(jj)
    BY <1>w
  <2>2. SaLaunches(R, J) \subseteq SaLaunches(R, jj)
    BY <2>1 DEF SaLaunches
  <2>3. PICK gl : gl = [fl EXCEPT ![l] = y]
    OBVIOUS
  <2>4. /\ gl \in [FailLaunches -> SaLaunches(R, jj)]
        /\ gl[l] = y /\ \A m \in FailLaunches \ {l} : gl[m] = fl[m]
    BY <1>2, <2>2, <2>3
  <2>5. FrozenFits(saFrozen, ff, jj, gl)
    BY <1>1, <1>2, <1>w, <2>4 DEF AuthInv, FrozenFits
  <2>6. FrozenFits(saFrozen, failFiles, failJournal, failLaunch)'
    BY <1>u, <1>w, <2>3, <2>5
  <2>7. PICK K, L : K = Kept /\ L = Kept'
    OBVIOUS
  <2>8. K \subseteq L
    <3>1. L = {q.attempt : q \in ff \cup jj}
      BY <1>w, <2>7 DEF Kept
    <3>2. K = {q.attempt : q \in F \cup J}
      BY <1>1, <2>7 DEF Kept
    <3> QED
      BY <1>w, <3>1, <3>2
  <2>9. AttemptFitsIn(saRun, saReceipt, saPointer, saSent, L)
    BY <2>7, <2>8, KeptGrows DEF AuthInv
  <2>10. AuthTyped'
    BY <1>u DEF AuthInv, AuthTyped
  <2> QED
    BY <1>u, <2>6, <2>7, <2>9, <2>10 DEF AuthInv
<1>5. CASE LaunchFrames(l)
  <2>1. PICK s \in QueueFrames :
          failLaunch' = [failLaunch EXCEPT ![l].at = "replay", ![l].frames = s]
    BY <1>5 DEF LaunchFrames
  <2>2. UNCHANGED <<failFiles, failJournal>>
    BY <1>5 DEF LaunchFrames
  <2>3. s \in Seq(R)
    <3>1. PICK n \in Nat : n = Cardinality(F)
      BY <1>2, FS_CardinalityType
    <3>2. s \in [1..n -> F]
      BY <1>1, <3>1 DEF QueueFrames
    <3>3. s \in [1..n -> R]
      BY <1>2, <3>2
    <3> QED
      BY <3>3
  <2>4. PICK y : y = [x EXCEPT !.at = "replay", !.frames = s]
    OBVIOUS
  <2>5. y \in SaLaunches(R, J) /\ y.at = "replay"
    BY <1>3, <2>3, <2>4 DEF SaLaunches
  <2>6. failLaunch' = [fl EXCEPT ![l] = y]
    BY <1>1, <1>2, <1>3, <2>1, <2>4
  <2> QED
    BY <1>1, <1>2, <1>w, <2>2, <2>5, <2>6
<1>6. CASE LaunchReplay(l)
  <2>1. UNCHANGED failFiles
    BY <1>6 DEF LaunchReplay
  <2>2. CASE x.frames = <<>> \/ ~Journaled(Head(x.frames))
    <3>1. \/ failLaunch' = [failLaunch EXCEPT ![l].at = "ack"]
          \/ failLaunch' = [failLaunch EXCEPT ![l].at = "ack", ![l].failed = TRUE]
      BY <1>6, <1>1, <1>3, <2>2 DEF LaunchReplay
    <3>2. UNCHANGED failJournal
      BY <1>6, <1>1, <1>3, <2>2 DEF LaunchReplay
    <3>3. PICK y, z : y = [x EXCEPT !.at = "ack"] /\ z = [x EXCEPT !.at = "ack", !.failed = TRUE]
      OBVIOUS
    <3>4. y \in SaLaunches(R, J) /\ z \in SaLaunches(R, J) /\ y.at = "ack" /\ z.at = "ack"
      BY <1>3, <3>3 DEF SaLaunches
    <3>5. failLaunch' = [fl EXCEPT ![l] = y] \/ failLaunch' = [fl EXCEPT ![l] = z]
      BY <1>1, <1>2, <1>3, <3>1, <3>3
    <3> QED
      BY <1>1, <1>2, <1>w, <2>1, <3>2, <3>4, <3>5
  <2>3. CASE x.frames # <<>> /\ Journaled(Head(x.frames))
    <3>1. PICK r, t : r = Head(x.frames) /\ t = Tail(x.frames)
      OBVIOUS
    <3>2. r \in R /\ t \in Seq(R)
      BY <1>4, <2>3, <3>1
    <3>3. /\ failJournal' = J \cup {r}
          /\ failLaunch' = [failLaunch EXCEPT ![l].frames = Tail(@), ![l].acks = Append(@, r)]
      BY <1>6, <1>1, <1>3, <2>3, <3>1 DEF LaunchReplay
    <3>4. PICK jj : jj = J \cup {r}
      OBVIOUS
    <3>5. J \subseteq jj /\ r \in jj /\ jj \subseteq R
      BY <1>2, <3>2, <3>4
    <3>6. PICK k : k = Append(x.acks, r) /\ k \in Seq(jj)
      <4>1. x.acks \in Seq(jj)
        BY <1>4, <3>5
      <4>2. PICK s : s = x.acks /\ s \in Seq(jj)
        BY <4>1
      <4>3. Append(s, r) \in Seq(jj)
        BY <3>5, <4>2
      <4> QED
        BY <4>2, <4>3
    <3>7. PICK y : y = [x EXCEPT !.frames = t, !.acks = k]
      OBVIOUS
    <3>8. y \in SaLaunches(R, jj) /\ y.acks = k /\ y.at = x.at
      BY <1>3, <3>2, <3>6, <3>7 DEF SaLaunches
    <3>9. y.acks # <<>>
      BY <1>4, <3>6, <3>8
    <3>10. failLaunch' = [fl EXCEPT ![l] = y]
      BY <1>1, <1>2, <1>3, <3>1, <3>3, <3>6, <3>7
    <3> QED
      BY <1>1, <1>2, <1>w, <2>1, <3>3, <3>4, <3>5, <3>8, <3>9, <3>10
  <2> QED
    BY <2>2, <2>3
<1>7. CASE LaunchAck(l)
  <2>1. UNCHANGED <<failFiles, failJournal>>
    BY <1>7 DEF LaunchAck
  <2>2. \/ failLaunch' = [failLaunch EXCEPT ![l].at = "done"]
        \/ failLaunch' = [failLaunch EXCEPT ![l].at = "unlink"] /\ x.acks # <<>>
        \/ failLaunch' = [failLaunch EXCEPT ![l].at = "done", ![l].failed = TRUE]
    BY <1>7, <1>1, <1>3 DEF LaunchAck
  <2>3. PICK y, v, z : /\ y = [x EXCEPT !.at = "done"] /\ v = [x EXCEPT !.at = "unlink"]
                       /\ z = [x EXCEPT !.at = "done", !.failed = TRUE]
    OBVIOUS
  <2>4. /\ y \in SaLaunches(R, J) /\ v \in SaLaunches(R, J) /\ z \in SaLaunches(R, J)
        /\ y.at = "done" /\ z.at = "done" /\ v.acks = x.acks
    BY <1>3, <2>3 DEF SaLaunches
  <2>5. \/ failLaunch' = [fl EXCEPT ![l] = y]
        \/ failLaunch' = [fl EXCEPT ![l] = v] /\ v.acks # <<>>
        \/ failLaunch' = [fl EXCEPT ![l] = z]
    BY <1>1, <1>2, <1>3, <2>2, <2>3, <2>4
  <2> QED
    BY <1>1, <1>2, <1>w, <2>1, <2>4, <2>5
<1>8. CASE LaunchUnlink(l)
  <2>1. /\ x.at = "unlink" /\ UNCHANGED failJournal
        /\ failFiles' = {f \in F : f.attempt # Head(x.acks).attempt}
        /\ failLaunch' = [failLaunch EXCEPT ![l].at = "ack", ![l].acks = Tail(@)]
    BY <1>8, <1>1, <1>3 DEF LaunchUnlink
  <2>2. PICK r, t : r = Head(x.acks) /\ t = Tail(x.acks) /\ r \in J /\ t \in Seq(J)
    <3>1. PICK s : s = x.acks /\ s \in Seq(J) /\ s # <<>>
      BY <1>3, <1>4, <2>1
    <3>2. Head(s) \in J /\ Tail(s) \in Seq(J)
      BY <3>1
    <3> QED
      BY <3>1, <3>2
  <2>3. PICK ff : ff = {f \in F : f.attempt # r.attempt}
    OBVIOUS
  <2>4. ff \subseteq F /\ IsFiniteSet(ff)
    BY <1>2, <2>3, FS_Subset
  <2>5. \A q \in F : q \in ff \/ \E j \in J : j.attempt = q.attempt
    BY <2>2, <2>3
  <2>6. PICK y : y = [x EXCEPT !.at = "ack", !.acks = t]
    OBVIOUS
  <2>7. y \in SaLaunches(R, J) /\ y.at = "ack"
    BY <1>3, <2>2, <2>6 DEF SaLaunches
  <2>8. failLaunch' = [fl EXCEPT ![l] = y]
    BY <1>1, <1>2, <1>3, <2>1, <2>2, <2>6
  <2>9. failFiles' = ff
    BY <2>1, <2>2, <2>3
  <2> QED
    BY <1>1, <1>2, <1>w, <2>1, <2>4, <2>5, <2>7, <2>8, <2>9
<1>9. CASE LaunchDies(l)
  <2>1. UNCHANGED <<failFiles, failJournal>>
    BY <1>9 DEF LaunchDies
  <2>2. PICK y : y = [at |-> "idle", frames |-> <<>>, acks |-> <<>>, failed |-> FALSE]
    OBVIOUS
  <2>3. y \in SaLaunches(R, J) /\ y.at = "idle"
    BY <2>2 DEF SaLaunches
  <2>4. failLaunch' = [fl EXCEPT ![l] = y]
    BY <1>9, <1>1, <2>2 DEF LaunchDies
  <2> QED
    BY <1>1, <1>2, <1>w, <2>1, <2>3, <2>4
<1> QED
  BY <1>5, <1>6, <1>7, <1>8, <1>9 DEF LaunchSteps

(* The combined site, no attempt and an empty queue. *)
LEMMA AuthStarts == SaInit => AuthInv
<1> SUFFICES ASSUME SaInit PROVE AuthInv
  OBVIOUS
<1>1. SaHost0 \in SaHosts /\ SaBlank \in SaReceipts /\ Served(SaHost0)
  BY DEF SaHost0, SaHosts, SaBlank, SaReceipts, Served
<1>2. PICK K : K = Kept
  OBVIOUS
<1>3. PICK c : c = saRun /\ AtRest(c)
  BY DEF SaInit, AtRest
<1>4. SentFits(saReceipt, saPointer, saSent, K)
  BY DEF SentFits, SaInit
<1>5. c \in SaRuns /\ HostFits(SaHost0, c) /\ PhaseFits(c)
        /\ AttemptFitsIn(c, saReceipt, saPointer, saSent, K)
  BY <1>1, <1>3, <1>4, RestFits
<1>6. AuthTyped
  BY <1>1, <1>3, <1>5, StableAuthConstants DEF AuthTyped, SaInit
<1>7. FrozenFits(saFrozen, failFiles, failJournal, failLaunch)
  <2>1. saFrozen = [a \in Activations |-> {}] /\ failFiles = {} /\ failJournal = {}
    BY DEF SaInit, FailInit
  <2>2. PICK y : y = [at |-> "idle", frames |-> <<>>, acks |-> <<>>, failed |-> FALSE]
    OBVIOUS
  <2>3. PICK R : R = FrozenIn(saFrozen)
    OBVIOUS
  <2>4. y \in SaLaunches(R, {}) /\ y.at = "idle"
    BY <2>2 DEF SaLaunches
  <2>5. failLaunch = [l \in FailLaunches |-> y]
    BY <2>2 DEF SaInit, FailInit
  <2>6. IsFiniteSet({})
    BY FS_EmptySet
  <2> QED
    <3>1. failLaunch \in [FailLaunches -> SaLaunches(R, {})] /\ \A l \in FailLaunches : failLaunch[l].at = "idle"
      BY <2>4, <2>5
    <3>2. saFrozen \in [Activations -> SUBSET SaRecords] /\ \A a \in Activations : saFrozen[a] = {}
      BY <2>1
    <3> QED
      BY <2>1, <2>3, <2>6, <3>1, <3>2 DEF FrozenFits
<1> QED
  BY <1>2, <1>3, <1>5, <1>6, <1>7 DEF AuthInv, SaInit

(* Every step keeps the invariant. *)
LEMMA AuthStep == AuthInv /\ [SaNext]_saVars => AuthInv'
<1> SUFFICES ASSUME AuthInv, [SaNext]_saVars PROVE AuthInv'
  OBVIOUS
<1>1. CASE SaForward
  BY <1>1, AttemptBegins, OperationSteps, RecordSteps, ExposureSteps DEF SaForward
<1>2. CASE SaBackward
  BY <1>2, ReportSteps, RollbackSteps DEF SaBackward
<1>3. CASE SaReconcile
  BY <1>3, SettlingSteps, EvidenceSteps DEF SaReconcile
<1>4. CASE GrantWritten
  BY <1>4, GrantKeeps
<1>5. CASE SaKilled
  BY <1>5, SettlingSteps
<1>6. ASSUME NEW l \in FailLaunches, LaunchSteps(l), UNCHANGED saOwnVars PROVE AuthInv'
  BY <1>6, QueueMovesOn
<1>7. CASE UNCHANGED saVars
  <2>1. UNCHANGED saOwnVars /\ UNCHANGED failVars
    BY <1>7 DEF saVars
  <2>3. AuthTyped /\ HostFits(saHost, saRun) /\ PhaseFits(saRun)
          /\ AttemptFitsIn(saRun, saReceipt, saPointer, saSent, Kept)
    BY DEF AuthInv
  <2>4. FrozenFits(saFrozen, failFiles, failJournal, failLaunch)
    BY DEF AuthInv
  <2>5. Kept' = Kept
    BY <2>1 DEF failVars, Kept
  <2>6. UNCHANGED <<saHost, saReceipt, saFrozen, saPointer, saRun, saSent, failFiles, failJournal, failLaunch>>
    BY <2>1 DEF saOwnVars, failVars
  <2>7. AuthTyped'
    BY <2>3, <2>6 DEF AuthTyped
  <2> QED
    BY <2>3, <2>4, <2>5, <2>6, <2>7 DEF AuthInv
<1> QED
  BY <1>1, <1>2, <1>3, <1>4, <1>5, <1>6, <1>7 DEF SaNext, SaCommand

(* What the invariant says of the public site and of the record. *)
LEMMA AuthImplies == AuthInv => SiteStaysServed /\ EscapesAreOnRecord
<1> SUFFICES ASSUME AuthInv PROVE SiteStaysServed /\ EscapesAreOnRecord
  OBVIOUS
<1>t. saRun \in SaRuns /\ saHost \in SaHosts /\ saPointer \in 0..MaxActivations
        /\ saSent \subseteq Activations
  BY DEF AuthInv, AuthTyped
<1>i. /\ HostFits(saHost, saRun) /\ Served(saHost)
      /\ AttemptFitsIn(saRun, saReceipt, saPointer, saSent, Kept)
      /\ SentFits(saReceipt, saPointer, saSent, Kept)
      /\ FrozenFits(saFrozen, failFiles, failJournal, failLaunch)
  BY DEF AuthInv, HostFits, AttemptFitsIn
<1>1. PublicIsServed
  BY <1>i DEF PublicIsServed, Served
<1>2. SplitKnowsEveryGrant
  BY <1>i DEF SplitKnowsEveryGrant, Served
<1>3. FailLeavesSiteAsFound
  <2> SUFFICES ASSUME saRun.at = "finish", saRun.mem.status = "FAIL"
               PROVE  saHost = [saRun.pre EXCEPT !.grants = saHost.grants, !.migrated = saHost.migrated]
    BY DEF FailLeavesSiteAsFound
  <2>1. PICK h, g : h = saHost /\ g = saRun.pre
    OBVIOUS
  <2>2. h \in SaHosts /\ g \in SaHosts
    BY <1>t, <2>1 DEF SaRuns
  <2>3. SameSite(h, g)
    BY <1>i, <2>1 DEF HostFits
  <2>4. PICK k : k = [g EXCEPT !.grants = h.grants, !.migrated = h.migrated]
    OBVIOUS
  <2>5. /\ k \in SaHosts /\ k.gate = h.gate /\ k.combined = h.combined /\ k.auth = h.auth
        /\ k.edge = h.edge /\ k.split = h.split /\ k.boot = h.boot
        /\ k.grants = h.grants /\ k.migrated = h.migrated
    BY <2>2, <2>3, <2>4 DEF SameSite, SaHosts
  <2>6. h = k
    BY <2>2, <2>5 DEF SaHosts
  <2> QED
    BY <2>1, <2>4, <2>6
<1>4. EscapeIsRecorded
  BY <1>i DEF EscapeIsRecorded, SentFits, Kept
<1>5. EscapeNeverConflicts
  <2> SUFFICES ASSUME saRun.at = "queue", NEW r \in saFrozen[saPointer]
               PROVE  EnqueueAnswer(r) = "PENDING_SYNC" /\ Journaled(r)
    BY DEF EscapeNeverConflicts
  <2>1. saPointer \in Activations
    BY <1>i DEF AttemptFitsIn, SaSettling
  <2>2. r.attempt = saPointer
    BY <1>i, <2>1 DEF FrozenFits
  <2>3. ASSUME NEW f \in failFiles \cup failJournal, f.attempt = r.attempt PROVE f = r
    <3>1. f \in saFrozen[saPointer]
      BY <1>i, <2>2, <2>3 DEF FrozenFits, FrozenIn
    <3> QED
      BY <1>i, <2>1, <3>1 DEF FrozenFits
  <2> QED
    BY <2>3 DEF EnqueueAnswer, Journaled
<1> QED
  BY <1>1, <1>2, <1>3, <1>4, <1>5 DEF SiteStaysServed, EscapesAreOnRecord

\* Through every failed step, interrupt, kill and rollback of activate, for any number of
\* attempts, grants and proxies, an open gate has a complete stack behind it that knows every
\* grant, and a reported FAIL left the site as it was found (stable_auth_deployment.py).
THEOREM SiteIsAlwaysServed == SaSpec => []SiteStaysServed
<1>1. SaSpec => []AuthInv
  BY AuthStarts, AuthStep, PTL DEF SaSpec
<1> QED
  BY <1>1, AuthImplies, PTL

\* An attempt whose ungate was sent is passed, still named by the pointer, or has its failure
\* record in the queue or the journal, and reconciling it again never meets a conflict,
\* wherever the command and the launches die (reconcile_attempt, PendingFailureQueue).
THEOREM EscapesStayOnRecord == SaSpec => []EscapesAreOnRecord
<1>1. SaSpec => []AuthInv
  BY AuthStarts, AuthStep, PTL DEF SaSpec
<1> QED
  BY <1>1, AuthImplies, PTL
=============================================================================
