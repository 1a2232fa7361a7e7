------------------------- MODULE AgentMailboxesProofs -------------------------
(***************************************************************************)
(* What AgentMailboxes guarantees for every set of chats, names and          *)
(* endpoints.  Every operation changes the table in one of four ways: it     *)
(* refreshes a row, creates one, renames one, or moves one to another actor. *)
(* The invariants are proved of those four, the actions are shown to be      *)
(* instances of them.                                                        *)
(***************************************************************************)
EXTENDS AgentMailboxes, TLAPS

Refresh(n) ==
  /\ n \in Registered
  /\ mailboxes' = [mailboxes EXCEPT ![n] = Refreshed(mailboxes[n])]

Create(n, e, a) ==
  /\ n \in Names \ Registered /\ n \notin Reserved
  /\ e \in Endpoints \ UsedEndpoints
  /\ a \in Actors /\ BoundTo(a) = {}
  /\ mailboxes' = [mailboxes EXCEPT ![n] = NewRow(e, a)]

Rename(m, n) ==
  /\ m \in Registered
  /\ n \in Names \ Registered /\ n \notin Reserved
  /\ mailboxes' = [mailboxes EXCEPT ![n] = Refreshed(mailboxes[m]), ![m] = None]

Move(m, n, a) ==
  /\ m \in Registered /\ n \in Names
  /\ n = m \/ (n = Coordinator /\ m = Root /\ n \notin Registered)
  /\ a \in Actors /\ BoundTo(a) \ {m} = {}
  /\ mailboxes[m].generation < MaxGeneration
  /\ mailboxes' = [mailboxes EXCEPT ![m] = None, ![n] = Moved(mailboxes[m], a)]

TableStep ==
  \/ UNCHANGED mailboxes
  \/ \E n \in Names : Refresh(n)
  \/ \E n \in Names, e \in Endpoints, a \in Actors : Create(n, e, a)
  \/ \E m, n \in Names : Rename(m, n)
  \/ \E m, n \in Names, a \in Actors : Move(m, n, a)

TableOK ==
  /\ mailboxes \in [Names -> Row \cup {None}]
  /\ OneNamePerBinding
  /\ CoordinatorIsOne
  /\ TypeFollowsBinding

(* Refreshing a row keeps everything but the recorded host type. *)
LEMMA RefreshedRow ==
  ASSUME NEW r \in Row
  PROVE  /\ Refreshed(r) \in Row
         /\ Refreshed(r).endpoint = r.endpoint
         /\ Refreshed(r).actor = r.actor
         /\ Refreshed(r).generation = r.generation
         /\ Refreshed(r).type = TypeOf[r.actor]
BY DEF Refreshed, Row

(* Moving a row keeps its endpoint and advances its generation by one. *)
LEMMA MovedRow ==
  ASSUME NEW r \in Row, NEW a \in Actors
  PROVE  /\ Moved(r, a).endpoint = r.endpoint
         /\ Moved(r, a).actor = a
         /\ Moved(r, a).type = TypeOf[a]
         /\ Moved(r, a).generation = r.generation + 1
         /\ r.generation < MaxGeneration => Moved(r, a) \in Row
<1>1. r.generation < MaxGeneration => r.generation + 1 \in Generation
  BY MailboxConstants DEF MailboxConstants, Row, Generation
<1> QED
  BY <1>1 DEF Moved, Row

(* A registered name has a row of the right type. *)
LEMMA RegisteredRow ==
  ASSUME TableOK, NEW n \in Registered
  PROVE  n \in Names /\ mailboxes[n] \in Row
BY DEF TableOK, Registered

(* Refreshing one row keeps the table's invariant. *)
LEMMA RefreshKeepsTable ==
  ASSUME TableOK, NEW n \in Names, Refresh(n)
  PROVE  TableOK'
<1>1. mailboxes[n] \in Row /\ n \in Registered
  BY RegisteredRow DEF Refresh
<1>2. PICK r \in Row : r = Refreshed(mailboxes[n])
  BY <1>1, RefreshedRow
<1>3. /\ r.endpoint = mailboxes[n].endpoint
      /\ r.actor = mailboxes[n].actor
      /\ r.type = TypeOf[r.actor]
  BY <1>1, <1>2, RefreshedRow
<1>4. mailboxes' = [mailboxes EXCEPT ![n] = r]
  BY <1>2 DEF Refresh
<1> HIDE DEF Row
<1>5. mailboxes' \in [Names -> Row \cup {None}]
  BY <1>4 DEF TableOK
<1>6. Registered' \subseteq Registered
  BY <1>1, <1>4 DEF Registered, TableOK
<1>7. \A k \in Registered' : /\ mailboxes'[k].endpoint = mailboxes[k].endpoint
                             /\ mailboxes'[k].actor = mailboxes[k].actor
                             /\ \/ mailboxes'[k].type = mailboxes[k].type
                                \/ mailboxes'[k].type = TypeOf[mailboxes'[k].actor]
  BY <1>3, <1>4, <1>6 DEF Registered, TableOK
<1>8. OneNamePerBinding'
  BY <1>6, <1>7 DEF OneNamePerBinding, TableOK
<1>9. CoordinatorIsOne'
  BY <1>6 DEF CoordinatorIsOne, TableOK
<1>10. TypeFollowsBinding'
  BY <1>6, <1>7 DEF TypeFollowsBinding, TableOK
<1> QED
  BY <1>5, <1>8, <1>9, <1>10 DEF TableOK

(* A new row for an unbound actor and an unused endpoint keeps it. *)
LEMMA CreateKeepsTable ==
  ASSUME TableOK, NEW n \in Names, NEW e \in Endpoints, NEW a \in Actors,
         Create(n, e, a)
  PROVE  TableOK'
<1>1. PICK r \in Row : r = NewRow(e, a)
  <2>1. NewRow(e, a) \in Row
    BY MailboxConstants DEF MailboxConstants, NewRow, Row, Generation
  <2> QED
    BY <2>1
<1>2. r.endpoint = e /\ r.actor = a /\ r.type = TypeOf[a]
  BY <1>1 DEF NewRow
<1>3. mailboxes' = [mailboxes EXCEPT ![n] = r]
  BY <1>1 DEF Create
<1> HIDE DEF Row
<1>5. mailboxes' \in [Names -> Row \cup {None}]
  BY <1>3 DEF TableOK
<1>6. Registered' \subseteq Registered \cup {n} /\ n \notin Registered
  BY <1>3 DEF Registered, TableOK, Create
<1>7. \A k \in Registered : mailboxes'[k] = mailboxes[k]
  BY <1>3, <1>6 DEF Registered, TableOK
<1>8. mailboxes'[n] = r
  BY <1>3 DEF TableOK
<1>9. \A k \in Registered : mailboxes[k].endpoint # e /\ mailboxes[k].actor # a
  BY DEF Create, UsedEndpoints, BoundTo
<1>10. OneNamePerBinding'
  BY <1>2, <1>6, <1>7, <1>8, <1>9 DEF OneNamePerBinding, TableOK
<1>11. CoordinatorIsOne'
  BY <1>6 DEF CoordinatorIsOne, TableOK, Create
<1>12. TypeFollowsBinding'
  BY <1>2, <1>6, <1>7, <1>8 DEF TypeFollowsBinding, TableOK
<1> QED
  BY <1>5, <1>10, <1>11, <1>12 DEF TableOK

(* Renaming an ordinary mailbox in place keeps it. *)
LEMMA RenameKeepsTable ==
  ASSUME TableOK, NEW m \in Names, NEW n \in Names, Rename(m, n)
  PROVE  TableOK'
<1>1. mailboxes[m] \in Row /\ m \in Registered /\ m # n
  BY RegisteredRow DEF Rename
<1>2. PICK r \in Row : r = Refreshed(mailboxes[m])
  BY <1>1, RefreshedRow
<1>3. /\ r.endpoint = mailboxes[m].endpoint
      /\ r.actor = mailboxes[m].actor
      /\ r.type = TypeOf[r.actor]
  BY <1>1, <1>2, RefreshedRow
<1>4. mailboxes' = [mailboxes EXCEPT ![n] = r, ![m] = None]
  BY <1>2 DEF Rename
<1> HIDE DEF Row
<1>5. mailboxes' \in [Names -> Row \cup {None}]
  BY <1>4 DEF TableOK
<1>6. Registered' \subseteq (Registered \ {m}) \cup {n} /\ n \notin Registered
  BY <1>1, <1>4 DEF Registered, TableOK, Rename
<1>7. \A k \in Registered \ {m} : mailboxes'[k] = mailboxes[k]
  BY <1>4, <1>6 DEF Registered, TableOK
<1>8. mailboxes'[n] = r
  BY <1>1, <1>4 DEF TableOK
<1>9. OneNamePerBinding'
  BY <1>1, <1>3, <1>6, <1>7, <1>8 DEF OneNamePerBinding, TableOK
<1>10. CoordinatorIsOne'
  BY <1>6 DEF CoordinatorIsOne, TableOK, Rename
<1>11. TypeFollowsBinding'
  BY <1>3, <1>6, <1>7, <1>8 DEF TypeFollowsBinding, TableOK
<1> QED
  BY <1>5, <1>9, <1>10, <1>11 DEF TableOK

(* Moving a row to an actor that owns no other mailbox keeps it. *)
LEMMA MoveKeepsTable ==
  ASSUME TableOK, NEW m \in Names, NEW n \in Names, NEW a \in Actors, Move(m, n, a)
  PROVE  TableOK'
<1>1. mailboxes[m] \in Row /\ m \in Registered
  BY RegisteredRow DEF Move
<1>2. PICK r \in Row : r = Moved(mailboxes[m], a)
  BY <1>1, MovedRow DEF Move
<1>3. /\ r.endpoint = mailboxes[m].endpoint
      /\ r.actor = a
      /\ r.type = TypeOf[a]
  BY <1>1, <1>2 DEF Moved
<1>4. mailboxes' = [mailboxes EXCEPT ![m] = None, ![n] = r]
  BY <1>2 DEF Move
<1> HIDE DEF Row
<1>5. mailboxes' \in [Names -> Row \cup {None}]
  BY <1>4 DEF TableOK
<1>6. Registered' \subseteq (Registered \ {m}) \cup {n}
  BY <1>1, <1>4 DEF Registered, TableOK
<1>7. \A k \in Registered \ {m} : k # n => mailboxes'[k] = mailboxes[k]
  BY <1>4 DEF Registered, TableOK
<1>8. mailboxes'[n] = r
  BY <1>1, <1>4 DEF TableOK
<1>9. \A k \in Registered \ {m} : mailboxes[k].actor # a
  BY DEF Move, BoundTo
<1>10. OneNamePerBinding'
  BY <1>1, <1>3, <1>6, <1>7, <1>8, <1>9 DEF OneNamePerBinding, TableOK
<1>11. CoordinatorIsOne'
  BY <1>1, <1>6, MailboxConstants
     DEF CoordinatorIsOne, TableOK, Move, Reserved, MailboxConstants
<1>12. TypeFollowsBinding'
  BY <1>3, <1>6, <1>7, <1>8 DEF TypeFollowsBinding, TableOK
<1> QED
  BY <1>5, <1>10, <1>11, <1>12 DEF TableOK

(* So does each of the four ways in which the table changes. *)
LEMMA TableStepKeepsTable ==
  ASSUME TableOK, TableStep
  PROVE  TableOK'
<1>1. CASE UNCHANGED mailboxes
  BY <1>1 DEF TableOK, OneNamePerBinding, CoordinatorIsOne, TypeFollowsBinding, Registered
<1> QED
  BY <1>1, RefreshKeepsTable, CreateKeepsTable, RenameKeepsTable, MoveKeepsTable
     DEF TableStep

-----------------------------------------------------------------------------
(* Every action changes the table in one of the four ways. *)

(* Every takeover changes the table in one of those ways. *)
LEMMA TakeoverIsTableStep ==
  ASSUME TableOK, NEW a \in Actors, NEW n \in Names, NEW confirmed \in BOOLEAN,
         TakeoverTransaction(a, n, confirmed)
  PROVE  TableStep
<1>0. mailboxes \in [Names -> Row \cup {None}]
  BY DEF TableOK
<1>1. CASE n \in Reserved
  <2>1. PICK m \in ByName(Coordinator) :
          /\ BoundTo(a) \ {m} = {}
          /\ mailboxes[m].generation < MaxGeneration
          /\ mailboxes' = [mailboxes EXCEPT ![m] = None,
                                            ![Coordinator] = Moved(mailboxes[m], a)]
    BY <1>1 DEF TakeoverTransaction, TakeoverCoordinator
  <2>2. m \in Registered /\ m \in Reserved /\ m \in Names /\ Coordinator \in Names
    BY MailboxConstants DEF ByName, NameKeys, MailboxConstants, Reserved
  <2>3. m = Coordinator \/ (m = Root /\ Coordinator \notin Registered)
    BY <2>2 DEF TableOK, CoordinatorIsOne, Reserved
  <2>4. Move(m, Coordinator, a)
    BY <2>1, <2>2, <2>3 DEF Move
  <2> QED
    BY <2>2, <2>4 DEF TableStep
<1>2. CASE n \notin Reserved /\ TakeoverFree(a, n)
  <2>1. CASE \E e \in Endpoints \ UsedEndpoints :
               BoundTo(a) = {} /\ mailboxes' = [mailboxes EXCEPT ![n] = NewRow(e, a)]
    BY <1>2, <2>1 DEF TakeoverFree, Create, TableStep
  <2>2. CASE \E own \in BoundTo(a) :
               mailboxes' = [mailboxes EXCEPT ![n] = Refreshed(mailboxes[own]),
                                              ![own] = None]
    <3>1. PICK own \in BoundTo(a) :
            mailboxes' = [mailboxes EXCEPT ![n] = Refreshed(mailboxes[own]),
                                           ![own] = None]
      BY <2>2
    <3>2. own \in Names /\ Rename(own, n)
      BY <1>2, <3>1 DEF TakeoverFree, Rename, BoundTo, Registered
    <3> QED
      BY <3>2 DEF TableStep
  <2> QED
    BY <1>2, <2>1, <2>2 DEF TakeoverFree
<1>3. CASE n \notin Reserved /\ TakeoverHeld(a, n, confirmed)
  <2>1. CASE mailboxes[n].actor = a
    BY <1>3, <2>1 DEF TakeoverHeld, Refresh, TableStep
  <2>2. CASE mailboxes[n].actor # a
    <3>1. mailboxes' = [mailboxes EXCEPT ![n] = None, ![n] = Moved(mailboxes[n], a)]
      BY <1>0, <1>3, <2>2 DEF TakeoverHeld
    <3>2. Move(n, n, a)
      BY <1>3, <2>2, <3>1 DEF TakeoverHeld, Move
    <3> QED
      BY <3>2 DEF TableStep
  <2> QED
    BY <2>1, <2>2
<1> QED
  BY <1>1, <1>2, <1>3 DEF TakeoverTransaction

(* So does an approved transfer. *)
LEMMA ApprovalIsTableStep ==
  ASSUME TableOK, NEW id \in RequestId, transfers \in [RequestId -> Request \cup {None}],
         ApproveTransfer(id)
  PROVE  TableStep
<1> DEFINE n == transfers[id].name
<1>1. n \in Names
  BY DEF ApproveTransfer, Request
<1>2. CASE UNCHANGED mailboxes
  BY <1>2 DEF TableStep
<1>3. CASE /\ PreimageHolds(id, n)
           /\ BoundTo(id.destination) \ {n} = {}
           /\ id.generation < MaxGeneration
           /\ mailboxes' = [mailboxes EXCEPT ![n] = Moved(mailboxes[n], id.destination)]
  <2>1. mailboxes' = [mailboxes EXCEPT ![n] = None,
                                       ![n] = Moved(mailboxes[n], id.destination)]
    BY <1>3 DEF TableOK
  <2>2. id.destination \in Actors
    BY DEF RequestId
  <2>3. Move(n, n, id.destination)
    BY <1>1, <1>3, <2>1, <2>2 DEF Move, PreimageHolds
  <2> QED
    BY <1>1, <2>2, <2>3 DEF TableStep
<1> QED
  BY <1>2, <1>3 DEF ApproveTransfer

(* Hence every step of the registry does. *)
LEMMA NextIsTableStep ==
  ASSUME TableOK, MailboxTypeOK, [MailboxNext]_mailboxVars
  PROVE  TableStep
<1> USE DEF MailboxTypeOK
<1>1. ASSUME NEW a \in Actors, NEW n \in Names, RegisterAgent(a, n)
      PROVE  TableStep
  <2>1. CASE \E own \in BoundTo(a) :
               mailboxes' = [mailboxes EXCEPT ![own] = Refreshed(mailboxes[own])]
    BY <2>1 DEF Refresh, TableStep, BoundTo, Registered
  <2>2. CASE ~ \E own \in BoundTo(a) :
               mailboxes' = [mailboxes EXCEPT ![own] = Refreshed(mailboxes[own])]
    BY <1>1, <2>2 DEF RegisterAgent, Create, TableStep
  <2> QED
    BY <2>1, <2>2
<1>2. ASSUME NEW a \in Actors, NEW n \in Names, NEW confirmed \in BOOLEAN,
             AgentTakeover(a, n, confirmed) \/ AgentTakeoverLost(a, n, confirmed)
      PROVE  TableStep
  <2>1. TakeoverTransaction(a, n, confirmed) \/ UNCHANGED mailboxes
    BY <1>2 DEF AgentTakeover, AgentTakeoverLost
  <2> QED
    BY <2>1, TakeoverIsTableStep DEF TableStep
<1>3. ASSUME NEW a \in Actors, RetryTakeover(a)
      PROVE  TableStep
  <2>1. retry[a].name \in Names /\ retry[a].confirmed \in BOOLEAN
    BY <1>3 DEF RetryTakeover, Takeover
  <2>2. TakeoverTransaction(a, retry[a].name, retry[a].confirmed) \/ UNCHANGED mailboxes
    BY <1>3 DEF RetryTakeover
  <2> QED
    BY <2>1, <2>2, TakeoverIsTableStep DEF TableStep
<1>4. ASSUME NEW a \in Actors, NEW n \in Names, RequestTransfer(a, n)
      PROVE  TableStep
  BY <1>4 DEF RequestTransfer, TableStep
<1>5. ASSUME NEW id \in RequestId, ApproveTransfer(id)
      PROVE  TableStep
  BY <1>5, ApprovalIsTableStep
<1>6. CASE UNCHANGED mailboxVars
  BY <1>6 DEF mailboxVars, TableStep
<1> QED
  BY <1>1, <1>2, <1>3, <1>4, <1>5, <1>6 DEF MailboxNext

-----------------------------------------------------------------------------
(* Recorded transfer requests keep their type. *)
LEMMA TransfersStayTyped ==
  ASSUME MailboxTypeOK, MailboxNext
  PROVE  transfers' \in [RequestId -> Request \cup {None}]
<1> USE DEF MailboxTypeOK
<1>1. ASSUME NEW a \in Actors, NEW n \in Names, RequestTransfer(a, n)
      PROVE  transfers' \in [RequestId -> Request \cup {None}]
  <2>1. [name |-> n, status |-> "PENDING", resulting |-> 0] \in Request
    BY DEF Request
  <2> QED
    BY <1>1, <2>1 DEF RequestTransfer
<1>2. ASSUME NEW id \in RequestId, ApproveTransfer(id)
      PROVE  transfers' \in [RequestId -> Request \cup {None}]
  <2>1. transfers[id] \in Request
    BY <1>2 DEF ApproveTransfer
  <2>2. /\ [transfers[id] EXCEPT !.status = "STALE"] \in Request
        /\ [transfers[id] EXCEPT !.status = "CONFLICT"] \in Request
    BY <2>1 DEF Request
  <2>3. id.generation < MaxGeneration => id.generation + 1 \in Generation
    BY MailboxConstants DEF MailboxConstants, RequestId, Generation
  <2>4. id.generation < MaxGeneration =>
          [transfers[id] EXCEPT !.status = "APPROVED",
                                !.resulting = id.generation + 1] \in Request
    BY <2>1, <2>3 DEF Request
  <2> QED
    BY <1>2, <2>1, <2>2, <2>4 DEF ApproveTransfer
<1>3. CASE UNCHANGED transfers
  BY <1>3
<1> QED
  BY <1>1, <1>2, <1>3
     DEF MailboxNext, RegisterAgent, AgentTakeover, AgentTakeoverLost, RetryTakeover

(* Lost takeovers keep their type. *)
LEMMA RetryStaysTyped ==
  ASSUME MailboxTypeOK, MailboxNext
  PROVE  retry' \in [Actors -> Takeover \cup {None}]
<1> USE DEF MailboxTypeOK
<1>1. ASSUME NEW a \in Actors, NEW n \in Names, NEW confirmed \in BOOLEAN,
             AgentTakeoverLost(a, n, confirmed)
      PROVE  retry' \in [Actors -> Takeover \cup {None}]
  <2>1. [name |-> n, confirmed |-> confirmed] \in Takeover
    BY DEF Takeover
  <2> QED
    BY <1>1, <2>1 DEF AgentTakeoverLost
<1>2. ASSUME NEW a \in Actors, RetryTakeover(a)
      PROVE  retry' \in [Actors -> Takeover \cup {None}]
  BY <1>2 DEF RetryTakeover
<1>3. CASE UNCHANGED retry
  BY <1>3
<1> QED
  BY <1>1, <1>2, <1>3
     DEF MailboxNext, RegisterAgent, AgentTakeover, RequestTransfer, ApproveTransfer

(* The inductive invariant: the type invariant with the three invariants of   *)
(* the table, none of which is inductive without the others.                  *)
RegistryInv == MailboxTypeOK /\ TableOK

(* The empty table and a legacy Coordinator row satisfy the invariant. *)
LEMMA InitTable ==
  ASSUME MailboxInit
  PROVE  RegistryInv
<1>1. CASE mailboxes = Unregistered
  BY <1>1, MailboxConstants
     DEF MailboxInit, Unregistered, RegistryInv, TableOK, MailboxTypeOK, OneNamePerBinding,
         CoordinatorIsOne, TypeFollowsBinding, Registered, Reserved, MailboxConstants
<1>2. CASE mailboxes \in LegacyCoordinator
  <2>1. PICK n \in Reserved, e \in Endpoints, a \in Actors :
          mailboxes = [Unregistered EXCEPT ![n] = [NewRow(e, a) EXCEPT !.type = None]]
    BY <1>2 DEF LegacyCoordinator
  <2>2. PICK r \in Row : r = [NewRow(e, a) EXCEPT !.type = None] /\ r.type = None
    <3>1. [NewRow(e, a) EXCEPT !.type = None] \in Row
      BY MailboxConstants DEF MailboxConstants, NewRow, Row, Generation
    <3> QED
      BY <3>1 DEF NewRow
  <2>3. n \in Names /\ mailboxes = [k \in Names |-> IF k = n THEN r ELSE None]
    BY <2>1, <2>2, MailboxConstants DEF Unregistered, MailboxConstants
  <2> HIDE DEF Row
  <2>4. mailboxes \in [Names -> Row \cup {None}]
    BY <2>3
  <2>5. Registered \subseteq {n}
    BY <2>3 DEF Registered
  <2>6. OneNamePerBinding /\ CoordinatorIsOne
    BY <2>5, MailboxConstants
       DEF OneNamePerBinding, CoordinatorIsOne, Reserved, MailboxConstants
  <2>7. TypeFollowsBinding
    BY <2>2, <2>3, <2>5 DEF TypeFollowsBinding
  <2> QED
    BY <2>4, <2>6, <2>7 DEF RegistryInv, TableOK, MailboxTypeOK, MailboxInit
<1> QED
  BY <1>1, <1>2 DEF MailboxInit

(* Every step keeps the registry's invariant. *)
LEMMA NextKeepsRegistry ==
  ASSUME RegistryInv, [MailboxNext]_mailboxVars
  PROVE  RegistryInv'
<1>1. TableStep
  BY NextIsTableStep DEF RegistryInv
<1>2. TableOK'
  BY <1>1, TableStepKeepsTable DEF RegistryInv
<1>3. CASE MailboxNext
  BY <1>2, <1>3, TransfersStayTyped, RetryStaysTyped
     DEF RegistryInv, TableOK, MailboxTypeOK
<1>4. CASE UNCHANGED mailboxVars
  BY <1>2, <1>4 DEF RegistryInv, TableOK, MailboxTypeOK, mailboxVars
<1> QED
  BY <1>3, <1>4

(* The registry's invariant holds in every behaviour. *)
LEMMA RegistryInvariant == MailboxSpec => []RegistryInv
<1>1. MailboxInit => RegistryInv
  BY InitTable
<1>2. RegistryInv /\ [MailboxNext]_mailboxVars => RegistryInv'
  BY NextKeepsRegistry
<1> QED
  BY <1>1, <1>2, PTL DEF MailboxSpec

(* The registry's tables always hold values of their columns' types. *)
THEOREM MailboxTypeCorrect == MailboxSpec => []MailboxTypeOK
BY RegistryInvariant, PTL DEF RegistryInv

(* However registrations, renames, takeovers and approvals interleave, no     *)
(* chat owns two mailboxes and no endpoint has two names.                     *)
THEOREM BindingsAreUnique == MailboxSpec => []OneNamePerBinding
BY RegistryInvariant, PTL DEF RegistryInv, TableOK

(* The Coordinator and its legacy alias are never two mailboxes. *)
THEOREM CoordinatorIsNeverAmbiguous == MailboxSpec => []CoordinatorIsOne
BY RegistryInvariant, PTL DEF RegistryInv, TableOK

(* The recorded agent type is never that of a previous owner's session. *)
THEOREM TypeIsTheOwners == MailboxSpec => []TypeFollowsBinding
BY RegistryInvariant, PTL DEF RegistryInv, TableOK

(* The registry is consistent after every registration, rename, takeover,     *)
(* transfer and retry of agent_mailboxes.py, for any actors and names.        *)
THEOREM RegistryStaysConsistent == MailboxSpec => []RegistryIsConsistent
<1>1. RegistryInv => RegistryIsConsistent
  BY DEF RegistryInv, TableOK, RegistryIsConsistent
<1> QED
  BY <1>1, RegistryInvariant, PTL

-----------------------------------------------------------------------------
(* What a step does to the row of an endpoint. *)

SameRow(m, n) ==
  /\ mailboxes'[n].endpoint = mailboxes[m].endpoint
  /\ \/ /\ mailboxes'[n].actor = mailboxes[m].actor
        /\ mailboxes'[n].generation = mailboxes[m].generation
     \/ mailboxes'[n].generation = mailboxes[m].generation + 1

(* A step keeps every endpoint, and a new owner comes with a new generation. *)
LEMMA RowsAreKept ==
  ASSUME TableOK, TableStep, NEW m \in Registered
  PROVE  \E n \in Registered' : SameRow(m, n)
<1>0. /\ mailboxes \in [Names -> Row \cup {None}]
      /\ None \notin Row
      /\ m \in Names /\ mailboxes[m] \in Row /\ mailboxes[m] # None
  BY MailboxConstants DEF MailboxConstants, TableOK, Registered
<1>1. CASE UNCHANGED mailboxes
  BY <1>0, <1>1 DEF Registered, SameRow
<1>2. ASSUME NEW n \in Names, Refresh(n)
      PROVE  \E k \in Registered' : SameRow(m, k)
  <2>1. mailboxes[n] \in Row
    BY <1>2, RegisteredRow DEF Refresh
  <2>2. /\ Refreshed(mailboxes[n]) \in Row
        /\ Refreshed(mailboxes[n]).endpoint = mailboxes[n].endpoint
        /\ Refreshed(mailboxes[n]).actor = mailboxes[n].actor
        /\ Refreshed(mailboxes[n]).generation = mailboxes[n].generation
    BY <2>1, RefreshedRow
  <2>3. m \in Registered' /\ SameRow(m, m)
    BY <1>0, <1>2, <2>2 DEF Refresh, Registered, SameRow
  <2> QED
    BY <2>3
<1>3. ASSUME NEW n \in Names, NEW e \in Endpoints, NEW a \in Actors, Create(n, e, a)
      PROVE  \E k \in Registered' : SameRow(m, k)
  BY <1>0, <1>3 DEF Create, Registered, SameRow
<1>4. ASSUME NEW o \in Names, NEW n \in Names, Rename(o, n)
      PROVE  \E k \in Registered' : SameRow(m, k)
  <2>1. CASE o = m
    <3>1. /\ Refreshed(mailboxes[m]) \in Row
          /\ Refreshed(mailboxes[m]).endpoint = mailboxes[m].endpoint
          /\ Refreshed(mailboxes[m]).actor = mailboxes[m].actor
          /\ Refreshed(mailboxes[m]).generation = mailboxes[m].generation
      BY <1>0, RefreshedRow
    <3>2. mailboxes'[n] = Refreshed(mailboxes[m])
      BY <1>0, <1>4, <2>1 DEF Rename
    <3>3. n \in Registered' /\ SameRow(m, n)
      BY <1>0, <3>1, <3>2 DEF Registered, SameRow
    <3> QED
      BY <3>3
  <2>2. CASE o # m
    BY <1>0, <1>4, <2>2 DEF Rename, Registered, SameRow
  <2> QED
    BY <2>1, <2>2
<1>5. ASSUME NEW o \in Names, NEW n \in Names, NEW a \in Actors, Move(o, n, a)
      PROVE  \E k \in Registered' : SameRow(m, k)
  <2>1. CASE o = m
    <3>1. /\ Moved(mailboxes[m], a) \in Row
          /\ Moved(mailboxes[m], a).endpoint = mailboxes[m].endpoint
          /\ Moved(mailboxes[m], a).generation = mailboxes[m].generation + 1
      BY <1>0, <1>5, <2>1, MovedRow DEF Move
    <3>2. mailboxes'[n] = Moved(mailboxes[m], a)
      BY <1>0, <1>5, <2>1 DEF Move
    <3>3. n \in Registered' /\ SameRow(m, n)
      BY <1>0, <3>1, <3>2 DEF Registered, SameRow
    <3> QED
      BY <3>3
  <2>2. CASE o # m
    <3>1. m # n
      BY <1>5, <2>2 DEF Move
    <3> QED
      BY <1>0, <1>5, <2>2, <3>1 DEF Move, Registered, SameRow
  <2> QED
    BY <2>1, <2>2
<1> QED
  BY <1>1, <1>2, <1>3, <1>4, <1>5 DEF TableStep

(* No operation drops an endpoint or hands it to another chat without a new   *)
(* generation, and no generation is ever taken back.                          *)
THEOREM NewOwnerFencesTheOld == MailboxSpec => NewOwnerNewGeneration
<1>1. ASSUME RegistryInv, [MailboxNext]_mailboxVars
      PROVE  \A m \in Registered : \E n \in Registered' : SameRow(m, n)
  BY <1>1, NextIsTableStep, RowsAreKept DEF RegistryInv
<1>2. RegistryInv /\ [MailboxNext]_mailboxVars =>
        [\A m \in Registered :
           \E n \in Registered' :
             /\ mailboxes'[n].endpoint = mailboxes[m].endpoint
             /\ \/ /\ mailboxes'[n].actor = mailboxes[m].actor
                   /\ mailboxes'[n].generation = mailboxes[m].generation
                \/ mailboxes'[n].generation = mailboxes[m].generation + 1]_mailboxVars
  BY <1>1 DEF SameRow
<1> QED
  BY <1>2, RegistryInvariant, PTL DEF MailboxSpec, NewOwnerNewGeneration

-----------------------------------------------------------------------------
(* An approved request, with the mailbox it moved. *)
Reached(i) ==
  /\ \E n \in Registered : /\ mailboxes[n].endpoint = i.endpoint
                           /\ transfers[i].resulting <= mailboxes[n].generation
  /\ transfers[i].resulting = i.generation + 1

ApprovalInv == RegistryInv /\ OneApprovalPerGeneration

(* What was reached stays reached. *)
LEMMA ReachedIsStable ==
  ASSUME RegistryInv, TableStep, NEW i \in RequestId, transfers[i] \in Request,
         Reached(i), transfers'[i] = transfers[i], TableOK'
  PROVE  Reached(i)'
<1>1. PICK n \in Registered : /\ mailboxes[n].endpoint = i.endpoint
                              /\ transfers[i].resulting <= mailboxes[n].generation
  BY DEF Reached
<1>2. PICK m \in Registered' : SameRow(n, m)
  BY RowsAreKept DEF RegistryInv
<1>3. mailboxes[n].generation \in Nat /\ transfers[i].resulting \in Nat
  BY RegisteredRow, MailboxConstants
     DEF RegistryInv, Row, Request, Generation, MailboxConstants
<1>4. /\ mailboxes'[m].endpoint = i.endpoint
      /\ transfers'[i].resulting <= mailboxes'[m].generation
  BY <1>1, <1>2, <1>3 DEF SameRow
<1> QED
  BY <1>2, <1>4 DEF Reached

(* The one action that approves: the request it approves names the mailbox's   *)
(* present generation, and leaves it behind.                                   *)
LEMMA ApprovalReaches ==
  ASSUME RegistryInv, NEW id \in RequestId, ApproveTransfer(id),
         id \in Approved', id \notin Approved
  PROVE  /\ Reached(id)'
         /\ \E n \in Registered : /\ mailboxes[n].endpoint = id.endpoint
                                  /\ mailboxes[n].generation = id.generation
<1> DEFINE n == transfers[id].name
<1>1. /\ transfers \in [RequestId -> Request \cup {None}]
      /\ mailboxes \in [Names -> Row \cup {None}]
      /\ transfers[id] \in Request /\ n \in Names
      /\ id.generation \in Nat /\ id.destination \in Actors
  <2>1. /\ transfers \in [RequestId -> Request \cup {None}]
        /\ mailboxes \in [Names -> Row \cup {None}]
        /\ transfers[id] \in Request
    BY DEF RegistryInv, TableOK, MailboxTypeOK, ApproveTransfer
  <2>2. n \in Names
    BY <2>1 DEF Request
  <2>3. id.generation \in Nat /\ id.destination \in Actors
    BY MailboxConstants DEF RequestId, Generation, MailboxConstants
  <2> QED
    BY <2>1, <2>2, <2>3
<1>2. transfers'[id].status = "APPROVED"
  BY DEF Approved
<1>3. /\ PreimageHolds(id, n)
      /\ id.generation < MaxGeneration
      /\ mailboxes' = [mailboxes EXCEPT ![n] = Moved(mailboxes[n], id.destination)]
      /\ transfers' = [transfers EXCEPT ![id].status = "APPROVED",
                                        ![id].resulting = id.generation + 1]
  <2>1. \/ /\ transfers' = [transfers EXCEPT ![id].status = "STALE"]
        \/ /\ transfers' = [transfers EXCEPT ![id].status = "CONFLICT"]
        \/ /\ PreimageHolds(id, n)
           /\ id.generation < MaxGeneration
           /\ mailboxes' = [mailboxes EXCEPT ![n] = Moved(mailboxes[n], id.destination)]
           /\ transfers' = [transfers EXCEPT ![id].status = "APPROVED",
                                             ![id].resulting = id.generation + 1]
    BY DEF ApproveTransfer
  <2>2. ~ (transfers' = [transfers EXCEPT ![id].status = "STALE"])
    BY <1>1, <1>2 DEF Request
  <2>3. ~ (transfers' = [transfers EXCEPT ![id].status = "CONFLICT"])
    BY <1>1, <1>2 DEF Request
  <2> QED
    BY <2>1, <2>2, <2>3
<1>4. /\ n \in Registered /\ mailboxes[n] \in Row
      /\ mailboxes[n].endpoint = id.endpoint
      /\ mailboxes[n].generation = id.generation
  BY <1>1, <1>3, RegisteredRow DEF PreimageHolds, RegistryInv
<1>5. /\ Moved(mailboxes[n], id.destination) \in Row
      /\ Moved(mailboxes[n], id.destination).endpoint = id.endpoint
      /\ Moved(mailboxes[n], id.destination).generation = id.generation + 1
  BY <1>1, <1>3, <1>4, MovedRow
<1>6. mailboxes'[n] = Moved(mailboxes[n], id.destination) /\ None \notin Row
  BY <1>1, <1>3, MailboxConstants DEF MailboxConstants
<1>7. n \in Registered'
  BY <1>1, <1>5, <1>6 DEF Registered
<1>8. transfers'[id].resulting = id.generation + 1
  BY <1>1, <1>3 DEF Request
<1>9. Reached(id)'
  BY <1>1, <1>5, <1>6, <1>7, <1>8 DEF Reached
<1> QED
  BY <1>4, <1>9

(* Every step keeps approvals exclusive and reached. *)
LEMMA StepKeepsApprovals ==
  ASSUME ApprovalInv, [MailboxNext]_mailboxVars
  PROVE  ApprovalInv'
<1>1. RegistryInv /\ RegistryInv' /\ TableStep /\ TableOK'
  BY NextKeepsRegistry, NextIsTableStep DEF ApprovalInv, RegistryInv
<1>2. transfers \in [RequestId -> Request \cup {None}]
  BY <1>1 DEF RegistryInv, MailboxTypeOK
<1>3. \A i \in Approved : Reached(i)
  BY DEF ApprovalInv, OneApprovalPerGeneration, Reached
<1>4. ASSUME NEW i \in Approved, transfers'[i] = transfers[i]
      PROVE  Reached(i)'
  BY <1>1, <1>2, <1>3, <1>4, ReachedIsStable DEF Approved
<1>5. ASSUME \A i \in Approved' : i \in Approved /\ transfers'[i] = transfers[i]
      PROVE  OneApprovalPerGeneration'
  BY <1>1, <1>4, <1>5 DEF ApprovalInv, OneApprovalPerGeneration, Reached
<1>6. ASSUME NEW id \in RequestId, ApproveTransfer(id), id \in Approved'
      PROVE  OneApprovalPerGeneration'
  <2>1. id \notin Approved
    BY <1>6 DEF ApproveTransfer, Approved
  <2>2. /\ Reached(id)'
        /\ \E n \in Registered : /\ mailboxes[n].endpoint = id.endpoint
                                 /\ mailboxes[n].generation = id.generation
    BY <1>1, <1>6, <2>1, ApprovalReaches
  <2>3. \A i \in RequestId : i # id => transfers'[i] = transfers[i]
    BY <1>2, <1>6 DEF ApproveTransfer
  <2>4. \A i \in Approved' : i = id \/ (i \in Approved /\ transfers'[i] = transfers[i])
    BY <2>3 DEF Approved
  <2>5. \A i \in Approved' : Reached(i)'
    BY <1>4, <2>2, <2>4
  <2>6. ASSUME NEW i \in Approved, i.endpoint = id.endpoint, i.generation = id.generation
        PROVE  FALSE
    <3>1. PICK n \in Registered : /\ mailboxes[n].endpoint = id.endpoint
                                  /\ mailboxes[n].generation = id.generation
      BY <2>2
    <3>2. PICK m \in Registered : /\ mailboxes[m].endpoint = i.endpoint
                                  /\ transfers[i].resulting <= mailboxes[m].generation
      BY <1>3 DEF Reached
    <3>3. m = n
      BY <1>1, <2>6, <3>1, <3>2 DEF RegistryInv, TableOK, OneNamePerBinding
    <3>4. transfers[i].resulting = i.generation + 1
      BY <1>3 DEF Reached
    <3>5. id.generation \in Nat
      BY MailboxConstants DEF RequestId, Generation, MailboxConstants
    <3> QED
      BY <2>6, <3>1, <3>2, <3>3, <3>4, <3>5
  <2>7. \A i, j \in Approved' :
          (i.endpoint = j.endpoint /\ i.generation = j.generation) => i = j
    BY <2>4, <2>6 DEF ApprovalInv, OneApprovalPerGeneration
  <2> QED
    BY <2>5, <2>7 DEF OneApprovalPerGeneration, Reached
<1>7. ASSUME NEW id \in RequestId, ApproveTransfer(id), id \notin Approved'
      PROVE  \A i \in Approved' : i \in Approved /\ transfers'[i] = transfers[i]
  BY <1>2, <1>7 DEF ApproveTransfer, Approved
<1>8. ASSUME NEW a \in Actors, NEW n \in Names, RequestTransfer(a, n)
      PROVE  \A i \in Approved' : i \in Approved /\ transfers'[i] = transfers[i]
  <2> DEFINE new == [endpoint |-> mailboxes[n].endpoint,
                     generation |-> mailboxes[n].generation,
                     source |-> mailboxes[n].actor, destination |-> a]
  <2> HIDE DEF new
  <2>1. \/ UNCHANGED transfers
        \/ transfers' = [transfers EXCEPT ![new] =
                           [name |-> n, status |-> "PENDING", resulting |-> 0]]
    BY <1>8 DEF RequestTransfer, new
  <2> QED
    BY <1>2, <2>1 DEF Approved
<1>9. ASSUME UNCHANGED transfers
      PROVE  \A i \in Approved' : i \in Approved /\ transfers'[i] = transfers[i]
  BY <1>9 DEF Approved
<1>10. OneApprovalPerGeneration'
  BY <1>5, <1>6, <1>7, <1>8, <1>9, <1>1
     DEF MailboxNext, mailboxVars, RegisterAgent, AgentTakeover, AgentTakeoverLost,
         RetryTakeover, ApprovalInv
<1> QED
  BY <1>1, <1>10 DEF ApprovalInv

(* Of the requests recorded against one generation of a mailbox the host      *)
(* approves at most one, and no later step undoes the move it made.           *)
THEOREM ApprovalsAreExclusive == MailboxSpec => []OneApprovalPerGeneration
<1>1. MailboxInit => ApprovalInv
  <2>1. MailboxInit => Approved = {}
    BY DEF MailboxInit, Approved
  <2> QED
    BY <2>1, InitTable DEF ApprovalInv, OneApprovalPerGeneration
<1>2. ApprovalInv /\ [MailboxNext]_mailboxVars => ApprovalInv'
  BY StepKeepsApprovals
<1>3. ApprovalInv => OneApprovalPerGeneration
  BY DEF ApprovalInv
<1> QED
  BY <1>1, <1>2, <1>3, PTL DEF MailboxSpec

-----------------------------------------------------------------------------
(* An ordinary takeover leaves the Coordinator's rows alone. *)
LEMMA OrdinaryTakeoverSparesCoordinator ==
  ASSUME TableOK, NEW a \in Actors, NEW n \in Names, NEW confirmed \in BOOLEAN,
         n \notin Reserved, TakeoverTransaction(a, n, confirmed), NEW k \in Reserved
  PROVE  mailboxes'[k] = mailboxes[k]
<1>1. TakeoverFree(a, n) \/ TakeoverHeld(a, n, confirmed)
  BY DEF TakeoverTransaction
<1>2. k \in Names /\ k # n /\ mailboxes \in [Names -> Row \cup {None}]
  BY MailboxConstants DEF MailboxConstants, TableOK
<1>3. CASE TakeoverFree(a, n)
  <2>1. \A own \in BoundTo(a) : own # k
    BY <1>3 DEF TakeoverFree
  <2> QED
    BY <1>2, <1>3, <2>1 DEF TakeoverFree
<1>4. CASE TakeoverHeld(a, n, confirmed)
  BY <1>2, <1>4 DEF TakeoverHeld
<1> QED
  BY <1>1, <1>3, <1>4

(* A chat that recovers from a lost takeover response never changes who owns  *)
(* the Coordinator: it may by then belong to somebody else.                   *)
THEOREM LostCoordinatorTakeoverIsOnlyRead ==
  MailboxSpec => LostCoordinatorTakeoverIsNotRepeated
<1> DEFINE Step == \A a \in Actors :
                     (retry[a] # None /\ retry'[a] = None) =>
                       \A n \in Reserved : mailboxes'[n] = mailboxes[n]
<1>1. ASSUME RegistryInv, MailboxNext, NEW a \in Actors,
             retry[a] # None, retry'[a] = None, NEW k \in Reserved
      PROVE  mailboxes'[k] = mailboxes[k]
  <2>1. retry \in [Actors -> Takeover \cup {None}] /\ None \notin Takeover /\ TableOK
    BY <1>1, MailboxConstants DEF RegistryInv, MailboxTypeOK, MailboxConstants
  <2>2. ASSUME NEW b \in Actors, NEW n \in Names, NEW confirmed \in BOOLEAN,
               AgentTakeoverLost(b, n, confirmed)
        PROVE  FALSE
    <3>1. [name |-> n, confirmed |-> confirmed] \in Takeover
      BY DEF Takeover
    <3> QED
      BY <1>1, <2>1, <2>2, <3>1 DEF AgentTakeoverLost
  <2>3. ASSUME NEW b \in Actors, RetryTakeover(b)
        PROVE  mailboxes'[k] = mailboxes[k]
    <3>1. retry[b] \in Takeover
      BY <2>1, <2>3 DEF RetryTakeover
    <3>2. retry[b].name \in Names /\ retry[b].confirmed \in BOOLEAN
      BY <3>1 DEF Takeover
    <3>3. \/ UNCHANGED mailboxes
          \/ /\ retry[b].name \notin Reserved
             /\ TakeoverTransaction(b, retry[b].name, retry[b].confirmed)
      BY <2>3 DEF RetryTakeover
    <3> QED
      BY <1>1, <2>1, <3>2, <3>3, OrdinaryTakeoverSparesCoordinator
  <2> QED
    BY <1>1, <2>2, <2>3
       DEF MailboxNext, RegisterAgent, AgentTakeover, RequestTransfer, ApproveTransfer
<1>2. RegistryInv /\ [MailboxNext]_mailboxVars => [Step]_mailboxVars
  BY <1>1
<1> QED
  BY <1>2, RegistryInvariant, PTL DEF MailboxSpec, LostCoordinatorTakeoverIsNotRepeated
=============================================================================
