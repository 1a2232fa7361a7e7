---------------------------- MODULE AgentMailboxes ----------------------------
(***************************************************************************)
(* The registry of named agent mailboxes: table agent_mailboxes and table   *)
(* agent_mailbox_transfer_requests, with the operations of                  *)
(* mailbox/agent_mailboxes.py as the public tools of chatgpt_mcp.py and the *)
(* host command switchstand-agent-mailbox-transfer call them.               *)
(*                                                                         *)
(* An actor is one exact (principal, hidden chat session) pair: the code    *)
(* never uses the session hash without its principal when it decides who    *)
(* owns a mailbox.  Each operation is one PostgreSQL transaction that locks *)
(* the rows it decides on (SELECT ... FOR UPDATE) and relies on the table's *)
(* unique constraints to abort the loser of a race, so each is one action.  *)
(* A refused request changes nothing and is a stuttering step.              *)
(***************************************************************************)
EXTENDS Naturals, FiniteSets

CONSTANTS
  Actors,         \* exact (principal, chat session) pairs
  PrincipalOf,    \* the authenticated principal of an actor
  TypeOf,         \* session_agent_type of an actor's session
  Names,          \* normalised name keys
  Coordinator,    \* the key of "Codex Coordinator"
  Root,           \* its legacy alias
  Endpoints,      \* endpoint UUIDs
  MaxGeneration,  \* bound on a mailbox's generation
  MaxLost,        \* bound on takeovers in recovery at the same time
  MaxTransfers,   \* bound on recorded transfer requests
  None            \* NULL

Reserved == {Coordinator, Root}
Generation == 1..MaxGeneration

Row == [endpoint: Endpoints, actor: Actors, generation: Generation,
        type: {TypeOf[a] : a \in Actors} \cup {None}]

(* uuid5 over the preimage and the destination: equal requests share an id. *)
RequestId == [endpoint: Endpoints, generation: Generation,
              source: Actors, destination: Actors]

Request == [name: Names, status: {"PENDING", "APPROVED", "STALE", "CONFLICT"},
            resulting: Generation \cup {0}]

(* The arguments of a takeover whose response was lost. *)
Takeover == [name: Names, confirmed: BOOLEAN]

ASSUME MailboxConstants ==
  /\ Reserved \subseteq Names
  /\ Coordinator # Root
  /\ MaxGeneration \in Nat \ {0}
  /\ MaxLost \in Nat
  /\ MaxTransfers \in Nat
  /\ None \notin Row \cup Request \cup Takeover

VARIABLES
  mailboxes,   \* name key -> row of agent_mailboxes, or None
  transfers,   \* request id -> row of agent_mailbox_transfer_requests, or None
  retry        \* actor -> takeover whose response was lost, or None

mailboxVars == <<mailboxes, transfers, retry>>

Registered == {n \in Names : mailboxes[n] # None}

BoundTo(a) == {n \in Registered : mailboxes[n].actor = a}

UsedEndpoints == {mailboxes[n].endpoint : n \in Registered}

Approved == {id \in RequestId : transfers[id] # None /\ transfers[id].status = "APPROVED"}

(* coordinator_name_keys: the Coordinator and /root name the same mailbox.  *)
NameKeys(n) == IF n \in Reserved THEN Reserved ELSE {n}

(* by_name refuses an ambiguous name; otherwise it yields the row's key.    *)
ByName(n) == IF Cardinality(NameKeys(n) \cap Registered) = 1
             THEN NameKeys(n) \cap Registered ELSE {}

NewRow(e, a) == [endpoint |-> e, actor |-> a, generation |-> 1, type |-> TypeOf[a]]

Refreshed(row) == [row EXCEPT !.type = TypeOf[row.actor]]

(* Mutant: a move that does not fence. *)
MovedSameGeneration(row, a) == [row EXCEPT !.actor = a, !.type = TypeOf[a]]

Moved(row, a) == [endpoint |-> row.endpoint, actor |-> a,
                  generation |-> row.generation + 1, type |-> TypeOf[a]]

-----------------------------------------------------------------------------
(* register_agent *)
RegisterAgent(a, n) ==
  /\ \/ \E own \in BoundTo(a) :
          mailboxes' = [mailboxes EXCEPT ![own] = Refreshed(mailboxes[own])]
     \/ /\ BoundTo(a) = {}
        /\ n \notin Reserved
        /\ n \notin Registered
        /\ \E e \in Endpoints \ UsedEndpoints :
             mailboxes' = [mailboxes EXCEPT ![n] = NewRow(e, a)]
  /\ UNCHANGED <<transfers, retry>>

(* takeover, when the name is free: create it, or rename the caller's own   *)
(* ordinary mailbox in place.                                               *)
TakeoverFree(a, n) ==
  /\ n \notin Registered
  /\ BoundTo(a) \cap Reserved = {}
  /\ \/ /\ BoundTo(a) = {}
        /\ \E e \in Endpoints \ UsedEndpoints :
             mailboxes' = [mailboxes EXCEPT ![n] = NewRow(e, a)]
     \/ \E own \in BoundTo(a) :
          mailboxes' = [mailboxes EXCEPT ![n] = Refreshed(mailboxes[own]),
                                         ![own] = None]

(* takeover of a registered name: refresh the caller's own binding or move  *)
(* the mailbox and fence its previous owner with a new generation.          *)
TakeoverHeld(a, n, confirmed) ==
  /\ n \in Registered
  /\ \/ PrincipalOf[mailboxes[n].actor] = PrincipalOf[a]
     \/ confirmed
  /\ \/ /\ mailboxes[n].actor = a
        /\ mailboxes' = [mailboxes EXCEPT ![n] = Refreshed(mailboxes[n])]
     \/ /\ mailboxes[n].actor # a
        /\ BoundTo(a) \ {n} = {}
        /\ mailboxes[n].generation < MaxGeneration
        /\ mailboxes' = [mailboxes EXCEPT ![n] = Moved(mailboxes[n], a)]

(* takeover_coordinator: move the one Coordinator row to the caller under   *)
(* its canonical name.  Nothing changes when the caller already holds it so. *)
TakeoverCoordinator(a, confirmed) ==
  \E n \in ByName(Coordinator) :
    /\ \/ PrincipalOf[mailboxes[n].actor] = PrincipalOf[a]
       \/ confirmed
    /\ \/ n # Coordinator
       \/ mailboxes[n].actor # a
       \/ mailboxes[n].type # TypeOf[a]
    /\ BoundTo(a) \ {n} = {}
    /\ mailboxes[n].generation < MaxGeneration
    /\ mailboxes' = [mailboxes EXCEPT ![n] = None,
                                      ![Coordinator] = Moved(mailboxes[n], a)]

(* Mutant: the legacy alias is treated as an ordinary name. *)
TakeoverRootAsOrdinary(a, n, confirmed) ==
  IF n = Coordinator THEN TakeoverCoordinator(a, confirmed)
                     ELSE TakeoverFree(a, n) \/ TakeoverHeld(a, n, confirmed)

TakeoverTransaction(a, n, confirmed) ==
  IF n \in Reserved THEN TakeoverCoordinator(a, confirmed)
                    ELSE TakeoverFree(a, n) \/ TakeoverHeld(a, n, confirmed)

(* agent_takeover whose response arrives. *)
AgentTakeover(a, n, confirmed) ==
  /\ retry[a] = None
  /\ TakeoverTransaction(a, n, confirmed)
  /\ UNCHANGED <<transfers, retry>>

(* agent_takeover whose transaction ends in state_unavailable: it may have   *)
(* committed or not, and the tool goes on to its recovery step.             *)
AgentTakeoverLost(a, n, confirmed) ==
  /\ retry[a] = None
  /\ Cardinality({b \in Actors : retry[b] # None}) < MaxLost
  /\ TakeoverTransaction(a, n, confirmed) \/ UNCHANGED mailboxes
  /\ retry' = [retry EXCEPT ![a] = [name |-> n, confirmed |-> confirmed]]
  /\ UNCHANGED transfers

(* Mutant: the recovery step repeats a Coordinator takeover too. *)
RetryEveryTakeover(a) ==
  /\ retry[a] # None
  /\ TakeoverTransaction(a, retry[a].name, retry[a].confirmed) \/ UNCHANGED mailboxes
  /\ retry' = [retry EXCEPT ![a] = None]
  /\ UNCHANGED transfers

(* The recovery step of agent_takeover: an ordinary name is taken again with *)
(* the same arguments, the Coordinator is only read back.                   *)
RetryTakeover(a) ==
  /\ retry[a] # None
  /\ IF retry[a].name \in Reserved
     THEN UNCHANGED mailboxes
     ELSE \/ TakeoverTransaction(a, retry[a].name, retry[a].confirmed)
          \/ UNCHANGED mailboxes
  /\ retry' = [retry EXCEPT ![a] = None]
  /\ UNCHANGED transfers

(* request_transfer: the request is stored once per preimage and destination, *)
(* under the name the mailbox had the first time.                             *)
RequestTransfer(a, n) ==
  /\ n \in Registered
  /\ PrincipalOf[mailboxes[n].actor] # PrincipalOf[a]
  /\ BoundTo(a) = {}
  /\ LET id == [endpoint |-> mailboxes[n].endpoint,
                generation |-> mailboxes[n].generation,
                source |-> mailboxes[n].actor, destination |-> a]
     IN  /\ \/ transfers[id] # None
            \/ Cardinality({i \in RequestId : transfers[i] # None}) < MaxTransfers
         /\ transfers' = IF transfers[id] # None THEN transfers
                         ELSE [transfers EXCEPT ![id] =
                                [name |-> n, status |-> "PENDING", resulting |-> 0]]
  /\ UNCHANGED <<mailboxes, retry>>

(* Mutant: an approval that only looks for the endpoint. *)
EndpointHolds(id, n) == n \in Registered /\ mailboxes[n].endpoint = id.endpoint

PreimageHolds(id, n) ==
  /\ n \in Registered
  /\ mailboxes[n].endpoint = id.endpoint
  /\ mailboxes[n].generation = id.generation
  /\ mailboxes[n].actor = id.source

(* approve_transfer, run by the host operator *)
ApproveTransfer(id) ==
  /\ transfers[id] # None
  /\ transfers[id].status = "PENDING"
  /\ LET n == transfers[id].name
     IN  \/ /\ ~PreimageHolds(id, n)
            /\ transfers' = [transfers EXCEPT ![id].status = "STALE"]
            /\ UNCHANGED mailboxes
         \/ /\ PreimageHolds(id, n)
            /\ BoundTo(id.destination) \ {n} # {}
            /\ transfers' = [transfers EXCEPT ![id].status = "CONFLICT"]
            /\ UNCHANGED mailboxes
         \/ /\ PreimageHolds(id, n)
            /\ BoundTo(id.destination) \ {n} = {}
            /\ id.generation < MaxGeneration
            /\ mailboxes' = [mailboxes EXCEPT ![n] = Moved(mailboxes[n], id.destination)]
            /\ transfers' = [transfers EXCEPT
                               ![id].status = "APPROVED",
                               ![id].resulting = id.generation + 1]
  /\ UNCHANGED retry

-----------------------------------------------------------------------------
(* A database may come with a Coordinator mailbox registered by an earlier   *)
(* release under either key, without a recorded agent type.                  *)
Unregistered == [n \in Names |-> None]

LegacyCoordinator ==
  {[Unregistered EXCEPT ![n] = [NewRow(e, a) EXCEPT !.type = None]] :
      n \in Reserved, e \in Endpoints, a \in Actors}

MailboxInit ==
  /\ mailboxes \in {Unregistered} \cup LegacyCoordinator
  /\ transfers = [id \in RequestId |-> None]
  /\ retry = [a \in Actors |-> None]

MailboxNext ==
  \/ \E a \in Actors, n \in Names : RegisterAgent(a, n) \/ RequestTransfer(a, n)
  \/ \E a \in Actors, n \in Names, confirmed \in BOOLEAN :
       AgentTakeover(a, n, confirmed) \/ AgentTakeoverLost(a, n, confirmed)
  \/ \E a \in Actors : RetryTakeover(a)
  \/ \E id \in RequestId : ApproveTransfer(id)

MailboxSpec == MailboxInit /\ [][MailboxNext]_mailboxVars

-----------------------------------------------------------------------------
(* Every row holds values of its column's type. *)
MailboxTypeOK ==
  /\ mailboxes \in [Names -> Row \cup {None}]
  /\ transfers \in [RequestId -> Request \cup {None}]
  /\ retry \in [Actors -> Takeover \cup {None}]

(* One chat never owns two names and one endpoint never has two names,      *)
(* without relying on the table's unique constraints to say so: registration,*)
(* rename, takeover and approval all look for the destination's mailbox.     *)
OneNamePerBinding ==
  \A m, n \in Registered :
    \/ mailboxes[m].actor = mailboxes[n].actor
    \/ mailboxes[m].endpoint = mailboxes[n].endpoint
    => m = n

(* "Codex Coordinator" and "/root" are never two mailboxes, so by_name never *)
(* finds the Coordinator ambiguous.                                          *)
CoordinatorIsOne == ~ (Reserved \subseteq Registered)

(* The recorded agent type, when known, is the type of the session that now  *)
(* owns the mailbox: the wake service never injects into the wrong host.     *)
TypeFollowsBinding ==
  \A n \in Registered : mailboxes[n].type \in {TypeOf[mailboxes[n].actor], None}

(* Of all the requests recorded against one mailbox generation at most one   *)
(* is approved, and its resulting generation is reached and never undone.    *)
OneApprovalPerGeneration ==
  \A i \in Approved :
    /\ \E n \in Registered :
         /\ mailboxes[n].endpoint = i.endpoint
         /\ transfers[i].resulting <= mailboxes[n].generation
    /\ transfers[i].resulting = i.generation + 1
    /\ \A j \in Approved :
         (i.endpoint = j.endpoint /\ i.generation = j.generation) => i = j

(* An endpoint is never dropped; whenever it changes owner its generation    *)
(* grows by one, and it never goes back: a new owner always fences the old.  *)
NewOwnerNewGeneration ==
  [][\A m \in Registered :
       \E n \in Registered' :
         /\ mailboxes'[n].endpoint = mailboxes[m].endpoint
         /\ \/ /\ mailboxes'[n].actor = mailboxes[m].actor
               /\ mailboxes'[n].generation = mailboxes[m].generation
            \/ mailboxes'[n].generation = mailboxes[m].generation + 1]_mailboxVars

(* An actor whose Coordinator takeover lost its response never overwrites a  *)
(* newer owner by recovering: the recovery step of agent_takeover leaves the  *)
(* Coordinator's binding alone.                                              *)
LostCoordinatorTakeoverIsNotRepeated ==
  [][\A a \in Actors :
       (retry[a] # None /\ retry'[a] = None) =>
         \A n \in Reserved : mailboxes'[n] = mailboxes[n]]_mailboxVars


\* The registry as takeovers, renames, transfers and their retries may leave it: a binding
\* holds one name, the Coordinator is one mailbox, and a row's type is its owner's.
RegistryIsConsistent ==
  MailboxTypeOK /\ OneNamePerBinding /\ CoordinatorIsOne /\ TypeFollowsBinding
=============================================================================
