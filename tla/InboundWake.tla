------------------------------ MODULE InboundWake ------------------------------
(***************************************************************************)
(* InboundWake of mailbox/codex_inbound_wake.py: the edge process starts a     *)
(* turn in the recipient's Codex thread when mail for it is committed.         *)
(*                                                                           *)
(* observed, fresh, event, task and suspended live in the memory of the        *)
(* process and are lost with it; mail and the owner of each mailbox are in     *)
(* the database, and the thread with its transcript belongs to the Codex       *)
(* daemon.  One asyncio task runs per recipient.  Each of its awaits ends an   *)
(* action here: what it has read may be stale at the next one.                *)
(***************************************************************************)
EXTENDS Naturals, FiniteSets

CONSTANTS
  Deliveries,       \* delivery ids, ordered as numbers
  Recipients,       \* endpoints of registered mailboxes
  RecipientOf,      \* the recipient of each delivery
  Roots,            \* Root threads of the Codex daemon
  RootOf,           \* <<recipient, generation>> -> the Root of its owner, or
                    \* None when the owner is no Codex session
  Heads,            \* recipients with a thread of their own under their Root
  MaxGeneration,    \* bound on takeovers
  MaxIncidents,     \* bound on disturbances and interruptions together
  None

Generation == 1..MaxGeneration

(* Where a recipient's task stands: the await it is in, or none or done. *)
Place == {"none", "done", "waiting", "discovering", "queueing", "observing", "releasing",
          "reading", "checking", "admitting", "starting", "answering", "accepted", "alerting"}
Ended == {"none", "done"}
HoldsRoot == {"observing", "releasing", "reading", "checking", "admitting", "starting",
              "answering", "accepted"}
HoldsFence == {"starting", "answering", "accepted"}

Task == [at: Place,
         gen: Generation \cup {0},         \* generation of the binding it read
         root: Roots \cup {None},          \* thread whose notifications it gets
         captured: SUBSET Deliveries,      \* fresh mail when it began to observe
         mail: SUBSET Deliveries]          \* pending, later remaining deliveries

Request == [recipient: Recipients, root: Roots, mail: SUBSET Deliveries]

ASSUME WakeConstants ==
  /\ Deliveries \subseteq Nat
  /\ RecipientOf \in [Deliveries -> Recipients]
  /\ Heads \subseteq Recipients
  /\ RootOf \in [Recipients \X Generation -> Roots \cup {None}]
  /\ MaxGeneration \in Nat \ {0}
  /\ MaxIncidents \in Nat
  /\ None \notin {"AVAILABLE", "RECEIVED", "CLOSED"} \cup Roots

VARIABLES
  mail,         \* delivery -> its state in the database, or None
  generation,   \* recipient -> generation of its current owner
  process,      \* the edge process: "down", "starting" or "up"
  observed,     \* deliveries the process has seen
  fresh,        \* deliveries committed since it started and not yet noticed
  notify,       \* committed by this process, callback not yet run
  scan,         \* what the watcher's query returned, or None
  event,        \* recipients whose event is set
  task,         \* recipient -> its task
  suspended,    \* recipients whose last turn may or may not have been accepted
  wire,         \* turn/start requests the daemon has not dealt with
  started,      \* delivery, Root -> turns that carried the delivery's notice
  busy,         \* Roots with a turn running
  enabled,      \* the control file
  disturbances, \* failures, lost answers, takeovers, restarts, switchings off
  interruptions \* turns started by others and connections lost between turns

database == <<mail, generation>>
memory == <<process, observed, fresh, notify, scan, event, task, suspended>>
daemon == <<wire, started, busy, interruptions>>
vars == <<database, memory, daemon, enabled, disturbances>>

Pending(d) == mail[d] \in {"AVAILABLE", "RECEIVED"}
Available == {d \in Deliveries : mail[d] = "AVAILABLE"}
MailOf(r) == {d \in Deliveries : RecipientOf[d] = r}
First(D) == CHOOSE d \in D : \A e \in D : d <= e

NewTask == [at |-> "waiting", gen |-> 0, root |-> None, captured |-> {}, mail |-> {}]
NoTask == [NewTask EXCEPT !.at = "none"]

Disturb == /\ disturbances + interruptions < MaxIncidents
           /\ disturbances' = disturbances + 1

Interrupt == /\ disturbances + interruptions < MaxIncidents
             /\ interruptions' = interruptions + 1

-----------------------------------------------------------------------------
(* Mail.  _store commits a delivery and then runs the callback of its own      *)
(* process; other processes commit too, and their mail is found by the watcher. *)
Commit(d, own) ==
  /\ mail[d] = None
  /\ mail' = [mail EXCEPT ![d] = "AVAILABLE"]
  /\ IF own THEN process = "up" /\ notify' = notify \cup {d} ELSE UNCHANGED notify
  /\ UNCHANGED <<generation, process, observed, fresh, scan, event, task, suspended,
                 daemon, enabled, disturbances>>

(* The fence of a task holds share locks on its first delivery and on its      *)
(* recipient's row.                                                            *)
Fenced(r) == task[r].at \in HoldsFence
DeliveryFenced(d) == Fenced(RecipientOf[d]) /\ First(task[RecipientOf[d]].mail) = d

(* The recipient receives, acknowledges or answers the delivery, in a turn of    *)
(* its own thread.                                                              *)
Running(r) == RootOf[<<r, generation[r]>>] \in busy \cup {None} \/ r \in Heads

Process(d, state) ==
  /\ Running(RecipientOf[d])
  /\ Pending(d) /\ mail[d] # state
  /\ ~DeliveryFenced(d)
  /\ mail' = [mail EXCEPT ![d] = state]
  /\ UNCHANGED <<generation, memory, daemon, enabled, disturbances>>

(* One takeover of the mailbox or several in a row. *)
Takeover(r) ==
  /\ ~Fenced(r)
  /\ Disturb
  /\ \E g \in Generation : g > generation[r] /\ generation' = [generation EXCEPT ![r] = g]
  /\ UNCHANGED <<mail, memory, daemon, enabled>>

-----------------------------------------------------------------------------

(* signal, for the deliveries D: their recipients' events are set, and a task   *)
(* is created where none is running.                                           *)
Signal(D, isFresh) ==
  LET R == {RecipientOf[d] : d \in D}
  IN  /\ observed' = observed \cup D
      /\ fresh' = IF isFresh THEN fresh \cup D ELSE fresh
      /\ event' = event \cup R
      /\ task' = [r \in Recipients |->
                    IF /\ r \in R
                       /\ task[r].at = "none" \/ (task[r].at = "done" /\ r \notin suspended)
                    THEN NewTask ELSE task[r]]

(* on_delivery, after the commit of the process's own send *)
Notify(d) ==
  /\ process = "up" /\ d \in notify
  /\ notify' = notify \ {d}
  /\ Signal({d}, TRUE)
  /\ UNCHANGED <<database, process, scan, suspended, daemon, enabled, disturbances>>

(* on_delivery of a send that found its message stored already. *)
NotifyRepeated(d) ==
  /\ process = "up" /\ mail[d] = "AVAILABLE"
  /\ Signal({d}, FALSE)
  /\ UNCHANGED <<database, process, notify, scan, suspended, daemon, enabled, disturbances>>

(* _watch reads the committed available deliveries, some not observed yet, ... *)
WatchRead ==
  /\ process = "up" /\ scan = None
  /\ Available \ observed # {}
  /\ scan' = Available \ observed
  /\ UNCHANGED <<database, process, observed, fresh, notify, event, task, suspended, daemon,
                 enabled, disturbances>>

(* ... and signals the ones that are still not observed. *)
WatchSignal ==
  /\ process = "up" /\ scan # None
  /\ scan' = None
  /\ Signal(scan \ observed, TRUE)
  /\ UNCHANGED <<database, process, notify, suspended, daemon, enabled, disturbances>>

-----------------------------------------------------------------------------
(* _run, for recipient r. *)
At(r, place) == process = "up" /\ task[r].at = place

OnlyTask == UNCHANGED <<database, process, observed, fresh, notify, scan, event, suspended,
                        daemon, enabled, disturbances>>

Goes(r, place) == task' = [task EXCEPT ![r].at = place]

(* What a task has read it forgets, but for the thread it hears of.             *)
Forgets(r, place, root) == task' = [task EXCEPT ![r] = [NewTask EXCEPT !.at = place, !.root = root]]

(* Mutant: the event is cleared when the round ends, not when it begins. *)
BackAndClear(r) == Forgets(r, "waiting", task[r].root) /\ event' = event \ {r}

(* The round is over: the Root's lock is released and the event awaited. *)
Back(r) == Forgets(r, "waiting", task[r].root) /\ UNCHANGED event

Wake(r) ==
  /\ At(r, "waiting") /\ r \in event
  /\ event' = event \ {r}
  /\ Goes(r, "discovering")
  /\ UNCHANGED <<database, process, observed, fresh, notify, scan, suspended, daemon, enabled,
                 disturbances>>

(* by_endpoint_id and resolve_thread.  A session that is no Codex thread is     *)
(* left alone: its fresh mail is dropped and the task ends.                     *)
Discover(r) ==
  /\ At(r, "discovering")
  /\ LET root == RootOf[<<r, generation[r]>>]
     IN  IF root = None
         THEN /\ fresh' = fresh \ MailOf(r)
              /\ Forgets(r, "done", None)
         ELSE /\ task' = [task EXCEPT ![r].at = "queueing", ![r].gen = generation[r],
                                      ![r].root = root]
              /\ UNCHANGED fresh
  /\ UNCHANGED <<database, process, observed, notify, scan, event, suspended, daemon, enabled,
                 disturbances>>

(* Mutant: a lock per recipient. *)
OwnLock(r) == task[r].at \notin HoldsRoot

(* The lock of the Root, which a Root and its Heads share. *)
RootFree(r) == \A q \in Recipients : task[q].at \in HoldsRoot => task[q].root # task[r].root

(* Under the lock the fresh mail is captured before it is observed. *)
LockRoot(r) ==
  /\ At(r, "queueing")
  /\ RootFree(r)
  /\ task' = [task EXCEPT ![r].at = "observing", ![r].captured = fresh \cap MailOf(r)]
  /\ OnlyTask

(* all_pending_delivery_ids: refused when the mailbox has a new owner. *)
Observe(r) ==
  /\ At(r, "observing")
  /\ IF generation[r] # task[r].gen
     THEN Back(r)
     ELSE /\ task' = [task EXCEPT ![r].at = "releasing",
                                  ![r].mail = {d \in MailOf(r) : Pending(d)}]
          /\ UNCHANGED event
  /\ UNCHANGED <<database, process, observed, fresh, notify, scan, suspended, daemon, enabled,
                 disturbances>>

(* Mutant: whatever is fresh now and was not pending then is released. *)
ReleasedNow(r) == (fresh \cap MailOf(r)) \ task[r].mail

(* Captured mail that the complete observation shows to be terminal. *)
Released(r) == task[r].captured \ task[r].mail

Release(r) ==
  /\ At(r, "releasing")
  /\ fresh' = fresh \ Released(r)
  /\ task' = [task EXCEPT ![r].at = "reading", ![r].captured = {}]
  /\ UNCHANGED <<database, process, observed, notify, scan, event, suspended, daemon, enabled,
                 disturbances>>

(* receipts: mail whose notice is in the Root's transcript needs no other, and  *)
(* only fresh mail is noticed.                                                  *)
ReadReceipts(r) ==
  /\ At(r, "reading")
  /\ LET remaining == {d \in task[r].mail \cap fresh : started[d][task[r].root] = 0}
     IN  IF remaining = {}
         THEN Back(r)
         ELSE /\ task' = [task EXCEPT ![r].at = "checking", ![r].mail = remaining]
              /\ UNCHANGED event
  /\ UNCHANGED <<database, process, observed, fresh, notify, scan, suspended, daemon, enabled,
                 disturbances>>

(* A busy Root and the control file stop the round. *)
CheckIdle(r) ==
  /\ At(r, "checking")
  /\ IF task[r].root \notin busy /\ enabled
     THEN Goes(r, "admitting") /\ UNCHANGED event
     ELSE Back(r)
  /\ UNCHANGED <<database, process, observed, fresh, notify, scan, suspended, daemon, enabled,
                 disturbances>>

(* Host admission, asked twice, is refused. *)
AdmissionRefused(r) ==
  /\ At(r, "admitting")
  /\ Disturb
  /\ Back(r)
  /\ UNCHANGED <<database, process, observed, fresh, notify, scan, suspended, daemon, enabled>>

FenceHolds(r) == generation[r] = task[r].gen /\ Pending(First(task[r].mail))

(* Admitted by the host, the task takes pending_delivery_fence: from here until  *)
(* the answer the mailbox does not change hands.                                *)
Fence(r) ==
  /\ At(r, "admitting")
  /\ IF FenceHolds(r) /\ enabled THEN Goes(r, "starting") /\ UNCHANGED event ELSE Back(r)
  /\ UNCHANGED <<database, process, observed, fresh, notify, scan, suspended, daemon, enabled,
                 disturbances>>

(* turn/start *)
StartTurn(r) ==
  /\ At(r, "starting")
  /\ IF task[r].root \notin busy /\ enabled
     THEN /\ Goes(r, "answering")
          /\ wire' = wire \cup {[recipient |-> r, root |-> task[r].root, mail |-> task[r].mail]}
          /\ UNCHANGED event
     ELSE Back(r) /\ UNCHANGED wire
  /\ UNCHANGED <<database, process, observed, fresh, notify, scan, suspended, started, busy,
                 interruptions, enabled, disturbances>>

(* The accepted turn is recorded and its mail is fresh no more. *)
Accepted(r) ==
  /\ At(r, "accepted")
  /\ fresh' = fresh \ task[r].mail
  /\ Back(r)
  /\ UNCHANGED <<database, process, observed, notify, scan, suspended, daemon, enabled,
                 disturbances>>

(* Mutant: an unanswered turn/start is treated like any other failure. *)
UncertainLikeAnyFailure(r) == UNCHANGED suspended

(* UncertainTurn: the recipient gets no more turns from this process. *)
Uncertain(r) == suspended' = suspended \cup {r}

Awaits(r, m) == process = "up" /\ task[r].at = "answering" /\ m.recipient = r
                  /\ m.mail = task[r].mail

(* No answer to turn/start within the timeout, because it is late or because     *)
(* there is none.                                                               *)
TimeOut(r) ==
  /\ At(r, "answering")
  /\ IF \E m \in wire : Awaits(r, m) THEN Disturb ELSE UNCHANGED disturbances
  /\ Uncertain(r)
  /\ Forgets(r, "alerting", None)
  /\ UNCHANGED <<database, process, observed, fresh, notify, scan, event, daemon, enabled>>

(* An await between the event and turn/start fails, which is definite. *)
Fail(r) ==
  /\ \E place \in {"discovering", "observing", "reading", "checking", "admitting", "starting"} : At(r, place)
  /\ Disturb
  /\ Forgets(r, "alerting", None)
  /\ UNCHANGED <<database, process, observed, fresh, notify, scan, event, suspended, daemon,
                 enabled>>

(* _alert has been sent and the task ends. *)
Alerted(r) ==
  /\ At(r, "alerting")
  /\ Goes(r, "done")
  /\ OnlyTask

-----------------------------------------------------------------------------
(* The Codex daemon (external).  A request is accepted, sooner or later, or     *)
(* rejected, or lost; its answer reaches the task if that still waits for it.   *)
Runs(m) ==
  /\ wire' = wire \ {m}
  /\ started' = [d \in Deliveries |->
                  IF d \in m.mail THEN [started[d] EXCEPT ![m.root] = @ + 1] ELSE started[d]]
  /\ busy' = busy \cup {m.root}
  /\ UNCHANGED <<database, process, observed, fresh, notify, scan, event, suspended,
                 interruptions, enabled>>

Accept(m) ==
  /\ m \in wire /\ Awaits(m.recipient, m)
  /\ Runs(m)
  /\ Goes(m.recipient, "accepted")
  /\ UNCHANGED disturbances

AcceptUnheard(m) ==
  /\ m \in wire
  /\ IF Awaits(m.recipient, m) THEN Disturb ELSE UNCHANGED disturbances
  /\ Runs(m)
  /\ UNCHANGED task

Reject(m) ==
  /\ m \in wire /\ Awaits(m.recipient, m)
  /\ Disturb
  /\ wire' = wire \ {m}
  /\ Forgets(m.recipient, "alerting", None)
  /\ UNCHANGED <<database, process, observed, fresh, notify, scan, event, suspended, started,
                 busy, interruptions, enabled>>

Lose(m) ==
  /\ m \in wire
  /\ IF Awaits(m.recipient, m) THEN Disturb ELSE UNCHANGED disturbances
  /\ wire' = wire \ {m}
  /\ UNCHANGED <<database, memory, started, busy, interruptions, enabled>>

(* The connections of a task are closed before it alerts. *)
Connected(r) == task[r].at \notin Ended \cup {"alerting"}

(* The daemon's notifications of the thread reach every task connected for it. *)
Dirty(root) == {r \in Recipients : task[r].root = root /\ Connected(r)}

(* turn/completed makes these tasks look again. *)
TurnCompletes(root) ==
  /\ root \in busy
  /\ busy' = busy \ {root}
  /\ event' = event \cup Dirty(root)
  /\ UNCHANGED <<database, process, observed, fresh, notify, scan, task, suspended, wire,
                 started, interruptions, enabled, disturbances>>

(* Somebody else starts a turn in the thread. *)
UserTurn(root) ==
  /\ root \notin busy
  /\ Interrupt
  /\ busy' = busy \cup {root}
  /\ UNCHANGED <<database, memory, wire, started, enabled, disturbances>>

(* The connection is lost while the task waits: it no longer hears of turns, but *)
(* is made to look again, which connects it anew.                               *)
Disconnect(r) ==
  /\ At(r, "waiting") /\ task[r].root # None
  /\ Interrupt
  /\ Forgets(r, "waiting", None)
  /\ event' = event \cup {r}
  /\ UNCHANGED <<database, process, observed, fresh, notify, scan, suspended, wire, started, busy,
                 enabled, disturbances>>

-----------------------------------------------------------------------------
(* The control file, edited by the operator. *)
Switch ==
  /\ \/ enabled /\ Disturb
     \/ ~enabled /\ UNCHANGED disturbances
  /\ enabled' = ~enabled
  /\ UNCHANGED <<database, memory, daemon>>

Crash ==
  /\ process = "up"
  /\ Disturb
  /\ process' = "down"
  /\ observed' = {} /\ fresh' = {} /\ notify' = {} /\ scan' = None /\ event' = {}
  /\ task' = [r \in Recipients |-> NoTask]
  /\ suspended' = {}
  /\ UNCHANGED <<database, daemon, enabled>>

(* start: the mail that is available is old before anything is listened to. *)
Baseline ==
  /\ process = "down"
  /\ process' = "starting"
  /\ observed' = Available
  /\ UNCHANGED <<database, fresh, notify, scan, event, task, suspended, daemon, enabled,
                 disturbances>>

Listen ==
  /\ process = "starting"
  /\ process' = "up"
  /\ UNCHANGED <<database, observed, fresh, notify, scan, event, task, suspended, daemon, enabled,
                 disturbances>>

-----------------------------------------------------------------------------
Init ==
  /\ mail = [d \in Deliveries |-> None]
  /\ generation = [r \in Recipients |-> 1]
  /\ process = "down"
  /\ observed = {} /\ fresh = {} /\ notify = {} /\ scan = None /\ event = {}
  /\ task = [r \in Recipients |-> NoTask]
  /\ suspended = {}
  /\ wire = {}
  /\ started = [d \in Deliveries |-> [t \in Roots |-> 0]]
  /\ busy = {}
  /\ enabled = TRUE
  /\ disturbances = 0
  /\ interruptions = 0

Step(r) ==
  \/ Wake(r) \/ Discover(r) \/ LockRoot(r) \/ Observe(r) \/ Release(r) \/ ReadReceipts(r)
  \/ CheckIdle(r) \/ Fence(r) \/ StartTurn(r) \/ Accepted(r) \/ Alerted(r)

Next ==
  \/ \E d \in Deliveries :
       \/ \E own \in BOOLEAN : Commit(d, own)
       \/ \E state \in {"RECEIVED", "CLOSED"} : Process(d, state)
       \/ Notify(d) \/ NotifyRepeated(d)
  \/ WatchRead \/ WatchSignal
  \/ \E r \in Recipients :
       Takeover(r) \/ Step(r) \/ AdmissionRefused(r) \/ TimeOut(r) \/ Fail(r)
       \/ Disconnect(r)
  \/ \E m \in wire : Accept(m) \/ AcceptUnheard(m) \/ Reject(m) \/ Lose(m)
  \/ \E root \in Roots : TurnCompletes(root) \/ UserTurn(root)
  \/ Switch \/ Crash \/ Baseline \/ Listen

(* The event loop runs every ready task and callback, its locks are first come  *)
(* first served, the watcher scans every second, the daemon answers, and turns  *)
(* end.                                                                        *)
Fairness ==
  /\ \A d \in Deliveries : WF_vars(Notify(d))
  /\ WF_vars(WatchRead) /\ WF_vars(WatchSignal)
  /\ \A r \in Recipients : WF_vars(Step(r)) /\ SF_vars(LockRoot(r)) /\ WF_vars(TimeOut(r))
  /\ WF_vars(\E m \in wire : Accept(m) \/ AcceptUnheard(m) \/ Reject(m) \/ Lose(m))
  /\ \A root \in Roots : WF_vars(TurnCompletes(root))
  /\ WF_vars(Baseline) /\ WF_vars(Listen)

Spec == Init /\ [][Next]_vars /\ Fairness

-----------------------------------------------------------------------------
Announced(d) == \E t \in Roots : started[d][t] > 0

(* The variables have their types, and what the process holds as fresh it has    *)
(* observed, so that the watcher never signals it again.                         *)
WakeTypeOK ==
  /\ mail \in [Deliveries -> {"AVAILABLE", "RECEIVED", "CLOSED", None}]
  /\ generation \in [Recipients -> Generation]
  /\ process \in {"down", "starting", "up"}
  /\ observed \subseteq Deliveries
  /\ fresh \subseteq observed
  /\ notify \subseteq Deliveries
  /\ scan \in (SUBSET Deliveries) \cup {None}
  /\ event \subseteq Recipients
  /\ task \in [Recipients -> Task]
  /\ suspended \subseteq Recipients
  /\ wire \subseteq Request
  /\ started \in [Deliveries -> [Roots -> Nat]]
  /\ busy \subseteq Roots
  /\ enabled \in BOOLEAN
  /\ disturbances + interruptions \in 0..MaxIncidents

(* No delivery is announced twice in a thread: not after a turn/start whose      *)
(* answer was lost and that the daemon accepts late, not after a restart, and    *)
(* not by the watcher and the callback together.                                 *)
NoticedOnce == \A d \in Deliveries, t \in Roots : started[d][t] <= 1

(* While a turn/start is awaited the mailbox belongs to the session the turn      *)
(* goes to and its first delivery is still open.                                 *)
StartIsFenced ==
  \A r \in Recipients :
    Fenced(r) => /\ task[r].gen = generation[r]
                 /\ task[r].root = RootOf[<<r, generation[r]>>]
                 /\ Pending(First(task[r].mail))

(* Fresh mail is forgotten only when it has been announced or closed, when its    *)
(* owner is no Codex session, or with the process: mail signalled while the       *)
(* observation is under way is kept.                                             *)
FreshMailIsKept ==
  [][\A d \in fresh \ fresh' :
       \/ Announced(d) \/ mail[d] = "CLOSED"
       \/ RootOf[<<RecipientOf[d], generation[RecipientOf[d]]>>] = None
       \/ process' = "down"]_vars

(* Undisturbed, fresh mail is eventually announced or closed, also when it        *)
(* arrives while the Root is busy or while the task is in the middle of a round,  *)
(* when the connection is lost during the turn that is waited for, and when the   *)
(* Root's turns come from the mail of its Heads.  Not promised is the mail of a    *)
(* Head that closes another delivery between the observation and the fence,        *)
(* which rejects the round.                                                       *)
FreshMailIsNoticed ==
  \A d \in Deliveries :
    d \in fresh ~> \/ Announced(d) \/ mail[d] = "CLOSED" \/ disturbances > 0
                   \/ /\ RecipientOf[d] \in Heads
                      /\ \E e \in MailOf(RecipientOf[d]) \ {d} : mail[e] = "CLOSED"

(* Left alone, a Root is never given a turn while it runs or is about to run       *)
(* another, whoever of the recipients behind it the mail is for.                  *)
RootTurnsDoNotOverlap ==
  disturbances + interruptions = 0 =>
    \A m \in wire : m.root \notin busy /\ \A n \in wire \ {m} : n.root # m.root

(* A send committed while the alert of a definite failure is on its way makes      *)
(* the recipient's task run again: "Definite pre-effect failures can be retried   *)
(* by subsequent delivery signals without restarting the service".                *)
LaterSignalRetries ==
  \A d \in Deliveries :
    LET r == RecipientOf[d]
    IN  (d \in notify /\ At(r, "alerting") /\ r \notin suspended)
          ~> (process # "up" \/ task[r].at \notin Ended \cup {"alerting"})


\* However hints, rounds and uncertain starts interleave, mail is noticed at most once and
\* a turn starts only for the binding and the generation it was admitted for.
NoticeIsFenced ==
  WakeTypeOK /\ NoticedOnce /\ StartIsFenced
=============================================================================
