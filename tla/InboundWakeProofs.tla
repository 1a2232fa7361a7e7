--------------------------- MODULE InboundWakeProofs ---------------------------
(***************************************************************************)
(* Proofs about the wake of Codex sessions by mail: a notice is sent at most  *)
(* once and for the owner it was admitted for, a Root gets no turn on top of  *)
(* another, and fresh mail is not forgotten.                                  *)
(*                                                                           *)
(* The argument turns on what can become of a turn/start whose request is     *)
(* still with the daemon: either its task is still waiting for the answer, or  *)
(* the recipient is suspended, or the process was restarted and the mail of    *)
(* the request is old, which nothing makes fresh again.                       *)
(***************************************************************************)
EXTENDS InboundWake, NaturalsInduction, WellFoundedInduction, TLAPS

(* Mail that nothing makes fresh again in this process: it was there when the    *)
(* process took its baseline.                                                   *)
Old(d) ==
  /\ d \notin fresh \cup notify
  /\ scan # None => d \notin scan \ observed
  /\ process = "down" \/ d \in observed \/ mail[d] # "AVAILABLE"

(* The task that sent the request waits for its answer. *)
Held(m) == /\ task[m.recipient].at = "answering"
           /\ task[m.recipient].root = m.root
           /\ task[m.recipient].mail = m.mail

(* Mail that is fresh or about to be was committed, and a process that is down   *)
(* has none.                                                                    *)
MailFits ==
  /\ \A d \in fresh \cup notify : mail[d] # None
  /\ scan # None => \A d \in scan : mail[d] # None
  /\ process = "down" => fresh = {} /\ notify = {} /\ scan = None

HasRoot == {"queueing"} \cup HoldsRoot
HasMail == HoldsRoot \ {"observing"}
HasRemaining == HasMail \ {"releasing", "reading"}
Unsent == HasRemaining \ {"answering", "accepted"}

(* What task t of recipient r has read is still good for, by where it stands.    *)
TaskFits(r, t) ==
  /\ r \in suspended => t.at \in {"alerting", "done"}
  /\ t.at \in HasRoot => /\ t.gen \in Generation
                         /\ t.root = RootOf[<<r, t.gen>>] /\ t.root \in Roots
  /\ t.at \in {"observing", "releasing"} => /\ t.captured \subseteq MailOf(r)
                                             /\ \A d \in t.captured : mail[d] # None
  /\ t.at = "releasing" => \A d \in t.captured \ t.mail : mail[d] = "CLOSED"
  /\ t.at \in HasMail => t.mail \subseteq MailOf(r)
  /\ t.at \in HasRemaining => t.mail # {}
  /\ t.at \in HasRemaining \ {"accepted"} => t.mail \subseteq fresh
  /\ t.at \in Unsent => \A d \in t.mail : started[d][t.root] = 0
  /\ t.at = "accepted" => \A d \in t.mail : started[d][t.root] > 0

(* A request with the daemon carries mail that was never announced in its        *)
(* thread and that no other request will carry.                                 *)
RequestFits(m) ==
  /\ m.mail # {}
  /\ \A d \in m.mail :
       /\ RecipientOf[d] = m.recipient
       /\ mail[d] # None
       /\ started[d][m.root] = 0
       /\ Held(m) \/ m.recipient \in suspended \/ Old(d)

TasksFit == \A r \in Recipients : TaskFits(r, task[r])
RequestsFit == \A m \in wire : RequestFits(m)
RequestsDiffer == \A m, n \in wire : m # n => m.mail \cap n.mail = {}

(* Two tasks never hold the lock of one Root. *)
RootLocks ==
  \A q, r \in Recipients :
    q # r /\ task[q].at \in HoldsRoot /\ task[r].at \in HoldsRoot => task[q].root # task[r].root

(* Left alone, every request is waited for and its Root is idle. *)
Calm ==
  /\ disturbances \in Nat /\ interruptions \in Nat
  /\ disturbances + interruptions = 0 => \A m \in wire : Held(m) /\ m.root \notin busy

(* The inductive invariant of the wake. *)
WakeInv ==
  /\ NoticeIsFenced
  /\ MailFits
  /\ TasksFit
  /\ RequestsFit
  /\ RequestsDiffer
  /\ RootLocks
  /\ Calm

-----------------------------------------------------------------------------
(* The first delivery of a set of them is one of them: the fence of a task, which   *)
(* locks the first of its mail, locks a delivery of its own recipient.              *)
LEMMA FirstIsOneOf ==
  ASSUME NEW D \in SUBSET Deliveries, D # {}
  PROVE  First(D) \in D
<1>1. D \subseteq Nat
  BY WakeConstants
<1>2. IsWellFoundedOn({p \in Nat \X Nat : p[1] < p[2]}, Nat)
  BY NatLessThanWellFounded DEF OpToRel
<1>3. PICK R : R = {p \in Nat \X Nat : p[1] < p[2]} /\ IsWellFoundedOn(R, Nat)
  BY <1>2
<1>4. PICK x \in D : \A y \in D : ~(<<y, x>> \in R)
  BY <1>1, <1>3, WFMin
<1>5. ASSUME NEW y \in D PROVE x <= y
  <2>1. x \in Nat /\ y \in Nat
    BY <1>1
  <2>2. <<y, x>> \in Nat \X Nat /\ <<y, x>>[1] = y /\ <<y, x>>[2] = x
    BY <2>1
  <2>3. ~(y < x)
    BY <2>2, <1>3, <1>4
  <2> QED
    BY <2>1, <2>3
<1> QED
  BY <1>5 DEF First

(* Old mail stays old while the process runs, for the callbacks and the watcher add  *)
(* to the fresh mail only what they hold already.                                  *)
LEMMA OldStays ==
  ASSUME NEW d, Old(d), process' = process, observed \subseteq observed',
         d \notin fresh' \cup notify', scan' = scan \/ scan' = None,
         mail[d] # "AVAILABLE" => mail'[d] # "AVAILABLE"
  PROVE  Old(d)'
BY DEF Old

(* What a task relies on stands when the task is left alone, its mail stays fresh   *)
(* and no announcement of it is made.                                              *)
LEMMA TaskStays ==
  ASSUME NEW r \in Recipients, NEW t, TaskFits(r, t),
         r \in suspended' => r \in suspended,
         \A d \in Deliveries : d \in MailOf(r) \cap fresh => d \in fresh',
         \A d \in Deliveries : mail[d] # None => mail'[d] # None,
         \A d \in Deliveries : mail[d] = "CLOSED" => mail'[d] = "CLOSED",
         t.at \in Unsent => \A d \in t.mail : started'[d][t.root] = started[d][t.root],
         \A d \in t.mail : started[d][t.root] > 0 => started'[d][t.root] > 0
  PROVE  TaskFits(r, t)'
<1>1. MailOf(r)' = MailOf(r) /\ MailOf(r) \subseteq Deliveries
  BY DEF MailOf
<1>2. HasRemaining \subseteq HasMail
  BY DEF HasRemaining, HasMail
<1> QED
  BY <1>1, <1>2 DEF TaskFits

(* A request stays good when its mail is not announced and its task still waits or   *)
(* the recipient is suspended.                                                     *)
LEMMA RequestStays ==
  ASSUME NEW m, RequestFits(m),
         \A d \in m.mail : mail[d] # None => mail'[d] # None,
         \A d \in m.mail : started'[d][m.root] = started[d][m.root],
         \A d \in m.mail : Old(d) => Old(d)',
         Held(m) => Held(m)' \/ m.recipient \in suspended',
         m.recipient \in suspended => m.recipient \in suspended'
  PROVE  RequestFits(m)'
BY DEF RequestFits

(* A task that does not answer a request moves on: the other tasks, the requests    *)
(* and the locks are as they were.                                                 *)
LEMMA OneTask ==
  ASSUME WakeInv, NEW r \in Recipients, NEW c \in Task,
         task' = [task EXCEPT ![r] = c],
         UNCHANGED <<mail, generation, process, observed, notify, scan, wire, started, busy>>,
         fresh' \subseteq fresh, fresh \ fresh' \subseteq MailOf(r),
         event' \subseteq Recipients,
         suspended \subseteq suspended', suspended' \subseteq suspended \cup {r},
         enabled' \in BOOLEAN,
         disturbances' \in Nat, interruptions' \in Nat,
         disturbances' + interruptions' \in 0..MaxIncidents,
         disturbances' + interruptions' = 0 => disturbances + interruptions = 0,
         TaskFits(r, c)',
         c.at \in HoldsRoot => /\ c.root = task[r].root
                               /\ task[r].at \in HoldsRoot \/ RootFree(r),
         c.at \in HoldsFence => c.gen = generation[r] /\ Pending(First(c.mail)),
         \A m \in wire : m.recipient = r /\ Held(m) =>
                           r \in suspended' /\ disturbances' + interruptions' # 0
  PROVE  WakeInv'
<1> USE DEF WakeInv
<1>t. task \in [Recipients -> Task] /\ wire \subseteq Request /\ started \in [Deliveries -> [Roots -> Nat]]
  BY DEF NoticeIsFenced, WakeTypeOK
<1>r. task'[r] = c /\ \A q \in Recipients \ {r} : task'[q] = task[q]
  BY <1>t
<1>w. \A m \in wire : m.recipient \in Recipients
  BY <1>t DEF Request
<1>1. WakeTypeOK'
  BY <1>t DEF NoticeIsFenced, WakeTypeOK
<1>2. NoticedOnce'
  BY DEF NoticeIsFenced, NoticedOnce
<1>3. StartIsFenced'
  <2> SUFFICES ASSUME NEW q \in Recipients, task'[q].at \in HoldsFence
               PROVE  /\ task'[q].gen = generation[q]
                      /\ task'[q].root = RootOf[<<q, generation[q]>>]
                      /\ Pending(First(task'[q].mail))
    BY DEF StartIsFenced, Fenced, Pending
  <2>1. CASE q = r
    <3>1. c.root = RootOf[<<r, c.gen>>]
      BY <2>1, <1>r DEF TaskFits, HasRoot, HoldsRoot, HoldsFence
    <3> QED
      BY <2>1, <1>r, <3>1
  <2>2. CASE q # r
    BY <2>2, <1>r DEF NoticeIsFenced, StartIsFenced, Fenced
  <2> QED
    BY <2>1, <2>2
<1>4. MailFits'
  BY DEF MailFits
<1>5. TasksFit'
  <2> SUFFICES ASSUME NEW q \in Recipients PROVE TaskFits(q, task[q])'
    BY DEF TasksFit
  <2>1. CASE q = r
    BY <2>1, <1>r
  <2>2. CASE q # r
    <3>1. PICK t : t = task[q] /\ t = task'[q]
      BY <2>2, <1>r
    <3>2. TaskFits(q, t)
      BY <3>1 DEF TasksFit
    <3>3. \A d \in Deliveries : d \in MailOf(q) \cap fresh => d \in fresh'
      BY <2>2 DEF MailOf
    <3>4. TaskFits(q, t)'
      BY <2>2, <3>2, <3>3, TaskStays
    <3> QED
      BY <3>1, <3>4
  <2> QED
    BY <2>1, <2>2
<1>h. \A m \in wire : m.recipient # r => (Held(m) <=> Held(m)')
  BY <1>r, <1>w DEF Held
<1>6. RequestsFit'
  <2> SUFFICES ASSUME NEW m \in wire PROVE RequestFits(m)'
    BY DEF RequestsFit
  <2>1. \A d \in m.mail : Old(d) => Old(d)'
    BY DEF Old
  <2>2. Held(m) => Held(m)' \/ m.recipient \in suspended'
    BY <1>h
  <2> QED
    BY <2>1, <2>2, RequestStays DEF RequestsFit
<1>7. RequestsDiffer'
  BY DEF RequestsDiffer
<1>8. RootLocks'
  <2> SUFFICES ASSUME NEW p \in Recipients, NEW q \in Recipients, p # q,
                      task'[p].at \in HoldsRoot, task'[q].at \in HoldsRoot
               PROVE  task'[p].root # task'[q].root
    BY DEF RootLocks
  <2>1. CASE p # r /\ q # r
    BY <2>1, <1>r DEF RootLocks
  <2>2. CASE p = r
    BY <2>2, <1>r DEF RootLocks, RootFree
  <2>3. CASE q = r
    BY <2>3, <1>r DEF RootLocks, RootFree
  <2> QED
    BY <2>1, <2>2, <2>3
<1>9. Calm'
  <2> SUFFICES ASSUME disturbances' + interruptions' = 0, NEW m \in wire
               PROVE  Held(m)' /\ m.root \notin busy
    BY DEF Calm
  <2>1. Held(m) /\ m.root \notin busy
    BY DEF Calm
  <2> QED
    BY <2>1, <1>h
<1> QED
  BY <1>1, <1>2, <1>3, <1>4, <1>5, <1>6, <1>7, <1>8, <1>9 DEF NoticeIsFenced

(* What a step may do to the fresh mail: the action of FreshMailIsKept. *)
KeepsFresh ==
  \A d \in fresh \ fresh' :
    \/ Announced(d) \/ mail[d] = "CLOSED"
    \/ RootOf[<<RecipientOf[d], generation[RecipientOf[d]]>>] = None
    \/ process' = "down"

(* A task that forgets its round, to wait, to alert or to end. *)
LEMMA Forgotten ==
  ASSUME WakeInv, NEW r \in Recipients, NEW place \in {"waiting", "done", "alerting"},
         NEW root \in Roots \cup {None},
         Forgets(r, place, root),
         UNCHANGED <<mail, generation, process, observed, notify, scan, wire, started, busy>>,
         fresh' \subseteq fresh, fresh \ fresh' \subseteq MailOf(r),
         event' \subseteq Recipients,
         suspended \subseteq suspended', suspended' \subseteq suspended \cup {r},
         r \in suspended' => place # "waiting",
         enabled' \in BOOLEAN,
         disturbances' \in Nat, interruptions' \in Nat,
         disturbances' + interruptions' \in 0..MaxIncidents,
         disturbances' + interruptions' = 0 => disturbances + interruptions = 0,
         \A m \in wire : m.recipient = r /\ Held(m) =>
                           r \in suspended' /\ disturbances' + interruptions' # 0
  PROVE  WakeInv'
<1>1. PICK c : c = [NewTask EXCEPT !.at = place, !.root = root]
  OBVIOUS
<1>2. c \in Task /\ c.at = place
  BY <1>1 DEF NewTask, Task, Place
<1>3. task' = [task EXCEPT ![r] = c]
  BY <1>1 DEF Forgets
<1>4. TaskFits(r, c)'
  BY <1>2 DEF TaskFits, HasRoot, HasMail, HasRemaining, Unsent, HoldsRoot
<1>5. c.at \notin HoldsRoot /\ c.at \notin HoldsFence
  BY <1>2 DEF HoldsRoot, HoldsFence
<1> QED
  BY <1>2, <1>3, <1>4, <1>5, OneTask

(* A disturbance or an interruption is counted and the count stays in its bound. *)
LEMMA Counted ==
  ASSUME WakeInv
  PROVE  /\ Disturb /\ interruptions' = interruptions =>
              /\ disturbances' \in Nat /\ interruptions' \in Nat
              /\ disturbances' + interruptions' \in 0..MaxIncidents
              /\ disturbances' + interruptions' # 0
         /\ Interrupt /\ disturbances' = disturbances =>
              /\ disturbances' \in Nat /\ interruptions' \in Nat
              /\ disturbances' + interruptions' \in 0..MaxIncidents
              /\ disturbances' + interruptions' # 0
         /\ disturbances \in Nat /\ interruptions \in Nat
         /\ disturbances + interruptions \in 0..MaxIncidents
<1>1. disturbances \in Nat /\ interruptions \in Nat /\ MaxIncidents \in Nat
  BY WakeConstants DEF WakeInv, Calm
<1>2. disturbances + interruptions \in 0..MaxIncidents
  BY DEF WakeInv, NoticeIsFenced, WakeTypeOK
<1> QED
  BY <1>1, <1>2 DEF Disturb, Interrupt

(* The round of a task is over and the mail it leaves fresh is fresh still. *)
LEMMA RoundOver ==
  ASSUME WakeInv, NEW r \in Recipients,
         task[r].at \in Place \ {"none", "done", "alerting", "answering"},
         Forgets(r, "waiting", task[r].root),
         UNCHANGED <<mail, generation, process, observed, notify, scan, wire, started, busy,
                     suspended, enabled, interruptions>>,
         fresh' \subseteq fresh, fresh \ fresh' \subseteq MailOf(r),
         event' = event,
         disturbances' = disturbances \/ Disturb
  PROVE  WakeInv'
<1>1. task[r].root \in Roots \cup {None} /\ event \subseteq Recipients /\ enabled \in BOOLEAN
  BY DEF WakeInv, NoticeIsFenced, WakeTypeOK, Task
<1>2. r \notin suspended
  BY DEF WakeInv, TasksFit, TaskFits
<1>3. \A m \in wire : m.recipient = r => ~Held(m)
  BY DEF Held
<1>4. /\ disturbances' \in Nat /\ interruptions' \in Nat
      /\ disturbances' + interruptions' \in 0..MaxIncidents
      /\ disturbances' + interruptions' = 0 => disturbances + interruptions = 0
  BY Counted
<1>5. PICK root \in Roots \cup {None} : root = task[r].root
  BY <1>1
<1>6. Forgets(r, "waiting", root)
  BY <1>5 DEF Forgets
<1> QED
  BY <1>1, <1>2, <1>3, <1>4, <1>6, Forgotten

(* A task goes on with its round. *)
LEMMA RoundGoesOn ==
  ASSUME WakeInv, NEW r \in Recipients, NEW c \in Task,
         task[r].at # "answering",
         task' = [task EXCEPT ![r] = c],
         UNCHANGED <<mail, generation, process, observed, notify, scan, wire, started, busy,
                     suspended, enabled, disturbances, interruptions>>,
         fresh' \subseteq fresh, fresh \ fresh' \subseteq MailOf(r),
         event' \subseteq event,
         TaskFits(r, c)',
         c.at \in HoldsRoot => /\ c.root = task[r].root
                               /\ task[r].at \in HoldsRoot \/ RootFree(r),
         c.at \in HoldsFence => c.gen = generation[r] /\ Pending(First(c.mail))
  PROVE  WakeInv'
<1>1. event' \subseteq Recipients /\ enabled \in BOOLEAN
  BY DEF WakeInv, NoticeIsFenced, WakeTypeOK
<1>2. \A m \in wire : m.recipient = r => ~Held(m)
  BY DEF Held
<1>3. /\ disturbances' \in Nat /\ interruptions' \in Nat
      /\ disturbances' + interruptions' \in 0..MaxIncidents
      /\ disturbances' + interruptions' = 0 => disturbances + interruptions = 0
  BY Counted
<1> QED
  BY <1>1, <1>2, <1>3, OneTask

(* Every step of a task that sends nothing keeps the invariant and the fresh mail. *)
LEMMA TaskStep ==
  ASSUME WakeInv, NEW r \in Recipients,
         \/ Wake(r) \/ Discover(r) \/ LockRoot(r) \/ Observe(r) \/ Release(r)
         \/ ReadReceipts(r) \/ CheckIdle(r) \/ Fence(r) \/ Accepted(r) \/ Alerted(r)
  PROVE  WakeInv' /\ KeepsFresh
<1>t. PICK t \in Task : t = task[r]
  BY DEF WakeInv, NoticeIsFenced, WakeTypeOK
<1>f. TaskFits(r, t)
  BY <1>t DEF WakeInv, TasksFit
<1>T. task \in [Recipients -> Task] /\ fresh \subseteq Deliveries
  BY DEF WakeInv, NoticeIsFenced, WakeTypeOK
<1>M. \A d \in Deliveries : mail[d] \in {"AVAILABLE", "RECEIVED", "CLOSED", None}
  BY DEF WakeInv, NoticeIsFenced, WakeTypeOK
<1> USE DEF daemon, database
<1>1. CASE Wake(r)
  <2>1. PICK c : c = [t EXCEPT !.at = "discovering"]
    OBVIOUS
  <2>2. c \in Task /\ c.at = "discovering"
    BY <2>1 DEF Task, Place
  <2>3. t.at = "waiting" /\ task' = [task EXCEPT ![r] = c] /\ fresh' = fresh /\ suspended' = suspended
    BY <1>1, <1>t, <1>T, <2>1 DEF Wake, Goes, At
  <2>4. TaskFits(r, c)'
    BY <1>f, <2>2, <2>3 DEF TaskFits, HasRoot, HasMail, HasRemaining, Unsent, HoldsRoot
  <2>5. c.at \notin HoldsRoot /\ c.at \notin HoldsFence
    BY <2>2 DEF HoldsRoot, HoldsFence
  <2>6. WakeInv'
    BY <1>1, <1>t, <2>2, <2>3, <2>4, <2>5, RoundGoesOn DEF Wake
  <2> QED
    BY <2>3, <2>6 DEF KeepsFresh
<1>2. CASE Discover(r)
  <2>g. generation[r] \in Generation
    BY DEF WakeInv, NoticeIsFenced, WakeTypeOK
  <2>1. PICK root : root = RootOf[<<r, generation[r]>>]
    OBVIOUS
  <2>2. root \in Roots \cup {None} /\ None \notin Roots
    BY <2>g, <2>1, WakeConstants
  <2>3. t.at = "discovering"
    BY <1>2, <1>t DEF Discover, At
  <2>4. CASE root = None
    <3>1. fresh' = fresh \ MailOf(r) /\ Forgets(r, "done", None)
      BY <1>2, <2>1, <2>4 DEF Discover
    <3>2. /\ UNCHANGED <<mail, generation, process, observed, notify, scan, wire, started, busy>>
          /\ event' = event /\ suspended' = suspended /\ enabled' = enabled
          /\ disturbances' = disturbances /\ interruptions' = interruptions
      BY <1>2 DEF Discover
    <3>3. event \subseteq Recipients /\ enabled \in BOOLEAN
      BY DEF WakeInv, NoticeIsFenced, WakeTypeOK
    <3>4. \A m \in wire : m.recipient = r => ~Held(m)
      BY <1>t, <2>3 DEF Held
    <3>5. /\ disturbances' \in Nat /\ interruptions' \in Nat
          /\ disturbances' + interruptions' \in 0..MaxIncidents
          /\ disturbances' + interruptions' = 0 => disturbances + interruptions = 0
      BY <3>2, Counted
    <3>6. WakeInv'
      BY <3>1, <3>2, <3>3, <3>4, <3>5, Forgotten
    <3>7. \A d \in fresh \ fresh' : RecipientOf[d] = r
      BY <3>1 DEF MailOf
    <3> QED
      BY <3>6, <3>7, <2>1, <2>4 DEF KeepsFresh
  <2>5. CASE root # None
    <3>1. PICK g \in Generation : g = generation[r]
      BY <2>g
    <3>2. PICK c : c = [t EXCEPT !.at = "queueing", !.gen = g, !.root = root]
      OBVIOUS
    <3>3. c \in Task /\ c.at = "queueing" /\ c.gen = g /\ c.root = root
      BY <2>2, <3>2 DEF Task, Place
    <3>4. task' = [task EXCEPT ![r] = c]
      BY <1>2, <1>t, <1>T, <2>1, <2>5, <3>1, <3>2 DEF Discover
    <3>5. fresh' = fresh /\ suspended' = suspended
      BY <1>2, <2>1, <2>5 DEF Discover
    <3>6. TaskFits(r, c)'
      BY <1>f, <2>1, <2>2, <2>3, <2>5, <3>1, <3>3, <3>5
      DEF TaskFits, HasRoot, HasMail, HasRemaining, Unsent, HoldsRoot
    <3>7. c.at \notin HoldsRoot /\ c.at \notin HoldsFence
      BY <3>3 DEF HoldsRoot, HoldsFence
    <3>8. WakeInv'
      BY <1>2, <1>t, <2>3, <3>3, <3>4, <3>5, <3>6, <3>7, RoundGoesOn DEF Discover
    <3> QED
      BY <3>5, <3>8 DEF KeepsFresh
  <2> QED
    BY <2>4, <2>5
<1>3. CASE LockRoot(r)
  <2>1. PICK D : D = fresh \cap MailOf(r)
    OBVIOUS
  <2>2. PICK c : c = [t EXCEPT !.at = "observing", !.captured = D]
    OBVIOUS
  <2>3. D \in SUBSET Deliveries /\ \A d \in D : mail[d] # None
    BY <1>T, <2>1 DEF WakeInv, MailFits
  <2>4. c \in Task /\ c.at = "observing" /\ c.captured = D /\ c.root = t.root /\ c.gen = t.gen
    BY <2>2, <2>3 DEF Task, Place
  <2>5. t.at = "queueing" /\ task' = [task EXCEPT ![r] = c] /\ RootFree(r)
    BY <1>3, <1>t, <1>T, <2>1, <2>2 DEF LockRoot, At
  <2>6. fresh' = fresh /\ suspended' = suspended /\ mail' = mail /\ started' = started
    BY <1>3 DEF LockRoot, OnlyTask
  <2>7. TaskFits(r, c)'
    BY <1>f, <2>1, <2>3, <2>4, <2>5, <2>6
    DEF TaskFits, HasRoot, HasMail, HasRemaining, Unsent, HoldsRoot, MailOf
  <2>8. c.at \notin HoldsFence
    BY <2>4 DEF HoldsFence
  <2>9. WakeInv'
    BY <1>3, <1>t, <2>4, <2>5, <2>6, <2>7, <2>8, RoundGoesOn DEF LockRoot, OnlyTask
  <2> QED
    BY <2>6, <2>9 DEF KeepsFresh
<1>4. CASE Observe(r)
  <2>1. t.at = "observing"
    BY <1>4, <1>t DEF Observe, At
  <2>2. fresh' = fresh /\ suspended' = suspended /\ mail' = mail /\ started' = started
    BY <1>4 DEF Observe
  <2>3. CASE generation[r] # task[r].gen
    <3>1. Forgets(r, "waiting", task[r].root) /\ event' = event
      BY <1>4, <2>3 DEF Observe, Back
    <3>2. task[r].at \in Place \ {"none", "done", "alerting", "answering"}
      BY <1>t, <2>1 DEF Place
    <3>3. WakeInv'
      BY <1>4, <2>2, <3>1, <3>2, RoundOver DEF Observe
    <3> QED
      BY <2>2, <3>3 DEF KeepsFresh
  <2>4. CASE generation[r] = task[r].gen
    <3>1. PICK D : D = {d \in MailOf(r) : Pending(d)}
      OBVIOUS
    <3>2. PICK c : c = [t EXCEPT !.at = "releasing", !.mail = D]
      OBVIOUS
    <3>3. D \subseteq MailOf(r) /\ D \in SUBSET Deliveries
      BY <3>1 DEF MailOf
    <3>4. /\ c \in Task /\ c.at = "releasing" /\ c.mail = D
          /\ c.root = t.root /\ c.gen = t.gen /\ c.captured = t.captured
      BY <3>2, <3>3 DEF Task, Place
    <3>5. task' = [task EXCEPT ![r] = c] /\ event' = event
      BY <1>4, <1>t, <1>T, <2>4, <3>1, <3>2 DEF Observe
    <3>6. t.captured \subseteq Deliveries
      BY DEF Task
    <3>7. \A d \in t.captured \cap MailOf(r) : d \notin D => mail[d] = "CLOSED"
      BY <1>f, <1>M, <2>1, <3>1, <3>6 DEF TaskFits, Pending
    <3>8. t.captured \subseteq MailOf(r)
      BY <1>f, <2>1 DEF TaskFits
    <3>9. TaskFits(r, c)'
      BY <1>f, <2>1, <2>2, <3>3, <3>4, <3>7, <3>8
      DEF TaskFits, HasRoot, HasMail, HasRemaining, Unsent, HoldsRoot, MailOf
    <3>10. c.at \notin HoldsFence /\ t.at \in HoldsRoot
      BY <2>1, <3>4 DEF HoldsFence, HoldsRoot
    <3>11. WakeInv'
      BY <1>4, <1>t, <2>1, <2>2, <3>4, <3>5, <3>9, <3>10, RoundGoesOn DEF Observe
    <3> QED
      BY <2>2, <3>11 DEF KeepsFresh
  <2> QED
    BY <2>3, <2>4
<1>5. CASE Release(r)
  <2>1. PICK c : c = [t EXCEPT !.at = "reading", !.captured = {}]
    OBVIOUS
  <2>2. c \in Task /\ c.at = "reading" /\ c.mail = t.mail /\ c.root = t.root /\ c.gen = t.gen
    BY <2>1 DEF Task, Place
  <2>3. t.at = "releasing" /\ task' = [task EXCEPT ![r] = c]
    BY <1>5, <1>t, <1>T, <2>1 DEF Release, At
  <2>4. fresh' = fresh \ (t.captured \ t.mail) /\ suspended' = suspended
    BY <1>5, <1>t DEF Release, Released
  <2>5. t.captured \subseteq MailOf(r) /\ \A d \in t.captured \ t.mail : mail[d] = "CLOSED"
    BY <1>f, <2>3 DEF TaskFits
  <2>6. TaskFits(r, c)'
    BY <1>f, <2>2, <2>3, <2>4 DEF TaskFits, HasRoot, HasMail, HasRemaining, Unsent, HoldsRoot, MailOf
  <2>7. c.at \notin HoldsFence /\ t.at \in HoldsRoot
    BY <2>2, <2>3 DEF HoldsFence, HoldsRoot
  <2>8. fresh' \subseteq fresh /\ fresh \ fresh' \subseteq MailOf(r) /\ event' = event
    BY <1>5, <2>4, <2>5 DEF Release
  <2>9. WakeInv'
    BY <1>5, <1>t, <2>2, <2>3, <2>6, <2>7, <2>8, RoundGoesOn DEF Release
  <2> QED
    BY <2>4, <2>5, <2>9 DEF KeepsFresh
<1>6. CASE ReadReceipts(r)
  <2>1. t.at = "reading"
    BY <1>6, <1>t DEF ReadReceipts, At
  <2>2. fresh' = fresh /\ suspended' = suspended /\ mail' = mail /\ started' = started
    BY <1>6 DEF ReadReceipts
  <2>3. PICK D : D = {d \in task[r].mail \cap fresh : started[d][task[r].root] = 0}
    OBVIOUS
  <2>4. CASE D = {}
    <3>1. Forgets(r, "waiting", task[r].root) /\ event' = event
      BY <1>6, <2>3, <2>4 DEF ReadReceipts, Back
    <3>2. task[r].at \in Place \ {"none", "done", "alerting", "answering"}
      BY <1>t, <2>1 DEF Place
    <3>3. WakeInv'
      BY <1>6, <2>2, <3>1, <3>2, RoundOver DEF ReadReceipts
    <3> QED
      BY <2>2, <3>3 DEF KeepsFresh
  <2>5. CASE D # {}
    <3>1. PICK c : c = [t EXCEPT !.at = "checking", !.mail = D]
      OBVIOUS
    <3>2. D \subseteq t.mail /\ D \subseteq fresh /\ \A d \in D : started[d][t.root] = 0
      BY <1>t, <2>3
    <3>3. /\ c \in Task /\ c.at = "checking" /\ c.mail = D
          /\ c.root = t.root /\ c.gen = t.gen
      BY <1>T, <3>1, <3>2 DEF Task, Place
    <3>4. task' = [task EXCEPT ![r] = c] /\ event' = event
      BY <1>6, <1>t, <1>T, <2>3, <2>5, <3>1 DEF ReadReceipts
    <3>5. TaskFits(r, c)'
      BY <1>f, <2>1, <2>2, <2>5, <3>2, <3>3
      DEF TaskFits, HasRoot, HasMail, HasRemaining, Unsent, HoldsRoot, MailOf
    <3>6. c.at \notin HoldsFence /\ t.at \in HoldsRoot
      BY <2>1, <3>3 DEF HoldsFence, HoldsRoot
    <3>7. WakeInv'
      BY <1>6, <1>t, <2>1, <2>2, <3>3, <3>4, <3>5, <3>6, RoundGoesOn DEF ReadReceipts
    <3> QED
      BY <2>2, <3>7 DEF KeepsFresh
  <2> QED
    BY <2>4, <2>5
<1>7. CASE CheckIdle(r) \/ Fence(r)
  <2>1. PICK place : /\ t.at \in {"checking", "admitting"}
                     /\ place = IF t.at = "checking" THEN "admitting" ELSE "starting"
    BY <1>7, <1>t DEF CheckIdle, Fence, At
  <2>2. fresh' = fresh /\ suspended' = suspended /\ mail' = mail /\ started' = started
    BY <1>7 DEF CheckIdle, Fence
  <2>f. UNCHANGED <<mail, generation, process, observed, notify, scan, wire, started, busy,
                    suspended, enabled, disturbances, interruptions>>
    BY <1>7 DEF CheckIdle, Fence
  <2>3. CASE Back(r)
    <3>1. Forgets(r, "waiting", task[r].root) /\ event' = event
      BY <2>3 DEF Back
    <3>2. task[r].at \in Place \ {"none", "done", "alerting", "answering"}
      BY <1>t, <2>1 DEF Place
    <3>3. WakeInv'
      BY <2>f, <2>2, <3>1, <3>2, RoundOver
    <3> QED
      BY <2>2, <3>3 DEF KeepsFresh
  <2>4. CASE ~Back(r)
    <3>1. Goes(r, place) /\ event' = event /\ (place = "starting" => FenceHolds(r))
      BY <1>7, <1>t, <2>1, <2>4 DEF CheckIdle, Fence, At
    <3>2. PICK c : c = [t EXCEPT !.at = place]
      OBVIOUS
    <3>3. /\ c \in Task /\ c.at = place /\ c.mail = t.mail
          /\ c.root = t.root /\ c.gen = t.gen
      BY <2>1, <3>2 DEF Task, Place
    <3>4. task' = [task EXCEPT ![r] = c]
      BY <1>t, <1>T, <3>1, <3>2 DEF Goes
    <3>5. TaskFits(r, c)'
      BY <1>f, <2>1, <2>2, <3>3
      DEF TaskFits, HasRoot, HasMail, HasRemaining, Unsent, HoldsRoot, MailOf
    <3>6. t.at \in HoldsRoot /\ t.at # "answering"
      BY <2>1 DEF HoldsRoot
    <3>7. c.at \in HoldsFence => c.gen = generation[r] /\ Pending(First(c.mail))
      BY <1>t, <2>1, <3>1, <3>3 DEF HoldsFence, FenceHolds
    <3>8. WakeInv'
      BY <1>t, <2>f, <2>2, <3>1, <3>3, <3>4, <3>5, <3>6, <3>7, RoundGoesOn
    <3> QED
      BY <2>2, <3>8 DEF KeepsFresh
  <2> QED
    BY <2>3, <2>4
<1>8. CASE Accepted(r)
  <2>1. t.at = "accepted" /\ fresh' = fresh \ t.mail /\ Forgets(r, "waiting", task[r].root) /\ event' = event
    BY <1>8, <1>t DEF Accepted, At, Back
  <2>2. /\ t.mail \subseteq MailOf(r) /\ t.root \in Roots
        /\ \A d \in t.mail : started[d][t.root] > 0
    BY <1>f, <2>1 DEF TaskFits, HasMail, HasRoot, HoldsRoot
  <2>3. task[r].at \in Place \ {"none", "done", "alerting", "answering"}
    BY <1>t, <2>1 DEF Place
  <2>4. WakeInv'
    BY <1>8, <2>1, <2>2, <2>3, RoundOver DEF Accepted
  <2> QED
    BY <2>1, <2>2, <2>4 DEF KeepsFresh, Announced
<1>9. CASE Alerted(r)
  <2>1. PICK c : c = [t EXCEPT !.at = "done"]
    OBVIOUS
  <2>2. c \in Task /\ c.at = "done"
    BY <2>1 DEF Task, Place
  <2>3. t.at = "alerting" /\ task' = [task EXCEPT ![r] = c] /\ fresh' = fresh
    BY <1>9, <1>t, <1>T, <2>1 DEF Alerted, Goes, At, OnlyTask
  <2>4. TaskFits(r, c)'
    BY <2>2 DEF TaskFits, HasRoot, HasMail, HasRemaining, Unsent, HoldsRoot
  <2>5. c.at \notin HoldsRoot /\ c.at \notin HoldsFence
    BY <2>2 DEF HoldsRoot, HoldsFence
  <2>6. WakeInv'
    BY <1>9, <1>t, <2>2, <2>3, <2>4, <2>5, RoundGoesOn DEF Alerted, OnlyTask
  <2> QED
    BY <2>3, <2>6 DEF KeepsFresh
<1> QED
  BY <1>1, <1>2, <1>3, <1>4, <1>5, <1>6, <1>7, <1>8, <1>9

(* A refused admission, a failure, a timeout or a lost connection keeps the          *)
(* invariant: after a timeout the recipient is suspended.                          *)
LEMMA TaskDisturbed ==
  ASSUME WakeInv, NEW r \in Recipients,
         AdmissionRefused(r) \/ TimeOut(r) \/ Fail(r) \/ Disconnect(r)
  PROVE  WakeInv' /\ KeepsFresh
<1>t. PICK t \in Task : t = task[r]
  BY DEF WakeInv, NoticeIsFenced, WakeTypeOK
<1>T. event \subseteq Recipients /\ enabled \in BOOLEAN /\ wire \subseteq Request
  BY DEF WakeInv, NoticeIsFenced, WakeTypeOK
<1>f. r \in suspended => t.at \in {"alerting", "done"}
  BY <1>t DEF WakeInv, TasksFit, TaskFits
<1> USE DEF daemon, database
<1>1. CASE AdmissionRefused(r)
  <2>1. Forgets(r, "waiting", task[r].root) /\ event' = event /\ Disturb /\ fresh' = fresh
    BY <1>1 DEF AdmissionRefused, Back
  <2>2. task[r].at \in Place \ {"none", "done", "alerting", "answering"}
    BY <1>1 DEF AdmissionRefused, At, Place
  <2>3. WakeInv'
    BY <1>1, <2>1, <2>2, RoundOver DEF AdmissionRefused
  <2> QED
    BY <2>1, <2>3 DEF KeepsFresh
<1>2. CASE TimeOut(r)
  <2>1. /\ UNCHANGED <<mail, generation, process, observed, notify, scan, wire, started, busy>>
        /\ fresh' = fresh /\ event' = event /\ enabled' = enabled /\ interruptions' = interruptions
        /\ suspended' = suspended \cup {r} /\ Forgets(r, "alerting", None)
        /\ t.at = "answering" /\ process = "up"
    BY <1>2, <1>t DEF TimeOut, Uncertain, At
  <2>2. CASE \E m \in wire : Awaits(r, m)
    <3>1. Disturb
      BY <1>2, <2>2 DEF TimeOut
    <3>2. /\ disturbances' \in Nat /\ interruptions' \in Nat
          /\ disturbances' + interruptions' \in 0..MaxIncidents
          /\ disturbances' + interruptions' # 0
      BY <2>1, <3>1, Counted
    <3>3. WakeInv'
      BY <1>T, <2>1, <3>2, Forgotten
    <3> QED
      BY <2>1, <3>3 DEF KeepsFresh
  <2>3. CASE ~\E m \in wire : Awaits(r, m)
    <3>1. disturbances' = disturbances
      BY <1>2, <2>3 DEF TimeOut
    <3>2. \A m \in wire : m.recipient = r => ~Held(m)
      BY <1>t, <2>1, <2>3 DEF Held, Awaits
    <3>3. /\ disturbances' \in Nat /\ interruptions' \in Nat
          /\ disturbances' + interruptions' \in 0..MaxIncidents
          /\ disturbances' + interruptions' = 0 => disturbances + interruptions = 0
      BY <2>1, <3>1, Counted
    <3>4. WakeInv'
      BY <1>T, <2>1, <3>2, <3>3, Forgotten
    <3> QED
      BY <2>1, <3>4 DEF KeepsFresh
  <2> QED
    BY <2>2, <2>3
<1>3. CASE Fail(r)
  <2>1. /\ UNCHANGED <<mail, generation, process, observed, notify, scan, wire, started, busy>>
        /\ fresh' = fresh /\ event' = event /\ enabled' = enabled /\ interruptions' = interruptions
        /\ suspended' = suspended /\ Forgets(r, "alerting", None) /\ Disturb
    BY <1>3 DEF Fail
  <2>2. \A m \in wire : m.recipient = r => ~Held(m)
    BY <1>3 DEF Held, Fail, At
  <2>3. /\ disturbances' \in Nat /\ interruptions' \in Nat
        /\ disturbances' + interruptions' \in 0..MaxIncidents
        /\ disturbances' + interruptions' # 0
    BY <2>1, Counted
  <2>4. WakeInv'
    BY <1>T, <2>1, <2>2, <2>3, Forgotten
  <2> QED
    BY <2>1, <2>4 DEF KeepsFresh
<1>4. CASE Disconnect(r)
  <2>1. /\ UNCHANGED <<mail, generation, process, observed, notify, scan, wire, started, busy>>
        /\ fresh' = fresh /\ event' = event \cup {r} /\ enabled' = enabled
        /\ disturbances' = disturbances /\ Interrupt
        /\ suspended' = suspended /\ Forgets(r, "waiting", None) /\ t.at = "waiting"
    BY <1>4, <1>t DEF Disconnect, At
  <2>2. r \notin suspended' /\ \A m \in wire : m.recipient = r => ~Held(m)
    BY <1>f, <1>t, <2>1 DEF Held
  <2>3. /\ disturbances' \in Nat /\ interruptions' \in Nat
        /\ disturbances' + interruptions' \in 0..MaxIncidents
        /\ disturbances' + interruptions' # 0
    BY <2>1, Counted
  <2>4. WakeInv'
    BY <1>T, <2>1, <2>2, <2>3, Forgotten
  <2> QED
    BY <2>1, <2>4 DEF KeepsFresh
<1> QED
  BY <1>1, <1>2, <1>3, <1>4

(* The fresh mail of a task on its way to the daemon is with the daemon in no         *)
(* request: such a request would be awaited, or the recipient suspended, or the     *)
(* mail old.                                                                      *)
LEMMA NotYetSent ==
  ASSUME WakeInv, NEW r \in Recipients, task[r].at \in Unsent,
         NEW m \in wire, NEW d \in m.mail
  PROVE  d \notin task[r].mail
<1>1. SUFFICES ASSUME d \in task[r].mail PROVE FALSE
  OBVIOUS
<1>2. /\ task[r].mail \subseteq MailOf(r) /\ task[r].mail \subseteq fresh
      /\ r \notin suspended /\ task[r].at # "answering"
  BY DEF WakeInv, TasksFit, TaskFits, Unsent, HasRemaining, HasMail, HoldsRoot
<1>3. RequestFits(m)
  BY DEF WakeInv, RequestsFit
<1>4. m.recipient = r
  BY <1>1, <1>2, <1>3 DEF RequestFits, MailOf
<1> QED
  BY <1>1, <1>2, <1>3, <1>4 DEF RequestFits, Held, Old

(* A turn/start that goes out carries mail no other request carries. *)
LEMMA StartStep ==
  ASSUME WakeInv, NEW r \in Recipients, StartTurn(r)
  PROVE  WakeInv' /\ KeepsFresh
<1>t. PICK t \in Task : t = task[r]
  BY DEF WakeInv, NoticeIsFenced, WakeTypeOK
<1>T. task \in [Recipients -> Task] /\ wire \subseteq Request
  BY DEF WakeInv, NoticeIsFenced, WakeTypeOK
<1>f. TaskFits(r, t) /\ t.at = "starting"
  BY <1>t DEF WakeInv, TasksFit, StartTurn, At
<1> USE DEF daemon, database
<1>u. /\ UNCHANGED <<mail, generation, process, observed, notify, scan, started, busy, fresh,
                     suspended, enabled, interruptions, disturbances>>
      /\ event' = event
  BY DEF StartTurn, Back
<1>1. CASE ~(task[r].root \notin busy /\ enabled)
  <2>1. Forgets(r, "waiting", task[r].root) /\ wire' = wire
    BY <1>1 DEF StartTurn, Back
  <2>2. task[r].at \in Place \ {"none", "done", "alerting", "answering"}
    BY <1>f, <1>t DEF Place
  <2>3. WakeInv'
    BY <1>u, <2>1, <2>2, RoundOver
  <2> QED
    BY <1>u, <2>3 DEF KeepsFresh
<1>2. CASE task[r].root \notin busy /\ enabled
  <2>1. PICK c : c = [t EXCEPT !.at = "answering"]
    OBVIOUS
  <2>2. c \in Task /\ c.at = "answering" /\ c.mail = t.mail /\ c.root = t.root /\ c.gen = t.gen
    BY <2>1 DEF Task, Place
  <2>3. task' = [task EXCEPT ![r] = c]
    BY <1>2, <1>t, <1>T, <2>1 DEF StartTurn, Goes
  <2>4. PICK n : n = [recipient |-> r, root |-> t.root, mail |-> t.mail]
    OBVIOUS
  <2>5. wire' = wire \cup {n}
    BY <1>2, <1>t, <2>4 DEF StartTurn
  <2>6. /\ t.root \in Roots /\ t.mail \subseteq MailOf(r) /\ t.mail # {} /\ t.mail \subseteq fresh
        /\ r \notin suspended /\ \A d \in t.mail : started[d][t.root] = 0
    BY <1>f DEF TaskFits, HasRoot, HasMail, HasRemaining, Unsent, HoldsRoot
  <2>7. n \in Request /\ n.recipient = r /\ n.root = t.root /\ n.mail = t.mail
    BY <2>4, <2>6 DEF Request, Task
  <2>r. task'[r] = c /\ \A q \in Recipients \ {r} : task'[q] = task[q]
    BY <1>T, <2>3
  <2>w. \A m \in wire : m.recipient \in Recipients
    BY <1>T DEF Request
  <2>n. \A m \in wire : m.mail \cap t.mail = {}
    BY <1>f, <1>t, NotYetSent DEF Unsent, HasRemaining, HasMail, HoldsRoot
  <2>a. WakeTypeOK'
    BY <1>T, <1>u, <2>2, <2>3, <2>5, <2>7 DEF WakeInv, NoticeIsFenced, WakeTypeOK
  <2>b. NoticedOnce'
    BY <1>u DEF WakeInv, NoticeIsFenced, NoticedOnce
  <2>c. StartIsFenced'
    <3> SUFFICES ASSUME NEW q \in Recipients, task'[q].at \in HoldsFence
                 PROVE  /\ task'[q].gen = generation[q]
                        /\ task'[q].root = RootOf[<<q, generation[q]>>]
                        /\ Pending(First(task'[q].mail))
      BY <1>u DEF StartIsFenced, Fenced, Pending
    <3>1. task[q].at \in HoldsFence /\ task[q].gen = task'[q].gen /\ task[q].root = task'[q].root
            /\ task[q].mail = task'[q].mail
      BY <1>f, <1>t, <2>2, <2>r DEF HoldsFence
    <3> QED
      BY <3>1 DEF WakeInv, NoticeIsFenced, StartIsFenced, Fenced
  <2>d. MailFits'
    BY <1>u DEF WakeInv, MailFits
  <2>e. TasksFit'
    <3> SUFFICES ASSUME NEW q \in Recipients PROVE TaskFits(q, task[q])'
      BY DEF TasksFit
    <3>1. CASE q = r
      <4>1. TaskFits(r, c)'
        BY <1>f, <1>u, <2>2, <2>6
        DEF TaskFits, HasRoot, HasMail, HasRemaining, Unsent, HoldsRoot, MailOf
      <4> QED
        BY <3>1, <4>1, <2>r
    <3>2. CASE q # r
      <4>1. PICK s : s = task[q] /\ s = task'[q]
        BY <3>2, <2>r
      <4>2. TaskFits(q, s)
        BY <4>1 DEF WakeInv, TasksFit
      <4>3. TaskFits(q, s)'
        BY <1>u, <4>2, TaskStays
      <4> QED
        BY <4>1, <4>3
    <3> QED
      BY <3>1, <3>2
  <2>g. RequestsFit'
    <3> SUFFICES ASSUME NEW m \in wire \cup {n} PROVE RequestFits(m)'
      BY <2>5 DEF RequestsFit
    <3>1. CASE m = n
      <4>1. Held(n)'
        BY <2>2, <2>7, <2>r DEF Held
      <4>2. \A d \in n.mail : RecipientOf[d] = r /\ mail[d] # None /\ started[d][n.root] = 0
        BY <2>6, <2>7 DEF WakeInv, MailFits, MailOf
      <4> QED
        BY <1>u, <2>6, <2>7, <3>1, <4>1, <4>2 DEF RequestFits
    <3>2. CASE m \in wire
      <4>1. \A d \in m.mail : Old(d) => Old(d)'
        BY <1>u DEF Old
      <4>2. Held(m) => Held(m)'
        BY <1>f, <1>t, <2>r, <2>w, <3>2 DEF Held
      <4> QED
        BY <1>u, <3>2, <4>1, <4>2, RequestStays DEF WakeInv, RequestsFit
    <3> QED
      BY <3>1, <3>2
  <2>h. RequestsDiffer'
    BY <2>5, <2>7, <2>n DEF WakeInv, RequestsDiffer
  <2>i. RootLocks'
    <3>1. t.at \in HoldsRoot
      BY <1>f DEF HoldsRoot
    <3> QED
      BY <1>t, <2>2, <2>r, <3>1 DEF WakeInv, RootLocks
  <2>j. Calm'
    <3> SUFFICES ASSUME disturbances + interruptions = 0, NEW m \in wire \cup {n}
                 PROVE  Held(m)' /\ m.root \notin busy
      BY <1>u, <2>5 DEF WakeInv, Calm
    <3>1. CASE m = n
      BY <1>2, <1>t, <2>2, <2>7, <2>r, <3>1 DEF Held
    <3>2. CASE m \in wire
      BY <1>f, <1>t, <2>r, <2>w, <3>2 DEF WakeInv, Calm, Held
    <3> QED
      BY <3>1, <3>2
  <2> QED
    BY <1>u, <2>a, <2>b, <2>c, <2>d, <2>e, <2>g, <2>h, <2>i, <2>j DEF WakeInv, NoticeIsFenced, KeepsFresh
<1> QED
  BY <1>1, <1>2

(* A signal that makes no old mail fresh keeps the invariant: it starts tasks only   *)
(* where none is running and none is suspended.                                    *)
LEMMA SignalStep ==
  ASSUME WakeInv, NEW D \in SUBSET Deliveries, NEW isFresh \in BOOLEAN, Signal(D, isFresh),
         isFresh => \A d \in D : mail[d] # None /\ ~Old(d),
         process = "up",
         notify' \subseteq notify, scan' = scan \/ scan' = None,
         UNCHANGED <<mail, generation, process, suspended, wire, started, busy, interruptions,
                     enabled, disturbances>>
  PROVE  WakeInv' /\ KeepsFresh
<1>T. /\ task \in [Recipients -> Task] /\ wire \subseteq Request
      /\ event \subseteq Recipients /\ observed \subseteq Deliveries /\ fresh \subseteq observed
      /\ scan \in (SUBSET Deliveries) \cup {None} /\ notify \subseteq Deliveries
  BY DEF WakeInv, NoticeIsFenced, WakeTypeOK
<1>S. observed' = observed \cup D /\ fresh \subseteq fresh' /\ fresh' \subseteq fresh \cup D
        /\ (~isFresh => fresh' = fresh)
  BY DEF Signal
<1>n. NewTask \in Task /\ NewTask.at = "waiting"
  BY DEF NewTask, Task, Place
<1>r. \A q \in Recipients :
        \/ task'[q] = task[q]
        \/ task'[q] = NewTask /\ task[q].at \in Ended /\ (task[q].at = "done" => q \notin suspended)
  BY DEF Signal, Ended
<1>1. WakeTypeOK'
  <2>1. task' \in [Recipients -> Task]
    BY <1>T, <1>n DEF Signal
  <2>2. event' \subseteq Recipients
    BY <1>T, WakeConstants DEF Signal
  <2>3. scan' \in (SUBSET Deliveries) \cup {None} /\ notify' \subseteq Deliveries
    BY <1>T
  <2>4. observed' \subseteq Deliveries /\ fresh' \subseteq observed'
    BY <1>T, <1>S
  <2> QED
    BY <2>1, <2>2, <2>3, <2>4 DEF WakeInv, NoticeIsFenced, WakeTypeOK
<1>2. NoticedOnce'
  BY DEF WakeInv, NoticeIsFenced, NoticedOnce
<1>3. StartIsFenced'
  <2> SUFFICES ASSUME NEW q \in Recipients, task'[q].at \in HoldsFence
               PROVE  /\ task'[q].gen = generation[q]
                      /\ task'[q].root = RootOf[<<q, generation[q]>>]
                      /\ Pending(First(task'[q].mail))
    BY DEF StartIsFenced, Fenced, Pending
  <2>1. task'[q] = task[q]
    BY <1>r, <1>n DEF HoldsFence
  <2> QED
    BY <2>1 DEF WakeInv, NoticeIsFenced, StartIsFenced, Fenced
<1>4. MailFits'
  BY <1>S DEF WakeInv, MailFits
<1>5. TasksFit'
  <2> SUFFICES ASSUME NEW q \in Recipients PROVE TaskFits(q, task[q])'
    BY DEF TasksFit
  <2>1. TaskFits(q, task[q])
    BY DEF WakeInv, TasksFit
  <2>2. CASE task'[q] = task[q]
    <3>1. PICK t : t = task[q] /\ t = task'[q]
      BY <2>2
    <3>2. TaskFits(q, t)
      BY <2>1, <3>1
    <3>3. TaskFits(q, t)'
      BY <1>S, <3>2, TaskStays
    <3> QED
      BY <3>1, <3>3
  <2>3. CASE task'[q] # task[q]
    <3>1. task'[q] = NewTask /\ q \notin suspended
      BY <1>r, <2>1, <2>3 DEF TaskFits, Ended
    <3> QED
      BY <3>1, <1>n DEF TaskFits, HasRoot, HasMail, HasRemaining, Unsent, HoldsRoot
  <2> QED
    BY <2>2, <2>3
<1>h. \A m \in wire : Held(m) => Held(m)'
  <2> SUFFICES ASSUME NEW m \in wire, Held(m) PROVE Held(m)'
    OBVIOUS
  <2>1. m.recipient \in Recipients
    BY <1>T DEF Request
  <2>2. task'[m.recipient] = task[m.recipient]
    BY <1>r, <2>1 DEF Held, Ended
  <2> QED
    BY <2>2 DEF Held
<1>6. RequestsFit'
  <2> SUFFICES ASSUME NEW m \in wire PROVE RequestFits(m)'
    BY DEF RequestsFit
  <2>1. ASSUME NEW d \in m.mail, Old(d) PROVE Old(d)'
    <3>1. d \notin fresh'
      BY <1>S, <2>1 DEF Old
    <3> QED
      BY <1>S, <2>1, <3>1, OldStays DEF Old
  <2> QED
    BY <1>h, <2>1, RequestStays DEF WakeInv, RequestsFit
<1>7. RequestsDiffer'
  BY DEF WakeInv, RequestsDiffer
<1>8. RootLocks'
  <2>1. \A q \in Recipients : task'[q].at \in HoldsRoot => task'[q] = task[q]
    BY <1>r, <1>n DEF HoldsRoot
  <2> QED
    BY <2>1 DEF WakeInv, RootLocks
<1>9. Calm'
  BY <1>h DEF WakeInv, Calm
<1> QED
  BY <1>S, <1>1, <1>2, <1>3, <1>4, <1>5, <1>6, <1>7, <1>8, <1>9 DEF WakeInv, NoticeIsFenced, KeepsFresh

(* The daemon deals with request m and its task c goes on: the mail of m, and of m    *)
(* alone, may be announced.                                                        *)
LEMMA WireStep ==
  ASSUME WakeInv, NEW m \in wire, NEW c \in Task,
         wire' = wire \ {m},
         task' = [task EXCEPT ![m.recipient] = c],
         UNCHANGED <<mail, generation, process, observed, fresh, notify, scan, event, suspended,
                     interruptions, enabled>>,
         c = task[m.recipient] \/ (Held(m) /\ TaskFits(m.recipient, c)'),
         c.at \in HoldsRoot => c.root = task[m.recipient].root /\ task[m.recipient].at \in HoldsRoot,
         c.at \in HoldsFence => /\ task[m.recipient].at \in HoldsFence
                                /\ c.gen = task[m.recipient].gen
                                /\ c.root = task[m.recipient].root
                                /\ c.mail = task[m.recipient].mail,
         started' \in [Deliveries -> [Roots -> Nat]],
         \A d \in Deliveries \ m.mail : started'[d] = started[d],
         \A d \in Deliveries, t \in Roots : started'[d][t] <= 1 /\ started[d][t] <= started'[d][t],
         busy' \subseteq busy \cup {m.root},
         disturbances' = disturbances \/ Disturb
  PROVE  WakeInv' /\ KeepsFresh
<1>T. /\ task \in [Recipients -> Task] /\ wire \subseteq Request
      /\ started \in [Deliveries -> [Roots -> Nat]] /\ busy \subseteq Roots
  BY DEF WakeInv, NoticeIsFenced, WakeTypeOK
<1>w. \A n \in wire : n.recipient \in Recipients /\ n.root \in Roots /\ n.mail \subseteq Deliveries
  BY <1>T DEF Request
<1>r. /\ task'[m.recipient] = c
      /\ \A q \in Recipients \ {m.recipient} : task'[q] = task[q]
  BY <1>T, <1>w
<1>d. \A n \in wire \ {m} : n.mail \cap m.mail = {}
  BY DEF WakeInv, RequestsDiffer
<1>c. /\ disturbances' \in Nat /\ interruptions' \in Nat
      /\ disturbances' + interruptions' \in 0..MaxIncidents
      /\ disturbances' + interruptions' = 0 => disturbances + interruptions = 0
  BY Counted
<1>e. \A n \in wire \ {m} : Held(n) /\ Held(m) => n.recipient # m.recipient
  <2> SUFFICES ASSUME NEW n \in wire \ {m}, Held(n), Held(m), n.recipient = m.recipient
               PROVE  FALSE
    OBVIOUS
  <2>1. n.mail = m.mail
    BY DEF Held
  <2>2. n.mail # {}
    BY DEF WakeInv, RequestsFit, RequestFits
  <2> QED
    BY <1>d, <2>1, <2>2
<1>h. \A n \in wire \ {m} : Held(n) => Held(n)'
  <2> SUFFICES ASSUME NEW n \in wire \ {m}, Held(n) PROVE Held(n)'
    OBVIOUS
  <2>1. task'[n.recipient] = task[n.recipient]
    BY <1>e, <1>r, <1>w
  <2> QED
    BY <2>1 DEF Held
<1>1. WakeTypeOK'
  BY <1>T, <1>c, <1>w DEF WakeInv, NoticeIsFenced, WakeTypeOK
<1>2. NoticedOnce'
  BY DEF NoticedOnce
<1>3. StartIsFenced'
  <2> SUFFICES ASSUME NEW q \in Recipients, task'[q].at \in HoldsFence
               PROVE  /\ task'[q].gen = generation[q]
                      /\ task'[q].root = RootOf[<<q, generation[q]>>]
                      /\ Pending(First(task'[q].mail))
    BY DEF StartIsFenced, Fenced, Pending
  <2>1. /\ task[q].at \in HoldsFence /\ task'[q].gen = task[q].gen
        /\ task'[q].root = task[q].root /\ task'[q].mail = task[q].mail
    BY <1>r
  <2> QED
    BY <2>1 DEF WakeInv, NoticeIsFenced, StartIsFenced, Fenced
<1>4. MailFits'
  BY DEF WakeInv, MailFits
<1>5. TasksFit'
  <2> SUFFICES ASSUME NEW q \in Recipients PROVE TaskFits(q, task[q])'
    BY DEF TasksFit
  <2>1. CASE task'[q] = task[q]
    <3>1. PICK t \in Task : t = task[q] /\ t = task'[q]
      BY <1>T, <2>1
    <3>2. TaskFits(q, t)
      BY <3>1 DEF WakeInv, TasksFit
    <3>3. t.at \in Unsent => \A d \in t.mail : started'[d][t.root] = started[d][t.root]
      BY <3>1, NotYetSent DEF Task
    <3>4. t.at = "accepted" => t.root \in Roots
      BY <3>2 DEF TaskFits, HasRoot, HoldsRoot
    <3>5. TaskFits(q, t)'
      <4>1. CASE t.at = "accepted"
        <5>1. \A d \in t.mail : started[d][t.root] > 0 => started'[d][t.root] > 0
          <6> SUFFICES ASSUME NEW d \in t.mail, started[d][t.root] > 0
                       PROVE  started'[d][t.root] > 0
            OBVIOUS
          <6>1. d \in Deliveries /\ t.root \in Roots
            BY <3>4, <4>1 DEF Task
          <6>2. started[d][t.root] \in Nat /\ started'[d][t.root] \in Nat
            BY <1>T, <6>1
          <6> QED
            BY <6>1, <6>2
        <5> QED
          BY <3>2, <3>3, <5>1, TaskStays
      <4>2. CASE t.at # "accepted"
        BY <3>2, <3>3, <4>2 DEF TaskFits, MailOf
      <4> QED
        BY <4>1, <4>2
    <3> QED
      BY <3>1, <3>5
  <2>2. CASE task'[q] # task[q]
    BY <1>r, <2>2
  <2> QED
    BY <2>1, <2>2
<1>6. RequestsFit'
  <2> SUFFICES ASSUME NEW n \in wire \ {m} PROVE RequestFits(n)'
    BY DEF RequestsFit
  <2>1. \A d \in n.mail : Old(d) => Old(d)'
    BY DEF Old
  <2>2. \A d \in n.mail : started'[d][n.root] = started[d][n.root]
    BY <1>d, <1>w
  <2> QED
    BY <1>h, <2>1, <2>2, RequestStays DEF WakeInv, RequestsFit
<1>7. RequestsDiffer'
  BY DEF WakeInv, RequestsDiffer
<1>8. RootLocks'
  <2>1. \A q \in Recipients : task'[q].at \in HoldsRoot =>
                                task'[q].root = task[q].root /\ task[q].at \in HoldsRoot
    BY <1>r
  <2> QED
    BY <2>1 DEF WakeInv, RootLocks
<1>9. Calm'
  <2> SUFFICES ASSUME disturbances + interruptions = 0, NEW n \in wire \ {m}
               PROVE  Held(n)' /\ n.root \notin busy'
    BY <1>c DEF Calm
  <2>1. Held(n) /\ n.root \notin busy /\ Held(m)
    BY DEF WakeInv, Calm
  <2>2. n.root # m.root
    BY <1>e, <1>w, <2>1 DEF WakeInv, RootLocks, Held, HoldsRoot
  <2> QED
    BY <1>h, <2>1, <2>2
<1> QED
  BY <1>1, <1>2, <1>3, <1>4, <1>5, <1>6, <1>7, <1>8, <1>9 DEF WakeInv, NoticeIsFenced, KeepsFresh

(* An awaited request is the one its task sent. *)
LEMMA AwaitedIsHeld ==
  ASSUME WakeInv, NEW m \in wire, Awaits(m.recipient, m)
  PROVE  Held(m)
<1>1. m.recipient \in Recipients
  BY DEF WakeInv, NoticeIsFenced, WakeTypeOK, Request
<1>2. RequestFits(m) /\ TaskFits(m.recipient, task[m.recipient])
  BY <1>1 DEF WakeInv, RequestsFit, TasksFit
<1>3. task[m.recipient].at = "answering" /\ task[m.recipient].mail = m.mail
  BY DEF Awaits
<1>4. m.recipient \notin suspended /\ m.mail \subseteq fresh
  BY <1>2, <1>3 DEF TaskFits, HasRemaining, HasMail, HoldsRoot
<1> QED
  BY <1>2, <1>4 DEF RequestFits, Old

(* What the daemon does with a request keeps the invariant: its mail was announced    *)
(* in that thread by no other turn.                                                *)
LEMMA DaemonStep ==
  ASSUME WakeInv, NEW m \in wire, Accept(m) \/ AcceptUnheard(m) \/ Reject(m) \/ Lose(m)
  PROVE  WakeInv' /\ KeepsFresh
<1>T. /\ task \in [Recipients -> Task] /\ wire \subseteq Request
      /\ started \in [Deliveries -> [Roots -> Nat]]
      /\ \A d \in Deliveries, t \in Roots : started[d][t] <= 1
  BY DEF WakeInv, NoticeIsFenced, WakeTypeOK, NoticedOnce
<1>w. m.recipient \in Recipients /\ m.root \in Roots /\ m.mail \subseteq Deliveries
  BY <1>T DEF Request
<1>t. PICK t \in Task : t = task[m.recipient] /\ TaskFits(m.recipient, t)
  BY <1>T, <1>w DEF WakeInv, TasksFit
<1>n. task = [task EXCEPT ![m.recipient] = t]
  BY <1>T, <1>t
<1> USE DEF daemon, database, memory
<1>s. ASSUME Runs(m)
      PROVE  /\ started' \in [Deliveries -> [Roots -> Nat]]
             /\ \A d \in Deliveries \ m.mail : started'[d] = started[d]
             /\ \A d \in m.mail : started'[d][m.root] = 1
             /\ \A d \in Deliveries, u \in Roots :
                  started'[d][u] <= 1 /\ started[d][u] <= started'[d][u]
  <2>1. \A d \in Deliveries \ m.mail : started'[d] = started[d]
    BY <1>s DEF Runs
  <2>2. ASSUME NEW d \in m.mail
        PROVE  started'[d] = [started[d] EXCEPT ![m.root] = 1] /\ started[d][m.root] = 0
    <3>1. started[d][m.root] = 0
      BY <2>2 DEF WakeInv, RequestsFit, RequestFits
    <3>2. d \in Deliveries
      BY <1>w, <2>2
    <3>3. started'[d] = [started[d] EXCEPT ![m.root] = started[d][m.root] + 1]
      BY <1>s, <2>2, <3>2 DEF Runs
    <3>4. started[d][m.root] + 1 = 1
      BY <3>1
    <3> QED
      BY <3>1, <3>3, <3>4
  <2>3. ASSUME NEW d \in m.mail
        PROVE  /\ started'[d] \in [Roots -> Nat]
               /\ started'[d][m.root] = 1
               /\ \A u \in Roots : started'[d][u] <= 1 /\ started[d][u] <= started'[d][u]
    <3>1. started[d] \in [Roots -> Nat] /\ \A u \in Roots : started[d][u] <= 1
      BY <1>T, <1>w, <2>3
    <3>0. started'[d] = [started[d] EXCEPT ![m.root] = 1] /\ started[d][m.root] = 0
      BY <2>2, <2>3
    <3>2. started'[d] \in [Roots -> Nat]
      <4>1. PICK f \in [Roots -> Nat] : f = started[d]
        BY <3>1
      <4>2. [f EXCEPT ![m.root] = 1] \in [Roots -> Nat]
        OBVIOUS
      <4> QED
        BY <3>0, <4>1, <4>2
    <3>3. started'[d][m.root] = 1 /\ \A u \in Roots \ {m.root} : started'[d][u] = started[d][u]
      BY <1>w, <3>0, <3>1
    <3>4. ASSUME NEW u \in Roots
          PROVE  started'[d][u] <= 1 /\ started[d][u] <= started'[d][u]
      <4>1. CASE u = m.root
        BY <3>0, <3>3, <4>1
      <4>2. CASE u # m.root
        <5>1. started'[d][u] = started[d][u] /\ started[d][u] \in Nat /\ started[d][u] <= 1
          BY <3>1, <3>3, <4>2
        <5> QED
          BY <5>1
      <4> QED
        BY <4>1, <4>2
    <3> QED
      BY <3>2, <3>3, <3>4
  <2>4. \A d \in Deliveries : started'[d] \in [Roots -> Nat]
    BY <1>T, <2>1, <2>3
  <2>5. started' = [d \in Deliveries |-> started'[d]]
    BY <1>s DEF Runs
  <2>6. started' \in [Deliveries -> [Roots -> Nat]]
    BY <2>4, <2>5
  <2>7. ASSUME NEW d \in Deliveries, NEW u \in Roots
        PROVE  started'[d][u] <= 1 /\ started[d][u] <= started'[d][u]
    <3>1. CASE d \in m.mail
      BY <2>3, <3>1
    <3>2. CASE d \notin m.mail
      <4>1. started'[d][u] = started[d][u] /\ started[d][u] \in Nat /\ started[d][u] <= 1
        BY <1>T, <2>1, <3>2
      <4> QED
        BY <4>1
    <3> QED
      BY <3>1, <3>2
  <2> QED
    BY <2>1, <2>3, <2>6, <2>7
<1>q. \A d \in Deliveries, u \in Roots : started[d][u] <= 1 /\ started[d][u] <= started[d][u]
  <2>1. \A d \in Deliveries, u \in Roots : started[d][u] \in Nat
    BY <1>T
  <2> QED
    BY <1>T, <2>1
<1>1. CASE Accept(m)
  <2>1. Held(m) /\ t.at = "answering" /\ t.root = m.root /\ t.mail = m.mail
    BY <1>1, <1>t, AwaitedIsHeld DEF Accept, Held
  <2>2. PICK c : c = [t EXCEPT !.at = "accepted"]
    OBVIOUS
  <2>3. c \in Task /\ c.at = "accepted" /\ c.gen = t.gen /\ c.root = t.root /\ c.mail = t.mail
    BY <2>2 DEF Task, Place
  <2>4. task' = [task EXCEPT ![m.recipient] = c]
    BY <1>1, <1>T, <1>t, <1>w, <2>2 DEF Accept, Goes
  <2>5. /\ wire' = wire \ {m} /\ busy' = busy \cup {m.root} /\ disturbances' = disturbances
        /\ UNCHANGED <<mail, generation, process, observed, fresh, notify, scan, event, suspended,
                       interruptions, enabled>>
    BY <1>1 DEF Accept, Runs
  <2>6. /\ started' \in [Deliveries -> [Roots -> Nat]]
        /\ \A d \in Deliveries \ m.mail : started'[d] = started[d]
        /\ \A d \in m.mail : started'[d][m.root] = 1
        /\ \A d \in Deliveries, u \in Roots :
             started'[d][u] <= 1 /\ started[d][u] <= started'[d][u]
    BY <1>1, <1>s DEF Accept
  <2>7. TaskFits(m.recipient, c)'
    <3>1. \A d \in c.mail : started'[d][c.root] > 0
      BY <2>1, <2>3, <2>6
    <3> QED
      BY <1>t, <2>1, <2>3, <2>5, <3>1
      DEF TaskFits, HasRoot, HasMail, HasRemaining, Unsent, HoldsRoot, MailOf
  <2>8. t.at \in HoldsRoot /\ t.at \in HoldsFence
    BY <2>1 DEF HoldsRoot, HoldsFence
  <2> QED
    BY <1>t, <2>1, <2>3, <2>4, <2>5, <2>6, <2>7, <2>8, WireStep
<1>2. CASE AcceptUnheard(m)
  <2>1. /\ wire' = wire \ {m} /\ busy' = busy \cup {m.root}
        /\ disturbances' = disturbances \/ Disturb
        /\ UNCHANGED <<mail, generation, process, observed, fresh, notify, scan, event, suspended,
                       interruptions, enabled>>
        /\ task' = [task EXCEPT ![m.recipient] = t]
    BY <1>2, <1>n DEF AcceptUnheard, Runs
  <2>2. /\ started' \in [Deliveries -> [Roots -> Nat]]
        /\ \A d \in Deliveries \ m.mail : started'[d] = started[d]
        /\ \A d \in Deliveries, u \in Roots :
             started'[d][u] <= 1 /\ started[d][u] <= started'[d][u]
    BY <1>2, <1>s DEF AcceptUnheard
  <2> QED
    BY <1>t, <2>1, <2>2, WireStep
<1>3. CASE Reject(m)
  <2>1. Held(m)
    BY <1>3, AwaitedIsHeld DEF Reject
  <2>2. PICK c : c = [NewTask EXCEPT !.at = "alerting", !.root = None]
    OBVIOUS
  <2>3. c \in Task /\ c.at = "alerting"
    BY <2>2 DEF NewTask, Task, Place
  <2>4. /\ wire' = wire \ {m} /\ busy' = busy /\ Disturb /\ started' = started
        /\ UNCHANGED <<mail, generation, process, observed, fresh, notify, scan, event, suspended,
                       interruptions, enabled>>
        /\ task' = [task EXCEPT ![m.recipient] = c]
    BY <1>3, <2>2 DEF Reject, Forgets
  <2>5. TaskFits(m.recipient, c)' /\ c.at \notin HoldsRoot /\ c.at \notin HoldsFence
    BY <2>3 DEF TaskFits, HasRoot, HasMail, HasRemaining, Unsent, HoldsRoot, HoldsFence
  <2> QED
    BY <1>T, <1>q, <2>1, <2>3, <2>4, <2>5, WireStep
<1>4. CASE Lose(m)
  <2>1. /\ wire' = wire \ {m} /\ busy' = busy /\ started' = started
        /\ disturbances' = disturbances \/ Disturb
        /\ UNCHANGED <<mail, generation, process, observed, fresh, notify, scan, event, suspended,
                       interruptions, enabled>>
        /\ task' = [task EXCEPT ![m.recipient] = t]
    BY <1>4, <1>n DEF Lose
  <2> QED
    BY <1>T, <1>t, <1>q, <2>1, WireStep
<1> QED
  BY <1>1, <1>2, <1>3, <1>4

(* What happens beside the tasks keeps the invariant when committed mail stays        *)
(* committed, closed mail closed, old mail old, and nothing fenced is touched.       *)
LEMMA TasksRest ==
  ASSUME WakeInv, WakeTypeOK', MailFits',
         UNCHANGED <<fresh, task, suspended, wire, started>>,
         \A d \in Deliveries : mail[d] # None => mail'[d] # None,
         \A d \in Deliveries : mail[d] = "CLOSED" => mail'[d] = "CLOSED",
         \A d \in Deliveries : mail[d] # None /\ Old(d) => Old(d)',
         \A r \in Recipients : Fenced(r) => /\ generation'[r] = generation[r]
                                            /\ Pending(First(task[r].mail))',
         disturbances' \in Nat, interruptions' \in Nat,
         disturbances' + interruptions' = 0 =>
           disturbances + interruptions = 0 /\ busy' \subseteq busy
  PROVE  WakeInv' /\ KeepsFresh
<1>T. wire \subseteq Request /\ task \in [Recipients -> Task]
  BY DEF WakeInv, NoticeIsFenced, WakeTypeOK
<1>w. \A m \in wire : m.mail \subseteq Deliveries
  BY <1>T DEF Request
<1>1. NoticedOnce'
  BY DEF WakeInv, NoticeIsFenced, NoticedOnce
<1>2. StartIsFenced'
  BY DEF WakeInv, NoticeIsFenced, StartIsFenced, Fenced
<1>3. TasksFit'
  <2> SUFFICES ASSUME NEW q \in Recipients PROVE TaskFits(q, task[q])'
    BY DEF TasksFit
  <2>1. PICK t : t = task[q] /\ t = task'[q]
    OBVIOUS
  <2>2. TaskFits(q, t)
    BY <2>1 DEF WakeInv, TasksFit
  <2>3. TaskFits(q, t)'
    BY <2>2, TaskStays
  <2> QED
    BY <2>1, <2>3
<1>h. \A m \in wire : Held(m)' <=> Held(m)
  BY DEF Held
<1>4. RequestsFit'
  <2> SUFFICES ASSUME NEW m \in wire PROVE RequestFits(m)'
    BY DEF RequestsFit
  <2>1. RequestFits(m)
    BY DEF WakeInv, RequestsFit
  <2>2. \A d \in m.mail : Old(d) => Old(d)'
    BY <1>w, <2>1 DEF RequestFits
  <2> QED
    BY <1>h, <1>w, <2>1, <2>2, RequestStays
<1>5. RequestsDiffer' /\ RootLocks'
  BY DEF WakeInv, RequestsDiffer, RootLocks
<1>6. Calm'
  BY <1>h DEF WakeInv, Calm
<1> QED
  BY <1>1, <1>2, <1>3, <1>4, <1>5, <1>6 DEF WakeInv, NoticeIsFenced, KeepsFresh

(* Mail, owners, the daemon's own turns and the control file. *)
LEMMA OutsideStep ==
  ASSUME WakeInv,
         \/ \E d \in Deliveries : \/ \E own \in BOOLEAN : Commit(d, own)
                                  \/ \E state \in {"RECEIVED", "CLOSED"} : Process(d, state)
         \/ \E r \in Recipients : Takeover(r)
         \/ \E root \in Roots : TurnCompletes(root) \/ UserTurn(root)
         \/ WatchRead \/ Switch \/ Baseline \/ Listen
         \/ UNCHANGED vars
  PROVE  WakeInv' /\ KeepsFresh
<1> USE DEF daemon, database, memory
<1>T. WakeTypeOK /\ MailFits /\ TasksFit
  BY DEF WakeInv, NoticeIsFenced
<1>F. \A r \in Recipients :
        Fenced(r) => /\ First(task[r].mail) \in task[r].mail
                     /\ task[r].mail \subseteq MailOf(r) /\ Pending(First(task[r].mail))
  <2> SUFFICES ASSUME NEW r \in Recipients, Fenced(r)
               PROVE  /\ First(task[r].mail) \in task[r].mail
                      /\ task[r].mail \subseteq MailOf(r) /\ Pending(First(task[r].mail))
    OBVIOUS
  <2>1. task[r].mail \subseteq MailOf(r) /\ task[r].mail # {}
    BY <1>T DEF TasksFit, TaskFits, Fenced, HoldsFence, HasMail, HasRemaining, HoldsRoot
  <2>2. task[r].mail \in SUBSET Deliveries
    BY <2>1 DEF MailOf
  <2>3. First(task[r].mail) \in task[r].mail
    BY <2>1, <2>2, FirstIsOneOf
  <2> QED
    BY <2>1, <2>3 DEF WakeInv, NoticeIsFenced, StartIsFenced
<1>N. None \notin {"AVAILABLE", "RECEIVED", "CLOSED"}
  BY WakeConstants
<1>1. ASSUME NEW d \in Deliveries, NEW own \in BOOLEAN, Commit(d, own)
      PROVE  WakeInv' /\ KeepsFresh
  <2>1. /\ mail[d] = None /\ mail' = [mail EXCEPT ![d] = "AVAILABLE"]
        /\ notify \subseteq notify' /\ notify' \subseteq notify \cup {d}
        /\ own => process = "up"
        /\ ~own => notify' = notify
        /\ UNCHANGED <<generation, process, observed, fresh, scan, event, task, suspended,
                       daemon, enabled, disturbances>>
    BY <1>1 DEF Commit
  <2>m. mail'[d] = "AVAILABLE" /\ \A e \in Deliveries \ {d} : mail'[e] = mail[e]
    BY <1>T, <2>1 DEF WakeTypeOK
  <2>2. WakeTypeOK'
    BY <1>T, <2>1 DEF WakeTypeOK
  <2>3. fresh \subseteq Deliveries /\ notify' \subseteq Deliveries
          /\ scan \in (SUBSET Deliveries) \cup {None}
    BY <1>T, <2>1 DEF WakeTypeOK
  <2>4. MailFits'
    <3>1. \A e \in fresh' \cup notify' : mail'[e] # None
      BY <1>T, <1>N, <2>1, <2>m, <2>3 DEF MailFits
    <3>2. scan' # None => \A e \in scan' : mail'[e] # None
      BY <1>T, <1>N, <2>1, <2>m, <2>3 DEF MailFits
    <3>3. process' = "down" => fresh' = {} /\ notify' = {} /\ scan' = None
      BY <1>T, <2>1 DEF MailFits
    <3> QED
      BY <3>1, <3>2, <3>3 DEF MailFits
  <2>5. \A e \in Deliveries : mail[e] # None /\ Old(e) => Old(e)'
    BY <2>1, <2>m DEF Old
  <2>6. \A r \in Recipients : Fenced(r) => Pending(First(task[r].mail))'
    BY <1>F, <1>N, <2>1, <2>m DEF Pending, MailOf
  <2> QED
    BY <1>N, <2>1, <2>m, <2>2, <2>4, <2>5, <2>6, TasksRest DEF WakeInv, Calm
<1>2. ASSUME NEW d \in Deliveries, NEW state \in {"RECEIVED", "CLOSED"}, Process(d, state)
      PROVE  WakeInv' /\ KeepsFresh
  <2>1. /\ mail[d] \in {"AVAILABLE", "RECEIVED"} /\ mail' = [mail EXCEPT ![d] = state]
        /\ ~DeliveryFenced(d)
        /\ UNCHANGED <<generation, memory, daemon, enabled, disturbances>>
    BY <1>2 DEF Process, Pending
  <2>m. mail'[d] = state /\ \A e \in Deliveries \ {d} : mail'[e] = mail[e]
    BY <1>T, <2>1 DEF WakeTypeOK
  <2>2. WakeTypeOK'
    BY <1>T, <2>1 DEF WakeTypeOK
  <2>3. fresh \subseteq Deliveries /\ notify \subseteq Deliveries
          /\ scan \in (SUBSET Deliveries) \cup {None}
    BY <1>T DEF WakeTypeOK
  <2>4. MailFits'
    BY <1>T, <1>N, <2>1, <2>m, <2>3 DEF MailFits
  <2>5. \A e \in Deliveries : mail[e] # None /\ Old(e) => Old(e)'
    BY <2>1, <2>m DEF Old
  <2>6. ASSUME NEW r \in Recipients, Fenced(r) PROVE Pending(First(task[r].mail))'
    <3>1. PICK e : e = First(task[r].mail)
      OBVIOUS
    <3>2. RecipientOf[e] = r /\ e \in Deliveries /\ Pending(e)
      BY <1>F, <2>6, <3>1 DEF MailOf
    <3>3. e # d
      BY <2>1, <2>6, <3>1, <3>2 DEF DeliveryFenced
    <3> QED
      BY <2>1, <2>m, <3>1, <3>2, <3>3 DEF Pending
  <2> QED
    BY <1>N, <2>1, <2>m, <2>2, <2>4, <2>5, <2>6, TasksRest DEF WakeInv, Calm
<1>3. ASSUME NEW r \in Recipients, Takeover(r) PROVE WakeInv' /\ KeepsFresh
  <2>1. PICK g \in Generation : generation' = [generation EXCEPT ![r] = g]
    BY <1>3 DEF Takeover
  <2>2. /\ ~Fenced(r) /\ Disturb /\ interruptions' = interruptions
        /\ UNCHANGED <<mail, memory, daemon, enabled>>
    BY <1>3 DEF Takeover
  <2>3. /\ disturbances' \in Nat /\ interruptions' \in Nat
        /\ disturbances' + interruptions' \in 0..MaxIncidents
        /\ disturbances' + interruptions' # 0
    BY <2>2, Counted
  <2>4. WakeTypeOK'
    BY <1>T, <2>1, <2>2, <2>3 DEF WakeTypeOK
  <2>5. MailFits' /\ \A d \in Deliveries : Old(d) => Old(d)'
    BY <1>T, <2>2 DEF MailFits, Old
  <2>6. \A q \in Recipients : Fenced(q) => generation'[q] = generation[q]
    BY <1>T, <2>1, <2>2 DEF WakeTypeOK
  <2>7. \A q \in Recipients : Fenced(q) => Pending(First(task[q].mail))'
    BY <1>F, <2>2 DEF Pending
  <2> QED
    BY <2>2, <2>3, <2>4, <2>5, <2>6, <2>7, TasksRest
<1>4. ASSUME NEW root \in Roots, TurnCompletes(root) \/ UserTurn(root)
      PROVE  WakeInv' /\ KeepsFresh
  <2>1. /\ UNCHANGED <<mail, generation, process, observed, fresh, notify, scan, task, suspended,
                       wire, started, enabled, disturbances>>
        /\ \/ busy' = busy \ {root} /\ interruptions' = interruptions
           \/ busy' = busy \cup {root} /\ Interrupt
    BY <1>4 DEF TurnCompletes, UserTurn
  <2>2. event' \subseteq Recipients
    BY <1>4, <1>T DEF TurnCompletes, UserTurn, Dirty, WakeTypeOK
  <2>3. /\ disturbances' \in Nat /\ interruptions' \in Nat
        /\ disturbances' + interruptions' \in 0..MaxIncidents
        /\ disturbances' + interruptions' = 0 =>
             disturbances + interruptions = 0 /\ busy' \subseteq busy
    BY <2>1, Counted
  <2>4. WakeTypeOK'
    BY <1>T, <2>1, <2>2, <2>3 DEF WakeTypeOK
  <2>5. MailFits' /\ \A d \in Deliveries : Old(d) => Old(d)'
    BY <1>T, <2>1 DEF MailFits, Old
  <2>6. \A q \in Recipients : Fenced(q) => Pending(First(task[q].mail))'
    BY <1>F, <2>1 DEF Pending
  <2> QED
    BY <2>1, <2>3, <2>4, <2>5, <2>6, TasksRest
<1>5. CASE WatchRead
  <2>1. /\ scan' = Available \ observed
        /\ UNCHANGED <<mail, generation, process, observed, fresh, notify, event, task, suspended,
                       wire, started, busy, interruptions, enabled, disturbances>>
        /\ process = "up"
    BY <1>5 DEF WatchRead
  <2>2. Available \subseteq Deliveries /\ \A d \in Available : mail[d] = "AVAILABLE"
    BY DEF Available
  <2>3. WakeTypeOK'
    BY <1>T, <2>1, <2>2 DEF WakeTypeOK
  <2>4. MailFits'
    BY <1>T, <1>N, <2>1, <2>2 DEF MailFits
  <2>5. \A d \in Deliveries : Old(d) => Old(d)'
    BY <2>1, <2>2 DEF Old
  <2>6. \A q \in Recipients : Fenced(q) => Pending(First(task[q].mail))'
    BY <1>F, <2>1 DEF Pending
  <2> QED
    BY <2>1, <2>3, <2>4, <2>5, <2>6, TasksRest DEF WakeInv, Calm
<1>6. CASE Switch \/ UNCHANGED vars
  <2>1. /\ UNCHANGED <<mail, generation, process, observed, fresh, notify, scan, event, task,
                       suspended, wire, started, busy, interruptions>>
        /\ disturbances' = disturbances \/ Disturb
        /\ enabled' \in BOOLEAN
    BY <1>6, <1>T DEF Switch, vars, WakeTypeOK
  <2>2. /\ disturbances' \in Nat /\ interruptions' \in Nat
        /\ disturbances' + interruptions' \in 0..MaxIncidents
        /\ disturbances' + interruptions' = 0 => disturbances + interruptions = 0
    BY <2>1, Counted
  <2>3. WakeTypeOK'
    BY <1>T, <2>1, <2>2 DEF WakeTypeOK
  <2>4. MailFits' /\ \A d \in Deliveries : Old(d) => Old(d)'
    BY <1>T, <2>1 DEF MailFits, Old
  <2>5. \A q \in Recipients : Fenced(q) => Pending(First(task[q].mail))'
    BY <1>F, <2>1 DEF Pending
  <2> QED
    BY <2>1, <2>2, <2>3, <2>4, <2>5, TasksRest
<1>7. CASE Baseline \/ Listen
  <2>1. /\ UNCHANGED <<mail, generation, fresh, notify, scan, event, task, suspended,
                       wire, started, busy, interruptions, enabled, disturbances>>
        /\ \/ process = "down" /\ process' = "starting" /\ observed' = Available
           \/ process = "starting" /\ process' = "up" /\ observed' = observed
    BY <1>7 DEF Baseline, Listen
  <2>2. Available \subseteq Deliveries /\ \A d \in Deliveries : d \in Available \/ mail[d] # "AVAILABLE"
    BY DEF Available
  <2>3. process = "down" => fresh = {} /\ notify = {} /\ scan = None
    BY <1>T DEF MailFits
  <2>4. WakeTypeOK'
    BY <1>T, <2>1, <2>2, <2>3 DEF WakeTypeOK
  <2>5. MailFits'
    BY <1>T, <2>1 DEF MailFits
  <2>6. \A d \in Deliveries : Old(d) => Old(d)'
    BY <2>1, <2>2, <2>3 DEF Old
  <2>7. \A q \in Recipients : Fenced(q) => Pending(First(task[q].mail))'
    BY <1>F, <2>1 DEF Pending
  <2> QED
    BY <2>1, <2>4, <2>5, <2>6, <2>7, TasksRest DEF WakeInv, Calm
<1> QED
  BY <1>1, <1>2, <1>3, <1>4, <1>5, <1>6, <1>7

(* Callbacks and the watcher make no old mail fresh. *)
LEMMA HintStep ==
  ASSUME WakeInv,
         \/ \E d \in Deliveries : Notify(d) \/ NotifyRepeated(d)
         \/ WatchSignal
  PROVE  WakeInv' /\ KeepsFresh
<1> USE DEF daemon, database
<1>T. WakeTypeOK /\ MailFits
  BY DEF WakeInv, NoticeIsFenced
<1>1. ASSUME NEW d \in Deliveries, Notify(d) PROVE WakeInv' /\ KeepsFresh
  <2>1. \A e \in {d} : mail[e] # None /\ ~Old(e)
    BY <1>1, <1>T DEF Notify, MailFits, Old
  <2> QED
    BY <1>1, <2>1, SignalStep DEF Notify
<1>2. ASSUME NEW d \in Deliveries, NotifyRepeated(d) PROVE WakeInv' /\ KeepsFresh
  BY <1>2, SignalStep DEF NotifyRepeated
<1>3. CASE WatchSignal
  <2>1. scan # None /\ scan \subseteq Deliveries
    BY <1>3, <1>T DEF WatchSignal, WakeTypeOK
  <2>2. \A e \in scan \ observed : mail[e] # None /\ ~Old(e)
    BY <1>T, <2>1 DEF MailFits, Old
  <2>3. PICK D \in SUBSET Deliveries : D = scan \ observed
    BY <2>1
  <2>4. Signal(D, TRUE)
    BY <1>3, <2>3 DEF WatchSignal, Signal
  <2> QED
    BY <1>3, <2>2, <2>3, <2>4, SignalStep DEF WatchSignal
<1> QED
  BY <1>1, <1>2, <1>3

(* When the process goes down, the mail of every request with the daemon grows old. *)
LEMMA CrashStep ==
  ASSUME WakeInv, Crash
  PROVE  WakeInv' /\ KeepsFresh
<1> USE DEF daemon, database
<1>1. /\ process' = "down" /\ Disturb /\ interruptions' = interruptions
      /\ observed' = {} /\ fresh' = {} /\ notify' = {} /\ scan' = None /\ event' = {}
      /\ task' = [r \in Recipients |-> NoTask] /\ suspended' = {}
      /\ UNCHANGED <<mail, generation, wire, started, busy, enabled>>
  BY DEF Crash
<1>2. /\ disturbances' \in Nat /\ interruptions' \in Nat
      /\ disturbances' + interruptions' \in 0..MaxIncidents
      /\ disturbances' + interruptions' # 0
  BY <1>1, Counted
<1>3. NoTask \in Task /\ NoTask.at = "none"
  BY DEF NoTask, NewTask, Task, Place
<1>4. \A r \in Recipients : task'[r] = NoTask
  BY <1>1
<1>5. WakeTypeOK'
  BY <1>1, <1>2, <1>3 DEF WakeInv, NoticeIsFenced, WakeTypeOK
<1>6. NoticedOnce'
  BY <1>1 DEF WakeInv, NoticeIsFenced, NoticedOnce
<1>7. StartIsFenced'
  BY <1>3, <1>4 DEF StartIsFenced, Fenced, HoldsFence
<1>8. MailFits'
  BY <1>1 DEF MailFits
<1>9. TasksFit'
  BY <1>1, <1>3, <1>4 DEF TasksFit, TaskFits, HasRoot, HasMail, HasRemaining, Unsent, HoldsRoot
<1>10. RequestsFit'
  <2>1. \A d : Old(d)'
    BY <1>1 DEF Old
  <2> QED
    BY <1>1, <2>1 DEF WakeInv, RequestsFit, RequestFits
<1>11. RequestsDiffer'
  BY <1>1 DEF WakeInv, RequestsDiffer
<1>12. RootLocks'
  BY <1>3, <1>4 DEF RootLocks, HoldsRoot
<1>13. Calm'
  BY <1>2 DEF Calm
<1> QED
  BY <1>1, <1>5, <1>6, <1>7, <1>8, <1>9, <1>10, <1>11, <1>12, <1>13
  DEF WakeInv, NoticeIsFenced, KeepsFresh

(* Before anything has run there is no mail, no task and no request. *)
LEMMA WakeStarts == Init => WakeInv
<1> SUFFICES ASSUME Init PROVE WakeInv
  OBVIOUS
<1>1. NoTask \in Task /\ NoTask.at = "none"
  BY DEF NoTask, NewTask, Task, Place
<1>2. \A r \in Recipients : task[r] = NoTask
  BY DEF Init
<1>3. WakeTypeOK
  BY <1>1, WakeConstants DEF Init, WakeTypeOK, Generation
<1>4. NoticedOnce
  BY DEF Init, NoticedOnce
<1>5. StartIsFenced
  BY <1>1, <1>2 DEF StartIsFenced, Fenced, HoldsFence
<1>6. TasksFit
  BY <1>1, <1>2 DEF Init, TasksFit, TaskFits, HasRoot, HasMail, HasRemaining, Unsent, HoldsRoot
<1>7. RootLocks
  BY <1>1, <1>2 DEF RootLocks, HoldsRoot
<1>8. MailFits /\ RequestsFit /\ RequestsDiffer /\ Calm
  BY DEF Init, MailFits, RequestsFit, RequestsDiffer, Calm
<1> QED
  BY <1>3, <1>4, <1>5, <1>6, <1>7, <1>8 DEF WakeInv, NoticeIsFenced

(* Every step of the edge, the daemon, the recipients and the operator keeps the      *)
(* invariant, and the fresh mail with the exceptions FreshMailIsKept names.         *)
LEMMA WakeStep == WakeInv /\ [Next]_vars => WakeInv' /\ KeepsFresh
<1> SUFFICES ASSUME WakeInv, [Next]_vars PROVE WakeInv' /\ KeepsFresh
  OBVIOUS
<1>1. ASSUME NEW r \in Recipients, Step(r) PROVE WakeInv' /\ KeepsFresh
  BY <1>1, TaskStep, StartStep DEF Step
<1>2. ASSUME NEW r \in Recipients, AdmissionRefused(r) \/ TimeOut(r) \/ Fail(r) \/ Disconnect(r)
      PROVE  WakeInv' /\ KeepsFresh
  BY <1>2, TaskDisturbed
<1>3. ASSUME NEW m \in wire, Accept(m) \/ AcceptUnheard(m) \/ Reject(m) \/ Lose(m)
      PROVE  WakeInv' /\ KeepsFresh
  BY <1>3, DaemonStep
<1>4. CASE \/ \E d \in Deliveries : \/ \E own \in BOOLEAN : Commit(d, own)
                                    \/ \E state \in {"RECEIVED", "CLOSED"} : Process(d, state)
           \/ \E r \in Recipients : Takeover(r)
           \/ \E root \in Roots : TurnCompletes(root) \/ UserTurn(root)
           \/ WatchRead \/ Switch \/ Baseline \/ Listen
           \/ UNCHANGED vars
  BY <1>4, OutsideStep
<1>5. CASE (\E d \in Deliveries : Notify(d) \/ NotifyRepeated(d)) \/ WatchSignal
  BY <1>5, HintStep
<1>6. CASE Crash
  BY <1>6, CrashStep
<1> QED
  BY <1>1, <1>2, <1>3, <1>4, <1>5, <1>6 DEF Next

(* However hints, rounds, late answers, takeovers and restarts interleave, a          *)
(* delivery is announced at most once in a thread, and while a turn/start is          *)
(* awaited the mailbox belongs to the session it goes to and its first delivery is    *)
(* open.  For any number of deliveries, recipients, Roots, takeovers and failures.     *)
THEOREM NoticeStaysFenced == Spec => []NoticeIsFenced
<1>1. WakeInv => NoticeIsFenced
  BY DEF WakeInv
<1> QED
  BY <1>1, WakeStarts, WakeStep, PTL DEF Spec

(* The lock that a Root and its Heads share keeps their turns apart: left alone, a     *)
(* Root is never given a turn while it runs or is about to run another.               *)
THEOREM RootTurnsNeverOverlap == Spec => []RootTurnsDoNotOverlap
<1>1. ASSUME WakeInv PROVE RootTurnsDoNotOverlap
  <2> SUFFICES ASSUME disturbances + interruptions = 0, NEW m \in wire
               PROVE  m.root \notin busy /\ \A n \in wire \ {m} : n.root # m.root
    BY DEF RootTurnsDoNotOverlap
  <2>1. m.root \notin busy /\ \A n \in wire : Held(n)
    BY <1>1 DEF WakeInv, Calm
  <2>2. ASSUME NEW n \in wire \ {m}, n.root = m.root PROVE FALSE
    <3>1. n.recipient \in Recipients /\ m.recipient \in Recipients
      BY <1>1 DEF WakeInv, NoticeIsFenced, WakeTypeOK, Request
    <3>2. n.recipient = m.recipient
      BY <1>1, <2>1, <2>2, <3>1 DEF WakeInv, RootLocks, Held, HoldsRoot
    <3>3. n.mail = m.mail
      BY <2>1, <3>2 DEF Held
    <3>4. n.mail # {} /\ n.mail \cap m.mail = {}
      BY <1>1, <2>2 DEF WakeInv, RequestsFit, RequestFits, RequestsDiffer
    <3> QED
      BY <3>3, <3>4
  <2> QED
    BY <2>1, <2>2
<1> QED
  BY <1>1, WakeStarts, WakeStep, PTL DEF Spec

(* Mail signalled as fresh is dropped only when it has been announced or closed, when *)
(* its owner is no Codex session, or with the process.                                *)
THEOREM FreshMailStays == Spec => FreshMailIsKept
<1>1. WakeInv /\ [Next]_vars => [KeepsFresh]_vars
  BY WakeStep
<1>2. WakeInv /\ [Next]_vars => WakeInv'
  BY WakeStep
<1>3. Spec => [][KeepsFresh]_vars
  BY <1>1, <1>2, WakeStarts, PTL DEF Spec
<1> QED
  BY <1>3 DEF FreshMailIsKept, KeepsFresh
=============================================================================
