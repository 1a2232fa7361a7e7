---------------------------- MODULE AgentMessages ----------------------------
(***************************************************************************)
(* Durable messages between named agents: tables messages and               *)
(* message_deliveries (mailbox/messages.py) under the agent_message_* tools  *)
(* of chatgpt_mcp.py, composed with the mailbox registry they are fenced by. *)
(*                                                                         *)
(* A tool call is not one transaction.  It first reads the caller's binding  *)
(* (agent_context), may read the recipient's, and then runs one or two       *)
(* transactions that each check the binding read at the start again under a  *)
(* lock.  Takeovers, transfers and other calls run between those steps, so   *)
(* each step is an action and a call carries what it has read so far.        *)
(***************************************************************************)
EXTENDS AgentMailboxes

CONSTANTS
  MsgIds,           \* message ids the clients choose
  ReviewRequestId,  \* the id the review service derives for its request
  VerdictId,        \* the id it derives for the verdict on that request
  Payloads,         \* of ordinary messages
  Briefs,           \* of review requests and verdicts
  Review,           \* the reserved route references review.*
  CutoffInstalled,  \* whether receipt typed-review-v1-cutoff is recorded
  MaxMessages,      \* bound on stored messages
  Calls             \* tool calls that may be in flight together

ReviewIds == {ReviewRequestId, VerdictId}
AllIds == MsgIds \cup ReviewIds

VARIABLES
  messages,    \* <<sender, message id>> -> envelope, or None
  deliveries,  \* <<sender, message id, recipient>> -> delivery row, or None
  call         \* call -> what the call has read so far, or None

messageVars == <<messages, deliveries, call>>
vars == <<mailboxes, transfers, retry, messages, deliveries, call>>

MessageKey == Endpoints \X AllIds
DeliveryId == Endpoints \X AllIds \X Endpoints   \* uuid5 of exactly these three
Sender(d) == d[1]
Recipient(d) == d[3]

(* Everything the stored digest covers: _digest hashes the route with the    *)
(* recipient's generation, the route reference, kind, payload and reply.     *)
Envelope == [to: Endpoints, gen: Generation, route: Names \cup {Review},
             kind: {"request", "result"}, payload: Payloads \cup Briefs,
             replyTo: DeliveryId \cup {None}]

Delivery == [state: {"AVAILABLE", "RECEIVED", "ACKNOWLEDGED", "DISPOSITIONED"},
             ver: Generation,              \* recipient_grant_version
             rgen: Generation \cup {0},    \* receiving_generation, 0 for NULL
             evidence: AllIds \cup {None}] \* result message of the disposition

Binding == [endpoint: Endpoints, actor: Actors, generation: Generation]

(* A recipient as it was looked up. *)
Address == [endpoint: Endpoints, gen: Generation, key: Names]

CallState == [stage: {"bound", "addressed", "fresh", "unreplied", "routed"},
              box: Binding, to: Address \cup {None},
              mid: MsgIds \cup {None}, payload: Payloads \cup Briefs \cup {None},
              delivery: DeliveryId \cup {None}]

ASSUME MessageConstants ==
  /\ MsgIds \cap ReviewIds = {}
  /\ ReviewRequestId # VerdictId
  /\ Review \notin Names
  /\ CutoffInstalled \in BOOLEAN
  /\ MaxMessages \in Nat
  /\ None \notin AllIds \cup Payloads \cup Briefs
  /\ None \notin Envelope /\ None \notin Delivery /\ None \notin CallState
  /\ None \notin DeliveryId /\ None \notin Address

(* Mutant: any session of the endpoint passes, whatever its generation. *)
EndpointBinding(box) == \E n \in Registered : mailboxes[n].endpoint = box.endpoint

(* _current_agent_binding: the row read when the call began still stands.    *)
CurrentBinding(box) ==
  \E n \in Registered : /\ mailboxes[n].endpoint = box.endpoint
                        /\ mailboxes[n].actor = box.actor
                        /\ mailboxes[n].generation = box.generation

Finish(c) == call' = [call EXCEPT ![c] = None]
Stored(d) == deliveries[d] # None
RepliesTo(d) == {k \in MessageKey : messages[k] # None /\ messages[k].replyTo = d}
UnchangedRegistry == UNCHANGED <<mailboxes, transfers, retry>>

(* Delivery d of call c may be completed by the caller: it is received under  *)
(* the caller's own generation, or acknowledged.                             *)
Completable(d, box) ==
  \/ /\ deliveries[d].state = "RECEIVED"
     /\ deliveries[d].ver = box.generation
     /\ deliveries[d].rgen = box.generation
  \/ deliveries[d].state = "ACKNOWLEDGED"

(* Mutant: the disposition forgets its evidence. *)
DisposedWithoutEvidence(row, mid) == [row EXCEPT !.state = "DISPOSITIONED"]

Disposed(row, mid) == [row EXCEPT !.state = "DISPOSITIONED", !.evidence = mid]

-----------------------------------------------------------------------------
(* agent_context: read the mailbox of the calling actor. *)
AgentContext(c, a) ==
  /\ call[c] = None
  /\ \E n \in BoundTo(a) :
       call' = [call EXCEPT ![c] =
                 [stage |-> "bound",
                  box |-> [endpoint |-> mailboxes[n].endpoint, actor |-> a,
                           generation |-> mailboxes[n].generation],
                  to |-> None, mid |-> None, payload |-> None, delivery |-> None]]
  /\ UNCHANGED <<messages, deliveries>> /\ UnchangedRegistry

(* The caller or the edge process goes away in the middle of a call. *)
Abandon(c) ==
  /\ call[c] # None
  /\ Finish(c)
  /\ UNCHANGED <<messages, deliveries>> /\ UnchangedRegistry

(* send_agent_request: look the recipient up by name. *)
ResolveRecipient(c, n) ==
  /\ call[c] # None /\ call[c].stage = "bound"
  /\ \E k \in ByName(n) :
       call' = [call EXCEPT ![c].stage = "addressed",
                            ![c].to = [endpoint |-> mailboxes[k].endpoint,
                                       gen |-> mailboxes[k].generation, key |-> k]]
  /\ UNCHANGED <<messages, deliveries>> /\ UnchangedRegistry

(* committed_public_replay of a request: a stale caller is refused and a stored *)
(* message is replayed or reported as a conflict; else the call goes on.         *)
ReplayRequest(c, mid, payload) ==
  /\ call[c] # None /\ call[c].stage = "addressed"
  /\ LET known == messages[<<call[c].box.endpoint, mid>>] # None
     IN  \/ /\ ~CurrentBinding(call[c].box) \/ known
            /\ Finish(c)
         \/ /\ CurrentBinding(call[c].box) /\ ~known
            /\ call' = [call EXCEPT ![c].stage = "fresh",
                                    ![c].mid = mid, ![c].payload = payload]
  /\ UNCHANGED <<messages, deliveries>> /\ UnchangedRegistry

(* _persist_delivery: the envelope and its delivery are inserted unless they  *)
(* exist; an existing envelope with another digest refuses the request.       *)
Persist(sender, mid, env) ==
  /\ messages[<<sender, mid>>] \in {None, env}
  /\ \/ messages[<<sender, mid>>] # None
     \/ Cardinality({k \in MessageKey : messages[k] # None}) < MaxMessages
  /\ messages' = [messages EXCEPT ![<<sender, mid>>] = env]

Delivered(sender, mid, env, rows) ==
  IF rows[<<sender, mid, env.to>>] # None THEN rows
  ELSE [rows EXCEPT ![<<sender, mid, env.to>>] =
          [state |-> "AVAILABLE", ver |-> env.gen, rgen |-> 0, evidence |-> None]]

(* submit_admitted / _store for a request. *)
StoreRequest(c) ==
  /\ call[c] # None /\ call[c].stage = "fresh"
  /\ Finish(c)
  /\ LET s == call[c].box.endpoint
         env == [to |-> call[c].to.endpoint, gen |-> call[c].to.gen,
                 route |-> call[c].to.key, kind |-> "request",
                 payload |-> call[c].payload, replyTo |-> None]
     IN  \/ /\ CurrentBinding(call[c].box)
            /\ Persist(s, call[c].mid, env)
            /\ deliveries' = Delivered(s, call[c].mid, env, deliveries)
         \/ /\ \/ ~CurrentBinding(call[c].box)
               \/ messages[<<s, call[c].mid>>] \notin {None, env}
            /\ UNCHANGED <<messages, deliveries>>
  /\ UnchangedRegistry

-----------------------------------------------------------------------------
(* A transition of one delivery by its recipient: the binding is checked and  *)
(* the delivery locked in the same transaction.                               *)
OwnDelivery(c, d) ==
  /\ call[c] # None /\ call[c].stage = "bound"
  /\ CurrentBinding(call[c].box)
  /\ Stored(d) /\ Recipient(d) = call[c].box.endpoint

Transition(c, d, row) ==
  /\ deliveries' = [deliveries EXCEPT ![d] = row]
  /\ Finish(c)
  /\ UNCHANGED messages /\ UnchangedRegistry

(* receive_admitted *)
Receive(c, d) ==
  /\ OwnDelivery(c, d)
  /\ deliveries[d].state = "AVAILABLE"
  /\ Transition(c, d, [deliveries[d] EXCEPT !.state = "RECEIVED",
                                            !.ver = call[c].box.generation,
                                            !.rgen = call[c].box.generation])

(* recover_admitted *)
Recover(c, d) ==
  /\ OwnDelivery(c, d)
  /\ deliveries[d].state = "RECEIVED"
  /\ Transition(c, d, [deliveries[d] EXCEPT !.ver = call[c].box.generation,
                                            !.rgen = call[c].box.generation])

(* acknowledge_admitted, for one delivery of the batch *)
Acknowledge(c, d) ==
  /\ OwnDelivery(c, d)
  /\ deliveries[d].state \in {"AVAILABLE", "RECEIVED"}
  /\ Transition(c, d, [deliveries[d] EXCEPT !.state = "ACKNOWLEDGED",
                                            !.ver = call[c].box.generation,
                                            !.rgen = call[c].box.generation])

(* disposition_admitted with result evidence *)
Disposition(c, d, mid) ==
  /\ OwnDelivery(c, d)
  /\ Completable(d, call[c].box)
  /\ <<call[c].box.endpoint, mid>> \in RepliesTo(d)
  /\ Transition(c, d, Disposed(deliveries[d], mid))

-----------------------------------------------------------------------------
(* agent_message_result_send, step one: committed_public_replay of a result.  *)
(* An equal stored result also converges the disposition of its request.  A    *)
(* client knows the ids of deliveries it has been shown, so d is stored.       *)
ReplayResult(c, d, mid, payload) ==
  /\ call[c] # None /\ call[c].stage = "bound"
  /\ Stored(d)
  /\ LET s == call[c].box.endpoint
         m == messages[<<s, mid>>]
         same == m.kind = "result" /\ m.payload = payload /\ m.replyTo = d
     IN  \/ /\ ~CurrentBinding(call[c].box) \/ (m # None /\ ~same)
            /\ Finish(c)
            /\ UNCHANGED deliveries
         \/ /\ CurrentBinding(call[c].box) /\ m # None /\ same
            /\ Finish(c)
            /\ deliveries' = IF Recipient(d) = s /\ Completable(d, call[c].box)
                             THEN [deliveries EXCEPT ![d] = Disposed(deliveries[d], mid)]
                             ELSE deliveries
         \/ /\ CurrentBinding(call[c].box) /\ m = None /\ mid \in MsgIds
            /\ call' = [call EXCEPT ![c].stage = "unreplied", ![c].mid = mid,
                                    ![c].payload = payload, ![c].delivery = d]
            /\ UNCHANGED deliveries
  /\ UNCHANGED messages /\ UnchangedRegistry

(* Step two: reply_context and by_endpoint_id fix the route of the result.    *)
RouteResult(c) ==
  /\ call[c] # None /\ call[c].stage = "unreplied"
  /\ \E n \in Registered :
       /\ mailboxes[n].endpoint = Sender(call[c].delivery)
       /\ call' = [call EXCEPT ![c].stage = "routed",
                               ![c].to = [endpoint |-> mailboxes[n].endpoint,
                                          gen |-> mailboxes[n].generation, key |-> n]]
  /\ UNCHANGED <<messages, deliveries>> /\ UnchangedRegistry

(* Step three: submit_received_result.  The result and the disposition of the *)
(* request it answers are stored together or not at all.                      *)
StoreResult(c) ==
  /\ call[c] # None /\ call[c].stage = "routed"
  /\ Finish(c)
  /\ LET s == call[c].box.endpoint
         d == call[c].delivery
         k == <<s, call[c].mid>>
         route == messages[<<d[1], d[2]>>].route
         env == [to |-> call[c].to.endpoint, gen |-> call[c].to.gen, route |-> route,
                 kind |-> "result", payload |-> call[c].payload, replyTo |-> d]
         admitted == /\ ~(CutoffInstalled /\ route = Review)
                     /\ CurrentBinding(call[c].box)
                     /\ Recipient(d) = s
                     /\ Completable(d, call[c].box)
                     /\ RepliesTo(d) \subseteq {k}
     IN  \/ /\ admitted
            /\ Persist(s, call[c].mid, env)
            /\ deliveries' = Delivered(s, call[c].mid, env,
                               [deliveries EXCEPT ![d] = Disposed(deliveries[d], call[c].mid)])
         \/ /\ ~admitted \/ messages[k] \notin {None, env}
            /\ UNCHANGED <<messages, deliveries>>
  /\ UnchangedRegistry

-----------------------------------------------------------------------------
(* The review service stores its own messages through submit_review_internal  *)
(* on reserved routes: a request to a reviewer, and the reviewer's verdict as  *)
(* a result that leaves the request's delivery received.                      *)
ReviewRequest(c, payload) ==
  /\ call[c] # None /\ call[c].stage = "addressed"
  /\ call[c].to.endpoint # call[c].box.endpoint
  /\ CurrentBinding(call[c].box)
  /\ LET s == call[c].box.endpoint
         env == [to |-> call[c].to.endpoint, gen |-> call[c].to.gen, route |-> Review,
                 kind |-> "request", payload |-> payload, replyTo |-> None]
     IN  /\ Persist(s, ReviewRequestId, env)
         /\ deliveries' = Delivered(s, ReviewRequestId, env, deliveries)
  /\ Finish(c)
  /\ UnchangedRegistry

ReviewVerdict(c, d, payload) ==
  /\ OwnDelivery(c, d)
  /\ messages[<<d[1], d[2]>>].route = Review
  /\ messages[<<d[1], d[2]>>].kind = "request"
  /\ deliveries[d].state = "RECEIVED"
  /\ deliveries[d].ver = call[c].box.generation
  /\ deliveries[d].rgen = call[c].box.generation
  /\ RepliesTo(d) \subseteq {<<call[c].box.endpoint, VerdictId>>}
  /\ \E n \in Registered :
       /\ mailboxes[n].endpoint = Sender(d)
       /\ LET s == call[c].box.endpoint
              env == [to |-> Sender(d), gen |-> mailboxes[n].generation, route |-> Review,
                      kind |-> "result", payload |-> payload, replyTo |-> d]
          IN  /\ Persist(s, VerdictId, env)
              /\ deliveries' = Delivered(s, VerdictId, env, deliveries)
  /\ Finish(c)
  /\ UnchangedRegistry

-----------------------------------------------------------------------------
Init ==
  /\ MailboxInit
  /\ messages = [k \in MessageKey |-> None]
  /\ deliveries = [d \in DeliveryId |-> None]
  /\ call = [c \in Calls |-> None]

CallStep(c) ==
  \/ \E a \in Actors : AgentContext(c, a)
  \/ Abandon(c)
  \/ \E n \in Names : ResolveRecipient(c, n)
  \/ \E mid \in MsgIds, p \in Payloads : ReplayRequest(c, mid, p)
  \/ StoreRequest(c)
  \/ \E d \in DeliveryId : Receive(c, d) \/ Recover(c, d) \/ Acknowledge(c, d)
  \/ \E d \in DeliveryId, mid \in AllIds : Disposition(c, d, mid)
  \/ \E d \in DeliveryId, mid \in AllIds, p \in Payloads \cup Briefs : ReplayResult(c, d, mid, p)
  \/ RouteResult(c)
  \/ StoreResult(c)
  \/ \E p \in Briefs : ReviewRequest(c, p)
  \/ \E d \in DeliveryId, p \in Briefs : ReviewVerdict(c, d, p)

Next ==
  \/ MailboxNext /\ UNCHANGED messageVars
  \/ \E c \in Calls : CallStep(c)

Spec == Init /\ [][Next]_vars

-----------------------------------------------------------------------------
(* Every row and every call in flight holds values of its type. *)
TypeOK ==
  /\ MailboxTypeOK
  /\ messages \in [MessageKey -> Envelope \cup {None}]
  /\ deliveries \in [DeliveryId -> Delivery \cup {None}]
  /\ call \in [Calls -> CallState \cup {None}]

(* The message and its one delivery are stored together, a result goes back  *)
(* to the sender of the request it answers, and only the recipient of that    *)
(* request answers it, once: concurrent answers of two sessions never both    *)
(* commit.                                                                   *)
MessageAndDeliveryTogether ==
  /\ \A k \in MessageKey, e \in Endpoints :
       Stored(<<k[1], k[2], e>>) <=> (messages[k] # None /\ messages[k].to = e)
  /\ \A d \in DeliveryId :
       /\ Cardinality(RepliesTo(d)) <= 1
       /\ \A k \in RepliesTo(d) :
            Stored(d) /\ k[1] = Recipient(d) /\ messages[k].to = Sender(d)

(* A request is dispositioned exactly with the stored result that answers it: *)
(* no answer sent through agent_message_result_send leaves its request open,  *)
(* and no request is closed without the recipient's own stored answer.        *)
ReplyDispositionAtomic ==
  \A d \in DeliveryId :
    Stored(d) =>
      /\ \A k \in RepliesTo(d) :
           k[2] \in MsgIds => /\ deliveries[d].state = "DISPOSITIONED"
                              /\ deliveries[d].evidence = k[2]
      /\ deliveries[d].state = "DISPOSITIONED" =>
           <<Recipient(d), deliveries[d].evidence>> \in RepliesTo(d)

(* No delivery is stamped with a generation its mailbox has not reached, so a *)
(* later owner can never be mistaken for the one that received it.            *)
StampNotAhead ==
  \A d \in DeliveryId :
    Stored(d) =>
      \E n \in Registered :
        /\ mailboxes[n].endpoint = Recipient(d)
        /\ deliveries[d].ver <= mailboxes[n].generation
        /\ deliveries[d].rgen <= deliveries[d].ver
        /\ deliveries[d].rgen = 0 <=> deliveries[d].state = "AVAILABLE"

Rank(state) == CASE state = "AVAILABLE" -> 0
                 [] state = "RECEIVED" -> 1
                 [] state = "ACKNOWLEDGED" -> 2
                 [] state = "DISPOSITIONED" -> 3

(* A delivery only moves forward, its generation stamp never decreases, and a *)
(* stored envelope never changes or vanishes.                                 *)
ForwardOnly ==
  /\ \A k \in MessageKey : messages[k] # None => messages'[k] = messages[k]
  /\ \A d \in DeliveryId :
       Stored(d) =>
         /\ deliveries'[d] # None
         /\ Rank(deliveries'[d].state) >= Rank(deliveries[d].state)
         /\ deliveries'[d].ver >= deliveries[d].ver
         /\ deliveries[d].state = "DISPOSITIONED" =>
              deliveries'[d] = deliveries[d]

(* Only a call made under the mailbox's binding as it is now moves one of its *)
(* deliveries: a session that lost the mailbox between its lookup and its     *)
(* transaction changes nothing, and what an earlier owner received is         *)
(* completed only after the present one has recovered or acknowledged it.     *)
OldOwnerIsFenced ==
  \A d \in DeliveryId :
    (Stored(d) /\ deliveries'[d] # deliveries[d]) =>
      \E c \in Calls, n \in Registered :
        /\ call[c] # None /\ call'[c] = None
        /\ mailboxes[n].endpoint = Recipient(d)
        /\ mailboxes[n].endpoint = call[c].box.endpoint
        /\ mailboxes[n].actor = call[c].box.actor
        /\ mailboxes[n].generation = call[c].box.generation
        /\ (deliveries[d].state = "RECEIVED" /\ deliveries'[d].state = "DISPOSITIONED")
             => deliveries[d].rgen = mailboxes[n].generation

\* A message and its delivery, a reply and the disposition it closes are there together or
\* not at all, and no delivery was acknowledged by a generation still to come.
MailIsWhole ==
  TypeOK /\ MessageAndDeliveryTogether /\ ReplyDispositionAtomic /\ StampNotAhead

\* What no step does to a delivery, whoever races whom: its state only moves forward, and
\* a session that lost its mailbox changes nothing of it.
DeliveriesMoveForward == [][ForwardOnly /\ OldOwnerIsFenced]_vars
=============================================================================
