------------------------- MODULE AgentMessagesProofs -------------------------
(***************************************************************************)
(* What AgentMessages guarantees for every set of chats, names, endpoints,  *)
(* message ids and calls in flight.  Every step does one of four things to   *)
(* the two tables: nothing, store a message with its delivery, move one       *)
(* delivery, or store a result together with the disposition it causes.  The  *)
(* invariants are proved of those four, and every action is shown to be one.  *)
(***************************************************************************)
EXTENDS AgentMessages, AgentMailboxesProofs, FiniteSetTheorems

MailTyped ==
  /\ messages \in [MessageKey -> Envelope \cup {None}]
  /\ deliveries \in [DeliveryId -> Delivery \cup {None}]
  /\ call \in [Calls -> CallState \cup {None}]

(* The generation named for an endpoint is one its mailbox has reached. *)
ReachedBy(e, g) ==
  \E n \in Registered : mailboxes[n].endpoint = e /\ g <= mailboxes[n].generation

(* What a call carries at each of its stages. *)
Fits(x) ==
  /\ x.stage \in {"addressed", "fresh", "routed"} =>
       x.to \in Address /\ ReachedBy(x.to.endpoint, x.to.gen)
  /\ x.stage = "fresh" => x.mid \in MsgIds /\ x.payload \in Payloads
  /\ x.stage \in {"unreplied", "routed"} =>
       /\ x.mid \in MsgIds /\ x.payload \in Payloads \cup Briefs
       /\ x.delivery \in DeliveryId /\ Stored(x.delivery)
  /\ x.stage = "routed" => x.to.endpoint = Sender(x.delivery)
CallsFit == \A c \in Calls : call[c] # None => Fits(call[c])

StoredTogether ==
  \A k \in MessageKey, e \in Endpoints :
    Stored(<<k[1], k[2], e>>) <=> (messages[k] # None /\ messages[k].to = e)

OneReply == \A d \in DeliveryId : \A j, k \in RepliesTo(d) : j = k

RepliesFit ==
  \A d \in DeliveryId : \A k \in RepliesTo(d) :
    Stored(d) /\ k[1] = Recipient(d) /\ messages[k].to = Sender(d)

TablesOK ==
  /\ messages \in [MessageKey -> Envelope \cup {None}]
  /\ deliveries \in [DeliveryId -> Delivery \cup {None}]
  /\ StoredTogether /\ OneReply /\ RepliesFit /\ ReplyDispositionAtomic /\ StampNotAhead

MailInv == RegistryInv /\ MailTyped /\ CallsFit /\ TablesOK

-----------------------------------------------------------------------------
(* The four things a step does to the tables.                               *)

Open(d) == Stored(d) /\ deliveries[d].state \in {"RECEIVED", "ACKNOWLEDGED"}

(* A message is stored, or stored already; a reply comes from the review       *)
(* service and leaves its request alone.                                      *)
Post(s, mid, env) ==
  /\ messages[<<s, mid>>] \in {None, env}
  /\ messages' = [messages EXCEPT ![<<s, mid>>] = env]
  /\ deliveries' = Delivered(s, mid, env, deliveries)
  /\ ReachedBy(env.to, env.gen)
  /\ env.replyTo # None =>
       /\ mid \notin MsgIds /\ Stored(env.replyTo)
       /\ s = Recipient(env.replyTo) /\ env.to = Sender(env.replyTo)
       /\ RepliesTo(env.replyTo) \subseteq {<<s, mid>>}

(* A delivery is stamped by the present generation of its mailbox. *)
Stamp(d, state, n) ==
  /\ UNCHANGED messages
  /\ Stored(d) /\ n \in Registered /\ mailboxes[n].endpoint = Recipient(d)
  /\ deliveries[d].state \in {"AVAILABLE", "RECEIVED"}
  /\ state \in {"RECEIVED", "ACKNOWLEDGED"}
  /\ deliveries' = [deliveries EXCEPT ![d] =
       [@ EXCEPT !.state = state, !.ver = mailboxes[n].generation, !.rgen = mailboxes[n].generation]]

(* A delivery is closed by a reply that is stored. *)
Close(d, mid) ==
  /\ UNCHANGED messages
  /\ Open(d) /\ <<Recipient(d), mid>> \in RepliesTo(d)
  /\ deliveries' = [deliveries EXCEPT ![d] = Disposed(deliveries[d], mid)]

(* A reply is stored and closes its delivery. *)
Answer(d, mid, env) ==
  /\ Open(d) /\ mid \in MsgIds
  /\ env.replyTo = d /\ env.to = Sender(d) /\ ReachedBy(env.to, env.gen)
  /\ RepliesTo(d) \subseteq {<<Recipient(d), mid>>}
  /\ messages[<<Recipient(d), mid>>] \in {None, env}
  /\ messages' = [messages EXCEPT ![<<Recipient(d), mid>>] = env]
  /\ deliveries' = Delivered(Recipient(d), mid, env,
                     [deliveries EXCEPT ![d] = Disposed(deliveries[d], mid)])

MailStep ==
  \/ UNCHANGED <<messages, deliveries>>
  \/ \E s \in Endpoints, mid \in AllIds, env \in Envelope : Post(s, mid, env)
  \/ \E d \in DeliveryId, state \in {"RECEIVED", "ACKNOWLEDGED"}, n \in Names : Stamp(d, state, n)
  \/ \E d \in DeliveryId, mid \in AllIds : Close(d, mid)
  \/ \E d \in DeliveryId, mid \in MsgIds, env \in Envelope : Answer(d, mid, env)

-----------------------------------------------------------------------------
(* Keys and delivery ids name each other. *)
LEMMA Keys ==
  /\ \A s \in Endpoints, mid \in AllIds : <<s, mid>> \in MessageKey
  /\ \A s, e \in Endpoints, mid \in AllIds : <<s, mid, e>> \in DeliveryId
  /\ \A k \in MessageKey : k[1] \in Endpoints /\ k[2] \in AllIds /\ k = <<k[1], k[2]>>
  /\ \A d \in DeliveryId : /\ d[1] \in Endpoints /\ d[2] \in AllIds /\ d[3] \in Endpoints
                           /\ d = <<d[1], d[2], d[3]>> /\ <<d[1], d[2]>> \in MessageKey
BY DEF MessageKey, DeliveryId

(* The row a delivery starts with. *)
LEMMA NewDelivery ==
  ASSUME NEW g \in Generation
  PROVE  [state |-> "AVAILABLE", ver |-> g, rgen |-> 0, evidence |-> None] \in Delivery
BY DEF Delivery

(* What Delivered does: one row at most appears, and none changes. *)
LEMMA DeliveredRows ==
  ASSUME NEW rows \in [DeliveryId -> Delivery \cup {None}], NEW s \in Endpoints,
         NEW mid \in AllIds, NEW env \in Envelope
  PROVE  /\ Delivered(s, mid, env, rows) \in [DeliveryId -> Delivery \cup {None}]
         /\ \A d \in DeliveryId : rows[d] # None => Delivered(s, mid, env, rows)[d] = rows[d]
         /\ \A d \in DeliveryId : d # <<s, mid, env.to>> => Delivered(s, mid, env, rows)[d] = rows[d]
         /\ LET d == <<s, mid, env.to>> IN
              /\ d \in DeliveryId /\ Delivered(s, mid, env, rows)[d] # None
              /\ rows[d] = None => Delivered(s, mid, env, rows)[d] =
                   [state |-> "AVAILABLE", ver |-> env.gen, rgen |-> 0, evidence |-> None]
<1>1. env.to \in Endpoints /\ env.gen \in Generation
  BY DEF Envelope
<1>2. <<s, mid, env.to>> \in DeliveryId
  BY <1>1, Keys
<1>3. [state |-> "AVAILABLE", ver |-> env.gen, rgen |-> 0, evidence |-> None] \in Delivery
  BY <1>1, NewDelivery
<1>4. None \notin Delivery
  BY MessageConstants DEF MessageConstants
<1> QED
  BY <1>2, <1>3, <1>4 DEF Delivered

(* What a disposition changes in a row, and what it keeps. *)
LEMMA DisposedRow ==
  ASSUME NEW r \in Delivery, NEW mid \in AllIds
  PROVE  /\ Disposed(r, mid) \in Delivery
         /\ Disposed(r, mid).state = "DISPOSITIONED" /\ Disposed(r, mid).evidence = mid
         /\ Disposed(r, mid).ver = r.ver /\ Disposed(r, mid).rgen = r.rgen
BY DEF Disposed, Delivery

-----------------------------------------------------------------------------
(* Each of the four keeps the tables.                                         *)

(* The mailboxes' rows stay, or advance: what an endpoint has reached it has  *)
(* reached for good.                                                          *)
LEMMA ReachedIsKept ==
  ASSUME TableOK, TableStep, TableOK', NEW e, NEW g \in Nat, ReachedBy(e, g)
  PROVE  ReachedBy(e, g)'
<1>1. PICK m \in Registered : mailboxes[m].endpoint = e /\ g <= mailboxes[m].generation
  BY DEF ReachedBy
<1>2. PICK n \in Registered' : SameRow(m, n)
  BY RowsAreKept
<1>3. mailboxes[m].generation \in Nat /\ mailboxes'[n].generation \in Nat
  <2>1. mailboxes[m] \in Row
    BY RegisteredRow
  <2>2. mailboxes'[n] \in Row
    BY <1>2 DEF TableOK, Registered
  <2> QED
    BY <2>1, <2>2 DEF Row, Generation
<1>4. mailboxes'[n].endpoint = e /\ g <= mailboxes'[n].generation
  BY <1>1, <1>2, <1>3 DEF SameRow
<1> QED
  BY <1>4, <1>2 DEF ReachedBy

(* A stored delivery's row as StampNotAhead describes it. *)
RowFits(d) ==
  /\ ReachedBy(Recipient(d), deliveries[d].ver)
  /\ deliveries[d].rgen <= deliveries[d].ver
  /\ deliveries[d].rgen = 0 <=> deliveries[d].state = "AVAILABLE"

\* What StampNotAhead says, delivery by delivery.
LEMMA StampsByRow ==
  StampNotAhead <=> \A d \in DeliveryId : Stored(d) => RowFits(d)
BY DEF StampNotAhead, RowFits, ReachedBy

(* A stored delivery is a row of its type. *)
LEMMA StoredRow ==
  ASSUME deliveries \in [DeliveryId -> Delivery \cup {None}], NEW d \in DeliveryId, Stored(d)
  PROVE  /\ deliveries[d] \in Delivery
         /\ deliveries[d].ver \in Nat /\ deliveries[d].rgen \in Nat
BY DEF Stored, Delivery, Generation

(* A step of the registry alone keeps the tables. *)
LEMMA QuietKeepsTables ==
  ASSUME TableOK, TableStep, TableOK', TablesOK, UNCHANGED <<messages, deliveries>>
  PROVE  TablesOK'
<1>1. /\ (messages \in [MessageKey -> Envelope \cup {None}])'
      /\ (deliveries \in [DeliveryId -> Delivery \cup {None}])'
  BY DEF TablesOK
<1>2. StoredTogether' /\ OneReply' /\ RepliesFit' /\ ReplyDispositionAtomic'
  BY DEF TablesOK, StoredTogether, OneReply, RepliesFit, ReplyDispositionAtomic, Stored, RepliesTo
<1>3. StampNotAhead'
  <2>1. SUFFICES ASSUME NEW d \in DeliveryId, Stored(d)' PROVE RowFits(d)'
    BY DEF StampNotAhead, RowFits, ReachedBy, Recipient
  <2>2. Stored(d) /\ RowFits(d) /\ deliveries[d].ver \in Nat
    BY <2>1, StampsByRow, StoredRow DEF TablesOK, Stored
  <2>3. ReachedBy(Recipient(d), deliveries[d].ver)'
    BY <2>2, ReachedIsKept DEF RowFits, Recipient
  <2> QED
    BY <2>2, <2>3 DEF RowFits
<1> QED
  BY <1>1, <1>2, <1>3 DEF TablesOK

(* A row of a stored delivery that does not change still fits. *)
LEMMA RowStillFits ==
  ASSUME TablesOK, UNCHANGED mailboxes, NEW d \in DeliveryId, Stored(d),
         deliveries'[d] = deliveries[d]
  PROVE  RowFits(d)'
BY StampsByRow DEF TablesOK, RowFits, ReachedBy, Registered, Recipient

(* What a stored message carries. *)
LEMMA StoredEnvelope ==
  ASSUME messages \in [MessageKey -> Envelope \cup {None}], NEW k \in MessageKey,
         messages[k] # None
  PROVE  messages[k] \in Envelope /\ messages[k].to \in Endpoints
BY DEF Envelope

(* Storing a message: replies and keys afterwards. *)
LEMMA NewMessage ==
  ASSUME messages \in [MessageKey -> Envelope \cup {None}],
         NEW key \in MessageKey, NEW env \in Envelope, messages[key] = None,
         messages' = [messages EXCEPT ![key] = env]
  PROVE  /\ messages' \in [MessageKey -> Envelope \cup {None}]
         /\ messages'[key] = env /\ env # None
         /\ \A k \in MessageKey : k # key => messages'[k] = messages[k]
         /\ \A d \in DeliveryId, k \in MessageKey :
              k \in RepliesTo(d)' <=> (k \in RepliesTo(d) \/ (k = key /\ env.replyTo = d))
<1>1. env # None
  BY MessageConstants DEF MessageConstants
<1> QED
  BY <1>1 DEF RepliesTo

(* Storing a message that is not an answer, or the review service's verdict. *)
LEMMA PostKeepsTables ==
  ASSUME TablesOK, UNCHANGED mailboxes, NEW s \in Endpoints, NEW mid \in AllIds,
         NEW env \in Envelope, Post(s, mid, env)
  PROVE  TablesOK'
<1> DEFINE key == <<s, mid>>
           new == <<s, mid, env.to>>
<1>1. key \in MessageKey /\ new \in DeliveryId /\ env.to \in Endpoints /\ env.gen \in Nat
  BY Keys DEF Envelope, Generation
<1>2. CASE messages[key] # None
  <2>1. messages[key] = env
    BY <1>2 DEF Post
  <2>2. messages' = messages
    BY <2>1, <1>1 DEF Post, TablesOK
  <2>3. Stored(new)
    BY <1>1, <1>2, <2>1 DEF TablesOK, StoredTogether
  <2>4. deliveries' = deliveries
    BY <2>3 DEF Post, Delivered, Stored
  <2> QED
    BY <2>2, <2>4 DEF TablesOK, StoredTogether, OneReply, RepliesFit, ReplyDispositionAtomic,
      StampNotAhead, Stored, RepliesTo, Registered
<1>3. CASE messages[key] = None
  <2>1. /\ messages' \in [MessageKey -> Envelope \cup {None}]
        /\ messages'[key] = env /\ env # None
        /\ \A k \in MessageKey : k # key => messages'[k] = messages[k]
        /\ \A d \in DeliveryId, k \in MessageKey :
             k \in RepliesTo(d)' <=> (k \in RepliesTo(d) \/ (k = key /\ env.replyTo = d))
    BY <1>1, <1>3, NewMessage DEF Post, TablesOK
  <2>2. /\ deliveries' \in [DeliveryId -> Delivery \cup {None}]
        /\ \A d \in DeliveryId : d # new => deliveries'[d] = deliveries[d]
        /\ deliveries'[new] # None
        /\ \A d \in DeliveryId : Stored(d) => deliveries'[d] = deliveries[d]
        /\ deliveries[new] = None => deliveries'[new] =
             [state |-> "AVAILABLE", ver |-> env.gen, rgen |-> 0, evidence |-> None]
    BY DeliveredRows DEF Post, TablesOK, Stored
  <2>3. \A e \in Endpoints : ~Stored(<<s, mid, e>>)
    BY <1>1, <1>3 DEF TablesOK, StoredTogether
  <2>4. StoredTogether'
    <3>1. SUFFICES ASSUME NEW k \in MessageKey, NEW e \in Endpoints
                   PROVE  Stored(<<k[1], k[2], e>>)' <=> (messages'[k] # None /\ messages'[k].to = e)
      BY DEF StoredTogether
    <3>2. k = <<k[1], k[2]>> /\ <<k[1], k[2], e>> \in DeliveryId
      BY Keys
    <3>3. CASE k = key
      <4>1. <<k[1], k[2], e>> = <<s, mid, e>>
        BY <3>3
      <4>2. CASE e = env.to
        BY <4>1, <4>2, <2>1, <2>2, <3>3 DEF Stored
      <4>3. CASE e # env.to
        <5>1. <<s, mid, e>> # new
          BY <4>3
        <5> QED
          BY <5>1, <4>1, <4>3, <2>1, <2>2, <2>3, <3>2, <3>3 DEF Stored
      <4> QED
        BY <4>2, <4>3
    <3>4. CASE k # key
      <4>1. <<k[1], k[2], e>> # new
        BY <3>2, <3>4
      <4> QED
        BY <4>1, <3>2, <3>4, <2>1, <2>2 DEF TablesOK, StoredTogether, Stored
    <3> QED
      BY <3>3, <3>4
  <2>5. \A d \in DeliveryId : RepliesTo(d) \subseteq MessageKey /\ RepliesTo(d)' \subseteq MessageKey
    BY DEF RepliesTo
  <2>6. \A d \in DeliveryId : env.replyTo = d =>
          /\ mid \notin MsgIds /\ Stored(d) /\ s = Recipient(d) /\ env.to = Sender(d)
          /\ RepliesTo(d) \subseteq {key}
    <3>1. None \notin DeliveryId
      BY MessageConstants DEF MessageConstants
    <3> QED
      BY <3>1 DEF Post
  <2>7. OneReply'
    BY <2>1, <2>5, <2>6 DEF OneReply, TablesOK
  <2>8. RepliesFit'
    <3>1. SUFFICES ASSUME NEW d \in DeliveryId, NEW k \in MessageKey, k \in RepliesTo(d)'
                   PROVE  Stored(d)' /\ k[1] = Recipient(d) /\ messages'[k].to = Sender(d)
      BY <2>5 DEF RepliesFit, Recipient, Sender
    <3>2. CASE k \in RepliesTo(d)
      BY <3>2, <2>1, <2>2, <1>3 DEF TablesOK, RepliesFit, RepliesTo, Stored
    <3>3. CASE k = key /\ env.replyTo = d
      BY <3>3, <2>1, <2>2, <2>6 DEF Stored
    <3> QED
      BY <3>1, <3>2, <3>3, <2>1
  <2>9. ReplyDispositionAtomic'
    <3>1. SUFFICES ASSUME NEW d \in DeliveryId, Stored(d)'
                   PROVE  /\ \A k \in RepliesTo(d)' :
                               k[2] \in MsgIds => /\ deliveries'[d].state = "DISPOSITIONED"
                                                  /\ deliveries'[d].evidence = k[2]
                          /\ deliveries'[d].state = "DISPOSITIONED" =>
                               <<Recipient(d), deliveries'[d].evidence>> \in RepliesTo(d)'
      BY DEF ReplyDispositionAtomic, Recipient
    <3>2. CASE Stored(d)
      <4>1. deliveries'[d] = deliveries[d]
        BY <3>2, <2>2
      <4>2. \A k \in RepliesTo(d)' : k[2] \in MsgIds => k \in RepliesTo(d)
        BY <2>1, <2>5, <2>6
      <4>3. RepliesTo(d) \subseteq RepliesTo(d)'
        BY <2>1, <2>5
      <4> QED
        BY <3>2, <4>1, <4>2, <4>3 DEF TablesOK, ReplyDispositionAtomic
    <3>3. CASE ~Stored(d)
      <4>1. RepliesTo(d)' = {}
        <5>1. RepliesTo(d) = {}
          BY <3>3 DEF TablesOK, RepliesFit
        <5> QED
          BY <5>1, <2>1, <2>5, <2>6, <3>3
      <4>2. deliveries'[d].state # "DISPOSITIONED"
        BY <3>1, <3>3, <2>2 DEF Stored
      <4> QED
        BY <4>1, <4>2
    <3> QED
      BY <3>2, <3>3
  <2>10. StampNotAhead'
    <3>1. SUFFICES ASSUME NEW d \in DeliveryId, Stored(d)' PROVE RowFits(d)'
      BY DEF StampNotAhead, RowFits, ReachedBy, Recipient
    <3>2. CASE Stored(d)
      BY <3>2, <2>2, RowStillFits
    <3>3. CASE ~Stored(d)
      <4>1. d = new /\ deliveries'[d] = [state |-> "AVAILABLE", ver |-> env.gen, rgen |-> 0, evidence |-> None]
        BY <3>1, <3>3, <2>2 DEF Stored
      <4>2. ReachedBy(Recipient(d), env.gen)'
        BY <4>1 DEF Post, ReachedBy, Registered, Recipient
      <4> QED
        BY <4>1, <4>2, <1>1 DEF RowFits
    <3> QED
      BY <3>2, <3>3
  <2> QED
    BY <2>1, <2>2, <2>4, <2>7, <2>8, <2>9, <2>10 DEF TablesOK
<1> QED
  BY <1>2, <1>3

(* A stamp by the present owner. *)
LEMMA StampKeepsTables ==
  ASSUME TablesOK, TableOK, UNCHANGED mailboxes, NEW d \in DeliveryId,
         NEW state \in {"RECEIVED", "ACKNOWLEDGED"}, NEW n \in Names, Stamp(d, state, n)
  PROVE  TablesOK'
<1> DEFINE r == [deliveries[d] EXCEPT !.state = state, !.ver = mailboxes[n].generation,
                                      !.rgen = mailboxes[n].generation]
<1>1. deliveries[d] \in Delivery /\ Stored(d)
  BY StoredRow DEF Stamp, TablesOK
<1>2. mailboxes[n].generation \in Generation
  BY RegisteredRow DEF Stamp, Row
<1>3. /\ r \in Delivery /\ r # None /\ r.state = state
      /\ r.ver = mailboxes[n].generation /\ r.rgen = mailboxes[n].generation
  BY <1>1, <1>2, MessageConstants DEF Delivery, MessageConstants
<1>4. /\ deliveries' = [deliveries EXCEPT ![d] = r] /\ messages' = messages
      /\ deliveries[d].state \in {"AVAILABLE", "RECEIVED"}
  BY DEF Stamp
<1> HIDE DEF r
<1>5. /\ deliveries' \in [DeliveryId -> Delivery \cup {None}] /\ deliveries'[d] = r
      /\ \A e \in DeliveryId : e # d => deliveries'[e] = deliveries[e]
      /\ \A e \in DeliveryId : Stored(e)' <=> Stored(e)
  BY <1>1, <1>3, <1>4 DEF TablesOK, Stored
<1>6. \A e \in DeliveryId : RepliesTo(e)' = RepliesTo(e)
  BY <1>4 DEF RepliesTo
<1>7. StoredTogether'
  <2>1. \A k \in MessageKey, e \in Endpoints : <<k[1], k[2], e>> \in DeliveryId
    BY Keys
  <2> QED
    BY <2>1, <1>4, <1>5 DEF TablesOK, StoredTogether
<1>8. OneReply' /\ RepliesFit'
  BY <1>4, <1>5, <1>6 DEF TablesOK, OneReply, RepliesFit, Recipient, Sender
<1>9. ReplyDispositionAtomic'
  <2>1. SUFFICES ASSUME NEW e \in DeliveryId, Stored(e)
                 PROVE  /\ \A k \in RepliesTo(e) :
                             k[2] \in MsgIds => /\ deliveries'[e].state = "DISPOSITIONED"
                                                /\ deliveries'[e].evidence = k[2]
                        /\ deliveries'[e].state = "DISPOSITIONED" =>
                             <<Recipient(e), deliveries'[e].evidence>> \in RepliesTo(e)
    BY <1>5, <1>6 DEF ReplyDispositionAtomic, Recipient
  <2>2. CASE e = d
    BY <2>1, <2>2, <1>3, <1>4, <1>5 DEF TablesOK, ReplyDispositionAtomic
  <2>3. CASE e # d
    BY <2>1, <2>3, <1>5 DEF TablesOK, ReplyDispositionAtomic
  <2> QED
    BY <2>2, <2>3
<1>10. StampNotAhead'
  <2>1. SUFFICES ASSUME NEW e \in DeliveryId, Stored(e)' PROVE RowFits(e)'
    BY DEF StampNotAhead, RowFits, ReachedBy, Recipient
  <2>2. CASE e = d
    <3>1. n \in Registered' /\ mailboxes'[n].endpoint = Recipient(e)
      BY <2>2 DEF Stamp, Registered
    <3>2. r.ver <= mailboxes'[n].generation /\ r.rgen <= r.ver /\ r.rgen # 0
      BY <1>2, <1>3 DEF Generation
    <3> QED
      BY <2>2, <3>1, <3>2, <1>3, <1>5 DEF RowFits, ReachedBy, Recipient
  <2>3. CASE e # d
    BY <2>1, <2>3, <1>5, RowStillFits
  <2> QED
    BY <2>2, <2>3
<1> QED
  BY <1>4, <1>5, <1>7, <1>8, <1>9, <1>10 DEF TablesOK

(* A disposition by a stored reply. *)
LEMMA CloseKeepsTables ==
  ASSUME TablesOK, UNCHANGED mailboxes, NEW d \in DeliveryId, NEW mid \in AllIds, Close(d, mid)
  PROVE  TablesOK'
<1> DEFINE r == Disposed(deliveries[d], mid)
<1>1. /\ deliveries[d] \in Delivery /\ Stored(d)
      /\ deliveries[d].state \in {"RECEIVED", "ACKNOWLEDGED"}
      /\ deliveries[d].ver \in Nat /\ deliveries[d].rgen \in Nat
  BY StoredRow DEF Close, Open, TablesOK
<1>2. /\ r \in Delivery /\ r # None /\ r.state = "DISPOSITIONED" /\ r.evidence = mid
      /\ r.ver = deliveries[d].ver /\ r.rgen = deliveries[d].rgen
  BY <1>1, DisposedRow, MessageConstants DEF MessageConstants
<1>3. /\ deliveries' = [deliveries EXCEPT ![d] = r] /\ messages' = messages
      /\ <<Recipient(d), mid>> \in RepliesTo(d)
  BY DEF Close
<1> HIDE DEF r
<1>4. /\ deliveries' \in [DeliveryId -> Delivery \cup {None}] /\ deliveries'[d] = r
      /\ \A e \in DeliveryId : e # d => deliveries'[e] = deliveries[e]
      /\ \A e \in DeliveryId : Stored(e)' <=> Stored(e)
  BY <1>1, <1>2, <1>3 DEF TablesOK, Stored
<1>5. \A e \in DeliveryId : RepliesTo(e)' = RepliesTo(e)
  BY <1>3 DEF RepliesTo
<1>6. StoredTogether'
  <2>1. \A k \in MessageKey, e \in Endpoints : <<k[1], k[2], e>> \in DeliveryId
    BY Keys
  <2> QED
    BY <2>1, <1>3, <1>4 DEF TablesOK, StoredTogether
<1>7. OneReply' /\ RepliesFit'
  BY <1>3, <1>4, <1>5 DEF TablesOK, OneReply, RepliesFit, Recipient, Sender
<1>8. ReplyDispositionAtomic'
  <2>1. SUFFICES ASSUME NEW e \in DeliveryId, Stored(e)
                 PROVE  /\ \A k \in RepliesTo(e) :
                             k[2] \in MsgIds => /\ deliveries'[e].state = "DISPOSITIONED"
                                                /\ deliveries'[e].evidence = k[2]
                        /\ deliveries'[e].state = "DISPOSITIONED" =>
                             <<Recipient(e), deliveries'[e].evidence>> \in RepliesTo(e)
    BY <1>4, <1>5 DEF ReplyDispositionAtomic, Recipient
  <2>2. CASE e = d
    <3>1. \A k \in RepliesTo(d) : k = <<Recipient(d), mid>>
      BY <1>3 DEF TablesOK, OneReply
    <3> QED
      BY <2>2, <3>1, <1>2, <1>3, <1>4
  <2>3. CASE e # d
    BY <2>1, <2>3, <1>4 DEF TablesOK, ReplyDispositionAtomic
  <2> QED
    BY <2>2, <2>3
<1>9. StampNotAhead'
  <2>1. SUFFICES ASSUME NEW e \in DeliveryId, Stored(e)' PROVE RowFits(e)'
    BY DEF StampNotAhead, RowFits, ReachedBy, Recipient
  <2>2. CASE e = d
    <3>1. RowFits(d)
      BY <1>1, StampsByRow DEF TablesOK
    <3> QED
      BY <2>2, <3>1, <1>1, <1>2, <1>4 DEF RowFits, ReachedBy, Recipient, Registered
  <2>3. CASE e # d
    BY <2>1, <2>3, <1>4, RowStillFits
  <2> QED
    BY <2>2, <2>3
<1> QED
  BY <1>3, <1>4, <1>6, <1>7, <1>8, <1>9 DEF TablesOK

(* What StoreResult's admission leaves: the request has no answer yet and the *)
(* result is new.                                                            *)
LEMMA AnswerIsFirst ==
  ASSUME TablesOK, NEW d \in DeliveryId, NEW mid \in MsgIds, NEW env \in Envelope,
         Answer(d, mid, env)
  PROVE  /\ messages[<<Recipient(d), mid>>] = None
         /\ RepliesTo(d) = {}
         /\ d # <<Recipient(d), mid, env.to>>
<1> DEFINE key == <<Recipient(d), mid>>
<1>1. key \in MessageKey /\ env.to \in Endpoints
  BY Keys DEF Recipient, AllIds, Envelope
<1>2. key \notin RepliesTo(d)
  <2>1. deliveries[d].state # "DISPOSITIONED" /\ Stored(d) /\ key[2] \in MsgIds
    BY DEF Answer, Open
  <2> QED
    BY <2>1 DEF TablesOK, ReplyDispositionAtomic
<1>3. RepliesTo(d) = {}
  BY <1>2 DEF Answer
<1>4. messages[key] = None
  BY <1>1, <1>2 DEF Answer, RepliesTo
<1>5. ~Stored(<<Recipient(d), mid, env.to>>)
  BY <1>1, <1>4 DEF TablesOK, StoredTogether
<1> QED
  BY <1>3, <1>4, <1>5 DEF Answer, Open

(* A result stored together with the disposition of its request. *)
LEMMA AnswerKeepsTables ==
  ASSUME TablesOK, UNCHANGED mailboxes, NEW d \in DeliveryId, NEW mid \in MsgIds,
         NEW env \in Envelope, Answer(d, mid, env)
  PROVE  TablesOK'
<1> DEFINE key == <<Recipient(d), mid>>
           new == <<Recipient(d), mid, env.to>>
           r == Disposed(deliveries[d], mid)
           rows == [deliveries EXCEPT ![d] = r]
<1>1. /\ key \in MessageKey /\ new \in DeliveryId /\ env.to \in Endpoints /\ env.gen \in Nat
      /\ Recipient(d) \in Endpoints /\ mid \in AllIds
  <2>1. mid \in AllIds
    BY DEF AllIds
  <2>2. Recipient(d) \in Endpoints
    BY Keys DEF Recipient
  <2>3. env.to \in Endpoints /\ env.gen \in Nat
    BY DEF Envelope, Generation
  <2> QED
    BY <2>1, <2>2, <2>3, Keys
<1>2. messages[key] = None /\ RepliesTo(d) = {} /\ d # new
  BY AnswerIsFirst
<1>3. /\ deliveries[d] \in Delivery /\ Stored(d)
      /\ deliveries[d].state \in {"RECEIVED", "ACKNOWLEDGED"}
      /\ deliveries[d].ver \in Nat /\ deliveries[d].rgen \in Nat
  BY StoredRow DEF Answer, Open, TablesOK
<1>4. /\ r \in Delivery /\ r # None /\ r.state = "DISPOSITIONED" /\ r.evidence = mid
      /\ r.ver = deliveries[d].ver /\ r.rgen = deliveries[d].rgen
  BY <1>1, <1>3, DisposedRow, MessageConstants DEF MessageConstants
<1>5. /\ messages' \in [MessageKey -> Envelope \cup {None}]
      /\ messages'[key] = env /\ env # None
      /\ \A k \in MessageKey : k # key => messages'[k] = messages[k]
      /\ \A e \in DeliveryId, k \in MessageKey :
           k \in RepliesTo(e)' <=> (k \in RepliesTo(e) \/ (k = key /\ env.replyTo = e))
  BY <1>1, <1>2, NewMessage DEF Answer, TablesOK
<1>6. deliveries' = Delivered(Recipient(d), mid, env, rows)
  BY DEF Answer
<1> HIDE DEF r
<1>7. /\ rows \in [DeliveryId -> Delivery \cup {None}] /\ rows[d] = r
      /\ \A e \in DeliveryId : e # d => rows[e] = deliveries[e]
  BY <1>3, <1>4 DEF TablesOK
<1> HIDE DEF rows
<1>8. ~Stored(new)
  BY <1>1, <1>2 DEF TablesOK, StoredTogether
<1>9. /\ deliveries' \in [DeliveryId -> Delivery \cup {None}]
      /\ \A e \in DeliveryId : e \notin {d, new} => deliveries'[e] = deliveries[e]
      /\ deliveries'[d] = r
      /\ deliveries'[new] # None
      /\ deliveries'[new] = [state |-> "AVAILABLE", ver |-> env.gen, rgen |-> 0, evidence |-> None]
  <2>1. rows[new] = None
    BY <1>1, <1>2, <1>7, <1>8 DEF Stored
  <2> QED
    BY <2>1, <1>1, <1>2, <1>4, <1>6, <1>7, DeliveredRows
<1>10. \A e \in DeliveryId : Stored(e)' <=> (Stored(e) \/ e = new)
  BY <1>3, <1>4, <1>9 DEF Stored
<1>11. \A e \in DeliveryId : RepliesTo(e) \subseteq MessageKey /\ RepliesTo(e)' \subseteq MessageKey
  BY DEF RepliesTo
<1>12. env.replyTo = d /\ env.to = Sender(d)
  BY DEF Answer
<1>13. StoredTogether'
  <2>1. SUFFICES ASSUME NEW k \in MessageKey, NEW e \in Endpoints
                 PROVE  Stored(<<k[1], k[2], e>>)' <=> (messages'[k] # None /\ messages'[k].to = e)
    BY DEF StoredTogether
  <2>2. k = <<k[1], k[2]>> /\ <<k[1], k[2], e>> \in DeliveryId
    BY Keys
  <2>3. CASE k = key
    <3>1. <<k[1], k[2], e>> = <<Recipient(d), mid, e>> /\ ~Stored(<<k[1], k[2], e>>)
      BY <2>3, <1>2 DEF TablesOK, StoredTogether
    <3> QED
      BY <2>2, <2>3, <3>1, <1>5, <1>10
  <2>4. CASE k # key
    <3>1. <<k[1], k[2], e>> # new
      BY <2>2, <2>4
    <3> QED
      BY <3>1, <2>2, <2>4, <1>5, <1>10 DEF TablesOK, StoredTogether
  <2> QED
    BY <2>3, <2>4
<1>14. OneReply'
  BY <1>2, <1>5, <1>11, <1>12 DEF OneReply, TablesOK
<1>15. RepliesFit'
  <2>1. SUFFICES ASSUME NEW e \in DeliveryId, NEW k \in MessageKey, k \in RepliesTo(e)'
                 PROVE  Stored(e)' /\ k[1] = Recipient(e) /\ messages'[k].to = Sender(e)
    BY <1>11 DEF RepliesFit, Recipient, Sender
  <2>2. CASE k \in RepliesTo(e)
    BY <2>2, <1>2, <1>5, <1>10 DEF TablesOK, RepliesFit, RepliesTo
  <2>3. CASE k = key /\ env.replyTo = e
    BY <2>3, <1>3, <1>5, <1>10, <1>12
  <2> QED
    BY <2>1, <2>2, <2>3, <1>5
<1>16. ReplyDispositionAtomic'
  <2>1. SUFFICES ASSUME NEW e \in DeliveryId, Stored(e)'
                 PROVE  /\ \A k \in RepliesTo(e)' :
                             k[2] \in MsgIds => /\ deliveries'[e].state = "DISPOSITIONED"
                                                /\ deliveries'[e].evidence = k[2]
                        /\ deliveries'[e].state = "DISPOSITIONED" =>
                             <<Recipient(e), deliveries'[e].evidence>> \in RepliesTo(e)'
    BY DEF ReplyDispositionAtomic, Recipient
  <2>2. CASE e = d
    <3>1. RepliesTo(e)' = {key}
      BY <2>2, <1>1, <1>2, <1>5, <1>11, <1>12
    <3> QED
      BY <2>2, <3>1, <1>4, <1>9
  <2>3. CASE e # d /\ Stored(e)
    <3>1. deliveries'[e] = deliveries[e]
      BY <2>3, <1>8, <1>9
    <3>2. RepliesTo(e)' = RepliesTo(e)
      BY <2>3, <1>5, <1>11, <1>12
    <3> QED
      BY <2>3, <3>1, <3>2 DEF TablesOK, ReplyDispositionAtomic
  <2>4. CASE e # d /\ ~Stored(e)
    <3>1. RepliesTo(e)' = {}
      BY <2>4, <1>5, <1>11, <1>12 DEF TablesOK, RepliesFit
    <3>2. deliveries'[e].state = "AVAILABLE"
      BY <2>1, <2>4, <1>9, <1>10
    <3> QED
      BY <3>1, <3>2
  <2> QED
    BY <2>2, <2>3, <2>4
<1>17. StampNotAhead'
  <2>1. SUFFICES ASSUME NEW e \in DeliveryId, Stored(e)' PROVE RowFits(e)'
    BY DEF StampNotAhead, RowFits, ReachedBy, Recipient
  <2>2. CASE e = d
    <3>1. RowFits(d)
      BY <1>3, StampsByRow DEF TablesOK
    <3> QED
      BY <2>2, <3>1, <1>3, <1>4, <1>9 DEF RowFits, ReachedBy, Recipient, Registered
  <2>3. CASE e = new
    <3>1. ReachedBy(env.to, env.gen)'
      BY DEF Answer, ReachedBy, Registered
    <3>2. e[3] = env.to
      BY <2>3
    <3> QED
      BY <2>3, <3>1, <3>2, <1>1, <1>9 DEF RowFits, ReachedBy, Recipient
  <2>4. CASE e \notin {d, new}
    BY <2>1, <2>4, <1>9, <1>10, RowStillFits
  <2> QED
    BY <2>2, <2>3, <2>4
<1> QED
  BY <1>5, <1>9, <1>13, <1>14, <1>15, <1>16, <1>17 DEF TablesOK

(* Whatever a call does to the tables, they stay whole. *)
LEMMA MailStepKeepsTables ==
  ASSUME TablesOK, TableOK, UNCHANGED mailboxes, MailStep
  PROVE  TablesOK'
<1>1. CASE UNCHANGED <<messages, deliveries>>
  BY <1>1 DEF TablesOK, StoredTogether, OneReply, RepliesFit, ReplyDispositionAtomic,
    StampNotAhead, Stored, RepliesTo, Registered
<1> QED
  BY <1>1, PostKeepsTables, StampKeepsTables, CloseKeepsTables, AnswerKeepsTables DEF MailStep

-----------------------------------------------------------------------------
(* What a step of a call does: it ends the call and moves the tables under the *)
(* binding as it is now, or it only adds to what the call carries.             *)

FencedBy(c) ==
  \A d \in DeliveryId :
    (Stored(d) /\ deliveries'[d] # deliveries[d]) =>
      \E n \in Registered :
        /\ mailboxes[n].endpoint = Recipient(d)
        /\ mailboxes[n].endpoint = call[c].box.endpoint
        /\ mailboxes[n].actor = call[c].box.actor
        /\ mailboxes[n].generation = call[c].box.generation
        /\ (deliveries[d].state = "RECEIVED" /\ deliveries'[d].state = "DISPOSITIONED")
             => deliveries[d].rgen = mailboxes[n].generation

Ends(c) == call[c] # None /\ Finish(c) /\ MailStep /\ FencedBy(c)

Carries(c) ==
  /\ UNCHANGED <<messages, deliveries>>
  /\ \E x \in CallState : call' = [call EXCEPT ![c] = x] /\ Fits(x)

StepOfCall(c) == UnchangedRegistry /\ (Ends(c) \/ Carries(c))

(* A call in flight is a record of its type, and fits its stage. *)
LEMMA CallInFlight ==
  ASSUME MailInv, NEW c \in Calls, call[c] # None
  PROVE  /\ call[c] \in CallState /\ Fits(call[c])
         /\ call[c].box.endpoint \in Endpoints /\ call[c].box.actor \in Actors
         /\ call[c].box.generation \in Generation
<1>1. call[c] \in CallState /\ Fits(call[c])
  BY DEF MailInv, MailTyped, CallsFit
<1>2. call[c].box \in Binding
  BY <1>1 DEF CallState
<1> QED
  BY <1>1, <1>2 DEF Binding

(* The mailbox rows, typed. *)
LEMMA MailboxRow ==
  ASSUME MailInv, NEW n \in Registered
  PROVE  /\ n \in Names /\ mailboxes[n].endpoint \in Endpoints
         /\ mailboxes[n].generation \in Generation /\ mailboxes[n].generation \in Nat
         /\ ReachedBy(mailboxes[n].endpoint, mailboxes[n].generation)
         /\ [endpoint |-> mailboxes[n].endpoint, gen |-> mailboxes[n].generation, key |-> n] \in Address
<1>1. n \in Names /\ mailboxes[n] \in Row
  BY RegisteredRow DEF MailInv, RegistryInv
<1>2. mailboxes[n].endpoint \in Endpoints /\ mailboxes[n].generation \in Generation
  BY <1>1 DEF Row
<1>3. mailboxes[n].generation \in Nat
  BY <1>2 DEF Generation
<1> QED
  BY <1>1, <1>2, <1>3 DEF ReachedBy, Address

(* agent_context *)
LEMMA AgentContextCarries ==
  ASSUME MailInv, NEW c \in Calls, NEW a \in Actors, AgentContext(c, a)
  PROVE  StepOfCall(c)
<1>1. PICK n \in Registered :
        call' = [call EXCEPT ![c] =
                 [stage |-> "bound",
                  box |-> [endpoint |-> mailboxes[n].endpoint, actor |-> a,
                           generation |-> mailboxes[n].generation],
                  to |-> None, mid |-> None, payload |-> None, delivery |-> None]]
  BY DEF AgentContext, BoundTo
<1>2. [endpoint |-> mailboxes[n].endpoint, actor |-> a,
       generation |-> mailboxes[n].generation] \in Binding
  BY MailboxRow DEF Binding
<1>3. [stage |-> "bound",
       box |-> [endpoint |-> mailboxes[n].endpoint, actor |-> a,
                generation |-> mailboxes[n].generation],
       to |-> None, mid |-> None, payload |-> None, delivery |-> None] \in CallState
  BY <1>2 DEF CallState
<1> QED
  BY <1>1, <1>3 DEF StepOfCall, Carries, Fits, AgentContext

(* The caller goes away. *)
LEMMA AbandonEnds ==
  ASSUME MailInv, NEW c \in Calls, Abandon(c)
  PROVE  StepOfCall(c)
BY DEF Abandon, StepOfCall, Ends, MailStep, FencedBy

(* send_agent_request *)
LEMMA ResolveRecipientCarries ==
  ASSUME MailInv, NEW c \in Calls, NEW n \in Names, ResolveRecipient(c, n)
  PROVE  StepOfCall(c)
<1>1. call[c] \in CallState /\ call \in [Calls -> CallState \cup {None}]
  BY CallInFlight DEF ResolveRecipient, MailInv, MailTyped
<1>2. PICK k \in Registered :
        call' = [call EXCEPT ![c].stage = "addressed",
                            ![c].to = [endpoint |-> mailboxes[k].endpoint,
                                       gen |-> mailboxes[k].generation, key |-> k]]
  BY DEF ResolveRecipient, ByName
<1> DEFINE addr == [endpoint |-> mailboxes[k].endpoint, gen |-> mailboxes[k].generation, key |-> k]
           x == [call[c] EXCEPT !.stage = "addressed", !.to = addr]
<1>3. addr \in Address /\ ReachedBy(addr.endpoint, addr.gen)
  BY MailboxRow
<1>4. call' = [call EXCEPT ![c] = x]
  BY <1>1, <1>2
<1> HIDE DEF addr
<1>5. x \in CallState /\ x.stage = "addressed" /\ x.to = addr
  BY <1>1, <1>3 DEF CallState
<1> HIDE DEF x
<1>6. Fits(x)
  BY <1>3, <1>5 DEF Fits
<1> QED
  BY <1>4, <1>5, <1>6 DEF StepOfCall, Carries, ResolveRecipient

(* committed_public_replay of a request *)
LEMMA ReplayRequestSteps ==
  ASSUME MailInv, NEW c \in Calls, NEW mid \in MsgIds, NEW p \in Payloads, ReplayRequest(c, mid, p)
  PROVE  StepOfCall(c)
<1>1. /\ call[c] # None /\ call[c] \in CallState /\ call \in [Calls -> CallState \cup {None}]
      /\ Fits(call[c]) /\ call[c].stage = "addressed"
  BY CallInFlight DEF ReplayRequest, MailInv, MailTyped
<1>2. CASE Finish(c)
  BY <1>1, <1>2 DEF ReplayRequest, StepOfCall, Ends, MailStep, FencedBy
<1>3. CASE call' = [call EXCEPT ![c].stage = "fresh", ![c].mid = mid, ![c].payload = p]
  <2> DEFINE x == [call[c] EXCEPT !.stage = "fresh", !.mid = mid, !.payload = p]
  <2>1. call' = [call EXCEPT ![c] = x]
    BY <1>1, <1>3
  <2>2. x \in CallState /\ x.stage = "fresh" /\ x.to = call[c].to /\ x.mid = mid /\ x.payload = p
    BY <1>1 DEF CallState
  <2> HIDE DEF x
  <2>3. Fits(x)
    BY <1>1, <2>2 DEF Fits
  <2> QED
    BY <2>1, <2>2, <2>3 DEF StepOfCall, Carries, ReplayRequest
<1> QED
  BY <1>2, <1>3 DEF ReplayRequest

(* The row a message's delivery starts with never changes a stored one. *)
LEMMA PostIsFenced ==
  ASSUME MailInv, NEW c \in Calls, NEW s \in Endpoints, NEW mid \in AllIds, NEW env \in Envelope,
         deliveries' = Delivered(s, mid, env, deliveries)
  PROVE  FencedBy(c)
BY DeliveredRows DEF FencedBy, Stored, MailInv, TablesOK

(* submit_admitted for a request *)
LEMMA StoreRequestEnds ==
  ASSUME MailInv, NEW c \in Calls, StoreRequest(c)
  PROVE  StepOfCall(c)
<1> DEFINE s == call[c].box.endpoint
           env == [to |-> call[c].to.endpoint, gen |-> call[c].to.gen,
                   route |-> call[c].to.key, kind |-> "request",
                   payload |-> call[c].payload, replyTo |-> None]
<1>1. /\ call[c] # None /\ call[c].stage = "fresh" /\ Fits(call[c]) /\ s \in Endpoints
      /\ Finish(c) /\ UnchangedRegistry
  BY CallInFlight DEF StoreRequest
<1>2. CASE UNCHANGED <<messages, deliveries>>
  BY <1>1, <1>2 DEF StepOfCall, Ends, MailStep, FencedBy
<1>3. CASE /\ Persist(s, call[c].mid, env)
           /\ deliveries' = Delivered(s, call[c].mid, env, deliveries)
  <2>1. /\ call[c].mid \in AllIds /\ call[c].payload \in Payloads
        /\ call[c].to \in Address /\ ReachedBy(call[c].to.endpoint, call[c].to.gen)
    BY <1>1 DEF Fits, AllIds
  <2>2. /\ env \in Envelope /\ env.to = call[c].to.endpoint /\ env.gen = call[c].to.gen
        /\ env.replyTo = None
    BY <2>1 DEF Envelope, Address
  <2> HIDE DEF env
  <2>3. Post(s, call[c].mid, env)
    BY <1>3, <2>1, <2>2 DEF Post, Persist
  <2>4. FencedBy(c)
    BY <1>1, <1>3, <2>1, <2>2, PostIsFenced
  <2> QED
    BY <1>1, <2>1, <2>2, <2>3, <2>4 DEF StepOfCall, Ends, MailStep
<1> QED
  BY <1>2, <1>3 DEF StoreRequest

(* A change of one delivery of the present owner. *)
LEMMA OneRowIsFenced ==
  ASSUME MailInv, NEW c \in Calls, NEW d \in DeliveryId, NEW r,
         CurrentBinding(call[c].box), Recipient(d) = call[c].box.endpoint,
         \A e \in DeliveryId : Stored(e) /\ e # d => deliveries'[e] = deliveries[e],
         deliveries'[d] = r,
         (deliveries[d].state = "RECEIVED" /\ r.state = "DISPOSITIONED") =>
           deliveries[d].rgen = call[c].box.generation
  PROVE  FencedBy(c)
<1>1. PICK n \in Registered : /\ mailboxes[n].endpoint = call[c].box.endpoint
                              /\ mailboxes[n].actor = call[c].box.actor
                              /\ mailboxes[n].generation = call[c].box.generation
  BY DEF CurrentBinding
<1> QED
  BY <1>1 DEF FencedBy

(* receive_admitted, recover_admitted and acknowledge_admitted *)
LEMMA StampEnds ==
  ASSUME MailInv, NEW c \in Calls, NEW d \in DeliveryId, OwnDelivery(c, d),
         NEW state \in {"RECEIVED", "ACKNOWLEDGED"},
         deliveries[d].state \in {"AVAILABLE", "RECEIVED"},
         Transition(c, d, [deliveries[d] EXCEPT !.state = state,
                                                !.ver = call[c].box.generation,
                                                !.rgen = call[c].box.generation])
  PROVE  StepOfCall(c)
<1> DEFINE r == [deliveries[d] EXCEPT !.state = state, !.ver = call[c].box.generation,
                                      !.rgen = call[c].box.generation]
<1>1. /\ Finish(c) /\ UNCHANGED messages /\ UnchangedRegistry
      /\ deliveries' = [deliveries EXCEPT ![d] = r]
      /\ call[c] # None /\ CurrentBinding(call[c].box) /\ Stored(d)
      /\ Recipient(d) = call[c].box.endpoint
      /\ deliveries \in [DeliveryId -> Delivery \cup {None}]
  BY DEF Transition, OwnDelivery, MailInv, TablesOK
<1>2. r.state = state
  <2>1. deliveries[d] \in Delivery
    BY <1>1, StoredRow
  <2> QED
    BY <2>1 DEF Delivery
<1>3. PICK n \in Registered : /\ mailboxes[n].endpoint = call[c].box.endpoint
                              /\ mailboxes[n].generation = call[c].box.generation
  BY <1>1 DEF CurrentBinding
<1>4. n \in Names
  BY <1>3 DEF Registered
<1>5. Stamp(d, state, n)
  BY <1>1, <1>3 DEF Stamp
<1> HIDE DEF r
<1>6. deliveries'[d] = r /\ \A e \in DeliveryId : e # d => deliveries'[e] = deliveries[e]
  BY <1>1
<1>7. FencedBy(c)
  BY <1>1, <1>2, <1>6, OneRowIsFenced
<1> QED
  BY <1>1, <1>4, <1>5, <1>7 DEF StepOfCall, Ends, MailStep

(* receive_admitted, recover_admitted, acknowledge_admitted *)
LEMMA ReceiveEnds ==
  ASSUME MailInv, NEW c \in Calls, NEW d \in DeliveryId,
         Receive(c, d) \/ Recover(c, d) \/ Acknowledge(c, d)
  PROVE  StepOfCall(c)
<1>1. CASE Receive(c, d)
  BY <1>1, StampEnds DEF Receive
<1>2. CASE Recover(c, d)
  <2>1. deliveries[d] \in Delivery /\ deliveries[d].state = "RECEIVED"
    BY <1>2, StoredRow DEF Recover, OwnDelivery, MailInv, TablesOK
  <2>2. [deliveries[d] EXCEPT !.ver = call[c].box.generation, !.rgen = call[c].box.generation]
        = [deliveries[d] EXCEPT !.state = "RECEIVED", !.ver = call[c].box.generation,
                                !.rgen = call[c].box.generation]
    BY <2>1 DEF Delivery
  <2> QED
    BY <1>2, <2>1, <2>2, StampEnds DEF Recover
<1>3. CASE Acknowledge(c, d)
  BY <1>3, StampEnds DEF Acknowledge
<1> QED
  BY <1>1, <1>2, <1>3

(* A delivery its recipient may complete is open; if it is received, it is so  *)
(* by the caller's own generation.                                           *)
LEMMA CompletableIsOpen ==
  ASSUME NEW d, NEW box, Stored(d), Completable(d, box)
  PROVE  /\ Open(d)
         /\ deliveries[d].state = "RECEIVED" => deliveries[d].rgen = box.generation
BY DEF Completable, Open

(* A disposition by its recipient. *)
LEMMA CloseEnds ==
  ASSUME MailInv, NEW c \in Calls, NEW d \in DeliveryId, NEW mid \in AllIds, call[c] # None,
         CurrentBinding(call[c].box), Stored(d), Recipient(d) = call[c].box.endpoint,
         Completable(d, call[c].box), <<call[c].box.endpoint, mid>> \in RepliesTo(d),
         deliveries' = [deliveries EXCEPT ![d] = Disposed(deliveries[d], mid)],
         UNCHANGED messages, UnchangedRegistry, Finish(c)
  PROVE  StepOfCall(c)
<1>1. /\ Open(d)
      /\ deliveries[d].state = "RECEIVED" => deliveries[d].rgen = call[c].box.generation
  BY CompletableIsOpen
<1>2. Close(d, mid)
  BY <1>1 DEF Close
<1>3. /\ deliveries'[d] = Disposed(deliveries[d], mid)
      /\ \A e \in DeliveryId : e # d => deliveries'[e] = deliveries[e]
  BY DEF MailInv, TablesOK
<1>4. FencedBy(c)
  BY <1>1, <1>3, OneRowIsFenced
<1> QED
  BY <1>2, <1>4 DEF StepOfCall, Ends, MailStep

(* disposition_admitted *)
LEMMA DispositionEnds ==
  ASSUME MailInv, NEW c \in Calls, NEW d \in DeliveryId, NEW mid \in AllIds, Disposition(c, d, mid)
  PROVE  StepOfCall(c)
BY CloseEnds DEF Disposition, Transition, OwnDelivery

(* committed_public_replay of a result *)
LEMMA ReplayResultSteps ==
  ASSUME MailInv, NEW c \in Calls, NEW d \in DeliveryId, NEW mid \in AllIds,
         NEW p \in Payloads \cup Briefs, ReplayResult(c, d, mid, p)
  PROVE  StepOfCall(c)
<1> DEFINE s == call[c].box.endpoint
           m == messages[<<s, mid>>]
<1>1. /\ call[c] # None /\ call[c] \in CallState /\ call \in [Calls -> CallState \cup {None}]
      /\ call[c].stage = "bound" /\ Stored(d) /\ UNCHANGED messages /\ UnchangedRegistry
      /\ s \in Endpoints
  BY CallInFlight DEF ReplayResult, MailInv, MailTyped
<1>2. CASE Finish(c) /\ UNCHANGED deliveries
  BY <1>1, <1>2 DEF StepOfCall, Ends, MailStep, FencedBy
<1>3. CASE /\ Finish(c) /\ CurrentBinding(call[c].box) /\ m # None /\ m.replyTo = d
           /\ Recipient(d) = s /\ Completable(d, call[c].box)
           /\ deliveries' = [deliveries EXCEPT ![d] = Disposed(deliveries[d], mid)]
  <2>1. <<s, mid>> \in RepliesTo(d)
    BY <1>1, <1>3, Keys DEF RepliesTo
  <2> QED
    BY <1>1, <1>3, <2>1, CloseEnds
<1>4. CASE /\ call' = [call EXCEPT ![c].stage = "unreplied", ![c].mid = mid,
                                   ![c].payload = p, ![c].delivery = d]
           /\ mid \in MsgIds /\ UNCHANGED deliveries
  <2> DEFINE x == [call[c] EXCEPT !.stage = "unreplied", !.mid = mid, !.payload = p, !.delivery = d]
  <2>1. call' = [call EXCEPT ![c] = x]
    BY <1>1, <1>4
  <2>2. x \in CallState /\ x.stage = "unreplied" /\ x.mid = mid /\ x.payload = p /\ x.delivery = d
    BY <1>1, <1>4 DEF CallState
  <2> HIDE DEF x
  <2>3. Fits(x)
    BY <1>1, <1>4, <2>2 DEF Fits
  <2> QED
    BY <1>1, <1>4, <2>1, <2>2, <2>3 DEF StepOfCall, Carries
<1> QED
  BY <1>2, <1>3, <1>4 DEF ReplayResult

(* reply_context *)
LEMMA RouteResultCarries ==
  ASSUME MailInv, NEW c \in Calls, RouteResult(c)
  PROVE  StepOfCall(c)
<1>1. /\ call[c] \in CallState /\ call \in [Calls -> CallState \cup {None}]
      /\ call[c].stage = "unreplied" /\ Fits(call[c])
  BY CallInFlight DEF RouteResult, MailInv, MailTyped
<1>2. PICK n \in Registered :
        /\ mailboxes[n].endpoint = Sender(call[c].delivery)
        /\ call' = [call EXCEPT ![c].stage = "routed",
                               ![c].to = [endpoint |-> mailboxes[n].endpoint,
                                          gen |-> mailboxes[n].generation, key |-> n]]
  BY DEF RouteResult
<1> DEFINE addr == [endpoint |-> mailboxes[n].endpoint, gen |-> mailboxes[n].generation, key |-> n]
           x == [call[c] EXCEPT !.stage = "routed", !.to = addr]
<1>3. /\ addr \in Address /\ ReachedBy(addr.endpoint, addr.gen)
      /\ addr.endpoint = Sender(call[c].delivery)
  BY <1>2, MailboxRow
<1>4. call' = [call EXCEPT ![c] = x]
  BY <1>1, <1>2
<1> HIDE DEF addr
<1>5. /\ x \in CallState /\ x.stage = "routed" /\ x.to = addr /\ x.mid = call[c].mid
      /\ x.payload = call[c].payload /\ x.delivery = call[c].delivery
  BY <1>1, <1>3 DEF CallState
<1> HIDE DEF x
<1>6. Fits(x)
  BY <1>1, <1>3, <1>5 DEF Fits
<1> QED
  BY <1>4, <1>5, <1>6 DEF StepOfCall, Carries, RouteResult

(* The envelope of a stored delivery. *)
LEMMA DeliveryHasMessage ==
  ASSUME MailInv, NEW d \in DeliveryId, Stored(d)
  PROVE  messages[<<d[1], d[2]>>] \in Envelope
<1>1. <<d[1], d[2]>> \in MessageKey /\ d[3] \in Endpoints /\ d = <<d[1], d[2], d[3]>>
  BY Keys
<1>2. messages[<<d[1], d[2]>>] # None
  BY <1>1 DEF MailInv, TablesOK, StoredTogether
<1> QED
  BY <1>1, <1>2, StoredEnvelope DEF MailInv, TablesOK

(* submit_received_result *)
LEMMA StoreResultEnds ==
  ASSUME MailInv, NEW c \in Calls, StoreResult(c)
  PROVE  StepOfCall(c)
<1> DEFINE s == call[c].box.endpoint
           d == call[c].delivery
           mid == call[c].mid
           route == messages[<<d[1], d[2]>>].route
           env == [to |-> call[c].to.endpoint, gen |-> call[c].to.gen, route |-> route,
                   kind |-> "result", payload |-> call[c].payload, replyTo |-> d]
           rows == [deliveries EXCEPT ![d] = Disposed(deliveries[d], mid)]
<1>1. /\ call[c] # None /\ call[c].stage = "routed" /\ Fits(call[c]) /\ s \in Endpoints
      /\ Finish(c) /\ UnchangedRegistry
  BY CallInFlight DEF StoreResult
<1>2. /\ mid \in MsgIds /\ mid \in AllIds /\ call[c].payload \in Payloads \cup Briefs
      /\ call[c].to \in Address /\ ReachedBy(call[c].to.endpoint, call[c].to.gen)
      /\ d \in DeliveryId /\ Stored(d) /\ call[c].to.endpoint = Sender(d)
  BY <1>1 DEF Fits, AllIds
<1>3. CASE UNCHANGED <<messages, deliveries>>
  BY <1>1, <1>3 DEF StepOfCall, Ends, MailStep, FencedBy
<1>4. CASE /\ CurrentBinding(call[c].box) /\ Recipient(d) = s /\ Completable(d, call[c].box)
           /\ RepliesTo(d) \subseteq {<<s, mid>>}
           /\ Persist(s, mid, env)
           /\ deliveries' = Delivered(s, mid, env, rows)
  <2>1. route \in Names \cup {Review}
    BY <1>2, DeliveryHasMessage DEF Envelope
  <2>2. /\ env \in Envelope /\ env.to = Sender(d) /\ env.gen = call[c].to.gen
        /\ env.replyTo = d
    BY <1>2, <2>1 DEF Envelope, Address
  <2>3. /\ Open(d)
        /\ deliveries[d].state = "RECEIVED" => deliveries[d].rgen = call[c].box.generation
    BY <1>2, <1>4, CompletableIsOpen
  <2> HIDE DEF env
  <2>4. Answer(d, mid, env)
    BY <1>2, <1>4, <2>2, <2>3 DEF Answer, Persist
  <2>5. FencedBy(c)
    <3>1. deliveries \in [DeliveryId -> Delivery \cup {None}] /\ deliveries[d] \in Delivery
      BY <1>2, StoredRow DEF MailInv, TablesOK
    <3>2. Disposed(deliveries[d], mid) \in Delivery /\ Disposed(deliveries[d], mid) # None
      BY <1>2, <3>1, DisposedRow, MessageConstants DEF MessageConstants
    <3>3. /\ rows \in [DeliveryId -> Delivery \cup {None}]
          /\ rows[d] = Disposed(deliveries[d], mid)
          /\ \A e \in DeliveryId : e # d => rows[e] = deliveries[e]
      BY <1>2, <3>1, <3>2
    <3> HIDE DEF rows
    <3>4. \A e \in DeliveryId : rows[e] # None => deliveries'[e] = rows[e]
      BY <1>1, <1>2, <1>4, <2>2, <3>3, DeliveredRows
    <3>5. /\ deliveries'[d] = Disposed(deliveries[d], mid)
          /\ \A e \in DeliveryId : Stored(e) /\ e # d => deliveries'[e] = deliveries[e]
      BY <1>2, <3>2, <3>3, <3>4 DEF Stored
    <3> HIDE DEF d, mid
    <3> QED
      BY <1>2, <1>4, <2>3, <3>5, OneRowIsFenced
  <2> QED
    BY <1>1, <1>2, <2>2, <2>4, <2>5 DEF StepOfCall, Ends, MailStep
<1> QED
  BY <1>3, <1>4 DEF StoreResult

(* submit_review_internal of a request *)
LEMMA ReviewRequestEnds ==
  ASSUME MailInv, NEW c \in Calls, NEW p \in Briefs, ReviewRequest(c, p)
  PROVE  StepOfCall(c)
<1> DEFINE s == call[c].box.endpoint
           env == [to |-> call[c].to.endpoint, gen |-> call[c].to.gen, route |-> Review,
                   kind |-> "request", payload |-> p, replyTo |-> None]
<1>1. /\ call[c] # None /\ call[c].stage = "addressed" /\ Fits(call[c]) /\ s \in Endpoints
      /\ Finish(c) /\ UnchangedRegistry /\ Persist(s, ReviewRequestId, env)
      /\ deliveries' = Delivered(s, ReviewRequestId, env, deliveries)
  BY CallInFlight DEF ReviewRequest
<1>2. /\ call[c].to \in Address /\ ReachedBy(call[c].to.endpoint, call[c].to.gen)
      /\ ReviewRequestId \in AllIds
  BY <1>1 DEF Fits, AllIds, ReviewIds
<1>3. /\ env \in Envelope /\ env.to = call[c].to.endpoint /\ env.gen = call[c].to.gen
      /\ env.replyTo = None
  BY <1>2 DEF Envelope, Address
<1> HIDE DEF env
<1>4. Post(s, ReviewRequestId, env)
  BY <1>1, <1>2, <1>3 DEF Post, Persist
<1>5. FencedBy(c)
  BY <1>1, <1>2, <1>3, PostIsFenced
<1> QED
  BY <1>1, <1>2, <1>3, <1>4, <1>5 DEF StepOfCall, Ends, MailStep

(* submit_review_internal of a verdict *)
LEMMA ReviewVerdictEnds ==
  ASSUME MailInv, NEW c \in Calls, NEW d \in DeliveryId, NEW p \in Briefs, ReviewVerdict(c, d, p)
  PROVE  StepOfCall(c)
<1> DEFINE s == call[c].box.endpoint
<1>1. PICK n \in Registered :
        /\ mailboxes[n].endpoint = Sender(d)
        /\ LET env == [to |-> Sender(d), gen |-> mailboxes[n].generation, route |-> Review,
                       kind |-> "result", payload |-> p, replyTo |-> d]
           IN  /\ Persist(s, VerdictId, env)
               /\ deliveries' = Delivered(s, VerdictId, env, deliveries)
  BY DEF ReviewVerdict
<1> DEFINE env == [to |-> Sender(d), gen |-> mailboxes[n].generation, route |-> Review,
                   kind |-> "result", payload |-> p, replyTo |-> d]
<1>2. /\ call[c] # None /\ s \in Endpoints /\ Finish(c) /\ UnchangedRegistry
      /\ Stored(d) /\ Recipient(d) = s /\ RepliesTo(d) \subseteq {<<s, VerdictId>>}
  BY CallInFlight DEF ReviewVerdict, OwnDelivery
<1>3. /\ Sender(d) \in Endpoints /\ mailboxes[n].generation \in Generation
      /\ ReachedBy(Sender(d), mailboxes[n].generation)
  BY <1>1, MailboxRow
<1>4. VerdictId \in AllIds /\ VerdictId \notin MsgIds
  BY MessageConstants DEF AllIds, ReviewIds, MessageConstants
<1>5. /\ env \in Envelope /\ env.to = Sender(d) /\ env.gen = mailboxes[n].generation
      /\ env.replyTo = d
  BY <1>3 DEF Envelope
<1> HIDE DEF env
<1>6. Post(s, VerdictId, env)
  BY <1>1, <1>2, <1>3, <1>4, <1>5 DEF Post, Persist, env
<1>7. FencedBy(c)
  <2>1. deliveries' = Delivered(s, VerdictId, env, deliveries)
    BY <1>1 DEF env
  <2> QED
    BY <2>1, <1>2, <1>4, <1>5, PostIsFenced
<1> QED
  BY <1>2, <1>4, <1>5, <1>6, <1>7 DEF StepOfCall, Ends, MailStep

(* Every step of a call is one of the two. *)
LEMMA CallSteps ==
  ASSUME MailInv, NEW c \in Calls, CallStep(c)
  PROVE  StepOfCall(c)
BY AgentContextCarries, AbandonEnds, ResolveRecipientCarries, ReplayRequestSteps, StoreRequestEnds,
   ReceiveEnds, DispositionEnds, ReplayResultSteps, RouteResultCarries, StoreResultEnds,
   ReviewRequestEnds, ReviewVerdictEnds DEF CallStep

-----------------------------------------------------------------------------
(* How a row moves: forward, and not at all once its delivery is disposed of. *)
MovesForward(old, new) ==
  /\ new # None
  /\ Rank(new.state) >= Rank(old.state) /\ new.ver >= old.ver
  /\ old.state = "DISPOSITIONED" => new = old

(* A row that stays moves forward, and so does one that is disposed of. *)
LEMMA RowMoves ==
  ASSUME NEW r \in Delivery
  PROVE  /\ MovesForward(r, r)
         /\ \A mid \in AllIds : r.state # "DISPOSITIONED" => MovesForward(r, Disposed(r, mid))
         /\ \A q \in Delivery :
              (/\ r.state \in {"AVAILABLE", "RECEIVED"}
               /\ q.state \in {"RECEIVED", "ACKNOWLEDGED"}
               /\ q.ver >= r.ver) => MovesForward(r, q)
<1>1. /\ \A q \in Delivery : q # None /\ q.ver \in Nat /\ Rank(q.state) \in 0..3
      /\ r.ver \in Nat /\ r # None
      /\ r.state \in {"AVAILABLE", "RECEIVED", "ACKNOWLEDGED", "DISPOSITIONED"}
  BY MessageConstants DEF Delivery, Generation, Rank, MessageConstants
<1>2. /\ Rank("AVAILABLE") = 0 /\ Rank("RECEIVED") = 1
      /\ Rank("ACKNOWLEDGED") = 2 /\ Rank("DISPOSITIONED") = 3
  BY DEF Rank
<1>3. Rank(r.state) \in 0..3
  BY <1>1
<1>4. MovesForward(r, r)
  BY <1>1, <1>3 DEF MovesForward
<1>5. ASSUME NEW mid \in AllIds, r.state # "DISPOSITIONED" PROVE MovesForward(r, Disposed(r, mid))
  BY <1>1, <1>2, <1>3, <1>5, DisposedRow DEF MovesForward
<1>6. ASSUME NEW q \in Delivery, r.state \in {"AVAILABLE", "RECEIVED"},
             q.state \in {"RECEIVED", "ACKNOWLEDGED"}, q.ver >= r.ver
      PROVE  MovesForward(r, q)
  <2>1. Rank(r.state) \in {0, 1} /\ Rank(q.state) \in {1, 2}
    BY <1>2, <1>6
  <2>2. Rank(q.state) >= Rank(r.state)
    BY <2>1
  <2> QED
    BY <2>2, <1>1, <1>6 DEF MovesForward
<1> QED
  BY <1>4, <1>5, <1>6

(* No step takes a delivery or an envelope away, or moves it back. *)
LEMMA MailMovesForward ==
  ASSUME MailInv, MailStep
  PROVE  ForwardOnly
<1>0. /\ messages \in [MessageKey -> Envelope \cup {None}]
      /\ deliveries \in [DeliveryId -> Delivery \cup {None}]
      /\ None \notin Delivery
      /\ \A d \in DeliveryId : Stored(d) => deliveries[d] \in Delivery
  BY MessageConstants, StoredRow DEF MailInv, TablesOK, MessageConstants
<1>1. SUFFICES /\ \A k \in MessageKey : messages[k] # None => messages'[k] = messages[k]
               /\ \A d \in DeliveryId : Stored(d) => MovesForward(deliveries[d], deliveries'[d])
  BY DEF ForwardOnly, MovesForward
<1>2. CASE UNCHANGED <<messages, deliveries>>
  BY <1>0, <1>2, RowMoves
<1>3. ASSUME NEW s \in Endpoints, NEW mid \in AllIds, NEW env \in Envelope, Post(s, mid, env)
      PROVE  /\ \A k \in MessageKey : messages[k] # None => messages'[k] = messages[k]
             /\ \A d \in DeliveryId : Stored(d) => MovesForward(deliveries[d], deliveries'[d])
  <2>1. \A k \in MessageKey : messages[k] # None => messages'[k] = messages[k]
    BY <1>0, <1>3 DEF Post
  <2>2. \A d \in DeliveryId : Stored(d) => deliveries'[d] = deliveries[d]
    <3>1. deliveries \in [DeliveryId -> Delivery \cup {None}]
      BY <1>0
    <3>2. \A d \in DeliveryId : deliveries[d] # None =>
            Delivered(s, mid, env, deliveries)[d] = deliveries[d]
      BY <3>1, DeliveredRows
    <3> QED
      BY <1>3, <3>2 DEF Post, Stored
  <2> QED
    BY <1>0, <2>1, <2>2, RowMoves
<1>4. ASSUME NEW d \in DeliveryId, NEW state \in {"RECEIVED", "ACKNOWLEDGED"}, NEW n \in Names,
             Stamp(d, state, n)
      PROVE  /\ \A k \in MessageKey : messages[k] # None => messages'[k] = messages[k]
             /\ \A e \in DeliveryId : Stored(e) => MovesForward(deliveries[e], deliveries'[e])
  <2> DEFINE r == [deliveries[d] EXCEPT !.state = state, !.ver = mailboxes[n].generation,
                                        !.rgen = mailboxes[n].generation]
  <2>1. deliveries[d] \in Delivery /\ Stored(d) /\ n \in Registered
        /\ deliveries[d].state \in {"AVAILABLE", "RECEIVED"}
        /\ mailboxes[n].endpoint = Recipient(d)
    BY <1>0, <1>4 DEF Stamp
  <2>2. mailboxes[n].generation \in Generation
    BY <2>1, MailboxRow
  <2>3. r \in Delivery /\ r.state = state /\ r.ver = mailboxes[n].generation
    BY <2>1, <2>2 DEF Delivery
  <2>4. mailboxes[n].generation >= deliveries[d].ver
    <3>1. PICK m \in Registered : /\ mailboxes[m].endpoint = Recipient(d)
                                  /\ deliveries[d].ver <= mailboxes[m].generation
      BY <2>1 DEF MailInv, TablesOK, StampNotAhead
    <3>2. m = n
      BY <2>1, <3>1 DEF MailInv, RegistryInv, TableOK, OneNamePerBinding
    <3> QED
      BY <3>1, <3>2
  <2>5. MovesForward(deliveries[d], r)
    BY <2>1, <2>3, <2>4, RowMoves
  <2>6. deliveries' = [deliveries EXCEPT ![d] = r] /\ messages' = messages
    BY <1>4 DEF Stamp
  <2> HIDE DEF r
  <2> QED
    BY <1>0, <2>5, <2>6, RowMoves
<1>5. ASSUME NEW d \in DeliveryId, NEW mid \in AllIds, Close(d, mid)
      PROVE  /\ \A k \in MessageKey : messages[k] # None => messages'[k] = messages[k]
             /\ \A e \in DeliveryId : Stored(e) => MovesForward(deliveries[e], deliveries'[e])
  <2>1. MovesForward(deliveries[d], Disposed(deliveries[d], mid))
    BY <1>0, <1>5, RowMoves DEF Close, Open
  <2> QED
    BY <1>0, <1>5, <2>1, RowMoves DEF Close
<1>6. ASSUME NEW d \in DeliveryId, NEW mid \in MsgIds, NEW env \in Envelope, Answer(d, mid, env)
      PROVE  /\ \A k \in MessageKey : messages[k] # None => messages'[k] = messages[k]
             /\ \A e \in DeliveryId : Stored(e) => MovesForward(deliveries[e], deliveries'[e])
  <2> DEFINE r == Disposed(deliveries[d], mid)
             rows == [deliveries EXCEPT ![d] = r]
  <2>1. /\ mid \in AllIds /\ Recipient(d) \in Endpoints /\ deliveries[d] \in Delivery
        /\ deliveries[d].state # "DISPOSITIONED" /\ deliveries' = Delivered(Recipient(d), mid, env, rows)
    BY <1>0, <1>6, Keys DEF AllIds, Recipient, Answer, Open
  <2>2. MovesForward(deliveries[d], r) /\ r \in Delivery
    BY <2>1, RowMoves, DisposedRow
  <2> HIDE DEF r
  <2>3. rows \in [DeliveryId -> Delivery \cup {None}] /\ rows[d] = r
        /\ \A e \in DeliveryId : e # d => rows[e] = deliveries[e]
    BY <1>0, <2>2
  <2> HIDE DEF rows
  <2>4. \A e \in DeliveryId : rows[e] # None => deliveries'[e] = rows[e]
    <3>1. \A e \in DeliveryId : rows[e] # None =>
            Delivered(Recipient(d), mid, env, rows)[e] = rows[e]
      <4>1. rows \in [DeliveryId -> Delivery \cup {None}] /\ mid \in AllIds /\ Recipient(d) \in Endpoints
        BY <2>1, <2>3
      <4> QED
        BY <4>1, DeliveredRows
    <3> QED
      BY <2>1, <3>1
  <2>5. deliveries'[d] = r /\ \A e \in DeliveryId : Stored(e) /\ e # d => deliveries'[e] = deliveries[e]
    BY <1>0, <2>2, <2>3, <2>4 DEF Stored
  <2>6. \A k \in MessageKey : messages[k] # None => messages'[k] = messages[k]
    BY <1>0, <1>6 DEF Answer
  <2> QED
    BY <1>0, <2>2, <2>5, <2>6, RowMoves
<1> QED
  BY <1>2, <1>3, <1>4, <1>5, <1>6 DEF MailStep

(* Calls keep fitting their stage while the tables and the registry move on. *)
LEMMA FitsIsKept ==
  ASSUME MailInv, TableStep, TableOK', ForwardOnly, NEW x \in CallState, Fits(x)
  PROVE  Fits(x)'
<1>1. TableOK
  BY DEF MailInv, RegistryInv
<1>2. x.to \in Address => x.to.gen \in Nat
  BY DEF Address, Generation
<1>3. x.to \in Address /\ ReachedBy(x.to.endpoint, x.to.gen) =>
        ReachedBy(x.to.endpoint, x.to.gen)'
  BY <1>1, <1>2, ReachedIsKept
<1>4. x.delivery \in DeliveryId /\ Stored(x.delivery) => Stored(x.delivery)'
  BY DEF ForwardOnly, Stored
<1> QED
  BY <1>3, <1>4 DEF Fits

(* The mail's inductive invariant is preserved by every step. *)
LEMMA NextKeepsMail ==
  ASSUME MailInv, [Next]_vars
  PROVE  MailInv' /\ ForwardOnly
<1>0. RegistryInv /\ TableOK /\ MailboxTypeOK /\ TablesOK /\ CallsFit
      /\ call \in [Calls -> CallState \cup {None}]
  BY DEF MailInv, RegistryInv, MailTyped, TableOK
<1>1. ASSUME [MailboxNext]_mailboxVars, UNCHANGED messageVars
      PROVE  MailInv' /\ ForwardOnly
  <2>1. RegistryInv' /\ TableStep /\ TableOK'
    BY <1>0, <1>1, NextKeepsRegistry, NextIsTableStep DEF RegistryInv
  <2>2. MailStep
    BY <1>1 DEF MailStep, messageVars
  <2>3. ForwardOnly
    BY <2>2, MailMovesForward
  <2>4. TablesOK'
    BY <1>0, <1>1, <2>1, QuietKeepsTables DEF messageVars
  <2>5. CallsFit'
    <3>1. SUFFICES ASSUME NEW c \in Calls, call[c] # None PROVE Fits(call[c])'
      BY <1>1 DEF CallsFit, messageVars
    <3>2. call[c] \in CallState /\ Fits(call[c])
      BY <1>0, <3>1 DEF CallsFit
    <3>3. PICK x \in CallState : x = call[c] /\ Fits(x)
      BY <3>2
    <3>4. Fits(x)'
      BY <2>1, <2>3, <3>3, FitsIsKept
    <3> QED
      BY <1>1, <3>3, <3>4 DEF Fits, messageVars
  <2> QED
    BY <1>0, <1>1, <2>1, <2>3, <2>4, <2>5 DEF MailInv, MailTyped, TablesOK, messageVars
<1>2. ASSUME NEW c \in Calls, CallStep(c)
      PROVE  MailInv' /\ ForwardOnly
  <2>1. StepOfCall(c)
    BY <1>2, CallSteps
  <2>2. UNCHANGED <<mailboxes, transfers, retry>> /\ MailStep
    BY <2>1 DEF StepOfCall, Ends, Carries, MailStep, UnchangedRegistry
  <2>3. RegistryInv' /\ TableStep /\ TableOK'
    BY <1>0, <2>2, NextKeepsRegistry, NextIsTableStep DEF RegistryInv, mailboxVars
  <2>4. ForwardOnly /\ TablesOK'
    BY <1>0, <2>2, MailMovesForward, MailStepKeepsTables
  <2>5. PICK y \in CallState \cup {None} : call' = [call EXCEPT ![c] = y] /\ (y # None => Fits(y))
    BY <2>1 DEF StepOfCall, Ends, Carries, Finish
  <2>6. call' \in [Calls -> CallState \cup {None}]
    BY <1>0, <2>5
  <2>7. CallsFit'
    <3>1. SUFFICES ASSUME NEW b \in Calls, call'[b] # None PROVE Fits(call[b])'
      BY DEF CallsFit
    <3>2. PICK x \in CallState : x = call'[b] /\ Fits(x)
      BY <1>0, <2>5, <3>1 DEF CallsFit
    <3>3. Fits(x)'
      BY <2>3, <2>4, <3>2, FitsIsKept
    <3> QED
      BY <3>2, <3>3 DEF Fits
  <2> QED
    BY <2>3, <2>4, <2>6, <2>7 DEF MailInv, MailTyped, TablesOK
<1>3. CASE UNCHANGED vars
  BY <1>1, <1>3 DEF vars, mailboxVars, messageVars
<1> QED
  BY <1>1, <1>2, <1>3 DEF Next

(* At the start nothing is stored and no call is in flight. *)
LEMMA InitMail ==
  ASSUME Init
  PROVE  MailInv
<1>1. RegistryInv
  BY InitTable DEF Init
<1>2. MailTyped /\ CallsFit
  BY DEF Init, MailTyped, CallsFit
<1>3. TablesOK
  <2>1. \A k \in MessageKey : messages[k] = None
    BY DEF Init
  <2>2. \A d \in DeliveryId : deliveries[d] = None /\ RepliesTo(d) = {}
    BY <2>1 DEF Init, RepliesTo
  <2>3. \A k \in MessageKey, e \in Endpoints : <<k[1], k[2], e>> \in DeliveryId
    BY Keys
  <2> QED
    BY <1>2, <2>1, <2>2, <2>3 DEF MailTyped, TablesOK, StoredTogether, OneReply, RepliesFit,
      ReplyDispositionAtomic, StampNotAhead, Stored
<1> QED
  BY <1>1, <1>2, <1>3 DEF MailInv

\* The inductive invariant holds in every reachable state.
LEMMA MailInvariant == Spec => []MailInv
<1>1. Init => MailInv
  BY InitMail
<1>2. MailInv /\ [Next]_vars => MailInv'
  BY NextKeepsMail
<1> QED
  BY <1>1, <1>2, PTL DEF Spec

(* A set with at most one element has at most one element. *)
LEMMA AtMostOne ==
  ASSUME NEW S, \A x, y \in S : x = y
  PROVE  Cardinality(S) <= 1
<1>1. CASE S = {}
  BY <1>1, FS_EmptySet
<1>2. CASE S # {}
  <2>1. PICK x \in S : S = {x}
    BY <1>2
  <2> QED
    BY <2>1, FS_Singleton
<1> QED
  BY <1>1, <1>2

(* However takeovers, transfers, abandoned calls and concurrent answers of    *)
(* mailbox/messages.py interleave: a message and its delivery, a reply and    *)
(* the disposition it causes exist together, a request is answered once and   *)
(* by its recipient, and no row is stamped with a generation still to come.   *)
THEOREM MailStaysWhole == Spec => []MailIsWhole
<1>1. MailInv => MailIsWhole
  <2>1. SUFFICES ASSUME MailInv PROVE MailIsWhole
    OBVIOUS
  <2>2. TypeOK
    BY <2>1 DEF MailInv, RegistryInv, MailTyped, TypeOK
  <2>3. \A d \in DeliveryId : Cardinality(RepliesTo(d)) <= 1
    BY <2>1, AtMostOne DEF MailInv, TablesOK, OneReply
  <2>4. MessageAndDeliveryTogether
    BY <2>1, <2>3 DEF MailInv, TablesOK, StoredTogether, RepliesFit, MessageAndDeliveryTogether
  <2> QED
    BY <2>1, <2>2, <2>4 DEF MailInv, TablesOK, MailIsWhole
<1> QED
  BY <1>1, MailInvariant, PTL

(* No step of mailbox/messages.py or of the registry moves a delivery back or *)
(* changes a stored envelope, and only a call under the binding as it is now   *)
(* moves a delivery: a session that lost its mailbox changes nothing.          *)
THEOREM OnlyTheOwnerMovesMail == Spec => DeliveriesMoveForward
<1>1. MailInv /\ [Next]_vars => [ForwardOnly /\ OldOwnerIsFenced]_vars
  <2>1. SUFFICES ASSUME MailInv, Next PROVE ForwardOnly /\ OldOwnerIsFenced
    OBVIOUS
  <2>2. ForwardOnly
    BY <2>1, NextKeepsMail
  <2>3. CASE UNCHANGED deliveries
    BY <2>2, <2>3 DEF OldOwnerIsFenced
  <2>4. ASSUME NEW c \in Calls, CallStep(c), ~UNCHANGED deliveries
        PROVE  OldOwnerIsFenced
    <3>1. Ends(c)
      BY <2>1, <2>4, CallSteps DEF StepOfCall, Carries
    <3>2. call[c] # None /\ call'[c] = None /\ FencedBy(c)
      BY <2>1, <3>1 DEF Ends, Finish, MailInv, MailTyped
    <3> QED
      BY <3>2 DEF FencedBy, OldOwnerIsFenced
  <2> QED
    BY <2>1, <2>2, <2>3, <2>4 DEF Next, messageVars
<1> QED
  BY <1>1, MailInvariant, PTL DEF Spec, DeliveriesMoveForward
=============================================================================
