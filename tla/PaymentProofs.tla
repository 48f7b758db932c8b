--------------------------- MODULE PaymentProofs ---------------------------
(***************************************************************************)
(* Proofs about payment requests and cancellations, for any peers,         *)
(* objects and streams: types, that what was accepted is accepted again,   *)
(* that nothing is recorded after Close, that payees and payers implement  *)
(* Ledger; and, if an ID names one payee and one payer, that the checks    *)
(* made before a save are enough.                                          *)
(***************************************************************************)
EXTENDS Payment, TLAPS

(* The record of a payer that an exchange leads to.                         *)
Receipt(x, p) == [object |-> x, signer |-> p, direction |-> "inbound"]

(* An exchange goes from one peer to another, and carries what passed       *)
(* VerifySignedObject there.                                                *)
StreamsAddressed ==
    \A s \in Stream : stream[s] # Idle =>
        /\ stream[s].from # stream[s].to
        /\ Verified(stream[s].object, stream[s].from, stream[s].to)

(* What a payer has accepted, it has recorded.                              *)
AnswersBacked ==
    \A s \in Stream : Acknowledged(s) =>
        Receipt(stream[s].object, stream[s].from) \in records[stream[s].to]

RecordsValid == \A p \in Peer : Valid(records[p], p)

(* What a payee has recorded, its payer has.                                *)
OutboundBacked ==
    \A p \in Peer : \A r \in Outbound(records[p]) :
        /\ r.signer = p
        /\ \E q \in Peer : Receipt(r.object, p) \in records[q]

(* Nobody handles an exchange at a peer whose Close has returned.           *)
ClosedQuiet ==
    \A s \in Stream : Handling(s) => life[stream[s].to] # "closed"

IInv ==
    /\ TypeOK
    /\ StreamsAddressed
    /\ AnswersBacked
    /\ RecordsValid
    /\ OutboundBacked
    /\ ClosedQuiet

-----------------------------------------------------------------------------
(* Types.                                                                   *)

LEMMA ExchangeType ==
  ASSUME TypeOK, NEW s \in Stream, stream[s] # Idle
  PROVE  /\ stream[s] \in Exchange
         /\ stream[s].object \in Object
         /\ stream[s].from \in Peer /\ stream[s].to \in Peer
         /\ stream[s].waiting \in BOOLEAN
         /\ stream[s].stage \in {"sent", "handling", "accepted", "refused"}
  BY DEF TypeOK, Exchange

LEMMA RecordFields ==
  ASSUME TypeOK, NEW p \in Peer, NEW r \in records[p]
  PROVE  /\ r.object \in Object /\ r.signer \in Peer
         /\ r.direction \in {"inbound", "outbound"}
         /\ r = [object |-> r.object, signer |-> r.signer, direction |-> r.direction]
  BY DEF TypeOK, Record

LEMMA SendTypes ==
  ASSUME TypeOK, NEW p \in Peer, NEW q \in Peer, NEW x \in Object, SendSigned(p, q, x)
  PROVE  TypeOK'
  <1>1. [object |-> x, from |-> p, to |-> q, waiting |-> TRUE, stage |-> "sent"] \in Exchange
    BY DEF Exchange
  <1> QED
    BY <1>1 DEF SendSigned, TypeOK

LEMMA AnswerTypes ==
  ASSUME TypeOK, NEW s \in Stream, Handling(s), NEW a \in {"accepted", "refused"}, Answer(s, a)
  PROVE  stream' \in [Stream -> Exchange \cup {Idle}]
  <1>1. [object |-> stream[s].object, from |-> stream[s].from, to |-> stream[s].to,
         waiting |-> TRUE, stage |-> a] \in Exchange
    BY ExchangeType DEF Handling, Exchange
  <1> QED
    BY <1>1 DEF Answer, TypeOK

LEMMA WithTypes ==
  ASSUME TypeOK, NEW p \in Peer, NEW s \in Stream, stream[s] # Idle,
         NEW d \in {"inbound", "outbound"}
  PROVE  With(records[p], stream[s].object, stream[s].from, d) \subseteq Record
  BY ExchangeType DEF With, Record, TypeOK

LEMMA TypesInit == ASSUME Init PROVE TypeOK
  BY DEF Init, TypeOK

LEMMA TypesStep == ASSUME TypeOK, [Next]_vars PROVE TypeOK'
  <1>1. ASSUME NEW p \in Peer, NEW r \in Request, SendRequest(p, r) PROVE TypeOK'
    BY <1>1, SendTypes, PaymentAssumption DEF SendRequest, Object
  <1>2. ASSUME NEW p \in Peer, NEW c \in Status, SendStatus(p, c) PROVE TypeOK'
    <2>1. PICK r \in RequestsIn(records[p]) : SendSigned(p, PayerOf[r.object], c)
      BY <1>2 DEF SendStatus
    <2>2. PayerOf[r.object] \in Peer
      BY PaymentAssumption DEF RequestsIn
    <2> QED
      BY <2>1, <2>2, SendTypes DEF Object
  <1>3. ASSUME NEW p \in Peer, NEW c \in Status, NEW q \in Peer, SendSigned(p, q, c) PROVE TypeOK'
    BY <1>3, SendTypes DEF Object
  <1>4. ASSUME NEW s \in Stream, GiveUp(s) PROVE TypeOK'
    <2>1. [stream[s] EXCEPT !.waiting = FALSE] \in Exchange
      BY <1>4, ExchangeType DEF GiveUp, Exchange
    <2>2. stream' = [stream EXCEPT ![s] = [stream[s] EXCEPT !.waiting = FALSE]]
      BY <1>4 DEF GiveUp, TypeOK
    <2> QED
      BY <1>4, <2>1, <2>2 DEF GiveUp, TypeOK
  <1>5. ASSUME NEW s \in Stream, Break(s) PROVE TypeOK'
    BY <1>5 DEF Break, TypeOK
  <1>6. ASSUME NEW s \in Stream, AdmitHandler(s) PROVE TypeOK'
    <2>1. [stream[s] EXCEPT !.stage = "handling"] \in Exchange
      BY <1>6, ExchangeType DEF AdmitHandler, Exchange
    <2>2. stream' = [stream EXCEPT ![s] = [stream[s] EXCEPT !.stage = "handling"]]
      BY <1>6 DEF AdmitHandler, TypeOK
    <2> QED
      BY <1>6, <2>1, <2>2 DEF AdmitHandler, TypeOK
  <1>7. ASSUME NEW s \in Stream, AcceptAgain(s) \/ Refuse(s) PROVE TypeOK'
    <2>1. stream' \in [Stream -> Exchange \cup {Idle}]
      BY <1>7, AnswerTypes DEF AcceptAgain, Refuse
    <2> QED
      BY <1>7, <2>1 DEF AcceptAgain, Refuse, TypeOK
  <1>8. ASSUME NEW s \in Stream, Accept(s) \/ HandlerFails(s) PROVE TypeOK'
    <2>1. stream' \in [Stream -> Exchange \cup {Idle}]
      BY <1>8, AnswerTypes DEF Accept, HandlerFails
    <2>2. stream[s].to \in Peer /\ Received(s) \in SUBSET Record
      BY <1>8, ExchangeType, WithTypes DEF Accept, HandlerFails, Handling, Received
    <2>3. records' \in [Peer -> SUBSET Record]
      BY <1>8, <2>2 DEF Accept, HandlerFails, TypeOK
    <2> QED
      BY <1>8, <2>1, <2>3 DEF Accept, HandlerFails, TypeOK
  <1>9. ASSUME NEW s \in Stream, StoreOutbound(s) PROVE TypeOK'
    <2>1. stream[s].from \in Peer /\ Sent(s) \in SUBSET Record
      BY <1>9, ExchangeType, WithTypes DEF StoreOutbound, Acknowledged, Sent
    <2>2. records' \in [Peer -> SUBSET Record]
      BY <1>9, <2>1 DEF StoreOutbound, TypeOK
    <2> QED
      BY <1>9, <2>2 DEF StoreOutbound, TypeOK
  <1>10. ASSUME NEW p \in Peer, Close(p) \/ Closed(p) PROVE TypeOK'
    BY <1>10 DEF Close, Closed, TypeOK
  <1>11. ASSUME NEW p \in Peer, Restart(p) PROVE TypeOK'
    <2>1. \A s \in Stream : stream'[s] \in Exchange \cup {Idle}
      <3> TAKE s \in Stream
      <3>1. CASE stream[s] = Idle
        BY <1>11, <3>1 DEF Restart
      <3>2. CASE stream[s] # Idle
        <4>1. [object |-> stream[s].object, from |-> p, to |-> stream[s].to,
               waiting |-> FALSE, stage |-> stream[s].stage] \in Exchange
          BY <3>2, ExchangeType DEF Exchange
        <4> QED
          BY <1>11, <3>2, <4>1, ExchangeType DEF Restart
      <3> QED
        BY <3>1, <3>2
    <2>2. stream' \in [Stream -> Exchange \cup {Idle}]
      BY <1>11, <2>1 DEF Restart
    <2> QED
      BY <1>11, <2>2 DEF Restart, TypeOK
  <1>12. ASSUME NEW r \in Request, Expire(r) PROVE TypeOK'
    BY <1>12 DEF Expire, TypeOK
  <1>13. CASE UNCHANGED vars
    BY <1>13 DEF vars, TypeOK
  <1> QED
    BY <1>1, <1>2, <1>3, <1>4, <1>5, <1>6, <1>7, <1>8, <1>9, <1>10, <1>11, <1>12, <1>13 DEF Next

(* Records, streams and lives have the types of the model, whatever is lost *)
(* or fails (Service).                                                      *)
THEOREM PaymentTypes == Spec => []TypeOK
  <1> QED
    BY TypesInit, TypesStep, PTL DEF Spec

-----------------------------------------------------------------------------
(* What steps do.                                                           *)

(* An exchange of s begins in this step.                                    *)
Begins(s) ==
    /\ stream[s] = Idle
    /\ stream'[s].stage = "sent"
    /\ stream'[s].from # stream'[s].to
    /\ Verified(stream'[s].object, stream'[s].from, stream'[s].to)

(* The exchange of s stays, perhaps at another stage.                       *)
GoesOn(s) ==
    /\ stream[s] # Idle
    /\ stream'[s].object = stream[s].object
    /\ stream'[s].from = stream[s].from
    /\ stream'[s].to = stream[s].to
    /\ \/ stream'[s].stage \in {stream[s].stage, "refused"}
       \/ stream'[s].stage = "handling" /\ AdmitHandler(s)
       \/ stream'[s].stage = "accepted" /\ (AcceptAgain(s) \/ Accept(s))

LEMMA SendEffect ==
  ASSUME TypeOK, NEW p \in Peer, NEW q \in Peer, NEW x \in Object, SendSigned(p, q, x),
         NEW s \in Stream, stream'[s] # Idle
  PROVE  Begins(s) \/ GoesOn(s)
  BY DEF SendSigned, Begins, GoesOn, TypeOK

LEMMA AnswerEffect ==
  ASSUME TypeOK, NEW t \in Stream, Handling(t), NEW a \in {"accepted", "refused"}, Answer(t, a),
         a = "accepted" => AcceptAgain(t) \/ Accept(t),
         NEW s \in Stream, stream'[s] # Idle
  PROVE  GoesOn(s)
  <1>1. CASE s = t
    BY <1>1 DEF Answer, Handling, GoesOn, TypeOK
  <1>2. CASE s # t
    BY <1>2 DEF Answer, GoesOn, TypeOK
  <1> QED
    BY <1>1, <1>2

LEMMA StreamEffect ==
  ASSUME TypeOK, [Next]_vars, NEW s \in Stream, stream'[s] # Idle
  PROVE  Begins(s) \/ GoesOn(s)
  <1>1. ASSUME NEW p \in Peer, NEW r \in Request, SendRequest(p, r) PROVE Begins(s) \/ GoesOn(s)
    BY <1>1, SendEffect, PaymentAssumption DEF SendRequest, Object
  <1>2. ASSUME NEW p \in Peer, NEW c \in Status, SendStatus(p, c) PROVE Begins(s) \/ GoesOn(s)
    <2>1. PICK r \in RequestsIn(records[p]) : SendSigned(p, PayerOf[r.object], c)
      BY <1>2 DEF SendStatus
    <2>2. PayerOf[r.object] \in Peer
      BY PaymentAssumption DEF RequestsIn
    <2> QED
      BY <2>1, <2>2, SendEffect DEF Object
  <1>3. ASSUME NEW p \in Peer, NEW c \in Status, NEW q \in Peer, SendSigned(p, q, c)
        PROVE  Begins(s) \/ GoesOn(s)
    BY <1>3, SendEffect DEF Object
  <1>4. ASSUME NEW t \in Stream, GiveUp(t) \/ Break(t) \/ StoreOutbound(t) PROVE GoesOn(s)
    BY <1>4 DEF GiveUp, Break, StoreOutbound, GoesOn, TypeOK, Exchange
  <1>5. ASSUME NEW t \in Stream, AdmitHandler(t) PROVE GoesOn(s)
    <2>1. CASE s = t
      BY <1>5, <2>1 DEF AdmitHandler, GoesOn, TypeOK, Exchange
    <2>2. CASE s # t
      BY <1>5, <2>2 DEF AdmitHandler, GoesOn, TypeOK
    <2> QED
      BY <2>1, <2>2
  <1>6. ASSUME NEW t \in Stream, AcceptAgain(t) \/ Accept(t) PROVE GoesOn(s)
    BY <1>6, AnswerEffect DEF AcceptAgain, Accept
  <1>7. ASSUME NEW t \in Stream, Refuse(t) \/ HandlerFails(t) PROVE GoesOn(s)
    BY <1>7, AnswerEffect DEF Refuse, HandlerFails
  <1>8. ASSUME NEW p \in Peer, Restart(p) PROVE GoesOn(s)
    BY <1>8 DEF Restart, GoesOn
  <1>9. CASE UNCHANGED stream
    BY <1>9 DEF GoesOn
  <1> QED
    BY <1>1, <1>2, <1>3, <1>4, <1>5, <1>6, <1>7, <1>8, <1>9 DEF Next, Close, Closed, Expire, vars

(* A handler records its object at p.                                       *)
Records(s, p) ==
    /\ Handling(s) /\ stream[s].to = p
    /\ Accepts(records[p], stream[s].object, stream[s].from)
    /\ Valid(Received(s), p)
    /\ records' = [records EXCEPT ![p] = Received(s)]

(* A sender records its object at p.                                        *)
Keeps(s, p) ==
    /\ Acknowledged(s) /\ stream[s].from = p
    /\ ~Known(records[p], stream[s].object)
    /\ Stores(records[p], stream[s].object)
    /\ Valid(Sent(s), p)
    /\ records' = [records EXCEPT ![p] = Sent(s)]

LEMMA RecordsEffect ==
  ASSUME TypeOK, [Next]_vars
  PROVE  \/ UNCHANGED records
         \/ \E s \in Stream, p \in Peer : Records(s, p) \/ Keeps(s, p)
  <1>1. ASSUME NEW s \in Stream, Accept(s) \/ HandlerFails(s), records' # records
        PROVE  \E p \in Peer : Records(s, p)
    <2>1. stream[s].to \in Peer
      BY <1>1, ExchangeType DEF Accept, HandlerFails, Handling
    <2>2. Records(s, stream[s].to)
      BY <1>1 DEF Accept, HandlerFails, Records
    <2> QED
      BY <2>1, <2>2
  <1>2. ASSUME NEW s \in Stream, StoreOutbound(s), records' # records
        PROVE  \E p \in Peer : Keeps(s, p)
    <2>1. stream[s].from \in Peer
      BY <1>2, ExchangeType DEF StoreOutbound, Acknowledged
    <2>2. CASE /\ ~Known(records[stream[s].from], stream[s].object)
               /\ Stores(records[stream[s].from], stream[s].object)
               /\ Valid(Sent(s), stream[s].from)
      <3>1. Keeps(s, stream[s].from)
        BY <1>2, <2>1, <2>2 DEF StoreOutbound, Keeps, TypeOK
      <3> QED
        BY <2>1, <3>1
    <2>3. CASE ~(/\ ~Known(records[stream[s].from], stream[s].object)
                 /\ Stores(records[stream[s].from], stream[s].object)
                 /\ Valid(Sent(s), stream[s].from))
      <3>1. records' = [records EXCEPT ![stream[s].from] = records[stream[s].from]]
        BY <1>2, <2>1, <2>3 DEF StoreOutbound, TypeOK
      <3>2. records' = records
        BY <2>1, <3>1 DEF TypeOK
      <3> QED
        BY <1>2, <3>2
    <2> QED
      BY <2>2, <2>3
  <1> QED
    BY <1>1, <1>2 DEF Next, SendRequest, SendStatus, SendSigned, GiveUp, Break, AdmitHandler,
       AcceptAgain, Refuse, Close, Closed, Restart, Expire, vars

(* Nothing recorded is ever lost.                                           *)
LEMMA RecordsGrow ==
  ASSUME TypeOK, [Next]_vars, NEW p \in Peer
  PROVE  records[p] \subseteq records'[p]
  <1>1. ASSUME NEW s \in Stream, NEW q \in Peer, Records(s, q) \/ Keeps(s, q)
        PROVE  records[p] \subseteq records'[p]
    BY <1>1 DEF Records, Keeps, Received, Sent, With, TypeOK
  <1> QED
    BY <1>1, RecordsEffect

-----------------------------------------------------------------------------
(* What the checks imply for a collection that is valid.                    *)

(* What p has recorded as a payer passes the checks of a repetition.        *)
LEMMA RecordedPasses ==
  ASSUME NEW R \in SUBSET Record, NEW p \in Peer, Valid(R, p),
         NEW x \in Object, NEW q \in Peer, Receipt(x, q) \in R
  PROVE  AcceptsAgain(R, x, q)
  <1> DEFINE r == Receipt(x, q)
  <1>1. r.object = x /\ r.signer = q /\ r.direction = "inbound" /\ r \in R
    BY DEF Receipt
  <1> HIDE DEF r
  <1>2. Known(R, x)
    BY <1>1 DEF Known
  <1>3. CASE x \in Request
    <2>1. \A y \in RequestsIn(R) :
             y = r \/ (IdOf[y.object] # IdOf[x] /\ NonceOf[y.object] # NonceOf[x])
      BY <1>1, <1>3 DEF Valid, RequestsIn
    <2>2. ~Replays(R, x)
      BY <1>1, <1>3, <2>1 DEF Replays, RequestsIn
    <2> QED
      BY <1>2, <1>3, <2>2, PaymentAssumption DEF AcceptsAgain
  <1>4. CASE x \in Status
    <2>1. r \in StatusesIn(R) /\ x \notin Request
      BY <1>1, <1>4, PaymentAssumption DEF StatusesIn
    <2>2. \A y \in StatusesIn(R) :
             y = r \/ (EventOf[y.object] # EventOf[x] /\ NonceOf[y.object] # NonceOf[x])
      BY <1>1, <2>1 DEF Valid
    <2>3. ~Replays(R, x)
      BY <1>1, <2>1, <2>2 DEF Replays
    <2>4. /\ {y \in RequestsIn(R) : IdOf[y.object] = IdOf[x]} # {}
          /\ \A y \in RequestsIn(R) : IdOf[y.object] = IdOf[x] =>
                 PayeeOf[y.object] = q /\ NonceOf[y.object] # NonceOf[x]
      BY <1>1, <2>1 DEF Valid
    <2>5. Linked(R, x, q)
      BY <2>4 DEF Linked
    <2> QED
      BY <1>2, <2>3, <2>5 DEF AcceptsAgain
  <1> QED
    BY <1>3, <1>4 DEF Object

(* And what passes them is recorded so: it was not sent by p itself.        *)
LEMMA PassingIsRecorded ==
  ASSUME NEW R \in SUBSET Record, NEW p \in Peer, Valid(R, p),
         NEW x \in Object, NEW q \in Peer, q # p, Verified(x, q, p), AcceptsAgain(R, x, q)
  PROVE  Receipt(x, q) \in R
  <1>1. PICK r \in R : r.object = x
    BY DEF AcceptsAgain, Known
  <1>2. r.direction \in {"inbound", "outbound"}
    BY DEF Record
  <1>3. r = [object |-> r.object, signer |-> r.signer, direction |-> r.direction]
    BY DEF Record
  <1>4. CASE x \in Request
    <2>1. r \in RequestsIn(R) /\ PayeeOf[x] = q
      BY <1>1, <1>4 DEF RequestsIn, Verified
    <2>2. r.signer = q /\ r.direction # "outbound"
      BY <1>1, <2>1 DEF Valid
    <2> QED
      BY <1>1, <1>2, <1>3, <2>2 DEF Receipt
  <1>5. CASE x \in Status
    <2>1. r \in StatusesIn(R)
      BY <1>1, <1>5 DEF StatusesIn
    <2>2. PICK y \in RequestsIn(R) : IdOf[y.object] = IdOf[x] /\ PayeeOf[y.object] = q
      BY <1>5 DEF AcceptsAgain, Linked
    <2>3. /\ r.direction = "outbound" => r.signer = p
          /\ \A z \in RequestsIn(R) : IdOf[z.object] = IdOf[r.object] =>
                 PayeeOf[z.object] = r.signer
      BY <2>1 DEF Valid
    <2>4. r.signer = q /\ r.direction # "outbound"
      BY <1>1, <2>2, <2>3
    <2> QED
      BY <1>1, <1>2, <1>3, <2>4 DEF Receipt
  <1> QED
    BY <1>4, <1>5 DEF Object

-----------------------------------------------------------------------------
(* The invariant.                                                           *)

LEMMA StepAddressed == ASSUME IInv, [Next]_vars PROVE StreamsAddressed'
  <1> SUFFICES ASSUME NEW s \in Stream, stream'[s] # Idle
               PROVE  /\ stream'[s].from # stream'[s].to
                      /\ Verified(stream'[s].object, stream'[s].from, stream'[s].to)
    BY DEF StreamsAddressed, Verified
  <1>1. Begins(s) \/ GoesOn(s)
    BY StreamEffect DEF IInv
  <1> QED
    BY <1>1 DEF Begins, GoesOn, IInv, StreamsAddressed

LEMMA AcceptBacks ==
  ASSUME IInv, NEW s \in Stream, AcceptAgain(s) \/ Accept(s)
  PROVE  Receipt(stream[s].object, stream[s].from) \in records'[stream[s].to]
  <1>1. /\ stream[s] # Idle
        /\ stream[s].object \in Object /\ stream[s].from \in Peer /\ stream[s].to \in Peer
    BY ExchangeType DEF IInv, AcceptAgain, Accept, Handling
  <1>2. CASE AcceptAgain(s)
    <2>1. /\ stream[s].from # stream[s].to
          /\ Verified(stream[s].object, stream[s].from, stream[s].to)
      BY <1>1 DEF IInv, StreamsAddressed
    <2>2. records[stream[s].to] \in SUBSET Record /\ Valid(records[stream[s].to], stream[s].to)
      BY <1>1 DEF IInv, TypeOK, RecordsValid
    <2>3. Receipt(stream[s].object, stream[s].from) \in records[stream[s].to]
      BY <1>1, <1>2, <2>1, <2>2, PassingIsRecorded DEF AcceptAgain
    <2> QED
      BY <1>2, <2>3 DEF AcceptAgain
  <1>3. CASE Accept(s)
    BY <1>1, <1>3 DEF Accept, Received, With, Receipt, IInv, TypeOK
  <1> QED
    BY <1>2, <1>3

LEMMA StepBacked == ASSUME IInv, [Next]_vars PROVE AnswersBacked'
  <1> SUFFICES ASSUME NEW s \in Stream, stream'[s] # Idle, stream'[s].stage = "accepted"
               PROVE  Receipt(stream'[s].object, stream'[s].from) \in records'[stream'[s].to]
    BY DEF AnswersBacked, Acknowledged, Receipt
  <1>1. GoesOn(s)
    BY StreamEffect DEF IInv, Begins
  <1>2. CASE stream[s].stage = "accepted"
    <2>1. Receipt(stream[s].object, stream[s].from) \in records[stream[s].to]
      BY <1>1, <1>2 DEF IInv, AnswersBacked, Acknowledged, GoesOn
    <2>2. stream[s].to \in Peer
      BY <1>1, ExchangeType DEF IInv, GoesOn
    <2> QED
      BY <1>1, <2>1, <2>2, RecordsGrow DEF IInv, GoesOn
  <1>3. CASE AcceptAgain(s) \/ Accept(s)
    BY <1>1, <1>3, AcceptBacks DEF GoesOn
  <1> QED
    BY <1>1, <1>2, <1>3 DEF GoesOn

LEMMA StepValid == ASSUME IInv, [Next]_vars PROVE RecordsValid'
  <1> SUFFICES ASSUME NEW p \in Peer PROVE Valid(records'[p], p)
    BY DEF RecordsValid, Valid, RequestsIn, StatusesIn
  <1>1. Valid(records[p], p)
    BY DEF IInv, RecordsValid
  <1>2. ASSUME NEW s \in Stream, NEW q \in Peer, Records(s, q) \/ Keeps(s, q)
        PROVE  Valid(records'[p], p)
    <2>1. CASE p = q
      BY <1>2, <2>1 DEF Records, Keeps, IInv, TypeOK
    <2>2. CASE p # q
      BY <1>1, <1>2, <2>2 DEF Records, Keeps, IInv, TypeOK
    <2> QED
      BY <2>1, <2>2
  <1> QED
    BY <1>1, <1>2, RecordsEffect DEF IInv

LEMMA StepOutbound == ASSUME IInv, [Next]_vars PROVE OutboundBacked'
  <1> SUFFICES ASSUME NEW p \in Peer, NEW r \in records'[p], r.direction = "outbound"
               PROVE  /\ r.signer = p
                      /\ \E q \in Peer : Receipt(r.object, p) \in records'[q]
    BY DEF OutboundBacked, Outbound, Receipt
  <1>1. CASE r \in records[p]
    <2>1. r.signer = p /\ \E q \in Peer : Receipt(r.object, p) \in records[q]
      BY <1>1 DEF IInv, OutboundBacked, Outbound
    <2> QED
      BY <2>1, RecordsGrow DEF IInv
  <1>2. CASE r \notin records[p]
    <2>1. PICK s \in Stream, q \in Peer : Records(s, q) \/ Keeps(s, q)
      BY <1>2, RecordsEffect DEF IInv
    <2>2. p = q
      BY <1>2, <2>1 DEF Records, Keeps, IInv, TypeOK
    <2>3. r.object = stream[s].object /\ r.signer = p /\ Acknowledged(s) /\ stream[s].from = p
      BY <1>2, <2>1, <2>2 DEF Records, Keeps, Received, Sent, With, IInv, TypeOK
    <2>4. Receipt(r.object, p) \in records[stream[s].to] /\ stream[s].to \in Peer
      BY <2>3, ExchangeType DEF IInv, AnswersBacked, Acknowledged
    <2> QED
      BY <2>3, <2>4, RecordsGrow DEF IInv
  <1> QED
    BY <1>1, <1>2

(* Close waits for the handlers, and admits none.                           *)
LEMMA StepQuiet == ASSUME IInv, [Next]_vars PROVE ClosedQuiet'
  <1> SUFFICES ASSUME NEW s \in Stream, stream'[s] # Idle, stream'[s].stage = "handling",
                      life'[stream'[s].to] = "closed"
               PROVE  FALSE
    BY DEF ClosedQuiet, Handling
  <1>1. GoesOn(s)
    BY StreamEffect DEF IInv, Begins
  <1>2. stream[s].to \in Peer /\ stream'[s].to = stream[s].to
    BY <1>1, ExchangeType DEF IInv, GoesOn
  <1>3. CASE AdmitHandler(s)
    BY <1>2, <1>3 DEF AdmitHandler
  <1>4. CASE stream[s].stage = "handling"
    <2>1. Handling(s) /\ life[stream[s].to] # "closed"
      BY <1>1, <1>4 DEF GoesOn, Handling, IInv, ClosedQuiet
    <2>2. PICK p \in Peer : Closed(p) /\ life' = [life EXCEPT ![p] = "closed"] /\ stream[s].to = p
      <3>1. ASSUME NEW p \in Peer, Closed(p) PROVE stream[s].to = p
        BY <1>2, <2>1, <3>1 DEF Closed, IInv, TypeOK
      <3>2. ASSUME NEW p \in Peer, Close(p) \/ Restart(p) PROVE FALSE
        BY <1>2, <2>1, <3>2 DEF Close, Restart, IInv, TypeOK
      <3>3. CASE UNCHANGED life
        BY <1>2, <2>1, <3>3
      <3> QED
        BY <3>1, <3>2, <3>3 DEF Closed, Next, SendRequest, SendStatus, SendSigned, GiveUp, Break,
           AdmitHandler, AcceptAgain, Accept, Refuse, HandlerFails, StoreOutbound, Expire, vars
    <2> QED
      BY <2>1, <2>2 DEF Closed
  <1> QED
    BY <1>1, <1>3, <1>4 DEF GoesOn

LEMMA InvariantInit == ASSUME Init PROVE IInv
  <1>1. \A p \in Peer : records[p] = {}
    BY DEF Init
  <1>2. \A s \in Stream : stream[s] = Idle
    BY DEF Init
  <1>3. RecordsValid
    BY <1>1 DEF RecordsValid, Valid, RequestsIn, StatusesIn
  <1> QED
    BY <1>1, <1>2, <1>3, TypesInit DEF IInv, StreamsAddressed, AnswersBacked, Acknowledged,
       OutboundBacked, Outbound, ClosedQuiet, Handling

LEMMA InvariantStep == ASSUME IInv, [Next]_vars PROVE IInv'
  BY TypesStep, StepAddressed, StepBacked, StepValid, StepOutbound, StepQuiet DEF IInv

(* An accepted answer, a payee's record and a closed service mean what they *)
(* should, at any time.                                                     *)
THEOREM PaymentInvariant == Spec => []IInv
  <1> QED
    BY InvariantInit, InvariantStep, PTL DEF Spec

-----------------------------------------------------------------------------
(* Steps that may never happen.                                             *)

LEMMA ItemRecorded ==
  ASSUME TypeOK, NEW p \in Peer, NEW x, NEW q,
         [object |-> x, signer |-> q] \in Items(Inbound(records[p]))
  PROVE  Receipt(x, q) \in records[p]
  <1>1. PICK r \in records[p] : /\ r.direction = "inbound"
                               /\ [object |-> x, signer |-> q] = [object |-> r.object, signer |-> r.signer]
    BY DEF Items, Inbound
  <1>2. r.object = x /\ r.signer = q
    BY <1>1
  <1> QED
    BY <1>1, <1>2, RecordFields DEF Receipt

(* An object that a payer has recorded passes every check of a repetition,  *)
(* as long as the collection is valid.                                      *)
THEOREM PaymentAcceptedForGood == Spec => AcceptedForGood
  <1>1. ASSUME IInv, NEW s \in Stream, Refuse(s)
        PROVE  [object |-> stream[s].object, signer |-> stream[s].from]
                  \notin Items(Inbound(records[stream[s].to]))
    <2>1. /\ stream[s].object \in Object
          /\ stream[s].from \in Peer /\ stream[s].to \in Peer
      BY <1>1, ExchangeType DEF IInv, Refuse, Handling
    <2>2. records[stream[s].to] \in SUBSET Record /\ Valid(records[stream[s].to], stream[s].to)
      BY <1>1, <2>1 DEF IInv, TypeOK, RecordsValid
    <2>3. Receipt(stream[s].object, stream[s].from) \notin records[stream[s].to]
      BY <1>1, <2>1, <2>2, RecordedPasses DEF Refuse
    <2> QED
      BY <1>1, <2>1, <2>3, ItemRecorded DEF IInv
  <1>2. IInv /\ [Next]_vars =>
          [\A s \in Stream :
             Refuse(s) =>
               [object |-> stream[s].object, signer |-> stream[s].from]
                  \notin Items(Inbound(records[stream[s].to]))]_vars
    BY <1>1
  <1> QED
    BY <1>2, PaymentInvariant, PTL DEF Spec, AcceptedForGood

(* After Close has returned, its service records nothing for a payer: a     *)
(* handler that is still under way would be at another peer.                *)
THEOREM PaymentQuietAfterClose == Spec => QuietAfterClose
  <1>1. ASSUME IInv, [Next]_vars, NEW p \in Peer, life[p] = "closed"
        PROVE  Inbound(records'[p]) = Inbound(records[p])
    <2>1. CASE UNCHANGED records
      BY <2>1
    <2>2. ASSUME NEW s \in Stream, NEW q \in Peer, Records(s, q)
          PROVE  records'[p] = records[p]
      <3>1. p # q
        BY <1>1, <2>2 DEF Records, IInv, ClosedQuiet
      <3> QED
        BY <1>1, <2>2, <3>1 DEF Records, IInv, TypeOK
    <2>3. ASSUME NEW s \in Stream, NEW q \in Peer, Keeps(s, q)
          PROVE  Inbound(records'[p]) = Inbound(records[p])
      <3>1. CASE p = q
        <4>1. records'[p] =
                records[p] \cup {[object |-> stream[s].object, signer |-> stream[s].from,
                                  direction |-> "outbound"]}
          BY <1>1, <2>3, <3>1 DEF Keeps, Sent, With, IInv, TypeOK
        <4> QED
          BY <4>1 DEF Inbound
      <3>2. CASE p # q
        BY <1>1, <2>3, <3>2 DEF Keeps, IInv, TypeOK
      <3> QED
        BY <3>1, <3>2
    <2> QED
      BY <1>1, <2>1, <2>2, <2>3, RecordsEffect DEF IInv
  <1>2. IInv /\ [Next]_vars =>
          [\A p \in Peer : life[p] = "closed" =>
             Inbound(records'[p]) = Inbound(records[p])]_vars
    BY <1>1
  <1> QED
    BY <1>2, PaymentInvariant, PTL DEF Spec, QuietAfterClose

-----------------------------------------------------------------------------
(* The refinement.                                                          *)

Accepted == [p \in Peer |-> Items(Inbound(records[p]))]
Recorded == [p \in Peer |-> Items(Outbound(records[p]))]

(* What one more record does to the items.                                  *)
LEMMA InboundItems ==
  ASSUME NEW R, NEW x, NEW q
  PROVE  /\ Items(Inbound(With(R, x, q, "inbound")))
               = Items(Inbound(R)) \cup {[object |-> x, signer |-> q]}
         /\ Outbound(With(R, x, q, "inbound")) = Outbound(R)
  <1> DEFINE r == [object |-> x, signer |-> q, direction |-> "inbound"]
  <1>1. With(R, x, q, "inbound") = R \cup {r}
    BY DEF With
  <1>2. Inbound(R \cup {r}) = Inbound(R) \cup {r} /\ Outbound(R \cup {r}) = Outbound(R)
    BY DEF Inbound, Outbound
  <1>3. r.object = x /\ r.signer = q
    OBVIOUS
  <1> HIDE DEF r
  <1> QED
    BY <1>1, <1>2, <1>3 DEF Items

LEMMA OutboundItems ==
  ASSUME NEW R, NEW x, NEW q
  PROVE  /\ Items(Outbound(With(R, x, q, "outbound")))
               = Items(Outbound(R)) \cup {[object |-> x, signer |-> q]}
         /\ Inbound(With(R, x, q, "outbound")) = Inbound(R)
  <1> DEFINE r == [object |-> x, signer |-> q, direction |-> "outbound"]
  <1>1. With(R, x, q, "outbound") = R \cup {r}
    BY DEF With
  <1>2. Outbound(R \cup {r}) = Outbound(R) \cup {r} /\ Inbound(R \cup {r}) = Inbound(R)
    BY DEF Inbound, Outbound
  <1>3. r.object = x /\ r.signer = q
    OBVIOUS
  <1> HIDE DEF r
  <1> QED
    BY <1>1, <1>2, <1>3 DEF Items

(* What a handler records is an acceptance of Ledger.                       *)
LEMMA RecordsAccepts ==
  ASSUME IInv, NEW s \in Stream, NEW p \in Peer, Records(s, p)
  PROVE  L!Next
  <1> DEFINE x == stream[s].object
             q == stream[s].from
             i == [object |-> x, signer |-> q]
             R == records[p]
  <1>1. /\ x \in Object /\ q \in Peer /\ q # p /\ Verified(x, q, p)
        /\ R \in SUBSET Record /\ Valid(R, p) /\ Accepts(R, x, q)
        /\ records' = [records EXCEPT ![p] = With(R, x, q, "inbound")]
    BY ExchangeType DEF Records, Received, Handling, IInv, TypeOK, RecordsValid, StreamsAddressed
  <1> HIDE DEF x, q, R
  <1>2. i \in L!Item /\ i.object = x /\ i.signer = q
    BY <1>1 DEF L!Item, Object
  <1>3. Accepted' = [Accepted EXCEPT ![p] = @ \cup {i}] /\ Recorded' = Recorded
    <2>1. \A o \in Peer : records'[o] = IF o = p THEN With(R, x, q, "inbound") ELSE records[o]
      BY <1>1 DEF IInv, TypeOK
    <2>2. \A o \in Peer : Items(Inbound(records'[o])) =
                IF o = p THEN Items(Inbound(R)) \cup {i} ELSE Items(Inbound(records[o]))
      BY <2>1, InboundItems
    <2>3. \A o \in Peer : Outbound(records'[o]) = Outbound(records[o])
      BY <2>1, InboundItems DEF R
    <2> QED
      BY <2>2, <2>3 DEF Accepted, Recorded, Items, Inbound, R
  <1>4. \A j \in Accepted[p] : \E r \in R :
            r.direction = "inbound" /\ j.object = r.object /\ j.signer = r.signer
    BY DEF Accepted, Items, Inbound, R
  <1>5. CASE x \in Request
    <2>1. PayerOf[x] = p /\ PayeeOf[x] = q
      BY <1>1, <1>5 DEF Verified
    <2>2. \A r \in R : r.object \in Request =>
             IdOf[r.object] # IdOf[x] /\ NonceOf[r.object] # NonceOf[x]
      BY <1>1, <1>5 DEF Accepts, Known, Replays, RequestsIn
    <2>3. \A j \in Accepted[p] : j.object \in Request =>
             IdOf[j.object] # IdOf[x] /\ NonceOf[j.object] # NonceOf[x]
      BY <1>4, <2>2
    <2>4. L!AcceptRequest(p, i)
      BY <1>2, <1>3, <1>5, <2>1, <2>3 DEF L!AcceptRequest, Accepted, Recorded
    <2> QED
      BY <1>2, <2>4 DEF L!Next
  <1>6. CASE x \in Status
    <2>1. Linked(R, x, q) /\ ~Terminal(R, x)
      BY <1>1, <1>6 DEF Accepts
    <2>2. PICK r \in R : r.object \in Request /\ IdOf[r.object] = IdOf[x] /\ PayeeOf[r.object] = q
      BY <2>1 DEF Linked, RequestsIn
    <2>3. r.signer = q /\ r.direction = "inbound"
      BY <1>1, <2>2 DEF Valid, RequestsIn, Record
    <2>4. [object |-> r.object, signer |-> q] \in Accepted[p]
      BY <2>2, <2>3 DEF Accepted, Items, Inbound, R
    <2>5. \E j \in Accepted[p] : j.object \in Request /\ IdOf[j.object] = IdOf[x] /\ j.signer = q
      BY <2>2, <2>4
    <2>6. \A t \in R : t.object \in Status => IdOf[t.object] # IdOf[x]
      BY <1>1, <2>1 DEF Terminal, StatusesIn, Accepts, Known
    <2>7. \A j \in Accepted[p] : j.object \in Status => IdOf[j.object] # IdOf[x]
      BY <1>4, <2>6
    <2>8. L!AcceptStatus(p, i)
      BY <1>2, <1>3, <1>6, <2>5, <2>7 DEF L!AcceptStatus, Accepted, Recorded
    <2> QED
      BY <1>2, <2>8 DEF L!Next
  <1> QED
    BY <1>1, <1>5, <1>6 DEF Object

(* What a sender records is known to Ledger.                                *)
LEMMA KeepsRecords ==
  ASSUME IInv, NEW s \in Stream, NEW p \in Peer, Keeps(s, p)
  PROVE  L!Next
  <1> DEFINE x == stream[s].object
             q == stream[s].to
             i == [object |-> x, signer |-> p]
             R == records[p]
  <1>1. /\ x \in Object /\ q \in Peer /\ R \in SUBSET Record
        /\ ~Known(R, x) /\ Stores(R, x)
        /\ Receipt(x, p) \in records[q]
        /\ records' = [records EXCEPT ![p] = With(R, x, p, "outbound")]
    BY ExchangeType DEF Keeps, Sent, Acknowledged, IInv, TypeOK, AnswersBacked
  <1> HIDE DEF x, q, R
  <1>2. i \in L!Item /\ i.object = x /\ i.signer = p
    BY <1>1 DEF L!Item, Object
  <1>3. Recorded' = [Recorded EXCEPT ![p] = @ \cup {i}] /\ Accepted' = Accepted
    <2>1. \A o \in Peer : records'[o] = IF o = p THEN With(R, x, p, "outbound") ELSE records[o]
      BY <1>1 DEF IInv, TypeOK
    <2>2. \A o \in Peer : Items(Outbound(records'[o])) =
                IF o = p THEN Items(Outbound(R)) \cup {i} ELSE Items(Outbound(records[o]))
      BY <2>1, OutboundItems
    <2>3. \A o \in Peer : Inbound(records'[o]) = Inbound(records[o])
      BY <2>1, OutboundItems DEF R
    <2> QED
      BY <2>2, <2>3 DEF Accepted, Recorded, Items, Outbound, R
  <1>4. i \in Accepted[q]
    BY <1>1 DEF Accepted, Items, Inbound, Receipt
  <1>5. \A j \in Recorded[p] : \E r \in R : j.object = r.object
    BY DEF Recorded, Items, Outbound, R
  <1>6. \A j \in Recorded[p] : j.object \in Status /\ x \in Status => IdOf[j.object] # IdOf[x]
    BY <1>1, <1>5 DEF Stores, Terminal, Known, StatusesIn
  <1>7. L!Record(p, i)
    BY <1>1, <1>2, <1>3, <1>4, <1>6 DEF L!Record, Accepted, Recorded
  <1> QED
    BY <1>2, <1>7 DEF L!Next

LEMMA LedgerInit == ASSUME Init PROVE L!Init
  BY DEF Init, L!Init, Items, Inbound, Outbound

LEMMA LedgerStep == ASSUME IInv, [Next]_vars PROVE [L!Next]_<<Accepted, Recorded>>
  <1>1. CASE UNCHANGED records
    BY <1>1 DEF Accepted, Recorded
  <1> QED
    BY <1>1, RecordsEffect, RecordsAccepts, KeepsRecords DEF IInv

(* Payees and payers implement Ledger: the only steps that change records   *)
(* are a payer's acceptance and a payee's record of it.                     *)
THEOREM PaymentImplementsLedger == Spec => ImplementsLedger
  <1>1. Init => L!Init
    BY LedgerInit
  <1>2. IInv /\ [Next]_vars => [L!Next]_<<Accepted, Recorded>>
    BY LedgerStep
  <1> QED
    BY <1>1, <1>2, PaymentInvariant, PTL DEF Spec, ImplementsLedger, L!Spec, Accepted, Recorded

-----------------------------------------------------------------------------
(* The checks before a save.                                                *)

(* A request ID names one payee and one payer: IDs are drawn at random by   *)
(* whoever makes a request, and nobody checks more than that they differ    *)
(* within one collection.                                                   *)
IdsIdentify ==
    \A r, t \in Request : IdOf[r] = IdOf[t] => PayeeOf[r] = PayeeOf[t] /\ PayerOf[r] = PayerOf[t]

(* A cancellation that p has recorded as payee was checked by the payer     *)
(* against the request, whether or not p knows that the request arrived.    *)
LEMMA OutboundLinked ==
  ASSUME IInv, NEW p \in Peer, NEW c \in records[p], c.object \in Status,
         c.direction = "outbound"
  PROVE  /\ c.signer = p
         /\ \E q \in Peer :
               /\ Receipt(c.object, p) \in records[q]
               /\ \E r \in RequestsIn(records[q]) : IdOf[r.object] = IdOf[c.object]
               /\ \A r \in RequestsIn(records[q]) : IdOf[r.object] = IdOf[c.object] =>
                     /\ PayeeOf[r.object] = p /\ PayerOf[r.object] = q
                     /\ NonceOf[r.object] # NonceOf[c.object]
  <1>1. PICK q \in Peer : c.signer = p /\ Receipt(c.object, p) \in records[q]
    BY DEF IInv, OutboundBacked, Outbound
  <1> DEFINE d == Receipt(c.object, p)
  <1>2. d \in StatusesIn(records[q]) /\ d.object = c.object /\ d.signer = p /\ d.direction = "inbound"
    BY <1>1 DEF StatusesIn, Receipt
  <1> HIDE DEF d
  <1>3. Valid(records[q], q)
    BY DEF IInv, RecordsValid
  <1>4. /\ {r \in RequestsIn(records[q]) : IdOf[r.object] = IdOf[c.object]} # {}
        /\ \A r \in RequestsIn(records[q]) : IdOf[r.object] = IdOf[c.object] =>
              /\ PayeeOf[r.object] = p /\ PayerOf[r.object] = q
              /\ NonceOf[r.object] # NonceOf[c.object]
    BY <1>2, <1>3 DEF Valid
  <1> QED
    BY <1>1, <1>4

(* A new request against what is recorded already.                          *)
LEMMA RequestSuffices ==
  ASSUME NEW R \in SUBSET Record, NEW p \in Peer, Valid(R, p),
         NEW x \in Request, NEW q \in Peer, NEW d \in {"inbound", "outbound"},
         ~Known(R, x), ~Replays(R, x), PayeeOf[x] = q,
         d = "inbound" => PayerOf[x] = p, d = "outbound" => q = p,
         \A c \in StatusesIn(R) : IdOf[c.object] = IdOf[x] /\ c.direction = "outbound" =>
             q = c.signer /\ NonceOf[x] # NonceOf[c.object]
  PROVE  Valid(With(R, x, q, d), p)
  <1> DEFINE n == [object |-> x, signer |-> q, direction |-> d]
             S == With(R, x, q, d)
  <1>1. n.object = x /\ n.signer = q /\ n.direction = d /\ S = R \cup {n}
    BY DEF With
  <1> HIDE DEF n, S
  <1>2. RequestsIn(S) = RequestsIn(R) \cup {n} /\ StatusesIn(S) = StatusesIn(R)
    BY <1>1, PaymentAssumption DEF RequestsIn, StatusesIn
  <1>3. /\ \A r \in R : r.object # x
        /\ \A r \in RequestsIn(R) : IdOf[r.object] # IdOf[x] /\ NonceOf[r.object] # NonceOf[x]
    BY DEF Known, Replays, RequestsIn
  <1>4. \A r \in RequestsIn(S) :
           /\ PayeeOf[r.object] = r.signer
           /\ r.direction = "inbound" => PayerOf[r.object] = p
           /\ r.direction = "outbound" => PayeeOf[r.object] = p
    BY <1>1, <1>2 DEF Valid
  <1>5. \A r, t \in S : r.object = t.object => r = t
    BY <1>1, <1>3 DEF Valid
  <1>6. \A r, t \in RequestsIn(S) :
           r = t \/ (IdOf[r.object] # IdOf[t.object] /\ NonceOf[r.object] # NonceOf[t.object])
    BY <1>1, <1>2, <1>3 DEF Valid
  <1>7. \A c \in StatusesIn(S) :
           LET linked == {r \in RequestsIn(S) : IdOf[r.object] = IdOf[c.object]} IN
           /\ c.direction = "inbound" => linked # {}
           /\ c.direction = "outbound" => c.signer = p
           /\ \A r \in linked :
                  /\ PayeeOf[r.object] = c.signer
                  /\ NonceOf[r.object] # NonceOf[c.object]
                  /\ c.direction = "inbound" => PayerOf[r.object] = p
    <2> SUFFICES ASSUME NEW c \in StatusesIn(R)
                 PROVE  /\ c.direction = "inbound" =>
                              \E r \in RequestsIn(S) : IdOf[r.object] = IdOf[c.object]
                        /\ c.direction = "outbound" => c.signer = p
                        /\ \A r \in RequestsIn(S) : IdOf[r.object] = IdOf[c.object] =>
                              /\ PayeeOf[r.object] = c.signer
                              /\ NonceOf[r.object] # NonceOf[c.object]
                              /\ c.direction = "inbound" => PayerOf[r.object] = p
      BY <1>2
    <2>1. /\ c.direction = "inbound" => \E r \in RequestsIn(R) : IdOf[r.object] = IdOf[c.object]
          /\ c.direction = "outbound" => c.signer = p
          /\ \A r \in RequestsIn(R) : IdOf[r.object] = IdOf[c.object] =>
                /\ PayeeOf[r.object] = c.signer
                /\ NonceOf[r.object] # NonceOf[c.object]
                /\ c.direction = "inbound" => PayerOf[r.object] = p
      BY DEF Valid
    <2>2. c.direction \in {"inbound", "outbound"}
      BY DEF StatusesIn, Record
    <2>3. IdOf[c.object] = IdOf[x] => c.direction = "outbound" /\ PayeeOf[x] = c.signer /\ NonceOf[x] # NonceOf[c.object]
      BY <1>3, <2>1, <2>2
    <2> QED
      BY <1>1, <1>2, <2>1, <2>2, <2>3
  <1>8. \A c, t \in StatusesIn(S) :
           \/ c = t
           \/ /\ IdOf[c.object] # IdOf[t.object]
              /\ NonceOf[c.object] # NonceOf[t.object]
              /\ EventOf[c.object] # EventOf[t.object]
    BY <1>2 DEF Valid
  <1> QED
    BY <1>4, <1>5, <1>6, <1>7, <1>8 DEF Valid, S

(* A new cancellation against what is recorded already.                     *)
LEMMA StatusSuffices ==
  ASSUME NEW R \in SUBSET Record, NEW p \in Peer, Valid(R, p),
         NEW x \in Status, NEW q \in Peer, NEW d \in {"inbound", "outbound"},
         ~Known(R, x), ~Replays(R, x), ~Terminal(R, x),
         d = "inbound" => \E r \in RequestsIn(R) : IdOf[r.object] = IdOf[x],
         d = "outbound" => q = p,
         \A r \in RequestsIn(R) : IdOf[r.object] = IdOf[x] =>
             /\ PayeeOf[r.object] = q /\ NonceOf[r.object] # NonceOf[x]
             /\ d = "inbound" => PayerOf[r.object] = p
  PROVE  Valid(With(R, x, q, d), p)
  <1> DEFINE n == [object |-> x, signer |-> q, direction |-> d]
             S == With(R, x, q, d)
  <1>1. n.object = x /\ n.signer = q /\ n.direction = d /\ S = R \cup {n}
    BY DEF With
  <1> HIDE DEF n, S
  <1>2. RequestsIn(S) = RequestsIn(R) /\ StatusesIn(S) = StatusesIn(R) \cup {n}
    BY <1>1, PaymentAssumption DEF RequestsIn, StatusesIn
  <1>3. /\ \A r \in R : r.object # x
        /\ \A t \in StatusesIn(R) :
              /\ IdOf[t.object] # IdOf[x] /\ NonceOf[t.object] # NonceOf[x]
              /\ EventOf[t.object] # EventOf[x]
    <2>1. \A r \in R : r.object # x
      BY DEF Known
    <2>2. x \notin Request
      BY PaymentAssumption
    <2>3. \A t \in StatusesIn(R) : t.object # x
      BY <2>1 DEF StatusesIn
    <2>4. \A t \in StatusesIn(R) : EventOf[t.object] # EventOf[x] /\ NonceOf[t.object] # NonceOf[x]
      BY <2>2, <2>3 DEF Replays
    <2>5. \A t \in StatusesIn(R) : IdOf[t.object] # IdOf[x]
      BY <2>3 DEF Terminal
    <2> QED
      BY <2>1, <2>4, <2>5
  <1>4. \A r \in RequestsIn(S) :
           /\ PayeeOf[r.object] = r.signer
           /\ r.direction = "inbound" => PayerOf[r.object] = p
           /\ r.direction = "outbound" => PayeeOf[r.object] = p
    BY <1>2 DEF Valid
  <1>5. \A r, t \in S : r.object = t.object => r = t
    BY <1>1, <1>3 DEF Valid
  <1>6. \A r, t \in RequestsIn(S) :
           r = t \/ (IdOf[r.object] # IdOf[t.object] /\ NonceOf[r.object] # NonceOf[t.object])
    BY <1>2 DEF Valid
  <1>7. \A c, t \in StatusesIn(S) :
           \/ c = t
           \/ /\ IdOf[c.object] # IdOf[t.object]
              /\ NonceOf[c.object] # NonceOf[t.object]
              /\ EventOf[c.object] # EventOf[t.object]
    <2>1. \A c, t \in StatusesIn(R) :
             \/ c = t
             \/ /\ IdOf[c.object] # IdOf[t.object]
                /\ NonceOf[c.object] # NonceOf[t.object]
                /\ EventOf[c.object] # EventOf[t.object]
      BY DEF Valid
    <2> QED
      BY <1>1, <1>2, <1>3, <2>1
  <1>8. \A c \in StatusesIn(S) :
           LET linked == {r \in RequestsIn(S) : IdOf[r.object] = IdOf[c.object]} IN
           /\ c.direction = "inbound" => linked # {}
           /\ c.direction = "outbound" => c.signer = p
           /\ \A r \in linked :
                  /\ PayeeOf[r.object] = c.signer
                  /\ NonceOf[r.object] # NonceOf[c.object]
                  /\ c.direction = "inbound" => PayerOf[r.object] = p
    <2> TAKE c \in StatusesIn(S)
    <2>1. CASE c \in StatusesIn(R)
      BY <1>2, <2>1 DEF Valid
    <2>2. CASE c = n
      BY <1>1, <1>2, <2>2
    <2> QED
      BY <1>2, <2>1, <2>2
  <1> QED
    BY <1>4, <1>5, <1>6, <1>7, <1>8 DEF Valid, S

LEMMA HandlerSuffices ==
  ASSUME IInv, IdsIdentify, NEW s \in Stream, Handling(s),
         Accepts(records[stream[s].to], stream[s].object, stream[s].from)
  PROVE  Valid(Received(s), stream[s].to)
  <1> DEFINE x == stream[s].object
             q == stream[s].from
             p == stream[s].to
             R == records[p]
  <1>1. /\ x \in Object /\ q \in Peer /\ p \in Peer /\ q # p /\ Verified(x, q, p)
        /\ R \in SUBSET Record /\ Valid(R, p) /\ Accepts(R, x, q)
        /\ Received(s) = With(R, x, q, "inbound")
    BY ExchangeType DEF Received, Handling, IInv, TypeOK, RecordsValid, StreamsAddressed
  <1>2. CASE x \in Request
    <2>1. ASSUME NEW c \in StatusesIn(R), IdOf[c.object] = IdOf[x], c.direction = "outbound"
          PROVE  FALSE
      <3>1. PICK o \in Peer : \E r \in RequestsIn(records[o]) :
                IdOf[r.object] = IdOf[c.object] /\ PayeeOf[r.object] = p
        BY <1>1, <2>1, OutboundLinked DEF StatusesIn
      <3>2. PayeeOf[x] = p
        BY <1>2, <2>1, <3>1 DEF IdsIdentify, RequestsIn
      <3> QED
        BY <1>1, <1>2, <3>2 DEF Verified
    <2> QED
      BY <1>1, <1>2, <2>1, RequestSuffices DEF Accepts, Verified
  <1>3. CASE x \in Status
    <2>1. Linked(R, x, q) /\ ~Terminal(R, x)
      BY <1>1, <1>3 DEF Accepts
    <2>2. ASSUME NEW r \in RequestsIn(R), IdOf[r.object] = IdOf[x]
          PROVE  /\ PayeeOf[r.object] = q /\ NonceOf[r.object] # NonceOf[x]
                 /\ PayerOf[r.object] = p
      <3>1. PayeeOf[r.object] = q /\ NonceOf[r.object] # NonceOf[x]
        BY <2>1, <2>2 DEF Linked
      <3>2. r.direction \in {"inbound", "outbound"}
        BY <1>1 DEF RequestsIn, Record
      <3>3. PayerOf[r.object] = p
        BY <1>1, <3>1, <3>2 DEF Valid
      <3> QED
        BY <3>1, <3>3
    <2>3. \E r \in RequestsIn(R) : IdOf[r.object] = IdOf[x]
      BY <2>1 DEF Linked
    <2> QED
      BY <1>1, <1>3, <2>1, <2>2, <2>3, StatusSuffices DEF Accepts
  <1> QED
    BY <1>1, <1>2, <1>3 DEF Object

LEMMA SenderSuffices ==
  ASSUME IInv, IdsIdentify, NEW s \in Stream, Acknowledged(s),
         ~Known(records[stream[s].from], stream[s].object),
         Stores(records[stream[s].from], stream[s].object)
  PROVE  Valid(Sent(s), stream[s].from)
  <1> DEFINE x == stream[s].object
             p == stream[s].from
             q == stream[s].to
             R == records[p]
  <1>1. /\ x \in Object /\ q \in Peer /\ p \in Peer /\ Verified(x, p, q)
        /\ R \in SUBSET Record /\ Valid(R, p) /\ ~Known(R, x) /\ Stores(R, x)
        /\ Valid(records[q], q) /\ Receipt(x, p) \in records[q]
        /\ Sent(s) = With(R, x, p, "outbound")
    BY ExchangeType DEF Sent, Acknowledged, IInv, TypeOK, RecordsValid, StreamsAddressed, AnswersBacked
  <1>2. CASE x \in Request
    <2>1. ASSUME NEW c \in StatusesIn(R), IdOf[c.object] = IdOf[x], c.direction = "outbound"
          PROVE  p = c.signer /\ NonceOf[x] # NonceOf[c.object]
      <3>1. PICK o \in Peer :
               /\ \E r \in RequestsIn(records[o]) : IdOf[r.object] = IdOf[c.object]
               /\ \A r \in RequestsIn(records[o]) : IdOf[r.object] = IdOf[c.object] =>
                     PayerOf[r.object] = o /\ NonceOf[r.object] # NonceOf[c.object]
        BY <1>1, <2>1, OutboundLinked DEF StatusesIn
      <3>2. o = q
        BY <1>1, <1>2, <2>1, <3>1 DEF IdsIdentify, RequestsIn, Verified
      <3>3. Receipt(x, p) \in RequestsIn(records[q]) /\ Receipt(x, p).object = x
        BY <1>1, <1>2 DEF RequestsIn, Receipt
      <3>4. NonceOf[x] # NonceOf[c.object]
        BY <2>1, <3>1, <3>2, <3>3
      <3>5. p = c.signer
        BY <1>1, <2>1, OutboundLinked DEF StatusesIn
      <3> QED
        BY <3>4, <3>5
    <2> QED
      BY <1>1, <1>2, <2>1, RequestSuffices DEF Stores, Verified
  <1>3. CASE x \in Status
    <2>1. ASSUME NEW r \in RequestsIn(R), IdOf[r.object] = IdOf[x]
          PROVE  PayeeOf[r.object] = p /\ NonceOf[r.object] # NonceOf[x]
      <3>1. NonceOf[r.object] # NonceOf[x]
        BY <1>1, <1>3, <2>1 DEF Stores
      <3>2. Receipt(x, p) \in StatusesIn(records[q])
        BY <1>1, <1>3 DEF StatusesIn, Receipt
      <3>3. \E t \in RequestsIn(records[q]) : IdOf[t.object] = IdOf[x] /\ PayeeOf[t.object] = p
        BY <1>1, <3>2 DEF Valid, Receipt
      <3>4. PayeeOf[r.object] = p
        BY <2>1, <3>3 DEF IdsIdentify, RequestsIn
      <3> QED
        BY <3>1, <3>4
    <2> QED
      BY <1>1, <1>3, <2>1, StatusSuffices DEF Stores
  <1> QED
    BY <1>1, <1>2, <1>3 DEF Object

(* If an ID names one payee and one payer, neither acceptInbound nor        *)
(* storeOutbound ever tries to save a collection that the validation        *)
(* refuses.  Without the hypothesis a cancellation whose request was        *)
(* delivered but not acknowledged clashes with another request of its ID.   *)
THEOREM PaymentChecksSuffice == ASSUME IdsIdentify PROVE Spec => []ChecksSuffice
  <1>1. IInv => ChecksSuffice
    BY HandlerSuffices, SenderSuffices DEF ChecksSuffice, IInv, RecordsValid
  <1> QED
    BY <1>1, PaymentInvariant, PTL
=============================================================================
