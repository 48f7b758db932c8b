------------------------------ MODULE Payment ------------------------------
(***************************************************************************)
(* Payment requests and cancellations between peers                        *)
(* (src/modern/payment/service.go): a payee sends a signed object over a   *)
(* stream of its own, the payer checks and records it and answers, and the *)
(* payee records what was accepted.  Streams break, senders give up while  *)
(* a handler still runs, writes fail and daemons stop at any step.         *)
(*                                                                         *)
(* An object is a constant and stands for its canonical bytes, so that two *)
(* objects are equal when their digests are.  Left out: encoding, framing  *)
(* and signatures, which never refuse what SendRequest and SendStatus      *)
(* made, and statuses other than cancellations, which are never sent.      *)
(***************************************************************************)
EXTENDS Integers

CONSTANTS
    Peer,
    Request, Status,        \* objects; a status is a cancellation
    IdOf,                   \* IdOf[x]: the request ID of an object
    NonceOf,                \* NonceOf[x]
    PayerOf, PayeeOf,       \* of requests
    EventOf,                \* EventOf[c]: the event ID of a status
    Stream,                 \* streams that may be open at once
    Idle,                   \* a stream that is not open
    Faults                  \* whether reads and writes of the datastore fail

Object == Request \cup Status

ASSUME PaymentAssumption ==
    /\ Request \cap Status = {}
    /\ PayerOf \in [Request -> Peer]
    /\ PayeeOf \in [Request -> Peer]
    /\ Faults \in BOOLEAN

VARIABLES
    records,   \* records[p]: what p has stored (RecordedObject)
    expired,   \* requests whose ExpiresAt has passed
    stream,    \* stream[s]: an exchange of a frame and its answer, or Idle
    life       \* life[p]: "open", "closing", or "closed" after Close

Record == [object : Object, signer : Peer, direction : {"inbound", "outbound"}]

(* waiting: the sender has not given up.  A handler runs in "handling".     *)
Exchange == [object : Object, from : Peer, to : Peer, waiting : BOOLEAN,
             stage : {"sent", "handling", "accepted", "refused"}]

vars == <<records, expired, stream, life>>

TypeOK ==
    /\ records \in [Peer -> SUBSET Record]
    /\ expired \subseteq Request
    /\ stream \in [Stream -> Exchange \cup {Idle}]
    /\ life \in [Peer -> {"open", "closing", "closed"}]

Init ==
    /\ records = [p \in Peer |-> {}]
    /\ expired = {}
    /\ stream = [s \in Stream |-> Idle]
    /\ life = [p \in Peer |-> "open"]

-----------------------------------------------------------------------------
(* Checks.                                                                  *)

RequestsIn(R) == {r \in R : r.object \in Request}
StatusesIn(R) == {r \in R : r.object \in Status}

Inbound(R) == {r \in R : r.direction = "inbound"}
Outbound(R) == {r \in R : r.direction = "outbound"}

(* What a collection must be to be saved or loaded by p                     *)
(* (validateStoredRecords).                                                 *)
Valid(R, p) ==
    /\ \A r \in RequestsIn(R) :
           /\ PayeeOf[r.object] = r.signer
           /\ r.direction = "inbound" => PayerOf[r.object] = p
           /\ r.direction = "outbound" => PayeeOf[r.object] = p
    /\ \A r, q \in R : r.object = q.object => r = q
    /\ \A r, q \in RequestsIn(R) :
           \/ r = q
           \/ IdOf[r.object] # IdOf[q.object] /\ NonceOf[r.object] # NonceOf[q.object]
    /\ \A c, d \in StatusesIn(R) :
           \/ c = d
           \/ /\ IdOf[c.object] # IdOf[d.object]
              /\ NonceOf[c.object] # NonceOf[d.object]
              /\ EventOf[c.object] # EventOf[d.object]
    /\ \A c \in StatusesIn(R) :
           LET linked == {r \in RequestsIn(R) : IdOf[r.object] = IdOf[c.object]} IN
           /\ c.direction = "inbound" => linked # {}
           /\ c.direction = "outbound" => c.signer = p
           /\ \A r \in linked :
                  /\ PayeeOf[r.object] = c.signer
                  /\ NonceOf[r.object] # NonceOf[c.object]
                  /\ c.direction = "inbound" => PayerOf[r.object] = p

Known(R, x) == \E r \in R : r.object = x

(* CheckRequestReplay and CheckStatusReplay.                                *)
Replays(R, x) ==
    IF x \in Request
    THEN \E r \in RequestsIn(R) :
             /\ r.object # x
             /\ IdOf[r.object] = IdOf[x] \/ NonceOf[r.object] = NonceOf[x]
    ELSE \E r \in StatusesIn(R) :
             /\ r.object # x
             /\ EventOf[r.object] = EventOf[x] \/ NonceOf[r.object] = NonceOf[x]

Terminal(R, c) ==
    \E r \in StatusesIn(R) : r.object # c /\ IdOf[r.object] = IdOf[c]

(* A status must follow its request, be signed by its payee and have a      *)
(* nonce of its own.                                                        *)
Linked(R, c, signer) ==
    /\ \E r \in RequestsIn(R) : IdOf[r.object] = IdOf[c]
    /\ \A r \in RequestsIn(R) : IdOf[r.object] = IdOf[c] =>
           PayeeOf[r.object] = signer /\ NonceOf[r.object] # NonceOf[c]

Verified(x, signer, recipient) ==
    x \in Request => PayeeOf[x] = signer /\ PayerOf[x] = recipient

(* Defect: the expiry is looked at before the stored requests.              *)
AcceptsAgainInTime(R, x, signer) ==
    /\ Known(R, x)
    /\ ~Replays(R, x)
    /\ x \in Request => x \notin expired
    /\ x \in Status => Linked(R, x, signer)

(* acceptInbound: what is accepted once more, and what is recorded.         *)
AcceptsAgain(R, x, signer) ==
    /\ Known(R, x)
    /\ ~Replays(R, x)
    /\ x \in Status => Linked(R, x, signer)

(* Defect: a second cancellation of a request is let through.               *)
AcceptsSecond(R, x, signer) ==
    /\ ~Known(R, x)
    /\ ~Replays(R, x)
    /\ x \in Request => x \notin expired
    /\ x \in Status => Linked(R, x, signer)

Accepts(R, x, signer) ==
    /\ ~Known(R, x)
    /\ ~Replays(R, x)
    /\ x \in Request => x \notin expired
    /\ x \in Status => Linked(R, x, signer) /\ ~Terminal(R, x)

(* storeOutbound.                                                           *)
Stores(R, x) ==
    /\ ~Replays(R, x)
    /\ x \in Status =>
          /\ ~Terminal(R, x)
          /\ \A r \in RequestsIn(R) :
                 ~(IdOf[r.object] = IdOf[x] /\ NonceOf[r.object] = NonceOf[x])

(* Defect: the kind of the object in place of the direction.                *)
WithKind(R, x, signer, direction) ==
    R \cup {[object |-> x, signer |-> signer,
             direction |-> IF x \in Request THEN direction ELSE "status"]}

With(R, x, signer, direction) ==
    R \cup {[object |-> x, signer |-> signer, direction |-> direction]}

-----------------------------------------------------------------------------
(* Sending.                                                                 *)

SendSigned(p, q, x) ==
    /\ life[p] = "open"
    /\ q # p
    /\ Verified(x, p, q)
    /\ \E s \in Stream :
           /\ stream[s] = Idle
           /\ stream' = [stream EXCEPT ![s] =
                  [object |-> x, from |-> p, to |-> q, waiting |-> TRUE, stage |-> "sent"]]
    /\ UNCHANGED <<records, expired, life>>

SendRequest(p, r) == SendSigned(p, PayerOf[r], r)

(* A cancellation of a request that p has recorded.                         *)
SendStatus(p, c) ==
    \E r \in RequestsIn(records[p]) :
        /\ IdOf[r.object] = IdOf[c]
        /\ NonceOf[r.object] # NonceOf[c]
        /\ PayeeOf[r.object] = p
        /\ SendSigned(p, PayerOf[r.object], c)

(* A deadline or a cancelled context.                                       *)
GiveUp(s) ==
    /\ stream[s] # Idle
    /\ stream[s].stage \in {"sent", "handling"}
    /\ stream[s].waiting
    /\ stream' = [stream EXCEPT ![s].waiting = FALSE]
    /\ UNCHANGED <<records, expired, life>>

(* The stream breaks before the frame is handled, or the handler is not     *)
(* admitted; or the answer is lost.                                         *)
Break(s) ==
    /\ stream[s] # Idle
    /\ stream[s].stage # "handling"
    /\ stream' = [stream EXCEPT ![s] = Idle]
    /\ UNCHANGED <<records, expired, life>>

-----------------------------------------------------------------------------
(* The handler.                                                             *)

AdmitHandler(s) ==
    /\ stream[s] # Idle
    /\ stream[s].stage = "sent"
    /\ life[stream[s].to] = "open"
    /\ stream' = [stream EXCEPT ![s].stage = "handling"]
    /\ UNCHANGED <<records, expired, life>>

Handling(s) == stream[s] # Idle /\ stream[s].stage = "handling"

(* Nobody reads the answer of an exchange that was given up.                *)
Answer(s, answer) ==
    stream' = [stream EXCEPT ![s] =
        IF ~@.waiting THEN Idle
        ELSE [object |-> @.object, from |-> @.from, to |-> @.to, waiting |-> TRUE,
              stage |-> answer]]

AcceptAgain(s) ==
    /\ Handling(s)
    /\ AcceptsAgain(records[stream[s].to], stream[s].object, stream[s].from)
    /\ Answer(s, "accepted")
    /\ UNCHANGED <<records, expired, life>>

Received(s) ==
    With(records[stream[s].to], stream[s].object, stream[s].from, "inbound")

Accept(s) ==
    /\ Handling(s)
    /\ Accepts(records[stream[s].to], stream[s].object, stream[s].from)
    /\ Valid(Received(s), stream[s].to)
    /\ records' = [records EXCEPT ![stream[s].to] = Received(s)]
    /\ Answer(s, "accepted")
    /\ UNCHANGED <<expired, life>>

Refuse(s) ==
    /\ Handling(s)
    /\ LET R == records[stream[s].to] IN
       /\ ~AcceptsAgain(R, stream[s].object, stream[s].from)
       /\ ~(/\ Accepts(R, stream[s].object, stream[s].from)
            /\ Valid(Received(s), stream[s].to))
    /\ Answer(s, "refused")
    /\ UNCHANGED <<records, expired, life>>

(* A read fails, or a write, before or after it has kept the value.         *)
HandlerFails(s) ==
    /\ Faults
    /\ Handling(s)
    /\ \/ UNCHANGED records
       \/ /\ Accepts(records[stream[s].to], stream[s].object, stream[s].from)
          /\ Valid(Received(s), stream[s].to)
          /\ records' = [records EXCEPT ![stream[s].to] = Received(s)]
    /\ Answer(s, "refused")
    /\ UNCHANGED <<expired, life>>

-----------------------------------------------------------------------------
(* The sender again.                                                        *)

Sent(s) ==
    With(records[stream[s].from], stream[s].object, stream[s].from, "outbound")

(* Defect: Accepted is not looked at.                                       *)
AnsweredAtAll(s) == stream[s] # Idle /\ stream[s].stage \in {"accepted", "refused"}

Acknowledged(s) == stream[s] # Idle /\ stream[s].stage = "accepted"

(* The write may fail, before or after it has kept the value: Break is the  *)
(* one, this the other.                                                     *)
StoreOutbound(s) ==
    /\ Acknowledged(s)
    /\ LET p == stream[s].from IN
       records' = [records EXCEPT ![p] =
           IF ~Known(@, stream[s].object) /\ Stores(@, stream[s].object) /\ Valid(Sent(s), p)
           THEN Sent(s) ELSE @]
    /\ stream' = [stream EXCEPT ![s] = Idle]
    /\ UNCHANGED <<expired, life>>

-----------------------------------------------------------------------------
(* Close stops admissions and waits for the handlers; calls go on.          *)

Close(p) ==
    /\ life[p] = "open"
    /\ life' = [life EXCEPT ![p] = "closing"]
    /\ UNCHANGED <<records, expired, stream>>

(* Defect: Close does not wait.                                             *)
ClosedAtOnce(p) ==
    /\ life[p] = "closing"
    /\ life' = [life EXCEPT ![p] = "closed"]
    /\ UNCHANGED <<records, expired, stream>>

Closed(p) ==
    /\ life[p] = "closing"
    /\ \A s \in Stream : Handling(s) => stream[s].to # p
    /\ life' = [life EXCEPT ![p] = "closed"]
    /\ UNCHANGED <<records, expired, stream>>

(* The daemon stops, at any step or after Close, and is started again; what *)
(* it has sent may still arrive.                                            *)
Restart(p) ==
    /\ life' = [life EXCEPT ![p] = "open"]
    /\ stream' = [s \in Stream |->
           IF stream[s] = Idle \/ stream[s].to = p THEN Idle
           ELSE IF stream[s].from # p THEN stream[s]
           ELSE IF stream[s].stage \in {"accepted", "refused"} THEN Idle
           ELSE [object |-> stream[s].object, from |-> p, to |-> stream[s].to,
                 waiting |-> FALSE, stage |-> stream[s].stage]]
    /\ UNCHANGED <<records, expired>>

Expire(r) ==
    /\ expired' = expired \cup {r}
    /\ UNCHANGED <<records, stream, life>>

Next ==
    \/ \E p \in Peer, r \in Request : SendRequest(p, r)
    \/ \E p \in Peer, c \in Status :
           SendStatus(p, c) \/ \E q \in Peer : SendSigned(p, q, c)
    \/ \E s \in Stream :
           \/ GiveUp(s) \/ Break(s)
           \/ AdmitHandler(s) \/ AcceptAgain(s) \/ Accept(s) \/ Refuse(s) \/ HandlerFails(s)
           \/ StoreOutbound(s)
    \/ \E p \in Peer : Close(p) \/ Closed(p) \/ Restart(p)
    \/ \E r \in Request : Expire(r)

Spec == Init /\ [][Next]_vars

-----------------------------------------------------------------------------
(* Properties.                                                              *)

(* The checks made before a save are enough: what acceptInbound and         *)
(* storeOutbound let through never fails the validation of the collection,  *)
(* and what is stored can be loaded (validateStoredRecords).  The sender    *)
(* relies here on the checks that the payer made before it.                 *)
ChecksSuffice ==
    /\ \A p \in Peer : Valid(records[p], p)
    /\ \A s \in Stream : Handling(s) =>
           (Accepts(records[stream[s].to], stream[s].object, stream[s].from)
               => Valid(Received(s), stream[s].to))
    /\ \A s \in Stream : Acknowledged(s) =>
           (~Known(records[stream[s].from], stream[s].object)
              /\ Stores(records[stream[s].from], stream[s].object)
               => Valid(Sent(s), stream[s].from))

Items(R) == {[object |-> r.object, signer |-> r.signer] : r \in R}

(* An object that a payer has recorded is never refused, however often and  *)
(* however late it is sent again, by a storage error at most                *)
(* (acceptInbound).                                                         *)
AcceptedForGood ==
    [][\A s \in Stream :
          Refuse(s) =>
              [object |-> stream[s].object, signer |-> stream[s].from]
                  \notin Items(Inbound(records[stream[s].to]))]_vars

(* After Close has returned no handler records anything (Close,             *)
(* admitHandler).                                                           *)
QuietAfterClose ==
    [][\A p \in Peer : life[p] = "closed" =>
          Inbound(records'[p]) = Inbound(records[p])]_vars

L == INSTANCE Ledger WITH
        accepted <- [p \in Peer |-> Items(Inbound(records[p]))],
        recorded <- [p \in Peer |-> Items(Outbound(records[p]))]

(* Payees and payers implement Ledger: no lost answer, late handler,        *)
(* repeated delivery, failed write or restart makes a payee record what the *)
(* payer has not, or a payer accept a second cancellation.                  *)
ImplementsLedger == L!Spec
=============================================================================
