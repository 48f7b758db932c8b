------------------------------- MODULE Order -------------------------------
(***************************************************************************)
(* One order of the legacy marketplace (src/core, src/net/service/         *)
(* handlers.go, src/wallet/listeners, src/net/retriever): a buyer, a       *)
(* vendor and a moderator each keep their own record of it and change it   *)
(* on calls of the API, on messages of the others and on callbacks of      *)
(* their wallet.                                                           *)
(*                                                                         *)
(* The order is for one item and is paid at once, with one coin.  A call   *)
(* of the API reads the record first and then works through its effects    *)
(* one by one, so that handlers and callbacks run in between; these are    *)
(* single steps.  A spend of a coin that is spent already is refused.      *)
(* Left out: amounts, signatures, ratings, inventory and notifications,    *)
(* ORDER_PAYMENT (it only hands a callback to the wallet), and             *)
(* ORDER_PROCESSING_FAILURE, whose handler never sends anything again.     *)
(***************************************************************************)
EXTENDS Integers, Sequences, FiniteSets, SequencesExt

CONSTANTS
    Method,        \* the ways of payment that buyers choose
    None,          \* no record, no resolution
    Slow,          \* Slow[m]: the types of messages that may miss their
                   \* receiver when the order is paid as m says
    Resent,        \* Resent[m]: the types that clients then ask to send again
    ResentIn,      \* the states of its order in which a trader's client asks so
    Crashing,      \* Crashing[m]: the nodes that may then stop and start again
    MaxCalls,      \* bound on the calls of the API under way and the messages
                   \* sent twice, together
    MaxDirect,     \* bound on the streams in use and the messages on each
    MaxOffline,    \* bound on the messages in offline storage and put aside
    MaxCrashes,    \* bound on the restarts
    MaxRepeats     \* bound on the messages that are sent twice

ASSUME OrderAssumption ==
    /\ Method \subseteq {"ADDRESS_REQUEST", "DIRECT", "MODERATED"}
    /\ Crashing \in [Method -> SUBSET {"buyer", "vendor", "moderator"}]
    /\ MaxCalls \in Nat
    /\ MaxDirect \in Nat
    /\ MaxOffline \in Nat
    /\ MaxCrashes \in Nat
    /\ MaxRepeats \in Nat

Trader == {"buyer", "vendor"}
Party == Trader \cup {"moderator"}
Other(p) == IF p = "buyer" THEN "vendor" ELSE "buyer"

OrderState == {"PENDING", "AWAITING_PAYMENT", "AWAITING_FULFILLMENT",
    "FULFILLED", "COMPLETED", "CANCELED", "DECLINED", "REFUNDED", "DISPUTED",
    "DECIDED", "RESOLVED", "PAYMENT_FINALIZED", "PROCESSING_ERROR"}

VARIABLES
    method,    \* how the order is paid, None before the purchase
    order,     \* order[p]: p's record of it (purchases, sales)
    ledger,    \* ledger[p]: what p's wallet has told of the coin (transactions)
    dispute,   \* the moderator's record of it (cases)
    coin,      \* where the price is: "unpaid", "escrow", or with a trader
    wire,      \* wire[p][q]: messages on the stream from p to q
    stored,    \* stored[p]: messages for p in offline storage
    queued,    \* queued[p]: messages p has put aside (offlinemessages)
    pass,      \* pass[p]: the rest of processQueuedMessages, or None
    call,      \* call[p]: what the API call under way at p has still to do
    late,      \* the escrow has timed out
    overdue,   \* the time to decide a dispute is over
    crashes,
    cached,    \* cached[p]: the messages of the order p can send again
    repeats,   \* the messages that were sent twice
    lost       \* what the vendor's record held until an ORDER that came again
               \* overwrote it (no step looks at this)

vars == <<method, order, ledger, dispute, coin, wire, stored, queued, pass,
          cached, repeats, call, late, overdue, crashes, lost>>

mail == <<wire, stored, queued, pass, cached, repeats>>
times == <<late, overdue>>

(* award: who is to be paid; to: who gave the address that is paid.         *)
Resolution == [award : Trader, to : Trader]
Part == {"confirmation", "fulfillment", "dispute", "acceptance"}
Contract == [state : OrderState, parts : SUBSET Part,
             resolution : Resolution \cup {None}]
(* What a record shows for good: a confirmation, a resolution.              *)
Fact == {"confirmation", "award"}
Facts(c) == {k \in Fact : k \in c.parts \/ (k = "award" /\ c.resolution # None)}

(* buyer, vendor: who gave the contract and address of that side.           *)
Case == [state : {"DISPUTED", "RESOLVED"},
         buyer : Trader \cup {None}, vendor : Trader \cup {None}]

ASSUME NoneAssumption ==
    None \notin {"ADDRESS_REQUEST", "DIRECT", "MODERATED"} \cup Contract \cup Resolution \cup Case

MessageType == <<"ORDER", "ORDER_CANCEL", "ORDER_REJECT", "ORDER_CONFIRMATION",
    "ORDER_FULFILLMENT", "ORDER_COMPLETION", "DISPUTE_OPEN", "DISPUTE_UPDATE",
    "VENDOR_FINALIZED_PAYMENT", "DISPUTE_CLOSE", "REFUND", "ERROR">>

Message == [type : Range(MessageType), from : Party,
            resolution : Resolution \cup {None}]

Msg(t, p) == [type |-> t, from |-> p, resolution |-> None]

Letter == [to : Party, msg : Message]

TypeOK ==
    /\ method \in Method \cup {None}
    /\ order \in [Trader -> Contract \cup {None}]
    /\ ledger \in [Trader -> {"unseen", "unspent", "spent"}]
    /\ dispute \in Case \cup {None}
    /\ coin \in {"unpaid", "escrow"} \cup Trader
    /\ \A p, q \in Party : \A i \in DOMAIN wire[p][q] : wire[p][q][i] \in Message
    /\ stored \in [Party -> SUBSET Message]
    /\ queued \in [Party -> SUBSET Message]
    /\ \A p \in Party : pass[p] # None =>
           pass[p].todo \subseteq queued[p] /\ pass[p].done \subseteq queued[p]
    /\ late \in BOOLEAN /\ overdue \in BOOLEAN
    /\ crashes \in 0..MaxCrashes
    /\ cached \in [Party -> SUBSET Letter]
    /\ repeats \in 0..MaxRepeats
    /\ lost \subseteq Fact

Init ==
    /\ method = None
    /\ order = [p \in Trader |-> None]
    /\ ledger = [p \in Trader |-> "unseen"]
    /\ dispute = None
    /\ coin = "unpaid"
    /\ wire = [p \in Party |-> [q \in Party |-> <<>>]]
    /\ stored = [p \in Party |-> {}]
    /\ queued = [p \in Party |-> {}]
    /\ pass = [p \in Party |-> None]
    /\ call = [p \in Party |-> <<>>]
    /\ late = FALSE /\ overdue = FALSE
    /\ crashes = 0
    /\ cached = [p \in Party |-> {}]
    /\ repeats = 0
    /\ lost = {}

New == [state |-> "AWAITING_PAYMENT", parts |-> {}, resolution |-> None]

State(p) == IF order[p] = None THEN "none" ELSE order[p].state
Has(p, part) == order[p] # None /\ part \in order[p].parts
Funded(p) == ledger[p] # "unseen"

(* c in state s with the parts S added.                                     *)
With(c, s, S) == [c EXCEPT !.state = s, !.parts = @ \cup S]

(* What p believes it can spend, and a wallet then does spend.              *)
Unspent(p) == ledger[p] = "unspent"
Spendable(p) == Unspent(p) /\ coin = "escrow"

Moderated == method = "MODERATED"

OnWire(w, p, q, M) == [w EXCEPT ![p][q] = @ \o SetToSeq(M)]

(* The bounds on the messages that are under way, for the steps that add.   *)
Bounded ==
    /\ \A p, r \in Party : Len(wire'[p][r]) <= MaxDirect
    /\ Cardinality({pr \in Party \X Party : wire'[pr[1]][pr[2]] # <<>>}) <= MaxDirect
    /\ Cardinality(UNION {stored'[p] \cup queued'[p] : p \in Party}) <= MaxOffline

-----------------------------------------------------------------------------
(* Calls of the API: what a call does, as a list of its effects in order.   *)

Put(c) == [do |-> "put", contract |-> c]
Send(q, m) == [do |-> "send", to |-> q, msg |-> m]
(* undo: what to store when the wallet refuses.                             *)
Spend(q, undo) == [do |-> "spend", to |-> q, undo |-> undo]
Repay == [do |-> "repay"]
CloseCase == [do |-> "close"]

Room == Cardinality({p \in Party : call[p] # <<>>}) + repeats < MaxCalls

Repeat == repeats < MaxRepeats /\ Room /\ repeats' = repeats + 1

Calls(p, effects) ==
    /\ call[p] = <<>>
    /\ Room
    /\ call' = [call EXCEPT ![p] = effects]

(* p keeps what it sends, one message of each type, to send it again.  Of   *)
(* an order that is not paid through a moderator only the first form is     *)
(* kept, which has another ID once it is sent as DIRECT.                    *)
Remember(way, p, to, m) ==
    IF m.type \in Resent[way] /\ (m.type = "ORDER" => way # "DIRECT")
    THEN [cached EXCEPT ![p] = {l \in @ : l.msg.type # m.type} \cup {[to |-> to, msg |-> m]}]
    ELSE cached

Only(p, effects) ==
    /\ Calls(p, effects)
    /\ UNCHANGED <<method, order, ledger, dispute, coin, mail, times, crashes, lost>>

(* Purchase, the vendor being online: it confirms at once, and only then    *)
(* does the buyer store the order (processOnlineDirectOrder,                *)
(* processOnlineModeratedOrder).                                            *)
PurchaseOnline ==
    /\ method = None
    /\ method' \in Method \ {"DIRECT"}
    /\ order' = [order EXCEPT !["vendor"] = With(New, "AWAITING_PAYMENT", {"confirmation"})]
    /\ Calls("buyer", <<Put(With(New, "AWAITING_PAYMENT", {"confirmation"}))>>)
    /\ cached' = Remember(method', "buyer", "vendor", Msg("ORDER", "buyer"))
    /\ UNCHANGED <<ledger, dispute, coin, wire, stored, queued, pass, repeats,
                   times, crashes, lost>>

(* No answer of the vendor: the order is left in offline storage for it,    *)
(* but the one that was sent first may still reach it (a moderated order is *)
(* the same one, a DIRECT order takes the place of another).                *)
PurchaseOffline ==
    /\ method = None
    /\ method' \in Method \ {"ADDRESS_REQUEST"}
    /\ Calls("buyer", <<Send("vendor", Msg("ORDER", "buyer")), Put(New)>>)
    /\ cached' = Remember(method', "buyer", "vendor", Msg("ORDER", "buyer"))
    /\ \/ UNCHANGED <<wire, repeats>>
       \/ /\ method' = "MODERATED" /\ Repeat
          /\ wire' = OnWire(wire, "buyer", "vendor", {Msg("ORDER", "buyer")})
    /\ UNCHANGED <<order, ledger, dispute, coin, stored, queued, pass, times, crashes, lost>>
    /\ Bounded

(* The buyer pays: into the escrow, or to the vendor's own address.         *)
Pay ==
    /\ coin = "unpaid" /\ State("buyer") = "AWAITING_PAYMENT"
    /\ coin' = IF method = "ADDRESS_REQUEST" THEN "vendor" ELSE "escrow"
    /\ UNCHANGED <<method, order, ledger, dispute, mail, call, times, crashes, lost>>

MayConfirm == State("vendor") = "PENDING" /\ Funded("vendor")

ConfirmOfflineOrder ==
    /\ MayConfirm
    /\ LET c == order["vendor"]
           put == Put(With(c, "AWAITING_FULFILLMENT", {"confirmation"}))
           send == Send("buyer", Msg("ORDER_CONFIRMATION", "vendor")) IN
       Only("vendor", IF Moderated THEN <<put, send>> ELSE <<put, Spend("vendor", c), send>>)

RejectOfflineOrder ==
    /\ State("vendor") = "PENDING"
    /\ Only("vendor", <<Send("buyer", Msg("ORDER_REJECT", "vendor")),
                        Put(With(order["vendor"], "DECLINED", {}))>>)

MayCancel ==
    /\ State("buyer") \in {"PENDING", "PROCESSING_ERROR"}
    /\ Funded("buyer") /\ ~Moderated

CancelOfflineOrder ==
    /\ MayCancel
    /\ Unspent("buyer")
    /\ Only("buyer", <<Spend("buyer", None),
                       Send("vendor", Msg("ORDER_CANCEL", "buyer")),
                       Put(With(order["buyer"], "CANCELED", {}))>>)

MayRefund == State("vendor") = "AWAITING_FULFILLMENT"

(* A moderated refund is signed for the buyer to release, another is paid   *)
(* from the vendor's wallet.                                                *)
RefundOrder ==
    /\ MayRefund
    /\ LET send == Send("buyer", Msg("REFUND", "vendor"))
           put == Put(With(order["vendor"], "REFUNDED", {})) IN
       Only("vendor", IF Moderated THEN <<send, put>> ELSE <<Repay, send, put>>)

MayFulfill == State("vendor") = "AWAITING_FULFILLMENT"

FulfillOrder ==
    /\ MayFulfill
    /\ Only("vendor", <<Send("buyer", Msg("ORDER_FULFILLMENT", "vendor")),
                        Put(With(order["vendor"], "FULFILLED", {"fulfillment"}))>>)

MayComplete ==
    /\ State("buyer") \in {"FULFILLED", "RESOLVED", "PAYMENT_FINALIZED"}
    /\ Moderated => Has("buyer", "fulfillment")

CompleteOrder ==
    /\ MayComplete
    /\ Only("buyer", <<Send("vendor", Msg("ORDER_COMPLETION", "buyer")),
                       Put(With(order["buyer"], "COMPLETED", {}))>>)

MayDispute(p) ==
    /\ Moderated
    /\ IF p = "vendor" THEN State(p) = "FULFILLED"
       ELSE \/ State(p) \in {"AWAITING_FULFILLMENT", "PENDING", "FULFILLED"}
            \/ State(p) = "PROCESSING_ERROR" /\ Funded(p)

OpenDispute(p) ==
    /\ MayDispute(p)
    /\ ~late
    /\ Only(p, <<Send("moderator", Msg("DISPUTE_OPEN", p)),
                 Send(Other(p), Msg("DISPUTE_OPEN", p)),
                 Put(With(order[p], "DISPUTED", {"dispute"}))>>)

(* Defect: the moderator does not ask who can be paid.                     *)
CloseDisputeAnyway ==
    /\ dispute # None /\ dispute.state = "DISPUTED" /\ ~overdue
    /\ \E award \in Trader :
           LET m == [type |-> "DISPUTE_CLOSE", from |-> "moderator",
                     resolution |-> [award |-> award, to |-> dispute[award]]] IN
           Only("moderator", <<Send("buyer", m), Send("vendor", m), CloseCase>>)

(* The moderator awards the price to one side.                              *)
CloseDispute ==
    /\ dispute # None /\ dispute.state = "DISPUTED" /\ ~overdue
    /\ \E award \in Trader :
           LET to == dispute[award]
               m == [type |-> "DISPUTE_CLOSE", from |-> "moderator",
                     resolution |-> [award |-> award, to |-> to]] IN
           /\ to # None
           /\ Only("moderator", <<Send("buyer", m), Send("vendor", m), CloseCase>>)

MayRelease(p) == State(p) = "DECIDED"

(* Defect: the record is stored before the coin is spent.                  *)
ReleaseFundsFirst(p) ==
    /\ MayRelease(p)
    /\ Only(p, <<Put(With(order[p], "DECIDED", {"acceptance"})),
                 Spend(order[p].resolution.to, None)>>)

ReleaseFunds(p) ==
    /\ MayRelease(p)
    /\ Only(p, <<Spend(order[p].resolution.to, None),
                 Put(With(order[p], "DECIDED", {"acceptance"}))>>)

DisputeIsActive == Has("vendor", "dispute") /\ ~overdue

MayReleaseEscrow ==
    /\ State("vendor") \in {"PENDING", "FULFILLED", "DISPUTED"}
    /\ ~DisputeIsActive

(* Defect: the time limit is not looked at.                                *)
ReleaseFundsAtOnce ==
    /\ MayReleaseEscrow
    /\ Unspent("vendor")
    /\ Only("vendor", <<Spend("vendor", None),
                        Put(With(order["vendor"], "PAYMENT_FINALIZED", {})),
                        Send("buyer", Msg("VENDOR_FINALIZED_PAYMENT", "vendor"))>>)

ReleaseFundsAfterTimeout ==
    /\ MayReleaseEscrow
    /\ late /\ Unspent("vendor")
    /\ Only("vendor", <<Spend("vendor", None),
                        Put(With(order["vendor"], "PAYMENT_FINALIZED", {})),
                        Send("buyer", Msg("VENDOR_FINALIZED_PAYMENT", "vendor"))>>)

-----------------------------------------------------------------------------
(* The effects of a call under way at p.                                    *)

Doing(p, kind) == call[p] # <<>> /\ Head(call[p]).do = kind
Advance(p) == call' = [call EXCEPT ![p] = Tail(@)]

DoPut(p) ==
    /\ Doing(p, "put")
    /\ order' = [order EXCEPT ![p] = Head(call[p]).contract]
    /\ Advance(p)
    /\ UNCHANGED <<method, ledger, dispute, coin, mail, times, crashes, lost>>

(* To the peer, or to offline storage when the sending fails; this does not *)
(* say that the peer did not get it (twice).                                *)
Transmit(p, to, m, twice) ==
    /\ \/ ~twice /\ wire' = OnWire(wire, p, to, {m}) /\ UNCHANGED stored
       \/ /\ m.type \in Slow[method]
          /\ stored' = [stored EXCEPT ![to] = @ \cup {m}]
          /\ wire' = IF twice THEN OnWire(wire, p, to, {m}) ELSE wire
    /\ UNCHANGED <<method, order, ledger, dispute, coin, queued, pass, times, crashes, lost>>
    /\ Bounded

(* An ORDER that comes here had no answer before (PurchaseOffline).         *)
DoSend(p) ==
    /\ Doing(p, "send")
    /\ \E twice \in BOOLEAN :
           LET to == Head(call[p]).to
               m == Head(call[p]).msg IN
           /\ Transmit(p, to, m, twice)
           /\ m.type = "ORDER" => wire' = wire
           /\ IF twice THEN Repeat ELSE UNCHANGED repeats
           /\ cached' = Remember(method, p, to, m)
    /\ Advance(p)

ResendCachedOrderMessage(p) ==
    /\ p \in Trader => State(p) \in ResentIn
    /\ \E l \in cached[p], twice \in BOOLEAN : Transmit(p, l.to, l.msg, twice)
    /\ Repeat
    /\ UNCHANGED <<cached, call>>

DoSpend(p) ==
    /\ Doing(p, "spend")
    /\ coin = "escrow"
    /\ coin' = Head(call[p]).to
    /\ Advance(p)
    /\ UNCHANGED <<method, order, ledger, dispute, mail, times, crashes, lost>>

(* Defect: the call goes on when the wallet refuses.                       *)
SpendFailsQuietly(p) ==
    /\ Doing(p, "spend")
    /\ coin # "escrow"
    /\ Advance(p)
    /\ UNCHANGED <<method, order, ledger, dispute, coin, mail, times, crashes, lost>>

(* The wallet refuses: the call ends, recovering its old record if it had   *)
(* stored a new one (recoverState).                                         *)
SpendFails(p) ==
    /\ Doing(p, "spend")
    /\ coin # "escrow"
    /\ LET undo == Head(call[p]).undo IN
       call' = [call EXCEPT ![p] = IF undo = None THEN <<>> ELSE <<Put(undo)>>]
    /\ UNCHANGED <<method, order, ledger, dispute, coin, mail, times, crashes, lost>>

DoRepay(p) ==
    /\ Doing(p, "repay")
    /\ coin' = IF coin = "vendor" THEN "buyer" ELSE coin
    /\ Advance(p)
    /\ UNCHANGED <<method, order, ledger, dispute, mail, times, crashes, lost>>

MarkAsClosed(p) ==
    /\ Doing(p, "close")
    /\ dispute' = [dispute EXCEPT !.state = "RESOLVED"]
    /\ Advance(p)
    /\ UNCHANGED <<method, order, ledger, coin, mail, times, crashes, lost>>

-----------------------------------------------------------------------------
(* Handlers.  Each says how it answers: with net.OutOfOrderMessage          *)
(* ("later"), with success ("done"), or with another error ("failed").      *)

Verdict == {"later", "done", "failed"}

Answers(v, early, fits) ==
    v = IF early THEN "later" ELSE IF fits THEN "done" ELSE "failed"

Saves(v, p, s, S) ==
    order' = IF v = "done" THEN [order EXCEPT ![p] = With(@, s, S)] ELSE order

(* errorResponse, which fails on an ADDRESS_REQUEST from offline storage.   *)
KeepsError(offline) == offline /\ method # "ADDRESS_REQUEST"

Pays(cond, p) == coin' = IF cond THEN p ELSE coin

(* The sale is stored as new, whatever it was.  An order that reaches the   *)
(* vendor itself is confirmed at once, an ADDRESS_REQUEST always.  One that *)
(* was stored for it and does not validate is kept as a PROCESSING_ERROR.   *)
HandleOrder(v, offline) ==
    LET confirmed == method = "ADDRESS_REQUEST" \/ (Moderated /\ ~offline)
        parts == {part \in {"confirmation"} : confirmed} IN
    /\ v \in {"done", "failed"}
    /\ order' = IF v = "done" THEN [order EXCEPT !["vendor"] = With(New, New.state, parts)]
                ELSE IF KeepsError(offline)
                     THEN [order EXCEPT !["vendor"] = With(New, "PROCESSING_ERROR", {})]
                ELSE order
    /\ UNCHANGED <<coin, dispute>>

HandleOrderConfirmation(v) ==
    LET s == State("buyer")
        duplicate == s = IF Funded("buyer") THEN "AWAITING_FULFILLMENT" ELSE "AWAITING_PAYMENT" IN
    /\ Answers(v, s # "PENDING" /\ ~duplicate, s = "PENDING")
    /\ Saves(v, "buyer", IF Funded("buyer") THEN "AWAITING_FULFILLMENT" ELSE "AWAITING_PAYMENT",
             {"confirmation"})
    /\ UNCHANGED <<coin, dispute>>

HandleOrderCancel(v) ==
    /\ Answers(v, State("vendor") = "none", State("vendor") # "CANCELED")
    /\ Saves(v, "vendor", "CANCELED", {})
    /\ UNCHANGED <<coin, dispute>>

HandleReject(v) ==
    /\ Answers(v, State("buyer") = "none",
               State("buyer") # "DECLINED" /\ Spendable("buyer"))
    /\ Pays(v = "done", "buyer")
    /\ Saves(v, "buyer", "DECLINED", {})
    /\ UNCHANGED dispute

HandleRefund(v) ==
    /\ Answers(v, State("buyer") = "none",
               State("buyer") = "AWAITING_FULFILLMENT" /\ (Moderated => Spendable("buyer")))
    /\ Pays(v = "done" /\ Moderated, "buyer")
    /\ Saves(v, "buyer", "REFUNDED", {})
    /\ UNCHANGED dispute

HandleOrderFulfillment(v) ==
    /\ Answers(v, State("buyer") \in {"none", "PENDING", "AWAITING_PAYMENT"},
               State("buyer") = "AWAITING_FULFILLMENT")
    /\ Saves(v, "buyer", "FULFILLED", {"fulfillment"})
    /\ UNCHANGED <<coin, dispute>>

HandleOrderCompletion(v) ==
    LET s == State("vendor")
        payout == Moderated /\ s \notin {"DISPUTED", "DECIDED", "RESOLVED", "PAYMENT_FINALIZED"} IN
    /\ Answers(v, s = "none",
               s # "COMPLETED"
               /\ (payout => Has("vendor", "fulfillment") /\ Spendable("vendor")))
    /\ Pays(v = "done" /\ payout, "vendor")
    /\ Saves(v, "vendor", "COMPLETED", {})
    /\ UNCHANGED dispute

(* The moderator opens the case again whatever it knew of it; a trader      *)
(* sends its own side to the moderator (Updates).                           *)
HandleDisputeOpen(p, m, v) ==
    /\ IF p = "moderator"
       THEN /\ v = "done"
            /\ dispute' = [[state |-> "DISPUTED", buyer |-> None, vendor |-> None]
                               EXCEPT ![m.from] = m.from]
            /\ UNCHANGED order
       ELSE LET s == State(p) IN
            /\ Answers(v, IF p = "vendor" THEN s = "none"
                          ELSE s \in {"AWAITING_PAYMENT", "AWAITING_FULFILLMENT", "PENDING"},
                       s \notin {"none", "COMPLETED", "DISPUTED", "DECIDED", "RESOLVED",
                                 "REFUNDED", "CANCELED", "DECLINED"}
                       /\ (p = "vendor" => s # "PROCESSING_ERROR"))
            /\ Saves(v, p, "DISPUTED", {"dispute"})
            /\ UNCHANGED dispute
    /\ UNCHANGED coin

(* Fills in the side that is missing, the buyer's first.                    *)
HandleDisputeUpdate(m, v) ==
    /\ Answers(v, dispute = None, dispute.buyer = None \/ dispute.vendor = None)
    /\ dispute' = IF v # "done" THEN dispute
                  ELSE IF dispute.buyer = None THEN [dispute EXCEPT !.buyer = m.from]
                  ELSE [dispute EXCEPT !.vendor = m.from]
    /\ UNCHANGED <<order, coin>>

(* A winner sees that the address is its own.                               *)
HandleDisputeClose(p, m, v) ==
    /\ Answers(v, State(p) # "DISPUTED", m.resolution.award = p => m.resolution.to = p)
    /\ order' = IF v # "done" THEN order
                ELSE [order EXCEPT ![p] =
                          [With(@, IF Has(p, "acceptance") THEN "RESOLVED" ELSE "DECIDED", {})
                               EXCEPT !.resolution = m.resolution]]
    /\ UNCHANGED <<coin, dispute>>

HandleVendorFinalizedPayment(v) ==
    /\ Answers(v, FALSE, State("buyer") \in {"PENDING", "FULFILLED", "DISPUTED"})
    /\ Saves(v, "buyer", "PAYMENT_FINALIZED", {})
    /\ UNCHANGED <<coin, dispute>>

HandleError(v) ==
    /\ Answers(v, FALSE, State("buyer") \notin {"none", "PROCESSING_ERROR"})
    /\ Saves(v, "buyer", "PROCESSING_ERROR", {})
    /\ UNCHANGED <<coin, dispute>>

Handle(p, m, v, offline) ==
    \/ m.type = "ORDER" /\ HandleOrder(v, offline)
    \/ m.type = "ORDER_CONFIRMATION" /\ HandleOrderConfirmation(v)
    \/ m.type = "ORDER_CANCEL" /\ HandleOrderCancel(v)
    \/ m.type = "ORDER_REJECT" /\ HandleReject(v)
    \/ m.type = "REFUND" /\ HandleRefund(v)
    \/ m.type = "ORDER_FULFILLMENT" /\ HandleOrderFulfillment(v)
    \/ m.type = "ORDER_COMPLETION" /\ HandleOrderCompletion(v)
    \/ m.type = "DISPUTE_OPEN" /\ HandleDisputeOpen(p, m, v)
    \/ m.type = "DISPUTE_UPDATE" /\ HandleDisputeUpdate(m, v)
    \/ m.type = "DISPUTE_CLOSE" /\ HandleDisputeClose(p, m, v)
    \/ m.type = "VENDOR_FINALIZED_PAYMENT" /\ HandleVendorFinalizedPayment(v)
    \/ m.type = "ERROR" /\ HandleError(v)

(* What p sends on handling m, and to whom.                                 *)
Updates(p, m, v) ==
    {u \in {Msg("DISPUTE_UPDATE", p)} : m.type = "DISPUTE_OPEN" /\ p # "moderator" /\ v = "done"}
Errors(p, m, v, offline) ==
    {e \in {Msg("ERROR", p)} : m.type = "ORDER" /\ v = "failed" /\ KeepsError(offline)}

(* p handles m, w being the streams without m and s the storage without it. *)
(* The answer to an ORDER that nobody waits for is dropped.                 *)
Handled(p, m, v, offline, w, s) ==
    LET replies == Updates(p, m, v) \cup Errors(p, m, v, offline)
        to == IF m.type = "ORDER" THEN "buyer" ELSE "moderator" IN
    /\ Handle(p, m, v, offline)
    /\ \E direct \in SUBSET replies :
           /\ \A u \in replies \ direct : u.type \in Slow[method]
           /\ wire' = OnWire(w, p, to, direct)
           /\ stored' = [s EXCEPT ![to] = @ \cup (replies \ direct)]
    /\ lost' = IF m.type = "ORDER" /\ order["vendor"] # None /\ order' # order
               THEN lost \cup Facts(order["vendor"]) ELSE lost
    /\ UNCHANGED <<method, ledger, call, cached, repeats, times, crashes>>

-----------------------------------------------------------------------------
(* Delivery.  A message on a stream is handled once, whatever the answer.   *)
Deliver(p, q) ==
    /\ wire[p][q] # <<>>
    /\ \E v \in Verdict :
           Handled(q, Head(wire[p][q]), v, FALSE, [wire EXCEPT ![p][q] = Tail(@)], stored)
    /\ UNCHANGED <<queued, pass>>
    /\ Bounded

(* A message from offline storage is fetched once and put aside if it is    *)
(* too early.                                                               *)
Fetch(p) ==
    \E m \in stored[p], v \in Verdict :
        /\ Handled(p, m, v, TRUE, wire, [stored EXCEPT ![p] = @ \ {m}])
        /\ queued' = [queued EXCEPT ![p] = IF v = "later" THEN @ \cup {m} ELSE @]
        /\ UNCHANGED pass
        /\ Bounded

(* processQueuedMessages: what was put aside is handled by type, and        *)
(* deleted in the end unless the handler failed.  handleMessage returns nil *)
(* for what is still too early, too.                                        *)
BeginPass(p) ==
    /\ pass[p] = None /\ queued[p] # {}
    /\ pass' = [pass EXCEPT ![p] = [todo |-> queued[p], done |-> {}]]
    /\ UNCHANGED <<method, order, ledger, dispute, coin, wire, stored, queued,
                   cached, repeats, call, times, crashes, lost>>

Rank(m) == CHOOSE i \in DOMAIN MessageType : MessageType[i] = m.type

Deletes(v) == v # "failed"

ProcessQueued(p) ==
    /\ pass[p] # None
    /\ \E m \in pass[p].todo, v \in Verdict :
           /\ \A n \in pass[p].todo : Rank(m) <= Rank(n)
           /\ Handled(p, m, v, TRUE, wire, stored)
           /\ pass' = [pass EXCEPT ![p] =
                  [todo |-> @.todo \ {m},
                   done |-> IF Deletes(v) THEN @.done \cup {m} ELSE @.done]]
    /\ UNCHANGED queued
    /\ Bounded

EndPass(p) ==
    /\ pass[p] # None /\ pass[p].todo = {}
    /\ queued' = [queued EXCEPT ![p] = @ \ pass[p].done]
    /\ pass' = [pass EXCEPT ![p] = None]
    /\ UNCHANGED <<method, order, ledger, dispute, coin, wire, stored, cached, repeats, call,
                   times, crashes, lost>>

-----------------------------------------------------------------------------
(* The wallet of p tells it of the payment, once or again.                  *)

Paid(c) ==
    IF c.state # "AWAITING_PAYMENT" THEN c
    ELSE With(c, IF "confirmation" \in c.parts THEN "AWAITING_FULFILLMENT" ELSE "PENDING", {})

(* cleanupOrderState, with the state from before the payment was processed. *)
Cleaned(c, state) ==
    IF \/ c.resolution # None /\ state \notin {"DECIDED", "RESOLVED"}
       \/ "acceptance" \in c.parts /\ state = "DISPUTED"
    THEN With(c, "RESOLVED", {}) ELSE c

PaymentSeen(p) ==
    /\ order[p] # None /\ coin # "unpaid"
    /\ p = "vendor" => State(p) # "PROCESSING_ERROR"
    /\ order' = [order EXCEPT ![p] = Cleaned(Paid(@), State(p))]
    /\ ledger' = [ledger EXCEPT ![p] = IF @ = "unseen" THEN "unspent" ELSE @]
    /\ UNCHANGED <<method, dispute, coin, mail, call, times, crashes, lost>>

(* The wallet of p tells it that the escrow was spent.                      *)
SpendSeen(p) ==
    /\ method # "ADDRESS_REQUEST" /\ coin \in Trader
    /\ Funded(p)
    /\ ledger' = [ledger EXCEPT ![p] = "spent"]
    /\ order' = IF ~Has(p, "dispute") THEN order
                ELSE [order EXCEPT ![p] =
                          With(@, IF @.state = "DECIDED" THEN "RESOLVED" ELSE @.state, {"acceptance"})]
    /\ UNCHANGED <<method, dispute, coin, mail, call, times, crashes, lost>>

-----------------------------------------------------------------------------
EscrowTimesOut ==
    /\ ~late /\ coin # "unpaid"
    /\ late' = TRUE
    /\ UNCHANGED <<method, order, ledger, dispute, coin, mail, call, overdue, crashes, lost>>

DisputeExpires ==
    /\ ~overdue /\ \E p \in Trader : Has(p, "dispute")
    /\ overdue' = TRUE
    /\ UNCHANGED <<method, order, ledger, dispute, coin, mail, call, late, crashes, lost>>

(* The node of p stops and starts again: its calls, its pass and what was   *)
(* on the way to it are gone.  (With none of these it would change nothing.) *)
Crash(p) ==
    /\ method # None /\ p \in Crashing[method] /\ crashes < MaxCrashes
    /\ call[p] # <<>> \/ pass[p] # None \/ \E q \in Party : wire[q][p] # <<>>
    /\ crashes' = crashes + 1
    /\ call' = [call EXCEPT ![p] = <<>>]
    /\ pass' = [pass EXCEPT ![p] = None]
    /\ wire' = [q \in Party |-> [wire[q] EXCEPT ![p] = <<>>]]
    /\ UNCHANGED <<method, order, ledger, dispute, coin, stored, queued, cached, repeats,
                   times, lost>>

BuyerCalls ==
    \/ PurchaseOnline \/ PurchaseOffline \/ Pay
    \/ CancelOfflineOrder \/ CompleteOrder
    \/ OpenDispute("buyer") \/ ReleaseFunds("buyer")

VendorCalls ==
    \/ ConfirmOfflineOrder \/ RejectOfflineOrder \/ RefundOrder \/ FulfillOrder
    \/ ReleaseFundsAfterTimeout
    \/ OpenDispute("vendor") \/ ReleaseFunds("vendor")

Effects(p) ==
    \/ DoPut(p) \/ DoSend(p) \/ DoSpend(p) \/ SpendFails(p) \/ DoRepay(p)
    \/ MarkAsClosed(p)

Mail(p) ==
    \/ \E q \in Party : Deliver(q, p)
    \/ Fetch(p) \/ BeginPass(p) \/ ProcessQueued(p) \/ EndPass(p)

Next ==
    \/ BuyerCalls \/ VendorCalls \/ CloseDispute
    \/ \E p \in Party : Effects(p) \/ ResendCachedOrderMessage(p) \/ Mail(p) \/ Crash(p)
    \/ \E p \in Trader : PaymentSeen(p) \/ SpendSeen(p)
    \/ EscrowTimesOut \/ DisputeExpires

Spec == Init /\ [][Next]_vars

-----------------------------------------------------------------------------
(* Properties.                                                              *)

(* Whoever believes that an order was canceled, declined or refunded from   *)
(* the escrow is right about the money: it is with the buyer, whatever      *)
(* messages, callbacks and calls went before and come after                 *)
(* (CancelOfflineOrder, handleOrderCancel, handleReject, handleRefund).     *)
CanceledIsRefunded ==
    /\ State("vendor") = "CANCELED" => coin = "buyer"
    /\ State("buyer") \in {"CANCELED", "DECLINED"} => coin = "buyer"
    /\ Moderated /\ State("buyer") = "REFUNDED" => coin = "buyer"

(* A buyer that holds a confirmation has it from a vendor that knows of it, *)
(* unless the same ORDER came again and made it forget; although the vendor *)
(* may recover its old record when the wallet refuses                       *)
(* (ConfirmOfflineOrder, recoverState), may restart at any step, and its    *)
(* calls store what they read before a handler changed it.                  *)
ConfirmationIsBacked ==
    Has("buyer", "confirmation") => Has("vendor", "confirmation") \/ "confirmation" \in lost

(* A vendor is paid from a moderated escrow before its timeout only if the  *)
(* buyer has been told of the shipment or the moderator has decided: one of *)
(* the two has recorded it, the vendor perhaps before an ORDER came again.  *)
SettledByAgreement ==
    Moderated /\ coin = "vendor" /\ ~late =>
        \/ Has("buyer", "fulfillment")
        \/ \E p \in Trader : order[p] # None /\ order[p].resolution # None
        \/ "award" \in lost

(* Without a moderator a vendor ships, and a buyer learns of the shipment   *)
(* and completes the order, only when the price is the vendor's: a cancel   *)
(* or reject that crosses the confirmation stops it.  A DIRECT order cannot *)
(* come twice.  (A restart in the middle of ConfirmOfflineOrder or          *)
(* RefundOrder breaks this, and so does an ADDRESS_REQUEST that is sent     *)
(* again when the vendor has shipped: it may then refund what it shipped.)  *)
ShippedIsPaid ==
    /\ ~Moderated /\ crashes = 0 /\ lost = {}
    /\ \/ State("vendor") = "FULFILLED"
       \/ State("buyer") = "COMPLETED"
       \/ Has("buyer", "fulfillment")
    => coin = "vendor"

(* What a trader's record says of the other trader's, or of the money, is   *)
(* so: of cancellations and refunds, of the confirmation, of the shipment.  *)
RecordsAreBacked == CanceledIsRefunded /\ ConfirmationIsBacked /\ ShippedIsPaid

(* What a trader has recorded of a payout has happened: an accepted award   *)
(* was paid as the resolution says, and a finalized payment went to the     *)
(* vendor (ReleaseFunds, ReleaseFundsAfterTimeout,                          *)
(* handleVendorFinalizedPayment).                                           *)
PayoutHappened ==
    /\ \A p \in Trader : Has(p, "acceptance") => coin \in Trader
    /\ \A p \in Trader : State(p) = "DECIDED" /\ Has(p, "acceptance") =>
           coin = order[p].resolution.to
    /\ \A p \in Trader : State(p) = "PAYMENT_FINALIZED" => coin = "vendor"
=============================================================================
