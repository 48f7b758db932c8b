---------------------------- MODULE OrderProofs ----------------------------
(***************************************************************************)
(* Proofs about Order, for any ways of payment, any messages that may be   *)
(* late or sent again, any nodes that may restart and any bounds: what the *)
(* traders record of each other and of the money is so.  An ORDER that     *)
(* comes again overwrites the sale; "lost" keeps what the sale held, and   *)
(* the invariant says what is left of it then.                             *)
(***************************************************************************)
EXTENDS Order, FiniteSetTheorems, TLAPS

-----------------------------------------------------------------------------
(* Sequences.                                                               *)

LEMMA TailRange == ASSUME NEW S, NEW s \in Seq(S), s # <<>>
  PROVE Tail(s) \in Seq(S) /\ Head(s) \in S /\ Range(s) = {Head(s)} \cup Range(Tail(s))
  <1>1. Tail(s) \in Seq(S) /\ Head(s) \in S
    OBVIOUS
  <1>2. /\ DOMAIN s = 1..Len(s) /\ DOMAIN Tail(s) = 1..(Len(s) - 1)
        /\ Len(s) \in Nat \ {0} /\ Head(s) = s[1]
        /\ \A i \in 1..(Len(s) - 1) : Tail(s)[i] = s[i + 1]
    OBVIOUS
  <1>3. ASSUME NEW x \in Range(s) PROVE x = Head(s) \/ x \in Range(Tail(s))
    <2>1. PICK i \in 1..Len(s) : s[i] = x
      BY <1>2 DEF Range
    <2>2. CASE i = 1
      BY <1>2, <2>1, <2>2
    <2>3. CASE i # 1
      <3>1. i - 1 \in 1..(Len(s) - 1) /\ (i - 1) + 1 = i
        BY <1>2, <2>3
      <3>2. Tail(s)[i - 1] = x
        BY <1>2, <2>1, <3>1
      <3> QED
        BY <1>2, <3>1, <3>2 DEF Range
    <2> QED
      BY <2>2, <2>3
  <1>4. ASSUME NEW x \in Range(Tail(s)) PROVE x \in Range(s)
    <2>1. PICK i \in 1..(Len(s) - 1) : Tail(s)[i] = x
      BY <1>2 DEF Range
    <2>2. i + 1 \in 1..Len(s) /\ s[i + 1] = x
      BY <1>2, <2>1
    <2> QED
      BY <1>2, <2>2 DEF Range
  <1>5. Head(s) \in Range(s)
    BY <1>2 DEF Range
  <1> QED
    BY <1>1, <1>3, <1>4, <1>5

LEMMA RangeIn == ASSUME NEW S, NEW s \in Seq(S) PROVE Range(s) \subseteq S
  BY DEF Range

LEMMA Conc == ASSUME NEW S, NEW s \in Seq(S), NEW t \in Seq(S)
  PROVE s \o t \in Seq(S) /\ Range(s \o t) \subseteq Range(s) \cup Range(t)
  <1>1. /\ s \o t \in Seq(S)
        /\ DOMAIN s = 1..Len(s) /\ DOMAIN t = 1..Len(t) /\ DOMAIN (s \o t) = 1..(Len(s) + Len(t))
        /\ \A i \in 1..(Len(s) + Len(t)) : (s \o t)[i] = IF i <= Len(s) THEN s[i] ELSE t[i - Len(s)]
        /\ Len(s) \in Nat /\ Len(t) \in Nat
    OBVIOUS
  <1>2. ASSUME NEW x \in Range(s \o t) PROVE x \in Range(s) \cup Range(t)
    <2>1. PICK i \in 1..(Len(s) + Len(t)) : (s \o t)[i] = x
      BY <1>1 DEF Range
    <2>2. CASE i <= Len(s)
      <3>1. i \in 1..Len(s) /\ s[i] = x
        BY <1>1, <2>1, <2>2
      <3> QED
        BY <1>1, <3>1 DEF Range
    <2>3. CASE ~(i <= Len(s))
      <3>1. i - Len(s) \in 1..Len(t) /\ t[i - Len(s)] = x
        BY <1>1, <2>1, <2>3
      <3> QED
        BY <1>1, <3>1 DEF Range
    <2> QED
      BY <2>2, <2>3
  <1> QED
    BY <1>1, <1>2

LEMMA SetToSeqIs == ASSUME NEW M, IsFiniteSet(M)
  PROVE SetToSeq(M) \in Seq(M) /\ Range(SetToSeq(M)) \subseteq M
  <1> DEFINE n == Cardinality(M)
  <1>1. n \in Nat /\ ExistsBijection(1..n, M)
    BY FS_CardinalityType
  <1>2. PICK f \in Bijection(1..n, M) : TRUE
    BY <1>1 DEF ExistsBijection
  <1>3. f \in [1..n -> M] /\ IsInjective(f)
    BY <1>2 DEF Bijection, Injection, IsInjective
  <1>4. SetToSeq(M) \in [1..n -> M]
    BY <1>3 DEF SetToSeq
  <1> HIDE DEF n
  <1> QED
    BY <1>1, <1>4 DEF Range

LEMMA MessageTypes ==
  Range(MessageType) =
      {"ORDER", "ORDER_CANCEL", "ORDER_REJECT", "ORDER_CONFIRMATION",
       "ORDER_FULFILLMENT", "ORDER_COMPLETION", "DISPUTE_OPEN", "DISPUTE_UPDATE",
       "VENDOR_FINALIZED_PAYMENT", "DISPUTE_CLOSE", "REFUND", "ERROR"}
  <1>1. DOMAIN MessageType = {1, 2, 3, 4, 5, 6, 7, 8, 9, 10, 11, 12}
    BY DEF MessageType
  <1> QED
    BY <1>1 DEF MessageType, Range

-----------------------------------------------------------------------------
(* Types.  A decision names who is paid, and a trader updates a dispute.    *)

SoundContract == {c \in Contract : c.state = "DECIDED" => c.resolution # None}
SoundMessage == {m \in Message :
    /\ m.type = "DISPUTE_CLOSE" => m.resolution # None
    /\ m.type = "DISPUTE_UPDATE" => m.from \in Trader}

Effect ==
    [do : {"put"}, contract : SoundContract]
    \cup [do : {"send"}, to : Party, msg : SoundMessage]
    \cup [do : {"spend"}, to : Trader, undo : SoundContract \cup {None}]
    \cup [do : {"repay"}] \cup [do : {"close"}]

OrderMap == [Trader -> SoundContract \cup {None}]
WireMap == [Party -> [Party -> Seq(SoundMessage)]]
MailMap == [Party -> SUBSET SoundMessage]
PassMap == [Party -> [todo : SUBSET SoundMessage, done : SUBSET SoundMessage] \cup {None}]
CallMap == [Party -> Seq(Effect)]
CacheMap == [Party -> SUBSET [to : Party, msg : SoundMessage]]
Coins == {"unpaid", "escrow"} \cup Trader

MailTyped ==
    /\ wire \in WireMap /\ stored \in MailMap /\ queued \in MailMap /\ pass \in PassMap
    /\ cached \in CacheMap /\ repeats \in 0..MaxRepeats
    /\ \A p \in Party : pass[p] # None =>
           pass[p].todo \subseteq queued[p] /\ pass[p].done \subseteq queued[p]

Typed ==
    /\ method \in Method \cup {None}
    /\ order \in OrderMap
    /\ ledger \in [Trader -> {"unseen", "unspent", "spent"}]
    /\ dispute \in Case \cup {None}
    /\ coin \in Coins
    /\ MailTyped
    /\ call \in CallMap
    /\ late \in BOOLEAN /\ overdue \in BOOLEAN
    /\ crashes \in 0..MaxCrashes
    /\ lost \subseteq Fact

LEMMA TypedOK == Typed => TypeOK
  <1> SUFFICES ASSUME Typed PROVE TypeOK
    OBVIOUS
  <1>1. \A p, q \in Party : \A i \in DOMAIN wire[p][q] : wire[p][q][i] \in Message
    <2> TAKE p \in Party, q \in Party
    <2>1. wire[p][q] \in Seq(SoundMessage)
      BY DEF Typed, MailTyped, WireMap
    <2>2. \A i \in DOMAIN wire[p][q] : wire[p][q][i] \in SoundMessage
      BY <2>1
    <2> QED
      BY <2>2 DEF SoundMessage
  <1>2. order \in [Trader -> Contract \cup {None}]
    BY DEF Typed, OrderMap, SoundContract
  <1>3. stored \in [Party -> SUBSET Message] /\ queued \in [Party -> SUBSET Message]
    BY DEF Typed, MailTyped, MailMap, SoundMessage
  <1>4. cached \in [Party -> SUBSET Letter]
    <2>1. [to : Party, msg : SoundMessage] \subseteq Letter
      BY DEF SoundMessage, Letter
    <2>2. cached \in [Party -> SUBSET [to : Party, msg : SoundMessage]]
      BY DEF Typed, MailTyped, CacheMap
    <2> HIDE DEF Letter
    <2> QED
      BY <2>1, <2>2
  <1> QED
    BY <1>1, <1>2, <1>3, <1>4 DEF Typed, MailTyped, TypeOK, Coins

LEMMA TypedInit == Init => Typed
  <1> SUFFICES ASSUME Init PROVE Typed
    OBVIOUS
  <1>1. wire \in WireMap
    BY DEF Init, WireMap
  <1>2. call \in CallMap
    BY DEF Init, CallMap
  <1>3. stored \in MailMap /\ queued \in MailMap /\ pass \in PassMap /\ order \in OrderMap
    BY DEF Init, MailMap, PassMap, OrderMap
  <1>4. MailTyped
    <2>1. cached \in CacheMap /\ repeats \in 0..MaxRepeats
      BY OrderAssumption DEF Init, CacheMap
    <2> QED
      BY <1>1, <1>3, <2>1 DEF MailTyped, Init
  <1>5. late \in BOOLEAN /\ overdue \in BOOLEAN
    BY DEF Init
  <1>6. crashes \in 0..MaxCrashes
    BY OrderAssumption DEF Init
  <1>7. ledger \in [Trader -> {"unseen", "unspent", "spent"}] /\ dispute \in Case \cup {None}
    BY DEF Init
  <1>8. method \in Method \cup {None} /\ coin \in Coins /\ lost \subseteq Fact
    BY DEF Init, Coins
  <1> QED
    BY <1>2, <1>3, <1>4, <1>5, <1>6, <1>7, <1>8 DEF Typed

LEMMA WithSound ==
  ASSUME NEW c \in SoundContract, NEW s \in OrderState, NEW S \in SUBSET Part,
         s = "DECIDED" => c.resolution # None
  PROVE  /\ With(c, s, S) \in SoundContract
         /\ With(c, s, S).state = s
         /\ With(c, s, S).parts = c.parts \cup S
         /\ With(c, s, S).resolution = c.resolution
  BY DEF SoundContract, Contract, With

LEMMA WithState ==
  ASSUME NEW c \in SoundContract, NEW s \in OrderState, s # "DECIDED"
  PROVE  /\ With(c, s, {}) \in SoundContract
         /\ With(c, s, {}).state = s
         /\ With(c, s, {}).parts = c.parts
         /\ With(c, s, {}).resolution = c.resolution
  BY DEF SoundContract, Contract, With

LEMMA NewSound == New \in SoundContract
  BY DEF New, SoundContract, Contract, OrderState

LEMMA NewWith ==
  ASSUME NEW S \in SUBSET Part
  PROVE  /\ With(New, "AWAITING_PAYMENT", S) \in SoundContract
         /\ With(New, "AWAITING_PAYMENT", S).state = "AWAITING_PAYMENT"
         /\ With(New, "AWAITING_PAYMENT", S).parts = New.parts \cup S
         /\ With(New, "AWAITING_PAYMENT", S).resolution = None
  <1>1. PICK c, s : c = New /\ s = "AWAITING_PAYMENT"
    OBVIOUS
  <1>2. c \in SoundContract /\ c.resolution = None
    BY <1>1, NewSound DEF New
  <1>3. s \in OrderState /\ s # "DECIDED"
    BY <1>1 DEF OrderState
  <1>4. /\ With(c, s, S) \in SoundContract /\ With(c, s, S).state = s
        /\ With(c, s, S).parts = c.parts \cup S /\ With(c, s, S).resolution = c.resolution
    BY <1>2, <1>3, WithSound
  <1> QED
    BY <1>1, <1>2, <1>4

LEMMA OrderKnown ==
  ASSUME Typed, NEW p \in Trader, State(p) # "none"
  PROVE  order[p] \in SoundContract /\ order[p] # None /\ order[p].state = State(p)
  BY DEF Typed, OrderMap, State

LEMMA PutTyped == ASSUME NEW c \in SoundContract PROVE Put(c) \in Effect
  BY DEF Put, Effect

LEMMA SendTyped ==
  ASSUME NEW q \in Party, NEW m \in SoundMessage
  PROVE  Send(q, m) \in Effect
  BY DEF Send, Effect

LEMMA SpendTyped ==
  ASSUME NEW q \in Trader, NEW u \in SoundContract \cup {None}
  PROVE  Spend(q, u) \in Effect
  BY DEF Spend, Effect

LEMMA MsgSound ==
  ASSUME NEW p \in Party, NEW t \in Range(MessageType), t # "DISPUTE_CLOSE",
         t = "DISPUTE_UPDATE" => p \in Trader
  PROVE  Msg(t, p) \in SoundMessage
  BY DEF Msg, SoundMessage, Message

LEMMA CallsTyped ==
  ASSUME call \in CallMap, NEW p \in Party, NEW s \in Seq(Effect), Calls(p, s)
  PROVE  call' \in CallMap
  BY DEF CallMap, Calls

LEMMA OnlyTyped ==
  ASSUME Typed, NEW p \in Party, NEW s \in Seq(Effect), Only(p, s)
  PROVE  Typed'
  <1>1. call' \in CallMap
    BY CallsTyped DEF Only, Typed
  <1>2. MailTyped'
    BY DEF MailTyped, Typed, Only, mail
  <1> QED
    BY <1>1, <1>2 DEF Typed, Only, times

LEMMA PartyFacts ==
  /\ "buyer" \in Trader /\ "vendor" \in Trader /\ Trader \subseteq Party
  /\ "moderator" \in Party /\ "moderator" \notin Trader
  /\ \A p \in Trader : Other(p) \in Trader
  BY DEF Trader, Party, Other

(* Every call that may start, with its effects.                             *)
LEMMA ConfirmTyped ==
  ASSUME Typed, ConfirmOfflineOrder
  PROVE  Typed'
  <1> DEFINE c == order["vendor"]
             n == With(c, "AWAITING_FULFILLMENT", {"confirmation"})
             m == Msg("ORDER_CONFIRMATION", "vendor")
  <1>1. c \in SoundContract
    BY OrderKnown, PartyFacts DEF ConfirmOfflineOrder, MayConfirm
  <1>2. Put(n) \in Effect
    BY <1>1, WithSound, PutTyped DEF OrderState, Part
  <1>3. Spend("vendor", c) \in Effect
    BY <1>1, SpendTyped, PartyFacts
  <1>4. Send("buyer", m) \in Effect
    BY MsgSound, MessageTypes, SendTyped, PartyFacts
  <1> DEFINE s == IF Moderated THEN <<Put(n), Send("buyer", m)>>
                  ELSE <<Put(n), Spend("vendor", c), Send("buyer", m)>>
  <1>5. s \in Seq(Effect)
    <2> HIDE DEF n, m, c
    <2> QED
      BY <1>2, <1>3, <1>4
  <1>6. Only("vendor", s)
    BY DEF ConfirmOfflineOrder
  <1> QED
    BY <1>5, <1>6, OnlyTyped, PartyFacts

LEMMA RefundTyped ==
  ASSUME Typed, RefundOrder
  PROVE  Typed'
  <1> DEFINE n == With(order["vendor"], "REFUNDED", {})
             m == Msg("REFUND", "vendor")
  <1>1. order["vendor"] \in SoundContract
    BY OrderKnown, PartyFacts DEF RefundOrder, MayRefund
  <1>2. Put(n) \in Effect
    BY <1>1, WithSound, PutTyped DEF OrderState, Part
  <1>3. Repay \in Effect
    BY DEF Repay, Effect
  <1>4. Send("buyer", m) \in Effect
    BY MsgSound, MessageTypes, SendTyped, PartyFacts
  <1> DEFINE s == IF Moderated THEN <<Send("buyer", m), Put(n)>> ELSE <<Repay, Send("buyer", m), Put(n)>>
  <1>5. s \in Seq(Effect)
    <2> HIDE DEF n, m
    <2> QED
      BY <1>2, <1>3, <1>4
  <1>6. Only("vendor", s)
    BY DEF RefundOrder
  <1> QED
    BY <1>5, <1>6, OnlyTyped, PartyFacts

(* A message, then a record (reject, fulfill, complete).                    *)
LEMMA SendPutTyped ==
  ASSUME Typed, NEW p \in Trader, NEW q \in Party, NEW t \in Range(MessageType),
         t \notin {"DISPUTE_CLOSE", "DISPUTE_UPDATE"},
         NEW s \in OrderState, s # "DECIDED", NEW S \in SUBSET Part, State(p) # "none",
         Only(p, <<Send(q, Msg(t, p)), Put(With(order[p], s, S))>>)
  PROVE  Typed'
  <1>1. order[p] \in SoundContract
    BY OrderKnown
  <1>2. Put(With(order[p], s, S)) \in Effect
    BY <1>1, WithSound, PutTyped
  <1>3. Send(q, Msg(t, p)) \in Effect
    BY MsgSound, SendTyped, PartyFacts
  <1>4. <<Send(q, Msg(t, p)), Put(With(order[p], s, S))>> \in Seq(Effect)
    BY <1>2, <1>3
  <1> QED
    BY <1>4, OnlyTyped, PartyFacts

LEMMA DisputeTyped ==
  ASSUME Typed, NEW p \in Trader, OpenDispute(p)
  PROVE  Typed'
  <1> DEFINE a == Send("moderator", Msg("DISPUTE_OPEN", p))
             b == Send(Other(p), Msg("DISPUTE_OPEN", p))
             c == Put(With(order[p], "DISPUTED", {"dispute"}))
  <1>1. order[p] \in SoundContract
    BY OrderKnown DEF OpenDispute, MayDispute
  <1>2. c \in Effect
    BY <1>1, WithSound, PutTyped DEF OrderState, Part
  <1>3. a \in Effect /\ b \in Effect
    BY MsgSound, MessageTypes, SendTyped, PartyFacts
  <1>4. Only(p, <<a, b, c>>)
    BY DEF OpenDispute
  <1> HIDE DEF a, b, c
  <1>5. <<a, b, c>> \in Seq(Effect)
    BY <1>2, <1>3
  <1> QED
    BY <1>4, <1>5, OnlyTyped, PartyFacts

LEMMA ReleaseTyped ==
  ASSUME Typed, NEW p \in Trader, ReleaseFunds(p)
  PROVE  Typed'
  <1> DEFINE a == Spend(order[p].resolution.to, None)
             b == Put(With(order[p], "DECIDED", {"acceptance"}))
  <1>1. order[p] \in SoundContract /\ order[p].state = "DECIDED"
    BY OrderKnown DEF ReleaseFunds, MayRelease
  <1>2. order[p].resolution \in Resolution /\ order[p].resolution # None
    BY <1>1 DEF SoundContract, Contract
  <1>3. b \in Effect
    BY <1>1, <1>2, WithSound, PutTyped DEF OrderState, Part
  <1>4. a \in Effect
    BY <1>2, SpendTyped DEF Resolution
  <1>5. Only(p, <<a, b>>)
    BY DEF ReleaseFunds
  <1> HIDE DEF a, b
  <1>6. <<a, b>> \in Seq(Effect)
    BY <1>3, <1>4
  <1> QED
    BY <1>5, <1>6, OnlyTyped, PartyFacts

LEMMA CancelTyped ==
  ASSUME Typed, CancelOfflineOrder
  PROVE  Typed'
  <1> DEFINE a == Spend("buyer", None)
             b == Send("vendor", Msg("ORDER_CANCEL", "buyer"))
             c == Put(With(order["buyer"], "CANCELED", {}))
  <1>1. order["buyer"] \in SoundContract
    BY OrderKnown, PartyFacts DEF CancelOfflineOrder, MayCancel
  <1>2. a \in Effect /\ b \in Effect
    BY SpendTyped, MsgSound, MessageTypes, SendTyped, PartyFacts
  <1>3. c \in Effect
    BY <1>1, WithSound, PutTyped DEF OrderState, Part
  <1>4. Only("buyer", <<a, b, c>>)
    BY DEF CancelOfflineOrder
  <1> HIDE DEF a, b, c
  <1>5. <<a, b, c>> \in Seq(Effect)
    BY <1>2, <1>3
  <1> QED
    BY <1>4, <1>5, OnlyTyped, PartyFacts

LEMMA TimeoutTyped ==
  ASSUME Typed, ReleaseFundsAfterTimeout
  PROVE  Typed'
  <1> DEFINE a == Spend("vendor", None)
             b == Put(With(order["vendor"], "PAYMENT_FINALIZED", {}))
             c == Send("buyer", Msg("VENDOR_FINALIZED_PAYMENT", "vendor"))
  <1>1. order["vendor"] \in SoundContract
    BY OrderKnown, PartyFacts DEF ReleaseFundsAfterTimeout, MayReleaseEscrow
  <1>2. a \in Effect /\ c \in Effect
    BY SpendTyped, MsgSound, MessageTypes, SendTyped, PartyFacts
  <1>3. b \in Effect
    BY <1>1, WithSound, PutTyped DEF OrderState, Part
  <1>4. Only("vendor", <<a, b, c>>)
    BY DEF ReleaseFundsAfterTimeout
  <1> HIDE DEF a, b, c
  <1>5. <<a, b, c>> \in Seq(Effect)
    BY <1>2, <1>3
  <1> QED
    BY <1>4, <1>5, OnlyTyped, PartyFacts

LEMMA CloseTyped ==
  ASSUME Typed, CloseDispute
  PROVE  Typed'
  <1>1. PICK award \in Trader :
          /\ dispute[award] # None
          /\ LET m == [type |-> "DISPUTE_CLOSE", from |-> "moderator",
                       resolution |-> [award |-> award, to |-> dispute[award]]] IN
             Only("moderator", <<Send("buyer", m), Send("vendor", m), CloseCase>>)
    BY DEF CloseDispute
  <1> DEFINE r == [award |-> award, to |-> dispute[award]]
             m == [type |-> "DISPUTE_CLOSE", from |-> "moderator", resolution |-> r]
  <1>2. dispute \in Case
    BY DEF Typed, CloseDispute
  <1>3. r \in Resolution
    BY <1>1, <1>2 DEF Resolution, Case, Trader
  <1>4. m \in SoundMessage
    BY <1>3, MessageTypes, PartyFacts, NoneAssumption DEF SoundMessage, Message
  <1>5. Only("moderator", <<Send("buyer", m), Send("vendor", m), CloseCase>>)
    BY <1>1
  <1> HIDE DEF m
  <1>6. Send("buyer", m) \in Effect /\ Send("vendor", m) \in Effect /\ CloseCase \in Effect
    BY <1>4, SendTyped, PartyFacts DEF CloseCase, Effect
  <1>7. <<Send("buyer", m), Send("vendor", m), CloseCase>> \in Seq(Effect)
    BY <1>6
  <1> QED
    BY <1>5, <1>7, OnlyTyped, PartyFacts

-----------------------------------------------------------------------------
(* The mail.                                                                *)

Carried(w, s, q) ==
    {m \in SoundMessage : \/ \E p, r \in Party : m \in Range(w[p][r])
                          \/ \E p \in Party : m \in s[p] \cup q[p]}

(* The messages under way or kept to be sent again, and their types.        *)
Kept == {m \in SoundMessage : \E p \in Party : \E l \in cached[p] : l.msg = m}
UnderWay == Carried(wire, stored, queued) \cup Kept
Told(t) == \E m \in UnderWay : m.type = t

(* A DIRECT ORDER waits in the vendor's storage only.                       *)
OrdersWait(w, s, q) ==
    /\ \A p, r \in Party : \A m \in Range(w[p][r]) : m.type # "ORDER"
    /\ \A p \in Party : \A m \in q[p] : m.type # "ORDER"
    /\ \A p \in Party : \A m \in s[p] :
           m.type = "ORDER" => p = "vendor" /\ m = Msg("ORDER", "buyer")

LEMMA OnWireEffect ==
  ASSUME NEW w \in WireMap, NEW p \in Party, NEW q \in Party,
         NEW M \in SUBSET SoundMessage, IsFiniteSet(M)
  PROVE  /\ OnWire(w, p, q, M) \in WireMap
         /\ \A r, s \in Party : \A m \in Range(OnWire(w, p, q, M)[r][s]) : m \in Range(w[r][s]) \cup M
  <1> DEFINE t == SetToSeq(M)
             u == w[p][q]
             x == OnWire(w, p, q, M)
  <1>1. t \in Seq(SoundMessage) /\ Range(t) \subseteq M
    BY SetToSeqIs
  <1>2. u \in Seq(SoundMessage)
    BY DEF WireMap
  <1>3. u \o t \in Seq(SoundMessage) /\ Range(u \o t) \subseteq Range(u) \cup Range(t)
    BY <1>1, <1>2, Conc
  <1>4. x = [w EXCEPT ![p][q] = u \o t]
    BY DEF OnWire
  <1> HIDE DEF t, u, x
  <1>5. x \in WireMap
    BY <1>3, <1>4 DEF WireMap
  <1>6. ASSUME NEW r \in Party, NEW s \in Party PROVE x[r][s] = IF r = p /\ s = q THEN u \o t ELSE w[r][s]
    BY <1>4 DEF WireMap
  <1>7. ASSUME NEW r \in Party, NEW s \in Party, NEW m \in Range(x[r][s])
        PROVE  m \in Range(w[r][s]) \cup M
    <2>1. CASE r = p /\ s = q
      <3>1. m \in Range(u) \cup Range(t)
        BY <1>3, <1>6, <1>7, <2>1
      <3> QED
        BY <1>1, <2>1, <3>1 DEF u
    <2>2. CASE ~(r = p /\ s = q)
      BY <1>6, <1>7, <2>2
    <2> QED
      BY <2>1, <2>2
  <1> QED
    BY <1>5, <1>7 DEF x

LEMMA RememberKeeps ==
  ASSUME Typed, NEW way, NEW p \in Party, NEW q \in Party, NEW m \in SoundMessage,
         cached' = Remember(way, p, q, m)
  PROVE  /\ cached' \in CacheMap
         /\ \A n \in Kept' : n \in Kept \/ n = m
         /\ way = "DIRECT" /\ m.type = "ORDER" => Kept' = Kept
  <1> DEFINE L == {l \in cached[p] : l.msg.type # m.type} \cup {[to |-> q, msg |-> m]}
  <1>1. cached \in CacheMap
    BY DEF Typed, MailTyped
  <1>2. \/ cached' = cached
        \/ cached' = [cached EXCEPT ![p] = L] /\ ~(way = "DIRECT" /\ m.type = "ORDER")
    BY DEF Remember
  <1>3. /\ L \in SUBSET [to : Party, msg : SoundMessage]
        /\ \A l \in L : l \in cached[p] \/ l.msg = m
    BY <1>1 DEF CacheMap
  <1> HIDE DEF L
  <1>4. CASE cached' = cached
    BY <1>1, <1>4 DEF Kept
  <1>5. CASE cached' = [cached EXCEPT ![p] = L] /\ ~(way = "DIRECT" /\ m.type = "ORDER")
    <2>1. cached' \in CacheMap /\ \A r \in Party : cached'[r] = IF r = p THEN L ELSE cached[r]
      BY <1>1, <1>3, <1>5 DEF CacheMap
    <2>2. ASSUME NEW n \in Kept' PROVE n \in Kept \/ n = m
      BY <1>3, <2>1, <2>2 DEF Kept
    <2> QED
      BY <1>5, <2>1, <2>2
  <1> QED
    BY <1>2, <1>4, <1>5

LEMMA RepeatTyped == ASSUME Typed, Repeat PROVE repeats' \in 0..MaxRepeats
  <1>1. repeats \in 0..MaxRepeats /\ MaxRepeats \in Nat /\ repeats < MaxRepeats /\ repeats' = repeats + 1
    BY OrderAssumption DEF Typed, MailTyped, Repeat
  <1> QED
    BY <1>1

(* An order is kept, and may be on its way, unless it is DIRECT.            *)
LEMMA PurchaseMail ==
  ASSUME Typed, PurchaseOnline \/ PurchaseOffline
  PROVE  /\ MailTyped'
         /\ \A n \in UnderWay' : n \in UnderWay \/ n.type = "ORDER"
         /\ method' = "DIRECT" => UNCHANGED <<wire, stored, queued>> /\ Kept' = Kept
  <1> DEFINE m == Msg("ORDER", "buyer")
  <1>1. m \in SoundMessage /\ m.type = "ORDER" /\ "vendor" \in Party /\ "buyer" \in Party
    BY MsgSound, MessageTypes, PartyFacts DEF Msg
  <1>2. /\ cached' = Remember(method', "buyer", "vendor", m)
        /\ UNCHANGED <<stored, queued, pass>>
        /\ \/ UNCHANGED <<wire, repeats>>
           \/ method' # "DIRECT" /\ Repeat /\ wire' = OnWire(wire, "buyer", "vendor", {m})
    BY DEF PurchaseOnline, PurchaseOffline
  <1> HIDE DEF m
  <1>3. /\ cached' \in CacheMap
        /\ \A n \in Kept' : n \in Kept \/ n = m
        /\ method' = "DIRECT" => Kept' = Kept
    BY <1>1, <1>2, RememberKeeps
  <1>4. wire \in WireMap /\ IsFiniteSet({m}) /\ {m} \in SUBSET SoundMessage
    BY <1>1, FS_Singleton DEF Typed, MailTyped
  <1>5. /\ wire' \in WireMap
        /\ \A r, t \in Party : \A n \in Range(wire'[r][t]) : n \in Range(wire[r][t]) \/ n = m
    <2>1. CASE wire' = wire
      BY <1>4, <2>1
    <2>2. CASE wire' = OnWire(wire, "buyer", "vendor", {m})
      <3>1. /\ OnWire(wire, "buyer", "vendor", {m}) \in WireMap
            /\ \A r, t \in Party : \A n \in Range(OnWire(wire, "buyer", "vendor", {m})[r][t]) :
                   n \in Range(wire[r][t]) \cup {m}
        BY <1>1, <1>4, OnWireEffect
      <3> QED
        BY <2>2, <3>1
    <2> QED
      BY <1>2, <2>1, <2>2
  <1>6. repeats' \in 0..MaxRepeats
    BY <1>2, RepeatTyped DEF Typed, MailTyped
  <1>7. MailTyped'
    BY <1>2, <1>3, <1>5, <1>6 DEF Typed, MailTyped
  <1>8. \A n \in UnderWay' : n \in UnderWay \/ n = m
    BY <1>2, <1>3, <1>5 DEF UnderWay, Carried
  <1> QED
    BY <1>1, <1>2, <1>3, <1>7, <1>8

LEMMA PurchaseTyped ==
  ASSUME Typed, PurchaseOnline \/ PurchaseOffline
  PROVE  Typed'
  <1> DEFINE n == With(New, "AWAITING_PAYMENT", {"confirmation"})
             m == Msg("ORDER", "buyer")
  <1>1. n \in SoundContract /\ Put(n) \in Effect /\ Put(New) \in Effect
    BY NewSound, WithSound, PutTyped DEF OrderState, Part
  <1>2. Send("vendor", m) \in Effect
    BY MsgSound, MessageTypes, SendTyped, PartyFacts
  <1>3. MailTyped'
    BY PurchaseMail
  <1>4. CASE PurchaseOnline
    <2> HIDE DEF n
    <2>1. <<Put(n)>> \in Seq(Effect)
      BY <1>1
    <2>2. Calls("buyer", <<Put(n)>>)
      BY <1>4 DEF PurchaseOnline, n
    <2>3. call' \in CallMap
      BY <2>1, <2>2, CallsTyped, PartyFacts DEF Typed
    <2>4. order' \in OrderMap
      BY <1>1, <1>4 DEF PurchaseOnline, OrderMap, Typed, n
    <2> QED
      BY <1>3, <1>4, <2>3, <2>4 DEF Typed, PurchaseOnline, times
  <1>5. CASE PurchaseOffline
    <2> HIDE DEF m
    <2>1. <<Send("vendor", m), Put(New)>> \in Seq(Effect)
      BY <1>1, <1>2
    <2>2. Calls("buyer", <<Send("vendor", m), Put(New)>>)
      BY <1>5 DEF PurchaseOffline, m
    <2>3. call' \in CallMap
      BY <2>1, <2>2, CallsTyped, PartyFacts DEF Typed
    <2> QED
      BY <1>3, <1>5, <2>3 DEF Typed, PurchaseOffline, times
  <1> QED
    BY <1>4, <1>5

LEMMA RepliesSound ==
  ASSUME NEW p \in Party, NEW m \in SoundMessage, NEW v \in Verdict, NEW o \in BOOLEAN
  PROVE  /\ Updates(p, m, v) \cup Errors(p, m, v, o) \subseteq SoundMessage
         /\ IsFiniteSet(Updates(p, m, v) \cup Errors(p, m, v, o))
         /\ \A n \in Updates(p, m, v) \cup Errors(p, m, v, o) :
               \/ n.type = "DISPUTE_UPDATE" /\ m.type = "DISPUTE_OPEN"
               \/ n.type = "ERROR" /\ m.type = "ORDER"
  <1> DEFINE a == Msg("DISPUTE_UPDATE", p)
             b == Msg("ERROR", p)
             R == Updates(p, m, v) \cup Errors(p, m, v, o)
  <1>1. R \subseteq {a, b} /\ (a \in R => m.type = "DISPUTE_OPEN" /\ p # "moderator") /\ (b \in R => m.type = "ORDER")
    <2>1. a.type = "DISPUTE_UPDATE" /\ b.type = "ERROR"
      BY DEF Msg
    <2>2. a # b
      BY <2>1
    <2> QED
      BY <2>2 DEF Updates, Errors
  <1>2. IsFiniteSet({a, b})
    <2>1. IsFiniteSet({a})
      BY FS_Singleton
    <2>2. {a, b} = {a} \cup {b}
      OBVIOUS
    <2> HIDE DEF a, b
    <2> QED
      BY <2>1, <2>2, FS_AddElement
  <1>3. a \in R => a \in SoundMessage
    BY <1>1, MsgSound, MessageTypes DEF Party
  <1>4. b \in SoundMessage
    BY MsgSound, MessageTypes
  <1>5. a.type = "DISPUTE_UPDATE" /\ b.type = "ERROR"
    BY DEF Msg
  <1> HIDE DEF a, b, R
  <1>6. R \subseteq SoundMessage
    BY <1>1, <1>3, <1>4
  <1>7. IsFiniteSet(R)
    BY <1>1, <1>2, FS_Subset
  <1>8. \A n \in R : \/ n.type = "DISPUTE_UPDATE" /\ m.type = "DISPUTE_OPEN"
                     \/ n.type = "ERROR" /\ m.type = "ORDER"
    BY <1>1, <1>5
  <1> QED
    BY <1>6, <1>7, <1>8 DEF R

LEMMA HandledMail ==
  ASSUME NEW p \in Party, NEW m \in SoundMessage, NEW v \in Verdict,
         NEW o \in BOOLEAN,
         NEW w \in WireMap, NEW s \in MailMap, NEW q \in MailMap, Handled(p, m, v, o, w, s)
  PROVE  /\ wire' \in WireMap /\ stored' \in MailMap
         /\ \A n \in Carried(wire', stored', q) :
                n \in Carried(w, s, q) \/ n \in Updates(p, m, v) \cup Errors(p, m, v, o)
         /\ OrdersWait(w, s, q) => OrdersWait(wire', stored', q)
  <1> DEFINE R == Updates(p, m, v) \cup Errors(p, m, v, o)
             to == IF m.type = "ORDER" THEN "buyer" ELSE "moderator"
  <1>1. PICK direct \in SUBSET R :
          /\ wire' = OnWire(w, p, to, direct)
          /\ stored' = [s EXCEPT ![to] = @ \cup (R \ direct)]
    BY DEF Handled
  <1>2. /\ R \subseteq SoundMessage /\ IsFiniteSet(R) /\ \A n \in R : n.type # "ORDER"
    BY RepliesSound
  <1>3. to \in Party
    BY PartyFacts
  <1> HIDE DEF R, to
  <1>4. IsFiniteSet(direct)
    BY <1>1, <1>2, FS_Subset
  <1>5. /\ wire' \in WireMap
        /\ \A r, t \in Party : \A n \in Range(wire'[r][t]) : n \in Range(w[r][t]) \cup direct
    BY <1>1, <1>2, <1>3, <1>4, OnWireEffect
  <1>6. /\ stored' \in MailMap
        /\ \A r \in Party : \A n \in stored'[r] : n \in s[r] \cup R
    BY <1>1, <1>2, <1>3 DEF MailMap
  <1>7. ASSUME NEW n \in Carried(wire', stored', q)
        PROVE  n \in Carried(w, s, q) \/ n \in R
    BY <1>1, <1>5, <1>6, <1>7 DEF Carried
  <1>8. ASSUME OrdersWait(w, s, q)
        PROVE  OrdersWait(wire', stored', q)
    BY <1>1, <1>2, <1>5, <1>6, <1>8 DEF OrdersWait
  <1> QED
    BY <1>5, <1>6, <1>7, <1>8 DEF R

LEMMA SavesTyped ==
  ASSUME Typed, NEW v \in Verdict, NEW p \in Trader, NEW s \in OrderState, NEW S \in SUBSET Part,
         s # "DECIDED", v = "done" => State(p) # "none", Saves(v, p, s, S)
  PROVE  order' \in OrderMap
  <1>1. CASE v = "done"
    <2>1. With(order[p], s, S) \in SoundContract
      BY <1>1, OrderKnown, WithSound
    <2>2. order' = [order EXCEPT ![p] = With(order[p], s, S)]
      BY <1>1 DEF Saves
    <2> QED
      BY <2>1, <2>2 DEF OrderMap, Typed
  <1>2. CASE v # "done"
    BY <1>2 DEF Saves, Typed
  <1> QED
    BY <1>1, <1>2

LEMMA OpenedFrom ==
  ASSUME NEW p \in Trader, NEW m, NEW v, HandleDisputeOpen(p, m, v), v = "done"
  PROVE  State(p) \notin {"none", "COMPLETED", "DISPUTED", "DECIDED", "RESOLVED",
                          "REFUNDED", "CANCELED", "DECLINED"}
  <1> DEFINE s == State(p)
             early == IF p = "vendor" THEN s = "none"
                      ELSE s \in {"AWAITING_PAYMENT", "AWAITING_FULFILLMENT", "PENDING"}
             fits == s \notin {"none", "COMPLETED", "DISPUTED", "DECIDED", "RESOLVED",
                               "REFUNDED", "CANCELED", "DECLINED"}
                     /\ (p = "vendor" => s # "PROCESSING_ERROR")
  <1>1. p # "moderator"
    BY DEF Trader
  <1>2. Answers(v, early, fits)
    BY <1>1 DEF HandleDisputeOpen
  <1>3. fits
    <2> HIDE DEF early, fits
    <2> QED
      BY <1>2 DEF Answers
  <1> QED
    BY <1>3

(* A sale as an ORDER makes it.                                             *)
Sale == {c \in SoundContract :
    /\ c.state \in {"AWAITING_PAYMENT", "PROCESSING_ERROR"}
    /\ c.parts \subseteq {"confirmation"} /\ c.resolution = None
    /\ method = "ADDRESS_REQUEST" => "confirmation" \in c.parts
    /\ "confirmation" \in c.parts => method = "ADDRESS_REQUEST" \/ Moderated}

LEMMA SaleStored ==
  ASSUME NEW v, NEW o, HandleOrder(v, o)
  PROVE  order' = order \/ \E c \in Sale : order' = [order EXCEPT !["vendor"] = c]
  <1> DEFINE confirmed == method = "ADDRESS_REQUEST" \/ (Moderated /\ ~o)
             S == {part \in {"confirmation"} : confirmed}
             a == With(New, New.state, S)
             b == With(New, "PROCESSING_ERROR", {})
  <1>1. /\ New \in SoundContract /\ New.state = "AWAITING_PAYMENT" /\ New.parts = {} /\ New.resolution = None
        /\ "AWAITING_PAYMENT" \in OrderState /\ "PROCESSING_ERROR" \in OrderState
    BY NewSound DEF New, OrderState
  <1>2. S \subseteq {"confirmation"} /\ S \in SUBSET Part /\ (method = "ADDRESS_REQUEST" => "confirmation" \in S)
        /\ ("confirmation" \in S => method = "ADDRESS_REQUEST" \/ Moderated)
    BY DEF Part
  <1>3. \/ order' = order
        \/ order' = [order EXCEPT !["vendor"] = a]
        \/ method # "ADDRESS_REQUEST" /\ order' = [order EXCEPT !["vendor"] = b]
    BY DEF HandleOrder, KeepsError
  <1> HIDE DEF S
  <1>4. a \in Sale
    <2>1. a = With(New, "AWAITING_PAYMENT", S)
      BY <1>1
    <2>2. a \in SoundContract /\ a.state = "AWAITING_PAYMENT" /\ a.parts = New.parts \cup S /\ a.resolution = None
      <3> HIDE DEF a
      <3> QED
        BY <1>2, <2>1, NewWith
    <2> HIDE DEF a
    <2> QED
      BY <1>1, <1>2, <2>2 DEF Sale
  <1>5. method # "ADDRESS_REQUEST" => b \in Sale
    BY <1>1, WithState DEF Sale
  <1> HIDE DEF a, b
  <1> QED
    BY <1>3, <1>4, <1>5

LEMMA HandleTyped ==
  ASSUME Typed, NEW p \in Party, NEW m \in SoundMessage, NEW v \in Verdict, NEW o \in BOOLEAN,
         Handle(p, m, v, o)
  PROVE  /\ order' \in OrderMap /\ coin' \in Coins
         /\ \/ dispute' = dispute
            \/ dispute' \in Case /\ m.type \in {"DISPUTE_OPEN", "DISPUTE_UPDATE"}
  <1> USE PartyFacts
  <1>0. /\ "DISPUTED" \in OrderState /\ "DECLINED" \in OrderState /\ "REFUNDED" \in OrderState
        /\ "FULFILLED" \in OrderState /\ "COMPLETED" \in OrderState /\ "CANCELED" \in OrderState
        /\ "PROCESSING_ERROR" \in OrderState /\ "PAYMENT_FINALIZED" \in OrderState
        /\ "AWAITING_FULFILLMENT" \in OrderState /\ "AWAITING_PAYMENT" \in OrderState
        /\ "RESOLVED" \in OrderState /\ "DECIDED" \in OrderState
        /\ {} \in SUBSET Part /\ {"confirmation"} \in SUBSET Part
        /\ {"fulfillment"} \in SUBSET Part /\ {"dispute"} \in SUBSET Part
    BY DEF OrderState, Part
  <1>a. ASSUME NEW cond, NEW q \in Trader, Pays(cond, q) PROVE coin' \in Coins
    BY <1>a DEF Pays, Typed, Coins
  <1>b. UNCHANGED coin => coin' \in Coins
    BY DEF Typed
  <1>1. CASE HandleOrder(v, o)
    <2>1. order' = order \/ \E c \in Sale : order' = [order EXCEPT !["vendor"] = c]
      BY <1>1, SaleStored
    <2>2. order' \in OrderMap
      BY <2>1 DEF OrderMap, Typed, Sale
    <2> QED
      BY <1>1, <1>b, <2>2 DEF HandleOrder
  <1>2. CASE HandleOrderConfirmation(v)
    <2>1. order' \in OrderMap
      BY <1>0, <1>2, SavesTyped DEF HandleOrderConfirmation, Answers
    <2> QED
      BY <1>2, <1>b, <2>1 DEF HandleOrderConfirmation
  <1>3. CASE HandleOrderCancel(v)
    <2>1. order' \in OrderMap
      BY <1>0, <1>3, SavesTyped DEF HandleOrderCancel, Answers
    <2> QED
      BY <1>3, <1>b, <2>1 DEF HandleOrderCancel
  <1>4. CASE HandleReject(v)
    <2>1. order' \in OrderMap
      BY <1>0, <1>4, SavesTyped DEF HandleReject, Answers
    <2> QED
      BY <1>4, <1>a, <2>1 DEF HandleReject
  <1>5. CASE HandleRefund(v)
    <2>1. order' \in OrderMap
      BY <1>0, <1>5, SavesTyped DEF HandleRefund, Answers
    <2> QED
      BY <1>5, <1>a, <2>1 DEF HandleRefund
  <1>6. CASE HandleOrderFulfillment(v)
    <2>1. order' \in OrderMap
      BY <1>0, <1>6, SavesTyped DEF HandleOrderFulfillment, Answers
    <2> QED
      BY <1>6, <1>b, <2>1 DEF HandleOrderFulfillment
  <1>7. CASE HandleOrderCompletion(v)
    <2>1. order' \in OrderMap
      BY <1>0, <1>7, SavesTyped DEF HandleOrderCompletion, Answers
    <2> QED
      BY <1>7, <1>a, <2>1 DEF HandleOrderCompletion
  <1>8. CASE HandleDisputeOpen(p, m, v) /\ m.type = "DISPUTE_OPEN"
    <2>1. CASE p = "moderator"
      <3> DEFINE d == [state |-> "DISPUTED", buyer |-> None, vendor |-> None]
                 f == m.from
      <3>2. dispute' = [d EXCEPT ![f] = f]
        BY <1>8, <2>1 DEF HandleDisputeOpen
      <3>3. f = "buyer" \/ f = "vendor" \/ f = "moderator"
        BY DEF SoundMessage, Message, Party, Trader
      <3>4. [d EXCEPT !["buyer"] = "buyer"] \in Case /\ [d EXCEPT !["vendor"] = "vendor"] \in Case
        BY DEF Case, Trader
      <3>5. [d EXCEPT !["moderator"] = "moderator"] = d /\ d \in Case
        BY DEF Case
      <3> HIDE DEF d, f
      <3>1. dispute' \in Case
        BY <3>2, <3>3, <3>4, <3>5
      <3> QED
        BY <1>8, <1>b, <2>1, <3>1 DEF HandleDisputeOpen, Typed
    <2>2. CASE p # "moderator"
      <3>1. p \in Trader
        BY <2>2 DEF Party
      <3>2. Saves(v, p, "DISPUTED", {"dispute"}) /\ UNCHANGED dispute /\ UNCHANGED coin
        BY <1>8, <2>2 DEF HandleDisputeOpen
      <3>3. ASSUME v = "done" PROVE State(p) # "none"
        <4>1. State(p) \notin {"none", "COMPLETED", "DISPUTED", "DECIDED", "RESOLVED",
                               "REFUNDED", "CANCELED", "DECLINED"}
          BY <1>8, <3>1, <3>3, OpenedFrom
        <4> QED
          BY <4>1
      <3> QED
        BY <1>0, <1>b, <3>1, <3>2, <3>3, SavesTyped
    <2> QED
      BY <2>1, <2>2
  <1>9. CASE HandleDisputeUpdate(m, v) /\ m.type = "DISPUTE_UPDATE"
    <2>1. m.from \in Trader
      BY <1>9 DEF SoundMessage
    <2>2. v = "done" => dispute # None
      BY <1>9 DEF HandleDisputeUpdate, Answers
    <2>3. dispute' = dispute \/ dispute' \in Case
      BY <1>9, <2>1, <2>2 DEF HandleDisputeUpdate, Typed, Case
    <2> QED
      BY <1>9, <2>3 DEF HandleDisputeUpdate, Typed
  <1>10. CASE HandleDisputeClose(p, m, v) /\ m.type = "DISPUTE_CLOSE"
    <2>1. m.resolution \in Resolution /\ m.resolution # None
      BY <1>10 DEF SoundMessage, Message
    <2>2. order' \in OrderMap
      <3>1. CASE v = "done" /\ p \in Trader
        <4> DEFINE s == IF Has(p, "acceptance") THEN "RESOLVED" ELSE "DECIDED"
                   c == [With(order[p], s, {}) EXCEPT !.resolution = m.resolution]
        <4>1. State(p) = "DISPUTED"
          BY <1>10, <3>1 DEF HandleDisputeClose, Answers
        <4>2. order[p] \in SoundContract
          BY <3>1, <4>1, OrderKnown
        <4>3. s \in OrderState
          BY <1>0
        <4> HIDE DEF s
        <4>4. c \in SoundContract
          BY <2>1, <4>2, <4>3 DEF SoundContract, Contract, With
        <4>5. order' = [order EXCEPT ![p] = c]
          BY <1>10, <3>1 DEF HandleDisputeClose, s
        <4> HIDE DEF c
        <4> QED
          BY <4>4, <4>5 DEF OrderMap, Typed
      <3>2. CASE v # "done"
        BY <1>10, <3>2 DEF HandleDisputeClose, Typed
      <3>3. CASE p \notin Trader
        BY <1>10, <3>3 DEF HandleDisputeClose, Typed, OrderMap
      <3> QED
        BY <3>1, <3>2, <3>3
    <2> QED
      BY <1>10, <1>b, <2>2 DEF HandleDisputeClose
  <1>11. CASE HandleVendorFinalizedPayment(v)
    <2>1. order' \in OrderMap
      BY <1>0, <1>11, SavesTyped DEF HandleVendorFinalizedPayment, Answers
    <2> QED
      BY <1>11, <1>b, <2>1 DEF HandleVendorFinalizedPayment
  <1>12. CASE HandleError(v)
    <2>1. order' \in OrderMap
      BY <1>0, <1>12, SavesTyped DEF HandleError, Answers
    <2> QED
      BY <1>12, <1>b, <2>1 DEF HandleError
  <1> QED
    BY <1>1, <1>2, <1>3, <1>4, <1>5, <1>6, <1>7, <1>8, <1>9, <1>10, <1>11, <1>12 DEF Handle

(* What an ORDER overwrites is gone.                                        *)
Loses(m) ==
    lost' = IF m.type = "ORDER" /\ order["vendor"] # None /\ order' # order
            THEN lost \cup Facts(order["vendor"]) ELSE lost

(* p handles m, a message that is under way.                                *)
Arrival(p, m, v, o) ==
    /\ Handle(p, m, v, o)
    /\ UNCHANGED <<method, ledger, call, times, crashes>>
    /\ Loses(m)
    /\ Kept' = Kept
    /\ \A n \in UnderWay' : n \in UnderWay \/ n \in Updates(p, m, v) \cup Errors(p, m, v, o)
    /\ OrdersWait(wire, stored, queued) =>
           /\ OrdersWait(wire', stored', queued')
           /\ m.type = "ORDER" => \A n \in Carried(wire', stored', queued') : n.type # "ORDER"

LEMMA OrdersGone ==
  ASSUME NEW w, NEW s, NEW q, OrdersWait(w, s, q),
         \A n \in s["vendor"] : n.type # "ORDER"
  PROVE  \A n \in Carried(w, s, q) : n.type # "ORDER"
  <1> TAKE n \in Carried(w, s, q)
  <1>1. CASE \E p, r \in Party : n \in Range(w[p][r])
    BY <1>1 DEF OrdersWait
  <1>2. CASE \E p \in Party : n \in q[p]
    BY <1>2 DEF OrdersWait
  <1>3. CASE \E p \in Party : n \in s[p]
    BY <1>3 DEF OrdersWait
  <1> QED
    BY <1>1, <1>2, <1>3 DEF Carried

LEMMA DeliverArrives ==
  ASSUME Typed, NEW p \in Party, NEW q \in Party, Deliver(p, q)
  PROVE  MailTyped' /\ \E m \in UnderWay, v \in Verdict, o \in BOOLEAN : Arrival(q, m, v, o)
  <1> DEFINE m == Head(wire[p][q])
             w == [wire EXCEPT ![p][q] = Tail(@)]
  <1> DEFINE o == FALSE
  <1>1. PICK v \in Verdict : Handled(q, m, v, o, w, stored)
    BY DEF Deliver
  <1>2. wire[p][q] \in Seq(SoundMessage) /\ wire[p][q] # <<>>
    BY DEF Typed, MailTyped, WireMap, Deliver
  <1>3. m \in SoundMessage /\ m \in Range(wire[p][q]) /\ Tail(wire[p][q]) \in Seq(SoundMessage)
    BY <1>2, TailRange
  <1>4. \A n \in Range(Tail(wire[p][q])) : n \in Range(wire[p][q])
    BY <1>2, TailRange
  <1>5. w = [wire EXCEPT ![p][q] = Tail(wire[p][q])]
    OBVIOUS
  <1>6. wire \in WireMap /\ stored \in MailMap /\ queued \in MailMap
    BY DEF Typed, MailTyped
  <1> HIDE DEF m, w, o
  <1>7. w \in WireMap /\ \A r, s \in Party : \A n \in Range(w[r][s]) : n \in Range(wire[r][s])
    <2>1. w \in WireMap
      BY <1>3, <1>5, <1>6 DEF WireMap
    <2>2. ASSUME NEW r \in Party, NEW s \in Party
          PROVE  w[r][s] = IF r = p /\ s = q THEN Tail(wire[p][q]) ELSE wire[r][s]
      BY <1>5, <1>6 DEF WireMap
    <2> QED
      BY <1>4, <2>1, <2>2
  <1>8. \A n \in Carried(w, stored, queued) : n \in UnderWay
    BY <1>7 DEF Carried, UnderWay
  <1>9. m \in UnderWay
    BY <1>3 DEF Carried, UnderWay
  <1>o. o \in BOOLEAN
    BY DEF o
  <1>10. /\ wire' \in WireMap /\ stored' \in MailMap
         /\ \A n \in Carried(wire', stored', queued) :
                n \in Carried(w, stored, queued) \/ n \in Updates(q, m, v) \cup Errors(q, m, v, o)
         /\ OrdersWait(w, stored, queued) => OrdersWait(wire', stored', queued)
    BY <1>1, <1>3, <1>6, <1>7, <1>o, HandledMail
  <1>11. queued' = queued /\ pass' = pass
    BY DEF Deliver
  <1>17. UNCHANGED <<cached, repeats>> /\ Kept' = Kept
    BY <1>1 DEF Handled, Kept
  <1>12. MailTyped'
    BY <1>10, <1>11, <1>17 DEF Typed, MailTyped
  <1>13. ASSUME OrdersWait(wire, stored, queued)
         PROVE  OrdersWait(w, stored, queued) /\ m.type # "ORDER"
    BY <1>3, <1>7, <1>13 DEF OrdersWait
  <1>14. \A n \in UnderWay' : n \in UnderWay \/ n \in Updates(q, m, v) \cup Errors(q, m, v, o)
    BY <1>8, <1>10, <1>11, <1>17 DEF UnderWay
  <1>15. /\ Handle(q, m, v, o) /\ UNCHANGED <<method, ledger, call, times, crashes>>
         /\ Loses(m)
    BY <1>1 DEF Handled, Loses
  <1>16. Arrival(q, m, v, o)
    BY <1>10, <1>11, <1>13, <1>14, <1>15, <1>17 DEF Arrival
  <1> QED
    BY <1>9, <1>12, <1>16, <1>o

LEMMA FetchArrives ==
  ASSUME Typed, NEW p \in Party, Fetch(p)
  PROVE  MailTyped' /\ \E m \in UnderWay, v \in Verdict, o \in BOOLEAN : Arrival(p, m, v, o)
  <1>1. PICK m \in stored[p], v \in Verdict :
          /\ Handled(p, m, v, TRUE, wire, [stored EXCEPT ![p] = @ \ {m}])
          /\ queued' = [queued EXCEPT ![p] = IF v = "later" THEN @ \cup {m} ELSE @]
          /\ UNCHANGED pass
    BY DEF Fetch
  <1> DEFINE o == TRUE
             s == [stored EXCEPT ![p] = @ \ {m}]
             R == Updates(p, m, v) \cup Errors(p, m, v, o)
  <1>2. wire \in WireMap /\ stored \in MailMap /\ queued \in MailMap
    BY DEF Typed, MailTyped
  <1>3. m \in SoundMessage /\ m \in UnderWay
    BY <1>2 DEF MailMap, UnderWay, Carried
  <1>4. s \in MailMap /\ s[p] = stored[p] \ {m} /\ \A r \in Party : s[r] \subseteq stored[r]
    BY <1>2 DEF MailMap
  <1>5. Handled(p, m, v, o, wire, s) /\ o \in BOOLEAN
    BY <1>1
  <1> HIDE DEF s, R, o
  <1>6. /\ wire' \in WireMap /\ stored' \in MailMap
        /\ \A n \in Carried(wire', stored', queued) : n \in Carried(wire, s, queued) \/ n \in R
        /\ OrdersWait(wire, s, queued) => OrdersWait(wire', stored', queued)
    BY <1>2, <1>3, <1>4, <1>5, HandledMail DEF R
  <1>7. /\ queued' \in MailMap
        /\ \A r \in Party : queued[r] \subseteq queued'[r]
        /\ \A r \in Party : \A n \in queued'[r] : n \in queued[r] \/ (n = m /\ v = "later")
    <2> DEFINE y == IF v = "later" THEN queued[p] \cup {m} ELSE queued[p]
    <2>1. y \in SUBSET SoundMessage /\ queued[p] \subseteq y
      BY <1>2, <1>3 DEF MailMap
    <2>2. \A n \in y : n \in queued[p] \/ (n = m /\ v = "later")
      OBVIOUS
    <2>3. queued' = [queued EXCEPT ![p] = y]
      BY <1>1
    <2> HIDE DEF y
    <2> QED
      BY <1>2, <2>1, <2>2, <2>3 DEF MailMap
  <1>13. UNCHANGED <<cached, repeats>> /\ Kept' = Kept
    BY <1>5 DEF Handled, Kept
  <1>8. MailTyped'
    BY <1>1, <1>6, <1>7, <1>13 DEF Typed, MailTyped
  <1>9. ASSUME NEW n \in UnderWay' PROVE n \in UnderWay \/ n \in R
    <2>3. CASE n \in Kept'
      BY <1>13, <2>3 DEF UnderWay
    <2>1. CASE \E r \in Party : n \in queued'[r]
      <3>1. PICK r \in Party : n \in queued'[r]
        BY <2>1
      <3>2. CASE n \in queued[r]
        BY <1>2, <3>2 DEF UnderWay, Carried, MailMap
      <3> QED
        BY <1>3, <1>7, <3>1, <3>2
    <2>2. CASE (~\E r \in Party : n \in queued'[r]) /\ n \notin Kept'
      <3>1. n \in Carried(wire', stored', queued)
        BY <1>9, <2>2 DEF UnderWay, Carried
      <3>2. n \in Carried(wire, s, queued) => n \in UnderWay
        BY <1>4 DEF UnderWay, Carried
      <3> QED
        BY <1>6, <3>1, <3>2
    <2> QED
      BY <2>1, <2>2, <2>3
  <1>10. ASSUME OrdersWait(wire, stored, queued)
         PROVE  /\ OrdersWait(wire', stored', queued')
                /\ m.type = "ORDER" => \A n \in Carried(wire', stored', queued') : n.type # "ORDER"
    <2>1. OrdersWait(wire, s, queued)
      BY <1>4, <1>10 DEF OrdersWait
    <2>2. OrdersWait(wire', stored', queued)
      BY <1>6, <2>1
    <2>3. m.type = "ORDER" => v # "later"
      BY <1>5 DEF Handled, Handle, HandleOrder
    <2>4. OrdersWait(wire', stored', queued')
      BY <1>7, <2>2, <2>3 DEF OrdersWait
    <2>5. ASSUME m.type = "ORDER", NEW n \in Carried(wire', stored', queued') PROVE n.type # "ORDER"
      <3>1. p = "vendor" /\ \A x \in s["vendor"] : x.type # "ORDER"
        BY <1>4, <1>10, <2>5 DEF OrdersWait
      <3>2. \A x \in Carried(wire, s, queued) : x.type # "ORDER"
        BY <2>1, <3>1, OrdersGone
      <3>3. n \in Carried(wire', stored', queued)
        BY <1>7, <2>3, <2>5 DEF Carried
      <3>4. n \in R => n.type # "ORDER"
        BY <1>3, <1>5, RepliesSound DEF R
      <3> QED
        BY <1>6, <3>2, <3>3, <3>4
    <2> QED
      BY <2>4, <2>5
  <1>11. /\ Handle(p, m, v, o) /\ UNCHANGED <<method, ledger, call, times, crashes>>
         /\ Loses(m)
    BY <1>5 DEF Handled, Loses
  <1>12. Arrival(p, m, v, o)
    BY <1>9, <1>10, <1>11, <1>13 DEF Arrival, R
  <1> QED
    BY <1>3, <1>5, <1>8, <1>12

LEMMA ProcessArrives ==
  ASSUME Typed, NEW p \in Party, ProcessQueued(p)
  PROVE  MailTyped' /\ \E m \in UnderWay, v \in Verdict, o \in BOOLEAN : Arrival(p, m, v, o)
  <1>1. PICK m \in pass[p].todo, v \in Verdict :
          /\ Handled(p, m, v, TRUE, wire, stored)
          /\ pass' = [pass EXCEPT ![p] =
                 [todo |-> @.todo \ {m}, done |-> IF Deletes(v) THEN @.done \cup {m} ELSE @.done]]
    BY DEF ProcessQueued
  <1> DEFINE o == TRUE
  <1>o. Handled(p, m, v, o, wire, stored) /\ o \in BOOLEAN
    BY <1>1
  <1> HIDE DEF o
  <1>2. wire \in WireMap /\ stored \in MailMap /\ queued \in MailMap /\ pass \in PassMap
    BY DEF Typed, MailTyped
  <1>3. /\ pass[p] # None /\ pass[p].todo \subseteq queued[p] /\ pass[p].done \subseteq queued[p]
        /\ queued' = queued
    BY DEF ProcessQueued, Typed, MailTyped
  <1>4. m \in queued[p] /\ m \in SoundMessage /\ m \in UnderWay
    BY <1>2, <1>3 DEF MailMap, UnderWay, Carried
  <1>5. /\ wire' \in WireMap /\ stored' \in MailMap
        /\ \A n \in Carried(wire', stored', queued) :
               n \in Carried(wire, stored, queued) \/ n \in Updates(p, m, v) \cup Errors(p, m, v, o)
        /\ OrdersWait(wire, stored, queued) => OrdersWait(wire', stored', queued)
    BY <1>2, <1>4, <1>o, HandledMail
  <1> DEFINE x == [todo |-> pass[p].todo \ {m},
                   done |-> IF Deletes(v) THEN pass[p].done \cup {m} ELSE pass[p].done]
  <1>6. x.todo \subseteq queued[p] /\ x.done \subseteq queued[p]
    BY <1>3, <1>4
  <1>7. x \in [todo : SUBSET SoundMessage, done : SUBSET SoundMessage]
    BY <1>2, <1>6 DEF MailMap
  <1>8. pass' = [pass EXCEPT ![p] = x]
    BY <1>1
  <1> HIDE DEF x
  <1>9. pass' \in PassMap /\ \A r \in Party : pass'[r] = IF r = p THEN x ELSE pass[r]
    BY <1>2, <1>7, <1>8 DEF PassMap
  <1>15. UNCHANGED <<cached, repeats>> /\ Kept' = Kept
    BY <1>o DEF Handled, Kept
  <1>10. MailTyped'
    BY <1>2, <1>3, <1>5, <1>6, <1>9, <1>15 DEF Typed, MailTyped
  <1>11. /\ Handle(p, m, v, o) /\ UNCHANGED <<method, ledger, call, times, crashes>>
         /\ Loses(m)
    BY <1>o DEF Handled, Loses
  <1>12. \A n \in UnderWay' : n \in UnderWay \/ n \in Updates(p, m, v) \cup Errors(p, m, v, o)
    BY <1>3, <1>5, <1>15 DEF UnderWay
  <1>13. OrdersWait(wire, stored, queued) => m.type # "ORDER"
    BY <1>4 DEF OrdersWait
  <1>14. Arrival(p, m, v, o)
    BY <1>3, <1>5, <1>11, <1>12, <1>13, <1>15 DEF Arrival
  <1> QED
    BY <1>4, <1>10, <1>14, <1>o

LEMMA PassStepMail ==
  ASSUME Typed, NEW p \in Party, BeginPass(p) \/ EndPass(p)
  PROVE  /\ MailTyped'
         /\ \A n \in UnderWay' : n \in UnderWay
         /\ OrdersWait(wire, stored, queued) => OrdersWait(wire', stored', queued')
         /\ Kept' = Kept
         /\ UNCHANGED <<method, order, ledger, dispute, coin, call, times, crashes, lost>>
  <1>1. wire \in WireMap /\ stored \in MailMap /\ queued \in MailMap /\ pass \in PassMap
    BY DEF Typed, MailTyped
  <1>2. UNCHANGED <<wire, stored, cached, repeats>> /\ UNCHANGED <<method, order, ledger, dispute, coin, call, times, crashes, lost>>
    BY DEF BeginPass, EndPass
  <1>7. Kept' = Kept /\ cached' \in CacheMap /\ repeats' \in 0..MaxRepeats
    BY <1>2 DEF Kept, Typed, MailTyped
  <1>3. /\ queued' \in MailMap
        /\ \A r \in Party : queued'[r] \subseteq queued[r]
    BY <1>1 DEF BeginPass, EndPass, MailMap
  <1>4. MailTyped'
    <2>1. CASE BeginPass(p)
      <3> DEFINE x == [todo |-> queued[p], done |-> {}]
      <3>1. x \in [todo : SUBSET SoundMessage, done : SUBSET SoundMessage] /\ x.todo = queued[p] /\ x.done = {}
        BY <1>1 DEF MailMap
      <3>2. pass' = [pass EXCEPT ![p] = x] /\ queued' = queued
        BY <2>1 DEF BeginPass
      <3> HIDE DEF x
      <3>3. pass' \in PassMap /\ \A r \in Party : pass'[r] = IF r = p THEN x ELSE pass[r]
        BY <1>1, <3>1, <3>2 DEF PassMap
      <3>4. \A r \in Party : pass'[r] # None =>
                pass'[r].todo \subseteq queued[r] /\ pass'[r].done \subseteq queued[r]
        BY <3>1, <3>3 DEF Typed, MailTyped
      <3> QED
        BY <1>1, <1>2, <1>7, <3>2, <3>3, <3>4 DEF MailTyped
    <2>2. CASE EndPass(p)
      <3>1. pass' = [pass EXCEPT ![p] = None] /\ queued' = [queued EXCEPT ![p] = @ \ pass[p].done]
        BY <2>2 DEF EndPass
      <3>2. pass' \in PassMap /\ \A r \in Party : pass'[r] = IF r = p THEN None ELSE pass[r]
        BY <1>1, <3>1 DEF PassMap
      <3>3. \A r \in Party : r # p => queued'[r] = queued[r]
        BY <1>1, <3>1 DEF MailMap
      <3>4. \A r \in Party : pass'[r] # None =>
                pass'[r].todo \subseteq queued'[r] /\ pass'[r].done \subseteq queued'[r]
        BY <3>2, <3>3 DEF Typed, MailTyped
      <3> QED
        BY <1>1, <1>2, <1>3, <1>7, <3>2, <3>4 DEF MailTyped
    <2> QED
      BY <2>1, <2>2
  <1>5. \A n \in UnderWay' : n \in UnderWay
    BY <1>2, <1>3, <1>7 DEF UnderWay, Carried
  <1>6. OrdersWait(wire, stored, queued) => OrdersWait(wire', stored', queued')
    BY <1>2, <1>3 DEF OrdersWait
  <1> QED
    BY <1>2, <1>4, <1>5, <1>6, <1>7

-----------------------------------------------------------------------------
(* The effects that a call has still to have.                               *)

ToDo(p) == Range(call[p])

LEMMA EffectKinds ==
  ASSUME NEW e \in Effect
  PROVE  /\ e.do = "put" => e.contract \in SoundContract
         /\ e.do = "send" => e.to \in Party /\ e.msg \in SoundMessage
         /\ e.do = "spend" => e.to \in Trader /\ e.undo \in SoundContract \cup {None}
         /\ e.do \in {"put", "send", "spend", "repay", "close"}
  BY DEF Effect

LEMMA ToDoTyped == ASSUME Typed, NEW p \in Party PROVE ToDo(p) \subseteq Effect
  <1>1. call[p] \in Seq(Effect)
    BY DEF Typed, CallMap
  <1> QED
    BY <1>1, RangeIn DEF ToDo

LEMMA HeadIn ==
  ASSUME Typed, NEW p \in Party, call[p] # <<>>
  PROVE  /\ Head(call[p]) \in ToDo(p) /\ Head(call[p]) \in Effect
         /\ Tail(call[p]) \in Seq(Effect)
         /\ ToDo(p) = {Head(call[p])} \cup Range(Tail(call[p]))
  <1>1. call[p] \in Seq(Effect)
    BY DEF Typed, CallMap
  <1> QED
    BY <1>1, TailRange DEF ToDo

LEMMA Advances ==
  ASSUME Typed, NEW p \in Party, call[p] # <<>>, Advance(p)
  PROVE  /\ call' \in CallMap
         /\ \A q \in Party : q # p => call'[q] = call[q]
         /\ call'[p] = Tail(call[p])
         /\ \A q \in Party : ToDo(q)' \subseteq ToDo(q)
         /\ ToDo(p) = {Head(call[p])} \cup ToDo(p)'
  <1>1. Tail(call[p]) \in Seq(Effect) /\ ToDo(p) = {Head(call[p])} \cup Range(Tail(call[p]))
    BY HeadIn
  <1>2. call \in CallMap /\ call' = [call EXCEPT ![p] = Tail(call[p])]
    BY DEF Typed, Advance
  <1>3. call' \in CallMap /\ \A q \in Party : call'[q] = IF q = p THEN Tail(call[p]) ELSE call[q]
    BY <1>1, <1>2 DEF CallMap
  <1> QED
    BY <1>1, <1>3 DEF ToDo

LEMMA StartsWith ==
  ASSUME Typed, NEW p \in Party, NEW s, Calls(p, s)
  PROVE  /\ call[p] = <<>> /\ ToDo(p) = {}
         /\ call'[p] = s
         /\ \A q \in Party : q # p => call'[q] = call[q]
         /\ ToDo(p)' = Range(s)
         /\ \A q \in Party : q # p => ToDo(q)' = ToDo(q)
  BY DEF Calls, Typed, CallMap, ToDo, Range

LEMMA PutStep ==
  ASSUME Typed, NEW p \in Party, DoPut(p)
  PROVE  /\ call[p] # <<>> /\ Head(call[p]).do = "put" /\ Advance(p)
         /\ Head(call[p]).contract \in SoundContract
         /\ order' \in OrderMap
         /\ p \in Trader => order'[p] = Head(call[p]).contract
         /\ \A q \in Trader : q # p => order'[q] = order[q]
         /\ UNCHANGED <<method, ledger, dispute, coin, mail, times, crashes, lost>>
  <1>1. call[p] # <<>> /\ Head(call[p]).do = "put" /\ Advance(p)
    BY DEF DoPut, Doing
  <1>2. Head(call[p]).contract \in SoundContract
    BY <1>1, HeadIn, EffectKinds
  <1>3. order \in OrderMap /\ order' = [order EXCEPT ![p] = Head(call[p]).contract]
    BY DEF Typed, DoPut
  <1>4. /\ order' \in OrderMap
        /\ p \in Trader => order'[p] = Head(call[p]).contract
        /\ \A q \in Trader : q # p => order'[q] = order[q]
    BY <1>2, <1>3 DEF OrderMap
  <1> QED
    BY <1>1, <1>2, <1>4 DEF DoPut

(* A message goes to its receiver, or to offline storage, or both ways.     *)
LEMMA TransmitStep ==
  ASSUME Typed, NEW p \in Party, NEW to \in Party, NEW m \in SoundMessage, NEW twice \in BOOLEAN,
         Transmit(p, to, m, twice)
  PROVE  /\ wire' \in WireMap /\ stored' \in MailMap
         /\ \A r, s \in Party : \A n \in Range(wire'[r][s]) : n \in Range(wire[r][s]) \/ (n = m /\ wire' # wire)
         /\ \A r \in Party : \A n \in stored'[r] : n \in stored[r] \/ (n = m /\ r = to)
         /\ UNCHANGED <<method, order, ledger, dispute, coin, queued, pass, times, crashes, lost>>
  <1>1. wire \in WireMap /\ stored \in MailMap
    BY DEF Typed, MailTyped
  <1>2. /\ wire' = wire \/ wire' = OnWire(wire, p, to, {m})
        /\ stored' = stored \/ stored' = [stored EXCEPT ![to] = @ \cup {m}]
        /\ UNCHANGED <<method, order, ledger, dispute, coin, queued, pass, times, crashes, lost>>
    BY DEF Transmit
  <1>3. IsFiniteSet({m}) /\ {m} \in SUBSET SoundMessage
    BY FS_Singleton
  <1>4. /\ OnWire(wire, p, to, {m}) \in WireMap
        /\ \A r, s \in Party : \A n \in Range(OnWire(wire, p, to, {m})[r][s]) : n \in Range(wire[r][s]) \cup {m}
    BY <1>1, <1>3, OnWireEffect
  <1>5. /\ wire' \in WireMap
        /\ \A r, s \in Party : \A n \in Range(wire'[r][s]) : n \in Range(wire[r][s]) \/ (n = m /\ wire' # wire)
    <2>1. CASE wire' = wire
      BY <1>1, <2>1
    <2>2. CASE wire' # wire
      <3>1. wire' = OnWire(wire, p, to, {m})
        BY <1>2, <2>2
      <3> QED
        BY <1>4, <2>2, <3>1
    <2> QED
      BY <2>1, <2>2
  <1>6. /\ stored' \in MailMap
        /\ \A r \in Party : \A n \in stored'[r] : n \in stored[r] \/ (n = m /\ r = to)
    BY <1>1, <1>2 DEF MailMap
  <1> QED
    BY <1>2, <1>5, <1>6

LEMMA SendStep ==
  ASSUME Typed, NEW p \in Party, DoSend(p)
  PROVE  /\ call[p] # <<>> /\ Head(call[p]).do = "send" /\ Advance(p)
         /\ Head(call[p]).msg \in SoundMessage
         /\ MailTyped'
         /\ \A n \in UnderWay' : n \in UnderWay \/ n = Head(call[p]).msg
         /\ OrdersWait(wire, stored, queued)
               /\ (Head(call[p]).msg.type = "ORDER" =>
                      Head(call[p]).to = "vendor" /\ Head(call[p]).msg = Msg("ORDER", "buyer"))
            => OrdersWait(wire', stored', queued')
         /\ \A n \in Kept' : n \in Kept \/ (n = Head(call[p]).msg /\ (n.type = "ORDER" => method # "DIRECT"))
         /\ UNCHANGED <<method, order, ledger, dispute, coin, times, crashes, lost>>
  <1> DEFINE to == Head(call[p]).to
             m == Head(call[p]).msg
  <1>1. call[p] # <<>> /\ Head(call[p]).do = "send" /\ Advance(p)
    BY DEF DoSend, Doing
  <1>2. to \in Party /\ m \in SoundMessage
    BY <1>1, HeadIn, EffectKinds
  <1>3. PICK twice \in BOOLEAN :
          /\ Transmit(p, to, m, twice)
          /\ m.type = "ORDER" => wire' = wire
          /\ Repeat \/ UNCHANGED repeats
          /\ cached' = Remember(method, p, to, m)
    BY DEF DoSend
  <1> HIDE DEF to, m
  <1>4. /\ wire' \in WireMap /\ stored' \in MailMap
        /\ \A r, s \in Party : \A n \in Range(wire'[r][s]) :
               n \in Range(wire[r][s]) \/ (n = m /\ m.type # "ORDER")
        /\ \A r \in Party : \A n \in stored'[r] : n \in stored[r] \/ (n = m /\ r = to)
        /\ UNCHANGED <<method, order, ledger, dispute, coin, queued, pass, times, crashes, lost>>
    BY <1>2, <1>3, TransmitStep
  <1>5. /\ cached' \in CacheMap
        /\ \A n \in Kept' : n \in Kept \/ n = m
        /\ method = "DIRECT" /\ m.type = "ORDER" => Kept' = Kept
    BY <1>2, <1>3, RememberKeeps
  <1>6. repeats' \in 0..MaxRepeats
    BY <1>3, RepeatTyped DEF Typed, MailTyped
  <1>8. MailTyped'
    BY <1>4, <1>5, <1>6 DEF Typed, MailTyped
  <1>9. \A n \in UnderWay' : n \in UnderWay \/ n = m
    BY <1>4, <1>5 DEF UnderWay, Carried
  <1>10. OrdersWait(wire, stored, queued) /\ (m.type = "ORDER" => to = "vendor" /\ m = Msg("ORDER", "buyer"))
         => OrdersWait(wire', stored', queued')
    BY <1>4 DEF OrdersWait
  <1>11. \A n \in Kept' : n \in Kept \/ (n = m /\ (n.type = "ORDER" => method # "DIRECT"))
    BY <1>5
  <1> QED
    BY <1>1, <1>2, <1>4, <1>8, <1>9, <1>10, <1>11 DEF to, m

(* Nothing is sent again that is not kept.                                  *)
LEMMA ResendStep ==
  ASSUME Typed, NEW p \in Party, ResendCachedOrderMessage(p)
  PROVE  /\ MailTyped'
         /\ \A n \in UnderWay' : n \in UnderWay
         /\ OrdersWait(wire, stored, queued) /\ (\A n \in Kept : n.type # "ORDER")
            => OrdersWait(wire', stored', queued')
         /\ Kept' = Kept
         /\ UNCHANGED <<method, order, ledger, dispute, coin, call, times, crashes, lost>>
  <1>1. PICK l \in cached[p], twice \in BOOLEAN : Transmit(p, l.to, l.msg, twice)
    BY DEF ResendCachedOrderMessage
  <1> DEFINE to == l.to
             m == l.msg
  <1>2. to \in Party /\ m \in SoundMessage /\ m \in Kept
    BY DEF Typed, MailTyped, CacheMap, Kept
  <1>3. Transmit(p, to, m, twice)
    BY <1>1
  <1> HIDE DEF to, m
  <1>4. /\ wire' \in WireMap /\ stored' \in MailMap
        /\ \A r, s \in Party : \A n \in Range(wire'[r][s]) : n \in Range(wire[r][s]) \/ n = m
        /\ \A r \in Party : \A n \in stored'[r] : n \in stored[r] \/ n = m
        /\ UNCHANGED <<method, order, ledger, dispute, coin, queued, pass, times, crashes, lost>>
    BY <1>2, <1>3, TransmitStep
  <1>5. UNCHANGED <<cached, call>> /\ Kept' = Kept /\ repeats' \in 0..MaxRepeats
    BY RepeatTyped DEF ResendCachedOrderMessage, Kept
  <1>6. MailTyped'
    BY <1>4, <1>5 DEF Typed, MailTyped
  <1>7. \A n \in UnderWay' : n \in UnderWay
    BY <1>2, <1>4, <1>5 DEF UnderWay, Carried
  <1>8. OrdersWait(wire, stored, queued) /\ (\A n \in Kept : n.type # "ORDER")
        => OrdersWait(wire', stored', queued')
    BY <1>2, <1>4 DEF OrdersWait
  <1> QED
    BY <1>4, <1>5, <1>6, <1>7, <1>8

LEMMA SpendStep ==
  ASSUME Typed, NEW p \in Party, DoSpend(p)
  PROVE  /\ call[p] # <<>> /\ Head(call[p]).do = "spend" /\ Advance(p)
         /\ coin = "escrow" /\ coin' = Head(call[p]).to /\ coin' \in Trader
         /\ UNCHANGED <<method, order, ledger, dispute, mail, times, crashes, lost>>
  <1>1. call[p] # <<>> /\ Head(call[p]).do = "spend" /\ Advance(p)
    BY DEF DoSpend, Doing
  <1>2. Head(call[p]).to \in Trader
    BY <1>1, HeadIn, EffectKinds
  <1> QED
    BY <1>1, <1>2 DEF DoSpend

(* The call ends, or stores its old record.                                 *)
LEMMA SpendFailsStep ==
  ASSUME Typed, NEW p \in Party, SpendFails(p)
  PROVE  /\ call[p] # <<>> /\ Head(call[p]).do = "spend" /\ coin # "escrow"
         /\ call' \in CallMap
         /\ \A q \in Party : q # p => call'[q] = call[q] /\ ToDo(q)' = ToDo(q)
         /\ \/ Head(call[p]).undo = None /\ call'[p] = <<>> /\ ToDo(p)' = {}
            \/ /\ Head(call[p]).undo \in SoundContract /\ Head(call[p]).undo # None
               /\ call'[p] = <<Put(Head(call[p]).undo)>> /\ ToDo(p)' = {Put(Head(call[p]).undo)}
         /\ UNCHANGED <<method, order, ledger, dispute, coin, mail, times, crashes, lost>>
  <1> DEFINE u == Head(call[p]).undo
             s == IF u = None THEN <<>> ELSE <<Put(u)>>
  <1>1. call[p] # <<>> /\ Head(call[p]).do = "spend" /\ coin # "escrow"
    BY DEF SpendFails, Doing
  <1>2. u \in SoundContract \cup {None}
    BY <1>1, HeadIn, EffectKinds
  <1>3. call \in CallMap /\ call' = [call EXCEPT ![p] = s]
    BY DEF Typed, SpendFails
  <1>4. s \in Seq(Effect)
    BY <1>2, PutTyped
  <1>5. /\ u = None => s = <<>> /\ Range(s) = {}
        /\ u # None => s = <<Put(u)>> /\ Range(s) = {Put(u)}
    BY DEF Range
  <1> HIDE DEF s
  <1>6. call' \in CallMap /\ \A q \in Party : call'[q] = IF q = p THEN s ELSE call[q]
    BY <1>3, <1>4 DEF CallMap
  <1>7. UNCHANGED <<method, order, ledger, dispute, coin, mail, times, crashes, lost>>
    BY DEF SpendFails
  <1> QED
    BY <1>1, <1>2, <1>5, <1>6, <1>7 DEF ToDo

LEMMA RepayStep ==
  ASSUME Typed, NEW p \in Party, DoRepay(p)
  PROVE  /\ call[p] # <<>> /\ Head(call[p]).do = "repay" /\ Advance(p)
         /\ coin' = IF coin = "vendor" THEN "buyer" ELSE coin
         /\ UNCHANGED <<method, order, ledger, dispute, mail, times, crashes, lost>>
  BY DEF DoRepay, Doing

LEMMA CloseStep ==
  ASSUME Typed, NEW p \in Party, MarkAsClosed(p)
  PROVE  /\ call[p] # <<>> /\ Head(call[p]).do = "close" /\ Advance(p)
         /\ dispute # None => dispute' \in Case
         /\ UNCHANGED <<method, order, ledger, coin, mail, times, crashes, lost>>
  BY DEF MarkAsClosed, Doing, Case, Typed

(* p starts a call with the effects S.                                      *)
Started(p, S) ==
    /\ call[p] = <<>> /\ ToDo(p) = {} /\ ToDo(p)' = S
    /\ \A q \in Party : q # p => call'[q] = call[q] /\ ToDo(q)' = ToDo(q)
    /\ UNCHANGED <<method, order, ledger, dispute, coin, mail, times, crashes, lost>>

LEMMA OnlyStarts ==
  ASSUME Typed, NEW p \in Party, NEW s, Only(p, s)
  PROVE  Started(p, Range(s)) /\ call'[p] = s
  BY StartsWith DEF Only, Started

LEMMA OnlyStarts3 ==
  ASSUME Typed, NEW p \in Party, NEW a, NEW b, NEW c, Only(p, <<a, b, c>>)
  PROVE  Started(p, {a, b, c}) /\ call'[p] = <<a, b, c>>
  <1>1. Range(<<a, b, c>>) = {a, b, c}
    BY DEF Range
  <1> QED
    BY <1>1, OnlyStarts

LEMMA OnlyStarts2 ==
  ASSUME Typed, NEW p \in Party, NEW a, NEW b, Only(p, <<a, b>>)
  PROVE  Started(p, {a, b}) /\ call'[p] = <<a, b>>
  <1>1. Range(<<a, b>>) = {a, b}
    BY DEF Range
  <1> QED
    BY <1>1, OnlyStarts

Confirms == Send("buyer", Msg("ORDER_CONFIRMATION", "vendor"))

LEMMA ConfirmStarts ==
  ASSUME Typed, ConfirmOfflineOrder
  PROVE  LET c == order["vendor"]
             n == With(c, "AWAITING_FULFILLMENT", {"confirmation"}) IN
         /\ c \in SoundContract /\ c # None /\ c.state = "PENDING"
         /\ n \in SoundContract /\ n.state = "AWAITING_FULFILLMENT"
         /\ n.parts = c.parts \cup {"confirmation"} /\ n.resolution = c.resolution
         /\ Moderated => /\ Started("vendor", {Put(n), Confirms})
                         /\ call'["vendor"] = <<Put(n), Confirms>>
         /\ ~Moderated => /\ Started("vendor", {Put(n), Spend("vendor", c), Confirms})
                          /\ call'["vendor"] = <<Put(n), Spend("vendor", c), Confirms>>
  <1> DEFINE c == order["vendor"]
             n == With(c, "AWAITING_FULFILLMENT", {"confirmation"})
  <1>1. c \in SoundContract /\ c # None /\ c.state = "PENDING"
    BY OrderKnown, PartyFacts DEF ConfirmOfflineOrder, MayConfirm
  <1>2. /\ n \in SoundContract /\ n.state = "AWAITING_FULFILLMENT"
        /\ n.parts = c.parts \cup {"confirmation"} /\ n.resolution = c.resolution
    BY <1>1, WithSound DEF OrderState, Part
  <1>3. Only("vendor", IF Moderated THEN <<Put(n), Confirms>> ELSE <<Put(n), Spend("vendor", c), Confirms>>)
    BY DEF ConfirmOfflineOrder, Confirms
  <1> HIDE DEF c, n
  <1>4. ASSUME Moderated
        PROVE  /\ Started("vendor", {Put(n), Confirms})
               /\ call'["vendor"] = <<Put(n), Confirms>>
    <2>2. Only("vendor", <<Put(n), Confirms>>)
      BY <1>3, <1>4
    <2> QED
      BY <2>2, OnlyStarts2, PartyFacts
  <1>5. ASSUME ~Moderated
        PROVE  /\ Started("vendor", {Put(n), Spend("vendor", c), Confirms})
               /\ call'["vendor"] = <<Put(n), Spend("vendor", c), Confirms>>
    <2>2. Only("vendor", <<Put(n), Spend("vendor", c), Confirms>>)
      BY <1>3, <1>5
    <2> QED
      BY <2>2, OnlyStarts3, PartyFacts
  <1> QED
    BY <1>1, <1>2, <1>4, <1>5 DEF c, n

LEMMA RefundStarts ==
  ASSUME Typed, RefundOrder
  PROVE  LET c == order["vendor"]
             n == With(c, "REFUNDED", {})
             m == Send("buyer", Msg("REFUND", "vendor")) IN
         /\ c \in SoundContract /\ c # None /\ c.state = "AWAITING_FULFILLMENT"
         /\ n \in SoundContract /\ n.state = "REFUNDED" /\ n.parts = c.parts /\ n.resolution = c.resolution
         /\ Moderated => Started("vendor", {m, Put(n)})
         /\ ~Moderated => Started("vendor", {Repay, m, Put(n)})
  <1> DEFINE c == order["vendor"]
             n == With(c, "REFUNDED", {})
             m == Send("buyer", Msg("REFUND", "vendor"))
  <1>1. c \in SoundContract /\ c # None /\ c.state = "AWAITING_FULFILLMENT"
    BY OrderKnown, PartyFacts DEF RefundOrder, MayRefund
  <1>2. n \in SoundContract /\ n.state = "REFUNDED" /\ n.parts = c.parts /\ n.resolution = c.resolution
    BY <1>1, WithState DEF OrderState
  <1>3. Only("vendor", IF Moderated THEN <<m, Put(n)>> ELSE <<Repay, m, Put(n)>>)
    BY DEF RefundOrder
  <1> HIDE DEF c, n, m
  <1>4. ASSUME Moderated PROVE Started("vendor", {m, Put(n)})
    <2>2. Only("vendor", <<m, Put(n)>>)
      BY <1>3, <1>4
    <2> QED
      BY <2>2, OnlyStarts2, PartyFacts
  <1>5. ASSUME ~Moderated PROVE Started("vendor", {Repay, m, Put(n)})
    <2>2. Only("vendor", <<Repay, m, Put(n)>>)
      BY <1>3, <1>5
    <2> QED
      BY <2>2, OnlyStarts3, PartyFacts
  <1> QED
    BY <1>1, <1>2, <1>4, <1>5 DEF c, n, m

LEMMA RejectStarts ==
  ASSUME Typed, RejectOfflineOrder
  PROVE  LET c == order["vendor"]
             n == With(c, "DECLINED", {}) IN
         /\ c \in SoundContract /\ c # None /\ c.state = "PENDING"
         /\ n \in SoundContract /\ n.state = "DECLINED" /\ n.parts = c.parts /\ n.resolution = c.resolution
         /\ Started("vendor", {Send("buyer", Msg("ORDER_REJECT", "vendor")), Put(n)})
  <1>1. order["vendor"] \in SoundContract /\ order["vendor"] # None /\ order["vendor"].state = "PENDING"
    BY OrderKnown, PartyFacts DEF RejectOfflineOrder
  <1>2. "DECLINED" \in OrderState
    BY DEF OrderState
  <1> QED
    BY <1>1, <1>2, WithState, OnlyStarts2, PartyFacts DEF RejectOfflineOrder

LEMMA FulfillStarts ==
  ASSUME Typed, FulfillOrder
  PROVE  LET c == order["vendor"]
             n == With(c, "FULFILLED", {"fulfillment"}) IN
         /\ c \in SoundContract /\ c # None /\ c.state = "AWAITING_FULFILLMENT"
         /\ n \in SoundContract /\ n.state = "FULFILLED"
         /\ n.parts = c.parts \cup {"fulfillment"} /\ n.resolution = c.resolution
         /\ Started("vendor", {Send("buyer", Msg("ORDER_FULFILLMENT", "vendor")), Put(n)})
  <1>1. order["vendor"] \in SoundContract /\ order["vendor"] # None /\ order["vendor"].state = "AWAITING_FULFILLMENT"
    BY OrderKnown, PartyFacts DEF FulfillOrder, MayFulfill
  <1>2. "FULFILLED" \in OrderState /\ {"fulfillment"} \in SUBSET Part
    BY DEF OrderState, Part
  <1> QED
    BY <1>1, <1>2, WithSound, OnlyStarts2, PartyFacts DEF FulfillOrder

LEMMA CompleteStarts ==
  ASSUME Typed, CompleteOrder
  PROVE  LET c == order["buyer"]
             n == With(c, "COMPLETED", {}) IN
         /\ c \in SoundContract /\ c # None /\ c.state = State("buyer")
         /\ n \in SoundContract /\ n.state = "COMPLETED" /\ n.parts = c.parts /\ n.resolution = c.resolution
         /\ Started("buyer", {Send("vendor", Msg("ORDER_COMPLETION", "buyer")), Put(n)})
  <1>1. order["buyer"] \in SoundContract /\ order["buyer"] # None /\ order["buyer"].state = State("buyer")
    BY OrderKnown, PartyFacts DEF CompleteOrder, MayComplete
  <1>2. "COMPLETED" \in OrderState
    BY DEF OrderState
  <1> QED
    BY <1>1, <1>2, WithState, OnlyStarts2, PartyFacts DEF CompleteOrder

LEMMA DisputeStarts ==
  ASSUME Typed, NEW p \in Trader, OpenDispute(p)
  PROVE  LET c == order[p]
             n == With(c, "DISPUTED", {"dispute"}) IN
         /\ c \in SoundContract /\ c # None /\ c.state = State(p) /\ Moderated
         /\ n \in SoundContract /\ n.state = "DISPUTED"
         /\ n.parts = c.parts \cup {"dispute"} /\ n.resolution = c.resolution
         /\ Started(p, {Send("moderator", Msg("DISPUTE_OPEN", p)),
                        Send(Other(p), Msg("DISPUTE_OPEN", p)), Put(n)})
  <1>1. order[p] \in SoundContract /\ order[p] # None /\ order[p].state = State(p)
    BY OrderKnown, PartyFacts DEF OpenDispute, MayDispute
  <1>2. "DISPUTED" \in OrderState /\ {"dispute"} \in SUBSET Part
    BY DEF OrderState, Part
  <1>3. Moderated
    BY DEF OpenDispute, MayDispute
  <1> QED
    BY <1>1, <1>2, <1>3, WithSound, OnlyStarts3, PartyFacts DEF OpenDispute

LEMMA ReleaseStarts ==
  ASSUME Typed, NEW p \in Trader, ReleaseFunds(p)
  PROVE  LET c == order[p]
             n == With(c, "DECIDED", {"acceptance"}) IN
         /\ c \in SoundContract /\ c # None /\ c.state = "DECIDED"
         /\ c.resolution \in Resolution /\ c.resolution # None
         /\ n \in SoundContract /\ n.state = "DECIDED"
         /\ n.parts = c.parts \cup {"acceptance"} /\ n.resolution = c.resolution
         /\ call'[p] = <<Spend(c.resolution.to, None), Put(n)>>
         /\ Started(p, {Spend(c.resolution.to, None), Put(n)})
  <1>1. order[p] \in SoundContract /\ order[p] # None /\ order[p].state = "DECIDED"
    BY OrderKnown, PartyFacts DEF ReleaseFunds, MayRelease
  <1>2. "DECIDED" \in OrderState /\ {"acceptance"} \in SUBSET Part
    BY DEF OrderState, Part
  <1>3. order[p].resolution \in Resolution /\ order[p].resolution # None
    BY <1>1 DEF SoundContract, Contract
  <1> QED
    BY <1>1, <1>2, <1>3, WithSound, OnlyStarts2, PartyFacts DEF ReleaseFunds

LEMMA CancelStarts ==
  ASSUME Typed, CancelOfflineOrder
  PROVE  LET c == order["buyer"]
             n == With(c, "CANCELED", {})
             m == Send("vendor", Msg("ORDER_CANCEL", "buyer")) IN
         /\ c \in SoundContract /\ c # None /\ ~Moderated
         /\ n \in SoundContract /\ n.state = "CANCELED" /\ n.parts = c.parts /\ n.resolution = c.resolution
         /\ call'["buyer"] = <<Spend("buyer", None), m, Put(n)>>
         /\ Started("buyer", {Spend("buyer", None), m, Put(n)})
  <1>1. order["buyer"] \in SoundContract /\ order["buyer"] # None
    BY OrderKnown, PartyFacts DEF CancelOfflineOrder, MayCancel
  <1>2. "CANCELED" \in OrderState
    BY DEF OrderState
  <1>3. ~Moderated
    BY DEF CancelOfflineOrder, MayCancel
  <1> QED
    BY <1>1, <1>2, <1>3, WithState, OnlyStarts3, PartyFacts DEF CancelOfflineOrder

Finalizes == Send("buyer", Msg("VENDOR_FINALIZED_PAYMENT", "vendor"))

LEMMA TimeoutStarts ==
  ASSUME Typed, ReleaseFundsAfterTimeout
  PROVE  LET c == order["vendor"]
             n == With(c, "PAYMENT_FINALIZED", {}) IN
         /\ c \in SoundContract /\ c # None /\ late
         /\ c.state \in {"PENDING", "FULFILLED", "DISPUTED"} /\ c.state = State("vendor")
         /\ n \in SoundContract /\ n.state = "PAYMENT_FINALIZED"
         /\ n.parts = c.parts /\ n.resolution = c.resolution
         /\ call'["vendor"] = <<Spend("vendor", None), Put(n), Finalizes>>
         /\ Started("vendor", {Spend("vendor", None), Put(n), Finalizes})
  <1>1. /\ order["vendor"] \in SoundContract /\ order["vendor"] # None
        /\ order["vendor"].state \in {"PENDING", "FULFILLED", "DISPUTED"}
        /\ order["vendor"].state = State("vendor")
    BY OrderKnown, PartyFacts DEF ReleaseFundsAfterTimeout, MayReleaseEscrow
  <1>2. "PAYMENT_FINALIZED" \in OrderState
    BY DEF OrderState
  <1> QED
    BY <1>1, <1>2, WithState, OnlyStarts3, PartyFacts DEF ReleaseFundsAfterTimeout, Finalizes

LEMMA CloseStarts ==
  ASSUME Typed, CloseDispute
  PROVE  dispute # None /\ \E m \in SoundMessage :
            /\ m.type = "DISPUTE_CLOSE"
            /\ Started("moderator", {Send("buyer", m), Send("vendor", m), CloseCase})
  <1>1. PICK award \in Trader :
          /\ dispute[award] # None
          /\ LET m == [type |-> "DISPUTE_CLOSE", from |-> "moderator",
                       resolution |-> [award |-> award, to |-> dispute[award]]] IN
             Only("moderator", <<Send("buyer", m), Send("vendor", m), CloseCase>>)
    BY DEF CloseDispute
  <1> DEFINE r == [award |-> award, to |-> dispute[award]]
             m == [type |-> "DISPUTE_CLOSE", from |-> "moderator", resolution |-> r]
  <1>2. dispute \in Case /\ dispute # None
    BY DEF Typed, CloseDispute
  <1>3. r \in Resolution
    BY <1>1, <1>2 DEF Resolution, Case, Trader
  <1>4. m \in SoundMessage /\ m.type = "DISPUTE_CLOSE"
    BY <1>3, MessageTypes, PartyFacts, NoneAssumption DEF SoundMessage, Message
  <1>5. Only("moderator", <<Send("buyer", m), Send("vendor", m), CloseCase>>)
    BY <1>1
  <1> HIDE DEF m
  <1>6. Started("moderator", {Send("buyer", m), Send("vendor", m), CloseCase})
    BY <1>5, OnlyStarts3, PartyFacts
  <1> QED
    BY <1>2, <1>4, <1>6

LEMMA OnlineStarts ==
  ASSUME Typed, PurchaseOnline
  PROVE  LET n == With(New, "AWAITING_PAYMENT", {"confirmation"}) IN
         /\ method = None /\ method' \in Method \ {"DIRECT"} /\ method' # None
         /\ n \in SoundContract /\ n.state = "AWAITING_PAYMENT"
         /\ n.parts = {"confirmation"} /\ n.resolution = None
         /\ order'["vendor"] = n /\ order'["buyer"] = order["buyer"]
         /\ call["buyer"] = <<>> /\ ToDo("buyer")' = {Put(n)}
         /\ \A q \in Party : q # "buyer" => call'[q] = call[q] /\ ToDo(q)' = ToDo(q)
         /\ UNCHANGED <<ledger, dispute, coin, times, crashes, lost>>
  <1> DEFINE n == With(New, "AWAITING_PAYMENT", {"confirmation"})
  <1>1. /\ n \in SoundContract /\ n.state = "AWAITING_PAYMENT"
        /\ n.parts = {"confirmation"} /\ n.resolution = None
    BY DEF With, New, SoundContract, Contract, OrderState, Part
  <1> HIDE DEF n
  <1>2. order' = [order EXCEPT !["vendor"] = n] /\ Calls("buyer", <<Put(n)>>)
    BY DEF PurchaseOnline, n
  <1>3. order'["vendor"] = n /\ order'["buyer"] = order["buyer"]
    BY <1>2, PartyFacts DEF Typed, OrderMap
  <1>4. Range(<<Put(n)>>) = {Put(n)}
    BY DEF Range
  <1>5. /\ call["buyer"] = <<>> /\ ToDo("buyer")' = {Put(n)}
        /\ \A q \in Party : q # "buyer" => call'[q] = call[q] /\ ToDo(q)' = ToDo(q)
    BY <1>2, <1>4, StartsWith, PartyFacts
  <1>6. method' # None
    BY NoneAssumption, OrderAssumption DEF PurchaseOnline
  <1> QED
    BY <1>1, <1>3, <1>5, <1>6 DEF PurchaseOnline, n

LEMMA OfflineStarts ==
  ASSUME Typed, PurchaseOffline
  PROVE  /\ method = None /\ method' \in Method \ {"ADDRESS_REQUEST"} /\ method' # None
         /\ call["buyer"] = <<>>
         /\ call'["buyer"] = <<Send("vendor", Msg("ORDER", "buyer")), Put(New)>>
         /\ ToDo("buyer")' = {Send("vendor", Msg("ORDER", "buyer")), Put(New)}
         /\ \A q \in Party : q # "buyer" => call'[q] = call[q] /\ ToDo(q)' = ToDo(q)
         /\ UNCHANGED <<order, ledger, dispute, coin, times, crashes, lost>>
  <1> DEFINE a == Send("vendor", Msg("ORDER", "buyer"))
  <1>1. Calls("buyer", <<a, Put(New)>>)
    BY DEF PurchaseOffline
  <1> HIDE DEF a
  <1>2. Range(<<a, Put(New)>>) = {a, Put(New)}
    BY DEF Range
  <1>3. /\ call["buyer"] = <<>> /\ call'["buyer"] = <<a, Put(New)>> /\ ToDo("buyer")' = {a, Put(New)}
        /\ \A q \in Party : q # "buyer" => call'[q] = call[q] /\ ToDo(q)' = ToDo(q)
    BY <1>1, <1>2, StartsWith, PartyFacts
  <1>4. method' # None
    BY NoneAssumption, OrderAssumption DEF PurchaseOffline
  <1> QED
    BY <1>3, <1>4 DEF PurchaseOffline, a

-----------------------------------------------------------------------------
(* The records.                                                             *)

(* q's record goes to state s and gains the parts S.                        *)
Saved(q, s, S) ==
    /\ order[q] \in SoundContract /\ order[q] # None
    /\ order'[q] \in SoundContract /\ order'[q] # None
    /\ order'[q].state = s /\ order'[q].parts = order[q].parts \cup S
    /\ order'[q].resolution = order[q].resolution
    /\ \A r \in Trader : r # q => order'[r] = order[r]

LEMMA NotNone == ASSUME NEW c \in SoundContract PROVE c # None
  BY NoneAssumption DEF SoundContract

LEMMA SavesEffect ==
  ASSUME Typed, NEW v \in Verdict, NEW q \in Trader, NEW s \in OrderState, NEW S \in SUBSET Part,
         s # "DECIDED", v = "done" => State(q) # "none", Saves(v, q, s, S)
  PROVE  IF v = "done" THEN Saved(q, s, S) ELSE order' = order
  <1>1. CASE v = "done"
    <2> DEFINE n == With(order[q], s, S)
    <2>1. order[q] \in SoundContract /\ order[q] # None
      BY <1>1, OrderKnown
    <2>2. n \in SoundContract /\ n.state = s /\ n.parts = order[q].parts \cup S /\ n.resolution = order[q].resolution
      BY <2>1, WithSound
    <2>3. order' = [order EXCEPT ![q] = n]
      BY <1>1 DEF Saves
    <2> HIDE DEF n
    <2>4. order'[q] = n /\ \A r \in Trader : r # q => order'[r] = order[r]
      BY <2>3 DEF OrderMap, Typed
    <2>5. n # None
      BY <2>2, NotNone
    <2> QED
      BY <1>1, <2>1, <2>2, <2>4, <2>5 DEF Saved
  <1>2. CASE v # "done"
    BY <1>2 DEF Saves
  <1> QED
    BY <1>1, <1>2

(* What handling a message does to the records and to the money.            *)
Settles(m) ==
    \/ /\ m.type = "ORDER_CONFIRMATION" /\ coin' = coin
       /\ State("buyer") = "PENDING"
       /\ \E s \in {"AWAITING_FULFILLMENT", "AWAITING_PAYMENT"} : Saved("buyer", s, {"confirmation"})
    \/ m.type = "ORDER_CANCEL" /\ coin' = coin /\ Saved("vendor", "CANCELED", {})
    \/ m.type = "ORDER_REJECT" /\ coin = "escrow" /\ coin' = "buyer" /\ Saved("buyer", "DECLINED", {})
    \/ /\ m.type = "REFUND" /\ Saved("buyer", "REFUNDED", {})
       /\ \/ Moderated /\ coin = "escrow" /\ coin' = "buyer"
          \/ ~Moderated /\ coin' = coin
    \/ m.type = "ORDER_FULFILLMENT" /\ coin' = coin /\ Saved("buyer", "FULFILLED", {"fulfillment"})
    \/ /\ m.type = "ORDER_COMPLETION" /\ Saved("vendor", "COMPLETED", {})
       /\ \/ Moderated /\ coin = "escrow" /\ coin' = "vendor"
          \/ coin' = coin
    \/ /\ m.type = "DISPUTE_OPEN" /\ coin' = coin
       /\ \E q \in Trader : Saved(q, "DISPUTED", {"dispute"})
    \/ /\ m.type = "VENDOR_FINALIZED_PAYMENT" /\ coin' = coin
       /\ Saved("buyer", "PAYMENT_FINALIZED", {})
    \/ m.type = "ERROR" /\ coin' = coin /\ Saved("buyer", "PROCESSING_ERROR", {})

Accepts ==
    /\ coin' = coin
    /\ order'["buyer"] = order["buyer"]
    /\ order'["vendor"] \in Sale /\ order'["vendor"] # None

Decides(m) ==
    /\ coin' = coin
    /\ \E q \in Trader :
           /\ order[q] \in SoundContract /\ order[q] # None
           /\ order'[q] \in SoundContract /\ order'[q] # None
           /\ order'[q].state \in {"DECIDED", "RESOLVED"}
           /\ order'[q].state = "DECIDED" => "acceptance" \notin order[q].parts
           /\ order'[q].parts = order[q].parts
           /\ order'[q].resolution # None
           /\ \A r \in Trader : r # q => order'[r] = order[r]

LEMMA HandleEffect ==
  ASSUME Typed, NEW p \in Party, NEW m \in SoundMessage, NEW v \in Verdict, NEW o \in BOOLEAN,
         Handle(p, m, v, o)
  PROVE  \/ order' = order /\ coin' = coin
         \/ Settles(m)
         \/ m.type = "ORDER" /\ Accepts
         \/ m.type = "DISPUTE_CLOSE" /\ Decides(m)
  <1> USE PartyFacts
  <1>0. /\ "DISPUTED" \in OrderState /\ "DECLINED" \in OrderState /\ "REFUNDED" \in OrderState
        /\ "FULFILLED" \in OrderState /\ "COMPLETED" \in OrderState /\ "CANCELED" \in OrderState
        /\ "PROCESSING_ERROR" \in OrderState /\ "PAYMENT_FINALIZED" \in OrderState
        /\ "AWAITING_FULFILLMENT" \in OrderState /\ "AWAITING_PAYMENT" \in OrderState
        /\ "RESOLVED" \in OrderState /\ "DECIDED" \in OrderState
        /\ {} \in SUBSET Part /\ {"confirmation"} \in SUBSET Part
        /\ {"fulfillment"} \in SUBSET Part /\ {"dispute"} \in SUBSET Part
    BY DEF OrderState, Part
  <1>1. CASE HandleOrder(v, o) /\ m.type = "ORDER"
    <2>1. coin' = coin /\ (order' = order \/ \E c \in Sale : order' = [order EXCEPT !["vendor"] = c])
      BY <1>1, SaleStored DEF HandleOrder
    <2>2. ASSUME NEW c \in Sale, order' = [order EXCEPT !["vendor"] = c] PROVE Accepts
      <3>1. order'["vendor"] = c /\ order'["buyer"] = order["buyer"]
        BY <2>2 DEF Typed, OrderMap, Trader
      <3>2. c # None
        BY NotNone DEF Sale
      <3> QED
        BY <2>1, <3>1, <3>2 DEF Accepts
    <2> QED
      BY <1>1, <2>1, <2>2
  <1>2. CASE HandleOrderConfirmation(v) /\ m.type = "ORDER_CONFIRMATION"
    <2>1. PICK s \in {"AWAITING_FULFILLMENT", "AWAITING_PAYMENT"} : Saves(v, "buyer", s, {"confirmation"})
      BY <1>2 DEF HandleOrderConfirmation
    <2>2. coin' = coin /\ (v = "done" => State("buyer") = "PENDING")
      BY <1>2 DEF HandleOrderConfirmation, Answers
    <2>3. IF v = "done" THEN Saved("buyer", s, {"confirmation"}) ELSE order' = order
      BY <1>0, <2>1, <2>2, SavesEffect
    <2> QED
      BY <1>2, <2>2, <2>3 DEF Settles
  <1>3. CASE HandleOrderCancel(v) /\ m.type = "ORDER_CANCEL"
    <2>1. coin' = coin /\ (v = "done" => State("vendor") # "none") /\ Saves(v, "vendor", "CANCELED", {})
      BY <1>3 DEF HandleOrderCancel, Answers
    <2>2. IF v = "done" THEN Saved("vendor", "CANCELED", {}) ELSE order' = order
      BY <1>0, <2>1, SavesEffect
    <2> QED
      BY <1>3, <2>1, <2>2 DEF Settles
  <1>4. CASE HandleReject(v) /\ m.type = "ORDER_REJECT"
    <2>1. /\ v = "done" => State("buyer") # "none" /\ coin = "escrow" /\ coin' = "buyer"
          /\ v # "done" => coin' = coin
          /\ Saves(v, "buyer", "DECLINED", {})
      BY <1>4 DEF HandleReject, Answers, Pays, Spendable
    <2>2. IF v = "done" THEN Saved("buyer", "DECLINED", {}) ELSE order' = order
      BY <1>0, <2>1, SavesEffect
    <2> QED
      BY <1>4, <2>1, <2>2 DEF Settles
  <1>5. CASE HandleRefund(v) /\ m.type = "REFUND"
    <2>1. /\ v = "done" => State("buyer") # "none"
          /\ v = "done" /\ Moderated => coin = "escrow" /\ coin' = "buyer"
          /\ v # "done" \/ ~Moderated => coin' = coin
          /\ Saves(v, "buyer", "REFUNDED", {})
      BY <1>5 DEF HandleRefund, Answers, Pays, Spendable
    <2>2. IF v = "done" THEN Saved("buyer", "REFUNDED", {}) ELSE order' = order
      BY <1>0, <2>1, SavesEffect
    <2> QED
      BY <1>5, <2>1, <2>2 DEF Settles
  <1>6. CASE HandleOrderFulfillment(v) /\ m.type = "ORDER_FULFILLMENT"
    <2>1. coin' = coin /\ (v = "done" => State("buyer") # "none") /\ Saves(v, "buyer", "FULFILLED", {"fulfillment"})
      BY <1>6 DEF HandleOrderFulfillment, Answers
    <2>2. IF v = "done" THEN Saved("buyer", "FULFILLED", {"fulfillment"}) ELSE order' = order
      BY <1>0, <2>1, SavesEffect
    <2> QED
      BY <1>6, <2>1, <2>2 DEF Settles
  <1>7. CASE HandleOrderCompletion(v) /\ m.type = "ORDER_COMPLETION"
    <2>1. /\ v = "done" => State("vendor") # "none"
          /\ v # "done" => coin' = coin
          /\ coin' = coin \/ (Moderated /\ coin = "escrow" /\ coin' = "vendor")
          /\ Saves(v, "vendor", "COMPLETED", {})
      BY <1>7 DEF HandleOrderCompletion, Answers, Pays, Spendable
    <2>2. IF v = "done" THEN Saved("vendor", "COMPLETED", {}) ELSE order' = order
      BY <1>0, <2>1, SavesEffect
    <2> QED
      BY <1>7, <2>1, <2>2 DEF Settles
  <1>8. CASE HandleDisputeOpen(p, m, v) /\ m.type = "DISPUTE_OPEN"
    <2>1. CASE p = "moderator"
      BY <1>8, <2>1 DEF HandleDisputeOpen
    <2>2. CASE p # "moderator"
      <3>1. p \in Trader
        BY <2>2 DEF Party
      <3>2. Saves(v, p, "DISPUTED", {"dispute"}) /\ coin' = coin
        BY <1>8, <2>2 DEF HandleDisputeOpen
      <3>3. ASSUME v = "done" PROVE State(p) # "none"
        <4>1. State(p) \notin {"none", "COMPLETED", "DISPUTED", "DECIDED", "RESOLVED",
                               "REFUNDED", "CANCELED", "DECLINED"}
          BY <1>8, <3>1, <3>3, OpenedFrom
        <4> QED
          BY <4>1
      <3>4. IF v = "done" THEN Saved(p, "DISPUTED", {"dispute"}) ELSE order' = order
        BY <1>0, <3>1, <3>2, <3>3, SavesEffect
      <3> QED
        BY <1>8, <3>1, <3>2, <3>4 DEF Settles
    <2> QED
      BY <2>1, <2>2
  <1>9. CASE HandleDisputeUpdate(m, v)
    BY <1>9 DEF HandleDisputeUpdate
  <1>10. CASE HandleDisputeClose(p, m, v) /\ m.type = "DISPUTE_CLOSE"
    <2>1. m.resolution \in Resolution /\ m.resolution # None
      BY <1>10 DEF SoundMessage, Message
    <2>2. CASE v = "done" /\ p \in Trader
      <3> DEFINE s == IF Has(p, "acceptance") THEN "RESOLVED" ELSE "DECIDED"
                 c == [With(order[p], s, {}) EXCEPT !.resolution = m.resolution]
      <3>1. State(p) = "DISPUTED" /\ coin' = coin
        BY <1>10, <2>2 DEF HandleDisputeClose, Answers
      <3>2. order[p] \in SoundContract /\ order[p] # None
        BY <2>2, <3>1, OrderKnown
      <3>3. s \in OrderState /\ s \in {"DECIDED", "RESOLVED"} /\ (s = "DECIDED" => "acceptance" \notin order[p].parts)
        BY <1>0, <3>2 DEF Has
      <3>4. order' = [order EXCEPT ![p] = c]
        BY <1>10, <2>2 DEF HandleDisputeClose
      <3> HIDE DEF s
      <3>5. c \in SoundContract /\ c.state = s /\ c.parts = order[p].parts /\ c.resolution = m.resolution
        BY <2>1, <3>2, <3>3 DEF SoundContract, Contract, With
      <3> HIDE DEF c
      <3>6. order'[p] = c /\ \A r \in Trader : r # p => order'[r] = order[r]
        BY <2>2, <3>4 DEF OrderMap, Typed
      <3>7. c # None
        BY <3>5, NotNone
      <3> QED
        BY <1>10, <2>1, <2>2, <3>1, <3>2, <3>3, <3>5, <3>6, <3>7 DEF Decides
    <2>3. CASE v # "done"
      BY <1>10, <2>3 DEF HandleDisputeClose
    <2>4. CASE p \notin Trader
      <3>1. \A c : [order EXCEPT ![p] = c] = order
        BY <2>4 DEF Typed, OrderMap
      <3> QED
        BY <1>10, <3>1 DEF HandleDisputeClose
    <2> QED
      BY <2>2, <2>3, <2>4
  <1>11. CASE HandleVendorFinalizedPayment(v) /\ m.type = "VENDOR_FINALIZED_PAYMENT"
    <2>1. coin' = coin /\ (v = "done" => State("buyer") # "none") /\ Saves(v, "buyer", "PAYMENT_FINALIZED", {})
      BY <1>11 DEF HandleVendorFinalizedPayment, Answers
    <2>2. IF v = "done" THEN Saved("buyer", "PAYMENT_FINALIZED", {}) ELSE order' = order
      BY <1>0, <2>1, SavesEffect
    <2> QED
      BY <1>11, <2>1, <2>2 DEF Settles
  <1>12. CASE HandleError(v) /\ m.type = "ERROR"
    <2>1. coin' = coin /\ (v = "done" => State("buyer") # "none") /\ Saves(v, "buyer", "PROCESSING_ERROR", {})
      BY <1>12 DEF HandleError, Answers
    <2>2. IF v = "done" THEN Saved("buyer", "PROCESSING_ERROR", {}) ELSE order' = order
      BY <1>0, <2>1, SavesEffect
    <2> QED
      BY <1>12, <2>1, <2>2 DEF Settles
  <1> QED
    BY <1>1, <1>2, <1>3, <1>4, <1>5, <1>6, <1>7, <1>8, <1>9, <1>10, <1>11, <1>12 DEF Handle

(* The wallet's callbacks, the money and the clock.                         *)

LEMMA PayStep ==
  ASSUME Typed, Pay
  PROVE  /\ coin = "unpaid" /\ State("buyer") = "AWAITING_PAYMENT"
         /\ coin' = IF method = "ADDRESS_REQUEST" THEN "vendor" ELSE "escrow"
         /\ coin' \in Coins
         /\ UNCHANGED <<method, order, ledger, dispute, mail, call, times, crashes, lost>>
  BY PartyFacts DEF Pay, Coins

(* p's wallet has told it of the payment.                                   *)
Funds(p) ==
    /\ coin # "unpaid"
    /\ \/ Saved(p, State(p), {})
       \/ State(p) = "AWAITING_PAYMENT" /\ "confirmation" \in order[p].parts
          /\ Saved(p, "AWAITING_FULFILLMENT", {})
       \/ State(p) = "AWAITING_PAYMENT" /\ "confirmation" \notin order[p].parts
          /\ Saved(p, "PENDING", {})
       \/ /\ order[p].resolution # None \/ "acceptance" \in order[p].parts
          /\ Saved(p, "RESOLVED", {})

LEMMA FundsStep ==
  ASSUME Typed, NEW p \in Trader, PaymentSeen(p)
  PROVE  /\ order' \in OrderMap /\ ledger' \in [Trader -> {"unseen", "unspent", "spent"}]
         /\ Funds(p)
         /\ UNCHANGED <<method, dispute, coin, mail, call, times, crashes, lost>>
  <1> DEFINE c == order[p]
             a == Paid(c)
             n == Cleaned(a, State(p))
  <1>1. c \in SoundContract /\ c # None /\ c.state = State(p) /\ c.state \in OrderState
    BY DEF PaymentSeen, Typed, OrderMap, State, SoundContract, Contract
  <1>2. order' = [order EXCEPT ![p] = n]
    BY DEF PaymentSeen
  <1>3. "AWAITING_FULFILLMENT" \in OrderState /\ "PENDING" \in OrderState /\ "RESOLVED" \in OrderState
    BY DEF OrderState
  <1> HIDE DEF c
  <1>4. /\ a \in SoundContract /\ a.parts = c.parts /\ a.resolution = c.resolution
        /\ \/ a = c
           \/ c.state = "AWAITING_PAYMENT" /\ "confirmation" \in c.parts /\ a.state = "AWAITING_FULFILLMENT"
           \/ c.state = "AWAITING_PAYMENT" /\ "confirmation" \notin c.parts /\ a.state = "PENDING"
    <2>1. CASE c.state # "AWAITING_PAYMENT"
      BY <1>1, <2>1 DEF Paid
    <2>2. CASE c.state = "AWAITING_PAYMENT" /\ "confirmation" \in c.parts
      <3>1. a = With(c, "AWAITING_FULFILLMENT", {})
        BY <2>2 DEF Paid
      <3> HIDE DEF a
      <3> QED
        BY <1>1, <1>3, <2>2, <3>1, WithState
    <2>3. CASE c.state = "AWAITING_PAYMENT" /\ "confirmation" \notin c.parts
      <3>1. a = With(c, "PENDING", {})
        BY <2>3 DEF Paid
      <3> HIDE DEF a
      <3> QED
        BY <1>1, <1>3, <2>3, <3>1, WithState
    <2> QED
      BY <2>1, <2>2, <2>3
  <1> HIDE DEF a
  <1>5. /\ n \in SoundContract /\ n.parts = c.parts /\ n.resolution = c.resolution
        /\ \/ n = a
           \/ n.state = "RESOLVED" /\ (c.resolution # None \/ "acceptance" \in c.parts)
    <2>1. CASE n = a
      BY <1>4, <2>1
    <2>2. CASE n # a
      <3>1. n = With(a, "RESOLVED", {}) /\ (a.resolution # None \/ "acceptance" \in a.parts)
        BY <2>2 DEF Cleaned
      <3> HIDE DEF n
      <3> QED
        BY <1>3, <1>4, <3>1, WithState
    <2> QED
      BY <2>1, <2>2
  <1> HIDE DEF n
  <1>6. order'[p] = n /\ order' \in OrderMap /\ \A r \in Trader : r # p => order'[r] = order[r]
    BY <1>2, <1>5 DEF Typed, OrderMap
  <1>7. n # None
    BY <1>5, NotNone
  <1>8. ledger' \in [Trader -> {"unseen", "unspent", "spent"}]
    BY DEF PaymentSeen, Typed
  <1>9. coin # "unpaid" /\ UNCHANGED <<method, dispute, coin, mail, call, times, crashes, lost>>
    BY DEF PaymentSeen
  <1>10. n.state = c.state => Saved(p, State(p), {})
    BY <1>1, <1>5, <1>6, <1>7 DEF Saved, c
  <1>11. \A s : n.state = s => Saved(p, s, {})
    BY <1>1, <1>5, <1>6, <1>7 DEF Saved, c
  <1>12. \/ n.state = State(p)
         \/ State(p) = "AWAITING_PAYMENT" /\ "confirmation" \in order[p].parts /\ n.state = "AWAITING_FULFILLMENT"
         \/ State(p) = "AWAITING_PAYMENT" /\ "confirmation" \notin order[p].parts /\ n.state = "PENDING"
         \/ (order[p].resolution # None \/ "acceptance" \in order[p].parts) /\ n.state = "RESOLVED"
    BY <1>1, <1>4, <1>5 DEF c
  <1>13. Funds(p)
    BY <1>9, <1>11, <1>12 DEF Funds
  <1> QED
    BY <1>6, <1>8, <1>9, <1>13

(* p's wallet has told it that the escrow was spent.                        *)
Accepted(p) ==
    /\ coin \in Trader /\ "dispute" \in order[p].parts
    /\ \/ State(p) # "DECIDED" /\ Saved(p, State(p), {"acceptance"})
       \/ State(p) = "DECIDED" /\ Saved(p, "RESOLVED", {"acceptance"})

LEMMA AcceptedStep ==
  ASSUME Typed, NEW p \in Trader, SpendSeen(p)
  PROVE  /\ order' \in OrderMap /\ ledger' \in [Trader -> {"unseen", "unspent", "spent"}]
         /\ order' = order \/ Accepted(p)
         /\ UNCHANGED <<method, dispute, coin, mail, call, times, crashes, lost>>
  <1>1. /\ coin \in Trader /\ ledger' \in [Trader -> {"unseen", "unspent", "spent"}]
        /\ UNCHANGED <<method, dispute, coin, mail, call, times, crashes, lost>>
    BY DEF SpendSeen, Typed
  <1>2. CASE ~Has(p, "dispute")
    <2>1. order' = order
      BY <1>2 DEF SpendSeen
    <2> QED
      BY <1>1, <2>1 DEF Typed
  <1>3. CASE Has(p, "dispute")
    <2> DEFINE c == order[p]
               s == IF c.state = "DECIDED" THEN "RESOLVED" ELSE c.state
               n == With(c, s, {"acceptance"})
    <2>1. c \in SoundContract /\ c # None /\ c.state = State(p) /\ c.state \in OrderState /\ "dispute" \in c.parts
      BY <1>3 DEF Has, Typed, OrderMap, State, SoundContract, Contract
    <2>2. order' = [order EXCEPT ![p] = n]
      BY <1>3 DEF SpendSeen
    <2>3. s \in OrderState /\ s # "DECIDED" /\ {"acceptance"} \in SUBSET Part
      BY <2>1 DEF OrderState, Part
    <2>4. IF State(p) = "DECIDED" THEN s = "RESOLVED" ELSE s = State(p)
      BY <2>1
    <2> HIDE DEF s
    <2>5. n \in SoundContract /\ n.state = s /\ n.parts = c.parts \cup {"acceptance"} /\ n.resolution = c.resolution
      BY <2>1, <2>3, WithSound
    <2> HIDE DEF n, c
    <2>6. order'[p] = n /\ order' \in OrderMap /\ \A r \in Trader : r # p => order'[r] = order[r]
      BY <2>2, <2>5 DEF Typed, OrderMap
    <2>7. n # None
      BY <2>5, NotNone
    <2>8. Saved(p, s, {"acceptance"})
      BY <2>1, <2>5, <2>6, <2>7 DEF Saved, c
    <2>9. Accepted(p)
      BY <1>1, <2>1, <2>4, <2>8 DEF Accepted, c
    <2> QED
      BY <1>1, <2>6, <2>9
  <1> QED
    BY <1>2, <1>3

LEMMA CrashStep ==
  ASSUME Typed, NEW p \in Party, Crash(p)
  PROVE  /\ MailTyped' /\ call' \in CallMap /\ crashes' \in 0..MaxCrashes
         /\ crashes' # 0
         /\ call'[p] = <<>> /\ ToDo(p)' = {}
         /\ \A q \in Party : q # p => call'[q] = call[q] /\ ToDo(q)' = ToDo(q)
         /\ \A n \in UnderWay' : n \in UnderWay
         /\ OrdersWait(wire, stored, queued) => OrdersWait(wire', stored', queued')
         /\ Kept' = Kept
         /\ UNCHANGED <<method, order, ledger, dispute, coin, times, lost>>
  <1>1. wire' \in WireMap /\ \A q, r \in Party : wire'[q][r] = IF r = p THEN <<>> ELSE wire[q][r]
    BY DEF Crash, Typed, MailTyped, WireMap
  <1>2. UNCHANGED <<stored, queued, cached, repeats>> /\ pass' = [pass EXCEPT ![p] = None] /\ Kept' = Kept
    BY DEF Crash, Kept
  <1>3. pass' \in PassMap /\ \A q \in Party : pass'[q] = IF q = p THEN None ELSE pass[q]
    BY <1>2 DEF Typed, MailTyped, PassMap
  <1>4. MailTyped'
    BY <1>1, <1>2, <1>3 DEF MailTyped, Typed
  <1>5. call' = [call EXCEPT ![p] = <<>>] /\ call \in CallMap
    BY DEF Crash, Typed
  <1>6. call' \in CallMap /\ call'[p] = <<>> /\ \A q \in Party : q # p => call'[q] = call[q]
    BY <1>5 DEF CallMap
  <1>7. ToDo(p)' = {} /\ \A q \in Party : q # p => ToDo(q)' = ToDo(q)
    BY <1>6 DEF ToDo, Range
  <1>8. crashes' \in 0..MaxCrashes /\ crashes' # 0
    BY OrderAssumption DEF Crash, Typed
  <1>9. \A q, r \in Party : \A m \in Range(wire'[q][r]) : m \in Range(wire[q][r])
    <2>1. Range(<<>>) = {}
      BY DEF Range
    <2> QED
      BY <1>1, <2>1
  <1>10. \A n \in UnderWay' : n \in UnderWay
    BY <1>2, <1>9 DEF UnderWay, Carried
  <1>11. OrdersWait(wire, stored, queued) => OrdersWait(wire', stored', queued')
    BY <1>2, <1>9 DEF OrdersWait
  <1>12. UNCHANGED <<method, order, ledger, dispute, coin, times, lost>>
    BY DEF Crash
  <1> QED
    BY <1>2, <1>4, <1>6, <1>7, <1>8, <1>10, <1>11, <1>12

-----------------------------------------------------------------------------
(* The steps, by what they do to the records, the money and the mail.       *)

(* What handlers leave behind: answers, and what they have made of a case.  *)
Answered ==
    /\ method' = method /\ (late => late')
    /\ \A n \in UnderWay' :
           \/ n \in UnderWay
           \/ n.type = "ERROR" /\ Told("ORDER")
           \/ n.type = "DISPUTE_UPDATE" /\ Told("DISPUTE_OPEN")
    /\ OrdersWait(wire, stored, queued) /\ (\A n \in Kept : n.type # "ORDER")
       => OrdersWait(wire', stored', queued')
    /\ Kept' = Kept
    /\ lost \subseteq lost'
    /\ dispute # None => dispute' # None
    /\ dispute' = dispute \/ Told("DISPUTE_OPEN") \/ Told("DISPUTE_UPDATE")

(* Nothing happens to a record or to the money; a call may be cut off by a  *)
(* restart.                                                                 *)
Quiet ==
    /\ Answered
    /\ order' = order /\ coin' = coin /\ lost' = lost
    /\ \A p \in Party : call'[p] # call[p] => call'[p] = <<>> /\ crashes' # 0
    /\ crashes' = 0 => crashes = 0

Arrived(m) ==
    /\ Answered
    /\ UNCHANGED <<call, times, crashes>>
    /\ m.type # "ORDER" => lost' = lost
    /\ \/ Settles(m)
       \/ /\ m.type = "ORDER" /\ Accepts
          /\ order["vendor"] = None => lost' = lost
          /\ order["vendor"] # None /\ order' # order => Facts(order["vendor"]) \subseteq lost'
          /\ OrdersWait(wire, stored, queued) =>
                 \A n \in Carried(wire', stored', queued') : n.type # "ORDER"
       \/ m.type = "DISPUTE_CLOSE" /\ Decides(m)

Informed(p) ==
    /\ Funds(p) \/ Accepted(p)
    /\ UNCHANGED <<method, dispute, coin, mail, call, times, crashes, lost>>

LEMMA MailSame == ASSUME UNCHANGED mail
  PROVE  /\ UnderWay' = UnderWay
         /\ OrdersWait(wire, stored, queued) => OrdersWait(wire', stored', queued')
         /\ Kept' = Kept
  BY DEF mail, UnderWay, Kept

LEMMA AnsweredSame ==
  ASSUME UNCHANGED <<method, dispute, lost>>, late => late',
         \A n \in UnderWay' : n \in UnderWay, Kept' = Kept,
         OrdersWait(wire, stored, queued) /\ (\A n \in Kept : n.type # "ORDER")
             => OrdersWait(wire', stored', queued')
  PROVE  Answered
  BY DEF Answered

LEMMA ArrivalKinds ==
  ASSUME Typed, NEW p \in Party, NEW m \in UnderWay, NEW v \in Verdict, NEW o \in BOOLEAN,
         Arrival(p, m, v, o)
  PROVE  /\ order' \in OrderMap /\ coin' \in Coins /\ dispute' \in Case \cup {None}
         /\ Quiet \/ Arrived(m)
  <1>1. m \in SoundMessage /\ Handle(p, m, v, o) /\ UNCHANGED <<method, ledger, call, times, crashes>>
    BY DEF Arrival, UnderWay, Carried, Kept
  <1>a. /\ lost \subseteq lost'
        /\ m.type # "ORDER" \/ order["vendor"] = None \/ order' = order => lost' = lost
        /\ m.type = "ORDER" /\ order["vendor"] # None /\ order' # order => Facts(order["vendor"]) \subseteq lost'
    BY DEF Arrival, Loses
  <1>2. /\ order' \in OrderMap /\ coin' \in Coins
        /\ \/ dispute' = dispute
           \/ dispute' \in Case /\ m.type \in {"DISPUTE_OPEN", "DISPUTE_UPDATE"}
    BY <1>1, HandleTyped
  <1>3. dispute' \in Case \cup {None} /\ (dispute # None => dispute' # None)
    BY <1>2, NoneAssumption, OrderAssumption DEF Typed
  <1>4. dispute' = dispute \/ Told("DISPUTE_OPEN") \/ Told("DISPUTE_UPDATE")
    BY <1>2 DEF Told
  <1>5. \A n \in UnderWay' :
           \/ n \in UnderWay
           \/ n.type = "ERROR" /\ Told("ORDER")
           \/ n.type = "DISPUTE_UPDATE" /\ Told("DISPUTE_OPEN")
    <2> TAKE n \in UnderWay'
    <2>1. CASE n \in Updates(p, m, v) \cup Errors(p, m, v, o)
      BY <1>1, <2>1, RepliesSound DEF Told
    <2> QED
      BY <2>1 DEF Arrival
  <1>6. Answered
    BY <1>1, <1>3, <1>4, <1>5, <1>a DEF Answered, Arrival, times
  <1>7. \/ order' = order /\ coin' = coin
        \/ Settles(m)
        \/ m.type = "ORDER" /\ Accepts
        \/ m.type = "DISPUTE_CLOSE" /\ Decides(m)
    BY <1>1, HandleEffect
  <1>8. CASE order' = order /\ coin' = coin
    BY <1>1, <1>2, <1>3, <1>6, <1>8, <1>a DEF Quiet
  <1>9. CASE m.type = "ORDER" /\ Accepts
    BY <1>1, <1>2, <1>3, <1>6, <1>9, <1>a DEF Arrived, Arrival
  <1>10. Settles(m) => m.type # "ORDER"
    BY DEF Settles
  <1> QED
    BY <1>1, <1>2, <1>3, <1>6, <1>7, <1>8, <1>9, <1>10, <1>a DEF Arrived

LEMMA QuietSame ==
  ASSUME UNCHANGED <<method, order, dispute, coin, mail, call, crashes, lost>>, late => late'
  PROVE  Quiet
  <1>1. \A n \in UnderWay' : n \in UnderWay
    BY MailSame
  <1>2. Answered
    BY <1>1, MailSame, AnsweredSame
  <1> QED
    BY <1>2 DEF Quiet

LEMMA ArrivesStep ==
  ASSUME Typed, MailTyped', NEW p \in Party, \E m \in UnderWay, v \in Verdict, o \in BOOLEAN : Arrival(p, m, v, o)
  PROVE  Typed' /\ (Quiet \/ \E m \in UnderWay : Arrived(m))
  <1>1. PICK m \in UnderWay, v \in Verdict, o \in BOOLEAN : Arrival(p, m, v, o)
    OBVIOUS
  <1>2. /\ order' \in OrderMap /\ coin' \in Coins /\ dispute' \in Case \cup {None}
        /\ Quiet \/ Arrived(m)
    BY <1>1, ArrivalKinds
  <1>3. UNCHANGED <<method, ledger, call, late, overdue, crashes>>
    BY <1>1 DEF Arrival, times
  <1>4. lost' \subseteq Fact
    BY <1>1 DEF Arrival, Loses, Facts, Typed
  <1> QED
    BY <1>2, <1>3, <1>4 DEF Typed

LEMMA MailStep ==
  ASSUME Typed, NEW p \in Party, Mail(p)
  PROVE  Typed' /\ (Quiet \/ \E m \in UnderWay : Arrived(m))
  <1>1. CASE \E q \in Party : Deliver(q, p)
    <2>1. MailTyped' /\ \E m \in UnderWay, v \in Verdict, o \in BOOLEAN : Arrival(p, m, v, o)
      BY <1>1, DeliverArrives
    <2> QED
      BY <2>1, ArrivesStep
  <1>2. CASE Fetch(p)
    <2>1. MailTyped' /\ \E m \in UnderWay, v \in Verdict, o \in BOOLEAN : Arrival(p, m, v, o)
      BY <1>2, FetchArrives
    <2> QED
      BY <2>1, ArrivesStep
  <1>3. CASE ProcessQueued(p)
    <2>1. MailTyped' /\ \E m \in UnderWay, v \in Verdict, o \in BOOLEAN : Arrival(p, m, v, o)
      BY <1>3, ProcessArrives
    <2> QED
      BY <2>1, ArrivesStep
  <1>4. CASE BeginPass(p) \/ EndPass(p)
    <2>1. /\ MailTyped'
          /\ \A n \in UnderWay' : n \in UnderWay
          /\ OrdersWait(wire, stored, queued) => OrdersWait(wire', stored', queued')
          /\ Kept' = Kept
          /\ UNCHANGED <<method, order, ledger, dispute, coin, call, times, crashes, lost>>
      BY <1>4, PassStepMail
    <2>2. Answered
      BY <2>1, AnsweredSame DEF times
    <2>3. Quiet
      BY <2>1, <2>2 DEF Quiet
    <2> QED
      BY <2>1, <2>3 DEF Typed, times
  <1> QED
    BY <1>1, <1>2, <1>3, <1>4 DEF Mail

LEMMA ResendKind ==
  ASSUME Typed, NEW p \in Party, ResendCachedOrderMessage(p)
  PROVE  Typed' /\ Quiet
  <1>1. /\ MailTyped'
        /\ \A n \in UnderWay' : n \in UnderWay
        /\ OrdersWait(wire, stored, queued) /\ (\A n \in Kept : n.type # "ORDER")
           => OrdersWait(wire', stored', queued')
        /\ Kept' = Kept
        /\ UNCHANGED <<method, order, ledger, dispute, coin, call, late, overdue, crashes, lost>>
    BY ResendStep DEF times
  <1>2. Answered
    BY <1>1, AnsweredSame
  <1>3. Quiet
    BY <1>1, <1>2 DEF Quiet
  <1> QED
    BY <1>1, <1>3 DEF Typed

LEMMA CrashKind ==
  ASSUME Typed, NEW p \in Party, Crash(p)
  PROVE  Typed' /\ Quiet
  <1>1. /\ MailTyped' /\ call' \in CallMap /\ crashes' \in 0..MaxCrashes
        /\ crashes' # 0
        /\ call'[p] = <<>>
        /\ \A q \in Party : q # p => call'[q] = call[q]
        /\ \A n \in UnderWay' : n \in UnderWay
        /\ OrdersWait(wire, stored, queued) => OrdersWait(wire', stored', queued')
        /\ Kept' = Kept
        /\ UNCHANGED <<method, order, ledger, dispute, coin, late, overdue, lost>>
    BY CrashStep DEF times
  <1>2. Answered
    BY <1>1, AnsweredSame
  <1>3. \A q \in Party : call'[q] # call[q] => call'[q] = <<>> /\ crashes' # 0
    BY <1>1
  <1>4. Quiet
    BY <1>1, <1>2, <1>3 DEF Quiet
  <1> QED
    BY <1>1, <1>4 DEF Typed

LEMMA ToldStep ==
  ASSUME Typed, NEW p \in Trader, PaymentSeen(p) \/ SpendSeen(p)
  PROVE  Typed' /\ (Quiet \/ Informed(p))
  <1>1. /\ order' \in OrderMap /\ ledger' \in [Trader -> {"unseen", "unspent", "spent"}]
        /\ order' = order \/ Funds(p) \/ Accepted(p)
        /\ UNCHANGED <<method, dispute, coin, mail, call, times, crashes, lost>>
    BY FundsStep, AcceptedStep
  <1>2. MailTyped'
    BY <1>1 DEF mail, MailTyped, Typed
  <1>3. order' = order => Quiet
    BY <1>1, QuietSame DEF times
  <1> QED
    BY <1>1, <1>2, <1>3 DEF Typed, times, Informed

LEMMA ClockStep ==
  ASSUME Typed, EscrowTimesOut \/ DisputeExpires
  PROVE  Typed' /\ Quiet
  <1>1. /\ UNCHANGED <<method, order, ledger, dispute, coin, mail, call, crashes, lost>>
        /\ late' \in BOOLEAN /\ overdue' \in BOOLEAN /\ (late => late')
    BY DEF EscrowTimesOut, DisputeExpires, Typed
  <1>2. MailTyped'
    BY <1>1 DEF mail, MailTyped, Typed
  <1>3. Quiet
    BY <1>1, QuietSame
  <1> QED
    BY <1>1, <1>2, <1>3 DEF Typed

LEMMA StutterStep ==
  ASSUME Typed, UNCHANGED vars
  PROVE  Typed' /\ Quiet
  <1>1. UNCHANGED <<method, order, ledger, dispute, coin, mail, call, late, overdue, crashes, lost>>
    BY DEF vars, mail
  <1>2. MailTyped'
    BY <1>1 DEF mail, MailTyped, Typed
  <1>3. Quiet
    BY <1>1, QuietSame
  <1> QED
    BY <1>1, <1>2, <1>3 DEF Typed

(* A case that is to be closed is known to the moderator.                   *)
CaseKnown == \A p \in Party : \A e \in ToDo(p) : e.do = "close" => dispute # None

LEMMA EffectTyped ==
  ASSUME Typed, CaseKnown, NEW p \in Party, Effects(p)
  PROVE  Typed'
  <1>0. ASSUME UNCHANGED mail PROVE MailTyped'
    BY <1>0 DEF mail, MailTyped, Typed
  <1>1. CASE DoPut(p)
    <2>1. call[p] # <<>> /\ Advance(p) /\ order' \in OrderMap
          /\ UNCHANGED <<method, ledger, dispute, coin, mail, late, overdue, crashes, lost>>
      BY <1>1, PutStep DEF times
    <2>2. call' \in CallMap
      BY <2>1, Advances
    <2> QED
      BY <1>0, <2>1, <2>2 DEF Typed
  <1>2. CASE DoSend(p)
    <2>1. call[p] # <<>> /\ Advance(p) /\ MailTyped'
          /\ UNCHANGED <<method, order, ledger, dispute, coin, late, overdue, crashes, lost>>
      BY <1>2, SendStep DEF times
    <2>2. call' \in CallMap
      BY <2>1, Advances
    <2> QED
      BY <2>1, <2>2 DEF Typed
  <1>3. CASE DoSpend(p)
    <2>1. call[p] # <<>> /\ Advance(p) /\ coin' \in Coins
          /\ UNCHANGED <<method, order, ledger, dispute, mail, late, overdue, crashes, lost>>
      BY <1>3, SpendStep DEF times, Coins
    <2>2. call' \in CallMap
      BY <2>1, Advances
    <2> QED
      BY <1>0, <2>1, <2>2 DEF Typed
  <1>4. CASE SpendFails(p)
    <2>1. call' \in CallMap
          /\ UNCHANGED <<method, order, ledger, dispute, coin, mail, late, overdue, crashes, lost>>
      BY <1>4, SpendFailsStep DEF times
    <2> QED
      BY <1>0, <2>1 DEF Typed
  <1>5. CASE DoRepay(p)
    <2>1. call[p] # <<>> /\ Advance(p) /\ coin' = (IF coin = "vendor" THEN "buyer" ELSE coin)
          /\ UNCHANGED <<method, order, ledger, dispute, mail, late, overdue, crashes, lost>>
      BY <1>5, RepayStep DEF times
    <2>2. call' \in CallMap
      BY <2>1, Advances
    <2>3. coin' \in Coins
      BY <2>1, PartyFacts DEF Typed, Coins
    <2> QED
      BY <1>0, <2>1, <2>2, <2>3 DEF Typed
  <1>6. CASE MarkAsClosed(p)
    <2>1. call[p] # <<>> /\ Advance(p) /\ Head(call[p]).do = "close" /\ (dispute # None => dispute' \in Case)
          /\ UNCHANGED <<method, order, ledger, coin, mail, late, overdue, crashes, lost>>
      BY <1>6, CloseStep DEF times
    <2>2. call' \in CallMap
      BY <2>1, Advances
    <2>3. dispute' \in Case
      BY <2>1, HeadIn DEF CaseKnown
    <2> QED
      BY <1>0, <2>1, <2>2, <2>3 DEF Typed
  <1> QED
    BY <1>1, <1>2, <1>3, <1>4, <1>5, <1>6 DEF Effects

(* The calls that may start.                                                *)
Starting ==
    \/ PurchaseOnline \/ PurchaseOffline
    \/ ConfirmOfflineOrder \/ RejectOfflineOrder \/ CancelOfflineOrder \/ RefundOrder
    \/ FulfillOrder \/ CompleteOrder \/ ReleaseFundsAfterTimeout \/ CloseDispute
    \/ \E p \in Trader : OpenDispute(p) \/ ReleaseFunds(p)

LEMMA StartingTyped ==
  ASSUME Typed, Starting
  PROVE  Typed'
  <1> USE PartyFacts, MessageTypes
  <1>0. /\ "DECLINED" \in OrderState /\ "FULFILLED" \in OrderState /\ "COMPLETED" \in OrderState
        /\ {} \in SUBSET Part /\ {"fulfillment"} \in SUBSET Part
    BY DEF OrderState, Part
  <1>1. CASE RejectOfflineOrder
    <2>1. /\ State("vendor") # "none"
          /\ Only("vendor", <<Send("buyer", Msg("ORDER_REJECT", "vendor")),
                             Put(With(order["vendor"], "DECLINED", {}))>>)
      BY <1>1 DEF RejectOfflineOrder
    <2> QED
      BY <1>0, <2>1, SendPutTyped
  <1>2. CASE FulfillOrder
    <2>1. /\ State("vendor") # "none"
          /\ Only("vendor", <<Send("buyer", Msg("ORDER_FULFILLMENT", "vendor")),
                             Put(With(order["vendor"], "FULFILLED", {"fulfillment"}))>>)
      BY <1>2 DEF FulfillOrder, MayFulfill
    <2> QED
      BY <1>0, <2>1, SendPutTyped
  <1>3. CASE CompleteOrder
    <2>1. /\ State("buyer") # "none"
          /\ Only("buyer", <<Send("vendor", Msg("ORDER_COMPLETION", "buyer")),
                            Put(With(order["buyer"], "COMPLETED", {}))>>)
      BY <1>3 DEF CompleteOrder, MayComplete
    <2> QED
      BY <1>0, <2>1, SendPutTyped
  <1> QED
    BY <1>1, <1>2, <1>3, ConfirmTyped, CancelTyped, RefundTyped, TimeoutTyped, CloseTyped,
       DisputeTyped, ReleaseTyped, PurchaseTyped DEF Starting

LEMMA TypedStep ==
  ASSUME Typed, CaseKnown, [Next]_vars
  PROVE  /\ Typed'
         /\ \/ Starting \/ Pay \/ Quiet
            \/ \E p \in Party : Effects(p)
            \/ \E m \in UnderWay : Arrived(m)
            \/ \E p \in Trader : Informed(p)
  <1>1. CASE UNCHANGED vars
    BY <1>1, StutterStep
  <1>2. CASE BuyerCalls \/ VendorCalls \/ CloseDispute
    <2>1. Starting \/ Pay
      BY <1>2, PartyFacts DEF BuyerCalls, VendorCalls, Starting
    <2>2. CASE Pay
      <3>1. UNCHANGED <<method, order, ledger, dispute, mail, call, late, overdue, crashes, lost>> /\ coin' \in Coins
        BY <2>2, PayStep DEF times
      <3>2. MailTyped'
        BY <3>1 DEF mail, MailTyped, Typed
      <3> QED
        BY <2>2, <3>1, <3>2 DEF Typed
    <2> QED
      BY <2>1, <2>2, StartingTyped
  <1>3. ASSUME NEW p \in Party, Effects(p) \/ ResendCachedOrderMessage(p) \/ Mail(p) \/ Crash(p)
        PROVE  /\ Typed'
               /\ Quiet \/ Effects(p) \/ \E m \in UnderWay : Arrived(m)
    BY <1>3, EffectTyped, ResendKind, MailStep, CrashKind
  <1>4. ASSUME NEW p \in Trader, PaymentSeen(p) \/ SpendSeen(p)
        PROVE  Typed' /\ (Quiet \/ Informed(p))
    BY <1>4, ToldStep
  <1>5. CASE EscrowTimesOut \/ DisputeExpires
    BY <1>5, ClockStep
  <1> QED
    BY <1>1, <1>2, <1>3, <1>4, <1>5 DEF Next

-----------------------------------------------------------------------------
(* What each side may still have to do, and what an order without a         *)
(* moderator can be.                                                        *)

Unstarted == method = None =>
    /\ \A p \in Trader : order[p] = None
    /\ \A p \in Party : call[p] = <<>>
    /\ coin = "unpaid" /\ dispute = None /\ UnderWay = {} /\ lost = {}

Plain(c) ==
    /\ c.state \notin {"DISPUTED", "DECIDED", "RESOLVED"}
    /\ "dispute" \notin c.parts /\ "acceptance" \notin c.parts /\ c.resolution = None

OfBuyer(e) ==
    /\ e.do \in {"put", "send", "spend"}
    /\ e.do = "put" =>
           e.contract.state \in {"AWAITING_PAYMENT", "CANCELED", "COMPLETED", "DISPUTED", "DECIDED"}
    /\ e.do = "send" =>
           e.msg.type \in {"ORDER", "ORDER_CANCEL", "ORDER_COMPLETION", "DISPUTE_OPEN"}
    /\ e.do = "spend" => e.undo = None

OfVendor(e) ==
    /\ e.do \in {"put", "send", "spend", "repay"}
    /\ e.do = "put" =>
           e.contract.state \in {"AWAITING_FULFILLMENT", "PENDING", "DECLINED", "REFUNDED",
                                 "FULFILLED", "DISPUTED", "DECIDED", "PAYMENT_FINALIZED"}
    /\ e.do = "send" =>
           e.msg.type \in {"ORDER_REJECT", "ORDER_CONFIRMATION", "REFUND", "ORDER_FULFILLMENT",
                           "DISPUTE_OPEN", "VENDOR_FINALIZED_PAYMENT"}
    /\ e.do = "spend" /\ e.undo # None => e.to = "vendor" /\ e.undo.state = "PENDING"

OfModerator(e) ==
    /\ e.do \in {"send", "close"}
    /\ e.do = "send" => e.msg.type = "DISPUTE_CLOSE"

Fits(p, e) ==
    /\ p = "buyer" => OfBuyer(e)
    /\ p = "vendor" => OfVendor(e)
    /\ p = "moderator" => OfModerator(e)
    /\ e.do = "close" => dispute # None
    /\ Moderated => e.do # "repay" /\ (e.do = "spend" => e.undo = None)
    /\ ~Moderated =>
           /\ e.do = "put" => Plain(e.contract)
           /\ e.do = "spend" /\ e.undo # None => Plain(e.undo)
           /\ e.do = "send" => e.msg.type \notin {"DISPUTE_OPEN", "DISPUTE_UPDATE", "DISPUTE_CLOSE"}

Fitting == \A p \in Party : \A e \in ToDo(p) : Fits(p, e)

Unmoderated == ~Moderated =>
    /\ \A p \in Trader : order[p] # None => Plain(order[p])
    /\ dispute = None
    /\ ~Told("DISPUTE_OPEN") /\ ~Told("DISPUTE_UPDATE") /\ ~Told("DISPUTE_CLOSE")

Base == Typed /\ Unstarted /\ Fitting /\ Unmoderated

LEMMA BaseInit == Init => Base
  <1> SUFFICES ASSUME Init PROVE Base
    OBVIOUS
  <1>1. \A p \in Party : ToDo(p) = {}
    BY DEF Init, ToDo, Range
  <1>2. UnderWay = {}
    BY DEF Init, UnderWay, Carried, Kept, Range
  <1>3. ~Told("DISPUTE_OPEN") /\ ~Told("DISPUTE_UPDATE") /\ ~Told("DISPUTE_CLOSE")
    BY <1>2 DEF Told
  <1>4. Unstarted
    BY <1>2 DEF Unstarted, Init
  <1>5. Unmoderated
    BY <1>3 DEF Unmoderated, Init
  <1>6. Fitting
    BY <1>1 DEF Fitting
  <1> QED
    BY <1>4, <1>5, <1>6, TypedInit DEF Base

LEMMA BaseKnows == ASSUME Base PROVE CaseKnown
  BY DEF Base, Fitting, Fits, CaseKnown

LEMMA FitsStays ==
  ASSUME NEW p, NEW e, Fits(p, e), method' = method, dispute # None => dispute' # None
  PROVE  Fits(p, e)'
  BY DEF Fits, Moderated

LEMMA FittingStays ==
  ASSUME Fitting, method' = method, dispute # None => dispute' # None,
         \A p \in Party : ToDo(p)' \subseteq ToDo(p)
  PROVE  Fitting'
  <1> SUFFICES ASSUME NEW p \in Party, NEW e \in ToDo(p)' PROVE Fits(p, e)'
    BY DEF Fitting
  <1>1. e \in ToDo(p)
    OBVIOUS
  <1>2. Fits(p, e)
    BY <1>1 DEF Fitting
  <1> QED
    BY <1>2, FitsStays

LEMMA FittingStarts ==
  ASSUME Fitting, NEW p \in Party, NEW S, Started(p, S), \A e \in S : Fits(p, e)
  PROVE  Fitting'
  <1> SUFFICES ASSUME NEW q \in Party, NEW e \in ToDo(q)' PROVE Fits(q, e)'
    BY DEF Fitting
  <1>1. Fits(q, e)
    <2>1. CASE q = p
      BY <2>1 DEF Started
    <2>2. CASE q # p
      <3>1. e \in ToDo(q)
        BY <2>2 DEF Started
      <3> QED
        BY <3>1 DEF Fitting
    <2> QED
      BY <2>1, <2>2
  <1> QED
    BY <1>1, FitsStays DEF Started

(* The calls on an order that is there.                                     *)
Continuing ==
    \/ ConfirmOfflineOrder \/ RejectOfflineOrder \/ CancelOfflineOrder \/ RefundOrder
    \/ FulfillOrder \/ CompleteOrder \/ ReleaseFundsAfterTimeout \/ CloseDispute
    \/ \E p \in Trader : OpenDispute(p) \/ ReleaseFunds(p)

(* An effect that loses nothing of c.                                       *)
Extends(c, n) == c.parts \subseteq n.parts /\ n.resolution = c.resolution
From(c, e) ==
    /\ e.do = "put" => Extends(c, e.contract)
    /\ e.do = "spend" /\ e.undo # None => e.undo = c


-----------------------------------------------------------------------------
(* A call of p on what its record says: it stores one in state t with the   *)
(* parts Q added, sends messages of type u, and has effects of the kinds K. *)
Profile(p, t, u, K, Q) ==
    \E S : /\ Started(p, S)
           /\ \A e \in S :
                  /\ From(order[p], e) /\ e.do \in K
                  /\ e.do = "put" => e.contract.state = t /\ e.contract.parts \subseteq order[p].parts \cup Q
                  /\ e.do = "send" => e.msg.type = u

Profiles ==
    \/ /\ ConfirmOfflineOrder
       /\ Profile("vendor", "AWAITING_FULFILLMENT", "ORDER_CONFIRMATION", {"put", "send", "spend"}, {"confirmation"})
    \/ RefundOrder /\ Profile("vendor", "REFUNDED", "REFUND", {"put", "send", "repay"}, {})
    \/ RejectOfflineOrder /\ Profile("vendor", "DECLINED", "ORDER_REJECT", {"put", "send"}, {})
    \/ FulfillOrder /\ Profile("vendor", "FULFILLED", "ORDER_FULFILLMENT", {"put", "send"}, {"fulfillment"})
    \/ CompleteOrder /\ Profile("buyer", "COMPLETED", "ORDER_COMPLETION", {"put", "send"}, {})
    \/ CancelOfflineOrder /\ Profile("buyer", "CANCELED", "ORDER_CANCEL", {"put", "send", "spend"}, {})
    \/ /\ ReleaseFundsAfterTimeout
       /\ Profile("vendor", "PAYMENT_FINALIZED", "VENDOR_FINALIZED_PAYMENT", {"put", "send", "spend"}, {})
    \/ CloseDispute /\ Profile("moderator", "none", "DISPUTE_CLOSE", {"send", "close"}, {})
    \/ \E p \in Trader :
           OpenDispute(p) /\ Profile(p, "DISPUTED", "DISPUTE_OPEN", {"put", "send"}, {"dispute"})
    \/ \E p \in Trader : ReleaseFunds(p) /\ Profile(p, "DECIDED", "none", {"put", "spend"}, {"acceptance"})

(* The same of one effect.                                                  *)
Profiled(p, t, u, K, Q, e) ==
    /\ From(order[p], e) /\ e.do \in K
    /\ e.do = "put" => e.contract.state = t /\ e.contract.parts \subseteq order[p].parts \cup Q
    /\ e.do = "send" => e.msg.type = u

LEMMA SendProfiled ==
  ASSUME NEW p, NEW t, NEW u, NEW K, NEW Q, NEW q, NEW m, "send" \in K, m.type = u
  PROVE  Profiled(p, t, u, K, Q, Send(q, m))
  BY DEF Profiled, From, Send

LEMMA SpendProfiled ==
  ASSUME NEW p, NEW t, NEW u, NEW K, NEW Q, NEW q, NEW c, "spend" \in K, c = None \/ c = order[p]
  PROVE  Profiled(p, t, u, K, Q, Spend(q, c))
  BY DEF Profiled, From, Spend

LEMMA OtherProfiled ==
  ASSUME NEW p, NEW t, NEW u, NEW K, NEW Q
  PROVE  /\ "repay" \in K => Profiled(p, t, u, K, Q, Repay)
         /\ "close" \in K => Profiled(p, t, u, K, Q, CloseCase)
  BY DEF Profiled, From, Repay, CloseCase

LEMMA ProfileOf ==
  ASSUME NEW p, NEW t, NEW u, NEW K, NEW Q, NEW S, Started(p, S), \A e \in S : Profiled(p, t, u, K, Q, e)
  PROVE  Profile(p, t, u, K, Q)
  BY DEF Profile, Profiled

LEMMA ContinuingProfile == ASSUME Typed, Continuing PROVE Profiles
  <1> USE PartyFacts
  <1>0. \A t, p : Msg(t, p).type = t
    BY DEF Msg
  <1>1. CASE ConfirmOfflineOrder
    <2> DEFINE c == order["vendor"]
               n == With(c, "AWAITING_FULFILLMENT", {"confirmation"})
               m == Confirms
               P(e) == Profiled("vendor", "AWAITING_FULFILLMENT", "ORDER_CONFIRMATION", {"put", "send", "spend"}, {"confirmation"}, e)
    <2>1. /\ n.state = "AWAITING_FULFILLMENT" /\ n.parts = order["vendor"].parts \cup {"confirmation"} /\ n.resolution = c.resolution
          /\ (Moderated => Started("vendor", {Put(n), m})) /\ (~Moderated => Started("vendor", {Put(n), Spend("vendor", c), m}))
      BY <1>0, <1>1, ConfirmStarts
    <2>2. P(m)
      BY <1>0, SendProfiled DEF Confirms
    <2> HIDE DEF n, m
    <2>3. P(Put(n)) /\ P(Spend("vendor", c))
      BY <2>1 DEF Profiled, From, Extends, Put, Spend, Repay
    <2> HIDE DEF P
    <2>4. \E S : Started("vendor", S) /\ \A e \in S : P(e)
      BY <2>1, <2>2, <2>3
    <2> QED
      BY <1>1, <2>4, ProfileOf DEF Profiles, P
  <1>2. CASE RefundOrder
    <2> DEFINE c == order["vendor"]
               n == With(c, "REFUNDED", {})
               m == Send("buyer", Msg("REFUND", "vendor"))
               P(e) == Profiled("vendor", "REFUNDED", "REFUND", {"put", "send", "repay"}, {}, e)
    <2>1. /\ n.state = "REFUNDED" /\ n.parts = order["vendor"].parts /\ n.resolution = c.resolution
          /\ (Moderated => Started("vendor", {m, Put(n)})) /\ (~Moderated => Started("vendor", {Repay, m, Put(n)}))
      BY <1>0, <1>2, RefundStarts
    <2>2. P(m)
      BY <1>0, SendProfiled
    <2> HIDE DEF n, m
    <2>3. P(Put(n)) /\ P(Repay)
      BY <2>1 DEF Profiled, From, Extends, Put, Spend, Repay
    <2> HIDE DEF P
    <2>4. \E S : Started("vendor", S) /\ \A e \in S : P(e)
      BY <2>1, <2>2, <2>3
    <2> QED
      BY <1>2, <2>4, ProfileOf DEF Profiles, P
  <1>3. CASE RejectOfflineOrder
    <2> DEFINE c == order["vendor"]
               n == With(c, "DECLINED", {})
               m == Send("buyer", Msg("ORDER_REJECT", "vendor"))
               P(e) == Profiled("vendor", "DECLINED", "ORDER_REJECT", {"put", "send"}, {}, e)
    <2>1. /\ n.state = "DECLINED" /\ n.parts = order["vendor"].parts /\ n.resolution = c.resolution
          /\ Started("vendor", {m, Put(n)})
      BY <1>0, <1>3, RejectStarts
    <2>2. P(m)
      BY <1>0, SendProfiled
    <2> HIDE DEF n, m
    <2>3. P(Put(n))
      BY <2>1 DEF Profiled, From, Extends, Put, Spend, Repay
    <2> HIDE DEF P
    <2>4. \E S : Started("vendor", S) /\ \A e \in S : P(e)
      BY <2>1, <2>2, <2>3
    <2> QED
      BY <1>3, <2>4, ProfileOf DEF Profiles, P
  <1>4. CASE FulfillOrder
    <2> DEFINE c == order["vendor"]
               n == With(c, "FULFILLED", {"fulfillment"})
               m == Send("buyer", Msg("ORDER_FULFILLMENT", "vendor"))
               P(e) == Profiled("vendor", "FULFILLED", "ORDER_FULFILLMENT", {"put", "send"}, {"fulfillment"}, e)
    <2>1. /\ n.state = "FULFILLED" /\ n.parts = order["vendor"].parts \cup {"fulfillment"} /\ n.resolution = c.resolution
          /\ Started("vendor", {m, Put(n)})
      BY <1>0, <1>4, FulfillStarts
    <2>2. P(m)
      BY <1>0, SendProfiled
    <2> HIDE DEF n, m
    <2>3. P(Put(n))
      BY <2>1 DEF Profiled, From, Extends, Put, Spend, Repay
    <2> HIDE DEF P
    <2>4. \E S : Started("vendor", S) /\ \A e \in S : P(e)
      BY <2>1, <2>2, <2>3
    <2> QED
      BY <1>4, <2>4, ProfileOf DEF Profiles, P
  <1>5. CASE CompleteOrder
    <2> DEFINE c == order["buyer"]
               n == With(c, "COMPLETED", {})
               m == Send("vendor", Msg("ORDER_COMPLETION", "buyer"))
               P(e) == Profiled("buyer", "COMPLETED", "ORDER_COMPLETION", {"put", "send"}, {}, e)
    <2>1. /\ n.state = "COMPLETED" /\ n.parts = order["buyer"].parts /\ n.resolution = c.resolution
          /\ Started("buyer", {m, Put(n)})
      BY <1>0, <1>5, CompleteStarts
    <2>2. P(m)
      BY <1>0, SendProfiled
    <2> HIDE DEF n, m
    <2>3. P(Put(n))
      BY <2>1 DEF Profiled, From, Extends, Put, Spend, Repay
    <2> HIDE DEF P
    <2>4. \E S : Started("buyer", S) /\ \A e \in S : P(e)
      BY <2>1, <2>2, <2>3
    <2> QED
      BY <1>5, <2>4, ProfileOf DEF Profiles, P
  <1>6. CASE CancelOfflineOrder
    <2> DEFINE c == order["buyer"]
               n == With(c, "CANCELED", {})
               m == Send("vendor", Msg("ORDER_CANCEL", "buyer"))
               P(e) == Profiled("buyer", "CANCELED", "ORDER_CANCEL", {"put", "send", "spend"}, {}, e)
    <2>1. /\ n.state = "CANCELED" /\ n.parts = order["buyer"].parts /\ n.resolution = c.resolution
          /\ Started("buyer", {Spend("buyer", None), m, Put(n)})
      BY <1>0, <1>6, CancelStarts
    <2>2. P(m)
      BY <1>0, SendProfiled
    <2> HIDE DEF n, m
    <2>3. P(Put(n)) /\ P(Spend("buyer", None))
      BY <2>1 DEF Profiled, From, Extends, Put, Spend, Repay
    <2> HIDE DEF P
    <2>4. \E S : Started("buyer", S) /\ \A e \in S : P(e)
      BY <2>1, <2>2, <2>3
    <2> QED
      BY <1>6, <2>4, ProfileOf DEF Profiles, P
  <1>7. CASE ReleaseFundsAfterTimeout
    <2> DEFINE c == order["vendor"]
               n == With(c, "PAYMENT_FINALIZED", {})
               m == Finalizes
               P(e) == Profiled("vendor", "PAYMENT_FINALIZED", "VENDOR_FINALIZED_PAYMENT", {"put", "send", "spend"}, {}, e)
    <2>1. /\ n.state = "PAYMENT_FINALIZED" /\ n.parts = order["vendor"].parts /\ n.resolution = c.resolution
          /\ Started("vendor", {Spend("vendor", None), Put(n), m})
      BY <1>0, <1>7, TimeoutStarts
    <2>2. P(m)
      BY <1>0, SendProfiled DEF Finalizes
    <2> HIDE DEF n, m
    <2>3. P(Put(n)) /\ P(Spend("vendor", None))
      BY <2>1 DEF Profiled, From, Extends, Put, Spend, Repay
    <2> HIDE DEF P
    <2>4. \E S : Started("vendor", S) /\ \A e \in S : P(e)
      BY <2>1, <2>2, <2>3
    <2> QED
      BY <1>7, <2>4, ProfileOf DEF Profiles, P
  <1>8. CASE CloseDispute
    <2> DEFINE P(e) == Profiled("moderator", "none", "DISPUTE_CLOSE", {"send", "close"}, {}, e)
    <2>1. PICK m \in SoundMessage :
            /\ m.type = "DISPUTE_CLOSE"
            /\ Started("moderator", {Send("buyer", m), Send("vendor", m), CloseCase})
      BY <1>0, <1>8, CloseStarts
    <2>2. P(Send("buyer", m)) /\ P(Send("vendor", m)) /\ P(CloseCase)
      BY <2>1, SendProfiled, OtherProfiled
    <2> HIDE DEF P
    <2>3. \E S : Started("moderator", S) /\ \A e \in S : P(e)
      BY <2>1, <2>2
    <2> QED
      BY <1>8, <2>3, ProfileOf DEF Profiles, P
  <1>9. ASSUME NEW p \in Trader, OpenDispute(p) PROVE Profiles
    <2> DEFINE c == order[p]
               n == With(c, "DISPUTED", {"dispute"})
               m == Msg("DISPUTE_OPEN", p)
               P(e) == Profiled(p, "DISPUTED", "DISPUTE_OPEN", {"put", "send"}, {"dispute"}, e)
    <2>1. /\ n.state = "DISPUTED" /\ n.parts = c.parts \cup {"dispute"} /\ n.resolution = c.resolution
          /\ Started(p, {Send("moderator", m), Send(Other(p), m), Put(n)})
      BY <1>0, <1>9, DisputeStarts
    <2>2. P(Send("moderator", m)) /\ P(Send(Other(p), m))
      BY <1>0, SendProfiled
    <2> HIDE DEF n, m
    <2>3. P(Put(n))
      BY <2>1 DEF Profiled, From, Extends, Put
    <2> HIDE DEF P
    <2>4. \E S : Started(p, S) /\ \A e \in S : P(e)
      BY <2>1, <2>2, <2>3
    <2> QED
      BY <1>9, <2>4, ProfileOf DEF Profiles, P
  <1>10. ASSUME NEW p \in Trader, ReleaseFunds(p) PROVE Profiles
    <2> DEFINE c == order[p]
               n == With(c, "DECIDED", {"acceptance"})
               a == Spend(c.resolution.to, None)
               P(e) == Profiled(p, "DECIDED", "none", {"put", "spend"}, {"acceptance"}, e)
    <2>1. /\ n.state = "DECIDED" /\ n.parts = c.parts \cup {"acceptance"} /\ n.resolution = c.resolution
          /\ Started(p, {a, Put(n)})
      BY <1>0, <1>10, ReleaseStarts
    <2>2. P(a)
      BY SpendProfiled
    <2> HIDE DEF n, a
    <2>3. P(Put(n))
      BY <2>1 DEF Profiled, From, Extends, Put
    <2> HIDE DEF P
    <2>4. \E S : Started(p, S) /\ \A e \in S : P(e)
      BY <2>1, <2>2, <2>3
    <2> QED
      BY <1>10, <2>4, ProfileOf DEF Profiles, P
  <1> QED
    BY <1>1, <1>2, <1>3, <1>4, <1>5, <1>6, <1>7, <1>8, <1>9, <1>10 DEF Continuing

LEMMA PutFits ==
  ASSUME NEW p \in Trader, NEW n \in SoundContract, ~Moderated => Plain(n),
         p = "buyer" => n.state \in {"AWAITING_PAYMENT", "CANCELED", "COMPLETED", "DISPUTED", "DECIDED"},
         p = "vendor" => n.state \in {"AWAITING_FULFILLMENT", "PENDING", "DECLINED", "REFUNDED",
                                      "FULFILLED", "DISPUTED", "DECIDED", "PAYMENT_FINALIZED"}
  PROVE  Fits(p, Put(n))
  BY PartyFacts DEF Fits, OfBuyer, OfVendor, Put

LEMMA SendFits ==
  ASSUME NEW p \in Trader, NEW q, NEW m, m.type = "DISPUTE_OPEN" => Moderated,
         p = "buyer" => m.type \in {"ORDER", "ORDER_CANCEL", "ORDER_COMPLETION", "DISPUTE_OPEN"},
         p = "vendor" => m.type \in {"ORDER_REJECT", "ORDER_CONFIRMATION", "REFUND", "ORDER_FULFILLMENT",
                                     "DISPUTE_OPEN", "VENDOR_FINALIZED_PAYMENT"}
  PROVE  Fits(p, Send(q, m))
  BY PartyFacts DEF Fits, OfBuyer, OfVendor, Send, Trader

LEMMA SpendFits ==
  ASSUME NEW p \in Trader, NEW q
  PROVE  Fits(p, Spend(q, None))
  BY PartyFacts DEF Fits, OfBuyer, OfVendor, Spend

LEMMA PlainStays ==
  ASSUME NEW c, NEW n, Plain(c), n.state \notin {"DISPUTED", "DECIDED", "RESOLVED"},
         n.resolution = c.resolution, NEW k, n.parts = c.parts \cup {k} \/ n.parts = c.parts,
         k \notin {"dispute", "acceptance"}
  PROVE  Plain(n)
  BY DEF Plain

LEMMA ContinuingFits ==
  ASSUME Base, Continuing
  PROVE  \E p \in Party : \E S : Started(p, S) /\ \A e \in S : Fits(p, e)
  <1> USE PartyFacts
  <1>0. /\ Typed
        /\ \A p \in Trader : order[p] # None /\ ~Moderated => Plain(order[p])
        /\ \A t, p : Msg(t, p).type = t
    BY DEF Base, Unmoderated, Msg
  <1>1. CASE ConfirmOfflineOrder
    <2> DEFINE c == order["vendor"]
               n == With(c, "AWAITING_FULFILLMENT", {"confirmation"})
    <2>1. /\ c \in SoundContract /\ c # None /\ c.state = "PENDING"
          /\ n \in SoundContract /\ n.state = "AWAITING_FULFILLMENT"
          /\ n.parts = c.parts \cup {"confirmation"} /\ n.resolution = c.resolution
          /\ Moderated => Started("vendor", {Put(n), Confirms})
          /\ ~Moderated => Started("vendor", {Put(n), Spend("vendor", c), Confirms})
      BY <1>0, <1>1, ConfirmStarts
    <2>2. ~Moderated => Plain(c)
      BY <1>0, <2>1
    <2> HIDE DEF c, n
    <2>3. ~Moderated => Plain(n)
      BY <2>1, <2>2, PlainStays
    <2>4. Fits("vendor", Put(n)) /\ Fits("vendor", Confirms)
      BY <1>0, <2>1, <2>3, PutFits, SendFits DEF Confirms
    <2>5. ~Moderated => Fits("vendor", Spend("vendor", c))
      BY <2>1, <2>2 DEF Fits, OfVendor, Spend
    <2> QED
      BY <2>1, <2>4, <2>5
  <1>2. CASE RefundOrder
    <2> DEFINE c == order["vendor"]
               n == With(c, "REFUNDED", {})
               m == Send("buyer", Msg("REFUND", "vendor"))
    <2>1. /\ c \in SoundContract /\ c # None /\ c.state = "AWAITING_FULFILLMENT"
          /\ n \in SoundContract /\ n.state = "REFUNDED" /\ n.parts = c.parts /\ n.resolution = c.resolution
          /\ Moderated => Started("vendor", {m, Put(n)})
          /\ ~Moderated => Started("vendor", {Repay, m, Put(n)})
      BY <1>0, <1>2, RefundStarts
    <2>2. ~Moderated => Plain(c)
      BY <1>0, <2>1
    <2>3. Fits("vendor", m)
      BY <1>0, SendFits
    <2> HIDE DEF c, n, m
    <2>4. ~Moderated => Plain(n)
      BY <2>1, <2>2, PlainStays
    <2>5. Fits("vendor", Put(n))
      BY <2>1, <2>4, PutFits
    <2>6. ~Moderated => Fits("vendor", Repay)
      BY DEF Fits, OfVendor, Repay
    <2> QED
      BY <2>1, <2>3, <2>5, <2>6
  <1>3. CASE RejectOfflineOrder
    <2> DEFINE c == order["vendor"]
               n == With(c, "DECLINED", {})
               m == Send("buyer", Msg("ORDER_REJECT", "vendor"))
    <2>1. /\ c \in SoundContract /\ c # None
          /\ n \in SoundContract /\ n.state = "DECLINED" /\ n.parts = c.parts /\ n.resolution = c.resolution
          /\ Started("vendor", {m, Put(n)})
      BY <1>0, <1>3, RejectStarts
    <2>2. ~Moderated => Plain(c)
      BY <1>0, <2>1
    <2>3. Fits("vendor", m)
      BY <1>0, SendFits
    <2> HIDE DEF c, n, m
    <2>4. ~Moderated => Plain(n)
      BY <2>1, <2>2, PlainStays
    <2>5. Fits("vendor", Put(n))
      BY <2>1, <2>4, PutFits
    <2> QED
      BY <2>1, <2>3, <2>5
  <1>4. CASE FulfillOrder
    <2> DEFINE c == order["vendor"]
               n == With(c, "FULFILLED", {"fulfillment"})
               m == Send("buyer", Msg("ORDER_FULFILLMENT", "vendor"))
    <2>1. /\ c \in SoundContract /\ c # None
          /\ n \in SoundContract /\ n.state = "FULFILLED"
          /\ n.parts = c.parts \cup {"fulfillment"} /\ n.resolution = c.resolution
          /\ Started("vendor", {m, Put(n)})
      BY <1>0, <1>4, FulfillStarts
    <2>2. ~Moderated => Plain(c)
      BY <1>0, <2>1
    <2>3. Fits("vendor", m)
      BY <1>0, SendFits
    <2> HIDE DEF c, n, m
    <2>4. ~Moderated => Plain(n)
      BY <2>1, <2>2, PlainStays
    <2>5. Fits("vendor", Put(n))
      BY <2>1, <2>4, PutFits
    <2> QED
      BY <2>1, <2>3, <2>5
  <1>5. CASE CompleteOrder
    <2> DEFINE c == order["buyer"]
               n == With(c, "COMPLETED", {})
               m == Send("vendor", Msg("ORDER_COMPLETION", "buyer"))
    <2>1. /\ c \in SoundContract /\ c # None
          /\ n \in SoundContract /\ n.state = "COMPLETED" /\ n.parts = c.parts /\ n.resolution = c.resolution
          /\ Started("buyer", {m, Put(n)})
      BY <1>0, <1>5, CompleteStarts
    <2>2. ~Moderated => Plain(c)
      BY <1>0, <2>1
    <2>3. Fits("buyer", m)
      BY <1>0, SendFits
    <2> HIDE DEF c, n, m
    <2>4. ~Moderated => Plain(n)
      BY <2>1, <2>2, PlainStays
    <2>5. Fits("buyer", Put(n))
      BY <2>1, <2>4, PutFits
    <2> QED
      BY <2>1, <2>3, <2>5
  <1>6. CASE CancelOfflineOrder
    <2> DEFINE c == order["buyer"]
               n == With(c, "CANCELED", {})
               m == Send("vendor", Msg("ORDER_CANCEL", "buyer"))
    <2>1. /\ c \in SoundContract /\ c # None /\ ~Moderated
          /\ n \in SoundContract /\ n.state = "CANCELED" /\ n.parts = c.parts /\ n.resolution = c.resolution
          /\ Started("buyer", {Spend("buyer", None), m, Put(n)})
      BY <1>0, <1>6, CancelStarts
    <2>2. ~Moderated => Plain(c)
      BY <1>0, <2>1
    <2>3. Fits("buyer", m)
      BY <1>0, SendFits
    <2> HIDE DEF c, n, m
    <2>4. ~Moderated => Plain(n)
      BY <2>1, <2>2, PlainStays
    <2>5. Fits("buyer", Put(n)) /\ Fits("buyer", Spend("buyer", None))
      BY <2>1, <2>4, PutFits, SpendFits
    <2> QED
      BY <2>1, <2>3, <2>5
  <1>7. CASE ReleaseFundsAfterTimeout
    <2> DEFINE c == order["vendor"]
               n == With(c, "PAYMENT_FINALIZED", {})
    <2>1. /\ c \in SoundContract /\ c # None
          /\ n \in SoundContract /\ n.state = "PAYMENT_FINALIZED" /\ n.parts = c.parts /\ n.resolution = c.resolution
          /\ Started("vendor", {Spend("vendor", None), Put(n), Finalizes})
      BY <1>0, <1>7, TimeoutStarts
    <2>2. ~Moderated => Plain(c)
      BY <1>0, <2>1
    <2>3. Fits("vendor", Finalizes)
      BY <1>0, SendFits DEF Finalizes
    <2> HIDE DEF c, n
    <2>4. ~Moderated => Plain(n)
      BY <2>1, <2>2, PlainStays
    <2>5. Fits("vendor", Put(n)) /\ Fits("vendor", Spend("vendor", None))
      BY <2>1, <2>4, PutFits, SpendFits
    <2> QED
      BY <2>1, <2>3, <2>5
  <1>8. CASE CloseDispute
    <2>1. dispute # None /\ \E m \in SoundMessage :
            /\ m.type = "DISPUTE_CLOSE"
            /\ Started("moderator", {Send("buyer", m), Send("vendor", m), CloseCase})
      BY <1>0, <1>8, CloseStarts
    <2>2. PICK m \in SoundMessage :
            /\ m.type = "DISPUTE_CLOSE"
            /\ Started("moderator", {Send("buyer", m), Send("vendor", m), CloseCase})
      BY <2>1
    <2>3. Moderated
      BY <2>1 DEF Base, Unmoderated
    <2>4. \A q : Fits("moderator", Send(q, m))
      BY <2>2, <2>3 DEF Fits, OfModerator, Send
    <2>5. Fits("moderator", CloseCase)
      BY <2>1, <2>3 DEF Fits, OfModerator, CloseCase
    <2> QED
      BY <2>2, <2>4, <2>5
  <1>9. ASSUME NEW p \in Trader, OpenDispute(p)
        PROVE  \E S : Started(p, S) /\ \A e \in S : Fits(p, e)
    <2> DEFINE n == With(order[p], "DISPUTED", {"dispute"})
               a == Send("moderator", Msg("DISPUTE_OPEN", p))
               b == Send(Other(p), Msg("DISPUTE_OPEN", p))
    <2>1. /\ Moderated
          /\ n \in SoundContract /\ n.state = "DISPUTED"
          /\ Started(p, {a, b, Put(n)})
      BY <1>0, <1>9, DisputeStarts
    <2>2. Fits(p, a) /\ Fits(p, b)
      BY <1>0, <2>1, SendFits
    <2> HIDE DEF n, a, b
    <2>3. Fits(p, Put(n))
      BY <2>1, PutFits
    <2> QED
      BY <2>1, <2>2, <2>3
  <1>10. ASSUME NEW p \in Trader, ReleaseFunds(p)
        PROVE  \E S : Started(p, S) /\ \A e \in S : Fits(p, e)
    <2> DEFINE c == order[p]
               n == With(c, "DECIDED", {"acceptance"})
    <2>1. /\ c # None /\ c.state = "DECIDED"
          /\ n \in SoundContract /\ n.state = "DECIDED"
          /\ Started(p, {Spend(c.resolution.to, None), Put(n)})
      BY <1>0, <1>10, ReleaseStarts
    <2>2. Moderated
      BY <1>0, <2>1 DEF Plain
    <2> HIDE DEF n
    <2>3. Fits(p, Put(n)) /\ Fits(p, Spend(c.resolution.to, None))
      BY <2>1, <2>2, PutFits, SpendFits
    <2> QED
      BY <2>1, <2>3
  <1> QED
    BY <1>1, <1>2, <1>3, <1>4, <1>5, <1>6, <1>7, <1>8, <1>9, <1>10 DEF Continuing

LEMMA SavedPlain ==
  ASSUME NEW q \in Trader, NEW s, NEW S, Saved(q, s, S),
         \A p \in Trader : order[p] # None => Plain(order[p]),
         s \notin {"DISPUTED", "DECIDED", "RESOLVED"}, "dispute" \notin S, "acceptance" \notin S
  PROVE  \A p \in Trader : order'[p] # None => Plain(order'[p])
  <1>1. Plain(order[q])
    BY DEF Saved
  <1>2. Plain(order'[q])
    BY <1>1 DEF Saved, Plain
  <1> QED
    BY <1>2 DEF Saved

LEMMA ArrivedPlain ==
  ASSUME Unmoderated, ~Moderated, NEW m \in UnderWay, Arrived(m)
  PROVE  \A p \in Trader : order'[p] # None => Plain(order'[p])
  <1> USE PartyFacts
  <1>0. /\ \A p \in Trader : order[p] # None => Plain(order[p])
        /\ m.type \notin {"DISPUTE_OPEN", "DISPUTE_UPDATE", "DISPUTE_CLOSE"}
    BY DEF Unmoderated, Told
  <1>1. CASE Settles(m)
    <2>1. \/ Saved("buyer", "AWAITING_FULFILLMENT", {"confirmation"})
          \/ Saved("buyer", "AWAITING_PAYMENT", {"confirmation"})
          \/ Saved("vendor", "CANCELED", {})
          \/ Saved("buyer", "DECLINED", {})
          \/ Saved("buyer", "REFUNDED", {})
          \/ Saved("buyer", "FULFILLED", {"fulfillment"})
          \/ Saved("vendor", "COMPLETED", {})
          \/ Saved("buyer", "PAYMENT_FINALIZED", {})
          \/ Saved("buyer", "PROCESSING_ERROR", {})
      BY <1>0, <1>1 DEF Settles
    <2> QED
      BY <1>0, <2>1, SavedPlain
  <1>2. CASE Accepts
    <2>1. Plain(order'["vendor"])
      BY <1>2 DEF Accepts, Sale, Plain
    <2> QED
      BY <1>0, <1>2, <2>1 DEF Accepts, Trader
  <1> QED
    BY <1>0, <1>1, <1>2 DEF Arrived

LEMMA InformedPlain ==
  ASSUME Base, ~Moderated, NEW p \in Trader, Informed(p)
  PROVE  \A q \in Trader : order'[q] # None => Plain(order'[q])
  <1>0. /\ \A q \in Trader : order[q] # None => Plain(order[q])
        /\ Typed
    BY DEF Base, Unmoderated
  <1>1. order[p] # None
    BY DEF Informed, Funds, Accepted, Saved
  <1>2. Plain(order[p])
    BY <1>0, <1>1
  <1>3. State(p) \notin {"DISPUTED", "DECIDED", "RESOLVED"}
    BY <1>1, <1>2 DEF Plain, State
  <1>4. \/ Saved(p, State(p), {}) \/ Saved(p, "AWAITING_FULFILLMENT", {}) \/ Saved(p, "PENDING", {})
    BY <1>2 DEF Informed, Funds, Accepted, Plain
  <1> QED
    BY <1>0, <1>3, <1>4, SavedPlain

LEMMA ToldGrows ==
  ASSUME Answered, NEW t, Told(t)'
  PROVE  \/ Told(t)
         \/ t = "ERROR" /\ Told("ORDER")
         \/ t = "DISPUTE_UPDATE" /\ Told("DISPUTE_OPEN")
  <1>1. PICK n \in UnderWay' : n.type = t
    BY DEF Told
  <1> QED
    BY <1>1 DEF Answered, Told

LEMMA ToldMail == ASSUME UNCHANGED mail, NEW t PROVE Told(t)' <=> Told(t)
  BY MailSame DEF Told

LEMMA ToDoSame == ASSUME UNCHANGED call PROVE \A p \in Party : ToDo(p)' = ToDo(p)
  BY DEF ToDo

LEMMA QuietToDo ==
  ASSUME Quiet
  PROVE  \A p \in Party : ToDo(p)' \subseteq ToDo(p)
  <1>1. Range(<<>>) = {}
    BY DEF Range
  <1> QED
    BY <1>1 DEF Quiet, ToDo

(* Steps that start no call.                                                *)
EffectDone(p) ==
    \/ DoPut(p) \/ DoSend(p) \/ DoSpend(p) \/ DoRepay(p) \/ MarkAsClosed(p)

LEMMA DoneToDo ==
  ASSUME Typed, NEW p \in Party, EffectDone(p)
  PROVE  /\ call[p] # <<>> /\ Advance(p) /\ Head(call[p]) \in ToDo(p)
         /\ \A q \in Party : q # p => call'[q] = call[q]
         /\ call'[p] = Tail(call[p])
         /\ \A q \in Party : ToDo(q)' \subseteq ToDo(q)
         /\ ToDo(p) = {Head(call[p])} \cup ToDo(p)'
  <1>1. call[p] # <<>> /\ Advance(p)
    BY PutStep, SendStep, SpendStep, RepayStep, CloseStep DEF EffectDone
  <1> QED
    BY <1>1, Advances, HeadIn

LEMMA EffectKept ==
  ASSUME Base, NEW p \in Party, Effects(p), Typed'
  PROVE  method' = method /\ (dispute # None => dispute' # None)
         /\ (dispute' # dispute => \E e \in ToDo(p) : e.do = "close")
         /\ UNCHANGED times /\ crashes' = crashes
  <1>1. Typed
    BY DEF Base
  <1>2. CASE MarkAsClosed(p)
    <2>1. call[p] # <<>> /\ Head(call[p]).do = "close" /\ (dispute # None => dispute' \in Case)
          /\ UNCHANGED <<method, times, crashes, lost>>
      BY <1>1, <1>2, CloseStep
    <2>2. Head(call[p]) \in ToDo(p)
      BY <1>1, <2>1, HeadIn
    <2> QED
      BY <2>1, <2>2, NoneAssumption, OrderAssumption
  <1> QED
    BY <1>1, <1>2, PutStep, SendStep, SpendStep, RepayStep, SpendFailsStep DEF Effects

LEMMA EffectFits ==
  ASSUME Base, NEW p \in Party, Effects(p), Typed'
  PROVE  Fitting'
  <1>0. Typed /\ Fitting /\ method' = method /\ (dispute # None => dispute' # None)
    BY EffectKept DEF Base
  <1>1. CASE EffectDone(p)
    BY <1>0, <1>1, DoneToDo, FittingStays
  <1>2. CASE SpendFails(p)
    <2> DEFINE u == Head(call[p]).undo
    <2>1. /\ call[p] # <<>> /\ Head(call[p]).do = "spend"
          /\ \A q \in Party : q # p => ToDo(q)' = ToDo(q)
          /\ \/ ToDo(p)' = {}
             \/ u \in SoundContract /\ u # None /\ ToDo(p)' = {Put(u)}
      BY <1>0, <1>2, SpendFailsStep
    <2>2. Fits(p, Head(call[p]))
      BY <1>0, <2>1, HeadIn DEF Fitting
    <2>3. u # None => p = "vendor" /\ u.state = "PENDING" /\ ~Moderated
      BY <2>1, <2>2 DEF Fits, OfVendor, OfBuyer, OfModerator, Party, Trader
    <2>4. u # None => Plain(u)
      BY <2>1, <2>2, <2>3 DEF Fits
    <2> HIDE DEF u
    <2>5. u \in SoundContract /\ u # None => Fits(p, Put(u))
      BY <2>3, <2>4, PutFits, PartyFacts
    <2> SUFFICES ASSUME NEW q \in Party, NEW e \in ToDo(q)' PROVE Fits(q, e)'
      BY DEF Fitting
    <2>6. Fits(q, e)
      BY <1>0, <2>1, <2>5 DEF Fitting
    <2> QED
      BY <1>0, <2>6, FitsStays
  <1> QED
    BY <1>1, <1>2 DEF Effects, EffectDone

LEMMA EffectPlain ==
  ASSUME Base, NEW p \in Party, Effects(p), Typed'
  PROVE  Unmoderated'
  <1>0. Typed /\ Fitting /\ Unmoderated /\ method' = method
    BY EffectKept DEF Base
  <1> SUFFICES ASSUME ~Moderated
               PROVE  /\ \A q \in Trader : order'[q] # None => Plain(order'[q])
                      /\ dispute' = None
                      /\ ~Told("DISPUTE_OPEN")' /\ ~Told("DISPUTE_UPDATE")' /\ ~Told("DISPUTE_CLOSE")'
    BY <1>0 DEF Unmoderated, Moderated
  <1>1. /\ \A q \in Trader : order[q] # None => Plain(order[q])
        /\ dispute = None
        /\ ~Told("DISPUTE_OPEN") /\ ~Told("DISPUTE_UPDATE") /\ ~Told("DISPUTE_CLOSE")
    BY <1>0 DEF Unmoderated
  <1>2. dispute' = None
    BY <1>0, <1>1, EffectKept DEF Fitting, Fits
  <1>3. CASE DoPut(p)
    <2>1. /\ call[p] # <<>> /\ Head(call[p]).do = "put"
          /\ p \in Trader => order'[p] = Head(call[p]).contract
          /\ \A q \in Trader : q # p => order'[q] = order[q]
          /\ UNCHANGED mail
      BY <1>0, <1>3, PutStep
    <2>2. Fits(p, Head(call[p]))
      BY <1>0, <2>1, HeadIn DEF Fitting
    <2>3. Plain(Head(call[p]).contract)
      BY <2>1, <2>2 DEF Fits
    <2> QED
      BY <1>1, <1>2, <2>1, <2>3, ToldMail
  <1>4. CASE DoSend(p)
    <2>1. /\ call[p] # <<>> /\ Head(call[p]).do = "send"
          /\ \A n \in UnderWay' : n \in UnderWay \/ n = Head(call[p]).msg
          /\ order' = order
      BY <1>0, <1>4, SendStep
    <2>2. Fits(p, Head(call[p]))
      BY <1>0, <2>1, HeadIn DEF Fitting
    <2>3. Head(call[p]).msg.type \notin {"DISPUTE_OPEN", "DISPUTE_UPDATE", "DISPUTE_CLOSE"}
      BY <2>1, <2>2 DEF Fits
    <2> QED
      BY <1>1, <1>2, <2>1, <2>3 DEF Told
  <1>5. CASE DoSpend(p) \/ SpendFails(p) \/ DoRepay(p) \/ MarkAsClosed(p)
    <2>1. order' = order /\ UNCHANGED mail
      BY <1>0, <1>5, SpendStep, SpendFailsStep, RepayStep, CloseStep
    <2> QED
      BY <1>1, <1>2, <2>1, ToldMail
  <1> QED
    BY <1>3, <1>4, <1>5 DEF Effects

(* Before the purchase nothing happens.                                     *)
LEMMA Idle ==
  ASSUME Base, method = None
  PROVE  /\ ~Pay /\ ~Continuing
         /\ \A p \in Party : ~Effects(p)
         /\ \A m \in UnderWay : ~Arrived(m)
         /\ \A p \in Trader : ~Informed(p)
  <1>1. /\ \A p \in Trader : order[p] = None
        /\ \A p \in Party : call[p] = <<>>
        /\ dispute = None /\ UnderWay = {}
    BY DEF Base, Unstarted
  <1>2. \A p \in Trader : State(p) = "none"
    BY <1>1 DEF State
  <1>3. ~Pay /\ ~Continuing
    BY <1>1, <1>2, PartyFacts DEF Pay, Continuing, ConfirmOfflineOrder, MayConfirm, RejectOfflineOrder,
       CancelOfflineOrder, MayCancel, RefundOrder, MayRefund, FulfillOrder, MayFulfill, CompleteOrder,
       MayComplete, ReleaseFundsAfterTimeout, MayReleaseEscrow, CloseDispute, OpenDispute, MayDispute,
       ReleaseFunds, MayRelease
  <1>4. \A p \in Party : ~Effects(p)
    BY <1>1 DEF Effects, DoPut, DoSend, DoSpend, SpendFails, DoRepay, MarkAsClosed, Doing
  <1>5. \A p \in Trader : ~Informed(p)
    BY <1>1 DEF Informed, Funds, Accepted, Saved
  <1> QED
    BY <1>1, <1>3, <1>4, <1>5

LEMMA BuyFits ==
  ASSUME Base, PurchaseOnline \/ PurchaseOffline
  PROVE  /\ Fitting' /\ Unmoderated' /\ Unstarted'
  <1>0. Typed /\ Unstarted
    BY DEF Base
  <1>1. /\ method = None /\ method' # None
        /\ UNCHANGED <<ledger, dispute, coin, times, crashes, lost>>
        /\ \A q \in Party : q # "buyer" => ToDo(q)' = ToDo(q)
    BY <1>0, OnlineStarts, OfflineStarts
  <1>2. /\ \A p \in Trader : order[p] = None
        /\ \A p \in Party : call[p] = <<>> /\ ToDo(p) = {}
        /\ dispute = None /\ UnderWay = {}
    BY <1>0, <1>1 DEF Unstarted, ToDo, Range
  <1>3. ~Told("DISPUTE_OPEN")' /\ ~Told("DISPUTE_UPDATE")' /\ ~Told("DISPUTE_CLOSE")'
    BY <1>0, <1>2, PurchaseMail DEF Told
  <1>4. /\ \A q \in Trader : order'[q] # None => Plain(order'[q])
        /\ \A e \in ToDo("buyer")' : Fits("buyer", e)'
    <2>1. CASE PurchaseOnline
      <3> DEFINE n == With(New, "AWAITING_PAYMENT", {"confirmation"})
      <3>1. /\ n \in SoundContract /\ n.state = "AWAITING_PAYMENT"
            /\ n.parts = {"confirmation"} /\ n.resolution = None
            /\ order'["vendor"] = n /\ order'["buyer"] = order["buyer"]
            /\ ToDo("buyer")' = {Put(n)}
        BY <1>0, <2>1, OnlineStarts
      <3> HIDE DEF n
      <3>2. Plain(n)
        BY <3>1 DEF Plain
      <3>3. \A q \in Trader : order'[q] # None => Plain(order'[q])
        BY <1>2, <3>1, <3>2, PartyFacts DEF Trader
      <3>4. \A e \in ToDo("buyer")' : Fits("buyer", e)'
        BY <3>1, <3>2 DEF Fits, OfBuyer, Put
      <3> QED
        BY <3>3, <3>4
    <2>2. CASE PurchaseOffline
      <3>1. /\ ToDo("buyer")' = {Send("vendor", Msg("ORDER", "buyer")), Put(New)}
            /\ order' = order
        BY <1>0, <2>2, OfflineStarts
      <3>2. Plain(New) /\ New.state = "AWAITING_PAYMENT"
        BY DEF Plain, New
      <3>3. Fits("buyer", Put(New))'
        BY <3>2 DEF Fits, OfBuyer, Put
      <3>4. Fits("buyer", Send("vendor", Msg("ORDER", "buyer")))'
        BY DEF Fits, OfBuyer, Send, Msg
      <3> QED
        BY <1>2, <3>1, <3>3, <3>4
    <2> QED
      BY <2>1, <2>2
  <1>5. \A p \in Party : \A e \in ToDo(p)' : Fits(p, e)'
    BY <1>1, <1>2, <1>4
  <1> QED
    BY <1>1, <1>2, <1>3, <1>4, <1>5 DEF Fitting, Unmoderated, Unstarted

LEMMA BaseStep ==
  ASSUME Base, [Next]_vars
  PROVE  Base'
  <1>0. Typed /\ Fitting /\ Unmoderated /\ Unstarted
    BY DEF Base
  <1>1. /\ Typed'
        /\ \/ Starting \/ Pay \/ Quiet
           \/ \E p \in Party : Effects(p)
           \/ \E m \in UnderWay : Arrived(m)
           \/ \E p \in Trader : Informed(p)
    BY <1>0, TypedStep, BaseKnows
  <1>2. CASE PurchaseOnline \/ PurchaseOffline
    BY <1>1, <1>2, BuyFits DEF Base
  <1>3. CASE Continuing
    <2>1. PICK p \in Party : \E S : Started(p, S) /\ \A e \in S : Fits(p, e)
      BY <1>3, ContinuingFits
    <2>2. PICK S : Started(p, S) /\ \A e \in S : Fits(p, e)
      BY <2>1
    <2>3. Fitting'
      BY <1>0, <2>2, FittingStarts
    <2>4. UNCHANGED <<method, order, dispute, mail>>
      BY <2>2 DEF Started
    <2>5. Unmoderated'
      BY <1>0, <2>4, ToldMail DEF Unmoderated, Moderated
    <2>6. Unstarted'
      BY <1>3, <2>4, Idle DEF Unstarted
    <2> QED
      BY <1>1, <2>3, <2>5, <2>6 DEF Base
  <1>4. CASE Pay
    <2>1. UNCHANGED <<method, order, dispute, mail, call>>
      BY <1>0, <1>4, PayStep
    <2>2. Fitting'
      BY <1>0, <2>1, ToDoSame, FittingStays
    <2>3. Unmoderated'
      BY <1>0, <2>1, ToldMail DEF Unmoderated, Moderated
    <2>4. Unstarted'
      BY <1>4, <2>1, Idle DEF Unstarted
    <2> QED
      BY <1>1, <2>2, <2>3, <2>4 DEF Base
  <1>5. CASE Quiet
    <2>1. Answered /\ method' = method /\ order' = order /\ coin' = coin /\ (dispute # None => dispute' # None)
      BY <1>5 DEF Quiet, Answered
    <2>2. Fitting'
      BY <1>0, <1>5, <2>1, QuietToDo, FittingStays
    <2>3. Unmoderated'
      <3>1. ASSUME ~Moderated
            PROVE  /\ dispute' = None
                   /\ ~Told("DISPUTE_OPEN")' /\ ~Told("DISPUTE_UPDATE")' /\ ~Told("DISPUTE_CLOSE")'
        BY <1>0, <2>1, <3>1, ToldGrows DEF Unmoderated, Answered
      <3> QED
        BY <1>0, <2>1, <3>1 DEF Unmoderated, Moderated
    <2>4. Unstarted'
      <3>1. ASSUME method = None
            PROVE  /\ \A p \in Party : call'[p] = <<>>
                   /\ UnderWay' = {} /\ dispute' = None /\ lost' = {}
        <4>1. UnderWay = {} /\ dispute = None /\ lost = {} /\ \A p \in Party : call[p] = <<>>
          BY <1>0, <3>1 DEF Unstarted
        <4>2. ~Told("DISPUTE_OPEN") /\ ~Told("ORDER") /\ ~Told("DISPUTE_UPDATE")
          BY <4>1 DEF Told
        <4> QED
          BY <1>5, <4>1, <4>2 DEF Quiet, Answered
      <3> QED
        BY <1>0, <2>1, <3>1 DEF Unstarted
    <2> QED
      BY <1>1, <2>2, <2>3, <2>4 DEF Base
  <1>6. ASSUME NEW p \in Party, Effects(p) PROVE Base'
    <2>1. Fitting' /\ Unmoderated'
      BY <1>1, <1>6, EffectFits, EffectPlain
    <2>2. Unstarted'
      BY <1>1, <1>6, EffectKept, Idle DEF Unstarted
    <2> QED
      BY <1>1, <2>1, <2>2 DEF Base
  <1>7. ASSUME NEW m \in UnderWay, Arrived(m) PROVE Base'
    <2>1. Answered /\ method' = method /\ UNCHANGED call /\ (dispute # None => dispute' # None)
      BY <1>7 DEF Arrived, Answered
    <2>2. Fitting'
      BY <1>0, <2>1, ToDoSame, FittingStays
    <2>3. Unmoderated'
      <3>1. ASSUME ~Moderated
            PROVE  /\ dispute' = None
                   /\ ~Told("DISPUTE_OPEN")' /\ ~Told("DISPUTE_UPDATE")' /\ ~Told("DISPUTE_CLOSE")'
                   /\ \A p \in Trader : order'[p] # None => Plain(order'[p])
        BY <1>0, <1>7, <2>1, <3>1, ToldGrows, ArrivedPlain DEF Unmoderated, Answered
      <3> QED
        BY <1>0, <2>1, <3>1 DEF Unmoderated, Moderated
    <2>4. Unstarted'
      BY <1>7, <2>1, Idle DEF Unstarted
    <2> QED
      BY <1>1, <2>2, <2>3, <2>4 DEF Base
  <1>8. ASSUME NEW p \in Trader, Informed(p) PROVE Base'
    <2>1. UNCHANGED <<method, dispute, mail, call>>
      BY <1>8 DEF Informed
    <2>2. Fitting'
      BY <1>0, <2>1, ToDoSame, FittingStays
    <2>3. Unmoderated'
      <3>1. ~Moderated => \A q \in Trader : order'[q] # None => Plain(order'[q])
        BY <1>8, InformedPlain
      <3> QED
        BY <1>0, <2>1, <3>1, ToldMail DEF Unmoderated, Moderated
    <2>4. Unstarted'
      BY <1>8, <2>1, Idle DEF Unstarted
    <2> QED
      BY <1>1, <2>2, <2>3, <2>4 DEF Base
  <1> QED
    BY <1>1, <1>2, <1>3, <1>4, <1>5, <1>6, <1>7, <1>8 DEF Starting, Continuing

-----------------------------------------------------------------------------
(* Records lose nothing, unless a call stores an old one.                   *)

Grows(p) ==
    \/ order'[p] = order[p]
    \/ /\ order[p] # None /\ order'[p] # None
       /\ order[p] \in SoundContract /\ order'[p] \in SoundContract
       /\ order[p].parts \subseteq order'[p].parts
       /\ order[p].resolution # None => order'[p].resolution # None

LEMMA SavedGrows ==
  ASSUME NEW q \in Trader, NEW s, NEW S, Saved(q, s, S)
  PROVE  /\ \A p \in Trader : Grows(p)
         /\ State(q)' = s
         /\ \A p \in Trader : p # q => State(p)' = State(p) /\ order'[p] = order[p]
  <1>1. Grows(q)
    BY DEF Saved, Grows
  <1>2. \A p \in Trader : p # q => Grows(p)
    BY DEF Saved, Grows
  <1> QED
    BY <1>1, <1>2 DEF Saved, State

LEMMA SettlesCases ==
  ASSUME NEW m, Settles(m)
  PROVE  \/ m.type = "ORDER_CONFIRMATION" /\ State("buyer") = "PENDING"
            /\ (\/ Saved("buyer", "AWAITING_FULFILLMENT", {"confirmation"})
                \/ Saved("buyer", "AWAITING_PAYMENT", {"confirmation"}))
         \/ m.type = "ORDER_CANCEL" /\ Saved("vendor", "CANCELED", {})
         \/ m.type = "ORDER_REJECT" /\ Saved("buyer", "DECLINED", {})
         \/ m.type = "REFUND" /\ Saved("buyer", "REFUNDED", {})
         \/ m.type = "ORDER_FULFILLMENT" /\ Saved("buyer", "FULFILLED", {"fulfillment"})
         \/ m.type = "ORDER_COMPLETION" /\ Saved("vendor", "COMPLETED", {})
         \/ m.type = "DISPUTE_OPEN" /\ \E q \in Trader : Saved(q, "DISPUTED", {"dispute"})
         \/ m.type = "VENDOR_FINALIZED_PAYMENT" /\ Saved("buyer", "PAYMENT_FINALIZED", {})
         \/ m.type = "ERROR" /\ Saved("buyer", "PROCESSING_ERROR", {})
  BY DEF Settles

LEMMA DecidesGrows ==
  ASSUME NEW m, Decides(m)
  PROVE  /\ \A p \in Trader : Grows(p)
         /\ \A p \in Trader : order'[p] = order[p] \/ State(p)' \in {"DECIDED", "RESOLVED"}
  <1>1. PICK q \in Trader :
           /\ order[q] \in SoundContract /\ order[q] # None
           /\ order'[q] \in SoundContract /\ order'[q] # None
           /\ order'[q].state \in {"DECIDED", "RESOLVED"}
           /\ order'[q].parts = order[q].parts
           /\ order'[q].resolution # None
           /\ \A r \in Trader : r # q => order'[r] = order[r]
    BY DEF Decides
  <1>2. Grows(q) /\ State(q)' \in {"DECIDED", "RESOLVED"}
    BY <1>1 DEF Grows, State
  <1>3. \A p \in Trader : p # q => Grows(p) /\ order'[p] = order[p]
    BY <1>1 DEF Grows
  <1> QED
    BY <1>2, <1>3

(* What a message makes of the records.                                     *)
LEMMA ArrivedGrows ==
  ASSUME NEW m \in UnderWay, Arrived(m), ~(m.type = "ORDER" /\ Accepts)
  PROVE  /\ \A p \in Trader : Grows(p)
         /\ \/ order'["vendor"] = order["vendor"]
            \/ State("vendor")' \in {"CANCELED", "COMPLETED", "DISPUTED", "DECIDED", "RESOLVED"}
         /\ \/ order'["buyer"] = order["buyer"]
            \/ State("buyer")' \in {"AWAITING_FULFILLMENT", "AWAITING_PAYMENT", "DECLINED", "REFUNDED",
                                    "FULFILLED", "DISPUTED", "PAYMENT_FINALIZED", "PROCESSING_ERROR",
                                    "DECIDED", "RESOLVED"}
  <1> USE PartyFacts
  <1>1. CASE Settles(m)
    <2>1. \/ \E s \in {"AWAITING_FULFILLMENT", "AWAITING_PAYMENT", "DECLINED", "REFUNDED",
                       "FULFILLED", "DISPUTED", "PAYMENT_FINALIZED", "PROCESSING_ERROR"} : \E S :
                 Saved("buyer", s, S)
          \/ \E s \in {"CANCELED", "COMPLETED", "DISPUTED"} : \E S : Saved("vendor", s, S)
      <3>1. (\E q \in Trader : Saved(q, "DISPUTED", {"dispute"}))
              => Saved("buyer", "DISPUTED", {"dispute"}) \/ Saved("vendor", "DISPUTED", {"dispute"})
        BY DEF Trader
      <3> QED
        BY <1>1, <3>1, SettlesCases
    <2>2. CASE \E s \in {"AWAITING_FULFILLMENT", "AWAITING_PAYMENT", "DECLINED", "REFUNDED",
                       "FULFILLED", "DISPUTED", "PAYMENT_FINALIZED", "PROCESSING_ERROR"} : \E S :
                 Saved("buyer", s, S)
      BY <2>2, SavedGrows
    <2>3. CASE \E s \in {"CANCELED", "COMPLETED", "DISPUTED"} : \E S : Saved("vendor", s, S)
      BY <2>3, SavedGrows
    <2> QED
      BY <2>1, <2>2, <2>3
  <1>2. CASE m.type = "DISPUTE_CLOSE" /\ Decides(m)
    BY <1>2, DecidesGrows
  <1> QED
    BY <1>1, <1>2 DEF Arrived

LEMMA InformedGrows ==
  ASSUME NEW p \in Trader, Informed(p)
  PROVE  /\ \A q \in Trader : Grows(q)
         /\ order[p] # None /\ order'[p] # None
         /\ \A q \in Trader : q # p => order'[q] = order[q] /\ State(q)' = State(q)
         /\ \/ State(p)' = State(p) /\ order'[p].resolution = order[p].resolution
            \/ /\ State(p) = "AWAITING_PAYMENT" /\ coin # "unpaid"
               /\ order'[p].parts = order[p].parts /\ order'[p].resolution = order[p].resolution
               /\ \/ State(p)' = "AWAITING_FULFILLMENT" /\ "confirmation" \in order[p].parts
                  \/ State(p)' = "PENDING" /\ "confirmation" \notin order[p].parts
            \/ /\ State(p)' = "RESOLVED"
               /\ \/ order[p].resolution # None
                  \/ "acceptance" \in order[p].parts
                  \/ "dispute" \in order[p].parts
  <1>1. \/ Saved(p, State(p), {})
        \/ State(p) = "AWAITING_PAYMENT" /\ "confirmation" \in order[p].parts /\ coin # "unpaid"
           /\ Saved(p, "AWAITING_FULFILLMENT", {})
        \/ State(p) = "AWAITING_PAYMENT" /\ "confirmation" \notin order[p].parts /\ coin # "unpaid"
           /\ Saved(p, "PENDING", {})
        \/ /\ order[p].resolution # None \/ "acceptance" \in order[p].parts \/ "dispute" \in order[p].parts
           /\ Saved(p, "RESOLVED", {}) \/ Saved(p, "RESOLVED", {"acceptance"})
        \/ Saved(p, State(p), {"acceptance"})
    BY DEF Informed, Funds, Accepted
  <1>2. PICK s, S : Saved(p, s, S)
    BY <1>1
  <1>3. /\ order[p] # None /\ order'[p] # None
        /\ \A q \in Trader : Grows(q)
        /\ \A q \in Trader : q # p => order'[q] = order[q] /\ State(q)' = State(q)
    BY <1>2, SavedGrows DEF Saved
  <1>4. \A t, T : Saved(p, t, T) => /\ State(p)' = t /\ order'[p].resolution = order[p].resolution
                                    /\ T = {} => order'[p].parts = order[p].parts
    BY SavedGrows DEF Saved
  <1> QED
    BY <1>1, <1>3, <1>4

-----------------------------------------------------------------------------
(* The kinds of steps, and what they leave alone.                          *)

LEMMA StepKinds ==
  ASSUME Base, [Next]_vars
  PROVE  /\ Typed'
         /\ \/ PurchaseOnline \/ PurchaseOffline \/ Continuing \/ Pay \/ Quiet
            \/ \E p \in Party : Effects(p)
            \/ \E m \in UnderWay : Arrived(m)
            \/ \E p \in Trader : Informed(p)
  BY TypedStep, BaseKnows DEF Base, Starting, Continuing

LEMMA ContinuingFrom ==
  ASSUME Base, Continuing
  PROVE  \E p \in Party : \E S : Started(p, S) /\ \A e \in S : From(order[p], e)
  <1>1. \A p, t, u, K, Q : Profile(p, t, u, K, Q) => \E S : Started(p, S) /\ \A e \in S : From(order[p], e)
    BY DEF Profile
  <1>2. Profiles
    BY ContinuingProfile DEF Base
  <1> QED
    BY <1>1, <1>2, PartyFacts DEF Profiles

LEMMA ContinuingSame ==
  ASSUME Base, Continuing
  PROVE  UNCHANGED <<method, order, ledger, dispute, coin, mail, times, crashes, lost>>
  BY ContinuingFrom DEF Started

LEMMA BuysSame ==
  ASSUME Base, PurchaseOnline \/ PurchaseOffline
  PROVE  /\ method = None /\ method' # None
         /\ UNCHANGED <<ledger, dispute, coin, times, crashes, lost>>
         /\ \A p \in Trader : order[p] = None
         /\ \A p \in Party : ToDo(p) = {} /\ call[p] = <<>>
         /\ coin = "unpaid" /\ UnderWay = {} /\ lost = {}
         /\ \A p \in Party : p # "buyer" => call'[p] = call[p] /\ ToDo(p)' = {}
         /\ \A t : t # "ORDER" => ~Told(t)'
  <1>1. /\ method = None /\ method' # None
        /\ UNCHANGED <<ledger, dispute, coin, times, crashes, lost>>
        /\ \A q \in Party : q # "buyer" => call'[q] = call[q] /\ ToDo(q)' = ToDo(q)
    BY OnlineStarts, OfflineStarts DEF Base
  <1>2. /\ \A p \in Trader : order[p] = None
        /\ \A p \in Party : call[p] = <<>>
        /\ coin = "unpaid" /\ UnderWay = {} /\ lost = {}
    BY <1>1 DEF Base, Unstarted
  <1>3. \A p \in Party : ToDo(p) = {}
    BY <1>2 DEF ToDo, Range
  <1>4. \A n \in UnderWay' : n \in UnderWay \/ n.type = "ORDER"
    BY PurchaseMail DEF Base
  <1>5. \A t : t # "ORDER" => ~Told(t)'
    BY <1>2, <1>4 DEF Told
  <1> QED
    BY <1>1, <1>2, <1>3, <1>5

(* What an effect leaves alone.                                             *)
LEMMA EffectFrame ==
  ASSUME Typed, NEW p \in Party, Effects(p)
  PROVE  /\ call[p] # <<>>
         /\ \A q \in Party : q # p => call'[q] = call[q] /\ ToDo(q)' = ToDo(q)
         /\ \A q \in Trader : q # p => order'[q] = order[q] /\ State(q)' = State(q)
         /\ ~DoSend(p) => UNCHANGED mail
         /\ ~DoPut(p) => order' = order
         /\ ~DoSpend(p) /\ ~DoRepay(p) => coin' = coin
  <1>1. call[p] # <<>> /\ \A q \in Party : q # p => call'[q] = call[q]
    BY DoneToDo, SpendFailsStep DEF Effects, EffectDone
  <1>2. \A q \in Trader : q # p => order'[q] = order[q]
    BY PutStep, SendStep, SpendStep, SpendFailsStep, RepayStep, CloseStep DEF Effects
  <1>3. ~DoSend(p) => UNCHANGED mail
    BY PutStep, SpendStep, SpendFailsStep, RepayStep, CloseStep DEF Effects
  <1>4. ~DoPut(p) => order' = order
    BY SendStep, SpendStep, SpendFailsStep, RepayStep, CloseStep DEF Effects
  <1>5. ~DoSpend(p) /\ ~DoRepay(p) => coin' = coin
    BY PutStep, SendStep, SpendFailsStep, CloseStep DEF Effects
  <1> QED
    BY <1>1, <1>2, <1>3, <1>4, <1>5 DEF ToDo, State

(* The effect that is done is one that its actor may have.                  *)
LEMMA FirstFits ==
  ASSUME Base, NEW p \in Party, call[p] # <<>>
  PROVE  /\ Head(call[p]) \in ToDo(p) /\ Head(call[p]) \in Effect
         /\ Fits(p, Head(call[p]))
  <1>1. Head(call[p]) \in ToDo(p) /\ Head(call[p]) \in Effect
    BY HeadIn DEF Base
  <1> QED
    BY <1>1 DEF Base, Fitting

LEMMA SendTells ==
  ASSUME Base, NEW p \in Party, DoSend(p)
  PROVE  /\ Head(call[p]) \in ToDo(p) /\ Fits(p, Head(call[p])) /\ Head(call[p]).do = "send"
         /\ \A t : Told(t)' => Told(t) \/ t = Head(call[p]).msg.type
  <1>1. /\ call[p] # <<>> /\ Head(call[p]).do = "send"
        /\ \A n \in UnderWay' : n \in UnderWay \/ n = Head(call[p]).msg
    BY SendStep DEF Base
  <1> QED
    BY <1>1, FirstFits DEF Told

LEMMA RecordMoves ==
  ASSUME Base, [Next]_vars, NEW q \in Trader
  PROVE  \/ order'[q] = order[q]
         \/ PurchaseOnline /\ q = "vendor"
         \/ DoPut(q) /\ order'[q] = Head(call[q]).contract
         \/ \E m \in UnderWay : Arrived(m)
         \/ Informed(q)
  <1>0. Typed
    BY DEF Base
  <1>1. PurchaseOnline => order'["buyer"] = order["buyer"]
    BY <1>0, OnlineStarts
  <1>2. PurchaseOffline => order' = order
    BY <1>0, OfflineStarts
  <1>3. Continuing => order' = order
    BY ContinuingSame
  <1>4. Pay => order' = order
    BY <1>0, PayStep
  <1>5. Quiet => order' = order
    BY DEF Quiet
  <1>6. ASSUME NEW p \in Party, Effects(p), order'[q] # order[q]
        PROVE  DoPut(q) /\ order'[q] = Head(call[q]).contract
    <2>1. p = q
      BY <1>0, <1>6, EffectFrame
    <2>2. DoPut(q)
      BY <1>0, <1>6, <2>1, EffectFrame
    <2> QED
      BY <1>0, <1>6, <2>1, <2>2, PutStep
  <1>7. ASSUME NEW p \in Trader, Informed(p), p # q
        PROVE  order'[q] = order[q]
    BY <1>7, InformedGrows
  <1> QED
    BY <1>1, <1>2, <1>3, <1>4, <1>5, <1>6, <1>7, StepKinds DEF Trader

LEMMA CallMoves ==
  ASSUME Base, [Next]_vars, NEW p \in Party
  PROVE  \/ call'[p] = call[p]
         \/ EffectDone(p) /\ call'[p] = Tail(call[p])
         \/ call'[p] = <<>> /\ (crashes' # 0 \/ (SpendFails(p) /\ Head(call[p]).undo = None))
         \/ /\ SpendFails(p) /\ Head(call[p]).undo # None
            /\ call'[p] = <<Put(Head(call[p]).undo)>>
         \/ Continuing /\ call[p] = <<>>
         \/ (PurchaseOnline \/ PurchaseOffline) /\ p = "buyer" /\ call[p] = <<>>
  <1>0. Typed
    BY DEF Base
  <1>1. (PurchaseOnline \/ PurchaseOffline) => call'[p] = call[p] \/ (p = "buyer" /\ call[p] = <<>>)
    BY BuysSame
  <1>2. Continuing => call'[p] = call[p] \/ call[p] = <<>>
    BY ContinuingFrom DEF Started
  <1>3. Pay => call'[p] = call[p]
    BY <1>0, PayStep
  <1>4. Quiet => call'[p] = call[p] \/ (call'[p] = <<>> /\ crashes' # 0)
    BY DEF Quiet
  <1>5. ASSUME NEW q \in Party, Effects(q), call'[p] # call[p]
        PROVE  \/ EffectDone(p) /\ call'[p] = Tail(call[p])
               \/ SpendFails(p) /\ Head(call[p]).undo = None /\ call'[p] = <<>>
               \/ /\ SpendFails(p) /\ Head(call[p]).undo # None
                  /\ call'[p] = <<Put(Head(call[p]).undo)>>
    <2>1. p = q
      BY <1>0, <1>5, EffectFrame
    <2>2. CASE SpendFails(p)
      BY <1>0, <2>2, SpendFailsStep
    <2>3. CASE EffectDone(p)
      BY <1>0, <2>3, DoneToDo
    <2> QED
      BY <1>5, <2>1, <2>2, <2>3 DEF Effects, EffectDone
  <1>6. \A m \in UnderWay : Arrived(m) => call'[p] = call[p]
    BY DEF Arrived
  <1>7. \A q \in Trader : Informed(q) => call'[p] = call[p]
    BY DEF Informed
  <1> QED
    BY <1>1, <1>2, <1>3, <1>4, <1>5, <1>6, <1>7, StepKinds

LEMMA ToldMoves ==
  ASSUME Base, [Next]_vars, NEW t, t # "ORDER", Told(t)'
  PROVE  \/ Told(t)
         \/ \E p \in Party : /\ DoSend(p) /\ Head(call[p]) \in ToDo(p) /\ Fits(p, Head(call[p]))
                             /\ Head(call[p]).do = "send" /\ Head(call[p]).msg.type = t
         \/ t = "ERROR" /\ Told("ORDER")
         \/ t = "DISPUTE_UPDATE" /\ Told("DISPUTE_OPEN")
  <1>0. Typed
    BY DEF Base
  <1>1. ASSUME NEW p \in Party, Effects(p), ~Told(t)
        PROVE  /\ DoSend(p) /\ Head(call[p]) \in ToDo(p) /\ Fits(p, Head(call[p]))
               /\ Head(call[p]).do = "send" /\ Head(call[p]).msg.type = t
    <2>1. DoSend(p)
      BY <1>0, <1>1, EffectFrame, ToldMail
    <2> QED
      BY <1>1, <2>1, SendTells
  <1>2. ASSUME Answered
        PROVE  \/ Told(t)
               \/ t = "ERROR" /\ Told("ORDER")
               \/ t = "DISPUTE_UPDATE" /\ Told("DISPUTE_OPEN")
    BY <1>2, ToldGrows
  <1>3. UNCHANGED mail => Told(t)
    BY ToldMail
  <1>4. Pay => UNCHANGED mail
    BY <1>0, PayStep
  <1> QED
    BY <1>1, <1>2, <1>3, <1>4, StepKinds, ContinuingSame, BuysSame DEF Quiet, Arrived, Informed

LEMMA MethodStays ==
  ASSUME Base, [Next]_vars, method # None
  PROVE  method' = method
  <1>1. \A p \in Party : Effects(p) => method' = method
    BY EffectKept, TypedStep, BaseKnows DEF Base
  <1>2. Pay => method' = method
    BY PayStep DEF Base
  <1> QED
    BY <1>1, <1>2, StepKinds, ContinuingSame, BuysSame DEF Quiet, Answered, Arrived, Informed

LEMMA MethodMoves ==
  ASSUME Base, [Next]_vars
  PROVE  PurchaseOnline \/ PurchaseOffline \/ method' = method
  <1>1. \A p \in Party : Effects(p) => method' = method
    BY EffectKept, TypedStep, BaseKnows DEF Base
  <1>2. Pay => method' = method
    BY PayStep DEF Base
  <1> QED
    BY <1>1, <1>2, StepKinds, ContinuingSame DEF Quiet, Answered, Arrived, Informed

(* Only an ORDER that comes again adds to what is lost.                     *)
LEMMA LostMoves ==
  ASSUME Base, [Next]_vars
  PROVE  /\ lost \subseteq lost'
         /\ \/ lost' = lost
            \/ \E m \in UnderWay : Arrived(m) /\ m.type = "ORDER" /\ Accepts /\ order["vendor"] # None
  <1>0. Typed
    BY DEF Base
  <1>1. \A p \in Party : Effects(p) => lost' = lost
    BY <1>0, PutStep, SendStep, SpendStep, SpendFailsStep, RepayStep, CloseStep DEF Effects
  <1>2. Pay => lost' = lost
    BY <1>0, PayStep
  <1>3. ASSUME NEW m \in UnderWay, Arrived(m)
        PROVE  /\ lost \subseteq lost'
               /\ lost' = lost \/ (m.type = "ORDER" /\ Accepts /\ order["vendor"] # None)
    <2>1. m.type = "ORDER" => ~Settles(m)
      BY SettlesCases
    <2> QED
      BY <1>3, <2>1 DEF Arrived, Answered
  <1> QED
    BY <1>1, <1>2, <1>3, StepKinds, ContinuingSame, BuysSame DEF Quiet, Informed

LEMMA ToDoMoves ==
  ASSUME Base, [Next]_vars, NEW p \in Party, NEW e \in ToDo(p)'
  PROVE  \/ e \in ToDo(p)
         \/ SpendFails(p) /\ Head(call[p]).undo # None /\ e = Put(Head(call[p]).undo)
         \/ Continuing /\ call[p] = <<>>
         \/ (PurchaseOnline \/ PurchaseOffline) /\ p = "buyer" /\ call[p] = <<>>
  <1>0. Typed
    BY DEF Base
  <1>1. call'[p] # <<>>
    BY DEF ToDo, Range
  <1>2. call'[p] = call[p] => e \in ToDo(p)
    BY DEF ToDo
  <1>3. EffectDone(p) => e \in ToDo(p)
    BY <1>0, DoneToDo
  <1>4. ASSUME SpendFails(p), Head(call[p]).undo # None PROVE e = Put(Head(call[p]).undo)
    BY <1>0, <1>4, SpendFailsStep
  <1> QED
    BY <1>1, <1>2, <1>3, <1>4, CallMoves

-----------------------------------------------------------------------------
(* What a record shows for good: a part or a resolution that every effect   *)
(* under way keeps, or that was lost to an ORDER that came again.           *)

Marked(c, k) == k \in c.parts \/ (k = "award" /\ c.resolution # None)

Keeps(e, k) ==
    /\ e.do = "put" => Marked(e.contract, k)
    /\ e.do = "spend" /\ e.undo # None => Marked(e.undo, k)

Shows(p, k) ==
    /\ order[p] # None /\ Marked(order[p], k)
    /\ \A e \in ToDo(p) : Keeps(e, k)

Holds(p, k) == Shows(p, k) \/ (p = "vendor" /\ k \in lost)

LEMMA FromKeeps ==
  ASSUME NEW c, NEW e, NEW k, From(c, e), Marked(c, k)
  PROVE  Keeps(e, k)
  BY DEF From, Extends, Marked, Keeps

LEMMA GrowsMarks ==
  ASSUME NEW p, NEW k, Grows(p), order[p] # None, Marked(order[p], k)
  PROVE  order'[p] # None /\ Marked(order'[p], k)
  BY DEF Grows, Marked

(* A record goes on showing it unless an ORDER overwrites the record.       *)
LEMMA ShowsStays ==
  ASSUME Base, [Next]_vars, NEW p \in Trader, NEW k, Shows(p, k),
         p = "vendor" => \A m \in UnderWay :
             Arrived(m) /\ m.type = "ORDER" /\ Accepts => Marked(order'["vendor"], k)
  PROVE  Shows(p, k)'
  <1> USE PartyFacts
  <1>0. /\ Typed /\ Fitting /\ Unstarted
        /\ order[p] # None /\ Marked(order[p], k)
        /\ \A e \in ToDo(p) : Keeps(e, k)
    BY DEF Base, Shows
  <1>1. /\ Typed'
        /\ \/ Starting \/ Pay \/ Quiet
           \/ \E q \in Party : Effects(q)
           \/ \E m \in UnderWay : Arrived(m)
           \/ \E q \in Trader : Informed(q)
    BY <1>0, TypedStep, BaseKnows
  <1>a. ASSUME NEW c, c # None, Marked(c, k), order'[p] = c, ToDo(p)' \subseteq ToDo(p)
        PROVE  Shows(p, k)'
    BY <1>0, <1>a DEF Shows
  <1>2. CASE PurchaseOnline \/ PurchaseOffline
    <2>1. method = None
      BY <1>2 DEF PurchaseOnline, PurchaseOffline
    <2> QED
      BY <1>0, <2>1 DEF Unstarted
  <1>3. CASE Continuing
    <2>1. PICK q \in Party : \E S : Started(q, S) /\ \A e \in S : From(order[q], e)
      BY <1>3, ContinuingFrom
    <2>2. PICK S : Started(q, S) /\ \A e \in S : From(order[q], e)
      BY <2>1
    <2>3. order' = order /\ (q = p => ToDo(p)' = S) /\ (q # p => ToDo(p)' = ToDo(p))
      BY <2>2 DEF Started
    <2>4. \A e \in ToDo(p)' : Keeps(e, k)
      BY <1>0, <2>2, <2>3, FromKeeps
    <2> QED
      BY <1>0, <2>3, <2>4 DEF Shows
  <1>4. CASE Pay
    <2>1. order' = order /\ UNCHANGED call
      BY <1>0, <1>4, PayStep
    <2> QED
      BY <1>0, <1>a, <2>1, ToDoSame
  <1>5. CASE Quiet
    <2>1. order' = order
      BY <1>5 DEF Quiet
    <2> QED
      BY <1>0, <1>5, <1>a, <2>1, QuietToDo
  <1>6. ASSUME NEW q \in Party, Effects(q) PROVE Shows(p, k)'
    <2> DEFINE h == Head(call[p])
    <2>1. CASE q # p
      <3>1. order'[p] = order[p] /\ ToDo(p)' = ToDo(p)
        BY <1>0, <1>6, <2>1, EffectFrame
      <3> QED
        BY <1>0, <1>a, <3>1
    <2>2. CASE q = p /\ DoPut(p)
      <3>1. h.do = "put" /\ h.contract \in SoundContract /\ order'[p] = h.contract /\ call[p] # <<>>
        BY <1>0, <2>2, PutStep
      <3>2. h \in ToDo(p) /\ ToDo(p)' \subseteq ToDo(p)
        BY <1>0, <2>2, DoneToDo DEF EffectDone
      <3>3. Keeps(h, k)
        BY <1>0, <3>2
      <3>4. Marked(h.contract, k)
        BY <3>1, <3>3 DEF Keeps
      <3> QED
        BY <1>a, <3>1, <3>2, <3>4, NotNone
    <2>3. CASE q = p /\ SpendFails(p)
      <3>1. /\ call[p] # <<>> /\ h.do = "spend" /\ order' = order
            /\ \/ ToDo(p)' = {}
               \/ h.undo # None /\ ToDo(p)' = {Put(h.undo)}
        BY <1>0, <2>3, SpendFailsStep
      <3>2. Keeps(h, k)
        BY <1>0, <3>1, HeadIn
      <3>3. h.undo # None => Keeps(Put(h.undo), k)
        BY <3>1, <3>2 DEF Keeps, Put
      <3>4. \A e \in ToDo(p)' : Keeps(e, k)
        BY <3>1, <3>3
      <3> QED
        BY <1>0, <3>1, <3>4 DEF Shows
    <2>4. CASE q = p /\ ~DoPut(p) /\ ~SpendFails(p)
      <3>1. order' = order /\ ToDo(p)' \subseteq ToDo(p)
        BY <1>0, <1>6, <2>4, EffectFrame, DoneToDo DEF Effects, EffectDone
      <3> QED
        BY <1>0, <1>a, <3>1
    <2> QED
      BY <2>1, <2>2, <2>3, <2>4
  <1>7. ASSUME NEW m \in UnderWay, Arrived(m) PROVE Shows(p, k)'
    <2>1. UNCHANGED call
      BY <1>7 DEF Arrived
    <2>2. CASE m.type = "ORDER" /\ Accepts
      <3>1. p = "buyer" => order'[p] = order[p]
        BY <2>2 DEF Accepts
      <3>2. p = "vendor" => order'[p] # None /\ Marked(order'[p], k)
        BY <1>7, <2>2 DEF Accepts
      <3> QED
        BY <1>0, <1>a, <2>1, <3>1, <3>2, ToDoSame DEF Trader
    <2>3. CASE ~(m.type = "ORDER" /\ Accepts)
      <3>1. Grows(p)
        BY <1>7, <2>3, ArrivedGrows
      <3>2. order'[p] # None /\ Marked(order'[p], k)
        BY <1>0, <3>1, GrowsMarks
      <3> QED
        BY <1>a, <2>1, <3>2, ToDoSame
    <2> QED
      BY <2>2, <2>3
  <1>8. ASSUME NEW q \in Trader, Informed(q) PROVE Shows(p, k)'
    <2>1. UNCHANGED call
      BY <1>8 DEF Informed
    <2>2. Grows(p)
      BY <1>8, InformedGrows
    <2>3. order'[p] # None /\ Marked(order'[p], k)
      BY <1>0, <2>2, GrowsMarks
    <2> QED
      BY <1>a, <2>1, <2>3, ToDoSame
  <1> QED
    BY <1>1, <1>2, <1>3, <1>4, <1>5, <1>6, <1>7, <1>8 DEF Starting, Continuing

LEMMA HoldsStays ==
  ASSUME Base, [Next]_vars, NEW p \in Trader, NEW k, Holds(p, k), p = "buyer" \/ k \in Fact
  PROVE  Holds(p, k)'
  <1>1. CASE p = "vendor" /\ k \in lost
    BY <1>1, LostMoves DEF Holds
  <1>2. CASE Shows(p, k) /\ p = "buyer"
    BY <1>2, ShowsStays DEF Holds
  <1>3. CASE Shows(p, k) /\ p = "vendor"
    <2>1. order["vendor"] # None /\ Marked(order["vendor"], k) /\ k \in Facts(order["vendor"])
      BY <1>3 DEF Shows, Marked, Facts
    <2>2. ASSUME k \notin lost', NEW m \in UnderWay, Arrived(m), m.type = "ORDER", Accepts
          PROVE  Marked(order'["vendor"], k)
      <3>1. ~Settles(m)
        BY <2>2, SettlesCases
      <3>2. order' = order
        BY <2>1, <2>2, <3>1 DEF Arrived
      <3> QED
        BY <2>1, <3>2
    <2> QED
      BY <1>3, <2>2, ShowsStays DEF Holds
  <1> QED
    BY <1>1, <1>2, <1>3 DEF Holds, Trader

-----------------------------------------------------------------------------
(* What is known of the ORDER.                                              *)

Asks == Send("vendor", Msg("ORDER", "buyer"))

(* What a call on an order that is there may add.                           *)
NoOrder(e) == e.do = "send" => e.msg.type # "ORDER"

LEMMA NoOrders ==
  /\ \A c : NoOrder(Put(c))
  /\ \A q, u : NoOrder(Spend(q, u))
  /\ NoOrder(Repay) /\ NoOrder(CloseCase) /\ NoOrder(Confirms) /\ NoOrder(Finalizes)
  /\ \A q, m : m.type # "ORDER" => NoOrder(Send(q, m))
  /\ \A t, p : Msg(t, p).type = t
  BY DEF NoOrder, Put, Spend, Repay, CloseCase, Send, Msg, Confirms, Finalizes

(* A DIRECT ORDER comes once, and before it the vendor knows of nothing.    *)
Single ==
    /\ lost = {}
    /\ OrdersWait(wire, stored, queued)
    /\ \A n \in Kept : n.type # "ORDER"
    /\ \A e \in ToDo("buyer") : ~NoOrder(e) =>
           /\ order["vendor"] = None /\ ~Told("ORDER")
           /\ e = Asks
           /\ \A f \in Range(Tail(call["buyer"])) : f.do = "put"
    /\ Told("ORDER") => order["vendor"] = None

(* Another may come again; where it takes nothing away, it finds the vendor *)
(* without a record or with the same one.                                   *)
Ordering ==
    /\ order["vendor"] = None => call["vendor"] = <<>>
    /\ method = "ADDRESS_REQUEST" => Shows("vendor", "confirmation")
    /\ method = "DIRECT" => Single
    /\ ~Moderated /\ lost = {} /\ State("vendor") = "AWAITING_PAYMENT" => call["vendor"] = <<>>

LEMMA NothingWaits ==
  ASSUME Typed, UnderWay = {}
  PROVE  OrdersWait(wire, stored, queued) /\ Kept = {} /\ \A t : ~Told(t)
  <1>1. wire \in WireMap /\ stored \in MailMap /\ queued \in MailMap
    BY DEF Typed, MailTyped
  <1>2. Carried(wire, stored, queued) = {} /\ Kept = {}
    BY DEF UnderWay
  <1>3. \A p, r \in Party : Range(wire[p][r]) \subseteq SoundMessage
    BY <1>1, RangeIn DEF WireMap
  <1>4. OrdersWait(wire, stored, queued)
    BY <1>1, <1>2, <1>3 DEF OrdersWait, Carried, MailMap
  <1> QED
    BY <1>2, <1>4 DEF Told

LEMMA OrderingInit == Init => Ordering
  <1> SUFFICES ASSUME Init PROVE Ordering
    OBVIOUS
  <1>1. call["vendor"] = <<>> /\ method = None
    BY PartyFacts DEF Init
  <1> QED
    BY <1>1, NoneAssumption DEF Ordering

LEMMA ContinuingTells ==
  ASSUME Base, Continuing
  PROVE  \E p \in Party : \E S :
            /\ Started(p, S)
            /\ \A e \in S : NoOrder(e)
            /\ p = "vendor" => order["vendor"] # None /\ State("vendor") # "AWAITING_PAYMENT"
  <1> USE PartyFacts
  <1>1. Profiles
    BY ContinuingProfile DEF Base
  <1>2. ASSUME NEW p \in Party, NEW t, NEW u, NEW K, NEW Q, Profile(p, t, u, K, Q), u # "ORDER"
        PROVE  \E S : Started(p, S) /\ \A e \in S : NoOrder(e)
    BY <1>2 DEF Profile, NoOrder
  <1>3. ASSUME ConfirmOfflineOrder \/ RejectOfflineOrder \/ RefundOrder \/ FulfillOrder
               \/ ReleaseFundsAfterTimeout \/ OpenDispute("vendor") \/ ReleaseFunds("vendor")
        PROVE  order["vendor"] # None /\ State("vendor") # "AWAITING_PAYMENT"
    <2>1. State("vendor") \in {"PENDING", "AWAITING_FULFILLMENT", "FULFILLED", "DISPUTED", "DECIDED"}
      BY <1>3 DEF ConfirmOfflineOrder, MayConfirm, RejectOfflineOrder, RefundOrder, MayRefund,
         FulfillOrder, MayFulfill, ReleaseFundsAfterTimeout, MayReleaseEscrow,
         OpenDispute, MayDispute, ReleaseFunds, MayRelease
    <2> QED
      BY <2>1 DEF State
  <1>4. CASE \E p \in Trader :
               \/ OpenDispute(p) /\ Profile(p, "DISPUTED", "DISPUTE_OPEN", {"put", "send"}, {"dispute"})
               \/ ReleaseFunds(p) /\ Profile(p, "DECIDED", "none", {"put", "spend"}, {"acceptance"})
    BY <1>2, <1>3, <1>4
  <1>5. CASE \/ CompleteOrder /\ Profile("buyer", "COMPLETED", "ORDER_COMPLETION", {"put", "send"}, {})
             \/ CancelOfflineOrder /\ Profile("buyer", "CANCELED", "ORDER_CANCEL", {"put", "send", "spend"}, {})
             \/ Profile("moderator", "none", "DISPUTE_CLOSE", {"send", "close"}, {})
    BY <1>2, <1>5
  <1> QED
    BY <1>1, <1>2, <1>3, <1>4, <1>5 DEF Profiles

LEMMA SingleKept ==
  ASSUME Single, UNCHANGED <<order, mail, call, lost>>
  PROVE  Single'
  BY MailSame, ToldMail DEF Single, ToDo, NoOrder

LEMMA SingleStarts ==
  ASSUME Single, Base, Continuing
  PROVE  Single'
  <1>1. PICK p \in Party : \E S : Started(p, S) /\ \A e \in S : NoOrder(e)
    BY ContinuingTells
  <1>2. PICK S : Started(p, S) /\ \A e \in S : NoOrder(e)
    BY <1>1
  <1>3. /\ UNCHANGED <<order, mail, lost>>
        /\ Told("ORDER")' <=> Told("ORDER")
        /\ OrdersWait(wire', stored', queued') /\ Kept' = Kept
    BY <1>2, MailSame, ToldMail DEF Started, Single
  <1>4. \A e \in ToDo("buyer")' : ~NoOrder(e) => e \in ToDo("buyer") /\ call'["buyer"] = call["buyer"]
    BY <1>2, PartyFacts DEF Started
  <1>5. \A e : NoOrder(e)' <=> NoOrder(e)
    BY DEF NoOrder
  <1> QED
    BY <1>3, <1>4, <1>5 DEF Single

LEMMA SingleBuys ==
  ASSUME Base, PurchaseOffline, method' = "DIRECT"
  PROVE  Single'
  <1>0. Typed
    BY DEF Base
  <1>1. /\ order["vendor"] = None /\ UnderWay = {} /\ lost = {}
    BY BuysSame, PartyFacts
  <1>2. OrdersWait(wire, stored, queued) /\ Kept = {} /\ ~Told("ORDER")
    BY <1>0, <1>1, NothingWaits
  <1>3. UNCHANGED <<wire, stored, queued>> /\ Kept' = Kept
    BY <1>0, PurchaseMail
  <1>4. OrdersWait(wire', stored', queued') /\ ~Told("ORDER")'
    BY <1>2, <1>3 DEF OrdersWait, Told, UnderWay, Carried
  <1>5. /\ ToDo("buyer")' = {Asks, Put(New)} /\ call'["buyer"] = <<Asks, Put(New)>>
        /\ UNCHANGED <<order, lost>>
    BY <1>0, OfflineStarts DEF Asks
  <1>6. Range(Tail(<<Asks, Put(New)>>)) = {Put(New)}
    BY DEF Range
  <1>7. Put(New).do = "put" /\ NoOrder(Put(New))
    BY NoOrders DEF Put
  <1>8. \A e : NoOrder(e)' <=> NoOrder(e)
    BY DEF NoOrder
  <1> QED
    BY <1>1, <1>2, <1>3, <1>4, <1>5, <1>6, <1>7, <1>8 DEF Single

LEMMA SingleQuiet ==
  ASSUME Single, Quiet
  PROVE  Single'
  <1>1. /\ Told("ORDER")' => Told("ORDER")
        /\ OrdersWait(wire', stored', queued') /\ Kept' = Kept
        /\ UNCHANGED <<order, lost>>
    BY ToldGrows DEF Quiet, Answered, Single
  <1>2. \A p \in Party : call'[p] = call[p] \/ call'[p] = <<>>
    BY DEF Quiet
  <1>3. ASSUME NEW e \in ToDo("buyer")'
        PROVE  e \in ToDo("buyer") /\ call'["buyer"] = call["buyer"]
    <2>1. call'["buyer"] # <<>>
      BY <1>3 DEF ToDo, Range
    <2> QED
      BY <1>2, <1>3, <2>1, PartyFacts DEF ToDo
  <1>4. \A e : NoOrder(e)' <=> NoOrder(e)
    BY DEF NoOrder
  <1> QED
    BY <1>1, <1>3, <1>4 DEF Single

(* A buyer that has sent a DIRECT ORDER has only to store it.               *)
LEMMA BuyerAdvances ==
  ASSUME Base, Single, EffectDone("buyer")
  PROVE  \A e \in ToDo("buyer")' : NoOrder(e)
  <1>1. /\ call'["buyer"] = Tail(call["buyer"]) /\ ToDo("buyer")' \subseteq ToDo("buyer")
    BY DoneToDo, PartyFacts DEF Base
  <1> SUFFICES ASSUME NEW e \in ToDo("buyer")', ~NoOrder(e) PROVE FALSE
    OBVIOUS
  <1>2. e \in ToDo("buyer") /\ e.do = "send"
    BY <1>1 DEF NoOrder
  <1>3. e \in Range(Tail(call["buyer"]))
    BY <1>1 DEF ToDo
  <1>4. e.do = "put"
    BY <1>2, <1>3 DEF Single
  <1> QED
    BY <1>2, <1>4

LEMMA SingleEffects ==
  ASSUME Single, Ordering, method = "DIRECT", Base, NEW p \in Party, Effects(p)
  PROVE  Single'
  <1> USE PartyFacts
  <1> DEFINE h == Head(call[p])
  <1>0. Typed /\ Fitting
    BY DEF Base
  <1>a. /\ call[p] # <<>>
        /\ \A q \in Party : q # p => call'[q] = call[q] /\ ToDo(q)' = ToDo(q)
        /\ \A q \in Trader : q # p => order'[q] = order[q] /\ State(q)' = State(q)
        /\ ~DoSend(p) => UNCHANGED mail
        /\ ~DoPut(p) => order' = order
    BY <1>0, EffectFrame
  <1>b. h \in ToDo(p) /\ Fits(p, h)
    BY <1>a, FirstFits
  <1>c. DoSend(p) => h.do = "send" /\ \A t : Told(t)' => Told(t) \/ t = h.msg.type
    BY SendTells
  <1>d. ~DoSend(p) => (Told("ORDER")' => Told("ORDER")) /\ Kept' = Kept
    BY <1>a, ToldMail, MailSame
  <1>e. DoSend(p) /\ h.msg.type = "ORDER" => p = "buyer" /\ h = Asks
    <2>1. DoSend(p) /\ h.msg.type = "ORDER" => p = "buyer"
      BY <1>b, <1>c DEF Fits, OfVendor, OfModerator, Party, Trader
    <2> QED
      BY <1>b, <1>c, <2>1 DEF Single, NoOrder
  <1>f. \A e : NoOrder(e)' <=> NoOrder(e)
    BY DEF NoOrder
  <1>1. OrdersWait(wire', stored', queued')
    <2>1. CASE DoSend(p)
      <3>1. OrdersWait(wire, stored, queued)
              /\ (h.msg.type = "ORDER" => h.to = "vendor" /\ h.msg = Msg("ORDER", "buyer"))
            => OrdersWait(wire', stored', queued')
        BY <1>0, <2>1, SendStep
      <3>2. Asks.to = "vendor" /\ Asks.msg = Msg("ORDER", "buyer")
        BY DEF Asks, Send
      <3> QED
        BY <1>e, <2>1, <3>1, <3>2 DEF Single
    <2>2. CASE ~DoSend(p)
      BY <1>a, <2>2, MailSame DEF Single
    <2> QED
      BY <2>1, <2>2
  <1>2. \A n \in Kept' : n.type # "ORDER"
    BY <1>0, <1>d, SendStep DEF Single
  <1>3. lost' = {}
    BY <1>0, PutStep, SendStep, SpendStep, SpendFailsStep, RepayStep, CloseStep DEF Effects, Single
  <1>4. CASE p = "vendor"
    <2>1. order["vendor"] # None /\ ~Told("ORDER") /\ \A e \in ToDo("buyer") : NoOrder(e)
      BY <1>4, <1>a DEF Ordering, Single
    <2>2. \A e \in ToDo("buyer")' : NoOrder(e)
      BY <1>4, <1>a, <2>1
    <2>3. ~Told("ORDER")'
      BY <1>4, <1>c, <1>d, <1>e, <2>1
    <2> QED
      BY <1>1, <1>2, <1>3, <1>f, <2>2, <2>3 DEF Single
  <1>5. CASE p = "buyer"
    <2>1. \A e \in ToDo("buyer")' : NoOrder(e)
      <3>1. CASE SpendFails(p)
        <4>1. ToDo("buyer")' = {} \/ \E c : ToDo("buyer")' = {Put(c)}
          BY <1>0, <1>5, <3>1, SpendFailsStep
        <4> QED
          BY <4>1, NoOrders
      <3> QED
        BY <1>5, <3>1, BuyerAdvances DEF Effects, EffectDone
    <2>2. Told("ORDER")' => order["vendor"] = None
      <3>1. CASE DoSend(p)
        BY <1>b, <1>c, <1>5, <3>1 DEF Single, NoOrder
      <3>2. CASE ~DoSend(p)
        BY <1>d, <3>2 DEF Single
      <3> QED
        BY <3>1, <3>2
    <2>3. order'["vendor"] = order["vendor"]
      BY <1>5, <1>a
    <2> QED
      BY <1>1, <1>2, <1>3, <1>f, <2>1, <2>2, <2>3 DEF Single
  <1>6. CASE p = "moderator"
    <2>1. /\ call'["buyer"] = call["buyer"] /\ ToDo("buyer")' = ToDo("buyer")
          /\ order'["vendor"] = order["vendor"]
      BY <1>a, <1>6
    <2>2. Told("ORDER")' => Told("ORDER")
      BY <1>c, <1>d, <1>e, <1>6
    <2> QED
      BY <1>1, <1>2, <1>3, <1>f, <2>1, <2>2 DEF Single
  <1> QED
    BY <1>4, <1>5, <1>6 DEF Party, Trader

LEMMA SingleArrives ==
  ASSUME Single, Base, NEW m \in UnderWay, Arrived(m)
  PROVE  Single'
  <1>1. /\ Told("ORDER")' => Told("ORDER")
        /\ OrdersWait(wire', stored', queued') /\ Kept' = Kept
        /\ call' = call
    BY ToldGrows DEF Arrived, Answered, Single
  <1>2. \A e : NoOrder(e)' <=> NoOrder(e)
    BY DEF NoOrder
  <1>3. CASE m.type = "ORDER" /\ Accepts
    <2>1. Told("ORDER") /\ order["vendor"] = None
      BY <1>3 DEF Told, Single
    <2>2. ~Settles(m) /\ OrdersWait(wire, stored, queued)
      BY <1>3, SettlesCases DEF Single
    <2>3. lost' = {} /\ \A n \in Carried(wire', stored', queued') : n.type # "ORDER"
      BY <1>3, <2>1, <2>2 DEF Arrived, Single
    <2>4. ~Told("ORDER")'
      BY <1>1, <2>3 DEF Told, UnderWay, Single
    <2>5. \A e \in ToDo("buyer")' : NoOrder(e)
      BY <1>1, <2>1 DEF Single, ToDo
    <2> QED
      BY <1>1, <1>2, <2>3, <2>4, <2>5 DEF Single
  <1>4. CASE ~(m.type = "ORDER" /\ Accepts)
    <2>1. Grows("vendor")
      BY <1>4, ArrivedGrows, PartyFacts
    <2>2. order["vendor"] = None => order'["vendor"] = None
      BY <2>1 DEF Grows
    <2>3. lost' = {}
      BY <1>4, SettlesCases DEF Arrived, Single
    <2> QED
      BY <1>1, <1>2, <2>2, <2>3 DEF Single, ToDo
  <1> QED
    BY <1>3, <1>4

LEMMA SingleInformed ==
  ASSUME Single, NEW p \in Trader, Informed(p)
  PROVE  Single'
  <1>1. UNCHANGED <<mail, call, lost>>
    BY DEF Informed
  <1>2. order'["vendor"] = None <=> order["vendor"] = None
    BY InformedGrows, PartyFacts
  <1> QED
    BY <1>1, <1>2, MailSame, ToldMail DEF Single, ToDo, NoOrder

LEMMA SingleStep ==
  ASSUME Base, Ordering, [Next]_vars, method' = "DIRECT"
  PROVE  Single'
  <1>1. CASE PurchaseOnline \/ PurchaseOffline
    <2>1. ~PurchaseOnline
      BY OnlineStarts DEF Base
    <2> QED
      BY <1>1, <2>1, SingleBuys
  <1>2. CASE ~(PurchaseOnline \/ PurchaseOffline)
    <2>1. method = "DIRECT" /\ Single
      BY <1>2, MethodMoves DEF Ordering
    <2>2. Pay => UNCHANGED <<order, mail, call, lost>>
      BY PayStep DEF Base
    <2> QED
      BY <1>2, <2>1, <2>2, StepKinds, SingleStarts, SingleKept, SingleQuiet, SingleEffects,
         SingleArrives, SingleInformed
  <1> QED
    BY <1>1, <1>2

(* An ORDER that came again and took nothing away changed nothing.          *)
LEMMA SaleStays ==
  ASSUME Base, Ordering, ~Moderated, lost' = {}, order["vendor"] # None,
         NEW m \in UnderWay, Arrived(m)
  PROVE  /\ Grows("vendor")
         /\ \/ order'["vendor"] = order["vendor"]
            \/ State("vendor")' \in {"CANCELED", "COMPLETED", "DISPUTED", "DECIDED", "RESOLVED"}
  <1>1. CASE m.type = "ORDER" /\ Accepts
    <2>1. Told("ORDER") /\ method # None /\ method \in Method
      BY <1>1 DEF Told, Base, Unstarted, Typed
    <2>2. method = "ADDRESS_REQUEST"
      BY <2>1, OrderAssumption DEF Moderated, Ordering, Single
    <2>3. "confirmation" \in Facts(order["vendor"])
      BY <2>2 DEF Ordering, Shows, Marked, Facts, Fact
    <2>4. ~Settles(m)
      BY <1>1, SettlesCases
    <2>5. order' = order
      BY <1>1, <2>3, <2>4 DEF Arrived
    <2> QED
      BY <2>5 DEF Grows
  <1>2. CASE ~(m.type = "ORDER" /\ Accepts)
    BY <1>2, ArrivedGrows, PartyFacts
  <1> QED
    BY <1>1, <1>2

(* A vendor calls nothing on an order that it does not know or that is new. *)
LEMMA VendorIdle ==
  ASSUME Base, [Next]_vars, call["vendor"] = <<>>,
         order["vendor"] = None \/ State("vendor") = "AWAITING_PAYMENT"
  PROVE  call'["vendor"] = <<>>
  <1> USE PartyFacts
  <1>1. Continuing => call'["vendor"] = call["vendor"]
    <2> SUFFICES ASSUME Continuing PROVE call'["vendor"] = call["vendor"]
      OBVIOUS
    <2>1. PICK p \in Party : \E S :
            /\ Started(p, S)
            /\ p = "vendor" => order["vendor"] # None /\ State("vendor") # "AWAITING_PAYMENT"
      BY ContinuingTells
    <2> QED
      BY <2>1 DEF Started
  <1>2. ~EffectDone("vendor") /\ ~SpendFails("vendor")
    BY DoneToDo, SpendFailsStep DEF Base
  <1> QED
    BY <1>1, <1>2, CallMoves

LEMMA AddressStep ==
  ASSUME Base, Ordering, [Next]_vars, method' = "ADDRESS_REQUEST"
  PROVE  Shows("vendor", "confirmation")'
  <1> USE PartyFacts
  <1>1. CASE PurchaseOnline
    <2>1. order'["vendor"] # None /\ "confirmation" \in order'["vendor"].parts
      BY <1>1, OnlineStarts, NotNone DEF Base
    <2>2. ToDo("vendor")' = {}
      BY <1>1, BuysSame
    <2> QED
      BY <2>1, <2>2 DEF Shows, Marked
  <1>2. CASE PurchaseOffline
    BY <1>2, OfflineStarts DEF Base
  <1>3. CASE method' = method
    <2>1. Shows("vendor", "confirmation")
      BY <1>3 DEF Ordering
    <2>2. Accepts => Marked(order'["vendor"], "confirmation")
      BY <1>3 DEF Accepts, Sale, Marked
    <2> QED
      BY <2>1, <2>2, ShowsStays
  <1> QED
    BY <1>1, <1>2, <1>3, MethodMoves

LEMMA NewStep ==
  ASSUME Base, Ordering, [Next]_vars, ~Moderated', lost' = {}, State("vendor")' = "AWAITING_PAYMENT"
  PROVE  call'["vendor"] = <<>>
  <1> USE PartyFacts
  <1>1. CASE PurchaseOnline \/ PurchaseOffline
    BY <1>1, BuysSame
  <1>2. CASE order["vendor"] = None
    BY <1>2, VendorIdle DEF Ordering
  <1>3. CASE order["vendor"] # None /\ method' = method
    <2>1. ~Moderated /\ lost = {}
      BY <1>3, LostMoves DEF Moderated
    <2>2. order'["vendor"] = order["vendor"] => State("vendor")' = State("vendor")
      BY DEF State
    <2>3. ~(DoPut("vendor") /\ order'["vendor"] = Head(call["vendor"]).contract)
      <3>1. DoPut("vendor") => Fits("vendor", Head(call["vendor"])) /\ Head(call["vendor"]).do = "put"
        BY FirstFits, PutStep DEF Base
      <3>2. order'["vendor"].state = "AWAITING_PAYMENT"
        BY DEF State
      <3> QED
        BY <3>1, <3>2 DEF Fits, OfVendor
    <2>4. \A m \in UnderWay : Arrived(m) => order'["vendor"] = order["vendor"]
      BY <1>3, <2>1, SaleStays
    <2>5. Informed("vendor") => State("vendor") = "AWAITING_PAYMENT"
      BY InformedGrows
    <2>6. ~PurchaseOnline
      BY <1>3, BuysSame
    <2>7. State("vendor") = "AWAITING_PAYMENT"
      BY <2>2, <2>3, <2>4, <2>5, <2>6, RecordMoves
    <2> QED
      BY <2>1, <2>7, VendorIdle DEF Ordering
  <1> QED
    BY <1>1, <1>2, <1>3, MethodMoves

LEMMA OrderingStep ==
  ASSUME Base, Ordering, [Next]_vars
  PROVE  Ordering'
  <1> USE PartyFacts
  <1>1. ASSUME order'["vendor"] = None PROVE call'["vendor"] = <<>>
    <2>1. order["vendor"] = None
      <3>1. ~PurchaseOnline
        BY <1>1, OnlineStarts, NotNone DEF Base
      <3>2. ~(DoPut("vendor") /\ order'["vendor"] = Head(call["vendor"]).contract)
        BY <1>1, PutStep, NotNone DEF Base
      <3>3. \A m \in UnderWay : Arrived(m) => order["vendor"] = None
        BY <1>1, ArrivedGrows DEF Accepts, Grows
      <3>4. ~Informed("vendor")
        BY <1>1, InformedGrows
      <3> QED
        BY <1>1, <3>1, <3>2, <3>3, <3>4, RecordMoves
    <2> QED
      BY <2>1, VendorIdle DEF Ordering
  <1>2. method' = "ADDRESS_REQUEST" => Shows("vendor", "confirmation")'
    BY AddressStep
  <1>3. method' = "DIRECT" => Single'
    BY SingleStep
  <1>4. ~Moderated' /\ lost' = {} /\ State("vendor")' = "AWAITING_PAYMENT" => call'["vendor"] = <<>>
    BY NewStep
  <1> QED
    BY <1>1, <1>2, <1>3, <1>4 DEF Ordering

-----------------------------------------------------------------------------
(* The money.                                                               *)

LEMMA RepaysVendor ==
  ASSUME Base, NEW p \in Party, DoRepay(p)
  PROVE  p = "vendor" /\ ~Moderated
  <1>1. call[p] # <<>> /\ Head(call[p]).do = "repay"
    BY RepayStep DEF Base
  <1>2. Fits(p, Head(call[p]))
    BY <1>1, FirstFits
  <1> QED
    BY <1>1, <1>2 DEF Fits, OfBuyer, OfModerator, Party, Trader

LEMMA CoinMoves ==
  ASSUME Base, [Next]_vars
  PROVE  \/ coin' = coin
         \/ Pay /\ coin = "unpaid" /\ coin' = IF method = "ADDRESS_REQUEST" THEN "vendor" ELSE "escrow"
         \/ coin = "escrow" /\ coin' \in Trader
         \/ coin = "vendor" /\ coin' = "buyer" /\ ~Moderated /\ DoRepay("vendor")
  <1>0. Typed
    BY DEF Base
  <1>1. ASSUME NEW p \in Party, Effects(p)
        PROVE  \/ coin' = coin
               \/ coin = "escrow" /\ coin' \in Trader
               \/ coin = "vendor" /\ coin' = "buyer" /\ ~Moderated /\ DoRepay("vendor")
    <2>1. CASE DoSpend(p)
      BY <1>0, <2>1, SpendStep
    <2>2. CASE DoRepay(p)
      BY <1>0, <2>2, RepayStep, RepaysVendor
    <2> QED
      BY <1>0, <1>1, <2>1, <2>2, EffectFrame
  <1>2. ASSUME NEW m \in UnderWay, Arrived(m)
        PROVE  coin' = coin \/ (coin = "escrow" /\ coin' \in Trader)
    BY <1>2, PartyFacts DEF Arrived, Settles, Accepts, Decides
  <1>3. \A p \in Trader : Informed(p) => coin' = coin
    BY DEF Informed
  <1>4. Quiet => coin' = coin
    BY DEF Quiet
  <1>5. Pay => coin = "unpaid" /\ coin' = IF method = "ADDRESS_REQUEST" THEN "vendor" ELSE "escrow"
    BY <1>0, PayStep
  <1> QED
    BY <1>1, <1>2, <1>3, <1>4, <1>5, StepKinds, ContinuingSame, BuysSame

LEMMA BuyerKeepsCoin ==
  ASSUME Base, [Next]_vars, coin = "buyer"
  PROVE  coin' = "buyer"
  BY CoinMoves DEF Trader

-----------------------------------------------------------------------------
(* What moves the states and the parts of a record, and why.                *)

(* The states that records go to, and why.                                  *)
StateSteps(q, s) ==
    \/ s \in {"AWAITING_PAYMENT", "PROCESSING_ERROR"}
    \/ DoPut(q) /\ s = Head(call[q]).contract.state
    \/ q = "vendor" /\ s = "CANCELED" /\ Told("ORDER_CANCEL")
    \/ q = "vendor" /\ s = "COMPLETED" /\ Told("ORDER_COMPLETION")
    \/ q = "buyer" /\ s = "DECLINED" /\ coin' = "buyer"
    \/ q = "buyer" /\ s = "REFUNDED" /\ (Moderated => coin' = "buyer")
    \/ q = "buyer" /\ s = "FULFILLED" /\ Told("ORDER_FULFILLMENT")
    \/ q = "buyer" /\ s = "PAYMENT_FINALIZED" /\ Told("VENDOR_FINALIZED_PAYMENT")
    \/ q = "buyer" /\ s = "AWAITING_FULFILLMENT" /\ Told("ORDER_CONFIRMATION")
    \/ s \in {"DISPUTED", "DECIDED", "RESOLVED"} /\ Moderated
    \/ /\ coin # "unpaid" /\ State(q) = "AWAITING_PAYMENT"
       /\ \/ s = "AWAITING_FULFILLMENT" /\ "confirmation" \in order[q].parts
          \/ s = "PENDING" /\ "confirmation" \notin order[q].parts

LEMMA StateMoves ==
  ASSUME Base, [Next]_vars, NEW q \in Trader, order'[q] # None, State(q)' # State(q)
  PROVE  StateSteps(q, order'[q].state)
  <1> DEFINE s == order'[q].state
  <1>0. Typed /\ Unmoderated
    BY DEF Base
  <1>1. State(q)' = s
    BY DEF State
  <1>2. order'[q] # order[q]
    BY DEF State
  <1>3. CASE PurchaseOnline /\ q = "vendor"
    BY <1>0, <1>3, OnlineStarts DEF StateSteps
  <1>4. CASE DoPut(q) /\ order'[q] = Head(call[q]).contract
    BY <1>4 DEF StateSteps
  <1>5. ASSUME NEW m \in UnderWay, Arrived(m), m.type = "ORDER", Accepts
        PROVE  StateSteps(q, s)
    BY <1>2, <1>5 DEF Accepts, Sale, StateSteps, Trader
  <1>6. ASSUME NEW m \in UnderWay, Arrived(m), m.type = "DISPUTE_CLOSE", Decides(m)
        PROVE  StateSteps(q, s)
    <2>1. Moderated
      BY <1>0, <1>6 DEF Unmoderated, Told
    <2>2. s \in {"DECIDED", "RESOLVED"}
      BY <1>2, <1>6 DEF Decides
    <2> QED
      BY <2>1, <2>2 DEF StateSteps
  <1>7. ASSUME NEW m \in UnderWay, Arrived(m), Settles(m)
        PROVE  StateSteps(q, s)
    <2>1. Told(m.type)
      BY DEF Told
    <2>2. m.type = "DISPUTE_OPEN" => Moderated
      BY <1>0, <2>1 DEF Unmoderated
    <2>3. \A r \in Trader : \A t, S : Saved(r, t, S) => r = q /\ s = t
      BY <1>2 DEF Saved
    <2>4. "buyer" \in Trader /\ "vendor" \in Trader
      BY PartyFacts
    <2>5. m.type = "ORDER_REJECT" => coin' = "buyer"
      BY <1>7 DEF Settles
    <2>6. m.type = "REFUND" => (Moderated => coin' = "buyer")
      BY <1>7 DEF Settles
    <2> HIDE DEF s
    <2> QED
      BY <1>7, <2>1, <2>2, <2>3, <2>4, <2>5, <2>6, SettlesCases DEF StateSteps
  <1>8. ASSUME Informed(q) PROVE StateSteps(q, s)
    <2>1. \/ /\ State(q) = "AWAITING_PAYMENT" /\ coin # "unpaid"
             /\ \/ s = "AWAITING_FULFILLMENT" /\ "confirmation" \in order[q].parts
                \/ s = "PENDING" /\ "confirmation" \notin order[q].parts
          \/ /\ s = "RESOLVED"
             /\ \/ order[q].resolution # None
                \/ "acceptance" \in order[q].parts
                \/ "dispute" \in order[q].parts
      BY <1>1, <1>8, InformedGrows
    <2>2. order[q] # None
      BY <1>8, InformedGrows
    <2>3. s = "RESOLVED" /\ ~(State(q) = "AWAITING_PAYMENT" /\ coin # "unpaid"
                               /\ (s = "AWAITING_FULFILLMENT" \/ s = "PENDING")) => Moderated
      BY <1>0, <2>1, <2>2 DEF Unmoderated, Plain
    <2> HIDE DEF s
    <2> QED
      BY <2>1, <2>3 DEF StateSteps
  <1> QED
    BY <1>2, <1>3, <1>4, <1>5, <1>6, <1>7, <1>8, RecordMoves DEF Arrived

(* The parts that records gain, and why.                                    *)
LEMMA PartMoves ==
  ASSUME Base, [Next]_vars, NEW q \in Trader, NEW k, order'[q] # None, k \in order'[q].parts,
         ~(order[q] # None /\ k \in order[q].parts)
  PROVE  \/ k = "confirmation" /\ PurchaseOnline /\ q = "vendor"
         \/ /\ k = "confirmation" /\ Told("ORDER") /\ q = "vendor"
            /\ method = "ADDRESS_REQUEST" \/ Moderated
         \/ DoPut(q) /\ k \in Head(call[q]).contract.parts
         \/ q = "buyer" /\ k = "confirmation" /\ Told("ORDER_CONFIRMATION")
         \/ q = "buyer" /\ k = "fulfillment" /\ Told("ORDER_FULFILLMENT")
         \/ k = "dispute"
         \/ k = "acceptance" /\ coin \in Trader /\ Informed(q)
  <1>0. Typed
    BY DEF Base
  <1>2. order'[q] # order[q]
    OBVIOUS
  <1>3. CASE PurchaseOnline /\ q = "vendor"
    BY <1>0, <1>3, OnlineStarts
  <1>4. CASE DoPut(q) /\ order'[q] = Head(call[q]).contract
    BY <1>4
  <1>5. ASSUME NEW m \in UnderWay, Arrived(m), m.type = "ORDER", Accepts
        PROVE  /\ k = "confirmation" /\ Told("ORDER") /\ q = "vendor"
               /\ method = "ADDRESS_REQUEST" \/ Moderated
    BY <1>2, <1>5 DEF Accepts, Sale, Told, Trader
  <1>6. ASSUME NEW m \in UnderWay, Arrived(m), m.type = "DISPUTE_CLOSE", Decides(m)
        PROVE  FALSE
    BY <1>2, <1>6 DEF Decides
  <1>7. ASSUME NEW m \in UnderWay, Arrived(m), Settles(m)
        PROVE  \/ q = "buyer" /\ k = "confirmation" /\ Told("ORDER_CONFIRMATION")
               \/ q = "buyer" /\ k = "fulfillment" /\ Told("ORDER_FULFILLMENT")
               \/ k = "dispute"
    <2>1. Told(m.type)
      BY DEF Told
    <2>3. \A r \in Trader : \A t, S : Saved(r, t, S) => r = q /\ k \in S
      BY <1>2 DEF Saved
    <2>4. "buyer" \in Trader /\ "vendor" \in Trader
      BY PartyFacts
    <2> QED
      BY <1>7, <2>1, <2>3, <2>4, SettlesCases
  <1>8. CASE Informed(q)
    <2>1. \A t, S : Saved(q, t, S) => k \in S
      BY DEF Saved
    <2> QED
      BY <1>8, <2>1 DEF Informed, Funds, Accepted
  <1> QED
    BY <1>2, <1>3, <1>4, <1>5, <1>6, <1>7, <1>8, RecordMoves DEF Arrived

-----------------------------------------------------------------------------
(* An order that was called off.                                            *)

CallsOff(e) ==
    \/ e.do = "put" /\ e.contract.state = "CANCELED"
    \/ e.do = "send" /\ e.msg.type = "ORDER_CANCEL"

(* Every step to a cancellation follows the payment back to the buyer.      *)
CalledOff ==
    /\ CanceledIsRefunded
    /\ Told("ORDER_CANCEL") => coin = "buyer"
    /\ \A e \in ToDo("buyer") : CallsOff(e) =>
           \/ coin = "buyer"
           \/ call["buyer"] # <<>> /\ Head(call["buyer"]) = Spend("buyer", None)

LEMMA CalledOffInit == Init => CalledOff
  <1> SUFFICES ASSUME Init PROVE CalledOff
    OBVIOUS
  <1>1. ToDo("buyer") = {}
    BY PartyFacts DEF Init, ToDo, Range
  <1>2. UnderWay = {}
    BY DEF Init, UnderWay, Carried, Kept, Range
  <1>3. State("buyer") = "none" /\ State("vendor") = "none"
    BY PartyFacts DEF Init, State
  <1> QED
    BY <1>1, <1>2, <1>3 DEF CalledOff, Told, CanceledIsRefunded

(* Only a send of the buyer tells of a cancellation, and the money is back. *)
LEMMA CancelTold ==
  ASSUME Base, CalledOff, [Next]_vars, Told("ORDER_CANCEL")'
  PROVE  coin' = "buyer"
  <1>1. CASE Told("ORDER_CANCEL")
    BY <1>1, BuyerKeepsCoin DEF CalledOff
  <1>2. CASE ~Told("ORDER_CANCEL")
    <2>1. ASSUME NEW p \in Party, Effects(p) PROVE coin' = "buyer"
      <3>1. DoSend(p)
        BY <1>2, <2>1, EffectFrame, ToldMail DEF Base
      <3>2. /\ Head(call[p]) \in ToDo(p) /\ Fits(p, Head(call[p])) /\ Head(call[p]).do = "send"
            /\ Head(call[p]).msg.type = "ORDER_CANCEL"
        BY <1>2, <3>1, SendTells
      <3>3. p = "buyer"
        BY <3>2 DEF Fits, OfVendor, OfModerator, Party, Trader
      <3>4. Head(call[p]) # Spend("buyer", None)
        BY <3>2 DEF Spend
      <3>5. coin = "buyer"
        BY <3>2, <3>3, <3>4 DEF CalledOff, CallsOff
      <3> QED
        BY <3>5, BuyerKeepsCoin
    <2>2. ASSUME Answered PROVE FALSE
      BY <1>2, <2>2, ToldGrows
    <2>3. ASSUME UNCHANGED mail PROVE FALSE
      BY <1>2, <2>3, ToldMail
    <2>4. Pay => UNCHANGED mail
      BY PayStep DEF Base
    <2> QED
      BY <2>1, <2>2, <2>3, <2>4, StepKinds, ContinuingSame, BuysSame DEF Quiet, Arrived, Informed
  <1> QED
    BY <1>1, <1>2

(* What the buyer still has to do.                                          *)
LEMMA CancelToDo ==
  ASSUME Base, CalledOff, [Next]_vars, NEW e \in ToDo("buyer")', CallsOff(e)
  PROVE  coin' = "buyer" \/ (call'["buyer"] # <<>> /\ Head(call'["buyer"]) = Spend("buyer", None))
  <1> USE PartyFacts
  <1>0. Typed
    BY DEF Base
  <1>1. ASSUME e \in ToDo("buyer"), call'["buyer"] = call["buyer"]
        PROVE  coin' = "buyer" \/ (call'["buyer"] # <<>> /\ Head(call'["buyer"]) = Spend("buyer", None))
    BY <1>1, BuyerKeepsCoin DEF CalledOff
  <1>2. CASE PurchaseOnline
    <2>1. \E n : n.state = "AWAITING_PAYMENT" /\ ToDo("buyer")' = {Put(n)}
      BY <1>0, <1>2, OnlineStarts
    <2> QED
      BY <2>1 DEF CallsOff, Put
  <1>3. CASE PurchaseOffline
    <2>1. ToDo("buyer")' = {Send("vendor", Msg("ORDER", "buyer")), Put(New)}
      BY <1>0, <1>3, OfflineStarts
    <2> QED
      BY <2>1 DEF CallsOff, Put, Send, Msg, New
  <1>4. CASE CancelOfflineOrder
    <2>1. \E a, b : call'["buyer"] = <<Spend("buyer", None), a, b>>
      BY <1>0, <1>4, CancelStarts
    <2> QED
      BY <2>1
  <1>5. CASE Continuing /\ ~CancelOfflineOrder
    <2>0. ASSUME NEW p \in Party, NEW t, NEW u, NEW K, NEW Q, Profile(p, t, u, K, Q),
                 t # "CANCELED", u # "ORDER_CANCEL"
          PROVE  e \in ToDo("buyer") /\ call'["buyer"] = call["buyer"]
      BY <2>0 DEF Profile, Started, CallsOff
    <2>1. e \in ToDo("buyer") /\ call'["buyer"] = call["buyer"]
      BY <1>0, <1>5, <2>0, ContinuingProfile DEF Profiles
    <2> QED
      BY <1>1, <2>1
  <1>6. CASE Pay \/ (\E m \in UnderWay : Arrived(m)) \/ (\E p \in Trader : Informed(p))
    <2>1. UNCHANGED call
      BY <1>0, <1>6, PayStep DEF Arrived, Informed
    <2> QED
      BY <1>1, <2>1, ToDoSame
  <1>7. CASE Quiet
    <2>1. e \in ToDo("buyer") /\ call'["buyer"] = call["buyer"]
      <3>1. call'["buyer"] # <<>>
        BY DEF ToDo, Range
      <3> QED
        BY <1>7, <3>1, QuietToDo DEF Quiet
    <2> QED
      BY <1>1, <2>1
  <1>8. ASSUME NEW p \in Party, Effects(p)
        PROVE  coin' = "buyer" \/ (call'["buyer"] # <<>> /\ Head(call'["buyer"]) = Spend("buyer", None))
    <2>1. CASE p # "buyer"
      <3>1. e \in ToDo("buyer") /\ call'["buyer"] = call["buyer"]
        BY <1>0, <1>8, <2>1, EffectFrame
      <3> QED
        BY <1>1, <3>1
    <2> DEFINE h == Head(call["buyer"])
    <2>2. CASE p = "buyer" /\ SpendFails(p)
      <3>1. call["buyer"] # <<>> /\ h.do = "spend"
            /\ (ToDo("buyer")' = {} \/ h.undo # None)
        BY <1>0, <2>2, SpendFailsStep
      <3>2. h.undo = None
        BY <3>1, FirstFits DEF Fits, OfBuyer
      <3> QED
        BY <3>1, <3>2
    <2>3. CASE p = "buyer" /\ EffectDone(p)
      <3>1. e \in ToDo("buyer")
        BY <1>0, <2>3, DoneToDo
      <3>2. coin = "buyer" \/ (call["buyer"] # <<>> /\ h = Spend("buyer", None))
        BY <3>1 DEF CalledOff
      <3>3. CASE coin = "buyer"
        BY <3>3, BuyerKeepsCoin
      <3>4. CASE call["buyer"] # <<>> /\ h = Spend("buyer", None)
        <4>1. h.do = "spend" /\ h.to = "buyer"
          BY <3>4 DEF Spend
        <4>2. DoSpend("buyer")
          BY <2>3, <4>1 DEF EffectDone, DoPut, DoSend, DoRepay, MarkAsClosed, Doing
        <4>3. coin' = "buyer"
          BY <1>0, <4>1, <4>2, SpendStep
        <4> QED
          BY <4>3
      <3> QED
        BY <3>2, <3>3, <3>4
    <2> QED
      BY <1>8, <2>1, <2>2, <2>3 DEF Effects, EffectDone
  <1> QED
    BY <1>2, <1>3, <1>4, <1>5, <1>6, <1>7, <1>8, StepKinds

LEMMA UnstartedBuyer ==
  ASSUME Base, [Next]_vars, method = None
  PROVE  order'["buyer"] = None
  <1> USE PartyFacts
  <1>1. order["buyer"] = None /\ call["buyer"] = <<>> /\ UnderWay = {}
    BY DEF Base, Unstarted
  <1>2. ~DoPut("buyer")
    BY <1>1 DEF DoPut, Doing
  <1>3. ~Informed("buyer")
    BY <1>1, InformedGrows
  <1> QED
    BY <1>1, <1>2, <1>3, RecordMoves

LEMMA CalledOffStep ==
  ASSUME Base, CalledOff, [Next]_vars
  PROVE  CalledOff'
  <1> USE PartyFacts
  <1>1. ASSUME NEW q \in Trader, DoPut(q)
        PROVE  Head(call[q]) \in ToDo(q) /\ Fits(q, Head(call[q])) /\ Head(call[q]).do = "put"
    BY <1>1, FirstFits, PutStep DEF Base
  <1>2. ASSUME State("vendor")' = "CANCELED" PROVE coin' = "buyer"
    <2>1. CASE State("vendor") = "CANCELED"
      BY <2>1, BuyerKeepsCoin DEF CalledOff, CanceledIsRefunded
    <2>2. CASE State("vendor") # "CANCELED"
      <3>1. order'["vendor"] # None /\ order'["vendor"].state = "CANCELED"
        BY <1>2 DEF State
      <3>2. ~(DoPut("vendor") /\ Head(call["vendor"]).contract.state = "CANCELED")
        BY <1>1 DEF Fits, OfVendor
      <3>3. Told("ORDER_CANCEL")
        BY <1>2, <2>2, <3>1, <3>2, StateMoves DEF StateSteps
      <3> QED
        BY <3>3, BuyerKeepsCoin DEF CalledOff
    <2> QED
      BY <2>1, <2>2
  <1>3. ASSUME State("buyer")' \in {"CANCELED", "DECLINED"} PROVE coin' = "buyer"
    <2>1. CASE State("buyer")' = State("buyer")
      BY <1>3, <2>1, BuyerKeepsCoin DEF CalledOff, CanceledIsRefunded
    <2>2. CASE State("buyer")' # State("buyer")
      <3>1. order'["buyer"] # None /\ order'["buyer"].state = State("buyer")'
        BY <1>3 DEF State
      <3>2. CASE DoPut("buyer") /\ order'["buyer"].state = Head(call["buyer"]).contract.state
        <4>1. CallsOff(Head(call["buyer"]))
          BY <1>1, <1>3, <3>1, <3>2 DEF Fits, OfBuyer, CallsOff
        <4>2. Head(call["buyer"]) # Spend("buyer", None)
          BY <1>1, <3>2 DEF Spend
        <4> QED
          BY <1>1, <3>2, <4>1, <4>2, BuyerKeepsCoin DEF CalledOff
      <3> QED
        BY <1>3, <2>2, <3>1, <3>2, StateMoves DEF StateSteps
    <2> QED
      BY <2>1, <2>2
  <1>4. ASSUME Moderated', State("buyer")' = "REFUNDED" PROVE coin' = "buyer"
    <2>1. method # None
      BY <1>4, UnstartedBuyer DEF State
    <2>2. Moderated
      BY <1>4, <2>1, MethodStays DEF Moderated
    <2>3. CASE State("buyer")' = State("buyer")
      BY <1>4, <2>2, <2>3, BuyerKeepsCoin DEF CalledOff, CanceledIsRefunded
    <2>4. CASE State("buyer")' # State("buyer")
      <3>1. order'["buyer"] # None /\ order'["buyer"].state = "REFUNDED"
        BY <1>4 DEF State
      <3>2. ~(DoPut("buyer") /\ Head(call["buyer"]).contract.state = "REFUNDED")
        BY <1>1 DEF Fits, OfBuyer
      <3> QED
        BY <2>2, <2>4, <3>1, <3>2, StateMoves DEF StateSteps
    <2> QED
      BY <2>3, <2>4
  <1>5. CanceledIsRefunded'
    BY <1>2, <1>3, <1>4 DEF CanceledIsRefunded
  <1>6. ASSUME NEW e \in ToDo("buyer")', CallsOff(e)
        PROVE  coin' = "buyer" \/ (call'["buyer"] # <<>> /\ Head(call'["buyer"]) = Spend("buyer", None))
    BY <1>6, CancelToDo
  <1>7. \A e \in ToDo("buyer")' : CallsOff(e)' <=> CallsOff(e)
    BY DEF CallsOff
  <1> QED
    BY <1>5, <1>6, <1>7, CancelTold DEF CalledOff

-----------------------------------------------------------------------------
(* The confirmation.                                                        *)

Backed == Has("vendor", "confirmation") \/ "confirmation" \in lost

(* The rest of a call that confirms the order.                              *)
Confirming ==
    \/ \E c \in SoundContract :
           /\ "confirmation" \in c.parts /\ Moderated
           /\ call["vendor"] = <<Put(c), Confirms>>
    \/ \E c, d \in SoundContract :
           /\ "confirmation" \in c.parts
           /\ call["vendor"] = <<Put(c), Spend("vendor", d), Confirms>>
    \/ /\ Backed
       /\ \E d \in SoundContract : call["vendor"] = <<Spend("vendor", d), Confirms>>
    \/ Backed /\ call["vendor"] = <<Confirms>>

ConfirmsBy(e) ==
    \/ e.do = "send" /\ e.msg.type = "ORDER_CONFIRMATION"
    \/ e.do = "put" /\ e.contract.state = "AWAITING_FULFILLMENT"
    \/ e.do = "spend" /\ e.undo # None

Confirmed ==
    \/ Told("ORDER_CONFIRMATION")
    \/ Has("buyer", "confirmation")
    \/ \E e \in ToDo("buyer") : e.do = "put" /\ "confirmation" \in e.contract.parts

Confirmation ==
    /\ Confirmed => Holds("vendor", "confirmation")
    /\ \A e \in ToDo("vendor") : ConfirmsBy(e) => Confirming

(* The record of a vendor at work grows, or an ORDER overwrites it.         *)
LEMMA VendorGrows ==
  ASSUME Base, Ordering, [Next]_vars, call["vendor"] # <<>>, ~DoPut("vendor")
  PROVE  /\ order["vendor"] # None
         /\ Grows("vendor") \/ Facts(order["vendor"]) \subseteq lost'
  <1> USE PartyFacts
  <1>1. order["vendor"] # None
    BY DEF Ordering
  <1>2. ~PurchaseOnline
    BY BuysSame
  <1>3. ASSUME NEW m \in UnderWay, Arrived(m)
        PROVE  Grows("vendor") \/ Facts(order["vendor"]) \subseteq lost'
    <2>1. CASE m.type = "ORDER" /\ Accepts
      <3>1. ~Settles(m)
        BY <2>1, SettlesCases
      <3> QED
        BY <1>1, <1>3, <2>1, <3>1 DEF Arrived, Grows
    <2>2. CASE ~(m.type = "ORDER" /\ Accepts)
      BY <1>3, <2>2, ArrivedGrows
    <2> QED
      BY <2>1, <2>2
  <1>4. Informed("vendor") => Grows("vendor")
    BY InformedGrows
  <1> QED
    BY <1>1, <1>2, <1>3, <1>4, RecordMoves DEF Grows

LEMMA BackedStays ==
  ASSUME Base, Ordering, [Next]_vars, call["vendor"] # <<>>, ~DoPut("vendor"), Backed
  PROVE  Backed'
  <1>1. CASE "confirmation" \in lost
    BY <1>1, LostMoves DEF Backed
  <1>2. CASE Has("vendor", "confirmation")
    <2>1. "confirmation" \in Facts(order["vendor"])
      BY <1>2 DEF Has, Facts, Fact
    <2> QED
      BY <1>2, <2>1, VendorGrows DEF Backed, Has, Grows
  <1> QED
    BY <1>1, <1>2 DEF Backed

LEMMA TailDiffers ==
  ASSUME NEW S, NEW s \in Seq(S), s # <<>>
  PROVE  Tail(s) # s
  OBVIOUS

LEMMA ConfirmingSame ==
  ASSUME Base, Ordering, [Next]_vars, Confirming, call'["vendor"] = call["vendor"]
  PROVE  Confirming'
  <1> USE PartyFacts
  <1>0. Typed
    BY DEF Base
  <1>1. call["vendor"] # <<>>
    <2>1. \A a, b, c : <<a>> # <<>> /\ <<a, b>> # <<>> /\ <<a, b, c>> # <<>>
      OBVIOUS
    <2> QED
      BY <2>1 DEF Confirming
  <1>2. method # None
    BY <1>1 DEF Base, Unstarted
  <1>3. Moderated' <=> Moderated
    BY <1>2, MethodStays DEF Moderated
  <1>4. ~DoPut("vendor")
    <2>1. call["vendor"] \in Seq(Effect)
      BY <1>0 DEF Typed, CallMap
    <2>2. DoPut("vendor") => call'["vendor"] = Tail(call["vendor"])
      BY <1>0, <1>1, DoneToDo DEF EffectDone
    <2> QED
      BY <1>1, <2>1, <2>2, TailDiffers
  <1>5. Backed => Backed'
    BY <1>1, <1>4, BackedStays
  <1> QED
    BY <1>3, <1>5 DEF Confirming

LEMMA ConfirmingAdvances ==
  ASSUME Base, Ordering, [Next]_vars, Confirming, EffectDone("vendor"), call'["vendor"] # <<>>
  PROVE  Confirming'
  <1> USE PartyFacts
  <1>0. Typed
    BY DEF Base
  <1>1. call["vendor"] # <<>> /\ call'["vendor"] = Tail(call["vendor"])
    BY <1>0, DoneToDo
  <1>2. ASSUME NEW c \in SoundContract, "confirmation" \in c.parts, call["vendor"] # <<>>,
               Head(call["vendor"]) = Put(c)
        PROVE  Backed'
    <2>1. DoPut("vendor")
      BY <1>2 DEF EffectDone, DoPut, DoSend, DoSpend, DoRepay, MarkAsClosed, Doing, Put
    <2>2. order'["vendor"] = c
      BY <1>0, <1>2, <2>1, PutStep DEF Put
    <2>3. c # None
      BY NotNone
    <2> QED
      BY <1>2, <2>2, <2>3 DEF Backed, Has
  <1>3. ASSUME NEW c \in SoundContract, "confirmation" \in c.parts, call["vendor"] = <<Put(c), Confirms>>
        PROVE  Confirming'
    <2>1. Head(call["vendor"]) = Put(c) /\ call'["vendor"] = <<Confirms>>
      BY <1>1, <1>3
    <2> QED
      BY <1>1, <1>2, <1>3, <2>1 DEF Confirming
  <1>4. ASSUME NEW c \in SoundContract, NEW d \in SoundContract, "confirmation" \in c.parts,
               call["vendor"] = <<Put(c), Spend("vendor", d), Confirms>>
        PROVE  Confirming'
    <2>1. Head(call["vendor"]) = Put(c) /\ call'["vendor"] = <<Spend("vendor", d), Confirms>>
      BY <1>1, <1>4
    <2> QED
      BY <1>1, <1>2, <1>4, <2>1 DEF Confirming
  <1>5. ASSUME NEW d \in SoundContract, Backed,
               call["vendor"] = <<Spend("vendor", d), Confirms>>
        PROVE  Confirming'
    <2>1. Head(call["vendor"]) = Spend("vendor", d) /\ call'["vendor"] = <<Confirms>>
      BY <1>1, <1>5
    <2>2. ~DoPut("vendor")
      BY <2>1 DEF DoPut, Doing, Spend
    <2>3. Backed'
      BY <1>1, <1>5, <2>2, BackedStays
    <2> QED
      BY <2>1, <2>3 DEF Confirming
  <1>6. call["vendor"] # <<Confirms>>
    <2>1. Tail(<<Confirms>>) = <<>>
      OBVIOUS
    <2> QED
      BY <1>1, <2>1
  <1> QED
    BY <1>3, <1>4, <1>5, <1>6 DEF Confirming

LEMMA ConfirmingStarts ==
  ASSUME Base, Continuing, [Next]_vars, call["vendor"] = <<>>, NEW e \in ToDo("vendor")', ConfirmsBy(e)
  PROVE  Confirming'
  <1> USE PartyFacts
  <1>0. Typed
    BY DEF Base
  <1>1. ASSUME NEW q \in Party, NEW t, NEW u, NEW K, NEW Q, Profile(q, t, u, K, Q)
        PROVE  /\ q = "vendor"
               /\ \/ e.do = "send" /\ u = "ORDER_CONFIRMATION"
                  \/ e.do = "put" /\ t = "AWAITING_FULFILLMENT"
                  \/ e.do = "spend" /\ e.undo # None /\ "spend" \in K
    <2>1. PICK S : /\ Started(q, S)
                   /\ \A f \in S : /\ From(order[q], f) /\ f.do \in K
                                   /\ f.do = "put" => f.contract.state = t
                                   /\ f.do = "send" => f.msg.type = u
      BY <1>1 DEF Profile
    <2>2. q = "vendor"
      <3>1. ToDo("vendor") = {}
        BY DEF ToDo, Range
      <3> QED
        BY <2>1, <3>1 DEF Started
    <2>3. e \in S
      BY <2>1, <2>2 DEF Started
    <2> QED
      BY <2>1, <2>2, <2>3 DEF ConfirmsBy
  <1>2. CASE ConfirmOfflineOrder
    <2> DEFINE c == order["vendor"]
               n == With(c, "AWAITING_FULFILLMENT", {"confirmation"})
    <2>1. /\ c \in SoundContract /\ n \in SoundContract /\ n.parts = c.parts \cup {"confirmation"}
          /\ Moderated => call'["vendor"] = <<Put(n), Confirms>>
          /\ ~Moderated => call'["vendor"] = <<Put(n), Spend("vendor", c), Confirms>>
      BY <1>0, <1>2, ConfirmStarts
    <2>2. Moderated' <=> Moderated
      BY ContinuingSame DEF Moderated
    <2>3. "confirmation" \in n.parts
      BY <2>1
    <2>4. CASE Moderated
      BY <2>1, <2>2, <2>3, <2>4 DEF Confirming
    <2>5. CASE ~Moderated
      BY <2>1, <2>3, <2>5 DEF Confirming
    <2> QED
      BY <2>4, <2>5
  <1>3. ~ReleaseFundsAfterTimeout
    <2> SUFFICES ASSUME ReleaseFundsAfterTimeout PROVE FALSE
      OBVIOUS
    <2>1. \E n : n.state = "PAYMENT_FINALIZED" /\ ToDo("vendor")' = {Spend("vendor", None), Put(n), Finalizes}
      BY <1>0, TimeoutStarts DEF Started
    <2> QED
      BY <2>1 DEF ConfirmsBy, Spend, Put, Finalizes, Send, Msg
  <1>4. ASSUME NEW p \in Trader, ReleaseFunds(p) PROVE FALSE
    <2>1. \E n, q : n.state = "DECIDED" /\ Started(p, {Spend(q, None), Put(n)})
      BY <1>0, <1>4, ReleaseStarts
    <2>2. p # "vendor" => ToDo("vendor")' = ToDo("vendor")
      BY <2>1 DEF Started
    <2>3. p = "vendor"
      <3>1. ToDo("vendor") = {}
        BY DEF ToDo, Range
      <3> QED
        BY <2>2, <3>1
    <2>4. PICK n, q : n.state = "DECIDED" /\ ToDo("vendor")' = {Spend(q, None), Put(n)}
      BY <2>1, <2>3 DEF Started
    <2> QED
      BY <2>4 DEF ConfirmsBy, Spend, Put
  <1> QED
    BY <1>0, <1>1, <1>2, <1>3, <1>4, ContinuingProfile DEF Profiles

LEMMA ConfirmationInit == Init => Confirmation
  <1> SUFFICES ASSUME Init PROVE Confirmation
    OBVIOUS
  <1>1. ToDo("buyer") = {} /\ ToDo("vendor") = {}
    BY PartyFacts DEF Init, ToDo, Range
  <1>2. UnderWay = {}
    BY DEF Init, UnderWay, Carried, Kept, Range
  <1>3. order["buyer"] = None
    BY PartyFacts DEF Init
  <1> QED
    BY <1>1, <1>2, <1>3 DEF Confirmation, Confirmed, Told, Has

(* A part that no call adds comes from the record.                          *)
LEMMA ContinuingParts ==
  ASSUME Base, Continuing, call["buyer"] = <<>>, NEW e \in ToDo("buyer")', e.do = "put",
         NEW k, k \notin {"dispute", "acceptance"}, k \in e.contract.parts
  PROVE  k \in order["buyer"].parts
  <1> USE PartyFacts
  <1>0. Typed
    BY DEF Base
  <1>1. ASSUME NEW q \in Party, NEW t, NEW u, NEW K, NEW Q, Profile(q, t, u, K, Q)
        PROVE  q = "buyer" /\ (k \in order["buyer"].parts \/ k \in Q)
    <2>1. PICK S : /\ Started(q, S)
                   /\ \A f \in S : f.do = "put" => f.contract.parts \subseteq order[q].parts \cup Q
      BY <1>1 DEF Profile
    <2>2. q = "buyer"
      <3>1. ToDo("buyer") = {}
        BY DEF ToDo, Range
      <3> QED
        BY <2>1, <3>1 DEF Started
    <2>3. e \in S
      BY <2>1, <2>2 DEF Started
    <2> QED
      BY <2>1, <2>2, <2>3
  <1> QED
    BY <1>0, <1>1, ContinuingProfile DEF Profiles

LEMMA ContinuingKnows ==
  ASSUME Base, Continuing, call["buyer"] = <<>>, NEW e \in ToDo("buyer")'
  PROVE  order["buyer"] # None
  <1> USE PartyFacts
  <1>0. Typed
    BY DEF Base
  <1>1. \A q \in Party : \A S : Started(q, S) => q = "buyer"
    <2>1. ToDo("buyer") = {}
      BY DEF ToDo, Range
    <2> QED
      BY <2>1 DEF Started
  <1>2. ASSUME NEW p \in Trader, OpenDispute(p) PROVE order["buyer"] # None
    <2>1. (\E S : Started(p, S)) /\ order[p] # None
      BY <1>0, <1>2, DisputeStarts
    <2> QED
      BY <1>1, <2>1
  <1>3. ASSUME NEW p \in Trader, ReleaseFunds(p) PROVE order["buyer"] # None
    <2>1. (\E S : Started(p, S)) /\ order[p] # None
      BY <1>0, <1>3, ReleaseStarts
    <2> QED
      BY <1>1, <2>1
  <1>4. CASE CancelOfflineOrder
    BY <1>0, <1>4, CancelStarts
  <1>5. CASE CompleteOrder
    BY <1>0, <1>5, CompleteStarts
  <1>6. \A q, t, u, K, Q : Profile(q, t, u, K, Q) => \E S : Started(q, S)
    BY DEF Profile
  <1> QED
    BY <1>0, <1>1, <1>2, <1>3, <1>4, <1>5, <1>6, ContinuingProfile DEF Profiles

LEMMA BuyerToldConfirmation ==
  ASSUME Base, Ordering, Confirmation, [Next]_vars, Told("ORDER_CONFIRMATION")', ~Confirmed
  PROVE  Holds("vendor", "confirmation")'
  <1> USE PartyFacts
  <1>0. Typed
    BY DEF Base
  <1>1. PICK p \in Party : /\ DoSend(p) /\ Head(call[p]) \in ToDo(p) /\ Fits(p, Head(call[p]))
                           /\ Head(call[p]).do = "send" /\ Head(call[p]).msg.type = "ORDER_CONFIRMATION"
    BY ToldMoves DEF Confirmed
  <1>2. p = "vendor"
    BY <1>1 DEF Fits, OfBuyer, OfModerator, Party, Trader
  <1>3. Confirming
    BY <1>1, <1>2 DEF Confirmation, ConfirmsBy
  <1>4. \A a, b, c, d : /\ Head(<<Put(a), b>>).do # "send" /\ Head(<<Put(a), b, c>>).do # "send"
                        /\ Head(<<Spend(a, d), b>>).do # "send"
    BY DEF Put, Spend
  <1>5. Backed /\ call["vendor"] = <<Confirms>>
    BY <1>1, <1>2, <1>3, <1>4 DEF Confirming
  <1>6. order' = order /\ call'["vendor"] = Tail(call["vendor"]) /\ lost \subseteq lost'
    BY <1>0, <1>1, <1>2, SendStep, DoneToDo, LostMoves DEF EffectDone
  <1>7. ToDo("vendor")' = {}
    <2>1. Tail(<<Confirms>>) = <<>>
      OBVIOUS
    <2> QED
      BY <1>5, <1>6, <2>1 DEF ToDo, Range
  <1>8. Has("vendor", "confirmation") =>
            order'["vendor"] # None /\ "confirmation" \in order'["vendor"].parts
    BY <1>6 DEF Has
  <1> QED
    BY <1>5, <1>6, <1>7, <1>8 DEF Backed, Holds, Shows, Marked

LEMMA ConfirmedStep ==
  ASSUME Base, Ordering, Confirmation, [Next]_vars, Confirmed'
  PROVE  Holds("vendor", "confirmation")'
  <1> USE PartyFacts
  <1>0. Typed
    BY DEF Base
  <1>1. CASE Confirmed
    BY <1>1, HoldsStays DEF Confirmation, Fact
  <1>2. CASE ~Confirmed /\ Told("ORDER_CONFIRMATION")'
    BY <1>2, BuyerToldConfirmation
  <1>3. CASE ~Confirmed /\ Has("buyer", "confirmation")'
    <2>1. order'["buyer"] # None /\ "confirmation" \in order'["buyer"].parts
      BY <1>3 DEF Has
    <2>2. ~Has("buyer", "confirmation") /\ ~Told("ORDER_CONFIRMATION")
      BY <1>3 DEF Confirmed
    <2>3. DoPut("buyer") /\ "confirmation" \in Head(call["buyer"]).contract.parts
      BY <2>1, <2>2, PartMoves DEF Has
    <2>4. Head(call["buyer"]) \in ToDo("buyer") /\ Head(call["buyer"]).do = "put"
      BY <1>0, <2>3, PutStep, FirstFits
    <2> QED
      BY <1>3, <2>3, <2>4 DEF Confirmed
  <1>4. ASSUME ~Confirmed, NEW e \in ToDo("buyer")', e.do = "put", "confirmation" \in e.contract.parts
        PROVE  Holds("vendor", "confirmation")'
    <2>1. e \notin ToDo("buyer")
      BY <1>4 DEF Confirmed
    <2>2. ~(SpendFails("buyer") /\ Head(call["buyer"]).undo # None)
      BY <1>0, SpendFailsStep, FirstFits DEF Fits, OfBuyer
    <2>3. ~(Continuing /\ call["buyer"] = <<>>)
      BY <1>4, ContinuingParts, ContinuingKnows DEF Confirmed, Has
    <2>4. CASE PurchaseOnline
      <3>1. /\ order'["vendor"] # None /\ "confirmation" \in order'["vendor"].parts
        BY <1>0, <2>4, OnlineStarts, NotNone
      <3>2. ToDo("vendor")' = {}
        BY <2>4, BuysSame
      <3> QED
        BY <3>1, <3>2 DEF Holds, Shows, Marked
    <2>5. CASE PurchaseOffline
      <3>1. e = Put(New) \/ e = Asks
        BY <1>0, <1>4, <2>5, OfflineStarts DEF Asks
      <3> QED
        BY <1>4, <3>1 DEF Put, New, Asks, Send
    <2> QED
      BY <1>4, <2>1, <2>2, <2>3, <2>4, <2>5, ToDoMoves
  <1>5. Confirmed' => \/ Told("ORDER_CONFIRMATION")' \/ Has("buyer", "confirmation")'
                      \/ \E e \in ToDo("buyer")' : e.do = "put" /\ "confirmation" \in e.contract.parts
    BY DEF Confirmed
  <1> QED
    BY <1>1, <1>2, <1>3, <1>4, <1>5

LEMMA ConfirmationStep ==
  ASSUME Base, Ordering, Confirmation, [Next]_vars
  PROVE  Confirmation'
  <1> USE PartyFacts
  <1>0. Typed
    BY DEF Base
  <1>1. Confirmed' => Holds("vendor", "confirmation")'
    BY ConfirmedStep
  <1>2. ASSUME NEW e \in ToDo("vendor")', ConfirmsBy(e) PROVE Confirming'
    <2>0. call'["vendor"] # <<>>
      BY DEF ToDo, Range
    <2>1. CASE e \in ToDo("vendor")
      <3>1. Confirming
        BY <1>2, <2>1 DEF Confirmation
      <3>2. CASE call'["vendor"] = call["vendor"]
        BY <3>1, <3>2, ConfirmingSame
      <3>3. CASE EffectDone("vendor")
        BY <2>0, <3>1, <3>3, ConfirmingAdvances
      <3>4. CASE SpendFails("vendor") /\ call'["vendor"] = <<Put(Head(call["vendor"]).undo)>>
                 /\ Head(call["vendor"]).undo # None
        <4>1. e = Put(Head(call["vendor"]).undo)
          BY <1>0, <1>2, <3>4, SpendFailsStep
        <4>2. Fits("vendor", Head(call["vendor"])) /\ Head(call["vendor"]).do = "spend"
          BY <1>0, <3>4, SpendFailsStep, FirstFits
        <4>3. Head(call["vendor"]).undo.state = "PENDING"
          BY <3>4, <4>2 DEF Fits, OfVendor
        <4> QED
          BY <1>2, <4>1, <4>3 DEF ConfirmsBy, Put
      <3>5. call["vendor"] # <<>>
        BY <2>1 DEF ToDo, Range
      <3> QED
        BY <2>0, <3>2, <3>3, <3>4, <3>5, CallMoves
    <2>2. CASE SpendFails("vendor") /\ Head(call["vendor"]).undo # None /\ e = Put(Head(call["vendor"]).undo)
      <3>2. Fits("vendor", Head(call["vendor"])) /\ Head(call["vendor"]).do = "spend"
        BY <1>0, <2>2, SpendFailsStep, FirstFits
      <3>3. Head(call["vendor"]).undo.state = "PENDING"
        BY <2>2, <3>2 DEF Fits, OfVendor
      <3> QED
        BY <1>2, <2>2, <3>3 DEF ConfirmsBy, Put
    <2>3. CASE Continuing /\ call["vendor"] = <<>>
      BY <1>2, <2>3, ConfirmingStarts
    <2> QED
      BY <2>1, <2>2, <2>3, ToDoMoves
  <1>3. \A e \in ToDo("vendor")' : ConfirmsBy(e)' <=> ConfirmsBy(e)
    BY DEF ConfirmsBy
  <1> QED
    BY <1>1, <1>2, <1>3 DEF Confirmation

-----------------------------------------------------------------------------
(* An effect that a call has just been given, and the call.                 *)
Begun(p, e) ==
    \/ /\ ConfirmOfflineOrder /\ p = "vendor"
       /\ Profiled(p, "AWAITING_FULFILLMENT", "ORDER_CONFIRMATION", {"put", "send", "spend"}, {"confirmation"}, e)
    \/ RefundOrder /\ p = "vendor" /\ Profiled(p, "REFUNDED", "REFUND", {"put", "send", "repay"}, {}, e)
    \/ RejectOfflineOrder /\ p = "vendor" /\ Profiled(p, "DECLINED", "ORDER_REJECT", {"put", "send"}, {}, e)
    \/ /\ FulfillOrder /\ p = "vendor"
       /\ Profiled(p, "FULFILLED", "ORDER_FULFILLMENT", {"put", "send"}, {"fulfillment"}, e)
    \/ CompleteOrder /\ p = "buyer" /\ Profiled(p, "COMPLETED", "ORDER_COMPLETION", {"put", "send"}, {}, e)
    \/ CancelOfflineOrder /\ p = "buyer" /\ Profiled(p, "CANCELED", "ORDER_CANCEL", {"put", "send", "spend"}, {}, e)
    \/ /\ ReleaseFundsAfterTimeout /\ p = "vendor"
       /\ Profiled(p, "PAYMENT_FINALIZED", "VENDOR_FINALIZED_PAYMENT", {"put", "send", "spend"}, {}, e)
    \/ CloseDispute /\ p = "moderator" /\ Profiled(p, "none", "DISPUTE_CLOSE", {"send", "close"}, {}, e)
    \/ OpenDispute(p) /\ p \in Trader /\ Profiled(p, "DISPUTED", "DISPUTE_OPEN", {"put", "send"}, {"dispute"}, e)
    \/ ReleaseFunds(p) /\ p \in Trader /\ Profiled(p, "DECIDED", "none", {"put", "spend"}, {"acceptance"}, e)

LEMMA ContinuingBegins ==
  ASSUME Base, Continuing, NEW p \in Party, call[p] = <<>>, NEW e \in ToDo(p)'
  PROVE  Begun(p, e)
  <1>0. Typed
    BY DEF Base
  <1>1. ASSUME NEW q, NEW t, NEW u, NEW K, NEW Q, Profile(q, t, u, K, Q)
        PROVE  q = p /\ Profiled(p, t, u, K, Q, e)
    <2>1. PICK S : /\ Started(q, S)
                   /\ \A f \in S : Profiled(q, t, u, K, Q, f)
      BY <1>1 DEF Profile, Profiled
    <2>2. q = p
      <3>1. ToDo(p) = {}
        BY DEF ToDo, Range
      <3> QED
        BY <2>1, <3>1 DEF Started
    <2> QED
      BY <2>1, <2>2 DEF Started
  <1>2. \A q : \A t, u, K, Q : Profile(q, t, u, K, Q) => q = p /\ Profiled(p, t, u, K, Q, e)
    BY <1>1
  <1>3. Profiles
    BY <1>0, ContinuingProfile
  <1>4. ASSUME NEW q \in Trader, OpenDispute(q), Profile(q, "DISPUTED", "DISPUTE_OPEN", {"put", "send"}, {"dispute"})
        PROVE  Begun(p, e)
    <2>1. q = p /\ Profiled(p, "DISPUTED", "DISPUTE_OPEN", {"put", "send"}, {"dispute"}, e)
      BY <1>1, <1>4
    <2> QED
      BY <1>4, <2>1 DEF Begun
  <1>5. ASSUME NEW q \in Trader, ReleaseFunds(q), Profile(q, "DECIDED", "none", {"put", "spend"}, {"acceptance"})
        PROVE  Begun(p, e)
    <2>1. q = p /\ Profiled(p, "DECIDED", "none", {"put", "spend"}, {"acceptance"}, e)
      BY <1>1, <1>5
    <2> QED
      BY <1>5, <2>1 DEF Begun
  <1> QED
    BY <1>2, <1>3, <1>4, <1>5, ZenonT(60) DEF Profiles, Begun

LEMMA LateStays == ASSUME Base, [Next]_vars, late PROVE late'
  <1>1. \A p \in Party : Effects(p) => late'
    BY EffectKept, TypedStep, BaseKnows DEF Base, times
  <1>2. Pay => late'
    BY PayStep DEF Base, times
  <1> QED
    BY <1>1, <1>2, StepKinds, ContinuingSame, BuysSame DEF Quiet, Answered, Arrived, Informed, times

(* Who is paid from the escrow, and why.                                    *)
LEMMA EscrowMoves ==
  ASSUME Base, [Next]_vars, coin = "escrow", coin' # coin
  PROVE  \/ coin' = "buyer"
         \/ coin' = "vendor" /\ Moderated /\ Told("ORDER_COMPLETION")
         \/ \E p \in Party : /\ DoSpend(p) /\ Head(call[p]) \in ToDo(p) /\ Fits(p, Head(call[p]))
                             /\ Head(call[p]).do = "spend" /\ coin' = Head(call[p]).to
  <1>0. Typed
    BY DEF Base
  <1>1. ASSUME NEW p \in Party, Effects(p)
        PROVE  /\ DoSpend(p) /\ Head(call[p]) \in ToDo(p) /\ Fits(p, Head(call[p]))
               /\ Head(call[p]).do = "spend" /\ coin' = Head(call[p]).to
    <2>1. ~DoRepay(p)
      BY <1>0, RepayStep
    <2>2. DoSpend(p)
      BY <1>0, <1>1, <2>1, EffectFrame
    <2> QED
      BY <1>0, <2>2, SpendStep, FirstFits
  <1>2. ASSUME NEW m \in UnderWay, Arrived(m)
        PROVE  coin' = "buyer" \/ (coin' = "vendor" /\ Moderated /\ Told("ORDER_COMPLETION"))
    <2>1. Settles(m)
      BY <1>2 DEF Arrived, Accepts, Decides
    <2>2. Told(m.type)
      BY DEF Told
    <2> QED
      BY <2>1, <2>2 DEF Settles
  <1>3. Pay => FALSE
    BY <1>0, PayStep
  <1> QED
    BY <1>1, <1>2, <1>3, StepKinds, ContinuingSame, BuysSame DEF Quiet, Informed

-----------------------------------------------------------------------------
(* Who is paid from a moderated escrow.                                     *)

Agreed == Holds("buyer", "fulfillment") \/ \E q \in Trader : Holds(q, "award")

Completes ==
    \/ Told("ORDER_COMPLETION")
    \/ \E e \in ToDo("buyer") : e.do = "send" /\ e.msg.type = "ORDER_COMPLETION"

Agreement ==
    Moderated =>
        /\ coin = "vendor" => late \/ Agreed
        /\ \A p \in Party : \A e \in ToDo(p) : e.do = "spend" /\ e.to = "vendor" => late \/ Agreed
        /\ Completes => Holds("buyer", "fulfillment")

LEMMA AgreedStays ==
  ASSUME Base, Ordering, [Next]_vars, Agreed
  PROVE  Agreed'
  BY HoldsStays, PartyFacts DEF Agreed, Fact

LEMMA AgreementInit == Init => Agreement
  <1> SUFFICES ASSUME Init PROVE Agreement
    OBVIOUS
  <1>1. \A p \in Party : ToDo(p) = {}
    BY DEF Init, ToDo, Range
  <1>2. UnderWay = {} /\ coin = "unpaid"
    BY DEF Init, UnderWay, Carried, Kept, Range
  <1> QED
    BY <1>1, <1>2, PartyFacts DEF Agreement, Completes, Told

LEMMA BuysAgreed ==
  ASSUME Base, [Next]_vars, method = None
  PROVE  /\ coin' = "unpaid" /\ ~Completes'
         /\ \A p \in Party : \A e \in ToDo(p)' : e.do # "spend"
  <1> USE PartyFacts
  <1>0. Typed
    BY DEF Base
  <1>1. coin = "unpaid" /\ UnderWay = {} /\ \A p \in Party : call[p] = <<>>
    BY DEF Base, Unstarted
  <1>2. coin' = "unpaid"
    BY <1>1, CoinMoves, Idle
  <1>3. ~Told("ORDER_COMPLETION")'
    <2>1. ~Told("ORDER_COMPLETION")
      BY <1>1 DEF Told
    <2>2. \A p \in Party : ~DoSend(p)
      BY <1>1 DEF DoSend, Doing
    <2> QED
      BY <2>1, <2>2, ToldMoves
  <1>4. ASSUME NEW p \in Party, NEW e \in ToDo(p)'
        PROVE  e.do # "spend" /\ (e.do = "send" => e.msg.type # "ORDER_COMPLETION")
    <2>1. e \notin ToDo(p) /\ ~SpendFails(p)
      BY <1>1 DEF ToDo, Range, SpendFails, Doing
    <2>2. CASE PurchaseOnline /\ p = "buyer"
      <3>1. \E n : e = Put(n)
        BY <1>0, <2>2, OnlineStarts
      <3> QED
        BY <3>1 DEF Put
    <2>3. CASE PurchaseOffline /\ p = "buyer"
      <3>1. e = Put(New) \/ e = Asks
        BY <1>0, <2>3, OfflineStarts DEF Asks
      <3> QED
        BY <3>1 DEF Put, Asks, Send, Msg
    <2> QED
      BY <2>1, <2>2, <2>3, ToDoMoves, Idle
  <1> QED
    BY <1>2, <1>3, <1>4 DEF Completes

LEMMA ReleaseAwards ==
  ASSUME Base, NEW p \in Trader, ReleaseFunds(p)
  PROVE  Holds(p, "award")'
  <1>0. Typed
    BY DEF Base
  <1>1. PICK q, n : /\ n.resolution = order[p].resolution
                    /\ order[p].resolution # None /\ order[p] # None
                    /\ Started(p, {Spend(q, None), Put(n)})
    BY <1>0, ReleaseStarts
  <1>2. ToDo(p)' = {Spend(q, None), Put(n)} /\ order' = order
    BY <1>1 DEF Started
  <1>3. \A e \in ToDo(p)' : Keeps(e, "award")
    BY <1>1, <1>2 DEF Keeps, Marked, Spend, Put
  <1>4. \A e \in ToDo(p)' : Keeps(e, "award")' <=> Keeps(e, "award")
    BY DEF Keeps, Marked
  <1> QED
    BY <1>1, <1>2, <1>3, <1>4 DEF Holds, Shows, Marked

LEMMA CompleteHolds ==
  ASSUME Base, CompleteOrder, Moderated
  PROVE  Holds("buyer", "fulfillment")'
  <1> USE PartyFacts
  <1>0. Typed
    BY DEF Base
  <1>1. Has("buyer", "fulfillment")
    BY DEF CompleteOrder, MayComplete
  <1>2. PICK n, m : /\ n.parts = order["buyer"].parts
                    /\ m.do = "send"
                    /\ Started("buyer", {m, Put(n)})
    <2>1. Send("vendor", Msg("ORDER_COMPLETION", "buyer")).do = "send"
      BY DEF Send
    <2> QED
      BY <1>0, <2>1, CompleteStarts
  <1>3. ToDo("buyer")' = {m, Put(n)} /\ order' = order
    BY <1>2 DEF Started
  <1>4. \A e \in ToDo("buyer")' : Keeps(e, "fulfillment")
    BY <1>1, <1>2, <1>3 DEF Keeps, Marked, Put, Has
  <1>5. \A e \in ToDo("buyer")' : Keeps(e, "fulfillment")' <=> Keeps(e, "fulfillment")
    BY DEF Keeps, Marked
  <1> QED
    BY <1>1, <1>3, <1>4, <1>5 DEF Holds, Shows, Marked, Has

LEMMA CompletesStep ==
  ASSUME Base, Ordering, Agreement, [Next]_vars, Moderated, method # None, Completes'
  PROVE  Holds("buyer", "fulfillment")'
  <1> USE PartyFacts
  <1>0. Typed
    BY DEF Base
  <1>1. CASE Completes
    BY <1>1, HoldsStays DEF Agreement
  <1>2. CASE ~Completes /\ Told("ORDER_COMPLETION")'
    <2>1. PICK p \in Party : /\ Head(call[p]) \in ToDo(p) /\ Fits(p, Head(call[p]))
                             /\ Head(call[p]).do = "send" /\ Head(call[p]).msg.type = "ORDER_COMPLETION"
      BY <1>2, ToldMoves DEF Completes
    <2>2. p = "buyer"
      BY <2>1 DEF Fits, OfVendor, OfModerator, Party, Trader
    <2> QED
      BY <1>2, <2>1, <2>2 DEF Completes
  <1>3. ASSUME ~Completes, NEW e \in ToDo("buyer")', e.do = "send", e.msg.type = "ORDER_COMPLETION"
        PROVE  Holds("buyer", "fulfillment")'
    <2>1. e \notin ToDo("buyer")
      BY <1>3 DEF Completes
    <2>2. \A u : e # Put(u)
      BY <1>3 DEF Put
    <2>3. ~PurchaseOnline /\ ~PurchaseOffline
      BY BuysSame
    <2>4. Continuing /\ call["buyer"] = <<>>
      BY <2>1, <2>2, <2>3, ToDoMoves
    <2>5. Begun("buyer", e)
      BY <2>4, ContinuingBegins
    <2>6. CompleteOrder
      BY <1>3, <2>5 DEF Begun, Profiled
    <2> QED
      BY <2>6, CompleteHolds
  <1>4. Completes' => \/ Told("ORDER_COMPLETION")'
                      \/ \E e \in ToDo("buyer")' : e.do = "send" /\ e.msg.type = "ORDER_COMPLETION"
    BY DEF Completes
  <1> QED
    BY <1>1, <1>2, <1>3, <1>4

LEMMA SpendsAgreed ==
  ASSUME Base, Ordering, Agreement, [Next]_vars, Moderated, method # None,
         NEW p \in Party, NEW e \in ToDo(p)', e.do = "spend", e.to = "vendor"
  PROVE  late' \/ Agreed'
  <1> USE PartyFacts
  <1>0. Typed
    BY DEF Base
  <1>1. CASE e \in ToDo(p)
    BY <1>1, AgreedStays, LateStays DEF Agreement
  <1>2. CASE e \notin ToDo(p)
    <2>1. \A u : e # Put(u)
      BY DEF Put
    <2>2. ~PurchaseOnline /\ ~PurchaseOffline
      BY BuysSame
    <2>3. Continuing /\ call[p] = <<>>
      BY <1>2, <2>1, <2>2, ToDoMoves
    <2>4. Begun(p, e)
      BY <2>3, ContinuingBegins
    <2>5. CASE ConfirmOfflineOrder /\ p = "vendor"
      <3>1. \E n : ToDo("vendor")' = {Put(n), Confirms}
        BY <1>0, <2>5, ConfirmStarts DEF Started
      <3> QED
        BY <2>5, <3>1 DEF Put, Confirms, Send
    <2>6. CASE CancelOfflineOrder
      BY <1>0, <2>6, CancelStarts
    <2>7. CASE ReleaseFundsAfterTimeout
      BY <1>0, <2>7, TimeoutStarts, LateStays
    <2>8. CASE ReleaseFunds(p) /\ p \in Trader
      BY <2>8, ReleaseAwards DEF Agreed
    <2>9. \/ ConfirmOfflineOrder /\ p = "vendor"
          \/ CancelOfflineOrder \/ ReleaseFundsAfterTimeout
          \/ ReleaseFunds(p) /\ p \in Trader
      BY <2>4 DEF Begun, Profiled
    <2> QED
      BY <2>5, <2>6, <2>7, <2>8, <2>9
  <1> QED
    BY <1>1, <1>2

LEMMA AgreementStep ==
  ASSUME Base, Ordering, Agreement, [Next]_vars
  PROVE  Agreement'
  <1> USE PartyFacts
  <1>0. Typed
    BY DEF Base
  <1>1. CASE method = None
    <2>1. /\ coin' # "vendor" /\ ~Completes'
          /\ \A p \in Party : \A e \in ToDo(p)' : e.do # "spend"
      BY <1>1, BuysAgreed
    <2> QED
      BY <2>1 DEF Agreement
  <1>2. CASE method # None
    <2> SUFFICES ASSUME Moderated' PROVE Agreement'
      BY DEF Agreement
    <2>1. Moderated
      BY <1>2, MethodStays DEF Moderated
    <2>2. ASSUME coin' = "vendor" PROVE late' \/ Agreed'
      <3>1. CASE coin = "vendor"
        BY <2>1, <3>1, AgreedStays, LateStays DEF Agreement
      <3>2. CASE coin = "escrow"
        <4>1. CASE Told("ORDER_COMPLETION")
          BY <2>1, <4>1, HoldsStays DEF Agreement, Completes, Agreed
        <4>2. ASSUME NEW p \in Party, Head(call[p]) \in ToDo(p), Head(call[p]).do = "spend",
                     coin' = Head(call[p]).to
              PROVE  late' \/ Agreed'
          BY <2>1, <2>2, <4>2, AgreedStays, LateStays DEF Agreement
        <4> QED
          BY <2>2, <3>2, <4>1, <4>2, EscrowMoves
      <3>3. CASE Pay
        BY <1>0, <2>1, <2>2, <3>3, PayStep DEF Moderated
      <3> QED
        BY <2>2, <3>1, <3>2, <3>3, CoinMoves
    <2> QED
      BY <2>1, <2>2, <1>2, CompletesStep, SpendsAgreed DEF Agreement
  <1> QED
    BY <1>1, <1>2

LEMMA BegunKnows ==
  ASSUME Typed, NEW p \in Trader, NEW e, Begun(p, e)
  PROVE  order[p] # None
  <1>1. CASE ConfirmOfflineOrder /\ p = "vendor"
    BY <1>1, ConfirmStarts
  <1>2. CASE RefundOrder /\ p = "vendor"
    BY <1>2, RefundStarts
  <1>3. CASE RejectOfflineOrder /\ p = "vendor"
    BY <1>3, RejectStarts
  <1>4. CASE FulfillOrder /\ p = "vendor"
    BY <1>4, FulfillStarts
  <1>5. CASE CompleteOrder /\ p = "buyer"
    BY <1>5, CompleteStarts
  <1>6. CASE CancelOfflineOrder /\ p = "buyer"
    BY <1>6, CancelStarts
  <1>7. CASE ReleaseFundsAfterTimeout /\ p = "vendor"
    BY <1>7, TimeoutStarts
  <1>8. CASE OpenDispute(p)
    BY <1>8, DisputeStarts
  <1>9. CASE ReleaseFunds(p)
    BY <1>9, ReleaseStarts
  <1> QED
    BY <1>1, <1>2, <1>3, <1>4, <1>5, <1>6, <1>7, <1>8, <1>9, PartyFacts DEF Begun

-----------------------------------------------------------------------------
(* An award that was accepted is paid.                                      *)

PaidOrPaying(p, q) == coin = q \/ (call[p] # <<>> /\ Head(call[p]) = Spend(q, None))

Decided(c, q) == c.state = "DECIDED" => q = c.resolution.to

AcceptsIn(e) == e.do = "put" /\ ("acceptance" \in e.contract.parts \/ e.contract.state = "DECIDED")

Acceptance ==
    /\ \A p \in Trader : Has(p, "acceptance") => coin \in Trader /\ Decided(order[p], coin)
    /\ \A p \in Trader : \A e \in ToDo(p) :
           AcceptsIn(e) => \E q \in Trader : PaidOrPaying(p, q) /\ Decided(e.contract, q)

LEMMA AcceptanceInit == Init => Acceptance
  <1> SUFFICES ASSUME Init PROVE Acceptance
    OBVIOUS
  <1>1. \A p \in Trader : ToDo(p) = {} /\ order[p] = None
    BY PartyFacts DEF Init, ToDo, Range
  <1> QED
    BY <1>1 DEF Acceptance, Has

LEMMA DecidedMoves ==
  ASSUME Base, [Next]_vars, NEW p \in Trader, order'[p] # None, order'[p].state = "DECIDED"
  PROVE  \/ DoPut(p) /\ order'[p] = Head(call[p]).contract
         \/ order[p] # None /\ order[p].state = "DECIDED" /\ order'[p].resolution = order[p].resolution
         \/ "acceptance" \notin order'[p].parts
  <1> USE PartyFacts
  <1>0. Typed
    BY DEF Base
  <1>1. ASSUME NEW m \in UnderWay, Arrived(m), order'[p] # order[p]
        PROVE  "acceptance" \notin order'[p].parts
    <2>1. ~(Accepts /\ m.type = "ORDER")
      BY <1>1 DEF Accepts, Sale, Trader
    <2>2. \A q \in Trader : \A s, S : Saved(q, s, S) => s = "DECIDED"
      BY <1>1 DEF Saved
    <2>3. ~Settles(m)
      BY <2>2, SettlesCases
    <2>4. Decides(m)
      BY <1>1, <2>1, <2>3 DEF Arrived
    <2> QED
      BY <1>1, <2>4 DEF Decides
  <1>2. ASSUME Informed(p)
        PROVE  order[p] # None /\ order[p].state = "DECIDED" /\ order'[p].resolution = order[p].resolution
    <2>1. \A s, S : Saved(p, s, S) => /\ s = "DECIDED" /\ order[p] # None
                                      /\ order'[p].resolution = order[p].resolution
      BY DEF Saved
    <2>2. Saved(p, State(p), {})
      BY <1>2, <2>1 DEF Informed, Funds, Accepted
    <2> QED
      BY <2>1, <2>2 DEF State
  <1>3. PurchaseOnline => p # "vendor"
    BY <1>0, OnlineStarts
  <1> QED
    BY <1>1, <1>2, <1>3, RecordMoves

LEMMA ModeratedPays ==
  ASSUME Base, [Next]_vars, Moderated, coin \in Trader
  PROVE  coin' = coin
  BY CoinMoves DEF Trader

LEMMA AcceptedRecords ==
  ASSUME Base, Acceptance, [Next]_vars, NEW p \in Trader, order'[p] # None,
         "acceptance" \in order'[p].parts
  PROVE  coin' \in Trader /\ Decided(order'[p], coin')
  <1> USE PartyFacts
  <1>0. Typed
    BY DEF Base
  <1>1. CASE DoPut(p)
    <2> DEFINE h == Head(call[p])
    <2>1. h \in ToDo(p) /\ Fits(p, h) /\ h.do = "put" /\ order'[p] = h.contract /\ coin' = coin
      BY <1>0, <1>1, FirstFits, PutStep
    <2>2. PICK q \in Trader : PaidOrPaying(p, q) /\ Decided(h.contract, q)
      BY <2>1 DEF Acceptance, AcceptsIn
    <2>3. coin = q
      BY <2>1, <2>2 DEF PaidOrPaying, Spend
    <2> QED
      BY <2>1, <2>2, <2>3
  <1>2. CASE ~DoPut(p) /\ Has(p, "acceptance")
    <2>1. Moderated
      BY <1>2 DEF Base, Unmoderated, Plain, Has
    <2>2. coin \in Trader /\ Decided(order[p], coin) /\ coin' = coin
      BY <1>2, <2>1, ModeratedPays DEF Acceptance
    <2>3. order'[p].state = "DECIDED" => order[p].state = "DECIDED" /\ order'[p].resolution = order[p].resolution
      BY <1>2, DecidedMoves
    <2> QED
      BY <2>2, <2>3 DEF Decided
  <1>3. CASE ~DoPut(p) /\ ~Has(p, "acceptance")
    <2>1. coin \in Trader /\ Informed(p)
      BY <1>3, PartMoves DEF Has
    <2>2. coin' = coin
      BY <2>1 DEF Informed
    <2>3. \A s, S : Saved(p, s, S) => /\ order'[p].state = s /\ "acceptance" \in S /\ s = order'[p].state
      BY <1>3 DEF Saved, Has
    <2>4. order'[p].state # "DECIDED"
      BY <2>1, <2>3 DEF Informed, Funds, Accepted
    <2> QED
      BY <2>1, <2>2, <2>4 DEF Decided
  <1> QED
    BY <1>1, <1>2, <1>3

LEMMA PayingStays ==
  ASSUME Base, [Next]_vars, Moderated, NEW p \in Trader, call[p] # <<>>, call'[p] # <<>>,
         NEW q \in Trader, PaidOrPaying(p, q)
  PROVE  coin' = q \/ (call'[p] # <<>> /\ Head(call'[p]) = Spend(q, None))
  <1> USE PartyFacts
  <1>0. Typed
    BY DEF Base
  <1>1. CASE coin = q
    BY <1>1, ModeratedPays
  <1>2. CASE Head(call[p]) = Spend(q, None)
    <2>1. /\ Head(call[p]).do = "spend" /\ Head(call[p]).to = q /\ Head(call[p]).undo = None
      BY <1>2 DEF Spend
    <2>2. EffectDone(p) => coin' = q
      <3>1. EffectDone(p) => DoSpend(p)
        BY <2>1 DEF EffectDone, DoPut, DoSend, DoRepay, MarkAsClosed, Doing
      <3> QED
        BY <1>0, <2>1, <3>1, SpendStep
    <2> QED
      BY <1>2, <2>1, <2>2, CallMoves
  <1> QED
    BY <1>1, <1>2 DEF PaidOrPaying

LEMMA AcceptedPuts ==
  ASSUME Base, Acceptance, [Next]_vars, NEW p \in Trader, NEW e \in ToDo(p)', AcceptsIn(e)
  PROVE  \E q \in Trader : /\ coin' = q \/ (call'[p] # <<>> /\ Head(call'[p]) = Spend(q, None))
                           /\ Decided(e.contract, q)
  <1> USE PartyFacts
  <1>0. Typed
    BY DEF Base
  <1>1. CASE e \in ToDo(p)
    <2>1. PICK q \in Trader : PaidOrPaying(p, q) /\ Decided(e.contract, q)
      BY <1>1 DEF Acceptance
    <2>2. call[p] # <<>> /\ call'[p] # <<>>
      BY <1>1 DEF ToDo, Range
    <2>3. Moderated
      BY <1>1 DEF Base, Fitting, Fits, Plain, AcceptsIn
    <2> QED
      BY <2>1, <2>2, <2>3, PayingStays
  <1>2. ASSUME SpendFails(p), Head(call[p]).undo # None, e = Put(Head(call[p]).undo)
        PROVE  FALSE
    <2>1. Head(call[p]).do = "spend" /\ Fits(p, Head(call[p]))
      BY <1>0, <1>2, SpendFailsStep, FirstFits
    <2>2. Plain(Head(call[p]).undo)
      BY <1>2, <2>1 DEF Fits
    <2> QED
      BY <1>2, <2>2 DEF Plain, AcceptsIn, Put
  <1>3. CASE Continuing /\ call[p] = <<>>
    <2>1. Begun(p, e)
      BY <1>3, ContinuingBegins
    <2>2. order[p] # None
      BY <1>0, <2>1, BegunKnows
    <2>3. CASE ReleaseFunds(p)
      <3> DEFINE c == order[p]
      <3>1. PICK n : /\ c.resolution \in Resolution /\ n.resolution = c.resolution
                     /\ call'[p] = <<Spend(c.resolution.to, None), Put(n)>>
                     /\ ToDo(p)' = {Spend(c.resolution.to, None), Put(n)}
        BY <1>0, <2>3, ReleaseStarts DEF Started
      <3>2. e = Put(n)
        BY <3>1 DEF AcceptsIn, Spend
      <3>3. e.contract.resolution = c.resolution
        BY <3>1, <3>2 DEF Put
      <3>4. c.resolution.to \in Trader
        BY <3>1 DEF Resolution
      <3>5. call'[p] # <<>> /\ Head(call'[p]) = Spend(c.resolution.to, None)
        BY <3>1
      <3> QED
        BY <3>3, <3>4, <3>5 DEF Decided
    <2>4. CASE ~ReleaseFunds(p)
      <3>1. "acceptance" \in order[p].parts /\ e.contract.state # "DECIDED"
        BY <2>1, <2>4 DEF Begun, Profiled, AcceptsIn
      <3>2. coin \in Trader /\ coin' = coin
        BY <2>2, <3>1, <1>3, ContinuingSame DEF Acceptance, Has
      <3> QED
        BY <3>1, <3>2 DEF Decided
    <2> QED
      BY <2>3, <2>4
  <1>4. CASE PurchaseOnline /\ p = "buyer"
    <2>1. \E n : n.state = "AWAITING_PAYMENT" /\ n.parts = {"confirmation"} /\ ToDo("buyer")' = {Put(n)}
      BY <1>0, <1>4, OnlineStarts
    <2> QED
      BY <1>4, <2>1 DEF AcceptsIn, Put
  <1>5. CASE PurchaseOffline /\ p = "buyer"
    <2>1. e = Put(New) \/ e = Asks
      BY <1>0, <1>5, OfflineStarts DEF Asks
    <2> QED
      BY <2>1 DEF AcceptsIn, Put, New, Asks, Send
  <1> QED
    BY <1>1, <1>2, <1>3, <1>4, <1>5, ToDoMoves

LEMMA AcceptanceStep ==
  ASSUME Base, Acceptance, [Next]_vars
  PROVE  Acceptance'
  <1>1. \A p \in Trader : Has(p, "acceptance")' => coin' \in Trader /\ Decided(order'[p], coin')
    BY AcceptedRecords DEF Has
  <1>2. ASSUME NEW p \in Trader, NEW e \in ToDo(p)', AcceptsIn(e)
        PROVE  \E q \in Trader : PaidOrPaying(p, q)' /\ Decided(e.contract, q)
    BY <1>2, AcceptedPuts DEF PaidOrPaying
  <1>3. \A p \in Trader : \A e \in ToDo(p)' : AcceptsIn(e)' <=> AcceptsIn(e)
    BY DEF AcceptsIn
  <1>4. \A p \in Trader : Decided(order[p], coin)' <=> Decided(order'[p], coin')
    BY DEF Decided
  <1>5. \A p \in Trader : \A e \in ToDo(p)' : \A q : Decided(e.contract, q)' <=> Decided(e.contract, q)
    BY DEF Decided
  <1> QED
    BY <1>1, <1>2, <1>3, <1>4, <1>5 DEF Acceptance

-----------------------------------------------------------------------------
(* The price stays with the vendor.                                         *)

(* No node has restarted, no moderator is named, and nothing was lost to an *)
(* ORDER that came again.                                                   *)
Steady == crashes = 0 /\ (Moderated => method = None) /\ lost = {}

(* States of the vendor's record from which no refund starts.               *)
LaterState(s) ==
    s \notin {"none", "PENDING", "AWAITING_PAYMENT", "AWAITING_FULFILLMENT", "PROCESSING_ERROR"}

Sold(e) ==
    /\ e.do # "repay"
    /\ e.do = "put" => LaterState(e.contract.state)
    /\ e.do = "spend" => e.undo = None

(* An order that is not moderated is then over for its vendor.              *)
Settled ==
    /\ coin = "vendor" /\ method # "ADDRESS_REQUEST"
    /\ ~Moderated => LaterState(State("vendor")) /\ \A e \in ToDo("vendor") : Sold(e)

(* A price that is paid to an address is never in the escrow.               *)
AtAddress == method = "ADDRESS_REQUEST" => coin # "escrow"

LEMMA AddressInit == Init => AtAddress
  BY DEF Init, AtAddress

LEMMA AtAddressStep ==
  ASSUME Base, AtAddress, [Next]_vars
  PROVE  AtAddress'
  <1> SUFFICES ASSUME method' = "ADDRESS_REQUEST" PROVE coin' # "escrow"
    BY DEF AtAddress
  <1>1. CASE PurchaseOnline \/ PurchaseOffline
    BY <1>1, BuysSame
  <1>2. CASE method' = method
    BY <1>2, CoinMoves DEF AtAddress, Trader
  <1> QED
    BY <1>1, <1>2, MethodMoves

(* The same, or as good as that.                                            *)
Settling ==
    /\ coin = "vendor"
    /\ \A e \in ToDo("vendor") : Sold(e)
    /\ \/ LaterState(State("vendor"))
       \/ /\ \E e \in ToDo("vendor") : e.do = "put"
          /\ \A e \in ToDo("vendor") : e.do # "spend"

LEMMA VendorLater ==
  ASSUME Base, Ordering, [Next]_vars, ~Moderated, lost' = {}, LaterState(State("vendor")),
         DoPut("vendor") => LaterState(Head(call["vendor"]).contract.state)
  PROVE  LaterState(State("vendor")')
  <1> USE PartyFacts
  <1>0. Typed
    BY DEF Base
  <1>1. order["vendor"] # None
    BY DEF State, LaterState
  <1>2. ~PurchaseOnline
    <2>1. PurchaseOnline => order["vendor"] = None
      BY BuysSame
    <2> QED
      BY <1>1, <2>1
  <1>4. order'["vendor"] = order["vendor"] => State("vendor")' = State("vendor")
    BY DEF State
  <1>5. ASSUME DoPut("vendor") PROVE LaterState(State("vendor")')
    <2>1. order'["vendor"] = Head(call["vendor"]).contract /\ Head(call["vendor"]).contract # None
      BY <1>0, <1>5, PutStep, NotNone
    <2> QED
      BY <1>5, <2>1 DEF State
  <1>6. ASSUME NEW m \in UnderWay, Arrived(m) PROVE LaterState(State("vendor")')
    BY <1>1, <1>4, <1>6, SaleStays DEF LaterState
  <1>7. ASSUME Informed("vendor") PROVE LaterState(State("vendor")')
    BY <1>7, InformedGrows DEF LaterState
  <1> QED
    BY <1>2, <1>4, <1>5, <1>6, <1>7, RecordMoves

LEMMA SoldStays ==
  ASSUME Base, [Next]_vars, \A e \in ToDo("vendor") : Sold(e),
         call["vendor"] # <<>> \/ LaterState(State("vendor")),
         NEW e \in ToDo("vendor")'
  PROVE  Sold(e)
  <1> USE PartyFacts
  <1>0. Typed
    BY DEF Base
  <1>1. ~(SpendFails("vendor") /\ Head(call["vendor"]).undo # None)
    BY <1>0, SpendFailsStep, FirstFits DEF Sold
  <1>2. CASE Continuing /\ call["vendor"] = <<>>
    <2>1. Begun("vendor", e) /\ LaterState(State("vendor"))
      BY <1>2, ContinuingBegins
    <2>2. From(order["vendor"], e) /\ e.do # "repay" /\ (e.do = "put" => LaterState(e.contract.state))
      BY <2>1 DEF Begun, Profiled, LaterState, ConfirmOfflineOrder, MayConfirm, RefundOrder, MayRefund,
                  RejectOfflineOrder, FulfillOrder, MayFulfill, Trader
    <2>3. Fits("vendor", e)'
      BY BaseStep DEF Base, Fitting
    <2>4. ASSUME e.do = "spend", e.undo # None PROVE FALSE
      <3>1. e.undo.state = "PENDING"
        BY <2>3, <2>4 DEF Fits, OfVendor
      <3>2. e.undo = order["vendor"]
        BY <2>2, <2>4 DEF From
      <3> QED
        BY <2>1, <2>4, <3>1, <3>2 DEF State, LaterState
    <2> QED
      BY <2>2, <2>4 DEF Sold
  <1> QED
    BY <1>1, <1>2, ToDoMoves

LEMMA VendorKeepsCoin ==
  ASSUME Base, [Next]_vars, coin = "vendor",
         call["vendor"] # <<>> => Head(call["vendor"]).do # "repay"
  PROVE  coin' = "vendor"
  <1>1. ~DoRepay("vendor")
    BY PartyFacts, RepayStep DEF Base
  <1> QED
    BY <1>1, CoinMoves

LEMMA SoldKeepsCoin ==
  ASSUME Base, [Next]_vars, coin = "vendor", \A e \in ToDo("vendor") : Sold(e)
  PROVE  coin' = "vendor"
  BY VendorKeepsCoin, FirstFits, PartyFacts DEF Sold

LEMMA LaterStays ==
  ASSUME Base, Ordering, [Next]_vars, ~Moderated, lost' = {}, coin = "vendor",
         LaterState(State("vendor")), \A e \in ToDo("vendor") : Sold(e)
  PROVE  /\ coin' = "vendor" /\ LaterState(State("vendor"))'
         /\ \A e \in ToDo("vendor")' : Sold(e)'
  <1> USE PartyFacts
  <1>1. coin' = "vendor"
    BY SoldKeepsCoin
  <1>2. \A e \in ToDo("vendor")' : Sold(e)
    BY SoldStays
  <1>3. DoPut("vendor") => LaterState(Head(call["vendor"]).contract.state)
    BY FirstFits, PutStep DEF Base, Sold
  <1>4. LaterState(State("vendor")')
    BY <1>3, VendorLater
  <1>5. \A e \in ToDo("vendor")' : Sold(e)' <=> Sold(e)
    BY DEF Sold, LaterState
  <1>6. LaterState(State("vendor"))' <=> LaterState(State("vendor")')
    BY DEF LaterState
  <1> QED
    BY <1>1, <1>2, <1>4, <1>5, <1>6

LEMMA SettledStays ==
  ASSUME Base, Ordering, [Next]_vars, Settled
  PROVE  Settled'
  <1>1. coin = "vendor" /\ method # None /\ method \in Method
    BY DEF Settled, Base, Unstarted, Typed
  <1>2. method' = method
    BY <1>1, MethodStays
  <1>3. CASE Moderated
    <2>1. coin' = "vendor"
      BY <1>1, <1>3, ModeratedPays DEF Trader
    <2> QED
      BY <1>2, <1>3, <2>1 DEF Settled, Moderated
  <1>4. CASE ~Moderated
    <2>1. method = "DIRECT"
      BY <1>1, <1>4, OrderAssumption DEF Settled, Moderated
    <2>2. lost' = {}
      BY <1>2, <2>1, OrderingStep DEF Ordering, Single
    <2> QED
      BY <1>2, <1>4, <2>2, LaterStays DEF Settled
  <1> QED
    BY <1>3, <1>4

LEMMA SettlingStays ==
  ASSUME Base, Ordering, [Next]_vars, Settling, Steady, Steady'
  PROVE  Settling'
  <1> USE PartyFacts
  <1>0. Typed /\ crashes' = 0
    BY DEF Base, Steady
  <1>1. CASE LaterState(State("vendor"))
    <2>1. ~Moderated /\ lost' = {}
      BY DEF Settling, Steady, Base, Unstarted
    <2> QED
      BY <1>1, <2>1, LaterStays DEF Settling
  <1>2. ASSUME NEW e \in ToDo("vendor"), e.do = "put", \A f \in ToDo("vendor") : f.do # "spend"
        PROVE  Settling'
    <2>1. call["vendor"] # <<>>
      BY DEF ToDo, Range
    <2>2. coin' = "vendor"
      BY SoldKeepsCoin DEF Settling
    <2>3. \A f \in ToDo("vendor")' : Sold(f)
      BY <2>1, SoldStays DEF Settling
    <2>4. ~SpendFails("vendor")
      BY <1>0, <1>2, SpendFailsStep, FirstFits
    <2>5. CASE call'["vendor"] = call["vendor"]
      <3>1. ToDo("vendor")' = ToDo("vendor")
        BY <2>5 DEF ToDo
      <3>2. /\ \E f \in ToDo("vendor")' : f.do = "put"
            /\ \A f \in ToDo("vendor")' : f.do # "spend"
        BY <1>2, <3>1
      <3> QED
        BY <2>2, <2>3, <3>2 DEF Settling, Sold, LaterState
    <2>6. CASE EffectDone("vendor")
      <3>1. ToDo("vendor") = {Head(call["vendor"])} \cup ToDo("vendor")' /\ ToDo("vendor")' \subseteq ToDo("vendor")
        BY <1>0, <2>6, DoneToDo
      <3>2. CASE e \in ToDo("vendor")'
        <4>1. /\ \E f \in ToDo("vendor")' : f.do = "put"
              /\ \A f \in ToDo("vendor")' : f.do # "spend"
          BY <1>2, <3>1, <3>2
        <4> QED
          BY <2>2, <2>3, <4>1 DEF Settling, Sold, LaterState
      <3>3. CASE e = Head(call["vendor"])
        <4>1. DoPut("vendor")
          BY <1>2, <2>6, <3>3 DEF EffectDone, DoPut, DoSend, DoSpend, DoRepay, MarkAsClosed, Doing
        <4>2. order'["vendor"] = e.contract /\ e.contract # None
          BY <1>0, <3>3, <4>1, PutStep, NotNone
        <4>3. LaterState(e.contract.state)
          BY <1>2 DEF Settling, Sold
        <4>4. LaterState(State("vendor"))'
          BY <4>2, <4>3 DEF LaterState, State
        <4> QED
          BY <2>2, <2>3, <4>4 DEF Settling, Sold, LaterState
      <3> QED
        BY <3>1, <3>2, <3>3
    <2> QED
      BY <1>0, <2>1, <2>4, <2>5, <2>6, CallMoves
  <1> QED
    BY <1>1, <1>2 DEF Settling

-----------------------------------------------------------------------------
(* A finalized payment.                                                     *)

(* The rest of a call that finalizes the payment.                           *)
Finalizing ==
    \/ \E c \in SoundContract :
           /\ c.state = "PAYMENT_FINALIZED"
           /\ call["vendor"] = <<Spend("vendor", None), Put(c), Finalizes>>
    \/ /\ coin = "vendor" /\ method # "ADDRESS_REQUEST"
       /\ \E c \in SoundContract :
              c.state = "PAYMENT_FINALIZED" /\ call["vendor"] = <<Put(c), Finalizes>>
    \/ call["vendor"] = <<Finalizes>> /\ Settled

FinalizesBy(e) ==
    \/ e.do = "put" /\ e.contract.state = "PAYMENT_FINALIZED"
    \/ e.do = "send" /\ e.msg.type = "VENDOR_FINALIZED_PAYMENT"

Finalized ==
    /\ Told("VENDOR_FINALIZED_PAYMENT") => Settled
    /\ \A p \in Trader : State(p) = "PAYMENT_FINALIZED" => Settled
    /\ \A e \in ToDo("vendor") : FinalizesBy(e) => Finalizing

LEMMA FinalizedInit == Init => Finalized
  <1> SUFFICES ASSUME Init PROVE Finalized
    OBVIOUS
  <1>1. ToDo("vendor") = {}
    BY PartyFacts DEF Init, ToDo, Range
  <1>2. UnderWay = {}
    BY DEF Init, UnderWay, Carried, Kept, Range
  <1>3. \A p \in Trader : State(p) = "none"
    BY DEF Init, State
  <1> QED
    BY <1>1, <1>2, <1>3 DEF Finalized, Told

LEMMA FinalizesSold == Sold(Finalizes)
  BY DEF Sold, Finalizes, Send

(* Storing the finalized record settles the order.                          *)
LEMMA FinalizingPuts ==
  ASSUME Base, [Next]_vars, Finalizing, DoPut("vendor")
  PROVE  Settled' /\ call'["vendor"] = <<Finalizes>>
  <1> USE PartyFacts
  <1>0. Typed
    BY DEF Base
  <1>1. /\ call["vendor"] # <<>> /\ Head(call["vendor"]).do = "put"
        /\ coin' = coin /\ method' = method
        /\ order'["vendor"] = Head(call["vendor"]).contract
        /\ call'["vendor"] = Tail(call["vendor"])
    BY <1>0, PutStep, DoneToDo DEF EffectDone
  <1>2. \A a, b, c, d : /\ Head(<<Spend(a, d), b, c>>).do # "put" /\ Head(<<Finalizes>>).do # "put"
    BY DEF Spend, Finalizes, Send
  <1>3. PICK c \in SoundContract : c.state = "PAYMENT_FINALIZED" /\ call["vendor"] = <<Put(c), Finalizes>>
    BY <1>1, <1>2 DEF Finalizing
  <1>4. coin = "vendor" /\ method # "ADDRESS_REQUEST"
    BY <1>1, <1>2 DEF Finalizing
  <1>5. call'["vendor"] = <<Finalizes>> /\ Head(call["vendor"]) = Put(c)
    BY <1>1, <1>3
  <1>6. order'["vendor"] = c /\ c # None
    BY <1>1, <1>5, NotNone DEF Put
  <1>7. LaterState(State("vendor"))'
    BY <1>3, <1>6 DEF LaterState, State
  <1>8. \A e \in ToDo("vendor")' : e = Finalizes
    <2>1. Range(<<Finalizes>>) = {Finalizes}
      BY DEF Range
    <2> QED
      BY <1>5, <2>1 DEF ToDo
  <1>9. \A e \in ToDo("vendor")' : Sold(e)'
    BY <1>8, FinalizesSold DEF Sold, LaterState
  <1> QED
    BY <1>1, <1>4, <1>5, <1>7, <1>9 DEF Settled

LEMMA FinalizingHead ==
  ASSUME Finalizing
  PROVE  /\ call["vendor"] # <<>>
         /\ \/ /\ Head(call["vendor"]) = Spend("vendor", None)
               /\ \E c \in SoundContract : /\ c.state = "PAYMENT_FINALIZED"
                                           /\ call["vendor"] = <<Spend("vendor", None), Put(c), Finalizes>>
            \/ /\ coin = "vendor" /\ method # "ADDRESS_REQUEST"
               /\ \E c \in SoundContract : /\ Head(call["vendor"]) = Put(c)
                                           /\ call["vendor"] = <<Put(c), Finalizes>>
                                           /\ c.state = "PAYMENT_FINALIZED"
            \/ Head(call["vendor"]) = Finalizes /\ call["vendor"] = <<Finalizes>> /\ Settled
  <1>1. \A a, b, c : /\ <<a>> # <<>> /\ <<a, b>> # <<>> /\ <<a, b, c>> # <<>>
                     /\ Head(<<a>>) = a /\ Head(<<a, b>>) = a /\ Head(<<a, b, c>>) = a
    OBVIOUS
  <1>2. ASSUME NEW c \in SoundContract, c.state = "PAYMENT_FINALIZED",
               call["vendor"] = <<Spend("vendor", None), Put(c), Finalizes>>
        PROVE  call["vendor"] # <<>> /\ Head(call["vendor"]) = Spend("vendor", None)
    BY <1>1, <1>2
  <1>3. ASSUME NEW c \in SoundContract, call["vendor"] = <<Put(c), Finalizes>>
        PROVE  call["vendor"] # <<>> /\ Head(call["vendor"]) = Put(c)
    BY <1>1, <1>3
  <1>4. ASSUME call["vendor"] = <<Finalizes>>
        PROVE  call["vendor"] # <<>> /\ Head(call["vendor"]) = Finalizes
    BY <1>1, <1>4
  <1> QED
    BY <1>2, <1>3, <1>4, Zenon DEF Finalizing

LEMMA FinalizingSame ==
  ASSUME Base, Ordering, [Next]_vars, Finalizing, call'["vendor"] = call["vendor"]
  PROVE  Finalizing'
  <1> USE PartyFacts
  <1>1. coin = "vendor" /\ Head(call["vendor"]).do # "repay" => coin' = "vendor"
    BY VendorKeepsCoin
  <1>2. \A c : Put(c).do # "repay"
    BY DEF Put
  <1>3. method' = method
    BY FinalizingHead, MethodStays DEF Base, Unstarted
  <1> QED
    BY <1>1, <1>2, <1>3, FinalizingHead, SettledStays DEF Finalizing

LEMMA FinalizingAdvances ==
  ASSUME Base, Ordering, AtAddress, [Next]_vars, Finalizing, EffectDone("vendor"), call'["vendor"] # <<>>
  PROVE  Finalizing'
  <1> USE PartyFacts
  <1>0. Typed
    BY DEF Base
  <1>1. call["vendor"] # <<>> /\ call'["vendor"] = Tail(call["vendor"])
    BY <1>0, DoneToDo
  <1>2. ASSUME NEW c \in SoundContract, c.state = "PAYMENT_FINALIZED",
               call["vendor"] = <<Spend("vendor", None), Put(c), Finalizes>>
        PROVE  Finalizing'
    <2>1. Head(call["vendor"]) = Spend("vendor", None) /\ call'["vendor"] = <<Put(c), Finalizes>>
      BY <1>1, <1>2
    <2>2. Head(call["vendor"]).do = "spend" /\ Head(call["vendor"]).to = "vendor"
      BY <2>1 DEF Spend
    <2>3. DoSpend("vendor")
      BY <2>2 DEF EffectDone, DoPut, DoSend, DoRepay, MarkAsClosed, Doing
    <2>4. coin' = "vendor" /\ method' # "ADDRESS_REQUEST"
      BY <1>0, <2>2, <2>3, SpendStep DEF AtAddress
    <2> QED
      BY <1>2, <2>1, <2>4 DEF Finalizing
  <1>3. ASSUME NEW c \in SoundContract, Head(call["vendor"]) = Put(c) PROVE Finalizing'
    <2>1. Head(call["vendor"]).do = "put"
      BY <1>3 DEF Put
    <2>2. DoPut("vendor")
      BY <2>1 DEF EffectDone, DoSpend, DoSend, DoRepay, MarkAsClosed, Doing
    <2> QED
      BY <2>2, FinalizingPuts DEF Finalizing
  <1>4. call["vendor"] # <<Finalizes>>
    <2>1. Tail(<<Finalizes>>) = <<>>
      OBVIOUS
    <2> QED
      BY <1>1, <2>1
  <1> QED
    BY <1>2, <1>3, <1>4, FinalizingHead

LEMMA FinalizingFails ==
  ASSUME Base, Finalizing, SpendFails("vendor")
  PROVE  Head(call["vendor"]).undo = None
  <1>1. Head(call["vendor"]).do = "spend"
    BY SpendFailsStep, PartyFacts DEF Base
  <1>2. \A c : Put(c).do # "spend" /\ Finalizes.do # "spend"
    BY DEF Put, Finalizes, Send
  <1>3. Head(call["vendor"]) = Spend("vendor", None)
    BY <1>1, <1>2, FinalizingHead
  <1> QED
    BY <1>3 DEF Spend

LEMMA FinalizingStep ==
  ASSUME Base, Ordering, AtAddress, Finalized, [Next]_vars, NEW e \in ToDo("vendor")', FinalizesBy(e)
  PROVE  Finalizing'
  <1> USE PartyFacts
  <1>0. Typed
    BY DEF Base
  <1>1. call'["vendor"] # <<>>
    BY DEF ToDo, Range
  <1>2. CASE e \in ToDo("vendor")
    <2>1. Finalizing
      BY <1>2 DEF Finalized
    <2>2. call["vendor"] # <<>>
      BY <2>1, FinalizingHead
    <2> QED
      BY <1>1, <2>1, <2>2, CallMoves, FinalizingSame, FinalizingAdvances, FinalizingFails
  <1>3. ASSUME SpendFails("vendor"), Head(call["vendor"]).undo # None, e = Put(Head(call["vendor"]).undo)
        PROVE  FALSE
    <2>1. Head(call["vendor"]).do = "spend" /\ Fits("vendor", Head(call["vendor"]))
      BY <1>0, <1>3, SpendFailsStep, FirstFits
    <2>2. Head(call["vendor"]).undo.state = "PENDING"
      BY <1>3, <2>1 DEF Fits, OfVendor
    <2> QED
      BY <1>3, <2>2 DEF FinalizesBy, Put
  <1>4. CASE Continuing /\ call["vendor"] = <<>>
    <2>1. Begun("vendor", e)
      BY <1>4, ContinuingBegins
    <2>2. ReleaseFundsAfterTimeout
      BY <2>1 DEF Begun, Profiled, FinalizesBy
    <2>3. \E c \in SoundContract : c.state = "PAYMENT_FINALIZED"
                                   /\ call'["vendor"] = <<Spend("vendor", None), Put(c), Finalizes>>
      BY <1>0, <2>2, TimeoutStarts
    <2> QED
      BY <2>3 DEF Finalizing
  <1> QED
    BY <1>2, <1>3, <1>4, ToDoMoves

LEMMA FinalizedStep ==
  ASSUME Base, Ordering, AtAddress, Finalized, [Next]_vars
  PROVE  Finalized'
  <1> USE PartyFacts
  <1>0. Typed
    BY DEF Base
  <1>1. ASSUME Told("VENDOR_FINALIZED_PAYMENT")' PROVE Settled'
    <2>1. CASE Told("VENDOR_FINALIZED_PAYMENT")
      BY <2>1, SettledStays DEF Finalized
    <2>2. ASSUME NEW p \in Party, Head(call[p]) \in ToDo(p), Fits(p, Head(call[p])), Head(call[p]).do = "send",
                 Head(call[p]).msg.type = "VENDOR_FINALIZED_PAYMENT"
          PROVE  Settled'
      <3>1. p = "vendor"
        BY <2>2 DEF Fits, OfBuyer, OfModerator, Party, Trader
      <3>2. Finalizing
        BY <2>2, <3>1 DEF Finalized, FinalizesBy
      <3>3. \A c : Put(c).do # "send" /\ Spend("vendor", None).do # "send"
        BY DEF Put, Spend
      <3>4. Settled
        BY <2>2, <3>1, <3>2, <3>3, FinalizingHead
      <3> QED
        BY <3>4, SettledStays
    <2> QED
      BY <1>1, <2>1, <2>2, ToldMoves
  <1>2. ASSUME NEW p \in Trader, State(p)' = "PAYMENT_FINALIZED" PROVE Settled'
    <2>1. CASE State(p)' = State(p)
      BY <1>2, <2>1, SettledStays DEF Finalized
    <2>2. CASE State(p)' # State(p)
      <3>1. order'[p] # None /\ order'[p].state = "PAYMENT_FINALIZED"
        BY <1>2 DEF State
      <3>2. ASSUME DoPut(p), Head(call[p]).contract.state = "PAYMENT_FINALIZED"
            PROVE  Settled'
        <4>1. Head(call[p]) \in ToDo(p) /\ Fits(p, Head(call[p])) /\ Head(call[p]).do = "put"
          BY <1>0, <3>2, FirstFits, PutStep
        <4>2. p = "vendor"
          BY <3>2, <4>1 DEF Fits, OfBuyer, Trader
        <4>3. Finalizing
          BY <3>2, <4>1, <4>2 DEF Finalized, FinalizesBy
        <4> QED
          BY <3>2, <4>2, <4>3, FinalizingPuts
      <3>3. Told("VENDOR_FINALIZED_PAYMENT") => Settled'
        BY SettledStays DEF Finalized
      <3> QED
        BY <2>2, <3>1, <3>2, <3>3, StateMoves DEF StateSteps
    <2> QED
      BY <2>1, <2>2
  <1>3. \A e \in ToDo("vendor")' : FinalizesBy(e) => Finalizing'
    BY FinalizingStep
  <1>4. \A e \in ToDo("vendor")' : FinalizesBy(e)' <=> FinalizesBy(e)
    BY DEF FinalizesBy
  <1> QED
    BY <1>1, <1>2, <1>3, <1>4 DEF Finalized

-----------------------------------------------------------------------------
(* Without a moderator the vendor ships what is paid.                       *)

(* Effects after which the vendor can no longer ship, or has been paid.     *)
Undecided(e) ==
    \/ e.do = "put" /\ e.contract.state \in {"PENDING", "REFUNDED"}
    \/ e.do = "spend" /\ e.undo # None

(* A vendor that has confirmed before the payment gave its own address.     *)
Awaiting ==
    /\ ~Moderated /\ lost = {}
    /\ Has("vendor", "confirmation") /\ State("vendor") = "AWAITING_PAYMENT"
    => method = "ADDRESS_REQUEST" /\ coin \in {"unpaid", "vendor"}

(* A refund ends with a record of it.                                       *)
Refunding ==
    \A e \in ToDo("vendor") : e.do = "repay" =>
        \E m, n : /\ call["vendor"] = <<Repay, m, Put(n)>>
                  /\ n.state = "REFUNDED" /\ m.do = "send"

(* A call that sweeps the escrow decides nothing else.                      *)
Sweeping ==
    \A e, f \in ToDo("vendor") : e.do = "spend" /\ e.undo = None => ~Undecided(f)

LEMMA AwaitingInit == Init => Awaiting /\ Refunding /\ Sweeping
  <1> SUFFICES ASSUME Init PROVE Awaiting /\ Refunding /\ Sweeping
    OBVIOUS
  <1>1. ToDo("vendor") = {} /\ order["vendor"] = None
    BY PartyFacts DEF Init, ToDo, Range
  <1> QED
    BY <1>1 DEF Awaiting, Refunding, Sweeping, Has

LEMMA RefundIs ==
  ASSUME Base, RefundOrder, NEW e \in ToDo("vendor")', e.do = "repay"
  PROVE  \E m, n : /\ call'["vendor"] = <<Repay, m, Put(n)>>
                   /\ n.state = "REFUNDED" /\ m.do = "send"
  <1> USE PartyFacts
  <1>0. Typed
    BY DEF Base
  <1>1. \E m, n : /\ n.state = "REFUNDED" /\ m.do = "send"
                  /\ Only("vendor", IF Moderated THEN <<m, Put(n)>> ELSE <<Repay, m, Put(n)>>)
    <2> DEFINE m == Send("buyer", Msg("REFUND", "vendor"))
               n == With(order["vendor"], "REFUNDED", {})
    <2>1. n.state = "REFUNDED" /\ m.do = "send"
      BY <1>0, RefundStarts DEF Send
    <2>2. Only("vendor", IF Moderated THEN <<m, Put(n)>> ELSE <<Repay, m, Put(n)>>)
      BY DEF RefundOrder
    <2> HIDE DEF m, n
    <2> QED
      BY <2>1, <2>2
  <1>2. PICK m, n : /\ n.state = "REFUNDED" /\ m.do = "send"
                    /\ Only("vendor", IF Moderated THEN <<m, Put(n)>> ELSE <<Repay, m, Put(n)>>)
    BY <1>1
  <1>3. CASE Moderated
    <2>1. Only("vendor", <<m, Put(n)>>)
      BY <1>2, <1>3
    <2>2. Started("vendor", {m, Put(n)})
      BY <1>0, <2>1, OnlyStarts2
    <2>3. e = m \/ e = Put(n)
      BY <2>2 DEF Started
    <2>4. Put(n).do = "put"
      BY DEF Put
    <2>5. FALSE
      BY <1>2, <2>3, <2>4
    <2> QED
      BY <2>5
  <1>4. CASE ~Moderated
    <2>1. Only("vendor", <<Repay, m, Put(n)>>)
      BY <1>2, <1>4
    <2>2. call'["vendor"] = <<Repay, m, Put(n)>>
      <3>1. "vendor" \in Party
        OBVIOUS
      <3>2. Calls("vendor", <<Repay, m, Put(n)>>)
        BY <2>1 DEF Only
      <3> QED
        BY <1>0, <3>1, <3>2, StartsWith
    <2> QED
      BY <1>2, <2>2
  <1> QED
    BY <1>3, <1>4

LEMMA RefundingStep ==
  ASSUME Base, Refunding, [Next]_vars
  PROVE  Refunding'
  <1> USE PartyFacts
  <1>0. Typed
    BY DEF Base
  <1> SUFFICES ASSUME NEW e \in ToDo("vendor")', e.do = "repay"
               PROVE  \E m, n : /\ call'["vendor"] = <<Repay, m, Put(n)>>
                                /\ n.state = "REFUNDED" /\ m.do = "send"
    BY DEF Refunding
  <1>1. CASE e \in ToDo("vendor")
    <2>1. PICK m, n : /\ call["vendor"] = <<Repay, m, Put(n)>>
                      /\ n.state = "REFUNDED" /\ m.do = "send"
      BY <1>1 DEF Refunding
    <2>2. call'["vendor"] = call["vendor"] => \E m2, n2 : /\ call'["vendor"] = <<Repay, m2, Put(n2)>>
                                                   /\ n2.state = "REFUNDED" /\ m2.do = "send"
      BY <2>1
    <2>3. call["vendor"] # <<>> /\ Head(call["vendor"]) = Repay /\ Tail(call["vendor"]) = <<m, Put(n)>>
      BY <2>1
    <2>4. call'["vendor"] # Tail(call["vendor"])
      <3>1. Range(<<m, Put(n)>>) = {m, Put(n)}
        BY DEF Range
      <3>2. e \in Range(call'["vendor"])
        BY DEF ToDo
      <3> QED
        BY <2>1, <2>3, <3>1, <3>2 DEF Put
    <2>5. ~SpendFails("vendor")
      BY <2>3 DEF SpendFails, Doing, Repay
    <2>6. call'["vendor"] # <<>>
      BY DEF ToDo, Range
    <2> QED
      BY <2>2, <2>3, <2>4, <2>5, <2>6, CallMoves
  <1>2. \A u : e # Put(u)
    BY DEF Put
  <1>3. CASE Continuing /\ call["vendor"] = <<>>
    <2>1. Begun("vendor", e)
      BY <1>3, ContinuingBegins
    <2>2. RefundOrder
      BY <2>1 DEF Begun, Profiled
    <2> QED
      BY <2>2, RefundIs
  <1> QED
    BY <1>1, <1>2, <1>3, ToDoMoves

LEMMA SweepingStarts ==
  ASSUME Base, Continuing, call["vendor"] = <<>>, NEW e \in ToDo("vendor")', NEW f \in ToDo("vendor")',
         e.do = "spend", e.undo = None
  PROVE  ~Undecided(f)
  <1> USE PartyFacts
  <1>0. Typed
    BY DEF Base
  <1>1. Begun("vendor", e)
    BY ContinuingBegins
  <1>2. CASE ConfirmOfflineOrder
    <2>1. \E n, c : /\ c # None
                    /\ \/ ToDo("vendor")' = {Put(n), Confirms}
                       \/ ToDo("vendor")' = {Put(n), Spend("vendor", c), Confirms}
      BY <1>0, <1>2, ConfirmStarts DEF Started
    <2> QED
      BY <2>1 DEF Put, Spend, Confirms, Send
  <1>3. CASE ReleaseFundsAfterTimeout
    <2>1. \E n : n.state = "PAYMENT_FINALIZED" /\ ToDo("vendor")' = {Spend("vendor", None), Put(n), Finalizes}
      BY <1>0, <1>3, TimeoutStarts DEF Started
    <2> QED
      BY <2>1 DEF Put, Spend, Finalizes, Send, Undecided
  <1>4. CASE ReleaseFunds("vendor")
    <2>1. \E n, q : n.state = "DECIDED" /\ ToDo("vendor")' = {Spend(q, None), Put(n)}
      BY <1>0, <1>4, ReleaseStarts DEF Started
    <2> QED
      BY <2>1 DEF Put, Spend, Undecided
  <1> QED
    BY <1>1, <1>2, <1>3, <1>4 DEF Begun, Profiled

LEMMA SweepingStep ==
  ASSUME Base, Sweeping, [Next]_vars
  PROVE  Sweeping'
  <1> USE PartyFacts
  <1> SUFFICES ASSUME NEW e \in ToDo("vendor")', NEW f \in ToDo("vendor")', e.do = "spend", e.undo = None
               PROVE  ~Undecided(f)
    BY DEF Sweeping, Undecided
  <1>0. Typed
    BY DEF Base
  <1>1. \A u : e # Put(u)
    BY DEF Put
  <1>3. CASE e \in ToDo("vendor") /\ f \in ToDo("vendor")
    BY <1>3 DEF Sweeping
  <1>4. CASE e \in ToDo("vendor") /\ f \notin ToDo("vendor")
    <2>1. call["vendor"] # <<>>
      BY <1>4 DEF ToDo, Range
    <2>2. SpendFails("vendor") /\ Head(call["vendor"]).undo # None
      BY <1>4, <2>1, ToDoMoves
    <2>3. ToDo("vendor")' = {Put(Head(call["vendor"]).undo)}
      BY <1>0, <2>2, SpendFailsStep
    <2> QED
      BY <1>1, <2>3
  <1>5. CASE e \notin ToDo("vendor")
    BY <1>1, <1>5, ToDoMoves, SweepingStarts
  <1> QED
    BY <1>3, <1>4, <1>5

LEMMA AwaitingBack ==
  ASSUME Base, Ordering, [Next]_vars, ~Moderated, lost' = {}, order["vendor"] # None,
         Has("vendor", "confirmation")', State("vendor")' = "AWAITING_PAYMENT"
  PROVE  Has("vendor", "confirmation") /\ State("vendor") = "AWAITING_PAYMENT"
  <1> USE PartyFacts
  <1>0. Typed
    BY DEF Base
  <1>1. ~PurchaseOnline
    BY BuysSame
  <1>2. ~(DoPut("vendor") /\ order'["vendor"] = Head(call["vendor"]).contract)
    <2>1. DoPut("vendor") => Fits("vendor", Head(call["vendor"])) /\ Head(call["vendor"]).do = "put"
      BY <1>0, FirstFits, PutStep
    <2>2. order'["vendor"].state = "AWAITING_PAYMENT"
      BY DEF State
    <2> QED
      BY <2>1, <2>2 DEF Fits, OfVendor
  <1>3. CASE order'["vendor"] = order["vendor"]
    BY <1>3 DEF Has, State
  <1>4. ASSUME NEW m \in UnderWay, Arrived(m), order'["vendor"] # order["vendor"]
        PROVE  FALSE
    BY <1>4, SaleStays
  <1>5. CASE Informed("vendor")
    <2>1. State("vendor") = "AWAITING_PAYMENT"
      BY <1>5, InformedGrows
    <2>2. ASSUME ~Has("vendor", "confirmation") PROVE FALSE
      <3>1. \A t, S : Saved("vendor", t, S) => "confirmation" \in S
        BY <2>2 DEF Saved, Has
      <3> QED
        BY <1>5, <3>1 DEF Informed, Funds, Accepted
    <2> QED
      BY <2>1, <2>2
  <1> QED
    BY <1>1, <1>2, <1>3, <1>4, <1>5, RecordMoves

LEMMA VendorAppears ==
  ASSUME Base, Ordering, [Next]_vars, order["vendor"] = None, Has("vendor", "confirmation")'
  PROVE  PurchaseOnline \/ Moderated
  <1> USE PartyFacts
  <1>1. ~DoPut("vendor")
    BY DEF Ordering, DoPut, Doing
  <1>2. order'["vendor"] # None /\ "confirmation" \in order'["vendor"].parts
    BY DEF Has
  <1>3. method # "ADDRESS_REQUEST"
    BY DEF Ordering, Shows
  <1> QED
    BY <1>1, <1>2, <1>3, PartMoves DEF Trader

LEMMA AwaitingStep ==
  ASSUME Base, Ordering, Awaiting, [Next]_vars
  PROVE  Awaiting'
  <1> USE PartyFacts
  <1>0. Typed
    BY DEF Base
  <1> SUFFICES ASSUME ~Moderated', lost' = {},
                      Has("vendor", "confirmation")', State("vendor")' = "AWAITING_PAYMENT"
               PROVE  method' = "ADDRESS_REQUEST" /\ coin' \in {"unpaid", "vendor"}
    BY DEF Awaiting
  <1>1. CASE order["vendor"] = None
    <2>1. PurchaseOnline
      <3>1. PurchaseOffline => order' = order
        BY <1>0, OfflineStarts
      <3>2. ~PurchaseOffline
        BY <1>1, <3>1 DEF Has
      <3>3. PurchaseOnline \/ Moderated
        BY <1>1, VendorAppears
      <3>4. PurchaseOnline \/ method' = method
        BY <3>2, MethodMoves
      <3> QED
        BY <3>3, <3>4 DEF Moderated
    <2>2. method' \in Method \ {"DIRECT"} /\ coin' = coin
      BY <1>0, <2>1, OnlineStarts
    <2>3. coin = "unpaid"
      BY <2>1, BuysSame
    <2> QED
      BY <2>2, <2>3, OrderAssumption DEF Moderated
  <1>2. CASE order["vendor"] # None
    <2>1. method # None /\ method' = method /\ ~Moderated /\ lost = {}
      BY <1>2, MethodStays, LostMoves DEF Base, Unstarted, Moderated
    <2>2. Has("vendor", "confirmation") /\ State("vendor") = "AWAITING_PAYMENT"
      BY <1>2, <2>1, AwaitingBack
    <2>3. method = "ADDRESS_REQUEST" /\ coin \in {"unpaid", "vendor"}
      BY <2>1, <2>2 DEF Awaiting
    <2>4. ~DoRepay("vendor")
      BY <2>1, <2>2 DEF Ordering, DoRepay, Doing
    <2> QED
      BY <2>1, <2>3, <2>4, CoinMoves
  <1> QED
    BY <1>1, <1>2

-----------------------------------------------------------------------------
Owed ==
    State("vendor") = "AWAITING_FULFILLMENT" =>
        coin = "vendor" \/ \E e \in ToDo("vendor") : Undecided(e)

LEMMA CrashesStay == ASSUME Base, [Next]_vars, crashes' = 0 PROVE crashes = 0
  <1>1. \A p \in Party : Effects(p) => crashes' = crashes
    BY EffectKept, TypedStep, BaseKnows DEF Base
  <1>2. Pay => crashes' = crashes
    BY PayStep DEF Base
  <1> QED
    BY <1>1, <1>2, StepKinds, ContinuingSame, BuysSame DEF Quiet, Arrived, Informed

LEMMA SteadyBack == ASSUME Base, [Next]_vars, Steady' PROVE Steady
  <1>1. crashes = 0
    BY CrashesStay DEF Steady
  <1>2. method # None => method' = method
    BY MethodStays
  <1>3. lost = {}
    BY LostMoves DEF Steady
  <1> QED
    BY <1>1, <1>2, <1>3 DEF Steady, Moderated

(* What is undecided is decided by storing it or by spending.               *)
LEMMA UndecidedMoves ==
  ASSUME Base, Sweeping, [Next]_vars, crashes' = 0, State("vendor")' = "AWAITING_FULFILLMENT",
         NEW e \in ToDo("vendor"), Undecided(e)
  PROVE  coin' = "vendor" \/ \E f \in ToDo("vendor")' : Undecided(f)
  <1> USE PartyFacts
  <1> DEFINE h == Head(call["vendor"])
  <1>0. Typed
    BY DEF Base
  <1>1. call["vendor"] # <<>>
    BY DEF ToDo, Range
  <1>2. CASE call'["vendor"] = call["vendor"]
    BY <1>2 DEF ToDo
  <1>3. CASE EffectDone("vendor")
    <2>1. ToDo("vendor") = {h} \cup ToDo("vendor")'
      BY <1>0, <1>3, DoneToDo
    <2>2. CASE e = h /\ h.do = "put"
      <3>1. h.contract.state \in {"PENDING", "REFUNDED"}
        BY <2>2 DEF Undecided
      <3>2. DoPut("vendor")
        BY <1>3, <2>2 DEF EffectDone, DoPut, DoSend, DoSpend, DoRepay, MarkAsClosed, Doing
      <3>3. order'["vendor"] = h.contract /\ h.contract # None
        BY <1>0, <3>2, PutStep, NotNone
      <3> QED
        BY <3>1, <3>3 DEF State
    <2>3. CASE e = h /\ h.do = "spend" /\ h.undo # None
      <3>1. DoSpend("vendor")
        BY <1>3, <2>3 DEF EffectDone, DoPut, DoSend, DoSpend, DoRepay, MarkAsClosed, Doing
      <3>2. h.to = "vendor"
        BY <1>1, <2>3, FirstFits DEF Fits, OfVendor
      <3> QED
        BY <1>0, <3>1, <3>2, SpendStep
    <2> QED
      BY <2>1, <2>2, <2>3 DEF Undecided
  <1>4. CASE SpendFails("vendor")
    <2>1. h.do = "spend" /\ h \in ToDo("vendor") /\ Fits("vendor", h)
      BY <1>0, <1>1, <1>4, SpendFailsStep, FirstFits
    <2>2. h.undo # None
      BY <2>1 DEF Sweeping
    <2>3. h.undo.state = "PENDING"
      BY <2>1, <2>2 DEF Fits, OfVendor
    <2>4. Put(h.undo) \in ToDo("vendor")'
      BY <1>0, <1>4, <2>2, SpendFailsStep
    <2>5. Undecided(Put(h.undo))
      BY <2>3 DEF Undecided, Put
    <2> QED
      BY <2>4, <2>5
  <1> QED
    BY <1>1, <1>2, <1>3, <1>4, CallMoves

(* A vendor that confirms without a moderator sweeps the escrow next.       *)
LEMMA ConfirmingSweeps ==
  ASSUME Base, Confirmation, Steady, [Next]_vars, DoPut("vendor"),
         Head(call["vendor"]).contract.state = "AWAITING_FULFILLMENT"
  PROVE  \E f \in ToDo("vendor")' : Undecided(f)
  <1> USE PartyFacts
  <1>0. Typed
    BY DEF Base
  <1>1. /\ call["vendor"] # <<>> /\ Head(call["vendor"]).do = "put"
        /\ Head(call["vendor"]) \in ToDo("vendor")
        /\ call'["vendor"] = Tail(call["vendor"])
    BY <1>0, PutStep, DoneToDo, FirstFits DEF EffectDone
  <1>2. Confirming
    BY <1>1 DEF Confirmation, ConfirmsBy
  <1>3. ~Moderated
    BY <1>1 DEF Steady, Base, Unstarted
  <1>4. \A a, b, c : Head(<<Spend(a, b), c>>).do # "put" /\ Head(<<Confirms>>).do # "put"
    BY DEF Spend, Confirms, Send
  <1>5. PICK c, d \in SoundContract : call["vendor"] = <<Put(c), Spend("vendor", d), Confirms>>
    BY <1>1, <1>2, <1>3, <1>4 DEF Confirming
  <1>6. call'["vendor"] = <<Spend("vendor", d), Confirms>>
    BY <1>1, <1>5
  <1>7. Spend("vendor", d) \in ToDo("vendor")'
    <2>1. Range(<<Spend("vendor", d), Confirms>>) = {Spend("vendor", d), Confirms}
      BY DEF Range
    <2> QED
      BY <1>6, <2>1 DEF ToDo
  <1>8. Undecided(Spend("vendor", d))
    BY NotNone DEF Undecided, Spend
  <1> QED
    BY <1>7, <1>8

LEMMA OwedRepaid ==
  ASSUME Base, Refunding, [Next]_vars, coin = "vendor", coin' # "vendor"
  PROVE  \E f \in ToDo("vendor")' : Undecided(f)
  <1> USE PartyFacts
  <1>0. Typed
    BY DEF Base
  <1>1. DoRepay("vendor")
    BY CoinMoves
  <1>2. /\ call["vendor"] # <<>> /\ Head(call["vendor"]).do = "repay"
        /\ Head(call["vendor"]) \in ToDo("vendor")
        /\ call'["vendor"] = Tail(call["vendor"])
    BY <1>0, <1>1, RepayStep, DoneToDo, FirstFits DEF EffectDone
  <1>3. PICK m, n : call["vendor"] = <<Repay, m, Put(n)>> /\ n.state = "REFUNDED"
    BY <1>2 DEF Refunding
  <1>4. call'["vendor"] = <<m, Put(n)>>
    BY <1>2, <1>3
  <1>5. Put(n) \in ToDo("vendor")'
    <2>1. Range(<<m, Put(n)>>) = {m, Put(n)}
      BY DEF Range
    <2> QED
      BY <1>4, <2>1 DEF ToDo
  <1>6. Undecided(Put(n))
    BY <1>3 DEF Undecided, Put
  <1> QED
    BY <1>5, <1>6

LEMMA OwedStep ==
  ASSUME Base, Ordering, Confirmation, Awaiting, Refunding, Sweeping, [Next]_vars, Steady', Steady, Owed
  PROVE  Owed'
  <1> USE PartyFacts
  <1>0. Typed
    BY DEF Base
  <1> SUFFICES ASSUME State("vendor")' = "AWAITING_FULFILLMENT"
               PROVE  coin' = "vendor" \/ \E f \in ToDo("vendor")' : Undecided(f)
    BY DEF Owed, Undecided
  <1>1. CASE State("vendor")' = State("vendor")
    <2>1. CASE coin = "vendor"
      BY <2>1, OwedRepaid
    <2>2. ASSUME NEW e \in ToDo("vendor"), Undecided(e)
          PROVE  coin' = "vendor" \/ \E f \in ToDo("vendor")' : Undecided(f)
      BY <2>2, UndecidedMoves DEF Steady
    <2> QED
      BY <1>1, <2>1, <2>2 DEF Owed
  <1>2. CASE State("vendor")' # State("vendor")
    <2>1. order'["vendor"] # None /\ order'["vendor"].state = "AWAITING_FULFILLMENT"
      BY DEF State
    <2>2. CASE DoPut("vendor") /\ Head(call["vendor"]).contract.state = "AWAITING_FULFILLMENT"
      BY <2>2, ConfirmingSweeps
    <2>3. CASE coin # "unpaid" /\ State("vendor") = "AWAITING_PAYMENT" /\ "confirmation" \in order["vendor"].parts
      <3>1. order["vendor"] # None /\ lost = {}
        BY <2>3 DEF State, Steady
      <3>2. ~Moderated
        BY <3>1 DEF Steady, Base, Unstarted
      <3>3. coin = "vendor" /\ call["vendor"] = <<>>
        BY <2>3, <3>1, <3>2 DEF Awaiting, Has, Ordering
      <3> QED
        BY <3>3, VendorKeepsCoin
    <2> QED
      BY <1>2, <2>1, <2>2, <2>3, StateMoves DEF StateSteps
  <1> QED
    BY <1>1, <1>2

-----------------------------------------------------------------------------
(* What tells of the shipment, or is about to.                              *)
ShipsBy(e) ==
    \/ e.do = "send" /\ e.msg.type = "ORDER_FULFILLMENT"
    \/ e.do = "put" /\ e.contract.state = "FULFILLED"

LearnsBy(e) == e.do = "put" /\ ("fulfillment" \in e.contract.parts \/ e.contract.state = "COMPLETED")

Shipped ==
    \/ Told("ORDER_FULFILLMENT")
    \/ State("vendor") = "FULFILLED"
    \/ State("buyer") \in {"FULFILLED", "COMPLETED"}
    \/ Has("buyer", "fulfillment")
    \/ \E e \in ToDo("vendor") : ShipsBy(e)
    \/ \E e \in ToDo("buyer") : LearnsBy(e)

LEMMA FulfillSettles ==
  ASSUME Base, FulfillOrder, Owed
  PROVE  Settling'
  <1> USE PartyFacts
  <1>0. Typed
    BY DEF Base
  <1>1. PICK m, n : /\ m.do = "send" /\ n.state = "FULFILLED"
                    /\ Started("vendor", {m, Put(n)})
    <2>1. Send("buyer", Msg("ORDER_FULFILLMENT", "vendor")).do = "send"
      BY DEF Send
    <2> QED
      BY <1>0, <2>1, FulfillStarts
  <1>2. ToDo("vendor") = {} /\ ToDo("vendor")' = {m, Put(n)} /\ coin' = coin
    BY <1>1 DEF Started
  <1>3. coin = "vendor"
    BY <1>2 DEF Owed, FulfillOrder, MayFulfill
  <1>4. \A e \in ToDo("vendor")' : Sold(e) /\ e.do # "spend"
    BY <1>1, <1>2 DEF Sold, LaterState, Put
  <1>5. \E e \in ToDo("vendor")' : e.do = "put"
    BY <1>2 DEF Put
  <1>6. \A e \in ToDo("vendor")' : Sold(e)'
    BY <1>4 DEF Sold, LaterState
  <1> QED
    BY <1>2, <1>3, <1>4, <1>5, <1>6 DEF Settling

LEMMA NewShipping ==
  ASSUME Base, Ordering, Owed, ~Shipped, [Next]_vars, NEW e \in ToDo("vendor")', ShipsBy(e)
  PROVE  Settling'
  <1> USE PartyFacts
  <1>0. Typed
    BY DEF Base
  <1>1. e \notin ToDo("vendor")
    BY DEF Shipped
  <1>2. ~(SpendFails("vendor") /\ Head(call["vendor"]).undo # None /\ e = Put(Head(call["vendor"]).undo))
    <2> SUFFICES ASSUME SpendFails("vendor"), Head(call["vendor"]).undo # None,
                        e = Put(Head(call["vendor"]).undo)
                 PROVE  FALSE
      OBVIOUS
    <2>1. Head(call["vendor"]).do = "spend" /\ Fits("vendor", Head(call["vendor"]))
      BY <1>0, SpendFailsStep, FirstFits
    <2>2. Head(call["vendor"]).undo.state = "PENDING"
      BY <2>1 DEF Fits, OfVendor
    <2> QED
      BY <2>2 DEF ShipsBy, Put
  <1>3. Continuing /\ call["vendor"] = <<>>
    BY <1>1, <1>2, ToDoMoves
  <1>4. Begun("vendor", e)
    BY <1>3, ContinuingBegins
  <1>5. FulfillOrder
    BY <1>4 DEF Begun, Profiled, ShipsBy
  <1> QED
    BY <1>5, FulfillSettles

LEMMA NewLearning ==
  ASSUME Base, Ordering, Finalized, Steady, ~Shipped, [Next]_vars, Steady', NEW e \in ToDo("buyer")', LearnsBy(e)
  PROVE  Settling'
  <1> USE PartyFacts
  <1>0. Typed
    BY DEF Base
  <1>1. e \notin ToDo("buyer")
    BY DEF Shipped
  <1>2. ~(SpendFails("buyer") /\ Head(call["buyer"]).undo # None)
    BY <1>0, SpendFailsStep, FirstFits DEF Fits, OfBuyer
  <1>3. ~PurchaseOnline
    <2> SUFFICES ASSUME PurchaseOnline PROVE FALSE
      OBVIOUS
    <2>1. \E n : n.state = "AWAITING_PAYMENT" /\ n.parts = {"confirmation"} /\ ToDo("buyer")' = {Put(n)}
      BY <1>0, OnlineStarts
    <2> QED
      BY <2>1 DEF LearnsBy, Put
  <1>4. ~PurchaseOffline
    <2> SUFFICES ASSUME PurchaseOffline PROVE FALSE
      OBVIOUS
    <2>1. e = Put(New) \/ e = Asks
      BY <1>0, OfflineStarts DEF Asks
    <2> QED
      BY <2>1 DEF LearnsBy, Put, New, Asks, Send
  <1>5. Continuing /\ call["buyer"] = <<>>
    BY <1>1, <1>2, <1>3, <1>4, ToDoMoves
  <1>6. Begun("buyer", e)
    BY <1>5, ContinuingBegins
  <1>7. order["buyer"] # None
    BY <1>0, <1>6, BegunKnows
  <1>8. e.do = "put" /\ ("fulfillment" \in order["buyer"].parts \/ CompleteOrder)
    BY <1>6 DEF Begun, Profiled, LearnsBy
  <1>9. CompleteOrder
    BY <1>7, <1>8 DEF Shipped, Has
  <1>10. State("buyer") \in {"RESOLVED", "PAYMENT_FINALIZED"}
    BY <1>9 DEF CompleteOrder, MayComplete, Shipped
  <1>11. ~Moderated
    BY <1>7 DEF Steady, Base, Unstarted
  <1>12. State("buyer") # "RESOLVED"
    BY <1>7, <1>11 DEF Base, Unmoderated, Plain, State
  <1>13. Settled
    BY <1>10, <1>12 DEF Finalized
  <1>14. Settling
    BY <1>11, <1>13 DEF Settled, Settling
  <1> QED
    BY <1>14, SettlingStays

LEMMA ShippedStep ==
  ASSUME Base, Ordering, Finalized, Steady, Owed, Shipped => Settling, [Next]_vars, Steady', Shipped'
  PROVE  Settling'
  <1> USE PartyFacts
  <1>0. Typed
    BY DEF Base
  <1>1. CASE Shipped
    BY <1>1, SettlingStays
  <1>2. CASE ~Shipped
    <2>1. ASSUME NEW p \in Trader, DoPut(p)
          PROVE  Head(call[p]) \in ToDo(p) /\ Fits(p, Head(call[p])) /\ Head(call[p]).do = "put"
      BY <1>0, <2>1, FirstFits, PutStep
    <2>2. ~Told("ORDER_FULFILLMENT")'
      <3> SUFFICES ASSUME Told("ORDER_FULFILLMENT")' PROVE FALSE
        OBVIOUS
      <3>1. PICK p \in Party : /\ Head(call[p]) \in ToDo(p) /\ Fits(p, Head(call[p]))
                               /\ Head(call[p]).do = "send" /\ Head(call[p]).msg.type = "ORDER_FULFILLMENT"
        BY <1>2, ToldMoves DEF Shipped
      <3>2. p = "vendor"
        BY <3>1 DEF Fits, OfBuyer, OfModerator, Party, Trader
      <3> QED
        BY <1>2, <3>1, <3>2 DEF Shipped, ShipsBy
    <2>3. State("vendor")' # "FULFILLED"
      <3> SUFFICES ASSUME State("vendor")' = "FULFILLED" PROVE FALSE
        OBVIOUS
      <3>1. State("vendor")' # State("vendor") /\ order'["vendor"] # None /\ order'["vendor"].state = "FULFILLED"
        BY <1>2 DEF Shipped, State
      <3>2. DoPut("vendor") /\ Head(call["vendor"]).contract.state = "FULFILLED"
        BY <3>1, StateMoves DEF StateSteps
      <3> QED
        BY <1>2, <2>1, <3>2 DEF Shipped, ShipsBy
    <2>4. State("buyer")' \notin {"FULFILLED", "COMPLETED"}
      <3> SUFFICES ASSUME State("buyer")' \in {"FULFILLED", "COMPLETED"} PROVE FALSE
        OBVIOUS
      <3>1. /\ State("buyer")' # State("buyer") /\ order'["buyer"] # None
            /\ order'["buyer"].state \in {"FULFILLED", "COMPLETED"}
        BY <1>2 DEF Shipped, State
      <3>2. ~Told("ORDER_FULFILLMENT")
        BY <1>2 DEF Shipped
      <3>3. DoPut("buyer") /\ Head(call["buyer"]).contract.state \in {"FULFILLED", "COMPLETED"}
        BY <3>1, <3>2, StateMoves DEF StateSteps
      <3> QED
        BY <1>2, <2>1, <3>3 DEF Shipped, LearnsBy, Fits, OfBuyer
    <2>5. ~Has("buyer", "fulfillment")'
      <3> SUFFICES ASSUME Has("buyer", "fulfillment")' PROVE FALSE
        OBVIOUS
      <3>1. order'["buyer"] # None /\ "fulfillment" \in order'["buyer"].parts
        BY DEF Has
      <3>2. ~Told("ORDER_FULFILLMENT") /\ ~Has("buyer", "fulfillment")
        BY <1>2 DEF Shipped
      <3>3. DoPut("buyer") /\ "fulfillment" \in Head(call["buyer"]).contract.parts
        BY <3>1, <3>2, PartMoves DEF Has
      <3> QED
        BY <1>2, <2>1, <3>3 DEF Shipped, LearnsBy
    <2>6. \A e \in ToDo("vendor")' : ShipsBy(e) => Settling'
      BY <1>2, NewShipping
    <2>7. \A e \in ToDo("buyer")' : LearnsBy(e) => Settling'
      BY <1>2, NewLearning
    <2>8. /\ \A e \in ToDo("vendor")' : ShipsBy(e)' <=> ShipsBy(e)
          /\ \A e \in ToDo("buyer")' : LearnsBy(e)' <=> LearnsBy(e)
      BY DEF ShipsBy, LearnsBy
    <2>9. (\E e \in ToDo("vendor")' : ShipsBy(e)') \/ (\E e \in ToDo("buyer")' : LearnsBy(e)')
      BY <2>2, <2>3, <2>4, <2>5 DEF Shipped
    <2> QED
      BY <2>6, <2>7, <2>8, <2>9
  <1> QED
    BY <1>1, <1>2

-----------------------------------------------------------------------------
(* The invariant.                                                           *)

Shipping == Steady => Owed /\ (Shipped => Settling)

IInv ==
    /\ Base /\ Ordering /\ CalledOff /\ Confirmation /\ Agreement /\ Acceptance
    /\ AtAddress /\ Finalized /\ Awaiting /\ Refunding /\ Sweeping /\ Shipping

LEMMA ShippingInit == Init => Shipping
  <1> SUFFICES ASSUME Init PROVE Shipping
    OBVIOUS
  <1>1. ToDo("vendor") = {} /\ ToDo("buyer") = {}
    BY PartyFacts DEF Init, ToDo, Range
  <1>2. order["vendor"] = None /\ order["buyer"] = None
    BY PartyFacts DEF Init
  <1>3. ~Told("ORDER_FULFILLMENT")
    BY DEF Init, Told, UnderWay, Carried, Kept, Range
  <1> QED
    BY <1>1, <1>2, <1>3 DEF Shipping, Owed, Shipped, State, Has

LEMMA InvInit == Init => IInv
  BY BaseInit, OrderingInit, CalledOffInit, ConfirmationInit, AgreementInit, AcceptanceInit,
     AddressInit, FinalizedInit, AwaitingInit, ShippingInit DEF IInv

LEMMA ShippingStep ==
  ASSUME IInv, [Next]_vars
  PROVE  Shipping'
  <1>1. ASSUME Steady' PROVE Owed' /\ (Shipped' => Settling')
    <2>1. Steady
      BY <1>1, SteadyBack DEF IInv
    <2>2. Owed /\ (Shipped => Settling)
      BY <2>1 DEF IInv, Shipping
    <2>3. Owed'
      BY <1>1, <2>1, <2>2, OwedStep DEF IInv
    <2>4. Shipped' => Settling'
      BY <1>1, <2>1, <2>2, ShippedStep DEF IInv
    <2> QED
      BY <2>3, <2>4
  <1> QED
    BY <1>1 DEF Shipping

LEMMA InvStep ==
  ASSUME IInv, [Next]_vars
  PROVE  IInv'
  <1>1. Base' /\ Ordering' /\ CalledOff'
    BY BaseStep, OrderingStep, CalledOffStep DEF IInv
  <1>2. Confirmation' /\ Agreement' /\ Acceptance'
    BY ConfirmationStep, AgreementStep, AcceptanceStep DEF IInv
  <1>3. AtAddress' /\ Finalized' /\ Awaiting' /\ Refunding' /\ Sweeping' /\ Shipping'
    BY AtAddressStep, FinalizedStep, AwaitingStep, RefundingStep, SweepingStep, ShippingStep DEF IInv
  <1> QED
    BY <1>1, <1>2, <1>3 DEF IInv

(* In every state the parts of the invariant hold: what a record, a message *)
(* or a pending effect says of the others and of the money, also when an    *)
(* ORDER comes again and overwrites the sale (all handlers and calls of     *)
(* src/core and src/net/service/handlers.go).                               *)
THEOREM OrderInvariant == Spec => []IInv
  <1>1. IInv /\ [Next]_vars => IInv'
    BY InvStep
  <1> QED
    BY InvInit, <1>1, PTL DEF Spec

-----------------------------------------------------------------------------
(* What the invariant says.                                                 *)

LEMMA InvBacked == IInv => RecordsAreBacked
  <1> SUFFICES ASSUME IInv PROVE RecordsAreBacked
    OBVIOUS
  <1> USE PartyFacts
  <1>1. CanceledIsRefunded
    BY DEF IInv, CalledOff
  <1>2. ConfirmationIsBacked
    BY DEF IInv, Confirmation, Confirmed, ConfirmationIsBacked, Holds, Shows, Marked, Has
  <1>3. ShippedIsPaid
    BY DEF IInv, Shipping, Steady, Shipped, Settling, ShippedIsPaid
  <1> QED
    BY <1>1, <1>2, <1>3 DEF RecordsAreBacked

LEMMA InvAgreed == IInv => SettledByAgreement
  <1> SUFFICES ASSUME IInv, Moderated, coin = "vendor", ~late
               PROVE  \/ Has("buyer", "fulfillment")
                      \/ \E p \in Trader : order[p] # None /\ order[p].resolution # None
                      \/ "award" \in lost
    BY DEF SettledByAgreement
  <1>1. Agreed
    BY DEF IInv, Agreement
  <1>2. CASE Holds("buyer", "fulfillment")
    BY <1>2 DEF Holds, Shows, Marked, Has
  <1>3. ASSUME NEW q \in Trader, Shows(q, "award")
        PROVE  order[q] # None /\ order[q].resolution # None
    <2>1. order[q] # None /\ ("award" \in order[q].parts \/ order[q].resolution # None)
      BY <1>3 DEF Shows, Marked
    <2>2. order[q] \in SoundContract
      BY <2>1 DEF IInv, Base, Typed, OrderMap
    <2>3. "award" \notin order[q].parts
      BY <2>2 DEF SoundContract, Contract, Part
    <2> QED
      BY <2>1, <2>3
  <1> QED
    BY <1>1, <1>2, <1>3 DEF Agreed, Holds

LEMMA InvPayout == IInv => PayoutHappened
  <1> SUFFICES ASSUME IInv PROVE PayoutHappened
    OBVIOUS
  <1>1. ASSUME NEW p \in Trader, Has(p, "acceptance")
        PROVE  coin \in Trader /\ (State(p) = "DECIDED" => coin = order[p].resolution.to)
    <2>1. coin \in Trader /\ Decided(order[p], coin)
      BY <1>1 DEF IInv, Acceptance
    <2>2. State(p) = order[p].state
      BY <1>1 DEF Has, State
    <2> QED
      BY <2>1, <2>2 DEF Decided
  <1>2. \A p \in Trader : State(p) = "PAYMENT_FINALIZED" => coin = "vendor"
    BY DEF IInv, Finalized, Settled
  <1> QED
    BY <1>1, <1>2 DEF PayoutHappened

(* The records, the mail and the calls of an order are well formed, whatever *)
(* calls, messages, callbacks, resends and restarts come in between.        *)
THEOREM OrderTypes == Spec => []TypeOK
  <1>1. IInv => TypeOK
    BY TypedOK DEF IInv, Base
  <1> QED
    BY <1>1, OrderInvariant, PTL

(* What a trader records of a cancellation or a refund agrees with the      *)
(* money, always.  The buyer's confirmation is backed by the vendor's       *)
(* unless an ORDER that came again overwrote the sale that held it; a       *)
(* shipment without a moderator is paid if no sale was overwritten and no   *)
(* node has restarted (CancelOfflineOrder, ConfirmOfflineOrder and          *)
(* recoverState, RefundOrder, FulfillOrder, ResendCachedOrderMessage and    *)
(* the handlers).                                                           *)
THEOREM OrderRecordsBacked == Spec => []RecordsAreBacked
  BY InvBacked, OrderInvariant, PTL

(* A vendor is paid from a moderated escrow before its timeout only after   *)
(* the buyer has learned of the shipment or the moderator has decided,      *)
(* though the vendor's record of that may be lost to an ORDER that came     *)
(* again (CompleteOrder, CloseDispute, ReleaseFunds).                       *)
THEOREM OrderSettledByAgreement == Spec => []SettledByAgreement
  BY InvAgreed, OrderInvariant, PTL

(* A payout that a trader has recorded has happened, and as recorded        *)
(* (ReleaseFunds, ReleaseFundsAfterTimeout, handleVendorFinalizedPayment,   *)
(* the listener of the wallet).                                             *)
THEOREM OrderPayoutHappened == Spec => []PayoutHappened
  BY InvPayout, OrderInvariant, PTL

=============================================================================
