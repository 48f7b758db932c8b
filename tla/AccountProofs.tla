--------------------------- MODULE AccountProofs ---------------------------
(***************************************************************************)
(* Proofs about AccountStore, for any grants, devices, capabilities and    *)
(* limit, and any failures and crashes.                                    *)
(***************************************************************************)
EXTENDS AccountStore, FiniteSetTheorems, TLAPS

(* A log without repetitions, and what that says of its size.               *)
GoodLog(v) ==
    /\ v \in Seq(Fact)
    /\ Decodes(v)
    /\ IsFiniteSet(FactsOf(v))
    /\ Cardinality(FactsOf(v)) = Len(v)

-----------------------------------------------------------------------------
(* Logs.                                                                    *)

LEMMA AppendFacts ==
  ASSUME NEW v \in Seq(Fact), NEW f \in Fact
  PROVE  /\ Append(v, f) \in Seq(Fact)
         /\ Len(Append(v, f)) = Len(v) + 1
         /\ FactsOf(Append(v, f)) = FactsOf(v) \cup {f}
  <1>1. /\ Append(v, f) \in Seq(Fact) /\ Len(Append(v, f)) = Len(v) + 1 /\ Len(v) \in Nat
        /\ DOMAIN v = 1 .. Len(v) /\ DOMAIN Append(v, f) = 1 .. Len(v) + 1
        /\ \A i \in 1 .. Len(v) : Append(v, f)[i] = v[i]
        /\ Append(v, f)[Len(v) + 1] = f
    OBVIOUS
  <1>2. FactsOf(Append(v, f)) \subseteq FactsOf(v) \cup {f}
    <2> SUFFICES ASSUME NEW i \in 1 .. Len(v) + 1
                 PROVE  Append(v, f)[i] \in FactsOf(v) \cup {f}
      BY <1>1 DEF FactsOf
    <2>1. i \in 1 .. Len(v) \/ i = Len(v) + 1
      BY <1>1
    <2> QED
      BY <1>1, <2>1 DEF FactsOf
  <1>3. FactsOf(v) \cup {f} \subseteq FactsOf(Append(v, f))
    <2>1. \A i \in 1 .. Len(v) : i \in 1 .. Len(v) + 1
      BY <1>1
    <2>2. Len(v) + 1 \in 1 .. Len(v) + 1
      BY <1>1
    <2> QED
      BY <1>1, <2>1, <2>2 DEF FactsOf
  <1> QED
    BY <1>1, <1>2, <1>3

LEMMA EmptyLog == GoodLog(<<>>) /\ FactsOf(<<>>) = {} /\ Retained(<<>>) = {}
  <1>1. FactsOf(<<>>) = {} /\ Retained(<<>>) = {} /\ Len(<<>>) = 0 /\ <<>> \in Seq(Fact)
    BY DEF FactsOf, Retained
  <1>2. Decodes(<<>>)
    BY <1>1, AccountAssumption DEF Decodes
  <1> QED
    BY <1>1, <1>2, FS_EmptySet DEF GoodLog

LEMMA AppendGood ==
  ASSUME NEW v, GoodLog(v), NEW f \in Fact, f \notin FactsOf(v), Len(v) <= MaxKnownRecords
  PROVE  GoodLog(Append(v, f))
  <1>1. v \in Seq(Fact) /\ Len(v) \in Nat /\ MaxKnownRecords \in Nat
    BY AccountAssumption DEF GoodLog
  <1>2. /\ DOMAIN v = 1 .. Len(v) /\ DOMAIN Append(v, f) = 1 .. Len(v) + 1
        /\ \A i \in 1 .. Len(v) : Append(v, f)[i] = v[i]
        /\ Append(v, f)[Len(v) + 1] = f
    BY <1>1
  <1>3. ASSUME NEW i \in 1 .. Len(v) + 1, NEW j \in 1 .. Len(v) + 1,
               Append(v, f)[i] = Append(v, f)[j]
        PROVE  i = j
    <2>1. (i \in 1 .. Len(v) \/ i = Len(v) + 1) /\ (j \in 1 .. Len(v) \/ j = Len(v) + 1)
      BY <1>1
    <2>2. \A k \in 1 .. Len(v) : v[k] # f
      BY <1>2 DEF FactsOf
    <2>3. CASE i \in 1 .. Len(v) /\ j \in 1 .. Len(v)
      BY <1>2, <1>3, <2>3 DEF GoodLog, Decodes
    <2> QED
      BY <1>2, <1>3, <2>1, <2>2, <2>3
  <1>4. Decodes(Append(v, f))
    BY <1>1, <1>2, <1>3, AppendFacts DEF Decodes
  <1>5. /\ IsFiniteSet(FactsOf(v) \cup {f})
        /\ Cardinality(FactsOf(v) \cup {f}) = Len(v) + 1
    BY FS_AddElement DEF GoodLog
  <1> QED
    BY <1>1, <1>4, <1>5, AppendFacts DEF GoodLog

(* Up to the limit every fact is retained, and no other.                    *)
LEMMA RetainsAll ==
  ASSUME NEW v \in Seq(Fact), Len(v) <= MaxKnownRecords
  PROVE  Retained(v) = FactsOf(v)
  <1>1. \A j \in DOMAIN v : j <= MaxKnownRecords
    BY AccountAssumption
  <1> QED
    BY <1>1 DEF Retained, FactsOf

LEMMA RetainsFirst ==
  ASSUME NEW v \in Seq(Fact), NEW f \in Fact, Len(v) = MaxKnownRecords
  PROVE  Retained(Append(v, f)) = FactsOf(v)
  <1>1. /\ DOMAIN v = 1 .. Len(v) /\ DOMAIN Append(v, f) = 1 .. Len(v) + 1 /\ Len(v) \in Nat
        /\ \A i \in 1 .. Len(v) : Append(v, f)[i] = v[i]
    OBVIOUS
  <1>2. {j \in DOMAIN Append(v, f) : j <= MaxKnownRecords} = DOMAIN v
    BY <1>1
  <1> QED
    BY <1>1, <1>2 DEF Retained, FactsOf

LEMMA RetainedFacts == ASSUME NEW v \in Seq(Fact) PROVE Retained(v) \subseteq FactsOf(v)
  BY DEF Retained, FactsOf

LEMMA FactsTyped == ASSUME NEW v \in Seq(Fact) PROVE FactsOf(v) \subseteq Fact
  BY DEF FactsOf

LEMMA TargetsWith ==
  ASSUME NEW kind, NEW f \in Fact, NEW S \in SUBSET Fact
  PROVE  Targets(kind, S \cup {f}) = With(kind, f, Targets(kind, S))
  BY DEF Targets, With

LEMMA TargetsTyped ==
  ASSUME NEW S \in SUBSET Fact
  PROVE  /\ Targets("grant", S) \subseteq GrantID
         /\ Targets("revokeGrant", S) \subseteq GrantID
         /\ Targets("revokeDevice", S) \subseteq Device
  BY DEF Targets, Fact

(* The state that decodeSnapshot builds is the one that Apply would reach.  *)
LEMMA DecodedTyped == ASSUME NEW v \in Seq(Fact) PROVE Decoded(v) \in KnownState
  <1>1. Retained(v) \in SUBSET Fact
    BY RetainedFacts, FactsTyped
  <1> QED
    BY <1>1, TargetsTyped, AccountAssumption DEF Decoded, KnownState

LEMMA DecodedSaturated ==
  ASSUME NEW v \in Seq(Fact)
  PROVE  Decoded(v).saturated <=> Len(v) > MaxKnownRecords
  <1>1. Decoded(v).saturated = (Len(v) > MaxKnownRecords)
    BY Zenon DEF Decoded
  <1> QED
    BY <1>1, Zenon

LEMMA DecodedContains ==
  ASSUME NEW v \in Seq(Fact), NEW f \in Fact, Len(v) <= MaxKnownRecords
  PROVE  Contains(Decoded(v), f) <=> f \in FactsOf(v)
  <1>1. /\ Decoded(v).grants = Targets("grant", FactsOf(v))
        /\ Decoded(v).revokedGrants = Targets("revokeGrant", FactsOf(v))
        /\ Decoded(v).revokedDevices = Targets("revokeDevice", FactsOf(v))
    BY RetainsAll DEF Decoded
  <1>2. \A kind : f.kind = kind => (f.target \in Targets(kind, FactsOf(v)) <=> f \in FactsOf(v))
    <2> SUFFICES f.target \in Targets(f.kind, FactsOf(v)) <=> f \in FactsOf(v)
      OBVIOUS
    <2>1. ASSUME NEW h \in FactsOf(v), h.kind = f.kind, h.target = f.target PROVE h = f
      BY <2>1, FactsTyped DEF Fact
    <2> QED
      BY <2>1 DEF Targets
  <1>3. f.kind \in {"grant", "revokeGrant", "revokeDevice"}
    BY DEF Fact
  <1> QED
    BY <1>1, <1>2, <1>3 DEF Contains

LEMMA AppliedDecoded ==
  ASSUME NEW v \in Seq(Fact), NEW f \in Fact, f \notin FactsOf(v), Len(v) <= MaxKnownRecords
  PROVE  Applied(Decoded(v), f) = Decoded(Append(v, f))
  <1>1. ~Contains(Decoded(v), f)
    BY DecodedContains
  <1>2. Len(v) \in Nat /\ MaxKnownRecords \in Nat
    BY AccountAssumption
  <1>3. Len(Append(v, f)) = Len(v) + 1
    OBVIOUS
  <1>6. /\ Retained(v) = FactsOf(v) /\ Retained(v) \in SUBSET Fact
        /\ Append(v, f) \in Seq(Fact) /\ FactsOf(Append(v, f)) = FactsOf(v) \cup {f}
    BY RetainsAll, AppendFacts, FactsTyped
  <1>7. Decoded(v) =
          [grants |-> Targets("grant", Retained(v)),
           revokedGrants |-> Targets("revokeGrant", Retained(v)),
           revokedDevices |-> Targets("revokeDevice", Retained(v)),
           recordCount |-> Len(v), saturated |-> FALSE]
    <2>1. (Len(v) > MaxKnownRecords) = FALSE /\ (Len(v) <= MaxKnownRecords) = TRUE
      BY <1>2
    <2> QED
      BY <2>1, Zenon DEF Decoded
  <1>8. Decoded(v).saturated = FALSE /\ Decoded(v).recordCount = Len(v)
    BY <1>7
  <1>4. CASE Len(v) = MaxKnownRecords
    <2>1. Applied(Decoded(v), f) = Saturated(Decoded(v))
      BY <1>1, <1>2, <1>4, <1>8 DEF Applied
    <2>2. Retained(Append(v, f)) = Retained(v)
      BY <1>4, <1>6, RetainsFirst
    <2>3. /\ (Len(Append(v, f)) > MaxKnownRecords) = TRUE
          /\ (Len(Append(v, f)) <= MaxKnownRecords) = FALSE
      BY <1>2, <1>3, <1>4
    <2>4. Decoded(Append(v, f)) =
            [grants |-> Targets("grant", Retained(v)),
             revokedGrants |-> Targets("revokeGrant", Retained(v)),
             revokedDevices |-> Targets("revokeDevice", Retained(v)),
             recordCount |-> Len(v), saturated |-> TRUE]
      BY <1>4, <2>2, <2>3, Zenon DEF Decoded
    <2>5. Saturated(Decoded(v)) =
            [grants |-> Targets("grant", Retained(v)),
             revokedGrants |-> Targets("revokeGrant", Retained(v)),
             revokedDevices |-> Targets("revokeDevice", Retained(v)),
             recordCount |-> Len(v), saturated |-> TRUE]
      BY <1>7 DEF Saturated
    <2> QED
      BY <2>1, <2>4, <2>5
  <1>5. CASE Len(v) < MaxKnownRecords
    <2>1. Applied(Decoded(v), f) = Inserted(Decoded(v), f)
      BY <1>1, <1>2, <1>5, <1>8 DEF Applied
    <2>2. Retained(Append(v, f)) = Retained(v) \cup {f}
      <3>1. Len(Append(v, f)) <= MaxKnownRecords
        BY <1>2, <1>3, <1>5
      <3> QED
        BY <1>6, <3>1, RetainsAll
    <2>3. \A kind : Targets(kind, Retained(Append(v, f))) = With(kind, f, Targets(kind, Retained(v)))
      BY <1>6, <2>2, TargetsWith
    <2>4. /\ (Len(Append(v, f)) > MaxKnownRecords) = FALSE
          /\ (Len(Append(v, f)) <= MaxKnownRecords) = TRUE
      BY <1>2, <1>3, <1>5
    <2>5. Decoded(Append(v, f)) =
            [grants |-> With("grant", f, Targets("grant", Retained(v))),
             revokedGrants |-> With("revokeGrant", f, Targets("revokeGrant", Retained(v))),
             revokedDevices |-> With("revokeDevice", f, Targets("revokeDevice", Retained(v))),
             recordCount |-> Len(v) + 1, saturated |-> FALSE]
      BY <1>3, <2>3, <2>4, Zenon DEF Decoded
    <2>6. Inserted(Decoded(v), f) =
            [grants |-> With("grant", f, Targets("grant", Retained(v))),
             revokedGrants |-> With("revokeGrant", f, Targets("revokeGrant", Retained(v))),
             revokedDevices |-> With("revokeDevice", f, Targets("revokeDevice", Retained(v))),
             recordCount |-> Len(v) + 1, saturated |-> FALSE]
      BY <1>7 DEF Inserted
    <2> QED
      BY <2>1, <2>5, <2>6
  <1> QED
    BY <1>2, <1>4, <1>5

-----------------------------------------------------------------------------
(* The inductive invariant of the values, however the store is opened: all  *)
(* values decode, and a handle has the state of the log it has written.     *)

LogsGood == \A v \in survivors \cup {shown} : v # None => GoodLog(v)

HandleGood ==
    /\ handle = Closed
       \/ handle = [stage |-> "creating"]
       \/ (handle.stage = "open" /\ handle \in Handle)
    /\ handle.stage = "creating" => shown = <<>>
    /\ handle.stage = "open" =>
          /\ GoodLog(handle.records)
          /\ handle.state = Decoded(handle.records)
          /\ handle.work = None => shown = handle.records
          /\ handle.work # None =>
                /\ handle.work \in Fact \ FactsOf(handle.records)
                /\ Len(handle.records) <= MaxKnownRecords
                /\ shown = Append(handle.records, handle.work)

ValueInv ==
    /\ shown \in survivors
    /\ accepted \subseteq Fact
    /\ rejected \in BOOLEAN
    /\ LogsGood
    /\ HandleGood

LEMMA NoneIsNoLog == ASSUME NEW v \in Seq(Fact) PROVE v # None
  BY StoreAssumption

LEMMA NoneIsNoFact == ASSUME NEW f \in Fact PROVE f # None
  BY StoreAssumption

LEMMA ValuesTyped == ASSUME ValueInv PROVE TypeOK
  <1>1. shown \in Value /\ survivors \subseteq Value
    BY DEF ValueInv, LogsGood, GoodLog, Value
  <1>2. handle \in Handle
    BY DEF ValueInv, HandleGood, Handle
  <1> QED
    BY <1>1, <1>2 DEF ValueInv, TypeOK

LEMMA ValueInit == ASSUME Init PROVE ValueInv
  BY DEF Init, ValueInv, LogsGood, HandleGood, Closed

(* A handle that is open and idle over a good log.                          *)
LEMMA OpenedGood ==
  ASSUME NEW v, GoodLog(v), handle' = Opened(v), shown' = v
  PROVE  HandleGood'
  <1>1. /\ handle'.stage = "open" /\ handle'.records = v /\ handle'.work = None
        /\ handle'.state = Decoded(v) /\ v \in Seq(Fact) /\ Decoded(v) \in KnownState
    BY DecodedTyped DEF Opened, GoodLog
  <1>2. handle' \in Handle
    BY <1>1 DEF Opened, Handle
  <1> QED
    BY <1>1, <1>2 DEF HandleGood

LEMMA ClosedGood == ASSUME handle' = Closed PROVE HandleGood'
  BY DEF HandleGood, Closed

(* Values that are put are good.                                            *)
LEMMA PutGood ==
  ASSUME ValueInv, NEW v, GoodLog(v), Put(v)
  PROVE  LogsGood' /\ shown' \in survivors'
  BY DEF Put, ValueInv, LogsGood

(* What Apply may append.                                                   *)
LEMMA ApplicableGood ==
  ASSUME ValueInv, NEW f \in Fact, Applies(f)
  PROVE  /\ GoodLog(handle.records) /\ shown = handle.records
         /\ handle.state = Decoded(handle.records)
         /\ handle.stage = "open" /\ handle \in Handle
         /\ Len(handle.records) <= MaxKnownRecords
         /\ f \notin FactsOf(handle.records)
         /\ GoodLog(Append(handle.records, f))
  <1>1. /\ GoodLog(handle.records) /\ shown = handle.records
        /\ handle.state = Decoded(handle.records) /\ handle.stage = "open"
        /\ f \notin FactsOf(handle.records) /\ ~handle.state.saturated
        /\ handle \in Handle
    BY DEF ValueInv, HandleGood, Applies, Idle, Closed
  <1>2. ~(Len(handle.records) > MaxKnownRecords)
    BY <1>1, DecodedSaturated DEF GoodLog
  <1>3. Len(handle.records) <= MaxKnownRecords
    BY <1>1, <1>2, AccountAssumption DEF GoodLog
  <1> QED
    BY <1>1, <1>3, AppendGood

LEMMA SyncedGood ==
  ASSUME ValueInv, handle.stage = "open", handle.work # None
  PROVE  /\ shown = Append(handle.records, handle.work)
         /\ GoodLog(handle.records) /\ GoodLog(shown)
         /\ handle.work \in Fact \ FactsOf(handle.records)
         /\ Len(handle.records) <= MaxKnownRecords
         /\ Applied(handle.state, handle.work) = Decoded(shown)
  <1>1. /\ shown = Append(handle.records, handle.work)
        /\ GoodLog(handle.records)
        /\ handle.work \in Fact \ FactsOf(handle.records)
        /\ Len(handle.records) <= MaxKnownRecords
        /\ handle.state = Decoded(handle.records)
    BY DEF ValueInv, HandleGood
  <1>2. GoodLog(shown)
    BY <1>1, AppendGood
  <1>3. Applied(Decoded(handle.records), handle.work) = Decoded(shown)
    BY <1>1, AppliedDecoded DEF GoodLog
  <1> QED
    BY <1>1, <1>2, <1>3

LEMMA SyncedOpens ==
  ASSUME ValueInv, Synced
  PROVE  handle' = Opened(shown) /\ survivors' = {shown} /\ shown' = shown
  <1>1. /\ shown = Append(handle.records, handle.work)
        /\ Applied(handle.state, handle.work) = Decoded(shown)
    BY SyncedGood DEF Synced
  <1> QED
    BY <1>1 DEF Synced, Opened

LEMMA ValueNext == ASSUME ValueInv, [Next]_vars PROVE ValueInv'
  <1>1. CASE Create
    <2>1. LogsGood' /\ shown' \in survivors' /\ shown' = <<>>
      BY <1>1, EmptyLog, PutGood DEF Create, Put
    <2> QED
      BY <1>1, <2>1 DEF Create, ValueInv, HandleGood, history
  <1>2. CASE Created
    <2>1. shown = <<>> /\ GoodLog(<<>>) /\ shown' = shown /\ survivors' = {shown}
          /\ UNCHANGED history
      BY <1>2, EmptyLog DEF Created, ValueInv, HandleGood
    <2>2. HandleGood'
      BY <1>2, <2>1, OpenedGood DEF Created
    <2> QED
      BY <2>1, <2>2 DEF ValueInv, LogsGood, history
  <1>3. CASE CreateFails \/ SyncFails \/ Close
    <2>1. handle' = Closed /\ UNCHANGED <<disk, history>>
      BY <1>3 DEF CreateFails, SyncFails, Close
    <2> QED
      BY <2>1, ClosedGood DEF ValueInv, LogsGood, disk, history
  <1>4. CASE Open
    <2>1. /\ GoodLog(shown) /\ handle' = Opened(shown) /\ UNCHANGED <<disk, history>>
      BY <1>4 DEF Open, ValueInv, LogsGood
    <2>2. HandleGood'
      BY <2>1, OpenedGood DEF disk
    <2> QED
      BY <2>1, <2>2 DEF ValueInv, LogsGood, disk, history
  <1>5. CASE ApplyRejected
    BY <1>5 DEF ApplyRejected, ValueInv, LogsGood, HandleGood, disk
  <1>6. ASSUME NEW f \in Fact, ApplyDuplicate(f) PROVE ValueInv'
    BY <1>6 DEF ApplyDuplicate, ValueInv, LogsGood, HandleGood, disk
  <1>7. ASSUME NEW f \in Fact, Apply(f) PROVE ValueInv'
    <2>1. /\ GoodLog(handle.records) /\ handle.state = Decoded(handle.records)
          /\ Len(handle.records) <= MaxKnownRecords /\ f \notin FactsOf(handle.records)
          /\ GoodLog(Append(handle.records, f))
      BY <1>7, ApplicableGood DEF Apply
    <2>2. /\ shown' = Append(handle.records, f) /\ UNCHANGED history
          /\ handle'.stage = "open" /\ handle'.state = handle.state
          /\ handle'.records = handle.records /\ handle'.work = f
          /\ handle' = [stage |-> "open", state |-> handle.state,
                        records |-> handle.records, work |-> f]
      BY <1>7 DEF Apply, Put
    <2>3. LogsGood' /\ shown' \in survivors'
      BY <1>7, <2>1, PutGood DEF Apply
    <2>4. handle' \in Handle
      BY <2>1, <2>2, DecodedTyped DEF Handle, GoodLog
    <2>5. HandleGood'
      BY <2>1, <2>2, <2>4, NoneIsNoFact DEF HandleGood, Closed
    <2> QED
      BY <2>2, <2>3, <2>5 DEF ValueInv, history
  <1>8. ASSUME NEW f \in Fact, PutFails(f) PROVE ValueInv'
    <2>1. GoodLog(Append(handle.records, f))
      BY <1>8, ApplicableGood DEF PutFails
    <2>2. LogsGood' /\ shown' \in survivors'
      <3>1. CASE Put(Append(handle.records, f))
        BY <2>1, <3>1, PutGood
      <3>2. CASE UNCHANGED disk
        BY <3>2 DEF ValueInv, LogsGood, disk
      <3> QED
        BY <1>8, <3>1, <3>2 DEF PutFails
    <2> QED
      BY <1>8, <2>2, ClosedGood DEF PutFails, ValueInv, history
  <1>9. CASE Synced
    <2>1. handle' = Opened(shown) /\ survivors' = {shown} /\ shown' = shown /\ GoodLog(shown)
      BY <1>9, SyncedOpens, SyncedGood DEF Synced
    <2>2. HandleGood'
      BY <2>1, OpenedGood
    <2>3. handle.work \in Fact
      BY <1>9, SyncedGood DEF Synced
    <2>4. accepted' \subseteq Fact /\ rejected' \in BOOLEAN
      BY <1>9, <2>3 DEF Synced, ValueInv
    <2> QED
      BY <2>1, <2>2, <2>4 DEF ValueInv, LogsGood
  <1>10. CASE Crash
    <2>1. HandleGood'
      BY <1>10, ClosedGood DEF Crash
    <2> QED
      BY <1>10, <2>1 DEF Crash, ValueInv, LogsGood, history
  <1>11. CASE UNCHANGED vars
    BY <1>11 DEF vars, disk, history, ValueInv, LogsGood, HandleGood
  <1> QED
    BY <1>1, <1>2, <1>3, <1>4, <1>5, <1>6, <1>7, <1>8, <1>9, <1>10, <1>11 DEF Next

(* The values of the account store stay good, whatever fails and however it *)
(* is opened.                                                               *)
THEOREM AccountValues == Spec => []ValueInv
  BY ValueInit, ValueNext, PTL DEF Spec

(* Every variable of the account store keeps its type.                      *)
THEOREM AccountTypes == Spec => []TypeOK
  BY AccountValues, ValuesTyped, PTL

(* Whatever may survive a crash can be opened again.                        *)
THEOREM AccountAlwaysDecodes == Spec => []AlwaysDecodes
  <1>1. ValueInv => AlwaysDecodes
    BY DEF ValueInv, LogsGood, GoodLog, AlwaysDecodes
  <1> QED
    BY <1>1, AccountValues, PTL

(* The state built one fact at a time is the one that Open would rebuild.   *)
THEOREM AccountReopenAgrees == Spec => []ReopenAgrees
  <1>1. ValueInv => ReopenAgrees
    BY DEF ValueInv, HandleGood, ReopenAgrees, Idle
  <1> QED
    BY <1>1, AccountValues, PTL

-----------------------------------------------------------------------------
(* When the store is opened over settled values only: at most the last fact *)
(* of a log is in doubt.                                                    *)

(* The value v is sure, and f may have been added to it.                    *)
Doubt(v, f) ==
    /\ GoodLog(v)
    /\ f \in Fact \ FactsOf(v)
    /\ Len(v) <= MaxKnownRecords
    /\ shown = Append(v, f)
    /\ survivors = {v, shown}

Chain ==
    \/ shown = None /\ survivors = {None}
    \/ shown = <<>> /\ survivors = {None, <<>>}
    \/ shown # None /\ survivors = {shown}
    \/ \E v \in Seq(Fact), f \in Fact : Doubt(v, f)

HandleSure ==
    /\ Idle => survivors = {shown}
    /\ handle.stage = "creating" => survivors \in {{None, <<>>}, {<<>>}}
    /\ handle.stage = "open" /\ handle.work # None => Doubt(handle.records, handle.work)

SureInv == Chain /\ HandleSure /\ AnswersSurvive

LEMMA NoneIsNoEmptyLog == <<>> # None
  BY EmptyLog, NoneIsNoLog DEF GoodLog

LEMMA SureInit == ASSUME Init PROVE SureInv
  BY DEF Init, SureInv, Chain, HandleSure, AnswersSurvive, Idle, Closed

(* An idle handle and its log.                                              *)
LEMMA IdleSure ==
  ASSUME ValueInv, SureInv, Idle
  PROVE  /\ survivors = {shown} /\ shown = handle.records /\ GoodLog(shown)
         /\ shown # None /\ handle.state = Decoded(shown)
  <1>1. shown = handle.records /\ GoodLog(shown) /\ handle.state = Decoded(shown)
    BY DEF ValueInv, HandleGood, Idle
  <1> QED
    BY <1>1, NoneIsNoLog DEF SureInv, HandleSure, GoodLog

(* One more fact is put and not yet synced.                                 *)
LEMMA PutInDoubt ==
  ASSUME ValueInv, SureInv, NEW f \in Fact, Applies(f), Put(Append(handle.records, f)),
         UNCHANGED history
  PROVE  /\ GoodLog(handle.records)
         /\ f \in Fact \ FactsOf(handle.records)
         /\ Len(handle.records) <= MaxKnownRecords
         /\ shown' = Append(handle.records, f)
         /\ survivors' = {handle.records, shown'}
         /\ Chain'
         /\ AnswersSurvive'
  <1>1. /\ GoodLog(handle.records) /\ shown = handle.records /\ survivors = {shown}
        /\ Len(handle.records) <= MaxKnownRecords /\ f \notin FactsOf(handle.records)
        /\ GoodLog(Append(handle.records, f)) /\ ~handle.state.saturated
    BY ApplicableGood, IdleSure DEF Applies
  <1>2. shown' = Append(handle.records, f) /\ survivors' = {handle.records, shown'}
    BY <1>1 DEF Put
  <1>3. Chain'
    BY <1>1, <1>2 DEF Chain, Doubt, GoodLog
  <1>4. AnswersSurvive'
    <2>1. handle.records \in Seq(Fact) /\ handle.records # None
      BY <1>1, NoneIsNoLog DEF GoodLog
    <2>2. FactsOf(handle.records) \subseteq FactsOf(shown') /\ shown' # None
      BY <1>1, <1>2, <2>1, AppendFacts, NoneIsNoLog
    <2>3. accepted \subseteq FactsOf(handle.records) /\ accepted' = accepted
      BY <1>1, <2>1 DEF SureInv, AnswersSurvive, history
    <2>4. ~rejected /\ rejected' = rejected
      <3>1. rejected => Len(handle.records) = MaxKnownRecords + 1
        BY <1>1 DEF SureInv, AnswersSurvive
      <3> QED
        BY <1>1, <3>1, AccountAssumption DEF GoodLog, history, ValueInv
    <2> QED
      BY <1>2, <2>1, <2>2, <2>3, <2>4 DEF AnswersSurvive
  <1> QED
    BY <1>1, <1>2, <1>3, <1>4

LEMMA SureSame ==
  ASSUME SureInv, UNCHANGED <<disk, history>>, HandleSure'
  PROVE  SureInv'
  BY DEF SureInv, Chain, Doubt, AnswersSurvive, disk, history

LEMMA ClosedSure == ASSUME handle' = Closed PROVE HandleSure'
  BY DEF HandleSure, Idle, Closed

LEMMA SettledSure ==
  ASSUME survivors' = {shown'}, shown' # None, HandleSure', AnswersSurvive'
  PROVE  SureInv'
  BY DEF SureInv, Chain

LEMMA OpenedSure ==
  ASSUME NEW v, handle' = Opened(v), survivors' = {shown'}
  PROVE  HandleSure'
  BY DEF HandleSure, Idle, Opened

LEMMA SureNext ==
  ASSUME ValueInv, SureInv, [Next]_vars, Reopens = FALSE
  PROVE  SureInv'
  <1>1. CASE Create
    <2>1. survivors = {None}
      <3>1. ASSUME NEW v \in Seq(Fact), NEW f \in Fact, Doubt(v, f) PROVE FALSE
        BY <1>1, <3>1, AppendFacts, NoneIsNoLog DEF Create, Doubt
      <3> QED
        BY <1>1, <3>1, NoneIsNoEmptyLog DEF Create, SureInv, Chain
    <2>2. accepted = {} /\ ~rejected
      BY <2>1 DEF SureInv, AnswersSurvive
    <2>3. /\ shown' = <<>> /\ survivors' = {None, <<>>} /\ UNCHANGED history
          /\ handle'.stage = "creating"
      BY <1>1, <2>1 DEF Create, Put
    <2> QED
      BY <2>2, <2>3 DEF SureInv, Chain, HandleSure, Idle, AnswersSurvive, history
  <1>2. CASE Created
    <2>1. shown = <<>> /\ survivors' = {shown'} /\ shown' = shown /\ UNCHANGED history
          /\ handle' = Opened(<<>>)
      BY <1>2 DEF Created, ValueInv, HandleGood
    <2>2. None \in survivors \/ survivors = {<<>>}
      BY <1>2 DEF Created, SureInv, HandleSure
    <2>3. AnswersSurvive'
      <3>1. CASE None \in survivors
        BY <2>1, <3>1 DEF SureInv, AnswersSurvive, history
      <3>2. CASE survivors = {<<>>}
        BY <2>1, <3>2 DEF SureInv, AnswersSurvive, history
      <3> QED
        BY <2>2, <3>1, <3>2
    <2>4. HandleSure'
      BY <2>1, OpenedSure
    <2> QED
      BY <2>1, <2>3, <2>4, SettledSure, NoneIsNoEmptyLog
  <1>3. CASE CreateFails \/ SyncFails \/ Close
    <2>1. handle' = Closed /\ UNCHANGED <<disk, history>>
      BY <1>3 DEF CreateFails, SyncFails, Close
    <2> QED
      BY <2>1, ClosedSure, SureSame
  <1>4. CASE Open
    <2>1. handle' = Opened(shown) /\ UNCHANGED <<disk, history>> /\ survivors = {shown}
      BY <1>4 DEF Open, Settled
    <2>2. HandleSure'
      BY <2>1, OpenedSure DEF disk
    <2> QED
      BY <2>1, <2>2, SureSame
  <1>5. CASE ApplyRejected
    <2>1. /\ survivors = {shown} /\ GoodLog(shown) /\ shown # None
          /\ handle.state = Decoded(shown) /\ handle.state.saturated
      BY <1>5, IdleSure DEF ApplyRejected
    <2>2. Len(shown) = MaxKnownRecords + 1
      BY <2>1, DecodedSaturated, AccountAssumption DEF GoodLog, Decodes
    <2>3. /\ rejected' = TRUE /\ UNCHANGED <<disk, handle, accepted>>
      BY <1>5 DEF ApplyRejected
    <2>4. AnswersSurvive'
      BY <2>1, <2>2, <2>3 DEF SureInv, AnswersSurvive, disk
    <2>5. HandleSure'
      BY <2>3 DEF SureInv, HandleSure, Idle, Doubt, disk
    <2> QED
      BY <2>1, <2>3, <2>4, <2>5, SettledSure DEF disk
  <1>6. ASSUME NEW f \in Fact, ApplyDuplicate(f) PROVE SureInv'
    <2>1. /\ survivors = {shown} /\ shown # None /\ f \in FactsOf(shown)
      BY <1>6, IdleSure DEF ApplyDuplicate
    <2>2. accepted' = accepted \cup {f} /\ UNCHANGED <<disk, handle, rejected>>
      BY <1>6 DEF ApplyDuplicate
    <2>4. AnswersSurvive'
      BY <2>1, <2>2 DEF SureInv, AnswersSurvive, disk
    <2>5. HandleSure'
      BY <2>2 DEF SureInv, HandleSure, Idle, Doubt, disk
    <2> QED
      BY <2>1, <2>2, <2>4, <2>5, SettledSure DEF disk
  <1>7. ASSUME NEW f \in Fact, Apply(f) PROVE SureInv'
    <2>1. /\ GoodLog(handle.records) /\ f \in Fact \ FactsOf(handle.records)
          /\ Len(handle.records) <= MaxKnownRecords
          /\ shown' = Append(handle.records, f)
          /\ survivors' = {handle.records, shown'}
          /\ Chain' /\ AnswersSurvive'
      BY <1>7, PutInDoubt DEF Apply
    <2>2. handle'.stage = "open" /\ handle'.records = handle.records /\ handle'.work = f
      BY <1>7 DEF Apply
    <2>3. HandleSure'
      BY <2>1, <2>2, NoneIsNoFact DEF HandleSure, Idle, Doubt
    <2> QED
      BY <2>1, <2>3 DEF SureInv
  <1>8. ASSUME NEW f \in Fact, PutFails(f) PROVE SureInv'
    <2>1. Applies(f) /\ handle' = Closed /\ UNCHANGED history
      BY <1>8 DEF PutFails
    <2>2. CASE Put(Append(handle.records, f))
      BY <2>1, <2>2, PutInDoubt, ClosedSure DEF SureInv
    <2>3. CASE UNCHANGED disk
      BY <2>1, <2>3, ClosedSure, SureSame
    <2> QED
      BY <1>8, <2>2, <2>3 DEF PutFails
  <1>9. CASE Synced
    <2>1. /\ handle' = Opened(shown) /\ survivors' = {shown} /\ shown' = shown /\ GoodLog(shown)
          /\ shown # None /\ shown = Append(handle.records, handle.work)
          /\ handle.work \in Fact /\ handle.records \in Seq(Fact)
          /\ Applied(handle.state, handle.work) = Decoded(shown)
      BY <1>9, SyncedOpens, SyncedGood, NoneIsNoLog DEF Synced, GoodLog
    <2>2. shown \in survivors
      BY DEF ValueInv
    <2>3. handle.work \in FactsOf(shown)
      BY <2>1, AppendFacts
    <2>4. Decoded(shown).saturated => Len(shown) = MaxKnownRecords + 1
      <3>1. /\ shown \in Seq(Fact) /\ Len(shown) <= MaxKnownRecords + 1
            /\ Len(shown) \in Nat /\ MaxKnownRecords \in Nat
        BY <2>1, AccountAssumption DEF GoodLog, Decodes
      <3> QED
        BY <3>1, DecodedSaturated
    <2>5. CASE Decoded(shown).saturated
      <3>1. rejected' = TRUE /\ accepted' = accepted
        BY <1>9, <2>1, <2>5 DEF Synced
      <3>2. AnswersSurvive'
        BY <2>1, <2>2, <2>4, <2>5, <3>1 DEF SureInv, AnswersSurvive
      <3> QED
        BY <2>1, <3>2, OpenedSure, SettledSure
    <2>6. CASE ~Decoded(shown).saturated
      <3>1. accepted' = accepted \cup {handle.work} /\ rejected' = rejected
        BY <1>9, <2>1, <2>6 DEF Synced
      <3>2. AnswersSurvive'
        BY <2>1, <2>2, <2>3, <3>1 DEF SureInv, AnswersSurvive
      <3> QED
        BY <2>1, <3>2, OpenedSure, SettledSure
    <2> QED
      BY <2>5, <2>6
  <1>10. CASE Crash
    <2>1. shown' \in survivors /\ survivors' = {shown'} /\ UNCHANGED history /\ handle' = Closed
      BY <1>10 DEF Crash
    <2>2. AnswersSurvive'
      BY <2>1 DEF SureInv, AnswersSurvive, history
    <2> QED
      BY <2>1, <2>2, ClosedSure DEF SureInv, Chain
  <1>11. CASE UNCHANGED vars
    <2>1. UNCHANGED <<disk, history>> /\ handle' = handle
      BY <1>11 DEF vars
    <2>2. HandleSure'
      BY <2>1 DEF SureInv, HandleSure, Idle, Doubt, disk
    <2> QED
      BY <2>1, <2>2, SureSame
  <1> QED
    BY <1>1, <1>2, <1>3, <1>4, <1>5, <1>6, <1>7, <1>8, <1>9, <1>10, <1>11 DEF Next

THEOREM AccountSure == ASSUME Reopens = FALSE PROVE Spec => [](ValueInv /\ SureInv)
  <1>1. Init => ValueInv /\ SureInv
    BY ValueInit, SureInit
  <1>2. ValueInv /\ SureInv /\ [Next]_vars => (ValueInv /\ SureInv)'
    BY ValueNext, SureNext
  <1> QED
    BY <1>1, <1>2, PTL DEF Spec

(* What an Apply has answered survives every crash, if the store is opened  *)
(* over settled values only.                                                *)
THEOREM AccountAnswersSurvive ==
  ASSUME Reopens = FALSE PROVE Spec => []AnswersSurvive
  <1>1. ValueInv /\ SureInv => AnswersSurvive
    BY DEF SureInv
  <1> QED
    BY <1>1, AccountSure, PTL

-----------------------------------------------------------------------------
(* Authority.                                                               *)

LEMMA BackedBySure == ASSUME ValueInv, SureInv PROVE AuthorityIsBacked
  <1> SUFFICES ASSUME handle.stage = "open",
                      NEW g \in GrantID, NEW device \in Device,
                      NEW required \in SUBSET Capability,
                      AuthorizesKnown(handle.state, g, device, required)
               PROVE  /\ \A v \in survivors : [kind |-> "grant", target |-> g] \in FactsOf(v)
                      /\ [kind |-> "revokeGrant", target |-> g] \notin accepted
                      /\ [kind |-> "revokeDevice", target |-> device] \notin accepted
                      /\ ~rejected
    BY DEF AuthorityIsBacked
  <1> DEFINE r == handle.records
  <1>1. GoodLog(r) /\ r \in Seq(Fact) /\ handle.state = Decoded(r) /\ r # None
    BY NoneIsNoLog DEF ValueInv, HandleGood, GoodLog
  <1>2. /\ ~Decoded(r).saturated /\ g \in Decoded(r).grants
        /\ g \notin Decoded(r).revokedGrants /\ device \notin Decoded(r).revokedDevices
    BY <1>1 DEF AuthorizesKnown
  <1>3. Len(r) <= MaxKnownRecords
    BY <1>1, <1>2, DecodedSaturated, AccountAssumption
  <1>4. /\ g \in Targets("grant", FactsOf(r))
        /\ g \notin Targets("revokeGrant", FactsOf(r))
        /\ device \notin Targets("revokeDevice", FactsOf(r))
    BY <1>1, <1>2, <1>3, RetainsAll DEF Decoded
  <1>5. [kind |-> "grant", target |-> g] \in FactsOf(r)
    <2>1. PICK f \in FactsOf(r) : f.kind = "grant" /\ f.target = g
      BY <1>4 DEF Targets
    <2>2. f = [kind |-> "grant", target |-> g]
      BY <1>1, <2>1, FactsTyped DEF Fact
    <2> QED
      BY <2>1, <2>2
  <1>6. /\ [kind |-> "revokeGrant", target |-> g] \notin FactsOf(r)
        /\ [kind |-> "revokeDevice", target |-> device] \notin FactsOf(r)
    BY <1>4 DEF Targets
  <1>7. r \in survivors /\ \A v \in survivors : FactsOf(r) \subseteq FactsOf(v)
    <2>1. CASE handle.work = None
      BY <2>1, IdleSure DEF Idle
    <2>2. CASE handle.work # None
      <3>1. Doubt(r, handle.work)
        BY <2>2 DEF SureInv, HandleSure
      <3> QED
        BY <1>1, <3>1, AppendFacts DEF Doubt
    <2> QED
      BY <2>1, <2>2
  <1>8. accepted \subseteq FactsOf(r) /\ (rejected => Len(r) = MaxKnownRecords + 1)
    BY <1>7 DEF SureInv, AnswersSurvive
  <1>9. ~rejected
    BY <1>1, <1>3, <1>8, AccountAssumption DEF ValueInv
  <1> QED
    BY <1>5, <1>6, <1>7, <1>8, <1>9

(* Authority that a handle shows is durable and not revoked.                *)
THEOREM AccountAuthorityIsBacked ==
  ASSUME Reopens = FALSE PROVE Spec => []AuthorityIsBacked
  BY AccountSure, BackedBySure, PTL

-----------------------------------------------------------------------------
(* The refinement.  What is known is what the shortest survivor retains.    *)

LEMMA KnownNothing ==
  ASSUME None \in survivors
  PROVE  Known = {} /\ ~Denied
  BY DEF Known, Denied

LEMMA NothingAfter ==
  ASSUME None \in survivors'
  PROVE  Known' = {} /\ ~Denied'
  BY DEF Known, Denied

LEMMA KnownOne ==
  ASSUME NEW v \in Seq(Fact), survivors = {v}
  PROVE  Known = Retained(v) /\ (Denied <=> Len(v) > MaxKnownRecords)
  <1>1. v # None /\ Retained(v) \subseteq Fact
    BY NoneIsNoLog, RetainedFacts, FactsTyped
  <1> QED
    BY <1>1 DEF Known, Denied

LEMMA KnownOnePrimed ==
  ASSUME NEW v \in Seq(Fact), survivors' = {v}
  PROVE  Known' = Retained(v) /\ (Denied' <=> Len(v) > MaxKnownRecords)
  <1>1. v # None /\ Retained(v) \subseteq Fact
    BY NoneIsNoLog, RetainedFacts, FactsTyped
  <1> QED
    BY <1>1 DEF Known, Denied

LEMMA KnownTwo ==
  ASSUME NEW v \in Seq(Fact), NEW f \in Fact, Doubt(v, f)
  PROVE  Known = FactsOf(v) /\ ~Denied /\ Retained(v) = FactsOf(v)
  <1>1. /\ v # None /\ shown # None /\ FactsOf(v) \subseteq Fact /\ shown = Append(v, f)
        /\ survivors = {v, shown} /\ Len(v) \in Nat /\ shown \in Seq(Fact)
        /\ Len(shown) = Len(v) + 1 /\ FactsOf(shown) = FactsOf(v) \cup {f}
        /\ Len(v) <= MaxKnownRecords /\ MaxKnownRecords \in Nat
    BY NoneIsNoLog, FactsTyped, AppendFacts, AccountAssumption DEF Doubt
  <1>2. Retained(v) = FactsOf(v)
    BY <1>1, RetainsAll
  <1>3. FactsOf(v) \subseteq Retained(shown)
    <2>1. CASE Len(v) = MaxKnownRecords
      BY <1>1, <2>1, RetainsFirst
    <2>2. CASE Len(v) < MaxKnownRecords
      <3>1. Len(shown) <= MaxKnownRecords
        BY <1>1, <2>2
      <3> QED
        BY <1>1, <3>1, RetainsAll
    <2> QED
      BY <1>1, <2>1, <2>2
  <1>4. ~(Len(v) > MaxKnownRecords)
    BY <1>1
  <1> QED
    BY <1>1, <1>2, <1>3, <1>4 DEF Known, Denied

LEMMA KnownTwoPrimed ==
  ASSUME NEW v \in Seq(Fact), NEW f \in Fact, GoodLog(v), f \notin FactsOf(v),
         Len(v) <= MaxKnownRecords, shown' = Append(v, f), survivors' = {v, shown'}
  PROVE  Known' = FactsOf(v) /\ ~Denied'
  <1>1. /\ v # None /\ shown' # None /\ FactsOf(v) \subseteq Fact
        /\ Len(v) \in Nat /\ shown' \in Seq(Fact)
        /\ Len(shown') = Len(v) + 1 /\ FactsOf(shown') = FactsOf(v) \cup {f}
        /\ MaxKnownRecords \in Nat
    BY NoneIsNoLog, FactsTyped, AppendFacts, AccountAssumption
  <1>2. Retained(v) = FactsOf(v)
    BY RetainsAll
  <1>3. FactsOf(v) \subseteq Retained(shown')
    <2>1. CASE Len(v) = MaxKnownRecords
      BY <2>1, RetainsFirst
    <2>2. CASE Len(v) < MaxKnownRecords
      <3>1. Len(shown') <= MaxKnownRecords
        BY <1>1, <2>2
      <3> QED
        BY <1>1, <3>1, RetainsAll
    <2> QED
      BY <1>1, <2>1, <2>2
  <1>4. ~(Len(v) > MaxKnownRecords)
    BY <1>1
  <1> QED
    BY <1>1, <1>2, <1>3, <1>4 DEF Known, Denied

LEMMA Stutters ==
  ASSUME Known' = Known, Denied' <=> Denied
  PROVE  [A!Next]_<<Known, Denied>>
  <1>1. Denied' = Denied
    BY Zenon DEF Denied
  <1> QED
    BY <1>1, Zenon

LEMMA Denies ==
  ASSUME Known' = Known, ~Denied, Denied', Cardinality(Known) = MaxKnownRecords
  PROVE  A!Deny
  <1>1. Denied' = TRUE
    BY Zenon
  <1> QED
    BY <1>1, Zenon DEF A!Deny, A!Cardinality, Cardinality, A!IsFiniteSet, IsFiniteSet

LEMMA Learns ==
  ASSUME NEW f \in Fact \ Known, Known' = Known \cup {f}, ~Denied, ~Denied',
         Cardinality(Known) < MaxKnownRecords
  PROVE  A!Learn(f)
  <1>1. Denied' = Denied
    BY Zenon DEF Denied
  <1> QED
    BY <1>1, Zenon DEF A!Learn, A!Cardinality, Cardinality, A!IsFiniteSet, IsFiniteSet

(* When the doubt is resolved, one fact is learnt, or the account denied.   *)
LEMMA DoubtResolved ==
  ASSUME NEW v \in Seq(Fact), NEW f \in Fact, Doubt(v, f), survivors' = {shown}
  PROVE  A!Next
  <1>1. Known = FactsOf(v) /\ ~Denied
    BY KnownTwo
  <1>2. /\ shown = Append(v, f) /\ shown \in Seq(Fact) /\ Len(shown) = Len(v) + 1
        /\ FactsOf(shown) = FactsOf(v) \cup {f} /\ f \notin FactsOf(v)
        /\ Len(v) <= MaxKnownRecords /\ MaxKnownRecords \in Nat /\ Len(v) \in Nat
        /\ Cardinality(FactsOf(v)) = Len(v)
    BY AppendFacts, AccountAssumption DEF Doubt, GoodLog
  <1>3. Known' = Retained(shown) /\ (Denied' <=> Len(shown) > MaxKnownRecords)
    BY <1>2, KnownOnePrimed
  <1>4. CASE Len(v) = MaxKnownRecords
    <2>1. Known' = Known /\ Denied'
      BY <1>1, <1>2, <1>3, <1>4, RetainsFirst
    <2> QED
      BY <1>1, <1>2, <1>4, <2>1, Denies DEF A!Next
  <1>5. CASE Len(v) < MaxKnownRecords
    <2>1. Known' = Known \cup {f} /\ ~Denied'
      <3>1. Len(shown) <= MaxKnownRecords
        BY <1>2, <1>5
      <3>2. Retained(shown) = FactsOf(shown)
        BY <1>2, <3>1, RetainsAll
      <3>3. ~(Len(shown) > MaxKnownRecords)
        BY <1>2, <3>1
      <3> QED
        BY <1>1, <1>2, <1>3, <3>2, <3>3, Zenon
    <2>2. A!Learn(f)
      BY <1>1, <1>2, <1>5, <2>1, Learns
    <2> QED
      BY <2>2 DEF A!Next
  <1> QED
    BY <1>2, <1>4, <1>5

LEMMA SameKnown ==
  ASSUME survivors' = survivors
  PROVE  Known' = Known /\ (Denied' <=> Denied)
  BY DEF Known, Denied

LEMMA RefinesInit == ASSUME Init PROVE A!Init
  BY KnownNothing DEF Init, A!Init

LEMMA RefinesNext ==
  ASSUME ValueInv, SureInv, [Next]_vars, SureInv', Reopens = FALSE
  PROVE  [A!Next]_<<Known, Denied>>
  <1>1. CASE survivors' = survivors
    BY <1>1, SameKnown, Stutters
  <1>2. CASE Create
    <2>1. None \in survivors
      BY <1>2 DEF Create, ValueInv
    <2>2. None \in survivors'
      BY <1>2, <2>1 DEF Create, Put
    <2>3. Known' = {} /\ ~Denied'
      BY <2>2, NothingAfter
    <2> QED
      BY <2>1, <2>3, KnownNothing, Stutters
  <1>3. CASE Created
    <2>1. survivors' = {<<>>} /\ survivors \in {{None, <<>>}, {<<>>}}
      BY <1>3 DEF Created, ValueInv, HandleGood, SureInv, HandleSure
    <2>2. Known' = {} /\ ~Denied'
      <3>1. <<>> \in Seq(Fact) /\ ~(Len(<<>>) > MaxKnownRecords)
        BY AccountAssumption
      <3> QED
        BY <2>1, <3>1, KnownOnePrimed, EmptyLog
    <2>3. CASE None \in survivors
      BY <2>2, <2>3, KnownNothing, Stutters
    <2> QED
      BY <1>1, <2>1, <2>3
  <1>4. ASSUME NEW f \in Fact, Applies(f), Put(Append(handle.records, f)), UNCHANGED history
        PROVE  [A!Next]_<<Known, Denied>>
    <2> DEFINE r == handle.records
    <2>1. /\ GoodLog(r) /\ r \in Seq(Fact) /\ f \in Fact \ FactsOf(r)
          /\ Len(r) <= MaxKnownRecords /\ shown' = Append(r, f) /\ survivors' = {r, shown'}
      BY <1>4, PutInDoubt DEF GoodLog
    <2>2. Known' = FactsOf(r) /\ ~Denied'
      BY <2>1, KnownTwoPrimed
    <2>3. survivors = {r}
      BY <1>4, IdleSure DEF Applies
    <2>4. Known = FactsOf(r) /\ ~Denied
      <3>1. ~(Len(r) > MaxKnownRecords)
        BY <2>1, AccountAssumption
      <3> QED
        BY <2>1, <2>3, <3>1, KnownOne, RetainsAll
    <2> QED
      BY <2>2, <2>4, Stutters
  <1>5. CASE Synced
    <2>1. /\ survivors' = {shown} /\ Doubt(handle.records, handle.work)
          /\ handle.records \in Seq(Fact) /\ handle.work \in Fact
      BY <1>5, SyncedOpens, SyncedGood DEF Synced, SureInv, HandleSure, GoodLog
    <2> QED
      BY <2>1, DoubtResolved
  <1>6. CASE Crash
    <2>1. shown' \in survivors /\ survivors' = {shown'}
      BY <1>6 DEF Crash
    <2>2. CASE survivors = {None, <<>>}
      <3>1. Known = {} /\ ~Denied
        BY <2>2, KnownNothing
      <3>2. CASE shown' = None
        BY <2>1, <3>1, <3>2, NothingAfter, Stutters
      <3>3. CASE shown' = <<>>
        <4>1. <<>> \in Seq(Fact) /\ ~(Len(<<>>) > MaxKnownRecords)
          BY AccountAssumption
        <4> QED
          BY <2>1, <3>1, <3>3, <4>1, KnownOnePrimed, EmptyLog, Stutters
      <3> QED
        BY <2>1, <2>2, <3>2, <3>3
    <2>3. ASSUME NEW v \in Seq(Fact), NEW f \in Fact, Doubt(v, f)
          PROVE  [A!Next]_<<Known, Denied>>
      <3>1. CASE shown' = shown
        BY <2>1, <2>3, <3>1, DoubtResolved
      <3>2. CASE shown' = v
        <4>1. Known = FactsOf(v) /\ ~Denied /\ Retained(v) = FactsOf(v)
          BY <2>3, KnownTwo
        <4>2. ~(Len(v) > MaxKnownRecords)
          BY <2>3, AccountAssumption DEF Doubt
        <4> QED
          BY <2>1, <3>2, <4>1, <4>2, KnownOnePrimed, Stutters
      <3> QED
        BY <2>1, <2>3, <3>1, <3>2 DEF Doubt
    <2> QED
      BY <1>1, <2>1, <2>2, <2>3 DEF SureInv, Chain
  <1>7. ASSUME NEW f \in Fact, PutFails(f) PROVE [A!Next]_<<Known, Denied>>
    BY <1>1, <1>4, <1>7 DEF PutFails, disk
  <1>8. ASSUME NEW f \in Fact, Apply(f) PROVE [A!Next]_<<Known, Denied>>
    BY <1>4, <1>8 DEF Apply
  <1> QED
    BY <1>1, <1>2, <1>3, <1>5, <1>6, <1>7, <1>8
    DEF Next, CreateFails, SyncFails, Close, Open, ApplyRejected, ApplyDuplicate, vars, disk

(* The account store implements Authority, if it is opened over settled     *)
(* values only.                                                             *)
THEOREM AccountImplementsAuthority ==
  ASSUME Reopens = FALSE PROVE Spec => ImplementsAuthority
  <1>1. Init => A!Init
    BY RefinesInit
  <1>2. (ValueInv /\ SureInv) /\ (ValueInv /\ SureInv)' /\ [Next]_vars
        => [A!Next]_<<Known, Denied>>
    BY RefinesNext
  <1> QED
    BY <1>1, <1>2, AccountSure, PTL DEF Spec, ImplementsAuthority, A!Spec
=============================================================================
