-------------------------- MODULE AttachmentProofs --------------------------
(***************************************************************************)
(* Proofs about the attachment store, for any references, files, lengths   *)
(* and limits: types, the pins of ready claims, the quota, and, for stores *)
(* that are not opened over unsynced writes, what survives a crash.        *)
(***************************************************************************)
EXTENDS Attachment, FiniteSetTheorems, TLAPS

-----------------------------------------------------------------------------
(* Images and sums.                                                         *)

(* The values of a function on a finite set.                                *)
LEMMA FiniteImage ==
  ASSUME NEW S, IsFiniteSet(S), NEW f
  PROVE  /\ IsFiniteSet({f[x] : x \in S})
         /\ Cardinality({f[x] : x \in S}) <= Cardinality(S)
  <1> DEFINE T == {f[x] : x \in S}
             g == [x \in S |-> f[x]]
  <1>1. g \in Surjection(S, T)
    BY DEF Surjection
  <1> HIDE DEF T, g
  <1>2. IsFiniteSet(T) /\ Cardinality(T) <= Cardinality(S)
    BY <1>1, FS_Surjection
  <1> QED
    BY <1>2 DEF T

(* The units of one element.                                                *)
LEMMA UnitsOfOne ==
  ASSUME NEW e, NEW n \in Nat
  PROVE  IsFiniteSet({e} \X (1..n)) /\ Cardinality({e} \X (1..n)) = n
  <1>1. IsFiniteSet({e}) /\ Cardinality({e}) = 1
    BY FS_Singleton
  <1>2. IsFiniteSet(1..n) /\ Cardinality(1..n) = n
    BY FS_Interval
  <1> DEFINE A == {e}
             B == 1..n
  <1>3. IsFiniteSet(A) /\ IsFiniteSet(B) /\ Cardinality(A) = 1 /\ Cardinality(B) = n
    BY <1>1, <1>2
  <1> HIDE DEF A, B
  <1>4. IsFiniteSet(A \X B) /\ Cardinality(A \X B) = Cardinality(A) * Cardinality(B)
    BY <1>3, FS_Product
  <1>5. Cardinality(A \X B) = n
    BY <1>3, <1>4
  <1> QED
    BY <1>4, <1>5 DEF A, B

LEMMA UnitsFinite ==
  ASSUME NEW f, NEW S, IsFiniteSet(S), \A x \in S : f[x] \in Nat
  PROVE  IsFiniteSet(Units(f, S))
  <1> DEFINE g == [x \in S |-> {x} \X (1..f[x])]
             U == {g[x] : x \in S}
  <1>1. IsFiniteSet(U)
    <2> HIDE DEF g
    <2> QED
      BY FiniteImage
  <1>2. \A u \in U : IsFiniteSet(u)
    <2>1. \A x \in S : IsFiniteSet({x} \X (1..f[x]))
      BY UnitsOfOne
    <2> QED
      BY <2>1
  <1>3. Units(f, S) = UNION U
    BY DEF Units
  <1> HIDE DEF U
  <1> QED
    BY <1>1, <1>2, <1>3, FS_UNION

LEMMA SumNat ==
  ASSUME NEW f, NEW S, IsFiniteSet(S), \A x \in S : f[x] \in Nat
  PROVE  SumOver(f, S) \in Nat
  BY UnitsFinite, FS_CardinalityType DEF SumOver

LEMMA SumAdd ==
  ASSUME NEW f, NEW S, IsFiniteSet(S), NEW e, e \notin S,
         \A x \in S \cup {e} : f[x] \in Nat
  PROVE  SumOver(f, S \cup {e}) = f[e] + SumOver(f, S)
  <1> DEFINE A == Units(f, S)
             B == {e} \X (1..f[e])
  <1>1. IsFiniteSet(A) /\ IsFiniteSet(B) /\ Cardinality(B) = f[e]
    BY UnitsFinite, UnitsOfOne
  <1>2. Units(f, S \cup {e}) = A \cup B
    BY DEF Units
  <1>3. A \cap B = {}
    <2>1. \A u \in A : \E x \in S : u \in {x} \X (1..f[x])
      BY DEF Units
    <2> QED
      BY <2>1
  <1>4. Cardinality(A) \in Nat /\ f[e] \in Nat
    BY <1>1, FS_CardinalityType
  <1>5. SumOver(f, S) = Cardinality(A)
    BY DEF SumOver
  <1>6. Cardinality(A \cap B) = 0
    BY <1>3, FS_EmptySet
  <1> HIDE DEF A, B
  <1>7. Cardinality(A \cup B) = Cardinality(A) + Cardinality(B) - Cardinality(A \cap B)
    BY <1>1, FS_Union
  <1>8. SumOver(f, S \cup {e}) = Cardinality(A \cup B)
    BY <1>2 DEF SumOver
  <1> QED
    BY <1>1, <1>4, <1>5, <1>6, <1>7, <1>8

LEMMA SumEmpty == ASSUME NEW f PROVE SumOver(f, {}) = 0
  <1>1. Units(f, {}) = {}
    BY DEF Units
  <1> QED
    BY <1>1, FS_EmptySet DEF SumOver

(* A sum over a set depends on the values at its elements only.             *)
LEMMA SumSame ==
  ASSUME NEW f, NEW g, NEW S, \A x \in S : f[x] = g[x]
  PROVE  SumOver(f, S) = SumOver(g, S)
  <1>1. Units(f, S) = Units(g, S)
    BY DEF Units
  <1> QED
    BY <1>1 DEF SumOver

LEMMA SumSubset ==
  ASSUME NEW f, NEW S, IsFiniteSet(S), \A x \in S : f[x] \in Nat, NEW T \in SUBSET S
  PROVE  SumOver(f, T) <= SumOver(f, S)
  <1>1. Units(f, T) \subseteq Units(f, S)
    BY DEF Units
  <1> QED
    BY <1>1, UnitsFinite, FS_Subset DEF SumOver

-----------------------------------------------------------------------------

Working == life \in {"recovering", "up"}

Claims(id, c) == entries[id] # None /\ entries[id].root = c

-----------------------------------------------------------------------------
(* Types.                                                                   *)

LEMMA NoneIsNoRecord == None \notin Record /\ None \notin Reservation /\ None \notin Operation
  BY AttachmentAssumption

LEMMA EntryType ==
  ASSUME TypeOK, NEW id \in RefId, entries[id] # None
  PROVE  /\ entries[id] \in Record
         /\ entries[id].root \in Root
         /\ entries[id].state \in State
  BY DEF TypeOK, Record

LEMMA KeyType == ASSUME NEW c \in Root PROVE KeyOf(c) \in Key
  BY AttachmentAssumption DEF KeyOf, Key

LEMMA RecordType ==
  ASSUME NEW c \in Root, NEW s \in State
  PROVE  [root |-> c, state |-> s] \in Record
  BY DEF Record

(* Both kinds of write keep the types of the records.                       *)
LEMMA WriteTypes ==
  ASSUME TypeOK, NEW id \in RefId, NEW v \in Record \cup {None},
         Written(id, v) \/ Unsynced(id, v)
  PROVE  /\ record' \in [RefId -> Record \cup {None}]
         /\ recorded' \in [RefId -> SUBSET (Record \cup {None})]
  BY DEF TypeOK, Written, Unsynced, Value

LEMMA ForgetTypes ==
  ASSUME Forget
  PROVE  /\ entries' \in [RefId -> Record \cup {None}]
         /\ pending' \in [RefId -> Reservation \cup {None}]
         /\ accounted' \subseteq Key
         /\ op' \in Operation \cup {None}
  BY DEF Forget, Nothing

LEMMA FailTypes ==
  ASSUME TypeOK, Fail
  PROVE  /\ life' \in {"down", "recovering", "up"}
         /\ entries' \in [RefId -> Record \cup {None}]
         /\ pending' \in [RefId -> Reservation \cup {None}]
         /\ accounted' \subseteq Key
         /\ op' \in Operation \cup {None}
  BY ForgetTypes DEF Fail, TypeOK, memory

LEMMA ConvertTypes ==
  ASSUME TypeOK, NEW id \in RefId, NEW c \in Root, Convert(id, c)
  PROVE  /\ entries' \in [RefId -> Record \cup {None}]
         /\ pending' \in [RefId -> Reservation \cup {None}]
         /\ accounted' \subseteq Key
  <1>1. [root |-> c, state |-> "retaining"] \in Record
    BY RecordType DEF State
  <1> QED
    BY <1>1, KeyType DEF Convert, TypeOK

LEMMA CallTypes == ASSUME TypeOK, CallStep PROVE TypeOK'
  <1> PICK id \in RefId :
        \/ \E maxBytes \in ImportLimit : ReserveImport(id, maxBytes)
        \/ \E c \in Root, length \in Declared : ReserveRetain(id, <<c, length>>)
        \/ ReleaseReservation(id)
        \/ \E c \in Root : Claim(id, c) \/ ClaimUnsynced(id, c)
        \/ \E source \in RefId : Clone(source, id) \/ CloneUnsynced(source, id)
        \/ Release(id)
        \/ ReleaseUnsynced(id)
    BY DEF CallStep
  <1>1. ASSUME NEW maxBytes \in ImportLimit, ReserveImport(id, maxBytes) PROVE TypeOK'
    <2>1. [bytes |-> maxBytes] \in Reservation
      BY AttachmentAssumption DEF Reservation
    <2> QED
      BY <1>1, <2>1 DEF ReserveImport, TypeOK, disk
  <1>2. ASSUME NEW c \in Root, NEW length \in Declared, ReserveRetain(id, <<c, length>>)
        PROVE  TypeOK'
    <2>1. <<c, length>> \in Key
      BY AttachmentAssumption DEF Key
    <2>2. [key |-> <<c, length>>] \in Reservation
      BY <2>1 DEF Reservation
    <2> QED
      BY <1>2, <2>1, <2>2 DEF ReserveRetain, TypeOK, disk
  <1>3. CASE ReleaseReservation(id)
    BY <1>3 DEF ReleaseReservation, TypeOK, disk
  <1>4. ASSUME NEW c \in Root, Claim(id, c) \/ ClaimUnsynced(id, c) PROVE TypeOK'
    <2>1. [root |-> c, state |-> "retaining"] \in Record
      BY RecordType DEF State
    <2>2. /\ record' \in [RefId -> Record \cup {None}]
          /\ recorded' \in [RefId -> SUBSET (Record \cup {None})]
      BY <1>4, <2>1, WriteTypes DEF Claim, ClaimUnsynced
    <2>3. /\ entries' \in [RefId -> Record \cup {None}]
          /\ pending' \in [RefId -> Reservation \cup {None}]
          /\ accounted' \subseteq Key
      BY <1>4, ConvertTypes DEF Claim, ClaimUnsynced
    <2>4. /\ UNCHANGED <<life, pinned, unflushed>>
          /\ op' \in Operation \cup {None}
      BY <1>4 DEF Claim, ClaimUnsynced, Operation, TypeOK
    <2> QED
      BY <2>2, <2>3, <2>4 DEF TypeOK
  <1>5. ASSUME NEW source \in RefId, Clone(source, id) \/ CloneUnsynced(source, id)
        PROVE  TypeOK'
    <2>1. entries[source].root \in Root
      BY <1>5, EntryType DEF Clone, CloneUnsynced, Clonable
    <2>2. [root |-> entries[source].root, state |-> "retaining"] \in Record
      BY <2>1, RecordType DEF State
    <2>3. /\ record' \in [RefId -> Record \cup {None}]
          /\ recorded' \in [RefId -> SUBSET (Record \cup {None})]
      BY <1>5, <2>2, WriteTypes DEF Clone, CloneUnsynced
    <2>4. /\ entries' \in [RefId -> Record \cup {None}]
          /\ pending' \in [RefId -> Reservation \cup {None}]
          /\ accounted' \subseteq Key
      BY <1>5, <2>1, ConvertTypes DEF Clone, CloneUnsynced
    <2>5. /\ UNCHANGED <<life, pinned, unflushed>>
          /\ op' \in Operation \cup {None}
      BY <1>5 DEF Clone, CloneUnsynced, Operation, TypeOK
    <2> QED
      BY <2>3, <2>4, <2>5 DEF TypeOK
  <1>6. CASE Release(id) \/ ReleaseUnsynced(id)
    <2>1. Releasing(id) \in Record
      BY <1>6, EntryType, RecordType DEF Release, ReleaseUnsynced, Releasable, Releasing, State
    <2>2. /\ record' \in [RefId -> Record \cup {None}]
          /\ recorded' \in [RefId -> SUBSET (Record \cup {None})]
      BY <1>6, <2>1, WriteTypes DEF Release, ReleaseUnsynced
    <2> QED
      BY <1>6, <2>1, <2>2 DEF Release, ReleaseUnsynced, TypeOK, Operation
  <1> QED
    BY <1>1, <1>2, <1>3, <1>4, <1>5, <1>6

LEMMA OpTypes ==
  ASSUME TypeOK, OpStep,
         op # None => op.id \in RefId /\ entries[op.id] # None
  PROVE  TypeOK'
  <1>1. op # None /\ op \in Operation /\ op.id \in RefId
    BY DEF OpStep, Pin, PinUnflushed, MakeReady, ReadyUnsynced, Unpin, UnpinUnflushed,
           Drop, DropUnsynced, StepFails, At, TypeOK
  <1>2. Target \in Root
    BY <1>1, EntryType DEF Target
  <1>3. ASSUME NEW s \in {"pin", "ready", "unpin", "drop"}, Goto(s) PROVE op' \in Operation
    BY <1>1, <1>3 DEF Goto, Operation
  <1>4. Ready \in Record
    BY <1>2, RecordType DEF Ready, State
  <1>5. PinsAfterRelease \subseteq Root
    BY <1>2 DEF PinsAfterRelease, TypeOK
  <1>6. CASE Pin \/ Unpin
    BY <1>2, <1>3, <1>5, <1>6 DEF Pin, Unpin, EnsurePinned, Flushed, TypeOK, memory
  <1>7. CASE PinUnflushed \/ UnpinUnflushed
    <2>1. pinned' \subseteq Root /\ unflushed' \subseteq Root
      BY <1>2, <1>5, <1>7 DEF PinUnflushed, UnpinUnflushed, Unflushed, TypeOK
    <2> QED
      BY <1>7, <2>1, FailTypes DEF PinUnflushed, UnpinUnflushed, TypeOK
  <1>8. CASE MakeReady
    <2>1. /\ record' \in [RefId -> Record \cup {None}]
          /\ recorded' \in [RefId -> SUBSET (Record \cup {None})]
      BY <1>1, <1>4, <1>8, WriteTypes DEF MakeReady
    <2> QED
      BY <1>4, <1>8, <2>1 DEF MakeReady, TypeOK
  <1>9. CASE ReadyUnsynced
    <2>1. /\ record' \in [RefId -> Record \cup {None}]
          /\ recorded' \in [RefId -> SUBSET (Record \cup {None})]
      BY <1>1, <1>4, <1>9, WriteTypes DEF ReadyUnsynced
    <2> QED
      BY <1>9, <2>1, FailTypes DEF ReadyUnsynced, TypeOK
  <1>10. CASE Drop
    <2>1. /\ record' \in [RefId -> Record \cup {None}]
          /\ recorded' \in [RefId -> SUBSET (Record \cup {None})]
      BY <1>1, <1>10, WriteTypes DEF Drop
    <2> QED
      BY <1>10, <2>1 DEF Drop, TypeOK
  <1>11. CASE DropUnsynced
    <2>1. /\ record' \in [RefId -> Record \cup {None}]
          /\ recorded' \in [RefId -> SUBSET (Record \cup {None})]
      BY <1>1, <1>11, WriteTypes DEF DropUnsynced
    <2> QED
      BY <1>11, <2>1, FailTypes DEF DropUnsynced, TypeOK
  <1>12. CASE StepFails
    BY <1>12, FailTypes DEF StepFails, TypeOK, disk
  <1> QED
    BY <1>6, <1>7, <1>8, <1>9, <1>10, <1>11, <1>12 DEF OpStep

LEMMA OpenTypes == ASSUME TypeOK, OpenStep PROVE TypeOK'
  <1>1. CASE Load
    <2>1. \A c \in Roots : KeyOf(c) \in Key
      BY KeyType DEF Roots, Held, TypeOK, Record
    <2> QED
      BY <1>1, <2>1 DEF Load, TypeOK, disk
  <1>3. ASSUME NEW id \in RefId, Resume(id) PROVE TypeOK'
    BY <1>3 DEF Resume, TypeOK, disk, memory, Operation
  <1>4. ASSUME NEW c \in Root, RemoveOrphan(c) PROVE TypeOK'
    BY <1>4 DEF RemoveOrphan, Flushed, TypeOK, memory
  <1>5. ASSUME NEW c \in Root, OrphanUnflushed(c) PROVE TypeOK'
    <2>1. pinned' \subseteq Root /\ unflushed' \subseteq Root
      BY <1>5 DEF OrphanUnflushed, Unflushed, TypeOK
    <2> QED
      BY <1>5, <2>1, FailTypes DEF OrphanUnflushed, TypeOK
  <1>6. CASE Opened
    BY <1>6 DEF Opened, TypeOK, disk, memory
  <1> QED
    BY <1>1, <1>3, <1>4, <1>5, <1>6 DEF OpenStep

LEMMA CloseTypes == ASSUME TypeOK, Close PROVE TypeOK'
  BY ForgetTypes DEF Close, TypeOK, disk

LEMMA CrashTypes == ASSUME TypeOK, Crash PROVE TypeOK'
  <1>1. record' \in [RefId -> Record \cup {None}]
    <2>1. PICK r \in [RefId -> UNION {recorded[id] : id \in RefId}] :
            record' = r /\ \A id \in RefId : r[id] \in recorded[id]
      BY DEF Crash
    <2>2. \A id \in RefId : r[id] \in Record \cup {None}
      BY <2>1 DEF TypeOK
    <2> QED
      BY <2>1, <2>2
  <1>2. recorded' \in [RefId -> SUBSET (Record \cup {None})]
    BY <1>1 DEF Crash
  <1>3. pinned' \subseteq Root /\ unflushed' \subseteq Root
    BY DEF Crash, TypeOK
  <1> QED
    BY <1>1, <1>2, <1>3, ForgetTypes DEF Crash, TypeOK

-----------------------------------------------------------------------------
(* The invariant of the pins, which holds however the store is opened.      *)

(* An operation works on a claim in the state that its step is for.         *)
OpClaim ==
    op # None =>
        /\ Working
        /\ op.id \in RefId
        /\ entries[op.id] # None
        /\ op.step \in {"pin", "ready"} => entries[op.id].state = "retaining"
        /\ op.step \in {"unpin", "drop"} => entries[op.id].state = "releasing"

(* The steps before have left the pin as the next write needs it.           *)
OpPin ==
    /\ At("ready") => Target \in pinned
    /\ At("drop") /\ Target \in pinned =>
            \E id \in RefId : id # op.id /\ Claims(id, Target)

ReadyHasPin ==
    Working =>
        \A id \in RefId :
            entries[id] # None /\ entries[id].state = "ready" => entries[id].root \in pinned

PinHasClaim == life = "up" => \A c \in pinned : \E id \in RefId : Claims(id, c)

(* An ID is reserved or claimed, never both.                                *)
ReservedApart ==
    \A id \in RefId : pending[id] # None => life = "up" /\ entries[id] = None

PinInv ==
    /\ TypeOK
    /\ ReservedApart
    /\ OpClaim
    /\ OpPin
    /\ ReadyHasPin
    /\ PinHasClaim

LEMMA ClaimantsClaim ==
  ASSUME NEW id \in RefId, NEW c
  PROVE  id \in Claimants(c) <=> Claims(id, c)
  BY DEF Claimants, Held, Claims

LEMMA FailApart == ASSUME PinInv, Fail PROVE ReservedApart'
  BY DEF PinInv, ReservedApart, Fail, Forget, Nothing, memory

LEMMA StepApart == ASSUME PinInv, Next PROVE ReservedApart'
  <1> USE DEF PinInv, ReservedApart
  <1>1. CASE CallStep
    <2> PICK id \in RefId :
          \/ \E maxBytes \in ImportLimit : ReserveImport(id, maxBytes)
          \/ \E c \in Root, length \in Declared : ReserveRetain(id, <<c, length>>)
          \/ ReleaseReservation(id)
          \/ \E c \in Root : Claim(id, c) \/ ClaimUnsynced(id, c)
          \/ \E source \in RefId : Clone(source, id) \/ CloneUnsynced(source, id)
          \/ Release(id)
          \/ ReleaseUnsynced(id)
      BY <1>1 DEF CallStep
    <2>1. ASSUME NEW maxBytes \in ImportLimit, ReserveImport(id, maxBytes)
          PROVE  ReservedApart'
      BY <2>1 DEF ReserveImport, Reservable, Free, disk, TypeOK
    <2>2. ASSUME NEW key, ReserveRetain(id, key) PROVE ReservedApart'
      BY <2>2 DEF ReserveRetain, Reservable, Free, disk, TypeOK
    <2>3. CASE ReleaseReservation(id)
      BY <2>3 DEF ReleaseReservation, disk, TypeOK
    <2>4. ASSUME NEW c \in Root, Claim(id, c) \/ ClaimUnsynced(id, c) PROVE ReservedApart'
      BY <2>4 DEF Claim, ClaimUnsynced, Convert, TypeOK
    <2>5. ASSUME NEW source \in RefId, Clone(source, id) \/ CloneUnsynced(source, id)
          PROVE  ReservedApart'
      BY <2>5 DEF Clone, CloneUnsynced, Convert, TypeOK
    <2>6. CASE Release(id) \/ ReleaseUnsynced(id)
      BY <2>6 DEF Release, ReleaseUnsynced, Releasable, TypeOK
    <2> QED
      BY <2>1, <2>2, <2>3, <2>4, <2>5, <2>6
  <1>2. CASE OpStep
    <2>1. CASE Pin \/ Unpin
      BY <2>1 DEF Pin, Unpin, memory
    <2>2. CASE PinUnflushed \/ ReadyUnsynced \/ UnpinUnflushed \/ DropUnsynced \/ StepFails
      BY <2>2, FailApart DEF PinUnflushed, ReadyUnsynced, UnpinUnflushed, DropUnsynced, StepFails
    <2>3. CASE MakeReady \/ Drop
      BY <2>3 DEF MakeReady, Drop, At, OpClaim, TypeOK
    <2> QED
      BY <1>2, <2>1, <2>2, <2>3 DEF OpStep
  <1>3. CASE OpenStep
    <2>1. CASE Load \/ Opened
      BY <2>1 DEF Load, Opened, Finished, memory, disk
    <2>2. ASSUME NEW id \in RefId, Resume(id) PROVE ReservedApart'
      BY <2>2 DEF Resume, memory
    <2>3. ASSUME NEW c \in Root, RemoveOrphan(c) PROVE ReservedApart'
      BY <2>3 DEF RemoveOrphan, memory
    <2>4. ASSUME NEW c \in Root, OrphanUnflushed(c) PROVE ReservedApart'
      BY <2>4, FailApart DEF OrphanUnflushed
    <2> QED
      BY <1>3, <2>1, <2>2, <2>3, <2>4 DEF OpenStep
  <1>4. CASE Close \/ Crash
    BY <1>4 DEF Close, Crash, Forget, Nothing
  <1> QED
    BY <1>1, <1>2, <1>3, <1>4 DEF Next

LEMMA IdleOp == ASSUME op' = None PROVE OpClaim' /\ OpPin'
  BY DEF OpClaim, OpPin, At

LEMMA StoppedPins ==
  ASSUME op' = None, life' \notin {"recovering", "up"}
  PROVE  OpClaim' /\ OpPin' /\ ReadyHasPin' /\ PinHasClaim'
  BY IdleOp DEF ReadyHasPin, PinHasClaim, Working

(* A new claim leaves the pins and the other claims alone.                  *)
LEMMA ConvertPins ==
  ASSUME PinInv, NEW id \in RefId, NEW c \in Root, entries[id] = None,
         Convert(id, c), UNCHANGED <<life, pinned>>
  PROVE  ReadyHasPin' /\ PinHasClaim'
  <1>1. \A i \in RefId : i # id => entries'[i] = entries[i]
    BY DEF Convert, PinInv, TypeOK
  <1>2. entries'[id] = [root |-> c, state |-> "retaining"]
    BY DEF Convert, PinInv, TypeOK
  <1>3. ReadyHasPin'
    BY <1>1, <1>2 DEF ReadyHasPin, PinInv, Working
  <1>4. PinHasClaim'
    BY <1>1, <1>2 DEF PinHasClaim, PinInv, Claims
  <1> QED
    BY <1>3, <1>4

(* A call begins its steps in a state where no pin is needed yet.           *)
LEMMA BeginOp ==
  ASSUME NEW id \in RefId, life' = "up", entries'[id] # None,
         \/ op' = [id |-> id, step |-> "pin"] /\ entries'[id].state = "retaining"
         \/ op' = [id |-> id, step |-> "unpin"] /\ entries'[id].state = "releasing"
  PROVE  OpClaim' /\ OpPin'
  BY DEF OpClaim, OpPin, At, Working

LEMMA CallPins ==
  ASSUME PinInv, CallStep
  PROVE  OpClaim' /\ OpPin' /\ ReadyHasPin' /\ PinHasClaim'
  <1> USE DEF PinInv
  <1> PICK id \in RefId :
        \/ \E maxBytes \in ImportLimit : ReserveImport(id, maxBytes)
        \/ \E c \in Root, length \in Declared : ReserveRetain(id, <<c, length>>)
        \/ ReleaseReservation(id)
        \/ \E c \in Root : Claim(id, c) \/ ClaimUnsynced(id, c)
        \/ \E source \in RefId : Clone(source, id) \/ CloneUnsynced(source, id)
        \/ Release(id)
        \/ ReleaseUnsynced(id)
    BY DEF CallStep
  <1>1. ASSUME UNCHANGED <<life, op, entries, pinned>>
        PROVE  OpClaim' /\ OpPin' /\ ReadyHasPin' /\ PinHasClaim'
    BY <1>1 DEF OpClaim, OpPin, ReadyHasPin, PinHasClaim, Working, At, Target, Claims
  <1>2. ASSUME NEW maxBytes \in ImportLimit, ReserveImport(id, maxBytes)
        PROVE  UNCHANGED <<life, op, entries, pinned>>
    BY <1>2 DEF ReserveImport, disk
  <1>3. ASSUME NEW key, ReserveRetain(id, key) PROVE UNCHANGED <<life, op, entries, pinned>>
    BY <1>3 DEF ReserveRetain, disk
  <1>4. CASE ReleaseReservation(id)
    BY <1>1, <1>4 DEF ReleaseReservation, disk
  <1>5. ASSUME NEW c \in Root, Convert(id, c), entries[id] = None, life = "up",
               UNCHANGED <<life, pinned>>,
               op' \in {None, [id |-> id, step |-> "pin"]}
        PROVE  OpClaim' /\ OpPin' /\ ReadyHasPin' /\ PinHasClaim'
    <2>1. entries'[id] = [root |-> c, state |-> "retaining"]
      BY <1>5 DEF Convert, TypeOK
    <2>2. entries'[id] # None
      BY <2>1, RecordType, NoneIsNoRecord DEF State
    <2>3. OpClaim' /\ OpPin'
      BY <1>5, <2>1, <2>2, IdleOp, BeginOp
    <2> QED
      BY <1>5, <2>3, ConvertPins
  <1>6. ASSUME NEW c \in Root, Claim(id, c) \/ ClaimUnsynced(id, c)
        PROVE  OpClaim' /\ OpPin' /\ ReadyHasPin' /\ PinHasClaim'
    <2>1. entries[id] = None
      BY <1>6 DEF ReservedApart, Claim, ClaimUnsynced
    <2>2. Convert(id, c) /\ life = "up" /\ UNCHANGED <<life, pinned>>
      BY <1>6 DEF Claim, ClaimUnsynced, Free
    <2>3. op' \in {None, [id |-> id, step |-> "pin"]}
      BY <1>6 DEF Claim, ClaimUnsynced, Free
    <2> QED
      BY <1>5, <2>1, <2>2, <2>3
  <1>7. ASSUME NEW source \in RefId, Clone(source, id) \/ CloneUnsynced(source, id)
        PROVE  OpClaim' /\ OpPin' /\ ReadyHasPin' /\ PinHasClaim'
    <2>1. entries[source].root \in Root
      BY <1>7, EntryType DEF Clone, CloneUnsynced, Clonable
    <2>2. /\ Convert(id, entries[source].root)
          /\ entries[id] = None
          /\ life = "up"
          /\ UNCHANGED <<life, pinned>>
      BY <1>7 DEF Clone, CloneUnsynced, Clonable, Free
    <2>3. op' \in {None, [id |-> id, step |-> "pin"]}
      BY <1>7 DEF Clone, CloneUnsynced, Clonable, Free
    <2> QED
      BY <1>5, <2>1, <2>2, <2>3
  <1>8. CASE Release(id) \/ ReleaseUnsynced(id)
    <2>1. /\ life = "up" /\ op = None /\ UNCHANGED <<life, pinned>>
          /\ entries[id] # None
          /\ entries' = [entries EXCEPT ![id] = Releasing(id)]
          /\ op' \in {None, [id |-> id, step |-> "unpin"]}
      BY <1>8 DEF Release, ReleaseUnsynced, Releasable, Free
    <2>2. Releasing(id) \in Record
      BY <2>1, EntryType, RecordType DEF Releasing, State
    <2>3. /\ entries'[id] # None
          /\ entries'[id].root = entries[id].root
          /\ entries'[id].state = "releasing"
      BY <2>1, <2>2, NoneIsNoRecord DEF Releasing, TypeOK
    <2>4. \A i \in RefId : i # id => entries'[i] = entries[i]
      BY <2>1 DEF TypeOK
    <2>5. OpClaim' /\ OpPin'
      BY <2>1, <2>3, IdleOp, BeginOp
    <2>6. ReadyHasPin'
      BY <2>1, <2>3, <2>4 DEF ReadyHasPin, Working
    <2>7. PinHasClaim'
      BY <2>1, <2>3, <2>4 DEF PinHasClaim, Claims
    <2> QED
      BY <2>5, <2>6, <2>7
  <1> QED
    BY <1>1, <1>2, <1>3, <1>4, <1>6, <1>7, <1>8

(* An error that keeps the pins ready claims and claimed pins have.         *)
LEMMA FailPins ==
  ASSUME PinInv, Fail, op # None,
         \A id \in RefId :
            entries[id] # None /\ entries[id].state = "ready" => entries[id].root \in pinned',
         life = "up" => \A c \in pinned' : \E id \in RefId : Claims(id, c)
  PROVE  OpClaim' /\ OpPin' /\ ReadyHasPin' /\ PinHasClaim'
  <1>1. op' = None
    BY DEF Fail, Forget
  <1>2. CASE life = "recovering"
    BY <1>1, <1>2, StoppedPins DEF Fail
  <1>3. CASE life # "recovering"
    <2>1. life' = life /\ entries' = entries
      BY <1>3 DEF Fail, memory
    <2>2. ReadyHasPin' /\ PinHasClaim'
      BY <2>1 DEF ReadyHasPin, PinHasClaim, Claims
    <2> QED
      BY <1>1, <2>2, IdleOp
  <1> QED
    BY <1>2, <1>3

LEMMA OpPins ==
  ASSUME PinInv, OpStep
  PROVE  OpClaim' /\ OpPin' /\ ReadyHasPin' /\ PinHasClaim'
  <1> USE DEF PinInv
  <1>1. /\ op # None /\ op \in Operation /\ op.id \in RefId /\ Working
        /\ entries[op.id] # None
    BY DEF OpStep, Pin, PinUnflushed, MakeReady, ReadyUnsynced, Unpin, UnpinUnflushed,
           Drop, DropUnsynced, StepFails, At, TypeOK, OpClaim
  <1>2. Claims(op.id, Target) /\ Target \in Root
    BY <1>1, EntryType DEF Claims, Target
  <1>3. \A id \in RefId :
            entries[id] # None /\ entries[id].state = "ready" => entries[id].root \in pinned
    BY <1>1 DEF ReadyHasPin
  <1>4. ASSUME NEW s \in {"ready", "drop"}, Goto(s)
        PROVE  op'.id = op.id /\ op'.step = s /\ op' # None
    <2>1. op' = [id |-> op.id, step |-> s]
      BY <1>1, <1>4 DEF Goto, Operation
    <2>2. op' \in Operation
      BY <1>1, <2>1 DEF Operation
    <2> QED
      BY <2>1, <2>2, NoneIsNoRecord
  <1>5. CASE Pin
    <2>1. /\ pinned' = pinned \cup {Target}
          /\ life' = life /\ entries' = entries
          /\ op'.id = op.id /\ op'.step = "ready" /\ op' # None
      BY <1>4, <1>5 DEF Pin, EnsurePinned, Flushed, memory
    <2>2. entries[op.id].state = "retaining"
      BY <1>1, <1>5 DEF Pin, At, OpClaim
    <2>3. OpClaim'
      BY <1>1, <2>1, <2>2 DEF OpClaim, Working
    <2>4. OpPin'
      BY <2>1 DEF OpPin, At, Target
    <2>5. ReadyHasPin' /\ PinHasClaim'
      BY <1>1, <1>2, <1>3, <2>1 DEF ReadyHasPin, PinHasClaim, Claims
    <2> QED
      BY <2>3, <2>4, <2>5
  <1>6. CASE PinUnflushed
    <2>1. pinned' = pinned \cup {Target} /\ Fail
      BY <1>6 DEF PinUnflushed, Unflushed
    <2> QED
      BY <1>1, <1>2, <1>3, <2>1, FailPins DEF PinHasClaim
  <1>7. CASE MakeReady
    <2>1. Ready \in Record /\ Ready # None
      BY <1>2, RecordType, NoneIsNoRecord DEF Ready, State
    <2>2. entries'[op.id] = Ready /\ \A id \in RefId : id # op.id => entries'[id] = entries[id]
      BY <1>1, <1>7 DEF MakeReady, TypeOK
    <2>3. op' = None /\ life' = life /\ pinned' = pinned /\ Target \in pinned
      BY <1>7 DEF MakeReady, OpPin
    <2>4. ReadyHasPin'
      BY <1>3, <2>2, <2>3 DEF ReadyHasPin, Ready
    <2>5. \A id \in RefId, c \in Root : Claims(id, c) => Claims(id, c)'
      BY <2>1, <2>2 DEF Claims, Ready, Target
    <2>6. PinHasClaim'
      BY <2>3, <2>5 DEF PinHasClaim, TypeOK
    <2> QED
      BY <2>3, <2>4, <2>6, IdleOp
  <1>8. CASE ReadyUnsynced \/ DropUnsynced \/ StepFails
    <2>1. pinned' = pinned /\ Fail
      BY <1>8 DEF ReadyUnsynced, DropUnsynced, StepFails, disk
    <2> QED
      BY <1>1, <1>3, <2>1, FailPins DEF PinHasClaim
  (* Of the claims on the target only the one being released may lose it.   *)
  <1>9. ASSUME At("unpin")
        PROVE  /\ \A id \in RefId : entries[id] # None /\ entries[id].state = "ready"
                      => entries[id].root \in PinsAfterRelease
               /\ life = "up" => \A c \in PinsAfterRelease : \E id \in RefId : Claims(id, c)
               /\ Target \in PinsAfterRelease => \E id \in RefId : id # op.id /\ Claims(id, Target)
    <2>1. entries[op.id].state = "releasing"
      BY <1>1, <1>9 DEF OpClaim, At
    <2>2. CASE Claimants(Target) = {op.id}
      <3>1. PinsAfterRelease = pinned \ {Target}
        BY <2>2 DEF PinsAfterRelease
      <3>2. \A id \in RefId : Claims(id, Target) => id = op.id
        BY <2>2, ClaimantsClaim
      <3> QED
        BY <1>3, <2>1, <3>1, <3>2 DEF PinHasClaim, Claims
    <2>3. CASE Claimants(Target) # {op.id}
      <3>1. PinsAfterRelease = pinned \cup {Target}
        BY <2>3 DEF PinsAfterRelease
      <3>2. op.id \in Claimants(Target) /\ Claimants(Target) \subseteq RefId
        BY <1>1, <1>2, ClaimantsClaim DEF Claimants, Held
      <3>3. PICK id \in RefId : id \in Claimants(Target) /\ id # op.id
        BY <2>3, <3>2
      <3>4. Claims(id, Target)
        BY <3>3, ClaimantsClaim
      <3> QED
        BY <1>1, <1>2, <1>3, <3>1, <3>3, <3>4 DEF PinHasClaim
    <2> QED
      BY <2>2, <2>3
  <1>10. CASE Unpin
    <2>1. /\ pinned' = PinsAfterRelease
          /\ life' = life /\ entries' = entries
          /\ op'.id = op.id /\ op'.step = "drop" /\ op' # None
      BY <1>4, <1>10 DEF Unpin, Flushed, memory
    <2>2. entries[op.id].state = "releasing"
      BY <1>1, <1>10 DEF Unpin, At, OpClaim
    <2>3. OpClaim'
      BY <1>1, <2>1, <2>2 DEF OpClaim, Working
    <2>4. OpPin'
      BY <1>9, <1>10, <2>1 DEF Unpin, OpPin, At, Target, Claims
    <2>5. ReadyHasPin' /\ PinHasClaim'
      BY <1>9, <1>10, <2>1 DEF Unpin, ReadyHasPin, PinHasClaim, Claims
    <2> QED
      BY <2>3, <2>4, <2>5
  <1>11. CASE UnpinUnflushed
    <2>1. pinned' = PinsAfterRelease /\ Fail
      BY <1>11 DEF UnpinUnflushed, Unflushed
    <2> QED
      BY <1>1, <1>9, <1>11, <2>1, FailPins DEF UnpinUnflushed
  <1>12. CASE Drop
    <2>1. entries'[op.id] = None /\ \A id \in RefId : id # op.id => entries'[id] = entries[id]
      BY <1>1, <1>12 DEF Drop, TypeOK
    <2>2. op' = None /\ life' = life /\ pinned' = pinned
      BY <1>12 DEF Drop
    <2>3. ReadyHasPin'
      BY <1>3, <2>1, <2>2 DEF ReadyHasPin
    <2>4. Target \in pinned => \E id \in RefId : id # op.id /\ Claims(id, Target)
      BY <1>12 DEF Drop, OpPin
    <2>5. ASSUME NEW c \in pinned, life = "up" PROVE \E id \in RefId : Claims(id, c)'
      <3>1. \E id \in RefId : id # op.id /\ Claims(id, c)
        BY <2>4, <2>5 DEF PinHasClaim, Claims, Target
      <3> QED
        BY <2>1, <3>1 DEF Claims
    <2>6. PinHasClaim'
      BY <2>2, <2>5 DEF PinHasClaim
    <2> QED
      BY <2>2, <2>3, <2>6, IdleOp
  <1> QED
    BY <1>5, <1>6, <1>7, <1>8, <1>10, <1>11, <1>12 DEF OpStep

LEMMA OpenPins ==
  ASSUME PinInv, OpenStep
  PROVE  OpClaim' /\ OpPin' /\ ReadyHasPin' /\ PinHasClaim'
  <1> USE DEF PinInv
  <1>1. CASE Load
    <2>1. life' = "recovering" /\ op' = op /\ entries' = record /\ pinned' = pinned
      BY <1>1 DEF Load, disk
    <2>2. op = None
      BY <1>1 DEF Load, OpClaim, Working
    <2>3. ReadyHasPin'
      BY <1>1, <2>1 DEF Load, Acceptable, Held, ReadyHasPin
    <2>4. PinHasClaim'
      BY <2>1 DEF PinHasClaim
    <2> QED
      BY <2>1, <2>2, <2>3, <2>4, IdleOp
  <1>3. ASSUME NEW id \in RefId, Resume(id)
        PROVE  OpClaim' /\ OpPin' /\ ReadyHasPin' /\ PinHasClaim'
    <2>1. /\ life = "recovering" /\ life' = life /\ entries' = entries /\ pinned' = pinned
          /\ entries[id] # None
          /\ \/ op' = [id |-> id, step |-> "pin"] /\ entries[id].state = "retaining"
             \/ op' = [id |-> id, step |-> "unpin"] /\ entries[id].state = "releasing"
      BY <1>3 DEF Resume, disk, memory
    <2>2. op'.id = id /\ op'.step \in {"pin", "unpin"}
      BY <2>1
    <2>3. OpClaim'
      BY <2>1, <2>2 DEF OpClaim, Working
    <2>4. OpPin'
      BY <2>2 DEF OpPin, At
    <2>5. ReadyHasPin' /\ PinHasClaim'
      BY <2>1 DEF ReadyHasPin, PinHasClaim, Working
    <2> QED
      BY <2>3, <2>4, <2>5
  (* What loses its pin has no claim.                                       *)
  <1>4. ASSUME NEW c \in Root, c \in Orphans, life = "recovering", op' = None,
               pinned' = pinned \ {c}, entries' = entries, life' = life
        PROVE  OpClaim' /\ OpPin' /\ ReadyHasPin' /\ PinHasClaim'
    <2>1. \A id \in RefId : ~Claims(id, c)
      BY <1>4, ClaimantsClaim DEF Orphans
    <2>2. ReadyHasPin'
      BY <1>4, <2>1 DEF ReadyHasPin, Claims, Working
    <2> QED
      BY <1>4, <2>2, IdleOp DEF PinHasClaim
  <1>5. ASSUME NEW c \in Root, RemoveOrphan(c)
        PROVE  OpClaim' /\ OpPin' /\ ReadyHasPin' /\ PinHasClaim'
    BY <1>4, <1>5 DEF RemoveOrphan, Finished, Flushed, memory
  <1>6. ASSUME NEW c \in Root, OrphanUnflushed(c)
        PROVE  OpClaim' /\ OpPin' /\ ReadyHasPin' /\ PinHasClaim'
    BY <1>6, StoppedPins DEF OrphanUnflushed, Finished, Fail, Forget
  <1>7. CASE Opened
    <2>1. /\ life = "recovering" /\ life' = "up"
          /\ op' = None /\ entries' = entries /\ pinned' = pinned
      BY <1>7 DEF Opened, Finished, disk, memory
    <2>2. ReadyHasPin'
      BY <2>1 DEF ReadyHasPin, Working
    <2>3. \A c \in pinned : Claimants(c) # {}
      BY <1>7 DEF Opened, Orphans
    <2>4. \A c \in pinned : \E id \in RefId : Claims(id, c)
      <3>1. \A c : Claimants(c) \subseteq RefId
        BY DEF Claimants, Held
      <3> QED
        BY <2>3, <3>1, ClaimantsClaim
    <2>5. PinHasClaim'
      BY <2>1, <2>4 DEF PinHasClaim, Claims
    <2> QED
      BY <2>1, <2>2, <2>5, IdleOp
  <1> QED
    BY <1>1, <1>3, <1>5, <1>6, <1>7 DEF OpenStep

LEMMA PinStep == ASSUME PinInv, [Next]_vars PROVE PinInv'
  <1>1. CASE CallStep
    BY <1>1, CallTypes, StepApart, CallPins DEF PinInv, Next
  <1>2. CASE OpStep
    <2>1. op # None => op.id \in RefId /\ entries[op.id] # None
      BY DEF PinInv, OpClaim
    <2> QED
      BY <1>2, <2>1, OpTypes, StepApart, OpPins DEF PinInv, Next
  <1>3. CASE OpenStep
    BY <1>3, OpenTypes, StepApart, OpenPins DEF PinInv, Next
  <1>4. CASE Close
    <2>1. op' = None /\ life' = "down"
      BY <1>4 DEF Close, Forget
    <2> QED
      BY <1>4, <2>1, CloseTypes, StepApart, StoppedPins DEF PinInv, Next
  <1>5. CASE Crash
    <2>1. op' = None /\ life' = "down"
      BY <1>5 DEF Crash, Forget
    <2> QED
      BY <1>5, <2>1, CrashTypes, StepApart, StoppedPins DEF PinInv, Next
  <1>6. CASE UNCHANGED vars
    <2>1. /\ life' = life /\ record' = record /\ recorded' = recorded /\ pinned' = pinned
          /\ unflushed' = unflushed /\ entries' = entries /\ pending' = pending
          /\ accounted' = accounted /\ op' = op
      BY <1>6 DEF vars, disk, memory
    <2> QED
      BY <2>1 DEF PinInv, TypeOK, ReservedApart, OpClaim, OpPin, ReadyHasPin, PinHasClaim,
                  Working, At, Target, Claims
  <1> QED
    BY <1>1, <1>2, <1>3, <1>4, <1>5, <1>6 DEF Next

LEMMA PinInit == ASSUME Init PROVE PinInv
  BY DEF Init, Nothing, PinInv, TypeOK, ReservedApart, OpClaim, OpPin, ReadyHasPin,
         PinHasClaim, Working, At

(* The pins of the store are as PinInv says in every reachable state,       *)
(* whatever writes fail and however it is opened.                           *)
THEOREM AttachmentPins == Spec => []PinInv
  BY PinInit, PinStep, PTL DEF Spec

(* Every variable of the store keeps its type.                              *)
THEOREM AttachmentTypes == Spec => []TypeOK
  <1>1. PinInv => TypeOK
    BY DEF PinInv
  <1> QED
    BY <1>1, AttachmentPins, PTL

(* Between operations the pins are those of the claims (Release,            *)
(* loadAndRecover), for any number of claims, files and failed writes.      *)
THEOREM AttachmentPinsAreClaimed == Spec => []PinsAreClaimed
  <1>1. ASSUME PinInv PROVE PinsAreClaimed
    <2>1. SUFFICES ASSUME Free
                   PROVE  /\ Orphans = {}
                          /\ \A id \in Held(entries) :
                                entries[id].state = "ready" => entries[id].root \in pinned
      BY DEF PinsAreClaimed
    <2>2. \A c \in pinned : \E id \in RefId : Claims(id, c)
      BY <1>1, <2>1 DEF PinInv, PinHasClaim, Free
    <2>3. Orphans = {}
      BY <2>2, ClaimantsClaim DEF Orphans
    <2> QED
      BY <1>1, <2>1, <2>3 DEF PinInv, ReadyHasPin, Working, Free, Held
  <1> QED
    BY <1>1, AttachmentPins, PTL

-----------------------------------------------------------------------------
(* The invariant of the writes, for stores opened over settled ones.        *)

RecordSeen == \A id \in RefId : record[id] \in recorded[id]

(* Whatever record a crash may leave is for the file the store knows.       *)
Covered ==
    Working => \A id \in RefId : \A v \in recorded[id] : v # None => Claims(id, v.root)

OpDurable ==
    op # None =>
        /\ recorded[op.id] = {entries[op.id]}
        /\ op.step = "ready" => Target \notin unflushed

RecoveringDurable ==
    life = "recovering" => \A id \in RefId : recorded[id] = {entries[id]}

DurableInv ==
    /\ RecordSeen
    /\ Covered
    /\ OpDurable
    /\ RecoveringDurable
    /\ ReadyPinned
    /\ ReportsAreDurable

LEMMA WrittenFacts ==
  ASSUME TypeOK, RecordSeen, NEW id \in RefId, NEW v \in Record \cup {None}, Written(id, v)
  PROVE  /\ record'[id] = v
         /\ recorded'[id] = {v}
         /\ \A i \in RefId : i # id => recorded'[i] = {record[i]} /\ recorded'[i] \subseteq recorded[i]
         /\ RecordSeen'
  <1>1. record' = [record EXCEPT ![id] = v] /\ recorded' = [i \in RefId |-> {record'[i]}]
    BY DEF Written, Value
  <1>2. record'[id] = v /\ \A i \in RefId : i # id => record'[i] = record[i]
    BY <1>1 DEF TypeOK
  <1>3. \A i \in RefId : recorded'[i] = {record'[i]}
    BY <1>1
  <1> QED
    BY <1>2, <1>3 DEF RecordSeen

LEMMA UnsyncedFacts ==
  ASSUME TypeOK, RecordSeen, NEW id \in RefId, NEW v \in Record \cup {None}, Unsynced(id, v)
  PROVE  /\ recorded'[id] = recorded[id] \cup {v}
         /\ \A i \in RefId : i # id => recorded'[i] = recorded[i]
         /\ RecordSeen'
  <1>1. /\ record' = [record EXCEPT ![id] = v]
        /\ recorded' = [recorded EXCEPT ![id] = @ \cup {v}]
    BY DEF Unsynced, Value
  <1>2. record'[id] = v /\ \A i \in RefId : i # id => record'[i] = record[i]
    BY <1>1 DEF TypeOK
  <1>3. /\ recorded'[id] = recorded[id] \cup {v}
        /\ \A i \in RefId : i # id => recorded'[i] = recorded[i]
    BY <1>1 DEF TypeOK
  <1> QED
    BY <1>2, <1>3 DEF RecordSeen

(* A call writes v, which is not ready, for id: Claim, Clone and Release.   *)
LEMMA CallWrites ==
  ASSUME PinInv, DurableInv, NEW id \in RefId, NEW v \in Record,
         life = "up", life' = life, UNCHANGED <<pinned, unflushed>>,
         v.state # "ready",
         entries[id] # None => entries[id].root = v.root,
         entries' = [entries EXCEPT ![id] = v],
         \/ Written(id, v) /\ op' # None /\ op'.id = id /\ op'.step \in {"pin", "unpin"}
         \/ Unsynced(id, v) /\ op' = None
  PROVE  DurableInv'
  <1> USE DEF DurableInv, PinInv
  <1>1. v # None
    BY NoneIsNoRecord
  <1>2. entries'[id] = v /\ \A i \in RefId : i # id => entries'[i] = entries[i]
    BY DEF TypeOK
  <1>3. /\ RecordSeen'
        /\ recorded'[id] \subseteq recorded[id] \cup {v}
        /\ \A i \in RefId : i # id =>
              /\ recorded'[i] \subseteq recorded[i]
              /\ recorded'[i] \in {recorded[i], {record[i]}}
    BY WrittenFacts, UnsyncedFacts
  <1>4. Covered'
    BY <1>1, <1>2, <1>3 DEF Covered, Working, Claims
  <1>5. OpDurable'
    BY <1>2, WrittenFacts DEF OpDurable
  <1>6. RecoveringDurable'
    BY DEF RecoveringDurable
  <1>7. ReadyPinned'
    BY <1>3 DEF ReadyPinned
  <1>8. ReportsAreDurable'
    BY <1>1, <1>2, <1>3 DEF ReportsAreDurable, RecordSeen
  <1> QED
    BY <1>3, <1>4, <1>5, <1>6, <1>7, <1>8

LEMMA CallDurable == ASSUME PinInv, DurableInv, CallStep PROVE DurableInv'
  <1> USE DEF PinInv
  <1> PICK id \in RefId :
        \/ \E maxBytes \in ImportLimit : ReserveImport(id, maxBytes)
        \/ \E c \in Root, length \in Declared : ReserveRetain(id, <<c, length>>)
        \/ ReleaseReservation(id)
        \/ \E c \in Root : Claim(id, c) \/ ClaimUnsynced(id, c)
        \/ \E source \in RefId : Clone(source, id) \/ CloneUnsynced(source, id)
        \/ Release(id)
        \/ ReleaseUnsynced(id)
    BY DEF CallStep
  <1>1. ASSUME UNCHANGED <<life, disk, entries, op>> PROVE DurableInv'
    BY <1>1 DEF disk, DurableInv, RecordSeen, Covered, OpDurable, RecoveringDurable,
                ReadyPinned, ReportsAreDurable, Working, Claims, Target
  <1>2. ASSUME NEW maxBytes \in ImportLimit, ReserveImport(id, maxBytes) PROVE DurableInv'
    BY <1>1, <1>2 DEF ReserveImport
  <1>3. ASSUME NEW key, ReserveRetain(id, key) PROVE DurableInv'
    BY <1>1, <1>3 DEF ReserveRetain
  <1>4. CASE ReleaseReservation(id)
    BY <1>1, <1>4 DEF ReleaseReservation
  <1>5. ASSUME NEW c \in Root,
               life = "up" /\ UNCHANGED <<life, pinned, unflushed>>,
               entries[id] = None,
               Convert(id, c),
               \/ /\ Written(id, [root |-> c, state |-> "retaining"])
                  /\ op' = [id |-> id, step |-> "pin"]
               \/ Unsynced(id, [root |-> c, state |-> "retaining"]) /\ op' = None
        PROVE  DurableInv'
    <2>1. /\ [root |-> c, state |-> "retaining"] \in Record
          /\ [root |-> c, state |-> "retaining"].state # "ready"
      BY RecordType DEF State
    <2>2. entries' = [entries EXCEPT ![id] = [root |-> c, state |-> "retaining"]]
      BY <1>5 DEF Convert
    <2>3. op' = [id |-> id, step |-> "pin"] =>
              op' # None /\ op'.id = id /\ op'.step \in {"pin", "unpin"}
      BY NoneIsNoRecord DEF Operation
    <2> QED
      BY <1>5, <2>1, <2>2, <2>3, CallWrites
  <1>6. ASSUME NEW c \in Root, Claim(id, c) \/ ClaimUnsynced(id, c) PROVE DurableInv'
    BY <1>5, <1>6 DEF Claim, ClaimUnsynced, Free, ReservedApart
  <1>7. ASSUME NEW source \in RefId, Clone(source, id) \/ CloneUnsynced(source, id)
        PROVE  DurableInv'
    <2>1. entries[source].root \in Root
      BY <1>7, EntryType DEF Clone, CloneUnsynced, Clonable
    <2> QED
      BY <1>5, <1>7, <2>1 DEF Clone, CloneUnsynced, Clonable, Free
  <1>8. CASE Release(id) \/ ReleaseUnsynced(id)
    <2>1. /\ life = "up" /\ UNCHANGED <<life, pinned, unflushed>>
          /\ entries[id] # None
          /\ entries' = [entries EXCEPT ![id] = Releasing(id)]
          /\ \/ Written(id, Releasing(id)) /\ op' = [id |-> id, step |-> "unpin"]
             \/ Unsynced(id, Releasing(id)) /\ op' = None
      BY <1>8 DEF Release, ReleaseUnsynced, Releasable, Free
    <2>2. /\ Releasing(id) \in Record
          /\ Releasing(id).state # "ready"
          /\ entries[id].root = Releasing(id).root
      BY <2>1, EntryType, RecordType DEF Releasing, State
    <2>3. op' = [id |-> id, step |-> "unpin"] =>
              op' # None /\ op'.id = id /\ op'.step \in {"pin", "unpin"}
      BY NoneIsNoRecord DEF Operation
    <2> QED
      BY <2>1, <2>2, <2>3, CallWrites
  <1> QED
    BY <1>2, <1>3, <1>4, <1>6, <1>7, <1>8

(* An error after writes that keep what the invariant says of them.         *)
LEMMA FailDurable ==
  ASSUME PinInv, DurableInv, Fail, op # None, RecordSeen', ReadyPinned',
         \A id \in RefId : \A v \in recorded'[id] : v # None => Claims(id, v.root),
         \A id \in RefId : recorded'[id] = recorded[id]
                           \/ (entries[id] # None /\ entries[id].state # "ready")
  PROVE  DurableInv'
  <1> USE DEF DurableInv
  <1>1. op' = None
    BY DEF Fail, Forget
  <1>2. OpDurable'
    BY <1>1 DEF OpDurable
  <1>3. CASE life = "recovering"
    <2>1. life' = "down"
      BY <1>3 DEF Fail
    <2> QED
      BY <1>2, <2>1 DEF Covered, RecoveringDurable, ReportsAreDurable, Working
  <1>4. CASE life # "recovering"
    <2>1. life' = life /\ entries' = entries
      BY <1>4 DEF Fail, memory
    <2>2. Covered'
      BY <2>1 DEF Covered, Claims
    <2>3. RecoveringDurable'
      BY <1>4, <2>1 DEF RecoveringDurable
    <2>4. ReportsAreDurable'
      BY <2>1 DEF ReportsAreDurable
    <2> QED
      BY <1>2, <2>2, <2>3, <2>4
  <1> QED
    BY <1>3, <1>4

LEMMA OpKeepsDurable == ASSUME PinInv, DurableInv, OpStep PROVE DurableInv'
  <1> USE DEF PinInv, DurableInv
  <1>1. /\ op # None /\ op \in Operation /\ op.id \in RefId /\ Working
        /\ entries[op.id] # None
    BY DEF OpStep, Pin, PinUnflushed, MakeReady, ReadyUnsynced, Unpin, UnpinUnflushed,
           Drop, DropUnsynced, StepFails, At, TypeOK, OpClaim
  <1>2. Target \in Root
    BY <1>1, EntryType DEF Target
  <1>3. \A id \in RefId : \A v \in recorded[id] : v # None => Claims(id, v.root)
    BY <1>1 DEF Covered
  <1>4. recorded[op.id] = {entries[op.id]}
    BY <1>1 DEF OpDurable
  <1>5. ASSUME NEW s \in {"ready", "drop"}, Goto(s)
        PROVE  op'.id = op.id /\ op'.step = s
    BY <1>1, <1>5 DEF Goto, Operation
  (* The pins may change where no claim can be ready after a crash.         *)
  <1>6. ASSUME At("unpin"), pinned' = PinsAfterRelease,
               unflushed' = {} \/ Unflushed(PinsAfterRelease), recorded' = recorded
        PROVE  ReadyPinned'
    <2>1. entries[op.id].state = "releasing"
      BY <1>1, <1>6 DEF At, OpClaim
    <2>2. CASE Claimants(Target) = {op.id}
      <3>1. pinned' = pinned \ {Target}
        BY <1>6, <2>2 DEF PinsAfterRelease
      <3>2. ASSUME NEW id \in RefId, NEW v \in recorded[id], v # None, v.state = "ready"
            PROVE  v.root # Target
        <4>1. Claims(id, Target) => id = op.id
          BY <2>2, ClaimantsClaim
        <4> QED
          BY <1>3, <1>4, <2>1, <3>2, <4>1
      <3> QED
        BY <1>6, <3>1, <3>2 DEF ReadyPinned, Unflushed
    <2>3. CASE Claimants(Target) # {op.id}
      <3>1. pinned' = pinned \cup {Target} /\ PinsAfterRelease = pinned \cup {Target}
        BY <1>6, <2>3 DEF PinsAfterRelease
      <3> QED
        BY <1>6, <3>1 DEF ReadyPinned, Unflushed
    <2> QED
      BY <2>2, <2>3
  <1>7. ASSUME record' = record /\ recorded' = recorded, life' = life, entries' = entries,
               op'.id = op.id, op'.step = "ready" => Target \notin unflushed',
               ReadyPinned'
        PROVE  DurableInv'
    <2>1. OpDurable'
      BY <1>4, <1>7 DEF OpDurable, Target
    <2> QED
      BY <1>7, <2>1 DEF RecordSeen, Covered, RecoveringDurable, ReportsAreDurable,
                        Working, Claims
  (* An error while the pins change or before anything has.                 *)
  <1>8. ASSUME Fail, UNCHANGED <<record, recorded>>, ReadyPinned' PROVE DurableInv'
    <2>1. RecordSeen'
      BY <1>8 DEF RecordSeen
    <2>2. \A id \in RefId : \A v \in recorded'[id] : v # None => Claims(id, v.root)
      BY <1>3, <1>8
    <2>3. \A id \in RefId : recorded'[id] = recorded[id]
                            \/ (entries[id] # None /\ entries[id].state # "ready")
      BY <1>8
    <2>4. op # None
      BY <1>1
    <2> HIDE DEF PinInv, DurableInv
    <2> QED
      BY <1>8, <2>1, <2>2, <2>3, <2>4, FailDurable
  <1>9. CASE Pin
    <2>1. /\ pinned' = pinned \cup {Target} /\ unflushed' = {}
          /\ UNCHANGED <<record, recorded, life, entries>>
          /\ op'.id = op.id
      BY <1>5, <1>9 DEF Pin, EnsurePinned, Flushed, memory
    <2>2. ReadyPinned'
      BY <2>1 DEF ReadyPinned
    <2> QED
      BY <1>7, <2>1, <2>2
  <1>10. CASE PinUnflushed
    <2>1. /\ pinned' = pinned \cup {Target} /\ UNCHANGED <<record, recorded>> /\ Fail
          /\ Unflushed(pinned \cup {Target})
      BY <1>10 DEF PinUnflushed, Unflushed
    <2>2. ReadyPinned'
      BY <2>1 DEF ReadyPinned, Unflushed
    <2> QED
      BY <1>8, <2>1, <2>2
  <1>11. CASE Unpin
    <2>1. /\ pinned' = PinsAfterRelease /\ unflushed' = {}
          /\ UNCHANGED <<record, recorded, life, entries>>
          /\ op'.id = op.id
      BY <1>5, <1>11 DEF Unpin, Flushed, memory
    <2> QED
      BY <1>6, <1>7, <1>11, <2>1 DEF Unpin
  <1>12. CASE UnpinUnflushed
    <2>1. /\ pinned' = PinsAfterRelease /\ UNCHANGED <<record, recorded>> /\ Fail
          /\ Unflushed(PinsAfterRelease)
      BY <1>12 DEF UnpinUnflushed, Unflushed
    <2>2. ReadyPinned'
      BY <1>6, <1>12, <2>1 DEF UnpinUnflushed
    <2> QED
      BY <1>8, <2>1, <2>2
  <1>13. CASE StepFails
    <2>1. Fail /\ UNCHANGED <<record, recorded, pinned, unflushed>>
      BY <1>13 DEF StepFails, disk
    <2>2. ReadyPinned'
      BY <2>1 DEF ReadyPinned
    <2> QED
      BY <1>8, <2>1, <2>2
  <1>14. CASE MakeReady \/ ReadyUnsynced
    <2>1. /\ Ready \in Record /\ Ready # None
          /\ Ready.root = Target /\ Target \in pinned \ unflushed
          /\ UNCHANGED <<pinned, unflushed>>
      BY <1>1, <1>2, <1>14, RecordType, NoneIsNoRecord
      DEF Ready, State, MakeReady, ReadyUnsynced, OpPin, OpDurable, At
    <2>2. /\ entries[op.id].state = "retaining"
          /\ Claims(op.id, Ready.root)
      BY <1>1, <1>14, <2>1 DEF MakeReady, ReadyUnsynced, At, OpClaim, Claims, Target
    <2>3. /\ RecordSeen'
          /\ recorded'[op.id] \subseteq recorded[op.id] \cup {Ready}
          /\ \A i \in RefId : i # op.id => recorded'[i] \subseteq recorded[i]
      BY <1>1, <1>14, <2>1, WrittenFacts, UnsyncedFacts DEF MakeReady, ReadyUnsynced
    <2>4. ReadyPinned'
      BY <2>1, <2>3 DEF ReadyPinned
    <2>5. CASE MakeReady
      <3>1. /\ entries'[op.id] = Ready
            /\ \A i \in RefId : i # op.id => entries'[i] = entries[i]
            /\ op' = None /\ life' = life
        BY <1>1, <2>5 DEF MakeReady, TypeOK
      <3>2. /\ recorded'[op.id] = {Ready}
            /\ \A i \in RefId : i # op.id => recorded'[i] = {record[i]}
        BY <1>1, <2>1, <2>5, WrittenFacts DEF MakeReady
      <3>3. Covered'
        BY <1>3, <2>1, <2>3, <3>1, <3>2 DEF Covered, Claims
      <3>4. RecoveringDurable'
        BY <3>1, <3>2 DEF RecoveringDurable, RecordSeen
      <3>5. ReportsAreDurable'
        BY <2>1, <3>1, <3>2 DEF ReportsAreDurable, RecordSeen
      <3> QED
        BY <2>3, <2>4, <3>1, <3>3, <3>4, <3>5 DEF OpDurable
    <2>6. CASE ReadyUnsynced
      <3>1. \A i \in RefId : i # op.id => recorded'[i] = recorded[i]
        BY <1>1, <2>1, <2>6, UnsyncedFacts DEF ReadyUnsynced
      <3>2. \A id \in RefId : \A v \in recorded'[id] : v # None => Claims(id, v.root)
        BY <1>3, <2>2, <2>3
      <3>3. \A id \in RefId : recorded'[id] = recorded[id]
                              \/ (entries[id] # None /\ entries[id].state # "ready")
        BY <1>1, <2>2, <3>1
      <3>4. Fail /\ op # None /\ RecordSeen'
        BY <1>1, <2>3, <2>6 DEF ReadyUnsynced
      <3> HIDE DEF PinInv, DurableInv
      <3> QED
        BY <2>4, <3>2, <3>3, <3>4, FailDurable
    <2> QED
      BY <1>14, <2>5, <2>6
  <1>15. CASE Drop \/ DropUnsynced
    <2>1. entries[op.id].state = "releasing" /\ UNCHANGED <<pinned, unflushed>>
      BY <1>1, <1>15 DEF Drop, DropUnsynced, At, OpClaim
    <2>2. /\ RecordSeen'
          /\ recorded'[op.id] \subseteq recorded[op.id] \cup {None}
          /\ \A i \in RefId : i # op.id => recorded'[i] \subseteq recorded[i]
      BY <1>1, <1>15, WrittenFacts, UnsyncedFacts DEF Drop, DropUnsynced
    <2>3. ReadyPinned'
      BY <2>1, <2>2 DEF ReadyPinned
    <2>4. CASE Drop
      <3>1. /\ entries'[op.id] = None
            /\ \A i \in RefId : i # op.id => entries'[i] = entries[i]
            /\ op' = None /\ life' = life
        BY <1>1, <2>4 DEF Drop, TypeOK
      <3>2. /\ recorded'[op.id] = {None}
            /\ \A i \in RefId : i # op.id => recorded'[i] = {record[i]}
        BY <1>1, <2>4, WrittenFacts DEF Drop
      <3>3. Covered'
        BY <1>3, <2>2, <3>1, <3>2 DEF Covered, Claims
      <3>4. RecoveringDurable'
        BY <3>1, <3>2 DEF RecoveringDurable, RecordSeen
      <3>5. ReportsAreDurable'
        BY <3>1, <3>2 DEF ReportsAreDurable, RecordSeen
      <3> QED
        BY <2>2, <2>3, <3>1, <3>3, <3>4, <3>5 DEF OpDurable
    <2>5. CASE DropUnsynced
      <3>1. \A i \in RefId : i # op.id => recorded'[i] = recorded[i]
        BY <1>1, <2>5, UnsyncedFacts DEF DropUnsynced
      <3>2. \A id \in RefId : \A v \in recorded'[id] : v # None => Claims(id, v.root)
        BY <1>3, <2>2
      <3>3. \A id \in RefId : recorded'[id] = recorded[id]
                              \/ (entries[id] # None /\ entries[id].state # "ready")
        BY <1>1, <2>1, <3>1
      <3>4. Fail /\ op # None /\ RecordSeen'
        BY <1>1, <2>2, <2>5 DEF DropUnsynced
      <3> HIDE DEF PinInv, DurableInv
      <3> QED
        BY <2>3, <3>2, <3>3, <3>4, FailDurable
    <2> QED
      BY <1>15, <2>4, <2>5
  <1> QED
    BY <1>9, <1>10, <1>11, <1>12, <1>13, <1>14, <1>15 DEF OpStep

(* A store that is not open has nothing to hold but what a crash may leave. *)
LEMMA StoppedDurable ==
  ASSUME op' = None, life' \notin {"recovering", "up"}, RecordSeen', ReadyPinned'
  PROVE  DurableInv'
  BY DEF DurableInv, Covered, OpDurable, RecoveringDurable, ReportsAreDurable, Working

LEMMA OpenDurable ==
  ASSUME PinInv, DurableInv, OpenStep, Reopens = FALSE
  PROVE  DurableInv'
  <1> USE DEF PinInv, DurableInv
  <1>1. CASE Load
    <2>1. /\ Settled /\ life' = "recovering" /\ entries' = record /\ UNCHANGED disk /\ op' = op
      BY <1>1 DEF Load
    <2>2. op' = None
      BY <1>1 DEF Load, OpClaim, Working
    <2>3. \A id \in RefId : recorded'[id] = {entries'[id]}
      BY <2>1 DEF Settled, disk
    <2>4. Covered' /\ RecoveringDurable' /\ OpDurable' /\ ReportsAreDurable'
      BY <2>1, <2>2, <2>3
      DEF Covered, Claims, RecoveringDurable, OpDurable, ReportsAreDurable
    <2>5. RecordSeen' /\ ReadyPinned'
      BY <2>1 DEF RecordSeen, ReadyPinned, disk
    <2> QED
      BY <2>4, <2>5
  <1>3. ASSUME NEW id \in RefId, Resume(id) PROVE DurableInv'
    <2>1. /\ life = "recovering" /\ UNCHANGED <<life, disk, memory>>
          /\ op'.id = id /\ op'.step # "ready"
      BY <1>3 DEF Resume
    <2>2. OpDurable'
      BY <2>1 DEF OpDurable, RecoveringDurable, disk, memory
    <2> QED
      BY <2>1, <2>2 DEF RecordSeen, Covered, RecoveringDurable, ReadyPinned,
                        ReportsAreDurable, Working, Claims, disk, memory
  (* No record that a crash may leave is for a file without a claim.        *)
  <1>4. ASSUME NEW c \in Root, c \in Orphans, life = "recovering",
               pinned' = pinned \ {c},
               unflushed' = {} \/ unflushed' \subseteq unflushed \cup {c},
               UNCHANGED <<record, recorded>>
        PROVE  RecordSeen' /\ ReadyPinned'
    <2>1. \A id \in RefId : ~Claims(id, c)
      BY <1>4, ClaimantsClaim DEF Orphans
    <2>2. \A id \in RefId : \A v \in recorded[id] : v # None => v.root # c
      BY <1>4, <2>1 DEF Covered, Working
    <2> QED
      BY <1>4, <2>2 DEF RecordSeen, ReadyPinned
  <1>5. ASSUME NEW c \in Root, RemoveOrphan(c) PROVE DurableInv'
    <2>1. /\ c \in Orphans /\ life = "recovering" /\ op' = None
          /\ pinned' = pinned \ {c} /\ unflushed' = {}
          /\ UNCHANGED <<record, recorded, life, entries>>
      BY <1>5 DEF RemoveOrphan, Finished, Flushed, memory
    <2>2. RecordSeen' /\ ReadyPinned'
      BY <1>4, <2>1
    <2> QED
      BY <2>1, <2>2 DEF Covered, OpDurable, RecoveringDurable, ReportsAreDurable, Working, Claims
  <1>6. ASSUME NEW c \in Root, OrphanUnflushed(c) PROVE DurableInv'
    <2>1. /\ c \in Orphans /\ life = "recovering" /\ op' = None /\ life' = "down"
          /\ pinned' = pinned \ {c} /\ unflushed' \subseteq unflushed \cup {c}
          /\ UNCHANGED <<record, recorded>>
      BY <1>6 DEF OrphanUnflushed, Finished, Unflushed, Fail, Forget, Orphans
    <2> QED
      BY <1>4, <2>1, StoppedDurable
  <1>7. CASE Opened
    <2>1. /\ life = "recovering" /\ life' = "up" /\ op' = None
          /\ UNCHANGED <<disk, memory>>
      BY <1>7 DEF Opened, Finished
    <2>2. ReportsAreDurable'
      BY <2>1 DEF ReportsAreDurable, RecoveringDurable, disk, memory
    <2> QED
      BY <2>1, <2>2 DEF RecordSeen, Covered, OpDurable, RecoveringDurable, ReadyPinned,
                        Working, Claims, disk, memory
  <1> QED
    BY <1>1, <1>3, <1>5, <1>6, <1>7 DEF OpenStep

LEMMA DurableStep ==
  ASSUME Reopens = FALSE, PinInv, DurableInv, [Next]_vars
  PROVE  DurableInv'
  <1>1. CASE CallStep
    BY <1>1, CallDurable
  <1>2. CASE OpStep
    BY <1>2, OpKeepsDurable
  <1>3. CASE OpenStep
    BY <1>3, OpenDurable
  <1>4. CASE Close
    <2>1. op' = None /\ life' = "down" /\ UNCHANGED disk
      BY <1>4 DEF Close, Forget
    <2>2. RecordSeen' /\ ReadyPinned'
      BY <2>1 DEF DurableInv, RecordSeen, ReadyPinned, disk
    <2> QED
      BY <2>1, <2>2, StoppedDurable
  <1>5. CASE Crash
    <2>1. op' = None /\ life' = "down" /\ unflushed' = {} /\ pinned \ unflushed \subseteq pinned'
      BY <1>5 DEF Crash, Forget
    <2>2. \A id \in RefId : recorded'[id] = {record'[id]} /\ record'[id] \in recorded[id]
      BY <1>5 DEF Crash
    <2>3. RecordSeen' /\ ReadyPinned'
      BY <2>1, <2>2 DEF DurableInv, RecordSeen, ReadyPinned
    <2> QED
      BY <2>1, <2>3, StoppedDurable
  <1>6. CASE UNCHANGED vars
    <2>1. /\ life' = life /\ record' = record /\ recorded' = recorded /\ pinned' = pinned
          /\ unflushed' = unflushed /\ entries' = entries /\ op' = op
      BY <1>6 DEF vars, disk, memory
    <2> QED
      BY <2>1 DEF DurableInv, RecordSeen, Covered, OpDurable, RecoveringDurable, ReadyPinned,
                  ReportsAreDurable, Working, Target, Claims
  <1> QED
    BY <1>1, <1>2, <1>3, <1>4, <1>5, <1>6 DEF Next

LEMMA DurableInit == ASSUME Init PROVE DurableInv
  BY DEF Init, Nothing, DurableInv, RecordSeen, Covered, OpDurable, RecoveringDurable,
         ReadyPinned, ReportsAreDurable, Working

(* The invariant of the writes holds of stores opened over settled ones.    *)
THEOREM AttachmentDurable == ASSUME Reopens = FALSE PROVE Spec => []DurableInv
  <1>1. Init => PinInv /\ DurableInv
    BY PinInit, DurableInit
  <1>2. PinInv /\ DurableInv /\ [Next]_vars => PinInv' /\ DurableInv'
    BY PinStep, DurableStep
  <1> QED
    BY <1>1, <1>2, PTL DEF Spec

(* Of a store that is opened over settled writes only: whatever a crash     *)
(* loses, a claim that is found ready finds its file pinned (finishRetain,  *)
(* Release).                                                                *)
THEOREM AttachmentReadyPinned == ASSUME Reopens = FALSE PROVE Spec => []ReadyPinned
  <1>1. DurableInv => ReadyPinned
    BY DEF DurableInv
  <1> QED
    BY <1>1, AttachmentDurable, PTL

(* Of the same stores: what a call has reported survives any crash.         *)
THEOREM AttachmentReportsAreDurable ==
  ASSUME Reopens = FALSE PROVE Spec => []ReportsAreDurable
  <1>1. DurableInv => ReportsAreDurable
    BY DEF DurableInv
  <1> QED
    BY <1>1, AttachmentDurable, PTL
-----------------------------------------------------------------------------
(* The quota, which is kept however the store is opened.                    *)

ImportsOf(p) == {id \in Held(p) : "bytes" \in DOMAIN p[id]}

ImportBytes(p) == SumOver([id \in ImportsOf(p) |-> p[id].bytes], ImportsOf(p))

(* The keys that claims e and reservations p are charged for.               *)
Counted(e, p) ==
    {KeyOf(e[id].root) : id \in Held(e)} \cup {p[id].key : id \in Held(p) \ ImportsOf(p)}

References(e, p) == Cardinality(Held(e)) + Cardinality(Held(p))

QuotaInv ==
    Working =>
        /\ accounted = Counted(entries, pending)
        /\ References(entries, pending) <= MaxReferences
        /\ LogicalBytes(accounted) + ImportBytes(pending) <= MaxLogicalBytes

EntryMap == [RefId -> Record \cup {None}]
PendingMap == [RefId -> Reservation \cup {None}]

LEMMA ReservationKinds ==
  ASSUME NEW p \in PendingMap, NEW id \in Held(p)
  PROVE  \/ id \in ImportsOf(p) /\ \E b \in Nat : p[id] = [bytes |-> b]
         \/ id \notin ImportsOf(p) /\ \E k \in Key : p[id] = [key |-> k]
  <1>1. p[id] \in Reservation
    BY DEF Held, PendingMap
  <1>2. CASE p[id] \in [key : Key]
    <2>1. DOMAIN p[id] = {"key"}
      BY <1>2
    <2>2. "bytes" \notin DOMAIN p[id]
      BY <2>1
    <2> QED
      BY <1>2, <2>2 DEF ImportsOf
  <1>3. CASE p[id] \in [bytes : Nat]
    <2>1. DOMAIN p[id] = {"bytes"}
      BY <1>3
    <2> QED
      BY <1>3, <2>1 DEF ImportsOf
  <1> QED
    BY <1>1, <1>2, <1>3 DEF Reservation

Retains(p, id, k) == p[id] # None /\ p[id] = [key |-> k]

(* The keys, one at a time.                                                 *)
LEMMA CountedKeys ==
  ASSUME NEW e, NEW p \in PendingMap, NEW k
  PROVE  k \in Counted(e, p) <=>
            \/ \E id \in RefId : e[id] # None /\ k = KeyOf(e[id].root)
            \/ \E id \in RefId : Retains(p, id, k)
  <1>1. ASSUME NEW id \in Held(p) \ ImportsOf(p), k = p[id].key PROVE Retains(p, id, k)
    <2>1. PICK x \in Key : p[id] = [key |-> x]
      BY <1>1, ReservationKinds
    <2> QED
      BY <1>1, <2>1 DEF Retains, Held
  <1>2. ASSUME NEW id \in RefId, Retains(p, id, k)
        PROVE  id \in Held(p) \ ImportsOf(p) /\ p[id].key = k
    <2>1. DOMAIN p[id] = {"key"}
      BY <1>2 DEF Retains
    <2>2. "bytes" \notin DOMAIN p[id]
      BY <2>1
    <2> QED
      BY <1>2, <2>2 DEF Retains, Held, ImportsOf
  <1> QED
    BY <1>1, <1>2 DEF Counted, Held

LEMMA HeldFinite ==
  ASSUME NEW f
  PROVE  /\ Held(f) \subseteq RefId /\ IsFiniteSet(Held(f)) /\ Cardinality(Held(f)) \in Nat
         /\ ImportsOf(f) \subseteq Held(f) /\ IsFiniteSet(ImportsOf(f))
  <1>1. Held(f) \subseteq RefId /\ ImportsOf(f) \subseteq Held(f)
    BY DEF Held, ImportsOf
  <1> QED
    BY <1>1, AttachmentAssumption, FS_Subset, FS_CardinalityType

(* One ID more is held, or one less.                                        *)
LEMMA HeldChange ==
  ASSUME NEW f, NEW g, NEW id \in RefId, \A i \in RefId : i # id => g[i] = f[i]
  PROVE  /\ f[id] = None /\ g[id] # None => Cardinality(Held(g)) = Cardinality(Held(f)) + 1
         /\ f[id] # None /\ g[id] = None => Cardinality(Held(g)) = Cardinality(Held(f)) - 1
         /\ (f[id] = None <=> g[id] = None) => Held(g) = Held(f)
  <1>1. ASSUME f[id] = None, g[id] # None PROVE Cardinality(Held(g)) = Cardinality(Held(f)) + 1
    <2>1. Held(g) = Held(f) \cup {id} /\ id \notin Held(f)
      BY <1>1 DEF Held
    <2> QED
      BY <2>1, HeldFinite, FS_AddElement
  <1>2. ASSUME f[id] # None, g[id] = None PROVE Cardinality(Held(g)) = Cardinality(Held(f)) - 1
    <2>1. Held(g) = Held(f) \ {id} /\ id \in Held(f)
      BY <1>2 DEF Held
    <2> QED
      BY <2>1, HeldFinite, FS_RemoveElement
  <1>3. ASSUME f[id] = None <=> g[id] = None PROVE Held(g) = Held(f)
    BY <1>3 DEF Held
  <1> QED
    BY <1>1, <1>2, <1>3

(* The bytes of imports.                                                    *)
LEMMA ImportLength ==
  ASSUME NEW p \in PendingMap, NEW id \in ImportsOf(p)
  PROVE  p[id].bytes \in Nat
  <1>1. id \in Held(p)
    BY DEF ImportsOf
  <1>2. PICK b \in Nat : p[id] = [bytes |-> b]
    BY <1>1, ReservationKinds
  <1> QED
    BY <1>2

LEMMA ImportNat == ASSUME NEW p \in PendingMap PROVE ImportBytes(p) \in Nat
  BY ImportLength, HeldFinite, SumNat DEF ImportBytes

LEMMA ImportSame ==
  ASSUME NEW p \in PendingMap, NEW q \in PendingMap, ImportsOf(q) = ImportsOf(p),
         \A id \in ImportsOf(p) : q[id] = p[id]
  PROVE  ImportBytes(q) = ImportBytes(p)
  BY HeldFinite, SumSame DEF ImportBytes

LEMMA ImportAdd ==
  ASSUME NEW p \in PendingMap, NEW q \in PendingMap, NEW id \in RefId, NEW b \in Nat,
         p[id] = None, q[id] = [bytes |-> b], q[id] # None, \A i \in RefId : i # id => q[i] = p[i]
  PROVE  ImportBytes(q) = ImportBytes(p) + b
  <1> DEFINE f == [i \in ImportsOf(p) |-> p[i].bytes]
             g == [i \in ImportsOf(q) |-> q[i].bytes]
  <1>1. "bytes" \in DOMAIN q[id]
    <2>1. DOMAIN q[id] = {"bytes"}
      OBVIOUS
    <2> QED
      BY <2>1
  <1>2. ImportsOf(q) = ImportsOf(p) \cup {id} /\ id \notin ImportsOf(p)
    BY <1>1 DEF ImportsOf, Held
  <1>3. \A i \in ImportsOf(q) : g[i] \in Nat
    BY ImportLength
  <1>4. g[id] = b
    BY <1>2
  <1>5. \A i \in ImportsOf(p) : f[i] = g[i]
    BY <1>2 DEF ImportsOf, Held
  <1>6. IsFiniteSet(ImportsOf(p))
    BY HeldFinite
  <1> HIDE DEF f, g
  <1>7. SumOver(g, ImportsOf(q)) = b + SumOver(g, ImportsOf(p))
    BY <1>2, <1>3, <1>4, <1>6, SumAdd
  <1>8. SumOver(f, ImportsOf(p)) = SumOver(g, ImportsOf(p))
    BY <1>5, <1>6, SumSame
  <1>9. SumOver(f, ImportsOf(p)) = ImportBytes(p) /\ SumOver(g, ImportsOf(q)) = ImportBytes(q)
    BY DEF f, g, ImportBytes
  <1> QED
    BY <1>7, <1>8, <1>9, ImportNat

(* The bytes of keys.                                                       *)
LEMMA BytesNat ==
  ASSUME NEW K \in SUBSET Key, IsFiniteSet(K)
  PROVE  LogicalBytes(K) \in Nat
  BY SumNat DEF LogicalBytes, SizeOf, Key

LEMMA BytesUniform ==
  ASSUME NEW K \in SUBSET Key, IsFiniteSet(K)
  PROVE  LogicalBytes(K) = SumOver([k \in Key |-> SizeOf(k)], K)
  BY SumSame DEF LogicalBytes

LEMMA BytesSubset ==
  ASSUME NEW K \in SUBSET Key, IsFiniteSet(K), NEW L \in SUBSET K
  PROVE  IsFiniteSet(L) /\ LogicalBytes(L) <= LogicalBytes(K)
  <1> DEFINE f == [k \in Key |-> SizeOf(k)]
  <1>1. \A k \in K : f[k] \in Nat
    BY DEF SizeOf, Key
  <1>2. IsFiniteSet(L) /\ L \in SUBSET Key
    BY FS_Subset
  <1> HIDE DEF f
  <1>3. SumOver(f, L) <= SumOver(f, K)
    BY <1>1, SumSubset
  <1> QED
    BY <1>2, <1>3, BytesUniform DEF f

LEMMA BytesAdd ==
  ASSUME NEW K \in SUBSET Key, IsFiniteSet(K), NEW k \in Key
  PROVE  /\ IsFiniteSet(K \cup {k})
         /\ LogicalBytes(K \cup {k}) <= LogicalBytes(K) + SizeOf(k)
  <1> DEFINE f == [x \in Key |-> SizeOf(x)]
  <1>1. \A x \in Key : f[x] \in Nat /\ f[x] = SizeOf(x)
    BY DEF SizeOf, Key
  <1>2. IsFiniteSet(K \cup {k}) /\ K \cup {k} \in SUBSET Key
    BY FS_AddElement
  <1> HIDE DEF f
  <1>3. LogicalBytes(K) \in Nat /\ SizeOf(k) \in Nat
    BY <1>1, BytesNat
  <1>4. CASE k \in K
    <2>1. LogicalBytes(K \cup {k}) = LogicalBytes(K)
      <3>1. K \cup {k} = K
        BY <1>4
      <3> QED
        BY <3>1
    <2> QED
      BY <1>2, <1>3, <2>1
  <1>5. CASE k \notin K
    <2>0. \A x \in K \cup {k} : f[x] \in Nat
      BY <1>1
    <2>1. SumOver(f, K \cup {k}) = f[k] + SumOver(f, K)
      BY <1>5, <2>0, SumAdd
    <2>2. SumOver(f, K \cup {k}) = LogicalBytes(K \cup {k}) /\ SumOver(f, K) = LogicalBytes(K)
      BY <1>2, BytesUniform DEF f
    <2> QED
      BY <1>1, <1>2, <1>3, <2>1, <2>2
  <1> QED
    BY <1>4, <1>5

LEMMA CountedFinite ==
  ASSUME NEW e, NEW p
  PROVE  IsFiniteSet(Counted(e, p))
  <1> DEFINE f == [id \in Held(e) |-> KeyOf(e[id].root)]
             g == [id \in Held(p) \ ImportsOf(p) |-> p[id].key]
  <1>1. IsFiniteSet({f[id] : id \in Held(e)})
    BY HeldFinite, FiniteImage
  <1>2. IsFiniteSet(Held(p) \ ImportsOf(p))
    BY HeldFinite, FS_Subset
  <1>3. IsFiniteSet({g[id] : id \in Held(p) \ ImportsOf(p)})
    BY <1>2, FiniteImage
  <1>4. /\ {f[id] : id \in Held(e)} = {KeyOf(e[id].root) : id \in Held(e)}
        /\ {g[id] : id \in Held(p) \ ImportsOf(p)} = {p[id].key : id \in Held(p) \ ImportsOf(p)}
    OBVIOUS
  <1> QED
    BY <1>1, <1>3, <1>4, FS_Union DEF Counted

LEMMA QuotaTypes ==
  ASSUME TypeOK
  PROVE  /\ entries \in EntryMap /\ pending \in PendingMap
         /\ accounted \in SUBSET Key
         /\ MaxReferences \in Nat /\ MaxLogicalBytes \in Nat
         /\ Cardinality(Held(entries)) \in Nat /\ Cardinality(Held(pending)) \in Nat
         /\ ImportBytes(pending) \in Nat
  BY ImportNat, HeldFinite, AttachmentAssumption DEF TypeOK, EntryMap, PendingMap

LEMMA AccountedFinite ==
  ASSUME TypeOK, QuotaInv, Working
  PROVE  IsFiniteSet(accounted) /\ LogicalBytes(accounted) \in Nat
  <1>1. IsFiniteSet(accounted)
    BY CountedFinite DEF QuotaInv
  <1> QED
    BY <1>1, BytesNat DEF TypeOK

LEMMA QuotaStopped == ASSUME life' = "down" PROVE QuotaInv'
  BY DEF QuotaInv, Working

(* A step that changes states of claims only.                               *)
LEMMA QuotaSame ==
  ASSUME QuotaInv, Working' => Working, UNCHANGED <<pending, accounted>>,
         \A id \in RefId : entries'[id] = None <=> entries[id] = None,
         \A id \in RefId : entries[id] # None => entries'[id].root = entries[id].root
  PROVE  QuotaInv'
  <1>1. Held(entries') = Held(entries)
    BY DEF Held
  <1>2. \A id \in Held(entries) : entries'[id].root = entries[id].root
    BY DEF Held
  <1>3. Counted(entries', pending') = Counted(entries, pending)
    BY <1>1, <1>2 DEF Counted
  <1>4. References(entries', pending') = References(entries, pending)
    BY <1>1 DEF References
  <1> QED
    BY <1>3, <1>4 DEF QuotaInv

(* A claim takes the place of a reservation, or shares a key.               *)
LEMMA QuotaConvert ==
  ASSUME PinInv, QuotaInv, TypeOK', life = "up", life' = life, NEW id \in RefId, NEW c \in Root,
         entries[id] = None, Convert(id, c),
         \/ pending[id] # None /\ Found(id, c)
         \/ pending[id] = None /\ RoomForReference /\ KeyOf(c) \in accounted
  PROVE  QuotaInv'
  <1> DEFINE P == pending
             Q == pending'
             E == entries
             F == entries'
  <1>1. /\ \A i \in RefId : i # id => F[i] = E[i] /\ Q[i] = P[i]
        /\ F[id] = [root |-> c, state |-> "retaining"] /\ Q[id] = None
        /\ accounted' = accounted \cup {KeyOf(c)}
    BY DEF Convert, PinInv, TypeOK
  <1>2. F[id] # None /\ F[id].root = c
    <2>1. [root |-> c, state |-> "retaining"] \in Record
      BY RecordType DEF State
    <2> QED
      BY <1>1, <2>1, NoneIsNoRecord
  <1>3. /\ P \in PendingMap /\ Q \in PendingMap /\ Working /\ KeyOf(c) \in Key
        /\ accounted \in SUBSET Key /\ accounted = Counted(E, P)
        /\ References(E, P) <= MaxReferences
        /\ LogicalBytes(accounted) + ImportBytes(P) <= MaxLogicalBytes
    BY KeyType DEF PinInv, TypeOK, PendingMap, Working, QuotaInv
  <1>4. ASSUME NEW k, Retains(P, id, k) PROVE k = KeyOf(c)
    <2>1. DOMAIN P[id] = {"key"} /\ P[id].key = k
      BY <1>4 DEF Retains
    <2>2. "key" \in DOMAIN P[id]
      BY <2>1
    <2> QED
      BY <1>4, <2>1, <2>2 DEF Found, Retains
  <1>5. accounted' = Counted(F, Q)
    <2>1. ASSUME NEW k PROVE k \in accounted' <=> k \in Counted(F, Q)
      <3>1. ASSUME k \in accounted PROVE k \in Counted(F, Q)
        <4>1. CASE \E i \in RefId : E[i] # None /\ k = KeyOf(E[i].root)
          BY <1>1, <1>3, <4>1, CountedKeys
        <4>2. CASE \E i \in RefId : Retains(P, i, k)
          <5>1. PICK i \in RefId : Retains(P, i, k)
            BY <4>2
          <5>2. CASE i = id
            BY <1>2, <1>3, <1>4, <5>1, <5>2, CountedKeys
          <5>3. CASE i # id
            <6>1. Retains(Q, i, k)
              BY <1>1, <5>1, <5>3 DEF Retains
            <6> QED
              BY <1>3, <6>1, CountedKeys
          <5> QED
            BY <5>2, <5>3
        <4> QED
          BY <1>3, <3>1, <4>1, <4>2, CountedKeys
      <3>2. KeyOf(c) \in Counted(F, Q)
        BY <1>2, <1>3, CountedKeys
      <3>3. ASSUME k \in Counted(F, Q) PROVE k \in accounted'
        <4>1. CASE \E i \in RefId : F[i] # None /\ k = KeyOf(F[i].root)
          <5>1. PICK i \in RefId : F[i] # None /\ k = KeyOf(F[i].root)
            BY <4>1
          <5>2. CASE i = id
            BY <1>1, <1>2, <5>1, <5>2
          <5>3. CASE i # id
            BY <1>1, <1>3, <5>1, <5>3, CountedKeys
          <5> QED
            BY <5>2, <5>3
        <4>2. CASE \E i \in RefId : Retains(Q, i, k)
          <5>1. PICK i \in RefId : Retains(Q, i, k)
            BY <4>2
          <5>2. i # id
            BY <1>1, <5>1 DEF Retains
          <5>3. Retains(P, i, k)
            BY <1>1, <5>1, <5>2 DEF Retains
          <5> QED
            BY <1>1, <1>3, <5>3, CountedKeys
        <4> QED
          BY <1>3, <3>3, <4>1, <4>2, CountedKeys
      <3> QED
        BY <1>1, <3>1, <3>2, <3>3
    <2> QED
      BY <2>1
  <1>6. References(F, Q) <= MaxReferences
    <2>1. Cardinality(Held(F)) = Cardinality(Held(E)) + 1
      BY <1>1, <1>2, HeldChange
    <2>2. CASE P[id] # None
      <3>1. Cardinality(Held(Q)) = Cardinality(Held(P)) - 1
        BY <1>1, <2>2, HeldChange
      <3> QED
        BY <1>3, <2>1, <3>1, HeldFinite, AttachmentAssumption DEF References
    <2>3. CASE P[id] = None /\ RoomForReference
      <3>1. Cardinality(Held(Q)) = Cardinality(Held(P))
        <4>1. Held(Q) = Held(P)
          BY <1>1, <2>3, HeldChange
        <4> QED
          BY <4>1
      <3> QED
        BY <1>3, <2>1, <2>3, <3>1, HeldFinite, AttachmentAssumption DEF References, RoomForReference
    <2> QED
      BY <2>2, <2>3
  <1>7. LogicalBytes(accounted') + ImportBytes(Q) <= MaxLogicalBytes
    <2>1. /\ IsFiniteSet(accounted) /\ LogicalBytes(accounted) \in Nat
          /\ ImportBytes(P) \in Nat /\ ImportBytes(Q) \in Nat /\ MaxLogicalBytes \in Nat
      BY <1>3, AccountedFinite, ImportNat, AttachmentAssumption DEF PinInv
    <2>2. ASSUME KeyOf(c) \in accounted, id \notin ImportsOf(P)
          PROVE  LogicalBytes(accounted') + ImportBytes(Q) <= MaxLogicalBytes
      <3>1. accounted' = accounted
        BY <1>1, <2>2
      <3>2. ImportsOf(Q) = ImportsOf(P) /\ \A i \in ImportsOf(P) : Q[i] = P[i]
        BY <1>1, <2>2 DEF ImportsOf, Held
      <3>3. ImportBytes(Q) = ImportBytes(P)
        BY <1>3, <3>2, ImportSame
      <3> QED
        BY <1>3, <3>1, <3>3
    <2>3. CASE P[id] # None /\ id \notin ImportsOf(P)
      <3>1. PICK k \in Key : P[id] = [key |-> k]
        BY <1>3, <2>3, ReservationKinds DEF Held
      <3>2. Retains(P, id, k)
        BY <2>3, <3>1 DEF Retains
      <3>3. KeyOf(c) \in accounted
        BY <1>3, <1>4, <3>2, CountedKeys
      <3> QED
        BY <2>2, <2>3, <3>3
    <2>4. CASE P[id] # None /\ id \in ImportsOf(P)
      <3>1. PICK b \in Nat : P[id] = [bytes |-> b]
        BY <1>3, <2>4, ReservationKinds DEF Held
      <3>2. ImportBytes(P) = ImportBytes(Q) + b
        BY <1>1, <1>3, <2>4, <3>1, ImportAdd
      <3>3. "key" \notin DOMAIN P[id] /\ P[id].bytes = b
        <4>1. DOMAIN P[id] = {"bytes"} /\ P[id].bytes = b
          BY <3>1
        <4> QED
          BY <4>1
      <3>4. SizeOf(KeyOf(c)) = Length[c] /\ Length[c] \in Nat
        BY AttachmentAssumption DEF SizeOf, KeyOf
      <3>5. Length[c] <= b
        BY <2>4, <3>3 DEF Found
      <3>6. LogicalBytes(accounted') <= LogicalBytes(accounted) + Length[c]
        BY <1>1, <1>3, <2>1, <3>4, BytesAdd
      <3>7. LogicalBytes(accounted') \in Nat
        BY <1>1, <1>3, <2>1, BytesAdd, BytesNat
      <3> QED
        BY <1>3, <2>1, <3>2, <3>4, <3>5, <3>6, <3>7
    <2>5. CASE P[id] = None /\ KeyOf(c) \in accounted
      BY <2>2, <2>5 DEF ImportsOf, Held
    <2> QED
      BY <2>3, <2>4, <2>5
  <1> QED
    BY <1>5, <1>6, <1>7 DEF QuotaInv

(* A claim or a reservation goes, with the key that nothing else counts.    *)
LEMMA QuotaRelease ==
  ASSUME PinInv, QuotaInv, Working, Working', NEW id \in RefId, pending[id] # None,
         pending' = [pending EXCEPT ![id] = None], UNCHANGED entries,
         accounted' = accounted \ Unaccounted(id)
  PROVE  QuotaInv'
  <1> DEFINE P == pending
             Q == pending'
             E == entries
  <1>1. /\ \A i \in RefId : i # id => Q[i] = P[i]
        /\ Q[id] = None
        /\ P \in PendingMap /\ Q \in PendingMap
    BY DEF PinInv, TypeOK, PendingMap
  <1>2. /\ accounted \in SUBSET Key /\ accounted = Counted(E, P)
        /\ References(E, P) <= MaxReferences
        /\ LogicalBytes(accounted) + ImportBytes(P) <= MaxLogicalBytes
        /\ IsFiniteSet(accounted) /\ LogicalBytes(accounted) \in Nat
    BY AccountedFinite DEF PinInv, TypeOK, QuotaInv
  <1>3. ASSUME NEW k PROVE k \in accounted' <=> k \in Counted(E, Q)
    <2>1. ASSUME k \in Counted(E, Q) PROVE k \in accounted'
      <3>1. CASE \E i \in RefId : E[i] # None /\ k = KeyOf(E[i].root)
        <4>1. PICK i \in RefId : E[i] # None /\ k = KeyOf(E[i].root)
          BY <3>1
        <4>2. E[i].root \in Root /\ i \in Claimants(E[i].root)
          BY <4>1, EntryType, ClaimantsClaim DEF PinInv, Claims
        <4>3. k \notin Unaccounted(id)
          BY <4>1, <4>2 DEF Unaccounted
        <4>4. k \in accounted
          BY <1>1, <1>2, <4>1, CountedKeys
        <4> QED
          BY <4>3, <4>4
      <3>2. CASE \E i \in RefId : Retains(Q, i, k)
        <4>1. PICK i \in RefId : Retains(Q, i, k)
          BY <3>2
        <4>2. i # id /\ Retains(P, i, k)
          BY <1>1, <4>1 DEF Retains
        <4>3. i \in RetainsOf(k)
          BY <4>2 DEF RetainsOf, Retains, Held
        <4>4. k \notin Unaccounted(id)
          BY <4>2, <4>3 DEF Unaccounted
        <4>5. k \in accounted
          BY <1>1, <1>2, <4>2, CountedKeys
        <4> QED
          BY <4>4, <4>5
      <3> QED
        BY <1>1, <2>1, <3>1, <3>2, CountedKeys
    <2>2. ASSUME k \in accounted' PROVE k \in Counted(E, Q)
      <3>1. k \in accounted /\ k \notin Unaccounted(id)
        BY <2>2
      <3>2. CASE \E i \in RefId : E[i] # None /\ k = KeyOf(E[i].root)
        BY <1>1, <3>2, CountedKeys
      <3>3. CASE /\ \E i \in RefId : Retains(P, i, k)
                 /\ ~\E i \in RefId : E[i] # None /\ k = KeyOf(E[i].root)
        <4>1. CASE \E i \in RefId : i # id /\ Retains(P, i, k)
          <5>1. PICK i \in RefId : i # id /\ Retains(P, i, k)
            BY <4>1
          <5>2. Retains(Q, i, k)
            BY <1>1, <5>1 DEF Retains
          <5> QED
            BY <1>1, <5>2, CountedKeys
        <4>2. CASE Retains(P, id, k) /\ ~\E i \in RefId : i # id /\ Retains(P, i, k)
          <5>1. DOMAIN P[id] = {"key"} /\ P[id].key = k
            BY <4>2 DEF Retains
          <5>2. "key" \in DOMAIN P[id]
            BY <5>1
          <5>3. RetainsOf(k) = {id}
            BY <4>2 DEF RetainsOf, Retains, Held
          <5>4. ASSUME NEW c \in Root, k = KeyOf(c) PROVE Claimants(c) = {}
            BY <3>3, <5>4 DEF Claimants, Held
          <5>5. k \in Unaccounted(id)
            BY <5>1, <5>2, <5>3, <5>4 DEF Unaccounted
          <5> QED
            BY <3>1, <5>5
        <4> QED
          BY <3>3, <4>1, <4>2
      <3> QED
        BY <1>1, <1>2, <3>1, <3>2, <3>3, CountedKeys
    <2> QED
      BY <2>1, <2>2
  <1>4. References(E, Q) <= MaxReferences
    <2>1. Cardinality(Held(Q)) = Cardinality(Held(P)) - 1
      BY <1>1, HeldChange
    <2> QED
      BY <1>2, <2>1, HeldFinite, AttachmentAssumption DEF References
  <1>5. LogicalBytes(accounted') + ImportBytes(Q) <= MaxLogicalBytes
    <2>1. accounted' \in SUBSET accounted
      OBVIOUS
    <2>2. LogicalBytes(accounted') <= LogicalBytes(accounted) /\ LogicalBytes(accounted') \in Nat
      BY <1>2, <2>1, BytesSubset, BytesNat
    <2>3. ImportBytes(Q) <= ImportBytes(P)
      <3>1. CASE id \in ImportsOf(P)
        <4>1. PICK b \in Nat : P[id] = [bytes |-> b]
          BY <1>1, <3>1, ReservationKinds DEF Held
        <4>2. Q[id] = None /\ P[id] # None /\ \A i \in RefId : i # id => P[i] = Q[i]
          BY <1>1
        <4>3. ImportBytes(P) = ImportBytes(Q) + b
          BY <1>1, <4>1, <4>2, ImportAdd
        <4> QED
          BY <1>1, <4>3, ImportNat
      <3>2. CASE id \notin ImportsOf(P)
        <4>1. ImportsOf(Q) = ImportsOf(P) /\ \A i \in ImportsOf(P) : Q[i] = P[i]
          BY <1>1, <3>2 DEF ImportsOf, Held
        <4>2. ImportBytes(Q) = ImportBytes(P)
          BY <1>1, <4>1, ImportSame
        <4> QED
          BY <1>1, <4>2, ImportNat
      <3> QED
        BY <3>1, <3>2
    <2> QED
      BY <1>1, <1>2, <2>2, <2>3, ImportNat, AttachmentAssumption
  <1>6. accounted' = Counted(E, Q)
    BY <1>3
  <1> QED
    BY <1>4, <1>5, <1>6 DEF QuotaInv

LEMMA QuotaReserve ==
  ASSUME PinInv, QuotaInv, TypeOK', NEW id \in RefId,
         \/ \E maxBytes \in ImportLimit : ReserveImport(id, maxBytes)
         \/ \E c \in Root, length \in Declared : ReserveRetain(id, <<c, length>>)
  PROVE  QuotaInv'
  <1> DEFINE P == pending
             Q == pending'
             E == entries
  <1>1. /\ life = "up" /\ UNCHANGED <<life, entries>>
        /\ E[id] = None /\ P[id] = None /\ RoomForReference
        /\ \A i \in RefId : i # id => Q[i] = P[i]
        /\ P \in PendingMap /\ Q \in PendingMap
    BY DEF ReserveImport, ReserveRetain, Reservable, Free, PinInv, TypeOK, PendingMap
  <1>2. /\ accounted \in SUBSET Key /\ accounted = Counted(E, P)
        /\ LogicalBytes(accounted) + ImportBytes(P) <= MaxLogicalBytes
        /\ IsFiniteSet(accounted) /\ LogicalBytes(accounted) \in Nat
        /\ Committed = LogicalBytes(accounted) + ImportBytes(P)
        /\ ImportBytes(P) \in Nat /\ MaxLogicalBytes \in Nat
    <2>1. Working
      BY <1>1 DEF Working
    <2>2. Committed = LogicalBytes(accounted) + ImportBytes(P)
      BY DEF Committed, ImportBytes, Imports, ImportsOf
    <2> QED
      BY <1>1, <2>1, <2>2, AccountedFinite, ImportNat, AttachmentAssumption DEF PinInv, TypeOK, QuotaInv
  <1>3. ASSUME Q[id] # None PROVE References(E, Q) <= MaxReferences
    <2>1. Cardinality(Held(Q)) = Cardinality(Held(P)) + 1
      BY <1>1, <1>3, HeldChange
    <2> QED
      BY <1>1, <2>1, HeldFinite, AttachmentAssumption DEF References, RoomForReference
  <1>4. ASSUME NEW maxBytes \in ImportLimit, ReserveImport(id, maxBytes) PROVE QuotaInv'
    <2>1. /\ Q[id] = [bytes |-> maxBytes] /\ maxBytes \in Nat
          /\ accounted' = accounted /\ Committed + maxBytes <= MaxLogicalBytes
      BY <1>4, AttachmentAssumption DEF ReserveImport, RoomFor, PinInv, TypeOK
    <2>2. Q[id] # None
      <3>1. [bytes |-> maxBytes] \in Reservation
        BY <2>1 DEF Reservation
      <3> QED
        BY <2>1, <3>1, NoneIsNoRecord
    <2>3. ImportBytes(Q) = ImportBytes(P) + maxBytes
      BY <1>1, <2>1, <2>2, ImportAdd
    <2>4. ASSUME NEW k, NEW i \in RefId PROVE Retains(P, i, k) <=> Retains(Q, i, k)
      <3>1. CASE i = id
        <4>1. DOMAIN Q[id] = {"bytes"} /\ DOMAIN [key |-> k] = {"key"}
          BY <2>1
        <4> QED
          BY <1>1, <3>1, <4>1 DEF Retains
      <3>2. CASE i # id
        BY <1>1, <3>2 DEF Retains
      <3> QED
        BY <3>1, <3>2
    <2>5. Counted(E, Q) = Counted(E, P)
      <3>1. ASSUME NEW k PROVE k \in Counted(E, Q) <=> k \in Counted(E, P)
        BY <1>1, <2>4, CountedKeys
      <3> QED
        BY <3>1
    <2>6. Committed + maxBytes = LogicalBytes(accounted') + ImportBytes(Q)
      BY <1>2, <2>1, <2>3
    <2> QED
      BY <1>1, <1>2, <1>3, <2>1, <2>2, <2>5, <2>6 DEF QuotaInv
  <1>5. ASSUME NEW c \in Root, NEW length \in Declared, ReserveRetain(id, <<c, length>>) PROVE QuotaInv'
    <2> DEFINE key == <<c, length>>
    <2>1. key \in Key /\ SizeOf(key) = length /\ length \in Nat
      BY AttachmentAssumption DEF Key, SizeOf
    <2>2. /\ Q[id] = [key |-> key]
          /\ accounted' = accounted \cup {key}
          /\ key \in accounted \/ Committed + SizeOf(key) <= MaxLogicalBytes
      BY <1>5 DEF ReserveRetain, RoomFor, PinInv, TypeOK
    <2> HIDE DEF key
    <2>3. Q[id] # None
      <3>1. [key |-> key] \in Reservation
        BY <2>1 DEF Reservation
      <3> QED
        BY <2>2, <3>1, NoneIsNoRecord
    <2>4. ASSUME NEW k PROVE k \in accounted' <=> k \in Counted(E, Q)
      <3>1. \A i \in RefId : i # id => (Retains(P, i, k) <=> Retains(Q, i, k))
        BY <1>1 DEF Retains
      <3>2. ~Retains(P, id, k)
        BY <1>1 DEF Retains
      <3>3. Retains(Q, id, k) <=> k = key
        <4>1. ASSUME Retains(Q, id, k) PROVE k = key
          <5>1. Q[id].key = k /\ Q[id].key = key
            BY <2>2, <4>1 DEF Retains
          <5> QED
            BY <5>1
        <4> QED
          BY <2>2, <2>3, <4>1 DEF Retains
      <3>4. k \in Counted(E, Q) <=> k \in Counted(E, P) \/ k = key
        BY <1>1, <3>1, <3>2, <3>3, CountedKeys
      <3> QED
        BY <1>2, <2>2, <3>4
    <2>5. ImportBytes(Q) = ImportBytes(P)
      <3>1. "bytes" \notin DOMAIN Q[id]
        <4>1. DOMAIN Q[id] = {"key"}
          BY <2>2
        <4> QED
          BY <4>1
      <3>2. ImportsOf(Q) = ImportsOf(P) /\ \A i \in ImportsOf(P) : Q[i] = P[i]
        BY <1>1, <3>1 DEF ImportsOf, Held
      <3> QED
        BY <1>1, <3>2, ImportSame
    <2>6. LogicalBytes(accounted') + ImportBytes(Q) <= MaxLogicalBytes
      <3>1. CASE key \in accounted
        <4>1. accounted' = accounted
          BY <2>2, <3>1
        <4> QED
          BY <1>2, <2>5, <4>1
      <3>2. CASE Committed + SizeOf(key) <= MaxLogicalBytes
        <4>1. LogicalBytes(accounted') <= LogicalBytes(accounted) + SizeOf(key)
          BY <1>2, <2>1, <2>2, BytesAdd
        <4>2. LogicalBytes(accounted') \in Nat
          BY <1>2, <2>1, <2>2, BytesAdd, BytesNat
        <4> QED
          BY <1>2, <2>1, <2>5, <3>2, <4>1, <4>2
      <3> QED
        BY <2>2, <3>1, <3>2
    <2>7. accounted' = Counted(E, Q)
      BY <2>4
    <2> QED
      BY <1>1, <1>3, <2>3, <2>6, <2>7 DEF QuotaInv
  <1> QED
    BY <1>4, <1>5

LEMMA QuotaDrop ==
  ASSUME PinInv, QuotaInv, Drop
  PROVE  QuotaInv'
  <1> DEFINE id == op.id
             c == entries[op.id].root
             P == pending
             E == entries
             F == entries'
  <1>1. /\ op # None /\ id \in RefId /\ E[id] # None /\ Working /\ Working' /\ Target = c
    BY DEF Drop, At, PinInv, OpClaim, Target, Working
  <1>2. /\ F[id] = None /\ \A i \in RefId : i # id => F[i] = E[i]
        /\ P \in PendingMap /\ pending' = P
    BY <1>1 DEF Drop, PinInv, TypeOK, PendingMap
  <1>3. /\ accounted \in SUBSET Key /\ accounted = Counted(E, P)
        /\ References(E, P) <= MaxReferences
        /\ LogicalBytes(accounted) + ImportBytes(P) <= MaxLogicalBytes
        /\ IsFiniteSet(accounted) /\ LogicalBytes(accounted) \in Nat
    BY <1>1, AccountedFinite DEF PinInv, TypeOK, QuotaInv
  <1>4. accounted' = IF Claimants(c) = {id} /\ RetainsOf(KeyOf(c)) = {}
                     THEN accounted \ {KeyOf(c)} ELSE accounted
    BY <1>1 DEF Drop
  <1> HIDE DEF id, c
  <1>5. ASSUME NEW k PROVE k \in accounted' <=> k \in Counted(F, P)
    <2>1. ASSUME k \in Counted(F, P) PROVE k \in accounted'
      <3>1. CASE \E i \in RefId : F[i] # None /\ k = KeyOf(F[i].root)
        <4>1. PICK i \in RefId : F[i] # None /\ k = KeyOf(F[i].root)
          BY <3>1
        <4>2. i # id /\ E[i] # None /\ k = KeyOf(E[i].root)
          BY <1>2, <4>1
        <4>3. k \in accounted
          BY <1>2, <1>3, <4>2, CountedKeys
        <4>4. CASE k = KeyOf(c)
          <5>1. E[i].root = c
            BY <4>2, <4>4 DEF KeyOf
          <5>2. i \in Claimants(c)
            BY <4>2, <5>1 DEF Claimants, Held
          <5> QED
            BY <1>4, <4>2, <4>3, <5>2
        <4> QED
          BY <1>4, <4>3, <4>4
      <3>2. CASE \E i \in RefId : Retains(P, i, k)
        <4>1. PICK i \in RefId : Retains(P, i, k)
          BY <3>2
        <4>2. i \in RetainsOf(k)
          BY <4>1 DEF RetainsOf, Retains, Held
        <4>3. k \in accounted
          BY <1>2, <1>3, <4>1, CountedKeys
        <4> QED
          BY <1>4, <4>2, <4>3
      <3> QED
        BY <1>2, <2>1, <3>1, <3>2, CountedKeys
    <2>2. ASSUME k \in accounted' PROVE k \in Counted(F, P)
      <3>1. k \in accounted
        BY <1>4, <2>2
      <3>2. CASE \E i \in RefId : i # id /\ E[i] # None /\ k = KeyOf(E[i].root)
        BY <1>2, <3>2, CountedKeys
      <3>3. CASE \E i \in RefId : Retains(P, i, k)
        BY <1>2, <3>3, CountedKeys
      <3>4. CASE /\ k = KeyOf(E[id].root)
                 /\ ~\E i \in RefId : i # id /\ E[i] # None /\ k = KeyOf(E[i].root)
                 /\ ~\E i \in RefId : Retains(P, i, k)
        <4>1. c = E[id].root
          BY DEF c, id
        <4>2. Claimants(c) = {id}
          BY <1>1, <3>4, <4>1 DEF Claimants, Held
        <4>3. RetainsOf(KeyOf(c)) = {}
          BY <3>4, <4>1 DEF RetainsOf, Retains, Held
        <4> QED
          BY <1>4, <2>2, <3>4, <4>1, <4>2, <4>3
      <3> QED
        BY <1>2, <1>3, <3>1, <3>2, <3>3, <3>4, CountedKeys
    <2> QED
      BY <2>1, <2>2
  <1>6. accounted' = Counted(F, P)
    BY <1>5
  <1>7. References(F, P) <= MaxReferences
    <2>1. Cardinality(Held(F)) = Cardinality(Held(E)) - 1
      BY <1>1, <1>2, HeldChange
    <2> QED
      BY <1>3, <2>1, HeldFinite, AttachmentAssumption DEF References
  <1>8. LogicalBytes(accounted') + ImportBytes(P) <= MaxLogicalBytes
    <2>1. accounted' \in SUBSET accounted
      BY <1>4
    <2>2. LogicalBytes(accounted') <= LogicalBytes(accounted) /\ LogicalBytes(accounted') \in Nat
      BY <1>3, <2>1, BytesSubset, BytesNat
    <2> QED
      BY <1>2, <1>3, <2>2, ImportNat, AttachmentAssumption
  <1> QED
    BY <1>2, <1>6, <1>7, <1>8 DEF QuotaInv

(* Open takes up the records if they fit, and there are no reservations.    *)
LEMMA QuotaLoad ==
  ASSUME PinInv, Load
  PROVE  QuotaInv'
  <1>1. /\ \A id \in RefId : pending[id] = None
        /\ pending' = pending /\ entries' = record /\ accounted' = {KeyOf(c) : c \in Roots}
    BY DEF Load, PinInv, ReservedApart
  <1>2. Held(pending) = {} /\ ImportsOf(pending) = {}
    BY <1>1 DEF Held, ImportsOf
  <1>3. Counted(record, pending) = {KeyOf(c) : c \in Roots}
    BY <1>2 DEF Counted, Roots
  <1>4. References(record, pending) <= MaxReferences
    BY <1>2, FS_EmptySet, HeldFinite DEF References, Load, Acceptable
  <1>5. ImportBytes(pending) = 0
    BY <1>2, SumEmpty DEF ImportBytes
  <1>6. {KeyOf(c) : c \in Roots} \in SUBSET Key
    <2>1. Roots \subseteq Root
      BY DEF Roots, Held, PinInv, TypeOK, Record
    <2> QED
      BY <2>1, KeyType
  <1>7. LogicalBytes({KeyOf(c) : c \in Roots}) \in Nat
    BY <1>3, <1>6, CountedFinite, BytesNat
  <1>8. LogicalBytes(accounted') + ImportBytes(pending) <= MaxLogicalBytes
    BY <1>1, <1>5, <1>7 DEF Load, Acceptable
  <1> QED
    BY <1>1, <1>3, <1>4, <1>8 DEF QuotaInv

LEMMA QuotaStep ==
  ASSUME PinInv, QuotaInv, TypeOK', Next
  PROVE  QuotaInv'
  <1>a. ASSUME Fail PROVE QuotaInv'
    <2>1. CASE life = "recovering"
      BY <1>a, <2>1, QuotaStopped DEF Fail
    <2>2. CASE life # "recovering"
      BY <1>a, <2>2, QuotaSame DEF Fail, memory, Working
    <2> QED
      BY <2>1, <2>2
  <1>b. ASSUME UNCHANGED <<life, memory>> PROVE QuotaInv'
    BY <1>b, QuotaSame DEF memory, Working
  <1>c. ASSUME UNCHANGED <<life, pending, accounted>>, NEW id \in RefId, entries[id] # None,
               NEW v \in Record, v.root = entries[id].root, entries' = [entries EXCEPT ![id] = v]
        PROVE  QuotaInv'
    <2>1. v # None
      BY <1>c, NoneIsNoRecord
    <2>2. entries'[id] = v /\ \A i \in RefId : i # id => entries'[i] = entries[i]
      BY <1>c DEF PinInv, TypeOK
    <2> QED
      BY <1>c, <2>1, <2>2, QuotaSame DEF Working
  <1>1. CASE CallStep
    <2>0. PICK id \in RefId :
          \/ \E maxBytes \in ImportLimit : ReserveImport(id, maxBytes)
          \/ \E c \in Root, length \in Declared : ReserveRetain(id, <<c, length>>)
          \/ ReleaseReservation(id)
          \/ \E c \in Root : Claim(id, c) \/ ClaimUnsynced(id, c)
          \/ \E source \in RefId : Clone(source, id) \/ CloneUnsynced(source, id)
          \/ Release(id)
          \/ ReleaseUnsynced(id)
      BY <1>1 DEF CallStep
    <2>1. CASE \/ \E maxBytes \in ImportLimit : ReserveImport(id, maxBytes)
               \/ \E c \in Root, length \in Declared : ReserveRetain(id, <<c, length>>)
      BY <2>1, QuotaReserve
    <2>2. CASE ReleaseReservation(id)
      BY <2>2, QuotaRelease DEF ReleaseReservation, Free, Working
    <2>3. ASSUME NEW c \in Root, Claim(id, c) \/ ClaimUnsynced(id, c) PROVE QuotaInv'
      <3>1. /\ life = "up" /\ life' = life /\ pending[id] # None /\ Found(id, c) /\ Convert(id, c)
        BY <2>3 DEF Claim, ClaimUnsynced, Free
      <3>2. entries[id] = None
        BY <3>1 DEF PinInv, ReservedApart
      <3> QED
        BY <3>1, <3>2, QuotaConvert
    <2>4. ASSUME NEW source \in RefId, Clone(source, id) \/ CloneUnsynced(source, id)
          PROVE  QuotaInv'
      <3> DEFINE c == entries[source].root
      <3>1. Clonable(source, id) /\ life' = life /\ Convert(id, c)
        BY <2>4 DEF Clone, CloneUnsynced
      <3>2. /\ life = "up" /\ entries[id] = None /\ pending[id] = None /\ RoomForReference
            /\ entries[source] # None
        BY <3>1 DEF Clonable, Free
      <3>3. c \in Root
        BY <3>2, EntryType DEF PinInv
      <3>4. KeyOf(c) \in accounted
        <4>1. accounted = Counted(entries, pending) /\ pending \in PendingMap
          BY <3>2 DEF QuotaInv, Working, PinInv, TypeOK, PendingMap
        <4> QED
          BY <3>2, <4>1, CountedKeys
      <3> HIDE DEF c
      <3> QED
        BY <3>1, <3>2, <3>3, <3>4, QuotaConvert
    <2>5. CASE Release(id) \/ ReleaseUnsynced(id)
      <3>1. /\ Releasable(id) /\ entries' = [entries EXCEPT ![id] = Releasing(id)]
            /\ UNCHANGED <<life, pending, accounted>>
        BY <2>5 DEF Release, ReleaseUnsynced
      <3>2. Releasing(id) \in Record /\ Releasing(id).root = entries[id].root
        BY <3>1, EntryType, RecordType DEF Releasable, Releasing, State, PinInv
      <3> QED
        BY <1>c, <3>1, <3>2 DEF Releasable
    <2> QED
      BY <2>0, <2>1, <2>2, <2>3, <2>4, <2>5
  <1>2. CASE OpStep
    <2>1. CASE Pin \/ Unpin
      BY <1>b, <2>1 DEF Pin, Unpin
    <2>2. CASE PinUnflushed \/ ReadyUnsynced \/ UnpinUnflushed \/ DropUnsynced \/ StepFails
      BY <1>a, <2>2 DEF PinUnflushed, ReadyUnsynced, UnpinUnflushed, DropUnsynced, StepFails
    <2>3. CASE MakeReady
      <3>1. op.id \in RefId /\ entries[op.id] # None
        BY <2>3 DEF MakeReady, At, PinInv, OpClaim
      <3>2. Ready \in Record /\ Ready.root = entries[op.id].root
        BY <3>1, EntryType, RecordType DEF Ready, Target, State, PinInv
      <3> QED
        BY <1>c, <2>3, <3>1, <3>2 DEF MakeReady
    <2>4. CASE Drop
      BY <2>4, QuotaDrop
    <2> QED
      BY <1>2, <2>1, <2>2, <2>3, <2>4 DEF OpStep
  <1>3. CASE OpenStep
    <2>1. CASE Load
      BY <2>1, QuotaLoad
    <2>2. CASE Opened
      BY <2>2, QuotaSame DEF Opened, Finished, Working, memory
    <2>3. ASSUME NEW id \in RefId, Resume(id) PROVE QuotaInv'
      BY <1>b, <2>3 DEF Resume
    <2>4. ASSUME NEW c \in Root, RemoveOrphan(c) PROVE QuotaInv'
      BY <1>b, <2>4 DEF RemoveOrphan
    <2>5. ASSUME NEW c \in Root, OrphanUnflushed(c) PROVE QuotaInv'
      BY <1>a, <2>5 DEF OrphanUnflushed
    <2> QED
      BY <1>3, <2>1, <2>2, <2>3, <2>4, <2>5 DEF OpenStep
  <1>4. CASE Close \/ Crash
    BY <1>4, QuotaStopped DEF Close, Crash
  <1> QED
    BY <1>1, <1>2, <1>3, <1>4 DEF Next

(* The store is charged for exactly the keys of its claims and running      *)
(* retains, and keeps within both limits, however it is opened.             *)
THEOREM AttachmentQuotaInv == Spec => []QuotaInv
  <1>1. Init => PinInv /\ QuotaInv
    BY PinInit DEF Init, QuotaInv, Working
  <1>2. PinInv /\ QuotaInv /\ [Next]_vars => PinInv' /\ QuotaInv'
    <2> SUFFICES ASSUME PinInv, QuotaInv, [Next]_vars PROVE PinInv' /\ QuotaInv'
      OBVIOUS
    <2>1. PinInv'
      BY PinStep
    <2>2. CASE Next
      BY <2>1, <2>2, QuotaStep DEF PinInv
    <2>3. CASE UNCHANGED vars
      BY <2>1, <2>3, QuotaSame DEF vars, memory, Working
    <2> QED
      BY <2>1, <2>2, <2>3
  <1> QED
    BY <1>1, <1>2, PTL DEF Spec

(* Claims and running calls together keep within the limits of references   *)
(* and of logical bytes, and the keys that count are exactly theirs,        *)
(* through failures and concurrent calls on one root (reserve,              *)
(* releaseReservation, convertReservation, removeEntry).                    *)
THEOREM AttachmentQuotaExact == Spec => []QuotaExact
  <1>1. ASSUME QuotaInv PROVE QuotaExact
    <2>1. Imports = ImportsOf(pending)
      BY DEF Imports, ImportsOf
    <2>2. Committed = LogicalBytes(accounted) + ImportBytes(pending)
      BY <2>1 DEF Committed, ImportBytes
    <2> QED
      BY <1>1, <2>1, <2>2 DEF QuotaInv, Working, QuotaExact, AccountedExactly, WithinLimits,
                              Counted, References
  <1> QED
    BY <1>1, AttachmentQuotaInv, PTL

-----------------------------------------------------------------------------
(* What a crash may leave behind fits the limits, if the store is opened    *)
(* over settled writes only.                                                *)

(* The IDs and roots of the records that writes r may leave.                *)
LeftIds(r) == {id \in RefId : r[id] \ {None} # {}}

LeftRoots(r) == UNION {{v.root : v \in r[id] \ {None}} : id \in RefId}

Keys(roots) == {KeyOf(c) : c \in roots}

(* Pins and records that Open accepts.  A claim that recovery pins is one   *)
(* of a record, so the pins of both are counted together.                   *)
Limited(pins, r) ==
    /\ Cardinality(LeftIds(r)) <= MaxReferences
    /\ IsFiniteSet(pins \cup LeftRoots(r))
    /\ Cardinality(pins \cup LeftRoots(r)) <= MaxReferences
    /\ LogicalBytes(Keys(LeftRoots(r))) <= MaxLogicalBytes

LeftLimited == life # "up" => Limited(pinned \cup unflushed, recorded)

(* A pin that may come or go in a crash is the pin of a claim.              *)
UnflushedClaimed ==
    /\ life = "up" => \A c \in unflushed : \E id \in RefId : Claims(id, c)
    /\ life = "recovering" => unflushed = {}
    /\ At("drop") => unflushed = {}

LimitInv == LeftLimited /\ UnflushedClaimed

LEMMA LeftRootsIn ==
  ASSUME NEW r, NEW c
  PROVE  c \in LeftRoots(r) <=> \E id \in RefId : \E v \in r[id] : v # None /\ v.root = c
  BY DEF LeftRoots

LEMMA LimitedShrinks ==
  ASSUME NEW P, NEW r, NEW Q, NEW s, Limited(P, r),
         LeftRoots(r) \subseteq Root, LeftRoots(s) \subseteq LeftRoots(r),
         LeftIds(s) \subseteq LeftIds(r), Q \subseteq P \cup LeftRoots(r)
  PROVE  Limited(Q, s)
  <1>1. IsFiniteSet(RefId) /\ MaxReferences \in Nat /\ MaxLogicalBytes \in Nat
    BY AttachmentAssumption
  <1>2. Cardinality(LeftIds(s)) <= MaxReferences
    <2>1. IsFiniteSet(LeftIds(r))
      BY <1>1, FS_Subset DEF LeftIds
    <2>2. /\ Cardinality(LeftIds(s)) <= Cardinality(LeftIds(r))
          /\ Cardinality(LeftIds(r)) \in Nat /\ Cardinality(LeftIds(s)) \in Nat
      BY <2>1, FS_Subset, FS_CardinalityType
    <2> QED
      BY <1>1, <2>2 DEF Limited
  <1>3. IsFiniteSet(Q \cup LeftRoots(s)) /\ Cardinality(Q \cup LeftRoots(s)) <= MaxReferences
    <2>1. IsFiniteSet(P \cup LeftRoots(r)) /\ Q \cup LeftRoots(s) \subseteq P \cup LeftRoots(r)
      BY DEF Limited
    <2>2. /\ IsFiniteSet(Q \cup LeftRoots(s))
          /\ Cardinality(Q \cup LeftRoots(s)) <= Cardinality(P \cup LeftRoots(r))
          /\ Cardinality(Q \cup LeftRoots(s)) \in Nat /\ Cardinality(P \cup LeftRoots(r)) \in Nat
      BY <2>1, FS_Subset, FS_CardinalityType
    <2> QED
      BY <1>1, <2>2 DEF Limited
  <1>4. LogicalBytes(Keys(LeftRoots(s))) <= MaxLogicalBytes
    <2> DEFINE f == [c \in LeftRoots(r) |-> KeyOf(c)]
    <2>1. IsFiniteSet(LeftRoots(r))
      BY FS_Subset DEF Limited
    <2>2. IsFiniteSet({f[c] : c \in LeftRoots(r)})
      BY <2>1, FiniteImage
    <2>3. Keys(LeftRoots(r)) = {f[c] : c \in LeftRoots(r)}
      BY DEF Keys
    <2>4. Keys(LeftRoots(r)) \in SUBSET Key /\ Keys(LeftRoots(s)) \in SUBSET Keys(LeftRoots(r))
      BY KeyType DEF Keys
    <2>5. IsFiniteSet(Keys(LeftRoots(r)))
      BY <2>2, <2>3
    <2>6. LogicalBytes(Keys(LeftRoots(s))) <= LogicalBytes(Keys(LeftRoots(r)))
      BY <2>4, <2>5, BytesSubset
    <2>7. IsFiniteSet(Keys(LeftRoots(s)))
      BY <2>4, <2>5, FS_Subset
    <2>8. /\ LogicalBytes(Keys(LeftRoots(s))) \in Nat
          /\ LogicalBytes(Keys(LeftRoots(r))) \in Nat
      BY <2>4, <2>5, <2>7, BytesNat
    <2> QED
      BY <1>1, <2>6, <2>8 DEF Limited
  <1> QED
    BY <1>2, <1>3, <1>4 DEF Limited

LEMMA LeftTypes == ASSUME TypeOK PROVE LeftRoots(recorded) \subseteq Root
  BY DEF LeftRoots, TypeOK, Record

(* While calls are served, everything on disk belongs to claims, which fit. *)
LEMMA UpLimited ==
  ASSUME PinInv, DurableInv, QuotaInv, UnflushedClaimed, life = "up"
  PROVE  Limited(pinned \cup unflushed, recorded)
  <1> DEFINE f == [id \in RefId |-> entries[id].root]
             H == Held(entries)
             R == {f[id] : id \in H}
  <1>1. Working /\ TypeOK /\ MaxReferences \in Nat /\ MaxLogicalBytes \in Nat
    BY AttachmentAssumption DEF Working, PinInv
  <1>2. /\ IsFiniteSet(H) /\ Cardinality(H) \in Nat
        /\ IsFiniteSet(R) /\ Cardinality(R) <= Cardinality(H)
    BY HeldFinite, FiniteImage
  <1>3. Cardinality(R) \in Nat
    BY <1>2, FS_CardinalityType
  <1>4. ASSUME NEW id \in RefId, NEW c, Claims(id, c) PROVE c \in R /\ id \in H
    BY <1>4 DEF Claims, Held
  <1>5. LeftRoots(recorded) \subseteq R
    BY <1>1, <1>4, LeftRootsIn DEF DurableInv, Covered
  <1>6. LeftIds(recorded) \subseteq H
    BY <1>1, <1>4 DEF DurableInv, Covered, LeftIds
  <1>7. pinned \cup unflushed \subseteq R
    BY <1>4 DEF PinInv, PinHasClaim, UnflushedClaimed
  <1>8. Cardinality(H) <= MaxReferences
    BY <1>1, <1>2, HeldFinite DEF QuotaInv, References
  <1> HIDE DEF R, H, f
  <1>9. Cardinality(LeftIds(recorded)) <= MaxReferences
    <2>1. /\ Cardinality(LeftIds(recorded)) <= Cardinality(H)
          /\ Cardinality(LeftIds(recorded)) \in Nat
      BY <1>2, <1>6, FS_Subset, FS_CardinalityType
    <2> QED
      BY <1>1, <1>2, <1>8, <2>1
  <1>10. /\ IsFiniteSet((pinned \cup unflushed) \cup LeftRoots(recorded))
         /\ Cardinality((pinned \cup unflushed) \cup LeftRoots(recorded)) <= MaxReferences
    <2> DEFINE U == (pinned \cup unflushed) \cup LeftRoots(recorded)
    <2>1. U \subseteq R
      BY <1>5, <1>7
    <2> HIDE DEF U
    <2>2. IsFiniteSet(U) /\ Cardinality(U) <= Cardinality(R) /\ Cardinality(U) \in Nat
      BY <1>2, <2>1, FS_Subset, FS_CardinalityType
    <2> QED
      BY <1>1, <1>2, <1>3, <1>8, <2>2 DEF U
  <1>11. LogicalBytes(Keys(LeftRoots(recorded))) <= MaxLogicalBytes
    <2>1. accounted = Counted(entries, pending)
      BY <1>1 DEF QuotaInv
    <2>2. {KeyOf(entries[id].root) : id \in Held(entries)} \subseteq accounted
      BY <2>1 DEF Counted
    <2>3. Keys(LeftRoots(recorded)) \in SUBSET accounted
      BY <1>5, <2>2 DEF Keys, R, f, H, Held
    <2>4. /\ IsFiniteSet(accounted) /\ accounted \in SUBSET Key /\ LogicalBytes(accounted) \in Nat
      BY <1>1, AccountedFinite DEF TypeOK
    <2>5. /\ IsFiniteSet(Keys(LeftRoots(recorded)))
          /\ LogicalBytes(Keys(LeftRoots(recorded))) <= LogicalBytes(accounted)
      BY <2>3, <2>4, BytesSubset
    <2>6. LogicalBytes(Keys(LeftRoots(recorded))) \in Nat /\ ImportBytes(pending) \in Nat
      <3>1. Keys(LeftRoots(recorded)) \in SUBSET Key
        BY <2>3, <2>4
      <3> QED
        BY <1>1, <2>5, <3>1, BytesNat, QuotaTypes
    <2>7. LogicalBytes(accounted) + ImportBytes(pending) <= MaxLogicalBytes
      BY <1>1 DEF QuotaInv
    <2> QED
      BY <1>1, <2>4, <2>5, <2>6, <2>7
  <1> QED
    BY <1>9, <1>10, <1>11 DEF Limited

LEMMA NowLimited ==
  ASSUME PinInv, DurableInv, QuotaInv, LimitInv
  PROVE  Limited(pinned \cup unflushed, recorded) /\ LeftRoots(recorded) \subseteq Root
  BY UpLimited, LeftTypes DEF LimitInv, LeftLimited, PinInv

LEMMA UnflushedStep ==
  ASSUME Reopens = FALSE, PinInv, DurableInv, LimitInv, Next
  PROVE  UnflushedClaimed'
  <1>a. ASSUME unflushed' = {} PROVE UnflushedClaimed'
    BY <1>a DEF UnflushedClaimed
  <1>b. ASSUME life' = "down", op' = None PROVE UnflushedClaimed'
    BY <1>b DEF UnflushedClaimed, At
  <1>c. ASSUME life = "up", life' = "up", UNCHANGED unflushed, op' # None => op'.step # "drop",
               \A id \in RefId : entries[id] # None =>
                   entries'[id] # None /\ entries'[id].root = entries[id].root
        PROVE  UnflushedClaimed'
    <2>1. \A id \in RefId : \A c : Claims(id, c) => Claims(id, c)'
      BY <1>c DEF Claims
    <2> QED
      BY <1>c, <2>1 DEF LimitInv, UnflushedClaimed, At
  <1>d. ASSUME Fail, op # None, unflushed' \subseteq unflushed \cup {Target} PROVE UnflushedClaimed'
    <2>1. CASE life = "recovering"
      BY <1>b, <1>d, <2>1 DEF Fail, Forget
    <2>2. CASE life # "recovering"
      <3>1. life = "up" /\ op' = None /\ life' = life /\ entries' = entries
        BY <1>d, <2>2 DEF Fail, memory, PinInv, OpClaim, Working
      <3>2. \A id \in RefId : \A c : Claims(id, c) => Claims(id, c)'
        BY <3>1 DEF Claims
      <3>3. op.id \in RefId /\ Claims(op.id, Target)
        BY <1>d DEF PinInv, OpClaim, Claims, Target
      <3>4. \A c \in unflushed' : \E id \in RefId : Claims(id, c)
        BY <1>d, <3>1, <3>3 DEF LimitInv, UnflushedClaimed
      <3>5. \A c \in unflushed' : \E id \in RefId : Claims(id, c)'
        BY <3>2, <3>4
      <3> QED
        BY <3>1, <3>5 DEF UnflushedClaimed, At
    <2> QED
      BY <2>1, <2>2
  <1>1. CASE CallStep
    <2>0. PICK id \in RefId :
          \/ \E maxBytes \in ImportLimit : ReserveImport(id, maxBytes)
          \/ \E c \in Root, length \in Declared : ReserveRetain(id, <<c, length>>)
          \/ ReleaseReservation(id)
          \/ \E c \in Root : Claim(id, c) \/ ClaimUnsynced(id, c)
          \/ \E source \in RefId : Clone(source, id) \/ CloneUnsynced(source, id)
          \/ Release(id)
          \/ ReleaseUnsynced(id)
      BY <1>1 DEF CallStep
    <2>1. CASE \/ \E maxBytes \in ImportLimit : ReserveImport(id, maxBytes)
               \/ \E c \in Root, length \in Declared : ReserveRetain(id, <<c, length>>)
               \/ ReleaseReservation(id)
      BY <1>c, <2>1 DEF ReserveImport, ReserveRetain, ReleaseReservation, Reservable, Free, disk
    <2>2. ASSUME NEW c \in Root, entries[id] = None, Convert(id, c), life = "up", life' = "up",
                 UNCHANGED unflushed, op' # None => op'.step # "drop"
          PROVE  UnflushedClaimed'
      <3>1. \A i \in RefId : i # id => entries'[i] = entries[i]
        BY <2>2 DEF Convert, PinInv, TypeOK
      <3> QED
        BY <1>c, <2>2, <3>1
    <2>3. ASSUME NEW c \in Root, Claim(id, c) \/ ClaimUnsynced(id, c) PROVE UnflushedClaimed'
      <3>1. entries[id] = None /\ Convert(id, c) /\ life = "up" /\ life' = "up" /\ UNCHANGED unflushed
        BY <2>3 DEF Claim, ClaimUnsynced, Free, PinInv, ReservedApart
      <3>2. op' # None => op'.step # "drop"
        BY <2>3 DEF Claim, ClaimUnsynced, Free
      <3> QED
        BY <2>2, <3>1, <3>2
    <2>4. ASSUME NEW source \in RefId, Clone(source, id) \/ CloneUnsynced(source, id)
          PROVE  UnflushedClaimed'
      <3>1. /\ entries[id] = None /\ Convert(id, entries[source].root)
            /\ life = "up" /\ life' = "up" /\ UNCHANGED unflushed
            /\ entries[source] # None
        BY <2>4 DEF Clone, CloneUnsynced, Clonable, Free
      <3>2. op' # None => op'.step # "drop"
        BY <2>4 DEF Clone, CloneUnsynced, Clonable, Free
      <3>3. entries[source].root \in Root
        BY <3>1, EntryType DEF PinInv
      <3> QED
        BY <2>2, <3>1, <3>2, <3>3
    <2>5. CASE Release(id) \/ ReleaseUnsynced(id)
      <3>1. /\ Releasable(id) /\ entries' = [entries EXCEPT ![id] = Releasing(id)]
            /\ life = "up" /\ life' = "up" /\ UNCHANGED unflushed
            /\ op' # None => op'.step # "drop"
        BY <2>5 DEF Release, ReleaseUnsynced, Releasable, Free
      <3>2. Releasing(id) \in Record /\ Releasing(id).root = entries[id].root
        BY <3>1, EntryType, RecordType DEF Releasable, Releasing, State, PinInv
      <3>3. Releasing(id) # None
        BY <3>2, NoneIsNoRecord
      <3>4. \A i \in RefId : entries[i] # None =>
                entries'[i] # None /\ entries'[i].root = entries[i].root
        BY <3>1, <3>2, <3>3 DEF PinInv, TypeOK
      <3> QED
        BY <1>c, <3>1, <3>4
    <2> QED
      BY <2>0, <2>1, <2>2, <2>3, <2>4, <2>5
  <1>2. CASE OpStep
    <2>0. op # None
      BY <1>2 DEF OpStep, Pin, PinUnflushed, MakeReady, ReadyUnsynced, Unpin, UnpinUnflushed, Drop,
                  DropUnsynced, StepFails, At
    <2>1. CASE Pin \/ Unpin
      BY <1>a, <2>1 DEF Pin, Unpin, EnsurePinned, Flushed
    <2>2. CASE PinUnflushed \/ UnpinUnflushed
      <3>1. unflushed' \subseteq unflushed \cup {Target} /\ Fail
        BY <2>2 DEF PinUnflushed, UnpinUnflushed, Unflushed, PinsAfterRelease
      <3> QED
        BY <1>d, <2>0, <3>1
    <2>3. CASE ReadyUnsynced \/ DropUnsynced \/ StepFails
      BY <1>d, <2>0, <2>3 DEF ReadyUnsynced, DropUnsynced, StepFails, disk
    <2>4. CASE MakeReady
      <3>1. /\ op.id \in RefId /\ entries[op.id] # None /\ life' = life /\ op' = None
            /\ life \in {"recovering", "up"} /\ UNCHANGED unflushed
            /\ entries' = [entries EXCEPT ![op.id] = Ready]
        BY <2>4 DEF MakeReady, At, PinInv, OpClaim, Working
      <3>2. Ready \in Record /\ Ready.root = entries[op.id].root
        BY <3>1, EntryType, RecordType DEF Ready, Target, State, PinInv
      <3>3. Ready # None
        BY <3>2, NoneIsNoRecord
      <3>4. \A i \in RefId : entries[i] # None =>
                entries'[i] # None /\ entries'[i].root = entries[i].root
        BY <3>1, <3>2, <3>3 DEF PinInv, TypeOK
      <3>5. CASE life = "recovering"
        BY <1>a, <3>1, <3>5 DEF LimitInv, UnflushedClaimed
      <3>6. CASE life = "up"
        BY <1>c, <3>1, <3>4, <3>6
      <3> QED
        BY <3>1, <3>5, <3>6
    <2>5. CASE Drop
      BY <1>a, <2>5 DEF Drop, LimitInv, UnflushedClaimed
    <2> QED
      BY <1>2, <2>1, <2>2, <2>3, <2>4, <2>5 DEF OpStep
  <1>3. CASE OpenStep
    <2>1. CASE Load
      BY <1>a, <2>1 DEF Load, Settled, disk
    <2>2. CASE Opened
      BY <1>a, <2>2 DEF Opened, Finished, disk, LimitInv, UnflushedClaimed
    <2>3. ASSUME NEW id \in RefId, Resume(id) PROVE UnflushedClaimed'
      BY <1>a, <2>3 DEF Resume, disk, LimitInv, UnflushedClaimed
    <2>4. ASSUME NEW c \in Root, RemoveOrphan(c) PROVE UnflushedClaimed'
      BY <1>a, <2>4 DEF RemoveOrphan, Flushed
    <2>5. ASSUME NEW c \in Root, OrphanUnflushed(c) PROVE UnflushedClaimed'
      BY <1>b, <2>5 DEF OrphanUnflushed, Finished, Fail, Forget
    <2> QED
      BY <1>3, <2>1, <2>2, <2>3, <2>4, <2>5 DEF OpenStep
  <1>4. CASE Close \/ Crash
    BY <1>4, <1>b DEF Close, Crash, Forget
  <1> QED
    BY <1>1, <1>2, <1>3, <1>4 DEF Next

LEMMA LeftStep ==
  ASSUME Reopens = FALSE, PinInv, DurableInv, QuotaInv, LimitInv, Next
  PROVE  LeftLimited'
  <1> DEFINE P == pinned \cup unflushed
             Q == pinned' \cup unflushed'
  <1>a. ASSUME LeftRoots(recorded') \subseteq LeftRoots(recorded),
               LeftIds(recorded') \subseteq LeftIds(recorded),
               Q \subseteq P \cup LeftRoots(recorded)
        PROVE  LeftLimited'
    <2>1. Limited(P, recorded) /\ LeftRoots(recorded) \subseteq Root
      BY NowLimited
    <2>2. Limited(Q, recorded')
      BY <1>a, <2>1, LimitedShrinks
    <2> QED
      BY <2>2 DEF LeftLimited
  <1>b. ASSUME life' = "up" PROVE LeftLimited'
    BY <1>b DEF LeftLimited
  <1>c. ASSUME \A id \in RefId : recorded'[id] \subseteq recorded[id],
               Q \subseteq P \cup LeftRoots(recorded)
        PROVE  LeftLimited'
    <2>1. LeftRoots(recorded') \subseteq LeftRoots(recorded)
      BY <1>c DEF LeftRoots
    <2>2. LeftIds(recorded') \subseteq LeftIds(recorded)
      BY <1>c DEF LeftIds
    <2> QED
      BY <1>a, <1>c, <2>1, <2>2
  <1>d. ASSUME life' # "up", op # None
        PROVE  /\ op.id \in RefId /\ entries[op.id] # None /\ entries[op.id] \in Record
               /\ recorded[op.id] = {entries[op.id]}
               /\ Target \in LeftRoots(recorded) /\ op.id \in LeftIds(recorded)
    <2>1. op.id \in RefId /\ entries[op.id] # None /\ recorded[op.id] = {entries[op.id]}
      BY <1>d DEF PinInv, OpClaim, DurableInv, OpDurable
    <2> QED
      BY <2>1, EntryType, LeftRootsIn DEF PinInv, Target, LeftIds
  <1>e. ASSUME life' # "up", op # None, NEW v \in Record \cup {None}, v # None => v.root = Target,
               Written(op.id, v) \/ Unsynced(op.id, v), Q \subseteq P
        PROVE  LeftLimited'
    <2>1. TypeOK /\ RecordSeen /\ op.id \in RefId
      BY <1>d, <1>e DEF PinInv, DurableInv
    <2>2. \A id \in RefId : id # op.id => recorded'[id] \subseteq recorded[id]
      BY <1>e, <2>1, WrittenFacts, UnsyncedFacts
    <2>3. recorded'[op.id] \subseteq recorded[op.id] \cup {v}
      BY <1>e, <2>1, WrittenFacts, UnsyncedFacts
    <2>4. LeftIds(recorded') \subseteq LeftIds(recorded)
      BY <1>d, <1>e, <2>2 DEF LeftIds
    <2>5. LeftRoots(recorded') \subseteq LeftRoots(recorded)
      <3>1. ASSUME NEW c \in LeftRoots(recorded') PROVE c \in LeftRoots(recorded)
        <4>1. PICK id \in RefId : \E w \in recorded'[id] : w # None /\ w.root = c
          BY LeftRootsIn
        <4>2. CASE id # op.id
          BY <2>2, <4>1, <4>2, LeftRootsIn
        <4>3. CASE id = op.id
          BY <1>d, <1>e, <2>3, <4>1, <4>3, LeftRootsIn
        <4> QED
          BY <4>2, <4>3
      <3> QED
        BY <3>1
    <2> QED
      BY <1>a, <1>e, <2>4, <2>5
  <1>f. ASSUME Fail PROVE life' # "up" => life = "recovering" \/ life = "down"
    BY <1>f DEF Fail, PinInv, TypeOK
  <1>1. CASE CallStep
    <2>1. life' = "up"
      BY <1>1 DEF CallStep, ReserveImport, ReserveRetain, Reservable, ReleaseReservation, Claim,
                  ClaimUnsynced, Clone, CloneUnsynced, Clonable, Release, ReleaseUnsynced,
                  Releasable, Free
    <2> QED
      BY <1>b, <2>1
  <1>2. CASE OpStep /\ life' # "up"
    <2>0. op # None
      BY <1>2 DEF OpStep, Pin, PinUnflushed, MakeReady, ReadyUnsynced, Unpin, UnpinUnflushed, Drop,
                  DropUnsynced, StepFails, At
    <2>1. CASE Pin \/ PinUnflushed \/ Unpin \/ UnpinUnflushed
      <3>1. Q \subseteq P \cup {Target} /\ recorded' = recorded
        BY <2>1 DEF Pin, PinUnflushed, Unpin, UnpinUnflushed, EnsurePinned, Flushed, Unflushed,
                    PinsAfterRelease
      <3> QED
        BY <1>2, <1>c, <1>d, <2>0, <3>1
    <2>2. CASE MakeReady \/ ReadyUnsynced
      <3>1. Ready \in Record /\ Ready.root = Target
        BY <1>2, <1>d, <2>0, EntryType, RecordType DEF Ready, Target, State, PinInv
      <3>2. Q \subseteq P /\ (Written(op.id, Ready) \/ Unsynced(op.id, Ready))
        BY <2>2 DEF MakeReady, ReadyUnsynced
      <3> QED
        BY <1>2, <1>e, <2>0, <3>1, <3>2
    <2>3. CASE Drop \/ DropUnsynced
      <3>1. Q \subseteq P /\ (Written(op.id, None) \/ Unsynced(op.id, None))
        BY <2>3 DEF Drop, DropUnsynced
      <3> QED
        BY <1>2, <1>e, <2>0, <3>1
    <2>4. CASE StepFails
      BY <1>c, <2>4 DEF StepFails, disk
    <2> QED
      BY <1>2, <2>1, <2>2, <2>3, <2>4 DEF OpStep
  <1>3. CASE OpenStep
    <2>1. CASE Load \/ Opened
      BY <1>c, <2>1 DEF Load, Opened, disk
    <2>2. ASSUME NEW id \in RefId, Resume(id) PROVE LeftLimited'
      BY <1>c, <2>2 DEF Resume, disk
    <2>3. ASSUME NEW c \in Root, RemoveOrphan(c) \/ OrphanUnflushed(c) PROVE LeftLimited'
      <3>1. Q \subseteq P /\ recorded' = recorded
        BY <2>3 DEF RemoveOrphan, OrphanUnflushed, Flushed, Unflushed, Orphans
      <3> QED
        BY <1>c, <3>1
    <2> QED
      BY <1>3, <2>1, <2>2, <2>3 DEF OpenStep
  <1>4. CASE Close
    BY <1>4, <1>c DEF Close, disk
  <1>5. CASE Crash
    <2>1. \A id \in RefId : recorded'[id] \subseteq recorded[id]
      BY <1>5 DEF Crash
    <2>2. Q \subseteq P
      BY <1>5 DEF Crash
    <2> QED
      BY <1>c, <2>1, <2>2
  <1> QED
    BY <1>1, <1>2, <1>3, <1>4, <1>5, <1>b DEF Next

LEMMA LimitInit == ASSUME Init PROVE LimitInv
  <1>1. LeftIds(recorded) = {} /\ LeftRoots(recorded) = {}
    BY DEF Init, LeftIds, LeftRoots
  <1>2. pinned \cup unflushed = {}
    BY DEF Init
  <1>3. LogicalBytes(Keys({})) = 0
    <2>1. Keys({}) = {}
      BY DEF Keys
    <2> QED
      BY <2>1, SumEmpty DEF LogicalBytes
  <1>4. Limited(pinned \cup unflushed, recorded)
    BY <1>1, <1>2, <1>3, FS_EmptySet, AttachmentAssumption DEF Limited
  <1> QED
    BY <1>4 DEF Init, LimitInv, LeftLimited, UnflushedClaimed, At

(* Of a store that is opened over settled writes only: whatever a crash     *)
(* leaves of its records and pins fits the limits, also when recovery pins  *)
(* the claims it finds before it removes the pins that nobody claims.       *)
THEOREM AttachmentLeftLimited == ASSUME Reopens = FALSE PROVE Spec => []LimitInv
  <1>1. Init => LimitInv
    BY LimitInit
  <1>2. PinInv /\ DurableInv /\ QuotaInv /\ LimitInv /\ [Next]_vars => LimitInv'
    <2> SUFFICES ASSUME PinInv, DurableInv, QuotaInv, LimitInv, [Next]_vars PROVE LimitInv'
      OBVIOUS
    <2>1. CASE Next
      BY <2>1, UnflushedStep, LeftStep DEF LimitInv
    <2>2. CASE UNCHANGED vars
      BY <2>2 DEF vars, disk, memory, LimitInv, LeftLimited, UnflushedClaimed, At, Claims
    <2> QED
      BY <2>1, <2>2
  <1> QED
    BY <1>1, <1>2, AttachmentPins, AttachmentDurable, AttachmentQuotaInv, PTL DEF Spec

(* Of the same stores: Open never refuses what the store has written, for   *)
(* any limits (loadAndRecover).                                             *)
THEOREM AttachmentNeverCorrupt == ASSUME Reopens = FALSE PROVE Spec => []NeverCorrupt
  <1>1. ASSUME PinInv, LimitInv, life # "up" PROVE PinsListed
    <2>1. /\ IsFiniteSet(pinned \cup unflushed \cup LeftRoots(recorded))
          /\ Cardinality(pinned \cup unflushed \cup LeftRoots(recorded)) <= MaxReferences
      BY <1>1 DEF LimitInv, LeftLimited, Limited
    <2>2. /\ Cardinality(pinned) <= Cardinality(pinned \cup unflushed \cup LeftRoots(recorded))
          /\ Cardinality(pinned) \in Nat
          /\ Cardinality(pinned \cup unflushed \cup LeftRoots(recorded)) \in Nat
      BY <2>1, FS_Subset, FS_CardinalityType
    <2> QED
      BY <2>1, <2>2, AttachmentAssumption DEF PinsListed
  <1>2. ASSUME PinInv, DurableInv, LimitInv PROVE NeverCorrupt
    <2> SUFFICES ASSUME life = "down", Settled PROVE Acceptable
      BY <1>1, <1>2 DEF NeverCorrupt
    <2>1. \A id \in RefId : recorded[id] = {record[id]}
      BY DEF Settled
    <2>2. Limited(pinned \cup unflushed, recorded) /\ LeftRoots(recorded) \subseteq Root
      BY <1>2, LeftTypes DEF LimitInv, LeftLimited, PinInv
    <2>3. LeftIds(recorded) = Held(record)
      BY <2>1 DEF LeftIds, Held
    <2>4. LeftRoots(recorded) = Roots
      BY <2>1 DEF LeftRoots, Roots, Held
    <2>5. PinsListed
      BY <1>1, <1>2
    <2>6. \A id \in Held(record) : record[id].state = "ready" => record[id].root \in pinned
      BY <1>2, <2>1 DEF DurableInv, ReadyPinned, Held
    <2>7. LogicalBytes({KeyOf(c) : c \in Roots}) <= MaxLogicalBytes
      BY <2>2, <2>4 DEF Limited, Keys
    <2> QED
      BY <2>2, <2>3, <2>5, <2>6, <2>7 DEF Limited, Acceptable
  <1> QED
    BY <1>2, AttachmentPins, AttachmentDurable, AttachmentLeftLimited, PTL

=============================================================================
