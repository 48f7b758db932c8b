----------------------------- MODULE Attachment -----------------------------
(***************************************************************************)
(* The attachment store of the daemon (src/modern/attachment/store.go and  *)
(* clone.go): retention claims on public files, each a record in the       *)
(* datastore, and the recursive pins that keep the claimed files.          *)
(*                                                                         *)
(* A write is visible at once and durable when the next Sync of the        *)
(* records, or Flush of the pinner, succeeds; a crash keeps or loses each  *)
(* write that is not durable.  recorded[id] holds every value a crash may  *)
(* leave behind, unflushed the roots whose pin may or may not survive.     *)
(*                                                                         *)
(* Files are immutable, so the length of a root is a function of its CID;  *)
(* a caller may declare another one.  The encoding of records, pins that   *)
(* other packages own and the check of the blocks on disk are left out.    *)
(***************************************************************************)
EXTENDS Integers, FiniteSets, Sums

CONSTANTS
    RefId,            \* reference IDs
    Root,             \* CIDs of public files
    Length,           \* Length[c]: the length of the file with CID c
    Declared,         \* lengths that callers declare
    ImportLimit,      \* maxBytes of ImportPublic calls
    MaxReferences,    \* Limits.MaxReferences
    MaxLogicalBytes,  \* Limits.MaxLogicalBytes
    None,             \* no record, reservation or operation
    Faults,           \* whether writes and syncs fail
    Reopens           \* whether a store is opened over unsynced writes

Key == Root \X Nat                     \* rootKey: a CID and a length
KeyOf(c) == <<c, Length[c]>>
State == {"retaining", "ready", "releasing"}
Record == [root : Root, state : State]
Reservation == [key : Key] \cup [bytes : Nat]
Operation == [id : RefId, step : {"pin", "ready", "unpin", "drop"}]

ASSUME AttachmentAssumption ==
    /\ IsFiniteSet(RefId)
    /\ Length \in [Root -> Nat]
    /\ Declared \subseteq Nat
    /\ ImportLimit \subseteq Nat
    /\ MaxReferences \in Nat
    /\ MaxLogicalBytes \in Nat
    /\ None \notin Record \cup Reservation \cup Operation
    /\ Faults \in BOOLEAN
    /\ Reopens \in BOOLEAN

VARIABLES
    life,        \* down, recovering (in Open) or up
    record,      \* record[id]: the record that the datastore shows
    recorded,    \* recorded[id]: the records a crash may leave behind
    pinned,      \* the roots that the pinner shows as pinned
    unflushed,   \* the roots whose pin changed since the last Flush
    entries,     \* entries[id]: the record as the store knows it
    pending,     \* pending[id]: the reservation of a running import or retain
    accounted,   \* the keys that count towards the logical bytes
    op           \* the operation under way under mu

disk == <<record, recorded, pinned, unflushed>>
memory == <<entries, pending, accounted>>
vars == <<life, disk, memory, op>>

TypeOK ==
    /\ life \in {"down", "recovering", "up"}
    /\ record \in [RefId -> Record \cup {None}]
    /\ recorded \in [RefId -> SUBSET (Record \cup {None})]
    /\ pinned \subseteq Root
    /\ unflushed \subseteq Root
    /\ entries \in [RefId -> Record \cup {None}]
    /\ pending \in [RefId -> Reservation \cup {None}]
    /\ accounted \subseteq Key
    /\ op \in Operation \cup {None}

Nothing == [id \in RefId |-> None]

Init ==
    /\ life = "down"
    /\ record = Nothing
    /\ recorded = [id \in RefId |-> {None}]
    /\ pinned = {}
    /\ unflushed = {}
    /\ entries = Nothing
    /\ pending = Nothing
    /\ accounted = {}
    /\ op = None

-----------------------------------------------------------------------------
(* What the store counts.                                                   *)

Held(f) == {id \in RefId : f[id] # None}

Claimants(c) == {id \in Held(entries) : entries[id].root = c}

(* The length is part of a key: one root with a wrong length is a key more. *)
RetainsOf(key) == {id \in Held(pending) : pending[id] = [key |-> key]}

Imports == {id \in Held(pending) : "bytes" \in DOMAIN pending[id]}

SizeOf(key) == key[2]
LogicalBytes(keys) == SumOver([key \in keys |-> SizeOf(key)], keys)

Committed ==
    LogicalBytes(accounted) + SumOver([id \in Imports |-> pending[id].bytes], Imports)

RoomForReference ==
    Cardinality(Held(entries)) + Cardinality(Held(pending)) < MaxReferences

RoomFor(bytes) == Committed + bytes <= MaxLogicalBytes

-----------------------------------------------------------------------------
(* Writes.                                                                  *)

Value(id, v) == [record EXCEPT ![id] = v]

(* Put (or Delete) and Sync: every record is durable.                       *)
Written(id, v) ==
    /\ record' = Value(id, v)
    /\ recorded' = [i \in RefId |-> {record'[i]}]

(* Put (or Delete), then Sync fails.                                        *)
Unsynced(id, v) ==
    /\ record' = Value(id, v)
    /\ recorded' = [recorded EXCEPT ![id] = @ \cup {v}]

Flushed(pins) ==
    /\ pinned' = pins
    /\ unflushed' = {}

Unflushed(pins) ==
    /\ pinned' = pins
    /\ unflushed' = unflushed \cup (pinned \ pins) \cup (pins \ pinned)

(* Defect: a root that is pinned already is not flushed.                    *)
EnsurePinnedLazily(c) ==
    IF c \in pinned THEN UNCHANGED <<pinned, unflushed>> ELSE Flushed(pinned \cup {c})

(* ensureRootPinned                                                         *)
EnsurePinned(c) == Flushed(pinned \cup {c})

-----------------------------------------------------------------------------
(* ImportPublic and RetainPublic: reserve, read or validate the file        *)
(* without mu, then claim.                                                  *)

Free == life = "up" /\ op = None

Reservable(id) ==
    /\ Free
    /\ entries[id] = None
    /\ pending[id] = None
    /\ RoomForReference

ReserveImport(id, maxBytes) ==
    /\ Reservable(id)
    /\ RoomFor(maxBytes)
    /\ pending' = [pending EXCEPT ![id] = [bytes |-> maxBytes]]
    /\ UNCHANGED <<life, disk, entries, accounted, op>>

ReserveRetain(id, key) ==
    /\ Reservable(id)
    /\ key \in accounted \/ RoomFor(SizeOf(key))
    /\ pending' = [pending EXCEPT ![id] = [key |-> key]]
    /\ accounted' = accounted \cup {key}
    /\ UNCHANGED <<life, disk, entries, op>>

(* Defect: the claims on the root are forgotten.                            *)
UnaccountedAlone(id) ==
    IF "key" \in DOMAIN pending[id] /\ RetainsOf(pending[id].key) = {id}
    THEN {pending[id].key} ELSE {}

(* The key that ceases to count with the reservation of id.                 *)
Unaccounted(id) ==
    IF /\ "key" \in DOMAIN pending[id]
       /\ RetainsOf(pending[id].key) = {id}
       /\ \A c \in Root : pending[id].key = KeyOf(c) => Claimants(c) = {}
    THEN {pending[id].key} ELSE {}

(* releaseReservation: the source, the file, the first write or the context *)
(* of the call failed.                                                      *)
ReleaseReservation(id) ==
    /\ Free
    /\ pending[id] # None
    /\ accounted' = accounted \ Unaccounted(id)
    /\ pending' = [pending EXCEPT ![id] = None]
    /\ UNCHANGED <<life, disk, entries, op>>

(* The file that a call may have found under its reservation.               *)
Found(id, c) ==
    IF "key" \in DOMAIN pending[id] THEN pending[id].key = KeyOf(c)
    ELSE Length[c] <= pending[id].bytes

(* convertReservation and the record in memory                              *)
Convert(id, c) ==
    /\ entries' = [entries EXCEPT ![id] = [root |-> c, state |-> "retaining"]]
    /\ pending' = [pending EXCEPT ![id] = None]
    /\ accounted' = accounted \cup {KeyOf(c)}

(* finishRetain up to the first write; mu is kept.                          *)
Claim(id, c) ==
    /\ Free
    /\ pending[id] # None
    /\ Found(id, c)
    /\ Written(id, [root |-> c, state |-> "retaining"])
    /\ Convert(id, c)
    /\ op' = [id |-> id, step |-> "pin"]
    /\ UNCHANGED <<life, pinned, unflushed>>

(* The first write is not synced: the call fails, the claim stays.          *)
ClaimUnsynced(id, c) ==
    /\ Faults
    /\ Free
    /\ pending[id] # None
    /\ Found(id, c)
    /\ Unsynced(id, [root |-> c, state |-> "retaining"])
    /\ Convert(id, c)
    /\ UNCHANGED <<life, pinned, unflushed, op>>

(* ClonePublic: a second claim on the root of a ready one, under one lock.  *)
Clonable(source, target) ==
    /\ Free
    /\ source # target
    /\ entries[source] # None
    /\ entries[source].state = "ready"
    /\ entries[target] = None
    /\ pending[target] = None
    /\ RoomForReference

Clone(source, target) ==
    /\ Clonable(source, target)
    /\ Written(target, [root |-> entries[source].root, state |-> "retaining"])
    /\ Convert(target, entries[source].root)
    /\ op' = [id |-> target, step |-> "pin"]
    /\ UNCHANGED <<life, pinned, unflushed>>

CloneUnsynced(source, target) ==
    /\ Faults
    /\ Clonable(source, target)
    /\ Unsynced(target, [root |-> entries[source].root, state |-> "retaining"])
    /\ Convert(target, entries[source].root)
    /\ UNCHANGED <<life, pinned, unflushed, op>>

-----------------------------------------------------------------------------
(* The steps of an operation that holds mu, in a call or in recovery.       *)

At(step) == op # None /\ op.step = step
Target == entries[op.id].root

Goto(step) == op' = [op EXCEPT !.step = step]

Forget ==
    /\ entries' = Nothing
    /\ pending' = Nothing
    /\ accounted' = {}
    /\ op' = None

(* An error ends a call, or Open with it.                                   *)
Fail ==
    IF life = "recovering" THEN life' = "down" /\ Forget
    ELSE op' = None /\ UNCHANGED <<life, memory>>

Pin ==
    /\ At("pin")
    /\ EnsurePinned(Target)
    /\ Goto("ready")
    /\ UNCHANGED <<life, record, recorded, memory>>

PinUnflushed ==
    /\ Faults
    /\ At("pin")
    /\ Unflushed(pinned \cup {Target})
    /\ Fail
    /\ UNCHANGED <<record, recorded>>

(* Defect: a state that decodeRecord refuses.                               *)
ReadyMislabelled == [root |-> Target, state |-> "retained"]

Ready == [root |-> Target, state |-> "ready"]

MakeReady ==
    /\ At("ready")
    /\ Written(op.id, Ready)
    /\ entries' = [entries EXCEPT ![op.id] = Ready]
    /\ op' = None
    /\ UNCHANGED <<life, pinned, unflushed, pending, accounted>>

(* Defect: the claim is shown although its record is not durable.           *)
ReadyShown ==
    /\ Faults
    /\ At("ready")
    /\ Unsynced(op.id, Ready)
    /\ entries' = [entries EXCEPT ![op.id] = Ready]
    /\ op' = None
    /\ UNCHANGED <<life, pinned, unflushed, pending, accounted>>

ReadyUnsynced ==
    /\ Faults
    /\ At("ready")
    /\ Unsynced(op.id, Ready)
    /\ Fail
    /\ UNCHANGED <<pinned, unflushed>>

(* Release: a claim that is ready, or whose release has failed before.      *)
Releasable(id) ==
    /\ Free
    /\ pending[id] = None
    /\ entries[id] # None
    /\ entries[id].state \in {"ready", "releasing"}

Releasing(id) == [root |-> entries[id].root, state |-> "releasing"]

(* Defect: a second attempt at a release does not write the record again.   *)
ReleaseAgain(id) ==
    /\ Releasable(id)
    /\ IF entries[id].state = "ready" THEN Written(id, Releasing(id))
       ELSE UNCHANGED <<record, recorded>>
    /\ entries' = [entries EXCEPT ![id] = Releasing(id)]
    /\ op' = [id |-> id, step |-> "unpin"]
    /\ UNCHANGED <<life, pinned, unflushed, pending, accounted>>

Release(id) ==
    /\ Releasable(id)
    /\ Written(id, Releasing(id))
    /\ entries' = [entries EXCEPT ![id] = Releasing(id)]
    /\ op' = [id |-> id, step |-> "unpin"]
    /\ UNCHANGED <<life, pinned, unflushed, pending, accounted>>

ReleaseUnsynced(id) ==
    /\ Faults
    /\ Releasable(id)
    /\ Unsynced(id, Releasing(id))
    /\ entries' = [entries EXCEPT ![id] = Releasing(id)]
    /\ UNCHANGED <<life, pinned, unflushed, pending, accounted, op>>

(* Defect: the root is unpinned whoever else claims it.                     *)
PinsAlone == pinned \ {Target}

(* The last claim on a root takes its pin away.                             *)
PinsAfterRelease ==
    IF Claimants(Target) # {op.id} THEN pinned \cup {Target} ELSE pinned \ {Target}

Unpin ==
    /\ At("unpin")
    /\ Flushed(PinsAfterRelease)
    /\ Goto("drop")
    /\ UNCHANGED <<life, record, recorded, memory>>

UnpinUnflushed ==
    /\ Faults
    /\ At("unpin")
    /\ Unflushed(PinsAfterRelease)
    /\ Fail
    /\ UNCHANGED <<record, recorded>>

(* deleteRecord and removeEntry                                             *)
Drop ==
    /\ At("drop")
    /\ Written(op.id, None)
    /\ entries' = [entries EXCEPT ![op.id] = None]
    /\ accounted' = IF Claimants(Target) = {op.id} /\ RetainsOf(KeyOf(Target)) = {}
                    THEN accounted \ {KeyOf(Target)} ELSE accounted
    /\ op' = None
    /\ UNCHANGED <<life, pinned, unflushed, pending>>

DropUnsynced ==
    /\ Faults
    /\ At("drop")
    /\ Unsynced(op.id, None)
    /\ Fail
    /\ UNCHANGED <<pinned, unflushed>>

(* A write fails before it has changed anything.                            *)
StepFails ==
    /\ Faults
    /\ op # None
    /\ Fail
    /\ UNCHANGED disk

-----------------------------------------------------------------------------
(* Open: loadAndRecover.                                                    *)

Settled == unflushed = {} /\ \A id \in RefId : recorded[id] = {record[id]}

Roots == {record[id].root : id \in Held(record)}

(* recursivePins refuses to list more pins than there may be references.    *)
PinsListed == Cardinality(pinned) <= MaxReferences

Acceptable ==
    /\ Cardinality(Held(record)) <= MaxReferences
    /\ LogicalBytes({KeyOf(c) : c \in Roots}) <= MaxLogicalBytes
    /\ PinsListed
    /\ \A id \in Held(record) : record[id].state = "ready" => record[id].root \in pinned

(* Open returns ErrCorruptState, and nothing changes, for what is not       *)
(* Acceptable.                                                              *)
Load ==
    /\ life = "down"
    /\ Reopens \/ Settled
    /\ Acceptable
    /\ life' = "recovering"
    /\ entries' = record
    /\ accounted' = {KeyOf(c) : c \in Roots}
    /\ UNCHANGED <<disk, pending, op>>

(* One claim left retaining or releasing is finished, in any order.         *)
Resume(id) ==
    /\ life = "recovering"
    /\ op = None
    /\ entries[id] # None
    /\ \/ entries[id].state = "retaining" /\ op' = [id |-> id, step |-> "pin"]
       \/ entries[id].state = "releasing" /\ op' = [id |-> id, step |-> "unpin"]
    /\ UNCHANGED <<life, disk, memory>>

Finished ==
    /\ life = "recovering"
    /\ op = None
    /\ \A id \in Held(entries) : entries[id].state = "ready"
    /\ PinsListed

Orphans == {c \in pinned : Claimants(c) = {}}

RemoveOrphan(c) ==
    /\ Finished
    /\ c \in Orphans
    /\ Flushed(pinned \ {c})
    /\ UNCHANGED <<life, record, recorded, memory, op>>

OrphanUnflushed(c) ==
    /\ Faults
    /\ Finished
    /\ c \in Orphans
    /\ Unflushed(pinned \ {c})
    /\ Fail
    /\ UNCHANGED <<record, recorded>>

Opened ==
    /\ Finished
    /\ Orphans = {}
    /\ life' = "up"
    /\ UNCHANGED <<disk, memory, op>>

(* Close waits for the calls that were admitted.                            *)
Close ==
    /\ Free
    /\ pending = Nothing
    /\ life' = "down"
    /\ Forget
    /\ UNCHANGED disk

(* The machine stops: of the writes that were not durable, any may be lost. *)
Crash ==
    /\ record' \in {r \in [RefId -> UNION {recorded[id] : id \in RefId}] :
                        \A id \in RefId : r[id] \in recorded[id]}
    /\ recorded' = [id \in RefId |-> {record'[id]}]
    /\ \E kept \in SUBSET unflushed : pinned' = (pinned \ unflushed) \cup kept
    /\ unflushed' = {}
    /\ life' = "down"
    /\ Forget

CallStep ==
    \E id \in RefId :
        \/ \E maxBytes \in ImportLimit : ReserveImport(id, maxBytes)
        \/ \E c \in Root, length \in Declared : ReserveRetain(id, <<c, length>>)
        \/ ReleaseReservation(id)
        \/ \E c \in Root : Claim(id, c) \/ ClaimUnsynced(id, c)
        \/ \E source \in RefId : Clone(source, id) \/ CloneUnsynced(source, id)
        \/ Release(id)
        \/ ReleaseUnsynced(id)

OpStep ==
    \/ Pin
    \/ PinUnflushed
    \/ MakeReady
    \/ ReadyUnsynced
    \/ Unpin
    \/ UnpinUnflushed
    \/ Drop
    \/ DropUnsynced
    \/ StepFails

OpenStep ==
    \/ Load
    \/ \E id \in RefId : Resume(id)
    \/ \E c \in Root : RemoveOrphan(c) \/ OrphanUnflushed(c)
    \/ Opened

Next == CallStep \/ OpStep \/ OpenStep \/ Close \/ Crash

Spec == Init /\ [][Next]_vars

-----------------------------------------------------------------------------
(* Properties.                                                              *)

(* Whatever writes a crash loses, a claim that is found ready afterwards    *)
(* finds its file pinned (finishRetain writes ready after the pin is        *)
(* flushed, Release writes releasing before it unpins).                     *)
ReadyPinned ==
    \A id \in RefId : \A v \in recorded[id] :
        v # None /\ v.state = "ready" => v.root \in pinned \ unflushed

(* Open never refuses what the store itself has written: not for a ready    *)
(* claim without a pin, not for more claims, pins or bytes than the limits  *)
(* allow, and not for the pins that recovery itself has added               *)
(* (loadAndRecover, recursivePins, reserve).                                *)
NeverCorrupt ==
    /\ life = "down" /\ (Reopens \/ Settled) => Acceptable
    /\ life = "recovering" => PinsListed

(* What a call has reported survives a crash: a claim shown as ready is     *)
(* recorded as ready, and one that was released, or never claimed, cannot   *)
(* come back (finishRetain, Release, GetPublic).                            *)
ReportsAreDurable ==
    life = "up" =>
        \A id \in RefId :
            /\ entries[id] = None => recorded[id] = {None}
            /\ entries[id] # None /\ entries[id].state = "ready" =>
                  recorded[id] = {entries[id]}

(* Between operations the pins are those of the claims, whatever failed     *)
(* before: no ready claim lacks one and no pin outlives the last claim      *)
(* (Release, loadAndRecover).                                               *)
PinsAreClaimed ==
    Free =>
        /\ Orphans = {}
        /\ \A id \in Held(entries) : entries[id].state = "ready" => entries[id].root \in pinned

(* The keys that count towards the quota are exactly those of claims and of *)
(* running retains, through failures and concurrent calls on one root       *)
(* (reserve, releaseReservation, convertReservation, removeEntry).          *)
AccountedExactly ==
    life = "up" =>
        accounted = {KeyOf(entries[id].root) : id \in Held(entries)}
                    \cup {pending[id].key : id \in Held(pending) \ Imports}

(* Claims and running calls together stay within both limits.               *)
WithinLimits ==
    life = "up" =>
        /\ Cardinality(Held(entries)) + Cardinality(Held(pending)) <= MaxReferences
        /\ Committed <= MaxLogicalBytes

(* The quota is kept, by what it is charged for.                            *)
QuotaExact == AccountedExactly /\ WithinLimits
=============================================================================
