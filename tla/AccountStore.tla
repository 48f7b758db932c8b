---------------------------- MODULE AccountStore ----------------------------
(***************************************************************************)
(* The durable store of one account's authorization facts                  *)
(* (src/modern/accountstore/store.go and codec.go), over writes that may   *)
(* fail halfway and a machine that may stop at any point.                  *)
(*                                                                         *)
(* The whole log of facts is one value.  Put makes a value visible, Sync   *)
(* makes it durable; survivors holds the values that a crash may leave     *)
(* behind.  One handle lives at a time (tickets/BBGO-ACC-002.md:38), and   *)
(* its methods exclude each other by mu.                                   *)
(*                                                                         *)
(* Left out: records that do not verify or belong to another controller,   *)
(* and cancelled contexts; Apply returns before it has changed anything.   *)
(***************************************************************************)
EXTENDS AccountAuth, Sequences

CONSTANTS
    None,      \* no value under the key, and no fact in work
    Faults,    \* whether Put and Sync fail
    Reopens    \* whether a handle is opened over a value that is not synced

ASSUME StoreAssumption ==
    /\ None \notin Seq(Fact) \cup Fact
    /\ Faults \in BOOLEAN
    /\ Reopens \in BOOLEAN

VARIABLES
    shown,      \* the value that the datastore shows under the account's key
    survivors,  \* the values that a crash may leave under it
    handle,     \* the Store: see Handle
    accepted,   \* history: facts for which an Apply returned nil
    rejected    \* history: whether an Apply has returned ErrSaturated

Value == Seq(Fact) \cup {None}

(* state and records of an open Store; work is the fact that a call holding *)
(* mu has put and not yet synced.  A disabled Store is closed.              *)
Closed == [stage |-> "closed"]
Handle ==
    {Closed, [stage |-> "creating"]}
    \cup [stage : {"open"}, state : KnownState, records : Seq(Fact),
          work : Fact \cup {None}]

disk == <<shown, survivors>>
history == <<accepted, rejected>>
vars == <<disk, handle, history>>

TypeOK ==
    /\ shown \in Value
    /\ survivors \subseteq Value
    /\ handle \in Handle
    /\ accepted \subseteq Fact
    /\ rejected \in BOOLEAN

Init ==
    /\ shown = None
    /\ survivors = {None}
    /\ handle = Closed
    /\ accepted = {}
    /\ rejected = FALSE

-----------------------------------------------------------------------------
FactsOf(log) == {log[i] : i \in DOMAIN log}

Retained(log) ==
    {log[i] : i \in {j \in DOMAIN log : j <= MaxKnownRecords}}

Targets(kind, facts) == {f.target : f \in {g \in facts : g.kind = kind}}

(* What decodeSnapshot accepts: distinct facts, of which at most one is the *)
(* witness that the limit was passed.                                       *)
Decodes(log) ==
    /\ Len(log) <= MaxKnownRecords + 1
    /\ \A i, j \in DOMAIN log : log[i] = log[j] => i = j

(* The state that it rebuilds.                                              *)
(* Defect: the last fact within the limit is taken for the witness.         *)
DecodedShort(log) ==
    [grants |-> Targets("grant", Retained(log)),
     revokedGrants |-> Targets("revokeGrant", Retained(log)),
     revokedDevices |-> Targets("revokeDevice", Retained(log)),
     recordCount |-> Cardinality(DOMAIN log \cap 1 .. MaxKnownRecords),
     saturated |-> Len(log) >= MaxKnownRecords]

Decoded(log) ==
    [grants |-> Targets("grant", Retained(log)),
     revokedGrants |-> Targets("revokeGrant", Retained(log)),
     revokedDevices |-> Targets("revokeDevice", Retained(log)),
     recordCount |-> IF Len(log) <= MaxKnownRecords THEN Len(log) ELSE MaxKnownRecords,
     saturated |-> Len(log) > MaxKnownRecords]

Opened(log) == [stage |-> "open", state |-> Decoded(log), records |-> log, work |-> None]

Settled == survivors = {shown}

(* Put, and what it may leave behind when the machine stops.                *)
Put(v) ==
    /\ shown' = v
    /\ survivors' = survivors \cup {v}

Idle == handle.stage = "open" /\ handle.work = None

-----------------------------------------------------------------------------
(* Defect: no look for a value under the key.                               *)
CreateOver ==
    /\ handle = Closed
    /\ Put(<<>>)
    /\ handle' = [stage |-> "creating"]
    /\ UNCHANGED history

(* Create refuses a key that has a value.                                   *)
Create ==
    /\ handle = Closed
    /\ shown = None
    /\ Put(<<>>)
    /\ handle' = [stage |-> "creating"]
    /\ UNCHANGED history

Created ==
    /\ handle.stage = "creating"
    /\ survivors' = {shown}
    /\ handle' = Opened(<<>>)
    /\ UNCHANGED <<shown, history>>

CreateFails ==
    /\ Faults
    /\ handle.stage = "creating"
    /\ handle' = Closed
    /\ UNCHANGED <<disk, history>>

(* Open writes nothing.                                                     *)
Open ==
    /\ handle = Closed
    /\ shown # None
    /\ Reopens \/ Settled
    /\ Decodes(shown)
    /\ handle' = Opened(shown)
    /\ UNCHANGED <<disk, history>>

(* Apply of a saturated store, and of a fact that it has already.           *)
ApplyRejected ==
    /\ Idle
    /\ handle.state.saturated
    /\ rejected' = TRUE
    /\ UNCHANGED <<disk, handle, accepted>>

ApplyDuplicate(f) ==
    /\ Idle
    /\ ~handle.state.saturated
    /\ f \in FactsOf(handle.records)
    /\ accepted' = accepted \cup {f}
    /\ UNCHANGED <<disk, handle, rejected>>

Applies(f) ==
    /\ Idle
    /\ ~handle.state.saturated
    /\ f \notin FactsOf(handle.records)

(* A new fact: Put of the longer log ...                                    *)
Apply(f) ==
    /\ Applies(f)
    /\ Put(Append(handle.records, f))
    /\ handle' = [stage |-> "open", state |-> handle.state,
                  records |-> handle.records, work |-> f]
    /\ UNCHANGED history

(* Put fails before or after it has kept the value: the handle is disabled. *)
PutFails(f) ==
    /\ Faults
    /\ Applies(f)
    /\ Put(Append(handle.records, f)) \/ UNCHANGED disk
    /\ handle' = Closed
    /\ UNCHANGED history

SyncFails ==
    /\ Faults
    /\ handle.stage = "open"
    /\ handle.work # None
    /\ handle' = Closed
    /\ UNCHANGED <<disk, history>>

(* Defect: the answer does not wait for Sync.                               *)
SyncedLater ==
    /\ handle.stage = "open"
    /\ handle.work # None
    /\ LET f == handle.work IN
       /\ handle' = [stage |-> "open", state |-> Applied(handle.state, f),
                     records |-> Append(handle.records, f), work |-> None]
       /\ IF Applied(handle.state, f).saturated
          THEN rejected' = TRUE /\ UNCHANGED accepted
          ELSE accepted' = accepted \cup {f} /\ UNCHANGED rejected
    /\ UNCHANGED disk

(* ... Sync, and only then the state in memory and the answer.              *)
Synced ==
    /\ handle.stage = "open"
    /\ handle.work # None
    /\ survivors' = {shown}
    /\ LET f == handle.work IN
       /\ handle' = [stage |-> "open", state |-> Applied(handle.state, f),
                     records |-> Append(handle.records, f), work |-> None]
       /\ IF Applied(handle.state, f).saturated
          THEN rejected' = TRUE /\ UNCHANGED accepted
          ELSE accepted' = accepted \cup {f} /\ UNCHANGED rejected
    /\ UNCHANGED shown

Close ==
    /\ Idle
    /\ handle' = Closed
    /\ UNCHANGED <<disk, history>>

Crash ==
    /\ shown' \in survivors
    /\ survivors' = {shown'}
    /\ handle' = Closed
    /\ UNCHANGED history

Next ==
    \/ Create
    \/ Created
    \/ CreateFails
    \/ Open
    \/ ApplyRejected
    \/ \E f \in Fact : ApplyDuplicate(f) \/ Apply(f) \/ PutFails(f)
    \/ Synced
    \/ SyncFails
    \/ Close
    \/ Crash

Spec == Init /\ [][Next]_vars

-----------------------------------------------------------------------------
(* Properties.                                                              *)

(* No crash takes back what an Apply has answered: an accepted fact is in   *)
(* every value that may survive, and after ErrSaturated every one of them   *)
(* has the witness (Apply, Open).                                           *)
AnswersSurvive ==
    \A v \in survivors :
        /\ accepted # {} => v # None /\ accepted \subseteq FactsOf(v)
        /\ rejected => v # None /\ Len(v) = MaxKnownRecords + 1

(* Authority that any handle shows, now or after a restart, rests on facts  *)
(* that are durable and is not shown against an accepted revocation         *)
(* (AuthorizesKnown, Apply).                                                *)
AuthorityIsBacked ==
    handle.stage = "open" =>
        \A g \in GrantID, device \in Device, required \in SUBSET Capability :
            AuthorizesKnown(handle.state, g, device, required) =>
                /\ \A v \in survivors : [kind |-> "grant", target |-> g] \in FactsOf(v)
                /\ [kind |-> "revokeGrant", target |-> g] \notin accepted
                /\ [kind |-> "revokeDevice", target |-> device] \notin accepted
                /\ ~rejected

(* Whatever may survive a crash can be opened again (decodeSnapshot).       *)
AlwaysDecodes == \A v \in survivors \cup {shown} : v # None => Decodes(v)

(* A restart changes nobody's authority: the state that was built one fact  *)
(* at a time is the one that Open would rebuild (KnownState.Apply,          *)
(* decodeSnapshot).                                                         *)
ReopenAgrees ==
    Idle => shown = handle.records /\ handle.state = Decoded(shown)

(* The facts and the denial that any later restart finds.                   *)
Known ==
    {f \in Fact : \A v \in survivors : v # None /\ f \in Retained(v)}

Denied == \A v \in survivors : v # None /\ Len(v) > MaxKnownRecords

A == INSTANCE Authority WITH known <- Known, denied <- Denied

(* The store implements Authority when it is opened over settled values:    *)
(* through failed writes, restarts and crashes the facts that are sure only *)
(* grow, one at a time, and a denial is final (Create, Open, Apply).        *)
ImplementsAuthority == A!Spec
=============================================================================
