---------------------------- MODULE AccountAuth ----------------------------
(***************************************************************************)
(* What one account's authorization facts say (src/modern/accountauth):    *)
(* grants of capabilities to devices, revocations of grants and of         *)
(* devices, in any order, up to a number of facts after which the account  *)
(* is denied for good.                                                     *)
(*                                                                         *)
(* Signatures are left out: a fact is a record that VerifyRecord has       *)
(* accepted for the controller.  A grant's ID is the digest of its device  *)
(* and capabilities, so they are functions of the ID.                      *)
(***************************************************************************)
EXTENDS Naturals, FiniteSets

CONSTANTS
    GrantID,          \* grants
    Device,           \* device keys
    Capability,       \* single capabilities; a mask is a set of them
    DeviceOf,         \* DeviceOf[g]: the device that grant g is for
    CapabilitiesOf,   \* CapabilitiesOf[g]: the mask of grant g
    MaxKnownRecords   \* facts that a state retains

ASSUME AccountAssumption ==
    /\ DeviceOf \in [GrantID -> Device]
    /\ CapabilitiesOf \in [GrantID -> SUBSET Capability]
    /\ MaxKnownRecords \in Nat

(* A fact is its identity: a grant and its revocation are two facts.        *)
Fact == [kind : {"grant", "revokeGrant"}, target : GrantID]
        \cup [kind : {"revokeDevice"}, target : Device]

KnownState == [grants : SUBSET GrantID, revokedGrants : SUBSET GrantID,
               revokedDevices : SUBSET Device, recordCount : Nat,
               saturated : BOOLEAN]

NewKnownState == [grants |-> {}, revokedGrants |-> {}, revokedDevices |-> {},
                  recordCount |-> 0, saturated |-> FALSE]

Contains(s, f) ==
    \/ f.kind = "grant" /\ f.target \in s.grants
    \/ f.kind = "revokeGrant" /\ f.target \in s.revokedGrants
    \/ f.kind = "revokeDevice" /\ f.target \in s.revokedDevices

With(kind, f, S) == IF f.kind = kind THEN S \cup {f.target} ELSE S

(* Defect: a grant that comes after its revocation clears it.               *)
InsertedClearing(s, f) ==
    [grants |-> With("grant", f, s.grants),
     revokedGrants |-> IF f.kind = "grant" THEN s.revokedGrants \ {f.target}
                       ELSE With("revokeGrant", f, s.revokedGrants),
     revokedDevices |-> With("revokeDevice", f, s.revokedDevices),
     recordCount |-> s.recordCount + 1,
     saturated |-> s.saturated]

(* Defect: a revoked device is put among the revoked grants.                *)
InsertedMixed(s, f) ==
    [grants |-> With("grant", f, s.grants),
     revokedGrants |-> With("revokeDevice", f, With("revokeGrant", f, s.revokedGrants)),
     revokedDevices |-> s.revokedDevices,
     recordCount |-> s.recordCount + 1,
     saturated |-> s.saturated]

Inserted(s, f) ==
    [grants |-> With("grant", f, s.grants),
     revokedGrants |-> With("revokeGrant", f, s.revokedGrants),
     revokedDevices |-> With("revokeDevice", f, s.revokedDevices),
     recordCount |-> s.recordCount + 1,
     saturated |-> s.saturated]

Saturated(s) ==
    [grants |-> s.grants, revokedGrants |-> s.revokedGrants,
     revokedDevices |-> s.revokedDevices, recordCount |-> s.recordCount,
     saturated |-> TRUE]

(* The state after Apply; it returns an error exactly when the state is     *)
(* saturated afterwards and the fact is new.                                *)
Applied(s, f) ==
    IF Contains(s, f) \/ s.saturated THEN s
    ELSE IF s.recordCount >= MaxKnownRecords THEN Saturated(s)
    ELSE Inserted(s, f)

AuthorizesKnown(s, g, device, required) ==
    /\ ~s.saturated
    /\ required # {}
    /\ g \in s.grants
    /\ DeviceOf[g] = device
    /\ required \subseteq CapabilitiesOf[g]
    /\ g \notin s.revokedGrants
    /\ device \notin s.revokedDevices
=============================================================================
