------------------------------ MODULE Authority ------------------------------
(***************************************************************************)
(* What an account's storage promises (tickets/BBGO-ACC-002.md): the facts *)
(* that it is sure to know only ever grow, one at a time; the first one    *)
(* beyond the limit denies the account, and nothing ever takes the denial  *)
(* or a fact back: no failed write, no restart, no crash.                  *)
(***************************************************************************)
EXTENDS Naturals, FiniteSets

CONSTANTS Fact, MaxKnownRecords

VARIABLES
    known,     \* the facts that will be found at any later time
    denied     \* the account is denied for good

Init ==
    /\ known = {}
    /\ denied = FALSE

Learn(f) ==
    /\ f \in Fact \ known
    /\ ~denied
    /\ Cardinality(known) < MaxKnownRecords
    /\ known' = known \cup {f}
    /\ UNCHANGED denied

Deny ==
    /\ ~denied
    /\ Cardinality(known) = MaxKnownRecords
    /\ denied' = TRUE
    /\ UNCHANGED known

Next == Deny \/ \E f \in Fact : Learn(f)

Spec == Init /\ [][Next]_<<known, denied>>
=============================================================================
