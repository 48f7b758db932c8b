------------------------------ MODULE Courier ------------------------------
(***************************************************************************)
(* What the direct service promises, without peers, streams or retries: an *)
(* item that was taken on is owed until it is done, nothing owed is        *)
(* dropped, and nothing done is undone.  An item may be done without ever  *)
(* being owed: it was delivered while the caller waited.  One step takes   *)
(* or hands over one item, whatever item it is; it is to be found in the   *)
(* state the step reaches.                                                 *)
(***************************************************************************)
VARIABLES
    owed,           \* items queued and not yet recorded by their recipient
    done            \* items recorded by their recipient

Init == owed = {} /\ done = {}

Take(x) ==
    /\ x \notin owed \cup done
    /\ owed' = owed \cup {x}
    /\ UNCHANGED done

Hand(x) ==
    /\ x \notin done
    /\ done' = done \cup {x}
    /\ owed' = owed \ {x}

Next == \E x \in owed' \cup done' : Take(x) \/ Hand(x)

Spec == Init /\ [][Next]_<<owed, done>>
=============================================================================
