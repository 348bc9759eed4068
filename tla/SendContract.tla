---------------------------- MODULE SendContract ----------------------------
(***************************************************************************)
(* What the reporter relies on when it calls SendMetrics: batches are      *)
(* applied in any order, success means that all of them were, and after a  *)
(* failure those that were not may still be.                               *)
(***************************************************************************)
CONSTANT Batches

VARIABLES
    left,    \* batches the server has not applied
    status   \* "sending", "ok" or "failed"

Init ==
    /\ left = Batches
    /\ status = "sending"

Deliver ==
    /\ \E B \in (SUBSET left) \ {{}} : left' = left \ B
    /\ UNCHANGED status

Succeed ==
    /\ status = "sending"
    /\ left = {}
    /\ status' = "ok"
    /\ UNCHANGED left

Fail ==
    /\ status = "sending"
    /\ status' = "failed"
    /\ UNCHANGED left

Next == Deliver \/ Succeed \/ Fail

Step == [Next]_<<left, status>>

Spec == Init /\ [][Next]_<<left, status>>
=============================================================================
