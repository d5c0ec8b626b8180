---------------------------- MODULE AtomicInstall ----------------------------
(***************************************************************************)
(* What an installer promises: an item is missing or it is whole, it goes   *)
(* from one to the other in one step, and nobody ever finds it torn.        *)
(* ModelFiles is shown to do this.                                          *)
(***************************************************************************)
CONSTANT Items
VARIABLE state

Init == state \in [Items -> {"missing", "whole"}]

Install(i) == state[i] = "missing" /\ state' = [state EXCEPT ![i] = "whole"]
Remove(i) == state[i] = "whole" /\ state' = [state EXCEPT ![i] = "missing"]

Next == \E i \in Items : Install(i) \/ Remove(i)
Spec == Init /\ [][Next]_state
=============================================================================
