------------------------------ MODULE MCRunner ------------------------------
(* Instances of Verification for TLC: the calls of one verification and a   *)
(* call of somebody else compete for one slot. Only the other one prints.   *)
EXTENDS Verification
CONSTANTS before, check, after, other, f, image

Printed== [c \in Calls |-> IF c = other THEN 2 ELSE 0]
Ends    == [c \in Calls |-> IF c = other THEN {0, 130} ELSE {0, 1, 137}]
Checked == <<check, check, f>>

\* Bound: the other call is made while nothing changes, so each is seen beside the verification
\* and not beside the other.
MCNext == VerifyNext /\ (At(other, "idle") \/ revision = [t \in Things |-> 1])'
MCSpec == VerifyInit /\ [][MCNext]_verifyVars /\ VerifyFairness
=============================================================================
