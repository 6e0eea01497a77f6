----------------------------- MODULE MCSession -----------------------------
(* Instances of AgentSession for TLC: processes that differ in their name     *)
(* only; no run of them checks liveness.                                      *)
EXTENDS AgentSession, TLC

Budget(starts, faults, edits, version) ==
  {[starts |-> starts, faults |-> faults, edits |-> edits, version |-> version]}
\* Two starts with everything else, three starts with nothing else.
CoreBudgets  == Budget(2, 1, 0, 3) \cup Budget(2, 0, 1, 3) \cup Budget(3, 0, 0, 0)
PlainBudgets == Budget(2, 0, 0, 3)
ResetBudgets == Budget(1, 1, 0, 3)
StaleBudgets == Budget(2, 0, 0, 5)
PlanBudgets  == Budget(1, 1, 0, 5)

AnyOrder == Permutations(Procs)
=============================================================================
