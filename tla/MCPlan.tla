------------------------------- MODULE MCPlan -------------------------------
(* Instances of PlanExecution for TLC: a chain, two tasks over one, and two   *)
(* independent tasks of which one needs an environment that is BLOCKED.       *)
EXTENDS PlanExecution

CONSTANTS a, b, c

Row(t, p) == [task |-> t, paths |-> {p}]
Chain == [deps |-> <<{}, {1}>>, priority |-> <<1, 5>>, paths |-> <<<<a, b>>, <<c>>>>,
          steps |-> <<Row(1, a), Row(1, b), Row(2, c)>>, external |-> {}, blocked |-> FALSE]
Apart == [deps |-> <<{}, {}>>, priority |-> <<1, 5>>, paths |-> <<<<a, b>>, <<c>>>>,
          steps |-> <<[task |-> 1, paths |-> {a, b}], Row(2, c)>>, external |-> {1},
          blocked |-> TRUE]
Partial == [deps |-> <<{2}, {}>>, priority |-> <<1, 1>>, paths |-> <<<<a, b>>, <<c>>>>,
            steps |-> <<Row(1, a), Row(2, c)>>, external |-> {1}, blocked |-> FALSE]
PlanDrafts == {Chain, Apart, Partial}
PlanTasks  == {1, 2}
PlanFiles  == {a, b, c}
=============================================================================
