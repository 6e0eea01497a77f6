---------------------------- MODULE TaskScheduler ----------------------------
(***************************************************************************)
(* TaskScheduler, the dependency manager and the selector of tasks, as     *)
(* operators on the rows of one plan: deps gives the tasks each task       *)
(* depends on, priority its priority, st the status of every task. A task  *)
(* is named by its SQLite id.                                              *)
(***************************************************************************)
EXTENDS Integers

TaskStatuses == {"PENDING", "READY", "IN_PROGRESS", "VERIFYING", "DONE", "BLOCKED",
                 "FAILED", "SUPERSEDED"}
ActiveStatuses   == {"IN_PROGRESS", "VERIFYING"}
TerminalStatuses == {"DONE", "FAILED", "SUPERSEDED"}
BlockingStatuses == {"FAILED", "BLOCKED", "SUPERSEDED"}

\* _calculate_status: no dependency counts as all of them done.
CalculatedStatus(deps, st, t) ==
  IF \E d \in deps[t] : st[d] \in BlockingStatuses THEN "BLOCKED"
  ELSE IF \A d \in deps[t] : st[d] = "DONE" THEN "READY"
  ELSE "PENDING"

\* refresh(): every new status is computed from the rows read at its start.
Refreshed(deps, st) ==
  [t \in DOMAIN st |->
     IF st[t] \in ActiveStatuses \cup TerminalStatuses THEN st[t]
     ELSE CalculatedStatus(deps, st, t)]

ActiveTasks(st) == {t \in DOMAIN st : st[t] \in ActiveStatuses}

\* select_next(): nothing while a task is active, else the READY tasks of the
\* highest priority; of these the one with the lowest id is taken.
Selectable(priority, st) ==
  IF ActiveTasks(st) # {} THEN {}
  ELSE LET ready == {t \in DOMAIN st : st[t] = "READY"}
           best  == {t \in ready : \A u \in ready : priority[t] >= priority[u]}
       IN  {t \in best : \A u \in best : t <= u}
=============================================================================
