----------------------------- MODULE TaskGraph -----------------------------
(***************************************************************************)
(* The deterministic half of the planner, as operators on a list of tasks: *)
(* TaskBuilder, StepValidator, ContractBuilder, DependencyBuilder and      *)
(* validate_task_graph. A task is [key, requires, produces, paths, specs,  *)
(* steps]: the files it owns, those of them that have a spec, and the      *)
(* steps the model declared for it. Dependencies map the index of a task   *)
(* to the indices it depends on.                                           *)
(*                                                                         *)
(* Names are model values. Two normalisations tell them apart: Fold strips *)
(* and casefolds, Squeeze also collapses the white space inside.           *)
(***************************************************************************)
EXTENDS Integers, Sequences, FiniteSets

CONSTANTS Names, Fold, Squeeze, MaxTasks, MaxSteps

ASSUME NameAssumption ==
  /\ Fold \in [Names -> Names] /\ Squeeze \in [Names -> Names]
  /\ \A m, n \in Names : Fold[m] = Fold[n] => Squeeze[m] = Squeeze[n]
ASSUME CountAssumption == MaxTasks \in Nat \ {0} /\ MaxSteps \in Nat \ {0}

\* A requirement that is the key of another task: it becomes an edge.
Siblings(ts, i, name) == {j \in DOMAIN ts \ {i} : Fold[ts[j].key] = Fold[name]}
KeyEdges(ts)   == [i \in DOMAIN ts |-> UNION {Siblings(ts, i, n) : n \in ts[i].requires}]
Normalized(ts) == [i \in DOMAIN ts |->
                    [ts[i] EXCEPT !.requires = {n \in @ : Siblings(ts, i, n) = {}}]]

\* build_steps(), _create_steps(): what the steps of a task own. A task that owns files has a step
\* for each, named by its file; any other has the steps declared for it, or one for all of it.
Steps(task) ==
  IF task.paths # {} THEN [p \in task.paths |-> {p}]
  ELSE IF task.steps = <<>> THEN <<{}>> ELSE [k \in DOMAIN task.steps |-> task.steps[k].paths]

Squeezed(names) == {Squeeze[n] : n \in names}

\* Every owned file has a spec, and its step requires what the component required: it must find
\* that among the requirements of the task as they are now.
FileStepsHold(raw, task) ==
  task.paths \subseteq task.specs /\ Squeezed(raw.requires) \subseteq Squeezed(task.requires)

\* A declared step requires what its task requires or an earlier step makes.
DeclaredStepsHold(task) ==
  \A k \in DOMAIN task.steps :
    Squeezed(task.steps[k].requires) \subseteq
      Squeezed(task.requires \cup UNION {task.steps[j].produces : j \in 1..k - 1})

StepsHold(raw, ts) ==
  \A i \in DOMAIN ts :
    /\ Cardinality(DOMAIN Steps(ts[i])) <= MaxSteps
    /\ IF ts[i].paths # {} THEN FileStepsHold(raw[i], ts[i]) ELSE DeclaredStepsHold(ts[i])

\* Mutant: what the steps own is stored as it was declared.
ScopesHold_Any(task) == TRUE

\* create_steps(): a step owns files of its task only.
ScopesHold(task) == \A s \in DOMAIN Steps(task) : Steps(task)[s] \subseteq task.paths

KeysDiffer(ts) == \A i, j \in DOMAIN ts : i # j => Fold[ts[i].key] # Fold[ts[j].key]
\* A task, and the resource it makes.
Makers(ts, i, name) == {m \in (DOMAIN ts \ {i}) \X Names :
                          m[2] \in ts[m[1]].produces /\ Squeeze[m[2]] = Squeeze[name]}

\* Exactly one other task makes what a task requires.
ContractsHold(ts) ==
  KeysDiffer(ts) /\ \A i \in DOMAIN ts : \A n \in ts[i].requires : Cardinality(Makers(ts, i, n)) = 1

\* infer_from_contracts()
Inferred(ts) == [i \in DOMAIN ts |-> {m[1] : m \in UNION {Makers(ts, i, n) : n \in ts[i].requires}}]

Merged(deps, edges) == [i \in DOMAIN deps |-> deps[i] \cup edges[i]]

Closure(deps, i) ==
  LET near[n \in 0..Cardinality(DOMAIN deps)] ==
        IF n = 0 THEN deps[i] ELSE near[n - 1] \cup UNION {deps[j] : j \in near[n - 1]}
  IN  near[Cardinality(DOMAIN deps)]

\* Mutant: a task is only not its own dependency.
Acyclic_NoLoop(deps) == \A i \in DOMAIN deps : i \notin deps[i]

Acyclic(deps) == \A i \in DOMAIN deps : i \notin Closure(deps, i)

\* Some maker of what a task requires is among what it waits for.
Supplied(ts, deps) ==
  \A i \in DOMAIN ts : \A n \in ts[i].requires :
    \E j \in Closure(deps, i) : \E p \in ts[j].produces : Fold[p] = Fold[n]

\* validate_task_graph()
GraphHolds(ts, deps) == KeysDiffer(ts) /\ Acyclic(deps) /\ Supplied(ts, deps)

\* Mutant: the owners of a path are not compared.
PathsAreOwned_Shared(ts) == TRUE

\* validate_unique_task_paths()
PathsAreOwned(ts) == \A i, j \in DOMAIN ts : i # j => ts[i].paths \cap ts[j].paths = {}
=============================================================================
