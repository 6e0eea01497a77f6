--------------------------- MODULE CoderExecutor ---------------------------
(***************************************************************************)
(* CodeExecutor.execute(): the conversation with the model in which it     *)
(* looks at files of the sandbox until it answers with an envelope of file *)
(* changes and tools; the envelope is validated as a whole, written file   *)
(* by file with an undo, and its tools are run (CommandRunner).            *)
(*                                                                         *)
(* A file is a version number: 0 is a file that is not there, and a path   *)
(* below another makes that one a directory. The model may answer          *)
(* anything; the sandbox may refuse a write (its limits, the disk).        *)
(***************************************************************************)
EXTENDS Integers, Sequences, FiniteSets

CONSTANTS
  Paths, Below,      \* Below[p]: the paths of Paths inside the directory p
  Scope,             \* the paths of the step
  MaxIterations,     \* max_tool_iterations
  MaxEnvelopeRetries,
  MaxFilesRead, MaxObserved, \* max_files_read; max_observe_bytes, in observations
  MaxEntries,        \* entries of an envelope, at most
  TornWrites         \* may a write fail after it truncated its file?

ASSUME PathAssumption  == Scope \subseteq Paths /\ Below \in [Paths -> SUBSET Paths]
ASSUME LimitAssumption == {MaxIterations, MaxEnvelopeRetries, MaxFilesRead, MaxObserved, MaxEntries} \subseteq Nat
ASSUME FaultAssumption == TornWrites \in BOOLEAN

VARIABLES
  files,     \* files[p]: its version
  before,    \* what files was when execute() was called
  dirs,      \* directories among Paths
  pc, iteration, mistakes, shown, \* where execute() is; envelope_errors; observations
  observed,  \* paths that were read
  envelope,  \* <<[path, op, big]>> and the number of tools
  done,      \* entries that were written, with what they replaced
  tools,     \* tools that ran, and whether all passed
  result     \* ok, reason, artifacts

memory == <<iteration, mistakes, shown, observed>>
vars   == <<files, before, dirs, pc, memory, envelope, done, tools, result>>

Ops     == {"write", "delete"}
Entries == [path : Paths, op : Ops, big : BOOLEAN]
None    == [ok |-> FALSE, reason |-> "none", artifacts |-> <<>>]
Nothing == [entries |-> <<>>, tools |-> 0]
Torn    == 9     \* what a write that failed may leave
New     == 2     \* what the envelope writes

TypeOK ==
  /\ files \in [Paths -> {0, 1, New, Torn}] /\ before \in [Paths -> {0, 1}] /\ dirs \subseteq Paths
  /\ pc \in {"ask", "write", "undo", "tools", "ended"}
  /\ iteration \in 0..MaxIterations /\ mistakes \in 0..MaxEnvelopeRetries + 1
  /\ shown \in 0..MaxObserved + 1 /\ observed \subseteq Paths
  /\ envelope.entries \in Seq(Entries) /\ envelope.tools \in 0..1
  /\ done \in Seq([path : Paths, was : {0, 1}]) /\ tools \in [ran : 0..1, passed : BOOLEAN]

Init ==
  /\ files \in {f \in [Paths -> {0, 1}] : \A p \in Paths : f[p] # 0 => \A q \in Below[p] : f[q] = 0}
  /\ dirs = {p \in Paths : \E q \in Below[p] : files[q] # 0} /\ before = files
  /\ pc = "ask" /\ iteration = 0 /\ mistakes = 0 /\ shown = 0 /\ observed = {}
  /\ envelope = Nothing /\ done = <<>> /\ tools = [ran |-> 0, passed |-> TRUE] /\ result = None

Exists(p) == files[p] # 0 \/ p \in dirs
Parents(p) == {q \in Paths : p \in Below[q]}

(***************************************************************************)
(* The conversation                                                        *)
(***************************************************************************)
Ends(ok, reason, artifacts) ==
  pc' = "ended" /\ result' = [ok |-> ok, reason |-> reason, artifacts |-> artifacts]
Fails(reason) == Ends(FALSE, reason, <<>>)
Asks  == pc = "ask" /\ iteration < MaxIterations /\ iteration' = iteration + 1
Again == pc' = "ask" /\ UNCHANGED result
Idle  == UNCHANGED <<files, dirs, done, tools>>

\* Cancelled before a question, or the model raises.
Stopped ==
  /\ pc = "ask" /\ iteration < MaxIterations /\ Idle
  /\ (Fails("cancelled") \/ Fails("llm")) /\ UNCHANGED <<memory, envelope>>

\* Mutant: the answer that breaks the limit is shown to the model.
Affordable_OneMore == shown <= MaxObserved

Affordable == shown + 1 <= MaxObserved

\* An observation, of a path when it is `read'. A directory or a missing file cannot be read.
Observe ==
  /\ Asks /\ Idle /\ UNCHANGED <<mistakes, envelope>>
  /\ shown' = shown + 1
  /\ \/ UNCHANGED observed
     \/ \E p \in Paths : /\ files[p] # 0 /\ Cardinality(observed) < MaxFilesRead
                         /\ observed' = observed \cup {p}
  /\ IF Affordable THEN Again ELSE Fails("observation limit")

\* Mutant: an answer that is no envelope is always asked for again.
Patient_Always == TRUE

Patient == mistakes + 1 <= MaxEnvelopeRetries

\* An answer that is not JSON, has no known action, or an edit without files and tools.
Mistake ==
  /\ Asks /\ Idle /\ UNCHANGED <<shown, observed, envelope>> /\ mistakes' = mistakes + 1
  /\ IF Patient THEN Again ELSE Fails("envelope")

OutOfIterations ==
  /\ pc = "ask" /\ iteration = MaxIterations /\ Fails("budget") /\ Idle
  /\ UNCHANGED <<memory, envelope>>

(***************************************************************************)
(* The envelope                                                            *)
(***************************************************************************)
Envelopes == {[entries |-> es, tools |-> n] :
                es \in UNION {[1..k -> Entries] : k \in 0..MaxEntries}, n \in 0..1}

\* Mutant: a file may be changed that was not looked at.
Seen_Unread(e) == TRUE

\* What exists must have been read in this execution.
Seen(e) == e.path \in observed \/ ~Exists(e.path)

\* Mutant: the paths of the step are asked for deletions only.
InScope_Deletions(e) == e.op = "delete" => e.path \in Scope

InScope(e) == e.path \in Scope

\* _validate_envelope()
Valid(envl) ==
  /\ \A k, n \in DOMAIN envl.entries : k # n => envl.entries[k].path # envl.entries[n].path
  /\ \A k \in DOMAIN envl.entries :
       LET e == envl.entries[k]
       IN  /\ InScope(e) /\ Seen(e)
           /\ e.op = "delete" => files[e.path] # 0 /\ ~e.big
           /\ e.op = "write" => ~e.big

Edit ==
  /\ Asks /\ Idle /\ UNCHANGED <<mistakes, shown, observed>>
  /\ \E envl \in Envelopes :
       IF Valid(envl)
       THEN envelope' = envl /\ pc' = "write" /\ UNCHANGED result
       ELSE Fails("rejected") /\ UNCHANGED envelope

Entry == envelope.entries[Len(done) + 1]

\* write_text() and delete() of the workspace.
CanWrite(p) == p \notin dirs /\ \A q \in Parents(p) : files[q] = 0
WriteFile(p, version) == /\ files' = [files EXCEPT ![p] = version]
                         /\ dirs' = dirs \cup Parents(p)
DeleteFile(p)         == files' = [files EXCEPT ![p] = 0] /\ UNCHANGED dirs

\* The file is saved for the undo, then changed.
WriteNext ==
  /\ pc = "write" /\ Len(done) < Len(envelope.entries)
  /\ LET e == Entry
     IN  /\ IF e.op = "write" THEN CanWrite(e.path) /\ WriteFile(e.path, New)
            ELSE files[e.path] # 0 /\ DeleteFile(e.path)
         /\ done' = Append(done, [path |-> e.path, was |-> files[e.path]])
  /\ UNCHANGED <<pc, memory, envelope, tools, result>>

\* The backup cannot be read: the path has become a directory. Nothing is undone.
BackupRaises ==
  /\ pc = "write" /\ Len(done) < Len(envelope.entries) /\ Entry.path \in dirs
  /\ Fails("raised") /\ Idle /\ UNCHANGED <<memory, envelope>>

\* A write or a delete fails; a write that fails may have emptied its file.
WriteFails ==
  /\ pc = "write" /\ Len(done) < Len(envelope.entries) /\ Entry.path \notin dirs
  /\ \/ UNCHANGED <<files, dirs>>
     \/ /\ TornWrites /\ Entry.op = "write" /\ CanWrite(Entry.path)
        /\ WriteFile(Entry.path, Torn)
  /\ pc' = "undo" /\ UNCHANGED <<memory, envelope, done, tools, result>>

\* Mutant: the first change is undone every time.
Latest_First == done[1]

Latest == done[Len(done)]

\* The changes are undone, the latest first; one that cannot be undone is passed over.
Undo ==
  /\ pc = "undo" /\ done # <<>>
  /\ LET d == Latest
     IN  IF d.was # 0
         THEN IF CanWrite(d.path) THEN WriteFile(d.path, d.was) ELSE UNCHANGED <<files, dirs>>
         ELSE IF files[d.path] # 0 THEN DeleteFile(d.path) ELSE UNCHANGED <<files, dirs>>
  /\ done' = SubSeq(done, 1, Len(done) - 1)
  /\ UNCHANGED <<pc, memory, envelope, tools, result>>

Undone ==
  /\ pc = "undo" /\ done = <<>> /\ Fails("file transaction")
  /\ Idle /\ UNCHANGED <<memory, envelope>>

Artifacts == [k \in DOMAIN done |-> done[k].path]
Written   == pc = "write" /\ Len(done) = Len(envelope.entries)

\* A tool runs: it passes, fails, the policy refuses it, or the runner raises.
RunTool ==
  /\ Written /\ tools.ran < envelope.tools
  /\ \/ (Fails("tool refused") \/ Fails("raised")) /\ UNCHANGED tools
     \/ /\ \E passed \in BOOLEAN : tools' = [ran |-> tools.ran + 1, passed |-> passed]
        /\ UNCHANGED <<pc, result>>
  /\ UNCHANGED <<files, dirs, memory, envelope, done>>

\* Mutant: an envelope with nothing in it is a success.
Real_Always == TRUE

\* The real-execution guard.
Real == done # <<>> \/ tools.ran > 0

Report ==
  /\ Written /\ tools.ran = envelope.tools
  /\ IF ~Real THEN Fails("nothing executed")
     ELSE Ends(tools.passed, IF tools.passed THEN "none" ELSE "tools failed", Artifacts)
  /\ Idle /\ UNCHANGED <<memory, envelope>>

Over == pc = "ended" /\ UNCHANGED vars

Step == \/ Stopped \/ Observe \/ Mistake \/ OutOfIterations \/ Edit \/ WriteNext \/ BackupRaises
        \/ WriteFails \/ Undo \/ Undone \/ RunTool \/ Report
Next == (Step /\ UNCHANGED before) \/ Over
Spec == Init /\ [][Next]_vars

(***************************************************************************)
(* Properties                                                              *)
(***************************************************************************)
\* Whatever the model answers, and wherever the execution stops, no file outside the
\* paths of the step has changed (change_scope.py, asserted by _validate_envelope).
OnlyScopeChanges == \A p \in Paths \ Scope : files[p] = before[p]

\* "OBSERVE BEFORE EDIT": a file that was there when the execution began, and is different
\* now, was read by this execution.
ObserveBeforeEdit == \A p \in Paths : before[p] # 0 /\ files[p] # before[p] => p \in observed

\* No file changes that the step does not own, or that was there and was not looked at.
ChangesAreAllowed == OnlyScopeChanges /\ ObserveBeforeEdit

\* A result that is ok is the work of the envelope: every file it names is as the envelope
\* asked, every tool ran and passed, and something was done.
OkMeansDone ==
  result.ok =>
    /\ \A k \in DOMAIN envelope.entries :
         LET e == envelope.entries[k] IN files[e.path] = IF e.op = "write" THEN New ELSE 0
    /\ tools = [ran |-> envelope.tools, passed |-> TRUE]
    /\ result.artifacts # <<>> \/ tools.ran > 0

\* An execution that failed before its tools, and did not raise, left every file as it was, except
\* a file whose place a directory has taken: a deletion of `a' is not undone once `a/b' was written.
FailureLeavesFiles ==
  pc = "ended" /\ ~result.ok /\ result.reason \notin {"tools failed", "tool refused", "raised"}
    => \A p \in Paths \ dirs : files[p] = before[p]

\* The model is asked again only within its budgets: no answer that broke the limit of
\* observations, and no mistake too many, is followed by another question.
BudgetIsKept == TypeOK /\ (pc = "ask" => shown <= MaxObserved /\ mistakes <= MaxEnvelopeRetries)

\* Not what the code does: every file is as it was after a transaction that failed.
TransactionIsUndone == result.reason = "file transaction" => files = before
=============================================================================
