------------------------ MODULE AgentSessionProofs ------------------------
(***************************************************************************)
(* For any number of processes, runs, faults and edits: the rows of        *)
(* sessions say what is so, move legally, and only verified work reaches   *)
(* the project. The heart of it is that a process that is in a run still   *)
(* owns its row, however stale everybody else is; what is in a sandbox     *)
(* follows from that, as long as none is reset under an open attempt.      *)
(***************************************************************************)
EXTENDS AgentSession, SequenceTheorems, TLAPS

(***************************************************************************)
(* The inductive invariant                                                 *)
(***************************************************************************)
RunIds   == {0} \cup DOMAIN runs
Versions == Nat \cup {Gone}
Trees    == [base : Versions, work : {Gone} \cup RunIds, new : Versions]

RowRecords == [box : DOMAIN boxes, status : SessionStatuses, version : Nat,
               run : RunIds, manifest : RunIds]
RunRecords == [status : RunStatuses, box : DOMAIN boxes, base : Versions,
               plan : {"none", "ACTIVE", "DONE", "FAILED"}]
BoxRecords == [base : Versions, work : {Gone} \cup RunIds, open : RunIds,
               saved : {Gone} \cup RunIds]
Places  == {"off", "recover", "idle", "start", "loop", "finish", "apply", "reset", "save"}
Answers == {"none", "idle", "verified", "attention", "failed", "applied", "discarded", "error"}
ProcRecords == [pc : Places, todo : SUBSET DOMAIN runs, box : {0} \cup DOMAIN boxes,
                row : {0} \cup DOMAIN rows, status : SessionStatuses, version : Nat,
                manifest : RunIds, run : RunIds, attempt : BOOLEAN, last : RunIds,
                final : RunIds, outcome : {"none", "DONE", "FAILED", "INTERRUPTED"},
                auto : BOOLEAN, stage : Nat, kept : Trees,
                why : {"none", "startup", "apply", "discard"}, left : Seq(SessionStatuses),
                told : Answers]

\* The shape of every variable; TypeOK follows.
ShapeOK ==
  /\ rows \in Seq(RowRecords) /\ runs \in Seq(RunRecords) /\ boxes \in Seq(BoxRecords)
  /\ proc \in [Procs -> ProcRecords]
  /\ source \in Nat /\ published \in Seq(DOMAIN runs) /\ trampled \in BOOLEAN
  /\ budget \in [starts : Nat, faults : Nat, edits : Nat, version : Nat]

\* Every session has a sandbox of its own; a run belongs to the sandbox of its session, and
\* so does the manifest of a session.
RowsOK ==
  /\ DOMAIN boxes = DOMAIN rows
  /\ \A i \in DOMAIN rows :
       /\ rows[i].box = i
       /\ rows[i].status = "RUNNING" <=> rows[i].run # 0
       /\ rows[i].run # 0      => runs[rows[i].run].box = i
       /\ rows[i].manifest # 0 => runs[rows[i].manifest].box = i
  /\ \A r \in DOMAIN runs : runs[r].status = "RUNNING" => rows[runs[r].box].run = r

\* What was published is DONE, and is not offered again.
PublishedOK ==
  \A k \in DOMAIN published :
    /\ runs[published[k]].status = "DONE"
    /\ \A i \in DOMAIN rows : rows[i].status = "DIRTY_VERIFIED" => rows[i].manifest # published[k]

Attached(p) == proc[p].pc \notin {"off", "recover"}

\* What a process remembers of its row is old, or so.
MemoryOK(p) ==
  Attached(p) =>
    /\ proc[p].row \in DOMAIN rows /\ proc[p].box = proc[p].row
    /\ proc[p].version <= Row(p).version
    /\ Owns(p) => proc[p].status = Row(p).status /\ proc[p].manifest = Row(p).manifest

\* A process in a run owns its row, which names that run, and is alone in it.
RunsNow(p) == proc[p].pc \in {"start", "loop", "finish"}
WorkOK(p) ==
  RunsNow(p) => /\ Owns(p) /\ Row(p).status = "RUNNING" /\ Row(p).run = proc[p].run
                /\ proc[p].pc = "finish" => proc[p].outcome # "none"
Sole == \A p, q \in Procs : RunsNow(p) /\ RunsNow(q) /\ proc[p].row = proc[q].row => p = q

\* The statuses a reset leaves to be written follow legally from the one that is remembered.
Leavings == {<<"APPLIED", <<"CLEAN">>>>, <<"APPLIED", <<"CLEAN", "DISCARDED", "CLEAN">>>>,
             <<"DISCARDED", <<"CLEAN">>>>}
            \cup ({"CLEAN", "DIRTY_VERIFIED", "DIRTY_FAILED"} \X {<<"DISCARDED", "CLEAN">>})
LeftOK(p) ==
  proc[p].pc \in {"reset", "save"} =>
    /\ <<proc[p].status, proc[p].left>> \in Leavings
    /\ proc[p].pc = "reset" => proc[p].stage \in 1..6
    /\ proc[p].why \in {"startup", "apply", "discard"}
    /\ proc[p].why # "discard" => proc[p].left = <<"CLEAN">>
    /\ proc[p].why = "apply" => \E k \in DOMAIN published : published[k] = proc[p].manifest

\* Unless a sandbox was reset under it, an open attempt is one of the run its session is in,
\* and can be rolled back.
AttemptOK ==
  ~trampled => \A b \in DOMAIN boxes : boxes[b].open # 0 =>
    rows[b].run = boxes[b].open /\ Restorable(b)

\* A process that has opened no attempt works in a sandbox without one.
Between(p)   == proc[p].pc \in {"start", "finish"} \/ (proc[p].pc = "loop" /\ ~proc[p].attempt)
BetweenOK(p) == ~trampled /\ Between(p) => Box(p).open = 0

ProcOK(p) == MemoryOK(p) /\ WorkOK(p) /\ LeftOK(p) /\ BetweenOK(p)

IndInv == /\ ShapeOK /\ RowsOK /\ VerifiedIsBound /\ PublishedOK /\ AttemptOK /\ Sole
          /\ \A p \in Procs : ProcOK(p)

\* Where no copy of the project fails: a process that has reset a sandbox and still owns
\* its row finds it as the reset left it.
HasReset(p) == proc[p].pc = "save" \/ (proc[p].pc = "reset" /\ proc[p].stage = 6)
FilesOK(p) ==
  /\ proc[p].pc = "reset" /\ proc[p].stage \in {2, 3} => proc[p].kept.work = Gone
  /\ ~trampled /\ HasReset(p) /\ Owns(p) => Box(p).work \in {0, Gone}
FilesInv == IndInv /\ CleanIsBaseline /\ \A p \in Procs : FilesOK(p)

(***************************************************************************)
(* Sequences                                                               *)
(***************************************************************************)
\* One element of a sequence is replaced.
LEMMA SeqPut ==
  ASSUME NEW S, NEW s \in Seq(S), NEW i \in DOMAIN s, NEW e \in S
  PROVE  [s EXCEPT ![i] = e] \in Seq(S) /\ DOMAIN [s EXCEPT ![i] = e] = DOMAIN s
BY ExceptSeq, LenProperties

\* One element is appended.
LEMMA SeqGrow ==
  ASSUME NEW S, NEW s \in Seq(S), NEW e \in S
  PROVE  /\ Append(s, e) \in Seq(S) /\ DOMAIN Append(s, e) = DOMAIN s \cup {Len(s) + 1}
         /\ \A i \in DOMAIN s : Append(s, e)[i] = s[i]
         /\ Append(s, e)[Len(s) + 1] = e /\ Len(s) + 1 \notin DOMAIN s
BY AppendProperties, LenProperties

(***************************************************************************)
(* Types                                                                   *)
(***************************************************************************)
BudgetRecords == [starts : Nat, faults : Nat, edits : Nat, version : Nat]

\* The types depend on how many rows there are of each kind, and grow with them.
LEMMA TypesGrow ==
  ASSUME DOMAIN runs \subseteq DOMAIN runs', DOMAIN rows \subseteq DOMAIN rows',
         DOMAIN boxes \subseteq DOMAIN boxes'
  PROVE  /\ RowRecords \subseteq RowRecords' /\ RunRecords \subseteq RunRecords'
         /\ BoxRecords \subseteq BoxRecords' /\ ProcRecords \subseteq ProcRecords'
<1>1. RunIds \subseteq RunIds' /\ Trees \subseteq Trees'
  BY DEF RunIds, Trees, Versions
<1>2. RowRecords \subseteq RowRecords' /\ RunRecords \subseteq RunRecords' /\ BoxRecords \subseteq BoxRecords'
  BY <1>1 DEF RowRecords, RunRecords, BoxRecords, Versions
<1>3. ProcRecords \subseteq ProcRecords'
  BY <1>1 DEF ProcRecords
<1> QED BY <1>2, <1>3

\* Where no row is added the types stay what they are.
LEMMA TypesStay ==
  ASSUME DOMAIN runs' = DOMAIN runs, DOMAIN rows' = DOMAIN rows, DOMAIN boxes' = DOMAIN boxes
  PROVE  /\ RowRecords' = RowRecords /\ RunRecords' = RunRecords
         /\ BoxRecords' = BoxRecords /\ ProcRecords' = ProcRecords /\ RunIds' = RunIds
<1>1. RunIds' = RunIds /\ Trees' = Trees
  BY DEF RunIds, Trees, Versions
<1> QED BY <1>1 DEF RowRecords, RunRecords, BoxRecords, ProcRecords, Versions

\* What is in the records of the state.
LEMMA Shapes ==
  ASSUME ShapeOK
  PROVE  /\ \A i \in DOMAIN rows : rows[i] \in RowRecords
         /\ \A r \in DOMAIN runs : runs[r] \in RunRecords /\ r \in Nat /\ r # 0
         /\ \A b \in DOMAIN boxes : boxes[b] \in BoxRecords /\ b \in Nat /\ b # 0
         /\ \A p \in Procs : proc[p] \in ProcRecords
         /\ \A k \in DOMAIN published : published[k] \in DOMAIN runs
<1>1. rows \in Seq(RowRecords) /\ runs \in Seq(RunRecords) /\ boxes \in Seq(BoxRecords)
      /\ proc \in [Procs -> ProcRecords] /\ published \in Seq(DOMAIN runs)
  BY DEF ShapeOK
<1>2. \A i \in DOMAIN rows : rows[i] \in RowRecords
  BY <1>1, ElementOfSeq, LenProperties
<1>3. \A r \in DOMAIN runs : runs[r] \in RunRecords /\ r \in Nat /\ r # 0
  BY <1>1, ElementOfSeq, LenProperties
<1>4. \A b \in DOMAIN boxes : boxes[b] \in BoxRecords /\ b \in Nat /\ b # 0
  BY <1>1, ElementOfSeq, LenProperties
<1>5. \A k \in DOMAIN published : published[k] \in DOMAIN runs
  BY <1>1, ElementOfSeq, LenProperties
<1> QED BY <1>1, <1>2, <1>3, <1>4, <1>5

\* A step that changes one process leaves the others alone.
LEMMA GotoShape ==
  ASSUME NEW S, proc \in [Procs -> S], NEW p \in Procs, NEW new \in S, Goto(p, new)
  PROVE  /\ proc' \in [Procs -> S] /\ proc'[p] = new
         /\ \A q \in Procs : q # p => proc'[q] = proc[q]
BY DEF Goto

LEMMA Changed ==
  ASSUME ShapeOK, NEW p \in Procs, NEW new \in ProcRecords, Goto(p, new)
  PROVE  /\ proc' \in [Procs -> ProcRecords] /\ proc'[p] = new
         /\ \A q \in Procs \ {p} : proc'[q] = proc[q]
<1>1. proc \in [Procs -> ProcRecords]
  BY DEF ShapeOK
<1> QED BY <1>1, GotoShape

\* What is spent of a budget.
LEMMA SpendShape ==
  ASSUME budget \in BudgetRecords, NEW what \in {"starts", "faults", "edits"}, Spend(what)
  PROVE  budget' \in BudgetRecords
BY DEF Spend, BudgetRecords

(***************************************************************************)
(* Processes that do not step                                              *)
(***************************************************************************)
\* A row is only written with a new version, and never under a process in a run of it; an
\* attempt is not opened in its sandbox; nothing that was published is taken back.
RowsMove(p) ==
  /\ DOMAIN rows \subseteq DOMAIN rows'
  /\ \A i \in DOMAIN rows : rows'[i] # rows[i] => rows'[i].version > rows[i].version
  /\ \A q \in Procs \ {p} : RunsNow(q) => rows'[proc[q].row] = rows[proc[q].row]
BoxesMove(p) ==
  /\ \A b \in DOMAIN boxes : b \in DOMAIN boxes'
  /\ \A q \in Procs \ {p} : Between(q) => \/ boxes'[proc[q].box].open = 0
                                          \/ boxes'[proc[q].box].open = boxes[proc[q].box].open
  /\ trampled => trampled'
PublishedMoves ==
  /\ DOMAIN published \subseteq DOMAIN published'
  /\ \A k \in DOMAIN published : published'[k] = published[k]

\* They remember what they remembered, and what they could rely on stays so.
LEMMA OthersOK ==
  ASSUME IndInv, ShapeOK', NEW p, \A q \in Procs \ {p} : proc'[q] = proc[q],
         RowsMove(p), BoxesMove(p), PublishedMoves
  PROVE  \A q \in Procs \ {p} : ProcOK(q)'
<1> SUFFICES ASSUME NEW q \in Procs \ {p}
             PROVE  ProcOK(q)'
  OBVIOUS
<1>1. ProcOK(q) /\ proc'[q] = proc[q]
  BY DEF IndInv
<1>2. MemoryOK(q)'
  <2> SUFFICES ASSUME Attached(q)
               PROVE  /\ proc[q].row \in DOMAIN rows' /\ proc[q].box = proc[q].row
                      /\ proc[q].version <= rows'[proc[q].row].version
                      /\ rows'[proc[q].row].version = proc[q].version =>
                           /\ proc[q].status = rows'[proc[q].row].status
                           /\ proc[q].manifest = rows'[proc[q].row].manifest
    BY <1>1 DEF MemoryOK, Attached, Row, Owns
  <2>1. /\ proc[q].row \in DOMAIN rows /\ proc[q].box = proc[q].row
        /\ proc[q].version <= rows[proc[q].row].version
        /\ rows[proc[q].row].version = proc[q].version =>
             /\ proc[q].status = rows[proc[q].row].status
             /\ proc[q].manifest = rows[proc[q].row].manifest
    BY <1>1 DEF ProcOK, MemoryOK, Row, Owns
  <2>2. proc[q] \in ProcRecords /\ rows[proc[q].row] \in RowRecords
        /\ rows'[proc[q].row] \in RowRecords'
    BY <2>1, Shapes, ShapeOK', SMT DEF IndInv, ShapeOK, RowsMove
  <2>3. /\ proc[q].version \in Nat /\ rows[proc[q].row].version \in Nat
        /\ rows'[proc[q].row].version \in Nat
    BY <2>2 DEF ProcRecords, RowRecords
  <2> QED BY <2>1, <2>3 DEF RowsMove
<1>3. WorkOK(q)'
  BY <1>1 DEF ProcOK, WorkOK, RunsNow, RowsMove, Row, Owns
<1>4. LeftOK(q)'
  BY <1>1 DEF ProcOK, LeftOK, PublishedMoves, Leavings
<1>5. BetweenOK(q)'
  BY <1>1 DEF ProcOK, BetweenOK, Between, BoxesMove, Box
<1> QED BY <1>2, <1>3, <1>4, <1>5 DEF ProcOK

\* Nobody else begins to run where a process is in a run.
LEMMA SoleStays ==
  ASSUME Sole, NEW p, \A q \in Procs \ {p} : proc'[q] = proc[q],
         RunsNow(p)' => \/ RunsNow(p) /\ proc'[p].row = proc[p].row
                        \/ \A q \in Procs \ {p} : RunsNow(q) => proc[q].row # proc'[p].row
  PROVE  Sole'
BY DEF Sole, RunsNow

(***************************************************************************)
(* Steps that change what one process remembers                            *)
(***************************************************************************)
LEMMA QuietStep ==
  ASSUME IndInv, NEW p \in Procs, NEW new \in ProcRecords, Goto(p, new),
         UNCHANGED <<rows, runs, files>>, budget' \in BudgetRecords, ProcOK(p)',
         RunsNow(p)' => RunsNow(p) /\ proc'[p].row = proc[p].row
  PROVE  IndInv'
<1>1. /\ proc \in [Procs -> ProcRecords] /\ rows' = rows /\ runs' = runs /\ boxes' = boxes
      /\ published' = published /\ trampled' = trampled /\ source' = source
  BY DEF IndInv, ShapeOK, files
<1>2. ProcRecords' = ProcRecords /\ RowRecords' = RowRecords /\ RunRecords' = RunRecords
      /\ BoxRecords' = BoxRecords
  BY <1>1, TypesStay
<1>3. proc' \in [Procs -> ProcRecords] /\ \A q \in Procs \ {p} : proc'[q] = proc[q]
  BY <1>1, GotoShape
<1>4. ShapeOK'
  BY <1>1, <1>2, <1>3 DEF IndInv, ShapeOK, BudgetRecords
<1>5. RowsOK' /\ VerifiedIsBound' /\ PublishedOK' /\ AttemptOK'
  BY <1>1 DEF IndInv, RowsOK, VerifiedIsBound, PublishedOK, AttemptOK, Restorable
<1>6. \A q \in Procs \ {p} : ProcOK(q)'
  BY <1>1, <1>3, <1>4, OthersOK DEF RowsMove, BoxesMove, PublishedMoves
<1>7. Sole'
  BY <1>3, SoleStays DEF IndInv
<1> QED BY <1>4, <1>5, <1>6, <1>7 DEF IndInv

\* A process that is off, or has just begun, relies on nothing.
LEMMA OffOK ==
  ASSUME NEW p \in Procs, proc'[p].pc \in {"off", "recover"}
  PROVE  ProcOK(p)' /\ ~RunsNow(p)'
BY DEF ProcOK, MemoryOK, WorkOK, LeftOK, BetweenOK, Between, RunsNow, Attached

LEMMA OffShape == Off \in ProcRecords
<1>1. <<>> \in Seq(SessionStatuses)
  BY EmptySeq
<1> QED BY <1>1 DEF Off, NoTrees, ProcRecords, Places, Answers, RunIds, Trees, Versions, Gone,
                    SessionStatuses

LEMMA OffStep ==
  ASSUME IndInv, NEW p \in Procs, Goto(p, Off), UNCHANGED <<rows, runs, files, budget>>
  PROVE  IndInv'
<1>1. proc'[p].pc = "off"
  BY OffShape DEF Goto, Off, IndInv, ShapeOK
<1>2. budget' \in BudgetRecords
  BY DEF IndInv, ShapeOK, BudgetRecords
<1> QED BY <1>1, <1>2, OffOK, OffShape, QuietStep

\* An idle process of a row that is remembered: what it says is not relied on.
LEMMA ReplyStep ==
  ASSUME IndInv, NEW p \in Procs, NEW message \in Answers, Attached(p), Reply(p, message),
         UNCHANGED <<rows, runs, files>>, budget' \in BudgetRecords
  PROVE  IndInv'
<1> DEFINE new == [proc[p] EXCEPT !.pc = "idle", !.told = message, !.outcome = "none",
                                  !.why = "none", !.left = <<>>, !.auto = FALSE]
<1>1. proc[p] \in ProcRecords
  BY Shapes DEF IndInv
<1>2. <<>> \in Seq(SessionStatuses)
  BY EmptySeq
<1>3. new \in ProcRecords
  BY <1>1, <1>2 DEF ProcRecords, Places
<1>4. Goto(p, new)
  BY DEF Reply
<1>5. /\ new.pc = "idle" /\ new.row = proc[p].row /\ new.box = proc[p].box
      /\ new.version = proc[p].version /\ new.status = proc[p].status
      /\ new.manifest = proc[p].manifest
  BY <1>1 DEF ProcRecords
<1>6. ProcOK(p)' /\ ~RunsNow(p)'
  <2> HIDE DEF new
  <2>1. MemoryOK(p) /\ proc'[p] = new
    BY <1>3, <1>4, Changed DEF IndInv, ProcOK
  <2> QED BY <1>4, <1>5, <2>1 DEF ProcOK, MemoryOK, WorkOK, LeftOK, BetweenOK, Between, RunsNow,
                               Attached, Row, Owns, files
<1> QED BY <1>3, <1>4, <1>6, QuietStep

LEMMA RefuseStep ==
  ASSUME IndInv, NEW p \in Procs, Refuse(p) \/ DiscardRefused(p) \/ ApplyRefused(p) \/ Inspect(p)
  PROVE  IndInv'
<1>1. Attached(p)
  BY DEF Attached, Refuse, DiscardRefused, ApplyRefused, Inspect, ApplyAsked
<1>2. budget' \in BudgetRecords /\ UNCHANGED <<rows, runs, files>>
  BY DEF Refuse, DiscardRefused, ApplyRefused, Inspect, IndInv, ShapeOK, BudgetRecords
<1>3. PICK message \in Answers : Reply(p, message)
  <2>1. CASE Refuse(p) \/ DiscardRefused(p)
    BY <2>1 DEF Refuse, DiscardRefused, Answers
  <2>2. CASE ApplyRefused(p)
    BY <2>2 DEF ApplyRefused, Answers
  <2>3. CASE Inspect(p)
    BY <2>3 DEF Inspect, Answers
  <2> QED BY <2>1, <2>2, <2>3
<1> QED BY <1>1, <1>2, <1>3, ReplyStep

LEMMA StopStep ==
  ASSUME IndInv, NEW p \in Procs,
         Shutdown(p) \/ Crash(p) \/ RecoverFails(p) \/ OpenFails(p)
  PROVE  IndInv'
BY OffStep DEF Shutdown, Crash, RecoverFails, OpenFails, StartFails, files

LEMMA BeginStep ==
  ASSUME IndInv, NEW p \in Procs, Begin(p)
  PROVE  IndInv'
<1> DEFINE new == [proc[p] EXCEPT !.pc = "loop", !.last = 0]
<1>1. proc[p] \in ProcRecords /\ ProcOK(p) /\ proc[p].pc = "start"
  BY Shapes DEF IndInv, Begin
<1>2. new \in ProcRecords
  BY <1>1 DEF ProcRecords, Places, RunIds
<1>3. Goto(p, new) /\ UNCHANGED <<rows, runs, files, budget>>
  BY DEF Begin
<1>4. /\ new.pc = "loop" /\ new.row = proc[p].row /\ new.box = proc[p].box
      /\ new.version = proc[p].version /\ new.status = proc[p].status
      /\ new.manifest = proc[p].manifest /\ new.run = proc[p].run
  BY <1>1 DEF ProcRecords
<1> HIDE DEF new
<1>9. proc'[p] = new
  BY Changed, <1>2, <1>3 DEF IndInv
<1>5. ProcOK(p)' /\ RunsNow(p) /\ proc'[p].row = proc[p].row
  BY <1>1, <1>3, <1>4, <1>9 DEF ProcOK, MemoryOK, WorkOK, LeftOK, BetweenOK, Between, RunsNow,
                          Attached, Row, Owns, Box, files
<1> QED BY <1>2, <1>3, <1>5, QuietStep DEF IndInv, ShapeOK, BudgetRecords

LEMMA ReturnsStep ==
  ASSUME IndInv, NEW p \in Procs, Returns(p)
  PROVE  IndInv'
<1>1. PICK outcome \in {"DONE", "FAILED"} :
        Goto(p, [proc[p] EXCEPT !.pc = "finish", !.outcome = outcome, !.final = proc[p].run])
  BY DEF Returns
<1> DEFINE new == [proc[p] EXCEPT !.pc = "finish", !.outcome = outcome, !.final = proc[p].run]
<1>2. proc[p] \in ProcRecords /\ ProcOK(p) /\ proc[p].pc = "loop" /\ ~proc[p].attempt
  BY Shapes DEF IndInv, Returns
<1>3. new \in ProcRecords
  BY <1>2 DEF ProcRecords, Places
<1>4. Goto(p, new) /\ UNCHANGED <<rows, runs, files, budget>>
  BY <1>1 DEF Returns
<1>5. /\ new.pc = "finish" /\ new.row = proc[p].row /\ new.box = proc[p].box
      /\ new.version = proc[p].version /\ new.status = proc[p].status
      /\ new.manifest = proc[p].manifest /\ new.run = proc[p].run /\ new.outcome # "none"
  BY <1>2 DEF ProcRecords
<1> HIDE DEF new
<1>9. proc'[p] = new
  BY Changed, <1>3, <1>4 DEF IndInv
<1>6. ProcOK(p)' /\ RunsNow(p) /\ proc'[p].row = proc[p].row
  BY <1>2, <1>4, <1>5, <1>9 DEF ProcOK, MemoryOK, WorkOK, LeftOK, BetweenOK, Between, RunsNow,
                          Attached, Row, Owns, Box, files
<1> QED BY <1>3, <1>4, <1>6, QuietStep DEF IndInv, ShapeOK, BudgetRecords

LEMMA FinishFailsStep ==
  ASSUME IndInv, NEW p \in Procs, FinishFails(p)
  PROVE  IndInv'
<1>1. /\ proc[p] \in ProcRecords /\ ProcOK(p) /\ proc[p].pc = "finish" /\ Attached(p)
      /\ UNCHANGED <<rows, runs, files>>
  BY Shapes DEF IndInv, FinishFails, Attached
<1>2. budget' \in BudgetRecords
  BY SpendShape DEF FinishFails, IndInv, ShapeOK, BudgetRecords
<1>3. CASE proc[p].outcome = "INTERRUPTED"
  BY <1>1, <1>2, <1>3, ReplyStep DEF FinishFails, Answers
<1>4. CASE proc[p].outcome # "INTERRUPTED"
  <2> DEFINE new == [proc[p] EXCEPT !.outcome = "INTERRUPTED"]
  <2>1. new \in ProcRecords
    BY <1>1 DEF ProcRecords
  <2>2. Goto(p, new)
    BY <1>4 DEF FinishFails
  <2>3. /\ new.pc = "finish" /\ new.row = proc[p].row /\ new.box = proc[p].box
        /\ new.version = proc[p].version /\ new.status = proc[p].status
        /\ new.manifest = proc[p].manifest /\ new.run = proc[p].run /\ new.outcome # "none"
    BY <1>1 DEF ProcRecords
  <2> HIDE DEF new
  <2>10. proc'[p] = new
    BY Changed, <2>1, <2>2 DEF IndInv
  <2>4. ProcOK(p)' /\ RunsNow(p) /\ proc'[p].row = proc[p].row
    BY <1>1, <2>2, <2>3, <2>10 DEF ProcOK, MemoryOK, WorkOK, LeftOK, BetweenOK, Between, RunsNow,
                            Attached, Row, Owns, Box, files
  <2> QED BY <1>1, <1>2, <2>1, <2>2, <2>4, QuietStep
<1> QED BY <1>3, <1>4

LEMMA DiscardStep ==
  ASSUME IndInv, NEW p \in Procs, Discard(p)
  PROVE  IndInv'
<1> DEFINE left == CASE proc[p].status = "APPLIED"   -> <<"CLEAN", "DISCARDED", "CLEAN">>
                     [] proc[p].status = "DISCARDED" -> <<"CLEAN">>
                     [] OTHER                        -> <<"DISCARDED", "CLEAN">>
           new == [proc[p] EXCEPT !.pc = "reset", !.stage = 1, !.why = "discard",
                                  !.told = "none", !.left = left]
<1>1. /\ proc[p] \in ProcRecords /\ ProcOK(p) /\ proc[p].pc = "idle" /\ proc[p].status # "RUNNING"
      /\ UNCHANGED <<rows, runs, files, budget>>
  BY Shapes DEF IndInv, Discard, Discardable
<1>2. left \in Seq(SessionStatuses)
  <2>1. "CLEAN" \in SessionStatuses /\ "DISCARDED" \in SessionStatuses
    BY DEF SessionStatuses
  <2> QED BY <2>1
<1>3. <<proc[p].status, left>> \in Leavings
  BY <1>1 DEF ProcRecords, SessionStatuses, Leavings
<1> HIDE DEF left
<1>4. new \in ProcRecords
  BY <1>1, <1>2 DEF ProcRecords, Places, Answers
<1>5. Goto(p, new)
  BY DEF Discard, left
<1>6. /\ new.pc = "reset" /\ new.row = proc[p].row /\ new.box = proc[p].box
      /\ new.version = proc[p].version /\ new.status = proc[p].status
      /\ new.manifest = proc[p].manifest /\ new.left = left /\ new.why = "discard"
      /\ new.stage = 1
  BY <1>1 DEF ProcRecords
<1> HIDE DEF new
<1>9. proc'[p] = new
  BY Changed, <1>4, <1>5 DEF IndInv
<1>7. ProcOK(p)' /\ ~RunsNow(p)'
  BY <1>1, <1>3, <1>5, <1>6, <1>9 DEF ProcOK, MemoryOK, WorkOK, LeftOK, BetweenOK, Between, RunsNow,
                          Attached, Row, Owns, Box, Leavings, files
<1> QED BY <1>1, <1>4, <1>5, <1>7, QuietStep DEF IndInv, ShapeOK, BudgetRecords

LEMMA SaveConflictsStep ==
  ASSUME IndInv, NEW p \in Procs, SaveConflicts(p)
  PROVE  IndInv'
<1>1. /\ proc[p] \in ProcRecords /\ ProcOK(p) /\ proc[p].pc = "save" /\ ~Owns(p)
      /\ UNCHANGED <<rows, runs, files, budget>>
  BY Shapes DEF IndInv, SaveConflicts
<1>2. CASE proc[p].why = "startup"
  BY <1>1, <1>2, OffStep DEF SaveConflicts
<1>3. CASE proc[p].why # "startup"
  <2> DEFINE told == IF proc[p].auto THEN proc[p].told ELSE "error"
             manifest == IF Len(proc[p].left) = 1 THEN 0 ELSE proc[p].manifest
             calm == [proc[p] EXCEPT !.pc = "idle", !.stage = 0, !.kept = NoTrees, !.why = "none",
                                     !.left = <<>>, !.auto = FALSE, !.told = told]
             new == [calm EXCEPT !.status = Head(proc[p].left), !.manifest = manifest]
  <2>1. <<proc[p].status, proc[p].left>> \in Leavings
    BY <1>1 DEF ProcOK, LeftOK
  <2>2. Head(proc[p].left) \in SessionStatuses
    BY <2>1 DEF Leavings, SessionStatuses
  <2>3. <<>> \in Seq(SessionStatuses) /\ NoTrees \in Trees
    BY EmptySeq DEF NoTrees, Trees, Versions, Gone, RunIds
  <2>4. told \in Answers /\ manifest \in RunIds
    BY <1>1 DEF ProcRecords, Answers, RunIds
  <2> HIDE DEF told, manifest
  <2>5. calm \in ProcRecords
    BY <1>1, <2>3, <2>4 DEF ProcRecords, Places, Answers
  <2>6. new \in ProcRecords
    BY <2>2, <2>4, <2>5 DEF ProcRecords
  <2>7. Goto(p, new)
    BY <1>3 DEF SaveConflicts, Troubled, told, manifest
  <2>8. /\ new.pc = "idle" /\ new.row = proc[p].row /\ new.box = proc[p].box
        /\ new.version = proc[p].version
    BY <1>1 DEF ProcRecords
  <2> HIDE DEF calm, new
  <2>10. proc'[p] = new
    BY Changed, <2>6, <2>7 DEF IndInv
  <2>9. ProcOK(p)' /\ ~RunsNow(p)'
    BY <1>1, <2>7, <2>8, <2>10 DEF ProcOK, MemoryOK, WorkOK, LeftOK, BetweenOK, Between, RunsNow,
                            Attached, Row, Owns, Box, files
  <2> QED BY <1>1, <2>6, <2>7, <2>9, QuietStep DEF IndInv, ShapeOK, BudgetRecords
<1> QED BY <1>2, <1>3

(***************************************************************************)
(* Steps that change one sandbox                                           *)
(***************************************************************************)
LEMMA BoxStep ==
  ASSUME IndInv, NEW p \in Procs, NEW b \in DOMAIN boxes, NEW box \in BoxRecords,
         NEW new \in ProcRecords, Goto(p, new), boxes' = [boxes EXCEPT ![b] = box],
         UNCHANGED <<rows, runs, published, source>>, budget' \in BudgetRecords,
         trampled' \in BOOLEAN, trampled => trampled',
         ~trampled' /\ box.open # 0 => rows[b].run = box.open /\ box.saved # Gone /\ box.work # Gone,
         \/ box.open = 0 \/ box.open = boxes[b].open
         \/ RunsNow(p) /\ proc[p].box = b,
         ProcOK(p)', RunsNow(p)' => RunsNow(p) /\ proc'[p].row = proc[p].row
  PROVE  IndInv'
<1>1. boxes \in Seq(BoxRecords) /\ proc \in [Procs -> ProcRecords]
  BY DEF IndInv, ShapeOK
<1>2. boxes' \in Seq(BoxRecords) /\ DOMAIN boxes' = DOMAIN boxes /\ boxes'[b] = box
      /\ \A c \in DOMAIN boxes : c # b => boxes'[c] = boxes[c]
  BY <1>1, SeqPut
<1>3. rows' = rows /\ runs' = runs /\ published' = published /\ source' = source
  OBVIOUS
<1>4. ProcRecords' = ProcRecords /\ RowRecords' = RowRecords /\ RunRecords' = RunRecords
      /\ BoxRecords' = BoxRecords
  BY <1>2, <1>3, TypesStay
<1>5. proc' \in [Procs -> ProcRecords] /\ \A q \in Procs \ {p} : proc'[q] = proc[q]
  BY Changed DEF IndInv
<1>6. ShapeOK'
  BY <1>2, <1>3, <1>4, <1>5 DEF IndInv, ShapeOK, BudgetRecords
<1>7. RowsOK' /\ VerifiedIsBound' /\ PublishedOK'
  BY <1>2, <1>3 DEF IndInv, RowsOK, VerifiedIsBound, PublishedOK
<1>8. AttemptOK'
  <2> SUFFICES ASSUME ~trampled', NEW c \in DOMAIN boxes, boxes'[c].open # 0
               PROVE  rows[c].run = boxes'[c].open /\ boxes'[c].saved # Gone /\ boxes'[c].work # Gone
    BY <1>2, <1>3 DEF AttemptOK, Restorable
  <2> QED BY <1>2 DEF IndInv, AttemptOK, Restorable
<1>9. BoxesMove(p)
  <2> SUFFICES ASSUME NEW q \in Procs \ {p}, Between(q)
               PROVE  \/ boxes'[proc[q].box].open = 0
                      \/ boxes'[proc[q].box].open = boxes[proc[q].box].open
    BY <1>2 DEF BoxesMove
  <2>1. RunsNow(q) /\ Attached(q)
    BY DEF Between, RunsNow, Attached
  <2>2. proc[q].box = proc[q].row /\ proc[q].row \in DOMAIN boxes
    BY <2>1 DEF IndInv, ProcOK, MemoryOK, RowsOK
  <2>3. RunsNow(p) => proc[p].box = proc[p].row /\ proc[p].row # proc[q].row
    BY <2>1 DEF IndInv, ProcOK, MemoryOK, Attached, RunsNow, Sole
  <2> QED BY <1>2, <2>2, <2>3
<1>10. \A q \in Procs \ {p} : ProcOK(q)'
  BY <1>3, <1>5, <1>6, <1>9, OthersOK DEF RowsMove, PublishedMoves
<1>11. Sole'
  BY <1>5, SoleStays DEF IndInv
<1> QED BY <1>6, <1>7, <1>8, <1>10, <1>11 DEF IndInv

\* The sandbox of a process that has a row.
LEMMA BoxOfProc ==
  ASSUME IndInv, NEW p \in Procs, Attached(p)
  PROVE  /\ proc[p] \in ProcRecords /\ ProcOK(p) /\ proc[p].box = proc[p].row
         /\ proc[p].box \in DOMAIN boxes /\ proc[p].row \in DOMAIN rows /\ proc[p].row # 0
         /\ Box(p) \in BoxRecords /\ Row(p) \in RowRecords /\ Row(p).box = proc[p].row
<1>1. proc[p] \in ProcRecords /\ ProcOK(p)
  BY Shapes DEF IndInv
<1>2. proc[p].box = proc[p].row /\ proc[p].row \in DOMAIN rows /\ DOMAIN rows = DOMAIN boxes
  BY <1>1 DEF ProcOK, MemoryOK, IndInv, RowsOK
<1> QED BY <1>1, <1>2, Shapes DEF Box, Row, IndInv, RowsOK

\* The run of a process that is in one.
LEMMA RunOfProc ==
  ASSUME IndInv, NEW p \in Procs, RunsNow(p)
  PROVE  /\ proc[p].run \in DOMAIN runs /\ proc[p].run # 0 /\ Run(p) \in RunRecords
         /\ Run(p).box = proc[p].box /\ Owns(p) /\ Row(p).status = "RUNNING"
         /\ Row(p).run = proc[p].run
         /\ ~trampled /\ Box(p).open # 0 => Box(p).open = proc[p].run /\ Restorable(proc[p].box)
<1>1. Attached(p)
  BY DEF Attached, RunsNow
<1>2. Owns(p) /\ Row(p).status = "RUNNING" /\ Row(p).run = proc[p].run
  BY <1>1, BoxOfProc DEF ProcOK, WorkOK
<1>3. proc[p].row \in DOMAIN rows /\ proc[p].box = proc[p].row /\ proc[p].box \in DOMAIN boxes
      /\ proc[p] \in ProcRecords
  BY <1>1, BoxOfProc
<1>4. proc[p].run # 0 /\ runs[proc[p].run].box = proc[p].row
  BY <1>2, <1>3 DEF IndInv, RowsOK, Row
<1>5. proc[p].run \in DOMAIN runs
  BY <1>3, <1>4 DEF ProcRecords, RunIds
<1>6. ~trampled /\ Box(p).open # 0 => Box(p).open = proc[p].run /\ Restorable(proc[p].box)
  BY <1>2, <1>3 DEF IndInv, AttemptOK, Row, Box
<1> QED BY <1>2, <1>3, <1>4, <1>5, <1>6, Shapes DEF IndInv, Run

LEMMA RolledBackShape ==
  ASSUME NEW box \in BoxRecords
  PROVE  RolledBack(box) \in BoxRecords /\ RolledBack(box).open = 0 /\ RolledBack(box).work = box.saved
BY DEF RolledBack, BoxRecords, RunIds

LEMMA RecoverRunStep ==
  ASSUME IndInv, NEW p \in Procs, RecoverRun(p)
  PROVE  IndInv'
<1>1. PICK r \in proc[p].todo :
        /\ boxes[runs[r].box].open = r => Restorable(runs[r].box)
        /\ boxes' = IF boxes[runs[r].box].open = r
                    THEN [boxes EXCEPT ![runs[r].box] = RolledBack(boxes[runs[r].box])] ELSE boxes
        /\ Goto(p, [proc[p] EXCEPT !.todo = @ \ {r},
                      !.box = IF boxes[runs[r].box].open = r /\ @ = 0 THEN runs[r].box ELSE @])
  BY DEF RecoverRun
<1> DEFINE b == runs[r].box
           new == [proc[p] EXCEPT !.todo = @ \ {r}, !.box = IF boxes[b].open = r /\ @ = 0 THEN b ELSE @]
<1>2. proc[p] \in ProcRecords /\ proc[p].pc = "recover"
      /\ UNCHANGED <<rows, runs, source, published, trampled, budget>>
  BY Shapes DEF IndInv, RecoverRun
<1>3. r \in DOMAIN runs
  BY <1>2 DEF ProcRecords
<1>4. b \in DOMAIN boxes
  BY <1>3, Shapes DEF IndInv, RunRecords
<1>5. boxes[b] \in BoxRecords
  BY <1>4, Shapes DEF IndInv
<1>6. Goto(p, new)
  BY <1>1
<1> HIDE DEF b
<1>7. new \in ProcRecords /\ new.pc = "recover"
  BY <1>2, <1>4 DEF ProcRecords
<1> HIDE DEF new
<1>8. proc'[p] = new
  BY <1>6, <1>7, Changed DEF IndInv
<1>9. ProcOK(p)' /\ ~RunsNow(p)'
  BY <1>7, <1>8, OffOK
<1>10. budget' \in BudgetRecords /\ trampled' \in BOOLEAN
  BY <1>2 DEF IndInv, ShapeOK, BudgetRecords
<1>11. CASE boxes[b].open = r
  <2>1. boxes' = [boxes EXCEPT ![b] = RolledBack(boxes[b])]
    BY <1>1, <1>11 DEF b
  <2> QED BY <1>2, <1>4, <1>5, <1>6, <1>7, <1>9, <1>10, <2>1, RolledBackShape, BoxStep
<1>12. CASE boxes[b].open # r
  <2>1. boxes' = boxes
    BY <1>1, <1>12 DEF b
  <2> QED BY <1>2, <1>6, <1>7, <1>9, <1>10, <2>1, QuietStep DEF files
<1> QED BY <1>11, <1>12

\* A process in a run changes its sandbox, goes on in the run, and finds no attempt in it
\* unless it has opened one.
LEMMA WorkBoxStep ==
  ASSUME IndInv, NEW p \in Procs, RunsNow(p), NEW box \in BoxRecords, NEW new \in ProcRecords,
         Goto(p, new), boxes' = [boxes EXCEPT ![proc[p].box] = box],
         UNCHANGED <<rows, runs, published, source, trampled>>, budget' \in BudgetRecords,
         ~trampled /\ box.open # 0 => /\ box.open = proc[p].run /\ box.saved # Gone /\ box.work # Gone
                                      /\ new.pc = "loop" /\ new.attempt,
         new.pc \in {"loop", "finish"}, new.pc = "finish" => new.outcome # "none",
         new.row = proc[p].row, new.box = proc[p].box, new.version = proc[p].version,
         new.status = proc[p].status, new.manifest = proc[p].manifest, new.run = proc[p].run
  PROVE  IndInv'
<1>1. Attached(p)
  BY DEF Attached, RunsNow
<1>2. /\ proc[p].box \in DOMAIN boxes /\ proc[p].row \in DOMAIN rows /\ proc[p].box = proc[p].row
      /\ ProcOK(p)
  BY <1>1, BoxOfProc
<1>3. Row(p).run = proc[p].run
  BY RunOfProc
<1>4. proc'[p] = new
  BY Changed DEF IndInv
<1>5. boxes'[proc[p].box] = box
  BY <1>2, SeqPut DEF IndInv, ShapeOK
<1>6. RunsNow(p)' /\ proc'[p].row = proc[p].row
  BY <1>4 DEF RunsNow
<1>7. BetweenOK(p)'
  BY <1>4, <1>5 DEF BetweenOK, Between, Box
<1>8. MemoryOK(p)' /\ WorkOK(p)' /\ LeftOK(p)'
  BY <1>1, <1>2, <1>4 DEF ProcOK, MemoryOK, WorkOK, LeftOK, RunsNow, Attached, Row, Owns
<1>9. trampled' \in BOOLEAN /\ (trampled => trampled')
  BY DEF IndInv, ShapeOK
<1>10. rows[proc[p].box].run = proc[p].run
  BY <1>2, <1>3 DEF Row
<1> QED BY <1>2, <1>6, <1>7, <1>8, <1>9, <1>10, BoxStep DEF ProcOK

LEMMA OpenAttemptStep ==
  ASSUME IndInv, NEW p \in Procs, OpenAttempt(p)
  PROVE  IndInv'
<1> DEFINE new == [proc[p] EXCEPT !.attempt = TRUE]
           box == [Box(p) EXCEPT !.open = proc[p].run, !.saved = Box(p).work]
<1>1. RunsNow(p) /\ Attached(p) /\ proc[p].pc = "loop" /\ Box(p).work # Gone
  BY DEF OpenAttempt, RunsNow, Attached
<1>2. proc[p] \in ProcRecords /\ Box(p) \in BoxRecords /\ proc[p].run \in DOMAIN runs
  BY <1>1, BoxOfProc, RunOfProc
<1>3. box \in BoxRecords /\ box.open = proc[p].run /\ box.saved = Box(p).work
      /\ box.work = Box(p).work
  BY <1>2 DEF BoxRecords, RunIds
<1>4. /\ new \in ProcRecords /\ new.pc = "loop" /\ new.attempt
      /\ new.row = proc[p].row /\ new.box = proc[p].box /\ new.version = proc[p].version
      /\ new.status = proc[p].status /\ new.manifest = proc[p].manifest /\ new.run = proc[p].run
  BY <1>1, <1>2 DEF ProcRecords
<1>5. Goto(p, new) /\ boxes' = [boxes EXCEPT ![proc[p].box] = box]
      /\ UNCHANGED <<rows, runs, published, source, trampled, budget>>
  BY DEF OpenAttempt, Box
<1>6. budget' \in BudgetRecords
  BY <1>5 DEF IndInv, ShapeOK, BudgetRecords
<1> HIDE DEF new, box
<1> QED BY <1>1, <1>3, <1>4, <1>5, <1>6, WorkBoxStep

LEMMA WriteStep ==
  ASSUME IndInv, NEW p \in Procs, Write(p)
  PROVE  IndInv'
<1> DEFINE box == [Box(p) EXCEPT !.work = proc[p].run]
<1>1. RunsNow(p) /\ Attached(p) /\ proc[p].pc = "loop" /\ proc[p].attempt /\ Box(p).work # Gone
  BY DEF Write, RunsNow, Attached
<1>2. /\ proc[p] \in ProcRecords /\ Box(p) \in BoxRecords /\ proc[p].run \in DOMAIN runs
      /\ proc[p].run \in Nat
  BY <1>1, BoxOfProc, RunOfProc, Shapes DEF IndInv
<1>3. box \in BoxRecords /\ box.open = Box(p).open /\ box.saved = Box(p).saved
      /\ box.work = proc[p].run
  BY <1>2 DEF BoxRecords, RunIds
<1>4. boxes' = [boxes EXCEPT ![proc[p].box] = box]
      /\ UNCHANGED <<rows, runs, published, source, trampled, budget, proc>>
  BY DEF Write, Box
<1>5. budget' \in BudgetRecords
  BY <1>4 DEF IndInv, ShapeOK, BudgetRecords
<1>6. Goto(p, proc[p])
  BY <1>4 DEF Goto, IndInv, ShapeOK
<1>7. ~trampled /\ box.open # 0 =>
        box.open = proc[p].run /\ box.saved # Gone /\ box.work # Gone
  BY <1>1, <1>2, <1>3, RunOfProc DEF Restorable, Box, Gone
<1> HIDE DEF box
<1> QED BY <1>1, <1>2, <1>3, <1>4, <1>5, <1>6, <1>7, WorkBoxStep

LEMMA CloseAttemptStep ==
  ASSUME IndInv, NEW p \in Procs, CloseAttempt(p)
  PROVE  IndInv'
<1> DEFINE new == [proc[p] EXCEPT !.attempt = FALSE]
           kept == [Box(p) EXCEPT !.open = 0, !.saved = Gone]
<1>1. RunsNow(p) /\ Attached(p) /\ proc[p].pc = "loop"
  BY DEF CloseAttempt, RunsNow, Attached
<1>2. proc[p] \in ProcRecords /\ Box(p) \in BoxRecords
  BY <1>1, BoxOfProc
<1>3. PICK box \in BoxRecords : box.open = 0 /\ boxes' = [boxes EXCEPT ![proc[p].box] = box]
  <2>1. kept \in BoxRecords /\ kept.open = 0
    BY <1>2 DEF BoxRecords, RunIds
  <2>2. RolledBack(Box(p)) \in BoxRecords /\ RolledBack(Box(p)).open = 0
    BY <1>2, RolledBackShape
  <2>3. \/ boxes' = [boxes EXCEPT ![proc[p].box] = kept]
        \/ boxes' = [boxes EXCEPT ![proc[p].box] = RolledBack(Box(p))]
    BY DEF CloseAttempt, Box
  <2> HIDE DEF kept
  <2> QED BY <2>1, <2>2, <2>3
<1>4. /\ new \in ProcRecords /\ new.pc = "loop"
      /\ new.row = proc[p].row /\ new.box = proc[p].box /\ new.version = proc[p].version
      /\ new.status = proc[p].status /\ new.manifest = proc[p].manifest /\ new.run = proc[p].run
  BY <1>1, <1>2 DEF ProcRecords
<1>5. Goto(p, new) /\ UNCHANGED <<rows, runs, published, source, trampled, budget>>
  BY DEF CloseAttempt
<1>6. budget' \in BudgetRecords
  BY <1>5 DEF IndInv, ShapeOK, BudgetRecords
<1> HIDE DEF new
<1> QED BY <1>1, <1>3, <1>4, <1>5, <1>6, WorkBoxStep

LEMMA RaisesStep ==
  ASSUME IndInv, NEW p \in Procs, Raises(p)
  PROVE  IndInv'
<1> DEFINE new == [proc[p] EXCEPT !.pc = "finish", !.outcome = "INTERRUPTED", !.attempt = FALSE,
                                  !.final = proc[p].last]
           box == AfterRaise(p)
<1>1. RunsNow(p) /\ Attached(p)
  BY DEF Raises, Working, RunsNow, Attached
<1>2. proc[p] \in ProcRecords /\ Box(p) \in BoxRecords
  BY <1>1, BoxOfProc
<1>3. box \in BoxRecords /\ (~trampled => box.open = 0)
  BY <1>1, <1>2, RolledBackShape, RunOfProc DEF AfterRaise
<1>4. /\ new.pc = "finish" /\ new.outcome # "none"
      /\ new.row = proc[p].row /\ new.box = proc[p].box /\ new.version = proc[p].version
      /\ new.status = proc[p].status /\ new.manifest = proc[p].manifest /\ new.run = proc[p].run
  BY <1>2 DEF ProcRecords
<1>7. new \in ProcRecords
  <2>1. proc[p].last \in RunIds
    BY <1>2 DEF ProcRecords
  <2> QED BY <1>2, <2>1 DEF ProcRecords, Places
<1>5. Goto(p, new) /\ boxes' = [boxes EXCEPT ![proc[p].box] = box]
      /\ UNCHANGED <<rows, runs, published, source, trampled>>
  BY DEF Raises
<1>6. budget' \in BudgetRecords
  BY SpendShape DEF Raises, IndInv, ShapeOK, BudgetRecords
<1> HIDE DEF new, box
<1> QED BY <1>1, <1>3, <1>4, <1>5, <1>6, <1>7, WorkBoxStep

\* A step of a reset: the sandbox it leaves has no attempt, or is trampled.
LEMMA ResettingStep ==
  ASSUME IndInv, NEW p \in Procs, proc[p].pc = "reset", NEW box \in BoxRecords,
         NEW new \in ProcRecords, Goto(p, new), boxes' = [boxes EXCEPT ![proc[p].box] = box],
         UNCHANGED <<rows, runs, published, source>>, budget' \in BudgetRecords, Tramples(p),
         box.open = Box(p).open, ProcOK(p)', ~RunsNow(p)'
  PROVE  IndInv'
<1>1. Attached(p)
  BY DEF Attached
<1>2. proc[p].box \in DOMAIN boxes
  BY <1>1, BoxOfProc
<1>3. trampled' \in BOOLEAN /\ (trampled => trampled')
  BY DEF IndInv, ShapeOK, Tramples
<1>4. ~trampled' => box.open = 0
  BY DEF Tramples
<1> QED BY <1>2, <1>3, <1>4, BoxStep DEF Box

LEMMA ResetStep ==
  ASSUME IndInv, NEW p \in Procs, proc[p].pc = "reset", proc[p].stage \in 1..5,
         NEW box \in BoxRecords, NEW kept \in Trees, Reset(p, box, kept), box.open = Box(p).open
  PROVE  IndInv'
<1> DEFINE new == [proc[p] EXCEPT !.stage = @ + 1, !.kept = kept]
<1>1. proc[p] \in ProcRecords /\ ProcOK(p)
  BY Shapes DEF IndInv
<1>2. /\ new.pc = "reset" /\ new.stage \in 1..6
      /\ new.row = proc[p].row /\ new.box = proc[p].box /\ new.version = proc[p].version
      /\ new.status = proc[p].status /\ new.manifest = proc[p].manifest
      /\ new.left = proc[p].left /\ new.why = proc[p].why
  BY <1>1 DEF ProcRecords
<1>7. new \in ProcRecords
  <2>1. proc[p].stage + 1 \in Nat
    OBVIOUS
  <2>2. new = [proc[p] EXCEPT !.stage = proc[p].stage + 1, !.kept = kept]
    BY <1>1 DEF ProcRecords
  <2> HIDE DEF new
  <2> QED BY <1>1, <2>1, <2>2, Zenon DEF ProcRecords
<1>3. Goto(p, new) /\ boxes' = [boxes EXCEPT ![proc[p].box] = box] /\ Tramples(p)
      /\ UNCHANGED <<rows, runs, published, source, budget>>
  BY DEF Reset
<1> HIDE DEF new
<1>4. proc'[p] = new
  BY <1>3, <1>7, Changed DEF IndInv
<1>5. ProcOK(p)' /\ ~RunsNow(p)'
  BY <1>1, <1>2, <1>3, <1>4 DEF ProcOK, MemoryOK, WorkOK, LeftOK, BetweenOK, Between, RunsNow,
                                Attached, Row, Owns, Leavings
<1>6. budget' \in BudgetRecords
  BY <1>3 DEF IndInv, ShapeOK, BudgetRecords
<1> QED BY <1>2, <1>3, <1>5, <1>6, <1>7, ResettingStep

LEMMA CopyStep ==
  ASSUME IndInv, NEW p \in Procs, Copy(p) \/ KeepBase(p) \/ KeepWork(p) \/ PutBase(p) \/ PutWork(p)
  PROVE  IndInv'
<1>1. proc[p].pc = "reset" /\ proc[p].stage \in 1..5 /\ Attached(p)
  BY DEF Copy, KeepBase, KeepWork, PutBase, PutWork, AtStage, Attached
<1>2. proc[p] \in ProcRecords /\ Box(p) \in BoxRecords
  BY <1>1, BoxOfProc
<1>3. proc[p].kept \in Trees
  BY <1>2 DEF ProcRecords
<1>4. source \in Nat
  BY DEF IndInv, ShapeOK
<1>5. CASE Copy(p)
  <2>1. [NoTrees EXCEPT !.new = source] \in Trees
    BY <1>4 DEF NoTrees, Trees, Versions, Gone
  <2> QED BY <1>1, <1>2, <1>5, <2>1, ResetStep DEF Copy
<1>6. CASE KeepBase(p)
  <2>1. [Box(p) EXCEPT !.base = Gone] \in BoxRecords /\ [Box(p) EXCEPT !.base = Gone].open = Box(p).open
        /\ [proc[p].kept EXCEPT !.base = Box(p).base] \in Trees
    BY <1>2, <1>3 DEF BoxRecords, Trees, Versions
  <2> QED BY <1>1, <1>6, <2>1, ResetStep DEF KeepBase
<1>7. CASE KeepWork(p)
  <2>1. [Box(p) EXCEPT !.work = Gone] \in BoxRecords /\ [Box(p) EXCEPT !.work = Gone].open = Box(p).open
        /\ [proc[p].kept EXCEPT !.work = Box(p).work] \in Trees
    BY <1>2, <1>3 DEF BoxRecords, Trees, Versions
  <2> QED BY <1>1, <1>7, <2>1, ResetStep DEF KeepWork
<1>8. CASE PutBase(p)
  <2>1. [Box(p) EXCEPT !.base = proc[p].kept.new] \in BoxRecords
        /\ [Box(p) EXCEPT !.base = proc[p].kept.new].open = Box(p).open
    BY <1>2, <1>3 DEF BoxRecords, Trees
  <2> QED BY <1>1, <1>3, <1>8, <2>1, ResetStep DEF PutBase
<1>9. CASE PutWork(p)
  <2>1. [Box(p) EXCEPT !.work = 0] \in BoxRecords /\ [Box(p) EXCEPT !.work = 0].open = Box(p).open
    BY <1>2 DEF BoxRecords, RunIds
  <2> QED BY <1>1, <1>3, <1>9, <2>1, ResetStep DEF PutWork
<1> QED BY <1>5, <1>6, <1>7, <1>8, <1>9

LEMMA NoTreesShape == NoTrees \in Trees
BY DEF NoTrees, Trees, Versions, Gone, RunIds

LEMMA ResetEndsStep ==
  ASSUME IndInv, NEW p \in Procs, ResetEnds(p)
  PROVE  IndInv'
<1> DEFINE new == [proc[p] EXCEPT !.pc = "save", !.stage = 0, !.kept = NoTrees]
           box == [Box(p) EXCEPT !.saved = Gone]
<1>1. proc[p].pc = "reset" /\ Attached(p)
  BY DEF ResetEnds, AtStage, Attached
<1>2. proc[p] \in ProcRecords /\ Box(p) \in BoxRecords /\ ProcOK(p)
  BY <1>1, BoxOfProc
<1>3. box \in BoxRecords /\ box.open = Box(p).open
  BY <1>2 DEF BoxRecords
<1>4. new \in ProcRecords
  BY <1>2, NoTreesShape DEF ProcRecords, Places
<1>5. /\ new.pc = "save" /\ new.row = proc[p].row /\ new.box = proc[p].box
      /\ new.version = proc[p].version /\ new.status = proc[p].status
      /\ new.manifest = proc[p].manifest /\ new.left = proc[p].left /\ new.why = proc[p].why
  BY <1>2 DEF ProcRecords
<1>6. Goto(p, new) /\ boxes' = [boxes EXCEPT ![proc[p].box] = box] /\ Tramples(p)
      /\ UNCHANGED <<rows, runs, published, source, budget>>
  BY DEF ResetEnds, Box
<1> HIDE DEF new, box
<1>7. proc'[p] = new
  BY <1>4, <1>6, Changed DEF IndInv
<1>8. ProcOK(p)' /\ ~RunsNow(p)'
  BY <1>1, <1>2, <1>5, <1>6, <1>7 DEF ProcOK, MemoryOK, WorkOK, LeftOK, BetweenOK, Between, RunsNow,
                                Attached, Row, Owns, Leavings
<1>9. budget' \in BudgetRecords
  BY <1>6 DEF IndInv, ShapeOK, BudgetRecords
<1> QED BY <1>1, <1>3, <1>4, <1>6, <1>8, <1>9, ResettingStep

LEMMA TroubledShape ==
  ASSUME IndInv, NEW p \in Procs, Attached(p)
  PROVE  /\ Troubled(p) \in ProcRecords /\ Troubled(p).pc \in {"off", "idle"}
         /\ Troubled(p).pc = "idle" =>
              /\ Troubled(p).row = proc[p].row /\ Troubled(p).box = proc[p].box
              /\ Troubled(p).version = proc[p].version /\ Troubled(p).status = proc[p].status
              /\ Troubled(p).manifest = proc[p].manifest
<1>1. proc[p] \in ProcRecords
  BY BoxOfProc
<1>2. CASE proc[p].why = "startup"
  BY <1>2, OffShape DEF Troubled, Off
<1>3. CASE proc[p].why # "startup"
  <2> DEFINE told == IF proc[p].auto THEN proc[p].told ELSE "error"
  <2>1. told \in Answers /\ <<>> \in Seq(SessionStatuses)
    BY <1>1, EmptySeq DEF ProcRecords, Answers
  <2>2. Troubled(p) = [proc[p] EXCEPT !.pc = "idle", !.stage = 0, !.kept = NoTrees, !.why = "none",
                                    !.left = <<>>, !.auto = FALSE, !.told = told]
    BY <1>3 DEF Troubled
  <2> HIDE DEF told
  <2> DEFINE calm == [proc[p] EXCEPT !.pc = "idle", !.stage = 0, !.kept = NoTrees, !.why = "none"]
  <2>4. calm \in ProcRecords
    BY <1>1, NoTreesShape DEF ProcRecords, Places
  <2>5. Troubled(p) = [calm EXCEPT !.left = <<>>, !.auto = FALSE, !.told = told]
    BY <1>1, <2>2 DEF ProcRecords
  <2> HIDE DEF calm
  <2>3. Troubled(p) \in ProcRecords
    BY <2>1, <2>4, <2>5 DEF ProcRecords
  <2> QED BY <1>1, <2>2, <2>3 DEF ProcRecords
<1> QED BY <1>2, <1>3

\* What a reset or a save that fails leaves the process with.
LEMMA TroubledOK ==
  ASSUME IndInv, NEW p \in Procs, Attached(p), Goto(p, Troubled(p)), rows' = rows
  PROVE  ProcOK(p)' /\ ~RunsNow(p)'
<1>1. ProcOK(p) /\ proc'[p] = Troubled(p)
  BY BoxOfProc, TroubledShape, Changed DEF IndInv
<1>2. CASE Troubled(p).pc = "off"
  BY <1>1, <1>2, OffOK
<1>3. CASE Troubled(p).pc = "idle"
  BY <1>1, <1>3, TroubledShape DEF ProcOK, MemoryOK, WorkOK, LeftOK, BetweenOK, Between, RunsNow,
                                   Attached, Row, Owns
<1> QED BY <1>2, <1>3, TroubledShape

LEMMA ResetFailsStep ==
  ASSUME IndInv, NEW p \in Procs, ResetFails(p)
  PROVE  IndInv'
<1> DEFINE box == [Box(p) EXCEPT !.base = proc[p].kept.base, !.work = proc[p].kept.work]
<1>1. proc[p].pc = "reset" /\ Attached(p)
  BY DEF ResetFails, Attached
<1>2. proc[p] \in ProcRecords /\ Box(p) \in BoxRecords
  BY <1>1, BoxOfProc
<1>3. proc[p].kept.base \in Versions /\ proc[p].kept.work \in {Gone} \cup RunIds
  BY <1>2 DEF ProcRecords, Trees
<1>4. box \in BoxRecords /\ box.open = Box(p).open
  BY <1>2, <1>3 DEF BoxRecords
<1>5. Goto(p, Troubled(p)) /\ boxes' = [boxes EXCEPT ![proc[p].box] = box] /\ Tramples(p)
      /\ UNCHANGED <<rows, runs, published, source>>
  BY DEF ResetFails, Box
<1>6. budget' \in BudgetRecords
  BY SpendShape DEF ResetFails, IndInv, ShapeOK, BudgetRecords
<1> HIDE DEF box
<1> QED BY <1>1, <1>4, <1>5, <1>6, TroubledShape, TroubledOK, ResettingStep

(***************************************************************************)
(* Steps that change runs                                                  *)
(***************************************************************************)
\* Runs are interrupted, or their plans marked.
LEMMA RunsStep ==
  ASSUME IndInv, NEW p \in Procs, NEW new \in ProcRecords, Goto(p, new),
         runs' \in Seq(RunRecords), DOMAIN runs' = DOMAIN runs,
         \A r \in DOMAIN runs : /\ runs'[r].box = runs[r].box /\ runs'[r].base = runs[r].base
                                /\ \/ runs'[r].status = runs[r].status
                                   \/ runs[r].status = "RUNNING" /\ runs'[r].status = "INTERRUPTED",
         UNCHANGED <<rows, files>>, budget' \in BudgetRecords, ProcOK(p)',
         RunsNow(p)' => RunsNow(p) /\ proc'[p].row = proc[p].row
  PROVE  IndInv'
<1>1. /\ rows' = rows /\ boxes' = boxes /\ published' = published /\ trampled' = trampled
      /\ source' = source
  BY DEF files
<1>2. ProcRecords' = ProcRecords /\ RowRecords' = RowRecords /\ RunRecords' = RunRecords
      /\ BoxRecords' = BoxRecords
  BY <1>1, TypesStay
<1>3. proc' \in [Procs -> ProcRecords] /\ \A q \in Procs \ {p} : proc'[q] = proc[q]
  BY Changed DEF IndInv
<1>4. ShapeOK'
  BY <1>1, <1>2, <1>3 DEF IndInv, ShapeOK, BudgetRecords
<1>5. /\ \A i \in DOMAIN rows : rows[i] \in RowRecords
      /\ \A k \in DOMAIN published : published[k] \in DOMAIN runs
      /\ \A r \in DOMAIN runs : runs[r] \in RunRecords
  BY Shapes DEF IndInv
<1>6. \A i \in DOMAIN rows : /\ rows[i].manifest # 0 => rows[i].manifest \in DOMAIN runs
                             /\ rows[i].run # 0 => rows[i].run \in DOMAIN runs
  BY <1>5 DEF RowRecords, RunIds
<1>7. RowsOK'
  BY <1>1, <1>6 DEF IndInv, RowsOK
<1>8. VerifiedIsBound'
  BY <1>1, <1>6 DEF IndInv, VerifiedIsBound
<1>9. PublishedOK'
  BY <1>1, <1>5 DEF IndInv, PublishedOK
<1>10. AttemptOK'
  BY <1>1 DEF IndInv, AttemptOK, Restorable
<1>11. \A q \in Procs \ {p} : ProcOK(q)'
  BY <1>1, <1>3, <1>4, OthersOK DEF RowsMove, BoxesMove, PublishedMoves
<1>12. Sole'
  BY <1>3, SoleStays DEF IndInv
<1> QED BY <1>4, <1>7, <1>8, <1>9, <1>10, <1>11, <1>12 DEF IndInv

LEMMA StartStep ==
  ASSUME IndInv, NEW p \in Procs, Start(p)
  PROVE  IndInv'
<1> DEFINE todo == {r \in DOMAIN runs : runs[r].status = "RUNNING"}
                     \cup ({boxes[b].open : b \in DOMAIN boxes} \ {0})
           new == [Off EXCEPT !.pc = "recover", !.todo = todo]
<1>1. todo \in SUBSET DOMAIN runs
  BY Shapes DEF IndInv, BoxRecords, RunIds
<1>2. Goto(p, new) /\ runs' = Interrupted /\ UNCHANGED <<rows, files>>
  BY DEF Start
<1> HIDE DEF todo
<1>3. new \in ProcRecords /\ new.pc = "recover"
  BY <1>1, OffShape DEF ProcRecords, Places
<1> HIDE DEF new
<1>4. proc'[p] = new
  BY <1>2, <1>3, Changed DEF IndInv
<1>5. ProcOK(p)' /\ ~RunsNow(p)'
  BY <1>3, <1>4, OffOK
<1>6. runs \in Seq(RunRecords) /\ \A r \in DOMAIN runs : runs[r] \in RunRecords
  BY Shapes DEF IndInv, ShapeOK
<1>7. \A r \in DOMAIN runs :
        /\ runs'[r] \in RunRecords
        /\ runs'[r].box = runs[r].box /\ runs'[r].base = runs[r].base
        /\ \/ runs'[r].status = runs[r].status
           \/ runs[r].status = "RUNNING" /\ runs'[r].status = "INTERRUPTED"
  <2> SUFFICES ASSUME NEW r \in DOMAIN runs, runs'[r] = IF runs[r].status = "RUNNING"
                                      THEN [runs[r] EXCEPT !.status = "INTERRUPTED"] ELSE runs[r]
               PROVE  /\ runs'[r] \in RunRecords
                      /\ runs'[r].box = runs[r].box /\ runs'[r].base = runs[r].base
                      /\ \/ runs'[r].status = runs[r].status
                         \/ runs[r].status = "RUNNING" /\ runs'[r].status = "INTERRUPTED"
    BY <1>2 DEF Interrupted
  <2>1. runs[r] \in RunRecords
    BY <1>6
  <2>2. CASE runs[r].status = "RUNNING"
    <3>1. runs'[r] = [runs[r] EXCEPT !.status = "INTERRUPTED"]
      BY <2>2
    <3> QED BY <2>1, <2>2, <3>1 DEF RunRecords, RunStatuses
  <2>3. CASE runs[r].status # "RUNNING"
    BY <2>1, <2>3
  <2> QED BY <2>2, <2>3
<1>8. DOMAIN runs = 1 .. Len(runs) /\ Len(runs) \in Nat
  BY <1>6, LenProperties
<1>9. runs' = [r \in DOMAIN runs |-> runs'[r]]
  BY <1>2 DEF Interrupted
<1>10. runs' \in [1 .. Len(runs) -> RunRecords]
  BY <1>7, <1>8, <1>9
<1>11. runs' \in Seq(RunRecords) /\ DOMAIN runs' = DOMAIN runs
  BY <1>8, <1>10, SeqDef
<1>12. budget' \in BudgetRecords
  BY SpendShape DEF Start, IndInv, ShapeOK, BudgetRecords
<1> QED BY <1>2, <1>3, <1>5, <1>7, <1>11, <1>12, RunsStep

LEMMA PlanStoredStep ==
  ASSUME IndInv, NEW p \in Procs, PlanStored(p)
  PROVE  IndInv'
<1> DEFINE last == IF Live(p) THEN proc[p].run ELSE proc[p].last
           new == [proc[p] EXCEPT !.last = last]
           run == [Run(p) EXCEPT !.plan = "ACTIVE"]
<1>1. RunsNow(p) /\ Attached(p) /\ proc[p].pc = "loop"
  BY DEF PlanStored, RunsNow, Attached
<1>2. proc[p] \in ProcRecords /\ ProcOK(p) /\ Run(p) \in RunRecords /\ proc[p].run \in DOMAIN runs
  BY <1>1, BoxOfProc, RunOfProc
<1>3. run \in RunRecords /\ run.box = Run(p).box /\ run.base = Run(p).base /\ run.status = Run(p).status
  BY <1>2 DEF RunRecords
<1>4. last \in RunIds
  BY <1>2 DEF ProcRecords
<1>5. Goto(p, new) /\ runs' = [runs EXCEPT ![proc[p].run] = run]
      /\ UNCHANGED <<rows, files, budget>>
  <2>1. proc' = [proc EXCEPT ![p] = [proc[p] EXCEPT !.last = IF Live(p) THEN proc[p].run ELSE @]]
    BY DEF PlanStored, Goto
  <2>2. [proc[p] EXCEPT !.last = IF Live(p) THEN proc[p].run ELSE @] = new
    BY <1>2 DEF ProcRecords
  <2> QED BY <2>1, <2>2 DEF PlanStored, Goto, Run
<1> HIDE DEF last, run
<1>6. new \in ProcRecords
  BY <1>2, <1>4 DEF ProcRecords
<1>7. /\ new.pc = proc[p].pc /\ new.row = proc[p].row /\ new.box = proc[p].box
      /\ new.version = proc[p].version /\ new.status = proc[p].status
      /\ new.manifest = proc[p].manifest /\ new.run = proc[p].run
      /\ new.attempt = proc[p].attempt
  BY <1>2 DEF ProcRecords
<1> HIDE DEF new
<1>8. proc'[p] = new
  BY <1>5, <1>6, Changed DEF IndInv
<1>9. ProcOK(p)' /\ proc'[p].row = proc[p].row
  BY <1>1, <1>2, <1>5, <1>7, <1>8 DEF ProcOK, MemoryOK, WorkOK, LeftOK, BetweenOK, Between, RunsNow,
                                Attached, Row, Owns, Box, files
<1>10. runs \in Seq(RunRecords)
  BY DEF IndInv, ShapeOK
<1>11. runs' \in Seq(RunRecords) /\ DOMAIN runs' = DOMAIN runs
  BY <1>2, <1>3, <1>5, <1>10, SeqPut
<1>12. \A r \in DOMAIN runs : /\ runs'[r].box = runs[r].box /\ runs'[r].base = runs[r].base
                              /\ runs'[r].status = runs[r].status
  BY <1>2, <1>3, <1>5, <1>10 DEF Run
<1>13. budget' \in BudgetRecords
  BY <1>5 DEF IndInv, ShapeOK, BudgetRecords
<1> QED BY <1>1, <1>5, <1>6, <1>9, <1>11, <1>12, <1>13, RunsStep

(***************************************************************************)
(* Steps that write the row a process owns                                 *)
(***************************************************************************)
\* The row gets another version, and no other process is in a run of it.
WritesRow(p, row) ==
  /\ Owns(p) /\ rows' = [rows EXCEPT ![proc[p].row] = row]
  /\ row.version = Row(p).version + 1 /\ row.box = Row(p).box
  /\ RunsNow(p) \/ Row(p).status # "RUNNING"

LEMMA RowStep ==
  ASSUME IndInv, ShapeOK', NEW p \in Procs, Attached(p), NEW row, WritesRow(p, row),
         \A q \in Procs \ {p} : proc'[q] = proc[q], proc'[p].row = proc[p].row,
         UNCHANGED <<boxes, trampled>>, PublishedMoves
  PROVE  /\ \A q \in Procs \ {p} : ProcOK(q)' /\ (RunsNow(q) => proc[q].row # proc[p].row)
         /\ DOMAIN rows' = DOMAIN rows /\ rows'[proc[p].row] = row
         /\ \A i \in DOMAIN rows : i # proc[p].row => rows'[i] = rows[i]
         /\ Sole'
<1>1. /\ proc[p].row \in DOMAIN rows /\ Row(p) \in RowRecords
  BY BoxOfProc
<1>2. rows \in Seq(RowRecords) /\ rows' = [rows EXCEPT ![proc[p].row] = row]
  BY DEF IndInv, ShapeOK, WritesRow
<1>3. DOMAIN rows' = DOMAIN rows /\ rows'[proc[p].row] = row
      /\ \A i \in DOMAIN rows : i # proc[p].row => rows'[i] = rows[i]
  BY <1>1, <1>2
<1>4. \A q \in Procs \ {p} : RunsNow(q) => proc[q].row # proc[p].row
  <2> SUFFICES ASSUME NEW q \in Procs \ {p}, RunsNow(q), proc[q].row = proc[p].row
               PROVE  FALSE
    OBVIOUS
  <2>1. Row(p).status = "RUNNING"
    BY RunOfProc DEF Row
  <2>2. RunsNow(p)
    BY <2>1 DEF WritesRow
  <2> QED BY <2>2 DEF IndInv, Sole
<1>5. Row(p).version \in Nat
  BY <1>1 DEF RowRecords
<1>6. RowsMove(p)
  <2>1. \A i \in DOMAIN rows : rows'[i] # rows[i] => rows'[i].version > rows[i].version
    BY <1>1, <1>3, <1>5 DEF WritesRow, Row
  <2>2. \A q \in Procs \ {p} : RunsNow(q) => rows'[proc[q].row] = rows[proc[q].row]
    <3> SUFFICES ASSUME NEW q \in Procs \ {p}, RunsNow(q)
                 PROVE  rows'[proc[q].row] = rows[proc[q].row]
      OBVIOUS
    <3>1. proc[q].row \in DOMAIN rows
      BY BoxOfProc DEF Attached, RunsNow
    <3> QED BY <1>3, <1>4, <3>1
  <2> QED BY <1>3, <2>1, <2>2 DEF RowsMove
<1>7. \A q \in Procs \ {p} : ProcOK(q)'
  BY <1>6, OthersOK DEF BoxesMove
<1>8. Sole'
  BY <1>4, SoleStays DEF IndInv
<1> QED BY <1>3, <1>4, <1>7, <1>8

\* A row is a record of the types of before.
LEMMA RowShape ==
  ASSUME IndInv, NEW p \in Procs, Attached(p), NEW row \in RowRecords,
         rows' = [rows EXCEPT ![proc[p].row] = row]
  PROVE  rows' \in Seq(RowRecords) /\ DOMAIN rows' = DOMAIN rows
<1>1. rows \in Seq(RowRecords) /\ proc[p].row \in DOMAIN rows
  BY BoxOfProc DEF IndInv, ShapeOK
<1> QED BY <1>1, SeqPut

LEMMA ApplyStep ==
  ASSUME IndInv, NEW p \in Procs, Apply(p)
  PROVE  IndInv'
<1> DEFINE row == [Row(p) EXCEPT !.status = "APPLIED", !.version = Row(p).version + 1]
           told == IF proc[p].auto THEN proc[p].told ELSE "none"
           new == [proc[p] EXCEPT !.pc = "reset", !.stage = 1, !.why = "apply", !.left = <<"CLEAN">>,
                             !.status = "APPLIED", !.version = proc[p].version + 1, !.told = told]
           m == proc[p].manifest
<1>1. /\ Attached(p) /\ Owns(p) /\ Row(p).status = "DIRTY_VERIFIED" /\ Row(p).manifest = m /\ m # 0
      /\ proc[p].pc \in {"idle", "apply"} /\ published' = Append(published, m)
      /\ source' = source + 1 /\ UNCHANGED <<runs, boxes, trampled, budget>>
  BY DEF Apply, ApplyAsked, Appliable, Appliable_Anyway, Previewed, Attached
<1>2. /\ proc[p] \in ProcRecords /\ Row(p) \in RowRecords /\ ProcOK(p) /\ proc[p].row \in DOMAIN rows
      /\ proc[p].box = proc[p].row
  BY <1>1, BoxOfProc
<1>3. m \in DOMAIN runs
  BY <1>1, <1>2 DEF ProcRecords, RunIds
<1>4. row \in RowRecords /\ row.version = Row(p).version + 1 /\ row.status = "APPLIED"
      /\ row.run = Row(p).run /\ row.manifest = m /\ row.box = Row(p).box
  <2>1. Row(p).version \in Nat /\ Row(p).version + 1 \in Nat
    BY <1>2 DEF RowRecords
  <2> QED BY <1>1, <1>2, <2>1 DEF RowRecords, SessionStatuses
<1>5. Goto(p, new)
  BY <1>2 DEF Apply, ProcRecords
<1>6. told \in Answers /\ <<"CLEAN">> \in Seq(SessionStatuses) /\ proc[p].version + 1 \in Nat
  BY <1>2 DEF ProcRecords, Answers, SessionStatuses
<1> HIDE DEF told
<1>7. new \in ProcRecords
  BY <1>2, <1>6 DEF ProcRecords, Places, SessionStatuses
<1>8. /\ new.pc = "reset" /\ new.row = proc[p].row /\ new.box = proc[p].box
      /\ new.version = proc[p].version + 1 /\ new.status = "APPLIED" /\ new.manifest = m
      /\ new.left = <<"CLEAN">> /\ new.why = "apply" /\ new.stage = 1
  BY <1>2 DEF ProcRecords
<1>9. rows' = [rows EXCEPT ![proc[p].row] = row]
  <2>1. [[Row(p) EXCEPT !.status = "APPLIED"] EXCEPT !.version = Row(p).version + 1] = row
    BY <1>2 DEF RowRecords
  <2> QED BY <2>1 DEF Apply, Update
<1> HIDE DEF new, row
<1>10. rows' \in Seq(RowRecords) /\ DOMAIN rows' = DOMAIN rows
  BY <1>1, <1>4, <1>9, RowShape
<1>11. /\ proc' \in [Procs -> ProcRecords] /\ proc'[p] = new
       /\ \A q \in Procs \ {p} : proc'[q] = proc[q]
  BY <1>5, <1>7, Changed DEF IndInv
<1>12. published \in Seq(DOMAIN runs) /\ source \in Nat
  BY DEF IndInv, ShapeOK
<1>13. published' \in Seq(DOMAIN runs) /\ PublishedMoves /\ Len(published) + 1 \in DOMAIN published'
       /\ published'[Len(published) + 1] = m /\ DOMAIN published' = DOMAIN published \cup {Len(published) + 1}
  BY <1>1, <1>3, <1>12, SeqGrow DEF PublishedMoves
<1>14. ShapeOK'
  <2>1. ProcRecords' = ProcRecords /\ RowRecords' = RowRecords /\ RunRecords' = RunRecords
        /\ BoxRecords' = BoxRecords
    BY <1>1, <1>10, TypesStay
  <2> QED BY <1>1, <1>10, <1>11, <1>12, <1>13, <2>1 DEF IndInv, ShapeOK, BudgetRecords
<1>15. WritesRow(p, row)
  BY <1>1, <1>4, <1>9 DEF WritesRow
<1>16. proc'[p].row = proc[p].row
  BY <1>8, <1>11
<1>17. /\ \A q \in Procs \ {p} : ProcOK(q)'
       /\ rows'[proc[p].row] = row
       /\ \A i \in DOMAIN rows : i # proc[p].row => rows'[i] = rows[i]
       /\ Sole'
  BY <1>1, <1>11, <1>13, <1>14, <1>15, <1>16, RowStep
<1>18. /\ rows[proc[p].row].status = "DIRTY_VERIFIED" /\ rows[proc[p].row].manifest = m
       /\ rows[proc[p].row].run = row.run /\ rows[proc[p].row].box = row.box
  BY <1>1, <1>4 DEF Row
<1>19. RowsOK'
  <2>1. RowsOK /\ row.status = "APPLIED" /\ DOMAIN boxes' = DOMAIN rows' /\ runs' = runs
    BY <1>1, <1>4, <1>10 DEF IndInv, RowsOK
  <2>2. rows[proc[p].row].status # "RUNNING" /\ rows[proc[p].row].run = 0
    BY <1>2, <1>18, <2>1 DEF RowsOK
  <2>3. rows'[proc[p].row].run = 0 /\ rows'[proc[p].row].status = "APPLIED"
        /\ rows'[proc[p].row].manifest = rows[proc[p].row].manifest
        /\ rows'[proc[p].row].box = rows[proc[p].row].box
    BY <1>4, <1>17, <1>18, <2>2
  <2>4. \A i \in DOMAIN rows : /\ rows'[i].run = rows[i].run /\ rows'[i].box = rows[i].box
                               /\ rows'[i].manifest = rows[i].manifest
                               /\ rows'[i].status = "RUNNING" <=> rows[i].status = "RUNNING"
    BY <1>2, <1>17, <2>2, <2>3
  <2>5. \A r \in DOMAIN runs : runs[r].box \in DOMAIN rows
    BY <2>1, Shapes DEF IndInv, RunRecords, RowsOK
  <2> QED BY <1>10, <2>1, <2>4, <2>5 DEF RowsOK
<1>20. VerifiedIsBound'
  BY <1>1, <1>2, <1>4, <1>10, <1>17, <1>18 DEF IndInv, VerifiedIsBound
<1>21. PublishedOK'
  <2>1. runs[m].status = "DONE" /\ runs[m].box = proc[p].row
    BY <1>1, <1>2, <1>18 DEF IndInv, VerifiedIsBound, RowsOK
  <2>2. \A i \in DOMAIN rows : i # proc[p].row /\ rows[i].status = "DIRTY_VERIFIED" => rows[i].manifest # m
    BY <1>1, <2>1 DEF IndInv, RowsOK
  <2>3. PublishedOK /\ row.status = "APPLIED" /\ runs' = runs
    BY <1>1, <1>4 DEF IndInv
  <2>4. \A i \in DOMAIN rows' : rows'[i].status = "DIRTY_VERIFIED" =>
          rows[i].status = "DIRTY_VERIFIED" /\ rows'[i].manifest = rows[i].manifest /\ i # proc[p].row
    BY <1>10, <1>17, <2>3
  <2>5. \A k \in DOMAIN published' : published'[k] = m \/ (k \in DOMAIN published /\ published'[k] = published[k])
    BY <1>13 DEF PublishedMoves
  <2> QED BY <1>10, <2>1, <2>2, <2>3, <2>4, <2>5 DEF PublishedOK
<1>22. AttemptOK'
  BY <1>1, <1>2, <1>4, <1>17, <1>18 DEF IndInv, AttemptOK, Restorable, RowsOK
<1>23. ProcOK(p)'
  <2>1. Row(p)' = row
    BY <1>16, <1>17 DEF Row
  <2>2. MemoryOK(p)'
    BY <1>1, <1>2, <1>4, <1>8, <1>10, <1>11, <2>1 DEF MemoryOK, Owns, RowRecords
  <2>3. LeftOK(p)'
    BY <1>8, <1>11, <1>13 DEF LeftOK, Leavings
  <2> QED BY <1>8, <1>11, <2>2, <2>3 DEF ProcOK, WorkOK, BetweenOK, Between, RunsNow
<1> QED BY <1>14, <1>17, <1>19, <1>20, <1>21, <1>22, <1>23 DEF IndInv

LEMMA ClaimStep ==
  ASSUME IndInv, NEW p \in Procs, Claim(p)
  PROVE  IndInv'
<1> DEFINE r   == Len(runs) + 1
           run == [status |-> "RUNNING", box |-> proc[p].box, base |-> Gone, plan |-> "none"]
           row == [[Row(p) EXCEPT !.status = "RUNNING", !.run = r] EXCEPT !.version = Row(p).version + 1]
           new == [proc[p] EXCEPT !.pc = "start", !.run = r, !.status = "RUNNING",
                                  !.version = proc[p].version + 1, !.told = "none"]
<1>1. /\ Attached(p) /\ Owns(p) /\ Row(p).status = "CLEAN" /\ proc[p].pc = "idle"
      /\ runs' = Append(runs, run) /\ rows' = [rows EXCEPT ![proc[p].row] = row]
      /\ UNCHANGED <<boxes, source, published, trampled, budget>>
  BY DEF Claim, Claimable, Attached, Update, files
<1>2. /\ proc[p] \in ProcRecords /\ Row(p) \in RowRecords /\ ProcOK(p) /\ proc[p].row \in DOMAIN rows
      /\ proc[p].box = proc[p].row /\ proc[p].box \in DOMAIN boxes /\ Box(p) \in BoxRecords
  BY <1>1, BoxOfProc
<1>3. /\ run \in RunRecords /\ run.status = "RUNNING" /\ run.box = proc[p].row
  BY <1>2 DEF RunRecords, RunStatuses, Versions, Gone
<1>4. runs \in Seq(RunRecords) /\ rows \in Seq(RowRecords) /\ boxes \in Seq(BoxRecords)
      /\ proc \in [Procs -> ProcRecords] /\ published \in Seq(DOMAIN runs)
  BY DEF IndInv, ShapeOK
<1> HIDE DEF run
<1>5. /\ runs' \in Seq(RunRecords) /\ DOMAIN runs' = DOMAIN runs \cup {r} /\ runs'[r] = run
      /\ \A q \in DOMAIN runs : runs'[q] = runs[q]
      /\ r \notin DOMAIN runs /\ r \in Nat /\ r # 0
  BY <1>1, <1>3, <1>4, SeqGrow, LenProperties
<1>6. Goto(p, new)
  BY <1>2 DEF Claim, ProcRecords
<1> HIDE DEF r
<1>7. r \in RunIds' /\ RunIds \subseteq RunIds'
  BY <1>5 DEF RunIds
<1>8. DOMAIN rows' = DOMAIN rows
  BY <1>1
<1>9. /\ RowRecords \subseteq RowRecords' /\ RunRecords \subseteq RunRecords'
      /\ BoxRecords \subseteq BoxRecords' /\ ProcRecords \subseteq ProcRecords'
  BY <1>1, <1>5, <1>8, TypesGrow
<1>10. proc[p] \in ProcRecords' /\ Row(p) \in RowRecords' /\ proc[p].version + 1 \in Nat
       /\ Row(p).version + 1 \in Nat
  BY <1>2, <1>9 DEF ProcRecords, RowRecords
<1>11. row \in RowRecords'
  BY <1>7, <1>10 DEF RowRecords, SessionStatuses
<1>12. row.status = "RUNNING" /\ row.run = r /\ row.version = Row(p).version + 1
       /\ row.box = Row(p).box /\ row.manifest = Row(p).manifest
  BY <1>2 DEF RowRecords
<1>13. new \in ProcRecords'
  <2>1. "RUNNING" \in SessionStatuses /\ "start" \in Places /\ "none" \in Answers
    BY DEF SessionStatuses, Places, Answers
  <2> QED BY <1>7, <1>10, <2>1 DEF ProcRecords
<1>14. /\ new.pc = "start" /\ new.row = proc[p].row /\ new.box = proc[p].box /\ new.run = r
       /\ new.version = proc[p].version + 1 /\ new.status = "RUNNING" /\ new.manifest = proc[p].manifest
  BY <1>2 DEF ProcRecords
<1> HIDE DEF new, row
<1>15. rows' \in Seq(RowRecords')
  BY <1>1, <1>2, <1>4, <1>9, <1>11, SeqMonotonic, SeqPut
<1>16. /\ proc' \in [Procs -> ProcRecords'] /\ proc'[p] = new
       /\ \A q \in Procs \ {p} : proc'[q] = proc[q]
  <2>1. proc \in [Procs -> ProcRecords']
    BY <1>4, <1>9
  <2> QED BY <1>6, <1>13, <2>1, GotoShape
<1>17. ShapeOK'
  <2>1. runs' \in Seq(RunRecords') /\ boxes' \in Seq(BoxRecords') /\ published' \in Seq(DOMAIN runs')
    BY <1>1, <1>4, <1>5, <1>9, SeqMonotonic
  <2> QED BY <1>1, <1>15, <1>16, <2>1 DEF IndInv, ShapeOK, BudgetRecords
<1>18. WritesRow(p, row)
  BY <1>1, <1>12 DEF WritesRow
<1>19. proc'[p].row = proc[p].row
  BY <1>14, <1>16
<1>20. /\ \A q \in Procs \ {p} : ProcOK(q)'
       /\ rows'[proc[p].row] = row
       /\ \A i \in DOMAIN rows : i # proc[p].row => rows'[i] = rows[i]
       /\ Sole'
  BY <1>1, <1>16, <1>17, <1>18, <1>19, RowStep DEF PublishedMoves
<1>21. /\ rows[proc[p].row].status = "CLEAN" /\ rows[proc[p].row].run = 0
       /\ rows[proc[p].row].manifest = row.manifest /\ rows[proc[p].row].box = row.box
  BY <1>1, <1>2, <1>12 DEF Row, IndInv, RowsOK
<1>22. /\ \A i \in DOMAIN rows : rows[i] \in RowRecords
       /\ \A k \in DOMAIN published : published[k] \in DOMAIN runs
       /\ \A q \in DOMAIN runs : runs[q] \in RunRecords
  BY Shapes DEF IndInv
<1>23. /\ \A i \in DOMAIN rows : /\ rows[i].manifest # 0 => rows[i].manifest \in DOMAIN runs
                                 /\ rows[i].run # 0 => rows[i].run \in DOMAIN runs
       /\ \A q \in DOMAIN runs : runs[q].box \in DOMAIN boxes
  BY <1>22 DEF RowRecords, RunRecords, RunIds
<1>24. RowsOK'
  <2>1. RowsOK
    BY DEF IndInv
  <2>2. \A i \in DOMAIN rows :
          /\ rows'[i].box = i
          /\ rows'[i].status = "RUNNING" <=> rows'[i].run # 0
          /\ rows'[i].run # 0      => runs'[rows'[i].run].box = i
          /\ rows'[i].manifest # 0 => runs'[rows'[i].manifest].box = i
    <3> SUFFICES ASSUME NEW i \in DOMAIN rows
                 PROVE  /\ rows'[i].box = i
                        /\ rows'[i].status = "RUNNING" <=> rows'[i].run # 0
                        /\ rows'[i].run # 0      => runs'[rows'[i].run].box = i
                        /\ rows'[i].manifest # 0 => runs'[rows'[i].manifest].box = i
      OBVIOUS
    <3>1. CASE i = proc[p].row
      BY <1>3, <1>5, <1>12, <1>20, <1>21, <1>23, <2>1, <3>1 DEF RowsOK
    <3>2. CASE i # proc[p].row
      BY <1>5, <1>20, <1>23, <2>1, <3>2 DEF RowsOK
    <3> QED BY <3>1, <3>2
  <2>3. \A q \in DOMAIN runs' : runs'[q].status = "RUNNING" => rows'[runs'[q].box].run = q
    <3> SUFFICES ASSUME NEW q \in DOMAIN runs', runs'[q].status = "RUNNING"
                 PROVE  rows'[runs'[q].box].run = q
      OBVIOUS
    <3>1. CASE q = r
      BY <1>3, <1>5, <1>12, <1>20, <3>1
    <3>2. CASE q \in DOMAIN runs
      <4>1. rows[runs[q].box].run = q /\ q # 0 /\ runs'[q] = runs[q] /\ runs[q].box \in DOMAIN rows
        BY <1>5, <1>23, <2>1, <3>2, Shapes DEF RowsOK, IndInv
      <4> QED BY <1>20, <1>21, <4>1
    <3> QED BY <1>5, <3>1, <3>2
  <2> QED BY <1>1, <1>8, <2>1, <2>2, <2>3 DEF RowsOK
<1>25. VerifiedIsBound'
  <2>1. \A i \in DOMAIN rows : rows'[i].status = "DIRTY_VERIFIED" => rows'[i] = rows[i]
    BY <1>12, <1>20
  <2> QED BY <1>5, <1>8, <1>23, <2>1 DEF IndInv, VerifiedIsBound
<1>26. PublishedOK'
  <2>1. \A i \in DOMAIN rows : rows'[i].status = "DIRTY_VERIFIED" => rows'[i] = rows[i]
    BY <1>12, <1>20
  <2> QED BY <1>1, <1>5, <1>8, <1>22, <2>1 DEF IndInv, PublishedOK
<1>27. ~trampled => boxes[proc[p].row].open = 0
  BY <1>2, <1>21 DEF IndInv, AttemptOK
<1>28. AttemptOK'
  BY <1>1, <1>8, <1>20, <1>27 DEF IndInv, AttemptOK, Restorable, RowsOK
<1>29. ProcOK(p)'
  <2>1. Row(p)' = row
    BY <1>19, <1>20 DEF Row
  <2>2. MemoryOK(p)'
    BY <1>1, <1>2, <1>8, <1>12, <1>14, <1>16, <2>1 DEF ProcOK, MemoryOK, Owns, RowRecords
  <2>3. WorkOK(p)'
    BY <1>1, <1>12, <1>14, <1>16, <2>1 DEF WorkOK, Owns
  <2>4. BetweenOK(p)'
    BY <1>1, <1>2, <1>14, <1>16, <1>27 DEF BetweenOK, Box
  <2> QED BY <1>14, <1>16, <2>2, <2>3, <2>4 DEF ProcOK, LeftOK
<1> QED BY <1>17, <1>20, <1>24, <1>25, <1>26, <1>28, <1>29 DEF IndInv

LEMMA SaveStep ==
  ASSUME IndInv, NEW p \in Procs, Save(p)
  PROVE  IndInv'
<1> DEFINE status   == Head(proc[p].left)
           last     == Len(proc[p].left) = 1
           manifest == IF last THEN 0 ELSE proc[p].manifest
           run      == IF last /\ proc[p].why = "discard" THEN 0 ELSE Row(p).run
           row == [[Row(p) EXCEPT !.status = status, !.manifest = manifest, !.run = run]
                     EXCEPT !.version = Row(p).version + 1]
           why == IF last THEN "none" ELSE proc[p].why
           told == IF last THEN SavedAnswer(p) ELSE proc[p].told
           auto == proc[p].auto /\ ~last
           pc == IF last THEN "idle" ELSE "save"
           half == [proc[p] EXCEPT !.pc = pc, !.status = status, !.version = proc[p].version + 1,
                                   !.manifest = manifest]
           new == [half EXCEPT !.left = Tail(proc[p].left), !.why = why, !.auto = auto, !.told = told]
<1>1. /\ Attached(p) /\ Owns(p) /\ proc[p].pc = "save"
      /\ UNCHANGED <<runs, boxes, source, published, trampled, budget>>
  BY DEF Save, Attached, files
<1>2. /\ proc[p] \in ProcRecords /\ Row(p) \in RowRecords /\ ProcOK(p) /\ proc[p].row \in DOMAIN rows
      /\ proc[p].box = proc[p].row
  BY <1>1, BoxOfProc
<1>3. /\ <<proc[p].status, proc[p].left>> \in Leavings
      /\ proc[p].why \in {"startup", "apply", "discard"}
      /\ proc[p].why # "discard" => proc[p].left = <<"CLEAN">>
  BY <1>1, <1>2 DEF ProcOK, LeftOK
<1>4. /\ proc[p].status = Row(p).status /\ proc[p].manifest = Row(p).manifest
      /\ Row(p).status # "RUNNING"
  BY <1>1, <1>2, <1>3 DEF ProcOK, MemoryOK, Leavings
<1>5. /\ status \in {"CLEAN", "DISCARDED"} /\ Tail(proc[p].left) \in Seq(SessionStatuses)
      /\ ~last => <<status, Tail(proc[p].left)>> \in Leavings /\ proc[p].why = "discard"
  <2>1. \/ proc[p].left = <<"CLEAN">> \/ proc[p].left = <<"CLEAN", "DISCARDED", "CLEAN">>
        \/ proc[p].left = <<"DISCARDED", "CLEAN">>
    BY <1>3 DEF Leavings
  <2>2. "CLEAN" \in SessionStatuses /\ "DISCARDED" \in SessionStatuses
    BY DEF SessionStatuses
  <2>3. CASE proc[p].left = <<"CLEAN">>
    <3>1. last /\ status = "CLEAN" /\ Tail(proc[p].left) = <<>>
      BY <2>3
    <3> QED BY <3>1, EmptySeq
  <2>4. CASE proc[p].left = <<"CLEAN", "DISCARDED", "CLEAN">>
    <3>1. ~last /\ status = "CLEAN" /\ Tail(proc[p].left) = <<"DISCARDED", "CLEAN">>
          /\ proc[p].why = "discard"
      BY <1>3, <2>4
    <3>2. <<"DISCARDED", "CLEAN">> \in Seq(SessionStatuses)
      BY <2>2
    <3>3. <<"CLEAN", <<"DISCARDED", "CLEAN">>>> \in Leavings
      BY DEF Leavings
    <3> HIDE DEF last, status
    <3> QED BY <3>1, <3>2, <3>3
  <2>5. CASE proc[p].left = <<"DISCARDED", "CLEAN">>
    <3>1. ~last /\ status = "DISCARDED" /\ Tail(proc[p].left) = <<"CLEAN">>
          /\ proc[p].why = "discard"
      BY <1>3, <2>5
    <3>2. <<"CLEAN">> \in Seq(SessionStatuses)
      BY <2>2
    <3>3. <<"DISCARDED", <<"CLEAN">>>> \in Leavings
      BY DEF Leavings
    <3> HIDE DEF last, status
    <3> QED BY <3>1, <3>2, <3>3
  <2> QED BY <2>1, <2>3, <2>4, <2>5
<1>6. Row(p).run = 0 /\ run = 0
  BY <1>2, <1>4 DEF IndInv, RowsOK, Row
<1>7. manifest \in RunIds /\ manifest \in {0, Row(p).manifest}
  BY <1>2, <1>4 DEF ProcRecords, RunIds
<1>8. rows' = [rows EXCEPT ![proc[p].row] = row]
  BY <1>2 DEF Save, Update, RowRecords
<1>9. Goto(p, new)
  BY <1>1, <1>2 DEF Save, ProcRecords
<1>10. told \in Answers /\ why \in {"none", "startup", "apply", "discard"} /\ auto \in BOOLEAN
       /\ pc \in Places
  BY <1>2 DEF ProcRecords, SavedAnswer, Answers, Places
<1>11. last => pc = "idle"
  OBVIOUS
<1>12. ~last => pc = "save" /\ why = proc[p].why
  OBVIOUS
<1>13. Row(p).version + 1 \in Nat /\ proc[p].version + 1 \in Nat
  BY <1>2 DEF RowRecords, ProcRecords
<1>14. /\ half.pc = pc /\ half.row = proc[p].row /\ half.box = proc[p].box
       /\ half.status = status /\ half.version = proc[p].version + 1 /\ half.manifest = manifest
  BY <1>2 DEF ProcRecords
<1> HIDE DEF status, last, manifest, run, why, told, auto, pc
<1>15. status \in SessionStatuses
  BY <1>5 DEF SessionStatuses
<1>16. row \in RowRecords
  BY <1>2, <1>6, <1>7, <1>13, <1>15 DEF RowRecords, RunIds
<1>17. row.status = status /\ row.run = 0 /\ row.manifest = manifest /\ row.box = Row(p).box
       /\ row.version = Row(p).version + 1
  BY <1>2, <1>6 DEF RowRecords
<1>18. half \in ProcRecords
  BY <1>2, <1>7, <1>10, <1>13, <1>15 DEF ProcRecords
<1> HIDE DEF half, row
<1>19. new \in ProcRecords
  BY <1>5, <1>10, <1>18 DEF ProcRecords
<1>20. /\ new.pc = pc /\ new.row = proc[p].row /\ new.box = proc[p].box
       /\ new.status = status /\ new.version = proc[p].version + 1 /\ new.manifest = manifest
       /\ new.left = Tail(proc[p].left) /\ new.why = why
  BY <1>14, <1>18 DEF ProcRecords
<1> HIDE DEF new
<1>21. rows' \in Seq(RowRecords) /\ DOMAIN rows' = DOMAIN rows
  BY <1>1, <1>8, <1>16, RowShape
<1>22. /\ proc' \in [Procs -> ProcRecords] /\ proc'[p] = new
       /\ \A q \in Procs \ {p} : proc'[q] = proc[q]
  BY <1>9, <1>19, Changed DEF IndInv
<1>23. ShapeOK'
  <2>1. ProcRecords' = ProcRecords /\ RowRecords' = RowRecords /\ RunRecords' = RunRecords
        /\ BoxRecords' = BoxRecords
    BY <1>1, <1>21, TypesStay
  <2> QED BY <1>1, <1>21, <1>22, <2>1 DEF IndInv, ShapeOK, BudgetRecords
<1>24. WritesRow(p, row)
  BY <1>1, <1>4, <1>8, <1>17 DEF WritesRow
<1>25. proc'[p].row = proc[p].row
  BY <1>20, <1>22
<1>26. /\ \A q \in Procs \ {p} : ProcOK(q)'
       /\ rows'[proc[p].row] = row
       /\ \A i \in DOMAIN rows : i # proc[p].row => rows'[i] = rows[i]
       /\ Sole'
  BY <1>1, <1>22, <1>23, <1>24, <1>25, RowStep DEF PublishedMoves
<1>27. /\ rows[proc[p].row].run = 0 /\ rows[proc[p].row].status # "RUNNING"
       /\ rows[proc[p].row].box = row.box /\ row.manifest \in {0, rows[proc[p].row].manifest}
  BY <1>4, <1>6, <1>7, <1>17 DEF Row
<1>28. row.status # "RUNNING" /\ row.status # "DIRTY_VERIFIED"
  BY <1>5, <1>17
<1>29. RowsOK'
  <2>1. RowsOK
    BY DEF IndInv
  <2>2. \A i \in DOMAIN rows :
          /\ rows'[i].box = rows[i].box /\ rows'[i].run = rows[i].run
          /\ rows'[i].status = "RUNNING" <=> rows[i].status = "RUNNING"
          /\ rows'[i].manifest \in {0, rows[i].manifest}
    BY <1>17, <1>26, <1>27, <1>28
  <2>3. \A r \in DOMAIN runs : runs[r].box \in DOMAIN rows
    BY <2>1, Shapes DEF IndInv, RunRecords, RowsOK
  <2> QED BY <1>1, <1>21, <2>1, <2>2, <2>3 DEF RowsOK
<1>30. \A i \in DOMAIN rows : rows'[i].status = "DIRTY_VERIFIED" => rows'[i] = rows[i]
  BY <1>26, <1>28
<1>31. VerifiedIsBound' /\ PublishedOK'
  BY <1>1, <1>21, <1>30 DEF IndInv, VerifiedIsBound, PublishedOK
<1>32. AttemptOK'
  BY <1>1, <1>17, <1>21, <1>26, <1>27 DEF IndInv, AttemptOK, Restorable, RowsOK
<1>33. ProcOK(p)'
  <2>1. Row(p)' = row
    BY <1>25, <1>26 DEF Row
  <2>2. MemoryOK(p)'
    BY <1>1, <1>2, <1>13, <1>17, <1>20, <1>21, <1>22, <2>1 DEF ProcOK, MemoryOK, Owns
  <2>3. LeftOK(p)'
    BY <1>3, <1>5, <1>11, <1>12, <1>20, <1>22 DEF LeftOK
  <2>4. pc \in {"idle", "save"}
    BY <1>11, <1>12
  <2> QED BY <1>20, <1>22, <2>2, <2>3, <2>4 DEF ProcOK, WorkOK, BetweenOK, Between, RunsNow
<1> QED BY <1>23, <1>26, <1>29, <1>31, <1>32, <1>33 DEF IndInv

\* What the end of a run writes of it.
LEMMA FinishedRuns ==
  ASSUME IndInv, NEW p \in Procs, Finish(p)
  PROVE  LET r == proc[p].run IN
         /\ runs' \in Seq(RunRecords) /\ DOMAIN runs' = DOMAIN runs
         /\ \A q \in DOMAIN runs : /\ runs'[q].box = runs[q].box
                                   /\ q # r => runs'[q].status = runs[q].status /\ runs'[q].base = runs[q].base
         /\ runs'[r].status = proc[p].outcome
         /\ StatusAfterRun(p) = "DIRTY_VERIFIED" => runs'[r].base = Box(p).base
<1> DEFINE r == proc[p].run
           base == IF StatusAfterRun(p) = "DIRTY_VERIFIED" THEN Box(p).base ELSE Run(p).base
           run == [[Run(p) EXCEPT !.status = proc[p].outcome] EXCEPT !.base = base]
           ended == [runs EXCEPT ![r].status = proc[p].outcome,
                        ![r].base = IF StatusAfterRun(p) = "DIRTY_VERIFIED" THEN Box(p).base ELSE @]
           f == proc[p].final
           plan == PlanAfter(p)
<1>1. RunsNow(p) /\ Attached(p) /\ proc[p].pc = "finish"
  BY DEF Finish, RunsNow, Attached
<1>2. /\ proc[p] \in ProcRecords /\ ProcOK(p) /\ Run(p) \in RunRecords /\ r \in DOMAIN runs
      /\ Box(p) \in BoxRecords
  BY <1>1, BoxOfProc, RunOfProc
<1>3. proc[p].outcome \in {"DONE", "FAILED", "INTERRUPTED"}
  BY <1>1, <1>2 DEF ProcRecords, ProcOK, WorkOK, RunsNow
<1>4. runs \in Seq(RunRecords) /\ \A q \in DOMAIN runs : runs[q] \in RunRecords
  BY Shapes DEF IndInv, ShapeOK
<1>5. run \in RunRecords /\ run.box = Run(p).box /\ run.status = proc[p].outcome /\ run.base = base
  BY <1>2, <1>3 DEF RunRecords, RunStatuses, BoxRecords
<1>6. ended = [runs EXCEPT ![r] = run]
  BY <1>2, <1>4 DEF Run, RunRecords
<1>7. runs' = IF f = 0 THEN ended ELSE [ended EXCEPT ![f].plan = plan]
  BY DEF Finish
<1>8. f \in RunIds /\ plan \in {"none", "ACTIVE", "DONE", "FAILED"}
  BY <1>2 DEF ProcRecords, PlanAfter
<1>9. StatusAfterRun(p) = "DIRTY_VERIFIED" => base = Box(p).base
  OBVIOUS
<1> HIDE DEF run, ended, plan, base
<1>10. /\ ended \in Seq(RunRecords) /\ DOMAIN ended = DOMAIN runs /\ ended[r] = run
       /\ \A q \in DOMAIN runs : q # r => ended[q] = runs[q]
  BY <1>2, <1>4, <1>5, <1>6, SeqPut
<1>11. /\ runs' \in Seq(RunRecords) /\ DOMAIN runs' = DOMAIN runs
       /\ \A q \in DOMAIN runs : /\ runs'[q].box = ended[q].box /\ runs'[q].status = ended[q].status
                                 /\ runs'[q].base = ended[q].base
  <2>1. CASE f = 0
    BY <1>7, <1>10, <2>1
  <2>2. CASE f # 0
    <3> DEFINE planned == [ended[f] EXCEPT !.plan = plan]
    <3>1. f \in DOMAIN ended /\ ended[f] \in RunRecords
      BY <1>4, <1>5, <1>8, <1>10, <2>2 DEF RunIds
    <3>2. planned \in RunRecords /\ planned.box = ended[f].box /\ planned.status = ended[f].status
          /\ planned.base = ended[f].base
      BY <1>8, <3>1 DEF RunRecords
    <3>3. runs' = [ended EXCEPT ![f] = planned]
      BY <1>7, <2>2
    <3> HIDE DEF planned
    <3>4. runs' \in Seq(RunRecords) /\ DOMAIN runs' = DOMAIN runs
      BY <1>10, <3>1, <3>2, <3>3, SeqPut
    <3>5. runs'[f] = planned /\ \A q \in DOMAIN runs : q # f => runs'[q] = ended[q]
      BY <1>10, <3>1, <3>3
    <3> QED BY <3>2, <3>4, <3>5
  <2> QED BY <2>1, <2>2
<1> QED BY <1>2, <1>5, <1>9, <1>10, <1>11 DEF Run

LEMMA FinishStep ==
  ASSUME IndInv, NEW p \in Procs, Finish(p)
  PROVE  IndInv'
<1> DEFINE r == proc[p].run
           status == StatusAfterRun(p)
           manifest == IF status = "DIRTY_VERIFIED" THEN r ELSE Row(p).manifest
           row == [[Row(p) EXCEPT !.status = status, !.run = 0, !.manifest = manifest]
                     EXCEPT !.version = Row(p).version + 1]
<1>1. /\ Attached(p) /\ RunsNow(p) /\ proc[p].pc = "finish" /\ Live(p) /\ Owns(p)
      /\ Row(p).status = "RUNNING" /\ Whole(proc[p].box)
      /\ UNCHANGED <<boxes, source, published, trampled, budget>>
  BY DEF Finish, Finishable, Attached, RunsNow, files
<1>2. /\ proc[p] \in ProcRecords /\ Row(p) \in RowRecords /\ ProcOK(p) /\ proc[p].row \in DOMAIN rows
      /\ proc[p].box = proc[p].row
  BY <1>1, BoxOfProc
<1>3. r \in DOMAIN runs /\ runs[r].box = proc[p].row /\ Row(p).run = r /\ r # 0
      /\ runs[r].status = "RUNNING"
  BY <1>1, <1>2, RunOfProc DEF Run, Live
<1>4. PICK auto \in BOOLEAN :
        Goto(p, [proc[p] EXCEPT
                !.pc = IF auto THEN "apply" ELSE "idle", !.auto = auto, !.told = Result(p),
                !.status = status, !.version = @ + 1, !.manifest = manifest, !.run = 0,
                !.outcome = "none", !.final = 0])
  BY DEF Finish
<1> DEFINE pc == IF auto THEN "apply" ELSE "idle"
           told == Result(p)
           half == [proc[p] EXCEPT !.pc = pc, !.auto = auto, !.told = told, !.status = status]
           new == [half EXCEPT !.version = proc[p].version + 1, !.manifest = manifest, !.run = 0,
                               !.outcome = "none", !.final = 0]
<1>5. Goto(p, new)
  BY <1>2, <1>4 DEF ProcRecords
<1>6. rows' = [rows EXCEPT ![proc[p].row] = row]
  BY <1>2 DEF Finish, Update, RowRecords
<1>7. /\ status \in {"CLEAN", "DIRTY_VERIFIED", "DIRTY_FAILED"}
      /\ status = "DIRTY_VERIFIED" => proc[p].outcome = "DONE" /\ manifest = r
      /\ status # "DIRTY_VERIFIED" => manifest = Row(p).manifest
  BY DEF StatusAfterRun
<1>8. pc \in Places /\ pc \in {"apply", "idle"} /\ told \in Answers
  BY DEF Places, Result, Answers
<1>9. manifest \in RunIds /\ 0 \in RunIds
  BY <1>2, <1>3 DEF RowRecords, RunIds
<1>10. Row(p).version + 1 \in Nat /\ proc[p].version + 1 \in Nat
  BY <1>2 DEF RowRecords, ProcRecords
<1>11. status \in SessionStatuses
  BY <1>7 DEF SessionStatuses
<1>12. /\ half.row = proc[p].row /\ half.box = proc[p].box /\ half.pc = pc /\ half.status = status
  BY <1>2 DEF ProcRecords
<1> HIDE DEF status, manifest, pc, told
<1>13. row \in RowRecords
  BY <1>2, <1>9, <1>10, <1>11 DEF RowRecords
<1>14. row.status = status /\ row.run = 0 /\ row.manifest = manifest /\ row.box = Row(p).box
       /\ row.version = Row(p).version + 1
  BY <1>2 DEF RowRecords
<1>15. half \in ProcRecords
  BY <1>2, <1>8, <1>11 DEF ProcRecords
<1> HIDE DEF half, row
<1>16. new \in ProcRecords
  BY <1>9, <1>10, <1>15 DEF ProcRecords
<1>17. /\ new.pc = pc /\ new.row = proc[p].row /\ new.box = proc[p].box
       /\ new.status = status /\ new.version = proc[p].version + 1 /\ new.manifest = manifest
  BY <1>12, <1>15 DEF ProcRecords
<1> HIDE DEF new
<1>18. rows' \in Seq(RowRecords) /\ DOMAIN rows' = DOMAIN rows
  BY <1>1, <1>6, <1>13, RowShape
<1>19. /\ proc' \in [Procs -> ProcRecords] /\ proc'[p] = new
       /\ \A q \in Procs \ {p} : proc'[q] = proc[q]
  BY <1>5, <1>16, Changed DEF IndInv
<1>20. /\ runs' \in Seq(RunRecords) /\ DOMAIN runs' = DOMAIN runs
       /\ \A q \in DOMAIN runs : /\ runs'[q].box = runs[q].box
                                 /\ q # r => runs'[q].status = runs[q].status /\ runs'[q].base = runs[q].base
       /\ runs'[r].status = proc[p].outcome
       /\ status = "DIRTY_VERIFIED" => runs'[r].base = Box(p).base
  BY FinishedRuns DEF status
<1>21. ShapeOK'
  <2>1. ProcRecords' = ProcRecords /\ RowRecords' = RowRecords /\ RunRecords' = RunRecords
        /\ BoxRecords' = BoxRecords
    BY <1>1, <1>18, <1>20, TypesStay
  <2> QED BY <1>1, <1>18, <1>19, <1>20, <2>1 DEF IndInv, ShapeOK, BudgetRecords
<1>22. WritesRow(p, row)
  BY <1>1, <1>6, <1>14 DEF WritesRow
<1>23. proc'[p].row = proc[p].row
  BY <1>17, <1>19
<1>24. /\ \A q \in Procs \ {p} : ProcOK(q)'
       /\ rows'[proc[p].row] = row
       /\ \A i \in DOMAIN rows : i # proc[p].row => rows'[i] = rows[i]
       /\ Sole'
  BY <1>1, <1>19, <1>21, <1>22, <1>23, RowStep DEF PublishedMoves
<1>25. /\ \A i \in DOMAIN rows : rows[i] \in RowRecords
       /\ \A k \in DOMAIN published : published[k] \in DOMAIN runs
       /\ \A q \in DOMAIN runs : runs[q] \in RunRecords
  BY Shapes DEF IndInv
<1>26. /\ \A i \in DOMAIN rows : /\ rows[i].manifest # 0 => rows[i].manifest \in DOMAIN runs
                                 /\ rows[i].run # 0 => rows[i].run \in DOMAIN runs
       /\ \A q \in DOMAIN runs : runs[q].box \in DOMAIN boxes
  BY <1>25 DEF RowRecords, RunRecords, RunIds
<1>27. /\ rows[proc[p].row].run = r /\ rows[proc[p].row].box = row.box
       /\ row.manifest \in {r, rows[proc[p].row].manifest}
  BY <1>3, <1>7, <1>14 DEF Row
<1>28. runs'[r].status # "RUNNING"
  BY <1>2, <1>1, <1>20 DEF ProcOK, WorkOK, RunsNow, ProcRecords
<1>29. RowsOK'
  <2>1. RowsOK
    BY DEF IndInv
  <2>2. \A i \in DOMAIN rows :
          /\ rows'[i].box = i
          /\ rows'[i].status = "RUNNING" <=> rows'[i].run # 0
          /\ rows'[i].run # 0      => runs'[rows'[i].run].box = i
          /\ rows'[i].manifest # 0 => runs'[rows'[i].manifest].box = i
    <3> SUFFICES ASSUME NEW i \in DOMAIN rows
                 PROVE  /\ rows'[i].box = i
                        /\ rows'[i].status = "RUNNING" <=> rows'[i].run # 0
                        /\ rows'[i].run # 0      => runs'[rows'[i].run].box = i
                        /\ rows'[i].manifest # 0 => runs'[rows'[i].manifest].box = i
      OBVIOUS
    <3>1. CASE i = proc[p].row
      BY <1>3, <1>7, <1>14, <1>20, <1>24, <1>26, <1>27, <2>1, <3>1 DEF RowsOK
    <3>2. CASE i # proc[p].row
      BY <1>20, <1>24, <1>26, <2>1, <3>2 DEF RowsOK
    <3> QED BY <3>1, <3>2
  <2>3. \A q \in DOMAIN runs : runs'[q].status = "RUNNING" => rows'[runs'[q].box].run = q
    <3> SUFFICES ASSUME NEW q \in DOMAIN runs, runs'[q].status = "RUNNING"
                 PROVE  rows'[runs'[q].box].run = q
      OBVIOUS
    <3>1. q # r /\ runs[q].status = "RUNNING" /\ runs'[q].box = runs[q].box
      BY <1>20, <1>28
    <3>2. rows[runs[q].box].run = q /\ runs[q].box \in DOMAIN rows
      BY <1>26, <2>1, <3>1 DEF RowsOK
    <3>3. runs[q].box # proc[p].row
      BY <1>27, <3>1, <3>2
    <3> QED BY <1>24, <3>1, <3>2, <3>3
  <2> QED BY <1>1, <1>18, <1>20, <2>1, <2>2, <2>3 DEF RowsOK
<1>30. VerifiedIsBound'
  <2> SUFFICES ASSUME NEW i \in DOMAIN rows, rows'[i].status = "DIRTY_VERIFIED"
               PROVE  /\ rows'[i].manifest # 0 /\ runs'[rows'[i].manifest].status = "DONE"
                      /\ runs'[rows'[i].manifest].base # Gone
    BY <1>18 DEF VerifiedIsBound
  <2>1. CASE i = proc[p].row
    BY <1>1, <1>3, <1>7, <1>14, <1>20, <1>24, <2>1 DEF Whole, Box
  <2>2. CASE i # proc[p].row
    BY <1>3, <1>20, <1>24, <1>26, <2>2 DEF IndInv, VerifiedIsBound
  <2> QED BY <2>1, <2>2
<1>31. PublishedOK'
  <2>1. \A k \in DOMAIN published : published[k] # r /\ runs'[published[k]].status = "DONE"
    BY <1>3, <1>20, <1>25 DEF IndInv, PublishedOK
  <2>2. \A i \in DOMAIN rows : rows'[i].status = "DIRTY_VERIFIED" => rows'[i].manifest = r \/ rows'[i] = rows[i]
    BY <1>7, <1>14, <1>24
  <2> QED BY <1>1, <1>18, <2>1, <2>2 DEF IndInv, PublishedOK
<1>32. ~trampled => boxes[proc[p].row].open = 0
  BY <1>1, <1>2 DEF ProcOK, BetweenOK, Between, Box
<1>33. AttemptOK'
  BY <1>1, <1>18, <1>24, <1>32 DEF IndInv, AttemptOK, Restorable, RowsOK
<1>34. ProcOK(p)'
  <2>1. Row(p)' = row
    BY <1>23, <1>24 DEF Row
  <2>2. MemoryOK(p)'
    BY <1>1, <1>2, <1>10, <1>14, <1>17, <1>18, <1>19, <2>1 DEF ProcOK, MemoryOK, Owns
  <2> QED BY <1>8, <1>17, <1>19, <2>2 DEF ProcOK, LeftOK, WorkOK, BetweenOK, Between, RunsNow
<1> QED BY <1>21, <1>24, <1>29, <1>30, <1>31, <1>33, <1>34 DEF IndInv

(***************************************************************************)
(* A session is opened                                                     *)
(***************************************************************************)
\* What a process holds when it has found its session, whatever there was to open.
LEMMA OpenedOK ==
  ASSUME IndInv, NEW p \in Procs, proc[p].pc = "recover", NEW i \in DOMAIN rows', rows'[i] \in RowRecords',
         ProcRecords \subseteq ProcRecords', i \in DOMAIN boxes', rows'[i].box = i,
         NEW me, me = Remembers(p, i),
         Goto(p, IF me.status = "APPLIED"
                 THEN [me EXCEPT !.pc = "reset", !.stage = 1, !.why = "startup", !.left = <<"CLEAN">>]
                 ELSE [me EXCEPT !.pc = "idle"])
  PROVE  /\ proc' \in [Procs -> ProcRecords'] /\ \A q \in Procs \ {p} : proc'[q] = proc[q]
         /\ ProcOK(p)' /\ ~RunsNow(p)'
<1> DEFINE row == rows'[i]
           reset == [me EXCEPT !.pc = "reset", !.stage = 1, !.why = "startup", !.left = <<"CLEAN">>]
           idle == [me EXCEPT !.pc = "idle"]
           new == IF me.status = "APPLIED" THEN reset ELSE idle
<1>1. proc[p] \in ProcRecords'
  BY Shapes DEF IndInv
<1>2. /\ row.box \in DOMAIN boxes' /\ row.status \in SessionStatuses /\ row.version \in Nat
      /\ row.manifest \in RunIds'
  BY DEF RowRecords
<1>3. me = [proc[p] EXCEPT !.row = i, !.box = row.box, !.status = row.status,
                           !.version = row.version, !.manifest = row.manifest]
  BY DEF Remembers
<1> HIDE DEF row
<1>4. me \in ProcRecords' /\ me.row = i /\ me.box = row.box /\ me.status = row.status
      /\ me.version = row.version /\ me.manifest = row.manifest
  <2>1. i \in {0} \cup DOMAIN rows' /\ row.box \in {0} \cup DOMAIN boxes'
    BY <1>2
  <2>2. me \in ProcRecords'
    BY <1>1, <1>2, <1>3, <2>1 DEF ProcRecords
  <2>3. /\ me.row = i /\ me.box = row.box /\ me.status = row.status
        /\ me.version = row.version /\ me.manifest = row.manifest
    BY <1>1, <1>3 DEF ProcRecords
  <2> QED BY <2>2, <2>3
<1>5. <<"CLEAN">> \in Seq(SessionStatuses)
  BY DEF SessionStatuses
<1>6. reset \in ProcRecords' /\ idle \in ProcRecords'
  <2>1. "reset" \in Places /\ "idle" \in Places
    BY DEF Places
  <2> QED BY <1>4, <1>5, <2>1 DEF ProcRecords
<1>7. /\ reset.pc = "reset" /\ reset.stage = 1 /\ reset.why = "startup" /\ reset.left = <<"CLEAN">>
      /\ reset.row = i /\ reset.box = row.box /\ reset.status = row.status
      /\ reset.version = row.version /\ reset.manifest = row.manifest
  BY <1>4 DEF ProcRecords
<1>8. /\ idle.pc = "idle" /\ idle.row = i /\ idle.box = row.box /\ idle.status = row.status
      /\ idle.version = row.version /\ idle.manifest = row.manifest
  BY <1>4 DEF ProcRecords
<1>9. Goto(p, new)
  OBVIOUS
<1> HIDE DEF reset, idle
<1>10. new \in ProcRecords' /\ proc \in [Procs -> ProcRecords']
  BY <1>6 DEF IndInv, ShapeOK
<1>11. /\ proc' \in [Procs -> ProcRecords'] /\ proc'[p] = new
       /\ \A q \in Procs \ {p} : proc'[q] = proc[q]
  BY <1>9, <1>10, GotoShape
<1>12. ProcOK(p)' /\ ~RunsNow(p)'
  <2>1. /\ new.row = i /\ new.box = i /\ new.status = row.status /\ new.version = row.version
        /\ new.manifest = row.manifest /\ new.pc \in {"idle", "reset"}
    BY <1>7, <1>8 DEF row
  <2>2. new.pc = "reset" => /\ new.status = "APPLIED" /\ new.left = <<"CLEAN">> /\ new.stage = 1
                            /\ new.why = "startup"
    BY <1>4, <1>7, <1>8
  <2> HIDE DEF new
  <2>3. MemoryOK(p)'
    BY <1>2, <1>11, <2>1 DEF MemoryOK, Row, Owns, row
  <2>4. LeftOK(p)'
    BY <1>11, <2>1, <2>2 DEF LeftOK, Leavings
  <2> QED BY <1>11, <2>1, <2>3, <2>4 DEF ProcOK, WorkOK, BetweenOK, Between, RunsNow
<1> QED BY <1>11, <1>12

LEMMA OpenStep ==
  ASSUME IndInv, NEW p \in Procs, Open(p)
  PROVE  IndInv'
<1>1. /\ proc[p].pc = "recover" /\ UNCHANGED <<runs, source, published, trampled, budget>>
      /\ \/ UNCHANGED <<rows, boxes>>
         \/ boxes' = Append(boxes, NewBox) /\ rows' = Append(rows, NewRow(Len(boxes) + 1))
  BY DEF Open
<1>2. PICK i \in DOMAIN rows' :
        Goto(p, IF Remembers(p, i).status = "APPLIED"
                THEN [Remembers(p, i) EXCEPT !.pc = "reset", !.stage = 1, !.why = "startup",
                                             !.left = <<"CLEAN">>]
                ELSE [Remembers(p, i) EXCEPT !.pc = "idle"])
  BY DEF Open
<1>3. /\ rows \in Seq(RowRecords) /\ boxes \in Seq(BoxRecords) /\ DOMAIN boxes = DOMAIN rows
      /\ runs \in Seq(RunRecords)
      /\ \A k \in DOMAIN rows : rows[k] \in RowRecords /\ rows[k].box = k
      /\ \A r \in DOMAIN runs : runs[r] \in RunRecords
  BY Shapes DEF IndInv, ShapeOK, RowsOK
<1>4. CASE UNCHANGED <<rows, boxes>>
  <2>1. rows' = rows /\ boxes' = boxes /\ runs' = runs
    BY <1>1, <1>4
  <2>2. ProcRecords' = ProcRecords /\ RowRecords' = RowRecords
    BY <2>1, TypesStay
  <2>3. proc' \in [Procs -> ProcRecords] /\ ProcOK(p)' /\ ~RunsNow(p)'
        /\ \A q \in Procs \ {p} : proc'[q] = proc[q]
    BY <1>1, <1>2, <1>3, <2>1, <2>2, OpenedOK
  <2>4. Goto(p, proc'[p]) /\ proc'[p] \in ProcRecords
    BY <2>3 DEF Goto, IndInv, ShapeOK
  <2> QED BY <1>1, <2>1, <2>3, <2>4, QuietStep DEF files, IndInv, ShapeOK, BudgetRecords
<1>5. CASE boxes' = Append(boxes, NewBox) /\ rows' = Append(rows, NewRow(Len(boxes) + 1))
  <2> DEFINE b == Len(boxes) + 1
             row == NewRow(b)
             box == NewBox
  <2>1. Len(boxes) \in Nat /\ DOMAIN boxes = 1 .. Len(boxes) /\ DOMAIN rows = 1 .. Len(rows)
        /\ Len(rows) \in Nat /\ Len(rows) = Len(boxes)
    BY <1>3, LenProperties
  <2>2. box \in BoxRecords /\ box.open = 0
    BY DEF NewBox, BoxRecords, Versions, RunIds, Gone, IndInv, ShapeOK
  <2> HIDE DEF box
  <2>3. /\ boxes' \in Seq(BoxRecords) /\ DOMAIN boxes' = DOMAIN boxes \cup {b} /\ boxes'[b] = box
        /\ \A c \in DOMAIN boxes : boxes'[c] = boxes[c]
        /\ b \notin DOMAIN boxes
    BY <1>3, <1>5, <2>2, SeqGrow DEF box
  <2>4. row \in RowRecords' /\ row.box = b /\ row.status = "CLEAN" /\ row.run = 0 /\ row.manifest = 0
    BY <2>3 DEF NewRow, RowRecords, SessionStatuses, RunIds
  <2> HIDE DEF row
  <2>5. DOMAIN rows \subseteq DOMAIN rows' /\ DOMAIN rows' = DOMAIN rows \cup {b}
    BY <1>3, <1>5, <2>1, AppendProperties, SeqGrow DEF row
  <2>6. /\ RowRecords \subseteq RowRecords' /\ RunRecords \subseteq RunRecords'
        /\ BoxRecords \subseteq BoxRecords' /\ ProcRecords \subseteq ProcRecords'
    BY <1>1, <2>3, <2>5, TypesGrow
  <2>7. rows \in Seq(RowRecords')
    BY <1>3, <2>6, SeqMonotonic
  <2>8. /\ rows' \in Seq(RowRecords') /\ rows'[b] = row
        /\ \A k \in DOMAIN rows : rows'[k] = rows[k]
    BY <1>5, <2>1, <2>4, <2>7, SeqGrow DEF row
  <2>9. boxes' \in Seq(BoxRecords') /\ runs' \in Seq(RunRecords')
    BY <1>1, <1>3, <2>3, <2>6, SeqMonotonic
  <2>10. \A k \in DOMAIN rows' : rows'[k] \in RowRecords' /\ rows'[k].box = k /\ k \in DOMAIN boxes'
    BY <1>3, <2>3, <2>4, <2>5, <2>6, <2>8
  <2>11. /\ proc' \in [Procs -> ProcRecords'] /\ \A q \in Procs \ {p} : proc'[q] = proc[q]
         /\ ProcOK(p)' /\ ~RunsNow(p)'
    BY <1>1, <1>2, <2>6, <2>10, OpenedOK
  <2>12. ShapeOK'
    BY <1>1, <2>8, <2>9, <2>11 DEF IndInv, ShapeOK, BudgetRecords
  <2>13. \A k \in DOMAIN rows : /\ rows[k].manifest # 0 => rows[k].manifest \in DOMAIN runs
                                /\ rows[k].run # 0 => rows[k].run \in DOMAIN runs
    BY <1>3 DEF RowRecords, RunIds
  <2>14. \A r \in DOMAIN runs : runs[r].box \in DOMAIN rows
    BY <1>3 DEF RunRecords
  <2>15. RowsOK'
    <3>1. RowsOK /\ DOMAIN boxes' = DOMAIN rows'
      BY <2>3, <2>5, <1>3 DEF IndInv
    <3> QED BY <1>1, <2>4, <2>5, <2>8, <2>10, <2>14, <3>1 DEF RowsOK
  <2>16. VerifiedIsBound' /\ PublishedOK'
    BY <1>1, <2>4, <2>5, <2>8 DEF IndInv, VerifiedIsBound, PublishedOK
  <2>17. AttemptOK'
    BY <1>1, <1>3, <2>2, <2>3, <2>8 DEF IndInv, AttemptOK, Restorable
  <2>18. \A q \in Procs : Between(q) => proc[q].box \in DOMAIN boxes
    BY BoxOfProc DEF Between, Attached
  <2>19. \A q \in Procs : RunsNow(q) => proc[q].row \in DOMAIN rows
    BY BoxOfProc DEF RunsNow, Attached
  <2>20. RowsMove(p) /\ BoxesMove(p) /\ PublishedMoves
    BY <1>1, <2>3, <2>5, <2>8, <2>18, <2>19 DEF RowsMove, BoxesMove, PublishedMoves
  <2>21. \A q \in Procs \ {p} : ProcOK(q)'
    BY <2>11, <2>12, <2>20, OthersOK
  <2>22. Sole'
    BY <2>11, SoleStays DEF IndInv
  <2> QED BY <2>11, <2>12, <2>15, <2>16, <2>17, <2>21, <2>22 DEF IndInv
<1> QED BY <1>1, <1>4, <1>5

LEMMA EditStep ==
  ASSUME IndInv, Edit
  PROVE  IndInv'
<1>1. /\ UNCHANGED <<rows, runs, boxes, proc, published, trampled>> /\ source' \in Nat
      /\ budget' \in BudgetRecords
  BY SpendShape DEF Edit, IndInv, ShapeOK, BudgetRecords
<1>2. ProcRecords' = ProcRecords /\ RowRecords' = RowRecords /\ RunRecords' = RunRecords
      /\ BoxRecords' = BoxRecords
  BY <1>1, TypesStay
<1>3. ShapeOK'
  BY <1>1, <1>2 DEF IndInv, ShapeOK, BudgetRecords
<1>4. RowsOK' /\ VerifiedIsBound' /\ PublishedOK' /\ AttemptOK' /\ Sole'
  BY <1>1 DEF IndInv, RowsOK, VerifiedIsBound, PublishedOK, AttemptOK, Restorable, Sole, RunsNow
<1>5. \A p \in Procs : ProcOK(p)'
  BY <1>1 DEF IndInv, ProcOK, MemoryOK, WorkOK, LeftOK, BetweenOK, Between, RunsNow, Attached, Row,
              Owns, Box
<1> QED BY <1>3, <1>4, <1>5 DEF IndInv

(***************************************************************************)
(* The invariant                                                           *)
(***************************************************************************)
LEMMA Initial == Init => IndInv
<1> SUFFICES ASSUME Init
             PROVE  IndInv
  OBVIOUS
<1>1. rows = <<>> /\ runs = <<>> /\ boxes = <<>> /\ published = <<>> /\ source = 0 /\ trampled = FALSE
  BY DEF Init
<1>2. DOMAIN rows = {} /\ DOMAIN runs = {} /\ DOMAIN boxes = {} /\ DOMAIN published = {}
  BY <1>1
<1>3. ShapeOK
  <2>1. proc \in [Procs -> ProcRecords]
    BY OffShape DEF Init
  <2>2. budget \in BudgetRecords
    BY BoundAssumption DEF Init, BudgetRecords
  <2> QED BY <1>1, <2>1, <2>2, EmptySeq DEF ShapeOK, BudgetRecords
<1>4. RowsOK /\ VerifiedIsBound /\ PublishedOK /\ AttemptOK
  BY <1>2 DEF RowsOK, VerifiedIsBound, PublishedOK, AttemptOK
<1>5. \A p \in Procs : proc[p].pc = "off"
  BY DEF Init, Off
<1> QED BY <1>3, <1>4, <1>5 DEF IndInv, ProcOK, MemoryOK, WorkOK, LeftOK, BetweenOK, Between, RunsNow,
                                 Attached, Sole

LEMMA Step == IndInv /\ [Next]_vars => IndInv'
<1> SUFFICES ASSUME IndInv, [Next]_vars
             PROVE  IndInv'
  OBVIOUS
<1>1. CASE UNCHANGED vars
  BY <1>1 DEF vars, files, IndInv, ShapeOK, RowsOK, VerifiedIsBound, PublishedOK, AttemptOK, Sole,
              RowRecords, RunRecords, BoxRecords, ProcRecords, RunIds, Trees, Restorable, RunsNow,
              ProcOK, MemoryOK, WorkOK, LeftOK, BetweenOK, Between, Attached, Row, Owns, Box
<1>2. CASE Edit
  BY <1>2, EditStep
<1>3. CASE Stopped
  BY <1>1, <1>3 DEF Stopped
<1>4. ASSUME NEW p \in Procs, Start(p) \/ Startup(p)
      PROVE  IndInv'
  BY <1>4, StartStep, RecoverRunStep, OpenStep, StopStep DEF Startup
<1>5. ASSUME NEW p \in Procs, Request(p) \/ Crash(p) \/ Apply(p) \/ ApplyRefused(p)
      PROVE  IndInv'
  BY <1>5, ClaimStep, RefuseStep, DiscardStep, StopStep, ApplyStep DEF Request
<1>6. ASSUME NEW p \in Procs, InRun(p) \/ Returns(p)
      PROVE  IndInv'
  BY <1>6, BeginStep, PlanStoredStep, OpenAttemptStep, WriteStep, CloseAttemptStep, RaisesStep,
     FinishStep, FinishFailsStep, ReturnsStep DEF InRun
<1>7. ASSUME NEW p \in Procs, Resetting(p)
      PROVE  IndInv'
  BY <1>7, CopyStep, ResetEndsStep, ResetFailsStep, SaveStep, SaveConflictsStep DEF Resetting
<1> QED BY <1>1, <1>2, <1>3, <1>4, <1>5, <1>6, <1>7 DEF Next

LEMMA Inductive == Spec => []IndInv
BY Initial, Step, PTL DEF Spec

(***************************************************************************)
(* What a step makes of the process that takes it                          *)
(***************************************************************************)
LEMMA Became ==
  ASSUME IndInv, NEW p \in Procs, NEW new, Goto(p, new)
  PROVE  proc'[p] = new /\ \A q \in Procs \ {p} : proc'[q] = proc[q]
BY DEF IndInv, ShapeOK, Goto

\* A process that is in a reset, or has one to save, was in it or has just begun it.
Leaves(p) == /\ proc'[p].pc \notin {"reset", "save"}
             /\ \/ proc'[p].told = proc[p].told
                \/ proc'[p].told \notin {"applied", "discarded", "failed"}
             /\ \A q \in Procs \ {p} : proc'[q] = proc[q]

LEMMA LeavesBy ==
  ASSUME IndInv, NEW p \in Procs, NEW new, Goto(p, new), new.pc \notin {"reset", "save"},
         new.told = proc[p].told \/ new.told \notin {"applied", "discarded", "failed"}
  PROVE  Leaves(p)
BY Became DEF Leaves

LEMMA OffLeaves ==
  ASSUME IndInv, NEW p \in Procs,
         Start(p) \/ RecoverFails(p) \/ OpenFails(p) \/ Shutdown(p) \/ Crash(p)
  PROVE  Leaves(p)
<1>1. PICK todo : Goto(p, [Off EXCEPT !.pc = "recover", !.todo = todo]) \/ Goto(p, Off)
  BY DEF Start, RecoverFails, OpenFails, Shutdown, Crash, StartFails
<1>2. CASE Goto(p, Off)
  BY <1>2, Became DEF Off, Leaves
<1>3. CASE Goto(p, [Off EXCEPT !.pc = "recover", !.todo = todo])
  <2> DEFINE new == [Off EXCEPT !.pc = "recover", !.todo = todo]
  <2>1. new.pc = "recover" /\ new.told = "none"
    BY DEF Off
  <2> HIDE DEF new
  <2>2. Goto(p, new)
    BY <1>3 DEF new
  <2> QED BY <2>1, <2>2, LeavesBy
<1> QED BY <1>1, <1>2, <1>3

LEMMA ReplyLeaves ==
  ASSUME IndInv, NEW p \in Procs, NEW message \in Answers, Reply(p, message),
         message \notin {"applied", "discarded", "failed"}
  PROVE  Leaves(p)
<1> DEFINE new == [proc[p] EXCEPT !.pc = "idle", !.told = message, !.outcome = "none",
                                  !.why = "none", !.left = <<>>, !.auto = FALSE]
<1>1. proc[p] \in ProcRecords
  BY Shapes DEF IndInv
<1>2. new.pc = "idle" /\ new.told = message
  BY <1>1 DEF ProcRecords
<1>3. Goto(p, new)
  BY DEF Reply
<1> HIDE DEF new
<1> QED BY <1>2, <1>3, Became DEF Leaves

LEMMA RefuseLeaves ==
  ASSUME IndInv, NEW p \in Procs,
         Refuse(p) \/ DiscardRefused(p) \/ ApplyRefused(p) \/ Inspect(p)
  PROVE  Leaves(p)
<1>1. \E message \in Answers : Reply(p, message) /\ message \notin {"applied", "discarded", "failed"}
  <2>1. CASE Refuse(p) \/ DiscardRefused(p)
    BY <2>1 DEF Refuse, DiscardRefused, Answers
  <2>2. CASE ApplyRefused(p)
    BY <2>2 DEF ApplyRefused, Answers
  <2>3. CASE Inspect(p)
    BY <2>3 DEF Inspect, Answers
  <2> QED BY <2>1, <2>2, <2>3
<1> QED BY <1>1, ReplyLeaves

\* The steps of a run but its end.
LEMMA RunLeaves ==
  ASSUME IndInv, NEW p \in Procs,
         \/ Claim(p) \/ Begin(p) \/ PlanStored(p) \/ OpenAttempt(p) \/ Write(p) \/ CloseAttempt(p)
         \/ Raises(p) \/ FinishFails(p) \/ Returns(p) \/ RecoverRun(p)
  PROVE  Leaves(p)
<1>1. proc[p] \in ProcRecords
  BY Shapes DEF IndInv
<1>2. CASE FinishFails(p)
  <2>1. CASE proc[p].outcome = "INTERRUPTED"
    BY <1>2, <2>1, ReplyLeaves DEF FinishFails, Answers
  <2>2. CASE proc[p].outcome # "INTERRUPTED"
    BY <1>1, <1>2, <2>2, Became DEF FinishFails, Leaves, ProcRecords
  <2> QED BY <2>1, <2>2
<1>3. CASE Claim(p)
  <2> DEFINE new == [proc[p] EXCEPT !.pc = "start", !.run = Len(runs) + 1, !.status = "RUNNING",
                                    !.version = proc[p].version + 1, !.told = "none"]
  <2>1. Goto(p, new)
    BY <1>1, <1>3 DEF Claim, ProcRecords
  <2>2. new.pc = "start" /\ new.told = "none"
    BY <1>1 DEF ProcRecords
  <2> HIDE DEF new
  <2> QED BY <1>3, <2>1, <2>2, LeavesBy DEF Claim
<1>4. CASE Begin(p)
  <2> DEFINE new == [proc[p] EXCEPT !.pc = "loop", !.last = 0]
  <2>1. Goto(p, new)
    BY <1>1, <1>4 DEF Begin, ProcRecords
  <2>2. new.pc = "loop" /\ new.told = proc[p].told
    BY <1>1 DEF ProcRecords
  <2> HIDE DEF new
  <2> QED BY <1>4, <2>1, <2>2, LeavesBy DEF Begin
<1>5. CASE PlanStored(p)
  BY <1>1, <1>5, Became DEF PlanStored, Leaves, ProcRecords
<1>6. CASE OpenAttempt(p)
  BY <1>1, <1>6, Became DEF OpenAttempt, Leaves, ProcRecords
<1>7. CASE Write(p)
  BY <1>1, <1>7 DEF Write, Leaves
<1>8. CASE CloseAttempt(p)
  BY <1>1, <1>8, Became DEF CloseAttempt, Leaves, ProcRecords
<1>9. CASE Raises(p)
  <2> DEFINE new == [proc[p] EXCEPT !.pc = "finish", !.outcome = "INTERRUPTED", !.attempt = FALSE,
                                    !.final = proc[p].last]
  <2>1. Goto(p, new)
    BY <1>1, <1>9 DEF Raises, ProcRecords
  <2>2. new.pc = "finish" /\ new.told = proc[p].told
    BY <1>1 DEF ProcRecords
  <2> HIDE DEF new
  <2> QED BY <1>9, <2>1, <2>2, LeavesBy DEF Raises
<1>10. CASE Returns(p)
  <2>1. PICK outcome :
          Goto(p, [proc[p] EXCEPT !.pc = "finish", !.outcome = outcome, !.final = proc[p].run])
    BY <1>10 DEF Returns
  <2> DEFINE new == [proc[p] EXCEPT !.pc = "finish", !.outcome = outcome, !.final = proc[p].run]
  <2>2. new.pc = "finish" /\ new.told = proc[p].told
    BY <1>1 DEF ProcRecords
  <2>3. Goto(p, new)
    BY <2>1
  <2> HIDE DEF new
  <2> QED BY <2>2, <2>3, LeavesBy
<1>11. CASE RecoverRun(p)
  <2>1. PICK todo, box : Goto(p, [proc[p] EXCEPT !.todo = todo, !.box = box])
    <3>1. PICK r \in proc[p].todo :
            Goto(p, [proc[p] EXCEPT !.todo = @ \ {r},
                       !.box = IF boxes[runs[r].box].open = r /\ @ = 0 THEN runs[r].box ELSE @])
      BY <1>11 DEF RecoverRun
    <3> QED BY <1>1, <3>1 DEF ProcRecords
  <2> DEFINE new == [proc[p] EXCEPT !.todo = todo, !.box = box]
  <2>2. new.pc = "recover" /\ new.told = proc[p].told
    BY <1>1, <1>11 DEF ProcRecords, RecoverRun
  <2>3. Goto(p, new)
    BY <2>1
  <2> HIDE DEF new
  <2> QED BY <2>2, <2>3, LeavesBy
<1> QED BY <1>2, <1>3, <1>4, <1>5, <1>6, <1>7, <1>8, <1>9, <1>10, <1>11

LEMMA TroubledLeaves ==
  ASSUME IndInv, NEW p \in Procs, Attached(p), ResetFails(p) \/ SaveConflicts(p)
  PROVE  Leaves(p)
<1>1. proc[p] \in ProcRecords
  BY Shapes DEF IndInv
<1>2. /\ Troubled(p) \in ProcRecords /\ Troubled(p).pc \notin {"reset", "save"}
      /\ Troubled(p).told \in {proc[p].told, "error", "none"}
  <2>1. CASE proc[p].why = "startup"
    BY <2>1, OffShape DEF Troubled, Off
  <2>2. CASE proc[p].why # "startup"
    BY <1>1, <2>2, TroubledShape DEF Troubled, ProcRecords
  <2> QED BY <2>1, <2>2
<1>3. CASE ResetFails(p)
  BY <1>2, <1>3, Became DEF ResetFails, Leaves
<1>4. CASE SaveConflicts(p)
  <2> DEFINE manifest == IF Len(proc[p].left) = 1 THEN 0 ELSE Troubled(p).manifest
             new == [Troubled(p) EXCEPT !.status = Head(proc[p].left), !.manifest = manifest]
  <2>1. Goto(p, Off) \/ Goto(p, new)
    BY <1>4 DEF SaveConflicts
  <2>2. new.pc = Troubled(p).pc /\ new.told = Troubled(p).told
    BY <1>2 DEF ProcRecords
  <2>3. Off.pc = "off" /\ Off.told = "none"
    BY DEF Off
  <2> HIDE DEF new
  <2> QED BY <1>2, <2>1, <2>2, <2>3, Became DEF Leaves
<1> QED BY <1>3, <1>4

\* A reset is begun.
Enters(p) == /\ proc'[p].pc = "idle" \/ (proc'[p].pc = "reset" /\ proc'[p].stage = 1)
             /\ \/ proc'[p].told = proc[p].told
                \/ proc'[p].told \notin {"applied", "discarded", "failed"}
             /\ \A q \in Procs \ {p} : proc'[q] = proc[q]

LEMMA EntersBy ==
  ASSUME IndInv, NEW p \in Procs, NEW new, Goto(p, new),
         new.pc = "idle" \/ (new.pc = "reset" /\ new.stage = 1),
         new.told = proc[p].told \/ new.told \notin {"applied", "discarded", "failed"}
  PROVE  Enters(p)
BY Became DEF Enters

LEMMA EntersReset ==
  ASSUME IndInv, NEW p \in Procs, Open(p) \/ Apply(p) \/ Discard(p)
  PROVE  Enters(p)
<1>1. proc[p] \in ProcRecords
  BY Shapes DEF IndInv
<1>2. CASE Open(p)
  <2>1. PICK i \in DOMAIN rows' :
        Goto(p, IF Remembers(p, i).status = "APPLIED"
                THEN [Remembers(p, i) EXCEPT !.pc = "reset", !.stage = 1, !.why = "startup",
                                             !.left = <<"CLEAN">>]
                ELSE [Remembers(p, i) EXCEPT !.pc = "idle"])
    BY <1>2 DEF Open
  <2> DEFINE reset == [Remembers(p, i) EXCEPT !.pc = "reset", !.stage = 1, !.why = "startup",
                                             !.left = <<"CLEAN">>]
             idle == [Remembers(p, i) EXCEPT !.pc = "idle"]
  <2>2. reset.pc = "reset" /\ reset.stage = 1 /\ reset.told = proc[p].told
    BY <1>1 DEF Remembers, ProcRecords
  <2>3. idle.pc = "idle" /\ idle.told = proc[p].told
    BY <1>1 DEF Remembers, ProcRecords
  <2>4. Goto(p, reset) \/ Goto(p, idle)
    BY <2>1
  <2> HIDE DEF reset, idle
  <2> QED BY <2>2, <2>3, <2>4, EntersBy
<1>3. CASE Apply(p)
  <2>1. PICK told : Goto(p, [proc[p] EXCEPT !.pc = "reset", !.stage = 1, !.why = "apply",
                               !.left = <<"CLEAN">>, !.status = "APPLIED", !.version = @ + 1,
                               !.told = told]) /\ told \in {proc[p].told, "none"}
    <3>1. Goto(p, [proc[p] EXCEPT !.pc = "reset", !.stage = 1, !.why = "apply",
                               !.left = <<"CLEAN">>, !.status = "APPLIED", !.version = @ + 1,
                               !.told = IF proc[p].auto THEN proc[p].told ELSE "none"])
      BY <1>1, <1>3 DEF Apply, ProcRecords
    <3> QED BY <3>1
  <2> DEFINE new == [proc[p] EXCEPT !.pc = "reset", !.stage = 1, !.why = "apply",
                               !.left = <<"CLEAN">>, !.status = "APPLIED", !.version = @ + 1,
                               !.told = told]
  <2>2. new.pc = "reset" /\ new.stage = 1 /\ new.told = told
    BY <1>1 DEF ProcRecords
  <2>3. Goto(p, new)
    BY <2>1
  <2> HIDE DEF new
  <2> QED BY <2>1, <2>2, <2>3, EntersBy
<1>4. CASE Discard(p)
  <2>1. PICK left : Goto(p, [proc[p] EXCEPT !.pc = "reset", !.stage = 1, !.why = "discard",
                                            !.told = "none", !.left = left])
    BY <1>4 DEF Discard
  <2> DEFINE new == [proc[p] EXCEPT !.pc = "reset", !.stage = 1, !.why = "discard",
                                    !.told = "none", !.left = left]
  <2>2. new.pc = "reset" /\ new.stage = 1 /\ new.told = "none"
    BY <1>1 DEF ProcRecords
  <2>3. Goto(p, new)
    BY <2>1
  <2> HIDE DEF new
  <2> QED BY <2>2, <2>3, EntersBy
<1> QED BY <1>2, <1>3, <1>4

(***************************************************************************)
(* What is in the sandboxes                                                *)
(***************************************************************************)
\* A sandbox is only filled under a session that is RUNNING; a row is only written with a new
\* version; a session that becomes CLEAN has an empty sandbox.
FilesMove ==
  ~trampled' => \A b \in DOMAIN boxes : \/ boxes'[b].work = boxes[b].work \/ boxes'[b].work \in {0, Gone}
                                        \/ rows[b].status = "RUNNING"
VersionsMove ==
  \A i \in DOMAIN rows : i \in DOMAIN rows' /\ (rows'[i] = rows[i] \/ rows'[i].version > rows[i].version)
CleanMoves ==
  ~trampled' => \A i \in DOMAIN rows' : rows'[i].status = "CLEAN" =>
                  (i \in DOMAIN rows /\ rows'[i] = rows[i]) \/ boxes'[i].work \in {0, Gone}

\* A process that has reset its sandbox does not own a row that is RUNNING.
LEMMA ResetsNoRun ==
  ASSUME IndInv, NEW q \in Procs, proc[q].pc \in {"reset", "save"}, Owns(q)
  PROVE  Row(q).status # "RUNNING"
<1>1. Attached(q)
  BY DEF Attached
<1>2. ProcOK(q)
  BY <1>1, BoxOfProc
<1> QED BY <1>1, <1>2 DEF ProcOK, MemoryOK, LeftOK, Leavings

LEMMA FilesKept ==
  ASSUME FilesInv, IndInv', NEW p, FilesMove, VersionsMove, CleanMoves, trampled => trampled',
         \A q \in Procs \ {p} : proc'[q] = proc[q], p \in Procs => FilesOK(p)'
  PROVE  FilesInv'
<1>1. IndInv
  BY DEF FilesInv
<1>2. \A q \in Procs \ {p} : FilesOK(q)'
  <2> SUFFICES ASSUME NEW q \in Procs \ {p}, ~trampled', HasReset(q)', Owns(q)'
               PROVE  Box(q)'.work \in {0, Gone}
    BY DEF FilesInv, FilesOK, HasReset
  <2>1. proc'[q] = proc[q] /\ HasReset(q) /\ ~trampled
    BY DEF HasReset
  <2>2. Attached(q) /\ proc[q].pc \in {"reset", "save"}
    BY <2>1 DEF Attached, HasReset
  <2>3. /\ proc[q] \in ProcRecords /\ Row(q) \in RowRecords /\ proc[q].version <= Row(q).version
        /\ proc[q].row \in DOMAIN rows /\ proc[q].box = proc[q].row /\ proc[q].box \in DOMAIN boxes
    BY <1>1, <2>2, BoxOfProc DEF ProcOK, MemoryOK
  <2>4. rows'[proc[q].row].version = proc[q].version
    BY <2>1 DEF Owns, Row
  <2>5. rows'[proc[q].row] = rows[proc[q].row]
    <3>1. proc[q].version \in Nat /\ rows[proc[q].row].version \in Nat
      BY <2>3 DEF ProcRecords, RowRecords, Row
    <3> QED BY <2>3, <2>4, <3>1 DEF VersionsMove, Row
  <2>6. Owns(q)
    BY <2>4, <2>5 DEF Owns, Row
  <2>7. rows[proc[q].row].status # "RUNNING"
    BY <1>1, <2>2, <2>6, ResetsNoRun DEF Row
  <2>8. Box(q).work \in {0, Gone}
    BY <2>1, <2>6 DEF FilesInv, FilesOK
  <2> QED BY <2>1, <2>3, <2>7, <2>8 DEF FilesMove, Box
<1>3. CleanIsBaseline'
  <2> SUFFICES ASSUME ~trampled', NEW i \in DOMAIN rows', rows'[i].status = "CLEAN"
               PROVE  boxes'[i].work \in {0, Gone}
    BY DEF CleanIsBaseline, IndInv, RowsOK
  <2>1. CASE i \in DOMAIN rows /\ rows'[i] = rows[i]
    <3>1. i \in DOMAIN boxes /\ boxes[i].work \in {0, Gone}
      BY <1>1, <2>1 DEF FilesInv, CleanIsBaseline, IndInv, RowsOK
    <3> QED BY <2>1, <3>1 DEF FilesMove
  <2> QED BY <2>1 DEF CleanMoves
<1> QED BY <1>2, <1>3 DEF FilesInv

\* Where rows and boxes stay.
LEMMA FilesQuiet ==
  ASSUME FilesInv, IndInv', NEW p \in Procs, Leaves(p) \/ Enters(p), UNCHANGED <<rows, boxes, trampled>>
  PROVE  FilesInv'
<1>1. FilesOK(p)' /\ \A q \in Procs \ {p} : proc'[q] = proc[q]
  BY DEF Leaves, Enters, FilesOK, HasReset
<1> QED BY <1>1, FilesKept DEF FilesMove, VersionsMove, CleanMoves

\* A process in a run changes its sandbox.
LEMMA FilesWork ==
  ASSUME FilesInv, IndInv', NEW p \in Procs, RunsNow(p), Leaves(p), NEW box \in BoxRecords,
         boxes' = [boxes EXCEPT ![proc[p].box] = box], UNCHANGED <<rows, trampled>>
  PROVE  FilesInv'
<1>1. IndInv /\ Attached(p)
  BY DEF FilesInv, RunsNow, Attached
<1>2. proc[p].box = proc[p].row /\ proc[p].box \in DOMAIN boxes /\ rows[proc[p].box].status = "RUNNING"
  BY <1>1, BoxOfProc, RunOfProc DEF Row
<1>3. FilesMove
  BY <1>1, <1>2 DEF FilesMove, IndInv, ShapeOK
<1>4. FilesOK(p)' /\ \A q \in Procs \ {p} : proc'[q] = proc[q]
  BY DEF Leaves, FilesOK, HasReset
<1> QED BY <1>3, <1>4, FilesKept DEF VersionsMove, CleanMoves

LEMMA FilesRun ==
  ASSUME FilesInv, IndInv', NEW p \in Procs,
         \/ Begin(p) \/ PlanStored(p) \/ OpenAttempt(p) \/ Write(p) \/ CloseAttempt(p)
         \/ Raises(p) \/ FinishFails(p) \/ Returns(p)
  PROVE  FilesInv'
<1>1. IndInv /\ Leaves(p) /\ RunsNow(p) /\ Attached(p)
  BY RunLeaves DEF FilesInv, RunsNow, Attached, Begin, PlanStored, OpenAttempt, Write, CloseAttempt,
     Raises, Working, FinishFails, Returns
<1>2. Box(p) \in BoxRecords /\ proc[p].run \in DOMAIN runs /\ proc[p].box \in DOMAIN boxes
  BY <1>1, BoxOfProc, RunOfProc
<1>3. CASE Begin(p) \/ PlanStored(p) \/ FinishFails(p) \/ Returns(p)
  BY <1>1, <1>3, FilesQuiet DEF Begin, PlanStored, FinishFails, Returns, files
<1>4. CASE OpenAttempt(p)
  <2>1. [Box(p) EXCEPT !.open = proc[p].run, !.saved = Box(p).work] \in BoxRecords
    BY <1>2 DEF BoxRecords, RunIds
  <2>2. boxes' = [boxes EXCEPT ![proc[p].box] = [Box(p) EXCEPT !.open = proc[p].run, !.saved = Box(p).work]]
    BY <1>4 DEF OpenAttempt, Box
  <2> QED BY <1>1, <1>4, <2>1, <2>2, FilesWork DEF OpenAttempt
<1>5. CASE Write(p)
  <2>1. [Box(p) EXCEPT !.work = proc[p].run] \in BoxRecords
    BY <1>2 DEF BoxRecords, RunIds
  <2>2. boxes' = [boxes EXCEPT ![proc[p].box] = [Box(p) EXCEPT !.work = proc[p].run]]
    BY <1>5 DEF Write, Box
  <2> QED BY <1>1, <1>5, <2>1, <2>2, FilesWork DEF Write
<1>6. CASE CloseAttempt(p)
  <2>1. [Box(p) EXCEPT !.open = 0, !.saved = Gone] \in BoxRecords
    BY <1>2 DEF BoxRecords, RunIds
  <2>2. RolledBack(Box(p)) \in BoxRecords
    BY <1>2, RolledBackShape
  <2>3. \/ boxes' = [boxes EXCEPT ![proc[p].box] = [Box(p) EXCEPT !.open = 0, !.saved = Gone]]
        \/ boxes' = [boxes EXCEPT ![proc[p].box] = RolledBack(Box(p))]
    BY <1>6 DEF CloseAttempt, Box
  <2> QED BY <1>1, <1>6, <2>1, <2>2, <2>3, FilesWork DEF CloseAttempt
<1>7. CASE Raises(p)
  <2>1. AfterRaise(p) \in BoxRecords
    BY <1>2, RolledBackShape DEF AfterRaise
  <2> QED BY <1>1, <1>7, <2>1, FilesWork DEF Raises
<1> QED BY <1>3, <1>4, <1>5, <1>6, <1>7

LEMMA FilesRecover ==
  ASSUME FilesInv, IndInv', NEW p \in Procs, RecoverRun(p)
  PROVE  FilesInv'
<1>0. IndInv
  BY DEF FilesInv
<1>1. Leaves(p) /\ UNCHANGED <<rows, trampled>> /\ proc[p] \in ProcRecords
  BY <1>0, RunLeaves, Shapes DEF IndInv, RecoverRun
<1>2. PICK r \in proc[p].todo :
        boxes' = IF boxes[runs[r].box].open = r
                 THEN [boxes EXCEPT ![runs[r].box] = RolledBack(boxes[runs[r].box])] ELSE boxes
  BY DEF RecoverRun
<1> DEFINE b == runs[r].box
<1>3. r \in DOMAIN runs
  BY <1>1 DEF ProcRecords
<1>4. b \in DOMAIN boxes /\ r # 0
  BY <1>0, <1>3, Shapes DEF IndInv, RunRecords
<1>5. ~trampled /\ boxes[b].open = r => rows[b].status = "RUNNING"
  BY <1>0, <1>4 DEF IndInv, AttemptOK, RowsOK
<1> HIDE DEF b
<1>6. boxes' = IF boxes[b].open = r THEN [boxes EXCEPT ![b] = RolledBack(boxes[b])] ELSE boxes
  BY <1>2 DEF b
<1>7. FilesMove
  BY <1>1, <1>4, <1>5, <1>6 DEF FilesMove
<1>8. FilesOK(p)' /\ \A q \in Procs \ {p} : proc'[q] = proc[q]
  BY <1>1 DEF Leaves, FilesOK, HasReset
<1> QED BY <1>1, <1>7, <1>8, FilesKept DEF VersionsMove, CleanMoves

\* A step of a reset leaves the work, or takes it away.
LEMMA FilesReset ==
  ASSUME FilesInv, IndInv', NEW p \in Procs, proc[p].pc = "reset", NEW box \in BoxRecords, NEW new,
         boxes' = [boxes EXCEPT ![proc[p].box] = box], rows' = rows, Tramples(p), Goto(p, new),
         box.work = Box(p).work \/ box.work \in {0, Gone},
         new.pc = "reset" /\ new.stage \in {2, 3} => new.kept.work = Gone,
         new.pc = "save" \/ (new.pc = "reset" /\ new.stage = 6) =>
           box.work \in {0, Gone} /\ new.box = proc[p].box
  PROVE  FilesInv'
<1>1. IndInv /\ Attached(p)
  BY DEF FilesInv, Attached
<1>2. proc[p].box \in DOMAIN boxes
  BY <1>1, BoxOfProc
<1>3. proc'[p] = new /\ \A q \in Procs \ {p} : proc'[q] = proc[q]
  BY <1>1, Became
<1>4. boxes'[proc[p].box] = box /\ \A b \in DOMAIN boxes : b # proc[p].box => boxes'[b] = boxes[b]
  BY <1>2
<1>5. FilesMove
  BY <1>2, <1>4 DEF FilesMove, Box
<1>6. FilesOK(p)'
  BY <1>3, <1>4 DEF FilesOK, HasReset, Box
<1>7. trampled => trampled'
  BY DEF Tramples
<1> QED BY <1>3, <1>5, <1>6, <1>7, FilesKept DEF VersionsMove, CleanMoves

LEMMA FilesStage ==
  ASSUME FilesInv, IndInv', NEW p \in Procs, NEW n \in 1..5, AtStage(p, n), NEW box \in BoxRecords,
         NEW kept \in Trees, Reset(p, box, kept), n \in {1, 2} => kept.work = Gone,
         box.work = Box(p).work \/ box.work \in {0, Gone}, n = 5 => box.work \in {0, Gone}
  PROVE  FilesInv'
<1> DEFINE new == [proc[p] EXCEPT !.stage = @ + 1, !.kept = kept]
<1>1. proc[p].pc = "reset" /\ proc[p].stage = n /\ proc[p] \in ProcRecords
  BY Shapes DEF AtStage, FilesInv, IndInv
<1>2. /\ new.pc = "reset" /\ new.stage = n + 1 /\ new.kept = kept /\ new.box = proc[p].box
  BY <1>1 DEF ProcRecords
<1>3. Goto(p, new) /\ boxes' = [boxes EXCEPT ![proc[p].box] = box] /\ Tramples(p) /\ rows' = rows
  BY DEF Reset
<1>4. /\ new.pc = "reset" /\ new.stage \in {2, 3} => new.kept.work = Gone
      /\ new.pc = "save" \/ (new.pc = "reset" /\ new.stage = 6) =>
           box.work \in {0, Gone} /\ new.box = proc[p].box
  BY <1>2
<1> HIDE DEF new
<1> QED BY <1>1, <1>3, <1>4, FilesReset

LEMMA FilesCopy ==
  ASSUME FilesInv, IndInv', NEW p \in Procs,
         Copy(p) \/ KeepBase(p) \/ KeepWork(p) \/ PutBase(p) \/ PutWork(p)
  PROVE  FilesInv'
<1>1. proc[p].pc = "reset" /\ Attached(p) /\ IndInv
  BY DEF FilesInv, Copy, KeepBase, KeepWork, PutBase, PutWork, AtStage, Attached
<1>2. proc[p] \in ProcRecords /\ Box(p) \in BoxRecords
  BY <1>1, BoxOfProc
<1>3. proc[p].kept \in Trees /\ source \in Nat
  BY <1>1, <1>2 DEF ProcRecords, IndInv, ShapeOK
<1>5. CASE Copy(p)
  <2> DEFINE kept == [NoTrees EXCEPT !.new = source]
  <2>1. kept \in Trees /\ kept.work = Gone
    BY <1>3 DEF NoTrees, Trees, Versions, Gone
  <2>2. AtStage(p, 1) /\ Reset(p, Box(p), kept)
    BY <1>5 DEF Copy
  <2> HIDE DEF kept
  <2> QED BY <1>2, <2>1, <2>2, FilesStage
<1>6. CASE KeepBase(p)
  <2> DEFINE box == [Box(p) EXCEPT !.base = Gone]
             kept == [proc[p].kept EXCEPT !.base = Box(p).base]
  <2>1. box \in BoxRecords /\ box.work = Box(p).work /\ kept \in Trees /\ kept.work = proc[p].kept.work
    BY <1>2, <1>3 DEF BoxRecords, Trees, Versions
  <2>2. AtStage(p, 2) /\ Reset(p, box, kept)
    BY <1>6 DEF KeepBase
  <2>3. proc[p].kept.work = Gone
    BY <2>2 DEF FilesInv, FilesOK, AtStage
  <2> HIDE DEF box, kept
  <2> QED BY <2>1, <2>2, <2>3, FilesStage
<1>7. CASE KeepWork(p)
  <2> DEFINE box == [Box(p) EXCEPT !.work = Gone]
             kept == [proc[p].kept EXCEPT !.work = Box(p).work]
  <2>1. box \in BoxRecords /\ box.work = Gone /\ kept \in Trees
    BY <1>2, <1>3 DEF BoxRecords, Trees, Versions
  <2>2. AtStage(p, 3) /\ Reset(p, box, kept)
    BY <1>7 DEF KeepWork
  <2> HIDE DEF box, kept
  <2> QED BY <2>1, <2>2, FilesStage
<1>8. CASE PutBase(p)
  <2> DEFINE box == [Box(p) EXCEPT !.base = proc[p].kept.new]
  <2>1. box \in BoxRecords /\ box.work = Box(p).work
    BY <1>2, <1>3 DEF BoxRecords, Trees
  <2>2. AtStage(p, 4) /\ Reset(p, box, proc[p].kept)
    BY <1>8 DEF PutBase
  <2> HIDE DEF box
  <2> QED BY <1>3, <2>1, <2>2, FilesStage
<1>9. CASE PutWork(p)
  <2> DEFINE box == [Box(p) EXCEPT !.work = 0]
  <2>1. box \in BoxRecords /\ box.work = 0
    BY <1>2 DEF BoxRecords, RunIds
  <2>2. AtStage(p, 5) /\ Reset(p, box, proc[p].kept)
    BY <1>9 DEF PutWork
  <2> HIDE DEF box
  <2> QED BY <1>3, <2>1, <2>2, FilesStage
<1> QED BY <1>5, <1>6, <1>7, <1>8, <1>9

LEMMA FilesEnds ==
  ASSUME FilesInv, IndInv', NEW p \in Procs, ResetEnds(p)
  PROVE  FilesInv'
<1> DEFINE new == [proc[p] EXCEPT !.pc = "save", !.stage = 0, !.kept = NoTrees]
           box == [Box(p) EXCEPT !.saved = Gone]
<1>1. proc[p].pc = "reset" /\ Attached(p) /\ IndInv
  BY DEF FilesInv, ResetEnds, AtStage, Attached
<1>2. proc[p] \in ProcRecords /\ Box(p) \in BoxRecords
  BY <1>1, BoxOfProc
<1>3. box \in BoxRecords /\ box.work = Box(p).work
  BY <1>2 DEF BoxRecords
<1>4. new.pc = "save" /\ new.box = proc[p].box
  BY <1>2 DEF ProcRecords
<1>5. Goto(p, new) /\ boxes' = [boxes EXCEPT ![proc[p].box] = box] /\ Tramples(p) /\ rows' = rows
  BY DEF ResetEnds, Box
<1> HIDE DEF new, box
<1>6. proc'[p] = new /\ \A q \in Procs \ {p} : proc'[q] = proc[q]
  BY <1>1, <1>5, Became
<1>7. \A b \in DOMAIN boxes : boxes'[b].work = boxes[b].work
  BY <1>3, <1>5 DEF Box
<1>8. (trampled => trampled') /\ FilesMove
  BY <1>5, <1>7 DEF Tramples, FilesMove
<1>9. FilesOK(p)'
  <2> SUFFICES ASSUME ~trampled', Owns(p)'
               PROVE  Box(p)'.work \in {0, Gone}
    BY <1>4, <1>6 DEF FilesOK
  <2>1. Owns(p) /\ HasReset(p) /\ ~trampled
    <3>1. new.row = proc[p].row /\ new.version = proc[p].version
      BY <1>2 DEF ProcRecords, new
    <3> QED BY <1>5, <1>6, <1>8, <3>1 DEF Owns, Row, HasReset, ResetEnds, AtStage
  <2>2. Box(p).work \in {0, Gone} /\ proc[p].box \in DOMAIN boxes
    BY <1>1, <2>1, BoxOfProc DEF FilesInv, FilesOK
  <2> QED BY <1>4, <1>6, <1>7, <2>2 DEF Box
<1> QED BY <1>5, <1>6, <1>8, <1>9, FilesKept DEF VersionsMove, CleanMoves

LEMMA FilesFail ==
  ASSUME FilesInv, IndInv', ~ResetFaults, NEW p \in Procs, ResetFails(p)
  PROVE  FilesInv'
<1> DEFINE box == [Box(p) EXCEPT !.base = proc[p].kept.base, !.work = proc[p].kept.work]
<1>1. proc[p].pc = "reset" /\ Attached(p) /\ IndInv
  BY DEF FilesInv, ResetFails, Attached
<1>2. proc[p] \in ProcRecords /\ Box(p) \in BoxRecords
  BY <1>1, BoxOfProc
<1>3. /\ proc[p].kept.base \in Versions /\ proc[p].kept.work \in {Gone} \cup RunIds
  BY <1>2 DEF ProcRecords, Trees
<1>4. proc[p].kept.work = Gone
  BY DEF ResetFails, AtStage, FilesInv, FilesOK
<1>5. box \in BoxRecords /\ box.work = Gone
  BY <1>2, <1>3, <1>4 DEF BoxRecords
<1>6. Goto(p, Troubled(p)) /\ boxes' = [boxes EXCEPT ![proc[p].box] = box] /\ Tramples(p) /\ rows' = rows
  BY DEF ResetFails, Box
<1>7. Troubled(p).pc \in {"off", "idle"}
  BY <1>1, TroubledShape
<1> HIDE DEF box
<1> QED BY <1>1, <1>5, <1>6, <1>7, FilesReset

LEMMA FilesWritten ==
  ASSUME FilesInv, IndInv', NEW p \in Procs, Attached(p), NEW row, Owns(p),
         rows' = [rows EXCEPT ![proc[p].row] = row], row.version = Row(p).version + 1,
         UNCHANGED <<boxes, trampled>>, \A q \in Procs \ {p} : proc'[q] = proc[q],
         ~trampled /\ row.status = "CLEAN" => Box(p).work \in {0, Gone}, FilesOK(p)'
  PROVE  FilesInv'
<1>1. IndInv
  BY DEF FilesInv
<1>2. proc[p].row \in DOMAIN rows /\ proc[p].box = proc[p].row /\ Row(p).version \in Nat
  BY <1>1, BoxOfProc DEF RowRecords
<1>3. DOMAIN rows' = DOMAIN rows /\ rows'[proc[p].row] = row
      /\ \A i \in DOMAIN rows : i # proc[p].row => rows'[i] = rows[i]
  BY <1>2
<1>4. VersionsMove /\ CleanMoves
  BY <1>2, <1>3 DEF VersionsMove, CleanMoves, Row, Box
<1> QED BY <1>4, FilesKept DEF FilesMove

\* What a save makes of the row and of the process.
LEMMA Saved ==
  ASSUME IndInv, NEW p \in Procs, Save(p)
  PROVE  /\ Owns(p) /\ Attached(p) /\ HasReset(p) /\ \A q \in Procs \ {p} : proc'[q] = proc[q]
         /\ \E row : /\ rows' = [rows EXCEPT ![proc[p].row] = row] /\ row.version = Row(p).version + 1
                     /\ <<Row(p).status, row.status>> \in ALLOWED_TRANSITIONS
                     /\ proc'[p].pc = "idle" => row.status = "CLEAN" /\ row.manifest = 0
         /\ proc'[p].pc \in {"idle", "save"} /\ proc'[p].row = proc[p].row /\ proc'[p].box = proc[p].box
         /\ proc'[p].version = proc[p].version + 1
         /\ proc'[p].pc = "idle" => proc'[p].told = SavedAnswer(p)
<1> DEFINE status   == Head(proc[p].left)
           last     == Len(proc[p].left) = 1
           manifest == IF last THEN 0 ELSE proc[p].manifest
           run      == IF last /\ proc[p].why = "discard" THEN 0 ELSE Row(p).run
           row == [[Row(p) EXCEPT !.status = status, !.manifest = manifest, !.run = run]
                     EXCEPT !.version = Row(p).version + 1]
           pc == IF last THEN "idle" ELSE "save"
           why == IF last THEN "none" ELSE proc[p].why
           told == IF last THEN SavedAnswer(p) ELSE proc[p].told
           half == [proc[p] EXCEPT !.pc = pc, !.status = status, !.version = proc[p].version + 1,
                                   !.manifest = manifest]
           new == [half EXCEPT !.left = Tail(proc[p].left), !.why = why,
                               !.auto = proc[p].auto /\ ~last, !.told = told]
<1>1. Attached(p) /\ Owns(p) /\ proc[p].pc = "save" /\ HasReset(p)
  BY DEF Save, Attached, HasReset
<1>2. /\ proc[p] \in ProcRecords /\ Row(p) \in RowRecords /\ ProcOK(p)
  BY <1>1, BoxOfProc
<1>3. /\ <<proc[p].status, proc[p].left>> \in Leavings /\ proc[p].status = Row(p).status
  BY <1>1, <1>2 DEF ProcOK, LeftOK, MemoryOK
<1>4. <<Row(p).status, status>> \in ALLOWED_TRANSITIONS /\ (last => status = "CLEAN")
  BY <1>3 DEF Leavings, ALLOWED_TRANSITIONS
<1>5. rows' = [rows EXCEPT ![proc[p].row] = row]
  BY <1>2 DEF Save, Update, RowRecords
<1>6. Goto(p, new)
  BY <1>1, <1>2 DEF Save, ProcRecords
<1>7. last => pc = "idle" /\ manifest = 0 /\ told = SavedAnswer(p)
  OBVIOUS
<1>8. ~last => pc = "save"
  OBVIOUS
<1>9. half.pc = pc /\ half.row = proc[p].row /\ half.box = proc[p].box
      /\ half.version = proc[p].version + 1
  BY <1>2 DEF ProcRecords
<1>10. half = [proc[p] EXCEPT !.pc = half.pc, !.status = half.status, !.version = half.version,
                              !.manifest = half.manifest]
  BY <1>2 DEF ProcRecords
<1>11. new.pc = pc /\ new.row = proc[p].row /\ new.box = proc[p].box
       /\ new.version = proc[p].version + 1 /\ new.told = told
  BY <1>2 DEF ProcRecords
<1>12. row.status = status /\ row.manifest = manifest /\ row.version = Row(p).version + 1
  BY <1>2 DEF RowRecords
<1> HIDE DEF new, row, half, status, last, manifest, run, pc, why, told
<1>13. proc'[p] = new /\ \A q \in Procs \ {p} : proc'[q] = proc[q]
  BY <1>6, Became
<1>14. pc \in {"idle", "save"} /\ (pc = "idle" => last)
  BY <1>7, <1>8
<1>15. /\ rows' = [rows EXCEPT ![proc[p].row] = row] /\ row.version = Row(p).version + 1
       /\ <<Row(p).status, row.status>> \in ALLOWED_TRANSITIONS
       /\ proc'[p].pc = "idle" => row.status = "CLEAN" /\ row.manifest = 0
  BY <1>4, <1>5, <1>7, <1>11, <1>12, <1>13, <1>14
<1>16. /\ proc'[p].pc \in {"idle", "save"} /\ proc'[p].row = proc[p].row /\ proc'[p].box = proc[p].box
       /\ proc'[p].version = proc[p].version + 1
       /\ proc'[p].pc = "idle" => proc'[p].told = SavedAnswer(p)
  BY <1>7, <1>11, <1>13, <1>14
<1> QED BY <1>1, <1>13, <1>15, <1>16

\* What the end of a run makes of the row and of the process.
LEMMA Finished ==
  ASSUME IndInv, NEW p \in Procs, Finish(p)
  PROVE  /\ Owns(p) /\ Attached(p) /\ \A q \in Procs \ {p} : proc'[q] = proc[q]
         /\ \E row : /\ rows' = [rows EXCEPT ![proc[p].row] = row] /\ row.version = Row(p).version + 1
                     /\ <<Row(p).status, row.status>> \in ALLOWED_TRANSITIONS
                     /\ row.status = "CLEAN" => Box(p).work = 0
                     /\ proc'[p].told = "failed" => row.status \in {"CLEAN", "DIRTY_FAILED"}
         /\ proc'[p].pc \in {"idle", "apply"} /\ proc'[p].row = proc[p].row /\ proc'[p].box = proc[p].box
         /\ proc'[p].version = proc[p].version + 1 /\ proc'[p].told \notin {"applied", "discarded"}
<1> DEFINE status == StatusAfterRun(p)
           manifest == IF status = "DIRTY_VERIFIED" THEN proc[p].run ELSE Row(p).manifest
           row == [[Row(p) EXCEPT !.status = status, !.run = 0, !.manifest = manifest]
                     EXCEPT !.version = Row(p).version + 1]
           told == Result(p)
<1>1. Attached(p) /\ Owns(p) /\ Row(p).status = "RUNNING"
  BY DEF Finish, Finishable, Attached
<1>2. proc[p] \in ProcRecords /\ Row(p) \in RowRecords
  BY <1>1, BoxOfProc
<1>3. PICK auto \in BOOLEAN :
        Goto(p, [proc[p] EXCEPT
                !.pc = IF auto THEN "apply" ELSE "idle", !.auto = auto, !.told = Result(p),
                !.status = status, !.version = @ + 1, !.manifest = manifest, !.run = 0,
                !.outcome = "none", !.final = 0])
  BY DEF Finish
<1> DEFINE pc == IF auto THEN "apply" ELSE "idle"
           new == [proc[p] EXCEPT !.pc = pc, !.auto = auto, !.told = told, !.status = status,
                                  !.version = proc[p].version + 1, !.manifest = manifest, !.run = 0,
                                  !.outcome = "none", !.final = 0]
<1>4. Goto(p, new)
  BY <1>2, <1>3 DEF ProcRecords
<1>5. rows' = [rows EXCEPT ![proc[p].row] = row]
  BY <1>2 DEF Finish, Update, RowRecords
<1>6. /\ status \in {"CLEAN", "DIRTY_VERIFIED", "DIRTY_FAILED"} /\ (status = "CLEAN" => Box(p).work = 0)
      /\ told \notin {"applied", "discarded"} /\ (told = "failed" => status # "DIRTY_VERIFIED")
      /\ pc \in {"idle", "apply"}
  BY DEF StatusAfterRun, Result
<1> HIDE DEF status, manifest, told, pc
<1>7. new.pc = pc /\ new.row = proc[p].row /\ new.box = proc[p].box
      /\ new.version = proc[p].version + 1 /\ new.told = told
  BY <1>2 DEF ProcRecords
<1>8. row.status = status /\ row.version = Row(p).version + 1
  BY <1>2 DEF RowRecords
<1> HIDE DEF new, row
<1>9. proc'[p] = new /\ \A q \in Procs \ {p} : proc'[q] = proc[q]
  BY <1>4, Became
<1>10. <<Row(p).status, row.status>> \in ALLOWED_TRANSITIONS
  BY <1>1, <1>6, <1>8 DEF ALLOWED_TRANSITIONS
<1>11. /\ row.status = "CLEAN" => Box(p).work = 0
       /\ proc'[p].told = "failed" => row.status \in {"CLEAN", "DIRTY_FAILED"}
  BY <1>6, <1>7, <1>8, <1>9
<1>12. /\ proc'[p].pc \in {"idle", "apply"} /\ proc'[p].row = proc[p].row /\ proc'[p].box = proc[p].box
       /\ proc'[p].version = proc[p].version + 1 /\ proc'[p].told \notin {"applied", "discarded"}
  BY <1>6, <1>7, <1>9
<1> QED BY <1>1, <1>5, <1>8, <1>9, <1>10, <1>11, <1>12

\* A run or an apply writes the row it owns.
LEMMA ClaimedOrApplied ==
  ASSUME IndInv, NEW p \in Procs, Claim(p) \/ Apply(p)
  PROVE  /\ Owns(p) /\ Attached(p) /\ proc'[p].row = proc[p].row /\ proc'[p].version = proc[p].version + 1
         /\ \E row : /\ rows' = [rows EXCEPT ![proc[p].row] = row] /\ row.version = Row(p).version + 1
                     /\ <<Row(p).status, row.status>> \in ALLOWED_TRANSITIONS /\ row.status # "CLEAN"
<1>1. Attached(p) /\ Owns(p)
  BY DEF Claim, Claimable, Apply, ApplyAsked, Appliable, Appliable_Anyway, Attached
<1>2. proc[p] \in ProcRecords /\ Row(p) \in RowRecords
  BY <1>1, BoxOfProc
<1>3. CASE Claim(p)
  <2> DEFINE row == [[Row(p) EXCEPT !.status = "RUNNING", !.run = Len(runs) + 1]
                       EXCEPT !.version = Row(p).version + 1]
             new == [proc[p] EXCEPT !.pc = "start", !.run = Len(runs) + 1, !.status = "RUNNING",
                                    !.version = proc[p].version + 1, !.told = "none"]
  <2>1. Row(p).status = "CLEAN" /\ rows' = [rows EXCEPT ![proc[p].row] = row]
    BY <1>3 DEF Claim, Claimable, Update
  <2>2. row.status = "RUNNING" /\ row.version = Row(p).version + 1
    BY <1>2 DEF RowRecords
  <2>3. Goto(p, new)
    BY <1>2, <1>3 DEF Claim, ProcRecords
  <2>4. new.row = proc[p].row /\ new.version = proc[p].version + 1
    BY <1>2 DEF ProcRecords
  <2> HIDE DEF row, new
  <2>5. proc'[p] = new
    BY <2>3, Became
  <2>6. <<Row(p).status, row.status>> \in ALLOWED_TRANSITIONS /\ row.status # "CLEAN"
    BY <2>1, <2>2 DEF ALLOWED_TRANSITIONS
  <2> QED BY <1>1, <2>1, <2>2, <2>4, <2>5, <2>6
<1>4. CASE Apply(p)
  <2> DEFINE row == [[Row(p) EXCEPT !.status = "APPLIED"] EXCEPT !.version = Row(p).version + 1]
             told == IF proc[p].auto THEN proc[p].told ELSE "none"
             new == [proc[p] EXCEPT !.pc = "reset", !.stage = 1, !.why = "apply", !.left = <<"CLEAN">>,
                             !.status = "APPLIED", !.version = proc[p].version + 1, !.told = told]
  <2>1. Row(p).status = "DIRTY_VERIFIED" /\ rows' = [rows EXCEPT ![proc[p].row] = row]
    BY <1>4 DEF Apply, Appliable, Appliable_Anyway, Update
  <2>2. row.status = "APPLIED" /\ row.version = Row(p).version + 1
    BY <1>2 DEF RowRecords
  <2>3. Goto(p, new)
    BY <1>2, <1>4 DEF Apply, ProcRecords
  <2>4. new.row = proc[p].row /\ new.version = proc[p].version + 1
    BY <1>2 DEF ProcRecords
  <2> HIDE DEF row, new
  <2>5. proc'[p] = new
    BY <2>3, Became
  <2>6. <<Row(p).status, row.status>> \in ALLOWED_TRANSITIONS /\ row.status # "CLEAN"
    BY <2>1, <2>2 DEF ALLOWED_TRANSITIONS
  <2> QED BY <1>1, <2>1, <2>2, <2>4, <2>5, <2>6
<1> QED BY <1>3, <1>4

LEMMA FilesRows ==
  ASSUME FilesInv, IndInv', NEW p \in Procs, Claim(p) \/ Apply(p) \/ Save(p) \/ Finish(p)
  PROVE  FilesInv'
<1>1. IndInv /\ UNCHANGED <<boxes, trampled>>
  BY DEF FilesInv, Claim, Apply, Save, Finish, files
<1>2. CASE Claim(p) \/ Apply(p)
  <2>1. FilesOK(p)' /\ \A q \in Procs \ {p} : proc'[q] = proc[q]
    BY <1>1, <1>2, RunLeaves, EntersReset DEF Leaves, Enters, FilesOK, HasReset
  <2>2. PICK row : /\ rows' = [rows EXCEPT ![proc[p].row] = row] /\ row.version = Row(p).version + 1
                   /\ row.status # "CLEAN"
    BY <1>1, <1>2, ClaimedOrApplied
  <2> QED BY <1>1, <1>2, <2>1, <2>2, ClaimedOrApplied, FilesWritten
<1>3. CASE Finish(p)
  <2>1. FilesOK(p)'
    BY <1>1, <1>3, Finished DEF FilesOK, HasReset
  <2>2. PICK row : /\ rows' = [rows EXCEPT ![proc[p].row] = row] /\ row.version = Row(p).version + 1
                   /\ row.status = "CLEAN" => Box(p).work = 0
    BY <1>1, <1>3, Finished
  <2> QED BY <1>1, <1>3, <2>1, <2>2, Finished, FilesWritten
<1>4. CASE Save(p)
  <2>1. ~trampled => Box(p).work \in {0, Gone}
    BY <1>1, <1>4, Saved DEF FilesInv, FilesOK
  <2>2. FilesOK(p)'
    BY <1>1, <1>4, <2>1, Saved DEF FilesOK, HasReset, Box
  <2>3. PICK row : /\ rows' = [rows EXCEPT ![proc[p].row] = row] /\ row.version = Row(p).version + 1
    BY <1>1, <1>4, Saved
  <2> QED BY <1>1, <1>4, <2>1, <2>2, <2>3, Saved, FilesWritten
<1> QED BY <1>2, <1>3, <1>4

LEMMA FilesOpen ==
  ASSUME FilesInv, IndInv', NEW p \in Procs, Open(p)
  PROVE  FilesInv'
<1>1. IndInv /\ trampled' = trampled
  BY DEF FilesInv, Open
<1>2. FilesOK(p)' /\ \A q \in Procs \ {p} : proc'[q] = proc[q]
  BY <1>1, EntersReset DEF Enters, FilesOK, HasReset
<1>3. CASE UNCHANGED <<rows, boxes>>
  BY <1>1, <1>2, <1>3, FilesKept DEF FilesMove, VersionsMove, CleanMoves
<1>4. CASE boxes' = Append(boxes, NewBox) /\ rows' = Append(rows, NewRow(Len(boxes) + 1))
  <2>1. rows \in Seq(RowRecords) /\ boxes \in Seq(BoxRecords) /\ DOMAIN boxes = DOMAIN rows
    BY <1>1 DEF IndInv, ShapeOK, RowsOK
  <2>2. /\ \A b \in DOMAIN boxes : boxes'[b] = boxes[b]
        /\ boxes'[Len(boxes) + 1] = NewBox
        /\ DOMAIN rows' = DOMAIN rows \cup {Len(boxes) + 1}
        /\ \A i \in DOMAIN rows : rows'[i] = rows[i]
    BY <1>4, <2>1, AppendProperties, LenProperties
  <2>3. NewBox.work = 0
    BY DEF NewBox
  <2>4. FilesMove /\ VersionsMove /\ CleanMoves
    BY <2>2, <2>3 DEF FilesMove, VersionsMove, CleanMoves
  <2> QED BY <1>1, <1>2, <2>4, FilesKept
<1> QED BY <1>3, <1>4 DEF Open

LEMMA FilesEdit ==
  ASSUME FilesInv, IndInv', Edit
  PROVE  FilesInv'
BY DEF Edit, FilesInv, CleanIsBaseline, FilesOK, HasReset, Owns, Row, Box

LEMMA FilesStep ==
  ASSUME ~ResetFaults, FilesInv, [Next]_vars
  PROVE  FilesInv'
<1>1. IndInv /\ IndInv'
  BY Step DEF FilesInv
<1>2. CASE UNCHANGED vars
  BY <1>1, <1>2 DEF vars, files, FilesInv, CleanIsBaseline, FilesOK, HasReset, Owns, Row, Box
<1>3. CASE Edit
  BY <1>1, <1>3, FilesEdit
<1>4. CASE Stopped
  BY <1>2, <1>4 DEF Stopped
<1>5. ASSUME NEW p \in Procs, \/ Start(p) \/ RecoverFails(p) \/ OpenFails(p) \/ Shutdown(p) \/ Crash(p)
                              \/ Refuse(p) \/ DiscardRefused(p) \/ ApplyRefused(p) \/ Inspect(p)
      PROVE  FilesInv'
  BY <1>1, <1>5, OffLeaves, RefuseLeaves, FilesQuiet
     DEF Start, RecoverFails, OpenFails, StartFails, Shutdown, Crash, Refuse, DiscardRefused,
         ApplyRefused, Inspect, files
<1>6. ASSUME NEW p \in Procs, Discard(p)
      PROVE  FilesInv'
  BY <1>1, <1>6, EntersReset, FilesQuiet DEF Discard, files
<1>7. ASSUME NEW p \in Procs, SaveConflicts(p)
      PROVE  FilesInv'
  BY <1>1, <1>7, TroubledLeaves, FilesQuiet DEF SaveConflicts, Attached, files
<1>8. ASSUME NEW p \in Procs, Startup(p)
      PROVE  FilesInv'
  BY <1>1, <1>5, <1>8, FilesRecover, FilesOpen DEF Startup
<1>9. ASSUME NEW p \in Procs, Request(p)
      PROVE  FilesInv'
  BY <1>1, <1>5, <1>6, <1>9, FilesRows DEF Request
<1>10. ASSUME NEW p \in Procs, InRun(p) \/ Returns(p)
      PROVE  FilesInv'
  BY <1>1, <1>10, FilesRun, FilesRows DEF InRun
<1>11. ASSUME NEW p \in Procs, Resetting(p)
       PROVE  FilesInv'
  BY <1>1, <1>7, <1>11, FilesCopy, FilesEnds, FilesFail, FilesRows DEF Resetting
<1>12. ASSUME NEW p \in Procs, Apply(p)
       PROVE  FilesInv'
  BY <1>1, <1>12, FilesRows
<1> QED BY <1>2, <1>3, <1>4, <1>5, <1>8, <1>9, <1>10, <1>11, <1>12 DEF Next

LEMMA FilesInductive ==
  ASSUME ~ResetFaults
  PROVE  Spec => []FilesInv
<1>1. Init => FilesInv
  <2> SUFFICES ASSUME Init
               PROVE  FilesInv
    OBVIOUS
  <2>1. rows = <<>> /\ \A p \in Procs : proc[p].pc = "off"
    BY DEF Init, Off
  <2> QED BY <2>1, Initial DEF FilesInv, CleanIsBaseline, FilesOK, HasReset
<1>2. FilesInv /\ [Next]_vars => FilesInv'
  BY FilesStep
<1> QED BY <1>1, <1>2, PTL DEF Spec

(***************************************************************************)
(* The theorems                                                            *)
(***************************************************************************)
LEMMA TypesOfInv == IndInv => TypeOK
<1> SUFFICES ASSUME IndInv
             PROVE  TypeOK
  OBVIOUS
<1>1. /\ rows \in Seq(RowRecords) /\ runs \in Seq(RunRecords) /\ boxes \in Seq(BoxRecords)
      /\ source \in Nat /\ published \in Seq(DOMAIN runs) /\ trampled \in BOOLEAN
  BY DEF IndInv, ShapeOK
<1>2. {Gone} \cup RunIds = {Gone, 0} \cup DOMAIN runs
  BY DEF RunIds
<1>3. /\ RowRecords = [box : DOMAIN boxes, status : SessionStatuses, version : Nat,
                       run : {0} \cup DOMAIN runs, manifest : {0} \cup DOMAIN runs]
      /\ RunRecords = [status : RunStatuses, box : DOMAIN boxes, base : Nat \cup {Gone},
                       plan : {"none", "ACTIVE", "DONE", "FAILED"}]
      /\ BoxRecords = [base : Nat \cup {Gone}, work : {Gone, 0} \cup DOMAIN runs,
                       open : {0} \cup DOMAIN runs, saved : {Gone, 0} \cup DOMAIN runs]
  BY <1>2 DEF RowRecords, RunRecords, BoxRecords, RunIds, Versions
<1>4. ASSUME NEW p \in Procs
      PROVE  /\ proc[p].pc \in {"off", "recover", "idle", "start", "loop", "finish", "apply", "reset", "save"}
             /\ proc[p].status \in SessionStatuses /\ proc[p].left \in Seq(SessionStatuses)
             /\ proc[p].told \in {"none", "idle", "verified", "attention", "failed", "applied",
                                  "discarded", "error"}
             /\ proc[p].pc \notin {"off", "recover"} => proc[p].row \in DOMAIN rows
  <2>1. proc[p] \in ProcRecords /\ ProcOK(p)
    BY Shapes DEF IndInv
  <2> QED BY <2>1 DEF ProcRecords, Places, Answers, ProcOK, MemoryOK, Attached
<1> QED BY <1>1, <1>3, <1>4 DEF TypeOK

LEMMA OneRunOfInv == IndInv => OneRunPerSession
<1> SUFFICES ASSUME IndInv
             PROVE  OneRunPerSession
  OBVIOUS
<1>1. RowsOK
  BY DEF IndInv
<1>2. \A r \in DOMAIN runs : runs[r].box \in DOMAIN rows /\ r # 0
  BY <1>1, Shapes DEF IndInv, RunRecords, RowsOK
<1>3. ASSUME NEW r \in DOMAIN runs, runs[r].status = "RUNNING"
      PROVE  \E i \in DOMAIN rows : /\ rows[i].run = r /\ rows[i].box = runs[r].box
                                    /\ \A k \in DOMAIN rows \ {i} : rows[k].run # r
  <2>1. rows[runs[r].box].run = r
    BY <1>1, <1>3 DEF RowsOK
  <2>2. \A k \in DOMAIN rows : rows[k].run = r => k = runs[r].box
    BY <1>1, <1>2 DEF RowsOK
  <2> QED BY <1>1, <1>2, <2>1, <2>2 DEF RowsOK
<1>4. ASSUME NEW r \in DOMAIN runs, NEW q \in DOMAIN runs, r # q, runs[r].status = "RUNNING",
             runs[q].status = "RUNNING"
      PROVE  runs[r].box # runs[q].box
  BY <1>1, <1>4 DEF RowsOK
<1> QED BY <1>1, <1>3, <1>4 DEF OneRunPerSession, RowsOK

\* Every variable keeps its shape: see TypeOK.
THEOREM TypeCorrect == Spec => []TypeOK
BY Inductive, TypesOfInv, PTL

\* However many processes there are, start, crash and recover, no two of them run in one session,
\* and a session with work to apply is bound to a verified run: AgentRuntime.run() and the
\* end of a run. No sandbox has to be copied without a fault for that.
THEOREM OneRun == Spec => [](OneRunPerSession /\ VerifiedIsBound)
<1>1. IndInv => OneRunPerSession /\ VerifiedIsBound
  BY OneRunOfInv DEF IndInv
<1> QED BY <1>1, Inductive, PTL

\* As long as the copy of the project into a sandbox does not fail, the row of a session
\* says what is so: above all, a CLEAN session has a sandbox like its baseline. Where it fails
\* under two processes that reset one sandbox, a CLEAN session may keep the work it had.
THEOREM RowsAlwaysTrue ==
  ASSUME ~ResetFaults
  PROVE  Spec => []RowsAreTrue
<1>1. FilesInv => RowsAreTrue
  BY TypesOfInv, OneRunOfInv DEF FilesInv, IndInv, RowsAreTrue
<1> QED BY <1>1, FilesInductive, PTL

\* A step of some process, by what it does to the rows of sessions.
LEMMA RowsWritten ==
  ASSUME IndInv, [Next]_vars, NEW i \in DOMAIN rows, rows'[i] # rows[i]
  PROVE  \E p \in Procs : Claim(p) \/ Apply(p) \/ Save(p) \/ Finish(p)
<1>1. \A p \in Procs : Open(p) => rows'[i] = rows[i]
  <2> SUFFICES ASSUME NEW p \in Procs, Open(p)
               PROVE  rows'[i] = rows[i]
    OBVIOUS
  <2>1. rows \in Seq(RowRecords)
    BY DEF IndInv, ShapeOK
  <2>2. \A e : Append(rows, e)[i] = rows[i]
    BY <2>1, AppendProperties, LenProperties
  <2> QED BY <2>2 DEF Open
<1>2. CASE Next
  BY <1>1, <1>2 DEF Next, Edit, Stopped, Start, Startup, RecoverRun, RecoverFails, OpenFails,
     StartFails, Request, Refuse, Discard, DiscardRefused, Inspect, Shutdown, InRun, Begin, PlanStored,
     OpenAttempt, Write, CloseAttempt, Raises, FinishFails, Returns, ApplyRefused, Resetting, Copy,
     KeepBase, KeepWork, PutBase, PutWork, Reset, ResetEnds, ResetFails, SaveConflicts, Crash, vars, files
<1> QED BY <1>2 DEF vars

\* A row of agent_sessions only moves along ALLOWED_TRANSITIONS, one version at a time, and only
\* by a process that has read the version it writes over.
THEOREM RowsLegal == Spec => RowsMoveLegally
<1>1. ASSUME IndInv, [Next]_vars, NEW i \in DOMAIN rows, rows'[i] # rows[i]
      PROVE  /\ <<rows[i].status, rows'[i].status>> \in ALLOWED_TRANSITIONS
             /\ rows'[i].version = rows[i].version + 1
             /\ \E p \in Procs : /\ proc[p].row = i /\ proc[p].version = rows[i].version
                                  /\ proc'[p].version = rows'[i].version
  <2>1. PICK p \in Procs : Claim(p) \/ Apply(p) \/ Save(p) \/ Finish(p)
    BY <1>1, RowsWritten
  <2>2. /\ Owns(p) /\ Attached(p) /\ proc'[p].version = proc[p].version + 1
        /\ \E row : /\ rows' = [rows EXCEPT ![proc[p].row] = row] /\ row.version = Row(p).version + 1
                    /\ <<Row(p).status, row.status>> \in ALLOWED_TRANSITIONS
    BY <1>1, <2>1, ClaimedOrApplied, Saved, Finished
  <2>3. PICK row : /\ rows' = [rows EXCEPT ![proc[p].row] = row] /\ row.version = Row(p).version + 1
                   /\ <<Row(p).status, row.status>> \in ALLOWED_TRANSITIONS
    BY <2>2
  <2>4. i = proc[p].row /\ rows'[i] = row
    BY <1>1, <2>3
  <2> QED BY <2>2, <2>3, <2>4 DEF Owns, Row
<1>2. IndInv /\ [Next]_vars =>
        [\A i \in DOMAIN rows : rows'[i] # rows[i] =>
           /\ <<rows[i].status, rows'[i].status>> \in ALLOWED_TRANSITIONS
           /\ rows'[i].version = rows[i].version + 1
           /\ \E p \in Procs : /\ proc[p].row = i /\ proc[p].version = rows[i].version
                                /\ proc'[p].version = rows'[i].version]_vars
  BY <1>1
<1> QED BY <1>2, Inductive, PTL DEF Spec, RowsMoveLegally

LEMMA ApplyWrites ==
  ASSUME [Next]_vars, published' # published
  PROVE  \E p \in Procs : Apply(p)
<1>1. ASSUME NEW p \in Procs, Start(p) \/ Startup(p) \/ Request(p) \/ Crash(p) \/ ApplyRefused(p)
      PROVE  published' = published
  BY <1>1 DEF Start, Startup, RecoverRun, RecoverFails, Open, OpenFails, StartFails, Request, Claim,
     Refuse, Discard, DiscardRefused, Inspect, Shutdown, ApplyRefused, Crash, files
<1>2. ASSUME NEW p \in Procs, InRun(p) \/ Returns(p)
      PROVE  published' = published
  BY <1>2 DEF InRun, Begin, PlanStored, OpenAttempt, Write, CloseAttempt, Raises, Finish, FinishFails,
     Returns, files
<1>3. ASSUME NEW p \in Procs, Resetting(p)
      PROVE  published' = published
  BY <1>3 DEF Resetting, Copy, KeepBase, KeepWork, PutBase, PutWork, Reset, ResetEnds, ResetFails,
     Save, SaveConflicts, files
<1> QED BY <1>1, <1>2, <1>3 DEF Next, Edit, Stopped, vars, files

\* Only the work of a run that is DONE reaches the project, once, out of a sandbox that still
\* holds it and onto the files it was verified against: the guards of ApplyService.
THEOREM OnlyVerifiedApplied == Spec => AppliedIsVerified
<1>1. ASSUME IndInv, [Next]_vars, published' # published
      PROVE  \E i \in DOMAIN rows :
               LET m == rows[i].manifest
               IN  /\ published' = Append(published, m) /\ \A k \in DOMAIN published : published[k] # m
                   /\ rows[i].status = "DIRTY_VERIFIED" /\ boxes[rows[i].box].work = m
                   /\ runs[m].status = "DONE" /\ runs[m].base = source
  <2>1. PICK p \in Procs : Apply(p)
    BY <1>1, ApplyWrites
  <2>2. /\ Attached(p) /\ Row(p).status = "DIRTY_VERIFIED" /\ Row(p).manifest = proc[p].manifest
        /\ Box(p).work = proc[p].manifest /\ source = runs[proc[p].manifest].base
        /\ published' = Append(published, proc[p].manifest)
    BY <2>1 DEF Apply, ApplyAsked, Appliable, Appliable_Anyway, Previewed, Attached
  <2>3. proc[p].row \in DOMAIN rows /\ proc[p].box = proc[p].row /\ Row(p).box = proc[p].row
    BY <1>1, <2>2, BoxOfProc
  <2>4. runs[proc[p].manifest].status = "DONE"
    BY <1>1, <2>2, <2>3 DEF IndInv, VerifiedIsBound, Row
  <2>5. \A k \in DOMAIN published : published[k] # proc[p].manifest
    BY <1>1, <2>2, <2>3 DEF IndInv, PublishedOK, Row
  <2> QED BY <2>2, <2>3, <2>4, <2>5 DEF Row, Box
<1>2. IndInv /\ [Next]_vars =>
        [published' # published =>
           \E i \in DOMAIN rows :
             LET m == rows[i].manifest
             IN  /\ published' = Append(published, m) /\ \A k \in DOMAIN published : published[k] # m
                 /\ rows[i].status = "DIRTY_VERIFIED" /\ boxes[rows[i].box].work = m
                 /\ runs[m].status = "DONE" /\ runs[m].base = source]_vars
  BY <1>1
<1> QED BY <1>2, Inductive, PTL DEF Spec, AppliedIsVerified

\* A step that is not the end of a run or a save says nothing that has to be true later.
Tame(p) == /\ \A q \in Procs \ {p} : proc'[q] = proc[q]
           /\ proc'[p].told # proc[p].told => proc'[p].told \notin {"applied", "discarded", "failed"}

LEMMA CopyTells ==
  ASSUME IndInv, NEW p \in Procs,
         Copy(p) \/ KeepBase(p) \/ KeepWork(p) \/ PutBase(p) \/ PutWork(p) \/ ResetEnds(p)
  PROVE  Tame(p)
<1>1. proc[p] \in ProcRecords
  BY Shapes DEF IndInv
<1>2. CASE ResetEnds(p)
  <2> DEFINE new == [proc[p] EXCEPT !.pc = "save", !.stage = 0, !.kept = NoTrees]
  <2>1. new.told = proc[p].told
    BY <1>1 DEF ProcRecords
  <2>2. Goto(p, new)
    BY <1>2 DEF ResetEnds
  <2> HIDE DEF new
  <2> QED BY <2>1, <2>2, Became DEF Tame
<1>3. CASE ~ResetEnds(p)
  <2>1. PICK kept : Goto(p, [proc[p] EXCEPT !.stage = @ + 1, !.kept = kept])
    BY <1>3 DEF Copy, KeepBase, KeepWork, PutBase, PutWork, Reset
  <2> DEFINE new == [proc[p] EXCEPT !.stage = @ + 1, !.kept = kept]
  <2>2. new.told = proc[p].told
    BY <1>1 DEF ProcRecords
  <2>3. Goto(p, new)
    BY <2>1
  <2> HIDE DEF new
  <2> QED BY <2>2, <2>3, Became DEF Tame
<1> QED BY <1>2, <1>3

LEMMA StepTells ==
  ASSUME IndInv, [Next]_vars, NEW p \in Procs, proc'[p].told # proc[p].told
  PROVE  Save(p) \/ Finish(p) \/ proc'[p].told \notin {"applied", "discarded", "failed"}
<1>1. CASE UNCHANGED vars \/ Edit \/ Stopped
  BY <1>1 DEF vars, Edit, Stopped
<1>2. ASSUME NEW q \in Procs,
             \/ Start(q) \/ Startup(q) \/ Request(q) \/ InRun(q) \/ Returns(q)
             \/ Apply(q) \/ ApplyRefused(q) \/ Resetting(q) \/ Crash(q)
      PROVE  Tame(q) \/ Save(q) \/ Finish(q)
  <2>1. Leaves(q) \/ Enters(q) => Tame(q)
    BY DEF Leaves, Enters, Tame
  <2>2. CASE Start(q) \/ Startup(q) \/ Request(q) \/ ApplyRefused(q) \/ Crash(q) \/ Apply(q)
    BY <2>1, <2>2, OffLeaves, RefuseLeaves, RunLeaves, EntersReset DEF Startup, Request
  <2>3. CASE InRun(q) \/ Returns(q)
    BY <2>1, <2>3, RunLeaves DEF InRun
  <2>4. CASE Resetting(q)
    <3>1. ResetFails(q) \/ SaveConflicts(q) => Attached(q)
      BY DEF ResetFails, SaveConflicts, Attached
    <3> QED BY <2>1, <2>4, <3>1, TroubledLeaves, CopyTells DEF Resetting
  <2> QED BY <1>2, <2>2, <2>3, <2>4
<1>3. ASSUME NEW q \in Procs, Tame(q) \/ Save(q) \/ Finish(q)
      PROVE  Save(p) \/ Finish(p) \/ proc'[p].told \notin {"applied", "discarded", "failed"}
  <2>1. \A o \in Procs \ {q} : proc'[o] = proc[o]
    BY <1>3, Saved, Finished DEF Tame
  <2>2. p = q
    BY <2>1
  <2> QED BY <1>3, <2>2 DEF Tame
<1> QED BY <1>1, <1>2, <1>3 DEF Next

\* As long as the copy of the project into a sandbox does not fail, an answer of the backend is
\* what happened: what is called applied is in the project, and a discarded sandbox is empty.
THEOREM RepliesAlwaysTrue ==
  ASSUME ~ResetFaults
  PROVE  Spec => RepliesAreTrue
<1>1. ASSUME FilesInv, FilesInv', [Next]_vars, NEW p \in Procs, proc'[p].pc = "idle",
             proc'[p].told # proc[p].told
      PROVE  LET row == rows'[proc'[p].row] box == boxes'[proc'[p].box]
             IN  /\ proc'[p].told \in {"applied", "discarded"} => row.status = "CLEAN" /\ row.manifest = 0
                 /\ proc'[p].told = "applied" => \E k \in DOMAIN published : published[k] = proc[p].manifest
                 /\ proc'[p].told = "discarded" /\ ~trampled' => box.work \in {0, Gone}
                 /\ proc'[p].told = "failed" => row.status \in {"CLEAN", "DIRTY_FAILED"}
  <2>1. IndInv
    BY <1>1 DEF FilesInv
  <2>2. CASE proc'[p].told \notin {"applied", "discarded", "failed"}
    BY <2>2
  <2>3. CASE Save(p)
    <3>1. PICK row : /\ rows' = [rows EXCEPT ![proc[p].row] = row]
                     /\ row.status = "CLEAN" /\ row.manifest = 0
      BY <1>1, <2>1, <2>3, Saved
    <3>2. /\ proc[p].row \in DOMAIN rows /\ proc'[p].row = proc[p].row /\ proc'[p].box = proc[p].box
          /\ proc'[p].told = SavedAnswer(p) /\ Owns(p) /\ HasReset(p) /\ proc[p].pc = "save"
          /\ proc[p].box \in DOMAIN boxes /\ ProcOK(p)
      BY <1>1, <2>1, <2>3, Saved, BoxOfProc DEF Save
    <3>3. rows'[proc'[p].row] = row
      BY <3>1, <3>2
    <3>4. proc'[p].told = "applied" => \E k \in DOMAIN published : published[k] = proc[p].manifest
      BY <3>2 DEF SavedAnswer, ProcOK, LeftOK
    <3>5. boxes' = boxes /\ trampled' = trampled
      BY <2>3 DEF Save, files
    <3>6. ~trampled => Box(p).work \in {0, Gone}
      BY <1>1, <3>2 DEF FilesInv, FilesOK
    <3>7. proc'[p].told # "failed"
      BY <3>2 DEF SavedAnswer
    <3> QED BY <3>1, <3>2, <3>3, <3>4, <3>5, <3>6, <3>7 DEF Box
  <2>4. CASE Finish(p)
    <3>1. PICK row : /\ rows' = [rows EXCEPT ![proc[p].row] = row]
                     /\ proc'[p].told = "failed" => row.status \in {"CLEAN", "DIRTY_FAILED"}
      BY <2>1, <2>4, Finished
    <3>2. proc[p].row \in DOMAIN rows /\ proc'[p].row = proc[p].row
          /\ proc'[p].told \notin {"applied", "discarded"}
      BY <2>1, <2>4, Finished, BoxOfProc
    <3>3. rows'[proc'[p].row] = row
      BY <3>1, <3>2
    <3> QED BY <3>1, <3>2, <3>3
  <2> QED BY <1>1, <2>1, <2>2, <2>3, <2>4, StepTells
<1>2. FilesInv /\ FilesInv' /\ [Next]_vars =>
        [\A p \in Procs : proc'[p].pc = "idle" /\ proc'[p].told # proc[p].told =>
           LET row == rows'[proc'[p].row] box == boxes'[proc'[p].box]
           IN  /\ proc'[p].told \in {"applied", "discarded"} => row.status = "CLEAN" /\ row.manifest = 0
               /\ proc'[p].told = "applied" => \E k \in DOMAIN published : published[k] = proc[p].manifest
               /\ proc'[p].told = "discarded" /\ ~trampled' => box.work \in {0, Gone}
               /\ proc'[p].told = "failed" => row.status \in {"CLEAN", "DIRTY_FAILED"}]_vars
  BY <1>1
<1> QED BY <1>2, FilesInductive, PTL DEF Spec, RepliesAreTrue
=============================================================================
