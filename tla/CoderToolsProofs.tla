------------------------- MODULE CoderToolsProofs -------------------------
(***************************************************************************)
(* The coder, the commands its tools run, and the verifier that judges it. *)
(*                                                                         *)
(* SlotsAreKept and OutputIsTrue of CommandRunner, for any number of calls *)
(* and every limit. Slots need the set of the calls that hold one, and     *)
(* that a client runs only for such a call. The results need how much of   *)
(* the output is retained at every moment, and why a call is being         *)
(* stopped.                                                                *)
(*                                                                         *)
(* Verification is a run of the runner with a verifier beside it, so all   *)
(* of this holds of it. EvidenceIsCurrent needs that revisions only grow:  *)
(* what a result rests on lies between the first look and the second.      *)
(*                                                                         *)
(* The invariants of CoderExecutor, for every set of paths, scope, budget, *)
(* answer of the model and fault. What was validated stays true while the  *)
(* envelope is written: its paths differ, so writing one of them changes   *)
(* nothing the others were validated for. What is undone can be put back,  *)
(* as a directory above a file that was there is never written to.         *)
(***************************************************************************)
EXTENDS Verification, CoderExecutor, FiniteSetTheorems, TLAPS

Holders == {c \in Calls : call[c].pc \in Holding}

CallRecords == [pc : Holding \cup {"idle", "asked", "returned"},
                reason : {No, Flooded, Cancelled, TimedOut}, code : Codes \cup {No}]

Clients == {Up, No} \cup Codes

\* The shape of every function; RunnerTypeOK speaks of their values.
ShapeOK ==
  /\ slots \in Nat /\ cached \in {"unknown", "yes", "no"}
  /\ call \in [Calls -> CallRecords]
  /\ client \in [Calls -> Clients]
  /\ container \in [Calls -> {"none", "up", "gone"}]
  /\ printed \in [Calls -> Nat] /\ piped \in [Calls -> Nat] /\ kept \in [Calls -> Nat]
  /\ \A c \in Calls : printed[c] <= MaxPrinted[c]
  /\ marked \in [Calls -> BOOLEAN] /\ cancelled \in [Calls -> BOOLEAN]

SlotsOK == slots + Cardinality(Holders) = MaxConcurrent

\* A client runs only while its call polls it or stops it, and there is none before that.
ClientOK ==
  \A c \in Calls : /\ client[c] = Up => call[c].pc \in {"polling", "stopping", "killing"}
                   /\ call[c].pc \in {"idle", "asked", "admitted"} => client[c] = No

\* What was drained is retained, up to the limit.
KeptOK ==
  \A c \in Calls : /\ piped[c] <= printed[c]
                   /\ kept[c] = IF Drained(c) <= MaxOutput THEN Drained(c) ELSE MaxOutput

\* A call is stopped, and answered, for what happened.
ReasonOK ==
  \A c \in Calls :
    /\ call[c].reason = Flooded   => printed[c] > MaxOutput
    /\ call[c].reason = Cancelled => cancelled[c]
    /\ call[c].pc # "returned" => call[c].code = No
Whole(c, code) ==
  /\ client[c] = code /\ code # Killed /\ ~marked[c]
  /\ piped[c] = 0 /\ printed[c] <= MaxOutput
AnswerOK ==
  \A c \in Calls \ Probes : At(c, "returned") => Caused(c, call[c].code) \/ Whole(c, call[c].code)

SlotInv   == ShapeOK /\ SlotsOK /\ ClientOK
ResultInv == ReasonOK /\ AnswerOK

LEMMA CodeRange ==
  /\ {OK, Killed, Capacity, NoDaemon, NoImage, Flooded, Cancelled, TimedOut} \subseteq Codes
  /\ Up \notin Codes /\ No \notin Codes
BY DEF Codes, OK, Killed, Capacity, NoDaemon, NoImage, Flooded, Cancelled, TimedOut, Up, No, CallRecords

\* The codes and states are small sets of literals: every proof may look at them.
USE CodeRange DEF Holding, Clients, OK, Killed, Capacity, NoDaemon, NoImage, Flooded, Cancelled, TimedOut, Up, No, CallRecords

(***************************************************************************)
(* Slots                                                                   *)
(***************************************************************************)
\* A call that does not move between the holders and the others leaves their number alone.
LEMMA HoldersStay ==
  ASSUME NEW c \in Calls, NEW new, ShapeOK, call' = [call EXCEPT ![c] = new],
         new.pc \in Holding <=> call[c].pc \in Holding
  PROVE  Holders' = Holders
BY DEF ShapeOK, Holders

LEMMA HoldersLeave ==
  ASSUME NEW c \in Calls, NEW new, ShapeOK, call' = [call EXCEPT ![c] = new],
         new.pc \notin Holding, call[c].pc \in Holding
  PROVE  Cardinality(Holders') = Cardinality(Holders) - 1
<1>1. IsFiniteSet(Holders)
  BY CallAssumption, FS_Subset DEF Holders
<1>2. Holders' = Holders \ {c} /\ c \in Holders
  BY DEF ShapeOK, Holders
<1> QED BY <1>1, <1>2, FS_RemoveElement

LEMMA HoldersJoin ==
  ASSUME NEW c \in Calls, NEW new, ShapeOK, call' = [call EXCEPT ![c] = new],
         new.pc \in Holding, call[c].pc \notin Holding
  PROVE  Cardinality(Holders') = Cardinality(Holders) + 1
<1>1. IsFiniteSet(Holders)
  BY CallAssumption, FS_Subset DEF Holders
<1>2. Holders' = Holders \cup {c} /\ c \notin Holders
  BY DEF ShapeOK, Holders
<1> QED BY <1>1, <1>2, FS_AddElement

LEMMA HoldersAreCounted == ASSUME ShapeOK PROVE Cardinality(Holders) \in Nat
BY CallAssumption, FS_Subset, FS_CardinalityType DEF Holders

LEMMA InitIsSlotInv == RunnerInit => SlotInv
<1> SUFFICES ASSUME RunnerInit PROVE SlotInv
  OBVIOUS
<1>1. ShapeOK
  BY OutputAssumption DEF RunnerInit, ShapeOK
<1>2. Holders = {}
  BY DEF RunnerInit, Holders
<1>3. SlotsOK
  BY <1>2, FS_EmptySet, OutputAssumption DEF SlotsOK, RunnerInit
<1>4. ClientOK
  BY DEF RunnerInit, ClientOK
<1> QED BY <1>1, <1>3, <1>4 DEF SlotInv

\* One case per action; the slots follow from what the action does to one call.
LEMMA StepKeepsSlots ==
  ASSUME SlotInv, [RunnerNext]_runnerVars
  PROVE  SlotInv'
<1> USE OutputAssumption
<1>0. ShapeOK /\ SlotsOK /\ ClientOK
  BY DEF SlotInv
<1>n. Cardinality(Holders) \in Nat
  BY <1>0, HoldersAreCounted
<1>1. CASE UNCHANGED runnerVars
  <2>1. Holders' = Holders
    BY <1>1 DEF Holders, runnerVars
  <2> QED BY <1>0, <1>1, <2>1 DEF SlotInv, ShapeOK, SlotsOK, ClientOK, runnerVars, docker, output
<1>2. ASSUME NEW c \in Calls, Ask(c)
      PROVE  SlotInv'
  <2>1. PICK new : /\ call' = [call EXCEPT ![c] = new] /\ new.pc \notin Holding
                   /\ new \in CallRecords
                   /\ slots' = slots
    BY <1>0, <1>2 DEF Ask, At, Goto, Refuse, ShapeOK
  <2>2. Holders' = Holders
    BY <1>0, <1>2, <2>1, HoldersStay DEF Ask, At
  <2>3. ShapeOK'
    BY <1>0, <1>2, <2>1 DEF Ask, ShapeOK, docker, output
  <2>4. ClientOK'
    BY <1>0, <1>2, <2>1 DEF Ask, ClientOK, At, ShapeOK
  <2> QED BY <1>0, <2>1, <2>2, <2>3, <2>4 DEF SlotInv, SlotsOK
<1>3. ASSUME NEW c \in Calls, Admit(c)
      PROVE  SlotInv'
  <2>1. PICK new : /\ call' = [call EXCEPT ![c] = new]
                   /\ new \in CallRecords
                   /\ \/ slots > 0 /\ slots' = slots - 1 /\ new.pc = "admitted"
                      \/ slots' = slots /\ new.pc = "returned"
    <3>0. call[c] \in CallRecords
      BY <1>0 DEF ShapeOK
    <3>1. CASE slots > 0
      <4>1. call' = [call EXCEPT ![c] = [call[c] EXCEPT !.pc = "admitted"]] /\ slots' = slots - 1
        BY <1>0, <1>3, <3>1 DEF Admit, Goto, Free, ShapeOK
      <4>2. [call[c] EXCEPT !.pc = "admitted"] \in CallRecords /\ [call[c] EXCEPT !.pc = "admitted"].pc = "admitted"
        BY <3>0
      <4> QED BY <3>1, <4>1, <4>2
    <3>2. CASE ~(slots > 0)
      <4>1. /\ call' = [call EXCEPT ![c] = [call[c] EXCEPT !.pc = "returned", !.code = Capacity]]
            /\ slots' = slots
        <5>1. Refuse(c, Capacity)
          BY <1>3, <3>2 DEF Admit, Free
        <5> QED BY <1>0, <5>1 DEF Refuse, ShapeOK
      <4> DEFINE new == [call[c] EXCEPT !.pc = "returned", !.code = Capacity]
      <4>2. new \in CallRecords /\ new.pc = "returned"
        <5> DEFINE half == [call[c] EXCEPT !.pc = "returned"]
        <5>1. half \in CallRecords /\ half.pc = "returned" /\ new = [half EXCEPT !.code = Capacity]
          BY <3>0
        <5> HIDE DEF half, new
        <5> QED BY <5>1
      <4>3. call' = [call EXCEPT ![c] = new] /\ slots' = slots
        BY <4>1
      <4> HIDE DEF new
      <4> QED BY <4>2, <4>3
    <3> QED BY <3>1, <3>2
  <2>2. ShapeOK'
    BY <1>0, <1>3, <2>1 DEF Admit, ShapeOK, docker, output
  <2>3. ClientOK'
    BY <1>0, <1>3, <2>1 DEF Admit, ClientOK, At, ShapeOK
  <2>4. SlotsOK'
    <3>1. CASE new.pc = "admitted"
      <4>1. Cardinality(Holders') = Cardinality(Holders) + 1
        BY <1>0, <1>3, <2>1, <3>1, HoldersJoin DEF Admit, At
      <4> QED BY <1>0, <1>n, <2>1, <3>1, <4>1 DEF SlotsOK, ShapeOK
    <3>2. CASE new.pc = "returned"
      <4>1. Holders' = Holders
        BY <1>0, <1>3, <2>1, <3>2, HoldersStay DEF Admit, At
      <4> QED BY <1>0, <2>1, <3>2, <4>1 DEF SlotsOK
    <3> QED BY <2>1, <3>1, <3>2
  <2> QED BY <2>2, <2>3, <2>4 DEF SlotInv
<1>4. ASSUME NEW c \in Calls, Prepare(c)
      PROVE  SlotInv'
  <2>1. PICK new : /\ call' = [call EXCEPT ![c] = new]
                   /\ new \in CallRecords
                   /\ \/ slots' = slots + 1 /\ new.pc = "returned" /\ client' = client
                      \/ slots' = slots /\ new.pc = "polling" /\ client' = [client EXCEPT ![c] = Up]
    BY <1>0, <1>4 DEF Prepare, At, Goto, Answer, ShapeOK
  <2>2. ShapeOK'
    BY <1>0, <1>4, <2>1 DEF Prepare, ShapeOK, docker, output
  <2>3. ClientOK'
    BY <1>0, <1>4, <2>1 DEF Prepare, ClientOK, At, ShapeOK
  <2>4. SlotsOK'
    <3>1. CASE new.pc = "returned"
      <4>1. Cardinality(Holders') = Cardinality(Holders) - 1
        BY <1>0, <1>4, <2>1, <3>1, HoldersLeave DEF Prepare, At
      <4> QED BY <1>0, <1>n, <2>1, <3>1, <4>1 DEF SlotsOK, ShapeOK
    <3>2. CASE new.pc = "polling"
      <4>1. Holders' = Holders
        BY <1>0, <1>4, <2>1, <3>2, HoldersStay DEF Prepare, At
      <4> QED BY <1>0, <2>1, <3>2, <4>1 DEF SlotsOK
    <3> QED BY <2>1, <3>1, <3>2
  <2> QED BY <2>2, <2>3, <2>4 DEF SlotInv
<1>5. ASSUME NEW c \in Calls, Join(c)
      PROVE  SlotInv'
  <2>1. Outcome(c) \in Codes \cup {No}
    BY <1>0, <1>5 DEF Outcome, Completed, TooMuch, Join, At, ClientOK, ShapeOK
  <2> DEFINE new == [call[c] EXCEPT !.pc = "returned", !.code = Outcome(c)]
  <2>2. /\ call' = [call EXCEPT ![c] = new] /\ new.pc = "returned"
        /\ new \in CallRecords
        /\ slots' = slots + 1
    <3>1. call' = [call EXCEPT ![c] = new] /\ slots' = slots + 1
      BY <1>0, <1>5 DEF Join, Answer, ShapeOK
    <3>2. call[c] \in CallRecords
      BY <1>0 DEF ShapeOK
    <3>3. new \in CallRecords
      <4> HIDE DEF Holding
      <4> QED BY ONLY <2>1, <3>2 DEF CallRecords, Holding
    <3> QED BY <3>1, <3>3
  <2> HIDE DEF new
  <2>3. ShapeOK'
    BY <1>0, <1>5, <2>2 DEF Join, ShapeOK, docker, output
  <2>4. ClientOK'
    BY <1>0, <1>5, <2>2 DEF Join, ClientOK, At, ShapeOK
  <2>5. Cardinality(Holders') = Cardinality(Holders) - 1
    BY <1>0, <1>5, <2>2, HoldersLeave DEF Join, At
  <2>6. SlotsOK'
    BY <1>0, <1>n, <2>2, <2>5 DEF SlotsOK, ShapeOK
  <2> QED BY <2>3, <2>4, <2>6 DEF SlotInv
<1>6. ASSUME NEW c \in Calls, Poll(c) \/ Kill(c) \/ KillClient(c)
      PROVE  SlotInv'
  <2> DEFINE Moves(new) ==
        /\ call' = [call EXCEPT ![c] = new] /\ new.pc \in Holding /\ new \in CallRecords
        /\ slots' = slots /\ call[c].pc \in Holding /\ new.pc # "admitted"
        /\ client'[c] = Up => new.pc \in {"polling", "stopping", "killing"}
        /\ client' \in [Calls -> Clients]
        /\ container' \in [Calls -> {"none", "up", "gone"}]
        /\ \A d \in Calls : d # c => client'[d] = client[d]
  <2>1. PICK new : Moves(new)
    <3>0. call[c] \in CallRecords
      BY <1>0 DEF ShapeOK
    <3>1. CASE Poll(c)
      <4>0. slots' = slots /\ client' = client /\ container' = container /\ call[c].pc \in Holding
        BY <3>1 DEF Poll, At, docker, output
      <4>1. CASE client[c] # Up /\ Goto(c, "joining")
        <5>1. call' = [call EXCEPT ![c] = [call[c] EXCEPT !.pc = "joining"]]
          BY <1>0, <4>1 DEF Goto, ShapeOK
        <5> DEFINE new == [call[c] EXCEPT !.pc = "joining"]
        <5>2. new \in CallRecords /\ new.pc = "joining"
          BY <3>0
        <5>3. client \in [Calls -> Clients] /\ container \in [Calls -> {"none", "up", "gone"}]
          BY <1>0 DEF ShapeOK
        <5>4. call' = [call EXCEPT ![c] = new]
          BY <5>1
        <5> HIDE DEF new
        <5>5. Moves(new)
          BY <4>0, <4>1, <5>2, <5>3, <5>4
        <5> QED BY <5>5
      <4>2. ASSUME NEW reason \in Reasons(c), Stop(c, reason)
            PROVE  \E new : Moves(new)
        <5>1. call' = [call EXCEPT ![c] = [call[c] EXCEPT !.pc = "stopping", !.reason = reason]]
          BY <1>0, <4>2 DEF Stop, ShapeOK
        <5>2. reason \in {No, Flooded, Cancelled, TimedOut}
          BY DEF Reasons
        <5> DEFINE new == [call[c] EXCEPT !.pc = "stopping", !.reason = reason]
        <5>3. new \in CallRecords /\ new.pc = "stopping"
          <6> DEFINE half == [call[c] EXCEPT !.pc = "stopping"]
          <6>1. half \in CallRecords /\ half.pc = "stopping" /\ new = [half EXCEPT !.reason = reason]
            BY <3>0
          <6> HIDE DEF half, new
          <6> QED BY <5>2, <6>1
        <5>4. client \in [Calls -> Clients] /\ container \in [Calls -> {"none", "up", "gone"}]
          BY <1>0 DEF ShapeOK
        <5>5. call' = [call EXCEPT ![c] = new]
          BY <5>1
        <5> HIDE DEF new
        <5>6. Moves(new)
          BY <4>0, <5>3, <5>4, <5>5
        <5> QED BY <5>6
      <4>3. (client[c] # Up /\ Goto(c, "joining")) \/ \E reason \in Reasons(c) : Stop(c, reason)
        BY <3>1 DEF Poll
      <4> HIDE DEF Moves
      <4> QED BY <4>1, <4>2, <4>3
    <3>2. CASE Kill(c)
      <4> DEFINE new == [call[c] EXCEPT !.pc = "killing"]
      <4>1. call' = [call EXCEPT ![c] = new]
        BY <1>0, <3>2 DEF Kill, Goto, ShapeOK
      <4>2. container' \in [Calls -> {"none", "up", "gone"}] /\ client' = client /\ slots' = slots
        BY <1>0, <3>2 DEF Kill, ShapeOK
      <4>3. new \in CallRecords /\ new.pc = "killing" /\ call[c].pc \in Holding
        BY <3>0, <3>2 DEF Kill, At
      <4>4. client \in [Calls -> Clients]
        BY <1>0 DEF ShapeOK
      <4>5. Moves(new)
        <5> HIDE DEF new
        <5> QED BY <4>1, <4>2, <4>3, <4>4
      <4> QED BY <4>5
    <3>3. CASE KillClient(c)
      <4>1. call' = [call EXCEPT ![c] = [call[c] EXCEPT !.pc = "joining"]]
        BY <1>0, <3>3 DEF KillClient, Goto, ShapeOK
      <4>2. /\ client' \in [Calls -> Clients] /\ container' = container /\ slots' = slots
            /\ client'[c] # Up /\ \A d \in Calls : d # c => client'[d] = client[d]
        BY <1>0, <3>3 DEF KillClient, ShapeOK, docker, output
      <4>3. Moves([call[c] EXCEPT !.pc = "joining"])
        BY <1>0, <3>0, <3>3, <4>1, <4>2 DEF KillClient, At, ShapeOK
      <4> QED BY <4>3
    <3> QED BY <1>6, <3>1, <3>2, <3>3
  <2>2. Holders' = Holders
    BY <1>0, <2>1, HoldersStay
  <2>3. ShapeOK'
    BY <1>0, <1>6, <2>1 DEF Poll, Kill, KillClient, ShapeOK, docker, output
  <2>4. ClientOK'
    BY <1>0, <2>1 DEF ClientOK, ShapeOK
  <2> QED BY <1>0, <2>1, <2>2, <2>3, <2>4 DEF SlotInv, SlotsOK
<1>7. ASSUME NEW c \in Calls, World(c) \/ Drain(c)
      PROVE  SlotInv'
  <2>1. call' = call /\ slots' = slots /\ cached' = cached
    BY <1>7 DEF World, Starts, Prints, Exits, Cancel, Drain, docker, output
  <2>2. Holders' = Holders
    BY <2>1 DEF Holders
  <2>3. /\ client' \in [Calls -> Clients] /\ \A d \in Calls : client[d] # Up => client'[d] = client[d]
        /\ container' \in [Calls -> {"none", "up", "gone"}]
        /\ printed' \in [Calls -> Nat] /\ \A d \in Calls : printed'[d] <= MaxPrinted[d]
        /\ piped' \in [Calls -> Nat] /\ kept' \in [Calls -> Nat]
        /\ marked' \in [Calls -> BOOLEAN] /\ cancelled' \in [Calls -> BOOLEAN]
    <3>1. CASE Starts(c)
      BY <1>0, <3>1 DEF Starts, ShapeOK, output
    <3>2. CASE Prints(c)
      BY <1>0, <3>2 DEF Prints, ShapeOK
    <3>3. CASE Exits(c)
      <4>1. PICK code \in OwnCodes[c] : client' = [client EXCEPT ![c] = code]
        BY <3>3 DEF Exits
      <4>2. code \in Codes
        BY <4>1, CodeAssumption DEF Codes
      <4> QED BY <1>0, <3>3, <4>1, <4>2 DEF Exits, ShapeOK, output
    <3>4. CASE Cancel(c)
      BY <1>0, <3>4 DEF Cancel, ShapeOK, docker, output
    <3>5. CASE Drain(c)
      <4>1. PICK marker \in BOOLEAN : marked' = [marked EXCEPT ![c] = @ \/ marker]
        BY <3>5 DEF Drain
      <4>2. marked' \in [Calls -> BOOLEAN]
        BY <1>0, <4>1 DEF ShapeOK
      <4> QED BY <1>0, <3>5, <4>2 DEF Drain, ShapeOK, docker, Room
    <3> QED BY <1>7, <3>1, <3>2, <3>3, <3>4, <3>5 DEF World
  <2>7. ClientOK'
    BY <1>0, <2>1, <2>3 DEF ClientOK
  <2> QED BY <1>0, <2>1, <2>2, <2>3, <2>7 DEF SlotInv, ShapeOK, SlotsOK
<1> QED BY <1>1, <1>2, <1>3, <1>4, <1>5, <1>6, <1>7 DEF RunnerNext, Runner, AllAnswered

(***************************************************************************)
(* Results                                                                 *)
(***************************************************************************)
LEMMA InitIsResultInv == RunnerInit => KeptOK /\ ResultInv
BY OutputAssumption, CallAssumption DEF RunnerInit, ResultInv, KeptOK, ReasonOK, AnswerOK, Drained, At

\* A drained chunk is retained while there is room, and counted in any case.
LEMMA StepKeepsKept ==
  ASSUME SlotInv, KeptOK, [RunnerNext]_runnerVars
  PROVE  KeptOK'
<1> USE OutputAssumption
<1>0. ShapeOK
  BY DEF SlotInv
<1>1. CASE UNCHANGED runnerVars
  BY <1>1 DEF runnerVars, docker, output, KeptOK, Drained
<1>2. ASSUME NEW c \in Calls, Runner(c)
      PROVE  KeptOK'
  BY <1>2 DEF Runner, Ask, Admit, Prepare, Poll, Kill, KillClient, Join, KeptOK, Drained, docker, output
<1>3. ASSUME NEW c \in Calls, World(c) \/ Drain(c)
      PROVE  KeptOK'
  <2>1. CASE Drain(c)
    <3>1. SUFFICES ASSUME NEW d \in Calls
                   PROVE  /\ piped'[d] <= printed'[d]
                          /\ kept'[d] = IF Drained(d)' <= MaxOutput THEN Drained(d)' ELSE MaxOutput
      BY DEF KeptOK
    <3>2. /\ piped'[d] = (IF d = c THEN piped[d] - 1 ELSE piped[d]) /\ printed' = printed
          /\ kept'[d] = IF d = c THEN kept[d] + Room(c) ELSE kept[d]
      BY <1>0, <2>1 DEF Drain, ShapeOK, docker, output
    <3>3. piped[d] \in Nat /\ printed[d] \in Nat /\ kept[d] \in Nat
      BY <1>0 DEF ShapeOK
    <3> QED BY <1>0, <3>2, <3>3 DEF KeptOK, Drained, Room
  <2>2. CASE Prints(c)
    <3>1. /\ \A d \in Calls : piped[d] \in Nat /\ printed[d] \in Nat
          /\ \A d \in Calls : piped'[d] = IF d = c THEN piped[d] + 1 ELSE piped[d]
          /\ \A d \in Calls : printed'[d] = IF d = c THEN printed[d] + 1 ELSE printed[d]
          /\ kept' = kept
      BY <1>0, <2>2 DEF Prints, ShapeOK
    <3>2. \A d \in Calls : Drained(d)' = Drained(d)
      BY <3>1 DEF Drained
    <3> QED BY <1>0, <3>1, <3>2 DEF KeptOK
  <2>3. CASE Starts(c) \/ Exits(c) \/ Cancel(c)
    BY <1>0, <2>3 DEF Starts, Exits, Cancel, KeptOK, Drained, docker, output
  <2> QED BY <1>3, <2>1, <2>2, <2>3 DEF World
<1> QED BY <1>1, <1>2, <1>3 DEF RunnerNext, AllAnswered

\* With readers that are waited for to their end, what a call is answered with is what happened.
\* Nothing that happens to a call that was answered makes its answer untrue.
LEMMA AnswersStay ==
  ASSUME NEW c \in Calls \ Probes, ShapeOK, ClientOK, AnswerOK, At(c, "returned"), [RunnerNext]_runnerVars
  PROVE  /\ call'[c] = call[c]
         /\ Caused(c, call[c].code)' \/ Whole(c, call[c].code)'
<1> USE OutputAssumption
<1>0. client[c] # Up
  BY DEF ClientOK, At
<1>1. CASE UNCHANGED runnerVars
  BY <1>1 DEF runnerVars, docker, output, AnswerOK, Caused, Whole, At
<1>2. ASSUME NEW d \in Calls, Runner(d)
      PROVE  /\ call'[c] = call[c] /\ client'[c] = client[c]
             /\ printed'[c] = printed[c] /\ piped'[c] = piped[c] /\ marked'[c] = marked[c] /\ cancelled'[c] = cancelled[c]
             /\ cached = "no" => cached' = "no"
  <2>1. d # c
    BY <1>2 DEF Runner, Ask, Admit, Prepare, Poll, Kill, KillClient, Join, At
  <2>2. CASE Ask(d) \/ Admit(d)
    BY <2>1, <2>2 DEF Ask, Admit, ShapeOK, docker, output, Refuse, Goto
  <2>3. CASE Prepare(d)
    BY <2>1, <2>3 DEF Prepare, ShapeOK, docker, output, Answer, Goto
  <2>4. CASE Poll(d) \/ Kill(d) \/ KillClient(d) \/ Join(d)
    BY <2>1, <2>4 DEF Poll, Kill, KillClient, Join, ShapeOK, docker, output, Answer, Goto, Stop
  <2> QED BY <1>2, <2>2, <2>3, <2>4 DEF Runner
<1>3. ASSUME NEW d \in Calls, World(d)
      PROVE  /\ call' = call /\ client'[c] = client[c] /\ cached' = cached
             /\ printed'[c] = printed[c] /\ piped'[c] = piped[c] /\ marked'[c] = marked[c]
             /\ cancelled[c] => cancelled'[c]
  BY <1>0, <1>3 DEF World, Starts, Prints, Exits, Cancel, ShapeOK, docker, output
<1>4. ASSUME NEW d \in Calls, Drain(d)
      PROVE  /\ call' = call /\ client' = client /\ cached' = cached /\ printed' = printed
             /\ cancelled' = cancelled /\ (marked[c] => marked'[c])
             /\ piped[c] = 0 => piped'[c] = 0 /\ marked'[c] = marked[c]
  <2>1. PICK marker \in BOOLEAN : marked' = [marked EXCEPT ![d] = @ \/ marker]
    BY <1>4 DEF Drain
  <2>2. piped[c] = 0 => c # d
    BY <1>4 DEF Drain, ShapeOK
  <2> QED BY <1>4, <2>1, <2>2 DEF Drain, ShapeOK, docker
<1>5. Caused(c, call[c].code) \/ Whole(c, call[c].code)
  BY DEF AnswerOK
<1>6. ASSUME NEW d \in Calls, Runner(d) \/ World(d) \/ Drain(d)
      PROVE  call'[c] = call[c] /\ (Caused(c, call[c].code)' \/ Whole(c, call[c].code)')
  <2>1. /\ call'[c] = call[c] /\ client'[c] = client[c] /\ printed'[c] = printed[c]
        /\ cached = "no" => cached' = "no"
        /\ cancelled[c] => cancelled'[c]
        /\ marked[c] => marked'[c]
        /\ piped[c] = 0 => piped'[c] = 0 /\ marked'[c] = marked[c]
    <3>1. CASE Runner(d)
      BY <1>2, <3>1
    <3>2. CASE World(d)
      BY <1>3, <3>2
    <3>3. CASE Drain(d)
      <4>1. call' = call /\ client' = client /\ cached' = cached /\ printed' = printed /\ cancelled' = cancelled
        BY <1>4, <3>3
      <4>2. (marked[c] => marked'[c]) /\ (piped[c] = 0 => piped'[c] = 0 /\ marked'[c] = marked[c])
        BY <1>4, <3>3
      <4> QED BY <4>1, <4>2
    <3> QED BY <1>6, <3>1, <3>2, <3>3
  <2>2. Caused(c, call[c].code) => Caused(c, call[c].code)'
    BY <2>1 DEF Caused
  <2>3. Whole(c, call[c].code) => Whole(c, call[c].code)'
    BY <2>1 DEF Whole
  <2> QED BY <1>5, <2>1, <2>2, <2>3
<1> QED BY <1>1, <1>6 DEF RunnerNext, AllAnswered

LEMMA StepKeepsResults ==
  ASSUME ~SlowReaders, SlotInv, KeptOK, ResultInv, [RunnerNext]_runnerVars
  PROVE  ResultInv'
<1> USE OutputAssumption
<1>0. ShapeOK /\ ClientOK /\ KeptOK /\ ReasonOK /\ AnswerOK
  BY DEF SlotInv, ResultInv
<1>1. CASE UNCHANGED runnerVars
  BY <1>0, <1>1 DEF runnerVars, docker, output, ResultInv, ReasonOK, AnswerOK, At, Caused, Whole
<1>2. ASSUME NEW c \in Calls, Ask(c) \/ Admit(c) \/ Prepare(c)
      PROVE  ResultInv'
  <2>1. ReasonOK'
    BY <1>0, <1>2 DEF Ask, Admit, Prepare, At, Goto, Refuse, Answer, ReasonOK, ShapeOK, docker, output
  <2>2. SUFFICES ASSUME NEW d \in Calls \ Probes, At(d, "returned")'
                 PROVE  Caused(d, call[d].code)' \/ Whole(d, call[d].code)'
    BY <2>1 DEF ResultInv, AnswerOK
  <2>3. CASE At(d, "returned")
    BY <1>0, <2>3, AnswersStay
  <2>4. CASE ~At(d, "returned")
    <3>1. d = c /\ client[c] = No
      BY <1>0, <1>2, <2>2, <2>4 DEF Ask, Admit, Prepare, At, Goto, Refuse, Answer, ClientOK, ShapeOK
    <3>2. CASE Ask(c)
      BY <1>0, <2>2, <3>1, <3>2 DEF Ask, At, Goto, Refuse, Caused, ShapeOK
    <3>3. CASE Admit(c)
      BY <1>0, <2>2, <3>1, <3>3 DEF Admit, At, Goto, Refuse, Caused, ShapeOK
    <3>4. CASE Prepare(c)
      BY <1>0, <2>2, <3>1, <3>4 DEF Prepare, At, Goto, Answer, Caused, ShapeOK
    <3> QED BY <1>2, <3>1, <3>2, <3>3, <3>4
  <2> QED BY <2>3, <2>4
<1>3. ASSUME NEW c \in Calls, Poll(c) \/ Kill(c) \/ KillClient(c)
      PROVE  ResultInv'
  <2>1. ReasonOK'
    <3>1. CASE Poll(c)
      <4>1. TooMuch(c) => printed[c] > MaxOutput
        BY <1>0 DEF TooMuch, Drained, ShapeOK
      <4>2. printed' = printed /\ cancelled' = cancelled /\ call[c].pc = "polling" /\ call[c].code = No
        BY <1>0, <3>1 DEF Poll, At, ReasonOK, docker, output
      <4>3. CASE Goto(c, "joining")
        BY <1>0, <4>2, <4>3 DEF Goto, ReasonOK, ShapeOK
      <4>4. ASSUME NEW reason \in Reasons(c), Stop(c, reason)
            PROVE  ReasonOK'
        <5>1. /\ reason = Flooded => printed[c] > MaxOutput
              /\ reason = Cancelled => cancelled[c]
          BY <4>1 DEF Reasons
        <5> QED BY <1>0, <4>2, <4>4, <5>1 DEF Stop, ReasonOK, ShapeOK
      <4> QED BY <3>1, <4>3, <4>4 DEF Poll
    <3>2. CASE Kill(c)
      BY <1>0, <3>2 DEF Kill, At, Goto, ReasonOK, ShapeOK
    <3>3. CASE KillClient(c)
      BY <1>0, <3>3 DEF KillClient, At, Goto, ReasonOK, ShapeOK, docker
    <3> QED BY <1>3, <3>1, <3>2, <3>3
  <2>2. ASSUME NEW d \in Calls \ Probes, At(d, "returned")'
        PROVE  Caused(d, call[d].code)' \/ Whole(d, call[d].code)'
    <3>1. At(d, "returned")
      <4>1. CASE d # c
        BY <1>0, <1>3, <2>2, <4>1 DEF Poll, Kill, KillClient, At, Goto, Stop, ShapeOK
      <4>2. CASE Poll(c)
        BY <1>0, <2>2, <4>2 DEF Poll, At, Goto, Stop, ShapeOK
      <4>3. CASE Kill(c) \/ KillClient(c)
        BY <1>0, <2>2, <4>3 DEF Kill, KillClient, At, Goto, ShapeOK
      <4>4. d = c => At(d, "returned")
        BY <1>3, <4>2, <4>3
      <4> QED BY <4>1, <4>4
    <3> QED BY <1>0, <3>1, AnswersStay
  <2> QED BY <2>1, <2>2 DEF ResultInv, AnswerOK
<1>4. ASSUME NEW c \in Calls, Join(c)
      PROVE  ResultInv'
  <2>1. ReasonOK'
    BY <1>0, <1>4 DEF Join, At, Answer, ReasonOK, ShapeOK, docker, output
  <2>2. Caused(c, Outcome(c)) \/ Whole(c, Outcome(c))
    BY <1>0, <1>4 DEF Join, At, Outcome, Completed, TooMuch, Drained, KeptOK, ReasonOK, ShapeOK, Caused, Whole
  <2>3. ASSUME NEW d \in Calls \ Probes, At(d, "returned")'
        PROVE  Caused(d, call[d].code)' \/ Whole(d, call[d].code)'
    <3>1. CASE At(d, "returned")
      BY <1>0, <3>1, AnswersStay
    <3>2. CASE ~At(d, "returned")
      <4>1. d = c /\ call'[c].code = Outcome(c) /\ call'[c].reason = call[c].reason
        BY <1>0, <1>4, <2>3, <3>2 DEF Join, At, Answer, ShapeOK
      <4>2. UNCHANGED <<cached, client, printed, piped, marked, cancelled>>
        BY <1>4 DEF Join, docker, output
      <4> QED BY <2>2, <4>1, <4>2 DEF Caused, Whole
    <3> QED BY <3>1, <3>2
  <2> QED BY <2>1, <2>3 DEF ResultInv, AnswerOK
<1>5. ASSUME NEW c \in Calls, World(c) \/ Drain(c)
      PROVE  ResultInv'
  <2>1. ReasonOK'
    BY <1>0, <1>5 DEF World, Starts, Prints, Exits, Cancel, Drain, ReasonOK, ShapeOK, docker, output
  <2>2. ASSUME NEW d \in Calls \ Probes, At(d, "returned")'
        PROVE  Caused(d, call[d].code)' \/ Whole(d, call[d].code)'
    <3>1. At(d, "returned")
      BY <1>5, <2>2 DEF World, Starts, Prints, Exits, Cancel, Drain, At
    <3> QED BY <1>0, <3>1, AnswersStay
  <2> QED BY <2>1, <2>2 DEF ResultInv, AnswerOK
<1> QED BY <1>1, <1>2, <1>3, <1>4, <1>5 DEF RunnerNext, Runner, AllAnswered

(***************************************************************************)
(* Theorems                                                                *)
(***************************************************************************)
\* Slots and clients agree with the calls in every reachable state.
THEOREM SlotInvariant == RunnerSpec => []SlotInv
<1>1. SlotInv /\ [RunnerNext]_runnerVars => SlotInv'
  BY StepKeepsSlots
<1> QED BY <1>1, InitIsSlotInv, PTL DEF RunnerSpec

\* What is retained is what was drained, or the limit, in every reachable state.
THEOREM KeptInvariant == RunnerSpec => []KeptOK
<1>1. SlotInv /\ KeptOK /\ [RunnerNext]_runnerVars => KeptOK'
  BY StepKeepsKept
<1> QED BY <1>1, InitIsResultInv, SlotInvariant, PTL DEF RunnerSpec

\* Reasons and answers are true in every reachable state, if the readers are waited for.
THEOREM ResultInvariant == ASSUME ~SlowReaders PROVE RunnerSpec => []ResultInv
<1>1. SlotInv /\ KeptOK /\ ResultInv /\ [RunnerNext]_runnerVars => ResultInv'
  BY StepKeepsResults
<1> QED BY <1>1, InitIsResultInv, SlotInvariant, KeptInvariant, PTL DEF RunnerSpec

\* Whichever way a call ends (refused, no daemon, no image, no client, stopped, or by itself), its
\* slot is given back once, and no more clients run than there are slots.
THEOREM SlotsAreReturned == RunnerSpec => []SlotsAreKept
<1>1. ASSUME SlotInv, KeptOK
      PROVE  SlotsAreKept
  <2>1. ShapeOK /\ SlotsOK /\ ClientOK /\ KeptOK
    BY <1>1 DEF SlotInv
  <2>2. Cardinality(Holders) \in Nat
    BY <2>1, HoldersAreCounted
  <2>3. slots \in 0..MaxConcurrent
    BY <2>1, <2>2, OutputAssumption DEF SlotsOK, ShapeOK
  <2>4. \A c \in Calls : {printed[c], piped[c], kept[c]} \subseteq 0..MaxPrinted[c]
    <3>1. SUFFICES ASSUME NEW c \in Calls PROVE {printed[c], piped[c], kept[c]} \subseteq 0..MaxPrinted[c]
      OBVIOUS
    <3>2. piped[c] \in Nat /\ kept[c] \in Nat /\ printed[c] \in Nat /\ printed[c] <= MaxPrinted[c] /\ MaxPrinted[c] \in Nat
      BY <2>1, OutputAssumption DEF ShapeOK
    <3> QED BY <2>1, <3>2, OutputAssumption DEF KeptOK, Drained
  <2>5. RunnerTypeOK
    BY <2>1, <2>3, <2>4 DEF RunnerTypeOK, ShapeOK
  <2>6. Cardinality({c \in Calls : client[c] = Up}) <= MaxConcurrent
    <3>1. {c \in Calls : client[c] = Up} \subseteq Holders
      BY <2>1 DEF ClientOK, Holders
    <3>2. IsFiniteSet(Holders)
      BY CallAssumption, FS_Subset DEF Holders
    <3>3. /\ Cardinality({c \in Calls : client[c] = Up}) <= Cardinality(Holders)
          /\ Cardinality({c \in Calls : client[c] = Up}) \in Nat
      BY <3>1, <3>2, FS_Subset, FS_CardinalityType
    <3> QED BY <2>1, <2>2, <2>3, <3>3, OutputAssumption DEF SlotsOK
  <2> QED BY <2>1, <2>5, <2>6 DEF SlotsAreKept, SlotsOK, Holders
<1> QED BY <1>1, SlotInvariant, KeptInvariant, PTL

\* The caller is told how its command ended and gets all of its output, or at most the limit.
THEOREM OutputIsAlwaysTrue == ASSUME ~SlowReaders PROVE RunnerSpec => []OutputIsTrue
<1>1. ASSUME SlotInv, KeptOK, ResultInv
      PROVE  OutputIsTrue
  <2>1. ShapeOK /\ KeptOK /\ AnswerOK
    BY <1>1 DEF SlotInv, ResultInv
  <2>2. OutputIsBounded
    <3>1. SUFFICES ASSUME NEW c \in Calls PROVE kept[c] <= MaxOutput
      BY DEF OutputIsBounded
    <3>2. piped[c] \in Nat /\ kept[c] \in Nat /\ printed[c] \in Nat /\ printed[c] <= MaxPrinted[c] /\ MaxPrinted[c] \in Nat
      BY <2>1, OutputAssumption DEF ShapeOK
    <3> QED BY <2>1, <3>2, OutputAssumption DEF KeptOK, Drained
  <2>3. ResultIsTrue
    <3>1. SUFFICES ASSUME NEW c \in Calls \ Probes
                   PROVE  At(c, "returned") => Caused(c, call[c].code) \/ Ended(c, call[c].code)
      BY DEF ResultIsTrue
    <3>2. printed[c] \in Nat /\ printed[c] <= MaxPrinted[c] /\ MaxPrinted[c] \in Nat
      BY <2>1, OutputAssumption DEF ShapeOK
    <3> QED BY <2>1, <3>2, OutputAssumption DEF AnswerOK, KeptOK, Drained, Whole, Ended, ShapeOK
  <2> QED BY <2>2, <2>3 DEF OutputIsTrue
<1> QED BY <1>1, SlotInvariant, KeptInvariant, ResultInvariant, PTL

(***************************************************************************)
(* Verification                                                            *)
(***************************************************************************)
LEMMA VerifiedThings ==
  /\ Commands \subseteq Calls /\ Commands \cap Probes = {} /\ Commands \cap Files = {}
  /\ Before \in Probes /\ After \in Probes /\ Before # After /\ Probes \subseteq Calls
  /\ Image \in Things /\ Image \notin Files /\ Files \subseteq Things /\ Files \cap Calls = {}
  /\ \A t \in Things : t = Image \/ t \in Files
  /\ Len(Criteria) \in Nat /\ \A k \in 1..Len(Criteria) : Criteria[k] \in Files \cup Commands
<1>1. DOMAIN Criteria = 1..Len(Criteria) /\ Len(Criteria) \in Nat
      /\ \A k \in 1..Len(Criteria) : Criteria[k] \in Files \cup (Calls \ Probes)
  BY CriteriaAssumption
<1> QED BY <1>1, CriteriaAssumption, ThingAssumption, CallAssumption DEF Commands, Things

VerifyShape ==
  /\ revision \in [Things -> Nat] /\ input \in [Commands -> [Things -> Int]]
  /\ context \in [Things -> Int] /\ again \in [Things -> Int]
  /\ memo \in [Commands -> {"none", "ok", "bad", "stale"}]
  /\ checked \in Nat /\ statuses \subseteq Statuses /\ evidence \subseteq Things \X Int
  /\ stage \in {"before", "criteria", "after", "done"} /\ verdict \in Statuses \cup {"none"}

Complete == \A t \in Things : context[t] # Unseen
Begun    == stage \in {"criteria", "after"} \/ verdict = "PASS"

\* Where _verify() is, and where its calls are.
StageOK ==
  /\ stage # "before" => At(Before, "returned")
  /\ stage \in {"before", "criteria"} => At(After, "idle") /\ again = NotSeen
  /\ stage = "done" => At(After, "idle") \/ At(After, "returned")
  /\ stage # "done" => verdict = "none"
  /\ stage = "before" => evidence = {} /\ statuses = {} /\ checked = 0
  /\ stage = "after" => checked = Len(Criteria)
  /\ call[Before].code = OK => context[Image] # Unseen
  /\ Begun => Complete
  /\ verdict = "PASS" => again = context /\ checked = Len(Criteria) /\ statuses = {"PASS"}

\* What the first look saw is at most what the evidence rests on, and that at most what the
\* second look saw, and what is there now.
SeenOK ==
  /\ \A t \in Things : context[t] <= revision[t] /\ again[t] <= revision[t]
  /\ \A c \in Commands, t \in Things :
       input[c][t] <= revision[t] /\ (input[c][t] # Unseen => context[t] <= input[c][t])
  /\ Begun => \A e \in evidence : /\ context[e[1]] <= e[2] /\ e[2] <= revision[e[1]]
                                  /\ again[e[1]] # Unseen => e[2] <= again[e[1]]

\* A container has a command whose call was made when the context was complete.
ContainerOK ==
  \A c \in Commands :
    /\ container[c] = "none" => input[c] = NotSeen
    /\ container[c] # "none" => ~At(c, "idle")
    /\ ~At(c, "idle") => stage # "before" /\ Complete
    /\ client[c] = OK => \A t \in Things : input[c][t] # Unseen

\* What is in the cache, and what was concluded.
Rests(k) == IF Criteria[k] \in Files THEN \E e \in evidence : e[1] = Criteria[k]
            ELSE memo[Criteria[k]] = "ok"
ResultsOK ==
  Begun =>
    /\ \A c \in Commands :
         /\ memo[c] # "stale"
         /\ memo[c] = "ok" => /\ At(c, "returned") /\ call[c].code = OK
                              /\ \A t \in Things : <<t, input[c][t]>> \in evidence
    /\ checked <= Len(Criteria)
    /\ statuses \subseteq {"PASS"} => \A k \in 1..checked : Rests(k)

VerifyInv == VerifyShape /\ StageOK /\ SeenOK /\ ContainerOK /\ ResultsOK

LEMMA InitIsVerifyInv == VerifyInit => VerifyInv
<1> SUFFICES ASSUME VerifyInit PROVE VerifyInv
  OBVIOUS
<1>1. VerifyShape
  BY DEF VerifyInit, VerifyShape, NotSeen, Unseen, Statuses
<1>2. StageOK
  BY VerifiedThings DEF VerifyInit, StageOK, RunnerInit, At, Begun, Statuses
<1>3. SeenOK
  BY DEF VerifyInit, SeenOK, NotSeen, Unseen, Begun
<1>4. ContainerOK
  BY VerifiedThings DEF VerifyInit, ContainerOK, RunnerInit, At
<1>5. ResultsOK
  BY DEF VerifyInit, ResultsOK, Begun
<1> QED BY <1>1, <1>2, <1>3, <1>4, <1>5 DEF VerifyInv

\* A step of the verifier, or a change, is a stuttering step of the runner.
LEMMA VerifyStepRuns == ASSUME [VerifyNext]_verifyVars PROVE [RunnerNext]_runnerVars
<1>1. CASE UNCHANGED verifyVars
  BY <1>1 DEF verifyVars
<1>2. CASE Verify \/ \E c \in Commands : Answered(c) \/ \E f \in Files : Copy(c, f)
  BY <1>2 DEF Verify, CaptureFails, Begin, AllChecked, Conclusion, Capture, Look, Conclude, Answered,
     NoCommand, Recall, Take, Copy
<1>3. CASE VerifyOver \/ \E t \in Things : Change(t)
  BY <1>3 DEF VerifyOver, Change, verifyVars
<1>4. ASSUME NEW c \in Calls, CallStep(c) \/ ContainerStarts(c) \/ CommandStep(c)
      PROVE  RunnerNext
  BY <1>4 DEF CallStep, ContainerStarts, CommandStep, RunnerNext, World
<1> QED BY <1>1, <1>2, <1>3, <1>4 DEF VerifyNext

\* What the thread of a call does to the calls, the clients and the containers.
LEMMA RunnerMoves ==
  ASSUME NEW c \in Calls, ShapeOK, Runner(c)
  PROVE  /\ ~At(c, "returned") /\ ~At(c, "idle")'
         /\ \A d \in Calls : d # c => call'[d] = call[d] /\ client'[d] = client[d] /\ container'[d] = container[d]
         /\ container'[c] = "none" <=> container[c] = "none"
         /\ client'[c] = OK => client[c] = OK
<1>1. CASE Ask(c) \/ Admit(c)
  BY <1>1 DEF Ask, Admit, At, Goto, Refuse, ShapeOK, docker
<1>2. CASE Prepare(c)
  BY <1>2 DEF Prepare, At, Goto, Answer, ShapeOK, docker
<1>3. CASE Poll(c)
  BY <1>3 DEF Poll, At, Goto, Stop, ShapeOK, docker
<1>4. CASE Kill(c)
  BY <1>4 DEF Kill, At, Goto, ShapeOK
<1>5. CASE KillClient(c)
  BY <1>5 DEF KillClient, At, Goto, ShapeOK, docker
<1>6. CASE Join(c)
  BY <1>6 DEF Join, At, Answer, ShapeOK, docker
<1> QED BY <1>1, <1>2, <1>3, <1>4, <1>5, <1>6 DEF Runner

\* One lemma per kind of step: a call goes on, ...
LEMMA CallStepKeeps ==
  ASSUME ShapeOK, VerifyInv, NEW c \in Calls, CallStep(c)
  PROVE  VerifyInv'
<1> USE VerifiedThings
<1>0. VerifyShape /\ StageOK /\ SeenOK /\ ContainerOK /\ ResultsOK
  BY DEF VerifyInv
<1>1. /\ Runner(c) /\ (At(c, "idle") => Due(c))
      /\ context' = Identified(context, c, Before) /\ again' = Identified(again, c, After)
      /\ UNCHANGED <<revision, input, stage, memo, checked, statuses, evidence, verdict>>
  BY DEF CallStep, results
<1>2. /\ ~At(c, "returned") /\ ~At(c, "idle")'
      /\ \A d \in Calls : d # c => call'[d] = call[d] /\ client'[d] = client[d] /\ container'[d] = container[d]
      /\ container'[c] = "none" <=> container[c] = "none"
      /\ client'[c] = OK => client[c] = OK
  BY <1>1, RunnerMoves
<1>3. /\ c = Before => stage = "before"
      /\ c = After => stage = "after"
      /\ c \in Commands => stage # "before" /\ Complete
  <2>1. c = Before => stage = "before"
    BY <1>0, <1>2 DEF StageOK
  <2>2. c = After => stage = "after"
    <3>1. SUFFICES ASSUME c = After PROVE stage = "after"
      OBVIOUS
    <3>2. CASE At(c, "idle")
      BY <1>1, <3>1, <3>2 DEF Due, Own
    <3>3. CASE ~At(c, "idle")
      BY <1>0, <1>2, <3>1, <3>3 DEF StageOK, VerifyShape
    <3> QED BY <3>2, <3>3
  <2>3. ASSUME c \in Commands PROVE stage # "before" /\ Complete
    <3>1. CASE At(c, "idle")
      BY <1>0, <1>1, <2>3, <3>1 DEF Due, Own, Checking, StageOK, Begun
    <3>2. CASE ~At(c, "idle")
      BY <1>0, <2>3, <3>2 DEF ContainerOK
    <3> QED BY <3>1, <3>2
  <2> QED BY <2>1, <2>2, <2>3
<1>4. /\ c # Before => context' = context
      /\ c # After => again' = again
      /\ context' \in [Things -> Int] /\ again' \in [Things -> Int]
      /\ \A t \in Things : context'[t] = context[t] \/ context'[t] = revision[t]
      /\ \A t \in Things : again'[t] = again[t] \/ again'[t] = revision[t]
  BY <1>0, <1>1 DEF Identified, VerifyShape
<1>5. VerifyShape'
  BY <1>0, <1>1, <1>4 DEF VerifyShape
<1>6. StageOK'
  <2>1. call'[Before].code = OK => context'[Image] # Unseen
    <3>1. CASE c = Before
      <4>1. SUFFICES ASSUME call'[Before].code = OK PROVE context'[Image] = revision[Image]
        BY <1>0 DEF VerifyShape, Unseen
      <4>2. context' = [context EXCEPT ![Image] = revision[Image]]
        BY <1>1, <3>1, <4>1 DEF Identified
      <4> QED BY <1>0, <4>2 DEF VerifyShape
    <3>2. CASE c # Before
      BY <1>0, <1>2, <1>4, <3>2 DEF StageOK
    <3> QED BY <3>1, <3>2
  <2>2. Complete => Complete'
    BY <1>0, <1>4 DEF Complete, VerifyShape, Unseen
  <2>3. Begun' = Begun
    BY <1>1 DEF Begun
  <2>4. verdict = "PASS" => c # Before /\ c # After
    BY <1>0, <1>3 DEF StageOK
  <2>5. At(Before, "returned") => At(Before, "returned")'
    BY <1>2 DEF At
  <2>6. c # After => call'[After] = call[After]
    BY <1>2
  <2> QED BY <1>0, <1>1, <1>3, <1>4, <2>1, <2>2, <2>3, <2>4, <2>5, <2>6 DEF StageOK, At
<1>7. SeenOK'
  <2>1. \A t \in Things : context'[t] <= revision'[t] /\ again'[t] <= revision'[t]
    <3>1. SUFFICES ASSUME NEW t \in Things PROVE context'[t] <= revision[t] /\ again'[t] <= revision[t]
      BY <1>1
    <3>2. revision[t] \in Nat /\ context[t] <= revision[t] /\ again[t] <= revision[t]
      BY <1>0 DEF SeenOK, VerifyShape
    <3>3. context'[t] = context[t] \/ context'[t] = revision[t]
      BY <1>4
    <3>4. again'[t] = again[t] \/ again'[t] = revision[t]
      BY <1>4
    <3> QED BY <3>2, <3>3, <3>4
  <2>2. CASE c = Before
    <3>1. stage = "before" /\ ~Begun /\ ~Begun'
      BY <1>0, <1>1, <1>3, <2>2 DEF StageOK, Begun
    <3>2. \A d \in Commands : input[d] = NotSeen
      BY <1>0, <3>1 DEF ContainerOK
    <3> QED BY <1>0, <1>1, <2>1, <3>1, <3>2 DEF SeenOK, NotSeen
  <2>3. CASE c = After
    <3>1. context' = context
      BY <1>4, <2>3
    <3> QED BY <1>0, <1>1, <1>4, <2>1, <3>1 DEF SeenOK, Begun, VerifyShape
  <2>4. CASE c # Before /\ c # After
    BY <1>0, <1>1, <1>4, <2>1, <2>4 DEF SeenOK, Begun
  <2> QED BY <2>2, <2>3, <2>4
<1>8. ContainerOK'
  <2>1. SUFFICES ASSUME NEW d \in Commands
                 PROVE  /\ container'[d] = "none" => input'[d] = NotSeen
                        /\ container'[d] # "none" => ~At(d, "idle")'
                        /\ ~At(d, "idle")' => stage' # "before" /\ Complete'
                        /\ client'[d] = OK => \A t \in Things : input'[d][t] # Unseen
    BY DEF ContainerOK
  <2>2. Complete => Complete'
    BY <1>0, <1>4 DEF Complete, VerifyShape, Unseen
  <2> QED BY <1>0, <1>1, <1>2, <1>3, <2>2 DEF ContainerOK, At
<1>9. ResultsOK'
  <2>1. \A d \in Commands : At(d, "returned") => call'[d] = call[d]
    BY <1>2
  <2>2. SUFFICES ASSUME Begun
                 PROVE  \A d \in Commands : memo[d] = "ok" => At(d, "returned")' /\ call'[d].code = OK
    BY <1>0, <1>1 DEF ResultsOK, Rests, Begun
  <2> QED BY <1>0, <2>1, <2>2 DEF ResultsOK, At
<1> QED BY <1>5, <1>6, <1>7, <1>8, <1>9 DEF VerifyInv

\* ... a container copies, a command goes on or ends, ...
LEMMA ContainerStepKeeps ==
  ASSUME ShapeOK, ClientOK, AnswerOK, VerifyInv, NEW c \in Calls,
         ContainerStarts(c) \/ CommandStep(c) \/ (c \in Commands /\ \E f \in Files : Copy(c, f))
  PROVE  VerifyInv'
<1> USE VerifiedThings
<1>0. VerifyShape /\ StageOK /\ SeenOK /\ ContainerOK /\ ResultsOK
  BY DEF VerifyInv
<1>1. /\ call' = call
      /\ UNCHANGED <<revision, stage, context, again, memo, checked, statuses, evidence, verdict>>
  BY DEF ContainerStarts, CommandStep, Copy, verifier, recorded, results, runnerVars, Starts, Prints, Exits,
     Drain, Cancel
\* Everything that is copied was not there before.
<1>2. \A d \in Commands : \/ input'[d] = input[d]
                          \/ \E t \in Things : /\ input[d][t] = Unseen
                                               /\ input'[d] = [input[d] EXCEPT ![t] = revision[t]]
  <2>1. CASE ContainerStarts(c)
    <3>1. c \in Commands => input[c] = NotSeen /\ client[c] = Up
      BY <1>0, <2>1 DEF ContainerStarts, Starts, ContainerOK
    <3>2. input' = IF c \in Commands THEN [input EXCEPT ![c][Image] = revision[Image]] ELSE input
      BY <2>1 DEF ContainerStarts
    <3>3. \A d \in Commands : d # c => input'[d] = input[d]
      BY <1>0, <3>2 DEF VerifyShape
    <3>4. c \in Commands => input[c][Image] = Unseen /\ input'[c] = [input[c] EXCEPT ![Image] = revision[Image]]
      BY <1>0, <3>1, <3>2 DEF VerifyShape, NotSeen
    <3> QED BY <3>3, <3>4
  <2>2. CASE CommandStep(c)
    BY <2>2 DEF CommandStep
  <2>3. ASSUME NEW f \in Files, c \in Commands, Copy(c, f)
        PROVE  /\ input' = [input EXCEPT ![c] = [input[c] EXCEPT ![f] = revision[f]]]
               /\ input[c][f] = Unseen /\ container[c] # "none"
    BY <1>0, <2>3 DEF Copy, VerifyShape
  <2>4. CASE c \in Commands /\ \E f \in Files : Copy(c, f)
    <3>1. PICK f \in Files : Copy(c, f)
      BY <2>4
    <3>2. input' = [input EXCEPT ![c] = [input[c] EXCEPT ![f] = revision[f]]] /\ input[c][f] = Unseen
      BY <2>3, <2>4, <3>1
    <3> QED BY <1>0, <2>4, <3>2 DEF VerifyShape
  <2> QED BY <2>1, <2>2, <2>4
<1>3. /\ input' \in [Commands -> [Things -> Int]]
      /\ \A d \in Commands : /\ container'[d] = "none" => container[d] = "none" /\ input'[d] = input[d]
                             /\ container'[d] # "none" => container[d] # "none" \/ client[d] = Up
                             /\ client'[d] = OK => \A t \in Things : input[d][t] # Unseen
  <2>1. CASE ContainerStarts(c)
    <3>1. /\ container' = [container EXCEPT ![c] = "up"] /\ client' = client /\ client[c] = Up
          /\ input' = IF c \in Commands THEN [input EXCEPT ![c][Image] = revision[Image]] ELSE input
      BY <2>1 DEF ContainerStarts, Starts
    <3>2. input' \in [Commands -> [Things -> Int]]
      BY <1>0, <3>1 DEF VerifyShape
    <3>3. \A d \in Commands : d # c => input'[d] = input[d] /\ container'[d] = container[d]
      BY <1>0, <3>1 DEF VerifyShape, ShapeOK
    <3>4. container'[c] = "up" /\ \A d \in Commands : client[d] = OK => \A t \in Things : input[d][t] # Unseen
      BY <1>0, <3>1 DEF ShapeOK, ContainerOK
    <3> QED BY <3>1, <3>2, <3>3, <3>4
  <2>2. CASE CommandStep(c)
    <3>1. CASE Prints(c) \/ Drain(c) \/ Cancel(c)
      BY <1>0, <2>2, <3>1 DEF CommandStep, Prints, Drain, Cancel, VerifyShape, ContainerOK, docker
    <3>2. CASE Exits(c) /\ (c \in Commands /\ client'[c] = OK => \A t \in Things : input[c][t] # Unseen)
      <4>1. /\ container' = [container EXCEPT ![c] = "gone"] /\ input' = input /\ client[c] = Up
            /\ \A d \in Calls : d # c => client'[d] = client[d]
        BY <2>2, <3>2 DEF CommandStep, Exits, ShapeOK
      <4>2. \A d \in Commands : client[d] = OK => \A t \in Things : input[d][t] # Unseen
        BY <1>0 DEF ContainerOK
      <4>3. \A d \in Commands : d # c => container'[d] = container[d]
        BY <4>1 DEF ShapeOK
      <4>4. container'[c] = "gone"
        BY <4>1 DEF ShapeOK
      <4>5. \A d \in Commands : client'[d] = OK => \A t \in Things : input[d][t] # Unseen
        BY <3>2, <4>1, <4>2
      <4>6. input' \in [Commands -> [Things -> Int]]
        BY <1>0, <4>1 DEF VerifyShape
      <4> QED BY <4>1, <4>3, <4>4, <4>5, <4>6
    <3> QED BY <2>2, <3>1, <3>2 DEF CommandStep
  <2>3. CASE c \in Commands /\ \E f \in Files : Copy(c, f)
    BY <1>0, <2>3 DEF Copy, VerifyShape, ContainerOK, runnerVars, docker
  <2> QED BY <2>1, <2>2, <2>3
<1>4. VerifyShape'
  BY <1>0, <1>1, <1>3 DEF VerifyShape
<1>5. StageOK'
  BY <1>0, <1>1 DEF StageOK, At, Begun, Complete
<1>6. SeenOK'
  <2>1. SUFFICES ASSUME NEW d \in Commands, NEW t \in Things
                 PROVE  input'[d][t] <= revision[t] /\ (input'[d][t] # Unseen => context[t] <= input'[d][t])
    BY <1>0, <1>1 DEF SeenOK, Begun
  <2>2. input'[d][t] = input[d][t] \/ input'[d][t] = revision[t]
    <3>1. CASE input'[d] = input[d]
      BY <3>1
    <3>2. CASE \E u \in Things : input'[d] = [input[d] EXCEPT ![u] = revision[u]]
      BY <1>0, <3>2 DEF VerifyShape
    <3> QED BY <1>2, <3>1, <3>2
  <2>3. /\ revision[t] \in Nat /\ context[t] <= revision[t] /\ input[d][t] <= revision[t]
        /\ input[d][t] # Unseen => context[t] <= input[d][t]
    BY <1>0 DEF SeenOK, VerifyShape
  <2> QED BY <2>2, <2>3
<1>7. ContainerOK'
  <2>1. SUFFICES ASSUME NEW d \in Commands
                 PROVE  /\ container'[d] = "none" => input'[d] = NotSeen
                        /\ container'[d] # "none" => ~At(d, "idle")
                        /\ client'[d] = OK => \A t \in Things : input'[d][t] # Unseen
    BY <1>0, <1>1 DEF ContainerOK, At, Complete
  <2>2. client[d] = Up => ~At(d, "idle")
    BY DEF ClientOK, At
  <2>3. \A t \in Things : input[d][t] # Unseen => input'[d][t] # Unseen
    <3>1. CASE input'[d] = input[d]
      BY <3>1
    <3>2. CASE \E u \in Things : input[d][u] = Unseen /\ input'[d] = [input[d] EXCEPT ![u] = revision[u]]
      <4>1. input[d] \in [Things -> Int] /\ \A u \in Things : revision[u] \in Nat
        BY <1>0 DEF VerifyShape
      <4> QED BY <3>2, <4>1
    <3> QED BY <1>2, <3>1, <3>2
  <2> QED BY <1>0, <1>3, <2>2, <2>3 DEF ContainerOK
<1>8. ResultsOK'
  <2>1. ASSUME NEW d \in Commands, At(d, "returned"), call[d].code = OK
        PROVE  input'[d] = input[d]
    <3>1. client[d] = OK
      BY <2>1 DEF AnswerOK, Caused, Whole
    <3>2. \A t \in Things : input[d][t] # Unseen
      BY <1>0, <2>1, <3>1 DEF ContainerOK
    <3> QED BY <1>2, <2>1, <3>2
  <2> QED BY <1>0, <1>1, <2>1 DEF ResultsOK, Rests, Begun, At
<1> QED BY <1>4, <1>5, <1>6, <1>7, <1>8 DEF VerifyInv

\* ... something is edited or built, ...
LEMMA ChangeKeeps ==
  ASSUME VerifyInv, NEW t \in Things, Change(t)
  PROVE  VerifyInv'
<1>0. VerifyShape /\ StageOK /\ SeenOK /\ ContainerOK /\ ResultsOK
  BY DEF VerifyInv
<1>1. /\ revision' = [revision EXCEPT ![t] = @ + 1] /\ UNCHANGED <<input, stage, context, again>>
      /\ UNCHANGED <<memo, checked, statuses, evidence, verdict, call, client, container>>
  BY DEF Change, verifier, recorded, results, runnerVars, docker
<1>2. revision' \in [Things -> Nat] /\ \A u \in Things : revision[u] <= revision'[u]
  BY <1>0, <1>1 DEF VerifyShape
<1>3. VerifyShape'
  BY <1>0, <1>1, <1>2 DEF VerifyShape
<1>4. SeenOK'
  <2>1. \A u \in Things : context[u] <= revision'[u] /\ again[u] <= revision'[u]
    BY <1>0, <1>2 DEF SeenOK, VerifyShape
  <2>2. \A c \in Commands, u \in Things : input[c][u] <= revision'[u]
    <3>1. SUFFICES ASSUME NEW c \in Commands, NEW u \in Things PROVE input[c][u] <= revision'[u]
      OBVIOUS
    <3>2. input[c][u] \in Int /\ revision[u] \in Nat /\ revision'[u] \in Nat /\ input[c][u] <= revision[u]
      BY <1>0, <1>2 DEF SeenOK, VerifyShape
    <3> QED BY <1>2, <3>2
  <2>3. ASSUME Begun, NEW e \in evidence PROVE e[2] <= revision'[e[1]]
    <3>1. e[1] \in Things /\ e[2] \in Int
      BY <1>0, <2>3 DEF VerifyShape
    <3>2. e[2] <= revision[e[1]] /\ revision[e[1]] \in Nat /\ revision'[e[1]] \in Nat
      BY <1>0, <1>2, <2>3, <3>1 DEF SeenOK, VerifyShape
    <3> QED BY <1>2, <3>1, <3>2
  <2> QED BY <1>0, <1>1, <2>1, <2>2, <2>3 DEF SeenOK, Begun
<1>5. StageOK' /\ ContainerOK' /\ ResultsOK'
  BY <1>0, <1>1 DEF StageOK, ContainerOK, ResultsOK, Rests, Begun, Complete, At
<1> QED BY <1>3, <1>4, <1>5 DEF VerifyInv

\* ... a file is recorded, ...
LEMMA CaptureKeeps ==
  ASSUME VerifyInv, NEW f \in Files, Capture(f)
  PROVE  VerifyInv'
<1> USE VerifiedThings
<1>0. VerifyShape /\ StageOK /\ SeenOK /\ ContainerOK /\ ResultsOK
  BY DEF VerifyInv
<1>1. UNCHANGED <<revision, input, stage, memo, checked, statuses, evidence, verdict, call, client, container>>
  BY DEF Capture, results, runnerVars, docker
<1>2. CASE /\ stage = "before" /\ context[f] = Unseen
           /\ context' = [context EXCEPT ![f] = revision[f]] /\ UNCHANGED again
  <2>1. ~Begun /\ ~Begun' /\ \A c \in Commands : At(c, "idle") /\ input[c] = NotSeen
    BY <1>0, <1>1, <1>2 DEF StageOK, Begun, ContainerOK
  <2>2. VerifyShape'
    BY <1>0, <1>1, <1>2 DEF VerifyShape
  <2>3. StageOK'
    BY <1>0, <1>1, <1>2, <2>1 DEF StageOK, At
  <2>4. SeenOK'
    <3>1. \A t \in Things : context'[t] <= revision[t]
      BY <1>0, <1>2 DEF SeenOK, VerifyShape
    <3> QED BY <1>0, <1>1, <1>2, <2>1, <3>1 DEF SeenOK, NotSeen
  <2>5. ContainerOK' /\ ResultsOK'
    BY <1>0, <1>1, <2>1 DEF ContainerOK, ResultsOK, At
  <2> QED BY <2>2, <2>3, <2>4, <2>5 DEF VerifyInv
<1>3. CASE /\ stage = "after" /\ again[f] = Unseen
           /\ again' = [again EXCEPT ![f] = revision[f]] /\ UNCHANGED context
  <2>1. VerifyShape'
    <3>1. again \in [Things -> Int] /\ revision[f] \in Int
      BY <1>0 DEF VerifyShape
    <3>2. again' \in [Things -> Int] /\ context' = context
      BY <1>3, <3>1
    <3> QED BY <1>0, <1>1, <3>2 DEF VerifyShape
  <2>2. StageOK'
    BY <1>0, <1>1, <1>3 DEF StageOK, At, Begun, Complete
  <2>3. SeenOK'
    <3>1. ASSUME NEW t \in Things PROVE again'[t] = IF t = f THEN revision[f] ELSE again[t]
      <4>1. again \in [Things -> Int] /\ again' = [again EXCEPT ![f] = revision[f]]
        BY <1>0, <1>3 DEF VerifyShape
      <4> QED BY <4>1
    <3>2. \A t \in Things : revision[t] \in Nat /\ again[t] <= revision[t]
      BY <1>0 DEF SeenOK, VerifyShape
    <3>3. Begun /\ Begun' /\ \A e \in evidence : e[1] \in Things
      BY <1>0, <1>1, <1>3 DEF Begun, VerifyShape
    <3> QED BY <1>0, <1>1, <1>3, <3>1, <3>2, <3>3 DEF SeenOK
  <2>4. ContainerOK' /\ ResultsOK'
    BY <1>0, <1>1, <1>3 DEF ContainerOK, ResultsOK, Rests, Begun, At, Complete
  <2> QED BY <2>1, <2>2, <2>3, <2>4 DEF VerifyInv
<1> QED BY <1>2, <1>3 DEF Capture

\* ... one stage ends and another begins, ...
LEMMA StageKeeps ==
  ASSUME VerifyInv, CaptureFails \/ Begin \/ AllChecked \/ Conclusion
  PROVE  VerifyInv'
<1> USE VerifiedThings
<1>0. VerifyShape /\ StageOK /\ SeenOK /\ ContainerOK /\ ResultsOK
  BY DEF VerifyInv
<1>1. UNCHANGED <<revision, input, context, again, checked, statuses, evidence, call, client, container>>
  BY DEF CaptureFails, Begin, AllChecked, Conclusion, recorded, results, runnerVars, docker
<1>2. CASE Begin
  <2>1. /\ stage = "before" /\ At(Before, "returned") /\ evidence = {} /\ statuses = {} /\ checked = 0
        /\ memo' \in [Commands -> {"none", "ok", "bad", "stale"}]
        /\ At(After, "idle") /\ again = NotSeen
        /\ \A c \in Commands : At(c, "idle") /\ input[c] = NotSeen
    BY <1>0, <1>2 DEF Begin, StageOK, ContainerOK, Forget, VerifyShape
  <2>2. CASE stage' = "done" /\ verdict' \in {"FAIL", "BLOCKED"}
    <3>1. ~Begun'
      BY <2>2 DEF Begun
    <3>2. VerifyShape'
      BY <1>0, <1>1, <2>1, <2>2 DEF VerifyShape, Statuses
    <3> QED BY <1>0, <1>1, <2>1, <2>2, <3>1, <3>2 DEF VerifyInv, StageOK, SeenOK, ContainerOK, ResultsOK, At
  <2>3. CASE stage' = "criteria" /\ verdict' = verdict
    <3>0. verdict = "none" /\ memo' = [c \in Commands |-> "none"]
          /\ \A f \in Files : context[f] # Unseen
      BY <1>0, <1>2, <2>1, <2>3 DEF Begin, StageOK, Decide, Forget
    <3>1. Complete
      BY <1>0, <1>2, <2>3, <3>0 DEF Begin, Decide, StageOK, Complete
    <3>2. VerifyShape'
      BY <1>0, <1>1, <2>1, <2>3 DEF VerifyShape
    <3>3. StageOK'
      BY <1>0, <1>1, <2>1, <2>3, <3>0, <3>1 DEF StageOK, At, Complete
    <3>4. SeenOK'
      BY <1>0, <1>1, <2>1 DEF SeenOK
    <3>5. ContainerOK'
      BY <1>0, <1>1, <2>1 DEF ContainerOK, At
    <3>6. ResultsOK'
      BY <1>1, <2>1, <3>0 DEF ResultsOK
    <3> QED BY <3>2, <3>3, <3>4, <3>5, <3>6 DEF VerifyInv
  <2> QED BY <1>2, <2>2, <2>3 DEF Begin, Decide
<1>3. CASE CaptureFails \/ AllChecked \/ Conclusion
  <2>1. memo' = memo
    BY <1>3 DEF CaptureFails, AllChecked, Conclusion, results
  <2>2. CASE AllChecked
    <3>1. stage = "criteria" /\ stage' = "after" /\ verdict' = verdict /\ verdict = "none" /\ checked = Len(Criteria)
      BY <1>0, <2>2 DEF AllChecked, StageOK
    <3>2. Begun /\ Begun'
      BY <3>1 DEF Begun
    <3>3. VerifyShape' /\ StageOK'
      BY <1>0, <1>1, <2>1, <3>1, <3>2 DEF VerifyShape, StageOK, At, Complete
    <3>4. SeenOK' /\ ContainerOK' /\ ResultsOK'
      BY <1>0, <1>1, <2>1, <3>1, <3>2 DEF SeenOK, ContainerOK, ResultsOK, Rests, At, Complete
    <3> QED BY <3>3, <3>4 DEF VerifyInv
  <2>3. CASE stage' = "done" /\ verdict' \in {"FAIL", "BLOCKED"}
    <3>1. ~Begun' /\ stage # "done" /\ (At(After, "idle") \/ At(After, "returned")) /\ At(Before, "returned")
      BY <1>0, <1>3, <2>3 DEF Begun, CaptureFails, AllChecked, Conclusion, StageOK
    <3>2. VerifyShape' /\ StageOK'
      BY <1>0, <1>1, <2>1, <2>3, <3>1 DEF VerifyShape, StageOK, Statuses, At
    <3>3. SeenOK' /\ ContainerOK' /\ ResultsOK'
      BY <1>0, <1>1, <2>3, <3>1 DEF SeenOK, ContainerOK, ResultsOK, At, Complete
    <3> QED BY <3>2, <3>3 DEF VerifyInv
  <2>4. CASE Conclusion /\ stage' = "done" /\ verdict' = "PASS"
    <3>1. /\ stage = "after" /\ At(After, "returned") /\ statuses = {"PASS"} /\ again = context
          /\ checked = Len(Criteria)
      BY <1>0, <2>4 DEF Conclusion, Decide, Same, StageOK
    <3>2. Begun /\ Begun'
      BY <2>4, <3>1 DEF Begun
    <3>3. VerifyShape' /\ StageOK'
      BY <1>0, <1>1, <2>1, <2>4, <3>1, <3>2 DEF VerifyShape, StageOK, Statuses, At, Complete
    <3>4. SeenOK' /\ ContainerOK' /\ ResultsOK'
      BY <1>0, <1>1, <2>1, <2>4, <3>1, <3>2 DEF SeenOK, ContainerOK, ResultsOK, Rests, At, Complete
    <3> QED BY <3>3, <3>4 DEF VerifyInv
  <2>5. CaptureFails \/ Conclusion => stage' = "done" /\ verdict' \in Statuses
    BY DEF CaptureFails, Conclusion, Decide, Statuses
  <2>6. CaptureFails => verdict' = "BLOCKED"
    BY DEF CaptureFails, Decide
  <2> QED BY <1>3, <2>2, <2>3, <2>4, <2>5, <2>6 DEF Statuses
<1> QED BY <1>2, <1>3

\* ... and a criterion is concluded, by what was seen between the two looks.
LEMMA ConcludeKeeps ==
  ASSUME VerifyInv, NEW x \in Files \cup Commands, Checking(x), NEW status \in Statuses,
         NEW seen \in SUBSET (Things \X Int), Conclude(status, seen),
         memo' \in [Commands -> {"none", "ok", "bad", "stale"}],
         \A e \in seen : context[e[1]] <= e[2] /\ e[2] <= revision[e[1]],
         \A c \in Commands :
           /\ memo[c] = "ok" => memo'[c] = "ok"
           /\ memo'[c] # "stale"
           /\ memo'[c] = "ok" /\ memo[c] # "ok" =>
                At(c, "returned") /\ call[c].code = OK /\ \A t \in Things : <<t, input[c][t]>> \in seen,
         status = "PASS" => IF x \in Files THEN \E e \in seen : e[1] = x ELSE memo'[x] = "ok"
  PROVE  VerifyInv'
<1> USE VerifiedThings
<1>0. VerifyShape /\ StageOK /\ SeenOK /\ ContainerOK /\ ResultsOK
  BY DEF VerifyInv
<1>1. /\ UNCHANGED <<revision, input, stage, context, again, verdict, call, client, container>>
      /\ checked' = checked + 1 /\ statuses' = statuses \cup {status} /\ evidence' = evidence \cup seen
  BY DEF Conclude, recorded, runnerVars, docker
<1>2. /\ stage = "criteria" /\ checked < Len(Criteria) /\ Criteria[checked + 1] = x
      /\ again = NotSeen /\ Begun /\ Begun' /\ verdict = "none" /\ checked \in Nat
  BY <1>0, <1>1 DEF Checking, Criterion, Begun, StageOK, VerifyShape
<1>3. VerifyShape'
  <2>1. evidence \subseteq Things \X Int /\ statuses \subseteq Statuses
    BY <1>0 DEF VerifyShape
  <2>2. evidence' \subseteq Things \X Int /\ statuses' \subseteq Statuses
    BY <1>1, <2>1
  <2>3. checked' \in Nat
    BY <1>1, <1>2
  <2> QED BY <1>0, <1>1, <2>2, <2>3 DEF VerifyShape
<1>4. StageOK'
  BY <1>0, <1>1, <1>2 DEF StageOK, At, Complete
<1>5. SeenOK'
  <2>1. \A e \in evidence' : /\ context[e[1]] <= e[2] /\ e[2] <= revision[e[1]]
                             /\ again[e[1]] = Unseen
    <3>1. \A e \in evidence' : e[1] \in Things
      BY <1>0, <1>1 DEF VerifyShape
    <3> QED BY <1>0, <1>1, <1>2, <3>1 DEF SeenOK, NotSeen
  <2> QED BY <1>0, <1>1, <2>1 DEF SeenOK
<1>6. ContainerOK'
  BY <1>0, <1>1 DEF ContainerOK, At, Complete
<1>7. ResultsOK'
  <2>1. \A c \in Commands :
          memo'[c] = "ok" => /\ At(c, "returned") /\ call[c].code = OK
                             /\ \A t \in Things : <<t, input[c][t]>> \in evidence'
    BY <1>0, <1>1, <1>2 DEF ResultsOK
  <2>2. ASSUME statuses' \subseteq {"PASS"}, NEW k \in 1..checked'
        PROVE  Rests(k)'
    <3>1. CASE k = checked + 1
      BY <1>1, <1>2, <2>2, <3>1 DEF Rests
    <3>2. CASE k # checked + 1
      <4>1. k \in 1..checked /\ statuses \subseteq {"PASS"}
        BY <1>1, <1>2, <2>2, <3>2
      <4>2. Rests(k) /\ Criteria[k] \in Files \cup Commands
        BY <1>0, <1>2, <4>1 DEF ResultsOK
      <4> QED BY <1>1, <4>2 DEF Rests
    <3> QED BY <3>1, <3>2
  <2>3. checked' <= Len(Criteria)
    BY <1>1, <1>2
  <2> QED BY <1>1, <2>1, <2>2, <2>3 DEF ResultsOK, At
<1> QED BY <1>3, <1>4, <1>5, <1>6, <1>7 DEF VerifyInv

LEMMA CriterionKeeps ==
  ASSUME AnswerOK, VerifyInv, (\E f \in Files : Look(f)) \/ (\E c \in Commands : Answered(c))
  PROVE  VerifyInv'
<1> USE VerifiedThings
<1>0. VerifyShape /\ StageOK /\ SeenOK /\ ContainerOK /\ ResultsOK
  BY DEF VerifyInv
<1>1. ASSUME stage = "criteria"
      PROVE  \A c \in Commands : memo[c] # "stale"
  BY <1>0, <1>1 DEF ResultsOK, Begun
<1>2. ASSUME NEW f \in Files, Look(f)
      PROVE  VerifyInv'
  <2>1. PICK status \in Statuses : Conclude(status, {<<f, revision[f]>>})
    BY <1>2 DEF Look
  <2>2. memo' = memo /\ Checking(f) /\ stage = "criteria"
    BY <1>2 DEF Look, Checking
  <2>3. revision[f] \in Nat /\ context[f] <= revision[f]
    BY <1>0 DEF VerifyShape, SeenOK
  <2>4. {<<f, revision[f]>>} \in SUBSET (Things \X Int)
    BY <2>3
  <2>5. \A e \in {<<f, revision[f]>>} : context[e[1]] <= e[2] /\ e[2] <= revision[e[1]]
    BY <2>3
  <2>6. \E e \in {<<f, revision[f]>>} : e[1] = f
    OBVIOUS
  <2>7. memo \in [Commands -> {"none", "ok", "bad", "stale"}]
    BY <1>0 DEF VerifyShape
  <2> QED BY <1>1, <2>1, <2>2, <2>4, <2>5, <2>6, <2>7, ConcludeKeeps
<1>3. ASSUME NEW c \in Commands, NoCommand(c) \/ Recall(c)
      PROVE  VerifyInv'
  <2>1. memo' = memo /\ Checking(c) /\ stage = "criteria"
    BY <1>3 DEF NoCommand, Recall, Checking
  <2>2. memo \in [Commands -> {"none", "ok", "bad", "stale"}] /\ memo[c] # "stale"
    BY <1>0, <1>1, <2>1 DEF VerifyShape
  <2>3. \E status \in Statuses : Conclude(status, {}) /\ (status = "PASS" => memo[c] = "ok")
    BY <1>3, <2>2 DEF NoCommand, Recall, Statuses
  <2>4. {} \in SUBSET (Things \X Int) /\ c \notin Files
    OBVIOUS
  <2> QED BY <1>1, <2>1, <2>2, <2>3, <2>4, ConcludeKeeps
<1>4. ASSUME NEW c \in Commands, Take(c)
      PROVE  VerifyInv'
  <2> DEFINE seen == {<<t, input[c][t]>> : t \in {u \in Things : input[c][u] # Unseen}}
  <2>1. /\ Checking(c) /\ stage = "criteria" /\ At(c, "returned") /\ memo[c] = "none"
        /\ memo' = [memo EXCEPT ![c] = IF call[c].code = OK THEN "ok" ELSE "bad"]
        /\ Conclude(Status(call[c].code), seen)
    BY <1>4 DEF Take, Checking
  <2>2. seen \in SUBSET (Things \X Int)
    BY <1>0 DEF VerifyShape
  <2>3. \A e \in seen : context[e[1]] <= e[2] /\ e[2] <= revision[e[1]]
    BY <1>0 DEF SeenOK
  <2>4. call[c].code = OK => \A t \in Things : <<t, input[c][t]>> \in seen
    <3>1. call[c].code = OK => client[c] = OK
      BY <2>1 DEF AnswerOK, Caused, Whole
    <3> QED BY <1>0, <3>1 DEF ContainerOK
  <2> HIDE DEF seen
  <2>5. memo' \in [Commands -> {"none", "ok", "bad", "stale"}]
    BY <1>0, <2>1 DEF VerifyShape
  <2>6. \A d \in Commands :
          /\ memo[d] = "ok" => memo'[d] = "ok"
          /\ memo'[d] # "stale"
          /\ memo'[d] = "ok" /\ memo[d] # "ok" =>
               At(d, "returned") /\ call[d].code = OK /\ \A t \in Things : <<t, input[d][t]>> \in seen
    BY <1>0, <1>1, <2>1, <2>4 DEF VerifyShape
  <2>7. Status(call[c].code) \in Statuses /\ (Status(call[c].code) = "PASS" => memo'[c] = "ok") /\ c \notin Files
    BY <1>0, <2>1 DEF Status, Statuses, Unavailable, VerifyShape
  <2> QED BY <2>1, <2>2, <2>3, <2>5, <2>6, <2>7, ConcludeKeeps
<1> QED BY <1>2, <1>3, <1>4 DEF Answered

LEMMA StepKeepsVerify ==
  ASSUME ShapeOK, ClientOK, AnswerOK, VerifyInv, [VerifyNext]_verifyVars
  PROVE  VerifyInv'
<1>1. CASE UNCHANGED verifyVars
  <2>1. UNCHANGED <<revision, input, stage, context, again, memo, checked, statuses, evidence, verdict>>
    BY <1>1 DEF verifyVars, verifier, recorded, results
  <2>2. UNCHANGED <<call, client, container>>
    BY <1>1 DEF verifyVars, runnerVars, docker
  <2> QED BY <2>1, <2>2 DEF VerifyInv, VerifyShape, StageOK, SeenOK, ContainerOK, ResultsOK, Rests, Begun, Complete, At
<1>2. CASE Verify
  BY <1>2, StageKeeps, CaptureKeeps, CriterionKeeps DEF Verify
<1>3. ASSUME NEW c \in Calls, CallStep(c) \/ ContainerStarts(c) \/ CommandStep(c)
      PROVE  VerifyInv'
  BY <1>3, CallStepKeeps, ContainerStepKeeps
<1>4. ASSUME NEW c \in Commands, Answered(c) \/ \E f \in Files : Copy(c, f)
      PROVE  VerifyInv'
  BY <1>4, VerifiedThings, CriterionKeeps, ContainerStepKeeps
<1>5. ASSUME NEW t \in Things, Change(t)
      PROVE  VerifyInv'
  BY <1>5, ChangeKeeps
<1> QED BY <1>1, <1>2, <1>3, <1>4, <1>5 DEF VerifyNext, VerifyOver

\* A verification is a run of the runner: what is true of every run of it is true of this one.
THEOREM VerificationRuns == VerifySpec => RunnerSpec
<1>1. VerifyInit => RunnerInit
  BY DEF VerifyInit
<1>2. [VerifyNext]_verifyVars => [RunnerNext]_runnerVars
  BY VerifyStepRuns
<1> QED BY <1>1, <1>2, PTL DEF VerifySpec, RunnerSpec

\* A passed verification rests on what was recorded with it, however many files, criteria, edits
\* and other calls there are.
THEOREM EvidenceIsAlwaysCurrent == ASSUME ~SlowReaders PROVE VerifySpec => []EvidenceIsCurrent
<1>1. ASSUME VerifyInv, OutputIsTrue
      PROVE  EvidenceIsCurrent
  <2> USE VerifiedThings
  <2>1. SUFFICES ASSUME verdict = "PASS"
                 PROVE  /\ \A e \in evidence : e[2] = context[e[1]]
                        /\ \A k \in DOMAIN Criteria :
                             IF Criteria[k] \in Files THEN \E e \in evidence : e[1] = Criteria[k]
                             ELSE Ended(Criteria[k], OK) /\ input[Criteria[k]] = context
    BY DEF EvidenceIsCurrent
  <2>2. VerifyShape /\ StageOK /\ SeenOK /\ ResultsOK /\ Begun
    BY <1>1, <2>1 DEF VerifyInv, Begun
  <2>3. again = context /\ statuses = {"PASS"} /\ checked = Len(Criteria) /\ Complete
    BY <2>1, <2>2 DEF StageOK
  <2>4. ASSUME NEW e \in evidence PROVE e[2] = context[e[1]]
    <3>1. e[1] \in Things /\ e[2] \in Int /\ context[e[1]] \in Int
      BY <2>2 DEF VerifyShape
    <3> QED BY <2>2, <2>3, <3>1 DEF SeenOK, Complete
  <2>5. ASSUME NEW k \in DOMAIN Criteria
        PROVE  IF Criteria[k] \in Files THEN \E e \in evidence : e[1] = Criteria[k]
               ELSE Ended(Criteria[k], OK) /\ input[Criteria[k]] = context
    <3>1. k \in 1..checked /\ Rests(k)
      BY <2>2, <2>3, CriteriaAssumption DEF ResultsOK
    <3>2. CASE Criteria[k] \in Files
      BY <3>1, <3>2 DEF Rests
    <3>3. CASE Criteria[k] \notin Files
      <4> DEFINE c == Criteria[k]
      <4>1. c \in Commands /\ memo[c] = "ok"
        BY <2>3, <3>1, <3>3 DEF Rests
      <4> HIDE DEF c
      <4>2. At(c, "returned") /\ call[c].code = OK /\ \A t \in Things : <<t, input[c][t]>> \in evidence
        BY <2>2, <4>1 DEF ResultsOK
      <4>3. ASSUME NEW t \in Things PROVE input[c][t] = context[t]
        <5>1. <<t, input[c][t]>> \in evidence
          BY <4>2
        <5>2. <<t, input[c][t]>>[2] = context[<<t, input[c][t]>>[1]]
          BY <2>4, <5>1
        <5> QED BY <5>2
      <4>4. input[c] = context
        BY <2>2, <4>1, <4>3 DEF VerifyShape
      <4>5. Ended(c, OK)
        BY <1>1, <4>1, <4>2 DEF OutputIsTrue, ResultIsTrue, Caused
      <4> QED BY <3>3, <4>4, <4>5 DEF c
    <3> QED BY <3>2, <3>3
  <2> QED BY <2>4, <2>5
<1>2. SlotInv /\ ResultInv /\ VerifyInv /\ [VerifyNext]_verifyVars => VerifyInv'
  BY StepKeepsVerify DEF SlotInv, ResultInv
<1>3. VerifySpec => []VerifyInv
  BY <1>2, InitIsVerifyInv, VerificationRuns, SlotInvariant, ResultInvariant, PTL DEF VerifySpec
<1> QED BY <1>1, <1>3, VerificationRuns, OutputIsAlwaysTrue, PTL

(***************************************************************************)
(* The coder                                                               *)
(***************************************************************************)
HIDE CodeRange

\* A change of p is allowed: it is in the scope, and was read if it was there.
Allowed(p) == p \in Scope /\ (before[p] # 0 => p \in observed)
Asked(e)   == IF e.op = "write" THEN New ELSE 0

\* Nothing has happened while the model is asked.
AskOK ==
  pc = "ask" => /\ files = before /\ done = <<>> /\ tools = [ran |-> 0, passed |-> TRUE]
                /\ shown <= MaxObserved /\ mistakes <= MaxEnvelopeRetries

\* The entries of an envelope that was accepted are allowed and differ in their paths.
EnvelopeOK ==
  /\ \A k \in DOMAIN envelope.entries : Allowed(envelope.entries[k].path)
  /\ \A k, n \in DOMAIN envelope.entries :
       k # n => envelope.entries[k].path # envelope.entries[n].path

\* The first entries are written, the others are as they were.
WriteOK ==
  pc = "write" =>
    /\ Len(done) <= Len(envelope.entries)
    /\ \A k \in DOMAIN envelope.entries :
         files[envelope.entries[k].path] =
           IF k <= Len(done) THEN Asked(envelope.entries[k]) ELSE before[envelope.entries[k].path]

\* What is undone was one of the entries.
DoneOK == \A k \in DOMAIN done : Allowed(done[k].path)

ChangedOK == \A p \in Paths : files[p] # before[p] => Allowed(p)
ResultOK  == result.ok => pc = "ended" /\ OkMeansDone

CoderInv == TypeOK /\ AskOK /\ EnvelopeOK /\ WriteOK /\ DoneOK /\ ChangedOK /\ ResultOK

\* An element of a sequence is one of the set it is over.
LEMMA SeqElement ==
  ASSUME NEW S, NEW s \in Seq(S), NEW k \in DOMAIN s
  PROVE  s[k] \in S /\ k \in Nat
OBVIOUS

\* A result of Fails() is not ok.
LEMMA FailsIsNotOk ==
  ASSUME NEW reason, Fails(reason)
  PROVE  ~result'.ok
BY DEF Fails, Ends

\* Nothing has been done, asked or reported yet.
LEMMA InitIsCoderInv == Init => CoderInv
<1> SUFFICES ASSUME Init PROVE CoderInv
  OBVIOUS
<1>1. TypeOK
  BY LimitAssumption DEF Init, TypeOK, Exists, Nothing, Entries
<1>2. AskOK /\ EnvelopeOK /\ WriteOK /\ DoneOK /\ ChangedOK /\ ResultOK
  BY LimitAssumption DEF Init, AskOK, EnvelopeOK, WriteOK, DoneOK, ChangedOK, ResultOK, Nothing, None
<1> QED BY <1>1, <1>2 DEF CoderInv

\* Before an envelope is accepted nothing is changed; after a step the model is asked again only
\* within the budgets.
LEMMA AskingKeepsInv ==
  ASSUME CoderInv, UNCHANGED before, Stopped \/ Observe \/ Mistake \/ OutOfIterations
  PROVE  CoderInv'
<1> USE LimitAssumption DEF CoderInv
<1>1. /\ pc = "ask" /\ UNCHANGED <<files, dirs, done, tools, envelope>> /\ ~result.ok
      /\ pc' \in {"ask", "ended"} /\ observed \subseteq observed'
  BY DEF Stopped, Observe, Mistake, OutOfIterations, Asks, Idle, Fails, Ends, Again, memory, ResultOK
<1>2. ~result'.ok /\ AskOK' /\ TypeOK'
  <2>1. CASE Stopped \/ OutOfIterations
    <3>1. pc' = "ended" /\ UNCHANGED <<iteration, mistakes, shown, observed>>
      BY <2>1 DEF Stopped, OutOfIterations, Fails, Ends, memory
    <3>2. \E reason \in {"cancelled", "llm", "budget"} : Fails(reason)
      BY <2>1 DEF Stopped, OutOfIterations
    <3>3. ~result'.ok
      BY <3>2 DEF Fails, Ends
    <3> QED BY <1>1, <3>1, <3>3 DEF AskOK, TypeOK
  <2>2. CASE Observe
    <3>1. /\ shown' = shown + 1 /\ mistakes' = mistakes /\ iteration' = iteration + 1
          /\ iteration < MaxIterations /\ observed' \subseteq Paths
      BY <2>2 DEF Observe, Asks, TypeOK
    <3>2. \/ shown + 1 <= MaxObserved /\ pc' = "ask" /\ result' = result
          \/ Fails("observation limit")
      BY <2>2 DEF Observe, Affordable, Again
    <3>3. ~result'.ok /\ (pc' = "ask" => shown + 1 <= MaxObserved)
      <4>1. CASE shown + 1 <= MaxObserved /\ pc' = "ask" /\ result' = result
        BY <1>1, <4>1
      <4>2. CASE Fails("observation limit")
        BY <4>2 DEF Fails, Ends
      <4> QED BY <3>2, <4>1, <4>2
    <3> QED BY <1>1, <3>1, <3>3 DEF AskOK, TypeOK
  <2>3. CASE Mistake
    <3>1. /\ mistakes' = mistakes + 1 /\ shown' = shown /\ iteration' = iteration + 1
          /\ iteration < MaxIterations /\ observed' = observed
      BY <2>3 DEF Mistake, Asks
    <3>2. \/ mistakes + 1 <= MaxEnvelopeRetries /\ pc' = "ask" /\ result' = result
          \/ Fails("envelope")
      BY <2>3 DEF Mistake, Patient, Again
    <3>3. ~result'.ok /\ (pc' = "ask" => mistakes + 1 <= MaxEnvelopeRetries)
      <4>1. CASE mistakes + 1 <= MaxEnvelopeRetries /\ pc' = "ask" /\ result' = result
        BY <1>1, <4>1
      <4>2. CASE Fails("envelope")
        BY <4>2 DEF Fails, Ends
      <4> QED BY <3>2, <4>1, <4>2
    <3> QED BY <1>1, <3>1, <3>3 DEF AskOK, TypeOK
  <2> QED BY <2>1, <2>2, <2>3
<1>5. EnvelopeOK' /\ DoneOK' /\ ChangedOK'
  BY <1>1 DEF EnvelopeOK, DoneOK, ChangedOK, Allowed
<1>6. WriteOK' /\ ResultOK'
  BY <1>1, <1>2 DEF WriteOK, ResultOK
<1> QED BY <1>2, <1>5, <1>6

\* What is validated is what EnvelopeOK says.
LEMMA EditKeepsInv ==
  ASSUME CoderInv, UNCHANGED before, Edit
  PROVE  CoderInv'
<1> USE LimitAssumption DEF CoderInv
<1>1. /\ pc = "ask" /\ UNCHANGED <<files, dirs, done, tools, mistakes, shown, observed>> /\ ~result.ok
      /\ iteration' = iteration + 1 /\ iteration < MaxIterations
  BY DEF Edit, Asks, Idle, ResultOK
<1>2. ChangedOK' /\ DoneOK'
  BY <1>1 DEF ChangedOK, DoneOK, Allowed
<1>3. CASE Fails("rejected") /\ UNCHANGED envelope
  <2>1. TypeOK'
    BY <1>1, <1>3 DEF TypeOK, Fails, Ends
  <2>2. AskOK' /\ EnvelopeOK' /\ WriteOK' /\ ResultOK'
    BY <1>1, <1>3 DEF AskOK, EnvelopeOK, WriteOK, ResultOK, Allowed, Fails, Ends
  <2> QED BY <1>2, <2>1, <2>2
<1>4. ASSUME NEW envl \in Envelopes, Valid(envl), envelope' = envl, pc' = "write", UNCHANGED result
      PROVE  CoderInv'
  <2>1. envl.entries \in Seq(Entries) /\ envl.tools \in 0..1
    BY DEF Envelopes
  <2>2. TypeOK'
    BY <1>1, <1>4, <2>1 DEF TypeOK
  <2>3. EnvelopeOK'
    BY <1>1, <1>4 DEF EnvelopeOK, Valid, InScope, Seen, Exists, Allowed, AskOK
  <2>4. WriteOK'
    <3>1. done = <<>> /\ files = before
      BY <1>1 DEF AskOK
    <3> QED BY <1>1, <1>4, <2>1, <3>1 DEF WriteOK
  <2> QED BY <1>1, <1>2, <1>4, <2>2, <2>3, <2>4 DEF AskOK, ResultOK
<1> QED BY <1>3, <1>4 DEF Edit

\* One entry is written: its path is none of the others'.
LEMMA WriteKeepsInv ==
  ASSUME CoderInv, UNCHANGED before, WriteNext
  PROVE  CoderInv'
<1> USE LimitAssumption DEF CoderInv
<1> DEFINE e == Entry
           n == Len(done) + 1
<1>1. /\ pc = "write" /\ pc' = pc /\ UNCHANGED <<iteration, mistakes, shown, observed, envelope, tools, result>>
      /\ ~result.ok
  BY DEF WriteNext, memory, ResultOK
<1>2. /\ done \in Seq([path : Paths, was : {0, 1}]) /\ envelope.entries \in Seq(Entries)
      /\ n \in DOMAIN envelope.entries /\ Len(done) \in Nat
  BY DEF TypeOK, WriteNext
<1>3. e \in Entries /\ e = envelope.entries[n]
  BY <1>2 DEF Entry
<1>4. files[e.path] = before[e.path] /\ Allowed(e.path)
  BY <1>1, <1>2, <1>3 DEF WriteOK, EnvelopeOK
<1>5. files' = [files EXCEPT ![e.path] = Asked(e)] /\ dirs' \subseteq Paths
  BY <1>3 DEF WriteNext, WriteFile, DeleteFile, Asked, Entries, Ops, TypeOK, Parents
<1>6. /\ done' = Append(done, [path |-> e.path, was |-> files[e.path]])
      /\ files[e.path] \in {0, 1} /\ e.path \in Paths
  BY <1>3, <1>4 DEF WriteNext, TypeOK, Entries
<1>7. done' \in Seq([path : Paths, was : {0, 1}]) /\ Len(done') = n
  BY <1>2, <1>6
<1>8. files' \in [Paths -> {0, 1, New, Torn}]
  BY <1>5 DEF TypeOK, Asked
<1>9. TypeOK'
  BY <1>1, <1>5, <1>7, <1>8 DEF TypeOK
<1>10. DoneOK'
  BY <1>1, <1>2, <1>4, <1>6 DEF DoneOK, Allowed
<1>11. ChangedOK'
  BY <1>1, <1>4, <1>5 DEF ChangedOK, Allowed, TypeOK
<1>12. EnvelopeOK'
  BY <1>1 DEF EnvelopeOK, Allowed
<1>13. WriteOK'
  <2>1. SUFFICES ASSUME NEW k \in DOMAIN envelope.entries
                 PROVE  files'[envelope.entries[k].path] =
                          IF k <= n THEN Asked(envelope.entries[k]) ELSE before[envelope.entries[k].path]
    BY <1>1, <1>2, <1>7 DEF WriteOK
  <2>2. envelope.entries[k].path \in Paths /\ k \in Nat
    <3>1. envelope.entries[k] \in Entries /\ k \in Nat
      BY <1>2, SeqElement
    <3> QED BY <3>1 DEF Entries
  <2>3. CASE k = n
    BY <1>3, <1>5, <1>6, <2>2, <2>3 DEF TypeOK
  <2>4. CASE k # n
    <3>1. envelope.entries[k].path # e.path
      BY <1>2, <1>3, <2>4 DEF EnvelopeOK
    <3>2. files'[envelope.entries[k].path] = files[envelope.entries[k].path]
      BY <1>5, <2>2, <3>1 DEF TypeOK
    <3> QED BY <1>1, <1>2, <2>2, <2>4, <3>2 DEF WriteOK
  <2> QED BY <2>3, <2>4
<1> QED BY <1>1, <1>9, <1>10, <1>11, <1>12, <1>13 DEF AskOK, ResultOK

\* A write that fails touches only the file of its entry.
LEMMA FailingKeepsInv ==
  ASSUME CoderInv, UNCHANGED before, BackupRaises \/ WriteFails
  PROVE  CoderInv'
<1> USE LimitAssumption DEF CoderInv
<1> DEFINE e == Entry
<1>1. /\ pc = "write" /\ pc' \in {"ended", "undo"} /\ ~result.ok /\ ~result'.ok
      /\ UNCHANGED <<iteration, mistakes, shown, observed, envelope, done, tools>>
  BY DEF BackupRaises, WriteFails, Fails, Ends, Idle, memory, ResultOK
<1>2. /\ envelope.entries \in Seq(Entries) /\ done \in Seq([path : Paths, was : {0, 1}])
      /\ Len(done) + 1 \in DOMAIN envelope.entries
  BY DEF TypeOK, BackupRaises, WriteFails
<1>3. e.path \in Paths /\ Allowed(e.path)
  <2>1. e \in Entries
    BY <1>2, SeqElement DEF Entry
  <2> QED BY <1>2, <2>1 DEF EnvelopeOK, Entry, Entries
<1>4. /\ files' = files \/ files' = [files EXCEPT ![e.path] = Torn]
      /\ dirs' \subseteq Paths
  BY DEF BackupRaises, WriteFails, Idle, WriteFile, Parents, TypeOK
<1>5. TypeOK'
  <2>1. files' \in [Paths -> {0, 1, New, Torn}]
    BY <1>3, <1>4 DEF TypeOK
  <2> QED BY <1>1, <1>4, <2>1 DEF TypeOK
<1>6. ChangedOK'
  BY <1>1, <1>3, <1>4 DEF ChangedOK, Allowed, TypeOK
<1>7. EnvelopeOK' /\ DoneOK'
  BY <1>1 DEF EnvelopeOK, DoneOK, Allowed
<1> QED BY <1>1, <1>5, <1>6, <1>7 DEF AskOK, WriteOK, ResultOK

\* An undo touches only a file that was changed.
LEMMA UndoKeepsInv ==
  ASSUME CoderInv, UNCHANGED before, Undo
  PROVE  CoderInv'
<1> USE LimitAssumption DEF CoderInv
<1> DEFINE d == done[Len(done)]
<1>1. /\ pc = "undo" /\ pc' = pc /\ ~result.ok /\ ~result'.ok
      /\ UNCHANGED <<iteration, mistakes, shown, observed, envelope, tools>>
  BY DEF Undo, memory, ResultOK
<1>2. /\ done \in Seq([path : Paths, was : {0, 1}]) /\ done # <<>>
      /\ done' = SubSeq(done, 1, Len(done) - 1)
  BY DEF TypeOK, Undo
<1>3. d \in [path : Paths, was : {0, 1}] /\ Allowed(d.path)
  <2>1. Len(done) \in DOMAIN done
    BY <1>2
  <2> QED BY <1>2, <2>1, SeqElement DEF DoneOK
<1>4. /\ files' = files \/ \E v \in {0, 1} : files' = [files EXCEPT ![d.path] = v]
      /\ dirs' \subseteq Paths
  BY <1>3 DEF Undo, Latest, WriteFile, DeleteFile, Parents, TypeOK
<1>5. done' \in Seq([path : Paths, was : {0, 1}]) /\ \A k \in DOMAIN done' : k \in DOMAIN done /\ done'[k] = done[k]
  <2> DEFINE S == [path : Paths, was : {0, 1}]
  <2> HIDE DEF S
  <2>1. done \in Seq(S) /\ done # <<>>
    BY <1>2 DEF S
  <2>2. /\ SubSeq(done, 1, Len(done) - 1) \in Seq(S)
        /\ \A k \in 1..(Len(done) - 1) : k \in DOMAIN done /\ SubSeq(done, 1, Len(done) - 1)[k] = done[k]
        /\ DOMAIN SubSeq(done, 1, Len(done) - 1) = 1..(Len(done) - 1)
    BY <2>1
  <2> QED BY <1>2, <2>2 DEF S
<1>6. TypeOK'
  <2>1. files' \in [Paths -> {0, 1, New, Torn}]
    BY <1>3, <1>4 DEF TypeOK
  <2> QED BY <1>1, <1>4, <1>5, <2>1 DEF TypeOK
<1>7. ChangedOK'
  BY <1>1, <1>3, <1>4 DEF ChangedOK, Allowed, TypeOK
<1>8. EnvelopeOK' /\ DoneOK'
  BY <1>1, <1>5 DEF EnvelopeOK, DoneOK, Allowed
<1> QED BY <1>1, <1>6, <1>7, <1>8 DEF AskOK, WriteOK, ResultOK

\* Tools change no file, and a result that is ok is reported only when all were written and passed.
LEMMA EndingKeepsInv ==
  ASSUME CoderInv, UNCHANGED before, Undone \/ RunTool \/ Report
  PROVE  CoderInv'
<1> USE LimitAssumption DEF CoderInv
<1>1. /\ pc \in {"undo", "write"} /\ pc' \in {"ended", pc} /\ ~result.ok
      /\ UNCHANGED <<iteration, mistakes, shown, observed, envelope, done, files, dirs>>
  BY DEF Undone, RunTool, Report, Written, Idle, Fails, Ends, memory, ResultOK
<1>2. tools' \in [ran : 0..1, passed : BOOLEAN]
  <2>1. CASE tools' = tools
    BY <2>1 DEF TypeOK
  <2>2. CASE tools.ran < envelope.tools /\ \E passed \in BOOLEAN : tools' = [ran |-> tools.ran + 1, passed |-> passed]
    BY <2>2 DEF TypeOK
  <2> QED BY <2>1, <2>2 DEF Undone, RunTool, Report, Idle
<1>3. TypeOK'
  BY <1>1, <1>2 DEF TypeOK
<1>4. EnvelopeOK' /\ DoneOK' /\ ChangedOK' /\ WriteOK' /\ AskOK'
  BY <1>1 DEF EnvelopeOK, DoneOK, ChangedOK, WriteOK, AskOK, Allowed
<1>5. ResultOK'
  <2>1. CASE ~result'.ok
    BY <2>1 DEF ResultOK
  <2>2. CASE result'.ok
    <3>1. Report /\ Real /\ tools.passed /\ result'.artifacts = Artifacts /\ pc' = "ended" /\ tools' = tools
      <4>1. ~Undone
        BY <2>2, FailsIsNotOk DEF Undone
      <4>2. ~RunTool
        <5>1. SUFFICES ASSUME RunTool PROVE FALSE
          OBVIOUS
        <5>2. Fails("tool refused") \/ Fails("raised") \/ result' = result
          BY <5>1 DEF RunTool
        <5>3. CASE result' = result
          BY <1>1, <2>2, <5>3
        <5>4. CASE Fails("tool refused") \/ Fails("raised")
          BY <2>2, <5>4, FailsIsNotOk
        <5> QED BY <5>2, <5>3, <5>4
      <4>3. Report
        BY <4>1, <4>2
      <4>4. Real
        BY <2>2, <4>3, FailsIsNotOk DEF Report
      <4>5. /\ Ends(tools.passed, IF tools.passed THEN "none" ELSE "tools failed", Artifacts)
            /\ tools' = tools
        BY <4>3, <4>4 DEF Report, Idle
      <4> QED BY <2>2, <4>3, <4>4, <4>5 DEF Ends
    <3>2. pc = "write" /\ Len(done) = Len(envelope.entries) /\ tools.ran = envelope.tools
      BY <3>1 DEF Report, Written
    <3>3. \A k \in DOMAIN envelope.entries : files[envelope.entries[k].path] = Asked(envelope.entries[k])
      BY <3>2 DEF WriteOK, TypeOK
    <3>4. tools = [ran |-> envelope.tools, passed |-> TRUE]
      BY <3>1, <3>2 DEF TypeOK
    <3>5. done # <<>> => Artifacts # <<>>
      <4>1. done \in Seq([path : Paths, was : {0, 1}])
        BY DEF TypeOK
      <4>2. done # <<>> => 1 \in DOMAIN done
        BY <4>1
      <4>3. DOMAIN Artifacts = DOMAIN done
        BY DEF Artifacts
      <4> QED BY <4>2, <4>3
    <3> QED BY <1>1, <3>1, <3>3, <3>4, <3>5 DEF ResultOK, OkMeansDone, Asked, Real
  <2> QED BY <2>1, <2>2
<1> QED BY <1>3, <1>4, <1>5

\* Every step, and the stuttering one, keeps the invariant.
LEMMA StepKeepsCoderInv == CoderInv /\ [Next]_vars => CoderInv'
<1> SUFFICES ASSUME CoderInv, [Next]_vars PROVE CoderInv'
  OBVIOUS
<1>1. CASE UNCHANGED vars
  BY <1>1 DEF vars, memory, CoderInv, TypeOK, AskOK, EnvelopeOK, WriteOK, DoneOK, ChangedOK, ResultOK,
              OkMeansDone, Allowed
<1>2. CASE Step /\ UNCHANGED before
  BY <1>2, AskingKeepsInv, EditKeepsInv, WriteKeepsInv, FailingKeepsInv, UndoKeepsInv, EndingKeepsInv
  DEF Step
<1> QED BY <1>1, <1>2 DEF Next, Over

(***************************************************************************)
(* Theorems                                                                *)
(***************************************************************************)
\* The invariant holds in every reachable state.
THEOREM CoderInvariant == Spec => []CoderInv
BY InitIsCoderInv, StepKeepsCoderInv, PTL DEF Spec

\* No answer of the model and no fault of the sandbox changes a file outside the step's paths, or
\* one that was there and was not read.
THEOREM ChangesAreAlwaysAllowed == Spec => []ChangesAreAllowed
<1>1. CoderInv => ChangesAreAllowed
  BY DEF CoderInv, ChangedOK, Allowed, ChangesAreAllowed, OnlyScopeChanges, ObserveBeforeEdit
<1> QED BY <1>1, CoderInvariant, PTL

\* A result that is ok is the work the envelope asked for.
THEOREM OkAlwaysMeansDone == Spec => []OkMeansDone
<1>1. CoderInv => OkMeansDone
  BY DEF CoderInv, ResultOK, OkMeansDone
<1> QED BY <1>1, CoderInvariant, PTL

\* The model is asked only within its budgets.
THEOREM BudgetIsAlwaysKept == Spec => []BudgetIsKept
<1>1. CoderInv => BudgetIsKept
  BY DEF CoderInv, AskOK, BudgetIsKept
<1> QED BY <1>1, CoderInvariant, PTL

(***************************************************************************)
(* What an execution that failed leaves                                    *)
(***************************************************************************)
\* Above a file that was there is a directory: no file takes its place.
PlaceOK ==
  \A q \in Paths : \A p \in Below[q] : before[p] # 0 => q \in dirs /\ files[q] = 0

\* What is written can be undone: a file that differs is among those done, with what it was, or a
\* directory has its place.
UndoOK ==
  pc \in {"write", "undo"} =>
    /\ \A k \in DOMAIN done : done[k].was = before[done[k].path]
    /\ \A p \in Paths :
         files[p] = before[p] \/ p \in dirs \/ \E k \in DOMAIN done : done[k].path = p

LeavesInv == PlaceOK /\ UndoOK /\ FailureLeavesFiles

\* A failure says why.
LEMMA FailsSays ==
  ASSUME NEW reason, Fails(reason)
  PROVE  pc' = "ended" /\ result'.reason = reason
BY DEF Fails, Ends

\* The directories of the first state are those above its files.
LEMMA InitIsLeavesInv == Init => LeavesInv
BY PathAssumption DEF Init, LeavesInv, PlaceOK, UndoOK, FailureLeavesFiles

\* The conversation ends with the files as they were, or goes on to write them.
LEMMA AskingLeaves ==
  ASSUME CoderInv, LeavesInv, UNCHANGED before, Stopped \/ Observe \/ Mistake \/ OutOfIterations \/ Edit
  PROVE  LeavesInv'
<1>1. /\ pc = "ask" /\ UNCHANGED <<files, dirs, done>> /\ files = before /\ done = <<>>
  BY DEF Stopped, Observe, Mistake, OutOfIterations, Edit, Asks, Idle, CoderInv, AskOK
<1>2. PlaceOK'
  BY <1>1 DEF LeavesInv, PlaceOK
<1>3. UndoOK'
  BY <1>1 DEF UndoOK
<1>4. FailureLeavesFiles'
  BY <1>1 DEF FailureLeavesFiles
<1> QED BY <1>2, <1>3, <1>4 DEF LeavesInv

\* A file is saved before it is changed, and a directory is not written to.
LEMMA WriteLeaves ==
  ASSUME CoderInv, LeavesInv, UNCHANGED before, WriteNext
  PROVE  LeavesInv'
<1> DEFINE e == Entry
           n == Len(done) + 1
<1>1. /\ done \in Seq([path : Paths, was : {0, 1}]) /\ envelope.entries \in Seq(Entries)
      /\ n \in DOMAIN envelope.entries /\ Len(done) \in Nat /\ pc = "write" /\ pc' = "write"
      /\ files \in [Paths -> {0, 1, New, Torn}]
  BY DEF CoderInv, TypeOK, WriteNext
<1>2. e \in Entries /\ e = envelope.entries[n]
  BY <1>1 DEF Entry
<1>3. files[e.path] = before[e.path] /\ e.path \in Paths
  <2>1. ~(n <= Len(done))
    BY <1>1
  <2> QED BY <1>1, <1>2, <2>1 DEF CoderInv, WriteOK, Entries
<1>4. /\ \E v : files' = [files EXCEPT ![e.path] = v] /\ (v # 0 => e.path \notin dirs)
      /\ dirs \subseteq dirs'
  BY DEF WriteNext, WriteFile, DeleteFile, CanWrite
<1>5. done' = Append(done, [path |-> e.path, was |-> files[e.path]])
  BY DEF WriteNext
<1>6. PlaceOK'
  BY <1>1, <1>3, <1>4 DEF LeavesInv, PlaceOK
<1>7. /\ DOMAIN done' = 1..n /\ done'[n] = [path |-> e.path, was |-> files[e.path]]
      /\ \A k \in DOMAIN done : k \in 1..n /\ done'[k] = done[k]
      /\ \A k \in 1..n : k # n => k \in DOMAIN done
  <2> DEFINE S == [path : Paths, was : {0, 1}]
             x == [path |-> e.path, was |-> files[e.path]]
  <2>1. x \in S
    BY <1>3 DEF CoderInv, TypeOK
  <2> HIDE DEF S, x
  <2>2. done \in Seq(S) /\ done' = Append(done, x)
    BY <1>1, <1>5 DEF S, x
  <2>3. /\ DOMAIN done' = 1..n /\ done'[n] = x
        /\ \A k \in DOMAIN done : k \in 1..n /\ done'[k] = done[k]
        /\ \A k \in 1..n : k # n => k \in DOMAIN done
    BY <2>1, <2>2
  <2> QED BY <2>3 DEF x
<1>8. \A k \in DOMAIN done' : done'[k].was = before[done'[k].path]
  BY <1>1, <1>3, <1>7 DEF LeavesInv, UndoOK
<1>9. ASSUME NEW p \in Paths
      PROVE  files'[p] = before[p] \/ p \in dirs' \/ \E k \in DOMAIN done' : done'[k].path = p
  <2>1. CASE p = e.path
    <3>1. n \in DOMAIN done' /\ done'[n].path = p
      BY <1>1, <1>7, <2>1
    <3> QED BY <3>1
  <2>2. CASE p # e.path
    <3>1. files'[p] = files[p]
      BY <1>1, <1>4, <2>2
    <3>2. CASE \E k \in DOMAIN done : done[k].path = p
      BY <1>7, <3>2
    <3> QED BY <1>1, <1>4, <3>1, <3>2 DEF LeavesInv, UndoOK
  <2> QED BY <2>1, <2>2
<1>10. UndoOK'
  BY <1>8, <1>9 DEF UndoOK
<1> QED BY <1>1, <1>6, <1>10 DEF LeavesInv, FailureLeavesFiles

\* A write that fails leaves its file.
LEMMA FailingLeaves ==
  ASSUME ~TornWrites, CoderInv, LeavesInv, UNCHANGED before, BackupRaises \/ WriteFails
  PROVE  LeavesInv'
<1>1. /\ pc = "write" /\ UNCHANGED <<files, dirs, done>>
      /\ pc' = "undo" \/ (pc' = "ended" /\ result'.reason = "raised")
  BY DEF BackupRaises, WriteFails, Idle, Fails, Ends
<1> QED BY <1>1 DEF LeavesInv, PlaceOK, UndoOK, FailureLeavesFiles

\* An undo puts back what was there unless a directory is in its place.
LEMMA UndoLeaves ==
  ASSUME CoderInv, LeavesInv, UNCHANGED before, Undo
  PROVE  LeavesInv'
<1> DEFINE S == [path : Paths, was : {0, 1}]
           d == done[Len(done)]
<1>1. /\ done \in Seq(S) /\ done # <<>> /\ pc = "undo" /\ pc' = "undo"
      /\ files \in [Paths -> {0, 1, New, Torn}]
      /\ done' = SubSeq(done, 1, Len(done) - 1)
  BY DEF CoderInv, TypeOK, Undo
<1>2. d \in S /\ d.path \in Paths
  <2>1. Len(done) \in DOMAIN done
    BY <1>1
  <2>2. d \in S
    BY <1>1, <2>1, SeqElement
  <2> QED BY <2>2
<1>3. /\ \A k \in DOMAIN done' : k \in DOMAIN done /\ done'[k] = done[k]
      /\ \A k \in DOMAIN done : k # Len(done) => k \in DOMAIN done' /\ done'[k] = done[k]
  <2> HIDE DEF S
  <2>1. /\ \A k \in 1..(Len(done) - 1) : k \in DOMAIN done /\ SubSeq(done, 1, Len(done) - 1)[k] = done[k]
        /\ DOMAIN SubSeq(done, 1, Len(done) - 1) = 1..(Len(done) - 1)
    BY <1>1
  <2>2. \A k \in DOMAIN done : k # Len(done) => k \in 1..(Len(done) - 1)
    BY <1>1
  <2> QED BY <1>1, <2>1, <2>2
<1>4. d.was = before[d.path]
  <2>1. Len(done) \in DOMAIN done
    BY <1>1
  <2> QED BY <1>1, <2>1 DEF LeavesInv, UndoOK
<1>5. /\ \/ files' = files
         \/ files' = [files EXCEPT ![d.path] = d.was] /\ (d.was # 0 => d.path \notin dirs)
      /\ dirs \subseteq dirs'
  BY DEF Undo, Latest, WriteFile, DeleteFile, CanWrite
<1>6. files'[d.path] = before[d.path] \/ d.path \in dirs'
  <2>1. CASE d.was = 0
    BY <1>1, <1>2, <1>4, <2>1 DEF Undo, Latest, DeleteFile
  <2>2. CASE d.was # 0 /\ CanWrite(d.path)
    BY <1>1, <1>2, <1>4, <2>2 DEF Undo, Latest, WriteFile
  <2>3. CASE d.was # 0 /\ ~CanWrite(d.path)
    <3>1. \A q \in Parents(d.path) : files[q] = 0
      BY <1>4, <2>3 DEF LeavesInv, PlaceOK, Parents
    <3> QED BY <1>5, <2>3, <3>1 DEF CanWrite
  <2> QED BY <2>1, <2>2, <2>3
<1>7. PlaceOK'
  BY <1>1, <1>2, <1>5 DEF LeavesInv, PlaceOK
<1>8. ASSUME NEW p \in Paths
      PROVE  files'[p] = before[p] \/ p \in dirs' \/ \E k \in DOMAIN done' : done'[k].path = p
  <2>1. CASE p = d.path
    BY <1>6, <2>1
  <2>2. CASE p # d.path
    <3>1. files'[p] = files[p]
      BY <1>1, <1>2, <1>5, <2>2
    <3>2. CASE \E k \in DOMAIN done : done[k].path = p
      BY <1>3, <2>2, <3>2
    <3> QED BY <1>1, <1>5, <3>1, <3>2 DEF LeavesInv, UndoOK
  <2> QED BY <2>1, <2>2
<1>9. UndoOK'
  BY <1>1, <1>3, <1>8 DEF LeavesInv, UndoOK
<1> QED BY <1>1, <1>7, <1>9 DEF LeavesInv, FailureLeavesFiles

\* An undo that is over has put everything back; nothing was written where nothing was executed.
LEMMA EndingLeaves ==
  ASSUME CoderInv, LeavesInv, UNCHANGED before, Undone \/ RunTool \/ Report
  PROVE  LeavesInv'
<1>1. UNCHANGED <<files, dirs, done>> /\ pc \in {"write", "undo"} /\ pc' \in {pc, "ended"}
  BY DEF Undone, RunTool, Report, Written, Idle, Fails, Ends
<1>2. PlaceOK' /\ UndoOK'
  BY <1>1 DEF LeavesInv, PlaceOK, UndoOK
<1> SUFFICES FailureLeavesFiles'
  BY <1>2 DEF LeavesInv
<1>3. done = <<>> => FailureLeavesFiles'
  <2>1. done = <<>> => \A p \in Paths \ dirs : files[p] = before[p]
    BY <1>1 DEF LeavesInv, UndoOK
  <2> QED BY <1>1, <2>1 DEF FailureLeavesFiles
<1>4. CASE Undone
  BY <1>3, <1>4 DEF Undone
<1>5. CASE RunTool
  <2>1. \/ pc' = "write"
        \/ pc' = "ended" /\ result'.reason \in {"tool refused", "raised"}
    BY <1>5, FailsSays DEF RunTool, Written
  <2> QED BY <2>1 DEF FailureLeavesFiles
<1>6. CASE Report
  <2>1. CASE ~Real
    BY <1>3, <2>1 DEF Real
  <2>2. CASE Real
    <3>1. Ends(tools.passed, IF tools.passed THEN "none" ELSE "tools failed", Artifacts)
      BY <1>6, <2>2 DEF Report
    <3>2. result'.ok \/ result'.reason = "tools failed"
      <4>1. CASE tools.passed
        BY <3>1, <4>1 DEF Ends
      <4>2. CASE ~tools.passed
        BY <3>1, <4>2 DEF Ends
      <4> QED BY <4>1, <4>2
    <3> QED BY <3>2 DEF FailureLeavesFiles
  <2> QED BY <2>1, <2>2
<1> QED BY <1>4, <1>5, <1>6

\* As long as no write empties a file and then fails (then it is violated), an execution that fails
\* before its tools leaves every file as it was, except where a directory has taken its place.
THEOREM FailuresLeaveFiles == ASSUME ~TornWrites PROVE Spec => []FailureLeavesFiles
<1>1. CoderInv /\ LeavesInv /\ [Next]_vars => LeavesInv'
  <2> SUFFICES ASSUME CoderInv, LeavesInv, [Next]_vars PROVE LeavesInv'
    OBVIOUS
  <2>1. CASE UNCHANGED vars
    BY <2>1 DEF vars, memory, LeavesInv, PlaceOK, UndoOK, FailureLeavesFiles
  <2>2. CASE Step /\ UNCHANGED before
    BY <2>2, AskingLeaves, WriteLeaves, FailingLeaves, UndoLeaves, EndingLeaves DEF Step
  <2> QED BY <2>1, <2>2 DEF Next, Over
<1>2. LeavesInv => FailureLeavesFiles
  BY DEF LeavesInv
<1> QED BY <1>1, <1>2, CoderInvariant, InitIsLeavesInv, PTL DEF Spec
=============================================================================
