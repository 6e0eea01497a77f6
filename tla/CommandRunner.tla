--------------------------- MODULE CommandRunner ---------------------------
(***************************************************************************)
(* SandboxCommandRunner: threads that run commands, or ask for the         *)
(* identity of the environment, in containers. A call takes one of the     *)
(* slots of the admission semaphore, starts a docker client, polls it      *)
(* while two readers drain its pipes, stops it when the output, the clock  *)
(* or the caller says so, and gives the slot back.                         *)
(*                                                                         *)
(* Docker is external: a client starts its container some time after it    *)
(* was started itself. Output is counted in chunks.                        *)
(***************************************************************************)
EXTENDS Integers, FiniteSets

CONSTANTS
  Calls,          \* calls of run_argv(), run() or verification_environment()
  Probes,         \* those of them that ask for the environment
  MaxConcurrent,  \* max_concurrent_commands
  MaxOutput,      \* max_output_bytes
  MaxPrinted,     \* MaxPrinted[c]: what a call's command can print at most
  OwnCodes,       \* OwnCodes[c]: the codes its command, or docker itself, can end with
  DockerFaults,   \* may a container start, or run on, after `docker kill'?
  SlowReaders     \* may a reader be slower than the two seconds it is waited for?

ASSUME CallAssumption  == Probes \subseteq Calls /\ IsFiniteSet(Calls)
ASSUME OutputAssumption == MaxConcurrent \in Nat \ {0} /\ MaxOutput \in Nat \ {0} /\ MaxPrinted \in [Calls -> Nat]
ASSUME CodeAssumption   == OwnCodes \in [Calls -> SUBSET (0..255)]
ASSUME DockerAssumption == DockerFaults \in BOOLEAN /\ SlowReaders \in BOOLEAN

VARIABLES
  slots,      \* value of the semaphore
  cached,     \* _cached_availability: "unknown", "yes", "no"
  call,       \* call[c]: where it is, why it is being stopped, what it returned
  client,     \* client[c]: docker process: "none", "up", or its exit code
  container,  \* container[c]: "none", "up", "gone"
  printed, piped, kept, \* chunks of output: printed, in the pipes, retained
  marked,     \* marked[c]: does what is retained speak of a full disk or of no memory?
  cancelled   \* the caller's token

docker     == <<container, printed>>
output     == <<piped, kept, marked>>
runnerVars == <<slots, cached, call, client, docker, output, cancelled>>

OK == 0
Killed == 137 \* SIGKILL, which is how the limit of the memory ends a command
Capacity == 125
NoDaemon == 127
NoImage == 126
Flooded == 122
Cancelled == 130
TimedOut == 124
Codes == 0..255
Up == -1 \* a client that runs
No == -2 \* a client that was not started, a result that is not there

RunnerInit ==
  /\ slots = MaxConcurrent /\ cached = "unknown"
  /\ call = [c \in Calls |-> [pc |-> "idle", reason |-> No, code |-> No]]
  /\ client = [c \in Calls |-> No] /\ container = [c \in Calls |-> "none"]
  /\ printed = [c \in Calls |-> 0] /\ piped = printed /\ kept = printed
  /\ marked = [c \in Calls |-> FALSE] /\ cancelled = marked

Holding == {"admitted", "polling", "stopping", "killing", "joining"}
RunnerTypeOK ==
  /\ slots \in 0..MaxConcurrent /\ cached \in {"unknown", "yes", "no"}
  /\ \A c \in Calls :
       /\ call[c].pc \in Holding \cup {"idle", "asked", "returned"}
       /\ call[c].reason \in Codes \cup {No} /\ call[c].code \in Codes \cup {No}
       /\ client[c] \in {Up, No} \cup Codes /\ container[c] \in {"none", "up", "gone"}
       /\ {printed[c], piped[c], kept[c]} \subseteq 0..MaxPrinted[c]
       /\ {marked[c], cancelled[c]} \subseteq BOOLEAN

At(c, pc)   == call[c].pc = pc
Goto(c, pc) == call' = [call EXCEPT ![c].pc = pc]
Stop(c, reason) == call' = [call EXCEPT ![c].pc = "stopping", ![c].reason = reason]
\* return of a call that holds no slot
Refuse(c, code) == /\ call' = [call EXCEPT ![c].pc = "returned", ![c].code = code]
                   /\ UNCHANGED slots

\* Mutant: an early return does not pass the finally.
Answer_KeepsSlot(c, code) == Refuse(c, code)

\* return of a call that holds one: `finally: self._admission.release()'
Answer(c, code) == /\ call' = [call EXCEPT ![c].pc = "returned", ![c].code = code]
                   /\ slots' = slots + 1

(***************************************************************************)
(* Admission                                                               *)
(***************************************************************************)
Ask(c) ==
  /\ At(c, "idle")
  /\ IF cancelled[c] /\ c \notin Probes THEN Refuse(c, Cancelled) ELSE Goto(c, "asked") /\ UNCHANGED slots
  /\ UNCHANGED <<cached, client, docker, output, cancelled>>

\* Mutant: the count of the semaphore is not looked at.
Free_Always == TRUE

Free == slots > 0

Admit(c) ==
  /\ At(c, "asked")
  /\ IF Free THEN slots' = slots - 1 /\ Goto(c, "admitted") ELSE Refuse(c, Capacity)
  /\ UNCHANGED <<cached, client, docker, output, cancelled>>

\* daemon_available() asks once; ensure_image() finds, builds or misses the image; then the
\* client is started, or the identity of the image is read.
Prepare(c) ==
  /\ At(c, "admitted")
  /\ \E available \in BOOLEAN :
       /\ cached # "unknown" => available = (cached = "yes")
       /\ cached' = IF available THEN "yes" ELSE "no"
       /\ \/ ~available /\ Answer(c, NoDaemon) /\ UNCHANGED client
          \/ available /\ Answer(c, NoImage) /\ UNCHANGED client
          \/ available /\ c \in Probes /\ Answer(c, OK) /\ UNCHANGED client
          \/ available /\ c \notin Probes /\ Answer(c, Capacity) /\ UNCHANGED client \* OSError
          \/ /\ available /\ c \notin Probes /\ Goto(c, "polling") /\ UNCHANGED slots
             /\ client' = [client EXCEPT ![c] = Up]
  /\ UNCHANGED <<docker, output, cancelled>>

(***************************************************************************)
(* The command: docker, the readers, the clock, the caller                 *)
(***************************************************************************)
Starts(c) ==
  /\ container[c] = "none" /\ client[c] = Up
  /\ At(c, "killing") => DockerFaults
  /\ container' = [container EXCEPT ![c] = "up"]
  /\ UNCHANGED <<slots, cached, call, client, printed, output, cancelled>>

Prints(c) ==
  /\ container[c] = "up" /\ client[c] = Up /\ printed[c] < MaxPrinted[c]
  /\ printed' = [printed EXCEPT ![c] = @ + 1] /\ piped' = [piped EXCEPT ![c] = @ + 1]
  /\ UNCHANGED <<slots, cached, call, client, container, kept, marked, cancelled>>

\* The command ends with its container, or the client without one; with any code, those the
\* runner itself answers with too.
Exits(c) ==
  /\ client[c] = Up
  /\ \E code \in OwnCodes[c] :
       /\ code = OK => container[c] = "up"
       /\ client' = [client EXCEPT ![c] = code]
  /\ container' = [container EXCEPT ![c] = "gone"]
  /\ UNCHANGED <<slots, cached, call, printed, output, cancelled>>

\* What the readers have drained; a chunk beyond the limit is counted and dropped.
Drained(c) == printed[c] - piped[c]
TooMuch(c) == Drained(c) > MaxOutput

\* Mutant: every chunk is retained.
Room_Unbounded(c) == 1

Room(c) == IF kept[c] < MaxOutput THEN 1 ELSE 0

Drain(c) ==
  /\ piped[c] > 0 /\ piped' = [piped EXCEPT ![c] = @ - 1]
  /\ kept' = [kept EXCEPT ![c] = @ + Room(c)]
  /\ \E marker \in BOOLEAN : /\ marker => Room(c) = 1
                             /\ marked' = [marked EXCEPT ![c] = @ \/ marker]
  /\ UNCHANGED <<slots, cached, call, client, docker, cancelled>>

\* Only the start and the loop look at the token.
Cancel(c) ==
  /\ call[c].pc \in {"idle", "polling"} /\ ~cancelled[c]
  /\ cancelled' = [cancelled EXCEPT ![c] = TRUE]
  /\ UNCHANGED <<slots, cached, call, client, docker, output>>

\* Mutant: the deadline is not looked at.
Reasons_NoDeadline(c) == IF TooMuch(c) THEN {Flooded} ELSE IF cancelled[c] THEN {Cancelled} ELSE {}

\* What the loop looks at, in its order; the deadline may be over at any time.
Reasons(c) == IF TooMuch(c) THEN {Flooded} ELSE IF cancelled[c] THEN {Cancelled} ELSE {TimedOut}

Poll(c) ==
  /\ At(c, "polling")
  /\ \/ client[c] # Up /\ Goto(c, "joining")
     \/ client[c] = Up /\ \E reason \in Reasons(c) : Stop(c, reason)
  /\ UNCHANGED <<slots, cached, client, docker, output, cancelled>>

\* _stop_container(): `docker kill' of a container that runs, or an error nobody looks at ...
Kill(c) ==
  /\ At(c, "stopping") /\ Goto(c, "killing")
  /\ \/ container' = [container EXCEPT ![c] = IF @ = "up" THEN "gone" ELSE @]
     \/ DockerFaults /\ UNCHANGED container
  /\ UNCHANGED <<slots, cached, client, printed, output, cancelled>>

\* ... then the client, if it is still there.
KillClient(c) ==
  /\ At(c, "killing") /\ Goto(c, "joining")
  /\ client' = [client EXCEPT ![c] = IF @ = Up THEN Killed ELSE @]
  /\ UNCHANGED <<slots, cached, docker, output, cancelled>>

\* _completed_result(): a command that was killed, or that says so, is not one that failed.
Completed(c) == IF client[c] = Killed \/ marked[c] THEN Capacity ELSE client[c]

\* Mutant: the output is not looked at again once the readers have ended.
Outcome_AsPolled(c) == IF call[c].reason # No THEN call[c].reason ELSE Completed(c)

Outcome(c) == IF call[c].reason # No THEN call[c].reason
              ELSE IF TooMuch(c) THEN Flooded ELSE Completed(c)

\* The readers are waited for, and the result is what stopped the command or its code.
Join(c) ==
  /\ At(c, "joining") /\ (piped[c] = 0 \/ SlowReaders)
  /\ Answer(c, Outcome(c))
  /\ UNCHANGED <<cached, client, docker, output, cancelled>>

Runner(c) == Ask(c) \/ Admit(c) \/ Prepare(c) \/ Poll(c) \/ Kill(c) \/ KillClient(c) \/ Join(c)
World(c)  == Starts(c) \/ Prints(c) \/ Exits(c) \/ Cancel(c)
AllAnswered == (\A c \in Calls : At(c, "returned")) /\ UNCHANGED runnerVars
RunnerNext == AllAnswered \/ \E c \in Calls : Runner(c) \/ World(c) \/ Drain(c)

RunnerSpec     == RunnerInit /\ [][RunnerNext]_runnerVars
RunnerFairSpec == RunnerSpec /\ \A c \in Calls : WF_runnerVars(Runner(c)) /\ WF_runnerVars(Drain(c))

(***************************************************************************)
(* Properties                                                              *)
(***************************************************************************)
\* The slots that are taken are those of the calls between admission and answer, whichever way
\* a call ends: no path keeps one, none gives one back twice, and no more clients run than
\* there are slots.
SlotsAreKept ==
  /\ RunnerTypeOK
  /\ slots + Cardinality({c \in Calls : call[c].pc \in Holding}) = MaxConcurrent
  /\ Cardinality({c \in Calls : client[c] = Up}) <= MaxConcurrent

\* The runner itself answers with this code, and for its cause.
Caused(c, code) ==
  \/ code = Flooded   /\ printed[c] > MaxOutput
  \/ code = Cancelled /\ cancelled[c]
  \/ code = TimedOut  /\ call[c].reason = TimedOut
  \/ code = Capacity  /\ (client[c] \in {No, Killed} \/ marked[c])
  \/ code = NoDaemon  /\ client[c] = No /\ cached = "no"
  \/ code = NoImage   /\ client[c] = No

\* The command ended with this code, and all it printed is there.
Ended(c, code) ==
  /\ client[c] = code /\ code # Killed /\ ~marked[c]
  /\ kept[c] = printed[c]

\* A command that was answered ended so, with its output whole, or was refused, stopped or
\* killed for the cause its code names. (A command may end with one of these codes by itself.)
ResultIsTrue ==
  \A c \in Calls \ Probes :
    At(c, "returned") => Caused(c, call[c].code) \/ Ended(c, call[c].code)

\* No more output is retained than the limit, whatever the readers drain before the command
\* is stopped.
OutputIsBounded == \A c \in Calls : kept[c] <= MaxOutput

\* What a caller gets is what the command printed and how it ended, within the limit.
OutputIsTrue == ResultIsTrue /\ OutputIsBounded

\* Every call is answered, even if its command never ends and never prints.
CallsAreAnswered == \A c \in Calls : At(c, "asked") ~> At(c, "returned")

\* Found violated if DockerFaults: a command that was answered does not run on.
NothingOutlivesItsCall == \A c \in Calls : At(c, "returned") => container[c] # "up"
=============================================================================
