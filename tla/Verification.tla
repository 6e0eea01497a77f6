---------------------------- MODULE Verification ----------------------------
(***************************************************************************)
(* VerificationAgent._verify(): what a verdict about a workspace is made   *)
(* of. The identity of the image and the files are recorded, the criteria  *)
(* are looked up in the workspace or run as commands of the runner, each   *)
(* on the copy its container makes, and identity and files are recorded    *)
(* once more. All the while anybody may edit the files and build the       *)
(* image, and other calls compete for the slots of the runner.             *)
(*                                                                         *)
(* What a file holds, and the image, is a revision that only grows: what   *)
(* comes back to an old content between two looks cannot be seen.          *)
(***************************************************************************)
EXTENDS CommandRunner, Sequences

CONSTANTS
  Files, Image,  \* what is verified, and what it is verified in
  Before, After, \* the calls that ask for the environment
  Criteria,      \* what is checked, in this order: a command (a call), or a file
  MaxRevision    \* bound: how far edits and builds go

Things   == Files \cup {Image}
Commands == {Criteria[k] : k \in DOMAIN Criteria} \ Files
Own      == {Before, After} \cup Commands

ASSUME ThingAssumption    == Image \notin Files /\ Files \cap Calls = {} /\ MaxRevision \in Nat
ASSUME CriteriaAssumption ==
  /\ {Before, After} \subseteq Probes /\ Before # After
  /\ Criteria \in Seq(Files \cup (Calls \ Probes))

VARIABLES
  revision, \* of every thing
  input,    \* input[c]: what the container of a command has of every thing
  stage,    \* where _verify() is
  context, again, \* the revisions it recorded, before and after
  memo,     \* _command_cache: "none", "ok", "bad"; "stale" is the ok of an earlier verification
  checked, statuses, \* criteria that were evaluated, and how they ended
  evidence, \* revisions of things the results rest on
  verdict

recorded   == <<context, again>>
results    == <<memo, checked, statuses, evidence>>
verifier   == <<stage, recorded, results, verdict>>
verifyVars == <<runnerVars, revision, input, verifier>>

Unseen    == -1
NotSeen   == [t \in Things |-> Unseen]
Oldest    == 0 \* the revision an earlier verification saw
Statuses  == {"PASS", "FAIL", "BLOCKED"}

VerifyInit ==
  /\ RunnerInit
  /\ revision = [t \in Things |-> 1] /\ input = [c \in Commands |-> NotSeen]
  /\ stage = "before" /\ context = NotSeen /\ again = NotSeen
  /\ memo \in [Commands -> {"none", "stale"}]
  /\ checked = 0 /\ statuses = {} /\ evidence = {} /\ verdict = "none"

Decide(v) == stage' = "done" /\ verdict' = v

(***************************************************************************)
(* The calls of the runner                                                 *)
(***************************************************************************)
Criterion == Criteria[checked + 1]
Checking(c) == stage = "criteria" /\ checked < Len(Criteria) /\ Criterion = c

\* _verify() makes one call at a time; other callers make theirs when they like.
Due(c) == \/ c \notin Own
          \/ c = Before /\ stage = "before"
          \/ c = After /\ stage = "after"
          \/ c \in Commands /\ Checking(c) /\ memo[c] = "none"

\* The identity of the image is read by the step that answers.
Identified(record, c, probe) ==
  IF c = probe /\ call'[c].code = OK THEN [record EXCEPT ![Image] = revision[Image]] ELSE record

CallStep(c) ==
  /\ Runner(c) /\ (At(c, "idle") => Due(c))
  /\ context' = Identified(context, c, Before) /\ again' = Identified(again, c, After)
  /\ UNCHANGED <<revision, input, stage, results, verdict>>

\* The container is made of the image of the moment, ...
ContainerStarts(c) ==
  /\ Starts(c)
  /\ input' = IF c \in Commands THEN [input EXCEPT ![c][Image] = revision[Image]] ELSE input
  /\ UNCHANGED <<revision, verifier>>

\* ... copies one file after the other (`cp -a /input/. /workspace/') ...
Copy(c, f) ==
  /\ container[c] = "up" /\ input[c][f] = Unseen
  /\ input' = [input EXCEPT ![c][f] = revision[f]]
  /\ UNCHANGED <<runnerVars, revision, verifier>>

\* ... and does not succeed before it has them all. _verify() cancels none of its calls.
CommandStep(c) ==
  /\ \/ Prints(c) \/ Drain(c)
     \/ Exits(c) /\ (c \in Commands /\ client'[c] = OK => \A t \in Things : input[c][t] # Unseen)
     \/ Cancel(c) /\ c \notin Own
  /\ UNCHANGED <<revision, input, verifier>>

\* Bound: nothing changes any more once the verdict is there.
Change(t) ==
  /\ stage # "done" /\ revision[t] < MaxRevision
  /\ revision' = [revision EXCEPT ![t] = @ + 1]
  /\ UNCHANGED <<runnerVars, input, verifier>>

(***************************************************************************)
(* _verify()                                                               *)
(***************************************************************************)
\* One file of _workspace_digest(), the first time and the second.
Capture(f) ==
  /\ \/ /\ stage = "before" /\ At(Before, "returned") /\ context[f] = Unseen
        /\ context' = [context EXCEPT ![f] = revision[f]] /\ UNCHANGED again
     \/ /\ stage = "after" /\ At(After, "returned") /\ again[f] = Unseen
        /\ statuses = {"PASS"} /\ call[After].code = OK
        /\ again' = [again EXCEPT ![f] = revision[f]] /\ UNCHANGED context
  /\ UNCHANGED <<runnerVars, revision, input, stage, results, verdict>>

\* A link, a limit, a file that changes while it is read: there is no digest.
CaptureFails ==
  /\ \/ stage = "before" /\ At(Before, "returned")
     \/ stage = "after" /\ At(After, "returned") /\ statuses = {"PASS"} /\ call[After].code = OK
  /\ Decide("BLOCKED")
  /\ UNCHANGED <<runnerVars, revision, input, recorded, results>>

\* Mutant: what an earlier verification found is kept.
Forget_Nothing == UNCHANGED memo

Forget == memo' = [c \in Commands |-> "none"]

\* The context is complete: the environment, the cache, the gate, and whether there is something to check.
Begin ==
  /\ stage = "before" /\ At(Before, "returned") /\ \A f \in Files : context[f] # Unseen
  /\ \/ call[Before].code # OK /\ Decide("BLOCKED") /\ UNCHANGED memo
     \/ /\ call[Before].code = OK /\ Forget
        /\ \/ \E v \in {"FAIL", "BLOCKED"} : Decide(v)
           \/ Criteria = <<>> /\ Decide("FAIL")
           \/ Criteria # <<>> /\ stage' = "criteria" /\ UNCHANGED verdict
  /\ UNCHANGED <<runnerVars, revision, input, recorded, checked, statuses, evidence>>

Conclude(status, seen) ==
  /\ checked' = checked + 1 /\ statuses' = statuses \cup {status} /\ evidence' = evidence \cup seen
  /\ UNCHANGED <<runnerVars, revision, input, stage, recorded, verdict>>

\* A criterion about a file, ...
Look(f) ==
  /\ Checking(f) /\ \E status \in Statuses : Conclude(status, {<<f, revision[f]>>})
  /\ UNCHANGED memo

\* ... one that needs no command to fail, ...
NoCommand(c) ==
  /\ Checking(c) /\ At(c, "idle") /\ memo[c] = "none"
  /\ \E status \in {"FAIL", "BLOCKED"} : Conclude(status, {})
  /\ UNCHANGED memo

\* ... one whose command was answered in this verification, or is in the cache, ...
Recall(c) ==
  /\ Checking(c) /\ memo[c] # "none"
  /\ Conclude(IF memo[c] = "bad" THEN "FAIL" ELSE "PASS",
              IF memo[c] = "stale" THEN Things \X {Oldest} ELSE {})
  /\ UNCHANGED memo

\* ... and one whose command has returned.
Unavailable == {Flooded, TimedOut, Capacity, NoImage, NoDaemon, Cancelled}
Status(code) == IF code = OK THEN "PASS" ELSE IF code \in Unavailable THEN "BLOCKED" ELSE "FAIL"
Take(c) ==
  /\ Checking(c) /\ At(c, "returned") /\ memo[c] = "none"
  /\ memo' = [memo EXCEPT ![c] = IF call[c].code = OK THEN "ok" ELSE "bad"]
  /\ Conclude(Status(call[c].code), {<<t, input[c][t]>> : t \in {u \in Things : input[c][u] # Unseen}})

AllChecked ==
  /\ stage = "criteria" /\ checked = Len(Criteria) /\ stage' = "after"
  /\ UNCHANGED <<runnerVars, revision, input, recorded, results, verdict>>

\* Mutant: the files are compared, the environment is not.
Same_Files == \A f \in Files : again[f] = context[f]

Same == again = context

\* A failure beats what could not be checked; a pass needs the same context once more.
Conclusion ==
  /\ stage = "after" /\ At(After, "returned")
  /\ \/ "FAIL" \in statuses /\ Decide("FAIL")
     \/ "FAIL" \notin statuses /\ "BLOCKED" \in statuses /\ Decide("BLOCKED")
     \/ statuses = {"PASS"} /\ call[After].code # OK /\ Decide("BLOCKED")
     \/ /\ statuses = {"PASS"} /\ call[After].code = OK /\ \A f \in Files : again[f] # Unseen
        /\ Decide(IF Same THEN "PASS" ELSE "BLOCKED")
  /\ UNCHANGED <<runnerVars, revision, input, recorded, results>>

Verify == CaptureFails \/ Begin \/ AllChecked \/ Conclusion \/ \E f \in Files : Capture(f) \/ Look(f)
Answered(c) == NoCommand(c) \/ Recall(c) \/ Take(c)
VerifyOver ==
  /\ stage = "done" /\ \A c \in Calls : At(c, "idle") \/ At(c, "returned")
  /\ UNCHANGED verifyVars

VerifyNext ==
  \/ Verify \/ VerifyOver
  \/ \E c \in Calls : CallStep(c) \/ ContainerStarts(c) \/ CommandStep(c)
  \/ \E c \in Commands : Answered(c) \/ \E f \in Files : Copy(c, f)
  \/ \E t \in Things : Change(t)

\* Nobody has to make a call, or to end a command; a call that was made goes on.
VerifyFairness == \A c \in Calls : /\ WF_verifyVars(~At(c, "idle") /\ CallStep(c))
                                   /\ WF_verifyVars(Drain(c) /\ CommandStep(c))
VerifySpec == VerifyInit /\ [][VerifyNext]_verifyVars

(***************************************************************************)
(* Properties                                                              *)
(***************************************************************************)
\* A verdict PASS is about the files and the image that were recorded with it, whatever was
\* edited and built meanwhile: no result rests on another revision of a thing, every criterion
\* has a result, and the commands among them ended by themselves, with all of their output, on
\* a copy of exactly these files in exactly this image.
EvidenceIsCurrent ==
  verdict = "PASS" =>
    /\ \A e \in evidence : e[2] = context[e[1]]
    /\ \A k \in DOMAIN Criteria :
         IF Criteria[k] \in Files THEN \E e \in evidence : e[1] = Criteria[k]
         ELSE Ended(Criteria[k], OK) /\ input[Criteria[k]] = context

\* Found violated: the files and the image are still those of the context.
PassIsAboutNow == verdict = "PASS" => revision = context
=============================================================================
