--------------------------- MODULE EditorBackend ---------------------------
(***************************************************************************)
(* The editor's side of PersistentCoder: the webview (media/main.js), the  *)
(* view provider that remembers the request it waits for, the client that  *)
(* starts, kills and restarts the backend process, and serve(), which      *)
(* answers one line at a time. They are joined by queues: clicks go to the *)
(* provider, posts to the webview, requests and lines through the pipes of *)
(* each process, and an exit is noticed some time after it happened.       *)
(*                                                                         *)
(* What an operation does to session and project is AgentSession; here it  *)
(* takes a while and succeeds or fails. A folder is open in the editor:    *)
(* without one the provider refuses before anything else happens.          *)
(***************************************************************************)
EXTENDS Integers, Sequences, FiniteSets

CONSTANTS MaxPresses, \* clicks of the user
          MaxViews,   \* times the webview is created
          MaxDeaths,  \* exits nobody asked for
          MaxNoise,   \* lines on stdout that are not of the protocol
          MaxMissing  \* starts that fail: no interpreter, or none that can be executed

ASSUME BoundAssumption ==
  {MaxPresses, MaxViews, MaxDeaths, MaxNoise, MaxMissing} \subseteq Nat

\* Every press restarts at most one process, every process and view inspects once.
Pids == 1 .. MaxPresses + 1
Ids  == 1 .. 2 * MaxPresses + MaxViews + 1
None == 0

VARIABLES
  proc,    \* proc[p]: a process of the backend
  inbox,   \* inbox[p]: requests in its stdin, None asks it to shut down
  lines,   \* lines[p]: what it printed and the client has not read
  killed,  \* processes that were sent a signal
  client,  \* [child, status, stopping, cancelling] of PersistentCoderProcess
  current, \* currentRequestId
  kind,    \* kind[i]: what request i asks for, "over" once the view was told how it ended
  view,    \* [open, busy, cards]: the webview, and whether it offers buttons
  toView, toHost, \* posts and clicks on their way
  told,    \* told[i]: how often the view was told how request i ended
  used     \* presses, views, deaths, noise, missing: how much of each bound is spent

vars == <<proc, inbox, lines, killed, client, current, kind, view, toView, toHost, told, used>>
backend == <<proc, inbox, lines, killed>>

Line(type, i) == [type |-> type, id |-> i]
Alive(p)   == proc[p].at \in {"starting", "idle", "working"}
Requests   == {i \in Ids : kind[i] # "none"}
NextId(i)  == i \notin Requests /\ \A j \in Ids : j < i => j \in Requests
NextPid(p) == proc[p].at = "unborn" /\ \A q \in 1 .. p - 1 : proc[q].at # "unborn"
Spend(what) == used' = [used EXCEPT ![what] = @ + 1]

(***************************************************************************)
(* Posts and requests of the provider                                      *)
(***************************************************************************)
Posted(type) == IF view.open THEN Append(toView, type) ELSE toView

\* inspect(), run() and projectAction(): the status is asked for, the pipe is written.
Usable == client.status = "ready" /\ client.child # None
Sent(k) == \E i \in Ids :
             /\ NextId(i) /\ current' = i
             /\ kind' = [kind EXCEPT ![i] = k]
             /\ inbox' = [inbox EXCEPT ![client.child] = Append(@, i)]

\* The view is told how request i ended.
Over(i) == /\ told' = [told EXCEPT ![i] = @ + 1]
           /\ kind' = [kind EXCEPT ![i] = "over"]

\* What handleBackendMessage makes of the line of a request.
Verdict(line) == IF line.type = "failed" THEN "failed"
                 ELSE IF kind[line.id] = "action" THEN "ended" ELSE "result"
\* Mutant: the id of the request is not compared.
IsCurrent_Any(line) == line.id # None
IsCurrent(line) == line.id = current

NoView == [open |-> FALSE, busy |-> FALSE, cards |-> FALSE]

\* activate(): an interpreter that is missing raises, is reported, and leaves the status as it is.
Init ==
  /\ \E missing \in 0 .. 1 :
       /\ missing <= MaxMissing
       /\ proc = [p \in Pids |-> [at |-> IF p = 1 /\ missing = 0 THEN "starting" ELSE "unborn", job |-> None]]
       /\ client = [child |-> 1 - missing, status |-> "starting", stopping |-> FALSE, cancelling |-> FALSE]
       /\ used = [presses |-> 0, views |-> 0, deaths |-> 0, noise |-> 0, missing |-> missing]
  /\ inbox = [p \in Pids |-> <<>>] /\ lines = inbox /\ killed = {}
  /\ current = None /\ kind = [i \in Ids |-> "none"] /\ told = [i \in Ids |-> 0]
  /\ view = NoView
  /\ toView = <<>> /\ toHost = <<>>

(***************************************************************************)
(* The backend process                                                     *)
(***************************************************************************)
Says(p, line) == lines' = [lines EXCEPT ![p] = Append(@, line)]

Boot(p) ==
  /\ proc[p].at = "starting"
  /\ proc' = [proc EXCEPT ![p].at = "idle"]
  /\ Says(p, Line("ready", None))
  /\ UNCHANGED <<inbox, killed, client, current, kind, view, toView, toHost, told, used>>

\* One line of stdin: a shutdown ends the loop; a run or an action is announced (so is what
\* was cancelled before it was read, whatever it asked for: nobody hears of it).
Read(p) ==
  /\ proc[p].at = "idle" /\ inbox[p] # <<>>
  /\ LET i == Head(inbox[p]) IN
       /\ proc' = [proc EXCEPT ![p] = IF i = None THEN [at |-> "dead", job |-> None]
                                      ELSE [at |-> "working", job |-> i]]
       /\ CASE i = None            -> Says(p, Line("shutdown", None))
            [] kind[i] = "inspect" -> UNCHANGED lines
            [] OTHER               -> Says(p, Line("started", i))
  /\ inbox' = [inbox EXCEPT ![p] = Tail(@)]
  /\ UNCHANGED <<killed, client, current, kind, view, toView, toHost, told, used>>

\* The operation returns or raises: either way the request is answered.
Reply(p) ==
  /\ proc[p].at = "working"
  /\ \E type \in {"done", "failed"} : Says(p, Line(type, proc[p].job))
  /\ proc' = [proc EXCEPT ![p] = [at |-> "idle", job |-> None]]
  /\ UNCHANGED <<inbox, killed, client, current, kind, view, toView, toHost, told, used>>

\* Something prints past redirect_stdout.
Noise(p) ==
  /\ proc[p].at = "working" /\ used.noise < MaxNoise
  /\ Says(p, Line("noise", None)) /\ Spend("noise")
  /\ UNCHANGED <<proc, inbox, killed, client, current, kind, view, toView, toHost, told>>

\* A signal takes effect some time after kill() returned.
Obey(p) ==
  /\ Alive(p) /\ p \in killed
  /\ proc' = [proc EXCEPT ![p] = [at |-> "dead", job |-> None]]
  /\ UNCHANGED <<inbox, lines, killed, client, current, kind, view, toView, toHost, told, used>>

Die(p) ==
  /\ Alive(p) /\ p \notin killed /\ used.deaths < MaxDeaths
  /\ proc' = [proc EXCEPT ![p] = [at |-> "dead", job |-> None]] /\ Spend("deaths")
  /\ UNCHANGED <<inbox, lines, killed, client, current, kind, view, toView, toHost, told>>

(***************************************************************************)
(* The client: lines, exit, cancel, dispose                                *)
(***************************************************************************)
\* start(): a missing interpreter raises after the status was set.
Start ==
  \/ \E p \in Pids :
       /\ NextPid(p) /\ proc' = [proc EXCEPT ![p].at = "starting"]
       /\ client' = [client EXCEPT !.child = p, !.status = "starting", !.cancelling = FALSE]
       /\ UNCHANGED used
  \/ /\ used.missing < MaxMissing /\ Spend("missing")
     /\ client' = [client EXCEPT !.child = None, !.status = "error", !.cancelling = FALSE]
     /\ UNCHANGED proc

\* "error": a process that could not be started at all has no exit either.
ErrorEvent ==
  /\ client.child # None /\ proc[client.child].at = "starting" /\ ~client.stopping
  /\ used.missing < MaxMissing /\ Spend("missing")
  /\ proc' = [proc EXCEPT ![client.child].at = "failed"]
  /\ client' = [client EXCEPT !.status = "error"]
  /\ UNCHANGED <<inbox, lines, killed, current, kind, view, toView, toHost, told>>

\* "exit": what is still in its pipes is lost; a cancelled one is replaced.
ExitEvent ==
  /\ client.child # None /\ proc[client.child].at = "dead"
  /\ lines' = [lines EXCEPT ![client.child] = <<>>]
  /\ inbox' = [inbox EXCEPT ![client.child] = <<>>]
  /\ \/ /\ ~client.stopping /\ client.cancelling
        /\ Start
     \/ /\ client.stopping \/ ~client.cancelling
        /\ client' = [client EXCEPT !.child = None,
                        !.status = IF client.stopping THEN "stopped" ELSE "error"]
        /\ UNCHANGED <<proc, used>>
  /\ UNCHANGED <<killed, current, kind, view, toView, toHost, told>>

\* The provider hears of its own request only; a new backend is asked for its state.
Handle(line) ==
  CASE line.type = "ready" ->
         /\ IF current = None THEN Sent("inspect") ELSE UNCHANGED <<inbox, kind, current>>
         /\ UNCHANGED <<toView, told>>
    [] line.type = "started" ->
         /\ toView' = IF ~IsCurrent(line) THEN toView
                      ELSE Posted(IF kind[line.id] = "action" THEN "acting" ELSE "started")
         /\ UNCHANGED <<inbox, kind, current, told>>
    [] line.type \in {"done", "failed"} /\ IsCurrent(line) ->
         /\ current' = None
         /\ toView' = Posted(Verdict(line))
         /\ Over(line.id)
         /\ UNCHANGED inbox
    [] OTHER -> UNCHANGED <<inbox, kind, current, toView, told>>

StatusAfter(line) == CASE line.type = "ready" -> "ready"
                       [] line.type = "noise" -> "error"
                       [] OTHER -> client.status

LineEvent ==
  LET p == client.child IN
  /\ p # None /\ ~client.stopping /\ lines[p] # <<>>
  /\ Handle(Head(lines[p]))
  /\ lines' = [lines EXCEPT ![p] = Tail(@)]
  /\ client' = [client EXCEPT !.status = StatusAfter(Head(lines[p]))]
  /\ UNCHANGED <<proc, killed, view, toHost, used>>

\* The extension is deactivated: shutdown is asked for, a kill is due later.
Dispose ==
  /\ ~client.stopping
  /\ client' = [client EXCEPT !.stopping = TRUE, !.cancelling = FALSE]
  /\ inbox' = IF client.child = None THEN inbox
              ELSE [inbox EXCEPT ![client.child] = Append(@, None)]
  /\ view' = NoView /\ toView' = <<>> /\ toHost' = <<>>
  /\ UNCHANGED <<proc, lines, killed, current, kind, told, used>>

LateKill ==
  /\ client.stopping /\ client.child # None /\ client.child \notin killed
  /\ killed' = killed \cup {client.child}
  /\ UNCHANGED <<proc, inbox, lines, client, current, kind, view, toView, toHost, told, used>>

(***************************************************************************)
(* The user and the view                                                   *)
(***************************************************************************)
\* The webview is created, the first time or again: it starts from nothing.
Resolve ==
  /\ used.views < MaxViews /\ ~client.stopping /\ Spend("views")
  /\ view' = [NoView EXCEPT !.open = TRUE]
  /\ toView' = <<>> /\ toHost' = <<>>
  /\ IF Usable /\ current = None THEN Sent("inspect")
                                 ELSE UNCHANGED <<inbox, kind, current>>
  /\ UNCHANGED <<proc, lines, killed, client, told>>

\* One button sends, or stops while the view is busy; a result offers its actions.
Press ==
  /\ view.open /\ used.presses < MaxPresses /\ Spend("presses")
  /\ \/ toHost' = Append(toHost, IF view.busy THEN "stop" ELSE "run")
     \/ view.cards /\ toHost' = Append(toHost, "action")
  /\ UNCHANGED <<backend, client, current, kind, view, toView, told>>

ViewEvent ==
  /\ toView # <<>> /\ toView' = Tail(toView)
  /\ LET post == Head(toView) IN
       \E offers \in BOOLEAN :
         view' = [view EXCEPT !.busy = post \in {"started", "acting"},
                    !.cards = CASE post = "acting" -> FALSE
                                [] post = "result" -> view.cards \/ offers
                                [] OTHER           -> view.cards]
  /\ UNCHANGED <<backend, client, current, kind, toHost, told, used>>

\* sendMessage, apply and discard: one request at a time, and a backend that is ready.
Request(k) ==
  IF current = None /\ Usable
  THEN Sent(k) /\ UNCHANGED <<lines, killed, client, toView, told>>
  ELSE toView' = Posted("failed") /\ UNCHANGED <<inbox, lines, killed, client, current, kind, told>>

\* Mutant: the exit that follows is not told from a crash.
Killed_Forever == /\ killed' = killed \cup {client.child}
                  /\ client' = [client EXCEPT !.status = "starting"]
\* kill() succeeds on a process that lives; on one whose exit was not noticed it may not.
Killed == /\ killed' = killed \cup {client.child}
          /\ client' = [client EXCEPT !.cancelling = TRUE, !.status = "starting"]
\* Mutant: the view is not told.
Forgotten_Silently == /\ current' = None
                      /\ Over(current)
                      /\ toView' = toView
Forgotten == /\ current' = None
             /\ Over(current)
             /\ toView' = Posted("cancelled")

\* cancelOperation: without a child, or with one that never was a process, there is nothing to
\* kill; the user hears the same.
Killable == client.child # None /\ proc[client.child].at # "failed"
Stop ==
  /\ UNCHANGED <<inbox, lines>>
  /\ \/ /\ current = None
        /\ UNCHANGED <<killed, client, current, kind, toView, told>>
     \/ /\ current # None /\ Killable
        /\ Killed /\ Forgotten
     \/ /\ current # None /\ ~Killable
        /\ Forgotten /\ UNCHANGED <<killed, client>>
     \/ /\ current # None /\ Killable /\ ~Alive(client.child)
        /\ client' = [client EXCEPT !.cancelling = FALSE, !.status = "starting"]
        /\ toView' = Posted("failed")
        /\ UNCHANGED <<killed, current, kind, told>>

HostEvent ==
  /\ toHost # <<>> /\ toHost' = Tail(toHost)
  /\ IF Head(toHost) = "stop" THEN Stop ELSE Request(Head(toHost))
  /\ UNCHANGED <<proc, view, used>>

Next ==
  \/ \E p \in Pids : Boot(p) \/ Read(p) \/ Reply(p) \/ Noise(p) \/ Obey(p) \/ Die(p)
  \/ ErrorEvent \/ ExitEvent \/ LineEvent \/ Dispose \/ LateKill
  \/ Resolve \/ Press \/ ViewEvent \/ HostEvent

\* The event loops go on, the operating system delivers signals, and serve()
\* answers what it reads: every operation ends (RunEnds, CallsAreAnswered).
Fairness ==
  /\ \A p \in Pids : WF_vars(Boot(p)) /\ WF_vars(Read(p)) /\ WF_vars(Reply(p)) /\ WF_vars(Obey(p))
  /\ WF_vars(ExitEvent) /\ WF_vars(LineEvent) /\ WF_vars(LateKill)
  /\ WF_vars(ViewEvent) /\ WF_vars(HostEvent)

Spec == Init /\ [][Next]_vars /\ Fairness

(***************************************************************************)
(* Properties                                                              *)
(***************************************************************************)
TypeOK ==
  /\ proc \in [Pids -> [at : {"unborn", "starting", "idle", "working", "dead", "failed"},
                    job : Ids \cup {None}]]
  /\ killed \subseteq Pids
  /\ client \in [child : Pids \cup {None}, status : {"starting", "ready", "error", "stopped"},
                 stopping : BOOLEAN, cancelling : BOOLEAN]
  /\ current \in Requests \cup {None}
  /\ view \in [open : BOOLEAN, busy : BOOLEAN, cards : BOOLEAN]

\* However cancels, exits and restarts overlap, two backends never live at the same time:
\* they would recover and run over the same project.
OneBackend == Cardinality({p \in Pids : Alive(p)}) <= 1

\* Once it has read what it was told, the view is not busy over nothing: its input
\* would stay disabled with no answer to come.
BusyMeansWaiting == toView = <<>> /\ view.busy => current # None

\* Processes, client and view agree, with their queues on the way.
EditorIsTrue == TypeOK /\ OneBackend /\ BusyMeansWaiting

\* A request has one outcome: what was cancelled is not reported as done when the answer
\* was already in the pipe, and nothing is reported twice.
OneAnswer == \A i \in Ids : told[i] <= 1

\* A request the user waits for is never with a process that was sent a signal.
NotWithTheDying ==
  current # None => \A p \in killed : Alive(p) /\ ~client.stopping =>
    proc[p].job # current /\ \A n \in DOMAIN inbox[p] : inbox[p][n] # current

\* What the user is told is about the request he made, and it was made to a backend that can answer.
RepliesAreCurrent == OneAnswer /\ NotWithTheDying

\* Cancelling keeps the backend responsive (docs/superpowers/specs/2026-09-14-persistentcoder-mvp-
\* design.md:90): it is replaced. Requests are answered, one after the other, and no process
\* outlives the extension.
\* An exit nobody asked for and a missing interpreter are excepted: see BackendComesBack.
Excepted == used.deaths > 0 \/ used.missing > 0 \/ client.stopping
OperationsEnd ==
  /\ client.child \in killed ~> client.status = "ready" \/ Excepted
  /\ current # None ~> current = None \/ Excepted
  /\ client.stopping ~> \A p \in Pids : ~Alive(p)

\* Found violated: while an operation runs and the view knows of it, its button stops it. A
\* click on an older result is refused with runFailed, which sets the view idle.
StopIsOffered ==
  LET p == client.child IN
  p # None /\ toView = <<>> /\ lines[p] = <<>> /\ proc[p].at = "working" /\ proc[p].job = current
    /\ kind[current] # "inspect" /\ view.open => view.busy

\* Found violated: nothing starts the backend again after an exit nobody asked for, and
\* nothing clears the error of a line that could not be read.
BackendComesBack == client.status = "error" ~> client.status = "ready" \/ client.stopping
=============================================================================
