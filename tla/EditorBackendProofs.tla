----------------------- MODULE EditorBackendProofs -----------------------
(***************************************************************************)
(* For any number of clicks, views, deaths and failed starts: at most one  *)
(* backend lives, the view is not busy over nothing, and every request has *)
(* one outcome, from a process that can give it.                           *)
(***************************************************************************)
EXTENDS EditorBackend, FiniteSetTheorems, TLAPS

(***************************************************************************)
(* The inductive invariant                                                 *)
(***************************************************************************)
ProcAt    == {"unborn", "starting", "idle", "working", "dead", "failed"}
LineTypes == {"ready", "started", "done", "failed", "shutdown", "noise"}
Lines     == [type : LineTypes, id : Ids \cup {None}]
Answers   == {"started", "done", "failed"}
Posts     == {"started", "acting", "result", "ended", "failed", "cancelled"}
Clicks    == {"run", "stop", "action"}
Kinds     == {"none", "inspect", "run", "action", "over"}
Counters  == {"presses", "views", "deaths", "noise", "missing"}

\* The types with the queues; a process at work has a request, and so has an answer.
Typed ==
  /\ TypeOK
  /\ inbox \in [Pids -> Seq(Ids \cup {None})] /\ lines \in [Pids -> Seq(Lines)]
  /\ kind \in [Ids -> Kinds] /\ told \in [Ids -> {0, 1}]
  /\ toView \in Seq(Posts) /\ toHost \in Seq(Clicks)
  /\ \A p \in Pids :
       /\ proc[p].at = "working" => proc[p].job \in Ids
       /\ \A n \in DOMAIN lines[p] :
            lines[p][n].type \in Answers => lines[p][n].id \in Ids

Child == client.child

\* A process that lives is the client's child.
ChildOK == /\ \A p \in Pids : Alive(p) => p = Child
           /\ \A p \in Pids : p \in killed \/ p = Child => proc[p].at # "unborn"

\* The line that says a process is ready is printed once.
Readies(p) == {n \in DOMAIN lines[p] : lines[p][n].type = "ready"}
ReadyOK == \A p \in Pids : /\ proc[p].at \in {"unborn", "starting"} => Readies(p) = {}
                           /\ \A m, n \in Readies(p) : m = n

\* Before the child was heard to be ready, nothing is waited for.
WaitingOK == Child # None /\ (proc[Child].at = "starting" \/ Readies(Child) # {}) =>
               current = None /\ client.status # "ready"

\* A child that was cancelled was ready before and gets no request.
KilledOK ==
  /\ Child # None /\ Child \in killed /\ ~client.stopping =>
       /\ current = None /\ client.status # "ready"
       /\ proc[Child].at # "starting" /\ Readies(Child) = {}
  /\ client.cancelling => ~client.stopping /\ Child # None /\ Child \in killed

\* What the view will be once it has read its posts, and nothing for a view that is closed.
WillBeBusy == IF toView = <<>> THEN view.busy ELSE toView[Len(toView)] \in {"started", "acting"}
ViewOK == /\ WillBeBusy => current # None
          /\ ~view.open => view = NoView /\ toView = <<>>
          /\ client.stopping => ~view.open /\ toHost = <<>>

\* An outcome is told when the request is over.
ToldOK == /\ \A i \in Ids : told[i] = 1 => kind[i] = "over"
          /\ current # None => kind[current] \in {"inspect", "run", "action"}

IndInv == Typed /\ ChildOK /\ ReadyOK /\ WaitingOK /\ KilledOK /\ ViewOK /\ ToldOK

(***************************************************************************)
(* What single updates do                                                  *)
(***************************************************************************)
ProcRows == [at : ProcAt, job : Ids \cup {None}]
Clients  == [child : Pids \cup {None}, status : {"starting", "ready", "error", "stopped"},
             stopping : BOOLEAN, cancelling : BOOLEAN]

LEMMA TypeFacts ==
  ASSUME Typed
  PROVE  /\ proc \in [Pids -> ProcRows] /\ killed \subseteq Pids /\ client \in Clients
         /\ Child \in Pids \cup {None} /\ None \notin Pids /\ None \notin Ids
         /\ current \in Ids \cup {None} /\ (current # None => kind[current] # "none")
         /\ view \in [open : BOOLEAN, busy : BOOLEAN, cards : BOOLEAN]
         /\ inbox \in [Pids -> Seq(Ids \cup {None})] /\ lines \in [Pids -> Seq(Lines)]
         /\ kind \in [Ids -> Kinds] /\ told \in [Ids -> {0, 1}]
         /\ toView \in Seq(Posts) /\ toHost \in Seq(Clicks)
<1>1. None \notin Pids /\ None \notin Ids
  BY BoundAssumption DEF None, Pids, Ids
<1>2. TypeOK
  BY DEF Typed
<1>3. client \in Clients /\ Child \in Pids \cup {None}
  BY <1>2 DEF TypeOK, Clients, Child
<1>4. proc \in [Pids -> ProcRows] /\ killed \subseteq Pids
      /\ view \in [open : BOOLEAN, busy : BOOLEAN, cards : BOOLEAN]
  BY <1>2 DEF TypeOK, ProcRows, ProcAt
<1>5. current \in Ids \cup {None} /\ (current # None => kind[current] # "none")
  BY <1>2 DEF TypeOK, Requests
<1> QED BY <1>1, <1>3, <1>4, <1>5 DEF Typed

\* The types of the next state, variable by variable.
LEMMA TypesFollow ==
  ASSUME (proc \in [Pids -> ProcRows])', (killed \subseteq Pids)', (client \in Clients)',
         (current \in Ids \cup {None})', (current # None => kind[current] # "none")',
         (view \in [open : BOOLEAN, busy : BOOLEAN, cards : BOOLEAN])',
         (inbox \in [Pids -> Seq(Ids \cup {None})])', (lines \in [Pids -> Seq(Lines)])',
         (kind \in [Ids -> Kinds])', (told \in [Ids -> {0, 1}])',
         (toView \in Seq(Posts))', (toHost \in Seq(Clicks))',
         \A p \in Pids : proc'[p].at = "working" => proc'[p].job \in Ids,
         \A p \in Pids : \A n \in DOMAIN lines'[p] :
           lines'[p][n].type \in Answers => lines'[p][n].id \in Ids
  PROVE  Typed'
<1>1. TypeOK'
  BY DEF TypeOK, ProcRows, ProcAt, Clients, Requests
<1> QED BY <1>1 DEF Typed

\* Only one process moves.
Only(p) == proc' \in [Pids -> ProcRows] /\ \A q \in Pids : q # p => proc'[q] = proc[q]

LEMMA AtSet ==
  ASSUME Typed, NEW p \in Pids, NEW at \in ProcAt, proc' = [proc EXCEPT ![p].at = at]
  PROVE  Only(p) /\ proc'[p].at = at /\ proc'[p].job = proc[p].job
<1>1. proc \in [Pids -> ProcRows]
  BY TypeFacts
<1> DEFINE row == [proc[p] EXCEPT !.at = at]
<1>2. row \in ProcRows /\ row.at = at /\ row.job = proc[p].job
  BY <1>1 DEF ProcRows
<1>3. proc' = [proc EXCEPT ![p] = row]
  OBVIOUS
<1> HIDE DEF row
<1> QED BY <1>1, <1>2, <1>3 DEF Only

LEMMA RowSet ==
  ASSUME Typed, NEW p \in Pids, NEW at \in ProcAt, NEW job \in Ids \cup {None},
         proc' = [proc EXCEPT ![p] = [at |-> at, job |-> job]]
  PROVE  Only(p) /\ proc'[p].at = at /\ proc'[p].job = job
<1>1. proc \in [Pids -> ProcRows]
  BY TypeFacts
<1> DEFINE row == [at |-> at, job |-> job]
<1>2. row \in ProcRows /\ row.at = at /\ row.job = job
  BY DEF ProcRows
<1> HIDE DEF row
<1>3. proc' = [proc EXCEPT ![p] = row]
  BY DEF row
<1> QED BY <1>1, <1>2, <1>3 DEF Only

\* A line more.
LEMMA Said ==
  ASSUME Typed, NEW p \in Pids, NEW line \in Lines, Says(p, line),
         line.type \in Answers => line.id \in Ids
  PROVE  /\ lines' \in [Pids -> Seq(Lines)]
         /\ \A q \in Pids : \A n \in DOMAIN lines'[q] :
              lines'[q][n].type \in Answers => lines'[q][n].id \in Ids
         /\ \A q \in Pids : q # p => Readies(q)' = Readies(q)
         /\ Readies(p)' = IF line.type = "ready" THEN Readies(p) \cup {Len(lines[p]) + 1}
                          ELSE Readies(p)
<1>1. lines \in [Pids -> Seq(Lines)] /\ lines' = [lines EXCEPT ![p] = Append(lines[p], line)]
  BY TypeFacts DEF Says
<1> DEFINE old == lines[p]
           new == Append(old, line)
<1>2. old \in Seq(Lines)
  BY <1>1
<1> HIDE DEF old
<1>3. /\ new \in Seq(Lines) /\ DOMAIN new = DOMAIN old \cup {Len(old) + 1}
      /\ Len(old) + 1 \notin DOMAIN old /\ new[Len(old) + 1] = line
      /\ \A n \in DOMAIN old : new[n] = old[n]
  BY <1>2
<1> HIDE DEF new
<1>4. lines' \in [Pids -> Seq(Lines)] /\ lines'[p] = new /\ \A q \in Pids : q # p => lines'[q] = lines[q]
  BY <1>1, <1>3 DEF new, old
<1>5. \A q \in Pids : \A n \in DOMAIN lines[q] : lines[q][n].type \in Answers => lines[q][n].id \in Ids
  BY DEF Typed
<1>6. \A n \in DOMAIN new : new[n].type \in Answers => new[n].id \in Ids
  BY <1>3, <1>5 DEF old
<1>7. Readies(p)' = {n \in DOMAIN new : new[n].type = "ready"}
      /\ Readies(p) = {n \in DOMAIN old : old[n].type = "ready"}
  BY <1>4 DEF Readies, old
<1>8. Readies(p)' = IF line.type = "ready" THEN Readies(p) \cup {Len(old) + 1} ELSE Readies(p)
  BY <1>3, <1>7
<1>9. \A q \in Pids : q # p => Readies(q)' = Readies(q)
  BY <1>4 DEF Readies
<1> QED BY <1>4, <1>5, <1>6, <1>8, <1>9 DEF old

\* A request that is sent is a new one.
LEMMA Sending ==
  ASSUME Typed, ToldOK, NEW k \in {"inspect", "run", "action"}, Sent(k)
  PROVE  /\ current' \in Ids /\ current' # None /\ kind' \in [Ids -> Kinds]
         /\ inbox' \in [Pids -> Seq(Ids \cup {None})]
         /\ kind[current'] = "none" /\ kind'[current'] = k
         /\ \A i \in Ids : i # current' => kind'[i] = kind[i]
         /\ told' = told => ToldOK'
<1>1. PICK i \in Ids : /\ i \notin Requests /\ current' = i /\ kind' = [kind EXCEPT ![i] = k]
                       /\ inbox' = [inbox EXCEPT ![client.child] = Append(inbox[client.child], i)]
  BY DEF Sent, NextId
<1>2. kind \in [Ids -> Kinds] /\ inbox \in [Pids -> Seq(Ids \cup {None})] /\ None \notin Ids
      /\ told \in [Ids -> {0, 1}]
  BY TypeFacts
<1>3. kind[i] = "none"
  BY <1>1 DEF Requests
<1>4. kind' \in [Ids -> Kinds] /\ kind'[i] = k /\ \A j \in Ids : j # i => kind'[j] = kind[j]
  BY <1>1, <1>2 DEF Kinds
<1>5. inbox' \in [Pids -> Seq(Ids \cup {None})]
  <2>1. CASE client.child \in Pids
    <3>1. Append(inbox[client.child], i) \in Seq(Ids \cup {None})
      BY <1>2, <2>1
    <3> QED BY <1>1, <1>2, <2>1, <3>1
  <2>2. CASE client.child \notin Pids
    BY <1>1, <1>2, <2>2
  <2> QED BY <2>1, <2>2
<1>6. ASSUME told' = told PROVE ToldOK'
  BY <1>1, <1>2, <1>3, <1>4, <1>6 DEF ToldOK
<1> QED BY <1>1, <1>2, <1>3, <1>4, <1>5, <1>6

\* The request that is waited for is over.
LEMMA Ending ==
  ASSUME Typed, ToldOK, current # None, Over(current), current' = None
  PROVE  kind' \in [Ids -> Kinds] /\ told' \in [Ids -> {0, 1}] /\ ToldOK'
<1>1. /\ current \in Ids /\ kind \in [Ids -> Kinds] /\ told \in [Ids -> {0, 1}]
      /\ kind[current] # "over"
  BY TypeFacts DEF ToldOK
<1>2. told[current] = 0
  BY <1>1 DEF ToldOK
<1>3. told' = [told EXCEPT ![current] = 1] /\ kind' = [kind EXCEPT ![current] = "over"]
  BY <1>1, <1>2 DEF Over
<1>4. kind' \in [Ids -> Kinds] /\ told' \in [Ids -> {0, 1}]
  BY <1>1, <1>3 DEF Kinds
<1>5. \A i \in Ids : told'[i] = 1 => kind'[i] = "over"
  BY <1>1, <1>3 DEF ToldOK
<1> QED BY <1>4, <1>5 DEF ToldOK

\* A post makes the view idle or busy, if there is a view.
LEMMA Posting ==
  ASSUME Typed, ViewOK, NEW post \in Posts, toView' = Posted(post),
         view' = view, client'.stopping = client.stopping,
         toHost' = toHost \/ (toHost # <<>> /\ toHost' = Tail(toHost)),
         post \in {"started", "acting"} => current' # None
  PROVE  toView' \in Seq(Posts) /\ ViewOK'
<1>1. toView \in Seq(Posts)
  BY TypeFacts
<1>2. CASE view.open
  <2>1. toView' = Append(toView, post)
    BY <1>2 DEF Posted
  <2>2. toView' \in Seq(Posts) /\ toView' # <<>> /\ toView'[Len(toView')] = post
    BY <1>1, <2>1
  <2>3. WillBeBusy' <=> post \in {"started", "acting"}
    BY <2>2 DEF WillBeBusy
  <2> QED BY <1>2, <2>2, <2>3 DEF ViewOK
<1>3. CASE ~view.open
  <2>1. toView' = <<>> /\ view' = NoView
    BY <1>3 DEF Posted, ViewOK
  <2>2. ~WillBeBusy'
    BY <2>1 DEF WillBeBusy, NoView
  <2>3. toHost = <<>> => toHost' = <<>>
    OBVIOUS
  <2> QED BY <1>1, <1>3, <2>1, <2>2, <2>3 DEF ViewOK
<1> QED BY <1>2, <1>3

\* What is not touched keeps its part of the invariant.
LEMMA Untouched ==
  ASSUME IndInv
  PROVE  /\ UNCHANGED <<proc, killed, client>> => ChildOK'
         /\ UNCHANGED <<proc, lines>> => ReadyOK'
         /\ UNCHANGED <<proc, lines, client, current>> => WaitingOK'
         /\ UNCHANGED <<proc, lines, killed, client, current>> => KilledOK'
         /\ UNCHANGED <<view, toView, toHost, client, current>> => ViewOK'
         /\ UNCHANGED <<told, kind, current>> => ToldOK'
<1>1. UNCHANGED <<proc, killed, client>> => ChildOK'
  BY DEF IndInv, ChildOK, Alive, Child
<1>2. UNCHANGED <<proc, lines>> => ReadyOK'
  BY DEF IndInv, ReadyOK, Readies
<1>3. UNCHANGED <<proc, lines, client, current>> => WaitingOK'
  BY DEF IndInv, WaitingOK, Readies, Child
<1>4. UNCHANGED <<proc, lines, killed, client, current>> => KilledOK'
  BY DEF IndInv, KilledOK, Readies, Child
<1>5. UNCHANGED <<view, toView, toHost, client, current>> => ViewOK'
  BY DEF IndInv, ViewOK, WillBeBusy
<1>6. UNCHANGED <<told, kind, current>> => ToldOK'
  BY DEF IndInv, ToldOK
<1> QED BY <1>1, <1>2, <1>3, <1>4, <1>5, <1>6

(***************************************************************************)
(* The backend process                                                     *)
(***************************************************************************)
\* A process that lives answers, gets a request or dies.
LEMMA ProcMoves ==
  ASSUME IndInv, NEW p \in Pids, Alive(p), Only(p),
         proc'[p].at \in {"idle", "working", "dead"},
         \A q \in Pids : Readies(q)' = Readies(q),
         UNCHANGED <<killed, client, current>>
  PROVE  ChildOK' /\ ReadyOK' /\ WaitingOK' /\ KilledOK'
<1>0. ChildOK /\ ReadyOK /\ WaitingOK /\ KilledOK /\ Child \in Pids \cup {None} /\ Child' = Child
  BY TypeFacts DEF IndInv, Child
<1>1. \A q \in Pids : Alive(q)' => Alive(q)
  BY DEF Only, Alive
<1>2. \A q \in Pids : proc'[q].at = "starting" => proc[q].at = "starting"
  BY DEF Only
<1>3. \A q \in Pids : proc'[q].at \in {"unborn", "starting"} => proc'[q] = proc[q]
  BY DEF Only
<1>4. \A q \in Pids : proc[q].at # "unborn" => proc'[q].at # "unborn"
  BY DEF Only
<1>5. ChildOK'
  BY <1>0, <1>1, <1>4 DEF ChildOK
<1>6. ReadyOK'
  BY <1>0, <1>3 DEF ReadyOK
<1>7. WaitingOK'
  BY <1>0, <1>2 DEF WaitingOK
<1>8. KilledOK'
  BY <1>0, <1>2 DEF KilledOK
<1> QED BY <1>5, <1>6, <1>7, <1>8

LEMMA BootKeeps ==
  ASSUME IndInv, NEW p \in Pids, Boot(p)
  PROVE  IndInv'
<1>0. Typed /\ ChildOK /\ ReadyOK /\ WaitingOK /\ KilledOK
  BY DEF IndInv
<1>1. /\ proc[p].at = "starting" /\ proc' = [proc EXCEPT ![p].at = "idle"]
      /\ Says(p, Line("ready", None))
      /\ UNCHANGED <<inbox, killed, client, current, kind, view, toView, toHost, told>>
  BY DEF Boot
<1>2. Only(p) /\ proc'[p].at = "idle" /\ proc'[p].job = proc[p].job
  BY <1>0, <1>1, AtSet DEF ProcAt
<1>3. Line("ready", None) \in Lines /\ Line("ready", None).type = "ready"
  BY DEF Line, Lines, LineTypes
<1>4. /\ lines' \in [Pids -> Seq(Lines)]
      /\ \A q \in Pids : \A n \in DOMAIN lines'[q] :
           lines'[q][n].type \in Answers => lines'[q][n].id \in Ids
      /\ \A q \in Pids : q # p => Readies(q)' = Readies(q)
      /\ Readies(p)' = Readies(p) \cup {Len(lines[p]) + 1}
  BY <1>0, <1>1, <1>3, Said DEF Answers
<1>5. Readies(p) = {} /\ Alive(p) /\ p = Child /\ Child' = Child
  BY <1>0, <1>1 DEF ReadyOK, ChildOK, Alive, Child
<1>6. Typed'
  BY <1>0, <1>1, <1>2, <1>4, TypeFacts, TypesFollow DEF Only, Typed
<1>7. ChildOK'
  BY <1>0, <1>1, <1>2, <1>5 DEF ChildOK, Alive, Only
<1>8. ReadyOK'
  BY <1>0, <1>2, <1>4, <1>5 DEF ReadyOK, Only
<1>9. p \in Pids /\ p # None
  BY <1>0, TypeFacts
<1>10. current = None /\ client.status # "ready"
  BY <1>0, <1>1, <1>5, <1>9 DEF WaitingOK
<1>11. WaitingOK'
  BY <1>1, <1>10 DEF WaitingOK
<1>12. KilledOK'
  BY <1>0, <1>1, <1>5, <1>9 DEF KilledOK
<1> QED BY <1>1, <1>6, <1>7, <1>8, <1>11, <1>12, Untouched DEF IndInv

LEMMA ReadKeeps ==
  ASSUME IndInv, NEW p \in Pids, Read(p)
  PROVE  IndInv'
<1>0. Typed
  BY DEF IndInv
<1> DEFINE i == Head(inbox[p])
<1>1. /\ proc[p].at = "idle" /\ inbox[p] # <<>>
      /\ proc' = [proc EXCEPT ![p] = IF i = None THEN [at |-> "dead", job |-> None]
                                     ELSE [at |-> "working", job |-> i]]
      /\ \/ i = None /\ Says(p, Line("shutdown", None))
         \/ lines' = lines
         \/ i # None /\ Says(p, Line("started", i))
      /\ inbox' = [inbox EXCEPT ![p] = Tail(inbox[p])]
      /\ UNCHANGED <<killed, client, current, kind, view, toView, toHost, told>>
  BY DEF Read
<1>2. inbox \in [Pids -> Seq(Ids \cup {None})] /\ lines \in [Pids -> Seq(Lines)]
  BY <1>0, TypeFacts
<1>3. i \in Ids \cup {None} /\ Tail(inbox[p]) \in Seq(Ids \cup {None})
  BY <1>1, <1>2
<1>4. inbox' \in [Pids -> Seq(Ids \cup {None})]
  BY <1>1, <1>2, <1>3
<1> HIDE DEF i
<1>5. Only(p) /\ proc'[p].at \in {"dead", "working"} /\ (proc'[p].at = "working" => proc'[p].job \in Ids)
  <2>1. CASE i = None
    BY <1>0, <1>1, <2>1, RowSet DEF ProcAt
  <2>2. CASE i # None
    BY <1>0, <1>1, <1>3, <2>2, RowSet DEF ProcAt
  <2> QED BY <2>1, <2>2
<1>6. /\ lines' \in [Pids -> Seq(Lines)]
      /\ \A q \in Pids : \A n \in DOMAIN lines'[q] :
           lines'[q][n].type \in Answers => lines'[q][n].id \in Ids
      /\ \A q \in Pids : Readies(q)' = Readies(q)
  <2>1. CASE lines' = lines
    BY <1>0, <1>2, <2>1 DEF Typed, Readies
  <2>2. CASE i = None /\ Says(p, Line("shutdown", None))
    <3>1. /\ Line("shutdown", None) \in Lines /\ Line("shutdown", None).type = "shutdown"
      BY DEF Line, Lines, LineTypes
    <3> QED BY <1>0, <2>2, <3>1, Said DEF Answers
  <2>3. CASE i # None /\ Says(p, Line("started", i))
    <3>1. /\ Line("started", i) \in Lines /\ Line("started", i).type = "started"
          /\ Line("started", i).id \in Ids
      BY <1>3, <2>3 DEF Line, Lines, LineTypes
    <3> QED BY <1>0, <2>3, <3>1, Said DEF Answers
  <2> QED BY <1>1, <2>1, <2>2, <2>3
<1>7. Typed'
  BY <1>0, <1>1, <1>4, <1>5, <1>6, TypeFacts, TypesFollow DEF Only, Typed
<1>8. Alive(p)
  BY <1>1 DEF Alive
<1> QED BY <1>1, <1>5, <1>6, <1>7, <1>8, ProcMoves, Untouched DEF IndInv

LEMMA ReplyKeeps ==
  ASSUME IndInv, NEW p \in Pids, Reply(p)
  PROVE  IndInv'
<1>0. Typed
  BY DEF IndInv
<1>1. PICK type \in {"done", "failed"} :
        /\ proc[p].at = "working" /\ Says(p, Line(type, proc[p].job))
        /\ proc' = [proc EXCEPT ![p] = [at |-> "idle", job |-> None]]
        /\ UNCHANGED <<inbox, killed, client, current, kind, view, toView, toHost, told>>
  BY DEF Reply
<1>2. proc[p].job \in Ids
  BY <1>0, <1>1 DEF Typed
<1>3. /\ Line(type, proc[p].job) \in Lines /\ Line(type, proc[p].job).type = type
      /\ Line(type, proc[p].job).id \in Ids
  BY <1>1, <1>2 DEF Line, Lines, LineTypes
<1>4. /\ lines' \in [Pids -> Seq(Lines)]
      /\ \A q \in Pids : \A n \in DOMAIN lines'[q] :
           lines'[q][n].type \in Answers => lines'[q][n].id \in Ids
      /\ \A q \in Pids : Readies(q)' = Readies(q)
  BY <1>0, <1>1, <1>3, Said
<1>5. Only(p) /\ proc'[p].at = "idle"
  BY <1>0, <1>1, RowSet DEF ProcAt
<1>6. Typed'
  BY <1>0, <1>1, <1>4, <1>5, TypeFacts, TypesFollow DEF Only, Typed
<1>7. Alive(p)
  BY <1>1 DEF Alive
<1> QED BY <1>1, <1>4, <1>5, <1>6, <1>7, ProcMoves, Untouched DEF IndInv

LEMMA NoiseKeeps ==
  ASSUME IndInv, NEW p \in Pids, Noise(p)
  PROVE  IndInv'
<1>0. Typed /\ ChildOK /\ ReadyOK /\ WaitingOK /\ KilledOK
  BY DEF IndInv
<1>1. /\ Says(p, Line("noise", None))
      /\ UNCHANGED <<proc, inbox, killed, client, current, kind, view, toView, toHost, told>>
  BY DEF Noise
<1>2. Line("noise", None) \in Lines /\ Line("noise", None).type = "noise"
  BY DEF Line, Lines, LineTypes
<1>3. /\ lines' \in [Pids -> Seq(Lines)]
      /\ \A q \in Pids : \A n \in DOMAIN lines'[q] :
           lines'[q][n].type \in Answers => lines'[q][n].id \in Ids
      /\ \A q \in Pids : Readies(q)' = Readies(q)
  BY <1>0, <1>1, <1>2, Said DEF Answers
<1>4. Typed'
  BY <1>0, <1>1, <1>3, TypeFacts, TypesFollow DEF Typed
<1>5. Child \in Pids \cup {None} /\ Child' = Child
  BY <1>0, <1>1, TypeFacts DEF Child
<1>6. ReadyOK' /\ WaitingOK' /\ KilledOK'
  BY <1>0, <1>1, <1>3, <1>5 DEF ReadyOK, WaitingOK, KilledOK
<1> QED BY <1>1, <1>4, <1>6, Untouched DEF IndInv

LEMMA EndKeeps ==
  ASSUME IndInv, NEW p \in Pids, Obey(p) \/ Die(p)
  PROVE  IndInv'
<1>0. Typed
  BY DEF IndInv
<1>1. /\ Alive(p) /\ proc' = [proc EXCEPT ![p] = [at |-> "dead", job |-> None]]
      /\ UNCHANGED <<inbox, lines, killed, client, current, kind, view, toView, toHost, told>>
  BY DEF Obey, Die
<1>2. Only(p) /\ proc'[p].at = "dead"
  BY <1>0, <1>1, RowSet DEF ProcAt
<1>3. \A q \in Pids : Readies(q)' = Readies(q)
  BY <1>1 DEF Readies
<1>4. Typed'
  BY <1>0, <1>1, <1>2, TypeFacts, TypesFollow DEF Only, Typed
<1> QED BY <1>1, <1>2, <1>3, <1>4, ProcMoves, Untouched DEF IndInv

(***************************************************************************)
(* The client                                                              *)
(***************************************************************************)
LEMMA ErrorKeeps ==
  ASSUME IndInv, ErrorEvent
  PROVE  IndInv'
<1>0. Typed /\ ChildOK /\ ReadyOK /\ WaitingOK /\ KilledOK /\ client \in Clients
  BY TypeFacts DEF IndInv
<1>1. /\ Child # None /\ proc[Child].at = "starting" /\ ~client.stopping
      /\ proc' = [proc EXCEPT ![Child].at = "failed"]
      /\ client' = [client EXCEPT !.status = "error"]
      /\ UNCHANGED <<inbox, lines, killed, current, kind, view, toView, toHost, told>>
  BY DEF ErrorEvent, Child
<1>2. Child \in Pids
  BY <1>0, <1>1, TypeFacts
<1>3. Only(Child) /\ proc'[Child].at = "failed" /\ proc'[Child].job = proc[Child].job
  BY <1>0, <1>1, <1>2, AtSet DEF ProcAt
<1>4. client' \in Clients /\ Child' = Child /\ client'.stopping = client.stopping
      /\ client'.cancelling = client.cancelling
  BY <1>0, <1>1 DEF Clients, Child
<1>5. Typed'
  BY <1>0, <1>1, <1>2, <1>3, <1>4, TypeFacts, TypesFollow DEF Only, Typed
<1>6. \A q \in Pids : ~Alive(q)'
  BY <1>0, <1>3 DEF ChildOK, Alive, Only
<1>7. ChildOK'
  BY <1>0, <1>1, <1>3, <1>4, <1>6 DEF ChildOK, Only
<1>8. \A q \in Pids : Readies(q)' = Readies(q)
  BY <1>1 DEF Readies
<1>9. ReadyOK'
  BY <1>0, <1>3, <1>8 DEF ReadyOK, Only
<1>10. Readies(Child) = {} /\ Child \notin killed
  BY <1>0, <1>1, <1>2 DEF ReadyOK, KilledOK
<1>11. WaitingOK'
  BY <1>2, <1>3, <1>4, <1>8, <1>10 DEF WaitingOK
<1>12. KilledOK'
  BY <1>0, <1>1, <1>4, <1>10 DEF KilledOK
<1>13. ViewOK'
  BY <1>1, <1>4 DEF IndInv, ViewOK, WillBeBusy
<1> QED BY <1>1, <1>5, <1>7, <1>9, <1>11, <1>12, <1>13, Untouched DEF IndInv

LEMMA ExitKeeps ==
  ASSUME IndInv, ExitEvent
  PROVE  IndInv'
<1>0. /\ Typed /\ ChildOK /\ ReadyOK /\ WaitingOK /\ KilledOK /\ client \in Clients
      /\ inbox \in [Pids -> Seq(Ids \cup {None})] /\ lines \in [Pids -> Seq(Lines)]
  BY TypeFacts DEF IndInv
<1>1. /\ Child # None /\ proc[Child].at = "dead"
      /\ lines' = [lines EXCEPT ![Child] = <<>>] /\ inbox' = [inbox EXCEPT ![Child] = <<>>]
      /\ UNCHANGED <<killed, current, kind, view, toView, toHost, told>>
  BY DEF ExitEvent, Child
<1>2. Child \in Pids
  BY <1>0, <1>1, TypeFacts
<1>3. \A q \in Pids : ~Alive(q)
  BY <1>0, <1>1 DEF ChildOK, Alive
<1>4. /\ inbox' \in [Pids -> Seq(Ids \cup {None})] /\ lines' \in [Pids -> Seq(Lines)]
      /\ lines'[Child] = <<>> /\ \A q \in Pids : q # Child => lines'[q] = lines[q]
  BY <1>0, <1>1, <1>2
<1> DEFINE none == <<>>
<1>5. DOMAIN none = {}
  OBVIOUS
<1> HIDE DEF none
<1>6. /\ \A q \in Pids : \A n \in DOMAIN lines'[q] :
           lines'[q][n].type \in Answers => lines'[q][n].id \in Ids
      /\ \A q \in Pids : Readies(q)' = {} \/ Readies(q)' = Readies(q)
  <2>1. lines'[Child] = none
    BY <1>4 DEF none
  <2>2. \A q \in Pids : Readies(q)' = {n \in DOMAIN lines'[q] : lines'[q][n].type = "ready"}
    BY DEF Readies
  <2>3. \A q \in Pids : q = Child => Readies(q)' = {}
    BY <1>5, <2>1, <2>2
  <2>4. \A q \in Pids : q # Child => Readies(q)' = Readies(q)
    BY <1>4, <2>2 DEF Readies
  <2>5. \A n \in DOMAIN lines'[Child] : FALSE
    BY <1>5, <2>1
  <2>6. \A q \in Pids : q # Child => \A n \in DOMAIN lines'[q] :
           lines'[q][n].type \in Answers => lines'[q][n].id \in Ids
    BY <1>0, <1>4 DEF Typed
  <2>7. \A q \in Pids : \A n \in DOMAIN lines'[q] :
           lines'[q][n].type \in Answers => lines'[q][n].id \in Ids
    <3> TAKE q \in Pids
    <3> QED BY <2>5, <2>6
  <2> QED BY <2>3, <2>4, <2>7
<1>7. /\ proc' \in [Pids -> ProcRows] /\ client' \in Clients /\ client'.stopping = client.stopping
      /\ \A q \in Pids : proc'[q].at = "working" => proc'[q].job \in Ids
      /\ ChildOK' /\ ReadyOK' /\ WaitingOK' /\ KilledOK'
  <2>1. CASE /\ ~client.stopping /\ client.cancelling
             /\ \E p \in Pids :
                  /\ NextPid(p) /\ proc' = [proc EXCEPT ![p].at = "starting"]
                  /\ client' = [client EXCEPT !.child = p, !.status = "starting",
                                              !.cancelling = FALSE]
    <3>1. PICK p \in Pids :
            /\ proc[p].at = "unborn" /\ proc' = [proc EXCEPT ![p].at = "starting"]
            /\ client' = [client EXCEPT !.child = p, !.status = "starting", !.cancelling = FALSE]
      BY <2>1 DEF NextPid
    <3>2. Only(p) /\ proc'[p].at = "starting" /\ proc'[p].job = proc[p].job
      BY <1>0, <3>1, AtSet DEF ProcAt
    <3>3. client' \in Clients
      BY <1>0, <3>1 DEF Clients
    <3>4. /\ Child' = p /\ client'.status = "starting" /\ ~client'.cancelling
          /\ client'.stopping = client.stopping
      BY <1>0, <3>1 DEF Clients, Child
    <3>5. p \notin killed /\ current = None /\ Readies(p) = {} /\ p # None
      BY <1>0, <1>1, <2>1, <3>1, TypeFacts DEF ChildOK, KilledOK, ReadyOK
    <3>6. \A q \in Pids : proc'[q].at = "working" => proc'[q].job \in Ids
      BY <1>0, <3>2 DEF Typed, Only
    <3>7. \A q \in Pids : Alive(q)' => q = p
      BY <1>3, <3>2 DEF Only, Alive
    <3>8. ChildOK'
      BY <1>0, <1>1, <3>2, <3>4, <3>7 DEF ChildOK, Only
    <3>9. ReadyOK'
      BY <1>0, <1>6, <3>2, <3>5 DEF ReadyOK, Only
    <3>10. WaitingOK'
      BY <1>1, <3>4, <3>5 DEF WaitingOK
    <3>11. KilledOK'
      BY <1>1, <3>4, <3>5 DEF KilledOK
    <3> QED BY <3>2, <3>3, <3>4, <3>6, <3>8, <3>9, <3>10, <3>11 DEF Only
  <2>2. CASE /\ ~client'.cancelling /\ Child' = None /\ client' \in Clients /\ proc' = proc
             /\ client'.stopping = client.stopping
    <3>1. \A q \in Pids : Alive(q)' = Alive(q)
      BY <2>2 DEF Alive
    <3>2. ChildOK'
      BY <1>0, <1>1, <1>3, <2>2, <3>1, TypeFacts DEF ChildOK
    <3>3. ReadyOK'
      BY <1>0, <1>6, <2>2 DEF ReadyOK
    <3>4. WaitingOK' /\ KilledOK'
      BY <2>2 DEF WaitingOK, KilledOK
    <3> QED BY <1>0, <2>2, <3>2, <3>3, <3>4, TypeFacts DEF Typed
  <2>3. \/ /\ ~client.stopping /\ client.cancelling /\ Start
        \/ /\ client.stopping \/ ~client.cancelling
           /\ client' = [client EXCEPT !.child = None,
                           !.status = IF client.stopping THEN "stopped" ELSE "error"]
           /\ proc' = proc
    BY DEF ExitEvent
  <2>4. CASE /\ client.stopping \/ ~client.cancelling
             /\ client' = [client EXCEPT !.child = None,
                             !.status = IF client.stopping THEN "stopped" ELSE "error"]
             /\ proc' = proc
    <3>1. client' \in Clients
      BY <1>0, <2>4 DEF Clients
    <3>2. Child' = None /\ client'.stopping = client.stopping /\ client'.cancelling = client.cancelling
      BY <1>0, <2>4 DEF Clients, Child
    <3>3. ~client.cancelling
      BY <1>0, <2>4 DEF KilledOK
    <3> QED BY <2>2, <2>4, <3>1, <3>2, <3>3
  <2>5. CASE /\ client' = [client EXCEPT !.child = None, !.status = "error", !.cancelling = FALSE]
             /\ proc' = proc
    <3>1. client' \in Clients
      BY <1>0, <2>5 DEF Clients
    <3>2. Child' = None /\ client'.stopping = client.stopping /\ ~client'.cancelling
      BY <1>0, <2>5 DEF Clients, Child
    <3> QED BY <2>2, <2>5, <3>1, <3>2
  <2> QED BY <2>1, <2>3, <2>4, <2>5 DEF Start
<1>8. Typed'
  BY <1>0, <1>1, <1>4, <1>6, <1>7, TypeFacts, TypesFollow
<1>9. ViewOK'
  BY <1>1, <1>7 DEF IndInv, ViewOK, WillBeBusy
<1> QED BY <1>1, <1>7, <1>8, <1>9, Untouched DEF IndInv

\* The first line is read.
LEMMA Reading ==
  ASSUME Typed, NEW p \in Pids, lines[p] # <<>>, lines' = [lines EXCEPT ![p] = Tail(lines[p])]
  PROVE  /\ Head(lines[p]) \in Lines
         /\ Head(lines[p]).type \in Answers => Head(lines[p]).id \in Ids
         /\ Head(lines[p]).type = "ready" => 1 \in Readies(p)
         /\ lines' \in [Pids -> Seq(Lines)]
         /\ \A q \in Pids : \A n \in DOMAIN lines'[q] :
              lines'[q][n].type \in Answers => lines'[q][n].id \in Ids
         /\ \A q \in Pids : q # p => Readies(q)' = Readies(q)
         /\ \A n \in Readies(p)' : n \in Nat /\ n # 0 /\ n + 1 \in Readies(p)
<1>1. lines \in [Pids -> Seq(Lines)]
  BY TypeFacts
<1> DEFINE old == lines[p]
           new == Tail(old)
<1>2. old \in Seq(Lines) /\ old # <<>>
  BY <1>1
<1>3. \A q \in Pids : \A n \in DOMAIN lines[q] : lines[q][n].type \in Answers => lines[q][n].id \in Ids
  BY DEF Typed
<1>4. \A n \in DOMAIN old : old[n].type \in Answers => old[n].id \in Ids
  BY <1>3
<1>5. Readies(p) = {n \in DOMAIN old : old[n].type = "ready"}
  BY DEF Readies
<1> HIDE DEF old
<1>6. Head(old) = old[1] /\ 1 \in DOMAIN old /\ Head(old) \in Lines
  BY <1>2
<1>7. new \in Seq(Lines) /\ \A n \in DOMAIN new : /\ n \in Nat /\ n # 0 /\ n + 1 \in DOMAIN old
                                                  /\ new[n] = old[n + 1]
  BY <1>2
<1> HIDE DEF new
<1>8. lines' \in [Pids -> Seq(Lines)] /\ lines'[p] = new /\ \A q \in Pids : q # p => lines'[q] = lines[q]
  BY <1>1, <1>7 DEF new, old
<1>9. Readies(p)' = {n \in DOMAIN new : new[n].type = "ready"}
  BY <1>8 DEF Readies
<1>10. \A q \in Pids : q # p => Readies(q)' = Readies(q)
  BY <1>8 DEF Readies
<1>11. \A n \in DOMAIN new : new[n].type \in Answers => new[n].id \in Ids
  BY <1>4, <1>7
<1>12. \A q \in Pids : \A n \in DOMAIN lines'[q] :
         lines'[q][n].type \in Answers => lines'[q][n].id \in Ids
  BY <1>3, <1>8, <1>11
<1>13. \A n \in Readies(p)' : n \in Nat /\ n # 0 /\ n + 1 \in Readies(p)
  BY <1>5, <1>7, <1>9
<1> QED BY <1>4, <1>5, <1>6, <1>8, <1>10, <1>12, <1>13 DEF old

LEMMA LineKeeps ==
  ASSUME IndInv, LineEvent
  PROVE  IndInv'
<1>0. /\ Typed /\ ChildOK /\ ReadyOK /\ WaitingOK /\ KilledOK /\ ViewOK /\ ToldOK
      /\ client \in Clients /\ current \in Ids \cup {None} /\ None \notin Ids
  BY TypeFacts DEF IndInv
<1> DEFINE line == Head(lines[Child])
<1>1. /\ Child # None /\ ~client.stopping /\ lines[Child] # <<>> /\ Handle(line)
      /\ lines' = [lines EXCEPT ![Child] = Tail(lines[Child])]
      /\ client' = [client EXCEPT !.status = StatusAfter(line)]
      /\ UNCHANGED <<proc, killed, view, toHost, used>>
  BY DEF LineEvent, Child
<1>2. Child \in Pids
  BY <1>0, <1>1, TypeFacts
<1>3. /\ line \in Lines /\ (line.type \in Answers => line.id \in Ids)
      /\ line.type = "ready" => 1 \in Readies(Child)
      /\ lines' \in [Pids -> Seq(Lines)]
      /\ \A q \in Pids : \A n \in DOMAIN lines'[q] :
           lines'[q][n].type \in Answers => lines'[q][n].id \in Ids
  BY <1>0, <1>1, <1>2, Reading
<1>4. /\ \A q \in Pids : q # Child => Readies(q)' = Readies(q)
      /\ \A q \in Pids : q = Child =>
           \A n \in Readies(q)' : n \in Nat /\ n # 0 /\ n + 1 \in Readies(q)
  BY <1>0, <1>1, <1>2, Reading
<1> HIDE DEF line
<1>5. /\ StatusAfter(line) \in {client.status, "ready", "error"}
      /\ StatusAfter(line) = "ready" => line.type = "ready" \/ client.status = "ready"
  BY DEF StatusAfter
<1>6. /\ client' \in Clients /\ Child' = Child /\ client'.status = StatusAfter(line)
      /\ client'.stopping = client.stopping /\ client'.cancelling = client.cancelling
  BY <1>0, <1>1, <1>5 DEF Clients, Child
<1>7. ChildOK'
  BY <1>0, <1>1, <1>6 DEF ChildOK, Alive
<1>8. \A q \in Pids : Readies(q) = {} => Readies(q)' = {}
  BY <1>4
<1>9. ReadyOK'
  <2>1. \A q \in Pids : q = Child => \A m, n \in Readies(q)' : m = n
    <3> TAKE q \in Pids
    <3> HAVE q = Child
    <3> TAKE m, n \in Readies(q)'
    <3>1. m \in Nat /\ n \in Nat /\ m + 1 = n + 1
      BY <1>0, <1>4 DEF ReadyOK
    <3> QED BY <3>1
  <2> QED BY <1>0, <1>1, <1>4, <1>8, <2>1 DEF ReadyOK
\* What the invariant says of types, requests and posts is left to the cases.
<1>10. ASSUME current' \in Ids \cup {None}, current' # None => kind'[current'] # "none",
              inbox' \in [Pids -> Seq(Ids \cup {None})], kind' \in [Ids -> Kinds],
              told' \in [Ids -> {0, 1}], toView' \in Seq(Posts)
       PROVE  Typed'
  <2>1. /\ proc' \in [Pids -> ProcRows] /\ killed' \subseteq Pids /\ toHost' \in Seq(Clicks)
        /\ view' \in [open : BOOLEAN, busy : BOOLEAN, cards : BOOLEAN]
        /\ \A q \in Pids : proc'[q].at = "working" => proc'[q].job \in Ids
    BY <1>0, <1>1, TypeFacts DEF Typed
  <2> QED BY <1>3, <1>6, <1>10, <2>1, TypesFollow
<1>11. CASE line.type = "ready"
  <2>1. Readies(Child) # {} /\ Readies(Child)' = {}
    <3>1. ASSUME NEW n \in Readies(Child)' PROVE FALSE
      <4>0. Child' = Child
        BY <1>6
      <4>1. n \in Nat /\ n # 0 /\ n + 1 \in Readies(Child)
        BY <1>2, <1>4, <4>0, Zenon
      <4>2. \A m, k \in Readies(Child) : m = k
        BY <1>0, <1>2 DEF ReadyOK
      <4>3. n + 1 = 1
        BY <1>3, <1>11, <4>1, <4>2
      <4> QED BY <4>1, <4>3
    <3> QED BY <1>3, <1>11, <3>1
  <2>2. proc[Child].at # "starting"
    BY <1>0, <1>2, <2>1 DEF ReadyOK
  <2>3. current = None /\ Child \notin killed /\ ~client.cancelling
    BY <1>0, <1>1, <2>1 DEF WaitingOK, KilledOK
  <2>4. Sent("inspect") /\ toView' = toView /\ told' = told
    BY <1>1, <1>11, <2>3 DEF Handle
  <2>5. /\ current' \in Ids /\ current' # None /\ kind' \in [Ids -> Kinds]
        /\ inbox' \in [Pids -> Seq(Ids \cup {None})] /\ kind'[current'] = "inspect" /\ ToldOK'
    BY <1>0, <2>4, Sending
  <2>6. Typed'
    BY <1>0, <1>10, <2>4, <2>5, TypeFacts
  <2>7. WaitingOK' /\ KilledOK'
    BY <1>1, <1>6, <2>1, <2>2, <2>3 DEF WaitingOK, KilledOK
  <2>8. ViewOK'
    BY <1>0, <1>1, <1>6, <2>4, <2>5 DEF ViewOK, WillBeBusy
  <2> QED BY <1>7, <1>9, <2>5, <2>6, <2>7, <2>8 DEF IndInv
\* Unless the child is ready, its status is not better than it was.
<1>12. ASSUME line.type # "ready", current' \in {current, None}
       PROVE  WaitingOK' /\ KilledOK'
  <2>1. client'.status = "ready" => client.status = "ready"
    BY <1>5, <1>6, <1>12
  <2>2. proc' = proc /\ killed' = killed
    BY <1>1
  <2>3. WaitingOK'
    BY <1>0, <1>2, <1>6, <1>8, <1>12, <2>1, <2>2 DEF WaitingOK
  <2>4. KilledOK'
    BY <1>0, <1>2, <1>6, <1>8, <1>12, <2>1, <2>2 DEF KilledOK
  <2> QED BY <2>3, <2>4
<1>13. CASE line.type = "started"
  <2>1. /\ toView' = IF ~IsCurrent(line) THEN toView
                     ELSE Posted(IF kind[line.id] = "action" THEN "acting" ELSE "started")
        /\ UNCHANGED <<inbox, kind, current, told>>
    BY <1>1, <1>13 DEF Handle
  <2>2. toView' \in Seq(Posts) /\ ViewOK'
    <3>1. CASE ~IsCurrent(line)
      BY <1>0, <1>1, <1>6, <2>1, <3>1, TypeFacts DEF ViewOK, WillBeBusy
    <3>2. CASE IsCurrent(line)
      <4>1. current # None
        BY <1>0, <1>3, <1>13, <3>2 DEF IsCurrent, Answers
      <4>2. PICK post \in {"started", "acting"} : toView' = Posted(post)
        BY <2>1, <3>2
      <4> QED BY <1>0, <1>1, <1>6, <2>1, <4>1, <4>2, Posting DEF Posts
    <3> QED BY <3>1, <3>2
  <2>3. Typed'
    BY <1>0, <1>10, <2>1, <2>2, TypeFacts
  <2>4. WaitingOK' /\ KilledOK'
    BY <1>12, <1>13, <2>1
  <2> QED BY <1>7, <1>9, <2>1, <2>2, <2>3, <2>4, Untouched DEF IndInv
<1>14. CASE line.type \in {"done", "failed"} /\ IsCurrent(line)
  <2>1. current' = None /\ toView' = Posted(Verdict(line)) /\ Over(line.id) /\ inbox' = inbox
    BY <1>1, <1>14 DEF Handle
  <2>2. line.id = current /\ current # None
    BY <1>0, <1>3, <1>14 DEF IsCurrent, Answers
  <2>3. kind' \in [Ids -> Kinds] /\ told' \in [Ids -> {0, 1}] /\ ToldOK'
    BY <1>0, <2>1, <2>2, Ending
  <2>4. PICK post \in {"failed", "ended", "result"} : toView' = Posted(post)
    BY <2>1 DEF Verdict
  <2>5. toView' \in Seq(Posts) /\ ViewOK'
    BY <1>0, <1>1, <1>6, <2>4, Posting DEF Posts
  <2>6. Typed'
    BY <1>0, <1>10, <2>1, <2>3, <2>5, TypeFacts
  <2>7. WaitingOK' /\ KilledOK'
    BY <1>12, <1>14, <2>1
  <2> QED BY <1>7, <1>9, <2>3, <2>5, <2>6, <2>7 DEF IndInv
<1>15. CASE line.type \notin {"ready", "started"} /\ ~(line.type \in {"done", "failed"} /\ IsCurrent(line))
  <2>1. UNCHANGED <<inbox, kind, current, toView, told>>
    BY <1>1, <1>15 DEF Handle
  <2>2. Typed'
    BY <1>0, <1>10, <2>1, TypeFacts
  <2>3. WaitingOK' /\ KilledOK'
    BY <1>12, <1>15, <2>1
  <2>4. ViewOK'
    BY <1>0, <1>1, <1>6, <2>1 DEF ViewOK, WillBeBusy
  <2> QED BY <1>7, <1>9, <2>1, <2>2, <2>3, <2>4, Untouched DEF IndInv
<1> QED BY <1>11, <1>13, <1>14, <1>15

LEMMA DisposeKeeps ==
  ASSUME IndInv, Dispose
  PROVE  IndInv'
<1>0. /\ Typed /\ ChildOK /\ WaitingOK /\ client \in Clients
      /\ inbox \in [Pids -> Seq(Ids \cup {None})]
  BY TypeFacts DEF IndInv
<1>1. /\ client' = [client EXCEPT !.stopping = TRUE, !.cancelling = FALSE]
      /\ inbox' = IF Child = None THEN inbox
                  ELSE [inbox EXCEPT ![Child] = Append(inbox[Child], None)]
      /\ view' = NoView /\ toView' = <<>> /\ toHost' = <<>>
      /\ UNCHANGED <<proc, lines, killed, current, kind, told, used>>
  BY DEF Dispose, Child
<1>2. /\ client' \in Clients /\ Child' = Child /\ client'.status = client.status
      /\ client'.stopping /\ ~client'.cancelling
  BY <1>0, <1>1 DEF Clients, Child
<1>3. inbox' \in [Pids -> Seq(Ids \cup {None})]
  <2>1. CASE Child = None
    BY <1>0, <1>1, <2>1
  <2>2. CASE Child # None
    <3>1. Child \in Pids
      BY <1>0, <2>2, TypeFacts
    <3>2. Append(inbox[Child], None) \in Seq(Ids \cup {None})
      BY <1>0, <3>1
    <3> QED BY <1>0, <1>1, <2>2, <3>1, <3>2
  <2> QED BY <2>1, <2>2
<1>4. /\ view' \in [open : BOOLEAN, busy : BOOLEAN, cards : BOOLEAN]
      /\ ~view'.open /\ ~view'.busy /\ toView' \in Seq(Posts) /\ toHost' \in Seq(Clicks)
  BY <1>1 DEF NoView
<1>5. /\ \A q \in Pids : proc'[q].at = "working" => proc'[q].job \in Ids
      /\ \A q \in Pids : \A n \in DOMAIN lines'[q] :
           lines'[q][n].type \in Answers => lines'[q][n].id \in Ids
  BY <1>0, <1>1 DEF Typed
<1>6. /\ proc' \in [Pids -> ProcRows] /\ lines' \in [Pids -> Seq(Lines)] /\ killed' \subseteq Pids
      /\ current' \in Ids \cup {None} /\ (current' # None => kind'[current'] # "none")
      /\ kind' \in [Ids -> Kinds] /\ told' \in [Ids -> {0, 1}]
  BY <1>0, <1>1, TypeFacts
<1>7. Typed'
  BY <1>2, <1>3, <1>4, <1>5, <1>6, TypesFollow
<1>8. ChildOK'
  BY <1>0, <1>1, <1>2 DEF ChildOK, Alive
<1>9. \A q \in Pids : Readies(q)' = Readies(q)
  BY <1>1 DEF Readies
<1>10. WaitingOK'
  BY <1>0, <1>1, <1>2, <1>9, TypeFacts DEF WaitingOK
<1>11. KilledOK' /\ ViewOK'
  BY <1>1, <1>2, <1>4 DEF KilledOK, ViewOK, WillBeBusy
<1> QED BY <1>1, <1>7, <1>8, <1>10, <1>11, Untouched DEF IndInv

LEMMA LateKillKeeps ==
  ASSUME IndInv, LateKill
  PROVE  IndInv'
<1>0. Typed /\ ChildOK /\ KilledOK
  BY DEF IndInv
<1>1. /\ client.stopping /\ Child # None /\ killed' = killed \cup {Child}
      /\ UNCHANGED <<proc, inbox, lines, client, current, kind, view, toView, toHost, told>>
  BY DEF LateKill, Child
<1>2. Child \in Pids /\ Child' = Child
  BY <1>0, <1>1, TypeFacts DEF Child
<1>3. killed' \subseteq Pids
  BY <1>0, <1>1, <1>2, TypeFacts
<1>4. Typed'
  BY <1>0, <1>1, <1>3, TypeFacts, TypesFollow DEF Typed
<1>5. ChildOK'
  BY <1>0, <1>1, <1>2 DEF ChildOK, Alive
<1>6. KilledOK'
  BY <1>0, <1>1 DEF KilledOK
<1> QED BY <1>1, <1>4, <1>5, <1>6, Untouched DEF IndInv

(***************************************************************************)
(* The user and the view                                                   *)
(***************************************************************************)
\* A request goes to a child that can answer it.
LEMMA SendKeeps ==
  ASSUME IndInv, NEW k \in {"inspect", "run", "action"}, Usable, Sent(k),
         UNCHANGED <<proc, lines, killed, client, told>>
  PROVE  /\ current' \in Ids /\ current' # None /\ kind'[current'] = k
         /\ kind' \in [Ids -> Kinds] /\ inbox' \in [Pids -> Seq(Ids \cup {None})]
         /\ ChildOK' /\ ReadyOK' /\ WaitingOK' /\ KilledOK' /\ ToldOK'
<1>0. Typed /\ WaitingOK /\ KilledOK /\ ToldOK
  BY DEF IndInv
<1>1. client.status = "ready" /\ Child # None /\ Child' = Child
  BY DEF Usable, Child
<1>2. \A q \in Pids : Readies(q)' = Readies(q)
  BY DEF Readies
<1>3. Child \in Pids
  BY <1>0, <1>1, TypeFacts
<1>4. WaitingOK'
  BY <1>0, <1>1, <1>2, <1>3 DEF WaitingOK
<1>5. KilledOK'
  BY <1>0, <1>1 DEF KilledOK
<1> QED BY <1>0, <1>4, <1>5, Sending, Untouched

LEMMA ResolveKeeps ==
  ASSUME IndInv, Resolve
  PROVE  IndInv'
<1>0. Typed
  BY DEF IndInv
<1>1. /\ ~client.stopping /\ view' = [NoView EXCEPT !.open = TRUE]
      /\ toView' = <<>> /\ toHost' = <<>>
      /\ IF Usable /\ current = None THEN Sent("inspect") ELSE UNCHANGED <<inbox, kind, current>>
      /\ UNCHANGED <<proc, lines, killed, client, told>>
  BY DEF Resolve
<1>2. /\ view' \in [open : BOOLEAN, busy : BOOLEAN, cards : BOOLEAN]
      /\ view'.open /\ ~view'.busy /\ toView' \in Seq(Posts) /\ toHost' \in Seq(Clicks)
  <2>1. view' = [open |-> TRUE, busy |-> FALSE, cards |-> FALSE]
    BY <1>1 DEF NoView
  <2>2. view' \in [open : BOOLEAN, busy : BOOLEAN, cards : BOOLEAN] /\ view'.open /\ ~view'.busy
    BY <2>1
  <2> QED BY <1>1, <2>2
<1>3. ViewOK'
  BY <1>1, <1>2 DEF ViewOK, WillBeBusy
<1>4. ASSUME current' \in Ids \cup {None}, current' # None => kind'[current'] # "none",
             inbox' \in [Pids -> Seq(Ids \cup {None})], kind' \in [Ids -> Kinds]
      PROVE  Typed'
  BY <1>0, <1>1, <1>2, <1>4, TypeFacts, TypesFollow DEF Typed
<1>5. CASE Usable /\ current = None
  <2>1. Sent("inspect")
    BY <1>1, <1>5
  <2>2. /\ current' \in Ids /\ current' # None /\ kind'[current'] = "inspect"
        /\ kind' \in [Ids -> Kinds] /\ inbox' \in [Pids -> Seq(Ids \cup {None})]
        /\ ChildOK' /\ ReadyOK' /\ WaitingOK' /\ KilledOK' /\ ToldOK'
    BY <1>1, <1>5, <2>1, SendKeeps
  <2> QED BY <1>3, <1>4, <2>2 DEF IndInv
<1>6. CASE ~(Usable /\ current = None)
  <2>1. UNCHANGED <<inbox, kind, current>>
    BY <1>1, <1>6
  <2>2. Typed'
    BY <1>0, <1>4, <2>1, TypeFacts
  <2> QED BY <1>1, <1>3, <2>1, <2>2, Untouched DEF IndInv
<1> QED BY <1>5, <1>6

LEMMA PressKeeps ==
  ASSUME IndInv, Press
  PROVE  IndInv'
<1>0. Typed /\ ViewOK
  BY DEF IndInv
<1>1. /\ view.open /\ \E click \in Clicks : toHost' = Append(toHost, click)
      /\ UNCHANGED <<proc, inbox, lines, killed, client, current, kind, view, toView, told>>
  BY DEF Press, Clicks, backend
<1>2. toHost' \in Seq(Clicks)
  BY <1>0, <1>1, TypeFacts
<1>3. Typed'
  BY <1>0, <1>1, <1>2, TypeFacts, TypesFollow DEF Typed
<1>4. ViewOK'
  BY <1>0, <1>1 DEF ViewOK, WillBeBusy
<1> QED BY <1>1, <1>3, <1>4, Untouched DEF IndInv

\* What is last stays last until it is read.
LEMMA LastOfTail ==
  ASSUME NEW S, NEW s \in Seq(S), s # <<>>
  PROVE  IF Tail(s) = <<>> THEN Head(s) = s[Len(s)]
                           ELSE Tail(s)[Len(Tail(s))] = s[Len(s)]
<1>1. /\ Len(s) \in Nat /\ Len(s) # 0 /\ Head(s) = s[1] /\ Tail(s) \in Seq(S)
      /\ Len(Tail(s)) = Len(s) - 1
  OBVIOUS
<1>2. CASE Tail(s) = <<>>
  <2> DEFINE none == <<>>
  <2>1. Len(none) = 0
    OBVIOUS
  <2> HIDE DEF none
  <2>2. Tail(s) = none
    BY <1>2 DEF none
  <2> DEFINE n == Len(s)
             m == Len(Tail(s))
  <2>3. m = 0
    BY <2>1, <2>2, Zenon
  <2>4. n \in Nat /\ m = n - 1
    BY <1>1
  <2> HIDE DEF n, m
  <2>5. n = 1
    BY <2>3, <2>4
  <2>6. Len(s) = 1
    BY <2>5 DEF n
  <2> QED BY <1>1, <1>2, <2>6
<1>3. CASE Tail(s) # <<>>
  <2>1. Len(Tail(s)) # 0
    BY <1>1, <1>3
  <2>2. Tail(s)[Len(Tail(s))] = s[Len(Tail(s)) + 1]
    BY <1>1, <2>1
  <2> QED BY <1>1, <1>3, <2>2
<1> QED BY <1>2, <1>3

LEMMA ViewEventKeeps ==
  ASSUME IndInv, ViewEvent
  PROVE  IndInv'
<1>0. Typed /\ ViewOK
  BY DEF IndInv
<1> DEFINE post == Head(toView)
<1>1. PICK cards : /\ toView # <<>> /\ toView' = Tail(toView)
                   /\ view' = [view EXCEPT !.busy = post \in {"started", "acting"}, !.cards = cards]
                   /\ cards \in BOOLEAN
  <2>1. view \in [open : BOOLEAN, busy : BOOLEAN, cards : BOOLEAN]
    BY <1>0, TypeFacts
  <2>2. PICK offers \in BOOLEAN :
          view' = [view EXCEPT !.busy = post \in {"started", "acting"},
                     !.cards = CASE post = "acting" -> FALSE
                                 [] post = "result" -> view.cards \/ offers
                                 [] OTHER           -> view.cards]
    BY DEF ViewEvent
  <2> DEFINE cards == CASE post = "acting" -> FALSE
                        [] post = "result" -> view.cards \/ offers
                        [] OTHER           -> view.cards
  <2>3. cards \in BOOLEAN
    BY <2>1
  <2> HIDE DEF cards
  <2>4. view' = [view EXCEPT !.busy = post \in {"started", "acting"}, !.cards = cards]
    BY <2>2 DEF cards
  <2>5. toView # <<>> /\ toView' = Tail(toView)
    BY DEF ViewEvent
  <2> QED BY <2>3, <2>4, <2>5
<1>2. UNCHANGED <<proc, inbox, lines, killed, client, current, kind, toHost, told>>
  BY DEF ViewEvent, backend
<1>3. toView \in Seq(Posts) /\ view \in [open : BOOLEAN, busy : BOOLEAN, cards : BOOLEAN]
  BY <1>0, TypeFacts
<1>4. toView' \in Seq(Posts)
  BY <1>1, <1>3
<1>5. /\ view' \in [open : BOOLEAN, busy : BOOLEAN, cards : BOOLEAN] /\ view'.open = view.open
      /\ view'.busy = (post \in {"started", "acting"})
  <2> DEFINE busy == post \in {"started", "acting"}
  <2>1. busy \in BOOLEAN
    OBVIOUS
  <2> HIDE DEF busy
  <2>2. view' = [view EXCEPT !.busy = busy, !.cards = cards] /\ cards \in BOOLEAN
    BY <1>1 DEF busy
  <2>3. view' \in [open : BOOLEAN, busy : BOOLEAN, cards : BOOLEAN]
    BY <1>3, <2>1, <2>2
  <2>4. view'.open = view.open
    BY <1>3, <2>2
  <2>5. view'.busy = busy
    BY <1>3, <2>2
  <2> QED BY <2>3, <2>4, <2>5 DEF busy
<1>6. Typed'
  BY <1>0, <1>2, <1>4, <1>5, TypeFacts, TypesFollow DEF Typed
<1>7. WillBeBusy' => WillBeBusy
  <2>1. toView' = Tail(toView) /\ toView # <<>>
    BY <1>1
  <2> QED BY <1>3, <1>5, <2>1, LastOfTail DEF WillBeBusy
<1>8. view.open
  BY <1>0, <1>1 DEF ViewOK
<1>9. ViewOK'
  BY <1>0, <1>2, <1>5, <1>7, <1>8 DEF ViewOK
<1> QED BY <1>2, <1>6, <1>9, Untouched DEF IndInv

\* A request is sent, or the view is told that it is not.
LEMMA RequestKeeps ==
  ASSUME IndInv, NEW k \in {"run", "action"}, Request(k), UNCHANGED <<proc, view>>,
         toHost # <<>>, toHost' = Tail(toHost)
  PROVE  IndInv'
<1>0. Typed /\ ViewOK /\ toHost \in Seq(Clicks) /\ toView \in Seq(Posts)
  BY TypeFacts DEF IndInv
<1>1. toHost' \in Seq(Clicks)
  BY <1>0
<1>2. ASSUME UNCHANGED <<lines, killed, client, told>>, toView' \in Seq(Posts),
             current' \in Ids \cup {None}, current' # None => kind'[current'] # "none",
             inbox' \in [Pids -> Seq(Ids \cup {None})], kind' \in [Ids -> Kinds]
      PROVE  Typed'
  BY <1>0, <1>1, <1>2, TypeFacts, TypesFollow DEF Typed
<1>3. CASE current = None /\ Usable
  <2>1. Sent(k) /\ UNCHANGED <<lines, killed, client, toView, told>>
    BY <1>3 DEF Request
  <2>2. k \in {"inspect", "run", "action"} /\ k # "none"
    OBVIOUS
  <2>3. /\ current' \in Ids /\ current' # None /\ kind'[current'] = k
        /\ kind' \in [Ids -> Kinds] /\ inbox' \in [Pids -> Seq(Ids \cup {None})]
        /\ ChildOK' /\ ReadyOK' /\ WaitingOK' /\ KilledOK' /\ ToldOK'
    BY <1>3, <2>1, <2>2, SendKeeps
  <2>4. toView' \in Seq(Posts)
    BY <1>0, <2>1
  <2>5. Typed'
    BY <1>2, <2>1, <2>2, <2>3, <2>4
  <2>6. ViewOK'
    BY <1>0, <2>1, <2>3 DEF ViewOK, WillBeBusy
  <2> QED BY <2>3, <2>5, <2>6 DEF IndInv
<1>4. CASE ~(current = None /\ Usable)
  <2>1. /\ toView' = Posted("failed")
        /\ UNCHANGED <<inbox, lines, killed, client, current, kind, told>>
    BY <1>4 DEF Request
  <2>2. toView' \in Seq(Posts) /\ ViewOK'
    BY <1>0, <2>1, Posting DEF Posts
  <2>3. Typed'
    BY <1>0, <1>2, <2>1, <2>2, TypeFacts
  <2> QED BY <2>1, <2>2, <2>3, Untouched DEF IndInv
<1> QED BY <1>3, <1>4

\* The child is killed and its request is over, or there is nothing to stop.
LEMMA StopKeeps ==
  ASSUME IndInv, Stop, UNCHANGED <<proc, view>>, toHost # <<>>, toHost' = Tail(toHost)
  PROVE  IndInv'
<1>0. /\ Typed /\ ChildOK /\ WaitingOK /\ KilledOK /\ ViewOK /\ ToldOK /\ client \in Clients
      /\ toHost \in Seq(Clicks)
  BY TypeFacts DEF IndInv
<1>1. toHost' \in Seq(Clicks) /\ inbox' = inbox /\ lines' = lines /\ ~client.stopping
  BY <1>0 DEF Stop, ViewOK
<1>2. ASSUME client' \in Clients, killed' \subseteq Pids, toView' \in Seq(Posts),
             current' \in Ids \cup {None}, current' # None => kind'[current'] # "none",
             told' \in [Ids -> {0, 1}], kind' \in [Ids -> Kinds]
      PROVE  Typed'
  BY <1>0, <1>1, <1>2, TypeFacts, TypesFollow DEF Typed
<1>3. \A q \in Pids : Readies(q)' = Readies(q)
  BY <1>1 DEF Readies
<1>4. CASE UNCHANGED <<killed, client, current, kind, toView, told>>
  <2>1. Typed'
    BY <1>0, <1>2, <1>4, TypeFacts
  <2>2. ViewOK'
    BY <1>0, <1>1, <1>4 DEF ViewOK, WillBeBusy
  <2> QED BY <1>1, <1>4, <2>1, <2>2, Untouched DEF IndInv
<1>5. ASSUME current # None, Forgotten, client'.stopping = client.stopping
      PROVE  /\ current' = None /\ toView' \in Seq(Posts) /\ ViewOK'
             /\ kind' \in [Ids -> Kinds] /\ told' \in [Ids -> {0, 1}] /\ ToldOK'
  <2>1. current' = None /\ Over(current) /\ toView' = Posted("cancelled")
    BY <1>5 DEF Forgotten
  <2>2. kind' \in [Ids -> Kinds] /\ told' \in [Ids -> {0, 1}] /\ ToldOK'
    BY <1>0, <1>5, <2>1, Ending
  <2>3. toView' \in Seq(Posts) /\ ViewOK'
    BY <1>0, <1>5, <2>1, Posting DEF Posts
  <2> QED BY <2>1, <2>2, <2>3
<1>6. CASE current # None /\ Child # None /\ Killed /\ Forgotten
  <2>1. /\ killed' = killed \cup {Child}
        /\ client' = [client EXCEPT !.cancelling = TRUE, !.status = "starting"]
    BY <1>6 DEF Killed, Child
  <2>2. /\ client' \in Clients /\ Child' = Child /\ client'.status = "starting"
        /\ client'.stopping = client.stopping
    BY <1>0, <2>1 DEF Clients, Child
  <2>3. Child \in Pids /\ killed' \subseteq Pids
    BY <1>0, <1>6, <2>1, TypeFacts
  <2>4. /\ current' = None /\ toView' \in Seq(Posts) /\ ViewOK'
        /\ kind' \in [Ids -> Kinds] /\ told' \in [Ids -> {0, 1}] /\ ToldOK'
    BY <1>5, <1>6, <2>2
  <2>5. proc[Child].at # "starting" /\ Readies(Child) = {}
    BY <1>0, <1>6 DEF WaitingOK
  <2>6. Typed'
    BY <1>2, <2>2, <2>3, <2>4
  <2>7. ChildOK'
    BY <1>0, <2>1, <2>2, <2>3 DEF ChildOK, Alive
  <2>8. WaitingOK'
    BY <2>2, <2>4 DEF WaitingOK
  <2>9. KilledOK'
    BY <1>1, <1>3, <1>6, <2>1, <2>2, <2>3, <2>4, <2>5 DEF KilledOK
  <2> QED BY <1>1, <2>4, <2>6, <2>7, <2>8, <2>9, Untouched DEF IndInv
<1>7. CASE current # None /\ Forgotten /\ UNCHANGED <<killed, client>>
  <2>1. /\ current' = None /\ toView' \in Seq(Posts) /\ ViewOK'
        /\ kind' \in [Ids -> Kinds] /\ told' \in [Ids -> {0, 1}] /\ ToldOK'
    BY <1>5, <1>7
  <2>2. Typed'
    BY <1>0, <1>2, <1>7, <2>1, TypeFacts
  <2>3. Child' = Child /\ Child \in Pids \cup {None}
    BY <1>0, <1>7, TypeFacts DEF Child
  <2>4. WaitingOK' /\ KilledOK'
    BY <1>0, <1>3, <1>7, <2>1, <2>3 DEF WaitingOK, KilledOK
  <2> QED BY <1>1, <1>7, <2>1, <2>2, <2>4, Untouched DEF IndInv
<1>8. CASE /\ current # None /\ Child # None
           /\ client' = [client EXCEPT !.cancelling = FALSE, !.status = "starting"]
           /\ toView' = Posted("failed") /\ UNCHANGED <<killed, current, kind, told>>
  <2>1. /\ client' \in Clients /\ Child' = Child /\ client'.status = "starting"
        /\ client'.stopping = client.stopping /\ ~client'.cancelling
    BY <1>0, <1>8 DEF Clients, Child
  <2>2. toView' \in Seq(Posts) /\ ViewOK'
    BY <1>0, <1>8, <2>1, Posting DEF Posts
  <2>3. Typed'
    BY <1>0, <1>2, <1>8, <2>1, <2>2, TypeFacts
  <2>4. Child \in Pids
    BY <1>0, <1>8, TypeFacts
  <2>5. ChildOK'
    BY <1>0, <1>8, <2>1 DEF ChildOK, Alive
  <2>6. proc[Child].at # "starting" /\ Readies(Child) = {} /\ Child \notin killed
    BY <1>0, <1>1, <1>8 DEF WaitingOK, KilledOK
  <2>7. WaitingOK' /\ KilledOK'
    BY <1>3, <1>8, <2>1, <2>4, <2>6 DEF WaitingOK, KilledOK
  <2> QED BY <1>1, <1>8, <2>2, <2>3, <2>5, <2>7, Untouched DEF IndInv
<1> QED BY <1>4, <1>6, <1>7, <1>8 DEF Stop, Killable, Child

LEMMA HostKeeps ==
  ASSUME IndInv, HostEvent
  PROVE  IndInv'
<1>1. toHost # <<>> /\ toHost' = Tail(toHost) /\ UNCHANGED <<proc, view>>
  BY DEF HostEvent
<1>2. toHost \in Seq(Clicks)
  BY TypeFacts DEF IndInv
<1>3. Head(toHost) \in Clicks
  BY <1>1, <1>2
<1>4. CASE Head(toHost) = "stop"
  <2>1. Stop
    BY <1>4 DEF HostEvent
  <2> QED BY <1>1, <2>1, StopKeeps
<1>5. CASE Head(toHost) # "stop"
  <2>1. Request(Head(toHost)) /\ Head(toHost) \in {"run", "action"}
    BY <1>3, <1>5 DEF HostEvent, Clicks
  <2>2. PICK k \in {"run", "action"} : Request(k)
    BY <2>1
  <2> QED BY <1>1, <2>2, RequestKeeps
<1> QED BY <1>4, <1>5

(***************************************************************************)
(* The invariant                                                           *)
(***************************************************************************)
LEMMA InvAtFirst == Init => IndInv
<1> SUFFICES ASSUME Init PROVE IndInv
  OBVIOUS
<1> DEFINE none == <<>>
<1>1. none \in Seq(Ids \cup {None}) /\ none \in Seq(Lines) /\ none \in Seq(Posts)
      /\ none \in Seq(Clicks) /\ DOMAIN none = {}
  OBVIOUS
<1>2. 1 \in Pids /\ 1 # None /\ None \notin Pids
  BY BoundAssumption DEF Pids, None
<1>0. PICK missing \in 0 .. 1 :
        /\ proc = [p \in Pids |-> [at |-> IF p = 1 /\ missing = 0 THEN "starting" ELSE "unborn", job |-> None]]
        /\ client = [child |-> 1 - missing, status |-> "starting", stopping |-> FALSE, cancelling |-> FALSE]
  BY DEF Init
<1>3. /\ inbox = [p \in Pids |-> none] /\ lines = [p \in Pids |-> none]
      /\ toView = none /\ toHost = none /\ view = NoView /\ killed = {} /\ current = None
      /\ kind = [i \in Ids |-> "none"] /\ told = [i \in Ids |-> 0]
  BY DEF Init
<1> HIDE DEF none
<1>4. /\ proc \in [Pids -> ProcRows]
      /\ \A p \in Pids : proc[p].at = IF p = 1 /\ missing = 0 THEN "starting" ELSE "unborn"
  BY <1>0, <1>3 DEF ProcRows, ProcAt
<1>5. /\ client \in Clients /\ ~client.stopping /\ ~client.cancelling /\ client.status = "starting"
      /\ Child = IF missing = 0 THEN 1 ELSE None
  BY <1>0, <1>2 DEF Clients, Child, None
<1>6. view \in [open : BOOLEAN, busy : BOOLEAN, cards : BOOLEAN] /\ ~view.busy
  BY <1>3 DEF NoView
<1>7. TypeOK
  BY <1>3, <1>4, <1>5, <1>6 DEF TypeOK, ProcRows, ProcAt, Clients
<1>8. \A p \in Pids : lines[p] = none
  BY <1>3
<1>9. \A p \in Pids : Readies(p) = {}
  BY <1>1, <1>8 DEF Readies
<1>10. Typed
  <2>1. inbox \in [Pids -> Seq(Ids \cup {None})] /\ lines \in [Pids -> Seq(Lines)]
    BY <1>1, <1>3
  <2>2. kind \in [Ids -> Kinds] /\ told \in [Ids -> {0, 1}]
    BY <1>3 DEF Kinds
  <2>3. \A p \in Pids : \A n \in DOMAIN lines[p] : FALSE
    BY <1>1, <1>8
  <2>4. \A p \in Pids : proc[p].at # "working"
    BY <1>4
  <2> QED BY <1>1, <1>3, <1>7, <2>1, <2>2, <2>3, <2>4 DEF Typed
<1>11. ChildOK
  BY <1>2, <1>3, <1>4, <1>5 DEF ChildOK, Alive
<1>12. ReadyOK
  BY <1>9 DEF ReadyOK
<1>13. WaitingOK /\ KilledOK
  BY <1>3, <1>5 DEF WaitingOK, KilledOK
<1>14. ViewOK
  BY <1>3, <1>5, <1>6 DEF ViewOK, WillBeBusy, none
<1>15. ToldOK
  BY <1>3 DEF ToldOK
<1> QED BY <1>10, <1>11, <1>12, <1>13, <1>14, <1>15 DEF IndInv

LEMMA InvKept == IndInv /\ [Next]_vars => IndInv'
<1> SUFFICES ASSUME IndInv, [Next]_vars PROVE IndInv'
  OBVIOUS
<1>1. CASE UNCHANGED vars
  <2>1. UNCHANGED <<proc, inbox, lines, killed, client, current, kind, view, toView, toHost, told>>
    BY <1>1 DEF vars
  <2>2. Typed'
    BY <2>1, TypeFacts, TypesFollow DEF IndInv, Typed
  <2> QED BY <2>1, <2>2, Untouched DEF IndInv
<1>2. CASE \E p \in Pids : Boot(p) \/ Read(p) \/ Reply(p) \/ Noise(p) \/ Obey(p) \/ Die(p)
  BY <1>2, BootKeeps, ReadKeeps, ReplyKeeps, NoiseKeeps, EndKeeps
<1>3. CASE \/ ErrorEvent \/ ExitEvent \/ LineEvent \/ Dispose \/ LateKill
           \/ Resolve \/ Press \/ ViewEvent \/ HostEvent
  BY <1>3, ErrorKeeps, ExitKeeps, LineKeeps, DisposeKeeps, LateKillKeeps, ResolveKeeps,
     PressKeeps, ViewEventKeeps, HostKeeps
<1> QED BY <1>1, <1>2, <1>3 DEF Next

LEMMA Invariance == Spec => []IndInv
<1> QED BY InvAtFirst, InvKept, PTL DEF Spec

(***************************************************************************)
(* Theorems                                                                *)
(***************************************************************************)
\* The type invariant holds with any number of clicks, views, deaths and failed starts.
THEOREM TypeCorrect == Spec => []TypeOK
<1>1. IndInv => TypeOK
  BY DEF IndInv, Typed
<1> QED BY <1>1, Invariance, PTL

\* Two backends never live at the same time, however cancels, exits and restarts overlap: a
\* process is started by start() only, once the exit of the one before it was noticed, and
\* what lives is the client's child. Nor is the view left busy over nothing: the last post
\* that made it busy is about the request that is still waited for.
THEOREM EditorIsAlwaysTrue == Spec => []EditorIsTrue
<1>1. IndInv => EditorIsTrue
  <2> SUFFICES ASSUME IndInv PROVE EditorIsTrue
    OBVIOUS
  <2> DEFINE living == {p \in Pids : Alive(p)}
  <2>1. living \subseteq {Child}
    BY DEF IndInv, ChildOK
  <2> HIDE DEF living
  <2>2. IsFiniteSet({Child}) /\ Cardinality({Child}) = 1
    BY FS_Singleton
  <2>3. Cardinality(living) <= Cardinality({Child})
    BY <2>1, <2>2, FS_Subset
  <2>4. OneBackend
    BY <2>2, <2>3 DEF OneBackend, living
  <2>5. BusyMeansWaiting
    BY DEF IndInv, ViewOK, WillBeBusy, BusyMeansWaiting
  <2>6. TypeOK
    BY DEF IndInv, Typed
  <2> QED BY <2>4, <2>5, <2>6 DEF EditorIsTrue
<1> QED BY <1>1, Invariance, PTL

\* A request has one outcome: an answer that was in the pipe when it was cancelled is not
\* reported, its id being no longer the current one. And what the user waits for is never
\* with a process that was sent a signal: a cancelled child is not ready until it is replaced.
THEOREM RepliesAreAlwaysCurrent == Spec => []RepliesAreCurrent
<1>1. IndInv => RepliesAreCurrent
  <2> SUFFICES ASSUME IndInv PROVE RepliesAreCurrent
    OBVIOUS
  <2>1. OneAnswer
    <3>1. told \in [Ids -> {0, 1}]
      BY TypeFacts DEF IndInv
    <3> QED BY <3>1 DEF OneAnswer
  <2>2. NotWithTheDying
    <3> SUFFICES ASSUME current # None, NEW p \in killed, Alive(p), ~client.stopping
                 PROVE  FALSE
      BY DEF NotWithTheDying
    <3>1. p \in Pids /\ None \notin Pids
      BY TypeFacts DEF IndInv
    <3>2. p = Child
      BY <3>1 DEF IndInv, ChildOK
    <3> QED BY <3>1, <3>2 DEF IndInv, KilledOK
  <2> QED BY <2>1, <2>2 DEF RepliesAreCurrent
<1> QED BY <1>1, Invariance, PTL
=============================================================================
