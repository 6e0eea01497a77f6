---------------------------- MODULE AtomicApply ----------------------------
(***************************************************************************)
(* What publishing a manifest promises, without journals, backups or       *)
(* crashes: a transaction is reserved, may then write any entry, and ends  *)
(* either committed with every entry published or rolled back with every   *)
(* entry restored. Only the user can change the tree outside a             *)
(* transaction, and only the entries the user changed are excepted.        *)
(***************************************************************************)
CONSTANT Entries

VARIABLES
  content,   \* the bytes of each entry: "before", "after" or "foreign"
  edited,    \* entries the user changed since the last reservation
  decision   \* "open", "pending", "committed" or "rolledback"

vars == <<content, edited, decision>>

Contents == {"before", "after", "foreign"}

Init == /\ content = [e \in Entries |-> "before"]
        /\ edited = {} /\ decision = "open"

Untouched(c) == \A e \in Entries \ edited : content[e] = c

Reserve == /\ decision \in {"open", "rolledback"}
           /\ decision' = "pending"
           /\ edited' = {e \in Entries : content[e] # "before"}
           /\ UNCHANGED content

Write(e) == /\ decision = "pending"
            /\ \E c \in {"before", "after"} : content' = [content EXCEPT ![e] = c]
            /\ UNCHANGED <<edited, decision>>

Commit == /\ decision = "pending" /\ Untouched("after")
          /\ decision' = "committed" /\ UNCHANGED <<content, edited>>

RollBack == /\ decision = "pending" /\ Untouched("before")
            /\ decision' = "rolledback" /\ UNCHANGED <<content, edited>>

Edit(e) == /\ \E c \in Contents : content' = [content EXCEPT ![e] = c]
           /\ edited' = edited \cup {e} /\ UNCHANGED decision

Next == \/ Reserve \/ Commit \/ RollBack
        \/ \E e \in Entries : Write(e) \/ Edit(e)

Spec == Init /\ [][Next]_vars
=============================================================================
