--------------------------- MODULE PatchManifest ---------------------------
(***************************************************************************)
(* PatchManifestBuilder.build(), while others write to the two trees it    *)
(* describes: the baseline and the workspace are listed and read file by   *)
(* file, compared, and listed and read once more. A run that ends well     *)
(* stores the manifest (insert_manifest); a preview builds it again and    *)
(* compares it with the stored one.                                        *)
(*                                                                         *)
(* A tree maps every path to what is there: [kind, content, stamp], where  *)
(* the stamp stands for the metadata (inode, times) and the content of a   *)
(* link is its target. SHA-256 is the identity on trees and manifests.     *)
(***************************************************************************)
EXTENDS Integers, Sequences, FiniteSets, FiniteSetsExt, SequencesExt, Functions

CONSTANTS
  Root, Order,     \* the root of a tree, and the paths below it in the order of a walk by names
  Parent,          \* of a path, its directory
  Key,             \* of a path, ProjectPath.comparison_key
  Secret,          \* paths ProtectedPathPolicy does not include
  Refused,         \* paths ProjectPath.parse() raises for
  Faulty,          \* places that may fail to be inspected, opened, scanned or read
  Contents, Size, Text, \* contents with their size; those that are printable UTF-8
  Before, After,   \* the baselines and the workspaces a request may find
  Puts,            \* what an edit may put in a place
  MaxFiles, MaxFileBytes, MaxBytes, MaxPatchBytes, \* SandboxLimits
  Restores,        \* may an edit put back what was there earlier in the same build?
  MaxEdits, MaxRequests

Trees  == {"base", "work"}
Paths  == ToSet(Order)
Nodes  == {Root} \cup Paths

Position == [p \in Paths |-> CHOOSE k \in DOMAIN Order : Order[k] = p]

\* What may be in a place, and what a tree is: a directory, and whatever is there is in a directory.
Places == [kind : {"none", "dir"}, content : {"none"}, stamp : Nat]
          \cup [kind : {"file", "link"}, content : Contents, stamp : Nat]
IsTree(tree) ==
  /\ tree \in [Nodes -> Places] /\ tree[Root].kind = "dir"
  /\ \A p \in Paths : tree[p].kind # "none" => tree[Parent[p]].kind = "dir"

ASSUME TreeAssumption ==
  /\ Order \in Seq(Paths) /\ IsInjective(Order) /\ Root \notin Paths /\ Secret \cup Refused \subseteq Paths
  /\ Faulty \subseteq Nodes
  /\ Parent \in [Paths -> Nodes] /\ \A p \in Paths : Parent[p] = Root \/ Position[Parent[p]] < Position[p]
ASSUME PlaceAssumption == Puts \subseteq Places /\ \A tree \in Before \cup After : IsTree(tree)
ASSUME SizeAssumption ==
  /\ Size \in [Contents -> Nat] /\ Text \subseteq Contents
  /\ {MaxFiles, MaxFileBytes, MaxBytes, MaxPatchBytes, MaxEdits, MaxRequests} \subseteq Nat
  /\ Restores \in BOOLEAN

VARIABLES
  trees,    \* the baseline and the workspace
  edits,    \* how many edits were made: the newest stamp
  pc, job,  \* where the builder is; the request: [verification, stored, since]
  todo,     \* paths of the walk that are listed and not visited
  guard,    \* stamps of the directories that were opened
  open,     \* what the file that is read was when it was opened
  read,     \* the inventory so far
  kept,     \* inventories that are complete
  manifest, \* the last manifest that was built
  stored,   \* rows of patch_manifests
  outcome,  \* how the last request ended
  seen      \* both trees at every moment since the request

walk == <<todo, guard, open, read, kept>>
vars == <<trees, edits, pc, job, walk, manifest, stored, outcome, seen>>

Nothing    == [kind |-> "none", content |-> "none", stamp |-> 0]
Files(t)   == [p \in {q \in Paths : t[q].kind \notin {"none", "dir"}} |->
                [kind |-> t[p].kind, content |-> t[p].content]]
Shown(t)   == [n \in Nodes |-> [kind |-> t[n].kind, content |-> t[n].content]]
Plain(tree) ==  \* what an inventory tells of it
  [p \in Paths |-> IF tree[p].kind = "dir" THEN [kind |-> "none", content |-> "none"] ELSE tree[p]]
Both(two)  == [t \in Trees |-> Shown(two[t])]
NoJob      == [verification |-> 0, stored |-> FALSE, since |-> 0]
NoManifest == [verification |-> 0, base |-> <<>>, work |-> <<>>, entries |-> {}]

Init ==
  /\ \E b \in Before, w \in After : trees = [t \in Trees |-> IF t = "base" THEN b ELSE w]
  /\ edits = 0 /\ pc = "idle" /\ job = NoJob /\ todo = {} /\ guard = <<>> /\ open = Nothing
  /\ read = <<>> /\ kept = <<>> /\ manifest = NoManifest /\ stored = {} /\ outcome = "none"
  /\ seen = {}

Outcomes == {"none", "stored", "empty", "changed", "limit", "refused", "unreadable", "current", "stale"}

Total(files) == SumFunction([p \in DOMAIN files |-> Size[files[p].content]])

TypeOK ==
  /\ pc \in {"idle", "open", "walk", "read"} /\ outcome \in Outcomes /\ edits \in 0..MaxEdits
  /\ todo \subseteq Paths /\ DOMAIN read \subseteq Paths /\ Len(kept) \in 0..4
  /\ DOMAIN read \cap todo = {}
  /\ DOMAIN guard \subseteq Nodes /\ Cardinality(stored) <= MaxRequests

(***************************************************************************)
(* Others: the user, and a command that outlived its run.                  *)
(***************************************************************************)
Complete(nodes) == \A p \in nodes \cap Paths : Parent[p] \in nodes
Above == [n \in Nodes |-> {m \in Nodes : \A nodes \in SUBSET Nodes : n \in nodes /\ Complete(nodes) => m \in nodes}]
Below == [p \in Paths |-> {q \in Paths \ {p} : p \in Above[q]}]

Edited(tree, p, new) ==
  [n \in Nodes |->
     IF n = p THEN [new EXCEPT !.stamp = edits + 1]
     ELSE IF n \in Below[p] THEN Nothing
     ELSE IF n = Parent[p] /\ tree[p].kind # new.kind THEN [tree[n] EXCEPT !.stamp = edits + 1]
     ELSE tree[n]]

\* What the edit of a tree changes, for an inventory, was not so before in this build.
PutsNothingBack(t, tree) ==
  \A q \in Paths : Plain(Shown(tree))[q] = Plain(Shown(trees[t]))[q]
                    \/ \A s \in seen : Plain(s[t])[q] # Plain(Shown(tree))[q]

Edit ==
  /\ edits < MaxEdits /\ edits' = edits + 1 /\ (pc # "idle" \/ job.verification \in 1..MaxRequests - 1)
  /\ \E t \in Trees, p \in Paths, new \in Puts :
       /\ trees[t][Parent[p]].kind = "dir"
       /\ [new EXCEPT !.stamp = trees[t][p].stamp] # trees[t][p]
       /\ Restores \/ pc = "idle" \/ PutsNothingBack(t, Edited(trees[t], p, new))
       /\ trees' = [trees EXCEPT ![t] = Edited(@, p, new)]
  /\ seen' = IF pc = "idle" THEN seen ELSE seen \cup {Both(trees')}
  /\ UNCHANGED <<pc, job, walk, manifest, stored, outcome>>

(***************************************************************************)
(* An inventory                                                            *)
(***************************************************************************)
Tree == trees[IF Len(kept) \in {0, 2} THEN "base" ELSE "work"]

Stop(how) ==
  /\ pc' = "idle" /\ outcome' = how /\ todo' = {} /\ guard' = <<>> /\ open' = Nothing
  /\ read' = <<>> /\ kept' = <<>>

\* A run that changed files and ended well, or a preview of what is stored.
Request ==
  /\ pc = "idle" /\ job.verification < MaxRequests /\ pc' = "open" /\ outcome' = "none"
  /\ \E preview \in BOOLEAN :
       /\ preview => stored # {}
       /\ job' = [verification |-> job.verification + 1, stored |-> preview, since |-> edits]
  /\ seen' = {Both(trees)}
  /\ UNCHANGED <<trees, edits, walk, manifest, stored>>

Children(n) == {p \in Paths : Parent[p] = n /\ Tree[p].kind # "none"}

\* _validate_directory_chain()
ChainHolds(n) == \A d \in Above[n] \ {n} : Tree[d].kind = "dir" /\ Tree[d].stamp = guard[d]

Opens(n) == guard' = [d \in DOMAIN guard \cup {n} |-> IF d = n THEN Tree[n].stamp ELSE guard[d]]

OpenRoot ==
  /\ pc = "open" /\ pc' = "walk" /\ todo' = Children(Root) /\ Opens(Root)
  /\ UNCHANGED <<trees, edits, job, open, read, kept, manifest, stored, outcome, seen>>

\* The path that is visited next, and those after it.
First == CHOOSE p \in todo : \A q \in todo : Position[p] <= Position[q]

\* Mutant: a path stays in the list of those to be visited.
Rest_Same == todo

Rest == todo \ {First}

\* Mutant: the inventories share one count of bytes.
Used_All == Total(read) + SumFunction([k \in DOMAIN kept |-> Total(kept[k])])

Used == Total(read)

\* add()
Fits(size) == size <= MaxFileBytes /\ Used + size <= MaxBytes /\ Cardinality(DOMAIN read) < MaxFiles

\* The name of the next entry is parsed, and what follows its stat. A change between the stat and
\* the open is refused by the comparison of both, as one before the second stat is: the content is
\* read here.
Visit ==
  /\ pc = "walk" /\ todo # {}
  /\ LET p == First
         now == Tree[p]
         goes == ChainHolds(p) /\ p \notin Refused
     IN  \/ /\ ~ChainHolds(p) \/ (goes /\ now.kind = "none")
            /\ Stop("changed")
         \/ /\ ChainHolds(p) /\ p \in Refused
            /\ Stop("refused")
         \/ /\ goes /\ now.kind = "dir"
            /\ Opens(p) /\ todo' = Children(p) \cup Rest /\ UNCHANGED <<pc, open, read, kept, outcome>>
         \/ /\ goes /\ now.kind = "file"
            /\ Size[now.content] > MaxFileBytes \/ Used + Size[now.content] > MaxBytes
            /\ Stop("limit")
         \/ /\ goes /\ now.kind \in {"file", "link"}
            /\ now.kind = "file" => Size[now.content] <= MaxFileBytes /\ Used + Size[now.content] <= MaxBytes
            /\ pc' = "read" /\ open' = now /\ UNCHANGED <<todo, guard, read, kept, outcome>>
  /\ UNCHANGED <<trees, edits, job, manifest, stored, seen>>

\* The second stat of a file that was read, or of a link.
Visited ==
  /\ pc = "read"
  /\ LET p == First
     IN  \/ /\ ~ChainHolds(p) \/ Tree[p] # open
            /\ Stop("changed")
         \/ /\ ChainHolds(p) /\ Tree[p] = open /\ ~Fits(Size[open.content])
            /\ Stop("limit")
         \/ /\ ChainHolds(p) /\ Tree[p] = open /\ Fits(Size[open.content])
            /\ read' = [q \in DOMAIN read \cup {p} |->
                          IF q = p THEN [kind |-> open.kind, content |-> open.content] ELSE read[q]]
            /\ todo' = Rest /\ pc' = "walk" /\ open' = Nothing /\ UNCHANGED <<guard, kept, outcome>>
  /\ UNCHANGED <<trees, edits, job, manifest, stored, seen>>

\* The places the walk inspects next: the entry, when its name is parsed, and what is above it.
Reached == IF pc = "open" \/ todo = {} THEN {Root}
           ELSE IF pc = "walk" /\ First \in Refused THEN Above[First] \ {First} ELSE Above[First]

\* The system refuses one of them: every OSError ends the build.
Unreadable ==
  /\ pc # "idle" /\ \E n \in Reached \cap Faulty : Tree[n].kind # "none"
  /\ Stop("unreadable")
  /\ UNCHANGED <<trees, edits, job, manifest, stored, seen>>

(***************************************************************************)
(* The manifest                                                            *)
(***************************************************************************)
Changes(b, w) == {p \in DOMAIN b \cup DOMAIN w :
                    p \notin DOMAIN b \/ p \notin DOMAIN w \/ b[p] # w[p]}
Sides(b, w, p) == (IF p \in DOMAIN b THEN {b[p]} ELSE {}) \cup (IF p \in DOMAIN w THEN {w[p]} ELSE {})

Reviewable(b, w, p) == \A side \in Sides(b, w, p) : side.kind = "file" /\ side.content \in Text

Entry(b, w, p) ==
  [path |-> p,
   operation |-> IF p \notin DOMAIN b THEN "ADD" ELSE IF p \notin DOMAIN w THEN "DELETE" ELSE "MODIFY",
   before |-> IF p \in DOMAIN b THEN b[p] ELSE Nothing, after |-> IF p \in DOMAIN w THEN w[p] ELSE Nothing,
   reviewable |-> Reviewable(b, w, p), apply_safe |-> Reviewable(b, w, p) /\ p \notin Secret]

\* _compare()
Entries(b, w) == {Entry(b, w, p) : p \in Changes(b, w)}

PatchBytes(entries) == MapThenSumSet(LAMBDA e : IF e.operation = "DELETE" THEN 0 ELSE Size[e.after.content], entries)
KeysCollide(paths)  == \E p, q \in paths : p # q /\ Key[p] = Key[q]

\* Mutant: the workspace is not listed again.
Settled_Baseline(four) == four[1] = four[3]

Settled(four) == four[1] = four[3] /\ four[2] = four[4]

Built(four) == [verification |-> IF job.stored THEN manifest.verification ELSE job.verification,
                base |-> four[1], work |-> four[2], entries |-> Entries(four[1], four[2])]

\* What is wrong with the inventories, after each of them.
Trouble(done) ==
  IF Tree[Root].kind # "dir" \/ Tree[Root].stamp # guard[Root] THEN "changed"
  ELSE IF KeysCollide(DOMAIN read) THEN "refused"
  ELSE IF Len(done) = 2 /\ PatchBytes(Entries(done[1], done[2])) > MaxPatchBytes THEN "limit"
  ELSE IF Len(done) = 4 /\ ~Settled(done) THEN "changed"
  ELSE IF Len(done) = 4 /\ KeysCollide(Changes(done[1], done[2])) THEN "refused"
  ELSE "none"

\* The end of an inventory, and of the last one. A preview says whether the manifest is that which
\* is stored; a run stores it, unless nothing changed.
Listed ==
  /\ pc = "walk" /\ todo = {}
  /\ LET done == Append(kept, read)
         m    == Built(done)
         new  == ~job.stored /\ m.entries # {}
     IN  \/ /\ Trouble(done) # "none"
            /\ Stop(Trouble(done)) /\ UNCHANGED <<manifest, stored>>
         \/ /\ Trouble(done) = "none" /\ Len(done) < 4
            /\ pc' = "open" /\ kept' = done /\ read' = <<>> /\ guard' = <<>>
            /\ UNCHANGED <<todo, open, outcome, manifest, stored>>
         \/ /\ Trouble(done) = "none" /\ Len(done) = 4
            /\ manifest' = IF new THEN m ELSE manifest
            /\ stored' = IF new THEN stored \cup {m} ELSE stored
            /\ Stop(IF new THEN "stored" ELSE IF ~job.stored THEN "empty"
                    ELSE IF m = manifest THEN "current" ELSE "stale")
  /\ UNCHANGED <<trees, edits, job, seen>>

Over == pc = "idle" /\ job.verification = MaxRequests /\ UNCHANGED vars
Next == Edit \/ Request \/ OpenRoot \/ Visit \/ Visited \/ Unreadable \/ Listed \/ Over
Spec == Init /\ [][Next]_vars

(***************************************************************************)
(* Properties                                                              *)
(***************************************************************************)
Ended == pc = "idle" /\ outcome \in {"stored", "current"}

\* Applying the entries of a manifest to the files of a tree.
Applied(entries, files) ==
  LET after == [p \in Paths |-> IF \E e \in entries : e.path = p
                                THEN (CHOOSE e \in entries : e.path = p).after ELSE files[p]]
  IN  [p \in Paths |-> [kind |-> after[p].kind, content |-> after[p].content]]
\* A manifest that is stored, or that a preview calls current, is the difference of both trees as
\* they were at one moment of the build, although every file was read at a moment of its own.
ManifestOfOneMoment ==
  Ended => \E s \in seen :
    /\ Applied(manifest.entries, Plain(s.base)) = Plain(s.work)
    /\ \A e \in manifest.entries : Plain(s.base)[e.path] = [kind |-> e.before.kind, content |-> e.before.content]

\* The limits hold for every tree a manifest was built from, and for the patch; no path of either
\* tree is one that is refused or has the key of another one.
LimitsAreKept ==
  Ended => /\ \A files \in {manifest.base, manifest.work} :
                /\ Cardinality(DOMAIN files) <= MaxFiles /\ Total(files) <= MaxBytes
                /\ \A p \in DOMAIN files : Size[files[p].content] <= MaxFileBytes /\ p \notin Refused
                /\ ~KeysCollide(DOMAIN files)
           /\ PatchBytes(manifest.entries) <= MaxPatchBytes

TooLarge(files) == \/ Cardinality(DOMAIN files) > MaxFiles \/ Total(files) > MaxBytes
                   \/ \E p \in DOMAIN files : Size[files[p].content] > MaxFileBytes

\* Trees nobody touches have a manifest, unless they are over a limit, hold a name that is refused,
\* two paths of one key or a place that cannot be read; a preview of what nobody touched since it
\* was stored is current.
StableTreesAreBuilt ==
  LET b == Files(trees.base)
      w == Files(trees.work)
      Holds(places) == \E t \in Trees, n \in places : trees[t][n].kind # "none"
  IN  pc = "idle" /\ outcome \in {"changed", "limit", "refused", "unreadable", "stale"} =>
        \/ edits > job.since \/ (outcome = "stale" /\ edits > 0)
        \/ outcome = "limit" /\ (TooLarge(b) \/ TooLarge(w) \/ PatchBytes(Entries(b, w)) > MaxPatchBytes)
        \/ outcome = "refused" /\ (Holds(Refused) \/ \E paths \in {DOMAIN b, DOMAIN w, Changes(b, w)} : KeysCollide(paths))
        \/ outcome = "unreadable" /\ Holds(Faulty)

\* The limits are exact: what is within them is built, what is not is refused.
LimitsAreExact == TypeOK /\ LimitsAreKept /\ StableTreesAreBuilt
=============================================================================
