----------------------------- MODULE MCAttempt -----------------------------
(* Instances of AttemptJournal for TLC: one file that is there from the      *)
(* start, one that attempts may add, and one that snapshots leave out.       *)
EXTENDS AttemptJournal

CONSTANTS old, new, hidden

Visible      == {old, new}
WithHidden   == {old, hidden}
NoFiles      == {}
HiddenFiles  == {hidden}
NoFile       == -1
Project      == [p \in Files |-> IF p = new THEN Absent ELSE 0]
=============================================================================
