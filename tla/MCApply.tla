------------------------------ MODULE MCApply ------------------------------
(* Instances of ApplyTransaction for TLC: one entry per operation, and the  *)
(* added file inside a directory that the manifest has to create.           *)
EXTENDS ApplyTransaction

OneOfEach   == <<"MODIFY", "DELETE", "ADD">>
NewFileDir  == <<0, 0, 1>>
NoNewDir    == <<0, 0, 0>>
=============================================================================
