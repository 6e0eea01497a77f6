------------------------------ MODULE MCCoder ------------------------------
(* Three paths in the scope, one of them below another, and a path outside it. *)
EXTENDS CoderExecutor

MCPaths == {"a", "a/b", "c", "x"}
MCBelow == [p \in MCPaths |-> IF p = "a" THEN {"a/b"} ELSE {}]
MCScope == MCPaths \ {"x"}
=============================================================================
