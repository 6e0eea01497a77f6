----------------------------- MODULE MCPlanner -----------------------------
(* Components over two or three tasks: keys in `requires', contracts that form a cycle, a resource of  *)
(* two makers, names that differ in white space, shared files, files without a spec, steps of their own. *)
EXTENDS Planner

MCNames   == {"a", "b", "c", "r", "s", "s s", "s  s"}
MCFold    == [n \in MCNames |-> n]
MCSqueeze == [n \in MCNames |-> IF n = "s  s" THEN "s s" ELSE n]

Task(key, requires, produces, paths) ==
  [key |-> key, requires |-> requires, produces |-> produces, paths |-> paths, specs |-> paths,
   steps |-> <<>>, defect |-> "none"]
Step(requires, produces, paths) == [requires |-> requires, produces |-> produces, paths |-> paths]
Pairs == {<<Task("a", {}, {"r"}, {"p", "q"}), Task("b", {"r"}, {"s"}, {"q"})>>} \cup
         {<<a, b>> : a \in {Task("a", {"b"}, {"r"}, {}), Task("a", {"s"}, {"r"}, {"p"})},
                     b \in {Task("b", {"a"}, {"s"}, {}), Task("b", {"r"}, {"s"}, {"q"})}}
Three == {<<Task("a", {}, {"r"}, {"p"}), Task("b", {}, {make}, {}), Task("c", {"r"}, {}, {"q"})>> : make \in {"r", "s"}}
Odd == {<<[Task("a", {}, {"r"}, {"p"}) EXCEPT !.specs = {}]>>, <<[Task("a", {}, {}, {}) EXCEPT !.defect = "path"]>>,
        <<[Task("a", {}, {}, {}) EXCEPT !.defect = "schema"]>>, <<Task("a", {}, {}, {}), Task("a", {}, {}, {})>>,
        <<Task("a", {}, {"s s"}, {}), Task("b", {"s  s"}, {}, {})>>, <<>>}
Declared == {<<[Task("a", {}, {"r"}, {}) EXCEPT !.steps = <<Step({}, {"s"}, {}), Step({"s"}, {}, paths)>>]>> : paths \in {{}, {"p"}}}
            \cup {<<[Task("a", {}, {"r"}, {}) EXCEPT !.steps = <<Step({"s"}, {}, {}), Step({}, {"s"}, {})>>]>>}
MCComponents == Pairs \cup Three \cup Declared \cup Odd
=============================================================================
