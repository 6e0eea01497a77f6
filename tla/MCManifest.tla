---------------------------- MODULE MCManifest ----------------------------
(* Two files of one key, a directory with a file, and a name that is refused, where the        *)
(* directory and the root may fail to be read; baselines and workspaces with text, binary and  *)
(* links, with a content over the limit of a file and trees over the other limits.             *)
EXTENDS PatchManifest

MCOrder  == <<"A", "a", "d", "x", "r">>
MCParent == [A |-> "root", a |-> "root", d |-> "root", x |-> "d", r |-> "root"]
MCKey    == [A |-> "a", a |-> "a", d |-> "d", x |-> "x", r |-> "r"]
MCSize   == [t |-> 1, u |-> 2, b |-> 1, h |-> 3]

File(c) == [kind |-> "file", content |-> c, stamp |-> 0]
Link(c) == [File(c) EXCEPT !.kind = "link"]
Dir     == [kind |-> "dir", content |-> "none", stamp |-> 0]
Of(A, a, d, x, r) == [root |-> Dir, A |-> A, a |-> a, d |-> d, x |-> x, r |-> r]
MCBefore == {Of(Nothing, File("t"), Dir, File("b"), Nothing)}
MCAfter  == {Of(Nothing, File("u"), Dir, File("b"), Nothing), Of(File("t"), Nothing, Link("t"), Nothing, Nothing),
             Of(File("t"), File("t"), Nothing, Nothing, Nothing), Of(Nothing, File("h"), Nothing, Nothing, Nothing)}
MCPuts   == {Nothing, File("t"), File("u"), Link("t"), Dir}

\* A single file, put back and forth.
OneOrder  == <<"a">>
OneParent == [a |-> "root"]
OneKey    == [a |-> "a"]
OneTrees(c) == {[root |-> Dir, a |-> File(c)]}
OneBefore == OneTrees("t")
OneAfter  == OneTrees("t")
OnePuts   == {File("t"), File("b")}
=============================================================================
