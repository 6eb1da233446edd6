---------------------------- MODULE MCSuperImage ----------------------------
(***************************************************************************)
(* A small instance of SuperImage: two commands, two slots, a partition of *)
(* one sector and one sector that is free, names with and without suffix.  *)
(***************************************************************************)
EXTENDS SuperImage, TLC
LOCAL Fun == INSTANCE Functions

CONSTANTS p1, p2, MaxEdits

Commands == {p1, p2}
Alike == Permutations(Commands)

XNames == {"x", "x_a", "x_b"}
XBase == [n \in XNames |-> "x"]
XSuffix == ("x" :> {}) @@ ("x_a" :> {"a"}) @@ ("x_b" :> {"b"})
XMade == "x_a" :> <<1>>
TwoSectors == [first |-> 1, size |-> 3 * 512, alignment |-> 0, offset |-> 0]

\* Bound: edits ended, completely or by an interruption of their metadata,
\* before those now under way.
EditsBounded == Fun!SumFunction(done) + Fun!SumFunction(hits) <= MaxEdits
=============================================================================
