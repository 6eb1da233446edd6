----------------------------- MODULE MCLpTable -----------------------------
(***************************************************************************)
(* A small instance of LpTable: two devices, a table with fragments and    *)
(* holes, and one with three groups to drop, renumber and rename.          *)
(***************************************************************************)
EXTENDS LpTable, TLC

CONSTANTS a, b, cow, gd, gm, gcow

Dev(f, s, al, o) == [first |-> f, size |-> s * SECTOR, alignment |-> al, offset |-> o]

Lin(d, s, n) == [num |-> n, type |-> Linear, data |-> s, source |-> d]
Hole1 == [num |-> 1, type |-> Zero, data |-> 0, source |-> 0]
P(f, n, g) == [first |-> f, num |-> n, group |-> g]
G(n, m) == [name |-> n, max |-> m]

\* A main device with a reserved first sector, and a second of one sector.
TwoDevices == <<Dev(1, 4, 0, 0), Dev(0, 1, 0, 0)>>

\* A table in use: a fragmented partition, an extent-less one between two
\* windows, and a snapshot's partition, part of it a hole, in the cow group.
InUse == [parts |-> (a :> P(0, 2, 0)) @@ (b :> P(2, 0, 0)) @@ (cow :> P(2, 2, 1)),
          extents |-> <<Lin(0, 1, 1), Lin(0, 3, 1), Hole1, Lin(1, 0, 1)>>,
          groups |-> <<G(gm, 3), G(gcow, 0)>>]

\* Three groups, with a member in the last.
InGroups == [parts |-> cow :> P(0, 1, 2),
             extents |-> <<Lin(0, 1, 1)>>,
             groups |-> <<G(gd, 1), G(gm, 1), G(gcow, 1)>>]

SomeTables == {InUse, InGroups}
Alike == Permutations({a, b})
=============================================================================
