--------------------------- MODULE MCLoopDevices ---------------------------
(***************************************************************************)
(* Small instances of LoopDevices: a partition of one extent, one of two,  *)
(* a hole among them, and one with an extent of a type that map refuses.   *)
(***************************************************************************)
EXTENDS LoopDevices, TLC

CONSTANTS p1, p2, odm, sys, old

Ext(t, s, d, n) == [type |-> t, source |-> s, data |-> d, num |-> n]

OneFile ==
     odm :> <<Ext(Linear, 0, 2, 2)>>
  @@ sys :> <<Ext(Linear, 0, 4, 1), Ext(Zero, 0, 0, 1)>>
  @@ old :> <<Ext(Linear, 0, 5, 1), Ext(Unsupported, 0, 0, 1)>>

\* A retrofit image: odm is on the second block device.
TwoFiles == odm :> <<Ext(Linear, 1, 2, 2)>>

\* A raw file, and a sparse one: the headers (28 bytes, then 12 for each chunk)
\* shift the data, so that no sector of the file is a whole one of the image.
RawFile == [s \in 0 .. LastSector |-> s]
SparseFile == [s \in 0 .. LastSector |-> NoWhole]

\* Other users map the same window of their file, by chance.
SameWindow == {[at |-> 2, len |-> 2]}
=============================================================================
