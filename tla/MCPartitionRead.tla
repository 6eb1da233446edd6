-------------------------- MODULE MCPartitionRead --------------------------
(***************************************************************************)
(* Small instances of PartitionRead: images of three blocks of two sectors *)
(* of two units.  Every unit that is not zero is told from all others.     *)
(***************************************************************************)
EXTENDS PartitionRead, TLC

\* A block: zeros, data in its second half only, or data.
BlockContents(k) ==
  {<<0, 0, 0, 0>>, <<0, 0, 4 * k + 3, 4 * k + 4>>, <<4 * k + 1, 4 * k + 2, 4 * k + 3, 4 * k + 4>>}
ThreeBlocks ==
  {a \o b \o c : a \in BlockContents(0), b \in BlockContents(1), c \in BlockContents(2)}

\* One chunk more than the reader takes.
Alternating == {<<1, 2, 3, 4, 0, 0, 0, 0, 9, 10, 11, 12, 0, 0, 0, 0>>}
SomeContents == ThreeBlocks \cup Alternating

\* FILL and CRC chunks, which the encoder does not write.
WithFill ==
  {[raw |-> <<7, 7, 7, 7, 7, 7, 7, 7, 1, 2, 3, 4>>,
    file |-> [blocks |-> 3, count |-> 3,
              chunks |-> <<Chunk(FILL, 2, <<7>>), Chunk(CRC, 0, <<>>), Chunk(RAW, 1, <<1, 2, 3, 4>>)>>]]}

Lin(source, data, num) == [type |-> "linear", source |-> source, data |-> data, num |-> num]
Hole(num) == [type |-> "zero", source |-> 0, data |-> 0, num |-> num]

\* One extent; two devices and a hole; three devices; empty extents; past the end.
Partitions ==
  {<<>>, <<Lin(0, 1, 4)>>, <<Lin(0, 4, 2), Hole(1), Lin(1, 1, 1)>>, <<Lin(2, 0, 1), Lin(0, 0, 1), Lin(1, 0, 2)>>,
   <<Lin(0, 0, 0), Lin(0, 2, 1), Lin(0, 1, 0), Lin(0, 0, 1), Hole(0)>>, <<Lin(0, 0, 1), Lin(0, 5, 2)>>}

\* A split image of three devices, and the paths that may be given for them.
ThreeDevices == <<"super", "vendor", "rt_vendor">>
TwoFiles == "vendor.img" :> <<21, 22, 23, 24>> @@ "RT_VENDOR.img" :> <<31, 32>>
ImagePath == {"super.img"}
Stems == "vendor.img" :> {"vendor"} @@ "rt_vendor.img" :> {"rt_vendor", "vendor"}
         @@ "RT_VENDOR.img" :> {} @@ "super.img" :> {"super"} @@ "super_vendor.img" :> {"vendor"}
Folds == "vendor.img" :> {"vendor"} @@ "rt_vendor.img" :> {"rt_vendor"}
         @@ "RT_VENDOR.img" :> {"rt_vendor"} @@ "super.img" :> {"super"} @@ "super_vendor.img" :> {"vendor"}

\* None, one, both in either order, and named against its stem; refused: one
\* device given twice, a stem that matches two devices, no device of that
\* name, another file for the primary; and a file that is not there.
Bare(path) == [name |-> {}, path |-> path]
Named(name, path) == [name |-> {name}, path |-> path]
SomeSpecs ==
  {<<>>, <<Bare("vendor.img")>>, <<Bare("vendor.img"), Bare("RT_VENDOR.img")>>,
   <<Bare("RT_VENDOR.img"), Bare("super.img"), Named("vendor", "vendor.img")>>,
   <<Named("rt_vendor", "vendor.img"), Named("vendor", "RT_VENDOR.img")>>,
   <<Bare("vendor.img"), Named("vendor", "RT_VENDOR.img")>>, <<Bare("rt_vendor.img")>>,
   <<Named("odm", "vendor.img")>>, <<Named("super", "vendor.img")>>, <<Bare("super_vendor.img")>>}
=============================================================================
