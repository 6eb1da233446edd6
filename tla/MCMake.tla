------------------------------- MODULE MCMake -------------------------------
(***************************************************************************)
(* A small instance of Make: two devices of four and three data sectors,   *)
(* the second out of phase, and two slots.                                 *)
(***************************************************************************)
EXTENDS Make, TLC

Sector(n) == n * SECTOR
TwoDevices == <<[size |-> Sector(12), alignment |-> Sector(2), offset |-> 0],
                [size |-> Sector(10), alignment |-> Sector(2), offset |-> Sector(1)]>>

OneSector == SECTOR

Part(g, pin, len, short) == [group |-> g, pin |-> pin, len |-> len, short |-> short]
Request(parts, slots, force, sparse) ==
  [parts |-> parts, slots |-> slots, force |-> force, sparse |-> sparse]

\* A payload that spans both devices; one pinned beside one that is not, with
\* a group that both would fill, forced or not; one that fits nowhere.
Spanning == <<Part("g", {}, 5, TRUE), Part("h", {}, 0, FALSE), Part("h", {}, 1, FALSE)>>
Pinned == <<Part("g", {1}, 2, FALSE), Part("g", {1}, 1, FALSE), Part("h", {}, 1, TRUE)>>
Both == <<Part("g", {0}, 4, FALSE), Part("g", {}, 2, FALSE)>>
TooLarge == <<Part("h", {0}, 1, FALSE), Part("h", {}, 7, FALSE)>>

SomeRequests ==
  {Request(Spanning, {0}, FALSE, FALSE), Request(Pinned, {1}, FALSE, FALSE),
   Request(Pinned, {0, 1}, FALSE, TRUE), Request(Both, {0, 1}, FALSE, FALSE),
   Request(Both, {0, 1}, TRUE, FALSE), Request(TooLarge, {0}, FALSE, FALSE)}

Limits == "g" :> 5 @@ "h" :> 0
=============================================================================
