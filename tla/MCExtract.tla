----------------------------- MODULE MCExtract -----------------------------
(***************************************************************************)
(* Small instances of Extract.                                             *)
(***************************************************************************)
EXTENDS Extract

CONSTANTS x, y, z

Entry(s, n, chunks, tail) == [slot |-> s, name |-> n, chunks |-> chunks, tail |-> tail]

\* A partition of two passes, one with a tail, an extent-less one, and a
\* name that two slots hold.
Mixed == <<Entry(0, x, 2, FALSE), Entry(0, y, 2, TRUE), Entry(0, z, 0, FALSE),
           Entry(1, z, 1, FALSE)>>

\* Both slots hold x, as after an update that wrote the second slot.
SameName == <<Entry(0, x, 1, FALSE), Entry(1, x, 1, FALSE)>>

\* y is a placeholder in slot 0 and has its data in slot 1.
Placeholder == <<Entry(0, x, 1, FALSE), Entry(0, y, 0, FALSE), Entry(1, y, 1, FALSE)>>
=============================================================================
