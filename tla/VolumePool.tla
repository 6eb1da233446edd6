----------------------------- MODULE VolumePool -----------------------------
(***************************************************************************)
(* What the editing commands promise, with no metadata table in sight: a   *)
(* pool of physical sectors handed out to named volumes.  A volume is the  *)
(* sequence of sectors its bytes live in.  Whatever a command does, it     *)
(* touches the volumes it names and no other, it hands out only sectors    *)
(* that nobody owns, and what a volume keeps it keeps in place: growing    *)
(* appends, shrinking truncates, nothing is ever moved.                    *)
(*                                                                         *)
(* The steps are stated as relations between the pool before and after, so *)
(* that a step may add any fresh sectors it likes.  LpTable implements     *)
(* this specification (module MCLpTable checks it).                        *)
(***************************************************************************)
EXTENDS Naturals, Sequences

CONSTANTS
  Names,      \* volume names
  GroupNames, \* group names
  Sectors,    \* the allocatable physical sectors
  Hole        \* a sector of a volume that no device backs (reads as zeros)

VARIABLES
  volume, \* each live name: its sequence of sectors
  member, \* each live name: the group it is charged to
  limit   \* each live group: its maximum, 0 for none

pool == <<volume, member, limit>>

Live == DOMAIN volume
Groups == DOMAIN limit

\* The physical sectors of a sequence of sectors.
Backing(v) == {v[i] : i \in DOMAIN v} \ {Hole}
Owned == UNION {Backing(volume[n]) : n \in Live}

\* v extends u by sectors of the pool that nobody owns, each used once.
ExtendsBy(u, v) ==
  /\ Len(u) <= Len(v)
  /\ u = SubSeq(v, 1, Len(u))
  /\ \A i \in Len(u) + 1 .. Len(v) : v[i] \in Sectors \ Owned
  /\ \A i, j \in Len(u) + 1 .. Len(v) : v[i] = v[j] => i = j

\* Every volume of S is, after the step, what it was.
Keeps(S) ==
  \A n \in S : n \in DOMAIN volume' /\ volume'[n] = volume[n] /\ member'[n] = member[n]

SameMembers == member' = member /\ limit' = limit

NoSharing ==
  /\ \A n \in Live : \A i, j \in DOMAIN volume[n] :
       i # j /\ volume[n][i] = volume[n][j] => volume[n][i] = Hole
  /\ \A m, n \in Live : m # n => Backing(volume[m]) \cap Backing(volume[n]) = {}

Init ==
  /\ Live \subseteq Names /\ DOMAIN member = Live /\ Groups \subseteq GroupNames
  /\ \A n \in Live : Backing(volume[n]) \subseteq Sectors /\ member[n] \in Groups
  /\ NoSharing

\* A volume comes to life on fresh sectors (possibly none), in a group that
\* exists or is created with it.
NewVolume(n) ==
  /\ n \notin Live
  /\ DOMAIN volume' = Live \cup {n} /\ DOMAIN member' = Live \cup {n}
  /\ Keeps(Live)
  /\ ExtendsBy(<<>>, volume'[n])
  /\ member'[n] \in DOMAIN limit'
  /\ Groups \subseteq DOMAIN limit' /\ DOMAIN limit' \subseteq Groups \cup {member'[n]}
  /\ \A g \in Groups : limit'[g] = limit[g]

Grow(n) ==
  /\ DOMAIN volume' = Live
  /\ Keeps(Live \ {n}) /\ SameMembers
  /\ ExtendsBy(volume[n], volume'[n])

Shrink(n) ==
  /\ DOMAIN volume' = Live
  /\ Keeps(Live \ {n}) /\ SameMembers
  /\ volume'[n] = SubSeq(volume[n], 1, Len(volume'[n]))

\* Volumes are deleted; the groups stay.
Delete(S) ==
  /\ S \subseteq Live
  /\ DOMAIN volume' = Live \ S /\ DOMAIN member' = Live \ S
  /\ Keeps(Live \ S)
  /\ limit' = limit

\* A group goes with exactly the volumes charged to it.
DropGroup(g) ==
  LET S == {n \in Live : member[n] = g}
  IN /\ DOMAIN volume' = Live \ S /\ DOMAIN member' = Live \ S
     /\ Keeps(Live \ S)
     /\ limit' = [h \in Groups \ {g} |-> limit[h]]

Rename(m, n) ==
  /\ m \in Live /\ n \notin Live
  /\ DOMAIN volume' = (Live \ {m}) \cup {n}
  /\ DOMAIN member' = (Live \ {m}) \cup {n}
  /\ Keeps(Live \ {m})
  /\ volume'[n] = volume[m] /\ member'[n] = member[m]
  /\ limit' = limit

RenameGroup(g, h) ==
  /\ g \in Groups /\ h \notin Groups
  /\ volume' = volume
  /\ member' = [n \in Live |-> IF member[n] = g THEN h ELSE member[n]]
  /\ limit' = [k \in (Groups \ {g}) \cup {h} |-> IF k = h THEN limit[g] ELSE limit[k]]

Next ==
  \/ \E n \in Names : NewVolume(n)
  \/ \E n \in Live : Grow(n) \/ Shrink(n)
  \/ Delete(Live \ DOMAIN volume')
  \/ \E g \in Groups : DropGroup(g)
  \/ \E m, n \in Names : Rename(m, n)
  \/ \E g, h \in GroupNames : RenameGroup(g, h)

Spec == Init /\ [][Next]_pool
=============================================================================
