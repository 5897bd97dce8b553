------------------------------ MODULE NameTree ------------------------------
(***************************************************************************)
(* What the directory operations promise: a tree of names.  A link is a    *)
(* directory, a name and the inode the name stands for; an inode is in use *)
(* from the moment a link to it is made to the moment that link is cut.    *)
(* Each change adds one link to an unused inode, or cuts the one link of   *)
(* an inode that has no links below it.                                    *)
(***************************************************************************)

CONSTANTS Inodes, Names, Root

VARIABLES links,    \* set of <<directory, name, inode>>
          used,     \* inodes in use
          dirs      \* those of them that are directories

vars == <<links, used, dirs>>

TypeOK ==
  /\ links \subseteq Inodes \X Names \X Inodes
  /\ used \subseteq Inodes
  /\ dirs \subseteq used

\* Every inode in use but the root has exactly one link, under a directory in
\* use, and a directory has at most one link of a name.
WellFormed ==
  /\ Root \in dirs
  /\ \A m \in links : m[1] \in dirs /\ m[3] \in used \ {Root}
  /\ \A m, k \in links : m[3] = k[3] => m = k
  /\ \A m, k \in links : m[1] = k[1] /\ m[2] = k[2] => m = k
  /\ \A i \in used \ {Root} : \E m \in links : m[3] = i

Init == TypeOK /\ WellFormed

Link(d, n, i, dir) ==
  /\ i \notin used
  /\ used' = used \cup {i}
  /\ d \in dirs
  /\ \A m \in links : ~(m[1] = d /\ m[2] = n)
  /\ links' = links \cup {<<d, n, i>>}
  /\ dirs' = IF dir THEN dirs \cup {i} ELSE dirs

Unlink(m) ==
  /\ used' = used \ {m[3]}
  /\ \A c \in links : c[1] # m[3]
  /\ links' = links \ {m}
  /\ dirs' = dirs \ {m[3]}

Next ==
  \/ \E d, i \in Inodes, n \in Names, dir \in BOOLEAN : Link(d, n, i, dir)
  \/ \E m \in links : Unlink(m)

Spec == Init /\ [][Next]_vars
=============================================================================
