------------------------------ MODULE Namespace ------------------------------
(***************************************************************************)
(* Directories: creation, lookup, listing and deletion of names, with the  *)
(* two caches in front of the image, the directory indexes and the inode   *)
(* cache.                                                                  *)
(*                                                                         *)
(* Creation and deletion have two halves.  The first runs under the shared *)
(* lock and looks the name up; the second runs under the exclusive lock,   *)
(* with what the first half found, and other threads run in between.  All  *)
(* else is one step.  Names are model values; on an encrypted image the    *)
(* stored name is the encrypted one, but names stored before encryption    *)
(* was turned on are still found.  A directory block holds EntriesPerBlock *)
(* entries, here a set, since their order only matters between entries of  *)
(* one name; the pointer tree of a directory is that of any file           *)
(* (BlockTree), so an inode here is its kind and its list of blocks.       *)
(***************************************************************************)
EXTENDS Integers, Sequences, FiniteSets, FiniteSetsExt, Functions

CONSTANTS Names, Threads,
          InodeCount, Blocks,       \* ids 0 .. InodeCount-1; the data blocks
          EntriesPerBlock,
          ColdScans,        \* scans before an index is built (8 in the code)
          CacheCapacity,    \* inodes the cache holds
          Modes,            \* pairs <<journaled, encrypted>> to check
          LegacyNames,      \* names an encrypted image holds in the clear
          Avoid,            \* uses left out of a run, each named where tested
          MaxSteps          \* bound on the calls begun

ASSUME NamesAssumption == IsFiniteSet(Names) /\ LegacyNames \subseteq Names
ASSUME SizeAssumption ==
  /\ InodeCount \in Nat \ {0} /\ Cardinality(LegacyNames) < InodeCount
  /\ Blocks \subseteq Nat /\ Blocks # {}
  /\ {EntriesPerBlock, ColdScans, CacheCapacity, MaxSteps} \subseteq Nat
ASSUME ModesAssumption == Modes \subseteq BOOLEAN \X BOOLEAN

VARIABLES journaled, encrypted,
          disk,     \* [ib, db, it, blk]
          mem,      \* [ihint, bhint, cache, order, index]
          call,     \* thread -> the call it is in the middle of
          steps
VARIABLE lost   \* what failed creations left taken: [inodes, blocks]

vars == <<journaled, encrypted, disk, mem, call, steps, lost>>

Root == 0
Inodes == 0 .. InodeCount - 1
None == -1
Idle == [op |-> "idle"]
Avoids(use, cond) == use \in Avoid => ~cond

Inode(kind, blocks) == [kind |-> kind, blocks |-> blocks]
Entry(name, id) == [name |-> name, inode |-> id]
\* A name as it is stored in directory  d : encrypted for  d , or in the clear.
Enc(d, n) == [name |-> n, dir |-> d]
Clear(n) == [name |-> n, dir |-> None]
PlainName(stored) == stored.name
Junk == {Entry(Clear("junk"), Root)}   \* file bytes that parse as an entry

FirstFree(used, all, hint) ==
  LET ahead == {x \in all : x >= hint /\ x \notin used}
      any == all \ used
  IN  IF ahead # {} THEN Min(ahead) ELSE IF any # {} THEN Min(any) ELSE None

Put(f, k, v) == [x \in DOMAIN f \cup {k} |-> IF x = k THEN v ELSE f[x]]
Drop(f, k) == [x \in DOMAIN f \ {k} |-> f[x]]

-----------------------------------------------------------------------------
(* The inode cache: first in, first out, one entry per id *)

\* Mutant: an inode that is cached again is queued again.
CacheInsert_QueuesTwice(m, id, ino) ==
  LET order == Append(m.order, id)
      map == Put(m.cache, id, ino)
  IN  IF Len(order) > CacheCapacity
      THEN [m EXCEPT !.cache = Drop(map, Head(order)), !.order = Tail(order)]
      ELSE [m EXCEPT !.cache = map, !.order = order]

CacheInsert(m, id, ino) ==
  LET order == IF id \in DOMAIN m.cache THEN m.order ELSE Append(m.order, id)
      map == Put(m.cache, id, ino)
  IN  IF Len(order) > CacheCapacity
      THEN [m EXCEPT !.cache = Drop(map, Head(order)), !.order = Tail(order)]
      ELSE [m EXCEPT !.cache = map, !.order = order]

\* order.retain: the queue has an inode at most once, so at most one slot goes.
Unqueued(order, id) ==
  LET p == CHOOSE i \in DOMAIN order : order[i] = id
  IN  IF id \notin Range(order) THEN order
      ELSE [k \in 1 .. Len(order) - 1 |-> order[IF k < p THEN k ELSE k + 1]]

CacheRemove(m, id) ==
  [m EXCEPT !.cache = Drop(@, id), !.order = Unqueued(@, id)]

\* read_inode_internal: the inode, and the caches with it loaded.
ReadInode(m, id) == IF id \in DOMAIN m.cache THEN m.cache[id] ELSE disk.it[id]
Loaded(m, id) == IF id \in DOMAIN m.cache THEN m ELSE CacheInsert(m, id, disk.it[id])

-----------------------------------------------------------------------------
(* Entries on disk *)

StoredName(d, n) == IF encrypted THEN Enc(d, n) ELSE Clear(n)

EntriesIn(dk, ino) == UNION {dk.blk[b] : b \in Range(ino.blocks)}

\* Where a stored name is: its inode and block, first block first.
LocateEntryInDir(dk, ino, stored) ==
  LET at == {i \in DOMAIN ino.blocks : \E e \in dk.blk[ino.blocks[i]] : e.name = stored}
      block == ino.blocks[Min(at)]
      found == CHOOSE e \in dk.blk[block] : e.name = stored
  IN  IF at = {} THEN [inode |-> None, block |-> None]
      ELSE [inode |-> found.inode, block |-> block]

\* The same for a name, with what it is stored as: encrypted names come before
\* clear ones.
LocateAny(dk, ino, d, n) ==
  LET first == LocateEntryInDir(dk, ino, StoredName(d, n))
      stored == IF first.inode # None THEN StoredName(d, n) ELSE Clear(n)
      e == LocateEntryInDir(dk, ino, stored)
  IN  [inode |-> e.inode, block |-> e.block, name |-> stored]

BuildDirIndex(dk, ino) ==
  [k \in {e.name : e \in EntriesIn(dk, ino)} |-> LocateEntryInDir(dk, ino, k).inode]

-----------------------------------------------------------------------------
(* Directory indexes *)

NoIndex == [complete |-> FALSE, scans |-> 0, stored |-> <<>>, plain |-> <<>>]
IndexOf(m, d) == IF d \in DOMAIN m.index THEN m.index[d] ELSE NoIndex
NameMap(ix) == IF encrypted THEN ix.plain ELSE ix.stored
NameKey(n) == IF encrypted THEN n ELSE Clear(n)

\* dir_lookup: a cached hit; else, without encryption, a miss that a complete
\* index settles; else the complete index or the blocks, which may build the
\* index, and the answer is remembered.
DirLookup(m, d, n) ==
  LET ix == IndexOf(m, d)
      hit == NameKey(n) \in DOMAIN NameMap(ix)
      ino == ReadInode(m, d)
      fromIndex == IF StoredName(d, n) \in DOMAIN ix.stored THEN ix.stored[StoredName(d, n)]
                   ELSE IF Clear(n) \in DOMAIN ix.stored THEN ix.stored[Clear(n)]
                   ELSE None
      found == IF ix.complete THEN fromIndex ELSE LocateAny(disk, ino, d, n).inode
      scanned == IF ix.complete THEN ix ELSE [ix EXCEPT !.scans = Min({@ + 1, ColdScans})]
      built == IF ~ix.complete /\ (found = None \/ scanned.scans >= ColdScans)
               THEN [scanned EXCEPT !.stored = BuildDirIndex(disk, ino), !.complete = TRUE]
               ELSE scanned
      noted == IF found = None THEN built
               ELSE IF encrypted THEN [built EXCEPT !.plain = Put(@, n, found)]
               ELSE [built EXCEPT !.stored = Put(@, Clear(n), found)]
  IN  IF hit THEN [inode |-> NameMap(ix)[NameKey(n)], mem |-> m]
      ELSE IF ix.complete /\ ~encrypted THEN [inode |-> None, mem |-> m]
      ELSE IF ino.kind # "dir" THEN [inode |-> None, mem |-> Loaded(m, d)]
      ELSE [inode |-> found, mem |-> [Loaded(m, d) EXCEPT !.index = Put(@, d, noted)]]

\* What list_dir answers, and the index it leaves: from memory when the index
\* is complete (and, encrypted, every stored name has its plain name).
ListDir(m, d) ==
  LET ix == IndexOf(m, d)
      ino == ReadInode(m, d)
      es == EntriesIn(disk, ino)
      cached == ix.complete /\ (encrypted =>
                  Cardinality(DOMAIN ix.plain) = Cardinality(DOMAIN ix.stored))
      LastOf(K(_), k) ==
        LET at == {i \in DOMAIN ino.blocks :
                     \E e \in disk.blk[ino.blocks[i]] : K(e.name) = k}
        IN  (CHOOSE e \in disk.blk[ino.blocks[Max(at)]] : K(e.name) = k).inode
      Stored(x) == x
      filled == [ix EXCEPT
        !.complete = TRUE,
        !.stored = [k \in {e.name : e \in es} |-> LastOf(Stored, k)],
        !.plain = IF encrypted
                  THEN [k \in {PlainName(e.name) : e \in es} |-> LastOf(PlainName, k)]
                  ELSE @]
  IN  IF cached
      THEN [entries |-> IF encrypted THEN {<<k, ix.plain[k]>> : k \in DOMAIN ix.plain}
                        ELSE {<<PlainName(k), ix.stored[k]>> : k \in DOMAIN ix.stored},
            mem |-> Loaded(m, d)]
      ELSE [entries |-> {<<PlainName(e.name), e.inode>> : e \in es},
            mem |-> [Loaded(m, d) EXCEPT !.index = Put(@, d, filled)]]

-----------------------------------------------------------------------------

\* A formatted image; an encrypted one may hold files named before encryption
\* was turned on, each with an inode of its own.
Init ==
  /\ \E mode \in Modes : journaled = mode[1] /\ encrypted = mode[2]
  /\ LET legacy == IF encrypted THEN LegacyNames ELSE {}
     IN  \E id \in Injection(legacy, Inodes \ {Root}) :
           /\ Range(id) = 1 .. Cardinality(legacy)
           /\ disk = [ib  |-> {Root} \cup Range(id), db |-> {Min(Blocks)},
                      it  |-> [i \in Inodes |-> IF i = Root THEN Inode("dir", <<Min(Blocks)>>)
                                                ELSE Inode("file", <<>>)],
                      blk |-> [b \in Blocks |-> IF b # Min(Blocks) THEN {}
                                                ELSE {Entry(Clear(n), id[n]) : n \in legacy}]]
  /\ mem = [ihint |-> 0, bhint |-> 0, cache |-> <<>>, order |-> <<>>, index |-> <<>>]
  /\ call = [t \in Threads |-> Idle]
  /\ steps = 0
  /\ lost = [inodes |-> {}, blocks |-> {}]

InUse == disk.ib \ lost.inodes
Dirs == {d \in Inodes : disk.it[d].kind = "dir"}
Dead(d) == d \notin InUse

Step == steps < MaxSteps /\ steps' = steps + 1 /\ UNCHANGED <<journaled, encrypted>>
SecondHalf == UNCHANGED <<steps, journaled, encrypted>>
Return(t) == call' = [call EXCEPT ![t] = Idle]

\* First half of a creation: the parent is a directory and the name is free.
CreateLookup(t, d, n, kind) ==
  LET r == DirLookup(Loaded(mem, d), d, n)
  IN  /\ Step /\ call[t] = Idle
      /\ Avoids("dead_parent", Dead(d))
      /\ mem' = r.mem
      /\ call' = [call EXCEPT ![t] = IF r.inode # None THEN Idle
                   ELSE [op |-> "create", dir |-> d, name |-> n, kind |-> kind]]
      /\ UNCHANGED <<disk, lost>>

\* The block an entry goes to: the last one, then the others in order.
EntryBlock(ino) ==
  LET n == Len(ino.blocks)
      room == {i \in 1 .. n : Cardinality(disk.blk[ino.blocks[i]]) < EntriesPerBlock}
  IN  IF room = {} THEN None ELSE ino.blocks[IF n \in room THEN n ELSE Min(room)]

\* alloc_and_zero_block: only a creation without a journal clears the block.
Zeroed(own) == [b \in Blocks |-> IF b = own /\ ~journaled THEN {} ELSE disk.blk[b]]

\* Mutant: a complete index is not told of the new name.
Created_NotIndexed(c, m, parent, id, own, grown, hint) ==
  LET ino == Inode(c.kind, IF own = None THEN <<>> ELSE <<own>>)
      wider == IF grown = None THEN parent
               ELSE [parent EXCEPT !.blocks = Append(@, grown)]
      e == Entry(StoredName(c.dir, c.name), id)
      at == EntryBlock(parent)
      cached == CacheInsert(CacheInsert(m, id, ino), c.dir, wider)
  IN  [disk |-> [ib  |-> disk.ib \cup {id},
                 db  |-> disk.db \cup ({own, grown} \ {None}),
                 it  |-> [disk.it EXCEPT ![id] = ino, ![c.dir] = wider],
                 blk |-> IF grown = None THEN [Zeroed(own) EXCEPT ![at] = @ \cup {e}]
                         ELSE [Zeroed(own) EXCEPT ![grown] = {e}]],
       mem  |-> [cached EXCEPT
                   !.ihint = id + 1, !.bhint = hint]]

\* The image and memory once every allocation of a creation succeeded:  own
\* is the new directory's block,  grown  the parent's new block, or None.
Created(c, m, parent, id, own, grown, hint) ==
  LET ino == Inode(c.kind, IF own = None THEN <<>> ELSE <<own>>)
      wider == IF grown = None THEN parent
               ELSE [parent EXCEPT !.blocks = Append(@, grown)]
      e == Entry(StoredName(c.dir, c.name), id)
      at == EntryBlock(parent)
      Note(ix) == [ix EXCEPT
                     !.stored = Put(@, e.name, id),
                     !.plain = IF encrypted THEN Put(@, c.name, id) ELSE @]
      index == IF c.dir \notin DOMAIN m.index THEN m.index
               ELSE [m.index EXCEPT ![c.dir] = Note(m.index[c.dir])]
      cached == CacheInsert(CacheInsert(m, id, ino), c.dir, wider)
  IN  [disk |-> [ib  |-> disk.ib \cup {id},
                 db  |-> disk.db \cup ({own, grown} \ {None}),
                 it  |-> [disk.it EXCEPT ![id] = ino, ![c.dir] = wider],
                 blk |-> IF grown = None THEN [Zeroed(own) EXCEPT ![at] = @ \cup {e}]
                         ELSE [Zeroed(own) EXCEPT ![grown] = {e}]],
       mem  |-> [cached EXCEPT !.ihint = id + 1, !.bhint = hint, !.index = index]]

\* Second half: the checks again, then inode, block and entry.  With a journal
\* an error leaves everything as it was; without one it leaves what was taken.
CreateCommit(t) ==
  LET c == call[t]
      m == Loaded(mem, c.dir)
      parent == ReadInode(mem, c.dir)
      r == DirLookup(m, c.dir, c.name)
      id == FirstFree(disk.ib, Inodes, m.ihint)
      own == IF c.kind = "dir" THEN FirstFree(disk.db, Blocks, m.bhint) ELSE None
      grows == EntryBlock(parent) = None
      after == IF own = None THEN m.bhint ELSE own + 1
      grown == IF grows THEN FirstFree(disk.db \cup {own}, Blocks, after) ELSE None
      hint == IF grown = None THEN after ELSE grown + 1
      full == IF id = None THEN "inode"
              ELSE IF c.kind = "dir" /\ own = None THEN "own"
              ELSE IF grows /\ grown = None THEN "grown" ELSE ""
      leftInode == Inode(c.kind, IF own = None THEN <<>> ELSE <<own>>)
      done == Created(c, r.mem, parent, id, own, grown, hint)
  IN  /\ SecondHalf /\ c.op = "create" /\ Return(t)
      /\ Avoids("dead_parent", Dead(c.dir))
      /\ Avoids("dirty_block", journaled /\ own # None /\ disk.blk[own] # {})
      /\ \/ /\ parent.kind # "dir"
            /\ mem' = m /\ UNCHANGED <<disk, lost>>
         \/ /\ parent.kind = "dir"
            /\ r.inode # None \/ full = "inode" \/ (journaled /\ full # "")
            /\ mem' = r.mem /\ UNCHANGED <<disk, lost>>
         \/ /\ parent.kind = "dir" /\ r.inode = None /\ full = ""
            /\ disk' = done.disk /\ mem' = done.mem /\ UNCHANGED lost
         \/ /\ parent.kind = "dir" /\ r.inode = None /\ ~journaled /\ full = "own"
            /\ disk' = [disk EXCEPT !.ib = @ \cup {id}]
            /\ mem' = [r.mem EXCEPT !.ihint = id + 1]
            /\ lost' = [lost EXCEPT !.inodes = @ \cup {id}]
         \/ /\ parent.kind = "dir" /\ r.inode = None /\ ~journaled /\ full = "grown"
            /\ disk' = [disk EXCEPT !.ib = @ \cup {id}, !.it[id] = leftInode,
                                    !.db = @ \cup ({own} \ {None}), !.blk = Zeroed(own)]
            /\ mem' = [CacheInsert(r.mem, id, leftInode)
                          EXCEPT !.ihint = id + 1, !.bhint = after]
            /\ lost' = [inodes |-> lost.inodes \cup {id},
                        blocks |-> lost.blocks \cup ({own} \ {None})]

\* First half of a deletion: where the entry is, under which stored name.
DeleteLookup(t, d, n) ==
  LET e == LocateAny(disk, ReadInode(mem, d), d, n)
  IN  /\ Step /\ call[t] = Idle
      /\ Avoids("dead_parent", Dead(d))
      /\ mem' = Loaded(mem, d)
      /\ call' = [call EXCEPT ![t] = IF e.inode = None THEN Idle
                   ELSE [op |-> "delete", dir |-> d, name |-> n, entry |-> e]]
      /\ UNCHANGED <<disk, lost>>

\* Mutant: a directory is not asked whether it is empty.
Filled_Never(target) == FALSE

\* A directory counts as empty when its first block is.
Filled(target) ==
  /\ target.kind = "dir" /\ target.blocks # <<>>
  /\ disk.blk[target.blocks[1]] # {}

\* Mutant: the blocks of a directory are forgotten.
CollectInodeBlocks_OfFiles(target) == IF target.kind = "file" THEN Range(target.blocks) ELSE {}

CollectInodeBlocks(target) == Range(target.blocks)

\* What the first half found is used as long as the block still has the name;
\* otherwise the entry is located again.
EntryToDelete(c) ==
  LET b == c.entry.block
  IN  IF \E x \in disk.blk[b] : x.name = c.entry.name THEN c.entry
      ELSE LocateAny(disk, ReadInode(mem, c.dir), c.dir, c.name)

\* The parent's index forgets the name, and the index of the target goes.
Forgotten(index, c, e) ==
  LET Forget(ix) == [ix EXCEPT !.stored = Drop(@, e.name), !.plain = Drop(@, c.name)]
  IN  Drop(IF c.dir \in DOMAIN index THEN [index EXCEPT ![c.dir] = Forget(index[c.dir])]
           ELSE index,
           e.inode)

\* The block without the entry, the target's blocks and inode free.
Unlinked(e, freed) ==
  [disk EXCEPT !.ib = @ \ {e.inode}, !.db = @ \ freed,
               !.blk[e.block] = {x \in @ : x.name # e.name}]

\* Second half of a deletion.
DeleteCommit(t) ==
  LET c == call[t]
      parent == ReadInode(mem, c.dir)
      e == EntryToDelete(c)
      target == ReadInode(mem, e.inode)
      m == Loaded(Loaded(mem, c.dir), e.inode)
      freed == CollectInodeBlocks(target)
  IN  /\ SecondHalf /\ c.op = "delete" /\ Return(t) /\ UNCHANGED lost
      /\ Avoids("dead_parent", Dead(c.dir))
      /\ Avoids("stale_target", parent.kind = "dir" /\ e.inode # None /\
                   LocateEntryInDir(disk, parent, e.name)
                     # [inode |-> e.inode, block |-> e.block])
      /\ Avoids("first_block", e.inode # None /\ target.kind = "dir" /\
                   target.blocks # <<>> /\ disk.blk[target.blocks[1]] = {} /\
                   EntriesIn(disk, target) # {})
      /\ \/ /\ parent.kind # "dir" \/ e.inode = None
            /\ mem' = Loaded(mem, c.dir) /\ UNCHANGED disk
         \/ /\ parent.kind = "dir" /\ e.inode # None /\ Filled(target)
            /\ mem' = m /\ UNCHANGED disk
         \/ /\ parent.kind = "dir" /\ e.inode # None /\ ~Filled(target)
            /\ disk' = Unlinked(e, freed)
            /\ mem' = [CacheInsert(CacheRemove(m, e.inode), c.dir, parent) EXCEPT
                 !.ihint = Min({@, e.inode}), !.bhint = Min({@} \cup freed),
                 !.index = Forgotten(m.index, c, e)]

Lookup(d, n) ==
  /\ Step /\ Avoids("dead_parent", Dead(d))
  /\ mem' = DirLookup(mem, d, n).mem
  /\ UNCHANGED <<disk, call, lost>>

List(d) ==
  /\ Step /\ Avoids("dead_parent", Dead(d))
  /\ mem' = ListDir(mem, d).mem
  /\ UNCHANGED <<disk, call, lost>>

\* A file takes its first block; the bytes may read as a directory entry.
WriteFile(f) ==
  LET b == FirstFree(disk.db, Blocks, mem.bhint)
      ino == Inode("file", <<b>>)
  IN  /\ Step /\ f \in InUse /\ ReadInode(mem, f) = Inode("file", <<>>) /\ b # None
      /\ disk' = [disk EXCEPT !.db = @ \cup {b}, !.it[f] = ino, !.blk[b] = Junk]
      /\ mem' = [CacheInsert(Loaded(mem, f), f, ino) EXCEPT !.bhint = b + 1]
      /\ UNCHANGED <<call, lost>>

\* reload_from_disk: hints and caches start over.
ReloadFromDisk ==
  /\ Step
  /\ mem' = [ihint |-> 0, bhint |-> 0, cache |-> <<>>, order |-> <<>>, index |-> <<>>]
  /\ UNCHANGED <<disk, call, lost>>

Next ==
  \/ \E t \in Threads, d \in Dirs, n \in Names :
       \/ \E kind \in {"file", "dir"} : CreateLookup(t, d, n, kind)
       \/ DeleteLookup(t, d, n)
  \/ \E t \in Threads : CreateCommit(t) \/ DeleteCommit(t)
  \/ \E d \in Dirs : List(d) \/ \E n \in Names : Lookup(d, n)
  \/ \E f \in Inodes : WriteFile(f)
  \/ ReloadFromDisk

Spec == Init /\ [][Next]_vars

-----------------------------------------------------------------------------

LiveDirs == Dirs \cap InUse
Links == UNION {{<<d, PlainName(e.name), e.inode>> :
                   e \in EntriesIn(disk, disk.it[d])} : d \in LiveDirs}

\* The caches have the shape the code keeps: one queue slot per cached inode.
TypeOK ==
  /\ disk.ib \subseteq Inodes /\ disk.db \subseteq Blocks
  /\ Range(mem.order) = DOMAIN mem.cache /\ Len(mem.order) = Cardinality(DOMAIN mem.cache)
  /\ Len(mem.order) <= CacheCapacity
  /\ steps \in 0 .. MaxSteps

\* A lookup and a listing answer from the caches what the blocks hold, in every
\* directory in use, whatever was created, deleted, evicted or reused before.
CachesTransparent ==
  \A d \in LiveDirs :
    /\ \A n \in Names : DirLookup(mem, d, n).inode = LocateAny(disk, disk.it[d], d, n).inode
    /\ ListDir(mem, d).entries =
         {<<PlainName(e.name), e.inode>> : e \in EntriesIn(disk, disk.it[d])}

\* Blocks in use belong to one inode each, and nothing else is taken: a block
\* is marked used exactly when an inode in use lists it, or a creation without a
\* journal that ran out of space left it behind.
BlocksOwned ==
  /\ disk.db = lost.blocks \cup UNION {Range(disk.it[i].blocks) : i \in InUse}
  /\ \A i \in InUse : Range(disk.it[i].blocks) \cap lost.blocks = {}
  /\ \A i, j \in InUse : i # j => Range(disk.it[i].blocks) \cap Range(disk.it[j].blocks) = {}

\* The directories implement the tree of names: each step adds one link to an
\* unused inode or cuts one with nothing below it, although the two halves of
\* creations and deletions interleave; a creation that fails is no step.
Tree == INSTANCE NameTree WITH
  links <- Links, used <- InUse, dirs <- LiveDirs
ImplementsTree == Tree!Spec
=============================================================================
