-------------------------- MODULE Namespace_proofs --------------------------
(***************************************************************************)
(* Proofs about Namespace, for any sets of names and blocks, any number of *)
(* inodes, threads, calls, entries per block and cached inodes, journaled  *)
(* or not, encrypted or not, with or without names in the clear.           *)
(*                                                                         *)
(* The inductive invariant IInv says what each cache may claim: the inode  *)
(* cache holds inodes as the table has them, an index holds entries of its *)
(* directory and, once complete, all of them, and only directories in use  *)
(* have an index.  On the image it says that blocks are owned once         *)
(* (BlocksOwned), that a directory stores each name once, and that the     *)
(* links form a tree (NameTree's WellFormed).  These need one another: the *)
(* lookup that guards a creation is right because the index is, the index  *)
(* stays right because no other directory has the block, and a deletion    *)
(* frees what nothing else uses because the target has one link.           *)
(*                                                                         *)
(* The theorems are about the uses NoStaleUse leaves in: TLC shows for     *)
(* each of the four others that the tree breaks once it is allowed.        *)
(***************************************************************************)
EXTENDS Namespace, WellFoundedInduction, TLAPS

\* Most leaves are reasoning about sets and functions, which Zenon does; the
\* leaves with arithmetic, sequences and records name SMT.
USE Zenon

(***************************************************************************)
(* What the inductive invariant says                                       *)
(***************************************************************************)

InodeRecs == [kind : {"file", "dir"}, blocks : Seq(Blocks)]
EntryRecs == [name : [name : Names \cup {"junk"}, dir : Inodes \cup {None}], inode : Inodes]

\* A cache of inodes as the table  it  has them, with one queue slot each.
QueueOK(cache, order, it) ==
  /\ order \in Seq(Inodes)
  /\ \A i, j \in DOMAIN order : order[i] = order[j] => i = j
  /\ Range(order) = DOMAIN cache
  /\ cache = [i \in DOMAIN cache |-> it[i]]

\* The memory  m  is a record with such a cache, within its capacity.
CacheOK(m, it) ==
  /\ m = [ihint |-> m.ihint, bhint |-> m.bhint, cache |-> m.cache,
          order |-> m.order, index |-> m.index]
  /\ QueueOK(m.cache, m.order, it)
  /\ Len(m.order) <= CacheCapacity

\* The index  ix  of a directory with entries  E : what it holds is in the
\* directory, and all of the directory once it is complete.
IndexOK(ix, E) ==
  /\ ix = [complete |-> ix.complete, scans |-> ix.scans,
           stored |-> ix.stored, plain |-> ix.plain]
  /\ \A k \in DOMAIN ix.stored : \E e \in E : e.name = k /\ e.inode = ix.stored[k]
  /\ ix.complete => \A e \in E : e.name \in DOMAIN ix.stored
  /\ encrypted => \A n \in DOMAIN ix.plain :
                    \E e \in E : PlainName(e.name) = n /\ e.inode = ix.plain[n]

IndexesOK(index, dk, live) ==
  /\ index = [d \in DOMAIN index |-> index[d]]
  /\ DOMAIN index \subseteq live
  /\ \A d \in DOMAIN index : IndexOK(index[d], EntriesIn(dk, dk.it[d]))

\* The entries of directory  d  are names stored for  d , each name once.
DirOK(dk, d) ==
  /\ \A e \in EntriesIn(dk, dk.it[d]) :
       \E n \in Names : e.name = StoredName(d, n) \/ e.name = Clear(n)
  /\ \A b, c \in Range(dk.it[d].blocks) : \A e \in dk.blk[b], f \in dk.blk[c] :
       PlainName(e.name) = PlainName(f.name) => b = c /\ e = f

\* A call remembers what can be looked up.
CallOK(c) ==
  /\ c.op \in {"idle", "create", "delete"}
  /\ c.op # "idle" => c.dir \in Inodes /\ c.name \in Names
  /\ c.op = "create" => c.kind \in {"file", "dir"}
  /\ c.op = "delete" =>
       /\ c.entry.inode \in Inodes /\ c.entry.block \in Blocks
       /\ c.entry.name \in {StoredName(c.dir, c.name), Clear(c.name)}

CallsOK == call = [t \in Threads |-> call[t]] /\ \A t \in Threads : CallOK(call[t])

Typed ==
  /\ journaled \in BOOLEAN /\ encrypted \in BOOLEAN
  /\ disk \in [ib : SUBSET Inodes, db : SUBSET Blocks, it : [Inodes -> InodeRecs],
               blk : [Blocks -> SUBSET EntryRecs]]
  /\ lost \in [inodes : SUBSET Inodes, blocks : SUBSET Blocks]
  /\ lost.inodes \subseteq disk.ib
  /\ steps \in 0 .. MaxSteps

MemOK == CacheOK(mem, disk.it) /\ IndexesOK(mem.index, disk, LiveDirs)

TreeInv == Tree!TypeOK /\ Tree!WellFormed

IInv ==
  /\ Typed /\ CallsOK /\ MemOK /\ BlocksOwned /\ TreeInv
  /\ \A d \in LiveDirs : DirOK(disk, d)

\* The uses the theorems leave out; each of them breaks the tree.
NoStaleUse == {"dead_parent", "stale_target", "first_block", "dirty_block"} \subseteq Avoid

(***************************************************************************)
(* Least and greatest elements, free numbers                               *)
(***************************************************************************)

\* A set of naturals has a least element, which  Min  picks.
LEMMA MinIs ==
  ASSUME NEW S \in SUBSET Nat, S # {}
  PROVE  Min(S) \in S /\ \A y \in S : Min(S) <= y
<1> DEFINE R == OpToRel(<, Nat)
<1>1. IsWellFoundedOn(R, Nat)
  BY NatLessThanWellFounded
<1>2. \A m, n \in Nat : m < n => <<m, n>> \in R
  BY DEF OpToRel
<1> HIDE DEF R
<1>3. PICK m \in S : \A n \in S : ~ (<<n, m>> \in R)
  BY <1>1, WFMin
<1>4. m \in Nat /\ \A n \in S : n \in Nat /\ ~ (n < m)
  BY <1>2, <1>3
<1>5. \A n \in S : m <= n
  BY <1>4, SMT
<1> QED
  BY <1>5 DEF Min

\* A set of positions of a sequence has a greatest element, which  Max  picks.
LEMMA MaxIs ==
  ASSUME NEW n \in Nat, NEW S \in SUBSET (1 .. n), S # {}
  PROVE  Max(S) \in S /\ \A y \in S : Max(S) >= y
<1> DEFINE T == {t \in Nat : n - t \in S}
<1>1. \A k \in S : n - k \in T
  BY SMT
<1>2. T \in SUBSET Nat /\ T # {}
  BY <1>1
<1>3. Min(T) \in T /\ \A u \in T : Min(T) <= u
  <2> HIDE DEF T
  <2> QED
    BY <1>2, MinIs
<1> DEFINE t == Min(T)
<1>4. t \in Nat /\ n - t \in S /\ \A u \in T : t <= u
  BY <1>3
<1> HIDE DEF t
<1>5. \A k \in S : t <= n - k
  BY <1>1, <1>4
<1>6. \A k \in S : n - t >= k
  BY <1>4, <1>5, SMT
<1> QED
  BY <1>4, <1>6 DEF Max

\* A free number is in the set, and not used (find_free_inode, find_free_block).
LEMMA FirstFreeIs ==
  ASSUME NEW all \in SUBSET Nat, NEW used, NEW hint
  PROVE  FirstFree(used, all, hint) \in (all \ used) \cup {None}
<1> DEFINE ahead == {x \in all : x >= hint /\ x \notin used}
           any == all \ used
<1>1. ahead \in SUBSET Nat /\ any \in SUBSET Nat /\ ahead \subseteq any
  OBVIOUS
<1>2. ahead # {} => Min(ahead) \in ahead
  <2> HIDE DEF ahead
  <2> QED BY <1>1, MinIs
<1>3. any # {} => Min(any) \in any
  <2> HIDE DEF any
  <2> QED BY <1>1, MinIs
<1> QED
  BY <1>1, <1>2, <1>3 DEF FirstFree

\* No inode and no block is  None .
LEMMA NoneIsNoId == None \notin Inodes /\ None \notin Blocks /\ Root \in Inodes
                    /\ Inodes \subseteq Nat
BY SizeAssumption, SMT DEF None, Inodes, Root

(***************************************************************************)
(* The inode cache                                                         *)
(***************************************************************************)

\* An id that joins the queue, or has a slot in it, with its new inode.
LEMMA QueueAppend ==
  ASSUME NEW it \in [Inodes -> InodeRecs], NEW cache, NEW order, QueueOK(cache, order, it),
         NEW id \in Inodes, NEW ino
  PROVE  QueueOK(Put(cache, id, ino),
                 IF id \in DOMAIN cache THEN order ELSE Append(order, id),
                 [it EXCEPT ![id] = ino])
<1> DEFINE map == Put(cache, id, ino)
           new == IF id \in DOMAIN cache THEN order ELSE Append(order, id)
           it2 == [it EXCEPT ![id] = ino]
<1>1. DOMAIN map = DOMAIN cache \cup {id}
      /\ \A x \in DOMAIN map : map[x] = IF x = id THEN ino ELSE cache[x]
  BY DEF Put
<1>2. order \in Seq(Inodes) /\ (\A i, j \in DOMAIN order : order[i] = order[j] => i = j)
      /\ Range(order) = DOMAIN cache /\ \A i \in DOMAIN cache : cache[i] = it[i]
  BY DEF QueueOK
<1>3. DOMAIN cache \subseteq Inodes
  BY <1>2, SMT DEF Range
<1>4. \A x \in DOMAIN map : map[x] = it2[x]
  BY <1>1, <1>2, <1>3
<1>5. map = [i \in DOMAIN map |-> it2[i]]
  BY <1>4 DEF Put
<1>6. new \in Seq(Inodes) /\ Range(new) = DOMAIN map
      /\ \A i, j \in DOMAIN new : new[i] = new[j] => i = j
  <2>1. CASE id \in DOMAIN cache
    BY <1>1, <1>2, <2>1
  <2>2. CASE id \notin DOMAIN cache
    <3>1. new = Append(order, id) /\ \A i \in DOMAIN order : order[i] # id
      BY <1>2, <2>2 DEF Range
    <3>2. /\ new \in Seq(Inodes) /\ DOMAIN new = DOMAIN order \cup {Len(order) + 1}
          /\ Len(order) + 1 \notin DOMAIN order /\ new[Len(order) + 1] = id
          /\ \A i \in DOMAIN order : new[i] = order[i]
      BY <1>2, <3>1, SMT
    <3> HIDE DEF new
    <3>3. Range(new) = Range(order) \cup {id}
      BY <3>2, SMT DEF Range
    <3>4. \A i, j \in DOMAIN new : new[i] = new[j] => i = j
      BY <1>2, <3>1, <3>2, SMT
    <3> QED
      BY <1>1, <1>2, <3>2, <3>3, <3>4
  <2> QED
    BY <2>1, <2>2
<1> QED
  BY <1>5, <1>6 DEF QueueOK

\* The victim of an eviction leaves both the queue and the cache.
LEMMA QueueTail ==
  ASSUME NEW it, NEW cache, NEW order, QueueOK(cache, order, it), order # <<>>
  PROVE  /\ QueueOK(Drop(cache, Head(order)), Tail(order), it)
         /\ Len(Tail(order)) = Len(order) - 1
<1>1. order \in Seq(Inodes) /\ (\A i, j \in DOMAIN order : order[i] = order[j] => i = j)
      /\ Range(order) = DOMAIN cache /\ \A i \in DOMAIN cache : cache[i] = it[i]
  BY DEF QueueOK
<1> DEFINE new == Tail(order)
<1>2. /\ new \in Seq(Inodes) /\ Len(new) = Len(order) - 1 /\ Len(order) \in Nat \ {0}
      /\ DOMAIN new = 1 .. Len(order) - 1 /\ DOMAIN order = 1 .. Len(order)
      /\ \A i \in DOMAIN new : new[i] = order[i + 1]
      /\ Head(order) = order[1]
  BY <1>1, SMT
<1> HIDE DEF new
<1>3. \A i, j \in DOMAIN new : new[i] = new[j] => i = j
  BY <1>1, <1>2, SMT
<1>4. \A x \in Range(new) : x \in Range(order) /\ x # Head(order)
  BY <1>1, <1>2, SMT DEF Range
<1>5. \A x \in Range(order) : x # Head(order) => x \in Range(new)
  <2> SUFFICES ASSUME NEW i \in DOMAIN order, order[i] # Head(order)
               PROVE  order[i] \in Range(new)
    BY DEF Range
  <2>1. i - 1 \in DOMAIN new /\ new[i - 1] = order[i]
    BY <1>2, SMT
  <2> QED
    BY <2>1 DEF Range
<1>6. Range(new) = DOMAIN Drop(cache, Head(order))
  BY <1>1, <1>4, <1>5 DEF Drop
<1>7. Drop(cache, Head(order)) = [i \in DOMAIN Drop(cache, Head(order)) |-> it[i]]
  BY <1>1 DEF Drop
<1> QED
  BY <1>2, <1>3, <1>6, <1>7 DEF QueueOK, new

\* The inode table with one inode replaced.
Row(it, id, ino) == [it EXCEPT ![id] = ino]

\* insert() keeps one slot per inode and the inodes of the image.
LEMMA CacheInsertOK ==
  ASSUME NEW it \in [Inodes -> InodeRecs], NEW m, CacheOK(m, it), NEW id \in Inodes, NEW ino
  PROVE  /\ CacheOK(CacheInsert(m, id, ino), Row(it, id, ino))
         /\ CacheInsert(m, id, ino).index = m.index
         /\ CacheInsert(m, id, ino).ihint = m.ihint
         /\ CacheInsert(m, id, ino).bhint = m.bhint
<1> DEFINE order == IF id \in DOMAIN m.cache THEN m.order ELSE Append(m.order, id)
           map == Put(m.cache, id, ino)
           it2 == Row(it, id, ino)
           r == CacheInsert(m, id, ino)
<1>1. QueueOK(map, order, it2)
  BY QueueAppend DEF CacheOK, Row
<1>2. Len(order) <= CacheCapacity + 1 /\ Len(order) \in Nat /\ CacheCapacity \in Nat
      /\ order \in Seq(Inodes)
  BY SizeAssumption, SMT DEF CacheOK, QueueOK
<1>3. m = [ihint |-> m.ihint, bhint |-> m.bhint, cache |-> m.cache,
           order |-> m.order, index |-> m.index]
  BY DEF CacheOK
<1>4. r = IF Len(order) > CacheCapacity
          THEN [m EXCEPT !.cache = Drop(map, Head(order)), !.order = Tail(order)]
          ELSE [m EXCEPT !.cache = map, !.order = order]
  BY DEF CacheInsert
<1> HIDE DEF order, map, it2, r
<1>5. CASE Len(order) > CacheCapacity
  <2>1. order # <<>>
    BY <1>2, <1>5, SMT
  <2>2. QueueOK(Drop(map, Head(order)), Tail(order), it2) /\ Len(Tail(order)) = Len(order) - 1
    BY <1>1, <2>1, QueueTail
  <2>3. Len(Tail(order)) <= CacheCapacity
    BY <1>2, <2>2, SMT
  <2>4. r = [ihint |-> m.ihint, bhint |-> m.bhint, cache |-> Drop(map, Head(order)),
             order |-> Tail(order), index |-> m.index]
    BY <1>3, <1>4, <1>5
  <2> QED
    BY <2>2, <2>3, <2>4, SMT DEF CacheOK, r, it2
<1>6. CASE ~(Len(order) > CacheCapacity)
  <2>1. r = [ihint |-> m.ihint, bhint |-> m.bhint, cache |-> map,
             order |-> order, index |-> m.index]
    BY <1>3, <1>4, <1>6
  <2>2. Len(order) <= CacheCapacity
    BY <1>2, <1>6, SMT
  <2> QED
    BY <1>1, <2>1, <2>2, SMT DEF CacheOK, r, it2
<1> QED
  BY <1>5, <1>6

\* remove() takes the one slot of an inode out of the queue.
LEMMA CacheRemoveOK ==
  ASSUME NEW it, NEW m, CacheOK(m, it), NEW id
  PROVE  /\ CacheOK(CacheRemove(m, id), it)
         /\ CacheRemove(m, id).index = m.index
         /\ CacheRemove(m, id).ihint = m.ihint
         /\ CacheRemove(m, id).bhint = m.bhint
<1> DEFINE order == m.order
           new == Unqueued(m.order, id)
<1>1. order \in Seq(Inodes) /\ (\A i, j \in DOMAIN order : order[i] = order[j] => i = j)
      /\ Range(order) = DOMAIN m.cache /\ (\A i \in DOMAIN m.cache : m.cache[i] = it[i])
      /\ Len(order) <= CacheCapacity /\ CacheCapacity \in Nat /\ Len(order) \in Nat
  BY SizeAssumption, SMT DEF CacheOK, QueueOK
<1>2. CacheRemove(m, id) = [ihint |-> m.ihint, bhint |-> m.bhint, cache |-> Drop(m.cache, id),
                            order |-> new, index |-> m.index]
  <2>1. m = [ihint |-> m.ihint, bhint |-> m.bhint, cache |-> m.cache,
             order |-> m.order, index |-> m.index]
    BY DEF CacheOK
  <2>2. CacheRemove(m, id) = [m EXCEPT !.cache = Drop(m.cache, id), !.order = new]
    BY DEF CacheRemove
  <2> HIDE DEF new
  <2> QED
    BY <2>1, <2>2
<1> HIDE DEF new, order
<1>4. /\ new \in Seq(Inodes) /\ Len(new) <= CacheCapacity
      /\ \A i, j \in DOMAIN new : new[i] = new[j] => i = j
      /\ Range(new) = Range(order) \ {id}
  <2>1. CASE id \notin Range(order)
    <3>1. new = order
      BY <2>1 DEF Unqueued, new, order
    <3> QED
      BY <1>1, <2>1, <3>1
  <2>2. CASE id \in Range(order)
    <3> DEFINE p == CHOOSE i \in DOMAIN order : order[i] = id
    <3>1. new = [k \in 1 .. Len(order) - 1 |-> order[IF k < p THEN k ELSE k + 1]]
      BY <2>2 DEF Unqueued, new, order
    <3>10. p \in DOMAIN order /\ order[p] = id
      BY <2>2 DEF Range
    <3> HIDE DEF p
    <3>2. DOMAIN order = 1 .. Len(order) /\ Len(order) - 1 \in Nat
      BY <1>1, <3>10, SMT
    <3>3. p \in 1 .. Len(order) /\ order[p] = id
      BY <3>2, <3>10
    <3>4. /\ new \in Seq(Inodes) /\ Len(new) = Len(order) - 1
          /\ \A i \in 1 .. Len(new) : new[i] = order[IF i < p THEN i ELSE i + 1]
      <4>1. \A k \in 1 .. Len(order) - 1 : order[IF k < p THEN k ELSE k + 1] \in Inodes
        BY <1>1, <3>2, <3>3, SMT
      <4> QED
        BY <3>1, <3>2, <4>1, SMT
    <3>5. DOMAIN new = 1 .. Len(order) - 1 /\ DOMAIN order = 1 .. Len(order)
      BY <1>1, <3>4, SMT
    <3>6. \A i, j \in DOMAIN new : new[i] = new[j] => i = j
      <4> SUFFICES ASSUME NEW i \in DOMAIN new, NEW j \in DOMAIN new, new[i] = new[j]
                   PROVE  i = j
        OBVIOUS
      <4> DEFINE u == IF i < p THEN i ELSE i + 1
                 v == IF j < p THEN j ELSE j + 1
      <4>1. /\ u \in DOMAIN order /\ v \in DOMAIN order
            /\ new[i] = order[u] /\ new[j] = order[v]
        BY <1>1, <3>3, <3>4, <3>5, SMT
      <4>2. u = v => i = j
        BY <3>3, <3>5, SMT
      <4> HIDE DEF u, v
      <4> QED
        BY <1>1, <4>1, <4>2
    <3>7. \A x \in Range(new) : x \in Range(order) /\ x # id
      <4> SUFFICES ASSUME NEW i \in DOMAIN new
                   PROVE  new[i] \in Range(order) /\ new[i] # id
        BY DEF Range
      <4> DEFINE j == IF i < p THEN i ELSE i + 1
      <4>1. j \in DOMAIN order /\ j # p /\ p \in DOMAIN order /\ new[i] = order[j]
        BY <1>1, <3>3, <3>4, <3>5, SMT
      <4> HIDE DEF j
      <4> QED
        BY <1>1, <3>3, <4>1 DEF Range
    <3>8. \A x \in Range(order) : x # id => x \in Range(new)
      <4> SUFFICES ASSUME NEW i \in DOMAIN order, order[i] # id
                   PROVE  order[i] \in Range(new)
        BY DEF Range
      <4>1. i < p => i \in DOMAIN new /\ new[i] = order[i]
        BY <1>1, <3>3, <3>4, <3>5, SMT
      <4>2. ~(i < p) => i - 1 \in DOMAIN new /\ new[i - 1] = order[i]
        BY <1>1, <3>3, <3>4, <3>5, SMT
      <4> QED
        BY <4>1, <4>2 DEF Range
    <3>9. Range(new) = Range(order) \ {id} /\ Len(new) <= CacheCapacity
      BY <1>1, <3>4, <3>7, <3>8, SMT
    <3> QED
      BY <3>4, <3>6, <3>9
  <2> QED
    BY <2>1, <2>2
<1>5. Range(new) = DOMAIN Drop(m.cache, id)
  BY <1>1, <1>4 DEF Drop
<1>6. Drop(m.cache, id) = [i \in DOMAIN Drop(m.cache, id) |-> it[i]]
  BY <1>1 DEF Drop
<1>7. QueueOK(Drop(m.cache, id), new, it)
  BY <1>4, <1>5, <1>6 DEF QueueOK
<1> QED
  BY <1>2, <1>4, <1>7, SMT DEF CacheOK

\* Reading an inode gives the one on disk, and loads it.
LEMMA LoadedOK ==
  ASSUME Typed, NEW m, CacheOK(m, disk.it), NEW id \in Inodes
  PROVE  /\ ReadInode(m, id) = disk.it[id]
         /\ CacheOK(Loaded(m, id), disk.it)
         /\ Loaded(m, id).index = m.index
<1>1. ReadInode(m, id) = disk.it[id]
  BY DEF ReadInode, CacheOK, QueueOK
<1>2. disk.it \in [Inodes -> InodeRecs] /\ Row(disk.it, id, disk.it[id]) = disk.it
  BY DEF Typed, Row
<1> QED
  BY <1>1, <1>2, CacheInsertOK, SMT DEF Loaded

(***************************************************************************)
(* Entries on disk                                                         *)
(***************************************************************************)

\* Answers(E, n, i): name  n  stands for inode  i  among the entries  E , or
\* is not among them.
Answers(E, n, i) ==
  \/ i = None /\ \A e \in E : PlainName(e.name) # n
  \/ \E e \in E : PlainName(e.name) = n /\ e.inode = i

\* An entry of a directory is in one of its blocks.
LEMMA EntryIn ==
  ASSUME NEW dk, NEW ino, NEW e
  PROVE  e \in EntriesIn(dk, ino) <=> \E b \in Range(ino.blocks) : e \in dk.blk[b]
BY DEF EntriesIn

\* locate_entry_in_dir finds an entry of the stored name, if there is one.
LEMMA LocateEntry ==
  ASSUME Typed, NEW ino \in InodeRecs, NEW k
  PROVE  LET r == LocateEntryInDir(disk, ino, k)
         IN  \/ /\ r.inode = None /\ r.block = None
                /\ \A e \in EntriesIn(disk, ino) : e.name # k
             \/ /\ r.inode \in Inodes /\ r.block \in Range(ino.blocks)
                /\ \E e \in disk.blk[r.block] : e.name = k /\ e.inode = r.inode
<1> DEFINE r == LocateEntryInDir(disk, ino, k)
           at == {i \in DOMAIN ino.blocks : \E e \in disk.blk[ino.blocks[i]] : e.name = k}
           block == ino.blocks[Min(at)]
           found == CHOOSE e \in disk.blk[block] : e.name = k
<1>1. ino.blocks \in Seq(Blocks) /\ disk.blk \in [Blocks -> SUBSET EntryRecs]
  BY DEF Typed, InodeRecs
<1>2. r = IF at = {} THEN [inode |-> None, block |-> None]
          ELSE [inode |-> found.inode, block |-> block]
  BY DEF LocateEntryInDir
<1>3. CASE at = {}
  <2>1. \A b \in Range(ino.blocks) : \A e \in disk.blk[b] : e.name # k
    BY <1>3 DEF Range
  <2>2. \A e \in EntriesIn(disk, ino) : e.name # k
    BY <2>1, EntryIn
  <2>3. r.inode = None /\ r.block = None
    BY <1>2, <1>3, SMT
  <2> QED
    BY <2>2, <2>3
<1>4. CASE at # {}
  <2>1. at \in SUBSET Nat
    BY <1>1, SMT
  <2>2. Min(at) \in at
    <3> HIDE DEF at
    <3> QED BY <1>4, <2>1, MinIs
  <2>3. block \in Range(ino.blocks) /\ block \in Blocks
        /\ \E e \in disk.blk[block] : e.name = k
    <3> DEFINE i == Min(at)
    <3>1. i \in DOMAIN ino.blocks /\ \E e \in disk.blk[ino.blocks[i]] : e.name = k
      BY <2>2
    <3> HIDE DEF i
    <3>2. ino.blocks[i] \in Range(ino.blocks) /\ ino.blocks[i] \in Blocks
      BY <1>1, <3>1, SMT DEF Range
    <3> QED
      BY <3>1, <3>2 DEF i
  <2> HIDE DEF block
  <2>4. found \in disk.blk[block] /\ found.name = k
    BY <2>3
  <2> HIDE DEF found
  <2>5. found.inode \in Inodes
    BY <1>1, <2>3, <2>4, SMT DEF EntryRecs
  <2>6. r.inode = found.inode /\ r.block = block
    BY <1>2, <1>4, SMT
  <2> HIDE DEF r
  <2> QED
    BY <2>3, <2>4, <2>5, <2>6 DEF r
<1> QED
  BY <1>3, <1>4

\* Every directory in use is an inode, and its entries are entries.
LEMMA LiveDir ==
  ASSUME Typed, NEW d \in LiveDirs
  PROVE  /\ d \in Inodes /\ disk.it[d] \in InodeRecs /\ disk.it[d].blocks \in Seq(Blocks)
         /\ Range(disk.it[d].blocks) \subseteq Blocks
         /\ disk.it[d].kind = "dir" /\ d \in disk.ib /\ d \notin lost.inodes
         /\ EntriesIn(disk, disk.it[d]) \subseteq EntryRecs
<1>1. d \in Inodes /\ disk.it[d] \in InodeRecs /\ disk.it[d].kind = "dir"
      /\ d \in disk.ib /\ d \notin lost.inodes
  BY DEF LiveDirs, Dirs, InUse, Typed
<1>2. disk.it[d].blocks \in Seq(Blocks)
  BY <1>1 DEF InodeRecs
<1>3. Range(disk.it[d].blocks) \subseteq Blocks
  BY <1>2, SMT DEF Range
<1>4. \A b \in Blocks : disk.blk[b] \subseteq EntryRecs
  BY DEF Typed
<1>5. EntriesIn(disk, disk.it[d]) \subseteq EntryRecs
  BY <1>3, <1>4, EntryIn
<1> QED
  BY <1>1, <1>2, <1>3, <1>5

\* What a stored name says of its plain name.
LEMMA StoredPlain ==
  ASSUME NEW d, NEW n
  PROVE  PlainName(StoredName(d, n)) = n /\ PlainName(Clear(n)) = n
BY DEF PlainName, StoredName, Enc, Clear

\* An entry of a directory is stored under its plain name, one way or the other.
LEMMA NameOfEntry ==
  ASSUME NEW d, DirOK(disk, d), NEW e \in EntriesIn(disk, disk.it[d])
  PROVE  /\ PlainName(e.name) \in Names
         /\ e.name \in {StoredName(d, PlainName(e.name)), Clear(PlainName(e.name))}
<1>1. PICK n \in Names : e.name = StoredName(d, n) \/ e.name = Clear(n)
  BY DEF DirOK
<1> QED
  BY <1>1, StoredPlain

\* Entries of one plain name are one entry.
LEMMA NameOnce ==
  ASSUME NEW d, DirOK(disk, d), NEW e \in EntriesIn(disk, disk.it[d]),
         NEW f \in EntriesIn(disk, disk.it[d]), PlainName(e.name) = PlainName(f.name)
  PROVE  e = f
<1>1. PICK b \in Range(disk.it[d].blocks) : e \in disk.blk[b]
  BY EntryIn
<1>2. PICK c \in Range(disk.it[d].blocks) : f \in disk.blk[c]
  BY EntryIn
<1> QED
  BY <1>1, <1>2 DEF DirOK

\* A name has one answer, an inode or none.
LEMMA OneAnswer ==
  ASSUME Typed, NEW d \in LiveDirs, DirOK(disk, d), NEW n, NEW i, NEW j,
         Answers(EntriesIn(disk, disk.it[d]), n, i), Answers(EntriesIn(disk, disk.it[d]), n, j)
  PROVE  i = j /\ i \in Inodes \cup {None}
<1>1. \A e \in EntriesIn(disk, disk.it[d]) : e.inode \in Inodes
  BY LiveDir DEF EntryRecs
<1> QED
  BY <1>1, NameOnce DEF Answers

\* The search through the blocks finds the entry of a name, if there is one.
LEMMA LocateAnyIs ==
  ASSUME Typed, NEW d \in LiveDirs, DirOK(disk, d), NEW n
  PROVE  LET r == LocateAny(disk, disk.it[d], d, n)
         IN  /\ Answers(EntriesIn(disk, disk.it[d]), n, r.inode)
             /\ r.name \in {StoredName(d, n), Clear(n)}
             /\ r.inode # None =>
                  /\ r.inode \in Inodes /\ r.block \in Range(disk.it[d].blocks)
                  /\ \E e \in disk.blk[r.block] : e.name = r.name /\ e.inode = r.inode
<1> DEFINE ino == disk.it[d]
           E == EntriesIn(disk, ino)
           first == LocateEntryInDir(disk, ino, StoredName(d, n))
           stored == IF first.inode # None THEN StoredName(d, n) ELSE Clear(n)
           x == LocateEntryInDir(disk, ino, stored)
           r == LocateAny(disk, ino, d, n)
<1>1. r.inode = x.inode /\ r.block = x.block /\ r.name = stored
  BY DEF LocateAny
<1>2. ino \in InodeRecs
  BY LiveDir
<1>3. \/ x.inode = None /\ \A e \in E : e.name # stored
      \/ /\ x.inode \in Inodes /\ x.block \in Range(ino.blocks)
         /\ \E e \in disk.blk[x.block] : e.name = stored /\ e.inode = x.inode
  <2> HIDE DEF ino, stored
  <2> QED
    BY <1>2, LocateEntry
<1>4. first.inode = None => \A e \in E : e.name # StoredName(d, n)
  <2> HIDE DEF ino
  <2> QED
    BY <1>2, LocateEntry, NoneIsNoId, SMT
<1>5. PlainName(stored) = n /\ stored \in {StoredName(d, n), Clear(n)}
  BY StoredPlain
<1>6. \A e \in E : PlainName(e.name) = n => e.name \in {StoredName(d, n), Clear(n)}
  BY NameOfEntry
<1>7. x.inode = None => \A e \in E : PlainName(e.name) # n
  <2> SUFFICES ASSUME x.inode = None, NEW e \in E, PlainName(e.name) = n PROVE FALSE
    OBVIOUS
  <2>1. e.name # stored
    BY <1>3, NoneIsNoId
  <2>2. first.inode = None
    BY NoneIsNoId
  <2>3. e.name # StoredName(d, n) /\ stored = Clear(n)
    BY <1>4, <2>2
  <2> QED
    BY <1>6, <2>1, <2>3
<1> HIDE DEF r, x, stored, first
<1>8. x.inode # None => \E e \in E : PlainName(e.name) = n /\ e.inode = x.inode
  BY <1>3, <1>5, EntryIn
<1>9. Answers(E, n, x.inode)
  BY <1>7, <1>8 DEF Answers
<1> QED
  BY <1>1, <1>3, <1>5, <1>9 DEF r

(***************************************************************************)
(* Directory indexes                                                       *)
(***************************************************************************)

\* An index record with other fields.
LEMMA IndexRecord ==
  ASSUME NEW ix, ix = [complete |-> ix.complete, scans |-> ix.scans,
                       stored |-> ix.stored, plain |-> ix.plain],
         NEW s, NEW p
  PROVE  [ix EXCEPT !.complete = TRUE, !.stored = s, !.plain = p]
           = [complete |-> TRUE, scans |-> ix.scans, stored |-> s, plain |-> p]
<1> DEFINE new == [ix EXCEPT !.complete = TRUE, !.stored = s, !.plain = p]
<1>1. DOMAIN ix = {"complete", "scans", "stored", "plain"}
  OBVIOUS
<1>2. new = [f \in {"complete", "scans", "stored", "plain"} |->
               IF f = "complete" THEN TRUE ELSE IF f = "stored" THEN s
               ELSE IF f = "plain" THEN p ELSE ix[f]]
  BY <1>1
<1> HIDE DEF new
<1>3. new = [complete |-> TRUE, scans |-> ix.scans, stored |-> s, plain |-> p]
  BY <1>2
<1> QED
  BY <1>3 DEF new

\* An index record that has been built.
LEMMA IndexRecordBuilt ==
  ASSUME NEW ix, ix = [complete |-> ix.complete, scans |-> ix.scans,
                       stored |-> ix.stored, plain |-> ix.plain],
         NEW s
  PROVE  [ix EXCEPT !.stored = s, !.complete = TRUE]
           = [complete |-> TRUE, scans |-> ix.scans, stored |-> s, plain |-> ix.plain]
<1> DEFINE new == [ix EXCEPT !.stored = s, !.complete = TRUE]
<1>1. DOMAIN ix = {"complete", "scans", "stored", "plain"}
  OBVIOUS
<1>2. new = [f \in {"complete", "scans", "stored", "plain"} |->
               IF f = "complete" THEN TRUE ELSE IF f = "stored" THEN s ELSE ix[f]]
  BY <1>1
<1> HIDE DEF new
<1>3. new = [complete |-> TRUE, scans |-> ix.scans, stored |-> s, plain |-> ix.plain]
  BY <1>2
<1> QED
  BY <1>3 DEF new

\* An index that gets one more name, that of an entry.
LEMMA IndexStored ==
  ASSUME NEW E, NEW ix, IndexOK(ix, E), NEW e \in E
  PROVE  IndexOK([ix EXCEPT !.stored = Put(@, e.name, e.inode)], E)
<1> DEFINE new == [ix EXCEPT !.stored = Put(@, e.name, e.inode)]
           map == Put(ix.stored, e.name, e.inode)
<1>1. ix = [complete |-> ix.complete, scans |-> ix.scans,
            stored |-> ix.stored, plain |-> ix.plain]
  BY DEF IndexOK
<1>2. new = [complete |-> ix.complete, scans |-> ix.scans, stored |-> map, plain |-> ix.plain]
  <2> HIDE DEF map
  <2>1. new = [ix EXCEPT !.stored = map]
    BY DEF map
  <2> HIDE DEF new
  <2> QED
    BY <1>1, <2>1
<1>3. DOMAIN map = DOMAIN ix.stored \cup {e.name}
      /\ \A k \in DOMAIN map : map[k] = IF k = e.name THEN e.inode ELSE ix.stored[k]
  BY DEF Put
<1> HIDE DEF new, map
<1>4. \A k \in DOMAIN map : \E f \in E : f.name = k /\ f.inode = map[k]
  BY <1>3, SMT DEF IndexOK
<1> QED
  BY <1>2, <1>3, <1>4, SMT DEF IndexOK, new

\* The same for a plain name.
LEMMA IndexPlain ==
  ASSUME NEW E, NEW ix, IndexOK(ix, E), NEW n, NEW i,
         \E e \in E : PlainName(e.name) = n /\ e.inode = i
  PROVE  IndexOK([ix EXCEPT !.plain = Put(@, n, i)], E)
<1> DEFINE new == [ix EXCEPT !.plain = Put(@, n, i)]
           map == Put(ix.plain, n, i)
<1>1. ix = [complete |-> ix.complete, scans |-> ix.scans,
            stored |-> ix.stored, plain |-> ix.plain]
  BY DEF IndexOK
<1>2. new = [complete |-> ix.complete, scans |-> ix.scans, stored |-> ix.stored, plain |-> map]
  <2> HIDE DEF map
  <2>1. new = [ix EXCEPT !.plain = map]
    BY DEF map
  <2> HIDE DEF new
  <2> QED
    BY <1>1, <2>1
<1>3. DOMAIN map = DOMAIN ix.plain \cup {n}
      /\ \A k \in DOMAIN map : map[k] = IF k = n THEN i ELSE ix.plain[k]
  BY DEF Put
<1> HIDE DEF new, map
<1>4. encrypted => \A k \in DOMAIN map : \E e \in E : PlainName(e.name) = k /\ e.inode = map[k]
  BY <1>3 DEF IndexOK
<1> QED
  BY <1>2, <1>4, SMT DEF IndexOK, new

\* build_dir_index holds exactly the entries of the directory.
LEMMA BuildDirIndexIs ==
  ASSUME Typed, NEW d \in LiveDirs
  PROVE  LET B == BuildDirIndex(disk, disk.it[d])
             E == EntriesIn(disk, disk.it[d])
         IN  /\ \A k \in DOMAIN B : \E e \in E : e.name = k /\ e.inode = B[k]
             /\ \A e \in E : e.name \in DOMAIN B
<1> DEFINE ino == disk.it[d]
           E == EntriesIn(disk, ino)
           B == BuildDirIndex(disk, ino)
<1>1. DOMAIN B = {e.name : e \in E} /\ \A k \in DOMAIN B : B[k] = LocateEntryInDir(disk, ino, k).inode
  BY DEF BuildDirIndex
<1>2. ino \in InodeRecs
  BY LiveDir
<1> HIDE DEF B, ino
<1>3. ASSUME NEW k \in DOMAIN B
      PROVE  \E e \in E : e.name = k /\ e.inode = B[k]
  <2>1. ~ \A e \in E : e.name # k
    BY <1>1
  <2>2. PICK b \in Range(ino.blocks) : \E e \in disk.blk[b] :
          e.name = k /\ e.inode = LocateEntryInDir(disk, ino, k).inode
    BY <1>2, <2>1, LocateEntry
  <2> QED
    BY <1>1, <2>2, EntryIn
<1> QED
  BY <1>1, <1>3 DEF B, ino

\* The index of a directory in use, also when it has none.
LEMMA IndexOfOK ==
  ASSUME NEW m, IndexesOK(m.index, disk, LiveDirs), NEW d
  PROVE  IndexOK(IndexOf(m, d), EntriesIn(disk, disk.it[d]))
<1>1. IndexOK(NoIndex, EntriesIn(disk, disk.it[d]))
  BY SMT DEF IndexOK, NoIndex
<1> QED
  BY <1>1 DEF IndexesOK, IndexOf

\* A directory in use gets an index.
LEMMA IndexPut ==
  ASSUME NEW index, NEW dk, NEW live, IndexesOK(index, dk, live),
         NEW d \in live, NEW ix, IndexOK(ix, EntriesIn(dk, dk.it[d]))
  PROVE  IndexesOK(Put(index, d, ix), dk, live)
<1> DEFINE new == Put(index, d, ix)
<1>1. new = [x \in DOMAIN index \cup {d} |-> IF x = d THEN ix ELSE index[x]]
  BY DEF Put
<1>2. DOMAIN new = DOMAIN index \cup {d} /\ \A x \in DOMAIN new : new[x] = IF x = d THEN ix ELSE index[x]
  BY <1>1
<1>3. new = [x \in DOMAIN new |-> new[x]]
  BY <1>1
<1> HIDE DEF new
<1>4. DOMAIN new \subseteq live
  BY <1>2 DEF IndexesOK
<1>5. \A x \in DOMAIN new : IndexOK(new[x], EntriesIn(dk, dk.it[x]))
  BY <1>2 DEF IndexesOK
<1> QED
  BY <1>3, <1>4, <1>5 DEF IndexesOK, new

\* Memory that keeps its cache and gets another index.
LEMMA MemIndex ==
  ASSUME NEW m, NEW it, CacheOK(m, it), NEW index
  PROVE  /\ CacheOK([m EXCEPT !.index = index], it)
         /\ [m EXCEPT !.index = index].index = index
<1> DEFINE new == [m EXCEPT !.index = index]
<1>1. m = [ihint |-> m.ihint, bhint |-> m.bhint, cache |-> m.cache,
           order |-> m.order, index |-> m.index]
  BY DEF CacheOK
<1>2. new = [ihint |-> m.ihint, bhint |-> m.bhint, cache |-> m.cache,
             order |-> m.order, index |-> index]
  BY <1>1, SMT
<1> HIDE DEF new
<1> QED
  BY <1>2 DEF CacheOK, new

\* dir_lookup answers what the blocks hold, and leaves sound caches.
LEMMA DirLookupOK ==
  ASSUME Typed, NEW d \in LiveDirs, DirOK(disk, d), NEW n \in Names,
         NEW m, CacheOK(m, disk.it), IndexesOK(m.index, disk, LiveDirs)
  PROVE  LET r == DirLookup(m, d, n)
         IN  /\ Answers(EntriesIn(disk, disk.it[d]), n, r.inode)
             /\ CacheOK(r.mem, disk.it) /\ IndexesOK(r.mem.index, disk, LiveDirs)
<1> DEFINE E == EntriesIn(disk, disk.it[d])
           ix == IndexOf(m, d)
           hit == NameKey(n) \in DOMAIN NameMap(ix)
           ino == ReadInode(m, d)
           fromIndex == IF StoredName(d, n) \in DOMAIN ix.stored THEN ix.stored[StoredName(d, n)]
                        ELSE IF Clear(n) \in DOMAIN ix.stored THEN ix.stored[Clear(n)]
                        ELSE None
           found == IF ix.complete THEN fromIndex ELSE LocateAny(disk, ino, d, n).inode
           scanned == IF ix.complete THEN ix
                      ELSE [ix EXCEPT !.scans = Min({@ + 1, ColdScans})]
           built == IF ~ix.complete /\ (found = None \/ scanned.scans >= ColdScans)
                    THEN [scanned EXCEPT !.stored = BuildDirIndex(disk, ino), !.complete = TRUE]
                    ELSE scanned
           noted == IF found = None THEN built
                    ELSE IF encrypted THEN [built EXCEPT !.plain = Put(@, n, found)]
                    ELSE [built EXCEPT !.stored = Put(@, Clear(n), found)]
           r == DirLookup(m, d, n)
<1>r. r = IF hit THEN [inode |-> NameMap(ix)[NameKey(n)], mem |-> m]
          ELSE IF ix.complete /\ ~encrypted THEN [inode |-> None, mem |-> m]
          ELSE IF ino.kind # "dir" THEN [inode |-> None, mem |-> Loaded(m, d)]
          ELSE [inode |-> found, mem |-> [Loaded(m, d) EXCEPT !.index = Put(@, d, noted)]]
  BY DEF DirLookup
<1>1. d \in Inodes /\ ino = disk.it[d] /\ ino.kind = "dir"
      /\ CacheOK(Loaded(m, d), disk.it) /\ Loaded(m, d).index = m.index
  BY LiveDir, LoadedOK, SMT
<1>2. IndexOK(ix, E)
  BY IndexOfOK
<1>3. \A e \in E : PlainName(e.name) = n => e.name \in {StoredName(d, n), Clear(n)}
  BY NameOfEntry
<1>4. ~encrypted => StoredName(d, n) = Clear(n)
  BY DEF StoredName
<1> HIDE DEF E, ix, ino, r
<1>5. hit => \E e \in E : PlainName(e.name) = n /\ e.inode = NameMap(ix)[NameKey(n)]
  BY <1>2, StoredPlain, SMT DEF IndexOK, NameMap, NameKey
<1>6. ix.complete => Answers(E, n, fromIndex)
  <2> SUFFICES ASSUME ix.complete PROVE Answers(E, n, fromIndex)
    OBVIOUS
  <2>1. CASE StoredName(d, n) \in DOMAIN ix.stored
    BY <1>2, <2>1, StoredPlain, SMT DEF IndexOK, Answers
  <2>2. CASE StoredName(d, n) \notin DOMAIN ix.stored /\ Clear(n) \in DOMAIN ix.stored
    BY <1>2, <2>2, StoredPlain, SMT DEF IndexOK, Answers
  <2>3. CASE StoredName(d, n) \notin DOMAIN ix.stored /\ Clear(n) \notin DOMAIN ix.stored
    BY <1>2, <1>3, <2>3, SMT DEF IndexOK, Answers
  <2> QED
    BY <2>1, <2>2, <2>3
<1>7. Answers(E, n, LocateAny(disk, ino, d, n).inode)
  BY <1>1, LocateAnyIs DEF E
<1>8. Answers(E, n, found)
  BY <1>6, <1>7
<1> HIDE DEF found, fromIndex
<1>9. CASE hit
  <2>1. r.inode = NameMap(ix)[NameKey(n)] /\ r.mem = m
    BY <1>r, <1>9
  <2> QED
    BY <1>5, <1>9, <2>1 DEF Answers, r, E
<1>10. CASE ~hit /\ ix.complete /\ ~encrypted
  <2>1. r.inode = None /\ r.mem = m
    BY <1>r, <1>10
  <2>2. Clear(n) \notin DOMAIN ix.stored
    BY <1>10 DEF NameMap, NameKey
  <2>3. Answers(E, n, None)
    BY <1>2, <1>3, <1>4, <1>10, <2>2, SMT DEF IndexOK, Answers
  <2> QED
    BY <2>1, <2>3 DEF r, E
<1>11. CASE ~hit /\ ~(ix.complete /\ ~encrypted)
  <2>1. r.inode = found /\ r.mem = [Loaded(m, d) EXCEPT !.index = Put(m.index, d, noted)]
    <3>1. r = [inode |-> found, mem |-> [Loaded(m, d) EXCEPT !.index = Put(@, d, noted)]]
      BY <1>r, <1>1, <1>11
    <3> HIDE DEF noted
    <3> QED
      BY <1>1, <3>1
  <2>2. IndexOK(scanned, E)
    BY <1>2 DEF IndexOK
  <2>3. IndexOK(built, E)
    <3> DEFINE B == BuildDirIndex(disk, ino)
    <3>1. (\A k \in DOMAIN B : \E e \in E : e.name = k /\ e.inode = B[k])
          /\ \A e \in E : e.name \in DOMAIN B
      BY <1>1, BuildDirIndexIs DEF E
    <3> HIDE DEF scanned, B
    <3>2. IndexOK([scanned EXCEPT !.stored = B, !.complete = TRUE], E)
      <4> DEFINE new == [scanned EXCEPT !.stored = B, !.complete = TRUE]
      <4>1. new = [complete |-> TRUE, scans |-> scanned.scans, stored |-> B, plain |-> scanned.plain]
        <5>1. scanned = [complete |-> scanned.complete, scans |-> scanned.scans,
                         stored |-> scanned.stored, plain |-> scanned.plain]
          BY <2>2 DEF IndexOK
        <5> QED
          BY <5>1, IndexRecordBuilt
      <4> HIDE DEF new
      <4> QED
        BY <2>2, <3>1, <4>1 DEF IndexOK, new
    <3> QED
      BY <2>2, <3>2 DEF B
  <2> HIDE DEF built
  <2>4. IndexOK(noted, E)
    <3>1. CASE found = None
      BY <2>3, <3>1
    <3>2. CASE found # None
      <4>1. PICK e \in E : PlainName(e.name) = n /\ e.inode = found
        BY <1>8, <3>2 DEF Answers
      <4>2. ~encrypted => e.name = Clear(n)
        BY <1>3, <1>4, <4>1
      <4>3. IndexOK([built EXCEPT !.plain = Put(@, n, found)], E)
        BY <2>3, <4>1, IndexPlain
      <4>4. ~encrypted => IndexOK([built EXCEPT !.stored = Put(@, Clear(n), found)], E)
        BY <2>3, <4>1, <4>2, IndexStored
      <4> QED
        BY <3>2, <4>3, <4>4
    <3> QED
      BY <3>1, <3>2
  <2> HIDE DEF noted
  <2>5. IndexesOK(Put(m.index, d, noted), disk, LiveDirs)
    BY <2>4, IndexPut DEF E
  <2>6. CacheOK(r.mem, disk.it) /\ r.mem.index = Put(m.index, d, noted)
    <3> DEFINE l == Loaded(m, d)
               p == Put(m.index, d, noted)
    <3>1. CacheOK(l, disk.it) /\ r.mem = [l EXCEPT !.index = p]
      BY <1>1, <2>1
    <3> HIDE DEF l, p
    <3>2. CacheOK(r.mem, disk.it) /\ r.mem.index = p
      BY <3>1, MemIndex, SMT
    <3> QED
      BY <3>2 DEF p
  <2> QED
    BY <1>8, <2>1, <2>5, <2>6 DEF r, E
<1> QED
  BY <1>9, <1>10, <1>11

\* An index that list_dir answers from has the plain name of every entry.
PlainKnown(m, d) ==
  LET ix == IndexOf(m, d)
  IN  encrypted /\ ix.complete /\ Cardinality(DOMAIN ix.plain) = Cardinality(DOMAIN ix.stored)
        => \A e \in EntriesIn(disk, disk.it[d]) : PlainName(e.name) \in DOMAIN ix.plain

\* list_dir leaves sound caches and answers what the blocks hold, if an index
\* with as many plain names as stored ones has all of them: see PlainCovers.
LEMMA ListDirOK ==
  ASSUME Typed, NEW d \in LiveDirs, DirOK(disk, d),
         NEW m, CacheOK(m, disk.it), IndexesOK(m.index, disk, LiveDirs)
  PROVE  LET r == ListDir(m, d)
         IN  /\ CacheOK(r.mem, disk.it) /\ IndexesOK(r.mem.index, disk, LiveDirs)
             /\ PlainKnown(m, d) =>
                  r.entries = {<<PlainName(e.name), e.inode>> : e \in EntriesIn(disk, disk.it[d])}
<1> DEFINE ix == IndexOf(m, d)
           ino == ReadInode(m, d)
           E == EntriesIn(disk, ino)
           cached == ix.complete /\ (encrypted =>
                       Cardinality(DOMAIN ix.plain) = Cardinality(DOMAIN ix.stored))
           storedAt(k) == {i \in DOMAIN ino.blocks :
                             \E e \in disk.blk[ino.blocks[i]] : e.name = k}
           plainAt(k) == {i \in DOMAIN ino.blocks :
                            \E e \in disk.blk[ino.blocks[i]] : PlainName(e.name) = k}
           LastStored(k) ==
             (CHOOSE e \in disk.blk[ino.blocks[Max(storedAt(k))]] : e.name = k).inode
           LastPlain(k) ==
             (CHOOSE e \in disk.blk[ino.blocks[Max(plainAt(k))]] : PlainName(e.name) = k).inode
           storedMap == [k \in {e.name : e \in E} |-> LastStored(k)]
           plainMap == [k \in {PlainName(e.name) : e \in E} |-> LastPlain(k)]
           filled == [ix EXCEPT !.complete = TRUE, !.stored = storedMap,
                                !.plain = IF encrypted THEN plainMap ELSE @]
           r == ListDir(m, d)
<1>r. r = IF cached
          THEN [entries |-> IF encrypted THEN {<<k, ix.plain[k]>> : k \in DOMAIN ix.plain}
                            ELSE {<<PlainName(k), ix.stored[k]>> : k \in DOMAIN ix.stored},
                mem |-> Loaded(m, d)]
          ELSE [entries |-> {<<PlainName(e.name), e.inode>> : e \in E},
                mem |-> [Loaded(m, d) EXCEPT !.index = Put(@, d, filled)]]
  BY DEF ListDir
<1>1. d \in Inodes /\ ino = disk.it[d] /\ ino.blocks \in Seq(Blocks)
      /\ CacheOK(Loaded(m, d), disk.it) /\ Loaded(m, d).index = m.index
  BY LiveDir, LoadedOK
<1>2. IndexOK(ix, E)
  BY <1>1, IndexOfOK
<1>3. \A e, f \in E : PlainName(e.name) = PlainName(f.name) => e = f
  BY <1>1, NameOnce
<1>4. \A e \in E : \E i \in DOMAIN ino.blocks : e \in disk.blk[ino.blocks[i]]
  BY EntryIn, SMT DEF Range
<1>5. \A i \in DOMAIN ino.blocks : \A e \in disk.blk[ino.blocks[i]] : e \in E
  BY EntryIn DEF Range
<1>6. Len(ino.blocks) \in Nat /\ DOMAIN ino.blocks = 1 .. Len(ino.blocks)
  BY <1>1, SMT
<1> HIDE DEF ix, ino, E, r
<1>7. \A k \in {e.name : e \in E} : \E e \in E : e.name = k /\ e.inode = LastStored(k)
  <2> SUFFICES ASSUME NEW k \in {e.name : e \in E}
               PROVE  \E e \in E : e.name = k /\ e.inode = LastStored(k)
    OBVIOUS
  <2>1. storedAt(k) \in SUBSET (1 .. Len(ino.blocks)) /\ storedAt(k) # {}
    BY <1>4, <1>6
  <2> DEFINE p == Max(storedAt(k))
  <2>2. p \in storedAt(k)
    <3> HIDE DEF storedAt
    <3> QED
      BY <1>6, <2>1, MaxIs
  <2>3. p \in DOMAIN ino.blocks /\ \E e \in disk.blk[ino.blocks[p]] : e.name = k
    BY <2>2
  <2> HIDE DEF p
  <2> DEFINE c == CHOOSE e \in disk.blk[ino.blocks[p]] : e.name = k
  <2>4. c \in disk.blk[ino.blocks[p]] /\ c.name = k
    BY <2>3
  <2>5. LastStored(k) = c.inode
    BY DEF p
  <2> HIDE DEF c
  <2> QED
    BY <1>5, <2>3, <2>4, <2>5
<1>8. \A k \in {PlainName(e.name) : e \in E} :
        \E e \in E : PlainName(e.name) = k /\ e.inode = LastPlain(k)
  <2> SUFFICES ASSUME NEW k \in {PlainName(e.name) : e \in E}
               PROVE  \E e \in E : PlainName(e.name) = k /\ e.inode = LastPlain(k)
    OBVIOUS
  <2>1. plainAt(k) \in SUBSET (1 .. Len(ino.blocks)) /\ plainAt(k) # {}
    BY <1>4, <1>6
  <2> DEFINE p == Max(plainAt(k))
  <2>2. p \in plainAt(k)
    <3> HIDE DEF plainAt
    <3> QED
      BY <1>6, <2>1, MaxIs
  <2>3. p \in DOMAIN ino.blocks /\ \E e \in disk.blk[ino.blocks[p]] : PlainName(e.name) = k
    BY <2>2
  <2> HIDE DEF p
  <2> DEFINE c == CHOOSE e \in disk.blk[ino.blocks[p]] : PlainName(e.name) = k
  <2>4. c \in disk.blk[ino.blocks[p]] /\ PlainName(c.name) = k
    BY <2>3
  <2>5. LastPlain(k) = c.inode
    BY DEF p
  <2> HIDE DEF c
  <2> QED
    BY <1>5, <2>3, <2>4, <2>5
<1> HIDE DEF LastStored, LastPlain
<1>9. CASE cached /\ encrypted
  <2> DEFINE known == \A e \in E : PlainName(e.name) \in DOMAIN ix.plain
  <2>1. r.entries = {<<k, ix.plain[k]>> : k \in DOMAIN ix.plain} /\ r.mem = Loaded(m, d)
    BY <1>r, <1>9
  <2>2. PlainKnown(m, d) => known
    BY <1>1, <1>9 DEF PlainKnown, E, ix
  <2>3. \A k \in DOMAIN ix.plain : \E e \in E : PlainName(e.name) = k /\ e.inode = ix.plain[k]
    BY <1>2, <1>9 DEF IndexOK
  <2>4. known => \A e \in E : ix.plain[PlainName(e.name)] = e.inode
    BY <1>3, <2>3
  <2>5. known => {<<k, ix.plain[k]>> : k \in DOMAIN ix.plain}
                   = {<<PlainName(e.name), e.inode>> : e \in E}
    BY <2>3, <2>4
  <2> QED
    BY <1>1, <2>1, <2>2, <2>5 DEF r, E
<1>10. CASE cached /\ ~encrypted
  <2>1. r.entries = {<<PlainName(k), ix.stored[k]>> : k \in DOMAIN ix.stored}
        /\ r.mem = Loaded(m, d)
    BY <1>r, <1>10
  <2>2. (\A e \in E : e.name \in DOMAIN ix.stored)
        /\ \A k \in DOMAIN ix.stored : \E e \in E : e.name = k /\ e.inode = ix.stored[k]
    BY <1>2, <1>10 DEF IndexOK
  <2>3. \A e \in E : ix.stored[e.name] = e.inode
    BY <1>3, <2>2
  <2>4. {<<PlainName(k), ix.stored[k]>> : k \in DOMAIN ix.stored}
          = {<<PlainName(e.name), e.inode>> : e \in E}
    BY <2>2, <2>3
  <2> QED
    BY <1>1, <2>1, <2>4 DEF r, E
<1>11. CASE ~cached
  <2>1. r.entries = {<<PlainName(e.name), e.inode>> : e \in E}
        /\ r.mem = [Loaded(m, d) EXCEPT !.index = Put(m.index, d, filled)]
    <3>1. r = [entries |-> {<<PlainName(e.name), e.inode>> : e \in E},
               mem |-> [Loaded(m, d) EXCEPT !.index = Put(@, d, filled)]]
      BY <1>r, <1>11
    <3> HIDE DEF filled
    <3> QED
      BY <1>1, <3>1
  <2>2. IndexOK(filled, E)
    <3>1. ix = [complete |-> ix.complete, scans |-> ix.scans,
                stored |-> ix.stored, plain |-> ix.plain]
      BY <1>2 DEF IndexOK
    <3>2. \A k \in DOMAIN storedMap : \E e \in E : e.name = k /\ e.inode = storedMap[k]
      BY <1>7
    <3>3. \A e \in E : e.name \in DOMAIN storedMap
      OBVIOUS
    <3>4. \A k \in DOMAIN plainMap : \E e \in E : PlainName(e.name) = k /\ e.inode = plainMap[k]
      BY <1>8
    <3> HIDE DEF storedMap, plainMap
    <3>5. filled = [complete |-> TRUE, scans |-> ix.scans, stored |-> storedMap,
                    plain |-> IF encrypted THEN plainMap ELSE ix.plain]
      <4> DEFINE p == IF encrypted THEN plainMap ELSE ix.plain
      <4>1. filled = [ix EXCEPT !.complete = TRUE, !.stored = storedMap, !.plain = p]
        OBVIOUS
      <4> HIDE DEF filled, p
      <4>2. filled = [complete |-> TRUE, scans |-> ix.scans, stored |-> storedMap, plain |-> p]
        BY <3>1, <4>1, IndexRecord
      <4> QED
        BY <4>2 DEF p
    <3> HIDE DEF filled
    <3> QED
      BY <3>2, <3>3, <3>4, <3>5 DEF IndexOK
  <2> HIDE DEF filled
  <2>3. IndexesOK(Put(m.index, d, filled), disk, LiveDirs)
    BY <1>1, <2>2, IndexPut DEF E
  <2>4. CacheOK(r.mem, disk.it) /\ r.mem.index = Put(m.index, d, filled)
    <3> DEFINE l == Loaded(m, d)
               p == Put(m.index, d, filled)
    <3>1. CacheOK(l, disk.it) /\ r.mem = [l EXCEPT !.index = p]
      BY <1>1, <2>1
    <3> HIDE DEF l, p
    <3>2. CacheOK(r.mem, disk.it) /\ r.mem.index = p
      BY <3>1, MemIndex, SMT
    <3> QED
      BY <3>2 DEF p
  <2> QED
    BY <1>1, <2>1, <2>3, <2>4 DEF r, E
<1> QED
  BY <1>9, <1>10, <1>11

(***************************************************************************)
(* Steps beside the tree                                                   *)
(***************************************************************************)

\* The links are read from the entries of the directories in use.
LinksOf(dk, live) ==
  UNION {{<<d, PlainName(e.name), e.inode>> : e \in EntriesIn(dk, dk.it[d])} : d \in live}

\* A link is an entry of a directory in use.
LEMMA LinkIs ==
  ASSUME NEW dk, NEW live, NEW m
  PROVE  m \in LinksOf(dk, live) <=>
           \E d \in live : \E e \in EntriesIn(dk, dk.it[d]) :
              m = <<d, PlainName(e.name), e.inode>>
<1> DEFINE L(d) == {<<d, PlainName(e.name), e.inode>> : e \in EntriesIn(dk, dk.it[d])}
<1>1. m \in LinksOf(dk, live) <=> \E d \in live : m \in L(d)
  BY DEF LinksOf
<1>2. \A d : m \in L(d) <=> \E e \in EntriesIn(dk, dk.it[d]) :
                               m = <<d, PlainName(e.name), e.inode>>
  OBVIOUS
<1> QED
  BY <1>1, <1>2

\* The mapped links, now and after a step.
LEMMA LinksAre == Links = LinksOf(disk, LiveDirs) /\ Links' = LinksOf(disk', LiveDirs')
BY DEF Links, LinksOf

\* Directories with the same blocks, and the same entries in them.
LEMMA SameEntries ==
  ASSUME NEW dk, NEW ek, NEW d, ek.it[d] = dk.it[d],
         \A b \in Range(dk.it[d].blocks) : ek.blk[b] = dk.blk[b]
  PROVE  /\ EntriesIn(ek, ek.it[d]) = EntriesIn(dk, dk.it[d])
         /\ DirOK(dk, d) => DirOK(ek, d)
<1>1. EntriesIn(ek, ek.it[d]) = EntriesIn(dk, dk.it[d])
  BY DEF EntriesIn
<1>2. DirOK(dk, d) =>
        \A b, c \in Range(ek.it[d].blocks) : \A e \in ek.blk[b], f \in ek.blk[c] :
          PlainName(e.name) = PlainName(f.name) => b = c /\ e = f
  BY SMT DEF DirOK
<1> QED
  BY <1>1, <1>2 DEF DirOK

\* An unchanged mode reads directories and indexes as before.
LEMMA SameMode ==
  ASSUME encrypted' = encrypted
  PROVE  /\ \A d \in LiveDirs' : DirOK(disk', d) => (DirOK(disk, d))'
         /\ IndexesOK(mem'.index, disk', LiveDirs') => IndexesOK(mem.index, disk, LiveDirs)'
<1>1. \A d \in LiveDirs' : DirOK(disk', d) => (DirOK(disk, d))'
  BY DEF DirOK, StoredName
<1>3. \A d : IndexOK(mem'.index[d], EntriesIn(disk', disk'.it[d])) =>
               IndexOK(mem.index[d], EntriesIn(disk, disk.it[d]))'
  BY DEF IndexOK
<1>4. IndexesOK(mem'.index, disk', LiveDirs') => IndexesOK(mem.index, disk, LiveDirs)'
  BY <1>3 DEF IndexesOK
<1> QED
  BY <1>1, <1>4

\* A step that changes no directory in use and no block of one.
LEMMA Aside ==
  ASSUME IInv, encrypted' = encrypted, Typed', CallsOK', BlocksOwned',
         CacheOK(mem', disk'.it), IndexesOK(mem'.index, disk, LiveDirs),
         InUse' = InUse, LiveDirs' = LiveDirs,
         \A d \in LiveDirs : /\ disk'.it[d] = disk.it[d]
                             /\ \A b \in Range(disk.it[d].blocks) : disk'.blk[b] = disk.blk[b]
  PROVE  IInv' /\ UNCHANGED <<Links, InUse, LiveDirs>>
<1>1. \A d \in LiveDirs : /\ EntriesIn(disk', disk'.it[d]) = EntriesIn(disk, disk.it[d])
                          /\ DirOK(disk', d)
  BY SameEntries DEF IInv
<1>2. \A d \in LiveDirs' : (DirOK(disk, d))'
  BY <1>1, SameMode
<1>3. Links' = Links
  <2>1. LinksOf(disk', LiveDirs') = LinksOf(disk, LiveDirs)
    <3>1. \A m : m \in LinksOf(disk', LiveDirs') <=> m \in LinksOf(disk, LiveDirs)
      BY <1>1, LinkIs, SMT
    <3> QED
      BY <3>1
  <2> QED
    BY <2>1, LinksAre
<1>4. TreeInv'
  BY <1>3 DEF IInv, TreeInv, Tree!TypeOK, Tree!WellFormed
<1>5. IndexesOK(mem'.index, disk', LiveDirs')
  BY <1>1 DEF IndexesOK
<1>6. MemOK'
  BY <1>5, SameMode DEF MemOK, CacheOK, QueueOK
<1> QED
  BY <1>2, <1>3, <1>4, <1>6 DEF IInv

(***************************************************************************)
(* The initial states                                                      *)
(***************************************************************************)

\* A link leads downwards: some numbering of the inodes grows along each.
Acyclic == \E depth \in [Inodes -> Nat] : \A m \in Links : depth[m[1]] < depth[m[3]]

\* A formatted image satisfies the invariant, and is a tree.
LEMMA InitInv == ASSUME Init PROVE IInv /\ Acyclic
<1> DEFINE legacy == IF encrypted THEN LegacyNames ELSE {}
           first == Min(Blocks)
<1>1. PICK id \in Injection(legacy, Inodes \ {Root}) :
        disk = [ib  |-> {Root} \cup Range(id), db |-> {first},
                it  |-> [i \in Inodes |-> IF i = Root THEN Inode("dir", <<first>>)
                                          ELSE Inode("file", <<>>)],
                blk |-> [b \in Blocks |-> IF b # first THEN {}
                                          ELSE {Entry(Clear(n), id[n]) : n \in legacy}]]
  BY DEF Init
<1>2. /\ mem = [ihint |-> 0, bhint |-> 0, cache |-> <<>>, order |-> <<>>, index |-> <<>>]
      /\ call = [t \in Threads |-> Idle] /\ steps = 0
      /\ lost = [inodes |-> {}, blocks |-> {}]
      /\ journaled \in BOOLEAN /\ encrypted \in BOOLEAN
  BY ModesAssumption DEF Init
<1>3. first \in Blocks
  BY SizeAssumption, MinIs
<1>4. legacy \subseteq Names
  BY NamesAssumption
<1>5. id \in [legacy -> Inodes \ {Root}] /\ \A m, n \in legacy : id[m] = id[n] => m = n
  <2> HIDE DEF legacy
  <2> QED
    BY DEF Injection, IsInjective
<1> HIDE DEF legacy, first
<1> DEFINE E == {Entry(Clear(n), id[n]) : n \in legacy}
<1>6. /\ disk.ib = {Root} \cup Range(id) /\ disk.db = {first}
      /\ disk.it = [i \in Inodes |-> IF i = Root THEN Inode("dir", <<first>>)
                                     ELSE Inode("file", <<>>)]
      /\ disk.blk = [b \in Blocks |-> IF b # first THEN {} ELSE E]
  BY <1>1
<1>7. Root \in Inodes /\ Range(id) \subseteq Inodes \ {Root}
      /\ \A i \in Range(id) : \E n \in legacy : id[n] = i
  BY <1>5, NoneIsNoId DEF Range
<1>8. E \subseteq EntryRecs
  BY <1>4, <1>5, SMT DEF EntryRecs, Entry, Clear
<1>9. Inode("dir", <<first>>) \in InodeRecs /\ Inode("file", <<>>) \in InodeRecs
  BY <1>3, SMT DEF Inode, InodeRecs
<1>10. Typed
  <2> HIDE DEF E
  <2>1. disk.it \in [Inodes -> InodeRecs]
    BY <1>6, <1>9
  <2>2. disk.blk \in [Blocks -> SUBSET EntryRecs]
    BY <1>6, <1>8
  <2>3. disk.ib \in SUBSET Inodes /\ disk.db \in SUBSET Blocks
    BY <1>3, <1>6, <1>7
  <2>4. disk = [ib |-> disk.ib, db |-> disk.db, it |-> disk.it, blk |-> disk.blk]
    BY <1>1
  <2>5. disk \in [ib : SUBSET Inodes, db : SUBSET Blocks, it : [Inodes -> InodeRecs],
                  blk : [Blocks -> SUBSET EntryRecs]]
    BY <2>1, <2>2, <2>3, <2>4
  <2> QED
    BY <1>2, <2>5, SizeAssumption, SMT DEF Typed
<1>11. /\ disk.it[Root] = Inode("dir", <<first>>)
       /\ \A i \in Inodes : i # Root => disk.it[i] = Inode("file", <<>>)
       /\ InUse = {Root} \cup Range(id) /\ lost.blocks = {}
  BY <1>2, <1>6, <1>7 DEF InUse
<1>12. /\ Range(disk.it[Root].blocks) = {first} /\ disk.it[Root].kind = "dir"
       /\ \A i \in Inodes : i # Root => Range(disk.it[i].blocks) = {} /\ disk.it[i].kind = "file"
  BY <1>11, SMT DEF Inode, Range
<1>13. LiveDirs = {Root}
  BY <1>7, <1>11, <1>12 DEF LiveDirs, Dirs
<1>14. EntriesIn(disk, disk.it[Root]) = E /\ disk.blk[first] = E
  <2> HIDE DEF E
  <2> QED
    <3>1. disk.blk[first] = E
      BY <1>3, <1>6
    <3>2. \A e : e \in EntriesIn(disk, disk.it[Root]) <=> e \in E
      BY <1>12, <3>1, EntryIn
    <3> QED
      BY <3>1, <3>2
<1>15. BlocksOwned
  <2>1. \A i \in InUse : i \in Inodes /\ (i # Root => Range(disk.it[i].blocks) = {})
    BY <1>7, <1>11, <1>12
  <2>2. Root \in InUse /\ Range(disk.it[Root].blocks) = {first}
    BY <1>11, <1>12
  <2>3. \A b : b \in UNION {Range(disk.it[i].blocks) : i \in InUse} <=> b = first
    BY <2>1, <2>2, SMT
  <2>4. disk.db = lost.blocks \cup UNION {Range(disk.it[i].blocks) : i \in InUse}
    BY <1>6, <1>11, <2>3
  <2>5. \A i, j \in InUse : i # j => Range(disk.it[i].blocks) \cap Range(disk.it[j].blocks) = {}
    BY <2>1
  <2> QED
    BY <1>11, <2>4, <2>5 DEF BlocksOwned
<1>16. CallsOK
  BY <1>2 DEF CallsOK, CallOK, Idle
<1>17. MemOK
  <2>1. QueueOK(<<>>, <<>>, disk.it)
    BY SMT DEF QueueOK, Range
  <2>2. CacheOK(mem, disk.it)
    BY <1>2, <2>1, SizeAssumption, SMT DEF CacheOK
  <2>3. IndexesOK(mem.index, disk, LiveDirs)
    BY <1>2, SMT DEF IndexesOK
  <2> QED
    BY <2>2, <2>3 DEF MemOK
<1>18. \A n \in legacy : /\ PlainName(Entry(Clear(n), id[n]).name) = n
                         /\ Entry(Clear(n), id[n]).name = Clear(n)
                         /\ Entry(Clear(n), id[n]).inode = id[n]
  BY DEF PlainName, Entry, Clear
<1>19. \A d \in LiveDirs : DirOK(disk, d)
  <2>1. \A e \in E : \E n \in Names : e.name = StoredName(Root, n) \/ e.name = Clear(n)
    BY <1>4, <1>18
  <2>2. \A e, f \in E : PlainName(e.name) = PlainName(f.name) => e = f
    BY <1>18
  <2> HIDE DEF E
  <2> QED
    BY <1>12, <1>13, <1>14, <2>1, <2>2, SMT DEF DirOK
<1>20. \A m : m \in Links <=> \E n \in legacy : m = <<Root, n, id[n]>>
  <2>1. \A m : m \in Links <=> \E e \in E : m = <<Root, PlainName(e.name), e.inode>>
    <3> HIDE DEF E
    <3> QED
      BY <1>13, <1>14, LinkIs, LinksAre, SMT
  <2> QED
    BY <1>18, <2>1, SMT
<1>21. TreeInv
  <2>1. Tree!TypeOK
    BY <1>4, <1>5, <1>7, <1>11, <1>13, <1>20, SMT DEF Tree!TypeOK
  <2>2. Tree!WellFormed
    <3>1. Root \in LiveDirs
      BY <1>13
    <3>2. \A m \in Links : m[1] \in LiveDirs /\ m[3] \in InUse \ {Root}
      BY <1>5, <1>7, <1>11, <1>13, <1>20, SMT DEF Range
    <3>3. \A m, k \in Links : m[3] = k[3] => m = k
      BY <1>5, <1>20, SMT
    <3>4. \A m, k \in Links : m[1] = k[1] /\ m[2] = k[2] => m = k
      BY <1>20, SMT
    <3>5. \A i \in InUse \ {Root} : \E m \in Links : m[3] = i
      <4> SUFFICES ASSUME NEW i \in InUse \ {Root} PROVE \E m \in Links : m[3] = i
        OBVIOUS
      <4>1. PICK n \in legacy : id[n] = i
        BY <1>7, <1>11
      <4>2. <<Root, n, id[n]>> \in Links /\ <<Root, n, id[n]>>[3] = i
        BY <1>20, <4>1
      <4> QED
        BY <4>2
    <3> QED
      BY <3>1, <3>2, <3>3, <3>4, <3>5 DEF Tree!WellFormed
  <2> QED
    BY <2>1, <2>2 DEF TreeInv
<1>22. Acyclic
  <2> DEFINE depth == [i \in Inodes |-> IF i = Root THEN 0 ELSE 1]
  <2>1. depth \in [Inodes -> Nat]
    OBVIOUS
  <2>2. \A m \in Links : depth[m[1]] < depth[m[3]]
    BY <1>5, <1>7, <1>20, SMT
  <2> QED
    BY <2>1, <2>2 DEF Acyclic
<1> QED
  BY <1>10, <1>15, <1>16, <1>17, <1>19, <1>21, <1>22 DEF IInv

(***************************************************************************)
(* Steps that only touch memory                                            *)
(***************************************************************************)

\* A call that begins, goes on or ends.
LEMMA CallStep ==
  ASSUME CallsOK, encrypted' = encrypted, NEW t \in Threads, NEW c, CallOK(c),
         call' = [call EXCEPT ![t] = c]
  PROVE  CallsOK'
<1>1. call = [u \in Threads |-> call[u]] /\ \A u \in Threads : CallOK(call[u])
  BY DEF CallsOK
<1>2. call' = [u \in Threads |-> IF u = t THEN c ELSE call[u]]
  BY <1>1
<1>3. call' = [u \in Threads |-> call'[u]]
      /\ \A u \in Threads : call'[u] = IF u = t THEN c ELSE call[u]
  BY <1>2
<1>4. \A u \in Threads : CallOK(call'[u])
  BY <1>1, <1>3
<1>5. \A u \in Threads : (CallOK(call[u]))'
  <2> SUFFICES ASSUME NEW u \in Threads PROVE (CallOK(call[u]))'
    OBVIOUS
  <2>1. CallOK(call'[u])
    BY <1>4
  <2> QED
    BY <2>1 DEF CallOK, StoredName
<1> QED
  BY <1>3, <1>5 DEF CallsOK

\* The end of a call.
LEMMA CallEnds ==
  ASSUME CallsOK, encrypted' = encrypted, NEW t \in Threads, Return(t)
  PROVE  CallsOK'
<1>1. CallOK(Idle)
  BY DEF CallOK, Idle
<1> QED
  BY <1>1, CallStep DEF Return

\* A step that takes part in no call.
LEMMA CallSame ==
  ASSUME CallsOK, UNCHANGED <<encrypted, call>> PROVE CallsOK'
BY DEF CallsOK, CallOK, StoredName

\* A step that leaves the image alone and the caches sound.
LEMMA MemStep ==
  ASSUME IInv, UNCHANGED <<disk, lost, journaled, encrypted>>, CallsOK',
         steps' \in 0 .. MaxSteps, CacheOK(mem', disk.it), IndexesOK(mem'.index, disk, LiveDirs)
  PROVE  IInv' /\ UNCHANGED <<Links, InUse, LiveDirs>>
<1>1. InUse' = InUse /\ LiveDirs' = LiveDirs
  BY DEF InUse, LiveDirs, Dirs
<1>2. Typed'
  BY DEF IInv, Typed
<1>3. BlocksOwned'
  BY <1>1 DEF IInv, BlocksOwned
<1> QED
  BY <1>1, <1>2, <1>3, Aside

\* The bound on calls holds after a step that begins one.
LEMMA StepBound ==
  ASSUME Typed, Step
  PROVE  steps' \in 0 .. MaxSteps /\ UNCHANGED <<journaled, encrypted>>
BY SizeAssumption, SMT DEF Typed, Step

\* A directory that is used is in use.
LEMMA UsedIsLive ==
  ASSUME NoStaleUse, NEW d \in Dirs, Avoids("dead_parent", Dead(d))
  PROVE  d \in LiveDirs
BY DEF NoStaleUse, Avoids, Dead, LiveDirs

\* The caches are sound, and the directory  d  is, in every state.
LEMMA InvDir ==
  ASSUME IInv, NEW d \in LiveDirs
  PROVE  /\ Typed /\ CallsOK /\ DirOK(disk, d) /\ d \in Inodes
         /\ CacheOK(mem, disk.it) /\ IndexesOK(mem.index, disk, LiveDirs)
BY LiveDir DEF IInv, MemOK

\* The first half of a creation only fills the caches.
LEMMA CreateLookupStep ==
  ASSUME IInv, NoStaleUse, NEW t \in Threads, NEW d \in Dirs, NEW n \in Names,
         NEW kind \in {"file", "dir"}, CreateLookup(t, d, n, kind)
  PROVE  IInv' /\ UNCHANGED <<Links, InUse, LiveDirs>>
<1> DEFINE m == Loaded(mem, d)
           r == DirLookup(m, d, n)
           c == IF r.inode # None THEN Idle
                ELSE [op |-> "create", dir |-> d, name |-> n, kind |-> kind]
<1>1. /\ Step /\ Avoids("dead_parent", Dead(d)) /\ mem' = r.mem
      /\ call' = [call EXCEPT ![t] = c] /\ UNCHANGED <<disk, lost>>
  BY DEF CreateLookup
<1>2. d \in LiveDirs
  BY <1>1, UsedIsLive
<1>3. /\ Typed /\ CallsOK /\ DirOK(disk, d) /\ d \in Inodes
      /\ CacheOK(mem, disk.it) /\ IndexesOK(mem.index, disk, LiveDirs)
  BY <1>2, InvDir
<1>4. CacheOK(m, disk.it) /\ IndexesOK(m.index, disk, LiveDirs)
  BY <1>3, LoadedOK
<1>5. CallOK(c)
  BY <1>3 DEF CallOK, Idle
<1> HIDE DEF m, c
<1>6. CacheOK(r.mem, disk.it) /\ IndexesOK(r.mem.index, disk, LiveDirs)
  BY <1>2, <1>3, <1>4, DirLookupOK
<1> HIDE DEF r
<1>7. steps' \in 0 .. MaxSteps /\ UNCHANGED <<journaled, encrypted>>
  BY <1>1, <1>3, StepBound
<1>8. CallsOK'
  BY <1>1, <1>3, <1>5, <1>7, CallStep
<1> QED
  BY <1>1, <1>6, <1>7, <1>8, MemStep

\* The first half of a deletion only fills the inode cache.
LEMMA DeleteLookupStep ==
  ASSUME IInv, NoStaleUse, NEW t \in Threads, NEW d \in Dirs, NEW n \in Names,
         DeleteLookup(t, d, n)
  PROVE  IInv' /\ UNCHANGED <<Links, InUse, LiveDirs>>
<1> DEFINE e == LocateAny(disk, ReadInode(mem, d), d, n)
           c == IF e.inode = None THEN Idle
                ELSE [op |-> "delete", dir |-> d, name |-> n, entry |-> e]
<1>1. /\ Step /\ Avoids("dead_parent", Dead(d)) /\ mem' = Loaded(mem, d)
      /\ call' = [call EXCEPT ![t] = c] /\ UNCHANGED <<disk, lost>>
  BY DEF DeleteLookup
<1>2. d \in LiveDirs
  BY <1>1, UsedIsLive
<1>3. /\ Typed /\ CallsOK /\ DirOK(disk, d) /\ d \in Inodes
      /\ CacheOK(mem, disk.it) /\ IndexesOK(mem.index, disk, LiveDirs)
  BY <1>2, InvDir
<1>4. /\ CacheOK(mem', disk.it) /\ IndexesOK(mem'.index, disk, LiveDirs)
      /\ ReadInode(mem, d) = disk.it[d]
  BY <1>1, <1>3, LoadedOK
<1>5. /\ e.name \in {StoredName(d, n), Clear(n)}
      /\ e.inode # None => e.inode \in Inodes /\ e.block \in Blocks
  BY <1>2, <1>3, <1>4, LocateAnyIs, LiveDir
<1> HIDE DEF e
<1>6. CallOK(c)
  BY <1>3, <1>5 DEF CallOK, Idle
<1> HIDE DEF c
<1>7. steps' \in 0 .. MaxSteps /\ UNCHANGED <<journaled, encrypted>>
  BY <1>1, <1>3, StepBound
<1>8. CallsOK'
  BY <1>1, <1>3, <1>6, <1>7, CallStep
<1> QED
  BY <1>1, <1>4, <1>7, <1>8, MemStep

\* A lookup only fills the caches.
LEMMA LookupStep ==
  ASSUME IInv, NoStaleUse, NEW d \in Dirs, NEW n \in Names, Lookup(d, n)
  PROVE  IInv' /\ UNCHANGED <<Links, InUse, LiveDirs>>
<1>1. /\ Step /\ Avoids("dead_parent", Dead(d)) /\ mem' = DirLookup(mem, d, n).mem
      /\ UNCHANGED <<disk, call, lost>>
  BY DEF Lookup
<1>2. d \in LiveDirs
  BY <1>1, UsedIsLive
<1>3. /\ Typed /\ CallsOK /\ DirOK(disk, d) /\ d \in Inodes
      /\ CacheOK(mem, disk.it) /\ IndexesOK(mem.index, disk, LiveDirs)
  BY <1>2, InvDir
<1>4. CacheOK(mem', disk.it) /\ IndexesOK(mem'.index, disk, LiveDirs)
  BY <1>1, <1>2, <1>3, DirLookupOK
<1>5. steps' \in 0 .. MaxSteps /\ UNCHANGED <<journaled, encrypted>>
  BY <1>1, <1>3, StepBound
<1>6. CallsOK'
  BY <1>1, <1>3, <1>5, CallSame
<1> QED
  BY <1>1, <1>4, <1>5, <1>6, MemStep

\* A reload only empties the caches.
LEMMA ReloadStep ==
  ASSUME IInv, ReloadFromDisk
  PROVE  IInv' /\ UNCHANGED <<Links, InUse, LiveDirs>>
<1>1. /\ Step /\ UNCHANGED <<disk, call, lost>>
      /\ mem' = [ihint |-> 0, bhint |-> 0, cache |-> <<>>, order |-> <<>>, index |-> <<>>]
  BY DEF ReloadFromDisk
<1>2. Typed /\ CallsOK
  BY DEF IInv
<1>3. QueueOK(<<>>, <<>>, disk.it)
  BY SMT DEF QueueOK, Range
<1>4. CacheOK(mem', disk.it)
  BY <1>1, <1>3, SizeAssumption, SMT DEF CacheOK
<1>5. IndexesOK(mem'.index, disk, LiveDirs)
  BY <1>1, SMT DEF IndexesOK
<1>6. steps' \in 0 .. MaxSteps /\ UNCHANGED <<journaled, encrypted>>
  BY <1>1, <1>2, StepBound
<1>7. CallsOK'
  BY <1>1, <1>2, <1>6, CallSame
<1> QED
  BY <1>1, <1>4, <1>5, <1>6, <1>7, MemStep

\* A listing only fills the caches.
LEMMA ListStep ==
  ASSUME IInv, NoStaleUse, NEW d \in Dirs, List(d)
  PROVE  IInv' /\ UNCHANGED <<Links, InUse, LiveDirs>>
<1>1. /\ Step /\ Avoids("dead_parent", Dead(d)) /\ mem' = ListDir(mem, d).mem
      /\ UNCHANGED <<disk, call, lost>>
  BY DEF List
<1>2. d \in LiveDirs
  BY <1>1, UsedIsLive
<1>3. /\ Typed /\ CallsOK /\ DirOK(disk, d) /\ d \in Inodes
      /\ CacheOK(mem, disk.it) /\ IndexesOK(mem.index, disk, LiveDirs)
  BY <1>2, InvDir
<1>4. CacheOK(mem', disk.it) /\ IndexesOK(mem'.index, disk, LiveDirs)
  BY <1>1, <1>2, <1>3, ListDirOK
<1>5. steps' \in 0 .. MaxSteps /\ UNCHANGED <<journaled, encrypted>>
  BY <1>1, <1>3, StepBound
<1>6. CallsOK'
  BY <1>1, <1>3, <1>5, CallSame
<1> QED
  BY <1>1, <1>4, <1>5, <1>6, MemStep

(***************************************************************************)
(* Steps that take inodes and blocks beside the tree                       *)
(***************************************************************************)

\* The blocks of an inode in use are marked used.
LEMMA OwnedIsUsed ==
  ASSUME IInv, NEW i \in InUse
  PROVE  /\ i \in Inodes /\ i \in disk.ib
         /\ Range(disk.it[i].blocks) \subseteq disk.db /\ disk.db \subseteq Blocks
         /\ Range(disk.it[i].blocks) \cap lost.blocks = {}
<1>1. i \in Inodes /\ i \in disk.ib /\ disk.db \subseteq Blocks
  BY DEF IInv, Typed, InUse
<1>2. Range(disk.it[i].blocks) \subseteq disk.db
  BY DEF IInv, BlocksOwned
<1>3. Range(disk.it[i].blocks) \cap lost.blocks = {}
  BY DEF IInv, BlocksOwned
<1> QED
  BY <1>1, <1>2, <1>3

\* A free block, and a free inode.
LEMMA FreeBlock ==
  ASSUME NEW used, NEW hint
  PROVE  FirstFree(used, Blocks, hint) \in (Blocks \ used) \cup {None}
BY FirstFreeIs, SizeAssumption

\* An inode the allocator hands out is free.
LEMMA FreeInode ==
  ASSUME NEW used, NEW hint
  PROVE  FirstFree(used, Inodes, hint) \in (Inodes \ used) \cup {None}
BY FirstFreeIs, NoneIsNoId

\* Memory that keeps its cache and gets other hints.
LEMMA MemHints ==
  ASSUME NEW m, NEW it, CacheOK(m, it), NEW a, NEW b
  PROVE  /\ CacheOK([m EXCEPT !.bhint = b], it) /\ [m EXCEPT !.bhint = b].index = m.index
         /\ CacheOK([m EXCEPT !.ihint = a], it) /\ [m EXCEPT !.ihint = a].index = m.index
<1>1. m = [ihint |-> m.ihint, bhint |-> m.bhint, cache |-> m.cache,
           order |-> m.order, index |-> m.index]
  BY DEF CacheOK
<1> DEFINE x == [m EXCEPT !.bhint = b]
           y == [m EXCEPT !.ihint = a]
<1>2. x = [ihint |-> m.ihint, bhint |-> b, cache |-> m.cache, order |-> m.order, index |-> m.index]
  BY <1>1, SMT
<1>3. y = [ihint |-> a, bhint |-> m.bhint, cache |-> m.cache, order |-> m.order, index |-> m.index]
  BY <1>1, SMT
<1> HIDE DEF x, y
<1>4. CacheOK(x, it) /\ x.index = m.index
  BY <1>2 DEF CacheOK
<1>5. CacheOK(y, it) /\ y.index = m.index
  BY <1>3 DEF CacheOK
<1> QED
  BY <1>4, <1>5 DEF x, y

\* The memory with other hints and indexes.
With(m, a, b, index) == [m EXCEPT !.ihint = a, !.bhint = b, !.index = index]

\* Its cache is the same.
LEMMA MemHintsIndex ==
  ASSUME NEW m, NEW it, CacheOK(m, it), NEW a, NEW b, NEW index
  PROVE  /\ CacheOK(With(m, a, b, index), it)
         /\ With(m, a, b, index).index = index
<1>1. m = [ihint |-> m.ihint, bhint |-> m.bhint, cache |-> m.cache,
           order |-> m.order, index |-> m.index]
  BY DEF CacheOK
<1> DEFINE x == With(m, a, b, index)
<1>2. DOMAIN m = {"ihint", "bhint", "cache", "order", "index"}
  BY <1>1
<1>3. x = [f \in {"ihint", "bhint", "cache", "order", "index"} |->
             IF f = "index" THEN index ELSE IF f = "bhint" THEN b
             ELSE IF f = "ihint" THEN a ELSE m[f]]
  BY <1>2 DEF With
<1> HIDE DEF x
<1>4. x = [ihint |-> a, bhint |-> b, cache |-> m.cache, order |-> m.order, index |-> index]
  BY <1>3
<1>5. CacheOK(x, it) /\ x.index = index
  BY <1>4 DEF CacheOK
<1> QED
  BY <1>5 DEF x

\* An inode outside the directories in use may change, and so may free blocks.
LEMMA OutsideTree ==
  ASSUME IInv, NEW i \in Inodes, i \notin LiveDirs, NEW ino,
         disk'.it = [disk.it EXCEPT ![i] = ino],
         \A b \in disk.db : disk'.blk[b] = disk.blk[b]
  PROVE  \A d \in LiveDirs : /\ disk'.it[d] = disk.it[d]
                             /\ \A b \in Range(disk.it[d].blocks) : disk'.blk[b] = disk.blk[b]
<1> SUFFICES ASSUME NEW d \in LiveDirs
             PROVE  /\ disk'.it[d] = disk.it[d]
                    /\ \A b \in Range(disk.it[d].blocks) : disk'.blk[b] = disk.blk[b]
  OBVIOUS
<1>1. d # i /\ d \in Inodes /\ d \in InUse
  BY LiveDir DEF IInv, LiveDirs
<1>2. disk.it \in [Inodes -> InodeRecs]
  BY DEF IInv, Typed
<1>3. disk'.it[d] = disk.it[d]
  BY <1>1, <1>2
<1>4. Range(disk.it[d].blocks) \subseteq disk.db
  BY <1>1, OwnedIsUsed
<1> QED
  BY <1>3, <1>4

\* A file takes a free block, which no directory has.
LEMMA WriteFileStep ==
  ASSUME IInv, NEW f \in Inodes, WriteFile(f)
  PROVE  IInv' /\ UNCHANGED <<Links, InUse, LiveDirs>>
<1> DEFINE b == FirstFree(disk.db, Blocks, mem.bhint)
           ino == Inode("file", <<b>>)
           m == CacheInsert(Loaded(mem, f), f, ino)
<1>1. /\ Step /\ f \in InUse /\ ReadInode(mem, f) = Inode("file", <<>>) /\ b # None
      /\ disk' = [disk EXCEPT !.db = @ \cup {b}, !.it[f] = ino, !.blk[b] = Junk]
      /\ mem' = [m EXCEPT !.bhint = b + 1] /\ UNCHANGED <<call, lost>>
  BY DEF WriteFile
<1>2. b \in Blocks \ disk.db
  BY <1>1, FreeBlock
<1> HIDE DEF b
<1>3. /\ Typed /\ CallsOK /\ CacheOK(mem, disk.it) /\ IndexesOK(mem.index, disk, LiveDirs)
  BY DEF IInv, MemOK
<1>4. /\ CacheOK(Loaded(mem, f), disk.it) /\ Loaded(mem, f).index = mem.index
      /\ disk.it[f] = Inode("file", <<>>)
  BY <1>1, <1>3, LoadedOK
<1>5. disk.it \in [Inodes -> InodeRecs] /\ disk.blk \in [Blocks -> SUBSET EntryRecs]
      /\ disk.ib \in SUBSET Inodes /\ disk.db \in SUBSET Blocks
  BY <1>3 DEF Typed
<1>6. /\ disk'.ib = disk.ib /\ disk'.db = disk.db \cup {b}
      /\ disk'.it = [disk.it EXCEPT ![f] = ino] /\ disk'.blk = [disk.blk EXCEPT ![b] = Junk]
      /\ disk' = [ib |-> disk'.ib, db |-> disk'.db, it |-> disk'.it, blk |-> disk'.blk]
  BY <1>1, <1>3 DEF Typed
<1>7. ino \in InodeRecs /\ ino.kind = "file" /\ Range(ino.blocks) = {b}
  BY <1>2, SMT DEF Inode, InodeRecs, Range
<1>8. Junk \subseteq EntryRecs
  BY NoneIsNoId, SMT DEF Junk, EntryRecs, Entry, Clear
<1> HIDE DEF ino
<1>9. CacheOK(m, disk'.it) /\ m.index = mem.index
  <2>1. disk'.it = Row(disk.it, f, ino)
    BY <1>6 DEF Row
  <2> QED
    BY <1>4, <1>5, <2>1, CacheInsertOK, SMT
<1> HIDE DEF m
<1>10. CacheOK(mem', disk'.it) /\ mem'.index = mem.index
  BY <1>1, <1>9, MemHints
<1>11. steps' \in 0 .. MaxSteps /\ UNCHANGED <<journaled, encrypted>>
  BY <1>1, <1>3, StepBound
<1>12. CallsOK'
  BY <1>1, <1>3, <1>11, CallSame
<1>13. Typed'
  <2>1. disk'.it \in [Inodes -> InodeRecs] /\ disk'.blk \in [Blocks -> SUBSET EntryRecs]
        /\ disk'.ib \in SUBSET Inodes /\ disk'.db \in SUBSET Blocks
    BY <1>2, <1>5, <1>6, <1>7, <1>8
  <2>2. disk' \in [ib : SUBSET Inodes, db : SUBSET Blocks, it : [Inodes -> InodeRecs],
                   blk : [Blocks -> SUBSET EntryRecs]]
    BY <1>6, <2>1
  <2> QED
    BY <1>1, <1>3, <1>6, <1>11, <2>2 DEF Typed
<1>14. InUse' = InUse
  BY <1>1, <1>6 DEF InUse
<1>15. /\ disk'.it[f] = ino /\ disk.it[f].kind = "file"
       /\ Range(disk.it[f].blocks) = {}
       /\ \A i \in Inodes : i # f => disk'.it[i] = disk.it[i]
  BY <1>4, <1>5, <1>6, SMT DEF Inode, Range
<1>16. LiveDirs' = LiveDirs /\ f \notin LiveDirs
  BY <1>7, <1>14, <1>15 DEF LiveDirs, Dirs
<1>17. BlocksOwned'
  <2>1. \A i \in InUse : Range(disk'.it[i].blocks)
                           = IF i = f THEN {b} ELSE Range(disk.it[i].blocks)
    BY <1>7, <1>15, OwnedIsUsed
  <2>2. \A i \in InUse : b \notin Range(disk.it[i].blocks)
    BY <1>2, OwnedIsUsed
  <2>3. b \notin lost.blocks
    BY <1>2 DEF IInv, BlocksOwned
  <2>4. disk'.db = lost.blocks \cup UNION {Range(disk'.it[i].blocks) : i \in InUse}
    <3>1. \A x : x \in disk.db <=>
            x \in lost.blocks \/ \E i \in InUse : x \in Range(disk.it[i].blocks)
      BY DEF IInv, BlocksOwned
    <3>2. \A x : x \in disk'.db <=>
            x \in lost.blocks \/ \E i \in InUse : x \in Range(disk'.it[i].blocks)
      BY <1>1, <1>6, <1>15, <2>1, <3>1, SMT
    <3> QED
      BY <3>2
  <2>5. \A i \in InUse : Range(disk'.it[i].blocks) \cap lost.blocks = {}
    BY <2>1, <2>3, OwnedIsUsed
  <2>6. \A i, j \in InUse : i # j =>
          Range(disk'.it[i].blocks) \cap Range(disk'.it[j].blocks) = {}
    <3>1. \A i, j \in InUse : i # j =>
            Range(disk.it[i].blocks) \cap Range(disk.it[j].blocks) = {}
      BY DEF IInv, BlocksOwned
    <3> QED
      BY <2>1, <2>2, <3>1
  <2> QED
    BY <1>1, <1>14, <2>4, <2>5, <2>6 DEF BlocksOwned
<1>18. \A x \in disk.db : disk'.blk[x] = disk.blk[x]
  BY <1>2, <1>5, <1>6
<1>19. \A d \in LiveDirs : /\ disk'.it[d] = disk.it[d]
                           /\ \A x \in Range(disk.it[d].blocks) : disk'.blk[x] = disk.blk[x]
  BY <1>6, <1>16, <1>18, OutsideTree
<1> QED
  BY <1>3, <1>10, <1>11, <1>12, <1>13, <1>14, <1>16, <1>17, <1>19, Aside

(***************************************************************************)
(* The tree of names                                                       *)
(***************************************************************************)

\* A link to an unused inode, under a free name, keeps the tree.
LEMMA LinkKeepsTree ==
  ASSUME TreeInv, NEW d \in Inodes, NEW i \in Inodes, NEW n \in Names, NEW dir \in BOOLEAN,
         Tree!Link(d, n, i, dir)
  PROVE  TreeInv'
<1> DEFINE new == <<d, n, i>>
<1>1. new[1] = d /\ new[2] = n /\ new[3] = i /\ new \in Inodes \X Names \X Inodes
  OBVIOUS
<1>2. /\ Links' = Links \cup {new} /\ InUse' = InUse \cup {i}
      /\ LiveDirs \subseteq LiveDirs' /\ LiveDirs' \subseteq LiveDirs \cup {i}
      /\ i \notin InUse /\ d \in LiveDirs
      /\ \A m \in Links : ~(m[1] = d /\ m[2] = n)
  BY DEF Tree!Link
<1> HIDE DEF new
<1>3. Tree!TypeOK'
  BY <1>1, <1>2 DEF TreeInv, Tree!TypeOK
<1>4. \A m \in Links : m[3] # i
  BY <1>2 DEF TreeInv, Tree!WellFormed
<1>5. Tree!WellFormed'
  <2>1. Root \in LiveDirs' /\ \A m \in Links' : m[1] \in LiveDirs' /\ m[3] \in InUse' \ {Root}
    BY <1>1, <1>2 DEF TreeInv, Tree!TypeOK, Tree!WellFormed
  <2>2. \A m, k \in Links' : m[3] = k[3] => m = k
    BY <1>1, <1>2, <1>4 DEF TreeInv, Tree!WellFormed
  <2>3. \A m, k \in Links' : m[1] = k[1] /\ m[2] = k[2] => m = k
    BY <1>1, <1>2 DEF TreeInv, Tree!WellFormed
  <2>4. \A x \in InUse' \ {Root} : \E m \in Links' : m[3] = x
    BY <1>1, <1>2 DEF TreeInv, Tree!WellFormed
  <2> QED
    BY <2>1, <2>2, <2>3, <2>4 DEF Tree!WellFormed
<1> QED
  BY <1>3, <1>5 DEF TreeInv

\* Cutting the one link of an inode with nothing below it keeps the tree.
LEMMA UnlinkKeepsTree ==
  ASSUME TreeInv, NEW cut \in Links, Tree!Unlink(cut)
  PROVE  TreeInv'
<1>1. /\ cut \in Links /\ Links' = Links \ {cut}
      /\ InUse' = InUse \ {cut[3]} /\ LiveDirs' = LiveDirs \ {cut[3]}
      /\ \A c \in Links : c[1] # cut[3]
  BY DEF Tree!Unlink
<1>2. cut[3] # Root /\ \A m \in Links : m[3] = cut[3] => m = cut
  BY <1>1 DEF TreeInv, Tree!WellFormed
<1>3. Tree!TypeOK'
  BY <1>1 DEF TreeInv, Tree!TypeOK
<1>4. Tree!WellFormed'
  <2>1. Root \in LiveDirs' /\ \A m \in Links' : m[1] \in LiveDirs' /\ m[3] \in InUse' \ {Root}
    BY <1>1, <1>2 DEF TreeInv, Tree!WellFormed
  <2>2. \A m, k \in Links' : m[3] = k[3] => m = k
    BY <1>1 DEF TreeInv, Tree!WellFormed
  <2>3. \A m, k \in Links' : m[1] = k[1] /\ m[2] = k[2] => m = k
    BY <1>1 DEF TreeInv, Tree!WellFormed
  <2>4. \A x \in InUse' \ {Root} : \E m \in Links' : m[3] = x
    BY <1>1, <1>2 DEF TreeInv, Tree!WellFormed
  <2> QED
    BY <2>1, <2>2, <2>3, <2>4 DEF Tree!WellFormed
<1> QED
  BY <1>3, <1>4 DEF TreeInv

\* A new link ends in an inode nothing links from, which can be numbered anew;
\* and a link less closes no cycle.
LEMMA TreeStepKeepsAcyclic ==
  ASSUME TreeInv, Acyclic, [Tree!Next]_<<Links, InUse, LiveDirs>>
  PROVE  Acyclic'
<1>1. PICK depth \in [Inodes -> Nat] : \A m \in Links : depth[m[1]] < depth[m[3]]
  BY DEF Acyclic
<1>2. ASSUME NEW d \in Inodes, NEW i \in Inodes, NEW n \in Names, NEW dir \in BOOLEAN,
             Tree!Link(d, n, i, dir)
      PROVE  Acyclic'
  <2> DEFINE new == <<d, n, i>>
             deeper == [depth EXCEPT ![i] = depth[d] + 1]
  <2>1. new[1] = d /\ new[3] = i
    OBVIOUS
  <2>2. Links' = Links \cup {new} /\ i \notin InUse /\ d \in LiveDirs
    BY <1>2 DEF Tree!Link
  <2> HIDE DEF new
  <2>3. d # i /\ \A m \in Links : m[1] # i /\ m[3] # i /\ m[1] \in Inodes /\ m[3] \in Inodes
    BY <2>2 DEF TreeInv, Tree!TypeOK, Tree!WellFormed
  <2>4. deeper \in [Inodes -> Nat] /\ deeper[i] = depth[d] + 1
        /\ \A j \in Inodes : j # i => deeper[j] = depth[j]
    BY SMT
  <2>5. depth[d] \in Nat /\ depth[d] < depth[d] + 1
    BY SMT
  <2> HIDE DEF deeper
  <2>6. \A m \in Links' : deeper[m[1]] < deeper[m[3]]
    BY <1>1, <2>1, <2>2, <2>3, <2>4, <2>5
  <2> QED
    BY <2>4, <2>6 DEF Acyclic
<1>3. Links' \subseteq Links => Acyclic'
  BY <1>1 DEF Acyclic
<1>4. (\E m \in Links : Tree!Unlink(m)) => Links' \subseteq Links
  BY DEF Tree!Unlink
<1> QED
  BY <1>2, <1>3, <1>4 DEF Tree!Next

\* The block an entry goes to is one of the directory's.
LEMMA EntryBlockIs ==
  ASSUME NEW ino \in InodeRecs
  PROVE  EntryBlock(ino) \in Range(ino.blocks) \cup {None}
<1> DEFINE n == Len(ino.blocks)
           room == {i \in 1 .. n : Cardinality(disk.blk[ino.blocks[i]]) < EntriesPerBlock}
           k == IF n \in room THEN n ELSE Min(room)
<1>1. n \in Nat /\ DOMAIN ino.blocks = 1 .. n
  BY SMT DEF InodeRecs
<1>2. EntryBlock(ino) = IF room = {} THEN None ELSE ino.blocks[k]
  BY DEF EntryBlock
<1>3. room \in SUBSET Nat /\ room \subseteq 1 .. n
  BY <1>1, SMT
<1>4. room # {} => Min(room) \in room
  <2> HIDE DEF room
  <2> QED BY <1>3, MinIs
<1> HIDE DEF room, n
<1>5. room # {} => k \in 1 .. n
  BY <1>3, <1>4
<1> HIDE DEF k
<1> QED
  BY <1>1, <1>2, <1>5 DEF Range

(***************************************************************************)
(* A creation that succeeds                                                *)
(***************************************************************************)

\* What a creation does to the image, in terms of who owns which block and what
\* the blocks hold: entry  e  of directory  d  joins block  slot .
Linked(d, id, kind, own, grown, slot, e) ==
  /\ id \in Inodes \ disk.ib /\ e.inode = id
  /\ own \in (Blocks \ disk.db) \cup {None}
  /\ grown \in (Blocks \ (disk.db \cup {own})) \cup {None}
  /\ kind \in {"file", "dir"} /\ (kind = "dir" <=> own # None)
  /\ IF grown = None THEN slot \in Range(disk.it[d].blocks) ELSE slot = grown
  /\ disk'.ib = disk.ib \cup {id} /\ disk'.db = disk.db \cup ({own, grown} \ {None})
  /\ disk'.it[id].kind = kind /\ Range(disk'.it[id].blocks) = {own} \ {None}
  /\ disk'.it[d].kind = "dir"
  /\ Range(disk'.it[d].blocks) = Range(disk.it[d].blocks) \cup ({grown} \ {None})
  /\ \A i \in Inodes \ {id, d} : disk'.it[i] = disk.it[i]
  /\ disk'.blk[slot] = (IF grown = None THEN disk.blk[slot] ELSE {}) \cup {e}
  /\ own # None => disk'.blk[own] = {}
  /\ \A b \in disk.db : b # slot => disk'.blk[b] = disk.blk[b]
  /\ lost' = lost

\* The new inode joins those in use, and the directories if it is one.
LEMMA LinkedInUse ==
  ASSUME IInv, NEW d \in LiveDirs, NEW id, NEW kind, NEW own, NEW grown, NEW slot, NEW e,
         Linked(d, id, kind, own, grown, slot, e)
  PROVE  /\ id \notin InUse /\ id \notin LiveDirs /\ id # d
         /\ InUse' = InUse \cup {id}
         /\ LiveDirs' = IF kind = "dir" THEN LiveDirs \cup {id} ELSE LiveDirs
<1>1. id \notin disk.ib /\ id \in Inodes /\ lost.inodes \subseteq disk.ib /\ lost' = lost
      /\ disk'.ib = disk.ib \cup {id}
  BY DEF Linked, IInv, Typed
<1>2. id \notin InUse /\ id \notin LiveDirs /\ id # d /\ InUse' = InUse \cup {id}
  BY <1>1 DEF InUse, LiveDirs
<1>3. \A i \in Inodes : i # id => disk'.it[i].kind = disk.it[i].kind
  <2>1. disk'.it[d].kind = "dir" /\ \A i \in Inodes \ {id, d} : disk'.it[i] = disk.it[i]
    BY DEF Linked
  <2>2. disk.it[d].kind = "dir"
    BY LiveDir DEF IInv
  <2> QED
    BY <2>1, <2>2
<1>4. disk'.it[id].kind = kind
  BY DEF Linked
<1>5. \A i : i \in LiveDirs' <=> i \in Inodes /\ disk'.it[i].kind = "dir" /\ i \in InUse'
  BY DEF LiveDirs, Dirs
<1>6. \A i : i \in LiveDirs <=> i \in Inodes /\ disk.it[i].kind = "dir" /\ i \in InUse
  BY DEF LiveDirs, Dirs
<1>7. \A i : i \in LiveDirs' <=> i \in LiveDirs \/ (i = id /\ kind = "dir")
  BY <1>1, <1>2, <1>3, <1>4, <1>5, <1>6
<1>8. LiveDirs' = IF kind = "dir" THEN LiveDirs \cup {id} ELSE LiveDirs
  BY <1>7
<1> QED
  BY <1>2, <1>8

\* Each inode keeps its blocks; the new ones go to the new inode and to the parent.
LEMMA LinkedOwned ==
  ASSUME IInv, NEW d \in LiveDirs, NEW id, NEW kind, NEW own, NEW grown, NEW slot, NEW e,
         Linked(d, id, kind, own, grown, slot, e)
  PROVE  BlocksOwned'
<1> DEFINE O(i) == Range(disk.it[i].blocks)
           P(i) == Range(disk'.it[i].blocks)
<1>1. id \notin InUse /\ d \in InUse /\ id # d /\ InUse' = InUse \cup {id} /\ lost' = lost
  BY LinkedInUse, SMT DEF Linked, LiveDirs
<1>2. P(id) = {own} \ {None} /\ P(d) = O(d) \cup ({grown} \ {None})
  BY DEF Linked
<1>3. \A i \in InUse : i # d => P(i) = O(i)
  <2>1. \A i \in InUse : i \in Inodes
    BY OwnedIsUsed
  <2> QED
    BY <1>1, <2>1 DEF Linked
<1>4. \A i \in InUse : O(i) \subseteq disk.db /\ O(i) \cap lost.blocks = {}
  BY OwnedIsUsed
<1>5. \A x : x \in disk.db <=> x \in lost.blocks \/ \E i \in InUse : x \in O(i)
  BY DEF IInv, BlocksOwned
<1>6. \A i, j \in InUse : i # j => O(i) \cap O(j) = {}
  BY DEF IInv, BlocksOwned
<1>7. /\ own \notin disk.db
      /\ grown \notin disk.db /\ (grown = own => own = None)
      /\ disk'.db = disk.db \cup ({own, grown} \ {None})
  BY NoneIsNoId DEF Linked, IInv, Typed
<1> HIDE DEF O, P
<1>8. \A x : x \in disk'.db <=> x \in lost.blocks \/ \E i \in InUse \cup {id} : x \in P(i)
  <2> SUFFICES ASSUME NEW x
               PROVE  x \in disk'.db <=> x \in lost.blocks \/ \E i \in InUse \cup {id} : x \in P(i)
    OBVIOUS
  <2>1. x \in disk'.db <=> x \in disk.db \/ x \in {own, grown} \ {None}
    BY <1>7
  <2>2. (\E i \in InUse \cup {id} : x \in P(i)) <=>
          x \in {own} \ {None} \/ x \in {grown} \ {None} \/ \E i \in InUse : x \in O(i)
    BY <1>1, <1>2, <1>3
  <2> QED
    BY <1>5, <2>1, <2>2
<1>9. \A i \in InUse \cup {id} : P(i) \cap lost.blocks = {}
  <2>1. own \notin lost.blocks \ {None} /\ grown \notin lost.blocks \ {None}
    BY <1>5, <1>7
  <2> QED
    BY <1>2, <1>3, <1>4, <2>1, SMT
<1>10. \A i, j \in InUse \cup {id} : i # j => P(i) \cap P(j) = {}
  <2>1. \A i \in InUse : own \notin O(i) \ {None} /\ grown \notin O(i) \ {None}
    BY <1>4, <1>7
  <2>2. \A i \in InUse : P(i) \cap P(id) = {}
    BY <1>2, <1>3, <1>7, <2>1
  <2>3. \A i, j \in InUse : i # j => P(i) \cap P(j) = {}
    BY <1>2, <1>3, <1>6, <2>1, SMT
  <2> QED
    BY <2>2, <2>3
<1>11. disk'.db = lost.blocks \cup UNION {P(i) : i \in InUse \cup {id}}
  BY <1>8
<1> QED
  BY <1>1, <1>9, <1>10, <1>11 DEF BlocksOwned, P

\* Every directory keeps its entries; the parent gets the new one, and a new
\* directory has none.
LEMMA LinkedEntries ==
  ASSUME IInv, NEW d \in LiveDirs, NEW id, NEW kind, NEW own, NEW grown, NEW slot, NEW e,
         Linked(d, id, kind, own, grown, slot, e)
  PROVE  /\ \A x \in LiveDirs : x # d =>
              /\ EntriesIn(disk', disk'.it[x]) = EntriesIn(disk, disk.it[x])
              /\ DirOK(disk', x)
         /\ EntriesIn(disk', disk'.it[id]) = {}
         /\ EntriesIn(disk', disk'.it[d]) = EntriesIn(disk, disk.it[d]) \cup {e}
         /\ \A b \in Range(disk'.it[d].blocks) : \A f \in disk'.blk[b] :
              (f = e /\ b = slot) \/ (b \in Range(disk.it[d].blocks) /\ f \in disk.blk[b])
<1> DEFINE O(i) == Range(disk.it[i].blocks)
           P(i) == Range(disk'.it[i].blocks)
<1>1. id # d /\ d \in InUse /\ \A x \in LiveDirs : x \in Inodes /\ x \in InUse /\ x # id
  BY LinkedInUse, LiveDir DEF LiveDirs, IInv
<1>2. P(id) = {own} \ {None} /\ P(d) = O(d) \cup ({grown} \ {None})
      /\ (own # None => disk'.blk[own] = {})
      /\ \A b \in disk.db : b # slot => disk'.blk[b] = disk.blk[b]
  BY DEF Linked
<1>3. \A x \in LiveDirs : O(x) \subseteq disk.db /\ (x # d => O(x) \cap O(d) = {})
  <2>1. \A x \in LiveDirs : O(x) \subseteq disk.db
    BY <1>1, OwnedIsUsed
  <2>2. \A x \in LiveDirs : x # d => O(x) \cap O(d) = {}
    BY <1>1 DEF IInv, BlocksOwned
  <2> QED
    BY <2>1, <2>2
<1>4. /\ slot \in P(d) /\ grown \notin disk.db \ {None}
      /\ IF grown = None THEN slot \in O(d) ELSE slot = grown
      /\ disk'.blk[slot] = (IF grown = None THEN disk.blk[slot] ELSE {}) \cup {e}
  BY DEF Linked
<1>5. \A x \in LiveDirs : x # d => disk'.it[x] = disk.it[x]
  BY <1>1 DEF Linked
<1> HIDE DEF O, P
<1>6. \A x \in LiveDirs : x # d => slot \notin O(x)
  <2>1. CASE grown = None
    BY <1>3, <1>4, <2>1
  <2>2. CASE grown # None
    BY <1>3, <1>4, <2>2
  <2> QED
    BY <2>1, <2>2
<1>7. \A x \in LiveDirs : x # d => \A b \in O(x) : disk'.blk[b] = disk.blk[b]
  BY <1>2, <1>3, <1>6
<1>8. \A x \in LiveDirs : x # d =>
        EntriesIn(disk', disk'.it[x]) = EntriesIn(disk, disk.it[x]) /\ DirOK(disk', x)
  BY <1>5, <1>7, SameEntries DEF IInv, O
<1>9. EntriesIn(disk', disk'.it[id]) = {}
  <2>1. \A b \in P(id) : disk'.blk[b] = {}
    BY <1>2
  <2>2. \A f : f \in EntriesIn(disk', disk'.it[id]) <=> \E b \in P(id) : f \in disk'.blk[b]
    BY EntryIn DEF P
  <2> QED
    BY <2>1, <2>2
<1>10. ASSUME NEW b \in P(d), NEW f \in disk'.blk[b]
       PROVE  (f = e /\ b = slot) \/ (b \in O(d) /\ f \in disk.blk[b])
  <2>1. CASE b = slot
    BY <1>4, <2>1
  <2>2. CASE b # slot
    <3>1. b \in O(d)
      BY <1>2, <1>4, <2>2
    <3> QED
      BY <1>2, <1>3, <2>2, <3>1
  <2> QED
    BY <2>1, <2>2
<1>11. \A f : f \in EntriesIn(disk', disk'.it[d]) <=> \E b \in P(d) : f \in disk'.blk[b]
  BY EntryIn DEF P
<1>12. \A f : f \in EntriesIn(disk, disk.it[d]) <=> \E b \in O(d) : f \in disk.blk[b]
  BY EntryIn DEF O
<1>13. ASSUME NEW b \in O(d), NEW f \in disk.blk[b]
       PROVE  b \in P(d) /\ f \in disk'.blk[b]
  <2>1. b \in P(d) /\ b \in disk.db
    BY <1>2, <1>3
  <2>2. b # slot => disk'.blk[b] = disk.blk[b]
    BY <1>2, <2>1
  <2>3. b = slot => grown = None
    BY <1>4, <2>1
  <2> QED
    BY <1>4, <2>1, <2>2, <2>3
<1>14. e \in disk'.blk[slot]
  BY <1>4
<1>15. \A f : f \in EntriesIn(disk', disk'.it[d]) <=> f \in EntriesIn(disk, disk.it[d]) \cup {e}
  BY <1>4, <1>10, <1>11, <1>12, <1>13, <1>14
<1>16. EntriesIn(disk', disk'.it[d]) = EntriesIn(disk, disk.it[d]) \cup {e}
  BY <1>15
<1> QED
  BY <1>8, <1>9, <1>10, <1>16 DEF O, P

\* An index that is told of a new entry, of plain name  n .
Noted(ix, e, n) ==
  [ix EXCEPT !.stored = Put(@, e.name, e.inode),
             !.plain = IF encrypted THEN Put(@, n, e.inode) ELSE @]

\* It is the index of the directory with that entry.
LEMMA IndexNoted ==
  ASSUME NEW E, NEW ix, IndexOK(ix, E), NEW e, NEW n, PlainName(e.name) = n
  PROVE  IndexOK(Noted(ix, e, n), E \cup {e})
<1> DEFINE s == Put(ix.stored, e.name, e.inode)
           p == IF encrypted THEN Put(ix.plain, n, e.inode) ELSE ix.plain
           new == Noted(ix, e, n)
<1>1. ix = [complete |-> ix.complete, scans |-> ix.scans,
            stored |-> ix.stored, plain |-> ix.plain]
  BY DEF IndexOK
<1>2. new = [complete |-> ix.complete, scans |-> ix.scans, stored |-> s, plain |-> p]
  <2>1. new = [ix EXCEPT !.stored = s, !.plain = p]
    <3>1. [ix EXCEPT !.stored = s].plain = ix.plain
      <4> HIDE DEF s
      <4> QED BY <1>1
    <3> QED
      BY <3>1 DEF Noted
  <2> HIDE DEF new, s, p
  <2>2. DOMAIN ix = {"complete", "scans", "stored", "plain"}
    BY <1>1
  <2>3. new = [f \in {"complete", "scans", "stored", "plain"} |->
                 IF f = "plain" THEN p ELSE IF f = "stored" THEN s ELSE ix[f]]
    BY <2>1, <2>2
  <2> QED
    BY <2>3
<1>3. DOMAIN s = DOMAIN ix.stored \cup {e.name}
      /\ \A k \in DOMAIN s : s[k] = IF k = e.name THEN e.inode ELSE ix.stored[k]
  BY DEF Put
<1>4. encrypted => /\ DOMAIN p = DOMAIN ix.plain \cup {n}
                   /\ \A k \in DOMAIN p : p[k] = IF k = n THEN e.inode ELSE ix.plain[k]
  BY DEF Put
<1> HIDE DEF new, s, p
<1>5. \A k \in DOMAIN s : \E f \in E \cup {e} : f.name = k /\ f.inode = s[k]
  BY <1>3, SMT DEF IndexOK
<1>6. encrypted => \A k \in DOMAIN p : \E f \in E \cup {e} : PlainName(f.name) = k /\ f.inode = p[k]
  BY <1>4 DEF IndexOK
<1>7. ix.complete => \A f \in E \cup {e} : f.name \in DOMAIN s
  BY <1>3 DEF IndexOK
<1>8. IndexOK(new, E \cup {e})
  BY <1>2, <1>5, <1>6, <1>7 DEF IndexOK
<1> QED
  BY <1>8 DEF new

\* A creation adds one link, and keeps the invariant.
LEMMA LinkedStep ==
  ASSUME IInv, NEW d \in LiveDirs, NEW id, NEW kind, NEW own, NEW grown, NEW slot,
         NEW n \in Names, NEW e, e.name = StoredName(d, n),
         Linked(d, id, kind, own, grown, slot, e),
         Answers(EntriesIn(disk, disk.it[d]), n, None),
         NEW index, IndexesOK(index, disk, LiveDirs),
         mem'.index = IF d \in DOMAIN index
                      THEN [index EXCEPT ![d] = Noted(index[d], e, n)] ELSE index,
         encrypted' = encrypted, Typed', CallsOK', CacheOK(mem', disk'.it)
  PROVE  IInv' /\ Tree!Link(d, n, id, kind = "dir")
<1> DEFINE E(x) == EntriesIn(disk, disk.it[x])
           F(x) == EntriesIn(disk', disk'.it[x])
           dir == kind = "dir"
<1>1. /\ id \notin InUse /\ id \notin LiveDirs /\ id # d /\ InUse' = InUse \cup {id}
      /\ LiveDirs' = IF dir THEN LiveDirs \cup {id} ELSE LiveDirs
  BY LinkedInUse
<1>2. /\ \A x \in LiveDirs : x # d => F(x) = E(x) /\ DirOK(disk', x)
      /\ F(id) = {} /\ F(d) = E(d) \cup {e}
      /\ \A b \in Range(disk'.it[d].blocks) : \A f \in disk'.blk[b] :
           (f = e /\ b = slot) \/ (b \in Range(disk.it[d].blocks) /\ f \in disk.blk[b])
  BY LinkedEntries, SMT
<1>3. Typed /\ DirOK(disk, d) /\ d \in Inodes /\ id \in Inodes /\ e.inode = id
  BY InvDir DEF Linked
<1>4. PlainName(e.name) = n /\ \A f \in E(d) : PlainName(f.name) # n
  <2>1. \A f \in E(d) : f.inode \in Inodes
    BY <1>3, LiveDir DEF EntryRecs
  <2> QED
    BY <2>1, StoredPlain, NoneIsNoId DEF Answers
<1> HIDE DEF E, F
<1>5. DirOK(disk', d)
  <2>1. \A f \in F(d) : \E k \in Names : f.name = StoredName(d, k) \/ f.name = Clear(k)
    BY <1>2, <1>3 DEF DirOK, E
  <2> SUFFICES ASSUME NEW b \in Range(disk'.it[d].blocks), NEW c \in Range(disk'.it[d].blocks),
                      NEW f \in disk'.blk[b], NEW g \in disk'.blk[c],
                      PlainName(f.name) = PlainName(g.name)
               PROVE  b = c /\ f = g
    BY <2>1 DEF DirOK, F
  <2>2. (f = e /\ b = slot) \/ (b \in Range(disk.it[d].blocks) /\ f \in disk.blk[b])
    BY <1>2
  <2>3. (g = e /\ c = slot) \/ (c \in Range(disk.it[d].blocks) /\ g \in disk.blk[c])
    BY <1>2
  <2>4. b \in Range(disk.it[d].blocks) /\ f \in disk.blk[b] => f \in E(d)
    BY EntryIn DEF E
  <2>5. c \in Range(disk.it[d].blocks) /\ g \in disk.blk[c] => g \in E(d)
    BY EntryIn DEF E
  <2> QED
    BY <1>3, <1>4, <2>2, <2>3, <2>4, <2>5, SMT DEF DirOK
<1>6. kind = "dir" => DirOK(disk', id)
  <2>1. \A b \in Range(disk'.it[id].blocks) : \A f \in disk'.blk[b] : FALSE
    BY <1>2, EntryIn DEF F
  <2> QED
    BY <1>2, <2>1 DEF DirOK, F
<1>7. \A x \in LiveDirs' : DirOK(disk', x)
  BY <1>1, <1>2, <1>5, <1>6
<1>8. \A x \in LiveDirs' : (DirOK(disk, x))'
  BY <1>7, SameMode
<1>9. IndexesOK(mem'.index, disk', LiveDirs')
  <2> DEFINE new == mem'.index
  <2>1. index = [x \in DOMAIN index |-> index[x]] /\ DOMAIN index \subseteq LiveDirs
        /\ \A x \in DOMAIN index : IndexOK(index[x], E(x))
    BY DEF IndexesOK, E
  <2>2. new = IF d \in DOMAIN index THEN [index EXCEPT ![d] = Noted(index[d], e, n)] ELSE index
    OBVIOUS
  <2>3. ASSUME d \in DOMAIN index PROVE IndexOK(Noted(index[d], e, n), F(d))
    <3>1. IndexOK(index[d], E(d)) /\ PlainName(e.name) = n
      BY <1>4, <2>1, <2>3
    <3>2. IndexOK(Noted(index[d], e, n), E(d) \cup {e})
      BY ONLY <3>1, IndexNoted
    <3> QED
      BY <1>2, <3>2
  <2> HIDE DEF new
  <2>4. /\ DOMAIN new = DOMAIN index /\ new = [x \in DOMAIN new |-> new[x]]
        /\ \A x \in DOMAIN new : new[x] = IF x = d THEN Noted(index[d], e, n) ELSE index[x]
    <3>1. CASE d \in DOMAIN index
      <4>1. new = [x \in DOMAIN index |-> IF x = d THEN Noted(index[d], e, n) ELSE index[x]]
        BY <2>1, <2>2, <3>1
      <4> QED
        BY <4>1
    <3>2. CASE d \notin DOMAIN index
      BY <2>1, <2>2, <3>2
    <3> QED
      BY <3>1, <3>2
  <2>5. \A x \in DOMAIN new : IndexOK(new[x], F(x))
    BY <1>2, <2>1, <2>3, <2>4
  <2>6. DOMAIN new \subseteq LiveDirs'
    BY <1>1, <2>1, <2>4
  <2> QED
    BY <2>4, <2>5, <2>6 DEF IndexesOK, F, new
<1>10. MemOK'
  BY <1>9, SameMode DEF MemOK, CacheOK, QueueOK
<1>11. \A m : m \in Links' <=> m \in Links \cup {<<d, n, id>>}
  <2>1. \A m : m \in Links' <=> \E x \in LiveDirs' : \E f \in F(x) : m = <<x, PlainName(f.name), f.inode>>
    BY LinkIs, LinksAre, SMT DEF F
  <2>2. \A m : m \in Links <=> \E x \in LiveDirs : \E f \in E(x) : m = <<x, PlainName(f.name), f.inode>>
    BY LinkIs, LinksAre, SMT DEF E
  <2>3. \A m : (\E x \in LiveDirs' : \E f \in F(x) : m = <<x, PlainName(f.name), f.inode>>)
               <=> (\E x \in LiveDirs : \E f \in F(x) : m = <<x, PlainName(f.name), f.inode>>)
    BY <1>1, <1>2
  <2>4. \A m : (\E x \in LiveDirs : \E f \in F(x) : m = <<x, PlainName(f.name), f.inode>>)
               <=> \/ m = <<d, n, id>>
                   \/ \E x \in LiveDirs : \E f \in E(x) : m = <<x, PlainName(f.name), f.inode>>
    BY <1>2, <1>3, <1>4
  <2> QED
    BY <2>1, <2>2, <2>3, <2>4, SMT
<1>12. Links' = Links \cup {<<d, n, id>>}
  BY <1>11
<1>13. \A m \in Links : ~(m[1] = d /\ m[2] = n)
  <2> SUFFICES ASSUME NEW m \in Links, m[1] = d, m[2] = n PROVE FALSE
    OBVIOUS
  <2>1. PICK x \in LiveDirs : \E f \in E(x) : m = <<x, PlainName(f.name), f.inode>>
    BY LinkIs, LinksAre, SMT DEF E
  <2>2. PICK f \in E(x) : m = <<x, PlainName(f.name), f.inode>>
    BY <2>1
  <2> QED
    BY <1>4, <2>2
<1>14. Tree!Link(d, n, id, kind = "dir")
  BY <1>1, <1>12, <1>13 DEF Tree!Link
<1>15. TreeInv'
  <2>1. TreeInv /\ dir \in BOOLEAN /\ Tree!Link(d, n, id, dir)
    BY <1>14 DEF IInv
  <2> HIDE DEF dir
  <2> QED
    BY <1>3, <2>1, LinkKeepsTree
<1>16. BlocksOwned'
  BY LinkedOwned
<1> QED
  BY <1>8, <1>10, <1>14, <1>15, <1>16 DEF IInv

\* The image as a record of its four parts.
DiskSet == [ib : SUBSET Inodes, db : SUBSET Blocks, it : [Inodes -> InodeRecs],
            blk : [Blocks -> SUBSET EntryRecs]]

\* A sequence with one more element.
LEMMA AppendSet ==
  ASSUME NEW S, NEW s \in Seq(S), NEW x \in S
  PROVE  Append(s, x) \in Seq(S) /\ Range(Append(s, x)) = Range(s) \cup {x}
<1> DEFINE r == Append(s, x)
<1>1. /\ r \in Seq(S) /\ Len(r) = Len(s) + 1 /\ Len(s) \in Nat
      /\ r[Len(s) + 1] = x /\ \A i \in 1 .. Len(s) : r[i] = s[i]
  BY SMT
<1>2. DOMAIN s = 1 .. Len(s) /\ DOMAIN r = 1 .. Len(r)
  BY <1>1, SMT
<1> HIDE DEF r
<1>3. \A y : y \in Range(r) <=> y \in Range(s) \cup {x}
  BY <1>1, <1>2, SMT DEF Range
<1>4. Range(r) = Range(s) \cup {x}
  BY <1>3
<1> QED
  BY <1>1, <1>4 DEF r

\* What Created does to the image is what Linked says.
LEMMA CreatedDisk ==
  ASSUME IInv, NEW c, c.dir \in LiveDirs, c.name \in Names, c.kind \in {"file", "dir"},
         NEW m, NEW id \in Inodes \ disk.ib,
         NEW own \in (Blocks \ disk.db) \cup {None}, c.kind = "dir" <=> own # None,
         NEW grown \in (Blocks \ (disk.db \cup {own})) \cup {None},
         grown = None <=> EntryBlock(disk.it[c.dir]) # None,
         own # None /\ journaled => disk.blk[own] = {}, NEW hint,
         disk' = Created(c, m, disk.it[c.dir], id, own, grown, hint).disk, lost' = lost
  PROVE  /\ disk' \in DiskSet
         /\ Linked(c.dir, id, c.kind, own, grown,
                   IF grown = None THEN EntryBlock(disk.it[c.dir]) ELSE grown,
                   Entry(StoredName(c.dir, c.name), id))
<1> DEFINE d == c.dir
           parent == disk.it[d]
           ino == Inode(c.kind, IF own = None THEN <<>> ELSE <<own>>)
           wider == IF grown = None THEN parent
                    ELSE [parent EXCEPT !.blocks = Append(@, grown)]
           e == Entry(StoredName(d, c.name), id)
           at == EntryBlock(parent)
           slot == IF grown = None THEN at ELSE grown
<1>1. disk' = [ib  |-> disk.ib \cup {id},
               db  |-> disk.db \cup ({own, grown} \ {None}),
               it  |-> [disk.it EXCEPT ![id] = ino, ![d] = wider],
               blk |-> IF grown = None THEN [Zeroed(own) EXCEPT ![at] = @ \cup {e}]
                       ELSE [Zeroed(own) EXCEPT ![grown] = {e}]]
  BY DEF Created
<1>2. /\ disk.it \in [Inodes -> InodeRecs] /\ disk.blk \in [Blocks -> SUBSET EntryRecs]
      /\ disk.ib \in SUBSET Inodes /\ disk.db \in SUBSET Blocks
      /\ d \in Inodes /\ d \in InUse /\ d \in disk.ib
      /\ parent \in InodeRecs /\ parent.kind = "dir"
  BY LiveDir DEF IInv, Typed, LiveDirs, Dirs, InUse
<1>3. id # d /\ None \notin Blocks /\ Range(parent.blocks) \subseteq disk.db
  BY <1>2, OwnedIsUsed, NoneIsNoId
<1>4. e \in EntryRecs /\ e.inode = id
  BY <1>2, NoneIsNoId DEF e, Entry, EntryRecs, StoredName, Enc, Clear
<1>5. ino \in InodeRecs /\ ino.kind = c.kind /\ Range(ino.blocks) = {own} \ {None}
  BY <1>3, SMT DEF Inode, InodeRecs, Range
<1>6. /\ wider \in InodeRecs /\ wider.kind = "dir"
      /\ Range(wider.blocks) = Range(parent.blocks) \cup ({grown} \ {None})
  <2>1. CASE grown = None
    BY <1>2, <2>1
  <2>2. CASE grown # None
    <3>1. parent.blocks \in Seq(Blocks) /\ grown \in Blocks
      BY <1>2, <2>2 DEF InodeRecs
    <3> DEFINE s == Append(parent.blocks, grown)
    <3>2. s \in Seq(Blocks) /\ Range(s) = Range(parent.blocks) \cup {grown}
      BY <3>1, AppendSet, SMT
    <3>3. wider = [parent EXCEPT !.blocks = s]
      BY <2>2
    <3> HIDE DEF s, parent, wider
    <3>5. wider \in InodeRecs /\ wider.kind = "dir" /\ wider.blocks = s
      BY <1>2, <3>2, <3>3 DEF InodeRecs
    <3> QED
      BY <2>2, <3>2, <3>5
  <2> QED
    BY <2>1, <2>2
<1>7. at \in Range(parent.blocks) \cup {None}
  BY <1>2, EntryBlockIs
<1> HIDE DEF e, ino, wider, at, parent
<1>8. /\ disk'.ib = disk.ib \cup {id} /\ disk'.db = disk.db \cup ({own, grown} \ {None})
      /\ disk'.it = [disk.it EXCEPT ![id] = ino, ![d] = wider]
      /\ disk'.blk = IF grown = None THEN [Zeroed(own) EXCEPT ![at] = @ \cup {e}]
                     ELSE [Zeroed(own) EXCEPT ![grown] = {e}]
  BY <1>1, SMT
<1>9. /\ Zeroed(own) \in [Blocks -> SUBSET EntryRecs]
      /\ own # None => Zeroed(own)[own] = {}
      /\ \A b \in Blocks : b # own => Zeroed(own)[b] = disk.blk[b]
  BY <1>2, <1>3 DEF Zeroed
<1> HIDE DEF d
<1>10. /\ disk'.it \in [Inodes -> InodeRecs] /\ disk'.it[id] = ino /\ disk'.it[d] = wider
       /\ \A i \in Inodes \ {id, d} : disk'.it[i] = disk.it[i]
  BY <1>2, <1>3, <1>5, <1>6, <1>8, SMT
<1>11. grown = None => slot \in Range(parent.blocks)
  BY <1>3, <1>7 DEF at, parent, d
<1>12. slot \in Blocks /\ slot # own
  <2>1. CASE grown = None
    BY <1>2, <1>3, <1>11, <2>1
  <2>2. CASE grown # None
    BY <2>2
  <2> QED
    BY <2>1, <2>2
<1>13. disk'.blk = [Zeroed(own) EXCEPT ![slot] = (IF grown = None THEN @ ELSE {}) \cup {e}]
  BY <1>8, ZenonT(30)
<1> HIDE DEF slot
<1>14. /\ disk'.blk \in [Blocks -> SUBSET EntryRecs]
       /\ disk'.blk[slot] = (IF grown = None THEN disk.blk[slot] ELSE {}) \cup {e}
       /\ \A b \in Blocks : b # slot => disk'.blk[b] = Zeroed(own)[b]
  BY <1>2, <1>4, <1>9, <1>12, <1>13, SMT
<1>15. own # None => disk'.blk[own] = {}
  BY <1>9, <1>12, <1>14
<1>16. \A b \in disk.db : b # slot => disk'.blk[b] = disk.blk[b]
  BY <1>2, <1>3, <1>9, <1>14
<1>17. disk' \in DiskSet
  <2>1. disk'.ib \in SUBSET Inodes /\ disk'.db \in SUBSET Blocks
    BY <1>2, <1>8
  <2>2. disk' = [ib |-> disk'.ib, db |-> disk'.db, it |-> disk'.it, blk |-> disk'.blk]
    BY <1>1
  <2> QED
    BY <1>10, <1>14, <2>1, <2>2 DEF DiskSet
<1>18. IF grown = None THEN slot \in Range(disk.it[d].blocks) ELSE slot = grown
  BY <1>11 DEF slot, parent
<1>19. Linked(d, id, c.kind, own, grown, slot, e)
  BY <1>4, <1>5, <1>6, <1>8, <1>10, <1>14, <1>15, <1>16, <1>18 DEF Linked, parent
<1> QED
  BY <1>17, <1>19 DEF slot, e, at, parent, d

\* What Created does to memory.
LEMMA CreatedMem ==
  ASSUME IInv, NEW c, c.dir \in LiveDirs, c.kind \in {"file", "dir"}, NEW m, CacheOK(m, disk.it),
         NEW id \in Inodes, NEW own \in Blocks \cup {None}, NEW grown, NEW hint,
         disk' = Created(c, m, disk.it[c.dir], id, own, grown, hint).disk,
         mem' = Created(c, m, disk.it[c.dir], id, own, grown, hint).mem
  PROVE  /\ CacheOK(mem', disk'.it)
         /\ mem'.index = IF c.dir \in DOMAIN m.index
                         THEN [m.index EXCEPT ![c.dir] =
                                 Noted(m.index[c.dir], Entry(StoredName(c.dir, c.name), id), c.name)]
                         ELSE m.index
<1> DEFINE d == c.dir
           parent == disk.it[d]
           ino == Inode(c.kind, IF own = None THEN <<>> ELSE <<own>>)
           wider == IF grown = None THEN parent
                    ELSE [parent EXCEPT !.blocks = Append(@, grown)]
           e == Entry(StoredName(d, c.name), id)
           one == CacheInsert(m, id, ino)
           two == CacheInsert(one, d, wider)
           it1 == Row(disk.it, id, ino)
           index == IF d \in DOMAIN m.index THEN [m.index EXCEPT ![d] = Noted(m.index[d], e, c.name)]
                    ELSE m.index
<1>1. d \in Inodes /\ disk.it \in [Inodes -> InodeRecs] /\ parent \in InodeRecs
  BY LiveDir DEF IInv, Typed
<1>2. CacheOK(one, it1) /\ one.index = m.index
  BY <1>1, CacheInsertOK, SMT
<1>3. it1 \in [Inodes -> InodeRecs]
  <2>1. ino \in InodeRecs
    BY SMT DEF Inode, InodeRecs
  <2> HIDE DEF ino
  <2> QED
    BY <1>1, <2>1 DEF Row
<1>4. CacheOK(two, disk'.it) /\ two.index = m.index
  <2>1. disk'.it = Row(it1, d, wider)
    <3>1. disk'.it = [disk.it EXCEPT ![id] = ino, ![d] = wider]
      BY DEF Created
    <3> QED
      BY <3>1 DEF Row
  <2> HIDE DEF it1, one, wider
  <2>2. CacheOK(two, disk'.it) /\ two.index = one.index
    BY <1>1, <1>2, <1>3, <2>1, CacheInsertOK, SMT
  <2> QED
    BY <1>2, <2>2
<1>5. mem' = With(two, id + 1, hint, index)
  <2>1. e.inode = id
    BY DEF Entry
  <2>2. mem' = [two EXCEPT !.ihint = id + 1, !.bhint = hint, !.index =
                  IF d \notin DOMAIN m.index THEN m.index
                  ELSE [m.index EXCEPT ![d] =
                          [m.index[d] EXCEPT
                             !.stored = Put(@, e.name, id),
                             !.plain = IF encrypted THEN Put(@, c.name, id) ELSE @]]]
    BY DEF Created
  <2>3. index = IF d \notin DOMAIN m.index THEN m.index
                ELSE [m.index EXCEPT ![d] =
                        [m.index[d] EXCEPT
                           !.stored = Put(@, e.name, id),
                           !.plain = IF encrypted THEN Put(@, c.name, id) ELSE @]]
    BY <2>1 DEF Noted
  <2> HIDE DEF two, index
  <2> QED
    BY <2>2, <2>3 DEF With
<1> HIDE DEF two, index
<1>6. CacheOK(mem', disk'.it) /\ mem'.index = index
  BY <1>4, <1>5, MemHintsIndex, SMT
<1> QED
  BY <1>6 DEF index

\* What the second half of a creation starts from: the parent is live, its
\* lookup answers what its blocks hold, and the ids it would take are free.
LEMMA CreateStart ==
  ASSUME IInv, NoStaleUse, NEW t \in Threads, CreateCommit(t), disk.it[call[t].dir].kind = "dir"
  PROVE  LET c == call[t]
             m == Loaded(mem, c.dir)
             r == DirLookup(m, c.dir, c.name)
         IN  /\ c.dir \in LiveDirs /\ c.name \in Names /\ c.kind \in {"file", "dir"}
             /\ CacheOK(r.mem, disk.it) /\ IndexesOK(r.mem.index, disk, LiveDirs)
             /\ Answers(EntriesIn(disk, disk.it[c.dir]), c.name, r.inode)
<1> DEFINE c == call[t]
           m == Loaded(mem, c.dir)
           r == DirLookup(m, c.dir, c.name)
<1>1. c.op = "create" /\ Avoids("dead_parent", Dead(c.dir))
  BY DEF CreateCommit
<1>2. Typed /\ CallsOK /\ MemOK
  BY DEF IInv
<1>3. c.dir \in Inodes /\ c.name \in Names /\ c.kind \in {"file", "dir"}
  BY <1>1, <1>2 DEF CallsOK, CallOK
<1>4. c.dir \in LiveDirs
  <2>1. c.dir \in Dirs
    BY <1>3 DEF Dirs
  <2> QED
    BY <1>1, <2>1, UsedIsLive
<1>5. DirOK(disk, c.dir)
  BY <1>4, InvDir
<1>6. CacheOK(m, disk.it) /\ IndexesOK(m.index, disk, LiveDirs)
  <2>1. CacheOK(m, disk.it) /\ m.index = mem.index
    BY <1>2, <1>3, LoadedOK DEF MemOK
  <2> QED
    BY <1>2, <2>1 DEF MemOK
<1> HIDE DEF m, c
<1>7. /\ Answers(EntriesIn(disk, disk.it[c.dir]), c.name, r.inode)
      /\ CacheOK(r.mem, disk.it) /\ IndexesOK(r.mem.index, disk, LiveDirs)
  BY <1>2, <1>3, <1>4, <1>5, <1>6, DirLookupOK
<1> QED
  BY <1>3, <1>4, <1>7 DEF c, m

\* A creation without a journal that finds no block leaves an inode taken, and
\* perhaps a block, outside the tree.
LEMMA LeftBehind ==
  ASSUME IInv, NEW id \in Inodes \ disk.ib, NEW own \in (Blocks \ disk.db) \cup {None},
         NEW ino \in InodeRecs,
         disk' = [ib |-> disk.ib \cup {id}, db |-> disk.db \cup ({own} \ {None}),
                  it |-> Row(disk.it, id, ino), blk |-> Zeroed(own)],
         lost' = [inodes |-> lost.inodes \cup {id},
                  blocks |-> lost.blocks \cup ({own} \ {None})],
         UNCHANGED <<journaled, encrypted, steps>>, CallsOK',
         CacheOK(mem', disk'.it), IndexesOK(mem'.index, disk, LiveDirs)
  PROVE  IInv' /\ UNCHANGED <<Links, InUse, LiveDirs>>
<1>1. /\ Typed /\ disk.it \in [Inodes -> InodeRecs] /\ disk.blk \in [Blocks -> SUBSET EntryRecs]
      /\ disk.ib \in SUBSET Inodes /\ disk.db \in SUBSET Blocks
      /\ lost.inodes \in SUBSET Inodes /\ lost.blocks \in SUBSET Blocks
      /\ lost.inodes \subseteq disk.ib
  BY DEF IInv, Typed
<1>2. /\ disk'.ib = disk.ib \cup {id} /\ disk'.db = disk.db \cup ({own} \ {None})
      /\ disk'.it = [disk.it EXCEPT ![id] = ino] /\ disk'.blk = Zeroed(own)
      /\ lost'.inodes = lost.inodes \cup {id}
      /\ lost'.blocks = lost.blocks \cup ({own} \ {None})
  BY DEF Row
<1>3. Zeroed(own) \in [Blocks -> SUBSET EntryRecs] /\ \A b \in disk.db : Zeroed(own)[b] = disk.blk[b]
  BY <1>1, NoneIsNoId DEF Zeroed
<1>4. /\ disk'.it \in [Inodes -> InodeRecs]
      /\ \A i \in Inodes : i # id => disk'.it[i] = disk.it[i]
  BY <1>1, <1>2
<1>5. Typed'
  <2>1. disk' \in [ib : SUBSET Inodes, db : SUBSET Blocks, it : [Inodes -> InodeRecs],
                   blk : [Blocks -> SUBSET EntryRecs]]
    <3>1. disk'.ib \in SUBSET Inodes /\ disk'.db \in SUBSET Blocks
      BY <1>1, <1>2
    <3>2. disk' = [ib |-> disk'.ib, db |-> disk'.db, it |-> disk'.it, blk |-> disk'.blk]
      OBVIOUS
    <3> QED
      BY <1>2, <1>3, <1>4, <3>1, <3>2
  <2>2. lost' \in [inodes : SUBSET Inodes, blocks : SUBSET Blocks] /\ lost'.inodes \subseteq disk'.ib
    BY <1>1, <1>2
  <2> QED
    BY <1>1, <2>1, <2>2 DEF Typed
<1>6. InUse' = InUse /\ id \notin InUse
  BY <1>1, <1>2, SMT DEF InUse
<1>7. LiveDirs' = LiveDirs /\ id \notin LiveDirs
  <2>1. \A i : i \in LiveDirs' <=> i \in LiveDirs
    BY <1>4, <1>6 DEF LiveDirs, Dirs
  <2> QED
    BY <1>6, <2>1 DEF LiveDirs
<1>8. \A i \in InUse : disk'.it[i] = disk.it[i] /\ i \in Inodes
  BY <1>1, <1>4, <1>6 DEF InUse
<1>9. BlocksOwned'
  <2>1. own \notin disk.db /\ own \notin lost.blocks
    BY <1>1, NoneIsNoId DEF IInv, BlocksOwned
  <2>2. \A x : x \in disk.db <=>
          x \in lost.blocks \/ \E i \in InUse : x \in Range(disk.it[i].blocks)
    BY DEF IInv, BlocksOwned
  <2>3. \A x : x \in disk'.db <=>
          x \in lost'.blocks \/ \E i \in InUse : x \in Range(disk'.it[i].blocks)
    BY <1>2, <1>8, <2>2
  <2>4. \A i \in InUse : Range(disk'.it[i].blocks) \cap lost'.blocks = {}
    BY <1>2, <1>8, <2>1, OwnedIsUsed, SMT
  <2>5. \A i, j \in InUse : i # j =>
          Range(disk'.it[i].blocks) \cap Range(disk'.it[j].blocks) = {}
    <3>1. \A i, j \in InUse : i # j =>
            Range(disk.it[i].blocks) \cap Range(disk.it[j].blocks) = {}
      BY DEF IInv, BlocksOwned
    <3> QED
      BY <1>8, <3>1
  <2>6. disk'.db = lost'.blocks \cup UNION {Range(disk'.it[i].blocks) : i \in InUse}
    BY <2>3, SMT
  <2> QED
    BY <1>6, <2>4, <2>5, <2>6 DEF BlocksOwned
<1>10. \A d \in LiveDirs : /\ disk'.it[d] = disk.it[d]
                           /\ \A b \in Range(disk.it[d].blocks) : disk'.blk[b] = disk.blk[b]
  BY <1>2, <1>3, <1>7, OutsideTree, SMT
<1> QED
  BY <1>5, <1>6, <1>7, <1>9, <1>10, Aside

\* One hint or both change: the indexes stay.
LEMMA OnlyHints ==
  ASSUME NEW m, NEW it, CacheOK(m, it), NEW a, NEW b
  PROVE  /\ [m EXCEPT !.ihint = a] = With(m, a, m.bhint, m.index)
         /\ [m EXCEPT !.ihint = a, !.bhint = b] = With(m, a, b, m.index)
<1>1. m = [ihint |-> m.ihint, bhint |-> m.bhint, cache |-> m.cache,
           order |-> m.order, index |-> m.index]
  BY DEF CacheOK
<1>2. DOMAIN m = {"ihint", "bhint", "cache", "order", "index"}
  BY <1>1
<1>3. [m EXCEPT !.ihint = a] = With(m, a, m.bhint, m.index)
  BY <1>2 DEF With
<1>4. [m EXCEPT !.ihint = a, !.bhint = b] = With(m, a, b, m.index)
  BY <1>2 DEF With
<1> QED
  BY <1>3, <1>4

\* The second half of a creation keeps the invariant; it links one name, or the
\* tree stays as it was.
LEMMA CreateCommitStep ==
  ASSUME IInv, NoStaleUse, NEW t \in Threads, CreateCommit(t)
  PROVE  IInv' /\ [Tree!Next]_<<Links, InUse, LiveDirs>>
<1> DEFINE c == call[t]
           m == Loaded(mem, c.dir)
           parent == ReadInode(mem, c.dir)
           r == DirLookup(m, c.dir, c.name)
           id == FirstFree(disk.ib, Inodes, m.ihint)
           own == IF c.kind = "dir" THEN FirstFree(disk.db, Blocks, m.bhint) ELSE None
           grows == EntryBlock(parent) = None
           after == IF own = None THEN m.bhint ELSE own + 1
           grown == IF grows THEN FirstFree(disk.db \cup {own}, Blocks, after) ELSE None
           hint == IF grown = None THEN after ELSE grown + 1
           full == IF id = None THEN "inode"
                   ELSE IF c.kind = "dir" /\ own = None THEN "own"
                   ELSE IF grows /\ grown = None THEN "grown" ELSE ""
           leftInode == Inode(c.kind, IF own = None THEN <<>> ELSE <<own>>)
           done == Created(c, r.mem, parent, id, own, grown, hint)
           A1 == parent.kind # "dir" /\ mem' = m /\ UNCHANGED <<disk, lost>>
           A2 == parent.kind = "dir" /\ mem' = r.mem /\ UNCHANGED <<disk, lost>>
           A3 == /\ parent.kind = "dir" /\ r.inode = None /\ full = ""
                 /\ disk' = done.disk /\ mem' = done.mem /\ UNCHANGED lost
           A4 == /\ parent.kind = "dir" /\ full = "own"
                 /\ disk' = [disk EXCEPT !.ib = @ \cup {id}]
                 /\ mem' = [r.mem EXCEPT !.ihint = id + 1]
                 /\ lost' = [lost EXCEPT !.inodes = @ \cup {id}]
           A5 == /\ parent.kind = "dir" /\ full = "grown"
                 /\ disk' = [disk EXCEPT !.ib = @ \cup {id}, !.it[id] = leftInode,
                                    !.db = @ \cup ({own} \ {None}), !.blk = Zeroed(own)]
                 /\ mem' = [CacheInsert(r.mem, id, leftInode)
                              EXCEPT !.ihint = id + 1, !.bhint = after]
                 /\ lost' = [inodes |-> lost.inodes \cup {id},
                             blocks |-> lost.blocks \cup ({own} \ {None})]
<1>1. /\ SecondHalf /\ c.op = "create" /\ Return(t)
      /\ Avoids("dirty_block", journaled /\ own # None /\ disk.blk[own] # {})
      /\ A1 \/ A2 \/ A3 \/ A4 \/ A5
  BY DEF CreateCommit
<1>2. /\ Typed /\ CallsOK /\ MemOK /\ c.dir \in Inodes
      /\ UNCHANGED <<steps, journaled, encrypted>>
  BY <1>1, ZenonT(30) DEF IInv, SecondHalf, CallsOK, CallOK
<1>3. CallsOK'
  BY <1>1, <1>2, CallEnds
<1>4. steps' \in 0 .. MaxSteps
  BY <1>2 DEF Typed
<1>5. parent = disk.it[c.dir] /\ CacheOK(m, disk.it) /\ IndexesOK(m.index, disk, LiveDirs)
  <2>1. parent = disk.it[c.dir] /\ CacheOK(m, disk.it) /\ m.index = mem.index
    BY <1>2, LoadedOK DEF MemOK
  <2> QED
    BY <1>2, <2>1 DEF MemOK
<1>6. CASE A1
  BY <1>2, <1>3, <1>4, <1>5, <1>6, MemStep
<1>7. ASSUME parent.kind = "dir"
      PROVE  /\ c.dir \in LiveDirs /\ c.name \in Names /\ c.kind \in {"file", "dir"}
             /\ CacheOK(r.mem, disk.it) /\ IndexesOK(r.mem.index, disk, LiveDirs)
             /\ Answers(EntriesIn(disk, disk.it[c.dir]), c.name, r.inode)
  BY <1>5, <1>7, CreateStart
<1>8. /\ id \in (Inodes \ disk.ib) \cup {None}
      /\ own \in (Blocks \ disk.db) \cup {None}
      /\ grown \in (Blocks \ (disk.db \cup {own})) \cup {None}
  BY FreeInode, FreeBlock
<1>9. CASE A2
  <2> HIDE DEF r
  <2> QED
    BY <1>2, <1>3, <1>4, <1>7, <1>9, MemStep
<1>10. full \in {"", "own", "grown"} => id # None
  OBVIOUS
<1>11. CASE A3
  <2>1. /\ id # None /\ (c.kind = "dir" => own # None) /\ (grows => grown # None)
    BY <1>11
  <2>2. own # None => c.kind = "dir"
    OBVIOUS
  <2>3. grown = None <=> EntryBlock(disk.it[c.dir]) # None
    BY <1>5, <2>1
  <2>4. own # None /\ journaled => disk.blk[own] = {}
    BY <1>1, ZenonT(30) DEF NoStaleUse, Avoids
  <2> DEFINE e == Entry(StoredName(c.dir, c.name), id)
             slot == IF grown = None THEN EntryBlock(disk.it[c.dir]) ELSE grown
  <2>5. /\ disk' = Created(c, r.mem, disk.it[c.dir], id, own, grown, hint).disk
        /\ mem' = Created(c, r.mem, disk.it[c.dir], id, own, grown, hint).mem
        /\ lost' = lost /\ r.inode = None
    BY <1>5, <1>11, ZenonT(30)
  <2> HIDE DEF c, m, parent, r, id, own, grown, hint
  <2>6. /\ c.dir \in LiveDirs /\ c.name \in Names /\ c.kind \in {"file", "dir"}
        /\ CacheOK(r.mem, disk.it) /\ IndexesOK(r.mem.index, disk, LiveDirs)
        /\ Answers(EntriesIn(disk, disk.it[c.dir]), c.name, r.inode)
    BY <1>7, <1>11
  <2>7. id \in Inodes \ disk.ib
    BY <1>8, <2>1
  <2>8. disk' \in DiskSet /\ Linked(c.dir, id, c.kind, own, grown, slot, e)
    BY <1>8, <2>1, <2>2, <2>3, <2>4, <2>5, <2>6, <2>7, CreatedDisk
  <2>9. /\ CacheOK(mem', disk'.it)
        /\ mem'.index = IF c.dir \in DOMAIN r.mem.index
                        THEN [r.mem.index EXCEPT ![c.dir] =
                                Noted(r.mem.index[c.dir], e, c.name)]
                        ELSE r.mem.index
    BY <1>8, <2>5, <2>6, <2>7, CreatedMem
  <2>10. Typed'
    <3>1. disk'.ib = disk.ib \cup {id}
      BY <2>8 DEF Linked
    <3> QED
      BY <1>2, <2>5, <2>8, <3>1 DEF Typed, DiskSet
  <2>11. e.name = StoredName(c.dir, c.name)
    BY DEF Entry
  <2> HIDE DEF e, slot
  <2>12. IInv' /\ Tree!Link(c.dir, c.name, id, c.kind = "dir")
    BY <1>2, <1>3, <2>5, <2>6, <2>8, <2>9, <2>10, <2>11, LinkedStep
  <2>13. Tree!Next
    <3>1. (c.kind = "dir") \in BOOLEAN
      OBVIOUS
    <3> QED
      BY <1>2, <2>6, <2>7, <2>12, <3>1 DEF Tree!Next
  <2> QED
    BY <2>12, <2>13
<1>12. CASE A4
  <2>1. id # None /\ own = None
    BY <1>12
  <2>2. /\ parent.kind = "dir" /\ disk' = [disk EXCEPT !.ib = @ \cup {id}]
        /\ mem' = [r.mem EXCEPT !.ihint = id + 1]
        /\ lost' = [lost EXCEPT !.inodes = @ \cup {id}]
    BY <1>12
  <2> HIDE DEF c, m, parent, r, id, own, grown, hint, full
  <2>3. CacheOK(r.mem, disk.it) /\ IndexesOK(r.mem.index, disk, LiveDirs)
    BY <1>7, <2>2
  <2>4. id \in Inodes \ disk.ib
    BY <1>8, <2>1
  <2>5. /\ Row(disk.it, id, disk.it[id]) = disk.it /\ disk.it[id] \in InodeRecs
        /\ Zeroed(None) = disk.blk
    BY <1>2, <2>4, NoneIsNoId, SMT DEF Typed, Row, Zeroed
  <2>6. disk' = [ib |-> disk.ib \cup {id}, db |-> disk.db \cup ({None} \ {None}),
                 it |-> Row(disk.it, id, disk.it[id]), blk |-> Zeroed(None)]
    BY <1>2, <2>2, <2>5 DEF Typed
  <2>7. lost' = [inodes |-> lost.inodes \cup {id}, blocks |-> lost.blocks \cup ({None} \ {None})]
    BY <1>2, <2>2 DEF Typed
  <2>8. mem' = With(r.mem, id + 1, r.mem.bhint, r.mem.index) /\ disk'.it = disk.it
    BY <2>2, <2>3, <2>5, <2>6, OnlyHints
  <2>9. CacheOK(mem', disk'.it) /\ IndexesOK(mem'.index, disk, LiveDirs)
    BY <2>3, <2>8, MemHintsIndex, SMT
  <2>10. IInv' /\ UNCHANGED <<Links, InUse, LiveDirs>>
    BY <1>2, <1>3, <2>4, <2>5, <2>6, <2>7, <2>9, LeftBehind
  <2> QED
    BY <2>10
<1>13. CASE A5
  <2>1. id # None
    BY <1>13
  <2>2. /\ parent.kind = "dir"
        /\ disk' = [disk EXCEPT !.ib = @ \cup {id}, !.it[id] = leftInode,
                                !.db = @ \cup ({own} \ {None}), !.blk = Zeroed(own)]
        /\ mem' = [CacheInsert(r.mem, id, leftInode) EXCEPT !.ihint = id + 1, !.bhint = after]
        /\ lost' = [inodes |-> lost.inodes \cup {id}, blocks |-> lost.blocks \cup ({own} \ {None})]
    BY <1>13
  <2> DEFINE n == CacheInsert(r.mem, id, leftInode)
  <2> HIDE DEF c, m, parent, r, id, own, grown, hint, full, after
  <2>3. CacheOK(r.mem, disk.it) /\ IndexesOK(r.mem.index, disk, LiveDirs) /\ c.kind \in {"file", "dir"}
    BY <1>7, <2>2
  <2>4. id \in Inodes \ disk.ib
    BY <1>8, <2>1
  <2>5. leftInode \in InodeRecs
    BY <1>8, <2>3, SMT DEF Inode, InodeRecs
  <2> HIDE DEF leftInode
  <2>6. disk' = [ib |-> disk.ib \cup {id}, db |-> disk.db \cup ({own} \ {None}),
                 it |-> Row(disk.it, id, leftInode), blk |-> Zeroed(own)]
    BY <1>2, <2>2 DEF Typed, Row
  <2>7. CacheOK(n, disk'.it) /\ n.index = r.mem.index
    <3>1. disk'.it = Row(disk.it, id, leftInode) /\ disk.it \in [Inodes -> InodeRecs]
      BY <1>2, <2>6 DEF Typed
    <3> QED
      BY <2>3, <2>4, <3>1, CacheInsertOK, SMT
  <2> HIDE DEF n
  <2>8. mem' = With(n, id + 1, after, n.index)
    BY <2>2, <2>7, OnlyHints DEF n
  <2>9. CacheOK(mem', disk'.it) /\ IndexesOK(mem'.index, disk, LiveDirs)
    BY <2>3, <2>7, <2>8, MemHintsIndex, SMT
  <2>10. IInv' /\ UNCHANGED <<Links, InUse, LiveDirs>>
    BY <1>2, <1>3, <1>8, <2>2, <2>4, <2>5, <2>6, <2>9, LeftBehind
  <2> QED
    BY <2>10
<1> QED
  BY <1>1, <1>6, <1>9, <1>11, <1>12, <1>13

(***************************************************************************)
(* A deletion                                                              *)
(***************************************************************************)

\* What the second half of a deletion goes by is an entry of the directory, in
\* one of its blocks: the answer of the first half may be out of date, and what
\* could make it wrong is left out.
LEMMA DeleteStart ==
  ASSUME IInv, NoStaleUse, NEW t \in Threads, DeleteCommit(t),
         disk.it[call[t].dir].kind = "dir", EntryToDelete(call[t]).inode # None
  PROVE  LET c == call[t]
             e == EntryToDelete(c)
         IN  /\ c.dir \in LiveDirs /\ c.name \in Names
             /\ e.inode \in Inodes /\ e.block \in Range(disk.it[c.dir].blocks)
             /\ PlainName(e.name) = c.name
             /\ Entry(e.name, e.inode) \in disk.blk[e.block]
<1> DEFINE c == call[t]
           e == EntryToDelete(c)
           d == c.dir
           parent == ReadInode(mem, d)
           at == LocateEntryInDir(disk, disk.it[d], e.name)
<1>1. /\ c.op = "delete" /\ Avoids("dead_parent", Dead(d))
      /\ Avoids("stale_target", parent.kind = "dir" /\ e.inode # None /\
                   LocateEntryInDir(disk, parent, e.name)
                     # [inode |-> e.inode, block |-> e.block])
  BY DEF DeleteCommit
<1>2. Typed /\ CallsOK /\ CacheOK(mem, disk.it)
  BY DEF IInv, MemOK
<1>3. d \in Inodes /\ c.name \in Names /\ c.entry.name \in {StoredName(d, c.name), Clear(c.name)}
  BY <1>1, <1>2 DEF CallsOK, CallOK
<1>4. d \in LiveDirs /\ parent = disk.it[d]
  <2>1. d \in Dirs
    BY <1>3 DEF Dirs
  <2>2. parent = disk.it[d]
    BY <1>2, <1>3, LoadedOK
  <2> QED
    BY <1>1, <2>1, <2>2, UsedIsLive
<1>5. DirOK(disk, d) /\ disk.it[d] \in InodeRecs /\ Range(disk.it[d].blocks) \subseteq Blocks
  BY <1>2, <1>4, InvDir, LiveDir
<1>6. at = [inode |-> e.inode, block |-> e.block]
  BY <1>1, <1>4 DEF NoStaleUse, Avoids
<1>7. e.name \in {StoredName(d, c.name), Clear(c.name)}
  <2>1. e = c.entry \/ e = LocateAny(disk, disk.it[d], d, c.name)
    BY <1>4 DEF EntryToDelete
  <2>2. LocateAny(disk, disk.it[d], d, c.name).name \in {StoredName(d, c.name), Clear(c.name)}
    BY <1>2, <1>3, <1>4, <1>5, LocateAnyIs
  <2> QED
    BY <1>3, <2>1, <2>2
<1> HIDE DEF e, c
<1>8. /\ at.inode \in Inodes /\ at.block \in Range(disk.it[d].blocks)
      /\ \E x \in disk.blk[at.block] : x.name = e.name /\ x.inode = at.inode
  <2>1. at.inode # None
    BY <1>6, SMT DEF e, c
  <2> HIDE DEF at
  <2>2. \/ /\ at.inode = None /\ at.block = None
           /\ \A x \in EntriesIn(disk, disk.it[d]) : x.name # e.name
        \/ /\ at.inode \in Inodes /\ at.block \in Range(disk.it[d].blocks)
           /\ \E x \in disk.blk[at.block] : x.name = e.name /\ x.inode = at.inode
    BY <1>2, <1>5, LocateEntry DEF at
  <2> QED
    BY <2>1, <2>2
<1>9. at.inode = e.inode /\ at.block = e.block
  BY <1>6, SMT
<1> HIDE DEF at
<1>10. PICK x \in disk.blk[e.block] : x.name = e.name /\ x.inode = e.inode
  BY <1>8, <1>9
<1>11. x \in EntryRecs
  BY <1>2, <1>5, <1>8, <1>9, <1>10 DEF Typed
<1>12. x = Entry(e.name, e.inode)
  BY <1>10, <1>11 DEF EntryRecs, Entry
<1>13. PlainName(e.name) = c.name
  BY <1>7, StoredPlain, SMT
<1> QED
  BY <1>3, <1>4, <1>8, <1>9, <1>10, <1>12, <1>13 DEF e, c

\* What a deletion does to the image: entry  x  leaves block  at  of directory
\*  d , and its inode, with nothing in it, is freed with its blocks.
Cut(d, x, at) ==
  /\ at \in Range(disk.it[d].blocks) /\ x \in disk.blk[at] /\ x.inode \in Inodes
  /\ disk.it[x.inode].kind = "dir" => EntriesIn(disk, disk.it[x.inode]) = {}
  /\ disk'.ib = disk.ib \ {x.inode}
  /\ disk'.db = disk.db \ Range(disk.it[x.inode].blocks)
  /\ disk'.it = disk.it
  /\ disk'.blk[at] = disk.blk[at] \ {x}
  /\ \A b \in Blocks : b # at => disk'.blk[b] = disk.blk[b]
  /\ lost' = lost

\* The inode that goes is in use, is not the root or the directory, and no
\* link leaves it.
LEMMA CutInUse ==
  ASSUME IInv, NEW d \in LiveDirs, NEW x, NEW at, Cut(d, x, at)
  PROVE  /\ <<d, PlainName(x.name), x.inode>> \in Links
         /\ x \in EntriesIn(disk, disk.it[d])
         /\ x.inode \in InUse \ {Root} /\ x.inode # d
         /\ \A m \in Links : m[1] # x.inode
         /\ InUse' = InUse \ {x.inode} /\ LiveDirs' = LiveDirs \ {x.inode}
<1> DEFINE i == x.inode
           E(y) == EntriesIn(disk, disk.it[y])
<1>1. x \in E(d)
  BY EntryIn DEF Cut
<1>2. \A m : m \in Links <=> \E y \in LiveDirs : \E f \in E(y) : m = <<y, PlainName(f.name), f.inode>>
  BY LinkIs, LinksAre, SMT
<1> HIDE DEF E
<1>3. <<d, PlainName(x.name), i>> \in Links
  BY <1>1, <1>2
<1>4. \A m \in Links : m[1] \in LiveDirs /\ m[3] \in InUse \ {Root}
  BY DEF IInv, TreeInv, Tree!WellFormed
<1>5. i \in InUse \ {Root}
  BY <1>3, <1>4
<1>6. i \in LiveDirs => E(i) = {}
  BY DEF Cut, LiveDirs, Dirs, E
<1>7. i # d
  BY <1>1, <1>6
<1>8. \A m \in Links : m[1] # i
  <2> SUFFICES ASSUME NEW m \in Links, m[1] = i PROVE FALSE
    OBVIOUS
  <2>1. PICK y \in LiveDirs : \E f \in E(y) : m = <<y, PlainName(f.name), f.inode>>
    BY <1>2
  <2>2. y = i
    BY <2>1, SMT
  <2> QED
    BY <1>6, <2>1, <2>2
<1>9. InUse' = InUse \ {i}
  BY DEF Cut, InUse
<1>10. LiveDirs' = LiveDirs \ {i}
  BY <1>9 DEF Cut, LiveDirs, Dirs
<1> QED
  BY <1>1, <1>3, <1>5, <1>7, <1>8, <1>9, <1>10 DEF E

\* The blocks of the inode that goes are the ones that become free.
LEMMA CutOwned ==
  ASSUME IInv, NEW d \in LiveDirs, NEW x, NEW at, Cut(d, x, at)
  PROVE  BlocksOwned'
<1> DEFINE i == x.inode
           O(j) == Range(disk.it[j].blocks)
<1>1. i \in InUse /\ InUse' = InUse \ {i}
  BY CutInUse
<1>2. /\ \A b : b \in disk.db <=> b \in lost.blocks \/ \E j \in InUse : b \in O(j)
      /\ \A j \in InUse : O(j) \cap lost.blocks = {}
      /\ \A j, k \in InUse : j # k => O(j) \cap O(k) = {}
  BY DEF IInv, BlocksOwned
<1>3. disk'.db = disk.db \ O(i) /\ disk'.it = disk.it /\ lost' = lost
  BY DEF Cut
<1> HIDE DEF O
<1>4. \A b : b \in disk'.db <=> b \in lost.blocks \/ \E j \in InUse \ {i} : b \in O(j)
  BY <1>1, <1>2, <1>3
<1>5. disk'.db = lost.blocks \cup UNION {O(j) : j \in InUse \ {i}}
  BY <1>4
<1>6. /\ disk'.db = lost'.blocks \cup UNION {Range(disk'.it[j].blocks) : j \in InUse'}
      /\ \A j \in InUse' : Range(disk'.it[j].blocks) \cap lost'.blocks = {}
      /\ \A j, k \in InUse' : j # k => Range(disk'.it[j].blocks) \cap Range(disk'.it[k].blocks) = {}
  BY <1>1, <1>2, <1>3, <1>5, SMT DEF O
<1> QED
  BY <1>6 DEF BlocksOwned

\* The entries after a deletion: one fewer in the directory, the same elsewhere.
LEMMA CutEntries ==
  ASSUME IInv, NEW d \in LiveDirs, NEW x, NEW at, Cut(d, x, at)
  PROVE  /\ \A y \in LiveDirs : y # d =>
              /\ EntriesIn(disk', disk'.it[y]) = EntriesIn(disk, disk.it[y])
              /\ DirOK(disk', y)
         /\ EntriesIn(disk', disk'.it[d]) = EntriesIn(disk, disk.it[d]) \ {x}
         /\ DirOK(disk', d)
<1> DEFINE O(y) == Range(disk.it[y].blocks)
<1>1. /\ at \in O(d) /\ x \in disk.blk[at] /\ disk'.it = disk.it
      /\ disk'.blk[at] = disk.blk[at] \ {x}
      /\ \A b \in Blocks : b # at => disk'.blk[b] = disk.blk[b]
  BY DEF Cut
<1>2. \A y \in LiveDirs : y \in InUse /\ O(y) \subseteq Blocks /\ DirOK(disk, y)
  BY LiveDir DEF IInv, LiveDirs
<1>3. \A y \in LiveDirs : y # d => O(y) \cap O(d) = {}
  BY <1>2 DEF IInv, BlocksOwned
<1>4. ASSUME NEW y \in LiveDirs, y # d
      PROVE  /\ EntriesIn(disk', disk'.it[y]) = EntriesIn(disk, disk.it[y])
             /\ DirOK(disk', y)
  <2>1. disk'.it[y] = disk.it[y] /\ \A b \in O(y) : disk'.blk[b] = disk.blk[b]
    BY <1>1, <1>2, <1>3, <1>4
  <2> QED
    BY <1>2, <2>1, SameEntries
<1>5. \A b \in O(d) : \A f : f \in disk'.blk[b] <=> f \in disk.blk[b] /\ f # x
  <2> SUFFICES ASSUME NEW b \in O(d), NEW f
               PROVE  f \in disk'.blk[b] <=> f \in disk.blk[b] /\ f # x
    OBVIOUS
  <2>1. CASE b = at
    BY <1>1, <2>1
  <2>2. CASE b # at
    <3>1. disk'.blk[b] = disk.blk[b]
      BY <1>1, <1>2, <2>2
    <3>2. x \notin disk.blk[b]
      BY <1>1, <1>2, <2>2, SMT DEF DirOK
    <3> QED
      BY <3>1, <3>2
  <2> QED
    BY <2>1, <2>2
<1>6. \A f : f \in EntriesIn(disk', disk'.it[d]) <=> f \in EntriesIn(disk, disk.it[d]) \ {x}
  BY <1>1, <1>5, EntryIn, SMT
<1>7. EntriesIn(disk', disk'.it[d]) = EntriesIn(disk, disk.it[d]) \ {x}
  BY <1>6
<1>8. DirOK(disk', d)
  <2>1. DirOK(disk, d)
    BY <1>2
  <2>2. \A f \in EntriesIn(disk', disk'.it[d]) :
          \E n \in Names : f.name = StoredName(d, n) \/ f.name = Clear(n)
    BY <1>7, <2>1 DEF DirOK
  <2>3. \A b, c \in Range(disk'.it[d].blocks) : \A f \in disk'.blk[b], g \in disk'.blk[c] :
          PlainName(f.name) = PlainName(g.name) => b = c /\ f = g
    BY <1>1, <1>5, <2>1, SMT DEF DirOK
  <2> QED
    BY <2>2, <2>3 DEF DirOK
<1> QED
  BY <1>4, <1>7, <1>8

\* An index that forgets an entry, of plain name  n .
Forgot(ix, x, n) == [ix EXCEPT !.stored = Drop(@, x.name), !.plain = Drop(@, n)]

\* It is the index of the directory without that entry.
LEMMA IndexForgot ==
  ASSUME NEW E, NEW ix, IndexOK(ix, E), NEW x \in E, NEW n, PlainName(x.name) = n,
         \A f \in E : PlainName(f.name) = n => f = x
  PROVE  IndexOK(Forgot(ix, x, n), E \ {x})
<1> DEFINE s == Drop(ix.stored, x.name)
           p == Drop(ix.plain, n)
           new == Forgot(ix, x, n)
<1>1. ix = [complete |-> ix.complete, scans |-> ix.scans,
            stored |-> ix.stored, plain |-> ix.plain]
  BY DEF IndexOK
<1>2. new = [complete |-> ix.complete, scans |-> ix.scans, stored |-> s, plain |-> p]
  <2>1. DOMAIN ix = {"complete", "scans", "stored", "plain"}
    BY <1>1
  <2>2. new = [f \in {"complete", "scans", "stored", "plain"} |->
                 IF f = "plain" THEN p ELSE IF f = "stored" THEN s ELSE ix[f]]
    BY <2>1 DEF Forgot
  <2> HIDE DEF new, s, p
  <2> QED
    BY <2>2
<1>3. /\ DOMAIN s = DOMAIN ix.stored \ {x.name} /\ \A k \in DOMAIN s : s[k] = ix.stored[k]
      /\ DOMAIN p = DOMAIN ix.plain \ {n} /\ \A k \in DOMAIN p : p[k] = ix.plain[k]
  BY DEF Drop
<1> HIDE DEF new, s, p
<1>4. \A k \in DOMAIN s : \E f \in E \ {x} : f.name = k /\ f.inode = s[k]
  BY <1>3, SMT DEF IndexOK
<1>5. ix.complete => \A f \in E \ {x} : f.name \in DOMAIN s
  BY <1>3 DEF IndexOK, PlainName
<1>6. encrypted => \A k \in DOMAIN p : \E f \in E \ {x} : PlainName(f.name) = k /\ f.inode = p[k]
  BY <1>3 DEF IndexOK
<1>7. IndexOK(new, E \ {x})
  BY <1>2, <1>4, <1>5, <1>6, SMT DEF IndexOK
<1> QED
  BY <1>7 DEF new

\* A deletion keeps the invariant and cuts the entry's link, whatever index it
\* leaves of a directory as long as it is told.
LEMMA CutStep ==
  ASSUME IInv, NEW d \in LiveDirs, NEW x, NEW at, Cut(d, x, at),
         NEW index, IndexesOK(index, disk, LiveDirs),
         mem'.index = Drop(IF d \in DOMAIN index
                           THEN [index EXCEPT ![d] = Forgot(index[d], x, PlainName(x.name))]
                           ELSE index, x.inode),
         encrypted' = encrypted, Typed', CallsOK', CacheOK(mem', disk'.it)
  PROVE  IInv' /\ Tree!Next
<1> DEFINE E(y) == EntriesIn(disk, disk.it[y])
           F(y) == EntriesIn(disk', disk'.it[y])
           n == PlainName(x.name)
           i == x.inode
           link == <<d, n, i>>
<1>1. /\ link \in Links /\ x \in E(d) /\ i \in InUse \ {Root} /\ i # d
      /\ \A m \in Links : m[1] # i
      /\ InUse' = InUse \ {i} /\ LiveDirs' = LiveDirs \ {i}
  BY CutInUse
<1>2. /\ \A y \in LiveDirs : y # d => F(y) = E(y) /\ DirOK(disk', y)
      /\ F(d) = E(d) \ {x} /\ DirOK(disk', d)
  BY CutEntries
<1>3. \A f \in E(d) : PlainName(f.name) = n => f = x
  <2>1. DirOK(disk, d)
    BY InvDir
  <2> QED
    BY <1>1, <2>1, NameOnce
<1> HIDE DEF E, F
<1>4. \A y \in LiveDirs' : DirOK(disk', y)
  BY <1>1, <1>2
<1>5. \A y \in LiveDirs' : (DirOK(disk, y))'
  BY <1>4, SameMode
<1>6. IndexesOK(mem'.index, disk', LiveDirs')
  <2> DEFINE told == IF d \in DOMAIN index THEN [index EXCEPT ![d] = Forgot(index[d], x, n)] ELSE index
             new == mem'.index
  <2>1. index = [y \in DOMAIN index |-> index[y]] /\ DOMAIN index \subseteq LiveDirs
        /\ \A y \in DOMAIN index : IndexOK(index[y], E(y))
    BY DEF IndexesOK, E
  <2>2. d \in DOMAIN index => IndexOK(Forgot(index[d], x, n), F(d))
    <3>1. d \in DOMAIN index => IndexOK(index[d], E(d))
      BY <2>1
    <3>2. n = PlainName(x.name)
      OBVIOUS
    <3> HIDE DEF n
    <3>3. d \in DOMAIN index => IndexOK(Forgot(index[d], x, n), E(d) \ {x})
      BY <1>1, <1>3, <3>1, <3>2, IndexForgot
    <3> QED
      BY <1>2, <3>3
  <2>3. /\ DOMAIN told = DOMAIN index
        /\ \A y \in DOMAIN told : told[y] = IF y = d THEN Forgot(index[d], x, n) ELSE index[y]
    BY <2>1
  <2>4. new = Drop(told, i)
    OBVIOUS
  <2> HIDE DEF new, told
  <2>5. /\ DOMAIN new = DOMAIN index \ {i} /\ new = [y \in DOMAIN new |-> new[y]]
        /\ \A y \in DOMAIN new : new[y] = IF y = d THEN Forgot(index[d], x, n) ELSE index[y]
    BY <2>3, <2>4 DEF Drop
  <2>6. \A y \in DOMAIN new : IndexOK(new[y], F(y))
    BY <1>2, <2>1, <2>2, <2>5
  <2>7. DOMAIN new \subseteq LiveDirs'
    BY <1>1, <2>1, <2>5
  <2> QED
    BY <2>5, <2>6, <2>7 DEF IndexesOK, F, new
<1>7. MemOK'
  BY <1>6, SameMode DEF MemOK, CacheOK, QueueOK
<1>8. \A m : m \in Links' <=> m \in Links \ {link}
  <2>1. \A m : m \in Links' <=> \E y \in LiveDirs' : \E f \in F(y) : m = <<y, PlainName(f.name), f.inode>>
    BY LinkIs, LinksAre, SMT DEF F
  <2>2. \A m : m \in Links <=> \E y \in LiveDirs : \E f \in E(y) : m = <<y, PlainName(f.name), f.inode>>
    BY LinkIs, LinksAre, SMT DEF E
  <2>3. ASSUME NEW m, m \in Links' PROVE m \in Links \ {link}
    <3>1. PICK y \in LiveDirs' : \E f \in F(y) : m = <<y, PlainName(f.name), f.inode>>
      BY <2>1, <2>3
    <3>2. PICK f \in F(y) : m = <<y, PlainName(f.name), f.inode>>
      BY <3>1
    <3>3. y \in LiveDirs /\ f \in E(y) /\ (y = d => f # x)
      BY <1>1, <1>2, <3>1, <3>2
    <3>4. m # link
      BY <1>3, <3>2, <3>3
    <3> QED
      BY <2>2, <3>2, <3>3, <3>4
  <2>4. ASSUME NEW m, m \in Links \ {link} PROVE m \in Links'
    <3>1. PICK y \in LiveDirs : \E f \in E(y) : m = <<y, PlainName(f.name), f.inode>>
      BY <2>2, <2>4
    <3>2. PICK f \in E(y) : m = <<y, PlainName(f.name), f.inode>>
      BY <3>1
    <3>3. y \in LiveDirs' /\ f \in F(y)
      <4>1. m[1] # i /\ m[1] = y
        BY <1>1, <2>4, <3>2
      <4>2. y = d => f # x
        BY <2>4, <3>2
      <4> QED
        BY <1>1, <1>2, <3>1, <3>2, <4>1, <4>2
    <3> QED
      BY <2>1, <3>2, <3>3
  <2> QED
    BY <2>3, <2>4
<1>9. Links' = Links \ {link}
  BY <1>8
<1>10. Tree!Unlink(link)
  BY <1>1, <1>9 DEF Tree!Unlink
<1>11. TreeInv'
  <2>1. TreeInv
    BY DEF IInv
  <2> HIDE DEF link
  <2> QED
    BY <1>1, <1>10, <2>1, UnlinkKeepsTree
<1>12. BlocksOwned'
  BY CutOwned
<1>13. Tree!Next
  <2> HIDE DEF link
  <2> QED
    BY <1>1, <1>10 DEF Tree!Next
<1> QED
  BY <1>5, <1>7, <1>11, <1>12, <1>13 DEF IInv

\* The second half of a deletion keeps the invariant; it cuts one link with
\* nothing below it, or the tree stays as it was.
LEMMA DeleteCommitStep ==
  ASSUME IInv, NoStaleUse, NEW t \in Threads, DeleteCommit(t)
  PROVE  IInv' /\ [Tree!Next]_<<Links, InUse, LiveDirs>>
<1> DEFINE c == call[t]
           d == c.dir
           parent == ReadInode(mem, d)
           e == EntryToDelete(c)
           i == e.inode
           target == ReadInode(mem, i)
           m == Loaded(Loaded(mem, d), i)
           freed == CollectInodeBlocks(target)
           two == CacheInsert(CacheRemove(m, i), d, parent)
           A1 == mem' = Loaded(mem, d) /\ UNCHANGED disk
           A2 == parent.kind = "dir" /\ i # None /\ mem' = m /\ UNCHANGED disk
           A3 == /\ parent.kind = "dir" /\ i # None /\ ~Filled(target)
                 /\ disk' = Unlinked(e, freed)
                 /\ mem' = [two EXCEPT
                      !.ihint = Min({@, i}), !.bhint = Min({@} \cup freed),
                      !.index = Forgotten(m.index, c, e)]
<1>1. /\ SecondHalf /\ c.op = "delete" /\ Return(t) /\ lost' = lost
      /\ Avoids("first_block", i # None /\ target.kind = "dir" /\
                   target.blocks # <<>> /\ disk.blk[target.blocks[1]] = {} /\
                   EntriesIn(disk, target) # {})
      /\ A1 \/ A2 \/ A3
  BY DEF DeleteCommit
<1>2. /\ Typed /\ CallsOK /\ MemOK /\ d \in Inodes
      /\ UNCHANGED <<steps, journaled, encrypted>>
  BY <1>1, ZenonT(30) DEF IInv, SecondHalf, CallsOK, CallOK
<1>3. CallsOK'
  BY <1>1, <1>2, CallEnds
<1>4. steps' \in 0 .. MaxSteps
  BY <1>2 DEF Typed
<1>5. /\ parent = disk.it[d] /\ CacheOK(Loaded(mem, d), disk.it)
      /\ IndexesOK(Loaded(mem, d).index, disk, LiveDirs)
  <2>1. parent = disk.it[d] /\ CacheOK(Loaded(mem, d), disk.it) /\ Loaded(mem, d).index = mem.index
    BY <1>2, LoadedOK DEF MemOK
  <2> QED
    BY <1>2, <2>1 DEF MemOK
<1>6. CASE A1
  BY <1>1, <1>2, <1>3, <1>4, <1>5, <1>6, MemStep
<1>7. ASSUME parent.kind = "dir", i # None
      PROVE  /\ d \in LiveDirs /\ c.name \in Names
             /\ i \in Inodes /\ e.block \in Range(disk.it[d].blocks)
             /\ PlainName(e.name) = c.name
             /\ Entry(e.name, i) \in disk.blk[e.block]
             /\ target = disk.it[i]
             /\ CacheOK(m, disk.it) /\ IndexesOK(m.index, disk, LiveDirs)
  <2>1. /\ d \in LiveDirs /\ c.name \in Names
        /\ i \in Inodes /\ e.block \in Range(disk.it[d].blocks)
        /\ PlainName(e.name) = c.name
        /\ Entry(e.name, i) \in disk.blk[e.block]
    BY <1>5, <1>7, DeleteStart
  <2> HIDE DEF e
  <2>2. target = disk.it[i]
    BY <1>2, <2>1, LoadedOK DEF MemOK
  <2>3. CacheOK(m, disk.it) /\ m.index = Loaded(mem, d).index
    BY <1>2, <1>5, <2>1, LoadedOK
  <2> QED
    BY <1>5, <2>1, <2>2, <2>3
<1>8. CASE A2
  BY <1>1, <1>2, <1>3, <1>4, <1>7, <1>8, MemStep
<1>9. CASE A3
  <2> DEFINE x == Entry(e.name, i)
             at == e.block
  <2>1. /\ parent.kind = "dir" /\ i # None /\ ~Filled(target)
        /\ disk' = Unlinked(e, freed)
        /\ mem' = [two EXCEPT !.ihint = Min({@, i}), !.bhint = Min({@} \cup freed),
                              !.index = Forgotten(m.index, c, e)]
    BY <1>9
  <2>2. /\ d \in LiveDirs /\ c.name \in Names
        /\ i \in Inodes /\ at \in Range(disk.it[d].blocks)
        /\ PlainName(e.name) = c.name
        /\ x \in disk.blk[at] /\ target = disk.it[i]
        /\ CacheOK(m, disk.it) /\ IndexesOK(m.index, disk, LiveDirs)
    BY <1>7, <2>1
  <2>3. EntriesIn(disk, target) = {} \/ target.kind # "dir"
    <3>1. target \in InodeRecs
      BY <1>2, <2>2, SMT DEF Typed
    <3>2. CASE target.blocks = <<>>
      <4>1. Range(target.blocks) = {}
        BY <3>2, SMT DEF Range
      <4> QED
        BY <4>1 DEF EntriesIn
    <3>3. CASE target.blocks # <<>>
      BY <1>1, <2>1, <3>3 DEF Filled, NoStaleUse, Avoids
    <3> QED
      BY <3>2, <3>3
  <2> HIDE DEF c, d, parent, e, i, target, m, two
  <2>4. /\ disk.it \in [Inodes -> InodeRecs] /\ disk.blk \in [Blocks -> SUBSET EntryRecs]
        /\ disk.ib \in SUBSET Inodes /\ disk.db \in SUBSET Blocks
        /\ disk = [ib |-> disk.ib, db |-> disk.db, it |-> disk.it, blk |-> disk.blk]
    BY <1>2 DEF Typed
  <2>5. at \in Blocks
    BY <1>2, <2>2, LiveDir
  <2>6. freed = Range(disk.it[i].blocks)
    BY <2>2 DEF CollectInodeBlocks
  <2> HIDE DEF freed, at
  <2>7. disk' = [ib |-> disk.ib \ {i}, db |-> disk.db \ freed, it |-> disk.it,
                 blk |-> [disk.blk EXCEPT ![at] = {y \in disk.blk[at] : y.name # e.name}]]
    BY <2>1, <2>4 DEF Unlinked, i, at
  <2>8. /\ disk'.ib = disk.ib \ {i} /\ disk'.db = disk.db \ freed /\ disk'.it = disk.it
        /\ disk'.blk = [disk.blk EXCEPT ![at] = {y \in disk.blk[at] : y.name # e.name}]
    BY <2>7
  <2>9. {y \in disk.blk[at] : y.name # e.name} = disk.blk[at] \ {x}
    <3>1. DirOK(disk, d) /\ x.name = e.name
      BY <2>2, InvDir DEF Entry
    <3> HIDE DEF x
    <3>2. \A y \in disk.blk[at] : y.name = e.name => y = x
      BY <2>2, <3>1, SMT DEF DirOK
    <3>3. \A y : y \in {z \in disk.blk[at] : z.name # e.name} <=> y \in disk.blk[at] \ {x}
      BY <3>1, <3>2
    <3> QED
      BY <3>3
  <2>10. x.inode = i /\ x.name = e.name
    BY DEF Entry
  <2> HIDE DEF x
  <2>11. Cut(d, x, at)
    <3>1. disk'.blk[at] = disk.blk[at] \ {x} /\ \A b \in Blocks : b # at => disk'.blk[b] = disk.blk[b]
      BY <2>4, <2>5, <2>8, <2>9
    <3> QED
      BY <1>1, <2>2, <2>3, <2>6, <2>8, <2>10, <3>1 DEF Cut
  <2>12. Typed'
    <3>1. disk'.blk \in [Blocks -> SUBSET EntryRecs]
      BY <2>4, <2>5, <2>8, <2>9
    <3>2. disk'.ib \in SUBSET Inodes /\ disk'.db \in SUBSET Blocks /\ disk'.it \in [Inodes -> InodeRecs]
      BY <2>4, <2>8
    <3>3. disk' = [ib |-> disk'.ib, db |-> disk'.db, it |-> disk'.it, blk |-> disk'.blk]
      BY <2>7
    <3>4. disk' \in [ib : SUBSET Inodes, db : SUBSET Blocks, it : [Inodes -> InodeRecs],
                     blk : [Blocks -> SUBSET EntryRecs]]
      BY <3>1, <3>2, <3>3
    <3>5. lost'.inodes \subseteq disk'.ib
      <4>1. i \notin lost.inodes
        BY <2>2, <2>10, <2>11, CutInUse DEF InUse
      <4> QED
        BY <1>1, <1>2, <2>8, <4>1 DEF Typed
    <3> QED
      BY <1>1, <1>2, <3>4, <3>5 DEF Typed
  <2>13. CacheOK(two, disk'.it)
    <3>1. CacheOK(CacheRemove(m, i), disk.it)
      BY <2>2, CacheRemoveOK
    <3>2. Row(disk.it, d, parent) = disk.it
      BY <1>2, <1>5, <2>4 DEF Row
    <3>3. CacheOK(two, Row(disk.it, d, parent))
      BY <1>2, <2>4, <3>1, CacheInsertOK DEF two
    <3> QED
      BY <2>8, <3>2, <3>3
  <2> DEFINE told == IF d \in DOMAIN m.index
                     THEN [m.index EXCEPT ![d] = Forgot(m.index[d], x, PlainName(x.name))]
                     ELSE m.index
  <2>14. Forgotten(m.index, c, e) = Drop(told, i)
    <3>1. told = IF d \in DOMAIN m.index
                 THEN [m.index EXCEPT ![d] =
                         [m.index[d] EXCEPT !.stored = Drop(@, e.name), !.plain = Drop(@, c.name)]]
                 ELSE m.index
      BY <2>2, <2>10 DEF Forgot
    <3> HIDE DEF told
    <3> QED
      BY <3>1 DEF Forgotten, d, i
  <2> HIDE DEF told
  <2>15. mem' = With(two, Min({two.ihint, i}), Min({two.bhint} \cup freed), Drop(told, i))
    BY <2>1, <2>14 DEF With
  <2>16. CacheOK(mem', disk'.it) /\ mem'.index = Drop(told, i)
    BY <2>13, <2>15, MemHintsIndex, SMT
  <2>17. IInv' /\ Tree!Next
    BY <1>2, <1>3, <2>2, <2>10, <2>11, <2>12, <2>16, CutStep DEF told
  <2> QED
    BY <2>17
<1> QED
  BY <1>1, <1>6, <1>8, <1>9

(***************************************************************************)
(* Every step, and what follows                                            *)
(***************************************************************************)

\* Every step keeps the invariant, and is a step of the tree or leaves it alone.
LEMMA NextStep ==
  ASSUME IInv, NoStaleUse, [Next]_vars
  PROVE  IInv' /\ [Tree!Next]_<<Links, InUse, LiveDirs>>
<1>1. CASE UNCHANGED vars
  <2>1. Typed /\ CallsOK /\ MemOK
    BY DEF IInv
  <2>2. UNCHANGED <<disk, lost, journaled, encrypted, call, steps, mem>>
    BY <1>1 DEF vars
  <2>3. steps' \in 0 .. MaxSteps /\ CacheOK(mem', disk.it) /\ IndexesOK(mem'.index, disk, LiveDirs)
    BY <2>1, <2>2 DEF Typed, MemOK
  <2>4. CallsOK'
    BY <2>1, <2>2, CallSame
  <2> QED
    BY <2>2, <2>3, <2>4, MemStep
<1>2. ASSUME NEW t \in Threads, NEW d \in Dirs, NEW n \in Names, NEW kind \in {"file", "dir"},
             CreateLookup(t, d, n, kind)
      PROVE  IInv' /\ [Tree!Next]_<<Links, InUse, LiveDirs>>
  BY <1>2, CreateLookupStep
<1>3. ASSUME NEW t \in Threads, NEW d \in Dirs, NEW n \in Names, DeleteLookup(t, d, n)
      PROVE  IInv' /\ [Tree!Next]_<<Links, InUse, LiveDirs>>
  BY <1>3, DeleteLookupStep
<1>4. ASSUME NEW t \in Threads, CreateCommit(t)
      PROVE  IInv' /\ [Tree!Next]_<<Links, InUse, LiveDirs>>
  BY <1>4, CreateCommitStep
<1>5. ASSUME NEW t \in Threads, DeleteCommit(t)
      PROVE  IInv' /\ [Tree!Next]_<<Links, InUse, LiveDirs>>
  BY <1>5, DeleteCommitStep
<1>6. ASSUME NEW d \in Dirs, List(d)
      PROVE  IInv' /\ [Tree!Next]_<<Links, InUse, LiveDirs>>
  BY <1>6, ListStep
<1>7. ASSUME NEW d \in Dirs, NEW n \in Names, Lookup(d, n)
      PROVE  IInv' /\ [Tree!Next]_<<Links, InUse, LiveDirs>>
  BY <1>7, LookupStep
<1>8. ASSUME NEW f \in Inodes, WriteFile(f)
      PROVE  IInv' /\ [Tree!Next]_<<Links, InUse, LiveDirs>>
  BY <1>8, WriteFileStep
<1>9. ASSUME ReloadFromDisk
      PROVE  IInv' /\ [Tree!Next]_<<Links, InUse, LiveDirs>>
  BY <1>9, ReloadStep
<1> QED
  BY <1>1, <1>2, <1>3, <1>4, <1>5, <1>6, <1>7, <1>8, <1>9 DEF Next

\* The invariant holds in every state.
LEMMA Invariant == ASSUME NoStaleUse PROVE Spec => []IInv
<1>1. Init => IInv
  BY InitInv
<1>2. IInv /\ [Next]_vars => IInv'
  BY NextStep
<1> QED
  BY <1>1, <1>2, PTL DEF Spec

\* A block in use belongs to one inode in use, or was left behind by a creation
\* without a journal: none is shared, and a deletion frees all of its own.
THEOREM BlocksStayOwned == ASSUME NoStaleUse PROVE Spec => []BlocksOwned
<1>1. IInv => BlocksOwned
  BY DEF IInv
<1> QED
  BY <1>1, Invariant, PTL

\* The directories implement the tree of names: whatever the interleaving of the
\* halves of creations and deletions, each step makes one link to an unused
\* inode under a free name, cuts one with nothing below it, or does neither.
THEOREM NamesImplementTree == ASSUME NoStaleUse PROVE Spec => ImplementsTree
<1>1. IInv => Tree!Init
  BY DEF IInv, TreeInv, Tree!Init
<1>2. IInv /\ [Next]_vars => [Tree!Next]_Tree!vars
  BY NextStep DEF Tree!vars
<1> QED
  BY <1>1, <1>2, Invariant, PTL DEF Spec, ImplementsTree, Tree!Spec

\* What the directories hold is a tree: every inode in use but the root has one
\* link, under a directory in use, and no chain of links comes back to where it
\* started.
THEOREM NamesStayATree ==
  ASSUME NoStaleUse PROVE Spec => [](Tree!TypeOK /\ Tree!WellFormed /\ Acyclic)
<1>1. Init => IInv /\ Acyclic
  BY InitInv
<1>2. IInv /\ Acyclic /\ [Next]_vars => Acyclic'
  <2> SUFFICES ASSUME IInv, Acyclic, [Next]_vars PROVE Acyclic'
    OBVIOUS
  <2>1. TreeInv /\ [Tree!Next]_<<Links, InUse, LiveDirs>>
    BY NextStep DEF IInv
  <2> QED
    BY <2>1, TreeStepKeepsAcyclic
<1>3. IInv => Tree!TypeOK /\ Tree!WellFormed
  BY DEF IInv, TreeInv
<1> QED
  BY <1>1, <1>2, <1>3, Invariant, PTL DEF Spec

(***************************************************************************)
(* What depends on counting: the length of the queue, and listings from an *)
(* index                                                                   *)
(***************************************************************************)

INSTANCE FiniteSetTheorems

\* A queue of distinct ids has as many slots as ids.
LEMMA DistinctLength ==
  ASSUME NEW s \in Seq(Inodes), \A i, j \in DOMAIN s : s[i] = s[j] => i = j
  PROVE  Cardinality(Range(s)) = Len(s)
<1>1. Len(s) \in Nat /\ DOMAIN s = 1 .. Len(s)
  BY SMT
<1>2. \A x \in 1 .. Len(s) : s[x] \in Range(s)
  BY <1>1 DEF Range
<1>3. s \in [1 .. Len(s) -> Range(s)]
  BY <1>1, <1>2, SMT
<1>4. s \in Bijection(1 .. Len(s), Range(s))
  BY <1>1, <1>3 DEF Bijection, Injection, Surjection, IsInjective, Range
<1>5. ExistsBijection(1 .. Len(s), Range(s))
  BY <1>4 DEF ExistsBijection
<1> QED
  BY <1>1, <1>5, FS_CountingElements

\* The queue has the length of the cache.
LEMMA InvType == ASSUME IInv PROVE TypeOK
<1>1. mem.order \in Seq(Inodes) /\ Range(mem.order) = DOMAIN mem.cache
      /\ (\A i, j \in DOMAIN mem.order : mem.order[i] = mem.order[j] => i = j)
      /\ Len(mem.order) <= CacheCapacity
  BY DEF IInv, MemOK, CacheOK, QueueOK
<1>2. Len(mem.order) = Cardinality(DOMAIN mem.cache)
  <2> DEFINE s == mem.order
  <2>1. s \in Seq(Inodes) /\ \A i, j \in DOMAIN s : s[i] = s[j] => i = j
    BY <1>1
  <2> HIDE DEF s
  <2>2. Cardinality(Range(s)) = Len(s)
    BY <2>1, DistinctLength
  <2> QED
    BY <1>1, <2>2 DEF s
<1>3. disk.ib \subseteq Inodes /\ disk.db \subseteq Blocks /\ steps \in 0 .. MaxSteps
  BY DEF IInv, Typed
<1> QED
  BY <1>1, <1>2, <1>3 DEF TypeOK

\* An encrypted directory whose complete index knows as many plain names as
\* stored ones knows all of them.
LEMMA PlainCovers ==
  ASSUME Typed, NEW d \in LiveDirs, DirOK(disk, d), encrypted,
         NEW ix, IndexOK(ix, EntriesIn(disk, disk.it[d])), ix.complete,
         Cardinality(DOMAIN ix.plain) = Cardinality(DOMAIN ix.stored)
  PROVE  \A e \in EntriesIn(disk, disk.it[d]) : PlainName(e.name) \in DOMAIN ix.plain
<1> DEFINE E == EntriesIn(disk, disk.it[d])
           P == {PlainName(e.name) : e \in E}
           S == DOMAIN ix.stored
           g == [k \in S |-> PlainName(k)]
<1>1. IsFiniteSet(P)
  <2>1. P \in SUBSET Names
    BY NameOfEntry
  <2> QED
    BY <2>1, NamesAssumption, FS_Subset
<1>2. (\A k \in S : \E e \in E : e.name = k) /\ (\A e \in E : e.name \in S)
      /\ DOMAIN ix.plain \in SUBSET P
  BY SMT DEF IndexOK
<1>3. \A e, f \in E : PlainName(e.name) = PlainName(f.name) => e = f
  BY NameOnce
<1> HIDE DEF E, S
<1>4. \A k \in S : PlainName(k) \in P
  BY <1>2
<1>5. \A k, l \in S : PlainName(k) = PlainName(l) => k = l
  BY <1>2, <1>3
<1>6. \A p \in P : \E k \in S : PlainName(k) = p
  BY <1>2
<1> HIDE DEF P
<1>7. g \in [S -> P] /\ \A k \in S : g[k] = PlainName(k)
  BY <1>4
<1> HIDE DEF g
<1>8. g \in Injection(S, P)
  BY <1>5, <1>7 DEF Injection, IsInjective
<1>9. g \in Surjection(S, P)
  BY <1>6, <1>7 DEF Surjection
<1>10. Cardinality(S) = Cardinality(P)
  BY <1>1, <1>8, <1>9, FS_Injection
<1>11. P = DOMAIN ix.plain
  BY <1>1, <1>2, <1>10, FS_Subset DEF S
<1> QED
  BY <1>11 DEF P, E

\* Lookups and listings answer from the caches what the blocks hold.
LEMMA InvTransparent == ASSUME IInv PROVE CachesTransparent
<1> SUFFICES ASSUME NEW d \in LiveDirs
             PROVE  /\ \A n \in Names : DirLookup(mem, d, n).inode
                                          = LocateAny(disk, disk.it[d], d, n).inode
                    /\ ListDir(mem, d).entries =
                         {<<PlainName(e.name), e.inode>> : e \in EntriesIn(disk, disk.it[d])}
  BY DEF CachesTransparent
<1>1. Typed /\ DirOK(disk, d) /\ CacheOK(mem, disk.it) /\ IndexesOK(mem.index, disk, LiveDirs)
  BY DEF IInv, MemOK
<1>2. ASSUME NEW n \in Names
      PROVE  DirLookup(mem, d, n).inode = LocateAny(disk, disk.it[d], d, n).inode
  <2> DEFINE i == DirLookup(mem, d, n).inode
             j == LocateAny(disk, disk.it[d], d, n).inode
  <2>1. Answers(EntriesIn(disk, disk.it[d]), n, i)
    BY <1>1, DirLookupOK
  <2>2. Answers(EntriesIn(disk, disk.it[d]), n, j)
    BY <1>1, LocateAnyIs
  <2> HIDE DEF i, j
  <2>3. i = j
    BY <1>1, <2>1, <2>2, OneAnswer
  <2> QED
    BY <2>3 DEF i, j
<1>3. ListDir(mem, d).entries =
        {<<PlainName(e.name), e.inode>> : e \in EntriesIn(disk, disk.it[d])}
  <2>1. PlainKnown(mem, d)
    BY <1>1, IndexOfOK, PlainCovers DEF PlainKnown
  <2> QED
    BY <1>1, <2>1, ListDirOK
<1> QED
  BY <1>2, <1>3

\* The caches keep their shape: one queue slot per cached inode, within the
\* capacity, whatever is inserted, evicted, removed and reloaded.
THEOREM NamesTyped == ASSUME NoStaleUse PROVE Spec => []TypeOK
<1>1. IInv => TypeOK
  BY InvType
<1> QED
  BY <1>1, Invariant, PTL

\* dir_lookup and list_dir answer from the caches what the blocks hold, in every
\* directory in use, whatever was created, deleted, evicted and reused before.
THEOREM CachesStayTransparent == ASSUME NoStaleUse PROVE Spec => []CachesTransparent
<1>1. IInv => CachesTransparent
  BY InvTransparent
<1> QED
  BY <1>1, Invariant, PTL
=============================================================================
