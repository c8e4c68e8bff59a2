---------------------------- MODULE ZohFsLemmas -----------------------------
(***************************************************************************)
(* The invariant of ZohFS, and the calls that keep it: init and the reads  *)
(* through the cache, mkfs, a power failure, create_file and delete_file.  *)
(* Below it, induction over sets of naturals, the cache, the layout of the *)
(* disk, and volumes apart from the variables that hold them.              *)
(***************************************************************************)
EXTENDS ZohFs, FiniteSetTheorems, TLAPS

CacheSlots == 0..(CACHE_SIZE - 1)

\* What a line of slot r may be: empty, or a sector of that slot as the disk d has it.
LinesOf(d, r) ==
  {NoLine} \union {[sector |-> s, data |-> d[s]] : s \in {t \in Sectors : cache_slot(t) = r}}

\* Caches that agree with disk d.
Caches(d) == {c \in [CacheSlots -> UNION {LinesOf(d, r) : r \in CacheSlots}] :
                \A r \in CacheSlots : c[r] \in LinesOf(d, r)}

\* While mkfs writes sectors 0, 1, 2, ... through the cache they take over its slots.
CacheInv ==
  /\ cache \in Caches(disk)
  /\ op.step = "mkfs" =>
       \A r \in CacheSlots : r < op.k - 1 => cache[r].sector < op.k - 1

Nodes == [mode : {"none", "file", "dir"}, size : Nat, block_count : Nat,
          blocks : [0..(DIRECT_BLOCKS - 1) -> 0..(TOTAL_BLOCKS - 1)]]
DirEntries == [name : Names \union {""}, inode : 0..(MAX_INODES - 1)]

OpType == [step : {"idle", "flush", "mkfs", "write"}, k : Nat, inode : 0..(MAX_INODES - 1),
           node : Nodes, pos : Nat, left : Nat]

DiskNodes == [i \in Inodes |-> disk[InodeSector(i)]]
DiskDir == disk[ROOT_SECTOR]
DiskCount == disk[InodeSector(ROOT_INODE)].size

DiskType ==
  /\ disk = [s \in Sectors |-> disk[s]]
  /\ \A i \in Inodes : disk[InodeSector(i)] \in Nodes
  /\ disk[ROOT_SECTOR] \in [0..(DIR_SECTOR - 1) -> DirEntries]

MemoryType ==
  /\ inodes \in [Inodes -> Nodes]
  /\ root \in [RootSlots -> DirEntries]
  /\ count \in Nat
  /\ op \in OpType
  /\ saved \in {"whole", "part", "broken"}
  /\ mounted \in BOOLEAN
  /\ mounted => disk[0] = "zohfs"

\* The entries in use among the first n of a directory, and the inodes in use.
Live(dir, n) == {k \in 0..(n - 1) : dir[k].inode # 0}
InUse(nodes) == {i \in Inodes : nodes[i].mode # "none"}

\* The file of entry e is sound: its inode is in use, its blocks are marked, not the
\* system's, and hold its data on disk d (so that no other file has them).
FileSound(d, e, nodes, bm) ==
  /\ e.inode # ROOT_INODE /\ nodes[e.inode].mode # "none"
  /\ \A b \in Blocks(nodes[e.inode]) :
       b \in bm /\ b >= SYSTEM_BLOCKS /\ d[BlockSector(b)] = e.inode

\* A volume: n entries of a directory, an inode table and a bitmap that fit together, over
\* the data of disk d, with every name of ks.
Volume(d, ks, dir, n, nodes, bm) ==
  /\ 0..(SYSTEM_BLOCKS - 1) \subseteq bm
  /\ nodes[ROOT_INODE].mode # "none"
  /\ n + 1 <= Cardinality(InUse(nodes))
  /\ \A i \in Inodes : nodes[i].mode = "none" => Blocks(nodes[i]) = {}
  /\ \A k \in Live(dir, n) : FileSound(d, dir[k], nodes, bm)
  /\ \A k, l \in Live(dir, n) : k # l => dir[k].inode # dir[l].inode /\ dir[k].name # dir[l].name
  /\ \A name \in ks : \E k \in Live(dir, n) : dir[k].name = name

\* The volume in memory, when there is one.
MemoryInv ==
  mounted \/ op.step = "mkfs" =>
    /\ Volume(disk, kept, root, count, inodes, bitmap)
    /\ inodes[ROOT_INODE].blocks[0] # 0 /\ inodes[ROOT_INODE].size = count

\* A save that would survive a power failure now, of a directory that fits its sector.
Mountable == SaveCut # "broken" /\ DiskCount <= DIR_SECTOR

\* The volume on the disk.
DiskInv ==
  Mountable /\ disk[0] = "zohfs" =>
    Volume(disk, kept, DiskDir, DiskCount, DiskNodes, disk[BITMAP_SECTOR])

\* A volume in memory (dir, n, nodes) that is ahead of the one on the disk (ddir, dn,
\* dnodes): the entries they share are the same, and their files have at least the blocks
\* they have on the disk.  Every name of ks is shared.
Ahead(dir, n, nodes, ddir, dn, dnodes, ks) ==
  /\ \A k \in Live(dir, n) : k < dn =>
       /\ dir[k] = ddir[k]
       /\ Blocks(dnodes[dir[k].inode]) \subseteq Blocks(nodes[dir[k].inode])
  /\ \A name \in ks : \E k \in Live(dir, n) : k < dn /\ dir[k].name = name

\* Memory is ahead of the disk, and outside flush_root_dir the directories are the same.
AheadInv ==
  mounted /\ Mountable =>
    /\ Ahead(root, count, inodes, DiskDir, DiskCount, DiskNodes, kept)
    /\ op.step # "flush" => count = DiskCount /\ Live(DiskDir, DiskCount) \subseteq Live(root, count)

\* What flush_root_dir and mkfs have written so far is the image of memory.
SaveInv ==
  op.step \in {"flush", "mkfs"} =>
    /\ op.k \in 1..Len(Order)
    /\ op.step = "flush" => mounted
    /\ \A j \in 1..(op.k - 1) : disk[Order[j]] = Image(Order[j])

\* write_file_data's copy of the inode has the blocks of the inode and perhaps more.
WriteInv ==
  op.step = "write" =>
    /\ mounted
    /\ \E k \in Live(root, count) : root[k].inode = op.inode
    /\ op.node.mode # "none"
    /\ \A p \in 0..(DIRECT_BLOCKS - 1) : inodes[op.inode].blocks[p] \in {0, op.node.blocks[p]}
    /\ \A b \in Blocks(op.node) :
         b \in bitmap /\ b >= SYSTEM_BLOCKS /\ disk[BlockSector(b)] = op.inode

Inv == /\ DiskType /\ MemoryType /\ CacheInv
       /\ MemoryInv /\ DiskInv /\ AheadInv /\ SaveInv /\ WriteInv

ZohFsInv == Sound => Inv

-----------------------------------------------------------------------------
\* Induction over the natural numbers, in the form of sets.
LEMMA Least ==
  ASSUME NEW T, T \subseteq Nat, T # {}
  PROVE  \E n \in T : \A m \in T : n <= m
<1>1. OpToRel(<, Nat) = {ss \in Nat \X Nat : ss[1] < ss[2]}
  BY DEF OpToRel
<1> DEFINE R == {ss \in Nat \X Nat : ss[1] < ss[2]}
<1>2. IsWellFoundedOn(R, Nat)
  BY <1>1, NatLessThanWellFounded, Zenon
<1>3. PICK n \in T : \A m \in T : ~(<<m, n>> \in R)
  <2> HIDE DEF R
  <2> QED
    BY <1>2, WFMin, Zenon
<1>4. ASSUME NEW m \in T PROVE n <= m
  <2>1. m \in Nat /\ n \in Nat
    OBVIOUS
  <2>2. <<m, n>> \in R <=> m < n
    BY <2>1
  <2>3. ~(m < n)
    BY <1>3, <2>2
  <2> QED
    BY <2>1, <2>3
<1> QED
  BY <1>4

LEMMA SetInduction ==
  ASSUME NEW S, 0 \in S, \A n \in Nat : n \in S => n + 1 \in S
  PROVE  Nat \subseteq S
<1> DEFINE T == Nat \ S
<1>1. SUFFICES ASSUME T # {} PROVE FALSE
  OBVIOUS
<1>2. PICK n \in T : \A m \in T : n <= m
  BY <1>1, Least, Zenon
<1>3. n # 0 /\ n - 1 \in Nat /\ n - 1 \notin T
  BY <1>2
<1> QED
  BY <1>3

\* The runs of n steps from v0 where step k is the function G[k].
RunsOf(V, v0, n, G) ==
  {f \in [0..n -> V] : f[0] = v0 /\ \A k \in 1..n : f[k] = G[k][f[k - 1]]}

\* There is one.
LEMMA RunExists ==
  ASSUME NEW V, NEW v0, v0 \in V, NEW n, n \in Nat, NEW G, G \in [1..n -> [V -> V]]
  PROVE  RunsOf(V, v0, n, G) # {}
<1> DEFINE Runs(m) == {f \in [0..m -> V] : f[0] = v0 /\ \A k \in 1..m : f[k] = G[k][f[k - 1]]}
           S == {m \in Nat : m <= n => Runs(m) # {}}
<1>1. 0 \in S
  <2> DEFINE f == [i \in 0..0 |-> v0]
  <2>1. f \in Runs(0)
    OBVIOUS
  <2> QED
    BY <2>1
<1>2. ASSUME NEW m \in Nat, m \in S PROVE m + 1 \in S
  <2>1. SUFFICES ASSUME m + 1 <= n PROVE Runs(m + 1) # {}
    OBVIOUS
  <2>2. PICK f \in [0..m -> V] : f[0] = v0 /\ \A k \in 1..m : f[k] = G[k][f[k - 1]]
    BY <1>2, <2>1
  <2> DEFINE v == G[m + 1][f[m]]
             g == [i \in 0..(m + 1) |-> IF i <= m THEN f[i] ELSE v]
  <2>3. v \in V
    <3>1. m + 1 \in 1..n /\ m \in 0..m
      BY <2>1
    <3>2. G[m + 1] \in [V -> V] /\ f[m] \in V
      BY <3>1
    <3> QED
      BY <3>2
  <2> HIDE DEF v
  <2>4. g \in [0..(m + 1) -> V]
    BY <2>3
  <2>5. g[0] = v0
    BY <2>2
  <2>6. ASSUME NEW k \in 1..(m + 1) PROVE g[k] = G[k][g[k - 1]]
    <3>1. CASE k <= m
      <4>1. k \in 1..m /\ k \in 0..(m + 1) /\ k - 1 \in 0..(m + 1) /\ k - 1 <= m
        BY <2>6, <3>1
      <4> QED
        BY <2>2, <3>1, <4>1
    <3>2. CASE k = m + 1
      <4>1. k \in 0..(m + 1) /\ k - 1 \in 0..(m + 1) /\ k - 1 = m /\ ~(k <= m)
        BY <3>2
      <4>2. g[k] = v /\ g[k - 1] = f[m]
        BY <4>1
      <4> QED
        BY <3>2, <4>2 DEF v
    <3> QED
      BY <2>6, <3>1, <3>2
  <2> QED
    BY <2>4, <2>5, <2>6, Zenon
<1> HIDE DEF S
<1>3. Nat \subseteq S
  BY <1>1, <1>2, SetInduction
<1>4. Runs(n) # {}
  BY <1>3 DEF S
<1> QED
  BY <1>4 DEF RunsOf

-----------------------------------------------------------------------------
LEMMA SlotOf ==
  ASSUME NEW s \in Sectors
  PROVE  cache_slot(s) \in CacheSlots
<1>1. s \in Nat /\ CACHE_SIZE \in Nat \ {0}
  BY CacheAssumption DEF Sectors
<1> QED
  BY <1>1 DEF cache_slot, CacheSlots

\* A cache is coherent slot by slot.
LEMMA CacheIntro ==
  ASSUME NEW d, NEW c, c = [r \in CacheSlots |-> c[r]],
         \A r \in CacheSlots : c[r] \in LinesOf(d, r)
  PROVE  c \in Caches(d)
<1> DEFINE U == UNION {LinesOf(d, r) : r \in CacheSlots}
<1>1. \A r \in CacheSlots : c[r] \in U
  OBVIOUS
<1> HIDE DEF U
<1>2. c \in [CacheSlots -> U]
  BY <1>1
<1> QED
  BY <1>2 DEF Caches, U

LEMMA CacheElim ==
  ASSUME NEW d, NEW c \in Caches(d)
  PROVE  c = [r \in CacheSlots |-> c[r]] /\ \A r \in CacheSlots : c[r] \in LinesOf(d, r)
BY DEF Caches

\* A line of another slot is not the line of s.
LEMMA OtherLines ==
  ASSUME NEW d, NEW e, NEW s, \A t \in Sectors : t # s => e[t] = d[t],
         NEW r, r # cache_slot(s), NEW line \in LinesOf(d, r)
  PROVE  line \in LinesOf(e, r)
<1>1. CASE line = NoLine
  BY <1>1 DEF LinesOf
<1>2. ASSUME NEW t \in Sectors, cache_slot(t) = r, line = [sector |-> t, data |-> d[t]]
      PROVE  line \in LinesOf(e, r)
  <2>1. t # s /\ e[t] = d[t]
    BY <1>2
  <2> QED
    BY <1>2, <2>1 DEF LinesOf
<1> QED
  BY <1>1, <1>2 DEF LinesOf

\* Write-through: the disk and the line change together.
LEMMA FillCoherent ==
  ASSUME NEW d, NEW e, NEW s \in Sectors, \A t \in Sectors : t # s => e[t] = d[t],
         NEW c \in Caches(d)
  PROVE  Fill(c, s, e[s]) \in Caches(e)
<1> DEFINE g == Fill(c, s, e[s])
<1>1. c = [r \in CacheSlots |-> c[r]] /\ \A r \in CacheSlots : c[r] \in LinesOf(d, r)
  BY CacheElim
<1>2. g = [r \in CacheSlots |-> g[r]]
  BY <1>1, SlotOf DEF Fill
<1>3. ASSUME NEW r \in CacheSlots PROVE g[r] \in LinesOf(e, r)
  <2>1. CASE r = cache_slot(s)
    <3>1. g[r] = [sector |-> s, data |-> e[s]]
      BY <1>1, <2>1, SlotOf DEF Fill
    <3> QED
      BY <2>1, <3>1 DEF LinesOf
  <2>2. CASE r # cache_slot(s)
    <3>1. g[r] = c[r]
      BY <1>1, <2>2, SlotOf DEF Fill
    <3> QED
      BY <1>1, <2>2, <3>1, OtherLines
  <2> QED
    BY <2>1, <2>2
<1> HIDE DEF g
<1>4. g \in Caches(e)
  BY <1>2, <1>3, CacheIntro
<1> QED
  BY <1>4 DEF g

\* cached_read returns what the disk holds, from a coherent cache, and leaves it coherent.
LEMMA ReadCoherent ==
  ASSUME NEW c \in Caches(disk), NEW s \in Sectors
  PROVE  cached_read(c, s) = disk[s] /\ CacheAfterRead(c, s) \in Caches(disk)
<1>1. cached_read(c, s) = disk[s]
  <2>1. CASE cache_lookup(c, s)
    <3>1. c[cache_slot(s)] \in LinesOf(disk, cache_slot(s)) /\ c[cache_slot(s)].sector = s
      BY <2>1, CacheElim, SlotOf DEF cache_lookup
    <3>2. NoLine.sector # s
      BY CacheAssumption DEF NoLine, Sectors
    <3>3. c[cache_slot(s)].data = disk[s]
      BY <3>1, <3>2 DEF LinesOf
    <3> QED
      BY <2>1, <3>3 DEF cached_read
  <2> QED
    BY <2>1 DEF cached_read
<1> QED
  BY <1>1, FillCoherent, Zenon DEF CacheAfterRead

\* So does cached_read_sectors, sector after sector.
LEMMA ReadsCoherent ==
  ASSUME NEW c \in Caches(disk), NEW ss \in Seq(Sectors)
  PROVE  cached_read_sectors(c, ss) \in Caches(disk)
<1>v. PICK V : V = Caches(disk)
  OBVIOUS
<1>n. PICK n \in Nat : n = Len(ss)
  OBVIOUS
<1> DEFINE Run(a) == [k \in 0..n |-> IF k = 0 THEN c ELSE CacheAfterRead(a[k - 1], ss[k])]
           after == CHOOSE a : a = Run(a)
           G == [k \in 1..n |-> [x \in V |-> CacheAfterRead(x, ss[k])]]
<1>1. n \in Nat /\ \A k \in 1..n : ss[k] \in Sectors
  BY <1>n
<1>2. \A k \in 1..n : \A x \in V : CacheAfterRead(x, ss[k]) \in V
  BY <1>1, <1>v, ReadCoherent
<1>3. cached_read_sectors(c, ss) = after[n]
  BY <1>n DEF cached_read_sectors
<1>4. after = Run(after)
  <2>1. G \in [1..n -> [V -> V]]
    BY <1>2
  <2>2. PICK f \in [0..n -> V] : f[0] = c /\ \A k \in 1..n : f[k] = G[k][f[k - 1]]
    <3>1. PICK H : H = G
      BY Zenon
    <3>2. c \in V /\ n \in Nat /\ H \in [1..n -> [V -> V]]
      BY <1>v, <1>1, <2>1, <3>1
    <3>3. RunsOf(V, c, n, H) # {}
      BY <3>2, RunExists
    <3> HIDE DEF G
    <3> QED
      BY <3>1, <3>3 DEF RunsOf
  <2>3. \A k \in 1..n : f[k] = CacheAfterRead(f[k - 1], ss[k])
    <3>1. \A k \in 1..n : f[k - 1] \in V
      BY <1>1, <2>2
    <3> QED
      BY <2>2, <3>1
  <2>4. f = Run(f)
    BY <1>1, <2>2, <2>3
  <2> HIDE DEF Run
  <2> QED
    BY <2>4
<1> HIDE DEF after
<1> DEFINE S == {k \in Nat : k <= n => after[k] \in V}
<1>5. 0 \in S
  <2>1. c \in V
    BY <1>v
  <2> QED
    BY <1>1, <1>4, <2>1
<1>6. ASSUME NEW k \in Nat, k \in S PROVE k + 1 \in S
  <2>1. SUFFICES ASSUME k + 1 <= n PROVE after[k + 1] \in V
    OBVIOUS
  <2>2. k + 1 \in 0..n /\ k + 1 # 0 /\ (k + 1) - 1 = k /\ k + 1 \in 1..n
    BY <1>1, <2>1
  <2>3. after[k + 1] = CacheAfterRead(after[k], ss[k + 1])
    BY <1>4, <2>2
  <2>4. after[k] \in V
    BY <1>1, <1>6, <2>1
  <2> QED
    BY <1>2, <2>2, <2>3, <2>4
<1> HIDE DEF S
<1>7. Nat \subseteq S
  BY <1>5, <1>6, SetInduction
<1>8. after[n] \in V
  BY <1>1, <1>7 DEF S
<1> QED
  BY <1>v, <1>3, <1>8

-----------------------------------------------------------------------------
\* The layout of the disk and the orders in which it is written and read.
LEMMA MinIn ==
  ASSUME NEW T, T \subseteq Nat, T # {}
  PROVE  Min(T) \in T /\ \A m \in T : Min(T) <= m
<1>1. \E n \in T : \A m \in T : n <= m
  BY Least, Zenon
<1> QED
  BY <1>1, Zenon DEF Min

LEMMA MinMaxOfTwo ==
  ASSUME NEW a \in Nat, NEW b \in Nat
  PROVE  Min({a, b}) <= b /\ Min({a, b}) \in Nat /\ Max({a, b}) \in Nat
<1>1. Min({a, b}) \in {a, b} /\ \A m \in {a, b} : Min({a, b}) <= m
  <2>1. {a, b} \subseteq Nat /\ {a, b} # {}
    OBVIOUS
  <2> QED
    BY <2>1, MinIn
<1>2. Max({a, b}) \in {a, b}
  <2>1. \E x \in {a, b} : \A y \in {a, b} : x >= y
    <3>1. CASE a <= b
      BY <3>1
    <3>2. CASE b <= a
      BY <3>2
    <3> QED
      BY <3>1, <3>2
  <2> QED
    BY <2>1 DEF Max
<1> QED
  BY <1>1, <1>2

LEMMA Layout ==
  /\ MAX_INODES \in Nat /\ MAX_INODES > 1 /\ ROOT_SECTOR = MAX_INODES + 1 /\ BITMAP_SECTOR = 1
  /\ \A i \in Inodes : InodeSector(i) = i + 1 /\ i + 1 <= MAX_INODES /\ i + 1 >= 2
  /\ 0..(MAX_INODES + 1) \subseteq Sectors
  /\ \A b \in 2..(TOTAL_BLOCKS - 1) : /\ BlockSector(b) = MAX_INODES + b
                                      /\ BlockSector(b) \in Sectors
                                      /\ BlockSector(b) > MAX_INODES + 1
BY ZohFsAssumption, CacheAssumption
   DEF ROOT_SECTOR, BITMAP_SECTOR, BlockSector, DataStart, InodeSector, Inodes, Sectors

LEMMA InodeSectorsSeq ==
  InodeSectors \in Seq(Nat) /\ Len(InodeSectors) = MAX_INODES - 1 /\
  \A i \in 1..(MAX_INODES - 1) : InodeSectors[i] = i + 1
<1>1. MAX_INODES - 1 \in Nat
  BY ZohFsAssumption
<1>2. InodeSectors = [i \in 1..(MAX_INODES - 1) |-> 1 + i]
  BY DEF InodeSectors, InodeSector, Inodes
<1> QED
  BY <1>1, <1>2

\* c is a followed by b, of lengths p and n - p.
Joins(c, a, b, p, n) ==
  /\ c \in Seq(Nat) /\ Len(c) = n
  /\ \A i \in 1..n : c[i] = IF i <= p THEN a[i] ELSE b[i - p]

LEMMA Joined ==
  ASSUME NEW a, a \in Seq(Nat), NEW b, b \in Seq(Nat)
  PROVE  Joins(a \o b, a, b, Len(a), Len(a) + Len(b))
BY DEF Joins

\* init reads, and mkfs writes, the sectors in the order of the disk.
LEMMA Ascending ==
  /\ MountOrder \in Seq(Sectors) /\ Len(MountOrder) = MAX_INODES + 2 /\ MkfsOrder = MountOrder
  /\ \A k \in 1..(MAX_INODES + 2) : MountOrder[k] = k - 1
<1> DEFINE a == <<0, 1>>
           z == <<MAX_INODES + 1>>
           m == a \o InodeSectors
<1>1. a \in Seq(Nat) /\ Len(a) = 2 /\ a[1] = 0 /\ a[2] = 1
  OBVIOUS
<1>2. z \in Seq(Nat) /\ Len(z) = 1 /\ z[1] = MAX_INODES + 1
  BY Layout
<1>3. MountOrder = m \o z /\ MkfsOrder = MountOrder
  BY Layout DEF MountOrder, MkfsOrder
<1> HIDE DEF a, z
<1>4. /\ m \in Seq(Nat) /\ Len(m) = 2 + (MAX_INODES - 1)
      /\ \A i \in 1..(2 + (MAX_INODES - 1)) :
           m[i] = IF i <= 2 THEN a[i] ELSE InodeSectors[i - 2]
  <2>1. 2 + (MAX_INODES - 1) = Len(a) + Len(InodeSectors) /\ 2 = Len(a)
    BY <1>1, InodeSectorsSeq
  <2>2. Joins(m, a, InodeSectors, Len(a), Len(a) + Len(InodeSectors))
    BY <1>1, InodeSectorsSeq, Joined, Zenon
  <2> HIDE DEF m
  <2> QED
    BY <2>1, <2>2, Zenon DEF Joins
<1> HIDE DEF m
<1>5. /\ MountOrder \in Seq(Nat) /\ Len(MountOrder) = MAX_INODES + 2
      /\ \A i \in 1..(MAX_INODES + 2) :
           MountOrder[i] = IF i <= MAX_INODES + 1 THEN m[i] ELSE z[i - (MAX_INODES + 1)]
  <2>1. Len(m) + Len(z) = MAX_INODES + 2 /\ Len(m) = MAX_INODES + 1
    BY <1>2, <1>4, Layout
  <2>2. Joins(m \o z, m, z, Len(m), Len(m) + Len(z))
    BY <1>2, <1>4, Joined, Zenon
  <2>3. Joins(MountOrder, m, z, MAX_INODES + 1, MAX_INODES + 2)
    BY <1>3, <2>1, <2>2
  <2> QED
    BY <2>3 DEF Joins
<1>6. ASSUME NEW k \in 1..(MAX_INODES + 2) PROVE MountOrder[k] = k - 1
  <2>1. CASE k <= 2
    <3>1. MountOrder[k] = a[k] /\ k \in {1, 2}
      BY <1>4, <1>5, <2>1, Layout
    <3> QED
      BY <1>1, <3>1
  <2>2. CASE k > 2 /\ k <= MAX_INODES + 1
    <3>1. MountOrder[k] = InodeSectors[k - 2] /\ k - 2 \in 1..(MAX_INODES - 1)
      BY <1>4, <1>5, <2>2, Layout
    <3> QED
      BY <3>1, InodeSectorsSeq
  <2>3. CASE k = MAX_INODES + 2
    <3>1. MountOrder[k] = z[1]
      BY <1>5, <2>3, Layout
    <3> QED
      BY <1>2, <2>3, <3>1, Layout
  <2> QED
    BY <2>1, <2>2, <2>3, Layout
<1>7. MountOrder \in Seq(Sectors)
  <2>1. \A k \in 1..Len(MountOrder) : MountOrder[k] \in Sectors
    BY <1>5, <1>6, Layout
  <2> QED
    BY <1>5, <2>1
<1> QED
  BY <1>3, <1>5, <1>6, <1>7

\* flush_root_dir writes the directory first.
LEMMA DirFirst ==
  /\ FlushOrder \in Seq(Sectors) /\ Len(FlushOrder) = MAX_INODES + 2
  /\ FlushOrder[1] = MAX_INODES + 1 /\ FlushOrder[2] = 0 /\ FlushOrder[3] = 1
  /\ \A k \in 4..(MAX_INODES + 2) : FlushOrder[k] = k - 2
<1> DEFINE a == <<MAX_INODES + 1, 0, 1>>
<1>1. /\ a \in Seq(Nat) /\ Len(a) = 3
      /\ a[1] = MAX_INODES + 1 /\ a[2] = 0 /\ a[3] = 1
  BY Layout
<1>2. FlushOrder = a \o InodeSectors
  BY Layout DEF FlushOrder
<1> HIDE DEF a
<1>3. /\ FlushOrder \in Seq(Nat) /\ Len(FlushOrder) = 3 + (MAX_INODES - 1)
      /\ \A i \in 1..(3 + (MAX_INODES - 1)) :
           FlushOrder[i] = IF i <= 3 THEN a[i] ELSE InodeSectors[i - 3]
  <2>1. 3 + (MAX_INODES - 1) = Len(a) + Len(InodeSectors) /\ 3 = Len(a)
    BY <1>1, InodeSectorsSeq
  <2>2. Joins(a \o InodeSectors, a, InodeSectors, Len(a), Len(a) + Len(InodeSectors))
    BY <1>1, InodeSectorsSeq, Joined, Zenon
  <2>3. Joins(FlushOrder, a, InodeSectors, 3, 3 + (MAX_INODES - 1))
    BY <1>2, <2>1, <2>2, Zenon
  <2> QED
    BY <2>3 DEF Joins
<1>4. Len(FlushOrder) = MAX_INODES + 2
  BY <1>3, Layout
<1>5. FlushOrder[1] = MAX_INODES + 1 /\ FlushOrder[2] = 0 /\ FlushOrder[3] = 1
  BY <1>1, <1>3, Layout
<1>6. ASSUME NEW k \in 4..(MAX_INODES + 2) PROVE FlushOrder[k] = k - 2
  <2>1. FlushOrder[k] = InodeSectors[k - 3] /\ k - 3 \in 1..(MAX_INODES - 1)
    BY <1>3, Layout
  <2> QED
    BY <2>1, InodeSectorsSeq
<1>7. FlushOrder \in Seq(Sectors)
  <2>1. ASSUME NEW k \in 1..Len(FlushOrder) PROVE FlushOrder[k] \in Sectors
    <3>1. k \in {1, 2, 3} \/ k \in 4..(MAX_INODES + 2)
      BY <1>4
    <3> QED
      BY <1>5, <1>6, <3>1, Layout
  <2> QED
    BY <1>3, <2>1
<1> QED
  BY <1>4, <1>5, <1>6, <1>7

\* Every sector before the blocks is in both orders, and only those are.
LEMMA OrderSectors ==
  ASSUME NEW ord \in {FlushOrder, MkfsOrder}
  PROVE  /\ Len(ord) = MAX_INODES + 2
         /\ \A k \in 1..Len(ord) : ord[k] \in 0..(MAX_INODES + 1)
         /\ \A s \in 0..(MAX_INODES + 1) : \E k \in 1..Len(ord) : ord[k] = s
<1>1. CASE ord = MkfsOrder
  <2>1. ASSUME NEW s \in 0..(MAX_INODES + 1)
        PROVE  \E k \in 1..(MAX_INODES + 2) : ord[k] = s
    <3>1. s + 1 \in 1..(MAX_INODES + 2) /\ (s + 1) - 1 = s
      BY Layout
    <3> QED
      BY <1>1, <3>1, Ascending
  <2>2. \A k \in 1..(MAX_INODES + 2) : ord[k] \in 0..(MAX_INODES + 1)
    BY <1>1, Ascending, Layout
  <2> QED
    BY <1>1, <2>1, <2>2, Ascending
<1>2. CASE ord = FlushOrder
  <2>1. ASSUME NEW k \in 1..(MAX_INODES + 2) PROVE ord[k] \in 0..(MAX_INODES + 1)
    <3>1. k \in {1, 2, 3} \/ k \in 4..(MAX_INODES + 2)
      OBVIOUS
    <3> QED
      BY <1>2, <3>1, DirFirst, Layout
  <2>2. ASSUME NEW s \in 0..(MAX_INODES + 1)
        PROVE  \E k \in 1..(MAX_INODES + 2) : ord[k] = s
    <3>1. CASE s \in {0, 1, MAX_INODES + 1}
      BY <1>2, <3>1, DirFirst, Layout
    <3>2. CASE s \notin {0, 1, MAX_INODES + 1}
      <4>1. s + 2 \in 4..(MAX_INODES + 2)
        BY <3>2, Layout
      <4>2. ord[s + 2] = s
        BY <1>2, <4>1, DirFirst
      <4> QED
        BY <4>1, <4>2
    <3> QED
      BY <3>1, <3>2
  <2> QED
    BY <1>2, <2>1, <2>2, DirFirst
<1> QED
  BY <1>1, <1>2

LEMMA ImageOf ==
  /\ Image(0) = "zohfs" /\ Image(1) = bitmap
  /\ Image(MAX_INODES + 1) = [k \in 0..(DIR_SECTOR - 1) |-> SavedEntry(k)]
  /\ \A i \in Inodes : Image(i + 1) = inodes[i]
<1>1. Image(0) = "zohfs" /\ Image(1) = bitmap
  BY Layout DEF Image
<1>2. Image(MAX_INODES + 1) = [k \in 0..(DIR_SECTOR - 1) |-> SavedEntry(k)]
  BY Layout DEF Image
<1>3. ASSUME NEW i \in Inodes PROVE Image(i + 1) = inodes[i]
  <2>1. i + 1 # 0 /\ i + 1 # 1 /\ i + 1 # MAX_INODES + 1 /\ (i + 1) - 1 = i
    BY Layout DEF Inodes
  <2> QED
    BY <2>1, Layout DEF Image
<1> QED
  BY <1>1, <1>2, <1>3

-----------------------------------------------------------------------------
\* Volumes, apart from the variables they are made of.

\* There are fewer entries than inodes, so that ROOT_DIR has a slot for each and one more.
LEMMA VolumeCount ==
  ASSUME NEW nodes
  PROVE  /\ IsFiniteSet(InUse(nodes)) /\ Cardinality(InUse(nodes)) \in Nat
         /\ Cardinality(InUse(nodes)) <= MAX_INODES - 1
         /\ (\E i \in Inodes : nodes[i].mode = "none") => Cardinality(InUse(nodes)) < MAX_INODES - 1
<1>1. 1 \in Int /\ MAX_INODES - 1 \in Int /\ MAX_INODES - 1 >= 1
  BY Layout
<1>2. IsFiniteSet(Inodes) /\ Cardinality(Inodes) = MAX_INODES - 1
  BY <1>1, FS_Interval DEF Inodes
<1>3. InUse(nodes) \in SUBSET Inodes
  BY DEF InUse
<1>4. /\ IsFiniteSet(InUse(nodes)) /\ Cardinality(InUse(nodes)) <= Cardinality(Inodes)
      /\ Cardinality(Inodes) = Cardinality(InUse(nodes)) => Inodes = InUse(nodes)
  BY <1>2, <1>3, FS_Subset
<1>5. Cardinality(InUse(nodes)) \in Nat
  BY <1>4, FS_CardinalityType
<1>6. ASSUME NEW i \in Inodes, nodes[i].mode = "none"
      PROVE  Cardinality(InUse(nodes)) < MAX_INODES - 1
  <2>1. i \notin InUse(nodes)
    BY <1>6 DEF InUse
  <2>2. Cardinality(Inodes) # Cardinality(InUse(nodes))
    BY <1>4, <2>1
  <2> QED
    BY <1>1, <1>2, <1>4, <1>5, <2>2
<1> QED
  BY <1>2, <1>4, <1>5, <1>6

\* A volume with another disk, directory, bitmap and kept names, as long as the entries are
\* among its entries and the blocks of their files are as before.
LEMMA VolumeOver ==
  ASSUME NEW d, NEW ks, NEW dir, NEW n, NEW nodes, NEW bm, Volume(d, ks, dir, n, nodes, bm),
         NEW d2, NEW ks2, NEW dir2, NEW bm2,
         0..(SYSTEM_BLOCKS - 1) \subseteq bm2,
         \A k \in Live(dir2, n) :
           /\ k \in Live(dir, n) /\ dir2[k] = dir[k]
           /\ \A b \in Blocks(nodes[dir[k].inode]) :
                b \in bm2 /\ d2[BlockSector(b)] = d[BlockSector(b)],
         \A name \in ks2 : \E k \in Live(dir2, n) : dir2[k].name = name
  PROVE  Volume(d2, ks2, dir2, n, nodes, bm2)
<1>1. ASSUME NEW k \in Live(dir2, n) PROVE FileSound(d2, dir2[k], nodes, bm2)
  <2>1. k \in Live(dir, n) /\ dir2[k] = dir[k] /\ FileSound(d, dir[k], nodes, bm)
    BY DEF Volume
  <2> QED
    BY <2>1 DEF FileSound
<1>2. ASSUME NEW k \in Live(dir2, n), NEW l \in Live(dir2, n), k # l
      PROVE  dir2[k].inode # dir2[l].inode /\ dir2[k].name # dir2[l].name
  BY <1>2 DEF Volume
<1> QED
  BY <1>1, <1>2 DEF Volume

\* The blocks of a volume's files lie in their own sectors, behind everything else.
LEMMA BlockPlace ==
  ASSUME NEW node \in Nodes, NEW b \in Blocks(node), b >= SYSTEM_BLOCKS
  PROVE  /\ b \in 2..(TOTAL_BLOCKS - 1) /\ BlockSector(b) \in Sectors
         /\ BlockSector(b) > MAX_INODES + 1 /\ BlockSector(b) = MAX_INODES + b
<1>1. b \in 0..(TOTAL_BLOCKS - 1)
  BY Zenon DEF Blocks, Nodes
<1>2. b \in 2..(TOTAL_BLOCKS - 1)
  BY <1>1, ZohFsAssumption
<1> QED
  BY <1>2, Layout

\* The disk may change anywhere before the first block.
LEMMA FileBefore ==
  ASSUME NEW d, NEW e, NEW nodes, NEW bm, FileSound(d, e, nodes, bm), nodes[e.inode] \in Nodes,
         NEW d2, \A s \in Sectors : s > MAX_INODES + 1 => d2[s] = d[s]
  PROVE  \A b \in Blocks(nodes[e.inode]) : b \in bm /\ d2[BlockSector(b)] = d[BlockSector(b)]
<1> SUFFICES ASSUME NEW b \in Blocks(nodes[e.inode])
             PROVE  b \in bm /\ d2[BlockSector(b)] = d[BlockSector(b)]
  OBVIOUS
<1>1. b \in bm /\ b >= SYSTEM_BLOCKS
  BY DEF FileSound
<1>2. BlockSector(b) \in Sectors /\ BlockSector(b) > MAX_INODES + 1
  BY <1>1, BlockPlace
<1> QED
  BY <1>1, <1>2

-----------------------------------------------------------------------------
\* One lemma per action.

\* The entries of a directory that live below n have inodes of the table.
LEMMA LiveInodes ==
  ASSUME NEW dir, NEW n \in Nat, NEW m \in Nat, n <= m, dir \in [0..(m - 1) -> DirEntries]
  PROVE  \A k \in Live(dir, n) : k \in 0..(m - 1) /\ k \in Nat /\ k < n /\ dir[k].inode \in Inodes
<1> SUFFICES ASSUME NEW k \in Live(dir, n)
             PROVE  k \in 0..(m - 1) /\ k \in Nat /\ k < n /\ dir[k].inode \in Inodes
  OBVIOUS
<1>1. k \in 0..(n - 1) /\ dir[k].inode # 0
  BY DEF Live
<1>2. k \in 0..(m - 1) /\ k \in Nat /\ k < n
  BY <1>1
<1>3. dir[k].inode \in 0..(MAX_INODES - 1)
  BY <1>2, Zenon DEF DirEntries
<1> QED
  BY <1>1, <1>2, <1>3, Layout DEF Inodes

LEMMA DiskTypes ==
  ASSUME DiskType
  PROVE  /\ DiskNodes \in [Inodes -> Nodes] /\ \A i \in Inodes : DiskNodes[i] = disk[i + 1]
         /\ DiskCount = DiskNodes[ROOT_INODE].size /\ DiskCount = disk[2].size /\ DiskCount \in Nat
         /\ DiskDir = disk[MAX_INODES + 1] /\ DiskDir \in [0..(DIR_SECTOR - 1) -> DirEntries]
         /\ ROOT_INODE \in Inodes
<1>1. ROOT_INODE \in Inodes /\ ROOT_INODE = 1
  BY Layout DEF ROOT_INODE, Inodes
<1>2. DiskNodes \in [Inodes -> Nodes]
  BY DEF DiskType, DiskNodes
<1>3. \A i \in Inodes : DiskNodes[i] = disk[i + 1]
  BY Layout DEF DiskNodes
<1>4. DiskCount = DiskNodes[ROOT_INODE].size
  BY <1>1 DEF DiskCount, DiskNodes
<1>5. DiskCount = disk[2].size
  BY <1>1, <1>3, <1>4
<1>6. DiskCount \in Nat
  BY <1>1, <1>2, <1>4 DEF Nodes
<1> QED
  BY <1>1, <1>2, <1>3, <1>4, <1>5, <1>6, Layout DEF DiskDir, DiskType

\* init either changes no more than the cache, or finds the volume of the disk.
LEMMA InitReads ==
  ASSUME Sound, Inv, NEW n \in 0..Len(MountOrder), init(n), Sound'
  PROVE  /\ cache' \in Caches(disk)
         /\ \/ UNCHANGED <<mounted, bitmap, inodes, root, count>>
            \/ /\ mounted' = TRUE /\ disk[0] = "zohfs" /\ saved # "broken" /\ count' <= DIR_SECTOR
               /\ DiskNodes[ROOT_INODE].blocks[0] > 0
               /\ bitmap' = disk[1] /\ inodes' = DiskNodes /\ count' = DiskCount
               /\ root' = [k \in RootSlots |-> IF k >= count' THEN root[k] ELSE DiskDir[k]]
<1> DEFINE before(k) == cached_read_sectors(cache, SubSeq(MountOrder, 1, k - 1))
           value(k) == cached_read(before(k), MountOrder[k])
           node(i) == value(2 + i)
           dir == Len(MountOrder)
           magic == value(1) = "zohfs"
           hasRoot == node(ROOT_INODE).block_count > 0 /\ node(ROOT_INODE).blocks[0] > 0
           reads == IF ~magic THEN 1 ELSE IF ~hasRoot THEN dir - 1 ELSE dir
<1>1. /\ n <= reads
      /\ cache' = before(n + 1)
      /\ mounted' = (mounted \/ (magic /\ n >= 1))
      /\ bitmap' = IF n >= 2 THEN value(2) ELSE bitmap
      /\ inodes' = IF n >= dir - 1 THEN [i \in Inodes |-> node(i)] ELSE inodes
      /\ count' = IF n = dir THEN node(ROOT_INODE).size ELSE count
      /\ \E junk : root' = IF n < dir THEN root
                           ELSE [k \in RootSlots |-> IF k >= count' THEN root[k]
                                                     ELSE IF k < DIR_SECTOR THEN value(dir)[k]
                                                     ELSE junk]
      /\ upset' = CASE n >= 1 /\ n < reads -> "half_mount"
                    [] n = reads /\ reads = dir - 1 -> "no_root"
                    [] n = dir /\ saved = "broken" -> "broken_save"
                    [] n = dir /\ count' > DIR_SECTOR -> "unsaved_entries"
                    [] OTHER -> upset
  BY Zenon DEF init
<1>2. dir = MAX_INODES + 2 /\ dir \in Nat /\ dir > 3
  BY Ascending, Layout
<1>3. ASSUME NEW k \in 1..(MAX_INODES + 3) PROVE before(k) \in Caches(disk)
  <2>1. \A i \in 1..(k - 1) : MountOrder[i] \in Sectors
    BY Ascending, Layout
  <2>2. SubSeq(MountOrder, 1, k - 1) \in Seq(Sectors)
    BY <2>1, <1>2
  <2>3. cache \in Caches(disk)
    BY DEF Inv, CacheInv
  <2> HIDE DEF before
  <2> QED
    BY <2>2, <2>3, ReadsCoherent, Zenon DEF before
<1>4. ASSUME NEW k \in 1..(MAX_INODES + 2) PROVE value(k) = disk[k - 1]
  <2>1. before(k) \in Caches(disk)
    <3>1. k \in 1..(MAX_INODES + 3)
      BY Layout
    <3> QED
      BY <1>3, <3>1
  <2>2. MountOrder[k] = k - 1 /\ k - 1 \in Sectors
    BY Ascending, Layout
  <2> HIDE DEF before
  <2> QED
    BY <2>1, <2>2, ReadCoherent
<1> HIDE DEF before, value
<1>5. cache' \in Caches(disk)
  <2>1. n + 1 \in 1..(MAX_INODES + 3)
    BY <1>2, Layout
  <2> QED
    BY <1>1, <1>3, <2>1
<1>6. \A i \in Inodes : node(i) = DiskNodes[i]
  <2>1. \A i \in Inodes : 2 + i \in 1..(MAX_INODES + 2) /\ (2 + i) - 1 = i + 1
    BY Layout DEF Inodes
  <2> QED
    BY <1>4, <2>1, DiskTypes DEF Inv
<1>7. value(1) = disk[0] /\ value(2) = disk[1] /\ value(dir) = DiskDir
  BY <1>2, <1>4, DiskTypes, Layout DEF Inv
<1> HIDE DEF node, dir
<1>8. ROOT_INODE \in Inodes
  BY DiskTypes DEF Inv
<1>m. mounted' = (mounted \/ (magic /\ n >= 1)) /\ mounted \in BOOLEAN
  BY <1>1 DEF Inv, MemoryType
<1>r. n < dir => root' = root
  BY <1>1
<1>9. CASE n = 0 \/ (n = 1 /\ ~magic)
  <2>1. ~(n >= 2) /\ ~(n >= dir - 1) /\ n # dir /\ n < dir
    BY <1>2, <1>9
  <2>2. bitmap' = bitmap /\ inodes' = inodes /\ count' = count
    BY <1>1, <2>1
  <2>3. root' = root
    BY <1>r, <2>1
  <2>4. ~(magic /\ n >= 1)
    BY <1>9
  <2>5. mounted' = mounted
    BY <1>m, <2>4
  <2> QED
    BY <1>5, <2>2, <2>3, <2>5
<1>10. CASE ~(n = 0) /\ ~(n = 1 /\ ~magic)
  <2>1. upset' = "none"
    BY DEF Sound
  <2>2. ~(n >= 1 /\ n < reads) /\ ~(n = reads /\ reads = dir - 1)
    BY <1>1, <2>1
  <2>3. n = dir /\ magic /\ hasRoot
    BY <1>1, <1>2, <1>10, <2>2
  <2>4. saved # "broken" /\ ~(count' > DIR_SECTOR)
    BY <1>1, <2>1, <2>2, <2>3
  <2>5. count' = DiskCount /\ DiskCount \in Nat /\ DIR_SECTOR \in Nat
    BY <1>1, <1>6, <1>8, <2>3, DiskTypes, ZohFsAssumption DEF Inv
  <2>6. inodes' = DiskNodes
    <3>1. inodes' = [i \in Inodes |-> node(i)]
      BY <1>1, <1>2, <2>3
    <3>2. DiskNodes = [i \in Inodes |-> DiskNodes[i]]
      BY DEF DiskNodes
    <3> QED
      BY <1>6, <3>1, <3>2
  <2>7. bitmap' = disk[1] /\ disk[0] = "zohfs"
    BY <1>1, <1>2, <1>7, <2>3
  <2>m. mounted' = TRUE
    <3>1. magic /\ n >= 1
      BY <1>2, <2>3
    <3> QED
      BY <1>m, <3>1, Zenon
  <2>8. DiskNodes[ROOT_INODE].blocks[0] > 0
    BY <1>6, <1>8, <2>3
  <2>9. root' = [k \in RootSlots |-> IF k >= count' THEN root[k] ELSE DiskDir[k]]
    <3>1. PICK junk : root' = [k \in RootSlots |-> IF k >= count' THEN root[k]
                                                   ELSE IF k < DIR_SECTOR THEN value(dir)[k]
                                                   ELSE junk]
      <4>1. ~(n < dir)
        BY <1>2, <2>3
      <4> QED
        BY <1>1, <4>1
    <3>2. \A k \in RootSlots : ~(k >= count') => k < DIR_SECTOR
      BY <2>4, <2>5 DEF RootSlots
    <3> QED
      BY <1>7, <3>1, <3>2
  <2> QED
    <3>1. count' <= DIR_SECTOR
      BY <2>4, <2>5
    <3> QED
      BY <1>5, <2>m, <2>4, <3>1, <2>5, <2>6, <2>7, <2>8, <2>9, Zenon
<1> QED
  BY <1>9, <1>10, Zenon

\* What is read off the disk stays as long as the disk does.
LEMMA DiskSame ==
  ASSUME DiskType, UNCHANGED disk
  PROVE  DiskType' /\ DiskDir' = DiskDir /\ DiskCount' = DiskCount /\ DiskNodes' = DiskNodes
BY DEF DiskType, DiskDir, DiskCount, DiskNodes

\* The volume on the disk stays when the disk does and no name is added to kept.
LEMMA DiskInvSame ==
  ASSUME DiskType, UNCHANGED disk, DiskInv, kept' \subseteq kept, Mountable' => Mountable
  PROVE  DiskInv'
<1> SUFFICES ASSUME Mountable', disk[0] = "zohfs"
             PROVE  Volume(disk, kept', DiskDir, DiskCount, DiskNodes, disk[BITMAP_SECTOR])
  BY DiskSame DEF DiskInv
<1>1. Volume(disk, kept, DiskDir, DiskCount, DiskNodes, disk[BITMAP_SECTOR])
  BY DEF DiskInv
<1> QED
  BY <1>1 DEF Volume

\* Outside a call that saves, saved itself says whether the disk can be mounted.
LEMMA NotSaving ==
  ASSUME op.step \in {"idle", "write"}
  PROVE  SaveCut = saved
BY DEF SaveCut, At

LEMMA InitStep ==
  ASSUME Sound, Inv, NEW n \in 0..Len(MountOrder), init(n), Sound'
  PROVE  Inv'
<1> USE DEF Inv
<1>1. op.step = "idle" /\ UNCHANGED <<disk, op, saved, kept>>
  BY DEF init, At
<1>2. DiskType' /\ DiskDir' = DiskDir /\ DiskCount' = DiskCount /\ DiskNodes' = DiskNodes
  BY <1>1, DiskSame
<1>3. CacheInv'
  BY <1>1, InitReads, Zenon DEF CacheInv
<1>4. (Mountable' <=> Mountable) /\ SaveCut = saved
  BY <1>1, <1>2, NotSaving DEF Mountable, SaveCut, At
<1>5. DiskInv'
  BY <1>1, <1>4, DiskInvSame
<1>6. SaveInv' /\ WriteInv'
  BY <1>1 DEF SaveInv, WriteInv
<1>7. CASE UNCHANGED <<mounted, bitmap, inodes, root, count>>
  <2>1. MemoryType' /\ MemoryInv'
    BY <1>1, <1>7 DEF MemoryType, MemoryInv
  <2>2. AheadInv'
    BY <1>1, <1>2, <1>4, <1>7 DEF AheadInv
  <2> QED
    BY <1>2, <1>3, <1>5, <1>6, <2>1, <2>2
<1>8. CASE /\ mounted' = TRUE /\ disk[0] = "zohfs" /\ saved # "broken" /\ count' <= DIR_SECTOR
           /\ DiskNodes[ROOT_INODE].blocks[0] > 0
           /\ bitmap' = disk[1] /\ inodes' = DiskNodes /\ count' = DiskCount
           /\ root' = [k \in RootSlots |-> IF k >= count' THEN root[k] ELSE DiskDir[k]]
  <2>1. Mountable
    BY <1>4, <1>8 DEF Mountable
  <2>2. Volume(disk, kept, DiskDir, DiskCount, DiskNodes, disk[1])
    BY <1>8, <2>1, Layout DEF DiskInv
  <2>3. DiskCount \in Nat /\ DiskCount + 1 <= MAX_INODES - 1 /\ DIR_SECTOR \in Nat
    <3>1. DiskCount + 1 <= Cardinality(InUse(DiskNodes))
      BY <2>2 DEF Volume
    <3> QED
      BY <3>1, DiskTypes, VolumeCount, Layout, ZohFsAssumption
  <2>4. \A k \in 0..(DiskCount - 1) : k \in RootSlots /\ root'[k] = DiskDir[k]
    BY <1>8, <2>3, Layout DEF RootSlots
  <2>5. Live(root', DiskCount) = Live(DiskDir, DiskCount)
    BY <2>4 DEF Live
  <2>6. \A k \in Live(root', DiskCount) : root'[k] = DiskDir[k] /\ k < DiskCount
    BY <2>3, <2>4 DEF Live
  <2>7. Volume(disk, kept, root', DiskCount, DiskNodes, disk[1])
    <3>1. ASSUME NEW k \in Live(root', DiskCount) PROVE FileSound(disk, root'[k], DiskNodes, disk[1])
      BY <2>2, <2>5, <2>6 DEF Volume
    <3>2. \A k, l \in Live(root', DiskCount) :
             k # l => root'[k].inode # root'[l].inode /\ root'[k].name # root'[l].name
      BY <2>2, <2>5, <2>6 DEF Volume
    <3>3. \A name \in kept : \E k \in Live(root', DiskCount) : root'[k].name = name
      BY <2>2, <2>5, <2>6 DEF Volume
    <3> QED
      BY <2>2, <3>1, <3>2, <3>3 DEF Volume
  <2>8. MemoryInv'
    <3>1. DiskNodes[ROOT_INODE].blocks[0] # 0 /\ DiskNodes[ROOT_INODE].size = DiskCount
      BY <1>8, DiskTypes
    <3> QED
      BY <1>1, <1>8, <2>7, <3>1 DEF MemoryInv
  <2>9. root' \in [RootSlots -> DirEntries]
    <3>1. ASSUME NEW k \in RootSlots, ~(k >= count') PROVE DiskDir[k] \in DirEntries
      <4>1. k \in 0..(DIR_SECTOR - 1)
        BY <1>8, <2>3, <3>1 DEF RootSlots
      <4> QED
        BY <4>1, DiskTypes
    <3>2. \A k \in RootSlots : root[k] \in DirEntries
      BY DEF MemoryType
    <3> QED
      BY <1>8, <3>1, <3>2
  <2>10. MemoryType'
    <3>1. inodes' \in [Inodes -> Nodes] /\ count' \in Nat
      BY <1>8, <2>3, DiskTypes
    <3> QED
      BY <1>1, <1>8, <2>9, <3>1 DEF MemoryType
  <2>11. Ahead(root', DiskCount, DiskNodes, DiskDir, DiskCount, DiskNodes, kept)
    <3>1. \A name \in kept : \E k \in Live(root', DiskCount) : k < DiskCount /\ root'[k].name = name
      BY <2>6, <2>7 DEF Volume
    <3> QED
      BY <2>6, <3>1 DEF Ahead
  <2>12. AheadInv'
    BY <1>1, <1>2, <1>8, <2>5, <2>11 DEF AheadInv
  <2> QED
    BY <1>2, <1>3, <1>5, <1>6, <2>8, <2>10, <2>12
<1> QED
  BY <1>7, <1>8, InitReads, Zenon

LEMMA EmptyNode ==
  Inode_empty \in Nodes /\ Blocks(Inode_empty) = {} /\ Inode_empty.mode = "none"
<1>1. 0 \in 0..(TOTAL_BLOCKS - 1)
  BY ZohFsAssumption
<1> QED
  BY <1>1 DEF Inode_empty, Nodes, Blocks

LEMMA EmptyRootType ==
  NoEntry \in DirEntries /\ EmptyRoot \in [RootSlots -> DirEntries]
<1>1. 0 \in 0..(MAX_INODES - 1)
  BY Layout
<1>2. NoEntry \in DirEntries
  BY <1>1 DEF NoEntry, DirEntries
<1> HIDE DEF NoEntry
<1> QED
  BY <1>2 DEF EmptyRoot

LEMMA IdleType ==
  /\ Idle \in OpType
  /\ Idle.step = "idle"
BY EmptyNode, Layout DEF Idle, OpType

LEMMA EmptyCacheCoherent ==
  ASSUME NEW d PROVE EmptyCache \in Caches(d)
<1>1. EmptyCache = [r \in CacheSlots |-> EmptyCache[r]] /\ \A r \in CacheSlots : EmptyCache[r] = NoLine
  BY DEF EmptyCache, CacheSlots
<1>2. \A r \in CacheSlots : EmptyCache[r] \in LinesOf(d, r)
  BY <1>1 DEF LinesOf
<1> HIDE DEF EmptyCache
<1> QED
  BY <1>1, <1>2, CacheIntro

\* mkfs makes an empty volume in memory; from here the disk is not to be mounted.
LEMMA MkfsStep ==
  ASSUME Inv, mkfs
  PROVE  Inv'
<1> USE DEF Inv
<1>1. UNCHANGED <<disk, cache, mounted, saved>> /\ kept' = {} /\ root' = EmptyRoot /\ count' = 0
  BY DEF mkfs
<1>2. op' = [Idle EXCEPT !.step = "mkfs", !.k = 1]
  BY DEF mkfs
<1>3. op'.step = "mkfs" /\ op'.k = 1
  BY <1>2 DEF Idle
<1>4. DiskType'
  BY <1>1, DiskSame
<1>5. CacheInv'
  <2>1. \A r \in CacheSlots : ~(r < op'.k - 1)
    BY <1>3 DEF CacheSlots
  <2> QED
    BY <1>1, <2>1 DEF CacheInv
<1>6. ~Mountable'
  BY <1>3 DEF Mountable, SaveCut, At
<1>7. DiskInv' /\ AheadInv'
  BY <1>6 DEF DiskInv, AheadInv
<1>8. SaveInv'
  <2>1. Order' = MkfsOrder
    BY <1>3 DEF Order
  <2>2. Len(Order') = MAX_INODES + 2
    BY <2>1, Ascending
  <2>3. op'.k \in 1..Len(Order')
    BY <1>3, <2>2, Layout
  <2>4. \A j \in 1..(op'.k - 1) : FALSE
    BY <1>3
  <2> QED
    BY <1>3, <2>3, <2>4 DEF SaveInv
<1>9. WriteInv'
  BY <1>3 DEF WriteInv
<1>10. ROOT_INODE \in Inodes
  BY DiskTypes
<1> DEFINE rnode == [Inode_empty EXCEPT !.mode = "dir", !.block_count = 1, !.blocks[0] = 1]
<1>11. inodes' = [i \in Inodes |-> IF i = ROOT_INODE THEN rnode ELSE Inode_empty]
  BY DEF mkfs
<1>12. rnode \in Nodes /\ rnode.mode = "dir" /\ rnode.blocks[0] = 1 /\ rnode.size = 0
  <2>1. 0 \in 0..(DIRECT_BLOCKS - 1) /\ 0 \in 0..(TOTAL_BLOCKS - 1) /\ 1 \in 0..(TOTAL_BLOCKS - 1)
    BY ZohFsAssumption
  <2> QED
    BY <2>1, Zenon DEF Inode_empty, Nodes
<1> HIDE DEF rnode
<1>13. inodes' \in [Inodes -> Nodes]
  BY <1>11, <1>12, EmptyNode
<1>14. MemoryType'
  <2>1. root' \in [RootSlots -> DirEntries]
    BY <1>1, EmptyRootType
  <2>2. op' \in OpType
    BY <1>2, IdleType, Zenon DEF OpType
  <2> QED
    BY <1>1, <1>13, <2>1, <2>2 DEF MemoryType
<1>15. InUse(inodes') = {ROOT_INODE}
  BY <1>10, <1>11, <1>12, EmptyNode DEF InUse
<1>16. Cardinality(InUse(inodes')) = 1
  BY <1>15, FS_Singleton
<1>17. Live(root', count') = {}
  BY <1>1 DEF Live
<1>18. \A i \in Inodes : inodes'[i].mode = "none" => Blocks(inodes'[i]) = {}
  BY <1>11, <1>12, EmptyNode
<1>19. inodes'[ROOT_INODE] = rnode /\ bitmap' = 0..(SYSTEM_BLOCKS - 1)
  BY <1>10, <1>11 DEF mkfs
<1>20. Volume(disk', kept', root', count', inodes', bitmap')
  <2>1. count' + 1 <= Cardinality(InUse(inodes'))
    BY <1>1, <1>16
  <2> QED
    BY <1>1, <1>12, <1>17, <1>18, <1>19, <2>1 DEF Volume
<1>21. MemoryInv'
  BY <1>1, <1>12, <1>19, <1>20 DEF MemoryInv
<1> QED
  BY <1>4, <1>5, <1>7, <1>8, <1>9, <1>14, <1>21

\* Power goes: the disk can be mounted afterwards if it could be before.
LEMMA PowerStep ==
  ASSUME Inv, power_fails
  PROVE  Inv'
<1> USE DEF Inv
<1>1. /\ UNCHANGED <<disk, kept>> /\ cache' = EmptyCache /\ mounted' = FALSE
      /\ inodes' = [i \in Inodes |-> Inode_empty] /\ root' = EmptyRoot /\ count' = 0
      /\ op' = Idle /\ saved' = SaveCut
  BY DEF power_fails
<1>2. op'.step = "idle"
  BY <1>1, IdleType
<1>3. DiskType' /\ DiskCount' = DiskCount
  BY <1>1, DiskSame
<1>4. SaveCut' = SaveCut
  BY <1>1, <1>2 DEF SaveCut, At
<1>5. DiskInv'
  BY <1>1, <1>3, <1>4, DiskInvSame DEF Mountable
<1>6. CacheInv'
  BY <1>1, <1>2, EmptyCacheCoherent DEF CacheInv
<1>7. MemoryInv' /\ AheadInv' /\ SaveInv' /\ WriteInv'
  BY <1>1, <1>2, Zenon DEF MemoryInv, AheadInv, SaveInv, WriteInv
<1>8. MemoryType'
  <2>1. root' \in [RootSlots -> DirEntries]
    BY <1>1, EmptyRootType
  <2>2. saved' \in {"whole", "part", "broken"}
    BY <1>1 DEF SaveCut, MemoryType
  <2> QED
    BY <1>1, <2>1, <2>2, IdleType, EmptyNode, Zenon DEF MemoryType
<1> QED
  BY <1>3, <1>5, <1>6, <1>7, <1>8

\* The volume in memory, with the bounds that follow from it.
LEMMA InMemory ==
  ASSUME Inv, mounted \/ op.step = "mkfs"
  PROVE  /\ Volume(disk, kept, root, count, inodes, bitmap)
         /\ count \in Nat /\ count + 1 <= Cardinality(InUse(inodes))
         /\ count + 1 <= MAX_INODES - 1
         /\ \A k \in Live(root, count) : /\ k \in RootSlots /\ k \in Nat /\ k < count
                                         /\ root[k].inode \in Inodes
                                         /\ inodes[root[k].inode] \in Nodes
                                         /\ FileSound(disk, root[k], inodes, bitmap)
         /\ Entries = Live(root, count)
<1>1. Volume(disk, kept, root, count, inodes, bitmap)
  BY DEF Inv, MemoryInv
<1>2. count \in Nat /\ root \in [0..(MAX_INODES - 1) -> DirEntries] /\ inodes \in [Inodes -> Nodes]
  BY DEF Inv, MemoryType, RootSlots
<1>3. count + 1 <= Cardinality(InUse(inodes))
  BY <1>1 DEF Volume
<1>4. count + 1 <= MAX_INODES - 1
  BY <1>2, <1>3, VolumeCount, Layout
<1>5. count <= MAX_INODES /\ MAX_INODES \in Nat
  BY <1>2, <1>4, Layout
<1>6. \A k \in Live(root, count) : k \in 0..(MAX_INODES - 1) /\ k \in Nat /\ k < count /\ root[k].inode \in Inodes
  BY <1>2, <1>5, LiveInodes
<1>7. \A k \in Live(root, count) : FileSound(disk, root[k], inodes, bitmap)
  BY <1>1 DEF Volume
<1>8. Entries = Live(root, count)
  BY DEF Entries, Live
<1> QED
  BY <1>1, <1>2, <1>3, <1>4, <1>6, <1>7, <1>8 DEF RootSlots

\* find_in_root returns an entry of the name.
LEMMA Found ==
  ASSUME Inv, mounted, NEW name, Matches(name) # {}
  PROVE  Min(Matches(name)) \in Live(root, count) /\ root[Min(Matches(name))].name = name
<1>1. \A k \in Matches(name) : k \in Live(root, count) /\ root[k].name = name
  BY InMemory DEF Matches
<1>2. Matches(name) \subseteq Nat
  BY <1>1, InMemory
<1>3. Min(Matches(name)) \in Matches(name)
  BY <1>2, MinIn
<1> QED
  BY <1>1, <1>3

\* Steps that change the cache, or nothing.
LEMMA CacheStep ==
  ASSUME Inv, UNCHANGED <<disk, mounted, bitmap, inodes, root, count, op, saved, kept>>,
         (op.step # "mkfs" /\ cache' \in Caches(disk)) \/ UNCHANGED cache
  PROVE  Inv'
<1> USE DEF Inv
<1>1. DiskType' /\ DiskDir' = DiskDir /\ DiskCount' = DiskCount /\ DiskNodes' = DiskNodes
  BY DiskSame
<1>2. Mountable' <=> Mountable
  BY <1>1 DEF Mountable, SaveCut, At
<1>3. DiskInv'
  BY <1>2, DiskInvSame
<1>4. MemoryType' /\ MemoryInv'
  BY DEF MemoryType, MemoryInv
<1>5. AheadInv'
  BY <1>1, <1>2 DEF AheadInv
<1>6. CacheInv'
  BY DEF CacheInv
<1>7. SaveInv'
  BY DEF SaveInv, Order, Image, SavedEntry
<1>8. WriteInv'
  BY DEF WriteInv
<1> QED
  BY <1>1, <1>3, <1>4, <1>5, <1>6, <1>7, <1>8

LEMMA ReadStep ==
  ASSUME Inv, NEW name, NEW pos \in 0..(DIRECT_BLOCKS - 1), read_file_data(name, pos)
  PROVE  Inv'
<1> DEFINE i == find_file(name)
           b == inodes[i].blocks[pos]
<1>1. /\ mounted /\ Matches(name) # {} /\ op.step = "idle" /\ b # 0
      /\ cache' = CacheAfterRead(cache, BlockSector(b))
      /\ UNCHANGED <<disk, mounted, bitmap, inodes, root, count, op, saved, kept>>
  BY DEF read_file_data, At, fsvars, history
<1>2. i \in Inodes /\ inodes[i] \in Nodes /\ \A x \in Blocks(inodes[i]) : x >= SYSTEM_BLOCKS
  BY <1>1, Found, InMemory, Zenon DEF find_file, FileSound
<1>3. b \in Blocks(inodes[i])
  BY <1>1, Zenon DEF Blocks
<1> HIDE DEF b, i
<1>4. BlockSector(b) \in Sectors
  BY <1>2, <1>3, BlockPlace
<1>5. cache' \in Caches(disk)
  BY <1>1, <1>4, ReadCoherent, Zenon DEF Inv, CacheInv
<1> QED
  BY <1>1, <1>5, CacheStep

LEMMA InvalidateStep ==
  ASSUME Inv, invalidate, At("idle"), UNCHANGED <<fsvars, op, history>>
  PROVE  Inv'
<1>1. /\ cache' \in Caches(disk) /\ op.step # "mkfs"
      /\ UNCHANGED <<disk, mounted, bitmap, inodes, root, count, op, saved, kept>>
  BY EmptyCacheCoherent DEF invalidate, At, fsvars, history
<1> QED
  BY <1>1, CacheStep

\* Steps that change only which call is under way, between calls that do not save.
LEMMA CallStep ==
  ASSUME Inv, UNCHANGED <<disk, cache, mounted, bitmap, inodes, root, count, saved, kept>>,
         op.step \in {"idle", "write"}, op'.step \in {"idle", "write"},
         op' \in OpType,
         WriteInv'
  PROVE  Inv'
<1> USE DEF Inv
<1>1. DiskType' /\ DiskDir' = DiskDir /\ DiskCount' = DiskCount /\ DiskNodes' = DiskNodes
  BY DiskSame
<1>2. Mountable' <=> Mountable
  BY <1>1 DEF Mountable, SaveCut, At
<1>3. DiskInv'
  BY <1>2, DiskInvSame
<1>4. MemoryType'
  BY DEF MemoryType
<1>5. MemoryInv'
  BY DEF MemoryInv
<1>6. AheadInv'
  BY <1>1, <1>2 DEF AheadInv
<1>7. CacheInv' /\ SaveInv'
  BY DEF CacheInv, SaveInv
<1> QED
  BY <1>1, <1>3, <1>4, <1>5, <1>6, <1>7

LEMMA WriteStartStep ==
  ASSUME Inv, NEW name, NEW pos \in 0..(DIRECT_BLOCKS - 1), NEW n \in 1..DIRECT_BLOCKS,
         write_file_data(name, pos, n)
  PROVE  Inv'
<1> DEFINE i == find_file(name)
<1>1. /\ mounted /\ Matches(name) # {} /\ op.step = "idle" /\ inodes[i].mode = "file"
      /\ op' = [Idle EXCEPT !.step = "write", !.inode = i, !.node = inodes[i], !.pos = pos, !.left = n]
      /\ UNCHANGED <<disk, cache, mounted, bitmap, inodes, root, count, saved, kept>>
  BY DEF write_file_data, At, fsvars, history
<1>2. PICK k \in Live(root, count) : root[k].inode = i
  BY <1>1, Found DEF find_file
<1>3. i \in Inodes /\ inodes[i] \in Nodes /\ FileSound(disk, root[k], inodes, bitmap)
  BY <1>1, <1>2, InMemory
<1> HIDE DEF i
<1>4. op'.step = "write" /\ op'.inode = i /\ op'.node = inodes[i]
  BY <1>1, IdleType
<1>5. op' \in OpType
  <2>1. i \in 0..(MAX_INODES - 1) /\ pos \in Nat /\ n \in Nat
    BY <1>3, Layout, ZohFsAssumption DEF Inodes
  <2> QED
    BY <1>1, <1>3, <2>1, IdleType, Zenon DEF OpType
<1>6. WriteInv'
  <2>1. \A b \in Blocks(inodes[i]) : b \in bitmap /\ b >= SYSTEM_BLOCKS /\ disk[BlockSector(b)] = i
    BY <1>2, <1>3 DEF FileSound
  <2>2. \E l \in Live(root, count) : root[l].inode = i
    BY <1>2
  <2> QED
    BY <1>1, <1>4, <2>1, <2>2 DEF WriteInv
<1> QED
  BY <1>1, <1>4, <1>5, <1>6, CallStep

LEMMA WriteNoBlockStep ==
  ASSUME Inv, write_no_block
  PROVE  Inv'
<1>1. /\ op.step = "write" /\ op' = Idle
      /\ UNCHANGED <<disk, cache, mounted, bitmap, inodes, root, count, saved, kept>>
  BY DEF write_no_block, At, fsvars, history
<1>2. WriteInv'
  BY <1>1, IdleType DEF WriteInv
<1> QED
  BY <1>1, <1>2, IdleType, CallStep

\* A call that changes memory and starts flush_root_dir: what the disk promises is kept.
LEMMA FlushStarts ==
  ASSUME Inv, op.step = "idle", mounted, UNCHANGED <<disk, cache, mounted, saved>>, kept' \subseteq kept,
         inodes' \in [Inodes -> Nodes], root' \in [RootSlots -> DirEntries], count' \in Nat,
         inodes'[ROOT_INODE].blocks[0] # 0, flush_root_dir, MemoryInv',
         Mountable => Ahead(root', count', inodes', DiskDir, DiskCount, DiskNodes, kept')
  PROVE  Inv'
<1> USE DEF Inv
<1>1. op' = [Idle EXCEPT !.step = "flush", !.k = 1]
  BY DEF flush_root_dir
<1>2. op'.step = "flush" /\ op'.k = 1
  BY <1>1 DEF Idle
<1>3. DiskType' /\ DiskDir' = DiskDir /\ DiskCount' = DiskCount /\ DiskNodes' = DiskNodes
  BY DiskSame
<1>4. Mountable' => Mountable
  <2>1. SaveCut = saved
    BY NotSaving
  <2>2. SaveCut' # "broken" => saved = "whole"
    BY <1>2 DEF SaveCut, At
  <2> QED
    BY <1>3, <2>1, <2>2 DEF Mountable
<1>5. DiskInv'
  BY <1>4, DiskInvSame
<1>6. AheadInv'
  BY <1>2, <1>3, <1>4 DEF AheadInv
<1>7. CacheInv' /\ WriteInv'
  BY <1>2 DEF CacheInv, WriteInv
<1>8. SaveInv'
  <2>1. Order' = FlushOrder
    BY <1>2 DEF Order
  <2>2. op'.k \in 1..Len(Order')
    BY <1>2, <2>1, DirFirst, Layout
  <2>3. \A j \in 1..(op'.k - 1) : FALSE
    BY <1>2
  <2> QED
    BY <1>2, <2>2, <2>3 DEF SaveInv
<1>9. MemoryType'
  <2>1. op' \in OpType
    BY <1>1, IdleType, Zenon DEF OpType
  <2> QED
    BY <2>1 DEF MemoryType
<1> QED
  BY <1>3, <1>5, <1>6, <1>7, <1>8, <1>9

LEMMA CreateStep ==
  ASSUME Inv, NEW name \in Names, NEW mode \in {"file", "dir"}, create(name, mode)
  PROVE  Inv'
<1> DEFINE a == alloc_inode
<1>1. /\ op.step = "idle" /\ mounted /\ Matches(name) = {} /\ FreeInodes # {} /\ flush_root_dir
      /\ inodes' = [inodes EXCEPT ![a].mode = mode, ![a].size = 0, ![ROOT_INODE].size = count + 1]
      /\ root' = [root EXCEPT ![count] = [name |-> name, inode |-> a]] /\ count' = count + 1
      /\ UNCHANGED <<disk, cache, mounted, bitmap, saved, kept>>
  BY DEF create, add_to_root, At, history
<1>2. a \in Inodes /\ inodes[a].mode = "none"
  <2>1. FreeInodes \subseteq Nat
    BY DEF FreeInodes, Inodes
  <2>2. a \in FreeInodes
    BY <1>1, <2>1, MinIn DEF alloc_inode
  <2> QED
    BY <2>2 DEF FreeInodes
<1> HIDE DEF a
<1>3. /\ Volume(disk, kept, root, count, inodes, bitmap) /\ count \in Nat
      /\ count + 1 <= Cardinality(InUse(inodes)) /\ Entries = Live(root, count)
  BY <1>1, InMemory
<1>4. ROOT_INODE \in Inodes /\ a # ROOT_INODE /\ inodes[ROOT_INODE].blocks[0] # 0
  BY <1>1, <1>2, <1>3, DiskTypes DEF Volume, Inv, MemoryInv
<1>5. count \in RootSlots /\ count \in Nat
  BY <1>1, InMemory, Layout DEF RootSlots
<1>6. inodes \in [Inodes -> Nodes] /\ root \in [RootSlots -> DirEntries]
  BY DEF Inv, MemoryType
<1>7. /\ inodes' \in [Inodes -> Nodes]
      /\ inodes'[a] = [inodes[a] EXCEPT !.mode = mode, !.size = 0]
      /\ inodes'[ROOT_INODE] = [inodes[ROOT_INODE] EXCEPT !.size = count + 1]
      /\ \A i \in Inodes : i # a /\ i # ROOT_INODE => inodes'[i] = inodes[i]
  <2>1. [inodes[a] EXCEPT !.mode = mode, !.size = 0] \in Nodes
    BY <1>2, <1>6, Zenon DEF Nodes
  <2>2. [inodes[ROOT_INODE] EXCEPT !.size = count + 1] \in Nodes
    BY <1>4, <1>5, <1>6 DEF Nodes
  <2>3. /\ inodes'[a] = [inodes[a] EXCEPT !.mode = mode, !.size = 0]
        /\ inodes'[ROOT_INODE] = [inodes[ROOT_INODE] EXCEPT !.size = count + 1]
        /\ \A i \in Inodes : i # a /\ i # ROOT_INODE => inodes'[i] = inodes[i]
        /\ inodes' = [i \in Inodes |-> inodes'[i]]
    BY <1>1, <1>2, <1>4, <1>6, Zenon
  <2>4. \A i \in Inodes : inodes'[i] \in Nodes
    BY <1>6, <2>1, <2>2, <2>3
  <2> QED
    BY <2>3, <2>4
<1>8. /\ inodes'[a].mode = mode /\ inodes'[ROOT_INODE].mode = inodes[ROOT_INODE].mode
      /\ inodes'[ROOT_INODE].blocks[0] # 0 /\ inodes'[ROOT_INODE].size = count + 1
      /\ \A i \in Inodes : inodes'[i].blocks = inodes[i].blocks
  <2>1. inodes[a] \in Nodes /\ inodes[ROOT_INODE] \in Nodes
    BY <1>2, <1>4, <1>6
  <2>2. inodes'[a].mode = mode /\ inodes'[a].blocks = inodes[a].blocks
    BY <1>7, <2>1 DEF Nodes
  <2>3. /\ inodes'[ROOT_INODE].mode = inodes[ROOT_INODE].mode
        /\ inodes'[ROOT_INODE].size = count + 1
        /\ inodes'[ROOT_INODE].blocks = inodes[ROOT_INODE].blocks
    BY <1>7, <2>1 DEF Nodes
  <2> QED
    BY <1>4, <1>7, <2>2, <2>3, Zenon
<1>9. \A i \in Inodes : /\ Blocks(inodes'[i]) = Blocks(inodes[i])
                        /\ i # a => (inodes'[i].mode = inodes[i].mode)
  <2>1. \A i \in Inodes : Blocks(inodes'[i]) = Blocks(inodes[i])
    BY <1>8 DEF Blocks
  <2>2. ASSUME NEW i \in Inodes, i # a PROVE inodes'[i].mode = inodes[i].mode
    BY <1>7, <1>8, <2>2, Zenon
  <2> QED
    BY <2>1, <2>2
<1>10. /\ root' \in [RootSlots -> DirEntries] /\ root'[count] = [name |-> name, inode |-> a]
       /\ \A k \in RootSlots : k # count => root'[k] = root[k]
  <2>1. a \in 0..(MAX_INODES - 1)
    BY <1>2, Layout DEF Inodes
  <2>2. [name |-> name, inode |-> a] \in DirEntries
    BY <2>1, Zenon DEF DirEntries
  <2> QED
    BY <1>1, <1>5, <1>6, <2>2
<1>11. /\ \A k \in Live(root', count + 1) : k = count \/ (k \in Live(root, count) /\ root'[k] = root[k])
       /\ \A k \in Live(root, count) : k \in Live(root', count + 1) /\ root'[k] = root[k]
  <2>1. ASSUME NEW k \in Live(root', count + 1), k # count
        PROVE  k \in Live(root, count) /\ root'[k] = root[k]
    <3>1. k \in 0..(count - 1) /\ root'[k].inode # 0
      BY <1>5, <2>1 DEF Live
    <3>2. root'[k] = root[k]
      <4>1. k \in RootSlots
        BY <1>5, <3>1, Layout DEF RootSlots
      <4> QED
        BY <1>10, <2>1, <4>1
    <3> QED
      BY <3>1, <3>2 DEF Live
  <2>2. ASSUME NEW k \in Live(root, count)
        PROVE  k \in Live(root', count + 1) /\ root'[k] = root[k]
    <3>1. k \in 0..(count - 1) /\ root[k].inode # 0 /\ k \in RootSlots
      BY <1>1, InMemory DEF Live
    <3>2. k \in 0..((count + 1) - 1) /\ k # count
      BY <1>5, <3>1
    <3> QED
      BY <1>10, <3>1, <3>2 DEF Live
  <2> QED
    BY <2>1, <2>2
<1>12. root'[count].inode = a /\ root'[count].name = name
  BY <1>10
<1>13. \A k \in Live(root, count) :
         /\ root[k].inode \in Inodes /\ root[k].inode # a /\ root[k].name # name
         /\ FileSound(disk, root[k], inodes', bitmap)
  <2> SUFFICES ASSUME NEW k \in Live(root, count)
               PROVE  /\ root[k].inode \in Inodes /\ root[k].inode # a /\ root[k].name # name
                      /\ FileSound(disk, root[k], inodes', bitmap)
    OBVIOUS
  <2>1. root[k].inode \in Inodes /\ FileSound(disk, root[k], inodes, bitmap)
    BY <1>1, InMemory
  <2>2. root[k].inode # a
    BY <1>2, <2>1 DEF FileSound
  <2>3. root[k].name # name
    BY <1>1, <1>3 DEF Matches
  <2> QED
    BY <1>9, <2>1, <2>2, <2>3 DEF FileSound
<1>14. FileSound(disk, root'[count], inodes', bitmap)
  <2>1. Blocks(inodes'[a]) = {}
    BY <1>2, <1>3, <1>9 DEF Volume
  <2> QED
    BY <1>4, <1>8, <1>12, <2>1 DEF FileSound
<1>15. Cardinality(InUse(inodes')) = Cardinality(InUse(inodes)) + 1
  <2>1. InUse(inodes') = InUse(inodes) \union {a} /\ a \notin InUse(inodes)
    BY <1>2, <1>8, <1>9 DEF InUse
  <2> QED
    BY <2>1, VolumeCount, FS_AddElement, Zenon
<1>16. Volume(disk, kept, root', count + 1, inodes', bitmap)
  <2>1. (count + 1) + 1 <= Cardinality(InUse(inodes'))
    <3>1. PICK m \in Nat : m = Cardinality(InUse(inodes))
      BY VolumeCount, Zenon
    <3>2. (count + 1) + 1 <= m + 1
      BY <1>3, <3>1
    <3> QED
      BY <1>15, <3>1, <3>2, Zenon
  <2>2. \A i \in Inodes : inodes'[i].mode = "none" => Blocks(inodes'[i]) = {}
    BY <1>3, <1>8, <1>9 DEF Volume
  <2>3. \A k \in Live(root', count + 1) : FileSound(disk, root'[k], inodes', bitmap)
    BY <1>11, <1>13, <1>14
  <2>4. ASSUME NEW k \in Live(root', count + 1), NEW l \in Live(root', count + 1), k # l
        PROVE  root'[k].inode # root'[l].inode /\ root'[k].name # root'[l].name
    <3>1. CASE k = count
      BY <1>11, <1>12, <1>13, <2>4, <3>1
    <3>2. CASE l = count
      BY <1>11, <1>12, <1>13, <2>4, <3>2
    <3>3. CASE k # count /\ l # count
      <4>1. \A m, n \in Live(root, count) :
              m # n => root[m].inode # root[n].inode /\ root[m].name # root[n].name
        BY <1>3, Zenon DEF Volume
      <4> QED
        BY <1>11, <2>4, <3>3, <4>1
    <3> QED
      BY <3>1, <3>2, <3>3
  <2>5. \A nm \in kept : \E k \in Live(root', count + 1) : root'[k].name = nm
    BY <1>3, <1>11 DEF Volume
  <2>6. 0..(SYSTEM_BLOCKS - 1) \subseteq bitmap /\ inodes'[ROOT_INODE].mode # "none"
    BY <1>3, <1>8 DEF Volume
  <2> QED
    BY <2>1, <2>2, <2>3, <2>4, <2>5, <2>6 DEF Volume
<1>17. MemoryInv'
  BY <1>1, <1>8, <1>16 DEF MemoryInv
<1>18. ASSUME Mountable PROVE Ahead(root', count', inodes', DiskDir, DiskCount, DiskNodes, kept')
  <2>1. Ahead(root, count, inodes, DiskDir, DiskCount, DiskNodes, kept) /\ count = DiskCount
    BY <1>1, <1>18 DEF Inv, AheadInv
  <2>2. ASSUME NEW k \in Live(root', count + 1), k < DiskCount
        PROVE  /\ root'[k] = DiskDir[k]
               /\ Blocks(DiskNodes[root'[k].inode]) \subseteq Blocks(inodes'[root'[k].inode])
    <3>1. k \in Live(root, count) /\ root'[k] = root[k]
      BY <1>5, <1>11, <2>1, <2>2
    <3> QED
      BY <1>9, <1>13, <2>1, <2>2, <3>1 DEF Ahead
  <2>3. \A nm \in kept : \E k \in Live(root', count + 1) : k < DiskCount /\ root'[k].name = nm
    BY <1>11, <2>1 DEF Ahead
  <2> QED
    BY <1>1, <2>2, <2>3, Zenon DEF Ahead
<1>19. inodes'[ROOT_INODE].blocks[0] # 0 /\ count' \in Nat /\ kept' \subseteq kept
  BY <1>1, <1>5, <1>8
<1> QED
  BY <1>1, <1>7, <1>10, <1>17, <1>18, <1>19, FlushStarts, Zenon

LEMMA FreedBlocks ==
  ASSUME NEW node \in Nodes
  PROVE  Freed(node) \subseteq Blocks(node)
<1>1. node.block_count \in Nat /\ DIRECT_BLOCKS \in Nat
  BY ZohFsAssumption DEF Nodes
<1>2. PICK m \in Nat : m = Min({node.block_count, DIRECT_BLOCKS}) /\ m <= DIRECT_BLOCKS
  BY <1>1, MinMaxOfTwo
<1>3. 0..(m - 1) \subseteq 0..(DIRECT_BLOCKS - 1)
  BY <1>1, <1>2
<1> QED
  BY <1>2, <1>3, Zenon DEF Freed, Blocks

LEMMA DeleteStep ==
  ASSUME Inv, NEW name, delete_file(name)
  PROVE  Inv'
<1> DEFINE e == Min(Matches(name))
           i == root[e].inode
<1>1. /\ op.step = "idle" /\ mounted /\ Matches(name) # {} /\ flush_root_dir
      /\ root' = [root EXCEPT ![e] = NoEntry] /\ bitmap' = bitmap \ Freed(inodes[i])
      /\ inodes' = free_inode([inodes EXCEPT ![ROOT_INODE].size = count - 1], i)
      /\ count' = count - 1 /\ kept' = kept \ {name, root[count - 1].name}
      /\ UNCHANGED <<disk, cache, mounted, saved>>
  BY DEF delete_file, At
<1>2. e \in Live(root, count) /\ root[e].name = name
  BY <1>1, Found
<1> HIDE DEF e
<1>3. /\ Volume(disk, kept, root, count, inodes, bitmap) /\ count \in Nat
      /\ count + 1 <= Cardinality(InUse(inodes)) /\ count + 1 <= MAX_INODES - 1
      /\ \A k \in Live(root, count) : k \in RootSlots /\ k \in Nat /\ k < count
      /\ i \in Inodes /\ inodes[i] \in Nodes /\ FileSound(disk, root[e], inodes, bitmap)
  BY <1>1, <1>2, InMemory
<1>4. /\ ROOT_INODE \in Inodes /\ i # ROOT_INODE /\ inodes[i].mode # "none"
      /\ \A b \in Blocks(inodes[i]) : b >= SYSTEM_BLOCKS /\ disk[BlockSector(b)] = i
      /\ inodes[ROOT_INODE].blocks[0] # 0
  BY <1>1, <1>3, DiskTypes DEF FileSound, Inv, MemoryInv
<1> HIDE DEF i
<1>5. count - 1 \in Nat
  BY <1>2, <1>3
<1>6. inodes \in [Inodes -> Nodes] /\ root \in [RootSlots -> DirEntries]
  BY DEF Inv, MemoryType
<1>7. /\ inodes' \in [Inodes -> Nodes] /\ inodes'[i] = Inode_empty
      /\ inodes'[ROOT_INODE] = [inodes[ROOT_INODE] EXCEPT !.size = count - 1]
      /\ \A j \in Inodes : j # i /\ j # ROOT_INODE => inodes'[j] = inodes[j]
  <2>1. [inodes[ROOT_INODE] EXCEPT !.size = count - 1] \in Nodes
    BY <1>4, <1>5, <1>6, Zenon DEF Nodes
  <2>2. /\ inodes'[i] = Inode_empty
        /\ inodes'[ROOT_INODE] = [inodes[ROOT_INODE] EXCEPT !.size = count - 1]
        /\ \A j \in Inodes : j # i /\ j # ROOT_INODE => inodes'[j] = inodes[j]
        /\ inodes' = [j \in Inodes |-> inodes'[j]]
    BY <1>1, <1>3, <1>4, <1>6, Zenon DEF free_inode
  <2>3. \A j \in Inodes : inodes'[j] \in Nodes
    BY <1>6, <2>1, <2>2, EmptyNode
  <2> QED
    BY <2>2, <2>3
<1>8. /\ inodes'[ROOT_INODE].mode = inodes[ROOT_INODE].mode
      /\ inodes'[ROOT_INODE].size = count - 1
      /\ inodes'[ROOT_INODE].blocks = inodes[ROOT_INODE].blocks
  <2>1. inodes[ROOT_INODE] \in Nodes
    BY <1>4, <1>6
  <2> QED
    BY <1>7, <2>1 DEF Nodes
<1>9. \A j \in Inodes : j # i => /\ Blocks(inodes'[j]) = Blocks(inodes[j])
                                 /\ inodes'[j].mode = inodes[j].mode
  <2>1. ASSUME NEW j \in Inodes, j # i
        PROVE  inodes'[j].blocks = inodes[j].blocks /\ inodes'[j].mode = inodes[j].mode
    BY <1>7, <1>8, <2>1, Zenon
  <2> QED
    BY <2>1 DEF Blocks
<1>10. /\ root' \in [RootSlots -> DirEntries] /\ root'[e] = NoEntry
       /\ \A k \in RootSlots : k # e => root'[k] = root[k]
  BY <1>1, <1>2, <1>3, <1>6, EmptyRootType
<1>11. /\ \A k \in Live(root', count - 1) : k \in Live(root, count) /\ k # e /\ root'[k] = root[k]
       /\ \A k \in Live(root, count) :
            k # e /\ k # count - 1 => k \in Live(root', count - 1) /\ root'[k] = root[k]
  <2>1. ASSUME NEW k \in Live(root', count - 1)
        PROVE  k \in Live(root, count) /\ k # e /\ root'[k] = root[k]
    <3>1. k \in 0..((count - 1) - 1) /\ root'[k].inode # 0
      BY DEF Live
    <3>2. k \in 0..(count - 1) /\ k \in RootSlots
      BY <1>3, <3>1, Layout DEF RootSlots
    <3>3. k # e
      <4>1. NoEntry.inode = 0
        BY DEF NoEntry
      <4> QED
        BY <1>10, <3>1, <4>1
    <3> QED
      BY <1>10, <3>1, <3>2, <3>3 DEF Live
  <2>2. ASSUME NEW k \in Live(root, count), k # e, k # count - 1
        PROVE  k \in Live(root', count - 1) /\ root'[k] = root[k]
    <3>1. k \in Nat /\ k < count /\ k \in RootSlots /\ root[k].inode # 0
      BY <1>3 DEF Live
    <3>2. k \in 0..((count - 1) - 1)
      BY <1>3, <2>2, <3>1
    <3> QED
      BY <1>10, <2>2, <3>1, <3>2 DEF Live
  <2> QED
    BY <2>1, <2>2
<1>12. \A k \in Live(root, count) : k # e =>
         /\ root[k].inode \in Inodes /\ root[k].inode # i
         /\ FileSound(disk, root[k], inodes', bitmap')
  <2> SUFFICES ASSUME NEW k \in Live(root, count), k # e
               PROVE  /\ root[k].inode \in Inodes /\ root[k].inode # i
                      /\ FileSound(disk, root[k], inodes', bitmap')
    OBVIOUS
  <2>1. root[k].inode \in Inodes /\ FileSound(disk, root[k], inodes, bitmap)
    BY <1>1, InMemory
  <2>2. root[k].inode # i
    BY <1>2, <1>3 DEF Volume, i
  <2>3. \A b \in Blocks(inodes[root[k].inode]) : b \in bitmap'
    <3> SUFFICES ASSUME NEW b \in Blocks(inodes[root[k].inode]) PROVE b \in bitmap'
      OBVIOUS
    <3>1. b \in bitmap /\ disk[BlockSector(b)] = root[k].inode
      BY <2>1 DEF FileSound
    <3>2. b \notin Blocks(inodes[i])
      BY <1>4, <2>2, <3>1
    <3> QED
      BY <1>1, <1>3, <3>1, <3>2, FreedBlocks
  <2> QED
    BY <1>9, <2>1, <2>2, <2>3 DEF FileSound
<1>13. Cardinality(InUse(inodes')) = Cardinality(InUse(inodes)) - 1
  <2>1. InUse(inodes') = InUse(inodes) \ {i} /\ i \in InUse(inodes)
    BY <1>3, <1>4, <1>7, <1>9, EmptyNode DEF InUse
  <2> QED
    BY <2>1, VolumeCount, FS_RemoveElement, Zenon
<1>14. Volume(disk, kept', root', count - 1, inodes', bitmap')
  <2>1. (count - 1) + 1 <= Cardinality(InUse(inodes'))
    <3>1. PICK m \in Nat : m = Cardinality(InUse(inodes))
      BY VolumeCount, Zenon
    <3>2. (count - 1) + 1 <= m - 1
      BY <1>3, <3>1
    <3> QED
      BY <1>13, <3>1, <3>2, Zenon
  <2>2. \A j \in Inodes : inodes'[j].mode = "none" => Blocks(inodes'[j]) = {}
    BY <1>3, <1>7, <1>9, EmptyNode DEF Volume
  <2>3. \A k \in Live(root', count - 1) : FileSound(disk, root'[k], inodes', bitmap')
    BY <1>11, <1>12
  <2>4. \A k, l \in Live(root', count - 1) :
          k # l => root'[k].inode # root'[l].inode /\ root'[k].name # root'[l].name
    <3>1. \A m, n \in Live(root, count) :
            m # n => root[m].inode # root[n].inode /\ root[m].name # root[n].name
      BY <1>3, Zenon DEF Volume
    <3> QED
      BY <1>11, <3>1
  <2>5. ASSUME NEW nm \in kept' PROVE \E k \in Live(root', count - 1) : root'[k].name = nm
    <3>1. nm \in kept /\ nm # name /\ nm # root[count - 1].name
      BY <1>1
    <3>2. PICK k \in Live(root, count) : root[k].name = nm
      BY <1>3, <3>1 DEF Volume
    <3>3. k # e /\ k # count - 1
      BY <1>2, <3>1, <3>2
    <3> QED
      BY <1>11, <3>2, <3>3
  <2>6. 0..(SYSTEM_BLOCKS - 1) \subseteq bitmap' /\ inodes'[ROOT_INODE].mode # "none"
    <3>1. ASSUME NEW b \in 0..(SYSTEM_BLOCKS - 1) PROVE b \notin Freed(inodes[i])
      <4>1. ~(b >= SYSTEM_BLOCKS)
        BY ZohFsAssumption
      <4> QED
        BY <1>3, <1>4, <4>1, FreedBlocks, Zenon
    <3>2. 0..(SYSTEM_BLOCKS - 1) \subseteq bitmap /\ inodes[ROOT_INODE].mode # "none"
      BY <1>3 DEF Volume
    <3> QED
      BY <1>1, <1>8, <3>1, <3>2
  <2> QED
    BY <2>1, <2>2, <2>3, <2>4, <2>5, <2>6 DEF Volume
<1>15. MemoryInv'
  BY <1>1, <1>4, <1>8, <1>14 DEF MemoryInv
<1>16. ASSUME Mountable PROVE Ahead(root', count', inodes', DiskDir, DiskCount, DiskNodes, kept')
  <2>1. Ahead(root, count, inodes, DiskDir, DiskCount, DiskNodes, kept)
    BY <1>1, <1>16 DEF Inv, AheadInv
  <2>2. ASSUME NEW k \in Live(root', count - 1), k < DiskCount
        PROVE  /\ root'[k] = DiskDir[k]
               /\ Blocks(DiskNodes[root'[k].inode]) \subseteq Blocks(inodes'[root'[k].inode])
    <3>1. k \in Live(root, count) /\ k # e /\ root'[k] = root[k]
      BY <1>11
    <3> QED
      BY <1>9, <1>12, <2>1, <2>2, <3>1 DEF Ahead
  <2>3. ASSUME NEW nm \in kept'
        PROVE  \E k \in Live(root', count - 1) : k < DiskCount /\ root'[k].name = nm
    <3>1. nm \in kept /\ nm # name /\ nm # root[count - 1].name
      BY <1>1
    <3>2. PICK k \in Live(root, count) : k < DiskCount /\ root[k].name = nm
      BY <2>1, <3>1 DEF Ahead
    <3>3. k # e /\ k # count - 1
      BY <1>2, <3>1, <3>2
    <3> QED
      BY <1>11, <3>2, <3>3
  <2> QED
    BY <1>1, <2>2, <2>3, Zenon DEF Ahead
<1>17. inodes'[ROOT_INODE].blocks[0] # 0 /\ count' \in Nat /\ kept' \subseteq kept
  BY <1>1, <1>4, <1>5, <1>8
<1> QED
  BY <1>1, <1>7, <1>10, <1>15, <1>16, <1>17, FlushStarts, Zenon

=============================================================================
