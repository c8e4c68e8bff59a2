---------------------------- MODULE ZohFsProofs -----------------------------
(***************************************************************************)
(* ZohFS keeps its volume: structure, names and contents survive every     *)
(* order of calls, failed writes and power failures, up to the events that *)
(* upset names, for every number of inodes, blocks, names and faults and   *)
(* every size of the cache up to the inode table's.                        *)
(***************************************************************************)
EXTENDS ZohFsLemmas

\* write_file_data, block by block, and the end of it.
LEMMA WriteDoneStep ==
  ASSUME Inv, write_done
  PROVE  Inv'
<1> USE DEF Inv
<1> DEFINE i == op.inode
           node == [op.node EXCEPT !.size = Max({@, op.pos})]
<1>1. /\ op.step = "write" /\ op' = Idle /\ inodes' = [inodes EXCEPT ![i] = node]
      /\ UNCHANGED <<disk, cache, mounted, bitmap, root, count, saved, kept>>
  BY DEF write_done, At, history
<1>2. /\ mounted /\ op.node.mode # "none"
      /\ \A p \in 0..(DIRECT_BLOCKS - 1) : inodes[i].blocks[p] \in {0, op.node.blocks[p]}
      /\ \A b \in Blocks(op.node) : b \in bitmap /\ b >= SYSTEM_BLOCKS /\ disk[BlockSector(b)] = i
  BY <1>1 DEF WriteInv
<1>3. PICK e \in Live(root, count) : root[e].inode = i
  BY <1>1 DEF WriteInv
<1>4. i \in Inodes /\ FileSound(disk, root[e], inodes, bitmap)
  BY <1>2, <1>3, InMemory
<1>5. i # ROOT_INODE /\ inodes[i].mode # "none" /\ ROOT_INODE \in Inodes
  BY <1>3, <1>4, DiskTypes DEF FileSound
<1>6. op.node \in Nodes /\ op.pos \in Nat /\ inodes \in [Inodes -> Nodes]
  BY DEF MemoryType, OpType
<1>7. node \in Nodes /\ node.mode = op.node.mode /\ node.blocks = op.node.blocks
  <2>1. op.node.size \in Nat
    BY <1>6 DEF Nodes
  <2>2. Max({op.node.size, op.pos}) \in Nat
    BY <1>6, <2>1, MinMaxOfTwo, Zenon
  <2> QED
    BY <1>6, <2>2, Zenon DEF Nodes
<1> HIDE DEF i, node
<1>8. /\ inodes' \in [Inodes -> Nodes] /\ inodes'[i] = node
      /\ \A j \in Inodes : j # i => inodes'[j] = inodes[j]
  BY <1>1, <1>4, <1>6, <1>7
<1>9. Blocks(node) = Blocks(op.node) /\ Blocks(inodes[i]) \subseteq Blocks(node)
  BY <1>2, <1>7 DEF Blocks
<1>10. InUse(inodes') = InUse(inodes)
  BY <1>2, <1>4, <1>5, <1>7, <1>8 DEF InUse
<1>11. Volume(disk, kept, root, count, inodes, bitmap)
  BY <1>2, InMemory
<1>12. ASSUME NEW k \in Live(root, count)
       PROVE  /\ root[k].inode \in Inodes /\ FileSound(disk, root[k], inodes', bitmap)
              /\ Blocks(inodes[root[k].inode]) \subseteq Blocks(inodes'[root[k].inode])
  <2>1. root[k].inode \in Inodes /\ FileSound(disk, root[k], inodes, bitmap)
    BY <1>2, InMemory
  <2>2. CASE root[k].inode = i
    BY <1>2, <1>5, <1>7, <1>8, <1>9, <2>1, <2>2 DEF FileSound
  <2>3. CASE root[k].inode # i
    BY <1>8, <2>1, <2>3 DEF FileSound
  <2> QED
    BY <2>2, <2>3
<1>13. Volume(disk, kept, root, count, inodes', bitmap)
  <2>1. \A j \in Inodes : inodes'[j].mode = "none" => Blocks(inodes'[j]) = {}
    BY <1>2, <1>7, <1>8, <1>11 DEF Volume
  <2> QED
    BY <1>5, <1>8, <1>10, <1>11, <1>12, <2>1 DEF Volume
<1>14. op'.step = "idle"
  BY <1>1, IdleType
<1>15. MemoryInv'
  <2>1. inodes'[ROOT_INODE] = inodes[ROOT_INODE]
    BY <1>5, <1>8
  <2> QED
    BY <1>1, <1>2, <1>13, <2>1 DEF MemoryInv
<1>16. DiskType' /\ DiskDir' = DiskDir /\ DiskCount' = DiskCount /\ DiskNodes' = DiskNodes
  BY <1>1, DiskSame
<1>17. Mountable' <=> Mountable
  BY <1>1, <1>14, <1>16 DEF Mountable, SaveCut, At
<1>18. DiskInv'
  BY <1>1, <1>17, DiskInvSame
<1>19. AheadInv'
  <2>1. SUFFICES ASSUME Mountable
                 PROVE  /\ Ahead(root, count, inodes', DiskDir, DiskCount, DiskNodes, kept)
                        /\ count = DiskCount /\ Live(DiskDir, DiskCount) \subseteq Live(root, count)
    BY <1>1, <1>16, <1>17 DEF AheadInv
  <2>2. /\ Ahead(root, count, inodes, DiskDir, DiskCount, DiskNodes, kept)
        /\ count = DiskCount /\ Live(DiskDir, DiskCount) \subseteq Live(root, count)
    BY <1>1, <1>2, <2>1 DEF AheadInv
  <2>3. \A k \in Live(root, count) : k < DiskCount =>
          /\ root[k] = DiskDir[k]
          /\ Blocks(DiskNodes[root[k].inode]) \subseteq Blocks(inodes'[root[k].inode])
    BY <1>12, <2>2 DEF Ahead
  <2> QED
    BY <2>2, <2>3 DEF Ahead
<1>20. CacheInv' /\ SaveInv' /\ WriteInv'
  BY <1>1, <1>14 DEF CacheInv, SaveInv, WriteInv
<1>21. MemoryType'
  BY <1>1, <1>8, IdleType DEF MemoryType
<1> QED
  BY <1>15, <1>16, <1>18, <1>19, <1>20, <1>21

\* The block write_block writes: free, or the file's own.
LEMMA BlockToWrite ==
  ASSUME Inv, op.step = "write", op.pos < DIRECT_BLOCKS,
         NEW b, b = IF op.node.blocks[op.pos] = 0 THEN alloc_block ELSE op.node.blocks[op.pos],
         op.node.blocks[op.pos] = 0 => FreeBlocks # {}
  PROVE  /\ op.pos \in 0..(DIRECT_BLOCKS - 1) /\ b \in 2..(TOTAL_BLOCKS - 1) /\ b >= SYSTEM_BLOCKS
         /\ \/ op.node.blocks[op.pos] = 0 /\ b \notin bitmap
            \/ op.node.blocks[op.pos] = b /\ b \in Blocks(op.node)
<1>1. op.node \in Nodes /\ op.pos \in 0..(DIRECT_BLOCKS - 1)
  BY ZohFsAssumption DEF Inv, MemoryType, OpType
<1>2. CASE op.node.blocks[op.pos] = 0
  <2>1. FreeBlocks \subseteq Nat
    BY DEF FreeBlocks
  <2>2. b \in FreeBlocks
    BY <1>2, <2>1, MinIn, Zenon DEF alloc_block
  <2>3. 0..(SYSTEM_BLOCKS - 1) \subseteq bitmap
    BY InMemory, Zenon DEF Volume, Inv, WriteInv
  <2>4. b \in 0..(TOTAL_BLOCKS - 1) /\ b \notin 0..(SYSTEM_BLOCKS - 1) /\ b \notin bitmap
    BY <2>2, <2>3 DEF FreeBlocks
  <2>5. b \in 2..(TOTAL_BLOCKS - 1) /\ b >= SYSTEM_BLOCKS
    BY <2>4, ZohFsAssumption
  <2> QED
    BY <1>1, <1>2, <2>4, <2>5
<1>3. CASE op.node.blocks[op.pos] # 0
  <2>1. b = op.node.blocks[op.pos] /\ b \in Blocks(op.node)
    BY <1>1, <1>3 DEF Blocks
  <2>2. b >= SYSTEM_BLOCKS
    BY <2>1 DEF Inv, WriteInv
  <2> QED
    BY <1>1, <2>1, <2>2, BlockPlace
<1> QED
  BY <1>2, <1>3

\* The two ends of a write that the driver reports as it was: nothing, or all of it.
LEMMA Outcomes ==
  ASSUME NEW o \in WriteOutcomes, ~Misreported(o)
  PROVE  \/ o.ok = TRUE /\ o.stored = TRUE
         \/ o.ok = FALSE /\ o.stored = FALSE
<1>1. PICK r, q, f \in Status, t \in BOOLEAN : o = write_sector(r, q, f, t)
  BY DEF WriteOutcomes
<1>2. o.ok = ((wait_ready(r) /\ wait_drq(q)) /\ wait_ready(f))
  BY <1>1 DEF write_sector
<1>3. o.stored = ((wait_ready(r) /\ wait_drq(q)) /\ (f.ERR \/ ~wait_ready(f) => t))
  BY <1>1 DEF write_sector
<1>4. o.ok \in BOOLEAN /\ o.stored \in BOOLEAN
  BY <1>2, <1>3
<1>5. o.ok = o.stored
  BY DEF Misreported
<1> QED
  BY <1>4, <1>5

\* The inode and the call with block b at p.
WithBlock(node, p, b, bc) == [node EXCEPT !.blocks[p] = b, !.block_count = bc]
CallWithBlock(q, pos, left, p, b, bc) ==
  [q EXCEPT !.pos = pos, !.left = left, !.node.blocks[p] = b, !.node.block_count = bc]

LEMMA NodeWithBlock ==
  ASSUME NEW node \in Nodes, NEW p \in 0..(DIRECT_BLOCKS - 1), NEW b \in 0..(TOTAL_BLOCKS - 1),
         NEW bc \in Nat, NEW x, x = WithBlock(node, p, b, bc)
  PROVE  x \in Nodes /\ x.mode = node.mode /\ x.blocks = [node.blocks EXCEPT ![p] = b]
<1>1. PICK md \in {"none", "file", "dir"}, sz \in Nat, c \in Nat,
           bl \in [0..(DIRECT_BLOCKS - 1) -> 0..(TOTAL_BLOCKS - 1)] :
        node = [mode |-> md, size |-> sz, block_count |-> c, blocks |-> bl]
  BY DEF Nodes
<1>2. x = [mode |-> md, size |-> sz, block_count |-> bc, blocks |-> [bl EXCEPT ![p] = b]]
  BY <1>1, Zenon DEF WithBlock
<1>3. [bl EXCEPT ![p] = b] \in [0..(DIRECT_BLOCKS - 1) -> 0..(TOTAL_BLOCKS - 1)]
  OBVIOUS
<1>4. x.mode = node.mode /\ x.blocks = [node.blocks EXCEPT ![p] = b]
  <2>1. node.mode = md /\ node.blocks = bl
    BY <1>1
  <2>2. x.mode = md /\ x.blocks = [bl EXCEPT ![p] = b]
    BY <1>2
  <2> QED
    BY <2>1, <2>2
<1>5. x \in Nodes
  BY <1>2, <1>3 DEF Nodes
<1> QED
  BY <1>4, <1>5

LEMMA OpWithBlock ==
  ASSUME NEW q \in OpType, NEW p, NEW b, NEW bc, NEW pos \in Nat, NEW left \in Nat,
         NEW nd \in Nodes, nd = WithBlock(q.node, p, b, bc),
         NEW x, x = CallWithBlock(q, pos, left, p, b, bc)
  PROVE  x \in OpType /\ x.step = q.step /\ x.inode = q.inode /\ x.node = nd
<1>1. PICK st \in {"idle", "flush", "mkfs", "write"}, k \in Nat, i \in 0..(MAX_INODES - 1),
           on \in Nodes, ps \in Nat, lf \in Nat :
        q = [step |-> st, k |-> k, inode |-> i, node |-> on, pos |-> ps, left |-> lf]
  BY DEF OpType
<1>2. x = [step |-> st, k |-> k, inode |-> i, node |-> nd, pos |-> pos, left |-> left]
  BY <1>1, Zenon DEF CallWithBlock, WithBlock
<1> QED
  BY <1>1, <1>2 DEF OpType

LEMMA WriteBlockStep ==
  ASSUME Inv, NEW ok \in BOOLEAN, NEW o \in WriteOutcomes, write_block(ok, o), Sound'
  PROVE  Inv'
<1> DEFINE i == op.inode
           b == IF op.node.blocks[op.pos] = 0 THEN alloc_block ELSE op.node.blocks[op.pos]
           bs == BlockSector(b)
           c == CacheAfterRead(cache, bs)
           more == [op EXCEPT !.pos = op.pos + 1, !.left = op.left - 1,
                              !.node.blocks[op.pos] = b,
                              !.node.block_count = IF op.node.blocks[op.pos] = 0 THEN op.pos + 1 ELSE @]
<1>1. /\ op.step = "write" /\ op.left > 0 /\ op.pos < DIRECT_BLOCKS
      /\ op.node.blocks[op.pos] = 0 => FreeBlocks # {}
      /\ bitmap' = bitmap \union {b}
      /\ IF ok THEN /\ disk' = IF o.stored THEN [disk EXCEPT ![bs] = i] ELSE disk
                    /\ cache' = IF o.ok THEN Fill(c, bs, i) ELSE c
               ELSE UNCHANGED <<disk, cache>>
      /\ op' = IF ~(ok /\ o.ok) THEN Idle ELSE more
      /\ upset' = IF ok /\ Misreported(o) THEN "misreported" ELSE upset
      /\ UNCHANGED <<mounted, inodes, root, count, saved, kept>>
  BY DEF write_block, At
<1>2. ok => ~Misreported(o)
  BY <1>1 DEF Sound
<1>3. /\ op.pos \in 0..(DIRECT_BLOCKS - 1) /\ b \in 2..(TOTAL_BLOCKS - 1) /\ b >= SYSTEM_BLOCKS
      /\ \/ op.node.blocks[op.pos] = 0 /\ b \notin bitmap
         \/ op.node.blocks[op.pos] = b /\ b \in Blocks(op.node)
  BY <1>1, BlockToWrite
<1> HIDE DEF b
<1>4. bs \in Sectors /\ bs > MAX_INODES + 1 /\ bs = MAX_INODES + b /\ bs \in Nat
  BY <1>3, Layout DEF Sectors
<1> HIDE DEF bs
<1>5. /\ mounted /\ op.node.mode # "none" /\ \E k \in Live(root, count) : root[k].inode = i
      /\ \A p \in 0..(DIRECT_BLOCKS - 1) : inodes[i].blocks[p] \in {0, op.node.blocks[p]}
      /\ \A x \in Blocks(op.node) : x \in bitmap /\ x >= SYSTEM_BLOCKS /\ disk[BlockSector(x)] = i
      /\ op.node \in Nodes /\ op.pos \in Nat /\ op.left \in Nat
  BY <1>1 DEF Inv, WriteInv, MemoryType, OpType
<1>6. \/ /\ disk' = disk /\ cache' \in {cache, c} /\ op' = Idle
      \/ /\ disk' = [disk EXCEPT ![bs] = i] /\ cache' = Fill(c, bs, i) /\ op' = more
  <2>1. CASE ok = FALSE
    BY <1>1, <2>1
  <2>2. CASE ok = TRUE /\ o.ok = TRUE /\ o.stored = TRUE
    BY <1>1, <2>2
  <2>3. CASE ok = TRUE /\ o.ok = FALSE /\ o.stored = FALSE
    BY <1>1, <2>3
  <2> QED
    BY <1>2, <2>1, <2>2, <2>3, Outcomes, Zenon
<1>7. disk = [s \in Sectors |-> disk[s]] /\ cache \in Caches(disk)
  BY DEF Inv, DiskType, CacheInv
<1>8. disk' = [s \in Sectors |-> disk'[s]] /\ \A s \in Sectors : s # bs => disk'[s] = disk[s]
  BY <1>4, <1>6, <1>7
<1>9. \A x \in 2..(TOTAL_BLOCKS - 1) : x # b => disk'[BlockSector(x)] = disk[BlockSector(x)]
  <2> SUFFICES ASSUME NEW x \in 2..(TOTAL_BLOCKS - 1), x # b
               PROVE  disk'[BlockSector(x)] = disk[BlockSector(x)]
    OBVIOUS
  <2>1. BlockSector(x) \in Sectors /\ BlockSector(x) = MAX_INODES + x
    BY Layout
  <2>2. BlockSector(x) # bs
    BY <1>3, <1>4, <2>1, Layout
  <2> QED
    BY <1>8, <2>1, <2>2
<1>10. \A x \in 2..(TOTAL_BLOCKS - 1) : x \in bitmap => disk'[BlockSector(x)] = disk[BlockSector(x)]
  <2> SUFFICES ASSUME b \in bitmap PROVE disk'[bs] = disk[bs]
    BY <1>9 DEF bs
  <2>1. disk[bs] = i
    BY <1>3, <1>5 DEF bs
  <2> QED
    BY <1>4, <1>6, <1>7, <2>1
<1>11. \A s \in 0..(MAX_INODES + 1) : disk'[s] = disk[s]
  BY <1>4, <1>8, Layout
<1>12. DiskType' /\ DiskDir' = DiskDir /\ DiskCount' = DiskCount /\ DiskNodes' = DiskNodes
  <2>1. \A j \in Inodes : disk'[InodeSector(j)] = disk[InodeSector(j)]
    <3>1. \A j \in Inodes : InodeSector(j) \in 0..(MAX_INODES + 1)
      BY Layout DEF Inodes
    <3> QED
      BY <1>11, <3>1
  <2>2. disk'[ROOT_SECTOR] = disk[ROOT_SECTOR]
    BY <1>11, Layout
  <2>3. disk'[InodeSector(ROOT_INODE)] = disk[InodeSector(ROOT_INODE)]
    BY <2>1, DiskTypes DEF Inv
  <2> QED
    BY <1>8, <2>1, <2>2, <2>3, Zenon DEF Inv, DiskType, DiskDir, DiskCount, DiskNodes
<1>13. op'.step \in {"idle", "write"}
  BY <1>1, <1>6, IdleType DEF Inv, MemoryType
<1>14. Mountable' <=> Mountable
  BY <1>1, <1>12, <1>13 DEF Mountable, SaveCut, At
<1>15. 0..(SYSTEM_BLOCKS - 1) \subseteq bitmap' /\ bitmap \subseteq bitmap'
  BY <1>1, <1>5, InMemory DEF Volume
<1>16. Volume(disk, kept, root, count, inodes, bitmap)
  BY <1>5, InMemory
<1>17. \A k \in Live(root, count) : \A x \in Blocks(inodes[root[k].inode]) :
         x \in bitmap /\ x \in 2..(TOTAL_BLOCKS - 1)
  <2> SUFFICES ASSUME NEW k \in Live(root, count), NEW x \in Blocks(inodes[root[k].inode])
               PROVE  x \in bitmap /\ x \in 2..(TOTAL_BLOCKS - 1)
    OBVIOUS
  <2>1. inodes[root[k].inode] \in Nodes /\ FileSound(disk, root[k], inodes, bitmap)
    BY <1>5, InMemory
  <2>2. x \in bitmap /\ x >= SYSTEM_BLOCKS
    BY <2>1 DEF FileSound
  <2> QED
    BY <2>1, <2>2, BlockPlace
<1>18. Volume(disk', kept, root, count, inodes, bitmap')
  <2>1. \A k \in Live(root, count) :
          /\ k \in Live(root, count) /\ root[k] = root[k]
          /\ \A x \in Blocks(inodes[root[k].inode]) :
               x \in bitmap' /\ disk'[BlockSector(x)] = disk[BlockSector(x)]
    BY <1>10, <1>15, <1>17
  <2>2. \A name \in kept : \E k \in Live(root, count) : root[k].name = name
    BY <1>16 DEF Volume
  <2> QED
    BY <1>15, <1>16, <2>1, <2>2, VolumeOver
<1>19. MemoryInv'
  BY <1>1, <1>5, <1>18 DEF Inv, MemoryInv
<1>20. DiskInv'
  <2>0. disk'[0] = disk[0] /\ disk'[BITMAP_SECTOR] = disk[BITMAP_SECTOR]
    BY <1>11, Layout
  <2>1. SUFFICES ASSUME Mountable, disk[0] = "zohfs"
                 PROVE  Volume(disk', kept, DiskDir, DiskCount, DiskNodes, disk[BITMAP_SECTOR])
    BY <1>1, <1>12, <1>14, <2>0 DEF DiskInv
  <2>2. Volume(disk, kept, DiskDir, DiskCount, DiskNodes, disk[BITMAP_SECTOR])
    BY <2>1 DEF Inv, DiskInv
  <2>3. /\ Ahead(root, count, inodes, DiskDir, DiskCount, DiskNodes, kept) /\ count = DiskCount
        /\ Live(DiskDir, DiskCount) \subseteq Live(root, count)
    BY <1>1, <1>5, <2>1 DEF Inv, AheadInv
  <2>4. ASSUME NEW k \in Live(DiskDir, DiskCount), NEW x \in Blocks(DiskNodes[DiskDir[k].inode])
        PROVE  x \in disk[BITMAP_SECTOR] /\ disk'[BlockSector(x)] = disk[BlockSector(x)]
    <3>1. k \in Live(root, count) /\ k < DiskCount
      BY <1>5, <2>3, InMemory
    <3>2. root[k] = DiskDir[k] /\ x \in Blocks(inodes[root[k].inode])
      BY <2>3, <2>4, <3>1 DEF Ahead
    <3>3. x \in disk[BITMAP_SECTOR]
      BY <2>2 DEF Volume, FileSound
    <3> QED
      BY <1>10, <1>17, <3>1, <3>2, <3>3
  <2>5. /\ 0..(SYSTEM_BLOCKS - 1) \subseteq disk[BITMAP_SECTOR]
        /\ \A name \in kept : \E k \in Live(DiskDir, DiskCount) : DiskDir[k].name = name
    BY <2>2 DEF Volume
  <2>6. \A k \in Live(DiskDir, DiskCount) :
          /\ k \in Live(DiskDir, DiskCount) /\ DiskDir[k] = DiskDir[k]
          /\ \A x \in Blocks(DiskNodes[DiskDir[k].inode]) :
               x \in disk[BITMAP_SECTOR] /\ disk'[BlockSector(x)] = disk[BlockSector(x)]
    BY <2>4
  <2> QED
    BY <2>2, <2>5, <2>6, VolumeOver
<1>21. AheadInv'
  BY <1>1, <1>12, <1>13, <1>14 DEF Inv, AheadInv
<1>22. CacheInv'
  <2>1. c \in Caches(disk)
    BY <1>4, <1>7, ReadCoherent
  <2> HIDE DEF c
  <2>2. CASE disk' = disk /\ cache' \in {cache, c}
    BY <1>7, <1>13, <2>1, <2>2 DEF CacheInv
  <2>3. CASE disk' = [disk EXCEPT ![bs] = i] /\ cache' = Fill(c, bs, i)
    <3>1. disk'[bs] = i
      BY <1>4, <1>7, <2>3
    <3>2. Fill(c, bs, disk'[bs]) \in Caches(disk')
      BY <1>4, <1>8, <2>1, FillCoherent
    <3> QED
      BY <1>13, <2>3, <3>1, <3>2 DEF CacheInv
  <2> QED
    BY <1>6, <2>2, <2>3
<1>23. SaveInv'
  BY <1>13 DEF SaveInv
<1>24. CASE op' = Idle
  <2>1. op'.step = "idle"
    BY <1>24, IdleType
  <2>2. WriteInv'
    BY <2>1 DEF WriteInv
  <2>3. mounted' => disk'[0] = "zohfs"
    BY <1>1, <1>11, Layout DEF Inv, MemoryType
  <2>4. MemoryType'
    BY <1>1, <1>24, <2>3, IdleType DEF Inv, MemoryType
  <2> QED
    BY <1>12, <1>19, <1>20, <1>21, <1>22, <1>23, <2>2, <2>4 DEF Inv
<1>25. CASE disk' = [disk EXCEPT ![bs] = i] /\ op' = more
  <2>1. b \in 0..(TOTAL_BLOCKS - 1) /\ op.pos + 1 \in Nat /\ op.left - 1 \in Nat
    BY <1>1, <1>3, <1>5
  <2>2. op \in OpType
    BY DEF Inv, MemoryType
  <2>a. PICK bc \in Nat : bc = IF op.node.blocks[op.pos] = 0 THEN op.pos + 1 ELSE op.node.block_count
    BY <1>5, <2>1 DEF Nodes
  <2>b. more = CallWithBlock(op, op.pos + 1, op.left - 1, op.pos, b, bc)
    BY <2>2, <2>a DEF OpType, CallWithBlock
  <2> HIDE DEF more
  <2>c. PICK nd : nd = WithBlock(op.node, op.pos, b, bc)
    OBVIOUS
  <2>d. /\ nd \in Nodes /\ nd.mode = op.node.mode
        /\ nd.blocks = [op.node.blocks EXCEPT ![op.pos] = b]
    BY <1>3, <1>5, <2>1, <2>c, NodeWithBlock
  <2>e. more \in OpType /\ more.step = op.step /\ more.inode = op.inode /\ more.node = nd
    BY <2>1, <2>2, <2>b, <2>c, <2>d, OpWithBlock
  <2>3. /\ op'.step = "write" /\ op'.inode = i
        /\ op'.node.mode = op.node.mode
        /\ op'.node.blocks = [op.node.blocks EXCEPT ![op.pos] = b]
    BY <1>1, <1>25, <2>d, <2>e
  <2>4. op' \in OpType
    BY <1>25, <2>e
  <2>5. mounted' => disk'[0] = "zohfs"
    BY <1>1, <1>11, Layout DEF Inv, MemoryType
  <2>6. MemoryType'
    BY <1>1, <2>4, <2>5 DEF Inv, MemoryType
  <2>7. op.node.blocks \in [0..(DIRECT_BLOCKS - 1) -> 0..(TOTAL_BLOCKS - 1)]
    BY <1>5 DEF Nodes
  <2>8. \A x \in Blocks(op'.node) : x = b \/ x \in Blocks(op.node)
    BY <2>3, <2>7 DEF Blocks
  <2>9. ASSUME NEW x \in Blocks(op'.node)
        PROVE  x \in bitmap' /\ x >= SYSTEM_BLOCKS /\ disk'[BlockSector(x)] = i
    <3>1. CASE x = b
      BY <1>1, <1>3, <1>4, <1>7, <1>25, <3>1 DEF bs
    <3>2. CASE x # b /\ x \in Blocks(op.node)
      <4>1. x \in bitmap /\ x >= SYSTEM_BLOCKS /\ disk[BlockSector(x)] = i
        BY <1>5, <3>2
      <4>2. x \in 2..(TOTAL_BLOCKS - 1)
        BY <1>5, <3>2, <4>1, BlockPlace
      <4> QED
        BY <1>9, <1>15, <3>2, <4>1, <4>2
    <3> QED
      BY <2>8, <3>1, <3>2
  <2>10. \A p \in 0..(DIRECT_BLOCKS - 1) : inodes[i].blocks[p] \in {0, op'.node.blocks[p]}
    BY <1>3, <1>5, <2>3, <2>7
  <2>11. WriteInv'
    <3> HIDE DEF i
    <3> QED
      BY <1>1, <1>5, <2>3, <2>9, <2>10, Zenon DEF WriteInv
  <2> QED
    BY <1>12, <1>19, <1>20, <1>21, <1>22, <1>23, <2>6, <2>11 DEF Inv
<1> QED
  BY <1>6, <1>24, <1>25

\* A sector of flush_root_dir or mkfs is on the disk.
Written ==
  /\ op.step \in {"flush", "mkfs"}
  /\ disk' = [disk EXCEPT ![Order[op.k]] = Image(Order[op.k])]
  /\ cache' = IF op.step = "mkfs" /\ Order[op.k] = ROOT_SECTOR THEN cache
              ELSE Fill(cache, Order[op.k], Image(Order[op.k]))
  /\ UNCHANGED <<mounted, bitmap, inodes, root, count>>

\* The orders, as the call under way uses them.
LEMMA Saving ==
  ASSUME Inv, op.step \in {"flush", "mkfs"}
  PROVE  /\ Len(Order) = MAX_INODES + 2 /\ op.k \in 1..(MAX_INODES + 2) /\ op.k \in Nat
         /\ \A k \in 1..(MAX_INODES + 2) : Order[k] \in 0..(MAX_INODES + 1) /\ Order[k] \in Sectors
         /\ \A s \in 0..(MAX_INODES + 1) : \E k \in 1..(MAX_INODES + 2) : Order[k] = s
         /\ mounted \/ op.step = "mkfs"
<1>1. Order \in {FlushOrder, MkfsOrder}
  BY DEF Order
<1>2. op.k \in 1..Len(Order) /\ (mounted \/ op.step = "mkfs")
  BY DEF Inv, SaveInv
<1>3. /\ Len(Order) = MAX_INODES + 2
      /\ \A k \in 1..Len(Order) : Order[k] \in 0..(MAX_INODES + 1)
      /\ \A s \in 0..(MAX_INODES + 1) : \E k \in 1..Len(Order) : Order[k] = s
  BY <1>1, OrderSectors, Zenon
<1> QED
  BY <1>2, <1>3, Layout

\* The directory's image is what lies below count.
LEMMA DirImage ==
  ASSUME Inv, mounted \/ op.step = "mkfs"
  PROVE  /\ Image(MAX_INODES + 1) \in [0..(DIR_SECTOR - 1) -> DirEntries]
         /\ \A k \in 0..(DIR_SECTOR - 1) :
              Image(MAX_INODES + 1)[k] = IF k < count THEN root[k] ELSE NoEntry
         /\ \A n \in Nat : n <= DIR_SECTOR =>
              \A k \in Live(Image(MAX_INODES + 1), n) :
                k \in Live(root, count) /\ k < n /\ Image(MAX_INODES + 1)[k] = root[k]
         /\ \A n \in Nat : n <= DIR_SECTOR =>
              \A k \in Live(root, count) : k < n =>
                k \in Live(Image(MAX_INODES + 1), n) /\ Image(MAX_INODES + 1)[k] = root[k]
<1> DEFINE im == Image(MAX_INODES + 1)
<1>1. /\ im = [k \in 0..(DIR_SECTOR - 1) |-> IF k < count THEN root[k] ELSE NoEntry]
      /\ DIR_SECTOR \in Nat /\ count \in Nat
  BY ImageOf, InMemory, ZohFsAssumption DEF SavedEntry
<1> HIDE DEF im
<1>2. \A k \in 0..(DIR_SECTOR - 1) : k < count => k \in RootSlots /\ root[k] \in DirEntries
  BY InMemory, Layout DEF RootSlots, Inv, MemoryType
<1>3. im \in [0..(DIR_SECTOR - 1) -> DirEntries]
  BY <1>1, <1>2, EmptyRootType
<1>4. NoEntry.inode = 0
  BY DEF NoEntry
<1>5. ASSUME NEW n \in Nat, n <= DIR_SECTOR, NEW k \in Live(im, n)
      PROVE  k \in Live(root, count) /\ k < n /\ im[k] = root[k]
  <2>1. k \in 0..(n - 1) /\ im[k].inode # 0
    BY DEF Live
  <2>2. k \in 0..(DIR_SECTOR - 1) /\ k \in Nat /\ k < n
    BY <1>1, <1>5, <2>1
  <2>3. k < count /\ im[k] = root[k]
    BY <1>1, <1>4, <2>1, <2>2
  <2>4. k \in 0..(count - 1)
    BY <1>1, <2>2, <2>3
  <2> QED
    BY <2>1, <2>2, <2>3, <2>4 DEF Live
<1>6. ASSUME NEW n \in Nat, n <= DIR_SECTOR, NEW k \in Live(root, count), k < n
      PROVE  k \in Live(im, n) /\ im[k] = root[k]
  <2>1. k \in Nat /\ k < count /\ root[k].inode # 0
    BY InMemory DEF Live
  <2>2. k \in 0..(n - 1) /\ k \in 0..(DIR_SECTOR - 1)
    BY <1>1, <1>6, <2>1
  <2> QED
    BY <1>1, <2>1, <2>2 DEF Live
<1>7. \A k \in 0..(DIR_SECTOR - 1) : im[k] = IF k < count THEN root[k] ELSE NoEntry
  BY <1>1
<1> QED
  BY <1>3, <1>5, <1>6, <1>7 DEF im

LEMMA WrittenFacts ==
  ASSUME Inv, Written
  PROVE  /\ DiskType' /\ (mounted => disk'[0] = "zohfs")
         /\ \A s \in Sectors : s # Order[op.k] => disk'[s] = disk[s]
         /\ disk'[Order[op.k]] = Image(Order[op.k])
         /\ \A j \in 1..op.k : disk'[Order[j]] = Image(Order[j])
         /\ Volume(disk', kept, root, count, inodes, bitmap)
<1> DEFINE s == Order[op.k]
<1>1. s \in 0..(MAX_INODES + 1) /\ s \in Sectors /\ (mounted \/ op.step = "mkfs")
  BY Saving DEF Written
<1> HIDE DEF s
<1>2. disk = [t \in Sectors |-> disk[t]] /\ disk' = [disk EXCEPT ![s] = Image(s)]
  BY DEF Inv, DiskType, Written, s
<1>3. disk' = [t \in Sectors |-> disk'[t]] /\ disk'[s] = Image(s)
      /\ \A t \in Sectors : t # s => disk'[t] = disk[t]
  BY <1>1, <1>2
<1>4. ASSUME NEW i \in Inodes PROVE disk'[InodeSector(i)] \in Nodes
  <2>1. InodeSector(i) = i + 1 /\ i + 1 \in Sectors
    BY Layout DEF Inodes
  <2>2. Image(i + 1) \in Nodes /\ disk[i + 1] \in Nodes
    BY <2>1, ImageOf, Zenon DEF Inv, MemoryType, DiskType
  <2> QED
    BY <1>3, <2>1, <2>2
<1>5. disk'[ROOT_SECTOR] \in [0..(DIR_SECTOR - 1) -> DirEntries]
  <2>1. ROOT_SECTOR = MAX_INODES + 1 /\ MAX_INODES + 1 \in Sectors
    BY Layout
  <2>2. disk[ROOT_SECTOR] \in [0..(DIR_SECTOR - 1) -> DirEntries]
    BY DEF Inv, DiskType
  <2>3. Image(ROOT_SECTOR) \in [0..(DIR_SECTOR - 1) -> DirEntries]
    BY <1>1, <2>1, DirImage
  <2> QED
    BY <1>3, <2>1, <2>2, <2>3
<1>6. DiskType'
  BY <1>3, <1>4, <1>5 DEF DiskType
<1>7. ASSUME mounted PROVE disk'[0] = "zohfs"
  <2>1. disk[0] = "zohfs" /\ 0 \in Sectors
    BY <1>7, Layout DEF Inv, MemoryType
  <2> QED
    BY <1>3, <2>1, ImageOf
<1>8. ASSUME NEW j \in 1..op.k PROVE disk'[Order[j]] = Image(Order[j])
  <2>1. op.k \in 1..(MAX_INODES + 2)
    BY Saving DEF Written
  <2>2. j \in 1..(MAX_INODES + 2) /\ (j = op.k \/ j \in 1..(op.k - 1))
    BY <2>1, Layout
  <2>3. Order[j] \in Sectors
    BY <2>2, Saving DEF Written
  <2>4. j # op.k => disk[Order[j]] = Image(Order[j])
    BY <2>2 DEF Inv, SaveInv, Written
  <2> QED
    BY <1>3, <2>3, <2>4 DEF s
<1>9. Volume(disk', kept, root, count, inodes, bitmap)
  <2>1. \A t \in Sectors : t > MAX_INODES + 1 => disk'[t] = disk[t]
    BY <1>1, <1>3, Layout
  <2>2. Volume(disk, kept, root, count, inodes, bitmap) /\ count \in Nat
    BY <1>1, InMemory
  <2>4. ASSUME NEW k \in Live(root, count)
        PROVE  \A b \in Blocks(inodes[root[k].inode]) :
                 b \in bitmap /\ disk'[BlockSector(b)] = disk[BlockSector(b)]
    <3>1. FileSound(disk, root[k], inodes, bitmap) /\ inodes[root[k].inode] \in Nodes
      BY <1>1, InMemory
    <3> QED
      BY <2>1, <3>1, FileBefore
  <2>5. /\ 0..(SYSTEM_BLOCKS - 1) \subseteq bitmap
        /\ \A name \in kept : \E k \in Live(root, count) : root[k].name = name
    BY <2>2 DEF Volume
  <2>6. \A k \in Live(root, count) :
          /\ k \in Live(root, count) /\ root[k] = root[k]
          /\ \A b \in Blocks(inodes[root[k].inode]) :
               b \in bitmap /\ disk'[BlockSector(b)] = disk[BlockSector(b)]
    BY <2>4
  <2> QED
    BY <2>2, <2>5, <2>6, VolumeOver
<1> QED
  BY <1>3, <1>6, <1>7, <1>8, <1>9 DEF s

\* The cache after a sector of a save: mkfs writes the directory past it when the sectors
\* before have taken every slot.
LEMMA WrittenCache ==
  ASSUME Inv, Written
  PROVE  /\ cache' \in Caches(disk')
         /\ op.step = "mkfs" /\ op.k < MAX_INODES + 2 =>
              \A r \in CacheSlots : r < op.k => cache'[r].sector < op.k
<1> DEFINE s == Order[op.k]
<1>1. /\ s \in Sectors /\ disk'[s] = Image(s) /\ \A t \in Sectors : t # s => disk'[t] = disk[t]
      /\ cache \in Caches(disk) /\ op.k \in 1..(MAX_INODES + 2)
  BY Saving, WrittenFacts DEF Written, Inv, CacheInv
<1>2. Fill(cache, s, Image(s)) \in Caches(disk')
  <2> HIDE DEF s
  <2> QED
    BY <1>1, FillCoherent, Zenon
<1>3. op.step = "mkfs" => s = op.k - 1
  BY <1>1, Ascending DEF Order
<1>4. \A r \in CacheSlots : r \in Nat /\ r < CACHE_SIZE /\ r % CACHE_SIZE = r
  BY CacheAssumption DEF CacheSlots
<1>5. op.step = "mkfs" => \A r \in CacheSlots : r < op.k - 1 => cache[r].sector < op.k - 1
  BY DEF Inv, CacheInv
<1>6. CASE op.step = "mkfs" /\ s = ROOT_SECTOR
  <2>1. cache' = cache /\ op.k = MAX_INODES + 2 /\ s = op.k - 1
    BY <1>1, <1>3, <1>6, Layout DEF Written
  <2>2. ASSUME NEW r \in CacheSlots PROVE cache[r] \in LinesOf(disk', r)
    <3>1. r < op.k - 1
      BY <1>4, <2>1, CacheAssumption, ZohFsAssumption
    <3>2. cache[r].sector < op.k - 1
      BY <1>5, <1>6, <3>1
    <3>3. cache[r] \in LinesOf(disk, r)
      BY <1>1, CacheElim
    <3>4. CASE cache[r] = NoLine
      BY <3>4 DEF LinesOf
    <3>5. ASSUME NEW t \in Sectors, cache_slot(t) = r, cache[r] = [sector |-> t, data |-> disk[t]]
          PROVE  cache[r] \in LinesOf(disk', r)
      <4>1. t < op.k - 1 /\ t \in Nat /\ op.k \in Nat
        BY <1>1, <3>2, <3>5 DEF Sectors
      <4>2. t # s
        BY <2>1, <4>1
      <4>3. disk'[t] = disk[t]
        BY <1>1, <4>2
      <4> QED
        BY <3>5, <4>3 DEF LinesOf
    <3> QED
      BY <3>3, <3>4, <3>5 DEF LinesOf
  <2>3. cache = [r \in CacheSlots |-> cache[r]]
    BY <1>1, CacheElim
  <2>4. cache \in Caches(disk')
    BY <2>2, <2>3, CacheIntro
  <2>5. ~(op.k < MAX_INODES + 2)
    BY <1>1, <2>1, Layout
  <2> QED
    BY <2>1, <2>4, <2>5
<1>7. CASE ~(op.step = "mkfs" /\ s = ROOT_SECTOR)
  <2>1. cache' = Fill(cache, s, Image(s))
    BY <1>7 DEF Written
  <2>2. ASSUME op.step = "mkfs", NEW r \in CacheSlots, r < op.k PROVE cache'[r].sector < op.k
    <3>1. s = op.k - 1 /\ op.k \in Nat /\ s \in Nat
      BY <1>1, <1>3, <2>2
    <3>2. cache = [q \in CacheSlots |-> cache[q]]
      BY <1>1, CacheElim
    <3>3. CASE r = cache_slot(s)
      <4>1. cache'[r].sector = s
        BY <2>1, <3>2, <3>3 DEF Fill
      <4> QED
        BY <3>1, <4>1
    <3>4. CASE r # cache_slot(s)
      <4>1. cache'[r] = cache[r]
        BY <2>1, <3>2, <3>4 DEF Fill
      <4>2. r # s
        BY <1>4, <3>4 DEF cache_slot
      <4>3. r < op.k - 1
        BY <1>4, <2>2, <3>1, <4>2
      <4>4. cache[r].sector < op.k - 1
        BY <1>5, <2>2, <4>3
      <4>5. cache[r] \in LinesOf(disk, r)
        BY <1>1, CacheElim
      <4>6. cache[r].sector \in Nat
        BY <4>5, CacheAssumption DEF LinesOf, NoLine, Sectors
      <4> QED
        BY <3>1, <4>1, <4>4, <4>6
    <3> QED
      BY <3>3, <3>4
  <2> QED
    BY <1>2, <2>1, <2>2
<1> QED
  BY <1>6, <1>7

\* After its last sector the disk is the image of memory.
LEMMA SavedWhole ==
  ASSUME Inv, Written, op.k = MAX_INODES + 2
  PROVE  /\ disk'[0] = "zohfs" /\ disk'[BITMAP_SECTOR] = bitmap
         /\ DiskNodes' = inodes /\ DiskDir' = Image(MAX_INODES + 1) /\ DiskCount' = count
<1>1. ASSUME NEW s \in 0..(MAX_INODES + 1) PROVE disk'[s] = Image(s)
  <2>1. PICK j \in 1..(MAX_INODES + 2) : Order[j] = s
    BY Saving DEF Written
  <2> QED
    BY <2>1, WrittenFacts
<1>2. disk'[0] = "zohfs" /\ disk'[1] = bitmap /\ disk'[MAX_INODES + 1] = Image(MAX_INODES + 1)
  BY <1>1, ImageOf, Layout
<1>3. \A i \in Inodes : InodeSector(i) = i + 1 /\ disk'[i + 1] = inodes[i]
  <2>1. \A i \in Inodes : InodeSector(i) = i + 1 /\ i + 1 \in 0..(MAX_INODES + 1)
    BY Layout DEF Inodes
  <2> QED
    BY <1>1, <2>1, ImageOf
<1>4. inodes = [i \in Inodes |-> inodes[i]]
  BY DEF Inv, MemoryType
<1>5. DiskNodes' = inodes
  BY <1>3, <1>4 DEF DiskNodes
<1>6. ROOT_INODE \in Inodes /\ inodes[ROOT_INODE].size = count
  BY DiskTypes, Saving DEF Inv, MemoryInv, Written
<1>7. DiskCount' = count
  BY <1>3, <1>6 DEF DiskCount
<1> QED
  BY <1>2, <1>5, <1>7, Layout DEF DiskDir

\* The last sector: what the disk promises is what memory has.
LEMMA LastSector ==
  ASSUME Inv, Written, op.k = MAX_INODES + 2, op' = Idle, saved' = "whole",
         kept' = {root[k].name : k \in Entries}
  PROVE  Inv'
<1>1. op'.step = "idle"
  BY IdleType
<1>2. UNCHANGED <<mounted, bitmap, inodes, root, count>> /\ (mounted \/ op.step = "mkfs")
  BY Saving DEF Written
<1>3. Entries = Live(root, count) /\ count \in Nat
  BY <1>2, InMemory
<1>4. /\ disk'[0] = "zohfs" /\ disk'[BITMAP_SECTOR] = bitmap
      /\ DiskNodes' = inodes /\ DiskDir' = Image(MAX_INODES + 1) /\ DiskCount' = count
  BY SavedWhole
<1>5. DiskType' /\ Volume(disk', kept, root, count, inodes, bitmap)
  BY WrittenFacts
<1>6. \A name \in kept' : \E k \in Live(root, count) : root[k].name = name
  BY <1>3
<1>7. Volume(disk', kept', root, count, inodes, bitmap)
  BY <1>5, <1>6 DEF Volume
<1>8. MemoryInv'
  BY <1>2, <1>7 DEF Inv, MemoryInv
<1>9. MemoryType'
  BY <1>2, <1>4, IdleType DEF Inv, MemoryType
<1>10. CacheInv'
  BY <1>1, WrittenCache DEF CacheInv
<1>11. SaveInv' /\ WriteInv'
  BY <1>1 DEF SaveInv, WriteInv
<1> DEFINE im == Image(MAX_INODES + 1)
<1>12. ASSUME count <= DIR_SECTOR
       PROVE  /\ \A k \in Live(im, count) : k \in Live(root, count) /\ k < count /\ im[k] = root[k]
              /\ \A k \in Live(root, count) : k < count /\ k \in Live(im, count) /\ im[k] = root[k]
  BY <1>2, <1>3, <1>12, DirImage, InMemory
<1> HIDE DEF im
<1>13. DiskInv'
  <2>1. SUFFICES ASSUME count <= DIR_SECTOR
                 PROVE  Volume(disk', kept', im, count, inodes, bitmap)
    BY <1>4 DEF DiskInv, Mountable, im
  <2>2. \A k \in Live(im, count) :
          /\ k \in Live(root, count) /\ im[k] = root[k]
          /\ \A b \in Blocks(inodes[root[k].inode]) :
               b \in bitmap /\ disk'[BlockSector(b)] = disk'[BlockSector(b)]
    BY <1>7, <1>12, <2>1 DEF Volume, FileSound
  <2>3. \A name \in kept' : \E k \in Live(im, count) : im[k].name = name
    BY <1>6, <1>12, <2>1, Zenon
  <2>4. 0..(SYSTEM_BLOCKS - 1) \subseteq bitmap
    BY <1>7 DEF Volume
  <2> QED
    BY <1>7, <2>2, <2>3, <2>4, VolumeOver
<1>14. AheadInv'
  <2>1. SUFFICES ASSUME count <= DIR_SECTOR
                 PROVE  /\ Ahead(root, count, inodes, im, count, inodes, kept')
                        /\ Live(im, count) \subseteq Live(root, count)
    BY <1>2, <1>4 DEF AheadInv, Mountable, im
  <2>2. \A name \in kept' : \E k \in Live(root, count) : k < count /\ root[k].name = name
    BY <1>6, <1>12, <2>1, Zenon
  <2> QED
    BY <1>12, <2>1, <2>2 DEF Ahead
<1> QED
  BY <1>5, <1>8, <1>9, <1>10, <1>11, <1>13, <1>14 DEF Inv

\* A sector before the last.  The disk may be mounted as long as no inode is written: it
\* then has the old inodes, and of the old entries those that are still in memory.
LEMMA EarlierSector ==
  ASSUME Inv, Written, op.k < MAX_INODES + 2, op' = [op EXCEPT !.k = op.k + 1],
         UNCHANGED <<saved, kept>>
  PROVE  Inv'
<1>1. op \in OpType /\ op.k \in Nat /\ op.k \in 1..(MAX_INODES + 2)
  BY Saving DEF Written, Inv, MemoryType
<1>2. op'.step = op.step /\ op'.k = op.k + 1 /\ op' \in OpType
  BY <1>1 DEF OpType
<1>3. UNCHANGED <<mounted, bitmap, inodes, root, count>> /\ (mounted \/ op.step = "mkfs")
  BY Saving DEF Written
<1>4. DiskType' /\ Volume(disk', kept, root, count, inodes, bitmap) /\ (mounted => disk'[0] = "zohfs")
  BY WrittenFacts
<1>5. MemoryInv'
  BY <1>2, <1>3, <1>4 DEF Inv, MemoryInv
<1>6. MemoryType'
  BY <1>2, <1>3, <1>4 DEF Inv, MemoryType
<1>7. CacheInv'
  <2>1. op'.k - 1 = op.k
    BY <1>1, <1>2
  <2> QED
    BY <1>2, <2>1, WrittenCache DEF CacheInv
<1>8. WriteInv'
  BY <1>2 DEF WriteInv, Written
<1>9. SaveInv'
  <2>1. Order' = Order /\ Len(Order) = MAX_INODES + 2
    BY <1>2, Saving DEF Order, Written
  <2>2. op'.k \in 1..Len(Order')
    BY <1>1, <1>2, <2>1, Layout
  <2>3. op'.step = "flush" => mounted'
    BY <1>2, <1>3
  <2>4. \A s : Image(s)' = Image(s)
    BY <1>3 DEF Image, SavedEntry
  <2>5. ASSUME NEW j \in 1..(op'.k - 1) PROVE disk'[Order'[j]] = (Image(Order[j]))'
    <3>1. j \in 1..op.k
      BY <1>1, <1>2
    <3>2. disk'[Order[j]] = Image(Order[j])
      BY <3>1, WrittenFacts
    <3>3. PICK s : s = Order[j]
      OBVIOUS
    <3>4. (Image(Order[j]))' = Image(s)'
      BY <2>1, <3>3 DEF Image
    <3> QED
      BY <2>1, <2>4, <3>2, <3>3, <3>4
  <2> QED
    BY <2>2, <2>3, <2>5 DEF SaveInv
<1>10. CASE ~(op.step = "flush" /\ saved = "whole" /\ op.k \in {1, 2, 3})
  <2>1. SaveCut' = "broken"
    <3>1. op'.k <= RootStep => op.k \in {1, 2, 3}
      BY <1>1, <1>2 DEF RootStep, ROOT_INODE
    <3> QED
      BY <1>2, <1>10, <3>1 DEF SaveCut, At, Written
  <2>2. DiskInv' /\ AheadInv'
    BY <2>1 DEF DiskInv, AheadInv, Mountable
  <2> QED
    BY <1>4, <1>5, <1>6, <1>7, <1>8, <1>9, <2>2 DEF Inv
<1>11. CASE op.step = "flush" /\ saved = "whole" /\ op.k \in {1, 2, 3}
  <2> DEFINE s == Order[op.k]
             im == Image(MAX_INODES + 1)
  <2>1. mounted /\ Order = FlushOrder
    BY <1>3, <1>11 DEF Order
  <2>2. /\ op.k = 1 => s = MAX_INODES + 1
        /\ op.k = 2 => s = 0
        /\ op.k = 3 => s = 1
    BY <2>1, DirFirst
  <2>3. disk'[s] = Image(s) /\ \A t \in Sectors : t # s => disk'[t] = disk[t]
    BY WrittenFacts
  <2> HIDE DEF s
  <2>4. \A i \in Inodes : InodeSector(i) \in Sectors /\ InodeSector(i) # s
    BY <1>11, <2>2, Layout DEF Inodes
  <2>5. DiskNodes' = DiskNodes /\ DiskCount' = DiskCount /\ DiskCount \in Nat
    <3>1. \A i \in Inodes : disk'[InodeSector(i)] = disk[InodeSector(i)]
      BY <2>3, <2>4
    <3>2. ROOT_INODE \in Inodes /\ DiskCount \in Nat
      BY DiskTypes DEF Inv
    <3> QED
      BY <3>1, <3>2 DEF DiskNodes, DiskCount
  <2>6. SUFFICES ASSUME DiskCount <= DIR_SECTOR
                 PROVE  /\ Volume(disk', kept, DiskDir', DiskCount, DiskNodes, disk'[BITMAP_SECTOR])
                        /\ Ahead(root, count, inodes, DiskDir', DiskCount, DiskNodes, kept)
    <3>1. DiskInv'
      BY <2>5, <2>6 DEF DiskInv, Mountable
    <3>2. AheadInv'
      BY <1>2, <1>3, <1>11, <2>5, <2>6 DEF AheadInv, Mountable
    <3> QED
      BY <1>4, <1>5, <1>6, <1>7, <1>8, <1>9, <3>1, <3>2 DEF Inv
  <2>7. Mountable /\ disk[0] = "zohfs"
    <3>1. SaveCut # "broken"
      BY <1>11 DEF SaveCut, At, RootStep, ROOT_INODE
    <3> QED
      BY <2>1, <2>6, <3>1 DEF Mountable, Inv, MemoryType
  <2>8. /\ Volume(disk, kept, DiskDir, DiskCount, DiskNodes, disk[BITMAP_SECTOR])
        /\ Ahead(root, count, inodes, DiskDir, DiskCount, DiskNodes, kept)
    BY <2>1, <2>7 DEF Inv, DiskInv, AheadInv
  <2>9. /\ \A k \in Live(im, DiskCount) : k \in Live(root, count) /\ k < DiskCount /\ im[k] = root[k]
        /\ \A k \in Live(root, count) : k < DiskCount => k \in Live(im, DiskCount) /\ im[k] = root[k]
    BY <2>1, <2>5, <2>6, DirImage
  <2> HIDE DEF im
  <2>10. \A k \in Live(im, DiskCount) :
           /\ k \in Live(DiskDir, DiskCount) /\ im[k] = DiskDir[k]
           /\ \A b \in Blocks(DiskNodes[DiskDir[k].inode]) : b \in bitmap
    <3> SUFFICES ASSUME NEW k \in Live(im, DiskCount)
                 PROVE  /\ k \in Live(DiskDir, DiskCount) /\ im[k] = DiskDir[k]
                        /\ \A b \in Blocks(DiskNodes[DiskDir[k].inode]) : b \in bitmap
      OBVIOUS
    <3>1. k \in Live(root, count) /\ k < DiskCount /\ im[k] = root[k]
      BY <2>9
    <3>2. /\ root[k] = DiskDir[k]
          /\ Blocks(DiskNodes[root[k].inode]) \subseteq Blocks(inodes[root[k].inode])
      BY <2>8, <3>1 DEF Ahead
    <3>3. k \in Live(DiskDir, DiskCount)
      BY <3>1, <3>2 DEF Live
    <3>4. FileSound(disk, root[k], inodes, bitmap)
      BY <2>1, <3>1, InMemory
    <3> QED
      BY <3>1, <3>2, <3>3, <3>4 DEF FileSound
  <2>11. \A k \in Live(DiskDir, DiskCount) :
           \A b \in Blocks(DiskNodes[DiskDir[k].inode]) :
             b \in disk[BITMAP_SECTOR] /\ disk'[BlockSector(b)] = disk[BlockSector(b)]
    <3> SUFFICES ASSUME NEW k \in Live(DiskDir, DiskCount)
                 PROVE  \A b \in Blocks(DiskNodes[DiskDir[k].inode]) :
                          b \in disk[BITMAP_SECTOR] /\ disk'[BlockSector(b)] = disk[BlockSector(b)]
      OBVIOUS
    <3>1. FileSound(disk, DiskDir[k], DiskNodes, disk[BITMAP_SECTOR])
      BY <2>8 DEF Volume
    <3>2. /\ DIR_SECTOR \in Nat /\ DiskDir \in [0..(DIR_SECTOR - 1) -> DirEntries]
          /\ DiskNodes \in [Inodes -> Nodes]
      BY ZohFsAssumption, DiskTypes DEF Inv
    <3>3. DiskDir[k].inode \in Inodes
      BY <2>5, <2>6, <3>2, LiveInodes
    <3>4. DiskNodes[DiskDir[k].inode] \in Nodes
      BY <3>2, <3>3
    <3>5. \A t \in Sectors : t > MAX_INODES + 1 => disk'[t] = disk[t]
      BY <1>11, <2>2, <2>3, Layout
    <3> QED
      BY <3>1, <3>4, <3>5, FileBefore
  <2>12. /\ 0..(SYSTEM_BLOCKS - 1) \subseteq disk[BITMAP_SECTOR]
         /\ 0..(SYSTEM_BLOCKS - 1) \subseteq bitmap
         /\ \A name \in kept : \E k \in Live(DiskDir, DiskCount) : DiskDir[k].name = name
    BY <2>1, <2>8, InMemory DEF Volume
  <2>13. \A name \in kept : \E k \in Live(im, DiskCount) : im[k].name = name
    BY <2>8, <2>9 DEF Ahead
  <2>14. DiskDir = disk[MAX_INODES + 1] /\ DiskDir' = disk'[MAX_INODES + 1] /\ BITMAP_SECTOR = 1
         /\ {0, 1, MAX_INODES + 1} \subseteq Sectors /\ MAX_INODES + 1 \notin {0, 1}
    BY Layout DEF DiskDir
  <2>15. CASE op.k = 1
    <3>1. DiskDir' = im /\ disk'[BITMAP_SECTOR] = disk[BITMAP_SECTOR]
      BY <2>2, <2>3, <2>14, <2>15 DEF im
    <3>2. \A k \in Live(im, DiskCount) :
            /\ k \in Live(DiskDir, DiskCount) /\ im[k] = DiskDir[k]
            /\ \A b \in Blocks(DiskNodes[DiskDir[k].inode]) :
                 b \in disk[BITMAP_SECTOR] /\ disk'[BlockSector(b)] = disk[BlockSector(b)]
      BY <2>10, <2>11
    <3>3. Volume(disk', kept, im, DiskCount, DiskNodes, disk[BITMAP_SECTOR])
      BY <2>8, <2>12, <2>13, <3>2, VolumeOver
    <3>4. Ahead(root, count, inodes, im, DiskCount, DiskNodes, kept)
      BY <2>8, <2>9 DEF Ahead
    <3> QED
      BY <3>1, <3>3, <3>4
  <2>16. CASE op.k = 2
    <3>1. DiskDir' = DiskDir /\ disk'[BITMAP_SECTOR] = disk[BITMAP_SECTOR]
      BY <2>2, <2>3, <2>14, <2>16
    <3>2. \A k \in Live(DiskDir, DiskCount) :
            /\ k \in Live(DiskDir, DiskCount) /\ DiskDir[k] = DiskDir[k]
            /\ \A b \in Blocks(DiskNodes[DiskDir[k].inode]) :
                 b \in disk[BITMAP_SECTOR] /\ disk'[BlockSector(b)] = disk[BlockSector(b)]
      BY <2>11
    <3>3. Volume(disk', kept, DiskDir, DiskCount, DiskNodes, disk[BITMAP_SECTOR])
      BY <2>8, <2>12, <3>2, VolumeOver
    <3> QED
      BY <2>8, <3>1, <3>3
  <2>17. CASE op.k = 3
    <3>1. DiskDir' = DiskDir /\ disk'[BITMAP_SECTOR] = bitmap
      BY <2>2, <2>3, <2>14, <2>17, ImageOf
    <3>2. DiskDir = im
      <4>1. 1 \in 1..(op.k - 1)
        BY <2>17
      <4>2. disk[Order[1]] = Image(Order[1])
        BY <1>11, <4>1 DEF Inv, SaveInv
      <4> QED
        BY <2>1, <2>14, <4>2, DirFirst DEF im
    <3>3. \A k \in Live(DiskDir, DiskCount) :
            /\ k \in Live(DiskDir, DiskCount) /\ DiskDir[k] = DiskDir[k]
            /\ \A b \in Blocks(DiskNodes[DiskDir[k].inode]) :
                 b \in bitmap /\ disk'[BlockSector(b)] = disk[BlockSector(b)]
      BY <2>10, <2>11, <3>2
    <3>4. Volume(disk', kept, DiskDir, DiskCount, DiskNodes, bitmap)
      BY <2>8, <2>12, <3>3, VolumeOver
    <3> QED
      BY <2>8, <3>1, <3>4
  <2> QED
    BY <1>11, <2>15, <2>16, <2>17
<1> QED
  BY <1>10, <1>11

LEMMA WriteImageStep ==
  ASSUME Inv, NEW o \in WriteOutcomes, write_image(o), Sound'
  PROVE  Inv'
<1> DEFINE s == Order[op.k]
<1>1. /\ op.step \in {"flush", "mkfs"}
      /\ disk' = IF o.stored THEN [disk EXCEPT ![s] = Image(s)] ELSE disk
      /\ cache' = IF op.step = "mkfs" /\ s = ROOT_SECTOR THEN cache
                  ELSE IF o.ok THEN Fill(cache, s, Image(s)) ELSE cache
      /\ op' = IF o.ok /\ op.k < Len(Order) THEN [op EXCEPT !.k = op.k + 1] ELSE Idle
      /\ saved' = IF ~o.ok THEN "broken" ELSE IF op.k = Len(Order) THEN "whole" ELSE saved
      /\ kept' = IF o.ok /\ op.k = Len(Order) THEN {root[k].name : k \in Entries} ELSE kept
      /\ upset' = IF Misreported(o) THEN "misreported" ELSE upset
      /\ UNCHANGED <<mounted, bitmap, inodes, root, count>>
  BY DEF write_image, At, cached_write, direct_write, fsvars
<1>2. ~Misreported(o)
  BY <1>1 DEF Sound
<1>3. Len(Order) = MAX_INODES + 2 /\ op.k \in 1..(MAX_INODES + 2) /\ (mounted \/ op.step = "mkfs")
  BY <1>1, Saving
<1>4. CASE o.ok = FALSE /\ o.stored = FALSE
  <2>1. /\ UNCHANGED <<disk, cache, kept, mounted, bitmap, inodes, root, count>>
        /\ op' = Idle /\ saved' = "broken"
    BY <1>1, <1>4
  <2>2. op'.step = "idle"
    BY <2>1, IdleType
  <2>3. SaveCut' = "broken"
    BY <2>1, <2>2 DEF SaveCut, At
  <2>4. DiskInv' /\ AheadInv'
    BY <2>3 DEF DiskInv, AheadInv, Mountable
  <2>5. DiskType'
    BY <2>1, DiskSame DEF Inv
  <2>6. MemoryInv'
    BY <2>1, <2>2 DEF Inv, MemoryInv
  <2>7. MemoryType'
    BY <2>1, IdleType DEF Inv, MemoryType
  <2>8. CacheInv' /\ SaveInv' /\ WriteInv'
    BY <2>1, <2>2 DEF Inv, CacheInv, SaveInv, WriteInv
  <2> QED
    BY <2>4, <2>5, <2>6, <2>7, <2>8 DEF Inv
<1>5. CASE o.ok = TRUE /\ o.stored = TRUE
  <2>1. Written
    BY <1>1, <1>5 DEF Written
  <2>2. CASE op.k = MAX_INODES + 2
    <3>1. ~(op.k < Len(Order)) /\ op.k = Len(Order)
      BY <1>3, <2>2, Layout
    <3>2. op' = Idle /\ saved' = "whole" /\ kept' = {root[k].name : k \in Entries}
      BY <1>1, <1>5, <3>1
    <3> QED
      BY <2>1, <2>2, <3>2, LastSector
  <2>3. CASE op.k # MAX_INODES + 2
    <3>1. op.k < Len(Order) /\ op.k # Len(Order) /\ op.k < MAX_INODES + 2
      BY <1>3, <2>3, Layout
    <3>2. op' = [op EXCEPT !.k = op.k + 1] /\ UNCHANGED <<saved, kept>>
      BY <1>1, <1>5, <3>1
    <3> QED
      BY <2>1, <3>1, <3>2, EarlierSector
  <2> QED
    BY <2>2, <2>3
<1> QED
  BY <1>2, <1>4, <1>5, Outcomes, Zenon

-----------------------------------------------------------------------------
\* The disk that was never formatted and the kernel just started.
LEMMA ZohFsInit ==
  ASSUME Init
  PROVE  ZohFsInv
<1> DEFINE blank(s) == CASE s = 0 -> "blank"
                         [] s = BITMAP_SECTOR -> {}
                         [] s \in {InodeSector(i) : i \in Inodes} -> Inode_empty
                         [] s = ROOT_SECTOR -> [k \in 0..(DIR_SECTOR - 1) |-> NoEntry]
                         [] OTHER -> 0
<1>1. disk = [s \in Sectors |-> blank(s)]
  BY DEF Init
<1>2. blank(0) = "blank"
  BY Layout
<1>3. \A i \in Inodes : blank(InodeSector(i)) = Inode_empty
  <2> SUFFICES ASSUME NEW i \in Inodes PROVE blank(InodeSector(i)) = Inode_empty
    OBVIOUS
  <2>1. InodeSector(i) # 0 /\ InodeSector(i) # BITMAP_SECTOR /\ InodeSector(i) # ROOT_SECTOR
    BY Layout DEF Inodes
  <2>2. PICK q : q = InodeSector(i)
    OBVIOUS
  <2>3. q \in {InodeSector(j) : j \in Inodes} /\ q # 0 /\ q # BITMAP_SECTOR /\ q # ROOT_SECTOR
    BY <2>1, <2>2
  <2>4. blank(q) = Inode_empty
    BY <2>3
  <2> QED
    BY <2>2, <2>4
<1>4. blank(ROOT_SECTOR) = [k \in 0..(DIR_SECTOR - 1) |-> NoEntry]
  <2>1. ROOT_SECTOR # 0 /\ ROOT_SECTOR # BITMAP_SECTOR
    BY Layout
  <2>2. ROOT_SECTOR \notin {InodeSector(i) : i \in Inodes}
    BY Layout DEF Inodes
  <2> QED
    BY <2>1, <2>2
<1> HIDE DEF blank
<1>5. {0, ROOT_SECTOR} \subseteq Sectors /\ \A i \in Inodes : InodeSector(i) \in Sectors
  BY Layout DEF Inodes
<1>6. DiskType
  <2>1. disk = [s \in Sectors |-> disk[s]] /\ \A s \in Sectors : disk[s] = blank(s)
    BY <1>1
  <2>2. \A i \in Inodes : disk[InodeSector(i)] \in Nodes
    <3> SUFFICES ASSUME NEW i \in Inodes PROVE disk[InodeSector(i)] \in Nodes
      OBVIOUS
    <3>1. disk[InodeSector(i)] = Inode_empty
      BY <2>1, <1>3, <1>5
    <3> QED
      BY <3>1, EmptyNode
  <2>3. disk[ROOT_SECTOR] = [k \in 0..(DIR_SECTOR - 1) |-> NoEntry]
    BY <2>1, <1>4, <1>5
  <2>4. disk[ROOT_SECTOR] \in [0..(DIR_SECTOR - 1) -> DirEntries]
    BY <2>3, EmptyRootType
  <2> QED
    BY <2>1, <2>2, <2>4 DEF DiskType
<1>7. op.step = "idle" /\ ~mounted
  BY IdleType DEF Init
<1>8. DiskInv
  BY <1>1, <1>2, <1>5 DEF DiskInv
<1>9. MemoryType
  BY EmptyNode, EmptyRootType, IdleType, Zenon DEF Init, MemoryType
<1>10. CacheInv
  BY <1>7, EmptyCacheCoherent DEF Init, CacheInv
<1>11. MemoryInv /\ AheadInv /\ SaveInv /\ WriteInv
  BY <1>7 DEF MemoryInv, AheadInv, SaveInv, WriteInv
<1> QED
  BY <1>6, <1>8, <1>9, <1>10, <1>11 DEF ZohFsInv, Inv

LEMMA ZohFsStep ==
  ASSUME ZohFsInv, [Next]_vars
  PROVE  ZohFsInv'
<1> SUFFICES ASSUME Sound' PROVE Inv'
  BY DEF ZohFsInv
<1>1. Sound
  <2>1. upset' = "none"
    BY DEF Sound
  <2>2. CASE \E n \in 0..Len(MountOrder) : init(n)
    <3>1. PICK n \in 0..Len(MountOrder) : init(n)
      BY <2>2
    <3>2. upset' \in {"half_mount", "no_root", "broken_save", "unsaved_entries", upset}
      BY <3>1 DEF init
    <3> QED
      BY <2>1, <3>2 DEF Sound
  <2>3. CASE \E o \in WriteOutcomes : write_image(o)
    BY <2>1, <2>3 DEF write_image, Sound
  <2>4. CASE \E ok \in BOOLEAN, o \in WriteOutcomes : write_block(ok, o)
    BY <2>1, <2>4 DEF write_block, Sound
  <2>5. CASE UNCHANGED upset
    BY <2>1, <2>5 DEF Sound
  <2> QED
    BY <2>2, <2>3, <2>4, <2>5, Zenon
       DEF Next, vars, history, mkfs, create, delete_file, write_file_data, write_no_block,
           write_done, read_file_data, power_fails
<1>2. Inv
  BY <1>1 DEF ZohFsInv
<1>3. CASE \E n \in 0..Len(MountOrder) : init(n)
  BY <1>1, <1>2, <1>3, InitStep
<1>4. CASE mkfs
  BY <1>2, <1>4, MkfsStep
<1>5. CASE \E name \in Names, mode \in {"file", "dir"} : create(name, mode)
  BY <1>2, <1>5, CreateStep
<1>6. CASE \E name \in Names : delete_file(name)
  BY <1>2, <1>6, DeleteStep
<1>7. CASE \E o \in WriteOutcomes : write_image(o)
  BY <1>2, <1>7, WriteImageStep
<1>8. CASE \E name \in Names, pos \in 0..(DIRECT_BLOCKS - 1), n \in 1..DIRECT_BLOCKS :
             write_file_data(name, pos, n)
  BY <1>2, <1>8, WriteStartStep
<1>9. CASE \E ok \in BOOLEAN, o \in WriteOutcomes : write_block(ok, o)
  BY <1>2, <1>9, WriteBlockStep
<1>10. CASE write_no_block
  BY <1>2, <1>10, WriteNoBlockStep
<1>11. CASE write_done
  BY <1>2, <1>11, WriteDoneStep
<1>12. CASE \E name \in Names, pos \in 0..(DIRECT_BLOCKS - 1) : read_file_data(name, pos)
  BY <1>2, <1>12, ReadStep
<1>13. CASE invalidate /\ At("idle") /\ UNCHANGED <<fsvars, op, history>>
  BY <1>2, <1>13, InvalidateStep
<1>14. CASE power_fails
  BY <1>2, <1>14, PowerStep
<1>15. CASE UNCHANGED vars
  <2>1. UNCHANGED <<disk, mounted, bitmap, inodes, root, count, op, saved, kept, cache>>
    BY <1>15 DEF vars, fsvars, history
  <2> QED
    BY <1>2, <2>1, CacheStep
<1> QED
  BY <1>3, <1>4, <1>5, <1>6, <1>7, <1>8, <1>9, <1>10, <1>11, <1>12, <1>13, <1>14, <1>15 DEF Next

LEMMA ZohFsInvariant == Spec => []ZohFsInv
<1>1. Init => ZohFsInv
  BY ZohFsInit
<1>2. ZohFsInv /\ [Next]_vars => ZohFsInv'
  BY ZohFsStep
<1> QED
  BY <1>1, <1>2, PTL DEF Spec

\* A cache line holds what its sector holds on the disk, whatever calls, failed writes and
\* power failures came before, as long as the cache is no longer than the sectors before
\* the directory (bcache.rs, and mkfs, which writes the directory past the cache).
THEOREM CacheStaysCoherent == Spec => []CacheCoherent
<1>1. ZohFsInv => CacheCoherent
  <2> SUFFICES ASSUME Inv, NEW k \in DOMAIN cache, cache[k].sector \in Sectors
               PROVE  cache[k].data = disk[cache[k].sector]
    BY DEF ZohFsInv, CacheCoherent
  <2>1. cache \in Caches(disk)
    BY DEF Inv, CacheInv
  <2>2. cache = [r \in CacheSlots |-> cache[r]] /\ \A r \in CacheSlots : cache[r] \in LinesOf(disk, r)
    BY <2>1, CacheElim
  <2>3. k \in CacheSlots
    BY <2>2
  <2>4. cache[k] \in LinesOf(disk, k) /\ cache[k] # NoLine
    BY <2>2, <2>3, CacheAssumption DEF NoLine, Sectors
  <2> QED
    BY <2>4 DEF LinesOf
<1> QED
  BY <1>1, ZohFsInvariant, PTL

\* A mounted volume is well formed: entries with names and inodes of their own, inodes in
\* use, blocks marked and in one file only (create_file, delete_file, write_file_data,
\* flush_root_dir, mkfs and init).
THEOREM VolumeStaysWhole == Spec => []VolumeStructure
<1>1. ZohFsInv => VolumeStructure
  <2> SUFFICES ASSUME Inv, mounted
               PROVE  /\ \A k \in Entries :
                           /\ root[k].inode # ROOT_INODE /\ inodes[root[k].inode].mode # "none"
                           /\ \A l \in Entries : l # k => /\ root[l].inode # root[k].inode
                                                          /\ root[l].name # root[k].name
                      /\ \A i \in Listed :
                           /\ Blocks(inodes[i]) \subseteq bitmap \ (0..(SYSTEM_BLOCKS - 1))
                           /\ \A j \in Listed :
                                j # i => Blocks(inodes[i]) \intersect Blocks(inodes[j]) = {}
    BY DEF ZohFsInv, VolumeStructure
  <2>1. /\ Volume(disk, kept, root, count, inodes, bitmap) /\ Entries = Live(root, count)
        /\ \A k \in Live(root, count) : FileSound(disk, root[k], inodes, bitmap)
    BY InMemory
  <2>2. ASSUME NEW k \in Entries
        PROVE  /\ root[k].inode # ROOT_INODE /\ inodes[root[k].inode].mode # "none"
               /\ \A l \in Entries : l # k => root[l].inode # root[k].inode /\ root[l].name # root[k].name
    BY <2>1 DEF Volume, FileSound
  <2>3. \A i \in Listed : \A b \in Blocks(inodes[i]) :
          b \in bitmap /\ b >= SYSTEM_BLOCKS /\ disk[BlockSector(b)] = i
    BY <2>1 DEF Listed, FileSound
  <2>4. ASSUME NEW i \in Listed, NEW b \in Blocks(inodes[i])
        PROVE  b \in bitmap \ (0..(SYSTEM_BLOCKS - 1))
    BY <2>3, ZohFsAssumption
  <2>5. \A i, j \in Listed : j # i => Blocks(inodes[i]) \intersect Blocks(inodes[j]) = {}
    BY <2>3
  <2> QED
    BY <2>2, <2>4, <2>5
<1> QED
  BY <1>1, ZohFsInvariant, PTL

\* A name whose creation flush_root_dir saved is found (find_in_root) whenever a volume is
\* mounted, until a delete takes it off.
THEOREM SavedFilesStay == Spec => []FilesStay
<1>1. ZohFsInv => FilesStay
  <2> SUFFICES ASSUME Inv, mounted, NEW name \in kept PROVE Matches(name) # {}
    BY DEF ZohFsInv, FilesStay
  <2>1. Volume(disk, kept, root, count, inodes, bitmap) /\ Entries = Live(root, count)
    BY InMemory
  <2>2. PICK k \in Live(root, count) : root[k].name = name
    BY <2>1 DEF Volume
  <2> QED
    BY <2>1, <2>2 DEF Matches
<1> QED
  BY <1>1, ZohFsInvariant, PTL

\* Reading a block of a listed file returns what write_file_data last put in that file.
THEOREM ContentsStay == Spec => []FilesKeepContents
<1>1. ZohFsInv => FilesKeepContents
  <2> SUFFICES ASSUME Inv, mounted, NEW i \in Listed, NEW b \in Blocks(inodes[i])
               PROVE  cached_read(cache, BlockSector(b)) = i
    BY DEF ZohFsInv, FilesKeepContents
  <2>1. PICK k \in Live(root, count) : root[k].inode = i
    BY InMemory DEF Listed
  <2>2. FileSound(disk, root[k], inodes, bitmap) /\ inodes[i] \in Nodes
    BY <2>1, InMemory
  <2>3. b >= SYSTEM_BLOCKS /\ disk[BlockSector(b)] = i
    BY <2>1, <2>2 DEF FileSound
  <2>4. BlockSector(b) \in Sectors
    BY <2>2, <2>3, BlockPlace
  <2> QED
    BY <2>3, <2>4, ReadCoherent DEF Inv, CacheInv
<1> QED
  BY <1>1, ZohFsInvariant, PTL
=============================================================================
