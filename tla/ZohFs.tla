------------------------------- MODULE ZohFs --------------------------------
(***************************************************************************)
(* The ZohFS file system (fs/zohfs.rs) over the sector cache and the disk: *)
(* the structures it keeps in memory, and one step per sector it writes,   *)
(* so that a write may fail, and power may go, between any two.            *)
(*                                                                         *)
(*   sectors      0 superblock, 1 bitmap, then one per inode, then one per *)
(*                block (1 + 7 + 2 per inode + 8 per block in the code)    *)
(*   present      the drive answered IDENTIFY at boot                      *)
(*   mounted      FS_MOUNTED        bitmap   the blocks marked in BITMAP   *)
(*   inodes       INODES            root     ROOT_DIR                      *)
(*   count        ROOT_DIR_COUNT                                           *)
(*   op           the call under way                                       *)
(*   saved        history: how much of the last save is on the disk        *)
(*   kept         history: names whose creation was saved and that no      *)
(*                later call has taken off the directory                   *)
(*   faults       failed reads and writes, and power failures, so far      *)
(*   upset        history: the first event ZohFS does not survive          *)
(*                                                                         *)
(* Sizes are in blocks, the root's in entries.  A data sector holds the    *)
(* number of the inode written to it.  free_blocks is only printed and is  *)
(* left out, and so are names past 55 bytes.  A call refused at once (not  *)
(* mounted, name taken or not found, no inode left, not a file) changes    *)
(* nothing and is no step.                                                 *)
(***************************************************************************)
EXTENDS BlockCache, FiniteSets, FiniteSetsExt

CONSTANTS
  MAX_INODES,     \* inodes are numbered below it, from 1
  DIRECT_BLOCKS,  \* direct blocks of an inode
  DIR_SECTOR,     \* entries of the one directory sector saved (8)
  TOTAL_BLOCKS,   \* blocks of the disk
  SYSTEM_BLOCKS,  \* blocks mkfs marks, the root's block 1 among them (10)
  Names,          \* names of files
  MAX_FAULTS      \* bound on faults

\* The blocks lie on the disk (mkfs computes TOTAL_BLOCKS from its sectors), mkfs marks the
\* root's block, and the sectors before the first block are at least as many as the slots
\* of the cache (1 + 7 + 64 against 64).
ASSUME ZohFsAssumption ==
  /\ MAX_INODES \in Nat /\ MAX_INODES > 1 /\ DIRECT_BLOCKS \in Nat \ {0} /\ DIR_SECTOR \in Nat
  /\ TOTAL_BLOCKS \in Nat /\ MAX_INODES + TOTAL_BLOCKS <= SECTORS
  /\ SYSTEM_BLOCKS \in Nat /\ SYSTEM_BLOCKS > 1 /\ TOTAL_BLOCKS > 1
  /\ CACHE_SIZE <= MAX_INODES + 1
  /\ MAX_FAULTS \in Nat

VARIABLES present, mounted, bitmap, inodes, root, count, op, saved, kept, upset, faults

fsvars == <<present, mounted, bitmap, inodes, root, count>>
history == <<saved, kept, upset, faults>>
vars == <<disk, cache, fsvars, op, history>>

ROOT_INODE == 1
Inodes == 1..(MAX_INODES - 1)
BITMAP_SECTOR == 1
InodeSector(i) == 1 + i
DataStart == 1 + MAX_INODES
BlockSector(b) == DataStart + b - 1
ROOT_SECTOR == BlockSector(1)

Inode_empty == [mode |-> "none", size |-> 0, block_count |-> 0,
                blocks |-> [k \in 0..(DIRECT_BLOCKS - 1) |-> 0]]
NoEntry == [name |-> "", inode |-> 0]
RootSlots == 0..(MAX_INODES - 1)
EmptyRoot == [k \in RootSlots |-> NoEntry]
Idle == [step |-> "idle", k |-> 0, inode |-> 0, node |-> Inode_empty, pos |-> 0, left |-> 0]

\* IdeDisk::init at boot: a drive that is not there, or does not answer, is
\* no drive.
Identified == {identify(s, q, SECTORS).total_sectors > 0 : s, q \in Status}

\* A disk that was never formatted, and the kernel just started.
Init ==
  /\ disk = [s \in Sectors |-> CASE s = 0 -> "blank"
                                 [] s = BITMAP_SECTOR -> {}
                                 [] s \in {InodeSector(i) : i \in Inodes} -> Inode_empty
                                 [] s = ROOT_SECTOR -> [k \in 0..(DIR_SECTOR - 1) |-> NoEntry]
                                 [] OTHER -> 0]
  /\ cache = EmptyCache
  /\ present \in Identified
  /\ mounted = FALSE /\ bitmap = {} /\ inodes = [i \in Inodes |-> Inode_empty]
  /\ root = EmptyRoot /\ count = 0
  /\ op = Idle
  /\ saved = "whole" /\ kept = {} /\ upset = "none" /\ faults = 0

-----------------------------------------------------------------------------
\* find_in_root: the first entry below ROOT_DIR_COUNT with the name.
Entries == {k \in 0..(count - 1) : root[k].inode # 0}
Matches(name) == {k \in Entries : root[k].name = name}

FreeInodes == {i \in Inodes : inodes[i].mode = "none"}
alloc_inode == Min(FreeInodes)

FreeBlocks == (0..(TOTAL_BLOCKS - 1)) \ bitmap

\* Mutant of alloc_block: the scan does not look at the bits.
alloc_block_unscanned == SYSTEM_BLOCKS

alloc_block == Min(FreeBlocks)

Blocks(node) == {node.blocks[k] : k \in 0..(DIRECT_BLOCKS - 1)} \ {0}

\* free_inode_blocks: the blocks it unmarks.
Freed(node) ==
  {node.blocks[k] : k \in 0..(Min({node.block_count, DIRECT_BLOCKS}) - 1)} \ {0}

\* Mutant of SavedEntry: the copy stops one entry early.
SavedEntry_short(k) == IF k + 1 < count THEN root[k] ELSE NoEntry

\* Only entries below ROOT_DIR_COUNT reach the directory sector.
SavedEntry(k) == IF k < count THEN root[k] ELSE NoEntry

free_inode(nodes, i) == [nodes EXCEPT ![i] = Inode_empty]

\* What flush_root_dir and mkfs write to a sector, taken from memory.
Image(s) ==
  CASE s = 0 -> "zohfs"
    [] s = BITMAP_SECTOR -> bitmap
    [] s = ROOT_SECTOR -> [k \in 0..(DIR_SECTOR - 1) |-> SavedEntry(k)]
    [] OTHER -> inodes[s - 1]

InodeSectors == [i \in Inodes |-> InodeSector(i)]

\* Mutant of FlushOrder: the directory after the inodes.
FlushOrder_dir_last == <<0, BITMAP_SECTOR>> \o InodeSectors \o <<ROOT_SECTOR>>

FlushOrder == <<ROOT_SECTOR, 0, BITMAP_SECTOR>> \o InodeSectors
MkfsOrder == <<0, BITMAP_SECTOR>> \o InodeSectors \o <<ROOT_SECTOR>>
MountOrder == <<0, BITMAP_SECTOR>> \o InodeSectors \o <<ROOT_SECTOR>>

RootStep == 3 + ROOT_INODE
Order == IF op.step = "mkfs" THEN MkfsOrder ELSE FlushOrder

At(s) == op.step = s

Fault(f) == faults' = (IF f THEN faults + 1 ELSE faults) /\ faults' <= MAX_FAULTS

\* A save cut short leaves the disk whole in structure when power went before
\* the root's inode was written, and the disk was whole before.
SaveCut ==
  IF ~(At("flush") \/ At("mkfs")) THEN saved
  ELSE IF saved = "whole" /\ At("flush") /\ op.k <= RootStep THEN "part" ELSE "broken"

\* The driver's answer is not what the drive did.
Misreported(o) == o.ok # o.stored

\* flush_root_dir starts; without a root block it returns Ok at once.
flush_root_dir ==
  op' = IF inodes'[ROOT_INODE].blocks[0] = 0 THEN Idle
        ELSE [Idle EXCEPT !.step = "flush", !.k = 1]

-----------------------------------------------------------------------------
\* init: the first n reads succeed, and the next one fails unless they are all
\* it makes.  FS_MOUNTED is set after the first, before the rest is read.  The
\* directory sector is read into DIR_SECTOR entries; more are copied from behind
\* the buffer.
init(n) ==
  /\ At("idle") /\ present
  /\ LET before(k) == cached_read_sectors(cache, SubSeq(MountOrder, 1, k - 1))
         value(k) == cached_read(before(k), MountOrder[k])
         node(i) == value(2 + i)
         dir == Len(MountOrder)
         magic == value(1) = "zohfs"
         hasRoot == node(ROOT_INODE).block_count > 0 /\ node(ROOT_INODE).blocks[0] > 0
         reads == IF ~magic THEN 1 ELSE IF ~hasRoot THEN dir - 1 ELSE dir
     IN /\ n <= reads
        /\ n < reads => FALSE \in ReadResults(before(n + 1), MountOrder[n + 1])
        /\ cache' = before(n + 1)
        /\ mounted' = (mounted \/ (magic /\ n >= 1))
        /\ bitmap' = IF n >= 2 THEN value(2) ELSE bitmap
        /\ inodes' = IF n >= dir - 1 THEN [i \in Inodes |-> node(i)] ELSE inodes
        /\ count' = IF n = dir THEN node(ROOT_INODE).size ELSE count
        /\ \E junk \in {NoEntry} \union [name : Names, inode : Inodes] :
             root' = IF n < dir THEN root
                     ELSE [k \in RootSlots |-> IF k >= count' THEN root[k]
                                               ELSE IF k < DIR_SECTOR THEN value(dir)[k]
                                               ELSE junk]
        /\ upset' = CASE n >= 1 /\ n < reads -> "half_mount"
                      [] n = reads /\ reads = dir - 1 -> "no_root"
                      [] n = dir /\ saved = "broken" -> "broken_save"
                      [] n = dir /\ count' > DIR_SECTOR -> "unsaved_entries"
                      [] OTHER -> upset
        /\ Fault(n < reads)
  /\ UNCHANGED <<disk, present, op, saved, kept>>

\* mkfs: resets memory, then writes.  FS_MOUNTED stays as it is.
mkfs ==
  /\ At("idle") /\ present
  /\ bitmap' = 0..(SYSTEM_BLOCKS - 1)
  /\ inodes' = [i \in Inodes |->
                 IF i = ROOT_INODE
                 THEN [Inode_empty EXCEPT !.mode = "dir", !.block_count = 1, !.blocks[0] = 1]
                 ELSE Inode_empty]
  /\ root' = EmptyRoot /\ count' = 0
  /\ op' = [Idle EXCEPT !.step = "mkfs", !.k = 1]
  /\ kept' = {}
  /\ UNCHANGED <<disk, cache, present, mounted, saved, upset, faults>>

\* ROOT_DIR has more slots (64) than there are inodes, so it is never full.
add_to_root(name, i) ==
  /\ root' = [root EXCEPT ![count] = [name |-> name, inode |-> i]]
  /\ count' = count + 1
  /\ flush_root_dir

\* create_file and create_dir.
create(name, mode) ==
  /\ At("idle") /\ mounted
  /\ Matches(name) = {} /\ FreeInodes # {}
  /\ inodes' = [inodes EXCEPT ![alloc_inode].mode = mode, ![alloc_inode].size = 0,
                              ![ROOT_INODE].size = count + 1]
  /\ add_to_root(name, alloc_inode)
  /\ UNCHANGED <<disk, cache, present, mounted, bitmap, history>>

\* delete_file.  The entry is emptied where it stands and ROOT_DIR_COUNT goes
\* down by one.
delete_file(name) ==
  /\ At("idle") /\ mounted
  /\ Matches(name) # {}
  /\ LET k == Min(Matches(name))
         i == root[k].inode
     IN /\ root' = [root EXCEPT ![k] = NoEntry]
        /\ bitmap' = bitmap \ Freed(inodes[i])
        /\ inodes' = free_inode([inodes EXCEPT ![ROOT_INODE].size = count - 1], i)
  /\ count' = count - 1
  /\ kept' = kept \ {name, root[count - 1].name}
  /\ flush_root_dir
  /\ UNCHANGED <<disk, cache, present, mounted, saved, upset, faults>>

\* One sector of flush_root_dir or mkfs; an error ends the call.  mkfs writes
\* the directory past the cache.
write_image(o) ==
  /\ At("flush") \/ At("mkfs")
  /\ LET s == Order[op.k]
     IN IF At("mkfs") /\ s = ROOT_SECTOR THEN direct_write(s, Image(s), o)
        ELSE cached_write(s, Image(s), o)
  /\ op' = IF o.ok /\ op.k < Len(Order) THEN [op EXCEPT !.k = op.k + 1] ELSE Idle
  /\ saved' = IF ~o.ok THEN "broken" ELSE IF op.k = Len(Order) THEN "whole" ELSE saved
  /\ kept' = IF o.ok /\ op.k = Len(Order) THEN {root[k].name : k \in Entries} ELSE kept
  /\ Fault(~o.ok)
  /\ upset' = IF Misreported(o) THEN "misreported" ELSE upset
  /\ UNCHANGED fsvars

\* find_file: the inode of the name.
find_file(name) == root[Min(Matches(name))].inode

\* find_file and write_file_data, which copies the inode, and back at the end.
write_file_data(name, pos, n) ==
  /\ At("idle") /\ mounted /\ Matches(name) # {}
  /\ inodes[find_file(name)].mode = "file"
  /\ op' = [Idle EXCEPT !.step = "write", !.inode = find_file(name),
                      !.node = inodes[find_file(name)], !.pos = pos, !.left = n]
  /\ UNCHANGED <<disk, cache, fsvars, history>>

\* A block of the data: allocated if the file has none there, read, written.
\* An error leaves the block marked and the inode in memory as it was.
write_block(ok, o) ==
  /\ At("write") /\ op.left > 0 /\ op.pos < DIRECT_BLOCKS
  /\ LET new == op.node.blocks[op.pos] = 0
         b == IF new THEN alloc_block ELSE op.node.blocks[op.pos]
         c == CacheAfterRead(cache, BlockSector(b))
     IN /\ new => FreeBlocks # {}
        /\ ok \in ReadResults(cache, BlockSector(b))
        /\ bitmap' = bitmap \union {b}
        /\ IF ok
           THEN /\ disk' = IF o.stored THEN [disk EXCEPT ![BlockSector(b)] = op.inode] ELSE disk
                /\ cache' = IF o.ok THEN Fill(c, BlockSector(b), op.inode) ELSE c
           ELSE UNCHANGED <<disk, cache>>
        /\ op' = IF ~(ok /\ o.ok) THEN Idle
                 ELSE [op EXCEPT !.pos = op.pos + 1, !.left = op.left - 1,
                                 !.node.blocks[op.pos] = b,
                                 !.node.block_count = IF new THEN op.pos + 1 ELSE @]
  /\ Fault(~ok \/ ~o.ok)
  /\ upset' = IF ok /\ Misreported(o) THEN "misreported" ELSE upset
  /\ UNCHANGED <<present, mounted, inodes, root, count, saved, kept>>

\* alloc_block finds none.
write_no_block ==
  /\ At("write") /\ op.left > 0 /\ op.pos < DIRECT_BLOCKS
  /\ op.node.blocks[op.pos] = 0 /\ FreeBlocks = {}
  /\ op' = Idle
  /\ UNCHANGED <<disk, cache, fsvars, history>>

write_done ==
  /\ At("write") /\ (op.left = 0 \/ op.pos >= DIRECT_BLOCKS)
  /\ inodes' = [inodes EXCEPT ![op.inode] = [op.node EXCEPT !.size = Max({@, op.pos})]]
  /\ op' = Idle
  /\ UNCHANGED <<disk, cache, present, mounted, bitmap, root, count, history>>

\* read_file_data, a block of it: changes nothing but the cache.
read_file_data(name, pos) ==
  /\ At("idle") /\ mounted /\ Matches(name) # {}
  /\ LET node == inodes[find_file(name)]
     IN /\ node.mode = "file" /\ pos < node.size /\ node.blocks[pos] # 0
        /\ cache' = CacheAfterRead(cache, BlockSector(node.blocks[pos]))
  /\ UNCHANGED <<disk, fsvars, op, history>>

\* Power goes and comes back: memory is as the kernel image has it.
power_fails ==
  /\ cache' = EmptyCache
  /\ present' \in Identified
  /\ mounted' = FALSE /\ bitmap' = {} /\ inodes' = [i \in Inodes |-> Inode_empty]
  /\ root' = EmptyRoot /\ count' = 0
  /\ op' = Idle
  /\ saved' = SaveCut
  /\ Fault(TRUE)
  /\ UNCHANGED <<disk, upset, kept>>

Next ==
  \/ \E n \in 0..Len(MountOrder) : init(n)
  \/ mkfs
  \/ \E name \in Names, mode \in {"file", "dir"} : create(name, mode)
  \/ \E name \in Names : delete_file(name)
  \/ \E o \in WriteOutcomes : write_image(o)
  \/ \E name \in Names, pos \in 0..(DIRECT_BLOCKS - 1), n \in 1..DIRECT_BLOCKS :
       write_file_data(name, pos, n)
  \/ \E ok \in BOOLEAN, o \in WriteOutcomes : write_block(ok, o)
  \/ write_no_block
  \/ write_done
  \/ \E name \in Names, pos \in 0..(DIRECT_BLOCKS - 1) : read_file_data(name, pos)
  \/ (invalidate /\ At("idle") /\ UNCHANGED <<fsvars, op, history>>)
  \/ power_fails

Spec == Init /\ [][Next]_vars

-----------------------------------------------------------------------------
\* Nothing has happened yet that ZohFS does not survive.  These are:
\*   misreported      the driver says a sector was written and it was not, or
\*                    the other way round
\*   half_mount       a read fails in init after FS_MOUNTED was set
\*   no_root          a volume is mounted whose mkfs did not reach the root
\*   broken_save      a volume is mounted whose last save failed, or was cut
\*                    by power after the root's inode was written
\*   unsaved_entries  a volume is mounted with more entries than are saved
Sound == upset = "none"

\* A line of the cache holds what its sector holds on the disk.  mkfs clears the
\* directory past the cache, and this stays true only because the inode table it
\* has just written through the cache is as long as the cache.
CacheCoherent ==
  Sound => \A k \in DOMAIN cache :
             cache[k].sector \in Sectors => cache[k].data = disk[cache[k].sector]

Listed == {root[k].inode : k \in Entries}

\* Listed entries have names and inodes of their own, the inodes are in use, and
\* their blocks are marked and their own, whatever calls failed and wherever
\* power went in a save before it reached the root's inode: a volume so cut
\* short is mounted as it was before the call, or without the deleted file.
VolumeStructure ==
  Sound /\ mounted =>
    /\ \A k \in Entries :
         /\ root[k].inode # ROOT_INODE /\ inodes[root[k].inode].mode # "none"
         /\ \A l \in Entries : l # k => /\ root[l].inode # root[k].inode
                                        /\ root[l].name # root[k].name
    /\ \A i \in Listed :
         /\ Blocks(inodes[i]) \subseteq bitmap \ (0..(SYSTEM_BLOCKS - 1))
         /\ \A j \in Listed : j # i => Blocks(inodes[i]) \intersect Blocks(inodes[j]) = {}

\* A file whose creation was saved is listed, across power failures and mounts,
\* until a delete takes it off: the delete of its own name, or of any other
\* while it stands last, since delete_file shortens the directory by one without
\* moving an entry.
FilesStay ==
  Sound /\ mounted => \A name \in kept : Matches(name) # {}

\* A block of a listed file reads, through the cache, as what was last written to
\* that file, never as another file's data.
FilesKeepContents ==
  Sound /\ mounted =>
    \A i \in Listed : \A b \in Blocks(inodes[i]) : cached_read(cache, BlockSector(b)) = i
=============================================================================
