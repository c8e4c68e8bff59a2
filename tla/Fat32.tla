------------------------------- MODULE Fat32 --------------------------------
(***************************************************************************)
(* The FAT32 driver (fat32.rs) as the shell's touch, mkdir, write and rm   *)
(* use it on the root directory: one step per write that reaches the disk, *)
(* and power may fail between two of them.                                 *)
(*                                                                         *)
(*   fat[c]    FAT entry of cluster c: 0 free, EOC, or the next cluster    *)
(*   dir[c]    directory slots of cluster c                                *)
(*   op        the command under way: its step, name, the file's first     *)
(*             cluster, the cluster it is at, a cluster just taken, the    *)
(*             clusters of data left to write, the slot rm will clear      *)
(*                                                                         *)
(* File contents, times and sizes are left out (no command writes a size); *)
(* names are short ones, so that 8.3 conversion keeps them apart.          *)
(***************************************************************************)
EXTENDS Naturals, FiniteSets

CONSTANTS
  TOTAL,        \* total_clusters
  ROOT,         \* root_cluster
  SLOTS,        \* directory entries in a cluster
  Names,        \* file names
  Lengths,      \* clusters a write's text can fill
  BYTE,         \* 256
  FailureSteps  \* steps before which power may fail

EOC == TOTAL
NoSlot == <<0, 0>>
Unused == [name |-> "00", cl |-> 0]
Deleted == [name |-> "E5", cl |-> 0]

Clusters == 2..(TOTAL - 1)

ASSUME Fat32Assumption ==
  /\ TOTAL \in Nat /\ ROOT \in Clusters /\ SLOTS \in Nat \ {0} /\ BYTE \in Nat \ {0}
  /\ Names \intersect {"00", "E5"} = {}
  /\ Lengths \subseteq Nat \ {0}

VARIABLES fat, dir, op

vars == <<fat, dir, op>>

Idle == [step |-> "idle", name |-> "", file |-> 0, cur |-> 0, new |-> 0, left |-> 0,
         slot |-> NoSlot]

\* A freshly formatted volume.
Init ==
  /\ fat = [c \in Clusters |-> IF c = ROOT THEN EOC ELSE 0]
  /\ dir = [c \in Clusters |-> [i \in 1..SLOTS |-> Unused]]
  /\ op = Idle

\* next_cluster: 0 at the end of a chain.
next_cluster(c) == IF fat[c] = EOC THEN 0 ELSE fat[c]

\* The clusters of the chain from c in their order, and 0 past its end.
Walk(c) ==
  LET nth[n \in 1..TOTAL] ==
        IF n = 1 THEN c ELSE IF nth[n - 1] = 0 THEN 0 ELSE next_cluster(nth[n - 1])
  IN  nth

DirCluster == Walk(ROOT)

\* Slots in the order in which the driver scans them.
SlotNos == {s \in (1..TOTAL) \X (1..SLOTS) : DirCluster[s[1]] # 0}
Slot(s) == dir[DirCluster[s[1]]][s[2]]
Before(s, t) == s[1] < t[1] \/ (s[1] = t[1] /\ s[2] < t[2])
First(S) == CHOOSE s \in S : \A t \in S : t = s \/ Before(s, t)

FreeSlots == {s \in SlotNos : Slot(s) \in {Unused, Deleted}}
Matches(name) == {s \in SlotNos : Slot(s).name = name}
SetSlot(s, e) == dir' = [dir EXCEPT ![DirCluster[s[1]]][s[2]] = e]
LastDirCluster == CHOOSE c \in {DirCluster[n] : n \in 1..TOTAL} \ {0} : next_cluster(c) = 0

Free == {c \in Clusters : fat[c] = 0}

\* Mutant of alloc_cluster: also a cluster that ends a chain looks free.
alloc_cluster_eoc == CHOOSE c \in {d \in Clusters : fat[d] \in {0, EOC}} :
                       \A d \in Clusters : fat[d] \in {0, EOC} => c <= d

\* alloc_cluster: the lowest free cluster; nothing is written yet.
alloc_cluster == CHOOSE c \in Free : \A d \in Free : c <= d

set_fat_entry(c, v) == fat' = [fat EXCEPT ![c] = v]

At(s) == op.step = s
Goto(s) == op' = [op EXCEPT !.step = s]

\* Where a command goes once its file exists: `write` has data left, the others
\* are done.
AfterCreate(o) ==
  IF o.left = 0 THEN Idle ELSE [o EXCEPT !.step = "data", !.cur = o.file, !.new = 0]

\* touch, mkdir (n = 0) and write of n clusters to a name that is not there.
create(name, n) ==
  /\ At("idle")
  /\ n > 0 => Matches(name) = {}
  /\ Free # {}
  /\ op' = [Idle EXCEPT !.step = "mark", !.name = name, !.left = n, !.file = alloc_cluster]
  /\ UNCHANGED <<fat, dir>>

\* alloc_cluster finds no free cluster, or rm no such name: Err, nothing changes.
command_refused(name) ==
  /\ At("idle")
  /\ Free = {} \/ Matches(name) = {}
  /\ UNCHANGED vars

\* create_file_entry: mark_eoc ...
create_mark ==
  /\ At("mark")
  /\ set_fat_entry(op.file, EOC)
  /\ Goto("slot")
  /\ UNCHANGED dir

\* ... the first free slot gets the entry ...
create_entry ==
  /\ At("slot")
  /\ FreeSlots # {}
  /\ SetSlot(First(FreeSlots), [name |-> op.name, cl |-> op.file])
  /\ op' = AfterCreate(op)
  /\ UNCHANGED fat

\* ... or the directory is full and no cluster is free: Err, and the file's
\* cluster stays marked ...
create_fails ==
  /\ At("slot")
  /\ FreeSlots = {} /\ Free = {}
  /\ op' = Idle
  /\ UNCHANGED <<fat, dir>>

\* ... or the directory gets a new cluster: chained, marked, zeroed, and the
\* entry written to its first slot.
create_extend ==
  /\ At("slot")
  /\ FreeSlots = {} /\ Free # {}
  /\ set_fat_entry(LastDirCluster, alloc_cluster)
  /\ op' = [op EXCEPT !.step = "dirEoc", !.new = alloc_cluster]
  /\ UNCHANGED dir

create_dir_eoc ==
  /\ At("dirEoc")
  /\ set_fat_entry(op.new, EOC)
  /\ Goto("dirZero")
  /\ UNCHANGED dir

create_dir_zero ==
  /\ At("dirZero")
  /\ dir' = [dir EXCEPT ![op.new] = [i \in 1..SLOTS |-> Unused]]
  /\ Goto("dirEntry")
  /\ UNCHANGED fat

create_dir_entry ==
  /\ At("dirEntry")
  /\ dir' = [dir EXCEPT ![op.new] =
               [i \in 1..SLOTS |-> IF i = 1 THEN [name |-> op.name, cl |-> op.file] ELSE Unused]]
  /\ op' = AfterCreate(op)
  /\ UNCHANGED fat

\* write of n clusters to a name that is there.
write(name, n) ==
  /\ At("idle")
  /\ Matches(name) # {}
  /\ LET cl == Slot(First(Matches(name))).cl IN
       op' = [Idle EXCEPT !.step = "data", !.name = name, !.left = n, !.file = cl, !.cur = cl]
  /\ UNCHANGED <<fat, dir>>

\* write_file_data: one cluster of data is written.
write_data ==
  /\ At("data")
  /\ op' = IF op.left = 1 THEN Idle
           ELSE IF next_cluster(op.cur) = 0
             THEN [op EXCEPT !.step = "link", !.left = @ - 1]
             ELSE [op EXCEPT !.cur = next_cluster(op.cur), !.left = @ - 1]
  /\ UNCHANGED <<fat, dir>>

\* Mutant of write_fails: it tries again.
write_fails_retries ==
  /\ At("link")
  /\ Free = {}
  /\ UNCHANGED vars

\* The chain ends and there is data left: no cluster is free, Err ...
write_fails ==
  /\ At("link")
  /\ Free = {}
  /\ op' = Idle
  /\ UNCHANGED <<fat, dir>>

\* Mutant of write_link: the new cluster starts a chain of its own.
write_link_unchained ==
  /\ At("link")
  /\ Free # {}
  /\ op' = [op EXCEPT !.step = "eoc", !.new = alloc_cluster]
  /\ UNCHANGED <<fat, dir>>

\* ... or the next one is chained ...
write_link ==
  /\ At("link")
  /\ Free # {}
  /\ set_fat_entry(op.cur, alloc_cluster)
  /\ op' = [op EXCEPT !.step = "eoc", !.new = alloc_cluster]
  /\ UNCHANGED dir

\* ... and marked.
write_eoc ==
  /\ At("eoc")
  /\ set_fat_entry(op.new, EOC)
  /\ op' = [op EXCEPT !.step = "data", !.cur = op.new, !.new = 0]
  /\ UNCHANGED dir

\* The cluster delete_file_entry reads from an entry: one byte of cluster_high and
\* one of cluster_low.
entry_cluster(e) == ((e.cl \div (BYTE * BYTE)) % BYTE) * (BYTE * BYTE) + (e.cl % BYTE)

\* rm: the first entry of that name.
delete(name) ==
  /\ At("idle")
  /\ Matches(name) # {}
  /\ LET s == First(Matches(name))
         cl == entry_cluster(Slot(s))
     IN  op' = [Idle EXCEPT !.step = IF cl >= 2 THEN "free" ELSE "unlink",
                            !.name = name, !.file = Slot(s).cl, !.cur = cl, !.slot = s]
  /\ UNCHANGED <<fat, dir>>

\* free_cluster_chain: one cluster of the chain is freed.
delete_free ==
  /\ At("free")
  /\ set_fat_entry(op.cur, 0)
  /\ op' = IF next_cluster(op.cur) \in Clusters
             THEN [op EXCEPT !.cur = next_cluster(op.cur)]
             ELSE [op EXCEPT !.step = "unlink"]
  /\ UNCHANGED dir

\* Mutant of delete_unlink: the entry is not written back.
delete_unlink_forgotten ==
  /\ At("unlink")
  /\ op' = Idle
  /\ UNCHANGED <<fat, dir>>

\* The entry is marked deleted.
delete_unlink ==
  /\ At("unlink")
  /\ SetSlot(op.slot, Deleted)
  /\ op' = Idle
  /\ UNCHANGED fat

\* Power fails, or the disk reports an error and the command gives up.
power_fails ==
  /\ op.step \in FailureSteps
  /\ op' = Idle
  /\ UNCHANGED <<fat, dir>>

Step ==
  \/ create_mark \/ create_entry \/ create_fails
  \/ create_extend \/ create_dir_eoc \/ create_dir_zero \/ create_dir_entry
  \/ write_data \/ write_fails \/ write_link \/ write_eoc
  \/ delete_free \/ delete_unlink

Command(name) ==
  \/ \E n \in Lengths \union {0} : create(name, n)
  \/ \E n \in Lengths : write(name, n)
  \/ delete(name)
  \/ command_refused(name)

Next == Step \/ (\E name \in Names : Command(name)) \/ power_fails

\* The shell finishes the command it is in.
Spec == Init /\ [][Next]_vars /\ WF_vars(Step)

-----------------------------------------------------------------------------
\* Clusters on the chain from c.
Chain(c) == {Walk(c)[n] : n \in 1..TOTAL} \ {0}

\* The steps before which a power failure leaves the volume consistent: not after
\* a cluster is chained and before it is marked (eoc, dirEoc) or cleared (dirZero),
\* nor after rm has freed a cluster and before it clears the entry.
SafeSteps == {"mark", "slot", "dirEntry", "data", "link"}

\* Slots with an entry, but not the one rm is about to clear.
Entries == {s \in SlotNos \ {op.slot} : Slot(s) \notin {Unused, Deleted}}

\* No two files share a cluster, and no file shares one with the directory, between
\* any two disk writes and after a power failure before one of the FailureSteps.
NoCrossLink ==
  \A s \in Entries :
    /\ Chain(Slot(s).cl) \intersect Chain(ROOT) = {}
    /\ \A t \in Entries \ {s} : Chain(Slot(s).cl) \intersect Chain(Slot(t).cl) = {}

\* The clusters of a file and of the directory are not free to be given to another
\* one, save the one that was just chained and is about to be marked.
ChainsAllocated ==
  \A c \in Chain(ROOT) \union UNION {Chain(Slot(s).cl) : s \in Entries} :
    fat[c] # 0 \/ (op.step \in {"eoc", "dirEoc"} /\ c = op.new)

\* Used clusters nobody refers to.
Lost ==
  {c \in Clusters : fat[c] # 0} \
    (Chain(ROOT) \union (UNION {Chain(Slot(s).cl) : s \in Entries})
       \union (IF op.step = "idle" THEN {} ELSE Chain(op.file))
       \union (IF op.step = "free" THEN Chain(op.cur) ELSE {}))

\* Clusters are lost only when power fails or when create_file_entry finds the
\* directory full and the volume too; never by a command that succeeds.
LostOnlyByFailure ==
  [][Lost' \subseteq Lost \/ (op' = Idle /\ op.step \in FailureSteps) \/ create_fails]_vars

\* Every command ends: no chain it follows has come to run in a circle.
CommandsEnd == op.step # "idle" ~> op.step = "idle"
=============================================================================
