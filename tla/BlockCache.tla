----------------------------- MODULE BlockCache -----------------------------
(***************************************************************************)
(* The sector cache (fs/bcache.rs) over the disk: direct mapped, write     *)
(* through.  No function ever sets `dirty`, so the write-back branch and   *)
(* `flush` do nothing and the flag is left out; the counters too.          *)
(*                                                                         *)
(*   disk[s]   what sector s holds                                         *)
(*   cache[k]  the line of slot k: the sector it caches and its data       *)
(***************************************************************************)
EXTENDS Naturals, Sequences, IdeDisk

CONSTANTS
  SECTORS,     \* sectors of the disk
  CACHE_SIZE   \* slots of the cache

ASSUME CacheAssumption == SECTORS \in Nat \ {0} /\ CACHE_SIZE \in Nat \ {0}

VARIABLES disk, cache

Sectors == 0..(SECTORS - 1)

\* CacheEntry::empty: u32::MAX is no sector of the disk.
NoLine == [sector |-> SECTORS, data |-> "none"]
EmptyCache == [k \in 0..(CACHE_SIZE - 1) |-> NoLine]

cache_slot(s) == s % CACHE_SIZE

cache_lookup(c, s) == c[cache_slot(s)].sector = s

Fill(c, s, v) == [c EXCEPT ![cache_slot(s)] = [sector |-> s, data |-> v]]

\* What cached_read puts in the buffer, and the cache after it.
cached_read(c, s) == IF cache_lookup(c, s) THEN c[cache_slot(s)].data ELSE disk[s]
CacheAfterRead(c, s) == Fill(c, s, cached_read(c, s))

\* A hit needs no disk; a miss returns what the drive says.
ReadResults(c, s) == IF cache_lookup(c, s) THEN {TRUE} ELSE ReadOutcomes

\* cached_read_sectors, as a sequence of sectors read in order.
cached_read_sectors(c, ss) ==
  LET after[k \in 0..Len(ss)] == IF k = 0 THEN c ELSE CacheAfterRead(after[k - 1], ss[k])
  IN  after[Len(ss)]

\* Mutant of cached_write: the line is replaced before the drive has answered.
cached_write_cache_first(s, v, o) ==
  /\ disk' = IF o.stored THEN [disk EXCEPT ![s] = v] ELSE disk
  /\ cache' = Fill(cache, s, v)

\* cached_write with the outcome o of write_sector: on an error the line stays
\* as it was, whatever the drive did.
cached_write(s, v, o) ==
  /\ disk' = IF o.stored THEN [disk EXCEPT ![s] = v] ELSE disk
  /\ cache' = IF o.ok THEN Fill(cache, s, v) ELSE cache

\* write_sector called past the cache.
direct_write(s, v, o) ==
  /\ disk' = IF o.stored THEN [disk EXCEPT ![s] = v] ELSE disk
  /\ UNCHANGED cache

invalidate == cache' = EmptyCache /\ UNCHANGED disk
=============================================================================
