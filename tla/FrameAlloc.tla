----------------------------- MODULE FrameAlloc -----------------------------
(***************************************************************************)
(* The physical frame allocator of frame.rs and the way kernel_main brings *)
(* it up on x86_64: a 1 GiB default, the first page tables, then the       *)
(* Multiboot memory map (e820.rs) and, if it shows more RAM, reinit.       *)
(* Every operation holds FRAME_LOCK from its first access to its last and *)
(* is one step here.                                                       *)
(*                                                                         *)
(*   TOTAL_RAM, ACTUAL_WORDS, ACTUAL_FRAME_COUNT, NEXT_FREE  the statics   *)
(*   BITMAP     the frames whose bit is set                                *)
(*   stage      "reset", "paging" (paging::init and map_page take frames), *)
(*              "parsing" (detect_memory), "ready"                         *)
(*   entries    the memory-map entries still to be parsed                  *)
(*   total_usable   detect_memory's local                                  *)
(*   reserved   history: frames of the map's reserved entries              *)
(*   tables     history: frames given out while stage is "paging"          *)
(*   held       history: frames given out later and not yet given back     *)
(*   answer     what the last call of allocate_frame returned              *)
(*                                                                         *)
(* RAM_BASE is 0.  Addresses are bytes; FRAME_SIZE and the word size BITS  *)
(* are 4096 and 64 in the code.                                            *)
(***************************************************************************)
EXTENDS Integers, Sequences, FiniteSets

CONSTANTS
  FRAME_SIZE, BITS, MAX_WORDS,
  DEFAULT_RAM,    \* 1 << 30
  LOW_END,        \* 0x100000
  KERNEL_END,     \* address of the linker symbol _end
  Maps,           \* the memory maps the boot loader may pass on
  MAX_TABLES      \* bound: frames taken before the map is parsed

ASSUME FrameAssumption ==
  /\ FRAME_SIZE \in Nat \ {0} /\ BITS \in Nat \ {0} /\ MAX_WORDS \in Nat \ {0}
  /\ DEFAULT_RAM \in 0..(MAX_WORDS * BITS * FRAME_SIZE) /\ LOW_END \in Nat /\ KERNEL_END \in Nat
  /\ MAX_TABLES \in Nat
  /\ Maps \subseteq Seq([base : Nat, len : Nat, typ : Nat])

VARIABLES
  TOTAL_RAM, ACTUAL_WORDS, ACTUAL_FRAME_COUNT, NEXT_FREE, BITMAP,
  stage, entries, total_usable, reserved, tables, held, answer

counts == <<TOTAL_RAM, ACTUAL_WORDS, ACTUAL_FRAME_COUNT>>
boot == <<stage, entries, total_usable, reserved>>
vars == <<counts, NEXT_FREE, BITMAP, boot, tables, held, answer>>

Least(a, b) == IF a <= b THEN a ELSE b

MAX_FRAME_COUNT == MAX_WORDS * BITS

Frames == 0..(MAX_FRAME_COUNT - 1)

frame_of(addr) == addr \div FRAME_SIZE

\* The words needed for n frames.
WordsFor(n) == (n + BITS - 1) \div BITS

\* The frames mark_used sets for [start, end), under a given RAM size and count.
mark_used(ram, count, start, end) ==
  IF end <= start \/ start >= ram THEN {}
  ELSE frame_of(start) .. Least(frame_of(end - 1), count - 1)

\* All frames [start, end) touches, whatever the allocator manages.
Touched(start, end) ==
  IF end <= start THEN {} ELSE frame_of(start) .. frame_of(end - 1)

-----------------------------------------------------------------------------
Init ==
  /\ TOTAL_RAM = 0 /\ ACTUAL_WORDS = 0 /\ ACTUAL_FRAME_COUNT = 0
  /\ NEXT_FREE = 0
  /\ BITMAP = {}
  /\ stage = "reset"
  /\ entries \in Maps
  /\ total_usable = 0
  /\ reserved = {} /\ tables = {} /\ held = {}
  /\ answer = "none yet"

\* set_total_ram, as the next-state of the three counts.
set_total_ram(size) ==
  LET capped == Least(size, MAX_FRAME_COUNT * FRAME_SIZE)
  IN  /\ TOTAL_RAM' = capped
      /\ ACTUAL_FRAME_COUNT' = capped \div FRAME_SIZE
      /\ ACTUAL_WORDS' = WordsFor(capped \div FRAME_SIZE)

\* kernel_main's phase 1: set_total_ram(1 << 30), then frame::init.
init ==
  /\ stage = "reset"
  /\ stage' = "paging"
  /\ set_total_ram(DEFAULT_RAM)
  /\ BITMAP' = mark_used(TOTAL_RAM', ACTUAL_FRAME_COUNT', 0, KERNEL_END)
                 \union mark_used(TOTAL_RAM', ACTUAL_FRAME_COUNT', 0, LOW_END)
  /\ NEXT_FREE' = frame_of(KERNEL_END) \div BITS
  /\ UNCHANGED <<entries, total_usable, reserved, tables, held, answer>>

\* detect_memory begins.  A boot without Multiboot magic, info or map leaves it
\* at once with the default, which is what an empty map leads to as well.
detect_memory ==
  /\ stage = "paging"
  /\ stage' = "parsing"
  /\ UNCHANGED <<counts, NEXT_FREE, BITMAP, entries, total_usable, reserved,
                 tables, held, answer>>

\* One round of detect_memory's loop.
detect_entry ==
  /\ stage = "parsing"
  /\ entries # <<>>
  /\ LET e == Head(entries)
         end == e.base + e.len
     IN  /\ total_usable' = IF e.typ = 1 /\ end > total_usable THEN end ELSE total_usable
         /\ BITMAP' = IF e.typ \in {2, 3, 4} /\ e.len > 0 /\ e.base < total_usable
                        THEN BITMAP \union
                             mark_used(TOTAL_RAM, ACTUAL_FRAME_COUNT, e.base, end)
                        ELSE BITMAP
         /\ reserved' = IF e.typ = 1 THEN reserved
                          ELSE reserved \union Touched(e.base, end)
  /\ entries' = Tail(entries)
  /\ UNCHANGED <<counts, NEXT_FREE, stage, tables, held, answer>>

\* Mutant of reinit: one word too many.
reinit_one_more(size) ==
  LET words == Least(WordsFor(size \div FRAME_SIZE) + 1, MAX_WORDS)
  IN  /\ TOTAL_RAM' = Least(size, MAX_FRAME_COUNT * FRAME_SIZE)
      /\ ACTUAL_WORDS' = words
      /\ ACTUAL_FRAME_COUNT' = words * BITS

\* reinit, as the next-state of the three counts; BITMAP and NEXT_FREE stay.
reinit(size) ==
  LET capped == Least(size, MAX_FRAME_COUNT * FRAME_SIZE)
      words == Least(WordsFor(capped \div FRAME_SIZE), MAX_WORDS)
  IN  /\ TOTAL_RAM' = capped
      /\ ACTUAL_WORDS' = words
      /\ ACTUAL_FRAME_COUNT' = words * BITS

\* Mutant of detect_done: the bitmap is cleared again for the new size.
detect_done_wipes ==
  /\ stage = "parsing"
  /\ entries = <<>>
  /\ stage' = "ready"
  /\ LET real_ram == IF total_usable = 0 THEN DEFAULT_RAM ELSE total_usable
     IN  IF real_ram > DEFAULT_RAM
           THEN reinit(real_ram)
                /\ BITMAP' = mark_used(DEFAULT_RAM, ACTUAL_FRAME_COUNT, 0, KERNEL_END)
           ELSE UNCHANGED <<counts, BITMAP>>
  /\ UNCHANGED <<NEXT_FREE, entries, total_usable, reserved, tables, held, answer>>

\* detect_memory returns, and kernel_main calls reinit if there is more RAM.
detect_done ==
  /\ stage = "parsing"
  /\ entries = <<>>
  /\ stage' = "ready"
  /\ LET real_ram == IF total_usable = 0 THEN DEFAULT_RAM ELSE total_usable
     IN  IF real_ram > DEFAULT_RAM THEN reinit(real_ram) ELSE UNCHANGED counts
  /\ UNCHANGED <<NEXT_FREE, BITMAP, entries, total_usable, reserved,
                 tables, held, answer>>

\* When allocate_frame's two loops get to word w.
WordPos(w) ==
  LET start == Least(NEXT_FREE, ACTUAL_WORDS)
  IN  IF w >= start THEN w - start ELSE w + ACTUAL_WORDS - start

\* Mutant of Scanned: the second loop is missing.
Scanned_no_wrap == Least(NEXT_FREE, ACTUAL_WORDS)..(ACTUAL_WORDS - 1)

\* The words the two loops look at.
Scanned ==
  LET start == Least(NEXT_FREE, ACTUAL_WORDS)
  IN  start..(ACTUAL_WORDS - 1) \union 0..(start - 1)

Candidates ==
  {f \in 0..(ACTUAL_FRAME_COUNT - 1) :
     f \notin BITMAP /\ f \div BITS \in Scanned}

\* The frame the loops settle on: the lowest clear bit of the first word, in
\* scan order, that has one in range.
Found(f) ==
  /\ f \in Candidates
  /\ \A g \in Candidates :
       \/ WordPos(f \div BITS) < WordPos(g \div BITS)
       \/ f \div BITS = g \div BITS /\ f <= g

\* allocate_frame returns Some(f).
allocate_frame(f) ==
  /\ stage \in {"paging", "ready"}
  /\ stage = "paging" => Cardinality(tables) < MAX_TABLES
  /\ Found(f)
  /\ BITMAP' = BITMAP \union {f}
  /\ NEXT_FREE' = f \div BITS
  /\ tables' = IF stage = "paging" THEN tables \union {f} ELSE tables
  /\ held' = IF stage = "ready" THEN held \union {f} ELSE held
  /\ answer' = "Some"
  /\ UNCHANGED <<counts, boot>>

\* allocate_frame returns None (while the tables are built this halts).
allocate_none ==
  /\ stage = "ready"
  /\ Candidates = {}
  /\ answer' = "None"
  /\ UNCHANGED <<counts, NEXT_FREE, BITMAP, boot, tables, held>>

\* deallocate_frame, by the owner of frame f.
deallocate_frame(f) ==
  /\ f \in held
  /\ BITMAP' = IF f >= ACTUAL_FRAME_COUNT THEN BITMAP ELSE BITMAP \ {f}
  /\ held' = held \ {f}
  /\ answer' = "freed"
  /\ UNCHANGED <<counts, NEXT_FREE, boot, tables>>

Next ==
  \/ init
  \/ detect_memory
  \/ detect_entry
  \/ detect_done
  \/ \E f \in Frames : allocate_frame(f)
  \/ allocate_none
  \/ \E f \in Frames : deallocate_frame(f)

Spec == Init /\ [][Next]_vars

-----------------------------------------------------------------------------
KernelImage ==
  mark_used(DEFAULT_RAM, DEFAULT_RAM \div FRAME_SIZE, 0, KERNEL_END)

\* Every frame has at most one owner: a frame in somebody's hands, or part of the
\* kernel image, stays marked across frees, reinit and the parsing of the map, so
\* allocate_frame does not hand it out again ("prevents double-allocation",
\* frame.rs:42; "does NOT wipe existing allocations", frame.rs:155).
FramesOwnedOnce ==
  /\ held \union tables \subseteq BITMAP
  /\ held \intersect tables = {}
  /\ stage # "reset" => KernelImage \subseteq BITMAP
  /\ KernelImage \intersect (held \union tables) = {}

\* The scan hint never hides a free frame: allocate_frame returns None only when
\* every managed frame is in use.
NoneOnlyWhenFull ==
  [][answer' = "None" => 0..(ACTUAL_FRAME_COUNT - 1) \subseteq BITMAP]_vars

\* Frames given out are RAM: they lie inside the range that was detected ("only the detected
\* range is active", frame.rs:7-8) and outside the reserved regions ("mark as used so frames
\* aren't allocated here", e820.rs:89).
OnlyDetectedRam ==
  stage = "ready" =>
    /\ reserved \intersect (held \union tables) = {}
    /\ total_usable > 0 => \A f \in held : (f + 1) * FRAME_SIZE <= total_usable

-----------------------------------------------------------------------------
\* The memory maps for which OnlyDetectedRam can be had from this code.
DefaultCount == DEFAULT_RAM \div FRAME_SIZE

\* The frames below an address, as init marks them.
MarkedBelow(end) ==
  IF end = 0 \/ DEFAULT_RAM = 0 THEN 0 ELSE Least(frame_of(end - 1), DefaultCount - 1) + 1

\* The first frame that init leaves free.
BootMark ==
  IF MarkedBelow(KERNEL_END) <= MarkedBelow(LOW_END) THEN MarkedBelow(LOW_END)
  ELSE MarkedBelow(KERNEL_END)

\* Where the first page tables go.
BootTables == BootMark..(BootMark + MAX_TABLES - 1)

End(e) == e.base + e.len

\* A frame above the default and above all RAM of map m.
BeyondRam(m, f) ==
  /\ f * FRAME_SIZE >= DEFAULT_RAM
  /\ \A i \in 1..Len(m) : m[i].typ = 1 => f * FRAME_SIZE >= End(m[i])

\* RAM, if the map lists any, ends in whole bitmap words (or past the bitmap), not below the
\* default.  A reserved frame is below what init marks, or beyond the RAM, or it is of a
\* known type, listed after the RAM around it, below the default, and clear of the first
\* page tables.
Orderly(m) ==
  /\ \A i \in 1..Len(m) : m[i].typ = 1 /\ End(m[i]) > 0 =>
       \E j \in 1..Len(m) :
         /\ m[j].typ = 1 /\ End(m[j]) >= End(m[i]) /\ End(m[j]) >= DEFAULT_RAM
         /\ \/ End(m[j]) % (BITS * FRAME_SIZE) = 0
            \/ End(m[j]) >= MAX_FRAME_COUNT * FRAME_SIZE
  /\ \A i \in 1..Len(m) : m[i].typ # 1 =>
       \A f \in Touched(m[i].base, End(m[i])) :
         \/ f < BootMark
         \/ BeyondRam(m, f)
         \/ /\ m[i].typ \in {2, 3, 4}
            /\ \E j \in 1..(i - 1) : m[j].typ = 1 /\ m[i].base < End(m[j])
            /\ f < DefaultCount /\ f \notin BootTables
=============================================================================
