-------------------------- MODULE FrameAllocProofs --------------------------
(***************************************************************************)
(* The frame allocator gives no frame twice and hides none, for every      *)
(* memory map, orderly or not, every word size and every bitmap size.      *)
(***************************************************************************)
EXTENDS FrameAlloc, FiniteSetTheorems, SequenceTheorems, TLAPS

\* What makes FramesOwnedOnce inductive: nothing has been given out when init rebuilds the
\* bitmap.
OwnedInv ==
  /\ FramesOwnedOnce
  /\ stage = "reset" => held = {} /\ tables = {}

MapEntry == [base : Nat, len : Nat, typ : Nat]

\* What the scan needs: the words cover the frames, and None is never a stale answer.
ScanInv ==
  /\ ACTUAL_WORDS \in Nat
  /\ ACTUAL_FRAME_COUNT \in Nat
  /\ ACTUAL_FRAME_COUNT <= ACTUAL_WORDS * BITS
  /\ NEXT_FREE \in Nat
  /\ total_usable \in Nat
  /\ entries \in Seq(MapEntry)
  /\ stage # "ready" => answer # "None"

\* Division by FRAME_SIZE and by BITS.
LEMMA DivFacts ==
  ASSUME NEW a \in Nat, NEW b \in Nat \ {0}
  PROVE  /\ a \div b \in Nat
         /\ b * (a \div b) <= a
         /\ a < b * (a \div b) + b
OBVIOUS

\* WordsFor rounds up.
LEMMA WordsCover ==
  ASSUME NEW n \in Nat
  PROVE  WordsFor(n) \in Nat /\ n <= WordsFor(n) * BITS
<1> DEFINE a == n + BITS - 1
<1>1. a \in Nat /\ BITS \in Nat \ {0}
  BY FrameAssumption
<1>2. a \div BITS \in Nat /\ a < BITS * (a \div BITS) + BITS
  BY <1>1, DivFacts
<1>3. WordsFor(n) = a \div BITS
  BY DEF WordsFor
<1> HIDE DEF a
<1>4. a = n + BITS - 1
  BY DEF a
<1>5. PICK q \in Nat : q = a \div BITS
  BY <1>2
<1>6. n <= BITS * q
  BY <1>1, <1>2, <1>4, <1>5
<1> QED
  BY <1>1, <1>3, <1>5, <1>6

\* A frame below the count lies in one of the words.
LEMMA WordInRange ==
  ASSUME NEW f \in Nat, NEW w \in Nat, f < w * BITS
  PROVE  f \div BITS \in Nat /\ f \div BITS < w
<1>1. BITS \in Nat \ {0}
  BY FrameAssumption
<1>2. f \div BITS \in Nat /\ BITS * (f \div BITS) <= f
  BY <1>1, DivFacts
<1>3. PICK q \in Nat : q = f \div BITS
  BY <1>2
<1>4. BITS * q < w * BITS
  BY <1>1, <1>2, <1>3
<1>5. q < w
  BY <1>1, <1>4
<1> QED
  BY <1>3, <1>5

\* allocate_frame's two loops look at every word.
LEMMA ScanIsComplete ==
  ASSUME ScanInv, Candidates = {}
  PROVE  0..(ACTUAL_FRAME_COUNT - 1) \subseteq BITMAP
<1> SUFFICES ASSUME NEW f \in 0..(ACTUAL_FRAME_COUNT - 1), f \notin BITMAP PROVE FALSE
  OBVIOUS
<1>1. f \in Nat /\ f < ACTUAL_WORDS * BITS
  BY FrameAssumption DEF ScanInv
<1>2. f \div BITS \in Nat /\ f \div BITS < ACTUAL_WORDS
  BY <1>1, WordInRange DEF ScanInv
<1>3. PICK w \in Nat : w = f \div BITS
  BY <1>2
<1>4. w \in Scanned
  BY <1>2, <1>3 DEF Scanned, Least, ScanInv
<1> QED
  BY <1>3, <1>4 DEF Candidates

\* A size capped to the bitmap, in frames.
LEMMA CappedFrames ==
  ASSUME NEW size \in Nat
  PROVE  /\ Least(size, MAX_FRAME_COUNT * FRAME_SIZE) \in Nat
         /\ Least(size, MAX_FRAME_COUNT * FRAME_SIZE) \div FRAME_SIZE \in Nat
<1>1. MAX_FRAME_COUNT * FRAME_SIZE \in Nat /\ FRAME_SIZE \in Nat \ {0}
  BY FrameAssumption DEF MAX_FRAME_COUNT
<1>2. Least(size, MAX_FRAME_COUNT * FRAME_SIZE) \in Nat
  BY <1>1 DEF Least
<1> QED
  BY <1>1, <1>2, DivFacts

\* The default lies inside the bitmap, so init marks the kernel image in full.
LEMMA KernelMarked ==
  ASSUME init
  PROVE  KernelImage \subseteq BITMAP'
<1>1. TOTAL_RAM' = DEFAULT_RAM /\ ACTUAL_FRAME_COUNT' = DEFAULT_RAM \div FRAME_SIZE
  BY FrameAssumption DEF init, set_total_ram, Least, MAX_FRAME_COUNT
<1> QED
  BY <1>1 DEF init, KernelImage

\* At reset nobody owns a frame.
LEMMA OwnedInit == Init => OwnedInv
BY DEF Init, OwnedInv, FramesOwnedOnce

\* Boot steps only add marks; allocate_frame marks what it gives, deallocate_frame clears
\* the frame of its owner and no other.
LEMMA OwnedStep == OwnedInv /\ [Next]_vars => OwnedInv'
<1> SUFFICES ASSUME OwnedInv, [Next]_vars PROVE OwnedInv'
  OBVIOUS
<1> USE DEF OwnedInv, FramesOwnedOnce
<1>1. CASE init
  <2>1. held = {} /\ tables = {} /\ held' = {} /\ tables' = {} /\ stage' = "paging"
    BY <1>1 DEF init
  <2>2. KernelImage' = KernelImage
    BY DEF KernelImage
  <2> QED
    BY <1>1, <2>1, <2>2, KernelMarked
<1>2. CASE detect_memory
  BY <1>2 DEF detect_memory, KernelImage
<1>3. CASE detect_entry
  <2>1. BITMAP \subseteq BITMAP'
    BY <1>3 DEF detect_entry
  <2>2. UNCHANGED <<held, tables, stage>> /\ KernelImage' = KernelImage
    BY <1>3 DEF detect_entry, KernelImage
  <2> QED
    BY <2>1, <2>2
<1>4. CASE detect_done
  BY <1>4 DEF detect_done, KernelImage
<1>5. ASSUME NEW f \in Frames, allocate_frame(f) PROVE OwnedInv'
  <2>1. f \notin BITMAP /\ stage # "reset" /\ stage' = stage
    BY <1>5 DEF allocate_frame, Found, Candidates, boot
  <2>2. BITMAP' = BITMAP \union {f} /\ KernelImage' = KernelImage
    BY <1>5 DEF allocate_frame, KernelImage
  <2>3. \/ tables' = tables \union {f} /\ held' = held
        \/ tables' = tables /\ held' = held \union {f}
        \/ tables' = tables /\ held' = held
    BY <1>5 DEF allocate_frame
  <2>4. held' \intersect tables' = {}
    BY <2>1, <2>3
  <2> QED
    BY <2>1, <2>2, <2>3, <2>4
<1>6. CASE allocate_none
  BY <1>6 DEF allocate_none, boot, KernelImage
<1>7. ASSUME NEW f \in Frames, deallocate_frame(f) PROVE OwnedInv'
  <2>1. f \in held /\ held' = held \ {f} /\ BITMAP \ {f} \subseteq BITMAP'
    BY <1>7 DEF deallocate_frame
  <2>2. UNCHANGED <<tables, stage>> /\ KernelImage' = KernelImage
    BY <1>7 DEF deallocate_frame, boot, KernelImage
  <2> QED
    BY <2>1, <2>2
<1>8. CASE UNCHANGED vars
  BY <1>8 DEF vars, boot, KernelImage
<1> QED
  BY <1>1, <1>2, <1>3, <1>4, <1>5, <1>6, <1>7, <1>8 DEF Next

\* The next entry of the memory map and the rest of it.
LEMMA RestOfMap ==
  ASSUME NEW S, NEW s \in Seq(S), s # <<>>
  PROVE  Head(s) \in S /\ Tail(s) \in Seq(S)
OBVIOUS

\* At reset there are no words and no frames.
LEMMA ScanInit == Init => ScanInv
<1> SUFFICES ASSUME Init PROVE ScanInv
  OBVIOUS
<1>1. entries \in Seq(MapEntry)
  <2>1. Maps \subseteq Seq(MapEntry)
    BY FrameAssumption DEF MapEntry
  <2> QED
    BY <2>1 DEF Init
<1>2. ACTUAL_FRAME_COUNT <= ACTUAL_WORDS * BITS
  <2>1. BITS \in Nat /\ ACTUAL_WORDS = 0 /\ ACTUAL_FRAME_COUNT = 0
    BY FrameAssumption DEF Init
  <2> QED
    BY <2>1
<1>3. ACTUAL_WORDS \in Nat /\ ACTUAL_FRAME_COUNT \in Nat /\ NEXT_FREE \in Nat
  BY DEF Init
<1>4. total_usable \in Nat
  BY DEF Init
<1>5. answer # "None"
  BY DEF Init
<1> QED
  BY <1>1, <1>2, <1>3, <1>4, <1>5 DEF ScanInv

\* set_total_ram and reinit keep the words in step with the frames.
LEMMA ScanStep == ScanInv /\ [Next]_vars => ScanInv'
<1> SUFFICES ASSUME ScanInv, [Next]_vars PROVE ScanInv'
  OBVIOUS
<1> USE DEF ScanInv
<1>1. CASE init
  <2> DEFINE n == Least(DEFAULT_RAM, MAX_FRAME_COUNT * FRAME_SIZE) \div FRAME_SIZE
  <2>1. ACTUAL_FRAME_COUNT' = n /\ ACTUAL_WORDS' = WordsFor(n)
    BY <1>1 DEF init, set_total_ram
  <2>2. n \in Nat
    <3>1. DEFAULT_RAM \in Nat
      BY FrameAssumption
    <3> QED
      BY <3>1, CappedFrames
  <2>3. ACTUAL_WORDS' \in Nat /\ ACTUAL_FRAME_COUNT' <= ACTUAL_WORDS' * BITS
    BY <2>1, <2>2, WordsCover
  <2>4. NEXT_FREE' \in Nat
    <3>1. frame_of(KERNEL_END) \in Nat
      BY FrameAssumption, DivFacts DEF frame_of
    <3> QED
      BY <1>1, <3>1, FrameAssumption, DivFacts DEF init
  <2> HIDE DEF n
  <2> QED
    BY <1>1, <2>1, <2>2, <2>3, <2>4 DEF init
<1>2. CASE detect_memory
  BY <1>2 DEF detect_memory, counts
<1>3. CASE detect_entry
  <2>1. Head(entries) \in MapEntry /\ entries' \in Seq(MapEntry)
    BY <1>3, RestOfMap DEF detect_entry
  <2>2. Head(entries).base \in Nat /\ Head(entries).len \in Nat
    BY <2>1 DEF MapEntry
  <2>3. total_usable' \in Nat
    BY <1>3, <2>2 DEF detect_entry
  <2> QED
    BY <1>3, <2>1, <2>3 DEF detect_entry, counts
<1>4. CASE detect_done
  <2>1. CASE UNCHANGED counts
    BY <1>4, <2>1 DEF detect_done, counts
  <2>2. ASSUME NEW size \in Nat, reinit(size) PROVE ScanInv'
    <3> DEFINE n == Least(size, MAX_FRAME_COUNT * FRAME_SIZE) \div FRAME_SIZE
    <3> DEFINE w == Least(WordsFor(n), MAX_WORDS)
    <3>1. ACTUAL_WORDS' = w /\ ACTUAL_FRAME_COUNT' = w * BITS
      BY <2>2 DEF reinit
    <3>2. w \in Nat
      BY FrameAssumption, CappedFrames, WordsCover DEF Least
    <3> HIDE DEF w
    <3>3. w * BITS \in Nat
      BY <3>2, FrameAssumption
    <3> QED
      BY <1>4, <3>1, <3>2, <3>3 DEF detect_done
  <2> QED
    BY <1>4, <2>1, <2>2, FrameAssumption DEF detect_done
<1>5. ASSUME NEW f \in Frames, allocate_frame(f) PROVE ScanInv'
  <2>1. NEXT_FREE' \in Nat
    <3>1. f \in Nat
      BY DEF Frames
    <3> QED
      BY <1>5, <3>1, FrameAssumption, DivFacts DEF allocate_frame
  <2> QED
    BY <1>5, <2>1 DEF allocate_frame, counts, boot
<1>6. CASE allocate_none
  BY <1>6 DEF allocate_none, counts, boot
<1>7. ASSUME NEW f \in Frames, deallocate_frame(f) PROVE ScanInv'
  BY <1>7 DEF deallocate_frame, counts, boot
<1>8. CASE UNCHANGED vars
  BY <1>8 DEF vars, counts, boot
<1> QED
  BY <1>1, <1>2, <1>3, <1>4, <1>5, <1>6, <1>7, <1>8 DEF Next

\* A frame that allocate_frame has handed out, or of the kernel image, stays marked until its
\* owner gives it back, across reinit and the parsing of the map.
THEOREM NoFrameTwice ==
  Spec => []FramesOwnedOnce
<1>1. OwnedInv => FramesOwnedOnce
  BY DEF OwnedInv
<1> QED
  BY <1>1, OwnedInit, OwnedStep, PTL DEF Spec

\* allocate_frame returns None only when every managed frame is in use: its two loops from
\* NEXT_FREE leave no word out, and the words leave no frame out.
THEOREM NoFrameHidden ==
  Spec => NoneOnlyWhenFull
<1> DEFINE Full == answer' = "None" => 0..(ACTUAL_FRAME_COUNT - 1) \subseteq BITMAP
<1>1. ScanInv /\ [Next]_vars => [Full]_vars
  <2> SUFFICES ASSUME ScanInv, Next, answer' = "None"
               PROVE  0..(ACTUAL_FRAME_COUNT - 1) \subseteq BITMAP
    OBVIOUS
  <2>1. allocate_none
    BY DEF Next, ScanInv, init, detect_memory, detect_entry, detect_done,
           allocate_frame, deallocate_frame
  <2> QED
    BY <2>1, ScanIsComplete DEF allocate_none
<1> QED
  BY <1>1, ScanInit, ScanStep, PTL DEF Spec, NoneOnlyWhenFull

-----------------------------------------------------------------------------
\* A remainder of zero: the quotient is exact.
LEMMA ExactDiv ==
  ASSUME NEW a \in Nat, NEW b \in Nat \ {0}, a % b = 0
  PROVE  a = b * (a \div b) /\ a \div b \in Nat
OBVIOUS

\* Rounding a whole number of words up to words gives it back.
LEMMA WholeWords ==
  ASSUME NEW q \in Nat
  PROVE  WordsFor(q * BITS) = q
<1>1. BITS \in Nat \ {0} /\ q * BITS \in Nat
  BY FrameAssumption
<1> DEFINE a == q * BITS + BITS - 1
<1>2. a \in Nat /\ a = BITS * q + (BITS - 1) /\ WordsFor(q * BITS) = a \div BITS
  BY <1>1 DEF WordsFor
<1>3. a \div BITS \in Nat /\ BITS * (a \div BITS) <= a /\ a < BITS * (a \div BITS) + BITS
  BY <1>1, <1>2, DivFacts
<1> HIDE DEF a
<1>4. PICK p \in Nat : p = a \div BITS
  BY <1>3
<1>5. p <= q
  <2>1. SUFFICES ASSUME p >= q + 1 PROVE FALSE
    BY <1>4
  <2>2. BITS * p >= BITS * (q + 1)
    BY <1>1, <2>1
  <2> QED
    BY <1>1, <1>2, <1>3, <1>4, <2>2
<1>6. q <= p
  <2>1. SUFFICES ASSUME q >= p + 1 PROVE FALSE
    BY <1>4
  <2>2. BITS * q >= BITS * (p + 1)
    BY <1>1, <2>1
  <2> QED
    BY <1>1, <1>2, <1>3, <1>4, <2>2
<1> QED
  BY <1>2, <1>4, <1>5, <1>6

\* reinit manages no frame past the RAM, when that ends in whole words or past the bitmap.
LEMMA ReinitInRam ==
  ASSUME NEW size \in Nat, reinit(size),
         size % (BITS * FRAME_SIZE) = 0 \/ size >= MAX_FRAME_COUNT * FRAME_SIZE
  PROVE  ACTUAL_FRAME_COUNT' * FRAME_SIZE <= size
<1>1. /\ BITS \in Nat \ {0} /\ FRAME_SIZE \in Nat \ {0} /\ MAX_WORDS \in Nat
      /\ MAX_FRAME_COUNT = MAX_WORDS * BITS /\ MAX_FRAME_COUNT \in Nat
      /\ MAX_FRAME_COUNT * FRAME_SIZE \in Nat /\ BITS * FRAME_SIZE \in Nat \ {0}
  BY FrameAssumption DEF MAX_FRAME_COUNT
<1> DEFINE capped == Least(size, MAX_FRAME_COUNT * FRAME_SIZE)
<1> DEFINE words == Least(WordsFor(capped \div FRAME_SIZE), MAX_WORDS)
<1>2. ACTUAL_FRAME_COUNT' = words * BITS
  BY DEF reinit
<1>3. capped \div FRAME_SIZE \in Nat
  BY CappedFrames
<1>4. WordsFor(capped \div FRAME_SIZE) \in Nat
  BY <1>3, WordsCover
<1>5. words \in Nat /\ words <= MAX_WORDS /\ words <= WordsFor(capped \div FRAME_SIZE)
  BY <1>1, <1>4 DEF Least
<1>6. CASE size >= MAX_FRAME_COUNT * FRAME_SIZE
  <2> HIDE DEF words
  <2>1. words * BITS <= MAX_FRAME_COUNT
    BY <1>1, <1>5
  <2>2. words * BITS \in Nat
    BY <1>1, <1>5
  <2>3. (words * BITS) * FRAME_SIZE <= MAX_FRAME_COUNT * FRAME_SIZE
    BY <1>1, <2>1, <2>2
  <2> QED
    BY <1>1, <1>2, <1>6, <2>2, <2>3
<1>7. CASE size < MAX_FRAME_COUNT * FRAME_SIZE
  <2>1. capped = size
    BY <1>1, <1>7 DEF Least
  <2>2. PICK q \in Nat : size = (BITS * FRAME_SIZE) * q
    <3>1. PICK c \in Nat \ {0} : c = BITS * FRAME_SIZE
      BY <1>1
    <3>2. size % c = 0
      BY <1>1, <1>7, <3>1
    <3>3. size = c * (size \div c) /\ size \div c \in Nat
      BY <3>2, ExactDiv
    <3> QED
      BY <3>1, <3>3
  <2>3. size = FRAME_SIZE * (q * BITS) /\ q * BITS \in Nat
    BY <1>1, <2>2
  <2>4. size \div FRAME_SIZE = q * BITS
    <3> DEFINE n == q * BITS
    <3>1. n \in Nat /\ size = FRAME_SIZE * n
      BY <2>3
    <3> HIDE DEF n
    <3>2. /\ size \div FRAME_SIZE \in Nat /\ FRAME_SIZE * (size \div FRAME_SIZE) <= size
          /\ size < FRAME_SIZE * (size \div FRAME_SIZE) + FRAME_SIZE
      BY <1>1, DivFacts
    <3>3. PICK p \in Nat : p = size \div FRAME_SIZE
      BY <3>2
    <3>4. ~(p >= n + 1)
      <4>1. p >= n + 1 => FRAME_SIZE * p >= FRAME_SIZE * (n + 1)
        BY <1>1, <3>1
      <4> QED
        BY <1>1, <3>1, <3>2, <3>3, <4>1
    <3>5. ~(n >= p + 1)
      <4>1. n >= p + 1 => FRAME_SIZE * n >= FRAME_SIZE * (p + 1)
        BY <1>1, <3>1
      <4> QED
        BY <1>1, <3>1, <3>2, <3>3, <4>1
    <3>6. size \div FRAME_SIZE = n
      BY <3>1, <3>3, <3>4, <3>5
    <3> QED
      BY <3>6 DEF n
  <2>5. WordsFor(capped \div FRAME_SIZE) = q
    BY <2>1, <2>4, WholeWords
  <2> HIDE DEF words
  <2>6. words * BITS <= q * BITS
    BY <1>1, <1>5, <2>5
  <2>7. (words * BITS) * FRAME_SIZE <= (q * BITS) * FRAME_SIZE
    BY <1>1, <1>5, <2>3, <2>6
  <2> QED
    BY <1>1, <1>2, <2>3, <2>7
<1> QED
  BY <1>1, <1>6, <1>7

\* How far detect_memory has come in map m, and what it knows of the reserved frames.
Parsed(m, k) ==
  /\ Len(entries) = Len(m) - k
  /\ \A i \in 1..(Len(m) - k) : entries[i] = m[k + i]
  /\ \A i \in 1..k : m[i].typ = 1 => End(m[i]) <= total_usable
  /\ total_usable = 0 \/ \E i \in 1..k : m[i].typ = 1 /\ total_usable = End(m[i])
  /\ \A f \in reserved : \/ f < BootMark
                         \/ BeyondRam(m, f)
                         \/ f \in BITMAP \ held /\ f \notin BootTables

MapInv == \E m \in Maps : \E k \in 0..Len(m) : Parsed(m, k)

\* After n calls of allocate_frame the bitmap is one run from frame 0, and the next frame the
\* scan finds is the one after it.
BootScan(n) ==
  /\ BITMAP = 0..(BootMark + n - 1)
  /\ tables = BootMark..(BootMark + n - 1)
  /\ BootMark + n >= DefaultCount \/ NEXT_FREE * BITS <= BootMark + n

\* Where the first page tables are, and that init's marks stay.
TableInv ==
  /\ stage \in {"reset", "paging"} => reserved = {} /\ total_usable = 0
  /\ stage \in {"paging", "parsing"} =>
       TOTAL_RAM = DEFAULT_RAM /\ ACTUAL_FRAME_COUNT = DefaultCount
  /\ stage = "paging" => \E n \in 0..MAX_TABLES : BootScan(n)
  /\ stage # "ready" => held = {}
  /\ stage # "reset" => /\ tables \subseteq BootTables \intersect 0..(DefaultCount - 1)
                        /\ 0..(BootMark - 1) \subseteq BITMAP \ held

RamEnd == IF total_usable = 0 THEN DEFAULT_RAM ELSE total_usable

\* After boot only RAM is managed.
RangeInv ==
  stage = "ready" =>
    /\ RamEnd >= DEFAULT_RAM
    /\ ACTUAL_FRAME_COUNT * FRAME_SIZE <= RamEnd
    /\ held \subseteq 0..(ACTUAL_FRAME_COUNT - 1)

MarksStay == stage # "reset" => BITMAP \ held \subseteq BITMAP' \ held'

LEMMA BootFacts ==
  /\ DefaultCount \in Nat /\ BootMark \in Nat /\ BootMark <= DefaultCount
  /\ DefaultCount * FRAME_SIZE <= DEFAULT_RAM
  /\ FRAME_SIZE \in Nat \ {0} /\ BITS \in Nat \ {0} /\ MAX_TABLES \in Nat
  /\ DEFAULT_RAM \in Nat /\ KERNEL_END \in Nat /\ LOW_END \in Nat
<1>1. /\ FRAME_SIZE \in Nat \ {0} /\ BITS \in Nat \ {0} /\ MAX_TABLES \in Nat
      /\ DEFAULT_RAM \in Nat /\ KERNEL_END \in Nat /\ LOW_END \in Nat
  BY FrameAssumption
<1>2. DefaultCount \in Nat /\ FRAME_SIZE * DefaultCount <= DEFAULT_RAM
  BY <1>1, DivFacts DEF DefaultCount
<1>3. ASSUME NEW end \in Nat
      PROVE  MarkedBelow(end) \in Nat /\ MarkedBelow(end) <= DefaultCount
  <2>1. CASE end = 0 \/ DEFAULT_RAM = 0
    BY <1>2, <2>1 DEF MarkedBelow
  <2>2. CASE ~(end = 0 \/ DEFAULT_RAM = 0)
    <3>1. frame_of(end - 1) \in Nat
      BY <1>1, <2>2, DivFacts DEF frame_of
    <3> QED
      BY <1>2, <2>2, <3>1 DEF MarkedBelow, Least
  <2> QED
    BY <2>1, <2>2
<1>4. BootMark \in Nat /\ BootMark <= DefaultCount
  BY <1>1, <1>3 DEF BootMark
<1>5. DefaultCount * FRAME_SIZE = FRAME_SIZE * DefaultCount
  BY <1>1, <1>2
<1> QED
  BY <1>1, <1>2, <1>4, <1>5

\* A frame below the default count ends inside the default, so it is not beyond the RAM.
LEMMA BelowDefault ==
  ASSUME NEW f \in Nat, NEW n \in Nat, f < n
  PROVE  (f + 1) * FRAME_SIZE <= n * FRAME_SIZE /\ f * FRAME_SIZE < n * FRAME_SIZE
<1>1. FRAME_SIZE \in Nat \ {0}
  BY FrameAssumption
<1> QED
  BY <1>1

\* init marks 0 .. BootMark - 1, and the hint is not past that.
LEMMA InitScan ==
  ASSUME init, tables = {}
  PROVE  BootScan(0)' /\ TOTAL_RAM' = DEFAULT_RAM /\ ACTUAL_FRAME_COUNT' = DefaultCount
<1>1. TOTAL_RAM' = DEFAULT_RAM /\ ACTUAL_FRAME_COUNT' = DefaultCount
  BY FrameAssumption DEF init, set_total_ram, Least, MAX_FRAME_COUNT, DefaultCount
<1>2. ASSUME NEW end \in Nat
      PROVE  mark_used(DEFAULT_RAM, DefaultCount, 0, end) = 0..(MarkedBelow(end) - 1)
  <2>1. CASE end = 0 \/ DEFAULT_RAM = 0
    BY <2>1, BootFacts DEF MarkedBelow, mark_used
  <2>2. CASE ~(end = 0 \/ DEFAULT_RAM = 0)
    <3>1. frame_of(end - 1) \in Nat
      BY <2>2, BootFacts, DivFacts DEF frame_of
    <3>2. frame_of(0) = 0
      BY BootFacts DEF frame_of
    <3>3. mark_used(DEFAULT_RAM, DefaultCount, 0, end)
            = 0..Least(frame_of(end - 1), DefaultCount - 1)
      BY <2>2, <3>2, BootFacts DEF mark_used
    <3> QED
      BY <2>2, <3>1, <3>3, BootFacts DEF MarkedBelow, Least
  <2> QED
    BY <2>1, <2>2
<1>3. /\ MarkedBelow(KERNEL_END) \in Int /\ MarkedBelow(LOW_END) \in Int
      /\ MarkedBelow(KERNEL_END) <= BootMark /\ MarkedBelow(LOW_END) <= BootMark
      /\ BootMark \in {MarkedBelow(KERNEL_END), MarkedBelow(LOW_END)}
  <2>1. ASSUME NEW end \in Nat PROVE MarkedBelow(end) \in Int
    <3>1. end # 0 => frame_of(end - 1) \in Nat
      BY BootFacts, DivFacts DEF frame_of
    <3> QED
      BY <3>1, BootFacts DEF MarkedBelow, Least
  <2> QED
    BY <2>1, BootFacts DEF BootMark
<1>4. BITMAP' = 0..(BootMark - 1)
  <2>1. BITMAP' = 0..(MarkedBelow(KERNEL_END) - 1) \union 0..(MarkedBelow(LOW_END) - 1)
    BY <1>1, <1>2, BootFacts DEF init
  <2> QED
    BY <1>3, <2>1
<1>5. BootMark >= DefaultCount \/ NEXT_FREE' * BITS <= BootMark
  <2> SUFFICES ASSUME BootMark < DefaultCount
               PROVE  NEXT_FREE' * BITS <= BootMark
    BY BootFacts
  <2>1. frame_of(KERNEL_END) \in Nat /\ NEXT_FREE' = frame_of(KERNEL_END) \div BITS
    BY BootFacts, DivFacts DEF init, frame_of
  <2>2. NEXT_FREE' \in Nat /\ BITS * NEXT_FREE' <= frame_of(KERNEL_END)
    BY <2>1, BootFacts, DivFacts
  <2>3. frame_of(KERNEL_END) <= BootMark
    <3>1. CASE KERNEL_END = 0
      BY <3>1, BootFacts DEF frame_of
    <3>2. CASE KERNEL_END # 0 /\ DEFAULT_RAM # 0
      <4> DEFINE a == frame_of(KERNEL_END - 1)
                 b == frame_of(KERNEL_END)
      <4>1. a \in Nat /\ KERNEL_END - 1 < FRAME_SIZE * a + FRAME_SIZE
        BY <3>2, BootFacts, DivFacts DEF frame_of
      <4>2. b \in Nat /\ FRAME_SIZE * b <= KERNEL_END
        BY BootFacts, DivFacts DEF frame_of
      <4>3. MarkedBelow(KERNEL_END) = Least(a, DefaultCount - 1) + 1
        BY <3>2 DEF MarkedBelow
      <4> HIDE DEF a, b
      <4>4. ~(b >= a + 2)
        <5>1. b >= a + 2 => FRAME_SIZE * b >= FRAME_SIZE * (a + 2)
          BY <4>1, <4>2, BootFacts
        <5>2. FRAME_SIZE * (a + 2) = FRAME_SIZE * a + FRAME_SIZE + FRAME_SIZE
          BY <4>1, BootFacts
        <5> QED
          BY <4>1, <4>2, <5>1, <5>2, BootFacts
      <4>5. b <= BootMark
        BY <1>3, <4>1, <4>2, <4>3, <4>4, BootFacts DEF Least
      <4> QED
        BY <4>5 DEF b
    <3>3. CASE DEFAULT_RAM = 0
      <4>1. DefaultCount = 0
        BY <3>3, BootFacts DEF DefaultCount
      <4> QED
        BY <4>1, BootFacts
    <3> QED
      BY <3>1, <3>2, <3>3
  <2> QED
    BY <2>1, <2>2, <2>3, BootFacts
<1>6. tables' = BootMark..(BootMark - 1)
  BY BootFacts DEF init
<1> QED
  BY <1>1, <1>4, <1>5, <1>6, BootFacts DEF BootScan

\* While the bitmap is one run, allocate_frame gives out the frame that follows it.
LEMMA NextOfRun ==
  ASSUME ScanInv, ACTUAL_FRAME_COUNT = DefaultCount, NEW n \in Nat, BootScan(n),
         NEW f, Found(f)
  PROVE  f = BootMark + n /\ f < DefaultCount /\ (f \div BITS) * BITS <= f
<1> DEFINE e == BootMark + n
<1>1. e \in Nat /\ f \in Nat /\ e <= f /\ f < DefaultCount
  BY BootFacts DEF Found, Candidates, BootScan
<1>2. DefaultCount <= ACTUAL_WORDS * BITS /\ ACTUAL_WORDS \in Nat /\ NEXT_FREE \in Nat
  BY DEF ScanInv
<1>3. e < ACTUAL_WORDS * BITS /\ f < ACTUAL_WORDS * BITS
  BY <1>1, <1>2, BootFacts
<1>4. /\ e \div BITS \in Nat /\ e \div BITS < ACTUAL_WORDS
      /\ f \div BITS \in Nat /\ f \div BITS < ACTUAL_WORDS
  BY <1>1, <1>2, <1>3, WordInRange
<1>5. /\ BITS * (e \div BITS) <= e /\ e < BITS * (e \div BITS) + BITS
      /\ BITS * (f \div BITS) <= f /\ f < BITS * (f \div BITS) + BITS
  BY <1>1, BootFacts, DivFacts
<1>6. NEXT_FREE * BITS <= e
  BY <1>1, BootFacts DEF BootScan
<1>7. PICK p \in Nat, q \in Nat : p = e \div BITS /\ q = f \div BITS
  BY <1>4
<1> HIDE DEF e
<1>8. NEXT_FREE <= p
  <2>1. NEXT_FREE >= p + 1 => NEXT_FREE * BITS >= (p + 1) * BITS
    BY <1>2, BootFacts
  <2>2. (p + 1) * BITS = BITS * p + BITS
    BY BootFacts
  <2> QED
    BY <1>1, <1>2, <1>5, <1>6, <1>7, <2>1, <2>2, BootFacts
<1>9. p <= q
  <2>1. p >= q + 1 => BITS * p >= BITS * (q + 1)
    BY BootFacts
  <2>2. BITS * (q + 1) = BITS * q + BITS
    BY BootFacts
  <2> QED
    BY <1>1, <1>5, <1>7, <2>1, <2>2, BootFacts
<1>10. Least(NEXT_FREE, ACTUAL_WORDS) = NEXT_FREE
  BY <1>2, <1>4, <1>7, <1>8 DEF Least
<1>11. e \in Candidates
  <2>1. p \in Scanned
    BY <1>2, <1>4, <1>7, <1>8, <1>10 DEF Scanned
  <2>2. e \notin BITMAP
    BY <1>1, BootFacts DEF BootScan, e
  <2> QED
    BY <1>1, <1>7, <2>1, <2>2, BootFacts DEF Candidates
<1>12. WordPos(p) = p - NEXT_FREE /\ WordPos(q) = q - NEXT_FREE
  BY <1>2, <1>8, <1>9, <1>10 DEF WordPos
<1>13. f <= e
  <2>1. WordPos(q) < WordPos(p) \/ f <= e
    BY <1>7, <1>11 DEF Found
  <2> QED
    BY <1>2, <1>9, <1>12, <2>1
<1>14. f = BootMark + n
  BY <1>1, <1>13 DEF e
<1>15. BITS * q = q * BITS
  BY BootFacts
<1> QED
  BY <1>1, <1>5, <1>7, <1>14, <1>15

\* A marked frame that nobody holds stays so: only owners give frames back.
LEMMA MarkedStays ==
  ASSUME OwnedInv, TableInv, [Next]_vars
  PROVE  MarksStay
<1> USE DEF MarksStay
<1>1. CASE init
  BY <1>1 DEF init
<1>2. CASE detect_memory \/ detect_done \/ allocate_none \/ UNCHANGED vars
  BY <1>2 DEF detect_memory, detect_done, allocate_none, vars
<1>3. CASE detect_entry
  BY <1>3 DEF detect_entry
<1>4. ASSUME NEW f \in Frames, allocate_frame(f)
      PROVE  MarksStay
  <2>1. f \notin BITMAP /\ BITMAP' = BITMAP \union {f} /\ held' \subseteq held \union {f}
    BY <1>4 DEF allocate_frame, Found, Candidates
  <2> QED
    BY <2>1
<1>5. ASSUME NEW f \in Frames, deallocate_frame(f)
      PROVE  MarksStay
  <2>1. f \in held /\ BITMAP \ {f} \subseteq BITMAP' /\ held' = held \ {f}
    BY <1>5 DEF deallocate_frame
  <2>2. f \notin BITMAP' \/ BITMAP' = BITMAP
    BY <1>5 DEF deallocate_frame
  <2> QED
    BY <2>1, <2>2
<1> QED
  BY <1>1, <1>2, <1>3, <1>4, <1>5 DEF Next

LEMMA TableStep ==
  ASSUME ScanInv, OwnedInv, TableInv, [Next]_vars
  PROVE  TableInv'
<1> USE DEF TableInv
<1>1. CASE init
  <2>1. tables = {} /\ held = {}
    BY <1>1 DEF init, OwnedInv
  <2>2. BootScan(0)' /\ TOTAL_RAM' = DEFAULT_RAM /\ ACTUAL_FRAME_COUNT' = DefaultCount
    BY <1>1, <2>1, InitScan
  <2>3. BITMAP' = 0..(BootMark - 1) /\ tables' = {} /\ held' = {}
    BY <1>1, <2>1, <2>2, BootFacts DEF init, BootScan
  <2>4. stage' = "paging" /\ reserved' = {} /\ total_usable' = 0
    BY <1>1 DEF init
  <2> QED
    BY <2>2, <2>3, <2>4, BootFacts
<1>2. CASE detect_memory
  BY <1>2 DEF detect_memory, counts
<1>3. CASE detect_entry
  <2>1. BITMAP \subseteq BITMAP'
    BY <1>3 DEF detect_entry
  <2> QED
    BY <1>3, <2>1 DEF detect_entry, counts
<1>4. CASE detect_done
  BY <1>4 DEF detect_done
<1>5. ASSUME NEW f \in Frames, allocate_frame(f)
      PROVE  TableInv'
  <2>1. MarksStay
    BY <1>5, MarkedStays DEF Next
  <2>2. CASE stage = "paging"
    <3>1. PICK n \in 0..MAX_TABLES : BootScan(n)
      BY <2>2
    <3>2. Cardinality(tables) = n
      <4>1. tables = BootMark..(BootMark + n - 1) /\ BootMark \in Int /\ BootMark + n - 1 \in Int
        BY <3>1, BootFacts DEF BootScan
      <4>2. Cardinality(tables) = IF BootMark > BootMark + n - 1 THEN 0
                                  ELSE (BootMark + n - 1) - BootMark + 1
        BY <4>1, FS_Interval
      <4> QED
        BY <3>1, <4>2, BootFacts
    <3>3. n + 1 \in 0..MAX_TABLES
      BY <1>5, <2>2, <3>1, <3>2, BootFacts DEF allocate_frame
    <3>4. f = BootMark + n /\ f < DefaultCount /\ (f \div BITS) * BITS <= f
      BY <1>5, <2>2, <3>1, NextOfRun DEF allocate_frame
    <3>5. /\ BITMAP' = BITMAP \union {f} /\ tables' = tables \union {f} /\ held' = held
          /\ NEXT_FREE' = f \div BITS /\ f \div BITS \in Nat
      BY <1>5, <2>2, <3>4, BootFacts, DivFacts DEF allocate_frame
    <3>6. BootScan(n + 1)'
      <4>1. BITMAP' = 0..(BootMark + (n + 1) - 1)
        BY <3>1, <3>4, <3>5, BootFacts DEF BootScan
      <4>2. tables' = BootMark..(BootMark + (n + 1) - 1)
        BY <3>1, <3>4, <3>5, BootFacts DEF BootScan
      <4>3. NEXT_FREE' * BITS <= BootMark + (n + 1)
        <5>1. PICK x \in Nat : x = (f \div BITS) * BITS
          BY <3>5, BootFacts
        <5> QED
          BY <3>1, <3>4, <3>5, <5>1, BootFacts
      <4> QED
        BY <4>1, <4>2, <4>3 DEF BootScan
    <3>7. tables' \subseteq BootTables \intersect 0..(DefaultCount - 1)
      BY <2>2, <3>1, <3>4, <3>5, <3>3, BootFacts DEF BootTables
    <3>8. UNCHANGED <<counts, boot>>
      BY <1>5 DEF allocate_frame
    <3> QED
      BY <2>1, <2>2, <3>3, <3>5, <3>6, <3>7, <3>8 DEF counts, boot, MarksStay
  <2>3. CASE stage = "ready"
    <3>1. UNCHANGED <<counts, boot, tables>>
      BY <1>5, <2>3 DEF allocate_frame
    <3> QED
      BY <2>1, <2>3, <3>1 DEF counts, boot, MarksStay
  <2> QED
    BY <1>5, <2>2, <2>3 DEF allocate_frame
<1>6. CASE allocate_none
  BY <1>6 DEF allocate_none, counts, boot
<1>7. ASSUME NEW f \in Frames, deallocate_frame(f)
      PROVE  TableInv'
  <2>1. MarksStay
    BY <1>7, MarkedStays DEF Next
  <2>2. stage = "ready" /\ UNCHANGED <<boot, tables>>
    BY <1>7 DEF deallocate_frame
  <2> QED
    BY <2>1, <2>2 DEF boot, MarksStay
<1>8. CASE UNCHANGED vars
  BY <1>8 DEF vars, counts, boot, BootScan
<1> QED
  BY <1>1, <1>2, <1>3, <1>4, <1>5, <1>6, <1>7, <1>8 DEF Next

\* What a step that parses nothing leaves as it was.
LEMMA ParsedStays ==
  ASSUME NEW m, NEW k, Parsed(m, k), UNCHANGED <<entries, total_usable, reserved>>,
         reserved = {} \/ BITMAP \ held \subseteq BITMAP' \ held'
  PROVE  Parsed(m, k)'
<1>1. \A f \in reserved' : \/ f < BootMark
                           \/ BeyondRam(m, f)
                           \/ f \in BITMAP' \ held' /\ f \notin BootTables
  BY DEF Parsed
<1> QED
  BY <1>1 DEF Parsed

\* One entry of an orderly map: what it reserves is marked, or needs no mark.
LEMMA EntryMarked ==
  ASSUME ScanInv, TableInv, NEW m \in Maps, Orderly(m), NEW k \in 0..Len(m), Parsed(m, k),
         detect_entry, NEW f \in reserved', f \notin reserved
  PROVE  \/ f < BootMark
         \/ BeyondRam(m, f)
         \/ f \in BITMAP' \ held' /\ f \notin BootTables
<1> DEFINE e == m[k + 1]
<1>1. m \in Seq(MapEntry) /\ Len(m) \in Nat
  BY FrameAssumption DEF MapEntry
<1>2. entries # <<>> /\ stage = "parsing" /\ held' = held
  BY DEF detect_entry
<1>3. k + 1 \in 1..Len(m) /\ Head(entries) = e
  <2>1. k # Len(m)
    <3>1. k = Len(m) => Len(entries) = 0
      BY <1>1 DEF Parsed
    <3> QED
      BY <1>2, <3>1, EmptySeq, FrameAssumption DEF Parsed
  <2>2. k + 1 \in 1..Len(m) /\ 1 \in 1..(Len(m) - k)
    BY <1>1, <2>1
  <2>3. entries[1] = e
    BY <2>2 DEF Parsed
  <2> QED
    BY <2>2, <2>3
<1>4. e.base \in Nat /\ e.len \in Nat /\ e \in MapEntry
  <2>1. e \in MapEntry
    BY <1>1, <1>3
  <2> QED
    BY <2>1 DEF MapEntry
<1>5. e.typ # 1 /\ f \in Touched(e.base, End(e))
  BY <1>3 DEF detect_entry, End
<1>6. \/ f < BootMark \/ BeyondRam(m, f)
       \/ /\ e.typ \in {2, 3, 4}
          /\ \E j \in 1..(k + 1 - 1) : m[j].typ = 1 /\ e.base < End(m[j])
          /\ f < DefaultCount /\ f \notin BootTables
  <2>1. \A i \in 1..Len(m) : m[i].typ # 1 =>
          \A g \in Touched(m[i].base, End(m[i])) :
            \/ g < BootMark
            \/ BeyondRam(m, g)
            \/ /\ m[i].typ \in {2, 3, 4}
               /\ \E j \in 1..(i - 1) : m[j].typ = 1 /\ m[i].base < End(m[j])
               /\ g < DefaultCount /\ g \notin BootTables
    BY DEF Orderly
  <2>2. PICK i \in 1..Len(m) : i = k + 1
    BY <1>3
  <2>3. m[i].typ # 1 /\ f \in Touched(m[i].base, End(m[i])) /\ m[i] = e
    BY <1>5, <2>2
  <2> HIDE DEF e
  <2>4. \/ f < BootMark
        \/ BeyondRam(m, f)
        \/ /\ e.typ \in {2, 3, 4}
           /\ \E j \in 1..(i - 1) : m[j].typ = 1 /\ e.base < End(m[j])
           /\ f < DefaultCount /\ f \notin BootTables
    BY <2>1, <2>3
  <2> QED
    BY <2>2, <2>4
<1> HIDE DEF e
<1>7. CASE f < BootMark \/ BeyondRam(m, f)
  BY <1>7
<1>8. CASE /\ e.typ \in {2, 3, 4}
           /\ \E j \in 1..(k + 1 - 1) : m[j].typ = 1 /\ e.base < End(m[j])
           /\ f < DefaultCount /\ f \notin BootTables
  <2>1. e.base < total_usable /\ total_usable \in Nat
    <3>1. PICK j \in 1..k : m[j].typ = 1 /\ e.base < End(m[j])
      BY <1>8
    <3>2. m[j] \in MapEntry
      BY <1>1, <3>1
    <3>3. End(m[j]) <= total_usable /\ End(m[j]) \in Nat
      BY <3>1, <3>2 DEF Parsed, MapEntry, End
    <3>4. total_usable \in Nat
      BY DEF ScanInv
    <3>5. PICK b \in Nat : b = e.base
      BY <1>4
    <3> QED
      BY <3>1, <3>3, <3>4, <3>5
  <2>2. e.len > 0 /\ End(e) \in Nat /\ End(e) > e.base
    BY <1>4, <1>5 DEF Touched, End
  <2>3. f \in mark_used(DEFAULT_RAM, DefaultCount, e.base, End(e))
    <3>1. /\ frame_of(e.base) \in Nat /\ e.base < FRAME_SIZE * frame_of(e.base) + FRAME_SIZE
          /\ frame_of(End(e) - 1) \in Nat
      <4>1. PICK b \in Nat, d \in Nat : b = e.base /\ d = End(e) - 1
        BY <1>4, <2>2
      <4>2. frame_of(b) \in Nat /\ b < FRAME_SIZE * frame_of(b) + FRAME_SIZE
        BY BootFacts, DivFacts DEF frame_of
      <4>3. frame_of(d) \in Nat
        BY BootFacts, DivFacts DEF frame_of
      <4> QED
        BY <4>1, <4>2, <4>3
    <3>2. f \in frame_of(e.base)..frame_of(End(e) - 1)
      BY <1>4, <1>5, <2>2 DEF Touched
    <3>3. f < DefaultCount /\ f \in Nat
      BY <1>8, <3>1, <3>2
    <3>4. e.base < DEFAULT_RAM
      <4>1. PICK a \in Nat : a = frame_of(e.base)
        BY <3>1
      <4>2. (f + 1) * FRAME_SIZE <= DefaultCount * FRAME_SIZE
        BY <3>3, BelowDefault, BootFacts
      <4>3. FRAME_SIZE * a + FRAME_SIZE = (a + 1) * FRAME_SIZE
        BY BootFacts
      <4>4. (a + 1) * FRAME_SIZE <= (f + 1) * FRAME_SIZE
        BY <3>2, <3>3, <4>1, BootFacts
      <4>5. PICK x \in Nat, y \in Nat, z \in Nat :
              x = (a + 1) * FRAME_SIZE /\ y = (f + 1) * FRAME_SIZE
                /\ z = DefaultCount * FRAME_SIZE
        BY <3>3, BootFacts
      <4>6. e.base < x
        BY <3>1, <4>1, <4>3, <4>5
      <4>7. x <= y /\ y <= z /\ z <= DEFAULT_RAM
        BY <4>2, <4>4, <4>5, BootFacts
      <4> QED
        BY <1>4, <4>6, <4>7, BootFacts
    <3>5. f \in frame_of(e.base)..Least(frame_of(End(e) - 1), DefaultCount - 1)
      BY <3>1, <3>2, <3>3, BootFacts DEF Least
    <3>6. ~(End(e) <= e.base \/ e.base >= DEFAULT_RAM)
      BY <1>4, <2>2, <3>4, BootFacts
    <3> QED
      BY <3>5, <3>6 DEF mark_used
  <2>4. f \in BITMAP'
    BY <1>2, <1>3, <1>8, <2>1, <2>2, <2>3 DEF detect_entry, TableInv, End
  <2> QED
    BY <1>2, <1>8, <2>4 DEF TableInv
<1> QED
  BY <1>7, <1>8, <1>6

LEMMA MapStep ==
  ASSUME \A m \in Maps : Orderly(m), ScanInv, OwnedInv, TableInv, MapInv, [Next]_vars
  PROVE  MapInv'
<1>1. PICK m \in Maps : \E k \in 0..Len(m) : Parsed(m, k)
  BY DEF MapInv
<1>2. PICK k \in 0..Len(m) : Parsed(m, k)
  BY <1>1
<1>3. m \in Seq(MapEntry) /\ Len(m) \in Nat /\ Orderly(m)
  BY FrameAssumption DEF MapEntry
<1>4. ASSUME UNCHANGED <<entries, total_usable, reserved>> PROVE MapInv'
  <2>1. reserved = {} \/ BITMAP \ held \subseteq BITMAP' \ held'
    BY MarkedStays DEF TableInv, MarksStay
  <2>2. Parsed(m, k)'
    BY <1>2, <1>4, <2>1, ParsedStays
  <2> QED
    BY <1>3, <2>2 DEF MapInv
<1>5. CASE detect_entry
  <2> DEFINE e == m[k + 1]
  <2>1. entries \in Seq(MapEntry) /\ entries # <<>> /\ total_usable \in Nat
    BY <1>5 DEF detect_entry, ScanInv
  <2>2. k + 1 \in 0..Len(m) /\ entries[1] = e
    <3>1. Len(entries) # 0
      BY <2>1, EmptySeq
    <3>2. Len(m) - k # 0
      BY <1>2, <3>1 DEF Parsed
    <3>3. 1 \in 1..(Len(m) - k) /\ k + 1 \in 1..Len(m)
      BY <1>3, <3>2
    <3> QED
      BY <1>2, <3>3 DEF Parsed
  <2>3. /\ entries' = Tail(entries) /\ Len(entries') = Len(entries) - 1
        /\ \A i \in 1..Len(entries') : entries'[i] = entries[i + 1]
    BY <1>5, <2>1, HeadTailProperties DEF detect_entry
  <2>4. /\ Len(entries') = Len(m) - (k + 1)
        /\ \A i \in 1..(Len(m) - (k + 1)) : entries'[i] = m[(k + 1) + i]
    <3>1. Len(entries') = Len(m) - (k + 1)
      <4>1. Len(entries) = Len(m) - k
        BY <1>2 DEF Parsed
      <4> QED
        BY <1>3, <2>3, <4>1
    <3>2. ASSUME NEW i \in 1..(Len(m) - (k + 1)) PROVE entries'[i] = m[(k + 1) + i]
      <4>1. i + 1 \in 1..(Len(m) - k) /\ k + (i + 1) = (k + 1) + i
        BY <1>3, <3>2
      <4> QED
        BY <1>2, <2>3, <3>1, <4>1 DEF Parsed
    <3> QED
      BY <3>1, <3>2
  <2>5. e \in MapEntry /\ End(e) \in Nat /\ Head(entries) = e
    <3>1. k + 1 \in 1..Len(m)
      BY <1>3, <2>2
    <3>2. e \in MapEntry
      BY <1>3, <3>1
    <3> QED
      BY <2>1, <2>2, <3>2 DEF MapEntry, End
  <2> HIDE DEF e
  <2>6. total_usable' = IF e.typ = 1 /\ End(e) > total_usable THEN End(e) ELSE total_usable
    BY <1>5, <2>5 DEF detect_entry, End
  <2>7. \A i \in 1..(k + 1) : m[i].typ = 1 => End(m[i]) <= total_usable'
    <3>1. ASSUME NEW i \in 1..k, m[i].typ = 1 PROVE End(m[i]) <= total_usable'
      <4>1. m[i] \in MapEntry
        BY <1>3, <3>1
      <4>2. End(m[i]) \in Nat /\ End(m[i]) <= total_usable
        <5>1. End(m[i]) <= total_usable
          BY <1>2, <3>1 DEF Parsed
        <5> QED
          BY <4>1, <5>1 DEF MapEntry, End
      <4> QED
        BY <2>1, <2>5, <2>6, <4>2
    <3>2. e.typ = 1 => End(e) <= total_usable'
      BY <2>1, <2>5, <2>6
    <3>3. \A i \in 1..(k + 1) : i \in 1..k \/ i = k + 1
      OBVIOUS
    <3> QED
      BY <3>1, <3>2, <3>3 DEF e
  <2>8. total_usable' = 0 \/ \E i \in 1..(k + 1) : m[i].typ = 1 /\ total_usable' = End(m[i])
    <3>1. CASE total_usable' = total_usable
      <4>1. 1..k \subseteq 1..(k + 1)
        OBVIOUS
      <4> QED
        BY <1>2, <3>1, <4>1 DEF Parsed
    <3>2. CASE total_usable' # total_usable
      <4>1. k + 1 \in 1..(k + 1)
        OBVIOUS
      <4> QED
        BY <2>6, <3>2, <4>1 DEF e
    <3> QED
      BY <3>1, <3>2
  <2>9. ASSUME NEW f \in reserved'
        PROVE  \/ f < BootMark
               \/ BeyondRam(m, f)
               \/ f \in BITMAP' \ held' /\ f \notin BootTables
    <3>1. CASE f \in reserved
      <4>1. BITMAP \subseteq BITMAP' /\ held' = held
        BY <1>5 DEF detect_entry
      <4> QED
        BY <1>2, <3>1, <4>1 DEF Parsed
    <3> QED
      BY <1>2, <1>3, <1>5, <2>9, <3>1, EntryMarked
  <2>10. Parsed(m, k + 1)'
    BY <2>4, <2>7, <2>8, <2>9 DEF Parsed
  <2> QED
    BY <2>2, <2>10 DEF MapInv
<1>6. CASE init \/ detect_memory \/ detect_done \/ allocate_none \/ UNCHANGED vars
  BY <1>4, <1>6 DEF init, detect_memory, detect_done, allocate_none, boot, vars
<1>7. ASSUME NEW f \in Frames, allocate_frame(f) \/ deallocate_frame(f)
      PROVE  MapInv'
  BY <1>4, <1>7 DEF allocate_frame, deallocate_frame, boot
<1> QED
  BY <1>5, <1>6, <1>7 DEF Next

\* When the whole map is parsed, total_usable is where its RAM ends.
LEMMA RamEndKnown ==
  ASSUME NEW m \in Maps, Orderly(m), NEW k \in 0..Len(m), Parsed(m, k), entries = <<>>,
         total_usable # 0
  PROVE  /\ total_usable \in Nat /\ total_usable >= DEFAULT_RAM
         /\ \/ total_usable % (BITS * FRAME_SIZE) = 0
            \/ total_usable >= MAX_FRAME_COUNT * FRAME_SIZE
         /\ \E i \in 1..Len(m) : m[i].typ = 1 /\ total_usable = End(m[i])
<1>1. m \in Seq(MapEntry) /\ Len(m) \in Nat
  BY FrameAssumption DEF MapEntry
<1>2. k = Len(m)
  <2>1. Len(entries) = 0
    OBVIOUS
  <2> QED
    <3>1. Len(entries) = Len(m) - k
      BY DEF Parsed
    <3> QED
      BY <1>1, <2>1, <3>1
<1>3. \A i \in 1..Len(m) : End(m[i]) \in Nat
  <2>1. \A i \in 1..Len(m) : m[i] \in MapEntry
    BY <1>1
  <2> QED
    BY <2>1 DEF MapEntry, End
<1>4. PICK i \in 1..Len(m) : m[i].typ = 1 /\ total_usable = End(m[i])
  BY <1>2 DEF Parsed
<1>5. total_usable \in Nat /\ total_usable > 0
  BY <1>3, <1>4
<1>6. PICK j \in 1..Len(m) :
        /\ m[j].typ = 1 /\ End(m[j]) >= End(m[i]) /\ End(m[j]) >= DEFAULT_RAM
        /\ \/ End(m[j]) % (BITS * FRAME_SIZE) = 0
           \/ End(m[j]) >= MAX_FRAME_COUNT * FRAME_SIZE
  BY <1>4, <1>5 DEF Orderly
<1>7. End(m[j]) <= total_usable
  BY <1>2, <1>6 DEF Parsed
<1>8. End(m[j]) = total_usable
  BY <1>3, <1>4, <1>5, <1>6, <1>7
<1> QED
  BY <1>4, <1>5, <1>6, <1>8

LEMMA RangeStep ==
  ASSUME \A m \in Maps : Orderly(m), ScanInv, TableInv, MapInv, RangeInv, [Next]_vars
  PROVE  RangeInv'
<1> USE DEF RangeInv
<1>1. CASE init \/ detect_memory \/ detect_entry
  BY <1>1 DEF init, detect_memory, detect_entry
<1>2. CASE detect_done
  <2>1. held' = {} /\ entries = <<>> /\ total_usable' = total_usable
    BY <1>2 DEF detect_done, TableInv
  <2>2. CASE total_usable = 0
    <3>1. ACTUAL_FRAME_COUNT' = DefaultCount /\ RamEnd' = DEFAULT_RAM
      BY <1>2, <2>1, <2>2, BootFacts DEF detect_done, counts, TableInv, RamEnd
    <3> QED
      BY <2>1, <3>1, BootFacts
  <2>3. CASE total_usable # 0
    <3>1. /\ total_usable \in Nat /\ total_usable >= DEFAULT_RAM
          /\ \/ total_usable % (BITS * FRAME_SIZE) = 0
             \/ total_usable >= MAX_FRAME_COUNT * FRAME_SIZE
      BY <2>1, <2>3, RamEndKnown DEF MapInv
    <3>2. RamEnd' = total_usable
      BY <2>1, <2>3 DEF RamEnd
    <3>3. CASE total_usable > DEFAULT_RAM
      <4>1. reinit(total_usable)
        BY <1>2, <2>3, <3>3 DEF detect_done
      <4>2. ACTUAL_FRAME_COUNT' * FRAME_SIZE <= total_usable
        BY <3>1, <4>1, ReinitInRam
      <4> QED
        BY <2>1, <3>1, <3>2, <4>2
    <3>4. CASE total_usable = DEFAULT_RAM
      <4>1. ACTUAL_FRAME_COUNT' = DefaultCount
        <5>1. ~(total_usable > DEFAULT_RAM)
          BY <3>4, BootFacts
        <5>2. UNCHANGED counts /\ stage = "parsing"
          BY <1>2, <2>3, <5>1 DEF detect_done
        <5> QED
          BY <5>2 DEF counts, TableInv
      <4> QED
        BY <2>1, <3>1, <3>2, <3>4, <4>1, BootFacts
    <3> QED
      BY <3>1, <3>3, <3>4, BootFacts
  <2> QED
    BY <2>2, <2>3
<1>3. ASSUME NEW f \in Frames, allocate_frame(f)
      PROVE  RangeInv'
  <2>1. /\ UNCHANGED <<counts, boot>> /\ held' \subseteq held \union {f}
        /\ f \in 0..(ACTUAL_FRAME_COUNT - 1)
    BY <1>3 DEF allocate_frame, Found, Candidates
  <2> QED
    BY <2>1 DEF counts, boot, RamEnd
<1>4. ASSUME NEW f \in Frames, deallocate_frame(f)
      PROVE  RangeInv'
  BY <1>4 DEF deallocate_frame, counts, boot, RamEnd
<1>5. CASE allocate_none \/ UNCHANGED vars
  BY <1>5 DEF allocate_none, vars, counts, boot, RamEnd
<1> QED
  BY <1>1, <1>2, <1>3, <1>4, <1>5 DEF Next

LEMMA RamInit ==
  Init => TableInv /\ MapInv /\ RangeInv
<1> SUFFICES ASSUME Init PROVE TableInv /\ MapInv /\ RangeInv
  OBVIOUS
<1>1. TableInv /\ RangeInv
  BY DEF Init, TableInv, RangeInv
<1>2. entries \in Maps /\ entries \in Seq(MapEntry)
  BY FrameAssumption DEF Init, MapEntry
<1>3. Len(entries) \in Nat /\ 0 \in 0..Len(entries)
  BY <1>2
<1>4. Parsed(entries, 0)
  <2>1. total_usable = 0 /\ reserved = {}
    BY DEF Init
  <2>2. /\ Len(entries) = Len(entries) - 0
        /\ \A i \in 1..(Len(entries) - 0) : i = 0 + i
    BY <1>3
  <2>3. \A i \in 1..(Len(entries) - 0) : entries[i] = entries[0 + i]
    BY <2>2
  <2>4. 1..0 = {}
    OBVIOUS
  <2> QED
    BY <2>1, <2>2, <2>3, <2>4, Zenon DEF Parsed
<1> QED
  BY <1>1, <1>2, <1>3, <1>4 DEF MapInv

\* At the end of boot and after it the three invariants keep reserved and given frames apart.
LEMMA RamKept ==
  ASSUME \A m \in Maps : Orderly(m), ScanInv, OwnedInv, TableInv, MapInv, RangeInv,
         stage = "ready", entries = <<>>
  PROVE  OnlyDetectedRam
<1>1. PICK m \in Maps : \E k \in 0..Len(m) : Parsed(m, k)
  BY DEF MapInv
<1>2. PICK k \in 0..Len(m) : Parsed(m, k)
  BY <1>1
<1>3. ACTUAL_FRAME_COUNT \in Nat /\ total_usable \in Nat
  BY DEF ScanInv
<1>4. \A f \in held : f \in Nat /\ (f + 1) * FRAME_SIZE <= RamEnd /\ f * FRAME_SIZE < RamEnd
  <2> SUFFICES ASSUME NEW f \in held
               PROVE  f \in Nat /\ (f + 1) * FRAME_SIZE <= RamEnd /\ f * FRAME_SIZE < RamEnd
    OBVIOUS
  <2>1. f \in Nat /\ f < ACTUAL_FRAME_COUNT
    BY <1>3 DEF RangeInv
  <2>2. /\ (f + 1) * FRAME_SIZE <= ACTUAL_FRAME_COUNT * FRAME_SIZE
        /\ f * FRAME_SIZE < ACTUAL_FRAME_COUNT * FRAME_SIZE
    BY <1>3, <2>1, BelowDefault
  <2>3. ACTUAL_FRAME_COUNT * FRAME_SIZE <= RamEnd /\ RamEnd \in Nat
    BY <1>3, BootFacts DEF RangeInv, RamEnd
  <2>4. PICK x \in Nat, y \in Nat, z \in Nat :
          /\ x = (f + 1) * FRAME_SIZE /\ y = f * FRAME_SIZE
          /\ z = ACTUAL_FRAME_COUNT * FRAME_SIZE
    BY <1>3, <2>1, BootFacts
  <2>5. x <= RamEnd /\ y < RamEnd
    BY <2>2, <2>3, <2>4
  <2> QED
    BY <2>1, <2>4, <2>5
<1>5. \A f \in tables : f \in Nat /\ f \in BootTables /\ f * FRAME_SIZE < DEFAULT_RAM
  <2> SUFFICES ASSUME NEW f \in tables
               PROVE  f \in Nat /\ f \in BootTables /\ f * FRAME_SIZE < DEFAULT_RAM
    OBVIOUS
  <2>1. f \in Nat /\ f < DefaultCount /\ f \in BootTables
    BY BootFacts DEF TableInv
  <2>2. f * FRAME_SIZE < DefaultCount * FRAME_SIZE
    BY <2>1, BelowDefault, BootFacts
  <2>3. PICK y \in Nat, z \in Nat : y = f * FRAME_SIZE /\ z = DefaultCount * FRAME_SIZE
    BY <2>1, BootFacts
  <2>4. y < DEFAULT_RAM
    BY <2>2, <2>3, BootFacts
  <2> QED
    BY <2>1, <2>3, <2>4
<1>6. ASSUME NEW f \in reserved
      PROVE  f \notin held \union tables
  <2>1. CASE f < BootMark
    <3>1. ASSUME f \in tables PROVE FALSE
      BY <1>5, <2>1, <3>1, BootFacts DEF BootTables
    <3>2. ASSUME f \in held PROVE FALSE
      <4>1. f \in 0..(BootMark - 1)
        BY <1>4, <2>1, <3>2, BootFacts
      <4> QED
        BY <3>2, <4>1 DEF TableInv
    <3> QED
      BY <3>1, <3>2
  <2>2. CASE BeyondRam(m, f)
    <3>1. f * FRAME_SIZE >= RamEnd /\ f * FRAME_SIZE >= DEFAULT_RAM
      <4>1. CASE total_usable = 0
        BY <2>2, <4>1 DEF BeyondRam, RamEnd
      <4>2. CASE total_usable # 0
        BY <1>2, <2>2, <4>2, RamEndKnown DEF BeyondRam, RamEnd
      <4> QED
        BY <4>1, <4>2
    <3>2. RamEnd \in Nat
      BY <1>3, BootFacts DEF RamEnd
    <3>3. ASSUME f \in held \union tables PROVE FALSE
      <4>1. f \in Nat /\ (f * FRAME_SIZE < RamEnd \/ f * FRAME_SIZE < DEFAULT_RAM)
        BY <1>4, <1>5, <3>3
      <4>2. PICK y \in Nat : y = f * FRAME_SIZE
        BY <4>1, BootFacts
      <4> QED
        BY <3>1, <3>2, <4>1, <4>2, BootFacts
    <3> QED
      BY <3>3
  <2>3. CASE f \in BITMAP \ held /\ f \notin BootTables
    BY <1>5, <2>3
  <2> QED
    BY <1>2, <2>1, <2>2, <2>3 DEF Parsed
<1>7. total_usable > 0 => \A f \in held : (f + 1) * FRAME_SIZE <= total_usable
  BY <1>3, <1>4 DEF RamEnd
<1> QED
  BY <1>6, <1>7 DEF OnlyDetectedRam

\* detect_memory has parsed every entry by the time kernel_main goes on.
LEMMA AllParsed ==
  (stage = "ready" => entries = <<>>) /\ [Next]_vars => (stage = "ready" => entries = <<>>)'
BY DEF Next, init, detect_memory, detect_entry, detect_done, allocate_frame, allocate_none,
       deallocate_frame, boot, vars

\* On an orderly memory map allocate_frame gives out RAM only: no reserved frame, not even
\* for the page tables that were built before the map was read, and no frame past the end
\* of the detected range, through every order of later allocations and frees.
THEOREM OnlyRamGivenOut ==
  ASSUME \A m \in Maps : Orderly(m)
  PROVE  Spec => []OnlyDetectedRam
<1> DEFINE Done == stage = "ready" => entries = <<>>
           Inv == ScanInv /\ OwnedInv /\ TableInv /\ MapInv /\ RangeInv /\ Done
<1>1. Init => Inv
  BY ScanInit, OwnedInit, RamInit DEF Init
<1>2. Inv /\ [Next]_vars => Inv'
  BY ScanStep, OwnedStep, TableStep, MapStep, RangeStep, AllParsed
<1>3. Inv => OnlyDetectedRam
  BY RamKept DEF OnlyDetectedRam
<1> QED
  BY <1>1, <1>2, <1>3, PTL DEF Spec
=============================================================================
