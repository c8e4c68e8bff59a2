------------------------------- MODULE Loader -------------------------------
(***************************************************************************)
(* Loading a program: parse_elf (elf.rs), the frames                       *)
(* create_user_page_tables (paging.rs) gives to its segments, and the two  *)
(* ways its bytes get into them, that of create_process (process.rs) and   *)
(* spawn_userspace_task (main.rs) and that of execve                       *)
(* (replace_address_space, task.rs).                                       *)
(*                                                                         *)
(* A file is its length, the header fields that are looked at, and the     *)
(* program header found at each offset.  The byte at offset o of a file is *)
(* o + 1, and 0 is the zero byte, so that loaded memory tells where each   *)
(* of its bytes comes from.  Numbers are machine words.                    *)
(***************************************************************************)
EXTENDS Naturals, Sequences, SequencesExt, FiniteSetsExt

CONSTANTS
  WORD,           \* 2^64
  VPAGE,          \* 4096
  EHDR, PHDR,     \* sizes of the two headers: 64 and 56
  MAX_SEGMENTS,   \* 8
  AS_PTR,         \* elf_data.as_ptr(): the file is in the kernel's heap
  STACK_VA        \* USER_BASE_VA + 0x100000

ASSUME LoaderAssumption ==
  /\ \A n \in {WORD, VPAGE, EHDR, PHDR, MAX_SEGMENTS} : n \in Nat \ {0}
  /\ AS_PTR \in Nat /\ STACK_VA \in Nat /\ STACK_VA % VPAGE = 0

add(a, b) == (a + b) % WORD

Failed(e) == [err |-> e, segs |-> <<>>]

\* Mutant of full: one segment too many is let in.
full_past(segs) == Len(segs) > MAX_SEGMENTS

full(segs) == Len(segs) >= MAX_SEGMENTS

Segment(ph) ==
  [vaddr |-> ph.vaddr, data_ptr |-> add(AS_PTR, ph.offset),
   filesz |-> ph.filesz, memsz |-> ph.memsz]

\* The loop over the program headers.  The sums wrap; an offset that is in range only
\* because its end wrapped makes the slice panic.
headers(f) ==
  LET after[i \in 0..f.phnum] ==
        IF i = 0 THEN [err |-> "none", segs |-> <<>>]
        ELSE LET done == after[i - 1]
                 off == add(f.phoff, (i - 1) * f.phentsize)
             IN  IF done.err # "none" THEN done
                 ELSE IF add(off, PHDR) > f.len THEN Failed("BadPhdr")
                 ELSE IF off + PHDR > f.len THEN Failed("panic")
                 ELSE IF f.ph[off].type # "PT_LOAD" THEN done
                 ELSE IF full(done.segs) THEN Failed("TooManySegments")
                 ELSE [done EXCEPT !.segs = Append(@, Segment(f.ph[off]))]
  IN  after[f.phnum]

parse_elf(f) ==
  IF f.len < EHDR \/ ~f.magic THEN Failed("BadMagic")
  ELSE IF ~f.class64 THEN Failed("NotElf64")
  ELSE IF ~f.exec THEN Failed("NotExecutable")
  ELSE IF ~f.machine THEN Failed("BadMachine")
  ELSE IF f.phentsize < PHDR THEN Failed("BadPhdr")
  ELSE headers(f)

-----------------------------------------------------------------------------
Page(a) == a - (a % VPAGE)

\* The pages a segment gets frames for, in order.
segment_pages(s) ==
  LET first == Page(s.vaddr) \div VPAGE
      end == s.vaddr + s.memsz
  IN  IF s.memsz = 0 THEN <<>>
      ELSE [i \in 1..(((end + VPAGE - 1) \div VPAGE) - first) |-> (first + i - 1) * VPAGE]

\* user_phys_frames: the pages in the order in which they get a frame, the stack's last.
\* Frame i is the one of position i.
create_user_page_tables(segs) ==
  FoldLeft(LAMBDA pages, s : pages \o segment_pages(s), <<>>, segs) \o <<STACK_VA>>

\* The frame a page is mapped to: the last one given to it.
FrameOf(pages, va) ==
  Max({i \in 1..Len(pages) : pages[i] = va})

ZeroPage == [o \in 0..(VPAGE - 1) |-> 0]

\* A page that begins with n bytes of the file, from offset on.
FilePage(offset, n) == [o \in 0..(VPAGE - 1) |-> IF o < n THEN offset + o + 1 ELSE 0]

Least(a, b) == IF a <= b THEN a ELSE b

\* Mutant of create_process: the length of the page is copied, not that of the segment.
create_process_page(segs, pages) ==
  [i \in 1..Len(pages) |->
     LET owners == SelectSeq(segs, LAMBDA s : s.vaddr = pages[i]) IN
     IF owners = <<>> \/ owners[1].filesz = 0 THEN ZeroPage
     ELSE FilePage(owners[1].data_ptr - AS_PTR, VPAGE)]

\* The frames after the copy loop of create_process and spawn_userspace_task: a frame
\* whose page is where a segment starts gets that segment's first bytes.
create_process(segs, pages) ==
  [i \in 1..Len(pages) |->
     LET owners == SelectSeq(segs, LAMBDA s : s.vaddr = pages[i]) IN
     IF owners = <<>> \/ owners[1].filesz = 0 THEN ZeroPage
     ELSE FilePage(owners[1].data_ptr - AS_PTR, Least(VPAGE, owners[1].filesz))]

\* The slice &elf_data[..] of that loop is out of range.
create_process_panics(f, segs, pages) ==
  \E i \in 1..Len(pages) :
    LET owners == SelectSeq(segs, LAMBDA s : s.vaddr = pages[i]) IN
    /\ owners # <<>> /\ owners[1].filesz > 0
    /\ owners[1].data_ptr - AS_PTR + Least(VPAGE, owners[1].filesz) > f.len

\* Mutant of frame_idx: the page at the end of a segment counts as its own.
frame_idx_end(segs, pages) ==
  LET past(s, k) ==
        k + Cardinality({n \in k..Len(pages) :
              \A i \in k..n : pages[i] >= s.vaddr /\ pages[i] <= s.vaddr + s.memsz})
  IN  FoldLeft(LAMBDA k, s : past(s, k), 1, segs)

\* How far execve's loop over the frames gets: for each segment as long as the next
\* frame's page lies in it.
frame_idx(segs, pages) ==
  LET past(s, k) ==
        k + Cardinality({n \in k..Len(pages) :
              \A i \in k..n : pages[i] >= s.vaddr /\ pages[i] < s.vaddr + s.memsz})
  IN  FoldLeft(LAMBDA k, s : past(s, k), 1, segs)

\* The segment in whose round of that loop frame i is met.
round_of(segs, pages, i) ==
  CHOOSE n \in 1..Len(segs) :
    /\ i < frame_idx(SubSeq(segs, 1, n), pages)
    /\ i >= frame_idx(SubSeq(segs, 1, n - 1), pages)

\* The frames after steps 4 and 5 of replace_address_space: data_ptr is used as an
\* offset into elf_data, and the frame after the last one met is the stack's, zeroed.
replace_address_space(f, segs, pages) ==
  [i \in 1..Len(pages) |->
     IF i >= frame_idx(segs, pages) THEN ZeroPage
     ELSE LET s == segs[round_of(segs, pages, i)]
              offset == pages[i] - s.vaddr
              start == s.data_ptr + offset
              n == Least(VPAGE, s.filesz - offset)
          IN  IF offset < s.filesz /\ start + n <= f.len
                THEN FilePage(start, n)
                ELSE ZeroPage]

\* The frame step 5 maps at the stack's page: the one the loop stopped at, or a fresh one.
exec_stack_frame(segs, pages) == frame_idx(segs, pages)

-----------------------------------------------------------------------------
\* What a file's program headers ask for, without machine words.
PhOffs(f) == [i \in 1..f.phnum |-> f.phoff + (i - 1) * f.phentsize]
Loads(f) ==
  SelectSeq(PhOffs(f), LAMBDA o : o \in DOMAIN f.ph /\ f.ph[o].type = "PT_LOAD")

\* parse_elf's result r for file f against its headers: the file is accepted exactly
\* when the fixed fields are right, every program header lies in it and at most
\* MAX_SEGMENTS are PT_LOAD, and the image then has those, in order, pointing at their
\* bytes.  Only a table so near the end of the address space that the end of a
\* header wraps can make it panic.
ParseIs(f, r) ==
  LET wraps == \E i \in 1..f.phnum : PhOffs(f)[i] + PHDR >= WORD
      good == /\ f.len >= EHDR /\ f.magic /\ f.class64 /\ f.exec /\ f.machine
              /\ f.phentsize >= PHDR
              /\ \A i \in 1..f.phnum : PhOffs(f)[i] + PHDR <= f.len
              /\ Len(Loads(f)) <= MAX_SEGMENTS
  IN  /\ ~wraps => r.err # "panic" /\ (r.err = "none" <=> good)
      /\ r.err = "none" /\ ~wraps =>
           /\ Len(r.segs) = Len(Loads(f))
           /\ \A i \in 1..Len(r.segs) :
                r.segs[i].data_ptr = AS_PTR + f.ph[Loads(f)[i]].offset
      /\ r.err # "none" => r.segs = <<>>

\* The byte a program expects at a: the file's, or zero.
Expected(segs, a) ==
  LET in == {i \in 1..Len(segs) : a >= segs[i].vaddr /\ a < segs[i].vaddr + segs[i].filesz}
  IN  IF in = {} THEN 0
      ELSE LET s == segs[Max(in)] IN s.data_ptr - AS_PTR + (a - s.vaddr) + 1

\* The program's own addresses, and those of them whose page begins with a segment.
Span(segs) ==
  UNION {segs[i].vaddr..(segs[i].vaddr + segs[i].memsz - 1) : i \in 1..Len(segs)}
FirstPages(segs) == {a \in Span(segs) : \E i \in 1..Len(segs) : segs[i].vaddr = Page(a)}

Aligned(segs) == \A i \in 1..Len(segs) : segs[i].vaddr % VPAGE = 0

\* The byte a task finds at a when its frames have these contents.
ByteAt(pages, frames, a) == frames[FrameOf(pages, Page(a))][a % VPAGE]
=============================================================================
