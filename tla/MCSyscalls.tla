----------------------------- MODULE MCSyscalls -----------------------------
(* What a task reaches through system calls.  The descriptor table and the  *)
(* VFS have two tasks of two descriptors, a root and three more nodes, a    *)
(* name that fits and one that does not, words of two bits.  User memory is *)
(* two page tables of two pages of two bytes; programs have up to two       *)
(* segments of up to two pages.  The calls on memory, which do not use the  *)
(* file tree, are explored where it is empty.                               *)
EXTENDS FdTable, Syscalls, FiniteSets

\* Bounds: at most MaxOpen descriptors are open at a time, on a small tree; the tree
\* grows to MaxNodes while none is open.
MaxOpen == 2
MaxOpenNodes == 2
SmallWhileOpen ==
  LET open == {e \in Entries : FD_TABLE[e] # Unused} IN
  Cardinality(open) <= MaxOpen /\ (Len(nodes) <= MaxOpenNodes \/ open = {})

-----------------------------------------------------------------------------
\* An address space in which a task has the first page of every page table.
SomePages ==
  [i \in PdIndices |-> [kind |-> "table", pt |-> [NoTable EXCEPT ![0] = "user"]]]

\* ELF files with every place of the header table, also at the end of the address
\* space, and at most one wrong field.
DataAt == EHDR + 3 * PHDR
Near == 0..DataAt
Phdr(t, o) == [type |-> t, offset |-> o, vaddr |-> o, filesz |-> 0, memsz |-> 1]
Headers(len, wrong, phoff, phentsize, phnum, ph) ==
  [len |-> len, magic |-> wrong # "magic", class64 |-> wrong # "class", exec |-> wrong # "type",
   machine |-> wrong # "machine", phoff |-> phoff, phentsize |-> phentsize, phnum |-> phnum,
   ph |-> ph]
HeaderFiles ==
  {Headers(len, "none", phoff, phentsize, phnum, [o \in Near |-> Phdr(t[o % 3], o)]) :
     len \in Near, phoff \in Near \union (WORD - 2 * PHDR)..(WORD - 1),
     phentsize \in (PHDR - 1)..(PHDR + 1), phnum \in 0..3,
     t \in [0..2 -> {"PT_LOAD", "PT_NOTE"}]} \union
  {Headers(DataAt, wrong, EHDR, PHDR, 1, [o \in Near |-> Phdr("PT_LOAD", o)]) :
     wrong \in {"magic", "class", "type", "machine"}}

\* Programs of one or two segments in pages of their own, the bytes of the first, then
\* those of the second, after the headers.
Shapes ==
  {s \in [type : {"PT_LOAD"}, offset : {DataAt}, vaddr : 0..(STACK_VA - 1),
          filesz : 0..(2 * VPAGE), memsz : 1..(2 * VPAGE)] :
     s.filesz <= s.memsz /\ s.vaddr + s.memsz <= STACK_VA}
Segments ==
  {<<s>> : s \in Shapes} \union
  {<<p[1], [p[2] EXCEPT !.offset = DataAt + p[1].filesz]>> :
     p \in {q \in Shapes \X Shapes : Page(q[1].vaddr + q[1].memsz - 1) < Page(q[2].vaddr)}}
ProgramOf(s) ==
  Headers(DataAt + s[1].filesz + (IF Len(s) = 2 THEN s[2].filesz ELSE 0), "none", EHDR, PHDR,
          Len(s), [o \in {EHDR + (i - 1) * PHDR : i \in 1..Len(s)} |->
                     s[1 + ((o - EHDR) \div PHDR)]])
MCPrograms == {ProgramOf(s) : s \in Segments}
MCFiles == HeaderFiles \union MCPrograms

\* Volumes on which one step fails, and those with a program or a file of a bad size.
Plain(len) == Headers(len, "none", EHDR, PHDR, 0, <<>>)
GoodVolume(f) ==
  [nuls |-> {1}, utf8 |-> TRUE, mounted |-> TRUE, readdir |-> TRUE, entry |-> "file",
   read |-> f.len, file |-> f]
OneProgram == ProgramOf(CHOOSE s \in Segments : Aligned(s))
FailingVolumes ==
  LET v == GoodVolume(OneProgram) IN
  {[v EXCEPT !.nuls = {}], [v EXCEPT !.utf8 = FALSE], [v EXCEPT !.mounted = FALSE],
   [v EXCEPT !.readdir = FALSE], [v EXCEPT !.entry = "none"], [v EXCEPT !.entry = "directory"],
   [v EXCEPT !.entry = "empty"], [v EXCEPT !.read = -1], [v EXCEPT !.read = 1]}
MCVolumes ==
  FailingVolumes \union
  {GoodVolume(f) : f \in MCPrograms \union {Plain(n) : n \in 0..(MAX_EXEC + 1)} \union
                         {[OneProgram EXCEPT !.phoff = n] : n \in (WORD - PHDR)..(WORD - 1)}}

-----------------------------------------------------------------------------
MCInit == Init /\ CallInit

\* Of the caller's memory the calls on files use only the path.
MCNext ==
  \/ Next /\ root = SomePages /\ last = Idle /\ UNCHANGED callVars
  \/ /\ Len(nodes) = 1
     /\ \A e \in Entries : FD_TABLE[e] = Unused
     /\ ~panicked
     /\ MemoryCalls \/ (root = SomePages /\ FileCalls)
     /\ UNCHANGED vars

MCSpec == MCInit /\ [][MCNext]_<<vars, callVars>>
=============================================================================
