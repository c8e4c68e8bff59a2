------------------------------ MODULE UserCopy ------------------------------
(***************************************************************************)
(* Copies between a system call and the memory of the task that made it    *)
(* (usercopy.rs), over the walk of the task's page tables                  *)
(* (is_user_mapped, paging.rs).                                            *)
(*                                                                         *)
(* An address space is a function from page directory indices to entries;  *)
(* an entry is absent, a 2 MiB block of the kernel's or of the task's, or  *)
(* a page table.  A copied byte is represented by its address.             *)
(*                                                                         *)
(* No task maps the last page below 2^64 (create_user_page_tables, asked   *)
(* to, would go on to page 0 and run out of frames), so that               *)
(* page_start + 4096 does not wrap on a page that is copied.               *)
(***************************************************************************)
EXTENDS Naturals, Sequences

CONSTANTS
  ADDRS,           \* 2^64
  PAGE,            \* 4096
  PT_PAGES,        \* pages of a page table: 512
  MAX_USER_COPY,   \* 512
  CSTR_BUF         \* bytes of copy_from_user_cstr's buffer: 256

ASSUME UserCopyAssumption ==
  /\ PAGE \in Nat \ {0} /\ PT_PAGES \in Nat \ {0} /\ MAX_USER_COPY \in Nat
  /\ ADDRS \in Nat \ {0} /\ ADDRS % (PAGE * PT_PAGES) = 0
  /\ CSTR_BUF \in Nat \ {0}

Addrs == 0..(ADDRS - 1)
PdIndices == 0..((ADDRS \div (PAGE * PT_PAGES)) - 1)

\* The addresses from a up to, and without, b, in order.
Bytes(a, b) == [i \in 1..(b - a) |-> a + i - 1]

\* The U bit of the leaf that maps a: of the block, or of the page.
is_user_mapped(root, a) ==
  LET e3 == root[a \div (PAGE * PT_PAGES)] IN
  IF e3.kind = "table"
    THEN e3.pt[(a \div PAGE) % PT_PAGES] = "user"
    ELSE e3.kind = "user"

Ok(bytes) == [ok |-> TRUE, bytes |-> bytes]
Efault(bytes) == [ok |-> FALSE, bytes |-> bytes]

\* Mutant of copy_pages: the last page is copied to its end.
copy_pages_whole(root, ptr, end) ==
  LET from[addr \in 0..ADDRS] ==
        IF addr >= end THEN Ok(Bytes(ptr, addr))
        ELSE IF ~is_user_mapped(root, addr) THEN Efault(Bytes(ptr, addr))
        ELSE from[addr - (addr % PAGE) + PAGE]
  IN  from[ptr]

\* The loop of both copies: each page is checked, then its part of the range is
\* copied.  The result has the bytes copied, in order, also when a later page fails.
copy_pages(root, ptr, end) ==
  LET from[addr \in 0..ADDRS] ==
        IF addr >= end THEN Ok(Bytes(ptr, end))
        ELSE IF ~is_user_mapped(root, addr) THEN Efault(Bytes(ptr, addr))
        ELSE from[addr - (addr % PAGE) + PAGE]
  IN  from[ptr]

copy_from_user(root, ptr, len) ==
  IF len > MAX_USER_COPY THEN Efault(<<>>)
  ELSE IF len = 0 THEN Ok(<<>>)
  ELSE IF ptr + len >= ADDRS THEN Efault(<<>>)      \* checked_add
  ELSE copy_pages(root, ptr, ptr + len)

\* The other direction has no limit of its own.
copy_to_user(root, ptr, len) ==
  IF len = 0 THEN Ok(<<>>)
  ELSE IF ptr + len >= ADDRS THEN Efault(<<>>)
  ELSE copy_pages(root, ptr, ptr + len)

\* copy_from_user_cstr where the bytes at nuls are 0: byte by byte, each checked.
\* A string that fills the buffer is cut.
copy_from_user_cstr(root, nuls, ptr, max_len) ==
  LET len == IF max_len < CSTR_BUF THEN max_len ELSE CSTR_BUF - 1
      addr(i) == (ptr + i) % ADDRS
      from[i \in 0..len] ==
        IF i = len THEN Ok(Bytes(ptr, ptr + i))
        ELSE IF ~is_user_mapped(root, addr(i)) THEN Efault(Bytes(ptr, ptr + i))
        ELSE IF addr(i) \in nuls THEN Ok(Bytes(ptr, ptr + i))
        ELSE from[i + 1]
  IN  from[0]

-----------------------------------------------------------------------------
\* Every address space: the last page the kernel's or absent.
PageTables == [0..(PT_PAGES - 1) -> {"absent", "kernel", "user"}]
NoTable == [i \in 0..(PT_PAGES - 1) |-> "absent"]
PdEntries ==
  [kind : {"absent", "kernel", "user"}, pt : {NoTable}] \union [kind : {"table"}, pt : PageTables]
Roots == {root \in [PdIndices -> PdEntries] : ~is_user_mapped(root, ADDRS - 1)}

\* The bytes a task may pass to a system call, from the definition of the page tables.
OwnBytes(root) ==
  {a \in Addrs :
     LET e == root[a \div (PAGE * PT_PAGES)] IN
     \/ e.kind = "user"
     \/ e.kind = "table" /\ e.pt[(a \div PAGE) % PT_PAGES] = "user"}

\* A copy of [ptr, ptr+len) against the bytes it may touch: it succeeds exactly when
\* all of the range is the task's, and has then copied that range; when it
\* fails, it has copied what comes before the first page that is not the task's.
CopyIs(own, r, ptr, len, limit) ==
  LET bad == (ptr..(ptr + len - 1)) \ own
  IN  /\ r.ok <=> bad = {} /\ len <= limit
      /\ r.ok => r.bytes = Bytes(ptr, ptr + len)
      /\ ~r.ok => /\ \A i \in 1..Len(r.bytes) : r.bytes[i] = ptr + i - 1
                  /\ \A i \in 1..Len(r.bytes) : r.bytes[i] \in own
                  /\ len <= limit /\ ptr + len < ADDRS => ptr + Len(r.bytes) \in bad

\* A string copied from ptr, with the only NUL at nul: all it reads, up to the NUL or
\* the end of the buffer, is the task's, or it fails.
StringIs(own, r, ptr, nul) ==
  LET cut == nul \notin ptr..(ptr + CSTR_BUF - 2)
      n == IF cut THEN CSTR_BUF - 1 ELSE nul - ptr
      read == ptr..(IF cut THEN ptr + n - 1 ELSE nul)
  IN  /\ r.ok <=> read \subseteq own
      /\ r.ok => r.bytes = Bytes(ptr, ptr + n)
=============================================================================
