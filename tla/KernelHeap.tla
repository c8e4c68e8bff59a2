----------------------------- MODULE KernelHeap -----------------------------
(***************************************************************************)
(* The kernel's heap (allocator.rs, heap.rs): a free list per block size   *)
(* over a bump allocator, without a lock.  A thread's alloc and dealloc    *)
(* are two steps, what is loaded and what is stored, between which an      *)
(* interrupt handler may allocate and free; the handler's are one.  A      *)
(* failed allocation stops the kernel (alloc_error).                       *)
(*                                                                         *)
(*   list_heads   the first free block of each size, 0 for null            *)
(*   link         BlockNode::next of free blocks                           *)
(*   size         the block size each block was carved for, 0 for a larger *)
(*                allocation, which dealloc does not get back              *)
(*   bump         the bump allocator's next: blocks 1 .. bump - 1 exist    *)
(*   heapOp       the thread's unfinished alloc or dealloc                 *)
(*   owned        the blocks the thread has                                *)
(*   gone         larger allocations that were freed: never used again     *)
(***************************************************************************)
EXTENDS Naturals, Sequences, FiniteSets

CONSTANTS
  Sizes,          \* BLOCK_SIZES
  HEAP_BLOCKS     \* how many blocks the heap has room for

ASSUME KernelHeapAssumption == HEAP_BLOCKS \in Nat /\ IsFiniteSet(Sizes)

VARIABLES list_heads, link, size, bump, heapOp, owned, gone

heapVars == <<list_heads, link, size, bump, heapOp, owned, gone>>
lists == <<list_heads, link, size, bump>>

Blocks == 1..HEAP_BLOCKS
NoOp == [op |-> "none"]

HeapInit ==
  /\ list_heads = [s \in Sizes |-> 0]
  /\ link = [b \in Blocks |-> 0]
  /\ size = [b \in Blocks |-> 0]
  /\ bump = 1
  /\ heapOp = NoOp
  /\ owned = {}
  /\ gone = {}

\* The block size for a request, 0 if no block is large enough.
get_block_index(n) ==
  IF \A s \in Sizes : s < n THEN 0
  ELSE CHOOSE s \in Sizes : s >= n /\ \A r \in Sizes : r >= n => s <= r

\* The blocks in the lists: the heads, and what the links lead to.
FreeBlocks ==
  LET within[n \in 0..HEAP_BLOCKS] ==
        IF n = 0 THEN {list_heads[s] : s \in Sizes} \ {0}
        ELSE LET near == within[n - 1] IN near \union ({link[b] : b \in near} \ {0})
  IN  within[HEAP_BLOCKS]

\* How many heads and links of free blocks point to a block.
Pointers(b) == Cardinality({s \in Sizes : list_heads[s] = b})
               + Cardinality({c \in FreeBlocks : link[c] = b})

\* The block alloc returns: the head of the list, or a new one from the bump allocator.
Fresh(s) == s = 0 \/ list_heads[s] = 0
Candidate(s) == IF Fresh(s) THEN bump ELSE list_heads[s]
HasRoom(s) == Fresh(s) => bump <= HEAP_BLOCKS

\* Mutant of Popped: the head is not advanced.
Popped_kept(s, b, fresh) == list_heads

\* The list heads after alloc's store of the next free block.
Popped(s, b, fresh) == IF fresh THEN list_heads ELSE [list_heads EXCEPT ![s] = link[b]]

\* alloc's other stores, for the block b it loaded.
Take(s, b, fresh) ==
  /\ bump' = IF fresh THEN b + 1 ELSE bump
  /\ size' = [size EXCEPT ![b] = s]

\* What the owner of a block writes replaces the link that was in it.
Overwritten(b) == [link EXCEPT ![b] = 0]

\* The thread's alloc: the head, or the bump pointer, is loaded ...
alloc_load(n) ==
  LET s == get_block_index(n) IN
  /\ heapOp = NoOp
  /\ HasRoom(s)
  /\ heapOp' = [op |-> "alloc", s |-> s, b |-> Candidate(s), fresh |-> Fresh(s)]
  /\ UNCHANGED <<lists, owned, gone>>

\* ... and the next value stored.
alloc_store ==
  /\ heapOp.op = "alloc"
  /\ Take(heapOp.s, heapOp.b, heapOp.fresh)
  /\ list_heads' = Popped(heapOp.s, heapOp.b, heapOp.fresh)
  /\ owned' = owned \union {heapOp.b}
  /\ link' = Overwritten(heapOp.b)
  /\ heapOp' = NoOp
  /\ UNCHANGED gone

\* The thread's dealloc: the block is linked to the head ...
dealloc_link(b) ==
  /\ heapOp = NoOp
  /\ owned' = owned \ {b}
  /\ IF size[b] = 0
     THEN gone' = gone \union {b} /\ UNCHANGED <<lists, heapOp>>
     ELSE /\ link' = [link EXCEPT ![b] = list_heads[size[b]]]
          /\ heapOp' = [op |-> "dealloc", b |-> b]
          /\ UNCHANGED <<list_heads, size, bump, gone>>

\* ... and becomes the head.
dealloc_store ==
  /\ heapOp.op = "dealloc"
  /\ list_heads' = [list_heads EXCEPT ![size[heapOp.b]] = heapOp.b]
  /\ heapOp' = NoOp
  /\ UNCHANGED <<link, size, bump, owned, gone>>

\* An interrupt handler exchanges its block old (0: it has none) for one of n bytes.
isr_realloc(n, old) ==
  LET s == get_block_index(n)
      b == Candidate(s)
      popped == Popped(s, b, Fresh(s))
      back == old # 0 /\ size[old] # 0
  IN  /\ HasRoom(s)
      /\ Take(s, b, Fresh(s))
      /\ list_heads' = IF back THEN [popped EXCEPT ![size[old]] = old] ELSE popped
      /\ link' = IF back THEN [Overwritten(b) EXCEPT ![old] = popped[size[old]]]
                  ELSE Overwritten(b)
      /\ gone' = IF old # 0 /\ ~back THEN gone \union {old} ELSE gone
      /\ UNCHANGED <<heapOp, owned>>
=============================================================================
