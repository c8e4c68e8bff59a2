--------------------------- MODULE KernelLogProofs ---------------------------
(***************************************************************************)
(* The kernel log holds the most recent output, in order, for every number *)
(* of printing tasks and every size of the ring, wherever the timer cuts   *)
(* in.                                                                     *)
(***************************************************************************)
EXTENDS KernelLog, SequenceTheorems, TLAPS

N == DMESG_BUF_SIZE

LogType ==
  /\ current \in Threads
  /\ on \in [Threads -> BOOLEAN]
  /\ pc \in [Threads -> {"run", "spin", "store", "advance", "dspin", "dump"}]
  /\ dumping \in BOOLEAN
  /\ queue \in Seq(Threads \X {1, 2})
  /\ BUF \in [0..(N - 1) -> Nat]
  /\ WRITE_POS \in 0..(N - 1)
  /\ Wrapped \in BOOLEAN
  /\ recent \in Seq(Nat)

\* The ticket of the thread that is in the critical section of push_byte is being served; so
\* is dump's from lock() on, and a println! inside dump never gets that far.
Serving ==
  /\ \A t \in Threads : pc[t] \in {"store", "advance"} =>
       Served(<<t, 1>>) /\ ~dumping
  /\ dumping => Served(<<0, 1>>)

\* Where a ring that starts at p keeps its k-th byte, and where the recent bytes start.
Place(p, k) == IF p + k - 1 < N THEN p + k - 1 ELSE p + k - 1 - N
First == IF Wrapped THEN WRITE_POS ELSE 0

Advancing == \E t \in Threads : pc[t] = "advance"

\* The ring is the recent bytes; from the store to the advance of WRITE_POS the new byte
\* already stands where the oldest one was.
RingIsRecent ==
  /\ Len(recent) = IF Wrapped THEN N ELSE WRITE_POS
  /\ \A k \in 1..Len(recent) :
       recent[k] = BUF[Place(First, k)] \/ (Advancing /\ Place(First, k) = WRITE_POS)
  /\ \A t \in Threads : pc[t] = "advance" => BUF[WRITE_POS] = Byte(t)

LogInv == LogType /\ Serving /\ RingIsRecent

\* The size of the ring.
LEMMA RingSize == N \in Nat /\ N > 0 /\ 0 \in Threads /\ Threads \subseteq Nat
BY KernelLogAssumption DEF N, Threads

\* Adding a ticket behind another one.
LEMMA TicketAppended ==
  ASSUME NEW S, NEW s \in Seq(S), NEW x \in S
  PROVE  /\ Append(s, x) \in Seq(S) /\ Append(s, x) # <<>>
         /\ s # <<>> => Head(Append(s, x)) = Head(s)
<1>1. Append(s, x) \in Seq(S) /\ Append(s, x) # <<>>
  BY AppendProperties
<1>2. ASSUME s # <<>> PROVE Head(Append(s, x)) = Head(s)
  <2>1. Head(s) = s[1] /\ Len(s) \in Nat /\ Len(s) >= 1
    BY <1>2
  <2>2. Append(s, x)[1] = s[1]
    BY <2>1
  <2> QED
    BY <1>1, <2>1, <2>2
<1> QED
  BY <1>1, <1>2

\* Giving tickets back.
LEMMA TicketServed ==
  ASSUME NEW S, NEW s \in Seq(S), s # <<>>
  PROVE  Tail(s) \in Seq(S)
OBVIOUS

\* The log starts empty.
LEMMA LogInit == Init => LogInv
<1> SUFFICES ASSUME Init PROVE LogInv
  OBVIOUS
<1>1. LogType
  BY RingSize DEF Init, LogType, Zero, N
<1>2. Serving
  BY DEF Init, Serving, Served
<1>3. RingIsRecent
  BY DEF Init, RingIsRecent
<1> QED
  BY <1>1, <1>2, <1>3 DEF LogInv

\* Tickets are pairs of a thread and 1, or 2 for the println! inside dump.
LEMMA TicketType ==
  ASSUME NEW t \in Threads
  PROVE  Ticket(t) \in Threads \X {1, 2}
BY DEF Ticket

\* Every step keeps the types.
LEMMA LogTypeStep ==
  ASSUME LogInv, [Next]_vars
  PROVE  LogType'
<1> USE RingSize DEF LogInv, LogType
<1>1. CASE sti_cli
  BY <1>1 DEF sti_cli, ring
<1>2. CASE print
  BY <1>2, TicketType, TicketAppended DEF print, ring
<1>3. CASE dump
  BY <1>3, TicketType, TicketAppended DEF dump, ring
<1>4. CASE push_byte_locked
  BY <1>4 DEF push_byte_locked, ring
<1>5. CASE push_byte_store
  BY <1>5 DEF push_byte_store, Byte
<1>6. CASE push_byte_advance
  <2>1. queue' \in Seq(Threads \X {1, 2})
    <3>1. queue # <<>> /\ ~dumping
      BY <1>6 DEF push_byte_advance, Serving, Served
    <3> QED
      BY <1>6, <3>1, TicketServed DEF push_byte_advance
  <2>2. WRITE_POS' \in 0..(N - 1)
    BY <1>6 DEF push_byte_advance, wrap, N
  <2>3. recent' \in Seq(Nat)
    <3>1. Byte(current) \in Nat
      BY DEF Byte
    <3>2. CASE Len(recent) = DMESG_BUF_SIZE
      <4>1. recent # <<>>
        BY <3>2 DEF N
      <4> QED
        BY <1>6, <3>1, <3>2, <4>1, TicketServed, TicketAppended DEF push_byte_advance
    <3>3. CASE Len(recent) # DMESG_BUF_SIZE
      BY <1>6, <3>1, <3>3, TicketAppended DEF push_byte_advance
    <3> QED
      BY <3>2, <3>3
  <2>4. on' \in [Threads -> BOOLEAN] /\ dumping' \in BOOLEAN /\ Wrapped' \in BOOLEAN
    BY <1>6 DEF push_byte_advance
  <2> QED
    BY <1>6, <2>1, <2>2, <2>3, <2>4 DEF push_byte_advance
<1>7. CASE dump_locked
  BY <1>7 DEF dump_locked, ring
<1>8. CASE dump_println
  BY <1>8, TicketType, TicketAppended DEF dump_println, ring
<1>9. ASSUME NEW t \in Threads, timer_switch(t) PROVE LogType'
  BY <1>9 DEF timer_switch, ring
<1>10. CASE UNCHANGED vars
  BY <1>10 DEF vars, ring
<1> QED
  BY <1>1, <1>2, <1>3, <1>4, <1>5, <1>6, <1>7, <1>8, <1>9, <1>10 DEF Next, Step

\* DMESG_LOCK keeps push_byte's critical section to one thread.
LEMMA ServingStep ==
  ASSUME LogInv, [Next]_vars
  PROVE  Serving'
<1> USE RingSize DEF LogInv, LogType, Serving, Served
<1> DEFINE T == Threads \X {1, 2}
<1>1. ASSUME NEW x \in T, queue' = Append(queue, x), dumping' = dumping,
             \A t \in Threads : pc'[t] \in {"store", "advance"} => pc'[t] = pc[t]
      PROVE  Serving'
  <2>1. queue' # <<>> /\ (queue # <<>> => Head(queue') = Head(queue))
    BY <1>1, TicketAppended
  <2> QED
    BY <1>1, <2>1
<1>2. ASSUME queue' = queue, dumping' = dumping,
             \A t \in Threads : pc'[t] \in {"store", "advance"} => pc[t] \in {"store", "advance"}
      PROVE  Serving'
  BY <1>2
<1>3. CASE sti_cli
  BY <1>2, <1>3 DEF sti_cli
<1>4. CASE print
  BY <1>1, <1>4, TicketType DEF print
<1>5. CASE dump
  BY <1>1, <1>5, TicketType DEF dump
<1>6. CASE push_byte_locked
  <2>1. ~dumping
    BY <1>6 DEF push_byte_locked, Ticket
  <2> QED
    BY <1>6, <2>1 DEF push_byte_locked, Ticket
<1>7. CASE push_byte_store
  BY <1>2, <1>7 DEF push_byte_store
<1>8. CASE push_byte_advance
  <2>1. ~dumping /\ ~dumping'
    BY <1>8 DEF push_byte_advance
  <2>2. \A t \in Threads : pc[t] \in {"store", "advance"} => t = current
    BY <1>8 DEF push_byte_advance
  <2> QED
    BY <1>8, <2>1, <2>2 DEF push_byte_advance
<1>9. CASE dump_locked
  <2>1. Head(queue) = <<0, 1>> \/ dumping
    BY <1>9 DEF dump_locked, Ticket
  <2> QED
    BY <1>9, <2>1 DEF dump_locked
<1>10. CASE dump_println
  BY <1>1, <1>10, TicketType DEF dump_println
<1>11. ASSUME NEW t \in Threads, timer_switch(t) PROVE Serving'
  BY <1>2, <1>11 DEF timer_switch
<1>12. CASE UNCHANGED vars
  BY <1>2, <1>12 DEF vars
<1> QED
  BY <1>3, <1>4, <1>5, <1>6, <1>7, <1>8, <1>9, <1>10, <1>11, <1>12 DEF Next, Step

\* The store puts the byte where the oldest one stood, or in a free place.
LEMMA RingStore ==
  ASSUME LogInv, push_byte_store
  PROVE  RingIsRecent'
<1> USE RingSize DEF LogInv, LogType
<1>1. /\ pc' = [pc EXCEPT ![current] = "advance"]
      /\ BUF' = [BUF EXCEPT ![WRITE_POS] = Byte(current)]
      /\ UNCHANGED <<WRITE_POS, Wrapped, recent>>
      /\ pc[current] = "store"
  BY DEF push_byte_store
<1>2. Advancing' /\ ~Advancing
  BY <1>1 DEF Advancing, Serving, Served
<1>3. \A t \in Threads : pc'[t] = "advance" => t = current
  BY <1>1, <1>2 DEF Advancing
<1>4. First' = First /\ First \in 0..(N - 1)
  BY <1>1 DEF First
<1>5. ASSUME NEW k \in 1..Len(recent)
      PROVE  recent[k] = BUF'[Place(First, k)] \/ Place(First, k) = WRITE_POS'
  <2>1. recent[k] = BUF[Place(First, k)]
    BY <1>2 DEF RingIsRecent
  <2>2. Place(First, k) \in 0..(N - 1)
    BY <1>4 DEF Place, RingIsRecent
  <2> QED
    BY <1>1, <2>1, <2>2
<1>6. BUF'[WRITE_POS'] = Byte(current)
  BY <1>1
<1> QED
  BY <1>1, <1>2, <1>3, <1>4, <1>5, <1>6 DEF RingIsRecent, Byte, Place

\* The recent bytes once another one has come.
LEMMA RecentAppended ==
  ASSUME NEW s \in Seq(Nat), NEW x \in Nat, s # <<>>
  PROVE  /\ Len(Append(Tail(s), x)) = Len(s)
         /\ \A k \in 1..(Len(s) - 1) : Append(Tail(s), x)[k] = s[k + 1]
         /\ Append(Tail(s), x)[Len(s)] = x
<1>1. /\ Tail(s) \in Seq(Nat) /\ Len(Tail(s)) = Len(s) - 1
      /\ \A k \in 1..Len(Tail(s)) : Tail(s)[k] = s[k + 1]
  OBVIOUS
<1> QED
  BY <1>1, AppendProperties

\* RingIsRecent after a step that ends outside push_byte.
LEMMA Restated ==
  ASSUME ~Advancing',
         Len(recent') = IF Wrapped' THEN N ELSE WRITE_POS',
         \A k \in 1..Len(recent') : recent'[k] = BUF'[Place(First', k)]
  PROVE  RingIsRecent'
BY DEF RingIsRecent, Advancing, Place, N

\* The advance makes the oldest byte of a full ring the newest one.
LEMMA RingAdvance ==
  ASSUME LogInv, push_byte_advance
  PROVE  RingIsRecent'
<1> USE RingSize DEF LogInv, LogType
<1> DEFINE b == Byte(current)
<1>1. /\ pc' = [pc EXCEPT ![current] = "run"]
      /\ BUF' = BUF
      /\ WRITE_POS' = wrap(WRITE_POS + 1)
      /\ Wrapped' = (Wrapped \/ WRITE_POS + 1 >= N)
      /\ recent' = Append(IF Len(recent) = N THEN Tail(recent) ELSE recent, b)
      /\ pc[current] = "advance"
  BY DEF push_byte_advance, N
<1>2. ~Advancing'
  BY <1>1 DEF Advancing, Serving, Served
<1>3. BUF[WRITE_POS] = b /\ b \in Nat
  BY <1>1 DEF RingIsRecent, Byte
<1>0. ASSUME NEW j \in 1..Len(recent), Place(First, j) # WRITE_POS
      PROVE  recent[j] = BUF[Place(First, j)]
  BY <1>0 DEF RingIsRecent
<1> HIDE DEF b
<1>4. CASE Wrapped
  <2>1. Len(recent) = N /\ recent # <<>> /\ First = WRITE_POS
    BY <1>4 DEF RingIsRecent, First
  <2>2. /\ Len(recent') = N
        /\ \A k \in 1..(N - 1) : recent'[k] = recent[k + 1]
        /\ recent'[N] = b
    BY <1>1, <1>3, <2>1, RecentAppended
  <2>3. Wrapped' /\ First' = IF WRITE_POS + 1 = N THEN 0 ELSE WRITE_POS + 1
    <3>1. Wrapped'
      BY <1>1, <1>4, Zenon
    <3>2. WRITE_POS' = IF WRITE_POS + 1 = N THEN 0 ELSE WRITE_POS + 1
      BY <1>1 DEF wrap, N
    <3> QED
      BY <3>1, <3>2 DEF First
  <2>4. ASSUME NEW k \in 1..(N - 1) PROVE recent'[k] = BUF'[Place(First', k)]
    <3>1. Place(First', k) = Place(First, k + 1) /\ Place(First, k + 1) # WRITE_POS
      BY <2>1, <2>3 DEF Place
    <3>2. recent[k + 1] = BUF[Place(First, k + 1)]
      <4>1. k + 1 \in 1..Len(recent)
        BY <2>1
      <4> QED
        BY <1>0, <3>1, <4>1, Zenon
    <3> QED
      BY <1>1, <2>2, <3>1, <3>2
  <2>5. Place(First', N) = WRITE_POS
    BY <2>3 DEF Place
  <2>6. recent'[N] = BUF'[Place(First', N)]
    BY <1>1, <1>3, <2>2, <2>5
  <2>7. ASSUME NEW k \in 1..N PROVE recent'[k] = BUF'[Place(First', k)]
    <3>1. k \in 1..(N - 1) \/ k = N
      OBVIOUS
    <3> QED
      BY <2>4, <2>6, <3>1, Zenon
  <2> QED
    BY <1>2, <2>2, <2>3, <2>7, Restated
<1>5. CASE ~Wrapped
  <2>1. Len(recent) = WRITE_POS /\ Len(recent) # N /\ First = 0
    BY <1>5 DEF RingIsRecent, First
  <2>2. /\ Len(recent') = WRITE_POS + 1
        /\ \A k \in 1..WRITE_POS : recent'[k] = recent[k]
        /\ recent'[WRITE_POS + 1] = b
    BY <1>1, <1>3, <2>1, AppendProperties
  <2>3. First' = 0 /\ Len(recent') = IF Wrapped' THEN N ELSE WRITE_POS'
    <3>1. CASE WRITE_POS + 1 = N
      <4>1. WRITE_POS + 1 >= N /\ WRITE_POS' = 0
        BY <1>1, <3>1 DEF wrap, N
      <4>2. Wrapped'
        BY <1>1, <4>1, Zenon
      <4> QED
        BY <2>2, <3>1, <4>1, <4>2 DEF First
    <3>2. CASE WRITE_POS + 1 # N
      <4>1. ~(WRITE_POS + 1 >= N) /\ WRITE_POS' = WRITE_POS + 1
        BY <1>1, <3>2 DEF wrap, N
      <4>2. ~Wrapped'
        BY <1>1, <1>5, <4>1, Zenon
      <4> QED
        BY <2>2, <4>1, <4>2 DEF First
    <3> QED
      BY <3>1, <3>2
  <2>4. ASSUME NEW k \in 1..(WRITE_POS + 1) PROVE Place(0, k) = k - 1
    BY DEF Place
  <2>5. ASSUME NEW k \in 1..WRITE_POS PROVE recent'[k] = BUF'[Place(0, k)]
    <3>1. Place(0, k) # WRITE_POS
      BY DEF Place
    <3>2. recent[k] = BUF[Place(0, k)]
      BY <1>0, <2>1, <3>1, Zenon
    <3> QED
      BY <1>1, <2>2, <3>2
  <2>6. recent'[WRITE_POS + 1] = BUF'[Place(0, WRITE_POS + 1)]
    <3>1. Place(0, WRITE_POS + 1) = WRITE_POS
      BY DEF Place
    <3>2. BUF'[WRITE_POS] = b
      BY <1>1, <1>3, Zenon
    <3> QED
      BY <2>2, <3>1, <3>2, Zenon
  <2>7. ASSUME NEW k \in 1..Len(recent') PROVE recent'[k] = BUF'[Place(First', k)]
    <3>1. First' = 0 /\ (k \in 1..WRITE_POS \/ k = WRITE_POS + 1)
      BY <2>2, <2>3
    <3> QED
      BY <2>3, <2>5, <2>6, <3>1, Zenon
  <2> QED
    BY <1>2, <2>3, <2>7, Restated
<1> QED
  BY <1>4, <1>5

\* The other steps leave the ring alone.
LEMMA RingStep ==
  ASSUME LogInv, [Next]_vars
  PROVE  RingIsRecent'
<1> USE RingSize DEF LogInv, LogType
<1>1. ASSUME UNCHANGED ring, \A t \in Threads : pc'[t] = "advance" <=> pc[t] = "advance"
      PROVE  RingIsRecent'
  BY <1>1 DEF RingIsRecent, Place, First, Advancing, ring
<1>2. CASE sti_cli
  BY <1>1, <1>2 DEF sti_cli
<1>3. CASE print
  BY <1>1, <1>3 DEF print
<1>4. CASE dump
  BY <1>1, <1>4 DEF dump
<1>5. CASE push_byte_locked
  BY <1>1, <1>5 DEF push_byte_locked
<1>6. CASE dump_locked
  BY <1>1, <1>6 DEF dump_locked
<1>7. CASE dump_println
  BY <1>1, <1>7 DEF dump_println
<1>8. ASSUME NEW t \in Threads, timer_switch(t) PROVE RingIsRecent'
  BY <1>1, <1>8 DEF timer_switch
<1>9. CASE UNCHANGED vars
  BY <1>1, <1>9 DEF vars
<1> QED
  BY <1>2, <1>3, <1>4, <1>5, <1>6, <1>7, <1>8, <1>9, RingStore, RingAdvance DEF Next, Step

\* The index arithmetic of dump.
LEMMA DumpPlace ==
  ASSUME NEW a \in 0..(2 * N - 1)
  PROVE  a % N = IF a < N THEN a ELSE a - N
BY RingSize

\* Between two pushes dump prints the last DMESG_BUF_SIZE bytes in the order they were
\* pushed, whichever threads pushed them (push_byte, dump).
THEOREM LogIsRecent ==
  Spec => []DumpIsRecent
<1>1. LogInv /\ [Next]_vars => LogInv'
  BY LogTypeStep, ServingStep, RingStep DEF LogInv
<1>2. LogInv => DumpIsRecent
  <2> SUFFICES ASSUME LogInv, ~Advancing PROVE Dumped = recent
    BY DEF DumpIsRecent, Advancing
  <2> USE RingSize DEF LogInv, LogType
  <2> DEFINE total == IF Wrapped THEN N ELSE WRITE_POS
             start == IF Wrapped THEN WRITE_POS ELSE 0
  <2>1. total \in Nat /\ Len(recent) = total
    BY DEF RingIsRecent
  <2>2. Dumped = [k \in 1..total |-> BUF[(start + k - 1) % N]]
    BY DEF Dumped, N
  <2>3. ASSUME NEW k \in 1..total PROVE BUF[(start + k - 1) % N] = recent[k]
    <3>1. start + k - 1 \in 0..(2 * N - 1)
      OBVIOUS
    <3>2. (start + k - 1) % N = Place(First, k)
      BY <3>1, DumpPlace DEF Place, First
    <3> QED
      BY <2>1, <3>2 DEF RingIsRecent
  <2>4. recent = [k \in 1..total |-> recent[k]]
    BY <2>1
  <2> HIDE DEF total, start
  <2> QED
    BY <2>2, <2>3, <2>4
<1> QED
  BY <1>1, <1>2, LogInit, PTL DEF Spec
=============================================================================
