-------------------------- MODULE TicketLockProofs --------------------------
(***************************************************************************)
(* Proofs about the ticket lock, for every set of processors and every     *)
(* width of the counters.                                                  *)
(***************************************************************************)
EXTENDS TicketLock, FiniteSetTheorems, TLAPS

Owners == Spinning \union Holders

\* fetch_add on a counter in range: the next value, or zero at the end.
LEMMA IncIsOff ==
  ASSUME NEW x \in Tickets
  PROVE  Inc(x) \in Tickets /\ Inc(x) = Off(x, 1)
<1>1. TicketMod \in Nat /\ TicketMod > 0
  BY TicketAssumption
<1>2. CASE x = TicketMod - 1
  <2>1. x + 1 = TicketMod
    BY <1>1, <1>2
  <2>2. TicketMod % TicketMod = 0
    BY <1>1
  <2> QED
    BY <1>1, <2>1, <2>2 DEF Inc, Off, Tickets
<1>3. CASE x # TicketMod - 1
  <2>1. x + 1 \in 0..(TicketMod - 1)
    BY <1>1, <1>3 DEF Tickets
  <2>2. (x + 1) % TicketMod = x + 1
    BY <1>1, <2>1
  <2> QED
    BY <1>1, <2>1, <2>2 DEF Inc, Off, Tickets
<1> QED
  BY <1>2, <1>3

-----------------------------------------------------------------------------
\* A processor is in the queue at most once, so the queue is never longer than
\* the set of processors, and its tickets do not come round.
LEMMA QueueBound ==
  ASSUME NEW q \in Seq(Procs),
         \A i, j \in 1..Len(q) : i # j => q[i] # q[j]
  PROVE  Len(q) <= TicketMod
<1>1. q \in [1..Len(q) -> Procs] /\ Len(q) \in Nat
  OBVIOUS
<1>2. q \in Injection(1..Len(q), Procs)
  BY <1>1 DEF Injection, IsInjective
<1>3. Cardinality(1..Len(q)) = Len(q)
  <2>1. Cardinality(1..Len(q)) = IF 1 > Len(q) THEN 0 ELSE Len(q) - 1 + 1
    BY ONLY <1>1, 1 \in Int, Len(q) \in Int, FS_Interval
  <2> QED
    BY <1>1, <2>1
<1>4. Cardinality(1..Len(q)) <= Cardinality(Procs)
  BY ONLY <1>2, FS_Injection, ProcsAssumption
<1>5. Cardinality(Procs) \in Nat
  BY ONLY ProcsAssumption, FS_CardinalityType
<1> QED
  BY <1>1, <1>3, <1>4, <1>5, TicketAssumption

\* A holder stands at the head of the queue: another place would mean a ticket
\* other than the one being served.
LEMMA HolderIsHead ==
  ASSUME TypeOK, TicketOrder, NEW p \in Holders
  PROVE  Len(queue) > 0 /\ queue[1] = p /\ Head(queue) = p
<1>1. PICK i \in 1..Len(queue) : queue[i] = p
  BY DEF TicketOrder
<1>2. my[p] = next /\ my[p] = Off(next, i - 1)
  BY <1>1 DEF TicketOrder
<1>3. Len(queue) <= TicketMod /\ Len(queue) \in Nat
  BY QueueBound DEF TypeOK, TicketOrder
<1>4. i = 1
  BY <1>2, <1>3, TicketAssumption DEF Off, TypeOK, Tickets
<1> QED
  BY <1>1, <1>3, <1>4 DEF TypeOK

-----------------------------------------------------------------------------
IInv == TypeOK /\ TicketOrder

LEMMA InitIInv == new => IInv
BY TicketAssumption
   DEF new, IInv, TypeOK, TicketOrder, Tickets, PCs, Off, Holders, Spinning

\* Taking a ticket, in lock() or by the compare_exchange of try_lock(): p goes
\* to the end of the queue with the ticket handed out.
LEMMA TakeTicket ==
  ASSUME IInv, NEW p \in Procs, p \notin Owners,
         NEW l \in {"lockSpin", "trySpin"},
         my' = [my EXCEPT ![p] = ticket],
         ticket' = Inc(ticket), next' = next,
         pc' = [pc EXCEPT ![p] = l],
         queue' = Append(queue, p)
  PROVE  IInv'
<1> USE DEF IInv
<1>1. TypeOK'
  BY IncIsOff DEF TypeOK, PCs
<1>2. Len(queue') = Len(queue) + 1 /\ Len(queue) \in Nat
  BY DEF TypeOK
<1>3. \A i \in 1..Len(queue) : queue'[i] = queue[i] /\ queue[i] \in Procs /\ queue[i] # p
  BY DEF TypeOK, TicketOrder, Owners
<1>4. queue'[Len(queue')] = p
  BY <1>2 DEF TypeOK
<1>5. \A i \in 1..Len(queue') : i \in 1..Len(queue) \/ i = Len(queue')
  BY <1>2
<1>6. \A i, j \in 1..Len(queue') : i # j => queue'[i] # queue'[j]
  BY <1>3, <1>4, <1>5 DEF TicketOrder
<1>7. Len(queue') <= TicketMod
  BY <1>1, <1>6, QueueBound DEF TypeOK
<1>8. (Spinning \union Holders)' = (Spinning \union Holders) \union {p}
  BY DEF Spinning, Holders, TypeOK
<1>9. \A q \in Procs : q # p => my'[q] = my[q] /\ pc'[q] = pc[q]
  BY DEF TypeOK
<1>10. my'[p] = ticket /\ pc'[p] = l
  BY DEF TypeOK
<1>11. \A i \in 1..Len(queue') :
         /\ queue'[i] \in (Spinning \union Holders)'
         /\ my'[queue'[i]] = Off(next', i - 1)
  <2> SUFFICES ASSUME NEW i \in 1..Len(queue')
               PROVE  /\ queue'[i] \in (Spinning \union Holders)'
                      /\ my'[queue'[i]] = Off(next', i - 1)
    OBVIOUS
  <2>1. CASE i \in 1..Len(queue)
    BY <2>1, <1>3, <1>8, <1>9 DEF TicketOrder
  <2>2. CASE i = Len(queue')
    <3>1. i - 1 = Len(queue)
      BY <2>2, <1>2
    <3>2. my'[queue'[i]] = ticket
      BY <2>2, <1>4, <1>10
    <3>3. my'[queue'[i]] = Off(next', i - 1)
      BY <3>1, <3>2 DEF TicketOrder
    <3> QED
      BY <2>2, <3>3, <1>4, <1>8
  <2> QED
    BY <2>1, <2>2, <1>5
<1>12. \A q \in (Spinning \union Holders)' : \E i \in 1..Len(queue') : queue'[i] = q
  <2> SUFFICES ASSUME NEW q \in (Spinning \union Holders)'
               PROVE  \E i \in 1..Len(queue') : queue'[i] = q
    OBVIOUS
  <2>1. CASE q = p
    <3>1. Len(queue') \in 1..Len(queue')
      BY <1>2
    <3> QED
      BY <3>1, <2>1, <1>4
  <2>2. CASE q # p
    <3>1. PICK i \in 1..Len(queue) : queue[i] = q
      BY <2>2, <1>8 DEF TicketOrder
    <3>2. i \in 1..Len(queue')
      BY <1>2
    <3> QED
      BY <3>1, <3>2, <1>3
  <2> QED
    BY <2>1, <2>2
<1>13. ticket' = Off(next', Len(queue'))
  <2>1. ticket' = Off(ticket, 1) /\ ticket = Off(next, Len(queue))
    BY IncIsOff DEF TypeOK, TicketOrder
  <2> QED
    BY <2>1, <1>2, <1>7, TicketAssumption DEF Off, TypeOK, Tickets
<1>14. \A q \in Holders' : my'[q] = next'
  BY <1>9, <1>10 DEF Holders, TicketOrder
<1> QED
  BY <1>1, <1>6, <1>11, <1>12, <1>13, <1>14 DEF TicketOrder

\* Giving the ticket back: everybody behind the holder moves up by one place,
\* and so does the ticket being served.
LEMMA GiveBack ==
  ASSUME IInv, NEW p \in Procs, drop(p)
  PROVE  IInv'
<1> USE DEF IInv
<1>1. p \in Holders /\ Len(queue) > 0 /\ queue[1] = p
  BY HolderIsHead DEF drop, Holders
<1>2. Len(queue) \in Nat /\ Len(queue) <= TicketMod
  BY QueueBound DEF TypeOK, TicketOrder
<1>3. queue' = Tail(queue) /\ queue' \in Seq(Procs) /\ Len(queue') = Len(queue) - 1
  BY <1>1, <1>2 DEF drop, TypeOK
<1>4. \A i \in 1..Len(queue') : i + 1 \in 1..Len(queue) /\ queue'[i] = queue[i + 1]
  BY <1>1, <1>2, <1>3 DEF TypeOK
<1>5. TypeOK'
  BY <1>3, IncIsOff DEF drop, TypeOK, PCs
<1>6. \A i, j \in 1..Len(queue') : i # j => queue'[i] # queue'[j]
  BY <1>2, <1>3, <1>4 DEF TicketOrder
<1>7. (Spinning \union Holders)' = (Spinning \union Holders) \ {p}
  BY DEF drop, Spinning, Holders, TypeOK
<1>8. next' = Off(next, 1)
  BY IncIsOff DEF drop, TypeOK
<1>9. \A i \in 1..Len(queue') :
        /\ queue'[i] \in (Spinning \union Holders)'
        /\ my'[queue'[i]] = Off(next', i - 1)
  <2> SUFFICES ASSUME NEW i \in 1..Len(queue')
               PROVE  /\ queue'[i] \in (Spinning \union Holders)'
                      /\ my'[queue'[i]] = Off(next', i - 1)
    OBVIOUS
  <2>1. i + 1 \in 1..Len(queue) /\ i + 1 # 1 /\ queue'[i] = queue[i + 1]
    BY <1>2, <1>3, <1>4
  <2>2. queue[i + 1] \in Spinning \union Holders /\ queue[i + 1] # p
    BY <2>1, <1>1 DEF TicketOrder
  <2>3. my'[queue'[i]] = Off(next, (i + 1) - 1)
    BY <2>1 DEF TicketOrder, drop
  <2>4. Off(next, (i + 1) - 1) = Off(next', i - 1)
    BY <1>2, <1>3, <1>8, TicketAssumption DEF Off, TypeOK, Tickets
  <2> QED
    BY <2>1, <2>2, <2>3, <2>4, <1>7
<1>10. \A q \in (Spinning \union Holders)' : \E i \in 1..Len(queue') : queue'[i] = q
  <2> SUFFICES ASSUME NEW q \in (Spinning \union Holders)'
               PROVE  \E i \in 1..Len(queue') : queue'[i] = q
    OBVIOUS
  <2>1. PICK i \in 1..Len(queue) : queue[i] = q
    BY <1>7 DEF TicketOrder
  <2>2. i # 1
    BY <2>1, <1>1, <1>7
  <2>3. i - 1 \in 1..Len(queue') /\ (i - 1) + 1 = i
    BY <2>2, <1>2, <1>3
  <2> QED
    BY <2>1, <2>3, <1>4
<1>11. ticket' = Off(next', Len(queue'))
  BY <1>1, <1>2, <1>3, <1>8, TicketAssumption, SMTT(30)
     DEF Off, TypeOK, Tickets, TicketOrder, drop
<1>12. Holders' = {}
  <2>1. \A q \in Procs : pc[q] = "held" => q = p
    BY <1>1, HolderIsHead DEF Holders
  <2> QED
    BY <2>1 DEF drop, Holders, TypeOK
<1> QED
  BY <1>5, <1>6, <1>9, <1>10, <1>11, <1>12 DEF TicketOrder

\* Steps that neither take nor return a ticket.
LEMMA OtherSteps ==
  ASSUME IInv, NEW p \in Procs,
         \/ spin(p)
         \/ try_lock_load_ticket(p)
         \/ try_lock_load_next(p)
         \/ try_lock_cas_fail(p)
  PROVE  IInv'
<1> USE DEF IInv
<1>1. CASE spin(p)
  <2>1. (Spinning \union Holders)' = Spinning \union Holders
    BY <1>1 DEF spin, Spinning, Holders, TypeOK
  <2>2. TypeOK'
    BY <1>1 DEF spin, TypeOK, PCs
  <2>3. \A q \in Holders' : my'[q] = next'
    BY <1>1 DEF spin, Holders, TypeOK, TicketOrder
  <2> QED
    BY <1>1, <2>1, <2>2, <2>3 DEF spin, TicketOrder
<1>2. CASE try_lock_load_ticket(p)
  <2>1. (Spinning \union Holders)' = Spinning \union Holders /\ Holders' = Holders
    BY <1>2 DEF try_lock_load_ticket, Spinning, Holders, TypeOK
  <2>2. TypeOK'
    BY <1>2 DEF try_lock_load_ticket, TypeOK, PCs
  <2>3. \A q \in Spinning \union Holders : my'[q] = my[q]
    BY <1>2 DEF try_lock_load_ticket, Spinning, Holders, TypeOK
  <2> QED
    BY <1>2, <2>1, <2>2, <2>3 DEF try_lock_load_ticket, TicketOrder
<1>3. CASE try_lock_load_next(p) \/ try_lock_cas_fail(p)
  <2>1. (Spinning \union Holders)' = Spinning \union Holders /\ Holders' = Holders
    BY <1>3 DEF try_lock_load_next, try_lock_cas_fail, Spinning, Holders, TypeOK
  <2>2. TypeOK'
    BY <1>3 DEF try_lock_load_next, try_lock_cas_fail, TypeOK, PCs
  <2> QED
    BY <1>3, <2>1, <2>2 DEF try_lock_load_next, try_lock_cas_fail, TicketOrder
<1> QED
  BY <1>1, <1>2, <1>3

LEMMA NextIInv == IInv /\ [Next]_vars => IInv'
<1> SUFFICES ASSUME IInv, [Next]_vars
             PROVE  IInv'
  OBVIOUS
<1>1. ASSUME NEW p \in Procs, lock(p)
      PROVE  IInv'
  <2>1. p \notin Owners
    BY <1>1 DEF lock, Owners, Spinning, Holders
  <2> QED
    BY <1>1, <2>1, TakeTicket DEF lock
<1>2. ASSUME NEW p \in Procs, try_lock_cas_ok(p)
      PROVE  IInv'
  <2>1. p \notin Owners
    BY <1>2 DEF try_lock_cas_ok, Owners, Spinning, Holders
  <2>2. my' = [my EXCEPT ![p] = ticket]
    BY <1>2 DEF try_lock_cas_ok, IInv, TypeOK
  <2> QED
    BY <1>2, <2>1, <2>2, TakeTicket DEF try_lock_cas_ok
<1>3. ASSUME NEW p \in Procs, drop(p)
      PROVE  IInv'
  BY <1>3, GiveBack
<1>4. CASE UNCHANGED vars
  BY <1>4 DEF IInv, TypeOK, TicketOrder, vars, Spinning, Holders
<1> QED
  BY <1>1, <1>2, <1>3, <1>4, OtherSteps DEF Next

\* The counters, the local tickets and the queue stay in their ranges and the
\* tickets of the owners stay consecutive, whatever lock(), try_lock() and
\* drop() are doing.
THEOREM TicketInvariant == Safety => [](TypeOK /\ TicketOrder)
<1>1. Safety => []IInv
  BY InitIInv, NextIInv, PTL DEF Safety
<1> QED
  BY <1>1, PTL DEF IInv

\* Two processors never own a SpinLockGuard of the same lock, for any number of
\* processors and any counter width that can number them.
THEOREM LockIsExclusive == Safety => []MutualExclusion
<1>1. IInv => MutualExclusion
  BY HolderIsHead DEF IInv, MutualExclusion
<1> QED
  BY <1>1, InitIInv, NextIInv, PTL DEF Safety

-----------------------------------------------------------------------------
\* A processor whose spin loop may end is at the head of the queue, and nobody
\* is in the critical section.
LEMMA SpinnerServed ==
  ASSUME IInv, NEW p \in Procs, spin(p)
  PROVE  queue # <<>> /\ Head(queue) = p /\ Holders = {}
<1> USE DEF IInv
<1>1. p \in Spinning /\ p \notin Holders
  BY DEF spin, Spinning, Holders
<1>2. PICK i \in 1..Len(queue) : queue[i] = p
  BY <1>1 DEF TicketOrder
<1>3. next = Off(next, i - 1)
  BY <1>2 DEF TicketOrder, spin
<1>4. Len(queue) <= TicketMod /\ Len(queue) \in Nat
  BY QueueBound DEF TypeOK, TicketOrder
<1>5. i = 1
  BY <1>3, <1>4, TicketAssumption DEF Off, TypeOK, Tickets
<1>6. queue[1] = p /\ Len(queue) > 0
  BY <1>2, <1>4, <1>5
<1>7. Holders = {}
  BY <1>1, <1>6, HolderIsHead
<1> QED
  BY <1>6, <1>7 DEF TypeOK

LEMMA StepRefines ==
  ASSUME IInv, [Next]_vars
  PROVE  [Fifo!Next]_(Fifo!vars)
<1> USE DEF Fifo!Next, Fifo!vars
<1>1. ASSUME NEW p \in Procs, lock(p) \/ try_lock_cas_ok(p)
      PROVE  Fifo!Request(p)
  <2>1. p \notin Spinning \union Holders
    BY <1>1 DEF lock, try_lock_cas_ok, Spinning, Holders
  <2>2. \A i \in 1..Len(queue) : queue[i] # p
    BY <2>1 DEF IInv, TicketOrder
  <2>3. Holders' = Holders
    BY <1>1 DEF lock, try_lock_cas_ok, Holders, IInv, TypeOK
  <2> QED
    BY <1>1, <2>2, <2>3 DEF Fifo!Request, lock, try_lock_cas_ok
<1>2. ASSUME NEW p \in Procs, spin(p)
      PROVE  Fifo!Grant
  <2>1. Holders' = Holders \union {p}
    BY <1>2 DEF spin, Holders, IInv, TypeOK
  <2> QED
    BY <1>2, <2>1, SpinnerServed DEF Fifo!Grant, spin
<1>3. ASSUME NEW p \in Procs, drop(p)
      PROVE  Fifo!Release
  <2>1. p \in Holders
    BY <1>3 DEF drop, Holders
  <2>2. Len(queue) > 0 /\ Head(queue) = p
    BY <2>1, HolderIsHead DEF IInv
  <2>3. Holders = {p}
    BY <2>1, <2>2, HolderIsHead DEF IInv
  <2>4. Holders' = Holders \ {p}
    BY <1>3 DEF drop, Holders, IInv, TypeOK
  <2> QED
    BY <1>3, <2>2, <2>3, <2>4 DEF Fifo!Release, drop
<1>4. ASSUME NEW p \in Procs,
             \/ try_lock_load_ticket(p)
             \/ try_lock_load_next(p)
             \/ try_lock_cas_fail(p)
      PROVE  UNCHANGED <<queue, Holders>>
  BY <1>4 DEF try_lock_load_ticket, try_lock_load_next, try_lock_cas_fail,
              Holders, IInv, TypeOK
<1>5. CASE UNCHANGED vars
  BY <1>5 DEF vars, Holders
<1> QED
  BY <1>1, <1>2, <1>3, <1>4, <1>5 DEF Next

\* The ticket lock implements the FIFO lock: the guard goes to whoever took a
\* ticket first (the module comment's "threads acquire in the order they
\* request the lock"), try_lock and wrap-around of the counters included.
THEOREM LockIsFifo == Safety => Fifo!Safety
<1>1. new => Fifo!Init
  BY DEF new, Fifo!Init, Holders
<1>2. IInv /\ [Next]_vars => [Fifo!Next]_(Fifo!vars)
  BY StepRefines
<1>3. Safety => []IInv
  BY InitIInv, NextIInv, PTL DEF Safety
<1> QED
  BY <1>1, <1>2, <1>3, PTL DEF Safety, Fifo!Safety
=============================================================================
