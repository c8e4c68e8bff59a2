---------------------------- MODULE Fat32Proofs -----------------------------
(***************************************************************************)
(* FAT32 commands never cross-link or free the chain of a file or of the   *)
(* directory, and lose clusters only where they fail, for every size of    *)
(* the volume, of its directory clusters and of what is written, as long   *)
(* as every rm reads back the first cluster of the file it removes.        *)
(***************************************************************************)
EXTENDS Fat32, WellFoundedInduction, TLAPS

(* Chains as functions of a FAT f.                                         *)

Fats == [Clusters -> Clusters \union {0, EOC}]

NextIn(f, c) == IF f[c] = EOC THEN 0 ELSE f[c]

WalkIn(f, c) ==
  LET nth[n \in 1..TOTAL] ==
        IF n = 1 THEN c ELSE IF nth[n - 1] = 0 THEN 0 ELSE NextIn(f, nth[n - 1])
  IN  nth

ChainIn(f, c) == {WalkIn(f, c)[n] : n \in 1..TOTAL} \ {0}

\* No cluster has two predecessors.
Injective(f) ==
  \A c, d \in Clusters : NextIn(f, c) # 0 /\ NextIn(f, c) = NextIn(f, d) => c = d

\* A used cluster that is no cluster's next.
Start(f, h) == h \in Clusters /\ f[h] # 0 /\ \A c \in Clusters : NextIn(f, c) # h

-----------------------------------------------------------------------------
DirEntries == {Unused, Deleted} \union [name : Names, cl : Clusters]

SlotSet == (1..TOTAL) \X (1..SLOTS)

\* The entries of a directory of clusters w[1], w[2], ... with slots d, without slot skip, and
\* the first clusters of their files.
EntriesIn(w, d, skip) ==
  {s \in SlotSet : w[s[1]] # 0 /\ s # skip /\ d[w[s[1]]][s[2]] \notin {Unused, Deleted}}
HeadsIn(w, d, skip) == [s \in EntriesIn(w, d, skip) |-> d[w[s[1]]][s[2]].cl]

Heads == [s \in Entries |-> Slot(s).cl]

IsCommand(o) ==
  /\ o = [step |-> o.step, name |-> o.name, file |-> o.file, cur |-> o.cur,
          new |-> o.new, left |-> o.left, slot |-> o.slot]
  /\ o.step # "idle" => o.name \in Names

TypeInv ==
  /\ fat \in Fats
  /\ dir \in [Clusters -> [1..SLOTS -> DirEntries]]
  /\ IsCommand(op)

\* Files start where no chain passes, each at a cluster of its own.
Starts(f, H) ==
  /\ Injective(f)
  /\ Start(f, ROOT)
  /\ \A s \in DOMAIN H : Start(f, H[s]) /\ H[s] # ROOT
  /\ \A s, t \in DOMAIN H : s # t => H[s] # H[t]

\* Cluster h starts a chain that no file has.
Fresh(f, H, h) == Start(f, h) /\ h # ROOT /\ \A s \in DOMAIN H : H[s] # h

\* A next cluster is in use, except the one o has just chained.
NextUsed(f, o) ==
  \A c \in Clusters : NextIn(f, c) # 0 =>
    f[NextIn(f, c)] # 0 \/ (o.step \in {"eoc", "dirEoc"} /\ NextIn(f, c) = o.new)

\* Clusters that were never the directory's hold no entries.
Unwritten(f, d) == \A c \in Clusters \ ChainIn(f, ROOT) : \A i \in 1..SLOTS : d[c][i] = Unused

\* What the command under way may rely on.
Creating(f, d, H, o) ==
  /\ o.step = "mark" => o.file \in Clusters /\ f[o.file] = 0
  /\ o.step \in {"slot", "dirEoc", "dirZero", "dirEntry"} => Fresh(f, H, o.file)
  /\ o.step \in {"dirEoc", "dirZero", "dirEntry"} =>
       o.new \in ChainIn(f, ROOT) /\ \A i \in 1..SLOTS : d[o.new][i] = Unused
  /\ o.step = "dirEoc" => f[o.new] = 0

Writing(f, H, o) ==
  /\ o.step \in {"data", "link", "eoc"} =>
       (\E s \in DOMAIN H : H[s] = o.file) /\ o.cur \in ChainIn(f, o.file)
  /\ o.step = "link" => NextIn(f, o.cur) = 0
  /\ o.step = "eoc" => o.new \in Clusters /\ f[o.new] = 0 /\ NextIn(f, o.cur) = o.new

Deleting(f, w, H, o) ==
  /\ o.step \notin {"free", "unlink"} => o.slot = NoSlot
  /\ o.step \in {"free", "unlink"} =>
       o.slot \in SlotSet /\ w[o.slot[1]] # 0 /\ o.file \in Clusters
  /\ o.step = "free" => Fresh(f, H, o.cur) /\ (o.file = o.cur \/ f[o.file] = 0)
  /\ o.step = "unlink" => f[o.file] = 0

Inv ==
  /\ TypeInv
  /\ Starts(fat, Heads) /\ NextUsed(fat, op) /\ Unwritten(fat, dir)
  /\ Creating(fat, dir, Heads, op) /\ Writing(fat, Heads, op)
  /\ Deleting(fat, DirCluster, Heads, op)

\* delete_file_entry has read the file's first cluster from the entry as create_file_entry
\* wrote it.
ReadBack == \A name \in Names : delete(name) => op'.cur = op'.file

-----------------------------------------------------------------------------
\* Induction over the natural numbers, in the form of sets.
LEMMA Least ==
  ASSUME NEW T, T \subseteq Nat, T # {}
  PROVE  \E n \in T : \A m \in T : n <= m
<1>1. OpToRel(<, Nat) = {ss \in Nat \X Nat : ss[1] < ss[2]}
  BY DEF OpToRel
<1> DEFINE R == {ss \in Nat \X Nat : ss[1] < ss[2]}
<1>2. IsWellFoundedOn(R, Nat)
  BY <1>1, NatLessThanWellFounded, Zenon
<1>3. PICK n \in T : \A m \in T : ~(<<m, n>> \in R)
  <2> HIDE DEF R
  <2> QED
    BY <1>2, WFMin, Zenon
<1>4. ASSUME NEW m \in T PROVE n <= m
  <2>1. m \in Nat /\ n \in Nat
    OBVIOUS
  <2>2. <<m, n>> \in R <=> m < n
    BY <2>1
  <2>3. ~(m < n)
    BY <1>3, <2>2
  <2> QED
    BY <2>1, <2>3
<1> QED
  BY <1>4

LEMMA SetInduction ==
  ASSUME NEW S, 0 \in S, \A n \in Nat : n \in S => n + 1 \in S
  PROVE  Nat \subseteq S
<1> DEFINE T == Nat \ S
<1>1. SUFFICES ASSUME T # {} PROVE FALSE
  OBVIOUS
<1>2. PICK n \in T : \A m \in T : n <= m
  BY <1>1, Least, Zenon
<1>3. n # 0 /\ n - 1 \in Nat /\ n - 1 \notin T
  BY <1>2
<1> QED
  BY <1>3

LEMMA Positions ==
  ASSUME NEW m \in Nat
  PROVE  /\ \A a \in 1..(m + 1) : a # m + 1 => a \in 1..m
         /\ \A i \in 1..(m + 1) : i \in 1..(m + 2) /\ i # m + 2
         /\ m + 2 \in 1..(m + 2) /\ m + 1 \in Nat /\ (m + 1) + 1 = m + 2
OBVIOUS

\* Of n + 1 numbers between 1 and n two are the same.
LEMMA Pigeonhole ==
  ASSUME NEW n \in Nat, NEW w \in [1..(n + 1) -> 1..n]
  PROVE  \E i, j \in 1..(n + 1) : i # j /\ w[i] = w[j]
<1> DEFINE Twice(m, v) == \E i, j \in 1..(m + 1) : i # j /\ v[i] = v[j]
           S == {m \in Nat : \A v \in [1..(m + 1) -> 1..m] : Twice(m, v)}
<1>1. ASSUME NEW v \in [1..(0 + 1) -> 1..0] PROVE FALSE
  OBVIOUS
<1>2. 0 \in S
  BY <1>1, Zenon
<1>3. ASSUME NEW m \in S PROVE m \in Nat /\ \A v \in [1..(m + 1) -> 1..m] : Twice(m, v)
  BY Zenon
<1>4. ASSUME NEW m \in Nat, \A v \in [1..(m + 1) -> 1..m] : Twice(m, v) PROVE m \in S
  BY <1>4, Zenon
<1> HIDE DEF S
<1>5. ASSUME NEW m \in Nat, m \in S, NEW v \in [1..(m + 2) -> 1..(m + 1)],
             \A i, j \in 1..(m + 2) : i # j => v[i] # v[j]
      PROVE  FALSE
  <2> DEFINE u == [i \in 1..(m + 1) |-> IF v[i] = m + 1 THEN v[m + 2] ELSE v[i]]
  <2>1. u \in [1..(m + 1) -> 1..m] => Twice(m, u)
    BY <1>3, <1>5, Zenon
  <2>2. ASSUME NEW i \in 1..(m + 1)
        PROVE  /\ i \in 1..(m + 2) /\ m + 2 \in 1..(m + 2) /\ i # m + 2
               /\ v[i] \in 1..(m + 1) /\ v[m + 2] \in 1..(m + 1)
    BY Positions, Zenon
  <2>3. ASSUME NEW i \in 1..(m + 1) PROVE v[i] # v[m + 2]
    BY <1>5, <2>2, Zenon
  <2>4. ASSUME NEW i \in 1..(m + 1) PROVE u[i] \in 1..m
    <3>1. PICK a, b : a = v[i] /\ b = v[m + 2] /\ u[i] = IF a = m + 1 THEN b ELSE a
      BY Zenon
    <3>2. a \in 1..(m + 1) /\ b \in 1..(m + 1) /\ a # b
      BY <2>2, <2>3, <3>1, Zenon
    <3>3. (IF a = m + 1 THEN b ELSE a) \in 1..m
      BY <3>2, Positions, Zenon
    <3> QED
      BY <3>1, <3>3, Zenon
  <2>5. u \in [1..(m + 1) -> 1..m]
    BY <2>4, Zenon
  <2>6. PICK i \in 1..(m + 1), j \in 1..(m + 1) : i # j /\ u[i] = u[j]
    BY <2>1, <2>5, Zenon
  <2>7. v[i] # v[j] /\ v[i] # v[m + 2] /\ v[j] # v[m + 2]
    BY <1>5, <2>2, <2>3, <2>6, Zenon
  <2> QED
    BY <2>6, <2>7, Zenon
<1>6. ASSUME NEW m \in Nat, m \in S PROVE m + 1 \in S
  <2>1. m + 1 \in Nat /\ (m + 1) + 1 = m + 2
    BY Positions
  <2>2. ASSUME NEW v \in [1..(m + 2) -> 1..(m + 1)]
        PROVE  \E i, j \in 1..(m + 2) : i # j /\ v[i] = v[j]
    <3>1. SUFFICES ASSUME \A i, j \in 1..(m + 2) : i # j => v[i] # v[j] PROVE FALSE
      BY Zenon
    <3> QED
      BY <1>5, <1>6, <3>1, Zenon
  <2>3. \A v \in [1..((m + 1) + 1) -> 1..(m + 1)] : Twice(m + 1, v)
    BY <2>1, <2>2, Zenon
  <2> QED
    BY <1>4, <2>1, <2>3, Zenon
<1>7. n \in S
  BY <1>2, <1>6, SetInduction, Zenon
<1> QED
  BY <1>3, <1>7, Zenon

\* Induction over the positions of a walk.
LEMMA WalkInduction ==
  ASSUME NEW S, 1 \in S, \A n \in 1..(TOTAL - 1) : n \in S => n + 1 \in S
  PROVE  1..TOTAL \subseteq S
<1> DEFINE T == {n \in 1..TOTAL : n \notin S}
<1>1. SUFFICES ASSUME T # {} PROVE FALSE
  OBVIOUS
<1>2. T \subseteq Nat
  OBVIOUS
<1>3. PICK n \in T : \A m \in T : n <= m
  <2> HIDE DEF T
  <2> QED
    BY <1>1, <1>2, Least, Zenon
<1>4. n \in 1..TOTAL /\ n \notin S /\ n # 1
  BY <1>3
<1>5. n - 1 \in 1..(TOTAL - 1) /\ n - 1 \in 1..TOTAL /\ ~(n <= n - 1) /\ (n - 1) + 1 = n
  BY <1>4, Fat32Assumption
<1>6. n - 1 \in S
  BY <1>3, <1>5
<1> QED
  BY <1>4, <1>5, <1>6

LEMMA Volume ==
  /\ TOTAL \in Nat /\ TOTAL >= 3 /\ ROOT \in Clusters
  /\ Clusters \subseteq Nat \ {0} /\ 0 \notin Clusters
  /\ EOC \notin Clusters /\ EOC # 0
BY Fat32Assumption DEF Clusters, EOC

LEMMA NextType ==
  ASSUME NEW f \in Fats, NEW c \in Clusters
  PROVE  /\ NextIn(f, c) \in Clusters \union {0}
         /\ f[c] = 0 => NextIn(f, c) = 0
         /\ NextIn(f, c) # 0 => f[c] # 0
BY Volume DEF Fats, NextIn

\* w goes through the chain of cluster c.
IsWalk(f, c, w) ==
  /\ w \in [1..TOTAL -> Clusters \union {0}]
  /\ w[1] = c
  /\ \A n \in 1..(TOTAL - 1) : w[n + 1] = IF w[n] = 0 THEN 0 ELSE NextIn(f, w[n])

LEMMA WalkExists ==
  ASSUME NEW f \in Fats, NEW c \in Clusters
  PROVE  \E w : IsWalk(f, c, w)
<1> DEFINE V == Clusters \union {0}
           Upto(m, w) == /\ w \in [1..m -> V] /\ w[1] = c
                         /\ \A n \in 1..(m - 1) : w[n + 1] = IF w[n] = 0 THEN 0 ELSE NextIn(f, w[n])
           S == {m \in Nat : \E w : Upto(m, w)}
<1>1. 1 \in S
  <2> DEFINE w == [i \in 1..1 |-> c]
  <2>1. w \in [1..1 -> V] /\ w[1] = c
    OBVIOUS
  <2>2. 1..(1 - 1) = {}
    OBVIOUS
  <2>3. Upto(1, w)
    BY <2>1, <2>2
  <2> QED
    BY <2>3, Zenon
<1>2. ASSUME NEW m \in 1..(TOTAL - 1), m \in S PROVE m + 1 \in S
  <2>1. PICK w : Upto(m, w)
    BY <1>2
  <2>2. m \in Nat /\ m \in 1..m /\ w[m] \in V
    BY <2>1
  <2>3. PICK v \in V : v = IF w[m] = 0 THEN 0 ELSE NextIn(f, w[m])
    BY <2>2, NextType
  <2> DEFINE u == [i \in 1..(m + 1) |-> IF i <= m THEN w[i] ELSE v]
  <2>4. u \in [1..(m + 1) -> V]
    BY <2>1, <2>2
  <2>5. u[1] = c
    BY <2>1, <2>2
  <2>6. ASSUME NEW n \in 1..((m + 1) - 1)
        PROVE  u[n + 1] = IF u[n] = 0 THEN 0 ELSE NextIn(f, u[n])
    <3>1. CASE n < m
      <4>1. n \in 1..(m - 1) /\ n \in 1..(m + 1) /\ n + 1 \in 1..(m + 1) /\ n <= m /\ n + 1 <= m
        BY <2>2, <3>1
      <4>2. u[n] = w[n] /\ u[n + 1] = w[n + 1]
        BY <4>1
      <4>3. w[n + 1] = IF w[n] = 0 THEN 0 ELSE NextIn(f, w[n])
        BY <2>1, <4>1
      <4> QED
        BY <4>2, <4>3
    <3>2. CASE n = m
      <4>1. n \in 1..(m + 1) /\ n + 1 \in 1..(m + 1) /\ n <= m /\ ~(n + 1 <= m)
        BY <2>2, <3>2
      <4>2. u[n] = w[m] /\ u[n + 1] = v
        BY <3>2, <4>1
      <4> QED
        BY <2>3, <4>2
    <3> QED
      BY <2>2, <3>1, <3>2
  <2>7. Upto(m + 1, u)
    BY <2>4, <2>5, <2>6, Zenon
  <2> HIDE DEF u, Upto
  <2> QED
    BY <2>2, <2>7
<1>3. 1..TOTAL \subseteq S
  <2> HIDE DEF S
  <2> QED
    BY <1>1, <1>2, WalkInduction
<1>4. TOTAL \in S
  <2> HIDE DEF S
  <2> QED
    BY <1>3, Volume
<1> QED
  BY <1>4 DEF IsWalk

\* The recursive definition is such a walk.
LEMMA WalkIs ==
  ASSUME NEW f \in Fats, NEW c \in Clusters
  PROVE  IsWalk(f, c, WalkIn(f, c))
<1> DEFINE G(w) == [n \in 1..TOTAL |->
                      IF n = 1 THEN c ELSE IF w[n - 1] = 0 THEN 0 ELSE NextIn(f, w[n - 1])]
<1>1. PICK w : IsWalk(f, c, w)
  BY WalkExists
<1>2. w = G(w)
  <2>1. w = [n \in 1..TOTAL |-> w[n]]
    BY <1>1 DEF IsWalk
  <2>2. ASSUME NEW n \in 1..TOTAL PROVE w[n] = G(w)[n]
    <3>1. CASE n = 1
      BY <1>1, <3>1 DEF IsWalk
    <3>2. CASE n # 1
      <4>1. n - 1 \in 1..(TOTAL - 1) /\ (n - 1) + 1 = n
        BY <3>2, Volume
      <4> QED
        BY <1>1, <3>2, <4>1 DEF IsWalk
    <3> QED
      BY <3>1, <3>2
  <2> QED
    BY <2>1, <2>2
<1>3. WalkIn(f, c) = CHOOSE u : u = G(u)
  BY DEF WalkIn
<1>4. PICK u : u = WalkIn(f, c) /\ u = G(u)
  BY <1>2, <1>3, Zenon
<1>5. u[1] = c
  BY <1>4, Volume
<1>6. ASSUME NEW n \in 1..(TOTAL - 1)
      PROVE  u[n + 1] = IF u[n] = 0 THEN 0 ELSE NextIn(f, u[n])
  <2>1. n + 1 \in 1..TOTAL /\ n + 1 # 1 /\ (n + 1) - 1 = n
    BY Volume
  <2> QED
    BY <1>4, <2>1, Zenon
<1>7. \A n \in 1..TOTAL : u[n] \in Clusters \union {0}
  <2> DEFINE S == {n \in 1..TOTAL : u[n] \in Clusters \union {0}}
  <2>1. 1 \in S
    BY <1>5, Volume
  <2>2. ASSUME NEW n \in 1..(TOTAL - 1), n \in S PROVE n + 1 \in S
    <3>1. n + 1 \in 1..TOTAL
      BY Volume
    <3> QED
      BY <1>6, <2>2, <3>1, NextType
  <2>3. 1..TOTAL \subseteq S
    <3> HIDE DEF S
    <3> QED
      BY <2>1, <2>2, WalkInduction
  <2> QED
    BY <2>3
<1>8. u \in [1..TOTAL -> Clusters \union {0}]
  BY <1>4, <1>7
<1> QED
  BY <1>4, <1>5, <1>6, <1>8 DEF IsWalk

\* One step of a walk.
LEMMA WalkStep ==
  ASSUME NEW f \in Fats, NEW c \in Clusters, NEW w, IsWalk(f, c, w),
         NEW n \in 1..TOTAL, w[n] # 0
  PROVE  /\ w[n] \in Clusters
         /\ n # TOTAL => n + 1 \in 1..TOTAL /\ w[n + 1] = NextIn(f, w[n])
         /\ n # 1 => n - 1 \in 1..TOTAL /\ w[n - 1] \in Clusters /\ w[n] = NextIn(f, w[n - 1])
<1>1. w[n] \in Clusters
  BY DEF IsWalk
<1>3. n # 1 => n - 1 \in 1..TOTAL /\ w[n - 1] \in Clusters /\ w[n] = NextIn(f, w[n - 1])
  <2>0. SUFFICES ASSUME n # 1
                 PROVE  n - 1 \in 1..TOTAL /\ w[n - 1] \in Clusters /\ w[n] = NextIn(f, w[n - 1])
    OBVIOUS
  <2>1. n - 1 \in 1..TOTAL /\ n - 1 \in 1..(TOTAL - 1) /\ (n - 1) + 1 = n
    BY <2>0, Volume
  <2>2. w[n] = IF w[n - 1] = 0 THEN 0 ELSE NextIn(f, w[n - 1])
    BY <2>1 DEF IsWalk
  <2>3. w[n - 1] \in Clusters
    BY <2>1, <2>2 DEF IsWalk
  <2> QED
    BY <2>1, <2>2, <2>3, Volume
<1>4. n # TOTAL => n + 1 \in 1..TOTAL /\ w[n + 1] = NextIn(f, w[n])
  <2>1. SUFFICES ASSUME n # TOTAL PROVE n + 1 \in 1..TOTAL /\ w[n + 1] = NextIn(f, w[n])
    OBVIOUS
  <2>2. n + 1 \in 1..TOTAL /\ n \in 1..(TOTAL - 1)
    BY <2>1, Volume
  <2> QED
    BY <2>2 DEF IsWalk
<1> QED
  BY <1>1, <1>3, <1>4

\* A walk does not come back from 0.
LEMMA WalkBefore ==
  ASSUME NEW f \in Fats, NEW c \in Clusters, NEW w, IsWalk(f, c, w),
         NEW n \in 1..TOTAL, w[n] # 0, NEW m \in 1..n
  PROVE  w[m] # 0
<1> DEFINE S == {k \in 1..TOTAL : w[k] # 0 => \A j \in 1..k : w[j] # 0}
<1>1. 1 \in S
  BY Volume
<1>2. ASSUME NEW k \in 1..(TOTAL - 1), k \in S PROVE k + 1 \in S
  <2>1. k + 1 \in 1..TOTAL /\ k + 1 # 1 /\ (k + 1) - 1 = k
    BY Volume
  <2>2. SUFFICES ASSUME w[k + 1] # 0, NEW j \in 1..(k + 1) PROVE w[j] # 0
    BY <2>1
  <2>3. w[k] # 0
    BY <2>1, <2>2, WalkStep, Volume
  <2>4. j \in 1..k \/ j = k + 1
    OBVIOUS
  <2> QED
    BY <1>2, <2>2, <2>3, <2>4
<1>3. 1..TOTAL \subseteq S
  <2> HIDE DEF S
  <2> QED
    BY <1>1, <1>2, WalkInduction
<1> QED
  BY <1>3

\* A walk from a start passes no cluster twice ...
LEMMA WalkOnce ==
  ASSUME NEW f \in Fats, Injective(f), NEW h, Start(f, h), NEW w, IsWalk(f, h, w),
         NEW m \in 1..TOTAL, NEW n \in 1..TOTAL, m < n, w[n] # 0
  PROVE  w[m] # w[n]
<1> DEFINE S == {k \in 1..TOTAL : \A j \in 1..TOTAL : k < j /\ w[j] # 0 => w[k] # w[j]}
<1>0. h \in Clusters
  BY DEF Start
<1>1. 1 \in S
  <2>1. SUFFICES ASSUME NEW j \in 1..TOTAL, 1 < j, w[j] # 0 PROVE w[1] # w[j]
    BY Volume
  <2>2. w[j - 1] \in Clusters /\ w[j] = NextIn(f, w[j - 1])
    BY <1>0, <2>1, WalkStep
  <2>3. w[1] = h
    BY DEF IsWalk
  <2> QED
    BY <2>2, <2>3 DEF Start
<1>2. ASSUME NEW k \in 1..(TOTAL - 1), k \in S PROVE k + 1 \in S
  <2>1. k + 1 \in 1..TOTAL /\ k + 1 # 1 /\ (k + 1) - 1 = k /\ k \in 1..TOTAL
    BY Volume
  <2>2. SUFFICES ASSUME NEW j \in 1..TOTAL, k + 1 < j, w[j] # 0, w[k + 1] = w[j] PROVE FALSE
    BY <2>1
  <2>3. j # 1 /\ k < j - 1
    BY <2>2
  <2>4. j - 1 \in 1..TOTAL /\ w[j - 1] \in Clusters /\ w[j] = NextIn(f, w[j - 1])
    BY <1>0, <2>2, <2>3, WalkStep
  <2>5. w[k] \in Clusters /\ w[k + 1] = NextIn(f, w[k])
    BY <1>0, <2>1, <2>2, WalkStep
  <2>6. w[k] = w[j - 1]
    BY <2>2, <2>4, <2>5 DEF Injective
  <2>7. w[j - 1] # 0
    BY <2>4, Volume
  <2> QED
    BY <1>2, <2>3, <2>4, <2>6, <2>7
<1>3. 1..TOTAL \subseteq S
  <2> HIDE DEF S
  <2> QED
    BY <1>1, <1>2, WalkInduction
<1> QED
  BY <1>3

\* ... so it comes to an end before TOTAL.
LEMMA WalkEnds ==
  ASSUME NEW f \in Fats, Injective(f), NEW h, Start(f, h), NEW w, IsWalk(f, h, w)
  PROVE  w[TOTAL] = 0
<1> SUFFICES ASSUME w[TOTAL] # 0 PROVE FALSE
  OBVIOUS
<1>0. h \in Clusters
  BY DEF Start
<1>1. \A n \in 1..TOTAL : w[n] \in Clusters
  <2> SUFFICES ASSUME NEW n \in 1..TOTAL PROVE w[n] \in Clusters
    OBVIOUS
  <2>1. TOTAL \in 1..TOTAL
    BY Volume
  <2>2. w[n] # 0
    BY <1>0, <2>1, WalkBefore
  <2> QED
    BY <1>0, <2>2, WalkStep
<1>2. \A m, n \in 1..TOTAL : m # n => w[m] # w[n]
  <2> SUFFICES ASSUME NEW m \in 1..TOTAL, NEW n \in 1..TOTAL, m # n PROVE w[m] # w[n]
    OBVIOUS
  <2>1. w[m] # 0 /\ w[n] # 0
    BY <1>1, Volume
  <2>2. CASE m < n
    BY <2>1, <2>2, WalkOnce
  <2>3. CASE n < m
    BY <2>1, <2>3, WalkOnce
  <2> QED
    BY <2>2, <2>3
<1>3. PICK n \in Nat : n + 1 = TOTAL
  BY Volume
<1>4. w \in [1..(n + 1) -> 1..n]
  BY <1>1, <1>3, Volume DEF IsWalk, Clusters
<1>5. PICK i \in 1..(n + 1), j \in 1..(n + 1) : i # j /\ w[i] = w[j]
  BY <1>4, Pigeonhole, Zenon
<1> QED
  BY <1>2, <1>3, <1>5

-----------------------------------------------------------------------------
\* Chains as sets: what is on them.
LEMMA ChainIs ==
  ASSUME NEW f \in Fats, NEW c \in Clusters
  PROVE  /\ c \in ChainIn(f, c)
         /\ ChainIn(f, c) \subseteq Clusters
         /\ \A n \in 1..TOTAL : WalkIn(f, c)[n] # 0 => WalkIn(f, c)[n] \in ChainIn(f, c)
         /\ \A d \in ChainIn(f, c) : \E n \in 1..TOTAL : WalkIn(f, c)[n] = d /\ d # 0
<1>1. PICK w : w = WalkIn(f, c) /\ IsWalk(f, c, w)
  BY WalkIs
<1>2. ChainIn(f, c) = {w[n] : n \in 1..TOTAL} \ {0}
  BY <1>1 DEF ChainIn
<1>3. 1 \in 1..TOTAL /\ w[1] = c /\ c # 0
  BY <1>1, Volume DEF IsWalk
<1>4. \A n \in 1..TOTAL : w[n] \in Clusters \union {0}
  BY <1>1 DEF IsWalk
<1> QED
  BY <1>1, <1>2, <1>3, <1>4

\* The chain of a start goes on to the end.
LEMMA ChainClosed ==
  ASSUME NEW f \in Fats, Injective(f), NEW h, Start(f, h),
         NEW d \in ChainIn(f, h), NextIn(f, d) # 0
  PROVE  NextIn(f, d) \in ChainIn(f, h)
<1>0. h \in Clusters
  BY DEF Start
<1>1. PICK w : w = WalkIn(f, h) /\ IsWalk(f, h, w)
  BY <1>0, WalkIs
<1>2. PICK n \in 1..TOTAL : w[n] = d /\ d # 0
  BY <1>0, <1>1, ChainIs
<1>3. n # TOTAL
  BY <1>1, <1>2, WalkEnds
<1>4. n + 1 \in 1..TOTAL /\ w[n + 1] = NextIn(f, d)
  BY <1>0, <1>1, <1>2, <1>3, WalkStep
<1> QED
  BY <1>0, <1>1, <1>4, ChainIs

\* A chain stays within every set that it cannot leave.
LEMMA ChainLeast ==
  ASSUME NEW f \in Fats, NEW c \in Clusters, NEW S, c \in S,
         \A d \in Clusters : d \in S /\ NextIn(f, d) # 0 => NextIn(f, d) \in S
  PROVE  ChainIn(f, c) \subseteq S
<1>1. PICK w : w = WalkIn(f, c) /\ IsWalk(f, c, w)
  BY WalkIs
<1> DEFINE T == {n \in 1..TOTAL : w[n] # 0 => w[n] \in S}
<1>2. 1 \in T
  BY <1>1, Volume DEF IsWalk
<1>3. ASSUME NEW n \in 1..(TOTAL - 1), n \in T PROVE n + 1 \in T
  <2>1. n + 1 \in 1..TOTAL /\ n + 1 # 1 /\ (n + 1) - 1 = n
    BY Volume
  <2>2. SUFFICES ASSUME w[n + 1] # 0 PROVE w[n + 1] \in S
    BY <2>1
  <2>3. w[n] \in Clusters /\ w[n + 1] = NextIn(f, w[n])
    BY <1>1, <2>1, <2>2, WalkStep
  <2>4. w[n] # 0
    BY <2>3, Volume
  <2> QED
    BY <1>3, <2>2, <2>3, <2>4
<1>4. 1..TOTAL \subseteq T
  <2> HIDE DEF T
  <2> QED
    BY <1>2, <1>3, WalkInduction
<1>5. ASSUME NEW d \in ChainIn(f, c) PROVE d \in S
  <2>1. PICK n \in 1..TOTAL : w[n] = d /\ d # 0
    BY <1>1, ChainIs
  <2> QED
    BY <1>4, <2>1
<1> QED
  BY <1>5

\* Every other cluster of a chain has one before it there.
LEMMA ChainBack ==
  ASSUME NEW f \in Fats, NEW c \in Clusters, NEW d \in ChainIn(f, c), d # c
  PROVE  \E e \in ChainIn(f, c) : NextIn(f, e) = d
<1>1. PICK w : w = WalkIn(f, c) /\ IsWalk(f, c, w)
  BY WalkIs
<1>2. PICK n \in 1..TOTAL : w[n] = d /\ d # 0
  BY <1>1, ChainIs
<1>3. n # 1
  BY <1>1, <1>2 DEF IsWalk
<1>4. n - 1 \in 1..TOTAL /\ w[n - 1] \in Clusters /\ w[n] = NextIn(f, w[n - 1])
  BY <1>1, <1>2, <1>3, WalkStep
<1>5. w[n - 1] \in ChainIn(f, c)
  BY <1>1, <1>4, ChainIs, Volume
<1> QED
  BY <1>2, <1>4, <1>5

\* No other chain passes a start, and the chains of two starts do not meet.
LEMMA StartApart ==
  ASSUME NEW f \in Fats, NEW h, Start(f, h), NEW c \in Clusters, c # h
  PROVE  h \notin ChainIn(f, c)
<1> SUFFICES ASSUME h \in ChainIn(f, c) PROVE FALSE
  OBVIOUS
<1>1. PICK e \in ChainIn(f, c) : NextIn(f, e) = h
  BY ChainBack
<1>2. e \in Clusters
  BY ChainIs
<1> QED
  BY <1>1, <1>2 DEF Start

LEMMA ChainsApart ==
  ASSUME NEW f \in Fats, Injective(f), NEW g, Start(f, g), NEW h, Start(f, h), g # h
  PROVE  ChainIn(f, g) \intersect ChainIn(f, h) = {}
<1>0. g \in Clusters /\ h \in Clusters
  BY DEF Start
<1> DEFINE S == Clusters \ ChainIn(f, h)
<1>1. g \in S
  BY <1>0, StartApart
<1>2. ASSUME NEW d \in Clusters, d \in S, NextIn(f, d) # 0 PROVE NextIn(f, d) \in S
  <2>1. NextIn(f, d) \in Clusters
    BY <1>2, NextType
  <2>2. SUFFICES ASSUME NextIn(f, d) \in ChainIn(f, h) PROVE FALSE
    BY <2>1
  <2>3. NextIn(f, d) # h
    BY DEF Start
  <2>4. PICK e \in ChainIn(f, h) : NextIn(f, e) = NextIn(f, d)
    BY <1>0, <2>2, <2>3, ChainBack
  <2>5. e \in Clusters
    BY <1>0, ChainIs
  <2>6. e = d
    BY <1>2, <2>4, <2>5 DEF Injective
  <2> QED
    BY <1>2, <2>6
<1>3. ChainIn(f, g) \subseteq S
  <2> HIDE DEF S
  <2> QED
    BY <1>0, <1>1, <1>2, ChainLeast
<1> QED
  BY <1>3

\* Two FATs that agree along a chain have the same chain there.
LEMMA WalkSame ==
  ASSUME NEW f \in Fats, NEW g \in Fats, NEW c \in Clusters,
         \A d \in ChainIn(f, c) : NextIn(g, d) = NextIn(f, d)
  PROVE  WalkIn(g, c) = WalkIn(f, c) /\ ChainIn(g, c) = ChainIn(f, c)
<1>1. PICK w : w = WalkIn(f, c) /\ IsWalk(f, c, w)
  BY WalkIs
<1>2. PICK u : u = WalkIn(g, c) /\ IsWalk(g, c, u)
  BY WalkIs
<1> DEFINE T == {n \in 1..TOTAL : u[n] = w[n]}
<1>3. 1 \in T
  BY <1>1, <1>2, Volume DEF IsWalk
<1>4. ASSUME NEW n \in 1..(TOTAL - 1), n \in T PROVE n + 1 \in T
  <2>1. n + 1 \in 1..TOTAL /\ n \in 1..TOTAL
    BY Volume
  <2>2. w[n + 1] = (IF w[n] = 0 THEN 0 ELSE NextIn(f, w[n]))
    BY <1>1 DEF IsWalk
  <2>3. u[n + 1] = (IF u[n] = 0 THEN 0 ELSE NextIn(g, u[n]))
    BY <1>2 DEF IsWalk
  <2>4. CASE w[n] = 0
    BY <1>4, <2>1, <2>2, <2>3, <2>4
  <2>5. CASE w[n] # 0
    <3>1. w[n] \in ChainIn(f, c)
      BY <1>1, <2>1, <2>5, ChainIs
    <3> QED
      BY <1>4, <2>1, <2>2, <2>3, <2>5, <3>1
  <2> QED
    BY <2>4, <2>5
<1>5. 1..TOTAL \subseteq T
  <2> HIDE DEF T
  <2> QED
    BY <1>3, <1>4, WalkInduction
<1>6. w = [n \in 1..TOTAL |-> w[n]] /\ u = [n \in 1..TOTAL |-> u[n]]
  BY <1>1, <1>2 DEF IsWalk
<1>7. u = w
  BY <1>5, <1>6
<1> QED
  BY <1>1, <1>2, <1>7 DEF ChainIn

\* A FAT with more links has longer chains.
LEMMA WalkGrows ==
  ASSUME NEW f \in Fats, NEW g \in Fats, NEW c \in Clusters,
         \A d \in Clusters : NextIn(f, d) # 0 => NextIn(g, d) = NextIn(f, d)
  PROVE  /\ \A n \in 1..TOTAL : WalkIn(f, c)[n] # 0 => WalkIn(g, c)[n] = WalkIn(f, c)[n]
         /\ ChainIn(f, c) \subseteq ChainIn(g, c)
<1>1. PICK w : w = WalkIn(f, c) /\ IsWalk(f, c, w)
  BY WalkIs
<1>2. PICK u : u = WalkIn(g, c) /\ IsWalk(g, c, u)
  BY WalkIs
<1> DEFINE T == {n \in 1..TOTAL : w[n] # 0 => u[n] = w[n]}
<1>3. 1 \in T
  BY <1>1, <1>2, Volume DEF IsWalk
<1>4. ASSUME NEW n \in 1..(TOTAL - 1), n \in T PROVE n + 1 \in T
  <2>1. n + 1 \in 1..TOTAL /\ n + 1 # 1 /\ (n + 1) - 1 = n /\ n # TOTAL /\ n \in 1..TOTAL
    BY Volume
  <2>2. SUFFICES ASSUME w[n + 1] # 0 PROVE u[n + 1] = w[n + 1]
    BY <2>1
  <2>3. w[n] \in Clusters /\ w[n + 1] = NextIn(f, w[n])
    BY <1>1, <2>1, <2>2, WalkStep
  <2>4. w[n] # 0 /\ u[n] = w[n]
    BY <1>4, <2>3, Volume
  <2>5. u[n + 1] = NextIn(g, u[n])
    BY <1>2, <2>1, <2>4, WalkStep
  <2> QED
    BY <2>2, <2>3, <2>4, <2>5
<1>5. 1..TOTAL \subseteq T
  <2> HIDE DEF T
  <2> QED
    BY <1>3, <1>4, WalkInduction
<1>6. \A n \in 1..TOTAL : w[n] # 0 => u[n] = w[n]
  BY <1>5
<1>7. ASSUME NEW d \in ChainIn(f, c) PROVE d \in ChainIn(g, c)
  <2>1. PICK n \in 1..TOTAL : w[n] = d /\ d # 0
    BY <1>1, ChainIs
  <2> QED
    BY <1>2, <1>6, <2>1, ChainIs
<1> QED
  BY <1>1, <1>2, <1>6, <1>7

-----------------------------------------------------------------------------
\* The state's chains and slots are those of its FAT, before and after a step.
LEMMA Here ==
  /\ \A c : next_cluster(c) = NextIn(fat, c)
  /\ \A c : Chain(c) = ChainIn(fat, c)
  /\ DirCluster = WalkIn(fat, ROOT)
<1>1. \A c : next_cluster(c) = NextIn(fat, c)
  BY DEF next_cluster, NextIn
<1>2. \A c : Walk(c) = WalkIn(fat, c)
  BY DEF Walk, WalkIn, next_cluster, NextIn
<1> QED
  BY <1>1, <1>2 DEF Chain, ChainIn, DirCluster

LEMMA There ==
  /\ DirCluster' = WalkIn(fat', ROOT)
<1> QED
  BY DEF DirCluster, Walk, WalkIn, next_cluster, NextIn

LEMMA SlotsHere ==
  /\ Entries = EntriesIn(DirCluster, dir, op.slot)
  /\ Heads = HeadsIn(DirCluster, dir, op.slot)
  /\ DOMAIN Heads = Entries
  /\ \A s \in Entries : Heads[s] = Slot(s).cl
<1>1. Entries = EntriesIn(DirCluster, dir, op.slot)
  BY DEF Entries, EntriesIn, SlotSet, SlotNos, Slot
<1>2. Heads = [s \in Entries |-> dir[DirCluster[s[1]]][s[2]].cl]
  BY DEF Heads, Slot
<1> QED
  BY <1>1, <1>2 DEF HeadsIn, Slot

LEMMA SlotsThere ==
  /\ Entries' = EntriesIn(DirCluster', dir', op'.slot)
  /\ Heads' = HeadsIn(DirCluster', dir', op'.slot)
  /\ SlotNos' = {s \in SlotSet : DirCluster'[s[1]] # 0}
<1>1. Entries' = EntriesIn(DirCluster', dir', op'.slot)
  BY DEF Entries, EntriesIn, SlotSet, SlotNos, Slot
<1>2. Heads' = [s \in Entries' |-> dir'[DirCluster'[s[1]]][s[2]].cl]
  BY DEF Heads, Slot
<1>3. SlotNos' = {s \in SlotSet : DirCluster'[s[1]] # 0}
  BY DEF SlotNos, SlotSet
<1> QED
  BY <1>1, <1>2, <1>3 DEF HeadsIn

\* The entries lie in the directory's clusters.
LEMMA DirFacts ==
  ASSUME Inv
  PROVE  /\ IsWalk(fat, ROOT, DirCluster)
         /\ \A s \in SlotNos : /\ s \in SlotSet
                               /\ DirCluster[s[1]] \in ChainIn(fat, ROOT)
                               /\ DirCluster[s[1]] \in Clusters
                               /\ Slot(s) \in DirEntries
         /\ \A s \in Entries : s \in SlotNos /\ Slot(s) \in [name : Names, cl : Clusters]
<1>1. IsWalk(fat, ROOT, DirCluster)
  BY Here, WalkIs, Volume DEF Inv, TypeInv
<1>2. ASSUME NEW s \in SlotNos
      PROVE  /\ s \in SlotSet /\ DirCluster[s[1]] \in ChainIn(fat, ROOT)
             /\ DirCluster[s[1]] \in Clusters /\ Slot(s) \in DirEntries
  <2>1. s \in SlotSet /\ s[1] \in 1..TOTAL /\ s[2] \in 1..SLOTS /\ DirCluster[s[1]] # 0
    BY DEF SlotNos, SlotSet
  <2>2. DirCluster[s[1]] \in ChainIn(fat, ROOT)
    BY <2>1, Here, ChainIs, Volume DEF Inv, TypeInv
  <2>3. DirCluster[s[1]] \in Clusters
    BY <2>2, ChainIs, Volume DEF Inv, TypeInv
  <2> QED
    BY <2>1, <2>2, <2>3, Zenon DEF Inv, TypeInv, Slot
<1>3. ASSUME NEW s \in Entries PROVE s \in SlotNos /\ Slot(s) \in [name : Names, cl : Clusters]
  BY <1>2 DEF Entries, DirEntries
<1> QED
  BY <1>1, <1>2, <1>3

\* The scan for a slot finds one of the set it looks for.
LEMMA FirstIn ==
  ASSUME NEW S, S \subseteq SlotSet, S # {}
  PROVE  First(S) \in S
<1> DEFINE A == {n \in 1..TOTAL : \E s \in S : s[1] = n}
<1>1. A \subseteq Nat /\ A # {}
  BY DEF SlotSet
<1>2. PICK n \in A : \A m \in A : n <= m
  <2> HIDE DEF A
  <2> QED
    BY <1>1, Least, Zenon
<1> DEFINE B == {i \in 1..SLOTS : <<n, i>> \in S}
<1>3. B \subseteq Nat /\ B # {}
  <2>1. PICK s \in S : s[1] = n
    BY <1>2
  <2>2. s = <<s[1], s[2]>> /\ s[2] \in 1..SLOTS
    BY <2>1 DEF SlotSet
  <2> QED
    BY <2>1, <2>2
<1>4. PICK i \in B : \A j \in B : i <= j
  <2> HIDE DEF B
  <2> QED
    BY <1>3, Least, Zenon
<1>5. ASSUME NEW t \in S PROVE t = <<n, i>> \/ Before(<<n, i>>, t)
  <2>1. t = <<t[1], t[2]>> /\ t[1] \in 1..TOTAL /\ t[2] \in 1..SLOTS
    BY DEF SlotSet
  <2>2. n <= t[1] /\ n \in Nat /\ i \in Nat /\ t[1] \in Nat /\ t[2] \in Nat
    BY <1>2, <1>4, <2>1, Volume
  <2>3. CASE t[1] = n
    <3>1. t[2] \in B
      BY <2>1, <2>3
    <3>2. i <= t[2]
      BY <1>4, <3>1
    <3>3. i = t[2] \/ i < t[2]
      BY <2>2, <3>2
    <3> QED
      BY <2>1, <2>3, <3>3 DEF Before
  <2>4. CASE t[1] # n
    <3>1. n < t[1]
      BY <2>2, <2>4
    <3> QED
      BY <3>1 DEF Before
  <2> QED
    BY <2>3, <2>4
<1>6. <<n, i>> \in S
  BY <1>4
<1>7. \E s \in S : \A t \in S : t = s \/ Before(s, t)
  BY <1>5, <1>6
<1> QED
  BY <1>7 DEF First

LEMMA Allocated ==
  ASSUME Free # {}
  PROVE  alloc_cluster \in Free
<1>1. Free \subseteq Nat
  BY Volume, Zenon DEF Free
<1>2. PICK c \in Free : \A d \in Free : c <= d
  BY <1>1, Least, Zenon
<1> QED
  BY <1>2 DEF alloc_cluster

-----------------------------------------------------------------------------
\* A step that leaves the disk and the slot left out alone.
LEMMA Quiet ==
  ASSUME UNCHANGED <<fat, dir>>, op'.slot = op.slot
  PROVE  DirCluster' = DirCluster /\ Heads' = Heads
<1>1. DirCluster' = DirCluster
  BY Here, There
<1> QED
  BY <1>1, SlotsHere, SlotsThere

LEMMA QuietStep ==
  ASSUME Inv, UNCHANGED <<fat, dir>>, op'.slot = op.slot, IsCommand(op'),
         NextUsed(fat, op'), Creating(fat, dir, Heads, op'), Writing(fat, Heads, op'),
         Deleting(fat, DirCluster, Heads, op')
  PROVE  Inv'
<1>1. DirCluster' = DirCluster /\ Heads' = Heads
  BY Quiet
<1>2. TypeInv'
  BY DEF Inv, TypeInv
<1> QED
  BY <1>1, <1>2 DEF Inv

LEMMA IdleCommand ==
  /\ Idle.step = "idle" /\ Idle.slot = NoSlot /\ IsCommand(Idle)
  /\ Idle.file = 0 /\ Idle.cur = 0 /\ Idle.new = 0
BY DEF Idle, IsCommand

\* Outside the steps between a link and its mark every next cluster is used.
LEMMA StrictlyUsed ==
  ASSUME Inv, op.step \notin {"eoc", "dirEoc"}
  PROVE  \A o : NextUsed(fat, o)
BY DEF Inv, NextUsed

\* A command gives up, or is done.
LEMMA BackToIdle ==
  ASSUME Inv, UNCHANGED <<fat, dir>>, op' = Idle,
         op.step \notin {"eoc", "dirEoc", "free", "unlink"}
  PROVE  Inv'
<1>1. op'.step = "idle" /\ op'.slot = NoSlot /\ IsCommand(op')
  BY IdleCommand
<1>2. op.slot = NoSlot
  BY DEF Inv, Deleting
<1>3. NextUsed(fat, op')
  BY StrictlyUsed
<1>4. Creating(fat, dir, Heads, op') /\ Writing(fat, Heads, op') /\ Deleting(fat, DirCluster, Heads, op')
  BY <1>1 DEF Creating, Writing, Deleting
<1> QED
  BY <1>1, <1>2, <1>3, <1>4, QuietStep

LEMMA CreateStep ==
  ASSUME Inv, NEW name \in Names, NEW n, create(name, n)
  PROVE  Inv'
<1>1. /\ op.step = "idle" /\ Free # {} /\ UNCHANGED <<fat, dir>>
      /\ op' = [Idle EXCEPT !.step = "mark", !.name = name, !.left = n, !.file = alloc_cluster]
  BY DEF create, At
<1>2. alloc_cluster \in Clusters /\ fat[alloc_cluster] = 0
  BY <1>1, Allocated DEF Free
<1>3. /\ op'.step = "mark" /\ op'.slot = NoSlot /\ op'.file = alloc_cluster
      /\ IsCommand(op')
  BY <1>1, Zenon DEF Idle, IsCommand
<1>4. op.slot = NoSlot /\ NextUsed(fat, op')
  BY <1>1, StrictlyUsed DEF Inv, Deleting
<1>5. Creating(fat, dir, Heads, op') /\ Writing(fat, Heads, op') /\ Deleting(fat, DirCluster, Heads, op')
  BY <1>2, <1>3 DEF Creating, Writing, Deleting
<1> QED
  BY <1>1, <1>3, <1>4, <1>5, QuietStep

LEMMA MatchFacts ==
  ASSUME Inv, op.step = "idle", NEW name \in Names, Matches(name) # {},
         NEW s, s = First(Matches(name))
  PROVE  /\ s \in Entries /\ s \in SlotSet /\ DirCluster[s[1]] # 0
         /\ Slot(s).cl \in Clusters /\ Heads[s] = Slot(s).cl
<1>1. Matches(name) \subseteq SlotSet
  BY DEF Matches, SlotNos, SlotSet
<1>2. s \in SlotNos /\ Slot(s).name = name
  BY <1>1, FirstIn DEF Matches
<1>3. s \in SlotSet /\ DirCluster[s[1]] # 0
  BY <1>2 DEF SlotNos, SlotSet
<1>4. op.slot = NoSlot
  BY DEF Inv, Deleting
<1>5. s # NoSlot
  BY <1>3 DEF SlotSet, NoSlot
<1>6. Slot(s) \notin {Unused, Deleted}
  BY <1>2, Fat32Assumption DEF Unused, Deleted
<1>7. s \in Entries
  BY <1>2, <1>4, <1>5, <1>6 DEF Entries
<1> QED
  BY <1>3, <1>7, DirFacts, SlotsHere

LEMMA WriteStep ==
  ASSUME Inv, NEW name \in Names, NEW n, write(name, n)
  PROVE  Inv'
<1> DEFINE cl == Slot(First(Matches(name))).cl
<1>1. /\ op.step = "idle" /\ Matches(name) # {} /\ UNCHANGED <<fat, dir>>
      /\ op' = [Idle EXCEPT !.step = "data", !.name = name, !.left = n, !.file = cl, !.cur = cl]
  BY DEF write, At
<1>2. First(Matches(name)) \in Entries /\ cl \in Clusters /\ Heads[First(Matches(name))] = cl
  BY <1>1, MatchFacts
<1> HIDE DEF cl
<1>3. /\ op'.step = "data" /\ op'.slot = NoSlot /\ op'.file = cl /\ op'.cur = cl
      /\ IsCommand(op')
  BY <1>1, Zenon DEF Idle, IsCommand
<1>4. op.slot = NoSlot /\ NextUsed(fat, op')
  BY <1>1, StrictlyUsed DEF Inv, Deleting
<1>5. cl \in ChainIn(fat, cl)
  BY <1>2, ChainIs DEF Inv, TypeInv
<1>6. Writing(fat, Heads, op')
  BY <1>2, <1>3, <1>5, SlotsHere DEF Writing
<1>7. Creating(fat, dir, Heads, op') /\ Deleting(fat, DirCluster, Heads, op')
  BY <1>3 DEF Creating, Deleting
<1> QED
  BY <1>1, <1>3, <1>4, <1>6, <1>7, QuietStep

LEMMA WriteDataStep ==
  ASSUME Inv, write_data
  PROVE  Inv'
<1>1. /\ op.step = "data" /\ UNCHANGED <<fat, dir>>
      /\ op' = IF op.left = 1 THEN Idle
               ELSE IF NextIn(fat, op.cur) = 0
                 THEN [op EXCEPT !.step = "link", !.left = @ - 1]
                 ELSE [op EXCEPT !.cur = NextIn(fat, op.cur), !.left = @ - 1]
  BY Here, Zenon DEF write_data, At
<1>2. CASE op.left = 1
  BY <1>1, <1>2, BackToIdle
<1>3. CASE op.left # 1
  <2>1. op.slot = NoSlot /\ NextUsed(fat, op')
    BY <1>1, StrictlyUsed DEF Inv, Deleting
  <2>2. PICK s \in DOMAIN Heads : Heads[s] = op.file
    BY <1>1 DEF Inv, Writing
  <2>3. op.cur \in ChainIn(fat, op.file)
    BY <1>1 DEF Inv, Writing
  <2>4. IsCommand(op)
    BY DEF Inv, TypeInv
  <2>5. CASE NextIn(fat, op.cur) = 0
    <3>1. op' = [op EXCEPT !.step = "link", !.left = @ - 1]
      BY <1>1, <1>3, <2>5
    <3>2. op'.step = "link" /\ op'.file = op.file /\ op'.cur = op.cur /\ op'.slot = op.slot /\ IsCommand(op')
      BY <1>1, <2>4, <3>1, Zenon DEF IsCommand
    <3>3. Writing(fat, Heads, op')
      BY <2>2, <2>3, <2>5, <3>2 DEF Writing
    <3>4. Creating(fat, dir, Heads, op') /\ Deleting(fat, DirCluster, Heads, op')
      BY <2>1, <3>2 DEF Creating, Deleting
    <3> QED
      BY <1>1, <2>1, <3>2, <3>3, <3>4, QuietStep
  <2>6. CASE NextIn(fat, op.cur) # 0
    <3>1. op' = [op EXCEPT !.cur = NextIn(fat, op.cur), !.left = @ - 1]
      BY <1>1, <1>3, <2>6
    <3>2. /\ op'.step = "data" /\ op'.file = op.file /\ op'.cur = NextIn(fat, op.cur)
          /\ op'.slot = op.slot /\ IsCommand(op')
      BY <1>1, <2>4, <3>1, Zenon DEF IsCommand
    <3>3. Start(fat, op.file) /\ Injective(fat) /\ fat \in Fats
      BY <2>2 DEF Inv, Starts, TypeInv
    <3>4. NextIn(fat, op.cur) \in ChainIn(fat, op.file)
      BY <2>3, <2>6, <3>3, ChainClosed
    <3>5. Writing(fat, Heads, op')
      BY <2>2, <3>2, <3>4 DEF Writing
    <3>6. Creating(fat, dir, Heads, op') /\ Deleting(fat, DirCluster, Heads, op')
      BY <2>1, <3>2 DEF Creating, Deleting
    <3> QED
      BY <1>1, <2>1, <3>2, <3>5, <3>6, QuietStep
  <2> QED
    BY <2>5, <2>6
<1> QED
  BY <1>2, <1>3

-----------------------------------------------------------------------------
LEMMA DeleteFacts ==
  ASSUME Inv, NEW name \in Names, delete(name), op'.cur = op'.file
  PROVE  \E s \in Entries :
           /\ op.step = "idle" /\ UNCHANGED <<fat, dir>> /\ DirCluster' = DirCluster
           /\ s \in SlotSet /\ DirCluster[s[1]] # 0 /\ Heads[s] \in Clusters
           /\ op'.step = "free" /\ op'.slot = s /\ op'.file = Heads[s] /\ op'.cur = Heads[s]
           /\ IsCommand(op')
           /\ DOMAIN Heads' = DOMAIN Heads \ {s} /\ \A t \in DOMAIN Heads' : Heads'[t] = Heads[t]
<1>1. PICK s : s = First(Matches(name))
  OBVIOUS
<1>2. op.step = "idle" /\ Matches(name) # {} /\ UNCHANGED <<fat, dir>>
  BY DEF delete, At
<1>3. /\ s \in Entries /\ s \in SlotSet /\ DirCluster[s[1]] # 0
      /\ Slot(s).cl \in Clusters /\ Heads[s] = Slot(s).cl
  BY <1>1, <1>2, MatchFacts
<1>4. entry_cluster(Slot(s)) = Slot(s).cl /\ Slot(s).cl >= 2
  <2>1. op'.cur = entry_cluster(Slot(s)) /\ op'.file = Slot(s).cl
    BY <1>1, Zenon DEF delete, Idle
  <2>2. Slot(s).cl >= 2
    BY <1>3 DEF Clusters
  <2> QED
    BY <2>1, <2>2, Zenon
<1>5. op' = [Idle EXCEPT !.step = "free", !.name = name, !.file = Slot(s).cl,
                         !.cur = Slot(s).cl, !.slot = s]
  BY <1>1, <1>4, Zenon DEF delete
<1>6. /\ op'.step = "free" /\ op'.slot = s /\ op'.file = Slot(s).cl /\ op'.cur = Slot(s).cl
      /\ IsCommand(op')
  BY <1>5, Zenon DEF Idle, IsCommand
<1>7. DirCluster' = DirCluster
  BY <1>2, Here, There
<1>8. Entries' = EntriesIn(DirCluster, dir, s) /\ Heads' = HeadsIn(DirCluster, dir, s)
  BY <1>2, <1>6, <1>7, SlotsThere
<1>9. op.slot = NoSlot
  BY <1>2 DEF Inv, Deleting
<1>10. NoSlot \notin SlotSet
  BY DEF SlotSet, NoSlot
<1>11. EntriesIn(DirCluster, dir, s) = Entries \ {s}
  BY <1>9, <1>10, SlotsHere DEF EntriesIn
<1>12. DOMAIN Heads' = Entries \ {s} /\ \A t \in Entries \ {s} : Heads'[t] = Slot(t).cl
  BY <1>8, <1>11 DEF HeadsIn, Slot
<1>13. DOMAIN Heads' = DOMAIN Heads \ {s} /\ \A t \in DOMAIN Heads' : Heads'[t] = Heads[t]
  BY <1>12, SlotsHere
<1> QED
  BY <1>2, <1>3, <1>6, <1>7, <1>13

LEMMA DeleteStep ==
  ASSUME Inv, NEW name \in Names, delete(name), op'.cur = op'.file
  PROVE  Inv'
<1>1. PICK s \in Entries :
        /\ op.step = "idle" /\ UNCHANGED <<fat, dir>> /\ DirCluster' = DirCluster
        /\ s \in SlotSet /\ DirCluster[s[1]] # 0 /\ Heads[s] \in Clusters
        /\ op'.step = "free" /\ op'.slot = s /\ op'.file = Heads[s] /\ op'.cur = Heads[s]
        /\ IsCommand(op')
        /\ DOMAIN Heads' = DOMAIN Heads \ {s} /\ \A t \in DOMAIN Heads' : Heads'[t] = Heads[t]
  BY DeleteFacts, Zenon
<1>2. s \in DOMAIN Heads
  BY <1>1, SlotsHere
<1>3. Starts(fat, Heads)
  BY DEF Inv
<1>4. Starts(fat, Heads')
  BY <1>1, <1>3 DEF Starts
<1>5. Fresh(fat, Heads', Heads[s])
  BY <1>1, <1>2, <1>3 DEF Starts, Fresh
<1>6. TypeInv'
  BY <1>1 DEF Inv, TypeInv
<1>7. NextUsed(fat, op')
  BY <1>1, StrictlyUsed
<1>8. Creating(fat, dir, Heads', op') /\ Writing(fat, Heads', op')
  BY <1>1 DEF Creating, Writing
<1>9. Deleting(fat, DirCluster, Heads', op')
  BY <1>1, <1>5 DEF Deleting
<1> QED
  BY <1>1, <1>4, <1>6, <1>7, <1>8, <1>9 DEF Inv

-----------------------------------------------------------------------------
\* A free cluster is marked: no link changes.
LEMMA Marked ==
  ASSUME Inv, NEW x \in Clusters, fat[x] = 0, fat' = [fat EXCEPT ![x] = EOC],
         UNCHANGED dir, op'.slot = op.slot
  PROVE  /\ fat' \in Fats /\ fat'[x] # 0 /\ \A c \in Clusters : c # x => fat'[c] = fat[c]
         /\ \A c \in Clusters : NextIn(fat', c) = NextIn(fat, c)
         /\ \A c \in Clusters : ChainIn(fat', c) = ChainIn(fat, c)
         /\ DirCluster' = DirCluster /\ Heads' = Heads
         /\ \A h : Start(fat, h) => Start(fat', h)
         /\ Starts(fat', Heads) /\ Unwritten(fat', dir)
<1>1. fat \in Fats
  BY DEF Inv, TypeInv
<1>2. fat' \in Fats
  BY <1>1 DEF Fats
<1>3. fat'[x] = EOC /\ \A c \in Clusters : c # x => fat'[c] = fat[c]
  BY <1>1 DEF Fats
<1>4. \A c \in Clusters : NextIn(fat', c) = NextIn(fat, c)
  BY <1>3, Volume DEF NextIn
<1>5. ASSUME NEW c \in Clusters
      PROVE  WalkIn(fat', c) = WalkIn(fat, c) /\ ChainIn(fat', c) = ChainIn(fat, c)
  <2>1. \A d \in ChainIn(fat, c) : NextIn(fat', d) = NextIn(fat, d)
    BY <1>1, <1>4, ChainIs, Zenon
  <2> QED
    BY <1>1, <1>2, <2>1, WalkSame, Zenon
<1>6. DirCluster' = DirCluster
  BY <1>5, Here, There, Volume, Zenon
<1>7. Heads' = Heads
  BY <1>6, SlotsHere, SlotsThere
<1>8. ASSUME NEW h, Start(fat, h) PROVE Start(fat', h)
  BY <1>3, <1>4, <1>8, Volume, Zenon DEF Start
<1>9. Starts(fat, Heads) /\ Unwritten(fat, dir)
  BY DEF Inv
<1>10. Injective(fat')
  BY <1>4, <1>9 DEF Starts, Injective
<1>11. Starts(fat', Heads)
  BY <1>8, <1>9, <1>10, Zenon DEF Starts
<1>12. Unwritten(fat', dir)
  BY <1>5, <1>9, Volume DEF Unwritten
<1> QED
  BY <1>2, <1>3, <1>4, <1>5, <1>6, <1>7, <1>8, <1>11, <1>12, Volume, Zenon

LEMMA CreateMarkStep ==
  ASSUME Inv, create_mark
  PROVE  Inv'
<1>1. op.step = "mark" /\ fat' = [fat EXCEPT ![op.file] = EOC] /\ UNCHANGED dir
  BY DEF create_mark, At, set_fat_entry
<1>2. op' = [op EXCEPT !.step = "slot"] /\ IsCommand(op)
  BY DEF create_mark, Goto, Inv, TypeInv
<1>3. op'.step = "slot" /\ op'.file = op.file /\ op'.slot = op.slot /\ IsCommand(op') /\ op.slot = NoSlot
  BY <1>1, <1>2 DEF IsCommand, Inv, Deleting
<1>4. op.file \in Clusters /\ fat[op.file] = 0
  BY <1>1 DEF Inv, Creating
<1>5. /\ fat' \in Fats /\ fat'[op.file] # 0 /\ \A c \in Clusters : c # op.file => fat'[c] = fat[c]
      /\ \A c \in Clusters : NextIn(fat', c) = NextIn(fat, c)
      /\ DirCluster' = DirCluster /\ Heads' = Heads
      /\ Starts(fat', Heads) /\ Unwritten(fat', dir)
  BY <1>1, <1>3, <1>4, Marked, Zenon
<1>6. \A c \in Clusters : NextIn(fat, c) # 0 => fat[NextIn(fat, c)] # 0
  BY <1>1 DEF Inv, NextUsed
<1>7. NextUsed(fat', op')
  <2> SUFFICES ASSUME NEW c \in Clusters, NextIn(fat', c) # 0 PROVE fat'[NextIn(fat', c)] # 0
    BY DEF NextUsed
  <2>1. NextIn(fat', c) \in Clusters /\ fat[NextIn(fat', c)] # 0
    BY <1>5, <1>6, NextType
  <2> QED
    BY <1>5, <2>1
<1>8. Fresh(fat', Heads, op.file)
  <2>1. \A c \in Clusters : NextIn(fat', c) # op.file
    BY <1>4, <1>5, <1>6, Volume
  <2>2. Start(fat', op.file)
    BY <1>4, <1>5, <2>1 DEF Start
  <2>3. fat[ROOT] # 0 /\ \A s \in DOMAIN Heads : fat[Heads[s]] # 0
    BY DEF Inv, Starts, Start
  <2> QED
    BY <1>4, <2>2, <2>3 DEF Fresh
<1>9. Creating(fat', dir, Heads, op') /\ Writing(fat', Heads, op') /\ Deleting(fat', DirCluster, Heads, op')
  BY <1>3, <1>8 DEF Creating, Writing, Deleting
<1>10. TypeInv'
  BY <1>1, <1>3, <1>5 DEF Inv, TypeInv
<1> QED
  BY <1>1, <1>5, <1>7, <1>9, <1>10 DEF Inv

\* The cluster just chained is marked, by create_file_entry for the directory ...
LEMMA NewMarked ==
  ASSUME Inv, op.step \in {"eoc", "dirEoc"}, op'.step \notin {"eoc", "dirEoc"},
         fat' \in Fats, fat'[op.new] # 0, \A c \in Clusters : c # op.new => fat'[c] = fat[c],
         \A c \in Clusters : NextIn(fat', c) = NextIn(fat, c)
  PROVE  NextUsed(fat', op')
<1> SUFFICES ASSUME NEW c \in Clusters, NextIn(fat', c) # 0 PROVE fat'[NextIn(fat', c)] # 0
  BY DEF NextUsed
<1>1. NextIn(fat, c) # 0 /\ NextIn(fat', c) = NextIn(fat, c) /\ NextIn(fat', c) \in Clusters
  BY NextType
<1>2. fat[NextIn(fat, c)] # 0 \/ NextIn(fat, c) = op.new
  BY <1>1 DEF Inv, NextUsed
<1> QED
  BY <1>1, <1>2

LEMMA CreateDirEocStep ==
  ASSUME Inv, create_dir_eoc
  PROVE  Inv'
<1>1. op.step = "dirEoc" /\ fat' = [fat EXCEPT ![op.new] = EOC] /\ UNCHANGED dir
  BY DEF create_dir_eoc, At, set_fat_entry
<1>2. op' = [op EXCEPT !.step = "dirZero"] /\ IsCommand(op)
  BY DEF create_dir_eoc, Goto, Inv, TypeInv
<1>3. /\ op'.step = "dirZero" /\ op'.file = op.file /\ op'.new = op.new /\ op'.slot = op.slot
      /\ IsCommand(op') /\ op.slot = NoSlot
  BY <1>1, <1>2 DEF IsCommand, Inv, Deleting
<1>4. /\ Fresh(fat, Heads, op.file) /\ op.new \in ChainIn(fat, ROOT) /\ fat[op.new] = 0
      /\ \A i \in 1..SLOTS : dir[op.new][i] = Unused
  BY <1>1 DEF Inv, Creating
<1>5. op.new \in Clusters
  BY <1>4, ChainIs, Volume DEF Inv, TypeInv
<1>6. /\ fat' \in Fats /\ fat'[op.new] # 0 /\ \A c \in Clusters : c # op.new => fat'[c] = fat[c]
      /\ \A c \in Clusters : NextIn(fat', c) = NextIn(fat, c)
      /\ \A c \in Clusters : ChainIn(fat', c) = ChainIn(fat, c)
      /\ DirCluster' = DirCluster /\ Heads' = Heads
      /\ \A h : Start(fat, h) => Start(fat', h)
      /\ Starts(fat', Heads) /\ Unwritten(fat', dir)
  BY <1>1, <1>3, <1>4, <1>5, Marked, Zenon
<1>7. NextUsed(fat', op')
  BY <1>1, <1>3, <1>6, NewMarked, Zenon
<1>8. Fresh(fat', Heads, op.file) /\ op.new \in ChainIn(fat', ROOT)
  BY <1>4, <1>6, Volume DEF Fresh
<1>9. Creating(fat', dir, Heads, op') /\ Writing(fat', Heads, op') /\ Deleting(fat', DirCluster, Heads, op')
  BY <1>3, <1>4, <1>8 DEF Creating, Writing, Deleting
<1>10. TypeInv'
  BY <1>1, <1>3, <1>6 DEF Inv, TypeInv
<1> QED
  BY <1>1, <1>6, <1>7, <1>9, <1>10 DEF Inv

\* ... and by write_file_data for the file.
LEMMA WriteEocStep ==
  ASSUME Inv, write_eoc
  PROVE  Inv'
<1>1. op.step = "eoc" /\ fat' = [fat EXCEPT ![op.new] = EOC] /\ UNCHANGED dir
  BY DEF write_eoc, At, set_fat_entry
<1>2. op' = [op EXCEPT !.step = "data", !.cur = op.new, !.new = 0] /\ IsCommand(op)
  BY DEF write_eoc, Inv, TypeInv
<1>3. /\ op'.step = "data" /\ op'.file = op.file /\ op'.cur = op.new /\ op'.slot = op.slot
      /\ IsCommand(op') /\ op.slot = NoSlot
  BY <1>1, <1>2, Zenon DEF IsCommand, Inv, Deleting
<1>4. /\ op.new \in Clusters /\ fat[op.new] = 0 /\ NextIn(fat, op.cur) = op.new
      /\ op.cur \in ChainIn(fat, op.file)
  BY <1>1 DEF Inv, Writing
<1>5. PICK s \in DOMAIN Heads : Heads[s] = op.file
  BY <1>1 DEF Inv, Writing
<1>6. Start(fat, op.file) /\ Injective(fat) /\ fat \in Fats /\ op.file \in Clusters
  BY <1>5 DEF Inv, Starts, Start, TypeInv
<1>7. /\ fat' \in Fats /\ fat'[op.new] # 0 /\ \A c \in Clusters : c # op.new => fat'[c] = fat[c]
      /\ \A c \in Clusters : NextIn(fat', c) = NextIn(fat, c)
      /\ \A c \in Clusters : ChainIn(fat', c) = ChainIn(fat, c)
      /\ DirCluster' = DirCluster /\ Heads' = Heads
      /\ Starts(fat', Heads) /\ Unwritten(fat', dir)
  BY <1>1, <1>3, <1>4, Marked, Zenon
<1>8. NextUsed(fat', op')
  BY <1>1, <1>3, <1>7, NewMarked, Zenon
<1>9. op.new \in ChainIn(fat, op.file)
  BY <1>4, <1>6, ChainClosed, Volume
<1>10. Writing(fat', Heads, op')
  BY <1>3, <1>5, <1>6, <1>7, <1>9 DEF Writing
<1>11. Creating(fat', dir, Heads, op') /\ Deleting(fat', DirCluster, Heads, op')
  BY <1>3 DEF Creating, Deleting
<1>12. TypeInv'
  BY <1>1, <1>3, <1>7 DEF Inv, TypeInv
<1> QED
  BY <1>1, <1>7, <1>8, <1>10, <1>11, <1>12 DEF Inv

-----------------------------------------------------------------------------
\* Slots with different numbers are different places of the directory.
LEMMA SlotsApart ==
  ASSUME Inv, NEW s \in SlotSet, NEW t \in SlotSet, s # t,
         DirCluster[s[1]] # 0, DirCluster[t[1]] # 0
  PROVE  DirCluster[s[1]] # DirCluster[t[1]] \/ s[2] # t[2]
<1>1. /\ s = <<s[1], s[2]>> /\ t = <<t[1], t[2]>>
      /\ s[1] \in 1..TOTAL /\ t[1] \in 1..TOTAL
  BY DEF SlotSet
<1>2. SUFFICES ASSUME s[2] = t[2] PROVE DirCluster[s[1]] # DirCluster[t[1]]
  OBVIOUS
<1>3. PICK m \in 1..TOTAL, n \in 1..TOTAL : m = s[1] /\ n = t[1] /\ m # n
  BY <1>1, <1>2
<1>4. fat \in Fats /\ Injective(fat) /\ Start(fat, ROOT) /\ IsWalk(fat, ROOT, DirCluster)
  BY DirFacts DEF Inv, TypeInv, Starts
<1>5. PICK w : w = DirCluster
  OBVIOUS
<1>6. CASE m < n
  <2>1. w[m] # w[n]
    BY <1>3, <1>4, <1>5, <1>6, WalkOnce
  <2> QED
    BY <1>3, <1>5, <2>1
<1>7. CASE n < m
  <2>1. w[n] # w[m]
    BY <1>3, <1>4, <1>5, <1>7, WalkOnce
  <2> QED
    BY <1>3, <1>5, <2>1
<1> QED
  BY <1>3, <1>6, <1>7, Volume

\* Directory d with entry e in slot i of cluster c.
WithEntry(d, c, i, e) == [d EXCEPT ![c][i] = e]

\* Writing one slot changes no other.
LEMMA SlotWritten ==
  ASSUME Inv, NEW s \in SlotNos, NEW e \in DirEntries, UNCHANGED fat,
         dir' = WithEntry(dir, DirCluster[s[1]], s[2], e)
  PROVE  /\ DirCluster' = DirCluster
         /\ dir' \in [Clusters -> [1..SLOTS -> DirEntries]]
         /\ dir'[DirCluster[s[1]]][s[2]] = e
         /\ \A t \in SlotSet : t # s /\ DirCluster[t[1]] # 0 =>
              dir'[DirCluster[t[1]]][t[2]] = dir[DirCluster[t[1]]][t[2]]
         /\ Unwritten(fat, dir')
<1>1. s \in SlotSet /\ DirCluster[s[1]] # 0
  BY DEF SlotNos, SlotSet
<1>2. PICK c \in Clusters, i \in 1..SLOTS : c = DirCluster[s[1]] /\ i = s[2] /\ c \in ChainIn(fat, ROOT)
  BY <1>1, DirFacts DEF SlotSet
<1>3. dir \in [Clusters -> [1..SLOTS -> DirEntries]]
  BY DEF Inv, TypeInv
<1>4. dir' = [dir EXCEPT ![c][i] = e]
  BY <1>2 DEF WithEntry
<1>5. dir' \in [Clusters -> [1..SLOTS -> DirEntries]]
  BY <1>3, <1>4
<1>6. dir'[c][i] = e
  BY <1>3, <1>4, Zenon
<1>7. \A d \in Clusters : \A j \in 1..SLOTS : d # c \/ j # i => dir'[d][j] = dir[d][j]
  BY <1>3, <1>4
<1>8. DirCluster' = DirCluster
  BY Here, There
<1>9. ASSUME NEW t \in SlotSet, t # s, DirCluster[t[1]] # 0
      PROVE  dir'[DirCluster[t[1]]][t[2]] = dir[DirCluster[t[1]]][t[2]]
  <2>1. DirCluster[s[1]] # DirCluster[t[1]] \/ s[2] # t[2]
    BY <1>1, <1>9, SlotsApart
  <2>2. DirCluster[t[1]] \in Clusters /\ t[2] \in 1..SLOTS
    BY <1>9, DirFacts DEF SlotSet, SlotNos
  <2> QED
    BY <1>2, <1>7, <2>1, <2>2
<1>10. Unwritten(fat, dir')
  <2> SUFFICES ASSUME NEW d \in Clusters \ ChainIn(fat, ROOT), NEW j \in 1..SLOTS
               PROVE  dir'[d][j] = Unused
    BY DEF Unwritten
  <2>1. dir[d][j] = Unused
    BY DEF Inv, Unwritten
  <2> QED
    BY <1>2, <1>7, <2>1
<1> QED
  BY <1>2, <1>5, <1>6, <1>8, <1>9, <1>10

\* The new file's entry is written, and the command is done or goes on to the data.
LEMMA EntryFacts ==
  ASSUME Inv, op.step \in {"slot", "dirEntry"}, NEW s \in SlotNos, Slot(s) \in {Unused, Deleted},
         UNCHANGED fat, op' = AfterCreate(op),
         dir' = WithEntry(dir, DirCluster[s[1]], s[2], [name |-> op.name, cl |-> op.file])
  PROVE  /\ DirCluster' = DirCluster /\ dir' \in [Clusters -> [1..SLOTS -> DirEntries]]
         /\ Unwritten(fat, dir') /\ Fresh(fat, Heads, op.file)
         /\ DOMAIN Heads' = DOMAIN Heads \union {s} /\ s \notin DOMAIN Heads
         /\ Heads'[s] = op.file /\ \A t \in DOMAIN Heads : Heads'[t] = Heads[t]
         /\ op' = Idle \/ (/\ op'.step = "data" /\ op'.slot = NoSlot /\ IsCommand(op')
                           /\ op'.file = op.file /\ op'.cur = op.file)
<1> DEFINE e == [name |-> op.name, cl |-> op.file]
<1>1. Fresh(fat, Heads, op.file) /\ op.slot = NoSlot /\ IsCommand(op)
  BY Zenon DEF Inv, Creating, Deleting, TypeInv
<1>2. op.name \in Names /\ op.file \in Clusters
  BY <1>1 DEF IsCommand, Fresh, Start
<1>3. e \in DirEntries
  BY <1>2 DEF DirEntries
<1>4. e \notin {Unused, Deleted} /\ e.cl = op.file
  BY <1>2, Fat32Assumption DEF Unused, Deleted
<1> HIDE DEF e
<1>5. /\ DirCluster' = DirCluster /\ dir' \in [Clusters -> [1..SLOTS -> DirEntries]]
      /\ dir'[DirCluster[s[1]]][s[2]] = e
      /\ \A t \in SlotSet : t # s /\ DirCluster[t[1]] # 0 =>
           dir'[DirCluster[t[1]]][t[2]] = dir[DirCluster[t[1]]][t[2]]
      /\ Unwritten(fat, dir')
  BY <1>3, SlotWritten DEF e
<1>6. op' = Idle \/ (/\ op'.step = "data" /\ op'.slot = NoSlot /\ IsCommand(op')
                     /\ op'.file = op.file /\ op'.cur = op.file)
  BY <1>1, <1>2, Zenon DEF AfterCreate, IsCommand
<1>7. op'.slot = NoSlot
  BY <1>6, IdleCommand
<1>8. s \in SlotSet /\ s # NoSlot /\ DirCluster[s[1]] # 0
  BY DEF SlotNos, SlotSet, NoSlot
<1>9. Entries' = EntriesIn(DirCluster, dir', NoSlot) /\ Heads' = HeadsIn(DirCluster, dir', NoSlot)
  BY <1>5, <1>7, SlotsThere
<1>10. Entries = EntriesIn(DirCluster, dir, NoSlot) /\ Heads = HeadsIn(DirCluster, dir, NoSlot)
  BY <1>1, SlotsHere
<1>11. s \notin EntriesIn(DirCluster, dir, NoSlot)
  BY DEF EntriesIn, Slot
<1>12. s \in EntriesIn(DirCluster, dir', NoSlot)
  BY <1>4, <1>5, <1>8 DEF EntriesIn
<1>13. ASSUME NEW t, t # s
       PROVE  t \in EntriesIn(DirCluster, dir', NoSlot) <=> t \in EntriesIn(DirCluster, dir, NoSlot)
  BY <1>5, <1>13 DEF EntriesIn
<1>14. EntriesIn(DirCluster, dir', NoSlot) = EntriesIn(DirCluster, dir, NoSlot) \union {s}
  BY <1>12, <1>13
<1>15. DOMAIN Heads' = DOMAIN Heads \union {s} /\ s \notin DOMAIN Heads
  BY <1>9, <1>10, <1>11, <1>14, Zenon DEF HeadsIn
<1>16. Heads'[s] = op.file
  BY <1>4, <1>5, <1>9, <1>12, Zenon DEF HeadsIn
<1>17. ASSUME NEW t \in DOMAIN Heads PROVE Heads'[t] = Heads[t]
  <2>1. t \in EntriesIn(DirCluster, dir, NoSlot) /\ t # s /\ t \in EntriesIn(DirCluster, dir', NoSlot)
    BY <1>10, <1>15, <1>14, <1>17 DEF HeadsIn
  <2>2. dir'[DirCluster[t[1]]][t[2]] = dir[DirCluster[t[1]]][t[2]]
    BY <1>5, <2>1, Zenon DEF EntriesIn
  <2> QED
    BY <1>9, <1>10, <2>1, <2>2, Zenon DEF HeadsIn
<1> QED
  BY <1>1, <1>5, <1>6, <1>15, <1>16, <1>17

LEMMA EntryStep ==
  ASSUME Inv, op.step \in {"slot", "dirEntry"}, NEW s \in SlotNos, Slot(s) \in {Unused, Deleted},
         UNCHANGED fat, op' = AfterCreate(op),
         dir' = WithEntry(dir, DirCluster[s[1]], s[2], [name |-> op.name, cl |-> op.file])
  PROVE  Inv'
<1>1. /\ DirCluster' = DirCluster /\ dir' \in [Clusters -> [1..SLOTS -> DirEntries]]
      /\ Unwritten(fat, dir') /\ Fresh(fat, Heads, op.file)
      /\ DOMAIN Heads' = DOMAIN Heads \union {s} /\ s \notin DOMAIN Heads
      /\ Heads'[s] = op.file /\ \A t \in DOMAIN Heads : Heads'[t] = Heads[t]
      /\ op' = Idle \/ (/\ op'.step = "data" /\ op'.slot = NoSlot /\ IsCommand(op')
                        /\ op'.file = op.file /\ op'.cur = op.file)
  BY EntryFacts, Zenon
<1>2. Starts(fat, Heads) /\ fat \in Fats
  BY DEF Inv, TypeInv
<1>3. Starts(fat, Heads')
  BY <1>1, <1>2 DEF Starts, Fresh
<1>4. op'.step \in {"idle", "data"} /\ op'.slot = NoSlot /\ IsCommand(op')
  BY <1>1, IdleCommand
<1>5. NextUsed(fat, op')
  BY StrictlyUsed
<1>6. op.file \in ChainIn(fat, op.file)
  BY <1>1, <1>2, ChainIs, Zenon DEF Fresh, Start
<1>7. op'.step = "data" => op'.file = op.file /\ op'.cur = op.file
  BY <1>1, IdleCommand
<1>8. Writing(fat, Heads', op')
  BY <1>1, <1>4, <1>6, <1>7, Zenon DEF Writing
<1>9. Creating(fat, dir', Heads', op') /\ Deleting(fat, DirCluster, Heads', op')
  BY <1>4 DEF Creating, Deleting
<1>10. TypeInv'
  BY <1>1, <1>2, <1>4 DEF TypeInv
<1> QED
  BY <1>1, <1>3, <1>5, <1>8, <1>9, <1>10, Zenon DEF Inv

LEMMA CreateEntryFacts ==
  ASSUME Inv, create_entry
  PROVE  /\ op.step = "slot" /\ UNCHANGED fat /\ op' = AfterCreate(op)
         /\ \E s \in SlotNos :
              /\ Slot(s) \in {Unused, Deleted}
              /\ dir' = WithEntry(dir, DirCluster[s[1]], s[2], [name |-> op.name, cl |-> op.file])
<1>1. op.step = "slot" /\ FreeSlots # {} /\ UNCHANGED fat /\ op' = AfterCreate(op)
  BY DEF create_entry, At
<1>2. FreeSlots \subseteq SlotSet
  BY DEF FreeSlots, SlotNos, SlotSet
<1>3. First(FreeSlots) \in FreeSlots
  BY <1>1, <1>2, FirstIn
<1>4. PICK s : s = First(FreeSlots) /\ s \in SlotNos /\ Slot(s) \in {Unused, Deleted}
  BY <1>3 DEF FreeSlots
<1>5. dir' = WithEntry(dir, DirCluster[s[1]], s[2], [name |-> op.name, cl |-> op.file])
  BY <1>4 DEF create_entry, SetSlot, WithEntry
<1> QED
  BY <1>1, <1>4, <1>5

\* The first slot of the directory's new cluster.
LEMMA CreateDirEntryFacts ==
  ASSUME Inv, create_dir_entry
  PROVE  /\ op.step = "dirEntry" /\ UNCHANGED fat /\ op' = AfterCreate(op)
         /\ \E s \in SlotNos :
              /\ Slot(s) \in {Unused, Deleted}
              /\ dir' = WithEntry(dir, DirCluster[s[1]], s[2], [name |-> op.name, cl |-> op.file])
<1> DEFINE e == [name |-> op.name, cl |-> op.file]
<1>1. op.step = "dirEntry" /\ UNCHANGED fat /\ op' = AfterCreate(op)
  BY DEF create_dir_entry, At
<1>2. dir' = [dir EXCEPT ![op.new] = [i \in 1..SLOTS |-> IF i = 1 THEN e ELSE Unused]]
  BY DEF create_dir_entry
<1>3. op.new \in ChainIn(fat, ROOT) /\ \A i \in 1..SLOTS : dir[op.new][i] = Unused
  BY <1>1 DEF Inv, Creating
<1>4. PICK n \in 1..TOTAL : DirCluster[n] = op.new /\ op.new # 0
  BY <1>3, Here, ChainIs, Volume DEF Inv, TypeInv
<1>5. op.new \in Clusters /\ dir \in [Clusters -> [1..SLOTS -> DirEntries]] /\ 1 \in 1..SLOTS
  BY <1>3, ChainIs, Volume, Fat32Assumption DEF Inv, TypeInv
<1> HIDE DEF e
<1> DEFINE s == <<n, 1>>
<1>6. s \in SlotNos /\ s[1] = n /\ s[2] = 1
  BY <1>4, <1>5 DEF SlotNos
<1>7. Slot(s) = Unused
  BY <1>3, <1>4, <1>5, <1>6 DEF Slot
<1>8. [i \in 1..SLOTS |-> IF i = 1 THEN e ELSE Unused] = [dir[op.new] EXCEPT ![1] = e]
  <2>1. dir[op.new] = [i \in 1..SLOTS |-> Unused]
    BY <1>3, <1>5, Zenon
  <2> QED
    BY <1>5, <2>1, Zenon
<1>9. dir' = WithEntry(dir, op.new, 1, e)
  BY <1>2, <1>5, <1>8, Zenon DEF WithEntry
<1>10. dir' = WithEntry(dir, DirCluster[s[1]], s[2], e)
  BY <1>4, <1>6, <1>9
<1> HIDE DEF s
<1> QED
  BY <1>1, <1>6, <1>7, <1>10 DEF e

LEMMA CreateEntryStep ==
  ASSUME Inv, create_entry \/ create_dir_entry
  PROVE  Inv'
<1>1. /\ op.step \in {"slot", "dirEntry"} /\ UNCHANGED fat /\ op' = AfterCreate(op)
      /\ \E s \in SlotNos :
           /\ Slot(s) \in {Unused, Deleted}
           /\ dir' = WithEntry(dir, DirCluster[s[1]], s[2], [name |-> op.name, cl |-> op.file])
  BY CreateEntryFacts, CreateDirEntryFacts
<1> QED
  BY <1>1, EntryStep

\* Zeroing the new cluster changes nothing: it was never the directory's.
LEMMA CreateDirZeroFacts ==
  ASSUME Inv, create_dir_zero
  PROVE  /\ op.step = "dirZero" /\ UNCHANGED <<fat, dir>>
         /\ op'.step = "dirEntry" /\ op'.file = op.file /\ op'.new = op.new /\ op'.slot = op.slot
         /\ IsCommand(op')
<1>1. op.step = "dirZero" /\ UNCHANGED fat /\ dir' = [dir EXCEPT ![op.new] = [i \in 1..SLOTS |-> Unused]]
  BY DEF create_dir_zero, At
<1>2. op.new \in ChainIn(fat, ROOT) /\ \A i \in 1..SLOTS : dir[op.new][i] = Unused
  BY <1>1 DEF Inv, Creating
<1>3. op.new \in Clusters /\ dir \in [Clusters -> [1..SLOTS -> DirEntries]]
  BY <1>2, ChainIs, Volume DEF Inv, TypeInv
<1>4. dir[op.new] = [i \in 1..SLOTS |-> Unused]
  BY <1>2, <1>3, Zenon
<1>5. dir' = dir
  BY <1>1, <1>3, <1>4
<1>6. op' = [op EXCEPT !.step = "dirEntry"] /\ IsCommand(op)
  BY DEF create_dir_zero, Goto, Inv, TypeInv
<1>7. /\ op'.step = "dirEntry" /\ op'.file = op.file /\ op'.new = op.new /\ op'.slot = op.slot
      /\ IsCommand(op')
  BY <1>1, <1>6 DEF IsCommand
<1> QED
  BY <1>1, <1>5, <1>7

LEMMA CreateDirZeroStep ==
  ASSUME Inv, create_dir_zero
  PROVE  Inv'
<1>1. /\ op.step = "dirZero" /\ UNCHANGED <<fat, dir>>
      /\ op'.step = "dirEntry" /\ op'.file = op.file /\ op'.new = op.new /\ op'.slot = op.slot
      /\ IsCommand(op')
  BY CreateDirZeroFacts
<1>2. Creating(fat, dir, Heads, op')
  BY <1>1 DEF Inv, Creating
<1>3. Writing(fat, Heads, op') /\ Deleting(fat, DirCluster, Heads, op')
  BY <1>1 DEF Inv, Writing, Deleting
<1>4. NextUsed(fat, op')
  BY <1>1, StrictlyUsed
<1> QED
  BY <1>1, <1>2, <1>3, <1>4, QuietStep

-----------------------------------------------------------------------------
\* A chain that starts somewhere ends somewhere.
LEMMA ChainEnds ==
  ASSUME NEW f \in Fats, Injective(f), NEW h, Start(f, h)
  PROVE  \E c \in ChainIn(f, h) : NextIn(f, c) = 0
<1>1. SUFFICES ASSUME \A c \in ChainIn(f, h) : NextIn(f, c) # 0 PROVE FALSE
  OBVIOUS
<1>2. h \in Clusters
  BY DEF Start
<1>3. PICK w : w = WalkIn(f, h) /\ IsWalk(f, h, w)
  BY <1>2, WalkIs
<1> DEFINE S == {n \in 1..TOTAL : w[n] # 0}
<1>4. 1 \in S
  BY <1>2, <1>3, Volume DEF IsWalk
<1>5. ASSUME NEW n \in 1..(TOTAL - 1), n \in S PROVE n + 1 \in S
  <2>1. n \in 1..TOTAL /\ n # TOTAL /\ w[n] # 0
    BY <1>5, Volume
  <2>2. n + 1 \in 1..TOTAL /\ w[n + 1] = NextIn(f, w[n])
    BY <1>2, <1>3, <2>1, WalkStep
  <2>3. w[n] \in ChainIn(f, h)
    BY <1>2, <1>3, <2>1, ChainIs
  <2> QED
    BY <1>1, <2>2, <2>3
<1> HIDE DEF S
<1>6. 1..TOTAL \subseteq S
  BY <1>4, <1>5, WalkInduction
<1>7. TOTAL \in 1..TOTAL
  BY Volume
<1>8. w[TOTAL] # 0
  BY <1>6, <1>7 DEF S
<1> QED
  BY <1>3, <1>8, WalkEnds

\* The clusters of a chain are used, except one that was just chained.
LEMMA ChainUsed ==
  ASSUME NEW f \in Fats, NEW o, NextUsed(f, o), NEW h \in Clusters, f[h] # 0,
         NEW c \in ChainIn(f, h)
  PROVE  f[c] # 0 \/ (o.step \in {"eoc", "dirEoc"} /\ c = o.new)
<1> DEFINE S == {d \in Clusters : f[d] # 0 \/ (o.step \in {"eoc", "dirEoc"} /\ d = o.new)}
<1>1. h \in S
  OBVIOUS
<1>2. \A d \in Clusters : d \in S /\ NextIn(f, d) # 0 => NextIn(f, d) \in S
  BY NextType DEF NextUsed
<1> HIDE DEF S
<1>3. ChainIn(f, h) \subseteq S
  BY <1>1, <1>2, ChainLeast
<1> QED
  BY <1>3 DEF S

\* FAT g is f with cluster y chained behind x, the last of its chain.
Links(f, g, x, y) ==
  /\ NextIn(f, x) = 0 /\ NextIn(g, x) = y /\ NextIn(g, y) = 0
  /\ \A c \in Clusters : c # x => NextIn(g, c) = NextIn(f, c)

\* What chaining the free cluster y behind x, the last cluster of a chain, changes.
LEMMA Linked ==
  ASSUME Inv, op.step \notin {"eoc", "dirEoc"}, NEW x \in Clusters, fat[x] # 0, NextIn(fat, x) = 0,
         NEW y \in Clusters, fat[y] = 0, fat' = [fat EXCEPT ![x] = y]
  PROVE  /\ fat' \in Fats /\ fat'[y] = 0 /\ Links(fat, fat', x, y)
         /\ \A c \in Clusters : c # x => fat'[c] = fat[c]
         /\ \A c \in Clusters : fat[c] # 0 => fat'[c] # 0
         /\ Injective(fat')
         /\ \A h : Start(fat, h) => Start(fat', h)
         /\ Starts(fat', Heads)
         /\ \A o : o.step \in {"eoc", "dirEoc"} /\ o.new = y => NextUsed(fat', o)
<1>1. fat \in Fats /\ Starts(fat, Heads) /\ Injective(fat)
  BY DEF Inv, TypeInv, Starts
<1>2. x # y
  OBVIOUS
<1>3. fat'[x] = y /\ \A c \in Clusters : c # x => fat'[c] = fat[c]
  BY <1>1 DEF Fats
<1>4. fat' \in Fats
  BY <1>1 DEF Fats
<1>5. /\ NextIn(fat', x) = y
      /\ \A c \in Clusters : c # x => NextIn(fat', c) = NextIn(fat, c)
  BY <1>3, Volume DEF NextIn
<1>6. fat'[y] = 0 /\ NextIn(fat', y) = 0
  BY <1>2, <1>3, <1>4, NextType, Zenon
<1>7. \A c \in Clusters : fat[c] # 0 => fat'[c] # 0
  BY <1>3, Volume
<1>8. \A c \in Clusters : NextIn(fat, c) # 0 => fat[NextIn(fat, c)] # 0
  BY DEF Inv, NextUsed
<1>9. \A c \in Clusters : NextIn(fat, c) # y
  BY <1>8, Volume
<1>10. Injective(fat')
  <2> SUFFICES ASSUME NEW c \in Clusters, NEW d \in Clusters, NextIn(fat', c) # 0,
                      NextIn(fat', c) = NextIn(fat', d)
               PROVE  c = d
    BY DEF Injective
  <2> QED
    BY <1>1, <1>5, <1>9, Zenon DEF Injective
<1>11. ASSUME NEW h, Start(fat, h) PROVE Start(fat', h)
  <2>1. h \in Clusters /\ fat[h] # 0 /\ h # y
    BY <1>11 DEF Start
  <2>2. \A c \in Clusters : NextIn(fat', c) # h
    BY <1>5, <1>11, <2>1, Zenon DEF Start
  <2> QED
    BY <1>7, <2>1, <2>2, Zenon DEF Start
<1>12. Starts(fat', Heads)
  BY <1>1, <1>10, <1>11, Zenon DEF Starts
<1>13. \A o : o.step \in {"eoc", "dirEoc"} /\ o.new = y => NextUsed(fat', o)
  <2> SUFFICES ASSUME NEW c \in Clusters, NextIn(fat', c) # 0, NextIn(fat', c) # y
               PROVE  fat'[NextIn(fat', c)] # 0
    BY Zenon DEF NextUsed
  <2>1. NextIn(fat', c) = NextIn(fat, c)
    BY <1>5, Zenon
  <2>2. NextIn(fat, c) \in Clusters /\ fat[NextIn(fat, c)] # 0
    BY <1>1, <1>8, <2>1, NextType
  <2> QED
    BY <1>7, <2>1, <2>2
<1>14. \A h : Start(fat, h) => Start(fat', h)
  BY <1>11, Zenon
<1>15. Links(fat, fat', x, y)
  BY <1>5, <1>6, Zenon DEF Links
<1> QED
  BY <1>3, <1>4, <1>6, <1>7, <1>10, <1>12, <1>13, <1>14, <1>15, Zenon

\* Chains that x is not on stay, and its own gets y.
LEMMA LinkedChains ==
  ASSUME NEW f \in Fats, NEW g \in Fats, NEW x \in Clusters, NEW y \in Clusters,
         Links(f, g, x, y), Injective(f), Injective(g), NEW h, Start(f, h), Start(g, h)
  PROVE  /\ x \notin ChainIn(f, h) => WalkIn(g, h) = WalkIn(f, h) /\ ChainIn(g, h) = ChainIn(f, h)
         /\ x \in ChainIn(f, h) => ChainIn(g, h) = ChainIn(f, h) \union {y}
         /\ ChainIn(f, h) \subseteq ChainIn(g, h)
         /\ \A n \in 1..TOTAL : WalkIn(f, h)[n] # 0 => WalkIn(g, h)[n] = WalkIn(f, h)[n]
<1> USE DEF Links
<1>1. h \in Clusters
  BY DEF Start
<1>2. ChainIn(f, h) \subseteq Clusters
  BY <1>1, ChainIs
<1>3. ASSUME x \notin ChainIn(f, h)
      PROVE  WalkIn(g, h) = WalkIn(f, h) /\ ChainIn(g, h) = ChainIn(f, h)
  <2>1. \A d \in ChainIn(f, h) : NextIn(g, d) = NextIn(f, d)
    BY <1>2, <1>3
  <2> QED
    BY <1>1, <2>1, WalkSame
<1>4. \A d \in Clusters : NextIn(f, d) # 0 => NextIn(g, d) = NextIn(f, d)
  OBVIOUS
<1>5. /\ \A n \in 1..TOTAL : WalkIn(f, h)[n] # 0 => WalkIn(g, h)[n] = WalkIn(f, h)[n]
      /\ ChainIn(f, h) \subseteq ChainIn(g, h)
  BY <1>1, <1>4, WalkGrows
<1>6. ASSUME x \in ChainIn(f, h) PROVE ChainIn(g, h) = ChainIn(f, h) \union {y}
  <2> DEFINE S == ChainIn(f, h) \union {y}
  <2>1. h \in S
    BY <1>1, ChainIs
  <2>2. ASSUME NEW d \in Clusters, d \in S, NextIn(g, d) # 0 PROVE NextIn(g, d) \in S
    <3>1. CASE d = y
      BY <2>2, <3>1
    <3>2. CASE d = x
      BY <3>2
    <3>3. CASE d # x /\ d # y
      <4>1. d \in ChainIn(f, h) /\ NextIn(g, d) = NextIn(f, d) /\ NextIn(f, d) # 0
        BY <2>2, <3>3
      <4>2. NextIn(f, d) \in ChainIn(f, h)
        BY <4>1, ChainClosed
      <4> QED
        BY <4>1, <4>2
    <3> QED
      BY <3>1, <3>2, <3>3
  <2> HIDE DEF S
  <2>3. ChainIn(g, h) \subseteq S
    BY <1>1, <2>1, <2>2, ChainLeast
  <2>4. x \in ChainIn(g, h) /\ NextIn(g, x) # 0
    BY <1>5, <1>6, Volume
  <2>5. NextIn(g, x) \in ChainIn(g, h)
    BY <2>4, ChainClosed
  <2> QED
    BY <1>5, <2>3, <2>5 DEF S
<1> QED
  BY <1>3, <1>5, <1>6

\* Which clusters create_file_entry chains.
LEMMA ExtendFacts ==
  ASSUME Inv, create_extend
  PROVE  /\ op.step = "slot" /\ UNCHANGED dir /\ op.slot = NoSlot /\ IsCommand(op')
         /\ op'.step = "dirEoc" /\ op'.file = op.file /\ op'.slot = NoSlot
         /\ \E x, y \in Clusters :
              /\ x \in ChainIn(fat, ROOT) /\ fat[x] # 0 /\ NextIn(fat, x) = 0
              /\ fat[y] = 0 /\ y \notin ChainIn(fat, ROOT)
              /\ fat' = [fat EXCEPT ![x] = y] /\ op'.new = y
<1>1. op.step = "slot" /\ Free # {} /\ UNCHANGED dir /\ IsCommand(op)
  BY DEF create_extend, At, Inv, TypeInv
<1>2. op.slot = NoSlot
  BY <1>1 DEF Inv, Deleting
<1>3. PICK y \in Clusters : y = alloc_cluster /\ fat[y] = 0
  BY <1>1, Allocated DEF Free
<1>4. op' = [op EXCEPT !.step = "dirEoc", !.new = y]
  BY <1>3 DEF create_extend
<1>5. /\ op'.step = "dirEoc" /\ op'.file = op.file /\ op'.slot = NoSlot /\ op'.new = y
      /\ IsCommand(op')
  BY <1>1, <1>2, <1>4, Zenon DEF IsCommand
<1>6. fat \in Fats /\ Injective(fat) /\ Start(fat, ROOT) /\ NextUsed(fat, op)
  BY DEF Inv, TypeInv, Starts
<1>7. ChainIn(fat, ROOT) = {DirCluster[n] : n \in 1..TOTAL} \ {0}
  BY Here DEF ChainIn
<1>8. \E c \in ChainIn(fat, ROOT) : NextIn(fat, c) = 0
  BY <1>6, ChainEnds
<1>9. LastDirCluster = CHOOSE c \in ChainIn(fat, ROOT) : NextIn(fat, c) = 0
  BY <1>7, Here DEF LastDirCluster
<1>10. PICK x : x = LastDirCluster /\ x \in ChainIn(fat, ROOT) /\ NextIn(fat, x) = 0
  BY <1>8, <1>9
<1>11. ASSUME NEW c \in ChainIn(fat, ROOT) PROVE c \in Clusters /\ fat[c] # 0
  BY <1>1, <1>6, ChainIs, ChainUsed DEF Start
<1>12. fat' = [fat EXCEPT ![x] = y]
  BY <1>3, <1>10 DEF create_extend, set_fat_entry
<1> QED
  BY <1>1, <1>2, <1>3, <1>5, <1>10, <1>11, <1>12, Zenon

\* Walk v goes on from walk w, to cluster y alone.
Prolongs(v, w, y) ==
  \A n \in 1..TOTAL : /\ w[n] # 0 => v[n] = w[n]
                      /\ w[n] = 0 /\ v[n] # 0 => v[n] = y

Blank(d, y) == \A i \in 1..SLOTS : d[y][i] = Unused

\* The directory's new cluster has no entries.
LEMMA ExtendedEntries ==
  ASSUME NEW w, NEW v, NEW d, NEW y, Prolongs(v, w, y), Blank(d, y)
  PROVE  HeadsIn(v, d, NoSlot) = HeadsIn(w, d, NoSlot)
<1> USE DEF Prolongs, Blank
<1>1. ASSUME NEW s \in SlotSet PROVE s \in EntriesIn(v, d, NoSlot) <=> s \in EntriesIn(w, d, NoSlot)
  <2>1. s[1] \in 1..TOTAL /\ s[2] \in 1..SLOTS
    BY <1>1 DEF SlotSet
  <2>2. CASE w[s[1]] # 0
    BY <2>1, <2>2 DEF EntriesIn
  <2>3. CASE w[s[1]] = 0
    BY <2>1, <2>3 DEF EntriesIn
  <2> QED
    BY <2>2, <2>3
<1>2. EntriesIn(v, d, NoSlot) = EntriesIn(w, d, NoSlot)
  BY <1>1 DEF EntriesIn
<1>3. \A s \in EntriesIn(w, d, NoSlot) : v[s[1]] = w[s[1]]
  BY DEF EntriesIn, SlotSet
<1> QED
  BY <1>2, <1>3 DEF HeadsIn

LEMMA CreateExtendHeads ==
  ASSUME Inv, create_extend
  PROVE  Heads' = Heads
<1>1. /\ op.step = "slot" /\ UNCHANGED dir /\ op.slot = NoSlot /\ IsCommand(op')
      /\ op'.step = "dirEoc" /\ op'.file = op.file /\ op'.slot = NoSlot
  BY ExtendFacts
<1>2. PICK x \in Clusters, y \in Clusters :
        /\ x \in ChainIn(fat, ROOT) /\ fat[x] # 0 /\ NextIn(fat, x) = 0
        /\ fat[y] = 0 /\ y \notin ChainIn(fat, ROOT)
        /\ fat' = [fat EXCEPT ![x] = y] /\ op'.new = y
  BY ExtendFacts
<1>3. /\ fat' \in Fats /\ fat'[y] = 0 /\ Links(fat, fat', x, y)
      /\ \A c \in Clusters : c # x => fat'[c] = fat[c]
      /\ Injective(fat')
      /\ \A h : Start(fat, h) => Start(fat', h)
      /\ Starts(fat', Heads)
      /\ \A o : o.step \in {"eoc", "dirEoc"} /\ o.new = y => NextUsed(fat', o)
  BY <1>1, <1>2, Linked, Zenon
<1>4. fat \in Fats /\ Injective(fat) /\ Start(fat, ROOT) /\ Start(fat', ROOT)
  BY <1>3, Zenon DEF Inv, TypeInv, Starts
<1>5. ChainIn(fat', ROOT) = ChainIn(fat, ROOT) \union {y}
  BY <1>2, <1>3, <1>4, LinkedChains
<1>6. PICK w : w = WalkIn(fat, ROOT) /\ DirCluster = w /\ IsWalk(fat, ROOT, w)
  BY <1>4, Here, WalkIs, Volume
<1>7. PICK v : v = WalkIn(fat', ROOT) /\ DirCluster' = v /\ IsWalk(fat', ROOT, v)
  BY <1>3, There, WalkIs, Volume
<1>8. \A n \in 1..TOTAL : w[n] # 0 => v[n] = w[n]
  BY <1>2, <1>3, <1>4, <1>6, <1>7, LinkedChains
<1>9. ASSUME NEW n \in 1..TOTAL, w[n] = 0, v[n] # 0 PROVE v[n] = y
  <2>1. v[n] \in ChainIn(fat', ROOT)
    BY <1>3, <1>7, <1>9, ChainIs, Volume
  <2>2. SUFFICES ASSUME v[n] \in ChainIn(fat, ROOT) PROVE FALSE
    BY <1>5, <2>1
  <2>3. PICK m \in 1..TOTAL : w[m] = v[n]
    BY <1>4, <1>6, <2>2, ChainIs, Volume
  <2>4. v[m] = v[n] /\ m # n /\ v[m] # 0
    BY <1>8, <1>9, <2>3
  <2>5. m < n \/ n < m
    BY <2>4, Volume
  <2>6. CASE m < n
    BY <1>3, <1>4, <1>7, <2>4, <2>6, WalkOnce
  <2>7. CASE n < m
    BY <1>3, <1>4, <1>7, <2>4, <2>7, WalkOnce
  <2> QED
    BY <2>5, <2>6, <2>7
<1>10. \A i \in 1..SLOTS : dir[y][i] = Unused
  BY <1>2 DEF Inv, Unwritten
<1>11. HeadsIn(v, dir, NoSlot) = HeadsIn(w, dir, NoSlot)
  <2>1. Prolongs(v, w, y)
    BY <1>8, <1>9 DEF Prolongs
  <2>2. Blank(dir, y)
    BY <1>10 DEF Blank
  <2> QED
    BY <2>1, <2>2, ExtendedEntries
<1> QED
  BY <1>1, <1>6, <1>7, <1>11, SlotsHere, SlotsThere

LEMMA CreateExtendStep ==
  ASSUME Inv, create_extend
  PROVE  Inv'
<1>1. /\ op.step = "slot" /\ UNCHANGED dir /\ op.slot = NoSlot /\ IsCommand(op')
      /\ op'.step = "dirEoc" /\ op'.file = op.file /\ op'.slot = NoSlot
  BY ExtendFacts
<1>2. PICK x \in Clusters, y \in Clusters :
        /\ x \in ChainIn(fat, ROOT) /\ fat[x] # 0 /\ NextIn(fat, x) = 0
        /\ fat[y] = 0 /\ y \notin ChainIn(fat, ROOT)
        /\ fat' = [fat EXCEPT ![x] = y] /\ op'.new = y
  BY ExtendFacts
<1>3. /\ fat' \in Fats /\ fat'[y] = 0 /\ Links(fat, fat', x, y)
      /\ \A c \in Clusters : c # x => fat'[c] = fat[c]
      /\ Injective(fat')
      /\ \A h : Start(fat, h) => Start(fat', h)
      /\ Starts(fat', Heads)
      /\ \A o : o.step \in {"eoc", "dirEoc"} /\ o.new = y => NextUsed(fat', o)
  BY <1>1, <1>2, Linked, Zenon
<1>4. fat \in Fats /\ Injective(fat) /\ Start(fat, ROOT) /\ Start(fat', ROOT)
  BY <1>3, Zenon DEF Inv, TypeInv, Starts
<1>5. ChainIn(fat', ROOT) = ChainIn(fat, ROOT) \union {y}
  BY <1>2, <1>3, <1>4, LinkedChains
<1>10. \A i \in 1..SLOTS : dir[y][i] = Unused
  BY <1>2 DEF Inv, Unwritten
<1>12. Heads' = Heads
  BY CreateExtendHeads
<1>13. Unwritten(fat', dir)
  BY <1>5 DEF Inv, Unwritten
<1>14. Fresh(fat, Heads, op.file)
  BY <1>1, Zenon DEF Inv, Creating
<1>15. Fresh(fat', Heads, op.file)
  BY <1>3, <1>14 DEF Fresh
<1>16. Creating(fat', dir, Heads, op')
  BY <1>1, <1>2, <1>3, <1>5, <1>10, <1>15, Zenon DEF Creating
<1>17. Writing(fat', Heads, op') /\ Deleting(fat', DirCluster', Heads, op')
  BY <1>1 DEF Writing, Deleting
<1>18. NextUsed(fat', op')
  BY <1>1, <1>2, <1>3, Zenon
<1>19. TypeInv'
  BY <1>1, <1>3, Zenon DEF Inv, TypeInv
<1> QED
  BY <1>1, <1>3, <1>12, <1>13, <1>16, <1>17, <1>18, <1>19, Zenon DEF Inv

LEMMA LinkFacts ==
  ASSUME Inv, write_link
  PROVE  /\ op.step = "link" /\ UNCHANGED dir /\ op.slot = NoSlot /\ IsCommand(op')
         /\ op'.step = "eoc" /\ op'.file = op.file /\ op'.cur = op.cur /\ op'.slot = NoSlot
         /\ (\E s \in DOMAIN Heads : Heads[s] = op.file)
         /\ Start(fat, op.file) /\ op.file # ROOT /\ op.cur \in ChainIn(fat, op.file)
         /\ op.cur \in Clusters /\ op.cur \notin ChainIn(fat, ROOT)
         /\ fat[op.cur] # 0 /\ NextIn(fat, op.cur) = 0
         /\ op'.new \in Clusters /\ fat[op'.new] = 0 /\ fat' = [fat EXCEPT ![op.cur] = op'.new]
<1>1. op.step = "link" /\ Free # {} /\ UNCHANGED dir /\ IsCommand(op)
  BY DEF write_link, At, Inv, TypeInv
<1>2. op.slot = NoSlot
  BY <1>1 DEF Inv, Deleting
<1>3. PICK y \in Clusters : y = alloc_cluster /\ fat[y] = 0
  BY <1>1, Allocated DEF Free
<1>4. op' = [op EXCEPT !.step = "eoc", !.new = y]
  BY <1>3 DEF write_link
<1>5. /\ op'.step = "eoc" /\ op'.file = op.file /\ op'.cur = op.cur /\ op'.slot = NoSlot
      /\ op'.new = y /\ IsCommand(op')
  BY <1>1, <1>2, <1>4, Zenon DEF IsCommand
<1>6. /\ (\E s \in DOMAIN Heads : Heads[s] = op.file)
      /\ op.cur \in ChainIn(fat, op.file) /\ NextIn(fat, op.cur) = 0
  BY <1>1 DEF Inv, Writing
<1>7. fat \in Fats /\ Starts(fat, Heads) /\ Injective(fat) /\ Start(fat, ROOT) /\ NextUsed(fat, op)
  BY Zenon DEF Inv, TypeInv, Starts
<1>8. Start(fat, op.file) /\ op.file # ROOT
  BY <1>6, <1>7 DEF Starts
<1>9. op.cur \in Clusters /\ fat[op.cur] # 0
  BY <1>1, <1>6, <1>7, <1>8, ChainIs, ChainUsed DEF Start
<1>10. op.cur \notin ChainIn(fat, ROOT)
  BY <1>6, <1>7, <1>8, ChainsApart
<1>11. fat' = [fat EXCEPT ![op.cur] = y]
  BY <1>3 DEF write_link, set_fat_entry
<1> QED
  BY <1>1, <1>2, <1>3, <1>5, <1>6, <1>8, <1>9, <1>10, <1>11

LEMMA WriteLinkHeads ==
  ASSUME Inv, write_link
  PROVE  /\ DirCluster' = DirCluster /\ Heads' = Heads
         /\ ChainIn(fat', ROOT) = ChainIn(fat, ROOT)
<1>1. /\ op.step = "link" /\ UNCHANGED dir /\ op.slot = NoSlot /\ IsCommand(op')
      /\ op'.step = "eoc" /\ op'.file = op.file /\ op'.cur = op.cur /\ op'.slot = NoSlot
      /\ (\E s \in DOMAIN Heads : Heads[s] = op.file)
      /\ Start(fat, op.file) /\ op.file # ROOT /\ op.cur \in ChainIn(fat, op.file)
      /\ op.cur \in Clusters /\ op.cur \notin ChainIn(fat, ROOT)
  BY LinkFacts
<1>2. PICK x \in Clusters, y \in Clusters :
        /\ x = op.cur /\ y = op'.new
        /\ fat[x] # 0 /\ NextIn(fat, x) = 0 /\ fat[y] = 0 /\ fat' = [fat EXCEPT ![x] = y]
  BY LinkFacts
<1>3. /\ fat' \in Fats /\ fat'[y] = 0 /\ Links(fat, fat', x, y)
      /\ \A c \in Clusters : c # x => fat'[c] = fat[c]
      /\ Injective(fat')
      /\ \A h : Start(fat, h) => Start(fat', h)
      /\ Starts(fat', Heads)
      /\ \A o : o.step \in {"eoc", "dirEoc"} /\ o.new = y => NextUsed(fat', o)
  BY <1>1, <1>2, Linked, Zenon
<1>4. fat \in Fats /\ Injective(fat) /\ Start(fat, ROOT) /\ Start(fat', ROOT)
  BY <1>3, Zenon DEF Inv, TypeInv, Starts
<1>5. WalkIn(fat', ROOT) = WalkIn(fat, ROOT) /\ ChainIn(fat', ROOT) = ChainIn(fat, ROOT)
  <2>1. x \notin ChainIn(fat, ROOT)
    BY <1>1, <1>2
  <2> QED
    BY <1>3, <1>4, <2>1, LinkedChains, Zenon
<1>6. DirCluster' = DirCluster /\ Heads' = Heads
  BY <1>1, <1>5, Here, There, SlotsHere, SlotsThere
<1> QED
  BY <1>5, <1>6

LEMMA WriteLinkStep ==
  ASSUME Inv, write_link
  PROVE  Inv'
<1>1. /\ op.step = "link" /\ UNCHANGED dir /\ op.slot = NoSlot /\ IsCommand(op')
      /\ op'.step = "eoc" /\ op'.file = op.file /\ op'.cur = op.cur /\ op'.slot = NoSlot
      /\ (\E s \in DOMAIN Heads : Heads[s] = op.file)
      /\ Start(fat, op.file) /\ op.file # ROOT /\ op.cur \in ChainIn(fat, op.file)
      /\ op.cur \in Clusters /\ op.cur \notin ChainIn(fat, ROOT)
  BY LinkFacts
<1>2. PICK x \in Clusters, y \in Clusters :
        /\ x = op.cur /\ y = op'.new
        /\ fat[x] # 0 /\ NextIn(fat, x) = 0 /\ fat[y] = 0 /\ fat' = [fat EXCEPT ![x] = y]
  BY LinkFacts
<1>3. /\ fat' \in Fats /\ fat'[y] = 0 /\ Links(fat, fat', x, y)
      /\ \A c \in Clusters : c # x => fat'[c] = fat[c]
      /\ Injective(fat')
      /\ \A h : Start(fat, h) => Start(fat', h)
      /\ Starts(fat', Heads)
      /\ \A o : o.step \in {"eoc", "dirEoc"} /\ o.new = y => NextUsed(fat', o)
  BY <1>1, <1>2, Linked, Zenon
<1>4. fat \in Fats /\ Injective(fat) /\ Start(fat, ROOT) /\ Start(fat', ROOT)
  BY <1>3, Zenon DEF Inv, TypeInv, Starts
<1>5. ChainIn(fat', ROOT) = ChainIn(fat, ROOT)
  BY WriteLinkHeads
<1>6. DirCluster' = DirCluster /\ Heads' = Heads
  BY WriteLinkHeads
<1>7. Unwritten(fat', dir)
  BY <1>5, Zenon DEF Inv, Unwritten
<1>8. ChainIn(fat, op.file) \subseteq ChainIn(fat', op.file)
  <2>1. PICK h : h = op.file /\ Start(fat, h) /\ Start(fat', h)
    BY <1>1, <1>3
  <2>2. ChainIn(fat, h) \subseteq ChainIn(fat', h)
    BY <1>2, <1>3, <1>4, <2>1, LinkedChains
  <2> QED
    BY <2>1, <2>2
<1>9. Writing(fat', Heads, op')
  BY <1>1, <1>2, <1>3, <1>8, Zenon DEF Writing, Links
<1>10. Creating(fat', dir, Heads, op') /\ Deleting(fat', DirCluster, Heads, op')
  BY <1>1, Zenon DEF Creating, Deleting
<1>11. NextUsed(fat', op')
  BY <1>1, <1>2, <1>3, Zenon
<1>12. TypeInv'
  BY <1>1, <1>3, Zenon DEF Inv, TypeInv
<1> QED
  BY <1>1, <1>3, <1>6, <1>7, <1>9, <1>10, <1>11, <1>12, Zenon DEF Inv

\* What freeing cluster x, the first of a chain that no file has, changes.
LEMMA Freed ==
  ASSUME Inv, op.step = "free", NEW x \in Clusters, x = op.cur, fat' = [fat EXCEPT ![x] = 0]
  PROVE  /\ fat' \in Fats /\ fat'[x] = 0 /\ \A c \in Clusters : c # x => fat'[c] = fat[c]
         /\ NextIn(fat', x) = 0 /\ \A c \in Clusters : c # x => NextIn(fat', c) = NextIn(fat, c)
         /\ Injective(fat')
         /\ \A h : Start(fat, h) /\ h # x => Start(fat', h)
         /\ \A h : Start(fat, h) /\ h # x =>
              WalkIn(fat', h) = WalkIn(fat, h) /\ ChainIn(fat', h) = ChainIn(fat, h)
         /\ Starts(fat', Heads) /\ \A o : NextUsed(fat', o)
         /\ NextIn(fat, x) # 0 => Fresh(fat', Heads, NextIn(fat, x))
<1>1. fat \in Fats /\ Starts(fat, Heads) /\ Injective(fat)
  BY Zenon DEF Inv, TypeInv, Starts
<1>2. Fresh(fat, Heads, x)
  BY DEF Inv, Deleting
<1>3. Start(fat, x) /\ x # ROOT /\ \A s \in DOMAIN Heads : Heads[s] # x
  BY <1>2 DEF Fresh
<1>4. fat' \in Fats
  BY <1>1 DEF Fats
<1>5. fat'[x] = 0 /\ \A c \in Clusters : c # x => fat'[c] = fat[c]
  BY <1>1 DEF Fats
<1>6. NextIn(fat', x) = 0 /\ \A c \in Clusters : c # x => NextIn(fat', c) = NextIn(fat, c)
  BY <1>4, <1>5, NextType DEF NextIn
<1>7. Injective(fat')
  BY <1>1, <1>6 DEF Injective
<1>8. ASSUME NEW h, Start(fat, h), h # x PROVE Start(fat', h)
  <2>1. h \in Clusters /\ h # 0 /\ fat'[h] # 0
    BY <1>5, <1>8, Volume DEF Start
  <2>2. \A c \in Clusters : NextIn(fat', c) # h
    BY <1>6, <1>8, <2>1, Zenon DEF Start
  <2> QED
    BY <2>1, <2>2, Zenon DEF Start
<1>9. ASSUME NEW h, Start(fat, h), h # x
      PROVE  WalkIn(fat', h) = WalkIn(fat, h) /\ ChainIn(fat', h) = ChainIn(fat, h)
  <2>1. h \in Clusters
    BY <1>9 DEF Start
  <2>2. x \notin ChainIn(fat, h)
    BY <1>1, <1>3, <1>9, <2>1, StartApart
  <2>3. \A d \in ChainIn(fat, h) : NextIn(fat', d) = NextIn(fat, d)
    BY <1>1, <1>6, <2>1, <2>2, ChainIs, Zenon
  <2> QED
    BY <1>1, <1>4, <2>1, <2>3, WalkSame, Zenon
<1>10. Starts(fat', Heads)
  BY <1>1, <1>3, <1>7, <1>8, Zenon DEF Starts
<1>11. \A c \in Clusters : NextIn(fat, c) # 0 => fat[NextIn(fat, c)] # 0 /\ NextIn(fat, c) # x
  BY <1>3 DEF Inv, NextUsed, Start
<1>12. \A o : NextUsed(fat', o)
  <2> SUFFICES ASSUME NEW c \in Clusters, NextIn(fat', c) # 0
               PROVE  fat'[NextIn(fat', c)] # 0
    BY Zenon DEF NextUsed
  <2>1. NextIn(fat', c) = NextIn(fat, c)
    BY <1>6, Zenon
  <2>2. NextIn(fat, c) \in Clusters
    BY <1>1, <2>1, NextType
  <2> QED
    BY <1>5, <1>11, <2>1, <2>2
<1>13. ASSUME NextIn(fat, x) # 0 PROVE Fresh(fat', Heads, NextIn(fat, x))
  <2>1. PICK n \in Clusters : n = NextIn(fat, x)
    BY <1>1, <1>13, NextType
  <2>2. fat'[n] # 0
    BY <1>5, <1>11, <1>13, <2>1
  <2>3. \A c \in Clusters : NextIn(fat', c) # n
    BY <1>1, <1>6, <1>13, <2>1, Zenon DEF Injective
  <2>4. n # ROOT /\ \A s \in DOMAIN Heads : Heads[s] # n
    BY <1>1, <2>1 DEF Starts, Start
  <2> QED
    BY <2>1, <2>2, <2>3, <2>4, Zenon DEF Fresh, Start
<1>14. \A h : Start(fat, h) /\ h # x => Start(fat', h)
  BY <1>8, Zenon
<1>15. \A h : Start(fat, h) /\ h # x =>
         WalkIn(fat', h) = WalkIn(fat, h) /\ ChainIn(fat', h) = ChainIn(fat, h)
  BY <1>9, Zenon
<1> QED
  BY <1>4, <1>5, <1>6, <1>7, <1>10, <1>12, <1>13, <1>14, <1>15, Zenon

LEMMA FreeFacts ==
  ASSUME Inv, delete_free
  PROVE  /\ op.step = "free" /\ UNCHANGED dir /\ op.cur \in Clusters /\ IsCommand(op')
         /\ fat' = [fat EXCEPT ![op.cur] = 0] /\ op'.file = op.file /\ op'.slot = op.slot
         /\ NextIn(fat, op.cur) # 0 => op'.step = "free" /\ op'.cur = NextIn(fat, op.cur)
         /\ NextIn(fat, op.cur) = 0 => op'.step = "unlink"
<1>1. op.step = "free" /\ UNCHANGED dir /\ fat' = [fat EXCEPT ![op.cur] = 0]
  BY DEF delete_free, At, set_fat_entry
<1>2. op.cur \in Clusters /\ fat \in Fats /\ IsCommand(op)
  BY <1>1 DEF Inv, Deleting, Fresh, Start, TypeInv
<1>3. op' = IF NextIn(fat, op.cur) \in Clusters THEN [op EXCEPT !.cur = NextIn(fat, op.cur)]
            ELSE [op EXCEPT !.step = "unlink"]
  BY Here DEF delete_free
<1>4. NextIn(fat, op.cur) \in Clusters <=> NextIn(fat, op.cur) # 0
  BY <1>2, NextType, Volume, Zenon
<1>5. CASE NextIn(fat, op.cur) # 0
  <2>1. op' = [op EXCEPT !.cur = NextIn(fat, op.cur)]
    BY <1>3, <1>4, <1>5
  <2>2. /\ op'.step = "free" /\ op'.cur = NextIn(fat, op.cur) /\ op'.file = op.file
        /\ op'.slot = op.slot /\ IsCommand(op')
    BY <1>1, <1>2, <2>1 DEF IsCommand
  <2> QED
    BY <1>1, <1>2, <1>5, <2>2
<1>6. CASE NextIn(fat, op.cur) = 0
  <2>1. op' = [op EXCEPT !.step = "unlink"]
    BY <1>3, <1>4, <1>6
  <2>2. op'.step = "unlink" /\ op'.file = op.file /\ op'.slot = op.slot /\ IsCommand(op')
    BY <1>1, <1>2, <2>1 DEF IsCommand
  <2> QED
    BY <1>1, <1>2, <1>6, <2>2
<1> QED
  BY <1>5, <1>6

LEMMA DeleteFreeStep ==
  ASSUME Inv, delete_free
  PROVE  Inv'
<1>1. /\ op.step = "free" /\ UNCHANGED dir /\ op.cur \in Clusters /\ IsCommand(op')
      /\ fat' = [fat EXCEPT ![op.cur] = 0] /\ op'.file = op.file /\ op'.slot = op.slot
      /\ NextIn(fat, op.cur) # 0 => op'.step = "free" /\ op'.cur = NextIn(fat, op.cur)
      /\ NextIn(fat, op.cur) = 0 => op'.step = "unlink"
  BY FreeFacts
<1>2. PICK x \in Clusters : x = op.cur
  BY <1>1
<1>3. /\ fat' \in Fats /\ fat'[x] = 0 /\ \A c \in Clusters : c # x => fat'[c] = fat[c]
      /\ \A h : Start(fat, h) /\ h # x =>
           WalkIn(fat', h) = WalkIn(fat, h) /\ ChainIn(fat', h) = ChainIn(fat, h)
      /\ Starts(fat', Heads) /\ \A o : NextUsed(fat', o)
      /\ NextIn(fat, x) # 0 => Fresh(fat', Heads, NextIn(fat, x))
  BY <1>1, <1>2, Freed, Zenon
<1>4. Start(fat, ROOT) /\ x # ROOT /\ (op.file = x \/ fat[op.file] = 0)
  BY <1>1, <1>2 DEF Inv, Starts, Deleting, Fresh
<1>5. WalkIn(fat', ROOT) = WalkIn(fat, ROOT) /\ ChainIn(fat', ROOT) = ChainIn(fat, ROOT)
  BY <1>3, <1>4, Zenon
<1>6. DirCluster' = DirCluster /\ Heads' = Heads
  BY <1>1, <1>5, Here, There, SlotsHere, SlotsThere
<1>7. Unwritten(fat', dir)
  BY <1>5, Zenon DEF Inv, Unwritten
<1>8. op.slot \in SlotSet /\ DirCluster[op.slot[1]] # 0 /\ op.file \in Clusters
  BY <1>1 DEF Inv, Deleting
<1>9. fat'[op.file] = 0
  BY <1>3, <1>4, <1>8, Zenon
<1>10. op'.step \in {"free", "unlink"}
  BY <1>1
<1>11. op'.step = "free" => Fresh(fat', Heads, op'.cur)
  BY <1>1, <1>2, <1>3, Zenon
<1>12. Deleting(fat', DirCluster, Heads, op')
  BY <1>1, <1>8, <1>9, <1>10, <1>11 DEF Deleting
<1>13. Creating(fat', dir, Heads, op') /\ Writing(fat', Heads, op')
  BY <1>10 DEF Creating, Writing
<1>14. TypeInv'
  BY <1>1, <1>3 DEF Inv, TypeInv
<1> QED
  BY <1>1, <1>3, <1>6, <1>7, <1>12, <1>13, <1>14, Zenon DEF Inv

\* rm clears the entry it has left out of the files since it began.
LEMMA UnlinkFacts ==
  ASSUME Inv, delete_unlink
  PROVE  /\ op.step = "unlink" /\ UNCHANGED fat /\ op' = Idle /\ DirCluster' = DirCluster
         /\ dir' \in [Clusters -> [1..SLOTS -> DirEntries]] /\ Unwritten(fat, dir')
         /\ Heads' = Heads
<1>1. op.step = "unlink" /\ UNCHANGED fat /\ op' = Idle
  BY DEF delete_unlink, At
<1>2. PICK s \in SlotSet : s = op.slot /\ DirCluster[s[1]] # 0
  BY <1>1, Zenon DEF Inv, Deleting
<1>3. s \in SlotNos
  BY <1>2 DEF SlotNos, SlotSet
<1>4. dir' = WithEntry(dir, DirCluster[s[1]], s[2], Deleted)
  BY <1>2 DEF delete_unlink, SetSlot, WithEntry
<1>5. Deleted \in DirEntries
  BY DEF DirEntries
<1>6. /\ DirCluster' = DirCluster
      /\ dir' \in [Clusters -> [1..SLOTS -> DirEntries]]
      /\ dir'[DirCluster[s[1]]][s[2]] = Deleted
      /\ \A t \in SlotSet : t # s /\ DirCluster[t[1]] # 0 =>
           dir'[DirCluster[t[1]]][t[2]] = dir[DirCluster[t[1]]][t[2]]
      /\ Unwritten(fat, dir')
  BY <1>1, <1>3, <1>4, <1>5, SlotWritten, Zenon
<1>7. Heads' = HeadsIn(DirCluster, dir', NoSlot) /\ Heads = HeadsIn(DirCluster, dir, s)
  BY <1>1, <1>2, <1>6, SlotsHere, SlotsThere, IdleCommand
<1>8. \A t \in SlotSet : t # NoSlot
  BY DEF SlotSet, NoSlot
<1>9. ASSUME NEW t \in SlotSet
      PROVE  t \in EntriesIn(DirCluster, dir', NoSlot) <=> t \in EntriesIn(DirCluster, dir, s)
  BY <1>6, <1>8 DEF EntriesIn
<1>10. EntriesIn(DirCluster, dir', NoSlot) = EntriesIn(DirCluster, dir, s)
  BY <1>9 DEF EntriesIn
<1>11. \A t \in EntriesIn(DirCluster, dir, s) :
         dir'[DirCluster[t[1]]][t[2]] = dir[DirCluster[t[1]]][t[2]]
  BY <1>6 DEF EntriesIn
<1>12. Heads' = Heads
  BY <1>7, <1>10, <1>11 DEF HeadsIn
<1> QED
  BY <1>1, <1>6, <1>12, Zenon

LEMMA DeleteUnlinkStep ==
  ASSUME Inv, delete_unlink
  PROVE  Inv'
<1>1. /\ op.step = "unlink" /\ UNCHANGED fat /\ op' = Idle /\ DirCluster' = DirCluster
      /\ dir' \in [Clusters -> [1..SLOTS -> DirEntries]] /\ Unwritten(fat, dir')
      /\ Heads' = Heads
  BY UnlinkFacts
<1>2. op'.step = "idle" /\ op'.slot = NoSlot /\ IsCommand(op')
  BY <1>1, IdleCommand
<1>3. NextUsed(fat, op')
  BY <1>1, StrictlyUsed
<1>4. /\ Creating(fat, dir', Heads, op') /\ Writing(fat, Heads, op')
      /\ Deleting(fat, DirCluster, Heads, op')
  BY <1>2 DEF Creating, Writing, Deleting
<1>5. TypeInv'
  BY <1>1, <1>2 DEF Inv, TypeInv
<1> QED
  BY <1>1, <1>3, <1>4, <1>5 DEF Inv

-----------------------------------------------------------------------------
LEMMA Fat32Init ==
  ASSUME Init
  PROVE  Inv
<1>1. /\ fat = [c \in Clusters |-> IF c = ROOT THEN EOC ELSE 0]
      /\ dir = [c \in Clusters |-> [i \in 1..SLOTS |-> Unused]] /\ op = Idle
  BY DEF Init
<1>2. op.step = "idle" /\ op.slot = NoSlot /\ IsCommand(op)
  BY <1>1, IdleCommand
<1>3. fat \in Fats /\ fat[ROOT] # 0 /\ \A c \in Clusters : NextIn(fat, c) = 0
  BY <1>1, Volume DEF Fats, NextIn
<1>4. dir \in [Clusters -> [1..SLOTS -> DirEntries]]
  BY <1>1 DEF DirEntries
<1>5. \A c \in Clusters, i \in 1..SLOTS : dir[c][i] = Unused
  BY <1>1
<1>6. IsWalk(fat, ROOT, DirCluster)
  BY <1>3, Here, WalkIs, Volume
<1>7. ASSUME NEW s \in Entries PROVE FALSE
  <2>1. s \in SlotSet /\ DirCluster[s[1]] # 0 /\ Slot(s) # Unused
    BY <1>7 DEF Entries, SlotNos, SlotSet
  <2>2. DirCluster[s[1]] \in Clusters /\ s[2] \in 1..SLOTS
    BY <1>6, <2>1 DEF IsWalk, SlotSet
  <2> QED
    BY <1>5, <2>1, <2>2 DEF Slot
<1>8. DOMAIN Heads = {}
  BY <1>7, SlotsHere
<1>9. Injective(fat) /\ Start(fat, ROOT)
  BY <1>3, Volume DEF Injective, Start
<1>10. Starts(fat, Heads) /\ NextUsed(fat, op) /\ Unwritten(fat, dir)
  BY <1>3, <1>5, <1>8, <1>9 DEF Starts, NextUsed, Unwritten
<1>11. /\ Creating(fat, dir, Heads, op) /\ Writing(fat, Heads, op)
       /\ Deleting(fat, DirCluster, Heads, op)
  BY <1>2 DEF Creating, Writing, Deleting
<1> QED
  BY <1>2, <1>3, <1>4, <1>10, <1>11 DEF Inv, TypeInv

LEMMA Unchanged ==
  ASSUME Inv, UNCHANGED vars
  PROVE  Inv'
<1>1. UNCHANGED <<fat, dir>> /\ op' = op
  BY DEF vars
<1> QED
  BY <1>1, QuietStep DEF Inv, TypeInv

\* rm is no stuttering step.
LEMMA Changes ==
  ASSUME NEW name, delete(name)
  PROVE  ~ UNCHANGED vars
<1>1. op.step = "idle" /\ op'.step \in {"free", "unlink"}
  BY Zenon DEF delete, At, Idle
<1> QED
  BY <1>1, Zenon DEF vars

LEMMA Fat32Step ==
  ASSUME FailureSteps \subseteq SafeSteps, Inv, [Next]_vars, [ReadBack]_vars
  PROVE  Inv'
<1>1. CASE UNCHANGED vars
  BY <1>1, Unchanged
<1>2. CASE create_mark
  BY <1>2, CreateMarkStep
<1>3. CASE create_entry \/ create_dir_entry
  BY <1>3, CreateEntryStep
<1>4. CASE create_fails
  <2>1. op.step = "slot" /\ UNCHANGED <<fat, dir>> /\ op' = Idle
    BY <1>4 DEF create_fails, At
  <2> QED
    BY <2>1, BackToIdle
<1>5. CASE create_extend
  BY <1>5, CreateExtendStep
<1>6. CASE create_dir_eoc
  BY <1>6, CreateDirEocStep
<1>7. CASE create_dir_zero
  BY <1>7, CreateDirZeroStep
<1>8. CASE write_data
  BY <1>8, WriteDataStep
<1>9. CASE write_fails
  <2>1. op.step = "link" /\ UNCHANGED <<fat, dir>> /\ op' = Idle
    BY <1>9 DEF write_fails, At
  <2> QED
    BY <2>1, BackToIdle
<1>10. CASE write_link
  BY <1>10, WriteLinkStep
<1>11. CASE write_eoc
  BY <1>11, WriteEocStep
<1>12. CASE delete_free
  BY <1>12, DeleteFreeStep
<1>13. CASE delete_unlink
  BY <1>13, DeleteUnlinkStep
<1>14. CASE power_fails
  <2>1. op.step \in SafeSteps /\ UNCHANGED <<fat, dir>> /\ op' = Idle
    BY <1>14 DEF power_fails
  <2> QED
    BY <2>1, BackToIdle DEF SafeSteps
<1>15. ASSUME NEW name \in Names, Command(name) PROVE Inv'
  <2>1. CASE \E n \in Lengths \union {0} : create(name, n)
    BY <2>1, CreateStep
  <2>2. CASE \E n \in Lengths : write(name, n)
    BY <2>2, WriteStep
  <2>3. CASE delete(name)
    <3>1. op'.cur = op'.file
      BY <2>3, Changes, Zenon DEF ReadBack
    <3> QED
      BY <2>3, <3>1, DeleteStep, Zenon
  <2>4. CASE command_refused(name)
    BY <2>4, Unchanged DEF command_refused
  <2> QED
    BY <1>15, <2>1, <2>2, <2>3, <2>4 DEF Command
<1>16. CASE \E name \in Names : Command(name)
  BY <1>15, <1>16
<1> QED
  BY <1>1, <1>2, <1>3, <1>4, <1>5, <1>6, <1>7, <1>8, <1>9, <1>10, <1>11, <1>12, <1>13, <1>14,
     <1>16 DEF Next, Step

LEMMA Fat32Invariant ==
  ASSUME FailureSteps \subseteq SafeSteps
  PROVE  Spec /\ [][ReadBack]_vars => []Inv
<1>1. Init => Inv
  BY Fat32Init
<1>2. Inv /\ [Next]_vars /\ [ReadBack]_vars => Inv'
  BY Fat32Step
<1> QED
  BY <1>1, <1>2, PTL DEF Spec

\* The files' chains and the directory's are the chains of the heads and of the root.
LEMMA HeadStarts ==
  ASSUME Inv
  PROVE  /\ fat \in Fats /\ Injective(fat) /\ Start(fat, ROOT)
         /\ Chain(ROOT) = ChainIn(fat, ROOT)
         /\ \A s \in Entries : /\ Start(fat, Slot(s).cl) /\ Slot(s).cl # ROOT
                               /\ Chain(Slot(s).cl) = ChainIn(fat, Slot(s).cl)
         /\ \A s, t \in Entries : s # t => Slot(s).cl # Slot(t).cl
<1>1. fat \in Fats /\ Starts(fat, Heads)
  BY DEF Inv, TypeInv
<1>2. DOMAIN Heads = Entries /\ \A s \in Entries : Heads[s] = Slot(s).cl
  BY SlotsHere
<1>3. /\ Injective(fat) /\ Start(fat, ROOT)
      /\ \A s \in Entries : Start(fat, Slot(s).cl) /\ Slot(s).cl # ROOT
      /\ \A s, t \in Entries : s # t => Slot(s).cl # Slot(t).cl
  BY <1>1, <1>2 DEF Starts
<1> QED
  BY <1>1, <1>3, Here

\* Between any two disk writes, and after a power failure before one that tolerates it, no two
\* files share a cluster and no file shares one with the root directory, on a volume of any size
\* with directory clusters of any size, as long as rm reads back the first cluster of each file
\* it removes from the entry's two bytes.
THEOREM FilesStayApart ==
  ASSUME FailureSteps \subseteq SafeSteps
  PROVE  Spec /\ [][ReadBack]_vars => []NoCrossLink
<1>1. ASSUME Inv PROVE NoCrossLink
  <2>1. /\ fat \in Fats /\ Injective(fat) /\ Start(fat, ROOT)
        /\ Chain(ROOT) = ChainIn(fat, ROOT)
        /\ \A s \in Entries : /\ Start(fat, Slot(s).cl) /\ Slot(s).cl # ROOT
                              /\ Chain(Slot(s).cl) = ChainIn(fat, Slot(s).cl)
        /\ \A s, t \in Entries : s # t => Slot(s).cl # Slot(t).cl
    BY <1>1, HeadStarts
  <2>2. ASSUME NEW s \in Entries PROVE Chain(Slot(s).cl) \intersect Chain(ROOT) = {}
    BY <2>1, <2>2, ChainsApart
  <2>3. ASSUME NEW s \in Entries, NEW t \in Entries \ {s}
        PROVE  Chain(Slot(s).cl) \intersect Chain(Slot(t).cl) = {}
    BY <2>1, <2>3, ChainsApart
  <2> QED
    BY <2>2, <2>3 DEF NoCrossLink
<1> QED
  BY <1>1, Fat32Invariant, PTL

\* No cluster of a file or of the directory is free for alloc_cluster to hand out again, save the
\* one that was chained a moment ago and is marked next.
THEOREM ChainsStayAllocated ==
  ASSUME FailureSteps \subseteq SafeSteps
  PROVE  Spec /\ [][ReadBack]_vars => []ChainsAllocated
<1>1. ASSUME Inv PROVE ChainsAllocated
  <2>1. /\ fat \in Fats /\ Start(fat, ROOT)
        /\ Chain(ROOT) = ChainIn(fat, ROOT)
        /\ \A s \in Entries : /\ Start(fat, Slot(s).cl)
                              /\ Chain(Slot(s).cl) = ChainIn(fat, Slot(s).cl)
    BY <1>1, HeadStarts
  <2>2. NextUsed(fat, op)
    BY <1>1 DEF Inv
  <2>3. ASSUME NEW h, Start(fat, h), NEW c \in ChainIn(fat, h)
        PROVE  fat[c] # 0 \/ (op.step \in {"eoc", "dirEoc"} /\ c = op.new)
    BY <2>1, <2>2, <2>3, ChainUsed DEF Start
  <2>4. ASSUME NEW c \in Chain(ROOT) \union UNION {Chain(Slot(s).cl) : s \in Entries}
        PROVE  \E h : Start(fat, h) /\ c \in ChainIn(fat, h)
    BY <2>1
  <2> QED
    BY <2>3, <2>4 DEF ChainsAllocated
<1> QED
  BY <1>1, Fat32Invariant, PTL

-----------------------------------------------------------------------------
\* The clusters that the directory, its files (first clusters H) or command o refer to.
Filed(f, H) == ChainIn(f, ROOT) \union UNION {ChainIn(f, H[s]) : s \in DOMAIN H}
Referred(f, H, o) ==
  Filed(f, H) \union (IF o.step = "idle" THEN {} ELSE ChainIn(f, o.file))
              \union (IF o.step = "free" THEN ChainIn(f, o.cur) ELSE {})

LEMMA LostHere ==
  /\ Lost = {c \in Clusters : fat[c] # 0} \ Referred(fat, Heads, op)
  /\ Lost' = {c \in Clusters : fat'[c] # 0} \ Referred(fat', Heads', op')
<1>1. Lost = {c \in Clusters : fat[c] # 0} \ Referred(fat, Heads, op)
  <2>1. Chain(ROOT) = ChainIn(fat, ROOT) /\ Chain(op.file) = ChainIn(fat, op.file)
        /\ Chain(op.cur) = ChainIn(fat, op.cur)
    BY Here
  <2>2. {Chain(Slot(s).cl) : s \in Entries} = {ChainIn(fat, Heads[s]) : s \in DOMAIN Heads}
    BY Here, SlotsHere
  <2>3. Chain(ROOT) \union UNION {Chain(Slot(s).cl) : s \in Entries} = Filed(fat, Heads)
    BY <2>1, <2>2 DEF Filed
  <2>4. /\ (IF op.step = "idle" THEN {} ELSE Chain(op.file))
             = (IF op.step = "idle" THEN {} ELSE ChainIn(fat, op.file))
        /\ (IF op.step = "free" THEN Chain(op.cur) ELSE {})
             = (IF op.step = "free" THEN ChainIn(fat, op.cur) ELSE {})
    BY <2>1
  <2> QED
    BY <2>3, <2>4, Zenon DEF Lost, Referred
<1>2. Lost' = {c \in Clusters : fat'[c] # 0} \ Referred(fat', Heads', op')
  <2>1. \A c : Chain(c)' = ChainIn(fat', c)
    BY DEF Chain, ChainIn, Walk, WalkIn, next_cluster, NextIn
  <2>2. Chain(ROOT)' = ChainIn(fat', ROOT) /\ Chain(op.file)' = ChainIn(fat', op'.file)
        /\ Chain(op.cur)' = ChainIn(fat', op'.cur)
    BY DEF Chain, ChainIn, Walk, WalkIn, next_cluster, NextIn
  <2>3. DOMAIN Heads' = Entries' /\ \A s \in Entries' : Heads'[s] = Slot(s)'.cl
    BY DEF Heads
  <2>4. \A s \in Entries' : Chain(Slot(s).cl)' = ChainIn(fat', Heads'[s])
    BY <2>3 DEF Chain, ChainIn, Walk, WalkIn, next_cluster, NextIn
  <2>5. {Chain(Slot(s).cl) : s \in Entries}' = {ChainIn(fat', Heads'[s]) : s \in DOMAIN Heads'}
    BY <2>3, <2>4
  <2>6. (Chain(ROOT) \union UNION {Chain(Slot(s).cl) : s \in Entries})' = Filed(fat', Heads')
    BY <2>2, <2>5 DEF Filed
  <2>7. /\ (IF op.step = "idle" THEN {} ELSE Chain(op.file))'
             = (IF op'.step = "idle" THEN {} ELSE ChainIn(fat', op'.file))
        /\ (IF op.step = "free" THEN Chain(op.cur) ELSE {})'
             = (IF op'.step = "free" THEN ChainIn(fat', op'.cur) ELSE {})
    BY <2>2
  <2> QED
    BY <2>6, <2>7, Zenon DEF Lost, Referred
<1> QED
  BY <1>1, <1>2

\* Nothing is lost when what becomes used is referred to, and what was referred to stays so or
\* is freed.
LEMMA NothingLost ==
  ASSUME \A c \in Clusters : fat'[c] # 0 /\ fat[c] = 0 => c \in Referred(fat', Heads', op'),
         \A c \in Clusters : c \in Referred(fat, Heads, op) /\ fat'[c] # 0 =>
                               c \in Referred(fat', Heads', op')
  PROVE  Lost' \subseteq Lost
BY LostHere

\* The steps that write nothing.
LEMMA QuietLost ==
  ASSUME Inv, UNCHANGED <<fat, dir>>, op'.slot = op.slot, op.step # "free",
         \/ op.step = "idle"
         \/ op'.step # "idle" /\ op'.file = op.file
         \/ op'.step = "idle" /\ \E s \in DOMAIN Heads : Heads[s] = op.file
  PROVE  Lost' \subseteq Lost
<1>1. Heads' = Heads
  BY Quiet
<1>2. Referred(fat, Heads, op) \subseteq Referred(fat', Heads', op')
  BY <1>1 DEF Referred, Filed
<1> QED
  BY <1>2, NothingLost

\* A cluster is marked that the directory or the command's file refers to.
LEMMA MarkLost ==
  ASSUME Inv, op.step \notin {"idle", "free"}, op'.step # "idle", op'.file = op.file,
         op'.slot = op.slot, op.file \in Clusters, UNCHANGED dir,
         NEW x \in Clusters, fat[x] = 0, fat' = [fat EXCEPT ![x] = EOC],
         x \in ChainIn(fat, ROOT) \union ChainIn(fat, op.file)
  PROVE  Lost' \subseteq Lost
<1>1. /\ \A c \in Clusters : c # x => fat'[c] = fat[c]
      /\ \A c \in Clusters : ChainIn(fat', c) = ChainIn(fat, c)
      /\ Heads' = Heads /\ Starts(fat', Heads)
  BY Marked, Zenon
<1>2. \A s \in DOMAIN Heads : Heads[s] \in Clusters
  BY <1>1 DEF Starts, Start
<1>3. ChainIn(fat', ROOT) = ChainIn(fat, ROOT) /\ ChainIn(fat', op.file) = ChainIn(fat, op.file)
  BY <1>1, Volume, Zenon
<1>4. UNION {ChainIn(fat', Heads[s]) : s \in DOMAIN Heads}
        = UNION {ChainIn(fat, Heads[s]) : s \in DOMAIN Heads}
  BY <1>1, <1>2, Zenon
<1>5. Referred(fat, Heads, op) \subseteq Referred(fat', Heads', op')
  <2>1. Filed(fat', Heads) = Filed(fat, Heads)
    BY <1>3, <1>4, Zenon DEF Filed
  <2> QED
    BY <1>1, <1>3, <2>1 DEF Referred
<1>6. x \in Referred(fat', Heads', op')
  BY <1>3 DEF Referred, Filed
<1> QED
  BY <1>1, <1>5, <1>6, NothingLost, Zenon

\* A free cluster is chained: chains only grow.
LEMMA LinkLost ==
  ASSUME Inv, op.step \notin {"idle", "free", "eoc", "dirEoc"}, op'.step # "idle",
         op'.file = op.file, Start(fat, op.file), Heads' = Heads,
         NEW x \in Clusters, fat[x] # 0, NextIn(fat, x) = 0,
         NEW y \in Clusters, fat[y] = 0, fat' = [fat EXCEPT ![x] = y]
  PROVE  Lost' \subseteq Lost
<1>1. /\ fat' \in Fats /\ fat'[y] = 0 /\ Links(fat, fat', x, y)
      /\ \A c \in Clusters : c # x => fat'[c] = fat[c]
      /\ Injective(fat') /\ \A h : Start(fat, h) => Start(fat', h)
  BY Linked, Zenon
<1>2. fat \in Fats /\ Starts(fat, Heads) /\ Injective(fat) /\ Start(fat, ROOT)
  BY DEF Inv, TypeInv, Starts
<1>3. ASSUME NEW h, Start(fat, h) PROVE ChainIn(fat, h) \subseteq ChainIn(fat', h)
  <2>1. Start(fat', h)
    BY <1>1, <1>3, Zenon
  <2> QED
    BY <1>1, <1>2, <1>3, <2>1, LinkedChains
<1>4. \A s \in DOMAIN Heads : ChainIn(fat, Heads[s]) \subseteq ChainIn(fat', Heads[s])
  BY <1>2, <1>3, Zenon DEF Starts
<1>5. ChainIn(fat, ROOT) \subseteq ChainIn(fat', ROOT) /\ ChainIn(fat, op.file) \subseteq ChainIn(fat', op.file)
  BY <1>2, <1>3, Zenon
<1>6. Filed(fat, Heads) \subseteq Filed(fat', Heads)
  BY <1>4, <1>5, Zenon DEF Filed
<1>7. Referred(fat, Heads, op) \subseteq Referred(fat', Heads', op')
  BY <1>5, <1>6, Zenon DEF Referred
<1>8. \A c \in Clusters : fat'[c] # 0 => fat[c] # 0
  BY <1>1
<1> QED
  BY <1>7, <1>8, NothingLost, Zenon

\* The new file's entry is written.
LEMMA EntryLost ==
  ASSUME Inv, create_entry \/ create_dir_entry
  PROVE  Lost' \subseteq Lost
<1>1. PICK s \in SlotNos :
        /\ op.step \in {"slot", "dirEntry"} /\ UNCHANGED fat /\ op' = AfterCreate(op)
        /\ Slot(s) \in {Unused, Deleted}
        /\ dir' = WithEntry(dir, DirCluster[s[1]], s[2], [name |-> op.name, cl |-> op.file])
  BY CreateEntryFacts, CreateDirEntryFacts
<1>2. /\ DOMAIN Heads' = DOMAIN Heads \union {s} /\ s \notin DOMAIN Heads
      /\ Heads'[s] = op.file /\ \A t \in DOMAIN Heads : Heads'[t] = Heads[t]
  BY <1>1, EntryFacts, Zenon
<1>3. PICK H : H = Heads'
  OBVIOUS
<1>4. Filed(fat, Heads) \union ChainIn(fat, op.file) \subseteq Filed(fat, H)
  BY <1>2, <1>3 DEF Filed
<1>5. Referred(fat, Heads, op) \subseteq Referred(fat', Heads', op')
  BY <1>1, <1>3, <1>4, Zenon DEF Referred
<1> QED
  BY <1>1, <1>5, NothingLost

\* rm begins: it refers to the chain of the entry it will clear.
LEMMA DeleteLost ==
  ASSUME Inv, NEW name \in Names, delete(name), op'.cur = op'.file
  PROVE  Lost' \subseteq Lost
<1>1. PICK s \in Entries :
        /\ op.step = "idle" /\ UNCHANGED fat /\ op'.step = "free" /\ op'.file = Heads[s]
        /\ DOMAIN Heads' = DOMAIN Heads \ {s} /\ \A t \in DOMAIN Heads' : Heads'[t] = Heads[t]
  BY DeleteFacts, Zenon
<1>2. PICK H : H = Heads'
  OBVIOUS
<1>3. Filed(fat, Heads) \subseteq Filed(fat, H) \union ChainIn(fat, Heads[s])
  BY <1>1, <1>2 DEF Filed
<1>4. Referred(fat, Heads, op) \subseteq Referred(fat', Heads', op')
  BY <1>1, <1>2, <1>3 DEF Referred
<1> QED
  BY <1>1, <1>4, NothingLost

\* The chain of a free cluster is that cluster.
LEMMA FreeAlone ==
  ASSUME NEW f \in Fats, NEW c \in Clusters, NextIn(f, c) = 0
  PROVE  ChainIn(f, c) = {c}
<1>1. ChainIn(f, c) \subseteq {c}
  <2>1. \A d \in Clusters : d \in {c} /\ NextIn(f, d) # 0 => NextIn(f, d) \in {c}
    OBVIOUS
  <2> QED
    BY <2>1, ChainLeast, Zenon
<1> QED
  BY <1>1, ChainIs

\* rm frees a cluster and goes on to the rest of the chain.
LEMMA FreeLost ==
  ASSUME Inv, delete_free
  PROVE  Lost' \subseteq Lost
<1>1. /\ op.step = "free" /\ UNCHANGED dir /\ op.cur \in Clusters
      /\ fat' = [fat EXCEPT ![op.cur] = 0] /\ op'.file = op.file /\ op'.slot = op.slot
      /\ NextIn(fat, op.cur) # 0 => op'.step = "free" /\ op'.cur = NextIn(fat, op.cur)
      /\ NextIn(fat, op.cur) = 0 => op'.step = "unlink"
  BY FreeFacts
<1>2. PICK x \in Clusters : x = op.cur
  BY <1>1
<1>3. /\ fat' \in Fats /\ fat'[x] = 0 /\ \A c \in Clusters : c # x => fat'[c] = fat[c]
      /\ NextIn(fat', x) = 0 /\ \A c \in Clusters : c # x => NextIn(fat', c) = NextIn(fat, c)
      /\ Injective(fat')
      /\ \A h : Start(fat, h) /\ h # x =>
           WalkIn(fat', h) = WalkIn(fat, h) /\ ChainIn(fat', h) = ChainIn(fat, h)
      /\ NextIn(fat, x) # 0 => Fresh(fat', Heads, NextIn(fat, x))
  BY <1>1, <1>2, Freed, Zenon
<1>4. /\ fat \in Fats /\ Starts(fat, Heads) /\ Fresh(fat, Heads, x) /\ op.file \in Clusters
      /\ op.file = x \/ fat[op.file] = 0
  BY <1>1, <1>2, Zenon DEF Inv, TypeInv, Deleting
<1>5. ChainIn(fat', ROOT) = ChainIn(fat, ROOT)
      /\ \A s \in DOMAIN Heads : ChainIn(fat', Heads[s]) = ChainIn(fat, Heads[s])
  BY <1>3, <1>4 DEF Starts, Fresh
<1>6. Filed(fat', Heads) = Filed(fat, Heads)
  BY <1>5 DEF Filed
<1>7. Heads' = Heads
  <2>1. WalkIn(fat', ROOT) = WalkIn(fat, ROOT)
    BY <1>3, <1>4 DEF Starts, Fresh
  <2> QED
    BY <1>1, <2>1, Here, There, SlotsHere, SlotsThere, Zenon
<1>8. \A c \in ChainIn(fat, x) : c # x => op'.step = "free" /\ c \in ChainIn(fat', op'.cur)
  <2>1. CASE NextIn(fat, x) = 0
    BY <1>4, <2>1, FreeAlone
  <2>2. CASE NextIn(fat, x) # 0
    <3>1. PICK n : n = NextIn(fat, x) /\ n = op'.cur /\ Start(fat', n) /\ n \in Clusters
      BY <1>1, <1>2, <1>3, <2>2, Zenon DEF Fresh, Start
    <3> DEFINE S == {x} \union ChainIn(fat', n)
    <3>2. n \in ChainIn(fat', n)
      BY <1>3, <3>1, ChainIs
    <3>3. ASSUME NEW d \in Clusters, d \in S, NextIn(fat, d) # 0 PROVE NextIn(fat, d) \in S
      <4>1. CASE d = x
        BY <3>1, <3>2, <4>1, Zenon
      <4>2. CASE d # x
        <5>1. d \in ChainIn(fat', n) /\ NextIn(fat', d) = NextIn(fat, d)
          BY <1>3, <3>3, <4>2
        <5>2. NextIn(fat', d) \in ChainIn(fat', n)
          BY <1>3, <3>1, <3>3, <5>1, ChainClosed
        <5> QED
          BY <5>1, <5>2
      <4> QED
        BY <4>1, <4>2
    <3>4. x \in S
      OBVIOUS
    <3> HIDE DEF S
    <3>5. ChainIn(fat, x) \subseteq S
      BY <1>4, <3>3, <3>4, ChainLeast
    <3> QED
      BY <1>1, <1>2, <2>2, <3>1, <3>5, Zenon DEF S
  <2> QED
    BY <2>1, <2>2
<1>9. \A c \in ChainIn(fat, op.file) : c \in ChainIn(fat, x) \/ fat[c] = 0
  <2>1. CASE op.file = x
    BY <2>1
  <2>2. CASE fat[op.file] = 0
    BY <1>4, <2>2, FreeAlone, NextType
  <2> QED
    BY <1>4, <2>1, <2>2
<1>10. \A c \in Clusters : fat'[c] # 0 => c # x /\ fat[c] # 0
  BY <1>3
<1>11. \A c \in Clusters : c \in Referred(fat, Heads, op) /\ fat'[c] # 0 =>
         c \in Filed(fat', Heads) \/ (op'.step = "free" /\ c \in ChainIn(fat', op'.cur))
  BY <1>1, <1>2, <1>6, <1>8, <1>9, <1>10, Zenon DEF Referred
<1>12. \A c \in Clusters : c \in Referred(fat, Heads, op) /\ fat'[c] # 0 =>
         c \in Referred(fat', Heads', op')
  BY <1>7, <1>11 DEF Referred
<1> QED
  BY <1>10, <1>12, NothingLost

LEMMA UnlinkLost ==
  ASSUME Inv, delete_unlink
  PROVE  Lost' \subseteq Lost
<1>1. op.step = "unlink" /\ UNCHANGED fat /\ op' = Idle /\ Heads' = Heads
  BY UnlinkFacts
<1>2. fat \in Fats /\ op.file \in Clusters /\ fat[op.file] = 0
  BY <1>1 DEF Inv, TypeInv, Deleting
<1>3. ChainIn(fat, op.file) = {op.file}
  BY <1>2, FreeAlone, NextType
<1>4. \A c \in Clusters : c \in Referred(fat, Heads, op) /\ fat[c] # 0 => c \in Filed(fat, Heads)
  BY <1>1, <1>2, <1>3 DEF Referred
<1>5. Filed(fat, Heads) \subseteq Referred(fat', Heads', op')
  BY <1>1 DEF Referred
<1> QED
  BY <1>1, <1>4, <1>5, NothingLost

LEMMA CreateLost ==
  ASSUME Inv, create_mark \/ create_dir_eoc \/ create_dir_zero
  PROVE  Lost' \subseteq Lost
<1>1. CASE create_mark
  <2>1. /\ op.step = "mark" /\ fat' = [fat EXCEPT ![op.file] = EOC] /\ UNCHANGED dir
        /\ op' = [op EXCEPT !.step = "slot"] /\ IsCommand(op)
    BY <1>1 DEF create_mark, At, set_fat_entry, Goto, Inv, TypeInv
  <2>2. op'.step = "slot" /\ op'.file = op.file /\ op'.slot = op.slot
    BY <2>1 DEF IsCommand
  <2>3. op.file \in Clusters /\ fat[op.file] = 0 /\ fat \in Fats
    BY <2>1 DEF Inv, Creating, TypeInv
  <2>4. op.file \in ChainIn(fat, op.file)
    BY <2>3, ChainIs
  <2> QED
    BY <2>1, <2>2, <2>3, <2>4, MarkLost, Zenon
<1>2. CASE create_dir_eoc
  <2>1. /\ op.step = "dirEoc" /\ fat' = [fat EXCEPT ![op.new] = EOC] /\ UNCHANGED dir
        /\ op' = [op EXCEPT !.step = "dirZero"] /\ IsCommand(op)
    BY <1>2 DEF create_dir_eoc, At, set_fat_entry, Goto, Inv, TypeInv
  <2>2. op'.step = "dirZero" /\ op'.file = op.file /\ op'.slot = op.slot
    BY <2>1 DEF IsCommand
  <2>3. op.new \in ChainIn(fat, ROOT) /\ fat[op.new] = 0 /\ op.file \in Clusters /\ fat \in Fats
    BY <2>1 DEF Inv, Creating, TypeInv, Fresh, Start
  <2>4. op.new \in Clusters
    BY <2>3, ChainIs, Volume
  <2> QED
    BY <2>1, <2>2, <2>3, <2>4, MarkLost, Zenon
<1>3. CASE create_dir_zero
  <2>1. /\ op.step = "dirZero" /\ UNCHANGED <<fat, dir>>
        /\ op'.step = "dirEntry" /\ op'.file = op.file /\ op'.slot = op.slot
    BY <1>3, CreateDirZeroFacts
  <2> QED
    BY <2>1, QuietLost
<1> QED
  BY <1>1, <1>2, <1>3

LEMMA ExtendLost ==
  ASSUME Inv, create_extend
  PROVE  Lost' \subseteq Lost
<1>1. op.step = "slot" /\ op'.step = "dirEoc" /\ op'.file = op.file
  BY ExtendFacts
<1>2. PICK x \in Clusters, y \in Clusters :
        /\ fat[x] # 0 /\ NextIn(fat, x) = 0 /\ fat[y] = 0 /\ fat' = [fat EXCEPT ![x] = y]
  BY ExtendFacts
<1>3. Start(fat, op.file)
  BY <1>1, Zenon DEF Inv, Creating, Fresh
<1>4. Heads' = Heads
  BY CreateExtendHeads
<1> QED
  BY <1>1, <1>2, <1>3, <1>4, LinkLost, Zenon

LEMMA WriteLost ==
  ASSUME Inv, write_data \/ write_fails \/ write_link \/ write_eoc
  PROVE  Lost' \subseteq Lost
<1>1. op.step \in {"data", "link", "eoc"}
  BY DEF write_data, write_fails, write_link, write_eoc, At
<1>2. /\ IsCommand(op) /\ op.slot = NoSlot /\ \E s \in DOMAIN Heads : Heads[s] = op.file
  BY <1>1, Zenon DEF Inv, TypeInv, Deleting, Writing
<1>3. CASE write_data
  <2>1. /\ UNCHANGED <<fat, dir>>
        /\ \/ op' = Idle
           \/ op' = [op EXCEPT !.step = "link", !.left = @ - 1]
           \/ op' = [op EXCEPT !.cur = next_cluster(op.cur), !.left = @ - 1]
    BY <1>3 DEF write_data
  <2>2. \/ op'.step = "idle" /\ op'.slot = NoSlot
        \/ op'.step # "idle" /\ op'.slot = NoSlot /\ op'.file = op.file
    BY <1>1, <1>2, <2>1, IdleCommand, Zenon DEF IsCommand
  <2> QED
    BY <1>1, <1>2, <2>1, <2>2, QuietLost
<1>4. CASE write_fails
  <2>1. UNCHANGED <<fat, dir>> /\ op' = Idle
    BY <1>4 DEF write_fails
  <2> QED
    BY <1>1, <1>2, <2>1, IdleCommand, QuietLost
<1>5. CASE write_link
  <2>1. /\ op.step = "link" /\ op'.step = "eoc" /\ op'.file = op.file /\ Start(fat, op.file)
    BY <1>5, LinkFacts
  <2>2. PICK x \in Clusters, y \in Clusters :
          /\ fat[x] # 0 /\ NextIn(fat, x) = 0 /\ fat[y] = 0 /\ fat' = [fat EXCEPT ![x] = y]
    BY <1>5, LinkFacts
  <2>3. Heads' = Heads
    BY <1>5, WriteLinkHeads
  <2> QED
    BY <2>1, <2>2, <2>3, LinkLost, Zenon
<1>6. CASE write_eoc
  <2>1. /\ op.step = "eoc" /\ fat' = [fat EXCEPT ![op.new] = EOC] /\ UNCHANGED dir
        /\ op' = [op EXCEPT !.step = "data", !.cur = op.new, !.new = 0]
    BY <1>6 DEF write_eoc, At, set_fat_entry
  <2>2. op'.step = "data" /\ op'.file = op.file /\ op'.slot = op.slot
    BY <1>2, <2>1 DEF IsCommand
  <2>3. /\ op.new \in Clusters /\ fat[op.new] = 0 /\ NextIn(fat, op.cur) = op.new
        /\ op.cur \in ChainIn(fat, op.file) /\ fat \in Fats
    BY <2>1 DEF Inv, Writing, TypeInv
  <2>4. Start(fat, op.file) /\ Injective(fat) /\ op.file \in Clusters
    BY <1>2, Zenon DEF Inv, Starts, Start
  <2>5. op.new \in ChainIn(fat, op.file)
    BY <2>3, <2>4, ChainClosed, Volume
  <2> QED
    BY <2>1, <2>2, <2>3, <2>4, <2>5, MarkLost, Zenon
<1> QED
  BY <1>3, <1>4, <1>5, <1>6

\* A command begins, or is refused.
LEMMA CommandLost ==
  ASSUME Inv, NEW name \in Names, Command(name), [ReadBack]_vars
  PROVE  Lost' \subseteq Lost
<1>1. CASE delete(name)
  <2>1. op'.cur = op'.file
    BY <1>1, Changes, Zenon DEF ReadBack
  <2> QED
    BY <1>1, <2>1, DeleteLost, Zenon
<1>2. CASE ~ delete(name)
  <2>1. op.step = "idle" /\ UNCHANGED <<fat, dir>>
    BY <1>2, Zenon DEF Command, create, write, command_refused, At, vars
  <2>2. op.slot = NoSlot
    BY <2>1, Zenon DEF Inv, Deleting
  <2>3. op'.slot = NoSlot
    BY <1>2, <2>2, Zenon DEF Command, create, write, command_refused, vars, Idle
  <2> QED
    BY <2>1, <2>2, <2>3, QuietLost
<1> QED
  BY <1>1, <1>2

\* A used cluster that nothing refers to comes about only when power fails or when
\* create_file_entry finds the directory and the volume full; a command that succeeds, or any
\* other that fails, loses none, on a volume of any size.
THEOREM OnlyFailuresLose ==
  ASSUME FailureSteps \subseteq SafeSteps
  PROVE  Spec /\ [][ReadBack]_vars => LostOnlyByFailure
<1> DEFINE Keeps == Lost' \subseteq Lost \/ (op' = Idle /\ op.step \in FailureSteps) \/ create_fails
<1>1. ASSUME Inv, [Next]_vars, [ReadBack]_vars PROVE [Keeps]_vars
  <2>1. CASE UNCHANGED vars
    BY <2>1
  <2>2. CASE create_mark \/ create_dir_eoc \/ create_dir_zero
    BY <1>1, <2>2, CreateLost
  <2>3. CASE create_entry \/ create_dir_entry
    BY <1>1, <2>3, EntryLost
  <2>4. CASE create_fails
    BY <2>4
  <2>5. CASE create_extend
    BY <1>1, <2>5, ExtendLost
  <2>6. CASE write_data \/ write_fails \/ write_link \/ write_eoc
    BY <1>1, <2>6, WriteLost
  <2>7. CASE delete_free
    BY <1>1, <2>7, FreeLost
  <2>8. CASE delete_unlink
    BY <1>1, <2>8, UnlinkLost
  <2>9. CASE power_fails
    BY <2>9 DEF power_fails
  <2>10. CASE \E name \in Names : Command(name)
    BY <1>1, <2>10, CommandLost
  <2> HIDE DEF Keeps
  <2> QED
    BY <1>1, <2>1, <2>2, <2>3, <2>4, <2>5, <2>6, <2>7, <2>8, <2>9, <2>10 DEF Next, Step
<1> QED
  BY <1>1, Fat32Invariant, PTL DEF Spec, LostOnlyByFailure

\* rm reads the whole cluster number where one byte holds it.
LEMMA EntryCluster ==
  ASSUME TOTAL <= BYTE, NEW e, e.cl \in Clusters
  PROVE  entry_cluster(e) = e.cl
<1>1. PICK x \in Nat : x = e.cl /\ x < BYTE
  BY Volume, Fat32Assumption DEF Clusters
<1>2. PICK B \in Nat : B = BYTE /\ B > 0
  BY Fat32Assumption
<1>3. PICK q \in Nat : q = B * B /\ q >= B
  BY <1>2
<1>4. x \div q = 0
  BY <1>1, <1>2, <1>3
<1>5. x % B = x /\ 0 % B = 0
  BY <1>1, <1>2
<1> QED
  BY <1>1, <1>2, <1>3, <1>4, <1>5 DEF entry_cluster

\* On a volume whose clusters one byte can number, rm reads back every first cluster, so that
\* FilesStayApart, ChainsStayAllocated and OnlyFailuresLose hold of every behaviour.
THEOREM SmallVolumesReadBack ==
  ASSUME FailureSteps \subseteq SafeSteps, TOTAL <= BYTE
  PROVE  Spec => [][ReadBack]_vars
<1>1. ASSUME Inv, NEW name \in Names, delete(name) PROVE op'.cur = op'.file
  <2>1. PICK s : s = First(Matches(name))
    OBVIOUS
  <2>2. Matches(name) # {} /\ op.step = "idle"
    BY <1>1, Zenon DEF delete, At
  <2>3. Slot(s).cl \in Clusters
    BY <1>1, <2>1, <2>2, MatchFacts
  <2>4. op'.cur = entry_cluster(Slot(s)) /\ op'.file = Slot(s).cl
    BY <1>1, <2>1, Zenon DEF delete, Idle
  <2> QED
    BY <2>3, <2>4, EntryCluster
<1>2. Inv => [ReadBack]_vars
  BY <1>1, Zenon DEF ReadBack
<1>3. Init => Inv
  BY Fat32Init
<1>4. Inv /\ [Next]_vars /\ [ReadBack]_vars => Inv'
  BY Fat32Step
<1> QED
  BY <1>2, <1>3, <1>4, PTL DEF Spec
=============================================================================
