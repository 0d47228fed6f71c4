---------------------------- MODULE PciAutoProofs ----------------------------
(***************************************************************************)
(* Proofs about the enumeration for every tree and all regions: the bus    *)
(* numbers it programs into the bridges nest, so that a configuration      *)
(* cycle has one route at every moment of the scan; the searches for a     *)
(* capability find what the links lead to, and the ports are left at the   *)
(* speed their links work at.                                              *)
(***************************************************************************)
EXTENDS PciAuto, FiniteSetTheorems, TLAPS

-----------------------------------------------------------------------------
(* Counting.  What a recursive function is for every argument is proved    *)
(* from the least one it is not so for.                                    *)

\* The place of an index among those of I.
Rank(I, i) == Cardinality({j \in I : j <= i})

\* They count the indices of I from 1.
LEMMA Ranks ==
    ASSUME NEW I \in SUBSET Nat, IsFiniteSet(I)
    PROVE  /\ Cardinality(I) \in Nat
           /\ \A i \in I : Rank(I, i) \in 1 .. Cardinality(I)
           /\ \A i, j \in I : i < j => Rank(I, i) < Rank(I, j)
           /\ \A k \in 1 .. Cardinality(I) : \E i \in I : Rank(I, i) = k
<1> DEFINE n == Cardinality(I)  f == [i \in I |-> Rank(I, i)]
<1>1. n \in Nat
  BY FS_CardinalityType
<1>2. ASSUME NEW i \in I PROVE Rank(I, i) \in 1 .. n
  <2> DEFINE B == {j \in I : j <= i}
  <2>1. B \in SUBSET I /\ i \in B
    OBVIOUS
  <2>2. IsFiniteSet(B) /\ Cardinality(B) <= n /\ Cardinality(B) \in Nat
    BY <2>1, FS_Subset, FS_CardinalityType
  <2>3. Cardinality(B) # 0
    BY <2>1, <2>2, FS_EmptySet
  <2>4. QED
    BY <1>1, <2>2, <2>3 DEF Rank
<1>3. ASSUME NEW i \in I, NEW j \in I, i < j PROVE Rank(I, i) < Rank(I, j)
  <2> DEFINE B == {k \in I : k <= i}  C == {k \in I : k <= j}
  <2>1. B \in SUBSET C /\ j \in C /\ j \notin B /\ C \in SUBSET I
    <3>1. i \in Nat /\ j \in Nat /\ \A k \in I : k \in Nat
      OBVIOUS
    <3>2. \A k \in I : k <= i => k <= j
      BY <1>3, <3>1
    <3>3. ~(j <= i) /\ j <= j
      BY <1>3, <3>1
    <3>4. QED
      BY <3>2, <3>3
  <2>2. IsFiniteSet(C) /\ Cardinality(B) <= Cardinality(C) /\ Cardinality(B) # Cardinality(C)
    BY <2>1, FS_Subset
  <2>3. QED
    BY <2>2, <1>2 DEF Rank
<1>4. f \in Injection(I, 1 .. n)
  <2>1. f \in [I -> 1 .. n]
    BY <1>2
  <2>2. \A i, j \in I : f[i] = f[j] => i = j
    <3> SUFFICES ASSUME NEW i \in I, NEW j \in I, f[i] = f[j], i # j PROVE FALSE
      OBVIOUS
    <3>1. Rank(I, i) = Rank(I, j)
      OBVIOUS
    <3> HIDE DEF f
    <3>2. i < j \/ j < i
      OBVIOUS
    <3>3. QED
      BY <1>2, <1>3, <3>1, <3>2
  <2>3. QED
    BY <2>1, <2>2 DEF Injection, IsInjective
<1>5. f \in Surjection(I, 1 .. n)
  <2>1. IsFiniteSet(1 .. n) /\ Cardinality(1 .. n) = n
    BY <1>1, FS_Interval
  <2>2. QED
    BY <1>4, <2>1, FS_Injection
<1>6. \A k \in 1 .. n : \E i \in I : f[i] = k
  BY <1>5 DEF Surjection
<1>7. QED
  BY <1>1, <1>2, <1>3, <1>6

\* Some numbers have a least one.
LEMMA HasLeast ==
    ASSUME NEW H \in SUBSET Nat, H # {}
    PROVE  \E i \in H : \A j \in H : i <= j
<1>1. PICK h \in H : h \in Nat
  OBVIOUS
<1> DEFINE I == {j \in H : j <= h}
<1>2. I \in SUBSET Nat /\ h \in I
  <2>1. \A j \in H : j \in Nat
    OBVIOUS
  <2>2. h <= h
    BY <1>1
  <2>3. QED
    BY <1>1, <2>1, <2>2
<1>3. IsFiniteSet(I)
  BY <1>1, <1>2, FS_BoundedSetOfNaturals
<1> HIDE DEF I
<1>4. Rank(I, h) \in 1 .. Cardinality(I) /\ Cardinality(I) \in Nat
  BY <1>2, <1>3, Ranks
<1>5. PICK i \in I : Rank(I, i) = 1
  BY <1>2, <1>3, <1>4, Ranks
<1>6. \A j \in I : ~(j < i)
  BY <1>2, <1>3, <1>5, Ranks
<1>7. i \in H /\ i \in Nat /\ i <= h /\ \A j \in H : i <= j
  <2>1. i \in H /\ i \in Nat /\ i <= h
    BY <1>2, <1>5 DEF I
  <2>2. ASSUME NEW j \in H PROVE i <= j
    BY <1>1, <1>6, <2>1, <2>2 DEF I
  <2>3. QED
    BY <2>1, <2>2
<1>8. QED
  BY <1>7

\* Counting up from 0, S has every number to n.
LEMMA CountUp ==
    ASSUME NEW n \in Nat, NEW S, 0 \in S, \A i \in 1 .. n : i - 1 \in S => i \in S
    PROVE  0 .. n \subseteq S
<1> DEFINE H == {i \in 0 .. n : i \notin S}
<1> SUFFICES ASSUME H # {} PROVE FALSE
  OBVIOUS
<1>1. H \in SUBSET Nat
  OBVIOUS
<1> HIDE DEF H
<1>2. PICK i \in H : \A j \in H : i <= j
  BY <1>1, HasLeast
<1>3. i \in 0 .. n /\ i \notin S /\ i # 0
  BY <1>2 DEF H
<1>4. i - 1 \in 0 .. n /\ i \in 1 .. n /\ ~(i <= i - 1)
  BY <1>3
<1>5. i - 1 \notin S
  BY <1>3, <1>4
<1>6. QED
  BY <1>2, <1>4, <1>5 DEF H

\* g is what the passes 1 to n of a loop compute from start, if pass i does step[i].
Computes(n, V, start, step, g) ==
    g \in [0 .. n -> V] /\ g[0] = start /\ \A i \in 1 .. n : g[i] = step[i][g[i - 1]]

LEMMA Computed ==
    ASSUME NEW n \in Nat, NEW V, NEW start \in V, NEW step \in [1 .. n -> [V -> V]]
    PROVE  \E g : Computes(n, V, start, step, g)
<1> DEFINE Upto(g, k) == g[0] = start /\ \A i \in 1 .. k : g[i] = step[i][g[i - 1]]
           S == {k \in 0 .. n : \E g \in [0 .. k -> V] : Upto(g, k)}
<1>1. 0 \in S
  <2>1. 0 \in 0 .. n /\ 1 .. 0 = {} /\ 0 \in 0 .. 0
    OBVIOUS
  <2>2. [i \in 0 .. 0 |-> start] \in [0 .. 0 -> V] /\ Upto([i \in 0 .. 0 |-> start], 0)
    BY <2>1
  <2>3. QED
    BY <2>1, <2>2
<1>2. ASSUME NEW k \in 1 .. n, k - 1 \in S PROVE k \in S
  <2>1. PICK g \in [0 .. k - 1 -> V] : Upto(g, k - 1)
    BY <1>2
  <2> DEFINE h == [i \in 0 .. k |-> IF i = k THEN step[k][g[k - 1]] ELSE g[i]]
  <2>2. /\ k - 1 \in 0 .. k - 1 /\ k \in 0 .. n /\ k # 0 /\ 0 \in 0 .. k /\ k \in 0 .. k
        /\ k # k - 1 /\ k - 1 \in 0 .. k
    OBVIOUS
  <2>3. h \in [0 .. k -> V]
    <3>1. step[k][g[k - 1]] \in V
      BY <2>2
    <3>2. \A i \in 0 .. k : i # k => i \in 0 .. k - 1
      OBVIOUS
    <3>3. QED
      BY <3>1, <3>2
  <2>4. h[0] = start
    BY <2>1, <2>2
  <2>5. ASSUME NEW i \in 1 .. k PROVE h[i] = step[i][h[i - 1]]
    <3>1. CASE i = k
      BY <2>2, <3>1
    <3>2. CASE i # k
      <4>1. i \in 1 .. k - 1 /\ i \in 0 .. k /\ i - 1 \in 0 .. k /\ i - 1 # k
        BY <3>2
      <4>2. h[i] = g[i] /\ h[i - 1] = g[i - 1]
        BY <3>2, <4>1
      <4>3. QED
        BY <2>1, <4>1, <4>2
    <3>3. QED
      BY <3>1, <3>2
  <2> HIDE DEF h
  <2>6. QED
    BY <2>2, <2>3, <2>4, <2>5
<1>3. 0 .. n \subseteq S
  <2> HIDE DEF S
  <2>1. QED
    BY <1>1, <1>2, CountUp
<1>4. n \in 0 .. n
  OBVIOUS
<1>5. PICK g \in [0 .. n -> V] : Upto(g, n)
  BY <1>3, <1>4
<1>6. QED
  BY <1>5 DEF Computes

-----------------------------------------------------------------------------
(* Walks over capabilities.                                                *)

Reads == Positions \cup {0}

\* LeadsTo with k links at most.
Chain(l, k, first, id, p, ends) ==
    \E n \in 1 .. k : \E c \in [1 .. n -> Positions] :
        /\ c[1] = first /\ c[n] = p /\ l.at[p].id = id
        /\ \A i \in 1 .. n - 1 : l.at[c[i]].id \notin {id} \cup ends /\ l.at[c[i]].next = c[i + 1]

\* A chain is the first capability, or goes on behind it.
LEMMA ChainSteps ==
    ASSUME NEW l, NEW k \in Nat, NEW first \in Positions, NEW id, NEW p \in Positions, NEW ends
    PROVE  Chain(l, k + 1, first, id, p, ends) <=>
              \/ l.at[first].id = id /\ p = first
              \/ l.at[first].id \notin {id} \cup ends /\ Chain(l, k, l.at[first].next, id, p, ends)
<1> DEFINE Goes(n, c, f) ==
              /\ c[1] = f /\ c[n] = p /\ l.at[p].id = id
              /\ \A i \in 1 .. n - 1 : l.at[c[i]].id \notin {id} \cup ends /\ l.at[c[i]].next = c[i + 1]
<1>1. ASSUME l.at[first].id = id, p = first PROVE Chain(l, k + 1, first, id, p, ends)
  <2>1. [i \in 1 .. 1 |-> first] \in [1 .. 1 -> Positions] /\ 1 \in 1 .. k + 1 /\ 1 .. 1 - 1 = {}
    OBVIOUS
  <2>2. Goes(1, [i \in 1 .. 1 |-> first], first)
    BY <1>1, <2>1
  <2>3. QED
    BY <2>1, <2>2 DEF Chain
<1>2. ASSUME l.at[first].id \notin {id} \cup ends, Chain(l, k, l.at[first].next, id, p, ends)
      PROVE  Chain(l, k + 1, first, id, p, ends)
  <2>0. PICK n \in 1 .. k : \E c \in [1 .. n -> Positions] : Goes(n, c, l.at[first].next)
    BY <1>2 DEF Chain
  <2>1. PICK c \in [1 .. n -> Positions] : Goes(n, c, l.at[first].next)
    BY <2>0
  <2> DEFINE d == [i \in 1 .. n + 1 |-> IF i = 1 THEN first ELSE c[i - 1]]
  <2>2. \A i \in 1 .. n + 1 : i # 1 => i - 1 \in 1 .. n
    OBVIOUS
  <2>3. d \in [1 .. n + 1 -> Positions]
    BY <2>2
  <2>4. n + 1 \in 1 .. k + 1 /\ 1 \in 1 .. n + 1 /\ n + 1 # 1 /\ (n + 1) - 1 = n /\ n + 1 \in 1 .. n + 1
    OBVIOUS
  <2>5. d[1] = first /\ d[n + 1] = p
    BY <2>1, <2>4
  <2>6. ASSUME NEW i \in 1 .. n PROVE l.at[d[i]].id \notin {id} \cup ends /\ l.at[d[i]].next = d[i + 1]
    <3>1. i \in 1 .. n + 1 /\ i + 1 \in 1 .. n + 1 /\ i + 1 # 1 /\ (i + 1) - 1 = i
      OBVIOUS
    <3>2. d[i + 1] = c[i]
      BY <3>1
    <3>3. CASE i = 1
      BY <1>2, <2>1, <3>1, <3>2, <3>3
    <3>4. CASE i # 1
      <4>1. i - 1 \in 1 .. n - 1 /\ (i - 1) + 1 = i
        BY <3>4
      <4>2. d[i] = c[i - 1]
        BY <3>1, <3>4
      <4>3. QED
        BY <2>1, <3>2, <4>1, <4>2
    <3>5. QED
      BY <3>3, <3>4
  <2> HIDE DEF d
  <2>7. Goes(n + 1, d, first)
    BY <2>1, <2>4, <2>5, <2>6
  <2>8. QED
    BY <2>3, <2>4, <2>7 DEF Chain
<1>3. ASSUME Chain(l, k + 1, first, id, p, ends)
      PROVE  \/ l.at[first].id = id /\ p = first
             \/ l.at[first].id \notin {id} \cup ends /\ Chain(l, k, l.at[first].next, id, p, ends)
  <2>0. PICK n \in 1 .. k + 1 : \E c \in [1 .. n -> Positions] : Goes(n, c, first)
    BY <1>3 DEF Chain
  <2>1. PICK c \in [1 .. n -> Positions] : Goes(n, c, first)
    BY <2>0
  <2>2. CASE n = 1
    BY <2>1, <2>2
  <2>3. CASE n # 1
    <3> DEFINE d == [i \in 1 .. n - 1 |-> c[i + 1]]
    <3>1. /\ n - 1 \in 1 .. k /\ 1 \in 1 .. n - 1 /\ n - 1 \in 1 .. n - 1 /\ (n - 1) + 1 = n
          /\ \A i \in 1 .. n - 1 : i + 1 \in 1 .. n
      BY <2>3
    <3>2. d \in [1 .. n - 1 -> Positions]
      BY <3>1
    <3>3. d[1] = l.at[first].next /\ d[n - 1] = p
      BY <2>1, <3>1
    <3>4. ASSUME NEW i \in 1 .. (n - 1) - 1
          PROVE  l.at[d[i]].id \notin {id} \cup ends /\ l.at[d[i]].next = d[i + 1]
      <4>1. i \in 1 .. n - 1 /\ i + 1 \in 1 .. n - 1
        OBVIOUS
      <4>2. d[i] = c[i + 1] /\ d[i + 1] = c[(i + 1) + 1]
        BY <4>1
      <4>3. QED
        BY <2>1, <4>1, <4>2
    <3> HIDE DEF d
    <3>5. Goes(n - 1, d, l.at[first].next)
      BY <2>1, <3>3, <3>4
    <3>6. l.at[first].id \notin {id} \cup ends
      BY <2>1, <3>1
    <3>7. QED
      BY <3>1, <3>2, <3>5, <3>6 DEF Chain
  <2>4. QED
    BY <2>2, <2>3
<1>4. QED
  BY <1>1, <1>2, <1>3

\* What a walk computes: at ends it finds nothing.
Walks(l, id, ends, g) ==
    g = [ttl \in 0 .. Ttl |-> [pos \in Reads |->
            IF Spent(ttl) \/ pos < FirstPos \/ l.at[pos].id \in ends THEN 0
            ELSE IF l.at[pos].id = id THEN pos
            ELSE g[ttl - 1][l.at[pos].next]]]

LEMMA WalkEnds == ASSUME NEW l, ListOK(l), NEW id, NEW ends PROVE \E g : Walks(l, id, ends, g)
<1> DEFINE V == [Reads -> Reads]
           Turn(v) == [pos \in Reads |->
                          IF pos < FirstPos \/ l.at[pos].id \in ends THEN 0
                          ELSE IF l.at[pos].id = id THEN pos ELSE v[l.at[pos].next]]
           step == [i \in 1 .. Ttl |-> [v \in V |-> Turn(v)]]
           none == [pos \in Reads |-> 0]
<1>1. \A p \in Positions : p \in Nat /\ FirstPos \in Nat /\ 0 < FirstPos /\ FirstPos <= p
  BY CapabilityAssumption
<1>2. ASSUME NEW v \in V PROVE Turn(v) \in V
  <2>1. ASSUME NEW pos \in Reads, ~(pos < FirstPos) PROVE l.at[pos].next \in Reads
    <3>1. pos \in Positions
      BY <1>1, <2>1, CapabilityAssumption DEF Reads
    <3>2. QED
      BY <3>1 DEF ListOK, Reads
  <2>2. QED
    BY <2>1 DEF Reads
<1>3. none \in V
  BY DEF Reads
<1>4. step \in [1 .. Ttl -> [V -> V]]
  BY <1>2
<1>5. Ttl \in Nat
  BY CapabilityAssumption
<1> HIDE DEF step, V, none
<1>6. PICK g \in [0 .. Ttl -> V] : g[0] = none /\ \A i \in 1 .. Ttl : g[i] = step[i][g[i - 1]]
  <2>1. PICK g : Computes(Ttl, V, none, step, g)
    BY <1>3, <1>4, <1>5, Computed
  <2>2. QED
    BY <2>1 DEF Computes
<1>7. ASSUME NEW ttl \in 0 .. Ttl
      PROVE  g[ttl] = [pos \in Reads |->
                          IF Spent(ttl) \/ pos < FirstPos \/ l.at[pos].id \in ends THEN 0
                          ELSE IF l.at[pos].id = id THEN pos
                          ELSE g[ttl - 1][l.at[pos].next]]
  <2>1. CASE ttl = 0
    BY <1>6, <2>1 DEF Spent, none
  <2>2. CASE ttl # 0
    <3>1. ttl \in 1 .. Ttl /\ ttl - 1 \in 0 .. Ttl
      BY <1>5, <2>2
    <3>2. g[ttl] = Turn(g[ttl - 1])
      BY <1>6, <3>1 DEF step
    <3>3. QED
      BY <2>2, <3>2 DEF Spent
  <2>3. QED
    BY <2>1, <2>2
<1>8. g = [ttl \in 0 .. Ttl |-> g[ttl]]
  BY <1>6
<1>9. Walks(l, id, ends, g)
  BY <1>7, <1>8 DEF Walks
<1>10. QED
  BY <1>9

\* A walk finds what a chain leads to, and nothing else.
LEMMA WalkFinds ==
    ASSUME NEW l, ListOK(l), NEW id, NEW ends, id \notin ends, NEW g, Walks(l, id, ends, g),
           NEW pos \in Reads
    PROVE  /\ g[Ttl][pos] \in Reads
           /\ \A p \in Positions : g[Ttl][pos] = p <=> pos # 0 /\ Chain(l, Ttl, pos, id, p, ends)
<1> DEFINE Finds(k) == \A q \in Reads :
              /\ g[k][q] \in Reads
              /\ \A p \in Positions : g[k][q] = p <=> q # 0 /\ Chain(l, k, q, id, p, ends)
           S == {k \in 0 .. Ttl : Finds(k)}
<1>1. /\ \A p \in Positions : p \in Nat /\ FirstPos \in Nat /\ 0 < FirstPos /\ FirstPos <= p /\ p # 0
      /\ Ttl \in Nat
  BY CapabilityAssumption
<1>2. \A k \in 0 .. Ttl, q \in Reads :
         g[k][q] = IF k = 0 \/ q < FirstPos \/ l.at[q].id \in ends THEN 0
                   ELSE IF l.at[q].id = id THEN q
                   ELSE g[k - 1][l.at[q].next]
  <2>1. ASSUME NEW k \in 0 .. Ttl, NEW q \in Reads
        PROVE  g[k][q] = IF k = 0 \/ q < FirstPos \/ l.at[q].id \in ends THEN 0
                         ELSE IF l.at[q].id = id THEN q
                         ELSE g[k - 1][l.at[q].next]
    <3>1. g[k] = [r \in Reads |-> IF Spent(k) \/ r < FirstPos \/ l.at[r].id \in ends THEN 0
                                  ELSE IF l.at[r].id = id THEN r
                                  ELSE g[k - 1][l.at[r].next]]
      BY Zenon DEF Walks
    <3>2. QED
      BY Zenon, <3>1 DEF Spent
  <2>2. QED
    BY <2>1
<1>3. 0 \in S
  <2>1. \A q \in Reads : g[0][q] = 0
    BY <1>1, <1>2
  <2>2. \A q, p : ~Chain(l, 0, q, id, p, ends)
    BY DEF Chain
  <2>3. QED
    BY <1>1, <2>1, <2>2 DEF Reads
<1>4. ASSUME NEW k \in 1 .. Ttl, k - 1 \in S PROVE k \in S
  <2>1. Finds(k - 1) /\ k - 1 \in Nat /\ k = (k - 1) + 1 /\ k # 0 /\ k \in 0 .. Ttl
    BY <1>1, <1>4
  <2>2. ASSUME NEW q \in Reads
        PROVE  /\ g[k][q] \in Reads
               /\ \A p \in Positions : g[k][q] = p <=> q # 0 /\ Chain(l, k, q, id, p, ends)
    <3>1. CASE q = 0
      BY <1>1, <1>2, <2>1, <3>1, CapabilityAssumption DEF Reads
    <3>2. CASE q # 0
      <4>1. q \in Positions /\ ~(q < FirstPos)
        BY <1>1, <3>2 DEF Reads
      <4>2. l.at[q].next \in Reads
        BY <4>1 DEF ListOK, Reads
      <4>3. g[k][q] = IF l.at[q].id \in ends THEN 0
                      ELSE IF l.at[q].id = id THEN q ELSE g[k - 1][l.at[q].next]
        BY <1>2, <2>1, <4>1
      <4>4. /\ g[k - 1][l.at[q].next] \in Reads
            /\ \A p \in Positions : g[k - 1][l.at[q].next] = p <=>
                  l.at[q].next # 0 /\ Chain(l, k - 1, l.at[q].next, id, p, ends)
        BY <2>1, <4>2
      <4>5. ASSUME NEW p \in Positions
            PROVE  Chain(l, k, q, id, p, ends) <=>
                      \/ l.at[q].id = id /\ p = q
                      \/ l.at[q].id \notin {id} \cup ends /\ Chain(l, k - 1, l.at[q].next, id, p, ends)
        BY <2>1, <4>1, ChainSteps
      <4>6. ASSUME NEW p \in Positions, Chain(l, k - 1, l.at[q].next, id, p, ends)
            PROVE  l.at[q].next # 0
        <5>1. l.at[q].next \in Positions
          BY <4>6 DEF Chain
        <5>2. QED
          BY <1>1, <5>1
      <4> HIDE DEF Finds, S
      <4>7. QED
        <5>1. CASE l.at[q].id \in ends
          BY <1>1, <3>2, <4>3, <4>5, <5>1 DEF Reads
        <5>2. CASE l.at[q].id = id
          BY <1>1, <3>2, <4>1, <4>3, <4>5, <5>2 DEF Reads
        <5>3. CASE l.at[q].id \notin {id} \cup ends
          BY <3>2, <4>3, <4>4, <4>5, <4>6, <5>3
        <5>4. QED
          BY <5>1, <5>2, <5>3
    <3>3. QED
      BY <3>1, <3>2
  <2>3. QED
    BY <2>1, <2>2
<1>5. 0 .. Ttl \subseteq S
  <2> HIDE DEF S
  <2>1. QED
    BY <1>1, <1>3, <1>4, CountUp
<1>6. Ttl \in S
  BY <1>1, <1>5
<1>7. QED
  BY <1>6

\* pci_find_capability and pci_find_ext_capability.
LEMMA CapabilityFound ==
    ASSUME NEW l, ListOK(l), NEW id, id # AllOnes, NEW p \in Positions
    PROVE  /\ FindCapability(l, id) \in Reads
           /\ FindCapability(l, id) = p <=> l.present /\ LeadsTo(l, l.first, id, p, {AllOnes})
<1> DEFINE Walked(g) ==
       g = [ttl \in 0 .. Ttl |-> [pos \in Positions \cup {0} |->
               IF Spent(ttl) \/ pos < FirstPos \/ l.at[pos].id = AllOnes THEN 0
               ELSE IF l.at[pos].id = id THEN pos
               ELSE g[ttl - 1][l.at[pos].next]]]
       f == CHOOSE g : Walked(g)
<1>1. \A g : Walked(g) <=> Walks(l, id, {AllOnes}, g)
  BY DEF Walks, Reads
<1>2. Walked(f)
  BY <1>1, WalkEnds, Zenon
<1>3. Walks(l, id, {AllOnes}, f)
  BY <1>1, <1>2
<1>4. FindFrom(l, id) = f[Ttl][l.first]
  BY Zenon DEF FindFrom
<1> HIDE DEF f, Walked
<1>5. l.first \in Reads /\ p # 0 /\ 0 \notin Positions /\ id \notin {AllOnes}
  BY CapabilityAssumption DEF ListOK, Reads
<1>6. /\ f[Ttl][l.first] \in Reads
      /\ f[Ttl][l.first] = p <=> l.first # 0 /\ Chain(l, Ttl, l.first, id, p, {AllOnes})
  BY <1>3, <1>5, WalkFinds, Zenon
<1>7. LeadsTo(l, l.first, id, p, {AllOnes}) <=> Chain(l, Ttl, l.first, id, p, {AllOnes})
  BY DEF LeadsTo, Chain
<1>8. LeadsTo(l, l.first, id, p, {AllOnes}) => l.first # 0
  BY <1>5 DEF LeadsTo
<1>9. QED
  BY <1>4, <1>5, <1>6, <1>7, <1>8 DEF FindCapability, Reads

LEMMA ExtCapabilityFound ==
    ASSUME NEW l, ListOK(l), NEW id, NEW p \in Positions
    PROVE  FindExtCapability(l, id) = p <=>
              l.at[FirstPos] # [id |-> 0, next |-> 0] /\ LeadsTo(l, FirstPos, id, p, {})
<1> DEFINE Walked(g) ==
       g = [ttl \in 0 .. Ttl |-> [pos \in Positions \cup {0} |->
               IF Spent(ttl) \/ pos < FirstPos THEN 0
               ELSE IF l.at[pos].id = id THEN pos
               ELSE g[ttl - 1][l.at[pos].next]]]
       f == CHOOSE g : Walked(g)
<1>1. \A g : Walked(g) <=> Walks(l, id, {}, g)
  BY DEF Walks, Reads
<1>2. Walked(f)
  BY <1>1, WalkEnds, Zenon
<1>3. Walks(l, id, {}, f)
  BY <1>1, <1>2
<1>4. FindExtCapability(l, id) = IF l.at[FirstPos] = [id |-> 0, next |-> 0] THEN 0 ELSE f[Ttl][FirstPos]
  BY Zenon DEF FindExtCapability
<1> HIDE DEF f, Walked
<1>5. FirstPos \in Reads /\ FirstPos # 0 /\ p # 0
  BY CapabilityAssumption DEF Reads
<1>6. f[Ttl][FirstPos] = p <=> Chain(l, Ttl, FirstPos, id, p, {})
  BY <1>3, <1>5, WalkFinds
<1>7. LeadsTo(l, FirstPos, id, p, {}) <=> Chain(l, Ttl, FirstPos, id, p, {})
  BY DEF LeadsTo, Chain
<1>8. QED
  BY <1>4, <1>5, <1>6, <1>7

-----------------------------------------------------------------------------
(* The bridges above a bus.                                                *)

Numbered == {f \in Bridges : number[f] # 0}

\* A set of buses that has, with a bridge's bus, the bus the bridge is on.
Upward(S) == \A d \in S \ {Root} : hw[d].bus \in S

LEMMA NoBridgeIsRoot == ASSUME hw \in Topologies PROVE Root \notin Bridges
BY AutoAssumption DEF Bridges, Fn, Root

LEMMA AboveRoot == ASSUME hw \in Topologies PROVE Above(Root) = {}
<1>1. {Root} \in SUBSET Bus /\ Upward({Root})
  BY DEF Bus, Upward
<1>2. QED
  BY <1>1, NoBridgeIsRoot DEF Above, Upward

LEMMA AboveStep ==
    ASSUME hw \in Topologies, NEW f \in Bridges, hw[f].bus \in Bus
    PROVE  Above(f) = {f} \cup Above(hw[f].bus)
<1>1. f \in Bus /\ f # Root
  BY NoBridgeIsRoot DEF Bus
<1>2. ASSUME NEW c \in Above(f), c # f PROVE c \in Above(hw[f].bus)
  <2> SUFFICES ASSUME NEW S \in SUBSET Bus, hw[f].bus \in S, Upward(S) PROVE c \in S
    BY <1>2 DEF Above, Upward
  <2>1. S \cup {f} \in SUBSET Bus /\ f \in S \cup {f} /\ Upward(S \cup {f})
    BY <1>1 DEF Upward
  <2>2. c \in S \cup {f}
    BY <1>2, <2>1 DEF Above, Upward
  <2>3. QED
    BY <1>2, <2>2
<1>3. ASSUME NEW c \in {f} \cup Above(hw[f].bus) PROVE c \in Above(f)
  <2>1. c \in Bridges
    BY <1>3 DEF Above
  <2> SUFFICES ASSUME NEW S \in SUBSET Bus, f \in S, Upward(S) PROVE c \in S
    BY <2>1 DEF Above, Upward
  <2>2. hw[f].bus \in S
    BY <1>1 DEF Upward
  <2>3. QED
    BY <1>3, <2>2 DEF Above, Upward
<1>4. QED
  BY <1>2, <1>3

\* Only numbered bridges are above a numbered one, if the bus of each has a number.
LEMMA AboveNumbered ==
    ASSUME hw \in Topologies, \A g \in Numbered : hw[g].bus \in {Root} \cup Numbered,
           NEW b \in {Root} \cup Numbered
    PROVE  Above(b) \subseteq Numbered
<1>1. {Root} \cup Numbered \in SUBSET Bus /\ Upward({Root} \cup Numbered)
  BY DEF Numbered, Bus, Upward
<1>2. QED
  BY <1>1, NoBridgeIsRoot DEF Above, Upward

-----------------------------------------------------------------------------
(* The inductive invariant.                                                *)

\* What the numbers are: counted up from 1, the same in the registers and in pci_bus,
\* and a bridge has one only if the bus it is on has.
Numbers ==
    /\ hw \in Topologies
    /\ last \in Nat /\ last = Cardinality(Numbered)
    /\ number \in [Bus -> 0 .. last] /\ number[Root] = 0
    /\ lastSub \in [Bus -> 0 .. last]
    /\ sec = [f \in Bridges |-> number[f]]
    /\ sub \in [Bridges -> 0 .. 255]
    /\ \A f \in Numbered : hw[f].bus \in {Root} \cup Numbered

FrameType == [bus : Bus, todo : SUBSET Fn, fn : {Root} \cup Fn, slot : Nat]

\* The buses of the calls in progress are the root bus and the way down to the bus being
\* configured, each with the functions still to do, which are not numbered yet - but for
\* the bridge the next call is configuring.
Descent ==
    /\ stack \in Seq(FrameType) /\ Len(stack) >= 1 /\ stack[1].bus = Root
    /\ \A i \in 2 .. Len(stack) : stack[i].bus \in Numbered /\ stack[i - 1].fn = stack[i].bus
    /\ \A i, j \in 1 .. Len(stack) : stack[i].bus = stack[j].bus => i = j
    /\ \A i \in 1 .. Len(stack) :
          /\ \A f \in stack[i].todo : /\ hw[f].bus = stack[i].bus
                                      /\ f \in Numbered => i < Len(stack) /\ f = stack[i].fn
          /\ stack[i].fn # Root => stack[i].fn \in stack[i].todo
          /\ Above(stack[i].bus) = {stack[j].bus : j \in 2 .. i}

\* The bridges of these calls pass every bus number on, the others of those given so far;
\* the call in progress has heard of the last one.
OnStack(g) == \E i \in 2 .. Len(stack) : g = stack[i].bus
Passing ==
    /\ lastSub[Top.bus] = last
    /\ \A g \in Numbered : IF OnStack(g) THEN sub[g] = 255 ELSE sub[g] <= last

RouteInv == Numbers /\ OneRoute /\ (result = "running" => Descent /\ Passing)

LEMMA BridgeCount ==
    ASSUME Numbers
    PROVE  /\ IsFiniteSet(Numbered) /\ last <= 255
           /\ \A f \in Bridges : f \notin Numbered => last + 1 <= 255
<1>1. IsFiniteSet(Fn) /\ Bridges \subseteq Fn /\ Cardinality(Bridges) <= 255
  BY AutoAssumption DEF Numbers, Bridges, Fn
<1>2. IsFiniteSet(Bridges)
  BY <1>1, FS_Subset
<1>3. Numbered \subseteq Bridges
  BY DEF Numbered
<1>4. /\ IsFiniteSet(Numbered) /\ Cardinality(Numbered) <= Cardinality(Bridges)
      /\ (Cardinality(Numbered) = Cardinality(Bridges) => Numbered = Bridges)
  BY <1>2, <1>3, FS_Subset, Zenon
<1>5. Cardinality(Bridges) \in Nat
  BY <1>2, FS_CardinalityType
<1>6. QED
  BY <1>1, <1>3, <1>4, <1>5 DEF Numbers

-----------------------------------------------------------------------------
(* A bridge is numbered.                                                   *)

\* Prescan gives the next number to a bridge of which all the bridges above, and no
\* others, pass on the numbers to come.
LEMMA Numbering ==
    ASSUME Numbers, OneRoute, NEW f \in Bridges, f \notin Numbered,
           hw[f].bus \in {Root} \cup Numbered,
           \A g \in Numbered : g \in Above(hw[f].bus) <=> last + 1 <= sub[g],
           Prescan(f, last + 1), UNCHANGED hw
    PROVE  /\ Numbers' /\ OneRoute'
           /\ Numbered' = Numbered \cup {f}
           /\ last' = last + 1 /\ sub'[f] = 255 /\ lastSub'[f] = last'
           /\ \A g \in Bridges \ {f} : sub'[g] = sub[g]
           /\ \A b \in Bus : Above(b)' = Above(b)
<1> DEFINE n == last + 1
<1>1. /\ last' = n /\ number' = [number EXCEPT ![f] = n]
      /\ lastSub' = [lastSub EXCEPT ![f] = n]
      /\ sec' = [sec EXCEPT ![f] = n] /\ sub' = [sub EXCEPT ![f] = 255]
  BY DEF Prescan
<1>2. n \in Nat /\ n <= 255 /\ n # 0 /\ last \in Nat
  BY BridgeCount DEF Numbers
<1>3. /\ Bridges' = Bridges /\ Bus' = Bus /\ f \in Bus /\ f # Root
      /\ Numbered \subseteq Bridges
  BY NoBridgeIsRoot DEF Bridges, Fn, Bus, Numbers, Numbered
<1>4. \A b \in Bus : Above(b)' = Above(b)
  BY <1>3 DEF Above
<1>5. /\ number'[f] = n /\ \A b \in Bus \ {f} : number'[b] = number[b]
      /\ sec'[f] = n /\ \A b \in Bridges \ {f} : sec'[b] = sec[b]
      /\ sub'[f] = 255 /\ \A b \in Bridges \ {f} : sub'[b] = sub[b]
      /\ lastSub'[f] = n /\ \A b \in Bus \ {f} : lastSub'[b] = lastSub[b]
  BY <1>1, <1>3 DEF Numbers
<1>6. Numbered' = Numbered \cup {f}
  <2>1. \A g \in Bridges : number'[g] # 0 <=> g \in Numbered \cup {f}
    BY <1>2, <1>3, <1>5 DEF Numbered, Bus
  <2>2. QED
    BY <1>3, <2>1 DEF Numbered
<1> HIDE DEF n
<1>7. Numbers'
  <2>1. last' = Cardinality(Numbered')
    <3>1. Cardinality(Numbered \cup {f}) = Cardinality(Numbered) + 1
      BY BridgeCount, FS_AddElement
    <3>2. QED
      BY <1>1, <1>6, <3>1 DEF Numbers, n
  <2>2. number' \in [Bus -> 0 .. n] /\ lastSub' \in [Bus -> 0 .. n]
    <3>1. /\ DOMAIN number' = Bus /\ DOMAIN lastSub' = Bus
          /\ number' = [b \in Bus |-> number'[b]] /\ lastSub' = [b \in Bus |-> lastSub'[b]]
      BY <1>1 DEF Numbers
    <3>2. \A b \in Bus : number'[b] \in 0 .. n /\ lastSub'[b] \in 0 .. n
      BY <1>2, <1>5 DEF Numbers, n
    <3>3. QED
      BY <3>1, <3>2
  <2>3. number'[Root] = 0
    BY <1>3, <1>5 DEF Numbers, Bus
  <2>4. sec' = [g \in Bridges |-> number'[g]]
    <3>1. sec' = [g \in Bridges |-> sec'[g]]
      BY <1>1 DEF Numbers
    <3>2. \A g \in Bridges : sec'[g] = number'[g]
      BY <1>3, <1>5 DEF Numbers, Bus
    <3>3. QED
      BY <3>1, <3>2
  <2>5. sub' \in [Bridges -> 0 .. 255]
    BY <1>1 DEF Numbers
  <2>6. \A g \in Numbered' : hw'[g].bus \in {Root} \cup Numbered'
    BY <1>6 DEF Numbers
  <2>7. QED
    BY <1>1, <1>2, <1>3, <2>1, <2>2, <2>3, <2>4, <2>5, <2>6 DEF Numbers
<1>8. OneRoute'
  <2> SUFFICES ASSUME NEW h \in Bridges, NEW g \in Bridges, number'[h] # 0
               PROVE  sec'[g] \in 1 .. number'[h] /\ number'[h] <= sub'[g] <=> g \in Above(h)
    BY <1>3, <1>4 DEF OneRoute, Bus
  <2>1. Above(f) = {f} \cup Above(hw[f].bus)
    BY AboveStep DEF Numbers, Bus, Numbered
  <2>2. Above(hw[f].bus) \subseteq Numbered
    BY AboveNumbered DEF Numbers
  <2>3. \A k \in Bridges : k \notin Numbered => sec[k] = 0
    BY DEF Numbers, Numbered
  <2>4. \A k \in Bridges : k \in Numbered => sec[k] \in 1 .. last /\ number[k] \in 1 .. last
    BY DEF Numbers, Numbered, Bus
  <2>5. CASE h = f
    <3>1. number'[h] = n
      BY <1>5, <2>5
    <3>2. CASE g = f
      BY <1>2, <1>5, <2>1, <2>5, <3>1, <3>2
    <3>3. CASE g # f /\ g \in Numbered
      <4>1. sec'[g] \in 1 .. n /\ sub'[g] = sub[g]
        BY <1>2, <1>5, <2>4, <3>3 DEF n
      <4>2. g \in Above(f) <=> n <= sub[g]
        BY <2>1, <3>3 DEF n
      <4>3. QED
        BY <2>5, <3>1, <4>1, <4>2
    <3>4. CASE g # f /\ g \notin Numbered
      BY <1>5, <2>1, <2>2, <2>3, <2>5, <3>1, <3>4
    <3>5. QED
      BY <3>2, <3>3, <3>4
  <2>6. CASE h # f
    <3>1. number'[h] = number[h] /\ h \in Numbered /\ number[h] \in 1 .. last
      BY <1>3, <1>5, <2>4, <2>6 DEF Numbered, Bus
    <3>2. CASE g = f
      <4>1. f \notin Above(h)
        BY <3>1, AboveNumbered DEF Numbers
      <4>2. QED
        BY <1>2, <1>5, <3>1, <3>2, <4>1 DEF n
    <3>3. CASE g # f
      BY <1>5, <3>1, <3>3 DEF OneRoute
    <3>4. QED
      BY <3>2, <3>3
  <2>7. QED
    BY <2>5, <2>6
<1>9. QED
  BY <1>1, <1>4, <1>5, <1>6, <1>7, <1>8 DEF n

-----------------------------------------------------------------------------
(* The call in progress moves on.                                          *)

LEMMA TopType ==
    ASSUME Descent
    PROVE  /\ Len(stack) \in Nat /\ Len(stack) \in 1 .. Len(stack) /\ Top \in FrameType
           /\ Top.bus \in {Root} \cup Numbered
           /\ \A i \in 1 .. Len(stack) : stack[i] \in FrameType
<1>1. Len(stack) \in Nat /\ Len(stack) \in 1 .. Len(stack)
  BY DEF Descent
<1>2. \A i \in 1 .. Len(stack) : stack[i] \in FrameType
  BY DEF Descent
<1>3. Top.bus \in {Root} \cup Numbered
  <2>1. CASE Len(stack) = 1
    BY <2>1 DEF Top, Descent
  <2>2. CASE Len(stack) # 1
    BY <1>1, <2>2 DEF Top, Descent
  <2>3. QED
    BY <2>1, <2>2
<1>4. QED
  BY <1>1, <1>2, <1>3 DEF Top

\* What the steps between two calls do to the frame of the call in progress.
MovesOn(t) ==
    /\ stack' = [stack EXCEPT ![Len(stack)] = t]
    /\ t \in FrameType /\ t.bus = Top.bus /\ t.todo \subseteq Top.todo
    /\ t.fn # Root => t.fn \in t.todo

LEMMA Moving ==
    ASSUME Numbers, OneRoute, Descent, Passing, NEW t, MovesOn(t),
           UNCHANGED <<hw, last, number, sec, sub>>,
           lastSub' \in [Bus -> 0 .. last], lastSub'[Top.bus] = last
    PROVE  Numbers' /\ OneRoute' /\ Descent' /\ Passing'
<1>1. /\ Fn' = Fn /\ Bridges' = Bridges /\ Bus' = Bus /\ Numbered' = Numbered
      /\ \A b : Above(b)' = Above(b)
  BY DEF Fn, Bridges, Bus, Numbered, Above
<1>2. Numbers' /\ OneRoute'
  BY <1>1 DEF Numbers, OneRoute
<1> DEFINE l == Len(stack)
<1>3. /\ l \in Nat /\ l \in 1 .. l /\ Top = stack[l] /\ stack \in Seq(FrameType)
      /\ \A i \in 1 .. l : stack[i] \in FrameType
  BY TopType DEF Top, Descent
<1>4. /\ stack' \in Seq(FrameType) /\ Len(stack') = l /\ stack'[l] = t
      /\ \A i \in 1 .. l : i # l => stack'[i] = stack[i]
  BY <1>3 DEF MovesOn
<1> HIDE DEF l
<1>5. /\ \A i \in 1 .. l : stack'[i].bus = stack[i].bus /\ stack'[i].todo \subseteq stack[i].todo
      /\ \A i \in 1 .. l : i < l => stack'[i] = stack[i]
  BY <1>3, <1>4 DEF MovesOn
<1>6. Descent'
  <2>1. stack'[1].bus = Root /\ l >= 1
    BY <1>3, <1>5 DEF Descent, l
  <2>2. \A i \in 2 .. l : stack'[i].bus \in Numbered /\ stack'[i - 1].fn = stack'[i].bus
    BY <1>3, <1>5 DEF Descent, l
  <2>3. \A i, j \in 1 .. l : stack'[i].bus = stack'[j].bus => i = j
    BY <1>5 DEF Descent, l
  <2>4. ASSUME NEW i \in 1 .. l
        PROVE  /\ \A f \in stack'[i].todo : /\ hw[f].bus = stack'[i].bus
                                            /\ f \in Numbered => i < l /\ f = stack'[i].fn
               /\ stack'[i].fn # Root => stack'[i].fn \in stack'[i].todo
    <3>1. CASE i = l
      <4>1. /\ stack'[i].bus = stack[i].bus /\ stack'[i].todo \subseteq stack[i].todo
            /\ i \in 1 .. Len(stack) /\ ~(i < Len(stack))
        BY <1>3, <1>5, <3>1 DEF l
      <4>2. stack'[i].fn # Root => stack'[i].fn \in stack'[i].todo
        BY <1>4, <3>1 DEF MovesOn
      <4>3. QED
        BY <4>1, <4>2 DEF Descent
    <3>2. CASE i # l
      BY <1>3, <1>4, <1>5, <3>2 DEF Descent, l
    <3>3. QED
      BY <3>1, <3>2
  <2>5. ASSUME NEW i \in 1 .. l
        PROVE  Above(stack'[i].bus) = {stack'[j].bus : j \in 2 .. i}
    <3>1. {stack'[j].bus : j \in 2 .. i} = {stack[j].bus : j \in 2 .. i}
      BY <1>3, <1>5
    <3>2. QED
      BY <1>5, <3>1 DEF Descent, l
  <2>6. stack' \in Seq(FrameType)'
    BY <1>1, <1>4 DEF FrameType
  <2>7. \A i \in 1 .. Len(stack)' : (Above(stack[i].bus))' = {stack'[j].bus : j \in 2 .. i}
    <3>1. \A i \in 1 .. Len(stack)' : (Above(stack[i].bus))' = Above(stack'[i].bus)
      BY <1>1 DEF Above
    <3>2. QED
      BY <1>4, <2>5, <3>1
  <2>8. /\ stack' \in Seq(FrameType)' /\ Len(stack') >= 1 /\ stack'[1].bus = Root
        /\ \A i \in 2 .. Len(stack') : stack'[i].bus \in Numbered' /\ stack'[i - 1].fn = stack'[i].bus
    BY <1>1, <1>4, <2>1, <2>2, <2>6
  <2>9. \A i, j \in 1 .. Len(stack') : stack'[i].bus = stack'[j].bus => i = j
    BY <1>4, <2>3
  <2>10. \A i \in 1 .. Len(stack') :
          /\ \A f \in stack'[i].todo : /\ hw'[f].bus = stack'[i].bus
                                       /\ f \in Numbered' => i < Len(stack') /\ f = stack'[i].fn
          /\ stack'[i].fn # Root => stack'[i].fn \in stack'[i].todo
    BY <1>1, <1>4, <2>4
  <2>11. QED
    BY <2>7, <2>8, <2>9, <2>10 DEF Descent
<1>7. Passing'
  <2>1. ASSUME NEW g PROVE OnStack(g)' <=> OnStack(g)
    <3>1. \A i \in 2 .. l : i \in 1 .. l /\ stack'[i].bus = stack[i].bus
      BY <1>3, <1>5
    <3>2. OnStack(g)' <=> \E i \in 2 .. l : g = stack'[i].bus
      BY <1>4 DEF OnStack
    <3>3. OnStack(g) <=> \E i \in 2 .. l : g = stack[i].bus
      BY DEF OnStack, l
    <3>4. QED
      BY <3>1, <3>2, <3>3
  <2>2. Top'.bus = Top.bus
    BY <1>3, <1>4, <1>5 DEF Top
  <2>3. QED
    BY <1>1, <2>1, <2>2 DEF Passing
<1>8. QED
  BY <1>2, <1>6, <1>7

\* The calls between two bridges only touch the frame of the call in progress.
LEMMA Staying ==
    ASSUME RouteInv, result = "running", NEW t, MovesOn(t),
           UNCHANGED <<hw, last, number, sec, sub, result>>,
           lastSub' \in [Bus -> 0 .. last], lastSub'[Top.bus] = last
    PROVE  RouteInv'
<1>1. Numbers' /\ OneRoute' /\ Descent' /\ Passing'
  BY Moving DEF RouteInv
<1>2. QED
  BY <1>1 DEF RouteInv

LEMMA NextDeviceRoute == ASSUME RouteInv, NextDevice PROVE RouteInv'
<1>1. PICK f \in Top.todo : stack' = [stack EXCEPT ![Len(stack)].fn = f, ![Len(stack)].slot = 1]
  BY DEF NextDevice
<1> DEFINE t == [Top EXCEPT !.fn = f, !.slot = 1]
<1>2. Descent /\ Passing /\ Numbers /\ result = "running"
  BY DEF RouteInv, NextDevice
<1>3. Top \in FrameType
  BY <1>2, TopType
<1>4. MovesOn(t)
  <2>1. stack' = [stack EXCEPT ![Len(stack)] = t]
    BY <1>1 DEF Top
  <2>2. t \in FrameType /\ t.bus = Top.bus /\ t.todo = Top.todo /\ t.fn = f
    BY <1>3 DEF FrameType
  <2>3. QED
    BY <2>1, <2>2 DEF MovesOn
<1>5. /\ lastSub' \in [Bus -> 0 .. last] /\ lastSub'[Top.bus] = last
      /\ UNCHANGED <<hw, last, number, sec, sub, result>>
  BY <1>2 DEF NextDevice, regVars, Numbers, Passing
<1> HIDE DEF t
<1>6. QED
  BY <1>2, <1>4, <1>5, Staying

\* One BAR after the other.
LEMMA SlotRoute ==
    ASSUME RouteInv, SettingUp, NEW k \in Nat,
           stack' = [stack EXCEPT ![Len(stack)].slot = @ + k],
           UNCHANGED <<hw, last, number, lastSub, sec, sub, result>>
    PROVE  RouteInv'
<1> DEFINE t == [Top EXCEPT !.slot = @ + k]
<1>1. Descent /\ Passing /\ Numbers /\ result = "running"
  BY DEF RouteInv, SettingUp
<1>2. Top \in FrameType /\ (Top.fn # Root => Top.fn \in Top.todo)
  BY <1>1, TopType DEF Descent, Top
<1>3. MovesOn(t)
  <2>1. stack' = [stack EXCEPT ![Len(stack)] = t]
    BY DEF Top
  <2>2. t \in FrameType /\ t.bus = Top.bus /\ t.todo = Top.todo /\ t.fn = Top.fn
    BY <1>2 DEF FrameType
  <2>3. QED
    BY <1>2, <2>1, <2>2 DEF MovesOn
<1>4. lastSub' \in [Bus -> 0 .. last] /\ lastSub'[Top.bus] = last
  BY <1>1 DEF Numbers, Passing
<1> HIDE DEF t
<1>5. QED
  BY <1>1, <1>3, <1>4, Staying

LEMMA BarRoute == ASSUME RouteInv, SkipBar \/ AssignBar PROVE RouteInv'
<1>1. CASE SkipBar
  BY <1>1, SlotRoute DEF SkipBar, regVars
<1>2. CASE AssignBar
  <2>1. PICK k \in Nat : stack' = [stack EXCEPT ![Len(stack)].slot = @ + k]
    <3>1. stack' = [stack EXCEPT ![Len(stack)].slot = @ + SlotsTaken]
      BY <1>2 DEF AssignBar
    <3>2. QED
      BY <3>1 DEF SlotsTaken
  <2>2. SettingUp /\ UNCHANGED <<hw, last, number, lastSub, sec, sub, result>>
    BY <1>2 DEF AssignBar, regVars
  <2>3. QED
    BY <2>1, <2>2, SlotRoute
<1>3. QED
  BY <1>1, <1>2

LEMMA LeafDoneRoute == ASSUME RouteInv, LeafDone PROVE RouteInv'
<1> DEFINE t == [Top EXCEPT !.todo = @ \ {Top.fn}, !.fn = Root]
<1>1. Descent /\ Passing /\ Numbers /\ result = "running"
  BY DEF RouteInv, LeafDone, SetUp
<1>2. Top \in FrameType
  BY <1>1, TopType
<1>3. MovesOn(t)
  <2>1. stack' = [stack EXCEPT ![Len(stack)] = t]
    BY DEF LeafDone, Done, Top
  <2>2. /\ t \in FrameType /\ t.bus = Top.bus /\ t.todo = Top.todo \ {Top.fn} /\ t.fn = Root
    BY <1>2 DEF FrameType
  <2>3. QED
    BY <2>1, <2>2 DEF MovesOn
<1>4. lastSub' \in [Bus -> 0 .. last] /\ lastSub'[Top.bus] = last
  <2>1. Top.bus \in Bus /\ lastSub \in [Bus -> 0 .. last] /\ lastSub[Top.bus] = last
        /\ number[Top.bus] \in 0 .. last /\ last \in Nat
    BY <1>1, <1>2 DEF FrameType, Numbers, Passing
  <2>2. Greater(last, number[Top.bus]) = last
    BY <2>1 DEF Greater
  <2>3. lastSub' = [lastSub EXCEPT ![Top.bus] = last]
    BY <2>1, <2>2 DEF LeafDone, Done, Top
  <2>4. QED
    BY <2>1, <2>3
<1>5. UNCHANGED <<hw, last, number, sec, sub, result>>
  BY DEF LeafDone, regVars
<1> HIDE DEF t
<1>6. QED
  BY <1>1, <1>3, <1>4, <1>5, Staying

-----------------------------------------------------------------------------
(* A bridge is entered.                                                    *)

\* The bridge being configured has no number yet, and the next one reaches its bus.
LEMMA NextNumber ==
    ASSUME Numbers, Descent, Passing, Top.fn \in Bridges
    PROVE  /\ Top.fn \notin Numbered /\ Top.fn # Root
           /\ hw[Top.fn].bus = Top.bus /\ Top.bus \in {Root} \cup Numbered
           /\ \A g \in Numbered : g \in Above(Top.bus) <=> last + 1 <= sub[g]
<1> DEFINE l == Len(stack)  f == Top.fn
<1>1. l \in Nat /\ l \in 1 .. l /\ Top = stack[l] /\ Top.bus \in {Root} \cup Numbered
  BY TopType DEF Top
<1>2. f # Root
  BY NoBridgeIsRoot DEF Numbers
<1>3. f \in Top.todo /\ hw[f].bus = Top.bus /\ f \notin Numbered
  BY <1>1, <1>2 DEF Descent
<1>4. ASSUME NEW g \in Numbered PROVE g \in Above(Top.bus) <=> last + 1 <= sub[g]
  <2>1. g \in Above(Top.bus) <=> OnStack(g)
    <3>1. Above(Top.bus) = {stack[j].bus : j \in 2 .. l}
      BY <1>1 DEF Descent
    <3>2. QED
      BY <3>1 DEF OnStack
  <2>2. last \in Nat /\ sub[g] \in 0 .. 255 /\ last + 1 <= 255
    BY <1>3, BridgeCount DEF Numbers, Numbered
  <2>3. CASE OnStack(g)
    BY <2>1, <2>2, <2>3 DEF Passing
  <2>4. CASE ~OnStack(g)
    BY <2>1, <2>2, <2>4 DEF Passing
  <2>5. QED
    BY <2>3, <2>4
<1>5. QED
  BY <1>1, <1>2, <1>3, <1>4

LEMMA EnterBridgeRoute == ASSUME RouteInv, EnterBridge PROVE RouteInv'
<1> DEFINE l == Len(stack)  f == Top.fn  n == last + 1  e == Frame(f, n)
<1>1. Descent /\ Passing /\ Numbers /\ OneRoute /\ f \in Bridges
  BY DEF RouteInv, EnterBridge, SetUp
<1>2. /\ l \in Nat /\ l \in 1 .. l /\ Top = stack[l] /\ stack \in Seq(FrameType)
      /\ \A i \in 1 .. l : stack[i] \in FrameType
  BY <1>1, TopType DEF Top, Descent
<1>3. /\ f \notin Numbered /\ f # Root /\ hw[f].bus = Top.bus /\ Top.bus \in {Root} \cup Numbered
      /\ \A g \in Numbered : g \in Above(Top.bus) <=> last + 1 <= sub[g]
  BY <1>1, NextNumber
<1>4. Prescan(f, n) /\ hw' = hw /\ stack' = Append(stack, e)
  BY DEF EnterBridge
<1>5. /\ Numbers' /\ OneRoute' /\ Numbered' = Numbered \cup {f}
      /\ last' = last + 1 /\ sub'[f] = 255 /\ lastSub'[f] = last'
      /\ \A g \in Bridges \ {f} : sub'[g] = sub[g]
      /\ \A b \in Bus : Above(b)' = Above(b)
  BY <1>1, <1>3, <1>4, Numbering
<1>6. /\ Fn' = Fn /\ Bridges' = Bridges /\ Bus' = Bus /\ FrameType' = FrameType
      /\ f \in Bus /\ Numbered \subseteq Bridges /\ f \in Fn
  BY <1>1, <1>4 DEF Fn, Bridges, Bus, FrameType, Numbered
<1>7. e \in FrameType /\ e.bus = f /\ e.todo = Seen(f, n) /\ e.fn = Root
  BY <1>6 DEF Frame, FrameType, Seen
<1> HIDE DEF e
<1>8. /\ stack' \in Seq(FrameType) /\ Len(stack') = l + 1 /\ stack'[l + 1] = e
      /\ \A i \in 1 .. l : stack'[i] = stack[i]
  BY <1>2, <1>4, <1>7
<1> HIDE DEF l, f, n
<1>9. Descent'
  <2>1. stack'[1].bus = Root /\ l >= 1
    BY <1>1, <1>2, <1>8 DEF Descent
  <2>2. ASSUME NEW i \in 2 .. l + 1
        PROVE  stack'[i].bus \in Numbered' /\ stack'[i - 1].fn = stack'[i].bus
    <3>1. CASE i = l + 1
      BY <1>2, <1>5, <1>7, <1>8, <3>1 DEF f
    <3>2. CASE i # l + 1
      <4>1. i \in 2 .. l /\ i \in 1 .. l /\ i - 1 \in 1 .. l
        BY <1>2, <3>2
      <4>2. stack'[i] = stack[i] /\ stack'[i - 1] = stack[i - 1]
        BY <1>8, <4>1
      <4>3. QED
        BY <1>1, <1>5, <4>1, <4>2 DEF Descent, l
    <3>3. QED
      BY <3>1, <3>2
  <2>3. \A i \in 1 .. l : stack[i].bus \in {Root} \cup Numbered /\ stack[i].bus # f
    BY <1>1, <1>2, <1>3 DEF Descent, l
  <2>4. ASSUME NEW i \in 1 .. l + 1, NEW j \in 1 .. l + 1, stack'[i].bus = stack'[j].bus
        PROVE  i = j
    <3>1. CASE i = l + 1 \/ j = l + 1
      BY <1>2, <1>7, <1>8, <2>3, <2>4, <3>1
    <3>2. CASE i \in 1 .. l /\ j \in 1 .. l
      BY <1>1, <1>8, <2>4, <3>2 DEF Descent, l
    <3>3. QED
      BY <1>2, <3>1, <3>2
  <2>5. ASSUME NEW i \in 1 .. l + 1, NEW h \in stack'[i].todo
        PROVE  hw[h].bus = stack'[i].bus /\ (h \in Numbered' => i < l + 1 /\ h = stack'[i].fn)
    <3>1. CASE i = l + 1
      <4>1. h \in Seen(f, n) /\ stack'[i].bus = f
        BY <1>7, <1>8, <2>5, <3>1
      <4>2. hw[h].bus = f
        BY <4>1 DEF Seen
      <4>3. h \notin Numbered
        BY <1>1, <1>3, <4>2 DEF Numbers
      <4>4. h # f
        BY <1>3, <4>2
      <4>5. QED
        BY <1>5, <4>1, <4>2, <4>3, <4>4
    <3>2. CASE i \in 1 .. l
      <4>1. stack'[i] = stack[i] /\ h \in stack[i].todo /\ i < l + 1
        BY <1>2, <1>8, <2>5, <3>2
      <4>2. hw[h].bus = stack[i].bus /\ (h \in Numbered => h = stack[i].fn)
        BY <1>1, <3>2, <4>1 DEF Descent, l
      <4>3. ASSUME h = f PROVE h = stack[i].fn
        <5>1. stack[i].bus = stack[l].bus
          BY <1>2, <1>3, <4>2, <4>3
        <5>2. i = l
          BY <1>1, <1>2, <3>2, <5>1 DEF Descent, l
        <5>3. QED
          BY <1>2, <4>3, <5>2 DEF f
      <4>4. QED
        BY <1>5, <4>1, <4>2, <4>3
    <3>3. QED
      BY <1>2, <3>1, <3>2
  <2>6. ASSUME NEW i \in 1 .. l + 1, stack'[i].fn # Root PROVE stack'[i].fn \in stack'[i].todo
    <3>1. i # l + 1
      BY <1>7, <1>8, <2>6
    <3>2. QED
      BY <1>1, <1>2, <1>8, <2>6, <3>1 DEF Descent, l
  <2>7. ASSUME NEW i \in 1 .. l + 1
        PROVE  Above(stack'[i].bus) = {stack'[j].bus : j \in 2 .. i}
    <3>1. CASE i = l + 1
      <4>1. Above(f) = {f} \cup Above(Top.bus)
        BY <1>1, <1>3, <1>6, AboveStep DEF Numbers, Bus, f
      <4>2. Above(Top.bus) = {stack[j].bus : j \in 2 .. l}
        BY <1>1, <1>2 DEF Descent, l
      <4>3. {stack'[j].bus : j \in 2 .. l + 1} = {f} \cup {stack[j].bus : j \in 2 .. l}
        <5>1. \A j \in 2 .. l : stack'[j].bus = stack[j].bus
          BY <1>2, <1>8
        <5>2. stack'[l + 1].bus = f /\ l + 1 \in 2 .. l + 1
          BY <1>2, <1>7, <1>8
        <5>3. 2 .. l + 1 = (2 .. l) \cup {l + 1}
          BY <1>2
        <5>4. QED
          BY <5>1, <5>2, <5>3
      <4>4. QED
        BY <1>7, <1>8, <3>1, <4>1, <4>2, <4>3
    <3>2. CASE i \in 1 .. l
      <4>1. {stack'[j].bus : j \in 2 .. i} = {stack[j].bus : j \in 2 .. i}
        <5>1. \A j \in 2 .. i : stack'[j] = stack[j]
          BY <1>2, <1>8, <3>2
        <5>2. QED
          BY <5>1
      <4>2. QED
        BY <1>1, <1>8, <3>2, <4>1 DEF Descent, l
    <3>3. QED
      BY <1>2, <3>1, <3>2
  <2>8. \A i \in 1 .. Len(stack)' : (Above(stack[i].bus))' = {stack'[j].bus : j \in 2 .. i}
    <3>1. \A i \in 1 .. Len(stack)' : (Above(stack[i].bus))' = Above(stack'[i].bus)
      BY <1>4, <1>6 DEF Above
    <3>2. QED
      BY <1>8, <2>7, <3>1
  <2>9. /\ stack' \in Seq(FrameType)' /\ Len(stack') >= 1 /\ stack'[1].bus = Root
        /\ \A i \in 2 .. Len(stack') : stack'[i].bus \in Numbered' /\ stack'[i - 1].fn = stack'[i].bus
    BY <1>2, <1>6, <1>8, <2>1, <2>2
  <2>10. \A i, j \in 1 .. Len(stack') : stack'[i].bus = stack'[j].bus => i = j
    BY <1>8, <2>4
  <2>11. \A i \in 1 .. Len(stack') :
          /\ \A h \in stack'[i].todo : /\ hw'[h].bus = stack'[i].bus
                                       /\ h \in Numbered' => i < Len(stack') /\ h = stack'[i].fn
          /\ stack'[i].fn # Root => stack'[i].fn \in stack'[i].todo
    BY <1>4, <1>8, <2>5, <2>6
  <2>12. QED
    BY <2>8, <2>9, <2>10, <2>11 DEF Descent
<1>10. Passing'
  <2>1. Top'.bus = f
    BY <1>7, <1>8 DEF Top
  <2>2. \A g : OnStack(g)' <=> g = f \/ OnStack(g)
    <3>1. \A g : OnStack(g)' <=> \E i \in 2 .. l + 1 : g = stack'[i].bus
      BY <1>8 DEF OnStack
    <3>2. \A g : OnStack(g) <=> \E i \in 2 .. l : g = stack[i].bus
      BY DEF OnStack, l
    <3>3. \A i \in 2 .. l : stack'[i].bus = stack[i].bus
      BY <1>2, <1>8
    <3>4. stack'[l + 1].bus = f /\ l + 1 \in 2 .. l + 1
      BY <1>2, <1>7, <1>8
    <3>5. 2 .. l + 1 = (2 .. l) \cup {l + 1}
      BY <1>2
    <3>6. QED
      BY <3>1, <3>2, <3>3, <3>4, <3>5
  <2>3. ASSUME NEW g \in Numbered' PROVE IF OnStack(g)' THEN sub'[g] = 255 ELSE sub'[g] <= last'
    <3>1. CASE g = f
      BY <1>5, <2>2, <3>1 DEF f
    <3>2. CASE g # f
      <4>1. g \in Numbered /\ sub'[g] = sub[g] /\ (OnStack(g)' <=> OnStack(g))
        BY <1>5, <1>6, <2>2, <2>3, <3>2
      <4>2. sub[g] \in 0 .. 255 /\ last \in Nat
        BY <1>1, <1>6, <4>1 DEF Numbers
      <4>3. QED
        BY <1>1, <1>5, <4>1, <4>2 DEF Passing
    <3>3. QED
      BY <3>1, <3>2
  <2>4. QED
    BY <1>5, <2>1, <2>3 DEF Passing
<1>11. QED
  BY <1>5, <1>9, <1>10 DEF RouteInv

-----------------------------------------------------------------------------
(* A bridge is left, and the scan ends.                                    *)

LEMMA LeaveBridgeRoute == ASSUME RouteInv, LeaveBridge PROVE RouteInv'
<1> DEFINE l == Len(stack)  m == l - 1  b == Top.bus  s == SubSeq(stack, 1, l - 1)
           t == [stack[m] EXCEPT !.todo = @ \ {stack[m].fn}, !.fn = Root]
<1>1. Descent /\ Passing /\ Numbers /\ OneRoute /\ result = "running" /\ l > 1
  BY DEF RouteInv, LeaveBridge
<1>2. /\ l \in Nat /\ m \in Nat /\ m >= 1 /\ m \in 1 .. l /\ m \in 1 .. m /\ l \in 1 .. l
      /\ l \in 2 .. l /\ l = m + 1
      /\ Top = stack[l] /\ stack \in Seq(FrameType) /\ \A i \in 1 .. l : stack[i] \in FrameType
  BY <1>1, TopType DEF Top, Descent
<1>3. b \in Numbered /\ stack[m].fn = b /\ b # Root /\ OnStack(b)
  <2>1. b \in Numbered /\ stack[m].fn = b
    BY <1>1, <1>2 DEF Descent
  <2>2. QED
    BY <1>1, <1>2, <2>1, NoBridgeIsRoot DEF Numbered, OnStack, Numbers
<1>4. /\ s \in Seq(FrameType) /\ Len(s) = m /\ \A i \in 1 .. m : s[i] = stack[i]
  BY <1>2
<1>5. t \in FrameType /\ t.bus = stack[m].bus /\ t.todo = stack[m].todo \ {b} /\ t.fn = Root
  BY <1>2, <1>3 DEF FrameType
<1>6. stack' = [s EXCEPT ![m] = t]
  BY <1>2, <1>4 DEF LeaveBridge, Done
<1> HIDE DEF t, s, m
<1>7. stack' \in Seq(FrameType) /\ Len(stack') = m /\ stack'[m] = t
      /\ \A i \in 1 .. m : i # m => stack'[i] = stack[i]
  BY <1>2, <1>4, <1>5, <1>6
<1>8. /\ UNCHANGED <<hw, last, number, sec, result>>
      /\ sub' = [sub EXCEPT ![b] = last]
  BY <1>1 DEF LeaveBridge, Passing
<1>9. lastSub' \in [Bus -> 0 .. last] /\ lastSub'[stack[m].bus] = last
  <2>1. /\ stack[m].bus \in Bus /\ lastSub \in [Bus -> 0 .. last] /\ last \in Nat
        /\ lastSub[stack[m].bus] \in 0 .. last /\ lastSub[b] = last
    BY <1>1, <1>2 DEF FrameType, Numbers, Passing
  <2>2. Greater(lastSub[stack[m].bus], last) = last
    BY <2>1 DEF Greater
  <2>3. lastSub' = [lastSub EXCEPT ![stack[m].bus] = last]
    <3>1. lastSub' = [lastSub EXCEPT ![s[m].bus] = Greater(@, Reported(b))]
      BY <1>2, <1>4 DEF LeaveBridge, Done, s, m
    <3>2. QED
      BY <1>2, <1>4, <2>1, <2>2, <3>1 DEF Reported
  <2>4. QED
    BY <2>1, <2>3
<1>10. /\ Fn' = Fn /\ Bridges' = Bridges /\ Bus' = Bus /\ Numbered' = Numbered
      /\ FrameType' = FrameType /\ \A x : Above(x)' = Above(x)
  BY <1>8 DEF Fn, Bridges, Bus, Numbered, FrameType, Above
<1>11. /\ b \in Bridges /\ sub[b] = 255 /\ sub'[b] = last /\ last \in Nat /\ last <= 255
       /\ \A g \in Bridges : g # b => sub'[g] = sub[g]
  BY <1>1, <1>3, <1>8, BridgeCount DEF Numbers, Numbered, Passing
<1> HIDE DEF b, l
<1>12. Numbers'
  <2>1. sub' \in [Bridges -> 0 .. 255]
    <3>1. sub \in [Bridges -> 0 .. 255]
      BY <1>1 DEF Numbers
    <3>2. last \in 0 .. 255
      BY <1>11
    <3>3. QED
      BY <1>8, <3>1, <3>2
  <2>2. QED
    BY <1>1, <1>8, <1>9, <1>10, <2>1 DEF Numbers
<1>13. OneRoute'
  <2> SUFFICES ASSUME NEW h \in Bridges, NEW g \in Bridges, number[h] # 0
               PROVE  sec[g] \in 1 .. number[h] /\ number[h] <= sub'[g] <=> g \in Above(h)
    BY <1>8, <1>10 DEF OneRoute
  <2>1. number[h] \in 0 .. last
    BY <1>1 DEF Numbers, Bus
  <2>2. number[h] <= sub'[g] <=> number[h] <= sub[g]
    BY <1>11, <2>1
  <2>3. QED
    BY <1>1, <2>2 DEF OneRoute
<1>14. /\ \A i \in 1 .. m : i \in 1 .. l /\ i < l
       /\ \A i \in 1 .. m : stack'[i].bus = stack[i].bus /\ stack'[i].todo \subseteq stack[i].todo
       /\ \A i \in 1 .. m : i # m => stack'[i] = stack[i]
  BY <1>2, <1>5, <1>7
<1>15. Descent'
  <2>1. stack'[1].bus = Root
    BY <1>1, <1>2, <1>14 DEF Descent
  <2>2. ASSUME NEW i \in 2 .. m
        PROVE  stack'[i].bus \in Numbered /\ stack'[i - 1].fn = stack'[i].bus
    <3>1. i \in 1 .. m /\ i \in 2 .. l /\ i - 1 \in 1 .. m /\ i - 1 # m
      BY <1>2
    <3>2. stack'[i].bus = stack[i].bus /\ stack'[i - 1] = stack[i - 1]
      BY <1>14, <3>1
    <3>3. QED
      BY <1>1, <3>1, <3>2 DEF Descent, l
  <2>3. ASSUME NEW i \in 1 .. m, NEW j \in 1 .. m, stack'[i].bus = stack'[j].bus
        PROVE  i = j
    BY <1>1, <1>14, <2>3 DEF Descent, l
  <2>4. ASSUME NEW i \in 1 .. m, NEW h \in stack'[i].todo
        PROVE  hw[h].bus = stack'[i].bus /\ (h \in Numbered => i < m /\ h = stack'[i].fn)
    <3>1. /\ h \in stack[i].todo /\ stack'[i].bus = stack[i].bus /\ i \in 1 .. l
      BY <1>14, <2>4
    <3>2. hw[h].bus = stack[i].bus /\ (h \in Numbered => h = stack[i].fn)
      BY <1>1, <3>1 DEF Descent, l
    <3>3. CASE i = m
      <4>1. h # b
        BY <1>5, <1>7, <2>4, <3>3
      <4>2. QED
        BY <1>3, <3>1, <3>2, <3>3, <4>1
    <3>4. CASE i # m
      <4>1. i < m /\ stack'[i] = stack[i]
        BY <1>2, <1>7, <3>4
      <4>2. QED
        BY <3>2, <4>1
    <3>5. QED
      BY <3>3, <3>4
  <2>5. ASSUME NEW i \in 1 .. m, stack'[i].fn # Root PROVE stack'[i].fn \in stack'[i].todo
    <3>1. i # m
      BY <1>5, <1>7, <2>5
    <3>2. stack'[i] = stack[i] /\ i \in 1 .. l
      BY <1>14, <3>1
    <3>3. QED
      BY <1>1, <2>5, <3>2 DEF Descent, l
  <2>6. ASSUME NEW i \in 1 .. m
        PROVE  Above(stack'[i].bus) = {stack'[j].bus : j \in 2 .. i}
    <3>1. {stack'[j].bus : j \in 2 .. i} = {stack[j].bus : j \in 2 .. i}
      <4>1. \A j \in 2 .. i : stack'[j].bus = stack[j].bus
        BY <1>2, <1>14
      <4>2. QED
        BY <4>1
    <3>2. stack'[i].bus = stack[i].bus /\ i \in 1 .. l
      BY <1>14
    <3>3. QED
      BY <1>1, <3>1, <3>2 DEF Descent, l
  <2>7. \A i \in 1 .. Len(stack)' : (Above(stack[i].bus))' = {stack'[j].bus : j \in 2 .. i}
    <3>1. \A i \in 1 .. Len(stack)' : (Above(stack[i].bus))' = Above(stack'[i].bus)
      BY <1>8, <1>10 DEF Above
    <3>2. QED
      BY <1>7, <2>6, <3>1
  <2>8. /\ stack' \in Seq(FrameType)' /\ Len(stack') >= 1 /\ stack'[1].bus = Root
        /\ \A i \in 2 .. Len(stack') : stack'[i].bus \in Numbered' /\ stack'[i - 1].fn = stack'[i].bus
    BY <1>2, <1>7, <1>10, <2>1, <2>2
  <2>9. \A i, j \in 1 .. Len(stack') : stack'[i].bus = stack'[j].bus => i = j
    BY <1>7, <2>3
  <2>10. \A i \in 1 .. Len(stack') :
          /\ \A h \in stack'[i].todo : /\ hw'[h].bus = stack'[i].bus
                                       /\ h \in Numbered' => i < Len(stack') /\ h = stack'[i].fn
          /\ stack'[i].fn # Root => stack'[i].fn \in stack'[i].todo
    BY <1>7, <1>8, <1>10, <2>4, <2>5
  <2>11. QED
    BY <2>7, <2>8, <2>9, <2>10 DEF Descent
<1>16. Passing'
  <2>1. Top'.bus = stack[m].bus
    BY <1>5, <1>7 DEF Top
  <2>2. ASSUME NEW g \in Numbered, g # b PROVE OnStack(g)' <=> OnStack(g)
    <3>1. OnStack(g)' <=> \E i \in 2 .. m : g = stack'[i].bus
      BY <1>7 DEF OnStack
    <3>2. OnStack(g) <=> \E i \in 2 .. l : g = stack[i].bus
      BY DEF OnStack, l
    <3>3. \A i \in 2 .. m : i \in 2 .. l /\ stack'[i].bus = stack[i].bus
      BY <1>2, <1>14
    <3>4. \A i \in 2 .. l : i \in 2 .. m \/ i = l
      BY <1>2
    <3>5. stack[l].bus = b
      BY <1>2 DEF b
    <3>6. QED
      BY <2>2, <3>1, <3>2, <3>3, <3>4, <3>5
  <2>3. ASSUME NEW g \in Numbered, g = b PROVE ~OnStack(g)'
    <3>1. OnStack(g)' <=> \E i \in 2 .. m : g = stack'[i].bus
      BY <1>7 DEF OnStack
    <3>2. ASSUME NEW i \in 2 .. m PROVE b # stack'[i].bus
      <4>1. i \in 1 .. m /\ i \in 1 .. l /\ i # l
        BY <1>2
      <4>2. stack[i].bus # stack[l].bus
        BY <1>1, <1>2, <4>1 DEF Descent, l
      <4>3. QED
        BY <1>2, <1>14, <4>1, <4>2 DEF b
    <3>3. QED
      BY <2>3, <3>1, <3>2
  <2>4. ASSUME NEW g \in Numbered PROVE IF OnStack(g)' THEN sub'[g] = 255 ELSE sub'[g] <= last
    <3>1. CASE g = b
      BY <1>11, <2>3, <3>1
    <3>2. CASE g # b
      <4>1. sub'[g] = sub[g] /\ (OnStack(g)' <=> OnStack(g))
        BY <1>11, <2>2, <3>2 DEF Numbered
      <4>2. QED
        BY <1>1, <4>1 DEF Passing
    <3>3. QED
      BY <3>1, <3>2
  <2>5. QED
    BY <1>8, <1>9, <1>10, <2>1, <2>4 DEF Passing
<1>17. QED
  BY <1>12, <1>13, <1>15, <1>16 DEF RouteInv

LEMMA FinishRoute == ASSUME RouteInv, Finish \/ CreateFails PROVE RouteInv'
<1>1. /\ UNCHANGED <<hw, last, number, lastSub, sec, sub>> /\ result' # "running"
  BY DEF Finish, CreateFails, regVars
<1>2. /\ Fn' = Fn /\ Bridges' = Bridges /\ Bus' = Bus /\ Numbered' = Numbered
      /\ \A b : Above(b)' = Above(b)
  BY <1>1 DEF Fn, Bridges, Bus, Numbered, Above
<1>3. Numbers' /\ OneRoute'
  BY <1>1, <1>2 DEF RouteInv, Numbers, OneRoute
<1>4. QED
  BY <1>1, <1>3 DEF RouteInv

LEMMA BindFailsRoute == ASSUME RouteInv, BindFails PROVE RouteInv'
<1>1. /\ Numbers /\ OneRoute /\ Descent /\ Passing /\ Top.fn \in Bridges
      /\ Prescan(Top.fn, last + 1) /\ hw' = hw /\ result' # "running"
  BY DEF RouteInv, BindFails, SetUp
<1>2. /\ Top.fn \notin Numbered /\ hw[Top.fn].bus = Top.bus /\ Top.bus \in {Root} \cup Numbered
      /\ \A g \in Numbered : g \in Above(Top.bus) <=> last + 1 <= sub[g]
  BY <1>1, NextNumber
<1>3. Numbers' /\ OneRoute'
  BY <1>1, <1>2, Numbering
<1>4. QED
  BY <1>1, <1>3 DEF RouteInv

-----------------------------------------------------------------------------
(* The theorem.                                                            *)

\* A tree whose root bus is bound and nothing behind it yet.
Fresh ==
    /\ hw \in Topologies /\ last = 0 /\ number = [b \in Bus |-> 0] /\ lastSub = number
    /\ sec = [f \in Bridges |-> 0] /\ sub = sec /\ stack = <<Frame(Root, 0)>>

LEMMA FreshRoute == Fresh => RouteInv
<1> SUFFICES ASSUME Fresh PROVE RouteInv
  OBVIOUS
<1>1. /\ hw \in Topologies /\ last = 0 /\ number = [b \in Bus |-> 0] /\ lastSub = number
      /\ sec = [f \in Bridges |-> 0] /\ sub = sec /\ stack = <<Frame(Root, 0)>>
  BY DEF Fresh
<1>2. Numbered = {} /\ Root \in Bus /\ Bridges \subseteq Bus
  BY <1>1 DEF Numbered, Bus
<1>3. Numbers
  <2>1. Cardinality(Numbered) = 0
    BY <1>2, FS_EmptySet
  <2>2. sec = [f \in Bridges |-> number[f]]
    BY <1>1, <1>2
  <2>3. QED
    BY <1>1, <1>2, <2>1, <2>2 DEF Numbers
<1>4. OneRoute
  BY <1>2 DEF OneRoute, Numbered
<1>5. Descent
  <2>1. Frame(Root, 0) \in FrameType
    BY <1>2 DEF Frame, FrameType, Seen
  <2>2. /\ stack \in Seq(FrameType) /\ Len(stack) = 1 /\ stack[1] = Frame(Root, 0)
    BY <1>1, <2>1
  <2>3. \A i \in 1 .. Len(stack) : i = 1
    BY <2>2
  <2>4. /\ stack[1].bus = Root /\ stack[1].fn = Root
        /\ \A f \in stack[1].todo : hw[f].bus = Root
    BY <2>2 DEF Frame, Seen
  <2>5. Above(Root) = {} /\ {stack[j].bus : j \in 2 .. 1} = {}
    BY <1>1, AboveRoot
  <2>6. QED
    BY <1>2, <2>2, <2>3, <2>4, <2>5 DEF Descent
<1>6. Passing
  BY <1>1, <1>2 DEF Passing, Top, Frame
<1>7. QED
  BY <1>3, <1>4, <1>5, <1>6 DEF RouteInv

LEMMA NextRoute == RouteInv /\ [Next]_vars => RouteInv'
<1> SUFFICES ASSUME RouteInv, [Next]_vars PROVE RouteInv'
  OBVIOUS
<1>1. CASE NextDevice
  BY <1>1, NextDeviceRoute
<1>2. CASE SkipBar \/ AssignBar
  BY <1>2, BarRoute
<1>3. CASE LeafDone
  BY <1>3, LeafDoneRoute
<1>4. CASE EnterBridge
  BY <1>4, EnterBridgeRoute
<1>5. CASE LeaveBridge
  BY <1>5, LeaveBridgeRoute
<1>6. CASE Finish \/ CreateFails
  BY <1>6, FinishRoute
<1>7. CASE BindFails
  BY <1>7, BindFailsRoute
<1>8. CASE UNCHANGED vars
  <2>1. RouteInv' = RouteInv
    BY <1>8 DEF RouteInv, Numbers, OneRoute, Descent, Passing, OnStack, Numbered, Above,
                Bus, Bridges, Fn, FrameType, Top, vars, regVars
  <2>2. QED
    BY <2>1
<1>9. QED
  BY <1>1, <1>2, <1>3, <1>4, <1>5, <1>6, <1>7, <1>8 DEF Next

\* Whatever the tree and whatever fails, the bus numbers of a scan nest: a configuration
\* cycle for a numbered bus is claimed by the bridges on the way to it and by no other
\* (pciauto_prescan_setup_bridge and pciauto_postscan_setup_bridge).
THEOREM RoutesAreUnique == Spec => []OneRoute
<1>1. RouteInv => OneRoute
  BY DEF RouteInv
<1>2. Init => Fresh
  BY DEF Init, Fresh
<1>3. QED
  BY <1>1, <1>2, FreshRoute, NextRoute, PTL DEF Spec

-----------------------------------------------------------------------------
(* Links.                                                                  *)

\* ntrcount of pciauto_exp_link_stable.
Counting(s, g) ==
    g = [i \in 0 .. Len(s) |->
            IF i = 0 THEN 0 ELSE IF s[i].training THEN 0 ELSE g[i - 1] + 1]

LEMMA Counts == ASSUME NEW s, Polled(s) PROVE \E g : Counting(s, g)
<1> DEFINE n == Len(s)
           step == [i \in 1 .. n |-> [c \in Nat |-> IF s[i].training THEN 0 ELSE c + 1]]
<1>1. n \in Nat
  BY DEF Polled
<1>2. step \in [1 .. n -> [Nat -> Nat]]
  OBVIOUS
<1> HIDE DEF step
<1>3. PICK g : Computes(n, Nat, 0, step, g)
  BY <1>1, <1>2, Computed
<1>4. ASSUME NEW i \in 0 .. n
      PROVE  g[i] = IF i = 0 THEN 0 ELSE IF s[i].training THEN 0 ELSE g[i - 1] + 1
  <2>1. CASE i = 0
    BY <1>3, <2>1 DEF Computes
  <2>2. CASE i # 0
    <3>1. i \in 1 .. n /\ i - 1 \in 0 .. n
      BY <1>1, <2>2
    <3>2. g[i] = step[i][g[i - 1]] /\ g[i - 1] \in Nat
      BY <1>3, <3>1 DEF Computes
    <3>3. QED
      BY <2>2, <3>1, <3>2 DEF step
  <2>3. QED
    BY <2>1, <2>2
<1>5. g = [i \in 0 .. n |-> g[i]]
  BY <1>3 DEF Computes
<1>6. QED
  BY <1>4, <1>5 DEF Counting

\* It is the length of the run of samples without training that the polling ends with.
LEMMA CountIs ==
    ASSUME NEW s, Polled(s), NEW g, Counting(s, g)
    PROVE  LET n == Len(s) IN
           /\ g[n] \in 0 .. n
           /\ \A i \in n - g[n] + 1 .. n : ~s[i].training
           /\ g[n] < n => s[n - g[n]].training
<1> DEFINE n == Len(s)
           Claim(k) == /\ g[k] \in 0 .. k
                       /\ \A i \in k - g[k] + 1 .. k : ~s[i].training
                       /\ g[k] < k => s[k - g[k]].training
           S == {k \in 0 .. n : Claim(k)}
<1>1. n \in Nat
  BY DEF Polled
<1>2. \A i \in 0 .. n : g[i] = IF i = 0 THEN 0 ELSE IF s[i].training THEN 0 ELSE g[i - 1] + 1
  BY Zenon DEF Counting
<1> HIDE DEF n
<1>3. 0 \in S
  BY <1>1, <1>2
<1>4. ASSUME NEW k \in 1 .. n, k - 1 \in S PROVE k \in S
  <2>1. k \in 0 .. n /\ k # 0 /\ k \in Nat /\ k - 1 \in 0 .. n
    BY <1>1
  <2>2. CASE s[k].training
    <3>1. g[k] = 0
      BY <1>2, <2>1, <2>2
    <3>2. k - 0 = k /\ 0 \in 0 .. k
      BY <2>1
    <3>3. \A i \in k - 0 + 1 .. k : FALSE
      BY <2>1
    <3>4. QED
      BY <2>1, <2>2, <3>1, <3>2, <3>3
  <2>3. CASE ~s[k].training
    <3>1. g[k] = g[k - 1] + 1 /\ Claim(k - 1)
      BY <1>2, <1>4, <2>1, <2>3
    <3>2. g[k] \in 0 .. k
      BY <2>1, <3>1
    <3>3. ASSUME NEW i \in k - g[k] + 1 .. k PROVE ~s[i].training
      <4>1. CASE i = k
        BY <2>3, <4>1
      <4>2. CASE i # k
        <5>1. i \in (k - 1) - g[k - 1] + 1 .. k - 1
          BY <2>1, <3>1, <4>2
        <5>2. QED
          BY <3>1, <5>1
      <4>3. QED
        BY <4>1, <4>2
    <3>4. ASSUME g[k] < k PROVE s[k - g[k]].training
      <4>1. k - g[k] = (k - 1) - g[k - 1] /\ g[k - 1] < k - 1
        BY <2>1, <3>1, <3>4
      <4>2. QED
        BY <3>1, <4>1
    <3>5. QED
      BY <2>1, <3>2, <3>3, <3>4
  <2>4. QED
    BY <2>2, <2>3
<1>5. 0 .. n \subseteq S
  <2> HIDE DEF S
  <2>1. QED
    BY <1>1, <1>3, <1>4, CountUp
<1>6. n \in S
  BY <1>1, <1>5
<1>7. QED
  BY <1>6 DEF n

\* The count decides what the comment of pciauto_exp_link_stable says.
LEMMA StableWorks == ASSUME NEW s, Polled(s) PROVE Stable(s) <=> Works(s)
<1> DEFINE n == Len(s)  f == CHOOSE g : Counting(s, g)
<1>1. n \in Nat /\ n # 0 /\ n \in 1 .. n /\ n \div 2 \in 0 .. n
  BY DEF Polled
<1>2. Counting(s, f)
  BY Counts, Zenon
<1>3. Stable(s) <=> s[n].active \/ f[n] >= n \div 2
  BY Zenon DEF Stable, Counting
<1>4. /\ f[n] \in 0 .. n
      /\ \A i \in n - f[n] + 1 .. n : ~s[i].training
      /\ f[n] < n => s[n - f[n]].training
  BY <1>2, CountIs
<1> HIDE DEF f
<1>5. f[n] >= n \div 2 <=> \A i \in n - n \div 2 + 1 .. n : ~s[i].training
  <2>1. ASSUME f[n] >= n \div 2, NEW i \in n - n \div 2 + 1 .. n PROVE ~s[i].training
    <3>1. i \in n - f[n] + 1 .. n
      BY <1>1, <1>4, <2>1
    <3>2. QED
      BY <1>4, <3>1
  <2>2. ASSUME ~(f[n] >= n \div 2), \A i \in n - n \div 2 + 1 .. n : ~s[i].training PROVE FALSE
    <3>1. f[n] < n /\ n - f[n] \in n - n \div 2 + 1 .. n
      BY <1>1, <1>4, <2>2
    <3>2. QED
      BY <1>4, <2>2, <3>1
  <2>3. QED
    BY <2>1, <2>2
<1>6. s[n].active <=> \E i \in 1 .. n : s[i].active
  <2>1. \A i \in 1 .. n : i # n => i \in 1 .. n - 1
    BY <1>1
  <2>2. QED
    BY <1>1, <2>1 DEF Polled
<1>7. QED
  BY <1>3, <1>5, <1>6 DEF Works

\* A port without the PCIe capability keeps its speed, one with it has, once its bus is
\* active, the speed its link was found to work at.
LinkInv ==
    /\ hw \in Topologies /\ active \subseteq Bridges
    /\ DOMAIN speed = Fn
    /\ \A f \in Bridges :
          IF FindCapability(hw[f].caps, PCI_CAP_ID_EXP) = 0 THEN speed[f] = "preferred"
          ELSE f \in active => speed[f] = Speed(hw[f].port)

LEMMA LinkFresh ==
    hw \in Topologies /\ speed = [f \in Fn |-> "preferred"] /\ active = {} => LinkInv
BY DEF LinkInv, Bridges, Fn

LEMMA PrescanLink ==
    ASSUME LinkInv, NEW f \in Bridges, NEW n, Prescan(f, n), active' \subseteq active \cup {f}, UNCHANGED hw
    PROVE  LinkInv'
<1>1. speed' = [speed EXCEPT ![f] = IF FindCapability(hw[f].caps, PCI_CAP_ID_EXP) = 0
                                     THEN speed[f] ELSE Speed(hw[f].port)]
  BY DEF Prescan
<1>2. f \in Fn /\ Fn' = Fn /\ Bridges' = Bridges
  BY DEF Bridges, Fn
<1>3. QED
  BY <1>1, <1>2 DEF LinkInv

LEMMA NextLink == LinkInv /\ [Next]_vars => LinkInv'
<1> SUFFICES ASSUME LinkInv, [Next]_vars PROVE LinkInv'
  OBVIOUS
<1>1. CASE EnterBridge
  BY <1>1, PrescanLink DEF EnterBridge
<1>2. CASE BindFails
  <2>1. Top.fn \in Bridges /\ Prescan(Top.fn, last + 1) /\ active' \subseteq active /\ UNCHANGED hw
    BY <1>2 DEF BindFails
  <2>2. QED
    BY <2>1, PrescanLink
<1>3. CASE UNCHANGED <<hw, speed>> /\ active' \subseteq active
  BY <1>3 DEF LinkInv, Bridges, Fn
<1>4. QED
  BY <1>1, <1>2, <1>3 DEF Next, NextDevice, SkipBar, AssignBar, LeafDone, LeaveBridge, Finish,
     CreateFails, vars, regVars

LEMMA LinkSafe == LinkInv => LinksTrained
<1> SUFFICES ASSUME LinkInv, NEW f \in active
             PROVE  speed[f] = "2.5" <=>
                       /\ hw[f].caps.present
                       /\ \E p \in Positions :
                             LeadsTo(hw[f].caps, hw[f].caps.first, PCI_CAP_ID_EXP, p, {AllOnes})
                       /\ hw[f].port.able /\ hw[f].port.stuck
                       /\ ~Works(hw[f].port.full) /\ Works(hw[f].port.slow)
  BY DEF LinksTrained
<1> DEFINE c == hw[f].caps  port == hw[f].port
<1>1. f \in Bridges /\ f \in Fn /\ hw \in Topologies
  BY DEF LinkInv, Bridges
<1>2. ListOK(c) /\ Polled(port.full) /\ Polled(port.slow) /\ PCI_CAP_ID_EXP # AllOnes
  BY <1>1, HardwareAssumption DEF Fn
<1>3. FindCapability(c, PCI_CAP_ID_EXP) = 0 <=>
         ~(c.present /\ \E p \in Positions : LeadsTo(c, c.first, PCI_CAP_ID_EXP, p, {AllOnes}))
  <2>1. \A p \in Positions : FindCapability(c, PCI_CAP_ID_EXP) = p <=>
                                c.present /\ LeadsTo(c, c.first, PCI_CAP_ID_EXP, p, {AllOnes})
    BY <1>2, CapabilityFound
  <2>2. FindCapability(c, PCI_CAP_ID_EXP) \in Reads /\ 0 \notin Positions
    BY <1>2, CapabilityFound, CapabilityAssumption
  <2>3. QED
    BY <2>1, <2>2 DEF Reads
<1>4. Stable(port.full) = Works(port.full) /\ Stable(port.slow) = Works(port.slow)
  <2>1. \A s : Stable(s) \in BOOLEAN /\ Works(s) \in BOOLEAN
    BY DEF Stable, Works
  <2>2. QED
    BY <1>2, <2>1, StableWorks
<1>5. IF FindCapability(c, PCI_CAP_ID_EXP) = 0 THEN speed[f] = "preferred" ELSE speed[f] = Speed(port)
  BY <1>1 DEF LinkInv
<1>6. QED
  BY <1>3, <1>4, <1>5 DEF Speed, Broken

\* pciauto_exp_fixup_link: whatever the capability list and whatever the registers answer
\* while the links train, a port is left at 2.5 GT/s exactly if its link came up there and
\* not at the preferred speed.
THEOREM LinksAreTrained == Spec => []LinksTrained
<1>1. Init => LinkInv
  BY LinkFresh DEF Init
<1>2. QED
  BY <1>1, NextLink, LinkSafe, PTL DEF Spec

=============================================================================
