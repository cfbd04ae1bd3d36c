----------------------------- MODULE ListProofs -----------------------------
(***************************************************************************)
(* Theorems about List for any heads and nodes: the links of the cells are *)
(* at all times those of one sequence of nodes for each head, and what the *)
(* functions of src/list.c do to the links is what the operations of Lists *)
(* do to the sequences.  And about Strings for any strings and lengths:    *)
(* what the functions of src/strings.c do to the arrays is what those of   *)
(* StringLists do to the sequences.                                        *)
(***************************************************************************)
EXTENDS List, Strings, FiniteSetTheorems, SequenceTheorems, WellFoundedInduction, TLAPS

\* Every cell can be given a home, such that a head has its own, and neighbours
\* in a ring have the same: no two heads are in one ring.
Homes(home) ==
  /\ \A h \in Heads : home[h] = h
  /\ \A c \in Cells : Agrees(c) => home[next[c]] = home[c] /\ home[prev[c]] = home[c]

Separate == \E home \in [Cells -> Cells] : Homes(home)

LEMMA HeadsAreNoNodes == \A l \in Heads, n \in Nodes : l # n /\ l \in Cells /\ n \in Cells
  BY ListAssumption DEF Cells

-----------------------------------------------------------------------------
(* Rings and sequences                                                     *)

\* The cell at place i of the ring of h, when its nodes are those of s: the
\* head is before and behind them.
Around(s, h, i) == IF i \in 1..Len(s) THEN s[i] ELSE h

IsIn(L, n) == \E h \in Heads : \E i \in DOMAIN L[h] : L[h][i] = n

\* The links are those of sequences L, one for each head.
Linked(L) ==
  \A h \in Heads : \A i \in 0..Len(L[h]) :
    /\ next[Around(L[h], h, i)] = Around(L[h], h, i + 1)
    /\ prev[Around(L[h], h, i + 1)] = Around(L[h], h, i)

\* No node is in two places.
Apart(L) ==
  \A g, h \in Heads : \A i \in DOMAIN L[g], j \in DOMAIN L[h] :
    L[g][i] = L[h][j] => g = h /\ i = j

\* What is in none of them may be linked.
Free(L) == \A n \in Nodes : IsIn(L, n) \/ Unlinked(n)

LinksOf(L) ==
  /\ next \in [Cells -> Cells] /\ prev \in [Cells -> Cells]
  /\ Linked(L) /\ Apart(L) /\ Free(L)

ListSeqs == [Heads -> Seq(Nodes)]

LEMMA SeqFacts ==
  ASSUME NEW L \in ListSeqs, NEW h \in Heads
  PROVE  /\ L[h] \in Seq(Nodes) /\ Len(L[h]) \in Nat /\ DOMAIN L[h] = 1..Len(L[h])
         /\ \A i \in 1..Len(L[h]) : /\ L[h][i] \in Nodes /\ L[h][i] \in Cells /\ L[h][i] # h
                                     /\ L[h][i] \notin Heads
         /\ h \in Cells /\ h \notin Nodes
         /\ \A i : Around(L[h], h, i) \in Cells
<1>1. L[h] \in Seq(Nodes)
  BY DEF ListSeqs
<1>2. Len(L[h]) \in Nat /\ DOMAIN L[h] = 1..Len(L[h]) /\ \A i \in 1..Len(L[h]) : L[h][i] \in Nodes
  BY <1>1
<1>3. h \in Cells /\ h \notin Nodes /\ \A n \in Nodes : n \notin Heads /\ n \in Cells
  BY ListAssumption DEF Cells
<1> QED
  BY <1>1, <1>2, <1>3 DEF Around

\* A ring has no more cells than there are.
LEMMA RingFits ==
  ASSUME NEW L \in ListSeqs, Apart(L), NEW h \in Heads
  PROVE  Cardinality(Cells) \in Nat /\ Len(L[h]) < Cardinality(Cells)
<1> DEFINE m == Len(L[h])
           f == [i \in 0..m |-> Around(L[h], h, i)]
<1>1. m \in Nat /\ IsFiniteSet(0..m) /\ Cardinality(0..m) = m + 1
  BY SeqFacts, FS_Interval
<1>2. IsFiniteSet(Cells) /\ Cardinality(Cells) \in Nat
  BY ListAssumption, FS_Union, FS_CardinalityType DEF Cells
<1>3. f \in Injection(0..m, Cells)
  <2>1. f \in [0..m -> Cells]
    BY SeqFacts
  <2>2. ASSUME NEW i \in 0..m, NEW j \in 0..m, f[i] = f[j] PROVE i = j
    <3>1. \A k \in 0..m : f[k] = IF k = 0 THEN h ELSE L[h][k]
      BY <1>1 DEF Around
    <3>2. \A k \in 1..m : L[h][k] # h /\ k \in DOMAIN L[h]
      BY SeqFacts
    <3>3. i = 0 <=> j = 0
      BY <1>1, <2>2, <3>1, <3>2
    <3> QED
      BY <1>1, <2>2, <3>1, <3>2, <3>3 DEF Apart
  <2> QED
    BY <2>1, <2>2 DEF Injection, IsInjective
<1>4. Cardinality(0..m) <= Cardinality(Cells)
  <2> HIDE DEF f, m
  <2> QED
    BY <1>2, <1>3, FS_Injection
<1> QED
  BY <1>1, <1>2, <1>4

\* list_len() and the loops meet the nodes of the sequence, in their order.
LEMMA RingOfList ==
  ASSUME NEW L \in ListSeqs, LinksOf(L), NEW h \in Heads
  PROVE  Ring(h) = L[h]
<1> DEFINE N == Cardinality(Cells)
           m == Len(L[h])
           W == [i \in 1..N |-> Around(L[h], h, i)]
           F(at) == [i \in 1..N |-> IF i = 1 THEN next[h]
                                   ELSE IF at[i - 1] = h THEN h ELSE next[at[i - 1]]]
           at == CHOOSE at : at = F(at)
<1>1. N \in Nat /\ m \in Nat /\ m < N
  BY RingFits, SeqFacts DEF LinksOf
<1>2. W = F(W)
  <2> SUFFICES ASSUME NEW i \in 1..N
               PROVE  Around(L[h], h, i) = IF i = 1 THEN next[h]
                        ELSE IF Around(L[h], h, i - 1) = h THEN h ELSE next[Around(L[h], h, i - 1)]
    BY <1>1
  <2>1. Around(L[h], h, 0) = h /\ next[Around(L[h], h, 0)] = Around(L[h], h, 1)
    BY <1>1 DEF Around, LinksOf, Linked
  <2>2. CASE i = 1
    BY <2>1, <2>2
  <2>3. CASE i > 1 /\ i - 1 > m
    BY <1>1, <2>3 DEF Around
  <2>4. CASE i > 1 /\ i - 1 <= m
    <3>1. i - 1 \in 0..m /\ i - 1 \in 1..m /\ (i - 1) + 1 = i
      BY <1>1, <2>4
    <3>2. next[Around(L[h], h, i - 1)] = Around(L[h], h, i)
      BY <3>1 DEF LinksOf, Linked
    <3>3. Around(L[h], h, i - 1) # h
      BY <3>1, SeqFacts DEF Around
    <3> QED
      BY <2>4, <3>2, <3>3
  <2> QED
    BY <1>1, <2>2, <2>3, <2>4
<1>3. at = F(at)
  <2> HIDE DEF F, W
  <2> QED
    BY <1>2
<1>4. at = W
  <2> HIDE DEF at
  <2>1. DOMAIN at = 1..N /\ \A i \in 1..N : at[i] = F(at)[i]
    BY <1>3
  <2> DEFINE Bad == {i \in 1..N : at[i] # W[i]}
  <2>2. Bad = {}
    <3> SUFFICES ASSUME Bad # {} PROVE FALSE
      OBVIOUS
    <3>1. PICK i \in Bad : \A j \in Bad : ~ (<<j, i>> \in OpToRel(<, Nat))
      <4>1. Bad \subseteq Nat
        BY <1>1
      <4> HIDE DEF Bad
      <4> QED
        BY <4>1, NatLessThanWellFounded, WFMin
    <3>2. i \in 1..N /\ i \in Nat
      BY <1>1
    <3>3. CASE i = 1
      BY <1>2, <2>1, <3>2, <3>3
    <3>4. CASE i # 1
      <4>1. i - 1 \in 1..N /\ i - 1 \in Nat /\ i - 1 < i
        BY <1>1, <3>2, <3>4
      <4>2. <<i - 1, i>> \in OpToRel(<, Nat)
        BY <3>2, <4>1 DEF OpToRel
      <4>3. at[i - 1] = W[i - 1]
        BY <3>1, <4>1, <4>2
      <4>4. W[i] = F(W)[i]
        BY <1>2, <3>2
      <4> QED
        BY <2>1, <3>2, <3>4, <4>3, <4>4
    <3> QED
      BY <3>3, <3>4
  <2>3. at = [i \in 1..N |-> at[i]]
    BY <1>3
  <2> QED
    BY <2>2, <2>3
<1>5. {j \in DOMAIN at : at[j] # h} = 1..m
  <2> HIDE DEF at
  <2>1. \A j \in 1..m : L[h][j] # h
    BY SeqFacts
  <2> QED
    BY <1>1, <1>4, <2>1 DEF Around
<1>6. Ring(h) = [i \in 1..Cardinality({j \in DOMAIN at : at[j] # h}) |-> at[i]]
  BY DEF Ring
<1>7. Ring(h) = [i \in 1..m |-> at[i]]
  <2> HIDE DEF at
  <2>1. Cardinality(1..m) = m
    BY <1>1, FS_Interval
  <2> QED
    BY <1>5, <1>6, <2>1
<1>8. \A i \in 1..m : at[i] = L[h][i]
  <2> HIDE DEF at
  <2> QED
    BY <1>1, <1>4 DEF Around
<1>9. L[h] = [i \in 1..m |-> L[h][i]]
  BY SeqFacts
<1> HIDE DEF at
<1> QED
  BY <1>7, <1>8, <1>9

\* The places of a ring are different cells, and so are those of two rings.
LEMMA PlacesApart ==
  ASSUME NEW L \in ListSeqs, Apart(L), NEW h \in Heads
  PROVE  /\ \A i, j \in 0..Len(L[h]) : Around(L[h], h, i) = Around(L[h], h, j) => i = j
         /\ \A i, j \in 1..Len(L[h]) + 1 : Around(L[h], h, i) = Around(L[h], h, j) => i = j
         /\ \A g \in Heads \ {h} : \A i, j : Around(L[h], h, i) # Around(L[g], g, j)
<1> DEFINE m == Len(L[h])
<1>1. /\ m \in Nat /\ \A i \in 1..m : L[h][i] # h /\ i \in DOMAIN L[h]
      /\ \A i \in 1..m : L[h][i] \notin Heads
  BY SeqFacts
<1>2. \A i, j \in 1..m : L[h][i] = L[h][j] => i = j
  BY <1>1 DEF Apart
<1>3. ASSUME NEW g \in Heads \ {h}, NEW i, NEW j
      PROVE  Around(L[h], h, i) # Around(L[g], g, j)
  <2>1. \A e \in 1..Len(L[g]) : L[g][e] \notin Heads /\ e \in DOMAIN L[g]
    BY SeqFacts
  <2>2. \A e \in 1..m, f \in 1..Len(L[g]) : L[h][e] # L[g][f]
    BY <1>1, <2>1 DEF Apart
  <2> QED
    BY <1>1, <2>1, <2>2 DEF Around
<1>4. ASSUME NEW i \in 0..m, NEW j \in 0..m, Around(L[h], h, i) = Around(L[h], h, j)
      PROVE  i = j
  BY <1>1, <1>2, <1>4 DEF Around
<1>5. ASSUME NEW i \in 1..m + 1, NEW j \in 1..m + 1, Around(L[h], h, i) = Around(L[h], h, j)
      PROVE  i = j
  BY <1>1, <1>2, <1>5 DEF Around
<1> QED
  BY <1>3, <1>4, <1>5

\* A node of a sequence is linked.
LEMMA HeldIsLinked ==
  ASSUME NEW L \in ListSeqs, LinksOf(L), NEW h \in Heads, NEW i \in DOMAIN L[h]
  PROVE  /\ i \in 1..Len(L[h]) /\ L[h][i] = Around(L[h], h, i)
         /\ next[L[h][i]] = Around(L[h], h, i + 1) /\ prev[L[h][i]] = Around(L[h], h, i - 1)
         /\ Agrees(L[h][i]) /\ ~Unlinked(L[h][i])
<1> DEFINE m == Len(L[h])
           A(j) == Around(L[h], h, j)
<1>1. m \in Nat /\ i \in 1..m /\ i \in 0..m /\ i - 1 \in 0..m /\ (i - 1) + 1 = i
  BY SeqFacts
<1>2. L[h][i] = A(i)
  BY <1>1 DEF Around
<1>3. next[A(i)] = A(i + 1) /\ prev[A(i + 1)] = A(i)
  BY <1>1 DEF LinksOf, Linked
<1>4. next[A(i - 1)] = A(i) /\ prev[A(i)] = A(i - 1)
  BY <1>1 DEF LinksOf, Linked
<1>5. A(i + 1) # A(i)
  <2>1. i + 1 \in 1..m + 1 /\ i \in 1..m + 1 /\ i + 1 # i
    BY <1>1
  <2> QED
    BY <2>1, PlacesApart DEF LinksOf
<1> QED
  BY <1>1, <1>2, <1>3, <1>4, <1>5 DEF Agrees, Unlinked

\* A head agrees with its neighbours too.
LEMMA HeadIsLinked ==
  ASSUME NEW L \in ListSeqs, LinksOf(L), NEW h \in Heads
  PROVE  /\ next[h] = Around(L[h], h, 1) /\ prev[h] = Around(L[h], h, Len(L[h]))
         /\ Agrees(h) /\ (next[h] = h <=> L[h] = <<>>)
<1>1. /\ Len(L[h]) \in Nat /\ L[h] \in Seq(Nodes)
      /\ \A i \in 1..Len(L[h]) : L[h][i] # h
  BY SeqFacts
<1>2. Around(L[h], h, 0) = h /\ Around(L[h], h, Len(L[h]) + 1) = h
  BY <1>1 DEF Around
<1>3. /\ next[h] = Around(L[h], h, 1) /\ prev[Around(L[h], h, 1)] = h
      /\ prev[h] = Around(L[h], h, Len(L[h])) /\ next[Around(L[h], h, Len(L[h]))] = h
  <2>1. 0 \in 0..Len(L[h]) /\ Len(L[h]) \in 0..Len(L[h]) /\ 0 + 1 = 1
    BY <1>1
  <2> QED
    BY <1>2, <2>1 DEF LinksOf, Linked
<1>4. next[h] = h <=> L[h] = <<>>
  <2>1. L[h] = <<>> <=> Len(L[h]) = 0
    BY <1>1, EmptySeq
  <2> QED
    BY <1>1, <1>3, <2>1 DEF Around
<1> QED
  BY <1>3, <1>4 DEF Agrees

\* What may be linked still may, when only others are linked to others.
LEMMA UnlinkedKept ==
  ASSUME NEW c \in Cells, Unlinked(c), next \in [Cells -> Cells], prev \in [Cells -> Cells],
         next'[c] = next[c], prev'[c] = prev[c],
         \A x \in Cells : next'[x] = next[x] \/ next'[x] # c,
         \A x \in Cells : prev'[x] = prev[x] \/ prev'[x] # c
  PROVE  Unlinked(c)'
<1>1. next[c] \in Cells /\ prev[c] \in Cells
  OBVIOUS
<1> QED
  BY <1>1 DEF Unlinked, Agrees

\* M is L with n before the node at place k of the list of h.
With(L, M, h, k, n) ==
  /\ \A g \in Heads \ {h} : M[g] = L[g]
  /\ M[h] = [i \in 1..Len(L[h]) + 1 |->
               IF i < k THEN L[h][i] ELSE IF i = k THEN n ELSE L[h][i - 1]]

\* n is linked between p and q.
PutsIn(n, p, q) ==
  /\ next' = [next EXCEPT ![p] = n, ![n] = q]
  /\ prev' = [prev EXCEPT ![n] = p, ![q] = n]

\* list_push() and list_unshift(): n comes to place k.
LEMMA InsertKeepsLinks ==
  ASSUME NEW L \in ListSeqs, LinksOf(L), NEW h \in Heads, NEW n \in Nodes, Unlinked(n),
         NEW k \in 1..Len(L[h]) + 1, NEW M \in ListSeqs, With(L, M, h, k, n),
         NEW p, p = Around(L[h], h, k - 1), NEW q, q = Around(L[h], h, k),
         PutsIn(n, p, q)
  PROVE  LinksOf(M)'
<1> DEFINE m == Len(L[h])
           A(i) == Around(L[h], h, i)
           B(i) == Around(M[h], h, i)
<1>1. m \in Nat /\ k \in Nat /\ k - 1 \in 0..m /\ k \in 1..m + 1 /\ Len(M[h]) = m + 1
      /\ M[h] = [i \in 1..m + 1 |->
                  IF i < k THEN L[h][i] ELSE IF i = k THEN n ELSE L[h][i - 1]]
      /\ p = A(k - 1) /\ q = A(k)
  BY SeqFacts DEF With
<1>2. ~IsIn(L, n)
  BY HeldIsLinked DEF IsIn
<1>3. n \in Cells /\ \A g \in Heads : g # n /\ \A i : Around(L[g], g, i) # n
  <2>1. n \in Cells /\ \A g \in Heads : g # n
    BY HeadsAreNoNodes
  <2>2. \A g \in Heads : \A i \in 1..Len(L[g]) : L[g][i] # n
    BY <1>2, SeqFacts DEF IsIn
  <2> QED
    BY <2>1, <2>2 DEF Around
<1>4. p \in Cells /\ q \in Cells /\ p # n /\ q # n
  <2>1. p = Around(L[h], h, k - 1) /\ q = Around(L[h], h, k)
    OBVIOUS
  <2>2. \A i : Around(L[h], h, i) \in Cells
    BY SeqFacts
  <2> QED
    BY <1>3, <2>1, <2>2
<1>5. /\ next' \in [Cells -> Cells] /\ prev' \in [Cells -> Cells]
      /\ next'[p] = n /\ next'[n] = q /\ \A c \in Cells \ {p, n} : next'[c] = next[c]
      /\ prev'[n] = p /\ prev'[q] = n /\ \A c \in Cells \ {q, n} : prev'[c] = prev[c]
  BY <1>3, <1>4 DEF LinksOf, PutsIn
<1>6. \A i \in 0..m + 2 : B(i) = IF i < k THEN A(i) ELSE IF i = k THEN n ELSE A(i - 1)
  BY <1>1 DEF Around
<1>7. ASSUME NEW i \in 0..m + 1
      PROVE  next'[B(i)] = B(i + 1) /\ prev'[B(i + 1)] = B(i)
  <2> HIDE DEF A, B
  <2>1. CASE i < k - 1
    <3>1. B(i) = A(i) /\ B(i + 1) = A(i + 1) /\ i \in 0..m /\ i + 1 \in 1..m + 1
      BY <1>1, <1>6, <2>1
    <3>2. next[A(i)] = A(i + 1) /\ prev[A(i + 1)] = A(i) /\ A(i) \in Cells /\ A(i + 1) \in Cells
      BY <3>1, SeqFacts DEF LinksOf, Linked, A
    <3>3. A(i) # p /\ A(i) # n /\ A(i + 1) # q /\ A(i + 1) # n
      <4>1. i # k - 1 /\ i + 1 # k
        BY <1>1, <2>1
      <4> QED
        BY <1>1, <1>3, <3>1, <4>1, PlacesApart DEF A, LinksOf
    <3> QED
      BY <1>5, <3>1, <3>2, <3>3
  <2>2. CASE i = k - 1
    <3>1. B(i) = p /\ B(i + 1) = n
      BY <1>1, <1>6, <2>2
    <3> QED
      BY <1>5, <3>1
  <2>3. CASE i = k
    <3>1. B(i) = n /\ B(i + 1) = q
      BY <1>1, <1>6, <2>3
    <3> QED
      BY <1>5, <3>1
  <2>4. CASE i > k
    <3>1. B(i) = A(i - 1) /\ B(i + 1) = A(i) /\ i - 1 \in 0..m /\ i \in 1..m + 1 /\ (i - 1) + 1 = i
      BY <1>1, <1>6, <2>4
    <3>2. next[A(i - 1)] = A(i) /\ prev[A(i)] = A(i - 1) /\ A(i - 1) \in Cells /\ A(i) \in Cells
      <4>1. PICK e \in 0..m : e = i - 1 /\ e + 1 = i
        BY <3>1
      <4>2. next[A(e)] = A(e + 1) /\ prev[A(e + 1)] = A(e) /\ A(e) \in Cells /\ A(e + 1) \in Cells
        BY SeqFacts DEF LinksOf, Linked, A
      <4> QED
        BY <4>1, <4>2
    <3>3. A(i - 1) # p /\ A(i - 1) # n /\ A(i) # q /\ A(i) # n
      <4>1. i - 1 # k - 1 /\ i # k
        BY <1>1, <2>4
      <4> QED
        BY <1>1, <1>3, <3>1, <4>1, PlacesApart DEF A, LinksOf
    <3> QED
      BY <1>5, <3>1, <3>2, <3>3
  <2> QED
    BY <1>1, <2>1, <2>2, <2>3, <2>4
<1>12. \A g \in Heads \ {h} : \A e, f : A(e) # Around(L[g], g, f)
  <2>1. Apart(L)
    BY DEF LinksOf
  <2> QED
    BY <2>1, PlacesApart
<1>8. ASSUME NEW g \in Heads \ {h}, NEW i \in 0..Len(M[g])
      PROVE  /\ next'[Around(M[g], g, i)] = Around(M[g], g, i + 1)
             /\ prev'[Around(M[g], g, i + 1)] = Around(M[g], g, i)
  <2> DEFINE C(j) == Around(L[g], g, j)
  <2>1. M[g] = L[g]
    BY DEF With
  <2>2. next[C(i)] = C(i + 1) /\ prev[C(i + 1)] = C(i) /\ C(i) \in Cells /\ C(i + 1) \in Cells
    BY <2>1, SeqFacts DEF LinksOf, Linked
  <2>3. /\ C(i) # p /\ C(i) # q /\ C(i) # n
        /\ C(i + 1) # p /\ C(i + 1) # q /\ C(i + 1) # n
    <3>1. \A e, f : A(e) # C(f)
      BY <1>12
    <3>2. \A e : C(e) # n
      BY <1>3
    <3>3. p = A(k - 1) /\ q = A(k)
      OBVIOUS
    <3> HIDE DEF A, C
    <3> QED
      BY <3>1, <3>2, <3>3
  <2> HIDE DEF C
  <2>4. next'[C(i)] = C(i + 1) /\ prev'[C(i + 1)] = C(i)
    BY <1>5, <2>2, <2>3
  <2> QED
    BY <2>1, <2>4 DEF C
<1>9. Linked(M)'
  <2>1. ASSUME NEW g \in Heads, NEW i \in 0..Len(M[g])
        PROVE  /\ next'[Around(M[g], g, i)] = Around(M[g], g, i + 1)
               /\ prev'[Around(M[g], g, i + 1)] = Around(M[g], g, i)
    BY <1>1, <1>7, <1>8
  <2> QED
    BY <2>1 DEF Linked
<1>10. Apart(M)
  <2>1. \A i \in 1..m, j \in 1..m : L[h][i] = L[h][j] => i = j
    BY SeqFacts DEF LinksOf, Apart
  <2>2. \A i \in 1..m : L[h][i] # n
    BY <1>2, SeqFacts DEF IsIn
  <2>6. ASSUME NEW i \in DOMAIN M[h]
        PROVE  \/ i < k /\ i \in 1..m /\ M[h][i] = L[h][i]
               \/ i = k /\ M[h][i] = n
               \/ i > k /\ i - 1 \in 1..m /\ M[h][i] = L[h][i - 1]
    BY <1>1
  <2>3. ASSUME NEW i \in DOMAIN M[h], NEW j \in DOMAIN M[h], M[h][i] = M[h][j] PROVE i = j
    <3>1. i \in Nat /\ j \in Nat
      BY <1>1
    <3> QED
      BY <1>1, <2>1, <2>2, <2>3, <2>6, <3>1
  <2>4. ASSUME NEW i \in DOMAIN M[h], NEW g \in Heads \ {h}, NEW j \in DOMAIN M[g]
        PROVE  M[h][i] # M[g][j]
    <3>1. M[g] = L[g] /\ L[g][j] # n
      BY <1>2 DEF IsIn, With
    <3>2. M[h][i] = n \/ \E e \in 1..m : M[h][i] = L[h][e]
      BY <2>6
    <3>3. \A e \in 1..m : L[h][e] # L[g][j]
      BY <3>1, SeqFacts DEF LinksOf, Apart
    <3> QED
      BY <3>1, <3>2, <3>3
  <2>5. ASSUME NEW g \in Heads \ {h}, NEW f \in Heads \ {h}, NEW i \in DOMAIN M[g],
               NEW j \in DOMAIN M[f], M[g][i] = M[f][j]
        PROVE  g = f /\ i = j
    BY <2>5 DEF LinksOf, Apart, With
  <2>7. ASSUME NEW g \in Heads, NEW f \in Heads, NEW i \in DOMAIN M[g], NEW j \in DOMAIN M[f],
               M[g][i] = M[f][j]
        PROVE  g = f /\ i = j
    <3>1. CASE g = h /\ f = h
      BY <2>3, <2>7, <3>1
    <3>2. CASE g = h /\ f # h
      BY <2>4, <2>7, <3>2
    <3>3. CASE g # h /\ f = h
      BY <2>4, <2>7, <3>3
    <3>4. CASE g # h /\ f # h
      BY <2>5, <2>7, <3>4
    <3> QED
      BY <3>1, <3>2, <3>3, <3>4
  <2> QED
    BY <2>7 DEF Apart
<1>11. ASSUME NEW c \in Nodes PROVE IsIn(M, c) \/ Unlinked(c)'
  <2>1. CASE c = n
    <3>1. k \in DOMAIN M[h] /\ M[h][k] = n
      BY <1>1
    <3> QED
      BY <2>1, <3>1 DEF IsIn
  <2>2. CASE IsIn(L, c)
    <3>1. PICK g \in Heads : \E i \in DOMAIN L[g] : L[g][i] = c
      BY <2>2 DEF IsIn
    <3>2. CASE g # h
      BY <3>1, <3>2 DEF IsIn, With
    <3>3. CASE g = h
      <4>1. PICK i \in 1..m : L[h][i] = c
        BY <3>1, <3>3, SeqFacts
      <4>2. (i < k /\ i \in DOMAIN M[h] /\ M[h][i] = c)
              \/ (i >= k /\ i + 1 \in DOMAIN M[h] /\ M[h][i + 1] = c)
        BY <1>1, <4>1
      <4> QED
        BY <4>2 DEF IsIn
    <3> QED
      BY <3>2, <3>3
  <2>3. CASE c # n /\ ~IsIn(L, c)
    <3>1. Unlinked(c) /\ c \in Cells
      BY <2>3, HeadsAreNoNodes DEF LinksOf, Free, Cells
    <3>2. c # p /\ c # q
      <4>1. c \notin Heads /\ \A i \in 1..m : L[h][i] # c
        BY <2>3, SeqFacts, ListAssumption DEF IsIn
      <4> QED
        BY <4>1 DEF Around
    <3>3. /\ next'[c] = next[c] /\ prev'[c] = prev[c]
          /\ \A x \in Cells : next'[x] = next[x] \/ next'[x] # c
          /\ \A x \in Cells : prev'[x] = prev[x] \/ prev'[x] # c
      <4> QED
        BY <1>5, <2>3, <3>1, <3>2
    <3> QED
      BY <3>1, <3>3, UnlinkedKept DEF LinksOf
  <2> QED
    BY <2>1, <2>2, <2>3
<1> QED
  BY <1>5, <1>9, <1>10, <1>11 DEF LinksOf, Free, Apart, IsIn

\* M is L without the node at place k of the list of h.
WithoutAt(L, M, h, k) ==
  /\ \A g \in Heads \ {h} : M[g] = L[g]
  /\ M[h] = [i \in 1..Len(L[h]) - 1 |-> IF i < k THEN L[h][i] ELSE L[h][i + 1]]

\* n is taken out from between p and q, and keeps its links or is linked to
\* itself.
TakesOut(n, p, q) ==
  /\ next' \in [Cells -> Cells] /\ prev' \in [Cells -> Cells]
  /\ next'[p] = q /\ prev'[q] = p
  /\ \A c \in Cells \ {p, n} : next'[c] = next[c]
  /\ \A c \in Cells \ {q, n} : prev'[c] = prev[c]
  /\ \/ next'[n] = n /\ prev'[n] = n
     \/ next'[n] = q /\ prev'[n] = p

\* list_delete(), list_shift() and list_pop(): the node at place k goes.
LEMMA RemoveKeepsLinks ==
  ASSUME NEW L \in ListSeqs, LinksOf(L), NEW h \in Heads, NEW k \in DOMAIN L[h],
         NEW M \in ListSeqs, WithoutAt(L, M, h, k), NEW n, n = L[h][k],
         NEW p, p = Around(L[h], h, k - 1), NEW q, q = Around(L[h], h, k + 1),
         TakesOut(n, p, q)
  PROVE  LinksOf(M)'
<1> DEFINE m == Len(L[h])
           A(i) == Around(L[h], h, i)
           B(i) == Around(M[h], h, i)
<1>1. /\ m \in Nat /\ k \in 1..m /\ k - 1 \in 0..m /\ k + 1 \in 1..m + 1
      /\ m - 1 \in Nat /\ Len(M[h]) = m - 1 /\ DOMAIN M[h] = 1..m - 1
  <2>1. m \in Nat /\ k \in 1..m
    BY SeqFacts
  <2>2. M[h] = [i \in 1..m - 1 |-> IF i < k THEN L[h][i] ELSE L[h][i + 1]] /\ m - 1 \in Nat
    BY <2>1 DEF WithoutAt
  <2> QED
    BY <2>1, <2>2
<1>2. n = A(k) /\ n \in Nodes /\ n \in Cells /\ n \notin Heads
  BY <1>1, SeqFacts DEF Around
<1>3. p \in Cells /\ q \in Cells /\ p # n /\ q # n
  <2>1. p \in Cells /\ q \in Cells
    BY SeqFacts
  <2>2. k - 1 # k /\ k + 1 # k /\ k \in 0..m /\ k \in 1..m + 1
    BY <1>1
  <2> QED
    BY <1>1, <1>2, <2>1, <2>2, PlacesApart DEF LinksOf
<1>4. \A i \in 0..m : B(i) = IF i < k THEN A(i) ELSE A(i + 1)
  <2>1. \A i \in 1..m - 1 : M[h][i] = IF i < k THEN L[h][i] ELSE L[h][i + 1]
    BY <1>1 DEF WithoutAt
  <2> SUFFICES ASSUME NEW i \in 0..m PROVE B(i) = IF i < k THEN A(i) ELSE A(i + 1)
    OBVIOUS
  <2>2. CASE i = 0
    BY <1>1, <2>2 DEF Around
  <2>3. CASE i \in 1..m - 1
    BY <1>1, <2>1, <2>3 DEF Around
  <2>4. CASE i = m
    BY <1>1, <2>4 DEF Around
  <2> QED
    BY <1>1, <2>2, <2>3, <2>4
<1>5. \A i \in 0..m : /\ next[A(i)] = A(i + 1) /\ prev[A(i + 1)] = A(i)
                     /\ A(i) \in Cells /\ A(i + 1) \in Cells
  BY SeqFacts DEF LinksOf, Linked
<1>6. /\ \A i, j \in 0..m : A(i) = A(j) => i = j
      /\ \A i, j \in 1..m + 1 : A(i) = A(j) => i = j
  BY PlacesApart DEF LinksOf
<1>7. \A g \in Heads \ {h} : \A i, j : A(i) # Around(L[g], g, j)
  BY PlacesApart DEF LinksOf
<1>8. ASSUME NEW i \in 0..m - 1
      PROVE  next'[B(i)] = B(i + 1) /\ prev'[B(i + 1)] = B(i)
  <2> HIDE DEF A, B
  <2>0. p = A(k - 1) /\ q = A(k + 1)
    BY DEF A
  <2>1. CASE i < k - 1
    <3>0. i \in 0..m /\ i + 1 \in 1..m + 1 /\ i + 1 \in 0..m /\ i < k /\ i + 1 < k
      BY <1>1, <2>1
    <3>1. B(i) = A(i) /\ B(i + 1) = A(i + 1)
      BY <1>4, <3>0
    <3>2. i # k - 1 /\ i # k /\ i + 1 # k + 1 /\ i + 1 # k
      BY <1>1, <2>1
    <3>3. A(i) # p /\ A(i) # n /\ A(i + 1) # q /\ A(i + 1) # n
      BY <1>1, <1>2, <1>6, <2>0, <3>0, <3>2
    <3> QED
      BY <1>5, <3>0, <3>1, <3>3 DEF TakesOut
  <2>2. CASE i = k - 1
    <3>1. B(i) = A(k - 1) /\ B(i + 1) = A(k + 1)
      BY <1>1, <1>4, <2>2
    <3> QED
      BY <2>0, <3>1 DEF TakesOut
  <2>3. CASE i > k - 1
    <3>1. PICK e \in 0..m : e = i + 1
      BY <1>1
    <3>2. B(i) = A(e) /\ B(i + 1) = A(e + 1) /\ e + 1 \in 1..m + 1 /\ e \in 1..m + 1
      BY <1>1, <1>4, <2>3, <3>1
    <3>3. e # k - 1 /\ e # k /\ e + 1 # k + 1 /\ e + 1 # k
      BY <1>1, <2>3, <3>1
    <3>4. A(e) # p /\ A(e) # n /\ A(e + 1) # q /\ A(e + 1) # n
      BY <1>1, <1>2, <1>6, <2>0, <3>2, <3>3
    <3> QED
      BY <1>5, <3>2, <3>4 DEF TakesOut
  <2> QED
    BY <1>1, <2>1, <2>2, <2>3
<1>9. ASSUME NEW g \in Heads \ {h}, NEW i \in 0..Len(M[g])
      PROVE  /\ next'[Around(M[g], g, i)] = Around(M[g], g, i + 1)
             /\ prev'[Around(M[g], g, i + 1)] = Around(M[g], g, i)
  <2> DEFINE C(j) == Around(L[g], g, j)
  <2>1. M[g] = L[g]
    BY DEF WithoutAt
  <2>2. next[C(i)] = C(i + 1) /\ prev[C(i + 1)] = C(i) /\ C(i) \in Cells /\ C(i + 1) \in Cells
    BY <2>1, SeqFacts DEF LinksOf, Linked
  <2>3. /\ C(i) # p /\ C(i) # q /\ C(i) # n
        /\ C(i + 1) # p /\ C(i + 1) # q /\ C(i + 1) # n
    BY <1>2, <1>7
  <2> HIDE DEF C
  <2>4. next'[C(i)] = C(i + 1) /\ prev'[C(i + 1)] = C(i)
    BY <2>2, <2>3 DEF TakesOut
  <2> QED
    BY <2>1, <2>4 DEF C
<1>10. Linked(M)'
  <2>1. ASSUME NEW g \in Heads, NEW i \in 0..Len(M[g])
        PROVE  /\ next'[Around(M[g], g, i)] = Around(M[g], g, i + 1)
               /\ prev'[Around(M[g], g, i + 1)] = Around(M[g], g, i)
    BY <1>1, <1>8, <1>9
  <2> QED
    BY <2>1 DEF Linked
\* Where a node of the list was before.
<1> DEFINE was(i) == IF i < k THEN i ELSE i + 1
<1>11. ASSUME NEW i \in DOMAIN M[h]
       PROVE  /\ was(i) \in DOMAIN L[h] /\ M[h][i] = L[h][was(i)]
              /\ \A j \in DOMAIN M[h] : was(i) = was(j) => i = j
  BY <1>1, SeqFacts DEF WithoutAt
<1> HIDE DEF was
<1>12. Apart(M)
  <2>1. ASSUME NEW i \in DOMAIN M[h], NEW j \in DOMAIN M[h], M[h][i] = M[h][j] PROVE i = j
    <3>1. was(i) = was(j)
      BY <1>11, <2>1 DEF LinksOf, Apart
    <3> QED
      BY <1>11, <3>1
  <2>2. ASSUME NEW i \in DOMAIN M[h], NEW g \in Heads \ {h}, NEW j \in DOMAIN M[g]
        PROVE  M[h][i] # M[g][j]
    <3>1. M[g] = L[g] /\ \A e \in DOMAIN L[h] : L[h][e] # L[g][j]
      BY DEF LinksOf, Apart, WithoutAt
    <3> QED
      BY <1>11, <3>1
  <2>3. ASSUME NEW g \in Heads \ {h}, NEW f \in Heads \ {h}, NEW i \in DOMAIN M[g],
               NEW j \in DOMAIN M[f], M[g][i] = M[f][j]
        PROVE  g = f /\ i = j
    BY <2>3 DEF LinksOf, Apart, WithoutAt
  <2>4. ASSUME NEW g \in Heads, NEW f \in Heads, NEW i \in DOMAIN M[g], NEW j \in DOMAIN M[f],
               M[g][i] = M[f][j]
        PROVE  g = f /\ i = j
    <3>1. CASE g = h /\ f = h
      BY <2>1, <2>4, <3>1
    <3>2. CASE g = h /\ f # h
      BY <2>2, <2>4, <3>2
    <3>3. CASE g # h /\ f = h
      BY <2>2, <2>4, <3>3
    <3>4. CASE g # h /\ f # h
      BY <2>3, <2>4, <3>4
    <3> QED
      BY <3>1, <3>2, <3>3, <3>4
  <2> QED
    BY <2>4 DEF Apart
<1>13. ASSUME NEW c \in Nodes PROVE IsIn(M, c) \/ Unlinked(c)'
  <2>1. CASE c = n
    <3>1. CASE next'[n] = n
      BY <2>1, <3>1 DEF Unlinked
    <3>2. CASE next'[n] = q /\ prev'[n] = p
      BY <1>3, <2>1, <3>2 DEF Unlinked, Agrees, TakesOut
    <3> QED
      BY <3>1, <3>2 DEF TakesOut
  <2>2. CASE IsIn(L, c) /\ c # n
    <3>1. PICK g \in Heads : \E i \in DOMAIN L[g] : L[g][i] = c
      BY <2>2 DEF IsIn
    <3>2. CASE g # h
      BY <3>1, <3>2 DEF IsIn, WithoutAt
    <3>3. CASE g = h
      <4>1. PICK i \in 1..m : L[h][i] = c /\ i # k
        BY <2>2, <3>1, <3>3, SeqFacts
      <4>2. (i < k /\ i \in DOMAIN M[h] /\ M[h][i] = c)
              \/ (i > k /\ i - 1 \in DOMAIN M[h] /\ M[h][i - 1] = c)
        BY <1>1, <4>1 DEF WithoutAt
      <4> QED
        BY <4>2 DEF IsIn
    <3> QED
      BY <3>2, <3>3
  <2>3. CASE c # n /\ ~IsIn(L, c)
    <3>1. Unlinked(c) /\ c \in Cells
      BY <2>3, HeadsAreNoNodes DEF LinksOf, Free, Cells
    <3>2. c # p /\ c # q
      <4>1. c \notin Heads /\ \A i \in 1..m : L[h][i] # c
        BY <2>3, SeqFacts, ListAssumption DEF IsIn
      <4> QED
        BY <4>1 DEF Around
    <3>3. /\ next'[c] = next[c] /\ prev'[c] = prev[c]
          /\ \A x \in Cells : next'[x] = next[x] \/ next'[x] # c
          /\ \A x \in Cells : prev'[x] = prev[x] \/ prev'[x] # c
      BY <2>3, <3>1, <3>2 DEF TakesOut
    <3> QED
      BY <3>1, <3>3, UnlinkedKept DEF LinksOf
  <2> QED
    BY <2>1, <2>2, <2>3
<1> QED
  BY <1>10, <1>12, <1>13 DEF LinksOf, Free, Apart, IsIn, TakesOut

\* M is L with n at place k of the list of h.
InPlace(L, M, h, k, n) ==
  /\ \A g \in Heads \ {h} : M[g] = L[g]
  /\ M[h] = [L[h] EXCEPT ![k] = n]

\* n is linked between p and q, where o was, and o is linked to itself.
PutsFor(o, n, p, q) ==
  /\ next' \in [Cells -> Cells] /\ prev' \in [Cells -> Cells]
  /\ next'[p] = n /\ next'[n] = q /\ next'[o] = o
  /\ prev'[q] = n /\ prev'[n] = p /\ prev'[o] = o
  /\ \A c \in Cells \ {p, n, o} : next'[c] = next[c]
  /\ \A c \in Cells \ {q, n, o} : prev'[c] = prev[c]

\* list_replace(): n takes the place k of o.
LEMMA ReplaceKeepsLinks ==
  ASSUME NEW L \in ListSeqs, LinksOf(L), NEW h \in Heads, NEW k \in DOMAIN L[h],
         NEW n \in Nodes, Unlinked(n), NEW M \in ListSeqs, InPlace(L, M, h, k, n),
         NEW o, o = L[h][k],
         NEW p, p = Around(L[h], h, k - 1), NEW q, q = Around(L[h], h, k + 1),
         PutsFor(o, n, p, q)
  PROVE  LinksOf(M)'
<1> DEFINE m == Len(L[h])
           A(i) == Around(L[h], h, i)
           B(i) == Around(M[h], h, i)
<1>1. /\ m \in Nat /\ k \in 1..m /\ k - 1 \in 0..m /\ k + 1 \in 1..m + 1
      /\ DOMAIN L[h] = 1..m /\ Len(M[h]) = m /\ DOMAIN M[h] = 1..m
      /\ \A i \in 1..m : M[h][i] = IF i = k THEN n ELSE L[h][i]
  <2>1. m \in Nat /\ k \in 1..m /\ DOMAIN L[h] = 1..m /\ L[h] \in Seq(Nodes)
    BY SeqFacts
  <2>2. M[h] = [i \in 1..m |-> IF i = k THEN n ELSE L[h][i]]
    BY <2>1 DEF InPlace
  <2> QED
    BY <2>1, <2>2
<1>2. o = A(k) /\ o \in Nodes /\ o \in Cells /\ o \notin Heads
  BY <1>1, SeqFacts DEF Around
<1>3. ~IsIn(L, n) /\ n # o
  BY HeldIsLinked DEF IsIn
<1>4. n \in Cells /\ \A g \in Heads : g # n /\ \A i : Around(L[g], g, i) # n
  <2>1. n \in Cells /\ \A g \in Heads : g # n
    BY HeadsAreNoNodes
  <2>2. \A g \in Heads : \A i \in 1..Len(L[g]) : L[g][i] # n
    BY <1>3, SeqFacts DEF IsIn
  <2> QED
    BY <2>1, <2>2 DEF Around
<1>5. p \in Cells /\ q \in Cells /\ p # o /\ q # o /\ p # n /\ q # n
  <2>1. p \in Cells /\ q \in Cells /\ p # n /\ q # n
    BY <1>4, SeqFacts
  <2>2. k - 1 # k /\ k + 1 # k /\ k \in 0..m /\ k \in 1..m + 1
    BY <1>1
  <2> QED
    BY <1>1, <1>2, <2>1, <2>2, PlacesApart DEF LinksOf
<1>6. \A i \in 0..m + 1 : B(i) = IF i = k THEN n ELSE A(i)
  BY <1>1 DEF Around
<1>7. \A i \in 0..m : /\ next[A(i)] = A(i + 1) /\ prev[A(i + 1)] = A(i)
                     /\ A(i) \in Cells /\ A(i + 1) \in Cells
  BY SeqFacts DEF LinksOf, Linked
<1>8. /\ \A i, j \in 0..m : A(i) = A(j) => i = j
      /\ \A i, j \in 1..m + 1 : A(i) = A(j) => i = j
      /\ \A g \in Heads \ {h} : \A i, j : A(i) # Around(L[g], g, j)
  BY PlacesApart DEF LinksOf
<1>9. ASSUME NEW i \in 0..m
      PROVE  next'[B(i)] = B(i + 1) /\ prev'[B(i + 1)] = B(i)
  <2> HIDE DEF A, B
  <2>0. p = A(k - 1) /\ q = A(k + 1) /\ i \in 0..m + 1 /\ i + 1 \in 1..m + 1 /\ i + 1 \in 0..m + 1
    BY <1>1 DEF A
  <2>1. CASE i = k - 1
    <3>1. B(i) = A(k - 1) /\ B(i + 1) = n
      BY <1>1, <1>6, <2>0, <2>1
    <3> QED
      BY <2>0, <3>1 DEF PutsFor
  <2>2. CASE i = k
    <3>1. B(i) = n /\ B(i + 1) = A(k + 1)
      BY <1>1, <1>6, <2>0, <2>2
    <3> QED
      BY <2>0, <3>1 DEF PutsFor
  <2>3. CASE i # k - 1 /\ i # k
    <3>1. i + 1 # k /\ i + 1 # k + 1 /\ k \in 0..m /\ k \in 1..m + 1
      BY <1>1, <2>3
    <3>2. B(i) = A(i) /\ B(i + 1) = A(i + 1)
      BY <1>6, <2>0, <2>3, <3>1
    <3>3. A(i) # p /\ A(i) # o /\ A(i + 1) # q /\ A(i + 1) # o
      BY <1>1, <1>2, <1>8, <2>0, <2>3, <3>1
    <3>4. A(i) # n /\ A(i + 1) # n
      BY <1>4 DEF A
    <3> QED
      BY <1>7, <3>2, <3>3, <3>4 DEF PutsFor
  <2> QED
    BY <2>1, <2>2, <2>3
<1>10. ASSUME NEW g \in Heads \ {h}, NEW i \in 0..Len(M[g])
       PROVE  /\ next'[Around(M[g], g, i)] = Around(M[g], g, i + 1)
              /\ prev'[Around(M[g], g, i + 1)] = Around(M[g], g, i)
  <2> DEFINE C(j) == Around(L[g], g, j)
  <2>1. M[g] = L[g]
    BY DEF InPlace
  <2>2. next[C(i)] = C(i + 1) /\ prev[C(i + 1)] = C(i) /\ C(i) \in Cells /\ C(i + 1) \in Cells
    BY <2>1, SeqFacts DEF LinksOf, Linked
  <2>3. /\ C(i) # p /\ C(i) # q /\ C(i) # o /\ C(i) # n
        /\ C(i + 1) # p /\ C(i + 1) # q /\ C(i + 1) # o /\ C(i + 1) # n
    BY <1>2, <1>4, <1>8
  <2> HIDE DEF C
  <2>4. next'[C(i)] = C(i + 1) /\ prev'[C(i + 1)] = C(i)
    BY <2>2, <2>3 DEF PutsFor
  <2> QED
    BY <2>1, <2>4 DEF C
<1>11. Linked(M)'
  <2>1. ASSUME NEW g \in Heads, NEW i \in 0..Len(M[g])
        PROVE  /\ next'[Around(M[g], g, i)] = Around(M[g], g, i + 1)
               /\ prev'[Around(M[g], g, i + 1)] = Around(M[g], g, i)
    BY <1>1, <1>9, <1>10
  <2> QED
    BY <2>1 DEF Linked
<1>12. \A g \in Heads : \A i \in DOMAIN M[g] :
         i \in DOMAIN L[g] /\ M[g][i] = IF g = h /\ i = k THEN n ELSE L[g][i]
  BY <1>1 DEF InPlace
<1>13. Apart(M)
  <2>1. \A g \in Heads : \A i \in DOMAIN L[g] : L[g][i] # n
    BY <1>3 DEF IsIn
  <2>2. ASSUME NEW g \in Heads, NEW f \in Heads, NEW i \in DOMAIN M[g], NEW j \in DOMAIN M[f],
               M[g][i] = M[f][j]
        PROVE  g = f /\ i = j
    BY <1>12, <2>1, <2>2 DEF LinksOf, Apart
  <2> QED
    BY <2>2 DEF Apart
<1>14. ASSUME NEW c \in Nodes PROVE IsIn(M, c) \/ Unlinked(c)'
  <2>1. CASE c = o
    BY <2>1 DEF Unlinked, PutsFor
  <2>2. CASE c = n
    <3>1. k \in DOMAIN M[h] /\ M[h][k] = n
      BY <1>1
    <3> QED
      BY <2>2, <3>1 DEF IsIn
  <2>3. CASE IsIn(L, c) /\ c # o
    <3>1. PICK g \in Heads : \E i \in DOMAIN L[g] : L[g][i] = c
      BY <2>3 DEF IsIn
    <3>2. PICK i \in DOMAIN L[g] : L[g][i] = c
      BY <3>1
    <3>3. i \in DOMAIN M[g] /\ M[g][i] = c
      BY <1>1, <2>3, <3>2 DEF InPlace
    <3> QED
      BY <3>3 DEF IsIn
  <2>4. CASE c # n /\ ~IsIn(L, c)
    <3>1. Unlinked(c) /\ c \in Cells
      BY <2>4, HeadsAreNoNodes DEF LinksOf, Free, Cells
    <3>2. c # p /\ c # q /\ c # o
      <4>1. c \notin Heads /\ \A i \in 1..m : L[h][i] # c
        BY <2>4, SeqFacts, ListAssumption DEF IsIn
      <4> QED
        BY <1>1, <4>1 DEF Around
    <3>3. /\ next'[c] = next[c] /\ prev'[c] = prev[c]
          /\ \A x \in Cells : next'[x] = next[x] \/ next'[x] # c
          /\ \A x \in Cells : prev'[x] = prev[x] \/ prev'[x] # c
      BY <2>4, <3>1, <3>2 DEF PutsFor
    <3> QED
      BY <3>1, <3>3, UnlinkedKept DEF LinksOf
  <2> QED
    BY <2>1, <2>2, <2>3, <2>4
<1> QED
  BY <1>11, <1>13, <1>14 DEF LinksOf, Free, Apart, IsIn, PutsFor

\* list_delete() of a node that is in no list: only its own links change.
LEMMA IdleKeepsLinks ==
  ASSUME NEW L \in ListSeqs, LinksOf(L), NEW n \in Nodes, ~IsIn(L, n),
         Agrees(n) \/ LeftAlone(n), Delete(n)
  PROVE  LinksOf(L)'
<1>1. next \in [Cells -> Cells] /\ prev \in [Cells -> Cells] /\ n \in Cells
  BY HeadsAreNoNodes, ListAssumption DEF LinksOf, Cells
<1>2. Unlinked(n)
  BY DEF LinksOf, Free
<1>3. next[n] \in Cells /\ prev[n] \in Cells
  BY <1>1
<1>4. (next[n] = n /\ prev[n] = n) \/ (next[prev[n]] = next[n] /\ prev[next[n]] = prev[n])
  BY <1>2 DEF Unlinked, Agrees, LeftAlone
<1>5. /\ next' \in [Cells -> Cells] /\ prev' \in [Cells -> Cells]
      /\ next'[n] = n /\ prev'[n] = n
      /\ \A c \in Cells \ {n} : next'[c] = next[c] /\ prev'[c] = prev[c]
  BY <1>1, <1>3, <1>4 DEF Delete
<1>6. \A g \in Heads : \A i : Around(L[g], g, i) # n /\ Around(L[g], g, i) \in Cells
  <2>1. \A g \in Heads : g # n
    BY HeadsAreNoNodes
  <2>2. \A g \in Heads : \A i \in 1..Len(L[g]) : L[g][i] # n
    BY SeqFacts DEF IsIn
  <2> QED
    BY <2>1, <2>2, SeqFacts DEF Around
<1>7. Linked(L)'
  BY <1>5, <1>6 DEF LinksOf, Linked
<1>8. ASSUME NEW c \in Nodes PROVE IsIn(L, c) \/ Unlinked(c)'
  <2>1. CASE c = n
    BY <1>5, <2>1 DEF Unlinked
  <2>2. CASE c # n /\ ~IsIn(L, c)
    <3>1. Unlinked(c) /\ c \in Cells
      BY <2>2, HeadsAreNoNodes DEF LinksOf, Free, Cells
    <3>2. /\ next'[c] = next[c] /\ prev'[c] = prev[c]
          /\ \A x \in Cells : next'[x] = next[x] \/ next'[x] # c
          /\ \A x \in Cells : prev'[x] = prev[x] \/ prev'[x] # c
      BY <1>5, <2>2, <3>1
    <3> QED
      BY <1>1, <3>1, <3>2, UnlinkedKept
  <2> QED
    BY <2>1, <2>2
<1> QED
  BY <1>5, <1>7, <1>8 DEF LinksOf, Free, Apart, IsIn

LEMMA LinksInit == ListInit => LinksOf([h \in Heads |-> <<>>])
<1> DEFINE L == [h \in Heads |-> <<>>]
<1>1. \A h \in Heads : L[h] = <<>> /\ Len(L[h]) = 0
  OBVIOUS
<1> HIDE DEF L
<1>2. \A h \in Heads : \A i : Around(L[h], h, i) = h
  BY <1>1 DEF Around
<1> SUFFICES ASSUME ListInit PROVE LinksOf(L)
  BY DEF L
<1>3. next = [c \in Cells |-> c] /\ prev = [c \in Cells |-> c]
  BY DEF ListInit
<1>4. Heads \subseteq Cells /\ Nodes \subseteq Cells
  BY DEF Cells
<1> QED
  BY <1>1, <1>2, <1>3, <1>4 DEF LinksOf, Linked, Apart, Free, Unlinked

LEMMA PushLinks ==
  ASSUME NEW L \in ListSeqs, LinksOf(L), NEW h \in Heads, NEW n \in Nodes, ListPush(h, n)
  PROVE  LinksOf([L EXCEPT ![h] = Append(L[h], n)])'
<1> DEFINE m == Len(L[h])
           M == [L EXCEPT ![h] = Append(L[h], n)]
<1>1. /\ m \in Nat /\ L[h] \in Seq(Nodes) /\ L \in [Heads -> Seq(Nodes)]
      /\ m + 1 \in 1..m + 1 /\ (m + 1) - 1 = m /\ m + 1 \notin 1..m
  BY SeqFacts DEF ListSeqs
<1>2. PICK k \in 1..m + 1 : k = m + 1 /\ k - 1 = m /\ k \notin 1..m
  BY <1>1
<1>3. M \in ListSeqs /\ \A g \in Heads \ {h} : M[g] = L[g]
  BY <1>1 DEF ListSeqs
<1>4. M[h] = [i \in 1..m + 1 |-> IF i < k THEN L[h][i] ELSE IF i = k THEN n ELSE L[h][i - 1]]
  <2>1. /\ Append(L[h], n) \in Seq(Nodes) /\ Len(Append(L[h], n)) = m + 1
        /\ \A i \in 1..m : Append(L[h], n)[i] = L[h][i]
        /\ Append(L[h], n)[m + 1] = n
    BY <1>1
  <2>2. Append(L[h], n) = [i \in 1..m + 1 |-> Append(L[h], n)[i]]
    BY <2>1
  <2>3. \A i \in 1..m + 1 : (i < k /\ i \in 1..m) \/ i = m + 1
    BY <1>1, <1>2
  <2>4. M[h] = Append(L[h], n)
    BY <1>1
  <2> HIDE DEF M
  <2> QED
    BY <1>2, <2>1, <2>2, <2>3, <2>4
<1>5. prev[h] = Around(L[h], h, k - 1) /\ h = Around(L[h], h, k)
  BY <1>2, HeadIsLinked DEF Around
<1>6. /\ next' = [next EXCEPT ![Around(L[h], h, k - 1)] = n, ![n] = Around(L[h], h, k)]
      /\ prev' = [prev EXCEPT ![n] = Around(L[h], h, k - 1), ![Around(L[h], h, k)] = n]
      /\ Unlinked(n)
  BY <1>5 DEF ListPush
<1> HIDE DEF M
<1>7. LinksOf(M)'
  <2>1. PutsIn(n, Around(L[h], h, k - 1), Around(L[h], h, k))
    BY <1>6 DEF PutsIn
  <2> HIDE DEF M
  <2>2. With(L, M, h, k, n)
    BY <1>3, <1>4 DEF With
  <2> QED
    BY <1>3, <1>6, <2>1, <2>2, InsertKeepsLinks
<1> QED
  BY <1>7 DEF M

LEMMA UnshiftLinks ==
  ASSUME NEW L \in ListSeqs, LinksOf(L), NEW h \in Heads, NEW n \in Nodes, ListUnshift(h, n)
  PROVE  LinksOf([L EXCEPT ![h] = <<n>> \o L[h]])'
<1> DEFINE m == Len(L[h])
           M == [L EXCEPT ![h] = <<n>> \o L[h]]
<1>1. m \in Nat /\ L[h] \in Seq(Nodes) /\ L \in [Heads -> Seq(Nodes)]
  BY SeqFacts DEF ListSeqs
<1>2. PICK k \in 1..m + 1 : k = 1 /\ k - 1 = 0 /\ k - 1 \notin 1..m
  BY <1>1
<1>3. M \in ListSeqs /\ \A g \in Heads \ {h} : M[g] = L[g]
  <2>1. <<n>> \o L[h] \in Seq(Nodes)
    BY <1>1
  <2> QED
    BY <1>1, <2>1 DEF ListSeqs
<1>4. M[h] = [i \in 1..m + 1 |-> IF i < k THEN L[h][i] ELSE IF i = k THEN n ELSE L[h][i - 1]]
  BY <1>1, <1>2
<1>5. next[h] = Around(L[h], h, k) /\ h = Around(L[h], h, k - 1)
  BY <1>2, HeadIsLinked DEF Around
<1>6. n # h /\ n # next[h] /\ Unlinked(n)
  BY HeadsAreNoNodes, HeldIsLinked, SeqFacts, <1>1, <1>2, <1>5 DEF ListUnshift, Around
<1>7. /\ next' = [next EXCEPT ![Around(L[h], h, k - 1)] = n, ![n] = Around(L[h], h, k)]
      /\ prev' = [prev EXCEPT ![n] = Around(L[h], h, k - 1), ![Around(L[h], h, k)] = n]
  <2>1. next \in [Cells -> Cells] /\ prev \in [Cells -> Cells]
    BY DEF LinksOf
  <2>2. /\ next' = [next EXCEPT ![n] = next[h], ![h] = n]
        /\ prev' = [prev EXCEPT ![next[h]] = n, ![n] = h]
    BY DEF ListUnshift
  <2>3. next' = [next EXCEPT ![h] = n, ![n] = next[h]]
    BY <1>6, <2>1, <2>2
  <2>4. prev' = [prev EXCEPT ![n] = h, ![next[h]] = n]
    BY <1>6, <2>1, <2>2
  <2> QED
    BY <1>5, <2>3, <2>4
<1> HIDE DEF M
<1>8. LinksOf(M)'
  <2>1. PutsIn(n, Around(L[h], h, k - 1), Around(L[h], h, k))
    BY <1>7 DEF PutsIn
  <2> HIDE DEF M
  <2>2. With(L, M, h, k, n)
    BY <1>3, <1>4 DEF With
  <2> QED
    BY <1>3, <1>6, <2>1, <2>2, InsertKeepsLinks
<1> QED
  BY <1>8 DEF M

\* The sequences without the node at place k of the list of h.
CutIn(L, h, k) ==
  [L EXCEPT ![h] = [i \in 1..Len(L[h]) - 1 |-> IF i < k THEN L[h][i] ELSE L[h][i + 1]]]

LEMMA CutFacts ==
  ASSUME NEW L \in ListSeqs, NEW h \in Heads, NEW k \in DOMAIN L[h]
  PROVE  CutIn(L, h, k) \in ListSeqs /\ WithoutAt(L, CutIn(L, h, k), h, k)
<1>1. /\ Len(L[h]) \in Nat /\ k \in 1..Len(L[h]) /\ L \in [Heads -> Seq(Nodes)]
      /\ \A i \in 1..Len(L[h]) : L[h][i] \in Nodes
  BY SeqFacts DEF ListSeqs
<1> DEFINE s == [i \in 1..Len(L[h]) - 1 |-> IF i < k THEN L[h][i] ELSE L[h][i + 1]]
<1>2. s \in Seq(Nodes)
  <2>1. Len(L[h]) - 1 \in Nat
    BY <1>1
  <2>2. \A i \in 1..Len(L[h]) - 1 : (IF i < k THEN L[h][i] ELSE L[h][i + 1]) \in Nodes
    BY <1>1
  <2> QED
    BY <2>1, <2>2
<1> HIDE DEF s
<1>3. [L EXCEPT ![h] = s] \in [Heads -> Seq(Nodes)]
  BY <1>1, <1>2
<1>4. [L EXCEPT ![h] = s][h] = s /\ \A g \in Heads \ {h} : [L EXCEPT ![h] = s][g] = L[g]
  BY <1>1
<1> QED
  BY <1>3, <1>4 DEF CutIn, WithoutAt, ListSeqs, s

LEMMA ShiftLinks ==
  ASSUME NEW L \in ListSeqs, LinksOf(L), NEW h \in Heads, ListShift(h), next[h] # h
  PROVE  /\ 1 \in DOMAIN L[h] /\ got' = L[h][1]
         /\ LinksOf(CutIn(L, h, 1))'
<1> DEFINE m == Len(L[h])
<1>1. m \in Nat /\ L[h] \in Seq(Nodes)
  BY SeqFacts
<1>2. PICK k \in 1..m : k = 1 /\ k - 1 = 0 /\ k - 1 \notin 1..m
  BY <1>1, HeadIsLinked DEF Around
<1>3. k \in DOMAIN L[h] /\ L[h][k] = next[h] /\ L[h][k] # h /\ L[h][k] \in Cells
  BY <1>1, <1>2, HeadIsLinked, SeqFacts DEF Around
<1> DEFINE n == L[h][k]
           q == Around(L[h], h, k + 1)
<1>4. /\ next[n] = q /\ prev[n] = Around(L[h], h, k - 1) /\ h = Around(L[h], h, k - 1)
      /\ q \in Cells /\ h \in Cells /\ q # n
  <2>1. k + 1 \in 1..m + 1 /\ k \in 1..m + 1 /\ k + 1 # k
    BY <1>1, <1>2
  <2>2. q # n
    BY <1>3, <2>1, HeldIsLinked, PlacesApart DEF LinksOf
  <2> QED
    BY <1>2, <1>3, <2>2, HeldIsLinked, SeqFacts DEF Around
<1> HIDE DEF n, q
<1>5. TakesOut(n, h, q)
  <2>1. next \in [Cells -> Cells] /\ prev \in [Cells -> Cells]
    BY DEF LinksOf
  <2>2. next' = [next EXCEPT ![h] = q] /\ prev' = [prev EXCEPT ![q] = h]
    BY <1>3, <1>4 DEF ListShift, n
  <2> QED
    BY <1>3, <1>4, <2>1, <2>2 DEF TakesOut, n
<1>6. LinksOf(CutIn(L, h, k))'
  <2>1. CutIn(L, h, k) \in ListSeqs /\ WithoutAt(L, CutIn(L, h, k), h, k)
    BY <1>3, CutFacts
  <2> QED
    BY <1>3, <1>4, <1>5, <2>1, RemoveKeepsLinks DEF n, q
<1> QED
  BY <1>2, <1>3, <1>6 DEF ListShift, n

LEMMA PopLinks ==
  ASSUME NEW L \in ListSeqs, LinksOf(L), NEW h \in Heads, ListPop(h), next[h] # h
  PROVE  /\ Len(L[h]) \in DOMAIN L[h] /\ got' = L[h][Len(L[h])]
         /\ LinksOf(CutIn(L, h, Len(L[h])))'
<1> DEFINE m == Len(L[h])
<1>1. m \in Nat /\ L[h] \in Seq(Nodes)
  BY SeqFacts
<1>2. PICK k \in 1..m : k = m /\ k + 1 \notin 1..m
  BY <1>1, HeadIsLinked DEF Around
<1>3. k \in DOMAIN L[h] /\ L[h][k] = prev[h] /\ L[h][k] # h /\ L[h][k] \in Cells
  BY <1>1, <1>2, HeadIsLinked, SeqFacts DEF Around
<1> DEFINE n == L[h][k]
           p == Around(L[h], h, k - 1)
<1>4. /\ prev[n] = p /\ next[n] = Around(L[h], h, k + 1) /\ h = Around(L[h], h, k + 1)
      /\ p \in Cells /\ h \in Cells /\ p # n
  <2>1. k - 1 \in 0..m /\ k \in 0..m /\ k - 1 # k
    BY <1>1, <1>2
  <2>2. p # n
    BY <1>3, <2>1, HeldIsLinked, PlacesApart DEF LinksOf
  <2> QED
    BY <1>2, <1>3, <2>2, HeldIsLinked, SeqFacts DEF Around
<1> HIDE DEF n, p
<1>5. TakesOut(n, p, h)
  <2>1. next \in [Cells -> Cells] /\ prev \in [Cells -> Cells]
    BY DEF LinksOf
  <2>2. next' = [next EXCEPT ![p] = h] /\ prev' = [prev EXCEPT ![h] = p]
    BY <1>3, <1>4 DEF ListPop, n
  <2> QED
    BY <1>3, <1>4, <2>1, <2>2 DEF TakesOut, n
<1>6. LinksOf(CutIn(L, h, k))'
  <2>1. CutIn(L, h, k) \in ListSeqs /\ WithoutAt(L, CutIn(L, h, k), h, k)
    BY <1>3, CutFacts
  <2> QED
    BY <1>3, <1>4, <1>5, <2>1, RemoveKeepsLinks DEF n, p
<1> QED
  BY <1>2, <1>3, <1>6 DEF ListPop, n

LEMMA DeleteLinks ==
  ASSUME NEW L \in ListSeqs, LinksOf(L), NEW h \in Heads, NEW k \in DOMAIN L[h],
         NEW n, n = L[h][k], Delete(n)
  PROVE  LinksOf(CutIn(L, h, k))'
<1> DEFINE p == Around(L[h], h, k - 1)
           q == Around(L[h], h, k + 1)
<1>1. /\ prev[n] = p /\ next[n] = q /\ p \in Cells /\ q \in Cells /\ n \in Cells
      /\ p # n /\ q # n
  <2>1. /\ Len(L[h]) \in Nat /\ k \in 1..Len(L[h]) /\ k - 1 \in 0..Len(L[h]) /\ k \in 0..Len(L[h])
        /\ k + 1 \in 1..Len(L[h]) + 1 /\ k \in 1..Len(L[h]) + 1 /\ k - 1 # k /\ k + 1 # k
    BY SeqFacts
  <2>2. p # n /\ q # n
    BY <2>1, HeldIsLinked, PlacesApart DEF LinksOf
  <2>3. prev[n] = p /\ next[n] = q
    BY HeldIsLinked
  <2>4. p \in Cells /\ q \in Cells /\ n \in Cells
    BY <2>1, SeqFacts
  <2> QED
    BY <2>2, <2>3, <2>4
<1> HIDE DEF p, q
<1>2. TakesOut(n, p, q)
  BY <1>1 DEF LinksOf, Delete, TakesOut
<1>3. CutIn(L, h, k) \in ListSeqs /\ WithoutAt(L, CutIn(L, h, k), h, k)
  BY CutFacts
<1> QED
  BY <1>2, <1>3, RemoveKeepsLinks DEF p, q

LEMMA ReplaceLinks ==
  ASSUME NEW L \in ListSeqs, LinksOf(L), NEW h \in Heads, NEW k \in DOMAIN L[h],
         NEW o, o = L[h][k], NEW n \in Nodes, ListReplace(o, n)
  PROVE  /\ [L EXCEPT ![h][k] = n] \in ListSeqs
         /\ LinksOf([L EXCEPT ![h][k] = n])'
<1> DEFINE p == Around(L[h], h, k - 1)
           q == Around(L[h], h, k + 1)
           M == [L EXCEPT ![h][k] = n]
<1>1. /\ prev[o] = p /\ next[o] = q /\ p \in Cells /\ q \in Cells /\ o \in Cells
      /\ p # o /\ q # o /\ Agrees(o)
  <2>1. /\ Len(L[h]) \in Nat /\ k \in 1..Len(L[h]) /\ k - 1 \in 0..Len(L[h]) /\ k \in 0..Len(L[h])
        /\ k + 1 \in 1..Len(L[h]) + 1 /\ k \in 1..Len(L[h]) + 1 /\ k - 1 # k /\ k + 1 # k
    BY SeqFacts
  <2>2. p # o /\ q # o
    BY <2>1, HeldIsLinked, PlacesApart DEF LinksOf
  <2>3. prev[o] = p /\ next[o] = q /\ Agrees(o)
    BY HeldIsLinked
  <2>4. p \in Cells /\ q \in Cells /\ o \in Cells
    BY <2>1, SeqFacts
  <2> QED
    BY <2>2, <2>3, <2>4
<1>2. Unlinked(n) /\ n # o /\ n # p /\ n # q /\ n \in Cells
  <2>1. Unlinked(n) /\ n \in Cells
    BY HeadsAreNoNodes DEF ListReplace
  <2>2. \A g \in Heads : g # n /\ \A i \in 1..Len(L[g]) : L[g][i] # n
    BY <2>1, HeadsAreNoNodes, HeldIsLinked, SeqFacts
  <2> QED
    BY <2>1, <2>2, SeqFacts DEF Around
<1>3. M \in ListSeqs /\ InPlace(L, M, h, k, n)
  <2>1. L \in [Heads -> Seq(Nodes)] /\ L[h] \in Seq(Nodes)
    BY DEF ListSeqs
  <2>2. [L[h] EXCEPT ![k] = n] \in Seq(Nodes)
    BY <2>1
  <2> QED
    BY <2>1, <2>2 DEF ListSeqs, InPlace
<1> HIDE DEF p, q, M
<1>4. PutsFor(o, n, p, q)
  <2>1. next \in [Cells -> Cells] /\ prev \in [Cells -> Cells]
    BY DEF LinksOf
  <2>2. /\ next' = [next EXCEPT ![n] = q, ![p] = n, ![o] = o]
        /\ prev' = [prev EXCEPT ![n] = p, ![q] = n, ![o] = o]
    BY <1>1 DEF ListReplace
  <2> QED
    BY <1>1, <1>2, <2>1, <2>2 DEF PutsFor
<1>5. LinksOf(M)'
  BY <1>2, <1>3, <1>4, ReplaceKeepsLinks DEF p, q
<1> QED
  BY <1>3, <1>5 DEF M

-----------------------------------------------------------------------------
(* The steps of the links are those of the sequences (src/list.c:70-132)   *)

LEMMA SeqIs ==
  ASSUME NEW t \in Seq(Nodes), NEW n, Len(t) = n
  PROVE  t = [i \in 1..n |-> t[i]]
  OBVIOUS

\* A shift takes the head off, a pop the last node, a deletion any.
LEMMA CutIs ==
  ASSUME NEW L \in ListSeqs, NEW h \in Heads, NEW k \in DOMAIN L[h]
  PROVE  /\ CutIn(L, h, k) = [L EXCEPT ![h] = Sequences!RemoveAt(L[h], k)]
         /\ k = 1 => CutIn(L, h, k) = [L EXCEPT ![h] = Tail(L[h])]
         /\ k = Len(L[h]) => CutIn(L, h, k) = [L EXCEPT ![h] = Sequences!Front(L[h])]
<1> DEFINE s == L[h]
           m == Len(s)
           c == [i \in 1..m - 1 |-> IF i < k THEN s[i] ELSE s[i + 1]]
<1>1. s \in Seq(Nodes) /\ m \in Nat /\ k \in 1..m /\ s # <<>>
  BY SeqFacts
<1> HIDE DEF s
<1>2. c = SubSeq(s, 1, k - 1) \o SubSeq(s, k + 1, m)
  <2> DEFINE a == SubSeq(s, 1, k - 1)
             b == SubSeq(s, k + 1, m)
  <2>1. a \in Seq(Nodes) /\ Len(a) = k - 1 /\ \A i \in 1..k - 1 : a[i] = s[i]
    BY <1>1, SubSeqProperties
  <2>2. b \in Seq(Nodes) /\ Len(b) = m - k /\ \A i \in 1..m - k : b[i] = s[k + i]
    BY <1>1, SubSeqProperties
  <2> HIDE DEF a, b
  <2>3. /\ a \o b \in Seq(Nodes) /\ Len(a \o b) = m - 1
        /\ \A i \in 1..m - 1 : (a \o b)[i] = IF i < k THEN a[i] ELSE b[i - (k - 1)]
    BY <1>1, <2>1, <2>2
  <2>4. \A i \in 1..m - 1 : (a \o b)[i] = IF i < k THEN s[i] ELSE s[i + 1]
    <3> SUFFICES ASSUME NEW i \in 1..m - 1
                 PROVE  (a \o b)[i] = IF i < k THEN s[i] ELSE s[i + 1]
      OBVIOUS
    <3>1. CASE i < k
      BY <1>1, <2>1, <2>3, <3>1
    <3>2. CASE i >= k
      <4>1. i - (k - 1) \in 1..m - k /\ k + (i - (k - 1)) = i + 1
        BY <1>1, <3>2
      <4>2. b[i - (k - 1)] = s[i + 1]
        BY <2>2, <4>1
      <4>3. (a \o b)[i] = b[i - (k - 1)] /\ ~(i < k)
        <5> DEFINE ab == a \o b
        <5>1. ab[i] = IF i < k THEN a[i] ELSE b[i - (k - 1)]
          BY <2>3
        <5>2. ~(i < k)
          BY <1>1, <3>2
        <5> HIDE DEF ab
        <5>3. ab[i] = b[i - (k - 1)]
          BY <5>1, <5>2
        <5> QED
          BY <5>2, <5>3 DEF ab
      <4> QED
        BY <4>2, <4>3
    <3>3. i < k \/ i >= k
      BY <1>1
    <3> QED
      BY <3>1, <3>2, <3>3
  <2>5. a \o b = [i \in 1..m - 1 |-> (a \o b)[i]]
    BY <2>3, SeqIs
  <2> QED
    BY <2>4, <2>5 DEF a, b
<1>3. k = 1 => c = Tail(s)
  <2>1. /\ Tail(s) \in Seq(Nodes) /\ Len(Tail(s)) = m - 1
        /\ \A i \in 1..m - 1 : Tail(s)[i] = s[i + 1]
    BY <1>1
  <2>2. Tail(s) = [i \in 1..m - 1 |-> Tail(s)[i]]
    BY <2>1, SeqIs
  <2>3. \A i \in 1..m - 1 : ~(i < 1)
    BY <1>1
  <2> QED
    BY <2>1, <2>2, <2>3
<1>4. k = m => c = SubSeq(s, 1, m - 1)
  <2>1. /\ SubSeq(s, 1, m - 1) \in Seq(Nodes) /\ Len(SubSeq(s, 1, m - 1)) = m - 1
        /\ \A i \in 1..m - 1 : SubSeq(s, 1, m - 1)[i] = s[i]
    <3>1. 1 \in 1..m + 1 /\ m - 1 \in 1 - 1..m
      BY <1>1
    <3>2. (m - 1) - 1 + 1 = m - 1 /\ \A i \in 1..m - 1 : 1 + i - 1 = i
      BY <1>1
    <3> QED
      BY <1>1, <3>1, <3>2, SubSeqProperties
  <2>2. SubSeq(s, 1, m - 1) = [i \in 1..m - 1 |-> SubSeq(s, 1, m - 1)[i]]
    BY <2>1, SeqIs
  <2>3. \A i \in 1..m - 1 : i < m
    BY <1>1
  <2> QED
    BY <2>1, <2>2, <2>3
<1>5. CutIn(L, h, k) = [L EXCEPT ![h] = c]
  BY DEF CutIn, s
<1> HIDE DEF c
<1> QED
  BY <1>2, <1>3, <1>4, <1>5 DEF Sequences!RemoveAt, Sequences!Front, s

\* The nodes of the sequences are the linked ones.
LEMMA ListedAreHeld ==
  ASSUME NEW L \in ListSeqs, LinksOf(L)
  PROVE  /\ [h \in Heads |-> Ring(h)] = L
         /\ \A n : n \in Sequences!Listed <=> IsIn(L, n)
<1>1. [h \in Heads |-> Ring(h)] = L
  <2>1. \A h \in Heads : Ring(h) = L[h]
    BY RingOfList
  <2> QED
    BY <2>1 DEF ListSeqs
<1>2. Sequences!Listed = UNION {Sequences!ToSet(L[h]) : h \in Heads}
  BY <1>1 DEF Sequences!Listed
<1> QED
  BY <1>1, <1>2 DEF Sequences!ToSet, IsIn

\* b is in s at the place of a, or after it.
Before(s, a, b) == \E j, k \in DOMAIN s : j <= k /\ s[j] = a /\ s[k] = b

\* A loop has been everywhere but where tmp is and what comes after.
LoopAhead(L) ==
  loop # NULL =>
    /\ loop \in Heads
    /\ IF pos = loop THEN unseen = {}
       ELSE /\ pos \in Nodes /\ pos \notin unseen \cup {tmp}
            /\ \/ tmp = loop /\ unseen = {}
               \/ \A u \in unseen \cup {tmp} : Before(L[loop], tmp, u)

SeqInv == \E L \in ListSeqs : LinksOf(L) /\ LoopAhead(L)

\* What every action is shown to do, with M the sequences that it leaves.
Moves(M) ==
  /\ LinksOf(M)' /\ LoopAhead(M)'
  /\ \/ Sequences!ListsNext
     \/ UNCHANGED <<[h \in Heads |-> Ring(h)], got>>

LEMMA RingsOfLinks == \A K \in ListSeqs : LinksOf(K) => [h \in Heads |-> Ring(h)] = K
  BY ListedAreHeld

LEMMA RingsAre ==
  ASSUME NEW L \in ListSeqs, NEW M \in ListSeqs, LinksOf(L), LinksOf(M)'
  PROVE  [h \in Heads |-> Ring(h)] = L /\ ([h \in Heads |-> Ring(h)])' = M
<1>1. (\A K \in ListSeqs : LinksOf(K) => [h \in Heads |-> Ring(h)] = K)'
  BY RingsOfLinks, PTL
<1> QED
  BY <1>1, RingsOfLinks

\* The loop goes on as before when the order of what is ahead of it is kept.
LEMMA LoopKept ==
  ASSUME NEW L \in ListSeqs, NEW M \in ListSeqs, LoopAhead(L), UNCHANGED loopVars,
         \A a, b : loop # NULL /\ pos \in Nodes /\ a # pos /\ b # pos
                   /\ Before(L[loop], a, b) => Before(M[loop], a, b)
  PROVE  LoopAhead(M)'
  BY DEF LoopAhead, loopVars

LEMMA PushMoves ==
  ASSUME NEW L \in ListSeqs, LinksOf(L), LoopAhead(L), NEW h \in Heads, NEW n \in Nodes,
         ListPush(h, n)
  PROVE  \E M \in ListSeqs : Moves(M)
<1> DEFINE M == [L EXCEPT ![h] = Append(L[h], n)]
<1>1. L \in [Heads -> Seq(Nodes)]
  BY DEF ListSeqs
<1>2. M \in ListSeqs
  BY <1>1 DEF ListSeqs
<1>3. LinksOf(M)'
  BY PushLinks
<1>4. LoopAhead(M)'
  <2>1. \A a, b : loop # NULL /\ Before(L[loop], a, b) => Before(M[loop], a, b)
    <3> SUFFICES ASSUME NEW a, NEW b, loop # NULL, Before(L[loop], a, b)
                 PROVE  Before(M[loop], a, b)
      OBVIOUS
    <3>1. loop \in Heads
      BY DEF LoopAhead
    <3>2. CASE loop # h
      BY <1>1, <3>1, <3>2
    <3>3. CASE loop = h
      <4>1. /\ L[h] \in Seq(Nodes) /\ M[h] = Append(L[h], n)
        BY <1>1
      <4>2. \A i \in DOMAIN L[h] : i \in DOMAIN M[h] /\ M[h][i] = L[h][i]
        BY <4>1
      <4> HIDE DEF M
      <4> QED
        BY <3>3, <4>2 DEF Before
    <3> QED
      BY <3>2, <3>3
  <2> HIDE DEF M
  <2> QED
    BY <1>2, <2>1, LoopKept DEF ListPush
<1>5. Sequences!Push(h, n)
  <2>1. ~IsIn(L, n)
    BY HeldIsLinked DEF IsIn, ListPush
  <2>2. n \notin Sequences!Listed /\ [g \in Heads |-> Ring(g)] = L
    BY <2>1, ListedAreHeld
  <2>3. ([g \in Heads |-> Ring(g)])' = M
    <3> HIDE DEF M
    <3> QED
      BY <1>2, <1>3, RingsAre
  <2> QED
    BY <2>2, <2>3 DEF Sequences!Push, ListPush
<1> HIDE DEF M
<1> QED
  BY <1>2, <1>3, <1>4, <1>5 DEF Moves, Sequences!ListsNext

LEMMA UnshiftMoves ==
  ASSUME NEW L \in ListSeqs, LinksOf(L), LoopAhead(L), NEW h \in Heads, NEW n \in Nodes,
         ListUnshift(h, n)
  PROVE  \E M \in ListSeqs : Moves(M)
<1> DEFINE M == [L EXCEPT ![h] = <<n>> \o L[h]]
<1>1. L \in [Heads -> Seq(Nodes)]
  BY DEF ListSeqs
<1>2. M \in ListSeqs
  <2>1. <<n>> \o L[h] \in Seq(Nodes)
    BY <1>1
  <2> QED
    BY <1>1, <2>1 DEF ListSeqs
<1>3. LinksOf(M)'
  BY UnshiftLinks
<1>4. LoopAhead(M)'
  <2>1. \A a, b : loop # NULL /\ Before(L[loop], a, b) => Before(M[loop], a, b)
    <3> SUFFICES ASSUME NEW a, NEW b, loop # NULL, Before(L[loop], a, b)
                 PROVE  Before(M[loop], a, b)
      OBVIOUS
    <3>1. loop \in Heads
      BY DEF LoopAhead
    <3>2. CASE loop # h
      BY <1>1, <3>1, <3>2
    <3>3. CASE loop = h
      <4>1. L[h] \in Seq(Nodes) /\ M[h] = <<n>> \o L[h]
        BY <1>1
      <4>2. \A i \in DOMAIN L[h] : i \in Nat /\ i + 1 \in DOMAIN M[h] /\ M[h][i + 1] = L[h][i]
        BY <4>1
      <4>3. PICK j, k \in DOMAIN L[h] : j <= k /\ L[h][j] = a /\ L[h][k] = b
        BY <3>3 DEF Before
      <4> HIDE DEF M
      <4>4. j + 1 <= k + 1
        BY <4>2, <4>3
      <4> QED
        BY <3>3, <4>2, <4>3, <4>4 DEF Before
    <3> QED
      BY <3>2, <3>3
  <2> HIDE DEF M
  <2> QED
    BY <1>2, <2>1, LoopKept DEF ListUnshift
<1>5. Sequences!Unshift(h, n)
  <2>1. ~IsIn(L, n)
    BY HeldIsLinked DEF IsIn, ListUnshift
  <2>2. n \notin Sequences!Listed /\ [g \in Heads |-> Ring(g)] = L
    BY <2>1, ListedAreHeld
  <2>3. ([g \in Heads |-> Ring(g)])' = M
    <3> HIDE DEF M
    <3> QED
      BY <1>2, <1>3, RingsAre
  <2> QED
    BY <2>2, <2>3 DEF Sequences!Unshift, ListUnshift
<1> HIDE DEF M
<1> QED
  BY <1>2, <1>3, <1>4, <1>5 DEF Moves, Sequences!ListsNext

LEMMA EmptyMoves ==
  ASSUME NEW L \in ListSeqs, LinksOf(L), loop = NULL, UNCHANGED <<links, loopVars>>
  PROVE  LinksOf(L)' /\ LoopAhead(L)'
<1>1. LinksOf(L)'
  BY DEF LinksOf, links, Linked, Free, Unlinked, Agrees
<1>2. LoopAhead(L)'
  BY DEF LoopAhead, loopVars
<1> QED
  BY <1>1, <1>2

LEMMA ShiftMoves ==
  ASSUME NEW L \in ListSeqs, LinksOf(L), NEW h \in Heads, ListShift(h)
  PROVE  \E M \in ListSeqs : Moves(M)
<1>1. CASE next[h] = h
  <2>1. LinksOf(L)' /\ LoopAhead(L)'
    BY <1>1, EmptyMoves DEF ListShift
  <2>2. [g \in Heads |-> Ring(g)] = L /\ ([g \in Heads |-> Ring(g)])' = L
    BY <2>1, RingsAre
  <2>3. L[h] = <<>> /\ got' = NULL
    BY <1>1, HeadIsLinked DEF ListShift
  <2>4. Sequences!Shift(h)
    BY <2>2, <2>3 DEF Sequences!Shift
  <2> QED
    BY <2>1, <2>4 DEF Moves, Sequences!ListsNext
<1>2. CASE next[h] # h
  <2> DEFINE M == CutIn(L, h, 1)
  <2>1. 1 \in DOMAIN L[h] /\ got' = L[h][1] /\ LinksOf(M)'
    BY <1>2, ShiftLinks
  <2>2. M \in ListSeqs /\ M = [L EXCEPT ![h] = Tail(L[h])]
    BY <2>1, CutFacts, CutIs
  <2>3. LoopAhead(M)'
    BY DEF ListShift, LoopAhead, loopVars
  <2> HIDE DEF M
  <2>4. [g \in Heads |-> Ring(g)] = L /\ ([g \in Heads |-> Ring(g)])' = M
    BY <2>1, <2>2, RingsAre
  <2>5. L[h] # <<>> /\ Head(L[h]) = L[h][1]
    BY <2>1, SeqFacts
  <2>6. Sequences!Shift(h)
    BY <2>1, <2>2, <2>4, <2>5 DEF Sequences!Shift
  <2> QED
    BY <2>1, <2>2, <2>3, <2>6 DEF Moves, Sequences!ListsNext
<1> QED
  BY <1>1, <1>2

LEMMA PopMoves ==
  ASSUME NEW L \in ListSeqs, LinksOf(L), NEW h \in Heads, ListPop(h)
  PROVE  \E M \in ListSeqs : Moves(M)
<1>1. CASE next[h] = h
  <2>1. LinksOf(L)' /\ LoopAhead(L)'
    BY <1>1, EmptyMoves DEF ListPop
  <2>2. [g \in Heads |-> Ring(g)] = L /\ ([g \in Heads |-> Ring(g)])' = L
    BY <2>1, RingsAre
  <2>3. L[h] = <<>> /\ got' = NULL
    BY <1>1, HeadIsLinked DEF ListPop
  <2>4. Sequences!Pop(h)
    BY <2>2, <2>3 DEF Sequences!Pop
  <2> QED
    BY <2>1, <2>4 DEF Moves, Sequences!ListsNext
<1>2. CASE next[h] # h
  <2> DEFINE M == CutIn(L, h, Len(L[h]))
  <2>1. Len(L[h]) \in DOMAIN L[h] /\ got' = L[h][Len(L[h])] /\ LinksOf(M)'
    BY <1>2, PopLinks
  <2>2. M \in ListSeqs /\ M = [L EXCEPT ![h] = Sequences!Front(L[h])]
    BY <2>1, CutFacts, CutIs
  <2>3. LoopAhead(M)'
    BY DEF ListPop, LoopAhead, loopVars
  <2> HIDE DEF M
  <2>4. [g \in Heads |-> Ring(g)] = L /\ ([g \in Heads |-> Ring(g)])' = M
    BY <2>1, <2>2, RingsAre
  <2>5. L[h] # <<>>
    BY <2>1, SeqFacts
  <2>6. Sequences!Pop(h)
    BY <2>1, <2>2, <2>4, <2>5 DEF Sequences!Pop, Sequences!Last
  <2> QED
    BY <2>1, <2>2, <2>3, <2>6 DEF Moves, Sequences!ListsNext
<1> QED
  BY <1>1, <1>2

LEMMA DeleteMoves ==
  ASSUME NEW L \in ListSeqs, LinksOf(L), NEW n \in Nodes, Delete(n),
         Agrees(n) \/ LeftAlone(n), UNCHANGED got, UNCHANGED loopVars, LoopAhead(L),
         loop = NULL \/ n = pos
  PROVE  \E M \in ListSeqs : Moves(M)
<1>1. CASE ~IsIn(L, n)
  <2>1. LinksOf(L)'
    BY <1>1, IdleKeepsLinks
  <2>2. LoopAhead(L)'
    BY DEF LoopAhead, loopVars
  <2>3. [g \in Heads |-> Ring(g)] = L /\ ([g \in Heads |-> Ring(g)])' = L
    BY <2>1, RingsAre
  <2>4. n \notin Sequences!Listed
    BY <1>1, ListedAreHeld
  <2>5. Sequences!Delete(n)
    BY <2>3, <2>4 DEF Sequences!Delete
  <2> QED
    BY <2>1, <2>2, <2>5 DEF Moves, Sequences!ListsNext
<1>2. CASE IsIn(L, n)
  <2>1. PICK h \in Heads : \E i \in DOMAIN L[h] : L[h][i] = n
    BY <1>2 DEF IsIn
  <2>2. PICK k \in DOMAIN L[h] : L[h][k] = n
    BY <2>1
  <2> DEFINE M == CutIn(L, h, k)
  <2>3. M \in ListSeqs /\ WithoutAt(L, M, h, k) /\ M = [L EXCEPT ![h] = Sequences!RemoveAt(L[h], k)]
    BY CutFacts, CutIs
  <2>4. LinksOf(M)'
    BY <2>2, DeleteLinks
  <2> HIDE DEF M
  <2>5. LoopAhead(M)'
    <3>1. CASE loop = NULL
      BY <3>1 DEF LoopAhead, loopVars
    <3>2. CASE loop # NULL
      <4>1. loop \in Heads /\ n = pos
        BY <3>2 DEF LoopAhead
      <4>2. \A a, b : a # pos /\ b # pos /\ Before(L[loop], a, b) => Before(M[loop], a, b)
        <5> SUFFICES ASSUME NEW a, NEW b, a # pos, b # pos, Before(L[loop], a, b)
                     PROVE  Before(M[loop], a, b)
          OBVIOUS
        <5>1. CASE loop # h
          BY <2>3, <4>1, <5>1 DEF WithoutAt
        <5>2. CASE loop = h
          <6>1. PICK i, j \in DOMAIN L[h] : i <= j /\ L[h][i] = a /\ L[h][j] = b
            BY <5>2 DEF Before
          <6> DEFINE is(e) == IF e < k THEN e ELSE e - 1
                     m == Len(L[h])
          <6>2. m \in Nat /\ k \in 1..m /\ i \in 1..m /\ j \in 1..m /\ i # k /\ j # k
            BY <2>2, <4>1, <6>1, SeqFacts
          <6>3. M[h] = [e \in 1..m - 1 |-> IF e < k THEN L[h][e] ELSE L[h][e + 1]]
            BY <2>3 DEF WithoutAt
          <6>4. \A e \in 1..m : e # k => is(e) \in 1..m - 1 /\ M[h][is(e)] = L[h][e]
            <7> SUFFICES ASSUME NEW e \in 1..m, e # k
                         PROVE  is(e) \in 1..m - 1 /\ M[h][is(e)] = L[h][e]
              OBVIOUS
            <7>1. CASE e < k
              BY <6>2, <6>3, <7>1
            <7>2. CASE e > k
              <8>1. e - 1 \in 1..m - 1 /\ ~(e - 1 < k) /\ (e - 1) + 1 = e /\ ~(e < k)
                BY <6>2, <7>2
              <8> QED
                BY <6>3, <8>1
            <7> QED
              BY <6>2, <7>1, <7>2
          <6>5. is(i) <= is(j)
            BY <6>1, <6>2
          <6>6. DOMAIN M[h] = 1..m - 1
            BY <6>3
          <6> HIDE DEF is, m
          <6> QED
            BY <5>2, <6>1, <6>2, <6>4, <6>5, <6>6 DEF Before
        <5> QED
          BY <5>1, <5>2
      <4> QED
        BY <2>3, <4>2, LoopKept
    <3> QED
      BY <3>1, <3>2
  <2>6. [g \in Heads |-> Ring(g)] = L /\ ([g \in Heads |-> Ring(g)])' = M
    BY <2>3, <2>4, RingsAre
  <2>7. Sequences!Delete(n)
    BY <2>2, <2>3, <2>6 DEF Sequences!Delete
  <2> QED
    BY <2>3, <2>4, <2>5, <2>7 DEF Moves, Sequences!ListsNext
<1> QED
  BY <1>1, <1>2

LEMMA ReplaceMoves ==
  ASSUME NEW L \in ListSeqs, LinksOf(L), NEW n \in Nodes, NEW o \in Nodes, ListReplace(o, n)
  PROVE  \E M \in ListSeqs : Moves(M)
<1>1. IsIn(L, o)
  BY DEF LinksOf, Free, ListReplace, Unlinked
<1>2. PICK h \in Heads : \E i \in DOMAIN L[h] : L[h][i] = o
  BY <1>1 DEF IsIn
<1>3. PICK k \in DOMAIN L[h] : L[h][k] = o
  BY <1>2
<1> DEFINE M == [L EXCEPT ![h][k] = n]
<1>4. M \in ListSeqs /\ LinksOf(M)'
  BY <1>3, ReplaceLinks
<1>5. LoopAhead(M)'
  BY DEF ListReplace, LoopAhead, loopVars
<1>6. Sequences!Replace(o, n)
  <2>1. ~IsIn(L, n)
    BY HeldIsLinked DEF IsIn, ListReplace
  <2>2. n \notin Sequences!Listed /\ [g \in Heads |-> Ring(g)] = L
    BY <2>1, ListedAreHeld
  <2>3. ([g \in Heads |-> Ring(g)])' = M
    <3> HIDE DEF M
    <3> QED
      BY <1>4, RingsAre
  <2> QED
    BY <1>3, <2>2, <2>3 DEF Sequences!Replace, ListReplace
<1> HIDE DEF M
<1> QED
  BY <1>4, <1>5, <1>6 DEF Moves, Sequences!ListsNext

\* The loop leaves the links alone, and goes from place to place.
LEMMA BeginMoves ==
  ASSUME NEW L \in ListSeqs, LinksOf(L), NEW h \in Heads, LoopBegin(h)
  PROVE  LoopAhead(L)'
<1>1. L[h] \in Seq(Nodes) /\ Ring(h) = L[h] /\ next[h] = Around(L[h], h, 1)
  BY HeadIsLinked, RingOfList DEF ListSeqs
<1>2. CASE next[h] = h
  <2>1. L[h] = <<>>
    BY <1>2, HeadIsLinked
  <2>2. unseen' = {}
    BY <1>1, <2>1 DEF LoopBegin, ToSet
  <2> QED
    BY <1>2, <2>2 DEF LoopAhead, LoopBegin
<1>3. CASE next[h] # h
  <2> DEFINE m == Len(L[h])
  <2>1. m \in Nat /\ 1 \in 1..m /\ DOMAIN L[h] = 1..m /\ next[h] = L[h][1] /\ L[h][1] \in Nodes
    BY <1>1, <1>3 DEF Around
  <2>2. pos' = L[h][1] /\ tmp' = Around(L[h], h, 2) /\ L[h][1] # h
    BY <2>1, HeldIsLinked, SeqFacts DEF LoopBegin
  <2>3. \A i, j \in 1..m : L[h][i] = L[h][j] => i = j
    BY <2>1 DEF LinksOf, Apart
  <2>4. unseen' = {L[h][i] : i \in 1..m} \ {L[h][1]}
    BY <1>1, <2>1 DEF LoopBegin, ToSet
  <2>5. ASSUME NEW u \in unseen' PROVE \E i \in 2..m : u = L[h][i]
    <3>1. PICK i \in 1..m : u = L[h][i]
      BY <2>4
    <3>2. i # 1
      BY <2>4, <3>1
    <3> QED
      BY <2>1, <3>1, <3>2
  <2>6. CASE m = 1
    <3>1. tmp' = h /\ unseen' = {}
      BY <2>2, <2>5, <2>6 DEF Around
    <3> QED
      BY <2>1, <2>2, <3>1 DEF LoopAhead, LoopBegin
  <2>7. CASE m # 1
    <3>1. 2 \in 1..m /\ tmp' = L[h][2]
      <4>1. 2 \in 1..m
        <5>1. m \in Nat /\ 1 \in 1..m /\ m # 1
          BY <2>1, <2>7
        <5> HIDE DEF m
        <5> QED
          BY <5>1
      <4> QED
        BY <2>2, <4>1 DEF Around
    <3>2. ASSUME NEW u \in unseen' \cup {tmp'} PROVE Before(L[h], tmp', u)
      <4>1. PICK i \in 2..m : u = L[h][i]
        BY <2>1, <2>5, <3>1
      <4>2. i \in 1..m /\ 2 <= i
        BY <2>1
      <4> QED
        BY <2>1, <3>1, <4>1, <4>2 DEF Before
    <3>3. pos' \notin unseen' \cup {tmp'}
      BY <2>1, <2>2, <2>3, <2>4, <3>1
    <3> QED
      BY <2>1, <2>2, <3>2, <3>3 DEF LoopAhead, LoopBegin
  <2> QED
    BY <2>6, <2>7
<1> QED
  BY <1>2, <1>3

LEMMA StepMoves ==
  ASSUME NEW L \in ListSeqs, LinksOf(L), LoopAhead(L), LoopStep
  PROVE  LoopAhead(L)'
<1> DEFINE h == loop
           m == Len(L[h])
<1>1. /\ loop # NULL /\ loop' = loop /\ h \in Heads /\ pos \in Nodes
      /\ pos' = tmp /\ tmp' = next[tmp] /\ unseen' = unseen \ {tmp}
  BY DEF LoopAhead, LoopStep
<1>2. CASE tmp = h
  <2>1. ~Before(L[h], h, h)
    BY <1>1, SeqFacts DEF Before
  <2>2. unseen = {}
    BY <1>1, <1>2, <2>1, HeadsAreNoNodes DEF LoopAhead
  <2> QED
    BY <1>1, <1>2, <2>2 DEF LoopAhead
<1>3. CASE tmp # h
  <2>1. \A u \in unseen \cup {tmp} : Before(L[h], tmp, u)
    BY <1>1, <1>3 DEF LoopAhead, LoopStep
  <2>2. PICK k \in DOMAIN L[h] : L[h][k] = tmp
    BY <2>1 DEF Before
  <2>3. /\ m \in Nat /\ DOMAIN L[h] = 1..m /\ k \in 1..m /\ tmp \in Nodes
        /\ next[tmp] = Around(L[h], h, k + 1)
        /\ \A i \in 1..m : L[h][i] \in Nodes /\ L[h][i] # h
    BY <1>1, <2>2, HeldIsLinked, SeqFacts
  <2>4. \A i, j \in 1..m : L[h][i] = L[h][j] => i = j
    BY <1>1, <2>3 DEF LinksOf, Apart
  <2>5. ASSUME NEW u \in unseen' PROVE \E i \in k + 1..m : u = L[h][i]
    <3>1. u \in unseen /\ u # tmp
      BY <1>1
    <3>2. PICK j, i \in DOMAIN L[h] : j <= i /\ L[h][j] = tmp /\ L[h][i] = u
      BY <2>1, <3>1 DEF Before
    <3>3. j = k /\ i # k
      BY <2>2, <2>3, <2>4, <3>1, <3>2
    <3> QED
      BY <2>3, <3>2, <3>3
  <2>6. tmp \notin unseen'
    BY <1>1
  <2>7. CASE k = m
    <3>1. tmp' = h /\ unseen' = {}
      BY <1>1, <2>3, <2>5, <2>7 DEF Around
    <3> QED
      BY <1>1, <1>3, <2>3, <3>1 DEF LoopAhead
  <2>8. CASE k # m
    <3>1. k + 1 \in 1..m /\ tmp' = L[h][k + 1]
      BY <1>1, <2>3, <2>8 DEF Around
    <3>2. ASSUME NEW u \in unseen' \cup {tmp'} PROVE Before(L[h], tmp', u)
      <4>1. PICK i \in k + 1..m : u = L[h][i]
        BY <2>3, <2>5, <3>1
      <4>2. i \in 1..m /\ k + 1 <= i
        BY <2>3
      <4> QED
        BY <2>3, <3>1, <4>1, <4>2 DEF Before
    <3>3. tmp # tmp'
      BY <2>2, <2>3, <2>4, <3>1
    <3> QED
      BY <1>1, <1>3, <2>3, <2>6, <3>2, <3>3 DEF LoopAhead
  <2> QED
    BY <2>7, <2>8
<1> QED
  BY <1>2, <1>3

LEMMA SeqInit == ListInit => SeqInv /\ Sequences!ListsInit
<1> SUFFICES ASSUME ListInit PROVE SeqInv /\ Sequences!ListsInit
  OBVIOUS
<1> DEFINE L == [h \in Heads |-> <<>>]
<1>1. L \in ListSeqs /\ LinksOf(L)
  BY LinksInit DEF ListSeqs
<1>2. LoopAhead(L) /\ got = NULL
  BY DEF ListInit, LoopAhead
<1>3. [h \in Heads |-> Ring(h)] = L
  BY <1>1, RingsOfLinks
<1> QED
  BY <1>1, <1>2, <1>3 DEF SeqInv, Sequences!ListsInit

LEMMA SeqStep ==
  SeqInv /\ [ListNext]_listVars =>
    SeqInv' /\ [Sequences!ListsNext]_<<[h \in Heads |-> Ring(h)], got>>
<1> SUFFICES ASSUME SeqInv, [ListNext]_listVars PROVE \E M \in ListSeqs : Moves(M)
  BY DEF SeqInv, Moves
<1> PICK L \in ListSeqs : LinksOf(L) /\ LoopAhead(L)
  BY DEF SeqInv
<1>1. ASSUME NEW l \in Heads, ListShift(l) PROVE \E M \in ListSeqs : Moves(M)
  BY <1>1, ShiftMoves
<1>2. ASSUME NEW l \in Heads, ListPop(l) PROVE \E M \in ListSeqs : Moves(M)
  BY <1>2, PopMoves
<1>3. ASSUME NEW l \in Heads, NEW n \in Nodes, ListPush(l, n) PROVE \E M \in ListSeqs : Moves(M)
  BY <1>3, PushMoves
<1>4. ASSUME NEW l \in Heads, NEW n \in Nodes, ListUnshift(l, n)
      PROVE  \E M \in ListSeqs : Moves(M)
  BY <1>4, UnshiftMoves
<1>5. ASSUME NEW n \in Nodes, ListDelete(n) PROVE \E M \in ListSeqs : Moves(M)
  <2>1. Delete(n) /\ (Agrees(n) \/ LeftAlone(n)) /\ loop = NULL
        /\ UNCHANGED got /\ UNCHANGED loopVars
    BY <1>5 DEF ListDelete
  <2> QED
    BY <2>1, DeleteMoves
<1>6. ASSUME NEW n \in Nodes, NEW o \in Nodes, ListReplace(o, n)
      PROVE  \E M \in ListSeqs : Moves(M)
  BY <1>6, ReplaceMoves
<1>7. CASE LoopDelete
  <2>1. Delete(pos) /\ Agrees(pos) /\ UNCHANGED got /\ UNCHANGED loopVars /\ pos \in Nodes
    BY <1>7 DEF LoopDelete, LoopAhead
  <2> QED
    BY <2>1, DeleteMoves
<1>8. ASSUME UNCHANGED <<links, got>>, LoopAhead(L)' PROVE \E M \in ListSeqs : Moves(M)
  <2>1. LinksOf(L)'
    BY <1>8 DEF LinksOf, links, Linked, Free, Unlinked, Agrees
  <2>2. [h \in Heads |-> Ring(h)] = L /\ ([h \in Heads |-> Ring(h)])' = L
    BY <2>1, RingsAre
  <2> QED
    BY <1>8, <2>1, <2>2 DEF Moves
<1>9. ASSUME NEW h \in Heads, LoopBegin(h) PROVE \E M \in ListSeqs : Moves(M)
  BY <1>8, <1>9, BeginMoves DEF LoopBegin
<1>10. CASE LoopStep
  BY <1>8, <1>10, StepMoves DEF LoopStep
<1>11. CASE LoopEnd
  BY <1>8, <1>11 DEF LoopEnd, LoopAhead
<1>12. CASE UNCHANGED listVars
  BY <1>8, <1>12 DEF listVars, links, LoopAhead
<1> QED
  BY <1>1, <1>2, <1>3, <1>4, <1>5, <1>6, <1>7, <1>9, <1>10, <1>11, <1>12 DEF ListNext

\* The links implement sequences of nodes: every function of src/list.c does to
\* the rings what its name says of a sequence, and leaves the lists of the other
\* heads alone (src/list.c:70-132).
THEOREM ListsImplemented == ListSpec => ImplementsLists
<1>1. ListSpec => []SeqInv
  BY SeqInit, SeqStep, PTL DEF ListSpec
<1> QED
  BY <1>1, SeqInit, SeqStep, PTL DEF ListSpec, ImplementsLists, Sequences!ListsSpec

\* A for_each_object_safe loop that ends has been at every node that was there
\* when it began, whatever its body deleted or linked (include/vigor.h:98-101,
\* 121-125).
THEOREM SafeLoopsComplete == ListSpec => []SafeLoopComplete
<1>1. SeqInv => SafeLoopComplete
  BY DEF SeqInv, LoopAhead, SafeLoopComplete
<1> QED
  BY <1>1, SeqInit, SeqStep, PTL DEF ListSpec

\* The cells of rings are the heads and the nodes of the sequences, and those
\* that are in rings of their own.
LEMMA AgreeingCells ==
  ASSUME NEW L \in ListSeqs, LinksOf(L), NEW c \in Cells, Agrees(c)
  PROVE  \/ next[c] = c /\ prev[c] = c /\ c \in Nodes /\ ~IsIn(L, c)
         \/ \E h \in Heads : \E i, j, k : /\ c = Around(L[h], h, i)
                                          /\ next[c] = Around(L[h], h, j)
                                          /\ prev[c] = Around(L[h], h, k)
<1>1. CASE c \in Heads
  <2>1. c = Around(L[c], c, 0)
    BY <1>1, SeqFacts DEF Around
  <2> QED
    BY <1>1, <2>1, HeadIsLinked
<1>2. CASE c \in Nodes /\ IsIn(L, c)
  <2>1. PICK h \in Heads : \E i \in DOMAIN L[h] : L[h][i] = c
    BY <1>2 DEF IsIn
  <2>2. PICK i \in DOMAIN L[h] : L[h][i] = c
    BY <2>1
  <2>3. /\ c = Around(L[h], h, i) /\ next[c] = Around(L[h], h, i + 1)
        /\ prev[c] = Around(L[h], h, i - 1)
    BY <2>2, HeldIsLinked
  <2> QED
    BY <2>3
<1>3. CASE c \in Nodes /\ ~IsIn(L, c)
  <2>1. next[c] = c /\ prev[c] = c
    BY <1>3 DEF LinksOf, Free, Unlinked, Agrees
  <2> QED
    BY <1>3, <2>1
<1> QED
  BY <1>1, <1>2, <1>3 DEF Cells

LEMMA PlacesAgree ==
  ASSUME NEW L \in ListSeqs, LinksOf(L), NEW h \in Heads, NEW i
  PROVE  Agrees(Around(L[h], h, i))
<1>1. CASE i \in 1..Len(L[h])
  BY <1>1, HeldIsLinked, SeqFacts DEF Around
<1>2. CASE i \notin 1..Len(L[h])
  BY <1>2, HeadIsLinked DEF Around
<1> QED
  BY <1>1, <1>2

LEMMA LinksAreRings == SeqInv => RingsClosed /\ Separate
<1> SUFFICES ASSUME SeqInv PROVE RingsClosed /\ Separate
  OBVIOUS
<1> PICK L \in ListSeqs : LinksOf(L)
  BY DEF SeqInv
<1>1. RingsClosed
  <2>1. \A h \in Heads : Agrees(h)
    BY HeadIsLinked
  <2>2. ASSUME NEW c \in Cells, Agrees(c) PROVE Agrees(next[c]) /\ Agrees(prev[c])
    <3>1. CASE next[c] = c /\ prev[c] = c
      BY <2>2, <3>1
    <3>2. CASE \E h \in Heads : \E i, j, k : /\ c = Around(L[h], h, i)
                                             /\ next[c] = Around(L[h], h, j)
                                             /\ prev[c] = Around(L[h], h, k)
      BY <3>2, PlacesAgree
    <3> QED
      BY <2>2, <3>1, <3>2, AgreeingCells
  <2> QED
    BY <2>1, <2>2 DEF RingsClosed
<1>2. Separate
  <2> DEFINE In(c, h) == \E i : c = Around(L[h], h, i)
             home == [c \in Cells |-> IF \E h \in Heads : In(c, h)
                                        THEN CHOOSE h \in Heads : In(c, h) ELSE c]
  <2>1. ASSUME NEW g \in Heads, NEW h \in Heads, NEW c, In(c, g), In(c, h) PROVE g = h
    BY <2>1, PlacesApart DEF LinksOf
  <2>2. \A h \in Heads : In(h, h)
    <3>1. \A h \in Heads : h = Around(L[h], h, 0)
      BY SeqFacts DEF Around
    <3> QED
      BY <3>1
  <2>3. \A h \in Heads : h \in Cells
    BY DEF Cells
  <2> HIDE DEF In
  <2>4. \A c \in Cells : \A h \in Heads : In(c, h) => home[c] = h
    BY <2>1
  <2>5. home \in [Cells -> Cells]
    BY <2>3
  <2> HIDE DEF home
  <2>6. \A h \in Heads : home[h] = h
    BY <2>2, <2>3, <2>4
  <2>7. ASSUME NEW c \in Cells, Agrees(c) PROVE home[next[c]] = home[c] /\ home[prev[c]] = home[c]
    <3>1. CASE next[c] = c /\ prev[c] = c
      BY <3>1
    <3>2. CASE \E h \in Heads : \E i, j, k : /\ c = Around(L[h], h, i)
                                             /\ next[c] = Around(L[h], h, j)
                                             /\ prev[c] = Around(L[h], h, k)
      <4>1. PICK h \in Heads : In(c, h) /\ In(next[c], h) /\ In(prev[c], h)
        BY <3>2 DEF In
      <4>2. next[c] \in Cells /\ prev[c] \in Cells
        BY DEF LinksOf
      <4> QED
        BY <2>4, <4>1, <4>2
    <3> QED
      BY <2>7, <3>1, <3>2, AgreeingCells
  <2> QED
    BY <2>5, <2>6, <2>7 DEF Separate, Homes
<1> QED
  BY <1>1, <1>2

\* Whatever callers push, shift, pop, delete and replace, in loops or outside of
\* them, each head is in a ring, and the links of its cells lead only to cells
\* of rings (src/list.c:60-132).
THEOREM RingsStayClosed == ListSpec => []RingsClosed
  BY SeqInit, SeqStep, LinksAreRings, PTL DEF ListSpec

\* No two lists share a node: each head's ring is its own.
THEOREM ListsShareNothing == ListSpec => []Separate
  BY SeqInit, SeqStep, LinksAreRings, PTL DEF ListSpec

\* The pointers of the lists and of a loop point to cells (src/list.c:60-132,
\* include/vigor.h:98-125).
THEOREM ListTypeCorrect == ListSpec => []ListTypeOK
<1>1. ListInit => ListTypeOK
  BY DEF ListInit, ListTypeOK
<1>2. SeqInv /\ ListTypeOK /\ [ListNext]_listVars => ListTypeOK'
  <2> SUFFICES ASSUME SeqInv, ListTypeOK, [ListNext]_listVars PROVE ListTypeOK'
    OBVIOUS
  <2> PICK L \in ListSeqs : LinksOf(L) /\ LoopAhead(L)
    BY DEF SeqInv
  <2>1. next' \in [Cells -> Cells] /\ prev' \in [Cells -> Cells]
    BY SeqStep DEF SeqInv, LinksOf
  <2>2. \A h \in Heads : h \in Cells /\ (next[h] # h => next[h] \in Nodes /\ prev[h] \in Nodes)
    <3>1. \A h \in Heads : next[h] # h => next[h] = L[h][1] /\ 1 \in 1..Len(L[h])
                                          /\ prev[h] = L[h][Len(L[h])] /\ Len(L[h]) \in 1..Len(L[h])
      BY HeadIsLinked, SeqFacts DEF Around
    <3> QED
      BY <3>1, SeqFacts
  <2>3. \A h \in Heads : ToSet(Ring(h)) \subseteq Nodes
    BY RingOfList, SeqFacts DEF ToSet
  <2>4. got' \in Nodes \cup {NULL}
    BY <2>2 DEF ListTypeOK, ListNext, ListPush, ListUnshift, ListShift, ListPop, ListDelete,
                ListReplace, LoopBegin, LoopStep, LoopDelete, LoopEnd, listVars
  <2>5. CASE UNCHANGED loopVars
    BY <2>1, <2>4, <2>5 DEF ListTypeOK, loopVars
  <2>6. ASSUME NEW h \in Heads, LoopBegin(h) PROVE ListTypeOK'
    BY <2>1, <2>2, <2>3, <2>4, <2>6 DEF ListTypeOK, LoopBegin
  <2>7. CASE LoopStep
    <3>1. tmp \in Cells
      <4>1. loop \in Heads /\ (tmp = loop \/ Before(L[loop], tmp, tmp))
        BY <2>7 DEF LoopStep, LoopAhead
      <4> QED
        BY <2>2, <4>1, SeqFacts DEF Before
    <3> QED
      BY <2>1, <2>4, <2>7, <3>1 DEF ListTypeOK, LoopStep
  <2>8. CASE LoopEnd
    BY <2>1, <2>4, <2>8 DEF ListTypeOK, LoopEnd
  <2> QED
    BY <2>5, <2>6, <2>7, <2>8 DEF ListNext, ListPush, ListUnshift, ListShift, ListPop,
       ListDelete, ListReplace, LoopDelete, listVars, loopVars
<1> QED
  BY <1>1, <1>2, SeqInit, SeqStep, PTL DEF ListSpec

-----------------------------------------------------------------------------
(* Sequences made round by round                                           *)

\* What holds at first, and after each round if it did before it.
LEMMA EveryRound ==
  ASSUME NEW n \in Nat, NEW P, 0 \in P, \A i \in 1..n : i - 1 \in P => i \in P
  PROVE  \A i \in 0..n : i \in P
<1> DEFINE Bad == (0..n) \ P
<1> SUFFICES ASSUME Bad # {} PROVE FALSE
  OBVIOUS
<1>1. PICK i \in Bad : \A l \in Bad : ~(<<l, i>> \in OpToRel(<, Nat))
  <2>1. Bad \subseteq Nat
    OBVIOUS
  <2> HIDE DEF Bad
  <2> QED
    BY <2>1, NatLessThanWellFounded, WFMin
<1>2. i \in 0..n /\ i \in Nat /\ i \notin P /\ i # 0
  OBVIOUS
<1>3. i - 1 \in 0..n /\ i - 1 \in Nat /\ i - 1 < i /\ i \in 1..n
  BY <1>2
<1>4. <<i - 1, i>> \in OpToRel(<, Nat)
  BY <1>2, <1>3 DEF OpToRel
<1>5. i - 1 \in P
  BY <1>1, <1>3, <1>4
<1> QED
  BY <1>2, <1>3, <1>5

\* What n rounds of F make of b, there is.
RoundsOf(g, F, n, b) == g[0] = b /\ \A i \in 1..n : g[i] = F[<<g[i - 1], i>>]
Closed(F, n, X) == \A v \in X, i \in 1..n : F[<<v, i>>] \in X

LEMMA RoundsExist ==
  ASSUME NEW X, NEW n \in Nat, NEW b \in X, NEW F, Closed(F, n, X)
  PROVE  \E g \in [0..n -> X] : RoundsOf(g, F, n, b)
<1> DEFINE Upto(m) == \E g \in [0..m -> X] : RoundsOf(g, F, m, b)
           P == {m \in 0..n : Upto(m)}
<1>1. 0 \in P
  <2> DEFINE g == [i \in 0..0 |-> b]
  <2>1. g \in [0..0 -> X] /\ RoundsOf(g, F, 0, b)
    BY DEF RoundsOf
  <2> HIDE DEF g
  <2>2. Upto(0)
    BY <2>1
  <2> HIDE DEF Upto
  <2> QED
    BY <2>2
<1>2. ASSUME NEW m \in 1..n, m - 1 \in P PROVE m \in P
  <2> DEFINE l == m - 1
  <2>1. l \in 0..n /\ l \in Nat /\ l + 1 = m /\ m \in 0..n
    OBVIOUS
  <2>2. Upto(l)
    BY <1>2
  <2> HIDE DEF P, l
  <2>3. PICK g \in [0..l -> X] : RoundsOf(g, F, l, b)
    BY <2>2
  <2> HIDE DEF Upto
  <2> DEFINE h == [i \in 0..m |-> IF i = m THEN F[<<g[l], m>>] ELSE g[i]]
  <2>4. l \in 0..l /\ \A i \in 0..m : i = m \/ i \in 0..l
    BY <2>1
  <2>5. \A i \in 0..l : i # m /\ i \in 0..m
    BY <2>1
  <2>6. F[<<g[l], m>>] \in X
    BY <2>4 DEF Closed
  <2>7. h \in [0..m -> X] /\ h[m] = F[<<g[l], m>>] /\ \A i \in 0..l : h[i] = g[i]
    BY <2>1, <2>4, <2>5, <2>6
  <2> HIDE DEF h
  <2>8. h[0] = b
    BY <2>1, <2>3, <2>7 DEF RoundsOf
  <2>9. ASSUME NEW i \in 1..m PROVE h[i] = F[<<h[i - 1], i>>]
    <3>1. CASE i = m
      <4>1. i - 1 = l
        BY <2>1, <3>1
      <4> QED
        BY <2>4, <2>7, <3>1, <4>1
    <3>2. CASE i # m
      <4>1. i \in 1..l /\ i \in 0..l /\ i - 1 \in 0..l
        BY <2>1, <3>2
      <4>2. g[i] = F[<<g[i - 1], i>>]
        BY <2>3, <4>1 DEF RoundsOf
      <4> QED
        BY <2>7, <4>1, <4>2
    <3> QED
      BY <3>1, <3>2
  <2>10. Upto(m)
    BY <2>7, <2>8, <2>9 DEF Upto, RoundsOf
  <2> QED
    BY <2>1, <2>10 DEF P
<1> HIDE DEF Upto, P
<1>3. \A i \in 0..n : i \in P
  BY <1>1, <1>2, EveryRound
<1>4. n \in P
  BY <1>3
<1> QED
  BY <1>4 DEF P, Upto

-----------------------------------------------------------------------------
(* What is kept of a sequence                                              *)

\* k has what is kept of s after each round of the loop.
KeptRounds(k, s, S) ==
  /\ k[0] = <<>>
  /\ \A i \in 1..Len(s) : k[i] = IF s[i] \in S THEN Append(k[i - 1], s[i]) ELSE k[i - 1]

LEMMA KeptIs ==
  ASSUME NEW T, NEW s \in Seq(T), NEW S
  PROVE  \E k \in [0..Len(s) -> Seq(T)] : KeptRounds(k, s, S) /\ Kept(s, S) = k[Len(s)]
<1> DEFINE n == Len(s)
           X == Seq(T)
           Next1(v, i) == IF s[i] \in S THEN Append(v, s[i]) ELSE v
           F == [p \in X \X (1..n) |-> Next1(p[1], p[2])]
           Step(p, i) == IF i = 0 THEN <<>> ELSE IF s[i] \in S THEN Append(p[i - 1], s[i]) ELSE p[i - 1]
           w == CHOOSE w : w = [i \in 0..n |-> Step(w, i)]
<1>1. n \in Nat /\ <<>> \in X
  BY LenProperties, EmptySeq
<1>2. ASSUME NEW v \in X, NEW i \in 1..n PROVE Next1(v, i) \in X
  <2>1. s[i] \in T
    BY ElementOfSeq
  <2>2. Append(v, s[i]) \in X
    BY <2>1, AppendProperties
  <2> HIDE DEF X
  <2> QED
    BY <2>2
<1>3. Kept(s, S) = w[n]
  BY DEF Kept
<1>4. \A p, i : Step(p, i) = IF i = 0 THEN <<>> ELSE Next1(p[i - 1], i)
  OBVIOUS
<1> HIDE DEF Next1, Step, w, X
<1>5. \A v \in X, i \in 1..n : F[<<v, i>>] = Next1(v, i)
  OBVIOUS
<1> HIDE DEF F
<1>6. PICK g \in [0..n -> X] : RoundsOf(g, F, n, <<>>)
  <2> DEFINE nil == <<>>
  <2>1. Closed(F, n, X)
    BY <1>2, <1>5 DEF Closed
  <2>2. nil \in X
    BY <1>1
  <2> HIDE DEF nil, n
  <2>3. \E g \in [0..n -> X] : RoundsOf(g, F, n, nil)
    BY <1>1, <2>1, <2>2, RoundsExist
  <2> QED
    BY <2>3 DEF nil
<1>7. g = [i \in 0..n |-> Step(g, i)]
  <2>1. ASSUME NEW i \in 0..n PROVE g[i] = Step(g, i)
    <3>1. i # 0 => i \in 1..n /\ i - 1 \in 0..n
      BY <1>1
    <3> QED
      BY <1>4, <1>5, <1>6, <3>1 DEF RoundsOf
  <2> QED
    BY <2>1
<1>8. w = [i \in 0..n |-> Step(w, i)]
  BY <1>7 DEF w
<1>9. \A i \in 0..n : w[i] = Step(w, i)
  <2> DEFINE G(x) == [i \in 0..n |-> Step(x, i)]
  <2>1. w = G(w) /\ \A i \in 0..n : G(w)[i] = Step(w, i)
    BY <1>8
  <2> HIDE DEF G
  <2> QED
    BY <2>1
<1> DEFINE P == {i \in 0..n : w[i] = g[i]}
<1>10. 0 \in P
  BY <1>1, <1>4, <1>6, <1>9 DEF RoundsOf
<1>11. ASSUME NEW i \in 1..n, i - 1 \in P PROVE i \in P
  <2>1. i \in 0..n /\ i - 1 \in 0..n /\ i # 0
    BY <1>1
  <2>2. w[i] = Next1(w[i - 1], i) /\ w[i - 1] = g[i - 1]
    BY <1>4, <1>9, <1>11, <2>1
  <2>3. g[i] = Next1(g[i - 1], i)
    BY <1>5, <1>6, <2>1 DEF RoundsOf
  <2> QED
    BY <2>1, <2>2, <2>3
<1>12. \A i \in 0..n : i \in P
  <2> HIDE DEF P, n
  <2> QED
    BY <1>1, <1>10, <1>11, EveryRound
<1>13. n \in 0..n /\ w[n] = g[n]
  BY <1>1, <1>12
<1>14. KeptRounds(g, s, S)
  <2>1. ASSUME NEW i \in 1..n PROVE g[i] = Next1(g[i - 1], i)
    <3>1. i - 1 \in 0..n
      BY <1>1
    <3> QED
      BY <1>5, <1>6, <3>1 DEF RoundsOf
  <2> QED
    BY <1>6, <2>1 DEF KeptRounds, RoundsOf, Next1
<1> QED
  BY <1>3, <1>13, <1>14 DEF X

LEMMA KeptType ==
  ASSUME NEW T, NEW s \in Seq(T), NEW S
  PROVE  Kept(s, S) \in Seq(T \cap S) /\ Len(Kept(s, S)) \in Nat /\ Len(Kept(s, S)) <= Len(s)
<1> DEFINE n == Len(s)
           X == Seq(T \cap S)
           Short(v, i) == v \in X /\ Len(v) \in Nat /\ Len(v) <= i
<1>1. PICK k \in [0..n -> Seq(T)] : KeptRounds(k, s, S) /\ Kept(s, S) = k[n]
  BY KeptIs
<1>2. n \in Nat
  BY LenProperties
<1> DEFINE P == {i \in 0..n : Short(k[i], i)}
<1>3. 0 \in P
  <2>1. k[0] \in X /\ Len(k[0]) = 0
    BY <1>1, EmptySeq DEF KeptRounds
  <2> HIDE DEF X
  <2> QED
    BY <1>2, <2>1
<1>4. ASSUME NEW i \in 1..n, i - 1 \in P PROVE i \in P
  <2>1. Short(k[i - 1], i - 1) /\ i \in 0..n /\ i \in Nat
    BY <1>2, <1>4
  <2>2. k[i] = IF s[i] \in S THEN Append(k[i - 1], s[i]) ELSE k[i - 1]
    BY <1>1 DEF KeptRounds
  <2>3. CASE s[i] \in S
    <3>1. s[i] \in T \cap S
      BY <2>3, ElementOfSeq
    <3>2. Append(k[i - 1], s[i]) \in X /\ Len(Append(k[i - 1], s[i])) = Len(k[i - 1]) + 1
      BY <2>1, <3>1, AppendProperties
    <3> HIDE DEF X
    <3>3. Short(k[i], i)
      BY <2>1, <2>2, <2>3, <3>2
    <3> QED
      BY <2>1, <3>3
  <2>4. CASE s[i] \notin S
    <3> HIDE DEF X
    <3>1. Short(k[i], i)
      BY <2>1, <2>2, <2>4
    <3> QED
      BY <2>1, <3>1
  <2> QED
    BY <2>3, <2>4
<1> HIDE DEF P
<1>5. \A i \in 0..n : i \in P
  <2> HIDE DEF n
  <2> QED
    BY <1>2, <1>3, <1>4, EveryRound
<1>6. Short(k[n], n)
  <2>1. n \in P
    BY <1>2, <1>5
  <2> HIDE DEF Short
  <2> QED
    BY <2>1 DEF P
<1> QED
  BY <1>1, <1>6

\* What is kept depends only on what is kept.
LEMMA KeptSame ==
  ASSUME NEW T, NEW U, NEW s \in Seq(T), NEW t \in Seq(U), NEW S, NEW R, Len(s) = Len(t),
         \A i \in 1..Len(s) : (s[i] \in S <=> t[i] \in R) /\ (s[i] \in S => s[i] = t[i])
  PROVE  Kept(s, S) = Kept(t, R)
<1> DEFINE n == Len(s)
<1>1. PICK k \in [0..n -> Seq(T)] : KeptRounds(k, s, S) /\ Kept(s, S) = k[n]
  BY KeptIs
<1>2. PICK l \in [0..n -> Seq(U)] : KeptRounds(l, t, R) /\ Kept(t, R) = l[n]
  BY KeptIs
<1>3. n \in Nat /\ n = Len(t)
  BY LenProperties
<1> HIDE DEF n
<1> DEFINE P == {i \in 0..n : k[i] = l[i]}
<1>4. 0 \in P
  BY <1>1, <1>2, <1>3 DEF KeptRounds
<1>5. ASSUME NEW i \in 1..n, i - 1 \in P PROVE i \in P
  <2>1. k[i - 1] = l[i - 1] /\ i \in 0..n /\ i \in 1..Len(s) /\ i \in 1..Len(t)
    BY <1>3, <1>5 DEF n
  <2>2. k[i] = l[i]
    BY <1>1, <1>2, <2>1 DEF KeptRounds
  <2> QED
    BY <2>1, <2>2
<1> HIDE DEF P
<1>6. \A i \in 0..n : i \in P
  BY <1>3, <1>4, <1>5, EveryRound
<1>7. n \in P
  BY <1>3, <1>6
<1> QED
  BY <1>1, <1>2, <1>7 DEF P

\* Of a sequence in order, what has its like not behind it is in strict order, and
\* is all there is.
LEMMA KeptOnce ==
  ASSUME NEW s \in Seq(Strings), InOrder(s, FALSE)
  PROVE  LET u == Kept(Gappy(s), Strings)
         IN /\ \A i, j \in 1..Len(u) : i < j => u[i] < u[j]
            /\ \A m \in 1..Len(s) : \E j \in 1..Len(u) : u[j] = s[m]
            /\ \A j \in 1..Len(u) : \E m \in 1..Len(s) : u[j] = s[m]
<1> DEFINE n == Len(s)
           g == Gappy(s)
           T == Strings \cup {NULL}
           More(i) == i < n /\ s[i] = s[i + 1]
<1>1. n \in Nat /\ DOMAIN s = 1..n /\ Strings \subseteq Int /\ NULL \notin Strings
  BY LenProperties, StringsAssumption
<1>2. \A i \in 1..n : s[i] \in Strings /\ s[i] \in Int
  BY <1>1, ElementOfSeq
<1>3. \A i \in 1..n : g[i] = IF More(i) THEN NULL ELSE s[i]
  BY <1>1 DEF Gappy
<1>4. g \in Seq(T) /\ Len(g) = n
  <2>1. g = [i \in 1..n |-> IF More(i) THEN NULL ELSE s[i]]
    BY <1>1 DEF Gappy
  <2>2. g \in [1..n -> T]
    BY <1>2, <2>1
  <2> HIDE DEF g, n
  <2> QED
    BY <1>1, <2>2
<1>5. PICK k \in [0..n -> Seq(T)] : KeptRounds(k, g, Strings) /\ Kept(g, Strings) = k[n]
  <2> HIDE DEF g
  <2> QED
    BY <1>4, KeptIs
<1> HIDE DEF g
<1>6. \A i \in 1..n : k[i] = IF More(i) THEN k[i - 1] ELSE Append(k[i - 1], s[i])
  <2>1. \A i \in 1..n : k[i] = IF g[i] \in Strings THEN Append(k[i - 1], g[i]) ELSE k[i - 1]
    BY <1>4, <1>5 DEF KeptRounds
  <2> QED
    BY <1>1, <1>2, <1>3, <2>1
<1> DEFINE Good(i) ==
      /\ \A j, l \in 1..Len(k[i]) : j < l => k[i][j] < k[i][l]
      /\ \A j \in 1..Len(k[i]) : i < n => k[i][j] < s[i + 1]
      /\ \A m \in 1..i : (More(i) /\ s[m] = s[i + 1]) \/ \E j \in 1..Len(k[i]) : k[i][j] = s[m]
      /\ \A j \in 1..Len(k[i]) : \E m \in 1..i : k[i][j] = s[m]
    P == {i \in 0..n : Good(i)}
<1>7. 0 \in P
  <2>1. Len(k[0]) = 0
    BY <1>5, EmptySeq DEF KeptRounds
  <2> QED
    BY <1>1, <2>1
<1>8. ASSUME NEW i \in 1..n, i - 1 \in P PROVE i \in P
  <2> DEFINE h == i - 1
             v == k[h]
             x == s[i]
  <2>1. h \in 0..n /\ h \in Nat /\ h + 1 = i /\ h < n /\ i \in 0..n /\ i \in Nat
    BY <1>1
  <2>2. Good(h)
    BY <1>8
  <2>3. v \in Seq(T) /\ Len(v) \in Nat
    BY <1>5, <2>1, LenProperties
  <2> HIDE DEF P, h
  <2>4. /\ \A j, l \in 1..Len(v) : j < l => v[j] < v[l]
        /\ \A j \in 1..Len(v) : v[j] < x
        /\ \A m \in 1..h : s[m] = x \/ \E j \in 1..Len(v) : v[j] = s[m]
        /\ \A j \in 1..Len(v) : \E m \in 1..h : v[j] = s[m]
    BY <2>1, <2>2
  <2>5. x \in Int /\ \A j \in 1..Len(v) : v[j] \in Int
    <3>1. \A m \in 1..h : m \in 1..n
      BY <1>1, <2>1
    <3> QED
      BY <1>2, <2>4, <3>1
  <2>6. i < n => i + 1 \in 1..n /\ s[i + 1] \in Int /\ x <= s[i + 1]
    <3> SUFFICES ASSUME i < n PROVE i + 1 \in 1..n /\ s[i + 1] \in Int /\ x <= s[i + 1]
      OBVIOUS
    <3>1. i + 1 \in 1..n /\ i < i + 1
      BY <1>1, <2>1
    <3>2. s[i] <= s[i + 1]
      BY <1>1, <3>1 DEF InOrder
    <3> QED
      BY <1>2, <3>1, <3>2
  <2>7. CASE More(i)
    <3>1. k[i] = v
      BY <1>6, <2>7 DEF h
    <3>2. i < n /\ x = s[i + 1]
      BY <2>7
    <3> HIDE DEF v, x
    <3>3. \A m \in 1..i : m \in 1..h \/ m = i
      BY <2>1
    <3>4. \A m \in 1..h : m \in 1..i
      BY <2>1
    <3>5. \A m \in 1..i : s[m] = s[i + 1] \/ \E j \in 1..Len(v) : v[j] = s[m]
      BY <2>4, <3>2, <3>3 DEF x
    <3>6. \A j \in 1..Len(v) : \E m \in 1..i : v[j] = s[m]
      BY <2>4, <3>4
    <3>7. Good(i)
      <4> HIDE DEF n
      <4> QED
        BY <2>4, <2>7, <3>1, <3>2, <3>5, <3>6
    <3> HIDE DEF Good
    <3> QED
      BY <2>1, <3>7 DEF P
  <2>8. CASE ~More(i)
    <3> DEFINE z == Append(v, x)
    <3>1. k[i] = z
      BY <1>6, <2>8 DEF h
    <3>2. i < n => x < s[i + 1]
      BY <2>5, <2>6, <2>8
    <3>3. x \in T
      BY <1>2
    <3> HIDE DEF v, x
    <3> DEFINE q == Len(v) + 1
    <3>4. Len(z) = q /\ z[q] = x /\ \A j \in 1..Len(v) : z[j] = v[j]
      BY <2>3, <3>3, AppendProperties
    <3>5. /\ q \in 1..q /\ \A j \in 1..q : j \in 1..Len(v) \/ j = q
          /\ \A j \in 1..Len(v) : j \in 1..q /\ j < q /\ ~(q < j)
      BY <2>3
    <3> HIDE DEF q, z
    <3>6. \A j, l \in 1..q : j < l => z[j] < z[l]
      <4> SUFFICES ASSUME NEW j \in 1..q, NEW l \in 1..q, j < l PROVE z[j] < z[l]
        OBVIOUS
      <4>1. j \in 1..Len(v)
        BY <2>3, <3>5 DEF q
      <4>2. CASE l = q
        BY <2>4, <3>4, <4>1, <4>2
      <4>3. CASE l \in 1..Len(v)
        BY <2>4, <3>4, <4>1, <4>3
      <4> QED
        BY <3>5, <4>2, <4>3
    <3>7. \A j \in 1..q : i < n => z[j] < s[i + 1]
      <4> SUFFICES ASSUME NEW j \in 1..q, i < n PROVE z[j] < s[i + 1]
        OBVIOUS
      <4>1. CASE j = q
        BY <3>2, <3>4, <4>1
      <4>2. CASE j \in 1..Len(v)
        <5>1. z[j] = v[j] /\ v[j] < x /\ v[j] \in Int /\ x \in Int /\ x < s[i + 1] /\ s[i + 1] \in Int
          BY <2>4, <2>5, <2>6, <3>2, <3>4, <4>2
        <5> QED
          BY <5>1
      <4> QED
        BY <3>5, <4>1, <4>2
    <3>8. \A m \in 1..i : \E j \in 1..q : z[j] = s[m]
      <4> SUFFICES ASSUME NEW m \in 1..i PROVE \E j \in 1..q : z[j] = s[m]
        OBVIOUS
      <4>1. CASE s[m] = x
        BY <3>4, <3>5, <4>1
      <4>2. CASE s[m] # x
        <5>1. m \in 1..h
          BY <2>1, <4>2 DEF x
        <5>2. PICK j \in 1..Len(v) : v[j] = s[m]
          BY <2>4, <4>2, <5>1
        <5> QED
          BY <3>4, <3>5, <5>2
      <4> QED
        BY <4>1, <4>2
    <3>9. \A j \in 1..q : \E m \in 1..i : z[j] = s[m]
      <4> SUFFICES ASSUME NEW j \in 1..q PROVE \E m \in 1..i : z[j] = s[m]
        OBVIOUS
      <4>1. i \in 1..i /\ \A m \in 1..h : m \in 1..i
        BY <2>1
      <4>2. CASE j = q
        BY <3>4, <4>1, <4>2 DEF x
      <4>3. CASE j \in 1..Len(v)
        BY <2>4, <3>4, <4>1, <4>3
      <4> QED
        BY <3>5, <4>2, <4>3
    <3>10. Good(i)
      <4> HIDE DEF n
      <4> QED
        BY <3>1, <3>4, <3>6, <3>7, <3>8, <3>9
    <3> HIDE DEF Good
    <3> QED
      BY <2>1, <3>10 DEF P
  <2> QED
    BY <2>7, <2>8
<1> HIDE DEF P
<1>9. \A i \in 0..n : i \in P
  <2> HIDE DEF n
  <2> QED
    BY <1>1, <1>7, <1>8, EveryRound
<1>10. Good(n)
  <2>1. n \in P
    BY <1>1, <1>9
  <2> HIDE DEF Good
  <2> QED
    BY <2>1 DEF P
<1>11. ~More(n)
  BY <1>1
<1> QED
  BY <1>5, <1>10, <1>11 DEF g

\* What two lists have in common is of the one as well as of the other.
LEMMA CommonType ==
  ASSUME NEW T, NEW s \in Seq(T), NEW t \in Seq(T)
  PROVE  Common(s, t) \in Seq(T)
<1> DEFINE n == Len(s)
           X == Seq(T)
           Next1(v, i) == v \o Kept(t, {s[i]})
           F == [p \in X \X (1..n) |-> Next1(p[1], p[2])]
           Step(p, i) == IF i = 0 THEN <<>> ELSE p[i - 1] \o Kept(t, {s[i]})
           w == CHOOSE w : w = [i \in 0..n |-> Step(w, i)]
<1>1. n \in Nat /\ <<>> \in X
  BY LenProperties, EmptySeq
<1>2. ASSUME NEW v \in X, NEW i \in 1..n PROVE Next1(v, i) \in X
  <2>1. Kept(t, {s[i]}) \in Seq(T \cap {s[i]})
    BY KeptType
  <2>2. Kept(t, {s[i]}) \in X
    <3> DEFINE R == T \cap {s[i]}
               y == Kept(t, {s[i]})
    <3>1. R \subseteq T /\ y \in Seq(R)
      BY <2>1
    <3> HIDE DEF R, y
    <3>2. y \in Seq(T)
      BY <3>1, SeqMonotonic
    <3> QED
      BY <3>2 DEF y
  <2> QED
    BY <2>2, ConcatProperties
<1>3. Common(s, t) = w[n]
  BY DEF Common
<1>4. \A p, i : Step(p, i) = IF i = 0 THEN <<>> ELSE Next1(p[i - 1], i)
  OBVIOUS
<1> HIDE DEF Next1, Step, w, X
<1>5. \A v \in X, i \in 1..n : F[<<v, i>>] = Next1(v, i)
  OBVIOUS
<1> HIDE DEF F
<1>6. PICK g \in [0..n -> X] : RoundsOf(g, F, n, <<>>)
  <2> DEFINE nil == <<>>
  <2>1. Closed(F, n, X)
    BY <1>2, <1>5 DEF Closed
  <2>2. nil \in X
    BY <1>1
  <2> HIDE DEF nil, n
  <2>3. \E g \in [0..n -> X] : RoundsOf(g, F, n, nil)
    BY <1>1, <2>1, <2>2, RoundsExist
  <2> QED
    BY <2>3 DEF nil
<1>7. g = [i \in 0..n |-> Step(g, i)]
  <2>1. ASSUME NEW i \in 0..n PROVE g[i] = Step(g, i)
    <3>1. i # 0 => i \in 1..n /\ i - 1 \in 0..n
      BY <1>1
    <3> QED
      BY <1>4, <1>5, <1>6, <3>1 DEF RoundsOf
  <2> QED
    BY <2>1
<1>8. w = [i \in 0..n |-> Step(w, i)]
  BY <1>7 DEF w
<1>9. \A i \in 0..n : w[i] = Step(w, i)
  <2> DEFINE G(x) == [i \in 0..n |-> Step(x, i)]
  <2>1. w = G(w) /\ \A i \in 0..n : G(w)[i] = Step(w, i)
    BY <1>8
  <2> HIDE DEF G
  <2> QED
    BY <2>1
<1> DEFINE P == {i \in 0..n : w[i] \in X}
<1>10. 0 \in P
  BY <1>1, <1>4, <1>9
<1>11. ASSUME NEW i \in 1..n, i - 1 \in P PROVE i \in P
  <2>1. i \in 0..n /\ i # 0 /\ w[i - 1] \in X
    BY <1>1, <1>11
  <2>2. w[i] = Next1(w[i - 1], i)
    BY <1>4, <1>9, <2>1
  <2> QED
    BY <1>2, <2>1, <2>2
<1>12. \A i \in 0..n : i \in P
  <2> HIDE DEF P, n
  <2> QED
    BY <1>1, <1>10, <1>11, EveryRound
<1>13. w[n] \in X
  BY <1>1, <1>12
<1> QED
  BY <1>3, <1>13 DEF X

-----------------------------------------------------------------------------
(* Arrays                                                                  *)

\* There is always room for a NULL behind n strings (STRINGS_EXPAND).
LEMMA ExpandIs ==
  ASSUME NEW n \in Nat
  PROVE  Expand(n) \in Nat /\ Expand(n) > n
<1> DEFINE q == n \div ExpFactor
<1>1. ExpFactor \in Nat /\ ExpFactor > 0
  BY StringsAssumption
<1>2. q \in Nat /\ n % ExpFactor \in 0..ExpFactor - 1 /\ n = ExpFactor * q + (n % ExpFactor)
  BY <1>1, SMT
<1> HIDE DEF q
<1>3. (q + 1) * ExpFactor = ExpFactor * q + ExpFactor /\ ExpFactor * q \in Nat
  BY <1>1, <1>2, SMT
<1>4. (q + 1) * ExpFactor \in Nat /\ (q + 1) * ExpFactor > n
  BY <1>1, <1>2, <1>3, SMT
<1> QED
  BY <1>4 DEF Expand, q

\* As many slots as strings there never are (src/strings.c:215-233, 458-472).
LEMMA GrownIs ==
  ASSUME NEW n \in Nat
  PROVE  Grown(n) \in Nat /\ Grown(n) > n
<1> DEFINE e == Expand(1)
           Next1(v, i) == v + IF v = i THEN e ELSE 0
           F == [p \in Nat \X (1..n) |-> Next1(p[1], p[2])]
           Step(p, i) == IF i = 0 THEN InitLen ELSE p[i - 1] + IF p[i - 1] = i THEN e ELSE 0
           w == CHOOSE w : w = [i \in 0..n |-> Step(w, i)]
<1>1. InitLen \in Nat /\ InitLen > 0
  BY StringsAssumption
<1>2. e \in Nat /\ e > 1
  BY ExpandIs
<1>3. Grown(n) = w[n]
  BY DEF Grown
<1>4. \A p, i : Step(p, i) = IF i = 0 THEN InitLen ELSE Next1(p[i - 1], i)
  OBVIOUS
<1> HIDE DEF e
<1>5. \A v \in Nat, i \in 1..n : Next1(v, i) \in Nat /\ (v > i - 1 => Next1(v, i) > i)
  BY <1>2
<1> HIDE DEF Next1, Step, w
<1>6. \A v \in Nat, i \in 1..n : F[<<v, i>>] = Next1(v, i)
  OBVIOUS
<1> HIDE DEF F
<1>7. PICK g \in [0..n -> Nat] : RoundsOf(g, F, n, InitLen)
  <2>1. Closed(F, n, Nat)
    BY <1>5, <1>6 DEF Closed
  <2> QED
    BY <1>1, <2>1, RoundsExist
<1>8. g = [i \in 0..n |-> Step(g, i)]
  <2>1. ASSUME NEW i \in 0..n PROVE g[i] = Step(g, i)
    <3>1. i # 0 => i \in 1..n /\ i - 1 \in 0..n
      OBVIOUS
    <3> QED
      BY <1>4, <1>6, <1>7, <3>1 DEF RoundsOf
  <2> QED
    BY <2>1
<1>9. w = [i \in 0..n |-> Step(w, i)]
  BY <1>8 DEF w
<1>10. \A i \in 0..n : w[i] = Step(w, i)
  <2> DEFINE G(x) == [i \in 0..n |-> Step(x, i)]
  <2>1. w = G(w) /\ \A i \in 0..n : G(w)[i] = Step(w, i)
    BY <1>9
  <2> HIDE DEF G
  <2> QED
    BY <2>1
<1> DEFINE P == {i \in 0..n : w[i] \in Nat /\ w[i] > i}
<1>11. 0 \in P
  BY <1>1, <1>4, <1>10
<1>12. ASSUME NEW i \in 1..n, i - 1 \in P PROVE i \in P
  <2>1. i \in 0..n /\ i # 0 /\ w[i - 1] \in Nat /\ w[i - 1] > i - 1
    BY <1>12
  <2>2. w[i] = Next1(w[i - 1], i)
    BY <1>4, <1>10, <2>1
  <2> QED
    BY <1>5, <2>1, <2>2
<1> HIDE DEF P
<1>13. \A i \in 0..n : i \in P
  BY <1>11, <1>12, EveryRound
<1>14. n \in P
  BY <1>13
<1> QED
  BY <1>3, <1>14 DEF P

\* The pointer that reads is behind the strings once they are read.
LEMMA ReadIs ==
  ASSUME NEW array, NEW n \in Nat, NEW m \in Nat
  PROVE  \A i \in 1..m : ReadAt(array, n, m)[i] \in Nat /\ ReadAt(array, n, m)[i] > n
<1> DEFINE At(p) == IF p <= Len(array) THEN array[p] ELSE Junk
           Next1(v) == IF At(v + 1) = NULL THEN v + 1 + 1 ELSE v + 1
           F == [p \in Nat \X (1..m) |-> Next1(p[1])]
           From(p, i) == IF i = 1 THEN n + 1 ELSE p[i - 1] + 1
           Step(p, i) == IF At(From(p, i)) = NULL THEN From(p, i) + 1 ELSE From(p, i)
           w == CHOOSE w : w = [i \in 1..m |-> Step(w, i)]
<1>1. ReadAt(array, n, m) = w
  BY DEF ReadAt
<1> HIDE DEF At
<1>2. \A v \in Nat : Next1(v) \in Nat /\ Next1(v) > v
  OBVIOUS
<1>3. \A p, i : Step(p, i) = IF i = 1 THEN Next1(n) ELSE Next1(p[i - 1])
  OBVIOUS
<1> HIDE DEF Next1, Step, w
<1>4. \A v \in Nat, i \in 1..m : F[<<v, i>>] = Next1(v)
  OBVIOUS
<1> HIDE DEF F
<1>5. PICK g \in [0..m -> Nat] : RoundsOf(g, F, m, n)
  <2>1. Closed(F, m, Nat)
    BY <1>2, <1>4 DEF Closed
  <2> QED
    BY <2>1, RoundsExist
<1> DEFINE h == [i \in 1..m |-> g[i]]
<1>6. h = [i \in 1..m |-> Step(h, i)]
  <2>1. ASSUME NEW i \in 1..m PROVE g[i] = Step(h, i)
    <3>1. i - 1 \in 0..m /\ (i # 1 => i - 1 \in 1..m)
      OBVIOUS
    <3>2. g[i] = Next1(g[i - 1])
      BY <1>4, <1>5, <3>1 DEF RoundsOf
    <3>3. CASE i = 1
      BY <1>3, <1>5, <3>2, <3>3 DEF RoundsOf
    <3>4. CASE i # 1
      BY <1>3, <3>1, <3>2, <3>4
    <3> QED
      BY <3>3, <3>4
  <2> QED
    BY <2>1
<1> HIDE DEF h
<1>7. w = [i \in 1..m |-> Step(w, i)]
  BY <1>6 DEF w
<1>8. \A i \in 1..m : w[i] = Step(w, i)
  <2> DEFINE G(x) == [i \in 1..m |-> Step(x, i)]
  <2>1. w = G(w) /\ \A i \in 1..m : G(w)[i] = Step(w, i)
    BY <1>7
  <2> HIDE DEF G
  <2> QED
    BY <2>1
<1> DEFINE P == {i \in 0..m : i = 0 \/ (w[i] \in Nat /\ w[i] > n)}
<1>9. 0 \in P
  OBVIOUS
<1>10. ASSUME NEW i \in 1..m, i - 1 \in P PROVE i \in P
  <2>1. CASE i = 1
    <3>1. w[i] = Next1(n)
      BY <1>3, <1>8, <2>1
    <3> HIDE DEF P
    <3>2. w[i] \in Nat /\ w[i] > n
      BY <1>2, <3>1
    <3> QED
      BY <3>2 DEF P
  <2>2. CASE i # 1
    <3>1. w[i - 1] \in Nat /\ w[i - 1] > n
      BY <1>10, <2>2
    <3>2. w[i] = Next1(w[i - 1])
      BY <1>3, <1>8, <2>2
    <3> HIDE DEF P
    <3> DEFINE v == w[i - 1]
    <3>3. v \in Nat /\ v > n /\ w[i] = Next1(v)
      BY <3>1, <3>2
    <3> HIDE DEF v
    <3>4. w[i] \in Nat /\ w[i] > n
      BY <1>2, <3>3
    <3> QED
      BY <3>4 DEF P
  <2> QED
    BY <2>1, <2>2
<1> HIDE DEF P
<1>11. \A i \in 0..m : i \in P
  BY <1>9, <1>10, EveryRound
<1>12. \A i \in 1..m : i \in P /\ i # 0
  BY <1>11
<1> QED
  BY <1>1, <1>12 DEF P

-----------------------------------------------------------------------------
(* The invariant                                                           *)

SlotValues == Strings \cup {NULL, Junk}

\* The array a begins with s, and has a NULL behind it, unless one was read over.
Array(a, s, over) ==
  /\ a \in Seq(SlotValues) /\ Len(s) < Len(a)
  /\ \A i \in 1..Len(a) : IF i <= Len(s) THEN a[i] = s[i] ELSE over \/ a[i] = NULL

StringsInv ==
  /\ num \in [Lists -> 0..MaxStrings] /\ slots \in [Lists -> Seq(SlotValues)]
  /\ overread \in BOOLEAN /\ stringsRet \in BOOLEAN
  /\ \A x \in Lists : \E s \in Seq(Strings) : Len(s) = num[x] /\ Array(slots[x], s, overread)

LEMMA ArrayIs ==
  ASSUME NEW s \in Seq(Strings), NEW a, NEW over, Array(a, s, over)
  PROVE  SubSeq(a, 1, Len(s)) = s
<1> DEFINE one == 1
           n == Len(s)
<1>1. n \in Nat /\ Len(a) \in Nat /\ n < Len(a) /\ a \in Seq(SlotValues)
  BY LenProperties DEF Array
<1>2. one \in Int /\ n \in Int /\ n - one + 1 = n /\ (IF one <= n THEN n - one + 1 ELSE 0) = n
  BY <1>1
<1>3. \A i \in one..n : a[i] \in SlotValues
  <2> SUFFICES ASSUME NEW i \in 1..n PROVE a[i] \in SlotValues
    OBVIOUS
  <2>1. i \in 1..Len(a)
    BY <1>1
  <2> QED
    BY <1>1, <2>1, ElementOfSeq
<1>4. \A i \in 1..n : one + i - 1 = i
  BY <1>1
<1>5. \A i \in 1..n : a[i] = s[i]
  BY <1>1 DEF Array
<1> HIDE DEF one, n
<1>6. /\ SubSeq(a, one, n) \in Seq(SlotValues)
      /\ Len(SubSeq(a, one, n)) = IF one <= n THEN n - one + 1 ELSE 0
      /\ \A i \in 1..n - one + 1 : SubSeq(a, one, n)[i] = a[one + i - 1]
  BY <1>2, <1>3, SubSeqProperties
<1> DEFINE u == SubSeq(a, one, n)
<1>7. u \in Seq(SlotValues) /\ Len(u) = n /\ \A i \in 1..n : u[i] = a[one + i - 1]
  BY <1>2, <1>6
<1> HIDE DEF u
<1>8. \A i \in 1..n : u[i] = s[i]
  BY <1>4, <1>5, <1>7
<1>9. u = s
  BY <1>7, <1>8, SeqEqual DEF n
<1> QED
  BY <1>9 DEF u, one, n

LEMMA ContentIs ==
  ASSUME StringsInv, NEW x \in Lists
  PROVE  /\ Content(x) \in Seq(Strings) /\ Len(Content(x)) = num[x] /\ num[x] \in Nat
         /\ Array(slots[x], Content(x), overread)
         /\ \A i \in 1..num[x] : slots[x][i] = Content(x)[i] /\ slots[x][i] \in Strings
         /\ slots[x] \in Seq(SlotValues) /\ Len(slots[x]) \in Nat /\ num[x] < Len(slots[x])
<1>1. PICK s \in Seq(Strings) : Len(s) = num[x] /\ Array(slots[x], s, overread)
  BY DEF StringsInv
<1>2. Content(x) = s
  BY <1>1, ArrayIs DEF Content
<1>3. Len(s) \in Nat /\ Len(slots[x]) \in Nat /\ slots[x] \in Seq(SlotValues)
  BY <1>1, LenProperties DEF Array
<1>4. \A i \in 1..num[x] : slots[x][i] = s[i] /\ s[i] \in Strings
  BY <1>1, <1>3, ElementOfSeq DEF Array
<1> QED
  BY <1>1, <1>2, <1>3, <1>4 DEF Array

\* A call that gives x the strings s, and to no other list anything.
LEMMA StoreIs ==
  ASSUME StringsInv, NEW x \in Lists, NEW s \in Seq(Strings), NEW a, NEW n, n = Len(s),
         Array(a, s, overread'), Store(x, n, a), overread => overread',
         overread' \in BOOLEAN, stringsRet' \in BOOLEAN
  PROVE  StringsInv' /\ AsLists!Becomes(x, s, stringsRet')
<1>1. n \in 0..MaxStrings /\ a \in Seq(SlotValues)
  BY LenProperties, StringsAssumption DEF Store, Array
<1>2. /\ num' \in [Lists -> 0..MaxStrings] /\ slots' \in [Lists -> Seq(SlotValues)]
      /\ num'[x] = n /\ slots'[x] = a
      /\ \A y \in Lists : y # x => num'[y] = num[y] /\ slots'[y] = slots[y]
  BY <1>1 DEF Store, StringsInv
<1>3. ASSUME NEW y \in Lists
      PROVE  /\ \E t \in Seq(Strings) : Len(t) = num'[y] /\ Array(slots'[y], t, overread')
             /\ Content(y)' = IF y = x THEN s ELSE Content(y)
  <2>1. CASE y = x
    <3>1. Content(x)' = s
      BY <1>2, ArrayIs DEF Content
    <3> QED
      BY <1>2, <2>1, <3>1
  <2>2. CASE y # x
    <3>1. PICK t \in Seq(Strings) : Len(t) = num[y] /\ Array(slots[y], t, overread)
      BY DEF StringsInv
    <3>2. Array(slots[y], t, overread')
      BY <3>1 DEF Array
    <3> QED
      BY <1>2, <2>2, <3>1, <3>2 DEF Content
  <2> QED
    BY <2>1, <2>2
<1>4. StringsInv'
  BY <1>2, <1>3 DEF StringsInv
<1>5. [y \in Lists |-> Content(y)]' = [[y \in Lists |-> Content(y)] EXCEPT ![x] = s]
  BY <1>3
<1> QED
  BY <1>1, <1>4, <1>5 DEF AsLists!Becomes

\* The operators of the abstract lists are those of the arrays.
LEMMA SameOperators ==
  /\ \A s : AsLists!Arrangements(s) = Arrangements(s) /\ AsLists!ToSet(s) = ToSet(s)
  /\ \A s, d : AsLists!InOrder(s, d) = InOrder(s, d)
  /\ \A s, t : AsLists!Kept(s, t) = Kept(s, t) /\ AsLists!Common(s, t) = Common(s, t)
  /\ \A s, e : AsLists!RemoveFirst(s, e) = RemoveFirst(s, e)
<1>1. \A s : AsLists!Arrangements(s) = Arrangements(s) /\ AsLists!ToSet(s) = ToSet(s)
  BY DEF AsLists!Arrangements, Arrangements, AsLists!ToSet, ToSet, AsLists!Bijection, Bijection,
         AsLists!Injection, Injection, AsLists!Surjection, Surjection, AsLists!IsInjective, IsInjective
<1>2. \A s, d : AsLists!InOrder(s, d) = InOrder(s, d)
  BY DEF AsLists!InOrder, InOrder
<1>3. \A s, t : AsLists!Kept(s, t) = Kept(s, t)
  BY DEF AsLists!Kept, Kept
<1>4. \A s, t : AsLists!Common(s, t) = Common(s, t)
  BY <1>3 DEF AsLists!Common, Common
<1>5. \A s, e : AsLists!RemoveFirst(s, e) = RemoveFirst(s, e)
  BY DEF AsLists!RemoveFirst, RemoveFirst, AsLists!RemoveAt, RemoveAt, AsLists!SelectInSeq, SelectInSeq,
         AsLists!Min, Min
<1> QED
  BY <1>1, <1>2, <1>3, <1>4, <1>5

\* What makes a step of the abstract lists.
LEMMA Steps ==
  ASSUME NEW x \in Lists, NEW y \in Lists, NEW z \in Lists, NEW str,
         \/ AsLists!Becomes(x, <<>>, stringsRet)
         \/ AsLists!Becomes(x, Content(y), stringsRet)
         \/ \E s \in Arrangements(Content(x)), d \in BOOLEAN :
              InOrder(s, d) /\ AsLists!Becomes(x, s, stringsRet)
         \/ \E n \in 0..Len(Content(x)) : \E s \in [1..n -> ToSet(Content(x))] :
              /\ ToSet(s) = ToSet(Content(x)) /\ \A i, j \in 1..n : i < j => s[i] < s[j]
              /\ AsLists!Becomes(x, s, stringsRet)
         \/ str \in Strings /\ AsLists!Becomes(x, Content(x), str \in ToSet(Content(x)))
         \/ str \in Strings /\ AsLists!Becomes(x, Append(Content(x), str), TRUE)
         \/ str \in Strings /\ AsLists!Becomes(x, RemoveFirst(Content(x), str), str \in ToSet(Content(x)))
         \/ AsLists!Becomes(x, Content(x) \o Content(y), TRUE)
         \/ AsLists!Becomes(x, Kept(Content(x), Strings \ ToSet(Content(y))), TRUE)
         \/ AsLists!Becomes(x, Common(Content(y), Content(z)), stringsRet)
         \/ AsLists!Becomes(x, Content(x), /\ Len(Content(x)) = Len(Content(y))
                                           /\ ToSet(Content(x)) = ToSet(Content(y)))
  PROVE  AsLists!StringListsNext
<1> DEFINE L == [v \in Lists |-> Content(v)]
<1>1. L[x] = Content(x) /\ L[y] = Content(y) /\ L[z] = Content(z)
  OBVIOUS
<1>2. (\E a, b \in Lists :
        \/ AsLists!Becomes(a, <<>>, stringsRet)
        \/ AsLists!Becomes(a, L[b], stringsRet)
        \/ \E s \in Arrangements(L[a]), d \in BOOLEAN :
             InOrder(s, d) /\ AsLists!Becomes(a, s, stringsRet)
        \/ \E n \in 0..Len(L[a]) : \E s \in [1..n -> ToSet(L[a])] :
             /\ ToSet(s) = ToSet(L[a]) /\ \A i, j \in 1..n : i < j => s[i] < s[j]
             /\ AsLists!Becomes(a, s, stringsRet)
        \/ \E e \in Strings :
             \/ AsLists!Becomes(a, L[a], e \in ToSet(L[a]))
             \/ AsLists!Becomes(a, Append(L[a], e), TRUE)
             \/ AsLists!Becomes(a, RemoveFirst(L[a], e), e \in ToSet(L[a]))
        \/ AsLists!Becomes(a, L[a] \o L[b], TRUE)
        \/ AsLists!Becomes(a, Kept(L[a], Strings \ ToSet(L[b])), TRUE)
        \/ \E c \in Lists : AsLists!Becomes(a, Common(L[b], L[c]), stringsRet)
        \/ AsLists!Becomes(a, L[a], /\ Len(L[a]) = Len(L[b])
                                    /\ ToSet(L[a]) = ToSet(L[b])))
      => AsLists!StringListsNext
  BY SameOperators, Zenon DEF AsLists!StringListsNext
<1> HIDE DEF L
<1> QED
  BY <1>1, <1>2, Zenon

-----------------------------------------------------------------------------
(* The calls                                                               *)

LEMMA FilledIs ==
  ASSUME NEW s \in Seq(Strings), NEW n \in Nat, n > Len(s), NEW over
  PROVE  Array(Filled(s, n), s, over)
<1> DEFINE A(i) == IF i <= Len(s) THEN s[i] ELSE NULL
           a == [i \in 1..n |-> A(i)]
<1>1. Len(s) \in Nat /\ \A i \in 1..Len(s) : s[i] \in Strings
  BY LenProperties, ElementOfSeq
<1>2. \A i \in 1..n : A(i) \in SlotValues /\ (i <= Len(s) => i \in 1..Len(s))
  BY <1>1 DEF SlotValues
<1>3. Filled(s, n) = a
  BY DEF Filled
<1> HIDE DEF A
<1>4. a \in [1..n -> SlotValues]
  BY <1>2
<1>5. \A i \in 1..n : a[i] = A(i)
  OBVIOUS
<1> HIDE DEF a
<1>6. a \in Seq(SlotValues) /\ Len(a) = n
  BY <1>4
<1> QED
  BY <1>3, <1>5, <1>6 DEF Array, A

\* strings_new(NULL), strings_dup()
LEMMA NewStep ==
  ASSUME StringsInv, NEW x \in Lists, StringsNew(x)
  PROVE  StringsInv' /\ AsLists!StringListsNext
<1> DEFINE s == <<>>
           a == Filled(s, InitLen)
<1>1. s \in Seq(Strings) /\ Len(s) = 0 /\ InitLen \in Nat /\ InitLen > 0
  BY EmptySeq, StringsAssumption
<1>2. Store(x, 0, a) /\ overread' = overread /\ stringsRet' = stringsRet
  BY DEF StringsNew
<1> HIDE DEF s
<1>3. Array(a, s, overread')
  BY <1>1, FilledIs
<1> HIDE DEF a
<1>4. StringsInv' /\ AsLists!Becomes(x, s, stringsRet')
  BY <1>1, <1>2, <1>3, StoreIs DEF StringsInv
<1> QED
  BY <1>2, <1>4, Steps DEF s

LEMMA DupStep ==
  ASSUME StringsInv, NEW x \in Lists, NEW y \in Lists, StringsDup(x, y)
  PROVE  StringsInv' /\ AsLists!StringListsNext
<1> DEFINE s == Content(y)
           n == Expand(num[y])
           a == Filled(s, n)
<1>1. s \in Seq(Strings) /\ num[y] = Len(s) /\ num[y] \in Nat
  BY ContentIs
<1>2. n \in Nat /\ n > Len(s)
  BY <1>1, ExpandIs
<1>3. Store(x, num[y], a) /\ overread' = overread /\ stringsRet' = stringsRet
  BY DEF StringsDup
<1> HIDE DEF s, n
<1>4. Array(a, s, overread')
  BY <1>1, <1>2, FilledIs
<1> HIDE DEF a
<1>5. StringsInv' /\ AsLists!Becomes(x, s, stringsRet')
  BY <1>1, <1>3, <1>4, StoreIs DEF StringsInv
<1> QED
  BY <1>3, <1>5, Steps DEF s

\* What is sorted has the same strings.
LEMMA ArrangedIs ==
  ASSUME NEW c \in Seq(Strings), NEW s \in Arrangements(c)
  PROVE  s \in Seq(Strings) /\ Len(s) = Len(c) /\ ToSet(s) = ToSet(c)
<1> DEFINE n == Len(c)
<1>1. n \in Nat /\ DOMAIN c = 1..n /\ \A i \in 1..n : c[i] \in Strings
  BY LenProperties, ElementOfSeq
<1>2. PICK p \in Bijection(1..n, 1..n) : s = [i \in 1..n |-> c[p[i]]]
  BY <1>1 DEF Arrangements
<1>3. p \in [1..n -> 1..n] /\ \A j \in 1..n : \E i \in 1..n : p[i] = j
  BY <1>2 DEF Bijection, Injection, Surjection
<1>4. s \in [1..n -> Strings] /\ \A i \in 1..n : s[i] = c[p[i]] /\ p[i] \in 1..n
  BY <1>1, <1>2, <1>3
<1> HIDE DEF n
<1>5. s \in Seq(Strings) /\ Len(s) = n /\ DOMAIN s = 1..n
  BY <1>1, <1>4
<1>6. ToSet(s) = ToSet(c)
  BY <1>1, <1>3, <1>4, <1>5 DEF ToSet
<1> QED
  BY <1>5, <1>6 DEF n

\* strings_sort() (src/strings.c:379-386)
LEMMA SortStep ==
  ASSUME StringsInv, NEW x \in Lists, NEW d \in BOOLEAN, StringsSort(x, d)
  PROVE  StringsInv' /\ AsLists!StringListsNext
<1> DEFINE c == Content(x)
           n == num[x]
           l == Len(slots[x])
           tail == SubSeq(slots[x], n + 1, l)
<1>1. PICK s \in Arrangements(c) : InOrder(s, d) /\ Store(x, n, s \o tail)
  BY DEF StringsSort, WithContent
<1>2. /\ c \in Seq(Strings) /\ Len(c) = n /\ n \in Nat
      /\ slots[x] \in Seq(SlotValues) /\ l \in Nat /\ n < l /\ Array(slots[x], c, overread)
  BY ContentIs
<1>3. s \in Seq(Strings) /\ Len(s) = n
  BY <1>2, ArrangedIs
<1>4. /\ tail \in Seq(SlotValues) /\ Len(tail) = l - n
      /\ \A i \in 1..l - n : tail[i] = slots[x][n + i]
  <2> DEFINE m == n + 1
  <2>1. /\ m \in Int /\ l \in Int /\ (IF m <= l THEN l - m + 1 ELSE 0) = l - n /\ l - m + 1 = l - n
        /\ \A i \in 1..l - n : m + i - 1 = n + i
    BY <1>2
  <2>2. \A i \in m..l : slots[x][i] \in SlotValues
    <3>1. \A i \in m..l : i \in 1..l
      BY <1>2
    <3> QED
      BY <1>2, <3>1, ElementOfSeq
  <2> HIDE DEF m, l, n
  <2>3. /\ SubSeq(slots[x], m, l) \in Seq(SlotValues)
        /\ Len(SubSeq(slots[x], m, l)) = IF m <= l THEN l - m + 1 ELSE 0
        /\ \A i \in 1..l - m + 1 : SubSeq(slots[x], m, l)[i] = slots[x][m + i - 1]
    BY <2>1, <2>2, SubSeqProperties
  <2>4. /\ SubSeq(slots[x], m, l) \in Seq(SlotValues) /\ Len(SubSeq(slots[x], m, l)) = l - n
        /\ \A i \in 1..l - n : SubSeq(slots[x], m, l)[i] = slots[x][n + i]
    BY <2>1, <2>3
  <2> QED
    BY <2>4 DEF m, tail
<1> HIDE DEF tail
<1> DEFINE a == s \o tail
<1>5. s \in Seq(SlotValues)
  BY <1>3, SeqMonotonic DEF SlotValues
<1>6. /\ a \in Seq(SlotValues) /\ Len(a) = Len(s) + Len(tail)
      /\ \A i \in 1..Len(s) + Len(tail) : a[i] = IF i <= Len(s) THEN s[i] ELSE tail[i - Len(s)]
  BY <1>4, <1>5, ConcatProperties
<1> HIDE DEF a
<1>7. Len(a) = l /\ \A i \in 1..l : IF i <= n THEN a[i] = s[i] ELSE a[i] = slots[x][i]
  <2>1. Len(a) = l
    BY <1>2, <1>3, <1>4, <1>6
  <2>2. ASSUME NEW i \in 1..l PROVE IF i <= n THEN a[i] = s[i] ELSE a[i] = slots[x][i]
    <3>1. i \in 1..Len(s) + Len(tail)
      BY <1>2, <1>3, <1>4
    <3>2. CASE i <= n
      BY <1>3, <1>6, <3>1, <3>2
    <3>3. CASE ~(i <= n)
      <4>1. i - n \in 1..l - n /\ n + (i - n) = i
        BY <1>2, <3>3
      <4> QED
        BY <1>3, <1>4, <1>6, <3>1, <3>3, <4>1
    <3> QED
      BY <3>2, <3>3
  <2> QED
    BY <2>1, <2>2
<1>8. overread' = overread /\ stringsRet' = stringsRet
  BY DEF StringsSort
<1>9. Array(a, s, overread')
  BY <1>2, <1>3, <1>6, <1>7, <1>8 DEF Array
<1>10. StringsInv' /\ AsLists!Becomes(x, s, stringsRet')
  BY <1>1, <1>3, <1>8, <1>9, StoreIs DEF StringsInv, a
<1> QED
  BY <1>1, <1>8, <1>10, Steps DEF c

\* s_strings_reduce() keeps what is not a gap, and shows what it has read behind
\* it only when it was behind the array (src/strings.c:236-257).
LEMMA ReduceIs ==
  ASSUME StringsInv, NEW x \in Lists, NEW gappy \in Seq(Strings \cup {NULL}),
         Len(gappy) = num[x], Reduce(x, gappy), stringsRet' \in BOOLEAN
  PROVE  /\ StringsInv' /\ Kept(gappy, Strings) \in Seq(Strings)
         /\ AsLists!Becomes(x, Kept(gappy, Strings), stringsRet')
<1> DEFINE kept == Kept(gappy, Strings)
           c == Content(x)
           m == num[x]
           k == Len(kept)
           array == slots[x]
           l == Len(array)
           gaps == m - k
           read == ReadAt(array, m, gaps)
           Beyond == {i \in 1..gaps : read[i] > l}
           Value(wild, i) == CASE i <= k -> kept[i]
                               [] i \in k + 1..m -> LET r == i - k IN
                                    IF r \in DOMAIN wild THEN wild[r] ELSE array[read[r]]
                               [] OTHER -> array[i]
           a(wild) == [i \in DOMAIN array |-> Value(wild, i)]
<1>1. /\ m \in Nat /\ array \in Seq(SlotValues) /\ l \in Nat /\ m < l /\ DOMAIN array = 1..l
      /\ Len(c) = m /\ Array(array, c, overread) /\ overread \in BOOLEAN
  BY ContentIs, LenProperties DEF StringsInv
<1>2. kept \in Seq(Strings) /\ k \in Nat /\ k <= m
  <2>1. Strings = (Strings \cup {NULL}) \cap Strings
    OBVIOUS
  <2> DEFINE T == Strings \cup {NULL}
  <2>2. Kept(gappy, Strings) \in Seq(T \cap Strings) /\ k \in Nat /\ k <= Len(gappy)
    BY KeptType
  <2> QED
    BY <2>1, <2>2
<1>3. PICK wild \in [Beyond -> {NULL, Junk}] :
        Store(x, k, a(wild)) /\ overread' = (overread \/ DOMAIN wild # {})
  BY DEF Reduce
<1>4. gaps \in Nat /\ \A i \in 1..gaps : read[i] \in Nat /\ read[i] > m
  <2>1. gaps \in Nat
    BY <1>1, <1>2
  <2> HIDE DEF gaps, m, array
  <2> QED
    BY <1>1, <2>1, ReadIs
<1>5. DOMAIN wild = Beyond /\ \A i \in Beyond : wild[i] \in {NULL, Junk}
  BY <1>3
<1>6. \A i \in 1..k : kept[i] \in Strings
  BY <1>2, ElementOfSeq
<1>7. \A i \in 1..l : array[i] \in SlotValues /\ (i > m => overread \/ array[i] = NULL)
  <2>1. \A i \in 1..l : array[i] \in SlotValues
    BY <1>1, ElementOfSeq
  <2>2. \A i \in 1..l : i > m => ~(i <= m)
    BY <1>1
  <2> QED
    BY <1>1, <2>1, <2>2 DEF Array
<1> HIDE DEF kept, c, array, read, Value
<1>8. \A r \in 1..gaps : r \notin Beyond => read[r] \in 1..l /\ read[r] > m
  <2> HIDE DEF gaps, m, l
  <2> QED
    BY <1>1, <1>4
<1> DEFINE V(i) == Value(wild, i)
           b == a(wild)
<1>9. ASSUME NEW i \in 1..l
      PROVE  V(i) \in SlotValues /\ IF i <= k THEN V(i) = kept[i] ELSE overread' \/ V(i) = NULL
  <2> HIDE DEF gaps, Beyond, k, m, l
  <2>1. CASE i <= k
    <3>1. i \in 1..k /\ V(i) = kept[i]
      BY <1>2, <2>1 DEF Value
    <3> QED
      BY <1>6, <2>1, <3>1 DEF SlotValues
  <2>2. CASE ~(i <= k) /\ i <= m
    <3> DEFINE r == i - k
    <3>1. r \in 1..gaps /\ i \in k + 1..m
      BY <1>1, <1>2, <2>2 DEF gaps, k, m
    <3>2. V(i) = IF r \in DOMAIN wild THEN wild[r] ELSE array[read[r]]
      BY <2>2, <3>1 DEF Value, k, m
    <3> HIDE DEF r, V
    <3>3. CASE r \in Beyond
      <4>1. V(i) = wild[r] /\ wild[r] \in {NULL, Junk} /\ overread'
        BY <1>3, <1>5, <3>2, <3>3
      <4> QED
        BY <2>2, <4>1 DEF SlotValues
    <3>4. CASE r \notin Beyond
      <4>1. V(i) = array[read[r]] /\ read[r] \in 1..l /\ read[r] > m
        BY <1>5, <1>8, <3>1, <3>2, <3>4
      <4>2. overread => overread'
        BY <1>3
      <4> QED
        BY <1>7, <2>2, <4>1, <4>2
    <3> QED
      BY <3>3, <3>4
  <2>3. CASE ~(i <= m)
    <3>1. ~(i <= k) /\ i \notin k + 1..m /\ i > m
      BY <1>1, <1>2, <2>3 DEF k, m, l
    <3>2. V(i) = array[i]
      BY <3>1 DEF Value, k, m
    <3>3. overread => overread'
      BY <1>3
    <3> HIDE DEF V
    <3> QED
      BY <1>7, <3>1, <3>2, <3>3
  <2> QED
    BY <2>1, <2>2, <2>3
<1> HIDE DEF gaps, Beyond, m, l, V
<1>10. b \in Seq(SlotValues) /\ Len(b) = l /\ \A i \in 1..l : b[i] = V(i)
  <2>1. b = [i \in 1..l |-> V(i)]
    BY <1>1 DEF V, l
  <2> HIDE DEF b
  <2>2. b \in [1..l -> SlotValues] /\ \A i \in 1..l : b[i] = V(i)
    BY <1>9, <2>1
  <2> QED
    BY <1>1, <2>2
<1> HIDE DEF a, k
<1>11. k < l
  BY <1>1, <1>2 DEF k, l
<1>12. Array(b, kept, overread')
  BY <1>9, <1>10, <1>11 DEF Array, k
<1>13. overread' \in BOOLEAN /\ (overread => overread') /\ Store(x, k, b)
  BY <1>1, <1>3
<1>14. StringsInv' /\ AsLists!Becomes(x, kept, stringsRet')
  <2> HIDE DEF b
  <2> QED
    BY <1>2, <1>12, <1>13, StoreIs DEF k
<1> QED
  BY <1>2, <1>14 DEF kept

\* The gaps that strings_uniq() makes are NULLs among the strings.
LEMMA GappyType ==
  ASSUME NEW s \in Seq(Strings)
  PROVE  Gappy(s) \in Seq(Strings \cup {NULL}) /\ Len(Gappy(s)) = Len(s)
<1> DEFINE n == Len(s)
           T == Strings \cup {NULL}
<1>1. n \in Nat /\ DOMAIN s = 1..n /\ \A i \in 1..n : s[i] \in Strings
  BY LenProperties, ElementOfSeq
<1>2. Gappy(s) \in [1..n -> T]
  BY <1>1 DEF Gappy
<1> HIDE DEF n, T
<1>3. Gappy(s) \in Seq(T) /\ Len(Gappy(s)) = n
  BY <1>1, <1>2
<1> QED
  BY <1>3 DEF n, T

\* strings_uniq() (src/strings.c:415-431)
LEMMA UniqStep ==
  ASSUME StringsInv, NEW x \in Lists, StringsUniq(x)
  PROVE  StringsInv' /\ (AsLists!StringListsNext \/ UNCHANGED stringsVars)
<1> DEFINE c == Content(x)
<1>1. c \in Seq(Strings) /\ Len(c) = num[x] /\ num[x] \in Nat
  BY ContentIs
<1>2. stringsRet' = stringsRet
  BY DEF StringsUniq
<1>3. CASE num[x] < 2
  <2>1. UNCHANGED stringsVars
    BY <1>3 DEF StringsUniq, stringsVars
  <2> QED
    BY <2>1 DEF StringsInv, stringsVars
<1>4. CASE ~(num[x] < 2)
  <2>1. PICK s \in Arrangements(c) : InOrder(s, FALSE) /\ Reduce(x, Gappy(s))
    BY <1>4 DEF StringsUniq
  <2> DEFINE g == Gappy(s)
             u == Kept(g, Strings)
             n == Len(u)
  <2>2. s \in Seq(Strings) /\ Len(s) = Len(c) /\ ToSet(s) = ToSet(c)
    BY <1>1, <2>1, ArrangedIs
  <2>3. g \in Seq(Strings \cup {NULL}) /\ Len(g) = num[x]
    BY <1>1, <2>2, GappyType
  <2>4. /\ \A i, j \in 1..n : i < j => u[i] < u[j]
        /\ \A m \in 1..Len(s) : \E j \in 1..n : u[j] = s[m]
        /\ \A j \in 1..n : \E m \in 1..Len(s) : u[j] = s[m]
    BY <2>1, <2>2, KeptOnce
  <2>5. Reduce(x, g) /\ stringsRet' \in BOOLEAN
    BY <1>2, <2>1 DEF StringsInv
  <2>6. n \in Nat /\ n <= Len(c)
    <3> DEFINE T == Strings \cup {NULL}
    <3>1. g \in Seq(T)
      BY <2>3
    <3> HIDE DEF T, g
    <3>2. n \in Nat /\ n <= Len(g)
      BY <3>1, KeptType
    <3> QED
      BY <1>1, <2>3, <3>2
  <2> HIDE DEF g
  <2>7. StringsInv' /\ u \in Seq(Strings) /\ AsLists!Becomes(x, u, stringsRet')
    BY <2>3, <2>5, ReduceIs
  <2> HIDE DEF u, c
  <2>8. DOMAIN u = 1..n /\ DOMAIN s = 1..Len(s)
    BY <2>2, <2>7, LenProperties
  <2>9. ToSet(u) = ToSet(s)
    <3>1. \A m \in 1..Len(s) : s[m] \in ToSet(u)
      BY <2>4, <2>8 DEF ToSet
    <3>2. \A j \in 1..n : u[j] \in ToSet(s)
      BY <2>4, <2>8 DEF ToSet
    <3> QED
      BY <2>8, <3>1, <3>2 DEF ToSet
  <2>10. u \in [1..n -> ToSet(c)]
    <3>1. u \in [1..n -> Strings]
      BY <2>7, LenProperties
    <3>2. \A j \in 1..n : u[j] \in ToSet(u)
      BY <2>8 DEF ToSet
    <3> HIDE DEF n
    <3> QED
      BY <2>2, <2>9, <3>1, <3>2
  <2>11. n \in 0..Len(c) /\ ToSet(u) = ToSet(c) /\ AsLists!Becomes(x, u, stringsRet)
    BY <1>1, <1>2, <2>2, <2>6, <2>7, <2>9
  <2> HIDE DEF n
  <2>12. AsLists!StringListsNext
    BY <2>4, <2>10, <2>11, Steps DEF c
  <2> QED
    BY <2>7, <2>12
<1> QED
  BY <1>3, <1>4

\* strings_remove_all() (src/strings.c:575-592)
LEMMA RemoveAllStep ==
  ASSUME StringsInv, NEW x \in Lists, NEW y \in Lists, StringsRemoveAll(x, y)
  PROVE  StringsInv' /\ AsLists!StringListsNext
<1> DEFINE c == Content(x)
           n == num[x]
           D == ToSet(Content(y))
           T == Strings \cup {NULL}
           g == [i \in 1..n |-> IF slots[x][i] \in D THEN NULL ELSE slots[x][i]]
           Rest == Strings \ D
<1>1. /\ c \in Seq(Strings) /\ Len(c) = n /\ n \in Nat
      /\ \A i \in 1..n : slots[x][i] = c[i] /\ c[i] \in Strings
  BY ContentIs
<1>2. Reduce(x, g) /\ stringsRet' = TRUE
  BY DEF StringsRemoveAll
<1> HIDE DEF c, D, n
<1>3. g \in [1..n -> T] /\ \A i \in 1..n : g[i] = IF c[i] \in D THEN NULL ELSE c[i]
  BY <1>1
<1> HIDE DEF g
<1>4. g \in Seq(T) /\ Len(g) = n
  <2> HIDE DEF T
  <2> QED
    BY <1>1, <1>3
<1>5. Kept(g, Strings) = Kept(c, Rest)
  <2>1. NULL \notin Strings
    BY StringsAssumption
  <2>2. \A i \in 1..n : (g[i] \in Strings <=> c[i] \in Rest) /\ (g[i] \in Strings => g[i] = c[i])
    BY <1>1, <1>3, <2>1
  <2> HIDE DEF T, Rest
  <2> QED
    BY <1>1, <1>4, <2>2, KeptSame
<1>6. StringsInv' /\ AsLists!Becomes(x, Kept(g, Strings), stringsRet')
  BY <1>1, <1>2, <1>4, ReduceIs DEF n
<1>7. AsLists!Becomes(x, Kept(c, Rest), TRUE)
  BY <1>2, <1>5, <1>6
<1>8. AsLists!StringListsNext
  BY <1>7, Steps DEF c, D
<1> QED
  BY <1>6, <1>8

\* strings_intersect(): the new array has as many slots as its growing made.
LEMMA IntersectStep ==
  ASSUME StringsInv, NEW x \in Lists, NEW y \in Lists, NEW z \in Lists, StringsIntersect(x, y, z)
  PROVE  StringsInv' /\ AsLists!StringListsNext
<1> DEFINE s == Common(Content(y), Content(z))
           n == Grown(Len(s))
           a == Filled(s, n)
<1>1. s \in Seq(Strings) /\ Len(s) \in Nat
  BY ContentIs, CommonType, LenProperties
<1>2. n \in Nat /\ n > Len(s)
  BY <1>1, GrownIs
<1>3. Store(x, Len(s), a) /\ overread' = overread /\ stringsRet' = stringsRet
  BY DEF StringsIntersect
<1> HIDE DEF s, n
<1>4. Array(a, s, overread')
  BY <1>1, <1>2, FilledIs
<1> HIDE DEF a
<1>5. StringsInv' /\ AsLists!Becomes(x, s, stringsRet')
  BY <1>1, <1>3, <1>4, StoreIs DEF StringsInv
<1> QED
  BY <1>3, <1>5, Steps DEF s

\* strings_add(), strings_add_all(): with room made or not, the array begins with
\* the old strings and the new (src/strings.c:215-233, 458-500).
LEMMA AddAllIs ==
  ASSUME StringsInv, NEW x \in Lists, NEW s \in Seq(Strings), AddAll(x, s)
  PROVE  StringsInv' /\ AsLists!Becomes(x, Content(x) \o s, TRUE)
<1> DEFINE c == Content(x)
           n == num[x]
           k == Len(s)
           array == slots[x]
           l == Len(array)
           room == Room(x, k)
           V(i) == CASE i \in n + 1..n + k -> s[i - n]
                     [] i = n + k + 1 -> NULL
                     [] OTHER -> room[i]
           a == [i \in DOMAIN room |-> V(i)]
           t == c \o s
<1>1. /\ c \in Seq(Strings) /\ Len(c) = n /\ n \in Nat /\ array \in Seq(SlotValues) /\ l \in Nat
      /\ n < l /\ Array(array, c, overread)
  BY ContentIs
<1>2. k \in Nat /\ \A i \in 1..k : s[i] \in Strings
  BY LenProperties, ElementOfSeq
<1>3. Store(x, n + k, a) /\ stringsRet' = TRUE /\ overread' = overread
  BY DEF AddAll
<1>4. /\ Len(room) \in Nat /\ n + k < Len(room) /\ DOMAIN room = 1..Len(room)
      /\ \A i \in 1..Len(room) : room[i] = IF i <= l THEN array[i] ELSE NULL
  <2>1. CASE Capacity(x) < k
    <3> DEFINE e == Expand(k)
    <3>1. e \in Nat /\ e > k
      BY <1>2, ExpandIs
    <3>2. room = Filled(array, e + l)
      BY <2>1 DEF Room
    <3> HIDE DEF e, array, room, n, k
    <3>3. e + l \in Nat /\ n + k < e + l
      BY <1>1, <1>2, <3>1
    <3> DEFINE f == e + l
    <3>4. f \in Nat /\ n + k < f /\ room = Filled(array, f)
      BY <3>2, <3>3
    <3> HIDE DEF f
    <3>5. DOMAIN room = 1..f /\ \A i \in 1..f : room[i] = IF i <= l THEN array[i] ELSE NULL
      BY <3>4 DEF Filled
    <3>6. Len(room) = f
      <4>1. room = [i \in 1..f |-> room[i]]
        BY <3>4 DEF Filled
      <4> QED
        BY <3>4, <4>1
    <3> QED
      BY <3>4, <3>5, <3>6
  <2>2. CASE ~(Capacity(x) < k)
    <3>1. room = array
      BY <2>2 DEF Room
    <3>2. n + k < l
      BY <1>1, <1>2, <2>2 DEF Capacity
    <3>3. DOMAIN array = 1..l
      BY <1>1, LenProperties
    <3> HIDE DEF room, array
    <3> QED
      BY <1>1, <3>1, <3>2, <3>3 DEF l
  <2> QED
    BY <2>1, <2>2
<1>5. /\ t \in Seq(Strings) /\ Len(t) = n + k
      /\ \A i \in 1..n + k : t[i] = IF i <= n THEN c[i] ELSE s[i - n]
  <2> HIDE DEF c, n
  <2> QED
    BY <1>1, ConcatProperties
<1>6. /\ \A i \in 1..l : array[i] \in SlotValues
      /\ \A i \in 1..l : IF i <= n THEN array[i] = c[i] ELSE overread \/ array[i] = NULL
  BY <1>1, ElementOfSeq DEF Array
<1>7. \A i \in 1..n : c[i] \in Strings
  BY <1>1, ElementOfSeq
<1> DEFINE m == Len(room)
<1> HIDE DEF c, n, k, array, l, room, t
<1>8. ASSUME NEW i \in 1..m
      PROVE  V(i) \in SlotValues /\ IF i <= n + k THEN V(i) = t[i] ELSE overread \/ V(i) = NULL
  <2>1. CASE i <= n
    <3>1. i \in 1..l /\ i \in 1..n /\ i \in 1..n + k /\ i \notin n + 1..n + k /\ i # n + k + 1
          /\ i <= l /\ i <= n + k
      BY <1>1, <1>2, <2>1
    <3>2. V(i) = c[i] /\ t[i] = c[i]
      BY <1>4, <1>5, <1>6, <2>1, <3>1
    <3> HIDE DEF V
    <3> QED
      BY <1>7, <3>1, <3>2 DEF SlotValues
  <2>2. CASE ~(i <= n) /\ i <= n + k
    <3>1. i - n \in 1..k /\ i \in 1..n + k /\ i \in n + 1..n + k
      BY <1>1, <1>2, <1>4, <2>2
    <3>2. V(i) = s[i - n] /\ t[i] = s[i - n]
      BY <1>5, <2>2, <3>1
    <3>3. s[i - n] \in Strings
      BY <1>2, <3>1
    <3> HIDE DEF V
    <3> QED
      BY <2>2, <3>2, <3>3 DEF SlotValues
  <2>3. CASE ~(i <= n + k)
    <3>1. i \notin n + 1..n + k /\ ~(i <= n)
      BY <1>1, <1>2, <1>4, <2>3
    <3>2. CASE i = n + k + 1
      BY <2>3, <3>1, <3>2 DEF SlotValues
    <3>3. CASE i # n + k + 1
      <4>1. V(i) = IF i <= l THEN array[i] ELSE NULL
        BY <1>4, <3>1, <3>3
      <4>2. i <= l => i \in 1..l
        BY <1>1, <1>4
      <4> HIDE DEF V
      <4> QED
        BY <1>6, <2>3, <3>1, <4>1, <4>2 DEF SlotValues
    <3> QED
      BY <3>2, <3>3
  <2> QED
    BY <2>1, <2>2, <2>3
<1>9. a = [i \in 1..m |-> V(i)]
  BY <1>4
<1> HIDE DEF V, a
<1>10. a \in Seq(SlotValues) /\ Len(a) = m /\ \A i \in 1..m : a[i] = V(i)
  <2>1. a \in [1..m -> SlotValues] /\ \A i \in 1..m : a[i] = V(i)
    BY <1>8, <1>9
  <2> QED
    BY <1>4, <2>1
<1>11. Array(a, t, overread')
  BY <1>3, <1>4, <1>5, <1>8, <1>10 DEF Array
<1>12. StringsInv' /\ AsLists!Becomes(x, t, stringsRet')
  <2>1. overread' \in BOOLEAN /\ stringsRet' \in BOOLEAN /\ (overread => overread') /\ n + k = Len(t)
    BY <1>3, <1>5 DEF StringsInv
  <2> QED
    BY <1>3, <1>5, <1>11, <2>1, StoreIs
<1> QED
  BY <1>3, <1>12 DEF t, c

LEMMA AddStep ==
  ASSUME StringsInv, NEW x \in Lists, NEW str \in Strings, StringsAdd(x, str)
  PROVE  StringsInv' /\ AsLists!StringListsNext
<1> DEFINE s == <<str>>
<1>1. s \in Seq(Strings) /\ AddAll(x, s) /\ Content(x) \in Seq(Strings)
  BY ContentIs DEF StringsAdd
<1>2. Content(x) \o s = Append(Content(x), str)
  BY <1>1, AppendIsConcat
<1> HIDE DEF s
<1>3. StringsInv' /\ AsLists!Becomes(x, Content(x) \o s, TRUE)
  BY <1>1, AddAllIs
<1> QED
  BY <1>2, <1>3, Steps

LEMMA AddAllStep ==
  ASSUME StringsInv, NEW x \in Lists, NEW y \in Lists, StringsAddAll(x, y)
  PROVE  StringsInv' /\ AsLists!StringListsNext
<1>1. Content(y) \in Seq(Strings) /\ AddAll(x, Content(y))
  BY ContentIs DEF StringsAddAll
<1>2. StringsInv' /\ AsLists!Becomes(x, Content(x) \o Content(y), TRUE)
  BY <1>1, AddAllIs
<1> QED
  BY <1>2, Steps

\* There is a least of what there is.
LEMMA LeastIs ==
  ASSUME NEW I, I \subseteq Nat, I # {}
  PROVE  Min(I) \in I /\ \A j \in I : Min(I) <= j
<1>1. PICK i \in I : \A j \in I : ~(<<j, i>> \in OpToRel(<, Nat))
  BY NatLessThanWellFounded, WFMin
<1>2. ASSUME NEW j \in I PROVE i <= j
  <2>1. i \in Nat /\ j \in Nat
    OBVIOUS
  <2>2. ~(j < i)
    BY <1>1, <2>1 DEF OpToRel
  <2> QED
    BY <2>1, <2>2
<1> QED
  BY <1>2 DEF Min

\* A sequence without its element at a place.
LEMMA RemoveAtIs ==
  ASSUME NEW c \in Seq(Strings), NEW at \in 1..Len(c)
  PROVE  /\ RemoveAt(c, at) \in Seq(Strings) /\ Len(RemoveAt(c, at)) = Len(c) - 1
         /\ \A i \in 1..Len(c) - 1 : RemoveAt(c, at)[i] = IF i < at THEN c[i] ELSE c[i + 1]
<1> DEFINE n == Len(c)
           one == 1
           before == at - 1
           behind == at + 1
           u == SubSeq(c, one, before)
           v == SubSeq(c, behind, n)
           w == u \o v
<1>1. n \in Nat /\ at \in Nat /\ at >= 1 /\ at <= n /\ \A i \in 1..n : c[i] \in Strings
  BY LenProperties, ElementOfSeq
<1>2. /\ one \in Int /\ before \in Int /\ behind \in Int /\ n \in Int
      /\ (IF one <= before THEN before - one + 1 ELSE 0) = at - 1 /\ before - one + 1 = at - 1
      /\ (IF behind <= n THEN n - behind + 1 ELSE 0) = n - at /\ n - behind + 1 = n - at
      /\ (\A i \in 1..at - 1 : one + i - 1 = i) /\ (\A i \in 1..n - at : behind + i - 1 = at + i)
  BY <1>1
<1>3. (\A i \in one..before : c[i] \in Strings) /\ (\A i \in behind..n : c[i] \in Strings)
  <2>1. (\A i \in one..before : i \in 1..n) /\ (\A i \in behind..n : i \in 1..n)
    BY <1>1
  <2> QED
    BY <1>1, <2>1
<1> HIDE DEF one, before, behind, n
<1>4. u \in Seq(Strings) /\ Len(u) = at - 1 /\ \A i \in 1..at - 1 : u[i] = c[i]
  <2>1. /\ SubSeq(c, one, before) \in Seq(Strings)
        /\ Len(SubSeq(c, one, before)) = IF one <= before THEN before - one + 1 ELSE 0
        /\ \A i \in 1..before - one + 1 : SubSeq(c, one, before)[i] = c[one + i - 1]
    BY <1>2, <1>3, SubSeqProperties
  <2> HIDE DEF u
  <2>2. u = SubSeq(c, one, before)
    BY DEF u
  <2> QED
    BY <1>2, <2>1, <2>2
<1>5. v \in Seq(Strings) /\ Len(v) = n - at /\ \A i \in 1..n - at : v[i] = c[at + i]
  <2>1. /\ SubSeq(c, behind, n) \in Seq(Strings)
        /\ Len(SubSeq(c, behind, n)) = IF behind <= n THEN n - behind + 1 ELSE 0
        /\ \A i \in 1..n - behind + 1 : SubSeq(c, behind, n)[i] = c[behind + i - 1]
    BY <1>2, <1>3, SubSeqProperties
  <2> HIDE DEF v
  <2>2. v = SubSeq(c, behind, n)
    BY DEF v
  <2> QED
    BY <1>2, <2>1, <2>2
<1>6. RemoveAt(c, at) = w
  BY DEF RemoveAt, one, before, behind, n
<1> HIDE DEF u, v
<1>7. /\ w \in Seq(Strings) /\ Len(w) = Len(u) + Len(v)
      /\ \A i \in 1..Len(u) + Len(v) : w[i] = IF i <= Len(u) THEN u[i] ELSE v[i - Len(u)]
  BY <1>4, <1>5, ConcatProperties
<1> HIDE DEF w
<1>8. Len(w) = n - 1
  BY <1>1, <1>4, <1>5, <1>7
<1>9. ASSUME NEW i \in 1..n - 1 PROVE w[i] = IF i < at THEN c[i] ELSE c[i + 1]
  <2>1. i \in 1..Len(u) + Len(v)
    BY <1>1, <1>4, <1>5
  <2>2. CASE i < at
    <3>1. i \in 1..at - 1 /\ i <= Len(u)
      BY <1>1, <1>4, <2>2
    <3> QED
      BY <1>4, <1>7, <2>1, <2>2, <3>1
  <2>3. CASE ~(i < at)
    <3> DEFINE j == i - (at - 1)
    <3>1. j \in 1..n - at /\ at + j = i + 1 /\ ~(i <= Len(u)) /\ i - Len(u) = j
      BY <1>1, <1>4, <2>3
    <3> HIDE DEF j
    <3>2. w[i] = v[j] /\ v[j] = c[i + 1]
      BY <1>5, <1>7, <2>1, <3>1
    <3> QED
      BY <2>3, <3>2
  <2> QED
    BY <2>2, <2>3
<1> QED
  BY <1>6, <1>7, <1>8, <1>9 DEF n

\* A call that only answers.
LEMMA SameIs ==
  ASSUME StringsInv, NEW x \in Lists, UNCHANGED <<num, slots, overread>>, stringsRet' \in BOOLEAN
  PROVE  StringsInv' /\ AsLists!Becomes(x, Content(x), stringsRet')
<1> DEFINE L == [v \in Lists |-> Content(v)]
<1>1. Len(Content(x)) <= MaxStrings
  BY ContentIs DEF StringsInv
<1>2. L' = L
  BY DEF Content
<1>3. L = [L EXCEPT ![x] = Content(x)]
  OBVIOUS
<1>4. AsLists!Becomes(x, Content(x), stringsRet')
  <2>1. L' = [L EXCEPT ![x] = Content(x)]
    BY <1>2, <1>3
  <2> QED
    BY <1>1, <2>1 DEF AsLists!Becomes
<1>5. StringsInv'
  BY DEF StringsInv
<1> QED
  BY <1>4, <1>5

\* strings_remove() (src/strings.c:516-541)
LEMMA RemoveStep ==
  ASSUME StringsInv, NEW x \in Lists, NEW str \in Strings, StringsRemove(x, str)
  PROVE  StringsInv' /\ AsLists!StringListsNext
<1> DEFINE c == Content(x)
           n == num[x]
           array == slots[x]
           l == Len(array)
           at == SelectInSeq(c, LAMBDA s : s = str)
           there == str \in ToSet(c)
           t == RemoveFirst(c, str)
           V(i) == IF i \in at..n THEN array[i + 1] ELSE array[i]
           a == [i \in DOMAIN array |-> V(i)]
<1>1. /\ c \in Seq(Strings) /\ Len(c) = n /\ n \in Nat /\ array \in Seq(SlotValues) /\ l \in Nat
      /\ n < l /\ Array(array, c, overread) /\ DOMAIN c = 1..n /\ DOMAIN array = 1..l
  BY ContentIs, LenProperties
<1>2. IF at = 0 THEN UNCHANGED <<num, slots>> ELSE Store(x, n - 1, a)
  BY DEF StringsRemove
<1>3. stringsRet' = there /\ overread' = overread
  BY DEF StringsRemove
<1>4. IF \E i \in 1..n : c[i] = str THEN at \in 1..n ELSE at = 0
  <2> DEFINE I == {i \in 1..n : c[i] = str}
  <2>1. at = IF I # {} THEN Min(I) ELSE 0
    BY <1>1 DEF SelectInSeq
  <2>2. I \subseteq Nat
    BY <1>1
  <2>3. I # {} => Min(I) \in I
    <3> HIDE DEF I
    <3> QED
      BY <2>2, LeastIs
  <2>4. I # {} <=> \E i \in 1..n : c[i] = str
    OBVIOUS
  <2>5. \A i \in I : i \in 1..n
    OBVIOUS
  <2> HIDE DEF I, at, n, c
  <2> QED
    BY <2>1, <2>3, <2>4, <2>5
<1>5. t = IF \E i \in 1..n : c[i] = str THEN RemoveAt(c, at) ELSE c
  BY <1>1 DEF RemoveFirst
<1>6. there \in BOOLEAN /\ stringsRet' \in BOOLEAN
  BY <1>3 DEF ToSet
<1>7. \A i \in 1..l : IF i <= n THEN array[i] = c[i] ELSE overread \/ array[i] = NULL
  BY <1>1 DEF Array
<1>8. \A i \in 1..l : array[i] \in SlotValues
  BY <1>1, ElementOfSeq
<1> HIDE DEF there, at, array, c
<1>9. StringsInv' /\ AsLists!Becomes(x, t, stringsRet')
  <2>1. CASE at = 0
    <3>1. t = c
      BY <1>4, <1>5, <2>1
    <3> HIDE DEF t
    <3>2. UNCHANGED <<num, slots, overread>>
      BY <1>2, <1>3, <2>1
    <3> QED
      BY <1>6, <3>1, <3>2, SameIs DEF c
  <2>2. CASE at # 0
    <3>1. at \in 1..n /\ at \in 1..Len(c) /\ t = RemoveAt(c, at)
      BY <1>1, <1>4, <1>5, <2>2
    <3> HIDE DEF t, n
    <3>2. t \in Seq(Strings) /\ Len(t) = n - 1 /\ \A i \in 1..n - 1 : t[i] = IF i < at THEN c[i] ELSE c[i + 1]
      BY <1>1, <3>1, RemoveAtIs
    <3> HIDE DEF l
    <3>3. ASSUME NEW i \in 1..l
          PROVE  V(i) \in SlotValues /\ IF i <= n - 1 THEN V(i) = t[i] ELSE overread \/ V(i) = NULL
      <4>1. CASE i <= n
        <5>1. i + 1 \in 1..l /\ i \in 1..n
          BY <1>1, <4>1
        <5>2. CASE i < at
          <6>1. V(i) = array[i] /\ i <= n - 1 /\ i \in 1..n - 1
            BY <1>1, <3>1, <5>1, <5>2
          <6> HIDE DEF V
          <6> QED
            BY <1>7, <1>8, <3>2, <4>1, <5>2, <6>1
        <5>3. CASE ~(i < at)
          <6>1. V(i) = array[i + 1]
            BY <1>1, <3>1, <4>1, <5>1, <5>3
          <6> HIDE DEF V
          <6>2. CASE i <= n - 1
            <7>1. i + 1 <= n /\ i \in 1..n - 1
              BY <1>1, <6>2
            <7> QED
              BY <1>7, <1>8, <3>2, <5>1, <5>3, <6>1, <6>2, <7>1
          <6>3. CASE ~(i <= n - 1)
            <7>1. ~(i + 1 <= n)
              BY <1>1, <6>3
            <7> QED
              BY <1>7, <1>8, <5>1, <6>1, <6>3, <7>1
          <6> QED
            BY <6>2, <6>3
        <5> QED
          BY <5>2, <5>3
      <4>2. CASE ~(i <= n)
        <5>1. V(i) = array[i] /\ ~(i <= n - 1)
          BY <1>1, <4>2
        <5> HIDE DEF V
        <5> QED
          BY <1>7, <1>8, <4>2, <5>1
      <4> QED
        BY <4>1, <4>2
    <3>4. a = [i \in 1..l |-> V(i)]
      BY <1>1
    <3> HIDE DEF V, a
    <3>5. a \in Seq(SlotValues) /\ Len(a) = l /\ \A i \in 1..l : a[i] = V(i)
      <4>1. a \in [1..l -> SlotValues] /\ \A i \in 1..l : a[i] = V(i)
        BY <3>3, <3>4
      <4> QED
        BY <1>1, <4>1
    <3>6. n - 1 < l /\ n - 1 = Len(t)
      BY <1>1, <3>2
    <3>7. Array(a, t, overread')
      BY <1>3, <3>2, <3>3, <3>5, <3>6 DEF Array
    <3>8. Store(x, n - 1, a) /\ overread' \in BOOLEAN /\ (overread => overread')
      BY <1>2, <1>3, <2>2 DEF StringsInv
    <3> QED
      BY <1>6, <3>2, <3>6, <3>7, <3>8, StoreIs
  <2> QED
    BY <2>1, <2>2
<1> HIDE DEF t
<1>10. AsLists!Becomes(x, t, there)
  BY <1>3, <1>9
<1>11. AsLists!StringListsNext
  BY <1>10, Steps DEF t, c, there
<1> QED
  BY <1>9, <1>11

\* strings_search() (src/strings.c:439-451)
LEMMA SearchStep ==
  ASSUME StringsInv, NEW x \in Lists, NEW str \in Strings, StringsSearch(x, str)
  PROVE  StringsInv' /\ AsLists!StringListsNext
<1> DEFINE c == Content(x)
<1>1. /\ c \in Seq(Strings) /\ Len(c) = num[x] /\ DOMAIN c = 1..num[x]
      /\ \A i \in 1..num[x] : slots[x][i] = c[i]
  BY ContentIs, LenProperties
<1>2. stringsRet' = (\E i \in 1..num[x] : slots[x][i] = str) /\ UNCHANGED <<num, slots, overread>>
  BY DEF StringsSearch
<1> HIDE DEF c
<1>3. stringsRet' = (str \in ToSet(c))
  <2> DEFINE found == \E i \in 1..num[x] : slots[x][i] = str
             there == str \in ToSet(c)
  <2>1. found <=> there
    BY <1>1 DEF ToSet
  <2>2. found \in BOOLEAN /\ there \in BOOLEAN /\ stringsRet' = found
    BY <1>2
  <2> HIDE DEF found, there
  <2>3. stringsRet' = there
    BY <2>1, <2>2
  <2> QED
    BY <2>3 DEF there
<1>4. stringsRet' \in BOOLEAN
  BY <1>2
<1>5. StringsInv' /\ AsLists!Becomes(x, c, stringsRet')
  BY <1>2, <1>4, SameIs DEF c
<1>6. AsLists!Becomes(x, c, str \in ToSet(c))
  BY <1>3, <1>5
<1> QED
  BY <1>5, <1>6, Steps DEF c

\* strings_diff() (src/strings.c:629-645)
LEMMA DiffStep ==
  ASSUME StringsInv, NEW x \in Lists, NEW y \in Lists, StringsDiff(x, y)
  PROVE  StringsInv' /\ AsLists!StringListsNext
<1> DEFINE c == Content(x)
           d == Content(y)
           Same == /\ num[x] = num[y]
                   /\ \A i \in 1..num[x] : slots[x][i] \in ToSet(d) /\ slots[y][i] \in ToSet(c)
           Alike == Len(c) = Len(d) /\ ToSet(c) = ToSet(d)
<1>1. /\ Len(c) = num[x] /\ DOMAIN c = 1..num[x] /\ \A i \in 1..num[x] : slots[x][i] = c[i]
      /\ Len(d) = num[y] /\ DOMAIN d = 1..num[y] /\ \A i \in 1..num[y] : slots[y][i] = d[i]
  BY ContentIs, LenProperties
<1>2. stringsRet' = Same /\ UNCHANGED <<num, slots, overread>>
  BY DEF StringsDiff
<1>3. Same \in BOOLEAN /\ Alike \in BOOLEAN
  OBVIOUS
<1> HIDE DEF c, d
<1>4. Same <=> Alike
  <2>1. ASSUME num[x] = num[y]
        PROVE  (\A i \in 1..num[x] : slots[x][i] \in ToSet(d) /\ slots[y][i] \in ToSet(c))
                 <=> ToSet(c) = ToSet(d)
    <3>1. ToSet(c) \subseteq ToSet(d) <=> \A i \in 1..num[x] : c[i] \in ToSet(d)
      BY <1>1 DEF ToSet
    <3>2. ToSet(d) \subseteq ToSet(c) <=> \A i \in 1..num[y] : d[i] \in ToSet(c)
      BY <1>1 DEF ToSet
    <3> QED
      BY <1>1, <2>1, <3>1, <3>2
  <2> QED
    BY <1>1, <2>1
<1> HIDE DEF Same, Alike
<1>5. stringsRet' = Alike /\ stringsRet' \in BOOLEAN
  BY <1>2, <1>3, <1>4
<1>6. StringsInv' /\ AsLists!Becomes(x, c, stringsRet')
  BY <1>2, <1>5, SameIs DEF c
<1>7. AsLists!Becomes(x, c, Alike)
  BY <1>5, <1>6
<1> QED
  BY <1>6, <1>7, Steps DEF Alike, c, d

\* The invariant at first, and after each step; and that a step is one of the
\* abstract lists, or none.
LEMMA StringsBegin ==
  StringsInit => StringsInv /\ AsLists!StringListsInit
<1> SUFFICES ASSUME StringsInit PROVE StringsInv /\ AsLists!StringListsInit
  OBVIOUS
<1> DEFINE s == <<>>
           a == Filled(s, InitLen)
<1>1. s \in Seq(Strings) /\ Len(s) = 0 /\ InitLen \in Nat /\ InitLen > 0 /\ MaxStrings \in Nat
  BY EmptySeq, StringsAssumption
<1>2. num = [x \in Lists |-> 0] /\ slots = [x \in Lists |-> a] /\ overread = FALSE /\ stringsRet = TRUE
  BY DEF StringsInit
<1> HIDE DEF s
<1>3. Array(a, s, overread)
  BY <1>1, FilledIs
<1> HIDE DEF a
<1>4. a \in Seq(SlotValues)
  BY <1>3 DEF Array
<1>5. StringsInv
  <2>1. num \in [Lists -> 0..MaxStrings] /\ slots \in [Lists -> Seq(SlotValues)]
    BY <1>1, <1>2, <1>4
  <2>2. \A x \in Lists : Len(s) = num[x] /\ Array(slots[x], s, overread)
    BY <1>1, <1>2, <1>3
  <2> QED
    BY <1>1, <1>2, <2>1, <2>2 DEF StringsInv
<1>6. ASSUME NEW x \in Lists PROVE Content(x) = s
  <2>1. slots[x] = a /\ num[x] = Len(s)
    BY <1>1, <1>2
  <2>2. SubSeq(a, 1, Len(s)) = s
    BY <1>1, <1>3, ArrayIs
  <2> QED
    BY <2>1, <2>2 DEF Content
<1>7. [x \in Lists |-> Content(x)] = [x \in Lists |-> s]
  BY <1>6
<1>8. AsLists!StringListsInit
  BY <1>2, <1>7 DEF AsLists!StringListsInit, s
<1> QED
  BY <1>5, <1>8

LEMMA StringsStep ==
  ASSUME StringsInv, [StringsNext]_stringsVars
  PROVE  /\ StringsInv'
         /\ [AsLists!StringListsNext]_<<[x \in Lists |-> Content(x)], stringsRet>>
<1> DEFINE Done == StringsInv' /\ (AsLists!StringListsNext \/ UNCHANGED stringsVars)
<1>1. ASSUME UNCHANGED stringsVars PROVE Done
  BY <1>1 DEF StringsInv, stringsVars
<1>2. ASSUME StringsNext PROVE Done
  <2>1. PICK x \in Lists, y \in Lists :
          \/ StringsNew(x) \/ StringsDup(x, y)
          \/ StringsSort(x, FALSE) \/ StringsSort(x, TRUE) \/ StringsUniq(x)
          \/ StringsRemoveAll(x, y) \/ StringsAddAll(x, y) \/ StringsDiff(x, y)
          \/ \E str \in Strings : StringsAdd(x, str) \/ StringsRemove(x, str) \/ StringsSearch(x, str)
          \/ \E z \in Lists : StringsIntersect(x, y, z)
    BY <1>2, Zenon DEF StringsNext
  <2>2. FALSE \in BOOLEAN /\ TRUE \in BOOLEAN
    OBVIOUS
  <2> QED
    BY <2>1, <2>2, NewStep, DupStep, SortStep, UniqStep, RemoveAllStep, AddAllStep, DiffStep, AddStep,
       RemoveStep, SearchStep, IntersectStep, Zenon
<1>3. Done
  BY <1>1, <1>2
<1>4. UNCHANGED stringsVars => UNCHANGED <<[x \in Lists |-> Content(x)], stringsRet>>
  BY DEF stringsVars, Content
<1> QED
  BY <1>3, <1>4

LEMMA StringsInvHolds ==
  StringsSpec => []StringsInv
<1>1. StringsInit => StringsInv
  BY StringsBegin
<1>2. StringsInv /\ [StringsNext]_stringsVars => StringsInv'
  BY StringsStep
<1> QED
  BY <1>1, <1>2, PTL DEF StringsSpec

LEMMA StringsInvTells ==
  ASSUME StringsInv
  PROVE  Terminated /\ StringsTypeOK
<1>1. StringsTypeOK
  BY DEF StringsInv, StringsTypeOK, SlotValues
<1>2. ASSUME NEW x \in Lists PROVE ToSet(Content(x)) \subseteq Strings /\ (overread \/ Ended(x))
  <2> DEFINE c == Content(x)
  <2>1. /\ c \in Seq(Strings) /\ Len(c) = num[x] /\ num[x] \in Nat /\ DOMAIN c = 1..num[x]
        /\ Array(slots[x], c, overread) /\ Len(slots[x]) \in Nat /\ num[x] < Len(slots[x])
    BY ContentIs, LenProperties
  <2>2. \A i \in 1..num[x] : c[i] \in Strings
    BY <2>1, ElementOfSeq
  <2> HIDE DEF c
  <2>3. ToSet(c) \subseteq Strings
    BY <2>1, <2>2 DEF ToSet
  <2>4. num[x] + 1 \in 1..Len(slots[x]) /\ ~(num[x] + 1 <= Len(c))
    BY <2>1
  <2>5. overread \/ slots[x][num[x] + 1] = NULL
    BY <2>1, <2>4 DEF Array
  <2> QED
    BY <2>1, <2>3, <2>5 DEF Ended, c
<1> QED
  BY <1>1, <1>2 DEF Terminated

\* The arrays of src/strings.c have the contents of their type whatever is called.
THEOREM StringsTyped ==
  StringsSpec => []StringsTypeOK
  BY StringsInvHolds, StringsInvTells, PTL

\* Whatever is called on the arrays of src/strings.c does to their strings what the
\* abstract string lists say, sorts, gaps, growing and terminators included; and a
\* NULL ends them as long as no call has read behind an array.
THEOREM StringListsImplemented ==
  StringsSpec => ImplementsStringLists
<1>1. StringsInit => AsLists!StringListsInit
  BY StringsBegin
<1>2. StringsInv /\ [StringsNext]_stringsVars
        => [AsLists!StringListsNext]_<<[x \in Lists |-> Content(x)], stringsRet>>
  BY StringsStep
<1>3. StringsSpec => AsLists!StringListsSpec
  BY <1>1, <1>2, StringsInvHolds, PTL DEF StringsSpec, AsLists!StringListsSpec
<1>4. StringsInv => Terminated
  BY StringsInvTells
<1> QED
  BY <1>3, <1>4, StringsInvHolds, PTL DEF ImplementsStringLists
=============================================================================
