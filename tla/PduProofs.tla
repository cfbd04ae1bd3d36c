------------------------------ MODULE PduProofs -----------------------------
(***************************************************************************)
(* Theorems about Config, for any values of its constants, and about Pdu   *)
(* for any contents, number of frames and length of the queues: every PDU  *)
(* is one message, and what a peer receives is what the other one meant.   *)
(* The loops of pdu_copy() and of pdu_send() are first shown to leave what *)
(* a formula without a loop says; the invariant then relates each message  *)
(* on its way to the text it stands for.                                   *)
(***************************************************************************)
EXTENDS Config, Pdu, FiniteSetTheorems, SequenceTheorems, WellFoundedInduction, TLAPS

(***************************************************************************)
(*                                 Config                                  *)
(***************************************************************************)
-----------------------------------------------------------------------------
(* Parts of sequences                                                      *)

\* t has what s has at the places of I, of the first n: f says where.
Places(s, I, n, t, f) ==
  /\ \A k \in 1..Len(t) : f[k] \in 1..n /\ f[k] \in I /\ t[k] = s[f[k]]
  /\ \A i \in 1..n : i \in I => \E k \in 1..Len(t) : f[k] = i
  /\ \A k, l \in 1..Len(t) : k < l => f[k] < f[l]
PartOf(s, I, n, t) == \E f : Places(s, I, n, t, f)

PickStep(s, I, p, n) == IF n \in I THEN Append(p[n - 1], s[n]) ELSE p[n - 1]

Picking(s, I, n, p) ==
  p = [m \in 0..n |-> IF m = 0 THEN <<>>
                      ELSE IF m \in I THEN Append(p[m - 1], s[m]) ELSE p[m - 1]]

LEMMA PickingFacts ==
  ASSUME NEW s, NEW I, NEW n \in Nat, NEW p, Picking(s, I, n, p)
  PROVE  \A m \in 0..n : p[m] = IF m = 0 THEN <<>> ELSE PickStep(s, I, p, m)
<1> DEFINE G(x) == [m \in 0..n |-> IF m = 0 THEN <<>> ELSE PickStep(s, I, x, m)]
<1>1. p = G(p)
  BY DEF Picking, PickStep
<1>2. \A m \in 0..n : G(p)[m] = IF m = 0 THEN <<>> ELSE PickStep(s, I, p, m)
  OBVIOUS
<1> HIDE DEF G
<1> QED
  BY <1>1, <1>2

LEMMA PickingExtends ==
  ASSUME NEW s, NEW I, NEW n \in Nat, NEW g, Picking(s, I, n, g)
  PROVE  \E h : Picking(s, I, n + 1, h)
<1> DEFINE h == [m \in 0..n + 1 |-> IF m = n + 1 THEN PickStep(s, I, g, m) ELSE g[m]]
<1>1. \A m \in 0..n : m \in 0..n + 1 /\ h[m] = g[m]
  OBVIOUS
<1>2. \A m \in 0..n + 1 : h[m] = IF m = 0 THEN <<>> ELSE PickStep(s, I, g, m)
  <2>1. \A m \in 0..n + 1 : m \in 0..n \/ m = n + 1
    OBVIOUS
  <2>2. h[n + 1] = PickStep(s, I, g, n + 1) /\ n + 1 # 0
    OBVIOUS
  <2> HIDE DEF h
  <2> QED
    BY <1>1, <2>1, <2>2, PickingFacts
<1>3. \A m \in 0..n + 1 : m # 0 => PickStep(s, I, h, m) = PickStep(s, I, g, m)
  <2> SUFFICES ASSUME NEW m \in 0..n + 1, m # 0 PROVE PickStep(s, I, h, m) = PickStep(s, I, g, m)
    OBVIOUS
  <2>1. m - 1 \in 0..n
    OBVIOUS
  <2>2. h[m - 1] = g[m - 1]
    BY <1>1, <2>1
  <2> HIDE DEF h
  <2> QED
    BY <2>2 DEF PickStep
<1>4. h = [m \in 0..n + 1 |-> h[m]]
  OBVIOUS
<1> HIDE DEF h
<1>5. h = [m \in 0..n + 1 |-> IF m = 0 THEN <<>> ELSE PickStep(s, I, h, m)]
  BY <1>2, <1>3, <1>4
<1> QED
  BY <1>5 DEF Picking, PickStep

LEMMA PickingExists ==
  ASSUME NEW s, NEW I, NEW n \in Nat
  PROVE  \E g : Picking(s, I, n, g)
<1> DEFINE Bad == {m \in Nat : ~\E g : Picking(s, I, m, g)}
<1> SUFFICES ASSUME Bad # {} PROVE FALSE
  OBVIOUS
<1>1. PICK m \in Bad : \A k \in Bad : ~(<<k, m>> \in OpToRel(<, Nat))
  <2>1. Bad \subseteq Nat
    OBVIOUS
  <2> HIDE DEF Bad
  <2> QED
    BY <2>1, NatLessThanWellFounded, WFMin
<1>2. CASE m = 0
  <2> DEFINE g == [i \in 0..0 |-> <<>>]
  <2>1. Picking(s, I, 0, g)
    BY DEF Picking
  <2> QED
    BY <1>2, <2>1
<1>3. CASE m # 0
  <2>1. m - 1 \in Nat /\ (m - 1) + 1 = m /\ m - 1 < m
    BY <1>3
  <2>2. <<m - 1, m>> \in OpToRel(<, Nat)
    BY <2>1 DEF OpToRel
  <2>3. PICK g : Picking(s, I, m - 1, g)
    BY <1>1, <2>1, <2>2
  <2> QED
    BY <2>1, <2>3, PickingExtends
<1> QED
  BY <1>2, <1>3

LEMMA PartStep ==
  ASSUME NEW S, NEW s \in Seq(S), NEW I, NEW n \in Nat, n + 1 <= Len(s),
         NEW t \in Seq(S), PartOf(s, I, n, t)
  PROVE  /\ n + 1 \in I => Append(t, s[n + 1]) \in Seq(S) /\ PartOf(s, I, n + 1, Append(t, s[n + 1]))
         /\ n + 1 \notin I => PartOf(s, I, n + 1, t)
<1> DEFINE m == Len(t)
           x == s[n + 1]
           u == Append(t, x)
<1>1. m \in Nat /\ DOMAIN t = 1..m /\ x \in S
  BY LenProperties, ElementOfSeq
<1>2. PICK f : Places(s, I, n, t, f)
  BY DEF PartOf
<1>3. /\ \A k \in 1..m : f[k] \in 1..n /\ f[k] \in I /\ t[k] = s[f[k]]
      /\ \A i \in 1..n : i \in I => \E k \in 1..m : f[k] = i
      /\ \A k, l \in 1..m : k < l => f[k] < f[l]
  BY <1>2 DEF Places
<1>4. u \in Seq(S) /\ Len(u) = m + 1 /\ DOMAIN u = 1..m + 1 /\ u[m + 1] = x
      /\ \A k \in 1..m : u[k] = t[k]
  BY <1>1
<1> HIDE DEF m, x, u
<1>5. \A i \in 1..n + 1 : i \in 1..n \/ i = n + 1
  OBVIOUS
<1>6. \A i \in 1..n : i \in 1..n + 1 /\ i < n + 1
  OBVIOUS
<1>7. ASSUME n + 1 \notin I PROVE PartOf(s, I, n + 1, t)
  <2>1. \A k \in 1..m : f[k] \in 1..n + 1
    BY <1>3, <1>6
  <2>2. \A i \in 1..n + 1 : i \in I => \E k \in 1..m : f[k] = i
    BY <1>3, <1>5, <1>7
  <2>3. Places(s, I, n + 1, t, f)
    BY <1>3, <2>1, <2>2 DEF Places, m
  <2> QED
    BY <2>3 DEF PartOf
<1>8. ASSUME n + 1 \in I PROVE PartOf(s, I, n + 1, u)
  <2> DEFINE g == [k \in 1..m + 1 |-> IF k = m + 1 THEN n + 1 ELSE f[k]]
  <2>1. /\ g[m + 1] = n + 1 /\ m + 1 \in 1..m + 1
        /\ \A k \in 1..m : k \in 1..m + 1 /\ g[k] = f[k]
        /\ \A k \in 1..m + 1 : k \in 1..m \/ k = m + 1
    BY <1>1
  <2> HIDE DEF g
  <2>2. n + 1 \in 1..n + 1
    OBVIOUS
  <2>3. \A k \in 1..m + 1 : g[k] \in 1..n + 1 /\ g[k] \in I /\ u[k] = s[g[k]]
    BY <1>3, <1>4, <1>6, <1>8, <2>1, <2>2 DEF x
  <2>4. \A i \in 1..n + 1 : i \in I => \E k \in 1..m + 1 : g[k] = i
    BY <1>3, <1>5, <2>1
  <2>5. ASSUME NEW k \in 1..m + 1, NEW l \in 1..m + 1, k < l PROVE g[k] < g[l]
    <3>1. k \in 1..m
      BY <1>1, <2>5
    <3>2. CASE l = m + 1
      <4>1. f[k] \in 1..n
        BY <1>3, <3>1
      <4> QED
        BY <1>6, <2>1, <3>1, <3>2, <4>1
    <3>3. CASE l \in 1..m
      BY <1>3, <2>1, <2>5, <3>1, <3>3
    <3> QED
      BY <2>1, <3>2, <3>3
  <2>6. Places(s, I, n + 1, u, g)
    BY <1>4, <2>3, <2>4, <2>5 DEF Places
  <2> QED
    BY <2>6 DEF PartOf
<1> QED
  BY <1>4, <1>7, <1>8 DEF u, x

\* What was picked, by a function to the places that are increasing.
LEMMA PickedFacts ==
  ASSUME NEW S, NEW s \in Seq(S), NEW I
  PROVE  Picked(s, I) \in Seq(S) /\ PartOf(s, I, Len(s), Picked(s, I))
<1> DEFINE N == Len(s)
           p == CHOOSE p : Picking(s, I, N, p)
<1>1. N \in Nat
  BY LenProperties
<1>2. Picking(s, I, N, p) /\ Picked(s, I) = p[N]
  <2>1. Picking(s, I, N, p)
    BY <1>1, PickingExists
  <2>2. Picked(s, I) = p[N]
    BY DEF Picked, Picking
  <2> QED
    BY <2>1, <2>2
<1> HIDE DEF p
<1>3. \A m \in 0..N : p[m] = IF m = 0 THEN <<>> ELSE PickStep(s, I, p, m)
  BY <1>1, <1>2, PickingFacts
<1> DEFINE P(m) == p[m] \in Seq(S) /\ PartOf(s, I, m, p[m])
           Bad == {m \in 0..N : ~P(m)}
<1>4. Bad = {}
  <2> SUFFICES ASSUME Bad # {} PROVE FALSE
    OBVIOUS
  <2>1. PICK m \in Bad : \A k \in Bad : ~(<<k, m>> \in OpToRel(<, Nat))
    <3>1. Bad \subseteq Nat
      BY <1>1
    <3> HIDE DEF Bad
    <3> QED
      BY <3>1, NatLessThanWellFounded, WFMin
  <2>2. m \in 0..N /\ m \in Nat /\ ~P(m)
    BY <1>1
  <2>3. CASE m = 0
    <3>1. p[0] = <<>>
      BY <1>1, <1>3
    <3>2. PartOf(s, I, 0, <<>>) /\ <<>> \in Seq(S)
      <4>1. Len(<<>>) = 0 /\ 1..0 = {} /\ <<>> \in Seq(S)
        OBVIOUS
      <4>2. Places(s, I, 0, <<>>, <<>>)
        BY <4>1 DEF Places
      <4> QED
        BY <4>1, <4>2 DEF PartOf
    <3> QED
      BY <2>2, <2>3, <3>1, <3>2
  <2>4. CASE m # 0
    <3>1. m - 1 \in 0..N /\ m - 1 \in Nat /\ (m - 1) + 1 = m /\ m - 1 < m /\ m <= N
      BY <1>1, <2>2, <2>4
    <3>2. <<m - 1, m>> \in OpToRel(<, Nat)
      BY <2>2, <3>1 DEF OpToRel
    <3>3. P(m - 1)
      BY <2>1, <3>1, <3>2
    <3>4. p[m] = PickStep(s, I, p, m)
      BY <1>3, <2>2, <2>4
    <3> DEFINE t == p[m - 1]
    <3>5. t \in Seq(S) /\ PartOf(s, I, m - 1, t)
      BY <3>3
    <3> HIDE DEF t
    <3>6. /\ m \in I => Append(t, s[m]) \in Seq(S) /\ PartOf(s, I, m, Append(t, s[m]))
          /\ m \notin I => PartOf(s, I, m, t)
      <4> DEFINE n == m - 1
      <4>1. n \in Nat /\ n + 1 = m /\ n + 1 <= Len(s)
        BY <3>1
      <4>2. PartOf(s, I, n, t)
        BY <3>5
      <4> HIDE DEF n
      <4>3. /\ n + 1 \in I => Append(t, s[n + 1]) \in Seq(S) /\ PartOf(s, I, n + 1, Append(t, s[n + 1]))
            /\ n + 1 \notin I => PartOf(s, I, n + 1, t)
        BY <3>5, <4>1, <4>2, PartStep
      <4> QED
        BY <4>1, <4>3
    <3> QED
      BY <2>2, <3>4, <3>6, <3>5 DEF PickStep, t
  <2> QED
    BY <2>3, <2>4
<1>5. P(N)
  <2>1. N \in 0..N
    BY <1>1
  <2> QED
    BY <1>4, <2>1
<1> QED
  BY <1>2, <1>5

-----------------------------------------------------------------------------
(* First pairs                                                             *)

IsFirst(s, k, i) == /\ i \in 1..Len(s) /\ s[i].key = k
                    /\ \A j \in 1..i - 1 : s[j].key # k

LEMMA FirstFound ==
  ASSUME NEW S, NEW s \in Seq(S), NEW k, NEW i \in 1..Len(s), s[i].key = k
  PROVE  \E j : IsFirst(s, k, j)
<1> DEFINE With == {j \in 1..Len(s) : s[j].key = k}
<1>1. Len(s) \in Nat
  BY LenProperties
<1>2. With \subseteq Nat /\ i \in With
  BY <1>1
<1>3. PICK j \in With : \A l \in With : ~(<<l, j>> \in OpToRel(<, Nat))
  <2> HIDE DEF With
  <2> QED
    BY <1>2, NatLessThanWellFounded, WFMin
<1>4. ASSUME NEW l \in 1..j - 1 PROVE s[l].key # k
  <2>1. l \in Nat /\ j \in Nat /\ l < j /\ l \in 1..Len(s)
    BY <1>1
  <2>2. <<l, j>> \in OpToRel(<, Nat)
    BY <2>1 DEF OpToRel
  <2> QED
    BY <1>3, <2>1, <2>2
<1> QED
  BY <1>4 DEF IsFirst

LEMMA FirstOnly ==
  ASSUME NEW S, NEW s \in Seq(S), NEW k, NEW i, IsFirst(s, k, i)
  PROVE  FirstOf(s, k) = i
<1>1. Len(s) \in Nat /\ DOMAIN s = 1..Len(s)
  BY LenProperties
<1>2. ASSUME NEW j, IsFirst(s, k, j) PROVE j = i
  <2>1. i \in 1..Len(s) /\ j \in 1..Len(s) /\ s[i].key = k /\ s[j].key = k
    BY <1>2 DEF IsFirst
  <2>2. ~(i < j)
    <3>1. i < j => i \in 1..j - 1
      BY <1>1, <2>1
    <3> QED
      BY <1>2, <2>1, <3>1 DEF IsFirst
  <2>3. ~(j < i)
    <3>1. j < i => j \in 1..i - 1
      BY <1>1, <2>1
    <3> QED
      BY <2>1, <3>1 DEF IsFirst
  <2> QED
    BY <1>1, <2>1, <2>2, <2>3
<1>3. \A j : IsFirst(s, k, j) <=>
             j \in DOMAIN s /\ s[j].key = k /\ \A l \in 1..j - 1 : s[l].key # k
  BY <1>1 DEF IsFirst
<1> QED
  BY <1>2, <1>3 DEF FirstOf

\* A key is there if it has a first pair, whose value is got.
LEMMA KeyFound ==
  ASSUME NEW S, NEW s \in Seq(S), NEW k \in KeysOf(s)
  PROVE  /\ k # NULL /\ IsFirst(s, k, FirstOf(s, k))
         /\ GetFrom(s, k) = s[FirstOf(s, k)].val
<1>1. DOMAIN s = 1..Len(s)
  BY LenProperties
<1>2. k # NULL /\ \E i \in 1..Len(s) : s[i].key = k
  BY <1>1 DEF KeysOf
<1>3. PICK i : IsFirst(s, k, i)
  BY <1>2, FirstFound
<1> QED
  BY <1>2, <1>3, FirstOnly DEF GetFrom

LEMMA FirstGot ==
  ASSUME NEW S, NEW s \in Seq(S), NEW k, k # NULL, NEW i, IsFirst(s, k, i)
  PROVE  k \in KeysOf(s) /\ GetFrom(s, k) = s[i].val /\ FirstOf(s, k) = i
<1>1. DOMAIN s = 1..Len(s)
  BY LenProperties
<1>2. k \in KeysOf(s)
  BY <1>1 DEF KeysOf, IsFirst
<1> QED
  BY <1>2, FirstOnly DEF GetFrom

LEMMA KeysAre ==
  ASSUME NEW S, NEW s \in Seq(S), NEW k
  PROVE  k \in KeysOf(s) <=> k # NULL /\ \E i \in 1..Len(s) : s[i].key = k
<1>1. DOMAIN s = 1..Len(s)
  BY LenProperties
<1> QED
  BY <1>1 DEF KeysOf

-----------------------------------------------------------------------------
(* What lists map keys to                                                  *)

MapOf(s) == [k \in KeysOf(s) |-> GetFrom(s, k)]
Overlay(m, n) == ConfigMap!Overlaid(m, n)

\* What is got behind is got if it is not in front.
LEMMA JoinedGet ==
  ASSUME NEW S, NEW s \in Seq(S), NEW t \in Seq(S)
  PROVE  /\ KeysOf(s \o t) = KeysOf(s) \cup KeysOf(t)
         /\ \A k \in KeysOf(s) : GetFrom(s \o t, k) = GetFrom(s, k)
         /\ \A k \in KeysOf(t) \ KeysOf(s) : GetFrom(s \o t, k) = GetFrom(t, k)
<1> DEFINE u == s \o t
           m == Len(s)
           n == Len(t)
<1>1. m \in Nat /\ n \in Nat
  BY LenProperties
<1>2. /\ u \in Seq(S) /\ Len(u) = m + n
      /\ \A i \in 1..m : i \in 1..m + n /\ u[i] = s[i]
      /\ \A i \in 1..n : m + i \in 1..m + n /\ u[m + i] = t[i]
  BY <1>1, ConcatProperties
<1> HIDE DEF u
<1>3. \A i \in 1..m + n : i \in 1..m \/ (i - m \in 1..n /\ m + (i - m) = i)
  BY <1>1
<1> HIDE DEF m, n
<1>4. KeysOf(u) = KeysOf(s) \cup KeysOf(t)
  <2> SUFFICES ASSUME NEW k PROVE k \in KeysOf(u) <=> k \in KeysOf(s) \/ k \in KeysOf(t)
    OBVIOUS
  <2>1. k \in KeysOf(u) <=> k # NULL /\ \E i \in 1..m + n : u[i].key = k
    BY <1>2, KeysAre
  <2>2. k \in KeysOf(s) <=> k # NULL /\ \E i \in 1..m : s[i].key = k
    BY KeysAre DEF m
  <2>3. k \in KeysOf(t) <=> k # NULL /\ \E i \in 1..n : t[i].key = k
    BY KeysAre DEF n
  <2> QED
    BY <1>2, <1>3, <2>1, <2>2, <2>3
<1>5. ASSUME NEW k \in KeysOf(s) PROVE GetFrom(u, k) = GetFrom(s, k)
  <2> DEFINE i == FirstOf(s, k)
  <2>1. k # NULL /\ IsFirst(s, k, i) /\ GetFrom(s, k) = s[i].val
    BY KeyFound
  <2> HIDE DEF i
  <2>2. i \in 1..m /\ s[i].key = k /\ \A j \in 1..i - 1 : s[j].key # k
    BY <2>1 DEF IsFirst, m
  <2>3. \A j \in 1..i - 1 : j \in 1..m
    BY <1>1, <2>2
  <2>4. IsFirst(u, k, i)
    BY <1>2, <2>2, <2>3 DEF IsFirst
  <2> QED
    BY <1>2, <2>1, <2>2, <2>4, FirstGot
<1>6. ASSUME NEW k \in KeysOf(t) \ KeysOf(s) PROVE GetFrom(u, k) = GetFrom(t, k)
  <2> DEFINE i == FirstOf(t, k)
  <2>1. k # NULL /\ IsFirst(t, k, i) /\ GetFrom(t, k) = t[i].val
    BY KeyFound
  <2> HIDE DEF i
  <2>2. i \in 1..n /\ t[i].key = k /\ \A j \in 1..i - 1 : t[j].key # k
    BY <2>1 DEF IsFirst, n
  <2>3. \A j \in 1..m : s[j].key # k
    BY <1>6, <2>1, KeysAre DEF m
  <2>4. \A j \in 1..(m + i) - 1 : j \in 1..m \/ (j - m \in 1..i - 1 /\ j - m \in 1..n /\ m + (j - m) = j)
    BY <1>1, <2>2
  <2>5. IsFirst(u, k, m + i)
    <3>1. m + i \in 1..Len(u) /\ u[m + i].key = k
      BY <1>2, <2>2
    <3>2. ASSUME NEW j \in 1..(m + i) - 1 PROVE u[j].key # k
      <4>1. CASE j \in 1..m
        BY <1>2, <2>3, <4>1
      <4>2. CASE j - m \in 1..i - 1 /\ j - m \in 1..n /\ m + (j - m) = j
        <5>1. u[j] = t[j - m]
          BY <1>2, <4>2
        <5> QED
          BY <2>2, <4>2, <5>1
      <4> QED
        BY <2>4, <4>1, <4>2
    <3> QED
      BY <3>1, <3>2 DEF IsFirst
  <2> QED
    BY <1>2, <2>1, <2>2, <2>5, FirstGot
<1> QED
  BY <1>4, <1>5, <1>6 DEF u

LEMMA JoinedMap ==
  ASSUME NEW S, NEW s \in Seq(S), NEW t \in Seq(S)
  PROVE  MapOf(s \o t) = Overlay(MapOf(s), MapOf(t))
<1>1. /\ KeysOf(s \o t) = KeysOf(s) \cup KeysOf(t)
      /\ \A k \in KeysOf(s) : GetFrom(s \o t, k) = GetFrom(s, k)
      /\ \A k \in KeysOf(t) \ KeysOf(s) : GetFrom(s \o t, k) = GetFrom(t, k)
  BY JoinedGet
<1> QED
  BY <1>1 DEF MapOf, Overlay, ConfigMap!Overlaid

-----------------------------------------------------------------------------
(* Picked pairs                                                            *)

\* A key whose first pair is picked is got as before, and no pair comes twice
\* that did not.
LEMMA PickedGet ==
  ASSUME NEW S, NEW s \in Seq(S), NEW I, NEW k, k # NULL,
         \A i : IsFirst(s, k, i) => i \in I
  PROVE  /\ k \in KeysOf(Picked(s, I)) <=> k \in KeysOf(s)
         /\ k \in KeysOf(s) => GetFrom(Picked(s, I), k) = GetFrom(s, k)
<1> DEFINE t == Picked(s, I)
           n == Len(s)
           m == Len(t)
<1>1. t \in Seq(S) /\ n \in Nat /\ m \in Nat
  BY PickedFacts, LenProperties
<1>2. PICK f : /\ \A l \in 1..m : f[l] \in 1..n /\ f[l] \in I /\ t[l] = s[f[l]]
               /\ \A i \in 1..n : i \in I => \E l \in 1..m : f[l] = i
               /\ \A l, j \in 1..m : l < j => f[l] < f[j]
  BY PickedFacts DEF PartOf, Places
<1> HIDE DEF t, n, m
<1>3. k \in KeysOf(t) => k \in KeysOf(s)
  <2>1. k \in KeysOf(t) <=> k # NULL /\ \E i \in 1..m : t[i].key = k
    BY <1>1, KeysAre DEF m
  <2>2. k \in KeysOf(s) <=> k # NULL /\ \E i \in 1..n : s[i].key = k
    BY KeysAre DEF n
  <2> QED
    BY <1>2, <2>1, <2>2
<1>4. ASSUME k \in KeysOf(s) PROVE k \in KeysOf(t) /\ GetFrom(t, k) = GetFrom(s, k)
  <2> DEFINE i == FirstOf(s, k)
  <2>1. IsFirst(s, k, i) /\ GetFrom(s, k) = s[i].val
    BY <1>4, KeyFound
  <2> HIDE DEF i
  <2>2. i \in 1..n /\ i \in I /\ s[i].key = k /\ \A j \in 1..i - 1 : s[j].key # k
    BY <2>1 DEF IsFirst, n
  <2>3. PICK l \in 1..m : f[l] = i
    BY <1>2, <2>2
  <2>4. ASSUME NEW j \in 1..l - 1 PROVE t[j].key # k
    <3>1. j \in 1..m /\ j < l
      BY <1>1
    <3>2. f[j] < i /\ f[j] \in 1..n
      BY <1>2, <2>3, <3>1
    <3>3. f[j] \in 1..i - 1
      BY <1>1, <2>2, <3>2
    <3> QED
      BY <1>2, <2>2, <3>1, <3>3
  <2>5. IsFirst(t, k, l) /\ t[l] = s[i]
    BY <1>2, <2>2, <2>3, <2>4 DEF IsFirst, m
  <2> QED
    BY <1>1, <2>1, <2>5, FirstGot
<1> QED
  BY <1>3, <1>4 DEF t

LEMMA PickedTwice ==
  ASSUME NEW S, NEW s \in Seq(S), NEW I, Twice(Picked(s, I))
  PROVE  \E i, j \in (1..Len(s)) \cap I : i < j /\ s[i].key = s[j].key
<1> DEFINE t == Picked(s, I)
           m == Len(t)
<1>1. t \in Seq(S) /\ DOMAIN t = 1..m
  BY PickedFacts, LenProperties
<1>2. PICK f : /\ \A l \in 1..m : f[l] \in 1..Len(s) /\ f[l] \in I /\ t[l] = s[f[l]]
               /\ \A l, j \in 1..m : l < j => f[l] < f[j]
  BY PickedFacts DEF PartOf, Places
<1> HIDE DEF m
<1>3. PICK i \in 1..m, j \in 1..m : i < j /\ t[i].key = t[j].key
  BY <1>1 DEF Twice
<1> QED
  BY <1>2, <1>3

-----------------------------------------------------------------------------
(* Lines                                                                   *)

LEMMA NotTwice ==
  ASSUME NEW S, NEW s \in Seq(S), ~Twice(s),
         NEW i \in 1..Len(s), NEW j \in 1..Len(s), s[i].key = s[j].key
  PROVE  i = j
<1>1. DOMAIN s = 1..Len(s) /\ Len(s) \in Nat
  BY LenProperties
<1>2. i \in DOMAIN s /\ j \in DOMAIN s /\ i \in Int /\ j \in Int
  BY <1>1
<1> QED
  BY <1>2 DEF Twice

\* The order does not matter if no key is there twice.
LEMMA ReverseOnce ==
  ASSUME NEW S, NEW s \in Seq(S)
  PROVE  /\ Reverse(s) \in Seq(S)
         /\ KeysOf(Reverse(s)) = KeysOf(s)
         /\ ~Twice(s) => MapOf(Reverse(s)) = MapOf(s)
<1> DEFINE t == Reverse(s)
           n == Len(s)
<1>1. n \in Nat /\ DOMAIN s = 1..n
  BY LenProperties
<1>2. /\ Len(t) = n /\ DOMAIN t = 1..n /\ t \in Seq(S)
      /\ \A i \in 1..n : n - i + 1 \in 1..n /\ t[i] = s[n - i + 1] /\ n - (n - i + 1) + 1 = i
  <2>1. \A i \in 1..n : n - i + 1 \in 1..n /\ s[n - i + 1] \in S /\ n - (n - i + 1) + 1 = i
    BY <1>1, ElementOfSeq
  <2> QED
    BY <1>1, <2>1 DEF Reverse
<1> HIDE DEF t
<1>3. \A i \in 1..n : \E j \in 1..n : t[i] = s[j]
  BY <1>2
<1>4. \A i \in 1..n : \E j \in 1..n : s[i] = t[j]
  BY <1>2
<1> HIDE DEF n
<1>5. KeysOf(t) = KeysOf(s)
  <2> SUFFICES ASSUME NEW k PROVE k \in KeysOf(t) <=> k \in KeysOf(s)
    OBVIOUS
  <2>1. k \in KeysOf(t) <=> k # NULL /\ \E i \in 1..n : t[i].key = k
    BY <1>2, KeysAre
  <2>2. k \in KeysOf(s) <=> k # NULL /\ \E i \in 1..n : s[i].key = k
    BY KeysAre DEF n
  <2> QED
    BY <1>3, <1>4, <2>1, <2>2
<1>6. ASSUME ~Twice(s), NEW k \in KeysOf(s) PROVE GetFrom(t, k) = GetFrom(s, k)
  <2> DEFINE i == FirstOf(s, k)
             j == FirstOf(t, k)
  <2>1. IsFirst(s, k, i) /\ GetFrom(s, k) = s[i].val
    BY KeyFound
  <2>2. IsFirst(t, k, j) /\ GetFrom(t, k) = t[j].val
    BY <1>2, <1>5, KeyFound
  <2> HIDE DEF i, j
  <2>3. i \in 1..n /\ j \in 1..n /\ s[i].key = k /\ t[j].key = k
    BY <1>2, <2>1, <2>2 DEF IsFirst, n
  <2>4. n - j + 1 \in 1..n /\ s[n - j + 1] = t[j]
    BY <1>2, <2>3
  <2>5. n - j + 1 = i
    BY <1>6, <2>3, <2>4, NotTwice DEF n
  <2> QED
    BY <2>1, <2>2, <2>4, <2>5
<1> QED
  BY <1>2, <1>5, <1>6 DEF MapOf, t

\* Values are cut, keys are not.
LinesOf(s) == [i \in DOMAIN s |-> Line(s[i])]

LEMMA LineFacts ==
  ASSUME NEW p \in Pairs
  PROVE  Line(p) \in Pairs /\ Line(p).key = p.key /\ Line(p).val = ReadBack[p.val]
BY ConfigAssumption DEF Line, Pairs

LEMMA LinesMap ==
  ASSUME NEW s \in Seq(Pairs)
  PROVE  /\ LinesOf(s) \in Seq(Pairs) /\ Len(LinesOf(s)) = Len(s)
         /\ KeysOf(LinesOf(s)) = KeysOf(s)
         /\ \A k \in KeysOf(s) : GetFrom(LinesOf(s), k) = ReadBack[GetFrom(s, k)]
         /\ Twice(LinesOf(s)) => Twice(s)
<1> DEFINE t == LinesOf(s)
           n == Len(s)
<1>1. n \in Nat /\ DOMAIN s = 1..n /\ \A i \in 1..n : s[i] \in Pairs
  BY LenProperties, ElementOfSeq
<1>2. /\ DOMAIN t = 1..n /\ Len(t) = n /\ t \in Seq(Pairs)
      /\ \A i \in 1..n : t[i].key = s[i].key /\ t[i].val = ReadBack[s[i].val]
  <2>1. \A i \in 1..n : Line(s[i]) \in Pairs /\ Line(s[i]).key = s[i].key
                        /\ Line(s[i]).val = ReadBack[s[i].val]
    BY <1>1, LineFacts
  <2> QED
    BY <1>1, <2>1 DEF LinesOf
<1> HIDE DEF t
<1>3. KeysOf(t) = KeysOf(s)
  BY <1>1, <1>2 DEF KeysOf
<1>4. ASSUME NEW k \in KeysOf(s) PROVE GetFrom(t, k) = ReadBack[GetFrom(s, k)]
  <2> DEFINE i == FirstOf(s, k)
  <2>1. k # NULL /\ IsFirst(s, k, i) /\ GetFrom(s, k) = s[i].val
    BY KeyFound
  <2> HIDE DEF i
  <2>2. i \in 1..n /\ s[i].key = k /\ \A j \in 1..i - 1 : s[j].key # k
    BY <2>1 DEF IsFirst
  <2>3. \A j \in 1..i - 1 : j \in 1..n
    BY <1>1, <2>2
  <2>4. IsFirst(t, k, i)
    BY <1>2, <2>2, <2>3 DEF IsFirst
  <2> QED
    BY <1>2, <2>1, <2>2, <2>4, FirstGot
<1>5. Twice(t) => Twice(s)
  BY <1>1, <1>2 DEF Twice
<1> QED
  BY <1>2, <1>3, <1>4, <1>5 DEF t

LEMMA MapType ==
  ASSUME NEW s \in Seq(Pairs)
  PROVE  /\ KeysOf(s) \subseteq ConfKeys
         /\ \A k \in KeysOf(s) : GetFrom(s, k) \in ConfValues /\ GetFrom(s, k) # NULL
<1>1. \A i \in 1..Len(s) : s[i] \in Pairs
  BY ElementOfSeq
<1>2. DOMAIN s = 1..Len(s)
  BY LenProperties
<1>3. KeysOf(s) \subseteq ConfKeys
  BY <1>1, <1>2 DEF KeysOf, Pairs
<1>4. ASSUME NEW k \in KeysOf(s) PROVE GetFrom(s, k) \in ConfValues
  <2> DEFINE i == FirstOf(s, k)
  <2>1. IsFirst(s, k, i) /\ GetFrom(s, k) = s[i].val
    BY KeyFound
  <2> HIDE DEF i
  <2> QED
    BY <1>1, <2>1 DEF IsFirst, Pairs
<1> QED
  BY <1>3, <1>4, ConfigAssumption

\* What a reader of a file f puts in front.
ParsedOf(f) == Reverse(Picked(f, {i \in DOMAIN f : f[i] # Skipped}))
SavedOf(f) == [k \in KeysOf(f) |-> GetFrom(ParsedOf(f), k)]

LEMMA ParsedFacts ==
  ASSUME NEW f \in Seq(Pairs \cup {Skipped})
  PROVE  /\ ParsedOf(f) \in Seq(Pairs)
         /\ KeysOf(ParsedOf(f)) = KeysOf(f)
         /\ ~Twice(f) => MapOf(ParsedOf(f)) = MapOf(f)
<1> DEFINE S == Pairs \cup {Skipped}
           I == {i \in DOMAIN f : f[i] # Skipped}
           t == Picked(f, I)
<1>1. f \in Seq(S) /\ DOMAIN f = 1..Len(f) /\ Len(f) \in Nat
  BY LenProperties
<1>2. t \in Seq(S) /\ PartOf(f, I, Len(f), t)
  BY <1>1, PickedFacts
<1>3. t \in Seq(Pairs)
  <2>1. \A i \in 1..Len(t) : t[i] \in Pairs
    <3>1. PICK g : \A l \in 1..Len(t) : g[l] \in I /\ t[l] = f[g[l]]
      BY <1>2 DEF PartOf, Places
    <3>2. \A i \in I : f[i] \in Pairs
      BY <1>1, ElementOfSeq
    <3> HIDE DEF t, I
    <3> QED
      BY <3>1, <3>2
  <2>2. t = [i \in 1..Len(t) |-> t[i]] /\ Len(t) \in Nat
    BY <1>2, LenProperties
  <2> HIDE DEF t
  <2> QED
    BY <2>1, <2>2
<1>4. ASSUME NEW k, k # NULL
      PROVE  /\ k \in KeysOf(t) <=> k \in KeysOf(f)
             /\ k \in KeysOf(f) => GetFrom(t, k) = GetFrom(f, k)
  <2>1. \A i : IsFirst(f, k, i) => i \in I
    BY <1>1, <1>4 DEF IsFirst, Skipped
  <2> HIDE DEF S, I
  <2> QED
    BY <1>1, <1>4, <2>1, PickedGet
<1>5. Twice(t) => Twice(f)
  <2>1. ASSUME Twice(t) PROVE \E i, j \in (1..Len(f)) \cap I : i < j /\ f[i].key = f[j].key
    <3> HIDE DEF S, I
    <3> QED
      BY <1>1, <2>1, PickedTwice
  <2> QED
    BY <1>1, <2>1 DEF Twice
<1> HIDE DEF I
<1>6. KeysOf(t) = KeysOf(f)
  <2> SUFFICES ASSUME NEW k PROVE k \in KeysOf(t) <=> k \in KeysOf(f)
    OBVIOUS
  <2>1. NULL \notin KeysOf(t) /\ NULL \notin KeysOf(f)
    BY DEF KeysOf
  <2> QED
    BY <1>4, <2>1
<1>7. MapOf(t) = MapOf(f)
  <2>1. \A k \in KeysOf(f) : k # NULL /\ GetFrom(t, k) = GetFrom(f, k)
    BY <1>4 DEF KeysOf
  <2> QED
    BY <1>6, <2>1 DEF MapOf
<1>8. ParsedOf(f) = Reverse(t)
  BY DEF ParsedOf, I
<1> HIDE DEF t
<1> QED
  BY <1>3, <1>5, <1>6, <1>7, <1>8, ReverseOnce

-----------------------------------------------------------------------------
(* Changes of the list                                                     *)

SetList(s, k, v) ==
  IF k \in KeysOf(s) THEN [s EXCEPT ![FirstOf(s, k)].val = v]
                     ELSE <<[key |-> k, val |-> v]>> \o s

LEMMA SetHere ==
  ASSUME NEW s \in Seq(Pairs), NEW k \in KeysOf(s), NEW v \in ConfValues
  PROVE  /\ SetList(s, k, v) \in Seq(Pairs)
         /\ MapOf(SetList(s, k, v)) = Overlay([j \in {k} |-> v], MapOf(s))
         /\ Twice(SetList(s, k, v)) <=> Twice(s)
<1> DEFINE n == Len(s)
           i == FirstOf(s, k)
           t == [s EXCEPT ![i].val = v]
<1>1. n \in Nat /\ DOMAIN s = 1..n /\ \A l \in 1..n : s[l] \in Pairs
  BY LenProperties, ElementOfSeq
<1>2. k # NULL /\ IsFirst(s, k, i)
  BY KeyFound
<1> HIDE DEF i
<1>3. i \in 1..n /\ s[i].key = k
  BY <1>2 DEF IsFirst
<1>4. t[i] = [s[i] EXCEPT !.val = v]
  BY <1>1, <1>3
<1>5. t[i].key = k /\ t[i].val = v /\ t[i] \in Pairs
  <2>1. s[i] \in [key : ConfKeys, val : ConfValues]
    BY <1>1, <1>3 DEF Pairs
  <2> HIDE DEF t
  <2> QED
    BY <1>3, <1>4, <2>1 DEF Pairs
<1>6. \A l \in 1..n : l # i => t[l] = s[l]
  BY <1>1
<1>7. DOMAIN t = 1..n /\ t = [l \in 1..n |-> t[l]]
  BY <1>1
<1> HIDE DEF t
<1>8. \A l \in 1..n : t[l] \in Pairs /\ t[l].key = s[l].key
  BY <1>1, <1>3, <1>5, <1>6
<1>9. t \in Seq(Pairs) /\ Len(t) = n
  BY <1>1, <1>7, <1>8
<1>10. KeysOf(t) = KeysOf(s)
  BY <1>1, <1>7, <1>8 DEF KeysOf
<1>11. \A j, l : IsFirst(s, j, l) => IsFirst(t, j, l)
  <2> SUFFICES ASSUME NEW j, NEW l, IsFirst(s, j, l) PROVE IsFirst(t, j, l)
    OBVIOUS
  <2>1. l \in 1..n /\ s[l].key = j /\ \A h \in 1..l - 1 : s[h].key # j
    BY DEF IsFirst, n
  <2>2. \A h \in 1..l - 1 : h \in 1..n
    BY <1>1, <2>1
  <2> QED
    BY <1>8, <1>9, <2>1, <2>2 DEF IsFirst
<1>12. GetFrom(t, k) = v
  BY <1>2, <1>5, <1>9, <1>11, FirstGot
<1>13. ASSUME NEW j \in KeysOf(s), j # k PROVE GetFrom(t, j) = GetFrom(s, j)
  <2> DEFINE l == FirstOf(s, j)
  <2>1. j # NULL /\ IsFirst(s, j, l) /\ GetFrom(s, j) = s[l].val
    BY KeyFound
  <2> HIDE DEF l
  <2>2. l \in 1..n /\ s[l].key = j
    BY <2>1 DEF IsFirst, n
  <2>3. l # i
    BY <1>3, <1>13, <2>2
  <2> QED
    BY <1>6, <1>9, <1>11, <2>1, <2>2, <2>3, FirstGot
<1>14. MapOf(t) = Overlay([j \in {k} |-> v], MapOf(s))
  BY <1>10, <1>12, <1>13 DEF MapOf, Overlay, ConfigMap!Overlaid
<1>15. Twice(t) <=> Twice(s)
  BY <1>1, <1>7, <1>8 DEF Twice
<1> QED
  BY <1>9, <1>14, <1>15 DEF SetList, t, i

LEMMA SetInFront ==
  ASSUME NEW s \in Seq(Pairs), NEW k \in ConfKeys, k \notin KeysOf(s), NEW v \in ConfValues
  PROVE  /\ SetList(s, k, v) \in Seq(Pairs)
         /\ MapOf(SetList(s, k, v)) = Overlay([j \in {k} |-> v], MapOf(s))
         /\ Twice(SetList(s, k, v)) <=> Twice(s)
<1> DEFINE n == Len(s)
           p == [key |-> k, val |-> v]
           t == <<p>> \o s
<1>1. n \in Nat /\ DOMAIN s = 1..n /\ k # NULL
  BY LenProperties, ConfigAssumption
<1>2. p \in Pairs /\ p.key = k /\ p.val = v
  BY DEF Pairs
<1> HIDE DEF p
<1>3. <<p>> \in Seq(Pairs) /\ Len(<<p>>) = 1 /\ <<p>>[1] = p
  BY <1>2
<1>4. IsFirst(<<p>>, k, 1)
  BY <1>2, <1>3 DEF IsFirst
<1>5. KeysOf(<<p>>) = {k} /\ GetFrom(<<p>>, k) = v
  <2>1. k \in KeysOf(<<p>>) /\ GetFrom(<<p>>, k) = v
    BY <1>1, <1>2, <1>3, <1>4, FirstGot
  <2>2. \A j \in KeysOf(<<p>>) : j = k
    BY <1>2, <1>3 DEF KeysOf
  <2> QED
    BY <2>1, <2>2
<1>6. MapOf(<<p>>) = [j \in {k} |-> v]
  BY <1>5 DEF MapOf
<1>7. t \in Seq(Pairs) /\ MapOf(t) = Overlay([j \in {k} |-> v], MapOf(s))
  BY <1>3, <1>6, JoinedMap, ConcatProperties
<1>8. Len(t) = n + 1 /\ DOMAIN t = 1..n + 1 /\ t[1] = p /\ \A l \in 1..n : t[l + 1] = s[l]
  BY <1>1, <1>3, ConcatProperties
<1> HIDE DEF t
<1>9. Twice(s) => Twice(t)
  <2> SUFFICES ASSUME NEW j \in 1..n, NEW l \in 1..n, j < l, s[j].key = s[l].key
               PROVE  Twice(t)
    BY <1>1 DEF Twice
  <2>1. j + 1 \in 1..n + 1 /\ l + 1 \in 1..n + 1 /\ j + 1 < l + 1
    BY <1>1
  <2>2. t[j + 1] = s[j] /\ t[l + 1] = s[l]
    BY <1>8
  <2>3. t[j + 1].key = t[l + 1].key
    BY <2>2
  <2> QED
    BY <1>8, <2>1, <2>3 DEF Twice
<1>10. Twice(t) => Twice(s)
  <2> SUFFICES ASSUME NEW j \in 1..n + 1, NEW l \in 1..n + 1, j < l, t[j].key = t[l].key
               PROVE  Twice(s)
    BY <1>8 DEF Twice
  <2>1. l - 1 \in 1..n /\ t[l] = s[l - 1]
    <3>1. l - 1 \in 1..n /\ (l - 1) + 1 = l
      BY <1>1
    <3> QED
      BY <1>8, <3>1
  <2>2. j # 1
    <3>1. s[l - 1].key # k
      BY <1>1, <2>1 DEF KeysOf
    <3> QED
      BY <1>2, <1>8, <2>1, <3>1
  <2>3. j - 1 \in 1..n /\ t[j] = s[j - 1] /\ j - 1 < l - 1
    <3>1. j - 1 \in 1..n /\ (j - 1) + 1 = j /\ j - 1 < l - 1
      BY <1>1, <2>2
    <3> QED
      BY <1>8, <3>1
  <2> QED
    BY <1>1, <2>1, <2>3 DEF Twice
<1> QED
  BY <1>7, <1>9, <1>10 DEF SetList, t, p

Without(s, k) == Picked(s, {i \in DOMAIN s : s[i].key # k})

LEMMA UnsetFacts ==
  ASSUME NEW s \in Seq(Pairs), NEW k
  PROVE  /\ Without(s, k) \in Seq(Pairs)
         /\ MapOf(Without(s, k)) = [j \in KeysOf(s) \ {k} |-> GetFrom(s, j)]
         /\ Twice(Without(s, k)) => Twice(s)
<1> DEFINE I == {i \in DOMAIN s : s[i].key # k}
           t == Picked(s, I)
<1>1. DOMAIN s = 1..Len(s)
  BY LenProperties
<1>2. t \in Seq(Pairs) /\ PartOf(s, I, Len(s), t)
  BY PickedFacts
<1>3. \A j : j # k => \A i : IsFirst(s, j, i) => i \in I
  BY <1>1 DEF IsFirst
<1>4. k \notin KeysOf(t)
  <2>1. PICK f : \A l \in 1..Len(t) : f[l] \in I /\ t[l] = s[f[l]]
    BY <1>2 DEF PartOf, Places
  <2>2. \A l \in 1..Len(t) : t[l].key # k
    BY <2>1
  <2> HIDE DEF t
  <2> QED
    BY <1>2, <2>2, KeysAre
<1>5. Twice(t) => Twice(s)
  <2>1. ASSUME Twice(t) PROVE \E i, j \in (1..Len(s)) \cap I : i < j /\ s[i].key = s[j].key
    <3> HIDE DEF I
    <3> QED
      BY <2>1, PickedTwice
  <2> QED
    BY <1>1, <2>1 DEF Twice
<1>6. ASSUME NEW j, j # NULL, j # k
      PROVE  /\ j \in KeysOf(t) <=> j \in KeysOf(s)
             /\ j \in KeysOf(s) => GetFrom(t, j) = GetFrom(s, j)
  <2>1. \A i : IsFirst(s, j, i) => i \in I
    BY <1>3, <1>6
  <2> HIDE DEF I
  <2> QED
    BY <1>6, <2>1, PickedGet
<1> HIDE DEF t
<1>7. NULL \notin KeysOf(t) /\ NULL \notin KeysOf(s)
  BY DEF KeysOf
<1>8. KeysOf(t) = KeysOf(s) \ {k}
  BY <1>4, <1>6, <1>7
<1>9. \A j \in KeysOf(s) \ {k} : GetFrom(t, j) = GetFrom(s, j)
  BY <1>6, <1>7
<1> QED
  BY <1>2, <1>5, <1>8, <1>9 DEF Without, MapOf, t

Firsts(s) == Picked(s, {i \in DOMAIN s : i = FirstOf(s, s[i].key)})

LEMMA FirstsFacts ==
  ASSUME NEW s \in Seq(Pairs)
  PROVE  /\ Firsts(s) \in Seq(Pairs) /\ ~Twice(Firsts(s))
         /\ KeysOf(Firsts(s)) = KeysOf(s) /\ MapOf(Firsts(s)) = MapOf(s)
<1> DEFINE I == {i \in DOMAIN s : i = FirstOf(s, s[i].key)}
           t == Picked(s, I)
<1>1. DOMAIN s = 1..Len(s) /\ Len(s) \in Nat
  BY LenProperties
<1>2. t \in Seq(Pairs)
  BY PickedFacts
<1>3. ASSUME NEW j, j # NULL
      PROVE  /\ j \in KeysOf(t) <=> j \in KeysOf(s)
             /\ j \in KeysOf(s) => GetFrom(t, j) = GetFrom(s, j)
  <2>1. ASSUME NEW i, IsFirst(s, j, i) PROVE i \in I
    <3>1. FirstOf(s, j) = i
      BY <2>1, FirstOnly
    <3> QED
      BY <1>1, <2>1, <3>1 DEF IsFirst
  <2> HIDE DEF I
  <2> QED
    BY <1>3, <2>1, PickedGet
<1>4. ~Twice(t)
  <2> SUFFICES ASSUME Twice(t) PROVE FALSE
    OBVIOUS
  <2>1. PICK i, j \in (1..Len(s)) \cap I : i < j /\ s[i].key = s[j].key
    <3> HIDE DEF I
    <3> QED
      BY PickedTwice
  <2>2. i = j
    BY <2>1
  <2> QED
    BY <1>1, <2>1, <2>2
<1> HIDE DEF t
<1>5. NULL \notin KeysOf(t) /\ NULL \notin KeysOf(s)
  BY DEF KeysOf
<1>6. KeysOf(t) = KeysOf(s)
  <2> SUFFICES ASSUME NEW j PROVE j \in KeysOf(t) <=> j \in KeysOf(s)
    OBVIOUS
  <2> QED
    BY <1>3, <1>5
<1>7. MapOf(t) = MapOf(s)
  BY <1>3, <1>5, <1>6 DEF MapOf
<1> QED
  BY <1>2, <1>4, <1>6, <1>7 DEF Firsts, t

-----------------------------------------------------------------------------
(* Steps                                                                   *)

LEMMA LookupIs ==
  ASSUME NEW k
  PROVE  /\ ConfigMap!Lookup(k) = GetFrom(pairs, k)
         /\ ConfigTypeOK => (GetFrom(pairs, k) # NULL <=> k \in KeysOf(pairs))
<1>1. ConfigMap!Lookup(k) = GetFrom(pairs, k)
  BY DEF ConfigMap!Lookup, GetFrom
<1>2. ConfigTypeOK => (GetFrom(pairs, k) # NULL <=> k \in KeysOf(pairs))
  <2>1. ConfigTypeOK => \A j \in KeysOf(pairs) : GetFrom(pairs, j) # NULL
    BY MapType DEF ConfigTypeOK
  <2> QED
    BY <2>1 DEF GetFrom
<1> QED
  BY <1>1, <1>2

LEMMA ConfigSetStep ==
  ASSUME ConfigTypeOK, NEW k \in ConfKeys, NEW v \in ConfValues, ConfigSet(k, v)
  PROVE  ConfigTypeOK' /\ ConfigMap!Set(k, v)
<1>1. pairs' = SetList(pairs, k, v) /\ UNCHANGED <<file, verify, confRet>>
  BY DEF ConfigSet, SetList
<1>2. /\ SetList(pairs, k, v) \in Seq(Pairs)
      /\ MapOf(SetList(pairs, k, v)) = Overlay([j \in {k} |-> v], MapOf(pairs))
      /\ Twice(SetList(pairs, k, v)) <=> Twice(pairs)
  BY SetHere, SetInFront DEF ConfigTypeOK
<1>3. ConfigTypeOK'
  BY <1>1, <1>2 DEF ConfigTypeOK
<1>4. MapOf(pairs)' = Overlay([j \in {k} |-> v], MapOf(pairs)) /\ Twice(pairs)' = Twice(pairs)
  <2>1. Twice(SetList(pairs, k, v)) \in BOOLEAN /\ Twice(pairs) \in BOOLEAN
    BY DEF Twice
  <2>2. Twice(SetList(pairs, k, v)) = Twice(pairs)
    BY <1>2, <2>1
  <2> QED
    BY <1>1, <1>2, <2>2
<1>5. ConfigMap!Set(k, v)
  BY <1>1, <1>4 DEF ConfigMap!Set, MapOf, Overlay, Parsed
<1> QED
  BY <1>3, <1>5

LEMMA ConfigUnsetStep ==
  ASSUME ConfigTypeOK, NEW k \in ConfKeys, ConfigUnset(k)
  PROVE  ConfigTypeOK' /\ ConfigMap!Unset(k)
<1>1. pairs' = Without(pairs, k) /\ UNCHANGED <<file, verify, confRet>>
  BY DEF ConfigUnset, Without
<1>2. /\ Without(pairs, k) \in Seq(Pairs)
      /\ MapOf(Without(pairs, k)) = [j \in KeysOf(pairs) \ {k} |-> GetFrom(pairs, j)]
      /\ Twice(Without(pairs, k)) => Twice(pairs)
  BY UnsetFacts DEF ConfigTypeOK
<1>3. ConfigTypeOK'
  BY <1>1, <1>2 DEF ConfigTypeOK
<1>4. /\ MapOf(pairs)' = [j \in KeysOf(pairs) \ {k} |-> GetFrom(pairs, j)]
      /\ Twice(pairs)' \in {Twice(pairs), FALSE}
  <2>1. Twice(pairs)' \in BOOLEAN /\ Twice(pairs) \in BOOLEAN
    BY DEF Twice
  <2> QED
    BY <1>1, <1>2, <2>1
<1>5. [j \in KeysOf(pairs) \ {k} |-> GetFrom(pairs, j)]
       = [j \in DOMAIN MapOf(pairs) \ {k} |-> MapOf(pairs)[j]]
  BY DEF MapOf
<1>6. ConfigMap!Unset(k)
  BY <1>1, <1>4, <1>5 DEF ConfigMap!Unset, MapOf, Parsed
<1> QED
  BY <1>3, <1>6

LEMMA AskStep ==
  ASSUME ConfigTypeOK, NEW k \in ConfKeys, NEW ident \in ConfValues \cup {NULL}
  PROVE  /\ ConfigGet(k) => ConfigTypeOK' /\ ConfigMap!Get(k)
         /\ ConfigIsset(k) => ConfigTypeOK' /\ ConfigMap!Isset(k)
         /\ TrustdbVerify(k, ident) => ConfigTypeOK' /\ ConfigMap!Verify(k, ident)
<1>1. GetFrom(pairs, k) \in ConfValues \cup {NULL}
  BY MapType DEF ConfigTypeOK, GetFrom
<1>2. ASSUME ConfigGet(k) PROVE ConfigTypeOK' /\ ConfigMap!Get(k)
  <2>1. ConfigTypeOK'
    BY <1>1, <1>2 DEF ConfigTypeOK, ConfigGet
  <2>2. ConfigMap!Get(k)
    BY <1>2, LookupIs DEF ConfigGet, ConfigMap!Get, Parsed
  <2> QED
    BY <2>1, <2>2
<1>3. ASSUME ConfigIsset(k) PROVE ConfigTypeOK' /\ ConfigMap!Isset(k)
  <2>1. ConfigTypeOK'
    BY <1>3 DEF ConfigTypeOK, ConfigIsset
  <2>2. ConfigMap!Isset(k)
    BY <1>3 DEF ConfigIsset, ConfigMap!Isset, Parsed
  <2> QED
    BY <2>1, <2>2
<1>4. ASSUME TrustdbVerify(k, ident) PROVE ConfigTypeOK' /\ ConfigMap!Verify(k, ident)
  <2>1. ConfigTypeOK'
    BY <1>4 DEF ConfigTypeOK, TrustdbVerify
  <2>2. UNCHANGED <<pairs, file, verify>>
        /\ confRet' = (\/ ~verify
                       \/ /\ GetFrom(pairs, k) # NULL
                          /\ ident # NULL => ident = GetFrom(pairs, k))
    BY <1>4 DEF TrustdbVerify
  <2>3. confRet' = (verify => /\ k \in KeysOf(pairs)
                              /\ ident \in {NULL, ConfigMap!Lookup(k)})
    <3>1. (GetFrom(pairs, k) # NULL) <=> (k \in KeysOf(pairs))
      BY LookupIs
    <3>2. (ident # NULL => ident = GetFrom(pairs, k))
           <=> ident \in {NULL, ConfigMap!Lookup(k)}
      BY LookupIs
    <3> QED
      BY <2>2, <3>1, <3>2, Zenon
  <2>4. ConfigMap!Verify(k, ident)
    BY <2>2, <2>3 DEF ConfigMap!Verify, Parsed
  <2> QED
    BY <2>1, <2>4
<1> QED
  BY <1>2, <1>3, <1>4

LEMMA ClearStep ==
  ASSUME ConfigTypeOK
  PROVE  /\ \A b \in BOOLEAN : SetVerify(b) => ConfigTypeOK' /\ ConfigMap!SetVerify
         /\ \A v \in {verify, TRUE} : ConfigDone(v) => ConfigTypeOK' /\ ConfigMap!Clear
<1>1. ASSUME NEW b \in BOOLEAN, SetVerify(b) PROVE ConfigTypeOK' /\ ConfigMap!SetVerify
  BY <1>1 DEF ConfigTypeOK, SetVerify, ConfigMap!SetVerify, Parsed
<1>2. ASSUME NEW v \in {verify, TRUE}, ConfigDone(v) PROVE ConfigTypeOK' /\ ConfigMap!Clear
  <2>1. ConfigTypeOK'
    <3>1. verify' \in BOOLEAN
      BY <1>2, Zenon DEF ConfigTypeOK, ConfigDone
    <3>2. pairs' \in Seq(Pairs) /\ UNCHANGED <<file, confRet>>
      BY <1>2 DEF ConfigDone
    <3> QED
      BY <3>1, <3>2 DEF ConfigTypeOK
  <2>2. MapOf(<<>>) = <<>> /\ ~Twice(<<>>)
    BY DEF MapOf, KeysOf, Twice
  <2>3. MapOf(pairs)' = <<>> /\ Twice(pairs)' = FALSE
    <3>1. Twice(pairs)' \in BOOLEAN
      BY DEF Twice
    <3> QED
      BY <1>2, <2>2, <3>1 DEF ConfigDone
  <2>4. ConfigMap!Clear
    BY <1>2, <2>3 DEF ConfigDone, ConfigMap!Clear, MapOf, Parsed
  <2> QED
    BY <2>1, <2>4
<1> QED
  BY <1>1, <1>2

LEMMA SavedIs == ConfigTypeOK => SavedOf(file) = MapOf(ParsedOf(file))
BY ParsedFacts DEF ConfigTypeOK, SavedOf, MapOf

LEMMA TwiceJoined ==
  ASSUME NEW S, NEW s \in Seq(S), NEW t \in Seq(S), Twice(t)
  PROVE  Twice(s \o t)
<1> DEFINE u == s \o t
           m == Len(s)
<1>1. DOMAIN t = 1..Len(t) /\ Len(t) \in Nat /\ m \in Nat
  BY LenProperties
<1>2. PICK i \in 1..Len(t), j \in 1..Len(t) : i < j /\ t[i].key = t[j].key
  BY <1>1 DEF Twice
<1>3. DOMAIN u = 1..m + Len(t) /\ u[m + i] = t[i] /\ u[m + j] = t[j]
  BY <1>1, ConcatProperties
<1>4. m + i \in 1..m + Len(t) /\ m + j \in 1..m + Len(t) /\ m + i < m + j
  BY <1>1, <1>2
<1> HIDE DEF u, m
<1>5. u[m + i].key = u[m + j].key
  BY <1>2, <1>3
<1>6. Twice(u)
  BY <1>3, <1>4, <1>5 DEF Twice
<1> QED
  BY <1>6 DEF u

LEMMA ReadSteps ==
  ASSUME ConfigTypeOK
  PROVE  /\ ConfigRead => ConfigTypeOK' /\ ConfigMap!Load
         /\ TrustdbRead => ConfigTypeOK' /\ ConfigMap!LoadTrust
<1>1. Parsed = ParsedOf(file) /\ Parsed \in Seq(Pairs) /\ MapOf(Parsed) = SavedOf(file)
  BY ParsedFacts, SavedIs DEF ConfigTypeOK, Parsed, ParsedOf
<1>2. \A s : Twice(s) \in BOOLEAN
  BY DEF Twice
<1>3. ASSUME ConfigRead PROVE ConfigTypeOK' /\ ConfigMap!Load
  <2>1. pairs' = Parsed \o pairs /\ UNCHANGED <<file, verify, confRet>>
    BY <1>3 DEF ConfigRead
  <2>2. /\ Parsed \o pairs \in Seq(Pairs)
        /\ MapOf(Parsed \o pairs) = Overlay(SavedOf(file), MapOf(pairs))
        /\ Twice(pairs) => Twice(Parsed \o pairs)
    BY <1>1, JoinedMap, TwiceJoined, ConcatProperties DEF ConfigTypeOK
  <2>3. ConfigTypeOK'
    BY <2>1, <2>2 DEF ConfigTypeOK
  <2>4. MapOf(pairs)' = Overlay(SavedOf(file), MapOf(pairs)) /\ Twice(pairs)' \in {Twice(pairs), TRUE}
    BY <1>2, <2>1, <2>2
  <2>5. ConfigMap!Load
    BY <1>1, <2>1, <2>4 DEF ConfigMap!Load, MapOf, Overlay, SavedOf, ParsedOf, Parsed
  <2> QED
    BY <2>3, <2>5
<1>4. ASSUME TrustdbRead PROVE ConfigTypeOK' /\ ConfigMap!LoadTrust
  <2>1. pairs' = Parsed /\ verify' = TRUE /\ UNCHANGED <<file, confRet>>
    BY <1>4 DEF TrustdbRead
  <2>2. ConfigTypeOK'
    BY <1>1, <2>1 DEF ConfigTypeOK
  <2>3. MapOf(pairs)' = SavedOf(file) /\ Twice(pairs)' \in BOOLEAN
    BY <1>1, <1>2, <2>1
  <2>4. ConfigMap!LoadTrust
    BY <1>1, <2>1, <2>3 DEF ConfigMap!LoadTrust, MapOf, SavedOf, ParsedOf, Parsed
  <2> QED
    BY <2>2, <2>4
<1> QED
  BY <1>3, <1>4

\* A file that has no key twice says what the list it came from said.
LEMMA WrittenOnce ==
  ASSUME NEW s \in Seq(Pairs), ~Twice(s)
  PROVE  SavedOf(LinesOf(s)) = [k \in KeysOf(s) |-> ReadBack[GetFrom(s, k)]]
<1> DEFINE f == LinesOf(s)
<1>1. /\ f \in Seq(Pairs \cup {Skipped}) /\ KeysOf(f) = KeysOf(s) /\ ~Twice(f)
      /\ \A k \in KeysOf(s) : GetFrom(f, k) = ReadBack[GetFrom(s, k)]
  BY LinesMap
<1> HIDE DEF f
<1>2. MapOf(ParsedOf(f)) = MapOf(f) /\ KeysOf(ParsedOf(f)) = KeysOf(f)
  BY <1>1, ParsedFacts
<1>3. \A k \in KeysOf(s) : GetFrom(ParsedOf(f), k) = ReadBack[GetFrom(s, k)]
  <2> SUFFICES ASSUME NEW k \in KeysOf(s)
               PROVE  GetFrom(ParsedOf(f), k) = ReadBack[GetFrom(s, k)]
    OBVIOUS
  <2>1. GetFrom(ParsedOf(f), k) = MapOf(ParsedOf(f))[k] /\ GetFrom(f, k) = MapOf(f)[k]
    BY <1>1, <1>2 DEF MapOf
  <2> QED
    BY <1>1, <1>2, <2>1
<1> QED
  BY <1>1, <1>3 DEF SavedOf, f

LEMMA SaveStep ==
  ASSUME ConfigTypeOK, ConfigWrite
  PROVE  ConfigTypeOK' /\ ConfigMap!Save
<1> DEFINE t == Firsts(pairs)
<1>1. /\ t \in Seq(Pairs) /\ ~Twice(t) /\ KeysOf(t) = KeysOf(pairs)
      /\ \A k \in KeysOf(pairs) : GetFrom(t, k) = GetFrom(pairs, k)
  <2>1. t \in Seq(Pairs) /\ ~Twice(t) /\ KeysOf(t) = KeysOf(pairs) /\ MapOf(t) = MapOf(pairs)
    BY FirstsFacts DEF ConfigTypeOK
  <2> HIDE DEF t
  <2>2. ASSUME NEW k \in KeysOf(pairs) PROVE GetFrom(t, k) = GetFrom(pairs, k)
    <3>1. GetFrom(t, k) = MapOf(t)[k] /\ GetFrom(pairs, k) = MapOf(pairs)[k]
      BY <2>1 DEF MapOf
    <3> QED
      BY <2>1, <3>1
  <2> QED
    BY <2>1, <2>2
<1>2. file' = LinesOf(t) /\ UNCHANGED <<pairs, verify, confRet>>
  BY DEF ConfigWrite, Firsts, LinesOf
<1> HIDE DEF t
<1>3. LinesOf(t) \in Seq(Pairs)
  BY <1>1, LinesMap
<1>4. ConfigTypeOK'
  BY <1>2, <1>3 DEF ConfigTypeOK
<1>5. SavedOf(LinesOf(t)) = [k \in KeysOf(pairs) |-> ReadBack[GetFrom(pairs, k)]]
  <2>1. SavedOf(LinesOf(t)) = [k \in KeysOf(t) |-> ReadBack[GetFrom(t, k)]]
    BY <1>1, WrittenOnce
  <2> QED
    BY <1>1, <2>1
<1>6. SavedOf(file)' = [k \in DOMAIN MapOf(pairs) |-> ReadBack[MapOf(pairs)[k]]]
  BY <1>2, <1>5 DEF MapOf
<1>7. ConfigMap!Save
  BY <1>2, <1>6 DEF ConfigMap!Save, MapOf, SavedOf, ParsedOf, Parsed
<1> QED
  BY <1>4, <1>7

\* What any reader of a file of pairs finds.
LEMMA SavedType ==
  ASSUME NEW f \in Seq(Pairs \cup {Skipped})
  PROVE  SavedOf(f) \in [KeysOf(f) -> ConfValues] /\ KeysOf(f) \subseteq ConfKeys
<1>1. ParsedOf(f) \in Seq(Pairs) /\ KeysOf(ParsedOf(f)) = KeysOf(f)
  BY ParsedFacts
<1> QED
  BY <1>1, MapType DEF SavedOf

LEMMA SaveTrustStep ==
  ASSUME ConfigTypeOK, TrustdbWrite
  PROVE  ConfigTypeOK' /\ ConfigMap!SaveTrust
<1>1. file' = LinesOf(pairs) /\ UNCHANGED <<pairs, verify, confRet>>
  BY DEF TrustdbWrite, LinesOf
<1>2. LinesOf(pairs) \in Seq(Pairs \cup {Skipped}) /\ KeysOf(LinesOf(pairs)) = KeysOf(pairs)
  BY LinesMap DEF ConfigTypeOK
<1>3. ConfigTypeOK'
  BY <1>1, <1>2 DEF ConfigTypeOK
<1>4. SavedOf(file)' \in [DOMAIN MapOf(pairs) -> ConfValues]
  <2>1. SavedOf(LinesOf(pairs)) \in [KeysOf(pairs) -> ConfValues]
    BY <1>2, SavedType
  <2> QED
    BY <1>1, <2>1 DEF MapOf
<1>5. Twice(pairs) \/ SavedOf(file)' = [k \in DOMAIN MapOf(pairs) |-> ReadBack[MapOf(pairs)[k]]]
  <2>1. Twice(pairs) \/ SavedOf(LinesOf(pairs)) = [k \in KeysOf(pairs) |-> ReadBack[GetFrom(pairs, k)]]
    BY WrittenOnce DEF ConfigTypeOK
  <2> QED
    BY <1>1, <2>1 DEF MapOf
<1>6. ConfigMap!SaveTrust
  BY <1>1, <1>4, <1>5 DEF ConfigMap!SaveTrust, MapOf, SavedOf, ParsedOf, Parsed
<1> QED
  BY <1>3, <1>6

LEMMA EditStep ==
  ASSUME ConfigTypeOK, WriteFile
  PROVE  ConfigTypeOK' /\ ConfigMap!Edit
<1>1. UNCHANGED <<pairs, verify, confRet>> /\ file' \in Seq(Pairs \cup {Skipped})
  <2>1. PICK n \in 0..MaxLines : file' \in [1..n -> {Line(p) : p \in Pairs} \cup {Skipped}]
    BY DEF WriteFile
  <2>2. {Line(p) : p \in Pairs} \subseteq Pairs
    BY LineFacts
  <2>3. n \in Nat
    BY ConfigAssumption
  <2>4. file' \in [1..n -> Pairs \cup {Skipped}]
    BY <2>1, <2>2
  <2>5. file' \in Seq(Pairs \cup {Skipped})
    BY <2>3, <2>4
  <2> QED
    BY <2>5 DEF WriteFile
<1>2. ConfigTypeOK'
  BY <1>1 DEF ConfigTypeOK
<1>3. SavedOf(file)' \in ConfigMap!Maps
  <2>1. SavedOf(file') \in [KeysOf(file') -> ConfValues] /\ KeysOf(file') \subseteq ConfKeys
    BY <1>1, SavedType
  <2> QED
    BY <2>1 DEF ConfigMap!Maps
<1>4. ConfigMap!Edit
  BY <1>1, <1>3 DEF ConfigMap!Edit, SavedOf, ParsedOf, Parsed
<1> QED
  BY <1>2, <1>4

LEMMA ConfigStart == ConfigInit => ConfigTypeOK /\ ConfigMap!SettingsInit
<1> SUFFICES ASSUME ConfigInit PROVE ConfigTypeOK /\ ConfigMap!SettingsInit
  OBVIOUS
<1>1. ConfigTypeOK
  BY DEF ConfigInit, ConfigTypeOK
<1>2. KeysOf(<<>>) = {} /\ Twice(<<>>) = FALSE
  BY DEF KeysOf, Twice
<1>3. ConfigMap!SettingsInit
  BY <1>2 DEF ConfigInit, ConfigMap!SettingsInit
<1> QED
  BY <1>1, <1>3

\* The variables of the map.
abstractVars == <<[k \in KeysOf(pairs) |-> GetFrom(pairs, k)],
                  [k \in KeysOf(file) |-> GetFrom(Parsed, k)], Twice(pairs), verify, confRet>>

LEMMA ConfigStep ==
  ASSUME ConfigTypeOK, [ConfigNext]_configVars
  PROVE  /\ ConfigTypeOK'
         /\ [ConfigMap!SettingsNext]_abstractVars
         /\ ConfigWrite => ConfigMap!Save
<1>1. ConfigWrite => ConfigMap!Save
  BY SaveStep
<1>2. ASSUME NEW k \in ConfKeys, NEW v \in ConfValues, ConfigSet(k, v)
      PROVE  ConfigTypeOK' /\ ConfigMap!SettingsNext
  BY <1>2, ConfigSetStep DEF ConfigMap!SettingsNext
<1>3. ASSUME NEW k \in ConfKeys, NEW ident \in ConfValues \cup {NULL}, TrustdbTrust(k, ident)
      PROVE  ConfigTypeOK' /\ ConfigMap!SettingsNext
  <2>1. (IF ident = NULL THEN NoIdent ELSE ident) \in ConfValues
    BY ConfigAssumption
  <2> QED
    BY <1>2, <1>3, <2>1 DEF TrustdbTrust
<1>4. ASSUME NEW k \in ConfKeys, ConfigUnset(k) PROVE ConfigTypeOK' /\ ConfigMap!SettingsNext
  BY <1>4, ConfigUnsetStep DEF ConfigMap!SettingsNext
<1>5. ASSUME NEW k \in ConfKeys, ConfigGet(k) \/ ConfigIsset(k)
      PROVE  ConfigTypeOK' /\ ConfigMap!SettingsNext
  BY <1>5, AskStep DEF ConfigMap!SettingsNext
<1>6. ASSUME NEW k \in ConfKeys, NEW ident \in ConfValues \cup {NULL}, TrustdbVerify(k, ident)
      PROVE  ConfigTypeOK' /\ ConfigMap!SettingsNext
  BY <1>6, AskStep DEF ConfigMap!SettingsNext
<1>7. ASSUME NEW b \in BOOLEAN, SetVerify(b) PROVE ConfigTypeOK' /\ ConfigMap!SettingsNext
  BY <1>7, ClearStep DEF ConfigMap!SettingsNext
<1>8. ASSUME NEW v \in {verify, TRUE}, ConfigDone(v) PROVE ConfigTypeOK' /\ ConfigMap!SettingsNext
  BY <1>8, ClearStep DEF ConfigMap!SettingsNext
<1>9. ASSUME ConfigRead \/ TrustdbRead \/ ConfigWrite \/ TrustdbWrite \/ WriteFile
      PROVE  ConfigTypeOK' /\ ConfigMap!SettingsNext
  BY <1>9, ReadSteps, SaveStep, SaveTrustStep, EditStep DEF ConfigMap!SettingsNext
<1>10. ASSUME UNCHANGED configVars PROVE ConfigTypeOK' /\ UNCHANGED abstractVars
  <2>1. ConfigTypeOK'
    BY <1>10 DEF configVars, ConfigTypeOK
  <2>2. UNCHANGED abstractVars
    BY <1>10 DEF configVars, abstractVars, Parsed
  <2> QED
    BY <2>1, <2>2
<1> QED
  BY <1>1, <1>2, <1>3, <1>4, <1>5, <1>6, <1>7, <1>8, <1>9, <1>10, Zenon DEF ConfigNext

\* The configuration and the trust database implement a map: what was set or
\* read last wins, what was unset is gone with every older value, a file
\* brings back what was written to it.
THEOREM SettingsImplemented == ConfigSpec => ImplementsSettings
<1>1. ConfigInit => ConfigTypeOK /\ ConfigMap!SettingsInit
  BY ConfigStart
<1>2. ConfigTypeOK /\ [ConfigNext]_configVars => ConfigTypeOK'
  BY ConfigStep
<1>3. ConfigTypeOK /\ [ConfigNext]_configVars => [ConfigMap!SettingsNext]_abstractVars
  BY ConfigStep
<1>4. ConfigTypeOK /\ [ConfigNext]_configVars => [ConfigWrite => ConfigMap!Save]_configVars
  BY ConfigStep
<1>5. [ConfigMap!SettingsNext]_abstractVars
       <=> [ConfigMap!SettingsNext]_<<[k \in KeysOf(pairs) |-> GetFrom(pairs, k)],
             [k \in KeysOf(file) |-> GetFrom(Parsed, k)], Twice(pairs), verify, confRet>>
  BY DEF abstractVars
<1> QED
  BY <1>1, <1>2, <1>3, <1>4, <1>5, PTL DEF ConfigSpec, ImplementsSettings, ConfigMap!SettingsSpec

\* What is in the list and in the file are pairs and, in the file, lines that
\* are skipped (src/config.c, src/trustdb.c).
THEOREM ConfigTypeCorrect == ConfigSpec => []ConfigTypeOK
BY ConfigStart, ConfigStep, PTL DEF ConfigSpec

(***************************************************************************)
(*                                   Pdu                                   *)
(***************************************************************************)
-----------------------------------------------------------------------------
(* Frames                                                                  *)

\* All frames of a PDU but the last say that more follow.
WellFramed(frames) ==
  /\ frames \in Seq(Frames)
  /\ \A i \in 1..Len(frames) : frames[i].final <=> i = Len(frames)

\* The frames behind n more pieces of s.
Grown(frames, s, n) ==
  IF n = 0 THEN frames
  ELSE [i \in 1..Len(frames) + n |->
          [data |-> IF i <= Len(frames) THEN frames[i].data ELSE s[i - Len(frames)],
           final |-> i = Len(frames) + n]]

\* A frame with one of its two fields changed.
LEMMA OtherFields ==
  ASSUME NEW e \in Frames, NEW f \in BOOLEAN, NEW d
  PROVE  /\ [e EXCEPT !.final = f] = [data |-> e.data, final |-> f]
         /\ [e EXCEPT !.data = d] = [data |-> d, final |-> e.final]
BY DEF Frames

\* s_pdu_extend() adds a piece (src/mq.c:393-407).
LEMMA ExtendedGrows ==
  ASSUME NEW frames, WellFramed(frames), NEW s \in Seq(Wire), NEW n \in 1..Len(s)
  PROVE  Extended(Grown(frames, s, n - 1), s[n]) = Grown(frames, s, n)
<1> DEFINE l == Len(frames)
           g == Grown(frames, s, n - 1)
           k == l + (n - 1)
           e == [data |-> s[n], final |-> TRUE]
           x == [i \in DOMAIN g |-> IF i = Len(g) THEN [g[i] EXCEPT !.final = FALSE] ELSE g[i]]
           h == Grown(frames, s, n)
<1>1. l \in Nat /\ Len(s) \in Nat /\ k \in Nat /\ n \in Nat /\ n # 0 /\ l + n = k + 1
  BY LenProperties DEF WellFramed
<1>2. s[n] \in Wire
  BY ElementOfSeq
<1>3. \A i \in 1..l : frames[i] \in Frames /\ frames[i] = [data |-> frames[i].data, final |-> i = l]
  <2> SUFFICES ASSUME NEW i \in 1..l
               PROVE  frames[i] \in Frames /\ frames[i] = [data |-> frames[i].data, final |-> i = l]
    OBVIOUS
  <2>1. frames[i] \in Frames
    BY ElementOfSeq DEF WellFramed
  <2>2. frames[i].final <=> i = l
    BY DEF WellFramed
  <2>3. frames[i].final \in BOOLEAN
    BY <2>1 DEF Frames
  <2>4. frames[i].final = (i = l)
    BY <2>2, <2>3
  <2> QED
    BY <2>1, <2>4 DEF Frames
<1>4. /\ g \in Seq(Frames) /\ Len(g) = k
      /\ \A i \in 1..k : g[i] = [data |-> IF i <= l THEN frames[i].data ELSE s[i - l], final |-> i = k]
  <2>1. CASE n = 1
    <3>1. g = frames /\ k = l
      BY <1>1, <2>1 DEF Grown
    <3>2. \A i \in 1..k : i <= l
      BY <1>1, <3>1
    <3>3. g \in Seq(Frames) /\ Len(g) = k
      BY <3>1 DEF WellFramed
    <3> HIDE DEF g, k, l
    <3>4. \A i \in 1..l : g[i] = [data |-> frames[i].data, final |-> i = l]
      BY <1>3, <3>1
    <3> QED
      BY <3>1, <3>2, <3>3, <3>4
  <2>2. CASE n # 1
    <3> DEFINE G(i) == [data |-> IF i <= l THEN frames[i].data ELSE s[i - l], final |-> i = k]
    <3>1. n - 1 # 0
      BY <2>2
    <3>2. g = [i \in 1..k |-> G(i)]
      BY <3>1 DEF Grown
    <3>3. \A i \in 1..k : G(i) \in Frames
      <4> SUFFICES ASSUME NEW i \in 1..k PROVE G(i) \in Frames
        OBVIOUS
      <4>1. i <= l => frames[i].data \in Wire
        <5> SUFFICES ASSUME i <= l PROVE frames[i].data \in Wire
          OBVIOUS
        <5>1. i \in 1..l
          BY <1>1
        <5>2. frames[i] \in Frames
          BY <1>3, <5>1
        <5> QED
          BY <5>2 DEF Frames
      <4>2. ~(i <= l) => i - l \in 1..Len(s)
        BY <1>1
      <4>3. ~(i <= l) => s[i - l] \in Wire
        BY <4>2, ElementOfSeq
      <4> QED
        BY <4>1, <4>3 DEF Frames
    <3> HIDE DEF G, g, k
    <3>4. g \in Seq(Frames) /\ Len(g) = k /\ \A i \in 1..k : g[i] = G(i)
      BY <1>1, <3>2, <3>3
    <3> QED
      BY <3>4 DEF G
  <2> QED
    BY <2>1, <2>2
<1>5. h = [i \in 1..k + 1 |-> [data |-> IF i <= l THEN frames[i].data ELSE s[i - l], final |-> i = k + 1]]
  BY <1>1 DEF Grown
<1> HIDE DEF g, h
<1>6. x = [i \in 1..k |-> [data |-> IF i <= l THEN frames[i].data ELSE s[i - l], final |-> FALSE]]
  <2>1. DOMAIN g = 1..k
    BY <1>4
  <2>2. \A i \in 1..k :
          (IF i = Len(g) THEN [g[i] EXCEPT !.final = FALSE] ELSE g[i])
            = [data |-> IF i <= l THEN frames[i].data ELSE s[i - l], final |-> FALSE]
    <3> SUFFICES ASSUME NEW i \in 1..k
                 PROVE  (IF i = Len(g) THEN [g[i] EXCEPT !.final = FALSE] ELSE g[i])
                          = [data |-> IF i <= l THEN frames[i].data ELSE s[i - l], final |-> FALSE]
      OBVIOUS
    <3>1. g[i] = [data |-> IF i <= l THEN frames[i].data ELSE s[i - l], final |-> i = k]
      BY <1>4
    <3>2. CASE i = k
      <4>1. g[i] = [data |-> IF i <= l THEN frames[i].data ELSE s[i - l], final |-> TRUE]
        BY <3>1, <3>2
      <4>2. i = Len(g)
        BY <1>4, <3>2
      <4> DEFINE f == FALSE
      <4>3. g[i] \in Frames /\ f \in BOOLEAN
        BY <1>4, ElementOfSeq
      <4> HIDE DEF f
      <4>4. [g[i] EXCEPT !.final = f] = [data |-> g[i].data, final |-> f]
        BY <4>3, OtherFields
      <4>5. g[i].data = IF i <= l THEN frames[i].data ELSE s[i - l]
        BY <4>1
      <4> QED
        BY <4>2, <4>4, <4>5 DEF f
    <3>3. CASE i # k
      <4>1. g[i] = [data |-> IF i <= l THEN frames[i].data ELSE s[i - l], final |-> FALSE]
        BY <3>1, <3>3
      <4>2. i # Len(g)
        BY <1>4, <3>3
      <4> QED
        BY <4>1, <4>2
    <3> QED
      BY <3>2, <3>3
  <2> QED
    BY <2>1, <2>2
<1> HIDE DEF x
<1>7. Append(x, e) = h
  <2> DEFINE X(i) == [data |-> IF i <= l THEN frames[i].data ELSE s[i - l], final |-> FALSE]
             T == {X(i) : i \in 1..k} \cup {e}
  <2>1. x \in Seq(T) /\ Len(x) = k /\ e \in T
    <3>1. x = [i \in 1..k |-> X(i)] /\ \A i \in 1..k : X(i) \in T
      BY <1>6
    <3>2. e \in T
      OBVIOUS
    <3> HIDE DEF X, T, k
    <3> QED
      BY <1>1, <3>1, <3>2
  <2> HIDE DEF T
  <2>2. /\ Append(x, e) \in Seq(T) /\ Len(Append(x, e)) = k + 1
        /\ \A i \in 1..k : Append(x, e)[i] = x[i]
        /\ Append(x, e)[k + 1] = e
    BY <2>1, AppendProperties
  <2>3. e = [data |-> IF k + 1 <= l THEN frames[k + 1].data ELSE s[k + 1 - l], final |-> k + 1 = k + 1]
    <3>1. ~(k + 1 <= l) /\ k + 1 - l = n /\ (k + 1 = k + 1) = TRUE
      BY <1>1
    <3> QED
      BY <3>1
  <2>4. \A i \in 1..k + 1 : Append(x, e)[i]
          = [data |-> IF i <= l THEN frames[i].data ELSE s[i - l], final |-> i = k + 1]
    <3> SUFFICES ASSUME NEW i \in 1..k + 1
                 PROVE  Append(x, e)[i]
                          = [data |-> IF i <= l THEN frames[i].data ELSE s[i - l], final |-> i = k + 1]
      OBVIOUS
    <3>1. CASE i = k + 1
      BY <2>2, <2>3, <3>1
    <3>2. CASE i # k + 1
      <4>1. i \in 1..k /\ (i = k + 1) = FALSE
        BY <1>1, <3>2
      <4> QED
        BY <1>6, <2>2, <4>1
    <3> QED
      BY <3>1, <3>2
  <2>5. h \in Seq(T) /\ Len(h) = k + 1
    <3> DEFINE H(i) == [data |-> IF i <= l THEN frames[i].data ELSE s[i - l], final |-> i = k + 1]
               y == Append(x, e)
    <3>1. \A i \in 1..k + 1 : H(i) \in T
      <4>1. \A i \in 1..k + 1 : y[i] = H(i)
        BY <2>4
      <4>2. \A i \in 1..k + 1 : y[i] \in T
        BY <2>2, ElementOfSeq
      <4> HIDE DEF H, y
      <4> QED
        BY <4>1, <4>2
    <3>2. h = [i \in 1..k + 1 |-> H(i)]
      BY <1>5
    <3> HIDE DEF H
    <3> QED
      BY <1>1, <3>1, <3>2
  <2>6. \A i \in 1..k + 1 : Append(x, e)[i] = h[i]
    BY <1>5, <2>4
  <2> QED
    BY <2>2, <2>5, <2>6, SeqEqual
<1> QED
  BY <1>7 DEF Extended, g, h, x, e

\* The loop of pdu_copy() leaves the frames, and the pieces behind them.
LEMMA ExtendedByIs ==
  ASSUME NEW frames, WellFramed(frames), NEW s \in Seq(Wire)
  PROVE  ExtendedBy(frames, s) = Grown(frames, s, Len(s))
<1> DEFINE N == Len(s)
           Step(p, n) == IF n = 0 THEN frames ELSE Extended(p[n - 1], s[n])
           g == [n \in 0..N |-> Grown(frames, s, n)]
           p == CHOOSE p : p = [n \in 0..N |-> Step(p, n)]
<1>1. N \in Nat
  BY LenProperties
<1>2. \A n \in 0..N : g[n] = Grown(frames, s, n)
  OBVIOUS
<1>3. \A n \in 0..N : Grown(frames, s, n) = Step(g, n)
  <2> SUFFICES ASSUME NEW n \in 0..N PROVE Grown(frames, s, n) = Step(g, n)
    OBVIOUS
  <2>1. CASE n = 0
    BY <2>1 DEF Grown
  <2>2. CASE n # 0
    <3>1. n \in 1..Len(s) /\ n - 1 \in 0..N
      BY <1>1, <2>2
    <3>2. g[n - 1] = Grown(frames, s, n - 1)
      BY <1>2, <3>1
    <3> HIDE DEF g
    <3>3. Extended(Grown(frames, s, n - 1), s[n]) = Grown(frames, s, n)
      BY <3>1, ExtendedGrows
    <3> QED
      BY <2>2, <3>2, <3>3
  <2> QED
    BY <2>1, <2>2
<1>4. p = [n \in 0..N |-> Step(p, n)]
  <2>1. g = [n \in 0..N |-> Step(g, n)]
    <3> HIDE DEF Step
    <3> QED
      BY <1>3
  <2> HIDE DEF g
  <2> QED
    BY <2>1
<1>5. ExtendedBy(frames, s) = p[N]
  BY DEF ExtendedBy
<1> HIDE DEF p, g
<1>6. \A n \in 0..N : p[n] = Step(p, n)
  <2> DEFINE G(x) == [n \in 0..N |-> Step(x, n)]
  <2>1. p = G(p) /\ \A n \in 0..N : G(p)[n] = Step(p, n)
    BY <1>4
  <2> HIDE DEF G, Step
  <2> QED
    BY <2>1
<1> DEFINE Bad == {n \in 0..N : p[n] # Grown(frames, s, n)}
<1>7. Bad = {}
  <2> SUFFICES ASSUME Bad # {} PROVE FALSE
    OBVIOUS
  <2>1. PICK n \in Bad : \A l \in Bad : ~(<<l, n>> \in OpToRel(<, Nat))
    <3>1. Bad \subseteq Nat
      BY <1>1
    <3> HIDE DEF Bad
    <3> QED
      BY <3>1, NatLessThanWellFounded, WFMin
  <2>2. n \in 0..N /\ n \in Nat /\ p[n] # Grown(frames, s, n)
    BY <1>1
  <2>3. CASE n = 0
    BY <1>6, <2>2, <2>3 DEF Grown
  <2>4. CASE n # 0
    <3>1. n - 1 \in 0..N /\ n - 1 \in Nat /\ n - 1 < n /\ n \in 1..Len(s)
      BY <1>1, <2>2, <2>4
    <3>2. <<n - 1, n>> \in OpToRel(<, Nat)
      BY <2>2, <3>1 DEF OpToRel
    <3>3. p[n - 1] = Grown(frames, s, n - 1)
      BY <2>1, <3>1, <3>2
    <3>4. Extended(Grown(frames, s, n - 1), s[n]) = Grown(frames, s, n)
      BY <3>1, ExtendedGrows
    <3> QED
      BY <1>6, <2>2, <2>4, <3>3, <3>4
  <2> QED
    BY <2>3, <2>4
<1> QED
  <2>1. N \in 0..N
    BY <1>1
  <2> QED
    BY <1>5, <1>7, <2>1

\* It keeps them sound; of a PDU that was empty it makes one of these pieces.
LEMMA ExtendedBySound ==
  ASSUME NEW frames, WellFramed(frames), NEW s \in Seq(Wire)
  PROVE  WellFramed(ExtendedBy(frames, s))
<1> DEFINE N == Len(s)
           l == Len(frames)
           k == l + N
           G(i) == [data |-> IF i <= l THEN frames[i].data ELSE s[i - l], final |-> i = k]
           g == Grown(frames, s, N)
<1>1. N \in Nat /\ l \in Nat /\ k \in Nat
  BY LenProperties DEF WellFramed
<1>2. CASE N = 0
  BY <1>2, ExtendedByIs DEF Grown
<1>3. CASE N # 0
  <2>1. g = [i \in 1..k |-> G(i)]
    BY <1>3 DEF Grown
  <2>2. \A i \in 1..k : G(i) \in Frames
    <3> SUFFICES ASSUME NEW i \in 1..k PROVE G(i) \in Frames
      OBVIOUS
    <3>1. ASSUME i <= l PROVE frames[i].data \in Wire
      <4>1. i \in 1..l
        BY <1>1, <3>1
      <4>2. frames[i] \in Frames
        BY <4>1, ElementOfSeq DEF WellFramed
      <4> QED
        BY <4>2 DEF Frames
    <3>2. ~(i <= l) => i - l \in 1..N
      BY <1>1
    <3>3. ~(i <= l) => s[i - l] \in Wire
      BY <3>2, ElementOfSeq
    <3> QED
      BY <3>1, <3>3 DEF Frames
  <2>3. \A i \in 1..k : G(i).final <=> i = k
    OBVIOUS
  <2> HIDE DEF G, g, k
  <2>4. g \in Seq(Frames) /\ Len(g) = k /\ \A i \in 1..k : g[i] = G(i)
    BY <1>1, <2>1, <2>2
  <2>5. WellFramed(g)
    BY <2>3, <2>4 DEF WellFramed
  <2> QED
    BY <2>5, ExtendedByIs DEF g
<1> QED
  BY <1>2, <1>3

\* A PDU made of the frames of a message has their data (src/mq.c:477-550).
LEMMA ReceivedData ==
  ASSUME NEW s \in Seq(Wire)
  PROVE  DataOf(ExtendedBy(<<>>, s)) = s
<1> DEFINE N == Len(s)
           g == Grown(<<>>, s, N)
           G(i) == [data |-> IF i <= 0 THEN <<>>[i].data ELSE s[i - 0], final |-> i = 0 + N]
<1>1. N \in Nat /\ s = [i \in 1..N |-> s[i]]
  BY LenProperties
<1>2. WellFramed(<<>>)
  BY DEF WellFramed
<1>3. DOMAIN g = 1..N /\ \A i \in 1..N : g[i].data = s[i]
  <2>1. CASE N = 0
    BY <2>1 DEF Grown
  <2>2. CASE N # 0
    <3>1. g = [i \in 1..Len(<<>>) + N |-> [data |-> IF i <= Len(<<>>) THEN <<>>[i].data ELSE s[i - Len(<<>>)],
                                           final |-> i = Len(<<>>) + N]]
      BY <2>2 DEF Grown
    <3>2. Len(<<>>) = 0 /\ Len(<<>>) + N = N
      BY <1>1
    <3> QED
      BY <1>1, <3>1, <3>2
  <2> QED
    BY <2>1, <2>2
<1> HIDE DEF g
<1>4. DataOf(g) = s
  BY <1>1, <1>3 DEF DataOf
<1> QED
  BY <1>2, <1>4, ExtendedByIs DEF g

-----------------------------------------------------------------------------
(* Frames on a socket                                                      *)

\* The data of the first n frames.
DataUpTo(frames, n) == [i \in 1..n |-> frames[i].data]

\* What ZeroMQ has made of the first n frames, if only the last can be final.
FlushedAt(a, rest, frames, n) ==
  IF n = Len(frames) /\ n # 0 /\ frames[n].final
    THEN [routed |-> Routed(a, rest \o DataUpTo(frames, n)), rest |-> <<>>]
    ELSE [routed |-> <<>>, rest |-> rest \o DataUpTo(frames, n)]

\* A message goes where it can be read.
LEMMA RoutedType ==
  ASSUME NEW a, NEW m \in Seq(Wire), m # <<>>
  PROVE  Routed(a, m) \in Seq(Seq(Wire))
<1>1. ClientId \in Wire
  BY DEF Wire, Addresses
<1>2. Tail(m) \in Seq(Wire)
  BY HeadTailProperties
<1>3. <<ClientId>> \o m \in Seq(Wire)
  BY <1>1, ConcatProperties
<1> QED
  BY <1>2, <1>3 DEF Routed

\* The data of frames, one by one.
LEMMA DataUpToGrows ==
  ASSUME NEW frames \in Seq(Frames), NEW rest \in Seq(Wire), NEW n \in 1..Len(frames)
  PROVE  /\ rest \o DataUpTo(frames, n) \in Seq(Wire)
         /\ rest \o DataUpTo(frames, n) # <<>>
         /\ Append(rest \o DataUpTo(frames, n - 1), frames[n].data) = rest \o DataUpTo(frames, n)
<1> DEFINE k == n - 1
           x == DataUpTo(frames, k)
           y == DataUpTo(frames, n)
           d == frames[n].data
           r == Len(rest)
<1>1. n \in Nat /\ k \in Nat /\ n = k + 1 /\ Len(frames) \in Nat /\ r \in Nat
  BY LenProperties
<1>2. \A i \in 1..n : frames[i].data \in Wire
  <2> SUFFICES ASSUME NEW i \in 1..n PROVE frames[i].data \in Wire
    OBVIOUS
  <2>1. frames[i] \in Frames
    BY <1>1, ElementOfSeq
  <2> QED
    BY <2>1 DEF Frames
<1>3. y \in Seq(Wire) /\ Len(y) = n /\ \A i \in 1..n : y[i] = frames[i].data
  <2> HIDE DEF k
  <2> QED
    BY <1>1, <1>2 DEF DataUpTo
<1>4. x \in Seq(Wire) /\ Len(x) = k /\ \A i \in 1..k : x[i] = frames[i].data
  <2>1. \A i \in 1..k : i \in 1..n
    BY <1>1
  <2> HIDE DEF k
  <2> QED
    BY <1>1, <1>2, <2>1 DEF DataUpTo
<1>5. d \in Wire
  BY <1>1, <1>2
<1> HIDE DEF x, y, d, k, r
<1>6. /\ rest \o y \in Seq(Wire) /\ Len(rest \o y) = r + n
      /\ \A i \in 1..r + n : (rest \o y)[i] = IF i <= r THEN rest[i] ELSE y[i - r]
  BY <1>3, ConcatProperties DEF r
<1>7. /\ rest \o x \in Seq(Wire) /\ Len(rest \o x) = r + k
      /\ \A i \in 1..r + k : (rest \o x)[i] = IF i <= r THEN rest[i] ELSE x[i - r]
  BY <1>4, ConcatProperties DEF r
<1> DEFINE ry == rest \o y
           rx == rest \o x
           t == Append(rx, d)
<1> HIDE DEF rx, ry
<1>8. /\ t \in Seq(Wire) /\ Len(t) = r + k + 1 /\ t[r + k + 1] = d
      /\ \A i \in 1..r + k : t[i] = rx[i]
  BY <1>5, <1>7, AppendProperties DEF rx
<1> HIDE DEF t
<1>9. \A i \in 1..r + n : t[i] = ry[i]
  <2> SUFFICES ASSUME NEW i \in 1..r + n PROVE t[i] = ry[i]
    OBVIOUS
  <2>1. CASE i <= r
    <3>1. i \in 1..r + k
      BY <1>1, <2>1
    <3> QED
      BY <1>6, <1>7, <1>8, <2>1, <3>1 DEF rx, ry
  <2>2. CASE ~(i <= r) /\ i # r + n
    <3>1. i \in 1..r + k /\ i - r \in 1..k /\ i - r \in 1..n
      BY <1>1, <2>2
    <3>2. x[i - r] = y[i - r]
      BY <1>3, <1>4, <3>1
    <3> QED
      BY <1>6, <1>7, <1>8, <2>2, <3>1, <3>2 DEF rx, ry
  <2>3. CASE ~(i <= r) /\ i = r + n
    <3>1. i = r + k + 1 /\ i - r = n /\ n \in 1..n
      BY <1>1, <2>3
    <3>2. t[i] = d /\ ry[i] = y[n]
      BY <1>6, <1>8, <2>3, <3>1 DEF ry
    <3> QED
      BY <1>3, <3>1, <3>2 DEF d
  <2> QED
    BY <2>1, <2>2, <2>3
<1>10. t = ry
  <2>1. Len(t) = Len(ry)
    BY <1>1, <1>6, <1>8 DEF ry
  <2>2. ry \in Seq(Wire) /\ Len(ry) = r + n
    BY <1>6 DEF ry
  <2> QED
    BY <1>8, <1>9, <2>1, <2>2, SeqEqual
<1>11. rest \o y # <<>>
  <2>1. Len(rest \o y) # 0
    BY <1>1, <1>6
  <2> QED
    BY <2>1
<1> QED
  BY <1>6, <1>10, <1>11 DEF t, rx, ry, x, y, d, k

\* ZeroMQ makes a message of frames of which only the last can be final, or
\* keeps them behind what was there.
LEMMA FlushedIs ==
  ASSUME NEW a, NEW rest \in Seq(Wire), NEW frames \in Seq(Frames),
         \A i \in 1..Len(frames) : frames[i].final => i = Len(frames)
  PROVE  Flushed(a, rest, frames) = FlushedAt(a, rest, frames, Len(frames))
<1> DEFINE N == Len(frames)
           At(n) == FlushedAt(a, rest, frames, n)
           Next2(was, n) ==
             IF frames[n].final
               THEN [routed |-> was.routed \o Routed(a, Append(was.rest, frames[n].data)), rest |-> <<>>]
               ELSE [routed |-> was.routed, rest |-> Append(was.rest, frames[n].data)]
           Step(p, n) == IF n = 0 THEN [routed |-> <<>>, rest |-> rest] ELSE Next2(p[n - 1], n)
           g == [n \in 0..N |-> At(n)]
           p == CHOOSE p : p = [n \in 0..N |-> Step(p, n)]
<1>1. N \in Nat
  BY LenProperties
<1>2. \A n \in 0..N : g[n] = At(n)
  OBVIOUS
<1>3. \A n \in 1..N : Next2(At(n - 1), n) = At(n)
  <2> SUFFICES ASSUME NEW n \in 1..N PROVE Next2(At(n - 1), n) = At(n)
    OBVIOUS
  <2> DEFINE x == rest \o DataUpTo(frames, n - 1)
             y == rest \o DataUpTo(frames, n)
  <2>1. y \in Seq(Wire) /\ y # <<>> /\ Append(x, frames[n].data) = y
    BY DataUpToGrows
  <2>2. At(n - 1).routed = <<>> /\ At(n - 1).rest = x
    BY <1>1 DEF FlushedAt
  <2> HIDE DEF x, y
  <2>3. CASE frames[n].final
    <3>1. n = N /\ n # 0
      BY <1>1, <2>3
    <3>2. At(n) = [routed |-> Routed(a, y), rest |-> <<>>]
      BY <2>3, <3>1 DEF FlushedAt, y
    <3>3. Routed(a, y) \in Seq(Seq(Wire))
      BY <2>1, RoutedType
    <3>4. <<>> \o Routed(a, y) = Routed(a, y)
      BY <3>3, ConcatEmptySeq
    <3>5. Next2(At(n - 1), n) = [routed |-> <<>> \o Routed(a, Append(x, frames[n].data)), rest |-> <<>>]
      <4> HIDE DEF At
      <4> QED
        BY <2>2, <2>3
    <3> HIDE DEF At, Next2
    <3> QED
      BY <2>1, <3>2, <3>4, <3>5
  <2>4. CASE ~frames[n].final
    <3>1. At(n) = [routed |-> <<>>, rest |-> y]
      BY <2>4 DEF FlushedAt, y
    <3>2. Next2(At(n - 1), n) = [routed |-> <<>>, rest |-> Append(x, frames[n].data)]
      <4> HIDE DEF At
      <4> QED
        BY <2>2, <2>4
    <3> HIDE DEF At, Next2
    <3> QED
      BY <2>1, <3>1, <3>2
  <2> QED
    BY <2>3, <2>4
<1>4. At(0) = [routed |-> <<>>, rest |-> rest]
  <2>1. DataUpTo(frames, 0) = <<>>
    BY DEF DataUpTo
  <2>2. rest \o <<>> = rest
    BY ConcatEmptySeq
  <2> QED
    BY <2>1, <2>2 DEF FlushedAt
<1>5. Flushed(a, rest, frames) = p[N]
  BY DEF Flushed
<1> HIDE DEF At, Next2, p
<1>6. p = [n \in 0..N |-> Step(p, n)]
  <2>1. \A n \in 0..N : At(n) = Step(g, n)
    <3> SUFFICES ASSUME NEW n \in 0..N PROVE At(n) = Step(g, n)
      OBVIOUS
    <3>1. CASE n = 0
      BY <1>4, <3>1
    <3>2. CASE n # 0
      <4>1. n \in 1..N /\ n - 1 \in 0..N
        BY <1>1, <3>2
      <4>2. g[n - 1] = At(n - 1)
        BY <1>2, <4>1
      <4> HIDE DEF g
      <4> QED
        BY <1>3, <3>2, <4>1, <4>2
    <3> QED
      BY <3>1, <3>2
  <2>2. g = [n \in 0..N |-> Step(g, n)]
    <3> HIDE DEF Step
    <3> QED
      BY <2>1
  <2> HIDE DEF g
  <2> QED
    BY <2>2 DEF p
<1> HIDE DEF g
<1>7. \A n \in 0..N : p[n] = Step(p, n)
  <2> DEFINE G(x) == [n \in 0..N |-> Step(x, n)]
  <2>1. p = G(p) /\ \A n \in 0..N : G(p)[n] = Step(p, n)
    BY <1>6
  <2> HIDE DEF G, Step
  <2> QED
    BY <2>1
<1> DEFINE Bad == {n \in 0..N : p[n] # At(n)}
<1>8. Bad = {}
  <2> SUFFICES ASSUME Bad # {} PROVE FALSE
    OBVIOUS
  <2>1. PICK n \in Bad : \A l \in Bad : ~(<<l, n>> \in OpToRel(<, Nat))
    <3>1. Bad \subseteq Nat
      BY <1>1
    <3> HIDE DEF Bad
    <3> QED
      BY <3>1, NatLessThanWellFounded, WFMin
  <2>2. n \in 0..N /\ n \in Nat /\ p[n] # At(n)
    BY <1>1
  <2>3. CASE n = 0
    BY <1>4, <1>7, <2>2, <2>3
  <2>4. CASE n # 0
    <3>1. n - 1 \in 0..N /\ n - 1 \in Nat /\ n - 1 < n /\ n \in 1..N
      BY <1>1, <2>2, <2>4
    <3>2. <<n - 1, n>> \in OpToRel(<, Nat)
      BY <2>2, <3>1 DEF OpToRel
    <3>3. p[n - 1] = At(n - 1)
      BY <2>1, <3>1, <3>2
    <3> QED
      BY <1>3, <1>7, <2>2, <2>4, <3>1, <3>3
  <2> QED
    BY <2>3, <2>4
<1> QED
  <2>1. N \in 0..N
    BY <1>1
  <2> QED
    BY <1>5, <1>8, <2>1 DEF At

\* What is left of a sequence without its front.
LEMMA Behind ==
  ASSUME NEW S, NEW s \in Seq(S), NEW t \in Seq(S)
  PROVE  SubSeq(s \o t, Len(s) + 1, Len(s \o t)) = t
<1> DEFINE st == s \o t
           k == Len(s)
           n == Len(t)
           d == k + 1
           e == k + n
           u == SubSeq(st, d, e)
<1>1. k \in Nat /\ n \in Nat
  BY LenProperties
<1>2. st \in Seq(S) /\ Len(st) = e /\ \A i \in 1..e : st[i] = IF i <= k THEN s[i] ELSE t[i - k]
  BY ConcatProperties
<1>3. \A i \in d..e : st[i] \in S
  <2>1. \A i \in d..e : i \in 1..e
    BY <1>1
  <2> HIDE DEF st, d
  <2> QED
    BY <1>2, <2>1, ElementOfSeq
<1>4. d \in Int /\ e \in Int /\ e - d + 1 = n /\ (IF d <= e THEN e - d + 1 ELSE 0) = n
      /\ \A i \in 1..n : d + i - 1 = k + i
  BY <1>1
<1> HIDE DEF st, d, e
<1>5. /\ u \in Seq(S) /\ Len(u) = n
      /\ \A i \in 1..n : u[i] = st[d + i - 1]
  <2>1. /\ SubSeq(st, d, e) \in Seq(S)
        /\ Len(SubSeq(st, d, e)) = IF d <= e THEN e - d + 1 ELSE 0
        /\ \A i \in 1..e - d + 1 : SubSeq(st, d, e)[i] = st[d + i - 1]
    BY <1>3, <1>4, SubSeqProperties
  <2> QED
    BY <1>4, <2>1
<1> HIDE DEF u, k, n
<1>6. \A i \in 1..n : u[i] = t[i]
  <2> SUFFICES ASSUME NEW i \in 1..n PROVE u[i] = t[i]
    OBVIOUS
  <2>1. k + i \in 1..e /\ ~(k + i <= k) /\ k + i - k = i
    BY <1>1 DEF e
  <2>2. u[i] = st[k + i]
    BY <1>4, <1>5
  <2> DEFINE j == k + i
  <2>3. j \in 1..e /\ ~(j <= k) /\ j - k = i
    BY <1>1 DEF e
  <2> HIDE DEF j
  <2>4. st[j] = t[i]
    BY <1>2, <2>3
  <2> QED
    BY <2>2, <2>4 DEF j
<1>7. Len(t) = n
  BY DEF n
<1>8. u = t
  BY <1>5, <1>6, <1>7, SeqEqual
<1> QED
  BY <1>2, <1>8 DEF u, st, d, k

\* The first element, and what is behind it.
LEMMA FirstOff ==
  ASSUME NEW S, NEW x \in S, NEW t \in Seq(S)
  PROVE  /\ <<x>> \o t \in Seq(S) /\ <<x>> \o t # <<>> /\ Len(<<x>> \o t) = Len(t) + 1
         /\ (<<x>> \o t)[1] = x
         /\ \A i \in 1..Len(t) : (<<x>> \o t)[i + 1] = t[i]
         /\ Tail(<<x>> \o t) = t
<1> DEFINE o == <<x>>
           u == o \o t
           n == Len(t)
<1>1. o \in Seq(S) /\ Len(o) = 1 /\ o[1] = x /\ n \in Nat
  BY LenProperties
<1> HIDE DEF o
<1>2. u \in Seq(S) /\ Len(u) = 1 + n /\ \A i \in 1..1 + n : u[i] = IF i <= 1 THEN o[i] ELSE t[i - 1]
  <2>1. /\ o \o t \in Seq(S) /\ Len(o \o t) = Len(o) + Len(t)
        /\ \A i \in 1..Len(o) + Len(t) : (o \o t)[i] = IF i <= Len(o) THEN o[i] ELSE t[i - Len(o)]
    BY <1>1, ConcatProperties
  <2> HIDE DEF u
  <2> QED
    BY <1>1, <2>1 DEF u
<1> HIDE DEF u
<1>3. u[1] = x /\ u # <<>>
  BY <1>1, <1>2
<1>4. \A i \in 1..n : u[i + 1] = t[i]
  BY <1>1, <1>2
<1>5. /\ Tail(u) \in Seq(S) /\ Len(Tail(u)) = n
      /\ \A i \in 1..n : Tail(u)[i] = u[i + 1]
  BY <1>1, <1>2, <1>3, HeadTailProperties
<1>6. Tail(u) = t
  <2> DEFINE v == Tail(u)
  <2>1. v \in Seq(S) /\ Len(v) = Len(t) /\ \A i \in 1..Len(t) : v[i] = t[i]
    BY <1>4, <1>5
  <2> HIDE DEF v
  <2>2. v = t
    BY <2>1, SeqEqual
  <2> QED
    BY <2>2 DEF v
<1> QED
  BY <1>1, <1>2, <1>3, <1>4, <1>6 DEF u, o

\* The data of two rows of frames.
LEMMA DataJoined ==
  ASSUME NEW s \in Seq(Frames), NEW t \in Seq(Frames)
  PROVE  /\ DataUpTo(s \o t, Len(s \o t)) = DataUpTo(s, Len(s)) \o DataUpTo(t, Len(t))
         /\ DataUpTo(s, Len(s)) \in Seq(Wire) /\ DataUpTo(t, Len(t)) \in Seq(Wire)
         /\ Len(DataUpTo(s, Len(s))) = Len(s)
<1> DEFINE st == s \o t
           k == Len(s)
           n == Len(t)
           x == DataUpTo(s, k)
           y == DataUpTo(t, n)
           z == DataUpTo(st, k + n)
<1>1. k \in Nat /\ n \in Nat /\ k + n \in Nat
  BY LenProperties
<1>2. ASSUME NEW u \in Seq(Frames)
      PROVE  /\ DataUpTo(u, Len(u)) \in Seq(Wire) /\ Len(DataUpTo(u, Len(u))) = Len(u)
             /\ \A i \in 1..Len(u) : DataUpTo(u, Len(u))[i] = u[i].data
  <2>1. \A i \in 1..Len(u) : u[i].data \in Wire
    <3> SUFFICES ASSUME NEW i \in 1..Len(u) PROVE u[i].data \in Wire
      OBVIOUS
    <3>1. u[i] \in Frames
      BY ElementOfSeq
    <3> QED
      BY <3>1 DEF Frames
  <2>2. Len(u) \in Nat
    BY LenProperties
  <2> QED
    BY <2>1, <2>2 DEF DataUpTo
<1>3. st \in Seq(Frames) /\ Len(st) = k + n
      /\ \A i \in 1..k + n : st[i] = IF i <= k THEN s[i] ELSE t[i - k]
  BY ConcatProperties
<1>4. x \in Seq(Wire) /\ Len(x) = k /\ \A i \in 1..k : x[i] = s[i].data
  BY <1>2
<1>5. y \in Seq(Wire) /\ Len(y) = n /\ \A i \in 1..n : y[i] = t[i].data
  BY <1>2
<1>6. z \in Seq(Wire) /\ Len(z) = k + n /\ \A i \in 1..k + n : z[i] = st[i].data
  <2> HIDE DEF st
  <2>1. /\ DataUpTo(st, Len(st)) \in Seq(Wire) /\ Len(DataUpTo(st, Len(st))) = Len(st)
        /\ \A i \in 1..Len(st) : DataUpTo(st, Len(st))[i] = st[i].data
    BY <1>2, <1>3
  <2> QED
    BY <1>3, <2>1
<1> HIDE DEF st, k, n, x, y, z
<1>7. /\ x \o y \in Seq(Wire) /\ Len(x \o y) = k + n
      /\ \A i \in 1..k + n : (x \o y)[i] = IF i <= k THEN x[i] ELSE y[i - k]
  BY <1>4, <1>5, ConcatProperties
<1> DEFINE xy == x \o y
<1> HIDE DEF xy
<1>8. \A i \in 1..k + n : z[i] = xy[i]
  <2> SUFFICES ASSUME NEW i \in 1..k + n PROVE z[i] = xy[i]
    OBVIOUS
  <2>1. CASE i <= k
    <3>1. i \in 1..k
      BY <1>1, <2>1
    <3> QED
      BY <1>3, <1>4, <1>6, <1>7, <2>1, <3>1 DEF xy
  <2>2. CASE ~(i <= k)
    <3>1. i - k \in 1..n
      BY <1>1, <2>2
    <3> QED
      BY <1>3, <1>5, <1>6, <1>7, <2>2, <3>1 DEF xy
  <2> QED
    BY <2>1, <2>2
<1>9. z = xy
  <2>1. xy \in Seq(Wire) /\ Len(xy) = k + n
    BY <1>7 DEF xy
  <2> QED
    BY <1>6, <1>8, <2>1, SeqEqual
<1> QED
  BY <1>3, <1>4, <1>5, <1>9 DEF z, xy, x, y, st, k, n

-----------------------------------------------------------------------------
(* The invariant                                                           *)

SoundPdus == {p \in [address : Wire \cup {NULL}, frames : Seq(Frames)] : WellFramed(p.frames)}
Meanings == [frames : Seq(Wire), address : Wire \cup {NULL}]

PduTypes ==
  /\ pattern \in {"dealer", "publish"}
  /\ pdu \in [Peers -> SoundPdus \cup {NULL}]
  /\ partial \in [Peers -> Seq(Wire)]
  /\ queue \in [Peers -> Seq(Seq(Wire))]
  /\ intended \in [Peers -> Seq(Meanings)]

\* The message m is one that tells the peer b what x says.  Nothing does so to
\* a publisher; and what a client gave an address of its own may tell anything.
Says(b, m, x) ==
  \/ Socket(b) = "SUB" /\ m = x.frames
  \/ Socket(b) = "DEALER" /\ m = <<"">> \o x.frames
  \/ Socket(b) = "ROUTER" /\ x.address # NULL
  \/ Socket(b) = "ROUTER" /\ m = <<ClientId>> \o (<<"">> \o x.frames)

AllSay(b, messages, texts) ==
  /\ Len(messages) = Len(texts)
  /\ \A i \in 1..Len(messages) : Says(b, messages[i], texts[i])

\* A peer that has sent whole messages only is in the middle of none, and what
\* it has sent is what it meant.
Kept == \A a \in Peers \ spoiled : partial[a] = <<>> /\ AllSay(Other(a), queue[Other(a)], intended[Other(a)])

PduInv == PduTypes /\ Kept

\* There are two peers.
LEMMA PeersAre ==
  /\ Peers = {"client", "server"} /\ Other("client") = "server" /\ Other("server") = "client"
  /\ \A a \in Peers : Other(a) \in Peers /\ Other(a) # a /\ Other(Other(a)) = a
BY DEF Peers, Other

\* Who has which socket.
LEMMA SocketsAre ==
  ASSUME pattern \in {"dealer", "publish"}
  PROVE  /\ Socket("client") = IF pattern = "dealer" THEN "DEALER" ELSE "SUB"
         /\ Socket("server") = IF pattern = "dealer" THEN "ROUTER" ELSE "PUB"
BY DEF Socket

\* The name of the client, an empty frame and no address differ.
LEMMA NamesDiffer ==
  /\ ClientId # "" /\ ClientId # NULL /\ NULL # ""
  /\ ClientId \in Wire /\ "" \in Wire
<1>1. "" # ClientId /\ ClientId # NULL /\ "" # NULL
  <2> DEFINE three == {"", ClientId, NULL}
  <2>1. Cardinality(three) = 3
    BY PduAssumption
  <2>2. ASSUME NEW x, NEW y, three = {x, y} PROVE FALSE
    <3>1. Cardinality({x, y}) <= 2
      <4>1. Cardinality({x}) = 1 /\ IsFiniteSet({x})
        BY FS_Singleton
      <4>2. Cardinality({x} \cup {y}) = IF y \in {x} THEN 1 ELSE 2
        BY <4>1, FS_AddElement
      <4>3. {x, y} = {x} \cup {y}
        OBVIOUS
      <4> QED
        BY <4>2, <4>3
    <3> HIDE DEF three
    <3> QED
      BY <2>1, <2>2, <3>1
  <2>3. ASSUME "" = ClientId PROVE FALSE
    BY <2>2, <2>3
  <2>4. ASSUME ClientId = NULL PROVE FALSE
    BY <2>2, <2>4
  <2>5. ASSUME "" = NULL PROVE FALSE
    BY <2>2, <2>5
  <2> QED
    BY <2>3, <2>4, <2>5
<1> QED
  BY <1>1 DEF Wire, Addresses

\* No PDU, and no message.
LEMMA PduStart == PduInit => PduInv
<1> SUFFICES ASSUME PduInit PROVE PduInv
  OBVIOUS
<1>1. PduTypes
  BY DEF PduInit, PduTypes
<1>2. Kept
  BY PeersAre DEF PduInit, Kept, AllSay
<1> QED
  BY <1>1, <1>2 DEF PduInv

\* What a caller has in hand is no matter to what is on its way.
LEMMA HoldKeeps ==
  ASSUME PduInv, NEW a \in Peers, NEW p \in SoundPdus \cup {NULL}, Hold(a, p)
  PROVE  PduInv'
<1>1. PduTypes'
  BY DEF PduInv, PduTypes, Hold, Meanings
<1>2. Kept'
  BY DEF PduInv, Kept, Hold, AllSay, Says, Socket
<1> QED
  BY <1>1, <1>2 DEF PduInv

\* No frames.
LEMMA EmptySound == WellFramed(<<>>)
BY DEF WellFramed

\* One more frame.
LEMMA MoreSound ==
  ASSUME NEW frames, WellFramed(frames), NEW d \in Wire
  PROVE  WellFramed(Extended(frames, d))
<1> DEFINE one == <<d>>
<1>1. one \in Seq(Wire) /\ Len(one) = 1 /\ one[1] = d
  OBVIOUS
<1> HIDE DEF one
<1>2. Extended(Grown(frames, one, 1 - 1), one[1]) = Grown(frames, one, 1)
  BY <1>1, ExtendedGrows
<1>3. Grown(frames, one, 1 - 1) = frames
  BY DEF Grown
<1>4. Extended(frames, d) = Grown(frames, one, Len(one))
  BY <1>1, <1>2, <1>3
<1>5. ExtendedBy(frames, one) = Grown(frames, one, Len(one))
  BY <1>1, ExtendedByIs
<1> QED
  BY <1>1, <1>4, <1>5, ExtendedBySound

\* The least of numbers is one of them.
LEMMA MinIs ==
  ASSUME NEW S \in SUBSET Nat, S # {}
  PROVE  Min(S) \in S /\ \A y \in S : Min(S) <= y
<1>1. PICK x \in S : \A y \in S : ~(<<y, x>> \in OpToRel(<, Nat))
  BY NatLessThanWellFounded, WFMin
<1>2. \A y \in S : x <= y
  <2> SUFFICES ASSUME NEW y \in S PROVE x <= y
    OBVIOUS
  <2>1. x \in Nat /\ y \in Nat
    OBVIOUS
  <2>2. ~(y < x)
    BY <1>1, <2>1 DEF OpToRel
  <2> QED
    BY <2>1, <2>2
<1> QED
  BY <1>1, <1>2 DEF Min

\* What a PDU is.
LEMMA SoundPdu ==
  ASSUME NEW p, p \in SoundPdus
  PROVE  /\ p = [address |-> p.address, frames |-> p.frames]
         /\ p.address \in Wire \cup {NULL} /\ p.frames \in Seq(Frames) /\ WellFramed(p.frames)
BY DEF SoundPdus

\* A PDU with both of its fields changed.
LEMMA BothFields ==
  ASSUME NEW p, p \in SoundPdus, NEW x, NEW y
  PROVE  [p EXCEPT !.address = x, !.frames = y] = [address |-> x, frames |-> y]
<1> DEFINE q == [p EXCEPT !.address = x, !.frames = y]
<1>1. p \in [address : Wire \cup {NULL}, frames : Seq(Frames)]
  BY DEF SoundPdus
<1>2. q.address = x /\ q.frames = y
  BY <1>1
<1>3. q \in [address : Wire \cup {NULL, x}, frames : Seq(Frames) \cup {y}]
  BY <1>1
<1> HIDE DEF q
<1>4. q = [address |-> q.address, frames |-> q.frames]
  BY <1>3
<1> QED
  BY <1>2, <1>4 DEF q

\* A PDU is an address and frames.
LEMMA MadeSound ==
  ASSUME NEW x \in Wire \cup {NULL}, NEW frames, WellFramed(frames)
  PROVE  [address |-> x, frames |-> frames] \in SoundPdus
BY DEF SoundPdus, WellFramed

\* The data of frames are what goes over a wire.
LEMMA DataOfIs ==
  ASSUME NEW frames \in Seq(Frames)
  PROVE  /\ DataOf(frames) \in Seq(Wire) /\ Len(DataOf(frames)) = Len(frames)
         /\ DataOf(frames) = DataUpTo(frames, Len(frames))
<1>1. DataOf(frames) = DataUpTo(frames, Len(frames))
  BY LenProperties DEF DataOf, DataUpTo
<1> QED
  BY <1>1, DataJoined

\* PDUs are built of sound frames.
LEMMA BuildKeeps ==
  ASSUME PduInv, NEW a \in Peers,
         \/ PduNew(a) \/ PduFree(a)
         \/ \E d \in Data : PduMake(a, d) \/ PduExtend(a, d) \/ PduReply(a, d)
         \/ \E peer \in {ClientId, "illegal"} : PduAttn(a, peer)
  PROVE  PduInv'
<1> DEFINE p == pdu[a]
<1>1. pdu[a] \in SoundPdus \cup {NULL}
  BY DEF PduInv, PduTypes
<1>2. NewPdu \in SoundPdus
  BY EmptySound, MadeSound DEF NewPdu
<1>3. ASSUME PduNew(a) PROVE PduInv'
  BY <1>2, <1>3, HoldKeeps DEF PduNew
<1>4. ASSUME PduFree(a) PROVE PduInv'
  BY <1>4, HoldKeeps DEF PduFree
<1>5. ASSUME NEW d \in Data, PduMake(a, d) PROVE PduInv'
  <2> DEFINE q == [NewPdu EXCEPT !.frames = Extended(<<>>, d)]
  <2>1. WellFramed(Extended(<<>>, d))
    BY EmptySound, MoreSound DEF Wire
  <2>2. q = [address |-> NULL, frames |-> Extended(<<>>, d)]
    BY DEF NewPdu
  <2>3. q \in SoundPdus
    BY <2>1, <2>2, MadeSound
  <2> QED
    BY <1>5, <2>3, HoldKeeps DEF PduMake
<1>6. ASSUME NEW d \in Data, PduExtend(a, d) PROVE PduInv'
  <2> DEFINE q == [p EXCEPT !.frames = Extended(@, d)]
  <2>1. p \in SoundPdus
    BY <1>1, <1>6 DEF PduExtend
  <2> HIDE DEF p
  <2>2. WellFramed(Extended(p.frames, d))
    BY <2>1, SoundPdu, MoreSound DEF Wire
  <2>3. q = [address |-> p.address, frames |-> Extended(p.frames, d)]
    BY <2>1 DEF SoundPdus
  <2>4. q \in SoundPdus
    BY <2>1, <2>2, <2>3, SoundPdu, MadeSound
  <2> QED
    BY <1>6, <2>4, HoldKeeps DEF PduExtend, p
<1>7. ASSUME NEW d \in Data, PduReply(a, d) PROVE PduInv'
  <2> DEFINE q == [NewPdu EXCEPT !.address = p.address, !.frames = Extended(<<>>, d)]
  <2>1. p \in SoundPdus
    BY <1>1, <1>7 DEF PduReply
  <2> HIDE DEF p
  <2>2. WellFramed(Extended(<<>>, d))
    BY EmptySound, MoreSound DEF Wire
  <2>3. q = [address |-> p.address, frames |-> Extended(<<>>, d)]
    <3>1. NewPdu \in SoundPdus
      BY <1>2
    <3> QED
      BY <3>1, BothFields
  <2>4. q \in SoundPdus
    BY <2>1, <2>2, <2>3, SoundPdu, MadeSound
  <2> QED
    BY <1>7, <2>4, HoldKeeps DEF PduReply, p
<1>8. ASSUME NEW peer \in {ClientId, "illegal"}, PduAttn(a, peer) PROVE PduInv'
  <2> DEFINE q == [p EXCEPT !.address = IF peer = "illegal" THEN @ ELSE peer]
             x == IF peer = "illegal" THEN p.address ELSE peer
  <2>1. p \in SoundPdus
    BY <1>1, <1>8 DEF PduAttn
  <2> HIDE DEF p
  <2>2. x \in Wire \cup {NULL}
    BY <2>1, SoundPdu, NamesDiffer
  <2>3. q = [address |-> x, frames |-> p.frames]
    BY <2>1 DEF SoundPdus
  <2>4. q \in SoundPdus
    BY <2>1, <2>2, <2>3, SoundPdu, MadeSound
  <2> QED
    BY <1>8, <2>4, HoldKeeps DEF PduAttn, p
<1> QED
  BY <1>3, <1>4, <1>5, <1>6, <1>7, <1>8

\* So are copies of a part of one.
LEMMA DupKeeps ==
  ASSUME PduInv, NEW a \in Peers, NEW t \in {NULL} \cup Data, NEW start \in 1..2, NEW n \in 0..1,
         PduDup(a, t, start, n)
  PROVE  PduInv'
<1> DEFINE p == pdu[a]
           d == IF t = NULL THEN p.frames[1].data ELSE t
           l == Len(p.frames)
           to == IF n = 0 THEN l ELSE Min({start + n, l})
           text == DataOf(p.frames)
           part == SubSeq(text, start + 1, to)
           all == ExtendedBy(Extended(<<>>, d), part)
           q == [NewPdu EXCEPT !.frames = all]
<1>1. p \in SoundPdus /\ (t = NULL => p.frames # <<>>)
  BY DEF PduInv, PduTypes, PduDup
<1>2. l \in Nat /\ text \in Seq(Wire) /\ Len(text) = l /\ p.frames \in Seq(Frames)
  BY <1>1, SoundPdu, DataOfIs, LenProperties
<1>3. d \in Wire
  <2>1. CASE t = NULL
    <3>1. 1 \in 1..l
      <4>1. l # 0
        BY <1>1, <1>2, <2>1, EmptySeq
      <4> QED
        BY <1>2, <4>1
    <3>2. p.frames[1] \in Frames
      BY <1>2, <3>1, ElementOfSeq
    <3> QED
      BY <2>1, <3>2 DEF Frames
  <2>2. CASE t # NULL
    BY <2>2 DEF Wire
  <2> QED
    BY <2>1, <2>2
<1>4. to \in 0..l
  <2>1. CASE n = 0
    BY <1>2, <2>1
  <2>2. CASE n # 0
    <3> DEFINE S == {start + n, l}
    <3>1. S \in SUBSET Nat /\ S # {} /\ l \in S
      BY <1>2
    <3> HIDE DEF S
    <3>2. Min(S) \in S /\ Min(S) <= l
      BY <3>1, MinIs
    <3>3. Min(S) \in Nat
      BY <3>1, <3>2
    <3> QED
      BY <1>2, <2>2, <3>2, <3>3 DEF S
  <2> QED
    BY <2>1, <2>2
<1>5. part \in Seq(Wire)
  <2> HIDE DEF to, text, l
  <2> DEFINE b == start + 1
  <2>1. b \in Int /\ to \in Int /\ \A i \in b..to : i \in 1..l
    BY <1>2, <1>4
  <2> HIDE DEF b
  <2>2. \A i \in b..to : text[i] \in Wire
    BY <1>2, <2>1, ElementOfSeq
  <2>3. SubSeq(text, b, to) \in Seq(Wire)
    BY <2>1, <2>2, SubSeqProperties
  <2> QED
    BY <2>3 DEF b
<1> HIDE DEF part, d
<1>6. WellFramed(all)
  BY <1>3, <1>5, EmptySound, MoreSound, ExtendedBySound
<1>7. q \in SoundPdus
  <2>1. q = [address |-> NULL, frames |-> all]
    BY DEF NewPdu
  <2> QED
    BY <1>6, <2>1, MadeSound
<1>8. Hold(a, q)
  BY DEF PduDup, Copied, d, part
<1> QED
  BY <1>7, <1>8, HoldKeeps

-----------------------------------------------------------------------------
(* Receiving                                                               *)

\* The place of the first empty frame of m, or the one behind them all.
Blank(m) == Min({i \in DOMAIN m : m[i] = ""} \cup {Len(m) + 1})

\* Where the first empty frame is.
LEMMA BlankIs ==
  ASSUME NEW m \in Seq(Wire)
  PROVE  /\ Blank(m) \in 1..Len(m) + 1
         /\ \A i \in 1..Len(m) : m[i] = "" => Blank(m) <= i
         /\ Blank(m) <= Len(m) => m[Blank(m)] = ""
<1> DEFINE S == {i \in DOMAIN m : m[i] = ""} \cup {Len(m) + 1}
<1>1. Len(m) \in Nat /\ DOMAIN m = 1..Len(m)
  BY LenProperties
<1>2. /\ S \in SUBSET Nat /\ S # {} /\ S \subseteq 1..Len(m) + 1
      /\ \A i \in 1..Len(m) : m[i] = "" => i \in S
      /\ \A i \in S : i <= Len(m) => m[i] = ""
  <2> DEFINE l == Len(m)
             H == {k \in 1..l : m[k] = ""}
  <2>1. S = H \cup {l + 1} /\ l \in Nat
    BY <1>1
  <2> HIDE DEF S, l
  <2>2. S \in SUBSET Nat /\ S # {} /\ S \subseteq 1..l + 1
    <3>1. l \in Nat
      BY <2>1
    <3>2. \A i \in H : i \in 1..l + 1
      <4> SUFFICES ASSUME NEW i \in H PROVE i \in 1..l + 1
        OBVIOUS
      <4>1. i \in 1..l
        OBVIOUS
      <4> HIDE DEF H
      <4> QED
        BY <3>1, <4>1
    <3>3. l + 1 \in 1..l + 1 /\ \A i \in 1..l + 1 : i \in Nat
      BY <3>1
    <3> HIDE DEF H
    <3> QED
      BY <2>1, <3>2, <3>3
  <2>3. \A i \in 1..l : m[i] = "" => i \in S
    BY <2>1
  <2>4. \A i \in S : i <= l => m[i] = ""
    <3> SUFFICES ASSUME NEW i \in S, i <= l PROVE m[i] = ""
      OBVIOUS
    <3>1. l \in Nat
      BY <2>1
    <3>2. i # l + 1
      BY <3>1
    <3> QED
      BY <2>1, <3>2
  <2> QED
    BY <2>2, <2>3, <2>4 DEF l
<1> HIDE DEF S
<1>3. Min(S) \in S /\ \A y \in S : Min(S) <= y
  BY <1>2, MinIs
<1>4. Blank(m) = Min(S)
  BY DEF Blank, S
<1> QED
  BY <1>2, <1>3, <1>4

\* What the frames of a message are from one place on.
LEMMA RestType ==
  ASSUME NEW m \in Seq(Wire), NEW b \in 1..Len(m) + 1
  PROVE  SubSeq(m, b + 1, Len(m)) \in Seq(Wire)
<1> DEFINE d == b + 1
           l == Len(m)
<1>1. l \in Nat
  BY LenProperties
<1>2. d \in Int /\ l \in Int /\ \A i \in d..l : i \in 1..l
  BY <1>1
<1> HIDE DEF d
<1>3. \A i \in d..l : m[i] \in Wire
  BY <1>2, ElementOfSeq
<1> QED
  BY <1>2, <1>3, SubSeqProperties DEF d

\* What is received is sound; what is left in the queue still says what was
\* meant.
LEMMA RecvKeeps ==
  ASSUME PduInv, NEW a \in Peers, PduRecv(a)
  PROVE  PduInv'
<1> DEFINE m == Head(queue[a])
           b == Blank(m)
           x == IF b = 2 THEN m[1] ELSE NULL
           part == SubSeq(m, b + 1, Len(m))
<1>1. PduTypes /\ queue[a] \in Seq(Seq(Wire)) /\ queue[a] # <<>> /\ intended[a] \in Seq(Meanings)
  BY DEF PduInv, PduTypes, PduRecv
<1>2. m \in Seq(Wire) /\ Tail(queue[a]) \in Seq(Seq(Wire))
  BY <1>1, HeadTailProperties
<1>3. NewPdu \in SoundPdus
  BY EmptySound, MadeSound DEF NewPdu
<1>4. pdu' \in [Peers -> SoundPdus \cup {NULL}]
  <2>1. CASE Socket(a) = "SUB"
    <3> DEFINE q == [NewPdu EXCEPT !.frames = ExtendedBy(<<>>, m)]
    <3>1. q = [address |-> NULL, frames |-> ExtendedBy(<<>>, m)]
      BY DEF NewPdu
    <3>2. WellFramed(ExtendedBy(<<>>, m))
      BY <1>2, EmptySound, ExtendedBySound
    <3>3. q \in SoundPdus
      BY <3>1, <3>2, MadeSound
    <3>4. pdu' = [pdu EXCEPT ![a] = q]
      BY <2>1 DEF PduRecv
    <3> HIDE DEF q
    <3> QED
      BY <1>1, <3>3, <3>4 DEF PduTypes
  <2>2. CASE Socket(a) # "SUB" /\ b > 2
    <3>1. pdu' = pdu
      BY <2>2 DEF PduRecv, Blank
    <3> QED
      BY <1>1, <3>1 DEF PduTypes
  <2>3. CASE Socket(a) # "SUB" /\ ~(b > 2)
    <3> DEFINE q == [NewPdu EXCEPT !.address = x, !.frames = ExtendedBy(<<>>, part)]
    <3>1. pdu' = [pdu EXCEPT ![a] = q]
      BY <2>3 DEF PduRecv, Blank
    <3>2. b \in 1..Len(m) + 1 /\ Len(m) \in Nat
      BY <1>2, BlankIs, LenProperties
    <3>3. x \in Wire \cup {NULL}
      <4> SUFFICES ASSUME b = 2 PROVE m[1] \in Wire
        OBVIOUS
      <4>1. 1 \in 1..Len(m)
        BY <3>2
      <4> QED
        BY <1>2, <4>1, ElementOfSeq
    <3>4. part \in Seq(Wire)
      BY <1>2, <3>2, RestType
    <3> HIDE DEF part, x
    <3>5. WellFramed(ExtendedBy(<<>>, part))
      BY <3>4, EmptySound, ExtendedBySound
    <3>6. q = [address |-> x, frames |-> ExtendedBy(<<>>, part)]
      BY <1>3, BothFields
    <3>7. q \in SoundPdus
      BY <3>3, <3>5, <3>6, MadeSound
    <3> HIDE DEF q
    <3> QED
      BY <1>1, <3>1, <3>7 DEF PduTypes
  <2> QED
    BY <2>1, <2>2, <2>3
<1>5. queue' = [queue EXCEPT ![a] = Tail(@)]
  BY DEF PduRecv
<1>6. intended' = [intended EXCEPT ![a] = IF @ = <<>> THEN @ ELSE Tail(@)]
  BY DEF PduRecv
<1>7. pattern' = pattern /\ partial' = partial /\ spoiled' = spoiled
  BY DEF PduRecv
<1>8. intended[a] # <<>> => Tail(intended[a]) \in Seq(Meanings)
  BY <1>1, HeadTailProperties
<1>9. PduTypes'
  <2>1. queue' \in [Peers -> Seq(Seq(Wire))]
    BY <1>1, <1>2, <1>5 DEF PduTypes
  <2>2. intended' \in [Peers -> Seq(Meanings)]
    BY <1>1, <1>6, <1>8 DEF PduTypes
  <2>3. pattern' \in {"dealer", "publish"} /\ partial' \in [Peers -> Seq(Wire)]
    BY <1>1, <1>7 DEF PduTypes
  <2> QED
    BY <1>4, <2>1, <2>2, <2>3 DEF PduTypes, Meanings, SoundPdus
<1>10. Kept'
  <2> SUFFICES ASSUME NEW c \in Peers, c \notin spoiled'
               PROVE  partial'[c] = <<>> /\ AllSay(Other(c), queue[Other(c)], intended[Other(c)])'
    BY DEF Kept, Peers, Other
  <2>1. partial[c] = <<>> /\ AllSay(Other(c), queue[Other(c)], intended[Other(c)])
    BY <1>7 DEF PduInv, Kept
  <2>2. CASE Other(c) = a
    <3> DEFINE ms == queue[a]
               xs == intended[a]
    <3>1. Len(ms) = Len(xs) /\ \A i \in 1..Len(ms) : Says(a, ms[i], xs[i])
      BY <2>1, <2>2 DEF AllSay
    <3>2. xs # <<>>
      <4>1. Len(ms) # 0
        BY <1>1, EmptySeq
      <4> QED
        BY <3>1, <4>1
    <3>3. queue'[a] = Tail(ms) /\ intended'[a] = Tail(xs)
      BY <1>1, <1>5, <1>6, <3>2 DEF PduTypes
    <3>4. /\ Len(Tail(ms)) = Len(ms) - 1 /\ \A i \in 1..Len(ms) - 1 : Tail(ms)[i] = ms[i + 1]
          /\ Len(ms) \in Nat
      BY <1>1, HeadTailProperties, LenProperties
    <3>5. Len(Tail(xs)) = Len(ms) - 1 /\ \A i \in 1..Len(ms) - 1 : Tail(xs)[i] = xs[i + 1]
      BY <1>1, <3>1, <3>2, HeadTailProperties
    <3>6. \A i \in 1..Len(ms) - 1 : Says(a, Tail(ms)[i], Tail(xs)[i])
      <4>1. \A i \in 1..Len(ms) - 1 : i + 1 \in 1..Len(ms)
        BY <3>4
      <4> QED
        BY <3>1, <3>4, <3>5, <4>1
    <3> HIDE DEF ms, xs
    <3>7. AllSay(a, Tail(ms), Tail(xs))
      BY <3>4, <3>5, <3>6 DEF AllSay
    <3>8. (AllSay(Other(c), queue[Other(c)], intended[Other(c)]))' <=> AllSay(a, Tail(ms), Tail(xs))
      BY <1>7, <2>2, <3>3 DEF AllSay, Says, Socket, Other, Peers
    <3> QED
      BY <1>7, <2>1, <3>7, <3>8
  <2>3. CASE Other(c) # a
    <3>1. queue'[Other(c)] = queue[Other(c)] /\ intended'[Other(c)] = intended[Other(c)]
      BY <1>1, <1>5, <1>6, <2>3, PeersAre DEF PduTypes
    <3>2. AllSay(Other(c), queue[Other(c)], intended[Other(c)])' <=> AllSay(Other(c), queue[Other(c)], intended[Other(c)])
      BY <1>7, <3>1 DEF AllSay, Says, Socket, Other, Peers
    <3> QED
      BY <1>7, <2>1, <3>2
  <2> QED
    BY <2>2, <2>3
<1> QED
  BY <1>9, <1>10 DEF PduInv

\* A message of one empty frame, or a name and an empty frame, and others.
LEMMA Envelopes ==
  ASSUME NEW f \in Seq(Wire)
  PROVE  /\ LET m == <<"">> \o f
            IN m \in Seq(Wire) /\ Blank(m) = 1 /\ SubSeq(m, 1 + 1, Len(m)) = f
         /\ LET m == <<ClientId>> \o (<<"">> \o f)
            IN m \in Seq(Wire) /\ Blank(m) = 2 /\ m[1] = ClientId /\ SubSeq(m, 2 + 1, Len(m)) = f
<1> DEFINE nil == ""
           e == <<nil>>
           c == <<ClientId>>
           m == e \o f
           n == c \o m
<1>1. nil \in Wire /\ ClientId \in Wire /\ ClientId # nil
  BY NamesDiffer
<1>2. ASSUME NEW x \in Seq(Wire)
      PROVE  /\ Blank(x) \in 1..Len(x) + 1
             /\ \A i \in 1..Len(x) : x[i] = nil => Blank(x) <= i
             /\ Blank(x) <= Len(x) => x[Blank(x)] = nil
  BY BlankIs
<1> HIDE DEF nil
<1>3. e \in Seq(Wire) /\ c \in Seq(Wire) /\ Len(e) = 1 /\ Len(c) = 1 /\ Len(f) \in Nat
  BY <1>1, LenProperties
<1>4. m \in Seq(Wire) /\ Len(m) = Len(f) + 1 /\ m[1] = nil
  BY <1>1, FirstOff
<1> HIDE DEF m
<1>5. n \in Seq(Wire) /\ Len(n) = Len(m) + 1 /\ n[1] = ClientId /\ \A i \in 1..Len(m) : n[i + 1] = m[i]
  BY <1>1, <1>4, FirstOff
<1> HIDE DEF n, e, c
<1>6. Blank(m) = 1
  <2> DEFINE b == Blank(m)
  <2>1. b \in 1..Len(m) + 1 /\ \A i \in 1..Len(m) : m[i] = nil => b <= i
    BY <1>2, <1>4
  <2> HIDE DEF b
  <2>2. 1 \in 1..Len(m)
    BY <1>3, <1>4
  <2>3. b <= 1
    BY <1>4, <2>1, <2>2
  <2> QED
    BY <1>3, <1>4, <2>1, <2>3 DEF b
<1>7. Blank(n) = 2
  <2> DEFINE b == Blank(n)
  <2>1. /\ b \in 1..Len(n) + 1 /\ \A i \in 1..Len(n) : n[i] = nil => b <= i
        /\ b <= Len(n) => n[b] = nil
    BY <1>2, <1>5
  <2> HIDE DEF b
  <2>2. n[2] = nil
    <3>1. 1 \in 1..Len(m)
      BY <1>3, <1>4
    <3>2. n[1 + 1] = m[1]
      BY <1>5, <3>1
    <3> QED
      BY <1>4, <3>2
  <2>3. Len(n) = Len(f) + 2 /\ 2 \in 1..Len(n)
    BY <1>3, <1>4, <1>5
  <2>4. b <= 2
    BY <2>1, <2>2, <2>3
  <2>5. b # 1
    <3> SUFFICES ASSUME b = 1 PROVE FALSE
      OBVIOUS
    <3>1. b <= Len(n)
      BY <1>3, <2>3
    <3>2. n[1] = nil
      BY <2>1, <3>1
    <3> QED
      BY <1>1, <1>5, <3>2
  <2> QED
    BY <1>3, <2>1, <2>3, <2>4, <2>5 DEF b
<1>8. SubSeq(m, 1 + 1, Len(m)) = f
  <2>1. SubSeq(e \o f, Len(e) + 1, Len(e \o f)) = f
    BY <1>3, Behind
  <2> QED
    BY <1>3, <2>1 DEF m
<1>9. SubSeq(n, 2 + 1, Len(n)) = f
  <2> DEFINE ce == c \o e
  <2>1. ce \o f = c \o (e \o f)
    BY <1>3, ConcatAssociative
  <2>2. ce \in Seq(Wire) /\ Len(ce) = 2
    <3>1. c \o e \in Seq(Wire) /\ Len(c \o e) = Len(c) + Len(e)
      BY <1>3, ConcatProperties
    <3> QED
      BY <1>3, <3>1
  <2> HIDE DEF ce
  <2>3. SubSeq(ce \o f, Len(ce) + 1, Len(ce \o f)) = f
    BY <2>2, Behind
  <2>4. n = ce \o f
    BY <2>1 DEF n, m
  <2> QED
    BY <2>2, <2>3, <2>4
<1> QED
  BY <1>4, <1>5, <1>6, <1>7, <1>8, <1>9 DEF m, n, e, c, nil

\* What PduRight says of a message received.
LEMMA RecvRight ==
  ASSUME PduInv, NEW a \in Peers, PduRecv(a), Other(a) \notin spoiled
  PROVE  \/ Socket(a) = "ROUTER" /\ Head(intended[a]).address # NULL
         \/ /\ intended[a] # <<>> /\ a \notin crashed'
            /\ DataOf(pdu[a]'.frames) = Head(intended[a]).frames
            /\ pdu[a]'.address = IF Socket(a) = "ROUTER" THEN ClientId ELSE NULL
<1> DEFINE ms == queue[a]
           xs == intended[a]
           m == Head(ms)
           x == Head(xs)
           f == x.frames
           b == Blank(m)
           part == SubSeq(m, b + 1, Len(m))
<1>1. PduTypes /\ ms \in Seq(Seq(Wire)) /\ ms # <<>> /\ xs \in Seq(Meanings) /\ pdu \in [Peers -> SoundPdus \cup {NULL}]
  BY DEF PduInv, PduTypes, PduRecv
<1>2. AllSay(a, ms, xs)
  <2>1. Other(a) \in Peers /\ Other(Other(a)) = a
    BY PeersAre
  <2> QED
    BY <2>1 DEF PduInv, Kept
<1>3. 1 \in 1..Len(ms) /\ Len(ms) = Len(xs) /\ xs # <<>>
  <2>1. Len(ms) \in Nat /\ Len(ms) # 0
    BY <1>1, EmptySeq, LenProperties
  <2>2. Len(ms) = Len(xs)
    BY <1>2 DEF AllSay
  <2> QED
    BY <2>1, <2>2
<1>4. Says(a, m, x)
  <2>1. m = ms[1] /\ x = xs[1]
    BY <1>1, <1>3
  <2>2. Says(a, ms[1], xs[1])
    BY <1>2, <1>3 DEF AllSay
  <2> QED
    BY <2>1, <2>2
<1>5. x \in Meanings /\ m \in Seq(Wire)
  BY <1>1, <1>3, HeadTailProperties
<1>6. f \in Seq(Wire)
  BY <1>5 DEF Meanings
<1>7. NewPdu \in SoundPdus /\ NewPdu = [address |-> NULL, frames |-> <<>>]
  BY EmptySound, MadeSound DEF NewPdu
<1>8. a \notin crashed
  BY DEF PduRecv
<1>9. ASSUME NEW n, NEW y, Socket(a) # "SUB", b = n, n \in {1, 2}, part = f,
             y = IF b = 2 THEN m[1] ELSE NULL
      PROVE  a \notin crashed' /\ DataOf(pdu[a]'.frames) = f /\ pdu[a]'.address = y
  <2> DEFINE q == [NewPdu EXCEPT !.address = IF b = 2 THEN m[1] ELSE NULL,
                                 !.frames = ExtendedBy(<<>>, part)]
  <2>1. ~(b > 2)
    BY <1>9
  <2>2. pdu' = [pdu EXCEPT ![a] = q] /\ crashed' = crashed
    BY <1>9, <2>1 DEF PduRecv, Blank
  <2>3. q = [address |-> IF b = 2 THEN m[1] ELSE NULL, frames |-> ExtendedBy(<<>>, part)]
    BY <1>7, BothFields
  <2>4. pdu'[a] = q
    <3> HIDE DEF q
    <3> QED
      BY <1>1, <2>2
  <2> HIDE DEF q, part, b
  <2>5. pdu'[a].address = y /\ pdu'[a].frames = ExtendedBy(<<>>, f)
    BY <1>9, <2>3, <2>4
  <2>6. DataOf(ExtendedBy(<<>>, f)) = f
    BY <1>6, ReceivedData
  <2> QED
    BY <1>8, <2>2, <2>5, <2>6
<1>10. CASE Socket(a) = "SUB"
  <2>1. m = f
    BY <1>4, <1>10 DEF Says
  <2> DEFINE q == [NewPdu EXCEPT !.frames = ExtendedBy(<<>>, m)]
  <2>2. pdu' = [pdu EXCEPT ![a] = q] /\ crashed' = crashed
    BY <1>10 DEF PduRecv
  <2>3. q = [address |-> NULL, frames |-> ExtendedBy(<<>>, m)]
    BY DEF NewPdu
  <2> HIDE DEF q
  <2>4. pdu'[a] = q
    BY <1>1, <2>2
  <2> HIDE DEF m, f
  <2>5. pdu'[a].address = NULL /\ pdu'[a].frames = ExtendedBy(<<>>, f)
    BY <2>1, <2>3, <2>4
  <2>6. DataOf(ExtendedBy(<<>>, f)) = f
    BY <1>6, ReceivedData
  <2> QED
    BY <1>3, <1>8, <1>10, <2>2, <2>5, <2>6 DEF f, x, xs
<1>11. CASE Socket(a) = "DEALER"
  <2>1. m = <<"">> \o f
    BY <1>4, <1>11 DEF Says
  <2> HIDE DEF m, f
  <2>2. b = 1 /\ SubSeq(m, 1 + 1, Len(m)) = f
    BY <1>6, <2>1, Envelopes
  <2> HIDE DEF b
  <2>3. part = f
    BY <2>2
  <2>4. NULL = IF b = 2 THEN m[1] ELSE NULL
    BY <2>2
  <2> HIDE DEF part
  <2>5. a \notin crashed' /\ DataOf(pdu[a]'.frames) = f /\ pdu[a]'.address = NULL
    BY <1>9, <1>11, <2>2, <2>3, <2>4
  <2> QED
    BY <1>3, <1>11, <2>5 DEF f, x, xs
<1>12. CASE Socket(a) = "ROUTER" /\ x.address = NULL
  <2>1. m = <<ClientId>> \o (<<"">> \o f)
    BY <1>4, <1>12 DEF Says
  <2> HIDE DEF m, f
  <2>2. b = 2 /\ SubSeq(m, 2 + 1, Len(m)) = f /\ m[1] = ClientId
    BY <1>6, <2>1, Envelopes
  <2> HIDE DEF b
  <2>3. part = f
    BY <2>2
  <2>4. ClientId = IF b = 2 THEN m[1] ELSE NULL
    BY <2>2
  <2> HIDE DEF part
  <2>5. a \notin crashed' /\ DataOf(pdu[a]'.frames) = f /\ pdu[a]'.address = ClientId
    BY <1>9, <1>12, <2>2, <2>3, <2>4
  <2> QED
    BY <1>3, <1>12, <2>5 DEF f, x, xs
<1> QED
  BY <1>4, <1>10, <1>11, <1>12 DEF Says

-----------------------------------------------------------------------------
(* Sending                                                                 *)

More(d) == [data |-> d, final |-> FALSE]

\* The frames that pdu_send() sends in front of those of the PDU, and their data.
Envelope(a) ==
  IF Socket(a) = "PUB" THEN <<>>
  ELSE (IF pdu[a].address = NULL THEN <<>> ELSE <<More(pdu[a].address)>>) \o <<More("")>>

EnvelopeData(a) ==
  IF Socket(a) = "PUB" THEN <<>>
  ELSE IF pdu[a].address = NULL THEN <<"">> ELSE <<pdu[a].address>> \o <<"">>

\* One frame, of which more follow.
LEMMA MoreIs ==
  ASSUME NEW d \in Wire
  PROVE  /\ <<More(d)>> \in Seq(Frames) /\ Len(<<More(d)>>) = 1 /\ ~<<More(d)>>[1].final
         /\ DataUpTo(<<More(d)>>, Len(<<More(d)>>)) = <<d>>
<1> DEFINE one == <<More(d)>>
           x == DataUpTo(one, Len(one))
           y == <<d>>
<1>1. More(d) \in Frames /\ ~More(d).final /\ More(d).data = d
  BY DEF More, Frames
<1>2. one \in Seq(Frames) /\ Len(one) = 1 /\ one[1] = More(d)
  BY <1>1
<1>3. y \in Seq(Wire) /\ Len(y) = 1 /\ y[1] = d
  OBVIOUS
<1> HIDE DEF one, y
<1>4. x \in Seq(Wire) /\ Len(x) = 1 /\ x[1] = d
  <2>1. x = [i \in 1..1 |-> one[i].data]
    BY <1>2 DEF DataUpTo
  <2>2. \A i \in 1..1 : one[i].data = d
    BY <1>1, <1>2
  <2> HIDE DEF x
  <2> QED
    BY <2>1, <2>2
<1> HIDE DEF x
<1>5. x = y
  BY <1>3, <1>4, SeqEqual
<1> QED
  BY <1>1, <1>2, <1>5 DEF x, y, one

\* What pdu_send() sends (src/mq.c:477-550): an envelope, that does not end a
\* message, and the frames.
LEMMA OutgoingIs ==
  ASSUME NEW a, pdu[a] \in SoundPdus
  PROVE  /\ Outgoing(a) = Envelope(a) \o pdu[a].frames
         /\ Envelope(a) \in Seq(Frames)
         /\ \A i \in 1..Len(Envelope(a)) : ~Envelope(a)[i].final
         /\ DataUpTo(Envelope(a), Len(Envelope(a))) = EnvelopeData(a)
<1> DEFINE p == pdu[a]
           nil == ""
           x == p.address
           n == <<More(nil)>>
           m == <<More(x)>>
<1>1. Outgoing(a) = Envelope(a) \o p.frames
  BY DEF Outgoing, Envelope, More
<1>2. nil \in Wire /\ x \in Wire \cup {NULL}
  BY NamesDiffer, SoundPdu
<1>3. Envelope(a) = IF Socket(a) = "PUB" THEN <<>> ELSE (IF x = NULL THEN <<>> ELSE m) \o n
  BY DEF Envelope
<1>4. EnvelopeData(a) = IF Socket(a) = "PUB" THEN <<>> ELSE IF x = NULL THEN <<nil>> ELSE <<x>> \o <<nil>>
  BY DEF EnvelopeData
<1> HIDE DEF nil, x
<1>5. n \in Seq(Frames) /\ Len(n) = 1 /\ ~n[1].final /\ DataUpTo(n, Len(n)) = <<nil>>
  BY <1>2, MoreIs
<1>6. CASE Socket(a) = "PUB"
  <2>1. DataUpTo(<<>>, 0) = <<>>
    BY DEF DataUpTo
  <2> QED
    BY <1>1, <1>3, <1>4, <1>6, <2>1
<1>7. CASE Socket(a) # "PUB" /\ x = NULL
  <2> HIDE DEF n
  <2>1. <<>> \o n = n
    BY <1>5, ConcatEmptySeq
  <2>2. Envelope(a) = n /\ EnvelopeData(a) = <<nil>>
    BY <1>3, <1>4, <1>7, <2>1
  <2>3. \A i \in 1..1 : ~n[i].final
    BY <1>5
  <2> QED
    BY <1>1, <1>5, <2>2, <2>3
<1>8. CASE Socket(a) # "PUB" /\ x # NULL
  <2>1. m \in Seq(Frames) /\ Len(m) = 1 /\ ~m[1].final /\ DataUpTo(m, Len(m)) = <<x>>
    BY <1>2, <1>8, MoreIs
  <2> HIDE DEF n, m
  <2>2. Envelope(a) = m \o n /\ EnvelopeData(a) = <<x>> \o <<nil>>
    BY <1>3, <1>4, <1>8
  <2>3. DataUpTo(m \o n, Len(m \o n)) = <<x>> \o <<nil>>
    BY <1>5, <2>1, DataJoined
  <2>4. /\ m \o n \in Seq(Frames) /\ Len(m \o n) = 1 + 1
        /\ \A i \in 1..1 + 1 : (m \o n)[i] = IF i <= 1 THEN m[i] ELSE n[i - 1]
    BY <1>5, <2>1, ConcatProperties
  <2>5. \A i \in 1..1 + 1 : ~(m \o n)[i].final
    <3> DEFINE mn == m \o n
    <3>1. mn[1] = m[1] /\ mn[2] = n[1]
      BY <2>4
    <3> HIDE DEF mn
    <3>2. \A i \in 1..1 + 1 : i = 1 \/ i = 2
      OBVIOUS
    <3>3. \A i \in 1..1 + 1 : ~mn[i].final
      BY <1>5, <2>1, <3>1, <3>2
    <3> QED
      BY <3>3 DEF mn
  <2> QED
    BY <1>1, <2>2, <2>3, <2>4, <2>5
<1> QED
  BY <1>6, <1>7, <1>8

\* What pdu_send() sends of it before a frame fails: only the last of all the
\* frames ends a message.
LEMMA SentIs ==
  ASSUME NEW a, pdu[a] \in SoundPdus, NEW k \in 0..Len(Outgoing(a))
  PROVE  LET out == Outgoing(a)
             f == SubSeq(out, 1, k)
         IN /\ out \in Seq(Frames) /\ f \in Seq(Frames) /\ Len(f) = k
            /\ Len(out) = Len(Envelope(a)) + Len(pdu[a].frames)
            /\ k = Len(out) => f = out
            /\ \A i \in 1..k : f[i] = out[i]
            /\ \A i \in 1..k : f[i].final => i = Len(out)
            /\ pdu[a].frames # <<>> => out # <<>> /\ out[Len(out)].final
<1> DEFINE out == Outgoing(a)
           e == Envelope(a)
           p == pdu[a].frames
           f == SubSeq(out, 1, k)
           b == Len(e)
           l == Len(p)
<1>1. out = e \o p /\ e \in Seq(Frames) /\ \A i \in 1..b : ~e[i].final
  BY OutgoingIs
<1>2. p \in Seq(Frames) /\ \A i \in 1..l : p[i].final <=> i = l
  BY SoundPdu DEF WellFramed
<1> HIDE DEF e, p, out
<1>3. /\ out \in Seq(Frames) /\ Len(out) = b + l
      /\ \A i \in 1..b + l : out[i] = IF i <= b THEN e[i] ELSE p[i - b]
      /\ b \in Nat /\ l \in Nat /\ Len(out) \in Nat
  BY <1>1, <1>2, ConcatProperties, LenProperties
<1>4. k \in 0..Len(out) /\ k \in Nat
  BY <1>3 DEF out
<1>5. f \in Seq(Frames) /\ Len(f) = k /\ \A i \in 1..k : f[i] = out[i]
  <2> DEFINE one == 1
  <2>1. one \in Int /\ k \in Int /\ \A i \in one..k : i \in 1..Len(out)
    BY <1>3, <1>4
  <2>2. (IF one <= k THEN k - one + 1 ELSE 0) = k /\ k - one + 1 = k
    BY <1>4
  <2> HIDE DEF one
  <2>3. \A i \in one..k : out[i] \in Frames
    BY <1>3, <2>1, ElementOfSeq
  <2>4. /\ SubSeq(out, one, k) \in Seq(Frames)
        /\ Len(SubSeq(out, one, k)) = IF one <= k THEN k - one + 1 ELSE 0
        /\ \A i \in 1..k - one + 1 : SubSeq(out, one, k)[i] = out[one + i - 1]
    BY <2>1, <2>3, SubSeqProperties
  <2>5. SubSeq(out, one, k) \in Seq(Frames) /\ Len(SubSeq(out, one, k)) = k
        /\ \A i \in 1..k : SubSeq(out, one, k)[i] = out[one + i - 1]
    BY <2>2, <2>4
  <2>6. \A i \in 1..k : one + i - 1 = i
    BY <1>4 DEF one
  <2> QED
    BY <2>5, <2>6 DEF one
<1>6. \A i \in 1..b + l : out[i].final => i = b + l
  <2> SUFFICES ASSUME NEW i \in 1..b + l, out[i].final PROVE i = b + l
    OBVIOUS
  <2>1. CASE i <= b
    <3>1. i \in 1..b
      BY <1>3, <2>1
    <3> QED
      BY <1>1, <1>3, <2>1, <3>1
  <2>2. CASE ~(i <= b)
    <3>1. i - b \in 1..l
      BY <1>3, <2>2
    <3>2. p[i - b].final
      BY <1>3, <2>2
    <3>3. i - b = l
      BY <1>2, <3>1, <3>2
    <3> QED
      BY <1>3, <3>3
  <2> QED
    BY <2>1, <2>2
<1>7. \A i \in 1..k : f[i].final => i = Len(out)
  <2>1. \A i \in 1..k : i \in 1..b + l
    BY <1>3, <1>4
  <2> QED
    BY <1>3, <1>5, <1>6, <2>1
<1>8. p # <<>> => out # <<>> /\ out[Len(out)].final
  <2> SUFFICES ASSUME p # <<>> PROVE out # <<>> /\ out[Len(out)].final
    OBVIOUS
  <2>1. l # 0
    BY <1>2, EmptySeq
  <2>2. b + l \in 1..b + l /\ ~(b + l <= b) /\ b + l - b = l /\ l \in 1..l /\ Len(out) # 0
    BY <1>3, <2>1
  <2>3. out # <<>>
    BY <2>2
  <2>4. out[b + l] = p[l]
    BY <1>3, <2>2
  <2> QED
    BY <1>2, <1>3, <2>2, <2>3, <2>4
<1>9. k = Len(out) => f = out
  <2> HIDE DEF f
  <2> QED
    BY <1>3, <1>5, SeqEqual
<1> QED
  BY <1>3, <1>5, <1>7, <1>8, <1>9 DEF f, out, b, l, e, p

\* What the message says that a whole PDU becomes, unless nobody gets it.
LEMMA RoutedRight ==
  ASSUME NEW a \in Peers, Socket(a) # "SUB", pattern \in {"dealer", "publish"},
         pdu[a] \in SoundPdus,
         NEW f, f = DataOf(pdu[a].frames), NEW x, x = [frames |-> f, address |-> pdu[a].address]
  PROVE  IF Socket(a) = "ROUTER" /\ pdu[a].address # ClientId
           THEN Routed(a, EnvelopeData(a) \o f) = <<>>
           ELSE \E m \in Seq(Wire) : /\ Routed(a, EnvelopeData(a) \o f) = <<m>>
                                     /\ Says(Other(a), m, x)
<1> DEFINE nil == ""
           n == <<nil>>
           t == pdu[a].address
           c == <<t>>
           e == EnvelopeData(a)
           nf == n \o f
<1>1. f \in Seq(Wire) /\ nil \in Wire /\ ClientId \in Wire /\ nil # ClientId /\ t \in Wire \cup {NULL}
      /\ ClientId # NULL
  BY SoundPdu, DataOfIs, NamesDiffer
<1>2. \/ Socket(a) = "DEALER" /\ Socket(Other(a)) = "ROUTER"
      \/ Socket(a) = "ROUTER" /\ Socket(Other(a)) = "DEALER"
      \/ Socket(a) = "PUB" /\ Socket(Other(a)) = "SUB"
  <2>1. a = "client" \/ a = "server"
    BY DEF Peers
  <2>2. CASE a = "client"
    BY <2>2, PeersAre, SocketsAre
  <2>3. CASE a = "server"
    BY <2>3, PeersAre, SocketsAre
  <2> QED
    BY <2>1, <2>2, <2>3
<1>3. e = IF Socket(a) = "PUB" THEN <<>> ELSE IF t = NULL THEN n ELSE c \o n
  BY DEF EnvelopeData
<1>4. x.frames = f /\ x.address = t
  OBVIOUS
<1>5. \A b, m : Says(b, m, x) <=>
         \/ Socket(b) = "SUB" /\ m = f
         \/ Socket(b) = "DEALER" /\ m = nf
         \/ Socket(b) = "ROUTER" /\ t # NULL
         \/ Socket(b) = "ROUTER" /\ m = <<ClientId>> \o nf
  BY <1>4 DEF Says
<1> HIDE DEF nil, t, e
<1>6. n \in Seq(Wire)
  BY <1>1
<1>7. nf \in Seq(Wire) /\ nf # <<>> /\ nf[1] = nil
  BY <1>1, FirstOff
<1> HIDE DEF n, nf
<1>8. t # NULL => /\ (c \o n) \o f = c \o nf
                  /\ c \o nf \in Seq(Wire) /\ c \o nf # <<>>
                  /\ (c \o nf)[1] = t /\ Tail(c \o nf) = nf
  <2> SUFFICES ASSUME t # NULL
               PROVE  /\ (c \o n) \o f = c \o nf
                      /\ c \o nf \in Seq(Wire) /\ c \o nf # <<>>
                      /\ (c \o nf)[1] = t /\ Tail(c \o nf) = nf
    OBVIOUS
  <2>1. t \in Wire
    BY <1>1
  <2>2. c \in Seq(Wire)
    BY <2>1
  <2>3. (c \o n) \o f = c \o (n \o f)
    BY <1>1, <1>6, <2>2, ConcatAssociative
  <2>4. /\ c \o nf \in Seq(Wire) /\ c \o nf # <<>>
        /\ (c \o nf)[1] = t /\ Tail(c \o nf) = nf
    BY <1>7, <2>1, FirstOff
  <2> QED
    BY <2>3, <2>4 DEF nf
<1> HIDE DEF c
<1>9. CASE Socket(a) = "DEALER"
  <2> DEFINE m == e \o f
             o == <<ClientId>>
  <2>1. Routed(a, m) = << o \o m >>
    BY <1>9 DEF Routed
  <2>2. m \in Seq(Wire) /\ (t = NULL => m = nf)
    <3>1. CASE t = NULL
      BY <1>3, <1>7, <1>9, <3>1 DEF nf
    <3>2. CASE t # NULL
      BY <1>3, <1>8, <1>9, <3>2
    <3> QED
      BY <3>1, <3>2
  <2> HIDE DEF m
  <2>3. o \o m \in Seq(Wire)
    BY <1>1, <2>2, FirstOff
  <2>4. Says(Other(a), o \o m, x)
    <3>1. t = NULL => o \o m = o \o nf
      BY <2>2
    <3> QED
      BY <1>2, <1>5, <1>9, <3>1
  <2> HIDE DEF o
  <2> QED
    BY <1>9, <2>1, <2>3, <2>4 DEF m, e
<1>10. CASE Socket(a) = "ROUTER"
  <2> DEFINE m == e \o f
  <2>1. Routed(a, m) = IF m[1] = ClientId THEN << Tail(m) >> ELSE <<>>
    BY <1>10 DEF Routed
  <2>2. CASE t = NULL
    <3>1. m = nf
      BY <1>3, <1>10, <2>2 DEF nf
    <3> HIDE DEF m
    <3>2. m[1] # ClientId
      BY <1>1, <1>7, <3>1
    <3>3. Routed(a, m) = <<>>
      BY <2>1, <3>2
    <3>4. t # ClientId
      BY <1>1, <2>2
    <3> QED
      BY <1>10, <3>3, <3>4 DEF m, t, e
  <2>3. CASE t # NULL /\ t # ClientId
    <3>1. m = c \o nf
      BY <1>3, <1>8, <1>10, <2>3
    <3> HIDE DEF m
    <3>2. m[1] # ClientId
      BY <1>8, <2>3, <3>1
    <3>3. Routed(a, m) = <<>>
      BY <2>1, <3>2
    <3> QED
      BY <1>10, <2>3, <3>3 DEF m, t, e
  <2>4. CASE t # NULL /\ t = ClientId
    <3>1. m = c \o nf
      BY <1>3, <1>8, <1>10, <2>4
    <3> HIDE DEF m
    <3>2. m[1] = ClientId /\ Tail(m) = nf
      BY <1>8, <2>4, <3>1
    <3>3. Routed(a, m) = <<nf>>
      BY <2>1, <3>2
    <3>4. Says(Other(a), nf, x)
      BY <1>2, <1>5, <1>10
    <3> QED
      BY <1>7, <2>4, <3>3, <3>4 DEF m, t, e
  <2> QED
    BY <2>2, <2>3, <2>4
<1>11. CASE Socket(a) = "PUB"
  <2>1. e \o f = f
    BY <1>1, <1>3, <1>11, ConcatEmptySeq
  <2>2. Routed(a, f) = <<f>>
    BY <1>11 DEF Routed
  <2>3. Says(Other(a), f, x)
    BY <1>2, <1>5, <1>11
  <2>4. Routed(a, e \o f) = <<f>>
    BY <2>1, <2>2
  <2> QED
    BY <1>1, <1>11, <2>3, <2>4 DEF e
<1> QED
  BY <1>2, <1>9, <1>10, <1>11

\* What becomes of the frames that pdu_send() sends.
LEMMA FlushedSends ==
  ASSUME NEW a \in Peers, pdu[a] \in SoundPdus, NEW rest \in Seq(Wire), NEW k \in 0..Len(Outgoing(a))
  PROVE  LET out == Outgoing(a)
             flushed == Flushed(a, rest, SubSeq(out, 1, k))
         IN /\ flushed.rest \in Seq(Wire) /\ flushed.routed \in Seq(Seq(Wire))
            /\ k = 0 => flushed.rest = rest /\ flushed.routed = <<>>
            /\ k = Len(out) /\ pdu[a].frames # <<>> /\ rest = <<>> =>
                 /\ flushed.rest = <<>>
                 /\ flushed.routed = Routed(a, EnvelopeData(a) \o DataOf(pdu[a].frames))
<1> DEFINE out == Outgoing(a)
           f == SubSeq(out, 1, k)
           flushed == Flushed(a, rest, f)
           n == Len(f)
           all == rest \o DataUpTo(f, n)
           fs == pdu[a].frames
<1>1. /\ out \in Seq(Frames) /\ f \in Seq(Frames) /\ n = k
      /\ k = Len(out) => f = out
      /\ \A i \in 1..k : f[i].final => i = Len(out)
      /\ fs # <<>> => out # <<>> /\ out[Len(out)].final
  BY SentIs
<1>2. out = Envelope(a) \o fs /\ Envelope(a) \in Seq(Frames)
      /\ DataUpTo(Envelope(a), Len(Envelope(a))) = EnvelopeData(a)
  BY OutgoingIs
<1>3. fs \in Seq(Frames)
  BY SoundPdu
<1>4. k \in 0..Len(out) /\ Len(out) \in Nat /\ k \in Nat
  BY <1>1, LenProperties
<1> HIDE DEF out, f, fs
<1>5. \A i \in 1..n : f[i].final => i = n
  <2> SUFFICES ASSUME NEW i \in 1..n, f[i].final PROVE i = n
    OBVIOUS
  <2>1. i \in 1..k /\ i = Len(out)
    BY <1>1
  <2> QED
    BY <1>1, <1>4, <2>1
<1>6. flushed = FlushedAt(a, rest, f, n)
  BY <1>1, <1>5, FlushedIs
<1>7. flushed = IF n # 0 /\ f[n].final THEN [routed |-> Routed(a, all), rest |-> <<>>]
                                       ELSE [routed |-> <<>>, rest |-> all]
  BY <1>6 DEF FlushedAt
<1> HIDE DEF flushed
<1>8. n = 0 => all = rest
  <2> SUFFICES ASSUME n = 0 PROVE all = rest
    OBVIOUS
  <2>1. DataUpTo(f, 0) = <<>>
    BY DEF DataUpTo
  <2>2. rest \o <<>> = rest
    BY ConcatEmptySeq
  <2> QED
    BY <2>1, <2>2
<1>9. n # 0 => all \in Seq(Wire) /\ all # <<>>
  <2> SUFFICES ASSUME n # 0 PROVE all \in Seq(Wire) /\ all # <<>>
    OBVIOUS
  <2>1. n \in 1..Len(f)
    BY <1>1, <1>4
  <2> QED
    BY <1>1, <2>1, DataUpToGrows
<1>10. flushed.rest \in Seq(Wire) /\ flushed.routed \in Seq(Seq(Wire))
  <2> HIDE DEF all
  <2>1. n # 0 => Routed(a, all) \in Seq(Seq(Wire))
    BY <1>9, RoutedType
  <2>2. all \in Seq(Wire)
    BY <1>8, <1>9
  <2> HIDE DEF n
  <2>3. CASE n # 0 /\ f[n].final
    BY <1>7, <2>1, <2>3
  <2>4. CASE ~(n # 0 /\ f[n].final)
    <3>1. flushed = [routed |-> <<>>, rest |-> all]
      BY <1>7, <2>4
    <3>2. <<>> \in Seq(Seq(Wire))
      BY EmptySeq
    <3> QED
      BY <2>2, <3>1, <3>2
  <2> QED
    BY <2>3, <2>4
<1>11. ASSUME k = 0 PROVE flushed.rest = rest /\ flushed.routed = <<>>
  BY <1>1, <1>7, <1>8, <1>11
<1>12. ASSUME k = Len(out), fs # <<>>, rest = <<>>
       PROVE  flushed.rest = <<>> /\ flushed.routed = Routed(a, EnvelopeData(a) \o DataOf(fs))
  <2>1. f = out /\ out # <<>> /\ out[Len(out)].final /\ n = Len(out)
    BY <1>1, <1>12
  <2>2. n # 0
    <3>1. Len(out) # 0
      BY <1>1, <2>1, EmptySeq
    <3> QED
      BY <2>1, <3>1
  <2>3. DataUpTo(out, Len(out)) = EnvelopeData(a) \o DataOf(fs)
    BY <1>2, <1>3, DataJoined, DataOfIs
  <2>4. EnvelopeData(a) \in Seq(Wire) /\ DataOf(fs) \in Seq(Wire)
    BY <1>2, <1>3, DataJoined, DataOfIs
  <2>5. all = EnvelopeData(a) \o DataOf(fs)
    <3> DEFINE x == DataUpTo(out, Len(out))
    <3>1. x \in Seq(Wire)
      BY <2>3, <2>4, ConcatProperties
    <3>2. all = <<>> \o x
      BY <1>12, <2>1
    <3> HIDE DEF x
    <3>3. <<>> \o x = x
      BY <3>1, ConcatEmptySeq
    <3> QED
      BY <2>3, <3>2, <3>3 DEF x
  <2>6. f[n].final
    BY <2>1
  <2> HIDE DEF all, n
  <2>7. flushed = [routed |-> Routed(a, all), rest |-> <<>>]
    BY <1>7, <2>2, <2>6
  <2> QED
    BY <2>5, <2>7
<1> QED
  BY <1>10, <1>11, <1>12 DEF flushed, f, out, fs

\* Frames that were sent are empty, and end the message or not as before.
LEMMA BlankedSound ==
  ASSUME NEW frames, WellFramed(frames), NEW b \in Nat, NEW k \in Nat
  PROVE  WellFramed([i \in DOMAIN frames |-> IF b + i <= k THEN [frames[i] EXCEPT !.data = ""] ELSE frames[i]])
<1> DEFINE l == Len(frames)
           nil == ""
           G(i) == IF b + i <= k THEN [frames[i] EXCEPT !.data = nil] ELSE frames[i]
           g == [i \in 1..l |-> G(i)]
<1>1. l \in Nat /\ DOMAIN frames = 1..l /\ nil \in Wire
  BY LenProperties, NamesDiffer DEF WellFramed
<1> HIDE DEF nil
<1>2. \A i \in 1..l : G(i) \in Frames /\ G(i).final = frames[i].final
  <2> SUFFICES ASSUME NEW i \in 1..l PROVE G(i) \in Frames /\ G(i).final = frames[i].final
    OBVIOUS
  <2>1. frames[i] \in Frames
    BY ElementOfSeq DEF WellFramed
  <2>2. [frames[i] EXCEPT !.data = nil] = [data |-> nil, final |-> frames[i].final]
    <3> DEFINE f == TRUE
    <3>1. f \in BOOLEAN
      OBVIOUS
    <3> HIDE DEF f
    <3> QED
      BY <2>1, <3>1, OtherFields
  <2>3. frames[i].final \in BOOLEAN
    BY <2>1 DEF Frames
  <2>4. [data |-> nil, final |-> frames[i].final] \in Frames
    BY <1>1, <2>3 DEF Frames
  <2> QED
    BY <2>1, <2>2, <2>4
<1> HIDE DEF G
<1>3. g \in Seq(Frames) /\ Len(g) = l /\ \A i \in 1..l : g[i] = G(i)
  BY <1>1, <1>2
<1>4. \A i \in 1..l : frames[i].final <=> i = l
  BY DEF WellFramed
<1> HIDE DEF g
<1>5. WellFramed(g)
  BY <1>2, <1>3, <1>4 DEF WellFramed
<1> QED
  BY <1>1, <1>5 DEF g, G, nil

\* A whole message, and what it should say, go on one queue together.
LEMMA OneMoreSaid ==
  ASSUME NEW b, NEW ms \in Seq(Seq(Wire)), NEW xs \in Seq(Meanings), AllSay(b, ms, xs),
         NEW m \in Seq(Wire), NEW x \in Meanings, Says(b, m, x)
  PROVE  AllSay(b, ms \o <<m>>, xs \o <<x>>)
<1> DEFINE n == Len(ms)
           o == <<m>>
           p == <<x>>
           y == ms \o o
           z == xs \o p
<1>1. n \in Nat /\ Len(xs) = n /\ \A i \in 1..n : Says(b, ms[i], xs[i])
  BY LenProperties DEF AllSay
<1>2. o \in Seq(Seq(Wire)) /\ Len(o) = 1 /\ o[1] = m /\ p \in Seq(Meanings) /\ Len(p) = 1 /\ p[1] = x
  OBVIOUS
<1> HIDE DEF o, p
<1>3. Len(y) = n + 1 /\ \A i \in 1..n + 1 : y[i] = IF i <= n THEN ms[i] ELSE o[i - n]
  <2>1. /\ Len(ms \o o) = Len(ms) + Len(o)
        /\ \A i \in 1..Len(ms) + Len(o) : (ms \o o)[i] = IF i <= Len(ms) THEN ms[i] ELSE o[i - Len(ms)]
    BY <1>2, ConcatProperties
  <2> HIDE DEF y
  <2> QED
    BY <1>2, <2>1 DEF y
<1>4. Len(z) = n + 1 /\ \A i \in 1..n + 1 : z[i] = IF i <= n THEN xs[i] ELSE p[i - n]
  <2>1. /\ Len(xs \o p) = Len(xs) + Len(p)
        /\ \A i \in 1..Len(xs) + Len(p) : (xs \o p)[i] = IF i <= Len(xs) THEN xs[i] ELSE p[i - Len(xs)]
    BY <1>2, ConcatProperties
  <2> HIDE DEF z
  <2> QED
    BY <1>1, <1>2, <2>1 DEF z
<1> HIDE DEF y, z, n
<1>5. \A i \in 1..n + 1 : Says(b, y[i], z[i])
  <2> SUFFICES ASSUME NEW i \in 1..n + 1 PROVE Says(b, y[i], z[i])
    OBVIOUS
  <2>1. CASE i <= n
    <3>1. i \in 1..n
      BY <1>1, <2>1
    <3>2. y[i] = ms[i] /\ z[i] = xs[i]
      BY <1>3, <1>4, <2>1
    <3> QED
      BY <1>1, <3>1, <3>2
  <2>2. CASE ~(i <= n)
    <3>1. i - n = 1
      BY <1>1, <2>2
    <3>2. y[i] = m /\ z[i] = x
      BY <1>2, <1>3, <1>4, <2>2, <3>1
    <3> QED
      BY <3>2
  <2> QED
    BY <2>1, <2>2
<1> QED
  BY <1>3, <1>4, <1>5 DEF AllSay, y, z, o, p

\* A whole PDU and its text are queued together, and a peer that sends less is
\* spoiled from then on.
LEMMA SendKeeps ==
  ASSUME PduInv, NEW a \in Peers, NEW k \in 0..MaxFrames + 2, PduSend(a, k)
  PROVE  PduInv'
<1> DEFINE p == pdu[a]
           b == Other(a)
           out == Outgoing(a)
           flushed == Flushed(a, partial[a], SubSeq(out, 1, k))
           before == Len(out) - Len(p.frames)
           text == [frames |-> DataOf(p.frames), address |-> p.address]
           gets == k = Len(out) /\ p.frames # <<>> /\ ~(Socket(a) = "ROUTER" /\ p.address # ClientId)
           more == IF gets THEN <<text>> ELSE <<>>
           blanked == [i \in DOMAIN p.frames |-> IF before + i <= k
                         THEN [p.frames[i] EXCEPT !.data = ""] ELSE p.frames[i]]
           addr == IF k >= 1 /\ before = 2 /\ p.address # NULL THEN "" ELSE p.address
           q == [p EXCEPT !.address = addr, !.frames = blanked]
<1>1. /\ PduTypes /\ Kept /\ p \in SoundPdus /\ Socket(a) # "SUB" /\ b \in Peers
      /\ pattern \in {"dealer", "publish"} /\ partial[a] \in Seq(Wire)
      /\ queue[b] \in Seq(Seq(Wire)) /\ intended[b] \in Seq(Meanings)
  <2>1. b \in Peers
    BY PeersAre
  <2> QED
    BY <2>1 DEF PduInv, PduTypes, PduSend
<1>2. k \in 0..Len(out) /\ k \in Nat
  <2>1. Len(out) \in Nat
    BY <1>1, OutgoingIs, SoundPdu, ConcatProperties, LenProperties
  <2>2. k <= Len(out) /\ MaxFrames \in Nat
    BY PduAssumption DEF PduSend
  <2> QED
    BY <2>1, <2>2
<1>3. /\ pattern' = pattern
      /\ partial' = [partial EXCEPT ![a] = flushed.rest]
      /\ queue' = [queue EXCEPT ![b] = @ \o flushed.routed]
      /\ intended' = [intended EXCEPT ![b] = @ \o more]
      /\ spoiled' = IF k = 0 \/ (k = Len(out) /\ p.frames # <<>>) THEN spoiled ELSE spoiled \cup {a}
      /\ pdu' = [pdu EXCEPT ![a] = q]
  BY DEF PduSend
<1>4. /\ flushed.rest \in Seq(Wire) /\ flushed.routed \in Seq(Seq(Wire))
      /\ k = 0 => flushed.rest = partial[a] /\ flushed.routed = <<>>
      /\ k = Len(out) /\ p.frames # <<>> /\ partial[a] = <<>> =>
           /\ flushed.rest = <<>>
           /\ flushed.routed = Routed(a, EnvelopeData(a) \o DataOf(p.frames))
  BY <1>1, <1>2, FlushedSends
<1>5. before \in Nat /\ (p.frames # <<>> => out # <<>>) /\ Len(out) \in Nat
  <2>1. /\ Len(out) = Len(Envelope(a)) + Len(p.frames) /\ (p.frames # <<>> => out # <<>>)
        /\ Len(Envelope(a)) \in Nat /\ Len(p.frames) \in Nat
    BY <1>1, <1>2, OutgoingIs, SentIs, SoundPdu, LenProperties
  <2> HIDE DEF out, p
  <2> QED
    BY <2>1
<1>6. q \in SoundPdus
  <2>1. addr \in Wire \cup {NULL}
    BY <1>1, SoundPdu, NamesDiffer
  <2> HIDE DEF before
  <2>2. WellFramed(blanked)
    BY <1>1, <1>2, <1>5, SoundPdu, BlankedSound
  <2> HIDE DEF addr, blanked
  <2>3. q = [address |-> addr, frames |-> blanked]
    BY <1>1, BothFields
  <2> QED
    BY <2>1, <2>2, <2>3, MadeSound
<1>7. text \in Meanings /\ text.frames = DataOf(p.frames)
  BY <1>1, SoundPdu, DataOfIs DEF Meanings
<1> HIDE DEF text, flushed, q, before
<1>8. more \in Seq(Meanings)
  BY <1>7
<1> HIDE DEF b
<1>9. PduTypes'
  <2> HIDE DEF more
  <2>1. pdu' \in [Peers -> SoundPdus \cup {NULL}]
    BY <1>1, <1>3, <1>6 DEF PduTypes
  <2>2. partial' \in [Peers -> Seq(Wire)]
    BY <1>1, <1>3, <1>4 DEF PduTypes
  <2>3. queue' \in [Peers -> Seq(Seq(Wire))]
    <3>1. queue[b] \o flushed.routed \in Seq(Seq(Wire))
      BY <1>1, <1>4, ConcatProperties
    <3> QED
      BY <1>1, <1>3, <3>1 DEF PduTypes
  <2>4. intended' \in [Peers -> Seq(Meanings)]
    <3>1. intended[b] \o more \in Seq(Meanings)
      BY <1>1, <1>8, ConcatProperties
    <3> QED
      BY <1>1, <1>3, <3>1 DEF PduTypes
  <2> QED
    BY <1>1, <1>3, <2>1, <2>2, <2>3, <2>4 DEF PduTypes, Meanings, SoundPdus
<1>10. ASSUME NEW c \in Peers, c \notin spoiled'
       PROVE  partial'[c] = <<>> /\ AllSay(Other(c), queue'[Other(c)], intended'[Other(c)])
  <2>1. c \notin spoiled
    BY <1>3, <1>10
  <2>2. partial[c] = <<>> /\ AllSay(Other(c), queue[Other(c)], intended[Other(c)])
    BY <1>1, <1>10, <2>1 DEF Kept
  <2>3. CASE c # a
    <3>1. Other(c) # b /\ Other(c) \in Peers
      BY <1>10, <2>3, PeersAre DEF b
    <3>2. queue'[Other(c)] = queue[Other(c)] /\ intended'[Other(c)] = intended[Other(c)] /\ partial'[c] = partial[c]
      BY <1>1, <1>3, <1>10, <2>3, <3>1 DEF PduTypes
    <3> QED
      BY <2>2, <3>2
  <2>4. CASE c = a /\ k = 0
    <3>1. ~gets
      <4>1. p.frames # <<>> => Len(out) # 0
        BY <1>2, <1>5, EmptySeq
      <4> QED
        BY <2>4, <4>1
    <3>2. queue'[b] = queue[b] \o <<>> /\ intended'[b] = intended[b] \o <<>> /\ partial'[a] = partial[a]
      BY <1>1, <1>3, <1>4, <2>4, <3>1 DEF PduTypes
    <3>3. queue[b] \o <<>> = queue[b] /\ intended[b] \o <<>> = intended[b]
      BY <1>1, ConcatEmptySeq
    <3> QED
      BY <2>2, <2>4, <3>2, <3>3 DEF b
  <2>5. CASE c = a /\ k # 0
    <3>1. k = Len(out) /\ p.frames # <<>>
      BY <1>3, <1>10, <2>5
    <3>2. flushed.rest = <<>> /\ flushed.routed = Routed(a, EnvelopeData(a) \o DataOf(p.frames))
      BY <1>4, <2>2, <2>5, <3>1
    <3>3. IF Socket(a) = "ROUTER" /\ p.address # ClientId
            THEN flushed.routed = <<>>
            ELSE \E m \in Seq(Wire) : flushed.routed = <<m>> /\ Says(b, m, text)
      <4> DEFINE r == Routed(a, EnvelopeData(a) \o DataOf(p.frames))
      <4>1. IF Socket(a) = "ROUTER" /\ p.address # ClientId THEN r = <<>>
            ELSE \E m \in Seq(Wire) : r = <<m>> /\ Says(Other(a), m, text)
        BY <1>1, RoutedRight DEF text
      <4> HIDE DEF r
      <4>2. flushed.routed = r
        BY <3>2 DEF r
      <4> QED
        BY <4>1, <4>2 DEF b
    <3>4. queue'[b] = queue[b] \o flushed.routed /\ intended'[b] = intended[b] \o more /\ partial'[a] = <<>>
      BY <1>1, <1>3, <3>2 DEF PduTypes
    <3>5. AllSay(b, queue[b], intended[b])
      BY <2>2, <2>5 DEF b
    <3>6. CASE Socket(a) = "ROUTER" /\ p.address # ClientId
      <4>1. queue[b] \o <<>> = queue[b] /\ intended[b] \o <<>> = intended[b]
        BY <1>1, ConcatEmptySeq
      <4>2. queue'[b] = queue[b] /\ intended'[b] = intended[b]
        BY <3>3, <3>4, <3>6, <4>1
      <4> QED
        BY <2>5, <3>4, <3>5, <4>2 DEF b
    <3>7. CASE ~(Socket(a) = "ROUTER" /\ p.address # ClientId)
      <4>1. PICK m \in Seq(Wire) : flushed.routed = <<m>> /\ Says(b, m, text)
        BY <3>3, <3>7
      <4>2. more = <<text>>
        BY <3>1, <3>7
      <4>3. AllSay(b, queue[b] \o <<m>>, intended[b] \o <<text>>)
        BY <1>1, <1>7, <3>5, <4>1, OneMoreSaid
      <4>4. queue'[b] = queue[b] \o <<m>> /\ intended'[b] = intended[b] \o <<text>>
        BY <3>4, <4>1, <4>2
      <4> QED
        BY <2>5, <3>4, <4>3, <4>4 DEF b
    <3> QED
      BY <3>6, <3>7
  <2> QED
    BY <2>3, <2>4, <2>5
<1>11. Kept'
  <2> SUFFICES ASSUME NEW c \in Peers, c \notin spoiled'
               PROVE  partial'[c] = <<>> /\ AllSay(Other(c), queue[Other(c)], intended[Other(c)])'
    BY DEF Kept, Peers, Other
  <2>1. partial'[c] = <<>> /\ AllSay(Other(c), queue'[Other(c)], intended'[Other(c)])
    BY <1>10
  <2>2. AllSay(Other(c), queue[Other(c)], intended[Other(c)])' <=> AllSay(Other(c), queue'[Other(c)], intended'[Other(c)])
    BY <1>3 DEF AllSay, Says, Socket, Other, Peers
  <2> QED
    BY <2>1, <2>2
<1> QED
  BY <1>9, <1>11 DEF PduInv

-----------------------------------------------------------------------------
(* The theorem                                                             *)

\* Every action leaves the invariant true.
LEMMA PduKeeps ==
  ASSUME PduInv, [PduNext]_pduVars
  PROVE  PduInv'
<1>1. CASE UNCHANGED pduVars
  <2>1. PduTypes'
    BY <1>1 DEF PduInv, PduTypes, pduVars, Meanings, SoundPdus
  <2>2. Kept'
    BY <1>1 DEF PduInv, Kept, pduVars, AllSay, Says, Socket
  <2> QED
    BY <2>1, <2>2 DEF PduInv
<1>2. CASE PduNext
  <2>1. PICK a \in Peers :
          \/ PduNew(a) \/ PduFree(a) \/ PduRecv(a)
          \/ \E d \in Data : PduMake(a, d) \/ PduExtend(a, d) \/ PduReply(a, d)
          \/ \E t \in {NULL} \cup Data, start \in 1..2, n \in 0..1 : PduDup(a, t, start, n)
          \/ \E peer \in {ClientId, "illegal"} : PduAttn(a, peer)
          \/ \E k \in 0..MaxFrames + 2 : PduSend(a, k)
    BY <1>2 DEF PduNext
  <2> QED
    BY <2>1, BuildKeeps, DupKeeps, RecvKeeps, SendKeeps
<1> QED
  BY <1>1, <1>2

\* What a peer receives is what the other's PDU said when it was sent, from the
\* client that sent it, and no assertion fails, unless the other has sent a PDU
\* in part or with no frames, or a client gave its own an address; and every
\* PDU is one message (src/mq.c:393-407, 477-550).
THEOREM MessagesRight == PduSpec => PduRight
<1> DEFINE Right == /\ OneFinal'
                    /\ \A a \in Peers : PduRecv(a) /\ Other(a) \notin spoiled =>
                         \/ Socket(a) = "ROUTER" /\ Head(intended[a]).address # NULL
                         \/ /\ intended[a] # <<>> /\ a \notin crashed'
                            /\ DataOf(pdu[a]'.frames) = Head(intended[a]).frames
                            /\ pdu[a]'.address = IF Socket(a) = "ROUTER" THEN ClientId ELSE NULL
<1>1. PduInit => PduInv
  BY PduStart
<1>2. PduInv /\ [PduNext]_pduVars => PduInv'
  BY PduKeeps
<1>3. PduInv' => OneFinal'
  <2> SUFFICES ASSUME PduInv', NEW a \in Peers, pdu'[a] # NULL
               PROVE  \A i \in DOMAIN pdu'[a].frames : pdu'[a].frames[i].final <=> i = Len(pdu'[a].frames)
    BY DEF OneFinal, Peers
  <2> DEFINE p == pdu'[a]
  <2>1. pdu' \in [Peers -> SoundPdus \cup {NULL}]
    BY DEF PduInv, PduTypes, SoundPdus
  <2>2. p \in SoundPdus
    BY <2>1
  <2> HIDE DEF p
  <2>3. p.frames \in Seq(Frames) /\ WellFramed(p.frames)
    BY <2>2, SoundPdu
  <2>4. DOMAIN p.frames = 1..Len(p.frames)
    BY <2>3, LenProperties
  <2> QED
    BY <2>3, <2>4 DEF WellFramed, p
<1>4. PduInv /\ PduInv' => Right
  BY <1>3, RecvRight
<1>5. PduInv /\ PduInv' => [Right]_pduVars
  BY <1>4
<1> HIDE DEF Right
<1>6. PduSpec => [][Right]_pduVars
  BY <1>1, <1>2, <1>5, PTL DEF PduSpec
<1> QED
  BY <1>6 DEF PduRight, Right

-----------------------------------------------------------------------------
(* Addresses                                                               *)

\* What is sent behind an envelope begins with an address or an empty frame;
\* behind the name of the client comes another of them.
Enveloped(m) ==
  /\ Len(m) >= 1 => m[1] \in Addresses
  /\ Len(m) >= 2 /\ m[1] = ClientId => m[2] \in Addresses

\* A ROUTER receives messages that ZeroMQ has put the client's name in front
\* of, a DEALER those that had it taken off, and a publisher none.
Arrives(b, m) ==
  /\ Socket(b) # "PUB"
  /\ Socket(b) = "ROUTER" => Len(m) >= 1 /\ m[1] = ClientId
  /\ Socket(b) = "DEALER" => (Len(m) >= 1 => m[1] \in Addresses)

\* Every address in hand, or in front of what is on its way, is one that a
\* peer can have.
AddressesKnown ==
  /\ crashed \subseteq Peers /\ spoiled \subseteq Peers
  /\ \A a \in Peers : pdu[a] # NULL => pdu[a].address \in Addresses \cup {NULL}
  /\ \A a \in Peers : \A i \in 1..Len(intended[a]) : intended[a][i].address \in Addresses \cup {NULL}
  /\ \A a \in Peers : Socket(a) # "PUB" => Enveloped(partial[a])
  /\ \A a \in Peers : \A i \in 1..Len(queue[a]) : Arrives(a, queue[a][i])

LEMMA AddressesAre ==
  /\ "" \in Addresses /\ ClientId \in Addresses /\ Addresses \subseteq Wire
  /\ "" # ClientId /\ ClientId # NULL /\ NULL # ""
BY NamesDiffer DEF Addresses, Wire

LEMMA AddressesStart == PduInit => AddressesKnown
<1> SUFFICES ASSUME PduInit PROVE AddressesKnown
  OBVIOUS
<1> DEFINE none == <<>>
<1>1. \A a \in Peers : pdu[a] = NULL /\ partial[a] = none /\ queue[a] = none /\ intended[a] = none
  BY DEF PduInit
<1>2. Len(none) = 0
  BY EmptySeq
<1> HIDE DEF none
<1>3. crashed = {} /\ spoiled = {}
  BY DEF PduInit
<1> QED
  BY <1>1, <1>2, <1>3 DEF AddressesKnown, Enveloped

\* Callers give a PDU no other address than a peer's.
LEMMA HoldAddresses ==
  ASSUME PduInv, AddressesKnown, NEW a \in Peers, NEW p, Hold(a, p),
         p # NULL => p.address \in Addresses \cup {NULL}
  PROVE  AddressesKnown'
<1>1. pdu \in [Peers -> SoundPdus \cup {NULL}]
  BY DEF PduInv, PduTypes
<1>2. UNCHANGED <<pattern, partial, queue, crashed, intended, spoiled>> /\ pdu' = [pdu EXCEPT ![a] = p]
  BY DEF Hold
<1>3. \A b \in Peers : pdu'[b] # NULL => pdu'[b].address \in Addresses \cup {NULL}
  BY <1>1, <1>2 DEF AddressesKnown
<1> QED
  BY <1>2, <1>3 DEF AddressesKnown, Enveloped, Arrives, Socket, Peers, Addresses

LEMMA BuildAddresses ==
  ASSUME PduInv, AddressesKnown, NEW a \in Peers,
         \/ PduNew(a) \/ PduFree(a)
         \/ \E d \in Data : PduMake(a, d) \/ PduExtend(a, d) \/ PduReply(a, d)
         \/ \E t \in {NULL} \cup Data, start \in 1..2, n \in 0..1 : PduDup(a, t, start, n)
         \/ \E peer \in {ClientId, "illegal"} : PduAttn(a, peer)
  PROVE  AddressesKnown'
<1> DEFINE p == pdu[a]
<1>1. pdu[a] \in SoundPdus \cup {NULL}
  BY DEF PduInv, PduTypes
<1>2. NewPdu.address = NULL /\ \A f : [NewPdu EXCEPT !.frames = f].address = NULL
  BY DEF NewPdu
<1>3. ASSUME NEW x, NEW f PROVE [NewPdu EXCEPT !.address = x, !.frames = f].address = x
  BY DEF NewPdu
<1>4. p # NULL => p.address \in Addresses \cup {NULL}
  BY DEF AddressesKnown
<1>5. ASSUME PduNew(a) \/ PduFree(a) PROVE AddressesKnown'
  BY <1>2, <1>5, HoldAddresses DEF PduNew, PduFree
<1>6. ASSUME NEW d \in Data, PduMake(a, d) PROVE AddressesKnown'
  BY <1>2, <1>6, HoldAddresses DEF PduMake
<1>7. ASSUME NEW d \in Data, PduExtend(a, d) PROVE AddressesKnown'
  <2> DEFINE q == [p EXCEPT !.frames = Extended(@, d)]
  <2>1. q.address = p.address /\ p # NULL
    BY <1>1, <1>7 DEF PduExtend, SoundPdus
  <2>2. Hold(a, q)
    BY <1>7 DEF PduExtend
  <2> HIDE DEF q
  <2> QED
    BY <1>4, <2>1, <2>2, HoldAddresses
<1>8. ASSUME NEW d \in Data, PduReply(a, d) PROVE AddressesKnown'
  <2> DEFINE f == Extended(<<>>, d)
             q == [NewPdu EXCEPT !.address = p.address, !.frames = f]
  <2>1. Hold(a, q) /\ p # NULL
    BY <1>8 DEF PduReply
  <2> HIDE DEF f
  <2>2. q.address = p.address
    BY <1>3
  <2> HIDE DEF q
  <2> QED
    BY <1>4, <2>1, <2>2, HoldAddresses
<1>9. ASSUME NEW t \in {NULL} \cup Data, NEW start \in 1..2, NEW n \in 0..1, PduDup(a, t, start, n)
      PROVE  AddressesKnown'
  <2> DEFINE f == Copied(Extended(<<>>, IF t = NULL THEN p.frames[1].data ELSE t), p.frames, start, n)
             q == [NewPdu EXCEPT !.frames = f]
  <2>1. Hold(a, q)
    BY <1>9 DEF PduDup
  <2> HIDE DEF f
  <2>2. q.address = NULL
    BY <1>2
  <2> HIDE DEF q
  <2> QED
    BY <2>1, <2>2, HoldAddresses
<1>10. ASSUME NEW peer \in {ClientId, "illegal"}, PduAttn(a, peer) PROVE AddressesKnown'
  <2> DEFINE q == [p EXCEPT !.address = IF peer = "illegal" THEN @ ELSE peer]
  <2>1. Hold(a, q) /\ p # NULL
    BY <1>10 DEF PduAttn
  <2>2. q.address = IF peer = "illegal" THEN p.address ELSE peer
    BY <1>1, <2>1 DEF SoundPdus
  <2> HIDE DEF q
  <2>3. q.address \in Addresses \cup {NULL}
    BY <1>4, <2>1, <2>2, AddressesAre
  <2> QED
    BY <2>1, <2>3, HoldAddresses
<1> QED
  BY <1>5, <1>6, <1>7, <1>8, <1>9, <1>10

\* The address of what is received stood in front of its first empty frame.
LEMMA RecvAddresses ==
  ASSUME PduInv, AddressesKnown, NEW a \in Peers, PduRecv(a)
  PROVE  AddressesKnown'
<1> DEFINE m == Head(queue[a])
           b == Blank(m)
           x == IF b = 2 THEN m[1] ELSE NULL
<1>1. PduTypes /\ queue[a] \in Seq(Seq(Wire)) /\ queue[a] # <<>> /\ intended[a] \in Seq(Meanings)
  BY DEF PduInv, PduTypes, PduRecv
<1>2. /\ m = queue[a][1] /\ m \in Seq(Wire) /\ Len(queue[a]) \in Nat /\ 1 \in 1..Len(queue[a])
      /\ Len(Tail(queue[a])) = Len(queue[a]) - 1
      /\ \A i \in 1..Len(queue[a]) - 1 : Tail(queue[a])[i] = queue[a][i + 1]
  <2>1. Len(queue[a]) # 0 /\ Len(queue[a]) \in Nat
    BY <1>1, EmptySeq, LenProperties
  <2>2. 1 \in 1..Len(queue[a])
    BY <2>1
  <2> QED
    BY <1>1, <2>1, <2>2, HeadTailProperties
<1>3. Arrives(a, m)
  BY <1>2 DEF AddressesKnown
<1>4. \A c \in Peers : pdu'[c] # NULL => pdu'[c].address \in Addresses \cup {NULL}
  <2>1. CASE Socket(a) = "SUB"
    <3> DEFINE f == ExtendedBy(<<>>, m)
               q == [NewPdu EXCEPT !.frames = f]
    <3>1. pdu' = [pdu EXCEPT ![a] = q]
      BY <2>1 DEF PduRecv
    <3> HIDE DEF f
    <3>2. q.address = NULL
      BY DEF NewPdu
    <3> HIDE DEF q
    <3> QED
      BY <1>1, <3>1, <3>2 DEF PduTypes, AddressesKnown
  <2>2. CASE Socket(a) # "SUB" /\ b > 2
    <3>1. pdu' = pdu
      BY <2>2 DEF PduRecv, Blank
    <3> QED
      BY <3>1 DEF AddressesKnown
  <2>3. CASE Socket(a) # "SUB" /\ ~(b > 2)
    <3> DEFINE f == ExtendedBy(<<>>, SubSeq(m, b + 1, Len(m)))
               q == [NewPdu EXCEPT !.address = x, !.frames = f]
    <3>1. pdu' = [pdu EXCEPT ![a] = q]
      BY <2>3 DEF PduRecv, Blank
    <3> HIDE DEF f
    <3>2. b \in 1..Len(m) + 1 /\ Len(m) \in Nat
      BY <1>2, BlankIs, LenProperties
    <3>3. Socket(a) = "ROUTER" \/ Socket(a) = "DEALER" \/ Socket(a) = "PUB"
      BY <2>3 DEF Socket
    <3>4. x \in Addresses \cup {NULL}
      <4> SUFFICES ASSUME b = 2 PROVE m[1] \in Addresses
        OBVIOUS
      <4>1. Len(m) >= 1
        BY <3>2
      <4> QED
        BY <1>3, <3>3, <4>1, AddressesAre DEF Arrives
    <3> HIDE DEF x
    <3>5. q.address = x
      BY DEF NewPdu
    <3> HIDE DEF q
    <3> QED
      BY <1>1, <3>1, <3>4, <3>5 DEF PduTypes, AddressesKnown
  <2> QED
    BY <2>1, <2>2, <2>3
<1>5. \A c \in Peers : \A i \in 1..Len(queue'[c]) : Arrives(c, queue'[c][i])
  <2>1. queue' = [queue EXCEPT ![a] = Tail(@)] /\ queue \in [Peers -> Seq(Seq(Wire))]
    BY <1>1 DEF PduRecv, PduTypes
  <2>2. \A i \in 1..Len(Tail(queue[a])) : i + 1 \in 1..Len(queue[a]) /\ Tail(queue[a])[i] = queue[a][i + 1]
    BY <1>2
  <2> QED
    BY <2>1, <2>2 DEF AddressesKnown
<1>6. \A c \in Peers : \A i \in 1..Len(intended'[c]) : intended'[c][i].address \in Addresses \cup {NULL}
  <2> DEFINE t == Tail(intended[a])
  <2>1. intended' = [intended EXCEPT ![a] = IF @ = <<>> THEN @ ELSE t] /\ intended \in [Peers -> Seq(Meanings)]
    BY <1>1 DEF PduRecv, PduTypes
  <2>2. ASSUME intended[a] # <<>>
        PROVE  \A i \in 1..Len(t) : i + 1 \in 1..Len(intended[a]) /\ t[i] = intended[a][i + 1]
    <3>1. Len(t) = Len(intended[a]) - 1 /\ Len(intended[a]) \in Nat
          /\ \A i \in 1..Len(intended[a]) - 1 : t[i] = intended[a][i + 1]
      BY <1>1, <2>2, HeadTailProperties, LenProperties
    <3> HIDE DEF t
    <3> QED
      BY <3>1
  <2> HIDE DEF t
  <2>3. intended'[a] = (IF intended[a] = <<>> THEN intended[a] ELSE t) /\ \A c \in Peers : c # a => intended'[c] = intended[c]
    BY <2>1
  <2> QED
    BY <2>2, <2>3 DEF AddressesKnown
<1>7. UNCHANGED <<pattern, partial, spoiled>> /\ crashed' \subseteq Peers
  BY DEF PduRecv, AddressesKnown
<1>8. \A c : Socket(c)' = Socket(c)
  BY <1>7 DEF Socket
<1> QED
  BY <1>4, <1>5, <1>6, <1>7, <1>8 DEF AddressesKnown, Enveloped, Arrives, Peers, Addresses, Socket

\* What pdu_send() sends is enveloped, but for a publisher's.
LEMMA OutgoingFront ==
  ASSUME NEW a, pdu[a] \in SoundPdus, pdu[a].address \in Addresses \cup {NULL}, Socket(a) # "PUB"
  PROVE  LET out == Outgoing(a)
         IN /\ out \in Seq(Frames) /\ Len(out) >= 1 /\ out[1].data \in Addresses
            /\ Len(out) >= 2 /\ out[1].data = ClientId => out[2].data \in Addresses
<1> DEFINE nil == ""
           n == <<More(nil)>>
           x == pdu[a].address
           m == <<More(x)>>
           fs == pdu[a].frames
           out == Outgoing(a)
<1>1. out = (IF x = NULL THEN n ELSE m \o n) \o fs
  <2>1. <<>> \o n = n
    BY DEF More
  <2> HIDE DEF n
  <2> QED
    BY <2>1 DEF Outgoing, More, n
<1>2. nil \in Addresses /\ nil \in Wire /\ nil # ClientId /\ fs \in Seq(Frames) /\ Addresses \subseteq Wire
  BY AddressesAre, SoundPdu
<1> HIDE DEF nil, x, fs
<1>3. n \in Seq(Frames) /\ Len(n) = 1 /\ n[1].data = nil
  BY <1>2, MoreIs DEF More
<1>4. CASE x = NULL
  <2> HIDE DEF n, out
  <2>1. out = n \o fs
    BY <1>1, <1>4
  <2>2. /\ out \in Seq(Frames) /\ Len(out) = 1 + Len(fs) /\ Len(fs) \in Nat
        /\ \A i \in 1..1 + Len(fs) : out[i] = IF i <= 1 THEN n[i] ELSE fs[i - 1]
    <3>1. /\ n \o fs \in Seq(Frames) /\ Len(n \o fs) = Len(n) + Len(fs)
          /\ \A i \in 1..Len(n) + Len(fs) : (n \o fs)[i] = IF i <= Len(n) THEN n[i] ELSE fs[i - Len(n)]
      BY <1>2, <1>3, ConcatProperties
    <3> QED
      BY <1>2, <1>3, <2>1, <3>1, LenProperties
  <2>3. out[1] = n[1]
    BY <2>2
  <2> QED
    BY <1>2, <1>3, <2>2, <2>3 DEF out
<1>5. CASE x # NULL
  <2>1. x \in Addresses /\ x \in Wire
    BY <1>2, <1>5 DEF x
  <2>2. m \in Seq(Frames) /\ Len(m) = 1 /\ m[1].data = x
    BY <2>1, MoreIs DEF More
  <2> HIDE DEF n, m, out
  <2> DEFINE e == m \o n
  <2>3. e \in Seq(Frames) /\ Len(e) = 2 /\ e[1] = m[1] /\ e[2] = n[1]
    <3>1. /\ m \o n \in Seq(Frames) /\ Len(m \o n) = Len(m) + Len(n)
          /\ \A i \in 1..Len(m) + Len(n) : (m \o n)[i] = IF i <= Len(m) THEN m[i] ELSE n[i - Len(m)]
      BY <1>3, <2>2, ConcatProperties
    <3> HIDE DEF e
    <3>2. e \in Seq(Frames) /\ Len(e) = 1 + 1 /\ \A i \in 1..1 + 1 : e[i] = IF i <= 1 THEN m[i] ELSE n[i - 1]
      BY <1>3, <2>2, <3>1 DEF e
    <3> QED
      BY <3>2
  <2>4. out = e \o fs
    BY <1>1, <1>5
  <2> HIDE DEF e
  <2>5. /\ out \in Seq(Frames) /\ Len(out) = 2 + Len(fs) /\ Len(fs) \in Nat
        /\ \A i \in 1..2 + Len(fs) : out[i] = IF i <= 2 THEN e[i] ELSE fs[i - 2]
    <3>1. /\ e \o fs \in Seq(Frames) /\ Len(e \o fs) = Len(e) + Len(fs)
          /\ \A i \in 1..Len(e) + Len(fs) : (e \o fs)[i] = IF i <= Len(e) THEN e[i] ELSE fs[i - Len(e)]
      BY <1>2, <2>3, ConcatProperties
    <3> QED
      BY <1>2, <2>3, <2>4, <3>1, LenProperties
  <2>6. out[1] = e[1] /\ out[2] = e[2]
    BY <2>5
  <2> QED
    BY <1>2, <1>3, <2>1, <2>2, <2>3, <2>5, <2>6 DEF out
<1> QED
  BY <1>4, <1>5

\* What is behind an envelope, if there is one, does not matter: what is left
\* on the socket is still enveloped, and what is routed arrives.
LEMMA FlushedAddresses ==
  ASSUME NEW a \in Peers, Socket(a) # "SUB", pattern \in {"dealer", "publish"}, pdu[a] \in SoundPdus,
         pdu[a].address \in Addresses \cup {NULL},
         NEW rest \in Seq(Wire), Socket(a) # "PUB" => Enveloped(rest), NEW k \in 0..Len(Outgoing(a))
  PROVE  LET flushed == Flushed(a, rest, SubSeq(Outgoing(a), 1, k))
         IN /\ Socket(a) # "PUB" => Enveloped(flushed.rest)
            /\ \A i \in 1..Len(flushed.routed) : Arrives(Other(a), flushed.routed[i])
<1> DEFINE out == Outgoing(a)
           f == SubSeq(out, 1, k)
           flushed == Flushed(a, rest, f)
           n == Len(f)
           x == DataUpTo(f, n)
           all == rest \o x
           none == <<>>
<1>1. /\ out \in Seq(Frames) /\ f \in Seq(Frames) /\ n = k
      /\ \A i \in 1..k : f[i] = out[i] /\ (f[i].final => i = Len(out))
  BY SentIs
<1>2. k \in 0..Len(out) /\ Len(out) \in Nat /\ k \in Nat
  BY <1>1, LenProperties
<1>3. Socket(a) # "PUB" => /\ Len(out) >= 1 /\ out[1].data \in Addresses
                           /\ Len(out) >= 2 /\ out[1].data = ClientId => out[2].data \in Addresses
  BY OutgoingFront
<1>4. \/ Socket(a) = "DEALER" /\ Socket(Other(a)) = "ROUTER"
      \/ Socket(a) = "ROUTER" /\ Socket(Other(a)) = "DEALER"
      \/ Socket(a) = "PUB" /\ Socket(Other(a)) = "SUB"
  <2>1. a = "client" \/ a = "server"
    BY DEF Peers
  <2> QED
    BY <2>1, PeersAre, SocketsAre
<1> HIDE DEF out, f
<1>5. \A i \in 1..n : f[i].final => i = n
  <2> SUFFICES ASSUME NEW i \in 1..n, f[i].final PROVE i = n
    OBVIOUS
  <2>1. i \in 1..k /\ i = Len(out)
    BY <1>1
  <2> QED
    BY <1>1, <1>2, <2>1
<1>6. flushed = IF n # 0 /\ f[n].final THEN [routed |-> Routed(a, all), rest |-> <<>>]
                                       ELSE [routed |-> <<>>, rest |-> all]
  BY <1>1, <1>5, FlushedIs DEF FlushedAt
<1>7. Len(none) = 0 /\ none = <<>>
  BY EmptySeq
<1> HIDE DEF none
<1>8. x \in Seq(Wire) /\ Len(x) = k /\ \A i \in 1..k : x[i] = out[i].data
  <2>1. \A i \in 1..k : f[i] \in Frames
    BY <1>1, ElementOfSeq
  <2>2. x = [i \in 1..k |-> f[i].data]
    BY <1>1 DEF DataUpTo
  <2>3. \A i \in 1..k : f[i].data \in Wire /\ f[i].data = out[i].data
    BY <1>1, <2>1 DEF Frames
  <2> HIDE DEF x
  <2> QED
    BY <1>2, <2>2, <2>3
<1> HIDE DEF x, flushed
<1> DEFINE r == Len(rest)
<1>9. /\ all \in Seq(Wire) /\ Len(all) = r + k /\ r \in Nat
      /\ \A i \in 1..r + k : all[i] = IF i <= r THEN rest[i] ELSE x[i - r]
  <2>1. /\ rest \o x \in Seq(Wire) /\ Len(rest \o x) = Len(rest) + Len(x)
        /\ \A i \in 1..Len(rest) + Len(x) : (rest \o x)[i] = IF i <= Len(rest) THEN rest[i] ELSE x[i - Len(rest)]
    BY <1>8, ConcatProperties
  <2> QED
    BY <1>8, <2>1, LenProperties
<1> HIDE DEF all
<1>10. Socket(a) # "PUB" => Enveloped(all)
  <2> SUFFICES ASSUME Socket(a) # "PUB" PROVE Enveloped(all)
    OBVIOUS
  <2>1. r >= 1 => rest[1] \in Addresses
    BY DEF Enveloped
  <2>2. r >= 2 /\ rest[1] = ClientId => rest[2] \in Addresses
    BY DEF Enveloped
  <2>3. k >= 1 => x[1] \in Addresses
    BY <1>2, <1>3, <1>8
  <2>4. k >= 2 /\ x[1] = ClientId => x[2] \in Addresses
    BY <1>2, <1>3, <1>8
  <2>5. CASE r = 0
    <3>1. \A i \in 1..k : all[i] = x[i]
      BY <1>2, <1>9, <2>5
    <3> QED
      BY <1>2, <1>9, <2>3, <2>4, <2>5, <3>1 DEF Enveloped
  <2>6. CASE r = 1
    <3>1. all[1] = rest[1] /\ (k >= 1 => all[2] = x[1])
      BY <1>2, <1>9, <2>6
    <3> QED
      BY <1>2, <1>9, <2>1, <2>3, <2>6, <3>1 DEF Enveloped
  <2>7. CASE r >= 2
    <3>1. all[1] = rest[1] /\ all[2] = rest[2]
      BY <1>2, <1>9, <2>7
    <3> QED
      BY <1>2, <1>9, <2>1, <2>2, <2>7, <3>1 DEF Enveloped
  <2>8. r \in Nat
    BY <1>9
  <2> HIDE DEF r
  <2> QED
    BY <2>5, <2>6, <2>7, <2>8
<1>11. CASE ~(n # 0 /\ f[n].final)
  <2>1. flushed.rest = all /\ flushed.routed = none
    BY <1>6, <1>7, <1>11
  <2> QED
    BY <1>7, <1>10, <2>1 DEF flushed, f, out
<1>12. CASE n # 0 /\ f[n].final
  <2>1. flushed.rest = none /\ flushed.routed = Routed(a, all)
    BY <1>6, <1>7, <1>12
  <2>2. Enveloped(none)
    BY <1>7 DEF Enveloped
  <2>3. all # <<>> /\ Len(all) >= 1
    <3>1. Len(all) >= 1
      BY <1>1, <1>2, <1>9, <1>12
    <3> QED
      BY <1>7, <3>1
  <2> DEFINE routed == Routed(a, all)
  <2>4. \A i \in 1..Len(routed) : Arrives(Other(a), routed[i])
    <3>1. CASE Socket(a) = "DEALER"
      <4> DEFINE y == <<ClientId>> \o all
      <4>1. y[1] = ClientId /\ Len(y) >= 1
        <5>1. ClientId \in Wire /\ all \in Seq(Wire) /\ Len(all) \in Nat
          BY <1>9, NamesDiffer, LenProperties
        <5>2. Len(y) = Len(all) + 1 /\ y[1] = ClientId
          BY <5>1, FirstOff
        <5> HIDE DEF y
        <5> QED
          BY <5>1, <5>2
      <4>2. routed = <<y>>
        BY <3>1 DEF Routed
      <4> HIDE DEF y, routed
      <4>3. Len(routed) = 1 /\ routed[1] = y
        BY <4>2
      <4>4. Arrives(Other(a), y)
        BY <1>4, <3>1, <4>1 DEF Arrives
      <4> QED
        BY <4>3, <4>4
    <3>2. CASE Socket(a) = "ROUTER" /\ all[1] = ClientId
      <4> DEFINE y == Tail(all)
      <4>1. Len(y) = Len(all) - 1 /\ \A i \in 1..Len(all) - 1 : y[i] = all[i + 1]
        BY <1>9, <2>3, HeadTailProperties
      <4>2. routed = <<y>>
        BY <3>2 DEF Routed
      <4> HIDE DEF y, routed
      <4>3. Len(routed) = 1 /\ routed[1] = y
        BY <4>2
      <4>4. Len(y) >= 1 => y[1] \in Addresses
        BY <1>2, <1>9, <1>10, <3>2, <4>1 DEF Enveloped
      <4>5. Arrives(Other(a), y)
        BY <1>4, <3>2, <4>4 DEF Arrives
      <4> QED
        BY <4>3, <4>5
    <3>3. CASE Socket(a) = "ROUTER" /\ all[1] # ClientId
      <4>1. routed = none
        BY <1>7, <3>3 DEF Routed
      <4> QED
        BY <1>7, <4>1
    <3>4. CASE Socket(a) = "PUB"
      <4>1. routed = <<all>>
        BY <3>4 DEF Routed
      <4> HIDE DEF routed
      <4>2. Len(routed) = 1 /\ routed[1] = all
        BY <4>1
      <4>3. Arrives(Other(a), all)
        BY <1>4, <3>4 DEF Arrives
      <4> QED
        BY <4>2, <4>3
    <3> QED
      BY <1>4, <3>1, <3>2, <3>3, <3>4
  <2> HIDE DEF routed
  <2> QED
    BY <2>1, <2>2, <2>4 DEF flushed, f, out, routed
<1> QED
  BY <1>11, <1>12

\* The address of what was sent is that of a peer, or was emptied with its frame.
LEMMA SendAddresses ==
  ASSUME PduInv, AddressesKnown, NEW a \in Peers, NEW k \in 0..MaxFrames + 2, PduSend(a, k)
  PROVE  AddressesKnown'
<1> DEFINE p == pdu[a]
           b == Other(a)
           out == Outgoing(a)
           flushed == Flushed(a, partial[a], SubSeq(out, 1, k))
           before == Len(out) - Len(p.frames)
           text == [frames |-> DataOf(p.frames), address |-> p.address]
           gets == k = Len(out) /\ p.frames # <<>> /\ ~(Socket(a) = "ROUTER" /\ p.address # ClientId)
           more == IF gets THEN <<text>> ELSE <<>>
           blanked == [i \in DOMAIN p.frames |-> IF before + i <= k
                         THEN [p.frames[i] EXCEPT !.data = ""] ELSE p.frames[i]]
           addr == IF k >= 1 /\ before = 2 /\ p.address # NULL THEN "" ELSE p.address
           q == [p EXCEPT !.address = addr, !.frames = blanked]
<1>1. /\ PduTypes /\ p \in SoundPdus /\ Socket(a) # "SUB" /\ b \in Peers
      /\ pattern \in {"dealer", "publish"} /\ partial[a] \in Seq(Wire)
      /\ queue[b] \in Seq(Seq(Wire)) /\ intended[b] \in Seq(Meanings)
      /\ p.address \in Addresses \cup {NULL} /\ (Socket(a) # "PUB" => Enveloped(partial[a]))
  <2>1. b \in Peers
    BY PeersAre
  <2> QED
    BY <2>1 DEF PduInv, PduTypes, PduSend, AddressesKnown
<1>2. k \in 0..Len(out) /\ k \in Nat
  <2>1. Len(out) \in Nat
    BY <1>1, OutgoingIs, SoundPdu, ConcatProperties, LenProperties
  <2>2. k <= Len(out) /\ MaxFrames \in Nat
    BY PduAssumption DEF PduSend
  <2> QED
    BY <2>1, <2>2
<1>3. /\ UNCHANGED <<pattern, crashed>>
      /\ partial' = [partial EXCEPT ![a] = flushed.rest]
      /\ queue' = [queue EXCEPT ![b] = @ \o flushed.routed]
      /\ intended' = [intended EXCEPT ![b] = @ \o more]
      /\ spoiled' = IF k = 0 \/ (k = Len(out) /\ p.frames # <<>>) THEN spoiled ELSE spoiled \cup {a}
      /\ pdu' = [pdu EXCEPT ![a] = q]
  BY DEF PduSend
<1>4. flushed.rest \in Seq(Wire) /\ flushed.routed \in Seq(Seq(Wire))
  BY <1>1, <1>2, FlushedSends
<1>5. /\ Socket(a) # "PUB" => Enveloped(flushed.rest)
      /\ \A i \in 1..Len(flushed.routed) : Arrives(b, flushed.routed[i])
  BY <1>1, <1>2, FlushedAddresses
<1>6. addr \in Addresses \cup {NULL}
  BY <1>1, AddressesAre
<1>7. q.address = addr
  <2> HIDE DEF addr, blanked
  <2>1. q = [address |-> addr, frames |-> blanked]
    BY <1>1, BothFields
  <2> QED
    BY <2>1
<1>8. text.address \in Addresses \cup {NULL} /\ text \in Meanings
  BY <1>1, SoundPdu, DataOfIs DEF Meanings
<1> HIDE DEF text
<1>9. more \in Seq(Meanings) /\ \A i \in 1..Len(more) : more[i].address \in Addresses \cup {NULL}
  <2>1. CASE gets
    <3>1. more = <<text>>
      BY <2>1
    <3> HIDE DEF more, gets
    <3> QED
      BY <1>8, <3>1
  <2>2. CASE ~gets
    <3>1. more = <<>> /\ Len(<<>>) = 0
      BY <2>2
    <3> HIDE DEF more, gets
    <3> QED
      BY <3>1
  <2> QED
    BY <2>1, <2>2
<1> HIDE DEF flushed, q, more, addr, before, b
<1>10. \A c \in Peers : pdu'[c] # NULL => pdu'[c].address \in Addresses \cup {NULL}
  BY <1>1, <1>3, <1>6, <1>7 DEF AddressesKnown, PduTypes
<1>11. \A c \in Peers : \A i \in 1..Len(intended'[c]) : intended'[c][i].address \in Addresses \cup {NULL}
  <2> DEFINE s == intended[b]
             t == s \o more
  <2>1. /\ Len(t) = Len(s) + Len(more) /\ Len(s) \in Nat /\ Len(more) \in Nat
        /\ \A i \in 1..Len(s) + Len(more) : t[i] = IF i <= Len(s) THEN s[i] ELSE more[i - Len(s)]
    BY <1>1, <1>9, ConcatProperties, LenProperties
  <2>2. \A i \in 1..Len(s) : s[i].address \in Addresses \cup {NULL}
    BY <1>1 DEF AddressesKnown
  <2>3. intended'[b] = t /\ \A c \in Peers : c # b => intended'[c] = intended[c]
    BY <1>1, <1>3 DEF PduTypes
  <2> HIDE DEF s, t
  <2>4. ASSUME NEW i \in 1..Len(t) PROVE t[i].address \in Addresses \cup {NULL}
    <3>1. CASE i <= Len(s)
      <4>1. i \in 1..Len(s) /\ t[i] = s[i]
        BY <2>1, <3>1
      <4> QED
        BY <2>2, <4>1
    <3>2. CASE ~(i <= Len(s))
      <4>1. i - Len(s) \in 1..Len(more) /\ t[i] = more[i - Len(s)]
        BY <2>1, <3>2
      <4> QED
        BY <1>9, <4>1
    <3> QED
      BY <3>1, <3>2
  <2> QED
    BY <2>3, <2>4 DEF AddressesKnown
<1>12. \A c \in Peers : \A i \in 1..Len(queue'[c]) : Arrives(c, queue'[c][i])
  <2> DEFINE s == queue[b]
             m == flushed.routed
             t == s \o m
  <2>1. /\ Len(t) = Len(s) + Len(m) /\ Len(s) \in Nat /\ Len(m) \in Nat
        /\ \A i \in 1..Len(s) + Len(m) : t[i] = IF i <= Len(s) THEN s[i] ELSE m[i - Len(s)]
    BY <1>1, <1>4, ConcatProperties, LenProperties
  <2>2. \A i \in 1..Len(s) : Arrives(b, s[i])
    BY <1>1 DEF AddressesKnown
  <2>3. queue'[b] = t /\ \A c \in Peers : c # b => queue'[c] = queue[c]
    BY <1>1, <1>3 DEF PduTypes
  <2>4. \A i \in 1..Len(m) : Arrives(b, m[i])
    BY <1>5
  <2> HIDE DEF s, t, m
  <2>5. ASSUME NEW i \in 1..Len(t) PROVE Arrives(b, t[i])
    <3>1. CASE i <= Len(s)
      <4>1. i \in 1..Len(s) /\ t[i] = s[i]
        BY <2>1, <3>1
      <4> QED
        BY <2>2, <4>1
    <3>2. CASE ~(i <= Len(s))
      <4>1. i - Len(s) \in 1..Len(m) /\ t[i] = m[i - Len(s)]
        BY <2>1, <3>2
      <4> QED
        BY <2>4, <4>1
    <3> QED
      BY <3>1, <3>2
  <2> QED
    BY <2>3, <2>5 DEF AddressesKnown
<1>13. \A c \in Peers : Socket(c) # "PUB" => Enveloped(partial'[c])
  BY <1>1, <1>3, <1>5 DEF AddressesKnown, PduTypes
<1>14. crashed' \subseteq Peers /\ spoiled' \subseteq Peers
  BY <1>3 DEF AddressesKnown
<1>15. \A c : Socket(c)' = Socket(c)
  BY <1>3 DEF Socket
<1> QED
  BY <1>10, <1>11, <1>12, <1>13, <1>14, <1>15 DEF AddressesKnown, Enveloped, Arrives, Peers, Addresses, Socket

LEMMA AddressesKept ==
  ASSUME PduInv, AddressesKnown, [PduNext]_pduVars
  PROVE  AddressesKnown'
<1>1. CASE UNCHANGED pduVars
  BY <1>1 DEF pduVars, AddressesKnown, Enveloped, Arrives, Socket, Peers, Addresses
<1>2. CASE PduNext
  <2>1. PICK a \in Peers :
          \/ PduNew(a) \/ PduFree(a) \/ PduRecv(a)
          \/ \E d \in Data : PduMake(a, d) \/ PduExtend(a, d) \/ PduReply(a, d)
          \/ \E t \in {NULL} \cup Data, start \in 1..2, n \in 0..1 : PduDup(a, t, start, n)
          \/ \E peer \in {ClientId, "illegal"} : PduAttn(a, peer)
          \/ \E k \in 0..MaxFrames + 2 : PduSend(a, k)
    BY <1>2 DEF PduNext
  <2> QED
    BY <2>1, BuildAddresses, RecvAddresses, SendAddresses
<1> QED
  BY <1>1, <1>2

\* The address of a PDU is at all times none, empty, or that of a peer: what
\* pdu_recv() takes for one was in front of an empty frame because pdu_send() or
\* ZeroMQ put it there, also when a message was left unfinished
\* (src/mq.c:393-407, 477-550).
THEOREM PduTypeCorrect == PduSpec => []PduTypeOK
<1>1. PduInv /\ AddressesKnown => PduTypeOK
  <2> SUFFICES ASSUME PduInv, AddressesKnown PROVE PduTypeOK
    OBVIOUS
  <2>1. pdu \in [Peers -> Pdus \cup {NULL}]
    <3>1. \A a \in Peers : pdu[a] \in Pdus \cup {NULL}
      BY DEF PduInv, PduTypes, AddressesKnown, SoundPdus, Pdus
    <3> QED
      BY <3>1 DEF PduInv, PduTypes
  <2>2. intended \in [Peers -> Seq([frames : Seq(Wire), address : Addresses \cup {NULL}])]
    <3> DEFINE S == [frames : Seq(Wire), address : Addresses \cup {NULL}]
    <3>1. intended \in [Peers -> Seq(Meanings)]
      BY DEF PduInv, PduTypes
    <3>2. ASSUME NEW a \in Peers PROVE intended[a] \in Seq(S)
      <4>1. intended[a] \in Seq(Meanings) /\ Len(intended[a]) \in Nat
        BY <3>1, LenProperties
      <4>2. \A i \in 1..Len(intended[a]) : intended[a][i] \in S
        <5>1. \A i \in 1..Len(intended[a]) : intended[a][i] \in Meanings
          BY <4>1, ElementOfSeq
        <5> QED
          BY <5>1 DEF AddressesKnown, Meanings
      <4> HIDE DEF S
      <4> QED
        BY <4>1, <4>2
    <3> HIDE DEF S
    <3>3. intended \in [Peers -> Seq(S)]
      BY <3>1, <3>2
    <3> QED
      BY <3>3 DEF S
  <2> QED
    BY <2>1, <2>2 DEF PduInv, PduTypes, AddressesKnown, PduTypeOK
<1> QED
  BY <1>1, PduStart, PduKeeps, AddressesStart, AddressesKept, PTL DEF PduSpec
=============================================================================
