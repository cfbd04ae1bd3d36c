---------------------------- MODULE TableProofs -----------------------------
(***************************************************************************)
(* Theorems about Hash, for any keys, values, number of buckets and hash   *)
(* function (the table is well-formed, implements a map, and its loops     *)
(* visit what they must, once), and about Cache, for any ids, objects,     *)
(* sizes and expiry times, of caches that are resized only while they are  *)
(* empty (a resize of one that is in use leaves its index astray, which    *)
(* the run cache_resize shows).                                            *)
(***************************************************************************)
EXTENDS Hash, Cache, FiniteSetTheorems, SequenceTheorems, WellFoundedInduction, TLAPS

(***************************************************************************)
(*                                  Hash                                   *)
(***************************************************************************)
\* Keys of a bucket belong there, and none is there twice.
Sorted ==
  \A b \in Places : \A i, j \in DOMAIN entries[b] :
    /\ HashOf[entries[b][i].key] = b
    /\ entries[b][i].key = entries[b][j].key => i = j

\* The i-th entry of its bucket is that of k.
At(k, i) == i \in DOMAIN Bucket(k) /\ Bucket(k)[i].key = k

ValueAt(k, i) == Bucket(k)[i].value

\* The i-th entry of bucket b is still to come when the cursor stands where it
\* does.
ToCome(b, i) == b > bucket \/ (b = bucket /\ i > offset)

\* What a loop was given is behind the cursor, in the table; and what it still
\* has to be given is ahead of it, unless its cursor was moved under it.
LoopInv ==
  /\ \A k \in visited : \E i \in Nat : At(k, i) /\ ~ToCome(HashOf[k], i)
  /\ looping /\ ~disturbed =>
       /\ bucket \in Places
       /\ \A k \in owed \ visited : \E i \in Nat : At(k, i) /\ ToCome(HashOf[k], i)

PresentCounted == IsFiniteSet(Present) /\ hashLen = Cardinality(Present)

HashInv == HashTypeOK /\ Sorted /\ PresentCounted /\ LoopInv

-----------------------------------------------------------------------------
(* What the table says of one key                                          *)

LEMMA BucketType ==
  ASSUME HashTypeOK, NEW k \in Keys
  PROVE  HashOf[k] \in Places /\ Bucket(k) \in Seq(Entries)
BY HashAssumption DEF HashTypeOK, Places, Bucket

\* s_hash_index() (src/hash.c:43-58) finds the one entry of a key, if it has one.
LEMMA IndexFacts ==
  ASSUME HashTypeOK, Sorted, NEW k \in Keys
  PROVE  /\ \A i : At(k, i) => i \in Nat \ {0} /\ IndexOf(Bucket(k), k) = i
         /\ Has(k) <=> \E i \in Nat : At(k, i)
         /\ Has(k) => At(k, IndexOf(Bucket(k), k))
<1> DEFINE s == Bucket(k)
<1>1. s \in Seq(Entries) /\ HashOf[k] \in Places
  BY BucketType
<1>2. \A i, j \in DOMAIN s : s[i].key = s[j].key => i = j
  BY <1>1 DEF Sorted, Bucket
<1>3. DOMAIN s = 1..Len(s) /\ Len(s) \in Nat
  BY <1>1
<1> HIDE DEF s
<1>4. ASSUME NEW i \in DOMAIN s, s[i].key = k PROVE IndexOf(s, k) = i
  <2> DEFINE P(m) == s[m].key = k /\ \A j \in 1..m - 1 : s[j].key # k
  <2>1. \A m \in DOMAIN s : P(m) <=> m = i
    BY <1>2, <1>3, <1>4
  <2>2. IndexOf(s, k) = CHOOSE m \in DOMAIN s : P(m)
    BY <1>4 DEF IndexOf
  <2> HIDE DEF P
  <2> QED
    BY <2>1, <2>2
<1>5. (\A i \in DOMAIN s : s[i].key # k) => IndexOf(s, k) = 0
  BY DEF IndexOf
<1> QED
  BY <1>3, <1>4, <1>5 DEF Has, At, s

\* Every entry is that of some key.
LEMMA EntryFacts ==
  ASSUME HashTypeOK, Sorted, NEW b \in Places, NEW i \in DOMAIN entries[b]
  PROVE  /\ entries[b][i].key \in Keys /\ HashOf[entries[b][i].key] = b
         /\ At(entries[b][i].key, i)
<1>1. entries[b] \in Seq(Entries)
  BY DEF HashTypeOK
<1>2. entries[b][i] \in Entries
  BY <1>1
<1> QED
  BY <1>2 DEF Sorted, At, Bucket, Entries

LEMMA RemoveAtFacts ==
  ASSUME NEW S, NEW s \in Seq(S), NEW i \in DOMAIN s
  PROVE  /\ RemoveAt(s, i) \in Seq(S) /\ Len(RemoveAt(s, i)) = Len(s) - 1
         /\ \A j \in 1..Len(s) - 1 : RemoveAt(s, i)[j] = IF j < i THEN s[j] ELSE s[j + 1]
<1> DEFINE a == SubSeq(s, 1, i - 1)
           c == SubSeq(s, i + 1, Len(s))
<1>1. i \in Nat /\ 1 <= i /\ i <= Len(s) /\ Len(s) \in Nat
  OBVIOUS
<1>2. a \in Seq(S) /\ Len(a) = i - 1 /\ \A j \in 1..i - 1 : a[j] = s[j]
  BY <1>1
<1>3. c \in Seq(S) /\ Len(c) = Len(s) - i /\ \A j \in 1..Len(s) - i : c[j] = s[j + i]
  BY <1>1
<1> HIDE DEF a, c
<1>4. RemoveAt(s, i) = a \o c
  BY DEF RemoveAt, a, c
<1>5. Len(a \o c) = Len(s) - 1 /\ a \o c \in Seq(S)
  BY <1>1, <1>2, <1>3
<1>6. ASSUME NEW j \in 1..Len(s) - 1
      PROVE  (a \o c)[j] = IF j < i THEN s[j] ELSE s[j + 1]
  <2>1. CASE j < i
    BY <1>1, <1>2, <1>3, <2>1
  <2>2. CASE ~(j < i)
    <3>1. j - (i - 1) \in 1..Len(s) - i /\ (a \o c)[j] = c[j - (i - 1)]
      BY <1>1, <1>2, <1>3, <2>2
    <3>2. (j - (i - 1)) + i = j + 1
      BY <1>1
    <3> QED
      BY <1>3, <2>2, <3>1, <3>2
  <2> QED
    BY <2>1, <2>2
<1> QED
  BY <1>4, <1>5, <1>6

-----------------------------------------------------------------------------
(* What one call changes                                                   *)

\* hash_set() of a key that is there (src/hash.c:126-131): its value only.
LEMMA ReplaceFacts ==
  ASSUME HashTypeOK, Sorted, NEW k \in Keys, NEW v \in Values \cup {NULL}, Has(k),
         entries' = [entries EXCEPT ![HashOf[k]][IndexOf(Bucket(k), k)].value = v]
  PROVE  /\ entries' \in [Places -> Seq(Entries)]
         /\ \A j, i : At(j, i)' <=> At(j, i)
         /\ \A j \in Keys, i \in Nat : At(j, i) =>
              ValueAt(j, i)' = IF j = k THEN v ELSE ValueAt(j, i)
         /\ Sorted'
<1> DEFINE h == HashOf[k]
           n == IndexOf(Bucket(k), k)
           e == [entries[h][n] EXCEPT !.value = v]
<1>1. At(k, n)
  BY IndexFacts
<1>2. h \in Places /\ entries[h] \in Seq(Entries) /\ n \in DOMAIN entries[h] /\ entries[h][n].key = k
  BY <1>1, BucketType DEF At, Bucket
<1>3. entries[h][n] \in Entries
  BY <1>2
<1>4. e \in Entries /\ e.key = k /\ e.value = v
  BY <1>2, <1>3 DEF Entries
<1>5. entries' = [entries EXCEPT ![h] = [entries[h] EXCEPT ![n] = e]]
  OBVIOUS
<1> HIDE DEF h, n, e
<1>6. /\ \A b \in Places \ {h} : entries'[b] = entries[b]
      /\ entries'[h] = [entries[h] EXCEPT ![n] = e]
      /\ DOMAIN entries' = Places /\ DOMAIN entries = Places
  BY <1>2, <1>5 DEF HashTypeOK
<1>7. entries'[h] \in Seq(Entries)
  <2>1. n \in 1..Len(entries[h])
    BY <1>2
  <2> QED
    BY <1>2, <1>4, <1>6, <2>1, ExceptSeq
<1>8. entries' \in [Places -> Seq(Entries)]
  BY <1>5, <1>6, <1>7 DEF HashTypeOK
<1>9. \A b \in Places : /\ DOMAIN entries'[b] = DOMAIN entries[b]
                        /\ \A i \in DOMAIN entries[b] : entries'[b][i].key = entries[b][i].key
  <2>1. ASSUME NEW i \in DOMAIN entries[h] PROVE entries'[h][i].key = entries[h][i].key
    <3>1. CASE i = n
      BY <1>2, <1>4, <1>6, <3>1
    <3>2. CASE i # n
      BY <1>2, <1>6, <3>2
    <3> QED
      BY <3>1, <3>2
  <2>2. DOMAIN entries'[h] = DOMAIN entries[h]
    BY <1>2, <1>6
  <2> QED
    BY <1>6, <2>1, <2>2
<1>10. Sorted'
  BY <1>9 DEF Sorted
<1>11. ASSUME NEW j, NEW i PROVE At(j, i)' <=> At(j, i)
  <2>1. CASE HashOf[j] \in Places
    BY <1>9, <2>1 DEF At, Bucket
  <2>2. CASE HashOf[j] \notin Places
    BY <1>5, <2>2, <1>6 DEF At, Bucket
  <2> QED
    BY <2>1, <2>2
<1>12. ASSUME NEW j \in Keys, NEW i \in Nat, At(j, i)
       PROVE  entries'[HashOf[j]][i].value = IF j = k THEN v ELSE entries[HashOf[j]][i].value
  <2>1. HashOf[j] \in Places /\ i \in DOMAIN entries[HashOf[j]] /\ entries[HashOf[j]][i].key = j
    BY <1>12, BucketType DEF At, Bucket
  <2>2. CASE HashOf[j] = h /\ i = n
    BY <1>2, <1>4, <1>6, <2>1, <2>2 DEF Bucket
  <2>3. CASE ~(HashOf[j] = h /\ i = n)
    <3>1. j # k
      BY <1>1, <1>12, <2>3, IndexFacts DEF h, n
    <3>2. entries'[HashOf[j]][i] = entries[HashOf[j]][i]
      BY <1>2, <1>6, <2>1, <2>3
    <3>3. entries'[HashOf[j]][i].value = entries[HashOf[j]][i].value
      BY ONLY <3>2
    <3> QED
      BY ONLY <3>1, <3>3
  <2> QED
    BY <2>2, <2>3
<1> QED
  BY <1>8, <1>10, <1>11, <1>12 DEF ValueAt, Bucket

\* hash_set() of a new key (src/hash.c:60-80): an entry more, the last of its
\* bucket.
LEMMA InsertFacts ==
  ASSUME HashTypeOK, Sorted, NEW k \in Keys, NEW v \in Values \cup {NULL}, ~Has(k),
         NEW n \in Nat, n = Len(Bucket(k)) + 1,
         entries' = [entries EXCEPT ![HashOf[k]] = Inserted(@, k, v)]
  PROVE  /\ entries' \in [Places -> Seq(Entries)]
         /\ \A j \in Keys, i \in Nat : At(j, i)' <=> At(j, i) \/ (j = k /\ i = n)
         /\ \A j \in Keys, i \in Nat : At(j, i) =>
              j # k /\ ValueAt(j, i)' = ValueAt(j, i)
         /\ ValueAt(k, n)' = v
         /\ Sorted'
<1> DEFINE h == HashOf[k]
           s == entries[h]
           e == [key |-> k, value |-> v]
           t == Append(s, e)
<1>1. h \in Places /\ s \in Seq(Entries) /\ e \in Entries /\ n = Len(s) + 1
  BY BucketType DEF Bucket, Entries
<1>2. /\ t \in Seq(Entries) /\ DOMAIN t = DOMAIN s \cup {n} /\ n \in Nat /\ n \notin DOMAIN s
      /\ t[n] = e /\ \A i \in DOMAIN s : t[i] = s[i]
  <2> HIDE DEF s, e
  <2> QED
    BY <1>1
<1>3. \A j \in Keys : j = k <=> \E i \in Nat : j = k /\ i = n
  BY <1>2
<1>4. ~ \E i \in Nat : At(k, i)
  BY IndexFacts
<1>5. entries' = [entries EXCEPT ![h] = t]
  BY DEF Inserted
<1>6. /\ entries' \in [Places -> Seq(Entries)]
      /\ entries'[h] = t /\ \A b \in Places \ {h} : entries'[b] = entries[b]
  <2> HIDE DEF t, h
  <2> QED
    BY <1>1, <1>2, <1>5 DEF HashTypeOK
<1>7. e.key = k /\ e.value = v
  OBVIOUS
<1> HIDE DEF t, e
<1>8. \A i \in DOMAIN s : HashOf[s[i].key] = h /\ s[i].key # k /\ i \in Nat
  <2>1. ASSUME NEW i \in DOMAIN s PROVE HashOf[s[i].key] = h /\ i \in Nat
    BY <1>1 DEF Sorted
  <2>2. ASSUME NEW i \in DOMAIN s, s[i].key = k PROVE FALSE
    BY <2>1, <2>2, <1>4 DEF At, Bucket
  <2> QED
    BY <2>1, <2>2
<1> HIDE DEF s, h
<1>9. Sorted'
  <2> SUFFICES ASSUME NEW b \in Places, NEW i \in DOMAIN entries'[b], NEW j \in DOMAIN entries'[b]
               PROVE  /\ HashOf[entries'[b][i].key] = b
                      /\ entries'[b][i].key = entries'[b][j].key => i = j
    BY DEF Sorted
  <2>1. CASE b # h
    BY <1>6, <2>1 DEF Sorted
  <2>2. CASE b = h
    <3>1. i \in DOMAIN s \cup {n} /\ j \in DOMAIN s \cup {n}
      BY <1>2, <1>6, <2>2
    <3>2. \A m \in DOMAIN s : t[m].key = s[m].key
      BY <1>2
    <3>3. t[n].key = k
      BY <1>2, <1>7
    <3>4. \A a, c \in DOMAIN s : s[a].key = s[c].key => a = c
      BY <1>1 DEF Sorted, s
    <3> QED
      BY <1>2, <1>6, <1>8, <2>2, <3>1, <3>2, <3>3, <3>4 DEF h
  <2> QED
    BY <2>1, <2>2
<1>10. ASSUME NEW j \in Keys, NEW i \in Nat
       PROVE  /\ At(j, i)' <=> At(j, i) \/ (j = k /\ i = n)
              /\ At(j, i) => j # k /\ entries'[HashOf[j]][i].value = entries[HashOf[j]][i].value
  <2>1. HashOf[j] \in Places
    BY BucketType
  <2>2. CASE HashOf[j] # h
    <3>1. entries'[HashOf[j]] = entries[HashOf[j]] /\ j # k
      BY <1>6, <2>1, <2>2 DEF h
    <3> QED
      BY <3>1 DEF At, Bucket
  <2>3. CASE HashOf[j] = h
    <3>1. entries'[HashOf[j]] = t /\ entries[HashOf[j]] = s
      BY <1>6, <2>3 DEF s
    <3>2. /\ At(j, i)' <=> i \in DOMAIN t /\ t[i].key = j
          /\ At(j, i) <=> i \in DOMAIN s /\ s[i].key = j
      BY <3>1 DEF At, Bucket
    <3> QED
      BY <1>2, <1>7, <1>8, <3>1, <3>2
  <2> QED
    BY <2>2, <2>3
<1>11. entries'[HashOf[k]][n].value = v
  BY <1>2, <1>6, <1>7 DEF h
<1> QED
  BY <1>2, <1>6, <1>9, <1>10, <1>11 DEF ValueAt, Bucket, s, h

\* hash_unset() of a key that is there (src/hash.c:82-99): the entries behind it
\* move down by one.
LEMMA RemoveFacts ==
  ASSUME HashTypeOK, Sorted, NEW k \in Keys, NEW n \in Nat, At(k, n),
         entries' = [entries EXCEPT ![HashOf[k]] = RemoveAt(@, n)]
  PROVE  /\ entries' \in [Places -> Seq(Entries)]
         /\ \A j \in Keys, i \in Nat :
              At(j, i)' <=> /\ j # k
                            /\ IF HashOf[j] = HashOf[k] /\ i >= n THEN At(j, i + 1) ELSE At(j, i)
         /\ \A j \in Keys, i \in Nat : At(j, i)' =>
              ValueAt(j, i)' = ValueAt(j, IF HashOf[j] = HashOf[k] /\ i >= n THEN i + 1 ELSE i)
         /\ Sorted'
<1> DEFINE h == HashOf[k]
           s == entries[h]
           t == RemoveAt(s, n)
           From(i) == IF i < n THEN i ELSE i + 1
<1>1. h \in Places /\ s \in Seq(Entries) /\ n \in DOMAIN s /\ s[n].key = k
  BY BucketType DEF Bucket, At
<1>2. /\ t \in Seq(Entries) /\ DOMAIN t = 1..Len(s) - 1 /\ DOMAIN s = 1..Len(s) /\ Len(s) \in Nat
      /\ \A i \in DOMAIN t : t[i] = s[From(i)]
  <2>1. /\ t \in Seq(Entries) /\ Len(t) = Len(s) - 1
        /\ \A i \in 1..Len(s) - 1 : t[i] = IF i < n THEN s[i] ELSE s[i + 1]
    BY <1>1, RemoveAtFacts
  <2> HIDE DEF t, s
  <2> QED
    BY <1>1, <2>1
<1>3. entries' = [entries EXCEPT ![h] = t]
  OBVIOUS
<1>4. /\ entries' \in [Places -> Seq(Entries)]
      /\ entries'[h] = t /\ \A b \in Places \ {h} : entries'[b] = entries[b]
  <2> HIDE DEF t, h
  <2> QED
    BY <1>1, <1>2, <1>3 DEF HashTypeOK
<1>5. /\ \A a, c \in DOMAIN s : s[a].key = s[c].key => a = c
      /\ \A i \in DOMAIN s : HashOf[s[i].key] = h
  BY <1>1 DEF Sorted
<1> HIDE DEF t, s, h
<1>6. \A i \in DOMAIN t : From(i) \in DOMAIN s \ {n} /\ i \in Nat
  BY <1>1, <1>2
<1>7. Sorted'
  <2> SUFFICES ASSUME NEW b \in Places, NEW i \in DOMAIN entries'[b], NEW j \in DOMAIN entries'[b]
               PROVE  /\ HashOf[entries'[b][i].key] = b
                      /\ entries'[b][i].key = entries'[b][j].key => i = j
    BY DEF Sorted
  <2>1. CASE b # h
    BY <1>4, <2>1 DEF Sorted
  <2>2. CASE b = h
    <3>1. i \in DOMAIN t /\ j \in DOMAIN t
      BY <1>4, <2>2
    <3>2. t[i] = s[From(i)] /\ t[j] = s[From(j)]
      BY <1>2, <3>1
    <3>3. From(i) = From(j) => i = j
      BY <1>1, <1>2, <3>1
    <3> HIDE DEF From
    <3> QED
      BY <1>4, <1>5, <1>6, <2>2, <3>1, <3>2, <3>3
  <2> QED
    BY <2>1, <2>2
<1>8. ASSUME NEW j \in Keys, NEW i \in Nat, HashOf[j] = h
      PROVE  /\ At(j, i)' <=> j # k /\ IF i >= n THEN At(j, i + 1) ELSE At(j, i)
             /\ At(j, i)' => entries'[HashOf[j]][i] = s[From(i)]
  <2>1. entries'[HashOf[j]] = t /\ entries[HashOf[j]] = s
    BY <1>4, <1>8 DEF s
  <2>2. /\ At(j, i)' <=> i \in DOMAIN t /\ t[i].key = j
        /\ \A m : At(j, m) <=> m \in DOMAIN s /\ s[m].key = j
    BY <2>1 DEF At, Bucket
  <2>3. i \in DOMAIN t => t[i] = s[From(i)]
    BY <1>2
  <2>4. \A m \in DOMAIN s : s[m].key = k => m = n
    BY <1>1, <1>5
  <2>5. i \in DOMAIN t <=> From(i) \in DOMAIN s /\ i # 0
    BY <1>1, <1>2
  <2>6. i # 0 \/ (i < n /\ 0 \notin DOMAIN s)
    BY <1>1, <1>2
  <2>7. From(i) = IF i >= n THEN i + 1 ELSE i
    BY <1>1
  <2>8. From(i) # n
    BY <1>1
  <2> QED
    BY <1>1, <2>1, <2>2, <2>3, <2>4, <2>5, <2>6, <2>7, <2>8
<1>9. ASSUME NEW j \in Keys, NEW i \in Nat, HashOf[j] # h
      PROVE  /\ At(j, i)' <=> j # k /\ At(j, i)
             /\ entries'[HashOf[j]][i] = entries[HashOf[j]][i]
  <2>1. entries'[HashOf[j]] = entries[HashOf[j]] /\ j # k
    BY <1>4, <1>9, BucketType DEF h
  <2> QED
    BY <2>1 DEF At, Bucket
<1>10. \A i \in Nat : From(i) = IF i >= n THEN i + 1 ELSE i
  BY <1>1
<1>11. ASSUME NEW j \in Keys, NEW i \in Nat, At(j, i)'
       PROVE  ValueAt(j, i)' = ValueAt(j, IF HashOf[j] = HashOf[k] /\ i >= n THEN i + 1 ELSE i)
  <2> HIDE DEF From
  <2>1. CASE HashOf[j] = h
    <3>1. entries'[HashOf[j]][i] = entries[HashOf[j]][From(i)]
      BY <1>8, <1>11, <2>1 DEF s
    <3>2. entries'[HashOf[j]][i].value = entries[HashOf[j]][From(i)].value
      BY ONLY <3>1
    <3> QED
      BY <1>10, <2>1, <3>2 DEF ValueAt, Bucket, h
  <2>2. CASE HashOf[j] # h
    <3>1. entries'[HashOf[j]][i] = entries[HashOf[j]][i]
      BY <1>9, <2>2
    <3>2. entries'[HashOf[j]][i].value = entries[HashOf[j]][i].value
      BY ONLY <3>1
    <3> QED
      BY <2>2, <3>2 DEF ValueAt, Bucket, h
  <2> QED
    BY <2>1, <2>2
<1>12. ASSUME NEW j \in Keys, NEW i \in Nat
       PROVE  At(j, i)' <=> /\ j # k
                            /\ IF HashOf[j] = HashOf[k] /\ i >= n THEN At(j, i + 1) ELSE At(j, i)
  BY <1>8, <1>9 DEF h
<1> QED
  BY <1>4, <1>7, <1>11, <1>12

-----------------------------------------------------------------------------
(* Lookup, before and after a step                                         *)

LEMMA Lookup ==
  HashTypeOK /\ Sorted =>
    /\ Present = {k \in Keys : \E i \in Nat : At(k, i)}
    /\ \A k \in Keys, i \in Nat : At(k, i) => Value(k) = ValueAt(k, i)
    /\ \A k \in Keys : Has(k) => \E i \in Nat : At(k, i)
<1> SUFFICES ASSUME HashTypeOK, Sorted
             PROVE  /\ \A k \in Keys : Has(k) <=> \E i \in Nat : At(k, i)
                    /\ \A k \in Keys, i \in Nat :
                         At(k, i) => Value(k) = ValueAt(k, i)
  BY DEF Present
<1> QED
  BY IndexFacts DEF Value, ValueAt

LEMMA LookupNext ==
  ASSUME HashTypeOK', Sorted'
  PROVE  /\ Present' = {k \in Keys : \E i \in Nat : At(k, i)'}
         /\ \A k \in Keys, i \in Nat : At(k, i)' => Value(k)' = ValueAt(k, i)'
<1>1. (HashTypeOK /\ Sorted =>
        /\ Present = {k \in Keys : \E i \in Nat : At(k, i)}
        /\ \A k \in Keys, i \in Nat : At(k, i) => Value(k) = ValueAt(k, i))'
  BY Lookup, PTL
<1> QED
  BY <1>1

PresentMap == [k \in Present |-> Value(k)]

\* A value is one that callers gave.
LEMMA ValueType ==
  ASSUME HashTypeOK, Sorted, NEW k \in Keys, Has(k)
  PROVE  Value(k) \in Values \cup {NULL}
<1>1. PICK i \in Nat : At(k, i)
  BY IndexFacts
<1>2. Bucket(k) \in Seq(Entries) /\ i \in DOMAIN Bucket(k)
  BY <1>1, BucketType DEF At
<1>3. Bucket(k)[i] \in Entries
  BY <1>2
<1>4. Value(k) = ValueAt(k, i)
  BY <1>1, Lookup
<1> QED
  BY <1>3, <1>4 DEF Entries, ValueAt

-----------------------------------------------------------------------------
(* The calls                                                               *)

\* hash_set() of a key that is there.
LEMMA ReplaceKeeps ==
  ASSUME HashInv, NEW k \in Keys, NEW v \in Values \cup {NULL}, HashSet(k, v), Has(k)
  PROVE  HashInv' /\ PresentMap' = [PresentMap EXCEPT ![k] = v] /\ k \in Present /\ hashRet' = Value(k)
<1>1. entries' = [entries EXCEPT ![HashOf[k]][IndexOf(Bucket(k), k)].value = v]
  BY DEF HashSet
<1>2. /\ entries' \in [Places -> Seq(Entries)] /\ Sorted'
      /\ \A j, i : At(j, i)' <=> At(j, i)
      /\ \A j \in Keys, i \in Nat : At(j, i) =>
           ValueAt(j, i)' = IF j = k THEN v ELSE ValueAt(j, i)
  BY ONLY <1>1, ReplaceFacts, HashInv, Has(k), k \in Keys, v \in Values \cup {NULL} DEF HashInv
<1>3. hashRet' = Value(k) /\ hashLen' = hashLen /\ UNCHANGED <<Cursor, Loop>>
  BY DEF HashSet
<1> HIDE <1>1
<1>4. HashTypeOK'
  BY <1>2, <1>3, ValueType DEF HashInv, HashTypeOK, Cursor, Loop
<1>5. Present' = Present
  BY <1>2, <1>4, Lookup, LookupNext DEF HashInv
<1>6. PresentCounted'
  BY <1>3, <1>5 DEF HashInv, PresentCounted
<1>7. LoopInv'
  BY <1>2, <1>3 DEF HashInv, LoopInv, ToCome, Cursor, Loop
<1>8. ASSUME NEW j \in Present PROVE Value(j)' = IF j = k THEN v ELSE Value(j)
  <2>1. PICK i \in Nat : At(j, i)
    BY Lookup DEF HashInv
  <2>2. j \in Keys /\ At(j, i)'
    BY <1>2, <2>1 DEF Present
  <2>3. Value(j)' = ValueAt(j, i)' /\ Value(j) = ValueAt(j, i)
    BY <1>2, <1>4, <2>1, <2>2, Lookup, LookupNext DEF HashInv
  <2> QED
    BY <1>2, <2>1, <2>2, <2>3
<1>9. PresentMap' = [PresentMap EXCEPT ![k] = v]
  BY <1>5, <1>8 DEF PresentMap
<1> QED
  BY <1>2, <1>3, <1>4, <1>6, <1>7, <1>9 DEF HashInv, Present

\* hash_set() of a new key.
LEMMA InsertKeeps ==
  ASSUME HashInv, NEW k \in Keys, NEW v \in Values \cup {NULL}, HashSet(k, v), ~Has(k)
  PROVE  /\ HashInv'
         /\ PresentMap' = [j \in Present \cup {k} |-> IF j = k THEN v ELSE PresentMap[j]]
         /\ k \notin Present /\ hashRet' = v
<1>0. PICK n \in Nat : n = Len(Bucket(k)) + 1
  <2>1. Len(Bucket(k)) \in Nat
    BY BucketType DEF HashInv
  <2> QED
    BY <2>1
<1>1. /\ entries' = [entries EXCEPT ![HashOf[k]] = Inserted(@, k, v)]
      /\ hashRet' = v /\ hashLen' = hashLen + 1 /\ UNCHANGED <<Cursor, Loop>>
  BY DEF HashSet
<1>2. /\ entries' \in [Places -> Seq(Entries)] /\ Sorted'
      /\ \A j \in Keys, i \in Nat : At(j, i)' <=> At(j, i) \/ (j = k /\ i = n)
      /\ \A j \in Keys, i \in Nat : At(j, i) =>
           j # k /\ ValueAt(j, i)' = ValueAt(j, i)
      /\ ValueAt(k, n)' = v
  BY ONLY <1>0, <1>1, InsertFacts, HashInv, ~Has(k), n \in Nat, k \in Keys,
          v \in Values \cup {NULL}
     DEF HashInv
<1>3. HashTypeOK'
  BY <1>1, <1>2 DEF HashInv, HashTypeOK, Cursor, Loop
<1>4. Present' = Present \cup {k} /\ k \notin Present
  BY <1>2, <1>3, Lookup, LookupNext DEF HashInv, Present
<1>5. PresentCounted'
  BY <1>1, <1>4, FS_AddElement DEF HashInv, PresentCounted
<1>6. LoopInv'
  BY <1>1, <1>2 DEF HashInv, HashTypeOK, LoopInv, ToCome, Cursor, Loop
<1>7. Value(k)' = v
  BY <1>2, <1>3, LookupNext
<1>8. ASSUME NEW j \in Present PROVE Value(j)' = Value(j)
  <2>1. PICK i \in Nat : At(j, i)
    BY Lookup DEF HashInv
  <2>2. j \in Keys /\ At(j, i)'
    BY <1>2, <2>1 DEF Present
  <2>3. Value(j)' = ValueAt(j, i)' /\ Value(j) = ValueAt(j, i)
    BY <1>2, <1>3, <2>1, <2>2, Lookup, LookupNext DEF HashInv
  <2> QED
    BY <1>2, <2>1, <2>2, <2>3
<1>9. PresentMap' = [j \in Present \cup {k} |-> IF j = k THEN v ELSE PresentMap[j]]
  BY <1>4, <1>7, <1>8 DEF PresentMap
<1> QED
  BY <1>1, <1>2, <1>3, <1>4, <1>5, <1>6, <1>9 DEF HashInv

\* hash_unset() of a key that is there.
LEMMA RemoveKeeps ==
  ASSUME HashInv, NEW k \in Keys, HashUnset(k), Has(k)
  PROVE  HashInv' /\ PresentMap' = [j \in Present \ {k} |-> PresentMap[j]]
<1>0. PICK n \in Nat : n = IndexOf(Bucket(k), k) /\ At(k, n)
  BY IndexFacts DEF HashInv
<1>1. /\ entries' = [entries EXCEPT ![HashOf[k]] = RemoveAt(@, n)]
      /\ hashRet' = Value(k) /\ hashLen' = hashLen - 1 /\ UNCHANGED <<Cursor, looping>>
      /\ disturbed' = (disturbed \/ (looping /\ HashOf[k] = bucket /\ n <= offset))
      /\ owed' = owed \ {k} /\ visited' = visited \ {k}
  BY <1>0 DEF HashUnset
<1>2. At(k, n)
  BY <1>0
<1>3. /\ entries' \in [Places -> Seq(Entries)] /\ Sorted'
      /\ \A j \in Keys, i \in Nat :
           At(j, i)' <=> /\ j # k
                         /\ IF HashOf[j] = HashOf[k] /\ i >= n THEN At(j, i + 1) ELSE At(j, i)
      /\ \A j \in Keys, i \in Nat : At(j, i)' =>
           ValueAt(j, i)' = ValueAt(j, IF HashOf[j] = HashOf[k] /\ i >= n THEN i + 1 ELSE i)
  BY ONLY <1>1, <1>2, RemoveFacts, HashInv, k \in Keys, n \in Nat DEF HashInv
\* where the entry of another key has gone
<1> DEFINE Moved(j, i) == IF HashOf[j] = HashOf[k] /\ i > n THEN i - 1 ELSE i
<1>4. ASSUME NEW j \in Keys \ {k}, NEW i \in Nat, At(j, i)
      PROVE  /\ Moved(j, i) \in Nat /\ At(j, Moved(j, i))'
             /\ ValueAt(j, Moved(j, i))' = ValueAt(j, i)
  <2>1. HashOf[j] = HashOf[k] => i # n
    BY <1>2, <1>4 DEF At, Bucket
  <2>2. CASE HashOf[j] = HashOf[k] /\ i > n
    <3>1. i - 1 \in Nat /\ i - 1 >= n /\ (i - 1) + 1 = i /\ Moved(j, i) = i - 1
      BY <1>2, <2>2
    <3>2. PICK m \in Nat : m >= n /\ m + 1 = i /\ Moved(j, i) = m
      BY <3>1
    <3> HIDE DEF Moved
    <3>3. At(j, m)' /\ ValueAt(j, m)' = ValueAt(j, m + 1)
      BY <1>3, <1>4, <2>2, <3>2
    <3> QED
      BY ONLY <3>2, <3>3
  <2>3. CASE ~(HashOf[j] = HashOf[k] /\ i > n)
    <3>1. Moved(j, i) = i /\ ~(HashOf[j] = HashOf[k] /\ i >= n)
      BY <1>2, <2>1, <2>3
    <3> HIDE DEF Moved
    <3> QED
      BY <1>3, <1>4, <3>1
  <2> QED
    BY <2>2, <2>3
<1>5. ASSUME NEW j \in Keys, NEW i \in Nat, At(j, i)'
      PROVE  j # k /\ \E m \in Nat : At(j, m)
  <2>1. j # k /\ IF HashOf[j] = HashOf[k] /\ i >= n THEN At(j, i + 1) ELSE At(j, i)
    BY <1>3, <1>5
  <2>2. i + 1 \in Nat
    OBVIOUS
  <2> QED
    BY <2>1, <2>2
<1>6. hashLen' \in Nat /\ IsFiniteSet(Present) /\ Cardinality(Present) \in Nat \ {0}
  <2>1. IsFiniteSet(Present) /\ k \in Present /\ hashLen = Cardinality(Present)
    BY DEF HashInv, PresentCounted, Present
  <2>2. Cardinality(Present) \in Nat /\ Cardinality(Present) # 0
    BY <2>1, FS_CardinalityType, FS_EmptySet
  <2> QED
    BY <1>1, <2>1, <2>2
<1>7. HashTypeOK'
  BY <1>1, <1>3, <1>6, ValueType DEF HashInv, HashTypeOK, Cursor
<1>8. Present' = Present \ {k}
  <2>1. \A j \in Keys : (\E i \in Nat : At(j, i)') <=> j # k /\ \E i \in Nat : At(j, i)
    <3> HIDE DEF Moved
    <3> QED
      BY <1>4, <1>5
  <2> QED
    BY <1>3, <1>7, <2>1, Lookup, LookupNext DEF HashInv
<1>9. PresentCounted'
  BY <1>1, <1>6, <1>8, FS_RemoveElement DEF HashInv, PresentCounted, Present
<1>10. LoopInv'
  <2>1. bucket \in Nat /\ offset \in Nat /\ UNCHANGED <<bucket, offset, looping>>
    BY <1>1, HashAssumption DEF HashInv, HashTypeOK, Cursor
  <2>0. ~disturbed' => ~disturbed /\ ~(looping /\ HashOf[k] = bucket /\ n <= offset)
    BY <1>1, Zenon
  <2>2. ASSUME NEW j \in Keys \ {k}, NEW i \in Nat, At(j, i), ~ToCome(HashOf[j], i)
        PROVE  ~ToCome(HashOf[j], Moved(j, i))'
    BY <1>2, <2>1, <2>2 DEF ToCome
  <2>3. ASSUME NEW j \in Keys \ {k}, NEW i \in Nat, At(j, i), ToCome(HashOf[j], i),
               looping', ~disturbed'
        PROVE  ToCome(HashOf[j], Moved(j, i))'
    <3>1. looping /\ ~(HashOf[k] = bucket /\ n <= offset)
      BY <2>0, <2>1, <2>3
    <3>2. HashOf[j] > bucket \/ (HashOf[j] = bucket /\ i > offset)
      BY <2>3 DEF ToCome
    <3>3. HashOf[j] > bucket \/ (HashOf[j] = bucket /\ Moved(j, i) > offset)
      BY <2>1, <3>1, <3>2
    <3> HIDE DEF Moved
    <3> QED
      BY <2>1, <3>3 DEF ToCome
  <2>4. visited \subseteq Keys /\ owed \subseteq Keys
    BY DEF HashInv, HashTypeOK
  <2>5. ASSUME NEW j \in visited'
        PROVE  \E i \in Nat : At(j, i)' /\ ~ToCome(HashOf[j], i)'
    <3>1. j \in visited \ {k} /\ j \in Keys \ {k}
      BY <1>1, <2>4
    <3>2. PICK i \in Nat : At(j, i) /\ ~ToCome(HashOf[j], i)
      BY <3>1 DEF HashInv, LoopInv
    <3> HIDE DEF Moved
    <3> QED
      BY <1>4, <2>2, <3>1, <3>2
  <2>6. ASSUME looping', ~disturbed', NEW j \in owed' \ visited'
        PROVE  \E i \in Nat : At(j, i)' /\ ToCome(HashOf[j], i)'
    <3>1. j \in owed \ visited /\ j \in Keys \ {k} /\ looping /\ ~disturbed
      BY <1>1, <2>0, <2>1, <2>4, <2>6
    <3>2. PICK i \in Nat : At(j, i) /\ ToCome(HashOf[j], i)
      BY <3>1 DEF HashInv, LoopInv
    <3> HIDE DEF Moved
    <3> QED
      BY <1>4, <2>3, <2>6, <3>1, <3>2
  <2> QED
    <3> HIDE DEF Moved
    <3>1. looping' /\ ~disturbed' => bucket' \in Places
      BY <2>0, <2>1 DEF HashInv, LoopInv, Places
    <3>2. (\A j \in visited : \E i \in Nat : At(j, i) /\ ~ToCome(HashOf[j], i))'
      BY <2>5
    <3>3. (looping /\ ~disturbed =>
             \A j \in owed \ visited : \E i \in Nat : At(j, i) /\ ToCome(HashOf[j], i))'
      BY <2>6
    <3> QED
      BY <3>1, <3>2, <3>3 DEF LoopInv, Places
<1>11. ASSUME NEW j \in Present \ {k} PROVE Value(j)' = Value(j)
  <2>1. PICK i \in Nat : At(j, i)
    BY Lookup DEF HashInv
  <2>2. j \in Keys
    BY DEF Present
  <2> HIDE DEF Moved
  <2> QED
    BY <1>3, <1>4, <1>7, <2>1, <2>2, Lookup, LookupNext DEF HashInv
<1>12. PresentMap' = [j \in Present \ {k} |-> PresentMap[j]]
  BY <1>8, <1>11 DEF PresentMap
<1> QED
  BY <1>3, <1>7, <1>9, <1>10, <1>12 DEF HashInv

\* hash_unset() of a key that is not there.
LEMMA UnsetAbsentKeeps ==
  ASSUME HashInv, NEW k \in Keys, HashUnset(k), ~Has(k)
  PROVE  HashInv' /\ hashRet' = NULL /\ UNCHANGED entries
<1>1. /\ hashRet' = NULL /\ UNCHANGED <<entries, hashLen, disturbed, bucket, offset, looping>>
      /\ owed' = owed \ {k} /\ visited' = visited \ {k}
  BY DEF HashUnset, Cursor
<1>2. ~ \E i \in Nat : At(k, i)
  BY IndexFacts DEF HashInv
<1>3. HashTypeOK'
  BY <1>1 DEF HashInv, HashTypeOK
<1>4. Sorted' /\ PresentCounted'
  BY <1>1 DEF HashInv, Sorted, PresentCounted, Present, Has, Bucket
<1>5. LoopInv'
  BY <1>1, <1>2 DEF HashInv, LoopInv, At, ToCome, Bucket
<1> QED
  BY <1>1, <1>3, <1>4, <1>5 DEF HashInv

\* hash_get() changes nothing of the table or its cursor.
LEMMA GetKeeps ==
  ASSUME HashInv, NEW k \in Keys, HashGet(k)
  PROVE  HashInv' /\ UNCHANGED entries
<1>1. UNCHANGED <<entries, hashLen, bucket, offset, looping, visited, owed, disturbed>>
  BY DEF HashGet, Cursor, Loop
<1>2. hashRet' \in Values \cup {NULL}
  BY ValueType DEF HashGet, HashInv
<1>3. HashTypeOK'
  BY <1>1, <1>2 DEF HashInv, HashTypeOK
<1>4. Sorted' /\ PresentCounted'
  BY <1>1 DEF HashInv, Sorted, PresentCounted, Present, Has, Bucket
<1>5. LoopInv'
  BY <1>1 DEF HashInv, LoopInv, At, ToCome, Bucket
<1> QED
  BY <1>1, <1>3, <1>4, <1>5 DEF HashInv

\* What is in the table stays with the entries.
LEMMA EntriesKept ==
  ASSUME UNCHANGED entries
  PROVE  /\ \A k, i : At(k, i)' <=> At(k, i)
         /\ Sorted' <=> Sorted
         /\ Present' = Present /\ PresentMap' = PresentMap
BY DEF At, Sorted, Present, Has, Bucket, PresentMap, Value

-----------------------------------------------------------------------------
(* The loop                                                                *)

\* Where a key is.
LEMMA AtFacts ==
  ASSUME HashTypeOK, NEW k \in Keys, NEW i, At(k, i)
  PROVE  /\ HashOf[k] \in Places /\ i \in Nat \ {0}
         /\ i \in DOMAIN entries[HashOf[k]] /\ entries[HashOf[k]][i].key = k
         /\ i <= Len(entries[HashOf[k]]) /\ entries[HashOf[k]] # <<>>
<1>1. HashOf[k] \in Places /\ entries[HashOf[k]] \in Seq(Entries)
  BY BucketType DEF Bucket
<1>2. i \in DOMAIN entries[HashOf[k]] /\ entries[HashOf[k]][i].key = k
  BY DEF At, Bucket
<1> QED
  BY <1>1, <1>2

\* hash_next() (src/hash.c:165-186) has something to give while an entry is
\* ahead of the cursor, and it is not past it.
LEMMA AheadIsNext ==
  ASSUME HashTypeOK, NEW k \in Keys, NEW i, At(k, i), ToCome(HashOf[k], i)
  PROVE  HashOf[k] \in NextBuckets
<1>1. HashOf[k] \in Places /\ i \in Nat \ {0} /\ i <= Len(entries[HashOf[k]]) /\ entries[HashOf[k]] # <<>>
  BY AtFacts
<1>2. Len(entries[HashOf[k]]) \in Nat /\ offset \in Nat
  BY <1>1 DEF HashTypeOK
<1> QED
  BY <1>1, <1>2 DEF ToCome, NextBuckets

\* The loop is given the entry that the cursor then stands behind.
LEMMA StepFacts ==
  ASSUME HashInv, HashStep
  PROVE  \E b \in Places, i \in Nat, k \in Keys :
           /\ At(k, i) /\ ToCome(b, i) /\ HashOf[k] = b
           /\ bucket <= b /\ bucket' = b /\ offset' = i
           /\ visited' = visited \cup {k}
           /\ \A j \in Keys, m \in Nat :
                At(j, m) /\ ToCome(HashOf[j], m) => j = k \/ HashOf[j] > b \/ (HashOf[j] = b /\ m > i)
<1>1. PICK b \in NextBuckets :
        LET o == IF b = bucket THEN offset ELSE 0 IN
        /\ \A c \in NextBuckets : b <= c
        /\ bucket' = b /\ offset' = o + 1
        /\ visited' = visited \cup {entries[b][o + 1].key}
  BY DEF HashStep
<1>2. PICK o \in Nat : o = IF b = bucket THEN offset ELSE 0
  BY DEF HashInv, HashTypeOK
<1>3. PICK i \in Nat : i = o + 1
  OBVIOUS
<1>4. /\ \A c \in NextBuckets : b <= c
      /\ bucket' = b /\ offset' = i
      /\ visited' = visited \cup {entries[b][i].key}
  BY <1>1, <1>2, <1>3
<1> HIDE <1>1
<1>5. /\ b \in Places
      /\ \/ b = bucket /\ offset < Len(entries[b])
         \/ b > bucket /\ entries[b] # <<>>
  BY <1>1 DEF NextBuckets
<1>6. entries[b] \in Seq(Entries) /\ Len(entries[b]) \in Nat /\ bucket \in Nat /\ offset \in Nat
      /\ b \in Nat
  BY <1>5, HashAssumption DEF HashInv, HashTypeOK, Places
<1>7. b >= bucket /\ i \in DOMAIN entries[b] /\ ToCome(b, i)
  <2>1. CASE b = bucket
    BY <1>2, <1>3, <1>5, <1>6, <2>1 DEF ToCome
  <2>2. CASE b # bucket
    <3>1. Len(entries[b]) # 0
      BY <1>5, <1>6, <2>2
    <3> QED
      BY <1>2, <1>3, <1>5, <1>6, <2>2, <3>1 DEF ToCome
  <2> QED
    BY <2>1, <2>2
<1>8. PICK k \in Keys : k = entries[b][i].key /\ HashOf[k] = b /\ At(k, i)
  BY <1>5, <1>7, EntryFacts DEF HashInv
<1>9. ASSUME NEW j \in Keys, NEW m \in Nat, At(j, m), ToCome(HashOf[j], m), j # k
      PROVE  HashOf[j] > b \/ (HashOf[j] = b /\ m > i)
  <2>1. HashOf[j] \in NextBuckets /\ HashOf[j] \in Nat /\ b <= HashOf[j]
    BY <1>4, <1>9, AheadIsNext DEF HashInv, NextBuckets, Places
  <2>2. m \in Nat \ {0} /\ (HashOf[j] = b => m # i)
    BY <1>8, <1>9, AtFacts DEF HashInv
  <2>3. CASE HashOf[j] = b
    <3>1. m > o
      BY <1>2, <1>5, <1>6, <1>9, <2>1, <2>2, <2>3 DEF ToCome
    <3> QED
      BY <1>3, <2>2, <2>3, <3>1
  <2> QED
    BY <1>6, <2>1, <2>3
<1> QED
  BY <1>4, <1>5, <1>6, <1>7, <1>8, <1>9

LEMMA StepKeeps ==
  ASSUME HashInv, HashStep
  PROVE  HashInv' /\ visited' # visited
<1>1. PICK b \in Places, i \in Nat, k \in Keys :
           /\ At(k, i) /\ ToCome(b, i) /\ HashOf[k] = b
           /\ bucket <= b /\ bucket' = b /\ offset' = i
           /\ visited' = visited \cup {k}
           /\ \A j \in Keys, m \in Nat :
                At(j, m) /\ ToCome(HashOf[j], m) => j = k \/ HashOf[j] > b \/ (HashOf[j] = b /\ m > i)
  BY StepFacts
<1>2. UNCHANGED <<entries, hashLen, hashRet, looping, owed, disturbed>> /\ looping
  BY DEF HashStep
<1>3. HashTypeOK'
  BY <1>1, <1>2, HashAssumption DEF HashInv, HashTypeOK, Places
<1>4. Sorted' /\ PresentCounted' /\ \A j, m : At(j, m)' <=> At(j, m)
  BY <1>2, EntriesKept DEF HashInv, PresentCounted
<1>5. b \in Nat /\ bucket \in Nat /\ offset \in Nat /\ bucket' \in Nat /\ offset' \in Nat
  BY <1>1, HashAssumption DEF Places, HashInv, HashTypeOK
<1>6. ASSUME NEW j \in Keys, NEW m \in Nat, At(j, m), ~ToCome(HashOf[j], m)
      PROVE  ~ToCome(HashOf[j], m)'
  <2>1. HashOf[j] \in Nat
    BY HashAssumption
  <2> QED
    BY <1>1, <1>5, <1>6, <2>1 DEF ToCome
<1>7. ~ToCome(b, i)'
  BY <1>1, <1>5 DEF ToCome
<1>8. visited \subseteq Keys /\ owed \subseteq Keys
  BY DEF HashInv, HashTypeOK
<1>9. (\A j \in visited : \E m \in Nat : At(j, m) /\ ~ToCome(HashOf[j], m))'
  <2> SUFFICES ASSUME NEW j \in visited' PROVE \E m \in Nat : At(j, m)' /\ ~ToCome(HashOf[j], m)'
    OBVIOUS
  <2>1. CASE j = k
    BY <1>1, <1>4, <1>7, <2>1
  <2>2. CASE j \in visited
    <3>1. PICK m \in Nat : At(j, m) /\ ~ToCome(HashOf[j], m)
      BY <2>2 DEF HashInv, LoopInv
    <3> QED
      BY <1>4, <1>6, <1>8, <2>2, <3>1
  <2> QED
    BY <1>1, <2>1, <2>2
<1>10. (looping /\ ~disturbed =>
          /\ bucket \in Places
          /\ \A j \in owed \ visited : \E m \in Nat : At(j, m) /\ ToCome(HashOf[j], m))'
  <2> SUFFICES ASSUME ~disturbed, NEW j \in owed \ visited, j # k
               PROVE  \E m \in Nat : At(j, m)' /\ ToCome(HashOf[j], m)'
    BY <1>1, <1>2 DEF Places
  <2>1. PICK m \in Nat : At(j, m) /\ ToCome(HashOf[j], m)
    BY <1>2 DEF HashInv, LoopInv
  <2>2. ToCome(HashOf[j], m)'
    BY <1>1, <1>8, <2>1 DEF ToCome
  <2> QED
    BY <1>4, <2>1, <2>2
<1>11. LoopInv'
  BY <1>9, <1>10 DEF LoopInv
<1>12. k \notin visited
  <2> SUFFICES ASSUME k \in visited PROVE FALSE
    OBVIOUS
  <2>1. PICK m \in Nat : At(k, m) /\ ~ToCome(HashOf[k], m)
    BY DEF HashInv, LoopInv
  <2>2. m = i
    BY <1>1, <2>1, IndexFacts DEF HashInv
  <2> QED
    BY <1>1, <2>1, <2>2
<1> QED
  BY <1>1, <1>3, <1>4, <1>11, <1>12 DEF HashInv

LEMMA BeginKeeps ==
  ASSUME HashInv, HashBegin
  PROVE  HashInv'
<1>1. /\ UNCHANGED <<entries, hashLen, hashRet>> /\ bucket' = 0 /\ offset' = 0
      /\ looping' = TRUE /\ visited' = {} /\ owed' = Present /\ disturbed' = FALSE
  BY DEF HashBegin
<1>2. HashTypeOK'
  <2>1. looping' \in BOOLEAN /\ disturbed' \in BOOLEAN
    BY <1>1, Zenon
  <2>2. bucket' \in 0..Buckets /\ offset' \in Nat /\ owed' \subseteq Keys /\ visited' \subseteq Keys
    BY <1>1, HashAssumption DEF Present
  <2> QED
    BY <1>1, <2>1, <2>2 DEF HashInv, HashTypeOK
<1>3. Sorted' /\ PresentCounted' /\ \A j, m : At(j, m)' <=> At(j, m)
  BY <1>1, EntriesKept DEF HashInv, PresentCounted
<1>4. ASSUME NEW k \in Present PROVE \E i \in Nat : At(k, i)' /\ ToCome(HashOf[k], i)'
  <2>1. PICK i \in Nat : k \in Keys /\ At(k, i)
    BY Lookup DEF HashInv
  <2>2. HashOf[k] \in Nat /\ i # 0
    BY <2>1, AtFacts DEF HashInv, Places
  <2>3. ToCome(HashOf[k], i)'
    BY <1>1, <2>2 DEF ToCome
  <2> QED
    BY <1>3, <2>1, <2>3
<1>5. bucket' \in Places
  BY <1>1, HashAssumption DEF Places
<1>6. LoopInv'
  BY <1>1, <1>4, <1>5 DEF LoopInv, Places
<1> QED
  BY <1>2, <1>3, <1>6 DEF HashInv

\* A cursor past the last bucket has nothing ahead.
LEMMA PastTheEnd ==
  ASSUME HashInv, UNCHANGED <<entries, hashLen, hashRet, visited, owed>>,
         bucket' = Buckets, offset' = 0, looping' \in BOOLEAN, disturbed' \in BOOLEAN,
         ~looping' \/ disturbed'
  PROVE  HashInv'
<1>1. HashTypeOK'
  BY HashAssumption DEF HashInv, HashTypeOK
<1>2. Sorted' /\ PresentCounted' /\ \A j, m : At(j, m)' <=> At(j, m)
  BY EntriesKept DEF HashInv, PresentCounted
<1>3. ASSUME NEW j \in Keys, NEW m PROVE ~ToCome(HashOf[j], m)'
  <2>1. HashOf[j] \in 0..Buckets - 1 /\ Buckets \in Nat
    BY HashAssumption
  <2> QED
    BY <2>1 DEF ToCome
<1>4. LoopInv'
  BY <1>2, <1>3 DEF HashInv, HashTypeOK, LoopInv
<1> QED
  BY <1>1, <1>2, <1>4 DEF HashInv

LEMMA EndKeeps ==
  ASSUME HashInv, HashEnd
  PROVE  HashInv' /\ (~disturbed => owed \subseteq visited)
<1>1. HashInv'
  BY PastTheEnd DEF HashEnd, HashInv, HashTypeOK
<1>2. ASSUME ~disturbed, NEW k \in owed, k \notin visited PROVE FALSE
  <2>1. k \in Keys
    BY DEF HashInv, HashTypeOK
  <2>2. PICK i \in Nat : At(k, i) /\ ToCome(HashOf[k], i)
    BY <1>2 DEF HashInv, LoopInv, HashEnd
  <2> QED
    BY <2>1, <2>2, AheadIsNext DEF HashInv, HashEnd
<1> QED
  BY <1>1, <1>2

LEMMA MergeKeeps ==
  ASSUME HashInv, MergeInto
  PROVE  HashInv'
<1>1. disturbed' \in BOOLEAN /\ (~looping' \/ disturbed')
  BY Zenon DEF MergeInto
<1> QED
  BY <1>1, PastTheEnd DEF MergeInto, HashInv, HashTypeOK

LEMMA BreakKeeps ==
  ASSUME HashInv, HashBreak
  PROVE  HashInv'
<1>1. UNCHANGED <<entries, hashLen, bucket, offset, hashRet, visited, owed, disturbed>> /\ ~looping'
      /\ looping' \in BOOLEAN
  BY DEF HashBreak, Cursor
<1> QED
  BY <1>1, EntriesKept DEF HashInv, HashTypeOK, PresentCounted, LoopInv, ToCome

-----------------------------------------------------------------------------
(* The invariant                                                           *)

LEMMA HashStart == HashInit => HashInv
<1> SUFFICES ASSUME HashInit PROVE HashInv
  OBVIOUS
<1>1. Buckets \in Nat \ {0} /\ HashOf \in [Keys -> Places]
  BY HashAssumption DEF Places
<1>2. /\ entries = [b \in Places |-> <<>>] /\ hashLen = 0 /\ bucket = 0 /\ offset = 0
      /\ hashRet = NULL /\ looping \in BOOLEAN /\ ~looping /\ visited = {} /\ owed = {}
      /\ disturbed \in BOOLEAN
  BY Zenon DEF HashInit
<1>3. HashTypeOK
  <2>1. entries \in [Places -> Seq(Entries)]
    BY <1>2
  <2> QED
    BY <1>1, <1>2, <2>1 DEF HashTypeOK
<1>4. \A b \in Places : DOMAIN entries[b] = {}
  BY <1>2
<1>5. Sorted
  BY <1>4 DEF Sorted
<1>6. Present = {}
  BY <1>1, <1>4, <1>3, <1>5, Lookup DEF At, Bucket
<1>7. PresentCounted
  BY <1>2, <1>6, FS_EmptySet DEF PresentCounted
<1>8. LoopInv
  BY <1>2 DEF LoopInv
<1> QED
  BY <1>3, <1>5, <1>7, <1>8 DEF HashInv

LEMMA HashKept == HashInv /\ [HashNext]_hashVars => HashInv'
<1> SUFFICES ASSUME HashInv, [HashNext]_hashVars PROVE HashInv'
  OBVIOUS
<1>1. ASSUME NEW k \in Keys, HashGet(k) PROVE HashInv'
  BY <1>1, GetKeeps
<1>2. ASSUME NEW k \in Keys, HashUnset(k) PROVE HashInv'
  BY <1>2, RemoveKeeps, UnsetAbsentKeeps
<1>3. ASSUME NEW k \in Keys, NEW v \in Values \cup {NULL}, HashSet(k, v) PROVE HashInv'
  BY <1>3, ReplaceKeeps, InsertKeeps
<1>4. CASE UNCHANGED hashVars
  <2>1. UNCHANGED <<entries, hashLen, bucket, offset, hashRet, looping, visited, owed, disturbed>>
    BY <1>4 DEF hashVars
  <2> QED
    BY <2>1, EntriesKept DEF HashInv, HashTypeOK, PresentCounted, LoopInv, ToCome
<1> QED
  BY <1>1, <1>2, <1>3, <1>4, BeginKeeps, StepKeeps, EndKeeps, BreakKeeps, MergeKeeps DEF HashNext

LEMMA HashAlways == HashSpec => []HashInv
BY HashStart, HashKept, PTL DEF HashSpec

\* Every key is once in the table, in its bucket, and h->len counts the keys
\* (src/hash.c:43-58, 144-162).
THEOREM TableWellFormed == HashSpec => [](HashTypeOK /\ WellFormed)
<1>1. HashInv => HashTypeOK /\ WellFormed
  BY DEF HashInv, Sorted, PresentCounted, WellFormed
<1> QED
  BY <1>1, HashAlways, PTL

-----------------------------------------------------------------------------
(* Loops                                                                   *)

\* Only hash_next() moves the cursor of a loop within the table, and only to
\* give it a key it has not had.
LEMMA LoopStepKept ==
  ASSUME HashInv, [HashNext]_hashVars
  PROVE  /\ looping /\ ~looping' /\ bucket' = Buckets /\ ~disturbed => owed \subseteq visited
         /\ looping /\ Cursor' # Cursor /\ bucket' # Buckets => visited' # visited
<1>1. CASE HashStep
  BY <1>1, StepKeeps DEF HashStep
<1>2. CASE HashEnd
  BY <1>2, EndKeeps DEF HashEnd
<1>3. CASE HashBreak
  <2>1. looping /\ ~disturbed => bucket # Buckets
    BY HashAssumption DEF HashInv, LoopInv, Places
  <2> QED
    BY <1>3, <2>1 DEF HashBreak, Cursor
<1>4. CASE HashBegin
  BY <1>4 DEF HashBegin
<1>5. CASE MergeInto
  BY <1>5 DEF MergeInto
<1>6. ASSUME UNCHANGED <<Cursor, looping>>
      PROVE  /\ looping /\ ~looping' /\ bucket' = Buckets /\ ~disturbed => owed \subseteq visited
             /\ looping /\ Cursor' # Cursor /\ bucket' # Buckets => visited' # visited
  BY <1>6
<1>7. ASSUME NEW k \in Keys, HashGet(k) \/ HashUnset(k) \/ \E v \in Values \cup {NULL} : HashSet(k, v)
      PROVE  UNCHANGED <<Cursor, looping>>
  BY <1>7 DEF HashGet, HashUnset, HashSet, Loop
<1>8. CASE UNCHANGED hashVars
  BY <1>6, <1>8 DEF hashVars, Cursor
<1> QED
  BY <1>1, <1>2, <1>3, <1>4, <1>5, <1>6, <1>7, <1>8 DEF HashNext

\* A for_each_key_value that ends by itself has been given every key that was
\* in the table when it began and has not been unset since, whatever its body
\* did, unless the cursor was moved under it (src/hash.c:165-186).
THEOREM LoopsComplete == HashSpec => LoopComplete
<1>1. HashInv /\ [HashNext]_hashVars
        => [looping /\ ~looping' /\ bucket' = Buckets /\ ~disturbed => owed \subseteq visited]_hashVars
  BY LoopStepKept
<1> QED
  BY <1>1, HashAlways, PTL DEF HashSpec, LoopComplete

\* Nor is it given a key twice that was not unset and set again.
THEOREM LoopsOnce == HashSpec => LoopOnce
<1>1. HashInv /\ [HashNext]_hashVars
        => [looping /\ Cursor' # Cursor /\ bucket' # Buckets => visited' # visited]_hashVars
  BY LoopStepKept
<1> QED
  BY <1>1, HashAlways, PTL DEF HashSpec, LoopOnce

-----------------------------------------------------------------------------
(* The map                                                                 *)

LEMMA MapStart == HashInit => Map!Init
<1> SUFFICES ASSUME HashInit PROVE Map!Init
  OBVIOUS
<1>1. HashInv
  BY HashStart
<1>2. Present = {}
  <2>1. \A b \in Places : DOMAIN entries[b] = {}
    BY DEF HashInit
  <2> QED
    BY <1>1, <2>1, Lookup, BucketType DEF HashInv, At, Bucket
<1>3. [k \in Present |-> Value(k)] = <<>>
  <2> HIDE DEF HashInit, Value
  <2> QED
    BY <1>2
<1>4. hashRet = NULL
  BY DEF HashInit
<1> QED
  BY <1>3, <1>4 DEF Map!Init

LEMMA MapOldFacts ==
  ASSUME NEW k \in Keys, NEW x
  PROVE  Map!Old(k, x) = IF Has(k) THEN Value(k) ELSE x
BY DEF Map!Old, Present

LEMMA MapStep == HashInv /\ [HashNext]_hashVars => [Map!Next]_<<PresentMap, hashRet>>
<1> SUFFICES ASSUME HashInv, [HashNext]_hashVars PROVE [Map!Next]_<<PresentMap, hashRet>>
  OBVIOUS
<1>1. ASSUME NEW k \in Keys, HashGet(k) PROVE Map!Get(k)
  <2>1. UNCHANGED entries
    BY <1>1, GetKeeps
  <2>2. hashRet' = IF Has(k) THEN Value(k) ELSE NULL
    BY <1>1 DEF HashGet
  <2> QED
    BY <2>1, <2>2, EntriesKept, MapOldFacts DEF Map!Get, PresentMap
<1>2. ASSUME NEW k \in Keys, HashUnset(k) PROVE Map!Unset(k)
  <2>1. hashRet' = IF Has(k) THEN Value(k) ELSE NULL
    BY <1>2 DEF HashUnset
  <2>2. PresentMap' = [j \in Present \ {k} |-> PresentMap[j]]
    <3>1. CASE Has(k)
      BY <1>2, <3>1, RemoveKeeps
    <3>2. CASE ~Has(k)
      BY <1>2, <3>2, UnsetAbsentKeeps, EntriesKept DEF PresentMap, Present
    <3> QED
      BY <3>1, <3>2
  <2> QED
    BY <2>1, <2>2, MapOldFacts DEF Map!Unset, PresentMap
<1>3. ASSUME NEW k \in Keys, NEW v \in Values \cup {NULL}, HashSet(k, v) PROVE Map!Set(k, v)
  <2>1. /\ PresentMap' = [j \in Present \cup {k} |-> IF j = k THEN v ELSE PresentMap[j]]
        /\ hashRet' = IF Has(k) THEN Value(k) ELSE v
    <3>1. CASE Has(k)
      BY <1>3, <3>1, ReplaceKeeps DEF PresentMap
    <3>2. CASE ~Has(k)
      BY <1>3, <3>2, InsertKeeps
    <3> QED
      BY <3>1, <3>2
  <2> QED
    BY <2>1, MapOldFacts DEF Map!Set, PresentMap
<1>4. ASSUME HashBegin \/ HashStep \/ HashEnd \/ HashBreak \/ MergeInto \/ UNCHANGED hashVars
      PROVE  UNCHANGED <<PresentMap, hashRet>>
  <2>1. UNCHANGED <<entries, hashRet>>
    BY <1>4 DEF HashBegin, HashStep, HashEnd, HashBreak, MergeInto, hashVars
  <2> QED
    BY <2>1, EntriesKept
<1> QED
  BY <1>1, <1>2, <1>3, <1>4 DEF HashNext, Map!Next

\* The table implements the map: what hash_get() finds is what was last set,
\* in whatever order keys of the bucket came and went, and each call returns
\* what the map's does (src/hash.c:101-162).
THEOREM MapImplemented == HashSpec => ImplementsMap
<1>1. [Map!Next]_<<PresentMap, hashRet>> <=> [Map!Next]_<<[k \in Present |-> Value(k)], hashRet>>
  BY DEF PresentMap
<1> QED
  BY <1>1, MapStart, MapStep, HashAlways, PTL DEF HashSpec, ImplementsMap, Map!Spec

(***************************************************************************)
(*                                  Cache                                  *)
(***************************************************************************)
EntryType == {FreeEntry} \cup [ident : Ids, data : Data, age : Ages]

\* An object is in the cache once.
StoredOnce ==
  \A s, t \in Used : ccEntries[s].data = ccEntries[t].data => s = t

CacheInv == CacheTypeOK /\ Coherent /\ StoredOnce /\ DestroyedGone

-----------------------------------------------------------------------------
(* What the invariant says of one entry and of one id                      *)

LEMMA AgesFit == 0 \in Ages /\ \A a \in Ages : a < OldAge => a + 1 \in Ages
  BY CacheAssumption DEF Ages

LEMMA SlotFacts ==
  ASSUME CacheTypeOK, NEW s \in Slots
  PROVE  /\ s \in Nat /\ s # NULL /\ s # Stale
         /\ ccEntries[s] \in EntryType
         /\ s \in Used => ccEntries[s] \in [ident : Ids, data : Data, age : Ages]
         /\ s \notin Used => ccEntries[s] = FreeEntry
<1>1. s \in Nat /\ ccEntries[s] \in EntryType
  BY CacheAssumption DEF CacheTypeOK, Slots, EntryType
<1>2. s # NULL /\ s # Stale
  BY <1>1, CacheAssumption
<1>3. FreeEntry.ident = NULL
  BY DEF FreeEntry
<1>4. ASSUME ccEntries[s] \in [ident : Ids, data : Data, age : Ages]
      PROVE  ccEntries[s].ident # NULL
  BY <1>4, CacheAssumption
<1> QED
  BY <1>1, <1>2, <1>3, <1>4 DEF Used, EntryType

\* What is looked up is an entry in use, the one with that id.
LEMMA CacheEntryFacts ==
  ASSUME CacheTypeOK, Coherent, NEW id
  PROVE  /\ Entry(id) # NULL => Entry(id) \in Used /\ ccEntries[Entry(id)].ident = id
         /\ \A s \in Used : ccEntries[s].ident = id => s = Entry(id)
<1>1. \A i \in DOMAIN index : i # NULL
  BY CacheAssumption DEF CacheTypeOK
<1> QED
  BY <1>1 DEF Coherent, Entry, Used

LEMMA NextFreeFacts ==
  ASSUME CacheTypeOK, Used # Slots
  PROVE  NextFree \in Slots \ Used
<1> DEFINE T == Slots \ Used
<1>1. T # {} /\ T \subseteq Nat
  BY SlotFacts DEF Used
<1>2. PICK s \in T : \A t \in T : ~ (<<t, s>> \in OpToRel(<, Nat))
  <2> HIDE DEF T
  <2> QED
    BY <1>1, NatLessThanWellFounded, WFMin
<1>3. ASSUME NEW t \in T PROVE s <= t
  <2>1. s \in Nat /\ t \in Nat
    BY <1>1
  <2>2. t < s => <<t, s>> \in OpToRel(<, Nat)
    BY <2>1 DEF OpToRel
  <2>3. ~ (t < s)
    BY <1>2, <2>2, Zenon
  <2> QED
    BY <2>1, <2>3
<1> QED
  BY <1>2, <1>3 DEF NextFree

-----------------------------------------------------------------------------
(* The parts of the invariant in terms of one step                         *)

\* A step that changes no ids and no objects, only ages.
LEMMA SameObjects ==
  ASSUME CacheInv, index' = index, Slots' = Slots,
         \A s \in Slots : /\ ccEntries'[s].ident = ccEntries[s].ident
                          /\ ccEntries'[s].data = ccEntries[s].data,
         destroyed' = {}
  PROVE  Coherent' /\ StoredOnce' /\ DestroyedGone'
<1>1. Used' = Used
  BY DEF Used
<1>2. StoredOnce' /\ DestroyedGone'
  BY <1>1 DEF CacheInv, StoredOnce, DestroyedGone, Used
<1>3. Coherent'
  BY <1>1 DEF CacheInv, Coherent, Entry, Used
<1> QED
  BY <1>2, <1>3

\* The types of the variables, from those of the entries and of the index.
LEMMA TypeStep ==
  ASSUME CacheTypeOK, Slots' = Slots, NEW ids \in SUBSET Ids,
         ccEntries' = [s \in Slots |-> ccEntries'[s]],
         \A s \in Slots : ccEntries'[s] \in EntryType,
         index' \in [ids -> Slots \cup {NULL, Stale}],
         expire' \in Expiries, destructor' \in BOOLEAN, destroyed' \subseteq Data,
         cacheRet' \in Data \cup {NULL}
  PROVE  CacheTypeOK'
<1>1. PICK n \in Sizes : ccEntries \in [1..n -> EntryType]
  BY DEF CacheTypeOK, EntryType
<1>2. Slots = 1..n
  BY <1>1 DEF Slots
<1>3. ccEntries' \in [1..n -> EntryType]
  BY <1>2
<1> QED
  BY <1>3 DEF CacheTypeOK, EntryType
-----------------------------------------------------------------------------
(* One lemma for each action                                               *)

LEMMA GetKeepsInv ==
  ASSUME CacheInv, NEW id \in Ids, CacheGet(id)
  PROVE  CacheInv'
<1>1. CASE Entry(id) = NULL
  BY <1>1, SameObjects DEF CacheGet, CacheInv, CacheTypeOK, Slots
<1>2. CASE Entry(id) # NULL
  <2> DEFINE e == Entry(id)
  <2>1. e \in Slots /\ ccEntries[e] \in [ident : Ids, data : Data, age : Ages]
    BY <1>2, CacheEntryFacts, SlotFacts DEF CacheInv, Used
  <2>2. ccEntries' \in {ccEntries, [ccEntries EXCEPT ![e].age = 0]}
    BY <1>2 DEF CacheGet
  <2> HIDE DEF e
  <2>3. \A s \in Slots : /\ ccEntries'[s].ident = ccEntries[s].ident
                         /\ ccEntries'[s].data = ccEntries[s].data
                         /\ ccEntries'[s] \in EntryType
    BY <2>1, <2>2, SlotFacts, AgesFit DEF Slots, EntryType, CacheInv
  <2>4. Slots' = Slots /\ ccEntries' = [s \in Slots |-> ccEntries'[s]]
    BY <2>2, SlotFacts DEF Slots, CacheInv, CacheTypeOK
  <2>5. cacheRet' \in Data
    BY <1>2, <2>1 DEF CacheGet, e
  <2>6. CacheTypeOK'
    BY <2>3, <2>4, <2>5, TypeStep DEF CacheGet, CacheInv, CacheTypeOK
  <2> QED
    BY <2>3, <2>4, <2>6, SameObjects DEF CacheGet, CacheInv
<1> QED
  BY <1>1, <1>2

LEMMA TouchKeepsInv ==
  ASSUME CacheInv, NEW id \in Ids, NEW age \in Ages, CacheTouch(id, age)
  PROVE  CacheInv'
<1>1. CASE Entry(id) = NULL
  BY <1>1, SameObjects DEF CacheTouch, CacheInv, CacheTypeOK, Slots
<1>2. CASE Entry(id) # NULL
  <2> DEFINE e == Entry(id)
  <2>1. e \in Slots /\ ccEntries[e] \in [ident : Ids, data : Data, age : Ages]
    BY <1>2, CacheEntryFacts, SlotFacts DEF CacheInv, Used
  <2>2. ccEntries' = [ccEntries EXCEPT ![e].age = age]
    BY <1>2 DEF CacheTouch
  <2> HIDE DEF e
  <2>3. \A s \in Slots : /\ ccEntries'[s].ident = ccEntries[s].ident
                         /\ ccEntries'[s].data = ccEntries[s].data
                         /\ ccEntries'[s] \in EntryType
    BY <2>1, <2>2, SlotFacts DEF Slots, EntryType, CacheInv
  <2>4. Slots' = Slots /\ ccEntries' = [s \in Slots |-> ccEntries'[s]]
    BY <2>2, SlotFacts DEF Slots, CacheInv, CacheTypeOK
  <2>5. CacheTypeOK'
    BY <2>3, <2>4, TypeStep DEF CacheTouch, CacheInv, CacheTypeOK
  <2> QED
    BY <2>3, <2>4, <2>5, SameObjects DEF CacheTouch, CacheInv
<1> QED
  BY <1>1, <1>2

LEMMA TickKeepsInv ==
  ASSUME CacheInv, CacheTick
  PROVE  CacheInv'
<1>1. Slots' = Slots /\ ccEntries' = [s \in Slots |-> ccEntries'[s]]
  BY DEF CacheTick, Slots
<1>2. ASSUME NEW s \in Slots
      PROVE  /\ ccEntries'[s].ident = ccEntries[s].ident
             /\ ccEntries'[s].data = ccEntries[s].data
             /\ ccEntries'[s] \in EntryType
  <2>1. CASE s \in Used /\ ccEntries[s].age < OldAge
    <3>1. ccEntries'[s] = [ccEntries[s] EXCEPT !.age = @ + 1]
      BY <2>1 DEF CacheTick
    <3>2. ccEntries[s] \in [ident : Ids, data : Data, age : Ages]
      BY <2>1, SlotFacts DEF CacheInv
    <3>3. ccEntries[s].age + 1 \in Ages
      BY <2>1, <3>2, AgesFit
    <3> QED
      BY <3>1, <3>2, <3>3 DEF EntryType
  <2>2. CASE ~(s \in Used /\ ccEntries[s].age < OldAge)
    BY <2>2, SlotFacts DEF CacheTick, CacheInv
  <2> QED
    BY <2>1, <2>2
<1>3. CacheTypeOK'
  BY <1>1, <1>2, TypeStep DEF CacheTick, CacheInv, CacheTypeOK
<1> QED
  BY <1>1, <1>2, <1>3, SameObjects DEF CacheTick, CacheInv

\* cache_set() of a new id or of one that is there: slot s gets it.
LEMMA StoreKeepsInv ==
  ASSUME CacheInv, NEW id \in Ids, NEW d \in Data, MayStore(id, d), NEW s \in Slots,
         s \notin Used => Entry(id) = NULL, s \in Used => s = Entry(id),
         ccEntries' = [ccEntries EXCEPT ![s] = [ident |-> id, data |-> d, age |-> 0]],
         index' = Point({id}, s) \/ (s \in Used /\ index' = index),
         destroyed' = {} \/ (s \in Used /\ destroyed' \subseteq {ccEntries[s].data} \ {d}),
         expire' = expire, destructor' = destructor, cacheRet' = d
  PROVE  CacheInv'
<1>1. Slots' = Slots /\ ccEntries' = [t \in Slots |-> ccEntries'[t]]
  BY DEF Slots
<1>2. /\ ccEntries'[s].ident = id /\ ccEntries'[s].data = d
      /\ \A t \in Slots \ {s} : ccEntries'[t] = ccEntries[t]
      /\ id # NULL
  BY CacheAssumption DEF Slots
<1>3. Used' = Used \cup {s}
  BY <1>1, <1>2 DEF Used
<1>4. ASSUME NEW t \in Slots PROVE ccEntries'[t] \in EntryType
  BY <1>2, AgesFit, SlotFacts DEF EntryType, CacheInv, Slots
<1>5. \A t \in Used \ {s} : ccEntries[t].ident # id /\ ccEntries[t].data # d
  BY CacheEntryFacts, SlotFacts DEF CacheInv, MayStore, Used
<1> DEFINE EntryNow(i) == IF i \in DOMAIN index' THEN index'[i] ELSE NULL
<1>6. /\ EntryNow(id) = s
      /\ \A i : i # id => EntryNow(i) = Entry(i) /\ (i \in DOMAIN index' <=> i \in DOMAIN index)
  <2>1. CASE index' = Point({id}, s)
    BY <2>1 DEF Entry, Point
  <2>2. CASE s \in Used /\ index' = index
    BY <2>2 DEF Entry
  <2> QED
    BY <2>1, <2>2
<1>7. CacheTypeOK'
  <2>1. PICK ids \in SUBSET Ids : index' \in [ids -> Slots \cup {NULL, Stale}]
    <3>1. PICK old \in SUBSET Ids : index \in [old -> Slots \cup {NULL, Stale}]
      BY DEF CacheInv, CacheTypeOK
    <3>2. index' = index \/ index' \in [old \cup {id} -> Slots \cup {NULL, Stale}]
      BY <3>1 DEF Point
    <3> QED
      BY <3>1, <3>2
  <2>2. destroyed' \subseteq Data
    BY SlotFacts DEF CacheInv
  <2> QED
    BY <1>1, <1>4, <2>1, <2>2, TypeStep DEF CacheInv, CacheTypeOK
<1>8. Coherent'
  <2>1. ASSUME NEW i \in DOMAIN index', index'[i] # NULL
        PROVE  index'[i] \in Slots /\ ccEntries'[index'[i]].ident = i
    <3>1. CASE i = id
      BY <1>2, <1>6, <2>1, <3>1 DEF Entry
    <3>2. CASE i # id
      <4>1. i \in DOMAIN index /\ index'[i] = index[i]
        BY <1>6, <2>1, <3>2 DEF Entry
      <4>2. index[i] \in Slots /\ ccEntries[index[i]].ident = i
        BY <2>1, <4>1 DEF CacheInv, Coherent
      <4>3. index[i] # s
        BY <2>1, <3>2, <4>1, <4>2, SlotFacts, CacheEntryFacts DEF CacheInv, Entry, Used
      <4> QED
        BY <1>2, <4>1, <4>2, <4>3
    <3> QED
      BY <3>1, <3>2
  <2>2. ASSUME NEW t \in Used' PROVE EntryNow(ccEntries'[t].ident) = t
    <3>1. CASE t = s
      BY <1>2, <1>6, <3>1
    <3>2. CASE t # s
      BY <1>2, <1>3, <1>5, <1>6, <3>2 DEF CacheInv, Coherent, Used
    <3> QED
      BY <3>1, <3>2
  <2> QED
    BY <1>1, <2>1, <2>2 DEF Coherent, Entry
<1>9. StoredOnce'
  BY <1>2, <1>3, <1>5 DEF CacheInv, StoredOnce, Used
<1>10. DestroyedGone'
  <2>1. \A t \in Used \ {s} : s \in Used => ccEntries[t].data # ccEntries[s].data
    BY DEF CacheInv, StoredOnce
  <2> QED
    BY <1>2, <1>3, <2>1 DEF DestroyedGone, Used
<1> QED
  BY <1>7, <1>8, <1>9, <1>10 DEF CacheInv

\* cache_unset() and cache_purge(): the entries of `old' become free.
LEMMA RemoveKeepsInv ==
  ASSUME CacheInv, NEW old \in SUBSET Used,
         ccEntries' = [s \in Slots |-> IF s \in old THEN FreeEntry ELSE ccEntries[s]],
         index' = Point({ccEntries[s].ident : s \in old}, NULL),
         destroyed' \subseteq {ccEntries[s].data : s \in old},
         expire' = expire, destructor' = destructor, cacheRet' \in Data \cup {NULL}
  PROVE  CacheInv'
<1> DEFINE EntryNow(i) == IF i \in DOMAIN index' THEN index'[i] ELSE NULL
           Gone == {ccEntries[s].ident : s \in old}
<1>1. Slots' = Slots /\ ccEntries' = [s \in Slots |-> ccEntries'[s]]
  BY DEF Slots
<1>2. \A s \in Slots : /\ s \in old => ccEntries'[s] = FreeEntry
                       /\ s \notin old => ccEntries'[s] = ccEntries[s]
  OBVIOUS
<1>3. Used' = Used \ old /\ Used \subseteq Slots /\ old \subseteq Used
  BY <1>1, <1>2 DEF Used, FreeEntry
<1>4. \A i : /\ i \in Gone => EntryNow(i) = NULL
             /\ i \notin Gone => EntryNow(i) = Entry(i)
             /\ i \in DOMAIN index' => i \in DOMAIN index \cup Gone
  BY DEF Entry, Point
<1>5. \A s \in Used : ccEntries[s].ident \in Gone <=> s \in old
  BY CacheEntryFacts DEF CacheInv
<1>6. CacheTypeOK'
  <2>1. PICK ids \in SUBSET Ids : index' \in [ids -> Slots \cup {NULL, Stale}]
    <3>1. PICK ids \in SUBSET Ids : index \in [ids -> Slots \cup {NULL, Stale}]
      BY DEF CacheInv, CacheTypeOK
    <3>2. Gone \subseteq Ids
      BY <1>3, SlotFacts DEF CacheInv
    <3> HIDE DEF Gone
    <3>3. index' \in [ids \cup Gone -> Slots \cup {NULL, Stale}]
      BY <3>1 DEF Point, Gone
    <3> QED
      BY <3>1, <3>2, <3>3
  <2>2. destroyed' \subseteq Data
    BY <1>3, SlotFacts DEF CacheInv
  <2>3. \A s \in Slots : ccEntries'[s] \in EntryType
    BY <1>2, SlotFacts DEF CacheInv, EntryType
  <2> QED
    BY <1>1, <2>1, <2>2, <2>3, TypeStep DEF CacheInv, CacheTypeOK
<1>7. Coherent'
  <2>1. ASSUME NEW i \in DOMAIN index', EntryNow(i) # NULL
        PROVE  EntryNow(i) \in Slots /\ ccEntries'[EntryNow(i)].ident = i
    <3>1. i \notin Gone /\ EntryNow(i) = Entry(i)
      BY <1>4, <2>1
    <3>2. Entry(i) \in Used /\ ccEntries[Entry(i)].ident = i
      BY <2>1, <3>1, CacheEntryFacts DEF CacheInv
    <3> QED
      BY <1>2, <1>3, <1>5, <3>1, <3>2
  <2>2. ASSUME NEW s \in Used' PROVE EntryNow(ccEntries'[s].ident) = s
    <3>1. s \in Used /\ s \notin old /\ ccEntries'[s] = ccEntries[s]
      BY <1>2, <1>3
    <3>2. EntryNow(ccEntries[s].ident) = Entry(ccEntries[s].ident)
      BY <1>4, <1>5, <3>1
    <3>3. Entry(ccEntries[s].ident) = s
      BY <3>1 DEF CacheInv, Coherent
    <3> QED
      BY <3>1, <3>2, <3>3
  <2> QED
    BY <1>1, <2>1, <2>2 DEF Coherent, Entry, EntryNow
<1>8. StoredOnce'
  BY <1>2, <1>3 DEF CacheInv, StoredOnce
<1>9. DestroyedGone'
  <2>1. \A s \in Used \ old : \A t \in old : ccEntries[s].data # ccEntries[t].data
    BY <1>3 DEF CacheInv, StoredOnce
  <2> QED
    BY <1>2, <1>3, <2>1 DEF DestroyedGone
<1> QED
  BY <1>6, <1>7, <1>8, <1>9 DEF CacheInv

\* cache_resize() of an empty cache, and cache_free() with cache_new().
LEMMA NewKeepsInv ==
  ASSUME CacheInv, NEW n \in Sizes, ccEntries' = CacheNew(n),
         \/ index' = <<>>
         \/ Used = {} /\ index' = [id \in DOMAIN index |-> IF index[id] = NULL THEN NULL ELSE Stale],
         destroyed' \subseteq {ccEntries[s].data : s \in Used},
         expire' \in Expiries, destructor' \in BOOLEAN, cacheRet' = cacheRet
  PROVE  CacheInv'
<1>1. Slots' = 1..n /\ ccEntries' \in [1..n -> {FreeEntry}] /\ Used' = {}
  BY DEF Slots, Used, CacheNew, FreeEntry
<1>2. \A id \in DOMAIN index' : id \in DOMAIN index /\ index'[id] = NULL
  <2>1. Used = {} => \A id \in DOMAIN index : index[id] = NULL
    BY CacheEntryFacts DEF CacheInv, Entry
  <2> QED
    BY <2>1
<1>3. \E ids \in SUBSET Ids : index' \in [ids -> {NULL}]
  <2>1. DOMAIN index' \subseteq Ids
    BY <1>2 DEF CacheInv, CacheTypeOK
  <2>2. CASE index' = <<>>
    <3>1. index' \in [{} -> {NULL}]
      BY <2>2
    <3> QED
      BY <3>1
  <2>3. CASE index' = [id \in DOMAIN index |-> IF index[id] = NULL THEN NULL ELSE Stale]
    BY <1>2, <2>1, <2>3
  <2> QED
    BY <2>2, <2>3
<1>4. destroyed' \subseteq Data
  BY SlotFacts DEF CacheInv, Used
<1>5. CacheTypeOK'
  BY <1>1, <1>3, <1>4 DEF CacheTypeOK, CacheInv
<1>6. Coherent' /\ StoredOnce' /\ DestroyedGone'
  BY <1>1, <1>2 DEF Coherent, StoredOnce, DestroyedGone
<1> QED
  BY <1>5, <1>6 DEF CacheInv

-----------------------------------------------------------------------------
(* The theorems                                                            *)

LEMMA CacheStep ==
  ASSUME ~GrowsInUse, CacheInv, [CacheNext]_cacheVars
  PROVE  CacheInv'
<1>1. ASSUME NEW id \in Ids, CacheGet(id) PROVE CacheInv'
  BY <1>1, GetKeepsInv
<1>2. ASSUME NEW id \in Ids, CacheUnset(id) PROVE CacheInv'
  <2>1. CASE Entry(id) = NULL
    BY <1>2, <2>1, SameObjects DEF CacheUnset, CacheInv, CacheTypeOK, Slots
  <2>2. CASE Entry(id) # NULL
    <3>1. /\ Entry(id) \in Used /\ ccEntries[Entry(id)].ident = id
          /\ ccEntries[Entry(id)].data \in Data /\ DOMAIN ccEntries = Slots
      BY <2>2, CacheEntryFacts, SlotFacts DEF CacheInv, Used, Slots
    <3>2. ccEntries' = [s \in Slots |-> IF s \in {Entry(id)} THEN FreeEntry ELSE ccEntries[s]]
      BY <1>2, <2>2, <3>1 DEF CacheUnset, CacheInv, CacheTypeOK
    <3>3. {ccEntries[s].ident : s \in {Entry(id)}} = {id}
      BY <3>1
    <3> QED
      BY <1>2, <2>2, <3>1, <3>2, <3>3, RemoveKeepsInv DEF CacheUnset
  <2> QED
    BY <2>1, <2>2
<1>3. ASSUME NEW id \in Ids, NEW age \in Ages, CacheTouch(id, age) PROVE CacheInv'
  BY <1>3, TouchKeepsInv
<1>4. ASSUME NEW id \in Ids, NEW d \in Data, CacheReplace(id, d) PROVE CacheInv'
  <2>1. Entry(id) \in Used /\ Entry(id) \in Slots
    BY <1>4, CacheEntryFacts DEF CacheReplace, CacheInv, Used
  <2>2. destroyed' \subseteq {ccEntries[Entry(id)].data} \ {d}
    BY <1>4 DEF CacheReplace, DestroyObjects
  <2> QED
    BY <1>4, <2>1, <2>2, StoreKeepsInv DEF CacheReplace
<1>5. ASSUME NEW id \in Ids, NEW d \in Data, CacheInsert(id, d) PROVE CacheInv'
  <2>1. CASE Used = Slots
    BY <1>5, <2>1, SameObjects DEF CacheInsert, CacheInv, CacheTypeOK, Slots
  <2>2. CASE Used # Slots
    BY <1>5, <2>2, NextFreeFacts, StoreKeepsInv DEF CacheInsert, CacheInv
  <2> QED
    BY <2>1, <2>2
<1>6. ASSUME NEW old \in SUBSET Used, CachePurge(old) PROVE CacheInv'
  <2>1. cacheRet' \in Data \cup {NULL} /\ destroyed' \subseteq {ccEntries[s].data : s \in old}
    BY <1>6 DEF CachePurge, DestroyObjects, CacheInv, CacheTypeOK
  <2> QED
    BY <1>6, <2>1, RemoveKeepsInv DEF CachePurge
<1>7. ASSUME NEW e \in Expiries, SetExpiry(e) PROVE CacheInv'
  BY <1>7, SameObjects DEF SetExpiry, CacheInv, CacheTypeOK, Slots
<1>8. ASSUME NEW f \in BOOLEAN, SetDestructor(f) PROVE CacheInv'
  BY <1>8, SameObjects DEF SetDestructor, CacheInv, CacheTypeOK, Slots
<1>9. ASSUME NEW n \in Sizes, CacheResize(n) PROVE CacheInv'
  <2>1. Used = {} /\ destroyed' \subseteq {ccEntries[s].data : s \in Used}
    BY <1>9 DEF CacheResize, DestroyObjects
  <2>2. expire' \in Expiries /\ destructor' \in BOOLEAN
    BY <1>9 DEF CacheResize, CacheInv, CacheTypeOK
  <2> QED
    BY <1>9, <2>1, <2>2, NewKeepsInv DEF CacheResize
<1>10. ASSUME NEW n \in Sizes, NEW e \in Expiries, CacheRenew(n, e) PROVE CacheInv'
  <2>1. destroyed' \subseteq {ccEntries[s].data : s \in Used}
    BY <1>10 DEF CacheRenew, DestroyObjects
  <2> QED
    BY <1>10, <2>1, NewKeepsInv DEF CacheRenew
<1>11. CASE CacheTick
  BY <1>11, TickKeepsInv
<1>12. CASE UNCHANGED cacheVars
  BY <1>12 DEF cacheVars, CacheInv, CacheTypeOK, Coherent, StoredOnce, DestroyedGone,
               Entry, Used, Slots
<1> QED
  BY <1>1, <1>2, <1>3, <1>4, <1>5, <1>6, <1>7, <1>8, <1>9, <1>10, <1>11, <1>12
     DEF CacheNext, OldEntries

LEMMA CacheStart == CacheInit => CacheInv
<1> SUFFICES ASSUME CacheInit PROVE CacheInv
  OBVIOUS
<1>1. PICK n \in Sizes : ccEntries = CacheNew(n)
  BY DEF CacheInit
<1>2. Slots = 1..n /\ ccEntries \in [1..n -> {FreeEntry}] /\ Used = {}
  BY <1>1 DEF Slots, Used, CacheNew, FreeEntry
<1>3. index \in [{} -> Slots \cup {NULL, Stale}] /\ DOMAIN index = {}
  BY DEF CacheInit
<1>4. CacheTypeOK
  <2>1. {} \in SUBSET Ids
    OBVIOUS
  <2> QED
    BY <1>2, <1>3, <2>1 DEF CacheInit, CacheTypeOK
<1> QED
  BY <1>2, <1>3, <1>4 DEF CacheInit, CacheInv, Coherent, StoredOnce, DestroyedGone

\* A cache is well-formed, and its index leads to the entries and to nothing
\* else, whatever is stored, replaced, removed, purged or left to age
\* (src/cache.c:126-149, 229-274).
THEOREM CacheCoherent ==
  ASSUME ~GrowsInUse
  PROVE  CacheSpec => [](CacheTypeOK /\ Coherent)
<1>1. CacheInit => CacheInv
  BY CacheStart
<1>2. CacheInv /\ [CacheNext]_cacheVars => CacheInv'
  BY CacheStep
<1>3. CacheInv => CacheTypeOK /\ Coherent
  BY DEF CacheInv
<1> QED
  BY <1>1, <1>2, <1>3, PTL DEF CacheSpec

\* Every object is in the cache, with the caller or destroyed, and never two of
\* these: none is handed out after it was destroyed or destroyed twice, and
\* none leaks (src/cache.c:126-149, 229-274).
THEOREM ObjectsAccountedFor ==
  ASSUME ~GrowsInUse
  PROVE  CacheSpec => ObjectsDestroyed
<1>1. CacheInit => CacheInv
  BY CacheStart
<1>2. CacheInv /\ [CacheNext]_cacheVars => CacheInv'
  BY CacheStep
<1>3. CacheInv => DestroyedGone
  BY DEF CacheInv
<1> DEFINE Leaving == {ccEntries[s].data : s \in Used} \ {ccEntries'[s].data : s \in Slots'}
           Told == destructor => Leaving \subseteq destroyed' \cup {cacheRet'}
<1>4. CacheInv /\ [CacheNext]_cacheVars => [Told]_cacheVars
  <2> SUFFICES ASSUME CacheInv, CacheNext, destructor
               PROVE  Leaving \subseteq destroyed' \cup {cacheRet'}
    OBVIOUS
  <2>1. ASSUME Slots' = Slots, \A s \in Used : ccEntries'[s].data = ccEntries[s].data
        PROVE  Leaving = {}
    BY <2>1 DEF Used
  <2>2. ASSUME NEW id \in Ids, CacheGet(id) \/ \E age \in Ages : CacheTouch(id, age)
        PROVE  Leaving = {}
    <3>1. Slots' = Slots /\ \A s \in Used : ccEntries'[s].data = ccEntries[s].data
      <4>1. CASE UNCHANGED ccEntries
        BY <4>1 DEF Slots
      <4>2. CASE \E age \in Ages : ccEntries' = [ccEntries EXCEPT ![Entry(id)].age = age]
        BY <4>2, SlotFacts DEF CacheInv, Used, Slots
      <4> QED
        BY <2>2, <4>1, <4>2, AgesFit DEF CacheGet, CacheTouch
    <3> QED
      BY <2>1, <3>1
  <2>3. ASSUME NEW id \in Ids, NEW d \in Data, CacheReplace(id, d)
        PROVE  Leaving \subseteq destroyed' \cup {cacheRet'}
    <3>1. Entry(id) \in Used
      BY <2>3, CacheEntryFacts DEF CacheReplace, CacheInv
    <3>2. /\ Slots' = Slots
          /\ \A s \in Used \ {Entry(id)} : ccEntries'[s] = ccEntries[s]
          /\ destroyed' = {ccEntries[Entry(id)].data} \ {d} /\ cacheRet' = d
      BY <2>3 DEF CacheReplace, DestroyObjects, Slots, Used
    <3>3. Leaving \subseteq {ccEntries[Entry(id)].data}
      BY <3>1, <3>2 DEF Used
    <3> QED
      BY <3>2, <3>3
  <2>4. ASSUME NEW id \in Ids, NEW d \in Data, CacheInsert(id, d) PROVE Leaving = {}
    <3>1. Slots' = Slots /\ \A s \in Used : ccEntries'[s].data = ccEntries[s].data
      <4>1. CASE Used = Slots
        BY <2>4, <4>1 DEF CacheInsert, Slots
      <4>2. CASE Used # Slots
        <5>1. NextFree \in Slots \ Used
          BY <4>2, NextFreeFacts DEF CacheInv
        <5>2. ccEntries' = [ccEntries EXCEPT ![NextFree] = [ident |-> id, data |-> d, age |-> 0]]
          BY <2>4, <4>2 DEF CacheInsert
        <5> QED
          BY <5>1, <5>2 DEF Slots, Used
      <4> QED
        BY <4>1, <4>2
    <3> QED
      BY <2>1, <3>1
  <2>5. ASSUME NEW id \in Ids, CacheUnset(id) PROVE Leaving \subseteq {cacheRet'}
    <3>1. CASE Entry(id) = NULL
      BY <2>1, <2>5, <3>1 DEF CacheUnset, Slots
    <3>2. CASE Entry(id) # NULL
      <4>1. Entry(id) \in Used
        BY <3>2, CacheEntryFacts DEF CacheInv
      <4>2. /\ Slots' = Slots
            /\ \A s \in Used \ {Entry(id)} : ccEntries'[s] = ccEntries[s]
            /\ cacheRet' = ccEntries[Entry(id)].data
        BY <2>5, <3>2 DEF CacheUnset, Slots, Used
      <4> QED
        BY <4>1, <4>2 DEF Used
    <3> QED
      BY <3>1, <3>2
  <2>6. ASSUME NEW old \in SUBSET Used, CachePurge(old) PROVE Leaving \subseteq destroyed'
    <3>1. /\ Slots' = Slots
          /\ \A s \in Used \ old : ccEntries'[s] = ccEntries[s]
          /\ destroyed' = {ccEntries[s].data : s \in old}
      BY <2>6 DEF CachePurge, DestroyObjects, Slots, Used
    <3> QED
      BY <3>1 DEF Used
  <2>7. ASSUME \/ \E e \in Expiries : SetExpiry(e)
               \/ \E f \in BOOLEAN : SetDestructor(f)
        PROVE  Leaving = {}
    BY <2>1, <2>7 DEF SetExpiry, SetDestructor, Slots
  <2>8. ASSUME NEW n \in Sizes, CacheResize(n) \/ \E e \in Expiries : CacheRenew(n, e)
        PROVE  Leaving \subseteq destroyed'
    BY <2>8 DEF CacheResize, CacheRenew, DestroyObjects
  <2>9. ASSUME CacheTick PROVE Leaving = {}
    <3>1. Slots' = Slots /\ \A s \in Used : ccEntries'[s].data = ccEntries[s].data
      BY <2>9, SlotFacts DEF CacheTick, CacheInv, Used, Slots
    <3> QED
      BY <2>1, <3>1
  <2> HIDE DEF Leaving
  <2> QED
    BY <2>2, <2>3, <2>4, <2>5, <2>6, <2>7, <2>8, <2>9 DEF CacheNext, OldEntries
<1> QED
  BY <1>1, <1>2, <1>3, <1>4, PTL DEF CacheSpec, ObjectsDestroyed, NoneLost

-----------------------------------------------------------------------------
(* The bounded cache                                                       *)

\* The ids that the index leads somewhere from, and what is seen of an entry.
Indexed == {id \in DOMAIN index : index[id] # NULL}
View(s) == [data |-> ccEntries[s].data, age |-> ccEntries[s].age]

LEMMA PresentFacts ==
  ASSUME CacheInv
  PROVE  /\ Indexed = {ccEntries[s].ident : s \in Used}
         /\ \A id : id \in Indexed <=> Entry(id) # NULL
         /\ \A id \in Indexed : /\ index[id] = Entry(id) /\ Entry(id) \in Used
                               /\ ccEntries[Entry(id)].ident = id
         /\ \A s \in Used : ccEntries[s].ident \in Indexed /\ Entry(ccEntries[s].ident) = s
<1>1. \A id : id \in Indexed <=> Entry(id) # NULL
  BY DEF Indexed, Entry
<1>2. \A id \in Indexed : /\ index[id] = Entry(id) /\ Entry(id) \in Used
                         /\ ccEntries[Entry(id)].ident = id
  <2> SUFFICES ASSUME NEW id \in Indexed
               PROVE  /\ index[id] = Entry(id) /\ Entry(id) \in Used
                      /\ ccEntries[Entry(id)].ident = id
    OBVIOUS
  <2>1. index[id] = Entry(id) /\ Entry(id) # NULL
    BY DEF Indexed, Entry
  <2> QED
    BY <2>1, CacheEntryFacts DEF CacheInv
<1>3. \A s \in Used : ccEntries[s].ident \in Indexed /\ Entry(ccEntries[s].ident) = s
  <2> SUFFICES ASSUME NEW s \in Used
               PROVE  ccEntries[s].ident \in Indexed /\ Entry(ccEntries[s].ident) = s
    OBVIOUS
  <2>1. Entry(ccEntries[s].ident) = s
    BY DEF CacheInv, Coherent
  <2>2. s # NULL
    BY SlotFacts DEF CacheInv, Used
  <2> QED
    BY <1>1, <2>1, <2>2
<1> QED
  BY <1>1, <1>2, <1>3

LEMMA ContentsSeen ==
  CacheInv => Contents = [id \in Indexed |-> View(index[id])]
<1> SUFFICES ASSUME CacheInv PROVE Contents = [id \in Indexed |-> View(index[id])]
  OBVIOUS
<1>1. Indexed = {ccEntries[s].ident : s \in Used}
  BY PresentFacts
<1>2. ASSUME NEW id \in Indexed
      PROVE  (CHOOSE s \in Used : ccEntries[s].ident = id) = index[id]
  <2>1. index[id] = Entry(id) /\ Entry(id) \in Used /\ ccEntries[Entry(id)].ident = id
    BY PresentFacts
  <2>2. \A s \in Used : ccEntries[s].ident = id => s = Entry(id)
    BY CacheEntryFacts DEF CacheInv
  <2> QED
    BY <2>1, <2>2
<1> QED
  BY <1>1, <1>2 DEF Contents, View

LEMMA ContentsSeenNext ==
  ASSUME CacheInv'
  PROVE  Contents' = [id \in Indexed' |-> View(index[id])']
<1>1. (CacheInv => Contents = [id \in Indexed |-> View(index[id])])'
  BY ContentsSeen, PTL
<1> QED
  BY <1>1

LEMMA ContentsFacts ==
  ASSUME CacheInv
  PROVE  /\ DOMAIN Contents = Indexed
         /\ \A id \in Indexed : Contents[id] = View(Entry(id))
         /\ \A id \in Indexed : /\ Contents[id].data \in Data /\ Contents[id].data # NULL
                               /\ Contents[id].age \in Ages
<1>1. DOMAIN Contents = Indexed /\ \A id \in Indexed : Contents[id] = View(Entry(id))
  BY ContentsSeen, PresentFacts
<1>2. \A id \in Indexed : View(Entry(id)).data \in Data /\ View(Entry(id)).age \in Ages
  BY PresentFacts, SlotFacts DEF CacheInv, View, Used
<1> QED
  BY <1>1, <1>2, CacheAssumption

\* No more ids than entries, and as many when all of them are in use.
LEMMA RoomMade ==
  ASSUME CacheInv
  PROVE  /\ Cardinality(Slots) \in Sizes /\ Cardinality(Slots) \in Nat
         /\ Cardinality(Indexed) \in Nat /\ Cardinality(Indexed) <= Cardinality(Slots)
         /\ Cardinality(Indexed) = Cardinality(Slots) <=> Used = Slots
<1>1. PICK n \in Sizes : Slots = 1..n
  BY DEF CacheInv, CacheTypeOK, Slots
<1>2. n \in Nat
  BY CacheAssumption
<1>3. IsFiniteSet(Slots) /\ Cardinality(Slots) = n
  BY <1>1, <1>2, FS_Interval
<1>4. /\ IsFiniteSet(Used) /\ Cardinality(Used) <= n
      /\ Cardinality(Used) = n => Used = Slots
  BY <1>3, FS_Subset DEF Used
<1>5. Cardinality(Indexed) = Cardinality(Used)
  <2> DEFINE f == [s \in Used |-> ccEntries[s].ident]
  <2>1. f \in Bijection(Used, Indexed)
    <3>1. f \in [Used -> Indexed] /\ \A id \in Indexed : \E s \in Used : f[s] = id
      BY PresentFacts
    <3>2. \A s, t \in Used : f[s] = f[t] => s = t
      BY PresentFacts
    <3> QED
      BY <3>1, <3>2 DEF Bijection, Injection, Surjection, IsInjective
  <2> QED
    BY <1>4, <2>1, FS_Bijection DEF ExistsBijection
<1>6. Cardinality(Used) \in Nat
  BY <1>4, FS_CardinalityType
<1> QED
  BY <1>2, <1>3, <1>4, <1>5, <1>6

LEMMA SameContents ==
  ASSUME ccEntries' = ccEntries
  PROVE  Contents' = Contents /\ Slots' = Slots
  BY DEF Contents, Used, Slots

\* An entry whose age is set is the object whose age is set.
LEMMA Stamped ==
  ASSUME CacheInv, CacheInv', index' = index, NEW id, Entry(id) # NULL, NEW age,
         ccEntries' = [ccEntries EXCEPT ![Entry(id)].age = age]
  PROVE  Contents' = [Contents EXCEPT ![id].age = age] /\ Slots' = Slots
<1>1. Indexed' = Indexed /\ Slots' = Slots
  BY DEF Indexed, Slots
<1>2. id \in Indexed /\ index[id] = Entry(id) /\ Entry(id) \in Slots
  BY PresentFacts DEF Used
<1>3. /\ ccEntries'[Entry(id)].data = ccEntries[Entry(id)].data
      /\ ccEntries'[Entry(id)].age = age
  <2>1. ccEntries[Entry(id)] \in [ident : Ids, data : Data, age : Ages]
    BY PresentFacts, SlotFacts, <1>2 DEF CacheInv
  <2> QED
    BY <1>2, <2>1 DEF Slots
<1>4. \A s \in Slots : s # Entry(id) => ccEntries'[s] = ccEntries[s]
  BY DEF Slots
<1>5. ASSUME NEW i \in Indexed
      PROVE  View(index[i])' = IF i = id THEN [View(index[i]) EXCEPT !.age = age] ELSE View(index[i])
  <2>1. index[i] \in Slots /\ (i # id => index[i] # Entry(id))
    BY PresentFacts, <1>2 DEF Used
  <2> QED
    BY <1>2, <1>3, <1>4, <2>1 DEF View
<1>6. Contents = [i \in Indexed |-> View(index[i])]
  BY ContentsSeen
<1>7. Contents' = [i \in Indexed |-> View(index[i])']
  BY <1>1, ContentsSeenNext
<1> QED
  BY <1>1, <1>2, <1>5, <1>6, <1>7

\* Entries that become free are objects that are gone.
LEMMA Removed ==
  ASSUME CacheInv, CacheInv', NEW old \in SUBSET Used,
         ccEntries' = [s \in Slots |-> IF s \in old THEN FreeEntry ELSE ccEntries[s]],
         index' = Point({ccEntries[s].ident : s \in old}, NULL)
  PROVE  /\ Contents' = [id \in Indexed \ {ccEntries[s].ident : s \in old} |-> Contents[id]]
         /\ Slots' = Slots
<1> DEFINE Gone == {ccEntries[s].ident : s \in old}
<1>1. Slots' = Slots
  BY DEF Slots
<1>2. Indexed' = Indexed \ Gone
  <2> HIDE DEF Gone
  <2> QED
    BY DEF Indexed, Point, Gone
<1>3. ASSUME NEW i \in Indexed \ Gone
      PROVE  View(index[i])' = View(index[i])
  <2>1. index[i] \in Used /\ ccEntries[index[i]].ident = i /\ index'[i] = index[i]
    BY PresentFacts DEF Point, Indexed
  <2>2. index[i] \notin old /\ index[i] \in Slots
    BY <2>1, <1>3 DEF Used
  <2>3. ccEntries'[index'[i]] = ccEntries[index[i]]
    BY <2>1, <2>2
  <2> QED
    BY <2>3 DEF View
<1>4. Contents = [i \in Indexed |-> View(index[i])]
  BY ContentsSeen
<1>5. Contents' = [i \in Indexed \ Gone |-> View(index[i])']
  BY <1>2, ContentsSeenNext
<1>6. Contents' = [i \in Indexed \ Gone |-> Contents[i]]
  <2> HIDE DEF Gone
  <2> QED
    BY <1>3, <1>4, <1>5
<1> QED
  BY <1>1, <1>6

\* An entry that is written is the object that is stored.
LEMMA Stored ==
  ASSUME CacheInv, CacheInv', NEW id, NEW d, NEW s \in Slots,
         s = Entry(id) \/ (s \notin Used /\ Entry(id) = NULL),
         ccEntries' = [ccEntries EXCEPT ![s] = [ident |-> id, data |-> d, age |-> 0]],
         (index' = index /\ s = Entry(id)) \/ index' = Point({id}, s)
  PROVE  /\ Contents' = [i \in Indexed \cup {id} |->
                           IF i = id THEN [data |-> d, age |-> 0] ELSE Contents[i]]
         /\ Slots' = Slots
<1>1. Slots' = Slots /\ s # NULL
  BY SlotFacts DEF Slots, CacheInv
<1>2. Indexed' = Indexed \cup {id}
  BY <1>1, PresentFacts DEF Indexed, Point, Entry
<1>3. index'[id] = s /\ \A i \in Indexed \ {id} : index'[i] = index[i]
  BY <1>1, PresentFacts DEF Indexed, Point, Entry
<1>4. ccEntries'[s] = [ident |-> id, data |-> d, age |-> 0]
      /\ \A t \in Slots \ {s} : ccEntries'[t] = ccEntries[t]
  BY DEF Slots
<1>5. View(index[id])' = [data |-> d, age |-> 0]
  BY <1>3, <1>4 DEF View
<1>6. ASSUME NEW i \in Indexed \ {id}
      PROVE  View(index[i])' = View(index[i])
  <2>1. index[i] \in Used /\ ccEntries[index[i]].ident = i /\ index'[i] = index[i]
    BY PresentFacts, <1>3
  <2>2. index[i] # s /\ index[i] \in Slots
    <3>1. CASE s = Entry(id)
      <4>1. ccEntries[s].ident = id
        BY <1>1, <3>1, CacheEntryFacts DEF CacheInv
      <4> QED
        BY <2>1, <4>1, <1>6 DEF Used
    <3>2. CASE s \notin Used
      BY <2>1, <3>2 DEF Used
    <3> QED
      BY <3>1, <3>2
  <2>3. ccEntries'[index'[i]] = ccEntries[index[i]]
    BY <2>1, <2>2, <1>4
  <2> QED
    BY <2>3 DEF View
<1>7. Contents = [i \in Indexed |-> View(index[i])]
  BY ContentsSeen
<1>8. Contents' = [i \in Indexed \cup {id} |-> View(index[i])']
  BY <1>2, ContentsSeenNext
<1> QED
  BY <1>1, <1>5, <1>6, <1>7, <1>8

\* A cache that is new, or was empty, has no objects.
LEMMA NoContents ==
  ASSUME CacheInv, Used = {}
  PROVE  Indexed = {} /\ Contents = <<>>
<1>1. Indexed = {}
  BY PresentFacts
<1>2. Contents = [i \in {} |-> View(index[i])]
  BY <1>1, ContentsSeen
<1> HIDE DEF View
<1> QED
  BY <1>1, <1>2

LEMMA BoundedStart == CacheInit => Bounded!Init
<1> SUFFICES ASSUME CacheInit PROVE Bounded!Init
  OBVIOUS
<1>1. CacheInv
  BY CacheStart
<1>2. Used = {}
  <2>1. PICK n \in Sizes : ccEntries = CacheNew(n)
    BY DEF CacheInit
  <2> QED
    BY <2>1 DEF Used, Slots, CacheNew, FreeEntry
<1>3. Contents = <<>>
  BY <1>1, <1>2, NoContents
<1> QED
  BY <1>1, <1>3, RoomMade DEF CacheInit, Bounded!Init

\* Each function of the cache does what the bounded cache says.
LEMMA BoundedGet ==
  ASSUME CacheInv, CacheInv', NEW id \in Ids, CacheGet(id)
  PROVE  Bounded!Get(id)
<1>1. CASE Entry(id) = NULL
  <2>1. id \notin DOMAIN Contents
    BY <1>1, PresentFacts, ContentsFacts
  <2>2. UNCHANGED <<Contents, Slots, expire, destructor>> /\ cacheRet' = NULL /\ destroyed' = {}
    BY <1>1, SameContents DEF CacheGet
  <2> QED
    BY <2>1, <2>2 DEF Bounded!Get, Bounded!Hits, Bounded!Object
<1>2. CASE Entry(id) # NULL
  <2>1. id \in DOMAIN Contents /\ Contents[id] = View(Entry(id))
    BY <1>2, PresentFacts, ContentsFacts
  <2>2. Contents[id].data = ccEntries[Entry(id)].data /\ Contents[id].age = ccEntries[Entry(id)].age
    BY <2>1 DEF View
  <2>3. /\ Contents' = IF Contents[id].age > 0 THEN [Contents EXCEPT ![id].age = 0] ELSE Contents
        /\ Slots' = Slots
    <3>1. CASE Contents[id].age > 0
      BY <1>2, <2>2, <3>1, Stamped DEF CacheGet
    <3>2. CASE ~(Contents[id].age > 0)
      BY <1>2, <2>2, <3>2, SameContents DEF CacheGet
    <3> QED
      BY <3>1, <3>2
  <2>4. cacheRet' = Contents[id].data
    BY <1>2, <2>2 DEF CacheGet
  <2>5. destroyed' = {} /\ UNCHANGED <<expire, destructor>>
    BY DEF CacheGet
  <2> QED
    BY <2>1, <2>3, <2>4, <2>5 DEF Bounded!Get, Bounded!Hits, Bounded!Object, Bounded!Stamp
<1> QED
  BY <1>1, <1>2

LEMMA BoundedTouch ==
  ASSUME CacheInv, CacheInv', NEW id \in Ids, NEW age \in Ages, CacheTouch(id, age)
  PROVE  Bounded!Touch(id, age)
<1>1. id \in DOMAIN Contents <=> Entry(id) # NULL
  BY PresentFacts, ContentsFacts
<1>2. /\ Contents' = IF Entry(id) # NULL THEN [Contents EXCEPT ![id].age = age] ELSE Contents
      /\ Slots' = Slots
  BY Stamped, SameContents DEF CacheTouch
<1>3. destroyed' = {} /\ UNCHANGED <<expire, destructor, cacheRet>>
  BY DEF CacheTouch
<1> QED
  BY <1>1, <1>2, <1>3 DEF Bounded!Touch, Bounded!Hits, Bounded!Stamp

LEMMA BoundedReplace ==
  ASSUME CacheInv, CacheInv', NEW id \in Ids, NEW d \in Data, CacheReplace(id, d)
  PROVE  Bounded!Store(id, d)
<1>1. id \in DOMAIN Contents /\ DOMAIN Contents = Indexed /\ Contents[id] = View(Entry(id))
  BY PresentFacts, ContentsFacts DEF CacheReplace
<1>2. Contents[id].data = ccEntries[Entry(id)].data /\ Contents[id].data # NULL
  BY <1>1, ContentsFacts DEF View
<1>3. Entry(id) \in Slots
  BY <1>1, PresentFacts DEF Used
<1>4. /\ Contents' = [i \in Indexed \cup {id} |->
                        IF i = id THEN [data |-> d, age |-> 0] ELSE Contents[i]]
      /\ Slots' = Slots
  <2>1. /\ ccEntries' = [ccEntries EXCEPT ![Entry(id)] = [ident |-> id, data |-> d, age |-> 0]]
        /\ index' = index
    BY DEF CacheReplace
  <2>2. \E s \in Slots : /\ s = Entry(id) /\ index' = index
                       /\ ccEntries' = [ccEntries EXCEPT ![s] = [ident |-> id, data |-> d, age |-> 0]]
    BY <1>3, <2>1
  <2> QED
    BY <2>2, Stored
<1>5. destroyed' = IF destructor THEN {Contents[id].data} \ {d} ELSE {}
  BY <1>2 DEF CacheReplace, DestroyObjects
<1>6. {Contents[i].data : i \in IF Contents[id].data \in {NULL, d} THEN {} ELSE {id}}
        = {Contents[id].data} \ {d}
  BY <1>2
<1>7. cacheRet' = d /\ UNCHANGED <<expire, destructor>>
  BY DEF CacheReplace
<1> QED
  BY <1>1, <1>4, <1>5, <1>6, <1>7 DEF Bounded!Store, Bounded!Hits, Bounded!Object, Bounded!Destroy

LEMMA BoundedInsert ==
  ASSUME CacheInv, CacheInv', NEW id \in Ids, NEW d \in Data, CacheInsert(id, d)
  PROVE  Bounded!Store(id, d) \/ Bounded!Refuse(id)
<1>1. id \notin DOMAIN Contents /\ DOMAIN Contents = Indexed
  BY PresentFacts, ContentsFacts DEF CacheInsert
<1>2. destroyed' = {} /\ UNCHANGED <<expire, destructor>>
  BY DEF CacheInsert
<1>3. CASE Used = Slots
  <2>1. Cardinality(DOMAIN Contents) = Cardinality(Slots)
    BY <1>1, <1>3, RoomMade
  <2>2. cacheRet' = NULL /\ UNCHANGED <<Contents, Slots>>
    BY <1>3, SameContents DEF CacheInsert
  <2> QED
    BY <1>1, <1>2, <2>1, <2>2 DEF Bounded!Refuse, Bounded!Hits, Bounded!Cardinality, Cardinality
<1>4. CASE Used # Slots
  <2>1. Cardinality(DOMAIN Contents) < Cardinality(Slots)
    <3>1. /\ Cardinality(Indexed) \in Nat /\ Cardinality(Slots) \in Nat
          /\ Cardinality(Indexed) <= Cardinality(Slots)
          /\ Cardinality(Indexed) # Cardinality(Slots)
      BY <1>4, RoomMade
    <3> QED
      BY <1>1, <3>1
  <2>2. NextFree \in Slots \ Used
    BY <1>4, NextFreeFacts DEF CacheInv
  <2>3. /\ Contents' = [i \in Indexed \cup {id} |->
                          IF i = id THEN [data |-> d, age |-> 0] ELSE Contents[i]]
        /\ Slots' = Slots
    <3>1. \E s \in Slots \ Used :
             /\ Entry(id) = NULL /\ index' = Point({id}, s)
             /\ ccEntries' = [ccEntries EXCEPT ![s] = [ident |-> id, data |-> d, age |-> 0]]
      BY <1>4, <2>2 DEF CacheInsert
    <3> QED
      BY <3>1, Stored
  <2>4. cacheRet' = d
    BY <1>4 DEF CacheInsert
  <2> QED
    BY <1>1, <1>2, <2>1, <2>3, <2>4
       DEF Bounded!Store, Bounded!Hits, Bounded!Object, Bounded!Destroy, Bounded!Cardinality, Cardinality
<1> QED
  BY <1>3, <1>4

LEMMA BoundedUnset ==
  ASSUME CacheInv, CacheInv', NEW id \in Ids, CacheUnset(id)
  PROVE  Bounded!Unset(id)
<1>1. destroyed' = {} /\ UNCHANGED <<expire, destructor>> /\ DOMAIN Contents = Indexed
  BY ContentsFacts DEF CacheUnset
<1>2. CASE Entry(id) = NULL
  <2>1. id \notin Indexed
    BY <1>2, PresentFacts
  <2>2. Contents' = Contents /\ Slots' = Slots /\ cacheRet' = NULL
    BY <1>2, SameContents DEF CacheUnset
  <2>3. Contents = [i \in Indexed \ {id} |-> Contents[i]]
    BY <2>1, ContentsSeen
  <2> QED
    BY <1>1, <2>1, <2>2, <2>3 DEF Bounded!Unset, Bounded!Hits, Bounded!Object, Bounded!Keeping
<1>3. CASE Entry(id) # NULL
  <2>1. /\ id \in Indexed /\ Entry(id) \in Used /\ ccEntries[Entry(id)].ident = id
        /\ Contents[id] = View(Entry(id))
    BY <1>3, PresentFacts, ContentsFacts
  <2>2. cacheRet' = Contents[id].data
    BY <1>3, <2>1 DEF CacheUnset, View
  <2>3. {ccEntries[s].ident : s \in {Entry(id)}} = {id}
    BY <2>1
  <2>4. ccEntries' = [s \in Slots |-> IF s \in {Entry(id)} THEN FreeEntry ELSE ccEntries[s]]
    BY <1>3, <2>1 DEF CacheUnset, CacheInv, CacheTypeOK, Used, Slots
  <2>5. Contents' = [i \in Indexed \ {id} |-> Contents[i]] /\ Slots' = Slots
    <3>1. index' = Point({ccEntries[s].ident : s \in {Entry(id)}}, NULL)
      BY <1>3, <2>3 DEF CacheUnset
    <3>2. {Entry(id)} \in SUBSET Used
      BY <2>1
    <3> QED
      BY <2>3, <2>4, <3>1, <3>2, Removed
  <2> QED
    BY <1>1, <2>1, <2>2, <2>5 DEF Bounded!Unset, Bounded!Hits, Bounded!Object, Bounded!Keeping
<1> QED
  BY <1>2, <1>3

\* cache_purge(), forced or not: the ids of the entries that it takes out.
LEMMA BoundedPurge ==
  ASSUME CacheInv, CacheInv', NEW old \in SUBSET Used, CachePurge(old)
  PROVE  Bounded!Purge({ccEntries[s].ident : s \in old})
<1> DEFINE Gone == {ccEntries[s].ident : s \in old}
<1>1. UNCHANGED <<expire, destructor, cacheRet>> /\ DOMAIN Contents = Indexed
  BY ContentsFacts DEF CachePurge
<1>2. Contents' = [i \in Indexed \ Gone |-> Contents[i]] /\ Slots' = Slots
  BY Removed DEF CachePurge
<1>3. {Contents[i].data : i \in Gone} = {ccEntries[s].data : s \in old}
  <2>1. \A s \in old : Contents[ccEntries[s].ident].data = ccEntries[s].data
    BY PresentFacts, ContentsFacts DEF View
  <2> QED
    BY <2>1
<1>4. destroyed' = IF destructor THEN {Contents[i].data : i \in Gone} ELSE {}
  BY <1>3 DEF CachePurge, DestroyObjects
<1> HIDE DEF Gone
<1>5. Bounded!Purge(Gone)
  BY <1>1, <1>2, <1>4 DEF Bounded!Purge, Bounded!Keeping, Bounded!Destroy
<1> QED
  BY <1>5 DEF Gone

LEMMA BoundedOld ==
  ASSUME CacheInv
  PROVE  /\ {ccEntries[s].ident : s \in OldEntries} = Bounded!Expired
         /\ {ccEntries[s].ident : s \in Used} = DOMAIN Contents
<1>1. DOMAIN Contents = Indexed /\ Indexed = {ccEntries[s].ident : s \in Used}
  BY PresentFacts, ContentsFacts
<1>2. \A s \in Used : /\ ccEntries[s].ident \in Indexed
                     /\ Contents[ccEntries[s].ident].age = ccEntries[s].age
  BY PresentFacts, ContentsFacts DEF View
<1> QED
  BY <1>1, <1>2 DEF OldEntries, Bounded!Expired

LEMMA BoundedConfigure ==
  ASSUME CacheInv, CacheInv', ~GrowsInUse,
         \/ \E e \in Expiries : SetExpiry(e)
         \/ \E f \in BOOLEAN : SetDestructor(f)
         \/ \E n \in Sizes : CacheResize(n)
  PROVE  Bounded!Configure
<1>1. Cardinality(Slots) \in Sizes /\ Cardinality(Slots) \in Nat
  BY RoomMade
<1>2. expire' \in Expiries /\ destructor' \in BOOLEAN
  BY DEF CacheInv, CacheTypeOK
<1>3. CASE \/ \E e \in Expiries : SetExpiry(e)
           \/ \E f \in BOOLEAN : SetDestructor(f)
  <2>1. Contents' = Contents /\ Slots' = Slots /\ destroyed' = {} /\ cacheRet' = cacheRet
    BY <1>3, SameContents DEF SetExpiry, SetDestructor
  <2>2. Cardinality(Slots)' = Cardinality(Slots)
    BY <2>1
  <2> QED
    BY <1>1, <1>2, <2>1, <2>2 DEF Bounded!Configure
<1>4. ASSUME NEW n \in Sizes, CacheResize(n)
      PROVE  Bounded!Configure
  <2>1. Used = {} /\ n > Cardinality(Slots) /\ ccEntries' = CacheNew(n) /\ cacheRet' = cacheRet
    BY <1>4 DEF CacheResize
  <2>2. Slots' = 1..n /\ Used' = {} /\ n \in Nat
    BY <2>1, CacheAssumption DEF Slots, Used, CacheNew, FreeEntry
  <2>3. Contents = <<>> /\ Contents' = <<>>
    <3>1. (CacheInv /\ Used = {} => Indexed = {} /\ Contents = <<>>)'
      BY NoContents, PTL
    <3> QED
      BY <2>1, <2>2, <3>1, NoContents
  <2>4. Cardinality(Slots)' = n
    BY <2>2, FS_Interval
  <2>5. destroyed' = {}
    BY <1>4, <2>1 DEF CacheResize, DestroyObjects
  <2> QED
    BY <1>1, <1>2, <2>1, <2>2, <2>3, <2>4, <2>5 DEF Bounded!Configure
<1> QED
  BY <1>3, <1>4

LEMMA BoundedRenew ==
  ASSUME CacheInv, CacheInv', NEW n \in Sizes, NEW e \in Expiries, CacheRenew(n, e)
  PROVE  Bounded!Renew
<1>1. ccEntries' = CacheNew(n) /\ expire' = e /\ destructor' = FALSE /\ cacheRet' = cacheRet
  BY DEF CacheRenew
<1>2. Used' = {}
  BY <1>1 DEF Slots, Used, CacheNew, FreeEntry
<1>3. Contents' = <<>>
  <2>1. (CacheInv /\ Used = {} => Indexed = {} /\ Contents = <<>>)'
    BY NoContents, PTL
  <2> QED
    BY <1>2, <2>1
<1>4. Cardinality(Slots)' \in Sizes
  <2>1. (CacheInv => Cardinality(Slots) \in Sizes)'
    BY RoomMade, PTL
  <2> QED
    BY <2>1
<1>5. {Contents[i].data : i \in DOMAIN Contents} = {ccEntries[s].data : s \in Used}
  <2>1. \A s \in Used : Contents[ccEntries[s].ident].data = ccEntries[s].data
    BY PresentFacts, ContentsFacts DEF View
  <2>2. DOMAIN Contents = {ccEntries[s].ident : s \in Used}
    BY BoundedOld
  <2> QED
    BY <2>1, <2>2
<1>6. destroyed' = IF destructor THEN {Contents[i].data : i \in DOMAIN Contents} ELSE {}
  BY <1>5 DEF CacheRenew, DestroyObjects
<1> QED
  BY <1>1, <1>3, <1>4, <1>6 DEF Bounded!Renew, Bounded!Destroy

LEMMA BoundedTick ==
  ASSUME CacheInv, CacheInv', CacheTick
  PROVE  Bounded!Tick
<1> DEFINE Older(r) == [r EXCEPT !.age = IF @ < OldAge THEN @ + 1 ELSE @]
<1>1. Slots' = Slots /\ Indexed' = Indexed
  BY DEF CacheTick, Slots, Indexed
<1>2. ASSUME NEW i \in Indexed
      PROVE  View(index[i])' = Older(Contents[i])
  <2>1. index[i] \in Used /\ index[i] \in Slots /\ Contents[i] = View(index[i]) /\ index' = index
    BY PresentFacts, ContentsFacts DEF Used, CacheTick
  <2>2. ccEntries[index[i]] \in [ident : Ids, data : Data, age : Ages]
    BY <2>1, SlotFacts DEF CacheInv
  <2>3. ccEntries'[index[i]] = IF ccEntries[index[i]].age < OldAge
                                 THEN [ccEntries[index[i]] EXCEPT !.age = @ + 1]
                                 ELSE ccEntries[index[i]]
    BY <2>1 DEF CacheTick
  <2> QED
    BY <2>1, <2>2, <2>3 DEF View
<1>3. Contents' = [i \in Indexed |-> View(index[i])']
  BY <1>1, ContentsSeenNext
<1>4. Contents' = [i \in DOMAIN Contents |-> Older(Contents[i])]
  <2> HIDE DEF Older
  <2> QED
    BY <1>2, <1>3, ContentsFacts
<1>5. destroyed' = {} /\ UNCHANGED <<expire, destructor, cacheRet>>
  BY DEF CacheTick
<1> QED
  BY <1>1, <1>4, <1>5 DEF Bounded!Tick

boundedVars == <<Contents, Cardinality(Slots), expire, destructor, destroyed, cacheRet>>

LEMMA BoundedStep ==
  ASSUME ~GrowsInUse, CacheInv, CacheInv', [CacheNext]_cacheVars
  PROVE  [Bounded!Next]_boundedVars
<1>1. ASSUME NEW id \in Ids, CacheGet(id) PROVE Bounded!Next
  BY <1>1, BoundedGet DEF Bounded!Next
<1>2. ASSUME NEW id \in Ids, CacheUnset(id) PROVE Bounded!Next
  BY <1>2, BoundedUnset DEF Bounded!Next
<1>3. ASSUME NEW id \in Ids, NEW age \in Ages, CacheTouch(id, age) PROVE Bounded!Next
  BY <1>3, BoundedTouch DEF Bounded!Next
<1>4. ASSUME NEW id \in Ids, NEW d \in Data, CacheReplace(id, d) PROVE Bounded!Next
  BY <1>4, BoundedReplace DEF Bounded!Next
<1>5. ASSUME NEW id \in Ids, NEW d \in Data, CacheInsert(id, d) PROVE Bounded!Next
  BY <1>5, BoundedInsert DEF Bounded!Next
<1>6. CASE CachePurge(OldEntries)
  <2>1. OldEntries \in SUBSET Used
    BY DEF OldEntries
  <2>2. Bounded!Purge(Bounded!Expired)
    BY <1>6, <2>1, BoundedPurge, BoundedOld
  <2> QED
    BY <2>2 DEF Bounded!Next
<1>7. CASE CachePurge(Used)
  <2>1. Bounded!Purge(DOMAIN Contents)
    BY <1>7, BoundedPurge, BoundedOld
  <2> QED
    BY <2>1 DEF Bounded!Next
<1>8. CASE \/ \E e \in Expiries : SetExpiry(e)
           \/ \E f \in BOOLEAN : SetDestructor(f)
           \/ \E n \in Sizes : CacheResize(n)
  BY <1>8, BoundedConfigure DEF Bounded!Next
<1>9. ASSUME NEW n \in Sizes, NEW e \in Expiries, CacheRenew(n, e) PROVE Bounded!Next
  BY <1>9, BoundedRenew DEF Bounded!Next
<1>10. CASE CacheTick
  BY <1>10, BoundedTick DEF Bounded!Next
<1>11. CASE UNCHANGED cacheVars
  <2>1. UNCHANGED <<ccEntries, expire, destructor, destroyed, cacheRet>>
    BY <1>11 DEF cacheVars
  <2>2. UNCHANGED <<Contents, Slots>>
    BY <2>1, SameContents
  <2> QED
    BY <2>1, <2>2 DEF boundedVars
<1> QED
  BY <1>1, <1>2, <1>3, <1>4, <1>5, <1>6, <1>7, <1>8, <1>9, <1>10, <1>11 DEF CacheNext

\* The cache implements the bounded cache: an insertion fails only when all
\* the room is taken, a purge removes what has expired and nothing else, a
\* removed id leaves no trace, and each object that goes is destroyed or
\* returned (src/cache.c:68-274); for caches that grow only when empty.
THEOREM BoundedCacheImplemented ==
  ASSUME ~GrowsInUse
  PROVE  CacheSpec => ImplementsBoundedCache
<1>1. CacheInit => CacheInv
  BY CacheStart
<1>2. CacheInv /\ [CacheNext]_cacheVars => CacheInv'
  BY CacheStep
<1>3. CacheInit => Bounded!Init
  BY BoundedStart
<1>4. CacheInv /\ CacheInv' /\ [CacheNext]_cacheVars
        => [Bounded!Next]_<<Contents, Cardinality(Slots), expire, destructor, destroyed, cacheRet>>
  BY BoundedStep DEF boundedVars
<1> QED
  BY <1>1, <1>2, <1>3, <1>4, PTL DEF CacheSpec, ImplementsBoundedCache, Bounded!Spec
=============================================================================
