-------------------------------- MODULE Hash --------------------------------
(***************************************************************************)
(* The hash table of src/hash.c: buckets of parallel key and value arrays, *)
(* and the cursor of for_each_key_value, which lives in the table itself.  *)
(* The caller sets, unsets and looks up keys at any time, in the body of a *)
(* loop over the table included.                                           *)
(***************************************************************************)
EXTENDS SequencesExt, Null

CONSTANTS
  Keys, Values,  \* what callers use
  Buckets,       \* number of buckets; 64 in the code
  HashOf         \* s_hash64(): the bucket of each key

ASSUME HashAssumption ==
  /\ Buckets \in Nat \ {0}
  /\ HashOf \in [Keys -> 0..Buckets - 1]
  /\ NULL \notin Values

VARIABLES
  entries,       \* h->entries: per bucket, its keys[] and values[] in order
  hashLen,       \* h->len
  bucket,        \* h->bucket and
  offset,        \*   h->offset: where hash_next() goes on
  hashRet,       \* what the last call returned
  looping,       \* a for_each_key_value loop is under way
  visited,       \* history: keys the loop has been given ...
  owed,          \* ... and keys it has to be given, set when it began
  disturbed      \* history: its cursor was moved under it

hashVars == <<entries, hashLen, bucket, offset, hashRet, looping, visited, owed, disturbed>>

Places  == 0..Buckets - 1
Entries == [key : Keys, value : Values \cup {NULL}]

HashTypeOK ==
  /\ entries \in [Places -> Seq(Entries)]
  /\ hashLen \in Nat
  /\ bucket \in 0..Buckets
  /\ offset \in Nat
  /\ hashRet \in Values \cup {NULL}
  /\ looping \in BOOLEAN
  /\ visited \subseteq Keys
  /\ owed \subseteq Keys
  /\ disturbed \in BOOLEAN

\* A zeroed hash_t.
HashInit ==
  /\ entries = [b \in Places |-> <<>>]
  /\ hashLen = 0
  /\ bucket = 0
  /\ offset = 0
  /\ hashRet = NULL
  /\ looping = FALSE
  /\ visited = {}
  /\ owed = {}
  /\ disturbed = FALSE

-----------------------------------------------------------------------------
(* Lookup                                                                  *)

Bucket(k) == entries[HashOf[k]]

\* s_hash_index(), counting from 1; 0 for -1.
IndexOf(s, k) ==
  IF \E i \in DOMAIN s : s[i].key = k
    THEN CHOOSE i \in DOMAIN s : s[i].key = k /\ \A j \in 1..i - 1 : s[j].key # k
    ELSE 0

Has(k) == IndexOf(Bucket(k), k) # 0
Value(k) == Bucket(k)[IndexOf(Bucket(k), k)].value

Present == {k \in Keys : Has(k)}

Cursor == <<bucket, offset>>
Loop   == <<looping, visited, owed, disturbed>>

-----------------------------------------------------------------------------
(* hash_get(), hash_set(), hash_unset()                                    *)

\* s_hash_insert()
Inserted(s, k, v) == Append(s, [key |-> k, value |-> v])

HashGet(k) ==
  /\ hashRet' = IF Has(k) THEN Value(k) ELSE NULL
  /\ UNCHANGED <<entries, hashLen, Cursor, Loop>>

\* Mutant: a key whose value is NULL is taken for one that is not set.
HashSetOverNull(k, v) ==
  /\ IF Has(k) /\ Value(k) # NULL
       THEN /\ entries' = [entries EXCEPT ![HashOf[k]][IndexOf(Bucket(k), k)].value = v]
            /\ hashRet' = Value(k)
            /\ UNCHANGED hashLen
       ELSE /\ entries' = [entries EXCEPT ![HashOf[k]] = Inserted(@, k, v)]
            /\ hashRet' = v
            /\ hashLen' = hashLen + 1
  /\ Len(Bucket(k)) < 5
  /\ UNCHANGED <<Cursor, Loop>>

\* A new key goes to the end of its bucket and v is returned (the comment at
\* src/hash.c:113-114 says NULL); else the value is replaced, and the old one
\* returned.
HashSet(k, v) ==
  /\ IF Has(k)
       THEN /\ entries' = [entries EXCEPT ![HashOf[k]][IndexOf(Bucket(k), k)].value = v]
            /\ hashRet' = Value(k)
            /\ UNCHANGED hashLen
       ELSE /\ entries' = [entries EXCEPT ![HashOf[k]] = Inserted(@, k, v)]
            /\ hashRet' = v
            /\ hashLen' = hashLen + 1
  /\ UNCHANGED <<Cursor, Loop>>

\* Mutant: the entries behind the key are not moved, the last one is dropped.
HashUnsetLast(k) ==
  /\ IF Has(k)
       THEN /\ hashRet' = Value(k)
            /\ entries' = [entries EXCEPT ![HashOf[k]] = Front(@)]
            /\ hashLen' = hashLen - 1
            /\ UNCHANGED disturbed
       ELSE hashRet' = NULL /\ UNCHANGED <<entries, hashLen, disturbed>>
  /\ owed' = owed \ {k}
  /\ visited' = visited \ {k}
  /\ UNCHANGED <<Cursor, looping>>

\* The entries behind the key move down by one; the cursor stays, so an entry
\* that moves from the cursor to before it will be passed over.
HashUnset(k) ==
  /\ IF Has(k)
       THEN LET i == IndexOf(Bucket(k), k) IN
            /\ hashRet' = Value(k)
            /\ entries' = [entries EXCEPT ![HashOf[k]] = RemoveAt(@, i)]
            /\ hashLen' = hashLen - 1
            /\ disturbed' = (disturbed \/ (looping /\ HashOf[k] = bucket /\ i <= offset))
       ELSE hashRet' = NULL /\ UNCHANGED <<entries, hashLen, disturbed>>
  /\ owed' = owed \ {k}
  /\ visited' = visited \ {k}
  /\ UNCHANGED <<Cursor, looping>>

-----------------------------------------------------------------------------
(* for_each_key_value                                                      *)

\* Where hash_next() finds an entry: in the cursor's bucket or a later one.
NextBuckets ==
  {b \in Places : \/ b = bucket /\ offset < Len(entries[b])
                  \/ b > bucket /\ entries[b] # <<>>}

\* The loop begins: (h)->offset = (h)->bucket = 0.
HashBegin ==
  /\ ~looping
  /\ looping' = TRUE
  /\ bucket' = 0 /\ offset' = 0
  /\ visited' = {} /\ owed' = Present /\ disturbed' = FALSE
  /\ UNCHANGED <<entries, hashLen, hashRet>>

\* hash_next() finds an entry, and leaves the cursor behind it ...
HashStep ==
  /\ looping
  /\ \E b \in NextBuckets :
       LET o == IF b = bucket THEN offset ELSE 0 IN
       /\ \A c \in NextBuckets : b <= c
       /\ bucket' = b /\ offset' = o + 1
       /\ visited' = visited \cup {entries[b][o + 1].key}
  /\ UNCHANGED <<entries, hashLen, hashRet, looping, owed, disturbed>>

\* ... or none: the cursor is past the last bucket, and the loop ends.
HashEnd ==
  /\ looping
  /\ NextBuckets = {}
  /\ bucket' = Buckets /\ offset' = 0
  /\ looping' = FALSE
  /\ UNCHANGED <<entries, hashLen, hashRet, visited, owed, disturbed>>

\* The caller leaves the loop with a break.
HashBreak ==
  /\ looping
  /\ looping' = FALSE
  /\ UNCHANGED <<entries, hashLen, Cursor, hashRet, visited, owed, disturbed>>

\* hash_merge(a, h), or any other loop over h, in one go: its cursor is h's,
\* and is left past the last bucket.
MergeInto ==
  /\ bucket' = Buckets /\ offset' = 0
  /\ disturbed' = (disturbed \/ looping)
  /\ UNCHANGED <<entries, hashLen, hashRet, looping, visited, owed>>

HashNext ==
  \/ \E k \in Keys : HashGet(k) \/ HashUnset(k) \/ \E v \in Values \cup {NULL} : HashSet(k, v)
  \/ HashBegin \/ HashStep \/ HashEnd \/ HashBreak \/ MergeInto

HashSpec == HashInit /\ [][HashNext]_hashVars

-----------------------------------------------------------------------------
(* Properties                                                              *)

\* Every key is once in the table, in its own bucket, and h->len counts them
\* (src/hash.c:43-58, 144-162).
WellFormed ==
  /\ \A b \in Places : \A i, j \in DOMAIN entries[b] :
       /\ HashOf[entries[b][i].key] = b
       /\ entries[b][i].key = entries[b][j].key => i = j
  /\ hashLen = Cardinality(Present)

\* A loop that ends by itself has seen every key that was there when it began
\* and has not been unset since, whatever its body set or unset, unless an
\* entry it had passed in the current bucket was unset or another loop ran
\* over the table (src/hash.c:165-186).
LoopComplete ==
  [][looping /\ ~looping' /\ bucket' = Buckets /\ ~disturbed => owed \subseteq visited]_hashVars

\* No loop is given a key it has had, unless that was unset and set again.
LoopOnce ==
  [][looping /\ Cursor' # Cursor /\ bucket' # Buckets => visited' # visited]_hashVars

\* The table implements the map: the value of a key is what it was last set
\* to, in whatever order keys of its bucket came and went, and each call
\* returns what the map's does (src/hash.c:101-162).
Map == INSTANCE HashMap WITH map <- [k \in Present |-> Value(k)], ret <- hashRet

ImplementsMap == Map!Spec
=============================================================================
