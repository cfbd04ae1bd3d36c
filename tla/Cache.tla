------------------------------- MODULE Cache -------------------------------
(***************************************************************************)
(* The object cache of src/cache.c: a fixed array of entries, and an index *)
(* from ids to entries, which is a hash table (module HashMap).            *)
(*                                                                         *)
(* Time is kept as the age of each entry, now - last_seen, cut off at      *)
(* OldAge, where every entry has expired; it is negative for an entry      *)
(* touched into the future.  The destructor does not call back into the    *)
(* cache, and callers store an object under one id at a time.              *)
(***************************************************************************)
EXTENDS Integers, FiniteSets, Null

CONSTANTS
  Ids, Data,   \* ids and objects that callers use
  Sizes,       \* max_len of caches they make
  Expiries,    \* values they give cc->expire
  OldAge,      \* an age at which every entry has expired
  Ahead,       \* seconds into the future that entries are touched
  Stale,       \* a pointer into a cache_t that has been freed
  GrowsInUse   \* whether caches with objects in them are resized

ASSUME CacheAssumption ==
  /\ NULL \notin Ids \cup Data \cup Nat /\ Stale \notin Nat \cup {NULL}
  /\ Sizes \subseteq Nat /\ Expiries \subseteq Int
  /\ OldAge \in Nat \ {0} /\ Ahead \in Nat
  /\ \A e \in Expiries : e < OldAge
  /\ GrowsInUse \in BOOLEAN

VARIABLES
  ccEntries,   \* cc->entries, from 1 to max_len
  index,       \* cc->index: id -> entry, Stale, or NULL once it was removed
  expire,      \* cc->expire
  destructor,  \* cc->destroy_f is set
  destroyed,   \* history: the objects the last call gave to the destructor
  cacheRet     \* what the last cache_get(), _set() or _unset() returned

cacheVars == <<ccEntries, index, expire, destructor, destroyed, cacheRet>>

Ages == -Ahead..OldAge
FreeEntry == [ident |-> NULL, data |-> NULL, age |-> 0]
Slots == DOMAIN ccEntries
Used  == {s \in Slots : ccEntries[s].ident # NULL}

CacheTypeOK ==
  /\ \E n \in Sizes : ccEntries \in [1..n -> {FreeEntry} \cup [ident : Ids, data : Data, age : Ages]]
  /\ \E ids \in SUBSET Ids : index \in [ids -> Slots \cup {NULL, Stale}]
  /\ expire \in Expiries
  /\ destructor \in BOOLEAN
  /\ destroyed \subseteq Data
  /\ cacheRet \in Data \cup {NULL}

\* cache_new()
CacheNew(n) == [s \in 1..n |-> FreeEntry]

CacheInit ==
  /\ \E n \in Sizes : ccEntries = CacheNew(n)
  /\ index = <<>>
  /\ expire \in Expiries
  /\ destructor = FALSE
  /\ destroyed = {}
  /\ cacheRet = NULL

-----------------------------------------------------------------------------
(* The index and the destructor                                            *)

\* hash_get(&cc->index, id)
Entry(id) == IF id \in DOMAIN index THEN index[id] ELSE NULL

\* hash_set(&cc->index, id, e) for every id of ids: an id, once set, stays in
\* the table, with NULL for its value.
Point(ids, e) == [id \in DOMAIN index \cup ids |-> IF id \in ids THEN e ELSE index[id]]

DestroyObjects(ds) == destroyed' = IF destructor THEN ds ELSE {}

\* An entry that is looked up in the cache may be used only if it is there; a
\* use of a Stale one is undefined, and nothing is said of what comes then.
Defined(id) == Entry(id) # Stale

-----------------------------------------------------------------------------
(* One action for each function                                            *)

\* Mutant: cache_get() leaves last_seen alone.
CacheGetNoStamp(id) ==
  /\ Defined(id)
  /\ cacheRet' = IF Entry(id) = NULL THEN NULL ELSE ccEntries[Entry(id)].data
  /\ destroyed' = {}
  /\ UNCHANGED <<ccEntries, index, expire, destructor>>

\* cache_get(): the entry becomes young, unless it is dated in the future.
CacheGet(id) ==
  /\ Defined(id)
  /\ LET e == Entry(id) IN
     IF e = NULL
       THEN cacheRet' = NULL /\ UNCHANGED ccEntries
       ELSE /\ cacheRet' = ccEntries[e].data
            /\ ccEntries' = IF ccEntries[e].age > 0 THEN [ccEntries EXCEPT ![e].age = 0] ELSE ccEntries
  /\ destroyed' = {}
  /\ UNCHANGED <<index, expire, destructor>>

\* s_cache_next(): the first free entry.
NextFree == CHOOSE s \in Slots \ Used : \A t \in Slots \ Used : s <= t

\* Callers do not store an object that the cache has under another id.
MayStore(id, d) == \A s \in Used : ccEntries[s].data = d => ccEntries[s].ident = id

\* Mutant: the object that is replaced is not destroyed.
CacheReplaceLeaks(id, d) ==
  /\ Defined(id) /\ Entry(id) # NULL
  /\ MayStore(id, d)
  /\ ccEntries' = [ccEntries EXCEPT ![Entry(id)] = [ident |-> id, data |-> d, age |-> 0]]
  /\ destroyed' = {}
  /\ cacheRet' = d
  /\ UNCHANGED <<index, expire, destructor>>

\* cache_set() of an id that is in the cache: the object is replaced, and the
\* old one destroyed if it is another.
CacheReplace(id, d) ==
  /\ Defined(id) /\ Entry(id) # NULL
  /\ MayStore(id, d)
  /\ LET e == Entry(id) IN
     /\ DestroyObjects({ccEntries[e].data} \ {d})
     /\ ccEntries' = [ccEntries EXCEPT ![e] = [ident |-> id, data |-> d, age |-> 0]]
  /\ cacheRet' = d
  /\ UNCHANGED <<index, expire, destructor>>

\* cache_set() of a new id: it takes a free entry, or fails.
CacheInsert(id, d) ==
  /\ Defined(id) /\ Entry(id) = NULL
  /\ MayStore(id, d)
  /\ IF Used = Slots
       THEN cacheRet' = NULL /\ UNCHANGED <<ccEntries, index>>
       ELSE /\ ccEntries' = [ccEntries EXCEPT ![NextFree] = [ident |-> id, data |-> d, age |-> 0]]
            /\ index' = Point({id}, NextFree)
            /\ cacheRet' = d
  /\ destroyed' = {}
  /\ UNCHANGED <<expire, destructor>>

\* cache_unset(): the object goes back to the caller.
CacheUnset(id) ==
  /\ Defined(id)
  /\ LET e == Entry(id) IN
     IF e = NULL
       THEN cacheRet' = NULL /\ UNCHANGED <<ccEntries, index>>
       ELSE /\ cacheRet' = ccEntries[e].data
            /\ ccEntries' = [ccEntries EXCEPT ![e] = FreeEntry]
            /\ index' = Point({id}, NULL)
  /\ destroyed' = {}
  /\ UNCHANGED <<expire, destructor>>

\* cache_touch(); a time of 0 or less stands for now.
CacheTouch(id, age) ==
  /\ Defined(id)
  /\ ccEntries' = IF Entry(id) = NULL THEN ccEntries ELSE [ccEntries EXCEPT ![Entry(id)].age = age]
  /\ destroyed' = {}
  /\ UNCHANGED <<index, expire, destructor, cacheRet>>

\* What cache_purge() takes out: what has not been used for more than
\* cc->expire seconds, or everything in use if forced.
OldEntries == {s \in Used : ccEntries[s].age > expire}

\* Mutant: the index is left pointing to the purged entries.
CachePurgeKeepsIndex(old) ==
  /\ ccEntries' = [s \in Slots |-> IF s \in old THEN FreeEntry ELSE ccEntries[s]]
  /\ DestroyObjects({ccEntries[s].data : s \in old})
  /\ UNCHANGED <<index, expire, destructor, cacheRet>>

\* Mutant: a forced purge does not ask if an entry is in use.
CachePurgeFree(old) ==
  /\ ccEntries' = [s \in Slots |-> IF s \in old THEN FreeEntry ELSE ccEntries[s]]
  /\ index' = Point({ccEntries[s].ident : s \in old}, NULL)
  /\ DestroyObjects({ccEntries[s].data : s \in old \cup (Slots \ Used)})
  /\ UNCHANGED <<expire, destructor, cacheRet>>

\* cache_purge(): each entry leaves the index, and its object is destroyed.
CachePurge(old) ==
  /\ ccEntries' = [s \in Slots |-> IF s \in old THEN FreeEntry ELSE ccEntries[s]]
  /\ index' = Point({ccEntries[s].ident : s \in old}, NULL)
  /\ DestroyObjects({ccEntries[s].data : s \in old})
  /\ UNCHANGED <<expire, destructor, cacheRet>>

\* cache_setopt()
SetExpiry(e) ==
  /\ expire' = e
  /\ destroyed' = {}
  /\ UNCHANGED <<ccEntries, index, destructor, cacheRet>>

SetDestructor(f) ==
  /\ destructor' = f
  /\ destroyed' = {}
  /\ UNCHANGED <<ccEntries, index, expire, cacheRet>>

\* cache_resize(): the index goes into a new cache as it is, but not the
\* entries that it points to, which cache_free() empties.  To a size that is
\* not larger it changes nothing.
CacheResize(n) ==
  /\ n > Cardinality(Slots)
  /\ GrowsInUse \/ Used = {}
  /\ ccEntries' = CacheNew(n)
  /\ index' = [id \in DOMAIN index |-> IF index[id] = NULL THEN NULL ELSE Stale]
  /\ DestroyObjects({ccEntries[s].data : s \in Used})
  /\ UNCHANGED <<expire, destructor, cacheRet>>

\* cache_free(), and cache_new() again.
CacheRenew(n, e) ==
  /\ ccEntries' = CacheNew(n)
  /\ index' = <<>>
  /\ expire' = e
  /\ destructor' = FALSE
  /\ DestroyObjects({ccEntries[s].data : s \in Used})
  /\ UNCHANGED cacheRet

\* A second goes by.
CacheTick ==
  /\ ccEntries' = [s \in Slots |-> IF s \in Used /\ ccEntries[s].age < OldAge
                                  THEN [ccEntries[s] EXCEPT !.age = @ + 1]
                                  ELSE ccEntries[s]]
  /\ destroyed' = {}
  /\ UNCHANGED <<index, expire, destructor, cacheRet>>

CacheNext ==
  \/ \E id \in Ids : \/ CacheGet(id) \/ CacheUnset(id)
                     \/ \E age \in Ages : CacheTouch(id, age)
                     \/ \E d \in Data : CacheReplace(id, d) \/ CacheInsert(id, d)
  \/ CachePurge(OldEntries) \/ CachePurge(Used)
  \/ \E e \in Expiries : SetExpiry(e)
  \/ \E f \in BOOLEAN : SetDestructor(f)
  \/ \E n \in Sizes : CacheResize(n) \/ \E e \in Expiries : CacheRenew(n, e)
  \/ CacheTick

CacheSpec == CacheInit /\ [][CacheNext]_cacheVars

-----------------------------------------------------------------------------
(* Properties                                                              *)

\* The index and the entries agree: it leads from an id to the entry that has
\* it and to no other, and finds every entry in use (src/cache.c:126-149,
\* 229-274).
Coherent ==
  /\ \A id \in DOMAIN index : index[id] # NULL => /\ index[id] \in Slots
                                                  /\ ccEntries[index[id]].ident = id
  /\ \A s \in Used : Entry(ccEntries[s].ident) = s

\* An object that was given to the destructor is in the cache no longer, where
\* cache_get() would hand it out and a purge destroy it again
\* (src/cache.c:142-144, 232-233).
DestroyedGone == destroyed \cap {ccEntries[s].data : s \in Used} = {}

\* Nothing leaks: an object that leaves a cache with a destructor has been
\* destroyed, or is returned to the caller (src/cache.c:126-149, 229-274).
NoneLost ==
  [][destructor => {ccEntries[s].data : s \in Used} \ {ccEntries'[s].data : s \in Slots'}
                     \subseteq destroyed' \cup {cacheRet'}]_cacheVars

\* What becomes of the objects: each is in the cache, with its caller or
\* destroyed, and never two of these.
ObjectsDestroyed == []DestroyedGone /\ NoneLost

\* The objects of the cache, each under its id.
Contents == [id \in {ccEntries[s].ident : s \in Used} |->
              LET s == CHOOSE s \in Used : ccEntries[s].ident = id
              IN [data |-> ccEntries[s].data, age |-> ccEntries[s].age]]

\* The cache implements the bounded cache: an insertion fails only when all
\* the room is taken, a purge removes what has expired and nothing that was
\* used or touched within cc->expire seconds, a removed id leaves no trace,
\* and an empty cache may grow.
Bounded == INSTANCE BoundedCache WITH contents <- Contents, capacity <- Cardinality(Slots),
                                ret <- cacheRet

ImplementsBoundedCache == Bounded!Spec

\* "resize a cache on-the-fly, by increasing the amount of memory in which the
\* cache resides" (src/cache.c:68-69): what was found before a resize is found
\* after it.
ResizeKeepsContents ==
  [][(\E n \in Sizes : CacheResize(n)) =>
       \A id \in DOMAIN Contents : /\ Entry(id)' \in Slots'
                                   /\ ccEntries'[Entry(id)'].data = Contents[id].data]_cacheVars
=============================================================================
