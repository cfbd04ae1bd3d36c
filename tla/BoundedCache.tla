---------------------------- MODULE BoundedCache ----------------------------
(***************************************************************************)
(* What src/cache.c promises (abstract specification): objects stored      *)
(* under ids, at most `capacity' of them; every object that leaves is      *)
(* handed back or destroyed, and only unused ones expire.                  *)
(***************************************************************************)
EXTENDS Integers, FiniteSets

CONSTANTS Ids, Data, Sizes, Expiries, Ages, OldAge, NULL

VARIABLES
  contents,    \* the ids in use, each with its object and the object's age
  capacity,
  expire,
  destructor,  \* there is a destructor
  destroyed,   \* the objects it was given by the last call
  ret          \* what the last call returned

Hits(id) == id \in DOMAIN contents
Object(id) == IF Hits(id) THEN contents[id].data ELSE NULL
Stamp(id, age) == [contents EXCEPT ![id].age = age]
Keeping(ids) == [id \in ids |-> contents[id]]

\* The objects a destructor is given when those under ids go.
Destroy(ids) == destroyed' = IF destructor THEN {contents[id].data : id \in ids} ELSE {}

Init ==
  /\ contents = <<>>
  /\ capacity \in Sizes
  /\ expire \in Expiries
  /\ destructor = FALSE
  /\ destroyed = {}
  /\ ret = NULL

\* Using an object makes it young, unless it is dated in the future.
Get(id) ==
  /\ contents' = IF Hits(id) /\ contents[id].age > 0 THEN Stamp(id, 0) ELSE contents
  /\ ret' = Object(id)
  /\ destroyed' = {}
  /\ UNCHANGED <<capacity, expire, destructor>>

Touch(id, age) ==
  /\ contents' = IF Hits(id) THEN Stamp(id, age) ELSE contents
  /\ destroyed' = {}
  /\ UNCHANGED <<capacity, expire, destructor, ret>>

Store(id, d) ==
  /\ Hits(id) \/ Cardinality(DOMAIN contents) < capacity
  /\ contents' = [i \in DOMAIN contents \cup {id} |->
                   IF i = id THEN [data |-> d, age |-> 0] ELSE contents[i]]
  /\ Destroy(IF Object(id) \in {NULL, d} THEN {} ELSE {id})
  /\ ret' = d
  /\ UNCHANGED <<capacity, expire, destructor>>

Refuse(id) ==
  /\ ~Hits(id) /\ Cardinality(DOMAIN contents) = capacity
  /\ ret' = NULL
  /\ destroyed' = {}
  /\ UNCHANGED <<contents, capacity, expire, destructor>>

Unset(id) ==
  /\ ret' = Object(id)
  /\ contents' = Keeping(DOMAIN contents \ {id})
  /\ destroyed' = {}
  /\ UNCHANGED <<capacity, expire, destructor>>

Purge(old) ==
  /\ contents' = Keeping(DOMAIN contents \ old)
  /\ Destroy(old)
  /\ UNCHANGED <<capacity, expire, destructor, ret>>

Expired == {id \in DOMAIN contents : contents[id].age > expire}

\* The options change, and the cache may grow; the contents stay.
Configure ==
  /\ expire' \in Expiries
  /\ destructor' \in BOOLEAN
  /\ capacity' \in {n \in Sizes : n >= capacity}
  /\ destroyed' = {}
  /\ UNCHANGED <<contents, ret>>

\* The cache is freed and a new one made.
Renew ==
  /\ Destroy(DOMAIN contents)
  /\ contents' = <<>>
  /\ capacity' \in Sizes
  /\ expire' \in Expiries
  /\ destructor' = FALSE
  /\ UNCHANGED ret

\* A second goes by.
Tick ==
  /\ contents' = [id \in DOMAIN contents |->
       [contents[id] EXCEPT !.age = IF @ < OldAge THEN @ + 1 ELSE @]]
  /\ destroyed' = {}
  /\ UNCHANGED <<capacity, expire, destructor, ret>>

Next ==
  \/ \E id \in Ids : \/ Get(id) \/ Refuse(id) \/ Unset(id)
                     \/ \E age \in Ages : Touch(id, age)
                     \/ \E d \in Data : Store(id, d)
  \/ Purge(Expired) \/ Purge(DOMAIN contents)
  \/ Configure \/ Renew \/ Tick

Spec == Init /\ [][Next]_<<contents, capacity, expire, destructor, destroyed, ret>>
=============================================================================
