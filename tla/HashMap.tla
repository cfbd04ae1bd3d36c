------------------------------- MODULE HashMap -------------------------------
(***************************************************************************)
(* What hash_set(), hash_unset() and hash_get() promise (abstract          *)
(* specification of src/hash.c): a map from the keys that are set to their *)
(* values, each call returning what its caller may have to free.           *)
(***************************************************************************)
CONSTANTS Keys, Values, NULL

VARIABLES
  map,   \* a function on the keys that are set
  ret    \* what the last call returned

Old(k, otherwise) == IF k \in DOMAIN map THEN map[k] ELSE otherwise

Init == map = <<>> /\ ret = NULL

\* The previous value comes back, or the new one for a new key.
Set(k, v) ==
  /\ map' = [j \in DOMAIN map \cup {k} |-> IF j = k THEN v ELSE map[j]]
  /\ ret' = Old(k, v)

Unset(k) ==
  /\ map' = [j \in DOMAIN map \ {k} |-> map[j]]
  /\ ret' = Old(k, NULL)

Get(k) == ret' = Old(k, NULL) /\ UNCHANGED map

Next == \E k \in Keys :
          Unset(k) \/ Get(k) \/ \E v \in Values \cup {NULL} : Set(k, v)

Spec == Init /\ [][Next]_<<map, ret>>
=============================================================================
