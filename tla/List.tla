-------------------------------- MODULE List --------------------------------
(***************************************************************************)
(* The doubly linked rings of src/list.c and the loops over them of        *)
(* include/vigor.h: a head is linked with its nodes in a circle.  The      *)
(* callers are those of the library: they link nodes that are in no list,  *)
(* and delete nodes that are in one, or that have been left alone since    *)
(* they were initialised or taken out.                                     *)
(***************************************************************************)
EXTENDS SequencesExt, Null

CONSTANTS Heads, Nodes

ASSUME ListAssumption ==
  /\ Heads # {} /\ Heads \cap Nodes = {} /\ NULL \notin Nodes
  /\ IsFiniteSet(Heads) /\ IsFiniteSet(Nodes)

VARIABLES
  next, prev,  \* the links of every list_t
  got,         \* what the last list_shift() or list_pop() returned
  loop,        \* the head that a for_each_object_safe loop runs over, or NULL
  pos, tmp,    \* its two pointers
  unseen       \* history: nodes the loop has yet to visit, set when it began

links    == <<next, prev>>
loopVars == <<loop, pos, tmp, unseen>>
listVars == <<next, prev, got, loop, pos, tmp, unseen>>

Cells == Heads \cup Nodes

ListTypeOK ==
  /\ next \in [Cells -> Cells]
  /\ prev \in [Cells -> Cells]
  /\ got \in Nodes \cup {NULL}
  /\ loop \in Heads \cup {NULL}
  /\ pos \in Cells \cup {NULL}
  /\ tmp \in Cells \cup {NULL}
  /\ unseen \subseteq Nodes

\* list_init() of every cell.
ListInit ==
  /\ next = [c \in Cells |-> c]
  /\ prev = [c \in Cells |-> c]
  /\ got = NULL
  /\ loop = NULL /\ pos = NULL /\ tmp = NULL
  /\ unseen = {}

-----------------------------------------------------------------------------
(* What callers know of a cell                                             *)

\* Its neighbours point back at it: the cell is in a ring.
Agrees(c) == next[prev[c]] = c /\ prev[next[c]] = c

\* It is in a ring of its own or in none.
Unlinked(n) == next[n] = n \/ ~Agrees(n)

\* The neighbours it had are still next to each other.
LeftAlone(n) == next[prev[n]] = next[n] /\ prev[next[n]] = prev[n]

-----------------------------------------------------------------------------
(* One action for each function                                            *)

\* list_push(): list_splice(l->prev, n), list_splice(n, l).
ListPush(l, n) ==
  /\ Unlinked(n)
  /\ next' = [next EXCEPT ![prev[l]] = n, ![n] = l]
  /\ prev' = [prev EXCEPT ![n] = prev[l], ![l] = n]
  /\ UNCHANGED <<got, loopVars>>

\* list_unshift()
ListUnshift(l, n) ==
  /\ Unlinked(n)
  /\ prev' = [prev EXCEPT ![next[l]] = n, ![n] = l]
  /\ next' = [next EXCEPT ![n] = next[l], ![l] = n]
  /\ UNCHANGED <<got, loopVars>>

\* Mutant: the head is not linked back to the new first node.
ListShiftHalf(l) ==
  /\ loop = NULL
  /\ IF next[l] = l
       THEN got' = NULL /\ UNCHANGED links
       ELSE /\ got' = next[l]
            /\ next' = [next EXCEPT ![l] = next[next[l]]]
            /\ UNCHANGED prev
  /\ UNCHANGED loopVars

\* list_shift(): the node goes, with the links it had.
ListShift(l) ==
  /\ loop = NULL
  /\ IF next[l] = l
       THEN got' = NULL /\ UNCHANGED links
       ELSE LET n == next[l] IN
            /\ got' = n
            /\ next' = [next EXCEPT ![l] = next[n]]
            /\ prev' = [prev EXCEPT ![next[n]] = l]
  /\ UNCHANGED loopVars

\* list_pop()
ListPop(l) ==
  /\ loop = NULL
  /\ IF next[l] = l
       THEN got' = NULL /\ UNCHANGED links
       ELSE LET n == prev[l] IN
            /\ got' = n
            /\ next' = [next EXCEPT ![prev[n]] = l]
            /\ prev' = [prev EXCEPT ![l] = prev[n]]
  /\ UNCHANGED loopVars

\* What list_delete(n) makes of the links: a splice of its neighbours, and
\* list_init(n).
Delete(n) ==
  /\ next' = [next EXCEPT ![prev[n]] = next[n], ![n] = n]
  /\ prev' = [prev EXCEPT ![next[n]] = prev[n], ![n] = n]

\* list_delete() outside of a loop.
ListDelete(n) ==
  /\ loop = NULL
  /\ Agrees(n) \/ LeftAlone(n)
  /\ Delete(n)
  /\ UNCHANGED <<got, loopVars>>

\* list_replace()
ListReplace(o, n) ==
  /\ loop = NULL
  /\ Agrees(o) /\ next[o] # o /\ Unlinked(n)
  /\ next' = [next EXCEPT ![n] = next[o], ![prev[o]] = n, ![o] = o]
  /\ prev' = [prev EXCEPT ![n] = prev[o], ![next[o]] = n, ![o] = o]
  /\ UNCHANGED <<got, loopVars>>

-----------------------------------------------------------------------------
(* for_each_object_safe, whose body may delete the node it is at, and link *)
(* others                                                                  *)

\* The nodes from a head on, up to the head: list_len() of them.
Ring(h) ==
  LET at[i \in 1..Cardinality(Cells)] ==
        IF i = 1 THEN next[h] ELSE IF at[i - 1] = h THEN h ELSE next[at[i - 1]]
  IN [i \in 1..Cardinality({j \in DOMAIN at : at[j] # h}) |-> at[i]]

LoopBegin(h) ==
  /\ loop = NULL
  /\ loop' = h
  /\ pos' = next[h] /\ tmp' = next[next[h]]
  /\ unseen' = ToSet(Ring(h)) \ {next[h]}
  /\ UNCHANGED <<links, got>>

\* Mutant: the plain for_each, which follows the node its body may have deleted.
LoopStepPlain ==
  /\ loop # NULL /\ pos # loop
  /\ pos' = next[pos] /\ tmp' = next[next[pos]]
  /\ unseen' = unseen \ {pos'}
  /\ UNCHANGED <<links, got, loop>>

LoopStep ==
  /\ loop # NULL /\ pos # loop
  /\ pos' = tmp /\ tmp' = next[tmp]
  /\ unseen' = unseen \ {pos'}
  /\ UNCHANGED <<links, got, loop>>

LoopDelete ==
  /\ loop # NULL /\ pos # loop
  /\ Agrees(pos)
  /\ Delete(pos)
  /\ UNCHANGED <<got, loopVars>>

LoopEnd ==
  /\ loop # NULL /\ pos = loop
  /\ loop' = NULL /\ pos' = NULL /\ tmp' = NULL /\ unseen' = {}
  /\ UNCHANGED <<links, got>>

ListNext ==
  \/ \E l \in Heads : \/ ListShift(l) \/ ListPop(l) \/ LoopBegin(l)
                      \/ \E n \in Nodes : ListPush(l, n) \/ ListUnshift(l, n)
  \/ \E n \in Nodes : ListDelete(n) \/ \E o \in Nodes : ListReplace(o, n)
  \/ LoopStep \/ LoopDelete \/ LoopEnd

ListSpec == ListInit /\ [][ListNext]_listVars

-----------------------------------------------------------------------------
(* Properties                                                              *)

\* Every head is in a ring, and so is whatever a cell of a ring is linked to:
\* whoever follows the links from a head in either direction stays among cells
\* that agree, although nodes that were shifted or popped keep their links
\* into the list (src/list.c:60-132).
RingsClosed ==
  /\ \A h \in Heads : Agrees(h)
  /\ \A c \in Cells : Agrees(c) => Agrees(next[c]) /\ Agrees(prev[c])

\* The links implement sequences of nodes (src/list.c:70-132).
Sequences == INSTANCE Lists WITH lists <- [h \in Heads |-> Ring(h)]

ImplementsLists == Sequences!ListsSpec

\* A safe loop that ends has been at every node that was there when it began,
\* whatever its body deleted or linked (include/vigor.h:98-101, 121-125).
SafeLoopComplete == loop # NULL /\ pos = loop => unseen = {}
=============================================================================
