-------------------------------- MODULE Lists --------------------------------
(***************************************************************************)
(* What src/list.c promises (abstract specification): each list head has a *)
(* sequence of nodes, no node is twice in the sequences, and an operation  *)
(* on one list leaves the others alone.                                    *)
(***************************************************************************)
EXTENDS SequencesExt

CONSTANTS Heads, Nodes, NULL

VARIABLES
  lists,  \* per head, its nodes in order
  got     \* what the last shift or pop returned

Listed == UNION {ToSet(lists[h]) : h \in Heads}

ListsInit == lists = [h \in Heads |-> <<>>] /\ got = NULL

Push(h, n) ==
  /\ n \notin Listed
  /\ lists' = [lists EXCEPT ![h] = Append(@, n)]
  /\ UNCHANGED got

Unshift(h, n) ==
  /\ n \notin Listed
  /\ lists' = [lists EXCEPT ![h] = <<n>> \o @]
  /\ UNCHANGED got

Shift(h) ==
  IF lists[h] = <<>>
    THEN got' = NULL /\ UNCHANGED lists
    ELSE got' = Head(lists[h]) /\ lists' = [lists EXCEPT ![h] = Tail(@)]

Pop(h) ==
  IF lists[h] = <<>>
    THEN got' = NULL /\ UNCHANGED lists
    ELSE got' = Last(lists[h]) /\ lists' = [lists EXCEPT ![h] = Front(@)]

\* To delete a node that is in no list changes nothing.
Delete(n) ==
  /\ \/ n \notin Listed /\ UNCHANGED lists
     \/ \E h \in Heads : \E i \in DOMAIN lists[h] :
          lists[h][i] = n /\ lists' = [lists EXCEPT ![h] = RemoveAt(@, i)]
  /\ UNCHANGED got

\* n takes the place of o, and o is in no list.
Replace(o, n) ==
  /\ n \notin Listed
  /\ \E h \in Heads : \E i \in DOMAIN lists[h] :
       lists[h][i] = o /\ lists' = [lists EXCEPT ![h][i] = n]
  /\ UNCHANGED got

ListsNext ==
  \/ \E h \in Heads : Shift(h) \/ Pop(h) \/ \E n \in Nodes : Push(h, n) \/ Unshift(h, n)
  \/ \E n \in Nodes : Delete(n) \/ \E o \in Nodes : Replace(o, n)

ListsSpec == ListsInit /\ [][ListsNext]_<<lists, got>>
=============================================================================
