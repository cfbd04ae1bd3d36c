---------------------------- MODULE StringLists ----------------------------
(***************************************************************************)
(* What the string lists of src/strings.c do for their users (abstract     *)
(* specification): sequences of strings, which are numbers in the order of *)
(* strcmp().                                                               *)
(***************************************************************************)
EXTENDS StringSeqs

CONSTANTS Names, Strings, MaxStrings

VARIABLES
  lists,   \* per name, its strings
  answer   \* of the last search or comparison, or whether a removal succeeded

StringListsInit == lists = [x \in Names |-> <<>>] /\ answer = TRUE

\* x becomes s, and the call says b.
Becomes(x, s, b) ==
  /\ Len(s) <= MaxStrings
  /\ lists' = [lists EXCEPT ![x] = s]
  /\ answer' = b

StringListsNext ==
  \E x, y \in Names :
    \/ Becomes(x, <<>>, answer)
    \/ Becomes(x, lists[y], answer)
    \/ \E s \in Arrangements(lists[x]), descending \in BOOLEAN :
         InOrder(s, descending) /\ Becomes(x, s, answer)
    \/ \E n \in 0..Len(lists[x]) : \E s \in [1..n -> ToSet(lists[x])] :
         /\ ToSet(s) = ToSet(lists[x]) /\ \A i, j \in 1..n : i < j => s[i] < s[j]
         /\ Becomes(x, s, answer)
    \/ \E str \in Strings :
         \/ Becomes(x, lists[x], str \in ToSet(lists[x]))
         \/ Becomes(x, Append(lists[x], str), TRUE)
         \/ Becomes(x, RemoveFirst(lists[x], str), str \in ToSet(lists[x]))
    \/ Becomes(x, lists[x] \o lists[y], TRUE)
    \/ Becomes(x, Kept(lists[x], Strings \ ToSet(lists[y])), TRUE)
    \/ \E z \in Names : Becomes(x, Common(lists[y], lists[z]), answer)
    \/ Becomes(x, lists[x], /\ Len(lists[x]) = Len(lists[y])
                            /\ ToSet(lists[x]) = ToSet(lists[y]))

StringListsSpec == StringListsInit /\ [][StringListsNext]_<<lists, answer>>
=============================================================================
