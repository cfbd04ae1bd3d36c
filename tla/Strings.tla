------------------------------ MODULE Strings ------------------------------
(***************************************************************************)
(* The string lists of src/strings.c as arrays in memory: sl->num strings, *)
(* a NULL behind them, and slots up to sl->len.  s_strings_reduce(), which *)
(* closes the gaps that strings_uniq() and strings_remove_all() make,      *)
(* reads behind the terminator, and behind the array: what it finds there  *)
(* is Junk or NULL.  Strings are numbers in the order of strcmp().         *)
(***************************************************************************)
EXTENDS StringSeqs, Null

CONSTANTS
  Lists, Strings,  \* the lists and strings of the callers
  Junk,            \* whatever is in memory behind an array
  InitLen,         \* STRINGS_INIT_LEN, 16 in the code
  ExpFactor,       \* STRINGS_EXP_FACTOR, 8 in the code
  MaxStrings       \* bound: strings in a list

ASSUME StringsAssumption ==
  /\ Strings \subseteq Int /\ NULL \notin Strings /\ Junk \notin Strings \cup {NULL}
  /\ InitLen \in Nat \ {0} /\ ExpFactor \in Nat \ {0} /\ MaxStrings \in Nat

VARIABLES
  num,       \* sl->num
  slots,     \* sl->strings; sl->len is its length
  overread,  \* history: a read behind the array of a list
  stringsRet \* what the last call that answers returned, TRUE standing for 0
             \* (and for "equivalent", -1, of strings_diff())

stringsVars == <<num, slots, overread, stringsRet>>

StringsTypeOK ==
  /\ num \in [Lists -> 0..MaxStrings]
  /\ slots \in [Lists -> Seq(Strings \cup {NULL, Junk})]
  /\ overread \in BOOLEAN
  /\ stringsRet \in BOOLEAN

\* The strings of a list: for_each_string.
Content(x) == SubSeq(slots[x], 1, num[x])

\* STRINGS_EXPAND
Expand(n) == (n \div ExpFactor + 1) * ExpFactor

\* An array of n slots that begins with s.
Filled(s, n) == [i \in 1..n |-> IF i <= Len(s) THEN s[i] ELSE NULL]

StringsInit ==
  /\ num = [x \in Lists |-> 0]
  /\ slots = [x \in Lists |-> Filled(<<>>, InitLen)]
  /\ overread = FALSE
  /\ stringsRet = TRUE

\* The list x is given an array, of which the first n are its strings.
Store(x, n, array) ==
  /\ n <= MaxStrings
  /\ num' = [num EXCEPT ![x] = n]
  /\ slots' = [slots EXCEPT ![x] = array]

\* Whoever follows the array of x to its NULL finds the strings of x.
Ended(x) == num[x] < Len(slots[x]) /\ slots[x][num[x] + 1] = NULL

-----------------------------------------------------------------------------
(* strings_new(), strings_dup(), strings_sort()                            *)

\* strings_free() and strings_new(NULL)
StringsNew(x) ==
  /\ Store(x, 0, Filled(<<>>, InitLen))
  /\ UNCHANGED <<overread, stringsRet>>

\* strings_dup() is strings_new() of the array, up to its first NULL; what it
\* does with a list that has none is undefined.
StringsDup(x, y) ==
  /\ Ended(y)
  /\ Store(x, num[y], Filled(Content(y), Expand(num[y])))
  /\ UNCHANGED <<overread, stringsRet>>

\* qsort() of the first num slots; those behind stay as they are.
WithContent(x, s) == s \o SubSeq(slots[x], num[x] + 1, Len(slots[x]))

StringsSort(x, descending) ==
  /\ \E s \in Arrangements(Content(x)) :
       InOrder(s, descending) /\ Store(x, num[x], WithContent(x, s))
  /\ UNCHANGED <<overread, stringsRet>>

-----------------------------------------------------------------------------
(* s_strings_reduce() and the calls that leave gaps to it                  *)

\* Where the pointer that reads stands once it is done with the n strings that
\* stay, and with each of the `gaps' rounds that the loop still goes: a NULL
\* is skipped, whether it is within the list or not.
ReadAt(array, n, gaps) ==
  LET At(p) == IF p <= Len(array) THEN array[p] ELSE Junk
      read[i \in 1..gaps] ==
        LET p == IF i = 1 THEN n + 1 ELSE read[i - 1] + 1
        IN IF At(p) = NULL THEN p + 1 ELSE p
  IN read

\* gappy is what the first num slots have become.
Reduce(x, gappy) ==
  LET kept == Kept(gappy, Strings)
      gaps == num[x] - Len(kept)
      read == ReadAt(slots[x], num[x], gaps)
      array == slots[x]
  IN \E wild \in [{i \in 1..gaps : read[i] > Len(array)} -> {NULL, Junk}] :
       /\ Store(x, Len(kept), [i \in DOMAIN array |->
            CASE i <= Len(kept) -> kept[i]
              [] i \in Len(kept) + 1..num[x] ->
                   LET r == i - Len(kept) IN
                   IF r \in DOMAIN wild THEN wild[r] ELSE array[read[r]]
              [] OTHER -> array[i]])
       /\ overread' = (overread \/ DOMAIN wild # {})

\* Without what is followed by its like.
Gappy(s) == [i \in DOMAIN s |-> IF i < Len(s) /\ s[i] = s[i + 1] THEN NULL ELSE s[i]]

\* Mutant: neighbours are compared in the order they were added.
StringsUniqUnsorted(x) ==
  /\ IF num[x] < 2 THEN UNCHANGED <<num, slots, overread>>
     ELSE Reduce(x, Gappy(Content(x)))
  /\ UNCHANGED stringsRet

\* strings_uniq() sorts, and drops what is followed by its like.
StringsUniq(x) ==
  /\ IF num[x] < 2 THEN UNCHANGED <<num, slots, overread>>
     ELSE \E s \in Arrangements(Content(x)) :
            InOrder(s, FALSE) /\ Reduce(x, Gappy(s))
  /\ UNCHANGED stringsRet

\* strings_remove_all() drops every string that src has, also where dst has it
\* more often than src.
StringsRemoveAll(dst, src) ==
  /\ dst # src
  /\ Reduce(dst, [i \in 1..num[dst] |-> IF slots[dst][i] \in ToSet(Content(src)) THEN NULL
                                                                          ELSE slots[dst][i]])
  /\ stringsRet' = TRUE

-----------------------------------------------------------------------------
(* Adding, removing, asking                                                *)

\* s_strings_capacity()
Capacity(x) == Len(slots[x]) - 1 - num[x]

\* The array of x with room for n more: s_strings_expand() if need be.
Room(x, n) ==
  IF Capacity(x) < n THEN Filled(slots[x], Expand(n) + Len(slots[x])) ELSE slots[x]

\* strings_add() and strings_add_all(): the strings, and a NULL behind them.
AddAll(x, s) ==
  /\ Store(x, num[x] + Len(s), [i \in DOMAIN Room(x, Len(s)) |->
       CASE i \in num[x] + 1..num[x] + Len(s) -> s[i - num[x]]
         [] i = num[x] + Len(s) + 1 -> NULL
         [] OTHER -> Room(x, Len(s))[i]])
  /\ stringsRet' = TRUE
  /\ UNCHANGED overread

StringsAdd(x, str) == AddAll(x, <<str>>)

StringsAddAll(dst, src) == dst # src /\ AddAll(dst, Content(src))

\* strings_remove(): the first of its kind; what is behind it moves, the NULL
\* included.
StringsRemove(x, str) ==
  /\ LET at == SelectInSeq(Content(x), LAMBDA s : s = str) IN
     IF at = 0 THEN UNCHANGED <<num, slots>>
     ELSE Store(x, num[x] - 1, [i \in DOMAIN slots[x] |->
            IF i \in at..num[x] THEN slots[x][i + 1] ELSE slots[x][i]])
  /\ stringsRet' = (str \in ToSet(Content(x)))
  /\ UNCHANGED overread

\* The length of a new array when n strings have been added one by one.
Grown(n) ==
  LET grown[i \in 0..n] ==
        IF i = 0 THEN InitLen
        ELSE grown[i - 1] + IF grown[i - 1] = i THEN Expand(1) ELSE 0
  IN grown[n]

\* strings_intersect(): a new list, with a string for every pair of equals.
StringsIntersect(x, a, b) ==
  /\ LET both == Common(Content(a), Content(b))
     IN Store(x, Len(both), Filled(both, Grown(Len(both))))
  /\ UNCHANGED <<overread, stringsRet>>

StringsSearch(x, str) ==
  /\ stringsRet' = \E i \in 1..num[x] : slots[x][i] = str
  /\ UNCHANGED <<num, slots, overread>>

\* strings_diff(): as many strings, and each list has all of the other's.
StringsDiff(x, y) ==
  /\ stringsRet' = /\ num[x] = num[y]
                   /\ \A i \in 1..num[x] : /\ slots[x][i] \in ToSet(Content(y))
                                           /\ slots[y][i] \in ToSet(Content(x))
  /\ UNCHANGED <<num, slots, overread>>

StringsNext ==
  \E x, y \in Lists :
    \/ StringsNew(x) \/ StringsDup(x, y)
    \/ StringsSort(x, FALSE) \/ StringsSort(x, TRUE) \/ StringsUniq(x)
    \/ StringsRemoveAll(x, y) \/ StringsAddAll(x, y) \/ StringsDiff(x, y)
    \/ \E str \in Strings : StringsAdd(x, str) \/ StringsRemove(x, str) \/ StringsSearch(x, str)
    \/ \E z \in Lists : StringsIntersect(x, y, z)

StringsSpec == StringsInit /\ [][StringsNext]_stringsVars

-----------------------------------------------------------------------------
(* Properties                                                              *)

\* The strings of a list are real strings, and a NULL ends them for those who
\* do not look at sl->num (strings_dup(), src/strings.c:346), unless a call has
\* read behind an array, as strings_uniq() and strings_remove_all() do when the
\* array is full (src/strings.c:241-254).
Terminated ==
  \A x \in Lists : /\ ToSet(Content(x)) \subseteq Strings
                   /\ overread \/ Ended(x)

\* The arrays implement sequences of strings: gaps are closed in order, and
\* neither growing nor what lies behind the strings is ever seen
\* (src/strings.c:211-262, 344-645).
AsLists == INSTANCE StringLists
  WITH Names <- Lists, lists <- [x \in Lists |-> Content(x)], answer <- stringsRet

ImplementsStringLists == AsLists!StringListsSpec /\ []Terminated
=============================================================================
