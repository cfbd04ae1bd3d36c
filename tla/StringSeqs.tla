----------------------------- MODULE StringSeqs -----------------------------
(***************************************************************************)
(* Sequences of strings, which are numbers in the order of strcmp().       *)
(***************************************************************************)
EXTENDS Integers, SequencesExt

\* What qsort() may make of s.
Arrangements(s) ==
  {[i \in DOMAIN s |-> s[p[i]]] : p \in Bijection(DOMAIN s, DOMAIN s)}

\* By STRINGS_ASC or by STRINGS_DESC.
InOrder(s, descending) ==
  \A i, j \in DOMAIN s : i < j => IF descending THEN s[i] >= s[j] ELSE s[i] <= s[j]

\* The elements of s that are in S, in the order they have.
Kept(s, S) ==
  LET kept[i \in 0..Len(s)] ==
        IF i = 0 THEN <<>> ELSE IF s[i] \in S THEN Append(kept[i - 1], s[i]) ELSE kept[i - 1]
  IN kept[Len(s)]

\* Each string of s as often as t has it.
Common(s, t) ==
  LET common[i \in 0..Len(s)] ==
        IF i = 0 THEN <<>> ELSE common[i - 1] \o Kept(t, {s[i]})
  IN common[Len(s)]
=============================================================================
