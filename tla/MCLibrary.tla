----------------------------- MODULE MCLibrary ------------------------------
(***************************************************************************)
(* The data structures and algorithms of the library, each checked by      *)
(* itself in one run for TLC: a behaviour is one of the part that is its   *)
(* subject, while the others stay where they began.  They share nothing,   *)
(* so nothing is lost by not mixing their steps.                           *)
(***************************************************************************)
EXTENDS Hash, Cache, List, Strings, Text, Path, Sha1, Timing, Log

CONSTANTS x1, x2, x3, k4

VARIABLE subject

-----------------------------------------------------------------------------
(* Values of constants                                                     *)

\* x1, x2 and x3 collide, k4 does not.
Colliding == [k \in Keys |-> IF k = k4 THEN 2 ELSE 0]

SomeExpiries == {-1, 1}

\* Letters of names and others, and what two names stand for.
Letters == {"a", "b", "$", "{", "}", "\\"}
Variables == (<<"a">> :> <<"b", "$", "b">>) @@ (<<"b", "a">> :> <<"}">>)
Delimiters == {<<"b">>, <<"a", "a">>}
Bytes256 == [c \in Letters |-> CASE c = "a" -> 0 [] c = "b" -> 255 [] c = "$" -> 10 [] OTHER -> 171]
Leftovers == {<<>>, <<"a">>, <<"$", "a">>, <<"}", "b">>}

SomeDigests == {<<1>>}

Heartbeats ==
  {[interval |-> 1, freshness |-> 1, max_delay |-> 5, factor |-> 3, unit |-> 2],
   [interval |-> 4, freshness |-> 2, max_delay |-> 15, factor |-> 3, unit |-> 2],
   [interval |-> 40, freshness |-> 3, max_delay |-> 90, factor |-> 3, unit |-> 1]}

\* Keys that collide, ids and nodes are interchangeable (safety only); they
\* share these values to keep the group small.
Symmetric == Permutations({x1, x2, x3})

-----------------------------------------------------------------------------
(* One subject at a time                                                   *)

\* What is not the subject begins in one state.
Pinned(part, alone) == subject = part \/ alone

Init ==
  /\ subject \in {"hash", "cache", "list", "strings", "text", "path", "sha1", "timing", "log"}
  /\ HashInit /\ ListInit /\ StringsInit /\ Sha1Init /\ LogInit
  /\ CacheInit /\ Pinned("cache", Cardinality(Slots) = 1 /\ expire = 1)
  /\ TextInit /\ Pinned("text", beyond = <<>>)
  /\ PathInit /\ Pinned("path", Shown = <<"/">>)
  /\ TimingInit /\ Pinned("timing", param.interval = 1 /\ lap.from = 999500)

Stays(part, vars) == IF subject = part THEN TRUE ELSE UNCHANGED vars
Others ==
  /\ Stays("hash", hashVars) /\ Stays("cache", cacheVars) /\ Stays("list", listVars)
  /\ Stays("strings", stringsVars) /\ Stays("text", textVars) /\ Stays("path", pathVars)
  /\ Stays("sha1", sha1Vars) /\ Stays("timing", timingVars) /\ Stays("log", logVars)
  /\ UNCHANGED subject

Next ==
  \/ subject = "hash" /\ HashNext /\ Others
  \/ subject = "cache" /\ CacheNext /\ Others
  \/ subject = "list" /\ ListNext /\ Others
  \/ subject = "strings" /\ StringsNext /\ Others
  \/ subject = "text" /\ TextNext /\ Others
  \/ subject = "path" /\ PathNext /\ Others
  \/ subject = "sha1" /\ Sha1Next /\ Others
  \/ subject = "timing" /\ TimingNext /\ Others
  \/ subject = "log" /\ LogNext /\ Others

libraryVars == <<subject, hashVars, cacheVars, listVars, stringsVars, textVars, pathVars,
                 sha1Vars, timingVars, logVars>>

Spec == Init /\ [][Next]_libraryVars

-----------------------------------------------------------------------------
(* Properties of several modules                                           *)

\* Every part keeps its types.
LibraryTypeOK ==
  /\ HashTypeOK /\ CacheTypeOK /\ ListTypeOK /\ StringsTypeOK
  /\ Sha1TypeOK /\ TimingTypeOK /\ LogTypeOK

\* A loop over a table or a list that ends by itself has been everywhere it
\* had to, whatever its body did that it may do (src/hash.c:165-186,
\* include/vigor.h:98-125).
LoopsRight == LoopComplete /\ LoopOnce /\ [][SafeLoopComplete']_listVars
=============================================================================
