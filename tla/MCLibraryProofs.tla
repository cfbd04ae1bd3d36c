--------------------------- MODULE MCLibraryProofs --------------------------
(***************************************************************************)
(* Theorems about the library as a whole, for any values of the constants: *)
(* each behaviour of MCLibrary is, for each of its parts, one of that      *)
(* part, in which it moves while it is the subject and stays where it      *)
(* began otherwise.  So each part keeps what is proved of it alone.        *)
(***************************************************************************)
EXTENDS MCLibrary, TableProofs, ListProofs, LibraryProofs, TLAPS

-----------------------------------------------------------------------------
(* The parts of a behaviour                                                *)

LEMMA EachBegins ==
  Init => /\ HashInit /\ CacheInit /\ ListInit /\ StringsInit
          /\ TextInit /\ Sha1Init /\ TimingInit /\ LogInit
  BY DEF Init

LEMMA HashMoves == [Next]_libraryVars => [HashNext]_hashVars
  BY DEF Next, Others, Stays, libraryVars

LEMMA CacheMoves == [Next]_libraryVars => [CacheNext]_cacheVars
  BY DEF Next, Others, Stays, libraryVars

LEMMA ListMoves == [Next]_libraryVars => [ListNext]_listVars
  BY DEF Next, Others, Stays, libraryVars

LEMMA StringsMove == [Next]_libraryVars => [StringsNext]_stringsVars
  BY DEF Next, Others, Stays, libraryVars

LEMMA TextMoves == [Next]_libraryVars => [TextNext]_textVars
  BY DEF Next, Others, Stays, libraryVars

LEMMA Sha1Moves == [Next]_libraryVars => [Sha1Next]_sha1Vars
  BY DEF Next, Others, Stays, libraryVars

LEMMA TimingMoves == [Next]_libraryVars => [TimingNext]_timingVars
  BY DEF Next, Others, Stays, libraryVars

LEMMA LogMoves == [Next]_libraryVars => [LogNext]_logVars
  BY DEF Next, Others, Stays, libraryVars

LEMMA PartsOfSpec ==
  Spec => /\ HashSpec /\ CacheSpec /\ ListSpec /\ StringsSpec
          /\ TextSpec /\ Sha1Spec /\ TimingSpec /\ LogSpec
  BY EachBegins, HashMoves, CacheMoves, ListMoves, StringsMove, TextMoves, Sha1Moves, TimingMoves,
     LogMoves, PTL
     DEF Spec, HashSpec, CacheSpec, ListSpec, StringsSpec, TextSpec, Sha1Spec, TimingSpec, LogSpec

-----------------------------------------------------------------------------
(* What they keep                                                          *)

\* Whatever programs do with the structures of the library, as long as they
\* resize no cache that is in use (the run cache_resize shows what that does),
\* every part keeps its types.
THEOREM LibraryTypeCorrect ==
  ASSUME ~GrowsInUse
  PROVE  Spec => []LibraryTypeOK
<1>1. CacheSpec => [](CacheTypeOK /\ Coherent)
  BY CacheCoherent
<1> QED
  BY <1>1, PartsOfSpec, TableWellFormed, ListTypeCorrect, StringsTyped, Sha1TypeCorrect,
     TimingTypeCorrect, LogNamesRight, PTL
     DEF LibraryTypeOK

\* A loop over a table or a list that ends by itself has been everywhere it had
\* to, and not twice, whatever its body did that it may do (src/hash.c:165-186,
\* include/vigor.h:98-125).
THEOREM LoopsCorrect == Spec => LoopsRight
BY PartsOfSpec, LoopsComplete, LoopsOnce, SafeLoopsComplete, PTL DEF LoopsRight

\* The library does what its abstract specifications promise: tables are maps,
\* caches hold what was put there last, lists and string lists are sequences,
\* and strings, checksums, timers and levels are right (src/hash.c,
\* src/cache.c, src/list.c, src/strings.c, src/basex.c, src/sha1.c, src/hb.c,
\* src/time.c, src/log.c).
THEOREM LibraryCorrect ==
  ASSUME ~GrowsInUse
  PROVE  Spec => /\ [](WellFormed /\ Coherent /\ RingsClosed)
                 /\ [](TextRight /\ DigestRight /\ TimingRight /\ LogRight)
                 /\ ImplementsMap /\ ImplementsBoundedCache /\ ObjectsDestroyed
                 /\ ImplementsLists /\ ImplementsStringLists
<1>1. CacheSpec => [](CacheTypeOK /\ Coherent)
  BY CacheCoherent
<1>2. CacheSpec => ImplementsBoundedCache /\ ObjectsDestroyed
  BY BoundedCacheImplemented, ObjectsAccountedFor
<1> QED
  BY <1>1, <1>2, PartsOfSpec, TableWellFormed, MapImplemented, RingsStayClosed, ListsImplemented,
     StringListsImplemented, TextCorrect, ChecksumsRight, TimingCorrect, LogNamesRight, PTL
=============================================================================
