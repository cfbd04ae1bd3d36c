------------------------------ MODULE MCCache ------------------------------
(* An instance of Cache for TLC.                                           *)
EXTENDS Cache, TLC

SomeExpiries == {-1, 1}

\* Ids and objects are interchangeable (safety only).
Symmetric == Permutations(Ids) \cup Permutations(Data)
=============================================================================
