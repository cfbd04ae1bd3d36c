-------------------------------- MODULE Path --------------------------------
(***************************************************************************)
(* The paths of src/path.c: a buffer in which path_pop() puts a NUL over   *)
(* the last slash, path_push() puts the slash back, and path_canon() takes *)
(* out "." and ".." components.                                            *)
(***************************************************************************)
EXTENDS SequencesExt

CONSTANTS
  PathChars,  \* the characters of paths
  MaxPath     \* bound: length of a path

ASSUME PathAssumption ==
  "/" \in PathChars /\ "." \in PathChars /\ "NUL" \notin PathChars /\ MaxPath \in Nat

VARIABLES
  buf,     \* p->buf, all of p->len + 2 bytes
  n, len,  \* p->n and p->len
  popped,  \* history: what the path was before each path_pop() not yet undone
  residue, \* history: path_canon() has left other bytes behind the path
  pushed   \* history: path_push() was called since the path was made or canonical

pathVars == <<buf, n, len, popped, residue, pushed>>

EOS == "NUL"

\* What is in the buffer up to its first NUL: path().
StringIn(b) == SubSeq(b, 1, Min({i \in DOMAIN b : b[i] = EOS}) - 1)
Shown == StringIn(buf)

\* path_new(); path_push() reads behind the buffer of an empty path, so callers
\* have none.
PathInit ==
  /\ \E l \in 1..MaxPath : \E s \in [1..l -> PathChars] :
       buf = s \o <<EOS, EOS>> /\ n = l /\ len = l
  /\ popped = <<>>
  /\ residue = FALSE /\ pushed = FALSE

\* A component may be empty: its slash is the last character or followed by
\* another.
EmptyComponents(s) ==
  \E i \in 1..Len(s) : s[i] = "/" /\ (i = Len(s) \/ s[i + 1] = "/")

-----------------------------------------------------------------------------
(* path_canon()                                                            *)

\* The buffer from a to b - 1 in zeroes.
Wiped(b, from, to) == [i \in DOMAIN b |-> IF i \in from..to - 1 THEN EOS ELSE b[i]]

\* The last slash of b before `from', or `otherwise'.
SlashBefore(b, from, otherwise) ==
  LET slashes == {i \in 1..from - 1 : b[i] = "/"}
  IN IF slashes = {} THEN otherwise ELSE Max(slashes)

\* The component that ends before e, a slash or the end: "/." is wiped out, and
\* "/.." with what is left of the component before it.
WipeComponent(b, e) ==
  LET a == SlashBefore(b, e, 1)
      component == SubSeq(b, a, e - 1)
  IN CASE component = <<"/", ".", ".">> -> Wiped(b, SlashBefore(b, a, 1), e)
       [] component = <<"/", ".">>      -> Wiped(b, a, e)
       [] OTHER -> b

\* The first p->len bytes once components are taken out.
WipeAll(b) ==
  LET wiped[e \in 1..len + 1] ==
        IF e = 1 THEN b
        ELSE IF e = len + 1 \/ wiped[e - 1][e] = "/" THEN WipeComponent(wiped[e - 1], e)
        ELSE wiped[e - 1]
  IN wiped[len + 1]

\* What is left moves to the front of the buffer, and loses a slash at its end;
\* nothing becomes "/".
Compacted(b) ==
  LET moved[i \in 0..len] ==
        IF i = 0 THEN <<>> ELSE IF b[i] = EOS THEN moved[i - 1] ELSE Append(moved[i - 1], b[i])
      left == moved[len]
      cut  == IF left # <<>> /\ Last(left) = "/" THEN Front(left) ELSE left
      path == IF cut = <<>> THEN <<"/">> ELSE cut
  IN [i \in DOMAIN b |-> IF i <= Len(path) THEN path[i]
                         ELSE IF i <= Len(left) + 1 \/ i = Len(path) + 1 THEN EOS ELSE b[i]]

\* Mutant: the slash at the end stays.
PathCanonSlash ==
  /\ LET left == SelectSeq(WipeAll(buf), LAMBDA c : c # EOS)
     IN buf' = [i \in DOMAIN buf |-> IF i <= Len(left) THEN left[i] ELSE EOS]
  /\ n' = Len(StringIn(buf')) /\ len' = n'
  /\ popped' = <<>>
  /\ residue' = residue /\ pushed' = FALSE

\* path_canon(): of all of p->len, what was popped and its NULs included.
PathCanon ==
  /\ buf' = Compacted(WipeAll(buf))
  /\ n' = Len(StringIn(buf')) /\ len' = n'
  /\ popped' = <<>>
  /\ residue' = \E i \in DOMAIN buf : i > n' /\ buf'[i] # EOS
  /\ pushed' = FALSE

-----------------------------------------------------------------------------
(* path_push(), path_pop()                                                 *)

\* The NUL becomes a slash if there is something behind it, and p->n the length
\* of what was pushed: not of the path, but from the slash on.
PathPush ==
  /\ LET s == Len(Shown) + 1
         more == buf[s + 1] # EOS
     IN /\ buf' = IF more THEN [buf EXCEPT ![s] = "/"] ELSE buf
        /\ n' = Len(StringIn(buf')) - (s - 1)
        /\ popped' = IF more /\ popped # <<>> THEN Front(popped) ELSE popped
  /\ pushed' = TRUE
  /\ UNCHANGED <<len, residue>>

\* The last slash up to p->n, but for the one in front, becomes a NUL; without
\* one p->n goes down to nothing.
PathPop ==
  /\ LET s == SlashBefore(SubSeq(buf, 1, n + 1), n + 2, 1) IN
     IF s > 1
       THEN /\ buf' = [buf EXCEPT ![s] = EOS]
            /\ n' = s - 1
            /\ popped' = Append(popped, Shown)
       ELSE n' = 0 /\ UNCHANGED <<buf, popped>>
  /\ UNCHANGED <<len, residue, pushed>>

PathNext == PathCanon \/ PathPop \/ PathPush

PathSpec == PathInit /\ [][PathNext]_pathVars

-----------------------------------------------------------------------------
(* Properties                                                              *)

\* What a path stands for, component by component, each with its slash: "."
\* stands for nothing, and ".." takes out the component before it, an empty one
\* ("//") and the first of a relative path included; one slash at the end is
\* dropped.
Canonical(s) ==
  LET starts == {1} \cup {i \in 1..Len(s) : s[i] = "/"}
      ordered == SetToSortSeq(starts, <)
      component(i) == SubSeq(s, ordered[i], IF i = Len(ordered) THEN Len(s) ELSE ordered[i + 1] - 1)
      kept[i \in 0..Len(ordered)] ==
        IF i = 0 THEN <<>>
        ELSE CASE component(i) = <<"/", ".">> -> kept[i - 1]
               [] component(i) = <<"/", ".", ".">> ->
                    IF kept[i - 1] = <<>> THEN <<>> ELSE Front(kept[i - 1])
               [] OTHER -> Append(kept[i - 1], component(i))
      whole == FlattenSeq(kept[Len(ordered)])
      cut == IF whole # <<>> /\ Last(whole) = "/" THEN Front(whole) ELSE whole
  IN IF cut = <<>> THEN <<"/">> ELSE cut

\* path_canon() makes of a path that nothing was popped from what it stands for
\* (src/path.c:66-104): the wiping of components in place, over what earlier
\* ones left wiped, never takes too much or too little.
CanonRight == [][PathCanon /\ popped = <<>> /\ ~residue => Shown' = Canonical(Shown)]_pathVars

\* path_push() undoes one path_pop(), and without one changes nothing
\* (src/path.c:106-126), unless path_canon() has left bytes behind the path or
\* components are empty: then it ends early, or pushes what was never popped.
PushUndoesPop ==
  [][PathPush => \/ residue
                 \/ EmptyComponents(Shown \o <<"a">>) \/ EmptyComponents(Shown)
                 \/ popped # <<>> /\ EmptyComponents(popped[1])
                 \/ Shown' = IF popped = <<>> THEN Shown ELSE Last(popped)]_pathVars

\* The path that is shown loses its last component, if there is another.
LastTaken ==
  LET s == SlashBefore(Shown, Len(Shown) + 1, 1)
  IN Shown' = IF s > 1 THEN SubSeq(Shown, 1, s - 1) ELSE Shown

\* path_pop() takes the last component, one call after another, until there is
\* only one (src/path.c:116-126; "popped last component", src/t/path.c:90), as long
\* as nothing was pushed since the path was made or canonical: a push leaves in
\* p->n the length of what it pushed (src/path.c:112), and the next pop, which
\* begins there, may find no slash or an earlier one.
PopsTakeLast == [][PathPop => pushed \/ LastTaken]_pathVars

\* Paths as callers see them, over any sequence of calls.
PathRight == CanonRight /\ PushUndoesPop /\ PopsTakeLast
=============================================================================
