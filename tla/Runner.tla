-------------------------------- MODULE Runner ------------------------------
(***************************************************************************)
(* Signals (src/signals.c) and the running of other programs (src/run.c).  *)
(* They meet in one place: the handler is installed without SA_RESTART, so *)
(* a signal interrupts the waitpid() of run2(), whose result nobody looks  *)
(* at.                                                                     *)
(***************************************************************************)
EXTENDS Integers, Null

CONSTANTS
  Loops,    \* loops of the process that ask signalled()
  Ids,      \* user and group ids; 0 is root's and asks for no change
  Codes,    \* what programs exit with
  MaxArgs,  \* MAXARGS
  MaxRuns   \* bound: calls of run2()

Stages == {"gid", "uid", "args", "exec", "program", "exited", "killed", "overrun"}
Children == [stage : Stages, uid : Ids, gid : Ids, code : Codes \cup {0, 127}]
Requests == [uid : Ids, gid : Ids, args : Nat]

ASSUME RunnerAssumption ==
  /\ 0 \in Ids /\ NULL \notin BOOLEAN \cup Int \cup Children \cup Requests
  /\ Codes \subseteq 0..255
  /\ MaxArgs \in Nat \ 0..1 /\ MaxRuns \in Nat

VARIABLES
  flag,     \* VIGOR_SIGNALLED
  seen,     \* rc of signalled(), for every loop between its read and its reset
  owed,     \* history: a signal came and no loop was told
  wiped,    \* history: a signal came between a read and its reset
  caller,   \* user and group id of the process
  asked,    \* ctx of run2(), with the number of arguments that are passed
  child,    \* the forked process: where it is, its ids, what it exited with
  result,   \* what run2() returned
  cut,      \* history: waitpid() was interrupted
  runs      \* calls so far

runnerVars == <<flag, seen, owed, wiped, caller, asked, child, result, cut, runs>>
signalVars == <<flag, seen, owed, wiped>>

RunnerTypeOK ==
  /\ flag \in BOOLEAN /\ owed \in BOOLEAN /\ wiped \in BOOLEAN /\ cut \in BOOLEAN
  /\ seen \in [Loops -> BOOLEAN \cup {NULL}]
  /\ caller \in Ids
  /\ asked \in Requests \cup {NULL}
  /\ child \in Children \cup {NULL}
  /\ result \in Codes \cup {NULL, 0, 127, -1, -2} /\ runs \in 0..MaxRuns

\* signal_handlers() was called, by a process with any ids.
RunnerInit ==
  /\ flag = FALSE /\ seen = [l \in Loops |-> NULL] /\ owed = FALSE /\ wiped = FALSE
  /\ caller \in Ids
  /\ asked = NULL /\ child = NULL /\ result = NULL /\ cut = FALSE /\ runs = 0

-----------------------------------------------------------------------------
(* signals.c                                                               *)

\* vigor_sig_handler(); without SA_RESTART it ends the waitpid() of run2().
InWaitpid == asked # NULL /\ result = NULL
SignalComes(interrupts) ==
  /\ flag' = TRUE /\ owed' = TRUE
  /\ wiped' = (\E l \in Loops : seen[l] # NULL)
  /\ interrupts => InWaitpid /\ child.stage \notin {"exited", "killed"}
  /\ IF interrupts THEN result' = 0 /\ cut' = TRUE ELSE UNCHANGED <<result, cut>>
  /\ UNCHANGED <<seen, caller, asked, child, runs>>

\* signalled(): the flag is read ...
SignalledReads(l) ==
  /\ seen[l] = NULL
  /\ seen' = [seen EXCEPT ![l] = flag]
  /\ UNCHANGED <<flag, owed, wiped, caller, asked, child, result, cut, runs>>

\* Mutant: the caller is told what the flag is after the reset.
SignalledForgets(l) ==
  /\ seen[l] # NULL
  /\ flag' = FALSE
  /\ seen' = [seen EXCEPT ![l] = NULL]
  /\ UNCHANGED <<owed, wiped, caller, asked, child, result, cut, runs>>

\* ... and reset, and the loop is told what was read.
SignalledResets(l) ==
  /\ seen[l] # NULL
  /\ flag' = FALSE
  /\ seen' = [seen EXCEPT ![l] = NULL]
  /\ owed' = (owed /\ ~seen[l])
  /\ wiped' = (wiped /\ ~seen[l])
  /\ UNCHANGED <<caller, asked, child, result, cut, runs>>

-----------------------------------------------------------------------------
(* run.c: the caller                                                       *)

\* run2() is called; the child begins as a copy of its parent.  fork() may fail.
Run(uid, gid, args, forks) ==
  /\ runs < MaxRuns /\ ~InWaitpid
  /\ asked' = [uid |-> uid, gid |-> gid, args |-> args]
  /\ child' = IF forks THEN [stage |-> "gid", uid |-> caller, gid |-> caller, code |-> 0] ELSE NULL
  /\ result' = IF forks THEN NULL ELSE -1
  /\ cut' = FALSE /\ runs' = runs + 1
  /\ UNCHANGED <<signalVars, caller>>

\* waitpid() reports the end of the child.
Waited ==
  /\ InWaitpid /\ child.stage \in {"exited", "killed"}
  /\ result' = IF child.stage = "exited" THEN child.code ELSE -2
  /\ UNCHANGED <<signalVars, caller, asked, child, cut, runs>>

-----------------------------------------------------------------------------
(* run.c: the child                                                        *)

AtStage(stage) == child # NULL /\ child.stage = stage
ChildMoves(to) == child' = to /\ UNCHANGED <<signalVars, caller, asked, result, cut, runs>>
GivesUp == [child EXCEPT !.stage = "exited", !.code = 127]
MayBecome(id, own) == child.uid = 0 \/ id = own

\* setgid(), which root may do to any group, and others only to their own.
ChildGroup ==
  /\ AtStage("gid")
  /\ \/ asked.gid = 0 /\ ChildMoves([child EXCEPT !.stage = "uid"])
     \/ asked.gid # 0 /\ MayBecome(asked.gid, child.gid)
          /\ ChildMoves([child EXCEPT !.stage = "uid", !.gid = asked.gid])
     \/ asked.gid # 0 /\ ~MayBecome(asked.gid, child.gid) /\ ChildMoves(GivesUp)

\* setuid(), which may also fail for want of resources.
ChildUser ==
  /\ AtStage("uid")
  /\ \/ asked.uid = 0 /\ ChildMoves([child EXCEPT !.stage = "args"])
     \/ asked.uid # 0 /\ MayBecome(asked.uid, child.uid)
          /\ ChildMoves([child EXCEPT !.stage = "args", !.uid = asked.uid])
     \/ asked.uid # 0 /\ ChildMoves(GivesUp)

\* args[0] is the command, and the NULL at the end takes one place as well, so that
\* the 98th argument is the last that fits: what happens when they do not fit is
\* undefined, and left as it is here.
ChildArgs ==
  /\ AtStage("args")
  /\ ChildMoves([child EXCEPT !.stage = IF asked.args + 2 <= MaxArgs THEN "exec" ELSE "overrun"])

ChildExec ==
  /\ AtStage("exec")
  /\ ChildMoves([child EXCEPT !.stage = "program"]) \/ ChildMoves(GivesUp)

\* The program ends, or is killed.
ProgramEnds(code) ==
  /\ AtStage("program")
  /\ \/ ChildMoves([child EXCEPT !.stage = "exited", !.code = code])
     \/ ChildMoves([child EXCEPT !.stage = "killed"])

ChildStep == ChildGroup \/ ChildUser \/ ChildArgs \/ ChildExec \/ \E c \in Codes : ProgramEnds(c)

RunnerNext ==
  \/ \E interrupts \in BOOLEAN : SignalComes(interrupts)
  \/ \E l \in Loops : SignalledReads(l) \/ SignalledResets(l)
  \/ \E uid, gid \in Ids, args \in {MaxArgs - 2, MaxArgs - 1}, forks \in BOOLEAN :
       Run(uid, gid, args, forks)
  \/ Waited \/ ChildStep

RunnerSpec == RunnerInit /\ [][RunnerNext]_runnerVars

-----------------------------------------------------------------------------
(* Properties                                                              *)

\* A signal that no loop was told of is still in the flag, or in the answer
\* that a loop is about to get, unless it came between the read and the reset
\* of signalled(), which wipes it (src/signals.c:52-57).
NoSignalLost == owed /\ ~wiped => flag \/ \E l \in Loops : seen[l] = TRUE

\* What run2() returns is how the child ended, 0 included, unless a signal cut
\* the waitpid() short: then it is 0 as well, and the child may still run
\* (src/run.c:45-56).
ResultTold ==
  result # NULL =>
    \/ cut /\ result = 0
    \/ result = -1 /\ child = NULL
    \/ result = -2 /\ AtStage("killed")
    \/ AtStage("exited") /\ result = child.code

\* No program is run with other ids than were asked for (src/run.c:58-73).
RunAsAsked ==
  AtStage("program") => /\ asked.gid # 0 => child.gid = asked.gid
                        /\ asked.uid # 0 => child.uid = asked.uid

RunnerRight == NoSignalLost /\ ResultTold /\ RunAsAsked
=============================================================================
