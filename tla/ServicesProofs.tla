---------------------------- MODULE ServicesProofs --------------------------
(***************************************************************************)
(* Theorems about the parts that meet other processes, threads and peers,  *)
(* for any values of their constants: Runner (the types, and the three     *)
(* promises of signals and of run2()), Daemon (who owns a pid file, what   *)
(* it says, what a parent is told, what is left of an environment), Zap    *)
(* (that the thread answers what the trust database says), Reactor (what   *)
(* may keep its loop busy) and Cert (that the forms of a key agree); and   *)
(* about all of them together, with Config and Pdu: each behaviour of      *)
(* MCServices is, for each of its parts, one of that part, in which it     *)
(* moves while it is the subject and stays where it began otherwise.       *)
(***************************************************************************)
EXTENDS MCServices, PduProofs, SequenceTheorems, WellFoundedInduction, TLAPS

(***************************************************************************)
(*                                 Runner                                  *)
(***************************************************************************)
\* A loop that has read the flag as down, and will put it down, has overlooked
\* whatever put it up since.
Overlooks == flag /\ ~wiped => \A l \in Loops : seen[l] # FALSE

SignalInv == NoSignalLost /\ Overlooks

\* What the child has become by the stage it has reached.
ChildChanged ==
  child # NULL =>
    /\ child.stage \in {"uid", "args", "exec", "program", "overrun"} =>
         (asked.gid # 0 => child.gid = asked.gid)
    /\ child.stage \in {"args", "exec", "program", "overrun"} =>
         (asked.uid # 0 => child.uid = asked.uid)

RunInv == ChildChanged /\ ResultTold

-----------------------------------------------------------------------------
(* Types                                                                   *)


\* A caller has asked for every child that there is, and waits for one that
\* there is.
ChildAsked == (child # NULL => asked # NULL) /\ (InWaitpid => child # NULL)

LEMMA RunnerTypeInit == RunnerInit => RunnerTypeOK /\ ChildAsked
<1> SUFFICES ASSUME RunnerInit PROVE RunnerTypeOK /\ ChildAsked
  OBVIOUS
<1>1. runs \in 0..MaxRuns
  BY RunnerAssumption DEF RunnerInit
<1>2. seen \in [Loops -> BOOLEAN \cup {NULL}]
  BY DEF RunnerInit
<1> QED
  BY <1>1, <1>2, Zenon DEF RunnerInit, RunnerTypeOK, ChildAsked, InWaitpid

\* Where the child's own steps lead it.
LEMMA ChildStays ==
  ASSUME RunnerTypeOK, ChildAsked, ChildStep
  PROVE  /\ child # NULL /\ child' \in Children
         /\ UNCHANGED <<signalVars, caller, asked, result, cut, runs>>
<1>1. child # NULL /\ child \in Children
  BY DEF ChildStep, ChildGroup, ChildUser, ChildArgs, ChildExec, ProgramEnds, AtStage, RunnerTypeOK
<1>2. UNCHANGED <<signalVars, caller, asked, result, cut, runs>>
  BY DEF ChildStep, ChildGroup, ChildUser, ChildArgs, ChildExec, ProgramEnds, ChildMoves
<1>3. asked.uid \in Ids /\ asked.gid \in Ids
  BY <1>1 DEF ChildAsked, RunnerTypeOK, Requests
<1>4. /\ \A s \in Stages : [child EXCEPT !.stage = s] \in Children
      /\ GivesUp \in Children
  BY <1>1 DEF GivesUp, Children, Stages
<1>5. child' \in Children
  <2>1. CASE ChildGroup
    <3>1. [child EXCEPT !.stage = "uid", !.gid = asked.gid] \in Children
      BY <1>1, <1>3 DEF Children, Stages
    <3> QED
      BY <1>4, <2>1, <3>1 DEF ChildGroup, ChildMoves, Stages
  <2>2. CASE ChildUser
    <3>1. [child EXCEPT !.stage = "args", !.uid = asked.uid] \in Children
      BY <1>1, <1>3 DEF Children, Stages
    <3> QED
      BY <1>4, <2>2, <3>1 DEF ChildUser, ChildMoves, Stages
  <2>3. CASE ChildArgs
    BY <1>4, <2>3 DEF ChildArgs, ChildMoves, Stages
  <2>4. CASE ChildExec
    BY <1>4, <2>4 DEF ChildExec, ChildMoves, Stages
  <2>5. ASSUME NEW c \in Codes, ProgramEnds(c) PROVE child' \in Children
    <3>1. [child EXCEPT !.stage = "exited", !.code = c] \in Children
      BY <1>1 DEF Children, Stages
    <3> QED
      BY <1>4, <2>5, <3>1 DEF ProgramEnds, ChildMoves, Stages
  <2> QED
    BY <2>1, <2>2, <2>3, <2>4, <2>5 DEF ChildStep
<1> QED
  BY <1>1, <1>2, <1>5

LEMMA RunnerTypeStep ==
  RunnerTypeOK /\ ChildAsked /\ [RunnerNext]_runnerVars => RunnerTypeOK' /\ ChildAsked'
<1> SUFFICES ASSUME RunnerTypeOK, ChildAsked, [RunnerNext]_runnerVars
             PROVE  RunnerTypeOK' /\ ChildAsked'
  OBVIOUS
<1>1. ASSUME NEW interrupts \in BOOLEAN, SignalComes(interrupts)
      PROVE  RunnerTypeOK' /\ ChildAsked'
  BY <1>1 DEF SignalComes, InWaitpid, signalVars, RunnerTypeOK, ChildAsked
<1>2. ASSUME NEW l \in Loops, SignalledReads(l) PROVE RunnerTypeOK' /\ ChildAsked'
  BY <1>2 DEF SignalledReads, InWaitpid, RunnerTypeOK, ChildAsked
<1>3. ASSUME NEW l \in Loops, SignalledResets(l) PROVE RunnerTypeOK' /\ ChildAsked'
  BY <1>3 DEF SignalledResets, InWaitpid, RunnerTypeOK, ChildAsked
<1>4. ASSUME NEW uid \in Ids, NEW gid \in Ids, NEW args \in {MaxArgs - 2, MaxArgs - 1},
             NEW forks \in BOOLEAN, Run(uid, gid, args, forks)
      PROVE  RunnerTypeOK' /\ ChildAsked'
  <2>1. args \in Nat
    BY RunnerAssumption
  <2>2. runs' \in 0..MaxRuns
    BY <1>4, RunnerAssumption DEF Run, RunnerTypeOK
  <2>3. asked' \in Requests
    BY <1>4, <2>1 DEF Run, Requests
  <2>4. child' \in Children \cup {NULL}
    BY <1>4 DEF Run, Children, Stages, RunnerTypeOK
  <2>5. result' \in {NULL, -1} /\ (child' = NULL => result' = -1)
    BY <1>4, <2>4, RunnerAssumption DEF Run, Children, Stages, RunnerTypeOK
  <2>6. ChildAsked'
    BY <2>3, <2>5, RunnerAssumption DEF InWaitpid, ChildAsked
  <2>7. RunnerTypeOK'
    <3>1. UNCHANGED <<flag, owed, wiped, seen, caller>> /\ cut' = FALSE
      BY <1>4 DEF Run, signalVars
    <3> QED
      BY <2>2, <2>3, <2>4, <2>5, <3>1 DEF RunnerTypeOK
  <2> QED
    BY <2>6, <2>7
<1>5. CASE Waited
  BY <1>5 DEF Waited, InWaitpid, signalVars, RunnerTypeOK, ChildAsked, Children
<1>6. CASE ChildStep
  BY <1>6, ChildStays, RunnerAssumption DEF InWaitpid, signalVars, RunnerTypeOK, ChildAsked
<1>7. CASE UNCHANGED runnerVars
  BY <1>7 DEF InWaitpid, runnerVars, RunnerTypeOK, ChildAsked
<1> QED
  BY <1>1, <1>2, <1>3, <1>4, <1>5, <1>6, <1>7 DEF RunnerNext

THEOREM RunnerTypeCorrect == RunnerSpec => [](RunnerTypeOK /\ ChildAsked)
  BY RunnerTypeInit, RunnerTypeStep, PTL DEF RunnerSpec

-----------------------------------------------------------------------------
(* Signals                                                                 *)

LEMMA SignalStep == RunnerTypeOK /\ ChildAsked /\ SignalInv /\ [RunnerNext]_runnerVars => SignalInv'
<1> SUFFICES ASSUME RunnerTypeOK, ChildAsked, SignalInv, [RunnerNext]_runnerVars PROVE SignalInv'
  OBVIOUS
<1>1. ASSUME NEW interrupts \in BOOLEAN, SignalComes(interrupts) PROVE SignalInv'
  <2>1. flag' = TRUE /\ seen' = seen /\ (~wiped' => \A l \in Loops : seen[l] = NULL)
    BY <1>1 DEF SignalComes
  <2> QED
    BY <2>1, RunnerAssumption DEF SignalInv, NoSignalLost, Overlooks
<1>2. ASSUME NEW l \in Loops, SignalledReads(l) PROVE SignalInv'
  <2>1. UNCHANGED <<flag, owed, wiped>> /\ seen[l] = NULL /\ seen' = [seen EXCEPT ![l] = flag]
    BY <1>2 DEF SignalledReads
  <2>2. seen'[l] = flag /\ \A m \in Loops \ {l} : seen'[m] = seen[m]
    BY <2>1 DEF RunnerTypeOK
  <2>3. NULL # TRUE /\ flag \in BOOLEAN
    BY RunnerAssumption DEF RunnerTypeOK
  <2>4. NoSignalLost'
    BY <2>1, <2>2, <2>3 DEF SignalInv, NoSignalLost
  <2>5. Overlooks'
    BY <2>1, <2>2, <2>3 DEF SignalInv, Overlooks
  <2> QED
    BY <2>4, <2>5 DEF SignalInv
<1>3. ASSUME NEW l \in Loops, SignalledResets(l) PROVE SignalInv'
  <2>1. /\ flag' = FALSE /\ seen' = [seen EXCEPT ![l] = NULL]
        /\ owed' = (owed /\ ~seen[l]) /\ wiped' = (wiped /\ ~seen[l])
        /\ seen[l] \in BOOLEAN
    BY <1>3 DEF SignalledResets, RunnerTypeOK
  <2>2. \A m \in Loops \ {l} : seen'[m] = seen[m]
    BY <2>1 DEF RunnerTypeOK
  <2>3. ASSUME owed', ~wiped' PROVE \E m \in Loops : seen'[m] = TRUE
    <3>1. owed /\ seen[l] = FALSE /\ ~wiped
      BY <2>1, <2>3
    <3>2. ~flag
      BY <3>1 DEF SignalInv, Overlooks
    <3>3. PICK m \in Loops : seen[m] = TRUE
      BY <3>1, <3>2 DEF SignalInv, NoSignalLost
    <3> QED
      BY <2>2, <3>1, <3>3
  <2> QED
    BY <2>1, <2>3 DEF SignalInv, NoSignalLost, Overlooks
<1>4. CASE UNCHANGED signalVars
  BY <1>4 DEF signalVars, SignalInv, NoSignalLost, Overlooks
<1>5. ASSUME NEW uid \in Ids, NEW gid \in Ids, NEW args \in {MaxArgs - 2, MaxArgs - 1},
             NEW forks \in BOOLEAN, Run(uid, gid, args, forks)
      PROVE  UNCHANGED signalVars
  BY <1>5 DEF Run, signalVars
<1>6. Waited \/ ChildStep \/ UNCHANGED runnerVars => UNCHANGED signalVars
  BY ChildStays DEF Waited, runnerVars, signalVars
<1> QED
  BY <1>1, <1>2, <1>3, <1>4, <1>5, <1>6 DEF RunnerNext

\* A signal is lost only between the two halves of signalled()
\* (src/signals.c:52-57).
THEOREM SignalsKept == RunnerSpec => []NoSignalLost
<1>1. RunnerInit => SignalInv
  BY DEF RunnerInit, SignalInv, NoSignalLost, Overlooks
<1>2. SignalInv => NoSignalLost
  BY DEF SignalInv
<1> QED
  BY <1>1, <1>2, SignalStep, RunnerTypeCorrect, PTL DEF RunnerSpec

-----------------------------------------------------------------------------
(* run2()                                                                  *)

LEMMA RunStep == RunnerTypeOK /\ ChildAsked /\ RunInv /\ [RunnerNext]_runnerVars => RunInv'
<1> SUFFICES ASSUME RunnerTypeOK, ChildAsked, RunInv, [RunnerNext]_runnerVars PROVE RunInv'
  OBVIOUS
<1> USE DEF AtStage
<1>1. ASSUME NEW interrupts \in BOOLEAN, SignalComes(interrupts) PROVE RunInv'
  <2>1. UNCHANGED <<child, asked>> /\ ChildChanged'
    BY <1>1 DEF SignalComes, RunInv, ChildChanged
  <2>2. CASE interrupts
    BY <1>1, <2>1, <2>2 DEF SignalComes, RunInv, ResultTold
  <2>3. CASE ~interrupts
    BY <1>1, <2>1, <2>3 DEF SignalComes, RunInv, ResultTold
  <2> QED
    BY <2>2, <2>3
<1>2. CASE UNCHANGED <<child, asked, result, cut>>
  BY <1>2 DEF RunInv, ChildChanged, ResultTold
<1>3. ASSUME NEW l \in Loops, SignalledReads(l) \/ SignalledResets(l) PROVE RunInv'
  BY <1>2, <1>3 DEF SignalledReads, SignalledResets
<1>4. ASSUME NEW uid \in Ids, NEW gid \in Ids, NEW args \in {MaxArgs - 2, MaxArgs - 1},
             NEW forks \in BOOLEAN, Run(uid, gid, args, forks)
      PROVE  RunInv'
  <2>1. child' # NULL => child'.stage = "gid"
    BY <1>4 DEF Run
  <2>2. result' # NULL => result' = -1 /\ child' = NULL
    BY <1>4 DEF Run
  <2> QED
    BY <2>1, <2>2 DEF RunInv, ChildChanged, ResultTold
<1>5. CASE Waited
  <2>1. UNCHANGED <<child, asked, cut>> /\ child # NULL
    BY <1>5 DEF Waited, ChildAsked
  <2> QED
    BY <1>5, <2>1 DEF Waited, RunInv, ChildChanged, ResultTold
<1>6. CASE ChildStep
  <2>1. child # NULL /\ child.stage \notin {"exited", "killed"}
    BY <1>6 DEF ChildStep, ChildGroup, ChildUser, ChildArgs, ChildExec, ProgramEnds
  <2>2. UNCHANGED <<asked, result, cut>> /\ child \in Children /\ child' # NULL /\ asked \in Requests
    BY <1>6, <2>1, ChildStays, RunnerAssumption DEF RunnerTypeOK, ChildAsked
  <2>3. ResultTold'
    BY <2>1, <2>2, RunnerAssumption DEF RunInv, ResultTold
  <2>4. ChildChanged'
    <3>0. /\ \A s \in Stages : LET c == [child EXCEPT !.stage = s]
                               IN c.stage = s /\ c.uid = child.uid /\ c.gid = child.gid
          /\ GivesUp.stage = "exited"
      BY <2>2 DEF GivesUp, Children
    <3>1. CASE ChildGroup
      <4>1. LET c == [child EXCEPT !.stage = "uid", !.gid = asked.gid]
            IN c.stage = "uid" /\ c.gid = asked.gid
        BY <2>2 DEF Children
      <4>2. child'.stage \in {"uid", "exited"}
        BY <3>0, <3>1, <4>1 DEF ChildGroup, ChildMoves, Stages
      <4>3. child'.stage = "uid" /\ asked.gid # 0 => child'.gid = asked.gid
        BY <3>0, <3>1, <4>1 DEF ChildGroup, ChildMoves, Stages
      <4> QED
        BY <2>2, <4>2, <4>3 DEF ChildChanged
    <3>2. CASE ChildUser
      <4>1. LET c == [child EXCEPT !.stage = "args", !.uid = asked.uid]
            IN c.stage = "args" /\ c.uid = asked.uid /\ c.gid = child.gid
        BY <2>2 DEF Children
      <4>2. child'.stage \in {"args", "exited"}
        BY <3>0, <3>2, <4>1 DEF ChildUser, ChildMoves, Stages
      <4>3. /\ child'.stage = "args" => child'.gid = child.gid
            /\ child'.stage = "args" /\ asked.uid # 0 => child'.uid = asked.uid
        <5>1. \/ asked.uid = 0 /\ child' = [child EXCEPT !.stage = "args"]
              \/ child' = [child EXCEPT !.stage = "args", !.uid = asked.uid]
              \/ child' = GivesUp
          BY <3>2 DEF ChildUser, ChildMoves
        <5> QED
          BY <3>0, <4>1, <5>1 DEF Stages
      <4>4. child.stage = "uid"
        BY <3>2 DEF ChildUser
      <4> QED
        BY <2>1, <2>2, <4>2, <4>3, <4>4 DEF RunInv, ChildChanged
    <3>3. CASE ChildArgs
      <4>1. /\ child.stage = "args" /\ child'.stage \in {"exec", "overrun"}
            /\ child'.uid = child.uid /\ child'.gid = child.gid
        BY <3>0, <3>3 DEF ChildArgs, ChildMoves, Stages
      <4> QED
        BY <2>1, <2>2, <4>1 DEF RunInv, ChildChanged
    <3>4. CASE ChildExec
      <4>1. child.stage = "exec" /\ child'.stage \in {"program", "exited"}
        BY <3>0, <3>4 DEF ChildExec, ChildMoves, Stages
      <4>2. child'.stage = "program" => child'.uid = child.uid /\ child'.gid = child.gid
        BY <3>0, <3>4 DEF ChildExec, ChildMoves, Stages
      <4> QED
        BY <2>1, <2>2, <4>1, <4>2 DEF RunInv, ChildChanged
    <3>5. ASSUME NEW c \in Codes, ProgramEnds(c) PROVE ChildChanged'
      <4>1. [child EXCEPT !.stage = "exited", !.code = c].stage = "exited"
        BY <2>2 DEF Children
      <4>2. child'.stage \in {"exited", "killed"}
        BY <3>0, <3>5, <4>1 DEF ProgramEnds, ChildMoves, Stages
      <4> QED
        BY <4>2 DEF ChildChanged
    <3> QED
      BY <1>6, <3>1, <3>2, <3>3, <3>4, <3>5 DEF ChildStep
  <2> QED
    BY <2>3, <2>4 DEF RunInv
<1>7. CASE UNCHANGED runnerVars
  BY <1>2, <1>7 DEF runnerVars
<1> QED
  BY <1>1, <1>3, <1>4, <1>5, <1>6, <1>7 DEF RunnerNext

\* What run2() returns, and as whom a program runs (src/run.c:45-73).
THEOREM RunsTold == RunnerSpec => [](ResultTold /\ RunAsAsked)
<1>1. RunnerInit => RunInv
  BY DEF RunnerInit, RunInv, ChildChanged, ResultTold
<1>2. RunInv => ResultTold /\ RunAsAsked
  BY DEF RunInv, ChildChanged, RunAsAsked, AtStage
<1> QED
  BY <1>1, <1>2, RunStep, RunnerTypeCorrect, PTL DEF RunnerSpec

\* All that the module promises, for any number of loops and calls.
THEOREM RunnerCorrect == RunnerSpec => []RunnerRight
<1>1. NoSignalLost /\ ResultTold /\ RunAsAsked => RunnerRight
  BY DEF RunnerRight
<1> QED
  BY <1>1, SignalsKept, RunsTold, PTL

-----------------------------------------------------------------------------
(***************************************************************************)
(*                                 Daemon                                  *)
(***************************************************************************)
ProcessTypes ==
  /\ parent \in [Starts -> {"none", "lookup", "cleanenv", "fork", "reading", "left"}]
  /\ daemon \in [Starts -> {"none", "lock", "write", "ids", "running", "failed", "dead"}]
  /\ exitStatus \in [Starts -> {NULL, 0, 2}]
  /\ ids \in [Starts -> {"root", "user", "daemon"}]
  /\ pidFile \in 1..MaxFiles /\ opened \in [Starts -> 0..MaxFiles]
  /\ holder \in [1..MaxFiles -> Starts \cup {NULL}]

\* A child has been forked, and a process that goes on has a file open that was
\* made.
Progress ==
  \A d \in Starts :
    /\ parent[d] \in {"none", "lookup", "cleanenv", "fork"} => daemon[d] = "none"
    /\ parent[d] \notin {"none", "left"} \/ daemon[d] # "none" => opened[d] \in 1..pidFile
    /\ exitStatus[d] = 2 => parent[d] = "left"

\* A child that went on has the lock of the file it was given.
OwnersHold == \A d \in Starts : Owner(d) => opened[d] \in 1..pidFile /\ holder[opened[d]] = d

DaemonInv == ProcessTypes /\ Progress /\ OwnersHold /\ StartTold

LEMMA DaemonStart == DaemonInit => DaemonInv
<1> SUFFICES ASSUME DaemonInit PROVE DaemonInv
  OBVIOUS
<1>1. ProcessTypes
  BY DaemonAssumption DEF DaemonInit, ProcessTypes
<1>2. Progress /\ StartTold
  BY DaemonAssumption DEF DaemonInit, Progress, StartTold
<1>3. OwnersHold
  BY DEF DaemonInit, OwnersHold, Owner
<1> QED
  BY <1>1, <1>2, <1>3 DEF DaemonInv

-----------------------------------------------------------------------------
(* The parent                                                              *)

LEMMA ParentKeepsInv ==
  ASSUME DaemonInv, NEW d \in Starts,
         OpenPidFile(d) \/ NoPidFile(d) \/ LookUp(d) \/ CleanEnv(d) \/ ForkDaemon(d) \/ ParentLeaves(d)
  PROVE  DaemonInv'
<1>1. CASE OpenPidFile(d)
  <2>1. /\ daemon[d] = "none" /\ pidFile \in 1..pidFile
        /\ opened' \in [Starts -> 0..MaxFiles] /\ opened'[d] = pidFile
        /\ \A e \in Starts \ {d} : opened'[e] = opened[e]
    BY <1>1, DaemonAssumption DEF OpenPidFile, ParentMoves, DaemonInv, ProcessTypes, Progress
  <2>2. ProcessTypes'
    BY <1>1, <2>1 DEF OpenPidFile, ParentMoves, DaemonInv, ProcessTypes
  <2>3. Progress'
    BY <1>1, <2>1 DEF OpenPidFile, ParentMoves, DaemonInv, ProcessTypes, Progress
  <2>4. OwnersHold'
    BY <1>1, <2>1 DEF OpenPidFile, DaemonInv, OwnersHold, Owner
  <2> QED
    BY <1>1, <2>2, <2>3, <2>4 DEF OpenPidFile, DaemonInv, StartTold
<1>2. CASE NoPidFile(d) \/ LookUp(d)
  <2>1. daemon[d] = "none"
    BY <1>2 DEF NoPidFile, LookUp, ParentMoves, DaemonInv, Progress
  <2>2. ProcessTypes'
    BY <1>2 DEF NoPidFile, LookUp, ParentMoves, fileVars, DaemonInv, ProcessTypes
  <2>3. Progress' /\ StartTold'
    BY <1>2, <2>1 DEF NoPidFile, LookUp, ParentMoves, fileVars, DaemonInv, ProcessTypes, Progress, StartTold
  <2> QED
    BY <1>2, <2>2, <2>3 DEF NoPidFile, LookUp, fileVars, DaemonInv, OwnersHold, Owner
<1>3. CASE CleanEnv(d)
  <2>1. ProcessTypes' /\ Progress'
    BY <1>3 DEF CleanEnv, ParentMoves, fileVars, DaemonInv, ProcessTypes, Progress
  <2> QED
    BY <1>3, <2>1 DEF CleanEnv, fileVars, DaemonInv, OwnersHold, Owner, StartTold
<1>4. CASE ForkDaemon(d)
  <2>1. ProcessTypes' /\ Progress'
    BY <1>4 DEF ForkDaemon, ParentMoves, ChildIs, fileVars, DaemonInv, ProcessTypes, Progress
  <2>2. \A e \in Starts : Owner(e)' => Owner(e)
    BY <1>4 DEF ForkDaemon, ChildIs, Owner, DaemonInv, ProcessTypes
  <2>3. OwnersHold'
    BY <1>4, <2>2 DEF ForkDaemon, fileVars, DaemonInv, OwnersHold
  <2>4. exitStatus[d] # 0 /\ exitStatus[d] # 2
    BY <1>4 DEF ForkDaemon, ParentMoves, ChildIs, DaemonInv, Progress, StartTold
  <2>5. StartTold'
    BY <1>4, <2>4 DEF ForkDaemon, ChildIs, fileVars, DaemonInv, ProcessTypes, StartTold
  <2> QED
    BY <2>1, <2>3, <2>5 DEF DaemonInv
<1>5. CASE ParentLeaves(d)
  <2>1. ProcessTypes' /\ Progress' /\ StartTold'
    BY <1>5 DEF ParentLeaves, ParentMoves, fileVars, DaemonInv, ProcessTypes, Progress, StartTold
  <2> QED
    BY <1>5, <2>1 DEF ParentLeaves, fileVars, DaemonInv, OwnersHold, Owner
<1> QED
  BY <1>1, <1>2, <1>3, <1>4, <1>5

-----------------------------------------------------------------------------
(* The child                                                               *)

LEMMA ChildKeepsInv ==
  ASSUME DaemonInv, NEW d \in Starts,
         LockPidFile(d) \/ WritePid(d) \/ Daemonized(d) \/ DaemonDies(d) \/ PidFileRemoved(d)
  PROVE  DaemonInv'
<1>1. CASE LockPidFile(d)
  <2>1. /\ daemon[d] = "lock" /\ daemon' \in [Starts -> {"none", "lock", "write", "ids", "running", "failed", "dead"}]
        /\ daemon'[d] \in {"write", "failed"} /\ \A e \in Starts \ {d} : daemon'[e] = daemon[e]
    BY <1>1 DEF LockPidFile, ChildIs, DaemonInv, ProcessTypes
  <2>2. opened[d] \in 1..pidFile /\ opened[d] \in 1..MaxFiles
    BY <2>1 DEF DaemonInv, ProcessTypes, Progress
  <2>3. \/ /\ holder[opened[d]] = NULL /\ holder' = [holder EXCEPT ![opened[d]] = d]
        \/ daemon'[d] = "failed" /\ holder' = holder
    BY <1>1 DEF LockPidFile, ChildIs, DaemonInv, ProcessTypes
  <2>4. ProcessTypes' /\ Progress' /\ StartTold'
    <3>1. holder' \in [1..MaxFiles -> Starts \cup {NULL}]
      BY <2>2, <2>3 DEF DaemonInv, ProcessTypes
    <3>2. exitStatus[d] # 0 /\ exitStatus[d] # 2
      BY <2>1 DEF DaemonInv, StartTold
    <3> QED
      BY <1>1, <2>1, <3>1, <3>2 DEF LockPidFile, DaemonInv, ProcessTypes, Progress, StartTold
  <2>5. ASSUME NEW e \in Starts, Owner(e)'
        PROVE  opened[e] \in 1..pidFile /\ holder'[opened[e]] = e
    <3>1. CASE e = d
      BY <2>1, <2>2, <2>3, <2>5, <3>1 DEF Owner, DaemonInv, ProcessTypes
    <3>2. CASE e # d
      <4>1. opened[e] \in 1..pidFile /\ holder[opened[e]] = e /\ e # NULL
        BY <2>1, <2>5, <3>2, DaemonAssumption DEF Owner, DaemonInv, OwnersHold
      <4>2. opened[e] \in 1..MaxFiles
        BY <4>1 DEF DaemonInv, ProcessTypes
      <4>3. CASE holder[opened[d]] = NULL /\ holder' = [holder EXCEPT ![opened[d]] = d]
        <5>1. opened[e] # opened[d]
          BY <4>1, <4>3
        <5> QED
          BY <4>1, <4>2, <4>3, <5>1 DEF DaemonInv, ProcessTypes
      <4> QED
        BY <2>3, <4>1, <4>3
    <3> QED
      BY <3>1, <3>2
  <2> QED
    BY <1>1, <2>4, <2>5 DEF LockPidFile, DaemonInv, OwnersHold
<1>2. CASE WritePid(d) \/ Daemonized(d)
  <2>1. /\ Owner(d) /\ \A e \in Starts : Owner(e)' <=> Owner(e)
        /\ holder' = holder /\ opened' = opened /\ pidFile' = pidFile
    BY <1>2 DEF WritePid, Daemonized, ChildIs, Owner, fileVars, DaemonInv, ProcessTypes
  <2>2. ProcessTypes'
    BY <1>2, <2>1 DEF WritePid, Daemonized, ChildIs, DaemonInv, ProcessTypes
  <2>3. Progress'
    BY <1>2, <2>1 DEF WritePid, Daemonized, ChildIs, Owner, DaemonInv, ProcessTypes, Progress
  <2>4. StartTold'
    BY <1>2 DEF WritePid, Daemonized, ChildIs, DaemonInv, ProcessTypes, StartTold
  <2> QED
    BY <2>1, <2>2, <2>3, <2>4 DEF DaemonInv, OwnersHold
<1>3. CASE DaemonDies(d)
  <2>1. ProcessTypes'
    BY <1>3 DEF DaemonDies, DaemonInv, ProcessTypes
  <2>2. Progress' /\ StartTold'
    BY <1>3 DEF DaemonDies, DaemonInv, ProcessTypes, Progress, StartTold
  <2>3. ASSUME NEW e \in Starts, Owner(e)'
        PROVE  opened[e] \in 1..pidFile /\ holder'[opened[e]] = e
    <3>1. e # d /\ Owner(e)
      BY <1>3, <2>3 DEF DaemonDies, Owner, DaemonInv, ProcessTypes
    <3>2. opened[e] \in 1..pidFile /\ holder[opened[e]] = e /\ opened[e] \in 1..MaxFiles
      BY <3>1 DEF DaemonInv, ProcessTypes, OwnersHold
    <3> QED
      BY <1>3, <3>1, <3>2 DEF DaemonDies
  <2> QED
    BY <1>3, <2>1, <2>2, <2>3 DEF DaemonDies, DaemonInv, OwnersHold
<1>4. CASE PidFileRemoved(d)
  <2>1. pidFile' \in 1..MaxFiles /\ \A i \in 1..pidFile : i \in 1..pidFile'
    BY <1>4, DaemonAssumption DEF PidFileRemoved, DaemonInv, ProcessTypes
  <2>2. ProcessTypes' /\ Progress' /\ StartTold'
    BY <1>4, <2>1 DEF PidFileRemoved, DaemonInv, ProcessTypes, Progress, StartTold
  <2> QED
    BY <1>4, <2>1, <2>2 DEF PidFileRemoved, DaemonInv, OwnersHold, Owner
<1> QED
  BY <1>1, <1>2, <1>3, <1>4

LEMMA DaemonStep ==
  ASSUME DaemonInv, [DaemonNext]_daemonVars
  PROVE  DaemonInv'
<1>1. CASE UNCHANGED daemonVars
  BY <1>1 DEF daemonVars, DaemonInv, ProcessTypes, Progress, OwnersHold, Owner, StartTold
<1> QED
  BY <1>1, ParentKeepsInv, ChildKeepsInv DEF DaemonNext

-----------------------------------------------------------------------------
(* Two daemons                                                             *)

LEMMA OwnersApart == DaemonInv => OneDaemon
<1> SUFFICES ASSUME DaemonInv, NEW d \in Starts, NEW e \in Starts, Owner(d), Owner(e), d # e
             PROVE  opened[d] # opened[e] /\ pidFile > 1
  BY DEF OneDaemon
<1>1. opened[d] # opened[e]
  BY DEF DaemonInv, OwnersHold
<1>2. opened[d] \in 1..pidFile /\ opened[e] \in 1..pidFile /\ pidFile \in Nat
  BY DaemonAssumption DEF DaemonInv, OwnersHold, ProcessTypes
<1> QED
  BY <1>1, <1>2

-----------------------------------------------------------------------------
(* The environment                                                         *)

LEMMA WordsAre ==
  "PWD" \in Words /\ "HOME" \in Words /\ "LOGNAME" \in Words /\ "USER" \in Words /\ "\n" \in Words
BY DaemonAssumption

\* What cleanenv() has kept of the first n variables, and whether it will pass
\* over the next one.
Scanned(env, n, done) ==
  done = [i \in 0..n |->
            IF i = 0 THEN [kept |-> <<>>, passing |-> FALSE]
            ELSE IF done[i - 1].passing \/ env[i] \in Keepers
              THEN [kept |-> Append(done[i - 1].kept, env[i]), passing |-> FALSE]
              ELSE [kept |-> done[i - 1].kept, passing |-> TRUE]]

ScanStep(env, done, i) ==
  IF done[i - 1].passing \/ env[i] \in Keepers
    THEN [kept |-> Append(done[i - 1].kept, env[i]), passing |-> FALSE]
    ELSE [kept |-> done[i - 1].kept, passing |-> TRUE]

LEMMA ScannedExtends ==
  ASSUME NEW env, NEW n \in Nat, NEW g, Scanned(env, n, g)
  PROVE  \E h : Scanned(env, n + 1, h)
<1> DEFINE h == [i \in 0..n + 1 |-> IF i = n + 1 THEN ScanStep(env, g, i) ELSE g[i]]
<1>0. \A i \in 0..n : g[i] = IF i = 0 THEN [kept |-> <<>>, passing |-> FALSE] ELSE ScanStep(env, g, i)
  <2> DEFINE G(x) == [i \in 0..n |-> IF i = 0 THEN [kept |-> <<>>, passing |-> FALSE] ELSE ScanStep(env, x, i)]
  <2>1. g = G(g)
    BY DEF Scanned, ScanStep
  <2>2. \A i \in 0..n : G(g)[i] = IF i = 0 THEN [kept |-> <<>>, passing |-> FALSE] ELSE ScanStep(env, g, i)
    OBVIOUS
  <2> HIDE DEF G
  <2> QED
    BY <2>1, <2>2
<1>1. \A i \in 0..n : i \in 0..n + 1 /\ h[i] = g[i]
  OBVIOUS
<1>2. \A i \in 0..n + 1 : h[i] = IF i = 0 THEN [kept |-> <<>>, passing |-> FALSE] ELSE ScanStep(env, g, i)
  <2>1. \A i \in 0..n + 1 : i \in 0..n \/ i = n + 1
    OBVIOUS
  <2>2. h[n + 1] = ScanStep(env, g, n + 1) /\ n + 1 # 0
    OBVIOUS
  <2> HIDE DEF h
  <2> QED
    BY <1>0, <1>1, <2>1, <2>2
<1>3. \A i \in 0..n + 1 : i # 0 => ScanStep(env, h, i) = ScanStep(env, g, i)
  <2> SUFFICES ASSUME NEW i \in 0..n + 1, i # 0 PROVE ScanStep(env, h, i) = ScanStep(env, g, i)
    OBVIOUS
  <2>1. i - 1 \in 0..n
    OBVIOUS
  <2>2. h[i - 1] = g[i - 1]
    BY <1>1, <2>1
  <2> HIDE DEF h
  <2> QED
    BY <2>2 DEF ScanStep
<1>4. h = [i \in 0..n + 1 |-> h[i]]
  OBVIOUS
<1> HIDE DEF h
<1>5. h = [i \in 0..n + 1 |-> IF i = 0 THEN [kept |-> <<>>, passing |-> FALSE] ELSE ScanStep(env, h, i)]
  BY <1>2, <1>3, <1>4
<1> QED
  BY <1>5 DEF Scanned, ScanStep

LEMMA ScannedExists ==
  ASSUME NEW env, NEW n \in Nat
  PROVE  \E g : Scanned(env, n, g)
<1> DEFINE Bad == {m \in Nat : ~\E g : Scanned(env, m, g)}
<1> SUFFICES ASSUME Bad # {} PROVE FALSE
  OBVIOUS
<1>1. PICK m \in Bad : \A k \in Bad : ~(<<k, m>> \in OpToRel(<, Nat))
  <2>1. Bad \subseteq Nat
    OBVIOUS
  <2> HIDE DEF Bad
  <2> QED
    BY <2>1, NatLessThanWellFounded, WFMin
<1>2. CASE m = 0
  <2> DEFINE g == [i \in 0..0 |-> [kept |-> <<>>, passing |-> FALSE]]
  <2>1. Scanned(env, 0, g)
    BY DEF Scanned
  <2> QED
    BY <1>2, <2>1
<1>3. CASE m # 0
  <2>1. m - 1 \in Nat /\ (m - 1) + 1 = m /\ m - 1 < m
    BY <1>3
  <2>2. <<m - 1, m>> \in OpToRel(<, Nat)
    BY <2>1 DEF OpToRel
  <2>3. PICK g : Scanned(env, m - 1, g)
    BY <1>1, <2>1, <2>2
  <2> QED
    BY <2>1, <2>3, ScannedExtends
<1> QED
  BY <1>2, <1>3

LEMMA CleanedIsScanned ==
  ASSUME NEW env, Len(env) \in Nat
  PROVE  \E done : Scanned(env, Len(env), done) /\ Cleaned(env) = done[Len(env)].kept
<1> DEFINE done == CHOOSE done : Scanned(env, Len(env), done)
<1>1. Scanned(env, Len(env), done)
  BY ScannedExists
<1>2. Cleaned(env) = done[Len(env)].kept
  BY DEF Cleaned, Scanned
<1> QED
  BY <1>1, <1>2

\* What holds of the variables kept of the first n.
KeptRight(env, n, kept, passing) ==
  /\ kept \in Seq(Words)
  /\ \A j \in 1..n : env[j] \in Keepers => env[j] \in ToSet(kept)
  /\ \A k, l \in DOMAIN kept : \E i, j \in 1..n :
       env[i] = kept[k] /\ env[j] = kept[l] /\ (k < l => i < j)
  /\ \A j \in 1..n : env[j] \in ToSet(kept) \ Keepers => j > 1 /\ env[j - 1] \notin ToSet(kept)
  /\ passing => n > 0 /\ env[n] \notin ToSet(kept)

LEMMA AppendedSet ==
  ASSUME NEW S, NEW s \in Seq(S), NEW x \in S
  PROVE  /\ Append(s, x) \in Seq(S) /\ Len(s) \in Nat /\ Len(Append(s, x)) = Len(s) + 1
         /\ DOMAIN s = 1..Len(s) /\ DOMAIN Append(s, x) = 1..Len(s) + 1
         /\ \A k \in 1..Len(s) : Append(s, x)[k] = s[k]
         /\ Append(s, x)[Len(s) + 1] = x
         /\ ToSet(Append(s, x)) = ToSet(s) \cup {x}
<1>1. /\ Append(s, x) \in Seq(S) /\ Len(s) \in Nat /\ Len(Append(s, x)) = Len(s) + 1
      /\ DOMAIN s = 1..Len(s) /\ DOMAIN Append(s, x) = 1..Len(s) + 1
      /\ \A k \in 1..Len(s) : Append(s, x)[k] = s[k]
      /\ Append(s, x)[Len(s) + 1] = x
  OBVIOUS
<1>2. \A k \in 1..Len(s) + 1 : k \in 1..Len(s) \/ k = Len(s) + 1
  BY <1>1
<1>3. ToSet(s) = {s[k] : k \in 1..Len(s)} /\ ToSet(Append(s, x)) = {Append(s, x)[k] : k \in 1..Len(s) + 1}
  BY <1>1 DEF ToSet
<1>4. 1..Len(s) \subseteq 1..Len(s) + 1 /\ Len(s) + 1 \in 1..Len(s) + 1
  BY <1>1
<1>5. \A y : y \in ToSet(Append(s, x)) <=> y \in ToSet(s) \/ y = x
  BY <1>1, <1>2, <1>3, <1>4
<1> QED
  BY <1>1, <1>5

LEMMA KeptStep ==
  ASSUME NEW env \in Seq(Words), IsInjective(env), NEW n \in Nat, n + 1 <= Len(env),
         NEW kept, NEW passing \in BOOLEAN, KeptRight(env, n, kept, passing)
  PROVE  IF passing \/ env[n + 1] \in Keepers
           THEN KeptRight(env, n + 1, Append(kept, env[n + 1]), FALSE)
           ELSE KeptRight(env, n + 1, kept, TRUE)
<1> DEFINE x == env[n + 1]
<1>1. /\ n + 1 \in DOMAIN env /\ x \in Words
      /\ \A j \in 1..n + 1 : j \in 1..n \/ j = n + 1
      /\ \A j \in 1..n : j \in 1..n + 1 /\ env[j] # x /\ n + 1 # j /\ j < n + 1
      /\ n + 1 \in 1..n + 1
  BY DEF IsInjective
<1>2. kept \in Seq(Words) /\ x \notin ToSet(kept)
  <2>1. \A k \in DOMAIN kept : kept[k] # x
    BY <1>1 DEF KeptRight
  <2> QED
    BY <2>1 DEF KeptRight, ToSet
<1> HIDE DEF x
<1>3. CASE passing \/ x \in Keepers
  <2> DEFINE t == Append(kept, x)
             m == Len(kept)
  <2>1. /\ t \in Seq(Words) /\ ToSet(t) = ToSet(kept) \cup {x} /\ m \in Nat
        /\ DOMAIN kept = 1..m /\ DOMAIN t = 1..m + 1 /\ t[m + 1] = x
        /\ \A k \in 1..m : t[k] = kept[k]
    <3>1. x \in Words /\ kept \in Seq(Words)
      BY <1>1, <1>2
    <3> QED
      BY <3>1, AppendedSet DEF t, m
  <2> HIDE DEF t, m
  <2>2. \A j \in 1..n + 1 : env[j] \in Keepers => env[j] \in ToSet(t)
    BY <1>1, <2>1 DEF KeptRight, x
  <2>3. ASSUME NEW k \in DOMAIN t, NEW l \in DOMAIN t
        PROVE  \E i, j \in 1..n + 1 : env[i] = t[k] /\ env[j] = t[l] /\ (k < l => i < j)
    <3>1. (k \in DOMAIN kept \/ k = m + 1) /\ (l \in DOMAIN kept \/ l = m + 1)
      BY <2>1
    <3>2. CASE k \in DOMAIN kept /\ l \in DOMAIN kept
      <4>1. PICK i \in 1..n, j \in 1..n : env[i] = kept[k] /\ env[j] = kept[l] /\ (k < l => i < j)
        BY <3>2 DEF KeptRight
      <4> QED
        BY <1>1, <2>1, <3>2, <4>1
    <3>3. CASE k \in DOMAIN kept /\ l = m + 1
      <4>1. PICK i \in 1..n : env[i] = kept[k]
        BY <3>3 DEF KeptRight
      <4> QED
        BY <1>1, <2>1, <3>3, <4>1 DEF x
    <3>4. CASE k = m + 1 /\ l \in DOMAIN kept
      <4>1. PICK j \in 1..n : env[j] = kept[l]
        BY <3>4 DEF KeptRight
      <4>2. ~(k < l)
        BY <2>1, <3>4
      <4> QED
        BY <1>1, <2>1, <3>4, <4>1, <4>2 DEF x
    <3>5. CASE k = m + 1 /\ l = m + 1
      <4>1. ~(k < l)
        BY <2>1, <3>5
      <4> QED
        BY <1>1, <2>1, <3>5, <4>1 DEF x
    <3> QED
      BY <3>1, <3>2, <3>3, <3>4, <3>5
  <2>4. ASSUME NEW j \in 1..n + 1, env[j] \in ToSet(t) \ Keepers
        PROVE  j > 1 /\ env[j - 1] \notin ToSet(t)
    <3>1. CASE j \in 1..n
      <4>1. j > 1 /\ env[j - 1] \notin ToSet(kept)
        BY <1>1, <2>1, <2>4, <3>1 DEF KeptRight
      <4>2. j - 1 \in 1..n
        BY <3>1, <4>1
      <4> QED
        BY <1>1, <2>1, <4>1, <4>2
    <3>2. CASE j = n + 1
      <4>1. n > 0 /\ env[n] \notin ToSet(kept)
        BY <1>3, <2>4, <3>2 DEF KeptRight, x
      <4>2. n \in 1..n /\ j - 1 = n /\ j > 1
        BY <3>2, <4>1
      <4> QED
        BY <1>1, <2>1, <4>1, <4>2
    <3> QED
      BY <1>1, <3>1, <3>2
  <2>5. KeptRight(env, n + 1, t, FALSE)
    BY <2>1, <2>2, <2>3, <2>4 DEF KeptRight
  <2> QED
    BY <1>3, <2>5 DEF t, x
<1>4. CASE ~(passing \/ x \in Keepers)
  <2>1. \A j \in 1..n + 1 : env[j] \in Keepers => env[j] \in ToSet(kept)
    BY <1>1, <1>4 DEF KeptRight, x
  <2>2. \A k, l \in DOMAIN kept : \E i, j \in 1..n + 1 :
          env[i] = kept[k] /\ env[j] = kept[l] /\ (k < l => i < j)
    BY <1>1 DEF KeptRight
  <2>3. \A j \in 1..n + 1 : env[j] \in ToSet(kept) \ Keepers => j > 1 /\ env[j - 1] \notin ToSet(kept)
    BY <1>1, <1>2 DEF KeptRight, x
  <2>4. KeptRight(env, n + 1, kept, TRUE)
    BY <1>2, <2>1, <2>2, <2>3 DEF KeptRight, x
  <2> QED
    BY <1>4, <2>4 DEF x
<1> QED
  BY <1>3, <1>4

LEMMA CleanedKept ==
  ASSUME NEW env \in Seq(Words), IsInjective(env)
  PROVE  CleanedRight(env, Cleaned(env)) /\ Cleaned(env) \in Seq(Words)
<1> DEFINE N == Len(env)
<1>1. N \in Nat /\ DOMAIN env = 1..N
  OBVIOUS
<1>2. PICK done : Scanned(env, N, done) /\ Cleaned(env) = done[N].kept
  BY <1>1, CleanedIsScanned
<1> HIDE DEF N
<1>3. \A i \in 0..N : done[i] = IF i = 0 THEN [kept |-> <<>>, passing |-> FALSE]
                                ELSE ScanStep(env, done, i)
  <2> DEFINE G(x) == [i \in 0..N |-> IF i = 0 THEN [kept |-> <<>>, passing |-> FALSE] ELSE ScanStep(env, x, i)]
  <2>1. done = G(done)
    BY <1>2 DEF Scanned, ScanStep
  <2>2. \A i \in 0..N : G(done)[i] = IF i = 0 THEN [kept |-> <<>>, passing |-> FALSE] ELSE ScanStep(env, done, i)
    OBVIOUS
  <2> HIDE DEF G
  <2> QED
    BY <2>1, <2>2
<1> DEFINE P(i) == done[i].passing \in BOOLEAN /\ KeptRight(env, i, done[i].kept, done[i].passing)
           Bad == {i \in 0..N : ~P(i)}
<1>4. Bad = {}
  <2> SUFFICES ASSUME Bad # {} PROVE FALSE
    OBVIOUS
  <2>1. PICK i \in Bad : \A k \in Bad : ~(<<k, i>> \in OpToRel(<, Nat))
    <3>1. Bad \subseteq Nat
      BY <1>1
    <3> HIDE DEF Bad
    <3> QED
      BY <3>1, NatLessThanWellFounded, WFMin
  <2>2. i \in 0..N /\ i \in Nat /\ ~P(i)
    BY <1>1
  <2>3. CASE i = 0
    <3>1. done[0].kept = <<>> /\ done[0].passing = FALSE
      BY <1>1, <1>3
    <3>2. KeptRight(env, 0, <<>>, FALSE)
      BY DEF KeptRight
    <3> QED
      BY <2>2, <2>3, <3>1, <3>2
  <2>4. CASE i # 0
    <3>1. i - 1 \in 0..N /\ i - 1 \in Nat /\ (i - 1) + 1 = i /\ i - 1 < i /\ i <= Len(env)
      BY <1>1, <2>2, <2>4 DEF N
    <3>2. <<i - 1, i>> \in OpToRel(<, Nat)
      BY <2>2, <3>1 DEF OpToRel
    <3>3. P(i - 1)
      BY <2>1, <3>1, <3>2
    <3>4. done[i] = ScanStep(env, done, i)
      BY <1>3, <2>2, <2>4
    <3>5. IF done[i - 1].passing \/ env[i] \in Keepers
           THEN KeptRight(env, i, Append(done[i - 1].kept, env[i]), FALSE)
           ELSE KeptRight(env, i, done[i - 1].kept, TRUE)
      BY <3>1, <3>3, KeptStep
    <3>6. P(i)
      <4>1. CASE done[i - 1].passing \/ env[i] \in Keepers
        <5>1. done[i].kept = Append(done[i - 1].kept, env[i]) /\ done[i].passing = FALSE
          BY <3>4, <4>1 DEF ScanStep
        <5> QED
          BY <3>5, <4>1, <5>1
      <4>2. CASE ~(done[i - 1].passing \/ env[i] \in Keepers)
        <5>1. done[i].kept = done[i - 1].kept /\ done[i].passing = TRUE
          BY <3>4, <4>2 DEF ScanStep
        <5> QED
          BY <3>5, <4>2, <5>1
      <4> QED
        BY <4>1, <4>2
    <3> QED
      BY <2>2, <3>6
  <2> QED
    BY <2>3, <2>4
<1>5. KeptRight(env, N, done[N].kept, done[N].passing)
  <2>1. N \in 0..N
    BY <1>1
  <2> QED
    BY <1>4, <2>1
<1>6. ToSet(env) = {env[j] : j \in 1..N}
  BY <1>1 DEF ToSet
<1> DEFINE K == done[N].kept
<1>7. /\ K \in Seq(Words)
      /\ \A j \in 1..N : env[j] \in Keepers => env[j] \in ToSet(K)
      /\ \A k, l \in DOMAIN K : \E i, j \in 1..N :
           env[i] = K[k] /\ env[j] = K[l] /\ (k < l => i < j)
      /\ \A j \in 1..N : env[j] \in ToSet(K) \ Keepers => j > 1 /\ env[j - 1] \notin ToSet(K)
  BY <1>5 DEF KeptRight
<1>8. K = Cleaned(env)
  BY <1>2
<1> HIDE DEF K
<1>9. ToSet(env) \cap Keepers \subseteq ToSet(K)
  BY <1>6, <1>7
<1>10. CleanedRight(env, K)
  BY <1>1, <1>7, <1>9 DEF CleanedRight
<1> QED
  BY <1>7, <1>8, <1>10

\* Sequences that agree on their first n elements.
LEMMA SameFront ==
  ASSUME NEW S, NEW s \in Seq(S), NEW t \in Seq(S), NEW n \in Nat, n <= Len(s), n <= Len(t),
         \A k \in 1..n : s[k] = t[k]
  PROVE  SubSeq(s, 1, n) = SubSeq(t, 1, n)
<1>1. \A k \in 1..n : s[k] \in S /\ t[k] \in S
  <2>1. \A k \in 1..n : k \in 1..Len(s) /\ k \in 1..Len(t)
    BY LenProperties
  <2> QED
    BY <2>1, ElementOfSeq
<1>2. /\ SubSeq(s, 1, n) \in Seq(S) /\ Len(SubSeq(s, 1, n)) = n
      /\ \A i \in 1..n : SubSeq(s, 1, n)[i] = s[i]
  BY <1>1, SubSeqProperties
<1>3. /\ SubSeq(t, 1, n) \in Seq(S) /\ Len(SubSeq(t, 1, n)) = n
      /\ \A i \in 1..n : SubSeq(t, 1, n)[i] = t[i]
  BY <1>1, SubSeqProperties
<1> HIDE <1>1
<1> QED
  BY <1>2, <1>3, SeqEqual

LEMMA SetEnvBehind ==
  ASSUME NEW env \in Seq(Words), NEW name \in Words, NEW n \in Nat, n <= Len(env)
  PROVE  /\ SetEnv(env, name) \in Seq(Words) /\ n <= Len(SetEnv(env, name))
         /\ SubSeq(SetEnv(env, name), 1, n) = SubSeq(env, 1, n)
<1>2. /\ Append(env, name) \in Seq(Words) /\ n <= Len(Append(env, name))
      /\ \A k \in 1..n : Append(env, name)[k] = env[k]
  <2>1. /\ Append(env, name) \in Seq(Words) /\ Len(Append(env, name)) = Len(env) + 1
        /\ Len(env) \in Nat
        /\ \A k \in 1..Len(env) : Append(env, name)[k] = env[k]
    BY AppendedSet
  <2> QED
    BY <2>1
<1>3. SubSeq(Append(env, name), 1, n) = SubSeq(env, 1, n)
  BY <1>2, SameFront
<1>4. SetEnv(env, name) = Append(env, name) \/ SetEnv(env, name) = env
  BY DEF SetEnv
<1> QED
  BY <1>2, <1>3, <1>4

LEMMA HomedBehind ==
  ASSUME NEW env \in Seq(Words)
  PROVE  Homed(env) \in Seq(Words) /\ SubSeq(Homed(env), 1, Len(env)) = env
<1> DEFINE a == SetEnv(env, "PWD")
           b == SetEnv(a, "HOME")
           c == SetEnv(b, "LOGNAME")
           e == SetEnv(c, "USER")
           n == Len(env)
<1>0. /\ "PWD" \in Words /\ "HOME" \in Words /\ "LOGNAME" \in Words /\ "USER" \in Words
      /\ n \in Nat /\ n <= Len(env)
  BY LenProperties, WordsAre
<1>1. a \in Seq(Words) /\ n <= Len(a) /\ SubSeq(a, 1, n) = SubSeq(env, 1, n)
  BY <1>0, SetEnvBehind
<1> HIDE DEF a
<1>2. b \in Seq(Words) /\ n <= Len(b) /\ SubSeq(b, 1, n) = SubSeq(a, 1, n)
  BY <1>0, <1>1, SetEnvBehind
<1> HIDE DEF b
<1>3. c \in Seq(Words) /\ n <= Len(c) /\ SubSeq(c, 1, n) = SubSeq(b, 1, n)
  BY <1>0, <1>2, SetEnvBehind
<1> HIDE DEF c
<1>4. e \in Seq(Words) /\ SubSeq(e, 1, n) = SubSeq(c, 1, n)
  BY <1>0, <1>3, SetEnvBehind
<1>5. SubSeq(env, 1, n) = env
  BY SubSeqFull
<1>6. e = Homed(env)
  BY DEF Homed, a, b, c
<1> QED
  BY <1>1, <1>2, <1>3, <1>4, <1>5, <1>6

-----------------------------------------------------------------------------
(* The pid file                                                            *)

\* Nothing longer than buf[] is ever written.
Lines == {s \in Seq(Words) : Len(s) <= PidBuffer - 1}

LEMMA FirstLineIs ==
  ASSUME NEW s \in Seq(Words), NEW n \in Nat, n <= Len(s),
         \A i \in 1..n : s[i] # "\n", n = Len(s) \/ s[n + 1] = "\n"
  PROVE  FirstLine(s) = SubSeq(s, 1, n)
<1> DEFINE t == s \o <<"\n">>
           I == {i \in 1..Len(t) : t[i] = "\n"}
<1>1. /\ Len(s) \in Nat /\ Len(t) = Len(s) + 1 /\ t[Len(s) + 1] = "\n"
      /\ \A i \in 1..Len(s) : t[i] = s[i]
  OBVIOUS
<1> HIDE DEF t
<1>2. n + 1 \in I /\ \A i \in I : i \in Nat /\ n + 1 <= i
  BY <1>1
<1> HIDE DEF I
<1>3. Min(I) = n + 1
  <2>1. n + 1 \in I /\ \A y \in I : n + 1 <= y
    BY <1>2
  <2>2. \A x \in I : (\A y \in I : x <= y) => x = n + 1
    BY <1>2
  <2> QED
    BY <2>1, <2>2 DEF Min
<1>4. SelectInSeq(t, LAMBDA c : c = "\n") = n + 1
  BY <1>2, <1>3 DEF SelectInSeq, I
<1> QED
  BY <1>4 DEF FirstLine, t

\* Whatever the file has, after the daemon has written to it its first line is
\* the pid: it ends with a newline, or as the file ends.
LEMMA PidWritten ==
  ASSUME NEW d \in Starts, NEW text \in Lines
  PROVE  Over(PidLine(d), text) \in Lines /\ FirstLine(Over(PidLine(d), text)) = PidText[d]
<1> DEFINE p == PidText[d]
           n == Len(p)
           full == p \o <<"\n">>
           line == PidLine(d)
           rest == SubSeq(text, Len(line) + 1, Len(text))
           s == Over(line, text)
<1>1. /\ p \in Seq(Words) /\ n \in 1..PidBuffer - 1 /\ PidBuffer \in Nat /\ "\n" \in Words
      /\ \A i \in 1..n : p[i] # "\n"
  <2>1. p \in Seq(Words) /\ n \in 1..PidBuffer - 1 /\ PidBuffer \in Nat /\ "\n" \notin ToSet(p)
    BY DaemonAssumption
  <2>2. "\n" \in Words
    BY WordsAre
  <2>3. \A i \in 1..n : p[i] # "\n"
    BY <2>1 DEF ToSet
  <2> QED
    BY <2>1, <2>2, <2>3
<1>2. text \in Seq(Words) /\ Len(text) <= PidBuffer - 1
  BY DEF Lines
<1> HIDE DEF p
<1>3. /\ full \in Seq(Words) /\ Len(full) = n + 1 /\ full[n + 1] = "\n"
      /\ \A i \in 1..n : full[i] = p[i]
  BY <1>1
<1> HIDE DEF n, full
<1>4. /\ line \in Seq(Words) /\ Len(line) \in Nat /\ Len(line) <= PidBuffer - 1
      /\ n <= Len(line) /\ \A i \in 1..n : line[i] = p[i]
      /\ (Len(line) = n /\ n = PidBuffer - 1) \/ (Len(line) > n /\ line[n + 1] = "\n")
  <2>1. line = IF Len(full) < PidBuffer THEN full ELSE SubSeq(full, 1, PidBuffer - 1)
    BY DEF PidLine, full, p
  <2>2. CASE Len(full) < PidBuffer
    BY <1>1, <1>3, <2>1, <2>2
  <2>3. CASE ~(Len(full) < PidBuffer)
    <3>1. n = PidBuffer - 1
      BY <1>1, <1>3, <2>3
    <3>2. line = SubSeq(full, 1, n)
      BY <2>1, <2>3, <3>1
    <3>3. \A i \in 1..n : full[i] \in Words
      BY <1>1, <1>3
    <3>4. line \in Seq(Words) /\ Len(line) = n /\ \A i \in 1..n : line[i] = full[i]
      BY <1>1, <3>2, <3>3, SubSeqProperties
    <3> QED
      BY <1>1, <1>3, <3>1, <3>4
  <2> QED
    BY <2>2, <2>3
<1>5. Len(text) \in Nat /\ \A i \in Len(line) + 1..Len(text) : text[i] \in Words
  BY <1>2, <1>4
<1> HIDE DEF line
<1>6. /\ rest \in Seq(Words)
      /\ Len(rest) = IF Len(line) + 1 <= Len(text) THEN Len(text) - (Len(line) + 1) + 1 ELSE 0
  BY <1>4, <1>5, SubSeqProperties
<1>7. s = line \o rest
  BY DEF Over
<1> HIDE DEF rest, s
<1>8. /\ s \in Seq(Words) /\ Len(s) = Len(line) + Len(rest)
      /\ \A i \in 1..Len(line) : s[i] = line[i]
  <2>1. /\ line \o rest \in Seq(Words) /\ Len(line \o rest) = Len(line) + Len(rest)
        /\ \A i \in 1..Len(line) + Len(rest) :
             (line \o rest)[i] = IF i <= Len(line) THEN line[i] ELSE rest[i - Len(line)]
    BY <1>4, <1>6, ConcatProperties
  <2>2. Len(rest) \in Nat
    BY <1>6, LenProperties
  <2>3. \A i \in 1..Len(line) : i \in 1..Len(line) + Len(rest) /\ i <= Len(line)
    BY <1>4, <2>2
  <2> QED
    BY <1>7, <2>1, <2>3
<1>9. Len(s) \in Nat /\ Len(s) <= PidBuffer - 1
  BY <1>1, <1>2, <1>4, <1>5, <1>6, <1>8
<1>10. /\ n \in Nat /\ n <= Len(s) /\ \A i \in 1..n : s[i] = p[i] /\ s[i] # "\n"
       /\ n = Len(s) \/ s[n + 1] = "\n"
  <2>1. n \in Nat /\ n <= Len(s)
    BY <1>1, <1>4, <1>6, <1>8, <1>5
  <2>2. \A i \in 1..n : i \in 1..Len(line)
    BY <1>4, <2>1
  <2>3. \A i \in 1..n : s[i] = p[i] /\ s[i] # "\n"
    BY <1>1, <1>4, <1>8, <2>2
  <2>4. n = Len(s) \/ s[n + 1] = "\n"
    <3>1. CASE Len(line) = n /\ n = PidBuffer - 1
      BY <1>9, <2>1, <3>1
    <3>2. CASE Len(line) > n /\ line[n + 1] = "\n"
      <4>1. n + 1 \in 1..Len(line)
        BY <1>4, <2>1, <3>2
      <4> QED
        BY <1>8, <3>2, <4>1
    <3> QED
      BY <1>4, <3>1, <3>2
  <2> QED
    BY <2>1, <2>3, <2>4
<1>11. FirstLine(s) = SubSeq(s, 1, n)
  BY <1>8, <1>10, FirstLineIs
<1>12. SubSeq(s, 1, n) = SubSeq(p, 1, n)
  BY <1>1, <1>8, <1>10, SameFront DEF n
<1>13. SubSeq(p, 1, n) = p
  BY <1>1, SubSeqFull DEF n
<1> QED
  BY <1>8, <1>9, <1>11, <1>12, <1>13 DEF s, line, Lines, p

-----------------------------------------------------------------------------
(* What the processes keep                                                 *)

\* Each has the environment of its stage; a file that was opened has lines.
EnvironmentKept ==
  /\ environ \in [Starts -> Seq(Words)]
  /\ \A d \in Starts :
       /\ parent[d] \in {"none", "lookup", "cleanenv"} => environ[d] = EnvOf[d]
       /\ parent[d] \in {"fork", "reading"} => environ[d] = Homed(Cleaned(EnvOf[d]))

FilesMade ==
  /\ contents \in [1..MaxFiles -> Lines \cup {NULL}]
  /\ \A d \in Starts : opened[d] # 0 => contents[opened[d]] \in Lines

PidInv == DaemonInv /\ EnvironmentKept /\ FilesMade /\ PidTold

LEMMA PidStart == DaemonInit => PidInv
<1> SUFFICES ASSUME DaemonInit PROVE PidInv
  OBVIOUS
<1>1. EnvironmentKept
  BY DaemonAssumption DEF DaemonInit, EnvironmentKept
<1>2. FilesMade
  BY DEF DaemonInit, FilesMade
<1>3. PidTold
  BY DEF DaemonInit, PidTold
<1> QED
  BY <1>1, <1>2, <1>3, DaemonStart DEF PidInv

LEMMA EnvironmentStep ==
  ASSUME PidInv, [DaemonNext]_daemonVars
  PROVE  EnvironmentKept'
<1>1. EnvironmentKept /\ ProcessTypes
  BY DEF PidInv, DaemonInv
<1>2. ASSUME NEW d \in Starts, CleanEnv(d) PROVE EnvironmentKept'
  <2>1. /\ parent[d] = "cleanenv" /\ parent' = [parent EXCEPT ![d] = "fork"]
        /\ environ' = [environ EXCEPT ![d] = Homed(Cleaned(environ[d]))]
    BY <1>2 DEF CleanEnv, ParentMoves
  <2>2. environ[d] = EnvOf[d] /\ EnvOf[d] \in Seq(Words) /\ IsInjective(EnvOf[d])
    BY <1>1, <2>1, DaemonAssumption DEF EnvironmentKept
  <2>3. Homed(Cleaned(EnvOf[d])) \in Seq(Words)
    BY <2>2, CleanedKept, HomedBehind
  <2>4. /\ environ' \in [Starts -> Seq(Words)] /\ environ'[d] = Homed(Cleaned(EnvOf[d]))
        /\ \A e \in Starts \ {d} : environ'[e] = environ[e] /\ parent'[e] = parent[e]
        /\ parent'[d] = "fork"
    BY <1>1, <2>1, <2>2, <2>3 DEF EnvironmentKept, ProcessTypes
  <2> QED
    BY <1>1, <2>4 DEF EnvironmentKept
<1>3. ASSUME UNCHANGED environ,
             \A d \in Starts : \/ parent'[d] = parent[d] \/ parent'[d] = "left"
                               \/ parent[d] = "none" /\ parent'[d] = "lookup"
                               \/ parent[d] = "lookup" /\ parent'[d] = "cleanenv"
                               \/ parent[d] = "fork" /\ parent'[d] = "reading"
      PROVE  EnvironmentKept'
  BY <1>1, <1>3 DEF EnvironmentKept
<1>4. ASSUME NEW d \in Starts,
             OpenPidFile(d) \/ NoPidFile(d) \/ LookUp(d) \/ ForkDaemon(d) \/ ParentLeaves(d)
      PROVE  EnvironmentKept'
  <2>1. UNCHANGED environ
    BY <1>4 DEF OpenPidFile, NoPidFile, LookUp, ForkDaemon, ParentLeaves
  <2>2. \A e \in Starts : \/ parent'[e] = parent[e] \/ parent'[e] = "left"
                          \/ parent[e] = "none" /\ parent'[e] = "lookup"
                          \/ parent[e] = "lookup" /\ parent'[e] = "cleanenv"
                          \/ parent[e] = "fork" /\ parent'[e] = "reading"
    BY <1>1, <1>4 DEF OpenPidFile, NoPidFile, LookUp, ForkDaemon, ParentLeaves, ParentMoves, ProcessTypes
  <2> QED
    BY <1>3, <2>1, <2>2
<1>5. ASSUME NEW d \in Starts,
             LockPidFile(d) \/ WritePid(d) \/ Daemonized(d) \/ DaemonDies(d) \/ PidFileRemoved(d)
      PROVE  EnvironmentKept'
  <2>1. UNCHANGED <<parent, environ>>
    BY <1>5 DEF LockPidFile, WritePid, Daemonized, DaemonDies, PidFileRemoved
  <2> QED
    BY <1>3, <2>1
<1>6. CASE UNCHANGED daemonVars
  BY <1>3, <1>6 DEF daemonVars
<1> QED
  BY <1>2, <1>4, <1>5, <1>6 DEF DaemonNext

LEMMA FileStep ==
  ASSUME PidInv, [DaemonNext]_daemonVars
  PROVE  FilesMade' /\ PidTold'
<1>1. FilesMade /\ PidTold /\ ProcessTypes /\ Progress /\ OwnersHold
  BY DEF PidInv, DaemonInv
<1>2. \A d \in Starts : opened[d] # 0 => opened[d] \in 1..MaxFiles
  BY <1>1, DaemonAssumption DEF ProcessTypes
\* whoever has written has the file
<1>3. \A d \in Starts : daemon[d] \in {"ids", "running"} => opened[d] # 0 /\ daemon[d] # "none"
  BY <1>1, DaemonAssumption DEF OwnersHold, Owner, ProcessTypes
<1>4. ASSUME NEW d \in Starts, OpenPidFile(d) PROVE FilesMade' /\ PidTold'
  <2>1. /\ parent[d] = "none" /\ UNCHANGED <<daemon, unwritten>>
        /\ opened' = [opened EXCEPT ![d] = pidFile]
        /\ contents' = [contents EXCEPT ![pidFile] = IF contents[pidFile] = NULL THEN <<>> ELSE contents[pidFile]]
    BY <1>4 DEF OpenPidFile, ParentMoves
  <2>2. daemon[d] = "none" /\ pidFile \in 1..MaxFiles
    BY <1>1, <2>1 DEF Progress, ProcessTypes
  <2>3. <<>> \in Lines /\ NULL \notin Lines
    <3>1. <<>> \in Seq(Words) /\ Len(<<>>) = 0 /\ PidBuffer - 1 >= 0 /\ NULL \notin Seq(Words)
      BY DaemonAssumption
    <3> QED
      BY <3>1 DEF Lines
  <2>4. /\ contents' \in [1..MaxFiles -> Lines \cup {NULL}] /\ contents'[pidFile] \in Lines
        /\ \A f \in 1..MaxFiles : contents[f] \in Lines => contents'[f] = contents[f]
    BY <1>1, <2>1, <2>2, <2>3 DEF FilesMade
  <2>5. opened'[d] = pidFile /\ \A e \in Starts \ {d} : opened'[e] = opened[e]
    BY <1>1, <2>1 DEF ProcessTypes
  <2>6. FilesMade'
    BY <1>1, <1>2, <2>4, <2>5 DEF FilesMade
  <2>7. PidTold'
    BY <1>1, <1>2, <1>3, <2>1, <2>2, <2>4, <2>5 DEF FilesMade, PidTold
  <2> QED
    BY <2>6, <2>7
<1>5. ASSUME NEW d \in Starts, WritePid(d) PROVE FilesMade' /\ PidTold'
  <2>1. /\ daemon[d] = "write" /\ daemon' = [daemon EXCEPT ![d] = "ids"] /\ UNCHANGED opened
        /\ \/ /\ contents' = [contents EXCEPT ![opened[d]] = Over(PidLine(d), contents[opened[d]])]
              /\ UNCHANGED unwritten
           \/ unwritten' = unwritten \cup {d} /\ UNCHANGED contents
    BY <1>5 DEF WritePid, ChildIs
  <2>2. Owner(d) /\ opened[d] # 0 /\ opened[d] \in 1..MaxFiles /\ contents[opened[d]] \in Lines
    BY <1>1, <1>2, <2>1, DaemonAssumption DEF Owner, OwnersHold, FilesMade, ProcessTypes
  <2>3. \A e \in Starts \ {d} : daemon'[e] \in {"ids", "running"} =>
          daemon[e] = daemon'[e] /\ opened[e] # opened[d]
    BY <1>1, <2>1, <2>2 DEF OwnersHold, Owner, ProcessTypes
  <2>4. CASE contents' = [contents EXCEPT ![opened[d]] = Over(PidLine(d), contents[opened[d]])]
    <3>1. Over(PidLine(d), contents[opened[d]]) \in Lines
          /\ FirstLine(Over(PidLine(d), contents[opened[d]])) = PidText[d]
      BY <2>2, PidWritten
    <3>2. /\ contents' \in [1..MaxFiles -> Lines \cup {NULL}] /\ contents'[opened[d]] \in Lines
          /\ FirstLine(contents'[opened[d]]) = PidText[d]
          /\ \A f \in 1..MaxFiles \ {opened[d]} : contents'[f] = contents[f]
      BY <1>1, <2>2, <2>4, <3>1 DEF FilesMade
    <3>3. FilesMade'
      BY <1>1, <1>2, <2>1, <3>2 DEF FilesMade
    <3>4. ASSUME NEW e \in Starts, daemon'[e] \in {"ids", "running"}, e \notin unwritten'
          PROVE  FirstLine(contents'[opened[e]]) = PidText[e]
      <4>1. CASE e = d
        BY <3>2, <4>1
      <4>2. CASE e # d
        <5>1. daemon[e] = daemon'[e] /\ opened[e] # opened[d] /\ e \notin unwritten
          BY <2>1, <2>3, <3>4, <4>2
        <5>2. opened[e] \in 1..MaxFiles
          BY <1>2, <1>3, <3>4, <5>1
        <5> QED
          BY <1>1, <3>2, <3>4, <5>1, <5>2 DEF PidTold
      <4> QED
        BY <4>1, <4>2
    <3>5. PidTold'
      BY <2>1, <3>4 DEF PidTold
    <3> QED
      BY <3>3, <3>5
  <2>5. CASE unwritten' = unwritten \cup {d} /\ UNCHANGED contents
    <3>1. FilesMade'
      BY <1>1, <2>1, <2>5 DEF FilesMade
    <3>2. PidTold'
      BY <1>1, <2>1, <2>3, <2>5 DEF PidTold
    <3> QED
      BY <3>1, <3>2
  <2> QED
    BY <2>1, <2>4, <2>5
<1>6. ASSUME UNCHANGED <<opened, contents, unwritten>>,
             \A d \in Starts : daemon'[d] \in {"ids", "running"} => daemon[d] \in {"ids", "running"}
      PROVE  FilesMade' /\ PidTold'
  BY <1>1, <1>6 DEF FilesMade, PidTold
<1>7. ASSUME NEW d \in Starts,
             NoPidFile(d) \/ LookUp(d) \/ CleanEnv(d) \/ ForkDaemon(d) \/ ParentLeaves(d)
               \/ LockPidFile(d) \/ Daemonized(d) \/ DaemonDies(d) \/ PidFileRemoved(d)
      PROVE  FilesMade' /\ PidTold'
  <2>1. UNCHANGED <<opened, contents, unwritten>>
    BY <1>7 DEF NoPidFile, LookUp, CleanEnv, ForkDaemon, ParentLeaves, LockPidFile, Daemonized,
                DaemonDies, PidFileRemoved, fileVars
  <2>2. \A e \in Starts : daemon'[e] \in {"ids", "running"} => daemon[e] \in {"ids", "running"}
    BY <1>1, <1>7 DEF NoPidFile, LookUp, CleanEnv, ForkDaemon, ParentLeaves, LockPidFile, Daemonized,
                DaemonDies, PidFileRemoved, ChildIs, ProcessTypes
  <2> QED
    BY <1>6, <2>1, <2>2
<1>8. CASE UNCHANGED daemonVars
  BY <1>6, <1>8 DEF daemonVars
<1> QED
  BY <1>4, <1>5, <1>7, <1>8 DEF DaemonNext

\* The environment of a process that has cleaned it is right.
LEMMA KeptIsCleaned == PidInv => EnvironmentCleaned
<1> SUFFICES ASSUME PidInv, NEW d \in Starts, parent[d] \in {"fork", "reading"}
             PROVE  CleanedRight(EnvOf[d], SubSeq(environ[d], 1, Len(Cleaned(EnvOf[d]))))
  BY DEF EnvironmentCleaned
<1>1. environ[d] = Homed(Cleaned(EnvOf[d]))
  BY DEF PidInv, EnvironmentKept
<1>2. EnvOf[d] \in Seq(Words) /\ IsInjective(EnvOf[d])
  BY DaemonAssumption
<1>3. CleanedRight(EnvOf[d], Cleaned(EnvOf[d])) /\ Cleaned(EnvOf[d]) \in Seq(Words)
  BY <1>2, CleanedKept
<1>4. SubSeq(Homed(Cleaned(EnvOf[d])), 1, Len(Cleaned(EnvOf[d]))) = Cleaned(EnvOf[d])
  BY <1>3, HomedBehind
<1> QED
  BY <1>1, <1>3, <1>4

LEMMA PidKept == PidInv /\ [DaemonNext]_daemonVars => PidInv'
<1> SUFFICES ASSUME PidInv, [DaemonNext]_daemonVars PROVE PidInv'
  OBVIOUS
<1>1. DaemonInv'
  BY DaemonStep DEF PidInv
<1> QED
  BY <1>1, EnvironmentStep, FileStep DEF PidInv

\* However many processes call daemonize() with one pid file, die or remove the
\* file: there are two daemons only when it was removed; its first line is the
\* pid of the daemon that holds it, whatever was there before, unless the
\* write() failed; the parent leaves with 0 only when its child has become the
\* daemon or is no more; and the environment keeps what it was told to keep, in
\* its order (src/daemon.c:43, 89-201).
THEOREM DaemonsRight == DaemonSpec => []DaemonRight
<1>1. PidInv => DaemonRight
  BY OwnersApart, KeptIsCleaned DEF PidInv, DaemonInv, DaemonRight
<1> QED
  BY <1>1, PidStart, PidKept, PTL DEF DaemonSpec

\* Only a start whose child was forked can fail to write.
LEMMA WritersAreStarts ==
  /\ DaemonInit => unwritten \subseteq Starts
  /\ unwritten \subseteq Starts /\ [DaemonNext]_daemonVars => (unwritten \subseteq Starts)'
<1>1. DaemonInit => unwritten \subseteq Starts
  BY DEF DaemonInit
<1>2. ASSUME unwritten \subseteq Starts, [DaemonNext]_daemonVars PROVE unwritten' \subseteq Starts
  <2>1. CASE UNCHANGED daemonVars
    BY <1>2, <2>1 DEF daemonVars, fileVars
  <2>2. CASE DaemonNext
    BY <1>2, <2>2 DEF DaemonNext, OpenPidFile, NoPidFile, LookUp, CleanEnv, ForkDaemon, ParentLeaves, LockPidFile, WritePid, Daemonized, DaemonDies, PidFileRemoved, fileVars
  <2> QED
    BY <1>2, <2>1, <2>2
<1> QED
  BY <1>1, <1>2

\* Each start is at one of the stages of src/daemon.c, each file has at most one
\* holder, and nobody has opened a file that is not there.
THEOREM DaemonTypeCorrect == DaemonSpec => []DaemonTypeOK
<1>1. PidInv /\ unwritten \subseteq Starts => DaemonTypeOK
  BY DEF PidInv, DaemonInv, ProcessTypes, EnvironmentKept, FilesMade, DaemonTypeOK
<1> QED
  BY <1>1, PidStart, PidKept, WritersAreStarts, PTL DEF DaemonSpec

(***************************************************************************)
(*                                  Zap                                    *)
(***************************************************************************)
BadRequest == request # NULL /\ ~request.good

\* The database is what was allowed, as long as texts are in lower case.
DatabaseTold ==
  /\ hostPc = "changing" => tdb # NULL /\ changing \in [add : BOOLEAN, text : KeyTexts]
  /\ hostPc # "changing" => changing = NULL
  /\ ~misspelt =>
       /\ tdb # NULL => tdb = {[key |-> k, upper |-> FALSE] : k \in allowed}
       /\ hostPc = "changing" => ~changing.text.upper

\* The request in hand, and the answer it is to get.
RequestInHand ==
  /\ zapPc \in {"check", "reply", "closing"} => request \in ZapRequests
  /\ zapPc \in {"check", "reply"} => RightAnswer(request.key, allowed) \in right
  /\ zapPc = "reply" /\ ~raced /\ ~misspelt => verdict \in right
  /\ zapPc = "closing" => BadRequest

\* Who has closed the socket.
SocketClosed ==
  /\ zapPc # "ended" => zapSocket = 0 /\ hostPc \notin {"close", "down"}
  /\ hostPc # "down" => zapSocket < 2
  /\ zapSocket > 0 /\ hostPc # "down" => BadRequest
  /\ zapSocket = 2 => BadRequest

ZapInv == ZapTypeOK /\ DatabaseTold /\ RequestInHand /\ SocketClosed

LEMMA AnswersFit == \A k, keys : RightAnswer(k, keys) \in {200, 400}
  BY DEF RightAnswer

LEMMA ZapStart == ZapInit => ZapInv
<1> SUFFICES ASSUME ZapInit PROVE ZapInv
  OBVIOUS
<1>1. ZapTypeOK
  <2>1. <<>> \in Seq(ZapRequests) /\ {} \in SUBSET KeyTexts /\ 0 \in 0..MaxRequests
    BY ZapAssumption
  <2>2. answers \in [1..MaxRequests -> {200, 400, NULL}]
    BY DEF ZapInit
  <2>3. requests \in Seq(ZapRequests) /\ arrived \in 0..MaxRequests
    BY <2>1 DEF ZapInit
  <2>4. tdb \in (SUBSET KeyTexts) \cup {NULL} /\ allowed \subseteq ZapKeys /\ right \subseteq {200, 400}
    BY <2>1 DEF ZapInit
  <2>5. request = NULL /\ verdict = 400 /\ zapPc = "recv" /\ hostPc = "up" /\ zapSocket = 0
    BY DEF ZapInit
  <2>6. changing = NULL /\ raced = FALSE /\ misspelt = FALSE
    BY DEF ZapInit
  <2>7. request \in ZapRequests \cup {NULL} /\ verdict \in {200, 400} /\ zapSocket \in 0..2
    BY <2>5
  <2>8. changing \in [add : BOOLEAN, text : KeyTexts] \cup {NULL}
    BY <2>6
  <2>9. raced \in BOOLEAN /\ misspelt \in BOOLEAN
    BY <2>6
  <2>10. /\ zapPc \in {"recv", "check", "reply", "closing", "ended", "crashed"}
         /\ hostPc \in {"up", "changing", "join", "close", "down"}
    BY <2>5
  <2> QED
    BY <2>2, <2>3, <2>4, <2>7, <2>8, <2>9, <2>10 DEF ZapTypeOK
<1>2. DatabaseTold
  BY DEF ZapInit, DatabaseTold
<1> QED
  BY <1>1, <1>2 DEF ZapInit, ZapInv, RequestInHand, SocketClosed

-----------------------------------------------------------------------------
(* The thread                                                              *)

LEMMA ArriveKeepsInv ==
  ASSUME ZapInv, NEW k \in ZapKeys, NEW good \in BOOLEAN, Arrive(k, good)
  PROVE  ZapInv'
<1>1. arrived' \in 1..MaxRequests
  BY ZapAssumption DEF Arrive, ZapInv, ZapTypeOK
<1>2. requests' \in Seq(ZapRequests)
  BY <1>1 DEF Arrive, ZapInv, ZapTypeOK, ZapRequests
<1>3. ZapTypeOK'
  BY <1>1, <1>2 DEF Arrive, ZapInv, ZapTypeOK, hostVars
<1> QED
  BY <1>3 DEF Arrive, hostVars, ZapInv, DatabaseTold, RequestInHand, SocketClosed, BadRequest,
              RightAnswer

LEMMA RecvKeepsInv ==
  ASSUME ZapInv, ZapRecv
  PROVE  ZapInv'
<1>1. requests' \in Seq(ZapRequests) /\ request' \in ZapRequests
  BY DEF ZapRecv, ZapInv, ZapTypeOK
<1>2. right' \subseteq {200, 400}
  <2>1. right' = {RightAnswer(Head(requests).key, allowed)}
    BY DEF ZapRecv
  <2> QED
    BY <2>1, AnswersFit
<1>3. ZapTypeOK'
  BY <1>1, <1>2 DEF ZapRecv, ZapInv, ZapTypeOK, hostVars
<1>4. RequestInHand'
  BY <1>1 DEF ZapRecv, hostVars, RequestInHand, RightAnswer
<1>5. SocketClosed'
  BY DEF ZapRecv, hostVars, ZapInv, SocketClosed
<1> QED
  BY <1>3, <1>4, <1>5 DEF ZapRecv, hostVars, ZapInv, DatabaseTold

LEMMA CheckKeepsInv ==
  ASSUME ZapInv, ZapCheck
  PROVE  ZapInv'
<1>1. ZapTypeOK'
  BY DEF ZapCheck, ZapInv, ZapTypeOK, hostVars
<1>2. ASSUME zapPc' = "reply", ~raced', ~misspelt' PROVE verdict' \in right'
  <2>1. changing = NULL /\ ~misspelt /\ request.key \in ZapKeys
    BY <1>2 DEF ZapCheck, ZapInv, RequestInHand, ZapRequests, hostVars
  <2>2. tdb # NULL => ([key |-> request.key, upper |-> FALSE] \in tdb <=> request.key \in allowed)
    BY <2>1 DEF ZapInv, DatabaseTold
  <2>3. verdict' = RightAnswer(request.key, allowed)
    BY <2>1, <2>2 DEF ZapCheck, RightAnswer
  <2> QED
    BY <2>3 DEF ZapCheck, ZapInv, RequestInHand
<1>3. RequestInHand'
  BY <1>2 DEF ZapCheck, hostVars, ZapInv, RequestInHand, RightAnswer
<1> QED
  BY <1>1, <1>3 DEF ZapCheck, hostVars, ZapInv, DatabaseTold, SocketClosed, BadRequest

LEMMA ThreadKeepsInv ==
  ASSUME ZapInv, ZapBail \/ ZapReply \/ ZapClose \/ ZapCancelled
  PROVE  ZapInv'
<1>1. CASE ZapBail
  <2>1. BadRequest
    BY <1>1, ZapAssumption DEF ZapBail, ZapInv, RequestInHand, BadRequest
  <2> QED
    BY <1>1, <2>1 DEF ZapBail, hostVars, ZapInv, ZapTypeOK, DatabaseTold, RequestInHand,
                      SocketClosed, BadRequest
<1>2. CASE ZapReply
  BY <1>2 DEF ZapReply, hostVars, ZapInv, ZapTypeOK, DatabaseTold, RequestInHand, SocketClosed,
              BadRequest, ZapRequests
<1>3. CASE ZapClose
  BY <1>3 DEF ZapClose, hostVars, ZapInv, ZapTypeOK, DatabaseTold, RequestInHand, SocketClosed,
              BadRequest
<1>4. CASE ZapCancelled
  BY <1>4 DEF ZapCancelled, hostVars, ZapInv, ZapTypeOK, DatabaseTold, RequestInHand,
              SocketClosed, BadRequest
<1> QED
  BY <1>1, <1>2, <1>3, <1>4

-----------------------------------------------------------------------------
(* The host                                                                *)

LEMMA ChangeKeepsInv ==
  ASSUME ZapInv, NEW add \in BOOLEAN, NEW text \in KeyTexts, Change(add, text)
  PROVE  ZapInv'
<1>1. changing' \in [add : BOOLEAN, text : KeyTexts] /\ changing'.text = text /\ text.upper \in BOOLEAN
  BY DEF Change, KeyTexts
<1>2. ZapTypeOK'
  BY <1>1 DEF Change, ZapInv, ZapTypeOK
<1>3. DatabaseTold'
  BY <1>1 DEF Change, ZapInv, DatabaseTold
<1> QED
  BY <1>2, <1>3 DEF Change, ZapInv, RequestInHand, SocketClosed, BadRequest, RightAnswer

LEMMA ChangedKeepsInv ==
  ASSUME ZapInv, Changed
  PROVE  ZapInv'
<1> DEFINE t == changing.text
<1>1. /\ t \in KeyTexts /\ t.key \in ZapKeys /\ tdb \in SUBSET KeyTexts
      /\ t = [key |-> t.key, upper |-> t.upper] /\ t.upper \in BOOLEAN
  BY DEF Changed, ZapInv, DatabaseTold, ZapTypeOK, KeyTexts
<1> HIDE DEF t
<1>2. \/ tdb' = tdb \cup {t} /\ allowed' = allowed \cup {t.key}
      \/ tdb' = tdb \ {t} /\ allowed' = allowed \ {t.key}
  BY DEF Changed, t
<1>3. tdb' \in SUBSET KeyTexts /\ tdb' # NULL /\ tdb # NULL /\ allowed' \subseteq ZapKeys
  BY <1>1, <1>2, ZapAssumption DEF ZapInv, ZapTypeOK
<1>4. right' \subseteq {200, 400}
  <2>1. RightAnswer(request.key, allowed') \in {200, 400}
    BY AnswersFit
  <2>2. right' \subseteq right \cup {RightAnswer(request.key, allowed')}
    BY DEF Changed
  <2> QED
    BY <2>1, <2>2 DEF ZapInv, ZapTypeOK
<1>5. ZapTypeOK'
  BY <1>3, <1>4 DEF Changed, ZapInv, ZapTypeOK
<1>6. DatabaseTold'
  <2>1. ASSUME ~misspelt PROVE tdb' = {[key |-> k, upper |-> FALSE] : k \in allowed'}
    <3>1. tdb = {[key |-> k, upper |-> FALSE] : k \in allowed}
      BY <1>3, <2>1 DEF ZapInv, DatabaseTold
    <3>2. t = [key |-> t.key, upper |-> FALSE]
      BY <1>1, <2>1 DEF Changed, ZapInv, DatabaseTold, t
    <3>3. \A k : [key |-> k, upper |-> FALSE] = t <=> k = t.key
      BY <3>2
    <3> QED
      BY <1>2, <3>1, <3>2, <3>3
  <2> QED
    BY <1>3, <2>1 DEF Changed, DatabaseTold
<1>7. RequestInHand'
  <2>1. zapPc \in {"check", "reply"} => RightAnswer(request.key, allowed') \in right'
    BY DEF Changed, ZapInv, RequestInHand
  <2>2. right \subseteq right'
    BY DEF Changed
  <2>3. RightAnswer(request.key, allowed)' = RightAnswer(request.key, allowed')
    BY <1>3 DEF RightAnswer, Changed
  <2> QED
    BY <2>1, <2>2, <2>3 DEF Changed, ZapInv, RequestInHand, BadRequest
<1>8. SocketClosed'
  BY DEF Changed, ZapInv, SocketClosed, BadRequest
<1> QED
  BY <1>5, <1>6, <1>7, <1>8 DEF ZapInv

LEMMA ShutdownKeepsInv ==
  ASSUME ZapInv, ZapCancel \/ ZapJoin \/ ZapShut
  PROVE  ZapInv'
<1>1. ZapTypeOK'
  <2>1. zapSocket' \in 0..2
    BY DEF ZapCancel, ZapJoin, ZapShut, ShutdownMoves, ZapInv, ZapTypeOK, SocketClosed
  <2>2. hostPc' \in {"up", "changing", "join", "close", "down"}
    BY DEF ZapCancel, ZapJoin, ZapShut, ShutdownMoves
  <2>3. UNCHANGED <<requests, request, verdict, answers, arrived, zapPc, tdb, changing,
                    allowed, right, raced, misspelt>>
    BY DEF ZapCancel, ZapJoin, ZapShut, ShutdownMoves
  <2> QED
    BY <2>1, <2>2, <2>3 DEF ZapInv, ZapTypeOK
<1>3. DatabaseTold'
  BY DEF ZapCancel, ZapJoin, ZapShut, ShutdownMoves, ZapInv, DatabaseTold
<1>4. RequestInHand'
  BY DEF ZapCancel, ZapJoin, ZapShut, ShutdownMoves, ZapInv, RequestInHand, BadRequest, RightAnswer
<1>2. SocketClosed'
  BY DEF ZapCancel, ZapJoin, ZapShut, ShutdownMoves, ZapInv, ZapTypeOK, SocketClosed, BadRequest
<1> QED
  BY <1>1, <1>2, <1>3, <1>4 DEF ZapInv

LEMMA ZapStep ==
  ASSUME ZapInv, [ZapNext]_zapVars
  PROVE  ZapInv'
<1>1. CASE UNCHANGED zapVars
  BY <1>1 DEF zapVars, ZapInv, ZapTypeOK, DatabaseTold, RequestInHand, SocketClosed, BadRequest,
              RightAnswer
<1> QED
  BY <1>1, ArriveKeepsInv, RecvKeepsInv, CheckKeepsInv, ThreadKeepsInv, ChangeKeepsInv,
     ChangedKeepsInv, ShutdownKeepsInv DEF ZapNext, ZapThread

-----------------------------------------------------------------------------
(* The theorem                                                             *)

\* It needs no fairness.
LEMMA ZapAlways == ZapInit /\ [][ZapNext]_zapVars => [](ZapTypeOK /\ ZapJust)
<1>1. ZapInit => ZapInv
  BY ZapStart
<1>2. ZapInv /\ [ZapNext]_zapVars => ZapInv'
  BY ZapStep
<1>3. ZapInv => ZapTypeOK /\ ZapJust
  BY DEF ZapInv, RequestInHand, SocketClosed, BadRequest, ZapJust
<1> QED
  BY <1>1, <1>2, <1>3, PTL

\* Whatever changes of the database come between a request and its answer, a
\* handshake is granted or refused as was right at some moment after it was
\* received, unless a change was half done when it was checked or a text in
\* upper case was used; and the socket is closed twice only when the thread
\* gave up on a request (src/mq.c:640-720).
THEOREM AnswersJust == ZapSpec => [](ZapTypeOK /\ ZapJust)
BY ZapAlways, PTL DEF ZapSpec

(***************************************************************************)
(*                                Reactor                                  *)
(***************************************************************************)
\* An item is polled at its own place.  One that is still to be walked over, and
\* of which zmq_poll() said that it could be read when it no longer can, shares
\* its socket with one before it.
Walking == loopPc \in {"walk", "recv", "handler"}
Overtaken(i) == poller[i].revents /\ ~Readable(items[i].socket)

ReactorInv ==
  /\ ReactorTypeOK
  /\ \A i \in DOMAIN items : items[i].index = i /\ poller[i].socket = items[i].socket
  /\ \A i \in DOMAIN items : i > npoll /\ loopPc # "idle" => ~poller[i].revents
  /\ loopPc = "recv" => turn \in DOMAIN items /\ poller[turn].revents
  /\ loopPc = "handler" => turn \in DOMAIN items
  /\ Walking =>
       \A i \in DOMAIN items :
         (i > turn \/ (i = turn /\ loopPc # "handler")) /\ Overtaken(i)
           => \E j \in DOMAIN items : j < i /\ items[j].socket = items[i].socket

LEMMA ReactorStart == ReactorInit => ReactorInv
<1> SUFFICES ASSUME ReactorInit PROVE ReactorInv
  OBVIOUS
<1>1. ReactorTypeOK
  BY ReactorAssumption DEF ReactorInit, ReactorTypeOK
<1>2. DOMAIN items = {}
  BY DEF ReactorInit
<1> QED
  BY <1>1, <1>2 DEF ReactorInit, ReactorInv, Walking

LEMMA RegisterKeepsInv ==
  ASSUME ReactorInv, NEW s \in Sockets, ReactorSet(s)
  PROVE  ReactorInv'
<1> DEFINE n == Len(items)
<1>1. /\ items \in Seq([socket : Sockets, index : 1..MaxItems]) /\ n \in Nat /\ n < MaxItems
      /\ DOMAIN items = 1..n /\ n + 1 \in 1..MaxItems /\ npoll \in 0..n
  BY ReactorAssumption DEF ReactorInv, ReactorTypeOK, ReactorSet
<1>2. /\ items' = Append(items, [socket |-> s, index |-> n + 1])
      /\ loopPc' = loopPc /\ turn' = turn /\ npoll' = npoll /\ sent' = sent /\ got' = got
      /\ loopPc \in {"idle", "handler"}
      /\ poller' = [i \in DOMAIN items' |-> [socket |-> items'[i].socket, revents |-> FALSE]]
  BY DEF ReactorSet
<1>3. /\ items' \in Seq([socket : Sockets, index : 1..MaxItems]) /\ Len(items') = n + 1
      /\ DOMAIN items' = 1..n + 1 /\ \A i \in 1..n : items'[i] = items[i]
      /\ items'[n + 1] = [socket |-> s, index |-> n + 1]
  BY <1>1, <1>2
<1>4. /\ poller' = [i \in 1..n + 1 |-> [socket |-> items'[i].socket, revents |-> FALSE]]
      /\ poller' \in Seq([socket : Sockets, revents : BOOLEAN]) /\ Len(poller') = n + 1
  <2>1. poller' = [i \in 1..n + 1 |-> [socket |-> items'[i].socket, revents |-> FALSE]]
    BY <1>2, <1>3
  <2>2. \A i \in 1..n + 1 : [socket |-> items'[i].socket, revents |-> FALSE] \in [socket : Sockets, revents : BOOLEAN]
    <3> SUFFICES ASSUME NEW i \in 1..n + 1 PROVE items'[i].socket \in Sockets
      OBVIOUS
    <3>1. items'[i] \in [socket : Sockets, index : 1..MaxItems]
      BY <1>3, ElementOfSeq
    <3> QED
      BY <3>1
  <2>3. n + 1 \in Nat
    BY <1>1
  <2> QED
    BY <2>1, <2>2, <2>3
<1>5. ReactorTypeOK'
  BY <1>1, <1>2, <1>3, <1>4 DEF ReactorInv, ReactorTypeOK
<1>6. \A i \in DOMAIN items' : items'[i].index = i /\ poller'[i].socket = items'[i].socket
                               /\ ~poller'[i].revents
  <2>1. \A i \in 1..n : items[i].index = i
    BY <1>1 DEF ReactorInv
  <2>2. \A i \in 1..n + 1 : i \in 1..n \/ i = n + 1
    BY <1>1
  <2> QED
    BY <1>3, <1>4, <2>1, <2>2
<1> QED
  BY <1>1, <1>2, <1>3, <1>5, <1>6 DEF ReactorInv, Overtaken

\* What the invariant says, element by element.
ReactorShape ==
  /\ Len(items) \in Nat /\ DOMAIN items = 1..Len(items) /\ DOMAIN poller = 1..Len(items)
  /\ npoll \in 0..Len(items) /\ turn \in 1..Len(items) + 1
  /\ \A i \in 1..Len(items) : /\ items[i].socket \in Sockets /\ items[i].index = i
                              /\ poller[i] \in [socket : Sockets, revents : BOOLEAN]
                              /\ poller[i].socket = items[i].socket
  /\ \A s \in Sockets : got[s] \in Nat /\ sent[s] \in Nat

LEMMA ReactorFacts == ReactorInv => ReactorShape
<1> SUFFICES ASSUME ReactorInv PROVE ReactorShape
  OBVIOUS
<1>1. items \in Seq([socket : Sockets, index : 1..MaxItems])
  BY DEF ReactorInv, ReactorTypeOK
<1>2. Len(items) \in Nat /\ DOMAIN items = 1..Len(items)
  BY <1>1, LenProperties
<1>8. \A i \in 1..Len(items) : items[i] \in [socket : Sockets, index : 1..MaxItems]
  BY <1>1, ElementOfSeq
<1>3. poller \in Seq([socket : Sockets, revents : BOOLEAN]) /\ Len(poller) = Len(items)
  BY DEF ReactorInv, ReactorTypeOK
<1>4. DOMAIN poller = 1..Len(items)
  BY <1>3, LenProperties
<1>9. \A i \in 1..Len(items) : poller[i] \in [socket : Sockets, revents : BOOLEAN]
  BY <1>3, ElementOfSeq
<1>5. \A s \in Sockets : got[s] \in Nat /\ sent[s] \in Nat
  <2>1. sent \in [Sockets -> 0..MaxSent] /\ got \in [Sockets -> 0..MaxSent]
    BY DEF ReactorInv, ReactorTypeOK
  <2> QED
    BY <2>1, ReactorAssumption
<1>6. npoll \in 0..Len(items) /\ turn \in 1..Len(items) + 1
  BY DEF ReactorInv, ReactorTypeOK
<1>7. \A i \in 1..Len(items) : items[i].index = i /\ poller[i].socket = items[i].socket
  BY <1>2 DEF ReactorInv
<1> QED
  BY <1>2, <1>4, <1>5, <1>6, <1>7, <1>8, <1>9 DEF ReactorShape

\* The loop leaves the list alone, and the types of what it changes are right.
LEMMA LoopTypes ==
  ASSUME ReactorTypeOK, UNCHANGED items,
         npoll' \in 0..Len(items), turn' \in 1..Len(items) + 1,
         loopPc' \in {"idle", "poll", "walk", "recv", "handler"},
         poller' = poller \/ (poller' \in Seq([socket : Sockets, revents : BOOLEAN]) /\ Len(poller') = Len(items)),
         sent' = sent \/ sent' \in [Sockets -> 0..MaxSent],
         got' = got \/ got' \in [Sockets -> 0..MaxSent]
  PROVE  ReactorTypeOK'
  BY DEF ReactorTypeOK

LEMMA LoopKeepsInv ==
  ASSUME ReactorInv, \/ ReactorGo \/ ReactorStep \/ HandlerHalts \/ ReactorInterrupted
                     \/ \E s \in Sockets : SocketReadable(s)
  PROVE  ReactorInv'
<1>1. ReactorShape /\ ReactorTypeOK
  BY ReactorFacts DEF ReactorInv
<1>2. CASE ReactorGo
  <2>1. ReactorTypeOK'
    BY <1>1, <1>2, LoopTypes DEF ReactorGo, ReactorShape
  <2> QED
    BY <1>1, <1>2, <2>1 DEF ReactorGo, ReactorInv, ReactorShape, Walking
<1>3. CASE Poll
  <2> DEFINE P(i) == IF i <= npoll THEN [poller[i] EXCEPT !.revents = Readable(poller[i].socket)]
                                   ELSE poller[i]
  <2>1. ASSUME NEW i \in 1..Len(items)
        PROVE  /\ P(i) \in [socket : Sockets, revents : BOOLEAN] /\ P(i).socket = poller[i].socket
               /\ P(i).revents => (i > npoll /\ poller[i].revents) \/ Readable(poller[i].socket)
               /\ i > npoll => P(i) = poller[i]
    <3>1. poller[i] \in [socket : Sockets, revents : BOOLEAN] /\ i \in Nat /\ npoll \in Nat
      BY <1>1 DEF ReactorShape
    <3>2. CASE i <= npoll
      <4>1. P(i) = [poller[i] EXCEPT !.revents = Readable(poller[i].socket)] /\ ~(i > npoll)
        BY <3>1, <3>2
      <4>2. Readable(poller[i].socket) \in BOOLEAN
        BY DEF Readable
      <4> HIDE DEF P
      <4>3. P(i).revents = Readable(poller[i].socket) /\ P(i).socket = poller[i].socket
            /\ P(i) \in [socket : Sockets, revents : BOOLEAN]
        BY <3>1, <4>1, <4>2
      <4> QED
        BY <4>1, <4>3
    <3>3. CASE i > npoll
      BY <3>1, <3>3
    <3> QED
      BY <3>1, <3>2, <3>3
  <2>2. poller' = [i \in 1..Len(items) |-> P(i)]
    BY <1>1, <1>3 DEF Poll, ReactorShape
  <2> HIDE DEF P
  <2>3. poller' \in Seq([socket : Sockets, revents : BOOLEAN]) /\ Len(poller') = Len(items)
    <3>1. Len(items) \in Nat
      BY <1>1 DEF ReactorShape
    <3> QED
      BY <2>1, <2>2, <3>1
  <2>4. ReactorTypeOK'
    <3>1. 1 \in 1..Len(items) + 1
      BY <1>1 DEF ReactorShape
    <3> QED
      BY <1>1, <1>3, <2>3, <3>1, LoopTypes DEF Poll, ReactorShape
  <2>5. ASSUME NEW i \in 1..Len(items)
        PROVE  /\ poller'[i].socket = items[i].socket /\ ~Overtaken(i)'
               /\ i > npoll => ~poller'[i].revents
    <3>1. poller'[i] = P(i) /\ poller[i].socket = items[i].socket
      BY <1>1, <2>2 DEF ReactorShape
    <3>2. i > npoll => ~poller[i].revents
      BY <1>1, <1>3 DEF ReactorInv, ReactorShape, Poll
    <3>3. UNCHANGED <<items, got, sent>>
      BY <1>3 DEF Poll
    <3> QED
      BY <2>1, <3>1, <3>2, <3>3 DEF Overtaken, Readable
  <2> QED
    BY <1>1, <1>3, <2>4, <2>5 DEF Poll, ReactorInv, ReactorShape
<1>4. CASE Walk
  <2>1. \/ turn > Len(items) /\ loopPc' = "poll" /\ turn' = 1
        \/ turn \in 1..Len(items) /\ ~poller[turn].revents /\ turn' = turn + 1 /\ loopPc' = "walk"
        \/ turn \in 1..Len(items) /\ poller[turn].revents /\ turn' = turn /\ loopPc' = "recv"
    BY <1>1, <1>4 DEF Walk, Item, ReactorShape
  <2>2. loopPc = "walk" /\ UNCHANGED <<items, poller, npoll, sent, got>>
    BY <1>4 DEF Walk
  <2>3. ReactorTypeOK'
    <3>1. turn' \in 1..Len(items) + 1 /\ npoll \in 0..Len(items)
      BY <1>1, <2>1 DEF ReactorShape
    <3> QED
      BY <1>1, <2>1, <2>2, <3>1, LoopTypes
  <2>4. \A i \in DOMAIN items : Overtaken(i)' <=> Overtaken(i)
    BY <2>2 DEF Overtaken, Readable
  <2>5. \A i \in 1..Len(items) : (i > turn' \/ i = turn') /\ loopPc' # "poll" => i > turn \/ i = turn
    BY <1>1, <2>1 DEF ReactorShape
  <2> QED
    BY <1>1, <2>1, <2>2, <2>3, <2>4, <2>5 DEF ReactorInv, ReactorShape, Walking
<1>5. CASE ReactorRecv
  <2>1. /\ turn \in 1..Len(items) /\ items[turn].socket \in Sockets
        /\ got[items[turn].socket] < sent[items[turn].socket]
        /\ got' = [got EXCEPT ![items[turn].socket] = @ + 1]
        /\ sent' = sent /\ items' = items /\ poller' = poller /\ npoll' = npoll /\ turn' = turn
        /\ loopPc = "recv" /\ loopPc' = "handler"
    BY <1>1, <1>5 DEF ReactorRecv, Item, ReactorInv, ReactorShape, Readable
  <2>2. ReactorTypeOK'
    <3>1. got \in [Sockets -> 0..MaxSent] /\ sent \in [Sockets -> 0..MaxSent]
      BY <1>1 DEF ReactorTypeOK
    <3>2. got[items[turn].socket] + 1 \in 0..MaxSent
      BY <2>1, <3>1, ReactorAssumption
    <3>3. got' \in [Sockets -> 0..MaxSent]
      BY <2>1, <3>1, <3>2
    <3> QED
      BY <1>1, <2>1, <3>3, LoopTypes DEF ReactorShape
  <2>3. ASSUME NEW i \in DOMAIN items, i > turn, Overtaken(i)'
        PROVE  \E j \in DOMAIN items : j < i /\ items[j].socket = items[i].socket
    <3>1. CASE items[i].socket = items[turn].socket
      BY <1>1, <2>1, <2>3, <3>1 DEF ReactorShape
    <3>2. CASE items[i].socket # items[turn].socket
      <4>1. got'[items[i].socket] = got[items[i].socket]
        BY <1>1, <2>1, <3>2 DEF ReactorTypeOK, ReactorShape
      <4>2. Overtaken(i)
        BY <2>1, <2>3, <4>1 DEF Overtaken, Readable
      <4> QED
        BY <2>1, <2>3, <4>2 DEF ReactorInv, Walking
    <3> QED
      BY <3>1, <3>2
  <2> QED
    BY <1>1, <2>1, <2>2, <2>3 DEF ReactorInv, ReactorShape
<1>6. CASE HandlerReturns \/ ReactorInterrupted
  <2>1. \/ /\ loopPc \in {"handler", "recv"} /\ loopPc' = "walk"
           /\ turn \in 1..Len(items) /\ turn' = turn + 1
        \/ loopPc = "poll" /\ loopPc' = "idle" /\ turn' = turn
    BY <1>1, <1>6 DEF HandlerReturns, ReactorInterrupted, ReactorInv, ReactorShape
  <2>2. UNCHANGED <<items, poller, npoll, sent, got>>
    BY <1>6 DEF HandlerReturns, ReactorInterrupted
  <2>3. ReactorTypeOK'
    <3>1. turn' \in 1..Len(items) + 1 /\ npoll \in 0..Len(items)
      BY <1>1, <2>1 DEF ReactorShape
    <3> QED
      BY <1>1, <2>1, <2>2, <3>1, LoopTypes
  <2>4. \A i \in DOMAIN items : Overtaken(i)' <=> Overtaken(i)
    BY <2>2 DEF Overtaken, Readable
  <2>5. \A i \in 1..Len(items) : (i > turn' \/ i = turn') /\ loopPc' # "idle" => i > turn
    BY <1>1, <2>1 DEF ReactorShape
  <2>6. loopPc' = "recv" => FALSE
    BY <2>1
  <2>7. \A i \in DOMAIN items' : /\ items'[i].index = i /\ poller'[i].socket = items'[i].socket
                                 /\ i > npoll' /\ loopPc' # "idle" => ~poller'[i].revents
    BY <2>1, <2>2 DEF ReactorInv
  <2>8. ASSUME NEW i \in DOMAIN items, Walking', i > turn' \/ i = turn', Overtaken(i)'
        PROVE  \E j \in DOMAIN items : j < i /\ items[j].socket = items[i].socket
    <3>1. Walking /\ i > turn /\ Overtaken(i)
      BY <1>1, <2>1, <2>4, <2>5, <2>8 DEF ReactorShape, Walking
    <3> QED
      BY <3>1 DEF ReactorInv
  <2> QED
    BY <2>1, <2>2, <2>3, <2>6, <2>7, <2>8 DEF ReactorInv
<1>7. CASE HandlerHalts
  <2>1. ReactorTypeOK'
    <3>1. 1 \in 1..Len(items) + 1
      BY <1>1 DEF ReactorShape
    <3> QED
      BY <1>1, <1>7, <3>1, LoopTypes DEF HandlerHalts, ReactorShape
  <2> QED
    BY <1>7, <2>1 DEF HandlerHalts, ReactorInv, Walking
<1>9. ASSUME NEW s \in Sockets, SocketReadable(s) PROVE ReactorInv'
  <2>1. /\ sent' \in [Sockets -> 0..MaxSent] /\ \A t \in Sockets : sent'[t] >= sent[t]
        /\ UNCHANGED <<items, poller, npoll, turn, loopPc, got>>
    <3>1. sent \in [Sockets -> 0..MaxSent]
      BY <1>1 DEF ReactorTypeOK
    <3>2. sent[s] + 1 \in 0..MaxSent /\ \A t \in Sockets : sent[t] >= sent[t]
      BY <1>9, <3>1, ReactorAssumption DEF SocketReadable
    <3> QED
      BY <1>9, <3>1, <3>2, ReactorAssumption DEF SocketReadable
  <2>2. ReactorTypeOK'
    BY <1>1, <2>1, LoopTypes DEF ReactorShape, ReactorTypeOK
  <2>3. ASSUME NEW i \in DOMAIN items, Overtaken(i)' PROVE Overtaken(i)
    <3> DEFINE t == items[i].socket
    <3>1. t \in Sockets /\ got[t] \in Nat /\ sent[t] \in Nat /\ sent'[t] \in Nat
      BY <1>1, <2>1, ReactorAssumption DEF ReactorShape
    <3>2. sent'[t] >= sent[t] /\ ~(got[t] < sent'[t])
      BY <2>1, <2>3, <3>1 DEF Overtaken, Readable
    <3>3. ~(got[t] < sent[t])
      BY <3>1, <3>2
    <3> QED
      BY <2>1, <2>3, <3>3 DEF Overtaken, Readable
  <2> QED
    BY <2>1, <2>2, <2>3 DEF ReactorInv, Walking
<1> QED
  BY <1>2, <1>3, <1>4, <1>5, <1>6, <1>7, <1>9 DEF ReactorStep

\* It needs no fairness.
LEMMA ReactorAlways ==
  ReactorInit /\ [][ReactorNext]_reactorVars => [](ReactorTypeOK /\ (Stuck => RegisteredTwice(Item.socket)))
<1>1. ReactorInv /\ [ReactorNext]_reactorVars => ReactorInv'
  <2> SUFFICES ASSUME ReactorInv, [ReactorNext]_reactorVars PROVE ReactorInv'
    OBVIOUS
  <2>1. CASE UNCHANGED reactorVars
    BY <2>1 DEF reactorVars, ReactorInv, ReactorTypeOK, Walking, Overtaken, Readable
  <2> QED
    BY <2>1, RegisterKeepsInv, LoopKeepsInv DEF ReactorNext
<1>2. ReactorInv => ReactorTypeOK /\ (Stuck => RegisteredTwice(Item.socket))
  <2> SUFFICES ASSUME ReactorInv, Stuck PROVE RegisteredTwice(Item.socket)
    BY DEF ReactorInv
  <2>1. turn \in DOMAIN items /\ Overtaken(turn)
    BY DEF Stuck, ReactorInv, Overtaken, Item
  <2>2. PICK j \in DOMAIN items : j < turn /\ items[j].socket = items[turn].socket
    BY <2>1 DEF Stuck, ReactorInv, Walking
  <2>3. j # turn
    BY <2>1, <2>2 DEF ReactorInv, ReactorTypeOK
  <2> QED
    BY <2>1, <2>2, <2>3 DEF RegisteredTwice, Item
<1> QED
  BY <1>1, <1>2, ReactorStart, PTL

\* reactor_go() waits for a message that zmq_poll() had seen only when the
\* socket was registered twice, and the item before took it: whatever handlers
\* register, and whenever messages come and signals interrupt
\* (src/reactor.c:61-113).
THEOREM StuckOnlyTwice == ReactorSpec => [](ReactorTypeOK /\ (Stuck => RegisteredTwice(Item.socket)))
BY ReactorAlways, PTL DEF ReactorSpec

(***************************************************************************)
(*                                  Cert                                   *)
(***************************************************************************)
\* What a certificate's keys may be: binaries of the length of its type, and
\* texts of that length.  A public key may not have been translated yet.
PubSound(c) == /\ c.pubkey_bin \in Binaries
               /\ c.pubkey_b16 # NULL => c.pubkey_b16 \in Texts /\ PubFits(c.pubkey_b16)
SecSound(c) == /\ c.seckey_bin \in Binaries /\ SecFits(c.type, Encode(c.seckey_bin))
               /\ c.seckey_b16 \in Texts /\ SecFits(c.type, c.seckey_b16)
Same(c) == /\ c.pubkey => c.pubkey_b16 # NULL /\ c.pubkey_bin = c.pubkey_b16.key
           /\ c.seckey => c.seckey_bin = c.seckey_b16.key
Sound(c) == c \in Certs /\ (c.pubkey => PubSound(c)) /\ (c.seckey => SecSound(c))

CertInv ==
  /\ certFile \in Files /\ touched \in BOOLEAN
  /\ cert # NULL => Sound(cert) /\ (~touched => Same(cert))


-----------------------------------------------------------------------------
(* Keys and texts                                                          *)

LEMMA KeyFacts ==
  /\ Mixed \in Binaries /\ Illegal \notin Binaries /\ Short \notin Binaries /\ NULL \notin Binaries
  /\ Mixed \notin CertKeys /\ BoxKeys \subseteq Binaries /\ SignKeys \subseteq Binaries
  /\ \A b \in Binaries : Encode(b) \in Texts /\ Encode(b) # NULL /\ Encode(b).key = b
                         /\ PubFits(Encode(b))
  /\ \A t \in Texts : t # NULL /\ (PubFits(t) => Decode(t) \in Binaries)
                      /\ (t.key # Illegal => Decode(t) = t.key)
<1>1. /\ Mixed \in Binaries /\ Illegal \notin Binaries /\ Short \notin Binaries /\ NULL \notin Binaries
      /\ Mixed \notin CertKeys /\ BoxKeys \subseteq Binaries /\ SignKeys \subseteq Binaries
  BY CertAssumption DEF CertKeys, Binaries, Mixed, Illegal, Short
<1>2. NULL \notin Texts
  BY CertAssumption
<1>3. \A b \in Binaries : Encode(b) \in Texts /\ Encode(b).key = b
  BY DEF Encode, Texts
<1>4. \A t \in Texts : t.key \in Binaries \cup {Illegal, Short}
  BY DEF Texts
<1> QED
  BY <1>1, <1>2, <1>3, <1>4 DEF PubFits, Decode

LEMMA SecFacts ==
  ASSUME NEW type \in {Encryption, Signing}
  PROVE  /\ \A t \in Texts : SecFits(type, t) => Decode(t) \in Binaries /\ SecFits(type, Encode(Decode(t)))
         /\ \A k \in IF type = Signing THEN SignKeys ELSE BoxKeys : SecFits(type, Encode(k))
BY CertAssumption
   DEF CertKeys, Binaries, Texts, Mixed, Illegal, Short, Encode, Decode, SecFits, Encryption, Signing

\* What cert_rescan() does to the fields.
LEMMA RescanFields ==
  ASSUME NEW c \in Certs
  PROVE  LET r == Rescanned(c) IN
         /\ r.type = c.type /\ r.ident = c.ident /\ r.pubkey = c.pubkey /\ r.seckey = c.seckey
         /\ r.pubkey_b16 = c.pubkey_b16 /\ r.seckey_b16 = c.seckey_b16
         /\ r.pubkey_bin = IF c.pubkey THEN Decode(c.pubkey_b16) ELSE c.pubkey_bin
         /\ r.seckey_bin = IF c.seckey /\ ~(c.pubkey /\ c.pubkey_b16.key = Illegal)
                             THEN Decode(c.seckey_b16) ELSE c.seckey_bin
BY DEF Rescanned, Certs

LEMMA RescanTypes ==
  ASSUME NEW c \in Certs,
         c.pubkey => c.pubkey_b16 \in Texts /\ PubFits(c.pubkey_b16),
         c.seckey => c.seckey_b16 \in Texts /\ SecFits(c.type, c.seckey_b16)
  PROVE  Rescanned(c) \in Certs
<1>1. c.type \in {Encryption, Signing}
  BY DEF Certs
<1>2. c.pubkey => Decode(c.pubkey_b16) \in Binaries
  BY KeyFacts
<1>3. c.seckey => Decode(c.seckey_b16) \in Binaries
  BY <1>1, SecFacts
<1>4. DEFINE p == IF c.pubkey THEN [c EXCEPT !.pubkey_bin = Decode(c.pubkey_b16)] ELSE c
<1>5. p \in Certs
  BY <1>2 DEF Certs
<1>6. Rescanned(c) = IF c.seckey /\ ~(c.pubkey /\ c.pubkey_b16.key = Illegal)
       THEN [p EXCEPT !.seckey_bin = Decode(c.seckey_b16)] ELSE p
  BY DEF Rescanned
<1> HIDE DEF p
<1> QED
  BY <1>3, <1>5, <1>6 DEF Certs

\* A certificate that was translated without a failure is sound, and its two
\* forms say the same; secret keys that were not looked at are as they were.
LEMMA RescanKeeps ==
  ASSUME NEW c \in Certs,
         c.pubkey => c.pubkey_b16 \in Texts /\ PubFits(c.pubkey_b16),
         c.seckey => c.seckey_b16 \in Texts /\ SecFits(c.type, c.seckey_b16),
         c.seckey => SecSound(c) \/ ~RescanFails(c)
  PROVE  Sound(Rescanned(c)) /\ (~RescanFails(c) => Same(Rescanned(c)))
<1>1. c.type \in {Encryption, Signing}
  BY DEF Certs
<1> DEFINE r == Rescanned(c)
<1>2. r \in Certs
  BY RescanTypes
<1>3. /\ r.type = c.type /\ r.pubkey = c.pubkey /\ r.seckey = c.seckey
      /\ r.pubkey_b16 = c.pubkey_b16 /\ r.seckey_b16 = c.seckey_b16
      /\ c.pubkey => r.pubkey_bin = Decode(c.pubkey_b16)
      /\ r.seckey_bin = IF c.seckey /\ ~(c.pubkey /\ c.pubkey_b16.key = Illegal)
                          THEN Decode(c.seckey_b16) ELSE c.seckey_bin
  BY RescanFields
<1> HIDE DEF r
<1>4. c.pubkey => PubSound(r)
  BY <1>3, KeyFacts DEF PubSound
<1>5. c.seckey => SecSound(r)
  <2> SUFFICES ASSUME c.seckey PROVE SecSound(r)
    OBVIOUS
  <2>1. Decode(c.seckey_b16) \in Binaries /\ SecFits(c.type, Encode(Decode(c.seckey_b16)))
    BY <1>1, SecFacts
  <2> QED
    BY <1>3, <2>1 DEF SecSound, RescanFails
<1>6. ~RescanFails(c) => Same(r)
  BY <1>3, KeyFacts DEF Same, RescanFails
<1> QED
  BY <1>2, <1>3, <1>4, <1>5, <1>6 DEF Sound, r

LEMMA NewTypes ==
  ASSUME NEW type \in {Encryption, Signing}
  PROVE  /\ New(type) \in Certs /\ New(type).type = type /\ ~New(type).pubkey /\ ~New(type).seckey
         /\ Sound(New(type)) /\ Same(New(type))
BY DEF New, Certs, Sound, Same

\* Texts that fit make a certificate that has them, translated.
Fitting(type, pub, sec) ==
  /\ pub # NULL /\ PubFits(pub) /\ pub.key # Illegal
  /\ sec # NULL => SecFits(type, sec) /\ sec.key # Illegal

LEMMA MadeFacts ==
  ASSUME NEW type \in {Encryption, Signing}, NEW ident \in Idents \cup {NULL},
         NEW pub \in Texts \cup {NULL}, NEW sec \in Texts \cup {NULL}
  PROVE  LET m == Made(type, ident, pub, sec) IN
         /\ ~Fitting(type, pub, sec) => m = NULL
         /\ Fitting(type, pub, sec) =>
              /\ Sound(m) /\ Same(m)
              /\ m.type = type /\ m.ident = ident /\ m.pubkey /\ m.seckey = (sec # NULL)
              /\ m.pubkey_b16 = pub /\ m.pubkey_bin = pub.key
<1> DEFINE c == [New(type) EXCEPT !.ident = ident,
                   !.pubkey = (pub # NULL), !.pubkey_b16 = pub,
                   !.seckey = (sec # NULL), !.seckey_b16 = sec]
<1>1. /\ c \in Certs /\ c.type = type /\ c.ident = ident /\ c.pubkey = (pub # NULL)
      /\ c.seckey = (sec # NULL) /\ c.pubkey_b16 = pub /\ c.seckey_b16 = sec
  BY DEF New, Certs
<1>2. Made(type, ident, pub, sec) =
        IF pub = NULL \/ ~PubFits(pub) \/ (sec # NULL /\ ~SecFits(type, sec)) \/ RescanFails(c)
          THEN NULL ELSE Rescanned(c)
  BY DEF Made
<1> HIDE DEF c
<1>3. RescanFails(c) <=> (pub # NULL /\ pub.key = Illegal) \/ (sec # NULL /\ sec.key = Illegal)
  BY <1>1 DEF RescanFails
<1>4. CASE ~Fitting(type, pub, sec)
  BY <1>2, <1>3, <1>4 DEF Fitting
<1>5. CASE Fitting(type, pub, sec)
  <2>1. pub # NULL /\ pub \in Texts /\ PubFits(pub) /\ pub.key # Illegal /\ ~RescanFails(c)
        /\ (sec # NULL => sec \in Texts /\ SecFits(type, sec))
    BY <1>3, <1>5 DEF Fitting
  <2>2. Made(type, ident, pub, sec) = Rescanned(c)
    BY <1>2, <2>1
  <2>3. Sound(Rescanned(c)) /\ Same(Rescanned(c))
    BY <1>1, <2>1, RescanKeeps
  <2>4. Decode(pub) = pub.key
    BY <2>1 DEF Decode
  <2>5. LET m == Rescanned(c) IN
        /\ m.type = type /\ m.ident = ident /\ m.pubkey /\ m.seckey = (sec # NULL)
        /\ m.pubkey_b16 = pub /\ m.pubkey_bin = pub.key
    BY <1>1, <2>1, <2>4, RescanFields
  <2> QED
    BY <1>5, <2>2, <2>3, <2>5
<1> QED
  BY <1>4, <1>5

-----------------------------------------------------------------------------
(* The functions                                                           *)

LEMMA CertStart == CertInit => CertInv
<1>1. EmptyFile \in Files
  BY DEF EmptyFile, Files
<1> QED
  BY <1>1 DEF CertInit, CertInv

LEMMA EncodeKeeps ==
  ASSUME CertInv, CertEncode
  PROVE  CertInv'
<1>1. Sound(cert) /\ cert \in Certs /\ cert.type \in {Encryption, Signing}
  BY DEF CertInv, CertEncode, Sound, Certs
<1>2. /\ cert' = [cert EXCEPT !.pubkey_b16 = IF cert.pubkey THEN Encode(cert.pubkey_bin) ELSE cert.pubkey_b16,
                              !.seckey_b16 = IF cert.seckey THEN Encode(cert.seckey_bin) ELSE cert.seckey_b16]
      /\ touched' = FALSE /\ certFile' = certFile
  BY DEF CertEncode
<1>3. /\ cert.pubkey => PubFits(Encode(cert.pubkey_bin)) /\ Encode(cert.pubkey_bin) \in Texts
                        /\ Encode(cert.pubkey_bin).key = cert.pubkey_bin /\ cert.pubkey_bin \in Binaries
      /\ cert.seckey => Encode(cert.seckey_bin) \in Texts /\ Encode(cert.seckey_bin).key = cert.seckey_bin
                        /\ cert.seckey_bin \in Binaries /\ SecFits(cert.type, Encode(cert.seckey_bin))
  BY <1>1, KeyFacts DEF Sound, PubSound, SecSound
<1>4. /\ cert'.type = cert.type /\ cert'.pubkey = cert.pubkey /\ cert'.seckey = cert.seckey
      /\ cert'.pubkey_bin = cert.pubkey_bin /\ cert'.seckey_bin = cert.seckey_bin
      /\ cert.pubkey => cert'.pubkey_b16 = Encode(cert.pubkey_bin)
      /\ cert.seckey => cert'.seckey_b16 = Encode(cert.seckey_bin)
  BY <1>1, <1>2 DEF Certs
<1>5. cert' \in Certs
  BY <1>1, <1>2, <1>3 DEF Certs
<1>6. Sound(cert') /\ Same(cert')
  BY <1>3, <1>4, <1>5, KeyFacts DEF Sound, PubSound, SecSound, Same
<1> QED
  BY <1>2, <1>6 DEF CertInv

LEMMA EditKeeps ==
  ASSUME CertInv, Edit
  PROVE  CertInv'
<1>1. Sound(cert) /\ cert \in Certs /\ CertTexts \subseteq Texts
  BY CertAssumption DEF CertInv, Edit, Sound
<1>2. CASE \E i \in Idents : cert' = [cert EXCEPT !.ident = i] /\ UNCHANGED touched
  <2>1. PICK i \in Idents : cert' = [cert EXCEPT !.ident = i]
    BY <1>2
  <2>2. Sound(cert') /\ (Same(cert) => Same(cert'))
    BY <1>1, <2>1 DEF Sound, PubSound, SecSound, Same, Certs
  <2> QED
    BY <1>2, <2>2 DEF CertInv, Edit
<1>3. ASSUME touched', NEW t \in CertTexts, cert.pubkey, PubFits(t), cert' = [cert EXCEPT !.pubkey_b16 = t]
      PROVE  CertInv'
  <2>1. Sound(cert')
    BY <1>1, <1>3 DEF Sound, PubSound, SecSound, Certs
  <2> QED
    BY <1>3, <2>1 DEF CertInv, Edit
<1>4. ASSUME touched', NEW t \in CertTexts, cert.seckey, SecFits(cert.type, t), cert' = [cert EXCEPT !.seckey_b16 = t]
      PROVE  CertInv'
  <2>1. Sound(cert')
    BY <1>1, <1>4 DEF Sound, PubSound, SecSound, Certs
  <2> QED
    BY <1>4, <2>1 DEF CertInv, Edit
<1> QED
  BY <1>2, <1>3, <1>4 DEF Edit

LEMMA CertKept == CertInv /\ [CertNext]_certVars => CertInv'
<1> SUFFICES ASSUME CertInv, [CertNext]_certVars PROVE CertInv'
  OBVIOUS
<1>1. ASSUME NEW c, Anew(c), c # NULL => Sound(c) /\ Same(c)
      PROVE  CertInv'
  BY <1>1 DEF Anew, CertInv
<1>2. ASSUME NEW type \in {Encryption, Signing}, CertNew(type) PROVE CertInv'
  BY <1>1, <1>2, NewTypes DEF CertNew
<1>3. ASSUME NEW type \in {Encryption, Signing}, NEW k \in CertKeys, CertGenerate(type, k) PROVE CertInv'
  <2> DEFINE c == [New(type) EXCEPT !.pubkey = TRUE, !.seckey = TRUE,
                     !.pubkey_bin = k, !.seckey_bin = k,
                     !.pubkey_b16 = Encode(k), !.seckey_b16 = Encode(k)]
  <2>1. Anew(c) /\ SecFits(type, Encode(k)) /\ k \in Binaries
    BY <1>3, SecFacts DEF CertGenerate, Binaries
  <2>2. Encode(k) \in Texts /\ Encode(k) # NULL /\ Encode(k).key = k /\ PubFits(Encode(k))
    BY <2>1, KeyFacts
  <2>3. /\ c \in Certs /\ c.type = type /\ c.pubkey_bin = k /\ c.seckey_bin = k
        /\ c.pubkey_b16 = Encode(k) /\ c.seckey_b16 = Encode(k)
    BY <2>1, <2>2, NewTypes DEF New, Certs
  <2>4. Sound(c) /\ Same(c)
    <3> HIDE DEF c
    <3> QED
      BY <2>1, <2>2, <2>3 DEF Sound, Same, PubSound, SecSound
  <2> QED
    BY <1>1, <2>1, <2>4
<1>4. ASSUME NEW type \in {Encryption, Signing}, NEW pub \in CertTexts \cup {NULL},
             NEW sec \in CertTexts \cup {NULL}, CertMake(type, pub, sec)
      PROVE  CertInv'
  <2>1. pub \in Texts \cup {NULL} /\ sec \in Texts \cup {NULL} /\ NULL \in Idents \cup {NULL}
    BY CertAssumption
  <2> QED
    BY <1>1, <1>4, <2>1, MadeFacts DEF CertMake
<1>5. ASSUME NEW f \in {certFile} \cup OtherFiles, CertRead(f) PROVE CertInv'
  <2>1. f \in Files
    BY CertAssumption DEF CertInv, OtherFiles, Files
  <2>2. f.id \in Idents \cup {NULL} /\ f.pub \in Texts \cup {NULL} /\ f.sec \in Texts \cup {NULL}
    BY <2>1 DEF Files
  <2> QED
    BY <1>1, <1>5, <2>2, MadeFacts DEF CertRead, OfFile
<1>6. ASSUME NEW full \in BOOLEAN, CertWrite(full) PROVE CertInv'
  <2>1. cert \in Certs /\ Sound(cert) /\ UNCHANGED <<cert, touched>>
    BY <1>6 DEF CertInv, CertWrite, Sound
  <2>2. /\ (IF cert.ident = NULL THEN NULL ELSE IdentBack[cert.ident]) \in Idents \cup {NULL}
        /\ (IF cert.pubkey THEN cert.pubkey_b16 ELSE NULL) \in Texts \cup {NULL}
        /\ (IF cert.seckey /\ full THEN cert.seckey_b16 ELSE NULL) \in Texts \cup {NULL}
    BY <2>1, CertAssumption DEF Certs
  <2>3. certFile' \in Files
    BY <1>6, <2>2 DEF CertWrite, Files
  <2> QED
    BY <2>1, <2>3 DEF CertInv
<1>7. CASE CertRescan
  <2>1. /\ cert \in Certs /\ Sound(cert) /\ (cert.pubkey => cert.pubkey_b16 # NULL)
        /\ cert' = Rescanned(cert) /\ touched' = RescanFails(cert) /\ UNCHANGED certFile
    BY <1>7 DEF CertInv, CertRescan, Sound
  <2>2. Sound(cert') /\ (~RescanFails(cert) => Same(cert'))
    BY <2>1, RescanKeeps DEF Sound, PubSound, SecSound
  <2>3. touched' \in BOOLEAN
    BY <2>1 DEF RescanFails
  <2> QED
    BY <2>1, <2>2, <2>3 DEF CertInv
<1>8. ASSUME NEW k \in BoxKeys, FromRequest(k) PROVE CertInv'
  <2>1. cert' \in Certs /\ cert'.pubkey_bin = k /\ cert'.pubkey_b16 = NULL /\ ~cert'.seckey
        /\ k \in Binaries
    BY <1>8 DEF FromRequest, New, Certs, Binaries, CertKeys
  <2> QED
    BY <1>8, <2>1 DEF FromRequest, CertInv, Sound, PubSound
<1>9. CASE CertFree \/ UNCHANGED certVars
  BY <1>9 DEF CertFree, certVars, CertInv, Same, Sound, PubSound, SecSound
<1> QED
  BY <1>2, <1>3, <1>4, <1>5, <1>6, <1>7, <1>8, <1>9, EncodeKeeps, EditKeeps DEF CertNext

-----------------------------------------------------------------------------
(* The theorem                                                             *)

\* What is written is what is read.
LEMMA WrittenIsRead ==
  ASSUME CertInv, NEW full \in BOOLEAN, CertWrite(full), cert.pubkey, ~touched
  PROVE  LET c == OfFile(certFile')
         IN /\ c # NULL
            /\ c.type = cert.type /\ c.pubkey_b16 = cert.pubkey_b16
            /\ c.ident # NULL <=> cert.ident # NULL
            /\ c.seckey <=> cert.seckey /\ full
            /\ Unseals(c, Seal(cert)) <=> /\ cert.pubkey_bin = cert.seckey_bin
                                          /\ cert.type = Signing
                                          /\ cert.pubkey_bin \in SignKeys
<1> DEFINE type == IF certFile'.signing THEN Signing ELSE Encryption
           c == Made(type, certFile'.id, certFile'.pub, certFile'.sec)
<1>1. cert # NULL /\ cert \in Certs /\ PubSound(cert) /\ (cert.seckey => SecSound(cert)) /\ Same(cert)
  BY DEF CertInv, CertWrite, Sound
<1>2. /\ certFile'.signing = (cert.type = Signing)
      /\ certFile'.id = IF cert.ident = NULL THEN NULL ELSE IdentBack[cert.ident]
      /\ certFile'.pub = cert.pubkey_b16
      /\ certFile'.sec = IF cert.seckey /\ full THEN cert.seckey_b16 ELSE NULL
  BY DEF CertWrite
<1>3. type = cert.type /\ type \in {Encryption, Signing}
  BY <1>1, <1>2 DEF Certs, Encryption, Signing
<1>4. certFile'.id \in Idents \cup {NULL} /\ (certFile'.id # NULL <=> cert.ident # NULL)
  <2>1. cert.ident \in Idents \cup {NULL}
    BY <1>1 DEF Certs
  <2> QED
    BY <1>2, <2>1, CertAssumption
<1>5. /\ certFile'.pub \in Texts /\ PubFits(certFile'.pub) /\ certFile'.pub.key = cert.pubkey_bin
      /\ cert.pubkey_bin \in Binaries /\ certFile'.pub # NULL
  BY <1>1, <1>2 DEF PubSound, Same
<1>6. /\ certFile'.sec # NULL <=> cert.seckey /\ full
      /\ certFile'.sec # NULL => /\ certFile'.sec \in Texts /\ SecFits(type, certFile'.sec)
                                 /\ certFile'.sec.key \in Binaries
  BY <1>1, <1>2, <1>3, KeyFacts DEF SecSound, Same
<1>7. Fitting(type, certFile'.pub, certFile'.sec)
  BY <1>5, <1>6, KeyFacts DEF Fitting
<1>8. certFile'.sec \in Texts \cup {NULL}
  BY <1>6
<1>9. /\ Sound(c) /\ c.type = type /\ c.ident = certFile'.id /\ c.seckey = (certFile'.sec # NULL)
      /\ c.pubkey_b16 = certFile'.pub /\ c.pubkey_bin = certFile'.pub.key
  <2> HIDE DEF type
  <2> QED
    BY <1>3, <1>4, <1>5, <1>7, <1>8, MadeFacts
<1>10. c = OfFile(certFile')
  BY DEF OfFile
<1> HIDE DEF c, type
<1>11. c # NULL
  BY <1>9, CertAssumption DEF Sound
<1>12. Unseals(c, Seal(cert)) <=> /\ cert.pubkey_bin = cert.seckey_bin
                                  /\ cert.type = Signing
                                  /\ cert.pubkey_bin \in SignKeys
  <2>1. c.pubkey_bin = cert.pubkey_bin /\ \A k \in SignKeys : k # NULL
    BY <1>5, <1>9, CertAssumption DEF CertKeys
  <2> QED
    BY <2>1 DEF Unseals, Seal
<1> QED
  BY <1>2, <1>3, <1>4, <1>6, <1>9, <1>10, <1>11, <1>12

LEMMA CertAlways == CertSpec => []CertInv
<1> QED
  BY CertStart, CertKept, PTL DEF CertSpec

\* Whatever callers do to a certificate, once translated its two forms say the
\* same; and a file gives its reader the certificate that was written, whose
\* public key opens what the writer's secret key seals (src/cert.c:86-316).
THEOREM CertificatesRight == CertSpec => []CertTypeOK /\ CertRight
<1>1. CertInv => CertTypeOK
  BY DEF CertInv, CertTypeOK, Sound
<1>2. CertInv /\ CertInv' /\ [CertNext]_certVars =>
       [/\ cert' # NULL /\ ~touched' => Coded'
        /\ \A full \in BOOLEAN : CertWrite(full) /\ cert.pubkey /\ ~touched =>
          LET c == OfFile(certFile')
          IN /\ c # NULL
             /\ c.type = cert.type /\ c.pubkey_b16 = cert.pubkey_b16
             /\ c.ident # NULL <=> cert.ident # NULL
             /\ c.seckey <=> cert.seckey /\ full
             /\ Unseals(c, Seal(cert)) <=> /\ cert.pubkey_bin = cert.seckey_bin
                                           /\ cert.type = Signing
                                           /\ cert.pubkey_bin \in SignKeys]_certVars
  <2>1. CertInv' => (cert' # NULL /\ ~touched' => Coded')
    BY DEF CertInv, Same, Coded
  <2> QED
    BY <2>1, WrittenIsRead
<1> QED
  BY <1>1, <1>2, CertAlways, PTL DEF CertSpec, CertRight

(***************************************************************************)
(*                              All of them                                *)
(***************************************************************************)
LEMMA EachBegins ==
  Init => /\ PduInit /\ ZapInit /\ ReactorInit /\ RunnerInit /\ DaemonInit
          /\ ConfigInit /\ CertInit
BY DEF Init

LEMMA PduMoves == [Next]_servicesVars => [PduNext]_pduVars
BY DEF Next, Others, Stays, servicesVars

LEMMA ZapMoves == [Next]_servicesVars => [ZapNext]_zapVars
BY DEF Next, Others, Stays, servicesVars

LEMMA ReactorMoves == [Next]_servicesVars => [ReactorNext]_reactorVars
BY DEF Next, Others, Stays, servicesVars

LEMMA RunnerMoves == [Next]_servicesVars => [RunnerNext]_runnerVars
BY DEF Next, Others, Stays, servicesVars

LEMMA DaemonMoves == [Next]_servicesVars => [DaemonNext]_daemonVars
BY DEF Next, Others, Stays, servicesVars

LEMMA ConfigMoves == [Next]_servicesVars => [ConfigNext]_configVars
BY DEF Next, Others, Stays, servicesVars

LEMMA CertMoves == [Next]_servicesVars => [CertNext]_certVars
BY DEF Next, Others, Stays, servicesVars

\* The fairness of the thread and of the loop is not used.
LEMMA PartsOfSpec ==
  Spec => /\ PduSpec /\ RunnerSpec /\ DaemonSpec /\ ConfigSpec /\ CertSpec
          /\ ZapInit /\ [][ZapNext]_zapVars
          /\ ReactorInit /\ [][ReactorNext]_reactorVars
BY EachBegins, PduMoves, ZapMoves, ReactorMoves, RunnerMoves, DaemonMoves, ConfigMoves, CertMoves, PTL
   DEF Spec, PduSpec, RunnerSpec, DaemonSpec, ConfigSpec, CertSpec

\* Whatever other processes, threads and peers do, every part keeps its types.
THEOREM ServicesTypeCorrect == Spec => []ServicesTypeOK
BY PartsOfSpec, PduTypeCorrect, ZapAlways, ReactorAlways, RunnerTypeCorrect, DaemonTypeCorrect,
   ConfigTypeCorrect, CertificatesRight, PTL
   DEF ServicesTypeOK

\* The parts do together what they promise alone: children, pid files and
\* environments are as asked, messages and settings arrive as they were sent,
\* handshakes get the answer of the trust database, a reactor waits only for a
\* socket that was registered twice, and the forms of a key agree
\* (src/run.c, src/daemon.c, src/mq.c, src/config.c, src/reactor.c, src/cert.c).
THEOREM ServicesCorrect ==
  Spec => /\ [](RunnerRight /\ DaemonRight /\ ZapJust /\ (Stuck => RegisteredTwice(Item.socket)))
          /\ PduRight /\ ImplementsSettings /\ CertRight
BY PartsOfSpec, RunnerCorrect, DaemonsRight, ZapAlways, ReactorAlways, MessagesRight,
   SettingsImplemented, CertificatesRight, PTL
=============================================================================
