-------------------------------- MODULE Lock --------------------------------
(***************************************************************************)
(* The lock file of src/lock.c, taken and given back by several processes  *)
(* that share one path: every system call of lock_acquire() and            *)
(* lock_release() is a step of its own.                                    *)
(*                                                                         *)
(* A process is its pid, and lives once.  A file is known by the process   *)
(* that made it (open with O_CREAT|O_EXCL makes a new one every time), so  *)
(* a write to a file that somebody has unlinked meanwhile goes nowhere.    *)
(* Reading the details is one step: fopen() and fscanf() of one file see   *)
(* what a read at the time of the fscanf() sees.                           *)
(***************************************************************************)
EXTENDS Naturals, FiniteSets

CONSTANTS
  Procs,      \* the processes (pids) that use the lock
  Mortal,     \* those that may exit or crash
  SkipEuid,   \* those that pass VIGOR_LOCK_SKIPEUID
  Faults,     \* which of FaultKinds may happen
  NoFile,     \* nothing at lock->path
  NoPid       \* the pid 0 of lock_init()

FaultKinds == {"exit", "crash", "reuse", "short", "rerelease"}

ASSUME LockAssumption ==
  /\ Mortal \subseteq Procs
  /\ SkipEuid \subseteq Procs
  /\ Faults \subseteq FaultKinds
  /\ NoPid \notin Procs
  /\ NoFile \notin [owner : Procs, text : {"partial", "details"}]

Files == [owner : Procs, text : {"partial", "details"}]
PCs   == {"idle", "read", "stat", "unlink", "reopen", "write", "undo", "held",
          "dead", "foreign"}

VARIABLES
  file,    \* what is at lock->path
  pc,      \* where each process stands; "held": lock_acquire() returned 0;
           \* "foreign": the pid now belongs to some unrelated process
  pid,     \* lock->pid
  fd,      \* lock->fd >= 0; lock_release() does not reset it
  raced    \* history: a lock file was made between another process's read of
           \* the details and its unlink

vars == <<file, pc, pid, fd, raced>>

\* Types, and what proc_stat() asserts of its argument (src/proc.c:38).
TypeOK ==
  /\ file \in Files \cup {NoFile}
  /\ pc \in [Procs -> PCs]
  /\ pid \in [Procs -> Procs \cup {NoPid}]
  /\ fd \in [Procs -> BOOLEAN]
  /\ raced \in BOOLEAN
  /\ \A p \in Procs : pc[p] = "stat" => pid[p] \in Procs

\* lock_init() in every process.
Init ==
  /\ file = NoFile
  /\ pc = [p \in Procs |-> "idle"]
  /\ pid = [p \in Procs |-> NoPid]
  /\ fd = [p \in Procs |-> FALSE]
  /\ raced = FALSE

Goto(p, label) == pc' = [pc EXCEPT ![p] = label]

Alive(p) == pc[p] # "dead"     \* /proc/<pid>/status is there

-----------------------------------------------------------------------------
(* lock_acquire()                                                          *)

\* Mutant: no O_EXCL, so an existing file is opened as well.
CreateShared(p, failed) ==
  /\ file' = IF file = NoFile THEN [owner |-> p, text |-> "partial"] ELSE file
  /\ fd' = [fd EXCEPT ![p] = TRUE]
  /\ Goto(p, "write")
  /\ UNCHANGED raced

\* open(O_CREAT|O_EXCL): makes the file, or goes where `failed' says.
Create(p, failed) ==
  IF file = NoFile
    THEN /\ file' = [owner |-> p, text |-> "partial"]
         /\ fd' = [fd EXCEPT ![p] = TRUE]
         /\ raced' = (raced \/ \E q \in Procs \ {p} : pc[q] \in {"stat", "unlink"})
         /\ Goto(p, "write")
    ELSE /\ fd' = [fd EXCEPT ![p] = FALSE]
         /\ Goto(p, failed)
         /\ UNCHANGED <<file, raced>>

Open(p) ==
  /\ pc[p] = "idle"
  /\ Create(p, "read")
  /\ UNCHANGED pid

\* Mutant: the count of fscanf() is not looked at.
ReadNoCount(p) ==
  /\ pc[p] = "read"
  /\ IF file # NoFile
       THEN /\ pid' = [pid EXCEPT ![p] = IF file.text = "details" THEN file.owner ELSE @]
            /\ Goto(p, "stat")
       ELSE Goto(p, "idle") /\ UNCHANGED pid
  /\ UNCHANGED <<file, fd, raced>>

\* Mutant: a file without all its details is taken for one that has them.
ReadPartial(p) ==
  /\ pc[p] = "read"
  /\ IF file # NoFile
       THEN pid' = [pid EXCEPT ![p] = file.owner] /\ Goto(p, "stat")
       ELSE Goto(p, "idle") /\ UNCHANGED pid
  /\ UNCHANGED <<file, fd, raced>>

\* s_lock_details(): no file, or one without details yet, fails the call.
Read(p) ==
  /\ pc[p] = "read"
  /\ IF file # NoFile /\ file.text = "details"
       THEN pid' = [pid EXCEPT ![p] = file.owner] /\ Goto(p, "stat")
       ELSE Goto(p, "idle") /\ UNCHANGED pid
  /\ UNCHANGED <<file, fd, raced>>

\* Mutant: || for && between the two tests.
StatEither(p) ==
  /\ pc[p] = "stat"
  /\ \/ (~Alive(pid[p]) \/ p \notin SkipEuid) /\ Goto(p, "unlink")
     \/ Alive(pid[p]) /\ p \in SkipEuid /\ Goto(p, "idle")
  /\ UNCHANGED <<file, pid, fd, raced>>

\* Mutant: == for != in the test of the flag.
StatFlagged(p) ==
  /\ pc[p] = "stat"
  /\ \/ ~Alive(pid[p]) /\ p \in SkipEuid /\ Goto(p, "unlink")
     \/ (Alive(pid[p]) \/ p \notin SkipEuid) /\ Goto(p, "idle")
  /\ UNCHANGED <<file, pid, fd, raced>>

\* proc_stat() of the pid read.  With VIGOR_LOCK_SKIPEUID the test goes on to
\* ps.euid, which proc_stat() has not set when it failed: either outcome.
Stat(p) ==
  /\ pc[p] = "stat"
  /\ \/ ~Alive(pid[p]) /\ Goto(p, "unlink")
     \/ (Alive(pid[p]) \/ p \in SkipEuid) /\ Goto(p, "idle")
  /\ UNCHANGED <<file, pid, fd, raced>>

\* unlink(lock->path), whatever file is there by now.
Unlink(p) ==
  /\ pc[p] = "unlink"
  /\ file' = NoFile
  /\ Goto(p, "reopen")
  /\ UNCHANGED <<pid, fd, raced>>

\* Mutant: the second open() has no O_EXCL.
ReopenShared(p) ==
  /\ pc[p] = "reopen"
  /\ CreateShared(p, "idle")
  /\ UNCHANGED pid

Reopen(p) ==
  /\ pc[p] = "reopen"
  /\ Create(p, "idle")
  /\ UNCHANGED pid

\* Mutant: the length expected counts a byte that is not written.
WriteOffByOne(p) ==
  /\ pc[p] = "write"
  /\ pid' = [pid EXCEPT ![p] = p]
  /\ Goto(p, "undo")
  /\ UNCHANGED <<file, fd, raced>>

\* The lock takes p's pid; write() of the details to the file p made, still
\* linked or not.
Write(p) ==
  /\ pc[p] = "write"
  /\ pid' = [pid EXCEPT ![p] = p]
  /\ file' = IF file # NoFile /\ file.owner = p
               THEN [file EXCEPT !.text = "details"] ELSE file
  /\ Goto(p, "held")
  /\ UNCHANGED <<fd, raced>>

\* write() comes up short ...
WriteShort(p) ==
  /\ "short" \in Faults
  /\ pc[p] = "write"
  /\ pid' = [pid EXCEPT ![p] = p]
  /\ Goto(p, "undo")
  /\ UNCHANGED <<file, fd, raced>>

\* ... so the file is unlinked and the call fails; lock->fd stays set.
Undo(p) ==
  /\ pc[p] = "undo"
  /\ file' = NoFile
  /\ Goto(p, "idle")
  /\ UNCHANGED <<pid, fd, raced>>

-----------------------------------------------------------------------------
(* lock_release()                                                          *)

\* lock_release() goes by lock->fd alone; it fails if there is no file.
Release(p) ==
  /\ pc[p] = "held" \/ ("rerelease" \in Faults /\ pc[p] = "idle")
  /\ fd[p]
  /\ file' = NoFile
  /\ Goto(p, "idle")
  /\ UNCHANGED <<pid, fd, raced>>

-----------------------------------------------------------------------------
(* The processes                                                           *)

Exit(p) ==
  /\ p \in Mortal
  /\ \/ "exit" \in Faults /\ pc[p] = "idle"
     \/ "crash" \in Faults /\ pc[p] \notin {"dead", "foreign"}
  /\ Goto(p, "dead")
  /\ UNCHANGED <<file, pid, fd, raced>>

\* The pid of a dead process is given to an unrelated one.
Reuse(p) ==
  /\ "reuse" \in Faults
  /\ pc[p] = "dead"
  /\ Goto(p, "foreign")
  /\ UNCHANGED <<file, pid, fd, raced>>

Acquire(p) ==
  \/ Open(p) \/ Read(p) \/ Stat(p) \/ Unlink(p) \/ Reopen(p)
  \/ Write(p) \/ WriteShort(p) \/ Undo(p)

Next == \E p \in Procs : Acquire(p) \/ Release(p) \/ Exit(p) \/ Reuse(p)

Spec == Init /\ [][Next]_vars

\* Every process that lives keeps calling lock_acquire(), and every call runs
\* to its end; a write that is tried again and again is not short every time.
\* Holders do not have to release.
FairSpec == Spec /\ \A p \in Procs : WF_vars(Acquire(p)) /\ SF_vars(Write(p))

-----------------------------------------------------------------------------
(* Properties                                                              *)

Held(p) == pc[p] = "held"

\* "Failed to acquire a held lock" (src/t/lock.c:36): never two holders.
MutualExclusion == \A p, q \in Procs : Held(p) /\ Held(q) => p = q

\* Two processes hold the lock only after a third party's file was unlinked
\* for the dead holder's: as long as no lock file is made between a
\* process's look at the details and its unlink, the lock excludes
\* (src/lock.c:68-81), crashes, short writes and reused pids included.
ExclusiveUnlessRaced == ~raced => MutualExclusion

\* As long as nothing is raced and nobody releases twice, the holder's file
\* is the one at the path: it can be seen, and its release gives back its own.
HolderOwnsFile ==
  ~raced => \A p \in Procs :
              Held(p) => file = [owner |-> p, text |-> "details"]

\* A process that dies between open() and write() locks the others out for
\* good: the file it leaves has no details, so no process that comes after
\* ever breaks it (src/lock.c:33, 71).
PartialLockStays ==
  [][file # NoFile /\ file.text = "partial" /\ ~Alive(file.owner) /\ ~raced
       => file' = file]_vars

\* "Cannot release an un-held lock" (src/t/lock.c:39): a call of lock_release()
\* by a process that does not hold the lock finds nothing to release.
UnheldReleaseFails ==
  [][\A p \in Procs : Release(p) /\ ~Held(p) => file = NoFile]_vars

\* The lock of a holder that has died, details and all, is broken by whoever
\* still wants it (src/lock.c:70-80), unless the pid is given out again before
\* or a racing caller holds the lock as well; at least one caller does not pass
\* the flag that uses the uninitialised euid.
AbandonedIsBroken ==
  \A p \in Procs :
    file = [owner |-> p, text |-> "details"] /\ ~Alive(p)
      ~> \/ file # [owner |-> p, text |-> "details"]
         \/ Alive(p)
         \/ \E q \in Procs : Held(q)

\* A free lock is taken by somebody: the callers do not keep each other out.
FreeIsTaken == file = NoFile ~> \E p \in Procs : Held(p)

\* Processes that neither die nor release twice see the abstract lock.
M == INSTANCE Mutex WITH holders <- {p \in Procs : Held(p)}

ImplementsMutex == M!Spec
=============================================================================
