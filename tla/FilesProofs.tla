---------------------------- MODULE FilesProofs -----------------------------
(***************************************************************************)
(* Theorems about lock files and about paths.  Of Lock, for any set of     *)
(* processes: the type invariant, what holds as long as no breaking of a   *)
(* stale lock is raced, and the abstract lock for processes that live on.  *)
(* Of Path, for any characters and lengths: that a push undoes a pop.      *)
(***************************************************************************)
EXTENDS Lock, Path, SequenceTheorems, WellFoundedInduction, TLAPS

\* A process that has made its file and not yet given it up or died.
Owning == {"write", "undo", "held"}

\* A process that owns a file has it at the path, with details once it holds.
OwnsFile ==
  \A p \in Procs : pc[p] \in Owning =>
    file = [owner |-> p, text |-> IF pc[p] = "held" THEN "details" ELSE "partial"]

\* Unraced, what a process in the middle of a look at the details may still find
\* is the file it has read, or none; and its owner is gone before the unlink.
LooksAtFile ==
  \A p \in Procs : pc[p] \in {"stat", "unlink"} =>
    /\ file \in {NoFile, [owner |-> pid[p], text |-> "details"]}
    /\ pid[p] \in Procs
    /\ pc[p] = "unlink" => pc[pid[p]] \in {"dead", "foreign"}

UnracedInv == ~raced => OwnsFile /\ LooksAtFile

-----------------------------------------------------------------------------
(* Types                                                                   *)

LEMMA CreateType ==
  ASSUME TypeOK, NEW p \in Procs, NEW failed \in PCs \ {"stat"}, Create(p, failed)
  PROVE  /\ file' \in Files \cup {NoFile}
         /\ pc' \in [Procs -> PCs]
         /\ pc'[p] # "stat"
         /\ \A q \in Procs \ {p} : pc'[q] = pc[q]
         /\ fd' \in [Procs -> BOOLEAN]
         /\ raced' \in BOOLEAN
<1>1. CASE file = NoFile
  <2>1. file' \in Files
    BY <1>1 DEF Create, Files
  <2>2. pc' = [pc EXCEPT ![p] = "write"] /\ fd' = [fd EXCEPT ![p] = TRUE]
    BY <1>1 DEF Create, Goto
  <2>3. raced' \in BOOLEAN
    BY <1>1 DEF Create
  <2> QED
    BY <2>1, <2>2, <2>3 DEF TypeOK, PCs
<1>2. CASE file # NoFile
  <2>1. /\ pc' = [pc EXCEPT ![p] = failed] /\ fd' = [fd EXCEPT ![p] = FALSE]
        /\ UNCHANGED <<file, raced>>
    BY <1>2 DEF Create, Goto
  <2> QED
    BY <2>1 DEF TypeOK
<1> QED
  BY <1>1, <1>2

\* Every step keeps the types, and asks proc_stat() only about pids.
LEMMA TypeStep == TypeOK /\ [Next]_vars => TypeOK'
<1> SUFFICES ASSUME TypeOK, [Next]_vars PROVE TypeOK'
  OBVIOUS
<1>1. ASSUME NEW p \in Procs, Open(p) \/ Reopen(p) PROVE TypeOK'
  <2>1. pid' = pid /\ (Create(p, "read") \/ Create(p, "idle"))
    BY <1>1 DEF Open, Reopen
  <2>2. "read" \in PCs \ {"stat"} /\ "idle" \in PCs \ {"stat"}
    BY DEF PCs
  <2> QED
    BY <2>1, <2>2, CreateType DEF TypeOK
<1>2. ASSUME NEW p \in Procs, Read(p) PROVE TypeOK'
  <2>1. CASE file # NoFile /\ file.text = "details"
    <3>1. file.owner \in Procs
      BY <2>1 DEF TypeOK, Files
    <3> QED
      BY <1>2, <2>1, <3>1 DEF Read, Goto, TypeOK, PCs
  <2>2. CASE ~(file # NoFile /\ file.text = "details")
    BY <1>2, <2>2 DEF Read, Goto, TypeOK, PCs
  <2> QED
    BY <2>1, <2>2
<1>3. ASSUME NEW p \in Procs, Stat(p) PROVE TypeOK'
  BY <1>3 DEF Stat, Goto, TypeOK, PCs
<1>4. ASSUME NEW p \in Procs, Unlink(p) PROVE TypeOK'
  BY <1>4 DEF Unlink, Goto, TypeOK, PCs
<1>5. ASSUME NEW p \in Procs, Write(p) PROVE TypeOK'
  <2>1. file' \in Files \cup {NoFile}
    BY <1>5 DEF Write, TypeOK, Files
  <2> QED
    BY <1>5, <2>1 DEF Write, Goto, TypeOK, PCs
<1>6. ASSUME NEW p \in Procs, WriteShort(p) PROVE TypeOK'
  BY <1>6 DEF WriteShort, Goto, TypeOK, PCs
<1>7. ASSUME NEW p \in Procs, Undo(p) PROVE TypeOK'
  BY <1>7 DEF Undo, Goto, TypeOK, PCs
<1>8. ASSUME NEW p \in Procs, Release(p) PROVE TypeOK'
  BY <1>8 DEF Release, Goto, TypeOK, PCs
<1>9. ASSUME NEW p \in Procs, Exit(p) \/ Reuse(p) PROVE TypeOK'
  BY <1>9 DEF Exit, Reuse, Goto, TypeOK, PCs
<1>10. CASE UNCHANGED vars
  BY <1>10 DEF vars, TypeOK
<1> QED
  BY <1>1, <1>2, <1>3, <1>4, <1>5, <1>6, <1>7, <1>8, <1>9, <1>10 DEF Next, Acquire

LEMMA TypeInit == Init => TypeOK
BY DEF Init, TypeOK, Files, PCs

\* TypeOK holds in every reachable state; in particular proc_stat() is asked
\* only about the pid of a process that took the lock.
THEOREM TypeCorrect == Spec => []TypeOK
BY TypeInit, TypeStep, PTL DEF Spec

-----------------------------------------------------------------------------
(* Exclusion as long as nothing is raced                                   *)

\* A lock file at the path is a file; its fields say which.
LEMMA FileFields ==
  ASSUME TypeOK
  PROVE  /\ \A p \in Procs : \A t \in {"partial", "details"} :
              [owner |-> p, text |-> t] # NoFile
         /\ file # NoFile => /\ file.owner \in Procs
                             /\ file.text \in {"partial", "details"}
                             /\ file = [owner |-> file.owner, text |-> file.text]
BY LockAssumption DEF TypeOK, Files

\* A process makes the lock file.
LEMMA UnracedCreate ==
  ASSUME TypeOK, OwnsFile, LooksAtFile, NEW p \in Procs, NEW failed \in {"read", "idle"},
         pc[p] \in {"idle", "reopen"}, Create(p, failed), UNCHANGED pid, ~raced'
  PROVE  OwnsFile' /\ LooksAtFile'
<1>1. CASE file # NoFile
  <2>1. /\ file' = file
        /\ pc' = [pc EXCEPT ![p] = failed]
    BY <1>1 DEF Create, Goto
  <2>2. OwnsFile'
    BY <2>1 DEF OwnsFile, Owning, TypeOK
  <2>3. LooksAtFile'
    BY <2>1 DEF LooksAtFile, TypeOK
  <2> QED
    BY <2>2, <2>3
<1>2. CASE file = NoFile
  <2>1. /\ file' = [owner |-> p, text |-> "partial"]
        /\ pc' = [pc EXCEPT ![p] = "write"]
        /\ \A q \in Procs \ {p} : pc[q] \notin {"stat", "unlink"}
    BY <1>2 DEF Create, Goto
  <2>2. \A q \in Procs : pc[q] \notin Owning
    BY <1>2, FileFields DEF OwnsFile
  <2>3. OwnsFile'
    BY <2>1, <2>2 DEF OwnsFile, Owning, TypeOK
  <2>4. LooksAtFile'
    BY <2>1 DEF LooksAtFile, TypeOK
  <2> QED
    BY <2>3, <2>4
<1> QED
  BY <1>1, <1>2

\* Every step keeps what holds while nothing is raced, unless somebody
\* releases twice.
LEMMA UnracedStep ==
  ASSUME "rerelease" \notin Faults, TypeOK, UnracedInv, [Next]_vars
  PROVE  UnracedInv'
<1> SUFFICES ASSUME ~raced' PROVE OwnsFile' /\ LooksAtFile'
  BY DEF UnracedInv
<1>0. ~raced /\ OwnsFile /\ LooksAtFile
  <2>1. \A p \in Procs : Open(p) \/ Reopen(p) => ~raced
    BY DEF Open, Reopen, Create
  <2>2. \A p \in Procs : Read(p) \/ Stat(p) \/ Unlink(p) \/ Write(p) \/ WriteShort(p) => ~raced
    BY DEF Read, Stat, Unlink, Write, WriteShort
  <2>3. \A p \in Procs : Undo(p) \/ Release(p) \/ Exit(p) \/ Reuse(p) => ~raced
    BY DEF Undo, Release, Exit, Reuse
  <2>4. UNCHANGED vars => ~raced
    BY DEF vars
  <2> QED
    BY <2>1, <2>2, <2>3, <2>4 DEF UnracedInv, Next, Acquire
<1>1. ASSUME NEW p \in Procs, Open(p) \/ Reopen(p) PROVE OwnsFile' /\ LooksAtFile'
  BY <1>0, <1>1, UnracedCreate DEF Open, Reopen
<1>2. ASSUME NEW p \in Procs, Read(p) PROVE OwnsFile' /\ LooksAtFile'
  <2>1. file' = file /\ \A q \in Procs \ {p} : pid'[q] = pid[q] /\ pc'[q] = pc[q]
    BY <1>2 DEF Read, Goto, TypeOK
  <2>2. pc'[p] \in {"stat", "idle"}
    BY <1>2 DEF Read, Goto, TypeOK
  <2>3. pc'[p] = "stat" =>
          file = [owner |-> pid'[p], text |-> "details"] /\ pid'[p] \in Procs
    BY <1>2, FileFields DEF Read, Goto, TypeOK
  <2>4. \A q \in Procs : pc[q] \in {"dead", "foreign"} => pc'[q] \in {"dead", "foreign"}
    BY <1>2 DEF Read, Goto, TypeOK
  <2>5. OwnsFile'
    BY <1>0, <2>1, <2>2 DEF OwnsFile, Owning
  <2>6. LooksAtFile'
    BY <1>0, <2>1, <2>2, <2>3, <2>4 DEF LooksAtFile
  <2> QED
    BY <2>5, <2>6
<1>3. ASSUME NEW p \in Procs, Stat(p) PROVE OwnsFile' /\ LooksAtFile'
  <2>1. file' = file /\ pid' = pid /\ \A q \in Procs \ {p} : pc'[q] = pc[q]
    BY <1>3 DEF Stat, Goto, TypeOK
  <2>2. /\ pc[p] = "stat" /\ pc'[p] \in {"unlink", "idle"}
        /\ pc'[p] = "unlink" => pc[pid[p]] = "dead"
    BY <1>3 DEF Stat, Goto, Alive, TypeOK
  <2>3. OwnsFile'
    BY <1>0, <2>1, <2>2 DEF OwnsFile, Owning
  <2>4. LooksAtFile'
    BY <1>0, <2>1, <2>2 DEF LooksAtFile
  <2> QED
    BY <2>3, <2>4
<1>4. ASSUME NEW p \in Procs, Unlink(p) PROVE OwnsFile' /\ LooksAtFile'
  <2>1. /\ file' = NoFile /\ pid' = pid
        /\ pc[p] = "unlink" /\ pc' = [pc EXCEPT ![p] = "reopen"]
    BY <1>4 DEF Unlink, Goto
  <2>2. file \in {NoFile, [owner |-> pid[p], text |-> "details"]}
    BY <1>0, <2>1 DEF LooksAtFile
  <2>3. pid[p] \in Procs /\ pc[pid[p]] \in {"dead", "foreign"}
    BY <1>0, <2>1 DEF LooksAtFile
  <2>4. \A q \in Procs : pc[q] \notin Owning
    <3> SUFFICES ASSUME NEW q \in Procs, pc[q] \in Owning PROVE FALSE
      OBVIOUS
    <3>1. file # NoFile /\ file.owner = q
      BY <1>0, FileFields DEF OwnsFile
    <3>2. q = pid[p]
      BY <2>2, <3>1
    <3> QED
      BY <2>3, <3>2 DEF Owning
  <2>5. OwnsFile'
    BY <2>1, <2>4 DEF OwnsFile, Owning, TypeOK
  <2>6. LooksAtFile'
    BY <1>0, <2>1 DEF LooksAtFile, TypeOK
  <2> QED
    BY <2>5, <2>6
<1>5. ASSUME NEW p \in Procs, Write(p) PROVE OwnsFile' /\ LooksAtFile'
  <2>1. file = [owner |-> p, text |-> "partial"] /\ file # NoFile
    BY <1>0, <1>5, FileFields DEF OwnsFile, Owning, Write
  <2>2. file' = [owner |-> p, text |-> "details"]
    BY <1>5, <2>1 DEF Write
  <2>3. \A q \in Procs \ {p} : pc[q] \notin Owning
    BY <1>0, <2>1 DEF OwnsFile
  <2>4. \A q \in Procs : pc[q] \notin {"stat", "unlink"}
    BY <1>0, <2>1 DEF LooksAtFile
  <2>5. pc' = [pc EXCEPT ![p] = "held"]
    BY <1>5 DEF Write, Goto
  <2>6. OwnsFile'
    BY <2>2, <2>3, <2>5 DEF OwnsFile, TypeOK
  <2>7. LooksAtFile'
    BY <2>4, <2>5 DEF LooksAtFile, TypeOK
  <2> QED
    BY <2>6, <2>7
<1>6. ASSUME NEW p \in Procs, WriteShort(p) PROVE OwnsFile' /\ LooksAtFile'
  <2>1. /\ file' = file /\ pid' = [pid EXCEPT ![p] = p]
        /\ pc[p] = "write" /\ pc' = [pc EXCEPT ![p] = "undo"]
    BY <1>6 DEF WriteShort, Goto
  <2>2. OwnsFile'
    BY <1>0, <2>1 DEF OwnsFile, Owning, TypeOK
  <2>3. LooksAtFile'
    BY <1>0, <2>1 DEF LooksAtFile, TypeOK
  <2> QED
    BY <2>2, <2>3
<1>7. ASSUME NEW p \in Procs, Undo(p) \/ Release(p) PROVE OwnsFile' /\ LooksAtFile'
  <2>1. /\ file' = NoFile /\ pid' = pid
        /\ pc[p] \in Owning /\ pc' = [pc EXCEPT ![p] = "idle"]
    BY <1>7 DEF Undo, Release, Goto, Owning
  <2>2. \A q \in Procs \ {p} : pc[q] \notin Owning
    BY <1>0, <2>1 DEF OwnsFile
  <2>3. OwnsFile'
    BY <2>1, <2>2 DEF OwnsFile, Owning, TypeOK
  <2>4. LooksAtFile'
    BY <1>0, <2>1 DEF LooksAtFile, Owning, TypeOK
  <2> QED
    BY <2>3, <2>4
<1>8. ASSUME NEW p \in Procs, Exit(p) \/ Reuse(p) PROVE OwnsFile' /\ LooksAtFile'
  <2>1. /\ file' = file /\ pid' = pid
        /\ \A q \in Procs \ {p} : pc'[q] = pc[q]
        /\ pc'[p] \in {"dead", "foreign"}
    BY <1>8 DEF Exit, Reuse, Goto, TypeOK
  <2>2. OwnsFile'
    BY <1>0, <2>1 DEF OwnsFile, Owning
  <2>3. LooksAtFile'
    BY <1>0, <2>1 DEF LooksAtFile
  <2> QED
    BY <2>2, <2>3
<1>9. CASE UNCHANGED vars
  BY <1>0, <1>9 DEF vars, OwnsFile, LooksAtFile
<1> QED
  BY <1>1, <1>2, <1>3, <1>4, <1>5, <1>6, <1>7, <1>8, <1>9 DEF Next, Acquire

\* The inductive invariant of the unraced lock (src/lock.c:62-103): who wrote the
\* file owns it, and who looks at it looks at the file of a process that is gone
\* or at nothing new.
THEOREM Unraced ==
  ASSUME "rerelease" \notin Faults
  PROVE  Spec => [](TypeOK /\ UnracedInv)
<1>1. Init => TypeOK /\ UnracedInv
  BY TypeInit DEF Init, UnracedInv, OwnsFile, LooksAtFile, Owning
<1>2. TypeOK /\ UnracedInv /\ [Next]_vars => (TypeOK /\ UnracedInv)'
  BY TypeStep, UnracedStep
<1> QED
  BY <1>1, <1>2, PTL DEF Spec

\* The lock excludes as long as no lock file is made between a process's look
\* at the details and its unlink (src/lock.c:62-103), for any number of
\* processes that exit, crash, write short and have their pids reused.
THEOREM Exclusion ==
  ASSUME "rerelease" \notin Faults
  PROVE  Spec => []ExclusiveUnlessRaced
<1>1. TypeOK /\ UnracedInv => ExclusiveUnlessRaced
  <2> SUFFICES ASSUME UnracedInv, ~raced,
                      NEW p \in Procs, NEW q \in Procs, Held(p), Held(q)
               PROVE  p = q
    BY DEF ExclusiveUnlessRaced, MutualExclusion
  <2>1. /\ file = [owner |-> p, text |-> "details"]
        /\ file = [owner |-> q, text |-> "details"]
    BY DEF UnracedInv, OwnsFile, Owning, Held
  <2> QED
    BY <2>1
<1> QED
  BY <1>1, Unraced, PTL

\* ... and the file at the path is the holder's own.
THEOREM HolderOwns ==
  ASSUME "rerelease" \notin Faults
  PROVE  Spec => []HolderOwnsFile
<1>1. TypeOK /\ UnracedInv => HolderOwnsFile
  BY DEF UnracedInv, OwnsFile, Owning, Held, HolderOwnsFile
<1> QED
  BY <1>1, Unraced, PTL

\* A file left without details by a dead process stays for good
\* (src/lock.c:33, 71): only whoever makes a file removes it, or who has read
\* the details of a dead one.
THEOREM PartialLock ==
  ASSUME "rerelease" \notin Faults
  PROVE  Spec => PartialLockStays
<1> DEFINE Left == file # NoFile /\ file.text = "partial" /\ ~Alive(file.owner) /\ ~raced
<1>1. ASSUME TypeOK, UnracedInv, [Next]_vars, Left PROVE file' = file
  <2>1. OwnsFile /\ LooksAtFile
    BY <1>1 DEF UnracedInv
  <2>2. \A p \in Procs : pc[p] \notin Owning
    <3> SUFFICES ASSUME NEW p \in Procs, pc[p] \in Owning PROVE FALSE
      OBVIOUS
    <3>1. file.owner = p
      BY <2>1 DEF OwnsFile
    <3> QED
      BY <1>1, <3>1 DEF Alive, Owning
  <2>3. \A p \in Procs : pc[p] # "unlink"
    BY <1>1, <2>1 DEF LooksAtFile
  <2>4. ASSUME NEW p \in Procs, Open(p) \/ Reopen(p) PROVE file' = file
    BY <1>1, <2>4 DEF Open, Reopen, Create
  <2>5. ASSUME NEW p \in Procs, Read(p) \/ Stat(p) \/ Exit(p) \/ Reuse(p) PROVE file' = file
    BY <2>5 DEF Read, Stat, Exit, Reuse
  <2>6. ASSUME NEW p \in Procs,
               \/ Unlink(p) \/ Write(p) \/ WriteShort(p) \/ Undo(p) \/ Release(p)
        PROVE  FALSE
    BY <2>2, <2>3, <2>6 DEF Unlink, Write, WriteShort, Undo, Release, Owning
  <2>7. CASE UNCHANGED vars
    BY <2>7 DEF vars
  <2> QED
    BY <1>1, <2>4, <2>5, <2>6, <2>7 DEF Next, Acquire
<1>2. TypeOK /\ UnracedInv /\ [Next]_vars => [Left => file' = file]_vars
  BY <1>1
<1> QED
  BY <1>2, Unraced, PTL DEF Spec, PartialLockStays
-----------------------------------------------------------------------------
(* Refinement: processes that live on implement Mutex                      *)

\* Nobody is dead, so nobody breaks a lock, raced or not.
LivingInv ==
  /\ \A p \in Procs : pc[p] \notin {"unlink", "reopen", "dead", "foreign"}
  /\ OwnsFile

LEMMA LivingStep ==
  ASSUME Faults \subseteq {"short"}, TypeOK, LivingInv, [Next]_vars
  PROVE  LivingInv'
<1>1. ASSUME NEW p \in Procs, Open(p) PROVE LivingInv'
  <2>1. CASE file # NoFile
    <3>1. file' = file /\ pc' = [pc EXCEPT ![p] = "read"]
      BY <1>1, <2>1 DEF Open, Create, Goto
    <3> QED
      BY <3>1 DEF LivingInv, OwnsFile, Owning, TypeOK
  <2>2. CASE file = NoFile
    <3>1. file' = [owner |-> p, text |-> "partial"] /\ pc' = [pc EXCEPT ![p] = "write"]
      BY <1>1, <2>2 DEF Open, Create, Goto
    <3>2. \A q \in Procs : pc[q] \notin Owning
      BY <2>2, FileFields DEF LivingInv, OwnsFile
    <3> QED
      BY <3>1, <3>2 DEF LivingInv, OwnsFile, Owning, TypeOK
  <2> QED
    BY <2>1, <2>2
<1>2. ASSUME NEW p \in Procs, Read(p) PROVE LivingInv'
  <2>1. /\ file' = file /\ pc'[p] \in {"stat", "idle"}
        /\ \A q \in Procs \ {p} : pc'[q] = pc[q]
    BY <1>2 DEF Read, Goto, TypeOK
  <2> QED
    BY <2>1 DEF LivingInv, OwnsFile, Owning
<1>3. ASSUME NEW p \in Procs, Stat(p) PROVE LivingInv'
  <2>1. pid[p] \in Procs /\ Alive(pid[p])
    BY <1>3 DEF Stat, LivingInv, Alive, TypeOK
  <2>2. file' = file /\ pc' = [pc EXCEPT ![p] = "idle"]
    BY <1>3, <2>1 DEF Stat, Goto
  <2> QED
    BY <2>2 DEF LivingInv, OwnsFile, Owning, TypeOK
<1>4. ASSUME NEW p \in Procs, Write(p) PROVE LivingInv'
  <2>1. file = [owner |-> p, text |-> "partial"] /\ file # NoFile
    BY <1>4, FileFields DEF LivingInv, OwnsFile, Owning, Write
  <2>2. file' = [owner |-> p, text |-> "details"]
    BY <1>4, <2>1 DEF Write
  <2>3. \A q \in Procs \ {p} : pc[q] \notin Owning
    BY <2>1 DEF LivingInv, OwnsFile
  <2>4. pc' = [pc EXCEPT ![p] = "held"]
    BY <1>4 DEF Write, Goto
  <2> QED
    BY <2>2, <2>3, <2>4 DEF LivingInv, OwnsFile, TypeOK
<1>5. ASSUME NEW p \in Procs, WriteShort(p) PROVE LivingInv'
  <2>1. file' = file /\ pc[p] = "write" /\ pc' = [pc EXCEPT ![p] = "undo"]
    BY <1>5 DEF WriteShort, Goto
  <2> QED
    BY <2>1 DEF LivingInv, OwnsFile, Owning, TypeOK
<1>6. ASSUME NEW p \in Procs, Undo(p) \/ Release(p) PROVE LivingInv'
  <2>1. /\ file' = NoFile
        /\ pc[p] \in Owning /\ pc' = [pc EXCEPT ![p] = "idle"]
    BY <1>6 DEF Undo, Release, Goto, Owning
  <2>2. \A q \in Procs \ {p} : pc[q] \notin Owning
    BY <2>1 DEF LivingInv, OwnsFile
  <2> QED
    BY <2>1, <2>2 DEF LivingInv, OwnsFile, Owning, TypeOK
<1>7. ASSUME NEW p \in Procs, Unlink(p) \/ Reopen(p) \/ Exit(p) \/ Reuse(p) PROVE FALSE
  BY <1>7 DEF Unlink, Reopen, Exit, Reuse, LivingInv
<1>8. CASE UNCHANGED vars
  BY <1>8 DEF vars, LivingInv, OwnsFile
<1> QED
  BY <1>1, <1>2, <1>3, <1>4, <1>5, <1>6, <1>7, <1>8 DEF Next, Acquire

Holders == {p \in Procs : Held(p)}

\* A step takes the abstract lock, gives it back, or does neither.
LEMMA MutexStep ==
  ASSUME Faults \subseteq {"short"}, TypeOK, LivingInv, [Next]_vars
  PROVE  [M!Next]_Holders
<1>1. ASSUME NEW p \in Procs, Write(p) PROVE M!Next
  <2>1. pc[p] = "write" /\ pc' = [pc EXCEPT ![p] = "held"]
    BY <1>1 DEF Write, Goto
  <2>2. file = [owner |-> p, text |-> "partial"]
    BY <2>1 DEF LivingInv, OwnsFile, Owning
  <2>3. \A q \in Procs : pc[q] # "held"
    BY <2>2 DEF LivingInv, OwnsFile, Owning
  <2>4. Holders = {} /\ Holders' = {p}
    BY <2>1, <2>3 DEF Holders, Held, TypeOK
  <2> QED
    BY <2>4 DEF M!Next, M!Acquire, Holders
<1>2. ASSUME NEW p \in Procs, Release(p) PROVE M!Next
  <2>1. pc[p] = "held" /\ pc' = [pc EXCEPT ![p] = "idle"]
    BY <1>2 DEF Release, Goto
  <2>2. p \in Holders /\ Holders' = Holders \ {p}
    BY <2>1 DEF Holders, Held, TypeOK
  <2> QED
    BY <2>2 DEF M!Next, M!Release, Holders
<1>3. ASSUME NEW p \in Procs,
             \/ Open(p) \/ Read(p) \/ Stat(p) \/ Unlink(p) \/ Reopen(p)
             \/ WriteShort(p) \/ Undo(p)
      PROVE  Holders' = Holders
  <2>1. \A q \in Procs \ {p} : pc'[q] = pc[q]
    BY <1>3 DEF Open, Read, Stat, Unlink, Reopen, Create, WriteShort, Undo, Goto, TypeOK
  <2>2. pc[p] # "held" /\ pc'[p] # "held"
    BY <1>3 DEF Open, Read, Stat, Unlink, Reopen, Create, WriteShort, Undo, Goto, TypeOK
  <2> QED
    BY <2>1, <2>2 DEF Holders, Held
<1>4. ASSUME NEW p \in Procs, Exit(p) \/ Reuse(p) PROVE FALSE
  BY <1>4 DEF Exit, Reuse, LivingInv
<1>5. CASE UNCHANGED vars
  BY <1>5 DEF vars, Holders, Held
<1> QED
  BY <1>1, <1>2, <1>3, <1>4, <1>5 DEF Next, Acquire

\* For any number of processes that neither die nor release twice, the lock file
\* is a lock (src/lock.c:62-112), short writes included.
THEOREM Refinement ==
  ASSUME Faults \subseteq {"short"}
  PROVE  Spec => ImplementsMutex
<1>1. Init => M!Init /\ TypeOK /\ LivingInv
  BY TypeInit DEF Init, M!Init, LivingInv, OwnsFile, Owning, Held
<1>2. TypeOK /\ LivingInv /\ [Next]_vars => (TypeOK /\ LivingInv)'
  BY TypeStep, LivingStep
<1>3. TypeOK /\ LivingInv /\ [Next]_vars => [M!Next]_Holders
  BY MutexStep
<1> QED
  BY <1>1, <1>2, <1>3, PTL DEF Spec, ImplementsMutex, M!Spec, Holders

-----------------------------------------------------------------------------
(* Paths                                                                   *)

\* What is in a buffer.
Bytes == PathChars \cup {EOS}

\* c is the place of the first NUL of b.
FirstEnd(b, c) == c \in 1..Len(b) /\ b[c] = EOS /\ \A i \in 1..c - 1 : b[i] # EOS

\* "/" is no NUL.
LEMMA SlashIs == "/" \in PathChars /\ EOS \notin PathChars /\ "/" # EOS
BY PathAssumption DEF EOS

\* The first characters of a string.
LEMMA UpToIs ==
  ASSUME NEW S, NEW s \in Seq(S), NEW k \in 0..Len(s)
  PROVE  /\ SubSeq(s, 1, k) \in Seq(S) /\ Len(SubSeq(s, 1, k)) = k
         /\ \A i \in 1..k : SubSeq(s, 1, k)[i] = s[i]
<1> DEFINE one == 1
<1>1. one \in Int /\ k \in Int /\ k \in Nat /\ Len(s) \in Nat
  BY LenProperties
<1>2. (IF one <= k THEN k - one + 1 ELSE 0) = k /\ k - one + 1 = k /\ \A i \in one..k : i \in 1..Len(s)
  BY <1>1
<1>3. \A i \in 1..k : one + i - 1 = i
  BY <1>1
<1> HIDE DEF one
<1>4. \A i \in one..k : s[i] \in S
  BY <1>2, ElementOfSeq
<1>5. /\ SubSeq(s, one, k) \in Seq(S)
      /\ Len(SubSeq(s, one, k)) = IF one <= k THEN k - one + 1 ELSE 0
      /\ \A i \in 1..k - one + 1 : SubSeq(s, one, k)[i] = s[one + i - 1]
  BY <1>1, <1>4, SubSeqProperties
<1>6. /\ SubSeq(s, one, k) \in Seq(S) /\ Len(SubSeq(s, one, k)) = k
      /\ \A i \in 1..k : SubSeq(s, one, k)[i] = s[one + i - 1]
  BY <1>2, <1>5
<1>7. \A i \in 1..k : SubSeq(s, one, k)[i] = s[i]
  BY <1>3, <1>6
<1> QED
  BY <1>6, <1>7 DEF one

\* The least of numbers is one of them.
LEMMA LeastIs ==
  ASSUME NEW S \in SUBSET Nat, S # {}
  PROVE  Min(S) \in S /\ \A y \in S : Min(S) <= y
<1>1. PICK x \in S : \A y \in S : ~(<<y, x>> \in OpToRel(<, Nat))
  BY NatLessThanWellFounded, WFMin
<1>2. \A y \in S : x <= y
  <2> SUFFICES ASSUME NEW y \in S PROVE x <= y
    OBVIOUS
  <2>1. x \in Nat /\ y \in Nat
    OBVIOUS
  <2>2. ~(y < x)
    BY <1>1, <2>1 DEF OpToRel
  <2> QED
    BY <2>1, <2>2
<1> QED
  BY <1>1, <1>2 DEF Min

\* The greatest of numbers is one of them.
LEMMA GreatestIn ==
  ASSUME NEW m \in Nat, NEW S \in SUBSET (0..m), S # {}
  PROVE  Max(S) \in S /\ \A y \in S : y <= Max(S)
<1> DEFINE T == {k \in Nat : \E y \in S : k = m - y}
<1>1. T \in SUBSET Nat /\ T # {}
  <2>1. PICK y \in S : TRUE
    OBVIOUS
  <2>2. m - y \in T
    BY <2>1
  <2> QED
    BY <2>2
<1>2. \A k \in T : \E y \in S : k = m - y
  OBVIOUS
<1>3. \A y \in S : m - y \in T
  OBVIOUS
<1> HIDE DEF T
<1>4. Min(T) \in T /\ \A y \in T : Min(T) <= y
  BY <1>1, LeastIs
<1>5. PICK x \in S : Min(T) = m - x
  BY <1>2, <1>4
<1>6. \A y \in S : y <= x
  <2> SUFFICES ASSUME NEW y \in S PROVE y <= x
    OBVIOUS
  <2>1. m - x <= m - y
    BY <1>3, <1>4, <1>5
  <2> QED
    BY <2>1
<1> QED
  BY <1>6 DEF Max

\* What is shown of a buffer is what is in front of its first NUL.
LEMMA StringInIs ==
  ASSUME NEW b \in Seq(Bytes), NEW c, FirstEnd(b, c)
  PROVE  /\ StringIn(b) = SubSeq(b, 1, c - 1)
         /\ StringIn(b) \in Seq(Bytes) /\ Len(StringIn(b)) = c - 1
         /\ \A i \in 1..c - 1 : StringIn(b)[i] = b[i]
<1> DEFINE S == {i \in DOMAIN b : b[i] = EOS}
<1>1. Len(b) \in Nat /\ DOMAIN b = 1..Len(b)
  BY LenProperties
<1>2. S \in SUBSET Nat /\ c \in S /\ \A i \in S : c <= i
  <2>1. \A i \in S : i \in 1..Len(b) /\ b[i] = EOS
    BY <1>1
  <2>2. \A i \in S : ~(i \in 1..c - 1)
    BY <2>1 DEF FirstEnd
  <2>3. c \in 1..Len(b) /\ c \in S
    BY <1>1 DEF FirstEnd
  <2> HIDE DEF S
  <2>4. \A i \in S : c <= i
    BY <1>1, <2>1, <2>2, <2>3
  <2> QED
    BY <1>1, <2>1, <2>3, <2>4
<1> HIDE DEF S
<1>3. Min(S) \in S /\ Min(S) <= c
  BY <1>2, LeastIs
<1>4. Min(S) = c
  <2> DEFINE x == Min(S)
  <2>1. x \in Nat /\ c \in Nat /\ c <= x /\ x <= c
    BY <1>2, <1>3
  <2> HIDE DEF x
  <2>2. x = c
    BY <2>1
  <2> QED
    BY <2>2 DEF x
<1>5. StringIn(b) = SubSeq(b, 1, c - 1)
  BY <1>4 DEF StringIn, S
<1> DEFINE k == c - 1
<1>6. k \in 0..Len(b)
  BY <1>1 DEF FirstEnd
<1> HIDE DEF k
<1>7. /\ SubSeq(b, 1, k) \in Seq(Bytes) /\ Len(SubSeq(b, 1, k)) = k
      /\ \A i \in 1..k : SubSeq(b, 1, k)[i] = b[i]
  BY <1>6, UpToIs
<1> QED
  BY <1>5, <1>7 DEF k

-----------------------------------------------------------------------------
(* The invariant                                                           *)

\* A buffer of p->len + 2 bytes, or more once the path has got shorter.
PathTypes ==
  /\ buf \in Seq(Bytes) /\ len \in Nat \ {0} /\ len + 2 <= Len(buf)

\* The k-th place where a path was popped, of those at e; none is the end.
CutAt(path, e, k) == IF k = 0 THEN Len(path) + 1 ELSE e[k]

\* The buffer b has path, with a NUL over each of the slashes at e.
Marked(b, path, e) ==
  /\ path \in Seq(PathChars) /\ path # <<>> /\ Len(path) + 2 <= Len(b)
  /\ e \in Seq(Nat)
  /\ \A k \in 1..Len(e) : e[k] \in 2..Len(path) /\ path[e[k]] = "/"
  /\ \A j, k \in 1..Len(e) : j < k => e[k] < e[j]
  /\ \A i \in 1..Len(b) :
       b[i] = IF i <= Len(path) /\ \A k \in 1..Len(e) : e[k] # i THEN path[i] ELSE EOS

\* It was popped there, and nowhere else.
Holds(path, e) ==
  /\ Marked(buf, path, e)
  /\ Len(popped) = Len(e) /\ popped \in Seq(Seq(Bytes))
  /\ \A k \in 1..Len(e) : popped[k] = SubSeq(path, 1, CutAt(path, e, k - 1) - 1)
  /\ n \in 0..CutAt(path, e, Len(e)) - 1

\* Nothing has been left behind the path, or all that a buffer holds is a path
\* with some of its slashes popped.
PathInv ==
  /\ PathTypes
  /\ ~residue => \E path \in Seq(PathChars), e \in Seq(Nat) : Holds(path, e)

\* The last place popped is the end of what is shown.
LEMMA MarkedShown ==
  ASSUME NEW b \in Seq(Bytes), NEW path, NEW e, Marked(b, path, e)
  PROVE  LET c == CutAt(path, e, Len(e))
         IN /\ c \in 2..Len(path) + 1 /\ c + 1 <= Len(b) /\ FirstEnd(b, c)
            /\ StringIn(b) = SubSeq(path, 1, c - 1) /\ Len(StringIn(b)) = c - 1
            /\ \A i \in 1..c - 1 : b[i] = path[i]
<1> DEFINE K == Len(e)
           c == CutAt(path, e, K)
           l == Len(path)
<1>1. K \in Nat /\ l \in Nat /\ l # 0 /\ Len(b) \in Nat /\ l + 2 <= Len(b)
  BY EmptySeq, LenProperties DEF Marked
<1>2. c \in 2..l + 1 /\ \A k \in 1..K : c <= e[k]
  <2>1. CASE K = 0
    BY <1>1, <2>1 DEF CutAt
  <2>2. CASE K # 0
    <3>1. K \in 1..K /\ c = e[K]
      BY <1>1, <2>2 DEF CutAt
    <3>2. e[K] \in 2..l
      BY <3>1 DEF Marked
    <3>3. \A k \in 1..K : k < K => e[K] < e[k]
      BY <3>1 DEF Marked
    <3>4. \A k \in 1..K : k = K \/ k < K
      BY <1>1
    <3>5. \A k \in 1..K : e[k] \in Nat
      BY ElementOfSeq DEF Marked
    <3> HIDE DEF c, l, K
    <3>6. \A k \in 1..K : e[K] <= e[k]
      BY <3>1, <3>3, <3>4, <3>5
    <3> QED
      BY <1>1, <3>1, <3>2, <3>6
  <2> QED
    BY <2>1, <2>2
<1>3. \A i \in 1..Len(b) :
        b[i] = IF i <= l /\ \A k \in 1..K : e[k] # i THEN path[i] ELSE EOS
  BY DEF Marked
<1>4. K # 0 => \E k \in 1..K : e[k] = c
  BY <1>1 DEF CutAt
<1>5. K = 0 => c = l + 1
  BY DEF CutAt
<1>6. path \in Seq(PathChars)
  BY DEF Marked
<1> HIDE DEF c, l, K
<1>7. c \in 1..Len(b) /\ c + 1 <= Len(b) /\ b[c] = EOS
  <2>1. c \in 1..Len(b) /\ c + 1 <= Len(b)
    BY <1>1, <1>2
  <2>2. ~(c <= l /\ \A k \in 1..K : e[k] # c)
    BY <1>1, <1>2, <1>4, <1>5
  <2> QED
    BY <1>3, <2>1, <2>2
<1>8. \A i \in 1..c - 1 : i \in 1..l /\ b[i] = path[i] /\ path[i] \in PathChars
  <2> SUFFICES ASSUME NEW i \in 1..c - 1 PROVE i \in 1..l /\ b[i] = path[i] /\ path[i] \in PathChars
    OBVIOUS
  <2>1. i \in 1..l /\ i <= l /\ i \in 1..Len(b) /\ i < c
    BY <1>1, <1>2
  <2>2. \A k \in 1..K : e[k] # i
    BY <1>2, <2>1
  <2>3. b[i] = path[i]
    BY <1>3, <2>1, <2>2
  <2>4. path[i] \in PathChars
    BY <1>6, <2>1, ElementOfSeq DEF l
  <2> QED
    BY <2>1, <2>3, <2>4
<1>9. FirstEnd(b, c)
  BY <1>7, <1>8, SlashIs DEF FirstEnd
<1>10. /\ StringIn(b) \in Seq(Bytes) /\ Len(StringIn(b)) = c - 1
       /\ \A i \in 1..c - 1 : StringIn(b)[i] = b[i]
  BY <1>9, StringInIs
<1>11. StringIn(b) = SubSeq(path, 1, c - 1)
  <2> DEFINE k == c - 1
             x == StringIn(b)
             y == SubSeq(path, 1, k)
  <2>1. k \in 0..l
    BY <1>1, <1>2
  <2> HIDE DEF k
  <2>2. y \in Seq(PathChars) /\ Len(y) = k /\ \A i \in 1..k : y[i] = path[i]
    BY <1>6, <2>1, UpToIs DEF l
  <2>3. y \in Seq(Bytes)
    <3> HIDE DEF y
    <3>1. PathChars \subseteq Bytes
      BY DEF Bytes
    <3>2. \A i \in 1..Len(y) : y[i] \in Bytes
      BY <2>2, <3>1, ElementOfSeq
    <3>3. y = [i \in 1..Len(y) |-> y[i]] /\ Len(y) \in Nat
      BY <2>2, LenProperties
    <3> QED
      BY <3>2, <3>3
  <2>4. x \in Seq(Bytes) /\ Len(x) = k /\ \A i \in 1..k : x[i] = path[i]
    BY <1>8, <1>10 DEF k
  <2> HIDE DEF x, y
  <2>5. x = y
    BY <2>2, <2>3, <2>4, SeqEqual
  <2> QED
    BY <2>5 DEF x, y, k
<1> QED
  BY <1>2, <1>7, <1>8, <1>9, <1>10, <1>11 DEF c, K, l

\* The same of the path.
LEMMA HoldsShown ==
  ASSUME PathTypes, NEW path, NEW e, Holds(path, e)
  PROVE  LET c == CutAt(path, e, Len(e))
         IN /\ c \in 2..Len(path) + 1 /\ c + 1 <= Len(buf) /\ FirstEnd(buf, c)
            /\ Shown = SubSeq(path, 1, c - 1) /\ Len(Shown) = c - 1
            /\ \A i \in 1..c - 1 : buf[i] = path[i]
BY MarkedShown DEF PathTypes, Holds, Shown

-----------------------------------------------------------------------------
(* Popping and pushing                                                     *)

\* Where the last slash is, or that there is none behind the first character.
LEMMA SlashBeforeIs ==
  ASSUME NEW b, NEW f \in Nat \ {0}
  PROVE  LET s == SlashBefore(b, f, 1)
         IN /\ s = 1 \/ (s \in 1..f - 1 /\ b[s] = "/")
            /\ \A i \in 1..f - 1 : b[i] = "/" => i <= s
<1> DEFINE S == {i \in 1..f - 1 : b[i] = "/"}
<1>1. CASE S = {}
  BY <1>1 DEF SlashBefore
<1>2. CASE S # {}
  <2>1. S \in SUBSET (0..f) /\ f \in Nat
    OBVIOUS
  <2>2. \A i \in S : i \in 1..f - 1 /\ b[i] = "/"
    OBVIOUS
  <2>3. SlashBefore(b, f, 1) = Max(S)
    BY <1>2 DEF SlashBefore
  <2>4. \A i \in 1..f - 1 : b[i] = "/" => i \in S
    OBVIOUS
  <2> HIDE DEF S
  <2>5. Max(S) \in S /\ \A i \in S : i <= Max(S)
    BY <1>2, <2>1, GreatestIn
  <2> QED
    BY <2>2, <2>3, <2>4, <2>5
<1> QED
  BY <1>1, <1>2

\* Neither call changes the size of the buffer or more than one byte.
LEMMA PopTypes ==
  ASSUME PathTypes, PathPop \/ PathPush
  PROVE  PathTypes' /\ residue' = residue /\ Len(buf') = Len(buf)
<1>1. \E s : buf' = buf \/ (buf' = [buf EXCEPT ![s] = EOS]) \/ (buf' = [buf EXCEPT ![s] = "/"])
  BY DEF PathPop, PathPush
<1>2. residue' = residue /\ len' = len
  BY DEF PathPop, PathPush
<1>3. EOS \in Bytes /\ "/" \in Bytes
  BY SlashIs DEF Bytes
<1>4. buf \in [1..Len(buf) -> Bytes] /\ Len(buf) \in Nat
  BY LenProperties DEF PathTypes
<1>5. buf' \in [1..Len(buf) -> Bytes]
  BY <1>1, <1>3, <1>4
<1>6. buf' \in Seq(Bytes) /\ Len(buf') = Len(buf)
  BY <1>4, <1>5
<1> QED
  BY <1>2, <1>6 DEF PathTypes

\* A pop finds a slash in front of the last one popped (src/path.c:116-126).
LEMMA PopKeeps ==
  ASSUME PathTypes, NEW path, NEW e, Holds(path, e), PathPop
  PROVE  \E f \in Seq(Nat) : Holds(path, f)'
<1> DEFINE K == Len(e)
           c == CutAt(path, e, K)
           l == Len(path)
           front == SubSeq(buf, 1, n + 1)
           s == SlashBefore(front, n + 2, 1)
<1>1. /\ c \in 2..l + 1 /\ c + 1 <= Len(buf) /\ FirstEnd(buf, c)
      /\ Shown = SubSeq(path, 1, c - 1) /\ Len(Shown) = c - 1 /\ Shown \in Seq(Bytes)
      /\ \A i \in 1..c - 1 : buf[i] = path[i]
  BY HoldsShown, StringInIs DEF PathTypes, Shown
<1>2. /\ path \in Seq(PathChars) /\ path # <<>> /\ l + 2 <= Len(buf)
      /\ e \in Seq(Nat) /\ Len(popped) = K /\ popped \in Seq(Seq(Bytes))
      /\ n \in 0..c - 1
  BY DEF Holds, Marked
<1>3. K \in Nat /\ l \in Nat /\ Len(buf) \in Nat /\ c \in Nat /\ n \in Nat /\ n + 2 \in Nat \ {0}
  BY <1>1, <1>2, LenProperties DEF PathTypes
<1>4. s = 1 \/ (s \in 1..n + 1 /\ front[s] = "/")
  <2> DEFINE f == n + 2
  <2>1. f \in Nat \ {0} /\ f - 1 = n + 1
    BY <1>3
  <2> HIDE DEF f, front
  <2>2. LET t == SlashBefore(front, f, 1) IN t = 1 \/ (t \in 1..f - 1 /\ front[t] = "/")
    BY <2>1, SlashBeforeIs
  <2> QED
    BY <2>1, <2>2 DEF f
<1>5. \A i \in 1..n + 1 : front[i] = buf[i]
  <2> DEFINE k == n + 1
  <2>1. k \in 0..Len(buf)
    BY <1>1, <1>2, <1>3
  <2> HIDE DEF k
  <2>2. \A i \in 1..k : SubSeq(buf, 1, k)[i] = buf[i]
    BY <2>1, UpToIs DEF PathTypes
  <2> QED
    BY <2>2 DEF k
<1>6. IF s > 1 THEN buf' = [buf EXCEPT ![s] = EOS] /\ n' = s - 1 /\ popped' = Append(popped, Shown)
      ELSE n' = 0 /\ buf' = buf /\ popped' = popped
  BY DEF PathPop
<1> HIDE DEF s, front
<1>7. CASE ~(s > 1)
  <2>1. Holds(path, e)'
    BY <1>6, <1>7 DEF Holds, Marked, CutAt
  <2> QED
    BY <1>2, <2>1
<1>8. CASE s > 1
  <2>1. s \in 1..n + 1 /\ buf[s] = "/" /\ s \in Nat
    BY <1>3, <1>4, <1>5, <1>8
  <2>2. s < c /\ s \in 2..l /\ path[s] = "/" /\ s \in 1..Len(buf)
    <3>1. s <= c
      BY <1>2, <1>3, <2>1, <1>1
    <3>2. s # c
      BY <1>1, <2>1, SlashIs DEF FirstEnd
    <3>3. s < c /\ s \in 1..c - 1
      BY <1>3, <2>1, <3>1, <3>2
    <3> HIDE DEF c
    <3> QED
      BY <1>1, <1>3, <1>8, <2>1, <3>3
  <2> PICK f \in Seq(Nat) : /\ Len(f) = K + 1 /\ f[K + 1] = s
                            /\ \A k \in 1..K : f[k] = e[k]
    <3>1. /\ Append(e, s) \in Seq(Nat) /\ Len(Append(e, s)) = K + 1 /\ Append(e, s)[K + 1] = s
          /\ \A k \in 1..K : Append(e, s)[k] = e[k]
      BY <1>2, <2>1, AppendProperties
    <3> QED
      BY <3>1
  <2>3. /\ f \in Seq(Nat) /\ Len(f) = K + 1 /\ f[K + 1] = s
        /\ \A k \in 1..K : f[k] = e[k]
    OBVIOUS
  <2>4. \A k \in 1..K + 1 : k \in 1..K \/ k = K + 1
    BY <1>3
  <2>5. \A k \in 1..K : e[k] \in 2..l /\ path[e[k]] = "/" /\ c <= e[k]
    <3>1. \A k \in 1..K : e[k] \in 2..l /\ path[e[k]] = "/" /\ e[k] \in Nat
      BY ElementOfSeq DEF Holds, Marked
    <3>2. \A k \in 1..K : k = K \/ k < K
      BY <1>3
    <3>3. K # 0 => K \in 1..K /\ c = e[K]
      BY <1>3 DEF CutAt
    <3>4. \A k \in 1..K : k < K => e[K] < e[k]
      <4> SUFFICES ASSUME NEW k \in 1..K, k < K PROVE e[K] < e[k]
        OBVIOUS
      <4>1. K \in 1..K
        BY <1>3
      <4> QED
        BY <4>1 DEF Holds, Marked
    <3> HIDE DEF c, K, l
    <3>5. \A k \in 1..K : c <= e[k]
      <4> SUFFICES ASSUME NEW k \in 1..K PROVE c <= e[k]
        OBVIOUS
      <4>1. K # 0
        BY <1>3
      <4>2. e[K] \in Nat /\ e[k] \in Nat /\ c = e[K]
        BY <3>1, <3>3, <4>1
      <4> QED
        BY <3>2, <3>4, <4>2
    <3> QED
      BY <3>1, <3>5
  <2>6. \A i \in 1..Len(buf) :
          buf[i] = IF i <= l /\ \A k \in 1..K : e[k] # i THEN path[i] ELSE EOS
    BY DEF Holds, Marked
  <2>7. \A j, k \in 1..K : j < k => e[k] < e[j]
    BY DEF Holds, Marked
  <2>8. \A k \in 1..K : popped[k] = SubSeq(path, 1, CutAt(path, e, k - 1) - 1)
    BY DEF Holds, Marked
  <2>9. /\ popped' \in Seq(Seq(Bytes)) /\ Len(popped') = K + 1 /\ popped'[K + 1] = SubSeq(path, 1, c - 1)
        /\ \A k \in 1..K : popped'[k] = popped[k]
    <3> DEFINE x == Shown
    <3>1. x \in Seq(Bytes) /\ x = SubSeq(path, 1, c - 1) /\ popped' = Append(popped, x)
      BY <1>1, <1>6, <1>8
    <3> HIDE DEF x, c, K
    <3> QED
      BY <1>2, <3>1, AppendProperties
  <2>10. Len(buf') = Len(buf) /\ buf' = [buf EXCEPT ![s] = EOS] /\ DOMAIN buf = 1..Len(buf)
    BY <1>6, <1>8, PopTypes, LenProperties DEF PathTypes
  <2>11. CutAt(path, f, K + 1) = s /\ \A k \in 0..K : CutAt(path, f, k) = CutAt(path, e, k)
    BY <1>3, <2>3 DEF CutAt
  <2> HIDE DEF l
  <2>12. \A k \in 1..K + 1 : f[k] \in 2..l /\ path[f[k]] = "/"
    BY <2>2, <2>3, <2>4, <2>5
  <2>13. \A j, k \in 1..K + 1 : j < k => f[k] < f[j]
    <3> SUFFICES ASSUME NEW j \in 1..K + 1, NEW k \in 1..K + 1, j < k PROVE f[k] < f[j]
      OBVIOUS
    <3>1. j \in 1..K
      BY <1>3
    <3>2. CASE k \in 1..K
      BY <2>3, <2>7, <3>1, <3>2
    <3>3. CASE k = K + 1
      <4>1. f[k] = s /\ f[j] = e[j] /\ c <= e[j] /\ e[j] \in Nat
        BY <1>2, <2>3, <2>5, <3>1, <3>3, ElementOfSeq
      <4> HIDE DEF c, K
      <4> QED
        BY <1>3, <2>1, <2>2, <4>1
    <3> QED
      BY <2>4, <3>2, <3>3
  <2>14. \A i \in 1..Len(buf) :
           buf'[i] = IF i <= l /\ \A k \in 1..K + 1 : f[k] # i THEN path[i] ELSE EOS
    <3> SUFFICES ASSUME NEW i \in 1..Len(buf)
                 PROVE  buf'[i] = IF i <= l /\ \A k \in 1..K + 1 : f[k] # i THEN path[i] ELSE EOS
      OBVIOUS
    <3>1. buf'[i] = IF i = s THEN EOS ELSE buf[i]
      BY <2>10
    <3>2. (\A k \in 1..K + 1 : f[k] # i) <=> (\A k \in 1..K : e[k] # i) /\ s # i
      <4>1. K + 1 \in 1..K + 1 /\ \A k \in 1..K : k \in 1..K + 1
        BY <1>3
      <4> QED
        BY <2>3, <2>4, <4>1
    <3> QED
      BY <2>6, <3>1, <3>2
  <2>15. \A k \in 1..K + 1 : popped'[k] = SubSeq(path, 1, CutAt(path, f, k - 1) - 1)
    <3> SUFFICES ASSUME NEW k \in 1..K + 1 PROVE popped'[k] = SubSeq(path, 1, CutAt(path, f, k - 1) - 1)
      OBVIOUS
    <3>1. CASE k \in 1..K
      <4>1. k - 1 \in 0..K
        BY <1>3, <3>1
      <4> QED
        BY <2>8, <2>9, <2>11, <3>1, <4>1
    <3>2. CASE k = K + 1
      <4>1. k - 1 = K /\ K \in 0..K
        BY <1>3, <3>2
      <4>2. CutAt(path, f, k - 1) = c
        BY <2>11, <4>1
      <4> HIDE DEF c
      <4> QED
        BY <2>9, <3>2, <4>2
    <3> QED
      BY <2>4, <3>1, <3>2
  <2>16. n' \in 0..CutAt(path, f, K + 1) - 1
    BY <1>3, <1>6, <1>8, <2>1, <2>11
  <2> HIDE DEF K, c
  <2>17. Holds(path, f)'
    BY <1>2, <2>3, <2>9, <2>10, <2>12, <2>13, <2>14, <2>15, <2>16 DEF Holds, Marked, CutAt, l
  <2> QED
    BY <2>3, <2>17
<1> QED
  BY <1>7, <1>8

\* A push undoes the last pop, unless the character behind it is a NUL too.
LEMMA PushKeeps ==
  ASSUME PathTypes, NEW path, NEW e, Holds(path, e), PathPush
  PROVE  /\ \E f \in Seq(Nat) : Holds(path, f)'
         /\ popped # <<>> => popped[1] = path
         /\ \/ popped # <<>> /\ EmptyComponents(path)
            \/ Shown' = IF popped = <<>> THEN Shown ELSE Last(popped)
<1> DEFINE K == Len(e)
           c == CutAt(path, e, K)
           l == Len(path)
           more == buf[c + 1] # EOS
<1>1. /\ c \in 2..l + 1 /\ c + 1 <= Len(buf) /\ FirstEnd(buf, c)
      /\ Shown = SubSeq(path, 1, c - 1) /\ Len(Shown) = c - 1
      /\ \A i \in 1..c - 1 : buf[i] = path[i]
  BY HoldsShown
<1>2. /\ path \in Seq(PathChars) /\ path # <<>> /\ l + 2 <= Len(buf)
      /\ e \in Seq(Nat) /\ Len(popped) = K /\ popped \in Seq(Seq(Bytes))
      /\ n \in 0..c - 1
  BY DEF Holds, Marked
<1>3. K \in Nat /\ l \in Nat /\ Len(buf) \in Nat /\ c \in Nat /\ l # 0
  BY <1>1, <1>2, EmptySeq, LenProperties DEF PathTypes
<1>4. popped = <<>> <=> K = 0
  BY <1>2, EmptySeq
<1>5. \A i \in 1..Len(buf) :
        buf[i] = IF i <= l /\ \A k \in 1..K : e[k] # i THEN path[i] ELSE EOS
  BY DEF Holds, Marked
<1>6. \A k \in 1..K : e[k] \in 2..l /\ path[e[k]] = "/" /\ e[k] \in Nat
  BY ElementOfSeq DEF Holds, Marked
<1>7. \A k \in 1..K : popped[k] = SubSeq(path, 1, CutAt(path, e, k - 1) - 1)
  BY DEF Holds
<1>8. \A j, k \in 1..K : j < k => e[k] < e[j]
  BY DEF Holds, Marked
<1>9. popped # <<>> => popped[1] = path
  <2> SUFFICES ASSUME popped # <<>> PROVE popped[1] = path
    OBVIOUS
  <2>1. 1 \in 1..K /\ CutAt(path, e, 1 - 1) - 1 = l
    BY <1>3, <1>4 DEF CutAt
  <2>2. popped[1] = SubSeq(path, 1, l)
    BY <1>7, <2>1
  <2>3. SubSeq(path, 1, l) = path
    <3> DEFINE x == SubSeq(path, 1, l)
    <3>1. x \in Seq(PathChars) /\ Len(x) = l /\ \A i \in 1..l : x[i] = path[i]
      BY <1>2, <1>3, UpToIs
    <3> HIDE DEF x
    <3>2. x = path
      BY <1>2, <3>1, SeqEqual
    <3> QED
      BY <3>2 DEF x
  <2> QED
    BY <2>2, <2>3
<1>10. /\ buf' = IF more THEN [buf EXCEPT ![c] = "/"] ELSE buf
       /\ n' = Len(StringIn(buf')) - (c - 1)
       /\ popped' = IF more /\ popped # <<>> THEN Front(popped) ELSE popped
  <2> DEFINE d == Len(Shown) + 1
  <2>1. d = c
    BY <1>1, <1>3
  <2>2. /\ buf' = IF buf[d + 1] # EOS THEN [buf EXCEPT ![d] = "/"] ELSE buf
        /\ n' = Len(StringIn(buf')) - (d - 1)
        /\ popped' = IF buf[d + 1] # EOS /\ popped # <<>> THEN Front(popped) ELSE popped
    BY DEF PathPush
  <2> HIDE DEF d, c
  <2> QED
    BY <2>1, <2>2
<1>11. Shown' = StringIn(buf')
  BY DEF Shown
<1>12. CASE ~more
  <2>1. buf' = buf /\ popped' = popped /\ Shown' = Shown /\ n' = 0
    BY <1>1, <1>3, <1>10, <1>11, <1>12 DEF Shown
  <2>2. Holds(path, e)'
    <3>1. 0 \in 0..c - 1
      BY <1>1, <1>3
    <3> QED
      BY <2>1, <3>1 DEF Holds, Marked, CutAt
  <2>3. ASSUME popped # <<>> PROVE EmptyComponents(path)
    <3>1. K \in 1..K /\ c = e[K]
      BY <1>3, <1>4, <2>3 DEF CutAt
    <3>2. c \in 1..l /\ path[c] = "/"
      <4>1. e[K] \in 2..l /\ path[e[K]] = "/"
        BY <1>6, <3>1
      <4> HIDE DEF K, c, l
      <4> QED
        BY <1>3, <3>1, <4>1
    <3>3. c # l => path[c + 1] = "/"
      <4> SUFFICES ASSUME c # l PROVE path[c + 1] = "/"
        OBVIOUS
      <4> DEFINE d == c + 1
      <4>1. d \in 1..Len(buf) /\ d \in 1..l /\ d <= l
        BY <1>1, <1>3, <3>2
      <4>2. buf[d] = EOS
        BY <1>12
      <4> HIDE DEF d
      <4>3. path[d] # EOS
        BY <1>2, <4>1, SlashIs, ElementOfSeq
      <4>4. PICK k \in 1..K : e[k] = d
        BY <1>5, <4>1, <4>2, <4>3
      <4>5. path[d] = "/"
        BY <1>6, <4>4
      <4> QED
        BY <4>5 DEF d
    <3> HIDE DEF c
    <3> QED
      BY <3>2, <3>3 DEF EmptyComponents
  <2> QED
    BY <1>2, <1>9, <2>1, <2>2, <2>3
<1>13. CASE more
  <2>1. K # 0
    <3> SUFFICES ASSUME K = 0 PROVE FALSE
      OBVIOUS
    <3>1. c + 1 = l + 2
      BY <1>3 DEF CutAt
    <3>2. l + 2 \in 1..Len(buf) /\ ~(l + 2 <= l)
      BY <1>2, <1>3
    <3>3. buf[l + 2] = EOS
      BY <1>5, <3>2
    <3> QED
      BY <1>13, <3>1, <3>3
  <2> DEFINE J == K - 1
  <2>2. J \in Nat /\ J \in 0..K /\ K \in 1..K /\ c = e[K] /\ K = J + 1 /\ popped # <<>>
    BY <1>3, <1>4, <2>1 DEF CutAt
  <2> HIDE DEF J
  <2> PICK f \in Seq(Nat) : Len(f) = J /\ \A k \in 1..J : f[k] = e[k]
    <3>1. SubSeq(e, 1, J) \in Seq(Nat) /\ Len(SubSeq(e, 1, J)) = J /\ \A k \in 1..J : SubSeq(e, 1, J)[k] = e[k]
      BY <1>2, <2>2, UpToIs
    <3> QED
      BY <3>1
  <2>3. \A k \in 1..J : k \in 1..K /\ k < K /\ f[k] = e[k] /\ c < f[k] /\ f[k] \in Nat
    <3> SUFFICES ASSUME NEW k \in 1..J PROVE k \in 1..K /\ k < K /\ f[k] = e[k] /\ c < f[k] /\ f[k] \in Nat
      OBVIOUS
    <3>1. k \in 1..K /\ k < K
      BY <2>2
    <3>2. e[K] < e[k]
      BY <1>8, <2>2, <3>1
    <3> HIDE DEF c, K
    <3> QED
      BY <1>6, <2>2, <3>1, <3>2
  <2>4. /\ popped' \in Seq(Seq(Bytes)) /\ Len(popped') = J /\ \A k \in 1..J : popped'[k] = popped[k]
    <3>1. popped' = SubSeq(popped, 1, Len(popped) - 1)
      BY <1>10, <1>13, <2>2 DEF Front
    <3>2. Len(popped) - 1 = J
      BY <1>2, <2>2
    <3>3. J \in 0..Len(popped)
      BY <1>2, <2>2
    <3> QED
      BY <1>2, <3>1, <3>2, <3>3, UpToIs
  <2>5. c \in 1..Len(buf) /\ c \in 2..l /\ path[c] = "/"
    <3>1. e[K] \in 2..l /\ path[e[K]] = "/"
      BY <1>6, <2>2
    <3> HIDE DEF c, l, K
    <3> QED
      BY <1>1, <1>3, <2>2, <3>1
  <2>6. Len(buf') = Len(buf) /\ buf' = [buf EXCEPT ![c] = "/"] /\ DOMAIN buf = 1..Len(buf) /\ buf' \in Seq(Bytes)
    BY <1>10, <1>13, PopTypes, LenProperties DEF PathTypes
  <2>7. \A k \in 0..J : CutAt(path, f, k) = CutAt(path, e, k)
    <3> SUFFICES ASSUME NEW k \in 0..J PROVE CutAt(path, f, k) = CutAt(path, e, k)
      OBVIOUS
    <3>1. k = 0 \/ k \in 1..J
      BY <2>2
    <3> QED
      BY <2>3, <3>1 DEF CutAt
  <2> HIDE DEF c, l, K
  <2>8. \A i \in 1..Len(buf) :
          buf'[i] = IF i <= l /\ \A k \in 1..J : f[k] # i THEN path[i] ELSE EOS
    <3> SUFFICES ASSUME NEW i \in 1..Len(buf)
                 PROVE  buf'[i] = IF i <= l /\ \A k \in 1..J : f[k] # i THEN path[i] ELSE EOS
      OBVIOUS
    <3>1. CASE i = c
      <4>1. i <= l /\ \A k \in 1..J : f[k] # i
        BY <1>3, <2>3, <2>5, <3>1
      <4> QED
        BY <2>5, <2>6, <3>1, <4>1
    <3>2. CASE i # c
      <4>1. buf'[i] = buf[i]
        BY <2>6, <3>2
      <4>2. (\A k \in 1..J : f[k] # i) <=> \A k \in 1..K : e[k] # i
        <5>1. \A k \in 1..K : k \in 1..J \/ k = K
          BY <1>3, <2>2
        <5> QED
          BY <2>2, <2>3, <3>2, <5>1
      <4> QED
        BY <1>5, <4>1, <4>2
    <3> QED
      BY <3>1, <3>2
  <2>9. Marked(buf', path, f)
    <3>1. \A k \in 1..J : f[k] \in 2..l /\ path[f[k]] = "/"
      BY <1>6, <2>3
    <3>2. \A j, k \in 1..J : j < k => f[k] < f[j]
      BY <1>8, <2>3
    <3> QED
      BY <1>2, <2>6, <2>8, <3>1, <3>2 DEF Marked, l
  <2>10. /\ StringIn(buf') = SubSeq(path, 1, CutAt(path, f, J) - 1)
         /\ Len(StringIn(buf')) = CutAt(path, f, J) - 1
    <3>1. Len(f) = J
      OBVIOUS
    <3> QED
      <4> DEFINE b == buf'
      <4>1. b \in Seq(Bytes) /\ Marked(b, path, f)
        BY <2>6, <2>9
      <4> HIDE DEF b
      <4>2. /\ StringIn(b) = SubSeq(path, 1, CutAt(path, f, Len(f)) - 1)
            /\ Len(StringIn(b)) = CutAt(path, f, Len(f)) - 1
        BY <4>1, MarkedShown
      <4> QED
        BY <3>1, <4>2 DEF b
  <2>11. Holds(path, f)'
    <3>1. \A k \in 1..J : popped'[k] = SubSeq(path, 1, CutAt(path, f, k - 1) - 1)
      <4> SUFFICES ASSUME NEW k \in 1..J PROVE popped'[k] = SubSeq(path, 1, CutAt(path, f, k - 1) - 1)
        OBVIOUS
      <4>1. k - 1 \in 0..J
        BY <2>2
      <4> QED
        BY <1>7, <2>3, <2>4, <2>7, <4>1
    <3>2. n' \in 0..CutAt(path, f, J) - 1
      <4> DEFINE d == CutAt(path, f, J)
      <4>1. d = l + 1 \/ (J \in 1..J /\ d = f[J])
        BY <2>2 DEF CutAt, l
      <4>2. d \in Nat /\ c < d
        <5> HIDE DEF d
        <5> QED
          BY <1>3, <2>3, <2>5, <4>1
      <4>3. n' = (d - 1) - (c - 1)
        BY <1>10, <2>10
      <4> HIDE DEF d
      <4>4. n' \in 0..d - 1
        BY <1>3, <2>5, <4>2, <4>3
      <4> QED
        BY <4>4 DEF d
    <3>3. Len(f) = J
      OBVIOUS
    <3> QED
      BY <2>4, <2>9, <3>1, <3>2, <3>3 DEF Holds, Marked, CutAt
  <2>12. Shown' = Last(popped)
    <3>1. popped[K] = SubSeq(path, 1, CutAt(path, e, K - 1) - 1)
      BY <1>7, <2>2
    <3>2. K - 1 = J /\ J \in 0..J
      BY <2>2
    <3>3. CutAt(path, e, K - 1) = CutAt(path, f, J)
      BY <2>7, <3>2
    <3>4. popped[K] = StringIn(buf')
      BY <2>10, <3>1, <3>3
    <3>5. Last(popped) = popped[K]
      BY <1>2 DEF Last
    <3> QED
      BY <1>11, <3>4, <3>5
  <2> QED
    BY <1>9, <2>2, <2>11, <2>12
<1> QED
  BY <1>12, <1>13

-----------------------------------------------------------------------------
(* path_canon()                                                            *)

\* A recursion over places has a function that obeys it.
\* F stays in X, and g is what it makes of b, step by step.
Stays(F, X, a, N) == \A v \in X, i \in a..N : F[<<v, i>>] \in X
Solves(g, F, a, N, b) == \A i \in a..N : g[i] = IF i = a THEN b ELSE F[<<g[i - 1], i>>]

\* What a recursion along numbers asks for, there is.
LEMMA Recursion ==
  ASSUME NEW X, NEW a \in Nat, NEW N \in Nat, a <= N, NEW b \in X, NEW F, Stays(F, X, a, N)
  PROVE  \E g \in [a..N -> X] : Solves(g, F, a, N, b)
<1> USE DEF Stays
<1> DEFINE Obeys(g, m) == \A i \in a..m : g[i] = IF i = a THEN b ELSE F[<<g[i - 1], i>>]
           Bad == {m \in a..N : ~\E g \in [a..m -> X] : Obeys(g, m)}
<1>1. Bad = {}
  <2> SUFFICES ASSUME Bad # {} PROVE FALSE
    OBVIOUS
  <2>1. PICK m \in Bad : \A l \in Bad : ~(<<l, m>> \in OpToRel(<, Nat))
    <3>1. Bad \subseteq Nat
      OBVIOUS
    <3> HIDE DEF Bad
    <3> QED
      BY <3>1, NatLessThanWellFounded, WFMin
  <2>2. m \in a..N /\ m \in Nat /\ ~\E g \in [a..m -> X] : Obeys(g, m)
    OBVIOUS
  <2>3. CASE m = a
    <3> DEFINE g == [i \in a..a |-> b]
    <3>1. g \in [a..m -> X] /\ \A i \in a..m : i = a /\ g[i] = b
      BY <2>3
    <3> HIDE DEF g
    <3>2. Obeys(g, m)
      BY <3>1
    <3> QED
      BY <2>2, <3>1, <3>2
  <2>4. CASE m # a
    <3> DEFINE l == m - 1
    <3>1. l \in a..N /\ l \in Nat /\ l < m /\ l + 1 = m /\ m \in a..N
      BY <2>2, <2>4
    <3>2. <<l, m>> \in OpToRel(<, Nat)
      BY <2>2, <3>1 DEF OpToRel
    <3>3. PICK g \in [a..l -> X] : Obeys(g, l)
      <4> HIDE DEF Obeys, l
      <4> QED
        BY <2>1, <3>1, <3>2
    <3> DEFINE h == [i \in a..m |-> IF i = m THEN F[<<g[l], m>>] ELSE g[i]]
    <3> HIDE DEF l
    <3>4. \A i \in a..m : i = m \/ i \in a..l
      BY <2>2, <3>1
    <3>5. l \in a..l /\ g[l] \in X /\ \A i \in a..l : i # m /\ i \in a..m
      BY <2>2, <3>1
    <3>6. F[<<g[l], m>>] \in X
      BY <3>1, <3>5
    <3> HIDE DEF Bad, Obeys
    <3>7. h \in [a..m -> X] /\ h[m] = F[<<g[l], m>>] /\ \A i \in a..l : h[i] = g[i]
      BY <2>2, <3>4, <3>5, <3>6
    <3> HIDE DEF h
    <3> USE DEF Obeys
    <3>8. Obeys(h, m)
      <4> SUFFICES ASSUME NEW i \in a..m PROVE h[i] = IF i = a THEN b ELSE F[<<h[i - 1], i>>]
        OBVIOUS
      <4>1. CASE i = m
        <5>1. i # a /\ i - 1 = l
          BY <2>2, <2>4, <3>1, <4>1
        <5> QED
          BY <3>5, <3>7, <4>1, <5>1
      <4>2. CASE i \in a..l
        <5>1. h[i] = g[i] /\ g[i] = IF i = a THEN b ELSE F[<<g[i - 1], i>>]
          BY <3>3, <3>7, <4>2
        <5>2. i # a => i - 1 \in a..l
          BY <3>1, <4>2
        <5> QED
          BY <3>7, <5>1, <5>2
      <4> QED
        BY <3>4, <4>1, <4>2
    <3> QED
      BY <2>2, <3>7, <3>8
  <2> QED
    BY <2>3, <2>4
<1>2. N \in a..N
  OBVIOUS
<1> HIDE DEF Obeys
<1>3. \E g \in [a..N -> X] : Obeys(g, N)
  BY <1>1, <1>2
<1> QED
  BY <1>3 DEF Obeys, Solves

\* Wiping leaves a buffer of the same size.
LEMMA WipeTypes ==
  ASSUME PathTypes
  PROVE  WipeAll(buf) \in Seq(Bytes) /\ Len(WipeAll(buf)) = Len(buf)
<1> DEFINE L == Len(buf)
           X == [1..L -> Bytes]
           N == len + 1
           Next1(v, e) == IF e = N \/ v[e] = "/" THEN WipeComponent(v, e) ELSE v
           F == [p \in X \X (1..N) |-> Next1(p[1], p[2])]
           Step(p, e) == IF e = 1 THEN buf ELSE Next1(p[e - 1], e)
           w == CHOOSE w : w = [e \in 1..N |-> Step(w, e)]
<1>1. L \in Nat /\ len \in Nat /\ N \in Nat /\ 1 <= N /\ buf \in X
  BY LenProperties DEF PathTypes
<1>2. ASSUME NEW v \in X, NEW e PROVE Next1(v, e) \in X
  <2>1. \A from, to : Wiped(v, from, to) \in X
    <3> SUFFICES ASSUME NEW from, NEW to PROVE Wiped(v, from, to) \in X
      OBVIOUS
    <3>1. EOS \in Bytes
      BY DEF Bytes
    <3> QED
      BY <1>2, <3>1 DEF Wiped
  <2>2. WipeComponent(v, e) \in X
    BY <2>1 DEF WipeComponent
  <2> QED
    BY <2>2
<1>3. WipeAll(buf) = w[N]
  BY <1>1 DEF WipeAll
<1> HIDE DEF Next1, w, X
<1>4. \A v \in X, e \in 1..N : F[<<v, e>>] = Next1(v, e)
  OBVIOUS
<1> HIDE DEF F, N
<1>5. PICK g \in [1..N -> X] : \A e \in 1..N : g[e] = IF e = 1 THEN buf ELSE F[<<g[e - 1], e>>]
  <2> DEFINE one == 1
             b == buf
  <2>1. Stays(F, X, one, N)
    BY <1>2, <1>4 DEF Stays
  <2>2. one \in Nat /\ one <= N /\ b \in X
    BY <1>1
  <2> HIDE DEF one, b
  <2>3. \E g \in [one..N -> X] : Solves(g, F, one, N, b)
    BY <1>1, <2>1, <2>2, Recursion
  <2> QED
    BY <2>3 DEF one, b, Solves
<1>6. g = [e \in 1..N |-> Step(g, e)]
  <2>1. \A e \in 1..N : g[e] = Step(g, e)
    <3> SUFFICES ASSUME NEW e \in 1..N, e # 1 PROVE F[<<g[e - 1], e>>] = Next1(g[e - 1], e)
      BY <1>5
    <3>1. e - 1 \in 1..N
      BY <1>1
    <3> QED
      BY <1>4, <3>1
  <2> HIDE DEF Step
  <2> QED
    BY <2>1
<1>7. w = [e \in 1..N |-> Step(w, e)]
  <2> HIDE DEF Step
  <2> QED
    BY <1>6 DEF w
<1>8. \A e \in 1..N : w[e] = Step(w, e)
  <2> DEFINE G(x) == [e \in 1..N |-> Step(x, e)]
  <2>1. w = G(w) /\ \A e \in 1..N : G(w)[e] = Step(w, e)
    BY <1>7
  <2> HIDE DEF G, Step
  <2> QED
    BY <2>1
<1> DEFINE Bad == {e \in 1..N : w[e] \notin X}
<1>9. Bad = {}
  <2> SUFFICES ASSUME Bad # {} PROVE FALSE
    OBVIOUS
  <2>1. PICK e \in Bad : \A l \in Bad : ~(<<l, e>> \in OpToRel(<, Nat))
    <3>1. Bad \subseteq Nat
      BY <1>1
    <3> HIDE DEF Bad
    <3> QED
      BY <3>1, NatLessThanWellFounded, WFMin
  <2>2. e \in 1..N /\ e \in Nat /\ w[e] \notin X
    BY <1>1
  <2>3. e # 1
    BY <1>1, <1>8, <2>2
  <2>4. e - 1 \in 1..N /\ e - 1 \in Nat /\ e - 1 < e
    BY <1>1, <2>2, <2>3
  <2>5. <<e - 1, e>> \in OpToRel(<, Nat)
    BY <2>2, <2>4 DEF OpToRel
  <2>6. w[e - 1] \in X
    BY <2>1, <2>4, <2>5
  <2> QED
    BY <1>2, <1>8, <2>2, <2>3, <2>6
<1>10. w[N] \in X
  BY <1>1, <1>9
<1>11. w[N] \in [1..L -> Bytes]
  BY <1>10 DEF X
<1> DEFINE y == w[N]
<1>12. y \in [1..L -> Bytes]
  BY <1>11
<1> HIDE DEF y, L
<1>13. y \in Seq(Bytes) /\ Len(y) = L
  BY <1>1, <1>12
<1> QED
  BY <1>3, <1>13 DEF y, L

\* What is left moves to the front, and is not more than there was.
LEMMA CompactedIs ==
  ASSUME PathTypes, NEW b \in Seq(Bytes), Len(b) = Len(buf)
  PROVE  \E path \in Seq(PathChars) :
           /\ path # <<>> /\ Len(path) <= len
           /\ Compacted(b) \in Seq(Bytes) /\ Len(Compacted(b)) = Len(b)
           /\ \A i \in 1..Len(path) : Compacted(b)[i] = path[i]
           /\ Compacted(b)[Len(path) + 1] = EOS
<1> DEFINE L == Len(b)
           X == Seq(PathChars)
           N == len
           Next1(v, i) == IF b[i] = EOS THEN v ELSE Append(v, b[i])
           F == [p \in X \X (0..N) |-> IF p[2] = 0 THEN p[1] ELSE Next1(p[1], p[2])]
           Step(p, i) == IF i = 0 THEN <<>> ELSE IF b[i] = EOS THEN p[i - 1] ELSE Append(p[i - 1], b[i])
           w == CHOOSE w : w = [i \in 0..N |-> Step(w, i)]
           left == w[N]
           cut == IF left # <<>> /\ Last(left) = "/" THEN Front(left) ELSE left
           path == IF cut = <<>> THEN <<"/">> ELSE cut
           C == [i \in DOMAIN b |-> IF i <= Len(path) THEN path[i]
                                    ELSE IF i <= Len(left) + 1 \/ i = Len(path) + 1 THEN EOS ELSE b[i]]
<1>1. L \in Nat /\ N \in Nat /\ 0 <= N /\ N # 0 /\ N + 2 <= L /\ DOMAIN b = 1..L /\ <<>> \in X
  BY LenProperties DEF PathTypes
<1>2. \A i \in 1..N : b[i] # EOS => b[i] \in PathChars
  <2> SUFFICES ASSUME NEW i \in 1..N, b[i] # EOS PROVE b[i] \in PathChars
    OBVIOUS
  <2>1. i \in 1..Len(b)
    BY <1>1
  <2>2. b[i] \in Bytes
    BY <2>1, ElementOfSeq
  <2> QED
    BY <2>2 DEF Bytes
<1>3. Compacted(b) = C
  BY DEF Compacted
<1> HIDE DEF C, w
<1>4. ASSUME NEW v \in X, NEW i \in 1..N
      PROVE  Next1(v, i) \in X /\ Len(Next1(v, i)) \in Nat /\ Len(Next1(v, i)) <= Len(v) + 1
  <2>1. CASE b[i] = EOS
    BY <2>1, LenProperties
  <2>2. CASE b[i] # EOS
    <3>1. b[i] \in PathChars
      BY <1>2, <2>2
    <3>2. Append(v, b[i]) \in X /\ Len(Append(v, b[i])) = Len(v) + 1 /\ Len(v) \in Nat
      BY <3>1, AppendProperties, LenProperties
    <3> HIDE DEF X
    <3> QED
      BY <2>2, <3>2
  <2> QED
    BY <2>1, <2>2
<1>5. \A p, i : Step(p, i) = IF i = 0 THEN <<>> ELSE Next1(p[i - 1], i)
  OBVIOUS
<1> HIDE DEF Next1, X, Step
<1>6. \A v \in X, i \in 0..N : F[<<v, i>>] = IF i = 0 THEN v ELSE Next1(v, i)
  OBVIOUS
<1> HIDE DEF F
<1>7. PICK g \in [0..N -> X] : \A i \in 0..N : g[i] = IF i = 0 THEN <<>> ELSE F[<<g[i - 1], i>>]
  <2> DEFINE nil == <<>>
             zero == 0
  <2>1. Stays(F, X, zero, N)
    <3> USE DEF Stays
    <3> SUFFICES ASSUME NEW v \in X, NEW i \in 0..N PROVE F[<<v, i>>] \in X
      OBVIOUS
    <3>1. i # 0 => i \in 1..N
      BY <1>1
    <3> QED
      BY <1>4, <1>6, <3>1
  <2>2. zero \in Nat /\ zero <= N /\ nil \in X
    BY <1>1
  <2> HIDE DEF zero, nil, N
  <2>3. \E g \in [zero..N -> X] : Solves(g, F, zero, N, nil)
    BY <1>1, <2>1, <2>2, Recursion
  <2> QED
    BY <2>3 DEF zero, nil, Solves
<1>8. g = [i \in 0..N |-> Step(g, i)]
  <2>1. \A i \in 0..N : g[i] = Step(g, i)
    <3> SUFFICES ASSUME NEW i \in 0..N, i # 0 PROVE F[<<g[i - 1], i>>] = Next1(g[i - 1], i)
      BY <1>5, <1>7
    <3>1. i - 1 \in 0..N
      BY <1>1
    <3> QED
      BY <1>6, <3>1
  <2> QED
    BY <2>1
<1>9. w = [i \in 0..N |-> Step(w, i)]
  BY <1>8 DEF w
<1>10. \A i \in 0..N : w[i] = Step(w, i)
  <2> DEFINE G(x) == [i \in 0..N |-> Step(x, i)]
  <2>1. w = G(w) /\ \A i \in 0..N : G(w)[i] = Step(w, i)
    BY <1>9
  <2> HIDE DEF G
  <2> QED
    BY <2>1
<1> DEFINE Short(i) == w[i] \in X /\ Len(w[i]) \in Nat /\ Len(w[i]) <= i
           Bad == {i \in 0..N : ~Short(i)}
<1>11. Bad = {}
  <2> SUFFICES ASSUME Bad # {} PROVE FALSE
    OBVIOUS
  <2>1. PICK i \in Bad : \A l \in Bad : ~(<<l, i>> \in OpToRel(<, Nat))
    <3>1. Bad \subseteq Nat
      BY <1>1
    <3> HIDE DEF Bad
    <3> QED
      BY <3>1, NatLessThanWellFounded, WFMin
  <2>2. i \in 0..N /\ i \in Nat /\ ~(w[i] \in X /\ Len(w[i]) \in Nat /\ Len(w[i]) <= i)
    BY <1>1
  <2>3. i # 0
    BY <1>1, <1>5, <1>10, <2>2
  <2>4. i - 1 \in 0..N /\ i - 1 \in Nat /\ i - 1 < i /\ i \in 1..N
    BY <1>1, <2>2, <2>3
  <2>5. <<i - 1, i>> \in OpToRel(<, Nat)
    BY <2>2, <2>4 DEF OpToRel
  <2>6. w[i - 1] \in X /\ Len(w[i - 1]) \in Nat /\ Len(w[i - 1]) <= i - 1
    BY <2>1, <2>4, <2>5
  <2>7. w[i] = Next1(w[i - 1], i)
    BY <1>5, <1>10, <2>2, <2>3
  <2>8. w[i] \in X /\ Len(w[i]) \in Nat /\ Len(w[i]) <= Len(w[i - 1]) + 1
    BY <1>4, <2>4, <2>6, <2>7
  <2> QED
    BY <2>2, <2>6, <2>8
<1>12. left \in Seq(PathChars) /\ Len(left) \in Nat /\ Len(left) <= N
  <2>1. N \in 0..N
    BY <1>1
  <2> HIDE DEF Short, N
  <2>2. Short(N)
    BY <1>11, <2>1
  <2> QED
    BY <2>2 DEF Short, X
<1> HIDE DEF left, N
<1>13. cut \in Seq(PathChars) /\ Len(cut) \in Nat /\ Len(cut) <= Len(left)
  <2>1. CASE left # <<>> /\ Last(left) = "/"
    <3> DEFINE k == Len(left) - 1
    <3>1. k \in 0..Len(left)
      BY <1>12, <2>1, EmptySeq
    <3>2. cut = SubSeq(left, 1, k)
      BY <2>1 DEF Front
    <3> HIDE DEF k
    <3>3. SubSeq(left, 1, k) \in Seq(PathChars) /\ Len(SubSeq(left, 1, k)) = k
      BY <1>12, <3>1, UpToIs
    <3> HIDE DEF cut
    <3> QED
      BY <1>12, <3>1, <3>2, <3>3
  <2>2. CASE ~(left # <<>> /\ Last(left) = "/")
    BY <1>12, <2>2
  <2> QED
    BY <2>1, <2>2
<1> HIDE DEF cut
<1>14. path \in Seq(PathChars) /\ path # <<>> /\ Len(path) \in Nat /\ Len(path) <= N
  <2>1. CASE cut = <<>>
    <3> DEFINE x == "/"
               o == <<x>>
    <3>1. x \in PathChars
      BY SlashIs
    <3> HIDE DEF x
    <3>2. o \in Seq(PathChars) /\ o # <<>> /\ Len(o) = 1
      BY <3>1
    <3>3. path = o
      BY <2>1 DEF x
    <3> HIDE DEF path, o
    <3> QED
      BY <1>1, <3>2, <3>3
  <2>2. CASE cut # <<>>
    <3>1. path = cut
      BY <2>2
    <3> HIDE DEF path
    <3> QED
      BY <1>1, <1>12, <1>13, <2>2, <3>1
  <2> QED
    BY <2>1, <2>2
<1> HIDE DEF path
<1> DEFINE l == Len(path)
           m == Len(left)
           A(i) == IF i <= l THEN path[i] ELSE IF i <= m + 1 \/ i = l + 1 THEN EOS ELSE b[i]
<1>15. C = [i \in 1..L |-> A(i)]
  BY <1>1 DEF C
<1>16. \A i \in 1..L : A(i) \in Bytes
  <2> SUFFICES ASSUME NEW i \in 1..L PROVE A(i) \in Bytes
    OBVIOUS
  <2>1. i <= l => path[i] \in Bytes
    <3> SUFFICES ASSUME i <= l PROVE path[i] \in Bytes
      OBVIOUS
    <3>1. i \in 1..l
      BY <1>1, <1>14
    <3>2. path[i] \in PathChars
      BY <1>14, <3>1, ElementOfSeq
    <3> QED
      BY <3>2 DEF Bytes
  <2>2. b[i] \in Bytes
    BY ElementOfSeq
  <2> QED
    BY <2>1, <2>2 DEF Bytes
<1> HIDE DEF L
<1>17. l \in Nat /\ l <= N /\ l + 1 \in 1..L /\ ~(l + 1 <= l) /\ \A i \in 1..l : i \in 1..L /\ i <= l
  BY <1>1, <1>14
<1>18. A(l + 1) = EOS /\ \A i \in 1..l : A(i) = path[i]
  BY <1>17
<1> HIDE DEF A, l
<1>19. /\ C \in Seq(Bytes) /\ Len(C) = L
       /\ \A i \in 1..l : C[i] = path[i]
       /\ C[l + 1] = EOS
  BY <1>1, <1>15, <1>16, <1>17, <1>18
<1> QED
  BY <1>3, <1>14, <1>19 DEF l, L, N

\* Where nothing was popped.
LEMMA NoNumbers == \E e \in Seq(Nat) : e = <<>> /\ Len(e) = 0
<1>1. <<>> \in Seq(Nat) /\ Len(<<>>) = 0
  BY EmptySeq
<1> QED
  BY <1>1, Zenon

\* A path in its canonical form has no slash popped, and p->n at its end
\* (src/path.c:66-104).
LEMMA CanonKeeps ==
  ASSUME PathTypes, PathCanon
  PROVE  /\ PathTypes' /\ (~residue' => \E path \in Seq(PathChars), e \in Seq(Nat) : Holds(path, e)')
         /\ \E c \in Nat : c >= 2 /\ FirstEnd(buf', c) /\ n' = c - 1
<1> DEFINE C == Compacted(WipeAll(buf))
<1>1. PICK path \in Seq(PathChars) :
        /\ path # <<>> /\ Len(path) <= len
        /\ C \in Seq(Bytes) /\ Len(C) = Len(buf)
        /\ \A i \in 1..Len(path) : C[i] = path[i]
        /\ C[Len(path) + 1] = EOS
  <2> DEFINE b == WipeAll(buf)
  <2>1. b \in Seq(Bytes) /\ Len(b) = Len(buf)
    BY WipeTypes
  <2> HIDE DEF b
  <2>2. \E path \in Seq(PathChars) :
           /\ path # <<>> /\ Len(path) <= len
           /\ Compacted(b) \in Seq(Bytes) /\ Len(Compacted(b)) = Len(b)
           /\ \A i \in 1..Len(path) : Compacted(b)[i] = path[i]
           /\ Compacted(b)[Len(path) + 1] = EOS
    BY <2>1, CompactedIs
  <2> QED
    BY <2>1, <2>2 DEF b
<1>2. /\ buf' = C /\ n' = Len(StringIn(C)) /\ len' = Len(StringIn(C)) /\ popped' = <<>>
      /\ residue' = \E i \in DOMAIN buf : i > n' /\ C[i] # EOS
  BY DEF PathCanon
<1> HIDE DEF C
<1> DEFINE l == Len(path)
           c == l + 1
<1>3. l \in Nat /\ l # 0 /\ len \in Nat /\ len + 2 <= Len(buf) /\ Len(buf) \in Nat /\ DOMAIN buf = 1..Len(buf)
  BY <1>1, EmptySeq, LenProperties DEF PathTypes
<1>4. FirstEnd(C, c)
  <2>1. \A i \in 1..l : path[i] # EOS
    BY SlashIs, ElementOfSeq
  <2>2. c \in 1..Len(C) /\ c - 1 = l
    BY <1>1, <1>3
  <2> HIDE DEF l
  <2> QED
    BY <1>1, <2>1, <2>2 DEF FirstEnd, l
<1>5. Len(StringIn(C)) = c - 1 /\ c - 1 = l
  BY <1>1, <1>3, <1>4, StringInIs
<1>6. buf' \in Seq(Bytes) /\ Len(buf') = Len(buf) /\ n' = l /\ len' = l
  BY <1>1, <1>2, <1>5
<1>7. l + 2 <= Len(buf)
  BY <1>1, <1>3
<1>8. PathTypes'
  BY <1>3, <1>6, <1>7 DEF PathTypes
<1>9. ASSUME ~residue'
      PROVE  \E e \in Seq(Nat) : Holds(path, e)'
  <2>1. \A i \in 1..Len(buf) : i > l => C[i] = EOS
    BY <1>2, <1>3, <1>6, <1>9
  <2>2. \A i \in 1..Len(buf) : C[i] = IF i <= l THEN path[i] ELSE EOS
    <3> SUFFICES ASSUME NEW i \in 1..Len(buf) PROVE C[i] = IF i <= l THEN path[i] ELSE EOS
      OBVIOUS
    <3>1. i <= l => i \in 1..l
      BY <1>3
    <3>2. ~(i <= l) => i > l
      BY <1>3
    <3> QED
      BY <1>1, <2>1, <3>1, <3>2
  <2> PICK e \in Seq(Nat) : e = <<>> /\ Len(e) = 0
    BY NoNumbers
  <2>3. \A k \in 1..Len(e) : FALSE
    OBVIOUS
  <2>4. Marked(buf', path, e)
    BY <1>1, <1>2, <1>6, <1>7, <2>2, <2>3 DEF Marked
  <2>5. n' \in 0..CutAt(path, e, Len(e)) - 1
    BY <1>3, <1>6 DEF CutAt
  <2>6. Holds(path, e)'
    BY <1>2, <2>3, <2>4, <2>5 DEF Holds, Marked, CutAt
  <2> QED
    BY <2>6
<1>10. c \in Nat /\ c >= 2 /\ FirstEnd(buf', c) /\ n' = c - 1
  <2>1. FirstEnd(buf', c)
    BY <1>2, <1>4
  <2> QED
    BY <1>3, <1>5, <1>6, <2>1
<1> HIDE DEF c
<1>11. \E d \in Nat : d >= 2 /\ FirstEnd(buf', d) /\ n' = d - 1
  BY <1>10
<1> QED
  BY <1>8, <1>9, <1>11

-----------------------------------------------------------------------------
(* The theorem                                                             *)

\* A new path is in its buffer alone, with p->n at its end (src/path.c:35-52).
LEMMA PathStart ==
  PathInit => PathInv /\ \E c \in Nat : c >= 2 /\ FirstEnd(buf, c) /\ n = c - 1
<1> SUFFICES ASSUME PathInit
             PROVE  PathInv /\ \E c \in Nat : c >= 2 /\ FirstEnd(buf, c) /\ n = c - 1
  OBVIOUS
<1>0. PICK l \in 1..MaxPath :
        \E s \in [1..l -> PathChars] : buf = s \o <<EOS, EOS>> /\ n = l /\ len = l
  BY DEF PathInit
<1>1. PICK s \in [1..l -> PathChars] : buf = s \o <<EOS, EOS>> /\ n = l /\ len = l
  BY <1>0
<1>2. popped = <<>> /\ residue = FALSE /\ pushed = FALSE
  BY DEF PathInit
<1>3. l \in Nat \ {0} /\ MaxPath \in Nat
  BY PathAssumption
<1>4. s \in Seq(PathChars) /\ Len(s) = l
  BY <1>3
<1>5. s \in Seq(Bytes)
  BY <1>3 DEF Bytes
<1> DEFINE t == <<EOS, EOS>>
<1>6. t \in Seq(Bytes) /\ Len(t) = 2 /\ t[1] = EOS /\ t[2] = EOS
  BY DEF Bytes
<1>7. buf = s \o t
  BY <1>1
<1> HIDE DEF t
<1>8. buf \in Seq(Bytes) /\ Len(buf) = l + 2
      /\ \A i \in 1..l + 2 : buf[i] = IF i <= l THEN s[i] ELSE t[i - l]
  <2> DEFINE c == s \o t
  <2>1. c \in Seq(Bytes) /\ Len(c) = Len(s) + Len(t)
        /\ \A i \in 1..Len(s) + Len(t) : c[i] = IF i <= Len(s) THEN s[i] ELSE t[i - Len(s)]
    BY <1>5, <1>6, ConcatProperties
  <2> HIDE DEF c
  <2> QED
    BY <1>4, <1>6, <1>7, <2>1 DEF c
<1>9. \A i \in 1..l + 2 : buf[i] = IF i <= l THEN s[i] ELSE EOS
  <2> SUFFICES ASSUME NEW i \in 1..l + 2, ~(i <= l) PROVE t[i - l] = EOS
    BY <1>8
  <2>1. i - l = 1 \/ i - l = 2
    BY <1>3
  <2> QED
    BY <1>6, <2>1
<1>10. PathTypes
  BY <1>1, <1>3, <1>8 DEF PathTypes
<1> PICK e \in Seq(Nat) : e = <<>> /\ Len(e) = 0
  BY NoNumbers
<1>11. \A k \in 1..Len(e) : FALSE
  OBVIOUS
<1>12. Marked(buf, s, e)
  <2>1. s # <<>>
    BY <1>3, <1>4
  <2> QED
    BY <1>3, <1>4, <1>8, <1>9, <1>11, <2>1 DEF Marked
<1>13. n \in 0..CutAt(s, e, Len(e)) - 1
  BY <1>1, <1>3, <1>4 DEF CutAt
<1>14. Holds(s, e)
  BY <1>2, <1>11, <1>12, <1>13 DEF Holds
<1>15. FirstEnd(buf, l + 1)
  <2> DEFINE c == l + 1
  <2>1. c \in 1..l + 2 /\ ~(c <= l) /\ c - 1 = l
    BY <1>3
  <2>2. \A i \in 1..l : i \in 1..l + 2 /\ i <= l /\ s[i] # EOS
    BY <1>3, SlashIs
  <2> HIDE DEF c
  <2>3. FirstEnd(buf, c)
    BY <1>8, <1>9, <2>1, <2>2 DEF FirstEnd
  <2> QED
    BY <2>3 DEF c
<1>16. \E c \in Nat : c >= 2 /\ FirstEnd(buf, c) /\ n = c - 1
  <2> DEFINE c == l + 1
  <2>1. c \in Nat /\ c >= 2 /\ FirstEnd(buf, c) /\ n = c - 1
    BY <1>1, <1>3, <1>15
  <2> HIDE DEF c
  <2> QED
    BY <2>1
<1> QED
  BY <1>4, <1>10, <1>14, <1>16 DEF PathInv

\* Every call leaves the invariant true.
LEMMA PathKeeps ==
  ASSUME PathInv, [PathNext]_pathVars
  PROVE  PathInv'
<1>1. CASE UNCHANGED pathVars
  BY <1>1 DEF PathInv, PathTypes, pathVars, Holds, Marked, CutAt
<1>2. CASE PathCanon
  <2>1. PathTypes' /\ (~residue' => \E path \in Seq(PathChars), e \in Seq(Nat) : Holds(path, e)')
    BY <1>2, CanonKeeps DEF PathInv
  <2> QED
    BY <2>1 DEF PathInv
<1>3. CASE PathPop \/ PathPush
  <2>1. PathTypes' /\ residue' = residue
    BY <1>3, PopTypes DEF PathInv
  <2>2. ASSUME ~residue PROVE \E path \in Seq(PathChars), e \in Seq(Nat) : Holds(path, e)'
    <3>1. PICK path \in Seq(PathChars), e \in Seq(Nat) : Holds(path, e)
      BY <2>2 DEF PathInv
    <3>2. \E f \in Seq(Nat) : Holds(path, f)'
      BY <1>3, <3>1, PopKeeps, PushKeeps DEF PathInv
    <3> QED
      BY <3>2
  <2> QED
    BY <2>1, <2>2 DEF PathInv
<1> QED
  BY <1>1, <1>2, <1>3 DEF PathNext

\* path_push() undoes one path_pop(), and without one changes nothing, in any
\* order of calls of a path of any length, unless components are empty or
\* path_canon() has left bytes behind the path (src/path.c:106-126).
THEOREM PushesUndoPops == PathSpec => PushUndoesPop
<1> DEFINE Right ==
      PathPush => \/ residue
                  \/ EmptyComponents(Shown \o <<"a">>) \/ EmptyComponents(Shown)
                  \/ popped # <<>> /\ EmptyComponents(popped[1])
                  \/ Shown' = IF popped = <<>> THEN Shown ELSE Last(popped)
<1>1. PathInit => PathInv
  BY PathStart
<1>2. PathInv /\ [PathNext]_pathVars => PathInv'
  BY PathKeeps
<1>3. PathInv => Right
  <2> SUFFICES ASSUME PathInv, PathPush, ~residue
               PROVE  \/ popped # <<>> /\ EmptyComponents(popped[1])
                      \/ Shown' = IF popped = <<>> THEN Shown ELSE Last(popped)
    OBVIOUS
  <2>1. PICK path \in Seq(PathChars), e \in Seq(Nat) : Holds(path, e)
    BY DEF PathInv
  <2>2. /\ popped # <<>> => popped[1] = path
        /\ \/ popped # <<>> /\ EmptyComponents(path)
           \/ Shown' = IF popped = <<>> THEN Shown ELSE Last(popped)
    BY <2>1, PushKeeps DEF PathInv
  <2> QED
    BY <2>2
<1>4. PathInv => [Right]_pathVars
  BY <1>3
<1> HIDE DEF Right
<1>5. PathSpec => [][Right]_pathVars
  BY <1>1, <1>2, <1>4, PTL DEF PathSpec
<1> QED
  BY <1>5 DEF PushUndoesPop, Right

-----------------------------------------------------------------------------
(* Pops without a push                                                     *)

\* c is where the path ends, and p->n is there, or down to nothing because no slash
\* is left behind the first character.
EndsAt(c) ==
  /\ c \in Nat /\ c >= 2 /\ FirstEnd(buf, c)
  /\ n = c - 1 \/ (n = 0 /\ \A i \in 2..c - 1 : buf[i] # "/")

PopInv == PathTypes /\ (~pushed => \E c : EndsAt(c))

\* From the end of the path the last slash up to p->n is the last of all.
LEMMA PopTakes ==
  ASSUME PathTypes, NEW c, EndsAt(c), PathPop
  PROVE  LastTaken /\ \E d : EndsAt(d)'
<1> DEFINE front == SubSeq(buf, 1, n + 1)
           s == SlashBefore(front, n + 2, 1)
           t == SlashBefore(Shown, Len(Shown) + 1, 1)
<1>1. /\ c \in Nat /\ c >= 2 /\ Len(buf) \in Nat /\ c <= Len(buf) /\ DOMAIN buf = 1..Len(buf)
      /\ buf[c] = EOS /\ n \in Nat /\ n <= c - 1
      /\ \A i \in 1..c - 1 : buf[i] # EOS
  BY LenProperties DEF PathTypes, EndsAt, FirstEnd
<1>2. /\ Shown = SubSeq(buf, 1, c - 1) /\ Shown \in Seq(Bytes) /\ Len(Shown) = c - 1
      /\ \A i \in 1..c - 1 : Shown[i] = buf[i]
  BY StringInIs DEF Shown, PathTypes, EndsAt
<1>3. \A i \in 1..n + 1 : front[i] = buf[i]
  <2> DEFINE k == n + 1
  <2>1. k \in 0..Len(buf)
    BY <1>1
  <2> HIDE DEF k
  <2>2. \A i \in 1..k : SubSeq(buf, 1, k)[i] = buf[i]
    BY <2>1, UpToIs DEF PathTypes
  <2> QED
    BY <2>2 DEF k
<1>4. /\ s = 1 \/ (s \in 1..n + 1 /\ front[s] = "/")
      /\ \A i \in 1..n + 1 : front[i] = "/" => i <= s
  <2> DEFINE f == n + 2
  <2>1. f \in Nat \ {0} /\ f - 1 = n + 1
    BY <1>1
  <2> HIDE DEF f, front
  <2>2. LET u == SlashBefore(front, f, 1)
        IN /\ u = 1 \/ (u \in 1..f - 1 /\ front[u] = "/")
           /\ \A i \in 1..f - 1 : front[i] = "/" => i <= u
    BY <2>1, SlashBeforeIs
  <2> QED
    BY <2>1, <2>2 DEF f
<1>5. /\ t = 1 \/ (t \in 1..c - 1 /\ Shown[t] = "/")
      /\ \A i \in 1..c - 1 : Shown[i] = "/" => i <= t
  <2> DEFINE f == Len(Shown) + 1
             b == Shown
  <2>1. f \in Nat \ {0} /\ f - 1 = c - 1
    BY <1>1, <1>2
  <2> HIDE DEF f, b
  <2>2. LET u == SlashBefore(b, f, 1)
        IN /\ u = 1 \/ (u \in 1..f - 1 /\ b[u] = "/")
           /\ \A i \in 1..f - 1 : b[i] = "/" => i <= u
    BY <2>1, SlashBeforeIs
  <2> QED
    BY <2>1, <2>2 DEF f, b
<1>6. IF s > 1 THEN buf' = [buf EXCEPT ![s] = EOS] /\ n' = s - 1
      ELSE n' = 0 /\ buf' = buf
  BY DEF PathPop
<1>7. LastTaken <=> Shown' = IF t > 1 THEN SubSeq(Shown, 1, t - 1) ELSE Shown
  BY DEF LastTaken
<1> HIDE DEF s, t, front
<1>8. s = 1 \/ (s \in 1..c - 1 /\ s <= n /\ buf[s] = "/")
  <2> SUFFICES ASSUME s # 1 PROVE s \in 1..c - 1 /\ s <= n /\ buf[s] = "/"
    OBVIOUS
  <2>1. s \in 1..n + 1 /\ buf[s] = "/" /\ s <= c
    BY <1>1, <1>3, <1>4
  <2>2. s # c
    BY <1>1, <2>1, SlashIs
  <2>3. n = c - 1
    <3> SUFFICES ASSUME n = 0 PROVE FALSE
      BY DEF EndsAt
    <3> QED
      BY <2>1
  <2> QED
    BY <1>1, <2>1, <2>2, <2>3
<1>9. s = t
  <2>1. s \in Nat /\ t \in Nat /\ s >= 1 /\ t >= 1
    BY <1>1, <1>5, <1>8
  <2>2. s <= t
    <3>1. CASE s = 1
      BY <2>1, <3>1
    <3>2. CASE s # 1
      BY <1>2, <1>5, <1>8, <3>2
    <3> QED
      BY <3>1, <3>2
  <2>3. t <= s
    <3>1. CASE t = 1
      BY <2>1, <3>1
    <3>2. CASE t # 1
      <4>1. t \in 1..c - 1 /\ buf[t] = "/"
        BY <1>2, <1>5, <3>2
      <4>2. n = c - 1
        <5>1. t \in 2..c - 1
          BY <1>1, <3>2, <4>1
        <5> QED
          BY <4>1, <5>1 DEF EndsAt
      <4>3. t \in 1..n + 1
        BY <1>1, <4>1, <4>2
      <4> QED
        BY <1>3, <1>4, <4>1, <4>3
    <3> QED
      BY <3>1, <3>2
  <2> QED
    BY <2>1, <2>2, <2>3
<1>10. CASE ~(s > 1)
  <2>1. n' = 0 /\ buf' = buf /\ Shown' = Shown
    BY <1>6, <1>10 DEF Shown
  <2>2. \A i \in 2..c - 1 : buf[i] # "/"
    <3> SUFFICES ASSUME NEW i \in 2..c - 1, buf[i] = "/" PROVE FALSE
      OBVIOUS
    <3>1. i \in 1..c - 1 /\ i > 1
      BY <1>1
    <3>2. i <= t
      BY <1>2, <1>5, <3>1
    <3>3. s \in Nat
      BY <1>1, <1>8
    <3> QED
      BY <1>9, <1>10, <3>1, <3>2, <3>3
  <2>3. EndsAt(c)'
    BY <2>1, <2>2 DEF EndsAt, FirstEnd
  <2> QED
    BY <1>7, <1>9, <1>10, <2>1, <2>3
<1>11. CASE s > 1
  <2>1. s \in 1..c - 1 /\ s \in Nat /\ s >= 2 /\ s \in 1..Len(buf)
    BY <1>1, <1>8, <1>11
  <2> DEFINE b == buf'
  <2>2. b \in Seq(Bytes) /\ Len(b) = Len(buf)
    BY PopTypes DEF PathTypes
  <2>3. b = [buf EXCEPT ![s] = EOS] /\ n' = s - 1 /\ Shown' = StringIn(b)
    BY <1>6, <1>11 DEF Shown
  <2> HIDE DEF b
  <2>4. b[s] = EOS /\ \A i \in 1..s - 1 : b[i] = buf[i] /\ i \in 1..c - 1
    BY <1>1, <2>1, <2>3
  <2>5. FirstEnd(b, s)
    BY <1>1, <2>1, <2>2, <2>4 DEF FirstEnd
  <2>6. /\ StringIn(b) \in Seq(Bytes) /\ Len(StringIn(b)) = s - 1
        /\ \A i \in 1..s - 1 : StringIn(b)[i] = b[i]
    BY <2>2, <2>5, StringInIs
  <2>7. StringIn(b) = SubSeq(Shown, 1, s - 1)
    <3> DEFINE k == s - 1
               x == StringIn(b)
               y == SubSeq(Shown, 1, k)
    <3>1. k \in 0..Len(Shown)
      BY <1>1, <1>2, <2>1
    <3> HIDE DEF k
    <3>2. y \in Seq(Bytes) /\ Len(y) = k /\ \A i \in 1..k : y[i] = Shown[i]
      BY <1>2, <3>1, UpToIs
    <3>3. x \in Seq(Bytes) /\ Len(x) = k /\ \A i \in 1..k : x[i] = Shown[i]
      BY <1>2, <2>4, <2>6 DEF k
    <3> HIDE DEF x, y
    <3>4. x = y
      BY <3>2, <3>3, SeqEqual
    <3> QED
      BY <3>4 DEF x, y, k
  <2>8. \E d : EndsAt(d)'
    <3>1. PICK d \in Nat : d = s
      BY <2>1
    <3>2. d \in Nat /\ d >= 2 /\ FirstEnd(buf', d) /\ n' = d - 1
      BY <2>1, <2>3, <2>5, <3>1 DEF b
    <3>3. EndsAt(d)'
      BY <3>2 DEF EndsAt, FirstEnd
    <3> QED
      BY <3>3
  <2> QED
    <3>1. Shown' = IF s > 1 THEN SubSeq(Shown, 1, s - 1) ELSE Shown
      BY <1>11, <2>3, <2>7
    <3>2. LastTaken
      BY <1>7, <1>9, <3>1, Zenon
    <3> QED
      BY <2>8, <3>2, Zenon
<1> QED
  BY <1>10, <1>11

\* path_pop() takes the last component and no other, of a path of any length and
\* whatever path_canon() has left behind it, as long as nothing was pushed since
\* the path was made or canonical (src/path.c:116-126).
THEOREM PopsTakeTheLast == PathSpec => PopsTakeLast
<1> DEFINE Right == PathPop => pushed \/ LastTaken
<1>1. PathInit => PopInv
  <2> SUFFICES ASSUME PathInit PROVE PopInv
    OBVIOUS
  <2>1. PathTypes
    BY PathStart DEF PathInv
  <2>2. PICK c \in Nat : c >= 2 /\ FirstEnd(buf, c) /\ n = c - 1
    BY PathStart
  <2> QED
    BY <2>1, <2>2 DEF PopInv, EndsAt
<1>2. PopInv /\ [PathNext]_pathVars => PopInv'
  <2> SUFFICES ASSUME PopInv, [PathNext]_pathVars PROVE PopInv'
    OBVIOUS
  <2>1. CASE UNCHANGED pathVars
    BY <2>1 DEF PopInv, PathTypes, pathVars, EndsAt, FirstEnd
  <2>2. CASE PathCanon
    <3>1. PathTypes' /\ \E c \in Nat : c >= 2 /\ FirstEnd(buf', c) /\ n' = c - 1
      BY <2>2, CanonKeeps DEF PopInv
    <3>2. PICK c \in Nat : c >= 2 /\ FirstEnd(buf', c) /\ n' = c - 1
      BY <3>1
    <3>3. EndsAt(c)'
      BY <3>2 DEF EndsAt, FirstEnd
    <3> QED
      BY <3>1, <3>3 DEF PopInv
  <2>3. CASE PathPush
    BY <2>3, PopTypes DEF PopInv, PathPush
  <2>4. CASE PathPop
    <3>1. PathTypes' /\ pushed' = pushed
      BY <2>4, PopTypes DEF PopInv, PathPop
    <3>2. ASSUME ~pushed PROVE \E d : EndsAt(d)'
      BY <2>4, <3>2, PopTakes DEF PopInv
    <3> QED
      BY <3>1, <3>2 DEF PopInv
  <2> QED
    BY <2>1, <2>2, <2>3, <2>4 DEF PathNext
<1>3. PopInv => Right
  BY PopTakes DEF PopInv
<1>4. PopInv => [Right]_pathVars
  BY <1>3
<1> HIDE DEF Right
<1>5. PathSpec => [][Right]_pathVars
  BY <1>1, <1>2, <1>4, PTL DEF PathSpec
<1> QED
  BY <1>5 DEF PopsTakeLast, Right
=============================================================================
