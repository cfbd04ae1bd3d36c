-------------------------------- MODULE Daemon ------------------------------
(***************************************************************************)
(* daemonize() of src/daemon.c, as several processes call it with one pid  *)
(* file: the parent that opens the file and waits for word of its child,   *)
(* the child that locks the file, writes its pid and becomes the daemon,   *)
(* and the environment that cleanenv() leaves it.                          *)
(***************************************************************************)
EXTENDS SequencesExt, Null

CONSTANTS
  Starts,     \* calls of daemonize(), by as many processes
  OfRoot,     \* those by root
  Words,      \* names of variables, and characters of the pid file
  PidText,    \* the digits of the pid of each one's child
  PidBuffer,  \* size of buf[] in daemonize()
  Keepers,    \* variables that are to stay
  EnvOf,      \* the environment of each process: names, in their order
  MaxFiles    \* bound: files that are made under the name of the pid file

ASSUME DaemonAssumption ==
  /\ NULL \notin Starts \cup {0, 2} \cup Seq(Words) /\ OfRoot \subseteq Starts
  /\ {"PWD", "HOME", "LOGNAME", "USER", "\n"} \subseteq Words
  /\ PidText \in [Starts -> Seq(Words)] /\ PidBuffer \in Nat
  /\ \A d \in Starts : Len(PidText[d]) \in 1..PidBuffer - 1 /\ "\n" \notin ToSet(PidText[d])
  /\ EnvOf \in [Starts -> Seq(Words)] /\ \A d \in Starts : IsInjective(EnvOf[d])
  /\ MaxFiles \in Nat \ {0}

VARIABLES
  parent,      \* where each parent is in daemonize()
  daemon,      \* where each child is
  exitStatus,  \* what the parent exited with
  environ,     \* the environment of parent and child
  ids,         \* whose user and group id the child has
  pidFile,     \* which file the name stands for, by number
  opened,      \* the file that a process has opened
  contents,    \* what is in each file; NULL when it was not made yet
  holder,      \* the child that has the lock on each file
  unwritten    \* history: children whose write() failed

daemonVars == <<parent, daemon, exitStatus, environ, ids, pidFile, opened, contents,
                holder, unwritten>>
fileVars == <<pidFile, opened, contents, holder, unwritten>>

DaemonTypeOK ==
  /\ parent \in [Starts -> {"none", "lookup", "cleanenv", "fork", "reading", "left"}]
  /\ daemon \in [Starts -> {"none", "lock", "write", "ids", "running", "failed", "dead"}]
  /\ exitStatus \in [Starts -> {NULL, 0, 2}]
  /\ DOMAIN environ = Starts /\ ids \in [Starts -> {"root", "user", "daemon"}]
  /\ pidFile \in 1..MaxFiles /\ opened \in [Starts -> 0..MaxFiles]
  /\ DOMAIN contents = 1..MaxFiles
  /\ holder \in [1..MaxFiles -> Starts \cup {NULL}]
  /\ unwritten \subseteq Starts

\* No file yet; each process is root's or another user's, for good or until
\* it becomes the daemon's.
DaemonInit ==
  /\ parent = [d \in Starts |-> "none"] /\ daemon = [d \in Starts |-> "none"]
  /\ exitStatus = [d \in Starts |-> NULL] /\ environ = EnvOf
  /\ ids = [d \in Starts |-> IF d \in OfRoot THEN "root" ELSE "user"]
  /\ pidFile = 1 /\ opened = [d \in Starts |-> 0]
  /\ contents = [f \in 1..MaxFiles |-> NULL] /\ holder = [f \in 1..MaxFiles |-> NULL]
  /\ unwritten = {}

ParentMoves(d, from, to) == parent[d] = from /\ parent' = [parent EXCEPT ![d] = to]
ChildIs(d, from, to) == daemon[d] = from /\ daemon' = [daemon EXCEPT ![d] = to]

-----------------------------------------------------------------------------
(* The parent                                                              *)

\* The file is opened, and made when there is none, but never truncated.
OpenPidFile(d) ==
  /\ ParentMoves(d, "none", "lookup")
  /\ opened' = [opened EXCEPT ![d] = pidFile]
  /\ contents' = [contents EXCEPT ![pidFile] = IF @ = NULL THEN <<>> ELSE @]
  /\ UNCHANGED <<daemon, exitStatus, environ, ids, pidFile, holder, unwritten>>

\* Or it cannot be opened, and the parent exits.
NoPidFile(d) ==
  /\ ParentMoves(d, "none", "left") /\ exitStatus' = [exitStatus EXCEPT ![d] = 2]
  /\ UNCHANGED <<daemon, environ, ids, fileVars>>

\* getpwnam() and getgrnam()
LookUp(d) ==
  /\ \/ ParentMoves(d, "lookup", "cleanenv") /\ UNCHANGED exitStatus
     \/ ParentMoves(d, "lookup", "left") /\ exitStatus' = [exitStatus EXCEPT ![d] = 2]
  /\ UNCHANGED <<daemon, environ, ids, fileVars>>

\* cleanenv(): unsetenv() moves the variables behind one place down, and i++
\* then passes over the one that has come to its place.
Cleaned(env) ==
  LET done[n \in 0..Len(env)] ==
        IF n = 0 THEN [kept |-> <<>>, passing |-> FALSE]
        ELSE IF done[n - 1].passing \/ env[n] \in Keepers
          THEN [kept |-> Append(done[n - 1].kept, env[n]), passing |-> FALSE]
          ELSE [kept |-> done[n - 1].kept, passing |-> TRUE]
  IN done[Len(env)].kept

\* ... and four variables are set.
SetEnv(env, name) == IF name \in ToSet(env) THEN env ELSE Append(env, name)
Homed(env) == SetEnv(SetEnv(SetEnv(SetEnv(env, "PWD"), "HOME"), "LOGNAME"), "USER")
CleanEnv(d) ==
  /\ ParentMoves(d, "cleanenv", "fork")
  /\ environ' = [environ EXCEPT ![d] = Homed(Cleaned(@))]
  /\ UNCHANGED <<daemon, exitStatus, ids, fileVars>>

ForkDaemon(d) ==
  /\ ParentMoves(d, "fork", "reading") /\ ChildIs(d, "none", "lock")
  /\ UNCHANGED <<exitStatus, environ, ids, fileVars>>

\* read() ends when the child has closed the pipe, or is no more; whatever it
\* said, the parent exits with 0.
ParentLeaves(d) ==
  /\ daemon[d] \in {"running", "failed", "dead"}
  /\ ParentMoves(d, "reading", "left") /\ exitStatus' = [exitStatus EXCEPT ![d] = 0]
  /\ UNCHANGED <<daemon, environ, ids, fileVars>>

-----------------------------------------------------------------------------
(* The child                                                               *)

\* Mutant: the lock is the one that the parent took before it forked, which
\* the child of a fork() does not have.
LockOfParent(d) ==
  /\ ChildIs(d, "lock", "write")
  /\ UNCHANGED <<parent, exitStatus, environ, ids, fileVars>>

\* fcntl(F_SETLK), and setsid(); without the lock the child reports, and exits.
LockPidFile(d) ==
  /\ \/ /\ ChildIs(d, "lock", "write")
        /\ holder[opened[d]] = NULL /\ holder' = [holder EXCEPT ![opened[d]] = d]
     \/ /\ ChildIs(d, "lock", "failed")
        /\ holder[opened[d]] # NULL /\ UNCHANGED holder
  /\ UNCHANGED <<parent, exitStatus, environ, ids, pidFile, opened, contents, unwritten>>

\* snprintf() into buf[], and write() over what the file has; a write() that
\* fails is never seen, n being unsigned, and the daemon goes on.
PidLine(d) ==
  LET text == PidText[d] \o <<"\n">>
  IN IF Len(text) < PidBuffer THEN text ELSE SubSeq(text, 1, PidBuffer - 1)
Over(line, text) == line \o SubSeq(text, Len(line) + 1, Len(text))

WritePid(d) ==
  /\ ChildIs(d, "write", "ids")
  /\ \/ contents' = [contents EXCEPT ![opened[d]] = Over(PidLine(d), @)] /\ UNCHANGED unwritten
     \/ unwritten' = unwritten \cup {d} /\ UNCHANGED contents
  /\ UNCHANGED <<parent, exitStatus, environ, ids, pidFile, opened, holder>>

\* setgid() and setuid(), the streams, and the end of the pipe: it is a daemon.
Daemonized(d) ==
  /\ ChildIs(d, "ids", "running")
  /\ ids' = [ids EXCEPT ![d] = IF @ = "root" THEN "daemon" ELSE @]
  /\ UNCHANGED <<parent, exitStatus, environ, fileVars>>

\* The process of the child ends, at any time: its lock is released.
DaemonDies(d) ==
  /\ daemon[d] \in {"lock", "write", "ids", "running"}
  /\ daemon' = [daemon EXCEPT ![d] = "dead"]
  /\ holder' = [f \in 1..MaxFiles |-> IF holder[f] = d THEN NULL ELSE holder[f]]
  /\ UNCHANGED <<parent, exitStatus, environ, ids, pidFile, opened, contents, unwritten>>

\* A daemon removes the file, which was given to its user for that.
PidFileRemoved(d) ==
  /\ daemon[d] = "running" /\ pidFile < MaxFiles /\ contents[pidFile] # NULL
  /\ pidFile' = pidFile + 1
  /\ UNCHANGED <<parent, daemon, exitStatus, environ, ids, opened, contents, holder, unwritten>>

DaemonNext ==
  \E d \in Starts :
    \/ OpenPidFile(d) \/ NoPidFile(d) \/ LookUp(d) \/ CleanEnv(d) \/ ForkDaemon(d) \/ ParentLeaves(d)
    \/ LockPidFile(d) \/ WritePid(d) \/ Daemonized(d) \/ DaemonDies(d) \/ PidFileRemoved(d)

DaemonSpec == DaemonInit /\ [][DaemonNext]_daemonVars

-----------------------------------------------------------------------------
(* Properties                                                              *)

Owner(d) == daemon[d] \in {"write", "ids", "running"}
FirstLine(text) == SubSeq(text, 1, SelectInSeq(text \o <<"\n">>, LAMBDA c : c = "\n") - 1)

\* There is one daemon, unless the file was removed: a start that had the old
\* one open locks that, and another makes a new one (src/daemon.c:43, 110).
OneDaemon ==
  \A d, e \in Starts : Owner(d) /\ Owner(e) /\ d # e => opened[d] # opened[e] /\ pidFile > 1

\* The first line of the file is the pid of the daemon that holds it, whatever
\* was there before and whoever has tried to start since, unless that daemon
\* could not write it (src/daemon.c:43, 131-149).
PidTold ==
  \A d \in Starts : daemon[d] \in {"ids", "running"} /\ d \notin unwritten =>
    FirstLine(contents[opened[d]]) = PidText[d]

\* The parent leaves with 0 only when the start has failed or succeeded, and
\* it cannot be told which; no daemon of root's keeps its ids, but another
\* user's has that user's, whatever was asked for (src/daemon.c:89-97, 151-161).
StartTold ==
  \A d \in Starts :
    /\ exitStatus[d] = 0 => daemon[d] \in {"running", "failed", "dead"}
    /\ exitStatus[d] = 2 => daemon[d] = "none"
    /\ daemon[d] = "running" => ids[d] # "root"

\* The variables to keep are kept, all are in the order they were in, and
\* another is left only when the one before it was taken out
\* (src/daemon.c:175-201).
CleanedRight(was, now) ==
  /\ ToSet(was) \cap Keepers \subseteq ToSet(now)
  /\ \A k, l \in DOMAIN now : \E i, j \in DOMAIN was :
       was[i] = now[k] /\ was[j] = now[l] /\ (k < l => i < j)
  /\ \A i \in DOMAIN was : was[i] \in ToSet(now) \ Keepers =>
       i > 1 /\ was[i - 1] \notin ToSet(now)

EnvironmentCleaned ==
  \A d \in Starts : parent[d] \in {"fork", "reading"} =>
    CleanedRight(EnvOf[d], SubSeq(environ[d], 1, Len(Cleaned(EnvOf[d]))))

DaemonRight == OneDaemon /\ PidTold /\ StartTold /\ EnvironmentCleaned
=============================================================================
