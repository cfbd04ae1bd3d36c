-------------------------------- MODULE Log ---------------------------------
(***************************************************************************)
(* The logger of src/log.c: one static structure per process, and behind   *)
(* it the state of syslog(3), which keeps the pointer that openlog() was   *)
(* given.                                                                  *)
(***************************************************************************)
EXTENDS Integers, Null

CONSTANTS
  LogIdents,  \* names of programs
  LogPaths    \* paths of log files

\* What a pointer to a name is once the name was freed.
Freed == "freed"
Streams == {"stdout", "stderr"}

ASSUME LogAssumption ==
  /\ NULL \notin LogIdents \cup LogPaths \cup Streams
  /\ Freed \notin LogIdents \cup {NULL}

VARIABLES
  console,   \* LIBVIGOR_LOG.console: a stream, or NULL for syslog
  logIdent,  \* LIBVIGOR_LOG.ident
  logLevel,  \* LIBVIGOR_LOG.level
  tag,       \* what syslog() takes for the name: an ident, NULL, or Freed
  closed,    \* the standard streams that were closed
  left,      \* history: log_open() has gone from syslog to a stream, and
             \*   nobody has called closelog() since
  message    \* the last message: where it went, and under which name

logVars == <<console, logIdent, logLevel, tag, closed, left, message>>

LOG_INFO == 6
LOG_DEBUG == 7

LogTypeOK ==
  /\ console \in Streams \cup LogPaths \cup {NULL}
  /\ logIdent \in LogIdents \cup {NULL}
  /\ logLevel \in 0..LOG_DEBUG
  /\ tag \in LogIdents \cup {NULL, Freed}
  /\ closed \subseteq Streams
  /\ left \in BOOLEAN
  /\ message \in [to : {"nobody", "syslog", "nowhere"} \cup Streams \cup LogPaths,
                  name : LogIdents \cup {NULL, Freed}]

NoMessage == [to |-> "nobody", name |-> NULL]

LogInit ==
  /\ console = NULL /\ logIdent = NULL /\ logLevel = LOG_INFO
  /\ tag = NULL /\ closed = {} /\ left = FALSE /\ message = NoMessage

-----------------------------------------------------------------------------
(* log_open(), log_close()                                                 *)

\* The old name is freed, and with it what syslog() may still point to.
Orphaned(t) == IF t = NULL THEN NULL ELSE Freed

\* To a stream: a standard one, also one that is closed, or a file, which may
\* fail to open; the former stream stays open.
LogOpenStream(id, to) ==
  /\ logIdent' = id
  /\ console' \in IF to \in Streams THEN {to} ELSE {to, NULL}
  /\ tag' = Orphaned(tag)
  /\ left' = (left \/ tag # NULL)
  /\ UNCHANGED <<logLevel, closed, message>>

LogOpenSyslog(id) ==
  /\ logIdent' = id
  /\ console' = NULL
  /\ tag' = id
  /\ left' = FALSE
  /\ UNCHANGED <<logLevel, closed, message>>

\* Mutant: syslog is left open.
LogCloseKeepsTag ==
  /\ console' = NULL
  /\ closed' = closed \cup (Streams \cap {console})
  /\ tag' = Orphaned(tag)
  /\ logIdent' = NULL
  /\ UNCHANGED <<logLevel, left, message>>

\* A stream is closed, be it a standard one; else syslog is, which forgets the
\* name.
LogClose ==
  /\ IF console # NULL
       THEN /\ closed' = closed \cup (Streams \cap {console})
            /\ tag' = Orphaned(tag)
            /\ UNCHANGED left
       ELSE tag' = NULL /\ left' = FALSE /\ UNCHANGED closed
  /\ console' = NULL /\ logIdent' = NULL
  /\ UNCHANGED <<logLevel, message>>

-----------------------------------------------------------------------------
(* Levels                                                                  *)

LevelNumbers ==
  [emerg |-> 0, emergency |-> 0, alert |-> 1, crit |-> 2, critical |-> 2, err |-> 3, error |-> 3,
   warn |-> 4, warning |-> 4, notice |-> 5, info |-> 6, debug |-> 7]

\* log_level_number(): -1 for what is no name.
LevelNumber(name) == IF name \in DOMAIN LevelNumbers THEN LevelNumbers[name] ELSE -1

\* log_level_name() of a level from 0 on; of any other below it is the one in
\* force.
LevelName(l) ==
  CASE l = 0 -> "emergency" [] l = 1 -> "alert"  [] l = 2 -> "critical" [] l = 3 -> "error"
    [] l = 4 -> "warning"   [] l = 5 -> "notice" [] l = 6 -> "info"     [] l = 7 -> "debug"
    [] OTHER -> "UNKNOWN"

\* log_level(): a name comes before a number; what is below 0 changes nothing.
LogLevel(number, name) ==
  /\ LET l == IF name = NULL THEN number
              ELSE IF LevelNumber(name) < 0 THEN logLevel ELSE LevelNumber(name)
     IN logLevel' = IF l < 0 THEN logLevel ELSE IF l > LOG_DEBUG THEN LOG_DEBUG ELSE l
  /\ UNCHANGED <<console, logIdent, tag, closed, left, message>>

\* logger(): what goes to a stream that is closed is lost, or worse.
Logger(l) ==
  /\ message' = CASE l > logLevel      -> NoMessage
                  [] l <= logLevel /\ console = NULL -> [to |-> "syslog", name |-> tag]
                  [] l <= logLevel /\ console # NULL ->
                       [to |-> IF console \in closed THEN "nowhere" ELSE console, name |-> logIdent]
  /\ UNCHANGED <<console, logIdent, logLevel, tag, closed, left>>

LogNext ==
  \/ \E id \in LogIdents : LogOpenSyslog(id) \/ \E to \in Streams \cup LogPaths : LogOpenStream(id, to)
  \/ LogClose
  \/ \E number \in {-1, 0, 3, LOG_DEBUG + 1}, name \in {NULL, "warn", "quiet"} : LogLevel(number, name)
  \/ \E l \in 0..LOG_DEBUG : Logger(l)

LogSpec == LogInit /\ [][LogNext]_logVars

-----------------------------------------------------------------------------
(* Properties                                                              *)

\* No message goes out under a name whose memory was freed, unless log_open()
\* has gone from syslog to a stream without a log_close(): then it leaves
\* syslog a stale pointer, which is used once the stream was closed or a file
\* could not be opened (src/log.c:45-96); and the name of a level stands for
\* that level (src/log.c:98-145).
LogRight ==
  /\ tag = Freed => left
  /\ \A l \in 0..LOG_DEBUG : LevelNumber(LevelName(l)) = l
=============================================================================
