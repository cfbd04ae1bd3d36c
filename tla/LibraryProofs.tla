---------------------------- MODULE LibraryProofs ---------------------------
(***************************************************************************)
(* Theorems about Timing, Log, Sha1 and Text, for any values of their      *)
(* constants: the checksum is that of the message, for any sizes of        *)
(* blocks, words and messages, whatever the pieces it came in; and strings *)
(* of any characters and lengths are interpolated, split, joined and coded *)
(* as they should be.                                                      *)
(***************************************************************************)
EXTENDS ListProofs, Timing, Log, Sha1, Text, SequenceTheorems, WellFoundedInduction, TLAPS

(***************************************************************************)
(*                                 Timing                                  *)
(***************************************************************************)
-----------------------------------------------------------------------------
(* Division                                                                *)

LEMMA DivAtLeast ==
  ASSUME NEW a \in Nat, NEW u \in Nat \ {0}, NEW k \in Nat, a >= k * u
  PROVE  a \div u >= k
<1>1. a \div u \in Nat /\ a < u * (a \div u) + u
  OBVIOUS
<1>2. ASSUME a \div u <= k - 1 PROVE FALSE
  <2>1. u * (a \div u) <= u * (k - 1)
    BY <1>1, <1>2
  <2>2. u * (k - 1) = k * u - u
    OBVIOUS
  <2> QED
    BY <1>1, <2>1, <2>2
<1> QED
  BY <1>1, <1>2

LEMMA DivAtMost ==
  ASSUME NEW a \in Nat, NEW u \in Nat \ {0}, NEW k \in Nat, a <= k * u
  PROVE  a \div u <= k
<1>1. a \div u \in Nat /\ u * (a \div u) <= a
  OBVIOUS
<1>2. ASSUME a \div u >= k + 1 PROVE FALSE
  <2>1. u * (a \div u) >= u * (k + 1)
    BY <1>1, <1>2
  <2>2. u * (k + 1) = k * u + u
    OBVIOUS
  <2> QED
    BY <1>1, <2>1, <2>2
<1> QED
  BY <1>1, <1>2

-----------------------------------------------------------------------------
(* Types                                                                   *)

LEMMA ParamTypes ==
  ASSUME TimingTypeOK
  PROVE  /\ param.interval \in 1..IntMax /\ param.freshness \in 1..IntMax
         /\ param.max_delay \in 1..IntMax /\ IntMax \in Nat \ {0}
         /\ param.factor \in Nat \ {0} /\ param.unit \in Nat \ {0}
         /\ param.factor >= param.unit /\ param.max_delay >= param.interval
  BY TimingAssumption DEF TimingTypeOK, HbParamTypes

LEMMA ProductType ==
  ASSUME TimingTypeOK
  PROVE  Product(delay) \in -IntMax - 1..IntMax
<1>1. delay \in Int /\ IntMax \in Nat /\ param.factor \in Nat /\ param.unit \in Nat \ {0}
  BY ParamTypes DEF TimingTypeOK
<1>2. delay >= 0 => (delay * param.factor) \div param.unit \in Nat
  BY <1>1
<1> QED
  BY <1>1, <1>2 DEF Product

LEMMA TimingTypeInit == TimingInit => TimingTypeOK
<1> SUFFICES ASSUME TimingInit PROVE TimingTypeOK
  OBVIOUS
<1>1. /\ param \in HbParams /\ param.interval \in 1..IntMax /\ IntMax \in Nat
      /\ param.freshness \in 1..IntMax /\ MaxMisses \in Nat
  BY TimingAssumption DEF TimingInit, HbParamTypes
<1>2. delay \in -IntMax - 1..IntMax /\ missed \in 0..param.freshness + 1 /\ misses \in 0..MaxMisses
  BY <1>1 DEF TimingInit
<1>3. /\ slept \in [sec : Int, usec : Int]
      /\ watch \in [running : BOOLEAN, sec : Int, usec : Int]
      /\ lap \in [from : Instants, to : Instants]
  BY DEF TimingInit
<1> QED
  BY <1>1, <1>2, <1>3 DEF TimingTypeOK

LEMMA TimingTypeStep == TimingTypeOK /\ [TimingNext]_timingVars => TimingTypeOK'
<1> SUFFICES ASSUME TimingTypeOK, [TimingNext]_timingVars PROVE TimingTypeOK'
  OBVIOUS
<1> USE TimingAssumption
<1>1. ASSUME NEW p \in HbParams, HbInit(p) PROVE TimingTypeOK'
  <2>1. p.interval \in 1..IntMax /\ p.freshness \in 1..IntMax
    BY DEF HbParamTypes
  <2> QED
    BY <1>1, <2>1 DEF HbInit, TimingTypeOK
<1>2. CASE HbPing
  BY <1>2, ParamTypes DEF HbPing, TimingTypeOK
<1>3. CASE HbMiss
  <2>1. UNCHANGED <<param, slept, watch, lap>> /\ misses' \in 0..MaxMisses
    BY <1>3, ParamTypes DEF HbMiss, TimingTypeOK
  <2>2. delay' \in -IntMax - 1..IntMax
    <3>1. delay' \in {delay, param.max_delay, Product(delay)}
      BY <1>3 DEF HbMiss
    <3> QED
      BY <3>1, ProductType, ParamTypes DEF TimingTypeOK
  <2>3. missed' \in 0..param.freshness + 1
    BY <1>3, ParamTypes DEF HbMiss, TimingTypeOK
  <2> QED
    BY <2>1, <2>2, <2>3 DEF TimingTypeOK
<1>4. CASE HbSleep
  <2>1. delay \in Int
    BY DEF TimingTypeOK
  <2>2. (IF delay >= 0 THEN delay \div 1000 ELSE -((-delay) \div 1000)) \in Int
    BY <2>1
  <2>3. slept' \in [sec : Int, usec : Int]
    BY <1>4, <2>1, <2>2 DEF HbSleep
  <2> QED
    BY <1>4, <2>3 DEF HbSleep, hbVars, TimingTypeOK
<1>5. ASSUME NEW t \in Instants, StopwatchStart(t) PROVE TimingTypeOK'
  <2>1. t \div Second \in Int /\ t % Second \in Int
    BY DEF Second
  <2> QED
    BY <1>5, <2>1 DEF StopwatchStart, hbVars, TimingTypeOK
<1>6. ASSUME NEW t \in Instants, StopwatchStop(t) PROVE TimingTypeOK'
  <2>1. t \div Second \in Int /\ t % Second \in Int /\ watch.sec \in Int /\ watch.usec \in Int
    BY DEF Second, TimingTypeOK
  <2>2. watch' \in [running : BOOLEAN, sec : Int, usec : Int]
    BY <1>6, <2>1 DEF StopwatchStop, Second
  <2>3. lap' \in [from : Instants, to : Instants]
    BY <1>6 DEF StopwatchStop, TimingTypeOK
  <2> QED
    BY <1>6, <2>2, <2>3 DEF StopwatchStop, hbVars, TimingTypeOK
<1>7. CASE UNCHANGED timingVars
  BY <1>7 DEF timingVars, hbVars, TimingTypeOK
<1> QED
  BY <1>1, <1>2, <1>3, <1>4, <1>5, <1>6, <1>7 DEF TimingNext

THEOREM TimingTypeCorrect == TimingSpec => []TimingTypeOK
  BY TimingTypeInit, TimingTypeStep, PTL DEF TimingSpec

-----------------------------------------------------------------------------
(* Heartbeats                                                              *)

\* The counter of the code stops one above the freshness.
MissesCounted == IF misses <= param.freshness THEN missed = misses ELSE missed = param.freshness + 1

HbInv == MissesCounted /\ DelayInRange /\ BackedOff

\* A delay in range grows, unless the product is cut off to what it was.
LEMMA ProductGrows ==
  ASSUME TimingTypeOK, FitsInt, param.interval <= delay, delay <= param.max_delay
  PROVE  /\ Product(delay) \in Nat /\ Product(delay) >= delay
         /\ \/ Product(delay) > delay
            \/ delay * (param.factor - param.unit) < param.unit
<1> DEFINE f == param.factor
           u == param.unit
           m == param.max_delay
<1>1. /\ delay \in Nat /\ m \in Nat /\ IntMax \in Nat /\ f \in Nat /\ u \in Nat \ {0}
      /\ f >= u /\ delay <= m /\ m * f <= IntMax * u
  BY ParamTypes DEF TimingTypeOK, FitsInt
<1> HIDE DEF f, u, m
<1>2. delay * f \in Nat /\ delay * f <= m * f
  BY <1>1
<1>3. (delay * f) \div u <= IntMax
  BY <1>1, <1>2, DivAtMost
<1>4. Product(delay) = (delay * f) \div u
  BY <1>1, <1>3 DEF Product, f, u
<1>5. delay * f >= delay * u
  BY <1>1
<1>6. (delay * f) \div u >= delay
  BY <1>1, <1>2, <1>5, DivAtLeast
<1>7. ASSUME delay * (f - u) >= u PROVE (delay * f) \div u >= delay + 1
  <2>1. delay * (f - u) = delay * f - delay * u /\ (delay + 1) * u = delay * u + u
    BY <1>1
  <2>2. delay * f >= (delay + 1) * u
    BY <1>1, <1>7, <2>1
  <2> QED
    BY <1>1, <1>2, <2>2, DivAtLeast
<1>8. (delay * f) \div u \in Nat
  BY <1>1, <1>2
<1>9. delay * (f - u) \in Int
  BY <1>1
<1> QED
  BY <1>1, <1>4, <1>6, <1>7, <1>8, <1>9 DEF f, u

LEMMA HbStep == TimingTypeOK /\ HbInv /\ [TimingNext]_timingVars => HbInv'
<1> SUFFICES ASSUME TimingTypeOK, HbInv, [TimingNext]_timingVars PROVE HbInv'
  OBVIOUS
<1>1. ASSUME NEW p \in HbParams, HbInit(p) PROVE HbInv'
  <2>1. /\ p.interval \in Nat /\ p.freshness \in Nat /\ p.max_delay \in Nat
        /\ p.max_delay >= p.interval
    BY TimingAssumption DEF HbParamTypes
  <2> QED
    BY <1>1, <2>1 DEF HbInit, HbInv, MissesCounted, DelayInRange, BackedOff, FitsInt
<1>2. CASE HbPing
  BY <1>2, ParamTypes DEF HbPing, HbInv, MissesCounted, DelayInRange, BackedOff, FitsInt
<1>3. CASE HbMiss
  <2>1. MissesCounted'
    BY <1>3, ParamTypes DEF HbMiss, HbInv, MissesCounted, TimingTypeOK
  <2>2. param' = param
    BY <1>3 DEF HbMiss
  <2>3. CASE missed > param.freshness
    BY <1>3, <2>1, <2>2, <2>3, ParamTypes
    DEF HbMiss, HbInv, DelayInRange, BackedOff, FitsInt, TimingTypeOK
  <2>4. CASE ~(missed > param.freshness)
    <3>1. delay' = IF Product(delay) > param.max_delay THEN param.max_delay ELSE Product(delay)
      BY <1>3, <2>4 DEF HbMiss
    <3>2. SUFFICES ASSUME FitsInt
                   PROVE  /\ param.interval <= delay' /\ delay' <= param.max_delay
                          /\ \/ delay' > param.interval \/ delay' = param.max_delay
                             \/ param.interval * (param.factor - param.unit) < param.unit
      BY <2>1, <2>2 DEF HbInv, DelayInRange, BackedOff, FitsInt
    <3>3. /\ param.interval <= delay /\ delay <= param.max_delay
          /\ delay \in Int /\ param.interval \in Int /\ param.max_delay \in Int
          /\ param.max_delay >= param.interval
      BY <3>2, ParamTypes DEF HbInv, DelayInRange, TimingTypeOK
    <3>4. /\ Product(delay) \in Nat /\ Product(delay) >= delay
          /\ \/ Product(delay) > delay
             \/ delay * (param.factor - param.unit) < param.unit
      BY <3>2, <3>3, ProductGrows
    <3>5. delay = param.interval \/ delay > param.interval
      BY <3>3
    <3> HIDE DEF Product
    <3> QED
      BY <3>1, <3>3, <3>4, <3>5
  <2> QED
    BY <2>3, <2>4
<1>4. CASE UNCHANGED hbVars
  BY <1>4 DEF hbVars, HbInv, MissesCounted, DelayInRange, BackedOff, FitsInt
<1>5. ASSUME NEW t \in Instants, StopwatchStart(t) \/ StopwatchStop(t) PROVE UNCHANGED hbVars
  BY <1>5 DEF StopwatchStart, StopwatchStop
<1>6. HbSleep \/ UNCHANGED timingVars => UNCHANGED hbVars
  BY DEF HbSleep, timingVars
<1> QED
  BY <1>1, <1>2, <1>3, <1>4, <1>5, <1>6 DEF TimingNext

\* A heartbeat is dead if and only if more were missed than may be, and the
\* delay is in range and longer after a miss, where the product fits an int
\* (src/hb.c:61-81).
THEOREM HeartbeatsRight == TimingSpec => [](AliveWhileFresh /\ DelayInRange /\ BackedOff)
<1>1. TimingInit => HbInv
  <2> SUFFICES ASSUME TimingInit PROVE HbInv
    OBVIOUS
  <2>1. TimingTypeOK
    BY TimingTypeInit
  <2> QED
    BY <2>1, ParamTypes DEF TimingInit, HbInv, MissesCounted, DelayInRange, BackedOff, FitsInt
<1>2. TimingTypeOK /\ HbInv => AliveWhileFresh /\ DelayInRange /\ BackedOff
  BY ParamTypes DEF HbInv, MissesCounted, AliveWhileFresh, HbAlive, TimingTypeOK
<1> QED
  BY <1>1, <1>2, HbStep, TimingTypeCorrect, PTL DEF TimingSpec

-----------------------------------------------------------------------------
(* The stopwatch                                                           *)

\* While it runs it holds the instant it was started at.
WatchInv ==
  IF watch.running THEN watch.sec = lap.from \div Second /\ watch.usec = lap.from % Second
                   ELSE StopwatchMs = (lap.to - lap.from) \div 1000

LEMMA QuotientAndRest ==
  ASSUME NEW a \in Nat, NEW u \in Nat \ {0}
  PROVE  a \div u \in Nat /\ a % u \in Nat /\ a = u * (a \div u) + (a % u)
<1>1. a % u \in 0..u - 1
  BY SMT
<1>2. a \div u \in Nat
  BY SMT
<1>3. a = u * (a \div u) + (a % u)
  BY SMT
<1> QED
  BY <1>1, <1>2, <1>3

LEMMA Elapsed ==
  ASSUME NEW a \in Nat, NEW b \in Nat,
         NEW sec, NEW usec,
         sec = b \div Second - a \div Second, usec = (b % Second) - (a % Second)
  PROVE  /\ usec < 0 => (sec - 1) * 1000 + (Second + usec) \div 1000 = (b - a) \div 1000
         /\ usec >= 0 => sec * 1000 + usec \div 1000 = (b - a) \div 1000
<1>1. /\ a \div Second \in Nat /\ a % Second \in Nat /\ a = Second * (a \div Second) + (a % Second)
      /\ b \div Second \in Nat /\ b % Second \in Nat /\ b = Second * (b \div Second) + (b % Second)
  BY QuotientAndRest, SMT DEF Second
<1>2. b - a = Second * sec + usec /\ sec \in Int /\ usec \in Int
  BY <1>1, SMTT(30) DEF Second
<1> QED
  BY <1>2, SMTT(30) DEF Second

LEMMA WatchStep == TimingTypeOK /\ WatchInv /\ [TimingNext]_timingVars => WatchInv'
<1> SUFFICES ASSUME TimingTypeOK, WatchInv, [TimingNext]_timingVars PROVE WatchInv'
  OBVIOUS
<1>1. ASSUME NEW t \in Instants, StopwatchStart(t) PROVE WatchInv'
  BY <1>1 DEF StopwatchStart, WatchInv
<1>2. ASSUME NEW t \in Instants, StopwatchStop(t) PROVE WatchInv'
  <2> DEFINE sec == t \div Second - watch.sec
             usec == (t % Second) - watch.usec
  <2>1. lap.from \in Nat /\ t \in Nat /\ lap' = [lap EXCEPT !.to = t]
    BY <1>2, TimingAssumption DEF StopwatchStop, TimingTypeOK
  <2>2. lap'.from = lap.from /\ lap'.to = t
    BY <2>1 DEF TimingTypeOK
  <2>3. watch.sec = lap.from \div Second /\ watch.usec = lap.from % Second
    BY <1>2 DEF StopwatchStop, WatchInv
  <2>4. /\ usec < 0 => (sec - 1) * 1000 + (Second + usec) \div 1000 = (t - lap.from) \div 1000
        /\ usec >= 0 => sec * 1000 + usec \div 1000 = (t - lap.from) \div 1000
    BY <2>1, <2>3, Elapsed
  <2>5. usec \in Int
    BY <2>1, <2>3 DEF Second
  <2>6. watch' = IF usec < 0 THEN [running |-> FALSE, sec |-> sec - 1, usec |-> Second + usec]
                             ELSE [running |-> FALSE, sec |-> sec, usec |-> usec]
    BY <1>2 DEF StopwatchStop
  <2> HIDE DEF sec, usec
  <2> QED
    BY <2>2, <2>4, <2>5, <2>6 DEF WatchInv, StopwatchMs
<1>3. CASE UNCHANGED <<watch, lap>>
  BY <1>3 DEF WatchInv, StopwatchMs
<1>4. ASSUME NEW p \in HbParams, HbInit(p) PROVE UNCHANGED <<watch, lap>>
  BY <1>4 DEF HbInit
<1>5. HbPing \/ HbMiss \/ HbSleep \/ UNCHANGED timingVars => UNCHANGED <<watch, lap>>
  BY DEF HbPing, HbMiss, HbSleep, timingVars
<1> QED
  BY <1>1, <1>2, <1>3, <1>4, <1>5 DEF TimingNext

\* All that the module promises.
THEOREM TimingCorrect == TimingSpec => []TimingRight
<1>1. TimingInit => WatchInv
  <2> SUFFICES ASSUME TimingInit PROVE WatchInv
    OBVIOUS
  <2>1. PICK t \in Instants : /\ watch = [running |-> FALSE, sec |-> 0, usec |-> 0]
                              /\ lap = [from |-> t, to |-> t]
    BY DEF TimingInit
  <2>2. t \in Nat
    BY TimingAssumption
  <2> QED
    BY <2>1, <2>2 DEF WatchInv, StopwatchMs
<1>2. WatchInv /\ AliveWhileFresh /\ DelayInRange /\ BackedOff => TimingRight
  BY DEF WatchInv, StopwatchRight, TimingRight
<1> QED
  BY <1>1, <1>2, WatchStep, HeartbeatsRight, TimingTypeCorrect, PTL DEF TimingSpec

-----------------------------------------------------------------------------
(***************************************************************************)
(*                                   Log                                   *)
(***************************************************************************)

\* What syslog() has for a name while messages go to a stream is left over from
\* before: log_open() of a stream does not call closelog(), and log_close() of
\* a stream does not either.  Without this, LogRight is not inductive: it says
\* nothing of a name that is valid still and is freed by the next log_close().
LeftOver ==
  /\ tag = Freed => left
  /\ console # NULL /\ tag # NULL => left

LogInv == LogTypeOK /\ LeftOver

LEMMA LevelsFit == \A name \in DOMAIN LevelNumbers : LevelNumbers[name] \in 0..LOG_DEBUG
  BY DEF LevelNumbers, LOG_DEBUG

LEMMA LogStart == LogInit => LogInv
<1> SUFFICES ASSUME LogInit PROVE LogInv
  OBVIOUS
<1>1. message \in [to : {"nobody", "syslog", "nowhere"} \cup Streams \cup LogPaths,
                   name : LogIdents \cup {NULL, Freed}]
  BY DEF LogInit, NoMessage
<1>2. left = FALSE /\ tag = NULL /\ Freed # NULL
  BY LogAssumption DEF LogInit
<1>3. logLevel \in 0..LOG_DEBUG
  BY DEF LogInit, LOG_INFO, LOG_DEBUG
<1> QED
  BY <1>1, <1>2, <1>3 DEF LogInit, LogInv, LogTypeOK, LeftOver

LEMMA LogOpenKeepsInv ==
  ASSUME LogInv, NEW id \in LogIdents,
         LogOpenSyslog(id) \/ \E to \in Streams \cup LogPaths : LogOpenStream(id, to)
  PROVE  LogInv'
<1>1. CASE LogOpenSyslog(id)
  BY <1>1, LogAssumption DEF LogOpenSyslog, LogInv, LogTypeOK, LeftOver
<1>2. ASSUME NEW to \in Streams \cup LogPaths, LogOpenStream(id, to)
      PROVE  LogInv'
  <2>1. console' \in Streams \cup LogPaths \cup {NULL}
    BY <1>2 DEF LogOpenStream
  <2>2. tag' \in {NULL, Freed} /\ (tag' # NULL => tag # NULL)
    BY <1>2, LogAssumption DEF LogOpenStream, Orphaned
  <2>3. left' \in BOOLEAN /\ (tag' # NULL => left')
    <3>1. left' = (left \/ tag # NULL)
      BY <1>2 DEF LogOpenStream
    <3> QED
      BY <3>1, <2>2, Zenon
  <2>4. LeftOver'
    BY <2>2, <2>3, LogAssumption DEF LeftOver
  <2> QED
    BY <1>2, <2>1, <2>2, <2>3, <2>4 DEF LogOpenStream, LogInv, LogTypeOK
<1> QED
  BY <1>1, <1>2

LEMMA LogCloseKeepsInv ==
  ASSUME LogInv, LogClose
  PROVE  LogInv'
<1>1. CASE console # NULL
  BY <1>1, LogAssumption DEF LogClose, LogInv, LogTypeOK, LeftOver, Orphaned
<1>2. CASE console = NULL
  BY <1>2, LogAssumption DEF LogClose, LogInv, LogTypeOK, LeftOver, Orphaned
<1> QED
  BY <1>1, <1>2

LEMMA LogLevelKeepsInv ==
  ASSUME LogInv, NEW number \in Int, NEW name, LogLevel(number, name)
  PROVE  LogInv'
<1>1. LevelNumber(name) \in Int
  BY LevelsFit DEF LevelNumber, LOG_DEBUG
<1>2. logLevel' \in 0..LOG_DEBUG
  <2>1. PICK n \in Int : n = LevelNumber(name)
    BY <1>1
  <2> QED
    BY <2>1 DEF LogLevel, LogInv, LogTypeOK, LOG_DEBUG
<1> QED
  BY <1>2 DEF LogLevel, LogInv, LogTypeOK, LeftOver

LEMMA LoggerKeepsInv ==
  ASSUME LogInv, NEW l \in 0..LOG_DEBUG, Logger(l)
  PROVE  LogInv'
<1>1. message' \in [to : {"nobody", "syslog", "nowhere"} \cup Streams \cup LogPaths,
                     name : LogIdents \cup {NULL, Freed}]
  <2>1. CASE l > logLevel
    BY <2>1 DEF Logger, NoMessage, LogInv, LogTypeOK
  <2>2. CASE l <= logLevel /\ console = NULL
    BY <2>2 DEF Logger, LogInv, LogTypeOK, LOG_DEBUG
  <2>3. CASE l <= logLevel /\ console # NULL
    BY <2>3 DEF Logger, LogInv, LogTypeOK, LOG_DEBUG
  <2> QED
    BY <2>1, <2>2, <2>3 DEF LogInv, LogTypeOK, LOG_DEBUG
<1> QED
  BY <1>1 DEF Logger, LogInv, LogTypeOK, LeftOver

LEMMA LogStep == LogInv /\ [LogNext]_logVars => LogInv'
<1> SUFFICES ASSUME LogInv, [LogNext]_logVars PROVE LogInv'
  OBVIOUS
<1>1. CASE \E id \in LogIdents :
             LogOpenSyslog(id) \/ \E to \in Streams \cup LogPaths : LogOpenStream(id, to)
  BY <1>1, LogOpenKeepsInv
<1>2. CASE LogClose
  BY <1>2, LogCloseKeepsInv
<1>3. CASE \E number \in {-1, 0, 3, LOG_DEBUG + 1}, name \in {NULL, "warn", "quiet"} :
             LogLevel(number, name)
  BY <1>3, LogLevelKeepsInv DEF LOG_DEBUG
<1>4. CASE \E l \in 0..LOG_DEBUG : Logger(l)
  BY <1>4, LoggerKeepsInv
<1>5. CASE UNCHANGED logVars
  BY <1>5 DEF logVars, LogInv, LogTypeOK, LeftOver
<1> QED
  BY <1>1, <1>2, <1>3, <1>4, <1>5 DEF LogNext

\* The name of a level stands for that level: log_level_name() and
\* log_level_number() know the same names (src/log.c:98-145).
LEMMA LevelsNamed == \A l \in 0..LOG_DEBUG : LevelNumber(LevelName(l)) = l
<1> SUFFICES ASSUME NEW l \in 0..LOG_DEBUG PROVE LevelNumber(LevelName(l)) = l
  OBVIOUS
<1>1. l \in {0, 1, 2, 3, 4, 5, 6, 7}
  BY DEF LOG_DEBUG
<1> QED
  BY <1>1, SMTT(30) DEF LevelNumber, LevelName, LevelNumbers

\* Whatever programs open, close and log: syslog() is given a name that was
\* freed only after a log_open() went from syslog to a stream
\* (src/log.c:45-96), and levels and their names agree (src/log.c:98-145).
THEOREM LogNamesRight == LogSpec => [](LogTypeOK /\ LogRight)
<1>1. LogInv => LogTypeOK /\ LogRight
  BY LevelsNamed DEF LogInv, LeftOver, LogRight
<1> QED
  BY LogStart, LogStep, <1>1, PTL DEF LogSpec

(***************************************************************************)
(*                                  SHA-1                                  *)
(***************************************************************************)
-----------------------------------------------------------------------------
(* Division                                                                *)

\* Quotient and rest are what they are by any division that has a rest
\* smaller than the divisor.
LEMMA QuotientIs ==
  ASSUME NEW u \in Nat \ {0}, NEW q \in Nat, NEW r \in 0..u - 1, NEW a, a = u * q + r
  PROVE  a \div u = q /\ a % u = r
<1>1. u * q \in Nat /\ a \in Nat
  BY SMT
<1>2. a \div u \in Nat /\ a % u \in 0..u - 1 /\ a = u * (a \div u) + (a % u)
  BY <1>1, SMT
<1> DEFINE p == a \div u
           s == a % u
<1> HIDE DEF p, s
<1>3. p \in Nat /\ s \in 0..u - 1 /\ u * p + s = u * q + r
  BY <1>2 DEF p, s
<1>4. ~(p >= q + 1)
  <2> SUFFICES ASSUME p >= q + 1 PROVE FALSE
    OBVIOUS
  <2>1. u * p >= u * (q + 1)
    BY <1>3
  <2>2. u * (q + 1) = u * q + u
    BY SMT
  <2>3. u * p \in Int /\ u * q \in Int
    BY <1>3, SMT
  <2> QED
    BY <1>3, <2>1, <2>2, <2>3
<1>5. ~(q >= p + 1)
  <2> SUFFICES ASSUME q >= p + 1 PROVE FALSE
    OBVIOUS
  <2>1. u * q >= u * (p + 1)
    BY <1>3
  <2>2. u * (p + 1) = u * p + u
    BY <1>3, SMT
  <2>3. u * p \in Int /\ u * q \in Int
    BY <1>3, SMT
  <2> QED
    BY <1>3, <2>1, <2>2, <2>3
<1>6. p = q
  BY <1>3, <1>4, <1>5
<1>7. s = r
  <2>1. u * p \in Int
    BY <1>3, SMT
  <2> QED
    BY <1>3, <1>6, <2>1
<1> QED
  BY <1>6, <1>7 DEF p, s

\* The rest of a number below the divisor, and of one a divisor above it.
LEMMA SmallRest ==
  ASSUME NEW u \in Nat \ {0}, NEW r \in 0..u - 1
  PROVE  r % u = r /\ (u + r) % u = r
<1>1. r = u * 0 + r /\ u + r = u * 1 + r /\ 0 \in Nat /\ 1 \in Nat
  OBVIOUS
<1>2. r % u = r
  BY <1>1, QuotientIs
<1>3. (u + r) % u = r
  BY <1>1, QuotientIs
<1> QED
  BY <1>2, <1>3

\* Quotient and rest, as a division gives them.
LEMMA Divided ==
  ASSUME NEW u \in Nat \ {0}, NEW a \in Nat
  PROVE  a \div u \in Nat /\ a % u \in 0..u - 1 /\ a = u * (a \div u) + (a % u)
BY SMT

\* A word counts the bits of a whole number of blocks.
LEMMA WordSizes ==
  /\ BlockSize \in Nat \ {0} /\ BlockSize > 2 /\ LengthSize = 2
  /\ Word \in Nat \ {0} /\ \E q \in Nat \ {0} : Word = 8 * (BlockSize * q)
<1>1. BlockSize \in Nat \ {0} /\ BlockSize > 2 /\ LengthSize = 2 /\ Word \in Nat \ {0}
  BY Sha1Assumption
<1>2. 8 * BlockSize \in Nat \ {0} /\ Word % (8 * BlockSize) = 0
  BY <1>1, Sha1Assumption
<1> DEFINE u == 8 * BlockSize
           q == Word \div u
<1>3. u \in Nat \ {0} /\ Word % u = 0
  BY <1>2
<1> HIDE DEF u
<1>4. q \in Nat /\ Word = u * q + 0
  BY <1>1, <1>3, Divided
<1> HIDE DEF q
<1>5. q # 0
  <2> SUFFICES ASSUME q = 0 PROVE FALSE
    OBVIOUS
  <2>1. u * q = 0
    BY <1>3
  <2> QED
    BY <1>1, <1>4, <2>1
<1>6. u * q = 8 * (BlockSize * q)
  BY <1>1, <1>4 DEF u
<1>7. Word = 8 * (BlockSize * q)
  <2>1. u * q \in Int
    BY <1>3, <1>4
  <2> QED
    BY <1>4, <1>6, <2>1
<1> QED
  BY <1>1, <1>4, <1>5, <1>7

\* The low word says how many bytes wait in the buffer.
LEMMA LowWord ==
  ASSUME NEW n \in Nat
  PROVE  (((8 * n) % Word) \div 8) % BlockSize = n % BlockSize
<1> DEFINE B == BlockSize
<1>1. PICK q \in Nat \ {0} : Word = 8 * (B * q)
  BY WordSizes
<1>2. B \in Nat \ {0} /\ Word \in Nat \ {0}
  BY WordSizes
<1> HIDE DEF B
<1> DEFINE u == B * q
           p == n \div u
           r == n % u
           w == r \div B
           j == r % B
<1>3. u \in Nat \ {0}
  BY <1>2
<1>4. Word = 8 * u
  BY <1>1
<1> HIDE DEF u
<1>5. p \in Nat /\ r \in 0..u - 1 /\ n = u * p + r
  BY <1>3, Divided
<1> HIDE DEF p, r
<1>6. 8 * n = Word * p + 8 * r
  <2>1. 8 * n = 8 * (u * p) + 8 * r
    <3>1. u * p \in Int
      BY <1>3, <1>5
    <3> QED
      BY <1>5, <3>1
  <2>2. 8 * (u * p) = (8 * u) * p
    BY <1>3, <1>5
  <2> QED
    BY <1>4, <2>1, <2>2
<1>7. 8 * r \in 0..Word - 1
  BY <1>3, <1>4, <1>5
<1>8. (8 * n) % Word = 8 * r
  BY <1>2, <1>5, <1>6, <1>7, QuotientIs
<1>9. (8 * r) \div 8 = r
  BY <1>5
<1>10. w \in Nat /\ j \in 0..B - 1 /\ r = B * w + j
  <2>1. r \in Nat
    BY <1>5
  <2> QED
    BY <1>2, <2>1, Divided
<1> HIDE DEF w
<1>11. n = B * (q * p + w) + j
  <2>1. u * p = B * (q * p)
    BY <1>2, <1>5 DEF u
  <2>2. B * (q * p + w) = B * (q * p) + B * w
    BY <1>2, <1>5, <1>10
  <2>3. u * p \in Int /\ B * (q * p) \in Int /\ B * w \in Int
    BY <1>2, <1>3, <1>5, <1>10
  <2> HIDE DEF j
  <2> QED
    BY <1>5, <1>10, <2>1, <2>2, <2>3
<1>12. q * p + w \in Nat
  BY <1>5, <1>10
<1>13. n % B = j
  <2> HIDE DEF j
  <2> QED
    BY <1>2, <1>10, <1>11, <1>12, QuotientIs
<1> QED
  BY <1>8, <1>9, <1>13 DEF B

-----------------------------------------------------------------------------
(* Blocks                                                                  *)

Block(s, b) == SubSeq(s, (b - 1) * BlockSize + 1, b * BlockSize)
BlocksOf(s) == [b \in 1..Len(s) \div BlockSize |-> Block(s, b)]

\* The first w blocks of a sequence lie within it.
LEMMA BlockPlace ==
  ASSUME NEW w \in Nat, NEW b \in 1..w
  PROVE  /\ (b - 1) * BlockSize \in Nat /\ b * BlockSize = (b - 1) * BlockSize + BlockSize
         /\ b * BlockSize <= w * BlockSize
<1> DEFINE B == BlockSize
<1>1. B \in Nat \ {0}
  BY WordSizes
<1> HIDE DEF B
<1>2. (b - 1) * B \in Nat /\ b * B = (b - 1) * B + B
  BY <1>1
<1>3. b * B <= w * B
  BY <1>1
<1> QED
  BY <1>2, <1>3 DEF B

\* A block that lies within s has the bytes of s at its place.
LEMMA BlockIs ==
  ASSUME NEW S, NEW s \in Seq(S), NEW a \in Nat \ {0}, a * BlockSize <= Len(s)
  PROVE  /\ Block(s, a) \in Seq(S) /\ Len(Block(s, a)) = BlockSize
         /\ \A i \in 1..BlockSize : Block(s, a)[i] = s[(a - 1) * BlockSize + i]
<1> DEFINE B == BlockSize
           x == (a - 1) * B
           d == x + 1
           e == x + B
<1>1. B \in Nat \ {0} /\ Len(s) \in Nat
  BY WordSizes, LenProperties
<1>2. x \in Nat /\ a * B = e
  <2>1. a \in 1..a
    OBVIOUS
  <2> QED
    BY <2>1, BlockPlace
<1>3. Block(s, a) = SubSeq(s, d, e) /\ e <= Len(s)
  BY <1>2 DEF Block
<1> HIDE DEF B, x
<1>4. d \in Int /\ e \in Int /\ d <= e /\ e - d + 1 = B /\ \A i \in 1..B : d + i - 1 = x + i
  BY <1>1, <1>2
<1>5. \A i \in d..e : s[i] \in S
  BY <1>1, <1>2, <1>3, ElementOfSeq
<1> HIDE DEF d, e
<1>6. /\ SubSeq(s, d, e) \in Seq(S)
      /\ Len(SubSeq(s, d, e)) = IF d <= e THEN e - d + 1 ELSE 0
      /\ \A i \in 1..e - d + 1 : SubSeq(s, d, e)[i] = s[d + i - 1]
  BY <1>4, <1>5, SubSeqProperties
<1> QED
  BY <1>3, <1>4, <1>6 DEF B, x

\* Equal stretches of two sequences are equal blocks.
LEMMA SameBlock ==
  ASSUME NEW S, NEW s \in Seq(S), NEW t \in Seq(S), NEW a \in Nat \ {0}, NEW b \in Nat \ {0},
         a * BlockSize <= Len(s), b * BlockSize <= Len(t),
         \A i \in 1..BlockSize : s[(a - 1) * BlockSize + i] = t[(b - 1) * BlockSize + i]
  PROVE  Block(s, a) = Block(t, b)
<1>1. /\ Block(s, a) \in Seq(S) /\ Len(Block(s, a)) = BlockSize
      /\ \A i \in 1..BlockSize : Block(s, a)[i] = s[(a - 1) * BlockSize + i]
  BY BlockIs
<1>2. /\ Block(t, b) \in Seq(S) /\ Len(Block(t, b)) = BlockSize
      /\ \A i \in 1..BlockSize : Block(t, b)[i] = t[(b - 1) * BlockSize + i]
  BY BlockIs
<1>3. \A i \in 1..BlockSize : Block(s, a)[i] = Block(t, b)[i]
  BY <1>1, <1>2
<1> QED
  BY <1>1, <1>2, <1>3, SeqEqual

\* The context c has taken in the message m.
Holds(S, c, m) ==
  /\ c.blocks = BlocksOf(m)
  /\ c.count[1] = (8 * Len(m)) % Word
  /\ c.buffer \in Seq(S) /\ Len(c.buffer) = BlockSize
  /\ \A i \in 1..Len(m) % BlockSize : c.buffer[i] = m[BlockSize * (Len(m) \div BlockSize) + i]

\* What sha1_update() works on.
Waiting(c) == (c.count[1] \div 8) % BlockSize
Joined(c, data) == SubSeq(c.buffer, 1, Waiting(c)) \o data
WholeOf(c, data) == IF Full(Waiting(c) + Len(data)) THEN Len(Joined(c, data)) \div BlockSize ELSE 0
RestOf(c, data) == SubSeq(Joined(c, data), WholeOf(c, data) * BlockSize + 1, Len(Joined(c, data)))

\* The three fields that sha1_update() leaves (src/sha1.c:118-136).
LEMMA UpdatedFields ==
  ASSUME NEW c, NEW data
  PROVE  /\ Updated(c, data).blocks = c.blocks \o [b \in 1..WholeOf(c, data) |-> Block(Joined(c, data), b)]
         /\ Updated(c, data).count = Counted(c.count, Len(data))
         /\ Updated(c, data).buffer =
              [i \in 1..BlockSize |->
                 IF i <= Len(RestOf(c, data)) THEN RestOf(c, data)[i]
                 ELSE IF WholeOf(c, data) > 0 THEN Clobbered ELSE c.buffer[i]]
BY DEF Updated, Waiting, Joined, WholeOf, RestOf, Block

\* The bytes of m and data that are not in a block of m yet.
JoinedRight(S, c, m, data) ==
  /\ Waiting(c) = Len(m) % BlockSize
  /\ Joined(c, data) \in Seq(S) /\ Len(Joined(c, data)) = Waiting(c) + Len(data)
  /\ \A i \in 1..Waiting(c) + Len(data) :
       Joined(c, data)[i] = (m \o data)[BlockSize * (Len(m) \div BlockSize) + i]

\* The bytes that wait, and the new ones, are the end of all bytes there are.
LEMMA JoinedIs ==
  ASSUME NEW S, NEW m \in Seq(S), NEW data \in Seq(S), NEW c, Holds(S, c, m)
  PROVE  JoinedRight(S, c, m, data)
<1> DEFINE n == Len(m)
           l == Len(data)
           j == n % BlockSize
           x == BlockSize * (n \div BlockSize)
           head == SubSeq(c.buffer, 1, j)
<1>1. n \in Nat /\ l \in Nat /\ BlockSize \in Nat \ {0}
  BY LenProperties, WordSizes
<1>2. Waiting(c) = j
  BY <1>1, LowWord DEF Waiting, Holds
<1>3. j \in 0..BlockSize - 1 /\ x \in Nat /\ n = x + j
  <2>1. n \div BlockSize \in Nat /\ j \in 0..BlockSize - 1 /\ n = x + j
    BY <1>1, Divided
  <2> QED
    BY <1>1, <2>1
<1>4. /\ c.buffer \in Seq(S) /\ Len(c.buffer) = BlockSize
      /\ \A i \in 1..j : c.buffer[i] = m[x + i]
  BY DEF Holds
<1>5. Joined(c, data) = head \o data
  BY <1>2 DEF Joined
<1> HIDE DEF n, l, j, x, head
<1>6. head \in Seq(S) /\ Len(head) = j /\ \A i \in 1..j : head[i] = m[x + i]
  <2>1. \A i \in 1..j : c.buffer[i] \in S
    BY <1>1, <1>3, <1>4, ElementOfSeq
  <2>2. /\ SubSeq(c.buffer, 1, j) \in Seq(S)
        /\ Len(SubSeq(c.buffer, 1, j)) = IF 1 <= j THEN j - 1 + 1 ELSE 0
        /\ \A i \in 1..j - 1 + 1 : SubSeq(c.buffer, 1, j)[i] = c.buffer[1 + i - 1]
    BY <1>3, <2>1, SubSeqProperties
  <2>3. \A i \in 1..j : i \in 1..j - 1 + 1 /\ 1 + i - 1 = i
    BY <1>3
  <2> QED
    BY <1>3, <1>4, <2>2, <2>3 DEF head
<1>7. /\ head \o data \in Seq(S) /\ Len(head \o data) = j + l
      /\ \A i \in 1..j + l : (head \o data)[i] = IF i <= j THEN head[i] ELSE data[i - j]
  BY <1>6, ConcatProperties DEF l
<1>8. \A i \in 1..n + l : (m \o data)[i] = IF i <= n THEN m[i] ELSE data[i - n]
  BY ConcatProperties DEF l, n
<1>9. ASSUME NEW i \in 1..j + l PROVE (head \o data)[i] = (m \o data)[x + i]
  <2>1. x + i \in 1..n + l
    BY <1>1, <1>3
  <2>2. CASE i <= j
    <3>1. x + i <= n /\ i \in 1..j
      BY <1>1, <1>3, <2>2
    <3> QED
      BY <1>6, <1>7, <1>8, <2>1, <2>2, <3>1
  <2>3. CASE i > j
    <3>1. ~(x + i <= n) /\ ~(i <= j) /\ (x + i) - n = i - j
      BY <1>1, <1>3, <2>3
    <3>2. (head \o data)[i] = data[i - j]
      BY <1>7, <3>1
    <3>3. (m \o data)[x + i] = data[(x + i) - n]
      BY <1>8, <2>1, <3>1
    <3> QED
      BY <3>1, <3>2, <3>3
  <2>4. i <= j \/ i > j
    BY <1>1, <1>3
  <2> QED
    BY <2>2, <2>3, <2>4
<1> QED
  BY <1>2, <1>5, <1>7, <1>9 DEF j, l, x, n, JoinedRight

\* sha1_update() takes in data behind what there was.
LEMMA UpdatedHolds ==
  ASSUME NEW S, Clobbered \in S, NEW m \in Seq(S), NEW data \in Seq(S), NEW c, Holds(S, c, m)
  PROVE  Holds(S, Updated(c, data), m \o data)
<1>1. /\ Waiting(c) = Len(m) % BlockSize
      /\ Joined(c, data) \in Seq(S) /\ Len(Joined(c, data)) = Waiting(c) + Len(data)
      /\ \A i \in 1..Waiting(c) + Len(data) :
           Joined(c, data)[i] = (m \o data)[BlockSize * (Len(m) \div BlockSize) + i]
  <2>1. JoinedRight(S, c, m, data)
    BY JoinedIs
  <2> QED
    BY <2>1 DEF JoinedRight
<1>2. /\ Updated(c, data).blocks = c.blocks \o [b \in 1..WholeOf(c, data) |-> Block(Joined(c, data), b)]
      /\ Updated(c, data).count = Counted(c.count, Len(data))
      /\ Updated(c, data).buffer =
           [i \in 1..BlockSize |->
              IF i <= Len(RestOf(c, data)) THEN RestOf(c, data)[i]
              ELSE IF WholeOf(c, data) > 0 THEN Clobbered ELSE c.buffer[i]]
  BY UpdatedFields
<1>3. Counted(c.count, Len(data))[1] = (c.count[1] + 8 * Len(data)) % Word
  BY DEF Counted
<1> DEFINE B == BlockSize
           n == Len(m)
           l == Len(data)
           w == n \div B
           j == n % B
           all == Joined(c, data)
           md == m \o data
           v == (j + l) \div B
           r == (j + l) % B
           u == Updated(c, data)
           rest == RestOf(c, data)
<1>4. B \in Nat \ {0} /\ n \in Nat /\ l \in Nat
  BY WordSizes, LenProperties
<1>5. w \in Nat /\ j \in 0..B - 1 /\ n = B * w + j
  BY <1>4, Divided
<1>6. j + l \in Nat /\ v \in Nat /\ r \in 0..B - 1 /\ j + l = B * v + r
  <2>1. j + l \in Nat
    BY <1>4, <1>5
  <2> QED
    BY <1>4, <2>1, Divided
<1>7. /\ Waiting(c) = j /\ all \in Seq(S) /\ Len(all) = j + l
      /\ \A i \in 1..j + l : all[i] = md[B * w + i]
  BY <1>1
<1>8. WholeOf(c, data) = v
  <2>1. WholeOf(c, data) = IF j + l > B - 1 THEN v ELSE 0
    BY <1>7 DEF WholeOf, Full
  <2>2. ~(j + l > B - 1) => v = 0
    <3> SUFFICES ASSUME ~(j + l > B - 1) PROVE v = 0
      OBVIOUS
    <3>1. j + l \in 0..B - 1 /\ j + l = B * 0 + (j + l)
      BY <1>4, <1>6
    <3> QED
      BY <1>4, <3>1, QuotientIs
  <2> QED
    BY <2>1, <2>2
<1>9. md \in Seq(S) /\ Len(md) = n + l
      /\ \A i \in 1..n + l : md[i] = IF i <= n THEN m[i] ELSE data[i - n]
  BY ConcatProperties
<1>10. u.blocks = BlocksOf(m) \o [b \in 1..v |-> Block(all, b)]
  BY <1>2, <1>8 DEF Holds
<1>11. u.buffer = [i \in 1..B |-> IF i <= Len(rest) THEN rest[i]
                                  ELSE IF v > 0 THEN Clobbered ELSE c.buffer[i]]
  BY <1>2, <1>8
<1>12. u.count[1] = (c.count[1] + 8 * l) % Word
  BY <1>2, <1>3
<1>13. rest = SubSeq(all, v * B + 1, j + l)
  BY <1>7, <1>8 DEF RestOf
<1>14. BlocksOf(m) = [b \in 1..w |-> Block(m, b)]
  BY DEF BlocksOf
<1>15. BlocksOf(md) = [b \in 1..(n + l) \div B |-> Block(md, b)]
  BY <1>9 DEF BlocksOf
<1>16. c.count[1] = (8 * n) % Word /\ c.buffer \in Seq(S) /\ Len(c.buffer) = B
  BY DEF Holds
<1> HIDE DEF n, l, w, j, all, md, v, r, u, rest
<1>17. /\ w + v \in Nat /\ n + l = B * (w + v) + r
       /\ (n + l) \div B = w + v /\ (n + l) % B = r
  <2>1. B * (w + v) = B * w + B * v
    BY <1>4, <1>5, <1>6
  <2>2. B * w \in Int /\ B * v \in Int
    BY <1>4, <1>5, <1>6
  <2>3. w + v \in Nat /\ n + l = B * (w + v) + r
    BY <1>4, <1>5, <1>6, <2>1, <2>2
  <2> DEFINE a == n + l
             k == w + v
  <2>4. a \div B = k /\ a % B = r
    <3>1. k \in Nat /\ a = B * k + r
      BY <2>3
    <3> HIDE DEF a, k, B
    <3> QED
      BY <1>4, <1>6, <3>1, QuotientIs
  <2> QED
    BY <2>3, <2>4
<1>18. v * B = B * v /\ w * B = B * w /\ B * v \in Nat /\ B * w \in Nat
       /\ B * (w + v) = B * w + B * v /\ (w + v) * B = B * w + B * v
  BY <1>4, <1>5, <1>6
<1>19. u.blocks = BlocksOf(md)
  <2>1. \A b \in 1..w : Block(m, b) = Block(md, b)
    <3> SUFFICES ASSUME NEW b \in 1..w PROVE Block(m, b) = Block(md, b)
      OBVIOUS
    <3>1. (b - 1) * B \in Nat /\ b * B = (b - 1) * B + B /\ b * B <= w * B
      BY <1>5, BlockPlace
    <3> DEFINE x == (b - 1) * B
               y == b * B
    <3>2. x \in Nat /\ y = x + B /\ y <= w * B
      BY <3>1
    <3> HIDE DEF x, y, B
    <3>3. y <= n /\ y <= n + l /\ \A i \in 1..B : x + i \in 1..n + l /\ x + i <= n
      BY <1>4, <1>5, <1>18, <3>2
    <3>4. \A i \in 1..B : m[x + i] = md[x + i]
      BY <1>9, <3>3
    <3>5. b \in Nat \ {0} /\ Len(m) = n /\ Len(md) = n + l
      BY <1>5, <1>9 DEF n
    <3> QED
      BY <1>9, <3>3, <3>4, <3>5, SameBlock DEF x, y, B
  <2>2. \A b \in 1..v : Block(all, b) = Block(md, w + b)
    <3> SUFFICES ASSUME NEW b \in 1..v PROVE Block(all, b) = Block(md, w + b)
      OBVIOUS
    <3>1. (b - 1) * B \in Nat /\ b * B = (b - 1) * B + B /\ b * B <= v * B
      BY <1>6, BlockPlace
    <3>2. ((w + b) - 1) * B = B * w + (b - 1) * B /\ (w + b) * B = B * w + b * B
      BY <1>4, <1>5, <1>6
    <3> DEFINE x == (b - 1) * B
               y == b * B
               z == B * w
    <3>3. x \in Nat /\ y = x + B /\ y <= v * B /\ z \in Nat
      BY <1>18, <3>1
    <3>4. ((w + b) - 1) * B = z + x /\ (w + b) * B = z + y
      BY <3>2
    <3>5. \A i \in 1..j + l : all[i] = md[z + i]
      BY <1>7
    <3>6. y <= j + l /\ z + y <= n + l
      <4>1. v * B = B * v /\ B * v \in Nat /\ j + l = B * v + r /\ n = z + j
        BY <1>5, <1>6, <1>18
      <4> HIDE DEF x, y, z, B
      <4> QED
        BY <1>4, <1>5, <1>6, <3>3, <4>1
    <3> HIDE DEF x, y, z, B
    <3>7. \A i \in 1..B : x + i \in 1..j + l /\ z + (x + i) = (z + x) + i
      BY <1>4, <1>5, <3>3, <3>6
    <3>8. \A i \in 1..B : all[x + i] = md[(z + x) + i]
      BY <3>5, <3>7
    <3>9. b \in Nat \ {0} /\ w + b \in Nat \ {0}
      BY <1>5, <1>6
    <3>10. \A i \in 1..BlockSize : all[(b - 1) * BlockSize + i] = md[((w + b) - 1) * BlockSize + i]
      BY <3>4, <3>8 DEF B, x
    <3>11. b * BlockSize <= Len(all) /\ (w + b) * BlockSize <= Len(md)
      BY <1>7, <1>9, <3>4, <3>6 DEF B, y
    <3> QED
      BY <1>7, <1>9, <3>9, <3>10, <3>11, SameBlock
  <2> DEFINE s == [b \in 1..w |-> Block(m, b)]
             t == [b \in 1..v |-> Block(all, b)]
             f == [b \in 1..w + v |-> Block(md, b)]
             T == Seq(S)
  <2>3. s \in Seq(T) /\ Len(s) = w /\ t \in Seq(T) /\ Len(t) = v /\ f \in Seq(T) /\ Len(f) = w + v
    <3>1. \A b \in 1..w + v : Block(md, b) \in T
      <4> SUFFICES ASSUME NEW b \in 1..w + v PROVE Block(md, b) \in T
        OBVIOUS
      <4>1. b \in Nat \ {0} /\ b * B <= (w + v) * B
        BY <1>17, BlockPlace
      <4> DEFINE y == b * B
      <4>2. y <= n + l
        <5>1. y \in Int /\ y <= B * w + B * v
          BY <1>4, <1>18, <4>1
        <5>2. n + l = (B * w + B * v) + r
          BY <1>17, <1>18
        <5> HIDE DEF y
        <5> QED
          BY <1>4, <1>6, <1>18, <5>1, <5>2
      <4> QED
        BY <1>9, <4>1, <4>2, BlockIs
    <3>2. \A b \in 1..w : b \in 1..w + v
      BY <1>5, <1>6
    <3>3. \A b \in 1..v : w + b \in 1..w + v
      BY <1>5, <1>6
    <3>4. (\A b \in 1..w : Block(m, b) \in T) /\ (\A b \in 1..v : Block(all, b) \in T)
      BY <2>1, <2>2, <3>1, <3>2, <3>3
    <3> HIDE DEF T
    <3> QED
      BY <1>5, <1>6, <1>17, <3>1, <3>4
  <2>4. /\ s \o t \in Seq(T) /\ Len(s \o t) = w + v
        /\ \A i \in 1..w + v : (s \o t)[i] = IF i <= w THEN s[i] ELSE t[i - w]
    <3> HIDE DEF s, t, T
    <3> QED
      BY <2>3, ConcatProperties
  <2>5. \A i \in 1..w + v : (s \o t)[i] = f[i]
    <3> SUFFICES ASSUME NEW i \in 1..w + v PROVE (s \o t)[i] = f[i]
      OBVIOUS
    <3>1. f[i] = Block(md, i)
      OBVIOUS
    <3>2. CASE i <= w
      <4>1. i \in 1..w
        BY <1>5, <1>6, <3>2
      <4>2. s[i] = Block(m, i)
        BY <4>1
      <4> HIDE DEF s, t, f
      <4> QED
        BY <2>1, <2>4, <3>1, <3>2, <4>1, <4>2
    <3>3. CASE ~(i <= w)
      <4>1. i - w \in 1..v /\ w + (i - w) = i
        BY <1>5, <1>6, <3>3
      <4>2. t[i - w] = Block(all, i - w)
        BY <4>1
      <4>3. Block(all, i - w) = Block(md, i)
        BY <2>2, <4>1
      <4> HIDE DEF s, t, f
      <4> QED
        BY <2>4, <3>1, <3>3, <4>2, <4>3
    <3> QED
      BY <3>2, <3>3
  <2>6. s \o t = f
    <3> HIDE DEF s, t, f, T
    <3> QED
      BY <2>3, <2>4, <2>5, SeqEqual
  <2>7. u.blocks = s \o t /\ BlocksOf(md) = f
    BY <1>10, <1>14, <1>15, <1>17
  <2> QED
    BY <2>6, <2>7
<1>20. u.count[1] = (8 * Len(md)) % Word
  <2>1. (((8 * n) % Word) + 8 * l) % Word = (8 * (n + l)) % Word
    <3> DEFINE a == 8 * n
               q == a \div Word
               p == a % Word
               d == p + 8 * l
               g == d \div Word
               h == d % Word
    <3>1. Word \in Nat \ {0} /\ a \in Nat
      BY <1>4, WordSizes
    <3>2. q \in Nat /\ p \in 0..Word - 1 /\ a = Word * q + p
      BY <3>1, Divided
    <3> HIDE DEF q, p
    <3>3. d \in Nat
      BY <1>4, <3>1, <3>2
    <3>4. g \in Nat /\ h \in 0..Word - 1 /\ d = Word * g + h
      BY <3>1, <3>3, Divided
    <3> HIDE DEF g, h
    <3>5. 8 * (n + l) = Word * (q + g) + h
      <4>1. Word * (q + g) = Word * q + Word * g
        BY <3>1, <3>2, <3>4
      <4>2. Word * q \in Int /\ Word * g \in Int
        BY <3>1, <3>2, <3>4
      <4>3. 8 * (n + l) = a + 8 * l
        BY <1>4
      <4>4. Word * q + p = a /\ Word * g + h = p + 8 * l
        BY <3>2, <3>4
      <4> HIDE DEF a, d
      <4> QED
        BY <1>4, <3>1, <3>2, <3>4, <4>1, <4>2, <4>3, <4>4
    <3>6. q + g \in Nat
      BY <3>2, <3>4
    <3>7. (8 * (n + l)) % Word = h
      <4> DEFINE k == q + g
                 o == 8 * (n + l)
      <4>1. k \in Nat /\ o = Word * k + h
        BY <3>5, <3>6
      <4> HIDE DEF k, o
      <4>2. o % Word = h
        BY <3>1, <3>4, <4>1, QuotientIs
      <4> QED
        BY <4>2 DEF o
    <3> QED
      BY <3>7 DEF p, h
  <2> QED
    BY <1>9, <1>12, <1>16, <2>1
<1>21. rest \in Seq(S) /\ Len(rest) = r /\ \A i \in 1..r : rest[i] = all[B * v + i]
  <2> DEFINE x == B * v
  <2>1. x \in Nat /\ v * B + 1 = x + 1 /\ j + l = x + r
    BY <1>6, <1>18
  <2>2. rest = SubSeq(all, x + 1, x + r)
    BY <1>13, <2>1
  <2> HIDE DEF x
  <2>3. \A i \in x + 1..x + r : all[i] \in S
    BY <1>6, <1>7, <2>1, ElementOfSeq
  <2> DEFINE d == x + 1
             e == x + r
  <2>4. d \in Int /\ e \in Int /\ (IF d <= e THEN e - d + 1 ELSE 0) = r /\ e - d + 1 = r
        /\ \A i \in 1..r : d + i - 1 = x + i
    BY <1>4, <1>6, <2>1
  <2>5. \A i \in d..e : all[i] \in S
    BY <2>3
  <2> HIDE DEF d, e
  <2>6. /\ SubSeq(all, d, e) \in Seq(S)
        /\ Len(SubSeq(all, d, e)) = IF d <= e THEN e - d + 1 ELSE 0
        /\ \A i \in 1..e - d + 1 : SubSeq(all, d, e)[i] = all[d + i - 1]
    BY <2>4, <2>5, SubSeqProperties
  <2> QED
    BY <2>2, <2>4, <2>6 DEF d, e, x
<1>22. /\ u.buffer \in Seq(S) /\ Len(u.buffer) = B
       /\ \A i \in 1..r : u.buffer[i] = rest[i]
  <2>1. \A i \in 1..B : (IF i <= Len(rest) THEN rest[i]
                         ELSE IF v > 0 THEN Clobbered ELSE c.buffer[i]) \in S
    <3> SUFFICES ASSUME NEW i \in 1..B
                 PROVE  (IF i <= Len(rest) THEN rest[i]
                         ELSE IF v > 0 THEN Clobbered ELSE c.buffer[i]) \in S
      OBVIOUS
    <3>1. c.buffer[i] \in S
      BY <1>16, ElementOfSeq
    <3>2. i <= Len(rest) => rest[i] \in S
      <4>1. i <= Len(rest) => i \in 1..Len(rest)
        BY <1>4, <1>6, <1>21
      <4> QED
        BY <1>21, <4>1, ElementOfSeq
    <3> QED
      BY <3>1, <3>2
  <2>2. \A i \in 1..r : i \in 1..B /\ i <= Len(rest)
    BY <1>4, <1>6, <1>21
  <2> QED
    BY <1>4, <1>11, <2>1, <2>2
<1>23. \A i \in 1..r : u.buffer[i] = md[B * (w + v) + i]
  <2> SUFFICES ASSUME NEW i \in 1..r PROVE u.buffer[i] = md[B * (w + v) + i]
    OBVIOUS
  <2> DEFINE x == B * v
             z == B * w
  <2>1. x \in Nat /\ z \in Nat /\ B * (w + v) = z + x /\ j + l = x + r
    BY <1>6, <1>18
  <2>2. u.buffer[i] = all[x + i] /\ \A k \in 1..j + l : all[k] = md[z + k]
    BY <1>7, <1>21, <1>22
  <2> HIDE DEF x, z
  <2>3. x + i \in 1..j + l /\ z + (x + i) = (z + x) + i
    BY <1>4, <1>6, <2>1
  <2> QED
    BY <2>1, <2>2, <2>3
<1> QED
  <2>1. Len(md) = n + l /\ Len(md) % B = r /\ Len(md) \div B = w + v
    BY <1>9, <1>17
  <2> QED
    BY <1>19, <1>20, <1>22, <1>23, <2>1 DEF Holds, u, md

-----------------------------------------------------------------------------
(* Padding                                                                 *)

PadStep(c, p, k) ==
  IF k = 0 THEN Updated(c, <<"80">>)
  ELSE IF (p[k - 1].count[1] \div 8) % BlockSize = BlockSize - LengthSize THEN p[k - 1]
  ELSE Updated(p[k - 1], <<"00">>)

Padding(c, n, p) == p = [k \in 0..n |-> PadStep(c, p, k)]

\* Each state of the loop in sha1_finish() is made from the one before.
LEMMA PaddingFacts ==
  ASSUME NEW c, NEW n \in Nat, NEW p, Padding(c, n, p)
  PROVE  \A k \in 0..n : p[k] = PadStep(c, p, k)
<1> DEFINE G(x) == [k \in 0..n |-> PadStep(c, x, k)]
<1>1. p = G(p)
  BY DEF Padding
<1>2. \A k \in 0..n : G(p)[k] = PadStep(c, p, k)
  OBVIOUS
<1> HIDE DEF G
<1> QED
  BY <1>1, <1>2

\* The loop can go one round further.
LEMMA PaddingExtends ==
  ASSUME NEW c, NEW n \in Nat, NEW g, Padding(c, n, g)
  PROVE  \E h : Padding(c, n + 1, h)
<1> DEFINE h == [k \in 0..n + 1 |-> IF k = n + 1 THEN PadStep(c, g, k) ELSE g[k]]
<1>1. \A k \in 0..n : k \in 0..n + 1 /\ h[k] = g[k]
  OBVIOUS
<1>2. \A k \in 0..n + 1 : h[k] = PadStep(c, g, k)
  <2>1. \A k \in 0..n + 1 : k \in 0..n \/ k = n + 1
    OBVIOUS
  <2>2. h[n + 1] = PadStep(c, g, n + 1)
    OBVIOUS
  <2> HIDE DEF h
  <2> QED
    BY <1>1, <2>1, <2>2, PaddingFacts
<1>3. \A k \in 0..n + 1 : PadStep(c, h, k) = PadStep(c, g, k)
  <2> SUFFICES ASSUME NEW k \in 0..n + 1 PROVE PadStep(c, h, k) = PadStep(c, g, k)
    OBVIOUS
  <2>1. CASE k = 0
    BY <2>1 DEF PadStep
  <2>2. CASE k # 0
    <3>1. k - 1 \in 0..n
      BY <2>2
    <3>2. h[k - 1] = g[k - 1]
      BY <1>1, <3>1
    <3> HIDE DEF h
    <3> QED
      BY <3>2 DEF PadStep
  <2> QED
    BY <2>1, <2>2
<1>4. h = [k \in 0..n + 1 |-> h[k]]
  OBVIOUS
<1> HIDE DEF h
<1>5. h = [k \in 0..n + 1 |-> PadStep(c, h, k)]
  BY <1>2, <1>3, <1>4
<1> QED
  BY <1>5 DEF Padding

\* The loop can go any number of rounds.
LEMMA PaddingExists ==
  ASSUME NEW c, NEW n \in Nat
  PROVE  \E p : Padding(c, n, p)
<1> DEFINE Bad == {m \in Nat : ~\E p : Padding(c, m, p)}
<1> SUFFICES ASSUME Bad # {} PROVE FALSE
  OBVIOUS
<1>1. PICK m \in Bad : \A k \in Bad : ~(<<k, m>> \in OpToRel(<, Nat))
  <2>1. Bad \subseteq Nat
    OBVIOUS
  <2> HIDE DEF Bad
  <2> QED
    BY <2>1, NatLessThanWellFounded, WFMin
<1>2. CASE m = 0
  <2> DEFINE g == [k \in 0..0 |-> Updated(c, <<"80">>)]
  <2>1. g = [k \in 0..0 |-> PadStep(c, g, k)]
    BY DEF PadStep
  <2> HIDE DEF g
  <2> QED
    BY <1>2, <2>1 DEF Padding
<1>3. CASE m # 0
  <2>1. m - 1 \in Nat /\ (m - 1) + 1 = m /\ m - 1 < m
    BY <1>3
  <2>2. <<m - 1, m>> \in OpToRel(<, Nat)
    BY <2>1 DEF OpToRel
  <2>3. PICK g : Padding(c, m - 1, g)
    BY <1>1, <2>1, <2>2
  <2> QED
    BY <2>1, <2>3, PaddingExtends
<1> QED
  BY <1>2, <1>3

\* The zeroes that the standard asks for, behind n bytes and an "80".
Zeroes(n) == (BlockSize - ((n + 1 + LengthSize) % BlockSize)) % BlockSize

\* The loop stops when it has put them, and no sooner.
LEMMA WhenPadded ==
  ASSUME NEW n \in Nat
  PROVE  /\ Zeroes(n) \in 0..BlockSize - 1
         /\ \A k \in 0..Zeroes(n) :
              (n + 1 + k) % BlockSize = BlockSize - LengthSize <=> k = Zeroes(n)
<1> DEFINE B == BlockSize
           a == n + 3
           q == a \div B
           r == a % B
           z == IF r = 0 THEN 0 ELSE B - r
<1>1. B \in Nat \ {0} /\ B > 2 /\ LengthSize = 2 /\ a \in Nat
  BY WordSizes
<1>2. q \in Nat /\ r \in 0..B - 1 /\ a = B * q + r
  BY <1>1, Divided
<1>3. n + 1 + LengthSize = a
  BY <1>1
<1>4. Zeroes(n) = (B - r) % B
  BY <1>3 DEF Zeroes
<1> HIDE DEF B, q, r
<1>5. (B - r) % B = z
  <2>1. CASE r = 0
    <3>1. B - r = B * 1 + 0 /\ 0 \in 0..B - 1
      BY <1>1, <2>1
    <3> DEFINE x == B - r
    <3>2. x = B * 1 + 0 /\ 1 \in Nat
      BY <3>1
    <3> HIDE DEF x
    <3>3. x % B = 0
      BY <1>1, <3>1, <3>2, QuotientIs
    <3> QED
      BY <2>1, <3>3 DEF x
  <2>2. CASE r # 0
    <3> DEFINE x == B - r
    <3>1. x = B * 0 + x /\ x \in 0..B - 1 /\ 0 \in Nat
      BY <1>1, <1>2, <2>2
    <3> HIDE DEF x
    <3>2. x % B = x
      BY <1>1, <3>1, QuotientIs
    <3> QED
      BY <2>2, <3>2 DEF x
  <2> QED
    BY <2>1, <2>2
<1>6. z \in 0..B - 1
  BY <1>1, <1>2
<1>7. ASSUME NEW k \in 0..z PROVE (n + 1 + k) % B = B - 2 <=> k = z
  <2> DEFINE x == n + 1 + k
             y == r + k - 2
  <2>1. B * q \in Nat /\ x = B * q + y /\ x \in Nat
    <3>1. B * q \in Nat
      BY <1>1, <1>2
    <3> QED
      BY <1>1, <1>2, <1>6, <3>1 DEF a
  <2>2. CASE y >= 0
    <3>1. y \in 0..B - 1 /\ (y = B - 2 <=> k = z)
      BY <1>1, <1>2, <2>2
    <3>2. x % B = y
      <4>1. y \in 0..B - 1 /\ x = B * q + y
        BY <2>1, <3>1
      <4> HIDE DEF x, y
      <4> QED
        BY <1>1, <1>2, <4>1, QuotientIs
    <3> QED
      BY <3>1, <3>2
  <2>3. CASE y < 0
    <3>1. y + B \in 0..B - 1 /\ (y + B = B - 2 <=> k = z)
      BY <1>1, <1>2, <2>3
    <3>2. q - 1 \in Nat
      <4>1. q # 0
        <5> SUFFICES ASSUME q = 0 PROVE FALSE
          OBVIOUS
        <5>1. B * q = 0
          BY <1>1
        <5>2. y \in Int
          BY <1>1, <1>2
        <5> HIDE DEF x, y
        <5> QED
          BY <2>1, <2>3, <5>1, <5>2
      <4> QED
        BY <1>2, <4>1
    <3> DEFINE p == q - 1
               w == y + B
    <3>3. B * p + B = B * q
      BY <1>1, <1>2
    <3>4. x = B * p + w
      <4>1. B * p \in Int
        BY <1>1, <3>2
      <4> HIDE DEF p
      <4> QED
        BY <1>1, <1>2, <2>1, <3>3, <4>1
    <3>5. x % B = w
      <4>1. p \in Nat /\ w \in 0..B - 1
        BY <3>1, <3>2
      <4> HIDE DEF x, p, w
      <4> QED
        BY <1>1, <3>4, <4>1, QuotientIs
    <3> QED
      BY <3>1, <3>5
  <2>4. y >= 0 \/ y < 0
    BY <1>1, <1>2
  <2> QED
    BY <2>2, <2>3, <2>4
<1> QED
  BY <1>1, <1>4, <1>5, <1>6, <1>7 DEF B

Padded(m, k) == (m \o <<"80">>) \o [i \in 1..k |-> "00"]

\* A message with k zeroes behind it, and one more.
LEMMA PaddedFacts ==
  ASSUME NEW S, "80" \in S, "00" \in S, NEW m \in Seq(S), NEW k \in Nat
  PROVE  /\ Padded(m, k) \in Seq(S) /\ Len(Padded(m, k)) = Len(m) + 1 + k
         /\ Padded(m, 0) = m \o <<"80">>
         /\ Padded(m, k) \o <<"00">> = Padded(m, k + 1)
<1> DEFINE t == m \o <<"80">>
           Z(l) == [i \in 1..l |-> "00"]
           n == Len(m)
<1>1. t \in Seq(S) /\ Len(t) = n + 1 /\ n \in Nat
  <2>1. <<"80">> \in Seq(S) /\ Len(<<"80">>) = 1
    OBVIOUS
  <2> QED
    BY <2>1, ConcatProperties, LenProperties
<1>2. \A l \in Nat : /\ Z(l) \in Seq(S) /\ Len(Z(l)) = l
                     /\ \A i \in 1..l : Z(l)[i] = "00"
  OBVIOUS
<1>3. \A l \in Nat : Padded(m, l) = t \o Z(l)
  BY DEF Padded
<1> HIDE DEF t, Z, n
<1>4. \A l \in Nat : /\ t \o Z(l) \in Seq(S) /\ Len(t \o Z(l)) = n + 1 + l
                     /\ \A i \in 1..n + 1 + l :
                          (t \o Z(l))[i] = IF i <= n + 1 THEN t[i] ELSE "00"
  <2> SUFFICES ASSUME NEW l \in Nat
               PROVE  /\ t \o Z(l) \in Seq(S) /\ Len(t \o Z(l)) = n + 1 + l
                      /\ \A i \in 1..n + 1 + l :
                           (t \o Z(l))[i] = IF i <= n + 1 THEN t[i] ELSE "00"
    OBVIOUS
  <2> DEFINE z == Z(l)
             tz == t \o z
  <2>1. z \in Seq(S) /\ Len(z) = l /\ \A i \in 1..l : z[i] = "00"
    BY <1>2
  <2> HIDE DEF z
  <2>2. /\ tz \in Seq(S) /\ Len(tz) = n + 1 + l
        /\ \A i \in 1..n + 1 + l : tz[i] = IF i <= n + 1 THEN t[i] ELSE z[i - (n + 1)]
    <3>1. /\ tz \in Seq(S) /\ Len(tz) = Len(t) + Len(z)
          /\ \A i \in 1..Len(t) + Len(z) : tz[i] = IF i <= Len(t) THEN t[i] ELSE z[i - Len(t)]
      BY <1>1, <2>1, ConcatProperties
    <3> HIDE DEF tz
    <3> QED
      BY <1>1, <2>1, <3>1
  <2> HIDE DEF tz
  <2>3. \A i \in 1..n + 1 + l : ~(i <= n + 1) => i - (n + 1) \in 1..l
    BY <1>1
  <2>4. \A i \in 1..n + 1 + l : tz[i] = IF i <= n + 1 THEN t[i] ELSE "00"
    BY <2>1, <2>2, <2>3
  <2> QED
    BY <2>2, <2>4 DEF tz, z
<1>5. t \o Z(0) = t
  <2>1. Z(0) = <<>>
    BY DEF Z
  <2> QED
    BY <1>1, <2>1, ConcatEmptySeq
<1>6. (t \o Z(k)) \o <<"00">> = t \o Z(k + 1)
  <2> DEFINE a == t \o Z(k)
             b == t \o Z(k + 1)
             e == <<"00">>
  <2>1. /\ a \in Seq(S) /\ Len(a) = n + 1 + k
        /\ \A i \in 1..n + 1 + k : a[i] = IF i <= n + 1 THEN t[i] ELSE "00"
    BY <1>4
  <2>2. /\ b \in Seq(S) /\ Len(b) = n + 1 + (k + 1)
        /\ \A i \in 1..n + 1 + (k + 1) : b[i] = IF i <= n + 1 THEN t[i] ELSE "00"
    <3> DEFINE l == k + 1
    <3>1. l \in Nat
      OBVIOUS
    <3> HIDE DEF l
    <3>2. /\ t \o Z(l) \in Seq(S) /\ Len(t \o Z(l)) = n + 1 + l
          /\ \A i \in 1..n + 1 + l : (t \o Z(l))[i] = IF i <= n + 1 THEN t[i] ELSE "00"
      BY <1>4, <3>1
    <3> QED
      BY <3>2 DEF l
  <2>3. e \in Seq(S) /\ Len(e) = 1 /\ e[1] = "00"
    OBVIOUS
  <2> HIDE DEF a, b, e
  <2>4. /\ a \o e \in Seq(S) /\ Len(a \o e) = n + 1 + (k + 1)
        /\ \A i \in 1..n + 1 + (k + 1) :
             (a \o e)[i] = IF i <= n + 1 + k THEN a[i] ELSE e[i - (n + 1 + k)]
    <3> DEFINE ae == a \o e
    <3>1. /\ ae \in Seq(S) /\ Len(ae) = Len(a) + Len(e)
          /\ \A i \in 1..Len(a) + Len(e) : ae[i] = IF i <= Len(a) THEN a[i] ELSE e[i - Len(a)]
      BY <2>1, <2>3, ConcatProperties
    <3>2. Len(a) = n + 1 + k /\ Len(a) + Len(e) = n + 1 + (k + 1)
      BY <1>1, <2>1, <2>3
    <3> HIDE DEF ae
    <3>3. /\ ae \in Seq(S) /\ Len(ae) = n + 1 + (k + 1)
          /\ \A i \in 1..n + 1 + (k + 1) : ae[i] = IF i <= n + 1 + k THEN a[i] ELSE e[i - (n + 1 + k)]
      BY <3>1, <3>2
    <3> QED
      BY <3>3 DEF ae
  <2>5. \A i \in 1..n + 1 + (k + 1) : (a \o e)[i] = b[i]
    <3> SUFFICES ASSUME NEW i \in 1..n + 1 + (k + 1) PROVE (a \o e)[i] = b[i]
      OBVIOUS
    <3>1. CASE i <= n + 1 + k
      <4>1. i \in 1..n + 1 + k
        BY <1>1, <3>1
      <4> QED
        BY <2>1, <2>2, <2>4, <3>1, <4>1
    <3>2. CASE ~(i <= n + 1 + k)
      <4>1. i - (n + 1 + k) = 1 /\ ~(i <= n + 1)
        BY <1>1, <3>2
      <4> QED
        BY <2>2, <2>3, <2>4, <3>2, <4>1
    <3> QED
      BY <3>1, <3>2
  <2>6. a \o e = b
    BY <2>2, <2>4, <2>5, SeqEqual
  <2> QED
    BY <2>6 DEF a, b, e
<1>7. Padded(m, k) \in Seq(S) /\ Len(Padded(m, k)) = n + 1 + k
  BY <1>3, <1>4
<1>8. Padded(m, 0) = t /\ Padded(m, k) \o <<"00">> = Padded(m, k + 1)
  <2>1. Padded(m, 0) = t \o Z(0)
    BY DEF Padded, t, Z
  <2>2. Padded(m, k) = t \o Z(k)
    BY DEF Padded, t, Z
  <2>3. Padded(m, k + 1) = t \o Z(k + 1)
    BY DEF Padded, t, Z
  <2> QED
    BY <1>5, <1>6, <2>1, <2>2, <2>3
<1> QED
  BY <1>7, <1>8 DEF t, n

\* Behind a message, sha1_finish() puts what the standard asks for.
Standardized(m, high, low) == Padded(m, Zeroes(Len(m))) \o <<high, low>>

\* sha1_finish() puts behind a message what the standard asks for
\* (src/sha1.c:140-172).
LEMMA FinishedRight ==
  ASSUME NEW S, Clobbered \in S, "80" \in S, "00" \in S, Nat \subseteq S,
         NEW m \in Seq(S), NEW c, Holds(S, c, m), c.count[2] \in Nat
  PROVE  Finished(c).blocks = BlocksOf(Standardized(m, c.count[2], c.count[1]))
<1> DEFINE B == BlockSize
           n == Len(m)
           z == Zeroes(n)
           p == CHOOSE p : Padding(c, B, p)
           hl == <<c.count[2], c.count[1]>>
<1>1. B \in Nat \ {0} /\ n \in Nat
  BY WordSizes, LenProperties
<1>2. Padding(c, B, p) /\ Finished(c) = Updated(p[B], hl)
  <2>1. Padding(c, B, p)
    BY <1>1, PaddingExists
  <2>2. Finished(c) = Updated(p[B], hl)
    BY DEF Finished, Padding, PadStep
  <2> QED
    BY <2>1, <2>2
<1>3. z \in 0..B - 1 /\ \A k \in 0..z : (n + 1 + k) % B = B - LengthSize <=> k = z
  BY <1>1, WhenPadded
<1> HIDE DEF p, hl, z
<1>4. \A k \in 0..B : p[k] = PadStep(c, p, k)
  BY <1>1, <1>2, PaddingFacts
<1> DEFINE At(k) == IF k <= z THEN k ELSE z
           P(k) == Holds(S, p[k], Padded(m, At(k)))
           Bad == {k \in 0..B : ~P(k)}
<1>5. Bad = {}
  <2> SUFFICES ASSUME Bad # {} PROVE FALSE
    OBVIOUS
  <2>1. PICK k \in Bad : \A l \in Bad : ~(<<l, k>> \in OpToRel(<, Nat))
    <3>1. Bad \subseteq Nat
      BY <1>1
    <3> HIDE DEF Bad
    <3> QED
      BY <3>1, NatLessThanWellFounded, WFMin
  <2>2. k \in 0..B /\ k \in Nat /\ ~P(k)
    BY <1>1
  <2>3. CASE k = 0
    <3>1. p[0] = Updated(c, <<"80">>)
      BY <1>4, <2>2, <2>3 DEF PadStep
    <3>2. At(0) = 0
      BY <1>3
    <3>3. <<"80">> \in Seq(S)
      OBVIOUS
    <3>4. Holds(S, Updated(c, <<"80">>), m \o <<"80">>)
      BY <3>3, UpdatedHolds
    <3>5. Padded(m, 0) = m \o <<"80">>
      BY PaddedFacts
    <3>6. P(0)
      BY <3>1, <3>2, <3>4, <3>5
    <3> QED
      BY <2>2, <2>3, <3>6
  <2>4. CASE k # 0
    <3> DEFINE l == k - 1
               a == At(l)
               d == p[l]
    <3>1. l \in 0..B /\ l \in Nat /\ l + 1 = k /\ l < k
      BY <1>1, <2>2, <2>4
    <3>2. <<l, k>> \in OpToRel(<, Nat)
      BY <2>2, <3>1 DEF OpToRel
    <3>3. l \notin Bad
      BY <2>1, <3>2
    <3>4. Holds(S, d, Padded(m, a))
      BY <3>1, <3>3
    <3>5. a \in 0..z /\ a \in Nat
      BY <1>1, <1>3, <3>1
    <3>6. Waiting(d) = (n + 1 + a) % B
      <4>1. /\ Padded(m, a) \in Seq(S) /\ Len(Padded(m, a)) = n + 1 + a
        BY <3>5, PaddedFacts
      <4>2. d.count[1] = (8 * (n + 1 + a)) % Word
        BY <3>4, <4>1 DEF Holds
      <4>3. n + 1 + a \in Nat
        BY <1>1, <3>5
      <4> QED
        BY <4>2, <4>3, LowWord DEF Waiting
    <3>7. p[k] = IF Waiting(d) = B - LengthSize THEN d ELSE Updated(d, <<"00">>)
      BY <1>4, <2>2, <2>4 DEF PadStep, Waiting
    <3>8. Waiting(d) = B - LengthSize <=> a = z
      BY <1>3, <3>5, <3>6
    <3>9. CASE a = z
      <4>1. At(k) = z
        BY <1>1, <1>3, <3>1, <3>9
      <4>2. P(k)
        BY <3>4, <3>7, <3>8, <3>9, <4>1
      <4> QED
        BY <2>2, <4>2
    <3>10. CASE a # z
      <4>1. a = l /\ At(k) = a + 1
        BY <1>1, <1>3, <3>1, <3>10
      <4>2. Padded(m, a) \in Seq(S) /\ Padded(m, a) \o <<"00">> = Padded(m, a + 1)
        BY <3>5, PaddedFacts
      <4>3. <<"00">> \in Seq(S)
        OBVIOUS
      <4> HIDE DEF a, d
      <4>4. Holds(S, Updated(d, <<"00">>), Padded(m, a) \o <<"00">>)
        BY <3>4, <4>2, <4>3, UpdatedHolds
      <4>5. p[k] = Updated(d, <<"00">>)
        BY <3>7, <3>8, <3>10
      <4>6. P(k)
        BY <4>1, <4>2, <4>4, <4>5
      <4> QED
        BY <2>2, <4>6
    <3> QED
      BY <3>9, <3>10
  <2> QED
    BY <2>3, <2>4
<1>6. Holds(S, p[B], Padded(m, z))
  <2>1. B \in 0..B /\ At(B) = z
    BY <1>1, <1>3
  <2> QED
    BY <1>5, <2>1
<1>7. hl \in Seq(S) /\ Padded(m, z) \in Seq(S)
  <2>1. c.count[1] \in S /\ c.count[2] \in S
    <3> DEFINE x == 8 * n
    <3>1. x \in Nat /\ Word \in Nat \ {0}
      BY <1>1, WordSizes
    <3>2. x % Word \in Nat
      <4> HIDE DEF x
      <4> QED
        BY <3>1, Divided
    <3> QED
      BY <3>2 DEF Holds
  <2>2. z \in Nat
    BY <1>1, <1>3
  <2>3. Padded(m, z) \in Seq(S)
    BY <2>2, PaddedFacts
  <2>4. hl \in Seq(S)
    BY <2>1 DEF hl
  <2> QED
    BY <2>3, <2>4
<1>8. Holds(S, Updated(p[B], hl), Padded(m, z) \o hl)
  BY <1>6, <1>7, UpdatedHolds
<1> QED
  BY <1>2, <1>8 DEF Holds, Standardized, z, hl

-----------------------------------------------------------------------------
(* The number of bits                                                      *)

\* The rest of a sum is that of the sum with a rest.
LEMMA RestOfSum ==
  ASSUME NEW u \in Nat \ {0}, NEW a \in Nat, NEW b \in Nat
  PROVE  ((a % u) + b) % u = (a + b) % u
<1> DEFINE k == a \div u
           r == a % u
           v == r + b
           m == v \div u
           s == v % u
           w == a + b
<1>1. k \in Nat /\ r \in 0..u - 1 /\ a = u * k + r
  BY Divided
<1> HIDE DEF k, r
<1>2. v \in Nat
  BY <1>1
<1>3. m \in Nat /\ s \in 0..u - 1 /\ v = u * m + s
  <2> HIDE DEF v
  <2> QED
    BY <1>2, Divided
<1> HIDE DEF m, s
<1>4. u * k \in Int /\ u * m \in Int /\ u * (k + m) = u * k + u * m /\ k + m \in Nat
  BY <1>1, <1>3
<1>5. w = u * (k + m) + s
  BY <1>1, <1>3, <1>4
<1> DEFINE q == k + m
<1>6. w = u * q + s /\ q \in Nat
  BY <1>4, <1>5
<1> HIDE DEF w, q
<1>7. w % u = s
  BY <1>3, <1>6, QuotientIs
<1> QED
  BY <1>7 DEF w, s, v, r

\* Unless one piece has as many bits as a word can count, the high word takes
\* every carry, as far as it can count.
LEMMA CountedRight ==
  ASSUME NEW n \in Nat, NEW len \in Nat, NEW c, c[1] = (8 * n) % Word, c[2] \in Nat
  PROVE  /\ Counted(c, len)[2] \in 0..Word - 1
         /\ c[2] = ((8 * n) \div Word) % Word /\ 8 * len < Word
            => Counted(c, len)[2] = ((8 * (n + len)) \div Word) % Word
<1> DEFINE x == 8 * n
           d == 8 * len
           q == x \div Word
           r == x % Word
           carry == IF (r + d) % Word < d THEN 1 ELSE 0
<1>1. Word \in Nat \ {0} /\ x \in Nat /\ d \in Nat /\ 8 * (n + len) = x + d
  BY WordSizes
<1>2. Counted(c, len)[2] = (c[2] + carry + d \div Word) % Word
  BY DEF Counted
<1> HIDE DEF x, d
<1>3. q \in Nat /\ r \in 0..Word - 1 /\ x = Word * q + r
  BY <1>1, Divided
<1>4. d \div Word \in Nat
  BY <1>1, Divided
<1> HIDE DEF q, r
<1>5. carry \in {0, 1}
  OBVIOUS
<1>6. ASSUME d < Word
      PROVE  (x + d) \div Word = q + carry /\ d \div Word = 0
  <2>1. d \div Word = 0
    BY <1>1, <1>6, QuotientIs, Word * 0 + d = d, d \in 0..Word - 1
  <2>2. Word * q \in Int /\ Word * (q + 1) = Word * q + Word
    BY <1>1, <1>3
  <2>3. CASE r + d < Word
    <3>1. r + d \in 0..Word - 1 /\ x + d = Word * q + (r + d)
      BY <1>1, <1>3, <2>2, <2>3
    <3>2. (r + d) % Word = r + d /\ (x + d) \div Word = q
      <4> DEFINE e == r + d
                 y == x + d
      <4>1. e \in 0..Word - 1 /\ y = Word * q + e
        BY <3>1
      <4> HIDE DEF e, y
      <4>2. e % Word = e
        BY <1>1, <4>1, SmallRest
      <4>3. y \div Word = q
        BY <1>1, <1>3, <4>1, QuotientIs
      <4> QED
        BY <4>2, <4>3 DEF e, y
    <3>3. carry = 0
      BY <1>1, <1>3, <3>2
    <3> QED
      BY <1>3, <2>1, <3>2, <3>3
  <2>4. CASE ~(r + d < Word)
    <3>1. /\ r + d - Word \in 0..Word - 1 /\ r + d = Word + (r + d - Word)
          /\ x + d = Word * (q + 1) + (r + d - Word)
      BY <1>1, <1>3, <1>6, <2>2, <2>4
    <3>2. (r + d) % Word = r + d - Word /\ (x + d) \div Word = q + 1
      <4> DEFINE e == r + d - Word
                 y == x + d
                 v == r + d
                 k == q + 1
      <4>1. e \in 0..Word - 1 /\ v = Word + e /\ y = Word * k + e /\ k \in Nat
        BY <1>3, <3>1
      <4> HIDE DEF e, y, v, k
      <4>2. v % Word = e
        BY <1>1, <4>1, SmallRest
      <4>3. y \div Word = k
        BY <1>1, <4>1, QuotientIs
      <4> QED
        BY <4>2, <4>3 DEF e, y, v, k
    <3>3. carry = 1
      BY <1>1, <1>3, <1>6, <3>2
    <3> QED
      BY <1>3, <2>1, <3>2, <3>3
  <2> QED
    BY <2>3, <2>4
<1>7. Counted(c, len)[2] \in 0..Word - 1
  <2> DEFINE y == c[2] + carry + d \div Word
  <2>1. y \in Nat
    BY <1>4, <1>5
  <2> HIDE DEF y
  <2>2. y % Word \in 0..Word - 1
    BY <1>1, <2>1, Divided
  <2> QED
    BY <1>2, <2>2 DEF y
<1>8. ASSUME c[2] = q % Word, d < Word
      PROVE  Counted(c, len)[2] = ((x + d) \div Word) % Word
  <2>1. c[2] + carry + d \div Word = (q % Word) + carry
    BY <1>5, <1>6, <1>8
  <2>2. carry \in Nat
    BY <1>5
  <2> HIDE DEF carry
  <2>3. ((q % Word) + carry) % Word = (q + carry) % Word
    BY <1>1, <1>3, <2>2, RestOfSum
  <2> QED
    BY <1>2, <1>6, <1>8, <2>1, <2>3
<1> QED
  BY <1>1, <1>7, <1>8 DEF x, d, q

-----------------------------------------------------------------------------
(* The invariant                                                           *)

\* What a byte of a buffer or of a block may be.
Bytelike == Nat \cup {"80", "00", Clobbered}

\* The first n bytes of a message.
Message(n) == [i \in 1..n |-> i]

\* The context c has taken in the first n bytes; unless h, it knows how many
\* bits they are.
Taken(c, n, h) ==
  /\ Holds(Bytelike, c, Message(n))
  /\ c.count[2] \in 0..Word - 1
  /\ ~h => c.count[2] = ((8 * n) \div Word) % Word

BufferFits == buffer \in Seq(Bytelike) /\ Len(buffer) = BlockSize

Sha1Inv ==
  /\ BufferFits
  /\ total \in Nat /\ huge \in BOOLEAN
  /\ phase \in {"open", "fd"} => Taken(Here, total, huge)
  /\ DigestRight

\* The bytes of a message are numbered.
LEMMA MessageIs ==
  ASSUME NEW n \in Nat
  PROVE  /\ Message(n) \in Seq(Bytelike) /\ Len(Message(n)) = n
         /\ \A i \in 1..n : Message(n)[i] = i
BY DEF Message, Bytelike

\* The next bytes go on with the numbers.
LEMMA MessageGrows ==
  ASSUME NEW n \in Nat, NEW len \in Nat
  PROVE  /\ [i \in 1..len |-> n + i] \in Seq(Bytelike)
         /\ Len([i \in 1..len |-> n + i]) = len
         /\ Message(n) \o [i \in 1..len |-> n + i] = Message(n + len)
<1> DEFINE m == Message(n)
           data == [i \in 1..len |-> n + i]
           k == n + len
           all == Message(k)
<1>1. k \in Nat
  OBVIOUS
<1>2. m \in Seq(Bytelike) /\ Len(m) = n /\ \A i \in 1..n : m[i] = i
  BY MessageIs
<1>3. data \in Seq(Bytelike) /\ Len(data) = len /\ \A i \in 1..len : data[i] = n + i
  BY DEF Bytelike
<1> HIDE DEF k
<1>4. all \in Seq(Bytelike) /\ Len(all) = k /\ \A i \in 1..k : all[i] = i
  BY <1>1, MessageIs
<1> HIDE DEF m, data, all
<1>5. /\ m \o data \in Seq(Bytelike) /\ Len(m \o data) = Len(m) + Len(data)
      /\ \A i \in 1..Len(m) + Len(data) :
           (m \o data)[i] = IF i <= Len(m) THEN m[i] ELSE data[i - Len(m)]
  BY <1>2, <1>3, ConcatProperties
<1>6. Len(m) + Len(data) = k
  BY <1>2, <1>3 DEF k
<1>7. \A i \in 1..k : (m \o data)[i] = all[i]
  <2> SUFFICES ASSUME NEW i \in 1..k PROVE (m \o data)[i] = all[i]
    OBVIOUS
  <2>1. CASE i <= n
    <3>1. i \in 1..n
      BY <1>1, <2>1
    <3> QED
      BY <1>2, <1>4, <1>5, <1>6, <2>1, <3>1
  <2>2. CASE ~(i <= n)
    <3>1. i - n \in 1..len /\ n + (i - n) = i
      BY <1>1, <2>2 DEF k
    <3>2. (m \o data)[i] = data[i - n]
      BY <1>2, <1>5, <1>6, <2>2
    <3> QED
      BY <1>3, <1>4, <3>1, <3>2
  <2> QED
    BY <2>1, <2>2
<1>8. m \o data = all
  BY <1>4, <1>5, <1>6, <1>7, SeqEqual
<1> QED
  BY <1>3, <1>8 DEF m, data, all, k

\* A piece is taken in.
LEMMA TakenMore ==
  ASSUME NEW n \in Nat, NEW len \in Nat, NEW h \in BOOLEAN, NEW c, Taken(c, n, h)
  PROVE  Taken(Updated(c, [i \in 1..len |-> n + i]), n + len, h \/ 8 * len >= Word)
<1> DEFINE data == [i \in 1..len |-> n + i]
           u == Updated(c, data)
<1>1. /\ data \in Seq(Bytelike) /\ Len(data) = len
      /\ Message(n) \o data = Message(n + len)
  BY MessageGrows
<1>2. Message(n) \in Seq(Bytelike) /\ Len(Message(n)) = n /\ Clobbered \in Bytelike
  BY MessageIs DEF Bytelike
<1> HIDE DEF data
<1>3. Holds(Bytelike, u, Message(n + len))
  <2>1. Holds(Bytelike, c, Message(n))
    BY DEF Taken
  <2>2. Holds(Bytelike, u, Message(n) \o data)
    BY <1>1, <1>2, <2>1, UpdatedHolds
  <2> QED
    BY <1>1, <2>2
<1>4. u.count = Counted(c.count, len)
  BY <1>1, UpdatedFields
<1>5. /\ Counted(c.count, len)[2] \in 0..Word - 1
      /\ c.count[2] = ((8 * n) \div Word) % Word /\ 8 * len < Word
         => Counted(c.count, len)[2] = ((8 * (n + len)) \div Word) % Word
  <2>1. c.count[1] = (8 * n) % Word /\ c.count[2] \in Nat
    BY <1>2, WordSizes DEF Taken, Holds
  <2> QED
    BY <2>1, CountedRight
<1>6. ~(h \/ 8 * len >= Word) => u.count[2] = ((8 * (n + len)) \div Word) % Word
  <2> SUFFICES ASSUME ~h, ~(8 * len >= Word) PROVE u.count[2] = ((8 * (n + len)) \div Word) % Word
    OBVIOUS
  <2>1. c.count[2] = ((8 * n) \div Word) % Word
    BY DEF Taken
  <2>2. 8 * len < Word
    BY WordSizes
  <2> QED
    BY <1>4, <1>5, <2>1, <2>2
<1> QED
  BY <1>3, <1>4, <1>5, <1>6 DEF Taken, data

\* sha1_init() makes a context that has taken in nothing, whatever is left in
\* its buffer.
LEMMA TakenNothing ==
  ASSUME NEW b \in Seq(Bytelike), Len(b) = BlockSize, NEW h \in BOOLEAN
  PROVE  Taken([blocks |-> <<>>, count |-> <<0, 0>>, buffer |-> b], 0, h)
<1> DEFINE c == [blocks |-> <<>>, count |-> <<0, 0>>, buffer |-> b]
<1>1. c.blocks = <<>> /\ c.count[1] = 0 /\ c.count[2] = 0 /\ c.buffer = b
  OBVIOUS
<1> HIDE DEF c
<1>2. 0 \div Word = 0 /\ 0 % Word = 0 /\ 0 \div BlockSize = 0 /\ 0 % BlockSize = 0 /\ 8 * 0 = 0
  <2>1. \A u \in Nat \ {0} : 0 \div u = 0 /\ 0 % u = 0
    <3> TAKE u \in Nat \ {0}
    <3>1. 0 = u * 0 + 0 /\ 0 \in 0..u - 1
      OBVIOUS
    <3> QED
      BY <3>1, QuotientIs
  <2> QED
    BY <2>1, WordSizes
<1>3. Len(Message(0)) = 0
  BY MessageIs
<1>4. BlocksOf(Message(0)) = <<>>
  BY <1>2, <1>3 DEF BlocksOf
<1>5. Holds(Bytelike, c, Message(0))
  BY <1>1, <1>2, <1>3, <1>4 DEF Holds
<1>6. c.count[2] = ((8 * 0) \div Word) % Word /\ c.count[2] \in 0..Word - 1
  BY <1>1, <1>2, WordSizes
<1> QED
  BY <1>5, <1>6 DEF Taken, c

\* sha1_finish() leaves the checksum of what was taken in.
LEMMA TakenAll ==
  ASSUME NEW n \in Nat, NEW c, Taken(c, n, FALSE)
  PROVE  Finished(c).blocks = Standard(n)
<1>1. Message(n) \in Seq(Bytelike) /\ Len(Message(n)) = n
  BY MessageIs
<1>2. /\ Clobbered \in Bytelike /\ "80" \in Bytelike /\ "00" \in Bytelike /\ Nat \subseteq Bytelike
  BY DEF Bytelike
<1>3. /\ Holds(Bytelike, c, Message(n)) /\ c.count[2] \in Nat
      /\ c.count[2] = ((8 * n) \div Word) % Word
  BY WordSizes DEF Taken
<1>4. c.count[1] = (8 * n) % Word
  BY <1>1, <1>3 DEF Holds
<1>5. Finished(c).blocks = BlocksOf(Standardized(Message(n), c.count[2], c.count[1]))
  BY <1>1, <1>2, <1>3, FinishedRight
<1>6. Finished(c).blocks = BlocksOf(Standardized(Message(n), ((8 * n) \div Word) % Word, (8 * n) % Word))
  BY <1>3, <1>4, <1>5
<1>7. Standard(n) = BlocksOf(Standardized(Message(n), ((8 * n) \div Word) % Word, (8 * n) % Word))
  BY <1>1 DEF Standard, BlocksOf, Block, Standardized, Padded, Zeroes, Message
<1> QED
  BY <1>6, <1>7

\* A buffer after sha1_finish() has the size it had.
LEMMA AllWiped ==
  /\ [i \in 1..BlockSize |-> Clobbered] \in Seq(Bytelike)
  /\ Len([i \in 1..BlockSize |-> Clobbered]) = BlockSize
BY WordSizes DEF Bytelike

\* The invariant holds at first.
LEMMA InitDigest == Sha1Init => Sha1Inv
<1> SUFFICES ASSUME Sha1Init PROVE Sha1Inv
  OBVIOUS
<1>1. BufferFits
  BY AllWiped DEF Sha1Init, BufferFits
<1>2. Here = [blocks |-> <<>>, count |-> <<0, 0>>, buffer |-> buffer]
  BY DEF Sha1Init, Here
<1>3. Taken(Here, 0, FALSE)
  BY <1>1, <1>2, TakenNothing DEF BufferFits
<1> QED
  BY <1>1, <1>3 DEF Sha1Init, Sha1Inv, DigestRight

\* What Fresh leaves is right for a message of no bytes.
LEMMA FreshTaken == Sha1Inv /\ Fresh => BufferFits' /\ Taken(Here', 0, FALSE) /\ total' = 0 /\ huge' = FALSE
<1> SUFFICES ASSUME Sha1Inv, Fresh
             PROVE  BufferFits' /\ Taken(Here', 0, FALSE) /\ total' = 0 /\ huge' = FALSE
  OBVIOUS
<1>1. BufferFits'
  BY DEF Fresh, Sha1Inv, BufferFits
<1>2. Here' = [blocks |-> <<>>, count |-> <<0, 0>>, buffer |-> buffer']
  BY DEF Fresh, Here
<1>3. Taken(Here', 0, FALSE)
  BY <1>1, <1>2, TakenNothing DEF BufferFits
<1> QED
  BY <1>1, <1>3 DEF Fresh

\* sha1_update() takes in the next bytes of the message.
LEMMA AddTaken ==
  ASSUME Sha1Inv, NEW len \in Nat, phase \in {"open", "fd"}, Add(len)
  PROVE  BufferFits' /\ Taken(Here', total', huge') /\ total' \in Nat /\ huge' \in BOOLEAN
<1>1. total \in Nat /\ huge \in BOOLEAN /\ Taken(Here, total, huge)
  BY DEF Sha1Inv
<1>2. Taken(Updated(Here, Bytes(len)), total + len, huge \/ 8 * len >= Word)
  BY <1>1, TakenMore DEF Bytes
<1>3. total' = total + len /\ huge' = (huge \/ 8 * len >= Word)
  BY DEF Add
<1>4. /\ Here'.blocks = Updated(Here, Bytes(len)).blocks
      /\ Here'.count = Updated(Here, Bytes(len)).count
      /\ Here'.buffer = Updated(Here, Bytes(len)).buffer
      /\ buffer' = Updated(Here, Bytes(len)).buffer
  BY DEF Add, Become, Here
<1>5. Taken(Here', total', huge')
  BY <1>2, <1>3, <1>4 DEF Taken, Holds
<1>6. BufferFits'
  BY <1>2, <1>4 DEF Taken, Holds, BufferFits
<1>7. total' \in Nat
  BY <1>1, <1>3
<1>8. huge' \in BOOLEAN
  BY <1>3
<1> QED
  BY <1>5, <1>6, <1>7, <1>8

\* sha1_finish() ends a message with its checksum.
LEMMA FinishRight == Sha1Inv /\ phase \in {"open", "fd"} /\ Finish => Sha1Inv'
<1> SUFFICES ASSUME Sha1Inv, phase \in {"open", "fd"}, Finish PROVE Sha1Inv'
  OBVIOUS
<1>1. total \in Nat /\ huge \in BOOLEAN /\ Taken(Here, total, huge)
  BY DEF Sha1Inv
<1>2. BufferFits'
  BY AllWiped DEF Finish, BufferFits
<1>3. ~huge => Finished(Here).blocks = Standard(total)
  <2> SUFFICES ASSUME ~huge PROVE Finished(Here).blocks = Standard(total)
    OBVIOUS
  <2>1. Taken(Here, total, FALSE)
    BY <1>1 DEF Taken
  <2> QED
    BY <1>1, <2>1, TakenAll
<1>4. phase' = "done" /\ total' = total /\ huge' = huge /\ raw' = Finished(Here).blocks
  BY DEF Finish
<1>5. DigestRight'
  BY <1>3, <1>4 DEF DigestRight, Standard
<1> QED
  BY <1>1, <1>2, <1>4, <1>5 DEF Sha1Inv

\* sha1_data() makes the checksum of its message from any context.
LEMMA DataRight ==
  ASSUME Sha1Inv, NEW len \in Nat, Sha1Data(len)
  PROVE  Sha1Inv'
<1> DEFINE begun == [blocks |-> <<>>, count |-> <<0, 0>>, buffer |-> buffer]
           data == [i \in 1..len |-> i]
           c == Updated(begun, data)
<1>1. phase' = "done" /\ total' = len /\ huge' = (8 * len >= Word) /\ raw' = Finished(c).blocks
  BY DEF Sha1Data
<1>2. BufferFits'
  BY AllWiped DEF Sha1Data, BufferFits
<1>3. Taken(begun, 0, FALSE)
  BY TakenNothing DEF Sha1Inv, BufferFits
<1>4. data = [i \in 1..len |-> 0 + i] /\ 0 + len = len
  OBVIOUS
<1> HIDE DEF begun, data
<1>5. Taken(Updated(begun, [i \in 1..len |-> 0 + i]), 0 + len, FALSE \/ 8 * len >= Word)
  BY <1>3, TakenMore
<1>6. Taken(c, len, 8 * len >= Word)
  BY <1>4, <1>5
<1> HIDE DEF c
<1>7. ~(8 * len >= Word) => raw' = Standard(len)
  <2> SUFFICES ASSUME ~(8 * len >= Word) PROVE raw' = Standard(len)
    OBVIOUS
  <2>1. Taken(c, len, FALSE)
    BY <1>6 DEF Taken
  <2> QED
    BY <1>1, <2>1, TakenAll
<1>8. DigestRight'
  BY <1>1, <1>7 DEF DigestRight, Standard
<1> QED
  BY <1>1, <1>2, <1>8 DEF Sha1Inv

\* Every step keeps the invariant.
LEMMA DigestKept == Sha1Inv /\ [Sha1Next]_sha1Vars => Sha1Inv'
<1> SUFFICES ASSUME Sha1Inv, [Sha1Next]_sha1Vars PROVE Sha1Inv'
  OBVIOUS
<1>1. /\ BufferFits /\ total \in Nat /\ huge \in BOOLEAN
      /\ phase \in {"open", "fd"} => Taken(Here, total, huge)
      /\ DigestRight
  BY DEF Sha1Inv
<1>2. ASSUME Fresh, phase' \in {"open", "fd"} PROVE Sha1Inv'
  <2>1. BufferFits' /\ Taken(Here', 0, FALSE) /\ total' = 0 /\ huge' = FALSE
    BY <1>2, FreshTaken
  <2>2. DigestRight'
    BY <1>2 DEF DigestRight
  <2>3. (phase \in {"open", "fd"} => Taken(Here, total, huge))'
    BY <2>1
  <2> QED
    BY <2>1, <2>2, <2>3 DEF Sha1Inv
<1>3. ASSUME NEW len \in Nat, phase \in {"open", "fd"}, Add(len), phase' = phase PROVE Sha1Inv'
  BY <1>3, AddTaken DEF Sha1Inv, DigestRight
<1>4. CASE Sha1Renew
  BY <1>2, <1>4 DEF Sha1Renew
<1>5. CASE Sha1Finish
  BY <1>5, FinishRight DEF Sha1Finish
<1>6. CASE Sha1FdBegin
  BY <1>2, <1>6 DEF Sha1FdBegin
<1>7. CASE Sha1FdEnd
  BY <1>7, FinishRight DEF Sha1FdEnd
<1>8. CASE Sha1FdFails
  BY <1>1, <1>8 DEF Sha1FdFails, Sha1Inv, BufferFits, DigestRight
<1>9. CASE Sha1FileFails
  BY <1>2, <1>9 DEF Sha1FileFails
<1>10. ASSUME NEW len \in 0..MaxChunk, Sha1Update(len) \/ Sha1Data(len) \/ Sha1FdRead(len)
       PROVE  Sha1Inv'
  <2>1. len \in Nat
    BY Sha1Assumption
  <2>2. CASE Sha1Update(len)
    BY <1>3, <2>1, <2>2 DEF Sha1Update
  <2>3. CASE Sha1Data(len)
    BY <2>1, <2>3, DataRight
  <2>4. CASE Sha1FdRead(len)
    BY <1>3, <2>1, <2>4 DEF Sha1FdRead
  <2> QED
    BY <1>10, <2>2, <2>3, <2>4
<1>11. ASSUME NEW digest \in Digests \cup {<<>>}, Sha1Set(digest)
       PROVE  Sha1Inv'
  BY <1>1, <1>11 DEF Sha1Set, Sha1Inv, BufferFits, DigestRight
<1>12. CASE UNCHANGED sha1Vars
  BY <1>1, <1>12 DEF sha1Vars, Sha1Inv, BufferFits, Here, DigestRight, Standard
<1> QED
  BY <1>4, <1>5, <1>6, <1>7, <1>8, <1>9, <1>10, <1>11, <1>12 DEF Sha1Next

\* A checksum that sha1_finish(), sha1_data() or sha1_fd() leaves is that of the
\* message, whatever the pieces it came in and what was in the buffer before,
\* unless one piece had as many bits as a word can count (src/sha1.c:118-172).
THEOREM ChecksumsRight == Sha1Spec => []DigestRight
<1>1. Sha1Inv => DigestRight
  BY DEF Sha1Inv
<1> QED
  BY InitDigest, DigestKept, <1>1, PTL DEF Sha1Spec

-----------------------------------------------------------------------------
(* Types                                                                   *)

LEMMA BlocksFull ==
  ASSUME NEW n \in Nat
  PROVE  \A b \in DOMAIN BlocksOf(Message(n)) : Len(BlocksOf(Message(n))[b]) = BlockSize
<1> DEFINE m == Message(n)
           w == Len(m) \div BlockSize
<1>1. m \in Seq(Bytelike) /\ Len(m) = n
  BY MessageIs
<1>2. DOMAIN BlocksOf(m) = 1..w /\ \A b \in 1..w : BlocksOf(m)[b] = Block(m, b)
  BY DEF BlocksOf
<1>3. w \in Nat /\ w * BlockSize <= Len(m)
  <2>1. /\ n \div BlockSize \in Nat /\ n % BlockSize \in 0..BlockSize - 1
        /\ n = BlockSize * (n \div BlockSize) + (n % BlockSize)
    BY WordSizes, Divided
  <2> DEFINE q == n \div BlockSize
             r == n % BlockSize
  <2>2. q \in Nat /\ r \in Nat /\ n = BlockSize * q + r /\ BlockSize \in Nat
    BY <2>1, WordSizes
  <2> HIDE DEF q, r
  <2>3. q * BlockSize = BlockSize * q /\ BlockSize * q \in Nat
    BY <2>2
  <2>4. q * BlockSize <= n
    BY <2>2, <2>3
  <2> QED
    BY <1>1, <2>2, <2>4 DEF q
<1> HIDE DEF m, w
<1>4. ASSUME NEW b \in 1..w PROVE Len(Block(m, b)) = BlockSize
  <2>1. b * BlockSize <= w * BlockSize /\ b \in Nat \ {0} /\ b * BlockSize \in Int /\ w * BlockSize \in Int
    BY <1>3, BlockPlace, WordSizes
  <2>2. b * BlockSize <= Len(m)
    BY <1>1, <1>3, <2>1
  <2> QED
    BY <1>1, <2>1, <2>2, BlockIs
<1> QED
  BY <1>2, <1>4 DEF m

\* What a piece of the message leaves in the context has the types it had.
LEMMA AddTyped ==
  ASSUME Sha1Inv, Sha1TypeOK, NEW len \in Nat, phase \in {"open", "fd"}, Add(len)
  PROVE  /\ \A b \in DOMAIN blocks' : Len(blocks'[b]) = BlockSize
         /\ count' \in [1..2 -> 0..Word - 1] /\ DOMAIN buffer' = 1..BlockSize
         /\ total' \in 0..MaxMessage /\ huge' \in BOOLEAN
<1>1. BufferFits' /\ Taken(Here', total', huge') /\ total' \in Nat /\ huge' \in BOOLEAN
  BY AddTaken
<1>2. blocks' = BlocksOf(Message(total')) /\ count'[2] \in 0..Word - 1 /\ count'[1] = (8 * Len(Message(total'))) % Word
  <2>1. Here'.blocks = blocks' /\ Here'.count = count'
    BY DEF Here
  <2> QED
    BY <1>1, <2>1 DEF Taken, Holds
<1>3. \A b \in DOMAIN blocks' : Len(blocks'[b]) = BlockSize
  BY <1>1, <1>2, BlocksFull
<1>4. count'[1] \in 0..Word - 1
  <2>1. Len(Message(total')) \in Nat
    BY <1>1, MessageIs
  <2> DEFINE k == 8 * Len(Message(total'))
  <2>2. k \in Nat /\ count'[1] = k % Word
    BY <1>2, <2>1
  <2> HIDE DEF k
  <2> QED
    BY <2>2, WordSizes, Divided
<1>5. count' = Counted(count, Len(Bytes(len)))
  <2>1. Updated(Here, Bytes(len)).count = Counted(Here.count, Len(Bytes(len))) /\ Here.count = count
    BY UpdatedFields DEF Here
  <2> QED
    BY <2>1 DEF Add, Become
<1>6. count' \in [1..2 -> 0..Word - 1]
  <2>1. count' = <<count'[1], count'[2]>>
    BY <1>5 DEF Counted
  <2> DEFINE a == count'[1]
             b == count'[2]
  <2>2. a \in 0..Word - 1 /\ b \in 0..Word - 1 /\ count' = <<a, b>>
    BY <1>2, <1>4, <2>1
  <2> HIDE DEF a, b
  <2> QED
    BY <2>2
<1>7. DOMAIN buffer' = 1..BlockSize
  BY <1>1, LenProperties DEF BufferFits
<1>8. total' \in 0..MaxMessage
  BY <1>1 DEF Add, Sha1TypeOK
<1> QED
  BY <1>1, <1>3, <1>6, <1>7, <1>8

\* The context has the contents of its type at all times, the count of bits two
\* words (src/sha1.c:101-172).
THEOREM Sha1TypeCorrect == Sha1Spec => []Sha1TypeOK
<1> DEFINE zeroes == <<0, 0>>
<1>1. zeroes \in [1..2 -> 0..Word - 1]
  BY WordSizes
<1>2. Sha1Init => Sha1TypeOK
  <2> SUFFICES ASSUME Sha1Init PROVE Sha1TypeOK
    OBVIOUS
  <2>1. blocks = <<>> /\ count = zeroes /\ buffer = [i \in 1..BlockSize |-> Clobbered]
        /\ phase = "open" /\ total = 0 /\ huge = FALSE
    BY DEF Sha1Init
  <2> HIDE DEF zeroes
  <2>2. DOMAIN buffer = 1..BlockSize /\ total \in 0..MaxMessage /\ huge \in BOOLEAN
    <3>1. MaxMessage \in Nat
      BY Sha1Assumption
    <3>2. total \in 0..MaxMessage
      BY <2>1, <3>1
    <3>3. DOMAIN buffer = 1..BlockSize
      BY <2>1, Zenon
    <3> QED
      BY <2>1, <3>2, <3>3
  <2>3. \A b \in DOMAIN blocks : Len(blocks[b]) = BlockSize
    BY <2>1
  <2> QED
    BY <1>1, <2>1, <2>2, <2>3 DEF Sha1TypeOK
<1>3. Sha1Inv /\ Sha1TypeOK /\ [Sha1Next]_sha1Vars => Sha1TypeOK'
  <2> SUFFICES ASSUME Sha1Inv, Sha1TypeOK, [Sha1Next]_sha1Vars PROVE Sha1TypeOK'
    OBVIOUS
  <2>1. /\ \A b \in DOMAIN blocks : Len(blocks[b]) = BlockSize
        /\ count \in [1..2 -> 0..Word - 1] /\ DOMAIN buffer = 1..BlockSize
        /\ phase \in {"open", "fd", "done", "set", "crashed"}
        /\ total \in 0..MaxMessage /\ huge \in BOOLEAN
    BY DEF Sha1TypeOK
  <2>2. MaxMessage \in Nat /\ MaxChunk \in Nat /\ FdBufSize \in Nat
    BY Sha1Assumption
  <2> HIDE DEF zeroes
  <2>3. ASSUME blocks' = <<>>, count' = zeroes, DOMAIN buffer' = 1..BlockSize, total' \in 0..MaxMessage,
               huge' \in BOOLEAN, phase' \in {"open", "fd", "done"}
        PROVE  Sha1TypeOK'
    BY <1>1, <2>3 DEF Sha1TypeOK
  <2>4. ASSUME Fresh, phase' \in {"open", "fd"} PROVE Sha1TypeOK'
    <3>1. blocks' = <<>> /\ count' = zeroes /\ buffer' = buffer /\ total' = 0 /\ huge' = FALSE
      BY <2>4 DEF Fresh, zeroes
    <3>2. 0 \in 0..MaxMessage
      BY <2>2
    <3> QED
      BY <2>1, <2>3, <2>4, <3>1, <3>2
  <2>5. ASSUME Finish PROVE Sha1TypeOK'
    BY <2>1, <2>3, <2>5 DEF Finish, zeroes
  <2>6. ASSUME NEW len \in Nat, phase \in {"open", "fd"}, Add(len), phase' = phase PROVE Sha1TypeOK'
    BY <2>6, AddTyped DEF Sha1TypeOK
  <2>7. ASSUME NEW len \in 0..MaxChunk, Sha1Update(len) \/ Sha1Data(len) \/ Sha1FdRead(len)
        PROVE  Sha1TypeOK'
    <3>1. len \in Nat
      BY <2>2
    <3>2. CASE Sha1Update(len)
      BY <2>6, <3>1, <3>2 DEF Sha1Update
    <3>3. CASE Sha1FdRead(len)
      BY <2>6, <3>1, <3>3 DEF Sha1FdRead
    <3>4. CASE Sha1Data(len)
      <4>1. /\ blocks' = <<>> /\ count' = zeroes /\ buffer' = [i \in 1..BlockSize |-> Clobbered]
            /\ phase' = "done" /\ total' = len /\ huge' = (8 * len >= Word) /\ len <= MaxMessage
        BY <3>4 DEF Sha1Data, zeroes
      <4> QED
        BY <2>2, <2>3, <3>1, <4>1
    <3> QED
      BY <2>7, <3>2, <3>3, <3>4
  <2>8. ASSUME UNCHANGED <<blocks, count, buffer, total, huge>>, phase' \in {"set", "crashed", phase}
        PROVE  Sha1TypeOK'
    BY <2>1, <2>8 DEF Sha1TypeOK
  <2>9. CASE Sha1Renew
    BY <2>4, <2>9 DEF Sha1Renew
  <2>10. CASE Sha1Finish
    BY <2>5, <2>10 DEF Sha1Finish
  <2>11. CASE Sha1FdBegin
    BY <2>4, <2>11 DEF Sha1FdBegin
  <2>12. CASE Sha1FdEnd
    BY <2>5, <2>12 DEF Sha1FdEnd
  <2>13. CASE Sha1FdFails
    BY <2>8, <2>13 DEF Sha1FdFails
  <2>14. CASE Sha1FileFails
    BY <2>4, <2>14 DEF Sha1FileFails
  <2>15. ASSUME NEW digest \in Digests \cup {<<>>}, Sha1Set(digest)
         PROVE  Sha1TypeOK'
    BY <2>8, <2>15 DEF Sha1Set
  <2>16. CASE UNCHANGED sha1Vars
    BY <2>8, <2>16 DEF sha1Vars
  <2> QED
    BY <2>7, <2>9, <2>10, <2>11, <2>12, <2>13, <2>14, <2>15, <2>16 DEF Sha1Next
<1> QED
  BY <1>2, <1>3, InitDigest, DigestKept, PTL DEF Sha1Spec

(***************************************************************************)
(*                                  Text                                   *)
(***************************************************************************)
-----------------------------------------------------------------------------
(* From the end of a string to its beginning                               *)

\* What holds at a place if it does at all behind it.
LEMMA DownTo ==
  ASSUME NEW n \in Nat, NEW P,
         \A i \in 1..n : (\A j \in 1..n : j > i => j \in P) => i \in P
  PROVE  \A i \in 1..n : i \in P
<1> DEFINE Q == {k \in 0..n : \A i \in 1..n : i > n - k => i \in P}
<1>1. 0 \in Q
  OBVIOUS
<1>2. ASSUME NEW k \in 1..n, k - 1 \in Q PROVE k \in Q
  <2>1. k \in 0..n /\ \A i \in 1..n : i > n - (k - 1) => i \in P
    BY <1>2
  <2>2. ASSUME NEW i \in 1..n, i > n - k PROVE i \in P
    <3>1. \A j \in 1..n : j > i => j > n - (k - 1)
      BY <2>2
    <3> QED
      BY <2>1, <3>1
  <2> QED
    BY <2>1, <2>2
<1> HIDE DEF Q
<1>3. n \in Q
  BY <1>1, <1>2, EveryRound
<1> QED
  BY <1>3 DEF Q

\* A function of places is there if each value depends on what is behind it.
Behind(F, X, n, Y) ==
  /\ \A v \in X, i \in 1..n : F[<<v, i>>] \in Y
  /\ \A v, w \in X, i \in 1..n :
       (\A j \in 1..n : j > i => v[j] = w[j]) => F[<<v, i>>] = F[<<w, i>>]
Obeys(f, F, n) == \A i \in 1..n : f[i] = F[<<f, i>>]

LEMMA DownExists ==
  ASSUME NEW n \in Nat, NEW Y, NEW y \in Y, NEW X, X = [1..n -> Y], NEW F, Behind(F, X, n, Y)
  PROVE  \E f \in X : Obeys(f, F, n)
<1> DEFINE Upto(k) == \E f \in X : \A i \in 1..n : i > n - k => f[i] = F[<<f, i>>]
           Q == {k \in 0..n : Upto(k)}
<1>1. 0 \in Q
  <2>1. [i \in 1..n |-> y] \in X
    OBVIOUS
  <2>2. \A i \in 1..n : ~(i > n - 0)
    OBVIOUS
  <2>3. Upto(0)
    BY <2>1, <2>2, Zenon
  <2> HIDE DEF Upto
  <2> QED
    BY <2>3
<1>2. ASSUME NEW k \in 1..n, k - 1 \in Q PROVE k \in Q
  <2>1. k \in 0..n /\ Upto(k - 1)
    BY <1>2
  <2>2. PICK f \in X : \A i \in 1..n : i > n - (k - 1) => f[i] = F[<<f, i>>]
    BY <2>1
  <2> DEFINE m == n - k + 1
             g == [f EXCEPT ![m] = F[<<f, m>>]]
  <2>3. m \in 1..n /\ \A i \in 1..n : /\ i > n - k => i = m \/ i > n - (k - 1)
                                      /\ i > n - (k - 1) <=> i > m
    OBVIOUS
  <2> HIDE DEF m
  <2>4. F[<<f, m>>] \in Y
    BY <2>3 DEF Behind
  <2>5. g \in X /\ g[m] = F[<<f, m>>] /\ \A i \in 1..n : i # m => g[i] = f[i]
    BY <2>3, <2>4
  <2> HIDE DEF g
  <2>6. ASSUME NEW i \in 1..n, i = m \/ i > m
        PROVE  F[<<g, i>>] = F[<<f, i>>]
    <3>1. \A j \in 1..n : j > i => j # m
      BY <2>3, <2>6
    <3>2. \A j \in 1..n : j > i => g[j] = f[j]
      BY <2>5, <3>1
    <3> QED
      BY <2>5, <3>2 DEF Behind
  <2>7. ASSUME NEW i \in 1..n, i > n - k PROVE g[i] = F[<<g, i>>]
    <3>1. i = m \/ (i > m /\ i # m)
      BY <2>3, <2>7
    <3>2. CASE i = m
      BY <2>5, <2>6, <3>2
    <3>3. CASE i > m /\ i # m
      <4>1. f[i] = F[<<f, i>>]
        BY <2>2, <2>3, <3>3
      <4> QED
        BY <2>5, <2>6, <3>3, <4>1
    <3> QED
      BY <3>1, <3>2, <3>3
  <2>8. Upto(k)
    BY <2>5, <2>7
  <2> QED
    BY <2>1, <2>8
<1> HIDE DEF Q, Upto
<1>3. n \in Q
  BY <1>1, <1>2, EveryRound
<1>4. Upto(n)
  BY <1>3 DEF Q
<1>5. \A i \in 1..n : i > n - n
  OBVIOUS
<1> QED
  BY <1>4, <1>5 DEF Upto, Obeys

\* The first place from a on that is in S, or else n + 1.
LEMMA FirstPlace ==
  ASSUME NEW n \in Nat, NEW a \in 1..n + 1, NEW S, S \subseteq a..n
  PROVE  LET b == Min(S \cup {n + 1})
         IN b \in a..n + 1 /\ b \in Nat /\ (b <= n => b \in S) /\ \A j \in S : b <= j
<1> DEFINE T == S \cup {n + 1}
<1>1. T \subseteq Nat /\ T # {} /\ \A j \in T : j \in a..n + 1 /\ (j <= n => j \in S)
  OBVIOUS
<1>2. Min(T) \in T /\ \A j \in T : Min(T) <= j
  <2> HIDE DEF T
  <2> QED
    BY <1>1, LeastIs
<1> DEFINE b == Min(T)
<1> HIDE DEF b
<1>3. b \in T /\ \A j \in T : b <= j
  BY <1>2 DEF b
<1>4. \A j \in S : j \in T
  OBVIOUS
<1>5. b \in a..n + 1 /\ b \in Nat /\ (b <= n => b \in S) /\ \A j \in S : b <= j
  <2> HIDE DEF T
  <2> QED
    BY <1>1, <1>3, <1>4
<1> QED
  BY <1>5 DEF b

\* A part of a sequence.
LEMMA PartIs ==
  ASSUME NEW S, NEW s \in Seq(S), NEW a \in Nat \ {0}, NEW b \in Int, b <= Len(s)
  PROVE  /\ Cut(s, a, b) = SubSeq(s, a, b) /\ SubSeq(s, a, b) \in Seq(S)
         /\ Len(SubSeq(s, a, b)) = IF a <= b THEN b - a + 1 ELSE 0
         /\ \A i \in 1..b - a + 1 : SubSeq(s, a, b)[i] = s[a + i - 1]
<1> DEFINE n == Len(s)
<1>1. n \in Nat /\ b <= n
  BY LenProperties
<1>2. Min({b, n}) = b
  <2> HIDE DEF n
  <2>1. b \in {b, n} /\ \A y \in {b, n} : b <= y
    BY <1>1
  <2>2. \A x \in {b, n} : (\A y \in {b, n} : x <= y) => x = b
    BY <1>1
  <2> QED
    BY <2>1, <2>2 DEF Min
<1>3. \A i \in a..b : s[i] \in S
  <2>1. \A i \in a..b : i \in 1..n
    <3> HIDE DEF n
    <3> QED
      BY <1>1
  <2> QED
    BY <2>1, ElementOfSeq
<1>4. a \in Int
  OBVIOUS
<1>5. Cut(s, a, b) = SubSeq(s, a, b)
  BY <1>2 DEF Cut
<1> QED
  BY <1>3, <1>4, <1>5, SubSeqProperties

LEMMA PartsJoin ==
  ASSUME NEW S, NEW s \in Seq(S), NEW a \in Nat \ {0}, NEW b \in Nat, NEW c \in Nat,
         a <= b + 1, b <= c, c <= Len(s)
  PROVE  SubSeq(s, a, b) \o SubSeq(s, b + 1, c) = SubSeq(s, a, c)
<1> DEFINE u == SubSeq(s, a, b)
           v == SubSeq(s, b + 1, c)
           w == SubSeq(s, a, c)
<1>1. b <= Len(s) /\ Len(s) \in Nat
  BY LenProperties
<1>2. /\ u \in Seq(S) /\ Len(u) = b - a + 1
      /\ \A i \in 1..b - a + 1 : u[i] = s[a + i - 1]
  <2>1. /\ u \in Seq(S) /\ Len(u) = IF a <= b THEN b - a + 1 ELSE 0
        /\ \A i \in 1..b - a + 1 : u[i] = s[a + i - 1]
    BY <1>1, PartIs
  <2> HIDE DEF u
  <2>2. (IF a <= b THEN b - a + 1 ELSE 0) = b - a + 1
    OBVIOUS
  <2> QED
    BY <2>1, <2>2
<1>3. /\ v \in Seq(S) /\ Len(v) = c - b
      /\ \A i \in 1..c - b : v[i] = s[b + i]
  <2> DEFINE e == b + 1
  <2>1. /\ v = SubSeq(s, e, c) /\ e \in Nat \ {0} /\ c \in Int
        /\ (IF e <= c THEN c - e + 1 ELSE 0) = c - b /\ c - e + 1 = c - b
        /\ \A i \in 1..c - b : e + i - 1 = b + i
    OBVIOUS
  <2> HIDE DEF e, v
  <2>2. /\ v \in Seq(S) /\ Len(v) = (IF e <= c THEN c - e + 1 ELSE 0)
        /\ \A i \in 1..c - e + 1 : v[i] = s[e + i - 1]
    BY <2>1, PartIs
  <2> QED
    BY <2>1, <2>2
<1>4. /\ w \in Seq(S) /\ Len(w) = c - a + 1
      /\ \A i \in 1..c - a + 1 : w[i] = s[a + i - 1]
  BY PartIs
<1> HIDE DEF u, v, w
<1>5. /\ u \o v \in Seq(S) /\ Len(u \o v) = Len(u) + Len(v)
      /\ \A i \in 1..Len(u) + Len(v) : (u \o v)[i] = IF i <= Len(u) THEN u[i] ELSE v[i - Len(u)]
  BY <1>2, <1>3, ConcatProperties
<1> DEFINE uv == u \o v
<1> HIDE DEF uv
<1>6. Len(uv) = Len(w)
  BY <1>2, <1>3, <1>4, <1>5 DEF uv
<1>7. ASSUME NEW i \in 1..Len(uv) PROVE uv[i] = w[i]
  <2>1. i \in 1..c - a + 1 /\ w[i] = s[a + i - 1]
    BY <1>4, <1>6, <1>7
  <2>2. uv[i] = IF i <= b - a + 1 THEN u[i] ELSE v[i - (b - a + 1)]
    BY <1>2, <1>3, <1>5, <2>1 DEF uv
  <2>3. CASE i <= b - a + 1
    <3>1. i \in 1..b - a + 1
      BY <2>1, <2>3
    <3>2. u[i] = s[a + i - 1]
      BY <1>2, <3>1
    <3> QED
      BY <2>1, <2>2, <2>3, <3>2
  <2>4. CASE ~(i <= b - a + 1)
    <3>1. i - (b - a + 1) \in 1..c - b /\ b + (i - (b - a + 1)) = a + i - 1
      BY <2>1, <2>4
    <3> QED
      BY <1>3, <2>1, <2>2, <2>4, <3>1
  <2> QED
    BY <2>3, <2>4
<1>8. uv = w
  BY <1>4, <1>5, <1>6, <1>7, SeqEqual DEF uv
<1> QED
  BY <1>8 DEF uv, u, v, w

-----------------------------------------------------------------------------
(* strings_split()                                                         *)

\* Strings, and delimiters.
Texts == Seq(Alphabet)
Marks == Texts \ {<<>>}

LEMMA TextsJoin ==
  ASSUME NEW a \in Texts, NEW b \in Texts
  PROVE  a \o b \in Texts
  BY ConcatProperties DEF Texts

LEMMA TextsAssociate ==
  ASSUME NEW a \in Texts, NEW b \in Texts, NEW c \in Texts
  PROVE  (a \o b) \o c = a \o (b \o c)
<1>1. a \in Seq(Alphabet) /\ b \in Seq(Alphabet) /\ c \in Seq(Alphabet)
  BY DEF Texts
<1> QED
  BY <1>1, ConcatAssociative

LEMMA NextDelimIs ==
  ASSUME NEW s \in Texts, NEW delim \in Marks, NEW a \in 1..Len(s)
  PROVE  LET b == NextDelim(s, delim, a)
             D == Len(delim)
         IN /\ b \in a..Len(s) + 1 /\ b \in Nat /\ D \in Nat \ {0}
            /\ b <= Len(s) => Cut(s, b, b + D - 1) = delim
            /\ \A i \in a..Len(s) : Cut(s, i, i + D - 1) = delim => b <= i
<1> DEFINE n == Len(s)
           D == Len(delim)
           S == {i \in a..n : Cut(s, i, i + D - 1) = delim}
           b == NextDelim(s, delim, a)
<1>1. n \in Nat /\ D \in Nat \ {0} /\ a \in 1..n + 1 /\ S \subseteq a..n
  <2>1. n \in Nat
    BY LenProperties DEF Texts
  <2>2. D \in Nat \ {0}
    BY EmptySeq DEF Texts, Marks
  <2> QED
    BY <2>1, <2>2
<1>2. b = Min(S \cup {n + 1})
  BY DEF NextDelim
<1> HIDE DEF b
<1>3. b \in a..n + 1 /\ b \in Nat /\ (b <= n => b \in S) /\ \A j \in S : b <= j
  <2> HIDE DEF S, n
  <2> QED
    BY <1>1, <1>2, FirstPlace
<1> HIDE DEF n, D
<1>4. (b <= n => Cut(s, b, b + D - 1) = delim)
      /\ \A i \in a..n : Cut(s, i, i + D - 1) = delim => b <= i
  BY <1>3
<1> QED
  BY <1>1, <1>3, <1>4 DEF b, n, D

\* The items behind each place.
Splits(f, s, delim, greedy) ==
  /\ \A a \in 1..Len(s) + Len(delim) + 1 : a > Len(s) => f[a] = <<>>
  /\ \A a \in 1..Len(s) :
       LET b == NextDelim(s, delim, a)
       IN f[a] = (IF greedy /\ a = b THEN <<>> ELSE <<Cut(s, a, b - 1)>>) \o f[b + Len(delim)]

LEMMA SplitIs ==
  ASSUME NEW s \in Texts, NEW delim \in Marks, NEW greedy \in BOOLEAN
  PROVE  \E f \in [1..Len(s) + Len(delim) + 1 -> Seq(Texts)] :
           Splits(f, s, delim, greedy) /\ Split(s, delim, greedy) = f[1]
<1> DEFINE n == Len(s)
           D == Len(delim)
           N == n + D + 1
           Y == Seq(Texts)
           X == [1..N -> Y]
           b(a) == NextDelim(s, delim, a)
           Item(a) == IF greedy /\ a = b(a) THEN <<>> ELSE <<Cut(s, a, b(a) - 1)>>
           Value(v, a) == IF a > n THEN <<>> ELSE Item(a) \o v[b(a) + D]
           F == [p \in X \X (1..N) |-> Value(p[1], p[2])]
           w == CHOOSE w : w = [a \in 1..N |-> Value(w, a)]
<1>1. n \in Nat /\ D \in Nat \ {0} /\ N \in Nat /\ 1 \in 1..N
  <2>1. n \in Nat
    BY LenProperties DEF Texts
  <2>2. D \in Nat \ {0}
    BY EmptySeq DEF Texts, Marks
  <2> QED
    BY <2>1, <2>2
<1>2. Split(s, delim, greedy) = w[1]
  BY DEF Split
<1>3. ASSUME NEW a \in 1..N, ~(a > n)
      PROVE  a \in 1..n /\ b(a) \in a..n + 1 /\ b(a) \in Nat /\ b(a) + D \in 1..N /\ b(a) + D > a
             /\ Item(a) \in Y
  <2>1. a \in 1..n
    BY <1>1, <1>3
  <2> DEFINE c == b(a)
  <2>2. c \in a..n + 1 /\ c \in Nat
    BY <2>1, NextDelimIs
  <2> HIDE DEF c
  <2>3. c + D \in 1..N /\ c + D > a /\ c - 1 \in Int /\ c - 1 <= n /\ a \in Nat \ {0}
    BY <1>1, <2>1, <2>2
  <2>4. Cut(s, a, c - 1) \in Texts
    <3>1. s \in Seq(Alphabet) /\ c - 1 <= Len(s)
      BY <2>3 DEF Texts
    <3>2. Cut(s, a, c - 1) = SubSeq(s, a, c - 1) /\ SubSeq(s, a, c - 1) \in Seq(Alphabet)
      <4> DEFINE d == c - 1
      <4>1. d \in Int /\ d <= Len(s) /\ a \in Nat \ {0}
        BY <2>3
      <4> HIDE DEF d
      <4> QED
        BY <3>1, <4>1, PartIs, Zenon DEF d
    <3> QED
      BY <3>2 DEF Texts
  <2> DEFINE it == IF greedy /\ a = c THEN <<>> ELSE <<Cut(s, a, c - 1)>>
  <2>5. it \in Y
    BY <2>4
  <2> HIDE DEF it, Y
  <2> QED
    BY <2>1, <2>2, <2>3, <2>5 DEF it, c
<1> HIDE DEF w, b, Item
<1>4. <<>> \in Y
  BY EmptySeq
<1>5. Behind(F, X, N, Y)
  <2>1. ASSUME NEW v \in X, NEW a \in 1..N
        PROVE  F[<<v, a>>] = Value(v, a) /\ Value(v, a) \in Y
    <3>1. F[<<v, a>>] = Value(v, a)
      <4> HIDE DEF X, Value
      <4> QED
        OBVIOUS
    <3>2. CASE a > n
      BY <1>4, <3>1, <3>2
    <3>3. CASE ~(a > n)
      <4>1. v[b(a) + D] \in Y /\ Item(a) \in Y
        BY <1>3, <3>3
      <4>2. Item(a) \o v[b(a) + D] \in Y
        BY <4>1, ConcatProperties
      <4> HIDE DEF F, Y
      <4> QED
        BY <3>1, <3>3, <4>2
    <3> QED
      BY <3>2, <3>3
  <2>2. ASSUME NEW v \in X, NEW u \in X, NEW a \in 1..N, \A j \in 1..N : j > a => v[j] = u[j]
        PROVE  Value(v, a) = Value(u, a)
    BY <1>3, <2>2
  <2> HIDE DEF F, X, Value
  <2> QED
    BY <2>1, <2>2 DEF Behind
<1>6. PICK g \in X : \A a \in 1..N : g[a] = F[<<g, a>>]
  <2> DEFINE nil == <<>>
  <2>1. nil \in Y
    BY <1>4
  <2> HIDE DEF nil, Y, F, N
  <2>2. N \in Nat /\ X = [1..N -> Y] /\ Behind(F, X, N, Y)
    BY <1>1, <1>5
  <2> HIDE DEF X
  <2>3. \E g \in X : Obeys(g, F, N)
    BY <2>1, <2>2, DownExists
  <2> QED
    BY <2>3 DEF Obeys
<1>7. \A a \in 1..N : F[<<g, a>>] = Value(g, a)
  <2> HIDE DEF X, Value
  <2> QED
    OBVIOUS
<1> HIDE DEF F, Value
<1>8. g = [a \in 1..N |-> Value(g, a)]
  BY <1>6, <1>7
<1>9. w = [a \in 1..N |-> Value(w, a)]
  BY <1>8 DEF w
<1>10. DOMAIN w = 1..N /\ \A a \in 1..N : w[a] = Value(w, a)
  <2> DEFINE G(x) == [a \in 1..N |-> Value(x, a)]
  <2>1. w = G(w) /\ DOMAIN G(w) = 1..N /\ \A a \in 1..N : G(w)[a] = Value(w, a)
    BY <1>9
  <2> HIDE DEF G
  <2> QED
    BY <2>1
<1>11. \A a \in 1..N : w[a] \in Y
  <2> DEFINE P == {a \in 1..N : w[a] \in Y}
  <2>1. ASSUME NEW a \in 1..N, \A j \in 1..N : j > a => j \in P
        PROVE  a \in P
    <3>1. CASE a > n
      BY <1>4, <1>10, <3>1 DEF Value
    <3>2. CASE ~(a > n)
      <4>1. w[b(a) + D] \in Y /\ Item(a) \in Y
        BY <1>3, <2>1, <3>2
      <4>2. Item(a) \o w[b(a) + D] \in Y
        BY <4>1, ConcatProperties
      <4> HIDE DEF Y
      <4> QED
        BY <1>10, <3>2, <4>2 DEF Value
    <3> QED
      BY <3>1, <3>2
  <2> HIDE DEF P, N
  <2>2. \A a \in 1..N : a \in P
    BY <1>1, <2>1, DownTo
  <2> QED
    BY <2>2 DEF P
<1>12. w \in X
  <2>1. w = [a \in 1..N |-> w[a]]
    BY <1>9, <1>10
  <2> HIDE DEF N, Y
  <2> QED
    BY <1>11, <2>1
<1>13. Splits(w, s, delim, greedy)
  <2>1. ASSUME NEW a \in 1..N, a > n PROVE w[a] = <<>>
    BY <1>10, <2>1 DEF Value
  <2>2. ASSUME NEW a \in 1..n
        PROVE  w[a] = (IF greedy /\ a = b(a) THEN <<>> ELSE <<Cut(s, a, b(a) - 1)>>) \o w[b(a) + D]
    <3>1. a \in 1..N /\ ~(a > n)
      BY <1>1
    <3> QED
      BY <1>10, <3>1 DEF Value, Item
  <2> QED
    BY <2>1, <2>2 DEF Splits, b
<1> QED
  BY <1>2, <1>12, <1>13

-----------------------------------------------------------------------------
(* What has been split                                                     *)

\* What is cut behind the end of a sequence is shorter than it was meant to be.
LEMMA LongPart ==
  ASSUME NEW S, NEW s \in Seq(S), NEW a \in Nat \ {0}, NEW b \in Int, a <= b, b > Len(s)
  PROVE  /\ Cut(s, a, b) = SubSeq(s, a, Len(s)) /\ Cut(s, a, b) \in Seq(S)
         /\ Len(Cut(s, a, b)) \in Nat /\ Len(Cut(s, a, b)) < b - a + 1
<1> DEFINE n == Len(s)
<1>1. n \in Nat /\ n \in Int /\ n < b
  BY LenProperties
<1>2. Min({b, n}) = n
  <2> HIDE DEF n
  <2>1. n \in {b, n} /\ \A y \in {b, n} : n <= y
    BY <1>1
  <2>2. \A x \in {b, n} : (\A y \in {b, n} : x <= y) => x = n
    BY <1>1
  <2> QED
    BY <2>1, <2>2 DEF Min
<1>3. Cut(s, a, b) = SubSeq(s, a, n)
  BY <1>2 DEF Cut
<1>4. SubSeq(s, a, n) \in Seq(S) /\ Len(SubSeq(s, a, n)) = IF a <= n THEN n - a + 1 ELSE 0
  <2>1. n <= Len(s)
    BY <1>1
  <2> HIDE DEF n
  <2> QED
    BY <1>1, <2>1, PartIs
<1> DEFINE c == Cut(s, a, b)
<1>5. c \in Seq(S) /\ Len(c) = IF a <= n THEN n - a + 1 ELSE 0
  BY <1>3, <1>4
<1> HIDE DEF n, c
<1>6. Len(c) \in Nat /\ Len(c) < b - a + 1
  BY <1>1, <1>5
<1> QED
  BY <1>3, <1>5, <1>6 DEF c, n

LEMMA PartOfPart ==
  ASSUME NEW S, NEW s \in Seq(S), NEW a \in Nat \ {0}, NEW b \in Int, b <= Len(s),
         NEW i \in Nat \ {0}, NEW j \in Nat, i <= j, j <= b - a + 1
  PROVE  SubSeq(SubSeq(s, a, b), i, j) = SubSeq(s, a + i - 1, a + j - 1)
<1> DEFINE t == SubSeq(s, a, b)
           u == SubSeq(t, i, j)
           c == a + i - 1
           d == a + j - 1
           v == SubSeq(s, c, d)
<1>1. /\ t \in Seq(S) /\ Len(t) = b - a + 1
      /\ \A k \in 1..b - a + 1 : t[k] = s[a + k - 1]
  <2>1. /\ t \in Seq(S) /\ Len(t) = IF a <= b THEN b - a + 1 ELSE 0
        /\ \A k \in 1..b - a + 1 : t[k] = s[a + k - 1]
    BY PartIs
  <2> HIDE DEF t
  <2> QED
    BY <2>1
<1> HIDE DEF t
<1>2. /\ u \in Seq(S) /\ Len(u) = j - i + 1
      /\ \A k \in 1..j - i + 1 : u[k] = t[i + k - 1]
  <2>1. j \in Int /\ j <= Len(t)
    BY <1>1
  <2>2. /\ u \in Seq(S) /\ Len(u) = IF i <= j THEN j - i + 1 ELSE 0
        /\ \A k \in 1..j - i + 1 : u[k] = t[i + k - 1]
    BY <1>1, <2>1, PartIs
  <2> HIDE DEF u
  <2> QED
    BY <2>2
<1>3. c \in Nat \ {0} /\ d \in Int /\ d <= Len(s) /\ c <= d /\ d - c = j - i
  <2>1. Len(s) \in Nat
    BY LenProperties
  <2> QED
    BY <2>1
<1>4. /\ v \in Seq(S) /\ Len(v) = j - i + 1
      /\ \A k \in 1..j - i + 1 : v[k] = s[c + k - 1]
  <2> HIDE DEF c, d
  <2>1. /\ v \in Seq(S) /\ Len(v) = IF c <= d THEN d - c + 1 ELSE 0
        /\ \A k \in 1..d - c + 1 : v[k] = s[c + k - 1]
    BY <1>3, PartIs
  <2> HIDE DEF v
  <2> QED
    BY <1>3, <2>1
<1> HIDE DEF u, v
<1>5. ASSUME NEW k \in 1..j - i + 1 PROVE u[k] = v[k]
  <2>1. i + k - 1 \in 1..b - a + 1 /\ a + (i + k - 1) - 1 = c + k - 1
    OBVIOUS
  <2> HIDE DEF c
  <2> QED
    BY <1>1, <1>2, <1>4, <2>1
<1>6. u = v
  BY <1>2, <1>4, <1>5, SeqEqual
<1> QED
  BY <1>6 DEF u, v, t

\* No item has a delimiter in it.
Whole(item, delim) == \A j \in DOMAIN item : Cut(item, j, j + Len(delim) - 1) # delim

LEMMA ItemWhole ==
  ASSUME NEW s \in Texts, NEW delim \in Marks, NEW a \in 1..Len(s),
         NEW b, b = NextDelim(s, delim, a)
  PROVE  /\ Cut(s, a, b - 1) = SubSeq(s, a, b - 1) /\ Cut(s, a, b - 1) \in Texts
         /\ Whole(Cut(s, a, b - 1), delim) /\ (Cut(s, a, b - 1) = <<>> <=> a = b)
<1> DEFINE n == Len(s)
           D == Len(delim)
           c == b - 1
           it == SubSeq(s, a, c)
<1>1. /\ b \in a..n + 1 /\ b \in Nat /\ D \in Nat \ {0} /\ n \in Nat
      /\ \A i \in a..n : Cut(s, i, i + D - 1) = delim => b <= i
  <2>1. n \in Nat
    BY LenProperties DEF Texts
  <2> QED
    BY <2>1, NextDelimIs
<1>2. c \in Int /\ c <= n /\ a \in Nat \ {0} /\ a <= b /\ c < b /\ c - a + 1 = b - a
  <2> HIDE DEF n
  <2> QED
    BY <1>1
<1>3. s \in Seq(Alphabet)
  BY DEF Texts
<1> HIDE DEF c
<1>4. Cut(s, a, c) = it /\ it \in Seq(Alphabet) /\ Len(it) = b - a
  <2>1. /\ Cut(s, a, c) = it /\ it \in Seq(Alphabet)
        /\ Len(it) = IF a <= c THEN c - a + 1 ELSE 0
    BY <1>2, <1>3, PartIs
  <2> HIDE DEF it, n
  <2>2. a <= c \/ b - a = 0
    BY <1>1, <1>2
  <2> QED
    BY <1>2, <2>1, <2>2
<1>5. Whole(it, delim)
  <2> SUFFICES ASSUME NEW j \in DOMAIN it, Cut(it, j, j + D - 1) = delim PROVE FALSE
    BY DEF Whole
  <2> DEFINE e == j + D - 1
             i == a + j - 1
  <2>1. j \in 1..b - a
    BY <1>4, LenProperties
  <2>2. e \in Nat /\ j <= e /\ e - j + 1 = D /\ i \in a..n /\ i < b /\ i + D - 1 = a + e - 1
        /\ j \in Nat \ {0} /\ i \in Nat \ {0}
    <3> HIDE DEF n, D
    <3> QED
      BY <1>1, <2>1
  <2> HIDE DEF e, i
  <2>3. e <= b - a
    <3> SUFFICES ASSUME e > Len(it) PROVE FALSE
      <4> HIDE DEF it, n, D
      <4> QED
        BY <1>1, <1>4, <2>2
    <3>1. Len(Cut(it, j, e)) < e - j + 1 /\ e \in Int
      <4> HIDE DEF it
      <4> QED
        BY <1>4, <2>2, LongPart
    <3>2. Cut(it, j, e) = delim
      BY DEF e
    <3> HIDE DEF it
    <3> QED
      BY <1>1, <2>2, <3>1, <3>2
  <2>4. Cut(it, j, e) = SubSeq(it, j, e)
    <3>1. e \in Int /\ e <= Len(it)
      BY <1>4, <2>2, <2>3
    <3> HIDE DEF it
    <3> QED
      BY <1>4, <2>2, <3>1, PartIs
  <2>5. SubSeq(it, j, e) = SubSeq(s, i, a + e - 1)
    <3>1. e <= c - a + 1
      <4> HIDE DEF n
      <4> QED
        BY <1>2, <2>2, <2>3
    <3>2. c <= Len(s)
      BY <1>2
    <3> HIDE DEF n
    <3> QED
      BY <1>2, <1>3, <2>2, <3>1, <3>2, PartOfPart DEF i
  <2>6. Cut(s, i, i + D - 1) = SubSeq(s, i, a + e - 1)
    <3> DEFINE d == a + e - 1
    <3>1. d \in Int /\ d <= Len(s) /\ i + D - 1 = d
      <4> HIDE DEF D, n
      <4>1. d <= n
        BY <1>1, <1>2, <2>2, <2>3
      <4> QED
        BY <1>2, <2>2, <4>1 DEF n
    <3> HIDE DEF d
    <3>2. Cut(s, i, d) = SubSeq(s, i, d)
      BY <1>3, <2>2, <3>1, PartIs
    <3> QED
      BY <3>1, <3>2 DEF d
  <2>7. Cut(s, i, i + D - 1) = delim
    BY <2>4, <2>5, <2>6 DEF e
  <2> HIDE DEF n, D
  <2> QED
    BY <1>1, <2>2, <2>7
<1>6. it = <<>> <=> a = b
  <2>1. it = <<>> => Len(it) = 0
    BY EmptySeq
  <2>2. it # <<>> => Len(it) # 0
    BY <1>4, EmptySeq
  <2> HIDE DEF it, n, D
  <2> QED
    BY <1>1, <1>2, <1>4, <2>1, <2>2
<1> QED
  BY <1>4, <1>5, <1>6 DEF c, Texts

-----------------------------------------------------------------------------
(* strings_join()                                                          *)

\* What has been joined after each item.
JoinRounds(g, list, delim) ==
  /\ g[0] = <<>>
  /\ \A i \in 1..Len(list) : g[i] = g[i - 1] \o (IF i = 1 THEN <<>> ELSE delim) \o list[i]

LEMMA JoinIs ==
  ASSUME NEW list \in Seq(Texts), NEW delim \in Texts
  PROVE  \E g \in [0..Len(list) -> Texts] :
           JoinRounds(g, list, delim) /\ Join(list, delim) = g[Len(list)]
<1> DEFINE n == Len(list)
           Between(i) == IF i = 1 THEN <<>> ELSE delim
           Next1(v, i) == v \o Between(i) \o list[i]
           F == [p \in Texts \X (1..n) |-> Next1(p[1], p[2])]
           Step(p, i) == IF i = 0 THEN <<>> ELSE Next1(p[i - 1], i)
           w == CHOOSE w : w = [i \in 0..n |-> Step(w, i)]
<1>1. n \in Nat /\ <<>> \in Texts
  BY LenProperties, EmptySeq DEF Texts
<1>2. ASSUME NEW v \in Texts, NEW i \in 1..n PROVE Next1(v, i) \in Texts
  <2>1. list[i] \in Texts /\ Between(i) \in Texts
    BY <1>1, ElementOfSeq
  <2> HIDE DEF Between, n
  <2>2. v \o Between(i) \in Texts
    BY <2>1, ConcatProperties DEF Texts
  <2> QED
    BY <2>1, <2>2, ConcatProperties DEF Texts
<1>3. Join(list, delim) = w[n]
  BY DEF Join
<1> HIDE DEF Next1, w
<1>4. \A v \in Texts, i \in 1..n : F[<<v, i>>] = Next1(v, i)
  OBVIOUS
<1> HIDE DEF F
<1>5. PICK g \in [0..n -> Texts] : RoundsOf(g, F, n, <<>>)
  <2> DEFINE nil == <<>>
  <2>1. Closed(F, n, Texts)
    BY <1>2, <1>4 DEF Closed
  <2>2. nil \in Texts
    BY <1>1
  <2> HIDE DEF nil, n
  <2>3. \E g \in [0..n -> Texts] : RoundsOf(g, F, n, nil)
    BY <1>1, <2>1, <2>2, RoundsExist
  <2> QED
    BY <2>3 DEF nil
<1>6. g = [i \in 0..n |-> Step(g, i)]
  <2>1. ASSUME NEW i \in 0..n PROVE g[i] = Step(g, i)
    <3>1. i # 0 => i \in 1..n /\ i - 1 \in 0..n
      BY <1>1
    <3> QED
      BY <1>4, <1>5, <3>1 DEF RoundsOf
  <2> QED
    BY <2>1
<1> HIDE DEF Step
<1>7. w = [i \in 0..n |-> Step(w, i)]
  BY <1>6 DEF w
<1>8. \A i \in 0..n : w[i] = Step(w, i)
  <2> DEFINE G(x) == [i \in 0..n |-> Step(x, i)]
  <2>1. w = G(w) /\ \A i \in 0..n : G(w)[i] = Step(w, i)
    BY <1>7
  <2> HIDE DEF G
  <2> QED
    BY <2>1
<1> DEFINE P == {i \in 0..n : w[i] = g[i]}
<1>9. 0 \in P
  BY <1>1, <1>5, <1>8 DEF RoundsOf, Step
<1>10. ASSUME NEW i \in 1..n, i - 1 \in P PROVE i \in P
  <2>1. i \in 0..n /\ i - 1 \in 0..n /\ i # 0
    BY <1>1
  <2>2. w[i] = Next1(w[i - 1], i) /\ w[i - 1] = g[i - 1]
    BY <1>8, <1>10, <2>1 DEF Step
  <2>3. g[i] = Next1(g[i - 1], i)
    BY <1>4, <1>5, <2>1 DEF RoundsOf
  <2> QED
    BY <2>1, <2>2, <2>3
<1>11. \A i \in 0..n : i \in P
  <2> HIDE DEF P, n
  <2> QED
    BY <1>1, <1>9, <1>10, EveryRound
<1>12. n \in 0..n /\ w[n] = g[n]
  BY <1>1, <1>11
<1>13. JoinRounds(g, list, delim)
  <2>1. ASSUME NEW i \in 1..n PROVE g[i] = Next1(g[i - 1], i)
    <3>1. i - 1 \in 0..n
      BY <1>1
    <3> QED
      BY <1>4, <1>5, <3>1 DEF RoundsOf
  <2> QED
    BY <1>5, <2>1 DEF JoinRounds, RoundsOf, Next1
<1> QED
  BY <1>3, <1>12, <1>13

\* A sequence that begins with x.
LEMMA FirstThen ==
  ASSUME NEW S, NEW x \in S, NEW l \in Seq(S), NEW m, m = <<x>> \o l
  PROVE  /\ m \in Seq(S) /\ Len(m) = Len(l) + 1 /\ Len(l) \in Nat
         /\ m[1] = x /\ \A i \in 1..Len(l) : m[i + 1] = l[i]
<1>1. <<x>> \in Seq(S) /\ Len(<<x>>) = 1 /\ <<x>>[1] = x
  OBVIOUS
<1>2. Len(l) \in Nat
  BY LenProperties
<1> DEFINE y == <<x>>
           n == Len(l)
<1> HIDE DEF y, n
<1>3. /\ m \in Seq(S) /\ Len(m) = 1 + n
      /\ \A i \in 1..1 + n : m[i] = IF i <= 1 THEN y[i] ELSE l[i - 1]
  BY <1>1, ConcatProperties DEF y, n
<1>4. m[1] = x
  <2>1. 1 \in 1..1 + n
    BY <1>2 DEF n
  <2> QED
    BY <1>1, <1>3, <2>1 DEF y
<1>5. ASSUME NEW i \in 1..n PROVE m[i + 1] = l[i]
  <2>1. i + 1 \in 1..1 + n /\ ~(i + 1 <= 1) /\ (i + 1) - 1 = i
    BY <1>2 DEF n
  <2> QED
    BY <1>3, <2>1
<1> QED
  BY <1>2, <1>3, <1>4, <1>5 DEF n

LEMMA JoinFirst ==
  ASSUME NEW x \in Texts, NEW l \in Seq(Texts), NEW delim \in Texts
  PROVE  Join(<<x>> \o l, delim) = IF l = <<>> THEN x ELSE x \o (delim \o Join(l, delim))
<1> DEFINE m == <<x>> \o l
           n == Len(l)
<1>1. /\ m \in Seq(Texts) /\ Len(m) = n + 1 /\ n \in Nat
      /\ m[1] = x /\ \A i \in 1..n : m[i + 1] = l[i]
  BY FirstThen
<1> HIDE DEF m
<1>2. PICK h \in [0..Len(m) -> Texts] : JoinRounds(h, m, delim) /\ Join(m, delim) = h[Len(m)]
  BY <1>1, JoinIs
<1>3. PICK j \in [0..n -> Texts] : JoinRounds(j, l, delim) /\ Join(l, delim) = j[n]
  BY JoinIs
<1>4. l = <<>> <=> n = 0
  BY EmptySeq
<1>5. h[0] = <<>> /\ h[1] = x
  <2>1. 1 \in 1..Len(m) /\ 1 - 1 = 0
    BY <1>1
  <2>2. h[0] = <<>>
    BY <1>2 DEF JoinRounds
  <2>3. h[1] = h[0] \o <<>> \o m[1]
    BY <1>2, <2>1 DEF JoinRounds
  <2>4. <<>> \o <<>> = <<>> /\ <<>> \o x = x
    BY EmptySeq, ConcatEmptySeq DEF Texts
  <2> QED
    BY <1>1, <2>2, <2>3, <2>4
<1> DEFINE P == {i \in 0..n : i = 0 \/ h[i + 1] = x \o (delim \o j[i])}
<1>6. ASSUME NEW i \in 1..n, i - 1 \in P PROVE i \in P
  <2>1. i \in 0..n /\ i # 0 /\ i - 1 \in 0..n /\ i + 1 \in 1..Len(m) /\ i + 1 # 1 /\ (i + 1) - 1 = i
    BY <1>1
  <2>2. l[i] \in Texts
    BY ElementOfSeq
  <2>3. h[i + 1] = (h[i] \o delim) \o l[i]
    BY <1>1, <1>2, <2>1 DEF JoinRounds
  <2>4. CASE i = 1
    <3>1. j[1] = j[0] \o <<>> \o l[1] /\ j[0] = <<>>
      BY <1>3, <2>4 DEF JoinRounds
    <3>2. <<>> \o <<>> = <<>> /\ <<>> \o l[1] = l[1]
      BY <2>2, <2>4, EmptySeq, ConcatEmptySeq DEF Texts
    <3>3. (x \o delim) \o l[1] = x \o (delim \o l[1])
      BY <2>2, <2>4, TextsAssociate
    <3>4. h[i + 1] = x \o (delim \o j[i])
      BY <1>5, <2>3, <2>4, <3>1, <3>2, <3>3
    <3> QED
      BY <2>1, <3>4
  <2>5. CASE i # 1
    <3>1. h[i] = x \o (delim \o j[i - 1])
      <4>1. i - 1 # 0 /\ (i - 1) + 1 = i
        BY <2>5
      <4> QED
        BY <1>6, <4>1
    <3>2. j[i] = (j[i - 1] \o delim) \o l[i]
      BY <1>3, <2>5 DEF JoinRounds
    <3> DEFINE u == j[i - 1]
               y == l[i]
    <3>3. u \in Texts /\ y \in Texts
      BY <2>1, <2>2
    <3> HIDE DEF u, y
    <3>4. /\ u \o delim \in Texts /\ delim \o u \in Texts
          /\ (delim \o u) \o delim = delim \o (u \o delim)
      BY <3>3, TextsJoin, TextsAssociate
    <3> DEFINE ud == u \o delim
               du == delim \o u
    <3>5. ud \in Texts /\ du \in Texts /\ du \o delim = delim \o ud
      BY <3>4
    <3> HIDE DEF ud, du
    <3>6. (x \o du) \o delim = x \o (du \o delim)
      BY <3>5, TextsAssociate
    <3>7. delim \o ud \in Texts
      BY <3>5, TextsJoin
    <3>8. (x \o (delim \o ud)) \o y = x \o ((delim \o ud) \o y)
      BY <3>3, <3>7, TextsAssociate
    <3>9. (delim \o ud) \o y = delim \o (ud \o y)
      BY <3>3, <3>5, TextsAssociate
    <3>10. h[i] = x \o du /\ j[i] = ud \o y /\ h[i + 1] = (h[i] \o delim) \o y
      BY <2>3, <3>1, <3>2 DEF u, y, ud, du
    <3>11. h[i + 1] = x \o (delim \o j[i])
      BY <3>5, <3>6, <3>8, <3>9, <3>10
    <3> QED
      BY <2>1, <3>11
  <2> QED
    BY <2>4, <2>5
<1>7. 0 \in P
  BY <1>1
<1> HIDE DEF P, n
<1>8. n \in P
  <2>1. \A i \in 0..n : i \in P
    BY <1>1, <1>6, <1>7, EveryRound
  <2> QED
    BY <1>1, <2>1
<1>9. n = 0 \/ h[n + 1] = x \o (delim \o j[n])
  BY <1>8 DEF P
<1>10. n = 0 => h[n + 1] = x
  BY <1>5
<1>11. Join(m, delim) = IF l = <<>> THEN x ELSE x \o (delim \o Join(l, delim))
  BY <1>1, <1>2, <1>3, <1>4, <1>9, <1>10
<1> QED
  BY <1>11 DEF m

\* What is kept of a sequence that begins with x.
LEMMA KeptFirst ==
  ASSUME NEW T, NEW x \in T, NEW l \in Seq(T), NEW S
  PROVE  Kept(<<x>> \o l, S) = IF x \in S THEN <<x>> \o Kept(l, S) ELSE Kept(l, S)
<1> DEFINE m == <<x>> \o l
           n == Len(l)
           X == IF x \in S THEN <<x>> ELSE <<>>
<1>1. /\ m \in Seq(T) /\ Len(m) = n + 1 /\ n \in Nat
      /\ m[1] = x /\ \A i \in 1..n : m[i + 1] = l[i]
  BY FirstThen
<1>2. X \in Seq(T)
  <2>1. <<x>> \in Seq(T) /\ <<>> \in Seq(T)
    OBVIOUS
  <2> QED
    BY <2>1
<1> HIDE DEF m
<1>3. PICK h \in [0..Len(m) -> Seq(T)] : KeptRounds(h, m, S) /\ Kept(m, S) = h[Len(m)]
  BY <1>1, KeptIs
<1>4. PICK k \in [0..n -> Seq(T)] : KeptRounds(k, l, S) /\ Kept(l, S) = k[n]
  BY KeptIs
<1>5. h[1] = X
  <2>1. 1 \in 1..Len(m) /\ 1 - 1 = 0
    BY <1>1
  <2>2. h[0] = <<>> /\ h[1] = IF x \in S THEN Append(h[0], x) ELSE h[0]
    BY <1>1, <1>3, <2>1 DEF KeptRounds
  <2>3. Append(<<>>, x) = <<x>>
    OBVIOUS
  <2> QED
    BY <2>2, <2>3
<1> HIDE DEF X
<1> DEFINE P == {i \in 0..n : h[i + 1] = X \o k[i]}
<1>6. 0 \in P
  <2>1. k[0] = <<>>
    BY <1>4 DEF KeptRounds
  <2>2. X \o <<>> = X
    BY <1>2, ConcatEmptySeq
  <2>3. 0 \in 0..n /\ 0 + 1 = 1
    BY <1>1
  <2>4. h[0 + 1] = X \o k[0]
    BY <1>5, <2>1, <2>2, <2>3
  <2> QED
    BY <2>3, <2>4
<1>7. ASSUME NEW i \in 1..n, i - 1 \in P PROVE i \in P
  <2>1. i \in 0..n /\ i - 1 \in 0..n /\ i + 1 \in 1..Len(m) /\ (i + 1) - 1 = i /\ (i - 1) + 1 = i
    BY <1>1
  <2> DEFINE u == k[i - 1]
             y == l[i]
  <2>2. u \in Seq(T) /\ y \in T
    BY <2>1, ElementOfSeq
  <2>3. h[i] = X \o u
    BY <1>7, <2>1
  <2>4. h[i + 1] = IF y \in S THEN Append(h[i], y) ELSE h[i]
    BY <1>1, <1>3, <2>1 DEF KeptRounds
  <2>5. k[i] = IF y \in S THEN Append(u, y) ELSE u
    BY <1>4 DEF KeptRounds
  <2> HIDE DEF u, y
  <2>6. Append(X \o u, y) = X \o Append(u, y)
    <3>1. <<y>> \in Seq(T) /\ Append(u, y) = u \o <<y>>
      BY <2>2, AppendIsConcat
    <3>2. X \o u \in Seq(T)
      BY <1>2, <2>2, ConcatProperties
    <3>3. Append(X \o u, y) = (X \o u) \o <<y>>
      BY <2>2, <3>2, AppendIsConcat
    <3> DEFINE Y == <<y>>
    <3> HIDE DEF Y
    <3>4. (X \o u) \o Y = X \o (u \o Y)
      BY <1>2, <2>2, <3>1, ConcatAssociative DEF Y
    <3> QED
      BY <3>1, <3>3, <3>4 DEF Y
  <2>7. h[i + 1] = X \o k[i]
    BY <2>3, <2>4, <2>5, <2>6
  <2> QED
    BY <2>1, <2>7
<1> HIDE DEF P, n
<1>8. n \in P
  <2>1. \A i \in 0..n : i \in P
    BY <1>1, <1>6, <1>7, EveryRound
  <2> QED
    BY <1>1, <2>1
<1>9. Kept(m, S) = X \o Kept(l, S)
  BY <1>1, <1>3, <1>4, <1>8 DEF P
<1>10. <<>> \o Kept(l, S) = Kept(l, S)
  BY <1>1, <1>4, ConcatEmptySeq
<1> QED
  BY <1>9, <1>10 DEF m, X

-----------------------------------------------------------------------------
(* Split and join                                                          *)

LEMMA NothingJoined ==
  ASSUME NEW delim \in Texts
  PROVE  Join(<<>>, delim) = <<>> /\ Kept(<<>>, Marks) = <<>>
<1> DEFINE nil == <<>>
<1>1. nil \in Seq(Texts) /\ Len(nil) = 0
  BY EmptySeq
<1> HIDE DEF nil
<1>2. Join(nil, delim) = <<>>
  <2>1. PICK g \in [0..Len(nil) -> Texts] : JoinRounds(g, nil, delim) /\ Join(nil, delim) = g[Len(nil)]
    BY <1>1, JoinIs
  <2> QED
    BY <1>1, <2>1 DEF JoinRounds, nil
<1>3. Kept(nil, Marks) = <<>>
  <2>1. PICK k \in [0..Len(nil) -> Seq(Texts)] : KeptRounds(k, nil, Marks) /\ Kept(nil, Marks) = k[Len(nil)]
    BY <1>1, KeptIs
  <2> QED
    BY <1>1, <2>1 DEF KeptRounds, nil
<1> QED
  BY <1>2, <1>3 DEF nil

\* What is behind a place: the items there are, joined, with or without a
\* delimiter behind them.
AsJoined(t, l, delim) == t = Join(l, delim) \/ t = Join(l, delim) \o delim
AllWhole(l, delim) == \A i \in 1..Len(l) : Whole(l[i], delim)

LEMMA RestSplit ==
  ASSUME NEW s \in Texts, NEW delim \in Marks, NEW a \in 1..Len(s), NEW b \in Nat,
         b = NextDelim(s, delim, a), NEW l \in Seq(Texts),
         IF b + Len(delim) > Len(s) THEN l = <<>>
         ELSE l # <<>> /\ AsJoined(SubSeq(s, b + Len(delim), Len(s)), l, delim)
  PROVE  AsJoined(SubSeq(s, a, Len(s)), <<Cut(s, a, b - 1)>> \o l, delim)
<1> DEFINE n == Len(s)
           D == Len(delim)
           it == Cut(s, a, b - 1)
           m == <<it>> \o l
           e == b + D - 1
<1>1. b \in a..n + 1 /\ D \in Nat \ {0} /\ n \in Nat /\ a \in 1..n
  <2>1. n \in Nat
    BY LenProperties DEF Texts
  <2> QED
    BY <2>1, NextDelimIs
<1>8. b <= n => Cut(s, b, e) = delim
  BY NextDelimIs
<1>2. it \in Texts /\ it = SubSeq(s, a, b - 1)
  BY ItemWhole
<1>3. delim \in Texts /\ s \in Seq(Alphabet)
  BY DEF Marks, Texts
<1> HIDE DEF it
<1>4. Join(m, delim) = IF l = <<>> THEN it ELSE it \o (delim \o Join(l, delim))
  BY <1>2, <1>3, JoinFirst
<1> HIDE DEF m
<1>5. CASE b = n + 1
  <2>1. l = <<>> /\ b - 1 = n
    <3> HIDE DEF n, D
    <3>1. b + D > n /\ b - 1 = n
      BY <1>1, <1>5
    <3> QED
      BY <3>1 DEF n, D
  <2>2. SubSeq(s, a, n) = Join(m, delim)
    BY <1>2, <1>4, <2>1
  <2> QED
    BY <2>2 DEF AsJoined, m, it
<1>6. CASE b <= n
  <2>1. a \in Nat \ {0} /\ b \in Nat \ {0} /\ b <= e /\ e \in Nat /\ e - b + 1 = D
        /\ b - 1 \in Nat /\ a <= (b - 1) + 1 /\ b - 1 <= n /\ (b - 1) + 1 = b
        /\ b <= e + 1 /\ e + 1 = b + D
    <3> HIDE DEF n, D
    <3>1. a \in Nat \ {0} /\ b \in Nat \ {0} /\ a <= b /\ b <= n
      BY <1>1, <1>6
    <3>2. b <= e /\ e \in Nat /\ e - b + 1 = D /\ b <= e + 1 /\ e + 1 = b + D
      BY <1>1, <3>1
    <3>3. b - 1 \in Nat /\ a <= (b - 1) + 1 /\ b - 1 <= n /\ (b - 1) + 1 = b
      BY <1>1, <3>1
    <3> QED
      BY <3>1, <3>2, <3>3
  <2>2. e <= n
    <3> SUFFICES ASSUME e > n PROVE FALSE
      <4> HIDE DEF n, D
      <4> QED
        BY <1>1, <2>1
    <3>1. Cut(s, b, e) = delim
      BY <1>6, <1>8, Zenon
    <3> HIDE DEF e
    <3>2. Len(Cut(s, b, e)) < e - b + 1 /\ e \in Int
      BY <1>3, <2>1, LongPart
    <3> HIDE DEF n
    <3>3. Len(delim) < D
      BY <2>1, <3>1, <3>2
    <3> QED
      BY <1>1, <3>3
  <2> HIDE DEF e
  <2>3. SubSeq(s, b, e) = delim
    <3>1. Cut(s, b, e) = SubSeq(s, b, e)
      <4>1. b \in Nat \ {0} /\ e \in Int /\ e <= Len(s)
        BY <2>1, <2>2
      <4> QED
        BY <1>3, <4>1, PartIs
    <3> QED
      BY <1>6, <1>8, <3>1 DEF e
  <2>4. SubSeq(s, a, n) = it \o SubSeq(s, b, n)
    <3> DEFINE c == b - 1
    <3>1. c \in Nat /\ a <= c + 1 /\ c <= n /\ c + 1 = b /\ n <= Len(s) /\ it = SubSeq(s, a, c)
      BY <1>1, <1>2, <2>1
    <3> HIDE DEF c, n
    <3>2. SubSeq(s, a, c) \o SubSeq(s, c + 1, n) = SubSeq(s, a, n)
      BY <1>1, <1>3, <2>1, <3>1, PartsJoin
    <3> QED
      BY <3>1, <3>2
  <2>5. CASE b + D > n
    <3>1. e = n
      <4> HIDE DEF n, D
      <4> QED
        BY <1>1, <2>1, <2>2, <2>5
    <3>2. l = <<>>
      BY <2>5
    <3>3. SubSeq(s, a, n) = Join(m, delim) \o delim
      BY <1>4, <2>3, <2>4, <3>1, <3>2
    <3> QED
      BY <3>3 DEF AsJoined, m, it
  <2>6. CASE ~(b + D > n)
    <3> DEFINE r == SubSeq(s, b + D, n)
               J == Join(l, delim)
    <3>1. SubSeq(s, b, n) = delim \o r
      <4>1. n <= Len(s)
        BY <1>1
      <4> HIDE DEF n, D
      <4>2. b \in Nat \ {0} /\ e \in Nat /\ n \in Nat /\ b <= e + 1 /\ e <= n
        BY <1>1, <2>1, <2>2
      <4>3. SubSeq(s, b, e) \o SubSeq(s, e + 1, n) = SubSeq(s, b, n)
        BY <1>3, <4>1, <4>2, PartsJoin
      <4> QED
        BY <2>1, <2>3, <4>3
    <3>2. l # <<>> /\ (r = J \/ r = J \o delim)
      BY <2>6 DEF AsJoined
    <3>3. J \in Texts
      <4>1. PICK j \in [0..Len(l) -> Texts] : J = j[Len(l)]
        BY <1>3, JoinIs
      <4>2. Len(l) \in Nat
        BY LenProperties
      <4> QED
        BY <4>1, <4>2
    <3> HIDE DEF r, J
    <3>4. delim \o J \in Texts
      BY <1>3, <3>3, TextsJoin
    <3> DEFINE dJ == delim \o J
    <3> HIDE DEF dJ
    <3>5. delim \o (J \o delim) = dJ \o delim
      BY <1>3, <3>3, TextsAssociate DEF dJ
    <3>6. it \o (dJ \o delim) = (it \o dJ) \o delim
      <4>1. dJ \in Texts
        BY <3>4 DEF dJ
      <4> QED
        BY <1>2, <1>3, <4>1, TextsAssociate
    <3>7. Join(m, delim) = it \o dJ
      BY <1>4, <3>2 DEF J, dJ
    <3>8. CASE r = J
      <4>1. SubSeq(s, a, n) = Join(m, delim)
        BY <2>4, <3>1, <3>7, <3>8 DEF dJ
      <4> QED
        BY <4>1 DEF AsJoined, m, it
    <3>9. CASE r = J \o delim
      <4>1. SubSeq(s, a, n) = Join(m, delim) \o delim
        BY <2>4, <3>1, <3>5, <3>6, <3>7, <3>9
      <4> QED
        BY <4>1 DEF AsJoined, m, it
    <3> QED
      BY <3>2, <3>8, <3>9
  <2> QED
    BY <2>5, <2>6
<1>7. b = n + 1 \/ b <= n
  <2> HIDE DEF n, D, e
  <2> QED
    BY <1>1
<1> QED
  BY <1>5, <1>6, <1>7

LEMMA SplitRight ==
  ASSUME NEW s \in Texts, NEW delim \in Marks
  PROVE  LET list == Split(s, delim, FALSE)
         IN /\ list \in Seq(Texts) /\ AsJoined(s, list, delim) /\ AllWhole(list, delim)
            /\ Split(s, delim, TRUE) = Kept(list, Marks)
<1> DEFINE n == Len(s)
           D == Len(delim)
           N == n + D + 1
<1>1. PICK f \in [1..N -> Seq(Texts)] : Splits(f, s, delim, FALSE) /\ Split(s, delim, FALSE) = f[1]
  BY SplitIs
<1>2. PICK g \in [1..N -> Seq(Texts)] : Splits(g, s, delim, TRUE) /\ Split(s, delim, TRUE) = g[1]
  BY SplitIs
<1>3. n \in Nat /\ D \in Nat \ {0} /\ N \in Nat /\ 1 \in 1..N /\ delim \in Texts
  <2>1. n \in Nat
    BY LenProperties DEF Texts
  <2>2. D \in Nat \ {0}
    BY EmptySeq DEF Texts, Marks
  <2> QED
    BY <2>1, <2>2 DEF Marks
<1> DEFINE Right(a) ==
             /\ g[a] = Kept(f[a], Marks) /\ AllWhole(f[a], delim)
             /\ a <= n => f[a] # <<>> /\ AsJoined(SubSeq(s, a, n), f[a], delim)
           P == {a \in 1..N : Right(a)}
<1>4. ASSUME NEW a \in 1..N, a > n PROVE f[a] = <<>> /\ g[a] = <<>> /\ Right(a)
  <2>1. f[a] = <<>> /\ g[a] = <<>>
    BY <1>1, <1>2, <1>4 DEF Splits
  <2>2. Len(f[a]) = 0
    BY <2>1, EmptySeq
  <2>3. AllWhole(f[a], delim)
    BY <2>2 DEF AllWhole
  <2>4. g[a] = Kept(f[a], Marks)
    BY <1>3, <2>1, NothingJoined
  <2>5. ~(a <= n)
    <3> HIDE DEF n, D
    <3> QED
      BY <1>3, <1>4
  <2> QED
    BY <2>1, <2>3, <2>4, <2>5, Zenon
<1>5. ASSUME NEW a \in 1..N, \A j \in 1..N : j > a => j \in P
      PROVE  a \in P
  <2>1. CASE a > n
    BY <1>4, <2>1
  <2>2. CASE ~(a > n)
    <3> DEFINE b == NextDelim(s, delim, a)
               it == Cut(s, a, b - 1)
               l == f[b + D]
    <3>1. a \in 1..n
      <4> HIDE DEF n, D
      <4> QED
        BY <1>3, <2>2
    <3>2. b \in a..n + 1 /\ b \in Nat
      BY <3>1, NextDelimIs
    <3>3. it \in Texts /\ Whole(it, delim) /\ (it = <<>> <=> a = b)
      BY <3>1, ItemWhole
    <3>4. f[a] = <<it>> \o l
      <4>1. f[a] = (IF FALSE /\ a = b THEN <<>> ELSE <<it>>) \o l
        BY <1>1, <3>1, Zenon DEF Splits
      <4> HIDE DEF b, it, l
      <4> QED
        BY <4>1
    <3>5. g[a] = (IF a = b THEN <<>> ELSE <<it>>) \o g[b + D]
      <4>1. g[a] = (IF TRUE /\ a = b THEN <<>> ELSE <<it>>) \o g[b + D]
        BY <1>2, <3>1, Zenon DEF Splits
      <4> HIDE DEF b, it
      <4> QED
        BY <4>1
    <3> DEFINE c == b + D
    <3>6. c \in 1..N /\ c > a
      <4> HIDE DEF n, D, b
      <4> QED
        BY <1>3, <3>1, <3>2
    <3>7. Right(c) /\ l \in Seq(Texts) /\ g[c] \in Seq(Texts)
      <4>1. c \in P
        BY <1>5, <3>6
      <4>2. l \in Seq(Texts) /\ g[c] \in Seq(Texts)
        BY <3>6
      <4> HIDE DEF Right, c, l
      <4> QED
        BY <4>1, <4>2
    <3>8. IF c > n THEN l = <<>> ELSE l # <<>> /\ AsJoined(SubSeq(s, c, n), l, delim)
      <4>1. CASE c > n
        BY <1>4, <3>6, <4>1
      <4>2. CASE ~(c > n)
        <5>1. c <= n
          <6> HIDE DEF n, c, D
          <6>1. c \in Nat
            BY <1>3, <3>6
          <6> QED
            BY <1>3, <4>2, <6>1
        <5> QED
          BY <3>7, <4>2, <5>1, Zenon
      <4> QED
        BY <4>1, <4>2
    <3>9. AsJoined(SubSeq(s, a, n), <<it>> \o l, delim)
      <4> HIDE DEF l, b, P
      <4> QED
        BY <3>1, <3>2, <3>7, <3>8, RestSplit DEF b
    <3> HIDE DEF b, it, l, c
    <3> DEFINE m == <<it>> \o l
    <3>10. /\ m \in Seq(Texts) /\ Len(m) = Len(l) + 1 /\ Len(l) \in Nat
           /\ m[1] = it /\ \A i \in 1..Len(l) : m[i + 1] = l[i]
      BY <3>3, <3>7, FirstThen
    <3> HIDE DEF m
    <3>11. AllWhole(m, delim)
      <4>1. AllWhole(l, delim)
        BY <3>7 DEF l, c
      <4> SUFFICES ASSUME NEW i \in 1..Len(m) PROVE Whole(m[i], delim)
        BY DEF AllWhole
      <4>2. i = 1 \/ (i - 1 \in 1..Len(l) /\ (i - 1) + 1 = i)
        BY <3>10
      <4>3. CASE i = 1
        BY <3>3, <3>10, <4>3
      <4>4. CASE i - 1 \in 1..Len(l) /\ (i - 1) + 1 = i
        <5>1. m[i] = l[i - 1]
          BY <3>10, <4>4
        <5> QED
          BY <4>1, <4>4, <5>1 DEF AllWhole
      <4> QED
        BY <4>2, <4>3, <4>4
    <3>12. g[a] = Kept(m, Marks)
      <4>1. Kept(m, Marks) = IF it \in Marks THEN <<it>> \o Kept(l, Marks) ELSE Kept(l, Marks)
        BY <3>3, <3>7, KeptFirst DEF m
      <4>2. g[c] = Kept(l, Marks)
        BY <3>7 DEF l, c
      <4>3. it \in Marks <=> a # b
        BY <3>3 DEF Marks
      <4>4. <<>> \o g[c] = g[c]
        BY <3>7, ConcatEmptySeq
      <4>5. g[a] = (IF a = b THEN <<>> ELSE <<it>>) \o g[c]
        BY <3>5 DEF c
      <4> QED
        BY <4>1, <4>2, <4>3, <4>4, <4>5
    <3>13. m # <<>>
      <4>1. Len(m) # 0
        BY <3>10
      <4> QED
        BY <4>1, EmptySeq
    <3>14. Right(a)
      BY <3>4, <3>9, <3>11, <3>12, <3>13 DEF m
    <3> QED
      BY <3>14
  <2> QED
    BY <2>1, <2>2
<1> HIDE DEF P, Right
<1>6. \A a \in 1..N : a \in P
  <2> HIDE DEF N
  <2> QED
    BY <1>3, <1>5, DownTo
<1>7. Right(1)
  BY <1>3, <1>6 DEF P
<1>8. AsJoined(s, f[1], delim)
  <2>1. CASE n = 0
    <3>1. f[1] = <<>>
      <4>1. 1 > n
        BY <2>1
      <4> QED
        BY <1>3, <1>4, <4>1
    <3>2. s = <<>>
      BY <2>1, EmptySeq DEF Texts
    <3> QED
      BY <1>3, <3>1, <3>2, NothingJoined DEF AsJoined
  <2>2. CASE n # 0
    <3>1. 1 <= n
      <4> HIDE DEF n, D
      <4> QED
        BY <1>3, <2>2
    <3>2. SubSeq(s, 1, n) = s
      BY SubSeqFull DEF Texts
    <3> QED
      BY <1>7, <3>1, <3>2 DEF Right
  <2> QED
    BY <2>1, <2>2
<1>9. f[1] \in Seq(Texts)
  BY <1>3
<1> QED
  BY <1>1, <1>2, <1>7, <1>8, <1>9 DEF Right

-----------------------------------------------------------------------------
(* What a string with references stands for                                *)

LEMMA CutTypes ==
  ASSUME NEW S, NEW s \in Seq(S), NEW a \in Nat \ {0}, NEW b \in Int
  PROVE  Cut(s, a, b) \in Seq(S) /\ Len(Cut(s, a, b)) \in Nat
<1>1. Len(s) \in Nat
  BY LenProperties
<1>2. CASE b <= Len(s)
  <2>1. Cut(s, a, b) \in Seq(S)
    BY <1>2, PartIs
  <2> QED
    BY <2>1, LenProperties
<1>3. CASE b > Len(s) /\ a <= b
  BY <1>3, LongPart
<1>4. CASE b > Len(s) /\ ~(a <= b)
  <2>1. Min({b, Len(s)}) \in {b, Len(s)}
    <3> DEFINE T == {b, Len(s)}
    <3>1. T \subseteq Nat /\ T # {}
      BY <1>1, <1>4
    <3> HIDE DEF T
    <3>2. Min(T) \in T
      BY <3>1, LeastIs
    <3> QED
      BY <3>2 DEF T
  <2> DEFINE m == Min({b, Len(s)})
  <2>2. m \in Int /\ m < a
    BY <1>1, <1>4, <2>1
  <2>3. Cut(s, a, b) = <<>>
    <3> HIDE DEF m
    <3>1. SubSeq(s, a, m) = <<>>
      BY <2>2, SubSeqEmpty
    <3> QED
      BY <3>1 DEF Cut, m
  <2> QED
    BY <2>3, EmptySeq
<1> QED
  BY <1>1, <1>2, <1>3, <1>4

LEMMA WholeCut ==
  ASSUME NEW S, NEW s \in Seq(S), NEW b \in Int, b >= Len(s)
  PROVE  Cut(s, 1, b) = s
<1>1. Len(s) \in Nat /\ SubSeq(s, 1, Len(s)) = s /\ 1 \in Nat \ {0}
  BY LenProperties, SubSeqFull
<1> DEFINE one == 1
<1> HIDE DEF one
<1>2. CASE b = Len(s)
  <2>1. Cut(s, one, b) = SubSeq(s, one, b)
    BY <1>1, <1>2, PartIs DEF one
  <2> QED
    BY <1>1, <1>2, <2>1 DEF one
<1>3. CASE b > Len(s)
  <2>1. one \in Nat \ {0} /\ one <= b
    BY <1>1, <1>3 DEF one
  <2>2. Cut(s, one, b) = SubSeq(s, one, Len(s))
    BY <1>3, <2>1, LongPart
  <2> QED
    BY <1>1, <2>2 DEF one
<1>4. b = Len(s) \/ b > Len(s)
  <2>1. Len(s) \in Nat
    BY LenProperties
  <2> QED
    BY <2>1
<1> QED
  BY <1>2, <1>3, <1>4, Zenon DEF one

LEMMA DerefTypes ==
  ASSUME NEW name
  PROVE  Deref(name) \in Texts
  BY TextAssumption, EmptySeq DEF Deref, Texts

LEMMA NameEndIs ==
  ASSUME text \in Texts, NEW i \in 1..Len(text) + 1
  PROVE  /\ NameEnd(i) \in i..Len(text) + 1 /\ NameEnd(i) \in Nat
         /\ NameEnd(i) <= Len(text) => ~Alnum(text[NameEnd(i)])
         /\ \A j \in i..Len(text) : ~Alnum(text[j]) => NameEnd(i) <= j
<1> DEFINE n == Len(text)
           S == {j \in i..n : ~Alnum(text[j])}
           b == NameEnd(i)
<1>1. n \in Nat /\ S \subseteq i..n
  BY LenProperties DEF Texts
<1>2. b = Min(S \cup {n + 1})
  BY DEF NameEnd
<1> HIDE DEF b
<1>3. b \in i..n + 1 /\ b \in Nat /\ (b <= n => b \in S) /\ \A j \in S : b <= j
  <2> HIDE DEF S, n
  <2>1. i \in 1..n + 1
    BY DEF n
  <2> QED
    BY <1>1, <1>2, <2>1, FirstPlace
<1> HIDE DEF n
<1>4. (b <= n => ~Alnum(text[b])) /\ \A j \in i..n : ~Alnum(text[j]) => b <= j
  BY <1>3
<1> QED
  BY <1>1, <1>3, <1>4 DEF b, n

LEMMA BraceEndIs ==
  ASSUME text \in Texts, NEW i \in 1..Len(text) + 1
  PROVE  /\ BraceEnd(i) \in i..Len(text) + 1 /\ BraceEnd(i) \in Nat
         /\ BraceEnd(i) <= Len(text) => text[BraceEnd(i)] = "}"
         /\ \A j \in i..Len(text) : text[j] = "}" => BraceEnd(i) <= j
<1> DEFINE n == Len(text)
           S == {j \in i..n : text[j] = "}"}
           b == BraceEnd(i)
<1>1. n \in Nat /\ S \subseteq i..n
  BY LenProperties DEF Texts
<1>2. b = Min(S \cup {n + 1})
  BY DEF BraceEnd
<1> HIDE DEF b
<1>3. b \in i..n + 1 /\ b \in Nat /\ (b <= n => b \in S) /\ \A j \in S : b <= j
  <2> HIDE DEF S, n
  <2>1. i \in 1..n + 1
    BY DEF n
  <2> QED
    BY <1>1, <1>2, <2>1, FirstPlace
<1> HIDE DEF n
<1>4. (b <= n => text[b] = "}") /\ \A j \in i..n : text[j] = "}" => b <= j
  BY <1>3
<1> QED
  BY <1>1, <1>3, <1>4 DEF b, n

\* What the references that begin at i stand for, and what is behind them.
NamePart(f, i) == Deref(Cut(text, i, NameEnd(i) - 1)) \o f[NameEnd(i)]
BracePart(f, i) == Deref(Cut(text, i, BraceEnd(i) - 1)) \o f[BraceEnd(i) + 1]

\* What the string stands for, behind each place.
Expands(f) ==
  \A i \in 1..Len(text) + 2 :
    f[i] = IF i > Len(text) THEN <<>>
           ELSE IF text[i] = "\\" THEN Cut(text, i + 1, i + 1) \o f[i + 2]
           ELSE IF text[i] = "$" /\ i < Len(text) /\ text[i + 1] = "{" THEN BracePart(f, i + 2)
           ELSE IF text[i] = "$" THEN NamePart(f, i + 1)
           ELSE <<text[i]>> \o f[i + 1]

LEMMA ExpansionIs ==
  ASSUME text \in Texts
  PROVE  \E f \in [1..Len(text) + 2 -> Texts] : Expands(f) /\ Expansion = f[1]
<1> DEFINE n == Len(text)
           N == n + 2
           X == [1..N -> Texts]
           Value(v, i) ==
             IF i > n THEN <<>>
             ELSE IF text[i] = "\\" THEN Cut(text, i + 1, i + 1) \o v[i + 2]
             ELSE IF text[i] = "$" /\ i < n /\ text[i + 1] = "{" THEN BracePart(v, i + 2)
             ELSE IF text[i] = "$" THEN NamePart(v, i + 1)
             ELSE <<text[i]>> \o v[i + 1]
           F == [p \in X \X (1..N) |-> Value(p[1], p[2])]
           w == CHOOSE w : w = [i \in 1..N |-> Value(w, i)]
<1>1. n \in Nat /\ N \in Nat /\ 1 \in 1..N /\ <<>> \in Texts
  <2>1. n \in Nat
    BY LenProperties DEF Texts
  <2> QED
    BY <2>1, EmptySeq DEF Texts
<1>2. Expansion = w[1]
  BY DEF Expansion, NamePart, BracePart
<1>3. ASSUME NEW i \in 1..N, ~(i > n)
      PROVE  i \in 1..n /\ i + 1 \in 1..N /\ i + 2 \in 1..N /\ i + 1 \in 1..n + 1
             /\ i + 1 > i /\ i + 2 > i /\ i < n => i + 2 \in 1..n + 1
  <2> HIDE DEF n
  <2> QED
    BY <1>1, <1>3
<1>4. ASSUME NEW i \in 1..n + 1
      PROVE  /\ NameEnd(i) \in 1..N /\ NameEnd(i) >= i
             /\ BraceEnd(i) + 1 \in 1..N /\ BraceEnd(i) + 1 > i
  <2>1. NameEnd(i) \in i..n + 1 /\ BraceEnd(i) \in i..n + 1
    BY NameEndIs, BraceEndIs
  <2> HIDE DEF n
  <2> QED
    BY <1>1, <2>1
<1> HIDE DEF w
<1>5. ASSUME NEW v, NEW i \in 1..N, \A j \in 1..N : j > i => v[j] \in Texts
      PROVE  Value(v, i) \in Texts
  <2>1. CASE i > n
    BY <1>1, <2>1
  <2>2. CASE ~(i > n)
    <3>1. v[i + 1] \in Texts /\ v[i + 2] \in Texts
      BY <1>3, <1>5, <2>2
    <3>2. <<text[i]>> \o v[i + 1] \in Texts
      <4>1. text[i] \in Alphabet
        BY <1>3, <2>2, ElementOfSeq DEF Texts
      <4>2. <<text[i]>> \in Texts
        BY <4>1 DEF Texts
      <4> QED
        BY <3>1, <4>2, TextsJoin
    <3>3. Cut(text, i + 1, i + 1) \o v[i + 2] \in Texts
      <4>1. i + 1 \in Nat \ {0} /\ i + 1 \in Int
        OBVIOUS
      <4>2. Cut(text, i + 1, i + 1) \in Texts
        BY <4>1, CutTypes DEF Texts
      <4> QED
        BY <3>1, <4>2, TextsJoin
    <3>4. NamePart(v, i + 1) \in Texts
      <4>1. i + 1 \in 1..n + 1
        BY <1>3, <2>2
      <4>2. NameEnd(i + 1) \in 1..N /\ NameEnd(i + 1) >= i + 1
        BY <1>4, <4>1
      <4>3. NameEnd(i + 1) > i
        BY <4>2
      <4>4. v[NameEnd(i + 1)] \in Texts
        BY <1>5, <4>2, <4>3
      <4> QED
        BY <4>4, DerefTypes, TextsJoin DEF NamePart
    <3>5. i < n => BracePart(v, i + 2) \in Texts
      <4> SUFFICES ASSUME i < n PROVE BracePart(v, i + 2) \in Texts
        OBVIOUS
      <4>1. i + 2 \in 1..n + 1
        BY <1>3, <2>2
      <4>2. BraceEnd(i + 2) + 1 \in 1..N /\ BraceEnd(i + 2) + 1 > i + 2
        BY <1>4, <4>1
      <4>3. BraceEnd(i + 2) + 1 > i
        BY <4>2
      <4>4. v[BraceEnd(i + 2) + 1] \in Texts
        BY <1>5, <4>2, <4>3
      <4> QED
        BY <4>4, DerefTypes, TextsJoin DEF BracePart
    <3> HIDE DEF n, N
    <3> QED
      BY <2>2, <3>2, <3>3, <3>4, <3>5
  <2> QED
    BY <2>1, <2>2
<1>6. ASSUME NEW v, NEW u, NEW i \in 1..N, \A j \in 1..N : j > i => v[j] = u[j]
      PROVE  Value(v, i) = Value(u, i)
  <2>1. CASE i > n
    BY <2>1
  <2>2. CASE ~(i > n)
    <3>1. v[i + 1] = u[i + 1] /\ v[i + 2] = u[i + 2]
      BY <1>3, <1>6, <2>2
    <3>2. NamePart(v, i + 1) = NamePart(u, i + 1)
      <4>1. i + 1 \in 1..n + 1
        BY <1>3, <2>2
      <4>2. NameEnd(i + 1) \in 1..N /\ NameEnd(i + 1) >= i + 1
        BY <1>4, <4>1
      <4>3. NameEnd(i + 1) > i
        BY <4>2
      <4> QED
        BY <1>6, <4>2, <4>3 DEF NamePart
    <3>3. i < n => BracePart(v, i + 2) = BracePart(u, i + 2)
      <4> SUFFICES ASSUME i < n PROVE BracePart(v, i + 2) = BracePart(u, i + 2)
        OBVIOUS
      <4>1. i + 2 \in 1..n + 1
        BY <1>3, <2>2
      <4>2. BraceEnd(i + 2) + 1 \in 1..N /\ BraceEnd(i + 2) + 1 > i + 2
        BY <1>4, <4>1
      <4>3. BraceEnd(i + 2) + 1 > i
        BY <4>2
      <4> QED
        BY <1>6, <4>2, <4>3 DEF BracePart
    <3> HIDE DEF n, N
    <3> QED
      BY <2>2, <3>1, <3>2, <3>3
  <2> QED
    BY <2>1, <2>2
<1> HIDE DEF Value, N
<1>7. Behind(F, X, N, Texts)
  <2>1. ASSUME NEW v \in X, NEW i \in 1..N
        PROVE  F[<<v, i>>] = Value(v, i) /\ Value(v, i) \in Texts
    <3>1. \A j \in 1..N : v[j] \in Texts
      OBVIOUS
    <3> HIDE DEF X
    <3> QED
      BY <1>5, <3>1
  <2> HIDE DEF F, X
  <2> QED
    BY <1>6, <2>1 DEF Behind
<1>8. PICK g \in X : \A i \in 1..N : g[i] = F[<<g, i>>]
  <2> HIDE DEF F
  <2>1. X = [1..N -> Texts]
    OBVIOUS
  <2> HIDE DEF X
  <2> DEFINE nil == <<>>
  <2>2. nil \in Texts
    BY <1>1
  <2> HIDE DEF nil
  <2>3. \E g \in X : Obeys(g, F, N)
    BY <1>1, <1>7, <2>1, <2>2, DownExists
  <2> QED
    BY <2>3 DEF Obeys
<1>9. \A i \in 1..N : F[<<g, i>>] = Value(g, i)
  <2> HIDE DEF X
  <2> QED
    OBVIOUS
<1> HIDE DEF F
<1>10. g = [i \in 1..N |-> Value(g, i)]
  BY <1>8, <1>9
<1>11. w = [i \in 1..N |-> Value(w, i)]
  BY <1>10 DEF w
<1>12. DOMAIN w = 1..N /\ \A i \in 1..N : w[i] = Value(w, i)
  <2> DEFINE G(x) == [i \in 1..N |-> Value(x, i)]
  <2>1. w = G(w) /\ DOMAIN G(w) = 1..N /\ \A i \in 1..N : G(w)[i] = Value(w, i)
    BY <1>11
  <2> HIDE DEF G
  <2> QED
    BY <2>1
<1>13. \A i \in 1..N : w[i] \in Texts
  <2> DEFINE P == {i \in 1..N : w[i] \in Texts}
  <2>1. ASSUME NEW i \in 1..N, \A j \in 1..N : j > i => j \in P
        PROVE  i \in P
    BY <1>5, <1>12, <2>1
  <2> HIDE DEF P
  <2>2. \A i \in 1..N : i \in P
    BY <1>1, <2>1, DownTo
  <2> QED
    BY <2>2 DEF P
<1>14. w \in X
  <2>1. w = [i \in 1..N |-> w[i]]
    BY <1>11, <1>12
  <2> QED
    BY <1>13, <2>1
<1>15. Expands(w)
  BY <1>12 DEF Expands, Value, N
<1> QED
  BY <1>2, <1>14, <1>15 DEF N

-----------------------------------------------------------------------------
(* The passes of interpolate()                                             *)

\* Characters in memory, the limits of a pass and where it can be.
Chars == Alphabet \cup {NUL}
Limits == Nat \cup {NoLimit}
PassStates ==
  [s : Nat \ {0}, state : {"COPY", "ESC", "SREF", "CREF"}, ref : Nat \ {0}, out : Seq(Chars)]

PassStart == [s |-> 1, state |-> "COPY", ref |-> 1, out |-> <<>>]
PassRound(mem, limit, c) ==
  IF Done(mem, limit, c) THEN c ELSE Take(mem, limit, Resolve(mem, limit, c))
PassEnd(mem, limit, c) ==
  IF c.state \in {"SREF", "CREF"} THEN PutRef(mem, limit, c) ELSE c.out

LEMMA CharTypes ==
  ASSUME NEW mem \in Seq(Chars), NEW i \in Nat \ {0}
  PROVE  CharAt(mem, i) \in Chars /\ <<CharAt(mem, i)>> \in Seq(Chars)
<1>1. CharAt(mem, i) \in Chars
  <2>1. Len(mem) \in Nat
    BY LenProperties
  <2>2. CASE i <= Len(mem)
    <3>1. i \in 1..Len(mem)
      BY <2>1, <2>2
    <3> QED
      BY <2>2, <3>1, ElementOfSeq DEF CharAt
  <2>3. CASE ~(i <= Len(mem))
    BY <2>3 DEF CharAt, Chars
  <2> QED
    BY <2>2, <2>3
<1> QED
  BY <1>1

LEMMA PutTypes ==
  ASSUME NEW out \in Seq(Chars), NEW s \in Seq(Chars), NEW limit \in Limits
  PROVE  /\ Put(out, s, limit) \in Seq(Chars)
         /\ Put(out, s, NoLimit) = out \o s
         /\ \E t \in Seq(Chars) : Put(out, s, limit) = out \o t
<1>1. Len(out) \in Int
  BY LenProperties
<1>2. CASE limit = NoLimit
  BY <1>2, ConcatProperties DEF Put
<1>3. CASE limit # NoLimit
  <2> DEFINE l == limit - Len(out)
             one == 1
             t == Cut(s, one, l)
  <2>1. l \in Int /\ one \in Nat \ {0}
    BY <1>1, <1>3 DEF Limits
  <2> HIDE DEF l, one
  <2>2. t \in Seq(Chars)
    BY <2>1, CutTypes
  <2>3. Put(out, s, limit) = out \o t
    BY <1>3 DEF Put, l, one
  <2> HIDE DEF t
  <2> QED
    BY <2>2, <2>3, ConcatProperties DEF Put
<1> QED
  BY <1>2, <1>3

LEMMA RefTypes ==
  ASSUME NEW mem, NEW c \in PassStates, NEW limit \in Limits
  PROVE  /\ PutRef(mem, limit, c) \in Seq(Chars)
         /\ PutRef(mem, NoLimit, c) = c.out \o Deref(Cut(mem, c.ref, c.s - 1))
         /\ \E t \in Seq(Chars) : PutRef(mem, limit, c) = c.out \o t
<1> DEFINE s == Deref(Cut(mem, c.ref, c.s - 1))
<1>1. s \in Seq(Chars)
  <2>1. s \in Seq(Alphabet) /\ Alphabet \subseteq Chars
    BY DerefTypes DEF Texts, Chars
  <2> HIDE DEF s
  <2> QED
    BY <2>1, SeqMonotonic
<1>2. c.out \in Seq(Chars)
  BY DEF PassStates
<1>3. PutRef(mem, limit, c) = Put(c.out, s, limit) /\ PutRef(mem, NoLimit, c) = Put(c.out, s, NoLimit)
  BY DEF PutRef
<1> HIDE DEF s
<1>4. PutRef(mem, limit, c) \in Seq(Chars) /\ PutRef(mem, NoLimit, c) = c.out \o s
      /\ \E t \in Seq(Chars) : PutRef(mem, limit, c) = c.out \o t
  <2> DEFINE o == c.out
  <2>1. o \in Seq(Chars)
    BY <1>2
  <2> HIDE DEF o
  <2>2. /\ Put(o, s, limit) \in Seq(Chars) /\ Put(o, s, NoLimit) = o \o s
        /\ \E t \in Seq(Chars) : Put(o, s, limit) = o \o t
    BY <1>1, <2>1, PutTypes, Zenon
  <2> QED
    BY <1>3, <2>2, Zenon DEF o
<1> QED
  BY <1>4 DEF s

\* What the end of a reference does.
Resolved(mem, limit, c, r) ==
  \/ /\ r = c
     /\ c.state = "SREF" => Alnum(CharAt(mem, c.s))
     /\ c.state = "CREF" => CharAt(mem, c.s) # "}"
  \/ /\ c.state = "SREF" /\ ~Alnum(CharAt(mem, c.s))
     /\ r.state = "COPY" /\ r.s = c.s /\ r.out = PutRef(mem, limit, c)
  \/ /\ c.state = "CREF" /\ CharAt(mem, c.s) = "}"
     /\ r.state = "COPY" /\ r.s = c.s + 1 /\ r.out = PutRef(mem, limit, c)

LEMMA ResolveIs ==
  ASSUME NEW mem \in Seq(Chars), NEW c \in PassStates, NEW limit \in Limits,
         NEW r, r = Resolve(mem, limit, c)
  PROVE  /\ r \in PassStates /\ r.s >= c.s
         /\ r.out = c.out \/ r.out = PutRef(mem, limit, c)
         /\ Resolved(mem, limit, c, r)
<1>1. PutRef(mem, limit, c) \in Seq(Chars)
  BY RefTypes
<1>2. c.s \in Nat \ {0} /\ c.s + 1 \in Nat \ {0} /\ c.s >= c.s /\ c.s + 1 >= c.s
  BY DEF PassStates
<1>3. CASE c.state = "SREF" /\ ~Alnum(CharAt(mem, c.s))
  <2>1. r = [c EXCEPT !.state = "COPY", !.out = PutRef(mem, limit, c)]
    BY <1>3 DEF Resolve
  <2>2. r \in PassStates /\ r.state = "COPY" /\ r.s = c.s /\ r.out = PutRef(mem, limit, c)
    BY <1>1, <2>1 DEF PassStates
  <2> QED
    BY <1>2, <1>3, <2>2 DEF Resolved
<1>4. CASE c.state = "CREF" /\ CharAt(mem, c.s) = "}"
  <2>1. r = [c EXCEPT !.state = "COPY", !.out = PutRef(mem, limit, c), !.s = c.s + 1]
    BY <1>4 DEF Resolve
  <2>2. r \in PassStates /\ r.state = "COPY" /\ r.s = c.s + 1 /\ r.out = PutRef(mem, limit, c)
    BY <1>1, <1>2, <2>1 DEF PassStates
  <2> QED
    BY <1>2, <1>4, <2>2 DEF Resolved
<1>5. CASE /\ ~(c.state = "SREF" /\ ~Alnum(CharAt(mem, c.s)))
           /\ ~(c.state = "CREF" /\ CharAt(mem, c.s) = "}")
  <2>1. r = c
    BY <1>5 DEF Resolve
  <2> QED
    BY <1>2, <1>5, <2>1 DEF Resolved
<1> QED
  BY <1>3, <1>4, <1>5 DEF Resolved

\* What taking a character does.
Took(char, behind, limit, c, d) ==
  \/ /\ c.state = "ESC" \/ (c.state = "COPY" /\ char # "\\" /\ char # "$")
     /\ d.state = "COPY" /\ d.s = c.s + 1 /\ d.out = Put(c.out, <<char>>, limit)
  \/ /\ c.state = "COPY" /\ char = "\\"
     /\ d.state = "ESC" /\ d.s = c.s + 1 /\ d.out = c.out
  \/ /\ c.state = "COPY" /\ char = "$" /\ behind = "{"
     /\ d.state = "CREF" /\ d.s = c.s + 2 /\ d.ref = d.s /\ d.out = c.out
  \/ /\ c.state = "COPY" /\ char = "$" /\ behind # "{"
     /\ d.state = "SREF" /\ d.s = c.s + 1 /\ d.ref = d.s /\ d.out = c.out
  \/ /\ c.state \in {"SREF", "CREF"}
     /\ d.state = c.state /\ d.s = c.s + 1 /\ d.ref = c.ref /\ d.out = c.out

LEMMA TakeIs ==
  ASSUME NEW mem \in Seq(Chars), NEW c \in PassStates, NEW limit \in Limits,
         NEW d, d = Take(mem, limit, c)
  PROVE  /\ d \in PassStates /\ d.s >= c.s + 1
         /\ d.out = c.out \/ d.out = Put(c.out, <<CharAt(mem, c.s)>>, limit)
         /\ Took(CharAt(mem, c.s), CharAt(mem, c.s + 1), limit, c, d)
<1> DEFINE char == CharAt(mem, c.s)
           put == Put(c.out, <<char>>, limit)
<1>1. /\ c.s \in Nat \ {0} /\ c.s + 1 \in Nat \ {0} /\ c.s + 2 \in Nat \ {0}
      /\ c.s + 1 >= c.s + 1 /\ c.s + 2 >= c.s + 1 /\ c.out \in Seq(Chars)
      /\ c.state \in {"COPY", "ESC", "SREF", "CREF"}
  BY DEF PassStates
<1>2. put \in Seq(Chars)
  BY <1>1, CharTypes, PutTypes
<1>3. "\\" # "$"
  OBVIOUS
<1>4. CASE c.state = "ESC" \/ (c.state = "COPY" /\ char # "\\" /\ char # "$")
  <2>1. d = [c EXCEPT !.state = "COPY", !.out = put, !.s = c.s + 1]
    BY <1>4 DEF Take
  <2> HIDE DEF put
  <2>2. d \in PassStates /\ d.state = "COPY" /\ d.s = c.s + 1 /\ d.out = put
    BY <1>1, <1>2, <2>1 DEF PassStates
  <2> QED
    BY <1>1, <1>4, <2>2 DEF put, Took
<1>5. CASE c.state = "COPY" /\ char = "\\"
  <2>1. d = [c EXCEPT !.state = "ESC", !.s = c.s + 1]
    BY <1>5 DEF Take
  <2>2. d \in PassStates /\ d.state = "ESC" /\ d.s = c.s + 1 /\ d.out = c.out
    BY <1>1, <2>1 DEF PassStates
  <2> QED
    BY <1>1, <1>5, <2>2 DEF Took
<1>6. CASE c.state = "COPY" /\ char = "$" /\ CharAt(mem, c.s + 1) = "{"
  <2>1. d = [c EXCEPT !.state = "CREF", !.s = c.s + 2, !.ref = c.s + 2]
    BY <1>3, <1>6 DEF Take
  <2>2. d \in PassStates /\ d.state = "CREF" /\ d.s = c.s + 2 /\ d.ref = d.s /\ d.out = c.out
    BY <1>1, <2>1 DEF PassStates
  <2> QED
    BY <1>1, <1>6, <2>2 DEF Took
<1>7. CASE c.state = "COPY" /\ char = "$" /\ CharAt(mem, c.s + 1) # "{"
  <2>1. d = [c EXCEPT !.state = "SREF", !.s = c.s + 1, !.ref = c.s + 1]
    BY <1>3, <1>7 DEF Take
  <2>2. d \in PassStates /\ d.state = "SREF" /\ d.s = c.s + 1 /\ d.ref = d.s /\ d.out = c.out
    BY <1>1, <2>1 DEF PassStates
  <2> QED
    BY <1>1, <1>7, <2>2 DEF Took
<1>8. CASE c.state \in {"SREF", "CREF"}
  <2>1. d = [c EXCEPT !.s = c.s + 1]
    BY <1>8 DEF Take
  <2>2. d \in PassStates /\ d.state = c.state /\ d.s = c.s + 1 /\ d.ref = c.ref /\ d.out = c.out
    BY <1>1, <2>1 DEF PassStates
  <2> QED
    BY <1>1, <1>8, <2>2 DEF Took
<1> QED
  BY <1>1, <1>4, <1>5, <1>6, <1>7, <1>8, Zenon DEF Took

\* A round goes on, and puts out more, or nothing.
LEMMA RoundIs ==
  ASSUME NEW mem \in Seq(Chars), NEW c \in PassStates, NEW limit \in Limits,
         NEW d, d = PassRound(mem, limit, c)
  PROVE  /\ d \in PassStates /\ \E t \in Seq(Chars) : d.out = c.out \o t
         /\ Done(mem, limit, c) => d = c
         /\ ~Done(mem, limit, c) => d.s >= c.s + 1
<1>6. PICK r : r = Resolve(mem, limit, c)
  OBVIOUS
<1>7. PICK e : e = Take(mem, limit, r)
  OBVIOUS
<1>1. c.out \in Seq(Chars) /\ c.s \in Nat
  BY DEF PassStates
<1>2. r \in PassStates /\ r.s >= c.s /\ (r.out = c.out \/ r.out = PutRef(mem, limit, c))
  BY <1>6, ResolveIs
<1>3. /\ e \in PassStates /\ e.s >= r.s + 1
      /\ e.out = r.out \/ e.out = Put(r.out, <<CharAt(mem, r.s)>>, limit)
  BY <1>2, <1>7, TakeIs
<1>4. CASE Done(mem, limit, c)
  <2>1. d = c
    BY <1>4 DEF PassRound
  <2>2. c.out = c.out \o <<>> /\ <<>> \in Seq(Chars)
    BY <1>1, ConcatEmptySeq, EmptySeq
  <2> QED
    BY <1>4, <2>1, <2>2
<1>5. CASE ~Done(mem, limit, c)
  <2>1. d = e
    BY <1>5, <1>6, <1>7 DEF PassRound
  <2>2. PICK t \in Seq(Chars) : r.out = c.out \o t
    <3>1. <<>> \in Seq(Chars) /\ c.out \o <<>> = c.out
      BY <1>1, ConcatEmptySeq, EmptySeq
    <3>2. \E t \in Seq(Chars) : PutRef(mem, limit, c) = c.out \o t
      BY RefTypes
    <3> QED
      BY <1>2, <3>1, <3>2
  <2>3. PICK u \in Seq(Chars) : e.out = r.out \o u
    <3>1. r.out \in Seq(Chars) /\ r.s \in Nat \ {0}
      BY <1>2 DEF PassStates
    <3>2. <<>> \in Seq(Chars) /\ r.out \o <<>> = r.out
      BY <3>1, ConcatEmptySeq, EmptySeq
    <3>3. \E u \in Seq(Chars) : Put(r.out, <<CharAt(mem, r.s)>>, limit) = r.out \o u
      BY <3>1, CharTypes, PutTypes
    <3> QED
      BY <1>3, <3>2, <3>3
  <2>4. (c.out \o t) \o u = c.out \o (t \o u) /\ t \o u \in Seq(Chars)
    <3> DEFINE o == c.out
    <3>1. o \in Seq(Chars)
      BY <1>1
    <3> HIDE DEF o
    <3>2. (o \o t) \o u = o \o (t \o u)
      BY <3>1, ConcatAssociative
    <3>3. t \o u \in Seq(Chars)
      BY ConcatProperties
    <3> QED
      BY <3>2, <3>3 DEF o
  <2>5. e.s >= c.s + 1
    <3>1. r.s \in Nat /\ e.s \in Nat
      BY <1>2, <1>3 DEF PassStates
    <3> QED
      BY <1>1, <1>2, <1>3, <3>1
  <2> QED
    BY <1>3, <1>5, <2>1, <2>2, <2>3, <2>4, <2>5
<1> QED
  BY <1>4, <1>5

\* The rounds of a pass.
PassRounds(p, mem, limit) ==
  /\ p[0] = PassStart
  /\ \A i \in 1..Len(mem) + 1 : p[i] = PassRound(mem, limit, p[i - 1])

LEMMA PassIs ==
  ASSUME NEW mem \in Seq(Chars), NEW limit \in Limits
  PROVE  \E p \in [0..Len(mem) + 1 -> PassStates] :
           /\ PassRounds(p, mem, limit)
           /\ Pass(mem, limit) = PassEnd(mem, limit, p[Len(mem) + 1])
<1> DEFINE n == Len(mem) + 1
           F == [q \in PassStates \X (1..n) |-> PassRound(mem, limit, q[1])]
           Step(p, i) == IF i = 0 THEN PassStart ELSE PassRound(mem, limit, p[i - 1])
           w == CHOOSE w : w = [i \in 0..n |-> Step(w, i)]
<1>1. n \in Nat /\ PassStart \in PassStates
  <2>1. Len(mem) \in Nat /\ <<>> \in Seq(Chars)
    BY LenProperties, EmptySeq
  <2> QED
    BY <2>1 DEF PassStart, PassStates
<1>2. ASSUME NEW c \in PassStates PROVE PassRound(mem, limit, c) \in PassStates
  BY RoundIs
<1>3. Pass(mem, limit) = PassEnd(mem, limit, w[n])
  BY DEF Pass, PassEnd, PassRound, PassStart
<1> HIDE DEF w, n
<1>4. \A c \in PassStates, i \in 1..n : F[<<c, i>>] = PassRound(mem, limit, c)
  OBVIOUS
<1> HIDE DEF F
<1>5. PICK g \in [0..n -> PassStates] : RoundsOf(g, F, n, PassStart)
  <2>1. Closed(F, n, PassStates)
    BY <1>2, <1>4 DEF Closed
  <2> QED
    BY <1>1, <2>1, RoundsExist
<1>6. ASSUME NEW i \in 1..n PROVE g[i] = PassRound(mem, limit, g[i - 1])
  <2>1. i - 1 \in 0..n
    BY <1>1
  <2> QED
    BY <1>4, <1>5, <2>1 DEF RoundsOf
<1>7. g = [i \in 0..n |-> Step(g, i)]
  <2>1. ASSUME NEW i \in 0..n PROVE g[i] = Step(g, i)
    <3>1. i # 0 => i \in 1..n
      BY <1>1
    <3> QED
      BY <1>5, <1>6, <3>1 DEF RoundsOf
  <2> QED
    BY <2>1
<1> HIDE DEF Step
<1>8. w = [i \in 0..n |-> Step(w, i)]
  BY <1>7 DEF w
<1>9. \A i \in 0..n : w[i] = Step(w, i)
  <2> DEFINE G(x) == [i \in 0..n |-> Step(x, i)]
  <2>1. w = G(w) /\ \A i \in 0..n : G(w)[i] = Step(w, i)
    BY <1>8
  <2> HIDE DEF G
  <2> QED
    BY <2>1
<1> DEFINE P == {i \in 0..n : w[i] = g[i]}
<1>10. 0 \in P
  BY <1>1, <1>5, <1>9 DEF RoundsOf, Step
<1>11. ASSUME NEW i \in 1..n, i - 1 \in P PROVE i \in P
  <2>1. i \in 0..n /\ i # 0
    BY <1>1
  <2>2. w[i] = PassRound(mem, limit, w[i - 1]) /\ w[i - 1] = g[i - 1]
    BY <1>9, <1>11, <2>1 DEF Step
  <2> QED
    BY <1>6, <2>1, <2>2
<1>12. \A i \in 0..n : i \in P
  <2> HIDE DEF P
  <2> QED
    BY <1>1, <1>10, <1>11, EveryRound
<1>13. n \in 0..n /\ w[n] = g[n]
  BY <1>1, <1>12
<1>14. PassRounds(g, mem, limit)
  BY <1>5, <1>6 DEF PassRounds, RoundsOf, n
<1> QED
  BY <1>3, <1>13, <1>14 DEF n

\* A text and what is in memory behind it are made of characters.
TextTyped == text \in Texts /\ beyond \in Texts

\* What split takes apart join puts together.
LEMMA SplittingRight == TextTyped => SplitJoined
<1> SUFFICES ASSUME TextTyped PROVE SplitJoined
  OBVIOUS
<1>1. ASSUME NEW delim \in Delims
      PROVE  LET list == Split(text, delim, FALSE) IN
             /\ text \in {Join(list, delim), Join(list, delim) \o delim}
             /\ \A i \in DOMAIN list : \A j \in DOMAIN list[i] :
                  Cut(list[i], j, j + Len(delim) - 1) # delim
             /\ Split(text, delim, TRUE) = Kept(list, Seq(Alphabet) \ {<<>>})
  <2> DEFINE list == Split(text, delim, FALSE)
  <2>1. text \in Texts /\ delim \in Marks
    BY TextAssumption DEF TextTyped, Texts, Marks
  <2>2. /\ list \in Seq(Texts) /\ AsJoined(text, list, delim) /\ AllWhole(list, delim)
        /\ Split(text, delim, TRUE) = Kept(list, Marks)
    BY <2>1, SplitRight
  <2> HIDE DEF list
  <2>3. DOMAIN list = 1..Len(list)
    BY <2>2
  <2>4. \A i \in DOMAIN list : \A j \in DOMAIN list[i] :
          Cut(list[i], j, j + Len(delim) - 1) # delim
    BY <2>2, <2>3, Zenon DEF AllWhole, Whole
  <2>5. text \in {Join(list, delim), Join(list, delim) \o delim}
    BY <2>2, Zenon DEF AsJoined
  <2> QED
    BY <2>2, <2>4, <2>5, Zenon DEF list, Marks, Texts
<1>2. StringOf(text) = text
  <2>1. text \in Seq(Alphabet) /\ Len(text) \in Nat /\ BufferSize \in Nat
    BY TextAssumption, LenProperties DEF TextTyped, Texts
  <2>2. CASE Len(text) + 1 > BufferSize
    BY <2>2 DEF StringOf
  <2>3. CASE ~(Len(text) + 1 > BufferSize)
    <3> DEFINE b == BufferSize - 1
    <3>1. b \in Int /\ b >= Len(text)
      BY <2>1, <2>3
    <3> HIDE DEF b
    <3>2. Cut(text, 1, b) = text
      BY <2>1, <3>1, WholeCut
    <3> QED
      BY <2>3, <3>2 DEF StringOf, b
  <2> QED
    BY <2>2, <2>3
<1> QED
  BY <1>1, <1>2, Zenon DEF SplitJoined

-----------------------------------------------------------------------------
(* The pass that counts                                                    *)

\* The string, its NUL, and what is behind them.
LEMMA MemoryIs ==
  ASSUME TextTyped
  PROVE  /\ Len(text) \in Nat /\ Memory \in Seq(Chars)
         /\ Len(Memory) \in Nat /\ Len(Memory) >= Len(text) + 1
         /\ \A i \in 1..Len(text) : CharAt(Memory, i) = text[i] /\ text[i] \in Alphabet
         /\ CharAt(Memory, Len(text) + 1) = NUL
         /\ \A a \in Nat \ {0}, b \in Nat : b <= Len(text) => Cut(Memory, a, b) = Cut(text, a, b)
<1> DEFINE end == <<NUL>>
           n == Len(text)
           m == Len(beyond)
           front == text \o end
           mem == front \o beyond
<1>1. /\ text \in Seq(Chars) /\ beyond \in Seq(Chars) /\ end \in Seq(Chars)
      /\ Len(end) = 1 /\ end[1] = NUL
  <2>1. Alphabet \subseteq Chars /\ NUL \in Chars
    BY DEF Chars
  <2>2. text \in Seq(Chars) /\ beyond \in Seq(Chars)
    BY <2>1, SeqMonotonic DEF TextTyped, Texts
  <2> QED
    BY <2>1, <2>2
<1>2. n \in Nat /\ m \in Nat
  BY <1>1, LenProperties
<1>3. ASSUME NEW i \in 1..n PROVE text[i] \in Alphabet
  BY <1>3, ElementOfSeq DEF TextTyped, Texts
<1>4. Memory = mem
  BY DEF Memory
<1> HIDE DEF end
<1>5. /\ front \in Seq(Chars) /\ Len(front) = n + 1
      /\ \A i \in 1..n + 1 : front[i] = IF i <= n THEN text[i] ELSE end[i - n]
  <2>1. /\ front \in Seq(Chars) /\ Len(front) = Len(text) + Len(end)
        /\ \A i \in 1..Len(text) + Len(end) :
             front[i] = IF i <= Len(text) THEN text[i] ELSE end[i - Len(text)]
    BY <1>1, ConcatProperties
  <2> QED
    BY <1>1, <2>1
<1> HIDE DEF front
<1>6. /\ mem \in Seq(Chars) /\ Len(mem) = (n + 1) + m
      /\ \A i \in 1..(n + 1) + m : mem[i] = IF i <= n + 1 THEN front[i] ELSE beyond[i - (n + 1)]
  <2>1. /\ mem \in Seq(Chars) /\ Len(mem) = Len(front) + Len(beyond)
        /\ \A i \in 1..Len(front) + Len(beyond) :
             mem[i] = IF i <= Len(front) THEN front[i] ELSE beyond[i - Len(front)]
    <3> HIDE DEF n, m
    <3>1. front \in Seq(Chars) /\ beyond \in Seq(Chars)
      BY <1>1, <1>5
    <3> QED
      BY <3>1, ConcatProperties
  <2> QED
    BY <1>5, <2>1
<1> HIDE DEF n, m, mem
<1>7. /\ Len(mem) \in Nat /\ Len(mem) >= n + 1
      /\ \A i \in 1..n : i \in 1..n + 1 /\ i \in 1..(n + 1) + m /\ i <= n /\ i <= n + 1
      /\ n + 1 \in 1..n + 1 /\ n + 1 \in 1..(n + 1) + m /\ ~(n + 1 <= n) /\ (n + 1) - n = 1
  BY <1>2, <1>6
<1>8. \A i \in 1..n : mem[i] = text[i] /\ i <= Len(mem)
  <2> SUFFICES ASSUME NEW i \in 1..n PROVE mem[i] = text[i] /\ i <= Len(mem)
    OBVIOUS
  <2>1. i \in 1..n + 1 /\ i \in 1..(n + 1) + m /\ i <= n /\ i <= n + 1
    BY <1>7
  <2>2. mem[i] = front[i] /\ front[i] = text[i]
    BY <1>5, <1>6, <2>1
  <2> QED
    BY <1>2, <1>7, <2>1, <2>2
<1>9. mem[n + 1] = NUL
  <2>1. mem[n + 1] = front[n + 1] /\ front[n + 1] = end[(n + 1) - n]
    BY <1>5, <1>6, <1>7
  <2> QED
    BY <1>1, <1>7, <2>1
<1>10. ASSUME NEW a \in Nat \ {0}, NEW b \in Nat, b <= n
       PROVE  Cut(mem, a, b) = Cut(text, a, b)
  <2>1. b \in Int /\ b <= Len(mem) /\ b <= Len(text)
    BY <1>2, <1>7, <1>10 DEF n
  <2> DEFINE u == SubSeq(mem, a, b)
             v == SubSeq(text, a, b)
             l == IF a <= b THEN b - a + 1 ELSE 0
  <2>2. /\ Cut(mem, a, b) = u /\ u \in Seq(Chars) /\ Len(u) = l
        /\ \A i \in 1..b - a + 1 : u[i] = mem[a + i - 1]
    <3>1. mem \in Seq(Chars)
      BY <1>6
    <3> QED
      BY <2>1, <3>1, PartIs
  <2>3. /\ Cut(text, a, b) = v /\ v \in Seq(Chars) /\ Len(v) = l
        /\ \A i \in 1..b - a + 1 : v[i] = text[a + i - 1]
    BY <1>1, <2>1, PartIs
  <2> HIDE DEF u, v
  <2>4. \A i \in 1..l : i \in 1..b - a + 1 /\ a + i - 1 \in 1..n
    BY <1>2, <1>10
  <2>5. \A i \in 1..l : u[i] = v[i]
    <3> HIDE DEF l
    <3> QED
      BY <1>8, <2>2, <2>3, <2>4
  <2>6. Len(u) = Len(v) /\ \A i \in 1..Len(u) : u[i] = v[i]
    <3> HIDE DEF l
    <3> QED
      BY <2>2, <2>3, <2>5
  <2> QED
    BY <2>2, <2>3, <2>6, SeqEqual
<1> QED
  BY <1>2, <1>3, <1>4, <1>6, <1>7, <1>8, <1>9, <1>10 DEF n, CharAt

\* What the string stands for behind each place, and what that means there.
Readings == [1..Len(text) + 2 -> Texts]

LEMMA BehindPlace ==
  ASSUME TextTyped, NEW f \in Readings, Expands(f)
  PROVE  /\ f[Len(text) + 1] = <<>> /\ f[Len(text) + 2] = <<>>
         /\ \A i \in 1..Len(text) :
              /\ text[i] = "\\" => f[i] = Cut(text, i + 1, i + 1) \o f[i + 2]
              /\ text[i] = "$" /\ CharAt(Memory, i + 1) = "{" =>
                   f[i] = BracePart(f, i + 2) /\ i + 2 <= Len(text) + 1
              /\ text[i] = "$" /\ CharAt(Memory, i + 1) # "{" => f[i] = NamePart(f, i + 1)
              /\ text[i] # "\\" /\ text[i] # "$" => f[i] = <<text[i]>> \o f[i + 1]
<1> DEFINE n == Len(text)
<1>1. /\ n \in Nat /\ CharAt(Memory, n + 1) = NUL
      /\ \A i \in 1..n : CharAt(Memory, i) = text[i]
  BY MemoryIs
<1>2. \A i \in 1..n + 2 :
        f[i] = IF i > n THEN <<>>
               ELSE IF text[i] = "\\" THEN Cut(text, i + 1, i + 1) \o f[i + 2]
               ELSE IF text[i] = "$" /\ i < n /\ text[i + 1] = "{" THEN BracePart(f, i + 2)
               ELSE IF text[i] = "$" THEN NamePart(f, i + 1)
               ELSE <<text[i]>> \o f[i + 1]
  BY Zenon DEF Expands
<1> HIDE DEF n
<1>3. n + 1 \in 1..n + 2 /\ n + 2 \in 1..n + 2 /\ n + 1 > n /\ n + 2 > n
  BY <1>1
<1>4. f[n + 1] = <<>> /\ f[n + 2] = <<>>
  BY <1>2, <1>3
<1>5. ASSUME NEW i \in 1..n
      PROVE  /\ text[i] = "\\" => f[i] = Cut(text, i + 1, i + 1) \o f[i + 2]
             /\ text[i] = "$" /\ CharAt(Memory, i + 1) = "{" =>
                  f[i] = BracePart(f, i + 2) /\ i + 2 <= n + 1
             /\ text[i] = "$" /\ CharAt(Memory, i + 1) # "{" => f[i] = NamePart(f, i + 1)
             /\ text[i] # "\\" /\ text[i] # "$" => f[i] = <<text[i]>> \o f[i + 1]
  <2>1. i \in 1..n + 2 /\ ~(i > n) /\ (i < n => i + 1 \in 1..n /\ i + 2 <= n + 1)
        /\ (~(i < n) => i + 1 = n + 1)
    BY <1>1
  <2>2. CharAt(Memory, i + 1) = "{" <=> i < n /\ text[i + 1] = "{"
    <3>1. CASE i < n
      <4>1. CharAt(Memory, i + 1) = text[i + 1]
        BY <1>1, <2>1, <3>1
      <4> QED
        BY <3>1, <4>1
    <3>2. CASE ~(i < n)
      <4>1. CharAt(Memory, i + 1) = NUL
        BY <1>1, <2>1, <3>2
      <4>2. NUL # "{"
        BY DEF NUL
      <4> QED
        BY <3>2, <4>1, <4>2
    <3> QED
      BY <3>1, <3>2
  <2>3. f[i] = IF text[i] = "\\" THEN Cut(text, i + 1, i + 1) \o f[i + 2]
               ELSE IF text[i] = "$" /\ CharAt(Memory, i + 1) = "{" THEN BracePart(f, i + 2)
               ELSE IF text[i] = "$" THEN NamePart(f, i + 1)
               ELSE <<text[i]>> \o f[i + 1]
    BY <1>2, <2>1, <2>2
  <2>4. "$" # "\\"
    OBVIOUS
  <2>5. CASE text[i] = "\\"
    BY <2>3, <2>4, <2>5
  <2>6. CASE text[i] = "$"
    BY <2>1, <2>2, <2>3, <2>4, <2>6
  <2>7. CASE text[i] # "\\" /\ text[i] # "$"
    BY <2>3, <2>7
  <2> QED
    BY <2>5, <2>6, <2>7
<1> QED
  BY <1>4, <1>5 DEF n

\* What the pass that counts has put out when it is still in the string: with
\* what is behind the place where it is, that is what the string stands for.
InText(f, c) ==
  /\ c.s <= Len(text) + 1 /\ c.out \in Texts
  /\ \/ c.state = "COPY" /\ f[1] = c.out \o f[c.s]
     \/ c.state = "ESC" /\ f[1] = c.out \o (Cut(text, c.s, c.s) \o f[c.s + 1])
     \/ /\ c.state = "SREF" /\ c.ref <= c.s /\ c.s <= NameEnd(c.ref)
        /\ f[1] = c.out \o NamePart(f, c.ref)
     \/ /\ c.state = "CREF" /\ c.ref <= c.s /\ c.s <= BraceEnd(c.ref)
        /\ f[1] = c.out \o BracePart(f, c.ref)

\* And when it is not.
Past(whole, out) == \E t \in Seq(Chars) : out = (whole \o <<NUL>>) \o t

\* A character that is taken between references.
LEMMA CopyStep ==
  ASSUME TextTyped, NEW f \in Readings, Expands(f),
         NEW c \in PassStates, InText(f, c), c.state = "COPY",
         NEW d, d = Take(Memory, NoLimit, c)
  PROVE  InText(f, d) \/ Past(f[1], d.out)
<1> DEFINE n == Len(text)
           s == c.s
           o == c.out
           char == CharAt(Memory, s)
<1>1. /\ n \in Nat /\ Memory \in Seq(Chars) /\ CharAt(Memory, n + 1) = NUL
      /\ \A i \in 1..n : CharAt(Memory, i) = text[i] /\ text[i] \in Alphabet
  BY MemoryIs
<1>2. s \in Nat /\ s >= 1 /\ s <= n + 1 /\ o \in Texts /\ f[1] = o \o f[s] /\ o \in Seq(Chars)
  <2>1. s \in Nat /\ s >= 1 /\ o \in Seq(Chars)
    BY DEF PassStates
  <2>2. f[1] = o \o f[s] /\ s <= n + 1 /\ o \in Texts
    BY DEF InText
  <2> QED
    BY <2>1, <2>2
<1>3. NoLimit \in Limits
  BY DEF Limits
<1>4. Put(o, <<char>>, NoLimit) = o \o <<char>>
  <2>1. s \in Nat \ {0}
    BY <1>2
  <2> DEFINE x == <<char>>
  <2>2. x \in Seq(Chars)
    BY <1>1, <2>1, CharTypes
  <2> HIDE DEF x, o
  <2> QED
    BY <1>2, <1>3, <2>2, PutTypes DEF x
<1>5. /\ d \in PassStates
      /\ \/ /\ char # "\\" /\ char # "$"
            /\ d.state = "COPY" /\ d.s = s + 1 /\ d.out = o \o <<char>>
         \/ char = "\\" /\ d.state = "ESC" /\ d.s = s + 1 /\ d.out = o
         \/ /\ char = "$" /\ CharAt(Memory, s + 1) = "{"
            /\ d.state = "CREF" /\ d.s = s + 2 /\ d.ref = d.s /\ d.out = o
         \/ /\ char = "$" /\ CharAt(Memory, s + 1) # "{"
            /\ d.state = "SREF" /\ d.s = s + 1 /\ d.ref = d.s /\ d.out = o
  <2>1. c.state # "ESC" /\ c.state \notin {"SREF", "CREF"}
    OBVIOUS
  <2> HIDE DEF n
  <2>2. d \in PassStates /\ Took(CharAt(Memory, c.s), CharAt(Memory, c.s + 1), NoLimit, c, d)
    <3>1. Memory \in Seq(Chars)
      BY <1>1
    <3> QED
      BY <1>3, <3>1, TakeIs
  <2> QED
    BY <1>4, <2>1, <2>2, Zenon DEF Took
<1>6. /\ \A i \in 1..n :
           /\ text[i] = "\\" => f[i] = Cut(text, i + 1, i + 1) \o f[i + 2]
           /\ text[i] = "$" /\ CharAt(Memory, i + 1) = "{" =>
                f[i] = BracePart(f, i + 2) /\ i + 2 <= n + 1
           /\ text[i] = "$" /\ CharAt(Memory, i + 1) # "{" => f[i] = NamePart(f, i + 1)
           /\ text[i] # "\\" /\ text[i] # "$" => f[i] = <<text[i]>> \o f[i + 1]
      /\ f[n + 1] = <<>>
  BY BehindPlace
<1> HIDE DEF n
<1>7. CASE s = n + 1
  <2>1. char = NUL /\ NUL # "\\" /\ NUL # "$"
    BY <1>1, <1>7 DEF NUL
  <2>2. d.out = o \o <<NUL>>
    BY <1>5, <2>1
  <2>3. f[1] = o
    BY <1>2, <1>6, <1>7, ConcatEmptySeq DEF Texts
  <2>4. d.out \in Seq(Chars)
    BY <1>5 DEF PassStates
  <2>5. d.out = (f[1] \o <<NUL>>) \o <<>> /\ <<>> \in Seq(Chars)
    <3>1. d.out = f[1] \o <<NUL>>
      BY <2>2, <2>3
    <3>2. d.out = d.out \o <<>>
      BY <2>4, ConcatEmptySeq
    <3> QED
      BY <3>1, <3>2, EmptySeq
  <2> QED
    BY <2>5 DEF Past
<1>8. CASE s # n + 1
  <2>1. s \in 1..n /\ s + 1 <= n + 1 /\ s + 1 \in 1..n + 1 /\ (s + 2 <= n + 1 => s + 2 \in 1..n + 1)
    BY <1>1, <1>2, <1>8
  <2>2. char = text[s] /\ text[s] \in Alphabet
    BY <1>1, <2>1
  <2>3. ASSUME char # "\\", char # "$",
               d.state = "COPY", d.s = s + 1, d.out = o \o <<char>>
        PROVE  InText(f, d)
    <3>1. f[s] = <<char>> \o f[s + 1]
      BY <1>6, <2>1, <2>2, <2>3
    <3>2. <<char>> \in Texts /\ f[s + 1] \in Texts
      <4>1. s + 1 \in 1..Len(text) + 2
        BY <1>1, <2>1 DEF n
      <4>2. f[s + 1] \in Texts
        BY <4>1 DEF Readings
      <4> QED
        BY <2>2, <4>2 DEF Texts
    <3> HIDE DEF o, s, char
    <3>3. o \o <<char>> \in Texts
      BY <1>2, <3>2, TextsJoin
    <3> DEFINE x == <<char>>
               y == f[s + 1]
    <3>4. o \o (x \o y) = (o \o x) \o y
      <4>1. x \in Texts /\ y \in Texts
        BY <3>2
      <4> HIDE DEF x, y
      <4> QED
        BY <1>2, <4>1, TextsAssociate
    <3>5. f[1] = d.out \o f[d.s]
      BY <1>2, <2>3, <3>1, <3>4
    <3> QED
      BY <2>1, <2>3, <3>3, <3>5 DEF InText, n
  <2>4. ASSUME char = "\\", d.state = "ESC", d.s = s + 1, d.out = o
        PROVE  InText(f, d)
    <3>1. f[s] = Cut(text, s + 1, s + 1) \o f[s + 2]
      BY <1>6, <2>1, <2>2, <2>4
    <3>2. s + 2 = (s + 1) + 1
      BY <1>2
    <3>3. f[1] = d.out \o (Cut(text, d.s, d.s) \o f[d.s + 1])
      BY <1>2, <2>4, <3>1, <3>2
    <3> QED
      BY <1>2, <2>1, <2>4, <3>3 DEF InText, n
  <2>5. ASSUME char = "$", CharAt(Memory, s + 1) = "{",
               d.state = "CREF", d.s = s + 2, d.ref = d.s, d.out = o
        PROVE  InText(f, d)
    <3>1. f[s] = BracePart(f, s + 2) /\ s + 2 <= n + 1
      BY <1>6, <2>1, <2>2, <2>5
    <3>2. s + 2 \in 1..n + 1
      BY <2>1, <3>1
    <3>3. BraceEnd(s + 2) \in s + 2..n + 1
      <4> DEFINE j == s + 2
      <4>1. j \in 1..Len(text) + 1 /\ text \in Texts
        BY <3>2 DEF n, TextTyped
      <4> HIDE DEF j
      <4>2. BraceEnd(j) \in j..Len(text) + 1
        BY <4>1, BraceEndIs
      <4> QED
        BY <4>2 DEF j, n
    <3>4. s + 2 <= s + 2 /\ s + 2 <= BraceEnd(s + 2)
      BY <1>1, <1>2, <3>3
    <3>5. f[1] = d.out \o BracePart(f, d.ref)
      BY <1>2, <2>5, <3>1
    <3> QED
      BY <1>2, <2>5, <3>1, <3>4, <3>5 DEF InText, n
  <2>6. ASSUME char = "$", CharAt(Memory, s + 1) # "{",
               d.state = "SREF", d.s = s + 1, d.ref = d.s, d.out = o
        PROVE  InText(f, d)
    <3>1. f[s] = NamePart(f, s + 1)
      BY <1>6, <2>1, <2>2, <2>6
    <3>3. NameEnd(s + 1) \in s + 1..n + 1
      <4> DEFINE j == s + 1
      <4>1. j \in 1..Len(text) + 1 /\ text \in Texts
        BY <2>1 DEF n, TextTyped
      <4> HIDE DEF j
      <4>2. NameEnd(j) \in j..Len(text) + 1
        BY <4>1, NameEndIs
      <4> QED
        BY <4>2 DEF j, n
    <3>4. s + 1 <= s + 1 /\ s + 1 <= NameEnd(s + 1)
      BY <1>1, <1>2, <3>3
    <3>5. f[1] = d.out \o NamePart(f, d.ref)
      BY <1>2, <2>6, <3>1
    <3> QED
      BY <1>2, <2>1, <2>6, <3>4, <3>5 DEF InText, n
  <2> QED
    BY <1>5, <2>3, <2>4, <2>5, <2>6
<1> QED
  BY <1>7, <1>8

\* A reference that is put out when it ends at s: what is behind it is left.
LEMMA RefStep ==
  ASSUME TextTyped, NEW f \in Readings, Expands(f),
         NEW c \in PassStates, InText(f, c), c.state \in {"SREF", "CREF"},
         NEW e, e = (IF c.state = "SREF" THEN NameEnd(c.ref) ELSE BraceEnd(c.ref)), c.s = e,
         NEW k, k = (IF c.state = "SREF" THEN e ELSE e + 1),
         NEW o, o = PutRef(Memory, NoLimit, c)
  PROVE  o \in Texts /\ k \in 1..Len(text) + 2 /\ f[1] = o \o f[k]
<1> DEFINE n == Len(text)
           s == c.s
           name == Deref(Cut(text, c.ref, s - 1))
           rest == f[k]
           old == c.out
<1>1. /\ n \in Nat
      /\ \A a \in Nat \ {0}, b \in Nat : b <= n => Cut(Memory, a, b) = Cut(text, a, b)
  BY MemoryIs
<1>2. s \in Nat \ {0} /\ c.ref \in Nat \ {0}
  BY DEF PassStates
<1>3. s <= n + 1 /\ old \in Texts
  BY DEF InText
<1>4. s - 1 \in Nat /\ s - 1 <= n /\ k \in 1..n + 2
  <2> HIDE DEF n, s
  <2>1. k = s \/ k = s + 1
    BY DEF s
  <2> QED
    BY <1>1, <1>2, <1>3, <2>1
<1>5. o = old \o name
  <2>1. PutRef(Memory, NoLimit, c) = old \o Deref(Cut(Memory, c.ref, s - 1))
    <3>1. NoLimit \in Limits
      BY DEF Limits
    <3> QED
      BY <3>1, RefTypes
  <2>2. Cut(Memory, c.ref, s - 1) = Cut(text, c.ref, s - 1)
    BY <1>1, <1>2, <1>4
  <2> QED
    BY <2>1, <2>2
<1>6. name \in Texts /\ rest \in Texts
  <2>1. rest \in Texts
    BY <1>4 DEF Readings
  <2> QED
    BY <2>1, DerefTypes
<1>7. f[1] = old \o (name \o rest)
  <2>1. CASE c.state = "SREF"
    <3>1. f[1] = old \o NamePart(f, c.ref)
      BY <2>1 DEF InText
    <3> QED
      BY <2>1, <3>1 DEF NamePart
  <2>2. CASE c.state = "CREF"
    <3>1. f[1] = old \o BracePart(f, c.ref)
      BY <2>2 DEF InText
    <3> QED
      BY <2>2, <3>1 DEF BracePart
  <2> QED
    BY <2>1, <2>2
<1>8. (old \o name) \o rest = old \o (name \o rest) /\ old \o name \in Texts
  <2> HIDE DEF old, name, rest
  <2> QED
    BY <1>3, <1>6, TextsAssociate, TextsJoin
<1> QED
  BY <1>4, <1>5, <1>7, <1>8

\* A round within the string.
LEMMA RoundStep ==
  ASSUME TextTyped, NEW f \in Readings, Expands(f),
         NEW c \in PassStates, InText(f, c), c.s <= Len(text),
         NEW r, r = Resolve(Memory, NoLimit, c),
         NEW d, d = Take(Memory, NoLimit, r)
  PROVE  InText(f, d) \/ Past(f[1], d.out)
<1> DEFINE n == Len(text)
           s == c.s
           char == text[s]
<1>1. /\ n \in Nat /\ Memory \in Seq(Chars) /\ NoLimit \in Limits
      /\ \A i \in 1..n : CharAt(Memory, i) = text[i] /\ text[i] \in Alphabet
  BY MemoryIs DEF Limits
<1>2. s \in Nat /\ s \in 1..n /\ c.out \in Seq(Chars) /\ c.state \in {"COPY", "ESC", "SREF", "CREF"}
      /\ c.ref \in Nat \ {0}
  <2> HIDE DEF n
  <2>1. s \in Nat \ {0} /\ s <= n /\ c.out \in Seq(Chars) /\ c.ref \in Nat \ {0}
        /\ c.state \in {"COPY", "ESC", "SREF", "CREF"}
    BY DEF PassStates, n
  <2> HIDE DEF s
  <2> QED
    BY <1>1, <2>1
<1>3. CharAt(Memory, s) = char /\ char \in Alphabet
  BY <1>1, <1>2
<1>4. r \in PassStates /\ Resolved(Memory, NoLimit, c, r)
  <2> HIDE DEF n
  <2> QED
    BY <1>1, ResolveIs
<1>5. d \in PassStates /\ Took(CharAt(Memory, r.s), CharAt(Memory, r.s + 1), NoLimit, r, d)
  <2> HIDE DEF n
  <2> QED
    BY <1>1, <1>4, TakeIs
<1>6. ASSUME InText(f, r), r.state = "COPY" PROVE InText(f, d) \/ Past(f[1], d.out)
  BY <1>4, <1>6, CopyStep
<1>7. CASE c.state = "COPY"
  <2>1. r = c
    BY <1>4, <1>7 DEF Resolved
  <2> QED
    BY <1>6, <1>7, <2>1
<1>8. CASE c.state = "ESC"
  <2>1. r = c
    BY <1>4, <1>8 DEF Resolved
  <2> DEFINE o == c.out
             x == <<char>>
             y == f[s + 1]
  <2>2. d.state = "COPY" /\ d.s = s + 1 /\ d.out = o \o x
    <3>1. d.state = "COPY" /\ d.s = s + 1 /\ d.out = Put(c.out, <<CharAt(Memory, s)>>, NoLimit)
      BY <1>5, <1>8, <2>1, Zenon DEF Took
    <3>2. o \in Seq(Chars) /\ x \in Seq(Chars)
      BY <1>2, <1>3 DEF Chars
    <3> HIDE DEF o, x, n
    <3>3. Put(o, x, NoLimit) = o \o x
      BY <1>1, <3>2, PutTypes
    <3> QED
      BY <1>3, <3>1, <3>3 DEF o, x
  <2>3. Cut(text, s, s) = x
    <3>1. text \in Seq(Alphabet) /\ s \in Nat \ {0} /\ s \in Int /\ s <= Len(text)
      BY <1>2 DEF TextTyped, Texts
    <3> DEFINE u == SubSeq(text, s, s)
    <3>2. /\ Cut(text, s, s) = u /\ u \in Seq(Alphabet)
          /\ Len(u) = (IF s <= s THEN s - s + 1 ELSE 0)
          /\ \A i \in 1..s - s + 1 : u[i] = text[s + i - 1]
      <4> HIDE DEF s
      <4> QED
        BY <3>1, PartIs
    <3> HIDE DEF u
    <3>3. Len(u) = 1 /\ u[1] = char
      <4> HIDE DEF s
      <4> QED
        BY <3>1, <3>2
    <3> QED
      BY <3>2, <3>3
  <2>4. f[1] = o \o (x \o y)
    BY <1>8, <2>3 DEF InText
  <2>5. o \in Texts /\ x \in Texts /\ y \in Texts
    <3>1. s + 1 \in 1..n + 2
      BY <1>1, <1>2
    <3>2. y \in Texts
      BY <3>1 DEF Readings
    <3> QED
      BY <1>3, <3>2 DEF InText, Texts
  <2>6. (o \o x) \o y = o \o (x \o y) /\ o \o x \in Texts
    <3> HIDE DEF o, x, y
    <3> QED
      BY <2>5, TextsAssociate, TextsJoin
  <2>7. s + 1 <= n + 1
    BY <1>1, <1>2
  <2>8. f[1] = d.out \o f[d.s] /\ d.out \in Texts
    BY <2>2, <2>4, <2>6
  <2> QED
    BY <2>2, <2>7, <2>8 DEF InText
<1>9. CASE c.state = "SREF"
  <2> DEFINE e == NameEnd(c.ref)
  <2>1. c.ref <= s /\ s <= e
    BY <1>9 DEF InText
  <2>2. c.ref \in 1..n + 1 /\ s \in c.ref..n
    BY <1>1, <1>2, <2>1
  <2>3. /\ e \in Nat /\ (e <= n => ~Alnum(text[e]))
        /\ \A j \in c.ref..n : ~Alnum(text[j]) => e <= j
    <3>1. text \in Texts
      BY DEF TextTyped
    <3> QED
      BY <2>2, <3>1, NameEndIs
  <2>4. CASE Alnum(char)
    <3>1. r = c
      BY <1>3, <1>4, <1>9, <2>4 DEF Resolved
    <3>2. d.state = "SREF" /\ d.s = s + 1 /\ d.ref = c.ref /\ d.out = c.out
      BY <1>5, <1>9, <3>1, Zenon DEF Took
    <3>3. e # s
      BY <1>2, <2>3, <2>4
    <3>4. s + 1 <= e /\ s + 1 <= n + 1 /\ c.ref <= s + 1
      BY <1>1, <1>2, <2>1, <2>3, <3>3
    <3> QED
      BY <1>9, <3>2, <3>4 DEF InText
  <2>5. CASE ~Alnum(char)
    <3>1. s = e
      BY <1>2, <2>1, <2>2, <2>3, <2>5
    <3>2. r.state = "COPY" /\ r.s = s /\ r.out = PutRef(Memory, NoLimit, c)
      BY <1>3, <1>4, <1>9, <2>5 DEF Resolved
    <3>3. PICK o : o = PutRef(Memory, NoLimit, c)
      OBVIOUS
    <3>4. o \in Texts /\ f[1] = o \o f[s]
      BY <1>9, <3>1, <3>3, RefStep
    <3>5. s <= n + 1
      BY <1>1, <1>2
    <3>6. InText(f, r)
      BY <3>2, <3>3, <3>4, <3>5 DEF InText
    <3> QED
      BY <1>6, <3>2, <3>6
  <2> QED
    BY <2>4, <2>5
<1>10. CASE c.state = "CREF"
  <2> DEFINE e == BraceEnd(c.ref)
  <2>1. c.ref <= s /\ s <= e
    BY <1>10 DEF InText
  <2>2. c.ref \in 1..n + 1 /\ s \in c.ref..n
    BY <1>1, <1>2, <2>1
  <2>3. /\ e \in Nat /\ (e <= n => text[e] = "}")
        /\ \A j \in c.ref..n : text[j] = "}" => e <= j
    <3>1. text \in Texts
      BY DEF TextTyped
    <3> QED
      BY <2>2, <3>1, BraceEndIs
  <2>4. CASE char # "}"
    <3>1. r = c
      BY <1>3, <1>4, <1>10, <2>4 DEF Resolved
    <3>2. d.state = "CREF" /\ d.s = s + 1 /\ d.ref = c.ref /\ d.out = c.out
      BY <1>5, <1>10, <3>1, Zenon DEF Took
    <3>3. e # s
      BY <1>2, <2>3, <2>4
    <3>4. s + 1 <= e /\ s + 1 <= n + 1 /\ c.ref <= s + 1
      <4>1. e \in Nat /\ s \in Nat /\ n \in Nat /\ s <= n /\ c.ref \in Nat
        BY <1>1, <1>2, <2>3
      <4> HIDE DEF e, s, n
      <4> QED
        BY <2>1, <3>3, <4>1
    <3> QED
      BY <1>10, <3>2, <3>4 DEF InText
  <2>5. CASE char = "}"
    <3>1. s = e
      <4> HIDE DEF e, s
      <4>1. s \in Nat /\ s \in c.ref..n /\ text[s] = "}"
        BY <1>2, <2>2, <2>5 DEF s
      <4>2. e <= s /\ s <= e /\ e \in Nat
        BY <2>1, <2>3, <4>1
      <4>3. s \in Nat
        BY <4>1
      <4> QED
        BY <4>2, <4>3
    <3>2. r.state = "COPY" /\ r.s = s + 1 /\ r.out = PutRef(Memory, NoLimit, c)
      BY <1>3, <1>4, <1>10, <2>5 DEF Resolved
    <3>3. PICK o : o = PutRef(Memory, NoLimit, c)
      OBVIOUS
    <3>4. o \in Texts /\ f[1] = o \o f[s + 1]
      BY <1>10, <3>1, <3>3, RefStep
    <3>5. s + 1 <= n + 1
      BY <1>1, <1>2
    <3>6. InText(f, r)
      BY <3>2, <3>3, <3>4, <3>5 DEF InText
    <3> QED
      BY <1>6, <3>2, <3>6
  <2> QED
    BY <2>4, <2>5
<1> QED
  BY <1>2, <1>7, <1>8, <1>9, <1>10

\* A pass has come to its end with its last round.
LEMMA PassDone ==
  ASSUME NEW mem \in Seq(Chars), NEW limit \in Limits, NEW X, X = [0..Len(mem) + 1 -> PassStates],
         NEW p \in X, PassRounds(p, mem, limit)
  PROVE  Done(mem, limit, p[Len(mem) + 1])
<1> DEFINE n == Len(mem) + 1
           P == {i \in 0..n : Done(mem, limit, p[i]) \/ p[i].s >= i + 1}
<1>1. Len(mem) \in Nat /\ n \in Nat
  BY LenProperties
<1>2. \A i \in 0..n : p[i] \in PassStates /\ p[i].s \in Nat
  BY DEF PassStates
<1>3. /\ p[0] = PassStart
      /\ \A i \in 1..n : p[i] = PassRound(mem, limit, p[i - 1])
  BY DEF PassRounds
<1> HIDE DEF n
<1>4. 0 \in P
  BY <1>1, <1>3 DEF PassStart
<1>5. ASSUME NEW i \in 1..n, i - 1 \in P PROVE i \in P
  <2>1. i - 1 \in 0..n /\ i \in 0..n
    BY <1>1
  <2>2. PICK c : c = p[i - 1]
    OBVIOUS
  <2>3. PICK d : d = p[i]
    OBVIOUS
  <2>4. c \in PassStates /\ c.s \in Nat /\ d.s \in Nat
    BY <1>2, <2>1, <2>2, <2>3
  <2>5. d = PassRound(mem, limit, c)
    BY <1>3, <2>2, <2>3
  <2>6. /\ Done(mem, limit, c) => d = c
        /\ ~Done(mem, limit, c) => d.s >= c.s + 1
    BY <2>4, <2>5, RoundIs
  <2>7. Done(mem, limit, c) \/ c.s >= i
    BY <1>5, <2>2
  <2>8. Done(mem, limit, d) \/ d.s >= i + 1
    BY <2>4, <2>6, <2>7
  <2> QED
    BY <2>1, <2>3, <2>8
<1>6. n \in P
  <2> HIDE DEF P
  <2>1. \A i \in 0..n : i \in P
    BY <1>1, <1>4, <1>5, EveryRound
  <2>2. n \in 0..n
    BY <1>1
  <2> QED
    BY <2>1, <2>2
<1>7. Done(mem, limit, p[n]) \/ p[n].s >= n + 1
  BY <1>6
<1>8. ASSUME p[n].s >= n + 1 PROVE Done(mem, limit, p[n])
  <2> DEFINE s == p[n].s
  <2>1. s \in Nat /\ s >= n + 1
    <3>1. n \in 0..n
      BY <1>1
    <3> QED
      BY <1>2, <1>8, <3>1
  <2> HIDE DEF s
  <2>2. ~(s <= Len(mem))
    BY <1>1, <2>1 DEF n
  <2> QED
    BY <2>2 DEF Done, CharAt, s
<1> QED
  BY <1>7, <1>8 DEF n

\* The end of the string, and of what it stands for.
LEMMA TextEnd ==
  ASSUME TextTyped, NEW f \in Readings, Expands(f),
         NEW c \in PassStates, InText(f, c), c.s = Len(text) + 1
  PROVE  PassEnd(Memory, NoLimit, c) = f[1]
<1> DEFINE n == Len(text)
           o == c.out
<1>1. n \in Nat /\ f[n + 1] = <<>> /\ f[n + 2] = <<>>
  BY MemoryIs, BehindPlace
<1>2. o \in Texts /\ o \o <<>> = o /\ c.ref \in Nat \ {0}
  <2>1. o \in Texts /\ c.ref \in Nat \ {0}
    BY DEF InText, PassStates
  <2> QED
    BY <2>1, ConcatEmptySeq DEF Texts
<1>3. ASSUME c.state \in {"SREF", "CREF"} PROVE PassEnd(Memory, NoLimit, c) = f[1]
  <2>1. PICK e : e = IF c.state = "SREF" THEN NameEnd(c.ref) ELSE BraceEnd(c.ref)
    OBVIOUS
  <2>2. PICK k : k = IF c.state = "SREF" THEN e ELSE e + 1
    OBVIOUS
  <2>3. PICK r : r = PutRef(Memory, NoLimit, c)
    OBVIOUS
  <2>4. c.ref <= n + 1 /\ n + 1 <= e
    BY <1>3, <2>1 DEF InText
  <2>5. c.ref \in 1..n + 1
    <3> HIDE DEF n
    <3> QED
      BY <1>1, <1>2, <2>4
  <2>6. e \in c.ref..n + 1
    <3> DEFINE i == c.ref
    <3>1. i \in 1..Len(text) + 1 /\ text \in Texts
      BY <2>5 DEF TextTyped
    <3> HIDE DEF i
    <3>2. NameEnd(i) \in i..Len(text) + 1 /\ BraceEnd(i) \in i..Len(text) + 1
      BY <3>1, NameEndIs, BraceEndIs
    <3> QED
      BY <2>1, <3>2 DEF i
  <2>7. e = n + 1
    <3> HIDE DEF n
    <3> QED
      BY <1>1, <1>2, <2>4, <2>6
  <2>8. r \in Texts /\ f[1] = r \o f[k]
    <3>1. c.s = e
      BY <2>7
    <3> QED
      BY <1>3, <2>1, <2>2, <2>3, <3>1, RefStep
  <2>9. f[k] = <<>>
    <3>1. k = n + 1 \/ k = n + 2
      <4> HIDE DEF n
      <4> QED
        BY <1>1, <2>2, <2>7
    <3> QED
      BY <1>1, <3>1
  <2>10. f[1] = r
    BY <2>8, <2>9, ConcatEmptySeq DEF Texts
  <2> QED
    BY <1>3, <2>3, <2>10 DEF PassEnd
<1>4. ASSUME c.state \notin {"SREF", "CREF"} PROVE PassEnd(Memory, NoLimit, c) = f[1]
  <2>1. PassEnd(Memory, NoLimit, c) = o
    BY <1>4 DEF PassEnd
  <2>2. CASE c.state = "COPY"
    <3>1. f[1] = o \o f[n + 1]
      BY <2>2 DEF InText
    <3> QED
      BY <1>1, <1>2, <2>1, <3>1
  <2>3. CASE c.state = "ESC"
    <3> DEFINE j == n + 1
    <3>1. f[1] = o \o (Cut(text, j, j) \o f[j + 1])
      BY <2>3 DEF InText
    <3>2. Cut(text, j, j) = <<>>
      <4>1. text \in Seq(Alphabet) /\ j \in Nat \ {0} /\ j \in Int /\ j <= j /\ j > Len(text)
        BY <1>1 DEF TextTyped, Texts
      <4>2. Cut(text, j, j) = SubSeq(text, j, Len(text))
        <5> HIDE DEF j
        <5> QED
          BY <4>1, LongPart
      <4>3. SubSeq(text, j, n) = <<>>
        <5>1. n \in Int /\ n < j
          BY <1>1
        <5> HIDE DEF j, n
        <5> QED
          BY <4>1, <5>1, SubSeqEmpty
      <4> QED
        BY <4>2, <4>3
    <3>3. j + 1 = n + 2
      <4> HIDE DEF n
      <4> QED
        BY <1>1
    <3>4. f[1] = o \o (<<>> \o <<>>)
      <4> HIDE DEF j, n
      <4>1. f[j + 1] = <<>>
        BY <1>1, <3>3
      <4> QED
        BY <3>1, <3>2, <4>1
    <3>5. <<>> \o <<>> = <<>>
      BY EmptySeq, ConcatEmptySeq
    <3> QED
      BY <1>2, <2>1, <3>4, <3>5
  <2> QED
    BY <1>4, <2>2, <2>3 DEF InText
<1> QED
  BY <1>3, <1>4

\* Once past the string, the pass does not come back.
LEMMA PastStays ==
  ASSUME NEW whole \in Texts, NEW out, Past(whole, out), NEW u \in Seq(Chars), NEW o, o = out \o u
  PROVE  Past(whole, o)
<1>1. PICK t \in Seq(Chars) : out = (whole \o <<NUL>>) \o t
  BY DEF Past
<1> DEFINE x == whole \o <<NUL>>
<1>2. x \in Seq(Chars)
  <2>1. whole \in Seq(Chars) /\ <<NUL>> \in Seq(Chars)
    <3>1. Alphabet \subseteq Chars /\ NUL \in Chars
      BY DEF Chars
    <3> QED
      BY <3>1, SeqMonotonic DEF Texts
  <2> QED
    BY <2>1, ConcatProperties
<1>3. o = (x \o t) \o u
  BY <1>1
<1> HIDE DEF x
<1>4. o = x \o (t \o u) /\ t \o u \in Seq(Chars)
  BY <1>2, <1>3, ConcatAssociative, ConcatProperties
<1> QED
  BY <1>4 DEF x, Past

\* What is counted begins with what the string stands for, and its NUL if there
\* is more.
LEMMA FirstPassIs ==
  ASSUME TextTyped
  PROVE  /\ Expansion \in Texts
         /\ \/ Pass(Memory, NoLimit) = Expansion
            \/ Past(Expansion, Pass(Memory, NoLimit))
<1>1. PICK f \in Readings : Expands(f) /\ Expansion = f[1]
  BY ExpansionIs DEF TextTyped, Readings
<1> DEFINE n == Len(text)
           N == Len(Memory) + 1
<1>2. /\ n \in Nat /\ Memory \in Seq(Chars) /\ NoLimit \in Limits /\ Len(Memory) \in Nat
      /\ CharAt(Memory, n + 1) = NUL
      /\ \A i \in 1..n : CharAt(Memory, i) = text[i] /\ text[i] \in Alphabet
  BY MemoryIs DEF Limits
<1>3. N \in Nat /\ f[1] \in Texts
  BY <1>2 DEF Readings
<1>4. PICK p \in [0..N -> PassStates] :
        /\ PassRounds(p, Memory, NoLimit)
        /\ Pass(Memory, NoLimit) = PassEnd(Memory, NoLimit, p[N])
  BY <1>2, PassIs
<1>5. \A i \in 0..N : p[i] \in PassStates
  OBVIOUS
<1>6. Done(Memory, NoLimit, p[N])
  BY <1>2, <1>4, PassDone
<1>7. /\ p[0] = PassStart
      /\ \A i \in 1..N : p[i] = PassRound(Memory, NoLimit, p[i - 1])
  BY <1>4 DEF PassRounds
<1> DEFINE P == {i \in 0..N : InText(f, p[i]) \/ Past(f[1], p[i].out)}
<1> HIDE DEF N
<1>8. 0 \in P
  <2>1. PassStart.s = 1 /\ PassStart.state = "COPY" /\ PassStart.out = <<>>
    BY DEF PassStart
  <2>2. f[1] = <<>> \o f[1] /\ <<>> \in Texts
    BY <1>3, ConcatEmptySeq, EmptySeq DEF Texts
  <2>3. 1 <= n + 1
    BY <1>2
  <2>4. InText(f, PassStart)
    BY <2>1, <2>2, <2>3 DEF InText
  <2> QED
    BY <1>3, <1>7, <2>4
<1>9. ASSUME NEW i \in 1..N, i - 1 \in P PROVE i \in P
  <2>1. i - 1 \in 0..N /\ i \in 0..N
    BY <1>3
  <2>2. PICK c : c = p[i - 1]
    OBVIOUS
  <2>3. PICK d : d = p[i]
    OBVIOUS
  <2>4. c \in PassStates /\ d = PassRound(Memory, NoLimit, c) /\ (InText(f, c) \/ Past(f[1], c.out))
    BY <1>5, <1>7, <1>9, <2>1, <2>2, <2>3
  <2>5. ASSUME Past(f[1], c.out) PROVE Past(f[1], d.out)
    <3>1. PICK u \in Seq(Chars) : d.out = c.out \o u
      <4>1. Memory \in Seq(Chars) /\ NoLimit \in Limits
        BY <1>2
      <4>2. d = PassRound(Memory, NoLimit, c) /\ c \in PassStates
        BY <2>4
      <4>3. \E u \in Seq(Chars) : d.out = c.out \o u
        BY <4>1, <4>2, RoundIs
      <4> QED
        BY <4>3
    <3>2. PICK x : x = c.out
      OBVIOUS
    <3>3. PICK o : o = d.out
      OBVIOUS
    <3>4. o = x \o u /\ Past(f[1], x)
      BY <2>5, <3>1, <3>2, <3>3
    <3>5. Past(f[1], o)
      BY <1>3, <3>4, PastStays
    <3> QED
      BY <3>3, <3>5
  <2>6. ASSUME InText(f, c) PROVE InText(f, d) \/ Past(f[1], d.out)
    <3>1. CASE Done(Memory, NoLimit, c)
      BY <2>4, <2>6, <3>1 DEF PassRound
    <3>2. CASE ~Done(Memory, NoLimit, c)
      <4>1. CharAt(Memory, c.s) # NUL
        BY <3>2 DEF Done
      <4>2. c.s <= n
        <5>1. c.s # n + 1
          BY <1>2, <4>1
        <5>2. c.s <= n + 1 /\ c.s \in Nat
          BY <2>4, <2>6 DEF InText, PassStates
        <5> QED
          BY <1>2, <5>1, <5>2
      <4>3. PICK r : r = Resolve(Memory, NoLimit, c)
        OBVIOUS
      <4>4. d = Take(Memory, NoLimit, r)
        BY <2>4, <3>2, <4>3 DEF PassRound
      <4> QED
        BY <1>1, <2>4, <2>6, <4>2, <4>3, <4>4, RoundStep
    <3> QED
      BY <3>1, <3>2
  <2> QED
    BY <2>1, <2>3, <2>4, <2>5, <2>6
<1>10. N \in P
  <2> HIDE DEF P
  <2>1. \A i \in 0..N : i \in P
    BY <1>3, <1>8, <1>9, EveryRound
  <2>2. N \in 0..N
    BY <1>3
  <2> QED
    BY <2>1, <2>2
<1>11. PICK c : c = p[N]
  OBVIOUS
<1>12. c \in PassStates /\ (InText(f, c) \/ Past(f[1], c.out)) /\ CharAt(Memory, c.s) = NUL
  <2>1. CharAt(Memory, c.s) = NUL
    BY <1>6, <1>11 DEF Done
  <2> QED
    BY <1>5, <1>10, <1>11, <2>1
<1>13. CASE InText(f, c)
  <2>1. c.s = n + 1
    <3>1. c.s <= n + 1 /\ c.s \in Nat \ {0}
      BY <1>12, <1>13 DEF InText, PassStates
    <3>2. c.s \notin 1..n
      BY <1>2, <1>12, TextAssumption
    <3> QED
      BY <1>2, <3>1, <3>2
  <2>2. Pass(Memory, NoLimit) = f[1]
    BY <1>1, <1>4, <1>11, <1>12, <1>13, <2>1, TextEnd
  <2> QED
    BY <1>1, <1>3, <2>2
<1>14. CASE Past(f[1], c.out)
  <2>1. PICK u \in Seq(Chars) : Pass(Memory, NoLimit) = c.out \o u
    <3>1. CASE c.state \in {"SREF", "CREF"}
      <4>1. Pass(Memory, NoLimit) = PutRef(Memory, NoLimit, c)
        BY <1>4, <1>11, <3>1 DEF PassEnd
      <4> QED
        BY <1>2, <1>12, <4>1, RefTypes
    <3>2. CASE c.state \notin {"SREF", "CREF"}
      <4>1. Pass(Memory, NoLimit) = c.out
        BY <1>4, <1>11, <3>2 DEF PassEnd
      <4>2. c.out = c.out \o <<>> /\ <<>> \in Seq(Chars)
        BY <1>12, ConcatEmptySeq, EmptySeq DEF PassStates
      <4> QED
        BY <4>1, <4>2
    <3> QED
      BY <3>1, <3>2
  <2>2. Past(f[1], Pass(Memory, NoLimit))
    <3>1. PICK o : o = Pass(Memory, NoLimit)
      OBVIOUS
    <3>2. PICK x : x = c.out
      OBVIOUS
    <3>3. o = x \o u /\ Past(f[1], x)
      BY <1>14, <2>1, <3>1, <3>2
    <3>4. Past(f[1], o)
      BY <1>3, <3>3, PastStays
    <3> QED
      BY <3>1, <3>4
  <2> QED
    BY <1>1, <1>3, <2>2
<1> QED
  BY <1>12, <1>13, <1>14

-----------------------------------------------------------------------------
(* The pass that fills the buffer                                          *)

\* y begins with x.
Begins(x, y) == \E t \in Seq(Chars) : y = x \o t

LEMMA BeginsLen ==
  ASSUME NEW x \in Seq(Chars), NEW y, Begins(x, y)
  PROVE  /\ Len(x) \in Nat /\ Len(y) \in Nat /\ Len(x) <= Len(y)
         /\ Len(x) >= Len(y) => x = y
<1>1. PICK t \in Seq(Chars) : y = x \o t
  BY DEF Begins
<1>2. Len(y) = Len(x) + Len(t) /\ Len(x) \in Nat /\ Len(t) \in Nat
  BY <1>1, ConcatProperties, LenProperties
<1>3. ASSUME Len(x) >= Len(y) PROVE x = y
  <2>1. Len(t) = 0
    BY <1>2, <1>3
  <2>2. t = <<>>
    BY <2>1, EmptySeq
  <2> QED
    BY <1>1, <2>2, ConcatEmptySeq
<1>4. Len(y) \in Nat /\ Len(x) <= Len(y)
  BY <1>2
<1> QED
  BY <1>2, <1>3, <1>4

LEMMA BeginsThen ==
  ASSUME NEW x \in Seq(Chars), NEW y, NEW z, Begins(x, y), Begins(y, z)
  PROVE  Begins(x, z)
<1>1. PICK t \in Seq(Chars) : y = x \o t
  BY DEF Begins
<1>2. PICK u \in Seq(Chars) : z = y \o u
  BY DEF Begins
<1>3. z = x \o (t \o u) /\ t \o u \in Seq(Chars)
  BY <1>1, <1>2, ConcatAssociative, ConcatProperties
<1> QED
  BY <1>3 DEF Begins

\* While there is room, what is put out is what is counted.
LEMMA PutSame ==
  ASSUME NEW out \in Seq(Chars), NEW s \in Seq(Chars), NEW L \in Nat,
         Len(Put(out, s, NoLimit)) <= L
  PROVE  Put(out, s, L) = Put(out, s, NoLimit)
<1>1. Put(out, s, NoLimit) = out \o s
  BY DEF Put
<1>2. Len(out \o s) = Len(out) + Len(s) /\ Len(out) \in Nat /\ Len(s) \in Nat
  BY ConcatProperties, LenProperties
<1> DEFINE b == L - Len(out)
<1>3. b \in Int /\ b >= Len(s)
  BY <1>1, <1>2
<1>4. L # NoLimit
  BY DEF NoLimit
<1>5. Put(out, s, L) = out \o Cut(s, 1, b)
  BY <1>4 DEF Put
<1> HIDE DEF b
<1>6. Cut(s, 1, b) = s
  BY <1>3, WholeCut
<1> QED
  BY <1>1, <1>5, <1>6

LEMMA DerefChars ==
  ASSUME NEW name
  PROVE  Deref(name) \in Seq(Chars)
<1>1. Deref(name) \in Seq(Alphabet) /\ Alphabet \subseteq Chars
  BY DerefTypes DEF Texts, Chars
<1>2. PICK s : s = Deref(name)
  OBVIOUS
<1>3. s \in Seq(Chars)
  BY <1>1, <1>2, SeqMonotonic
<1> QED
  BY <1>2, <1>3

LEMMA RefSame ==
  ASSUME NEW mem, NEW c \in PassStates, NEW L \in Nat, Len(PutRef(mem, NoLimit, c)) <= L
  PROVE  PutRef(mem, L, c) = PutRef(mem, NoLimit, c)
<1>1. PICK s : s = Deref(Cut(mem, c.ref, c.s - 1))
  OBVIOUS
<1>2. PICK o : o = c.out
  OBVIOUS
<1>3. s \in Seq(Chars) /\ o \in Seq(Chars)
  BY <1>1, <1>2, DerefChars DEF PassStates
<1>4. PutRef(mem, L, c) = Put(o, s, L) /\ PutRef(mem, NoLimit, c) = Put(o, s, NoLimit)
  BY <1>1, <1>2 DEF PutRef
<1>5. Len(Put(o, s, NoLimit)) <= L
  BY <1>4
<1> QED
  BY <1>3, <1>4, <1>5, PutSame

LEMMA ResolveSame ==
  ASSUME NEW mem, NEW c \in PassStates, NEW L \in Nat,
         NEW r, r = Resolve(mem, NoLimit, c), Len(r.out) <= L
  PROVE  Resolve(mem, L, c) = r
<1> DEFINE o == PutRef(mem, NoLimit, c)
<1>1. CASE c.state = "SREF" /\ ~Alnum(CharAt(mem, c.s))
  <2>1. r = [c EXCEPT !.state = "COPY", !.out = o]
    BY <1>1 DEF Resolve
  <2>2. r.out = o
    BY <2>1 DEF PassStates
  <2>3. PutRef(mem, L, c) = o
    BY <2>2, RefSame
  <2> QED
    BY <1>1, <2>1, <2>3 DEF Resolve
<1>2. CASE c.state = "CREF" /\ CharAt(mem, c.s) = "}"
  <2>1. r = [c EXCEPT !.state = "COPY", !.out = o, !.s = c.s + 1]
    BY <1>2 DEF Resolve
  <2>2. r.out = o
    BY <2>1 DEF PassStates
  <2>3. PutRef(mem, L, c) = o
    BY <2>2, RefSame
  <2>4. Resolve(mem, L, c) = [c EXCEPT !.state = "COPY", !.out = PutRef(mem, L, c), !.s = c.s + 1]
    BY <1>2 DEF Resolve
  <2> QED
    BY <2>1, <2>3, <2>4
<1>3. CASE /\ ~(c.state = "SREF" /\ ~Alnum(CharAt(mem, c.s)))
           /\ ~(c.state = "CREF" /\ CharAt(mem, c.s) = "}")
  BY <1>3 DEF Resolve
<1> QED
  BY <1>1, <1>2, <1>3

LEMMA TakeSame ==
  ASSUME NEW mem \in Seq(Chars), NEW c \in PassStates, NEW L \in Nat,
         NEW d, d = Take(mem, NoLimit, c), Len(d.out) <= L
  PROVE  Take(mem, L, c) = d
<1> DEFINE char == CharAt(mem, c.s)
           o == Put(c.out, <<char>>, NoLimit)
<1>1. CASE c.state = "ESC" \/ (c.state = "COPY" /\ char # "\\" /\ char # "$")
  <2>1. d = [c EXCEPT !.state = "COPY", !.out = o, !.s = c.s + 1]
    BY <1>1 DEF Take
  <2>2. d.out = o
    <3> HIDE DEF o
    <3> QED
      BY <2>1 DEF PassStates
  <2>3. Put(c.out, <<char>>, L) = o
    <3>1. PICK x : x = <<char>>
      OBVIOUS
    <3>2. PICK y : y = c.out
      OBVIOUS
    <3>3. x \in Seq(Chars) /\ y \in Seq(Chars)
      <4>1. c.s \in Nat \ {0} /\ c.out \in Seq(Chars)
        BY DEF PassStates
      <4>2. <<char>> \in Seq(Chars)
        BY <4>1, CharTypes
      <4> QED
        BY <3>1, <3>2, <4>1, <4>2
    <3>4. Len(Put(y, x, NoLimit)) <= L
      BY <2>2, <3>1, <3>2
    <3>5. Put(y, x, L) = Put(y, x, NoLimit)
      BY <3>3, <3>4, PutSame
    <3> QED
      BY <3>1, <3>2, <3>5
  <2>4. Take(mem, L, c) = [c EXCEPT !.state = "COPY", !.out = Put(c.out, <<char>>, L), !.s = c.s + 1]
    BY <1>1 DEF Take
  <2> QED
    BY <2>1, <2>3, <2>4
<1>2. CASE ~(c.state = "ESC" \/ (c.state = "COPY" /\ char # "\\" /\ char # "$"))
  BY <1>2 DEF Take, PassStates
<1> QED
  BY <1>1, <1>2

\* Whatever is read: the buffer that is as long as what was counted holds it all.
LEMMA SameAgain ==
  ASSUME NEW mem \in Seq(Chars)
  PROVE  /\ Pass(mem, NoLimit) \in Seq(Chars)
         /\ Pass(mem, Len(Pass(mem, NoLimit))) = Pass(mem, NoLimit)
<1> DEFINE N == Len(mem) + 1
           whole == Pass(mem, NoLimit)
           L == Len(whole)
<1>1. N \in Nat /\ NoLimit \in Limits
  BY LenProperties DEF Limits
<1>2. PICK p \in [0..N -> PassStates] :
        PassRounds(p, mem, NoLimit) /\ whole = PassEnd(mem, NoLimit, p[N])
  BY <1>1, PassIs
<1>3. /\ p[0] = PassStart
      /\ \A i \in 1..N : p[i] = PassRound(mem, NoLimit, p[i - 1])
      /\ \A i \in 0..N : p[i] \in PassStates
  BY <1>2 DEF PassRounds
<1> HIDE DEF N, whole
<1>4. N \in 0..N
  BY <1>1
<1>5. PICK c : c = p[N]
  OBVIOUS
<1>6. c \in PassStates /\ c.out \in Seq(Chars) /\ whole = PassEnd(mem, NoLimit, c)
  BY <1>2, <1>3, <1>4, <1>5 DEF PassStates
<1>7. whole \in Seq(Chars) /\ Begins(c.out, whole)
  <2>1. CASE c.state \in {"SREF", "CREF"}
    <3>1. whole = PutRef(mem, NoLimit, c)
      BY <1>6, <2>1 DEF PassEnd
    <3> QED
      BY <1>1, <1>6, <3>1, RefTypes DEF Begins
  <2>2. CASE c.state \notin {"SREF", "CREF"}
    <3>1. whole = c.out
      BY <1>6, <2>2 DEF PassEnd
    <3>2. c.out = c.out \o <<>> /\ <<>> \in Seq(Chars)
      BY <1>6, ConcatEmptySeq, EmptySeq
    <3> QED
      BY <1>6, <3>1, <3>2 DEF Begins
  <2> QED
    BY <2>1, <2>2
<1>8. L \in Nat /\ L \in Limits
  BY <1>7, LenProperties DEF Limits
<1>9. \A i \in 0..N : Begins(p[i].out, whole)
  <2> DEFINE P == {j \in 0..N : Begins(p[N - j].out, whole)}
  <2>1. 0 \in P
    <3>1. N - 0 = N /\ 0 \in 0..N
      BY <1>1
    <3> QED
      BY <1>5, <1>7, <3>1
  <2>2. ASSUME NEW j \in 1..N, j - 1 \in P PROVE j \in P
    <3>1. N - j \in 0..N /\ N - (j - 1) \in 1..N /\ (N - (j - 1)) - 1 = N - j
          /\ N - (j - 1) \in 0..N /\ j \in 0..N
      BY <1>1
    <3>2. PICK a : a = p[N - j]
      OBVIOUS
    <3>3. PICK b : b = p[N - (j - 1)]
      OBVIOUS
    <3>4. a \in PassStates /\ b = PassRound(mem, NoLimit, a)
      BY <1>3, <3>1, <3>2, <3>3
    <3>5. \E t \in Seq(Chars) : b.out = a.out \o t
      BY <1>1, <3>4, RoundIs
    <3>6. PICK x : x = a.out
      OBVIOUS
    <3>7. PICK y : y = b.out
      OBVIOUS
    <3>8. x \in Seq(Chars) /\ Begins(x, y)
      BY <3>4, <3>5, <3>6, <3>7 DEF PassStates, Begins
    <3>9. Begins(y, whole)
      BY <2>2, <3>3, <3>7
    <3>10. Begins(x, whole)
      BY <3>8, <3>9, BeginsThen
    <3> QED
      BY <3>1, <3>2, <3>6, <3>10
  <2>3. \A j \in 0..N : j \in P
    <3> HIDE DEF P
    <3> QED
      BY <1>1, <2>1, <2>2, EveryRound
  <2>4. ASSUME NEW i \in 0..N PROVE Begins(p[i].out, whole)
    <3>1. N - i \in 0..N /\ N - (N - i) = i
      BY <1>1
    <3>2. N - i \in P
      BY <2>3, <3>1
    <3> QED
      BY <3>1, <3>2
  <2> QED
    BY <2>4
<1>10. \A i \in 0..N : /\ Len(p[i].out) \in Nat /\ Len(p[i].out) <= L
                       /\ Len(p[i].out) >= L => p[i].out = whole
  <2> SUFFICES ASSUME NEW i \in 0..N
               PROVE  /\ Len(p[i].out) \in Nat /\ Len(p[i].out) <= L
                      /\ Len(p[i].out) >= L => p[i].out = whole
    OBVIOUS
  <2>1. PICK x : x = p[i].out
    OBVIOUS
  <2>2. x \in Seq(Chars) /\ Begins(x, whole)
    BY <1>3, <1>9, <2>1 DEF PassStates
  <2>3. Len(x) \in Nat /\ Len(x) <= L /\ (Len(x) >= L => x = whole)
    BY <2>2, BeginsLen
  <2> QED
    BY <2>1, <2>3
<1>11. PICK q \in [0..N -> PassStates] :
         PassRounds(q, mem, L) /\ Pass(mem, L) = PassEnd(mem, L, q[N])
  <2> HIDE DEF L
  <2> QED
    BY <1>8, PassIs DEF N
<1>12. /\ q[0] = PassStart
       /\ \A i \in 1..N : q[i] = PassRound(mem, L, q[i - 1])
       /\ \A i \in 0..N : q[i] \in PassStates
  BY <1>11 DEF PassRounds, N
<1> DEFINE P == {i \in 0..N : q[i] = p[i] \/ q[i].out = whole}
<1>13. 0 \in P
  BY <1>1, <1>3, <1>12
<1>14. ASSUME NEW i \in 1..N, i - 1 \in P PROVE i \in P
  <2>1. i - 1 \in 0..N /\ i \in 0..N
    BY <1>1
  <2>2. PICK a : a = q[i - 1]
    OBVIOUS
  <2>3. PICK b : b = q[i]
    OBVIOUS
  <2>4. a \in PassStates /\ b = PassRound(mem, L, a)
    BY <1>12, <2>1, <2>2, <2>3
  <2>5. CASE a.out = whole
    <3>1. Done(mem, L, a)
      <4>1. L # NoLimit /\ Len(a.out) >= L
        BY <1>8, <2>5 DEF NoLimit
      <4> QED
        BY <4>1 DEF Done
    <3>2. b = a
      BY <2>4, <3>1 DEF PassRound
    <3> QED
      BY <2>1, <2>3, <2>5, <3>2
  <2>6. CASE a = p[i - 1]
    <3>1. PICK d : d = p[i]
      OBVIOUS
    <3>2. d = PassRound(mem, NoLimit, a) /\ Len(d.out) \in Nat /\ Len(d.out) <= L
      BY <1>3, <1>10, <2>1, <2>6, <3>1
    <3>3. CASE CharAt(mem, a.s) = NUL
      <4>1. Done(mem, L, a) /\ Done(mem, NoLimit, a)
        BY <3>3 DEF Done
      <4>2. b = a /\ d = a
        BY <2>4, <3>2, <4>1 DEF PassRound
      <4> QED
        BY <2>1, <2>3, <3>1, <4>2
    <3>4. CASE CharAt(mem, a.s) # NUL /\ Len(a.out) >= L
      <4>1. a.out = whole
        BY <1>10, <2>1, <2>6, <3>4
      <4> QED
        BY <2>5, <4>1
    <3>5. CASE CharAt(mem, a.s) # NUL /\ ~(Len(a.out) >= L)
      <4>1. ~Done(mem, L, a) /\ ~Done(mem, NoLimit, a)
        BY <3>5 DEF Done
      <4>2. PICK r : r = Resolve(mem, NoLimit, a)
        OBVIOUS
      <4>3. d = Take(mem, NoLimit, r)
        BY <3>2, <4>1, <4>2 DEF PassRound
      <4>4. r \in PassStates
        BY <1>1, <2>4, <4>2, ResolveIs
      <4>5. Len(r.out) <= L
        <5>1. \E t \in Seq(Chars) : d.out = r.out \o t
          <6>1. PICK x : x = r.out
            OBVIOUS
          <6>2. PICK y : y = <<CharAt(mem, r.s)>>
            OBVIOUS
          <6>3. x \in Seq(Chars) /\ y \in Seq(Chars)
            <7>1. r.s \in Nat \ {0}
              BY <4>4 DEF PassStates
            <7> QED
              BY <4>4, <6>1, <6>2, <7>1, CharTypes DEF PassStates
          <6>4. d.out = x \/ d.out = Put(x, y, NoLimit)
            BY <1>1, <4>3, <4>4, <6>1, <6>2, TakeIs
          <6>5. Put(x, y, NoLimit) = x \o y
            BY <1>1, <6>3, PutTypes
          <6>6. x = x \o <<>> /\ <<>> \in Seq(Chars)
            BY <6>3, ConcatEmptySeq, EmptySeq
          <6> QED
            BY <6>1, <6>3, <6>4, <6>5, <6>6
        <5>2. PICK x : x = r.out
          OBVIOUS
        <5>3. PICK y : y = d.out
          OBVIOUS
        <5>4. x \in Seq(Chars) /\ Begins(x, y)
          BY <4>4, <5>1, <5>2, <5>3 DEF PassStates, Begins
        <5>5. Len(x) <= Len(y) /\ Len(x) \in Nat /\ Len(y) \in Nat
          BY <5>4, BeginsLen
        <5> HIDE DEF L
        <5>6. Len(x) <= L
          BY <1>8, <3>2, <5>3, <5>5
        <5> QED
          BY <5>2, <5>6
      <4>6. Resolve(mem, L, a) = r
        BY <1>8, <2>4, <4>2, <4>5, ResolveSame
      <4>7. Take(mem, L, r) = d
        BY <1>8, <3>2, <4>3, <4>4, TakeSame
      <4>8. b = d
        BY <2>4, <4>1, <4>6, <4>7 DEF PassRound
      <4> QED
        BY <2>1, <2>3, <3>1, <4>8
    <3> QED
      BY <3>3, <3>4, <3>5
  <2>7. a = p[i - 1] \/ a.out = whole
    BY <1>14, <2>2
  <2> QED
    BY <2>5, <2>6, <2>7
<1>15. N \in P
  <2> HIDE DEF P
  <2>1. \A i \in 0..N : i \in P
    BY <1>1, <1>13, <1>14, EveryRound
  <2> QED
    BY <1>4, <2>1
<1>16. PICK e : e = q[N]
  OBVIOUS
<1>17. e \in PassStates /\ Pass(mem, L) = PassEnd(mem, L, e) /\ (e = c \/ e.out = whole)
  BY <1>4, <1>5, <1>11, <1>12, <1>15, <1>16
<1>18. Pass(mem, L) = whole
  <2>1. CASE e.state \in {"SREF", "CREF"} /\ e = c
    <3>1. PutRef(mem, NoLimit, c) = whole
      BY <1>6, <2>1 DEF PassEnd
    <3>2. PutRef(mem, L, c) = whole
      <4>1. Len(PutRef(mem, NoLimit, c)) <= L
        <5>1. L <= L
          BY <1>8
        <5> QED
          BY <3>1, <5>1
      <4> QED
        BY <1>6, <1>8, <3>1, <4>1, RefSame
    <3> QED
      BY <1>17, <2>1, <3>2 DEF PassEnd
  <2>2. CASE e.state \in {"SREF", "CREF"} /\ e.out = whole
    <3>1. Pass(mem, L) = PutRef(mem, L, e)
      BY <1>17, <2>2 DEF PassEnd
    <3>2. PICK s : s = Deref(Cut(mem, e.ref, e.s - 1))
      OBVIOUS
    <3>3. PutRef(mem, L, e) = Put(whole, s, L)
      BY <2>2, <3>2 DEF PutRef
    <3>4. L # NoLimit /\ L - Len(whole) = 0
      BY <1>8 DEF NoLimit
    <3>5. Put(whole, s, L) = whole \o Cut(s, 1, 0)
      <4>1. Put(whole, s, L) = whole \o Cut(s, 1, L - Len(whole))
        BY <3>4 DEF Put
      <4> QED
        BY <3>4, <4>1
    <3>6. Cut(s, 1, 0) = <<>>
      <4> DEFINE one == 1
                 none == 0
      <4>1. s \in Seq(Chars) /\ one \in Nat \ {0} /\ none \in Int /\ none <= Len(s) /\ none < one
        BY <3>2, DerefChars, LenProperties
      <4> HIDE DEF one, none
      <4>2. Cut(s, one, none) = SubSeq(s, one, none)
        BY <4>1, PartIs
      <4>3. one \in Int
        BY <4>1
      <4>4. SubSeq(s, one, none) = <<>>
        BY <4>1, <4>3, SubSeqEmpty
      <4> QED
        BY <4>2, <4>4 DEF one, none
    <3> QED
      BY <1>7, <3>1, <3>3, <3>5, <3>6, ConcatEmptySeq
  <2>3. CASE e.state \notin {"SREF", "CREF"}
    BY <1>6, <1>17, <2>3 DEF PassEnd
  <2> QED
    BY <1>17, <2>1, <2>2, <2>3
<1> QED
  BY <1>7, <1>18 DEF whole

\* Up to its NUL, what is put out is the string itself.
LEMMA UpToNUL ==
  ASSUME NEW whole \in Texts, NEW x, x = whole \/ Past(whole, x)
  PROVE  CString(x) = whole
<1> DEFINE n == Len(whole)
<1>1. n \in Nat /\ whole \in Seq(Chars) /\ \A i \in 1..n : whole[i] # NUL
  <2>1. Alphabet \subseteq Chars
    BY DEF Chars
  <2>2. n \in Nat /\ whole \in Seq(Chars)
    BY <2>1, LenProperties, SeqMonotonic DEF Texts
  <2>3. ASSUME NEW i \in 1..n PROVE whole[i] # NUL
    <3>1. whole[i] \in Alphabet
      BY <2>3, ElementOfSeq DEF Texts
    <3> QED
      BY <3>1, TextAssumption
  <2> QED
    BY <2>2, <2>3
<1>2. CASE x = whole
  <2>1. {i \in DOMAIN x : x[i] = NUL} = {}
    <3>1. DOMAIN whole = 1..n
      BY <1>1
    <3> QED
      BY <1>1, <1>2, <3>1
  <2> QED
    BY <1>2, <2>1 DEF CString
<1>3. CASE Past(whole, x)
  <2>1. PICK t \in Seq(Chars) : x = (whole \o <<NUL>>) \o t
    BY <1>3 DEF Past
  <2> DEFINE end == <<NUL>>
             y == end \o t
  <2>2. end \in Seq(Chars) /\ Len(end) = 1 /\ end[1] = NUL
    BY DEF Chars
  <2> HIDE DEF end
  <2>3. y \in Seq(Chars) /\ Len(y) \in Nat /\ Len(y) >= 1 /\ y[1] = NUL
    <3>1. /\ y \in Seq(Chars) /\ Len(y) = Len(end) + Len(t) /\ Len(t) \in Nat
          /\ \A i \in 1..Len(end) + Len(t) : y[i] = IF i <= Len(end) THEN end[i] ELSE t[i - Len(end)]
      BY <2>2, ConcatProperties, LenProperties
    <3> HIDE DEF y
    <3> QED
      BY <2>2, <3>1
  <2>4. x = whole \o y
    BY <1>1, <2>1, <2>2, ConcatAssociative DEF end
  <2> HIDE DEF y
  <2>5. /\ x \in Seq(Chars) /\ Len(x) = n + Len(y)
        /\ \A i \in 1..n + Len(y) : x[i] = IF i <= n THEN whole[i] ELSE y[i - n]
    BY <1>1, <2>3, <2>4, ConcatProperties
  <2> DEFINE ends == {i \in DOMAIN x : x[i] = NUL}
             m == Min(ends)
  <2> HIDE DEF n
  <2>6. DOMAIN x = 1..n + Len(y) /\ n + 1 \in 1..n + Len(y) /\ (n + 1) - n = 1 /\ ~(n + 1 <= n)
    BY <1>1, <2>3, <2>5
  <2>7. x[n + 1] = NUL
    BY <2>3, <2>5, <2>6
  <2>8. n + 1 \in ends /\ ends \subseteq Nat /\ \A i \in ends : i >= n + 1
    <3>1. ASSUME NEW i \in ends PROVE i \in Nat /\ i >= n + 1
      <4>1. i \in 1..n + Len(y) /\ x[i] = NUL
        BY <2>6
      <4>2. i \notin 1..n
        <5>1. ASSUME i \in 1..n PROVE FALSE
          <6>1. i <= n
            BY <1>1, <5>1
          <6>2. x[i] = whole[i]
            BY <2>5, <4>1, <6>1
          <6> QED
            BY <1>1, <4>1, <5>1, <6>2
        <5> QED
          BY <5>1
      <4> QED
        BY <1>1, <2>3, <4>1, <4>2
    <3>2. n + 1 \in ends
      BY <2>6, <2>7
    <3> HIDE DEF ends
    <3> QED
      BY <3>1, <3>2
  <2>9. m = n + 1
    <3> HIDE DEF ends
    <3>1. ends # {}
      BY <2>8
    <3>2. m \in ends /\ \A j \in ends : m <= j
      BY <2>8, <3>1, LeastIs
    <3> HIDE DEF m
    <3> QED
      BY <1>1, <2>8, <3>2
  <2>10. SubSeq(x, 1, n) = whole
    <3> DEFINE one == 1
               u == SubSeq(x, one, n)
    <3>1. /\ one \in Nat \ {0} /\ n \in Int /\ n <= Len(x)
          /\ (IF one <= n THEN n - one + 1 ELSE 0) = n /\ n - one + 1 = n
          /\ \A i \in 1..n : one + i - 1 = i
      BY <1>1, <2>3, <2>5
    <3>2. /\ u \in Seq(Chars) /\ Len(u) = (IF one <= n THEN n - one + 1 ELSE 0)
          /\ \A i \in 1..n - one + 1 : u[i] = x[one + i - 1]
      <4> HIDE DEF one
      <4> QED
        BY <2>5, <3>1, PartIs
    <3> HIDE DEF u, one
    <3>3. Len(u) = n /\ \A i \in 1..n : u[i] = x[i]
      BY <3>1, <3>2
    <3>4. \A i \in 1..n : x[i] = whole[i]
      <4>1. \A i \in 1..n : i \in 1..n + Len(y) /\ i <= n
        BY <1>1, <2>3
      <4> QED
        BY <2>5, <4>1
    <3>5. Len(u) = Len(whole) /\ \A i \in 1..Len(u) : u[i] = whole[i]
      BY <3>3, <3>4 DEF n
    <3>6. u = whole
      BY <1>1, <3>2, <3>5, SeqEqual
    <3> QED
      BY <3>6 DEF u, one
  <2>11. CString(x) = SubSeq(x, 1, m - 1)
    <3>1. ends # {}
      BY <2>8
    <3> QED
      BY <3>1 DEF CString
  <2>12. m - 1 = n
    <3> HIDE DEF m
    <3> QED
      BY <1>1, <2>9
  <2> QED
    BY <2>10, <2>11, <2>12
<1> QED
  BY <1>2, <1>3

\* The two passes agree, and their result is what the string stands for.
LEMMA InterpolationRight == TextTyped => Interpolated
<1> SUFFICES ASSUME TextTyped PROVE Interpolated
  OBVIOUS
<1>1. PICK mem : mem = Memory
  OBVIOUS
<1>2. PICK x : x = Pass(mem, NoLimit)
  OBVIOUS
<1>3. PICK whole : whole = Expansion
  OBVIOUS
<1>4. whole \in Texts /\ (x = whole \/ Past(whole, x))
  <2>1. /\ Expansion \in Texts
        /\ Pass(Memory, NoLimit) = Expansion \/ Past(Expansion, Pass(Memory, NoLimit))
    BY FirstPassIs
  <2> QED
    BY <1>1, <1>2, <1>3, <2>1, Zenon
<1>5. CString(x) = whole
  BY <1>4, UpToNUL
<1>6. mem \in Seq(Chars)
  BY <1>1, MemoryIs
<1>7. Pass(mem, Len(x)) = x
  BY <1>2, <1>6, SameAgain
<1>8. Interpolate(mem) = whole
  BY <1>2, <1>5, <1>7, Zenon DEF Interpolate
<1> QED
  BY <1>1, <1>3, <1>8 DEF Interpolated

-----------------------------------------------------------------------------
(* Base 16                                                                 *)

\* No two digits look alike, in either case.
LEMMA DigitsDiffer ==
  ASSUME NEW d \in 1..16, NEW e \in 1..16,
         {BASE16_ENCODE[d], BASE16_UPPER[d]} \cap {BASE16_ENCODE[e], BASE16_UPPER[e]} # {}
  PROVE  d = e
<1>1. \/ BASE16_ENCODE[d] = BASE16_ENCODE[e] \/ BASE16_ENCODE[d] = BASE16_UPPER[e]
      \/ BASE16_UPPER[d] = BASE16_ENCODE[e] \/ BASE16_UPPER[d] = BASE16_UPPER[e]
  OBVIOUS
<1> QED
  BY <1>1, SMTT(120) DEF BASE16_ENCODE, BASE16_UPPER

\* The end of a string is no digit.
LEMMA NulIsNoDigit == BASE16_DECODE(NUL) = 255
<1>1. ASSUME NEW d \in 1..16 PROVE NUL \notin {BASE16_ENCODE[d], BASE16_UPPER[d]}
  BY SMTT(60) DEF BASE16_ENCODE, BASE16_UPPER, NUL
<1> QED
  BY <1>1 DEF BASE16_DECODE

\* Decoding a digit gives its value.
LEMMA DigitDecoded ==
  ASSUME NEW v \in 0..15
  PROVE  BASE16_DECODE(BASE16_ENCODE[v + 1]) = v /\ BASE16_DECODE(BASE16_UPPER[v + 1]) = v
<1>1. ASSUME NEW c, c \in {BASE16_ENCODE[v + 1], BASE16_UPPER[v + 1]}
      PROVE  BASE16_DECODE(c) = v
  <2> DEFINE Shows(d) == c \in {BASE16_ENCODE[d], BASE16_UPPER[d]}
             found == CHOOSE d \in 1..16 : Shows(d)
  <2>1. v + 1 \in 1..16 /\ Shows(v + 1)
    BY <1>1
  <2>2. found \in 1..16 /\ Shows(found)
    BY <2>1
  <2>3. found = v + 1
    BY <2>1, <2>2, DigitsDiffer
  <2>4. BASE16_DECODE(c) = found - 1
    BY <2>1 DEF BASE16_DECODE
  <2> HIDE DEF found, Shows
  <2> QED
    BY <2>3, <2>4
<1> QED
  BY <1>1

\* Whatever the character, it decodes to the value of a digit or to 255.
LEMMA DigitValues ==
  ASSUME NEW c
  PROVE  BASE16_DECODE(c) \in 0..15 \cup {255}
<1> DEFINE Shows(d) == c \in {BASE16_ENCODE[d], BASE16_UPPER[d]}
           found == CHOOSE d \in 1..16 : Shows(d)
<1>1. CASE \E d \in 1..16 : Shows(d)
  <2>1. found \in 1..16
    BY <1>1
  <2>2. BASE16_DECODE(c) = found - 1
    BY <1>1 DEF BASE16_DECODE
  <2> HIDE DEF found
  <2> QED
    BY <2>1, <2>2
<1>2. CASE ~\E d \in 1..16 : Shows(d)
  BY <1>2 DEF BASE16_DECODE
<1> QED
  BY <1>1, <1>2

\* A byte is its two halves.
LEMMA Halves ==
  ASSUME NEW b \in 0..255
  PROVE  b \div 16 \in 0..15 /\ b % 16 \in 0..15 /\ (b \div 16) * 16 + (b % 16) = b
<1> DEFINE q == b \div 16
           r == b % 16
<1>1. q \in Nat /\ r \in 0..16 - 1 /\ b = 16 * q + r /\ b \in Nat
  BY Divided
<1> HIDE DEF q, r
<1>2. q \in 0..15 /\ r \in 0..15 /\ q * 16 + r = b
  BY <1>1
<1> QED
  BY <1>1, <1>2, Zenon DEF q, r

\* The digits 2i-1 and 2i are those of the i-th byte.
LEMMA PairOfDigits ==
  ASSUME NEW i \in Nat \ {0}
  PROVE  /\ (2 * i - 1 + 1) \div 2 = i /\ (2 * i + 1) \div 2 = i
         /\ (2 * i - 1) % 2 = 1 /\ (2 * i) % 2 = 0
  OBVIOUS

\* The digits that base16_encode() writes, byte by byte.
LEMMA EncodedAs ==
  ASSUME NEW src \in Seq(0..255),
         NEW digits, digits = Base16Encode(2 * Len(src), src)
  PROVE  /\ digits = [k \in 1..2 * Len(src) |-> digits[k]]
         /\ \A i \in 1..Len(src) :
              /\ digits[2 * i - 1] = BASE16_ENCODE[(src[i] \div 16) + 1]
              /\ digits[2 * i] = BASE16_ENCODE[(src[i] % 16) + 1]
<1> DEFINE n == Len(src)
           Digit(k) == BASE16_ENCODE[(IF k % 2 = 1 THEN src[(k + 1) \div 2] \div 16
                                                   ELSE src[(k + 1) \div 2] % 16) + 1]
<1>1. n \in Nat
  OBVIOUS
<1>2. digits = [k \in 1..2 * n |-> Digit(k)]
  BY <1>1 DEF Base16Encode
<1>3. ASSUME NEW i \in 1..n
      PROVE  /\ digits[2 * i - 1] = BASE16_ENCODE[(src[i] \div 16) + 1]
             /\ digits[2 * i] = BASE16_ENCODE[(src[i] % 16) + 1]
  <2>1. i \in Nat \ {0} /\ 2 * i - 1 \in 1..2 * n /\ 2 * i \in 1..2 * n
    BY <1>1
  <2>2. digits[2 * i - 1] = Digit(2 * i - 1) /\ digits[2 * i] = Digit(2 * i)
    BY <1>2, <2>1
  <2>3. Digit(2 * i - 1) = BASE16_ENCODE[(src[i] \div 16) + 1]
    BY <2>1, PairOfDigits
  <2>4. Digit(2 * i) = BASE16_ENCODE[(src[i] % 16) + 1]
    BY <2>1, PairOfDigits
  <2> HIDE DEF Digit
  <2> QED
    BY <2>2, <2>3, <2>4
<1> HIDE DEF Digit
<1> QED
  BY <1>2, <1>3

\* A string that decodes digit by digit to the halves of the bytes decodes to
\* the bytes.
LEMMA DecodedAs ==
  ASSUME NEW src \in Seq(0..255), NEW s,
         \A i \in 1..Len(src) : /\ BASE16_DECODE(s[2 * i - 1]) = src[i] \div 16
                                /\ BASE16_DECODE(s[2 * i]) = src[i] % 16
  PROVE  Base16Decode(Len(src), s, 2 * Len(src)) = src
<1> DEFINE n == Len(src)
<1>1. n \in Nat /\ (2 * n + 1) \div 2 = n /\ (2 * n) \div 2 = n
  <2>1. n \in Nat
    OBVIOUS
  <2> HIDE DEF n
  <2> QED
    BY <2>1
<1>2. ASSUME NEW i \in 1..n
      PROVE  /\ BASE16_DECODE(s[2 * i - 1]) # 255 /\ BASE16_DECODE(s[2 * i]) # 255
             /\ BASE16_DECODE(s[2 * i - 1]) * 16 + BASE16_DECODE(s[2 * i]) = src[i]
  <2> DEFINE q == src[i] \div 16
             r == src[i] % 16
             hi == BASE16_DECODE(s[2 * i - 1])
             lo == BASE16_DECODE(s[2 * i])
  <2>1. src[i] \in 0..255
    BY ElementOfSeq, Zenon
  <2>2. q \in 0..15 /\ r \in 0..15 /\ q * 16 + r = src[i]
    <3> DEFINE b == src[i]
    <3>1. b \in 0..255
      BY <2>1
    <3> HIDE DEF b
    <3>2. b \div 16 \in 0..15 /\ b % 16 \in 0..15 /\ (b \div 16) * 16 + (b % 16) = b
      BY <3>1, Halves
    <3> QED
      BY <3>2, Zenon DEF b
  <2>3. hi = q /\ lo = r
    BY Zenon
  <2> HIDE DEF q, r, hi, lo
  <2>4. hi # 255 /\ lo # 255 /\ hi * 16 + lo = src[i]
    BY <2>2, <2>3
  <2> QED
    BY <2>4, Zenon DEF hi, lo
<1>3. ~(n < (2 * n) \div 2)
  BY <1>1
<1>4. Base16Decode(n, s, 2 * n)
        = [i \in 1..n |-> BASE16_DECODE(s[2 * i - 1]) * 16 + BASE16_DECODE(s[2 * i])]
  <2> HIDE DEF n
  <2> QED
    BY <1>1, <1>2, <1>3, Zenon DEF Base16Decode
<1>5. src = [i \in 1..n |-> src[i]]
  OBVIOUS
<1> QED
  BY <1>2, <1>4, <1>5


\* Data survives the coding, in either case of the digits.
LEMMA Survives ==
  ASSUME NEW src \in Seq(0..255), NEW digits, NEW upper,
         digits = Base16Encode(2 * Len(src), src),
         upper = [i \in DOMAIN digits |-> BASE16_UPPER[BASE16_DECODE(digits[i]) + 1]]
  PROVE  /\ Len(digits) = 2 * Len(src) /\ Len(upper) = 2 * Len(src)
         /\ Base16Decode(Len(src), digits, 2 * Len(src)) = src
         /\ Base16Decode(Len(src), upper, 2 * Len(src)) = src
<1> DEFINE n == Len(src)
<1>1. n \in Nat
  OBVIOUS
<1>2. /\ digits = [k \in 1..2 * n |-> digits[k]]
      /\ \A i \in 1..n : /\ digits[2 * i - 1] = BASE16_ENCODE[(src[i] \div 16) + 1]
                         /\ digits[2 * i] = BASE16_ENCODE[(src[i] % 16) + 1]
  BY EncodedAs, Zenon
<1>3. DOMAIN digits = 1..2 * n
  BY <1>2, Zenon
<1>4. upper = [i \in 1..2 * n |-> BASE16_UPPER[BASE16_DECODE(digits[i]) + 1]]
  BY <1>3, Zenon
<1>5. Len(digits) = 2 * n /\ Len(upper) = 2 * n
  <2>1. DOMAIN upper = 1..2 * n
    BY <1>4, Zenon
  <2>2. 2 * n \in Nat
    BY <1>1
  <2>3. \A s : DOMAIN s = 1..2 * n => Len(s) = 2 * n
    BY <2>2
  <2> HIDE DEF n
  <2> QED
    BY <1>3, <2>1, <2>3, Zenon
<1>6. ASSUME NEW i \in 1..n
      PROVE  /\ BASE16_DECODE(digits[2 * i - 1]) = src[i] \div 16
             /\ BASE16_DECODE(digits[2 * i]) = src[i] % 16
             /\ BASE16_DECODE(upper[2 * i - 1]) = src[i] \div 16
             /\ BASE16_DECODE(upper[2 * i]) = src[i] % 16
  <2> DEFINE q == src[i] \div 16
             r == src[i] % 16
  <2>1. src[i] \in 0..255
    BY ElementOfSeq, Zenon
  <2>2. q \in 0..15 /\ r \in 0..15
    BY <2>1, Halves, Zenon
  <2>3. 2 * i - 1 \in 1..2 * n /\ 2 * i \in 1..2 * n
    <3> HIDE DEF n
    <3> QED
      BY <1>1
  <2>4. digits[2 * i - 1] = BASE16_ENCODE[q + 1] /\ digits[2 * i] = BASE16_ENCODE[r + 1]
    BY <1>2, Zenon
  <2> HIDE DEF q, r, n
  <2>5. BASE16_DECODE(digits[2 * i - 1]) = q /\ BASE16_DECODE(digits[2 * i]) = r
    BY <2>2, <2>4, DigitDecoded, Zenon
  <2>6. upper[2 * i - 1] = BASE16_UPPER[q + 1] /\ upper[2 * i] = BASE16_UPPER[r + 1]
    BY <1>4, <2>3, <2>5, Zenon
  <2>7. BASE16_DECODE(upper[2 * i - 1]) = q /\ BASE16_DECODE(upper[2 * i]) = r
    BY <2>2, <2>6, DigitDecoded, Zenon
  <2> QED
    BY <2>5, <2>7, Zenon DEF q, r
<1>7. Base16Decode(n, digits, 2 * n) = src
  BY <1>6, DecodedAs, Zenon
<1>8. Base16Decode(n, upper, 2 * n) = src
  BY <1>6, DecodedAs, Zenon
<1> QED
  BY <1>5, <1>7, <1>8, Zenon

\* What is no even number of digits is refused, and nothing else.
LEMMA Refused ==
  ASSUME NEW s \in Seq(Alphabet), NEW dlen \in Nat, Len(s) <= dlen
  PROVE  Base16Decode(dlen, s \o <<NUL>>, Len(s)) # Failed
           <=> Len(s) % 2 = 0 /\ \A i \in DOMAIN s : BASE16_DECODE(s[i]) # 255
<1> DEFINE n == Len(s)
           mem == s \o <<NUL>>
           p == (n + 1) \div 2
           Bad(i) == BASE16_DECODE(mem[2 * i - 1]) = 255 \/ BASE16_DECODE(mem[2 * i]) = 255
           value == [i \in 1..p |-> BASE16_DECODE(mem[2 * i - 1]) * 16 + BASE16_DECODE(mem[2 * i])]
<1>1. n \in Nat /\ DOMAIN s = 1..n /\ n <= dlen
  OBVIOUS
<1>2. (\A i \in 1..n : mem[i] = s[i]) /\ mem[n + 1] = NUL
  BY ConcatProperties
<1>3. ~(dlen < n \div 2) /\ p \in Nat
      /\ \/ n % 2 = 0 /\ n = 2 * p
         \/ n % 2 = 1 /\ n + 1 = 2 * p
  <2> HIDE DEF n
  <2> QED
    BY <1>1
<1>4. Base16Decode(dlen, mem, n) = IF \E i \in 1..p : Bad(i) THEN Failed ELSE value
  <2> HIDE DEF mem, n
  <2> QED
    BY <1>3, Zenon DEF Base16Decode
<1>5. ASSUME \A i \in 1..p : ~Bad(i)
      PROVE  value # Failed
  <2> SUFFICES ASSUME value = Failed PROVE FALSE
    OBVIOUS
  <2>1. DOMAIN value = 1..1 /\ value[1] = -1
    BY DEF Failed
  <2>2. 1 \in 1..p
    BY <2>1
  <2> DEFINE hi == BASE16_DECODE(mem[2 * 1 - 1])
             lo == BASE16_DECODE(mem[2 * 1])
  <2>3. value[1] = hi * 16 + lo
    BY <2>2, Zenon
  <2>4. hi \in 0..15 \cup {255}
    BY DigitValues
  <2>5. lo \in 0..15 \cup {255}
    BY DigitValues
  <2> HIDE DEF hi, lo, value
  <2> QED
    BY <2>1, <2>3, <2>4, <2>5
<1>6. ASSUME n % 2 = 0, \A i \in 1..n : BASE16_DECODE(s[i]) # 255, NEW i \in 1..p
      PROVE  ~Bad(i)
  <2>1. 2 * i - 1 \in 1..n /\ 2 * i \in 1..n
    <3> HIDE DEF n, mem, p
    <3> QED
      BY <1>1, <1>3, <1>6
  <2>2. mem[2 * i - 1] = s[2 * i - 1] /\ mem[2 * i] = s[2 * i]
    BY <1>2, <2>1, Zenon
  <2> HIDE DEF n, mem, p
  <2> QED
    BY <1>6, <2>1, <2>2
<1>7. ASSUME \A i \in 1..p : ~Bad(i)
      PROVE  n % 2 = 0 /\ \A i \in 1..n : BASE16_DECODE(s[i]) # 255
  <2>1. n % 2 = 0
    <3> SUFFICES ASSUME n + 1 = 2 * p PROVE FALSE
      <4> HIDE DEF n, mem, p
      <4> QED
        BY <1>3
    <3>1. p \in 1..p
      <4> HIDE DEF n, mem, p
      <4> QED
        BY <1>1, <1>3
    <3>2. mem[2 * p] = NUL
      BY <1>2, Zenon
    <3> HIDE DEF n, mem, p
    <3> QED
      BY <1>7, <3>1, <3>2, NulIsNoDigit, Zenon
  <2>2. ASSUME NEW k \in 1..n
        PROVE  BASE16_DECODE(s[k]) # 255
    <3>1. \E i \in 1..p : k = 2 * i - 1 \/ k = 2 * i
      <4> DEFINE j == (k + 1) \div 2
      <4>1. j \in 1..p /\ (k = 2 * j - 1 \/ k = 2 * j)
        <5> HIDE DEF n, mem, p
        <5> QED
          BY <1>1, <1>3
      <4> HIDE DEF j
      <4> QED
        BY <4>1, Zenon
    <3>2. mem[k] = s[k]
      BY <1>2, Zenon
    <3> HIDE DEF n, mem, p
    <3>3. PICK i \in 1..p : k = 2 * i - 1 \/ k = 2 * i
      BY <3>1
    <3>4. BASE16_DECODE(mem[2 * i - 1]) # 255 /\ BASE16_DECODE(mem[2 * i]) # 255
      BY <1>7
    <3>5. BASE16_DECODE(mem[k]) # 255
      BY <3>3, <3>4, Zenon
    <3> QED
      BY <3>2, <3>5, Zenon
  <2> QED
    BY <2>1, <2>2, Zenon
<1> HIDE DEF n, mem, p, Bad, value
<1>8. Base16Decode(dlen, mem, n) # Failed
        <=> n % 2 = 0 /\ \A i \in 1..n : BASE16_DECODE(s[i]) # 255
  BY <1>4, <1>5, <1>6, <1>7, Zenon
<1> QED
  BY <1>1, <1>8 DEF n, mem

\* So base 16 is right of every text.
LEMMA CodingRight == TextTyped /\ Len(text) <= MaxText => Base16Right
<1> SUFFICES ASSUME TextTyped, Len(text) <= MaxText PROVE Base16Right
  OBVIOUS
<1> DEFINE data == [i \in DOMAIN text |-> ByteOf[text[i]]]
           n == Len(data)
           digits == Base16Encode(2 * n, data)
           upper == [i \in DOMAIN digits |-> BASE16_UPPER[BASE16_DECODE(digits[i]) + 1]]
<1>1. data \in Seq(0..255)
  <2>1. DOMAIN text = 1..Len(text) /\ Len(text) \in Nat
    BY DEF TextTyped, Texts
  <2>2. \A i \in DOMAIN text : ByteOf[text[i]] \in 0..255
    <3> SUFFICES ASSUME NEW i \in 1..Len(text) PROVE ByteOf[text[i]] \in 0..255
      BY <2>1, Zenon
    <3>1. text[i] \in Alphabet
      BY ElementOfSeq, Zenon DEF TextTyped, Texts
    <3> QED
      BY <3>1, TextAssumption, Zenon
  <2> QED
    BY <2>1, <2>2
<1> HIDE DEF data
<1>2. /\ Len(digits) = 2 * n /\ Len(upper) = 2 * n
      /\ Base16Decode(n, digits, 2 * n) = data
      /\ Base16Decode(n, upper, 2 * n) = data
  BY <1>1, Survives, Zenon
<1>3. n \in Nat
  BY <1>1
<1>4. ASSUME data # <<>>
      PROVE  /\ Base16DecodeStr(Base16EncodeStr(data), Len(digits)) = data
             /\ Base16Encode(2 * n - 1, data) = Failed
  <2>1. Base16EncodeStr(data) = digits
    BY <1>4, Zenon DEF Base16EncodeStr
  <2>2. n # 0
    BY <1>1, <1>4
  <2>3. Base16Encode(2 * n - 1, data) = Failed
    <3>1. 2 * n - 1 < 2 * n
      <4> HIDE DEF n
      <4> QED
        BY <1>3
    <3> QED
      BY <1>4, <3>1, Zenon DEF Base16Encode
  <2>4. 2 * n # 0 /\ (2 * n) \div 2 = n
    <3> HIDE DEF n, digits, upper
    <3> QED
      BY <1>3, <2>2
  <2>5. Base16DecodeStr(digits, 2 * n) = data
    <3> HIDE DEF n, digits, upper
    <3> QED
      BY <1>2, <2>4, Zenon DEF Base16DecodeStr
  <2> QED
    BY <1>2, <2>1, <2>3, <2>5, Zenon
<1>5. Base16Decode(MaxText, text \o <<NUL>>, Len(text)) # Failed
        <=> Len(text) % 2 = 0 /\ \A i \in DOMAIN text : BASE16_DECODE(text[i]) # 255
  <2>1. text \in Seq(Alphabet) /\ Len(text) <= MaxText
    BY DEF TextTyped, Texts
  <2>2. MaxText \in Nat
    BY TextAssumption
  <2> QED
    BY <2>1, <2>2, Refused
<1>6. \A s \in {digits, upper} : Base16Decode(n, s, Len(s)) = data
  BY <1>2, Zenon
<1> QED
  BY <1>4, <1>5, <1>6, Zenon DEF Base16Right, data

-----------------------------------------------------------------------------
(* The invariant                                                           *)

TextBound == TextTyped /\ Len(text) <= MaxText

LEMMA TextStart == TextInit => TextBound
  BY TextAssumption DEF TextInit, TextBound, TextTyped, Texts

LEMMA TextStep == TextBound /\ [TextNext]_textVars => TextBound'
<1> SUFFICES ASSUME TextBound, [TextNext]_textVars PROVE TextBound'
  OBVIOUS
<1>1. CASE TextGrow
  <2>1. PICK c \in Alphabet : text' = Append(text, c)
    BY <1>1 DEF TextGrow
  <2>2. text' \in Seq(Alphabet) /\ Len(text') = Len(text) + 1 /\ Len(text) \in Nat
    BY <2>1, AppendProperties DEF TextBound, TextTyped, Texts
  <2> QED
    BY <1>1, <2>2, TextAssumption DEF TextBound, TextTyped, Texts, TextGrow
<1>2. CASE TextNew
  BY <1>2, TextAssumption DEF TextNew, TextBound, TextTyped, Texts
<1>3. CASE UNCHANGED textVars
  BY <1>3 DEF TextBound, TextTyped, textVars
<1> QED
  BY <1>1, <1>2, <1>3 DEF TextNext

\* Whatever the characters of the strings, the names and what they stand for,
\* the delimiters and what lies behind a string in memory: both passes of
\* interpolate() agree, and their result is what the string stands for
\* (src/strings.c:96-209); what is split is joined again, and nothing is cut
\* that fills the buffer of string() (src/strings.c:731-766, 673-706, 35-53);
\* data survives base 16 in either case of the digits, one digit too few to
\* write to is refused, and what is decoded is exactly an even number of digits
\* (src/basex.c:103-246).
THEOREM TextCorrect == TextSpec => []TextRight
<1>1. TextInit => TextBound
  BY TextStart
<1>2. TextBound /\ [TextNext]_textVars => TextBound'
  BY TextStep
<1>3. TextBound => TextRight
  BY SplittingRight, InterpolationRight, CodingRight DEF TextBound, TextRight
<1> QED
  BY <1>1, <1>2, <1>3, PTL DEF TextSpec
=============================================================================
