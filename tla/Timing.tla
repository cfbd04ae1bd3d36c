------------------------------- MODULE Timing -------------------------------
(***************************************************************************)
(* The heartbeats of src/hb.c: how many may be missed, and the delay that  *)
(* grows with every miss; and sleep_ms() and the stopwatch of src/time.c.  *)
(* hb->expiry is set once and used by nobody.                              *)
(***************************************************************************)
EXTENDS Integers

CONSTANTS
  HbParams,    \* what hb_init() is called with; the factor of the back-off is
               \*   factor / unit
  IntMax,      \* INT_MAX
  Instants,    \* readings of the clock, in microseconds
  MaxMisses    \* bound: heartbeats missed in a row

HbParamTypes == [interval : 1..IntMax, freshness : 1..IntMax, max_delay : 1..IntMax,
                 factor : Nat \ {0}, unit : Nat \ {0}]

\* The assertions of hb_init(), and an increment that does not overflow.
ASSUME TimingAssumption ==
  /\ IntMax \in Nat \ {0}
  /\ HbParams \subseteq HbParamTypes
  /\ \A p \in HbParams : /\ p.factor >= p.unit /\ p.max_delay >= p.interval
                         /\ p.freshness < IntMax
  /\ Instants \subseteq Nat
  /\ MaxMisses \in Nat

Second == 1000000

VARIABLES
  param,   \* hb->interval, freshness, backoff and max_delay
  delay,   \* hb->delay
  missed,  \* hb->missed
  misses,  \* history: heartbeats missed since the last one that came
  slept,   \* the timespec of the last sleep_ms(): [sec, usec]
  watch,   \* the stopwatch: [running, sec, usec]
  lap      \* history: the instants the stopwatch was started and stopped at

hbVars == <<param, delay, missed, misses>>
timingVars == <<hbVars, slept, watch, lap>>

TimingTypeOK ==
  /\ param \in HbParams
  /\ delay \in -IntMax - 1..IntMax
  /\ missed \in 0..param.freshness + 1
  /\ misses \in 0..MaxMisses
  /\ slept \in [sec : Int, usec : Int]
  /\ watch \in [running : BOOLEAN, sec : Int, usec : Int]
  /\ lap \in [from : Instants, to : Instants]

TimingInit ==
  /\ param \in HbParams /\ delay = param.interval /\ missed = 0 /\ misses = 0
  /\ slept = [sec |-> 0, usec |-> 0]
  /\ \E t \in Instants : /\ watch = [running |-> FALSE, sec |-> 0, usec |-> 0]
                         /\ lap = [from |-> t, to |-> t]

-----------------------------------------------------------------------------
(* Heartbeats                                                              *)

HbInit(p) ==
  /\ param' = p /\ delay' = p.interval /\ missed' = 0 /\ misses' = 0
  /\ UNCHANGED <<slept, watch, lap>>

HbPing ==
  /\ delay' = param.interval /\ missed' = 0 /\ misses' = 0
  /\ UNCHANGED <<param, slept, watch, lap>>

\* An int made of a double: cut off, and the least int if it does not fit.
Product(d) ==
  LET x == (d * param.factor) \div param.unit
  IN IF d >= 0 THEN IF x > IntMax THEN -IntMax - 1 ELSE x
     ELSE -IntMax - 1

\* Mutant: the last of the misses that are allowed is one too many.
HbMissEarly ==
  /\ misses < MaxMisses /\ misses' = misses + 1
  /\ IF missed >= param.freshness
       THEN UNCHANGED <<delay, missed>>
       ELSE /\ missed' = missed + 1
            /\ delay' = IF Product(delay) > param.max_delay THEN param.max_delay ELSE Product(delay)
  /\ UNCHANGED <<param, slept, watch, lap>>

\* Once it is dead a heartbeat stays as it is.
HbMiss ==
  /\ misses < MaxMisses /\ misses' = misses + 1
  /\ IF missed > param.freshness
       THEN UNCHANGED <<delay, missed>>
       ELSE /\ missed' = missed + 1
            /\ delay' = IF Product(delay) > param.max_delay THEN param.max_delay ELSE Product(delay)
  /\ UNCHANGED <<param, slept, watch, lap>>

HbAlive == missed <= param.freshness

\* hb_sleep(), sleep_ms(): the nanoseconds are those of whole microseconds, and
\* nanosleep() refuses negative ones.
HbSleep ==
  /\ LET sec == IF delay >= 0 THEN delay \div 1000 ELSE -((-delay) \div 1000)
     IN slept' = [sec |-> sec, usec |-> (delay - 1000 * sec) * 1000]
  /\ UNCHANGED <<hbVars, watch, lap>>

-----------------------------------------------------------------------------
(* The stopwatch                                                           *)

StopwatchStart(t) ==
  /\ watch' = [running |-> TRUE, sec |-> t \div Second, usec |-> t % Second]
  /\ lap' = [from |-> t, to |-> t]
  /\ UNCHANGED <<hbVars, slept>>

\* The clock may have been set back in between.
StopwatchStop(t) ==
  /\ watch.running
  /\ LET sec  == t \div Second - watch.sec
         usec == (t % Second) - watch.usec
     IN watch' = IF usec < 0 THEN [running |-> FALSE, sec |-> sec - 1, usec |-> Second + usec]
                             ELSE [running |-> FALSE, sec |-> sec, usec |-> usec]
  /\ lap' = [lap EXCEPT !.to = t]
  /\ UNCHANGED <<hbVars, slept>>

StopwatchMs == watch.sec * 1000 + watch.usec \div 1000

TimingNext ==
  \/ \E p \in HbParams : HbInit(p)
  \/ HbPing \/ HbMiss \/ HbSleep
  \/ \E t \in Instants : StopwatchStart(t) \/ StopwatchStop(t)

TimingSpec == TimingInit /\ [][TimingNext]_timingVars

-----------------------------------------------------------------------------
(* Properties                                                              *)

\* No delay is so long that the next one does not fit into an int.
FitsInt == param.max_delay * param.factor <= IntMax * param.unit

\* A heartbeat is alive until more than its freshness were missed in a row
\* (src/hb.c:61-81).
AliveWhileFresh == HbAlive <=> misses <= param.freshness

\* The delay stays between the interval and the maximum, unless it overflows
\* before the maximum is looked at: then it is negative, and hb_sleep() does
\* not sleep (src/hb.c:66-70).
DelayInRange == FitsInt => param.interval <= delay /\ delay <= param.max_delay

\* A heartbeat that was missed has a longer delay, unless the product is cut
\* off to the interval itself.
BackedOff ==
  FitsInt /\ missed > 0 =>
    \/ delay > param.interval \/ delay = param.max_delay
    \/ param.interval * (param.factor - param.unit) < param.unit

\* A stopwatch says how many milliseconds went by, also from one second to the
\* next, and also if the clock was set back (src/time.c:71-105).
StopwatchRight ==
  ~watch.running => StopwatchMs = (lap.to - lap.from) \div 1000

TimingRight == AliveWhileFresh /\ DelayInRange /\ BackedOff /\ StopwatchRight
=============================================================================
