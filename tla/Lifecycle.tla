------------------------------- MODULE Lifecycle -------------------------------
(***************************************************************************)
(* server.c: what is initialised in which order, the ticks of the main     *)
(* thread with the clock they advance, and exit(), whose handler           *)
(* (cleanup) takes everything down again.  exit may be called by the main  *)
(* thread or by a thread of the pool: connection_close calls it for a      *)
(* client it does not find.  The flag that says logging is initialised is  *)
(* set nowhere, so that cleanup never closes the log.                      *)
(*                                                                         *)
(* The pool is its threads that are serving: net_tick waits for all of     *)
(* them (ThreadPool's IdleMeansDone), thpool_destroy too (DestroyReturns). *)
(***************************************************************************)
EXTENDS TimeArithmetic, Sequences, FiniteSets, SequencesExt

CONSTANTS
  Servants,         \* the threads of the pool
  Main,             \* the main thread
  TickLength,       \* tick_duration_ns
  Seconds,          \* what the seconds of the wall clock may be
  MaxTicks          \* bounds the runs

ASSUME TickAssumption == TickLength \in 1 .. Base - 1
ASSUME MainAssumption == Main \notin Servants
ASSUME SecondsAssumption == Seconds \subseteq Int /\ MaxTicks \in Nat

VARIABLES
  up,               \* what is initialised and not cleaned up
  main_at,          \* "init", "start", "wait", "clock", "stop", "sleep", or "exit" and "dead"
  serving,          \* the threads in a batch
  leaver,           \* the threads that have called exit
  registered,       \* exit runs cleanup
  cleanup_todo,     \* what cleanup has still to take down
  calls_left,       \* how often cleanup is to run after that
  start, stop,      \* when the tick began, and when its work was done
  diff,             \* how long the main thread then sleeps
  internal_clock, ticks

lifeVars == <<up, main_at, serving, leaver, registered, cleanup_todo, calls_left,
              start, stop, diff, internal_clock, ticks>>

initVars == <<up, registered>>
exitVars == <<leaver, cleanup_todo, calls_left>>
timeVars == <<start, stop, diff, internal_clock, ticks>>

Zero == [sec |-> 0, nsec |-> 0]

\* init: the parts in their order.
InitOrder == <<"ninerr", "logging", "openssl", "curl", "clock", "pool", "net", "world">>

\* Variant: the threads outlive what they use.
CleanupOrder_PoolLast == <<"net", "world", "clock", "curl", "openssl", "logging", "pool", "ninerr">>

\* cleanup: what it takes down, if the part's flag is set.
CleanupOrder == <<"net", "pool", "world", "clock", "curl", "openssl", "logging", "ninerr">>

-----------------------------------------------------------------------------
LifeInit ==
  /\ up = {} /\ main_at = "init" /\ serving = {}
  /\ leaver = {} /\ registered = FALSE
  /\ cleanup_todo = <<>> /\ calls_left = 0
  /\ start = Zero /\ stop = Zero /\ diff = Zero /\ internal_clock = Zero /\ ticks = 0

\* The part that is initialised next.
NextPart == InitOrder[Cardinality(up) + 1]

\* With logging there, the handler is registered, which may fail and is only logged.
InitPart ==
  /\ main_at = "init"
  /\ up' = up \cup {NextPart}
  /\ registered' \in {registered, registered \/ NextPart = "logging"}
  /\ main_at' = IF NextPart = "world" THEN "start" ELSE "init"
  /\ UNCHANGED <<serving, exitVars, timeVars>>

\* A part cannot be initialised; ninerr_init always returns true, so that the branch for its
\* failure is never taken, and OpenSSL's calls are not asked.  Where logging, the clock's lock or the pool is missing,
\* cleanup is called before exit, which calls it again if it is registered.
InitFails ==
  /\ main_at = "init"
  /\ NextPart \notin {"ninerr", "openssl"}
  /\ LET direct == NextPart \in {"logging", "clock", "pool"} IN
       /\ cleanup_todo' = IF direct \/ registered THEN CleanupOrder ELSE <<>>
       /\ calls_left' = IF direct /\ registered THEN 1 ELSE 0
  /\ leaver' = {Main} /\ main_at' = "exit"
  /\ UNCHANGED <<initVars, serving, timeVars>>

-----------------------------------------------------------------------------
(* server_start's loop and server_tick                                     *)

WallClock == [sec : Seconds, nsec : 0 .. Base - 1]

\* The clock is read and net_tick gives the threads their batches.
TickBegins ==
  /\ main_at = "start" /\ ticks < MaxTicks
  /\ start' \in WallClock
  /\ serving' \in SUBSET Servants
  /\ main_at' = "wait"
  /\ UNCHANGED <<initVars, exitVars, stop, diff, internal_clock, ticks>>

BatchEnds(t) ==
  /\ t \in serving \ leaver
  /\ serving' = serving \ {t}
  /\ UNCHANGED <<initVars, main_at, exitVars, timeVars>>

\* Variant: the main thread does not wait for the threads.
WaitReturns_Early ==
  /\ main_at = "wait"
  /\ main_at' = "clock"
  /\ UNCHANGED <<initVars, serving, exitVars, timeVars>>

\* thpool_wait returns.
WaitReturns ==
  /\ main_at = "wait" /\ serving = {}
  /\ main_at' = "clock"
  /\ UNCHANGED <<initVars, serving, exitVars, timeVars>>

\* server_tick writes the clock without the lock its readers take.
AdvanceClock ==
  /\ main_at = "clock"
  /\ internal_clock' = timespec_add(internal_clock, [sec |-> 0, nsec |-> TickLength])
  /\ ticks' = ticks + 1 /\ main_at' = "stop"
  /\ UNCHANGED <<initVars, serving, exitVars, start, stop, diff>>

should_stop_at == timespec_addraw(start, 0, TickLength)

\* The time, which may have been set meanwhile, is read again, and what is left of the tick is
\* slept through.
TickEnds ==
  /\ main_at = "stop"
  /\ stop' \in WallClock
  /\ IF timespec_cmp(should_stop_at, stop') > 0
       THEN diff' = timespec_diff(stop', should_stop_at) /\ main_at' = "sleep"
       ELSE diff' = Zero /\ main_at' = "start"
  /\ UNCHANGED <<initVars, serving, exitVars, start, internal_clock, ticks>>

Slept ==
  /\ main_at = "sleep"
  /\ main_at' = "start"
  /\ UNCHANGED <<initVars, serving, exitVars, timeVars>>

-----------------------------------------------------------------------------
(* exit and cleanup                                                        *)

\* The first caller of exit runs the handler; to a second one, which the C standard leaves
\* undefined, the handler is taken: it waits, or ends the process (ProcessEnds).
Exits(t) ==
  /\ leaver' = leaver \cup {t}
  /\ IF leaver = {}
       THEN cleanup_todo' = IF registered THEN CleanupOrder ELSE <<>>
       ELSE UNCHANGED cleanup_todo
  /\ UNCHANGED <<initVars, serving, calls_left, timeVars>>

\* A thread is to close a client that is not in the list.
ServantExits(t) ==
  /\ t \in serving \ leaver /\ main_at # "dead"
  /\ Exits(t) /\ UNCHANGED main_at

\* The time cannot be read: server_crash.
MainCrashes ==
  /\ main_at \in {"start", "stop"}
  /\ Exits(Main) /\ main_at' = "exit"

\* What is flagged as initialised is taken down; the pool once no thread is serving, for which
\* a thread of it that runs cleanup waits in vain.
CleanupStep ==
  LET part == Head(cleanup_todo) IN
  /\ leaver # {} /\ main_at # "dead" /\ cleanup_todo # <<>>
  /\ part = "pool" /\ part \in up => serving = {}
  /\ up' = IF part = "logging" THEN up ELSE up \ {part}
  /\ IF Tail(cleanup_todo) = <<>> /\ calls_left > 0
       THEN cleanup_todo' = CleanupOrder /\ calls_left' = calls_left - 1
       ELSE cleanup_todo' = Tail(cleanup_todo) /\ UNCHANGED calls_left
  /\ UNCHANGED <<registered, main_at, serving, leaver, timeVars>>

\* The handlers have run, or are another's, and the process ends, and its threads with it.
ProcessEnds ==
  /\ leaver # {} /\ main_at # "dead"
  /\ cleanup_todo = <<>> \/ Cardinality(leaver) > 1
  /\ main_at' = "dead" /\ serving' = {}
  /\ UNCHANGED <<initVars, exitVars, timeVars>>

LifeNext ==
  \/ InitPart \/ InitFails \/ TickBegins \/ WaitReturns \/ AdvanceClock \/ TickEnds \/ Slept
  \/ MainCrashes \/ CleanupStep \/ ProcessEnds
  \/ \E t \in Servants : BatchEnds(t) \/ ServantExits(t)

LifeSpec == LifeInit /\ [][LifeNext]_lifeVars

-----------------------------------------------------------------------------
LifeTypeOK ==
  /\ up \subseteq ToSet(InitOrder) /\ registered \in BOOLEAN
  /\ main_at \in {"init", "start", "wait", "clock", "stop", "sleep", "exit", "dead"}
  /\ serving \subseteq Servants /\ leaver \subseteq Servants \cup {Main}
  /\ calls_left \in 0 .. 1 /\ ticks \in 0 .. MaxTicks
  /\ {start, stop, diff, internal_clock} \subseteq Timespec

\* A thread that serves a client finds everything it uses in place, though exit may be called,
\* and clean-up run, on another thread at any moment; and the clock, which the main thread
\* writes without the lock, is not written meanwhile.  OpenSSL goes after curl ("make sure to
\* do this after CURL cleanup").
UsedWhileUp ==
  /\ serving # {} =>
       /\ {"ninerr", "logging", "openssl", "curl", "clock", "pool", "world"} \subseteq up
       /\ main_at # "clock"
  /\ "curl" \in up => "openssl" \in up

\* The internal clock says how many ticks there were, in seconds and a proper fraction, through
\* every carry; and a sleep lasts exactly until the tick is over by the wall clock, however
\* that was set meanwhile.
ClockExact ==
  /\ Units(internal_clock) = ticks * TickLength /\ internal_clock.nsec \in 0 .. Base - 1
  /\ main_at = "sleep" =>
       /\ Units(stop) + Units(diff) = Units(start) + TickLength
       /\ Units(diff) > 0
=============================================================================
