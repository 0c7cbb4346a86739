---------------------------- MODULE LifecycleProofs ----------------------------
(* Proofs about TimeArithmetic, for every length of a second, and about      *)
(* Lifecycle, for any number of threads and ticks; and, with the proofs of   *)
(* the other components, about the server of MCServer.                       *)
EXTENDS MCServer, ChunkPackingProofs, WorldProofs

-----------------------------------------------------------------------------
(* Times                                                                   *)

LEMMA UnitsInt == ASSUME NEW t \in Timespec PROVE Units(t) \in Int
BY BaseAssumption DEF Timespec, Units

LEMMA OneMore == ASSUME NEW n \in Int, NEW w \in Int PROVE (n + 1) * w = n * w + w
OBVIOUS

\* timespec_add and timespec_addraw carry what the fraction has too much.
LEMMA CarriedExact ==
  ASSUME NEW sec \in Int, NEW nsec \in Nat, nsec < Base + Base
  PROVE  Carried(sec, nsec) \in Timespec /\ Units(Carried(sec, nsec)) = sec * Base + nsec
<1>1. CASE nsec >= Base
  <2>1. Carried(sec, nsec) = [sec |-> sec + 1, nsec |-> nsec - Base]
    BY <1>1 DEF Carried
  <2>2. (sec + 1) * Base = sec * Base + Base /\ sec * Base \in Int
    BY OneMore, BaseAssumption
  <2>3. Units(Carried(sec, nsec)) = (sec + 1) * Base + (nsec - Base)
    BY <2>1 DEF Units
  <2>4. Carried(sec, nsec) \in Timespec
    BY <1>1, <2>1, BaseAssumption DEF Timespec
  <2> QED BY <2>2, <2>3, <2>4, BaseAssumption
<1>2. CASE nsec < Base
  BY <1>2, BaseAssumption DEF Carried, Timespec, Units
<1> QED BY <1>1, <1>2, BaseAssumption

\* A sum is the sum of the times (timespec_add).
LEMMA AddExact ==
  ASSUME NEW a \in Timespec, NEW b \in Timespec
  PROVE  timespec_add(a, b) \in Timespec /\ Units(timespec_add(a, b)) = Units(a) + Units(b)
<1>1. a.sec \in Int /\ b.sec \in Int /\ a.nsec \in 0 .. Base - 1 /\ b.nsec \in 0 .. Base - 1
  BY DEF Timespec
<1>2. b.sec + a.sec \in Int /\ b.nsec + a.nsec \in Nat /\ b.nsec + a.nsec < Base + Base
  BY <1>1, BaseAssumption
<1>3. (b.sec + a.sec) * Base = b.sec * Base + a.sec * Base
      /\ b.sec * Base \in Int /\ a.sec * Base \in Int
  BY <1>1, BaseAssumption
<1>4. timespec_add(a, b) \in Timespec
      /\ Units(timespec_add(a, b)) = (b.sec + a.sec) * Base + (b.nsec + a.nsec)
  BY <1>2, CarriedExact DEF timespec_add
<1> QED BY <1>1, <1>3, <1>4, BaseAssumption DEF Units

\* A time and a fraction of a second (timespec_addraw).
LEMMA AddrawExact ==
  ASSUME NEW a \in Timespec, NEW n \in 0 .. Base - 1
  PROVE  timespec_addraw(a, 0, n) \in Timespec /\ Units(timespec_addraw(a, 0, n)) = Units(a) + n
<1>1. a.sec \in Int /\ a.nsec \in 0 .. Base - 1
  BY DEF Timespec
<1>2. n + a.nsec \in Nat /\ n + a.nsec < Base + Base
  BY <1>1, BaseAssumption
<1>3. timespec_addraw(a, 0, n) \in Timespec
      /\ Units(timespec_addraw(a, 0, n)) = a.sec * Base + (n + a.nsec)
  BY <1>1, <1>2, CarriedExact DEF timespec_addraw
<1>4. a.sec * Base \in Int
  BY <1>1, BaseAssumption
<1> QED BY <1>1, <1>3, <1>4, BaseAssumption DEF Units

\* A difference, with one second borrowed if it must be (timespec_diff).
LEMMA DiffExact ==
  ASSUME NEW a \in Timespec, NEW b \in Timespec
  PROVE  timespec_diff(a, b) \in Timespec /\ Units(timespec_diff(a, b)) = Units(b) - Units(a)
<1>1. a.sec \in Int /\ b.sec \in Int /\ a.nsec \in 0 .. Base - 1 /\ b.nsec \in 0 .. Base - 1
  BY DEF Timespec
<1> DEFINE d == b.sec - a.sec
<1>2. d \in Int /\ d * Base = b.sec * Base - a.sec * Base /\ d * Base \in Int
      /\ b.sec * Base \in Int /\ a.sec * Base \in Int
  BY <1>1, BaseAssumption
<1>3. CASE b.nsec - a.nsec < 0
  <2>1. timespec_diff(a, b) = [sec |-> d - 1, nsec |-> b.nsec - a.nsec + Base]
    BY <1>3 DEF timespec_diff
  <2>2. Units(timespec_diff(a, b)) = (d - 1) * Base + (b.nsec - a.nsec + Base)
    BY <2>1 DEF Units
  <2>3. (d - 1) * Base = d * Base - Base
    BY <1>2, BaseAssumption
  <2>4. timespec_diff(a, b) \in Timespec
    BY <1>1, <1>2, <1>3, <2>1, BaseAssumption DEF Timespec
  <2> QED BY <1>1, <1>2, <2>2, <2>3, <2>4, BaseAssumption DEF Units
<1>4. CASE ~ (b.nsec - a.nsec < 0)
  <2>1. timespec_diff(a, b) = [sec |-> d, nsec |-> b.nsec - a.nsec]
    BY <1>4 DEF timespec_diff
  <2>2. Units(timespec_diff(a, b)) = d * Base + (b.nsec - a.nsec)
    BY <2>1 DEF Units
  <2>4. timespec_diff(a, b) \in Timespec
    BY <1>1, <1>2, <1>4, <2>1, BaseAssumption DEF Timespec
  <2> QED BY <1>1, <1>2, <2>2, <2>4, BaseAssumption DEF Units
<1> QED BY <1>3, <1>4

\* A positive comparison means that much is left (timespec_cmp).
LEMMA CmpLater ==
  ASSUME NEW a \in Timespec, NEW b \in Timespec, timespec_cmp(a, b) > 0
  PROVE  Units(a) > Units(b)
<1>1. a.sec \in Int /\ b.sec \in Int /\ a.nsec \in 0 .. Base - 1 /\ b.nsec \in 0 .. Base - 1
  BY DEF Timespec
<1>2. a.sec > b.sec \/ (a.sec = b.sec /\ a.nsec > b.nsec)
  BY DEF timespec_cmp
<1>3. a.sec * Base \in Int /\ b.sec * Base \in Int
  BY <1>1, BaseAssumption
<1>4. CASE a.sec > b.sec
  <2>1. (a.sec - b.sec - 1) * Base >= 0
    BY <1>1, <1>4, BaseAssumption
  <2>2. (a.sec - b.sec - 1) * Base = a.sec * Base - b.sec * Base - Base
    BY <1>1, BaseAssumption
  <2> QED BY <1>1, <1>3, <2>1, <2>2, BaseAssumption DEF Units
<1>5. CASE a.sec = b.sec /\ a.nsec > b.nsec
  BY <1>1, <1>3, <1>5 DEF Units
<1> QED BY <1>2, <1>4, <1>5

Times == start \in Timespec /\ stop \in Timespec /\ diff \in Timespec
           /\ internal_clock \in Timespec /\ ticks \in Nat

ClockInv == Times /\ ClockExact

LEMMA ClockInit == LifeInit => ClockInv
<1> SUFFICES ASSUME LifeInit PROVE ClockInv
  OBVIOUS
<1>1. Zero \in Timespec /\ Units(Zero) = 0 /\ Zero.nsec = 0
  BY BaseAssumption DEF Zero, Timespec, Units
<1>2. 0 * TickLength = 0
  BY TickAssumption
<1> QED BY <1>1, <1>2, BaseAssumption DEF LifeInit, ClockInv, Times, ClockExact

LEMMA ClockStep == ClockInv /\ [LifeNext]_lifeVars => ClockInv'
<1> SUFFICES ASSUME ClockInv, [LifeNext]_lifeVars PROVE ClockInv'
  OBVIOUS
<1>1. CASE TickBegins
  <2>1. start' \in Timespec
    BY <1>1, SecondsAssumption DEF TickBegins, WallClock, Timespec
  <2> QED BY <1>1, <2>1 DEF TickBegins, ClockInv, Times, ClockExact
<1>2. CASE AdvanceClock
  <2> DEFINE tick == [sec |-> 0, nsec |-> TickLength]
  <2>1. tick \in Timespec /\ Units(tick) = TickLength
    BY TickAssumption, BaseAssumption DEF Timespec, Units
  <2>2. internal_clock' \in Timespec
        /\ Units(internal_clock') = Units(internal_clock) + TickLength
    BY <1>2, <2>1, AddExact DEF AdvanceClock, ClockInv, Times
  <2>3. ticks' = ticks + 1 /\ (ticks + 1) * TickLength = ticks * TickLength + TickLength
    BY <1>2, TickAssumption, OneMore DEF AdvanceClock, ClockInv, Times
  <2>4. Units(internal_clock)' = ticks' * TickLength
    BY <2>2, <2>3 DEF ClockInv, ClockExact
  <2>5. internal_clock'.nsec \in 0 .. Base - 1
    BY <2>2 DEF Timespec
  <2>6. main_at' # "sleep"
    BY <1>2 DEF AdvanceClock
  <2> QED BY <1>2, <2>2, <2>3, <2>4, <2>5, <2>6 DEF AdvanceClock, ClockInv, Times, ClockExact
<1>3. CASE TickEnds
  <2>1. stop' \in Timespec
    BY <1>3, SecondsAssumption DEF TickEnds, WallClock, Timespec
  <2>2. should_stop_at \in Timespec /\ Units(should_stop_at) = Units(start) + TickLength
    BY TickAssumption, AddrawExact DEF should_stop_at, ClockInv, Times
  <2>3. CASE timespec_cmp(should_stop_at, stop') > 0
    <3>1. diff' = timespec_diff(stop', should_stop_at)
      BY <1>3, <2>3 DEF TickEnds
    <3>2. diff' \in Timespec /\ Units(diff') = Units(should_stop_at) - Units(stop')
      BY <2>1, <2>2, <3>1, DiffExact
    <3>3. Units(should_stop_at) > Units(stop')
      BY <2>1, <2>2, <2>3, CmpLater
    <3>4. Units(stop') \in Int /\ Units(start) \in Int /\ Units(should_stop_at) \in Int
      BY <2>1, <2>2, UnitsInt DEF ClockInv, Times
    <3>5. Units(stop') + Units(diff') = Units(start) + TickLength /\ Units(diff') > 0
      BY <2>2, <3>2, <3>3, <3>4, TickAssumption
    <3> QED BY <1>3, <2>1, <3>2, <3>5 DEF TickEnds, ClockInv, Times, ClockExact
  <2>4. CASE ~ (timespec_cmp(should_stop_at, stop') > 0)
    <3>1. diff' \in Timespec /\ main_at' = "start"
      BY <1>3, <2>4, BaseAssumption DEF TickEnds, Zero, Timespec
    <3> QED BY <1>3, <2>1, <3>1 DEF TickEnds, ClockInv, Times, ClockExact
  <2> QED BY <2>3, <2>4
<1>4. CASE UNCHANGED timeVars /\ (main_at' # "sleep" \/ UNCHANGED main_at)
  BY <1>4 DEF timeVars, ClockInv, Times, ClockExact
<1>5. ASSUME InitPart \/ InitFails \/ WaitReturns \/ Slept \/ MainCrashes \/ CleanupStep \/ ProcessEnds
               \/ (\E t \in Servants : BatchEnds(t) \/ ServantExits(t)) \/ UNCHANGED lifeVars
      PROVE  UNCHANGED timeVars /\ (main_at' # "sleep" \/ UNCHANGED main_at)
  BY <1>5 DEF InitPart, InitFails, WaitReturns, Slept, MainCrashes, Exits, CleanupStep, ProcessEnds,
              BatchEnds, ServantExits, lifeVars, timeVars
<1> QED BY <1>1, <1>2, <1>3, <1>4, <1>5 DEF LifeNext

\* server_tick and the sleep of server_start: for every length of a second and of a tick, the
\* clock counts the ticks and the sleep ends with its tick.
THEOREM ClockCorrect == LifeSpec => []ClockExact
<1>1. ClockInv => ClockExact
  BY DEF ClockInv
<1> QED BY <1>1, ClockInit, ClockStep, PTL DEF LifeSpec

-----------------------------------------------------------------------------
(* What is up                                                              *)

Parts == {"net", "pool", "world", "clock", "curl", "openssl", "logging", "ninerr"}

Needed == {"ninerr", "logging", "openssl", "curl", "clock", "pool", "world"}

\* What is left of cleanup's list: its last Len(cleanup_todo) parts.
Remaining ==
  /\ cleanup_todo \in Seq(Parts) /\ Len(cleanup_todo) \in 0 .. 8
  /\ \A j \in 1 .. Len(cleanup_todo) :
       cleanup_todo[j] = CleanupOrder[j + 8 - Len(cleanup_todo)]

\* The first parts are up while the server is initialised.
Initialised ==
  /\ IsFiniteSet(up) /\ Cardinality(up) \in 0 .. 7
  /\ up = {InitOrder[j] : j \in 1 .. Cardinality(up)}

\* Threads serve only while the main thread waits for them, and then clean-up cannot get past
\* the pool; whoever has left is one of them, or the main thread, which then does nothing more.
LifeInv ==
  /\ Remaining
  /\ serving \subseteq Servants
  /\ main_at # "wait" => serving = {}
  /\ leaver = {} => cleanup_todo = <<>>
  /\ main_at = "init" => leaver = {} /\ Initialised
  /\ main_at \in {"start", "wait", "clock", "stop", "sleep"} =>
       leaver \subseteq serving /\ (leaver = {} => Needed \subseteq up)
  /\ serving # {} => Needed \subseteq up /\ Len(cleanup_todo) \in {0, 7, 8}
  /\ "curl" \in up => "openssl" \in up
  /\ Len(cleanup_todo) \in 1 .. 3 => "curl" \notin up

LEMMA LifeInvInit == LifeInit => LifeInv
<1> SUFFICES ASSUME LifeInit PROVE LifeInv
  OBVIOUS
<1>1. Initialised
  <2>1. IsFiniteSet(up) /\ Cardinality(up) = 0
    BY FS_EmptySet DEF LifeInit
  <2> QED BY <2>1 DEF LifeInit, Initialised
<1>2. Remaining
  BY DEF LifeInit, Remaining
<1> QED BY <1>1, <1>2 DEF LifeInit, LifeInv

\* The lists of init and cleanup, part by part.
LEMMA InitList ==
  /\ InitOrder[1] = "ninerr" /\ InitOrder[2] = "logging" /\ InitOrder[3] = "openssl"
  /\ InitOrder[4] = "curl" /\ InitOrder[5] = "clock" /\ InitOrder[6] = "pool"
  /\ InitOrder[7] = "net" /\ InitOrder[8] = "world"
BY DEF InitOrder

LEMMA CleanupList ==
  /\ CleanupOrder \in Seq(Parts) /\ Len(CleanupOrder) = 8
  /\ CleanupOrder[1] = "net" /\ CleanupOrder[2] = "pool" /\ CleanupOrder[3] = "world"
  /\ CleanupOrder[4] = "clock" /\ CleanupOrder[5] = "curl" /\ CleanupOrder[6] = "openssl"
  /\ CleanupOrder[7] = "logging" /\ CleanupOrder[8] = "ninerr"
<1>1. CleanupOrder \in Seq(Parts)
  BY DEF CleanupOrder, Parts
<1>2. Len(CleanupOrder) = 8
  BY DEF CleanupOrder
<1>3. /\ CleanupOrder[1] = "net" /\ CleanupOrder[2] = "pool" /\ CleanupOrder[3] = "world"
      /\ CleanupOrder[4] = "clock" /\ CleanupOrder[5] = "curl" /\ CleanupOrder[6] = "openssl"
      /\ CleanupOrder[7] = "logging" /\ CleanupOrder[8] = "ninerr"
  BY DEF CleanupOrder
<1> QED BY <1>1, <1>2, <1>3

LEMMA WholeList ==
  ASSUME cleanup_todo' \in {<<>>, CleanupOrder}
  PROVE  Remaining' /\ Len(cleanup_todo') \in {0, 8} /\ Len(cleanup_todo') \notin 1 .. 3
<1>1. CASE cleanup_todo' = <<>>
  BY <1>1, EmptySeq DEF Remaining
<1>2. CASE cleanup_todo' = CleanupOrder
  <2>1. \A j \in 1 .. 8 : CleanupOrder[j] = CleanupOrder[j + 8 - 8]
    OBVIOUS
  <2> QED BY <1>2, <2>1, CleanupList DEF Remaining
<1> QED BY <1>1, <1>2

\* One part more is up (init).
LEMMA OneMoreUp ==
  ASSUME Initialised, up' = up \cup {NextPart}
  PROVE  /\ NextPart # "world" => Initialised'
         /\ NextPart = "world" => Needed \subseteq up'
         /\ "curl" \in up' => "openssl" \in up'
<1> DEFINE n == Cardinality(up)
<1>1. n \in 0 .. 7 /\ NextPart = InitOrder[n + 1]
  BY DEF Initialised, NextPart
<1>2. up = {InitOrder[j] : j \in 1 .. n}
  BY DEF Initialised
<1> HIDE DEF n
<1>3. up' = {InitOrder[j] : j \in 1 .. n + 1}
  BY <1>1, <1>2
<1>4. NextPart \notin up
  BY <1>1, <1>2, InitList
<1>5. IsFiniteSet(up') /\ Cardinality(up') = n + 1
  BY <1>4, FS_AddElement DEF n, Initialised
<1>6. NextPart = "world" <=> n = 7
  BY <1>1, InitList
<1>7. ASSUME NextPart # "world" PROVE Initialised'
  <2>1. Cardinality(up') \in 0 .. 7
    BY <1>1, <1>5, <1>6, <1>7
  <2> QED BY <2>1, <1>3, <1>5 DEF Initialised
<1>8. ASSUME NextPart = "world" PROVE Needed \subseteq up'
  <2>1. up' = {InitOrder[j] : j \in 1 .. 8}
    BY <1>3, <1>6, <1>8
  <2>2. InitOrder[1] \in up' /\ InitOrder[2] \in up' /\ InitOrder[3] \in up' /\ InitOrder[4] \in up'
        /\ InitOrder[5] \in up' /\ InitOrder[6] \in up' /\ InitOrder[8] \in up'
    BY <2>1
  <2> QED BY <2>2, InitList DEF Needed
<1>9. ASSUME "curl" \in up' PROVE "openssl" \in up'
  <2>1. n + 1 >= 4
    BY <1>1, <1>3, <1>9, InitList
  <2>2. InitOrder[3] \in up'
    BY <1>1, <1>3, <2>1
  <2> QED BY <2>2, InitList
<1> QED BY <1>7, <1>8, <1>9

\* exit sets the handler going, or does not (server_shutdown).
LEMMA ExitsKeeps ==
  ASSUME LifeInv, NEW t, Exits(t)
  PROVE  /\ Remaining' /\ UNCHANGED <<up, serving>> /\ leaver' = leaver \cup {t}
         /\ serving # {} => Len(cleanup_todo') \in {0, 7, 8}
         /\ Len(cleanup_todo') \in 1 .. 3 => "curl" \notin up
<1>1. UNCHANGED <<up, serving>> /\ leaver' = leaver \cup {t}
  BY DEF Exits, initVars
<1>2. CASE leaver = {}
  <2>1. cleanup_todo' \in {<<>>, CleanupOrder}
    BY <1>2 DEF Exits
  <2> QED BY <1>1, <2>1, WholeList
<1>3. CASE leaver # {}
  <2>1. UNCHANGED cleanup_todo
    BY <1>3 DEF Exits
  <2> QED BY <1>1, <2>1 DEF LifeInv, Remaining
<1> QED BY <1>2, <1>3

\* What is left of cleanup's list has a length, and a first part.
LEMMA FirstPart ==
  ASSUME Remaining, cleanup_todo # <<>>
  PROVE  \E n \in 1 .. 8 : Len(cleanup_todo) = n /\ Head(cleanup_todo) = CleanupOrder[9 - n]
<1>1. Len(cleanup_todo) \in 1 .. 8 /\ Head(cleanup_todo) = cleanup_todo[1]
  BY EmptySeq DEF Remaining
<1>2. PICK n \in 1 .. 8 : Len(cleanup_todo) = n
  BY <1>1
<1>3. cleanup_todo[1] = CleanupOrder[1 + 8 - n]
  BY <1>2 DEF Remaining
<1>4. 1 + 8 - n = 9 - n
  OBVIOUS
<1> QED BY <1>1, <1>2, <1>3, <1>4

\* The list without its first part.
LEMMA TailRemains ==
  ASSUME Remaining, NEW n \in 1 .. 8, Len(cleanup_todo) = n, cleanup_todo' = Tail(cleanup_todo)
  PROVE  Remaining' /\ Len(cleanup_todo') = n - 1
<1>0. cleanup_todo # <<>>
  BY EmptySeq
<1>1. cleanup_todo' \in Seq(Parts) /\ Len(cleanup_todo') = n - 1
      /\ \A j \in 1 .. n - 1 : cleanup_todo'[j] = cleanup_todo[j + 1]
  BY <1>0, HeadTailProperties DEF Remaining
<1>2. ASSUME NEW j \in 1 .. n - 1 PROVE cleanup_todo'[j] = CleanupOrder[j + 8 - (n - 1)]
  <2>1. j + 1 \in 1 .. n /\ (j + 1) + 8 - n = j + 8 - (n - 1)
    OBVIOUS
  <2>2. cleanup_todo[j + 1] = CleanupOrder[(j + 1) + 8 - n]
    BY <2>1 DEF Remaining
  <2> QED BY <1>1, <2>1, <2>2
<1>3. n - 1 \in 0 .. 8
  OBVIOUS
<1> QED BY <1>1, <1>2, <1>3 DEF Remaining

\* One step of cleanup.
LEMMA CleanupKeeps == ASSUME LifeInv, CleanupStep PROVE LifeInv'
<1> DEFINE part == Head(cleanup_todo)
<1>0. Remaining /\ cleanup_todo # <<>>
  BY DEF LifeInv, CleanupStep
<1>1. PICK n \in 1 .. 8 : Len(cleanup_todo) = n /\ part = CleanupOrder[9 - n]
  BY <1>0, FirstPart
<1>2. cleanup_todo' = Tail(cleanup_todo) \/ (Tail(cleanup_todo) = <<>> /\ cleanup_todo' = CleanupOrder)
  BY DEF CleanupStep
<1>3. Remaining' /\ \E m \in 0 .. 8 : Len(cleanup_todo') = m /\ (m = n - 1 \/ (n = 1 /\ m = 8))
  <2>1. CASE cleanup_todo' = Tail(cleanup_todo)
    <3>1. Remaining' /\ Len(cleanup_todo') = n - 1
      BY <1>0, <1>1, <2>1, TailRemains
    <3>2. n - 1 \in 0 .. 8
      OBVIOUS
    <3> QED BY <3>1, <3>2
  <2>2. CASE Tail(cleanup_todo) = <<>> /\ cleanup_todo' = CleanupOrder
    <3>1. Len(Tail(cleanup_todo)) = n - 1
      BY <1>0, <1>1, HeadTailProperties DEF Remaining
    <3>2. n - 1 = 0
      BY <2>2, <3>1, EmptySeq
    <3>3. Remaining' /\ Len(cleanup_todo') = 8
      BY <2>2, WholeList, CleanupList
    <3> QED BY <3>2, <3>3
  <2> QED BY <1>2, <2>1, <2>2
<1>4. PICK m \in 0 .. 8 : Len(cleanup_todo') = m /\ (m = n - 1 \/ (n = 1 /\ m = 8))
  BY <1>3
<1>5. /\ part # "logging" => up' = up \ {part}
      /\ part = "logging" => up' = up
  BY DEF CleanupStep
<1>6. UNCHANGED <<main_at, serving, leaver>> /\ leaver # {}
      /\ (part = "pool" /\ "pool" \in up => serving = {})
  BY DEF CleanupStep
<1> HIDE DEF part
<1>7. ASSUME serving # {} PROVE Needed \subseteq up' /\ Len(cleanup_todo') \in {0, 7, 8}
  <2>1. n \in {7, 8}
    BY <1>1, <1>7 DEF LifeInv
  <2>2. Needed \subseteq up
    BY <1>7 DEF LifeInv
  <2>3. n # 7
    BY <1>1, <1>6, <1>7, <2>2, CleanupList DEF Needed
  <2>4. n = 8
    BY <2>1, <2>3
  <2>5. part = "net" /\ m = 7
    BY <1>1, <1>4, <2>4, CleanupList
  <2>6. Needed \subseteq up'
    BY <1>5, <2>2, <2>5 DEF Needed
  <2> QED BY <1>4, <2>5, <2>6
<1>8. ASSUME "curl" \in up' PROVE "openssl" \in up'
  <2>1. "curl" \in up
    BY <1>5, <1>8
  <2>2. "openssl" \in up /\ n \notin 1 .. 3
    BY <1>1, <2>1 DEF LifeInv
  <2>3. n # 3
    BY <2>2
  <2>4. part # "openssl"
    BY <1>1, <2>3, CleanupList
  <2> QED BY <1>5, <2>2, <2>4
<1>9. ASSUME Len(cleanup_todo') \in 1 .. 3 PROVE "curl" \notin up'
  <2>1. m \in 1 .. 3
    BY <1>4, <1>9
  <2>2. n \in 2 .. 4
    BY <1>4, <2>1
  <2>3. CASE n = 4
    BY <1>1, <1>5, <2>3, CleanupList
  <2>4. CASE n \in 1 .. 3
    BY <1>1, <1>5, <2>4 DEF LifeInv
  <2> QED BY <2>2, <2>3, <2>4
<1> QED BY <1>3, <1>6, <1>7, <1>8, <1>9 DEF LifeInv

LEMMA LifeInvStep == LifeInv /\ [LifeNext]_lifeVars => LifeInv'
<1> SUFFICES ASSUME LifeInv, [LifeNext]_lifeVars PROVE LifeInv'
  OBVIOUS
<1>1. CASE InitPart
  <2>1. UNCHANGED <<serving, leaver, cleanup_todo>> /\ up' = up \cup {NextPart}
        /\ main_at' = (IF NextPart = "world" THEN "start" ELSE "init")
    BY <1>1 DEF InitPart, exitVars
  <2>2. leaver = {} /\ serving = {} /\ cleanup_todo = <<>> /\ Initialised
    BY <1>1 DEF InitPart, LifeInv
  <2> QED BY <2>1, <2>2, OneMoreUp DEF LifeInv, Remaining
<1>2. CASE InitFails
  <2>1. cleanup_todo' \in {<<>>, CleanupOrder}
    BY <1>2 DEF InitFails
  <2>2. UNCHANGED <<up, serving>> /\ serving = {} /\ leaver' = {Main} /\ main_at' = "exit"
    BY <1>2 DEF InitFails, initVars, LifeInv
  <2> QED BY <2>1, <2>2, WholeList DEF LifeInv
<1>3. CASE TickBegins
  <2>1. UNCHANGED <<up, leaver, cleanup_todo>> /\ serving' \subseteq Servants /\ main_at' = "wait"
    BY <1>3 DEF TickBegins, initVars, exitVars
  <2>2. leaver = {} /\ Needed \subseteq up /\ cleanup_todo = <<>>
    BY <1>3 DEF TickBegins, LifeInv
  <2> QED BY <2>1, <2>2 DEF LifeInv, Remaining
<1>4. ASSUME NEW t \in Servants, BatchEnds(t) PROVE LifeInv'
  <2>1. UNCHANGED <<up, main_at, leaver, cleanup_todo>> /\ serving' = serving \ {t} /\ t \notin leaver
        /\ t \in serving
    BY <1>4 DEF BatchEnds, initVars, exitVars
  <2> QED BY <2>1 DEF LifeInv, Remaining, Initialised
<1>5. CASE WaitReturns \/ AdvanceClock \/ TickEnds \/ Slept
  <2>1. UNCHANGED <<up, serving, leaver, cleanup_todo>> /\ serving = {}
        /\ main_at \in {"wait", "clock", "stop", "sleep"} /\ main_at' \in {"start", "clock", "stop", "sleep"}
    BY <1>5 DEF WaitReturns, AdvanceClock, TickEnds, Slept, initVars, exitVars, LifeInv
  <2> QED BY <2>1 DEF LifeInv, Remaining
<1>6. CASE MainCrashes
  <2>1. serving = {} /\ main_at' = "exit" /\ Exits(Main)
    BY <1>6 DEF MainCrashes, LifeInv
  <2> QED BY <2>1, ExitsKeeps DEF LifeInv
<1>7. ASSUME NEW t \in Servants, ServantExits(t) PROVE LifeInv'
  <2>1. t \in serving /\ UNCHANGED main_at /\ Exits(t)
    BY <1>7 DEF ServantExits
  <2>2. main_at = "wait" /\ Needed \subseteq up
    BY <2>1 DEF LifeInv
  <2> QED BY <2>1, <2>2, ExitsKeeps DEF LifeInv
<1>8. CASE CleanupStep
  BY <1>8, CleanupKeeps
<1>9. CASE ProcessEnds
  <2>1. UNCHANGED <<up, leaver, cleanup_todo>> /\ main_at' = "dead" /\ serving' = {}
    BY <1>9 DEF ProcessEnds, initVars, exitVars
  <2> QED BY <2>1 DEF LifeInv, Remaining
<1>10. CASE UNCHANGED lifeVars
  BY <1>10 DEF lifeVars, LifeInv, Remaining, Initialised
<1> QED BY <1>1, <1>2, <1>3, <1>4, <1>5, <1>6, <1>7, <1>8, <1>9, <1>10 DEF LifeNext

\* init, cleanup and exit: for any number of threads, what a serving thread uses is up, whoever
\* calls exit and when, and the clock is not written meanwhile.
THEOREM UsedWhileUpCorrect == LifeSpec => []UsedWhileUp
<1>1. LifeInv => UsedWhileUp
  BY DEF LifeInv, UsedWhileUp, Needed
<1> QED BY <1>1, LifeInvInit, LifeInvStep, PTL DEF LifeSpec

-----------------------------------------------------------------------------
(* Types                                                                   *)

LifeControl ==
  /\ up \subseteq ToSet(InitOrder) /\ registered \in BOOLEAN
  /\ main_at \in {"init", "start", "wait", "clock", "stop", "sleep", "exit", "dead"}
  /\ serving \subseteq Servants /\ leaver \subseteq Servants \cup {Main}
  /\ calls_left \in 0 .. 1 /\ ticks \in 0 .. MaxTicks
  /\ main_at \in {"wait", "clock"} => ticks < MaxTicks

LEMMA NextPartListed ==
  ASSUME LifeInv, main_at = "init"
  PROVE  NextPart \in ToSet(InitOrder)
<1> DEFINE n == Cardinality(up)
<1>1. n \in 0 .. 7
  BY DEF LifeInv, Initialised
<1>2. Len(InitOrder) = 8 /\ DOMAIN InitOrder = 1 .. 8
  BY DEF InitOrder
<1> HIDE DEF n
<1>3. n + 1 \in DOMAIN InitOrder
  BY <1>1, <1>2
<1>4. InitOrder[n + 1] \in ToSet(InitOrder)
  BY <1>3 DEF ToSet
<1> QED BY <1>4 DEF NextPart, n

LEMMA LifeControlStep == LifeInv /\ LifeControl /\ [LifeNext]_lifeVars => LifeControl'
<1> SUFFICES ASSUME LifeInv, LifeControl, [LifeNext]_lifeVars PROVE LifeControl'
  OBVIOUS
<1> USE SecondsAssumption DEF LifeControl, initVars, exitVars, timeVars
<1>1. CASE InitPart
  <2>1. NextPart \in ToSet(InitOrder)
    BY <1>1, NextPartListed DEF InitPart
  <2> HIDE DEF NextPart
  <2> QED BY <1>1, <2>1 DEF InitPart
<1>2. CASE InitFails
  BY <1>2 DEF InitFails
<1>3. CASE TickBegins
  BY <1>3 DEF TickBegins
<1>4. CASE WaitReturns
  BY <1>4 DEF WaitReturns
<1>5. CASE AdvanceClock
  BY <1>5 DEF AdvanceClock
<1>6. CASE TickEnds
  BY <1>6 DEF TickEnds
<1>7. CASE Slept
  BY <1>7 DEF Slept
<1>8. CASE MainCrashes
  BY <1>8 DEF MainCrashes, Exits
<1>9. CASE CleanupStep
  BY <1>9 DEF CleanupStep
<1>10. CASE ProcessEnds
  BY <1>10 DEF ProcessEnds
<1>11. CASE \E t \in Servants : BatchEnds(t) \/ ServantExits(t)
  BY <1>11 DEF BatchEnds, ServantExits, Exits
<1>12. CASE UNCHANGED lifeVars
  BY <1>12 DEF lifeVars
<1> QED BY <1>1, <1>2, <1>3, <1>4, <1>5, <1>6, <1>7, <1>8, <1>9, <1>10, <1>11, <1>12 DEF LifeNext

\* The process stays in its states, whoever leaves it and however often: exit runs clean-up at
\* most once more than it was called directly.
THEOREM LifeTypeCorrect == LifeSpec => []LifeTypeOK
<1>1. ASSUME LifeInit PROVE LifeControl
  <2>1. ticks \in 0 .. MaxTicks /\ calls_left \in 0 .. 1
    BY <1>1, SecondsAssumption DEF LifeInit
  <2>2. /\ up = {} /\ registered \in BOOLEAN /\ main_at = "init" /\ serving = {} /\ leaver = {}
    BY <1>1 DEF LifeInit
  <2> QED BY <2>1, <2>2 DEF LifeControl
<1>2. ClockInv /\ LifeControl => LifeTypeOK
  BY DEF ClockInv, Times, LifeControl, LifeTypeOK
<1> QED BY <1>1, <1>2, LifeControlStep, LifeInvInit, LifeInvStep, ClockInit, ClockStep, PTL
        DEF LifeSpec

-----------------------------------------------------------------------------
(* The components of MCServer                                              *)

\* Each component does what its own specification says, whichever of them is the subject.
LEMMA ServerComponents == ServerSpec => Spec /\ TableSpec /\ IdsSpec /\ WorldSpec /\ LifeSpec
<1>1. ServerInit => Init /\ TableInit /\ IdsInit /\ WorldInit /\ LifeInit
  BY DEF ServerInit
<1>2. [ServerNext]_<<subject, vars, tableVars, idVars, worldVars, lifeVars>>
        => [Next]_vars /\ [TableNext]_tableVars /\ [IdsNext]_idVars /\ [WorldNext]_worldVars
             /\ [LifeNext]_lifeVars
  BY DEF ServerNext
<1> QED BY <1>1, <1>2, PTL DEF ServerSpec, Spec, TableSpec, IdsSpec, WorldSpec, LifeSpec

\* Every component keeps to its types (world.c, hash-table.c, server.c).
THEOREM ServerTypeCorrect == ServerSpec => []ServerTypeOK
<1>1. ServerSpec => []TypeOK /\ []TableTypeOK /\ []IdsTypeOK /\ []WorldTypeOK /\ []LifeTypeOK
  BY ServerComponents, PackedCorrect, TableTypeCorrect, IdsTypeCorrect, WorldTypeCorrect,
     LifeTypeCorrect, PTL
<1>2. TypeOK /\ TableTypeOK /\ IdsTypeOK /\ WorldTypeOK /\ LifeTypeOK => ServerTypeOK
  BY DEF ServerTypeOK
<1> QED BY <1>1, <1>2, PTL

\* What holds of the components holds of them together (world.c, hash-table.c, server.c).
THEOREM ServerSafe ==
  ServerSpec => /\ [](SectionReadable /\ ArrayExact /\ IdsDistinct /\ SentWhole /\ UsedWhileUp
                        /\ ClockExact)
                /\ ImplementsStore
BY ServerComponents, ReadableCorrect, ArrayCorrect, IdsCorrect, SentWholeCorrect,
   UsedWhileUpCorrect, ClockCorrect, TableImplementsStore, PTL
=============================================================================
