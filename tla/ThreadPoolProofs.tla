-------------------------- MODULE ThreadPoolProofs --------------------------
(***************************************************************************)
(* Proofs about ThreadPool, for every number of workers and jobs.          *)
(*                                                                         *)
(* IInv is the inductive invariant: the types, the counters, the account   *)
(* of the jobs and the two facts that rule out a lost wakeup.              *)
(***************************************************************************)
EXTENDS ThreadPool, FiniteSetTheorems, TLAPS

-----------------------------------------------------------------------------
(* The semaphore's wakeups move blocked workers and nothing else.          *)

\* A signal keeps every worker where it is, but may move a blocked one to SemWait.
LEMMA SignalMovesBlocked ==
  ASSUME NEW p \in [Workers -> WorkerPlaces], NEW q \in AfterSignal(p)
  PROVE  /\ q \in [Workers -> WorkerPlaces]
         /\ \A w \in Workers : q[w] = p[w] \/ (p[w] = "SemBlocked" /\ q[w] = "SemWait")
  BY DEF AfterSignal, Blocked, WorkerPlaces

\* After a signal some worker is not blocked, if there is a worker at all.
LEMMA SignalLeavesOneAwake ==
  ASSUME NEW p \in [Workers -> WorkerPlaces], NEW q \in AfterSignal(p),
         Workers # {}
  PROVE  \E w \in Workers : q[w] # "SemBlocked"
  BY DEF AfterSignal, Blocked, WorkerPlaces

\* The same for a broadcast.
LEMMA BroadcastMovesBlocked ==
  ASSUME NEW p \in [Workers -> WorkerPlaces]
  PROVE  /\ AfterBroadcast(p) \in [Workers -> WorkerPlaces]
         /\ \A w \in Workers : /\ AfterBroadcast(p)[w] # "SemBlocked"
                               /\ \/ AfterBroadcast(p)[w] = p[w]
                                  \/ p[w] = "SemBlocked" /\ AfterBroadcast(p)[w] = "SemWait"
  BY DEF AfterBroadcast, WorkerPlaces

-----------------------------------------------------------------------------
\* Where the threads are after jobqueue_pull took a job: w runs it, and at most a
\* blocked thread has been woken.
LEMMA PullMoves ==
  ASSUME TypeOK, NEW w \in Workers, PullJob(w)
  PROVE  /\ pc' \in [Workers -> WorkerPlaces]
         /\ has_jobs' \in {0, 1}
         /\ pc'[w] = "Run"
         /\ \A v \in Workers : \/ v = w
                               \/ pc'[v] = pc[v]
                               \/ pc[v] = "SemBlocked" /\ pc'[v] = "SemWait"
<1> DEFINE next == [pc EXCEPT ![w] = "Run"]
<1>1. next \in [Workers -> WorkerPlaces]
  BY DEF TypeOK, WorkerPlaces
<1>2. next[w] = "Run" /\ \A v \in Workers : v # w => next[v] = pc[v]
  BY DEF TypeOK
<1> HIDE DEF next
<1>3. \/ has_jobs' = 1 /\ pc' \in AfterSignal(next)
      \/ has_jobs' = has_jobs /\ pc' = next
  BY DEF PullJob, RepostIfMore, next
<1>4. CASE has_jobs' = 1 /\ pc' \in AfterSignal(next)
  BY <1>1, <1>2, <1>4, SignalMovesBlocked
<1>5. CASE has_jobs' = has_jobs /\ pc' = next
  BY <1>1, <1>2, <1>5 DEF TypeOK
<1> QED BY <1>3, <1>4, <1>5

\* The threads a counter counts are finitely many.
LEMMA CountedFinite ==
  /\ IsFiniteSet(Busy) /\ Cardinality(Busy) \in Nat
  /\ IsFiniteSet(Alive) /\ Cardinality(Alive) \in Nat
BY WorkersFinite, FS_Subset, FS_CardinalityType DEF Busy, Alive

\* A thread that enters or leaves the counted section changes the count by one.
LEMMA CountMoves ==
  ASSUME NEW S, NEW w, IsFiniteSet(S)
  PROVE  /\ w \notin S => Cardinality(S \cup {w}) = Cardinality(S) + 1
         /\ w \in S => /\ Cardinality(S \ {w}) = Cardinality(S) - 1
                       /\ Cardinality(S) > 0
<1>1. Cardinality(S) \in Nat /\ (w \in S => Cardinality(S) # 0)
  BY FS_CardinalityType, FS_EmptySet
<1> QED BY <1>1, FS_AddElement, FS_RemoveElement

TypeInv == TypeOK /\ CountersExact

\* Init establishes the types and the counts.
LEMMA TypeInvInit == Init => TypeInv
<1> SUFFICES ASSUME Init PROVE TypeInv
  OBVIOUS
<1>1. TypeOK
  BY DEF Init, TypeOK, WorkerPlaces, CallerPlaces, JobStates
<1>2. Busy = {} /\ Alive = {}
  BY DEF Init, Busy, Alive
<1> QED BY <1>1, <1>2, FS_EmptySet DEF TypeInv, CountersExact, Init

\* A step that moves no thread in or out of a counted section keeps the counts.
LEMMA SameCounts ==
  ASSUME CountersExact, Busy' = Busy, Alive' = Alive, UNCHANGED counters
  PROVE  CountersExact'
BY DEF CountersExact, counters

\* Every step keeps the types and the counts.
LEMMA TypeInvStep == TypeInv /\ [Next]_vars => TypeInv'
<1> SUFFICES ASSUME TypeInv, [Next]_vars PROVE TypeInv'
  OBVIOUS
<1> USE DEF TypeInv, TypeOK, WorkerPlaces, CallerPlaces, JobStates, counters
<1>1. ASSUME NEW w \in Workers, CreateThread(w) PROVE TypeInv'
  <2>1. TypeOK'
    BY <1>1 DEF CreateThread
  <2>2. Busy' = Busy /\ Alive' = Alive /\ UNCHANGED counters
    BY <1>1 DEF CreateThread, Busy, Alive
  <2> QED BY <2>1, <2>2, SameCounts
<1>2. CASE InitReturns
  <2>1. TypeOK'
    BY <1>2 DEF InitReturns
  <2>2. Busy' = Busy /\ Alive' = Alive /\ UNCHANGED counters
    BY <1>2 DEF InitReturns, Busy, Alive
  <2> QED BY <2>1, <2>2, SameCounts
<1>3. CASE WaitTest
  <2>1. TypeOK'
    BY <1>3 DEF WaitTest
  <2>2. Busy' = Busy /\ Alive' = Alive /\ UNCHANGED counters
    BY <1>3 DEF WaitTest, Busy, Alive
  <2> QED BY <2>1, <2>2, SameCounts
<1>4. CASE DestroyPolls
  <2>1. TypeOK'
    BY <1>4, BroadcastMovesBlocked DEF DestroyPolls
  <2>2. Busy' = Busy /\ Alive' = Alive /\ UNCHANGED counters
    BY <1>4, BroadcastMovesBlocked DEF DestroyPolls, Busy, Alive
  <2> QED BY <2>1, <2>2, SameCounts
<1>5. CASE DestroyFrees
  <2>1. TypeOK'
    BY <1>5 DEF DestroyFrees
  <2>2. Busy' = Busy /\ Alive' = Alive /\ UNCHANGED counters
    BY <1>5 DEF DestroyFrees, Busy, Alive
  <2> QED BY <2>1, <2>2, SameCounts
<1>6. CASE CallWait
  <2>1. TypeOK'
    BY <1>6 DEF CallWait
  <2>2. Busy' = Busy /\ Alive' = Alive /\ UNCHANGED counters
    BY <1>6 DEF CallWait, Busy, Alive
  <2> QED BY <2>1, <2>2, SameCounts
<1>7. CASE CallDestroy
  <2>1. TypeOK'
    BY <1>7 DEF CallDestroy
  <2>2. Busy' = Busy /\ Alive' = Alive /\ UNCHANGED counters
    BY <1>7 DEF CallDestroy, Busy, Alive
  <2> QED BY <2>1, <2>2, SameCounts
<1>8. ASSUME NEW j \in Jobs, AddWork(j) PROVE TypeInv'
  <2>1. pc' \in AfterSignal(pc) /\ UNCHANGED counters
    BY <1>8 DEF AddWork
  <2>2. /\ pc' \in [Workers -> WorkerPlaces]
        /\ \A v \in Workers : pc'[v] = pc[v] \/ (pc[v] = "SemBlocked" /\ pc'[v] = "SemWait")
    BY <2>1, SignalMovesBlocked
  <2>3. queue' \in Seq(Jobs) /\ jobs' \in [Jobs -> JobStates]
    BY <1>8 DEF AddWork
  <2>4. TypeOK'
    BY <1>8, <2>2, <2>3 DEF AddWork
  <2>5. Busy' = Busy /\ Alive' = Alive
    BY <2>2 DEF Busy, Alive
  <2> QED BY <2>1, <2>4, <2>5, SameCounts
<1>9. ASSUME NEW w \in Workers, LoopTest(w) PROVE TypeInv'
  <2>1. TypeOK'
    BY <1>9 DEF LoopTest
  <2>2. Busy' = Busy /\ Alive' = Alive /\ UNCHANGED counters
    BY <1>9 DEF LoopTest, Busy, Alive
  <2> QED BY <2>1, <2>2, SameCounts
<1>10. ASSUME NEW w \in Workers, SemWait(w) PROVE TypeInv'
  <2>1. TypeOK'
    BY <1>10 DEF SemWait
  <2>2. Busy' = Busy /\ Alive' = Alive /\ UNCHANGED counters
    BY <1>10 DEF SemWait, Busy, Alive
  <2> QED BY <2>1, <2>2, SameCounts
<1>11. ASSUME NEW w \in Workers, KeepaliveTest(w) PROVE TypeInv'
  <2>1. TypeOK'
    BY <1>11 DEF KeepaliveTest
  <2>2. Busy' = Busy /\ Alive' = Alive /\ UNCHANGED counters
    BY <1>11 DEF KeepaliveTest, Busy, Alive
  <2> QED BY <2>1, <2>2, SameCounts
<1>12. ASSUME NEW w \in Workers, PullNothing(w) PROVE TypeInv'
  <2>1. TypeOK'
    BY <1>12 DEF PullNothing
  <2>2. Busy' = Busy /\ Alive' = Alive /\ UNCHANGED counters
    BY <1>12 DEF PullNothing, Busy, Alive
  <2> QED BY <2>1, <2>2, SameCounts
<1>13. ASSUME NEW w \in Workers, PullJob(w) PROVE TypeInv'
  <2>0. Head(queue) \in Jobs /\ Tail(queue) \in Seq(Jobs)
    BY <1>13 DEF PullJob
  <2>1. TypeOK'
    BY <1>13, <2>0, PullMoves DEF PullJob
  <2>2. Busy' = Busy /\ Alive' = Alive /\ UNCHANGED counters
    BY <1>13, PullMoves DEF PullJob, Busy, Alive
  <2> QED BY <2>1, <2>2, SameCounts
<1>14. ASSUME NEW w \in Workers, JobReturns(w) PROVE TypeInv'
  <2>1. TypeOK'
    BY <1>14 DEF JobReturns
  <2>2. Busy' = Busy /\ Alive' = Alive /\ UNCHANGED counters
    BY <1>14 DEF JobReturns, Busy, Alive
  <2> QED BY <2>1, <2>2, SameCounts
<1>15. ASSUME NEW w \in Workers, Unlock(w) PROVE TypeInv'
  <2>1. TypeOK'
    BY <1>15 DEF Unlock
  <2>2. Busy' = Busy /\ Alive' = Alive /\ UNCHANGED counters
    BY <1>15 DEF Unlock, Busy, Alive
  <2> QED BY <2>1, <2>2, SameCounts
<1>16. ASSUME NEW w \in Workers, JobExits(w) PROVE TypeInv'
  <2>1. TypeOK'
    BY <1>16 DEF JobExits
  <2>2. Busy' = Busy /\ Alive' = Alive /\ UNCHANGED counters
    BY <1>16 DEF JobExits, Busy, Alive
  <2> QED BY <2>1, <2>2, SameCounts
<1>17. ASSUME NEW w \in Workers, JobDestroyPolls(w) PROVE TypeInv'
  <2>1. TypeOK'
    BY <1>17, BroadcastMovesBlocked DEF JobDestroyPolls
  <2>2. Busy' = Busy /\ Alive' = Alive /\ UNCHANGED counters
    BY <1>17, BroadcastMovesBlocked DEF JobDestroyPolls, Busy, Alive
  <2> QED BY <2>1, <2>2, SameCounts
<1>18. CASE SpuriousWakeup
  <2>1. TypeOK'
    BY <1>18 DEF SpuriousWakeup
  <2>2. Busy' = Busy /\ Alive' = Alive /\ UNCHANGED counters
    BY <1>18 DEF SpuriousWakeup, Busy, Alive
  <2> QED BY <2>1, <2>2, SameCounts
<1>19. ASSUME NEW w \in Workers, MarkAlive(w) PROVE TypeInv'
  <2>1. Alive' = Alive \cup {w} /\ w \notin Alive /\ Busy' = Busy
    BY <1>19 DEF MarkAlive, Busy, Alive
  <2>2. CountersExact' /\ num_threads_working' \in Nat /\ num_threads_alive' \in Nat
    BY <2>1, <1>19, CountedFinite, CountMoves DEF MarkAlive, CountersExact
  <2>3. TypeOK'
    BY <2>2, <1>19 DEF MarkAlive
  <2> QED BY <2>2, <2>3
<1>20. ASSUME NEW w \in Workers, MarkWorking(w) PROVE TypeInv'
  <2>1. Busy' = Busy \cup {w} /\ w \notin Busy /\ Alive' = Alive
    BY <1>20 DEF MarkWorking, Busy, Alive
  <2>2. CountersExact' /\ num_threads_working' \in Nat /\ num_threads_alive' \in Nat
    BY <2>1, <1>20, CountedFinite, CountMoves DEF MarkWorking, CountersExact
  <2>3. TypeOK'
    BY <2>2, <1>20 DEF MarkWorking
  <2> QED BY <2>2, <2>3
<1>21. ASSUME NEW w \in Workers, MarkIdle(w) PROVE TypeInv'
  <2>1. Busy' = Busy \ {w} /\ w \in Busy /\ Alive' = Alive
    BY <1>21 DEF MarkIdle, Busy, Alive
  <2>2. CountersExact' /\ num_threads_working' \in Nat /\ num_threads_alive' \in Nat
    BY <2>1, <1>21, CountedFinite, CountMoves DEF MarkIdle, CountersExact
  <2>3. TypeOK'
    BY <2>2, <1>21 DEF MarkIdle
  <2> QED BY <2>2, <2>3
<1>22. ASSUME NEW w \in Workers, Leave(w) PROVE TypeInv'
  <2>1. Alive' = Alive \ {w} /\ w \in Alive /\ Busy' = Busy
    BY <1>22 DEF Leave, Busy, Alive
  <2>2. CountersExact' /\ num_threads_working' \in Nat /\ num_threads_alive' \in Nat
    BY <2>1, <1>22, CountedFinite, CountMoves DEF Leave, CountersExact
  <2>3. TypeOK'
    BY <2>2, <1>22 DEF Leave
  <2> QED BY <2>2, <2>3
<1>23. CASE UNCHANGED vars
  <2>1. TypeOK'
    BY <1>23 DEF vars
  <2>2. Busy' = Busy /\ Alive' = Alive /\ UNCHANGED counters
    BY <1>23 DEF vars, Busy, Alive
  <2> QED BY <2>1, <2>2, SameCounts
<1> QED
  BY <1>1, <1>2, <1>3, <1>4, <1>5, <1>6, <1>7, <1>8, <1>9, <1>10, <1>11, <1>12, <1>13, <1>14, <1>15, <1>16, <1>17, <1>18, <1>19, <1>20, <1>21, <1>22, <1>23
     DEF Next, WorkerStep, CallerStep, CallerCalls

\* The counters are exact and every variable keeps its type: num_threads_working and
\* num_threads_alive never miss a thread, so neither ever goes below zero.
THEOREM CountersCorrect == Spec => [](TypeOK /\ CountersExact)
<1>1. Spec => []TypeInv
  BY TypeInvInit, TypeInvStep, PTL DEF Spec
<1> QED BY <1>1 DEF TypeInv

\* Every variable of the pool keeps its type; no counter goes below zero (thpool.c:104-109).
THEOREM TypeCorrect == Spec => []TypeOK
BY CountersCorrect, PTL

-----------------------------------------------------------------------------
(* The account of the jobs.                                                *)

\* A step that touches no job and moves no worker in or out of a job keeps the account.
LEMMA SameJobs ==
  ASSUME JobsAccounted, UNCHANGED <<jobs, queue, holding>>,
         \A w \in Workers : pc'[w] \in {"Run", "DestroyFromJob"}
                            <=> pc[w] \in {"Run", "DestroyFromJob"}
  PROVE  JobsAccounted'
BY DEF JobsAccounted

\* jobqueue_push adds the job at the rear and nowhere else.
LEMMA AddKeepsJobs ==
  ASSUME TypeOK, JobsAccounted, NEW j \in Jobs, AddWork(j)
  PROVE  JobsAccounted'
<1>1. /\ queue' = Append(queue, j) /\ jobs' = [jobs EXCEPT ![j] = "queued"]
      /\ holding' = holding /\ jobs[j] = "new" /\ pc' \in AfterSignal(pc)
  BY DEF AddWork
<1>2. \A w \in Workers : pc'[w] = pc[w] \/ (pc[w] = "SemBlocked" /\ pc'[w] = "SemWait")
  BY <1>1, SignalMovesBlocked DEF TypeOK
<1>3. DOMAIN queue = 1 .. Len(queue) /\ DOMAIN queue' = 1 .. (Len(queue) + 1)
      /\ Len(queue) \in Nat
      /\ queue'[Len(queue) + 1] = j /\ \A i \in 1 .. Len(queue) : queue'[i] = queue[i]
  BY <1>1 DEF TypeOK
<1>4. \A i \in DOMAIN queue : queue[i] \in Jobs /\ queue[i] # j
  BY <1>1 DEF TypeOK, JobsAccounted
<1>5. \A k \in Jobs : jobs'[k] = "queued" <=> \E i \in DOMAIN queue' : queue'[i] = k
  <2> SUFFICES ASSUME NEW k \in Jobs
               PROVE  jobs'[k] = "queued" <=> \E i \in DOMAIN queue' : queue'[i] = k
    OBVIOUS
  <2>1. CASE k = j
    BY <1>1, <1>3, <2>1 DEF TypeOK
  <2>2. CASE k # j
    <3>1. jobs'[k] = jobs[k]
      BY <1>1, <2>2 DEF TypeOK
    <3>2. (\E i \in DOMAIN queue' : queue'[i] = k) <=> \E i \in DOMAIN queue : queue[i] = k
      BY <1>3, <2>2
    <3> QED BY <3>1, <3>2 DEF JobsAccounted
  <2> QED BY <2>1, <2>2
<1>6. \A i, k \in DOMAIN queue' : queue'[i] = queue'[k] => i = k
  BY <1>3, <1>4 DEF JobsAccounted
<1>7. \A k \in Jobs : jobs'[k] = "running" <=> \E w \in Workers : holding'[w] = k
  BY <1>1 DEF TypeOK, JobsAccounted
<1> QED BY <1>1, <1>2, <1>5, <1>6, <1>7 DEF JobsAccounted

\* jobqueue_pull moves the front job, and only it, into one worker's hands.
LEMMA PullKeepsJobs ==
  ASSUME TypeOK, JobsAccounted, NEW w \in Workers, PullJob(w)
  PROVE  JobsAccounted'
<1> DEFINE j == Head(queue)
<1>1. /\ pc[w] = "Pull" /\ queue # <<>> /\ queue' = Tail(queue)
      /\ holding' = [holding EXCEPT ![w] = j] /\ jobs' = [jobs EXCEPT ![j] = "running"]
  BY DEF PullJob
<1>2. /\ DOMAIN queue = 1 .. Len(queue) /\ DOMAIN queue' = 1 .. (Len(queue) - 1)
      /\ Len(queue) \in Nat \ {0} /\ j = queue[1] /\ j \in Jobs
      /\ \A i \in 1 .. (Len(queue) - 1) : queue'[i] = queue[i + 1]
  BY <1>1 DEF TypeOK
<1>3. holding[w] = NoJob /\ jobs[j] = "queued" /\ \A v \in Workers : holding[v] # j
  BY <1>1, <1>2 DEF JobsAccounted, TypeOK
<1> HIDE DEF j
<1>4. \A k \in Jobs : jobs'[k] = "queued" <=> k # j /\ \E i \in DOMAIN queue : queue[i] = k
  BY <1>1, <1>2 DEF TypeOK, JobsAccounted
<1>5. \A k \in Jobs : (k # j /\ \E i \in DOMAIN queue : queue[i] = k)
                      <=> \E i \in DOMAIN queue' : queue'[i] = k
  <2> SUFFICES ASSUME NEW k \in Jobs
               PROVE  (k # j /\ \E i \in DOMAIN queue : queue[i] = k)
                      <=> \E i \in DOMAIN queue' : queue'[i] = k
    OBVIOUS
  <2>1. ASSUME k # j, NEW i \in DOMAIN queue, queue[i] = k
        PROVE  \E h \in DOMAIN queue' : queue'[h] = k
    <3>1. i # 1 /\ i - 1 \in DOMAIN queue' /\ queue'[i - 1] = queue[i]
      BY <1>2, <2>1
    <3> QED BY <2>1, <3>1
  <2>2. ASSUME NEW i \in DOMAIN queue', queue'[i] = k
        PROVE  k # j /\ \E h \in DOMAIN queue : queue[h] = k
    <3>1. i + 1 \in DOMAIN queue /\ queue[i + 1] = k /\ i + 1 # 1 /\ 1 \in DOMAIN queue
      BY <1>2, <2>2
    <3> QED BY <1>2, <3>1 DEF JobsAccounted
  <2> QED BY <2>1, <2>2
<1>6. \A i, k \in DOMAIN queue' : queue'[i] = queue'[k] => i = k
  <2> SUFFICES ASSUME NEW i \in DOMAIN queue', NEW k \in DOMAIN queue', queue'[i] = queue'[k]
               PROVE  i = k
    OBVIOUS
  <2>1. i + 1 \in DOMAIN queue /\ k + 1 \in DOMAIN queue /\ queue[i + 1] = queue[k + 1]
    BY <1>2
  <2>2. i + 1 = k + 1
    BY <2>1 DEF JobsAccounted
  <2> QED BY <1>2, <2>2
<1>7. \A k \in Jobs : jobs'[k] = "running" <=> \E v \in Workers : holding'[v] = k
  <2>1. \A v \in Workers : holding'[v] = IF v = w THEN j ELSE holding[v]
    BY <1>1 DEF TypeOK
  <2>2. \A k \in Jobs : jobs'[k] = IF k = j THEN "running" ELSE jobs[k]
    BY <1>1 DEF TypeOK
  <2> QED BY <1>2, <1>3, <2>1, <2>2, NoJobNotJob DEF JobsAccounted
<1>8. \A u, v \in Workers : holding'[u] = holding'[v] /\ holding'[u] # NoJob => u = v
  BY <1>1, <1>3 DEF TypeOK, JobsAccounted
<1>9. \A v \in Workers : holding'[v] # NoJob <=> pc'[v] \in {"Run", "DestroyFromJob"}
  BY <1>1, <1>2, NoJobNotJob, PullMoves DEF TypeOK, JobsAccounted
<1> QED BY <1>4, <1>5, <1>6, <1>7, <1>8, <1>9 DEF JobsAccounted

\* A job that returns leaves its worker's hands.
LEMMA ReturnKeepsJobs ==
  ASSUME TypeOK, JobsAccounted, NEW w \in Workers, JobReturns(w)
  PROVE  JobsAccounted'
<1>1. /\ pc[w] = "Run" /\ pc' = [pc EXCEPT ![w] = "MarkIdle"] /\ queue' = queue
      /\ jobs' = [jobs EXCEPT ![holding[w]] = "done"] /\ holding' = [holding EXCEPT ![w] = NoJob]
  BY DEF JobReturns
<1>2. holding[w] \in Jobs /\ jobs[holding[w]] = "running"
  BY <1>1, NoJobNotJob DEF TypeOK, JobsAccounted
<1>3. \A j \in Jobs : jobs'[j] = "queued" <=> \E i \in DOMAIN queue' : queue'[i] = j
  BY <1>1, <1>2 DEF TypeOK, JobsAccounted
<1>4. \A j \in Jobs : jobs'[j] = "running" <=> \E v \in Workers : holding'[v] = j
  BY <1>1, <1>2, NoJobNotJob DEF TypeOK, JobsAccounted
<1>5. \A u, v \in Workers : holding'[u] = holding'[v] /\ holding'[u] # NoJob => u = v
  BY <1>1 DEF TypeOK, JobsAccounted
<1>6. \A v \in Workers : holding'[v] # NoJob <=> pc'[v] \in {"Run", "DestroyFromJob"}
  BY <1>1 DEF TypeOK, JobsAccounted
<1> QED BY <1>1, <1>3, <1>4, <1>5, <1>6 DEF JobsAccounted

\* Freeing the pool empties the queue and drops exactly the jobs that were in it.
LEMMA FreeKeepsJobs ==
  ASSUME TypeOK, JobsAccounted, DestroyFrees
  PROVE  JobsAccounted'
BY DEF DestroyFrees, JobsAccounted, TypeOK, JobStates

\* Every step keeps the account of the jobs.
LEMMA JobsStep == TypeOK /\ JobsAccounted /\ [Next]_vars => JobsAccounted'
<1> SUFFICES ASSUME TypeOK, JobsAccounted, [Next]_vars PROVE JobsAccounted'
  OBVIOUS
<1> DEFINE InJob == {"Run", "DestroyFromJob"}
           Same == /\ UNCHANGED <<jobs, queue, holding>>
                   /\ \A v \in Workers : pc'[v] \in InJob <=> pc[v] \in InJob
<1>1. Same => JobsAccounted'
  BY SameJobs
<1> HIDE DEF Same
<1> USE DEF TypeOK, WorkerPlaces
<1>2. ASSUME NEW w \in Workers, CreateThread(w) PROVE JobsAccounted'
  BY <1>1, <1>2 DEF CreateThread, Same
<1>3. CASE InitReturns
  BY <1>1, <1>3 DEF InitReturns, Same
<1>4. CASE WaitTest
  BY <1>1, <1>4 DEF WaitTest, Same
<1>5. CASE DestroyPolls
  BY <1>1, <1>5, BroadcastMovesBlocked DEF DestroyPolls, Same
<1>6. CASE CallWait
  BY <1>1, <1>6 DEF CallWait, Same
<1>7. CASE CallDestroy
  BY <1>1, <1>7 DEF CallDestroy, Same
<1>8. ASSUME NEW w \in Workers, MarkAlive(w) PROVE JobsAccounted'
  BY <1>1, <1>8 DEF MarkAlive, Same
<1>9. ASSUME NEW w \in Workers, LoopTest(w) PROVE JobsAccounted'
  BY <1>1, <1>9 DEF LoopTest, Same
<1>10. ASSUME NEW w \in Workers, SemWait(w) PROVE JobsAccounted'
  BY <1>1, <1>10 DEF SemWait, Same
<1>11. ASSUME NEW w \in Workers, KeepaliveTest(w) PROVE JobsAccounted'
  BY <1>1, <1>11 DEF KeepaliveTest, Same
<1>12. ASSUME NEW w \in Workers, MarkWorking(w) PROVE JobsAccounted'
  BY <1>1, <1>12 DEF MarkWorking, Same
<1>13. ASSUME NEW w \in Workers, PullNothing(w) PROVE JobsAccounted'
  BY <1>1, <1>13 DEF PullNothing, Same
<1>14. ASSUME NEW w \in Workers, MarkIdle(w) PROVE JobsAccounted'
  BY <1>1, <1>14 DEF MarkIdle, Same
<1>15. ASSUME NEW w \in Workers, Leave(w) PROVE JobsAccounted'
  BY <1>1, <1>15 DEF Leave, Same
<1>16. ASSUME NEW w \in Workers, Unlock(w) PROVE JobsAccounted'
  BY <1>1, <1>16 DEF Unlock, Same
<1>17. ASSUME NEW w \in Workers, JobDestroyPolls(w) PROVE JobsAccounted'
  BY <1>1, <1>17, BroadcastMovesBlocked DEF JobDestroyPolls, Same
<1>18. CASE SpuriousWakeup
  BY <1>1, <1>18 DEF SpuriousWakeup, Same
<1>19. ASSUME NEW w \in Workers, JobExits(w) PROVE JobsAccounted'
  BY <1>1, <1>19 DEF JobExits, Same
<1>20. CASE UNCHANGED vars
  BY <1>1, <1>20 DEF vars, Same
<1> HIDE DEF TypeOK, WorkerPlaces
<1> QED
  BY <1>2, <1>3, <1>4, <1>5, <1>6, <1>7, <1>8, <1>9, <1>10, <1>11, <1>12, <1>13, <1>14, <1>15, <1>16, <1>17, <1>18, <1>19, <1>20,
     AddKeepsJobs, PullKeepsJobs, ReturnKeepsJobs, FreeKeepsJobs
     DEF Next, WorkerStep, CallerStep, CallerCalls

\* A job is in the queue, in exactly one worker's hands, or in neither, as its history
\* says: no job runs twice and none is lost, with any number of workers and jobs.
THEOREM JobsCorrect == Spec => []JobsAccounted
<1>1. Init => JobsAccounted
  BY NoJobNotJob DEF Init, JobsAccounted
<1>2. Spec => []TypeOK
  BY CountersCorrect, PTL
<1>3. QED
  BY <1>1, <1>2, JobsStep, PTL DEF Spec

\* With nobody counted as working, nobody holds a job: thpool_wait's condition is
\* false only when nothing that was added is left.
LEMMA IdleFollows == TypeOK /\ CountersExact /\ JobsAccounted => IdleMeansDone
<1> SUFFICES ASSUME TypeOK, CountersExact, JobsAccounted, ~WorkOutstanding, NEW j \in Jobs
             PROVE  jobs[j] \notin {"queued", "running"}
  BY DEF IdleMeansDone
<1>1. Len(queue) = 0 /\ num_threads_working = 0
  BY DEF WorkOutstanding, TypeOK
<1>2. Busy = {}
  BY <1>1, CountedFinite, FS_EmptySet DEF CountersExact
<1>3. DOMAIN queue = {}
  BY <1>1 DEF TypeOK
<1>4. \A w \in Workers : holding[w] = NoJob
  BY <1>2 DEF JobsAccounted, Busy
<1> QED BY <1>3, <1>4, NoJobNotJob DEF JobsAccounted

\* thpool_wait returns only when every job that was added has run to its end.
THEOREM WaitIsBarrier == Spec => []IdleMeansDone
<1>1. Spec => [](TypeOK /\ CountersExact /\ JobsAccounted)
  BY CountersCorrect, JobsCorrect, PTL
<1> QED BY <1>1, IdleFollows, PTL

-----------------------------------------------------------------------------
(* No wakeup is lost.                                                      *)

WakeInv == PoolComplete /\ QueuedJobHasWorker /\ SleeperHasSignaller

\* When as many threads are alive as were asked for, every thread is.
LEMMA AllAlive ==
  ASSUME TypeOK, CountersExact, num_threads_alive = Cardinality(Workers)
  PROVE  Alive = Workers
BY WorkersFinite, FS_Subset DEF CountersExact, Alive

\* A thread that pulls or works is counted.
LEMMA BusyIsCounted ==
  ASSUME TypeOK, CountersExact, NEW w \in Busy
  PROVE  num_threads_working > 0
BY CountedFinite, FS_EmptySet DEF CountersExact

\* While the pool serves, every worker is in its loop.
LEMMA ServingWorkers ==
  ASSUME TypeOK, PoolComplete, threads_keepalive, caller # "Init", NEW w \in Workers
  PROVE  pc[w] = "SemBlocked" \/ w \in Awake
BY DEF TypeOK, WorkerPlaces, PoolComplete, Awake

\* Every step keeps the pool complete.
LEMMA PoolCompleteStep == TypeInv /\ PoolComplete /\ [Next]_vars => PoolComplete'
<1> SUFFICES ASSUME TypeInv, PoolComplete, [Next]_vars PROVE PoolComplete'
  OBVIOUS
<1> USE DEF TypeInv, TypeOK, WorkerPlaces, PoolComplete
<1>1. ASSUME NEW w \in Workers, CreateThread(w) PROVE PoolComplete'
  BY <1>1 DEF CreateThread
<1>2. CASE WaitTest
  BY <1>2 DEF WaitTest
<1>3. CASE DestroyPolls
  BY <1>3, BroadcastMovesBlocked DEF DestroyPolls
<1>4. CASE DestroyFrees
  BY <1>4 DEF DestroyFrees
<1>5. CASE CallWait
  BY <1>5 DEF CallWait
<1>6. CASE CallDestroy
  BY <1>6 DEF CallDestroy
<1>7. ASSUME NEW w \in Workers, MarkAlive(w) PROVE PoolComplete'
  BY <1>7 DEF MarkAlive
<1>8. ASSUME NEW w \in Workers, LoopTest(w) PROVE PoolComplete'
  BY <1>8 DEF LoopTest
<1>9. ASSUME NEW w \in Workers, SemWait(w) PROVE PoolComplete'
  BY <1>9 DEF SemWait
<1>10. ASSUME NEW w \in Workers, KeepaliveTest(w) PROVE PoolComplete'
  BY <1>10 DEF KeepaliveTest
<1>11. ASSUME NEW w \in Workers, MarkWorking(w) PROVE PoolComplete'
  BY <1>11 DEF MarkWorking
<1>12. ASSUME NEW w \in Workers, PullNothing(w) PROVE PoolComplete'
  BY <1>12 DEF PullNothing
<1>13. ASSUME NEW w \in Workers, PullJob(w) PROVE PoolComplete'
  BY <1>13, PullMoves DEF PullJob
<1>14. ASSUME NEW w \in Workers, JobReturns(w) PROVE PoolComplete'
  BY <1>14 DEF JobReturns
<1>15. ASSUME NEW w \in Workers, MarkIdle(w) PROVE PoolComplete'
  BY <1>15 DEF MarkIdle
<1>16. ASSUME NEW w \in Workers, Leave(w) PROVE PoolComplete'
  BY <1>16 DEF Leave
<1>17. ASSUME NEW w \in Workers, Unlock(w) PROVE PoolComplete'
  BY <1>17 DEF Unlock
<1>18. ASSUME NEW w \in Workers, JobExits(w) PROVE PoolComplete'
  BY <1>18 DEF JobExits
<1>19. ASSUME NEW w \in Workers, JobDestroyPolls(w) PROVE PoolComplete'
  BY <1>19, BroadcastMovesBlocked DEF JobDestroyPolls
<1>20. CASE SpuriousWakeup
  BY <1>20 DEF SpuriousWakeup
<1>21. CASE InitReturns
  BY <1>21, AllAlive DEF InitReturns, Alive, At
<1>22. ASSUME NEW j \in Jobs, AddWork(j) PROVE PoolComplete'
  <2>1. pc' \in AfterSignal(pc) /\ caller = "Idle" /\ UNCHANGED <<caller, threads_keepalive>>
    BY <1>22 DEF AddWork
  <2>2. \A w \in Workers : pc'[w] = pc[w] \/ (pc[w] = "SemBlocked" /\ pc'[w] = "SemWait")
    BY <2>1, SignalMovesBlocked
  <2> QED BY <2>1, <2>2
<1>23. CASE UNCHANGED vars
  BY <1>23 DEF vars
<1> QED
  BY <1>1, <1>2, <1>3, <1>4, <1>5, <1>6, <1>7, <1>8, <1>9, <1>10, <1>11, <1>12, <1>13, <1>14, <1>15, <1>16, <1>17, <1>18, <1>19, <1>20, <1>21, <1>22, <1>23
     DEF Next, WorkerStep, CallerStep, CallerCalls

\* A step that leaves the queue, the semaphore and the pullers alone, and puts no
\* worker to sleep, keeps a worker for every queued job.
LEMMA SameQueuedJobHasWorker ==
  ASSUME QueuedJobHasWorker, UNCHANGED <<queue, has_jobs>>, threads_keepalive' => threads_keepalive,
         \A w \in Workers : pc[w] \in {"KeepaliveTest", "MarkWorking", "Pull"} =>
           pc'[w] \in {"KeepaliveTest", "MarkWorking", "Pull"} \/ (~threads_keepalive')
           \/ queue = <<>>,
         \A w \in Awake : w \in Awake' \/ ~threads_keepalive'
  PROVE  QueuedJobHasWorker'
BY DEF QueuedJobHasWorker

\* Every step keeps a worker for every queued job.
LEMMA QueuedJobStep ==
  TypeInv /\ PoolComplete /\ QueuedJobHasWorker /\ [Next]_vars => QueuedJobHasWorker'
<1> SUFFICES ASSUME TypeInv, PoolComplete, QueuedJobHasWorker, [Next]_vars
             PROVE  QueuedJobHasWorker'
  OBVIOUS
<1> DEFINE Pulling == {"KeepaliveTest", "MarkWorking", "Pull"}
<1>0. TypeOK
  BY DEF TypeInv
<1>1. ASSUME NEW w \in Workers, CreateThread(w) PROVE QueuedJobHasWorker'
  BY <1>0, <1>1, SameQueuedJobHasWorker DEF CreateThread, TypeOK, WorkerPlaces, Awake
<1>2. CASE InitReturns
  BY <1>0, <1>2, SameQueuedJobHasWorker DEF InitReturns, TypeOK, WorkerPlaces, Awake
<1>3. CASE WaitTest
  BY <1>0, <1>3, SameQueuedJobHasWorker DEF WaitTest, TypeOK, WorkerPlaces, Awake
<1>4. CASE CallWait
  BY <1>0, <1>4, SameQueuedJobHasWorker DEF CallWait, TypeOK, WorkerPlaces, Awake
<1>5. CASE CallDestroy
  BY <1>0, <1>5, SameQueuedJobHasWorker DEF CallDestroy, TypeOK, WorkerPlaces, Awake
<1>6. ASSUME NEW w \in Workers, MarkAlive(w) PROVE QueuedJobHasWorker'
  BY <1>0, <1>6, SameQueuedJobHasWorker DEF MarkAlive, TypeOK, WorkerPlaces, Awake
<1>7. ASSUME NEW w \in Workers, LoopTest(w) PROVE QueuedJobHasWorker'
  BY <1>0, <1>7, SameQueuedJobHasWorker DEF LoopTest, TypeOK, WorkerPlaces, Awake
<1>8. ASSUME NEW w \in Workers, KeepaliveTest(w) PROVE QueuedJobHasWorker'
  BY <1>0, <1>8, SameQueuedJobHasWorker DEF KeepaliveTest, TypeOK, WorkerPlaces, Awake
<1>9. ASSUME NEW w \in Workers, MarkWorking(w) PROVE QueuedJobHasWorker'
  BY <1>0, <1>9, SameQueuedJobHasWorker DEF MarkWorking, TypeOK, WorkerPlaces, Awake
<1>10. ASSUME NEW w \in Workers, PullNothing(w) PROVE QueuedJobHasWorker'
  BY <1>0, <1>10, SameQueuedJobHasWorker DEF PullNothing, TypeOK, WorkerPlaces, Awake
<1>11. ASSUME NEW w \in Workers, JobReturns(w) PROVE QueuedJobHasWorker'
  BY <1>0, <1>11, SameQueuedJobHasWorker DEF JobReturns, TypeOK, WorkerPlaces, Awake
<1>12. ASSUME NEW w \in Workers, MarkIdle(w) PROVE QueuedJobHasWorker'
  BY <1>0, <1>12, SameQueuedJobHasWorker DEF MarkIdle, TypeOK, WorkerPlaces, Awake
<1>13. ASSUME NEW w \in Workers, Leave(w) PROVE QueuedJobHasWorker'
  BY <1>0, <1>13, SameQueuedJobHasWorker DEF Leave, TypeOK, WorkerPlaces, Awake
<1>14. ASSUME NEW w \in Workers, Unlock(w) PROVE QueuedJobHasWorker'
  BY <1>0, <1>14, SameQueuedJobHasWorker DEF Unlock, TypeOK, WorkerPlaces, Awake
<1>15. ASSUME NEW w \in Workers, JobExits(w) PROVE QueuedJobHasWorker'
  BY <1>0, <1>15, SameQueuedJobHasWorker DEF JobExits, TypeOK, WorkerPlaces, Awake
<1>16. CASE SpuriousWakeup
  BY <1>0, <1>16, SameQueuedJobHasWorker DEF SpuriousWakeup, TypeOK, WorkerPlaces, Awake
<1>17. CASE UNCHANGED vars
  BY <1>17, SameQueuedJobHasWorker DEF vars, Awake
<1>18. CASE DestroyFrees
  BY <1>18 DEF DestroyFrees, QueuedJobHasWorker
<1>19. CASE DestroyPolls
  BY <1>0, <1>19, BroadcastMovesBlocked DEF DestroyPolls, QueuedJobHasWorker, TypeOK, WorkerPlaces, Awake
<1>20. ASSUME NEW w \in Workers, JobDestroyPolls(w) PROVE QueuedJobHasWorker'
  BY <1>0, <1>20, BroadcastMovesBlocked
     DEF JobDestroyPolls, PoolComplete, QueuedJobHasWorker
<1>21. ASSUME NEW w \in Workers, SemWait(w) PROVE QueuedJobHasWorker'
  <2>1. CASE has_jobs = 1
    BY <1>0, <1>21, <2>1 DEF SemWait, QueuedJobHasWorker, TypeOK
  <2>2. CASE has_jobs # 1
    BY <1>0, <1>21, <2>2 DEF SemWait, QueuedJobHasWorker, TypeOK
  <2> QED BY <2>1, <2>2
<1>22. ASSUME NEW w \in Workers, PullJob(w) PROVE QueuedJobHasWorker'
  <2>1. CASE Len(queue) > 1
    BY <1>0, <1>22, <2>1, PullMoves DEF PullJob, RepostIfMore, QueuedJobHasWorker, Awake
  <2>2. CASE ~(Len(queue) > 1)
    BY <1>0, <1>22, <2>2 DEF PullJob, QueuedJobHasWorker, TypeOK
  <2> QED BY <2>1, <2>2
<1>23. ASSUME NEW j \in Jobs, AddWork(j) PROVE QueuedJobHasWorker'
  <2> SUFFICES ASSUME threads_keepalive PROVE has_jobs' = 1 /\ Awake' # {}
    BY <1>23 DEF AddWork, QueuedJobHasWorker
  <2>1. pc' \in AfterSignal(pc) /\ has_jobs' = 1 /\ caller = "Idle"
    BY <1>23 DEF AddWork
  <2>2. PICK w \in Workers : pc'[w] # "SemBlocked"
    BY <1>0, <2>1, WorkersExist, SignalLeavesOneAwake DEF TypeOK
  <2>3. pc[w] = "SemBlocked" \/ w \in Awake
    BY <1>0, <2>1, ServingWorkers
  <2>4. pc'[w] = pc[w] \/ (pc[w] = "SemBlocked" /\ pc'[w] = "SemWait")
    BY <1>0, <2>1, SignalMovesBlocked DEF TypeOK
  <2> QED BY <2>1, <2>2, <2>3, <2>4 DEF Awake
<1> QED
  BY <1>1, <1>2, <1>3, <1>4, <1>5, <1>6, <1>7, <1>8, <1>9, <1>10, <1>11, <1>12, <1>13, <1>14, <1>15, <1>16, <1>17, <1>18, <1>19, <1>20, <1>21, <1>22, <1>23
     DEF Next, WorkerStep, CallerStep, CallerCalls

\* Every step leaves a sleeping caller something to be woken by.
LEMMA SleeperStep ==
  TypeInv /\ SleeperHasSignaller /\ [Next]_vars => SleeperHasSignaller'
<1> SUFFICES ASSUME TypeInv, SleeperHasSignaller, [Next]_vars PROVE SleeperHasSignaller'
  OBVIOUS
<1>0. TypeOK /\ CountersExact
  BY DEF TypeInv
<1> USE DEF SleeperHasSignaller, WorkOutstanding, counters
<1>1. ASSUME NEW w \in Workers, CreateThread(w) PROVE SleeperHasSignaller'
  BY <1>1 DEF CreateThread
<1>2. CASE InitReturns
  BY <1>2 DEF InitReturns
<1>3. CASE WaitTest
  BY <1>3 DEF WaitTest
<1>4. CASE DestroyPolls
  BY <1>4 DEF DestroyPolls
<1>5. CASE DestroyFrees
  BY <1>5 DEF DestroyFrees
<1>6. CASE CallWait
  BY <1>6 DEF CallWait
<1>7. CASE CallDestroy
  BY <1>7 DEF CallDestroy
<1>8. ASSUME NEW w \in Workers, MarkAlive(w) PROVE SleeperHasSignaller'
  BY <1>8 DEF MarkAlive
<1>9. ASSUME NEW w \in Workers, LoopTest(w) PROVE SleeperHasSignaller'
  BY <1>9 DEF LoopTest
<1>10. ASSUME NEW w \in Workers, SemWait(w) PROVE SleeperHasSignaller'
  BY <1>10 DEF SemWait
<1>11. ASSUME NEW w \in Workers, KeepaliveTest(w) PROVE SleeperHasSignaller'
  BY <1>11 DEF KeepaliveTest
<1>12. ASSUME NEW w \in Workers, PullNothing(w) PROVE SleeperHasSignaller'
  BY <1>12 DEF PullNothing
<1>13. ASSUME NEW w \in Workers, JobReturns(w) PROVE SleeperHasSignaller'
  BY <1>13 DEF JobReturns
<1>14. ASSUME NEW w \in Workers, Leave(w) PROVE SleeperHasSignaller'
  BY <1>14 DEF Leave
<1>15. ASSUME NEW w \in Workers, Unlock(w) PROVE SleeperHasSignaller'
  BY <1>15 DEF Unlock
<1>16. ASSUME NEW w \in Workers, JobExits(w) PROVE SleeperHasSignaller'
  BY <1>16 DEF JobExits
<1>17. ASSUME NEW w \in Workers, JobDestroyPolls(w) PROVE SleeperHasSignaller'
  BY <1>17 DEF JobDestroyPolls
<1>18. CASE SpuriousWakeup
  BY <1>18 DEF SpuriousWakeup
<1>19. ASSUME NEW w \in Workers, MarkWorking(w) PROVE SleeperHasSignaller'
  BY <1>0, <1>19 DEF MarkWorking, TypeOK
<1>20. ASSUME NEW w \in Workers, MarkIdle(w) PROVE SleeperHasSignaller'
  BY <1>0, <1>20 DEF MarkIdle, TypeOK
<1>21. ASSUME NEW w \in Workers, PullJob(w) PROVE SleeperHasSignaller'
  <2>1. w \in Busy /\ UNCHANGED <<caller, num_threads_working>>
    BY <1>21 DEF PullJob, Busy
  <2> QED BY <1>0, <2>1, BusyIsCounted
<1>22. ASSUME NEW j \in Jobs, AddWork(j) PROVE SleeperHasSignaller'
  BY <1>22 DEF AddWork
<1>23. CASE UNCHANGED vars
  BY <1>23 DEF vars
<1> QED
  BY <1>1, <1>2, <1>3, <1>4, <1>5, <1>6, <1>7, <1>8, <1>9, <1>10, <1>11, <1>12, <1>13, <1>14, <1>15, <1>16, <1>17, <1>18, <1>19, <1>20, <1>21, <1>22, <1>23
     DEF Next, WorkerStep, CallerStep, CallerCalls

LEMMA WakeCorrect == Spec => []WakeInv
<1>1. Init => WakeInv
  BY DEF Init, WakeInv, PoolComplete, QueuedJobHasWorker, SleeperHasSignaller
<1>2. TypeInv /\ WakeInv /\ [Next]_vars => WakeInv'
  BY PoolCompleteStep, QueuedJobStep, SleeperStep DEF WakeInv
<1>3. Spec => []TypeInv
  BY TypeInvInit, TypeInvStep, PTL DEF Spec
<1> QED BY <1>1, <1>2, <1>3, PTL DEF Spec

\* No lost wakeup in the pool: a queued job has a worker on its way to it, though jobqueue_pull
\* and the semaphore pass on one signal at a time (thpool.c:486-511, 564-574).
THEOREM NoLostJob == Spec => []QueuedJobHasWorker
BY WakeCorrect, PTL DEF WakeInv

\* No lost wakeup in thpool_wait: while its caller sleeps somebody is left to signal it
\* (thpool.c:222-228, 388-394).
THEOREM NoLostWakeup == Spec => []SleeperHasSignaller
BY WakeCorrect, PTL DEF WakeInv

-----------------------------------------------------------------------------
(* The pool implements the barrier.                                        *)

\* When no thread is alive no job is running.
LEMMA NobodyRuns ==
  ASSUME TypeOK, CountersExact, JobsAccounted, num_threads_alive = 0, NEW j \in Jobs
  PROVE  jobs[j] # "running"
<1>1. Alive = {}
  BY CountedFinite, FS_EmptySet DEF CountersExact
<1>2. \A w \in Workers : holding[w] = NoJob
  BY <1>1 DEF JobsAccounted, Alive
<1> QED BY <1>2, NoJobNotJob DEF JobsAccounted

IInv == TypeOK /\ CountersExact /\ JobsAccounted

\* Every step of the pool is a step of the barrier or changes nothing it shows.
LEMMA BarrierStep == IInv /\ [Next]_vars => [Barrier!Next]_(Barrier!bvars)
<1> SUFFICES ASSUME IInv, [Next]_vars PROVE [Barrier!Next]_(Barrier!bvars)
  OBVIOUS
<1> DEFINE Waiting == caller \in {"WaitTest", "WaitBlocked"}
           Stutter == UNCHANGED jobs /\ Waiting' = Waiting
<1>0. TypeOK /\ CountersExact /\ JobsAccounted /\ IdleMeansDone
  BY IdleFollows DEF IInv
<1>1. Stutter => UNCHANGED Barrier!bvars
  BY DEF Barrier!bvars
<1>2. UNCHANGED <<jobs, caller>> => Stutter
  OBVIOUS
<1>3. ASSUME NEW w \in Workers, CreateThread(w) PROVE Stutter
  BY <1>2, <1>3 DEF CreateThread
<1>4. ASSUME DestroyPolls PROVE Stutter
  BY <1>2, <1>4 DEF DestroyPolls
<1>5. ASSUME NEW w \in Workers, MarkAlive(w) PROVE Stutter
  BY <1>2, <1>5 DEF MarkAlive
<1>6. ASSUME NEW w \in Workers, LoopTest(w) PROVE Stutter
  BY <1>2, <1>6 DEF LoopTest
<1>7. ASSUME NEW w \in Workers, SemWait(w) PROVE Stutter
  BY <1>2, <1>7 DEF SemWait
<1>8. ASSUME NEW w \in Workers, KeepaliveTest(w) PROVE Stutter
  BY <1>2, <1>8 DEF KeepaliveTest
<1>9. ASSUME NEW w \in Workers, MarkWorking(w) PROVE Stutter
  BY <1>2, <1>9 DEF MarkWorking
<1>10. ASSUME NEW w \in Workers, PullNothing(w) PROVE Stutter
  BY <1>2, <1>10 DEF PullNothing
<1>11. ASSUME NEW w \in Workers, Leave(w) PROVE Stutter
  BY <1>2, <1>11 DEF Leave
<1>12. ASSUME NEW w \in Workers, Unlock(w) PROVE Stutter
  BY <1>2, <1>12 DEF Unlock
<1>13. ASSUME NEW w \in Workers, JobExits(w) PROVE Stutter
  BY <1>2, <1>13 DEF JobExits
<1>14. ASSUME NEW w \in Workers, JobDestroyPolls(w) PROVE Stutter
  BY <1>2, <1>14 DEF JobDestroyPolls
<1>15. ASSUME InitReturns PROVE Stutter
  BY <1>15 DEF InitReturns
<1>16. ASSUME CallDestroy PROVE Stutter
  BY <1>16 DEF CallDestroy
<1>17. ASSUME SpuriousWakeup PROVE Stutter
  BY <1>17 DEF SpuriousWakeup
<1>18. ASSUME NEW w \in Workers, MarkIdle(w) PROVE Stutter
  BY <1>18 DEF MarkIdle
<1>19. ASSUME UNCHANGED vars PROVE Stutter
  BY <1>19 DEF vars
<1>20. ASSUME NEW j \in Jobs, AddWork(j) PROVE Barrier!Add(j)
  BY <1>20 DEF AddWork, Barrier!Add, Barrier!Move
<1>21. ASSUME CallWait PROVE Barrier!BeginWait
  BY <1>21 DEF CallWait, Barrier!BeginWait
<1>22. ASSUME WaitTest PROVE Stutter \/ Barrier!EndWait
  <2>1. CASE WorkOutstanding
    BY <1>22, <2>1 DEF WaitTest
  <2>2. CASE ~WorkOutstanding
    BY <1>0, <1>22, <2>2 DEF WaitTest, IdleMeansDone, Barrier!EndWait, Barrier!Outstanding
  <2> QED BY <2>1, <2>2
<1>23. ASSUME NEW w \in Workers, PullJob(w) PROVE \E j \in Jobs : Barrier!Start(j)
  <2>1. /\ Head(queue) \in Jobs /\ jobs[Head(queue)] = "queued"
        /\ jobs' = [jobs EXCEPT ![Head(queue)] = "running"] /\ UNCHANGED caller
    <3>1. queue # <<>> /\ Head(queue) = queue[1] /\ 1 \in DOMAIN queue /\ Head(queue) \in Jobs
      BY <1>0, <1>23 DEF PullJob, TypeOK
    <3> QED BY <1>0, <1>23, <3>1 DEF PullJob, JobsAccounted
  <2> QED BY <2>1 DEF Barrier!Start, Barrier!Move
<1>24. ASSUME NEW w \in Workers, JobReturns(w) PROVE \E j \in Jobs : Barrier!Finish(j)
  <2>1. holding[w] \in Jobs /\ jobs[holding[w]] = "running"
    BY <1>0, <1>24, NoJobNotJob DEF JobReturns, TypeOK, JobsAccounted
  <2> QED BY <1>24, <2>1 DEF JobReturns, Barrier!Finish, Barrier!Move
<1>25. ASSUME DestroyFrees PROVE Barrier!Discard
  BY <1>0, <1>25, NobodyRuns DEF DestroyFrees, Barrier!Discard
<1>26. Stutter \/ Barrier!Next
  BY <1>3, <1>4, <1>5, <1>6, <1>7, <1>8, <1>9, <1>10, <1>11, <1>12, <1>13, <1>14, <1>15, <1>16, <1>17, <1>18, <1>19, <1>20, <1>21, <1>22, <1>23, <1>24, <1>25
     DEF Next, WorkerStep, CallerStep, CallerCalls, Barrier!Next
<1> QED BY <1>1, <1>26

\* The pool implements the barrier: jobs run once, and a wait ends only when nothing
\* that was added is left, whatever the threads and the caller interleave.
THEOREM PoolImplementsBarrier == Spec => Barrier!Spec
<1>1. Init => Barrier!Init
  BY DEF Init, Barrier!Init
<1>2. Spec => []IInv
  BY CountersCorrect, JobsCorrect, PTL DEF IInv
<1> QED BY <1>1, <1>2, BarrierStep, PTL DEF Spec, Barrier!Spec
=============================================================================
