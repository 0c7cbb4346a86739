----------------------------- MODULE ThreadPool -----------------------------
(***************************************************************************)
(* lib/thpool.c: the pool of worker threads that Stronk serves its clients *)
(* with.  One caller (the thread running server_start) adds jobs, waits    *)
(* for all of them and finally destroys the pool; the workers run          *)
(* thread_do.                                                              *)
(*                                                                         *)
(* A step is a critical section of the code, or one access to shared       *)
(* memory outside of any: bsem->mutex and rwmutex are never held across a  *)
(* step, thcount_lock is held across one step only, where the code's last  *)
(* access to the pool is the unlock itself ("Unlock").  The queue is a     *)
(* sequence whose length is jobqueue->len.                                 *)
(***************************************************************************)
EXTENDS Naturals, Sequences, FiniteSets

CONSTANTS
  Workers,      \* the threads thpool_init creates
  Jobs,         \* the jobs the caller may add (bounds the runs)
  NoJob,        \* jobqueue_pull's NULL
  CreateCanFail,\* pthread_create may fail
  JobCanExit    \* a job may call exit(), whose atexit handler destroys the pool

ASSUME WorkersFinite == IsFiniteSet(Workers)
\* init_thread_pooling falls back to 4 threads where no core is detected.
ASSUME WorkersExist == Workers # {}
ASSUME NoJobNotJob == NoJob \notin Jobs
ASSUME EnvironmentIsBoolean == CreateCanFail \in BOOLEAN /\ JobCanExit \in BOOLEAN

VARIABLES
  pc,           \* where each worker is in thread_do
  holding,      \* the job each worker has pulled and not yet finished
  queue,        \* the job queue, front first
  has_jobs,     \* bsem->v
  num_threads_alive,
  num_threads_working,
  threads_keepalive,
  caller,       \* where the calling thread is
  jobs          \* what has become of each job

vars == <<pc, holding, queue, has_jobs, num_threads_alive, num_threads_working,
          threads_keepalive, caller, jobs>>

counters == <<num_threads_alive, num_threads_working>>

WorkerPlaces ==
  {"NotCreated", "CreateFailed", "Starting",
   "LoopTest", "SemWait", "SemBlocked", "KeepaliveTest", "MarkWorking",
   "Pull", "Run", "MarkIdle", "Leave", "Unlock", "Exited", "DestroyFromJob"}

CallerPlaces == {"Init", "Idle", "WaitTest", "WaitBlocked", "Destroy", "Freed"}

JobStates == {"new", "queued", "running", "done", "dropped"}

At(place) == {w \in Workers : pc[w] = place}

\* The workers between num_threads_working++ and num_threads_working--.
Busy == {w \in Workers : pc[w] \in {"Pull", "Run", "MarkIdle", "DestroyFromJob"}}

\* The workers between num_threads_alive++ and num_threads_alive--.
Alive == {w \in Workers : pc[w] \notin {"NotCreated", "CreateFailed", "Starting",
                                        "Unlock", "Exited"}}

\* The workers in thread_do's loop and not blocked on the semaphore.
Awake == {w \in Workers : pc[w] \in {"LoopTest", "SemWait", "KeepaliveTest", "MarkWorking",
                                     "Pull", "Run", "MarkIdle"}}

\* thcount_lock is free: no worker is between its last decrement and its unlock.
CountLockFree == At("Unlock") = {}

-----------------------------------------------------------------------------
(* The binary semaphore: a signal wakes one of the threads blocked in      *)
(* bsem_wait if there is one, a broadcast wakes all; a woken thread tests  *)
(* the value again.                                                        *)

Blocked(p) == {w \in Workers : p[w] = "SemBlocked"}

\* Variant: the post sets the value and wakes nobody.
AfterSignal_Nobody(p) == {p}

\* The places the workers may be in after bsem_post, from the places p.
AfterSignal(p) == IF Blocked(p) = {} THEN {p}
                  ELSE {[p EXCEPT ![w] = "SemWait"] : w \in Blocked(p)}

\* Variant: the broadcast wakes nobody.
AfterBroadcast_Nobody(p) == p

AfterBroadcast(p) == [w \in Workers |-> IF p[w] = "SemBlocked" THEN "SemWait" ELSE p[w]]

-----------------------------------------------------------------------------
Init ==
  /\ pc = [w \in Workers |-> "NotCreated"]
  /\ holding = [w \in Workers |-> NoJob]
  /\ queue = <<>>
  /\ has_jobs = 0
  /\ num_threads_alive = 0
  /\ num_threads_working = 0
  /\ threads_keepalive = TRUE
  /\ caller = "Init"
  /\ jobs = [j \in Jobs |-> "new"]

(* thpool_init: create the threads, then spin until all of them are alive. *)

\* thread_init ignores what pthread_create returns.
CreateThread(w) ==
  /\ caller = "Init"
  /\ pc[w] = "NotCreated"
  /\ \/ pc' = [pc EXCEPT ![w] = "Starting"]
     \/ CreateCanFail /\ pc' = [pc EXCEPT ![w] = "CreateFailed"]
  /\ UNCHANGED <<holding, queue, has_jobs, counters, threads_keepalive, caller, jobs>>

InitReturns ==
  /\ caller = "Init"
  /\ At("NotCreated") = {}
  /\ num_threads_alive = Cardinality(Workers)
  /\ caller' = "Idle"
  /\ UNCHANGED <<pc, holding, queue, has_jobs, counters, threads_keepalive, jobs>>

-----------------------------------------------------------------------------
(* What the caller does between thpool_init and thpool_destroy.            *)

\* jobqueue_push ends with bsem_post.
AddWork(j) ==
  /\ caller = "Idle"
  /\ jobs[j] = "new"
  /\ queue' = Append(queue, j)
  /\ has_jobs' = 1
  /\ pc' \in AfterSignal(pc)
  /\ jobs' = [jobs EXCEPT ![j] = "queued"]
  /\ UNCHANGED <<holding, counters, threads_keepalive, caller>>

CallWait ==
  /\ caller = "Idle"
  /\ caller' = "WaitTest"
  /\ UNCHANGED <<pc, holding, queue, has_jobs, counters, threads_keepalive, jobs>>

\* Variants: one half of the condition is missing.
WorkOutstanding_QueueOnly == Len(queue) > 0
WorkOutstanding_CountOnly == num_threads_working > 0

\* The condition of thpool_wait's loop; len is read without rwmutex.
WorkOutstanding == Len(queue) > 0 \/ num_threads_working > 0

WaitTest ==
  /\ caller = "WaitTest"
  /\ CountLockFree
  /\ caller' = IF WorkOutstanding THEN "WaitBlocked" ELSE "Idle"
  /\ UNCHANGED <<pc, holding, queue, has_jobs, counters, threads_keepalive, jobs>>

\* thpool_destroy, called by the caller's thread.
CallDestroy ==
  /\ caller = "Idle"
  /\ threads_keepalive
  /\ threads_keepalive' = FALSE
  /\ caller' = "Destroy"
  /\ UNCHANGED <<pc, holding, queue, has_jobs, counters, jobs>>

\* Both of its polling loops: wake everyone while a thread is alive.
DestroyPolls ==
  /\ caller = "Destroy"
  /\ num_threads_alive > 0
  /\ has_jobs' = 1
  /\ pc' = AfterBroadcast(pc)
  /\ UNCHANGED <<holding, queue, counters, threads_keepalive, caller, jobs>>

\* num_threads_alive is read without thcount_lock; the pool is freed.
DestroyFrees ==
  /\ caller = "Destroy"
  /\ num_threads_alive = 0
  /\ caller' = "Freed"
  /\ queue' = <<>>
  /\ has_jobs' = 0
  /\ jobs' = [j \in Jobs |-> IF jobs[j] = "queued" THEN "dropped" ELSE jobs[j]]
  /\ UNCHANGED <<pc, holding, counters, threads_keepalive>>

-----------------------------------------------------------------------------
(* thread_do, one action per critical section or shared read.              *)

MarkAlive(w) ==
  /\ pc[w] = "Starting"
  /\ CountLockFree
  /\ num_threads_alive' = num_threads_alive + 1
  /\ pc' = [pc EXCEPT ![w] = "LoopTest"]
  /\ UNCHANGED <<holding, queue, has_jobs, num_threads_working, threads_keepalive, caller, jobs>>

LoopTest(w) ==
  /\ pc[w] = "LoopTest"
  /\ pc' = [pc EXCEPT ![w] = IF threads_keepalive THEN "SemWait" ELSE "Leave"]
  /\ UNCHANGED <<holding, queue, has_jobs, counters, threads_keepalive, caller, jobs>>

\* bsem_wait: take the semaphore, or block on its condition variable.
SemWait(w) ==
  /\ pc[w] = "SemWait"
  /\ pc' = [pc EXCEPT ![w] = IF has_jobs = 1 THEN "KeepaliveTest" ELSE "SemBlocked"]
  /\ has_jobs' = 0
  /\ UNCHANGED <<holding, queue, counters, threads_keepalive, caller, jobs>>

KeepaliveTest(w) ==
  /\ pc[w] = "KeepaliveTest"
  /\ pc' = [pc EXCEPT ![w] = IF threads_keepalive THEN "MarkWorking" ELSE "LoopTest"]
  /\ UNCHANGED <<holding, queue, has_jobs, counters, threads_keepalive, caller, jobs>>

\* Variant: the counter is not raised.
MarkWorking_NoCount(w) ==
  /\ pc[w] = "MarkWorking"
  /\ CountLockFree
  /\ pc' = [pc EXCEPT ![w] = "Pull"]
  /\ UNCHANGED <<holding, queue, has_jobs, counters, threads_keepalive, caller, jobs>>

MarkWorking(w) ==
  /\ pc[w] = "MarkWorking"
  /\ CountLockFree
  /\ num_threads_working' = num_threads_working + 1
  /\ pc' = [pc EXCEPT ![w] = "Pull"]
  /\ UNCHANGED <<holding, queue, has_jobs, num_threads_alive, threads_keepalive, caller, jobs>>

\* Variant: a thread that finds no job goes straight back to its loop.
PullNothing_Continue(w) ==
  /\ pc[w] = "Pull"
  /\ queue = <<>>
  /\ pc' = [pc EXCEPT ![w] = "LoopTest"]
  /\ UNCHANGED <<holding, queue, has_jobs, counters, threads_keepalive, caller, jobs>>

PullNothing(w) ==
  /\ pc[w] = "Pull"
  /\ queue = <<>>
  /\ pc' = [pc EXCEPT ![w] = "MarkIdle"]
  /\ UNCHANGED <<holding, queue, has_jobs, counters, threads_keepalive, caller, jobs>>

\* Variant: jobs left behind are not announced.
RepostIfMore_Never(next) == UNCHANGED has_jobs /\ pc' = next

\* jobqueue_pull posts the semaphore again if it leaves jobs behind.
RepostIfMore(next) ==
  IF Len(queue) > 1 THEN has_jobs' = 1 /\ pc' \in AfterSignal(next)
                    ELSE UNCHANGED has_jobs /\ pc' = next

\* Variant: the last job stays linked in the queue.
PullJob_KeepLast(w) ==
  /\ pc[w] = "Pull"
  /\ queue # <<>>
  /\ holding' = [holding EXCEPT ![w] = Head(queue)]
  /\ queue' = IF Len(queue) = 1 THEN queue ELSE Tail(queue)
  /\ jobs' = [jobs EXCEPT ![Head(queue)] = "running"]
  /\ RepostIfMore([pc EXCEPT ![w] = "Run"])
  /\ UNCHANGED <<counters, threads_keepalive, caller>>

PullJob(w) ==
  /\ pc[w] = "Pull"
  /\ queue # <<>>
  /\ holding' = [holding EXCEPT ![w] = Head(queue)]
  /\ queue' = Tail(queue)
  /\ jobs' = [jobs EXCEPT ![Head(queue)] = "running"]
  /\ RepostIfMore([pc EXCEPT ![w] = "Run"])
  /\ UNCHANGED <<counters, threads_keepalive, caller>>

JobReturns(w) ==
  /\ pc[w] = "Run"
  /\ jobs' = [jobs EXCEPT ![holding[w]] = "done"]
  /\ holding' = [holding EXCEPT ![w] = NoJob]
  /\ pc' = [pc EXCEPT ![w] = "MarkIdle"]
  /\ UNCHANGED <<queue, has_jobs, counters, threads_keepalive, caller>>

\* Variant: the counter is tested before it is lowered.
MarkIdle_TestFirst(w) ==
  /\ pc[w] = "MarkIdle"
  /\ CountLockFree
  /\ num_threads_working' = num_threads_working - 1
  /\ caller' = IF num_threads_working = 0 /\ caller = "WaitBlocked" THEN "WaitTest" ELSE caller
  /\ pc' = [pc EXCEPT ![w] = "LoopTest"]
  /\ UNCHANGED <<holding, queue, has_jobs, num_threads_alive, threads_keepalive, jobs>>

\* The last worker to go idle signals threads_all_idle.
MarkIdle(w) ==
  /\ pc[w] = "MarkIdle"
  /\ CountLockFree
  /\ num_threads_working' = num_threads_working - 1
  /\ caller' = IF num_threads_working = 1 /\ caller = "WaitBlocked" THEN "WaitTest" ELSE caller
  /\ pc' = [pc EXCEPT ![w] = "LoopTest"]
  /\ UNCHANGED <<holding, queue, has_jobs, num_threads_alive, threads_keepalive, jobs>>

Leave(w) ==
  /\ pc[w] = "Leave"
  /\ CountLockFree
  /\ num_threads_alive' = num_threads_alive - 1
  /\ pc' = [pc EXCEPT ![w] = "Unlock"]
  /\ UNCHANGED <<holding, queue, has_jobs, num_threads_working, threads_keepalive, caller, jobs>>

\* The thread's last access to the pool: unlocking thcount_lock inside it.
Unlock(w) ==
  /\ pc[w] = "Unlock"
  /\ pc' = [pc EXCEPT ![w] = "Exited"]
  /\ UNCHANGED <<holding, queue, has_jobs, counters, threads_keepalive, caller, jobs>>

-----------------------------------------------------------------------------
(* connection_close exits the process when it misses a client; the atexit  *)
(* handler then calls thpool_destroy on the worker that runs the job.      *)

JobExits(w) ==
  /\ JobCanExit
  /\ pc[w] = "Run"
  /\ threads_keepalive
  /\ threads_keepalive' = FALSE
  /\ pc' = [pc EXCEPT ![w] = "DestroyFromJob"]
  /\ UNCHANGED <<holding, queue, has_jobs, counters, caller, jobs>>

JobDestroyPolls(w) ==
  /\ pc[w] = "DestroyFromJob"
  /\ num_threads_alive > 0
  /\ has_jobs' = 1
  /\ pc' = AfterBroadcast(pc)
  /\ UNCHANGED <<holding, queue, counters, threads_keepalive, caller, jobs>>

\* pthread_cond_wait may return with nobody having signalled.
SpuriousWakeup ==
  /\ \/ \E w \in Workers : /\ pc[w] = "SemBlocked"
                           /\ pc' = [pc EXCEPT ![w] = "SemWait"]
                           /\ UNCHANGED caller
     \/ /\ caller = "WaitBlocked"
        /\ caller' = "WaitTest"
        /\ UNCHANGED pc
  /\ UNCHANGED <<holding, queue, has_jobs, counters, threads_keepalive, jobs>>

-----------------------------------------------------------------------------
WorkerStep(w) ==
  \/ MarkAlive(w) \/ LoopTest(w) \/ SemWait(w) \/ KeepaliveTest(w) \/ MarkWorking(w)
  \/ PullNothing(w) \/ PullJob(w) \/ JobReturns(w) \/ MarkIdle(w)
  \/ Leave(w) \/ Unlock(w) \/ JobDestroyPolls(w)

\* What the calling thread does once it is inside a function of the pool.
CallerStep == \/ \E w \in Workers : CreateThread(w)
              \/ InitReturns \/ WaitTest \/ DestroyPolls \/ DestroyFrees

CallerCalls == CallWait \/ CallDestroy \/ \E j \in Jobs : AddWork(j)

Next == \/ \E w \in Workers : WorkerStep(w) \/ JobExits(w)
        \/ CallerStep
        \/ CallerCalls
        \/ SpuriousWakeup

Spec == Init /\ [][Next]_vars

(* Every thread that can run gets to run, and every job returns; nothing   *)
(* is assumed about what the caller calls or about spurious wakeups.       *)
FairSpec == /\ Spec
            /\ WF_vars(CallerStep)
            /\ \A w \in Workers : WF_vars(WorkerStep(w))

-----------------------------------------------------------------------------
TypeOK ==
  /\ pc \in [Workers -> WorkerPlaces]
  /\ holding \in [Workers -> Jobs \cup {NoJob}]
  /\ queue \in Seq(Jobs)
  /\ has_jobs \in {0, 1}
  /\ num_threads_alive \in Nat
  /\ num_threads_working \in Nat
  /\ threads_keepalive \in BOOLEAN
  /\ caller \in CallerPlaces
  /\ jobs \in [Jobs -> JobStates]

\* num_threads_working and num_threads_alive are the threads they claim to count,
\* whatever order the threads pass their critical sections in (thread_do).
CountersExact ==
  /\ num_threads_working = Cardinality(Busy)
  /\ num_threads_alive = Cardinality(Alive)

\* A job is in the queue, or in exactly one worker's hands, or in neither,
\* as its history says: jobqueue_pull hands no job to two threads and loses none.
JobsAccounted ==
  /\ \A j \in Jobs : jobs[j] = "queued" <=> \E i \in DOMAIN queue : queue[i] = j
  /\ \A i, k \in DOMAIN queue : queue[i] = queue[k] => i = k
  /\ \A j \in Jobs : jobs[j] = "running" <=> \E w \in Workers : holding[w] = j
  /\ \A v, w \in Workers : holding[v] = holding[w] /\ holding[v] # NoJob => v = w
  /\ \A w \in Workers : holding[w] # NoJob <=> pc[w] \in {"Run", "DestroyFromJob"}

\* The condition thpool_wait returns on (thpool.c:224), read partly without
\* rwmutex, is false only when no added job is left.
IdleMeansDone ==
  ~WorkOutstanding => \A j \in Jobs : jobs[j] \notin {"queued", "running"}

\* Once thpool_init has returned every worker is in thread_do, and none leaves it
\* before the pool is being destroyed; nothing is queued before.
PoolComplete ==
  /\ \A w \in Workers : pc[w] \in {"NotCreated", "CreateFailed", "Starting"} => caller = "Init"
  /\ \A w \in Workers : pc[w] \in {"Leave", "Unlock", "Exited", "DestroyFromJob"}
                          => ~threads_keepalive
  /\ caller = "Init" => queue = <<>>

\* No lost wakeup: while the pool serves, a queued job always has a worker that is
\* about to pull, or the semaphore is up and a worker is awake to take it (bsem_post
\* wakes one thread only, and the semaphore cannot count the jobs).
QueuedJobHasWorker ==
  queue # <<>> /\ threads_keepalive =>
    \/ has_jobs = 1 /\ Awake # {}
    \/ \E w \in Workers : pc[w] \in {"KeepaliveTest", "MarkWorking", "Pull"}

\* No lost wakeup on the other side: the caller sleeps in thpool_wait only while
\* a worker is busy or has a job still to pull (thpool.c:225, 391).
SleeperHasSignaller == caller = "WaitBlocked" => WorkOutstanding

\* A wait ends (thpool.h: "Will wait for all jobs ... to finish").
WaitReturns == caller = "WaitTest" ~> caller = "Idle"

\* Destroying the pool ends (thpool.h: "to free up memory").
DestroyReturns == ~threads_keepalive ~> caller = "Freed"

\* The abstract pool: the caller's view of the jobs.
Barrier == INSTANCE JobBarrier WITH waiting <- caller \in {"WaitTest", "WaitBlocked"}
ImplementsBarrier == Barrier!Spec
ImplementsBarrierFair == Barrier!FairSpec
=============================================================================
