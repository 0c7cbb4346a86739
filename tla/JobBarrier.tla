----------------------------- MODULE JobBarrier -----------------------------
(***************************************************************************)
(* What the thread pool promises to the one thread that uses it: a job     *)
(* that was added is started once and runs to its end, and a wait returns  *)
(* only when nothing that was added is left.  There is no queue, no        *)
(* semaphore and no thread here; ThreadPool implements this module.        *)
(***************************************************************************)

CONSTANT Jobs       \* the jobs the caller may ever add

VARIABLES jobs,     \* what has become of each job
          waiting   \* the caller is inside thpool_wait

bvars == <<jobs, waiting>>

JobStates == {"new", "queued", "running", "done", "dropped"}

Outstanding == {j \in Jobs : jobs[j] \in {"queued", "running"}}

TypeOK == /\ jobs \in [Jobs -> JobStates]
          /\ waiting \in BOOLEAN

Init == /\ jobs = [j \in Jobs |-> "new"]
        /\ waiting = FALSE

Move(j, from, to) == /\ jobs[j] = from
                     /\ jobs' = [jobs EXCEPT ![j] = to]
                     /\ UNCHANGED waiting

Add(j)    == waiting = FALSE /\ Move(j, "new", "queued")
Start(j)  == Move(j, "queued", "running")
Finish(j) == Move(j, "running", "done")

BeginWait == /\ waiting = FALSE
             /\ waiting' = TRUE
             /\ UNCHANGED jobs

EndWait == /\ waiting
           /\ Outstanding = {}
           /\ waiting' = FALSE
           /\ UNCHANGED jobs

\* Destroying the pool discards what no thread has started.
Discard == /\ waiting = FALSE
           /\ \A j \in Jobs : jobs[j] # "running"
           /\ jobs' = [j \in Jobs |-> IF jobs[j] = "queued" THEN "dropped" ELSE jobs[j]]
           /\ UNCHANGED waiting

Next == \/ \E j \in Jobs : Add(j) \/ Start(j) \/ Finish(j)
        \/ BeginWait
        \/ EndWait
        \/ Discard

Spec == Init /\ [][Next]_bvars

\* Every job that was added leaves the pool, and a wait always ends.
FairSpec == /\ Spec
            /\ WF_bvars(EndWait)
            /\ \A j \in Jobs : WF_bvars(Start(j)) /\ WF_bvars(Finish(j))
=============================================================================
