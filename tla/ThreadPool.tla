----------------------------- MODULE ThreadPool -----------------------------
(***************************************************************************)
(* include/threading/thread_pool.h: a fixed set of worker threads that     *)
(* execute the same list of jobs once per round.  mac_layer uses one pool  *)
(* for its two resource grids and ue_handler another with one job per UE;  *)
(* the main thread alternates do_jobs() and wait_threads().                *)
(*                                                                         *)
(* do_jobs() does not take lock_, so its three stores to isRunning, index  *)
(* and busy race with the workers: `stored' below is the set of stores     *)
(* already visible, and they may become visible in any order.  A worker    *)
(* evaluates the predicate of condVar_ and blocks in two steps, as         *)
(* condition_variable::wait does after the caller's own test; a            *)
(* notify_all() between the two wakes nobody.  The read and the write of   *)
(* index++ and of busy-- are separate steps for the same reason.           *)
(*                                                                         *)
(* jobs_ and goal are changed together under lock_ by do_job, so jobs_ is  *)
(* represented by its length, goal.                                        *)
(***************************************************************************)
EXTENDS Integers

CONSTANTS
    Workers,      \* threads_, created by init()
    NumJobs,      \* the number of do_job() calls before the first round
    FirstIndex,   \* what the uninitialised int `index' may hold at start
    Spurious      \* TRUE: condition variables may wake a thread spuriously

ASSUME WorkersAssumption == "nobody" \notin Workers /\ "main" \notin Workers
ASSUME NumJobsAssumption == NumJobs \in Nat
ASSUME FirstIndexAssumption == FirstIndex \subseteq Int
ASSUME SpuriousAssumption == Spurious \in BOOLEAN

VARIABLES
    isRunning, index, goal, busy, shutdown,  \* the members of thread_pool
    lock,       \* who holds lock_: a worker, "main" or "nobody"
    main,       \* where the main thread is
    stored,     \* the stores of do_jobs() that have become visible
    worker,     \* where each worker is
    job,        \* the job each worker holds (0: none yet); jobs_[job - 1]
    seen,       \* the value of busy each worker has read for its busy--
    started,    \* history: jobs started in this round
    finished    \* history: jobs that have returned in this round

pool == <<isRunning, index, goal, busy, shutdown>>
history == <<started, finished>>
poolVars == <<isRunning, index, goal, busy, shutdown, lock, main, stored,
              worker, job, seen, started, finished>>

Jobs == 1..NumJobs
Stores == {"isRunning", "index", "busy"}

MainAt == {"setup", "ready", "storing", "wait", "asleep", "joining", "end"}
WorkerAt == {"start", "check", "take", "block", "asleep", "run", "dec",
             "write", "exit"}

PoolInit ==
    /\ isRunning = FALSE
    /\ index \in FirstIndex
    /\ goal = 0
    /\ busy = 0
    /\ shutdown = FALSE
    /\ lock = "nobody"
    /\ main = "setup"
    /\ stored = {}
    /\ worker = [w \in Workers |-> "start"]
    /\ job = [w \in Workers |-> 0]
    /\ seen = [w \in Workers |-> 0]
    /\ started = {}
    /\ finished = {}

-----------------------------------------------------------------------------
(* The main thread.                                                        *)

(* do_job(), called while the pool is set up *)
AddJob ==
    /\ main = "setup"
    /\ lock = "nobody"
    /\ goal < NumJobs
    /\ goal' = goal + 1
    /\ UNCHANGED <<isRunning, index, busy, shutdown, lock, main, stored,
                   worker, job, seen, history>>

SetupDone ==
    /\ main = "setup"
    /\ goal = NumJobs
    /\ main' = "ready"
    /\ UNCHANGED <<pool, lock, stored, worker, job, seen, history>>

(* do_jobs(): the test of isRunning, without lock_ *)
BeginRound ==
    /\ main = "ready"
    /\ main' = IF isRunning THEN "wait" ELSE "storing"
    /\ stored' = {}
    /\ started' = {}
    /\ finished' = {}
    /\ UNCHANGED <<pool, lock, worker, job, seen>>

(* do_jobs(): one of its three stores becomes visible *)
Store(field) ==
    /\ main = "storing"
    /\ field \notin stored
    /\ stored' = stored \cup {field}
    /\ isRunning' = IF field = "isRunning" THEN TRUE ELSE isRunning
    /\ index' = IF field = "index" THEN 0 ELSE index
    /\ busy' = IF field = "busy" THEN goal ELSE busy
    /\ UNCHANGED <<goal, shutdown, lock, main, worker, job, seen, history>>

Woken == [w \in Workers |-> IF worker[w] = "asleep" THEN "start" ELSE worker[w]]

\* fault: nobody is notified
NotifyNobody ==
    /\ main = "storing"
    /\ stored = Stores
    /\ main' = "wait"
    /\ UNCHANGED <<pool, lock, stored, worker, job, seen, history>>

(* do_jobs(): condVar_.notify_all() wakes only the threads already blocked *)
Notify ==
    /\ main = "storing"
    /\ stored = Stores
    /\ worker' = Woken
    /\ main' = "wait"
    /\ UNCHANGED <<pool, lock, stored, job, seen, history>>

\* fault: wait_threads() waits once, without a predicate to test again
WaitOnce ==
    /\ main = "wait"
    /\ lock = "nobody"
    /\ \/ main' = "ready"
       \/ isRunning /\ main' = "asleep"
    /\ UNCHANGED <<pool, lock, stored, worker, job, seen, history>>

(* wait_threads(): return, or block on condFinished_ (which releases lock_) *)
WaitThreads ==
    /\ main = "wait"
    /\ lock = "nobody"
    /\ main' = IF ~isRunning \/ goal = 0 THEN "ready" ELSE "asleep"
    /\ UNCHANGED <<pool, lock, stored, worker, job, seen, history>>

\* fault: the destructor does not notify the workers
DestroyQuietly ==
    /\ main = "ready"
    /\ lock = "nobody"
    /\ shutdown' = TRUE
    /\ main' = "joining"
    /\ UNCHANGED <<isRunning, index, goal, busy, lock, stored, worker, job, seen, history>>

(* ~thread_pool(): set shutdown_ and notify under lock_, then join *)
Destroy ==
    /\ main = "ready"
    /\ lock = "nobody"
    /\ shutdown' = TRUE
    /\ worker' = Woken
    /\ main' = "joining"
    /\ UNCHANGED <<isRunning, index, goal, busy, lock, stored, job, seen, history>>

Join ==
    /\ main = "joining"
    /\ \A w \in Workers : worker[w] = "exit"
    /\ main' = "end"
    /\ UNCHANGED <<pool, lock, stored, worker, job, seen, history>>

-----------------------------------------------------------------------------
(* thread_entry                                                            *)

\* fault: off by one past the end of jobs_
AvailablePastEnd == isRunning /\ index <= goal /\ goal # 0

Available == isRunning /\ index < goal /\ goal # 0

Acquire(w) ==
    /\ worker[w] = "start"
    /\ lock = "nobody"
    /\ lock' = w
    /\ worker' = [worker EXCEPT ![w] = "check"]
    /\ UNCHANGED <<pool, main, stored, job, seen, history>>

(* the loop over the predicate found a job: job = jobs_[index] *)
Pick(w) ==
    /\ worker[w] = "check"
    /\ Available
    /\ job' = [job EXCEPT ![w] = index + 1]
    /\ worker' = [worker EXCEPT ![w] = "take"]
    /\ UNCHANGED <<pool, lock, main, stored, seen, history>>

(* index++, and the end of the critical section: the job starts *)
Take(w) ==
    /\ worker[w] = "take"
    /\ index' = job[w]
    /\ started' = started \cup {job[w]}
    /\ worker' = [worker EXCEPT ![w] = "run"]
    /\ lock' = "nobody"
    /\ UNCHANGED <<isRunning, goal, busy, shutdown, main, stored, job, seen, finished>>

(* no job and no shutdown: the worker is about to call condVar_.wait *)
Decline(w) ==
    /\ worker[w] = "check"
    /\ ~Available
    /\ ~shutdown
    /\ worker' = [worker EXCEPT ![w] = "block"]
    /\ UNCHANGED <<pool, lock, main, stored, job, seen, history>>

(* condVar_.wait: enqueue on the condition variable and release lock_ *)
Block(w) ==
    /\ worker[w] = "block"
    /\ worker' = [worker EXCEPT ![w] = "asleep"]
    /\ lock' = "nobody"
    /\ UNCHANGED <<pool, main, stored, job, seen, history>>

(* no job and shutdown: leave thread_entry *)
Leave(w) ==
    /\ worker[w] = "check"
    /\ ~Available
    /\ shutdown
    /\ worker' = [worker EXCEPT ![w] = "exit"]
    /\ lock' = "nobody"
    /\ UNCHANGED <<pool, main, stored, job, seen, history>>

(* the job has returned; lock_ is taken again and busy is read *)
Return(w) ==
    /\ worker[w] = "run"
    /\ lock = "nobody"
    /\ lock' = w
    /\ finished' = finished \cup {job[w]}
    /\ worker' = [worker EXCEPT ![w] = "dec"]
    /\ UNCHANGED <<pool, main, stored, job, seen, started>>

ReadBusy(w) ==
    /\ worker[w] = "dec"
    /\ seen' = [seen EXCEPT ![w] = busy]
    /\ worker' = [worker EXCEPT ![w] = "write"]
    /\ UNCHANGED <<pool, lock, main, stored, job, history>>

\* fault: the caller is not notified when the round ends
WriteBusyQuietly(w) ==
    /\ worker[w] = "write"
    /\ busy' = seen[w] - 1
    /\ isRunning' = IF busy' = 0 THEN FALSE ELSE isRunning
    /\ worker' = [worker EXCEPT ![w] = "start"]
    /\ lock' = "nobody"
    /\ UNCHANGED <<index, goal, shutdown, main, stored, job, seen, history>>

(* busy--; the worker that brings it to 0 ends the round and wakes main *)
WriteBusy(w) ==
    /\ worker[w] = "write"
    /\ busy' = seen[w] - 1
    /\ isRunning' = IF busy' = 0 THEN FALSE ELSE isRunning
    /\ main' = IF busy' = 0 /\ main = "asleep" THEN "wait" ELSE main
    /\ worker' = [worker EXCEPT ![w] = "start"]
    /\ lock' = "nobody"
    /\ UNCHANGED <<index, goal, shutdown, stored, job, seen, history>>

(* a wake-up nobody asked for *)
WakeWorker(w) ==
    /\ Spurious
    /\ worker[w] = "asleep"
    /\ worker' = [worker EXCEPT ![w] = "start"]
    /\ UNCHANGED <<pool, lock, main, stored, job, seen, history>>

WakeMain ==
    /\ Spurious
    /\ main = "asleep"
    /\ main' = "wait"
    /\ UNCHANGED <<pool, lock, stored, worker, job, seen, history>>

(* the pool is gone *)
Terminated == main = "end" /\ UNCHANGED poolVars

MainStep ==
    \/ AddJob
    \/ SetupDone
    \/ BeginRound
    \/ \E field \in Stores : Store(field)
    \/ Notify
    \/ WaitThreads
    \/ Destroy
    \/ Join

WorkerStep(w) ==
    \/ Acquire(w)
    \/ Pick(w)
    \/ Take(w)
    \/ Decline(w)
    \/ Block(w)
    \/ Leave(w)
    \/ Return(w)
    \/ ReadBusy(w)
    \/ WriteBusy(w)

PoolNext ==
    \/ MainStep
    \/ \E w \in Workers : WorkerStep(w) \/ WakeWorker(w)
    \/ WakeMain
    \/ Terminated

Safety == PoolInit /\ [][PoolNext]_poolVars

(* Every runnable thread is scheduled again; jobs terminate; spurious       *)
(* wake-ups do not go on for ever (lock_ is not fair, and a worker that     *)
(* keeps waking up for nothing could keep the others from it).              *)
Fairness ==
    /\ WF_poolVars(MainStep)
    /\ \A w \in Workers : WF_poolVars(WorkerStep(w))
    /\ <>[][~WakeMain /\ \A w \in Workers : ~WakeWorker(w)]_poolVars

PoolSpec == Safety /\ Fairness
-----------------------------------------------------------------------------
(* The type invariant; jobs_ is never indexed past its end, nor before its  *)
(* beginning unless index, which is not initialised, was negative.          *)
PoolTypeOK ==
    /\ isRunning \in BOOLEAN
    /\ index \in Nat
    /\ goal \in 0..NumJobs
    /\ busy \in Int
    /\ shutdown \in BOOLEAN
    /\ lock \in Workers \cup {"main", "nobody"}
    /\ main \in MainAt
    /\ stored \subseteq Stores
    /\ worker \in [Workers -> WorkerAt]
    /\ job \in [Workers -> 0..NumJobs]
    /\ seen \in [Workers -> Int]
    /\ started \subseteq Jobs
    /\ finished \subseteq Jobs

(* do_jobs/wait_threads are the barrier the callers assume: every job of    *)
(* the round runs, once, and wait_threads() does not return before that.    *)
Round == INSTANCE JobRound WITH
            inRound <- main \in {"storing", "wait", "asleep"}

BarrierRound == Round!Spec

(* A round in which some worker has still to look at the pool when do_jobs() *)
(* has done its stores and its notification terminates: the wake-up that    *)
(* may be lost is one that finds no worker blocked and none about to check. *)
SomeAwake == \E w \in Workers : worker[w] = "start"

AwakeRoundEnds ==
    (main = "wait" /\ isRunning /\ index = 0 /\ SomeAwake) ~> main = "ready"

(* The destructor terminates: every worker sees shutdown_ and is joined.    *)
DestructorEnds == (main = "joining") ~> (main = "end")

(* do_job(), "Place a job on the queu and unblock a thread": once a round   *)
(* is started every placed job gets a thread.                               *)
PlacedJobGetsThread == (main = "storing") ~> (started = Jobs)
=============================================================================
