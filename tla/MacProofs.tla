----------------------------- MODULE MacProofs -----------------------------
(* Theorems about the two parts of the MAC layer, the thread pool that it   *)
(* computes its metrics with and its resource grid.                         *)
(*                                                                          *)
(* ThreadPool, for any set of workers and any number of jobs, with or       *)
(* without spurious wake-ups: the members keep their types if index does    *)
(* not start below 0, and a pool whose index starts at or past the end of   *)
(* its jobs is a barrier.  (index is not initialised; a smaller value lets  *)
(* a worker take a job before do_jobs() has reset it.)                      *)
(*                                                                          *)
(* MacGrid, for every number of UEs, resource block groups and slots, every *)
(* TDD configuration, and every backlog, rate and metric: what the          *)
(* scheduler gives to whom, and which symbols a direction uses.             *)
EXTENDS ThreadPool, MacGrid, FiniteSetTheorems, WellFoundedInduction, TLAPS

\* a worker has a job, and has not reported it yet
Working == {"take", "run", "dec", "write"}
\* a worker holds lock_
Holding == {"check", "take", "block", "dec", "write"}

JobsHeld == \A w \in Workers : worker[w] \in Working => job[w] \in Jobs

LEMMA InitType == (FirstIndex \subseteq Nat) /\ PoolInit => PoolTypeOK /\ JobsHeld
<1>. SUFFICES ASSUME FirstIndex \subseteq Nat, PoolInit PROVE PoolTypeOK /\ JobsHeld
     OBVIOUS
<1>. USE NumJobsAssumption DEF PoolInit
<1>1. isRunning \in BOOLEAN /\ shutdown \in BOOLEAN
      BY Zenon
<1>2. job \in [Workers -> 0..NumJobs] /\ seen \in [Workers -> Int]
      OBVIOUS
<1>3. worker \in [Workers -> WorkerAt] /\ JobsHeld
      BY DEF WorkerAt, JobsHeld, Working
<1>4. lock \in Workers \cup {"main", "nobody"} /\ main \in MainAt
      BY DEF MainAt
<1>. QED  BY <1>1, <1>2, <1>3, <1>4 DEF PoolTypeOK

LEMMA NextType == PoolTypeOK /\ JobsHeld /\ [PoolNext]_poolVars => PoolTypeOK' /\ JobsHeld'
<1>. SUFFICES ASSUME PoolTypeOK, JobsHeld, [PoolNext]_poolVars
              PROVE  PoolTypeOK' /\ JobsHeld'
     OBVIOUS
<1>. USE NumJobsAssumption DEF PoolTypeOK, JobsHeld, Working, Jobs, MainAt, WorkerAt, pool, history
<1>1. CASE AddJob
      BY <1>1 DEF AddJob
<1>2. CASE SetupDone
      BY <1>2 DEF SetupDone
<1>3. CASE BeginRound
      BY <1>3 DEF BeginRound
<1>4. ASSUME NEW field \in Stores, Store(field)
      PROVE  PoolTypeOK' /\ JobsHeld'
  <2>1. isRunning' \in BOOLEAN
        BY <1>4, Zenon DEF Store
  <2>2. index' \in Nat /\ busy' \in Int
        BY <1>4 DEF Store
  <2>. QED  BY <1>4, <2>1, <2>2 DEF Store
<1>5. CASE Notify
      BY <1>5 DEF Notify, Woken
<1>6. CASE WaitThreads
      BY <1>6 DEF WaitThreads
<1>7. CASE Destroy
      BY <1>7 DEF Destroy, Woken
<1>8. CASE Join
      BY <1>8 DEF Join
<1>9. ASSUME NEW w \in Workers, WorkerStep(w) \/ WakeWorker(w)
      PROVE  PoolTypeOK' /\ JobsHeld'
  <2>1. CASE Acquire(w)
        BY <2>1 DEF Acquire
  <2>2. CASE Pick(w)
        BY <2>2 DEF Pick, Available
  <2>3. CASE Take(w)
    <3>1. job[w] \in Jobs
          BY <2>3 DEF Take
    <3>2. index' \in Nat
          BY <2>3, <3>1 DEF Take
    <3>3. started' \subseteq Jobs
          BY <2>3, <3>1, Zenon DEF Take
    <3>. QED  BY <2>3, <3>1, <3>2, <3>3 DEF Take
  <2>4. CASE Decline(w)
        BY <2>4 DEF Decline
  <2>5. CASE Block(w)
        BY <2>5 DEF Block
  <2>6. CASE Leave(w)
        BY <2>6 DEF Leave
  <2>7. CASE Return(w)
        BY <2>7 DEF Return
  <2>8. CASE ReadBusy(w)
        BY <2>8 DEF ReadBusy
  <2>9. CASE WriteBusy(w)
    <3>1. isRunning' \in BOOLEAN
          BY <2>9, Zenon DEF WriteBusy
    <3>2. busy' \in Int
          BY <2>9 DEF WriteBusy
    <3>. QED  BY <2>9, <3>1, <3>2 DEF WriteBusy
  <2>10. CASE WakeWorker(w)
        BY <2>10 DEF WakeWorker
  <2>. QED  BY <1>9, <2>1, <2>2, <2>3, <2>4, <2>5, <2>6, <2>7, <2>8, <2>9, <2>10
            DEF WorkerStep
<1>10. CASE WakeMain
      BY <1>10 DEF WakeMain
<1>11. CASE UNCHANGED poolVars
      BY <1>11 DEF poolVars
<1>. QED  BY <1>1, <1>2, <1>3, <1>4, <1>5, <1>6, <1>7, <1>8, <1>9, <1>10, <1>11
          DEF PoolNext, MainStep, Terminated

(* Members and locals of thread_pool keep their types whatever the          *)
(* interleaving of do_jobs() and the workers, and jobs_ is only indexed     *)
(* inside its bounds: provided that index, which no constructor sets, is    *)
(* not negative at the start.  With a negative value a worker that runs     *)
(* between the stores of the first round reads before jobs_.                *)
THEOREM PoolTypeCorrect == (FirstIndex \subseteq Nat) /\ Safety => []PoolTypeOK
<1>1. PoolTypeOK /\ JobsHeld /\ [PoolNext]_poolVars => (PoolTypeOK /\ JobsHeld)'
      BY NextType
<1>. QED  BY InitType, <1>1, PTL DEF Safety
-----------------------------------------------------------------------------
(* Why a round is a barrier.  A job is undone until the worker that ran it  *)
(* has counted it in busy; busy, once stored, is never below the number of  *)
(* undone jobs unless it is negative, and then it stays so (the round never *)
(* ends).  So the worker that brings it to 0 is the last.                   *)
InRound == main \in {"storing", "wait", "asleep"}

\* the store of do_jobs() to this member is visible
Visible(field) == main \in {"wait", "asleep"} \/ (main = "storing" /\ field \in stored)

HasStarted(w) == worker[w] \in {"run", "dec", "write"}
Counting(w) == worker[w] \in {"dec", "write"}

Undone == {j \in Jobs : j \notin finished \/ \E w \in Workers : Counting(w) /\ job[w] = j}

LockKept == \A w \in Workers : worker[w] \in Holding <=> lock = w

\* jobs are handed out from the front, each to one worker
JobsInOrder ==
    /\ main # "setup" => goal = NumJobs
    /\ IF Visible("index") THEN started = {j \in Jobs : j <= index}
                          ELSE NumJobs <= index /\ (main = "storing" => started = {})
    /\ \A w \in Workers :
          /\ worker[w] = "take" =>
                isRunning /\ index < NumJobs /\ job[w] = index + 1
          /\ worker[w] = "run" => job[w] \in started \ finished
          /\ Counting(w) => job[w] \in finished
    /\ \A v, w \in Workers :
          HasStarted(v) /\ HasStarted(w) /\ job[v] = job[w] => v = w
    /\ finished \subseteq started

\* who may be at work, and when
RoundRuns ==
    /\ ~Visible("isRunning") => \A w \in Workers : worker[w] \notin Working
    /\ ~Visible("isRunning") /\ NumJobs > 0 => ~isRunning
    /\ Visible("isRunning") /\ ~isRunning => Undone = {} /\ busy = 0 /\ Visible("busy")
    /\ main = "storing" /\ "isRunning" \notin stored => started = {} /\ ~isRunning

BusyCounts ==
    /\ IF Visible("busy") THEN busy < 0 \/ Cardinality(Undone) <= busy
                         ELSE busy <= 0
    /\ \A w \in Workers : worker[w] = "write" => seen[w] = busy \/ seen[w] <= 0
    /\ NumJobs = 0 => busy = 0

PoolInv == PoolTypeOK /\ JobsHeld /\ LockKept /\ JobsInOrder /\ RoundRuns /\ BusyCounts

LEMMA UndoneFinite ==
    /\ IsFiniteSet(Undone) /\ Cardinality(Undone) \in Nat
    /\ Cardinality(Undone) <= NumJobs
    /\ Undone = {} <=> Cardinality(Undone) = 0
<1>1. IsFiniteSet(Jobs) /\ Cardinality(Jobs) = NumJobs
      BY NumJobsAssumption, FS_Interval DEF Jobs
<1>2. Undone \subseteq Jobs
      BY DEF Undone
<1>. QED  BY <1>1, <1>2, FS_Subset, FS_EmptySet, FS_CardinalityType

LEMMA InitPoolInv == (\A i \in FirstIndex : NumJobs <= i) /\ PoolInit => PoolInv
<1>. SUFFICES ASSUME \A i \in FirstIndex : NumJobs <= i, PoolInit
              PROVE  PoolInv
     OBVIOUS
<1>1. LockKept
      BY WorkersAssumption DEF PoolInit, LockKept, Holding
<1>2. JobsInOrder
      BY DEF PoolInit, JobsInOrder, Visible, Counting, HasStarted
<1>3. RoundRuns
      BY DEF PoolInit, RoundRuns, Visible, Working
<1>4. BusyCounts
      BY DEF PoolInit, BusyCounts, Visible
<1>5. FirstIndex \subseteq Nat
      BY NumJobsAssumption, FirstIndexAssumption
<1>. QED  BY <1>1, <1>2, <1>3, <1>4, <1>5, InitType DEF PoolInv

(* The main thread's steps. *)
LEMMA MainInv ==
    ASSUME PoolInv, PoolTypeOK', MainStep \/ WakeMain
    PROVE  LockKept' /\ JobsInOrder' /\ RoundRuns' /\ BusyCounts'
<1>. USE NumJobsAssumption DEF PoolInv, PoolTypeOK, pool, history
<1>1. CASE AddJob
  <2>1. Undone' = Undone
        BY <1>1 DEF AddJob, Undone, Counting
  <2>2. LockKept'
        BY <1>1 DEF AddJob, LockKept
  <2>3. JobsInOrder'
        BY <1>1 DEF AddJob, JobsInOrder, Visible, Counting, HasStarted
  <2>4. RoundRuns'
        BY <1>1, <2>1 DEF AddJob, RoundRuns, Visible
  <2>5. BusyCounts'
        BY <1>1, <2>1 DEF AddJob, BusyCounts, Visible
  <2>. QED  BY <2>2, <2>3, <2>4, <2>5
<1>2. CASE SetupDone
  <2>1. Undone' = Undone
        BY <1>2 DEF SetupDone, Undone, Counting
  <2>2. LockKept'
        BY <1>2 DEF SetupDone, LockKept
  <2>3. JobsInOrder'
        BY <1>2 DEF SetupDone, JobsInOrder, Visible, Counting, HasStarted
  <2>4. RoundRuns'
        BY <1>2, <2>1 DEF SetupDone, RoundRuns, Visible
  <2>5. BusyCounts'
        BY <1>2, <2>1 DEF SetupDone, BusyCounts, Visible
  <2>. QED  BY <2>2, <2>3, <2>4, <2>5
<1>3. CASE BeginRound
  <2>1. \A w \in Workers : worker[w] \notin Working
        BY <1>3 DEF BeginRound, RoundRuns, Visible
  <2>2. isRunning => NumJobs = 0
        BY <1>3 DEF BeginRound, RoundRuns, Visible
  <2>3. LockKept'
        BY <1>3 DEF BeginRound, LockKept
  <2>4. JobsInOrder'
        BY <1>3, <2>1, <2>2
        DEF BeginRound, JobsInOrder, Visible, Counting, HasStarted, Working, Jobs
  <2>5. RoundRuns'
        BY <1>3, <2>1, <2>2 DEF BeginRound, RoundRuns, Visible
  <2>6. busy <= 0 /\ (isRunning => busy = 0 /\ Undone' = {})
        BY <1>3, <2>2 DEF BeginRound, BusyCounts, Visible, Undone, Jobs
  <2>7. BusyCounts'
        BY <1>3, <2>1, <2>2, <2>6, FS_EmptySet DEF BeginRound, BusyCounts, Visible, Working
  <2>. QED  BY <2>3, <2>4, <2>5, <2>7
<1>4. ASSUME NEW field \in Stores, Store(field)
      PROVE  LockKept' /\ JobsInOrder' /\ RoundRuns' /\ BusyCounts'
  <2>1. Undone' = Undone
        BY <1>4 DEF Store, Undone, Counting
  <2>2. LockKept'
        BY <1>4 DEF Store, LockKept
  <2>3. JobsInOrder'
    <3>1. CASE field = "index"
      <4>1. started = {} /\ \A w \in Workers : worker[w] # "take"
            BY <1>4, <3>1 DEF Store, JobsInOrder, Visible
      <4>2. started' = {j \in Jobs : j <= index'} /\ Visible("index")'
            BY <1>4, <3>1, <4>1 DEF Store, Visible, Jobs
      <4>. QED  BY <1>4, <4>1, <4>2 DEF Store, JobsInOrder, Counting, HasStarted
    <3>2. CASE field # "index"
      <4>1. /\ index' = index /\ (isRunning => isRunning')
            /\ Visible("index")' = Visible("index")
            BY <1>4, <3>2 DEF Store, Visible
      <4>. QED  BY <1>4, <4>1 DEF Store, JobsInOrder, Counting, HasStarted
    <3>. QED  BY <3>1, <3>2
  <2>4. RoundRuns'
    <3>1. CASE field = "isRunning"
          BY <1>4, <3>1 DEF Store, RoundRuns, Visible
    <3>2. CASE field # "isRunning"
      <4>1. /\ isRunning' = isRunning /\ main' = main /\ worker' = worker
            /\ started' = started /\ Visible("isRunning")' = Visible("isRunning")
            /\ Visible("busy") => Visible("busy")'
            /\ "isRunning" \in stored' <=> "isRunning" \in stored
            BY <1>4, <3>2 DEF Store, Visible
      <4>2. busy' = busy \/ ~Visible("busy")
            BY <1>4 DEF Store, Visible
      <4>. QED  BY <1>4, <2>1, <3>2, <4>1, <4>2 DEF Store, RoundRuns, BusyCounts
    <3>. QED  BY <3>1, <3>2
  <2>5. BusyCounts'
    <3>1. CASE field = "busy"
          BY <1>4, <2>1, <3>1, UndoneFinite DEF Store, BusyCounts, Visible, JobsInOrder
    <3>2. CASE field # "busy"
          BY <1>4, <2>1, <3>2 DEF Store, BusyCounts, Visible
    <3>. QED  BY <3>1, <3>2
  <2>. QED  BY <2>2, <2>3, <2>4, <2>5
<1>5. CASE Notify
  <2>1. \A w \in Workers : worker'[w] = worker[w]
              \/ (worker[w] = "asleep" /\ worker'[w] = "start")
        BY <1>5 DEF Notify, Woken
  <2>2. Undone' = Undone
        BY <1>5, <2>1 DEF Notify, Undone, Counting
  <2>3. LockKept'
        BY <1>5, <2>1 DEF Notify, LockKept, Holding
  <2>4. JobsInOrder'
        BY <1>5, <2>1 DEF Notify, JobsInOrder, Visible, Counting, HasStarted, Stores
  <2>5. RoundRuns'
        BY <1>5, <2>1, <2>2 DEF Notify, RoundRuns, Visible, Working, Stores
  <2>6. BusyCounts'
        BY <1>5, <2>1, <2>2 DEF Notify, BusyCounts, Visible, Stores
  <2>. QED  BY <2>3, <2>4, <2>5, <2>6
<1>6. CASE WaitThreads
  <2>1. Undone' = Undone
        BY <1>6 DEF WaitThreads, Undone, Counting
  <2>2. LockKept'
        BY <1>6 DEF WaitThreads, LockKept
  <2>3. main' = "ready" => Undone = {} /\ busy <= 0
        BY <1>6 DEF WaitThreads, RoundRuns, JobsInOrder, BusyCounts, Visible, Undone, Jobs
  <2>4. main' = "ready" => NumJobs <= index
        BY <1>6, <2>3 DEF WaitThreads, JobsInOrder, Visible, Undone, Jobs
  <2>5. JobsInOrder'
        BY <1>6, <2>4 DEF WaitThreads, JobsInOrder, Visible, Counting, HasStarted
  <2>6. main' = "ready" => \A w \in Workers : worker[w] \notin Working
        BY <2>3, <2>4 DEF Undone, JobsInOrder, JobsHeld, Working, Counting
  <2>7. RoundRuns'
        BY <1>6, <2>1, <2>6 DEF WaitThreads, RoundRuns, Visible, JobsInOrder
  <2>8. BusyCounts'
        BY <1>6, <2>1, <2>3 DEF WaitThreads, BusyCounts, Visible
  <2>. QED  BY <2>2, <2>5, <2>7, <2>8
<1>7. CASE Destroy
  <2>1. \A w \in Workers : worker'[w] = worker[w]
              \/ (worker[w] = "asleep" /\ worker'[w] = "start")
        BY <1>7 DEF Destroy, Woken
  <2>2. Undone' = Undone
        BY <1>7, <2>1 DEF Destroy, Undone, Counting
  <2>3. LockKept'
        BY <1>7, <2>1 DEF Destroy, LockKept, Holding
  <2>4. JobsInOrder'
        BY <1>7, <2>1 DEF Destroy, JobsInOrder, Visible, Counting, HasStarted
  <2>5. RoundRuns'
        BY <1>7, <2>1, <2>2 DEF Destroy, RoundRuns, Visible, Working
  <2>6. BusyCounts'
        BY <1>7, <2>1, <2>2 DEF Destroy, BusyCounts, Visible
  <2>. QED  BY <2>3, <2>4, <2>5, <2>6
<1>8. CASE Join
  <2>1. Undone' = Undone
        BY <1>8 DEF Join, Undone, Counting
  <2>2. LockKept'
        BY <1>8 DEF Join, LockKept
  <2>3. JobsInOrder'
        BY <1>8 DEF Join, JobsInOrder, Visible, Counting, HasStarted
  <2>4. RoundRuns'
        BY <1>8, <2>1 DEF Join, RoundRuns, Visible
  <2>5. BusyCounts'
        BY <1>8, <2>1 DEF Join, BusyCounts, Visible
  <2>. QED  BY <2>2, <2>3, <2>4, <2>5
<1>9. CASE WakeMain
  <2>1. Undone' = Undone
        BY <1>9 DEF WakeMain, Undone, Counting
  <2>2. LockKept'
        BY <1>9 DEF WakeMain, LockKept
  <2>3. JobsInOrder'
        BY <1>9 DEF WakeMain, JobsInOrder, Visible, Counting, HasStarted
  <2>4. RoundRuns'
        BY <1>9, <2>1 DEF WakeMain, RoundRuns, Visible
  <2>5. BusyCounts'
        BY <1>9, <2>1 DEF WakeMain, BusyCounts, Visible
  <2>. QED  BY <2>2, <2>3, <2>4, <2>5
<1>. QED  BY <1>1, <1>2, <1>3, <1>4, <1>5, <1>6, <1>7, <1>8, <1>9 DEF MainStep

(* The workers' steps. *)
LEMMA WorkerInv ==
    ASSUME PoolInv, PoolTypeOK', NEW w \in Workers, WorkerStep(w) \/ WakeWorker(w)
    PROVE  LockKept' /\ JobsInOrder' /\ RoundRuns' /\ BusyCounts'
<1>. USE NumJobsAssumption DEF PoolInv, PoolTypeOK, pool, history
<1>1. CASE Acquire(w)
  <2>1. \A v \in Workers : v # w => worker'[v] = worker[v]
        BY <1>1 DEF Acquire
  <2>2. Undone' = Undone
        BY <1>1, <2>1 DEF Acquire, Undone, Counting
  <2>3. LockKept'
        BY <1>1, <2>1, WorkersAssumption DEF Acquire, LockKept, Holding
  <2>4. JobsInOrder'
        BY <1>1, <2>1 DEF Acquire, JobsInOrder, Visible, Counting, HasStarted
  <2>5. RoundRuns'
        BY <1>1, <2>1, <2>2 DEF Acquire, RoundRuns, Visible, Working
  <2>6. BusyCounts'
        BY <1>1, <2>1, <2>2 DEF Acquire, BusyCounts, Visible
  <2>. QED  BY <2>3, <2>4, <2>5, <2>6
<1>2. CASE Pick(w)
  <2>1. /\ \A v \in Workers : v # w => worker'[v] = worker[v] /\ job'[v] = job[v]
        /\ worker[w] = "check" /\ worker'[w] = "take" /\ job'[w] = index + 1
        BY <1>2 DEF Pick
  <2>2. isRunning /\ index < NumJobs
        BY <1>2 DEF Pick, Available
  <2>3. Undone' = Undone
        BY <1>2, <2>1 DEF Pick, Undone, Counting
  <2>4. LockKept'
        BY <1>2, <2>1 DEF Pick, LockKept, Holding
  <2>5. JobsInOrder'
        BY <1>2, <2>1, <2>2 DEF Pick, JobsInOrder, Visible, Counting, HasStarted
  <2>6. Visible("isRunning")
        BY <2>2 DEF RoundRuns
  <2>7. RoundRuns'
        BY <1>2, <2>2, <2>3, <2>6 DEF Pick, RoundRuns, Visible
  <2>8. BusyCounts'
        BY <1>2, <2>1, <2>3 DEF Pick, BusyCounts, Visible
  <2>. QED  BY <2>4, <2>5, <2>7, <2>8
<1>3. CASE Take(w)
  <2>1. /\ \A v \in Workers : v # w => worker'[v] = worker[v]
        /\ worker[w] = "take" /\ worker'[w] = "run"
        BY <1>3 DEF Take
  <2>2. /\ isRunning /\ index < NumJobs /\ job[w] = index + 1 /\ Visible("index")
        /\ started = {j \in Jobs : j <= index}
        BY <2>1 DEF JobsInOrder
  <2>3. job[w] \in Jobs \ started
        BY <2>2 DEF Jobs
  <2>4. \A v \in Workers : v # w => worker[v] # "take"
        BY <2>1 DEF LockKept, Holding
  <2>5. Undone' = Undone
        BY <1>3, <2>1 DEF Take, Undone, Counting
  <2>6. LockKept'
        BY <1>3, <2>1, WorkersAssumption DEF Take, LockKept, Holding
  <2>7. JobsInOrder'
    <3>1. started' = {j \in Jobs : j <= index'} /\ Visible("index")'
          BY <1>3, <2>2 DEF Take, Visible, Jobs
    <3>2. \A v \in Workers : HasStarted(v) => job[v] \in started
          BY DEF HasStarted, JobsInOrder, Counting
    <3>3. \A u, v \in Workers :
             HasStarted(u)' /\ HasStarted(v)' /\ job'[u] = job'[v] => u = v
          BY <1>3, <2>1, <2>3, <3>2 DEF Take, HasStarted, JobsInOrder
    <3>. QED  BY <1>3, <2>1, <2>3, <2>4, <3>1, <3>3 DEF Take, JobsInOrder, Counting
  <2>8. RoundRuns'
        BY <1>3, <2>1, <2>2, <2>5 DEF Take, RoundRuns, Visible, Working
  <2>9. BusyCounts'
        BY <1>3, <2>1, <2>5 DEF Take, BusyCounts, Visible
  <2>. QED  BY <2>6, <2>7, <2>8, <2>9
<1>4. CASE Decline(w)
  <2>1. \A v \in Workers : v # w => worker'[v] = worker[v]
        BY <1>4 DEF Decline
  <2>2. Undone' = Undone
        BY <1>4, <2>1 DEF Decline, Undone, Counting
  <2>3. LockKept'
        BY <1>4, <2>1, WorkersAssumption DEF Decline, LockKept, Holding
  <2>4. JobsInOrder'
        BY <1>4, <2>1 DEF Decline, JobsInOrder, Visible, Counting, HasStarted
  <2>5. RoundRuns'
        BY <1>4, <2>1, <2>2 DEF Decline, RoundRuns, Visible, Working
  <2>6. BusyCounts'
        BY <1>4, <2>1, <2>2 DEF Decline, BusyCounts, Visible
  <2>. QED  BY <2>3, <2>4, <2>5, <2>6
<1>5. CASE Block(w)
  <2>1. \A v \in Workers : v # w => worker'[v] = worker[v]
        BY <1>5 DEF Block
  <2>2. Undone' = Undone
        BY <1>5, <2>1 DEF Block, Undone, Counting
  <2>3. LockKept'
        BY <1>5, <2>1, WorkersAssumption DEF Block, LockKept, Holding
  <2>4. JobsInOrder'
        BY <1>5, <2>1 DEF Block, JobsInOrder, Visible, Counting, HasStarted
  <2>5. RoundRuns'
        BY <1>5, <2>1, <2>2 DEF Block, RoundRuns, Visible, Working
  <2>6. BusyCounts'
        BY <1>5, <2>1, <2>2 DEF Block, BusyCounts, Visible
  <2>. QED  BY <2>3, <2>4, <2>5, <2>6
<1>6. CASE Leave(w)
  <2>1. \A v \in Workers : v # w => worker'[v] = worker[v]
        BY <1>6 DEF Leave
  <2>2. Undone' = Undone
        BY <1>6, <2>1 DEF Leave, Undone, Counting
  <2>3. LockKept'
        BY <1>6, <2>1, WorkersAssumption DEF Leave, LockKept, Holding
  <2>4. JobsInOrder'
        BY <1>6, <2>1 DEF Leave, JobsInOrder, Visible, Counting, HasStarted
  <2>5. RoundRuns'
        BY <1>6, <2>1, <2>2 DEF Leave, RoundRuns, Visible, Working
  <2>6. BusyCounts'
        BY <1>6, <2>1, <2>2 DEF Leave, BusyCounts, Visible
  <2>. QED  BY <2>3, <2>4, <2>5, <2>6
<1>7. CASE Return(w)
  <2>1. /\ \A v \in Workers : v # w => worker'[v] = worker[v]
        /\ worker[w] = "run" /\ worker'[w] = "dec"
        BY <1>7 DEF Return
  <2>2. Undone' = Undone
    <3>1. job[w] \in Undone /\ job[w] \in Undone'
          BY <1>7, <2>1 DEF Return, Undone, Counting, JobsInOrder, JobsHeld, Working
    <3>2. \A j \in Jobs : j # job[w] => (j \in finished' <=> j \in finished)
          BY <1>7 DEF Return
    <3>3. \A j \in Jobs : j # job[w] => (j \in Undone' <=> j \in Undone)
          BY <1>7, <2>1, <3>2 DEF Return, Undone, Counting
    <3>. QED  BY <3>1, <3>3 DEF Undone
  <2>3. LockKept'
        BY <1>7, <2>1, WorkersAssumption DEF Return, LockKept, Holding
  <2>4. JobsInOrder'
        BY <1>7, <2>1 DEF Return, JobsInOrder, Visible, Counting, HasStarted
  <2>5. RoundRuns'
        BY <1>7, <2>1, <2>2 DEF Return, RoundRuns, Visible, Working
  <2>6. BusyCounts'
        BY <1>7, <2>1, <2>2 DEF Return, BusyCounts, Visible
  <2>. QED  BY <2>3, <2>4, <2>5, <2>6
<1>8. CASE ReadBusy(w)
  <2>1. /\ \A v \in Workers : v # w => worker'[v] = worker[v] /\ seen'[v] = seen[v]
        /\ worker[w] = "dec" /\ worker'[w] = "write" /\ seen'[w] = busy
        BY <1>8 DEF ReadBusy
  <2>2. Undone' = Undone
        BY <1>8, <2>1 DEF ReadBusy, Undone, Counting
  <2>3. LockKept'
        BY <1>8, <2>1 DEF ReadBusy, LockKept, Holding
  <2>4. JobsInOrder'
        BY <1>8, <2>1 DEF ReadBusy, JobsInOrder, Visible, Counting, HasStarted
  <2>5. RoundRuns'
        BY <1>8, <2>1, <2>2 DEF ReadBusy, RoundRuns, Visible, Working
  <2>6. BusyCounts'
        BY <1>8, <2>1, <2>2 DEF ReadBusy, BusyCounts, Visible
  <2>. QED  BY <2>3, <2>4, <2>5, <2>6
<1>9. CASE WriteBusy(w)
  <2>1. /\ \A v \in Workers : v # w => worker'[v] = worker[v]
        /\ worker[w] = "write" /\ worker'[w] = "start"
        /\ busy' = seen[w] - 1 /\ (seen[w] = busy \/ seen[w] <= 0)
        BY <1>9 DEF WriteBusy, BusyCounts
  <2>2. \A v \in Workers : v # w => worker[v] # "write"
        BY <2>1 DEF LockKept, Holding
  <2>3. job[w] \in Undone /\ Undone' = Undone \ {job[w]}
    <3>1. job[w] \in Undone
          BY <2>1 DEF Undone, Counting, JobsHeld, Working
    <3>2. job[w] \in finished
          BY <2>1 DEF JobsInOrder, Counting
    <3>3. \A v \in Workers : Counting(v) /\ job[v] = job[w] => v = w
          BY <2>1 DEF JobsInOrder, Counting, HasStarted
    <3>4. finished' = finished /\ job' = job
          BY <1>9 DEF WriteBusy
    <3>. QED  BY <2>1, <3>1, <3>2, <3>3, <3>4 DEF Undone, Counting
  <2>4. Cardinality(Undone') = Cardinality(Undone) - 1 /\ Cardinality(Undone) >= 1
    <3>1. Cardinality(Undone \ {job[w]}) = Cardinality(Undone) - 1
          BY <2>3, UndoneFinite, FS_RemoveElement, ZenonT(40)
    <3>2. Undone # {}
          BY <2>3
    <3>. QED  BY <2>3, <3>1, <3>2, UndoneFinite
  <2>5. Visible("isRunning") /\ NumJobs > 0 /\ isRunning
        BY <2>1, <2>3 DEF RoundRuns, Working, JobsHeld, Jobs
  <2>6. busy' = 0 => Undone' = {} /\ Visible("busy")
    <3>1. SUFFICES ASSUME busy' = 0
                   PROVE  Undone' = {} /\ Visible("busy")
          OBVIOUS
    <3>2. busy = 1 /\ Visible("busy")
          BY <2>1, <3>1 DEF BusyCounts
    <3>3. Cardinality(Undone) = 1
          BY <2>4, <3>2, UndoneFinite DEF BusyCounts
    <3>4. IsFiniteSet(Undone')
          BY <2>3, UndoneFinite, FS_Subset
    <3>. QED  BY <2>4, <3>2, <3>3, <3>4, FS_EmptySet
  <2>7. \A field \in Stores : Visible(field)' = Visible(field)
    <3>1. main = "asleep" \/ main' = main
          BY <1>9 DEF WriteBusy
    <3>2. main' \in {main, "wait"} /\ stored' = stored
          BY <1>9 DEF WriteBusy
    <3>. QED  BY <3>1, <3>2 DEF Visible
  <2>8. main' = main \/ (main = "asleep" /\ main' = "wait")
        BY <1>9 DEF WriteBusy
  <2>9. LockKept'
        BY <1>9, <2>1, WorkersAssumption DEF WriteBusy, LockKept, Holding
  <2>10. JobsInOrder'
    <3>1. Visible("index")' = Visible("index")
          BY <2>7 DEF Stores
    <3>2. \A v \in Workers : worker[v] # "take"
          BY <2>1 DEF LockKept, Holding
    <3>. QED  BY <1>9, <2>1, <2>8, <3>1, <3>2
              DEF WriteBusy, JobsInOrder, Counting, HasStarted
  <2>11. RoundRuns'
    <3>1. /\ Visible("isRunning")' = Visible("isRunning")
          /\ Visible("busy")' = Visible("busy")
          BY <2>7 DEF Stores
    <3>2. main = "storing" => "isRunning" \in stored
          BY <2>5 DEF Visible
    <3>3. ~isRunning' => busy' = 0
          BY <1>9, <2>5 DEF WriteBusy
    <3>. QED  BY <1>9, <2>5, <2>6, <2>8, <3>1, <3>2, <3>3 DEF WriteBusy, RoundRuns
  <2>12. BusyCounts'
    <3>1. Visible("busy")' = Visible("busy")
          BY <2>7 DEF Stores
    <3>. QED  BY <2>1, <2>2, <2>4, <2>5, <3>1, UndoneFinite DEF BusyCounts
  <2>. QED  BY <2>9, <2>10, <2>11, <2>12
<1>10. CASE WakeWorker(w)
  <2>1. \A v \in Workers : v # w => worker'[v] = worker[v]
        BY <1>10 DEF WakeWorker
  <2>2. Undone' = Undone
        BY <1>10, <2>1 DEF WakeWorker, Undone, Counting
  <2>3. LockKept'
        BY <1>10, <2>1, WorkersAssumption DEF WakeWorker, LockKept, Holding
  <2>4. JobsInOrder'
        BY <1>10, <2>1 DEF WakeWorker, JobsInOrder, Visible, Counting, HasStarted
  <2>5. RoundRuns'
        BY <1>10, <2>1, <2>2 DEF WakeWorker, RoundRuns, Visible, Working
  <2>6. BusyCounts'
        BY <1>10, <2>1, <2>2 DEF WakeWorker, BusyCounts, Visible
  <2>. QED  BY <2>3, <2>4, <2>5, <2>6
<1>. QED  BY <1>1, <1>2, <1>3, <1>4, <1>5, <1>6, <1>7, <1>8, <1>9, <1>10
          DEF WorkerStep

LEMMA NextPoolInv == PoolInv /\ [PoolNext]_poolVars => PoolInv'
<1>. SUFFICES ASSUME PoolInv, [PoolNext]_poolVars
              PROVE  PoolInv'
     OBVIOUS
<1>1. PoolTypeOK' /\ JobsHeld'
      BY NextType DEF PoolInv
<1>2. CASE MainStep \/ WakeMain
      BY <1>1, <1>2, MainInv DEF PoolInv
<1>3. ASSUME NEW w \in Workers, WorkerStep(w) \/ WakeWorker(w)
      PROVE  PoolInv'
      BY <1>1, <1>3, WorkerInv DEF PoolInv
<1>4. CASE UNCHANGED poolVars
      BY <1>4 DEF poolVars, PoolInv, PoolTypeOK, JobsHeld, LockKept, JobsInOrder, RoundRuns,
                  BusyCounts, Visible, Counting, HasStarted, Undone
<1>. QED  BY <1>2, <1>3, <1>4 DEF PoolNext, Terminated

(* Every step is one of the abstract round, or none of its variables moves. *)
LEMMA RoundStep == PoolInv /\ [PoolNext]_poolVars => [Round!Next]_(Round!vars)
<1>. SUFFICES ASSUME PoolInv, [PoolNext]_poolVars
              PROVE  [Round!Next]_(Round!vars)
     OBVIOUS
<1>. USE DEF Round!Next, Round!vars, pool, history
<1>1. CASE BeginRound
      BY <1>1 DEF BeginRound, Round!Begin
<1>2. CASE WaitThreads
  <2>1. CASE main' = "ready"
    <3>1. finished = Jobs
      <4>1. Undone = {}
            BY <1>2, <2>1 DEF WaitThreads, PoolInv, RoundRuns, JobsInOrder, Visible, Undone, Jobs
      <4>. QED  BY <4>1 DEF Undone, PoolInv, PoolTypeOK
    <3>. QED  BY <1>2, <2>1, <3>1 DEF WaitThreads, Round!End
  <2>2. CASE main' # "ready"
        BY <1>2, <2>2 DEF WaitThreads
  <2>. QED  BY <2>1, <2>2
<1>3. ASSUME NEW w \in Workers, Take(w)
      PROVE  [Round!Next]_(Round!vars)
  <2>1. /\ job[w] = index + 1 /\ index < NumJobs /\ Visible("index")
        /\ started = {j \in Jobs : j <= index}
        BY <1>3, NumJobsAssumption DEF Take, PoolInv, PoolTypeOK, JobsInOrder
  <2>2. job[w] \in Jobs /\ job[w] \notin started
        BY <1>3, <2>1 DEF Take, PoolInv, JobsHeld, Working, PoolTypeOK
  <2>3. Round!Start(job[w])
        BY <1>3, <2>1, <2>2 DEF Take, Round!Start, Visible
  <2>. QED  BY <2>2, <2>3
<1>4. ASSUME NEW w \in Workers, Return(w)
      PROVE  [Round!Next]_(Round!vars)
  <2>1. job[w] \in started \ finished /\ job[w] \in Jobs /\ Visible("isRunning")
        BY <1>4 DEF Return, PoolInv, JobsInOrder, JobsHeld, RoundRuns, Working
  <2>2. Round!Finish(job[w])
        BY <1>4, <2>1 DEF Return, Round!Finish, Visible
  <2>. QED  BY <2>1, <2>2
<1>5. CASE AddJob \/ SetupDone \/ Notify \/ Destroy \/ Join \/ WakeMain \/ UNCHANGED poolVars
  <2>1. /\ started' = started /\ finished' = finished
        /\ \/ main' = main
           \/ {main, main'} \subseteq {"setup", "ready", "joining", "end"}
           \/ {main, main'} \subseteq {"storing", "wait", "asleep"}
        BY <1>5 DEF AddJob, SetupDone, Notify, Destroy, Join, WakeMain, poolVars
  <2>2. (main \in {"storing", "wait", "asleep"})' <=> main \in {"storing", "wait", "asleep"}
        BY <2>1
  <2>. QED  BY <2>1, <2>2
<1>6. ASSUME NEW field \in Stores, Store(field)
      PROVE  [Round!Next]_(Round!vars)
      BY <1>6 DEF Store
<1>7. ASSUME NEW w \in Workers,
             \/ Acquire(w) \/ Pick(w) \/ Decline(w) \/ Block(w) \/ Leave(w)
             \/ ReadBusy(w) \/ WriteBusy(w) \/ WakeWorker(w)
      PROVE  [Round!Next]_(Round!vars)
  <2>1. /\ started' = started /\ finished' = finished
        /\ main' = main \/ (main = "asleep" /\ main' = "wait")
        BY <1>7 DEF Acquire, Pick, Decline, Block, Leave, ReadBusy, WriteBusy, WakeWorker
  <2>2. (main \in {"storing", "wait", "asleep"})' <=> main \in {"storing", "wait", "asleep"}
        BY <2>1
  <2>. QED  BY <2>1, <2>2
<1>. QED  BY <1>1, <1>2, <1>3, <1>4, <1>5, <1>6, <1>7
          DEF PoolNext, MainStep, WorkerStep, Terminated

(* ThreadPool implements JobRound: whatever order the unlocked stores of    *)
(* do_jobs() become visible in, and however the workers interleave, every   *)
(* job of a round is run, once, before wait_threads() returns, and no job   *)
(* runs outside a round; if the uninitialised index is not below the number *)
(* of jobs.                                                                 *)
THEOREM Barrier == (\A i \in FirstIndex : NumJobs <= i) /\ Safety => BarrierRound
<1>1. PoolInit => Round!Init
      BY DEF PoolInit, Round!Init
<1>. QED  BY <1>1, InitPoolInv, NextPoolInv, RoundStep, PTL
          DEF Safety, BarrierRound, Round!Spec
-----------------------------------------------------------------------------
(* The resource grid.                                                       *)

(* Where a grid may be: before and after its loops both indices are back at *)
(* 0, and a slot begins with its first RBG.  The loops belong to the MAC    *)
(* step.                                                                    *)
PosOf(d) ==
    /\ pos[d].at \in {"before", "after"} => pos[d].t = 0 /\ pos[d].f = 0
    /\ pos[d].at = "slot" => pos[d].f = 0
    /\ phase = "ue" => pos[d].at = "before"

(* The slots whose symbols the direction has walked in this step.           *)
SlotsRead(d) ==
    CASE pos[d].at \in {"before", "slot"} -> pos[d].t
      [] pos[d].at = "rbg"                -> pos[d].t + 1
      [] pos[d].at = "after"              -> NumTime

(* The symbols among the next n from symbol s of the frame that are d's.    *)
Hits(d, s, n) == {k \in 0..(n - 1) : Scheme[1 + ((s + k) % FrameLen)] = d}

(* The cursor of a direction is where the frame is, and what it counted for *)
(* the slot under way are the symbols the frame gives it.                   *)
CursorOf(d) ==
    Tdd =>
        /\ c_index[d] % FrameLen = (frame + SlotsRead(d) * RbgSyms) % FrameLen
        /\ pos[d].at = "rbg" =>
             syms[d] = Cardinality(Hits(d, frame + pos[d].t * RbgSyms, RbgSyms))

(* While the RBGs drain the queues no UE gets data that did not count as    *)
(* active when the step began.                                              *)
ActiveOf(d) ==
    /\ pos[d].at \in {"slot", "rbg"} => \A u \in Ues : backlog[d][u] > 0 => u \in active[d]
    /\ pos[d].at # "before" => scheduled[d] \subseteq active[d]

(* How many turns after v the UE i comes.                                   *)
Turn(i, v) == IF i >= v THEN i - v ELSE i - v + NumUes

(* The copies of the round-robin index agree, the frequency each remembers  *)
(* is the one asked for before the next, and so a UE that waits has waited  *)
(* since its own turn at most.                                              *)
InStep(d, u) ==
    /\ rr[d][u] = rr[d][0]
    /\ IF pos[d].at = "rbg" /\ pos[d].f > 0 /\ syms[d] > 0
       THEN rr[d][u].prev_f = pos[d].f - 1
       ELSE rr[d][u].prev_f \in {-1, NumFreq - 1}
    /\ RoundRobin => waited[d][u] <= Turn(rr[d][u].index, u)

PosInv == \A d \in Dirs : PosOf(d)
CursorInv == \A d \in Dirs : CursorOf(d)
ActiveInv == \A d \in Dirs : ActiveOf(d)
InStepInv == \A d \in Dirs : \A u \in Ues : InStep(d, u)
-----------------------------------------------------------------------------
(* Numbers.                                                                 *)
LEMMA AllOfNat ==
    ASSUME NEW T \in SUBSET Nat, 0 \in T, \A n \in T : n + 1 \in T
    PROVE  T = Nat
<1>. DEFINE R == OpToRel(<, Nat)
            U == Nat \ T
<1>. SUFFICES ASSUME U # {} PROVE FALSE
     OBVIOUS
<1>1. PICK x \in U : \A y \in U : <<y, x>> \notin R
      BY WFMin, NatLessThanWellFounded, Zenon
<1>2. x \in Nat /\ x # 0 /\ x - 1 \in Nat /\ x - 1 < x
      OBVIOUS
<1>3. <<x - 1, x>> \in R
      BY <1>2, Zenon DEF OpToRel
<1>4. x - 1 \in T
      BY <1>1, <1>2, <1>3
<1>. QED  BY <1>2, <1>4

LEMMA Product ==
    ASSUME NEW a \in Nat, NEW b \in Nat
    PROVE  a * b \in Nat
OBVIOUS

LEMMA ModRange ==
    ASSUME NEW a \in Nat, NEW n \in Nat \ {0}
    PROVE  a % n \in 0..(n - 1)
OBVIOUS

LEMMA ModSmall ==
    ASSUME NEW n \in Nat \ {0}, NEW a \in 0..(n - 1)
    PROVE  a % n = a
OBVIOUS

(* Counting one further is counting one further in the frame.               *)
LEMMA ModNext ==
    ASSUME NEW a \in Nat, NEW n \in Nat \ {0}
    PROVE  (a + 1) % n = (IF (a % n) + 1 = n THEN 0 ELSE (a % n) + 1)
<1>1. PICK q \in Int, r \in 0..(n - 1) : a = n * q + r /\ r = a % n
  <2>1. /\ a = n * (a \div n) + (a % n) /\ a % n \in 0..(n - 1)
        /\ a \div n \in Int
        OBVIOUS
  <2>. QED  BY <2>1
<1>2. PICK p \in Int, s \in 0..(n - 1) : a + 1 = n * p + s /\ s = (a + 1) % n
  <2>1. /\ a + 1 = n * ((a + 1) \div n) + ((a + 1) % n) /\ (a + 1) % n \in 0..(n - 1)
        /\ (a + 1) \div n \in Int
        OBVIOUS
  <2>. QED  BY <2>1
<1>3. n * (p - q) = r + 1 - s
      BY <1>1, <1>2
<1>4. p - q = 0 \/ p - q = 1 \/ p - q >= 2 \/ p - q <= -1
      BY <1>1, <1>2
<1>5. ~ p - q >= 2
  <2>. SUFFICES ASSUME p - q >= 2 PROVE FALSE
       OBVIOUS
  <2>1. n * (p - q) >= n * 2
        BY <1>1, <1>2
  <2>. QED  BY <1>1, <1>2, <1>3, <2>1
<1>6. ~ p - q <= -1
  <2>. SUFFICES ASSUME p - q <= -1 PROVE FALSE
       OBVIOUS
  <2>1. n * (p - q) <= -n
        BY <1>1, <1>2
  <2>. QED  BY <1>1, <1>2, <1>3, <2>1
<1>7. CASE p - q = 0
  <2>1. n * (p - q) = 0
        BY <1>7
  <2>2. s = r + 1 /\ r + 1 # n
        BY <1>1, <1>2, <1>3, <2>1
  <2>3. r = a % n /\ s = (a + 1) % n
        BY <1>1, <1>2
  <2>. QED  BY <2>2, <2>3, Zenon
<1>8. CASE p - q = 1
  <2>1. n * (p - q) = n
        BY <1>8
  <2>2. s = 0 /\ r + 1 = n
        BY <1>1, <1>2, <1>3, <2>1
  <2>3. r = a % n /\ s = (a + 1) % n
        BY <1>1, <1>2
  <2>. QED  BY <2>2, <2>3, Zenon
<1>. QED  BY <1>4, <1>5, <1>6, <1>7, <1>8

(* Numbers that agree modulo n agree as long as they grow together.         *)
SameMod(a, b, n) == a % n = b % n

LEMMA ModAdd ==
    ASSUME NEW a \in Nat, NEW b \in Nat, NEW n \in Nat \ {0}, SameMod(a, b, n), NEW k \in Nat
    PROVE  SameMod(a + k, b + k, n)
<1>. DEFINE T == {i \in Nat : (a + i) % n = (b + i) % n}
<1>1. 0 \in T
  <2>1. a + 0 = a /\ b + 0 = b /\ a % n = b % n
        BY DEF SameMod
  <2>. QED  BY <2>1
<1>2. ASSUME NEW i \in T
      PROVE  i + 1 \in T
  <2>1. i \in Nat /\ (a + i) % n = (b + i) % n
        OBVIOUS
  <2>2. a + i \in Nat /\ b + i \in Nat /\ (a + i) + 1 = a + (i + 1) /\ (b + i) + 1 = b + (i + 1)
        BY <2>1
  <2>3. PICK x, y \in Nat : x = a + i /\ y = b + i
        BY <2>2
  <2>4. (x + 1) % n = (y + 1) % n
    <3>1. (x + 1) % n = (IF (x % n) + 1 = n THEN 0 ELSE (x % n) + 1)
          BY ModNext
    <3>2. (y + 1) % n = (IF (y % n) + 1 = n THEN 0 ELSE (y % n) + 1)
          BY ModNext
    <3>3. x % n = y % n
          BY <2>1, <2>3
    <3>. QED  BY <3>1, <3>2, <3>3, Zenon
  <2>. QED  BY <2>1, <2>2, <2>3, <2>4
<1>. HIDE DEF T
<1>3. T = Nat
  <2>1. T \in SUBSET Nat
        BY DEF T
  <2>. QED  BY <1>1, <1>2, <2>1, AllOfNat
<1>. QED  BY <1>3 DEF T, SameMod

(* The frame has a symbol.                                                  *)
LEMMA FrameIs ==
    FrameLen \in Nat \ {0}
<1>1. /\ DlSlots * SlotSyms \in Nat /\ UlSlots * SlotSyms \in Nat
      /\ Transition[1] \in Nat /\ Transition[2] \in Nat /\ Transition[3] \in Nat
      /\ Transition[1] + Transition[2] + Transition[3] # 0
      BY TddAssumption, SymsAssumption
<1>2. \A n \in Nat : \A s : Repeat(n, s) \in Seq({s}) /\ Len(Repeat(n, s)) = n
      BY DEF Repeat
<1>. DEFINE S == {"dl", "ul", "guard"}
            a == Repeat(DlSlots * SlotSyms, "dl")
            b == Repeat(Transition[1], "dl")
            c == Repeat(Transition[2], "guard")
            e == Repeat(Transition[3], "ul")
            g == Repeat(UlSlots * SlotSyms, "ul")
<1>3. \A n \in Nat, s \in S : Repeat(n, s) \in Seq(S)
      BY DEF Repeat
<1>4. /\ a \in Seq(S) /\ Len(a) = DlSlots * SlotSyms
      /\ b \in Seq(S) /\ Len(b) = Transition[1]
      /\ c \in Seq(S) /\ Len(c) = Transition[2]
      /\ e \in Seq(S) /\ Len(e) = Transition[3]
      /\ g \in Seq(S) /\ Len(g) = UlSlots * SlotSyms
      BY <1>1, <1>2, <1>3
<1>5. FrameLen = Len(a \o b \o c \o e \o g)
      BY Zenon DEF FrameLen, Scheme
<1>. HIDE DEF a, b, c, e, g, S
<1>6. \A s, t \in Seq(S) : s \o t \in Seq(S) /\ Len(s \o t) = Len(s) + Len(t)
      OBVIOUS
<1>7. Len(a \o b \o c \o e \o g) = Len(a) + Len(b) + Len(c) + Len(e) + Len(g)
  <2>1. a \o b \in Seq(S) /\ Len(a \o b) = Len(a) + Len(b)
        BY <1>4, <1>6
  <2>2. a \o b \o c \in Seq(S) /\ Len(a \o b \o c) = Len(a \o b) + Len(c)
        BY <1>4, <1>6, <2>1
  <2>3. a \o b \o c \o e \in Seq(S) /\ Len(a \o b \o c \o e) = Len(a \o b \o c) + Len(e)
        BY <1>4, <1>6, <2>2
  <2>4. Len(a \o b \o c \o e \o g) = Len(a \o b \o c \o e) + Len(g)
        BY <1>4, <1>6, <2>3
  <2>. QED  BY <2>1, <2>2, <2>3, <2>4
<1>. QED  BY <1>1, <1>4, <1>5, <1>7, SMTT(30)

(* The symbols of a direction among one more.                               *)
LEMMA HitsAre ==
    ASSUME NEW d, NEW s \in Nat, NEW n \in Nat
    PROVE  /\ IsFiniteSet(Hits(d, s, n))
           /\ Cardinality(Hits(d, s, n)) \in 0..n
           /\ Cardinality(Hits(d, s, 0)) = 0
           /\ Cardinality(Hits(d, s, n + 1)) = Cardinality(Hits(d, s, n))
                + (IF Scheme[1 + ((s + n) % FrameLen)] = d THEN 1 ELSE 0)
<1>1. Hits(d, s, n) \subseteq 0..(n - 1)
      BY DEF Hits
<1>2. IsFiniteSet(0..(n - 1)) /\ Cardinality(0..(n - 1)) = n
      BY FS_Interval
<1>3. IsFiniteSet(Hits(d, s, n)) /\ Cardinality(Hits(d, s, n)) <= n
      BY <1>1, <1>2, FS_Subset
<1>4. Cardinality(Hits(d, s, n)) \in Nat
      BY <1>3, FS_CardinalityType
<1>5. Cardinality(Hits(d, s, 0)) = 0
  <2>1. Hits(d, s, 0) = {}
        BY DEF Hits
  <2>. QED  BY <2>1, FS_EmptySet
<1>6. CASE Scheme[1 + ((s + n) % FrameLen)] = d
  <2>1. Hits(d, s, n + 1) = Hits(d, s, n) \cup {n} /\ n \notin Hits(d, s, n)
        BY <1>6 DEF Hits
  <2>. QED  BY <1>3, <1>4, <1>5, <1>6, <2>1, FS_AddElement
<1>7. CASE Scheme[1 + ((s + n) % FrameLen)] # d
  <2>1. Hits(d, s, n + 1) = Hits(d, s, n)
        BY <1>7 DEF Hits
  <2>. QED  BY <1>3, <1>4, <1>5, <1>7, <2>1
<1>. QED  BY <1>6, <1>7

(* The walk of get_syms from a cursor.                                      *)
LEMMA WalkIs ==
    ASSUME NEW d, NEW start \in 0..FrameLen
    PROVE  /\ Walk(d, start).out = Cardinality(Hits(d, start, RbgSyms))
           /\ Walk(d, start).index \in 0..FrameLen
           /\ Walk(d, start).index % FrameLen = (start + RbgSyms) % FrameLen
<1>. DEFINE F == FrameLen
            Body(w, n) ==
              IF n = 0 THEN [index |-> start, out |-> 0]
              ELSE LET i == IF w[n - 1].index >= FrameLen THEN 0 ELSE w[n - 1].index
                   IN  [index |-> i + 1,
                        out |-> w[n - 1].out + (IF Scheme[i + 1] = d THEN 1 ELSE 0)]
            W(w) == [n \in 0..RbgSyms |-> Body(w, n)]
            walk == CHOOSE w : w = W(w)
            at(n) == IF n = 0 THEN start ELSE 1 + ((start + (n - 1)) % F)
            g == [n \in 0..RbgSyms |-> [index |-> at(n), out |-> Cardinality(Hits(d, start, n))]]
<1>0. F \in Nat \ {0} /\ start \in Nat /\ RbgSyms \in Nat /\ start <= F
      BY FrameIs, SymsAssumption
<1>1. \A n \in Nat : at(n) \in 0..F
  <2>. SUFFICES ASSUME NEW n \in Nat, n # 0 PROVE at(n) \in 0..F
       BY <1>0
  <2>1. start + (n - 1) \in Nat
        BY <1>0
  <2>2. (start + (n - 1)) % F \in 0..(F - 1)
        BY <1>0, <2>1, ModRange
  <2>. QED  BY <1>0, <2>2
<1>2. F % F = 0
  <2>1. F - 1 \in Nat /\ F - 1 \in 0..(F - 1) /\ (F - 1) + 1 = F
        BY <1>0
  <2>2. ((F - 1) + 1) % F = (IF ((F - 1) % F) + 1 = F THEN 0 ELSE ((F - 1) % F) + 1)
        BY <1>0, <2>1, ModNext
  <2>3. (F - 1) % F = F - 1
        BY <1>0, <2>1, ModSmall
  <2>. QED  BY <2>1, <2>2, <2>3
<1>3. \A n \in Nat : (IF at(n) >= F THEN 0 ELSE at(n)) = (start + n) % F
  <2>. SUFFICES ASSUME NEW n \in Nat PROVE (IF at(n) >= F THEN 0 ELSE at(n)) = (start + n) % F
       OBVIOUS
  <2>1. CASE n = 0
    <3>1. start < F => start % F = start
          BY <1>0, ModSmall
    <3>. QED  BY <1>0, <1>2, <2>1, <3>1
  <2>2. CASE n # 0
    <3>1. PICK m \in Nat : m = start + (n - 1) /\ m + 1 = start + n
          BY <1>0, <2>2
    <3>2. at(n) = 1 + (m % F)
          BY <2>2, <3>1
    <3>3. (m + 1) % F = (IF (m % F) + 1 = F THEN 0 ELSE (m % F) + 1)
          BY <1>0, ModNext
    <3>4. PICK r \in 0..(F - 1) : r = m % F
          BY <1>0, ModRange
    <3>5. (start + n) % F = (IF r + 1 = F THEN 0 ELSE r + 1)
          BY <3>1, <3>3, <3>4
    <3>6. at(n) = 1 + r
          BY <3>2, <3>4
    <3>. HIDE DEF at
    <3>. QED  BY <1>0, <3>4, <3>5, <3>6
  <2>. QED  BY <2>1, <2>2
<1>. HIDE DEF at
<1>4. \A n \in 0..RbgSyms : g[n] = Body(g, n)
  <2>. SUFFICES ASSUME NEW n \in 0..RbgSyms PROVE g[n] = Body(g, n)
       OBVIOUS
  <2>1. CASE n = 0
    <3>1. at(0) = start
          BY DEF at
    <3>2. Cardinality(Hits(d, start, 0)) = 0
          BY <1>0, HitsAre
    <3>. QED  BY <1>0, <2>1, <3>1, <3>2
  <2>2. CASE n # 0
    <3>1. PICK m \in Nat : n = m + 1 /\ m = n - 1 /\ m \in 0..RbgSyms
          BY <1>0, <2>2
    <3>2. g[m].index = at(m) /\ g[m].out = Cardinality(Hits(d, start, m))
          BY <3>1
    <3>3. at(n) = ((start + m) % F) + 1
      <4>1. (start + m) % F \in 0..(F - 1)
            BY <1>0, <3>1, ModRange
      <4>. QED  BY <2>2, <3>1, <4>1 DEF at
    <3>4. PICK i \in 0..(F - 1) : i = (start + m) % F
          BY <1>0, <3>1, ModRange
    <3>5. i = (IF at(m) >= F THEN 0 ELSE at(m))
          BY <1>3, <3>1, <3>4
    <3>6. Cardinality(Hits(d, start, n)) = Cardinality(Hits(d, start, m))
            + (IF Scheme[i + 1] = d THEN 1 ELSE 0)
      <4>1. Cardinality(Hits(d, start, m + 1)) = Cardinality(Hits(d, start, m))
              + (IF Scheme[1 + ((start + m) % F)] = d THEN 1 ELSE 0)
            BY <1>0, HitsAre, ZenonT(40)
      <4>2. 1 + i = i + 1
            BY <3>4
      <4>. QED  BY <3>1, <3>4, <4>1, <4>2
    <3>7. g[n] = [index |-> i + 1, out |-> Cardinality(Hits(d, start, m))
                                             + (IF Scheme[i + 1] = d THEN 1 ELSE 0)]
          BY <3>3, <3>4, <3>6
    <3>. HIDE DEF g
    <3>8. Body(g, n) = [index |-> i + 1, out |-> g[m].out + (IF Scheme[i + 1] = d THEN 1 ELSE 0)]
      <4>1. (IF g[n - 1].index >= FrameLen THEN 0 ELSE g[n - 1].index) = i
            BY <3>1, <3>2, <3>5
      <4>. QED  BY <2>2, <3>1, <4>1
    <3>. QED  BY <3>2, <3>7, <3>8
  <2>. QED  BY <2>1, <2>2
<1>5. g = W(g)
      BY <1>4
<1>6. walk = W(walk)
      BY <1>5, Zenon
<1>7. \A n \in 0..RbgSyms : walk[n] = Body(walk, n)
      BY <1>6, Zenon
<1>8. Walk(d, start) = walk[RbgSyms]
      BY Zenon DEF Walk
<1>. HIDE DEF walk
<1>. DEFINE T == {n \in Nat : n <= RbgSyms => walk[n] = g[n]}
<1>9. 0 \in T
  <2>1. 0 \in 0..RbgSyms /\ 0 \in Nat
        BY <1>0
  <2>2. walk[0] = Body(walk, 0) /\ g[0] = Body(g, 0)
        BY <1>4, <1>7, <2>1
  <2>. HIDE DEF g
  <2>3. walk[0] = [index |-> start, out |-> 0] /\ g[0] = [index |-> start, out |-> 0]
        BY <2>2
  <2>. QED  BY <2>1, <2>3
<1>10. ASSUME NEW n \in T
       PROVE  n + 1 \in T
  <2>. SUFFICES ASSUME n + 1 <= RbgSyms
                PROVE  walk[n + 1] = g[n + 1]
       OBVIOUS
  <2>1. /\ n \in Nat /\ n + 1 \in 0..RbgSyms /\ (n + 1) - 1 = n /\ n + 1 # 0
        /\ walk[n] = g[n]
        BY <1>0
  <2>2. walk[n + 1] = Body(walk, n + 1) /\ g[n + 1] = Body(g, n + 1)
        BY <1>4, <1>7, <2>1
  <2>. HIDE DEF g
  <2>3. Body(walk, n + 1) = Body(g, n + 1)
        BY <2>1
  <2>. QED  BY <2>2, <2>3
<1>. HIDE DEF T
<1>11. T = Nat
  <2>1. T \in SUBSET Nat
        BY DEF T
  <2>. QED  BY <1>9, <1>10, <2>1, AllOfNat
<1>12. Walk(d, start) = g[RbgSyms]
  <2>1. RbgSyms \in T /\ RbgSyms <= RbgSyms
        BY <1>0, <1>11
  <2>. HIDE DEF g
  <2>. QED  BY <1>8, <2>1 DEF T
<1>13. /\ Walk(d, start).out = Cardinality(Hits(d, start, RbgSyms))
       /\ Walk(d, start).index = at(RbgSyms)
      BY <1>0, <1>12
<1>14. at(RbgSyms) \in 0..F /\ (IF at(RbgSyms) >= F THEN 0 ELSE at(RbgSyms)) = (start + RbgSyms) % F
      BY <1>0, <1>1, <1>3
<1>15. at(RbgSyms) < F => at(RbgSyms) % F = at(RbgSyms)
      BY <1>0, <1>14, ModSmall
<1>16. at(RbgSyms) % F = (start + RbgSyms) % F
  <2>1. CASE at(RbgSyms) < F
        BY <1>0, <1>14, <1>15, <2>1
  <2>2. CASE at(RbgSyms) = F
        BY <1>0, <1>2, <1>14, <2>2
  <2>. QED  BY <1>0, <1>14, <2>1, <2>2
<1>. QED  BY <1>13, <1>14, <1>16

(* A recursion over 0..N with a value at every step has a solution.         *)
Recursion(N, S, a, h) ==
    \E g \in [0..N -> S] : g[0] = a /\ \A i \in 1..N : g[i] = h[i][g[i - 1]]

LEMMA RecExists ==
    ASSUME NEW N \in Nat, NEW S, NEW a \in S, NEW h \in [1..N -> [S -> S]]
    PROVE  Recursion(N, S, a, h)
<1>. DEFINE Sol(n, g) == g \in [0..n -> S] /\ g[0] = a /\ \A i \in 1..n : g[i] = h[i][g[i - 1]]
            T == {n \in Nat : n <= N => \E g : Sol(n, g)}
<1>1. 0 \in T
  <2>. DEFINE g == [i \in 0..0 |-> a]
  <2>1. g \in [0..0 -> S] /\ g[0] = a /\ 1..0 = {}
        OBVIOUS
  <2>2. Sol(0, g)
        BY <2>1
  <2>. QED  BY <2>2
<1>2. ASSUME NEW n \in T
      PROVE  n + 1 \in T
  <2>. SUFFICES ASSUME n + 1 <= N
                PROVE  \E g : Sol(n + 1, g)
       OBVIOUS
  <2>1. n \in Nat /\ n <= N /\ n + 1 \in 1..N
        OBVIOUS
  <2>2. PICK g : Sol(n, g)
        BY <2>1
  <2>. DEFINE k == [i \in 0..(n + 1) |-> IF i = n + 1 THEN h[n + 1][g[n]] ELSE g[i]]
  <2>3. g[n] \in S /\ h[n + 1] \in [S -> S]
        BY <2>1, <2>2
  <2>4. h[n + 1][g[n]] \in S
        BY <2>3
  <2>5. k \in [0..(n + 1) -> S]
        BY <2>1, <2>2, <2>4
  <2>6. k[0] = a
        BY <2>1, <2>2
  <2>7. \A i \in 1..(n + 1) : k[i] = h[i][k[i - 1]]
    <3>. SUFFICES ASSUME NEW i \in 1..(n + 1) PROVE k[i] = h[i][k[i - 1]]
         OBVIOUS
    <3>1. /\ i \in 0..(n + 1) /\ i - 1 \in 0..(n + 1) /\ i - 1 # n + 1
          /\ k[i - 1] = g[i - 1]
          BY <2>1
    <3>2. CASE i = n + 1
      <4>1. k[i] = h[n + 1][g[n]] /\ i - 1 = n
            BY <2>1, <3>1, <3>2
      <4>. QED  BY <3>1, <3>2, <4>1, Zenon
    <3>3. CASE i # n + 1
      <4>1. i \in 1..n /\ k[i] = g[i]
            BY <2>1, <3>1, <3>3
      <4>. QED  BY <2>2, <3>1, <4>1
    <3>. QED  BY <3>2, <3>3
  <2>8. Sol(n + 1, k)
        BY <2>5, <2>6, <2>7
  <2>. QED  BY <2>8, Zenon
<1>. HIDE DEF T
<1>3. T = Nat
  <2>1. T \in SUBSET Nat
        BY DEF T
  <2>. QED  BY <1>1, <1>2, <2>1, AllOfNat
<1>4. \E g : Sol(N, g)
      BY <1>3 DEF T
<1>. QED  BY <1>4 DEF Recursion
-----------------------------------------------------------------------------
(* The choice of an RBG, when it has symbols: the UE with data and the      *)
(* highest metric, or nobody, when every metric of a UE with data is below  *)
(* the one max_metric_handler::reset begins from.                           *)
LEMMA AssignedIs ==
    ASSUME NEW d \in Dirs, NEW f \in Freqs, syms[d] \in Nat, syms[d] > 0,
           \A u \in Ues : MetricOf(d, u, f) \in Int /\ HasData(d, u) \in BOOLEAN
    PROVE  \/ /\ Assigned(d, f) = None
              /\ \A u \in Ues : HasData(d, u) => MetricOf(d, u, f) < -1
           \/ /\ Assigned(d, f) \in Ues
              /\ HasData(d, Assigned(d, f))
              /\ MetricOf(d, Assigned(d, f), f) >= -1
              /\ \A u \in Ues : HasData(d, u) => MetricOf(d, u, f) <= MetricOf(d, Assigned(d, f), f)
<1>. DEFINE Body(b, n) ==
              IF n = 0 THEN ResetMetric
              ELSE IF HasData(d, n - 1) /\ MetricOf(d, n - 1, f) >= b[n - 1].value
                   THEN [ue |-> n - 1, value |-> MetricOf(d, n - 1, f)]
                   ELSE b[n - 1]
            B(b) == [n \in 0..NumUes |-> Body(b, n)]
            best == CHOOSE b : b = B(b)
            S == [ue : Int, value : Int]
            M(u) == MetricOf(d, u, f)
            D(u) == HasData(d, u)
            Step(n, b) == IF D(n - 1) /\ M(n - 1) >= b.value
                          THEN [ue |-> n - 1, value |-> M(n - 1)] ELSE b
            h == [n \in 1..NumUes |-> [b \in S |-> Step(n, b)]]
<1>0. NumUes \in Nat /\ NumUes > 0 /\ Ues = 0..(NumUes - 1)
      BY NumUesAssumption DEF Ues
<1>1. \A n \in 1..NumUes : n - 1 \in Ues /\ n - 1 \in Int /\ n # 0 /\ n \in 0..NumUes /\ n - 1 \in 0..NumUes
      BY <1>0
<1>2. \A u \in Ues : M(u) \in Int /\ D(u) \in BOOLEAN
      OBVIOUS
<1>3. ResetMetric \in S
      BY DEF ResetMetric, None
<1>4. Assigned(d, f) = best[NumUes].ue
      BY Zenon DEF Assigned
<1>. HIDE DEF M, D
<1>5. h \in [1..NumUes -> [S -> S]]
  <2>1. \A n \in 1..NumUes, b \in S : Step(n, b) \in S
        BY <1>1, <1>2
  <2>. HIDE DEF S, Step
  <2>. QED  BY <2>1
<1>. HIDE DEF S
<1>6. PICK g \in [0..NumUes -> S] : g[0] = ResetMetric /\ \A i \in 1..NumUes : g[i] = h[i][g[i - 1]]
  <2>1. NumUes \in Nat
        BY <1>0
  <2>. HIDE DEF h
  <2>2. Recursion(NumUes, S, ResetMetric, h)
        BY <1>3, <1>5, <2>1, RecExists
  <2>. QED  BY <2>2 DEF Recursion
<1>7. g = B(g)
  <2>1. \A n \in 1..NumUes : g[n] = Step(n, g[n - 1])
    <3>1. \A n \in 1..NumUes : g[n - 1] \in S
          BY <1>1, <1>6
    <3>. HIDE DEF Step
    <3>. QED  BY <1>6, <3>1
  <2>2. \A n \in 1..NumUes : Step(n, g[n - 1]) = Body(g, n)
        BY <1>1, Zenon DEF M, D
  <2>3. \A n \in 0..NumUes : n = 0 \/ n \in 1..NumUes
        BY <1>0
  <2>4. Body(g, 0) = ResetMetric
        OBVIOUS
  <2>. HIDE DEF Body
  <2>5. \A n \in 0..NumUes : g[n] = Body(g, n)
        BY <1>6, <2>1, <2>2, <2>3, <2>4, Zenon
  <2>. QED  BY <2>5
<1>8. best = B(best)
  <2>. HIDE DEF B
  <2>. QED  BY <1>7, Zenon
<1>. HIDE DEF best
<1>9. best[0] = ResetMetric /\ \A n \in 1..NumUes : best[n] = Step(n, best[n - 1])
  <2>1. \A n \in 0..NumUes : best[n] = Body(best, n)
    <3>. HIDE DEF Body
    <3>. QED  BY <1>8
  <2>2. \A n \in 1..NumUes : Body(best, n) = Step(n, best[n - 1])
        BY <1>1, Zenon DEF M, D
  <2>3. Body(best, 0) = ResetMetric /\ 0 \in 0..NumUes
        BY <1>0
  <2>. HIDE DEF Body, Step
  <2>. QED  BY <1>1, <2>1, <2>2, <2>3
<1>. DEFINE Good(n, b) ==
              \/ b = ResetMetric /\ \A u \in Ues : (u < n /\ D(u)) => M(u) < -1
              \/ /\ b \in S /\ b.ue \in Ues /\ D(b.ue) /\ b.value = M(b.ue) /\ b.value >= -1
                 /\ \A u \in Ues : (u < n /\ D(u)) => M(u) <= b.value
            T == {n \in Nat : n <= NumUes => Good(n, best[n])}
<1>10. 0 \in T
       BY <1>0, <1>9
<1>11. ASSUME NEW n \in T
       PROVE  n + 1 \in T
  <2>. SUFFICES ASSUME n + 1 <= NumUes
                PROVE  Good(n + 1, best[n + 1])
       OBVIOUS
  <2>1. n \in Nat /\ n <= NumUes /\ n + 1 \in 1..NumUes /\ n \in Ues /\ (n + 1) - 1 = n
        BY <1>0
  <2>2. best[n + 1] = Step(n + 1, best[n])
        BY <1>9, <2>1
  <2>3. PICK b : b = best[n]
        OBVIOUS
  <2>4. Good(n, b)
    <3>1. Good(n, best[n])
          BY <2>1
    <3>. HIDE DEF Good
    <3>. QED  BY <2>3, <3>1, Zenon
  <2>5. Step(n + 1, b) = (IF D(n) /\ M(n) >= b.value THEN [ue |-> n, value |-> M(n)] ELSE b)
        BY <2>1
  <2>6. \A u \in Ues : u < n + 1 => (u < n \/ u = n)
        BY <1>0, <2>1
  <2>7. b.value \in Int /\ b \in S
    <3>1. b \in S
          BY <1>3, <2>4
    <3>. QED  BY <3>1 DEF S
  <2>8. M(n) \in Int /\ \A u \in Ues : M(u) \in Int
        BY <1>2, <2>1
  <2>9. CASE D(n) /\ M(n) >= b.value
    <3>. DEFINE c == [ue |-> n, value |-> M(n)]
    <3>1. best[n + 1] = c
          BY <2>2, <2>3, <2>5, <2>9
    <3>2. c \in S /\ c.ue \in Ues /\ D(c.ue) /\ c.value = M(c.ue)
          BY <2>1, <2>8, <2>9 DEF S
    <3>3. b.value >= -1
          BY <2>4 DEF ResetMetric
    <3>4. \A u \in Ues : (u < n + 1 /\ D(u)) => M(u) <= M(n)
      <4>1. CASE b = ResetMetric /\ \A u \in Ues : (u < n /\ D(u)) => M(u) < -1
            BY <2>6, <2>7, <2>8, <2>9, <3>3, <4>1
      <4>2. CASE ~(b = ResetMetric /\ \A u \in Ues : (u < n /\ D(u)) => M(u) < -1)
        <5>1. \A u \in Ues : (u < n /\ D(u)) => M(u) <= b.value
              BY <2>4, <4>2
        <5>. QED  BY <2>6, <2>7, <2>8, <2>9, <5>1
      <4>. QED  BY <4>1, <4>2
    <3>5. c.value = M(n) /\ c.value >= -1
          BY <2>7, <2>8, <2>9, <3>3
    <3>6. \A u \in Ues : (u < n + 1 /\ D(u)) => M(u) <= c.value
          BY <3>4, <3>5
    <3>. HIDE DEF c
    <3>7. Good(n + 1, c)
          BY <3>2, <3>5, <3>6
    <3>. QED  BY <3>1, <3>7
  <2>10. CASE ~(D(n) /\ M(n) >= b.value)
    <3>1. best[n + 1] = b
          BY <2>2, <2>3, <2>5, <2>10
    <3>2. D(n) => M(n) < b.value
          BY <2>7, <2>8, <2>10
    <3>3. CASE b = ResetMetric /\ \A u \in Ues : (u < n /\ D(u)) => M(u) < -1
      <4>1. b.value = -1
            BY <3>3 DEF ResetMetric
      <4>2. \A u \in Ues : (u < n + 1 /\ D(u)) => M(u) < -1
            BY <2>6, <3>2, <3>3, <4>1
      <4>. QED  BY <3>1, <3>3, <4>2
    <3>4. CASE ~(b = ResetMetric /\ \A u \in Ues : (u < n /\ D(u)) => M(u) < -1)
      <4>1. /\ b \in S /\ b.ue \in Ues /\ D(b.ue) /\ b.value = M(b.ue) /\ b.value >= -1
            /\ \A u \in Ues : (u < n /\ D(u)) => M(u) <= b.value
            BY <2>4, <3>4
      <4>2. \A u \in Ues : (u < n + 1 /\ D(u)) => M(u) <= b.value
            BY <2>6, <2>7, <2>8, <3>2, <4>1
      <4>. QED  BY <3>1, <4>1, <4>2
    <3>. QED  BY <3>3, <3>4
  <2>. QED  BY <2>9, <2>10
<1>. HIDE DEF T, Good
<1>12. T = Nat
  <2>1. T \in SUBSET Nat
        BY DEF T
  <2>. QED  BY <1>10, <1>11, <2>1, AllOfNat
<1>13. Good(NumUes, best[NumUes])
      BY <1>0, <1>12 DEF T
<1>14. \A u \in Ues : u < NumUes
      BY <1>0
<1>15. PICK b : b = best[NumUes]
      OBVIOUS
<1>16. CASE b = ResetMetric /\ \A u \in Ues : (u < NumUes /\ D(u)) => M(u) < -1
  <2>1. Assigned(d, f) = None
        BY <1>4, <1>15, <1>16 DEF ResetMetric
  <2>. QED  BY <1>14, <1>16, <2>1 DEF D, M
<1>17. CASE ~(b = ResetMetric /\ \A u \in Ues : (u < NumUes /\ D(u)) => M(u) < -1)
  <2>1. /\ b.ue \in Ues /\ D(b.ue) /\ b.value = M(b.ue) /\ b.value >= -1
        /\ \A u \in Ues : (u < NumUes /\ D(u)) => M(u) <= b.value
        BY <1>13, <1>15, <1>17 DEF Good
  <2>2. Assigned(d, f) = b.ue
        BY <1>4, <1>15
  <2>3. \A u \in Ues : D(u) => M(u) <= M(b.ue)
        BY <1>14, <2>1
  <2>. QED  BY <2>1, <2>2, <2>3 DEF D, M
<1>. QED  BY <1>16, <1>17
-----------------------------------------------------------------------------
(* Types.                                                                   *)
PosType == [at : {"before", "slot", "rbg", "after"}, t : 0..(NumTime - 1), f : Freqs]
RrType == [index : Ues, prev_f : Freqs \cup {-1}]

LEMMA Sizes ==
    /\ NumUes \in Nat /\ NumUes > 0 /\ Ues = 0..(NumUes - 1)
    /\ NumFreq \in Nat /\ NumFreq > 1 /\ Freqs = 0..(NumFreq - 1)
    /\ NumTime \in Nat /\ NumTime > 0 /\ RbgSyms \in Nat
    /\ 0 \in Ues /\ 0 \in Freqs /\ None \notin Ues
    /\ MaxBacklog \in Nat /\ Rates \cup {0} \subseteq Nat /\ Metrics \cup {0} \subseteq Int
BY NumUesAssumption, NumFreqAssumption, NumTimeAssumption, SymsAssumption, DataAssumption
   DEF Ues, Freqs, None

(* The round-robin index stays an index, whatever frequency is asked for.   *)
LEMMA NextRrType ==
    ASSUME NEW m \in RrType, NEW f \in Freqs
    PROVE  NextRr(m, f) \in RrType
BY Sizes DEF RrType, NextRr

LEMMA AfterType ==
    ASSUME NEW p \in PosType
    PROVE  After(p) \in PosType
<1>1. p.t \in 0..(NumTime - 1) /\ p.f \in 0..(NumFreq - 1) /\ p.at \in {"before", "slot", "rbg", "after"}
      BY Sizes DEF PosType
<1>2. CASE p.f + 1 < NumFreq
  <2>1. p.f + 1 \in Freqs
        BY <1>1, <1>2, Sizes
  <2>. QED  BY <1>2, <2>1 DEF PosType, After
<1>3. CASE ~(p.f + 1 < NumFreq) /\ p.t + 1 < NumTime
  <2>1. p.t + 1 \in 0..(NumTime - 1)
        BY <1>1, <1>3, Sizes
  <2>. QED  BY <1>3, <2>1, Sizes DEF PosType, After
<1>4. CASE ~(p.f + 1 < NumFreq) /\ ~(p.t + 1 < NumTime)
  <2>1. 0 \in 0..(NumTime - 1)
        BY Sizes
  <2>. QED  BY <1>4, <2>1, Sizes DEF PosType, After
<1>. QED  BY <1>2, <1>3, <1>4

(* Metrics are numbers, and having data is true or false.                   *)
LEMMA MetricType ==
    ASSUME TypeOK, NEW d \in Dirs, NEW f \in Freqs, NEW u \in Ues
    PROVE  MetricOf(d, u, f) \in Int /\ HasData(d, u) \in BOOLEAN
<1>1. metric[d][u] \in Int
  <2>1. metric[d][u] \in Metrics \cup {0}
        BY DEF TypeOK
  <2>. QED  BY <2>1, Sizes
<1>2. MetricOf(d, u, f) \in Int
      BY <1>1 DEF MetricOf
<1>3. HasData(d, u) \in BOOLEAN
      BY Zenon DEF HasData
<1>. QED  BY <1>2, <1>3

(* What an RBG chooses: somebody with data, or nobody.                      *)
LEMMA ChosenType ==
    ASSUME TypeOK, NEW d \in Dirs, NEW f \in Freqs
    PROVE  /\ Assigned(d, f) \in Ues \cup {None}
           /\ Assigned(d, f) # None => syms[d] > 0 /\ HasData(d, Assigned(d, f))
<1>1. syms[d] \in Nat
  <2>1. syms[d] \in 0..RbgSyms
        BY DEF TypeOK
  <2>. QED  BY <2>1, Sizes
<1>2. CASE syms[d] > 0
  <2>1. \A u \in Ues : MetricOf(d, u, f) \in Int /\ HasData(d, u) \in BOOLEAN
        BY MetricType
  <2>. QED  BY <1>1, <1>2, <2>1, AssignedIs, Zenon
<1>3. CASE ~ syms[d] > 0
  <2>1. Assigned(d, f) = None
        BY <1>3, Zenon DEF Assigned
  <2>. QED  BY <2>1
<1>. QED  BY <1>2, <1>3

LEMMA TypeInit ==
    Init => TypeOK
<1>. SUFFICES ASSUME Init PROVE TypeOK
     OBVIOUS
<1>1. Before \in [at : {"before", "slot", "rbg", "after"}, t : 0..(NumTime - 1), f : Freqs]
      BY Sizes DEF Before
<1>2. [index |-> 0, prev_f |-> -1] \in [index : Ues, prev_f : Freqs \cup {-1}]
      BY Sizes
<1>3. FrameLen \in Nat
      BY FrameIs
<1>. QED  BY <1>1, <1>2, <1>3, Sizes DEF Init, TypeOK

LEMMA TypeStep ==
    TypeOK /\ [Next]_vars => TypeOK'
<1>. SUFFICES ASSUME TypeOK, [Next]_vars PROVE TypeOK'
     OBVIOUS
<1>0. /\ phase \in {"mac", "ue"} /\ pos \in [Dirs -> PosType] /\ syms \in [Dirs -> 0..RbgSyms]
      /\ c_index \in [Dirs -> 0..FrameLen] /\ rr \in [Dirs -> [Ues -> RrType]]
      /\ backlog \in [Dirs -> [Ues -> 0..MaxBacklog]] /\ rate \in [Dirs -> [Ues -> Rates \cup {0}]]
      /\ metric \in [Dirs -> [Ues -> Metrics \cup {0}]] /\ active \in [Dirs -> SUBSET Ues]
      /\ scheduled \in [Dirs -> SUBSET Ues] /\ last \in [Dirs -> Ues \cup {None}]
      /\ todo \subseteq Ues /\ frame \in Nat /\ waited \in [Dirs -> [Ues -> 0..NumUes]]
      BY DEF TypeOK, PosType, RrType
<1>a. \A p \in PosType, a \in {"before", "slot", "rbg", "after"} : [p EXCEPT !.at = a] \in PosType
      BY DEF PosType
<1>1. ASSUME NEW d \in Dirs, Begin(d) PROVE TypeOK'
  <2>1. pos' \in [Dirs -> PosType]
        BY <1>0, <1>1, <1>a DEF Begin
  <2>2. active' \in [Dirs -> SUBSET Ues] /\ scheduled' \in [Dirs -> SUBSET Ues]
        BY <1>0, <1>1 DEF Begin
  <2>. QED  BY <1>0, <1>1, <2>1, <2>2 DEF TypeOK, Begin, ues, PosType, RrType
<1>2. ASSUME NEW d \in Dirs, Slot(d) PROVE TypeOK'
  <2>1. pos' \in [Dirs -> PosType]
        BY <1>0, <1>2, <1>a DEF Slot
  <2>2. c_index[d] \in 0..FrameLen
        BY <1>0
  <2>3. GetSyms(d).out \in 0..RbgSyms /\ GetSyms(d).index \in 0..FrameLen
    <3>1. c_index[d] \in Nat /\ RbgSyms \in Nat
          BY <2>2, FrameIs, Sizes
    <3>2. Cardinality(Hits(d, c_index[d], RbgSyms)) \in 0..RbgSyms
          BY <3>1, HitsAre
    <3>. QED  BY <2>2, <3>2, WalkIs DEF GetSyms
  <2>4. RbgSyms \in 0..RbgSyms
        BY Sizes
  <2>5. syms' \in [Dirs -> 0..RbgSyms] /\ c_index' \in [Dirs -> 0..FrameLen]
        BY <1>0, <1>2, <2>3, <2>4 DEF Slot
  <2>. QED  BY <1>0, <1>2, <2>1, <2>5 DEF TypeOK, Slot, ues, PosType, RrType
<1>3. ASSUME NEW d \in Dirs, Rbg(d) PROVE TypeOK'
  <2>1. PICK f, u : f = pos[d].f /\ u = Assigned(d, f)
        OBVIOUS
  <2>2. f \in Freqs /\ pos[d] \in PosType
        BY <1>0, <2>1 DEF PosType
  <2>3. u \in Ues \cup {None}
        BY <2>1, <2>2, ChosenType
  <2>4. pos' \in [Dirs -> PosType]
    <3>1. pos' = [pos EXCEPT ![d] = After(pos[d])]
          BY <1>3 DEF Rbg
    <3>2. After(pos[d]) \in PosType
          BY <2>2, AfterType
    <3>. QED  BY <1>0, <3>1, <3>2
  <2>5. rr' \in [Dirs -> [Ues -> RrType]]
    <3>1. rr' = [rr EXCEPT ![d] = IF syms[d] > 0 THEN [v \in Ues |-> NextRr(rr[d][v], f)] ELSE rr[d]]
          BY <1>3, <2>1 DEF Rbg
    <3>2. \A v \in Ues : rr[d][v] \in RrType
          BY <1>0
    <3>3. \A v \in Ues : NextRr(rr[d][v], f) \in RrType
          BY <2>2, <3>2, NextRrType
    <3>. QED  BY <1>0, <3>1, <3>3
  <2>6. last' \in [Dirs -> Ues \cup {None}]
        BY <1>0, <1>3, <2>1, <2>3 DEF Rbg
  <2>7. scheduled' \in [Dirs -> SUBSET Ues]
    <3>1. scheduled' = [scheduled EXCEPT ![d] = IF u = None THEN scheduled[d] ELSE scheduled[d] \cup {u}]
          BY <1>3, <2>1 DEF Rbg
    <3>2. (IF u = None THEN scheduled[d] ELSE scheduled[d] \cup {u}) \in SUBSET Ues
          BY <1>0, <2>3
    <3>. QED  BY <1>0, <3>1, <3>2
  <2>8. backlog' \in [Dirs -> [Ues -> 0..MaxBacklog]]
    <3>1. backlog' = [backlog EXCEPT ![d] =
                        [v \in Ues |-> IF v # u THEN backlog[d][v]
                                       ELSE IF backlog[d][v] > rate[d][v] * syms[d]
                                       THEN backlog[d][v] - rate[d][v] * syms[d] ELSE 0]]
          BY <1>3, <2>1 DEF Rbg
    <3>2. \A v \in Ues : (IF v # u THEN backlog[d][v]
                          ELSE IF backlog[d][v] > rate[d][v] * syms[d]
                          THEN backlog[d][v] - rate[d][v] * syms[d] ELSE 0) \in 0..MaxBacklog
      <4>. SUFFICES ASSUME NEW v \in Ues
                    PROVE  (IF v # u THEN backlog[d][v]
                            ELSE IF backlog[d][v] > rate[d][v] * syms[d]
                            THEN backlog[d][v] - rate[d][v] * syms[d] ELSE 0) \in 0..MaxBacklog
           OBVIOUS
      <4>1. backlog[d][v] \in 0..MaxBacklog /\ rate[d][v] \in Nat /\ syms[d] \in Nat
        <5>1. /\ backlog[d][v] \in 0..MaxBacklog /\ rate[d][v] \in Rates \cup {0}
              /\ syms[d] \in 0..RbgSyms
              BY <1>0
        <5>. QED  BY <5>1, Sizes
      <4>2. PICK k \in Nat : k = rate[d][v] * syms[d]
        <5>1. rate[d][v] * syms[d] \in Nat
              BY <4>1
        <5>. QED  BY <5>1
      <4>. QED  BY <4>1, <4>2, Sizes
    <3>. QED  BY <1>0, <3>1, <3>2
  <2>9. waited' \in [Dirs -> [Ues -> 0..NumUes]]
    <3>1. waited' = [waited EXCEPT ![d] =
                       [v \in Ues |-> IF v = u \/ ~HasData(d, v) THEN 0
                                      ELSE IF syms[d] > 0 /\ waited[d][v] < NumUes THEN waited[d][v] + 1
                                      ELSE waited[d][v]]]
          BY <1>3, <2>1 DEF Rbg
    <3>2. \A v \in Ues : (IF v = u \/ ~HasData(d, v) THEN 0
                          ELSE IF syms[d] > 0 /\ waited[d][v] < NumUes THEN waited[d][v] + 1
                          ELSE waited[d][v]) \in 0..NumUes
      <4>. SUFFICES ASSUME NEW v \in Ues
                    PROVE  (IF v = u \/ ~HasData(d, v) THEN 0
                            ELSE IF syms[d] > 0 /\ waited[d][v] < NumUes THEN waited[d][v] + 1
                            ELSE waited[d][v]) \in 0..NumUes
           OBVIOUS
      <4>1. waited[d][v] \in 0..NumUes
            BY <1>0
      <4>2. CASE v = u \/ ~HasData(d, v)
            BY <4>2, Sizes
      <4>3. CASE ~(v = u \/ ~HasData(d, v))
        <5>1. (IF syms[d] > 0 /\ waited[d][v] < NumUes THEN waited[d][v] + 1
               ELSE waited[d][v]) \in 0..NumUes
              BY <4>1, Sizes
        <5>. QED  BY <4>3, <5>1, Zenon
      <4>. QED  BY <4>2, <4>3
    <3>. QED  BY <1>0, <3>1, <3>2
  <2>10. UNCHANGED <<phase, syms, c_index, active, rate, metric, todo, frame>>
        BY <1>3 DEF Rbg
  <2>. QED  BY <1>0, <2>4, <2>5, <2>6, <2>7, <2>8, <2>9, <2>10 DEF TypeOK, PosType, RrType
<1>4. ASSUME MacDone PROVE TypeOK'
  <2>1. Before \in PosType
        BY Sizes DEF Before, PosType
  <2>2. frame' \in Nat
    <3>1. frame + NumTime * RbgSyms \in Nat
      <4>1. NumTime * RbgSyms \in Nat
            BY Sizes, Product
      <4>. QED  BY <1>0, <4>1
    <3>2. (frame + NumTime * RbgSyms) % FrameLen \in 0..(FrameLen - 1)
          BY <3>1, FrameIs, ModRange
    <3>. QED  BY <1>4, <3>2, FrameIs DEF MacDone
  <2>. QED  BY <1>0, <1>4, <2>1, <2>2 DEF TypeOK, MacDone, ues, PosType, RrType
<1>5. ASSUME NEW u \in Ues, UeStep(u) PROVE TypeOK'
  <2>1. PICK b \in [Dirs -> 0..MaxBacklog], r \in [Dirs -> Rates],
             m \in [Dirs -> IF RoundRobin THEN {0} ELSE Metrics] :
          /\ backlog' = [d \in Dirs |-> [backlog[d] EXCEPT ![u] = b[d]]]
          /\ rate' = [d \in Dirs |-> [rate[d] EXCEPT ![u] = r[d]]]
          /\ metric' = [d \in Dirs |-> [metric[d] EXCEPT ![u] = m[d]]]
        BY <1>5 DEF UeStep
  <2>2. backlog' \in [Dirs -> [Ues -> 0..MaxBacklog]]
        BY <1>0, <2>1
  <2>3. rate' \in [Dirs -> [Ues -> Rates \cup {0}]]
        BY <1>0, <2>1
  <2>4. metric' \in [Dirs -> [Ues -> Metrics \cup {0}]]
    <3>1. \A d \in Dirs : m[d] \in Metrics \cup {0}
          BY <2>1
    <3>. QED  BY <1>0, <2>1, <3>1
  <2>. QED  BY <1>0, <1>5, <2>2, <2>3, <2>4 DEF TypeOK, UeStep, grid, PosType, RrType
<1>6. ASSUME UesDone PROVE TypeOK'
      BY <1>0, <1>6 DEF TypeOK, UesDone, grid, ues, PosType, RrType
<1>7. ASSUME UNCHANGED vars PROVE TypeOK'
      BY <1>0, <1>7 DEF TypeOK, vars, grid, ues, PosType, RrType
<1>. QED  BY <1>1, <1>2, <1>3, <1>4, <1>5, <1>6, <1>7 DEF Next

(* In every state the grids are at one of their places and the numbers of   *)
(* the scheduler within what its loops give them.                           *)
THEOREM TypeCorrect == Spec => []TypeOK
<1>1. Init => TypeOK
      BY TypeInit
<1>2. TypeOK /\ [Next]_vars => TypeOK'
      BY TypeStep
<1>. QED  BY <1>1, <1>2, PTL DEF Spec
-----------------------------------------------------------------------------
(* What a step is for one direction: its own, one of the whole MAC, or none *)
(* of its business.                                                         *)
Idle(d) ==
    /\ pos'[d] = pos[d] /\ syms'[d] = syms[d] /\ c_index'[d] = c_index[d]
    /\ rr'[d] = rr[d] /\ backlog'[d] = backlog[d] /\ active'[d] = active[d]
    /\ scheduled'[d] = scheduled[d] /\ waited'[d] = waited[d] /\ frame' = frame
    /\ phase' = "ue" => phase = "ue"

(* A step of the MAC or of the UEs in which a grid does not move.           *)
UesMove(d) ==
    /\ phase = "ue" /\ phase' = phase
    /\ UNCHANGED <<grid, frame, waited>>

LEMMA StepOf ==
    ASSUME TypeOK, [Next]_vars, NEW d \in Dirs
    PROVE  Begin(d) \/ Slot(d) \/ Rbg(d) \/ MacDone \/ UesMove(d) \/ Idle(d)
<1>0. /\ pos \in [Dirs -> PosType] /\ syms \in [Dirs -> 0..RbgSyms]
      /\ c_index \in [Dirs -> 0..FrameLen] /\ rr \in [Dirs -> [Ues -> RrType]]
      /\ backlog \in [Dirs -> [Ues -> 0..MaxBacklog]] /\ active \in [Dirs -> SUBSET Ues]
      /\ scheduled \in [Dirs -> SUBSET Ues] /\ waited \in [Dirs -> [Ues -> 0..NumUes]]
      /\ last \in [Dirs -> Ues \cup {None}]
      BY DEF TypeOK, PosType, RrType
<1>1. ASSUME NEW e \in Dirs, e # d, Begin(e) PROVE Idle(d)
      BY <1>0, <1>1 DEF Begin, Idle, ues
<1>2. ASSUME NEW e \in Dirs, e # d, Slot(e) PROVE Idle(d)
      BY <1>0, <1>2 DEF Slot, Idle, ues
<1>3. ASSUME NEW e \in Dirs, e # d, Rbg(e) PROVE Idle(d)
  <2>1. PICK p, r, b, s, w : /\ pos' = [pos EXCEPT ![e] = p] /\ rr' = [rr EXCEPT ![e] = r]
                             /\ backlog' = [backlog EXCEPT ![e] = b]
                             /\ scheduled' = [scheduled EXCEPT ![e] = s]
                             /\ waited' = [waited EXCEPT ![e] = w]
        BY <1>3, Zenon DEF Rbg
  <2>2. UNCHANGED <<phase, syms, c_index, active, frame>>
        BY <1>3 DEF Rbg
  <2>. QED  BY <1>0, <1>3, <2>1, <2>2 DEF Idle
<1>4. ASSUME NEW u \in Ues, UeStep(u) PROVE UesMove(d)
      BY <1>4, Zenon DEF UeStep, UesMove
<1>5. ASSUME UesDone PROVE Idle(d)
      BY <1>5 DEF UesDone, Idle, grid, ues
<1>6. ASSUME UNCHANGED vars PROVE Idle(d)
      BY <1>6 DEF vars, Idle, grid, ues
<1>7. CASE \E e \in Dirs : Begin(e) \/ Slot(e) \/ Rbg(e)
      BY <1>1, <1>2, <1>3, <1>7, Zenon
<1>. QED  BY <1>4, <1>5, <1>6, <1>7, Zenon DEF Next

LEMMA PosStep ==
    ASSUME TypeOK, PosInv, [Next]_vars
    PROVE  PosInv'
<1>. SUFFICES ASSUME NEW d \in Dirs PROVE PosOf(d)'
     BY DEF PosInv
<1>0. PosOf(d) /\ pos \in [Dirs -> PosType] /\ pos[d] \in PosType
      BY DEF PosInv, TypeOK, PosType
<1>1. CASE Begin(d)
      BY <1>0, <1>1 DEF Begin, PosOf, PosType
<1>2. CASE Slot(d)
      BY <1>0, <1>2 DEF Slot, PosOf, PosType
<1>3. CASE Rbg(d)
  <2>1. pos'[d] = After(pos[d]) /\ pos[d].at = "rbg" /\ phase' = phase
        BY <1>0, <1>3 DEF Rbg
  <2>2. phase # "ue"
        BY <1>0, <2>1 DEF PosOf
  <2>. QED  BY <1>0, <2>1, <2>2 DEF PosOf, After, PosType
<1>4. CASE MacDone
      BY <1>4 DEF MacDone, PosOf, Before
<1>5. CASE UesMove(d)
      BY <1>0, <1>5 DEF UesMove, PosOf, grid
<1>6. CASE Idle(d)
      BY <1>0, <1>6 DEF Idle, PosOf
<1>. QED  BY <1>1, <1>2, <1>3, <1>4, <1>5, <1>6, StepOf
-----------------------------------------------------------------------------
(* Symbols of the frame: counted from places of the frame that agree, they  *)
(* are the same.                                                            *)
LEMMA HitsSame ==
    ASSUME NEW d, NEW a \in Nat, NEW b \in Nat, a % FrameLen = b % FrameLen
    PROVE  Hits(d, a, RbgSyms) = Hits(d, b, RbgSyms)
<1>1. \A k \in 0..(RbgSyms - 1) : (a + k) % FrameLen = (b + k) % FrameLen
  <2>1. \A k \in 0..(RbgSyms - 1) : k \in Nat
        BY Sizes
  <2>2. SameMod(a, b, FrameLen)
        BY DEF SameMod
  <2>3. \A k \in 0..(RbgSyms - 1) : SameMod(a + k, b + k, FrameLen)
        BY <2>1, <2>2, FrameIs, ModAdd
  <2>. QED  BY <2>3 DEF SameMod
<1>. QED  BY <1>1 DEF Hits

LEMMA CursorStep ==
    ASSUME TypeOK, PosInv, CursorInv, [Next]_vars
    PROVE  CursorInv'
<1>. SUFFICES ASSUME NEW d \in Dirs, Tdd PROVE CursorOf(d)'
     BY DEF CursorInv, CursorOf
<1>. DEFINE F == FrameLen
<1>0. /\ PosOf(d) /\ CursorOf(d) /\ pos \in [Dirs -> PosType] /\ pos[d] \in PosType
      /\ c_index \in [Dirs -> 0..F] /\ c_index[d] \in 0..F /\ syms \in [Dirs -> 0..RbgSyms]
      /\ frame \in Nat
      BY DEF PosInv, CursorInv, TypeOK, PosType
<1>n. RbgSyms \in Nat /\ NumTime \in Nat /\ F \in Nat \ {0} /\ c_index[d] \in Nat
      BY <1>0, Sizes, FrameIs
<1>t. pos[d].t \in Nat /\ pos[d].t < NumTime /\ pos[d].at \in {"before", "slot", "rbg", "after"}
      BY <1>0, Sizes DEF PosType
<1>c. c_index[d] % F = (frame + (SlotsRead(d) * RbgSyms)) % F
      BY <1>0 DEF CursorOf
<1>1. CASE Begin(d)
  <2>1. /\ pos'[d].at = "slot" /\ pos[d].at = "before" /\ pos'[d].t = pos[d].t
        /\ c_index' = c_index /\ frame' = frame
        BY <1>0, <1>1 DEF Begin, PosType
  <2>2. SlotsRead(d)' = SlotsRead(d)
        BY <2>1 DEF SlotsRead
  <2>. QED  BY <1>0, <2>1, <2>2 DEF CursorOf
<1>2. CASE Slot(d)
  <2>1. /\ pos'[d].at = "rbg" /\ pos[d].at = "slot" /\ pos'[d].t = pos[d].t
        /\ c_index'[d] = Walk(d, c_index[d]).index /\ syms'[d] = Walk(d, c_index[d]).out
        /\ frame' = frame
        BY <1>0, <1>2 DEF Slot, GetSyms, PosType
  <2>2. PICK t \in Nat : t = pos[d].t
        BY <1>t
  <2>3. SlotsRead(d) = t /\ SlotsRead(d)' = t + 1
        BY <2>1, <2>2 DEF SlotsRead
  <2>4. PICK k \in Nat : k = frame + (t * RbgSyms) /\ k + RbgSyms = frame + ((t + 1) * RbgSyms)
    <3>1. PICK x \in Nat : x = t * RbgSyms
          BY <1>n, Product
    <3>2. (t + 1) * RbgSyms = x + RbgSyms
          BY <1>n, <3>1
    <3>. QED  BY <1>0, <1>n, <3>1, <3>2
  <2>5. c_index[d] % F = k % F
        BY <1>c, <2>3, <2>4
  <2>6. (c_index[d] + RbgSyms) % F = (k + RbgSyms) % F
    <3>1. SameMod(c_index[d], k, F)
          BY <2>5 DEF SameMod
    <3>2. SameMod(c_index[d] + RbgSyms, k + RbgSyms, F)
          BY <1>n, <3>1, ModAdd
    <3>. QED  BY <3>2 DEF SameMod
  <2>7. Hits(d, c_index[d], RbgSyms) = Hits(d, k, RbgSyms)
        BY <1>n, <2>5, HitsSame
  <2>8. /\ Walk(d, c_index[d]).out = Cardinality(Hits(d, c_index[d], RbgSyms))
        /\ Walk(d, c_index[d]).index % F = (c_index[d] + RbgSyms) % F
        BY <1>0, WalkIs
  <2>9. c_index'[d] % F = (frame' + (SlotsRead(d)' * RbgSyms)) % F
        BY <2>1, <2>3, <2>4, <2>6, <2>8
  <2>10. syms'[d] = Cardinality(Hits(d, frame' + (pos'[d].t * RbgSyms), RbgSyms))
        BY <2>1, <2>2, <2>4, <2>7, <2>8
  <2>. QED  BY <2>9, <2>10 DEF CursorOf
<1>3. CASE Rbg(d)
  <2>1. /\ pos'[d] = After(pos[d]) /\ pos[d].at = "rbg"
        /\ c_index' = c_index /\ syms' = syms /\ frame' = frame
        BY <1>0, <1>3 DEF Rbg
  <2>2. CASE pos[d].f + 1 < NumFreq
    <3>1. pos'[d].at = "rbg" /\ pos'[d].t = pos[d].t
          BY <1>0, <2>1, <2>2 DEF After, PosType
    <3>2. SlotsRead(d)' = SlotsRead(d)
          BY <2>1, <3>1 DEF SlotsRead
    <3>. QED  BY <1>0, <2>1, <3>1, <3>2 DEF CursorOf
  <2>3. CASE ~(pos[d].f + 1 < NumFreq)
    <3>1. /\ pos'[d].at # "rbg"
          /\ \/ pos'[d].at = "slot" /\ pos'[d].t = pos[d].t + 1
             \/ pos'[d].at = "after" /\ pos[d].t + 1 = NumTime
          BY <1>0, <1>n, <1>t, <2>1, <2>3 DEF After, PosType
    <3>2. SlotsRead(d)' = SlotsRead(d)
          BY <2>1, <3>1 DEF SlotsRead
    <3>. QED  BY <1>0, <2>1, <3>1, <3>2 DEF CursorOf
  <2>. QED  BY <2>2, <2>3
<1>4. CASE MacDone
  <2>1. /\ pos[d].at = "after" /\ pos'[d] = Before /\ c_index' = c_index
        /\ frame' = (frame + NumTime * RbgSyms) % F
        BY <1>4 DEF MacDone
  <2>2. SlotsRead(d) = NumTime /\ SlotsRead(d)' = 0 /\ pos'[d].at # "rbg"
        BY <2>1 DEF SlotsRead, Before
  <2>3. PICK k \in Nat : k = frame + (NumTime * RbgSyms)
    <3>1. PICK x \in Nat : x = NumTime * RbgSyms
          BY <1>n, Product
    <3>. QED  BY <1>0, <3>1
  <2>4. PICK r \in 0..(F - 1) : r = k % F
        BY <1>n, ModRange
  <2>5. r % F = r
        BY <1>n, ModSmall
  <2>6. frame' = r /\ frame' + (0 * RbgSyms) = r
        BY <1>n, <2>1, <2>3, <2>4
  <2>7. c_index'[d] % F = (frame' + (SlotsRead(d)' * RbgSyms)) % F
        BY <1>c, <2>1, <2>2, <2>3, <2>4, <2>5, <2>6
  <2>. QED  BY <2>2, <2>7 DEF CursorOf
<1>5. CASE UesMove(d)
  <2>1. pos' = pos /\ c_index' = c_index /\ syms' = syms /\ frame' = frame
        BY <1>5 DEF UesMove, grid
  <2>. QED  BY <1>0, <2>1 DEF CursorOf, SlotsRead
<1>6. CASE Idle(d)
  <2>1. SlotsRead(d)' = SlotsRead(d)
        BY <1>6 DEF SlotsRead, Idle
  <2>. QED  BY <1>0, <1>6, <2>1 DEF CursorOf, Idle
<1>. QED  BY <1>1, <1>2, <1>3, <1>4, <1>5, <1>6, StepOf
-----------------------------------------------------------------------------
(* What an RBG leaves of a queue is no more than was there.                 *)
LEMMA RbgDrains ==
    ASSUME TypeOK, NEW d \in Dirs, Rbg(d), NEW v \in Ues
    PROVE  backlog'[d][v] > 0 => backlog[d][v] > 0
<1>1. /\ backlog \in [Dirs -> [Ues -> 0..MaxBacklog]] /\ rate \in [Dirs -> [Ues -> Rates \cup {0}]]
      /\ syms \in [Dirs -> 0..RbgSyms]
      BY DEF TypeOK
<1>2. PICK u : u = Assigned(d, pos[d].f)
      OBVIOUS
<1>3. backlog' = [backlog EXCEPT ![d] =
                    [w \in Ues |-> IF w # u THEN backlog[d][w]
                                   ELSE IF backlog[d][w] > rate[d][w] * syms[d]
                                   THEN backlog[d][w] - rate[d][w] * syms[d] ELSE 0]]
      BY <1>2 DEF Rbg
<1>4. PICK k \in Nat : k = rate[d][v] * syms[d]
  <2>1. rate[d][v] \in Nat /\ syms[d] \in Nat
    <3>1. rate[d][v] \in Rates \cup {0} /\ syms[d] \in 0..RbgSyms
          BY <1>1
    <3>. QED  BY <3>1, Sizes
  <2>. QED  BY <2>1, Product
<1>5. backlog'[d][v] = (IF v # u THEN backlog[d][v]
                        ELSE IF backlog[d][v] > k THEN backlog[d][v] - k ELSE 0)
      BY <1>1, <1>3, <1>4
<1>6. backlog[d][v] \in 0..MaxBacklog
      BY <1>1
<1>. QED  BY <1>4, <1>5, <1>6, Sizes

LEMMA ActiveStep ==
    ASSUME TypeOK, PosInv, ActiveInv, [Next]_vars
    PROVE  ActiveInv'
<1>. SUFFICES ASSUME NEW d \in Dirs PROVE ActiveOf(d)'
     BY DEF ActiveInv
<1>0. /\ PosOf(d) /\ ActiveOf(d) /\ pos \in [Dirs -> PosType] /\ pos[d] \in PosType
      /\ active \in [Dirs -> SUBSET Ues] /\ scheduled \in [Dirs -> SUBSET Ues]
      /\ backlog \in [Dirs -> [Ues -> 0..MaxBacklog]]
      BY DEF PosInv, ActiveInv, TypeOK, PosType
<1>1. CASE Begin(d)
  <2>1. /\ active'[d] = {u \in Ues : backlog[d][u] > 0} /\ scheduled'[d] = {}
        /\ backlog' = backlog
        BY <1>0, <1>1 DEF Begin, ues
  <2>. QED  BY <2>1 DEF ActiveOf
<1>2. CASE Slot(d)
  <2>1. /\ active' = active /\ scheduled' = scheduled /\ backlog' = backlog
        /\ pos[d].at = "slot"
        BY <1>2 DEF Slot, ues
  <2>. QED  BY <1>0, <2>1 DEF ActiveOf
<1>3. CASE Rbg(d)
  <2>1. pos[d].at = "rbg" /\ active' = active
        BY <1>3 DEF Rbg
  <2>2. PICK u : u = Assigned(d, pos[d].f)
        OBVIOUS
  <2>3. scheduled'[d] = (IF u = None THEN scheduled[d] ELSE scheduled[d] \cup {u})
        BY <1>0, <1>3, <2>2 DEF Rbg
  <2>4. u \in Ues \cup {None} /\ (u # None => HasData(d, u))
    <3>1. pos[d].f \in Freqs
          BY <1>0 DEF PosType
    <3>. QED  BY <2>2, <3>1, ChosenType
  <2>5. u # None => u \in active[d]
        BY <1>0, <2>1, <2>4 DEF ActiveOf, HasData
  <2>6. \A v \in Ues : backlog'[d][v] > 0 => v \in active'[d]
    <3>1. \A v \in Ues : backlog'[d][v] > 0 => backlog[d][v] > 0
          BY <1>3, RbgDrains
    <3>. QED  BY <1>0, <2>1, <3>1 DEF ActiveOf
  <2>7. scheduled'[d] \subseteq active'[d]
        BY <1>0, <2>1, <2>3, <2>5 DEF ActiveOf
  <2>. QED  BY <2>6, <2>7 DEF ActiveOf
<1>4. CASE MacDone
      BY <1>4 DEF MacDone, ActiveOf, Before
<1>5. CASE UesMove(d)
  <2>1. pos'[d].at = "before"
        BY <1>0, <1>5 DEF UesMove, PosOf, grid
  <2>. QED  BY <2>1 DEF ActiveOf
<1>6. CASE Idle(d)
      BY <1>0, <1>6 DEF Idle, ActiveOf
<1>. QED  BY <1>1, <1>2, <1>3, <1>4, <1>5, <1>6, StepOf
-----------------------------------------------------------------------------
(* Round robin: the turn moves by one, to the next UE or back to the first. *)
Succ(i) == IF i + 1 >= NumUes THEN 0 ELSE i + 1

LEMMA TurnMoves ==
    ASSUME NEW i \in Ues, NEW v \in Ues
    PROVE  /\ Turn(i, v) \in 0..(NumUes - 1)
           /\ v # Succ(i) => Turn(Succ(i), v) = Turn(i, v) + 1
BY Sizes DEF Turn, Succ

(* An RBG with symbols moves the index every UE keeps to the next UE, and   *)
(* that UE gets the RBG if it has data.                                     *)
LEMMA TurnIsGiven ==
    ASSUME TypeOK, PosInv, InStepInv, NEW d \in Dirs, pos[d].at = "rbg", syms[d] > 0
    PROVE  /\ \A v \in Ues : NextRr(rr[d][v], pos[d].f)
                               = [index |-> Succ(rr[d][0].index), prev_f |-> pos[d].f]
           /\ LET i == Succ(rr[d][0].index) IN RoundRobin /\ HasData(d, i) => Assigned(d, pos[d].f) = i
<1>. DEFINE f == pos[d].f
            i == Succ(rr[d][0].index)
<1>0. /\ pos[d] \in PosType /\ rr[d] \in [Ues -> RrType] /\ syms[d] \in 0..RbgSyms
      BY DEF TypeOK, PosType, RrType
<1>f. f \in Freqs /\ f \in Int /\ 0 <= f /\ f < NumFreq
  <2>1. f \in Freqs
        BY <1>0 DEF PosType
  <2>. QED  BY <2>1, Sizes
<1>1. \A v \in Ues : NextRr(rr[d][v], f) = [index |-> i, prev_f |-> f]
  <2>. SUFFICES ASSUME NEW v \in Ues PROVE NextRr(rr[d][v], f) = [index |-> i, prev_f |-> f]
       OBVIOUS
  <2>1. InStep(d, v)
        BY DEF InStepInv
  <2>2. rr[d][v] = rr[d][0] /\ rr[d][v].prev_f # f
        BY <1>f, <2>1, Sizes DEF InStep
  <2>. QED  BY <2>2 DEF NextRr, Succ
<1>2. i \in Ues
  <2>1. rr[d][0].index \in Ues
        BY <1>0, Sizes DEF RrType
  <2>. QED  BY <2>1, Sizes DEF Succ
<1>3. RoundRobin => \A v \in Ues : MetricOf(d, v, f) = (IF v = i THEN 1 ELSE 0)
  <2>. HIDE DEF f, i
  <2>. QED  BY <1>1 DEF MetricOf
<1>4. \A v \in Ues : MetricOf(d, v, f) \in Int /\ HasData(d, v) \in BOOLEAN
      BY <1>f, MetricType
<1>5. \/ /\ Assigned(d, f) = None
         /\ \A v \in Ues : HasData(d, v) => MetricOf(d, v, f) < -1
      \/ /\ Assigned(d, f) \in Ues
         /\ HasData(d, Assigned(d, f))
         /\ MetricOf(d, Assigned(d, f), f) >= -1
         /\ \A v \in Ues : HasData(d, v) => MetricOf(d, v, f) <= MetricOf(d, Assigned(d, f), f)
  <2>1. syms[d] \in Nat
        BY <1>0, Sizes
  <2>. HIDE DEF f
  <2>. QED  BY <1>f, <1>4, <2>1, AssignedIs
<1>. HIDE DEF f, i
<1>6. RoundRobin /\ HasData(d, i) => Assigned(d, f) = i
  <2>. SUFFICES ASSUME RoundRobin, HasData(d, i) PROVE Assigned(d, f) = i
       OBVIOUS
  <2>1. MetricOf(d, i, f) = 1 /\ \A v \in Ues : v # i => MetricOf(d, v, f) = 0
        BY <1>2, <1>3
  <2>2. PICK a : a = Assigned(d, f)
        OBVIOUS
  <2>3. a \in Ues /\ MetricOf(d, i, f) <= MetricOf(d, a, f)
        BY <1>2, <1>5, <2>1, <2>2
  <2>. QED  BY <2>1, <2>2, <2>3
<1>. QED  BY <1>1, <1>6 DEF f, i

LEMMA InStepStep ==
    ASSUME TypeOK, PosInv, InStepInv, [Next]_vars
    PROVE  InStepInv'
<1>. SUFFICES ASSUME NEW d \in Dirs, NEW v \in Ues PROVE InStep(d, v)'
     BY DEF InStepInv
<1>0. /\ PosOf(d) /\ InStep(d, v) /\ pos \in [Dirs -> PosType] /\ pos[d] \in PosType
      /\ rr \in [Dirs -> [Ues -> RrType]] /\ rr[d] \in [Ues -> RrType] /\ rr[d][v] \in RrType
      /\ syms \in [Dirs -> 0..RbgSyms] /\ waited \in [Dirs -> [Ues -> 0..NumUes]]
      /\ waited[d][v] \in 0..NumUes /\ syms[d] \in 0..RbgSyms
      BY DEF PosInv, InStepInv, TypeOK, PosType, RrType
<1>1. CASE Begin(d)
  <2>1. /\ pos[d].at = "before" /\ pos'[d].at = "slot" /\ rr' = rr /\ waited' = waited
        BY <1>0, <1>1 DEF Begin, PosType
  <2>. QED  BY <1>0, <2>1 DEF InStep
<1>2. CASE Slot(d)
  <2>1. /\ pos[d].at = "slot" /\ pos'[d].at = "rbg" /\ pos'[d].f = 0 /\ rr' = rr /\ waited' = waited
        BY <1>0, <1>2 DEF Slot, PosOf, PosType
  <2>. QED  BY <1>0, <2>1 DEF InStep
<1>3. CASE Rbg(d)
  <2>1. /\ pos[d].at = "rbg" /\ pos'[d] = After(pos[d]) /\ syms' = syms
        BY <1>0, <1>3 DEF Rbg
  <2>2. PICK f : f = pos[d].f
        OBVIOUS
  <2>3. f \in Int /\ 0 <= f /\ f < NumFreq /\ f \in Freqs
    <3>1. f \in Freqs
          BY <1>0, <2>2 DEF PosType
    <3>. QED  BY <3>1, Sizes
  <2>4. PICK u : u = Assigned(d, f)
        OBVIOUS
  <2>5. waited'[d][v] = (IF v = u \/ ~HasData(d, v) THEN 0
                         ELSE IF syms[d] > 0 /\ waited[d][v] < NumUes THEN waited[d][v] + 1
                         ELSE waited[d][v])
    <3>1. waited' = [waited EXCEPT ![d] =
                       [w \in Ues |-> IF w = u \/ ~HasData(d, w) THEN 0
                                      ELSE IF syms[d] > 0 /\ waited[d][w] < NumUes THEN waited[d][w] + 1
                                      ELSE waited[d][w]]]
          BY <1>3, <2>2, <2>4 DEF Rbg
    <3>. QED  BY <1>0, <3>1, Zenon
  <2>6. rr' = [rr EXCEPT ![d] = IF syms[d] > 0 THEN [w \in Ues |-> NextRr(rr[d][w], f)] ELSE rr[d]]
        BY <1>3, <2>2 DEF Rbg
  <2>7. CASE ~ syms[d] > 0
    <3>1. rr'[d] = rr[d]
          BY <1>0, <2>6, <2>7
    <3>2. waited'[d][v] = 0 \/ waited'[d][v] = waited[d][v]
          BY <2>5, <2>7, Zenon
    <3>3. Turn(rr[d][v].index, v) \in 0..(NumUes - 1)
          BY <1>0, TurnMoves DEF RrType
    <3>4. /\ rr[d][v] = rr[d][0] /\ rr[d][v].prev_f \in {-1, NumFreq - 1}
          /\ RoundRobin => waited[d][v] <= Turn(rr[d][v].index, v)
          BY <1>0, <2>7 DEF InStep
    <3>5. RoundRobin => waited'[d][v] <= Turn(rr[d][v].index, v)
          BY <3>2, <3>3, <3>4, Sizes
    <3>. QED  BY <2>1, <2>7, <3>1, <3>4, <3>5 DEF InStep
  <2>8. CASE syms[d] > 0
    <3>1. PICK i : i = rr[d][0].index
          OBVIOUS
    <3>2. PICK j : j = Succ(i)
          OBVIOUS
    <3>3. i \in Ues /\ j \in Ues /\ i = rr[d][v].index
      <4>1. i \in Ues
            BY <1>0, <3>1, Sizes DEF RrType
      <4>2. j \in Ues
            BY <3>2, <4>1, Sizes DEF Succ
      <4>. QED  BY <1>0, <3>1, <4>1, <4>2 DEF InStep
    <3>4. /\ \A w \in Ues : NextRr(rr[d][w], f) = [index |-> j, prev_f |-> f]
          /\ RoundRobin /\ HasData(d, j) => u = j
          BY <2>1, <2>2, <2>4, <2>8, <3>1, <3>2, TurnIsGiven
    <3>5. \A w \in Ues : rr'[d][w] = [index |-> j, prev_f |-> f]
          BY <1>0, <2>6, <2>8, <3>4
    <3>6. rr'[d][v] = rr'[d][0] /\ rr'[d][v].index = j /\ rr'[d][v].prev_f = f
          BY <3>5, Sizes
    <3>7. \/ pos'[d].at = "rbg" /\ pos'[d].f = f + 1
          \/ pos'[d].at # "rbg" /\ f = NumFreq - 1
          BY <1>0, <2>1, <2>2, <2>3, Sizes DEF After, PosType
    <3>8. Turn(i, v) \in 0..(NumUes - 1) /\ Turn(j, v) \in 0..(NumUes - 1)
          /\ (v # j => Turn(j, v) = Turn(i, v) + 1)
          BY <3>2, <3>3, TurnMoves
    <3>9. RoundRobin => waited'[d][v] <= Turn(j, v)
      <4>. SUFFICES ASSUME RoundRobin PROVE waited'[d][v] <= Turn(j, v)
           OBVIOUS
      <4>1. CASE v = u \/ ~HasData(d, v)
        <5>1. waited'[d][v] = 0
              BY <2>5, <4>1, Zenon
        <5>. QED  BY <3>8, <5>1, Sizes
      <4>2. CASE ~(v = u \/ ~HasData(d, v))
        <5>1. v # j
              BY <3>4, <4>2
        <5>2. waited'[d][v] = (IF syms[d] > 0 /\ waited[d][v] < NumUes THEN waited[d][v] + 1
                               ELSE waited[d][v])
              BY <2>5, <4>2, Zenon
        <5>3. waited[d][v] <= Turn(i, v)
              BY <1>0, <3>3 DEF InStep
        <5>. QED  BY <1>0, <3>8, <5>1, <5>2, <5>3, Sizes, SMTT(30)
      <4>. QED  BY <4>1, <4>2
    <3>. QED  BY <2>1, <2>3, <2>8, <3>6, <3>7, <3>9, Sizes DEF InStep
  <2>. QED  BY <2>7, <2>8
<1>4. CASE MacDone
  <2>1. /\ pos[d].at = "after" /\ pos'[d].at = "before" /\ rr' = rr /\ waited' = waited
        BY <1>4 DEF MacDone, Before
  <2>. QED  BY <1>0, <2>1 DEF InStep
<1>5. CASE UesMove(d)
  <2>1. pos' = pos /\ syms' = syms /\ rr' = rr /\ waited' = waited
        BY <1>5 DEF UesMove, grid
  <2>. QED  BY <1>0, <2>1 DEF InStep
<1>6. CASE Idle(d)
      BY <1>0, <1>6 DEF Idle, InStep
<1>. QED  BY <1>1, <1>2, <1>3, <1>4, <1>5, <1>6, StepOf
-----------------------------------------------------------------------------
Inv == TypeOK /\ PosInv /\ CursorInv /\ ActiveInv /\ InStepInv

LEMMA InvInit ==
    Init => Inv
<1>. SUFFICES ASSUME Init PROVE Inv
     OBVIOUS
<1>1. TypeOK
      BY TypeInit
<1>2. \A d \in Dirs : /\ pos[d] = [at |-> "before", t |-> 0, f |-> 0] /\ c_index[d] = 0
                      /\ waited[d] = [u \in Ues |-> 0] /\ phase = "mac" /\ frame = 0
                      /\ rr[d] = [u \in Ues |-> [index |-> 0, prev_f |-> -1]]
      BY DEF Init, Before
<1>3. PosInv /\ ActiveInv
      BY <1>2 DEF PosInv, PosOf, ActiveInv, ActiveOf
<1>4. CursorInv
  <2>1. \A d \in Dirs : SlotsRead(d) = 0 /\ pos[d].at # "rbg"
        BY <1>2 DEF SlotsRead
  <2>2. \A d \in Dirs : frame + (SlotsRead(d) * RbgSyms) = 0 /\ c_index[d] = 0
        BY <1>2, <2>1, Sizes
  <2>. QED  BY <2>1, <2>2 DEF CursorInv, CursorOf
<1>5. InStepInv
  <2>. SUFFICES ASSUME NEW d \in Dirs, NEW u \in Ues PROVE InStep(d, u)
       BY DEF InStepInv
  <2>1. /\ rr[d][u] = [index |-> 0, prev_f |-> -1] /\ rr[d][0] = [index |-> 0, prev_f |-> -1]
        /\ waited[d][u] = 0 /\ pos[d].at # "rbg"
        BY <1>2, Sizes
  <2>2. Turn(0, u) \in 0..(NumUes - 1)
        BY Sizes, TurnMoves
  <2>. QED  BY <2>1, <2>2, Sizes DEF InStep
<1>. QED  BY <1>1, <1>3, <1>4, <1>5 DEF Inv

LEMMA InvStep ==
    Inv /\ [Next]_vars => Inv'
<1>1. TypeOK /\ [Next]_vars => TypeOK'
      BY TypeStep
<1>2. TypeOK /\ PosInv /\ [Next]_vars => PosInv'
      BY PosStep
<1>3. TypeOK /\ PosInv /\ CursorInv /\ [Next]_vars => CursorInv'
      BY CursorStep
<1>4. TypeOK /\ PosInv /\ ActiveInv /\ [Next]_vars => ActiveInv'
      BY ActiveStep
<1>5. TypeOK /\ PosInv /\ InStepInv /\ [Next]_vars => InStepInv'
      BY InStepStep
<1>. QED  BY <1>1, <1>2, <1>3, <1>4, <1>5, Zenon DEF Inv

(* However the symbols of an RBG group divide the TDD frame, each direction *)
(* counts for a slot the symbols the frame gives it there: get_syms of the  *)
(* two tdd_handlers, which count apart, stays on the same frame.            *)
THEOREM SymsAreTheFrames == Spec => []SymsOfTheFrame
<1>1. Init => Inv
      BY InvInit
<1>2. Inv /\ [Next]_vars => Inv'
      BY InvStep
<1>3. Inv => SymsOfTheFrame
  <2>. SUFFICES ASSUME Inv, Tdd, NEW d \in Dirs, pos[d].at = "rbg"
                PROVE  syms[d] = Cardinality({k \in 0..(RbgSyms - 1) :
                         Scheme[1 + ((frame + pos[d].t * RbgSyms + k) % FrameLen)] = d})
       BY DEF SymsOfTheFrame
  <2>1. syms[d] = Cardinality(Hits(d, frame + pos[d].t * RbgSyms, RbgSyms))
        BY DEF Inv, CursorInv, CursorOf
  <2>. QED  BY <2>1, Zenon DEF Hits
<1>. QED  BY <1>1, <1>2, <1>3, PTL DEF Spec

(* grid::step schedules only UEs it counted as active when the step began,  *)
(* so the two statistics of a step agree.                                   *)
THEOREM OnlyActiveScheduled == Spec => []ScheduledWereActive
<1>1. Init => Inv
      BY InvInit
<1>2. Inv /\ [Next]_vars => Inv'
      BY InvStep
<1>3. Inv => ScheduledWereActive
      BY DEF Inv, ActiveInv, ActiveOf, ScheduledWereActive
<1>. QED  BY <1>1, <1>2, <1>3, PTL DEF Spec

(* With get_rr_metric no UE with data is passed over by as many RBGs in a   *)
(* row as there are UEs, although each UE turns its own copy of the index.  *)
THEOREM NobodyIsStarved == Spec => []RoundRobinFair
<1>1. Init => Inv
      BY InvInit
<1>2. Inv /\ [Next]_vars => Inv'
      BY InvStep
<1>3. Inv => RoundRobinFair
  <2>. SUFFICES ASSUME Inv, RoundRobin, NEW d \in Dirs, NEW u \in Ues
                PROVE  waited[d][u] < NumUes
       BY DEF RoundRobinFair
  <2>1. InStep(d, u) /\ rr[d][u].index \in Ues /\ waited[d][u] \in 0..NumUes
        BY DEF Inv, InStepInv, TypeOK
  <2>2. PICK i \in Ues : i = rr[d][u].index
        BY <2>1
  <2>3. Turn(i, u) \in 0..(NumUes - 1)
        BY TurnMoves
  <2>4. waited[d][u] <= Turn(i, u)
        BY <2>1, <2>2 DEF InStep
  <2>. QED  BY <2>1, <2>3, <2>4, Sizes
<1>. QED  BY <1>1, <1>2, <1>3, PTL DEF Spec
-----------------------------------------------------------------------------
(* What a step that leaves an RBG assigns.                                  *)
LEMMA RbgAssigns ==
    ASSUME TypeOK, [Next]_vars, NEW d \in Dirs, pos[d].at = "rbg", pos'[d] # pos[d]
    PROVE  last'[d] = Assigned(d, pos[d].f) /\ pos[d].f \in Freqs
<1>0. /\ pos \in [Dirs -> PosType] /\ pos[d] \in PosType /\ last \in [Dirs -> Ues \cup {None}]
      BY DEF TypeOK, PosType
<1>1. ~Begin(d) /\ ~Slot(d)
      BY DEF Begin, Slot
<1>2. ~MacDone
      BY DEF MacDone
<1>3. ~UesMove(d)
      BY DEF UesMove, grid
<1>4. ~Idle(d)
      BY DEF Idle
<1>5. Rbg(d)
      BY <1>1, <1>2, <1>3, <1>4, StepOf
<1>6. last' = [last EXCEPT ![d] = Assigned(d, pos[d].f)]
      BY <1>5 DEF Rbg
<1>. QED  BY <1>0, <1>6 DEF PosType

(* estimate_params gives an RBG with symbols to a UE with data whose metric *)
(* is the highest, and leaves it empty only when no UE has data, provided   *)
(* that no metric lies below the value max_metric_handler::reset begins     *)
(* from.                                                                    *)
THEOREM HighestGets ==
    ASSUME RoundRobin \/ \A m \in Metrics : m >= -1
    PROVE  Spec => HighestMetricAssigned
<1>. DEFINE Best(d) ==
       pos[d].at = "rbg" /\ pos'[d] # pos[d] /\ syms[d] > 0 =>
         LET f == pos[d].f
             wanting == {u \in Ues : HasData(d, u)}
         IN  IF wanting = {} THEN last'[d] = None
             ELSE /\ last'[d] \in wanting
                  /\ \A u \in wanting : MetricOf(d, u, f) <= MetricOf(d, last'[d], f)
<1>1. Init => TypeOK
      BY TypeInit
<1>2. TypeOK /\ [Next]_vars => TypeOK'
      BY TypeStep
<1>3. TypeOK /\ [Next]_vars => \A d \in Dirs : Best(d)
  <2>. SUFFICES ASSUME TypeOK, [Next]_vars, NEW d \in Dirs,
                       pos[d].at = "rbg", pos'[d] # pos[d], syms[d] > 0
                PROVE  LET f == pos[d].f
                           wanting == {u \in Ues : HasData(d, u)}
                       IN  IF wanting = {} THEN last'[d] = None
                           ELSE /\ last'[d] \in wanting
                                /\ \A u \in wanting : MetricOf(d, u, f) <= MetricOf(d, last'[d], f)
       OBVIOUS
  <2>1. PICK f \in Freqs : f = pos[d].f
        BY RbgAssigns
  <2>2. PICK a : a = last'[d]
        OBVIOUS
  <2>3. a = Assigned(d, f)
        BY <2>1, <2>2, RbgAssigns
  <2>4. \A u \in Ues : MetricOf(d, u, f) \in Int /\ HasData(d, u) \in BOOLEAN
        BY MetricType
  <2>5. \A u \in Ues : MetricOf(d, u, f) >= -1
    <3>. SUFFICES ASSUME NEW u \in Ues PROVE MetricOf(d, u, f) >= -1
         OBVIOUS
    <3>1. CASE RoundRobin
          BY <3>1 DEF MetricOf
    <3>2. CASE ~RoundRobin
      <4>1. metric[d][u] \in Metrics \cup {0} /\ \A m \in Metrics \cup {0} : m >= -1
            BY <3>2 DEF TypeOK
      <4>. QED  BY <3>2, <4>1 DEF MetricOf
    <3>. QED  BY <3>1, <3>2
  <2>6. \/ a = None /\ \A u \in Ues : HasData(d, u) => MetricOf(d, u, f) < -1
        \/ /\ a \in Ues /\ HasData(d, a)
           /\ \A u \in Ues : HasData(d, u) => MetricOf(d, u, f) <= MetricOf(d, a, f)
    <3>1. syms[d] \in Nat
      <4>1. syms[d] \in 0..RbgSyms
            BY DEF TypeOK
      <4>. QED  BY <4>1, Sizes
    <3>. QED  BY <2>3, <2>4, <3>1, AssignedIs
  <2>7. CASE a = None /\ \A u \in Ues : HasData(d, u) => MetricOf(d, u, f) < -1
    <3>1. \A u \in Ues : ~HasData(d, u)
          BY <2>4, <2>5, <2>7
    <3>2. {u \in Ues : HasData(d, u)} = {}
          BY <3>1
    <3>. QED  BY <2>2, <2>7, <3>2
  <2>8. CASE /\ a \in Ues /\ HasData(d, a)
             /\ \A u \in Ues : HasData(d, u) => MetricOf(d, u, f) <= MetricOf(d, a, f)
    <3>1. a \in {u \in Ues : HasData(d, u)}
          BY <2>8
    <3>. QED  BY <2>1, <2>2, <2>8, <3>1
  <2>. QED  BY <2>6, <2>7, <2>8
<1>. QED  BY <1>1, <1>2, <1>3, PTL DEF Spec, HighestMetricAssigned

(* The other side of that proviso: a UE whose metric is below -1, which     *)
(* metric_handler's dist_delay gives a UE whose oldest packet is late by    *)
(* less than a second, gets no RBG, not even when it alone has data.        *)
THEOREM LowMetricsGetNothing ==
    Spec => [][\A d \in Dirs : pos[d].at = "rbg" /\ pos'[d] # pos[d] /\ last'[d] # None =>
                 MetricOf(d, last'[d], pos[d].f) >= -1]_vars
<1>. DEFINE High(d) == pos[d].at = "rbg" /\ pos'[d] # pos[d] /\ last'[d] # None =>
                         MetricOf(d, last'[d], pos[d].f) >= -1
<1>1. Init => TypeOK
      BY TypeInit
<1>2. TypeOK /\ [Next]_vars => TypeOK'
      BY TypeStep
<1>3. TypeOK /\ [Next]_vars => \A d \in Dirs : High(d)
  <2>. SUFFICES ASSUME TypeOK, [Next]_vars, NEW d \in Dirs,
                       pos[d].at = "rbg", pos'[d] # pos[d], last'[d] # None
                PROVE  MetricOf(d, last'[d], pos[d].f) >= -1
       OBVIOUS
  <2>1. PICK f \in Freqs : f = pos[d].f
        BY RbgAssigns
  <2>2. last'[d] = Assigned(d, f)
        BY <2>1, RbgAssigns
  <2>3. \A u \in Ues : MetricOf(d, u, f) \in Int /\ HasData(d, u) \in BOOLEAN
        BY MetricType
  <2>4. syms[d] > 0 /\ syms[d] \in Nat
    <3>1. syms[d] \in 0..RbgSyms
          BY DEF TypeOK
    <3>2. Assigned(d, f) # None
          BY <2>2
    <3>. QED  BY <3>1, <3>2, ChosenType, Sizes
  <2>5. MetricOf(d, Assigned(d, f), f) >= -1
        BY <2>2, <2>3, <2>4, AssignedIs
  <2>. QED  BY <2>1, <2>2, <2>5
<1>. QED  BY <1>1, <1>2, <1>3, PTL DEF Spec
=============================================================================
