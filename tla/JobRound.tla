------------------------------ MODULE JobRound ------------------------------
(***************************************************************************)
(* What the callers of thread_pool rely on: mac_layer::step and            *)
(* ue_handler::step call do_jobs() and then wait_threads(), and use the    *)
(* results of every job as soon as wait_threads() returns.  A round is     *)
(* therefore a barrier: between the two calls every job runs, each one     *)
(* once, and the caller is held until the last one has finished.           *)
(***************************************************************************)
CONSTANT Jobs

VARIABLES
    inRound,   \* the caller is between do_jobs() and the return of wait_threads()
    started,   \* the jobs some thread has started in this round
    finished   \* the jobs that have returned in this round

vars == <<inRound, started, finished>>

Init ==
    /\ inRound = FALSE
    /\ started = {}
    /\ finished = {}

Begin ==
    /\ ~inRound
    /\ inRound' = TRUE
    /\ started' = {}
    /\ finished' = {}

Start(j) ==
    /\ inRound
    /\ j \notin started
    /\ started' = started \cup {j}
    /\ UNCHANGED <<inRound, finished>>

Finish(j) ==
    /\ inRound
    /\ j \in started \ finished
    /\ finished' = finished \cup {j}
    /\ UNCHANGED <<inRound, started>>

End ==
    /\ inRound
    /\ finished = Jobs
    /\ inRound' = FALSE
    /\ UNCHANGED <<started, finished>>

Next ==
    \/ Begin
    \/ \E j \in Jobs : Start(j) \/ Finish(j)
    \/ End

Spec == Init /\ [][Next]_vars
=============================================================================
