------------------------------ MODULE WorkPool ------------------------------
(***************************************************************************)
(* What a thread pool promises to the code that queues work on it          *)
(* (threadpool_queue_work_priority, workqueue_entry_cancel): every job is   *)
(* either cancelled before it has started, or run once and then, once and  *)
(* in the main thread, replied to.                                         *)
(***************************************************************************)
CONSTANT Job

VARIABLE stage    \* stage[j]: how far job j has come

WPTypeOK ==
  stage \in [Job -> {"new", "queued", "cancelled", "running", "answered", "replied"}]

WPInit == stage = [j \in Job |-> "new"]

Move(j, from, to) == stage[j] = from /\ stage' = [stage EXCEPT ![j] = to]

Accept(j)  == Move(j, "new", "queued")
Withdraw(j) == Move(j, "queued", "cancelled")
Begin(j)   == Move(j, "queued", "running")
Finish(j)  == Move(j, "running", "answered")
Answer(j)  == Move(j, "answered", "replied")

WPNext ==
  \E j \in Job : Accept(j) \/ Withdraw(j) \/ Begin(j) \/ Finish(j) \/ Answer(j)

WPSpec == WPInit /\ [][WPNext]_stage
=============================================================================
