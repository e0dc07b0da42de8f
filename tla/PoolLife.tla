------------------------------ MODULE PoolLife ------------------------------
(***************************************************************************)
(* lib/evloop/workqueue.c: starting a pool, its threads leaving it, and    *)
(* stopping and freeing it, once or several times in one process.          *)
(*                                                                         *)
(* pool->control_lock carries two handshakes.  At the start the main       *)
(* thread waits on it for the last thread to confirm; at the end it is     *)
(* held by one thread, the owner, until every other one has left, and the  *)
(* main thread waits to get it before it frees the pool.  Who the owner is *)
(* and how many threads run is kept in two static variables of             *)
(* worker_thread_main, which outlive the pool.                             *)
(***************************************************************************)
EXTENDS Naturals, FiniteSets

CONSTANTS
  Worker,       \* the threads of a pool
  Tid,          \* thread identifiers; the system uses them again
  NoTid,        \* control_lock_owner == 0
  Runs,         \* bound: pools created in this process, one after another
  MaxWork       \* bound: jobs and updates given to one pool

Nobody == "nobody"
Main == "main"

ASSUME PoolAssumption ==
  /\ Runs \in Nat /\ MaxWork \in Nat /\ NoTid \notin Tid
  /\ IsFiniteSet(Worker) /\ Nobody \notin Worker /\ Main \notin Worker

VARIABLES
  calm,       \* the waits end on their signals only, and no pool is stopped
              \* before its threads are in their loop (chosen at the start)
  run,        \* how many pools have been created
  mpc,        \* the main thread: down, confirming, confirmed, up, failed,
              \* joining
  wpc,        \* wpc[w]: where thread w is
  tid,        \* tid[w]: its identifier
  control,    \* the holder of pool->control_lock
  plock,      \* the holder of pool->lock between steps
  exit,       \* pool->exit
  jobs,       \* entries on the work queues
  given,      \* jobs and updates given to this pool so far
  behind,     \* the threads with an older generation than pool->generation
  running,    \* static n_worker_threads_running
  owner       \* static control_lock_owner

statics == <<running, owner>>
locks == <<control, plock>>
pool == <<exit, jobs, given, behind>>
vars == <<calm, run, mpc, wpc, tid, locks, pool, statics>>

N == Cardinality(Worker)      \* pool->n_threads_max

Outside == {"born", "confirmed", "entering"}
Inside == {"top", "inner", "running", "updating", "waiting", "leaving"}

TypeOK ==
  /\ calm \in BOOLEAN
  /\ run \in 0 .. Runs
  /\ mpc \in {"down", "confirming", "confirmed", "up", "failed", "joining"}
  /\ wpc \in [Worker -> Outside \cup Inside \cup {"gone"}]
  /\ tid \in [Worker -> Tid]
  /\ control \in Worker \cup {Nobody}
  /\ plock \in Worker \cup {Nobody, Main}
  /\ exit \in BOOLEAN
  /\ jobs \in 0 .. MaxWork /\ given \in 0 .. MaxWork
  /\ behind \subseteq Worker
  /\ running \in 0 .. N * Runs
  /\ owner \in Tid \cup {NoTid}

-----------------------------------------------------------------------------
(* The main thread                                                          *)

(* threadpool_new: the threads are launched with both locks held, and       *)
(* tor_cond_wait gives up control_lock alone.                               *)
Launch ==
  /\ mpc = "down" /\ run < Runs
  /\ \A w \in Worker : wpc[w] = "gone"
  /\ run' = run + 1
  /\ mpc' = "confirming"
  /\ wpc' = [w \in Worker |-> "born"]
  /\ tid' \in {t \in [Worker -> Tid] : \A v, w \in Worker : t[v] = t[w] => v = w}
  /\ plock' = Main
  /\ exit' = FALSE /\ jobs' = 0 /\ given' = 0 /\ behind' = {}
  /\ UNCHANGED <<calm, control, statics>>

(* The wait ends, on the signal or spuriously (it is not in a loop): the    *)
(* threads are let into their loop.                                         *)
StartDone ==
  /\ \/ mpc = "confirmed"
     \/ (mpc = "confirming" /\ ~calm)
  /\ control = Nobody
  /\ plock' = Nobody
  /\ mpc' = "up"
  /\ UNCHANGED <<calm, run, wpc, tid, control, pool, statics>>

(* Thirty seconds have passed: the threads are told to exit, and            *)
(* threadpool_new frees the pool.                                           *)
StartTimeout ==
  /\ mpc = "confirming" /\ ~calm
  /\ control = Nobody
  /\ plock' = Nobody
  /\ exit' = TRUE
  /\ mpc' = "failed"
  /\ UNCHANGED <<calm, run, wpc, tid, control, jobs, given, behind, statics>>

(* threadpool_queue_work_priority                                           *)
QueueJob ==
  /\ mpc = "up" /\ plock = Nobody /\ given < MaxWork
  /\ jobs' = jobs + 1
  /\ given' = given + 1
  /\ \/ (\A w \in Worker : wpc[w] # "waiting") /\ UNCHANGED wpc
     \/ \E w \in Worker :
          wpc[w] = "waiting" /\ wpc' = [wpc EXCEPT ![w] = "top"]
  /\ UNCHANGED <<calm, run, mpc, tid, locks, exit, behind, statics>>

(* threadpool_queue_update: every thread is behind, those that wait for     *)
(* work are woken.                                                          *)
QueueUpdate ==
  /\ mpc = "up" /\ plock = Nobody /\ given < MaxWork
  /\ behind' = Worker
  /\ given' = given + 1
  /\ wpc' = [w \in Worker |-> IF wpc[w] = "waiting" THEN "top" ELSE wpc[w]]
  /\ UNCHANGED <<calm, run, mpc, tid, locks, exit, jobs, statics>>

(* Mutant of Stop: the threads that wait for work are not woken.            *)
StopWakesNobody ==
  /\ mpc = "up" /\ plock = Nobody
  /\ calm => \A w \in Worker : wpc[w] \notin Outside
  /\ exit' = TRUE
  /\ mpc' = "joining"
  /\ UNCHANGED <<calm, run, wpc, tid, locks, jobs, given, behind, statics>>

(* threadpool_stop_threads: exit is set and the waiting threads are woken.  *)
Stop ==
  /\ mpc = "up" /\ plock = Nobody
  /\ calm => \A w \in Worker : wpc[w] \notin Outside
  /\ exit' = TRUE
  /\ wpc' = [w \in Worker |-> IF wpc[w] = "waiting" THEN "top" ELSE wpc[w]]
  /\ mpc' = "joining"
  /\ UNCHANGED <<calm, run, tid, locks, jobs, given, behind, statics>>

(* threadpool_stop_threads after a failed start: exit is set already.       *)
StopFailed ==
  /\ mpc = "failed" /\ plock = Nobody
  /\ mpc' = "joining"
  /\ UNCHANGED <<calm, run, wpc, tid, locks, pool, statics>>

(* It gets control_lock, gives it back, and threadpool_free_ releases       *)
(* everything, the locks included.                                          *)
Free ==
  /\ mpc = "joining" /\ control = Nobody
  /\ mpc' = "down"
  /\ jobs' = 0
  /\ UNCHANGED <<calm, run, wpc, tid, locks, exit, given, behind, statics>>

-----------------------------------------------------------------------------
(* A worker thread; after the pool is freed none of its steps is modelled   *)

Alive(w) == mpc # "down"

(* Mutant of Confirm: every thread signals, not the last one only.          *)
ConfirmSignalsAlways(w) ==
  /\ Alive(w) /\ wpc[w] = "born" /\ control = Nobody
  /\ running' = running + 1
  /\ mpc' = IF mpc = "confirming" THEN "confirmed" ELSE mpc
  /\ wpc' = [wpc EXCEPT ![w] = "confirmed"]
  /\ UNCHANGED <<calm, run, tid, locks, pool, owner>>

(* Under control_lock: count this thread, and signal when it is the last.   *)
Confirm(w) ==
  /\ Alive(w) /\ wpc[w] = "born" /\ control = Nobody
  /\ running' = running + 1
  /\ mpc' = IF mpc = "confirming" /\ running + 1 = N THEN "confirmed" ELSE mpc
  /\ wpc' = [wpc EXCEPT ![w] = "confirmed"]
  /\ UNCHANGED <<calm, run, tid, locks, pool, owner>>

(* Under pool->lock: when control_lock_owner is 0 this thread is to take    *)
(* control_lock, and keeps pool->lock until it has it.                      *)
Enter(w) ==
  /\ Alive(w) /\ wpc[w] = "confirmed" /\ plock = Nobody
  /\ IF owner = NoTid
       THEN plock' = w /\ wpc' = [wpc EXCEPT ![w] = "entering"]
       ELSE wpc' = [wpc EXCEPT ![w] = "top"] /\ UNCHANGED plock
  /\ UNCHANGED <<calm, run, mpc, tid, control, pool, statics>>

(* Mutant of TakeControl: control_lock is given back at once.               *)
TakeControlBriefly(w) ==
  /\ Alive(w) /\ wpc[w] = "entering" /\ control = Nobody
  /\ owner' = tid[w]
  /\ plock' = Nobody
  /\ wpc' = [wpc EXCEPT ![w] = "top"]
  /\ UNCHANGED <<calm, run, mpc, tid, control, pool, running>>

TakeControl(w) ==
  /\ Alive(w) /\ wpc[w] = "entering" /\ control = Nobody
  /\ control' = w
  /\ owner' = tid[w]
  /\ plock' = Nobody
  /\ wpc' = [wpc EXCEPT ![w] = "top"]
  /\ UNCHANGED <<calm, run, mpc, tid, pool, running>>

(* Mutant of SeeExit: the thread takes itself off the count here as well.   *)
SeeExitCounts(w) ==
  /\ Alive(w) /\ wpc[w] = "top" /\ plock = Nobody /\ exit
  /\ running' = running - 1
  /\ wpc' = [wpc EXCEPT ![w] = "leaving"]
  /\ UNCHANGED <<calm, run, mpc, tid, locks, pool, owner>>

(* The loop: exit is looked at when a thread comes in or wakes up, not      *)
(* between two jobs.                                                        *)
SeeExit(w) ==
  /\ Alive(w) /\ wpc[w] = "top" /\ plock = Nobody /\ exit
  /\ wpc' = [wpc EXCEPT ![w] = "leaving"]
  /\ UNCHANGED <<calm, run, mpc, tid, locks, pool, statics>>

(* In the loop after a job or an update, or at its head with exit not set.  *)
LooksForWork(w) ==
  Alive(w) /\ plock = Nobody /\ (wpc[w] = "inner" \/ (wpc[w] = "top" /\ ~exit))

(* A thread that is behind takes the update first.                          *)
TakeUpdate(w) ==
  /\ LooksForWork(w) /\ w \in behind
  /\ behind' = behind \ {w}
  /\ wpc' = [wpc EXCEPT ![w] = "updating"]
  /\ UNCHANGED <<calm, run, mpc, tid, locks, exit, jobs, given, statics>>

TakeJob(w) ==
  /\ LooksForWork(w) /\ w \notin behind /\ jobs > 0
  /\ jobs' = jobs - 1
  /\ wpc' = [wpc EXCEPT ![w] = "running"]
  /\ UNCHANGED <<calm, run, mpc, tid, locks, exit, given, behind, statics>>

(* pthread_cond_wait may return with no signal.                             *)
WakeSpuriously(w) ==
  /\ Alive(w) /\ wpc[w] = "waiting" /\ ~calm
  /\ wpc' = [wpc EXCEPT ![w] = "top"]
  /\ UNCHANGED <<calm, run, mpc, tid, locks, pool, statics>>

(* The job, or the update function, is done; its result may ask the thread  *)
(* to leave.                                                                *)
WorkDone(w) ==
  /\ Alive(w) /\ wpc[w] \in {"running", "updating"} /\ plock = Nobody
  /\ \E r \in {"inner", "leaving"} : wpc' = [wpc EXCEPT ![w] = r]
  /\ UNCHANGED <<calm, run, mpc, tid, locks, pool, statics>>

(* No work left.  A thread that sleeps after exit was set is never woken.   *)
Sleep(w) ==
  /\ LooksForWork(w) /\ w \notin behind /\ jobs = 0
  /\ wpc' = [wpc EXCEPT ![w] = "waiting"]
  /\ UNCHANGED <<calm, run, mpc, tid, locks, pool, statics>>

(* Mutant of Leave: the thread does not take itself off the count.          *)
LeaveUncounted(w) ==
  /\ Alive(w) /\ wpc[w] = "leaving" /\ plock = Nobody /\ tid[w] # owner
  /\ wpc' = [wpc EXCEPT ![w] = "gone"]
  /\ UNCHANGED <<calm, run, mpc, tid, locks, pool, statics>>

(* A thread that is not the owner takes itself off the count and goes.      *)
Leave(w) ==
  /\ Alive(w) /\ wpc[w] = "leaving" /\ plock = Nobody /\ tid[w] # owner
  /\ running' = running - 1
  /\ wpc' = [wpc EXCEPT ![w] = "gone"]
  /\ UNCHANGED <<calm, run, mpc, tid, locks, pool, owner>>

(* Mutant of OwnerLeaves: the owner does not wait for the others.           *)
OwnerLeavesEarly(w) ==
  /\ Alive(w) /\ wpc[w] = "leaving" /\ plock = Nobody /\ tid[w] = owner
  /\ control' = IF control = w THEN Nobody ELSE control
  /\ wpc' = [wpc EXCEPT ![w] = "gone"]
  /\ UNCHANGED <<calm, run, mpc, tid, plock, pool, statics>>

(* The owner polls until it is the last one, then lets control_lock go.     *)
(* Neither static is reset.                                                 *)
OwnerLeaves(w) ==
  /\ Alive(w) /\ wpc[w] = "leaving" /\ plock = Nobody /\ tid[w] = owner
  /\ running <= 1
  /\ control' = IF control = w THEN Nobody ELSE control
  /\ wpc' = [wpc EXCEPT ![w] = "gone"]
  /\ UNCHANGED <<calm, run, mpc, tid, plock, pool, statics>>

-----------------------------------------------------------------------------
Init ==
  /\ calm \in BOOLEAN
  /\ run = 0
  /\ mpc = "down"
  /\ wpc = [w \in Worker |-> "gone"]
  /\ tid \in {t \in [Worker -> Tid] : \A v, w \in Worker : t[v] = t[w]}
  /\ control = Nobody
  /\ plock = Nobody
  /\ exit = FALSE
  /\ jobs = 0
  /\ given = 0
  /\ behind = {}
  /\ running = 0
  /\ owner = NoTid

MainThread ==
  \/ Launch \/ StartDone \/ StartTimeout \/ QueueJob \/ QueueUpdate
  \/ Stop \/ StopFailed \/ Free

Thread(w) ==
  \/ Confirm(w) \/ Enter(w) \/ TakeControl(w) \/ SeeExit(w)
  \/ TakeUpdate(w) \/ TakeJob(w) \/ WorkDone(w) \/ Sleep(w)
  \/ Leave(w) \/ OwnerLeaves(w)

Next == MainThread \/ \E w \in Worker : Thread(w) \/ WakeSpuriously(w)

Spec == Init /\ [][Next]_vars

(* Threads that are not blocked run, jobs end, the owner's polls come again *)
(* and again, and the main thread gets a lock that stays free.              *)
FairSpec ==
  /\ Spec
  /\ WF_vars(StartDone) /\ WF_vars(StopFailed) /\ WF_vars(Free)
  /\ \A w \in Worker : WF_vars(Thread(w))

-----------------------------------------------------------------------------
(* The pool is freed only when all its threads have left it: control_lock   *)
(* "stays locked ... so the memory clean up won't begin before all threads  *)
(* have exited" (worker_thread_main).  It takes a calm start: a pool freed  *)
(* before a thread holds control_lock is freed under all of them.           *)
FreedAfterExit == calm /\ mpc = "down" => \A w \in Worker : wpc[w] = "gone"

(* Calm or not, in the first pool control_lock, once a thread holds it, is  *)
(* let go when the last thread leaves and not before, if by then all of     *)
(* them have confirmed that they run: the count that the owner polls is     *)
(* right.                                                                   *)
ControlHeldToTheLast ==
  [][run = 1 /\ control # Nobody /\ (\A w \in Worker : wpc[w] # "born") =>
       control' = control \/ \A w \in Worker : wpc'[w] = "gone"]_vars

(* threadpool_new returns a pool only after "the last launched thread" has  *)
(* confirmed that it runs, unless the wait for it ends without a signal.    *)
AllStarted ==
  calm /\ mpc \in {"up", "joining"} => \A w \in Worker : wpc[w] # "born"

(* The main thread, and a thread, that the locks let go on.                 *)
MainMoves ==
  \/ mpc = "failed" /\ plock = Nobody
  \/ mpc = "joining" /\ control = Nobody

Moves(w) ==
  \/ wpc[w] \in {"born", "entering"} /\ control = Nobody
  \/ wpc[w] \in {"confirmed", "top", "inner", "running", "updating"} /\ plock = Nobody
  \/ wpc[w] = "leaving" /\ plock = Nobody /\ (tid[w] = owner => running <= 1)

(* threadpool_stop_threads deadlocks on nothing but a sleeping thread: as   *)
(* long as none sleeps, somebody gets on, whatever the threads hold when    *)
(* the stop begins.                                                         *)
StopNotStuck ==
  mpc \in {"failed", "joining"} /\ (\A w \in Worker : wpc[w] # "waiting") =>
    MainMoves \/ \E w \in Worker : Moves(w)

(* threadpool_stop_threads: the stop of a pool that was given neither a job *)
(* nor an update, the one after a failed start included, comes to an end;   *)
(* and so does a stop once no thread runs a job or an update function, has  *)
(* just done so or sleeps.  (One that has just done so may go to sleep.)    *)
IdleStopCompletes ==
  (/\ mpc \in {"failed", "joining"}
   /\ \/ given = 0
      \/ \A w \in Worker : wpc[w] \notin {"inner", "running", "updating", "waiting"})
    ~> mpc = "down"

(* threadpool_stop_threads: "If worker threads are waiting for work, let    *)
(* them continue to exit", then "wait until all worker threads have         *)
(* exited": every stop comes to an end.                                     *)
StopCompletes == (calm /\ mpc = "joining") ~> mpc = "down"
=============================================================================
