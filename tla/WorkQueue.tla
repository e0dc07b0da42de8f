----------------------------- MODULE WorkQueue ------------------------------
(***************************************************************************)
(* lib/evloop/workqueue.c while the pool is up: the main thread queues and *)
(* cancels jobs and updates, the worker threads take them from the work    *)
(* queues, run them without a lock and put them on the reply queue, and    *)
(* the main thread, woken through the alert socket, runs the replies.      *)
(* Starting and stopping the pool is module PoolLife.                      *)
(*                                                                         *)
(* A critical section under pool->lock or under the reply queue's lock is  *)
(* one step; what runs between two of them is not.                         *)
(***************************************************************************)
EXTENDS Naturals, Sequences, FiniteSets, SequencesExt

CONSTANTS
  Job,       \* the workqueue_entry_t ever created
  Worker,    \* the threads of the pool
  Fatal,     \* the jobs whose function returns other than WQ_RPL_REPLY
  Prio,      \* workqueue_priority_t: WQ_PRI_HIGH, WQ_PRI_MED, WQ_PRI_LOW
  MaxGen,    \* bound: calls of threadpool_queue_update
  NoJob, NoArg

ASSUME WorkAssumption ==
  Fatal \subseteq Job /\ NoJob \notin Job /\ MaxGen \in Nat /\ NoArg \notin Nat

VARIABLES
  work,      \* work[p]: pool->work[p]
  answers,   \* the reply queue
  alerted,   \* the alert socket is readable
  wpc,       \* wpc[w]: where worker w is in worker_thread_main
  wjob,      \* wjob[w]: the entry w has in hand
  gen,       \* pool->generation
  args,      \* args[w]: pool->update_args[w]
  wgen,      \* wgen[w]: w's generation
  applied,   \* applied[w]: the update w's state has last seen
  mpc,       \* what the main thread is doing
  mjob,      \* the entry whose reply function it runs
  settled    \* settled[j]: what the caller knows to have become of j

queueVars == <<work, answers, alerted>>
workerVars == <<wpc, wjob>>
updateVars == <<gen, args, wgen, applied>>
mainVars == <<mpc, mjob, settled>>
vars == <<queueVars, workerVars, updateVars, mainVars>>

Gen == 0 .. MaxGen

TypeOK ==
  /\ work \in [Prio -> Seq(Job)]
  /\ answers \in Seq(Job)
  /\ alerted \in BOOLEAN
  /\ wpc \in [Worker -> {"ready", "waiting", "updating", "running", "alerting", "gone"}]
  /\ wjob \in [Worker -> Job \cup {NoJob}]
  /\ gen \in Gen
  /\ args \in [Worker -> Gen \cup {NoArg}]
  /\ wgen \in [Worker -> Gen]
  /\ applied \in [Worker -> Gen]
  /\ mpc \in {"events", "drained", "reply"}
  /\ mjob \in Job \cup {NoJob}
  /\ settled \in [Job -> {"no", "cancelled", "replied"}]

-----------------------------------------------------------------------------
(* Where a job is                                                           *)

Pending == UNION {ToSet(work[p]) : p \in Prio}
InHand == {wjob[w] : w \in {v \in Worker : wpc[v] = "running"}}
Answered == ToSet(answers) \cup (IF mpc = "reply" THEN {mjob} ELSE {})
Known == Pending \cup InHand \cup Answered \cup {j \in Job : settled[j] # "no"}

(* The caller's code runs in the main thread, from an event or from a reply *)
(* function.                                                                *)
CallerRuns == mpc \in {"events", "reply"}

(* tor_cond_signal_one wakes one of the waiting threads, if there is one.   *)
SignalOne ==
  \/ /\ \A w \in Worker : wpc[w] # "waiting"
     /\ UNCHANGED wpc
  \/ \E w \in Worker :
       /\ wpc[w] = "waiting"
       /\ wpc' = [wpc EXCEPT ![w] = "ready"]

-----------------------------------------------------------------------------
(* The main thread: the caller                                              *)

(* Mutant of QueueWork: signal only when the queue becomes nonempty.        *)
QueueWorkSignalsFirst(j, p) ==
  /\ CallerRuns /\ j \notin Known
  /\ work' = [work EXCEPT ![p] = Append(@, j)]
  /\ IF work[p] = <<>> THEN SignalOne ELSE UNCHANGED wpc
  /\ UNCHANGED <<answers, alerted, wjob, updateVars, mainVars>>

(* threadpool_queue_work_priority                                           *)
QueueWork(j, p) ==
  /\ CallerRuns /\ j \notin Known
  /\ work' = [work EXCEPT ![p] = Append(@, j)]
  /\ SignalOne
  /\ UNCHANGED <<answers, alerted, wjob, updateVars, mainVars>>

(* Mutant of Cancel: the entry's place on the queue is only blanked.        *)
CancelLeavesHole(j) ==
  /\ CallerRuns /\ j \in Pending
  /\ work' = [p \in Prio |-> [k \in DOMAIN work[p] |->
                             IF work[p][k] = j THEN NoJob ELSE work[p][k]]]
  /\ settled' = [settled EXCEPT ![j] = "cancelled"]
  /\ UNCHANGED <<answers, alerted, workerVars, updateVars, mpc, mjob>>

(* workqueue_entry_cancel, on an entry whose reply function has not run.    *)
(* Without effect unless the entry is still pending.                        *)
Cancel(j) ==
  /\ CallerRuns
  /\ \E p \in Prio : \E k \in DOMAIN work[p] :
       /\ work[p][k] = j
       /\ work' = [work EXCEPT ![p] = RemoveAt(@, k)]
  /\ settled' = [settled EXCEPT ![j] = "cancelled"]
  /\ UNCHANGED <<answers, alerted, workerVars, updateVars, mpc, mjob>>

(* Mutant of QueueUpdate: one thread is signalled, not all.                 *)
QueueUpdateSignalsOne ==
  /\ CallerRuns /\ gen < MaxGen
  /\ gen' = gen + 1
  /\ args' = [w \in Worker |-> gen + 1]
  /\ SignalOne
  /\ UNCHANGED <<queueVars, wjob, wgen, applied, mainVars>>

(* threadpool_queue_update: a fresh argument for every thread, and the ones *)
(* nobody has taken freed.                                                  *)
QueueUpdate ==
  /\ CallerRuns /\ gen < MaxGen
  /\ gen' = gen + 1
  /\ args' = [w \in Worker |-> gen + 1]
  /\ wpc' = [w \in Worker |-> IF wpc[w] = "waiting" THEN "ready" ELSE wpc[w]]
  /\ UNCHANGED <<queueVars, wjob, wgen, applied, mainVars>>

-----------------------------------------------------------------------------
(* The main thread: replyqueue_process                                      *)

(* The alert socket is readable: the event loop runs reply_event_cb, which  *)
(* drains it before it looks at the queue.                                  *)
Drain ==
  /\ mpc = "events" /\ alerted
  /\ alerted' = FALSE
  /\ mpc' = "drained"
  /\ UNCHANGED <<work, answers, workerVars, updateVars, mjob, settled>>

(* Take the first answer, or leave when there is none.                      *)
PopAnswer ==
  /\ mpc = "drained"
  /\ IF answers = <<>>
       THEN mpc' = "events" /\ UNCHANGED <<answers, mjob>>
       ELSE /\ mpc' = "reply"
            /\ mjob' = Head(answers)
            /\ answers' = Tail(answers)
  /\ UNCHANGED <<work, alerted, workerVars, updateVars, settled>>

(* reply_fn returns; the entry is freed and the loop goes on.               *)
ReplyDone ==
  /\ mpc = "reply"
  /\ mpc' = "drained"
  /\ settled' = [settled EXCEPT ![mjob] = "replied"]
  /\ UNCHANGED <<queueVars, workerVars, updateVars, mjob>>

-----------------------------------------------------------------------------
(* A worker thread                                                          *)

(* An update is due: take the argument, catch up with the generation.       *)
TakeUpdate(w) ==
  /\ wpc[w] = "ready" /\ wgen[w] # gen
  /\ wpc' = [wpc EXCEPT ![w] = "updating"]
  /\ applied' = [applied EXCEPT ![w] = IF args[w] = NoArg THEN @ ELSE args[w]]
  /\ args' = [args EXCEPT ![w] = NoArg]
  /\ wgen' = [wgen EXCEPT ![w] = gen]
  /\ UNCHANGED <<queueVars, wjob, gen, mainVars>>

(* Mutant of UpdateDone: the generation is read after the update has run.   *)
UpdateDoneReadsGeneration(w) ==
  /\ wpc[w] = "updating"
  /\ wpc' = [wpc EXCEPT ![w] = "ready"]
  /\ wgen' = [wgen EXCEPT ![w] = gen]
  /\ UNCHANGED <<queueVars, wjob, gen, args, applied, mainVars>>

(* The update function returns (the pool's only one, cpuworker.c's, never   *)
(* asks the thread to exit).                                                *)
UpdateDone(w) ==
  /\ wpc[w] = "updating"
  /\ wpc' = [wpc EXCEPT ![w] = "ready"]
  /\ UNCHANGED <<queueVars, wjob, updateVars, mainVars>>

(* Mutant of TakeWork: pending is cleared, the entry left on its queue.     *)
TakeWorkLeavesEntry(w) ==
  /\ wpc[w] = "ready" /\ wgen[w] = gen
  /\ \E p \in Prio :
       /\ work[p] # <<>>
       /\ wjob' = [wjob EXCEPT ![w] = Head(work[p])]
  /\ wpc' = [wpc EXCEPT ![w] = "running"]
  /\ UNCHANGED <<queueVars, updateVars, mainVars>>

(* worker_thread_extract_next_work: the oldest entry of a nonempty queue;   *)
(* the dice may pass over the higher ones.                                  *)
TakeWork(w) ==
  /\ wpc[w] = "ready" /\ wgen[w] = gen
  /\ \E p \in Prio :
       /\ work[p] # <<>>
       /\ wjob' = [wjob EXCEPT ![w] = Head(work[p])]
       /\ work' = [work EXCEPT ![p] = Tail(@)]
  /\ wpc' = [wpc EXCEPT ![w] = "running"]
  /\ UNCHANGED <<answers, alerted, updateVars, mainVars>>

(* Nothing to do: tor_cond_wait gives up the lock and waits in one step.    *)
Wait(w) ==
  /\ wpc[w] = "ready" /\ wgen[w] = gen /\ Pending = {}
  /\ wpc' = [wpc EXCEPT ![w] = "waiting"]
  /\ UNCHANGED <<queueVars, wjob, updateVars, mainVars>>

(* A condition variable may wake a thread that nobody has signalled.        *)
SpuriousWake(w) ==
  /\ wpc[w] = "waiting"
  /\ wpc' = [wpc EXCEPT ![w] = "ready"]
  /\ UNCHANGED <<queueVars, wjob, updateVars, mainVars>>

(* After its job w goes on, or leaves worker_thread_main when the job's     *)
(* function asked for it.                                                   *)
AfterJob(w) == IF wjob[w] \in Fatal THEN "gone" ELSE "ready"

(* Mutant of QueueReply: was_empty is read after the insertion.             *)
QueueReplyLooksLate(w) ==
  /\ wpc[w] = "running"
  /\ answers' = Append(answers, wjob[w])
  /\ wpc' = [wpc EXCEPT ![w] = AfterJob(w)]
  /\ UNCHANGED <<work, alerted, wjob, updateVars, mainVars>>

(* The job's function returns and queue_reply appends the entry; only the   *)
(* worker that found the queue empty goes on to the alert.                  *)
QueueReply(w) ==
  /\ wpc[w] = "running"
  /\ answers' = Append(answers, wjob[w])
  /\ wpc' = [wpc EXCEPT ![w] = IF answers = <<>> THEN "alerting" ELSE AfterJob(w)]
  /\ UNCHANGED <<work, alerted, wjob, updateVars, mainVars>>

(* alert_fn, after the reply queue's lock has been released; its failure is *)
(* ignored by the code and taken not to happen.                             *)
Alert(w) ==
  /\ wpc[w] = "alerting"
  /\ alerted' = TRUE
  /\ wpc' = [wpc EXCEPT ![w] = AfterJob(w)]
  /\ UNCHANGED <<work, answers, wjob, updateVars, mainVars>>

-----------------------------------------------------------------------------
Init ==
  /\ work = [p \in Prio |-> <<>>]
  /\ answers = <<>>
  /\ alerted = FALSE
  /\ wpc = [w \in Worker |-> "ready"]
  /\ wjob = [w \in Worker |-> NoJob]
  /\ gen = 0
  /\ args = [w \in Worker |-> NoArg]
  /\ wgen = [w \in Worker |-> 0]
  /\ applied = [w \in Worker |-> 0]
  /\ mpc = "events"
  /\ mjob = NoJob
  /\ settled = [j \in Job |-> "no"]

Caller ==
  \/ \E j \in Job : (\E p \in Prio : QueueWork(j, p)) \/ Cancel(j)
  \/ QueueUpdate

MainThread == Drain \/ PopAnswer \/ ReplyDone

WorkerThread(w) ==
  \/ TakeUpdate(w) \/ UpdateDone(w) \/ TakeWork(w) \/ Wait(w)
  \/ QueueReply(w) \/ Alert(w)

Next ==
  \/ Caller \/ MainThread
  \/ \E w \in Worker : WorkerThread(w) \/ SpuriousWake(w)

Spec == Init /\ [][Next]_vars

(* The scheduler runs every thread that is not blocked, job functions and   *)
(* reply functions return.  Nobody has to call, and no wake is spurious for *)
(* sure.                                                                    *)
FairSpec ==
  /\ Spec
  /\ WF_vars(MainThread)
  /\ \A w \in Worker : WF_vars(WorkerThread(w))

-----------------------------------------------------------------------------
(* Properties                                                               *)

(* No answer is left behind: while there are answers, the alert socket is   *)
(* readable, a worker is about to make it readable, or the main thread is   *)
(* inside replyqueue_process and will look again (drain before pop; alert   *)
(* after the lock is released, by the worker that found the queue empty).   *)
NoLostReply ==
  answers # <<>> => alerted \/ mpc # "events" \/ \E w \in Worker : wpc[w] = "alerting"

(* No job waits for a sleeping worker: while some worker sleeps, as many    *)
(* others are awake and about to look at the queues as there are jobs on    *)
(* them, whoever took the jobs that the signals were for.                   *)
SleepersNotNeeded ==
  (\E w \in Worker : wpc[w] = "waiting") =>
    Cardinality({w \in Worker : wpc[w] = "ready" /\ wgen[w] = gen})
      >= Cardinality(Pending)

(* A worker that is behind always finds its update argument, and one that   *)
(* has caught up has seen the last update: an update that arrives while an  *)
(* older one is running is neither lost nor run without an argument.        *)
UpdatesNotLost ==
  \A w \in Worker : IF wgen[w] = gen THEN applied[w] = gen ELSE args[w] = gen

(* What the code promises its caller: module WorkPool, a job being on the   *)
(* work queues, in the hands of a running worker, on the reply queue or in  *)
(* its reply function, or settled.                                          *)
StageOf(j) ==
  IF settled[j] # "no" THEN settled[j]
  ELSE IF j \in Pending THEN "queued"
  ELSE IF j \in InHand THEN "running"
  ELSE IF j \in Answered THEN "answered"
  ELSE "new"

Stages == [j \in Job |-> StageOf(j)]

Promise == INSTANCE WorkPool WITH stage <- Stages

KeepsPromise == Promise!WPSpec

(* Nobody will do anything more unless the caller does: the main thread is  *)
(* back in its event loop, the alert socket is quiet, the workers sleep in  *)
(* tor_cond_wait or have left worker_thread_main.                           *)
AtRest ==
  /\ mpc = "events" /\ ~alerted
  /\ \A w \in Worker : wpc[w] \in {"waiting", "gone"}

(* The pool comes to rest only when all is done: no answer is left on the   *)
(* reply queue, and unless every worker has left, every job that was queued *)
(* is cancelled or replied to and every worker that sleeps has applied the  *)
(* last update.  Threads and main thread never wait for each other.         *)
RestIsDone ==
  AtRest =>
    /\ answers = <<>>
    /\ \A w \in Worker : wpc[w] = "waiting" =>
         applied[w] = gen /\ \A j \in Job : StageOf(j) \in {"new", "cancelled", "replied"}

(* As long as one worker survives the fatal jobs, every job that is queued  *)
(* is cancelled or replied to: no wakeup is lost on either side.            *)
EveryJobSettles ==
  \A j \in Job : j \in Pending ~> settled[j] # "no"

(* Every live worker sees the last update, or a newer one is queued.        *)
UpdatesArrive ==
  \A w \in Worker, g \in Gen :
    gen = g ~> (applied[w] = g \/ gen > g \/ wpc[w] = "gone")
=============================================================================
