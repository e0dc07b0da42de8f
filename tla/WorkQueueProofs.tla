-------------------------- MODULE WorkQueueProofs --------------------------
(***************************************************************************)
(* Proofs about WorkQueue, for every set of jobs, workers and priorities   *)
(* and any number of updates: type correctness, no reply left behind, no   *)
(* update lost.                                                            *)
(***************************************************************************)
EXTENDS WorkQueue, QueueLemmas

(* A worker that runs a job has one in hand: what makes TypeOK inductive.   *)
HasJob == \A w \in Worker : wpc[w] = "running" => wjob[w] \in Job

(* No worker is ahead of the pool's generation.                             *)
NotAhead == \A w \in Worker : wgen[w] <= gen

-----------------------------------------------------------------------------
(* Types                                                                    *)

(* Waking a thread keeps the workers' states well-typed and changes waiting *)
(* threads only.                                                            *)
LEMMA SignalFact ==
  ASSUME TypeOK, SignalOne
  PROVE  /\ wpc' \in [Worker -> {"ready", "waiting", "updating", "running", "alerting", "gone"}]
         /\ \A w \in Worker : wpc[w] = "alerting" => wpc'[w] = "alerting"
         /\ \A w \in Worker : wpc'[w] = "running" => wpc[w] = "running"
  BY DEF TypeOK, SignalOne

(* The pool starts with its variables well-typed.                           *)
LEMMA InitType == Init => TypeOK /\ HasJob
<1>1. \A S : <<>> \in Seq(S)
  OBVIOUS
<1>2. 0 \in Gen
  BY WorkAssumption DEF Gen
<1> SUFFICES ASSUME Init PROVE TypeOK /\ HasJob
  OBVIOUS
<1>3. work \in [Prio -> Seq(Job)] /\ answers \in Seq(Job)
  BY <1>1 DEF Init
<1> QED
  BY <1>2, <1>3 DEF Init, TypeOK, HasJob

(* The caller's operations keep the types.                                  *)
LEMMA CallerType == ASSUME TypeOK, HasJob, Caller PROVE TypeOK' /\ HasJob'
<1>1. ASSUME NEW j \in Job, NEW p \in Prio, QueueWork(j, p) PROVE TypeOK' /\ HasJob'
  <2>1. work' \in [Prio -> Seq(Job)]
    BY <1>1 DEF QueueWork, TypeOK
  <2> QED
    BY <1>1, <2>1, SignalFact DEF QueueWork, TypeOK, HasJob, updateVars, mainVars
<1>2. ASSUME NEW j \in Job, Cancel(j) PROVE TypeOK' /\ HasJob'
  <2>1. work' \in [Prio -> Seq(Job)]
    BY <1>2, RemoveAtFact DEF Cancel, TypeOK
  <2> QED
    BY <1>2, <2>1 DEF Cancel, TypeOK, HasJob, workerVars, updateVars
<1>3. ASSUME QueueUpdate PROVE TypeOK' /\ HasJob'
  BY <1>3, WorkAssumption DEF QueueUpdate, TypeOK, HasJob, Gen, queueVars, mainVars
<1> QED
  BY <1>1, <1>2, <1>3 DEF Caller

(* So does replyqueue_process.                                              *)
LEMMA MainType == ASSUME TypeOK, HasJob, MainThread PROVE TypeOK' /\ HasJob'
<1>1. CASE Drain
  BY <1>1 DEF Drain, TypeOK, HasJob, workerVars, updateVars
<1>2. CASE PopAnswer
  <2>1. CASE answers = <<>>
    BY <1>2, <2>1 DEF PopAnswer, TypeOK, HasJob, workerVars, updateVars
  <2>2. CASE answers # <<>>
    <3>1. Head(answers) \in Job /\ Tail(answers) \in Seq(Job)
      BY <2>2 DEF TypeOK
    <3> QED
      BY <1>2, <2>2, <3>1 DEF PopAnswer, TypeOK, HasJob, workerVars, updateVars
  <2> QED
    BY <2>1, <2>2
<1>3. CASE ReplyDone
  BY <1>3 DEF ReplyDone, TypeOK, HasJob, queueVars, workerVars, updateVars
<1> QED
  BY <1>1, <1>2, <1>3 DEF MainThread

(* So does every step of a worker.                                          *)
LEMMA WorkerType ==
  ASSUME TypeOK, HasJob, NEW w \in Worker, WorkerThread(w) \/ SpuriousWake(w)
  PROVE  TypeOK' /\ HasJob'
<1>1. CASE TakeUpdate(w)
  BY <1>1 DEF TakeUpdate, TypeOK, HasJob, queueVars, mainVars
<1>2. CASE UpdateDone(w)
  BY <1>2 DEF UpdateDone, TypeOK, HasJob, queueVars, updateVars, mainVars
<1>3. CASE TakeWork(w)
  <2>1. PICK p \in Prio : /\ work[p] # <<>>
                          /\ wjob' = [wjob EXCEPT ![w] = Head(work[p])]
                          /\ work' = [work EXCEPT ![p] = Tail(@)]
    BY <1>3 DEF TakeWork
  <2>2. Head(work[p]) \in Job /\ Tail(work[p]) \in Seq(Job)
    BY <2>1 DEF TypeOK
  <2> QED
    BY <1>3, <2>1, <2>2 DEF TakeWork, TypeOK, HasJob, updateVars, mainVars
<1>4. CASE Wait(w)
  BY <1>4 DEF Wait, TypeOK, HasJob, queueVars, updateVars, mainVars
<1>5. CASE QueueReply(w)
  <2>1. answers' \in Seq(Job)
    BY <1>5 DEF QueueReply, TypeOK, HasJob
  <2> QED
    BY <1>5, <2>1 DEF QueueReply, AfterJob, TypeOK, HasJob, updateVars, mainVars
<1>6. CASE Alert(w)
  BY <1>6 DEF Alert, AfterJob, TypeOK, HasJob, updateVars, mainVars
<1>7. CASE SpuriousWake(w)
  BY <1>7 DEF SpuriousWake, TypeOK, HasJob, queueVars, updateVars, mainVars
<1> QED
  BY <1>1, <1>2, <1>3, <1>4, <1>5, <1>6, <1>7 DEF WorkerThread

(* TypeOK and HasJob together are inductive.                                *)
LEMMA NextType == TypeOK /\ HasJob /\ [Next]_vars => TypeOK' /\ HasJob'
<1> SUFFICES ASSUME TypeOK, HasJob, [Next]_vars PROVE TypeOK' /\ HasJob'
  OBVIOUS
<1>1. CASE UNCHANGED vars
  BY <1>1 DEF vars, TypeOK, HasJob, queueVars, workerVars, updateVars, mainVars
<1> QED
  BY <1>1, CallerType, MainType, WorkerType DEF Next

(* Every variable keeps its type in every behaviour; in particular the      *)
(* reply queue holds entries only.                                          *)
THEOREM TypeCorrect == Spec => []TypeOK
<1>1. Spec => [](TypeOK /\ HasJob)
  BY InitType, NextType, PTL DEF Spec
<1> QED
  BY <1>1, PTL

-----------------------------------------------------------------------------
(* The reply side                                                           *)

(* NoLostReply is inductive over typed states: the worker that makes the    *)
(* queue nonempty is the one that alerts; the main thread leaves            *)
(* replyqueue_process only on an empty queue; no other step of anybody      *)
(* takes the alert, or a worker on its way to it, away.                     *)
LEMMA NextNoLostReply == TypeOK /\ NoLostReply /\ [Next]_vars => NoLostReply'
<1> SUFFICES ASSUME TypeOK, NoLostReply, [Next]_vars PROVE NoLostReply'
  OBVIOUS
<1>1. CASE UNCHANGED vars
  BY <1>1 DEF vars, NoLostReply, queueVars, workerVars, mainVars
<1>2. ASSUME NEW j \in Job, NEW p \in Prio, QueueWork(j, p) PROVE NoLostReply'
  BY <1>2, SignalFact DEF QueueWork, NoLostReply, mainVars
<1>3. ASSUME NEW j \in Job, Cancel(j) PROVE NoLostReply'
  BY <1>3 DEF Cancel, NoLostReply, workerVars
<1>4. CASE QueueUpdate
  BY <1>4 DEF QueueUpdate, NoLostReply, queueVars, mainVars
<1>5. CASE MainThread
  <2>1. CASE Drain
    BY <2>1 DEF Drain, NoLostReply
  <2>2. CASE PopAnswer
    BY <2>2 DEF PopAnswer, NoLostReply
  <2>3. CASE ReplyDone
    BY <2>3 DEF ReplyDone, NoLostReply
  <2> QED
    BY <1>5, <2>1, <2>2, <2>3 DEF MainThread
<1>6. ASSUME NEW w \in Worker, WorkerThread(w) \/ SpuriousWake(w) PROVE NoLostReply'
  <2>1. CASE TakeUpdate(w)
    BY <2>1 DEF TakeUpdate, NoLostReply, TypeOK, queueVars, mainVars
  <2>2. CASE UpdateDone(w)
    BY <2>2 DEF UpdateDone, NoLostReply, TypeOK, queueVars, mainVars
  <2>3. CASE TakeWork(w)
    BY <2>3 DEF TakeWork, NoLostReply, TypeOK, mainVars
  <2>4. CASE Wait(w)
    BY <2>4 DEF Wait, NoLostReply, TypeOK, queueVars, mainVars
  <2>5. CASE QueueReply(w)
    <3>1. CASE answers = <<>>
      <4>1. wpc'[w] = "alerting"
        BY <2>5, <3>1 DEF QueueReply, TypeOK
      <4> QED
        BY <4>1 DEF NoLostReply
    <3>2. CASE answers # <<>>
      BY <2>5, <3>2 DEF QueueReply, NoLostReply, TypeOK, mainVars
    <3> QED
      BY <3>1, <3>2
  <2>6. CASE Alert(w)
    BY <2>6 DEF Alert, NoLostReply
  <2>7. CASE SpuriousWake(w)
    BY <2>7 DEF SpuriousWake, NoLostReply, TypeOK, queueVars, mainVars
  <2> QED
    BY <1>6, <2>1, <2>2, <2>3, <2>4, <2>5, <2>6, <2>7 DEF WorkerThread
<1> QED
  BY <1>1, <1>2, <1>3, <1>4, <1>5, <1>6 DEF Next, Caller

(* An answer on the reply queue is always announced, or about to be, or the *)
(* main thread is about to look (queue_reply against replyqueue_process).   *)
THEOREM NoLostReplyHolds == Spec => []NoLostReply
<1>1. Init => NoLostReply
  BY DEF Init, NoLostReply
<1> QED
  BY <1>1, TypeCorrect, NextNoLostReply, PTL DEF Spec

-----------------------------------------------------------------------------
(* Updates                                                                  *)

(* UpdatesNotLost and NotAhead together are inductive over typed states: an *)
(* update gives every worker the argument of the new generation, which no   *)
(* worker has reached yet; a worker takes argument and generation at once.  *)
LEMMA NextUpdates ==
  TypeOK /\ UpdatesNotLost /\ NotAhead /\ [Next]_vars => UpdatesNotLost' /\ NotAhead'
<1> SUFFICES ASSUME TypeOK, UpdatesNotLost, NotAhead, [Next]_vars
             PROVE  UpdatesNotLost' /\ NotAhead'
  OBVIOUS
<1>1. CASE UNCHANGED updateVars
  BY <1>1 DEF updateVars, UpdatesNotLost, NotAhead
<1>2. CASE QueueUpdate
  <2>1. gen \in Nat /\ \A w \in Worker : wgen[w] \in Nat
    BY WorkAssumption DEF TypeOK, Gen
  <2>2. \A w \in Worker : wgen'[w] # gen' /\ wgen'[w] <= gen' /\ args'[w] = gen'
    BY <1>2, <2>1 DEF QueueUpdate, NotAhead
  <2> QED
    BY <2>2 DEF UpdatesNotLost, NotAhead
<1>3. ASSUME NEW w \in Worker, TakeUpdate(w) PROVE UpdatesNotLost' /\ NotAhead'
  <2>1. args[w] = gen /\ gen # NoArg /\ gen <= gen
    BY <1>3, WorkAssumption DEF TakeUpdate, UpdatesNotLost, TypeOK, Gen
  <2>2. gen' = gen /\ wgen' = [wgen EXCEPT ![w] = gen]
        /\ applied' = [applied EXCEPT ![w] = gen]
        /\ args' = [args EXCEPT ![w] = NoArg]
    BY <1>3, <2>1 DEF TakeUpdate, TypeOK
  <2>3. \A v \in Worker : IF wgen'[v] = gen' THEN applied'[v] = gen' ELSE args'[v] = gen'
    BY <2>1, <2>2 DEF UpdatesNotLost, TypeOK
  <2>4. \A v \in Worker : wgen'[v] <= gen'
    BY <2>1, <2>2 DEF NotAhead, TypeOK
  <2> QED
    BY <2>3, <2>4 DEF UpdatesNotLost, NotAhead
<1> QED
  BY <1>1, <1>2, <1>3
     DEF Next, Caller, MainThread, WorkerThread, QueueWork, Cancel, Drain, PopAnswer, ReplyDone,
         UpdateDone, TakeWork, Wait, QueueReply, Alert, SpuriousWake, vars, updateVars

(* No update is lost, however updates, their functions and jobs interleave: *)
(* a worker behind finds the last argument, any other has applied it.       *)
THEOREM UpdatesNotLostHolds == Spec => []UpdatesNotLost
<1>1. Init => UpdatesNotLost /\ NotAhead
  BY DEF Init, UpdatesNotLost, NotAhead
<1>2. Spec => [](UpdatesNotLost /\ NotAhead)
  BY <1>1, TypeCorrect, NextUpdates, PTL DEF Spec
<1> QED
  BY <1>2, PTL
=============================================================================
