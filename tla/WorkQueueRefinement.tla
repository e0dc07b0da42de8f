------------------------ MODULE WorkQueueRefinement -------------------------
(***************************************************************************)
(* Proof that WorkQueue keeps the promise of WorkPool, for every set of    *)
(* jobs, workers and priorities: each step of the queues, the workers and  *)
(* the main thread is a step of one job, or none.  What makes it so is     *)
(* that a job is in one place at most, and there once: on one work queue,  *)
(* with one worker, on the reply queue, in its reply function, or settled. *)
(* The same invariant lets sleeping workers be counted against jobs; so    *)
(* when the pool comes to rest, no job, answer or update is left over.     *)
(***************************************************************************)
EXTENDS WorkQueueProofs, FiniteSetTheorems

-----------------------------------------------------------------------------
(* The invariant                                                            *)

(* No queue holds an entry twice, no entry is on two work queues.           *)
QueuesOK ==
  /\ \A p \in Prio : Distinct(work[p])
  /\ \A p, q \in Prio : \A j \in Job : j \in ToSet(work[p]) /\ j \in ToSet(work[q]) => p = q
  /\ Distinct(answers)

(* No two workers run the same entry, and the one whose reply runs has left *)
(* the reply queue.                                                         *)
HandsOK ==
  /\ \A v, w \in Worker :
       wpc[v] = "running" /\ wpc[w] = "running" /\ wjob[v] = wjob[w] => v = w
  /\ mpc = "reply" => mjob \in Job /\ mjob \notin ToSet(answers)

(* A job is in one place at most.                                           *)
OnePlace ==
  \A j \in Job :
    /\ j \in Pending => j \notin InHand /\ j \notin Answered /\ settled[j] = "no"
    /\ j \in InHand => j \notin Answered /\ settled[j] = "no"
    /\ j \in Answered => settled[j] = "no"

RInv == TypeOK /\ HasJob /\ QueuesOK /\ HandsOK /\ OnePlace

-----------------------------------------------------------------------------
(* Stages                                                                   *)

(* One job's stage changes: a step of WorkPool.                             *)
LEMMA MoveFact ==
  ASSUME NEW j \in Job, NEW from, NEW to, StageOf(j) = from, StageOf(j)' = to,
         \A i \in Job : i # j => StageOf(i)' = StageOf(i)
  PROVE  Promise!Move(j, from, to)
  BY DEF Promise!Move, Stages

(* No job's does: a stutter.                                                *)
LEMMA StutterFact ==
  ASSUME \A i \in Job : StageOf(i)' = StageOf(i)
  PROVE  UNCHANGED Stages
  BY DEF Stages

(* Stages follow from the places.                                           *)
LEMMA StageStays ==
  ASSUME UNCHANGED <<Pending, InHand, Answered, settled>>
  PROVE  UNCHANGED Stages
  BY StutterFact DEF StageOf

(* The work queues are the same or one of them has changed.                 *)
LEMMA PendingIs == \A j : j \in Pending <=> \E p \in Prio : j \in ToSet(work[p])
  BY DEF Pending

LEMMA InHandIs ==
  \A j : j \in InHand <=> \E w \in Worker : wpc[w] = "running" /\ wjob[w] = j
  BY DEF InHand

(* A step of a worker that has no job in hand before or after it, and none  *)
(* on the queues.                                                           *)
LEMMA Aside ==
  ASSUME RInv, UNCHANGED <<work, answers, mainVars, wjob>>,
         \A w \in Worker : wpc'[w] = "running" <=> wpc[w] = "running"
  PROVE  /\ (QueuesOK /\ HandsOK /\ OnePlace)'
         /\ UNCHANGED Stages
<1>1. Pending' = Pending /\ Answered' = Answered
  BY DEF Pending, Answered, mainVars
<1>2. InHand' = InHand
  BY DEF InHand
<1> QED
  BY <1>1, <1>2, StageStays DEF RInv, QueuesOK, HandsOK, OnePlace, mainVars

-----------------------------------------------------------------------------
(* The caller                                                               *)

(* A new entry is queued.                                                   *)
LEMMA QueueWorkStep ==
  ASSUME RInv, NEW j \in Job, NEW p \in Prio, QueueWork(j, p)
  PROVE  /\ (QueuesOK /\ HandsOK /\ OnePlace)' /\ Promise!Accept(j)
         /\ Pending' = Pending \cup {j} /\ j \notin Pending
<1> USE DEF RInv
<1>1. /\ j \notin Known /\ work' = [work EXCEPT ![p] = Append(work[p], j)] /\ SignalOne
      /\ UNCHANGED <<answers, wjob, mainVars>>
  BY DEF QueueWork
<1>2. j \notin Pending /\ j \notin InHand /\ j \notin Answered /\ settled[j] = "no"
  BY <1>1 DEF Known
<1>3. j \notin ToSet(work[p]) /\ work[p] \in Seq(Job)
  BY <1>2, PendingIs DEF TypeOK
<1>4. /\ Distinct(work'[p]) /\ ToSet(work'[p]) = ToSet(work[p]) \cup {j}
      /\ \A q \in Prio : q # p => work'[q] = work[q]
  BY <1>1, <1>3, AppendFact DEF QueuesOK, TypeOK
<1>5. \A w \in Worker : wpc'[w] = "running" <=> wpc[w] = "running"
  BY <1>1 DEF SignalOne, TypeOK
<1>6. Answered' = Answered /\ settled' = settled
  BY <1>1 DEF Answered, mainVars
<1>7. InHand' = InHand
  BY <1>1, <1>5 DEF InHand
<1>8. Pending' = Pending \cup {j}
  <2>1. \A i : i \in Pending' <=> \E q \in Prio : i \in ToSet(work'[q])
    BY DEF Pending
  <2> QED
    BY <1>4, <2>1, PendingIs
<1>9. QueuesOK'
  BY <1>1, <1>2, <1>4, PendingIs DEF QueuesOK
<1>10. HandsOK'
  BY <1>1, <1>5 DEF HandsOK, mainVars
<1>11. OnePlace'
  BY <1>2, <1>6, <1>7, <1>8 DEF OnePlace
<1>12. /\ StageOf(j) = "new" /\ StageOf(j)' = "queued"
       /\ \A i \in Job : i # j => StageOf(i)' = StageOf(i)
  BY <1>2, <1>6, <1>7, <1>8 DEF StageOf
<1> QED
  BY <1>2, <1>8, <1>9, <1>10, <1>11, <1>12, MoveFact DEF Promise!Accept

(* A pending entry is cancelled.                                            *)
LEMMA CancelStep ==
  ASSUME RInv, NEW j \in Job, Cancel(j)
  PROVE  /\ (QueuesOK /\ HandsOK /\ OnePlace)' /\ Promise!Withdraw(j)
         /\ Pending' = Pending \ {j}
<1> USE DEF RInv
<1>1. PICK p \in Prio : \E k \in DOMAIN work[p] :
        work[p][k] = j /\ work' = [work EXCEPT ![p] = RemoveAt(work[p], k)]
  BY DEF Cancel
<1>2. PICK k \in DOMAIN work[p] :
        work[p][k] = j /\ work' = [work EXCEPT ![p] = RemoveAt(work[p], k)]
  BY <1>1
<1>3. /\ settled' = [settled EXCEPT ![j] = "cancelled"]
      /\ UNCHANGED <<answers, workerVars, mpc, mjob>>
  BY DEF Cancel
<1>4. work[p] \in Seq(Job) /\ Distinct(work[p]) /\ work'[p] = RemoveAt(work[p], k)
  BY <1>2 DEF TypeOK, QueuesOK
<1>5. Distinct(work'[p]) /\ ToSet(work'[p]) = ToSet(work[p]) \ {j} /\ j \in ToSet(work[p])
  BY <1>2, <1>4, RemoveCut
<1>6. \A q \in Prio : q # p => work'[q] = work[q]
  BY <1>2 DEF TypeOK
<1>7. j \in Pending /\ settled[j] = "no"
  BY <1>5, PendingIs DEF OnePlace
<1>8. Answered' = Answered /\ InHand' = InHand
  BY <1>3 DEF Answered, InHand, workerVars
<1>9. Pending' = Pending \ {j}
  <2>1. \A i : i \in Pending' <=> \E q \in Prio : i \in ToSet(work'[q])
    BY DEF Pending
  <2> QED
    BY <1>5, <1>6, <2>1, PendingIs DEF QueuesOK
<1>10. QueuesOK'
  BY <1>3, <1>5, <1>6 DEF QueuesOK
<1>11. HandsOK'
  BY <1>3 DEF HandsOK, workerVars
<1>12. OnePlace'
  BY <1>3, <1>7, <1>8, <1>9 DEF OnePlace, TypeOK
<1>13. /\ StageOf(j) = "queued" /\ StageOf(j)' = "cancelled"
       /\ \A i \in Job : i # j => StageOf(i)' = StageOf(i)
  BY <1>3, <1>7, <1>8, <1>9 DEF StageOf, TypeOK
<1> QED
  BY <1>9, <1>10, <1>11, <1>12, <1>13, MoveFact DEF Promise!Withdraw

-----------------------------------------------------------------------------
(* The workers                                                              *)

(* A worker takes the first entry of a queue.                               *)
LEMMA TakeWorkStep ==
  ASSUME RInv, NEW w \in Worker, TakeWork(w)
  PROVE  /\ (QueuesOK /\ HandsOK /\ OnePlace)'
         /\ \E j \in Pending : j \in Job /\ Promise!Begin(j) /\ Pending' = Pending \ {j}
<1> USE DEF RInv
<1>1. PICK p \in Prio : /\ work[p] # <<>>
                        /\ wjob' = [wjob EXCEPT ![w] = Head(work[p])]
                        /\ work' = [work EXCEPT ![p] = Tail(work[p])]
  BY DEF TakeWork
<1>2. /\ wpc[w] = "ready" /\ wpc' = [wpc EXCEPT ![w] = "running"]
      /\ UNCHANGED <<answers, mainVars>>
  BY DEF TakeWork
<1>3. work[p] \in Seq(Job) /\ Distinct(work[p]) /\ work'[p] = Tail(work[p])
  BY <1>1 DEF TypeOK, QueuesOK
<1>4. PICK j \in Job : /\ j = Head(work[p]) /\ j \in ToSet(work[p])
                       /\ Distinct(work'[p]) /\ ToSet(work'[p]) = ToSet(work[p]) \ {j}
  BY <1>1, <1>3, TailCut
<1>5. \A q \in Prio : q # p => work'[q] = work[q]
  BY <1>1 DEF TypeOK
<1>6. j \in Pending /\ j \notin InHand /\ j \notin Answered /\ settled[j] = "no"
  BY <1>4, PendingIs DEF OnePlace
<1>7. wjob' = [wjob EXCEPT ![w] = j] /\ wjob'[w] = j
  BY <1>1, <1>4 DEF TypeOK
<1>8. Answered' = Answered /\ settled' = settled
  BY <1>2 DEF Answered, mainVars
<1>9. Pending' = Pending \ {j}
  <2>1. \A i : i \in Pending' <=> \E q \in Prio : i \in ToSet(work'[q])
    BY DEF Pending
  <2> QED
    BY <1>4, <1>5, <2>1, PendingIs DEF QueuesOK
<1>10. \A i \in Job : i \in InHand' <=> i \in InHand \/ i = j
  <2>1. \A i : i \in InHand' <=> \E v \in Worker : wpc'[v] = "running" /\ wjob'[v] = i
    BY DEF InHand
  <2> QED
    BY <1>2, <1>7, <2>1, InHandIs DEF TypeOK
<1>11. QueuesOK'
  BY <1>2, <1>4, <1>5 DEF QueuesOK
<1>12. HandsOK'
  <2>1. \A v \in Worker : v # w /\ wpc'[v] = "running" => wpc[v] = "running" /\ wjob'[v] = wjob[v] /\ wjob[v] # j
    BY <1>2, <1>6, <1>7, InHandIs DEF TypeOK
  <2> QED
    BY <1>2, <1>7, <2>1 DEF HandsOK, mainVars
<1>13. OnePlace'
  BY <1>6, <1>8, <1>9, <1>10 DEF OnePlace
<1>14. /\ StageOf(j) = "queued" /\ StageOf(j)' = "running"
       /\ \A i \in Job : i # j => StageOf(i)' = StageOf(i)
  BY <1>4, <1>6, <1>8, <1>9, <1>10 DEF StageOf
<1> QED
  BY <1>4, <1>6, <1>9, <1>11, <1>12, <1>13, <1>14, MoveFact DEF Promise!Begin

(* A worker puts its entry on the reply queue.                              *)
LEMMA QueueReplyStep ==
  ASSUME RInv, NEW w \in Worker, QueueReply(w)
  PROVE  (QueuesOK /\ HandsOK /\ OnePlace)' /\ \E j \in Job : Promise!Finish(j)
<1> USE DEF RInv
<1>1. /\ wpc[w] = "running" /\ answers' = Append(answers, wjob[w])
      /\ UNCHANGED <<work, wjob, mainVars>>
      /\ wpc'[w] # "running" /\ \A v \in Worker : v # w => wpc'[v] = wpc[v]
  BY DEF QueueReply, AfterJob, TypeOK
<1>2. PICK j \in Job : j = wjob[w]
  BY <1>1 DEF HasJob
<1>3. j \in InHand /\ j \notin Pending /\ j \notin Answered /\ settled[j] = "no"
  BY <1>1, <1>2, InHandIs DEF OnePlace
<1>4. j \notin ToSet(answers) /\ (mpc = "reply" => j # mjob)
  BY <1>3 DEF Answered
<1>5. Distinct(answers') /\ ToSet(answers') = ToSet(answers) \cup {j}
  BY <1>1, <1>2, <1>4, AppendFact DEF QueuesOK, TypeOK
<1>6. Pending' = Pending /\ settled' = settled /\ mpc' = mpc /\ mjob' = mjob
  BY <1>1 DEF Pending, mainVars
<1>7. \A i \in Job : i \in Answered' <=> i \in Answered \/ i = j
  BY <1>5, <1>6 DEF Answered
<1>8. \A i \in Job : i \in InHand' <=> i \in InHand /\ i # j
  <2>1. \A i : i \in InHand' <=> \E v \in Worker : wpc'[v] = "running" /\ wjob'[v] = i
    BY DEF InHand
  <2> QED
    BY <1>1, <1>2, <2>1, InHandIs DEF HandsOK
<1>9. QueuesOK'
  BY <1>1, <1>5 DEF QueuesOK
<1>10. HandsOK'
  BY <1>1, <1>4, <1>5, <1>6 DEF HandsOK
<1>11. OnePlace'
  BY <1>3, <1>6, <1>7, <1>8 DEF OnePlace
<1>12. /\ StageOf(j) = "running" /\ StageOf(j)' = "answered"
       /\ \A i \in Job : i # j => StageOf(i)' = StageOf(i)
  BY <1>2, <1>3, <1>6, <1>7, <1>8 DEF StageOf
<1> QED
  BY <1>2, <1>9, <1>10, <1>11, <1>12, MoveFact DEF Promise!Finish

-----------------------------------------------------------------------------
(* The replies                                                              *)

(* The main thread takes an answer; it is still one.                        *)
LEMMA PopAnswerStep ==
  ASSUME RInv, PopAnswer
  PROVE  (QueuesOK /\ HandsOK /\ OnePlace)' /\ UNCHANGED Stages
<1> USE DEF RInv
<1>1. mpc = "drained" /\ UNCHANGED <<work, workerVars, settled>>
  BY DEF PopAnswer
<1>2. Pending' = Pending /\ InHand' = InHand
  BY <1>1 DEF Pending, InHand, workerVars
<1>3. /\ Answered' = Answered /\ Distinct(answers')
      /\ mpc' = "reply" => mjob' \in Job /\ mjob' \notin ToSet(answers')
  <2>1. CASE answers = <<>>
    BY <1>1, <2>1 DEF PopAnswer, Answered, QueuesOK
  <2>2. CASE answers # <<>>
    <3>1. mpc' = "reply" /\ mjob' = Head(answers) /\ answers' = Tail(answers)
      BY <2>2 DEF PopAnswer
    <3>2. /\ mjob' \in Job /\ mjob' \in ToSet(answers)
          /\ Distinct(answers') /\ ToSet(answers') = ToSet(answers) \ {mjob'}
      BY <2>2, <3>1, TailCut DEF TypeOK, QueuesOK
    <3>3. Answered' = Answered
      BY <1>1, <3>1, <3>2 DEF Answered
    <3> QED
      BY <3>2, <3>3
  <2> QED
    BY <2>1, <2>2
<1>4. QueuesOK' /\ HandsOK'
  BY <1>1, <1>3 DEF QueuesOK, HandsOK, workerVars
<1>5. OnePlace'
  BY <1>1, <1>2, <1>3 DEF OnePlace
<1> QED
  BY <1>1, <1>2, <1>3, <1>4, <1>5, StageStays

(* A reply function returns.                                                *)
LEMMA ReplyDoneStep ==
  ASSUME RInv, ReplyDone
  PROVE  (QueuesOK /\ HandsOK /\ OnePlace)' /\ \E j \in Job : Promise!Answer(j)
<1> USE DEF RInv
<1>1. /\ mpc = "reply" /\ mpc' = "drained" /\ settled' = [settled EXCEPT ![mjob] = "replied"]
      /\ UNCHANGED <<work, answers, workerVars, mjob>>
  BY DEF ReplyDone, queueVars
<1>2. PICK j \in Job : j = mjob /\ j \notin ToSet(answers) /\ j \in Answered
  BY <1>1 DEF HandsOK, Answered
<1>3. j \notin Pending /\ j \notin InHand /\ settled[j] = "no"
  BY <1>2 DEF OnePlace
<1>4. Pending' = Pending /\ InHand' = InHand
  BY <1>1 DEF Pending, InHand, workerVars
<1>5. \A i \in Job : i \in Answered' <=> i \in Answered /\ i # j
  BY <1>1, <1>2 DEF Answered
<1>6. QueuesOK' /\ HandsOK'
  BY <1>1 DEF QueuesOK, HandsOK, workerVars
<1>7. OnePlace'
  BY <1>1, <1>2, <1>3, <1>4, <1>5 DEF OnePlace, TypeOK
<1>8. /\ StageOf(j) = "answered" /\ StageOf(j)' = "replied"
      /\ \A i \in Job : i # j => StageOf(i)' = StageOf(i)
  BY <1>1, <1>2, <1>3, <1>4, <1>5 DEF StageOf, TypeOK
<1> QED
  BY <1>2, <1>6, <1>7, <1>8, MoveFact DEF Promise!Answer

-----------------------------------------------------------------------------
(* The refinement                                                           *)

(* Every step of WorkQueue is one of WorkPool or leaves every job's stage.  *)
PoolStep ==
  \/ \E j \in Job : \/ Promise!Accept(j) \/ Promise!Withdraw(j) \/ Promise!Begin(j)
                    \/ Promise!Finish(j) \/ Promise!Answer(j)
  \/ UNCHANGED Stages

LEMMA NextRefines ==
  ASSUME RInv, [Next]_vars PROVE RInv' /\ PoolStep
<1>0. TypeOK' /\ HasJob'
  BY NextType DEF RInv
<1> SUFFICES (QueuesOK /\ HandsOK /\ OnePlace)' /\ PoolStep
  BY <1>0 DEF RInv
<1>1. CASE UNCHANGED vars
  BY <1>1, Aside DEF vars, queueVars, workerVars, PoolStep
<1>2. ASSUME NEW j \in Job, NEW p \in Prio, QueueWork(j, p)
      PROVE  (QueuesOK /\ HandsOK /\ OnePlace)' /\ PoolStep
  BY <1>2, QueueWorkStep DEF PoolStep
<1>3. ASSUME NEW j \in Job, Cancel(j) PROVE (QueuesOK /\ HandsOK /\ OnePlace)' /\ PoolStep
  BY <1>3, CancelStep DEF PoolStep
<1>4. CASE QueueUpdate
  <2>1. \A w \in Worker : wpc'[w] = "running" <=> wpc[w] = "running"
    BY <1>4 DEF QueueUpdate
  <2> QED
    BY <1>4, <2>1, Aside DEF QueueUpdate, queueVars, PoolStep
<1>5. CASE Drain
  <2>1. UNCHANGED <<work, answers, workerVars, mjob, settled>> /\ mpc = "events" /\ mpc' = "drained"
    BY <1>5 DEF Drain
  <2>2. UNCHANGED <<Pending, InHand, Answered, settled>>
    BY <2>1 DEF Pending, InHand, Answered, workerVars
  <2>3. (QueuesOK /\ HandsOK /\ OnePlace)'
    BY <2>1, <2>2 DEF RInv, QueuesOK, HandsOK, OnePlace, workerVars
  <2> QED
    BY <2>2, <2>3, StageStays DEF PoolStep
<1>6. CASE PopAnswer
  BY <1>6, PopAnswerStep DEF PoolStep
<1>7. CASE ReplyDone
  BY <1>7, ReplyDoneStep DEF PoolStep
<1>8. ASSUME NEW w \in Worker, TakeWork(w)
      PROVE  (QueuesOK /\ HandsOK /\ OnePlace)' /\ PoolStep
  BY <1>8, TakeWorkStep DEF PoolStep
<1>9. ASSUME NEW w \in Worker, QueueReply(w)
      PROVE  (QueuesOK /\ HandsOK /\ OnePlace)' /\ PoolStep
  BY <1>9, QueueReplyStep DEF PoolStep
<1>10. ASSUME NEW w \in Worker,
              TakeUpdate(w) \/ UpdateDone(w) \/ Wait(w) \/ Alert(w) \/ SpuriousWake(w)
       PROVE  (QueuesOK /\ HandsOK /\ OnePlace)' /\ PoolStep
  <2>1. UNCHANGED <<work, answers, mainVars, wjob>>
    BY <1>10 DEF TakeUpdate, UpdateDone, Wait, Alert, SpuriousWake, queueVars
  <2>2. \A v \in Worker : wpc'[v] = "running" <=> wpc[v] = "running"
    BY <1>10 DEF TakeUpdate, UpdateDone, Wait, Alert, AfterJob, SpuriousWake, RInv, TypeOK
  <2> QED
    BY <2>1, <2>2, Aside DEF PoolStep
<1> QED
  BY <1>1, <1>2, <1>3, <1>4, <1>5, <1>6, <1>7, <1>8, <1>9, <1>10
  DEF Next, Caller, MainThread, WorkerThread

LEMMA InitRInv == Init => RInv /\ Promise!WPInit
<1> SUFFICES ASSUME Init PROVE RInv /\ Promise!WPInit
  OBVIOUS
<1>1. /\ \A p \in Prio : work[p] = <<>> /\ ToSet(work[p]) = {}
      /\ answers = <<>> /\ ToSet(answers) = {} /\ mpc = "events"
      /\ \A w \in Worker : wpc[w] = "ready"
      /\ \A j \in Job : settled[j] = "no"
  BY DEF Init, ToSet
<1>2. Pending = {} /\ InHand = {} /\ Answered = {}
  BY <1>1, PendingIs, InHandIs DEF Answered
<1>3. Promise!WPInit
  BY <1>1, <1>2 DEF Promise!WPInit, StageOf, Stages
<1>4. QueuesOK /\ HandsOK /\ OnePlace
  BY <1>1, <1>2 DEF QueuesOK, HandsOK, OnePlace, Distinct
<1> QED
  BY <1>3, <1>4, InitType DEF RInv

LEMMA AlwaysRInv == Spec => []RInv
<1>1. RInv /\ [Next]_vars => RInv'
  BY NextRefines
<1> QED
  BY <1>1, InitRInv, PTL DEF Spec

(* The work queue implements the pool that its clients rely on: each job is *)
(* cancelled before it starts, or run once and replied to once.             *)
THEOREM ImplementsWorkPool == Spec => KeepsPromise
<1>1. RInv /\ [Next]_vars => [Promise!WPNext]_Stages
  BY NextRefines DEF PoolStep, Promise!WPNext
<1> QED
  BY <1>1, InitRInv, AlwaysRInv, PTL DEF Spec, KeepsPromise, Promise!WPSpec

-----------------------------------------------------------------------------
(* Sleepers                                                                 *)

(* The workers that are about to look at the queues.                        *)
Awake == {w \in Worker : wpc[w] = "ready" /\ wgen[w] = gen}

(* A worker that sleeps has no update to catch up with.                     *)
SleepersCurrent == \A w \in Worker : wpc[w] = "waiting" => wgen[w] = gen

SInv == SleepersCurrent /\ SleepersNotNeeded

LEMMA Sizes ==
  ASSUME IsFiniteSet(Job), IsFiniteSet(Worker), TypeOK
  PROVE  /\ IsFiniteSet(Awake) /\ IsFiniteSet(Pending)
         /\ Cardinality(Awake) \in Nat /\ Cardinality(Pending) \in Nat
<1>1. Awake \in SUBSET Worker
  BY DEF Awake
<1>2. Pending \in SUBSET Job
  <2>1. \A p \in Prio : ToSet(work[p]) \subseteq Job
    BY DEF TypeOK, ToSet
  <2> QED
    BY <2>1 DEF Pending
<1> QED
  BY <1>1, <1>2, FS_Subset, FS_CardinalityType

(* Nobody falls asleep, nobody who was awake takes anything, no job comes.  *)
LEMMA SleepersStay ==
  ASSUME IsFiniteSet(Job), IsFiniteSet(Worker), TypeOK, TypeOK', SInv,
         Awake \subseteq Awake', Pending' \subseteq Pending, gen' = gen,
         \A w \in Worker : wpc'[w] = "waiting" => wpc[w] = "waiting" /\ wgen'[w] = wgen[w]
  PROVE  SInv'
<1>1. IsFiniteSet(Awake') /\ IsFiniteSet(Pending)
  <2>1. Awake' \in SUBSET Worker
    BY DEF Awake
  <2> QED
    BY <2>1, Sizes, FS_Subset
<1>2. /\ Cardinality(Awake) <= Cardinality(Awake')
      /\ Cardinality(Pending') <= Cardinality(Pending)
      /\ Cardinality(Awake) \in Nat /\ Cardinality(Awake') \in Nat
      /\ Cardinality(Pending) \in Nat /\ Cardinality(Pending') \in Nat
  <2>1. Awake \in SUBSET Awake' /\ Pending' \in SUBSET Pending
    OBVIOUS
  <2> QED
    BY <1>1, <2>1, FS_Subset, FS_CardinalityType
<1>3. SleepersCurrent'
  BY DEF SInv, SleepersCurrent
<1>4. SleepersNotNeeded'
  BY <1>2 DEF SInv, SleepersNotNeeded, Awake
<1> QED
  BY <1>3, <1>4 DEF SInv

(* SInv is inductive: a signal wakes a worker for each entry queued, an     *)
(* entry is taken by one worker, and workers fall asleep on empty queues.   *)
LEMMA NextSleepers ==
  ASSUME IsFiniteSet(Job), IsFiniteSet(Worker), RInv, RInv', SInv, [Next]_vars
  PROVE  SInv'
<1>0. TypeOK /\ TypeOK'
  BY DEF RInv
<1>1. ASSUME NEW j \in Job, NEW p \in Prio, QueueWork(j, p) PROVE SInv'
  <2>1. Pending' = Pending \cup {j} /\ j \notin Pending
    BY <1>1, QueueWorkStep
  <2>2. gen' = gen /\ wgen' = wgen /\ SignalOne
    BY <1>1 DEF QueueWork, updateVars
  <2>3. CASE \A w \in Worker : wpc'[w] # "waiting"
    BY <2>3 DEF SInv, SleepersCurrent, SleepersNotNeeded
  <2>4. CASE ~\A w \in Worker : wpc'[w] # "waiting"
    <3>1. PICK w \in Worker : wpc[w] = "waiting" /\ wpc' = [wpc EXCEPT ![w] = "ready"]
      BY <2>2, <2>4 DEF SignalOne
    <3>2. Awake' = Awake \cup {w} /\ w \notin Awake
      BY <1>0, <2>2, <3>1 DEF Awake, TypeOK, SInv, SleepersCurrent
    <3>3. /\ Cardinality(Awake') = Cardinality(Awake) + 1
          /\ Cardinality(Pending') = Cardinality(Pending) + 1
      BY <1>0, <2>1, <3>2, Sizes, FS_AddElement
    <3>4. Cardinality(Awake) >= Cardinality(Pending)
      BY <3>1 DEF SInv, SleepersNotNeeded, Awake
    <3>5. Cardinality(Awake') >= Cardinality(Pending')
      BY <1>0, <3>3, <3>4, Sizes
    <3>6. SleepersCurrent'
      BY <1>0, <2>2, <3>1 DEF TypeOK, SInv, SleepersCurrent
    <3> QED
      BY <3>5, <3>6 DEF SInv, SleepersNotNeeded, Awake
  <2> QED
    BY <2>3, <2>4
<1>2. ASSUME NEW j \in Job, Cancel(j) PROVE SInv'
  <2>1. UNCHANGED <<wpc, gen, wgen>> /\ Pending' = Pending \ {j}
    BY <1>2, CancelStep DEF Cancel, workerVars, updateVars
  <2> QED
    BY <1>0, <2>1, SleepersStay DEF Awake
<1>3. CASE QueueUpdate
  BY <1>3 DEF QueueUpdate, SInv, SleepersCurrent, SleepersNotNeeded
<1>4. CASE MainThread \/ UNCHANGED vars
  <2>1. UNCHANGED <<wpc, gen, wgen, work>>
    BY <1>4
    DEF MainThread, Drain, PopAnswer, ReplyDone, vars, queueVars, workerVars, updateVars
  <2> QED
    BY <1>0, <2>1, SleepersStay DEF Awake, Pending
<1>5. ASSUME NEW w \in Worker, TakeWork(w) PROVE SInv'
  <2>1. PICK j \in Pending : Pending' = Pending \ {j}
    BY <1>5, TakeWorkStep
  <2>2. /\ wpc[w] = "ready" /\ wgen[w] = gen /\ wpc' = [wpc EXCEPT ![w] = "running"]
        /\ UNCHANGED <<gen, wgen>>
    BY <1>5 DEF TakeWork, updateVars
  <2>3. Awake' = Awake \ {w} /\ w \in Awake
    BY <1>0, <2>2 DEF Awake, TypeOK
  <2>4. /\ Cardinality(Awake') = Cardinality(Awake) - 1
        /\ Cardinality(Pending') = Cardinality(Pending) - 1
    BY <1>0, <2>1, <2>3, Sizes, FS_RemoveElement
  <2>5. \A v \in Worker : wpc'[v] = "waiting" => wpc[v] = "waiting"
    BY <1>0, <2>2 DEF TypeOK
  <2>6. SleepersNotNeeded'
    BY <1>0, <2>4, <2>5, Sizes DEF SInv, SleepersNotNeeded, Awake
  <2> QED
    BY <2>2, <2>5, <2>6 DEF SInv, SleepersCurrent
<1>6. ASSUME NEW w \in Worker, Wait(w) PROVE SInv'
  <2>1. /\ wgen[w] = gen /\ wpc' = [wpc EXCEPT ![w] = "waiting"] /\ Pending' = {}
        /\ UNCHANGED <<gen, wgen>>
    BY <1>6 DEF Wait, queueVars, updateVars, Pending
  <2>2. IsFiniteSet(Awake')
    <3>1. Awake' \in SUBSET Worker
      BY DEF Awake
    <3> QED
      BY <3>1, FS_Subset
  <2>3. Cardinality(Awake') \in Nat /\ Cardinality(Pending') = 0
    BY <2>1, <2>2, FS_CardinalityType, FS_EmptySet
  <2> QED
    BY <1>0, <2>1, <2>3 DEF TypeOK, SInv, SleepersCurrent, SleepersNotNeeded, Awake
<1>7. ASSUME NEW w \in Worker, TakeUpdate(w) PROVE SInv'
  <2>1. /\ wpc[w] = "ready" /\ wgen[w] # gen /\ wpc' = [wpc EXCEPT ![w] = "updating"]
        /\ wgen' = [wgen EXCEPT ![w] = gen] /\ UNCHANGED <<gen, work>>
    BY <1>7 DEF TakeUpdate, queueVars
  <2> QED
    BY <1>0, <2>1, SleepersStay DEF Awake, Pending, TypeOK
<1>8. ASSUME NEW w \in Worker,
             UpdateDone(w) \/ QueueReply(w) \/ Alert(w) \/ SpuriousWake(w)
      PROVE  SInv'
  <2>1. /\ wpc[w] # "ready" /\ wpc'[w] # "waiting" /\ UNCHANGED <<gen, wgen, work>>
        /\ \A v \in Worker : v # w => wpc'[v] = wpc[v]
    BY <1>0, <1>8
    DEF UpdateDone, QueueReply, Alert, SpuriousWake, AfterJob, TypeOK, queueVars, updateVars
  <2> QED
    BY <1>0, <2>1, SleepersStay DEF Awake, Pending
<1> QED
  BY <1>1, <1>2, <1>3, <1>4, <1>5, <1>6, <1>7, <1>8 DEF Next, Caller, WorkerThread

(* No job waits for a worker that sleeps, whoever takes the jobs that the   *)
(* signals were for, however many workers, jobs and queues there are.       *)
THEOREM SleepersNotNeededHolds ==
  ASSUME IsFiniteSet(Job), IsFiniteSet(Worker)
  PROVE  Spec => []SleepersNotNeeded
<1>1. RInv /\ RInv' /\ SInv /\ [Next]_vars => SInv'
  BY NextSleepers
<1>2. Init => SInv
  BY DEF Init, SInv, SleepersCurrent, SleepersNotNeeded
<1>3. SInv => SleepersNotNeeded
  BY DEF SInv
<1> QED
  BY <1>1, <1>2, <1>3, AlwaysRInv, PTL DEF Spec

-----------------------------------------------------------------------------
(* Rest                                                                     *)

(* The pool comes to rest only when every answer has been handed over, and, *)
(* as long as a worker is left, every job settled and the last update seen  *)
(* by every one of them.                                                    *)
THEOREM RestIsDoneHolds ==
  ASSUME IsFiniteSet(Job), IsFiniteSet(Worker)
  PROVE  Spec => []RestIsDone
<1>1. ASSUME RInv, SInv, NoLostReply, UpdatesNotLost PROVE RestIsDone
  <2> SUFFICES ASSUME AtRest
               PROVE  /\ answers = <<>>
                      /\ \A w \in Worker : wpc[w] = "waiting" =>
                           /\ applied[w] = gen
                           /\ \A j \in Job : StageOf(j) \in {"new", "cancelled", "replied"}
    BY DEF RestIsDone
  <2>1. answers = <<>>
    BY <1>1 DEF AtRest, NoLostReply
  <2>2. ASSUME NEW w \in Worker, wpc[w] = "waiting"
        PROVE  applied[w] = gen /\ \A j \in Job : StageOf(j) \in {"new", "cancelled", "replied"}
    <3>1. applied[w] = gen
      BY <1>1, <2>2 DEF SInv, SleepersCurrent, UpdatesNotLost
    <3>2. Pending = {}
      <4>1. Cardinality(Pending) = 0
        <5>1. Awake = {}
          BY DEF AtRest, Awake
        <5>2. Cardinality(Awake) = 0 /\ Cardinality(Awake) >= Cardinality(Pending)
              /\ Cardinality(Pending) \in Nat
          BY <1>1, <2>2, <5>1, Sizes, FS_EmptySet DEF RInv, SInv, SleepersNotNeeded, Awake
        <5> QED
          BY <5>2
      <4>2. IsFiniteSet(Pending)
        BY <1>1, Sizes DEF RInv
      <4> QED
        BY <4>1, <4>2, FS_EmptySet
    <3>3. InHand = {} /\ Answered = {}
      BY <2>1 DEF AtRest, InHand, Answered, ToSet
    <3>4. \A j \in Job : StageOf(j) \in {"new", "cancelled", "replied"}
      BY <1>1, <3>2, <3>3 DEF StageOf, RInv, TypeOK
    <3> QED
      BY <3>1, <3>4
  <2> QED
    BY <2>1, <2>2
<1>2. Spec => []SInv
  <2>1. RInv /\ RInv' /\ SInv /\ [Next]_vars => SInv'
    BY NextSleepers
  <2>2. Init => SInv
    BY DEF Init, SInv, SleepersCurrent, SleepersNotNeeded
  <2> QED
    BY <2>1, <2>2, AlwaysRInv, PTL DEF Spec
<1> QED
  BY <1>1, <1>2, AlwaysRInv, NoLostReplyHolds, UpdatesNotLostHolds, PTL
=============================================================================
