-------------------------- MODULE CpuWorkerProofs ---------------------------
(***************************************************************************)
(* Proofs about CpuWorker, for every finite set of circuits, every set of  *)
(* limits and any number of runs of Tor: type correctness, the count of    *)
(* pending tasks, the lifetime of circuits against that of their jobs, and *)
(* the queue of onionskins with its own count.                             *)
(*                                                                         *)
(* The five hold together: a count may be lowered because it counts        *)
(* something, a circuit that leaves the queue had no job because those on  *)
(* it never have one.  IInv adds what a circuit that does not exist yet,   *)
(* and one that is marked, look like.                                      *)
(*                                                                         *)
(* From it follow the limit on the pool's jobs, the two assertions of the  *)
(* code on its counter, and what becomes of a process in which jobs were   *)
(* left behind.                                                            *)
(***************************************************************************)
EXTENDS CpuWorker, QueueLemmas, FiniteSetTheorems

(* A circuit that has never existed has neither entry nor job.              *)
Unborn == \A c \in Circ : circ[c] = "none" => ~entry[c] /\ stage[c] = "new"

(* Only a circuit in use is marked.                                         *)
MarkedLive == \A c \in Circ : marked[c] => Live(c)

CircuitsOK == Unborn /\ MarkedLive /\ CircuitOutlivesJob

(* The queue is well-formed: nothing on it twice, and counted.              *)
QueueOK ==
  /\ onions \in Seq(Circ)
  /\ entries = Len(onions)
  /\ \A i, j \in DOMAIN onions : onions[i] = onions[j] => i = j

(* Who is on it may be given to the pool, until the circuits are freed.     *)
WaitersOK ==
  mpc # "freeing" => \A c \in Waiting : circ[c] = "pending" /\ stage[c] = "new"

IInv == TypeOK /\ CountIsJobs /\ CircuitsOK /\ QueueOK /\ WaitersOK

-----------------------------------------------------------------------------
(* Tasks                                                                    *)

(* A circuit whose job the pool gets becomes one of those with a job, and   *)
(* the count follows.                                                       *)
LEMMA JobEnters ==
  ASSUME TypeOK, CountIsJobs, NEW c \in Circ, Pool!Accept(c), total' = total + 1
  PROVE  Jobs' = Jobs \cup {c} /\ CountIsJobs' /\ total' \in Nat /\ Pool!WPTypeOK'
<1>1. Jobs' = Jobs \cup {c} /\ c \notin Jobs
  BY DEF Jobs, HasJob, Pool!Accept, Pool!Move, TypeOK, Pool!WPTypeOK
<1>2. IsFiniteSet(Jobs)
  BY CircAssumption, FS_Subset DEF Jobs
<1>3. Cardinality(Jobs \cup {c}) = Cardinality(Jobs) + 1
  BY <1>1, <1>2, FS_AddElement
<1> QED
  BY <1>1, <1>3 DEF CountIsJobs, Pool!Accept, Pool!Move, TypeOK, Pool!WPTypeOK

(* The same when a job is answered or cancelled; the count was positive.    *)
LEMMA JobLeaves ==
  ASSUME TypeOK, CountIsJobs, NEW c \in Circ,
         Pool!Answer(c) \/ Pool!Withdraw(c), total' = total - 1
  PROVE  Jobs' = Jobs \ {c} /\ CountIsJobs' /\ total' \in Nat /\ Pool!WPTypeOK'
<1>1. Jobs' = Jobs \ {c} /\ c \in Jobs
  BY DEF Jobs, HasJob, Pool!Answer, Pool!Withdraw, Pool!Move, TypeOK, Pool!WPTypeOK
<1>2. IsFiniteSet(Jobs)
  BY CircAssumption, FS_Subset DEF Jobs
<1>3. Cardinality(Jobs \ {c}) = Cardinality(Jobs) - 1 /\ Cardinality(Jobs \ {c}) \in Nat
  BY <1>1, <1>2, FS_RemoveElement, FS_CardinalityType, FS_Subset
<1> QED
  BY <1>1, <1>3
  DEF CountIsJobs, Pool!Answer, Pool!Withdraw, Pool!Move, TypeOK, Pool!WPTypeOK

(* Progress in the pool, or none, leaves the set of jobs alone.             *)
LEMMA JobsStay ==
  ASSUME TypeOK, CountIsJobs, UNCHANGED total,
         \/ UNCHANGED stage
         \/ \E c \in Circ : Pool!Begin(c) \/ Pool!Finish(c)
  PROVE  Jobs' = Jobs /\ CountIsJobs' /\ total' \in Nat /\ Pool!WPTypeOK'
<1>1. Jobs' = Jobs
  BY DEF Jobs, HasJob, Pool!Begin, Pool!Finish, Pool!Move, TypeOK, Pool!WPTypeOK
<1> QED
  BY <1>1 DEF CountIsJobs, Pool!Begin, Pool!Finish, Pool!Move, TypeOK, Pool!WPTypeOK

-----------------------------------------------------------------------------
(* The queue                                                                *)

(* A circuit that is not on it comes in, the first k go.                    *)
LEMMA QueueAdd ==
  ASSUME QueueOK, NEW c \in Circ \ Waiting, NEW k \in 0 .. Len(onions),
         onions' = Append(SubSeq(onions, k + 1, Len(onions)), c),
         entries' = entries + 1 - k
  PROVE  QueueOK' /\ Waiting' \subseteq Waiting \cup {c}
<1> USE DEF QueueOK
<1>1. /\ onions' \in Seq(Circ) /\ Len(onions') = Len(onions) + 1 - k
      /\ \A i \in 1 .. Len(onions') :
           onions'[i] = IF i <= Len(onions) - k THEN onions[i + k] ELSE c
  BY CullFact
<1>2. \A i \in 1 .. Len(onions) : onions[i] # c /\ onions[i] \in Waiting
  <2>1. DOMAIN onions = 1 .. Len(onions)
    OBVIOUS
  <2>2. \A i \in DOMAIN onions : onions[i] \in Waiting
    BY DEF Waiting
  <2> QED
    BY <2>1, <2>2
<1>3. ASSUME NEW i \in DOMAIN onions', NEW j \in DOMAIN onions', onions'[i] = onions'[j]
      PROVE  i = j
  BY <1>1, <1>2, <1>3
<1>4. Waiting' \subseteq Waiting \cup {c}
  BY <1>1, <1>2 DEF Waiting
<1>5. \A i, j \in DOMAIN onions' : onions'[i] = onions'[j] => i = j
  BY <1>3
<1>6. entries' = Len(onions')
  BY <1>1
<1> QED
  BY <1>1, <1>4, <1>5, <1>6

(* The first one leaves, for good.                                          *)
LEMMA QueueTake ==
  ASSUME QueueOK, onions # <<>>, onions' = Tail(onions), entries' = entries - 1
  PROVE  /\ QueueOK'
         /\ Head(onions) \in Circ /\ Head(onions) \in Waiting
         /\ Waiting' \subseteq Waiting \ {Head(onions)}
<1> USE DEF QueueOK
<1>1. /\ Head(onions) = onions[1] /\ onions[1] \in Circ /\ Len(onions) > 0
      /\ onions' \in Seq(Circ) /\ Len(onions') = Len(onions) - 1
      /\ \A i \in 1 .. Len(onions) - 1 : onions'[i] = onions[i + 1]
  BY TailFact
<1>2. \A i, j \in DOMAIN onions' : onions'[i] = onions'[j] => i = j
  BY <1>1
<1>3. Waiting' \subseteq Waiting \ {Head(onions)} /\ Head(onions) \in Waiting
  BY <1>1 DEF Waiting
<1> QED
  BY <1>1, <1>2, <1>3

(* A circuit's entry leaves from wherever it is.                            *)
LEMMA QueueUnlink ==
  ASSUME QueueOK, NEW c \in Circ, Unlink(c), c \in Waiting => circ[c] = "pending"
  PROVE  QueueOK' /\ Waiting' \subseteq Waiting \ {c}
<1> USE DEF QueueOK
<1>1. CASE c \notin Waiting /\ UNCHANGED queueVars
  BY <1>1 DEF Waiting, queueVars
<1>2. ASSUME NEW k \in DOMAIN onions, onions[k] = c,
             onions' = RemoveAt(onions, k), entries' = entries - 1
      PROVE  QueueOK' /\ Waiting' \subseteq Waiting \ {c}
  <2>1. /\ onions' \in Seq(Circ) /\ Len(onions') = Len(onions) - 1
        /\ \A i \in 1 .. Len(onions) - 1 :
             onions'[i] = IF i < k THEN onions[i] ELSE onions[i + 1]
    BY <1>2, RemoveAtFact
  <2>2. ASSUME NEW i \in DOMAIN onions', NEW j \in DOMAIN onions', onions'[i] = onions'[j]
        PROVE  i = j
    <3> DEFINE from(n) == IF n < k THEN n ELSE n + 1
    <3>1. i \in 1 .. Len(onions) - 1 /\ j \in 1 .. Len(onions) - 1
      BY <2>1
    <3>2. from(i) \in DOMAIN onions /\ from(j) \in DOMAIN onions
      BY <3>1
    <3>3. onions[from(i)] = onions[from(j)]
      BY <2>1, <2>2, <3>1
    <3>4. from(i) = from(j)
      BY <3>2, <3>3
    <3> QED
      BY <3>1, <3>4
  <2>3. Waiting' \subseteq Waiting \ {c}
    BY <1>2, <2>1 DEF Waiting
  <2> QED
    BY <1>2, <2>1, <2>2, <2>3
<1> QED
  BY <1>1, <1>2 DEF Unlink

(* Nobody touches the queue.                                                *)
LEMMA QueueStays == ASSUME QueueOK, UNCHANGED queueVars PROVE QueueOK' /\ Waiting' = Waiting
  BY DEF QueueOK, Waiting, queueVars

(* A well-formed queue is well-typed.                                       *)
LEMMA QueueType == ASSUME QueueOK PROVE onions \in Seq(Circ) /\ entries \in Nat
  BY DEF QueueOK

-----------------------------------------------------------------------------
(* The steps                                                                *)

(* A new circuit was on no queue and in no hands, so whatever becomes of    *)
(* it, nobody else is concerned.                                            *)
LEMMA CreateKeeps == ASSUME IInv, NEW c \in Circ, Create(c) PROVE IInv'
<1> USE DEF IInv
<1>0. /\ mpc = "events" /\ circ[c] = "none" /\ stage[c] = "new" /\ ~entry[c] /\ c \notin Waiting
      /\ \E st \in {"pending", "open"} : circ' = [circ EXCEPT ![c] = st]
      /\ pchan' = [pchan EXCEPT ![c] = TRUE] /\ mpc' = mpc /\ life' = life /\ max' = max
  BY DEF Create, CreateRefused, CreateFast, CreateTask, CreateWaits, CreateNoRoom,
         NewCircuit, CircuitsOK, Unborn, WaitersOK
<1>1. CASE CreateRefused(c) \/ CreateFast(c) \/ CreateNoRoom(c)
  <2>1. /\ UNCHANGED <<stage, total, entry, queueVars>>
        /\ \E b \in BOOLEAN : marked' = [marked EXCEPT ![c] = b]
    BY <1>1 DEF CreateRefused, CreateFast, CreateNoRoom, taskVars
  <2>2. CountIsJobs' /\ total' \in Nat /\ Pool!WPTypeOK' /\ QueueOK' /\ Waiting' = Waiting
    BY <2>1, JobsStay, QueueStays
  <2>3. CircuitsOK'
    BY <1>0, <2>1
    DEF TypeOK, CircuitsOK, Unborn, MarkedLive, CircuitOutlivesJob, Live, HasJob
  <2>4. WaitersOK'
    BY <1>0, <2>1, <2>2 DEF TypeOK, WaitersOK
  <2>5. TypeOK'
    BY <1>0, <2>1, <2>2, QueueType DEF TypeOK, queueVars
  <2> QED
    BY <2>2, <2>3, <2>4, <2>5
<1>2. CASE CreateTask(c)
  <2>1. /\ UNCHANGED <<marked, queueVars>>
        /\ Pool!Accept(c) /\ total' = total + 1 /\ entry' = [entry EXCEPT ![c] = TRUE]
        /\ circ' = [circ EXCEPT ![c] = "pending"]
    BY <1>2 DEF CreateTask, GiveToPool, NewCircuit
  <2>2. CountIsJobs' /\ total' \in Nat /\ Pool!WPTypeOK' /\ QueueOK' /\ Waiting' = Waiting
    BY <2>1, JobEnters, QueueStays
  <2>3. CircuitsOK'
    BY <1>0, <2>1
    DEF TypeOK, Pool!WPTypeOK, Pool!Accept, Pool!Move, CircuitsOK, Unborn, MarkedLive,
        CircuitOutlivesJob, Live, HasJob
  <2>4. WaitersOK'
    BY <1>0, <2>1, <2>2
    DEF TypeOK, Pool!WPTypeOK, Pool!Accept, Pool!Move, WaitersOK
  <2>5. TypeOK'
    BY <1>0, <2>1, <2>2, QueueType DEF TypeOK, queueVars
  <2> QED
    BY <2>2, <2>3, <2>4, <2>5
<1>3. CASE CreateWaits(c)
  <2>1. PICK k \in 0 .. Len(onions) :
          /\ onions' = Append(SubSeq(onions, k + 1, Len(onions)), c)
          /\ entries' = entries + 1 - k
          /\ marked' = [d \in Circ |-> marked[d] \/ \E i \in 1 .. k : onions[i] = d]
    BY <1>3 DEF CreateWaits
  <2>2. UNCHANGED <<stage, total, entry>> /\ circ' = [circ EXCEPT ![c] = "pending"]
    BY <1>3 DEF CreateWaits, NewCircuit, taskVars
  <2>3. CountIsJobs' /\ total' \in Nat /\ Pool!WPTypeOK'
    BY <2>2, JobsStay
  <2>4. QueueOK' /\ Waiting' \subseteq Waiting \cup {c}
    BY <1>0, <2>1, QueueAdd
  <2>5. ASSUME NEW d \in Circ, \E i \in 1 .. k : onions[i] = d PROVE d \in Waiting
    <3>1. 1 .. k \subseteq DOMAIN onions
      BY DEF QueueOK
    <3> QED
      BY <2>5, <3>1 DEF Waiting
  <2>6. MarkedLive'
    BY <1>0, <2>1, <2>2, <2>5 DEF TypeOK, CircuitsOK, MarkedLive, Live, WaitersOK
  <2>7. CircuitsOK'
    BY <1>0, <2>2, <2>6 DEF TypeOK, CircuitsOK, Unborn, CircuitOutlivesJob, Live, HasJob
  <2>8. WaitersOK'
    BY <1>0, <2>2, <2>4 DEF TypeOK, WaitersOK
  <2>9. TypeOK'
    <3>1. marked' \in [Circ -> BOOLEAN]
      BY <2>1
    <3>2. onions' \in Seq(Circ) /\ entries' \in Nat
      BY <2>4 DEF QueueOK
    <3> QED
      BY <1>0, <2>2, <2>3, <3>1, <3>2 DEF TypeOK
  <2> QED
    BY <2>3, <2>4, <2>7, <2>8, <2>9
<1> QED
  BY <1>1, <1>2, <1>3 DEF Create

(* An answer comes for a circuit in use or for a dead one, and a circuit    *)
(* with a job is not on the queue.                                          *)
LEMMA ReplyKeeps == ASSUME IInv, NEW c \in Circ, Reply(c) PROVE IInv'
<1> USE DEF IInv
<1>1. /\ Pool!Answer(c) /\ total' = total - 1 /\ circ[c] # "leaked" /\ mpc = "events"
      /\ UNCHANGED <<life, pchan, queueVars, max>> /\ mpc' = "dispatching"
      /\ FreeDead(c) \/ AnswerCircuit(c)
  BY DEF Reply, TakeAnswer
<1>2. stage[c] = "answered" /\ stage' = [stage EXCEPT ![c] = "replied"]
  BY <1>1 DEF Pool!Answer, Pool!Move
<1>3. CountIsJobs' /\ total' \in Nat /\ Pool!WPTypeOK' /\ QueueOK' /\ Waiting' = Waiting
  BY <1>1, JobLeaves, QueueStays
<1>4. c \notin Waiting /\ circ[c] \in {"pending", "open", "dead"}
  BY <1>1, <1>2 DEF WaitersOK, CircuitsOK, CircuitOutlivesJob, Live, HasJob
<1>5. /\ \E st \in {"pending", "open", "freed"} : circ' = [circ EXCEPT ![c] = st]
      /\ marked' \in [Circ -> BOOLEAN] /\ entry' \in [Circ -> BOOLEAN]
  <2>1. circ = [circ EXCEPT ![c] = circ[c]]
    BY DEF TypeOK
  <2> QED
    BY <1>1, <1>4, <2>1 DEF FreeDead, AnswerCircuit, TypeOK
<1>6. CircuitsOK'
  <2>1. CASE FreeDead(c)
    BY <1>2, <2>1
    DEF FreeDead, TypeOK, Pool!WPTypeOK, CircuitsOK, Unborn, MarkedLive,
        CircuitOutlivesJob, Live, HasJob
  <2>2. CASE AnswerCircuit(c)
    BY <1>2, <1>4, <2>2
    DEF AnswerCircuit, TypeOK, Pool!WPTypeOK, CircuitsOK, Unborn, MarkedLive,
        CircuitOutlivesJob, Live, HasJob
  <2> QED
    BY <1>1, <2>1, <2>2
<1>7. WaitersOK'
  BY <1>1, <1>2, <1>3, <1>4, <1>5 DEF WaitersOK, TypeOK, Pool!WPTypeOK
<1>8. TypeOK'
  BY <1>1, <1>3, <1>5, QueueType DEF TypeOK, queueVars
<1> QED
  BY <1>3, <1>6, <1>7, <1>8

(* The circuit at the head of the queue leaves it and may get a job.        *)
LEMMA DispatchKeeps == ASSUME IInv, Dispatch PROVE IInv'
<1> USE DEF IInv
<1> DEFINE c == Head(onions)
<1>1. /\ onions # <<>> /\ onions' = Tail(onions) /\ entries' = entries - 1
      /\ mpc = "dispatching" /\ UNCHANGED <<life, mpc, circ, marked, pchan, max>>
  BY DEF Dispatch
<1>2. /\ QueueOK' /\ c \in Circ /\ c \in Waiting /\ Waiting' \subseteq Waiting \ {c}
  BY <1>1, QueueTake
<1>3. circ[c] = "pending" /\ stage[c] = "new"
  BY <1>1, <1>2 DEF WaitersOK
<1>4. GiveToPool(c) \/ UNCHANGED <<entry, taskVars>>
  BY DEF Dispatch
<1> HIDE DEF c
<1>5. CASE GiveToPool(c)
  <2>1. CountIsJobs' /\ total' \in Nat /\ Pool!WPTypeOK'
    BY <1>2, <1>5, JobEnters DEF GiveToPool
  <2>2. CircuitsOK'
    BY <1>1, <1>2, <1>3, <1>5
    DEF GiveToPool, Pool!Accept, Pool!Move, TypeOK, Pool!WPTypeOK, CircuitsOK, Unborn,
        MarkedLive, CircuitOutlivesJob, Live, HasJob
  <2>3. WaitersOK'
    BY <1>1, <1>2, <1>5
    DEF GiveToPool, Pool!Accept, Pool!Move, TypeOK, Pool!WPTypeOK, WaitersOK
  <2>4. TypeOK'
    BY <1>1, <1>2, <1>5, <2>1, QueueType DEF GiveToPool, TypeOK, QueueOK
  <2> QED
    BY <1>2, <2>1, <2>2, <2>3, <2>4
<1>6. CASE UNCHANGED <<entry, taskVars>>
  <2>1. CountIsJobs' /\ total' \in Nat /\ Pool!WPTypeOK'
    BY <1>6, JobsStay DEF taskVars
  <2>2. CircuitsOK'
    BY <1>1, <1>6
    DEF taskVars, CircuitsOK, Unborn, MarkedLive, CircuitOutlivesJob, Live, HasJob
  <2>3. WaitersOK'
    BY <1>1, <1>2, <1>6 DEF taskVars, WaitersOK
  <2>4. TypeOK'
    BY <1>1, <1>2, <1>6, <2>1, QueueType DEF TypeOK, QueueOK
  <2> QED
    BY <1>2, <2>1, <2>2, <2>3, <2>4
<1> QED
  BY <1>4, <1>5, <1>6

(* A circuit that is closed leaves the queue; what becomes of it goes by    *)
(* what became of its job.                                                  *)
LEMMA CloseKeeps == ASSUME IInv, NEW c \in Circ, CloseOne(c) PROVE IInv'
<1> USE DEF IInv
<1>1. /\ mpc = "closing" /\ Unlink(c) /\ marked[c]
      /\ marked' = [marked EXCEPT ![c] = FALSE]
      /\ pchan' = [pchan EXCEPT ![c] = FALSE]
      /\ entry' = [entry EXCEPT ![c] = FALSE]
      /\ mpc' \in {"closing", "events"} /\ UNCHANGED <<life, max>>
      /\ \E st \in {"freed", "dead"} : circ' = [circ EXCEPT ![c] = st]
  BY DEF CloseOne, CloseFree, CloseCancels, CloseDead, Gone
<1>2. Live(c) /\ (entry[c] <=> HasJob(c))
  BY <1>1 DEF CircuitsOK, MarkedLive, CircuitOutlivesJob
<1>3. QueueOK' /\ Waiting' \subseteq Waiting \ {c}
  BY <1>1, QueueUnlink DEF WaitersOK
<1>4. /\ CountIsJobs' /\ total' \in Nat /\ Pool!WPTypeOK'
      /\ \E st \in {stage[c], "cancelled"} : stage' = [stage EXCEPT ![c] = st]
  <2>1. CASE UNCHANGED taskVars
    <3>1. stage' = [stage EXCEPT ![c] = stage[c]]
      BY <2>1 DEF taskVars, TypeOK, Pool!WPTypeOK
    <3> QED
      BY <2>1, <3>1, JobsStay DEF taskVars
  <2>2. CASE Pool!Withdraw(c) /\ total' = total - 1
    BY <2>2, JobLeaves DEF Pool!Withdraw, Pool!Move
  <2> QED
    BY <2>1, <2>2 DEF CloseOne, CloseFree, CloseCancels, CloseDead
<1>5. CircuitsOK'
  <2>1. CASE CloseFree(c)
    BY <1>1, <1>2, <2>1
    DEF CloseFree, Gone, taskVars, TypeOK, Pool!WPTypeOK, CircuitsOK, Unborn, MarkedLive,
        CircuitOutlivesJob, Live, HasJob
  <2>2. CASE CloseCancels(c)
    BY <1>1, <1>2, <2>2
    DEF CloseCancels, Gone, Pool!Withdraw, Pool!Move, TypeOK, Pool!WPTypeOK, CircuitsOK,
        Unborn, MarkedLive, CircuitOutlivesJob, Live, HasJob
  <2>3. CASE CloseDead(c)
    BY <1>1, <1>2, <2>3
    DEF CloseDead, Gone, taskVars, TypeOK, Pool!WPTypeOK, CircuitsOK, Unborn, MarkedLive,
        CircuitOutlivesJob, Live, HasJob
  <2> QED
    BY <2>1, <2>2, <2>3 DEF CloseOne
<1>6. WaitersOK'
  BY <1>1, <1>3, <1>4 DEF WaitersOK, TypeOK, Pool!WPTypeOK
<1>7. TypeOK'
  BY <1>1, <1>3, <1>4, QueueType DEF TypeOK, QueueOK
<1> QED
  BY <1>3, <1>4, <1>5, <1>6, <1>7

(* Marking a circuit, and losing the channel behind it.                     *)
LEMMA MarkKeeps == ASSUME IInv, NEW c \in Circ, Mark(c) \/ LosePChan(c) PROVE IInv'
<1> USE DEF IInv
<1>1. /\ Live(c) /\ marked' = [marked EXCEPT ![c] = TRUE] /\ pchan' \in [Circ -> BOOLEAN]
      /\ UNCHANGED <<life, mpc, circ, entry, onions, entries, stage, total, max>>
  BY DEF Mark, LosePChan, queueVars, taskVars, TypeOK
<1>2. CountIsJobs' /\ total' \in Nat /\ Pool!WPTypeOK' /\ QueueOK' /\ Waiting' = Waiting
  BY <1>1, JobsStay, QueueStays DEF queueVars
<1>3. CircuitsOK'
  BY <1>1 DEF TypeOK, CircuitsOK, Unborn, MarkedLive, CircuitOutlivesJob, Live, HasJob
<1>4. WaitersOK' /\ TypeOK'
  BY <1>1, <1>2 DEF WaitersOK, TypeOK
<1> QED
  BY <1>2, <1>3, <1>4

(* The workers change only how far a job in the pool is.                    *)
LEMMA WorkerKeeps == ASSUME IInv, NEW c \in Circ, Worker(c) PROVE IInv'
<1> USE DEF IInv
<1>1. /\ Pool!Begin(c) \/ Pool!Finish(c)
      /\ UNCHANGED <<life, mpc, circuitVars, queueVars, total, max>>
  BY DEF Worker, WorkerBegins, WorkerFinishes
<1>2. HasJob(c) /\ \E st \in {"running", "answered"} : stage' = [stage EXCEPT ![c] = st]
  BY <1>1 DEF Pool!Begin, Pool!Finish, Pool!Move, HasJob
<1>3. CountIsJobs' /\ total' \in Nat /\ Pool!WPTypeOK' /\ QueueOK' /\ Waiting' = Waiting
  BY <1>1, JobsStay, QueueStays
<1>4. CircuitsOK' /\ WaitersOK'
  <2>1. UNCHANGED <<circ, marked, pchan, entry>>
    BY <1>1 DEF circuitVars
  <2>2. \A d \in Circ : (HasJob(d))' = HasJob(d) /\ (stage[d] = "new" => stage'[d] = "new")
    BY <1>2 DEF HasJob, TypeOK, Pool!WPTypeOK
  <2>3. CircuitsOK'
    BY <2>1, <2>2 DEF CircuitsOK, Unborn, MarkedLive, CircuitOutlivesJob, Live
  <2>4. WaitersOK'
    <3>1. Waiting \subseteq Circ
      BY DEF Waiting, QueueOK
    <3> QED
      BY <1>1, <1>3, <2>1, <2>2, <3>1 DEF WaitersOK
  <2> QED
    BY <2>3, <2>4
<1>5. TypeOK'
  BY <1>1, <1>3 DEF TypeOK, circuitVars, queueVars
<1> QED
  BY <1>3, <1>4, <1>5

(* Tor ends: every circuit that has existed is gone, or left to a job that  *)
(* nobody will do, and stays counted with it.                               *)
LEMMA FreeAllKeeps == ASSUME IInv, CircuitFreeAll PROVE IInv'
<1> USE DEF IInv
<1>1. /\ mpc' = "freeing" /\ UNCHANGED <<life, onions, entries, stage, total, max>>
      /\ circ' = [c \in Circ |-> CASE circ[c] = "none" -> "none"
                                   [] circ[c] # "none" /\ HasJob(c) -> "leaked"
                                   [] OTHER -> "freed"]
      /\ marked' = [c \in Circ |-> FALSE]
      /\ pchan' = [c \in Circ |-> FALSE]
      /\ entry' = [c \in Circ |-> FALSE]
  BY DEF CircuitFreeAll, queueVars, taskVars
<1>2. CountIsJobs' /\ total' \in Nat /\ Pool!WPTypeOK' /\ QueueOK'
  BY <1>1, JobsStay, QueueStays DEF queueVars
<1>3. ASSUME NEW c \in Circ
      PROVE  circ'[c] = IF circ[c] = "none" THEN "none"
                        ELSE IF HasJob(c) THEN "leaked" ELSE "freed"
  BY <1>1
<1>4. CircuitsOK'
  BY <1>1, <1>3 DEF CircuitsOK, Unborn, MarkedLive, CircuitOutlivesJob, Live, HasJob
<1>5. circ' \in [Circ -> {"none", "pending", "open", "dead", "freed", "leaked"}]
  BY <1>1
<1>6. TypeOK'
  BY <1>1, <1>2, <1>5 DEF TypeOK
<1> QED
  BY <1>1, <1>2, <1>4, <1>6 DEF WaitersOK

(* Then the queue goes.                                                     *)
LEMMA ClearKeeps == ASSUME IInv, ClearPendingOnions PROVE IInv'
<1> USE DEF IInv
<1>1. /\ mpc' = "down" /\ UNCHANGED <<life, circ, marked, pchan, entry, stage, total, max>>
      /\ onions' = <<>> /\ entries' = 0
  BY DEF ClearPendingOnions, circuitVars, taskVars
<1>2. CountIsJobs' /\ total' \in Nat /\ Pool!WPTypeOK'
  BY <1>1, JobsStay
<1>3. QueueOK' /\ Waiting' = {}
  BY <1>1 DEF QueueOK, Waiting
<1>4. CircuitsOK'
  BY <1>1 DEF CircuitsOK, Unborn, MarkedLive, CircuitOutlivesJob, Live, HasJob
<1>5. TypeOK'
  BY <1>1, <1>2, <1>3, QueueType DEF TypeOK, QueueOK
<1> QED
  BY <1>2, <1>3, <1>4, <1>5 DEF WaitersOK

(* The other steps leave circuits, queue and tasks alone.                   *)
LEMMA OthersKeep ==
  ASSUME IInv, DispatchDone \/ CloseMarked \/ Consensus \/ CpuworkerInit \/ UNCHANGED vars
  PROVE  IInv'
<1> USE DEF IInv
<1>1. UNCHANGED <<circ, marked, pchan, entry, onions, entries, stage, total>>
  BY DEF DispatchDone, CloseMarked, Consensus, CpuworkerInit, vars, circuitVars, queueVars,
         taskVars
<1>2. /\ life' \in 0 .. Lives /\ max' \in MaxTasks
      /\ mpc' \in {"down", "events", "closing", "dispatching", "freeing"}
      /\ mpc = "freeing" => mpc' = "freeing"
  BY LimitAssumption DEF DispatchDone, CloseMarked, Consensus, CpuworkerInit, vars, TypeOK
<1>3. CountIsJobs' /\ total' \in Nat /\ Pool!WPTypeOK' /\ QueueOK' /\ Waiting' = Waiting
  BY <1>1, JobsStay, QueueStays DEF queueVars
<1>4. CircuitsOK' /\ WaitersOK'
  BY <1>1, <1>2, <1>3
  DEF CircuitsOK, Unborn, MarkedLive, CircuitOutlivesJob, Live, HasJob, WaitersOK
<1>5. TypeOK'
  BY <1>1, <1>2, <1>3 DEF TypeOK
<1> QED
  BY <1>3, <1>4, <1>5

(* Nothing has begun.                                                       *)
LEMMA InitInv == Init => IInv
<1> SUFFICES ASSUME Init PROVE IInv
  OBVIOUS
<1> USE DEF Init, Pool!WPInit
<1>1. Jobs = {} /\ Waiting = {}
  BY DEF Jobs, HasJob, Waiting
<1>2. CountIsJobs
  BY <1>1, FS_EmptySet DEF CountIsJobs
<1>3. QueueOK
  BY DEF QueueOK
<1>4. TypeOK
  BY <1>3, QueueType, LimitAssumption DEF TypeOK, Pool!WPTypeOK
<1> QED
  BY <1>1, <1>2, <1>3, <1>4
  DEF IInv, CircuitsOK, Unborn, MarkedLive, CircuitOutlivesJob, Live, HasJob, WaitersOK

(* IInv is inductive.                                                       *)
LEMMA NextInv == IInv /\ [Next]_vars => IInv'
<1> SUFFICES ASSUME IInv, [Next]_vars PROVE IInv'
  OBVIOUS
<1> QED
  BY CreateKeeps, ReplyKeeps, DispatchKeeps, CloseKeeps, MarkKeeps, WorkerKeeps,
     FreeAllKeeps, ClearKeeps, OthersKeep DEF Next

LEMMA AlwaysInv == Spec => []IInv
  BY InitInv, NextInv, PTL DEF Spec

-----------------------------------------------------------------------------
(* The theorems                                                             *)

(* Every variable keeps its type; no count is ever lowered below zero.      *)
THEOREM TypeCorrect == Spec => []TypeOK
<1>1. IInv => TypeOK
  BY DEF IInv
<1> QED
  BY <1>1, AlwaysInv, PTL

(* total_pending_tasks counts the jobs of the pool in every behaviour,      *)
(* whatever is cancelled, closed or cut off by the end of Tor.              *)
THEOREM CountIsJobsHolds == Spec => []CountIsJobs
<1>1. IInv => CountIsJobs
  BY DEF IInv
<1> QED
  BY <1>1, AlwaysInv, PTL

(* No job is ever without the memory of its circuit, and no dead circuit    *)
(* without the job whose reply frees it.                                    *)
THEOREM CircuitOutlivesJobHolds == Spec => []CircuitOutlivesJob
<1>1. IInv => CircuitOutlivesJob
  BY DEF IInv, CircuitsOK
<1> QED
  BY <1>1, AlwaysInv, PTL

(* Whoever waits on the queue is there once and, as long as tor_free_all    *)
(* has not freed the circuits, pending and without a job.                   *)
THEOREM WaitingIsPendingHolds == Spec => []WaitingIsPending
<1>1. IInv => WaitingIsPending
  BY DEF IInv, WaitersOK, QueueOK, WaitingIsPending
<1> QED
  BY <1>1, AlwaysInv, PTL

(* ol_entries is the length of the list whichever way entries leave it.     *)
THEOREM EntriesCountedHolds == Spec => []EntriesCounted
<1>1. IInv => EntriesCounted
  BY DEF IInv, QueueOK, EntriesCounted
<1> QED
  BY <1>1, AlwaysInv, PTL

-----------------------------------------------------------------------------
(* Who may leave a place idle                                               *)

(* While Tor is down nothing waits.                                         *)
DownEmpty == mpc = "down" => onions = <<>>

LEMMA NextDownEmpty == DownEmpty /\ [Next]_vars => DownEmpty'
  BY DEF Next, vars, queueVars, DownEmpty, Create, CreateRefused, CreateFast, CreateTask,
         CreateWaits, CreateNoRoom, NewCircuit, Reply, TakeAnswer, Mark, LosePChan, CloseOne,
         CloseFree, CloseCancels, CloseDead, Gone, Worker, WorkerBegins, WorkerFinishes,
         Dispatch, DispatchDone, CloseMarked, Consensus, CpuworkerInit,
         CircuitFreeAll, ClearPendingOnions

(* A place beside waiting onionskins appears by a close or by the consensus *)
(* and by nothing else: a reply ends in queue_pending_tasks, which stops    *)
(* for a full pool or an empty queue only, and an onionskin is put on the   *)
(* queue for want of a place.                                               *)
THEOREM IdleOnlyByCloseHolds == Spec => IdleOnlyByClose
<1> DEFINE A == ~Idle /\ Idle' => mpc = "closing" \/ max' > max
<1>1. ASSUME IInv, DownEmpty, [Next]_vars PROVE [A]_vars
  <2>1. total \in Nat /\ max \in Nat
    BY <1>1, LimitAssumption DEF IInv, TypeOK
  <2> USE DEF Idle
  <2>2. ASSUME NEW c \in Circ, Create(c) PROVE A
    BY <2>1, <2>2
    DEF Create, CreateRefused, CreateFast, CreateTask, CreateWaits, CreateNoRoom, NewCircuit,
        GiveToPool, queueVars, taskVars
  <2>3. ASSUME NEW c \in Circ, Reply(c) PROVE A
    BY <2>3 DEF Reply
  <2>4. ASSUME NEW c \in Circ, Mark(c) \/ LosePChan(c) PROVE A
    BY <2>4 DEF Mark, LosePChan, queueVars, taskVars
  <2>5. ASSUME NEW c \in Circ, CloseOne(c) PROVE A
    BY <2>5 DEF CloseOne, CloseFree, CloseCancels, CloseDead, Gone
  <2>6. ASSUME NEW c \in Circ, Worker(c) PROVE A
    BY <2>6 DEF Worker, WorkerBegins, WorkerFinishes, queueVars
  <2>7. CASE Dispatch \/ DispatchDone \/ CloseMarked \/ CircuitFreeAll \/ ClearPendingOnions
    BY <2>1, <2>7
    DEF Dispatch, DispatchDone, CloseMarked, CircuitFreeAll, ClearPendingOnions, queueVars,
        taskVars
  <2>8. CASE Consensus
    BY <2>1, <2>8, <1>1, LimitAssumption
    DEF Consensus, queueVars, taskVars, IInv, TypeOK
  <2>9. CASE CpuworkerInit
    BY <1>1, <2>9 DEF CpuworkerInit, DownEmpty, queueVars
  <2> QED
    BY <1>1, <2>2, <2>3, <2>4, <2>5, <2>6, <2>7, <2>8, <2>9 DEF Next
<1>2. Init => DownEmpty
  BY DEF Init, DownEmpty
<1> QED
  BY <1>1, <1>2, NextDownEmpty, AlwaysInv, PTL DEF Spec, IdleOnlyByClose

-----------------------------------------------------------------------------
(* The limit, and what an earlier run of Tor takes away from it             *)

(* A job comes in where the counter was below the limit.                    *)
LEMMA JobInBelowMax ==
  ASSUME IInv, [Next]_vars, NEW c \in Circ, ~HasJob(c), HasJob(c)'
  PROVE  total < max
<1>1. CASE (\E d \in Circ : CreateTask(d)) \/ Dispatch
  BY <1>1 DEF CreateTask, Dispatch
<1>2. ASSUME NEW d \in Circ,
             \/ Pool!Begin(d) \/ Pool!Finish(d) \/ Pool!Answer(d) \/ Pool!Withdraw(d)
      PROVE  FALSE
  BY <1>2
  DEF HasJob, Pool!Begin, Pool!Finish, Pool!Answer, Pool!Withdraw, Pool!Move,
      IInv, TypeOK, Pool!WPTypeOK
<1>3. CASE UNCHANGED stage
  BY <1>3 DEF HasJob
<1> QED
  BY <1>1, <1>2, <1>3
  DEF Next, vars, taskVars, Create, CreateRefused, CreateFast, CreateWaits, CreateNoRoom, Reply,
      TakeAnswer, Mark, LosePChan, CloseOne, CloseFree, CloseCancels, CloseDead, Worker,
      WorkerBegins, WorkerFinishes, DispatchDone, CloseMarked, Consensus, CpuworkerInit,
         CircuitFreeAll, ClearPendingOnions

(* The pool is never given a job beyond max_pending_tasks, whatever was     *)
(* cancelled, died or was left behind: the counter the code looks at is the *)
(* number of jobs.                                                          *)
THEOREM LimitKeptHolds == Spec => LimitKept
<1> DEFINE A == \A c \in Circ : ~HasJob(c) /\ HasJob(c)' => Cardinality(Jobs) < max
<1>1. ASSUME IInv, [Next]_vars PROVE [A]_vars
  BY <1>1, JobInBelowMax DEF IInv, CountIsJobs
<1> HIDE DEF A
<1>2. Spec => [][A]_vars
  BY <1>1, AlwaysInv, PTL DEF Spec
<1> QED
  BY <1>2 DEF LimitKept, A

(* The two assertions on total_pending_tasks, in the reply and in the       *)
(* cancellation of a job, never fail: as long as the pool has a job it is   *)
(* positive.                                                                *)
THEOREM PendingPositive == Spec => [](\A c \in Circ : HasJob(c) => total > 0)
<1>1. IInv => \A c \in Circ : HasJob(c) => total > 0
  <2> SUFFICES ASSUME IInv, NEW c \in Circ, HasJob(c) PROVE total > 0
    OBVIOUS
  <2>1. c \in Jobs /\ IsFiniteSet(Jobs)
    BY CircAssumption, FS_Subset DEF Jobs
  <2>2. Cardinality(Jobs) \in Nat /\ Cardinality(Jobs) # 0
    BY <2>1, FS_CardinalityType, FS_EmptySet
  <2> QED
    BY <2>2 DEF IInv, CountIsJobs
<1> QED
  BY <1>1, AlwaysInv, PTL

(* The circuits whose jobs were left in the pool of an earlier run.         *)
Left == {c \in Circ : circ[c] = "leaked"}

(* These jobs stay counted.                                                 *)
LeftJobs == Left \subseteq Jobs

(* Nobody but the end of Tor adds to them, and nobody touches their jobs.   *)
LEMMA LeftAlone ==
  ASSUME IInv, LeftJobs, Next \/ UNCHANGED vars, ~CircuitFreeAll, NEW c \in Circ
  PROVE  /\ circ'[c] = "leaked" <=> circ[c] = "leaked"
         /\ circ[c] = "leaked" => stage'[c] = stage[c]
<1>1. /\ circ[c] = "leaked" => HasJob(c)
      /\ circ \in [Circ -> {"none", "pending", "open", "dead", "freed", "leaked"}]
      /\ stage \in [Circ -> {"new", "queued", "cancelled", "running", "answered", "replied"}]
  BY DEF LeftJobs, Left, Jobs, IInv, TypeOK, Pool!WPTypeOK
<1> USE DEF Pool!Accept, Pool!Begin, Pool!Finish, Pool!Answer, Pool!Withdraw, Pool!Move
<1>2. ASSUME NEW d \in Circ, Create(d)
      PROVE  /\ circ'[c] = "leaked" <=> circ[c] = "leaked"
             /\ circ[c] = "leaked" => stage'[c] = stage[c]
  BY <1>1, <1>2
  DEF Create, CreateRefused, CreateFast, CreateTask, CreateWaits, CreateNoRoom, NewCircuit,
      GiveToPool, taskVars
<1>3. ASSUME NEW d \in Circ, Reply(d)
      PROVE  /\ circ'[c] = "leaked" <=> circ[c] = "leaked"
             /\ circ[c] = "leaked" => stage'[c] = stage[c]
  BY <1>1, <1>3 DEF Reply, TakeAnswer, FreeDead, AnswerCircuit
<1>4. ASSUME NEW d \in Circ, CloseOne(d)
      PROVE  /\ circ'[c] = "leaked" <=> circ[c] = "leaked"
             /\ circ[c] = "leaked" => stage'[c] = stage[c]
  <2>1. Live(d)
    BY <1>4
    DEF IInv, CircuitsOK, MarkedLive, CloseOne, CloseFree, CloseCancels, CloseDead, Gone
  <2> QED
    BY <1>1, <1>4, <2>1
    DEF CloseOne, CloseFree, CloseCancels, CloseDead, Gone, Live, taskVars
<1>5. ASSUME NEW d \in Circ, Worker(d)
      PROVE  /\ circ'[c] = "leaked" <=> circ[c] = "leaked"
             /\ circ[c] = "leaked" => stage'[c] = stage[c]
  BY <1>1, <1>5 DEF Worker, WorkerBegins, WorkerFinishes, circuitVars
<1>6. CASE Dispatch
  <2>1. circ' = circ
    BY <1>6 DEF Dispatch
  <2>2. Head(onions) \in Circ /\ circ[Head(onions)] = "pending"
    <3>1. Head(onions) \in Circ /\ Head(onions) \in Waiting
      BY <1>6, QueueTake DEF Dispatch, IInv
    <3> QED
      BY <1>6, <3>1 DEF Dispatch, IInv, WaitersOK
  <2>3. circ[c] = "leaked" => stage'[c] = stage[c]
    BY <1>1, <1>6, <2>2 DEF Dispatch, GiveToPool, taskVars
  <2> QED
    BY <2>1, <2>3
<1>7. ASSUME UNCHANGED <<circ, stage>>
      PROVE  /\ circ'[c] = "leaked" <=> circ[c] = "leaked"
             /\ circ[c] = "leaked" => stage'[c] = stage[c]
  BY <1>7
<1> QED
  BY <1>2, <1>3, <1>4, <1>5, <1>6, <1>7
  DEF Next, vars, circuitVars, taskVars, Mark, LosePChan, DispatchDone, CloseMarked,
      Consensus, CpuworkerInit, ClearPendingOnions

(* They only become more.                                                   *)
LEMMA LeftGrows == ASSUME IInv, LeftJobs, [Next]_vars PROVE Left \subseteq Left' /\ LeftJobs'
<1> SUFFICES ASSUME NEW c \in Circ
             PROVE  /\ circ[c] = "leaked" => circ'[c] = "leaked"
                    /\ circ'[c] = "leaked" => HasJob(c)'
  BY DEF Left, LeftJobs, Jobs
<1>1. circ[c] = "leaked" => HasJob(c)
  BY DEF LeftJobs, Left, Jobs
<1>2. CASE CircuitFreeAll
  <2>1. stage' = stage /\ circ'[c] = IF circ[c] = "none" THEN "none"
                                     ELSE IF HasJob(c) THEN "leaked" ELSE "freed"
    BY <1>2 DEF CircuitFreeAll, taskVars
  <2> QED
    BY <1>1, <2>1 DEF HasJob
<1>3. CASE ~CircuitFreeAll
  BY <1>1, <1>3, LeftAlone DEF HasJob
<1> QED
  BY <1>2, <1>3

(* What earlier runs have left in their pools takes up every place.         *)
Starved == max <= Cardinality(Left)

(* Then no circuit is given to the pool any more, and it stays so for the   *)
(* rest of the process: cpuworker_init does not reset total_pending_tasks,  *)
(* and only a consensus that raises the limit makes room.                   *)
StarvedStays ==
  [][Starved => /\ Starved' \/ max' > max
                /\ \A c \in Circ : HasJob(c)' => HasJob(c)]_vars

THEOREM StarvedStaysHolds == Spec => StarvedStays
<1> DEFINE A == Starved => /\ Starved' \/ max' > max
                           /\ \A c \in Circ : HasJob(c)' => HasJob(c)
<1>1. ASSUME IInv, LeftJobs, [Next]_vars PROVE LeftJobs' /\ A
  <2>1. Left \subseteq Left' /\ LeftJobs' /\ IsFiniteSet(Left') /\ IsFiniteSet(Jobs)
    BY <1>1, LeftGrows, CircAssumption, FS_Subset DEF Left, Jobs
  <2>2. /\ Cardinality(Left) \in Nat /\ Cardinality(Left') \in Nat
        /\ Cardinality(Left) <= Cardinality(Left') /\ Cardinality(Left) <= Cardinality(Jobs)
    BY <1>1, <2>1, FS_Subset, FS_CardinalityType DEF LeftJobs
  <2>3. total = Cardinality(Jobs) /\ total \in Nat /\ max \in Nat
    BY <1>1, LimitAssumption DEF IInv, CountIsJobs, TypeOK
  <2>4. max' \in Nat
    BY <1>1, NextInv, LimitAssumption DEF IInv, TypeOK
  <2>5. Starved => ~(total < max) /\ (Starved' \/ max' > max)
    BY <2>2, <2>3, <2>4 DEF Starved
  <2> QED
    BY <1>1, <2>1, <2>5, JobInBelowMax
<1>2. Init => LeftJobs
  BY DEF Init, LeftJobs, Left
<1> HIDE DEF A
<1>3. Spec => [][A]_vars
  BY <1>1, <1>2, AlwaysInv, PTL DEF Spec
<1> QED
  BY <1>3 DEF StarvedStays, A
=============================================================================
