--------------------------- MODULE PoolLifeProofs ---------------------------
(***************************************************************************)
(* Proofs about PoolLife, for every finite set of threads and any number   *)
(* of jobs, updates and pools, one after another.  In the first pool of a  *)
(* process control_lock is let go when the last thread leaves; where waits *)
(* end on their signals and a stop comes after the threads are in their    *)
(* loop, it is returned with all of them started and freed after they have *)
(* left.  Every later pool meets the statics as the first has left them:   *)
(* nobody ever holds control_lock, and a thread that was given the first   *)
(* owner's identifier never leaves.  In any pool a stop is held up by a    *)
(* sleeping thread only.                                                   *)
(***************************************************************************)
EXTENDS PoolLife, TLAPS, FiniteSetTheorems

-----------------------------------------------------------------------------
(* The count of running threads                                             *)

(* The threads that n_worker_threads_running stands for: those that have    *)
(* confirmed and not left, and the first pool's owner, which leaves without *)
(* taking itself off the count.  It stays counted in every later pool.      *)
Counted ==
  {w \in Worker : IF wpc[w] = "gone" THEN run = 1 /\ tid[w] = owner ELSE wpc[w] # "born"}

Leftover == IF run >= 2 /\ Worker # {} THEN 1 ELSE 0

CountOK == running = Cardinality(Counted) + Leftover

(* Before the first pool nothing has happened.                              *)
Fresh == run = 0 => /\ mpc = "down" /\ control = Nobody /\ owner = NoTid
                    /\ \A w \in Worker : wpc[w] = "gone"

(* The threads of a pool have different identifiers.                        *)
TidsDiffer == run # 0 => \A v, w \in Worker : tid[v] = tid[w] => v = w

(* Every variable has its type; the count as far as it needs no arithmetic. *)
Types ==
  /\ calm \in BOOLEAN
  /\ run \in 0 .. Runs
  /\ mpc \in {"down", "confirming", "confirmed", "up", "failed", "joining"}
  /\ wpc \in [Worker -> Outside \cup Inside \cup {"gone"}]
  /\ tid \in [Worker -> Tid]
  /\ control \in Worker \cup {Nobody}
  /\ plock \in Worker \cup {Nobody, Main}
  /\ exit \in BOOLEAN
  /\ given \in 0 .. MaxWork /\ jobs \in 0 .. given
  /\ behind \subseteq Worker
  /\ owner \in Tid \cup {NoTid}

(* pool->lock is the main thread's during the start, and that of the thread *)
(* that is about to become the owner.                                       *)
LockOK ==
  /\ mpc \in {"confirming", "confirmed"} => plock = Main
  /\ \A w \in Worker : wpc[w] = "entering" => plock = w /\ owner = NoTid

(* Some thread of the first pool becomes the owner before any is in the     *)
(* loop, and holds control_lock as long as it is there itself.              *)
OwnerOK ==
  /\ run = 1 /\ owner = NoTid => \A w \in Worker : wpc[w] \in Outside
  /\ run = 1 /\ owner # NoTid => \E w \in Worker : tid[w] = owner
  /\ control # Nobody => /\ run = 1 /\ control \in Worker
                         /\ tid[control] = owner /\ wpc[control] \in Inside

(* In a later pool there is an owner already, and its identifier keeps the  *)
(* thread that has got it from leaving.                                     *)
LaterOK ==
  run >= 2 => \A w \in Worker : owner # NoTid /\ (wpc[w] = "gone" => tid[w] # owner)

CInv == Types /\ Fresh /\ TidsDiffer /\ LockOK /\ OwnerOK /\ LaterOK /\ CountOK

LEMMA CountedFinite ==
  /\ IsFiniteSet(Counted) /\ Cardinality(Counted) \in Nat
  /\ Cardinality(Counted) <= N /\ N \in Nat
  /\ Cardinality(Counted) = N => Counted = Worker
<1>1. Counted \in SUBSET Worker
  BY DEF Counted
<1> QED
  BY <1>1, PoolAssumption, FS_Subset, FS_CardinalityType DEF N

(* A step that is no thread's start or end, and no change of the owner,     *)
(* leaves the count's meaning alone.                                        *)
LEMMA CountStays ==
  ASSUME CountOK, UNCHANGED <<run, running, tid, owner>>,
         \A w \in Worker : (wpc'[w] = "gone" <=> wpc[w] = "gone")
                           /\ (wpc'[w] = "born" <=> wpc[w] = "born")
  PROVE  CountOK'
<1>1. Counted' = Counted
  BY DEF Counted
<1> QED
  BY <1>1 DEF CountOK, Leftover

(* The steps of the main thread keep the types.                             *)
LEMMA MainTypes == ASSUME Types, Fresh, MainThread PROVE Types'
<1> USE DEF Types, Outside, Inside
<1>1. CASE Launch
  <2>1. tid' \in [Worker -> Tid] /\ wpc' \in [Worker -> Outside \cup Inside \cup {"gone"}]
    BY <1>1 DEF Launch
  <2>2. run' \in 0 .. Runs /\ given' \in 0 .. MaxWork /\ jobs' \in 0 .. given'
    BY <1>1, PoolAssumption DEF Launch
  <2> QED
    BY <1>1, <2>1, <2>2 DEF Launch, statics
<1>2. CASE StartDone
  BY <1>2 DEF StartDone, pool, statics
<1>3. CASE StartTimeout
  BY <1>3 DEF StartTimeout, statics
<1>4. CASE QueueJob
  <2>1. wpc' \in [Worker -> Outside \cup Inside \cup {"gone"}]
    BY <1>4 DEF QueueJob
  <2>2. given' \in 0 .. MaxWork /\ jobs' \in 0 .. given'
    BY <1>4, PoolAssumption DEF QueueJob
  <2> QED
    BY <1>4, <2>1, <2>2 DEF QueueJob, locks, statics
<1>5. CASE Stop
  BY <1>5 DEF Stop, locks, statics
<1>6. CASE StopFailed
  BY <1>6 DEF StopFailed, locks, pool, statics
<1>7. CASE Free
  BY <1>7 DEF Free, locks, statics
<1>8. CASE QueueUpdate
  <2>1. given' \in 0 .. MaxWork /\ jobs' \in 0 .. given'
    BY <1>8, PoolAssumption DEF QueueUpdate
  <2> QED
    BY <1>8, <2>1 DEF QueueUpdate, locks, statics
<1> QED
  BY <1>1, <1>2, <1>3, <1>4, <1>5, <1>6, <1>7, <1>8 DEF MainThread

(* So do those of a thread.                                                 *)
LEMMA ThreadTypes ==
  ASSUME Types, NEW w \in Worker, Thread(w) \/ WakeSpuriously(w)
  PROVE  Types'
<1> USE DEF Types, Outside, Inside
<1>1. CASE Confirm(w)
  BY <1>1 DEF Confirm, locks, pool
<1>2. CASE Enter(w)
  BY <1>2 DEF Enter, pool, statics
<1>3. CASE TakeControl(w)
  BY <1>3 DEF TakeControl, pool
<1>4. CASE SeeExit(w) \/ WorkDone(w) \/ Sleep(w) \/ WakeSpuriously(w)
  BY <1>4 DEF SeeExit, WorkDone, Sleep, WakeSpuriously, locks, pool, statics
<1>5. CASE TakeJob(w)
  <2>1. jobs' \in 0 .. given
    BY <1>5, PoolAssumption DEF TakeJob
  <2> QED
    BY <1>5, <2>1 DEF TakeJob, locks, statics
<1>6. CASE Leave(w)
  BY <1>6 DEF Leave, locks, pool
<1>7. CASE OwnerLeaves(w)
  BY <1>7 DEF OwnerLeaves, pool, statics
<1>8. CASE TakeUpdate(w)
  BY <1>8 DEF TakeUpdate, locks, statics
<1> QED
  BY <1>1, <1>2, <1>3, <1>4, <1>5, <1>6, <1>7, <1>8 DEF Thread

(* A new pool begins when the last one's threads have gone: nobody holds    *)
(* control_lock, and the threads of the first pool have left one count and  *)
(* the identifier of one of them behind.                                    *)
LEMMA LaunchCount == ASSUME CInv, Launch PROVE CInv'
<1> USE DEF CInv
<1>1. /\ run' = run + 1 /\ run \in Nat /\ mpc = "down"
      /\ \A w \in Worker : wpc[w] = "gone" /\ wpc'[w] = "born"
      /\ \A v, w \in Worker : tid'[v] = tid'[w] => v = w
      /\ plock' = Main /\ UNCHANGED <<control, owner, running>>
  BY PoolAssumption DEF Launch, Types, statics
<1>2. Types'
  BY MainTypes DEF MainThread
<1>3. control = Nobody
  BY <1>1 DEF OwnerOK, Inside
<1>4. Counted' = {}
  BY <1>1 DEF Counted
<1>5. run' >= 2 => \A w \in Worker : owner # NoTid
  BY <1>1 DEF OwnerOK, LaterOK, Outside
<1>6. running = Leftover'
  <2>1. CASE run = 0 \/ Worker = {}
    <3>1. Counted = {} /\ Leftover = 0 /\ Leftover' = 0
      BY <1>1, <2>1, PoolAssumption DEF Counted, Leftover
    <3> QED
      BY <3>1, FS_EmptySet DEF CountOK
  <2>2. CASE run = 1 /\ Worker # {}
    <3>1. PICK w \in Worker : tid[w] = owner
      BY <1>1, <2>2 DEF OwnerOK, Outside
    <3>2. Counted = {w}
      BY <1>1, <2>2, <3>1 DEF Counted, TidsDiffer
    <3>3. Cardinality({w}) = 1
      BY FS_Singleton
    <3> QED
      BY <1>1, <2>2, <3>2, <3>3 DEF CountOK, Leftover
  <2>3. CASE run >= 2 /\ Worker # {}
    <3>1. Counted = {} /\ Leftover = 1 /\ Leftover' = 1
      BY <1>1, <2>3 DEF Counted, Leftover
    <3> QED
      BY <3>1, FS_EmptySet DEF CountOK
  <2> QED
    BY <1>1, <2>1, <2>2, <2>3
<1>7. CountOK'
  BY <1>1, <1>4, <1>6, FS_EmptySet DEF CountOK, Leftover
<1>8. LockOK' /\ TidsDiffer' /\ Fresh'
  BY <1>1 DEF LockOK, TidsDiffer, Fresh
<1>9. OwnerOK' /\ LaterOK'
  BY <1>1, <1>3, <1>5 DEF Fresh, OwnerOK, LaterOK, Outside
<1> QED
  BY <1>2, <1>7, <1>8, <1>9

(* The other steps of the main thread keep the rest of CInv.                *)
LEMMA MainCount == ASSUME CInv, MainThread PROVE CInv'
<1> USE DEF CInv
<1>1. CASE Launch
  BY <1>1, LaunchCount
<1>2. CASE ~Launch
  <2>1. Types'
    BY MainTypes
  <2>2. run # 0
    BY <1>2
    DEF MainThread, StartDone, StartTimeout, QueueJob, QueueUpdate, Stop, StopFailed, Free,
        Fresh
  <2>3. UNCHANGED <<run, tid, control, owner, running>>
    BY <1>2
    DEF MainThread, StartDone, StartTimeout, QueueJob, QueueUpdate, Stop, StopFailed, Free,
        statics, locks
  <2>4. \A w \in Worker : \/ wpc'[w] = wpc[w]
                          \/ wpc[w] = "waiting" /\ wpc'[w] = "top"
    BY <1>2
    DEF MainThread, StartDone, StartTimeout, QueueJob, QueueUpdate, Stop, StopFailed, Free,
        Types
  <2>5. LockOK'
    <3>1. plock' = plock \/ mpc \in {"confirming", "confirmed"}
      BY <1>2
      DEF MainThread, StartDone, StartTimeout, QueueJob, QueueUpdate, Stop, StopFailed, Free,
          locks
    <3>2. mpc' \notin {"confirming", "confirmed"}
      BY <1>2
      DEF MainThread, StartDone, StartTimeout, QueueJob, QueueUpdate, Stop, StopFailed, Free
    <3>3. \A w \in Worker : w # Main
      BY PoolAssumption
    <3> QED
      BY <2>3, <2>4, <3>1, <3>2, <3>3 DEF LockOK
  <2>6. CountOK'
    BY <2>3, <2>4, CountStays
  <2>7. OwnerOK' /\ LaterOK'
    BY <2>3, <2>4 DEF OwnerOK, LaterOK, Outside, Inside
  <2> QED
    BY <2>1, <2>2, <2>3, <2>5, <2>6, <2>7 DEF Fresh, TidsDiffer
<1> QED
  BY <1>1, <1>2

(* When a thread of a later pool is on its way out, the count is above one: *)
(* it and the first pool's owner.                                           *)
LEMMA LaterCount ==
  ASSUME CInv, run >= 2, NEW w \in Worker, wpc[w] = "leaving" PROVE running >= 2
<1>1. w \in Counted /\ Leftover = 1
  BY DEF Counted, Leftover
<1>2. Cardinality(Counted) \in Nat /\ Cardinality(Counted) # 0
  BY <1>1, CountedFinite, FS_EmptySet
<1> QED
  BY <1>1, <1>2 DEF CInv, CountOK

(* A start and an end move the count by one, and a thread becomes the owner *)
(* in the first pool, when nobody has left.                                 *)
LEMMA ThreadCount ==
  ASSUME CInv, NEW w \in Worker, Thread(w) \/ WakeSpuriously(w)
  PROVE  CInv'
<1> USE DEF CInv
<1>1. Types'
  BY ThreadTypes
<1>2. /\ run # 0 /\ run \in Nat /\ UNCHANGED <<run, tid>> /\ wpc[w] # "gone" /\ w # Nobody
      /\ \A v \in Worker : v # w => wpc'[v] = wpc[v]
  <2>1. run # 0 /\ UNCHANGED <<run, tid>> /\ wpc[w] # "gone"
    BY DEF Thread, Confirm, Enter, TakeControl, SeeExit, TakeUpdate, TakeJob, LooksForWork,
           WorkDone, Sleep, Leave,
           OwnerLeaves, WakeSpuriously, Alive, Fresh
  <2>2. CASE Confirm(w) \/ Enter(w) \/ TakeControl(w) \/ Leave(w) \/ OwnerLeaves(w)
    BY <2>1, <2>2, PoolAssumption DEF Confirm, Enter, TakeControl, Leave, OwnerLeaves, Types
  <2>3. CASE \/ SeeExit(w) \/ TakeUpdate(w) \/ TakeJob(w)
             \/ WorkDone(w) \/ Sleep(w) \/ WakeSpuriously(w)
    BY <2>1, <2>3, PoolAssumption DEF SeeExit, TakeUpdate, TakeJob, LooksForWork, WorkDone,
                                      Sleep, WakeSpuriously, Types
  <2> QED
    BY <2>2, <2>3 DEF Thread
<1>3. CASE Confirm(w)
  <2>1. /\ wpc[w] = "born" /\ wpc'[w] = "confirmed" /\ running' = running + 1
        /\ mpc' \in {mpc, "confirmed"} /\ (mpc' = "confirmed" => mpc \in {"confirming", "confirmed"})
        /\ UNCHANGED <<control, plock, owner>>
    BY <1>3 DEF Confirm, Types, locks
  <2>2. Counted' = Counted \cup {w} /\ w \notin Counted
    BY <1>2, <2>1 DEF Counted
  <2>3. Cardinality(Counted') = Cardinality(Counted) + 1 /\ Cardinality(Counted) \in Nat
    BY <2>2, CountedFinite, FS_AddElement
  <2>4. CountOK'
    BY <1>2, <2>1, <2>3 DEF CountOK, Leftover
  <2>5. OwnerOK' /\ LaterOK' /\ LockOK'
    BY <1>2, <2>1 DEF OwnerOK, LaterOK, LockOK, Outside, Inside
  <2> QED
    BY <1>1, <1>2, <2>4, <2>5 DEF Fresh, TidsDiffer
<1>4. CASE Enter(w)
  <2>1. /\ wpc[w] = "confirmed" /\ plock = Nobody
        /\ IF owner = NoTid THEN wpc'[w] = "entering" /\ plock' = w
                            ELSE wpc'[w] = "top" /\ plock' = plock
        /\ UNCHANGED <<mpc, control, owner, running>>
    BY <1>4 DEF Enter, Types, statics
  <2>2. mpc \notin {"confirming", "confirmed"} /\ \A v \in Worker : wpc[v] # "entering"
    BY <2>1, PoolAssumption DEF LockOK, Nobody, Main
  <2>3. OwnerOK' /\ LaterOK' /\ LockOK'
    BY <1>2, <2>1, <2>2 DEF OwnerOK, LaterOK, LockOK, Outside, Inside
  <2>4. CountOK'
    BY <1>2, <2>1, CountStays
  <2> QED
    BY <1>1, <1>2, <2>3, <2>4 DEF Fresh, TidsDiffer
<1>5. CASE TakeControl(w)
  <2>1. /\ wpc[w] = "entering" /\ wpc'[w] = "top" /\ control' = w /\ owner' = tid[w]
        /\ owner' # NoTid /\ plock' = Nobody /\ UNCHANGED <<mpc, running>>
    BY <1>5, PoolAssumption DEF TakeControl, Types
  <2>2. owner = NoTid /\ plock = w /\ run = 1
    BY <1>2, <2>1 DEF LockOK, LaterOK
  <2>3. mpc \notin {"confirming", "confirmed"} /\ \A v \in Worker : v # w => wpc[v] # "entering"
    BY <2>2, PoolAssumption DEF LockOK
  <2>4. \A v \in Worker : wpc[v] # "gone"
    BY <2>2 DEF OwnerOK, Outside
  <2>5. Counted' = Counted
    BY <1>2, <2>1, <2>4 DEF Counted
  <2>6. CountOK'
    BY <1>2, <2>1, <2>5 DEF CountOK, Leftover
  <2>7. OwnerOK' /\ LaterOK' /\ LockOK'
    BY <1>2, <2>1, <2>2, <2>3 DEF OwnerOK, LaterOK, LockOK, Outside, Inside
  <2> QED
    BY <1>1, <1>2, <2>6, <2>7 DEF Fresh, TidsDiffer
<1>6. CASE \/ SeeExit(w) \/ TakeUpdate(w) \/ TakeJob(w)
           \/ WorkDone(w) \/ Sleep(w) \/ WakeSpuriously(w)
  <2>1. /\ wpc[w] \in Inside /\ wpc'[w] \in Inside
        /\ UNCHANGED <<mpc, control, plock, owner, running>>
    BY <1>6
    DEF SeeExit, TakeUpdate, TakeJob, LooksForWork, WorkDone, Sleep, WakeSpuriously, Types,
        Inside, locks, statics
  <2>2. CountOK'
    BY <1>2, <2>1, CountStays DEF Inside
  <2>3. OwnerOK' /\ LaterOK' /\ LockOK'
    BY <1>2, <2>1 DEF OwnerOK, LaterOK, LockOK, Outside, Inside
  <2> QED
    BY <1>1, <1>2, <2>2, <2>3 DEF Fresh, TidsDiffer
<1>7. CASE Leave(w)
  <2>1. /\ wpc[w] = "leaving" /\ wpc'[w] = "gone" /\ tid[w] # owner
        /\ running' = running - 1 /\ UNCHANGED <<mpc, control, plock, owner>>
    BY <1>7 DEF Leave, Types, locks
  <2>2. Counted' = Counted \ {w} /\ w \in Counted
    BY <1>2, <2>1 DEF Counted
  <2>3. Cardinality(Counted') = Cardinality(Counted) - 1 /\ Cardinality(Counted) \in Nat
    BY <2>2, CountedFinite, FS_RemoveElement
  <2>4. CountOK'
    BY <1>2, <2>1, <2>3 DEF CountOK, Leftover
  <2>5. OwnerOK' /\ LaterOK' /\ LockOK'
    BY <1>2, <2>1 DEF OwnerOK, LaterOK, LockOK, Outside, Inside
  <2> QED
    BY <1>1, <1>2, <2>4, <2>5 DEF Fresh, TidsDiffer
<1>8. CASE OwnerLeaves(w)
  <2>1. /\ wpc[w] = "leaving" /\ wpc'[w] = "gone" /\ tid[w] = owner /\ running <= 1
        /\ control' = (IF control = w THEN Nobody ELSE control)
        /\ UNCHANGED <<mpc, plock, owner, running>>
    BY <1>8 DEF OwnerLeaves, Types, statics
  <2>2. run = 1
    BY <1>2, <2>1, CountedFinite, LaterCount DEF CountOK, Leftover
  <2>3. Counted' = Counted
    BY <1>2, <2>1, <2>2 DEF Counted
  <2>4. CountOK'
    BY <1>2, <2>1, <2>3 DEF CountOK, Leftover
  <2>5. control' = Nobody
    BY <2>1, <2>2 DEF OwnerOK, TidsDiffer
  <2>6. OwnerOK' /\ LaterOK' /\ LockOK'
    BY <1>2, <2>1, <2>2, <2>5 DEF OwnerOK, LaterOK, LockOK, Outside, Inside
  <2> QED
    BY <1>1, <1>2, <2>4, <2>6 DEF Fresh, TidsDiffer
<1> QED
  BY <1>3, <1>4, <1>5, <1>6, <1>7, <1>8 DEF Thread

(* CInv holds in every behaviour.                                           *)
LEMMA InitCount == Init => CInv
<1> SUFFICES ASSUME Init PROVE CInv
  OBVIOUS
<1>1. Types /\ Fresh /\ TidsDiffer /\ LockOK /\ OwnerOK /\ LaterOK
  <2>1. tid \in [Worker -> Tid] /\ wpc \in [Worker -> Outside \cup Inside \cup {"gone"}]
    BY DEF Init
  <2>2. run \in 0 .. Runs /\ given \in 0 .. MaxWork /\ jobs \in 0 .. given
    BY PoolAssumption DEF Init
  <2>3. Types
    BY <2>1, <2>2 DEF Init, Types
  <2> QED
    BY <2>3 DEF Init, Fresh, TidsDiffer, LockOK, OwnerOK, LaterOK
<1>2. Counted = {}
  BY <1>1, PoolAssumption DEF Init, Counted, Types
<1> QED
  BY <1>1, <1>2, FS_EmptySet DEF Init, CInv, CountOK, Leftover

LEMMA NextCount == ASSUME CInv, [Next]_vars PROVE CInv'
<1>1. CASE UNCHANGED vars
  <2>1. UNCHANGED <<run, mpc, wpc, tid, control, plock, running, owner>>
    BY <1>1 DEF vars, statics, locks
  <2>2. Types'
    BY <1>1 DEF vars, statics, locks, pool, CInv, Types
  <2>3. CountOK'
    BY <2>1, CountStays DEF CInv
  <2> QED
    BY <2>1, <2>2, <2>3 DEF CInv, Fresh, TidsDiffer, LockOK, OwnerOK, LaterOK
<1> QED
  BY <1>1, MainCount, ThreadCount DEF Next

LEMMA AlwaysCount == Spec => []CInv
<1>1. CInv /\ [Next]_vars => CInv'
  BY NextCount
<1> QED
  BY <1>1, InitCount, PTL DEF Spec

(* Every variable keeps its type, n_worker_threads_running among them: it   *)
(* never counts fewer than none, and in however many pools at most one more *)
(* than there are threads.                                                  *)
THEOREM TypeCorrect == Spec => []TypeOK
<1>1. CInv => TypeOK
  <2> SUFFICES ASSUME CInv PROVE TypeOK
    OBVIOUS
  <2>1. /\ N \in Nat /\ Cardinality(Counted) \in 0 .. N /\ run \in 0 .. Runs /\ Runs \in Nat
        /\ MaxWork \in Nat
    BY CountedFinite, PoolAssumption DEF CInv, Types
  <2>2. CASE run = 0
    <3>1. Counted = {} /\ Leftover = 0
      BY <2>2, PoolAssumption DEF CInv, Types, Fresh, Counted, Leftover
    <3>2. running = 0 /\ N * Runs >= 0
      BY <2>1, <3>1, FS_EmptySet DEF CInv, CountOK
    <3> QED
      BY <2>1, <3>2 DEF CInv, Types, TypeOK
  <2>3. CASE run = 1
    <3>1. running \in 0 .. N
      BY <2>1, <2>3 DEF CInv, CountOK, Leftover
    <3>2. N * Runs >= N
      BY <2>1, <2>3
    <3> QED
      BY <2>1, <3>1, <3>2 DEF CInv, Types, TypeOK
  <2>4. CASE run >= 2
    <3>1. Worker # {} => N # 0
      BY PoolAssumption, FS_EmptySet DEF N
    <3>2. running \in 0 .. 2 * N
      BY <2>1, <2>4, <3>1 DEF CInv, CountOK, Leftover
    <3>3. N * Runs >= 2 * N
      BY <2>1, <2>4
    <3> QED
      BY <2>1, <3>2, <3>3 DEF CInv, Types, TypeOK
  <2> QED
    BY <2>1, <2>2, <2>3, <2>4
<1> QED
  BY <1>1, AlwaysCount, PTL

-----------------------------------------------------------------------------
(* A calm start and the end of the first pool                               *)

(* During the start no thread gets past the confirmation, and at its end    *)
(* every thread has got there.                                              *)
StartOK ==
  /\ mpc # "failed"
  /\ mpc \in {"confirming", "confirmed"} =>
       owner = NoTid /\ \A w \in Worker : wpc[w] \in {"born", "confirmed"}
  /\ mpc \in {"confirmed", "up", "joining"} => \A w \in Worker : wpc[w] # "born"

(* The pool is freed when no thread is on its way in, and the owner has     *)
(* gone, and with it everybody.                                             *)
EndOK ==
  /\ mpc = "joining" => \A w \in Worker : wpc[w] \notin Outside
  /\ owner # NoTid /\ control = Nobody => \A w \in Worker : wpc[w] = "gone"
  /\ mpc = "down" => \A w \in Worker : wpc[w] = "gone"

CalmInv == calm /\ run <= 1 => StartOK /\ EndOK

(* The steps of the main thread keep it.                                    *)
LEMMA MainCalm == ASSUME CInv, CInv', CalmInv, MainThread PROVE CalmInv'
<1> SUFFICES ASSUME calm', run' <= 1 PROVE (StartOK /\ EndOK)'
  BY DEF MainThread, Launch, StartDone, StartTimeout, QueueJob, QueueUpdate, Stop,
         StopFailed, Free, CalmInv
<1>1. run <= 1 /\ run \in Nat
  <2>1. run' = run \/ run' = run + 1
    BY DEF MainThread, Launch, StartDone, StartTimeout, QueueJob, QueueUpdate, Stop,
           StopFailed, Free
  <2> QED
    BY <2>1, PoolAssumption DEF CInv, Types
<1>2. StartOK /\ EndOK
  <2>1. calm
    BY DEF MainThread, Launch, StartDone, StartTimeout, QueueJob, QueueUpdate, Stop,
           StopFailed, Free
  <2> QED
    BY <1>1, <2>1 DEF CalmInv
<1> USE DEF CInv
<1>3. CASE Launch
  <2>1. /\ run = 0 /\ mpc' = "confirming" /\ owner' = owner /\ control' = control
        /\ \A w \in Worker : wpc'[w] = "born"
    BY <1>1, <1>3, PoolAssumption DEF Launch, Types, statics
  <2>2. owner = NoTid /\ control = Nobody
    BY <2>1 DEF Fresh
  <2> QED
    BY <2>1, <2>2 DEF StartOK, EndOK, Outside
<1>4. CASE StartDone
  <2>1. mpc = "confirmed" /\ mpc' = "up" /\ UNCHANGED <<run, wpc, tid, control, owner>>
    BY <1>4 DEF StartDone, statics
  <2> QED
    BY <1>2, <2>1 DEF StartOK, EndOK
<1>5. CASE StartTimeout \/ StopFailed
  BY <1>2, <1>5 DEF StartTimeout, StopFailed, StartOK
<1>6. CASE QueueJob \/ QueueUpdate
  <2>1. mpc = "up" /\ mpc' = "up" /\ UNCHANGED <<run, tid, control, owner>>
    BY <1>6 DEF QueueJob, QueueUpdate, locks, statics
  <2>2. \A w \in Worker : wpc'[w] = wpc[w] \/ (wpc[w] = "waiting" /\ wpc'[w] = "top")
    BY <1>6 DEF QueueJob, QueueUpdate, Types
  <2> QED
    BY <1>2, <2>1, <2>2 DEF StartOK, EndOK, Outside, Inside
<1>7. CASE Stop
  <2>1. /\ mpc = "up" /\ mpc' = "joining" /\ UNCHANGED <<run, tid, control, owner>>
        /\ \A w \in Worker : wpc[w] \notin Outside
    BY <1>7 DEF Stop, locks, statics
  <2>2. \A w \in Worker : wpc'[w] = wpc[w] \/ (wpc[w] = "waiting" /\ wpc'[w] = "top")
    BY <1>7 DEF Stop
  <2> QED
    BY <1>2, <2>1, <2>2 DEF StartOK, EndOK, Outside, Inside
<1>8. CASE Free
  <2>1. /\ mpc = "joining" /\ mpc' = "down" /\ control = Nobody
        /\ UNCHANGED <<run, wpc, tid, control, owner>>
    BY <1>8 DEF Free, locks, statics
  <2>2. run = 1
    BY <1>1, <2>1 DEF Fresh, Types
  <2>3. \A w \in Worker : wpc[w] = "gone"
    BY <1>2, <2>1, <2>2 DEF OwnerOK, EndOK
  <2> QED
    BY <1>2, <2>1, <2>3 DEF StartOK, EndOK
<1> QED
  BY <1>3, <1>4, <1>5, <1>6, <1>7, <1>8 DEF MainThread

(* When the last thread confirms, all have.                                 *)
LEMMA LastConfirms ==
  ASSUME CInv', run' <= 1, running' = N PROVE \A w \in Worker : wpc'[w] # "born"
<1>1. Counted' \in SUBSET Worker
  BY DEF Counted
<1>2. Cardinality(Counted') = Cardinality(Worker)
  <2>1. Leftover' = 0 /\ Cardinality(Counted') \in Nat
    BY <1>1, PoolAssumption, FS_Subset, FS_CardinalityType DEF Leftover, CInv, Types
  <2> QED
    BY <2>1 DEF CInv, CountOK, N
<1>3. Counted' = Worker
  BY <1>1, <1>2, PoolAssumption, FS_Subset
<1> QED
  BY <1>3 DEF Counted

(* When the owner leaves, all have.                                         *)
LEMMA OwnerIsLast ==
  ASSUME CInv, running <= 1, NEW w \in Worker, wpc[w] = "leaving",
         \A v \in Worker : wpc[v] # "born"
  PROVE  \A v \in Worker : v # w => wpc[v] = "gone"
<1>1. w \in Counted /\ Cardinality(Counted) <= 1
  BY CountedFinite DEF Counted, CInv, CountOK, Leftover
<1>2. IsFiniteSet(Counted \ {w}) /\ Cardinality(Counted \ {w}) = Cardinality(Counted) - 1
  BY <1>1, CountedFinite, FS_RemoveElement
<1>3. Cardinality(Counted \ {w}) = 0
  BY <1>1, <1>2, CountedFinite, FS_CardinalityType
<1>4. Counted \ {w} = {}
  BY <1>2, <1>3, FS_EmptySet
<1> QED
  BY <1>4 DEF Counted

(* The steps of a thread keep it.                                           *)
LEMMA ThreadCalm ==
  ASSUME CInv, CInv', CalmInv, NEW w \in Worker, Thread(w) \/ WakeSpuriously(w)
  PROVE  CalmInv'
<1> SUFFICES ASSUME calm, run <= 1, StartOK, EndOK PROVE (StartOK /\ EndOK)'
  BY DEF Thread, Confirm, Enter, TakeControl, SeeExit, TakeUpdate, TakeJob, LooksForWork,
         WorkDone, Sleep, Leave,
         OwnerLeaves, WakeSpuriously, CalmInv
<1> USE DEF CInv
<1>1. /\ run = 1 /\ run' = run /\ tid' = tid /\ mpc \notin {"down", "failed"}
      /\ wpc[w] # "gone" /\ w # Nobody
      /\ \A v \in Worker : v # w => wpc'[v] = wpc[v]
  <2>1. run' = run /\ tid' = tid /\ mpc # "down" /\ wpc[w] # "gone"
    BY DEF Thread, Confirm, Enter, TakeControl, SeeExit, TakeUpdate, TakeJob, LooksForWork,
           WorkDone, Sleep, Leave,
           OwnerLeaves, WakeSpuriously, Alive
  <2>2. run = 1 /\ w # Nobody /\ mpc # "failed"
    BY <2>1, PoolAssumption DEF Fresh, Types, StartOK
  <2>3. \A v \in Worker : v # w => wpc'[v] = wpc[v]
    <3>1. CASE Confirm(w) \/ Enter(w) \/ TakeControl(w) \/ Leave(w) \/ OwnerLeaves(w)
      BY <3>1 DEF Confirm, Enter, TakeControl, Leave, OwnerLeaves, Types
    <3>2. CASE \/ SeeExit(w) \/ TakeUpdate(w) \/ TakeJob(w)
               \/ WorkDone(w) \/ Sleep(w) \/ WakeSpuriously(w)
      BY <3>2 DEF SeeExit, TakeUpdate, TakeJob, LooksForWork, WorkDone, Sleep,
                  WakeSpuriously, Types
    <3> QED
      BY <3>1, <3>2 DEF Thread
  <2> QED
    BY <2>1, <2>2, <2>3
<1>2. CASE Confirm(w)
  <2>1. /\ wpc[w] = "born" /\ wpc'[w] = "confirmed" /\ running' = running + 1
        /\ mpc' = IF mpc = "confirming" /\ running + 1 = N THEN "confirmed" ELSE mpc
        /\ UNCHANGED <<control, owner>>
    BY <1>2 DEF Confirm, Types, locks
  <2>2. mpc = "confirming" /\ mpc' \in {"confirming", "confirmed"}
    BY <1>1, <2>1 DEF StartOK, Types
  <2>3. mpc' = "confirmed" => \A v \in Worker : wpc'[v] # "born"
    BY <1>1, <2>1, <2>2, LastConfirms
  <2> QED
    BY <1>1, <2>1, <2>2, <2>3 DEF StartOK, EndOK, Outside, Inside
<1>3. CASE Enter(w)
  <2>1. /\ wpc[w] = "confirmed" /\ plock = Nobody
        /\ IF owner = NoTid THEN wpc'[w] = "entering" ELSE wpc'[w] = "top"
        /\ UNCHANGED <<mpc, control, owner>>
    BY <1>3 DEF Enter, Types, statics
  <2>2. mpc = "up"
    BY <1>1, <2>1 DEF LockOK, EndOK, Types, Nobody, Main, Outside
  <2> QED
    BY <1>1, <2>1, <2>2 DEF StartOK, EndOK, Outside, Inside
<1>4. CASE TakeControl(w)
  <2>1. /\ wpc[w] = "entering" /\ wpc'[w] = "top" /\ control' = w /\ owner' = tid[w]
        /\ owner' # NoTid /\ mpc' = mpc
    BY <1>4, PoolAssumption DEF TakeControl, Types
  <2>2. mpc = "up"
    BY <1>1, <2>1 DEF StartOK, EndOK, Types, Outside
  <2> QED
    BY <1>1, <2>1, <2>2 DEF StartOK, EndOK, Inside
<1>5. CASE \/ SeeExit(w) \/ TakeUpdate(w) \/ TakeJob(w)
           \/ WorkDone(w) \/ Sleep(w) \/ WakeSpuriously(w)
  <2>1. /\ wpc[w] \in Inside /\ wpc'[w] \in Inside /\ UNCHANGED <<mpc, control, owner>>
    BY <1>5
    DEF SeeExit, TakeUpdate, TakeJob, LooksForWork, WorkDone, Sleep, WakeSpuriously, Types,
        Inside, locks, statics
  <2> QED
    BY <1>1, <2>1 DEF StartOK, EndOK, Outside, Inside
<1>6. CASE Leave(w)
  <2>1. /\ wpc[w] = "leaving" /\ wpc'[w] = "gone" /\ tid[w] # owner
        /\ UNCHANGED <<mpc, control, owner>>
    BY <1>6 DEF Leave, Types, locks
  <2> QED
    BY <1>1, <2>1 DEF StartOK, EndOK, Outside, Inside
<1>7. CASE OwnerLeaves(w)
  <2>1. /\ wpc[w] = "leaving" /\ wpc'[w] = "gone" /\ tid[w] = owner /\ running <= 1
        /\ control' = (IF control = w THEN Nobody ELSE control)
        /\ UNCHANGED <<mpc, owner>>
    BY <1>7 DEF OwnerLeaves, Types, statics
  <2>2. mpc \in {"up", "joining"} /\ \A v \in Worker : wpc[v] # "born"
    BY <1>1, <2>1 DEF StartOK, Types
  <2>3. \A v \in Worker : wpc'[v] = "gone"
    BY <1>1, <2>1, <2>2, OwnerIsLast
  <2>4. owner # NoTid /\ control' = Nobody
    BY <1>1, <2>1 DEF OwnerOK, EndOK, TidsDiffer, Outside
  <2> QED
    BY <1>1, <2>1, <2>2, <2>3, <2>4 DEF StartOK, EndOK, Outside
<1> QED
  BY <1>2, <1>3, <1>4, <1>5, <1>6, <1>7 DEF Thread

LEMMA NextCalm == ASSUME CInv, CInv', CalmInv, [Next]_vars PROVE CalmInv'
<1>1. CASE UNCHANGED vars
  BY <1>1 DEF vars, locks, pool, statics, CalmInv, StartOK, EndOK
<1> QED
  BY <1>1, MainCalm, ThreadCalm DEF Next

LEMMA AlwaysCalm == Spec => [](CInv /\ CalmInv)
<1>1. CInv /\ [Next]_vars => CInv'
  BY NextCount
<1>2. CInv /\ CInv' /\ CalmInv /\ [Next]_vars => CalmInv'
  BY NextCalm
<1>3. Init => CalmInv
  BY DEF Init, CalmInv, StartOK, EndOK
<1> QED
  BY <1>1, <1>2, <1>3, InitCount, PTL DEF Spec

(* threadpool_new returns the first pool of a process with all its threads  *)
(* running, when its wait ends on the signal and not spuriously (calm).     *)
THEOREM AllStartedHolds == Spec => [](run <= 1 => AllStarted)
<1>1. CalmInv => (run <= 1 => AllStarted)
  BY DEF CalmInv, StartOK, AllStarted
<1> QED
  BY <1>1, AlwaysCalm, PTL

(* In the first pool of a process, when the waits end on their signals only *)
(* and no stop comes before the threads are in their loop (calm), the two   *)
(* handshakes over control_lock keep threadpool_free_ waiting until every   *)
(* thread has left.                                                         *)
THEOREM FreedAfterExitHolds == Spec => [](calm /\ run <= 1 => FreedAfterExit)
<1>1. CalmInv => (calm /\ run <= 1 => FreedAfterExit)
  BY DEF CalmInv, EndOK, FreedAfterExit
<1> QED
  BY <1>1, AlwaysCalm, PTL

(* Without that proviso: control_lock stays locked until the last thread    *)
(* leaves, once it is held and every thread of the first pool has           *)
(* confirmed.                                                               *)
THEOREM ControlHeld == Spec => ControlHeldToTheLast
<1>1. ASSUME CInv, [Next]_vars, run = 1, control # Nobody, \A w \in Worker : wpc[w] # "born",
             control' # control
      PROVE  \A w \in Worker : wpc'[w] = "gone"
  <2>1. PICK w \in Worker : TakeControl(w) \/ OwnerLeaves(w)
    <3>1. CASE MainThread \/ UNCHANGED vars
      BY <1>1, <3>1
      DEF MainThread, Launch, StartDone, StartTimeout, QueueJob, QueueUpdate, Stop, StopFailed,
          Free, vars, locks
    <3>2. ASSUME NEW w \in Worker, Thread(w) \/ WakeSpuriously(w)
          PROVE  TakeControl(w) \/ OwnerLeaves(w)
      BY <1>1, <3>2
      DEF Thread, Confirm, Enter, SeeExit, TakeUpdate, TakeJob, WorkDone, Sleep, Leave,
          WakeSpuriously, locks
    <3> QED
      BY <1>1, <3>1, <3>2 DEF Next
  <2>2. OwnerLeaves(w)
    BY <1>1, <2>1 DEF TakeControl
  <2>3. wpc[w] = "leaving" /\ running <= 1 /\ wpc' = [wpc EXCEPT ![w] = "gone"]
    BY <2>2 DEF OwnerLeaves
  <2>4. \A v \in Worker : v # w => wpc[v] = "gone"
    BY <1>1, <2>3, OwnerIsLast
  <2> QED
    BY <1>1, <2>3, <2>4 DEF CInv, Types
<1>2. CInv /\ [Next]_vars =>
        (run = 1 /\ control # Nobody /\ (\A w \in Worker : wpc[w] # "born") =>
           control' = control \/ \A w \in Worker : wpc'[w] = "gone")
  BY <1>1
<1> QED
  BY <1>2, AlwaysCount, PTL DEF Spec, ControlHeldToTheLast

-----------------------------------------------------------------------------
(* Where the handshakes fail                                                *)

(* From the second pool on nobody holds control_lock, whatever the threads  *)
(* do, so that threadpool_free_ never waits for them; and the thread that   *)
(* was given the first owner's identifier never leaves.                     *)
LaterPoolOpen ==
  run >= 2 => control = Nobody /\ \A w \in Worker : wpc[w] = "gone" => tid[w] # owner

THEOREM LaterPoolUnguarded == Spec => []LaterPoolOpen
<1>1. CInv => LaterPoolOpen
  BY DEF CInv, OwnerOK, LaterOK, LaterPoolOpen
<1> QED
  BY <1>1, AlwaysCount, PTL

(* A thread of the first pool that sleeps after exit was set.               *)
Sleeper == calm /\ run = 1 /\ mpc = "joining" /\ \E w \in Worker : wpc[w] = "waiting"

(* Nothing wakes it: the main thread stays in threadpool_stop_threads for   *)
(* ever, because some thread has become the owner and waits for the others. *)
THEOREM SleeperBlocksStop == Spec => [](Sleeper => []Sleeper)
<1>1. ASSUME CInv, CalmInv, Sleeper, [Next]_vars PROVE Sleeper'
  <2>1. PICK w \in Worker : wpc[w] = "waiting"
    BY <1>1 DEF Sleeper
  <2>2. calm /\ run = 1 /\ mpc = "joining" /\ EndOK
    BY <1>1 DEF Sleeper, CalmInv
  <2>3. control # Nobody
    BY <1>1, <2>1, <2>2 DEF CInv, OwnerOK, EndOK, Outside
  <2>4. CASE UNCHANGED vars
    BY <1>1, <2>4 DEF Sleeper, vars
  <2>5. CASE MainThread
    BY <2>2, <2>3, <2>5
    DEF MainThread, Launch, StartDone, StartTimeout, QueueJob, QueueUpdate, Stop, StopFailed,
        Free
  <2>6. CASE \E v \in Worker : Thread(v) \/ WakeSpuriously(v)
    <3>1. PICK v \in Worker : Thread(v) \/ WakeSpuriously(v)
      BY <2>6
    <3>2. calm' = calm /\ run' = run /\ mpc' = mpc
      BY <2>2, <3>1
      DEF Thread, Confirm, Enter, TakeControl, SeeExit, TakeUpdate, TakeJob, LooksForWork,
          WorkDone, Sleep, Leave,
          OwnerLeaves, WakeSpuriously
    <3>3. v # w
      BY <2>1, <2>2, <3>1
      DEF Thread, Confirm, Enter, TakeControl, SeeExit, TakeUpdate, TakeJob, LooksForWork,
          WorkDone, Sleep, Leave,
          OwnerLeaves, WakeSpuriously
    <3>4. wpc'[w] = wpc[w]
      <4>1. CASE Confirm(v) \/ Enter(v) \/ TakeControl(v) \/ Leave(v) \/ OwnerLeaves(v)
        BY <1>1, <3>3, <4>1 DEF Confirm, Enter, TakeControl, Leave, OwnerLeaves, CInv, Types
      <4>2. CASE \/ SeeExit(v) \/ TakeUpdate(v) \/ TakeJob(v)
                 \/ WorkDone(v) \/ Sleep(v) \/ WakeSpuriously(v)
        BY <1>1, <3>3, <4>2
        DEF SeeExit, TakeUpdate, TakeJob, LooksForWork, WorkDone, Sleep, WakeSpuriously,
            CInv, Types
      <4> QED
        BY <3>1, <4>1, <4>2 DEF Thread
    <3> QED
      BY <2>1, <2>2, <3>2, <3>4 DEF Sleeper
  <2> QED
    BY <1>1, <2>4, <2>5, <2>6 DEF Next
<1> QED
  BY <1>1, AlwaysCalm, PTL DEF Spec

-----------------------------------------------------------------------------
(* What a stop waits for                                                    *)

(* pool->lock is held between steps by the main thread during the start and *)
(* by the thread that is about to take control_lock, by nobody else.        *)
HolderOK ==
  \/ plock = Nobody
  \/ plock = Main /\ mpc \in {"confirming", "confirmed"}
  \/ plock \in Worker /\ wpc[plock] = "entering"

LEMMA NextHolder == ASSUME CInv, HolderOK, [Next]_vars PROVE HolderOK'
<1>1. CASE MainThread
  BY <1>1, PoolAssumption
  DEF MainThread, Launch, StartDone, StartTimeout, QueueJob, QueueUpdate, Stop, StopFailed,
      Free, HolderOK,
      LockOK, CInv, Types, locks
<1>2. ASSUME NEW w \in Worker, Thread(w) \/ WakeSpuriously(w) PROVE HolderOK'
  <2>1. CASE Confirm(w) \/ Enter(w) \/ TakeControl(w) \/ Leave(w) \/ OwnerLeaves(w)
    BY <2>1, PoolAssumption
    DEF Confirm, Enter, TakeControl, Leave, OwnerLeaves, HolderOK, LockOK, CInv, Types, locks
  <2>2. CASE \/ SeeExit(w) \/ TakeUpdate(w) \/ TakeJob(w)
             \/ WorkDone(w) \/ Sleep(w) \/ WakeSpuriously(w)
    BY <2>2, PoolAssumption
    DEF SeeExit, TakeUpdate, TakeJob, LooksForWork, WorkDone, Sleep, WakeSpuriously,
        HolderOK, CInv, Types, locks
  <2> QED
    BY <1>2, <2>1, <2>2 DEF Thread
<1>3. CASE UNCHANGED vars
  BY <1>3 DEF vars, locks, HolderOK
<1> QED
  BY <1>1, <1>2, <1>3 DEF Next

(* If the owner may not leave yet, there is another thread that is counted. *)
LEMMA OtherCounted ==
  ASSUME CInv, run = 1, NEW w \in Worker, wpc[w] = "leaving", tid[w] = owner, ~(running <= 1)
  PROVE  \E v \in Worker : v # w /\ wpc[v] \notin {"born", "gone"}
<1>1. Cardinality(Counted) > 1
  BY CountedFinite DEF CInv, CountOK, Leftover
<1>2. Counted # {w}
  <2>1. Cardinality({w}) = 1
    BY FS_Singleton
  <2> QED
    BY <1>1, <2>1
<1>3. w \in Counted
  BY DEF Counted
<1>4. PICK v \in Counted : v # w
  BY <1>2, <1>3
<1> QED
  BY <1>4 DEF Counted, CInv, TidsDiffer

(* In the first pool of a process and in every later one, started or not,   *)
(* calm or not, only a thread that sleeps can keep a stop from its end.     *)
THEOREM StopNotStuckHolds == Spec => []StopNotStuck
<1>1. ASSUME CInv, HolderOK PROVE StopNotStuck
  <2> SUFFICES ASSUME mpc \in {"failed", "joining"}, \A w \in Worker : wpc[w] # "waiting"
               PROVE  MainMoves \/ \E w \in Worker : Moves(w)
    BY DEF StopNotStuck
  <2>1. CASE control = Nobody
    <3>1. CASE plock = Nobody
      BY <2>1, <3>1 DEF MainMoves
    <3>2. CASE plock # Nobody
      <4>1. plock \in Worker /\ wpc[plock] = "entering"
        BY <1>1, <3>2 DEF HolderOK
      <4> QED
        BY <2>1, <4>1 DEF Moves
    <3> QED
      BY <3>1, <3>2
  <2>2. CASE control # Nobody
    <3>1. PICK c \in Worker : c = control
      BY <1>1, <2>2 DEF CInv, OwnerOK
    <3>2. /\ run = 1 /\ tid[c] = owner /\ owner # NoTid
          /\ wpc[c] \in {"top", "inner", "running", "updating", "leaving"}
      BY <1>1, <2>2, <3>1, PoolAssumption DEF CInv, OwnerOK, Types, Inside
    <3>3. plock = Nobody /\ \A v \in Worker : wpc[v] # "entering"
      BY <1>1, <3>2 DEF CInv, LockOK, HolderOK
    <3>4. CASE wpc[c] = "leaving" /\ ~(running <= 1)
      <4>1. PICK v \in Worker : v # c /\ wpc[v] \notin {"born", "gone"}
        BY <1>1, <3>2, <3>4, OtherCounted
      <4>2. /\ tid[v] # owner
            /\ wpc[v] \in {"confirmed", "top", "inner", "running", "updating", "leaving"}
        BY <1>1, <3>2, <3>3, <4>1 DEF CInv, TidsDiffer, Types, Outside, Inside
      <4> QED
        BY <3>3, <4>2 DEF Moves
    <3>5. CASE ~(wpc[c] = "leaving" /\ ~(running <= 1))
      BY <3>2, <3>3, <3>5 DEF Moves
    <3> QED
      BY <3>4, <3>5
  <2> QED
    BY <2>1, <2>2
<1>2. Init => HolderOK
  BY DEF Init, HolderOK
<1> QED
  BY <1>1, <1>2, NextHolder, AlwaysCount, PTL DEF Spec
=============================================================================
