----------------------------- MODULE CpuWorker ------------------------------
(***************************************************************************)
(* The relay's circuit handshakes, the first client of the thread pool:    *)
(* core/mainloop/cpuworker.c, the queue of onionskins that wait for a      *)
(* place in the pool (feature/relay/onion_queue.c), and the circuits both  *)
(* point to (core/or/command.c, core/or/circuitlist.c), which may be       *)
(* closed while a worker has them.                                         *)
(*                                                                         *)
(* The pool is what module WorkPool promises (module WorkQueue implements  *)
(* it): the workers begin and finish jobs between any two steps of the     *)
(* main thread.  A circuit has at most one job, so a job is named by its   *)
(* circuit.  Tor may be run several times in one process.                  *)
(***************************************************************************)
EXTENDS Integers, Sequences, FiniteSets, SequencesExt

CONSTANTS
  Circ,       \* the or_circuit_t ever created
  MaxTasks,   \* bound: values of max_pending_tasks
  Room,       \* queue length below which there is always room (50 in the code)
  Lives       \* bound: calls of tor_run_main in this process

ASSUME CircAssumption == IsFiniteSet(Circ)

ASSUME LimitAssumption ==
  MaxTasks \subseteq Nat \ {0} /\ Room \in Nat \ {0} /\ Lives \in Nat

VARIABLES
  life,     \* how many times Tor has been started
  mpc,      \* the main thread: down, in its event loop, in the loop of
            \* circuit_close_all_marked, in the one of queue_pending_tasks,
            \* in tor_free_all with the circuits freed ("freeing")
  circ,     \* circ[c]: none, pending (CIRCUIT_STATE_ONIONSKIN_PENDING), open,
            \* dead (DEAD_CIRCUIT_MAGIC), freed, leaked (never to be freed)
  marked,   \* marked[c]: marked_for_close
  pchan,    \* pchan[c]: p_chan is set
  entry,    \* entry[c]: workqueue_entry is set
  onions,   \* ol_list[NTOR]
  entries,  \* ol_entries[NTOR]
  stage,    \* stage[c]: how far the pool is with the job of c (WorkPool)
  total,    \* static total_pending_tasks
  max       \* static max_pending_tasks

circuitVars == <<circ, marked, pchan, entry>>
queueVars == <<onions, entries>>
taskVars == <<stage, total>>
vars == <<life, mpc, circuitVars, queueVars, taskVars, max>>

Pool == INSTANCE WorkPool WITH Job <- Circ

TypeOK ==
  /\ life \in 0 .. Lives
  /\ mpc \in {"down", "events", "closing", "dispatching", "freeing"}
  /\ circ \in [Circ -> {"none", "pending", "open", "dead", "freed", "leaked"}]
  /\ marked \in [Circ -> BOOLEAN]
  /\ pchan \in [Circ -> BOOLEAN]
  /\ entry \in [Circ -> BOOLEAN]
  /\ onions \in Seq(Circ)
  /\ entries \in Nat
  /\ Pool!WPTypeOK
  /\ total \in Nat
  /\ max \in MaxTasks

-----------------------------------------------------------------------------
(* The memory of c is a circuit.                                            *)
Live(c) == circ[c] \in {"pending", "open"}

(* The pool has the job of c, or had it when the pool was freed.            *)
HasJob(c) == stage[c] \in {"queued", "running", "answered"}
Jobs == {c \in Circ : HasJob(c)}

Waiting == {onions[k] : k \in DOMAIN onions}

-----------------------------------------------------------------------------
(* Tasks                                                                    *)

(* assign_onionskin_to_cpuworker with a place in the pool: the task is      *)
(* counted, queued, and the circuit remembers its entry.                    *)
GiveToPool(c) ==
  /\ total' = total + 1
  /\ Pool!Accept(c)
  /\ entry' = [entry EXCEPT ![c] = TRUE]

(* A circuit is created for a create cell and gets the state st.            *)
NewCircuit(c, st) ==
  /\ mpc = "events" /\ circ[c] = "none"
  /\ circ' = [circ EXCEPT ![c] = st]
  /\ pchan' = [pchan EXCEPT ![c] = TRUE]

(* command_process_create_cell: the cell cannot be parsed, or asks for TAP. *)
CreateRefused(c) ==
  /\ NewCircuit(c, "pending")
  /\ marked' = [marked EXCEPT ![c] = TRUE]
  /\ UNCHANGED <<life, mpc, entry, queueVars, taskVars, max>>

(* CREATE_FAST is answered by the main thread; that may fail.  (When it     *)
(* fails before the circuit is open, the step is like CreateRefused.)       *)
CreateFast(c) ==
  /\ NewCircuit(c, "open")
  /\ \E failed \in BOOLEAN : marked' = [marked EXCEPT ![c] = failed]
  /\ UNCHANGED <<life, mpc, entry, queueVars, taskVars, max>>

(* The onionskin goes to the pool, past the ones that wait if there is      *)
(* room by now.                                                             *)
CreateTask(c) ==
  /\ NewCircuit(c, "pending")
  /\ total < max
  /\ GiveToPool(c)
  /\ UNCHANGED <<life, mpc, marked, queueVars, max>>

(* Mutant of CreateWaits: culled entries stay counted.                      *)
CreateWaitsCountsCulled(c) ==
  /\ NewCircuit(c, "pending")
  /\ total >= max
  /\ \E k \in 0 .. Len(onions) :
       /\ onions' = Append(SubSeq(onions, k + 1, Len(onions)), c)
       /\ marked' = [d \in Circ |-> marked[d] \/ \E i \in 1 .. k : onions[i] = d]
  /\ entries' = entries + 1
  /\ UNCHANGED <<life, mpc, entry, taskVars, max>>

(* onion_pending_add: the onionskin waits; the oldest ones, if they have    *)
(* waited too long, leave the queue and their circuits are marked.          *)
CreateWaits(c) ==
  /\ NewCircuit(c, "pending")
  /\ total >= max
  /\ \E k \in 0 .. Len(onions) :
       /\ onions' = Append(SubSeq(onions, k + 1, Len(onions)), c)
       /\ entries' = entries + 1 - k
       /\ marked' = [d \in Circ |-> marked[d] \/ \E i \in 1 .. k : onions[i] = d]
  /\ UNCHANGED <<life, mpc, entry, taskVars, max>>

(* have_room_for_onionskin says no: too long a queue, and too slow.         *)
CreateNoRoom(c) ==
  /\ NewCircuit(c, "pending")
  /\ total >= max /\ entries >= Room
  /\ marked' = [marked EXCEPT ![c] = TRUE]
  /\ UNCHANGED <<life, mpc, entry, queueVars, taskVars, max>>

-----------------------------------------------------------------------------
(* The answer of a worker                                                   *)

(* replyqueue_process hands over the answer of c: the task is counted off.  *)
TakeAnswer(c) ==
  /\ mpc = "events" /\ circ[c] # "leaked"
  /\ Pool!Answer(c)
  /\ total' = total - 1
  /\ UNCHANGED <<life, pchan, queueVars, max>>

(* The circuit died while its reply was pending.                            *)
FreeDead(c) ==
  /\ circ[c] = "dead"
  /\ circ' = [circ EXCEPT ![c] = "freed"]
  /\ UNCHANGED <<marked, entry>>

(* A marked circuit is left alone; otherwise the handshake has failed and   *)
(* the circuit is marked, or it is answered, which may fail before or after *)
(* the circuit is set open.                                                 *)
AnswerCircuit(c) ==
  /\ circ[c] # "dead"
  /\ entry' = [entry EXCEPT ![c] = FALSE]
  /\ \/ marked[c] /\ UNCHANGED <<circ, marked>>
     \/ /\ ~marked[c]
        /\ marked' = [marked EXCEPT ![c] = TRUE]
        /\ \E st \in {"pending", "open"} : circ' = [circ EXCEPT ![c] = st]
     \/ /\ ~marked[c]
        /\ circ' = [circ EXCEPT ![c] = "open"]
        /\ UNCHANGED marked

(* Mutants of Reply: returns for a dead circuit before queue_pending_tasks; *)
(* after a failed handshake; does not free the dead circuit.                *)
ReplyReturnsEarly(c) ==
  /\ TakeAnswer(c)
  /\ \/ FreeDead(c) /\ UNCHANGED mpc
     \/ AnswerCircuit(c) /\ mpc' = "dispatching"

ReplyForgetsQueue(c) ==
  /\ TakeAnswer(c)
  /\ FreeDead(c) \/ AnswerCircuit(c)
  /\ mpc' = IF marked' = marked THEN "dispatching" ELSE "events"

ReplyKeepsDead(c) ==
  /\ TakeAnswer(c)
  /\ (circ[c] = "dead" /\ UNCHANGED <<circ, marked, entry>>) \/ AnswerCircuit(c)
  /\ mpc' = "dispatching"

(* cpuworker_onion_handshake_replyfn, which always ends in                  *)
(* queue_pending_tasks.                                                     *)
Reply(c) ==
  /\ TakeAnswer(c)
  /\ FreeDead(c) \/ AnswerCircuit(c)
  /\ mpc' = "dispatching"

(* Mutant of Dispatch: onion_next_task leaves the onionskin in the entry    *)
(* that onion_queue_entry_remove then takes off the count again.            *)
DispatchCountsTwice ==
  /\ mpc = "dispatching" /\ total < max /\ onions # <<>>
  /\ onions' = Tail(onions)
  /\ entries' = entries - 2
  /\ IF pchan[Head(onions)]
       THEN GiveToPool(Head(onions))
       ELSE UNCHANGED <<entry, taskVars>>
  /\ UNCHANGED <<life, mpc, circ, marked, pchan, max>>

(* queue_pending_tasks: onion_next_task and assign_onionskin_to_cpuworker,  *)
(* once.  A circuit whose p_chan is gone is dropped.                        *)
Dispatch ==
  /\ mpc = "dispatching" /\ total < max /\ onions # <<>>
  /\ onions' = Tail(onions)
  /\ entries' = entries - 1
  /\ IF pchan[Head(onions)]
       THEN GiveToPool(Head(onions))
       ELSE UNCHANGED <<entry, taskVars>>
  /\ UNCHANGED <<life, mpc, circ, marked, pchan, max>>

DispatchDone ==
  /\ mpc = "dispatching" /\ (total >= max \/ onions = <<>>)
  /\ mpc' = "events"
  /\ UNCHANGED <<life, circuitVars, queueVars, taskVars, max>>

-----------------------------------------------------------------------------
(* Circuits closing                                                         *)

(* circuit_mark_for_close, for a reason outside this module.                *)
Mark(c) ==
  /\ mpc = "events" /\ Live(c) /\ ~marked[c]
  /\ marked' = [marked EXCEPT ![c] = TRUE]
  /\ UNCHANGED <<life, mpc, circ, pchan, entry, queueVars, taskVars, max>>

(* A DESTROY cell from behind, or the end of the channel: p_chan is unset   *)
(* and the circuit marked, if it was not.                                   *)
LosePChan(c) ==
  /\ mpc = "events" /\ Live(c) /\ pchan[c]
  /\ pchan' = [pchan EXCEPT ![c] = FALSE]
  /\ marked' = [marked EXCEPT ![c] = TRUE]
  /\ UNCHANGED <<life, mpc, circ, entry, queueVars, taskVars, max>>

(* postloop_cleanup_cb calls circuit_close_all_marked.                      *)
CloseMarked ==
  /\ mpc = "events" /\ \E c \in Circ : marked[c]
  /\ mpc' = "closing"
  /\ UNCHANGED <<life, circuitVars, queueVars, taskVars, max>>

(* onion_pending_remove, first half: the circuit's entry on the queue.      *)
(* circuit_about_to_free calls it for circuits that are pending.            *)
Unlink(c) ==
  \/ /\ circ[c] # "pending" \/ c \notin Waiting
     /\ UNCHANGED queueVars
  \/ \E k \in DOMAIN onions :
       /\ circ[c] = "pending" /\ onions[k] = c
       /\ onions' = RemoveAt(onions, k)
       /\ entries' = entries - 1

(* One circuit is done with; its memory holds nothing any more.             *)
Gone(c, st) ==
  /\ mpc = "closing" /\ marked[c]
  /\ circ' = [circ EXCEPT ![c] = st]
  /\ marked' = [marked EXCEPT ![c] = FALSE]
  /\ pchan' = [pchan EXCEPT ![c] = FALSE]
  /\ entry' = [entry EXCEPT ![c] = FALSE]
  /\ mpc' = IF \E d \in Circ \ {c} : marked[d] THEN "closing" ELSE "events"
  /\ UNCHANGED <<life, max>>

(* Mutant of CloseFree: circuit_about_to_free without onion_pending_remove. *)
CloseFreeStaysQueued(c) ==
  /\ ~entry[c]
  /\ Gone(c, "freed")
  /\ UNCHANGED <<queueVars, taskVars>>

(* circuit_about_to_free and circuit_free_, no job being out.               *)
CloseFree(c) ==
  /\ ~entry[c]
  /\ Gone(c, "freed")
  /\ Unlink(c)
  /\ UNCHANGED taskVars

(* Mutant of CloseCancels: the task stays counted.                          *)
CloseCancelsUncounted(c) ==
  /\ entry[c] /\ circ[c] = "pending"
  /\ Gone(c, "freed")
  /\ Unlink(c)
  /\ Pool!Withdraw(c)
  /\ UNCHANGED total

(* cpuworker_cancel_circ_handshake finds the job still on the work queue.   *)
CloseCancels(c) ==
  /\ entry[c] /\ circ[c] = "pending"
  /\ Gone(c, "freed")
  /\ Unlink(c)
  /\ Pool!Withdraw(c)
  /\ total' = total - 1

(* Mutants of CloseDead: freed whether or not a job is out; the task is     *)
(* taken off the count although the pool still has it.                      *)
CloseDeadFrees(c) ==
  /\ entry[c] /\ (circ[c] # "pending" \/ stage[c] # "queued")
  /\ Gone(c, "freed")
  /\ Unlink(c)
  /\ UNCHANGED taskVars

CloseDeadUncounts(c) ==
  /\ entry[c] /\ (circ[c] # "pending" \/ stage[c] # "queued")
  /\ Gone(c, "dead")
  /\ Unlink(c)
  /\ total' = total - 1
  /\ UNCHANGED stage

(* The job is not cancelled, being too far already: the memory is left to   *)
(* Reply.                                                                   *)
CloseDead(c) ==
  /\ entry[c] /\ (circ[c] # "pending" \/ stage[c] # "queued")
  /\ Gone(c, "dead")
  /\ Unlink(c)
  /\ UNCHANGED taskVars

-----------------------------------------------------------------------------
(* The rest of Tor, and the pool                                            *)

(* cpuworker_consensus_has_changed                                          *)
Consensus ==
  /\ mpc = "events"
  /\ max' \in MaxTasks \ {max}
  /\ UNCHANGED <<life, mpc, circuitVars, queueVars, taskVars>>

WorkerBegins(c) ==
  /\ circ[c] # "leaked"
  /\ Pool!Begin(c)
  /\ UNCHANGED <<life, mpc, circuitVars, queueVars, total, max>>

WorkerFinishes(c) ==
  /\ circ[c] # "leaked"
  /\ Pool!Finish(c)
  /\ UNCHANGED <<life, mpc, circuitVars, queueVars, total, max>>

(* cpuworker_init: total_pending_tasks keeps the value it had.              *)
CpuworkerInit ==
  /\ mpc = "down" /\ life < Lives
  /\ life' = life + 1
  /\ mpc' = "events"
  /\ max' \in MaxTasks
  /\ UNCHANGED <<circuitVars, queueVars, taskVars>>

(* tor_free_all, up to circuit_free_all: the pool is freed when its workers *)
(* have left it, the jobs on its queues and their circuits are not; every   *)
(* other circuit is, and none is taken off the onion queue.                 *)
CircuitFreeAll ==
  /\ mpc = "events"
  /\ \A c \in Circ : stage[c] # "running"
  /\ mpc' = "freeing"
  /\ circ' = [c \in Circ |-> CASE circ[c] = "none" -> "none"
                               [] circ[c] # "none" /\ HasJob(c) -> "leaked"
                               [] OTHER -> "freed"]
  /\ marked' = [c \in Circ |-> FALSE]
  /\ pchan' = [c \in Circ |-> FALSE]
  /\ entry' = [c \in Circ |-> FALSE]
  /\ UNCHANGED <<life, queueVars, taskVars, max>>

(* Later in tor_free_all, from the shutdown of the relay subsystem.  The    *)
(* entries are unlinked from circuits that are freed by now.                *)
ClearPendingOnions ==
  /\ mpc = "freeing"
  /\ mpc' = "down"
  /\ onions' = <<>>
  /\ entries' = 0
  /\ UNCHANGED <<life, circuitVars, taskVars, max>>

-----------------------------------------------------------------------------
Init ==
  /\ life = 0
  /\ mpc = "down"
  /\ circ = [c \in Circ |-> "none"]
  /\ marked = [c \in Circ |-> FALSE]
  /\ pchan = [c \in Circ |-> FALSE]
  /\ entry = [c \in Circ |-> FALSE]
  /\ onions = <<>>
  /\ entries = 0
  /\ Pool!WPInit
  /\ total = 0
  /\ max \in MaxTasks

Create(c) ==
  \/ CreateRefused(c) \/ CreateFast(c) \/ CreateTask(c)
  \/ CreateWaits(c) \/ CreateNoRoom(c)

CloseOne(c) == CloseFree(c) \/ CloseCancels(c) \/ CloseDead(c)

Worker(c) == WorkerBegins(c) \/ WorkerFinishes(c)

Next ==
  \/ \E c \in Circ :
       \/ Create(c) \/ Reply(c) \/ Mark(c) \/ LosePChan(c)
       \/ CloseOne(c) \/ Worker(c)
  \/ Dispatch \/ DispatchDone \/ CloseMarked
  \/ Consensus \/ CpuworkerInit \/ CircuitFreeAll \/ ClearPendingOnions

Spec == Init /\ [][Next]_vars

(* The pool works on what it has, the main thread gets to the replies, the  *)
(* marked circuits, the end of its loops and of tor_free_all; nobody has to *)
(* connect, to hang up or to stop Tor.                                      *)
FairSpec ==
  /\ Spec
  /\ WF_vars(Dispatch) /\ WF_vars(DispatchDone) /\ WF_vars(CloseMarked)
  /\ WF_vars(\E c \in Circ : CloseOne(c)) /\ WF_vars(ClearPendingOnions)
  /\ \A c \in Circ : WF_vars(Reply(c)) /\ WF_vars(Worker(c))

-----------------------------------------------------------------------------
(* Properties                                                               *)

(* total_pending_tasks counts the jobs that are in the pool, plus the ones  *)
(* that were in it when an earlier run of Tor in this process ended.  The   *)
(* assertions that it is positive before it is decremented follow.          *)
CountIsJobs == total = Cardinality(Jobs)

(* A worker or a reply never has a job whose circuit is gone: a circuit in  *)
(* use points to its job exactly while the pool has it, and a dead one is   *)
(* always still awaited by the reply that frees it.                         *)
CircuitOutlivesJob ==
  \A c \in Circ :
    /\ Live(c) => (entry[c] <=> HasJob(c))
    /\ HasJob(c) => Live(c) \/ circ[c] \in {"dead", "leaked"}
    /\ circ[c] = "dead" => HasJob(c)

(* The queue of onionskins holds each circuit once at most and, until       *)
(* tor_free_all frees the circuits, only ones that are pending and have no  *)
(* job.  From circuit_free_all to clear_pending_onions it does hold freed   *)
(* ones, and the claim leaves that stretch out.                             *)
WaitingIsPending ==
  /\ mpc # "freeing" => \A c \in Waiting : circ[c] = "pending" /\ stage[c] = "new"
  /\ \A i, j \in DOMAIN onions : onions[i] = onions[j] => i = j

(* ol_entries is the length of the list, however entries leave it (taken,   *)
(* culled, unlinked with their circuit): have_room_for_onionskin decides by *)
(* it, and nothing would ever correct it.                                   *)
EntriesCounted == entries = Len(onions)

(* The pool has a place, and onionskins wait for one.                       *)
Idle == mpc = "events" /\ onions # <<>> /\ total < max

(* Waiting onionskins are left beside a free place only when a circuit is   *)
(* closed (its cancelled job gives up the place and nobody is called up) or *)
(* when the consensus raises the limit; never by a reply.                   *)
IdleOnlyByClose ==
  [][~Idle /\ Idle' => mpc = "closing" \/ max' > max]_vars

(* The pool is given a job only while it has fewer than max_pending_tasks,  *)
(* the ones that an earlier run of Tor left in its pool included: what the  *)
(* counter says, however often it has been corrected, is what is there.     *)
LimitKept ==
  [][\A c \in Circ : ~HasJob(c) /\ HasJob(c)' => Cardinality(Jobs) < max]_vars

(* As long as no job is cancelled, and no earlier run of Tor has left jobs  *)
(* counted, every onionskin that waits leaves the queue, by a reply's       *)
(* queue_pending_tasks at the latest.                                       *)
WaitingServed ==
  \A c \in Circ :
    c \in Waiting ~>
      \/ c \notin Waiting
      \/ \E d \in Circ : stage[d] = "cancelled" \/ circ[d] = "leaked"

(* The memory of a circuit that died with its job in the pool is freed, as  *)
(* long as Tor runs.                                                        *)
DeadFreed == \A c \in Circ : circ[c] = "dead" ~> circ[c] \in {"freed", "leaked"}
=============================================================================
