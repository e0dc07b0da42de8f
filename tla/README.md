# A TLA+ development for go-libtor

go-libtor compiles Tor, libevent, OpenSSL and zlib into a Go package and lets a
Go program run Tor on a goroutine of its own process. This directory models the
parts of it where the program's own logic lies: the Go type that owns an embedded
Tor, the C configuration object behind it, the shutdown of Tor that the pair
drives, the worker pool that an embedded Tor starts and has to stop, and the
generator that produces the package from four upstream repositories.

Paths below are relative to the repository; `tor/` is short for
`linux/tor/src/`.

## Inventory

| Component | State it keeps | Operations | Talks to |
|---|---|---|---|
| Embedded process API, `libtor/libtor.go` | `conf`, `args`, channel `done`, context | `New`, `Start`, `Wait`, `EmbeddedControlConn` | C API by cgo; its goroutine runs Tor; the collector finalizes its `os.File` |
| C API, `tor/feature/api/tor_api.c` | `tor_main_configuration_t`: argument vectors, owning socket | new, set_command_line, setup_control_socket, free | read by `tor_run_main` |
| Tor main thread, `tor/app/main/main.c`, `shutdown.c`, `tor/feature/control/control.c` | the connection array, `main_loop_should_exit`, the whole of Tor's globals | `tor_run_main`, `process_signal`, `tor_cleanup`, `control_connection_add_local_fd`, `connection_control_closed` | the owning control socket, the worker pool |
| Work queue, `tor/lib/evloop/workqueue.c` | three work queues, reply queue, update arguments and generation, per-thread state | queue, cancel, update, `worker_thread_main`, `queue_reply`, `replyqueue_process` | libevent by an alert socket |
| Pool start and stop, same file | `control_lock`, `exit`, two static variables | `threadpool_new`, `threadpool_stop_threads`, `threadpool_free_` | called by `cpuworker_init` and, at shutdown, by `tor_free_all` |
| Alert sockets, `tor/lib/net/alertsock.c` | a pipe, socketpair or eventfd | alert, drain | kernel |
| Threads, `tor/lib/thread/compat_pthreads.c` | none | `tor_cond_wait`, signals | pthreads |
| CPU worker client, `tor/core/mainloop/cpuworker.c`, `tor/feature/relay/onion_queue.c` | pending-task count and limit, the queue of onionskins and its count | `assign_onionskin_to_cpuworker`, replies, `queue_pending_tasks`, cancel, `onion_pending_add`, `onion_pending_remove` | the pool; circuits, which `command.c` creates and `circuitlist.c` closes |
| Hibernation and signals, `tor/feature/hibernate/hibernate.c` | hibernation state, shutdown timer | SIGINT, grace period | the main loop |
| Generator, `build/wrap.go` | the working tree, `lock.json` | `main`, `wrapZlib`, `wrapLibevent`, `wrapOpenSSL`, `wrapTor`, `latestXTag` | git, make, the go tool, people who edit `lock.json` |
| Generated and vendored code | - | - | compiled, not changed |

What makes each of them hard, and what would make it right:

* **Embedded process.** Four actors (the program, the goroutine, Tor's thread on
  it, the garbage collector) share descriptor *numbers*, which the kernel hands
  out again. Right means: the configuration and the arguments outlive every read
  by Tor, at most one Tor runs, no descriptor stays behind however early Tor
  fails, the control connection the program holds is served (with several
  instances the code does not quite keep this), losing it ends Tor,
  and nobody has to call `Wait` for the memory to be freed.
* **Work queue.** Signals wake one thread and any running thread may take the
  job; the reply side is a queue plus a level-triggered descriptor. Right means
  that no wake-up is lost on either side, that a job is cancelled or run and
  answered, once, and that every thread sees the last update.
* **Pool start and stop.** Two handshakes on one lock, a condition variable
  shared by two waits, a 30-second time-out, and static variables that outlive
  the pool. Right means that the pool is freed after its threads have left, and
  that a stop ends.
* **CPU worker client.** A circuit, its entry on the queue, its job in the pool
  and the two counters are kept in step by hand, by six functions in four files,
  while workers take and finish jobs at any moment and circuits are closed from
  anywhere. Right means that the counters count, that a job never outlives the
  memory it points to and a dead circuit always gets the reply that frees it, and
  that onionskins do not wait beside a free place.
* **Generator.** A run is nineteen steps each of which may fail, over a tree
  earlier runs and people have shaped. Most failures end the run and leave the
  tree as it is; those of writing wrappers, headers and `lock.json`, and of
  removing `libtor/`, are not looked at. Right means that a run that ends well
  leaves everything at the commits it chose except for what it could not write
  itself, that nothing an earlier run left undone shows, and that `lock.json`
  moves only to the commits of the tree.
* **Version tags.** git lists tags by name and versions order differently;
  parts may be missing and prereleases tie.

`PROJECT.json` lists the hazards one by one, at their lines.

## Modules

| Module | Models | State and actions |
|---|---|---|
| `Embed` | `libtor.go`, `tor_api.c`, the slice of `main.c`, `shutdown.c` and `control.c` the embedding sees | one record per instance, spread over functions; `fdtab` is the process's descriptor table. `New`, `ControlConn`, `Start`, `StartFails`, `Wait*` are the Go calls; `Tor*` are the steps of `tor_run_main`; `SendCode`, `FreeConf`, `FreeArgv` are the goroutine's send and its two defers in their order; `FinalizeFile` is the collector; `OpenOther` and `CloseOther` are the rest of the program |
| `MCEmbed` | - | the symmetry of instances |
| `Process` | what `process.Process` and `tor_api.h` promise about the instances of a process | `phase`, `told`, `storage` of each instance; `Begin`, `Run`, `End`, `Tell`, `Release` |
| `EmbedProofs` | - | theorems about `Embed` |
| `WorkPool` | what `threadpool_queue_work_priority` and `workqueue_entry_cancel` promise | `stage` of each job |
| `WorkQueue`, `WorkQueueProofs`, `WorkQueueRefinement` | `workqueue.c` while the pool is up | each critical section is one action; job functions, update functions, reply functions and the gap between the reply queue's lock and the alert lie between actions |
| `CpuWorker`, `CpuWorkerProofs` | `cpuworker.c`, `onion_queue.c`, the slice of `command.c` and `circuitlist.c` that creates and closes the circuits of handshakes | built on `WorkPool` (`stage` of the circuit's one job). `circ`, `marked`, `pchan`, `entry` are the circuit; `onions`, `entries` the queue and `ol_entries`; `total`, `max` the static counters. `Create*` are the ways through `command_process_create_cell`, `Reply` the reply function, `Dispatch` one turn of `queue_pending_tasks`, `Close*` what `circuit_about_to_free` and `circuit_free_` do by the state of the job; `CircuitFreeAll` and `ClearPendingOnions` are the two parts of `tor_free_all` that matter here, in their order |
| `QueueLemmas` | - | what removing, appending and cutting does to a sequence without repetitions |
| `PoolLife`, `PoolLifeProofs` | `workqueue.c`, start, exit and free | `control` and `plock` are the holders of the two locks; `running` and `owner` are the static variables and are left as they are by `Launch`. Jobs and updates are counted only: what matters is whether a thread is inside one when the pool is stopped (`TakeUpdate` comes before `TakeJob`, and after either the thread looks for more work, not at `exit`) |
| `WrapGen`, `WrapGenProofs` | `build/wrap.go` | `Plan` is the order of `main`; one action per kind of step; `Panic` ends a run anywhere, with part of the step done; `PassOver` is an error at one of the `Unchecked` places, after which the run goes on |
| `VersionTags`, `VersionTagsProofs` | the `latestXTag` scans | `Scan` is one turn of the loop, for any tag not yet seen |

Abstractions worth knowing:

* Descriptions behind descriptors are `AppEnd(i)`, `TorEnd(i)`, `OtherFile` and
  `Closed`. `CloseFd` closes a *number*, as the code does.
* `ownedArg` says whether the two `cfg_add_owned_arg` calls both succeeded, one
  of them, or none; `OwnedArgs` picks the outcomes a run considers.
* Clients of `Embed` connect before `Start`, and start the next instance only
  with the exit code of the last in hand, as `tor_api.h` asks. `WaitMeansTerminated`
  is about clients that trust any return of `Wait` instead.
* `WorkQueue` treats `Drain` (which reads the alert descriptor until it is empty)
  as one step, and a priority choice as any nonempty queue, since the dice of
  `worker_thread_extract_next_work` may pass over a higher one.
* `CpuWorker` takes the pool at its word: it uses `WorkPool`, which `WorkQueue`
  implements. A circuit never has two jobs, so a job is named by its circuit. Of
  the three queues only NTOR's is modelled: TAP is refused before the queue, and
  FAST is answered at once. The main thread runs its loops (`closing`,
  `dispatching`) to their end before it takes the next event; workers move in
  between. How long an onionskin has waited is abstracted: any number of the
  oldest may be culled when one is added, and with `Room` or more in the queue
  there may be no room. A circuit whose job is in the pool when Tor ends stays
  `leaked`, with its place in `total_pending_tasks`.
* In `PoolLife` the variable `calm` is drawn once. In calm behaviours condition
  waits end on signals only, the start does not time out, and a pool is stopped
  only when its threads are in their loop; otherwise the start may time out,
  condition waits may end spuriously and a stop may come at once. The code
  ensures none of the three. `FreedAfterExit` and `AllStarted` are about calm
  behaviours only: a pool that is stopped before any thread holds `control_lock`
  is freed under all of them. `ControlHeldToTheLast` is not: it says what holds
  in every behaviour from the moment a thread has the lock. After
  `Free` no step of a thread of the old pool is modelled. Cancels are left out
  (they only take jobs off the queue).
* In `WrapGen` a commit stands for all its files: one C file that all commits
  have and one of its own. `Publish` adds a commit upstream, `EditLock` edits
  `lock.json`, `RepairLock` replaces one that is cut off, `Restore` puts hand-made
  files back, as `PATCHES.md` says to do. `failed` names the places where the
  run has passed over an error: `("clean", "all")` the removal of `libtor/`,
  `("wrap", l)` a Go file, `("config", l)` a header, `("save", "all")` `lock.json`.
  A failed write may leave the old file (a header, `lock.json`) or one that is cut
  off; a wrapper that is cut off counts as missing. Of a `libtor/` that could not be
  removed any part may be left (as a bound, the same part of each library); a
  `linux/` that could not be removed makes `git clone` fail. `fresh` says that the
  run builds with nothing in the build cache: only then does the build need every
  included file, since `go build` does not look at included C files and headers
  when it has cached the package (`PATCHES.md`).

## What the runs check

| Run | Checks | Bounds |
|---|---|---|
| `EmbedSafety` | the configuration and its arguments outlive Tor; one Tor at a time; no descriptor leaked; the control connection served, or its loss under way, or its number closed by another instance's configuration | 2 instances, 5 descriptors: enough for both socketpairs with one number reused, for a full table at any point of `EmbeddedControlConn`, and for a foreign file between two closes |
| `EmbedLive` | a lost controller ends Tor; the goroutine's cleanup completes; `Wait` returns; implements `Process` | 2 instances, 4 descriptors, contexts that do not end |
| `EmbedWait` | violated: `Wait` returned, Tor runs | 2 instances, 3 descriptors |
| `EmbedOwned` | violated: the deferred free closes another file | 2 instances, 4 descriptors |
| `WorkQueue` | no reply left behind; a sleeping worker is not needed; updates neither lost nor run without argument; implements `WorkPool`; jobs settle; updates arrive; at rest nothing is left to do | 3 jobs, one of them fatal to its worker, 2 workers, 2 updates, 2 of the 3 priorities |
| `CpuWorker` | the count of tasks and its limit; no job without its circuit's memory; the queue holds pending circuits without a job, until `tor_free_all` frees them; `ol_entries` is its length; no reply leaves onionskins beside a free place; what waits is served; dead circuits are freed | 3 circuits, limits 1 and 2, `Room` 1, 2 lives: one circuit can have the place, one wait and one be added or closed, the limit can move past the number of tasks both ways, and a second life can begin with a place taken |
| `PoolLife` | freed after exit and all threads started, in calm behaviours; `control_lock` held to the last; a stop ends if the pool was given nothing, or once no thread is in, or just out of, a job or an update, or asleep; any other waits for a sleeping thread only | one pool, 3 threads, 2 jobs or updates |
| `PoolRestart` | violated: the second pool is freed under its threads | 2 pools, 2 threads, 3 identifiers |
| `PoolStop` | violated: a stop while a job or an update runs never ends | one pool, 2 threads, 1 job or update |
| `WrapGen` | consistent tree after a run that ended well, but for what it failed to write itself; `lock.json` follows the tree or is torn; Tor stays pinned | 2 runs, 2 commits, 1 error passed over in each run: the first may fail anywhere or end well with a part unwritten, and lock and hand-made files may be edited, before one that ends well |
| `WrapStale` | violated: wrappers of files that are gone | 2 runs, 2 commits |
| `VersionTags` | the result is a best tag | versions of up to 3 parts over {0, 1}, 4 labels, 3 tags, every order |

Deadlock is not checked: every one of these systems may come to rest (no more
calls, no more jobs, no more runs, all tags scanned).

### What the violations say

* `Wait` returns when its context ends, and nothing stops Tor then, though its
  comment says it blocks until the embedded process terminates.
* `tor_main_configuration_free` closes the owning socket's number, which Tor
  closed itself when the connection ended. In between the program, or the next
  instance, may have been given that number. The same reuse is why
  `LostControllerEndsTor` and `ControlConnServed` excuse a Tor whose descriptor
  somebody else closed.
* The two static variables of `worker_thread_main` keep the first pool's values.
  In the second pool nobody takes `control_lock`, and the pool is freed while
  its threads still use it. Several Tors one after another in one process is
  what this package is for.
* A worker that runs a job or an update while the pool is stopped finds no more
  work and sleeps without looking at `pool->exit`; the stop waits for it for ever.
* A generator run without `-update` does not remove `libtor/`, so wrappers of C
  files that the commit in an edited `lock.json` no longer has stay, and the
  build fails on them.

## Fairness

`Embed` has weak fairness for the steps of threads that can run: Tor's start,
the loop's delivery of an end of file or a signal, its cleanup, the goroutine's
last steps, and a `select` with something to receive. The program is never
obliged to call, to close or to wait, Tor never obliged to stop by itself, and the collector never to run.
Weak fairness for `TorCleanup` stands for `tor_free_all` coming to an end, which
`PoolStop` shows to need that no worker runs a job at that moment; the two
modules are not composed.

`WorkQueue` has weak fairness for the main thread's event loop and for every
worker: job, update and reply functions return, and the scheduler starves
nobody. Callers and spurious wake-ups have none. `EveryJobSettles` needs one
worker that survives, which holds with one fatal job and two workers.

`CpuWorker` has weak fairness for the main thread's loops, for taking each reply,
and for the pool's work on each job (what `WorkQueue` shows of a pool with a
surviving worker). Nobody has to create or close a circuit, and Tor need not end.
`WaitingServed` excuses the two ways in which the code does leave onionskins
waiting: a cancelled job gives up its place without calling up the queue, and the
jobs left behind by an earlier life keep their places for good.

`PoolLife` has weak fairness for every thread's own steps and for the main
thread's `StartDone`, `StopFailed` and `Free`; nobody is obliged to queue or to stop.

`WrapGen` and `VersionTags` are checked for safety only.

## What is proved

`EmbedProofs` proves, for every set of instances, every descriptor table,
every outcome of the argument calls and every choice of cancellable contexts
(assumptions `FdAssumption`, `OwnedArgsAssumption`, `CancellableAssumption`):

* `TypeCorrect`;
* `ConfOutlivesTorHolds` and `OneTorAtATimeHolds`, from `Life` (how far the
  goroutine has come fixes configuration, arguments and channel) and
  `OnePending` (at most one channel has not been drained, which is what a client
  keeps to; without it `OneTorAtATime` is not inductive, since nothing in
  `tor_run_main` itself refuses a second call);
* `NoDescriptorLeakHolds`, from `Holders`: every number that refers to an end of
  a pair is held by the configuration, Tor, the `os.File` or the connection.
  The step that needs care is `FreeConf`, which closes a number that may be
  somebody else's by then;
* `ControlConnServedHolds`, from `Adopted` and `Holders`: a socket Tor was told
  about is in the configuration until Tor adopts it and Tor's connection from
  then on, and the only number that can be Tor's end of the pair is that one. So
  Tor serves it, or leaves, or the number was closed under Tor (`Robbed`), which the
  `FreeConf` of another instance can do: its number may be one that the kernel has
  handed out again. `AloneNotRobbed` shows that with one instance nobody does,
  from `SoleOwn`: until its configuration is freed every number a lone instance
  holds is what it was opened as, except `ocs` once Tor has closed it;
* `ImplementsProcess`: with an instance's phase read off from its goroutine
  (`Phases`), its exit code from the channel (`Told`) and its storage from the two
  defers (`Storages`), every behaviour is one of `Process`. On top of `Life` and
  `OnePending` it needs `Frees`: memory is freed only once the goroutine is past
  `tor_run_main`, and the arguments after the configuration;
* `SendNeverBlocks`: the channel has room when the goroutine sends, so its defers
  run whether or not anybody waits. This is the safety half of `CleanupCompletes`;
* two theorems that draw the line at which the violated runs begin.
  `WaitMeansTerminatedWithout`: `Wait` means what its comment says for every
  instance whose context does not end. `UnadoptedSocketIsOwn`: where no Tor
  adopts a socket, every number has one holder and still is what that holder
  opened (`HoldsOwn`), so the free of the configuration closes its own. What
  `EmbedOwned` finds thus comes from the second owner alone.

`WorkQueueProofs` proves, for every set of jobs, workers and priorities and any
number of updates (assumption `WorkAssumption`):

* `TypeCorrect`, which needs `HasJob` (a running worker has an entry in hand) to
  be inductive, because `QueueReply` appends that entry;
* `NoLostReplyHolds`: `NoLostReply` is inductive over typed states. The two steps that
  matter are `QueueReply` (the worker that finds the queue empty is the one that
  goes on to the alert) and `PopAnswer` (the main thread leaves only on an empty queue);
* `UpdatesNotLostHolds`, with `NotAhead` (no worker is ahead of the pool's
  generation, so a new generation is new to every worker).

`WorkQueueRefinement` proves, under the same assumption:

* `ImplementsWorkPool`: every behaviour of `WorkQueue`, with each job's stage read
  off from where its entry is (`Stages`), is one of `WorkPool`. The inductive
  invariant behind it says that an entry is in one place at a time: on one queue,
  once; in one worker's hand; on the reply queue, once; or with the main thread.
  Each action then moves one entry by one place, which is a step of `WorkPool`, or
  none, which is a stutter. This is what entitles `CpuWorker` to use `WorkPool`;
* `SleepersNotNeededHolds`, for finite sets of jobs and workers: a count. A
  signal that is sent reaches a sleeper or there is none, and a worker that takes
  a job meant for another leaves one job less;
* `RestIsDoneHolds`, likewise for finite sets: from the two lost-wake-up invariants
  of both sides together. When main thread and workers are all at rest, nobody is
  awake, so by the count no job waits; by `NoLostReply` no answer does; and a
  worker that sleeps has applied the last update. This is the safety half of
  `EveryJobSettles` and `UpdatesArrive`: what remains for them is that threads
  which can run do.

`CpuWorkerProofs` proves, for every finite set of circuits, every set of limits
and any number of lives (`CircAssumption`, `LimitAssumption`):

* `TypeCorrect`, `CountIsJobsHolds`, `CircuitOutlivesJobHolds`,
  `WaitingIsPendingHolds` (the queue between `CircuitFreeAll` and
  `ClearPendingOnions` excepted, when it does hold freed circuits) and
  `EntriesCountedHolds`, from one invariant `IInv`
  that is their conjunction with two facts about circuits not yet created
  (`Unborn`) and about marks (`MarkedLive`: a marked circuit's memory is there).
  None of the parts is inductive alone: that a cancelled task may be counted off
  needs that a circuit points to its job exactly while the pool has it, and that
  a waiting circuit has no job needs that it is on the queue once;
* `IdleOnlyByCloseHolds`, an action property: of all steps only the closing of a
  circuit and a raised limit can leave onionskins beside a free place. It needs
  `DownEmpty` (nothing waits when Tor is not running);
* `LimitKeptHolds`, an action property: a job is given to the pool only while the
  *number of jobs*, not only the counter, is below the limit. It is `CountIsJobs`
  before the step that matters;
* `PendingPositive`: the two `tor_assert`s on `total_pending_tasks`
  (`cpuworker.c:380` and `:681`) never fail;
* `StarvedStaysHolds`: the jobs left behind by earlier lives only become more
  (`LeftJobs`, `LeftGrows`), and once they take up every place no circuit is given
  to the pool until the consensus raises the limit. This is why `WaitingServed`
  has to excuse them.

`PoolLifeProofs` proves, for every finite set of threads, any number of jobs and
updates and any number of pools one after another (`PoolAssumption`):

* `TypeCorrect`, from `CInv`: what the count of running threads counts (`CountOK`:
  those that have confirmed and not left, and the first owner, which leaves without
  taking itself off and is left over for every later pool), who may hold the locks
  (`LockOK`, `OwnerOK`), that the owner's identifier belongs to one thread
  (`TidsDiffer`), and what the statics are in later pools (`LaterOK`);
* `AllStartedHolds` and `FreedAfterExitHolds`, for the first pool of a process
  (`run <= 1`), however many follow, in calm behaviours only. They rest on
  `CalmInv`: there the owner holds `control_lock` from its start until the others
  have gone (`StartOK`, `EndOK`). Without `calm` both fail, for the reasons given
  above; nothing is claimed for a stop before the threads are in their loop;
* `ControlHeld`, calm or not: in the first pool the thread that holds `control_lock`
  gives it up as the last to leave, once all have confirmed. The owner polls a
  count, and `CountOK` says that the count is right;
* `LaterPoolUnguarded`: from the second pool on nobody *ever* holds `control_lock`,
  and a thread that is given the first owner's identifier never leaves. So
  `PoolRestart` shows the rule, not a rare interleaving;
* `SleeperBlocksStop`: a thread of the first pool that sleeps once `exit` is set
  sleeps for ever, and the stop with it, which is the end state of `PoolStop`;
* `StopNotStuckHolds`: in every pool, calm or not, a sleeping thread is the only
  thing that can hold up a stop: otherwise the main thread or some thread has its
  next step. It needs `HolderOK` (the pool's lock is held outside a critical section
  only by a thread about to look at the start) and `OtherCounted` (an owner that has
  to wait waits for a thread that is still there). This is the safety half of
  `IdleStopCompletes`.

`WrapGenProofs` proves, for any number of commits and runs (`WrapAssumption`):

* `TypeCorrect`, `ConsistentHolds`, `LockFollowsTreeHolds`, `TorPinnedHolds`, for
  any number of errors passed over in a run. The invariant (`Progress`) says for
  each library what is established once its checkout, its wrap and its
  configuration lie behind the run, each unless its place is in `failed`, and
  relies on the order of `Plan`: no later step touches what an earlier one has done
  (`Placed`, `Order`). What the two about the tree say is thus how far the damage of
  an ignored error reaches: the part it hit, for the run it hit it in;
* `UpdateLeavesNoStale`: `NoStaleWrapper`, which `WrapStale` finds violated, holds
  after every update that could remove `libtor/`: later steps add only wrappers of
  files that are there (`UpdateClean`);
* `FreshBuildNeverEndsWell`: a run that builds with nothing in the build cache never
  ends well, since it removes hand-made files the compiler needs and nobody puts them
  back before it is over (`HandsOff`). With a warm cache a run may pass, and
  nothing is claimed.

`VersionTagsProofs` proves that the scan keeps a matching tag (`TypeCorrect`) and
a best one (`BestSeenHolds`) for every set of parts and labels and every order
of the scan. The lemmas show `Below` to be a strict order that does not depend on
how far the comparison looks (`BelowAnywhere`), and `Same` to agree with it.
`OrderDecidesTies` adds that two scans of the same tags can differ in tied tags
only, and that OpenSSL's are never tied. It needs that two versions are comparable
(`Trichotomy`): the first part in which they differ exists, by the least-number
principle (`LeastNumber`), which the library's well-founded relations give without
an induction theorem over a formula.

Each inductive part was first checked by TLC on the instances above. All
invariants of the passing runs, both refinements and the action properties are
proved. Only model-checked are the liveness properties (`LostControllerEndsTor`,
`CleanupCompletes`, `WaitReturns`, `EveryJobSettles`, `UpdatesArrive`,
`IdleStopCompletes`, `WaitingServed`, `DeadFreed`): fairness is stated with
`ENABLED`, which the prover does not handle. What the violated runs show is shown by
their traces.

## What is not modelled

* `hibernate.c`: an embedded Tor meets it only as one more reason for its loop to
  end (`TorStops`), and its statics are reset at the end. The rest is timers over
  byte counts and wall-clock time.
* The other clients of the pool (consensus diffs, onion-service proof of work),
  which rely on the same promise of `WorkPool`: their own tables of work in progress
  are not modelled, nor are the time statistics of `cpuworker.c`. The update that rotates the workers' onion keys is
  an update of `WorkQueue`.
* The rest of the order inside `tor_free_all`. Of the stretch between
  `circuit_free_all` and `clear_pending_onions`, in which the queue of onionskins
  points to freed circuits, `CpuWorker` has the states but no property: emptying the
  queue writes to those circuits (listed among the hazards), and no comment in the
  repository states an order to hold it against.
* A composition of `Embed` with the pool's life, in which `TorCleanup` hangs when
  the pool does: `PoolStop` and `PoolRestart` show what it would meet.
* What Tor does inside its loop, and the vendored libraries.
* A call of `EmbeddedControlConn` after `Start` (a data race), memory errors that
  leave no state (`New` without memory followed by a connection), entries that
  leak when a pool is freed.
* Errors of the alert descriptor, which the code ignores (listed among the hazards).
* The text that the generator writes, and the OpenSSL version header. The files
  that `main` itself writes from templates (entry points, preamble, README) carry no
  commit and are left out. `config/tor/micro-revision.i`, which `wrapTor` copies as
  it is, is kept by hand (`PATCHES.md`) and is not part of `config`.

## Where comment and code part

Met while modelling, without a run of their own:

* `decide_next_handshake_type` (`tor/feature/relay/onion_queue.c`) is said to load
  balance across the queues; it always returns NTOR, the only queue in use.
* The comment on destroy cells in `tor/core/or/command.c` lets the cell's handler
  call `onion_pending_remove`; the handler only marks the circuit, and
  `circuit_about_to_free` takes it off the queue later. In between the circuit may
  still be given to the pool, which `CpuWorker` includes (`Dispatch` does not look at
  `marked`).

## Order of work

The modules were written in the order `Embed`, `WorkPool`, `WorkQueue`,
`PoolLife`, `WrapGen`, `VersionTags`, `CpuWorker`, `Process`; proofs followed the
first passing run of each. Next would be the composition of `Embed` with
`PoolLife`.
