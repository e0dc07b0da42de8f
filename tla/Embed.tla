------------------------------- MODULE Embed -------------------------------
(***************************************************************************)
(* The life of embedded Tor instances inside one Go process: the Go type   *)
(* embeddedProcess (libtor/libtor.go), the C configuration object it wraps *)
(* (feature/api/tor_api.c) and the part of tor_run_main that the pair      *)
(* drives: adopting the owning control socket, leaving the main loop when  *)
(* that socket reports end of file, and the shutdown path.                 *)
(*                                                                         *)
(* Actors: the Go program that uses the package (its calls come in any     *)
(* order the guards below allow), the goroutine that Start launches, the   *)
(* Tor main thread, which runs on that goroutine inside tor_run_main, and  *)
(* the garbage collector, which finalizes os.File values.                  *)
(*                                                                         *)
(* Descriptor numbers are shared by all of them.  The kernel hands out the *)
(* lowest free number, so a number that was closed is soon used again.     *)
(***************************************************************************)
EXTENDS Naturals

CONSTANTS
  Inst,         \* the embeddedProcess values the program creates
  Fd,           \* descriptor numbers the process may hold (RLIMIT_NOFILE)
  NoFd,         \* TOR_INVALID_SOCKET, and the absence of a descriptor
  OwnedArgs,    \* outcomes of the two cfg_add_owned_arg calls: see ControlConn
  Cancellable   \* the instances created with a context that can end

ASSUME FdAssumption == Fd \subseteq Nat /\ NoFd \notin Fd

ASSUME OwnedArgsAssumption == OwnedArgs \subseteq {"fd", "broken", "none"}

ASSUME CancellableAssumption == Cancellable \subseteq Inst

VARIABLES
  conf,      \* conf[i]: the tor_main_configuration_t of i
  ocs,       \* ocs[i]: conf[i]->owning_controller_socket
  ownedArg,  \* ownedArg[i]: what conf[i]->argv_owned tells Tor
  argv,      \* argv[i]: the C char array that Start allocates
  done,      \* done[i]: the channel e.done, capacity one
  waiter,    \* waiter[i]: the caller of Wait
  ctx,       \* ctx[i]: the context given to New
  tor,       \* tor[i]: where the goroutine, and Tor on it, stands
  torConn,   \* torConn[i]: the descriptor of Tor's owning control connection
  sigterm,   \* sigterm[i]: lost_owning_controller has activated SIGTERM
  fdtab,     \* fdtab[f]: the file description that number f refers to
  goFile,    \* goFile[i]: the os.File of EmbeddedControlConn, until finalized
  goConn,    \* goConn[i]: the net.Conn of EmbeddedControlConn, until closed
  other      \* a descriptor the Go program holds for purposes of its own

clientVars == <<waiter, ctx, goFile, goConn, other>>
confVars == <<conf, ocs, ownedArg, argv>>
torVars == <<tor, torConn, sigterm>>
vars == <<confVars, done, clientVars, torVars, fdtab>>

-----------------------------------------------------------------------------
(* Types                                                                    *)

(* The two ends of the socketpair of i, the program's own files, nothing.   *)
AppEnd(i) == <<"app", i>>
TorEnd(i) == <<"tor", i>>
OtherFile == <<"other">>
Closed == <<"closed">>

Description == {AppEnd(i) : i \in Inst} \cup {TorEnd(i) : i \in Inst}
                 \cup {OtherFile, Closed}

(* Tor's thread is between the entry and the exit of tor_run_main.          *)
InTorRunMain == {"init", "adopted", "loop", "cleanup"}

(* The goroutine of Start holds the configuration: before its deferred free *)
HoldsConf == {"spawned", "returned", "sent"} \cup InTorRunMain

(* tor_run_main has returned.                                               *)
TorIsOver == {"returned", "sent", "confFreed", "over"}

TorState == {"idle", "confFreed", "over"} \cup HoldsConf

TypeOK ==
  /\ conf \in [Inst -> {"unborn", "null", "live", "freed"}]
  /\ ocs \in [Inst -> Fd \cup {NoFd}]
  /\ ownedArg \in [Inst -> {"fd", "broken", "none"}]
  /\ argv \in [Inst -> {"none", "alloc", "freed"}]
  /\ done \in [Inst -> {"nil", "empty", "filled", "drained"}]
  /\ waiter \in [Inst -> {"out", "in", "gotCode", "gotCtx"}]
  /\ ctx \in [Inst -> {"open", "cancelled"}]
  /\ tor \in [Inst -> TorState]
  /\ torConn \in [Inst -> Fd \cup {NoFd}]
  /\ sigterm \in [Inst -> BOOLEAN]
  /\ fdtab \in [Fd -> Description]
  /\ goFile \in [Inst -> Fd \cup {NoFd}]
  /\ goConn \in [Inst -> Fd \cup {NoFd}]
  /\ other \in Fd \cup {NoFd}

-----------------------------------------------------------------------------
(* Descriptors                                                              *)

FreeFds == {f \in Fd : fdtab[f] = Closed}

(* POSIX: the lowest number not in use; empty when the table is full.       *)
Lowest(S) == {f \in S : \A g \in S : f <= g}

(* Mutant of CloseFd: the slot is left holding the invalid-socket marker.   *)
CloseFdMarks(f) == IF f \in Fd THEN [fdtab EXCEPT ![f] = NoFd] ELSE fdtab

(* close(2) of the number f; closing a number not in use is EBADF.          *)
CloseFd(f) == IF f \in Fd THEN [fdtab EXCEPT ![f] = Closed] ELSE fdtab

(* No number refers to the description d any more: its peer reads EOF.      *)
Gone(d) == \A f \in Fd : fdtab[f] # d

-----------------------------------------------------------------------------
(* The Go program: embeddedProcess                                          *)

(* Creator.New: malloc may fail, and New does not look at the result.       *)
New(i) ==
  /\ conf[i] = "unborn"
  /\ \E r \in {"live", "null"} : conf' = [conf EXCEPT ![i] = r]
  /\ UNCHANGED <<ocs, ownedArg, argv, done, clientVars, torVars, fdtab>>

(* EmbeddedControlConn, first call.  socketpair gives fds[0] to the program *)
(* and fds[1] to Tor; net.FileConn duplicates fds[0], and fails when no     *)
(* number is left, after the socketpair and the arguments have been set up. *)
(* The results of cfg_add_owned_arg are ignored: both arguments are there   *)
(* ("fd"), one is missing ("broken"), or both are ("none").                 *)
(* A second call finds the socket set and changes nothing.  Clients call it *)
(* before Start (a later call would race with tor_run_main reading conf).   *)
ControlConn(i) ==
  /\ conf[i] = "live" /\ tor[i] = "idle" /\ ocs[i] = NoFd
  /\ \E a \in Lowest(FreeFds) : \E b \in Lowest(FreeFds \ {a}) :
       LET rest == Lowest(FreeFds \ {a, b})
           pair == [fdtab EXCEPT ![a] = AppEnd(i), ![b] = TorEnd(i)]
       IN  /\ ocs' = [ocs EXCEPT ![i] = b]
           /\ goFile' = [goFile EXCEPT ![i] = a]
           /\ \/ /\ rest = {}
                 /\ fdtab' = pair
                 /\ UNCHANGED goConn
              \/ \E c \in rest :
                   /\ fdtab' = [pair EXCEPT ![c] = AppEnd(i)]
                   /\ goConn' = [goConn EXCEPT ![i] = c]
  /\ \E r \in OwnedArgs : ownedArg' = [ownedArg EXCEPT ![i] = r]
  /\ UNCHANGED <<conf, argv, done, waiter, ctx, other, torVars>>

(* Start.  tor_api.h allows one tor_run_main at a time; the program keeps   *)
(* to it by starting i only when Wait has given it the exit code of every   *)
(* instance it started before.                                              *)
Start(i) ==
  /\ conf[i] = "live" /\ done[i] = "nil"
  /\ \A j \in Inst \ {i} : done[j] \in {"nil", "drained"}
  /\ argv' = [argv EXCEPT ![i] = "alloc"]
  /\ done' = [done EXCEPT ![i] = "empty"]
  /\ tor' = [tor EXCEPT ![i] = "spawned"]
  /\ UNCHANGED <<conf, ocs, ownedArg, clientVars, torConn, sigterm, fdtab>>

(* Start when New had no memory: set_command_line refuses a NULL conf, the  *)
(* arguments are freed and done stays nil.                                  *)
StartFails(i) ==
  /\ conf[i] = "null" /\ done[i] = "nil"
  /\ argv' = [argv EXCEPT ![i] = "freed"]
  /\ UNCHANGED <<conf, ocs, ownedArg, done, clientVars, torVars, fdtab>>

(* Wait, possibly called again after it has returned.                       *)
WaitCall(i) ==
  /\ done[i] # "nil" /\ waiter[i] # "in"
  /\ waiter' = [waiter EXCEPT ![i] = "in"]
  /\ UNCHANGED <<confVars, done, ctx, goFile, goConn, other, torVars, fdtab>>

WaitCode(i) ==
  /\ waiter[i] = "in" /\ done[i] = "filled"
  /\ waiter' = [waiter EXCEPT ![i] = "gotCode"]
  /\ done' = [done EXCEPT ![i] = "drained"]
  /\ UNCHANGED <<confVars, ctx, goFile, goConn, other, torVars, fdtab>>

WaitCtx(i) ==
  /\ waiter[i] = "in" /\ ctx[i] = "cancelled"
  /\ waiter' = [waiter EXCEPT ![i] = "gotCtx"]
  /\ UNCHANGED <<confVars, done, ctx, goFile, goConn, other, torVars, fdtab>>

Cancel(i) ==
  /\ i \in Cancellable
  /\ conf[i] # "unborn" /\ ctx[i] = "open"
  /\ ctx' = [ctx EXCEPT ![i] = "cancelled"]
  /\ UNCHANGED <<confVars, done, waiter, goFile, goConn, other, torVars, fdtab>>

(* The program closes its control connection.                               *)
CloseConn(i) ==
  /\ goConn[i] # NoFd
  /\ fdtab' = CloseFd(goConn[i])
  /\ goConn' = [goConn EXCEPT ![i] = NoFd]
  /\ UNCHANGED <<confVars, done, waiter, ctx, goFile, other, torVars>>

(* The garbage collector finalizes the os.File that EmbeddedControlConn     *)
(* leaves behind: nothing else closes it.                                   *)
FinalizeFile(i) ==
  /\ goFile[i] # NoFd
  /\ fdtab' = CloseFd(goFile[i])
  /\ goFile' = [goFile EXCEPT ![i] = NoFd]
  /\ UNCHANGED <<confVars, done, waiter, ctx, goConn, other, torVars>>

(* The rest of the program opens and closes a file.                         *)
OpenOther ==
  /\ other = NoFd
  /\ \E f \in Lowest(FreeFds) :
       /\ other' = f
       /\ fdtab' = [fdtab EXCEPT ![f] = OtherFile]
  /\ UNCHANGED <<confVars, done, waiter, ctx, goFile, goConn, torVars>>

CloseOther ==
  /\ other # NoFd
  /\ fdtab' = CloseFd(other)
  /\ other' = NoFd
  /\ UNCHANGED <<confVars, done, waiter, ctx, goFile, goConn, torVars>>

-----------------------------------------------------------------------------
(* The goroutine and Tor                                                    *)

(* tor_run_main copies the argument pointers of conf and calls tor_init.    *)
TorEnter(i) ==
  /\ tor[i] = "spawned"
  /\ tor' = [tor EXCEPT ![i] = "init"]
  /\ UNCHANGED <<confVars, done, clientVars, torConn, sigterm, fdtab>>

(* The command line asks for something else, or tor_init or                 *)
(* run_tor_main_loop fails: the configuration, the data directory lock that *)
(* another process holds, the keys.  Before or after the socket is adopted. *)
TorInitEnds(i) ==
  /\ tor[i] \in {"init", "adopted"}
  /\ tor' = [tor EXCEPT ![i] = "cleanup"]
  /\ UNCHANGED <<confVars, done, clientVars, torConn, sigterm, fdtab>>

(* Mutant of TorAdopt: goes on when add_local_fd has not made a connection. *)
TorAdoptIgnoresFailure(i) ==
  /\ tor[i] = "init" /\ ownedArg[i] # "broken"
  /\ tor' = [tor EXCEPT ![i] = "adopted"]
  /\ UNCHANGED <<confVars, done, clientVars, torConn, sigterm, fdtab>>

(* options_act gives the socket to control_connection_add_local_fd, which   *)
(* fails when the number is not open any more (set_socket_nonblocking).     *)
(* A command line with half of the owned arguments is refused.              *)
TorAdopt(i) ==
  /\ tor[i] = "init" /\ ownedArg[i] # "broken"
  /\ IF ownedArg[i] = "none"
       THEN tor' = [tor EXCEPT ![i] = "adopted"] /\ UNCHANGED torConn
       ELSE IF fdtab[ocs[i]] = Closed
         THEN tor' = [tor EXCEPT ![i] = "cleanup"] /\ UNCHANGED torConn
         ELSE /\ tor' = [tor EXCEPT ![i] = "adopted"]
              /\ torConn' = [torConn EXCEPT ![i] = ocs[i]]
  /\ UNCHANGED <<confVars, done, clientVars, sigterm, fdtab>>

TorLoop(i) ==
  /\ tor[i] = "adopted"
  /\ tor' = [tor EXCEPT ![i] = "loop"]
  /\ UNCHANGED <<confVars, done, clientVars, torConn, sigterm, fdtab>>

(* Mutant of TorEof: is_owning_control_connection was never set.            *)
TorEofNotOwner(i) ==
  /\ tor[i] = "loop" /\ torConn[i] # NoFd
  /\ fdtab[torConn[i]] = TorEnd(i) /\ Gone(AppEnd(i))
  /\ fdtab' = CloseFd(torConn[i])
  /\ torConn' = [torConn EXCEPT ![i] = NoFd]
  /\ UNCHANGED <<confVars, done, clientVars, tor, sigterm>>

(* The owning connection reads EOF, is marked for close and closed in the   *)
(* same callback; connection_control_closed activates SIGTERM.              *)
TorEof(i) ==
  /\ tor[i] = "loop" /\ torConn[i] # NoFd
  /\ \E j \in Inst :
       \/ fdtab[torConn[i]] = TorEnd(j) /\ Gone(AppEnd(j))
       \/ fdtab[torConn[i]] = AppEnd(j) /\ Gone(TorEnd(j))
  /\ fdtab' = CloseFd(torConn[i])
  /\ torConn' = [torConn EXCEPT ![i] = NoFd]
  /\ sigterm' = [sigterm EXCEPT ![i] = TRUE]
  /\ UNCHANGED <<confVars, done, clientVars, tor>>

(* process_signal(SIGTERM): tor_shutdown_event_loop_and_exit(0).            *)
TorSigterm(i) ==
  /\ tor[i] = "loop" /\ sigterm[i]
  /\ tor' = [tor EXCEPT ![i] = "cleanup"]
  /\ sigterm' = [sigterm EXCEPT ![i] = FALSE]
  /\ UNCHANGED <<confVars, done, clientVars, torConn, fdtab>>

(* Tor leaves its loop for a reason of its own: a process signal, SIGNAL    *)
(* HALT from a controller, the end of a hibernation, a libevent error.      *)
TorStops(i) ==
  /\ tor[i] = "loop"
  /\ tor' = [tor EXCEPT ![i] = "cleanup"]
  /\ sigterm' = [sigterm EXCEPT ![i] = FALSE]
  /\ UNCHANGED <<confVars, done, clientVars, torConn, fdtab>>

(* tor_cleanup, or tor_free_all(0) after a failed tor_init: every           *)
(* connection still open is closed.  tor_run_main returns.                  *)
TorCleanup(i) ==
  /\ tor[i] = "cleanup"
  /\ fdtab' = CloseFd(torConn[i])
  /\ torConn' = [torConn EXCEPT ![i] = NoFd]
  /\ tor' = [tor EXCEPT ![i] = "returned"]
  /\ UNCHANGED <<confVars, done, clientVars, sigterm>>

(* Mutants of SendCode: sent before tor_run_main is back; into a channel    *)
(* without a buffer; dropped when nobody is receiving.                      *)
SendCodeEarly(i) ==
  /\ tor[i] \in {"cleanup", "returned"} /\ done[i] = "empty"
  /\ done' = [done EXCEPT ![i] = "filled"]
  /\ UNCHANGED <<confVars, clientVars, torVars, fdtab>>

SendCodeUnbuffered(i) ==
  /\ tor[i] = "returned" /\ done[i] = "empty" /\ waiter[i] = "in"
  /\ done' = [done EXCEPT ![i] = "filled"]
  /\ tor' = [tor EXCEPT ![i] = "sent"]
  /\ UNCHANGED <<confVars, clientVars, torConn, sigterm, fdtab>>

SendCodeDrops(i) ==
  /\ tor[i] = "returned" /\ done[i] = "empty"
  /\ IF waiter[i] = "in" THEN done' = [done EXCEPT ![i] = "filled"]
                         ELSE UNCHANGED done
  /\ tor' = [tor EXCEPT ![i] = "sent"]
  /\ UNCHANGED <<confVars, clientVars, torConn, sigterm, fdtab>>

(* e.done <- code: blocks while the buffer of one is full.                  *)
SendCode(i) ==
  /\ tor[i] = "returned" /\ done[i] = "empty"
  /\ done' = [done EXCEPT ![i] = "filled"]
  /\ tor' = [tor EXCEPT ![i] = "sent"]
  /\ UNCHANGED <<confVars, clientVars, torConn, sigterm, fdtab>>

(* Mutant of FreeConf: the socket nobody adopted is not closed.             *)
FreeConfKeepsSocket(i) ==
  /\ tor[i] = "sent"
  /\ conf' = [conf EXCEPT ![i] = "freed"]
  /\ ocs' = [ocs EXCEPT ![i] = NoFd]
  /\ tor' = [tor EXCEPT ![i] = "confFreed"]
  /\ UNCHANGED <<ownedArg, argv, done, clientVars, torConn, sigterm, fdtab>>

(* The deferred tor_main_configuration_free: it closes the number in        *)
(* owning_controller_socket, whatever that number refers to by now.         *)
FreeConf(i) ==
  /\ tor[i] = "sent"
  /\ fdtab' = CloseFd(ocs[i])
  /\ conf' = [conf EXCEPT ![i] = "freed"]
  /\ ocs' = [ocs EXCEPT ![i] = NoFd]
  /\ tor' = [tor EXCEPT ![i] = "confFreed"]
  /\ UNCHANGED <<ownedArg, argv, done, clientVars, torConn, sigterm>>

(* Mutant of FreeArgv: the defers in the other order.                       *)
FreeArgvFirst(i) ==
  /\ tor[i] \in {"sent", "confFreed"} /\ argv[i] = "alloc"
  /\ argv' = [argv EXCEPT ![i] = "freed"]
  /\ UNCHANGED <<conf, ocs, ownedArg, done, clientVars, torVars, fdtab>>

(* The deferred freeCharArray: defers run last in, first out.               *)
FreeArgv(i) ==
  /\ tor[i] = "confFreed"
  /\ argv' = [argv EXCEPT ![i] = "freed"]
  /\ tor' = [tor EXCEPT ![i] = "over"]
  /\ UNCHANGED <<conf, ocs, ownedArg, done, clientVars, torConn, sigterm, fdtab>>

-----------------------------------------------------------------------------
Init ==
  /\ conf = [i \in Inst |-> "unborn"]
  /\ ocs = [i \in Inst |-> NoFd]
  /\ ownedArg = [i \in Inst |-> "none"]
  /\ argv = [i \in Inst |-> "none"]
  /\ done = [i \in Inst |-> "nil"]
  /\ waiter = [i \in Inst |-> "out"]
  /\ ctx = [i \in Inst |-> "open"]
  /\ tor = [i \in Inst |-> "idle"]
  /\ torConn = [i \in Inst |-> NoFd]
  /\ sigterm = [i \in Inst |-> FALSE]
  /\ fdtab = [f \in Fd |-> Closed]
  /\ goFile = [i \in Inst |-> NoFd]
  /\ goConn = [i \in Inst |-> NoFd]
  /\ other = NoFd

Client(i) ==
  \/ New(i) \/ ControlConn(i) \/ Start(i) \/ StartFails(i)
  \/ WaitCall(i) \/ WaitCode(i) \/ WaitCtx(i) \/ Cancel(i)
  \/ CloseConn(i) \/ FinalizeFile(i)

Goroutine(i) ==
  \/ TorEnter(i) \/ TorInitEnds(i) \/ TorAdopt(i) \/ TorLoop(i)
  \/ TorEof(i) \/ TorSigterm(i) \/ TorStops(i) \/ TorCleanup(i)
  \/ SendCode(i) \/ FreeConf(i) \/ FreeArgv(i)

Next == (\E i \in Inst : Client(i) \/ Goroutine(i)) \/ OpenOther \/ CloseOther

(* Threads that can run do run: Tor's start, its event loop's delivery of   *)
(* an EOF or a signal, its cleanup, the goroutine's last steps, and a       *)
(* select in Wait that has something to receive.  Nothing obliges the       *)
(* program to make a call, Tor to stop by itself, or the collector to run.  *)
Fairness ==
  \A i \in Inst :
    /\ WF_vars(TorEnter(i)) /\ WF_vars(TorAdopt(i) \/ TorInitEnds(i))
    /\ WF_vars(TorLoop(i) \/ TorInitEnds(i))
    /\ WF_vars(TorEof(i)) /\ WF_vars(TorSigterm(i)) /\ WF_vars(TorCleanup(i))
    /\ WF_vars(SendCode(i)) /\ WF_vars(FreeConf(i)) /\ WF_vars(FreeArgv(i))
    /\ WF_vars(WaitCode(i) \/ WaitCtx(i))

Spec == Init /\ [][Next]_vars

FairSpec == Spec /\ Fairness

-----------------------------------------------------------------------------
(* Safety                                                                   *)

(* While the goroutine of Start may still pass conf to tor_run_main, or     *)
(* free it, conf is alive and the argument array it points to has not been  *)
(* freed (tor_api.h: argv unchanged until the configuration is freed, and   *)
(* the configuration not freed before tor_run_main has finished).           *)
ConfOutlivesTor ==
  \A i \in Inst : tor[i] \in HoldsConf => conf[i] = "live" /\ argv[i] = "alloc"

(* Two instances are never inside tor_run_main together when the program    *)
(* starts the next one on the exit code that Wait returned for the last:    *)
(* the code is sent only after tor_run_main has returned.                   *)
OneTorAtATime ==
  \A i, j \in Inst :
    tor[i] \in InTorRunMain /\ tor[j] \in InTorRunMain => i = j

(* Once an instance is over, its connection closed and its os.File          *)
(* finalized, no descriptor of its socketpair is left in the process,       *)
(* however early Tor failed.                                                *)
NoDescriptorLeak ==
  \A i \in Inst :
    /\ tor[i] = "over" /\ goConn[i] = NoFd /\ goFile[i] = NoFd
    => Gone(AppEnd(i)) /\ Gone(TorEnd(i))

(* Tor is in its loop with a descriptor that somebody else has closed.      *)
Robbed(i) == tor[i] = "loop" /\ torConn[i] # NoFd /\ Gone(TorEnd(i))

(* While Tor is in its main loop and the program's control connection is    *)
(* open, the connection whose descriptor Tor was told about is served: Tor  *)
(* holds it by the number of Tor's own end of the pair, still open.  Or the *)
(* loss of it has already raised SIGTERM; or the number was closed under    *)
(* Tor, by the FreeConf of another instance: Tor still lists the connection *)
(* and nothing is served (AloneNotRobbed: never with one instance).         *)
ControlConnServed ==
  \A i \in Inst :
    /\ tor[i] = "loop" /\ ownedArg[i] = "fd"
    /\ goConn[i] # NoFd /\ fdtab[goConn[i]] = AppEnd(i)
    => \/ torConn[i] # NoFd /\ fdtab[torConn[i]] = TorEnd(i)
       \/ sigterm[i]
       \/ Robbed(i)

(* What the program is promised: module Process, an instance's phase being  *)
(* that of the goroutine of Start, its exit code received when the channel  *)
(* is drained, its storage what the two defers have left.                   *)
PhaseOf(i) ==
  IF tor[i] = "idle" THEN "made"
  ELSE IF tor[i] = "spawned" THEN "started"
  ELSE IF tor[i] \in InTorRunMain THEN "running"
  ELSE "ended"

StorageOf(i) ==
  IF conf[i] # "freed" THEN "kept"
  ELSE IF argv[i] # "freed" THEN "argsOnly"
  ELSE "released"

Phases == [i \in Inst |-> PhaseOf(i)]
Told == [i \in Inst |-> done[i] = "drained"]
Storages == [i \in Inst |-> StorageOf(i)]

Contract == INSTANCE Process WITH phase <- Phases, told <- Told, storage <- Storages

(* The goroutine, the channel of capacity one and the order of the defers   *)
(* implement it: a start of another instance, a receive by Wait and a free  *)
(* each come at a moment when the contract allows them.                     *)
KeepsContract == Contract!PSpec

-----------------------------------------------------------------------------
(* Liveness                                                                 *)

(* Tor's end of the pair of i is intact and the program has let go of its   *)
(* own end: connection closed and os.File finalized.                        *)
ControllerLost(i) ==
  /\ tor[i] = "loop" /\ torConn[i] # NoFd
  /\ fdtab[torConn[i]] = TorEnd(i) /\ Gone(AppEnd(i))

(* Losing the owning controller ends Tor, down to the goroutine's deferred  *)
(* frees, unless someone else closes Tor's descriptor under it first.       *)
LostControllerEndsTor ==
  \A i \in Inst : ControllerLost(i) ~> (tor[i] = "over" \/ Robbed(i))

(* The goroutine frees everything after tor_run_main whether or not anybody *)
(* waits: the code goes into the channel's buffer.                          *)
CleanupCompletes == \A i \in Inst : tor[i] = "returned" ~> tor[i] = "over"

(* A Wait that is the first to receive the code returns once Tor is over.   *)
WaitReturns ==
  \A i \in Inst :
    (waiter[i] = "in" /\ done[i] # "drained" /\ tor[i] \in TorIsOver)
      ~> waiter[i] # "in"

-----------------------------------------------------------------------------
(* What comments promise and the code does not do                           *)

(* libtor.go: Wait blocks "until the embedded process terminates".          *)
WaitMeansTerminated ==
  \A i \in Inst :
    waiter[i] \in {"gotCode", "gotCtx"} => tor[i] \in TorIsOver

(* tor_api_internal.h: owning_controller_socket is "Owned" by the           *)
(* configuration, so what freeing it closes is Tor's end of its own pair,   *)
(* or a number not in use.                                                  *)
FreeClosesOwnSocket ==
  [][\A i \in Inst :
       FreeConf(i) /\ ocs[i] # NoFd => fdtab[ocs[i]] \in {TorEnd(i), Closed}]_vars
=============================================================================
