---------------------------- MODULE EmbedProofs ----------------------------
(***************************************************************************)
(* Proofs about Embed, for every set of instances and every descriptor     *)
(* table: type correctness, the lifetime of the configuration, one Tor at  *)
(* a time, no descriptor leaked, the control connection being served, and  *)
(* the contract of module Process.  Two more theorems say when the comment *)
(* on Wait is right and when the configuration closes a socket that is its *)
(* own: runs EmbedWait and EmbedOwned show that neither is always so.      *)
(***************************************************************************)
EXTENDS Embed, TLAPS

(* How far the goroutine has come fixes the state of what it owns, and the  *)
(* channel tells the program how far the goroutine has come.                *)
Life ==
  \A i \in Inst :
    /\ tor[i] = "idle" <=> done[i] = "nil"
    /\ tor[i] \in HoldsConf => conf[i] = "live" /\ argv[i] = "alloc"
    /\ done[i] \in {"filled", "drained"} => tor[i] \in {"sent", "confFreed", "over"}

(* At most one channel that has been made has not been drained: the program *)
(* starts an instance only then, and that is what keeps Tor alone.          *)
OnePending ==
  \A i, j \in Inst :
    done[i] \in {"empty", "filled"} /\ done[j] \in {"empty", "filled"} => i = j

(* Every number that refers to an end of the socketpair of i is held where  *)
(* somebody will still close it.                                            *)
Holders ==
  \A i \in Inst :
    /\ torConn[i] \in {NoFd, ocs[i]}
    /\ tor[i] \in {"returned", "sent", "confFreed", "over"} => torConn[i] = NoFd
    /\ tor[i] \in {"confFreed", "over"} => ocs[i] = NoFd
    /\ tor[i] = "idle" /\ ocs[i] = NoFd => goFile[i] = NoFd /\ goConn[i] = NoFd
    /\ \A f \in Fd : /\ fdtab[f] = TorEnd(i) => ocs[i] = f
                     /\ fdtab[f] = AppEnd(i) => f \in {goFile[i], goConn[i]}

(* A socket that Tor was told about is known to conf until conf is freed,   *)
(* and is Tor's connection from its adoption to its end of file.            *)
Adopted ==
  \A i \in Inst :
    /\ ownedArg[i] = "fd" /\ tor[i] \in {"idle", "spawned", "init"} => ocs[i] # NoFd
    /\ ownedArg[i] = "fd" /\ tor[i] \in {"adopted", "loop"}
         => torConn[i] # NoFd \/ (tor[i] = "loop" /\ sigterm[i])

-----------------------------------------------------------------------------
(* Closing a number keeps the table well-typed and brings no description    *)
(* back.                                                                    *)
LEMMA CloseFdFact ==
  ASSUME fdtab \in [Fd -> Description], NEW f
  PROVE  /\ CloseFd(f) \in [Fd -> Description]
         /\ \A g \in Fd : CloseFd(f)[g] = IF g = f THEN Closed ELSE fdtab[g]
  BY DEF CloseFd, Description

(* EmbeddedControlConn puts the program's end in a and, when there is room, *)
(* in c, and Tor's end in b.                                                *)
Connected(i, a, b, c) ==
  /\ fdtab' = [f \in Fd |-> IF f = b THEN TorEnd(i)
                             ELSE IF f \in {a, c} THEN AppEnd(i) ELSE fdtab[f]]
  /\ ocs' = [ocs EXCEPT ![i] = b]
  /\ goFile' = [goFile EXCEPT ![i] = a]
  /\ goConn' = IF c = NoFd THEN goConn ELSE [goConn EXCEPT ![i] = c]
  /\ a # b /\ c \notin {a, b}
  /\ \A f \in {a, b, c} \ {NoFd} : fdtab[f] = Closed

(* EmbeddedControlConn takes two free numbers for the socketpair and, when  *)
(* one more is left, a third for the duplicate that net.FileConn makes.     *)
LEMMA ControlConnFact ==
  ASSUME TypeOK, NEW i \in Inst, ControlConn(i)
  PROVE  \E a \in Fd, b \in Fd, c \in Fd \cup {NoFd} : Connected(i, a, b, c)
  <1>1. PICK a \in Lowest(FreeFds) : \E b \in Lowest(FreeFds \ {a}) :
           /\ ocs' = [ocs EXCEPT ![i] = b]
           /\ goFile' = [goFile EXCEPT ![i] = a]
           /\ \/ /\ fdtab' = [fdtab EXCEPT ![a] = AppEnd(i), ![b] = TorEnd(i)]
                 /\ UNCHANGED goConn
              \/ \E c \in Lowest(FreeFds \ {a, b}) :
                   /\ fdtab' = [[fdtab EXCEPT ![a] = AppEnd(i), ![b] = TorEnd(i)]
                                    EXCEPT ![c] = AppEnd(i)]
                   /\ goConn' = [goConn EXCEPT ![i] = c]
    BY DEF ControlConn
  <1>2. PICK b \in Lowest(FreeFds \ {a}) :
           /\ ocs' = [ocs EXCEPT ![i] = b]
           /\ goFile' = [goFile EXCEPT ![i] = a]
           /\ \/ /\ fdtab' = [fdtab EXCEPT ![a] = AppEnd(i), ![b] = TorEnd(i)]
                 /\ UNCHANGED goConn
              \/ \E c \in Lowest(FreeFds \ {a, b}) :
                   /\ fdtab' = [[fdtab EXCEPT ![a] = AppEnd(i), ![b] = TorEnd(i)]
                                    EXCEPT ![c] = AppEnd(i)]
                   /\ goConn' = [goConn EXCEPT ![i] = c]
    BY <1>1
  <1>3. /\ a \in Fd /\ b \in Fd /\ a # b /\ fdtab \in [Fd -> Description]
        /\ fdtab[a] = Closed /\ fdtab[b] = Closed
    BY DEF Lowest, FreeFds, TypeOK
  <1>4. CASE /\ fdtab' = [fdtab EXCEPT ![a] = AppEnd(i), ![b] = TorEnd(i)]
             /\ UNCHANGED goConn
    <2>1. Connected(i, a, b, NoFd)
      BY <1>2, <1>3, <1>4, FdAssumption DEF Connected
    <2> QED
      BY <1>3, <2>1
  <1>5. CASE \E c \in Lowest(FreeFds \ {a, b}) :
               /\ fdtab' = [[fdtab EXCEPT ![a] = AppEnd(i), ![b] = TorEnd(i)]
                                EXCEPT ![c] = AppEnd(i)]
               /\ goConn' = [goConn EXCEPT ![i] = c]
    <2>1. PICK c \in Lowest(FreeFds \ {a, b}) :
               /\ fdtab' = [[fdtab EXCEPT ![a] = AppEnd(i), ![b] = TorEnd(i)]
                                EXCEPT ![c] = AppEnd(i)]
               /\ goConn' = [goConn EXCEPT ![i] = c]
      BY <1>5
    <2>2. c \in Fd /\ c \notin {a, b} /\ c # NoFd /\ fdtab[c] = Closed
      BY FdAssumption DEF Lowest, FreeFds
    <2>3. Connected(i, a, b, c)
      BY <1>2, <1>3, <2>1, <2>2 DEF Connected
    <2> QED
      BY <1>3, <2>2, <2>3
  <1> QED
    BY <1>2, <1>4, <1>5

(* The four kinds of description differ, and an end names its instance.     *)
LEMMA Distinct ==
  ASSUME NEW i, NEW j
  PROVE  /\ AppEnd(i) # TorEnd(j) /\ AppEnd(i) # Closed /\ TorEnd(i) # Closed
         /\ AppEnd(i) # OtherFile /\ TorEnd(i) # OtherFile
         /\ (AppEnd(i) = AppEnd(j) => i = j) /\ (TorEnd(i) = TorEnd(j) => i = j)
  BY DEF AppEnd, TorEnd, OtherFile, Closed

-----------------------------------------------------------------------------
(* Type correctness                                                         *)

(* The variables have their types before the program makes any call.        *)
LEMMA InitType == Init => TypeOK
  BY DEF Init, TypeOK, TorState, Description, HoldsConf

(* No call of the Go program, and no finalizer, breaks a type.              *)
LEMMA ClientType ==
  ASSUME TypeOK, NEW i \in Inst, Client(i)
  PROVE  TypeOK'
  <1>1. CASE New(i)
    BY <1>1 DEF TypeOK, New, clientVars, torVars
  <1>2. CASE ControlConn(i)
    <2>1. PICK a \in Fd, b \in Fd, c \in Fd \cup {NoFd} : Connected(i, a, b, c)
      BY <1>2, ControlConnFact
    <2>2. fdtab' \in [Fd -> Description]
      BY <2>1 DEF Connected, TypeOK, Description
    <2>3. ownedArg' \in [Inst -> {"fd", "broken", "none"}]
      BY <1>2, OwnedArgsAssumption DEF ControlConn, TypeOK
    <2> QED
      BY <1>2, <2>1, <2>2, <2>3 DEF TypeOK, ControlConn, Connected, torVars
  <1>3. CASE Start(i)
    BY <1>3 DEF TypeOK, Start, clientVars, TorState, HoldsConf
  <1>4. CASE StartFails(i)
    BY <1>4 DEF TypeOK, StartFails, clientVars, torVars
  <1>5. CASE WaitCall(i)
    BY <1>5 DEF TypeOK, WaitCall, confVars, torVars
  <1>6. CASE WaitCode(i)
    BY <1>6 DEF TypeOK, WaitCode, confVars, torVars
  <1>7. CASE WaitCtx(i)
    BY <1>7 DEF TypeOK, WaitCtx, confVars, torVars
  <1>8. CASE Cancel(i)
    BY <1>8 DEF TypeOK, Cancel, confVars, torVars
  <1>9. CASE CloseConn(i)
    BY <1>9, CloseFdFact DEF TypeOK, CloseConn, confVars, torVars
  <1>10. CASE FinalizeFile(i)
    BY <1>10, CloseFdFact DEF TypeOK, FinalizeFile, confVars, torVars
  <1> QED
    BY <1>1, <1>2, <1>3, <1>4, <1>5, <1>6, <1>7, <1>8, <1>9, <1>10 DEF Client

(* No step of Start's goroutine, Tor's on it included, breaks a type.       *)
LEMMA GoroutineType ==
  ASSUME TypeOK, NEW i \in Inst, Goroutine(i)
  PROVE  TypeOK'
  <1>1. CASE TorEnter(i)
    BY <1>1 DEF TypeOK, TorEnter, confVars, clientVars, TorState, HoldsConf, InTorRunMain
  <1>2. CASE TorInitEnds(i)
    BY <1>2 DEF TypeOK, TorInitEnds, confVars, clientVars, TorState, HoldsConf,
                InTorRunMain
  <1>3. CASE TorAdopt(i)
    BY <1>3 DEF TypeOK, TorAdopt, confVars, clientVars, TorState, HoldsConf, InTorRunMain
  <1>4. CASE TorLoop(i)
    BY <1>4 DEF TypeOK, TorLoop, confVars, clientVars, TorState, HoldsConf, InTorRunMain
  <1>5. CASE TorEof(i)
    BY <1>5, CloseFdFact DEF TypeOK, TorEof, confVars, clientVars
  <1>6. CASE TorSigterm(i)
    BY <1>6 DEF TypeOK, TorSigterm, confVars, clientVars, TorState, HoldsConf,
                InTorRunMain
  <1>7. CASE TorStops(i)
    BY <1>7 DEF TypeOK, TorStops, confVars, clientVars, TorState, HoldsConf, InTorRunMain
  <1>8. CASE TorCleanup(i)
    BY <1>8, CloseFdFact DEF TypeOK, TorCleanup, confVars, clientVars, TorState, HoldsConf
  <1>9. CASE SendCode(i)
    BY <1>9 DEF TypeOK, SendCode, confVars, clientVars, TorState, HoldsConf
  <1>10. CASE FreeConf(i)
    BY <1>10, CloseFdFact DEF TypeOK, FreeConf, clientVars, TorState
  <1>11. CASE FreeArgv(i)
    BY <1>11 DEF TypeOK, FreeArgv, clientVars, TorState
  <1> QED
    BY <1>1, <1>2, <1>3, <1>4, <1>5, <1>6, <1>7, <1>8, <1>9, <1>10, <1>11 DEF Goroutine

(* Type correctness is inductive.                                           *)
LEMMA NextType == TypeOK /\ [Next]_vars => TypeOK'
  <1> SUFFICES ASSUME TypeOK, [Next]_vars PROVE TypeOK'
    OBVIOUS
  <1>1. CASE \E i \in Inst : Client(i) \/ Goroutine(i)
    BY <1>1, ClientType, GoroutineType
  <1>2. CASE OpenOther
    BY <1>2 DEF TypeOK, OpenOther, Lowest, FreeFds, Description, confVars, torVars
  <1>3. CASE CloseOther
    BY <1>3, CloseFdFact DEF TypeOK, CloseOther, confVars, torVars
  <1>4. CASE UNCHANGED vars
    BY <1>4 DEF TypeOK, vars, confVars, clientVars, torVars
  <1> QED
    BY <1>1, <1>2, <1>3, <1>4 DEF Next

(* Every variable keeps its type in every behaviour.                        *)
THEOREM TypeCorrect == Spec => []TypeOK
  BY InitType, NextType, PTL DEF Spec

-----------------------------------------------------------------------------
(* The lifetime of the configuration, and one Tor at a time                 *)

(* Before any call no configuration and no running Tor exists.              *)
LEMMA InitLife == Init => Life /\ OnePending
  BY DEF Init, Life, OnePending, HoldsConf, InTorRunMain

(* The program's calls free nothing that a goroutine holds, and Start       *)
(* begins an instance only when no other one's exit code is outstanding.    *)
LEMMA ClientLife ==
  ASSUME TypeOK, Life, OnePending, NEW i \in Inst, Client(i)
  PROVE  Life' /\ OnePending'
  <1>1. CASE New(i)
    BY <1>1 DEF TypeOK, Life, OnePending, New, clientVars, torVars, HoldsConf, InTorRunMain
  <1>2. CASE ControlConn(i)
    BY <1>2 DEF TypeOK, Life, OnePending, ControlConn, clientVars, torVars, HoldsConf, InTorRunMain
  <1>3. CASE Start(i)
    BY <1>3 DEF TypeOK, Life, OnePending, Start, clientVars, torVars, HoldsConf, InTorRunMain
  <1>4. CASE StartFails(i)
    BY <1>4 DEF TypeOK, Life, OnePending, StartFails, clientVars, torVars, HoldsConf, InTorRunMain
  <1>5. CASE WaitCall(i)
    BY <1>5 DEF TypeOK, Life, OnePending, WaitCall, confVars, torVars, HoldsConf, InTorRunMain
  <1>6. CASE WaitCode(i)
    BY <1>6 DEF TypeOK, Life, OnePending, WaitCode, confVars, torVars, HoldsConf, InTorRunMain
  <1>7. CASE WaitCtx(i)
    BY <1>7 DEF TypeOK, Life, OnePending, WaitCtx, confVars, torVars, HoldsConf, InTorRunMain
  <1>8. CASE Cancel(i)
    BY <1>8 DEF TypeOK, Life, OnePending, Cancel, confVars, torVars, HoldsConf, InTorRunMain
  <1>9. CASE CloseConn(i)
    BY <1>9 DEF TypeOK, Life, OnePending, CloseConn, confVars, torVars, HoldsConf, InTorRunMain
  <1>10. CASE FinalizeFile(i)
    BY <1>10 DEF TypeOK, Life, OnePending, FinalizeFile, confVars, torVars, HoldsConf, InTorRunMain
  <1> QED
    BY <1>1, <1>2, <1>3, <1>4, <1>5, <1>6, <1>7, <1>8, <1>9, <1>10 DEF Client

(* The goroutine frees the configuration and the arguments only in its last *)
(* steps, and sends the exit code only when tor_run_main is back.           *)
LEMMA GoroutineLife ==
  ASSUME TypeOK, Life, OnePending, NEW i \in Inst, Goroutine(i)
  PROVE  Life' /\ OnePending'
  <1>1. CASE TorEnter(i)
    BY <1>1 DEF TypeOK, Life, OnePending, TorEnter, confVars, clientVars, HoldsConf, InTorRunMain
  <1>2. CASE TorInitEnds(i)
    BY <1>2 DEF TypeOK, Life, OnePending, TorInitEnds, confVars, clientVars, HoldsConf, InTorRunMain
  <1>3. CASE TorAdopt(i)
    BY <1>3 DEF TypeOK, Life, OnePending, TorAdopt, confVars, clientVars, HoldsConf, InTorRunMain
  <1>4. CASE TorLoop(i)
    BY <1>4 DEF TypeOK, Life, OnePending, TorLoop, confVars, clientVars, HoldsConf, InTorRunMain
  <1>5. CASE TorEof(i)
    BY <1>5 DEF TypeOK, Life, OnePending, TorEof, confVars, clientVars, HoldsConf, InTorRunMain
  <1>6. CASE TorSigterm(i)
    BY <1>6 DEF TypeOK, Life, OnePending, TorSigterm, confVars, clientVars, HoldsConf, InTorRunMain
  <1>7. CASE TorStops(i)
    BY <1>7 DEF TypeOK, Life, OnePending, TorStops, confVars, clientVars, HoldsConf, InTorRunMain
  <1>8. CASE TorCleanup(i)
    BY <1>8 DEF TypeOK, Life, OnePending, TorCleanup, confVars, clientVars, HoldsConf, InTorRunMain
  <1>9. CASE SendCode(i)
    BY <1>9 DEF TypeOK, Life, OnePending, SendCode, confVars, clientVars, HoldsConf, InTorRunMain
  <1>10. CASE FreeConf(i)
    BY <1>10 DEF TypeOK, Life, OnePending, FreeConf, confVars, clientVars, HoldsConf, InTorRunMain
  <1>11. CASE FreeArgv(i)
    BY <1>11 DEF TypeOK, Life, OnePending, FreeArgv, confVars, clientVars, HoldsConf, InTorRunMain
  <1> QED
    BY <1>1, <1>2, <1>3, <1>4, <1>5, <1>6, <1>7, <1>8, <1>9, <1>10, <1>11 DEF Goroutine

(* Life and OnePending are inductive over typed states.                     *)
LEMMA NextLife == TypeOK /\ Life /\ OnePending /\ [Next]_vars => Life' /\ OnePending'
  <1> SUFFICES ASSUME TypeOK, Life, OnePending, [Next]_vars PROVE Life' /\ OnePending'
    OBVIOUS
  <1>1. CASE \E i \in Inst : Client(i) \/ Goroutine(i)
    BY <1>1, ClientLife, GoroutineLife
  <1>2. CASE OpenOther \/ CloseOther \/ UNCHANGED vars
    BY <1>2 DEF Life, OnePending, OpenOther, CloseOther, vars, confVars, clientVars, torVars
  <1> QED
    BY <1>1, <1>2 DEF Next

(* The configuration and the argument array are alive for as long as the    *)
(* goroutine may use them (the defers of Start run after tor_run_main).     *)
THEOREM ConfOutlivesTorHolds == Spec => []ConfOutlivesTor
  <1>1. Life => ConfOutlivesTor
    BY DEF Life, ConfOutlivesTor
  <1> QED
    BY <1>1, InitType, NextType, InitLife, NextLife, PTL DEF Spec

(* tor_run_main never runs twice at once for a program that starts the next *)
(* instance on the exit code of the last.                                   *)
THEOREM OneTorAtATimeHolds == Spec => []OneTorAtATime
  <1>1. TypeOK /\ Life /\ OnePending => OneTorAtATime
    BY DEF TypeOK, Life, OnePending, OneTorAtATime, InTorRunMain
  <1> QED
    BY <1>1, InitType, NextType, InitLife, NextLife, PTL DEF Spec

-----------------------------------------------------------------------------
(* Who holds which descriptor                                               *)

(* Before any call no descriptor is open and nobody holds a number.         *)
LEMMA InitHolders == Init => Holders
  BY Distinct DEF Init, Holders

(* The program's calls give a number to a holder when they open it, and     *)
(* close what they give up.                                                 *)
LEMMA ClientHolders ==
  ASSUME TypeOK, Life, Holders, NEW i \in Inst, Client(i)
  PROVE  Holders'
  <1>1. CASE New(i)
    BY <1>1 DEF TypeOK, Holders, New, clientVars, torVars
  <1>2. CASE ControlConn(i)
    <2>1. PICK a \in Fd, b \in Fd, c \in Fd \cup {NoFd} : Connected(i, a, b, c)
      BY <1>2, ControlConnFact
    <2>2. tor[i] = "idle" /\ ocs[i] = NoFd /\ goFile[i] = NoFd /\ goConn[i] = NoFd
      BY <1>2 DEF ControlConn, Holders
    <2>3. UNCHANGED torVars
      BY <1>2 DEF ControlConn
    <2> QED
      BY <2>1, <2>2, <2>3, Distinct, FdAssumption DEF Holders, Connected, TypeOK, torVars
  <1>3. CASE Start(i)
    BY <1>3 DEF TypeOK, Holders, Start, clientVars, torVars
  <1>4. CASE StartFails(i)
    BY <1>4 DEF TypeOK, Holders, StartFails, clientVars, torVars
  <1>5. CASE WaitCall(i)
    BY <1>5 DEF TypeOK, Holders, WaitCall, confVars, torVars
  <1>6. CASE WaitCode(i)
    BY <1>6 DEF TypeOK, Holders, WaitCode, confVars, torVars
  <1>7. CASE WaitCtx(i)
    BY <1>7 DEF TypeOK, Holders, WaitCtx, confVars, torVars
  <1>8. CASE Cancel(i)
    BY <1>8 DEF TypeOK, Holders, Cancel, confVars, torVars
  <1>9. CASE CloseConn(i)
    BY <1>9, CloseFdFact, Distinct DEF TypeOK, Holders, CloseConn, confVars, torVars
  <1>10. CASE FinalizeFile(i)
    BY <1>10, CloseFdFact, Distinct DEF TypeOK, Holders, FinalizeFile, confVars, torVars
  <1> QED
    BY <1>1, <1>2, <1>3, <1>4, <1>5, <1>6, <1>7, <1>8, <1>9, <1>10 DEF Client

(* Tor and the deferred free close a number of the pair no later than its   *)
(* last holder forgets it.                                                  *)
LEMMA GoroutineHolders ==
  ASSUME TypeOK, Life, Holders, NEW i \in Inst, Goroutine(i)
  PROVE  Holders'
  <1>1. CASE TorEnter(i)
    BY <1>1 DEF TypeOK, Holders, TorEnter, confVars, clientVars
  <1>2. CASE TorInitEnds(i)
    BY <1>2 DEF TypeOK, Holders, TorInitEnds, confVars, clientVars
  <1>3. CASE TorAdopt(i)
    BY <1>3 DEF TypeOK, Holders, TorAdopt, confVars, clientVars
  <1>4. CASE TorLoop(i)
    BY <1>4 DEF TypeOK, Holders, TorLoop, confVars, clientVars
  <1>5. CASE TorEof(i)
    BY <1>5, CloseFdFact, Distinct DEF TypeOK, Holders, TorEof, confVars, clientVars
  <1>6. CASE TorSigterm(i)
    BY <1>6 DEF TypeOK, Holders, TorSigterm, confVars, clientVars
  <1>7. CASE TorStops(i)
    BY <1>7 DEF TypeOK, Holders, TorStops, confVars, clientVars
  <1>8. CASE TorCleanup(i)
    BY <1>8, CloseFdFact, Distinct DEF TypeOK, Holders, TorCleanup, confVars, clientVars
  <1>9. CASE SendCode(i)
    BY <1>9 DEF TypeOK, Holders, SendCode, confVars, clientVars
  <1>10. CASE FreeConf(i)
    BY <1>10, CloseFdFact, Distinct DEF TypeOK, Holders, FreeConf, confVars, clientVars
  <1>11. CASE FreeArgv(i)
    BY <1>11 DEF TypeOK, Holders, FreeArgv, confVars, clientVars
  <1> QED
    BY <1>1, <1>2, <1>3, <1>4, <1>5, <1>6, <1>7, <1>8, <1>9, <1>10, <1>11 DEF Goroutine

(* Holders is inductive: each descriptor of a pair keeps a holder.          *)
LEMMA NextHolders == TypeOK /\ Life /\ Holders /\ [Next]_vars => Holders'
  <1> SUFFICES ASSUME TypeOK, Life, Holders, [Next]_vars PROVE Holders'
    OBVIOUS
  <1>1. CASE \E i \in Inst : Client(i) \/ Goroutine(i)
    BY <1>1, ClientHolders, GoroutineHolders
  <1>2. CASE OpenOther
    BY <1>2, Distinct DEF TypeOK, Holders, OpenOther, Lowest, FreeFds, confVars, torVars
  <1>3. CASE CloseOther
    BY <1>3, CloseFdFact, Distinct DEF TypeOK, Holders, CloseOther, confVars, torVars
  <1>4. CASE UNCHANGED vars
    BY <1>4 DEF Holders, vars, confVars, clientVars, torVars
  <1> QED
    BY <1>1, <1>2, <1>3, <1>4 DEF Next

(* Closing the connection, finalizing the file and the end of the goroutine *)
(* together close every number of the socketpair, wherever Tor stopped.     *)
THEOREM NoDescriptorLeakHolds == Spec => []NoDescriptorLeak
  <1>1. Holders => NoDescriptorLeak
    <2> SUFFICES ASSUME Holders, NEW i \in Inst, NEW f \in Fd,
                        tor[i] = "over", goConn[i] = NoFd, goFile[i] = NoFd
                 PROVE  fdtab[f] # AppEnd(i) /\ fdtab[f] # TorEnd(i)
      BY DEF NoDescriptorLeak, Gone
    <2>1. ocs[i] = NoFd /\ f # NoFd
      BY FdAssumption DEF Holders
    <2> QED
      BY <2>1 DEF Holders
  <1> QED
    BY <1>1, InitType, NextType, InitLife, NextLife, InitHolders, NextHolders, PTL
    DEF Spec

-----------------------------------------------------------------------------
(* The control connection is served                                         *)

(* Before any call no Tor is past the adoption of its socket.               *)
LEMMA InitAdopted == Init => Adopted
  BY DEF Init, Adopted

(* The program's calls do not take a Tor's connection away from it.         *)
LEMMA ClientAdopted ==
  ASSUME TypeOK, Life, Adopted, NEW i \in Inst, Client(i)
  PROVE  Adopted'
  <1>1. CASE New(i)
    BY <1>1 DEF TypeOK, Adopted, New, clientVars, torVars
  <1>2. CASE ControlConn(i)
    <2>1. PICK b \in Fd : ocs' = [ocs EXCEPT ![i] = b]
      BY <1>2, ControlConnFact DEF Connected
    <2> QED
      BY <1>2, <2>1, FdAssumption DEF TypeOK, Adopted, ControlConn, torVars
  <1>3. CASE Start(i)
    BY <1>3 DEF TypeOK, Life, Adopted, Start, clientVars, torVars
  <1>4. CASE StartFails(i)
    BY <1>4 DEF TypeOK, Adopted, StartFails, clientVars, torVars
  <1>5. CASE WaitCall(i)
    BY <1>5 DEF TypeOK, Adopted, WaitCall, confVars, torVars
  <1>6. CASE WaitCode(i)
    BY <1>6 DEF TypeOK, Adopted, WaitCode, confVars, torVars
  <1>7. CASE WaitCtx(i)
    BY <1>7 DEF TypeOK, Adopted, WaitCtx, confVars, torVars
  <1>8. CASE Cancel(i)
    BY <1>8 DEF TypeOK, Adopted, Cancel, confVars, torVars
  <1>9. CASE CloseConn(i)
    BY <1>9 DEF TypeOK, Adopted, CloseConn, confVars, torVars
  <1>10. CASE FinalizeFile(i)
    BY <1>10 DEF TypeOK, Adopted, FinalizeFile, confVars, torVars
  <1> QED
    BY <1>1, <1>2, <1>3, <1>4, <1>5, <1>6, <1>7, <1>8, <1>9, <1>10 DEF Client

(* Tor passes options_act only with the connection attached, and loses the  *)
(* connection only by raising SIGTERM or on its way out.                    *)
LEMMA GoroutineAdopted ==
  ASSUME TypeOK, Life, Adopted, NEW i \in Inst, Goroutine(i)
  PROVE  Adopted'
  <1>1. CASE TorEnter(i)
    BY <1>1 DEF TypeOK, Adopted, TorEnter, confVars, clientVars
  <1>2. CASE TorInitEnds(i)
    BY <1>2 DEF TypeOK, Adopted, TorInitEnds, confVars, clientVars
  <1>3. CASE TorAdopt(i)
    BY <1>3 DEF TypeOK, Adopted, TorAdopt, confVars, clientVars
  <1>4. CASE TorLoop(i)
    BY <1>4 DEF TypeOK, Adopted, TorLoop, confVars, clientVars
  <1>5. CASE TorEof(i)
    BY <1>5 DEF TypeOK, Adopted, TorEof, confVars, clientVars
  <1>6. CASE TorSigterm(i)
    BY <1>6 DEF TypeOK, Adopted, TorSigterm, confVars, clientVars
  <1>7. CASE TorStops(i)
    BY <1>7 DEF TypeOK, Adopted, TorStops, confVars, clientVars
  <1>8. CASE TorCleanup(i)
    BY <1>8 DEF TypeOK, Adopted, TorCleanup, confVars, clientVars
  <1>9. CASE SendCode(i)
    BY <1>9 DEF TypeOK, Adopted, SendCode, confVars, clientVars
  <1>10. CASE FreeConf(i)
    BY <1>10 DEF TypeOK, Adopted, FreeConf, confVars, clientVars
  <1>11. CASE FreeArgv(i)
    BY <1>11 DEF TypeOK, Adopted, FreeArgv, confVars, clientVars
  <1> QED
    BY <1>1, <1>2, <1>3, <1>4, <1>5, <1>6, <1>7, <1>8, <1>9, <1>10, <1>11 DEF Goroutine

(* Adopted is inductive.                                                    *)
LEMMA NextAdopted == TypeOK /\ Life /\ Adopted /\ [Next]_vars => Adopted'
  <1> SUFFICES ASSUME TypeOK, Life, Adopted, [Next]_vars PROVE Adopted'
    OBVIOUS
  <1>1. CASE \E i \in Inst : Client(i) \/ Goroutine(i)
    BY <1>1, ClientAdopted, GoroutineAdopted
  <1>2. CASE OpenOther \/ CloseOther \/ UNCHANGED vars
    BY <1>2 DEF Adopted, OpenOther, CloseOther, vars, confVars, clientVars, torVars
  <1> QED
    BY <1>1, <1>2 DEF Next

(* Whenever Tor runs its main loop, the connection it was told about is     *)
(* attached by the number of Tor's own open end, its loss has already       *)
(* raised SIGTERM, or another instance has closed the number under Tor.     *)
THEOREM ControlConnServedHolds == Spec => []ControlConnServed
  <1>1. ASSUME TypeOK, Holders, Adopted PROVE ControlConnServed
    <2> SUFFICES ASSUME NEW i \in Inst, tor[i] = "loop", ownedArg[i] = "fd",
                        ~sigterm[i], ~Robbed(i)
                 PROVE  torConn[i] # NoFd /\ fdtab[torConn[i]] = TorEnd(i)
      BY DEF ControlConnServed
    <2>1. torConn[i] # NoFd
      BY <1>1 DEF Adopted
    <2>2. PICK f \in Fd : fdtab[f] = TorEnd(i)
      BY <2>1 DEF Robbed, Gone
    <2>3. f = torConn[i]
      BY <1>1, <2>1, <2>2 DEF Holders
    <2> QED
      BY <2>1, <2>2, <2>3
  <1> QED
    BY <1>1, InitType, NextType, InitLife, NextLife, InitHolders, NextHolders,
       InitAdopted, NextAdopted, PTL DEF Spec

(* What one instance alone holds until its configuration is freed: its two  *)
(* Go files and the program's own file are what they were opened as, and so *)
(* is Tor's end until Tor closes it.                                        *)
SoleOwn ==
  \A i \in Inst :
    tor[i] \notin {"confFreed", "over"} =>
      /\ goFile[i] # NoFd => fdtab[goFile[i]] = AppEnd(i) /\ goFile[i] # goConn[i]
      /\ goConn[i] # NoFd => fdtab[goConn[i]] = AppEnd(i)
      /\ other # NoFd => fdtab[other] = OtherFile
      /\ ocs[i] # NoFd /\ (torConn[i] # NoFd \/ tor[i] \in {"idle", "spawned", "init"})
           => fdtab[ocs[i]] = TorEnd(i)

(* With one instance, a number is closed only by the hands that hold it,    *)
(* until the configuration is freed: ocs goes stale when Tor closes its     *)
(* connection, and only FreeConf uses it after that.                        *)
LEMMA NextSole ==
  ASSUME TypeOK, Life, Holders, SoleOwn, NEW i \in Inst, Inst = {i}, [Next]_vars
  PROVE  SoleOwn'
  <1>1. /\ fdtab \in [Fd -> Description] /\ tor \in [Inst -> TorState]
        /\ ocs \in [Inst -> Fd \cup {NoFd}] /\ torConn \in [Inst -> Fd \cup {NoFd}]
        /\ goFile \in [Inst -> Fd \cup {NoFd}] /\ goConn \in [Inst -> Fd \cup {NoFd}]
        /\ other \in Fd \cup {NoFd} /\ torConn[i] \in {NoFd, ocs[i]}
    BY DEF TypeOK, Holders
  <1>2. /\ AppEnd(i) # TorEnd(i) /\ AppEnd(i) # OtherFile /\ TorEnd(i) # OtherFile
        /\ Closed \notin {AppEnd(i), TorEnd(i), OtherFile}
    BY DEF AppEnd, TorEnd, OtherFile, Closed
  <1>3. CASE ControlConn(i)
    <2>1. PICK a \in Fd, b \in Fd, c \in Fd \cup {NoFd} : Connected(i, a, b, c)
      BY <1>3, ControlConnFact
    <2>2. tor[i] = "idle" /\ UNCHANGED <<other, tor, torConn>>
      BY <1>3 DEF ControlConn, torVars
    <2>3. ocs[i] = NoFd /\ goFile[i] = NoFd /\ goConn[i] = NoFd
      BY <1>3 DEF ControlConn, Holders
    <2>4. other # NoFd => other \notin {a, b, c}
      BY <2>1, <2>2, <1>2 DEF SoleOwn, Connected
    <2> QED
      BY <1>1, <2>1, <2>2, <2>3, <2>4, FdAssumption DEF SoleOwn, Connected
  <1>4. CASE CloseConn(i)
    <2>1. \A g \in Fd \ {goConn[i]} : fdtab'[g] = fdtab[g]
      BY <1>1, <1>4, CloseFdFact DEF CloseConn
    <2>2. goConn' = [goConn EXCEPT ![i] = NoFd] /\ UNCHANGED <<ocs, goFile, other, tor, torConn>>
      BY <1>4 DEF CloseConn, confVars, torVars
    <2>3. goConn[i] # NoFd /\ goConn[i] \in Fd
      BY <1>1, <1>4 DEF CloseConn
    <2> QED
      BY <1>1, <1>2, <2>1, <2>2, <2>3, FdAssumption DEF SoleOwn
  <1>5. CASE FinalizeFile(i)
    <2>1. \A g \in Fd \ {goFile[i]} : fdtab'[g] = fdtab[g]
      BY <1>1, <1>5, CloseFdFact DEF FinalizeFile
    <2>2. goFile' = [goFile EXCEPT ![i] = NoFd] /\ UNCHANGED <<ocs, goConn, other, tor, torConn>>
      BY <1>5 DEF FinalizeFile, confVars, torVars
    <2>3. goFile[i] # NoFd /\ goFile[i] \in Fd
      BY <1>1, <1>5 DEF FinalizeFile
    <2> QED
      BY <1>1, <1>2, <2>1, <2>2, <2>3, FdAssumption DEF SoleOwn
  <1>6. CASE TorEof(i) \/ TorCleanup(i)
    <2>1. CASE torConn[i] = NoFd
      BY <1>1, <1>6, <2>1, FdAssumption
      DEF SoleOwn, TorEof, TorCleanup, CloseFd, confVars, clientVars
    <2>2. CASE torConn[i] # NoFd
      <3>1. tor[i] \in {"loop", "cleanup"}
        BY <1>6 DEF TorEof, TorCleanup
      <3>2. torConn[i] = ocs[i] /\ fdtab[ocs[i]] = TorEnd(i)
        BY <1>1, <2>2, <3>1 DEF SoleOwn
      <3>3. \A g \in Fd \ {ocs[i]} : fdtab'[g] = fdtab[g]
        BY <1>1, <1>6, <3>2, CloseFdFact DEF TorEof, TorCleanup
      <3>4. /\ torConn' = [torConn EXCEPT ![i] = NoFd]
            /\ UNCHANGED <<ocs, goFile, goConn, other>>
            /\ tor'[i] \in {"loop", "returned"}
        BY <1>1, <1>6 DEF TorEof, TorCleanup, confVars, clientVars
      <3> QED
        BY <1>1, <1>2, <3>1, <3>2, <3>3, <3>4 DEF SoleOwn
    <2> QED
      BY <2>1, <2>2
  <1>7. CASE FreeConf(i) \/ FreeArgv(i)
    BY <1>1, <1>7 DEF SoleOwn, FreeConf, FreeArgv
  <1>8. CASE OpenOther
    BY <1>1, <1>2, <1>8 DEF SoleOwn, OpenOther, Lowest, FreeFds, confVars, torVars
  <1>9. CASE CloseOther
    <2>1. \A g \in Fd \ {other} : fdtab'[g] = fdtab[g]
      BY <1>1, <1>9, CloseFdFact DEF CloseOther
    <2>2. other # NoFd /\ other' = NoFd /\ UNCHANGED <<ocs, goFile, goConn, tor, torConn>>
      BY <1>9 DEF CloseOther, confVars, torVars
    <2> QED
      BY <1>1, <1>2, <2>1, <2>2, FdAssumption DEF SoleOwn
  <1>10. CASE TorAdopt(i)
    BY <1>1, <1>10 DEF SoleOwn, TorAdopt, confVars, clientVars
  <1>11. CASE UNCHANGED vars
    BY <1>11 DEF SoleOwn, vars, confVars, clientVars, torVars
  <1>12. ASSUME Client(i) \/ Goroutine(i),
                ~(ControlConn(i) \/ CloseConn(i) \/ FinalizeFile(i)),
                ~(TorEof(i) \/ TorCleanup(i) \/ FreeConf(i) \/ FreeArgv(i) \/ TorAdopt(i))
         PROVE  SoleOwn'
    <2>1. UNCHANGED <<ocs, goFile, goConn, other, torConn, fdtab>>
      BY <1>12
      DEF Client, Goroutine, New, Start, StartFails, WaitCall, WaitCode, WaitCtx, Cancel,
          TorEnter, TorInitEnds, TorLoop, TorSigterm, TorStops, SendCode,
          confVars, clientVars, torVars
    <2>2. /\ tor'[i] \in {"idle", "spawned", "init"} => tor[i] \in {"idle", "spawned", "init"}
          /\ tor'[i] \notin {"confFreed", "over"} => tor[i] \notin {"confFreed", "over"}
      BY <1>1, <1>12
      DEF Life, Client, Goroutine, New, Start, StartFails, WaitCall, WaitCode, WaitCtx, Cancel,
          TorEnter, TorInitEnds, TorLoop, TorSigterm, TorStops, SendCode, torVars
    <2> QED
      BY <2>1, <2>2 DEF SoleOwn
  <1> QED
    BY <1>3, <1>4, <1>5, <1>6, <1>7, <1>8, <1>9, <1>10, <1>11, <1>12 DEF Next

(* In a process with one instance nobody closes Tor's number under it, so   *)
(* that ControlConnServed holds there without its last excuse.              *)
THEOREM AloneNotRobbed ==
  ASSUME NEW i \in Inst, Inst = {i}
  PROVE  Spec => [](~Robbed(i))
  <1>1. Init => SoleOwn
    BY DEF Init, SoleOwn
  <1>2. ASSUME TypeOK, SoleOwn, Holders PROVE ~Robbed(i)
    <2> SUFFICES ASSUME tor[i] = "loop", torConn[i] # NoFd
                 PROVE  fdtab[torConn[i]] = TorEnd(i) /\ torConn[i] \in Fd
      BY DEF Robbed, Gone
    <2> QED
      BY <1>2 DEF TypeOK, Holders, SoleOwn
  <1>3. TypeOK /\ Life /\ Holders /\ SoleOwn /\ [Next]_vars => SoleOwn'
    BY NextSole
  <1> HIDE DEF Robbed
  <1> QED
    BY <1>1, <1>2, <1>3, InitType, NextType, InitLife, NextLife, InitHolders, NextHolders,
       PTL DEF Spec

-----------------------------------------------------------------------------
(* The contract                                                             *)

(* The two defers of Start free the configuration, then the arguments, and  *)
(* nothing else frees either of an instance that was started.               *)
Frees ==
  \A i \in Inst :
    /\ tor[i] = "idle" => conf[i] # "freed"
    /\ tor[i] = "confFreed" => conf[i] = "freed" /\ argv[i] = "alloc"
    /\ tor[i] = "over" => conf[i] = "freed" /\ argv[i] = "freed"

view == <<Phases, Told, Storages>>

(* A step that keeps what the contract sees of every instance is a stutter. *)
LEMMA Unseen ==
  ASSUME \A i \in Inst : /\ PhaseOf(i)' = PhaseOf(i)
                         /\ StorageOf(i)' = StorageOf(i)
                         /\ (done'[i] = "drained") = (done[i] = "drained")
  PROVE  UNCHANGED view
  BY DEF view, Phases, Told, Storages

(* What is seen of i is all that a step on i can change.                    *)
LEMMA SeenOf ==
  ASSUME NEW i \in Inst, UNCHANGED <<conf, argv, done>>,
         tor \in [Inst -> TorState], NEW s, tor' = [tor EXCEPT ![i] = s]
  PROVE  /\ Told' = Told /\ Storages' = Storages
         /\ Phases' = [Phases EXCEPT ![i] = PhaseOf(i)']
  <1>1. \A j \in Inst : PhaseOf(j)' = IF j = i THEN PhaseOf(i)' ELSE PhaseOf(j)
    BY DEF PhaseOf
  <1>2. \A j \in Inst : StorageOf(j)' = StorageOf(j) /\ done'[j] = done[j]
    BY DEF StorageOf
  <1> QED
    BY <1>1, <1>2 DEF Phases, Told, Storages

(* Of the program's calls the contract sees Start and the receive in Wait.  *)
LEMMA ClientKeeps ==
  ASSUME TypeOK, Life, OnePending, Frees, NEW i \in Inst, Client(i)
  PROVE  Frees' /\ (Contract!PNext \/ UNCHANGED view)
  <1>1. CASE New(i)
    <2>1. /\ tor' = tor /\ done' = done /\ argv' = argv
          /\ \A j \in Inst : conf'[j] = "freed" <=> conf[j] = "freed"
      BY <1>1 DEF New, torVars, TypeOK
    <2>2. Frees'
      BY <1>1, <2>1 DEF Frees
    <2>3. \A j \in Inst : PhaseOf(j)' = PhaseOf(j) /\ StorageOf(j)' = StorageOf(j)
      BY <2>1 DEF PhaseOf, StorageOf
    <2> QED
      BY <2>1, <2>2, <2>3, Unseen
  <1>2. CASE Start(i)
    <2>1. /\ conf[i] = "live" /\ done[i] = "nil" /\ tor[i] = "idle"
          /\ \A j \in Inst \ {i} : done[j] \in {"nil", "drained"}
      BY <1>2 DEF Start, Life
    <2>2. /\ conf' = conf /\ argv' = [argv EXCEPT ![i] = "alloc"]
          /\ done' = [done EXCEPT ![i] = "empty"] /\ tor' = [tor EXCEPT ![i] = "spawned"]
      BY <1>2 DEF Start
    <2>3. Frees'
      BY <2>1, <2>2 DEF Frees, TypeOK
    <2>4. \A j \in Inst : /\ PhaseOf(j)' = IF j = i THEN "started" ELSE PhaseOf(j)
                          /\ StorageOf(j)' = StorageOf(j)
                          /\ (done'[j] = "drained") = (done[j] = "drained")
      BY <2>1, <2>2 DEF PhaseOf, StorageOf, TypeOK
    <2>5. Told' = Told /\ Storages' = Storages /\ Phases' = [Phases EXCEPT ![i] = "started"]
      BY <2>4 DEF Told, Storages, Phases
    <2>6. /\ Phases[i] = "made"
          /\ \A j \in Inst \ {i} : Phases[j] = "made" \/ Told[j]
      BY <2>1 DEF Phases, PhaseOf, Told, Life
    <2>7. Contract!Begin(i)
      BY <2>5, <2>6 DEF Contract!Begin
    <2> QED
      BY <2>3, <2>7 DEF Contract!PNext
  <1>3. CASE StartFails(i)
    <2>1. /\ conf[i] = "null" /\ done[i] = "nil" /\ tor[i] = "idle"
          /\ conf' = conf /\ argv' = [argv EXCEPT ![i] = "freed"]
          /\ done' = done /\ tor' = tor
      BY <1>3 DEF StartFails, torVars, Life
    <2>2. Frees'
      BY <2>1 DEF Frees, TypeOK
    <2>3. \A j \in Inst : PhaseOf(j)' = PhaseOf(j) /\ StorageOf(j)' = StorageOf(j)
      BY <2>1 DEF PhaseOf, StorageOf, TypeOK
    <2> QED
      BY <2>1, <2>2, <2>3, Unseen
  <1>4. CASE WaitCode(i)
    <2>1. /\ done[i] = "filled" /\ done' = [done EXCEPT ![i] = "drained"]
          /\ UNCHANGED <<conf, argv, tor>>
      BY <1>4 DEF WaitCode, confVars, torVars
    <2>2. tor[i] \in {"sent", "confFreed", "over"}
      BY <2>1 DEF Life
    <2>3. Phases[i] = "ended" /\ ~Told[i]
      BY <2>1, <2>2 DEF Phases, PhaseOf, Told, InTorRunMain
    <2>4. Phases' = Phases /\ Storages' = Storages
      BY <2>1 DEF Phases, PhaseOf, Storages, StorageOf
    <2>5. \A j \in Inst : (done'[j] = "drained") = IF j = i THEN TRUE ELSE done[j] = "drained"
      BY <2>1 DEF TypeOK
    <2>6. Told' = [Told EXCEPT ![i] = TRUE]
      BY <2>5 DEF Told
    <2>7. Contract!Tell(i)
      BY <2>3, <2>4, <2>6 DEF Contract!Tell
    <2> QED
      BY <2>1, <2>7 DEF Contract!PNext, Frees
  <1>5. CASE \/ ControlConn(i) \/ WaitCall(i) \/ WaitCtx(i) \/ Cancel(i)
             \/ CloseConn(i) \/ FinalizeFile(i)
    <2>1. UNCHANGED <<conf, argv, done, tor>>
      BY <1>5
      DEF ControlConn, WaitCall, WaitCtx, Cancel, CloseConn, FinalizeFile, confVars, torVars
    <2>2. \A j \in Inst : PhaseOf(j)' = PhaseOf(j) /\ StorageOf(j)' = StorageOf(j)
      BY <2>1 DEF PhaseOf, StorageOf
    <2> QED
      BY <2>1, <2>2, Unseen DEF Frees
  <1> QED
    BY <1>1, <1>2, <1>3, <1>4, <1>5 DEF Client

(* The goroutine enters tor_run_main alone, leaves it, and runs its defers  *)
(* in order; inside tor_run_main the contract sees nothing.                 *)
LEMMA GoroutineKeeps ==
  ASSUME TypeOK, Life, OnePending, Frees, NEW i \in Inst, Goroutine(i)
  PROVE  Frees' /\ (Contract!PNext \/ UNCHANGED view)
  <1>1. CASE TorEnter(i)
    <2>1. /\ tor[i] = "spawned" /\ tor' = [tor EXCEPT ![i] = "init"]
          /\ UNCHANGED <<conf, argv, done>> /\ tor \in [Inst -> TorState]
      BY <1>1 DEF TorEnter, confVars, TypeOK
    <2>2. done[i] = "empty" /\ conf[i] = "live"
      BY <2>1 DEF Life, TypeOK, HoldsConf
    <2>3. \A j \in Inst : tor[j] \notin InTorRunMain
      BY <2>1, <2>2 DEF Life, OnePending, TypeOK, InTorRunMain
    <2>4. Phases' = [Phases EXCEPT ![i] = "running"] /\ Told' = Told /\ Storages' = Storages
      BY <2>1, SeenOf DEF PhaseOf, InTorRunMain
    <2>5. /\ Phases[i] = "started" /\ Storages[i] = "kept"
          /\ \A j \in Inst : Phases[j] # "running"
      BY <2>1, <2>2, <2>3 DEF Phases, PhaseOf, Storages, StorageOf
    <2>6. Contract!Run(i)
      BY <2>4, <2>5 DEF Contract!Run
    <2> QED
      BY <2>1, <2>6 DEF Contract!PNext, Frees
  <1>2. CASE TorCleanup(i)
    <2>1. /\ tor[i] = "cleanup" /\ tor' = [tor EXCEPT ![i] = "returned"]
          /\ UNCHANGED <<conf, argv, done>> /\ tor \in [Inst -> TorState]
      BY <1>2 DEF TorCleanup, confVars, TypeOK
    <2>2. conf[i] = "live"
      BY <2>1 DEF Life, HoldsConf, InTorRunMain
    <2>3. Phases' = [Phases EXCEPT ![i] = "ended"] /\ Told' = Told /\ Storages' = Storages
      BY <2>1, SeenOf DEF PhaseOf, InTorRunMain
    <2>4. Phases[i] = "running" /\ Storages[i] = "kept"
      BY <2>1, <2>2 DEF Phases, PhaseOf, Storages, StorageOf, InTorRunMain
    <2>5. Contract!End(i)
      BY <2>3, <2>4 DEF Contract!End
    <2> QED
      BY <2>1, <2>5 DEF Contract!PNext, Frees
  <1>3. CASE FreeConf(i)
    <2>1. /\ tor[i] = "sent" /\ tor' = [tor EXCEPT ![i] = "confFreed"]
          /\ conf' = [conf EXCEPT ![i] = "freed"] /\ UNCHANGED <<argv, done>>
      BY <1>3 DEF FreeConf
    <2>2. conf[i] = "live" /\ argv[i] = "alloc"
      BY <2>1 DEF Life, HoldsConf
    <2>3. Frees'
      BY <2>1, <2>2 DEF Frees, TypeOK
    <2>4. \A j \in Inst : /\ PhaseOf(j)' = PhaseOf(j)
                          /\ StorageOf(j)' = IF j = i THEN "argsOnly" ELSE StorageOf(j)
      BY <2>1, <2>2 DEF PhaseOf, StorageOf, TypeOK, InTorRunMain
    <2>5. Phases' = Phases /\ Told' = Told /\ Storages' = [Storages EXCEPT ![i] = "argsOnly"]
      BY <2>1, <2>4 DEF Phases, Told, Storages
    <2>6. Phases[i] = "ended" /\ Storages[i] = "kept"
      BY <2>1, <2>2 DEF Phases, PhaseOf, Storages, StorageOf, InTorRunMain
    <2>7. Contract!Release(i, "kept", "argsOnly")
      BY <2>5, <2>6 DEF Contract!Release
    <2> QED
      BY <2>3, <2>7 DEF Contract!PNext
  <1>4. CASE FreeArgv(i)
    <2>1. /\ tor[i] = "confFreed" /\ tor' = [tor EXCEPT ![i] = "over"]
          /\ argv' = [argv EXCEPT ![i] = "freed"] /\ UNCHANGED <<conf, done>>
      BY <1>4 DEF FreeArgv
    <2>2. conf[i] = "freed" /\ argv[i] = "alloc"
      BY <2>1 DEF Frees
    <2>3. Frees'
      BY <2>1, <2>2 DEF Frees, TypeOK
    <2>4. \A j \in Inst : /\ PhaseOf(j)' = PhaseOf(j)
                          /\ StorageOf(j)' = IF j = i THEN "released" ELSE StorageOf(j)
      BY <2>1, <2>2 DEF PhaseOf, StorageOf, TypeOK, InTorRunMain
    <2>5. Phases' = Phases /\ Told' = Told /\ Storages' = [Storages EXCEPT ![i] = "released"]
      BY <2>1, <2>4 DEF Phases, Told, Storages
    <2>6. Phases[i] = "ended" /\ Storages[i] = "argsOnly"
      BY <2>1, <2>2 DEF Phases, PhaseOf, Storages, StorageOf, InTorRunMain
    <2>7. Contract!Release(i, "argsOnly", "released")
      BY <2>5, <2>6 DEF Contract!Release
    <2> QED
      BY <2>3, <2>7 DEF Contract!PNext
  <1>5. CASE \/ TorInitEnds(i) \/ TorAdopt(i) \/ TorLoop(i) \/ TorEof(i)
             \/ TorSigterm(i) \/ TorStops(i)
    <2>1. /\ UNCHANGED <<conf, argv, done>>
          /\ \A j \in Inst : \/ tor'[j] = tor[j]
                             \/ tor[j] \in InTorRunMain /\ tor'[j] \in InTorRunMain
      BY <1>5
      DEF TorInitEnds, TorAdopt, TorLoop, TorEof, TorSigterm, TorStops, confVars, TypeOK,
          InTorRunMain
    <2>2. \A j \in Inst : PhaseOf(j)' = PhaseOf(j) /\ StorageOf(j)' = StorageOf(j)
      BY <2>1 DEF PhaseOf, StorageOf, InTorRunMain
    <2>3. Frees'
      BY <2>1 DEF Frees, InTorRunMain
    <2> QED
      BY <2>1, <2>2, <2>3, Unseen
  <1>6. CASE SendCode(i)
    <2>1. /\ UNCHANGED <<conf, argv>>
          /\ tor[i] = "returned" /\ tor' = [tor EXCEPT ![i] = "sent"]
          /\ done[i] = "empty" /\ done' = [done EXCEPT ![i] = "filled"]
      BY <1>6 DEF SendCode, confVars
    <2>2. \A j \in Inst : /\ PhaseOf(j)' = PhaseOf(j) /\ StorageOf(j)' = StorageOf(j)
                          /\ (done'[j] = "drained") = (done[j] = "drained")
      BY <2>1 DEF PhaseOf, StorageOf, TypeOK, InTorRunMain
    <2>3. Frees'
      BY <2>1 DEF Frees, TypeOK
    <2> QED
      BY <2>2, <2>3, Unseen
  <1> QED
    BY <1>1, <1>2, <1>3, <1>4, <1>5, <1>6 DEF Goroutine

(* Every step is one of the contract's, or none.                            *)
LEMMA NextKeeps ==
  TypeOK /\ Life /\ OnePending /\ Frees /\ [Next]_vars => Frees' /\ [Contract!PNext]_view
  <1> SUFFICES ASSUME TypeOK, Life, OnePending, Frees, [Next]_vars
               PROVE  Frees' /\ (Contract!PNext \/ UNCHANGED view)
    OBVIOUS
  <1>1. CASE \E i \in Inst : Client(i) \/ Goroutine(i)
    BY <1>1, ClientKeeps, GoroutineKeeps
  <1>2. CASE OpenOther \/ CloseOther \/ UNCHANGED vars
    <2>1. UNCHANGED <<conf, argv, done, tor>>
      BY <1>2 DEF OpenOther, CloseOther, vars, confVars, torVars
    <2>2. \A j \in Inst : PhaseOf(j)' = PhaseOf(j) /\ StorageOf(j)' = StorageOf(j)
      BY <2>1 DEF PhaseOf, StorageOf
    <2> QED
      BY <2>1, <2>2, Unseen DEF Frees
  <1> QED
    BY <1>1, <1>2 DEF Next

(* Before any call every instance is only made.                             *)
LEMMA InitKeeps == Init => Frees /\ Contract!PInit
  <1> SUFFICES ASSUME Init PROVE Frees /\ Contract!PInit
    OBVIOUS
  <1>1. \A i \in Inst : /\ conf[i] = "unborn" /\ done[i] = "nil" /\ tor[i] = "idle"
                        /\ PhaseOf(i) = "made" /\ StorageOf(i) = "kept"
    BY DEF Init, PhaseOf, StorageOf
  <1>2. Phases = [i \in Inst |-> "made"] /\ Storages = [i \in Inst |-> "kept"]
    BY <1>1 DEF Phases, Storages
  <1>3. \A i \in Inst : (done[i] = "drained") = FALSE
    BY <1>1
  <1>4. Told = [i \in Inst |-> FALSE]
    BY <1>3 DEF Told
  <1> QED
    BY <1>1, <1>2, <1>4 DEF Frees, Contract!PInit

(* libtor.go implements what process.Process and tor_api.h promise: one     *)
(* tor_run_main at a time, each exit code received once and after the end,  *)
(* the configuration released after the end and the arguments after it.     *)
THEOREM ImplementsProcess == Spec => KeepsContract
  <1>1. [Contract!PNext]_view <=> [Contract!PNext]_<<Phases, Told, Storages>>
    BY DEF view
  <1> QED
    BY <1>1, InitType, NextType, InitLife, NextLife, InitKeeps, NextKeeps, PTL
    DEF Spec, KeepsContract, Contract!PSpec

-----------------------------------------------------------------------------
(* Waiting                                                                  *)

(* Who has the exit code has drained the channel; who has the context's     *)
(* error had a context that has ended.                                      *)
WaitKnows ==
  \A i \in Inst :
    /\ waiter[i] = "gotCode" => done[i] = "drained"
    /\ waiter[i] = "gotCtx" => ctx[i] = "cancelled"
    /\ ctx[i] = "cancelled" => i \in Cancellable

LEMMA NextWaitKnows == TypeOK /\ WaitKnows /\ [Next]_vars => WaitKnows'
  <1> SUFFICES ASSUME TypeOK, WaitKnows, [Next]_vars PROVE WaitKnows'
    OBVIOUS
  <1> USE DEF WaitKnows
  <1>1. ASSUME NEW i \in Inst, Client(i) PROVE WaitKnows'
    <2>1. CASE Start(i)
      BY <2>1 DEF Start, clientVars, TypeOK
    <2>2. CASE WaitCall(i)
      BY <2>2 DEF WaitCall, TypeOK
    <2>3. CASE WaitCode(i)
      BY <2>3 DEF WaitCode, TypeOK
    <2>4. CASE WaitCtx(i)
      BY <2>4 DEF WaitCtx, TypeOK
    <2>5. CASE Cancel(i)
      BY <2>5 DEF Cancel, TypeOK
    <2>6. CASE New(i) \/ ControlConn(i) \/ StartFails(i) \/ CloseConn(i) \/ FinalizeFile(i)
      <3>1. UNCHANGED <<waiter, done, ctx>>
        BY <2>6 DEF New, ControlConn, StartFails, CloseConn, FinalizeFile, clientVars
      <3> QED
        BY <3>1
    <2> QED
      BY <1>1, <2>1, <2>2, <2>3, <2>4, <2>5, <2>6 DEF Client
  <1>2. ASSUME NEW i \in Inst, Goroutine(i) PROVE WaitKnows'
    <2>1. waiter' = waiter /\ ctx' = ctx /\ \A j \in Inst : done[j] = "drained" => done'[j] = "drained"
      BY <1>2
      DEF Goroutine, TorEnter, TorInitEnds, TorAdopt, TorLoop, TorEof, TorSigterm, TorStops,
          TorCleanup, SendCode, FreeConf, FreeArgv, clientVars, TypeOK
    <2> QED
      BY <2>1
  <1>3. CASE OpenOther \/ CloseOther \/ UNCHANGED vars
    BY <1>3 DEF OpenOther, CloseOther, vars, clientVars
  <1> QED
    BY <1>1, <1>2, <1>3 DEF Next

(* A Wait that returns something other than the end of its context returns  *)
(* when tor_run_main has; so its comment is right for every program whose   *)
(* contexts do not end, and wrong, as run EmbedWait shows, for the others.  *)
THEOREM WaitMeansTerminatedWithout ==
  /\ Spec => [](\A i \in Inst :
                  waiter[i] \in {"gotCode", "gotCtx"} /\ i \notin Cancellable
                    => tor[i] \in TorIsOver)
  /\ Cancellable = {} => (Spec => []WaitMeansTerminated)
  <1> DEFINE Honest == \A i \in Inst :
                         waiter[i] \in {"gotCode", "gotCtx"} /\ i \notin Cancellable
                           => tor[i] \in TorIsOver
  <1>1. Init => WaitKnows
    BY DEF Init, WaitKnows
  <1>2. Life /\ WaitKnows => Honest
    BY DEF Life, WaitKnows, TorIsOver
  <1>3. Spec => []Honest
    <2> HIDE DEF Honest
    <2> QED
      BY <1>1, <1>2, InitType, NextType, InitLife, NextLife, NextWaitKnows, PTL DEF Spec
  <1>4. ASSUME Cancellable = {} PROVE Spec => []WaitMeansTerminated
    <2>1. Honest => WaitMeansTerminated
      BY <1>4 DEF WaitMeansTerminated
    <2> HIDE DEF Honest
    <2> QED
      BY <1>3, <2>1, PTL
  <1> QED
    BY <1>3, <1>4

(* The goroutine's send does not block: the channel has room for the one    *)
(* code that is ever sent, whether or not anybody waits, so the deferred    *)
(* frees follow.                                                            *)
THEOREM SendNeverBlocks ==
  Spec => [](\A i \in Inst : tor[i] = "returned" => done[i] = "empty")
  <1> DEFINE Room == \A i \in Inst : tor[i] = "returned" => done[i] = "empty"
  <1>1. TypeOK /\ Life => Room
    BY DEF TypeOK, Life
  <1> HIDE DEF Room
  <1>2. Spec => []Room
    BY <1>1, InitType, NextType, InitLife, NextLife, PTL DEF Spec
  <1> QED
    BY <1>2 DEF Room

-----------------------------------------------------------------------------
(* Whose socket the deferred free closes                                    *)

(* Whoever holds a number holds it alone, and it still is what it was when  *)
(* it was opened.                                                           *)
HoldsOwn ==
  /\ \A i \in Inst :
       /\ ocs[i] # NoFd => fdtab[ocs[i]] = TorEnd(i)
       /\ goFile[i] # NoFd => fdtab[goFile[i]] = AppEnd(i) /\ goFile[i] # goConn[i]
       /\ goConn[i] # NoFd => fdtab[goConn[i]] = AppEnd(i)
  /\ other # NoFd => fdtab[other] = OtherFile

(* No Tor has taken a socket over.                                          *)
Unadopted == \A i \in Inst : torConn[i] = NoFd

(* A number that is opened was in nobody's hands, one that is closed leaves *)
(* the only hands it was in.                                                *)
LEMMA NextHoldsOwn ==
  ASSUME TypeOK, Holders, HoldsOwn, Unadopted, [Next]_vars
  PROVE  HoldsOwn'
  <1>1. ASSUME NEW i \in Inst, ControlConn(i) PROVE HoldsOwn'
    <2>1. PICK a \in Fd, b \in Fd, c \in Fd \cup {NoFd} : Connected(i, a, b, c)
      BY <1>1, ControlConnFact
    <2>2. other' = other
      BY <1>1 DEF ControlConn
    <2>3. ocs[i] = NoFd /\ goFile[i] = NoFd /\ goConn[i] = NoFd
      BY <1>1 DEF ControlConn, Holders
    <2>4. \A f \in {a, b, c} \ {NoFd} :
            /\ \A j \in Inst : ocs[j] # f /\ goFile[j] # f /\ goConn[j] # f
            /\ other # f
      <3> SUFFICES ASSUME NEW f \in {a, b, c} \ {NoFd}
                   PROVE  /\ \A j \in Inst : ocs[j] # f /\ goFile[j] # f /\ goConn[j] # f
                          /\ other # f
        OBVIOUS
      <3>1. fdtab[f] = Closed /\ f # NoFd
        BY <2>1 DEF Connected
      <3>2. OtherFile # Closed
        BY DEF OtherFile, Closed
      <3> QED
        BY <3>1, <3>2, Distinct DEF HoldsOwn
    <2>5. other # NoFd => fdtab'[other'] = OtherFile
      BY <2>1, <2>2, <2>4, FdAssumption DEF HoldsOwn, Connected, TypeOK
    <2>6. ASSUME NEW j \in Inst
          PROVE  /\ ocs'[j] # NoFd => fdtab'[ocs'[j]] = TorEnd(j)
                 /\ goFile'[j] # NoFd => fdtab'[goFile'[j]] = AppEnd(j) /\ goFile'[j] # goConn'[j]
                 /\ goConn'[j] # NoFd => fdtab'[goConn'[j]] = AppEnd(j)
      <3>1. CASE j = i
        BY <2>1, <2>3, <3>1, FdAssumption DEF Connected, TypeOK
      <3>2. CASE j # i
        BY <2>1, <2>4, <3>2, FdAssumption DEF HoldsOwn, Connected, TypeOK
      <3> QED
        BY <3>1, <3>2
    <2> QED
      BY <2>2, <2>5, <2>6 DEF HoldsOwn
  <1>2. ASSUME NEW i \in Inst, CloseConn(i) PROVE HoldsOwn'
    <2>1. goConn[i] \in Fd /\ fdtab[goConn[i]] = AppEnd(i)
      BY <1>2 DEF TypeOK, HoldsOwn, CloseConn
    <2>2. /\ \A j \in Inst : ocs[j] # goConn[i] /\ goFile[j] # goConn[i]
          /\ \A j \in Inst \ {i} : goConn[j] # goConn[i]
          /\ other # goConn[i]
      BY <2>1, Distinct, FdAssumption DEF HoldsOwn
    <2> QED
      BY <1>2, <2>1, <2>2, CloseFdFact DEF TypeOK, HoldsOwn, CloseConn, confVars, torVars
  <1>3. ASSUME NEW i \in Inst, FinalizeFile(i) PROVE HoldsOwn'
    <2>1. goFile[i] \in Fd /\ fdtab[goFile[i]] = AppEnd(i)
      BY <1>3 DEF TypeOK, HoldsOwn, FinalizeFile
    <2>2. /\ \A j \in Inst : ocs[j] # goFile[i] /\ goConn[j] # goFile[i]
          /\ \A j \in Inst \ {i} : goFile[j] # goFile[i]
          /\ other # goFile[i]
      BY <1>3, <2>1, Distinct, FdAssumption DEF HoldsOwn, FinalizeFile
    <2>3. \A g \in Fd \ {goFile[i]} : fdtab'[g] = fdtab[g]
      BY <1>3, CloseFdFact DEF TypeOK, FinalizeFile
    <2>4. goFile' = [goFile EXCEPT ![i] = NoFd] /\ UNCHANGED <<ocs, goConn, other>>
      BY <1>3 DEF FinalizeFile, confVars
    <2> QED
      BY <2>2, <2>3, <2>4 DEF TypeOK, HoldsOwn
  <1>4. ASSUME NEW i \in Inst, FreeConf(i) PROVE HoldsOwn'
    <2>1. CASE ocs[i] = NoFd
      BY <1>4, <2>1, FdAssumption
      DEF TypeOK, HoldsOwn, FreeConf, CloseFd, clientVars, torVars
    <2>2. CASE ocs[i] # NoFd
      <3>1. ocs[i] \in Fd /\ fdtab[ocs[i]] = TorEnd(i)
        BY <2>2 DEF TypeOK, HoldsOwn
      <3>2. /\ \A j \in Inst : goFile[j] # ocs[i] /\ goConn[j] # ocs[i]
            /\ \A j \in Inst \ {i} : ocs[j] # ocs[i]
            /\ other # ocs[i]
        BY <3>1, Distinct, FdAssumption DEF HoldsOwn
      <3> QED
        BY <1>4, <3>1, <3>2, CloseFdFact DEF TypeOK, HoldsOwn, FreeConf, clientVars, torVars
    <2> QED
      BY <2>1, <2>2
  <1>5. ASSUME NEW i \in Inst, TorCleanup(i) PROVE HoldsOwn'
    BY <1>5, FdAssumption
    DEF TypeOK, HoldsOwn, Unadopted, TorCleanup, CloseFd, confVars, clientVars
  <1>6. ASSUME NEW i \in Inst,
               Client(i) \/ Goroutine(i),
               ~(ControlConn(i) \/ CloseConn(i) \/ FinalizeFile(i) \/ FreeConf(i) \/ TorCleanup(i))
        PROVE  HoldsOwn'
    BY <1>6
    DEF HoldsOwn, Unadopted, Client, Goroutine, New, Start, StartFails, WaitCall, WaitCode,
        WaitCtx, Cancel, TorEnter, TorInitEnds, TorAdopt, TorLoop, TorEof, TorSigterm,
        TorStops, SendCode, FreeArgv, confVars, clientVars, torVars
  <1>7. CASE OpenOther
    BY <1>7, Distinct
    DEF TypeOK, HoldsOwn, OpenOther, Lowest, FreeFds, OtherFile, Closed, confVars, torVars
  <1>8. CASE CloseOther
    <2>1. other \in Fd /\ fdtab[other] = OtherFile
      BY <1>8 DEF TypeOK, HoldsOwn, CloseOther
    <2>2. \A j \in Inst : ocs[j] # other /\ goFile[j] # other /\ goConn[j] # other
      BY <2>1, Distinct, FdAssumption DEF HoldsOwn
    <2> QED
      BY <1>8, <2>1, <2>2, CloseFdFact DEF TypeOK, HoldsOwn, CloseOther, confVars, torVars
  <1>9. CASE UNCHANGED vars
    BY <1>9 DEF HoldsOwn, vars, confVars, clientVars, torVars
  <1> QED
    BY <1>1, <1>2, <1>3, <1>4, <1>5, <1>6, <1>7, <1>8, <1>9 DEF Next

(* tor_main_configuration_free closes its own socket in every process in    *)
(* which no Tor has adopted one (all of them failed, or were not told): so  *)
(* what run EmbedOwned finds comes from the second owner alone, neither     *)
(* from the program's closes nor from how instances follow each other.      *)
THEOREM UnadoptedSocketIsOwn == Spec /\ []Unadopted => FreeClosesOwnSocket
  <1> DEFINE Step == \A i \in Inst :
                       FreeConf(i) /\ ocs[i] # NoFd => fdtab[ocs[i]] \in {TorEnd(i), Closed}
  <1>1. Init => HoldsOwn
    BY DEF Init, HoldsOwn
  <1>2. TypeOK /\ Holders /\ HoldsOwn /\ Unadopted /\ [Next]_vars => HoldsOwn'
    BY NextHoldsOwn
  <1>3. HoldsOwn /\ [Next]_vars => [Step]_vars
    BY DEF HoldsOwn
  <1> HIDE DEF Step
  <1>4. Spec /\ []Unadopted => [][Step]_vars
    BY <1>1, <1>2, <1>3, InitType, NextType, InitLife, NextLife, InitHolders, NextHolders, PTL
    DEF Spec
  <1> QED
    BY <1>4 DEF FreeClosesOwnSocket, Step
=============================================================================
