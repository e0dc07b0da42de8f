------------------------------ MODULE Process -------------------------------
(***************************************************************************)
(* What a program that embeds Tor is promised about the instances it       *)
(* makes: by process.Process, which libtor.go implements, and by the       *)
(* limitations that tor_api.h states for tor_run_main and for the          *)
(* configuration handed to it.  An instance is started once; tor_run_main  *)
(* runs for one instance at a time; the exit code is received once, after  *)
(* tor_run_main has returned; and what tor_run_main read is released after *)
(* it, the configuration before the arguments it points to.                *)
(***************************************************************************)
CONSTANT Inst

VARIABLES
  phase,    \* phase[i]: how far the instance i has come
  told,     \* told[i]: the program has received its exit code
  storage   \* storage[i]: what is left of its configuration and arguments

PTypeOK ==
  /\ phase \in [Inst -> {"made", "started", "running", "ended"}]
  /\ told \in [Inst -> BOOLEAN]
  /\ storage \in [Inst -> {"kept", "argsOnly", "released"}]

PInit ==
  /\ phase = [i \in Inst |-> "made"]
  /\ told = [i \in Inst |-> FALSE]
  /\ storage = [i \in Inst |-> "kept"]

(* The program has the exit code of every other instance it started.        *)
Begin(i) ==
  /\ phase[i] = "made"
  /\ \A j \in Inst \ {i} : phase[j] = "made" \/ told[j]
  /\ phase' = [phase EXCEPT ![i] = "started"]
  /\ UNCHANGED <<told, storage>>

Run(i) ==
  /\ phase[i] = "started" /\ \A j \in Inst : phase[j] # "running"
  /\ storage[i] = "kept"
  /\ phase' = [phase EXCEPT ![i] = "running"]
  /\ UNCHANGED <<told, storage>>

End(i) ==
  /\ phase[i] = "running" /\ storage[i] = "kept"
  /\ phase' = [phase EXCEPT ![i] = "ended"]
  /\ UNCHANGED <<told, storage>>

Tell(i) ==
  /\ phase[i] = "ended" /\ ~told[i]
  /\ told' = [told EXCEPT ![i] = TRUE]
  /\ UNCHANGED <<phase, storage>>

Release(i, from, to) ==
  /\ phase[i] = "ended" /\ storage[i] = from
  /\ storage' = [storage EXCEPT ![i] = to]
  /\ UNCHANGED <<phase, told>>

PNext ==
  \E i \in Inst :
    \/ Begin(i) \/ Run(i) \/ End(i) \/ Tell(i)
    \/ Release(i, "kept", "argsOnly") \/ Release(i, "argsOnly", "released")

PSpec == PInit /\ [][PNext]_<<phase, told, storage>>
=============================================================================
