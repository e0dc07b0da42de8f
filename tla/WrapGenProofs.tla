--------------------------- MODULE WrapGenProofs ----------------------------
(***************************************************************************)
(* Proofs about WrapGen, for any number of commits and of runs: type       *)
(* correctness, a consistent tree after a run that ended well, lock.json   *)
(* written only from the tree, Tor pinned.                                 *)
(*                                                                         *)
(* The invariant says what a run has done by the step it is at.  It relies *)
(* on the order of the plan: a library is checked out before it is staged, *)
(* wrapped or configured, and is not touched again after that.  Two more   *)
(* theorems say how far the promise goes that run WrapStale finds broken:  *)
(* an update leaves no stale wrapper, and no run that ends well has built  *)
(* what it wrapped.                                                        *)
(***************************************************************************)
EXTENDS WrapGen, TLAPS

-----------------------------------------------------------------------------
(* The plan                                                                 *)

ByLib(l, z, e, o, t) ==
  IF l = "zlib" THEN z ELSE IF l = "libevent" THEN e ELSE IF l = "openssl" THEN o ELSE t

CloneAt(l) == ByLib(l, 1, 4, 9, 13)
CheckoutAt(l) == ByLib(l, 2, 5, 10, 14)
WrapAt(l) == ByLib(l, 3, 7, 11, 16)
ConfigAt(l) == ByLib(l, 19, 8, 12, 17)   \* zlib has no such step

LEMMA PlanFact ==
  /\ Len(Plan) = 19
  /\ Plan[1] = <<"clone", "zlib">> /\ Plan[2] = <<"checkout", "zlib">>
  /\ Plan[3] = <<"wrap", "zlib">>
  /\ Plan[4] = <<"clone", "libevent">> /\ Plan[5] = <<"checkout", "libevent">>
  /\ Plan[6] = <<"stage", "libevent">> /\ Plan[7] = <<"wrap", "libevent">>
  /\ Plan[8] = <<"config", "libevent">>
  /\ Plan[9] = <<"clone", "openssl">> /\ Plan[10] = <<"checkout", "openssl">>
  /\ Plan[11] = <<"wrap", "openssl">> /\ Plan[12] = <<"config", "openssl">>
  /\ Plan[13] = <<"clone", "tor">> /\ Plan[14] = <<"checkout", "tor">>
  /\ Plan[15] = <<"configure", "tor">> /\ Plan[16] = <<"wrap", "tor">>
  /\ Plan[17] = <<"config", "tor">>
  /\ Plan[18] = <<"build", "all">> /\ Plan[19] = <<"save", "all">>
  BY DEF Plan

(* Each step has its place in the plan.                                     *)
LEMMA Where ==
  ASSUME at \in 0 .. Len(Plan), NEW s, NEW l, Step(s, l)
  PROVE  /\ at \in 1 .. 19
         /\ s = "clone" /\ l \in Lib => at = CloneAt(l)
         /\ s = "checkout" /\ l \in Lib => at = CheckoutAt(l)
         /\ s = "wrap" /\ l \in Lib => at = WrapAt(l)
         /\ s = "config" /\ l \in Lib => at = ConfigAt(l) /\ l # "zlib"
         /\ s = "stage" => at = 6
         /\ s = "configure" => at = 15
         /\ s = "build" => at = 18
         /\ s = "save" => at = 19
<1>1. at \in 1 .. 19 /\ Plan[at] = <<s, l>>
  BY PlanFact DEF Step
<1>2. s = Plan[at][1] /\ l = Plan[at][2]
  BY <1>1
<1> USE <1>1, <1>2 DEF Lib, CloneAt, CheckoutAt, WrapAt, ConfigAt, ByLib
<1>3. CASE at \in 1 .. 5
  BY <1>3, PlanFact
<1>4. CASE at \in 6 .. 10
  BY <1>4, PlanFact
<1>5. CASE at \in 11 .. 15
  BY <1>5, PlanFact
<1>6. CASE at \in 16 .. 19
  BY <1>6, PlanFact
<1> QED
  BY <1>3, <1>4, <1>5, <1>6

(* And each place in the plan its step.                                     *)
LEMMA Placed ==
  ASSUME at \in 0 .. Len(Plan), NEW s, NEW l, Step(s, l), NEW m \in Lib
  PROVE  /\ at = CheckoutAt(m) => s = "checkout" /\ l = m
         /\ at = WrapAt(m) => s = "wrap" /\ l = m
         /\ at = ConfigAt(m) /\ m # "zlib" => s = "config" /\ l = m
         /\ at = 6 => s = "stage"
         /\ at = 15 => s = "configure"
         /\ at = 19 => s = "save"
<1>1. Plan[at] = <<s, l>>
  BY DEF Step
<1>2. s = Plan[at][1] /\ l = Plan[at][2]
  BY <1>1
<1> QED
  BY <1>2, PlanFact DEF Lib, CheckoutAt, WrapAt, ConfigAt, ByLib

(* The order of the steps of one library, and the ones that another needs.  *)
LEMMA Order ==
  /\ \A l \in Lib : /\ CloneAt(l) \in Nat /\ CheckoutAt(l) \in Nat
                    /\ CheckoutAt(l) = CloneAt(l) + 1
                    /\ WrapAt(l) \in Nat /\ CheckoutAt(l) < WrapAt(l) /\ WrapAt(l) < 18
                    /\ ConfigAt(l) \in Nat /\ CheckoutAt(l) < ConfigAt(l)
                    /\ l # "zlib" => ConfigAt(l) < 18
                    /\ 0 < CloneAt(l)
  /\ CheckoutAt("libevent") = 5 /\ CloneAt("libevent") = 4
  /\ "libevent" \in Lib /\ "tor" \in Lib
  BY DEF Lib, CloneAt, CheckoutAt, WrapAt, ConfigAt, ByLib

-----------------------------------------------------------------------------
(* The inductive invariant                                                  *)

(* What the run has done with library l, by the steps that are behind it.   *)
CheckedOut(l) ==
  /\ tree[l] = got[l] /\ got[l] \in Commit
  /\ ~update => got[l] = pinned[l]
  /\ l = "tor" /\ pinned # NoLock => got[l] = pinned[l]

Cleaned == update /\ <<"clean", "all">> \notin failed

Wrapped(l) ==
  /\ <<"wrap", l>> \notin failed => Src(tree[l]) \subseteq wrapped[l]
  /\ Cleaned => wrapped[l] \subseteq Src(tree[l])

Configured(l) == <<"config", l>> \notin failed => config[l] = tree[l]

LibProgress(l) ==
  /\ at > CheckoutAt(l) => CheckedOut(l)
  /\ at > WrapAt(l) => Wrapped(l)
  /\ at <= WrapAt(l) /\ Cleaned => wrapped[l] = {}
  /\ l # "zlib" /\ at > ConfigAt(l) => Configured(l)

Staged ==
  /\ at > 6 => staged = tree["libevent"]
  /\ at > 15 => against = tree["libevent"]

Begun == pinned = lock /\ ~done /\ (update \/ lock # NoLock) /\ lock # TornLock

Progress == at # 0 => Begun /\ Staged /\ \A l \in Lib : LibProgress(l)

IInv == TypeOK /\ Progress /\ Consistent

LEMMA Sorts ==
  /\ TorBranch \in Commit /\ Gone \notin Commit /\ Tip \notin Commit /\ Common \notin Commit
  /\ 1 .. MaxCommit \subseteq Commit
  /\ \A c \in Commit : Src(c) \subseteq Commit \cup {Common}
  /\ NoLock \notin [Lib -> Commit] /\ TornLock \notin [Lib -> Commit] /\ NoLock # TornLock
<1>1. /\ TorBranch \in Commit /\ Gone \notin Commit /\ Tip \notin Commit
      /\ Common \notin Commit /\ 1 .. MaxCommit \subseteq Commit
  BY WrapAssumption DEF TorBranch, Commit, Gone, Tip, Common
<1>2. NoLock["tor"] = Gone /\ TornLock["tor"] = Tip
  BY DEF NoLock, TornLock, Lib
<1>3. NoLock \notin [Lib -> Commit] /\ TornLock \notin [Lib -> Commit] /\ NoLock # TornLock
  BY <1>1, <1>2, Order, WrapAssumption DEF Gone, Tip
<1> QED
  BY <1>1, <1>3 DEF Src

LEMMA InitInv == Init => IInv
<1> SUFFICES ASSUME Init PROVE IInv
  OBVIOUS
<1> USE DEF Init
<1>1. 1 \in Commit /\ 1 \in 1 .. MaxCommit /\ Src(1) \subseteq Commit \cup {Common}
  BY WrapAssumption, Sorts
<1>2. at \in 0 .. Len(Plan) /\ runs \in 0 .. MaxRuns
  BY PlanFact, WrapAssumption
<1>3. pinned = NoLock /\ lock \in [Lib -> Commit] \cup {NoLock}
  BY <1>1
<1>4. /\ failed \subseteq Unchecked /\ got \in [Lib -> Commit \cup {Gone}]
      /\ tree \in [Lib -> Commit \cup {Tip, Gone}]
      /\ config \in [Lib -> Commit \cup {Gone}]
      /\ wrapped \in [Lib -> SUBSET (Commit \cup {Common})]
  BY <1>1
<1>5. TypeOK
  BY <1>1, <1>2, <1>3, <1>4 DEF TypeOK
<1> QED
  BY <1>5 DEF IInv, Progress, Consistent

-----------------------------------------------------------------------------
(* One lemma for each action                                                *)

LEMMA StartInv ==
  ASSUME IInv, NEW u \in BOOLEAN, NEW f \in BOOLEAN, Start(u, f)
  PROVE  IInv'
<1> USE DEF Start
<1>1. TypeOK'
  <2>1. at' \in 0 .. Len(Plan) /\ runs' \in 0 .. MaxRuns
    BY PlanFact, WrapAssumption DEF IInv, TypeOK
  <2>2. wrapped' \in [Lib -> SUBSET (Commit \cup {Common})]
    BY DEF IInv, TypeOK
  <2>3. byhand' \subseteq {"gotor_extra", "der"}
    BY DEF IInv, TypeOK
  <2>4. failed' \subseteq Unchecked
    BY DEF Unchecked
  <2>5. pinned' \in [Lib -> Commit] \cup {NoLock}
    BY DEF IInv, TypeOK
  <2> QED
    BY <2>1, <2>2, <2>3, <2>4, <2>5 DEF IInv, TypeOK
<1>2. Begun'
  BY DEF Begun
<1>3. Staged'
  BY DEF Staged
<1>4. ASSUME NEW l \in Lib PROVE LibProgress(l)'
  <2>1. at' = 1 /\ ~(at' > CheckoutAt(l)) /\ ~(at' > WrapAt(l))
        /\ (l # "zlib" => ~(at' > ConfigAt(l)))
    BY Order
  <2>2. Cleaned' => wrapped'[l] = {}
    BY DEF Cleaned
  <2> QED
    BY <2>1, <2>2 DEF LibProgress, CheckoutAt, WrapAt, ConfigAt, ByLib
<1>5. Consistent'
  BY DEF Consistent
<1> QED
  BY <1>1, <1>2, <1>3, <1>4, <1>5 DEF IInv, Progress


(* What every step but the last has in common.                              *)
LEMMA Continues ==
  ASSUME IInv, NEW s, NEW l, Step(s, l), s # "save", Continue
  PROVE  /\ at \in 1 .. 18 /\ at' = at + 1 /\ at' \in 0 .. Len(Plan)
         /\ Begun /\ Staged /\ \A m \in Lib : LibProgress(m)
         /\ Begun' /\ Consistent' /\ lock' = lock
<1>1. at \in 1 .. 19
  BY Where DEF IInv, TypeOK
<1>2. at # 19
  BY Placed, Order DEF IInv, TypeOK
<1>3. Begun /\ Staged /\ \A m \in Lib : LibProgress(m)
  BY <1>1 DEF IInv, Progress
<1>4. Begun' /\ Consistent'
  BY <1>3 DEF Begun, Consistent, Continue, args
<1> QED
  BY <1>1, <1>2, <1>3, <1>4, PlanFact DEF Continue

(* Every step leaves the libraries it is not about where they are.          *)
LEMMA OthersInv ==
  ASSUME IInv, NEW s, NEW l, Step(s, l), s # "save", Continue,
         NEW m \in Lib, m # l,
         tree'[m] = tree[m], got'[m] = got[m], wrapped'[m] = wrapped[m],
         config'[m] = config[m], failed \subseteq failed'
  PROVE  LibProgress(m)'
<1>1. /\ at \in 1 .. 18 /\ at' = at + 1 /\ LibProgress(m)
  BY Continues
<1>2. at # CheckoutAt(m) /\ at # WrapAt(m) /\ (m # "zlib" => at # ConfigAt(m))
  BY Placed DEF IInv, TypeOK
<1>3. update' = update /\ pinned' = pinned
  BY DEF Continue, args
<1>4. CheckoutAt(m) \in Nat /\ WrapAt(m) \in Nat /\ ConfigAt(m) \in Nat
  BY Order
<1>5. /\ at' > CheckoutAt(m) => at > CheckoutAt(m)
      /\ at' > WrapAt(m) => at > WrapAt(m)
      /\ at' <= WrapAt(m) => at <= WrapAt(m)
      /\ m # "zlib" /\ at' > ConfigAt(m) => at > ConfigAt(m)
  BY <1>1, <1>2, <1>4
<1>6. /\ CheckedOut(m) => CheckedOut(m)'
      /\ Cleaned' => Cleaned
      /\ Wrapped(m) => Wrapped(m)'
      /\ Configured(m) => Configured(m)'
  BY <1>3 DEF CheckedOut, Wrapped, Configured, Cleaned, Src
<1>7. /\ CheckoutAt(m)' = CheckoutAt(m) /\ WrapAt(m)' = WrapAt(m)
      /\ ConfigAt(m)' = ConfigAt(m)
  BY DEF CheckoutAt, WrapAt, ConfigAt, ByLib
<1> QED
  BY <1>1, <1>3, <1>5, <1>6, <1>7 DEF LibProgress

(* A step after the staging that leaves libevent alone.                     *)
LEMMA StagedKept ==
  ASSUME IInv, NEW s, NEW l \in Lib, Step(s, l), s \notin {"stage", "configure", "save"},
         Continue,  tree'["libevent"] = tree["libevent"],
         staged' = staged, against' = against
  PROVE  Staged'
<1>1. at \in 1 .. 18 /\ at' = at + 1 /\ Staged
  BY Continues
<1>2. at # 6 /\ at # 15
  BY Placed DEF IInv, TypeOK
<1> QED
  BY <1>1, <1>2 DEF Staged

LEMMA CloneInv ==
  ASSUME IInv, NEW l \in Lib, Clone(l)
  PROVE  IInv'
<1> USE DEF Clone
<1>1. /\ at \in 1 .. 18 /\ at' = at + 1 /\ at' \in 0 .. Len(Plan)
      /\ Begun /\ Staged /\ LibProgress(l) /\ Begun' /\ Consistent'
  BY Continues
<1>2. at = CloneAt(l)
  BY Where DEF IInv, TypeOK
<1>3. TypeOK'
  <2>1. tree' \in [Lib -> Commit \cup {Tip, Gone}]
    BY DEF IInv, TypeOK
  <2> QED
    BY <1>1, <2>1 DEF IInv, TypeOK, Continue, args
<1>4. ASSUME NEW m \in Lib, m # l PROVE LibProgress(m)'
  <2>1. tree'[m] = tree[m]
    BY <1>4 DEF IInv, TypeOK
  <2> QED
    BY <1>4, <2>1, OthersInv
<1>5. LibProgress(l)'
  <2>1. /\ CloneAt(l) \in Nat /\ CheckoutAt(l) \in Nat /\ WrapAt(l) \in Nat
        /\ ConfigAt(l) \in Nat /\ CheckoutAt(l) = CloneAt(l) + 1
        /\ CheckoutAt(l) < WrapAt(l) /\ CheckoutAt(l) < ConfigAt(l)
    BY Order
  <2>2. /\ ~(at' > CheckoutAt(l)) /\ ~(at' > WrapAt(l)) /\ ~(at' > ConfigAt(l))
        /\ at <= WrapAt(l)
    BY <1>1, <1>2, <2>1
  <2>3. (Cleaned' => Cleaned) /\ wrapped' = wrapped
    BY DEF Continue, args, Cleaned
  <2>4. /\ CheckoutAt(l)' = CheckoutAt(l) /\ WrapAt(l)' = WrapAt(l)
        /\ ConfigAt(l)' = ConfigAt(l)
    BY DEF CheckoutAt, WrapAt, ConfigAt, ByLib
  <2> QED
    BY <1>1, <2>2, <2>3, <2>4 DEF LibProgress
<1>6. Staged'
  <2>1. CASE l = "libevent"
    BY <1>1, <1>2, <2>1, Order DEF Staged
  <2>2. CASE l # "libevent"
    <3>1. tree'["libevent"] = tree["libevent"]
      BY <2>2, Order DEF IInv, TypeOK
    <3> QED
      BY <3>1, StagedKept
  <2> QED
    BY <2>1, <2>2
<1> QED
  BY <1>1, <1>3, <1>4, <1>5, <1>6 DEF IInv, Progress

LEMMA CheckoutInv ==
  ASSUME IInv, NEW l \in Lib, Checkout(l)
  PROVE  IInv'
<1> USE DEF Checkout
<1>1. /\ at \in 1 .. 18 /\ at' = at + 1 /\ at' \in 0 .. Len(Plan)
      /\ Begun /\ Staged /\ LibProgress(l) /\ Begun' /\ Consistent'
  BY Continues
<1>2. at = CheckoutAt(l)
  BY Where DEF IInv, TypeOK
<1>3. /\ Wanted(l) \in Commit
      /\ ~update => Wanted(l) = pinned[l]
      /\ l = "tor" /\ pinned # NoLock => Wanted(l) = pinned[l]
  <2>1. pinned # NoLock => pinned[l] \in Commit
    BY DEF IInv, TypeOK
  <2>2. ~update => pinned # NoLock
    BY <1>1 DEF Begun
  <2>3. newest \in Commit /\ TorBranch \in Commit
    BY Sorts DEF IInv, TypeOK
  <2> QED
    BY <2>1, <2>2, <2>3 DEF Wanted
<1>4. TypeOK'
  <2>1. /\ tree' \in [Lib -> Commit \cup {Tip, Gone}]
        /\ got' \in [Lib -> Commit \cup {Gone}]
    BY <1>3 DEF IInv, TypeOK
  <2> QED
    BY <1>1, <2>1 DEF IInv, TypeOK, Continue, args
<1>5. ASSUME NEW m \in Lib, m # l PROVE LibProgress(m)'
  <2>1. tree'[m] = tree[m] /\ got'[m] = got[m]
    BY <1>5 DEF IInv, TypeOK
  <2> QED
    BY <1>5, <2>1, OthersInv
<1>6. LibProgress(l)'
  <2>1. /\ CheckoutAt(l) \in Nat /\ WrapAt(l) \in Nat /\ ConfigAt(l) \in Nat
        /\ CheckoutAt(l) < WrapAt(l) /\ CheckoutAt(l) < ConfigAt(l)
    BY Order
  <2>2. ~(at' > WrapAt(l)) /\ ~(at' > ConfigAt(l)) /\ at <= WrapAt(l)
    BY <1>1, <1>2, <2>1
  <2>3. update' = update /\ pinned' = pinned /\ wrapped' = wrapped /\ (Cleaned' => Cleaned)
    BY DEF Continue, args, Cleaned
  <2>4. tree'[l] = Wanted(l) /\ got'[l] = Wanted(l)
    BY DEF IInv, TypeOK
  <2>5. CheckedOut(l)'
    BY <1>3, <2>3, <2>4 DEF CheckedOut
  <2>6. /\ CheckoutAt(l)' = CheckoutAt(l) /\ WrapAt(l)' = WrapAt(l)
        /\ ConfigAt(l)' = ConfigAt(l)
    BY DEF CheckoutAt, WrapAt, ConfigAt, ByLib
  <2> QED
    BY <1>1, <2>2, <2>3, <2>5, <2>6 DEF LibProgress
<1>7. Staged'
  <2>1. CASE l = "libevent"
    BY <1>1, <1>2, <2>1, Order DEF Staged
  <2>2. CASE l # "libevent"
    <3>1. tree'["libevent"] = tree["libevent"]
      BY <2>2, Order DEF IInv, TypeOK
    <3> QED
      BY <3>1, StagedKept
  <2> QED
    BY <2>1, <2>2
<1> QED
  BY <1>1, <1>4, <1>5, <1>6, <1>7 DEF IInv, Progress

LEMMA WrapInv ==
  ASSUME IInv, NEW l \in Lib, Wrap(l)
  PROVE  IInv'
<1> USE DEF Wrap
<1>1. /\ at \in 1 .. 18 /\ at' = at + 1 /\ at' \in 0 .. Len(Plan)
      /\ Begun /\ Staged /\ LibProgress(l) /\ Begun' /\ Consistent'
  BY Continues
<1>2. at = WrapAt(l)
  BY Where DEF IInv, TypeOK
<1>3. /\ CheckoutAt(l) \in Nat /\ WrapAt(l) \in Nat /\ ConfigAt(l) \in Nat
      /\ CheckoutAt(l) < WrapAt(l)
  BY Order
<1>4. CheckedOut(l) /\ Src(tree[l]) \subseteq Commit \cup {Common}
  BY <1>1, <1>2, <1>3, Sorts DEF LibProgress, CheckedOut
<1>5. PICK lost \in SUBSET Src(tree[l]) :
        /\ wrapped' = [wrapped EXCEPT ![l] = (@ \cup Src(tree[l])) \ lost]
        /\ IF lost = {} THEN UNCHANGED failed ELSE l # "openssl" /\ PassOver("wrap", l)
  OBVIOUS
<1>10. wrapped'[l] = (wrapped[l] \cup Src(tree[l])) \ lost
  BY <1>5 DEF IInv, TypeOK
<1>11. failed \subseteq failed' /\ failed' \subseteq Unchecked
       /\ (<<"wrap", l>> \notin failed' => lost = {})
  BY <1>5 DEF IInv, TypeOK, PassOver, Unchecked
<1>6. TypeOK'
  <2>1. wrapped' \in [Lib -> SUBSET (Commit \cup {Common})]
    BY <1>4, <1>5 DEF IInv, TypeOK
  <2> QED
    BY <1>1, <1>11, <2>1 DEF IInv, TypeOK, Continue, args
<1>7. ASSUME NEW m \in Lib, m # l PROVE LibProgress(m)'
  <2>1. wrapped'[m] = wrapped[m]
    BY <1>5, <1>7 DEF IInv, TypeOK
  <2> QED
    BY <1>7, <1>11, <2>1, OthersInv
<1>8. LibProgress(l)'
  <2>1. update' = update /\ pinned' = pinned /\ tree' = tree /\ got' = got
        /\ config' = config
    BY DEF Continue, args
  <2>2. Wrapped(l)'
    <3>1. Cleaned' => wrapped[l] = {}
      BY <1>1, <1>2, <1>3, <1>11, <2>1 DEF LibProgress, Cleaned
    <3> QED
      BY <1>10, <1>11, <2>1, <3>1 DEF Wrapped, Src
  <2>3. CheckedOut(l)'
    BY <1>4, <2>1 DEF CheckedOut
  <2>4. /\ CheckoutAt(l)' = CheckoutAt(l) /\ WrapAt(l)' = WrapAt(l)
        /\ ConfigAt(l)' = ConfigAt(l)
    BY DEF CheckoutAt, WrapAt, ConfigAt, ByLib
  <2>5. l # "zlib" => at # ConfigAt(l)
    BY Placed DEF IInv, TypeOK
  <2>6. Configured(l) => Configured(l)'
    BY <1>11, <2>1 DEF Configured
  <2> QED
    BY <1>1, <1>2, <1>3, <2>1, <2>2, <2>3, <2>4, <2>5, <2>6 DEF LibProgress
<1>9. Staged'
  BY StagedKept
<1> QED
  BY <1>1, <1>6, <1>7, <1>8, <1>9 DEF IInv, Progress

LEMMA ConfigInv ==
  ASSUME IInv, NEW l \in Lib, Config(l)
  PROVE  IInv'
<1> USE DEF Config
<1>1. /\ at \in 1 .. 18 /\ at' = at + 1 /\ at' \in 0 .. Len(Plan)
      /\ Begun /\ Staged /\ LibProgress(l) /\ Begun' /\ Consistent'
  BY Continues
<1>2. at = ConfigAt(l) /\ l # "zlib"
  BY Where DEF IInv, TypeOK
<1>3. /\ CheckoutAt(l) \in Nat /\ WrapAt(l) \in Nat /\ ConfigAt(l) \in Nat
      /\ CheckoutAt(l) < ConfigAt(l)
  BY Order
<1>4. CheckedOut(l)
  BY <1>1, <1>2, <1>3 DEF LibProgress
<1>5. PICK c : /\ config' = [config EXCEPT ![l] = c]
              /\ c \in {tree[l], config[l], Gone}
              /\ \/ c = tree[l] /\ UNCHANGED failed
                 \/ PassOver("config", l)
  OBVIOUS
<1>10. config'[l] = c /\ byhand' \subseteq {"gotor_extra", "der"}
  BY <1>5 DEF IInv, TypeOK
<1>11. failed \subseteq failed' /\ failed' \subseteq Unchecked
       /\ (<<"config", l>> \notin failed' => c = tree[l])
  BY <1>2, <1>5 DEF IInv, TypeOK, PassOver, Unchecked
<1>6. TypeOK'
  <2>1. config' \in [Lib -> Commit \cup {Gone}]
    BY <1>4, <1>5 DEF IInv, TypeOK, CheckedOut
  <2> QED
    BY <1>1, <1>10, <1>11, <2>1 DEF IInv, TypeOK, Continue, args
<1>7. ASSUME NEW m \in Lib, m # l PROVE LibProgress(m)'
  <2>1. config'[m] = config[m]
    BY <1>5, <1>7 DEF IInv, TypeOK
  <2> QED
    BY <1>7, <1>11, <2>1, OthersInv
<1>8. LibProgress(l)'
  <2>1. update' = update /\ pinned' = pinned /\ tree' = tree /\ got' = got
        /\ wrapped' = wrapped
    BY DEF Continue, args
  <2>2. CheckedOut(l)' /\ (Cleaned' => Cleaned) /\ (Wrapped(l) => Wrapped(l)')
        /\ Configured(l)'
    BY <1>4, <1>10, <1>11, <2>1 DEF CheckedOut, Wrapped, Configured, Cleaned, Src
  <2>3. at # WrapAt(l)
    BY Placed DEF IInv, TypeOK
  <2>4. /\ CheckoutAt(l)' = CheckoutAt(l) /\ WrapAt(l)' = WrapAt(l)
        /\ ConfigAt(l)' = ConfigAt(l)
    BY DEF CheckoutAt, WrapAt, ConfigAt, ByLib
  <2> QED
    BY <1>1, <1>2, <1>3, <2>1, <2>2, <2>3, <2>4 DEF LibProgress
<1>9. Staged'
  BY StagedKept
<1> QED
  BY <1>1, <1>6, <1>7, <1>8, <1>9 DEF IInv, Progress

(* A step that leaves the libraries as they are.                            *)
LEMMA LibsKept ==
  ASSUME IInv, NEW s, NEW l, Step(s, l), s \in {"stage", "configure", "build"}, Continue,
          UNCHANGED <<tree, got, failed, wrapped, config>>
  PROVE  \A m \in Lib : LibProgress(m)'
<1> SUFFICES ASSUME NEW m \in Lib PROVE LibProgress(m)'
  OBVIOUS
<1>1. /\ at \in 1 .. 18 /\ at' = at + 1 /\ LibProgress(m)
  BY Continues
<1>2. at # CheckoutAt(m) /\ at # WrapAt(m) /\ (m # "zlib" => at # ConfigAt(m))
  BY Placed DEF IInv, TypeOK
<1>3. CheckoutAt(m) \in Nat /\ WrapAt(m) \in Nat /\ ConfigAt(m) \in Nat
  BY Order
<1>4. update' = update /\ pinned' = pinned
  BY DEF Continue, args
<1>5. /\ CheckedOut(m) => CheckedOut(m)'
      /\ Cleaned' => Cleaned
      /\ Wrapped(m) => Wrapped(m)'
      /\ Configured(m) => Configured(m)'
  BY <1>4 DEF CheckedOut, Wrapped, Configured, Cleaned, Src
<1>6. /\ CheckoutAt(m)' = CheckoutAt(m) /\ WrapAt(m)' = WrapAt(m)
      /\ ConfigAt(m)' = ConfigAt(m)
  BY DEF CheckoutAt, WrapAt, ConfigAt, ByLib
<1> QED
  BY <1>1, <1>2, <1>3, <1>4, <1>5, <1>6 DEF LibProgress

LEMMA StageInv ==
  ASSUME IInv, Stage
  PROVE  IInv'
<1> USE DEF Stage
<1>1. /\ at \in 1 .. 18 /\ at' = at + 1 /\ at' \in 0 .. Len(Plan)
      /\ Begun /\ Staged /\ LibProgress("libevent") /\ Begun' /\ Consistent'
  BY Continues, Order
<1>2. at = 6
  BY Where DEF IInv, TypeOK
<1>3. tree["libevent"] \in Commit
  BY <1>1, <1>2, Order DEF LibProgress, CheckedOut
<1>4. TypeOK'
  BY <1>1, <1>3 DEF IInv, TypeOK, Continue, args
<1>5. \A m \in Lib : LibProgress(m)'
  BY LibsKept
<1>6. Staged'
  BY <1>1, <1>2 DEF Staged
<1> QED
  BY <1>1, <1>4, <1>5, <1>6 DEF IInv, Progress

LEMMA ConfigureInv ==
  ASSUME IInv, Configure
  PROVE  IInv'
<1> USE DEF Configure
<1>1. /\ at \in 1 .. 18 /\ at' = at + 1 /\ at' \in 0 .. Len(Plan)
      /\ Begun /\ Staged /\ Begun' /\ Consistent'
  BY Continues
<1>2. at = 15
  BY Where DEF IInv, TypeOK
<1>3. TypeOK'
  BY <1>1 DEF IInv, TypeOK, Continue, args
<1>4. \A m \in Lib : LibProgress(m)'
  BY LibsKept
<1>5. Staged'
  BY <1>1, <1>2 DEF Staged
<1> QED
  BY <1>1, <1>3, <1>4, <1>5 DEF IInv, Progress

LEMMA BuildInv ==
  ASSUME IInv, Build
  PROVE  IInv'
<1> USE DEF Build, files
<1>1. /\ at \in 1 .. 18 /\ at' = at + 1 /\ at' \in 0 .. Len(Plan)
      /\ Begun /\ Staged /\ Begun' /\ Consistent'
  BY Continues
<1>2. at = 18
  BY Where DEF IInv, TypeOK
<1>3. TypeOK'
  BY <1>1 DEF IInv, TypeOK, Continue, args
<1>4. \A m \in Lib : LibProgress(m)'
  BY LibsKept
<1>5. Staged'
  BY <1>1, <1>2 DEF Staged
<1> QED
  BY <1>1, <1>3, <1>4, <1>5 DEF IInv, Progress

(* What the last step finds: everything is done.                            *)
LEMMA AtTheEnd ==
  ASSUME IInv, Step("save", "all")
  PROVE  /\ at # 0 /\ Begun
         /\ \A l \in Lib : CheckedOut(l) /\ Wrapped(l)
         /\ \A l \in Lib \ {"zlib"} : Configured(l)
         /\ staged = tree["libevent"] /\ against = tree["libevent"]
<1>1. at = 19
  BY Where DEF IInv, TypeOK
<1>2. Begun /\ Staged /\ \A l \in Lib : LibProgress(l)
  BY <1>1 DEF IInv, Progress
<1>3. ASSUME NEW l \in Lib
      PROVE  CheckedOut(l) /\ Wrapped(l) /\ (l # "zlib" => Configured(l))
  BY <1>1, <1>2, Order DEF LibProgress
<1> QED
  BY <1>1, <1>2, <1>3 DEF Staged

LEMMA SaveInv ==
  ASSUME IInv, Save
  PROVE  IInv'
<1> USE DEF Save, files, args
<1>1. /\ Begun /\ \A l \in Lib : CheckedOut(l) /\ Wrapped(l)
      /\ \A l \in Lib \ {"zlib"} : Configured(l)
      /\ staged = tree["libevent"] /\ against = tree["libevent"]
  BY AtTheEnd
<1>2. got \in [Lib -> Commit] /\ tree = got
  BY <1>1 DEF IInv, TypeOK, CheckedOut
<1>3. failed \subseteq failed' /\ failed' \subseteq Unchecked
      /\ (<<"save", "all">> \notin failed' => lock' = IF update THEN got ELSE lock)
  BY DEF PassOver, Unchecked, IInv, TypeOK
<1>4. TypeOK'
  <2>1. /\ lock' \in [Lib -> Commit] \cup {NoLock, TornLock}
        /\ at' \in 0 .. Len(Plan) /\ done' \in BOOLEAN
    BY <1>2, PlanFact DEF IInv, TypeOK
  <2> QED
    BY <1>3, <2>1 DEF IInv, TypeOK
<1>5. ~update => got = lock
  <2>1. ~update => lock \in [Lib -> Commit]
    BY <1>1 DEF Begun, IInv, TypeOK
  <2>2. ~update => \A l \in Lib : got[l] = lock[l]
    BY <1>1 DEF Begun, CheckedOut
  <2> QED
    BY <1>2, <2>1, <2>2
<1>6. Consistent'
  BY <1>1, <1>2, <1>3, <1>5, Order DEF Consistent, Wrapped, Configured, Src
<1> QED
  BY <1>4, <1>6 DEF IInv, Progress

FilesTyped ==
  /\ wrapped \in [Lib -> SUBSET (Commit \cup {Common})]
  /\ config \in [Lib -> Commit \cup {Gone}]
  /\ staged \in Commit \cup {Gone}
  /\ byhand \subseteq {"gotor_extra", "der"}

LEMMA PanicInv ==
  ASSUME IInv, Panic
  PROVE  IInv'
<1>1. /\ at' = 0 /\ ~done' /\ UNCHANGED <<lock, newest, done, runs>>
      /\ update' \in BOOLEAN /\ fresh' \in BOOLEAN /\ pinned' = NoLock
      /\ got' = [l \in Lib |-> Gone] /\ failed' = {}
  BY DEF Panic, IInv, Progress, Begun
<1>2. tree' = tree /\ against' = against
  BY DEF Panic, files
<1>3. FilesTyped'
  <2> USE DEF FilesTyped, IInv, TypeOK
  <2>1. CASE UNCHANGED files
    BY <2>1 DEF files
  <2>2. ASSUME NEW l \in Lib, Step("wrap", l), NEW part \in SUBSET Src(tree[l]),
               NEW lost, wrapped' = [wrapped EXCEPT ![l] = (@ \ lost) \cup part],
               UNCHANGED <<config, staged, byhand>>
        PROVE  FilesTyped'
    <3>1. at = WrapAt(l) /\ at # 0
      BY <2>2, Where, Order
    <3>2. CheckedOut(l)
      BY <3>1, Order DEF Progress, LibProgress
    <3>3. part \subseteq Commit \cup {Common}
      BY <3>2, Sorts DEF CheckedOut
    <3> QED
      BY <2>2, <3>3
  <2>3. CASE staged' = Gone /\ UNCHANGED <<wrapped, config, byhand>>
    BY <2>3
  <2>4. ASSUME NEW l \in Lib, config' = [config EXCEPT ![l] = Gone],
               byhand' \in {byhand, byhand \ {"gotor_extra"}},
               UNCHANGED <<wrapped, staged>>
        PROVE  FilesTyped'
    BY <2>4
  <2>5. \/ UNCHANGED files
        \/ \E l \in Lib : /\ Step("wrap", l)
                          /\ \E part, lost \in SUBSET Src(tree[l]) :
                               wrapped' = [wrapped EXCEPT ![l] = (@ \ lost) \cup part]
                          /\ UNCHANGED <<config, staged, byhand>>
        \/ staged' = Gone /\ UNCHANGED <<wrapped, config, byhand>>
        \/ \E l \in Lib : /\ config' = [config EXCEPT ![l] = Gone]
                          /\ byhand' \in {byhand, byhand \ {"gotor_extra"}}
                          /\ UNCHANGED <<wrapped, staged>>
    BY DEF Panic
  <2> QED
    BY <2>1, <2>2, <2>3, <2>4, <2>5
<1>4. TypeOK'
  BY <1>1, <1>2, <1>3, PlanFact DEF FilesTyped, IInv, TypeOK
<1> QED
  BY <1>1, <1>4 DEF IInv, Progress, Consistent

LEMMA BetweenInv ==
  ASSUME IInv, Between
  PROVE  IInv'
<1>1. CASE Restore
  BY <1>1 DEF Restore, IInv, TypeOK, Progress, Consistent, args, Src
<1>2. CASE Publish
  <2>1. UNCHANGED <<at, update, fresh, pinned, got, failed, lock, tree, wrapped, config,
                    staged, against, byhand, done, runs>>
    BY <1>2 DEF Publish, args, files
  <2>2. newest' \in 1 .. MaxCommit
    BY <1>2, WrapAssumption DEF Publish, IInv, TypeOK
  <2>3. TypeOK'
    BY <2>1, <2>2 DEF IInv, TypeOK
  <2>4. Progress'
    BY <2>1 DEF IInv, Progress, Begun, Staged, LibProgress, CheckedOut, Wrapped, Configured,
                Cleaned, Src, CheckoutAt, WrapAt, ConfigAt, ByLib
  <2>5. Consistent'
    BY <2>1 DEF IInv, Consistent, Src
  <2> QED
    BY <2>3, <2>4, <2>5 DEF IInv
<1>3. ASSUME NEW l \in Lib, EditLock(l) PROVE IInv'
  <2>1. lock' \in [Lib -> Commit]
    BY <1>3, Sorts DEF EditLock, IInv, TypeOK
  <2> QED
    BY <1>3, <2>1 DEF EditLock, IInv, TypeOK, Progress, Consistent, args, files
<1>4. CASE RepairLock
  BY <1>4 DEF RepairLock, IInv, TypeOK, Progress, Consistent, args, files
<1> QED
  BY <1>1, <1>2, <1>3, <1>4 DEF Between

LEMMA StutterInv ==
  ASSUME IInv, UNCHANGED vars
  PROVE  IInv'
<1>1. UNCHANGED <<at, update, fresh, pinned, got, failed, lock, tree, wrapped, config,
                  staged, against, byhand, newest, done, runs>>
  BY DEF vars, args, files
<1>2. TypeOK'
  BY <1>1 DEF IInv, TypeOK
<1>3. Progress'
  BY <1>1 DEF IInv, Progress, Begun, Staged, LibProgress, CheckedOut, Wrapped, Configured,
              Cleaned, Src, CheckoutAt, WrapAt, ConfigAt, ByLib
<1>4. Consistent'
  BY <1>1 DEF IInv, Consistent, Src
<1> QED
  BY <1>2, <1>3, <1>4 DEF IInv

LEMMA NextInv == IInv /\ [Next]_vars => IInv'
<1> SUFFICES ASSUME IInv, [Next]_vars PROVE IInv'
  OBVIOUS
<1>1. ASSUME NEW u \in BOOLEAN, NEW f \in BOOLEAN, Start(u, f) PROVE IInv'
  BY <1>1, StartInv
<1>2. ASSUME NEW l \in Lib, Clone(l) \/ Checkout(l) \/ Wrap(l) \/ Config(l) PROVE IInv'
  BY <1>2, CloneInv, CheckoutInv, WrapInv, ConfigInv
<1>3. CASE Stage \/ Configure \/ Build \/ Save \/ Panic
  BY <1>3, StageInv, ConfigureInv, BuildInv, SaveInv, PanicInv
<1>4. CASE Between
  BY <1>4, BetweenInv
<1>5. CASE UNCHANGED vars
  BY <1>5, StutterInv
<1> QED
  BY <1>1, <1>2, <1>3, <1>4, <1>5 DEF Next, Run

LEMMA Invariance == Spec => []IInv
  BY InitInv, NextInv, PTL DEF Spec

-----------------------------------------------------------------------------
(* Every variable keeps its type, in every run and whatever fails.          *)
THEOREM TypeCorrect == Spec => []TypeOK
<1>1. IInv => TypeOK
  BY DEF IInv
<1> QED
  BY Invariance, <1>1, PTL

(* When main ends well, the sources and the libevent that Tor was           *)
(* configured with are of the commits it returns, and so is every part      *)
(* whose writing did not fail unseen in this very run: lock.json, the       *)
(* wrappers and the headers of a library.  Nothing of an earlier run shows. *)
THEOREM ConsistentHolds == Spec => []Consistent
<1>1. IInv => Consistent
  BY DEF IInv
<1> QED
  BY Invariance, <1>1, PTL

(* Only the last step of a run writes lock.json.                            *)
LEMMA OnlySaveWrites ==
  ASSUME [Next]_vars, at # 0, lock' # lock
  PROVE  Save
BY DEF Next, Run, Between, Start, Clone, Checkout, Wrap, Config, Stage, Configure,
       Build, Panic, Restore, RepairLock, Publish, EditLock, Continue, vars

(* When main changes lock.json, it tears it or writes the commits of the    *)
(* whole tree.  Wrappers are missing then only of libraries where a write   *)
(* failed unseen in this run, and there is a stale one only if the removal  *)
(* of libtor/ did.                                                          *)
THEOREM LockFollowsTreeHolds == Spec => LockFollowsTree
<1>1. IInv /\ [Next]_vars =>
        (at # 0 /\ lock' # lock =>
           \/ lock' = TornLock
           \/ /\ lock' = tree
              /\ \A l \in Lib :
                   /\ <<"wrap", l>> \notin failed => Src(tree[l]) \subseteq wrapped[l]
                   /\ <<"clean", "all">> \notin failed => wrapped[l] \subseteq Src(tree[l]))
  <2> SUFFICES ASSUME IInv, [Next]_vars, at # 0, lock' # lock, lock' # TornLock
               PROVE  /\ lock' = tree
                      /\ \A l \in Lib :
                           /\ <<"wrap", l>> \notin failed => Src(tree[l]) \subseteq wrapped[l]
                           /\ <<"clean", "all">> \notin failed => wrapped[l] \subseteq Src(tree[l])
    OBVIOUS
  <2>1. Save /\ update /\ lock' = got
    BY OnlySaveWrites DEF Save
  <2>2. \A l \in Lib : CheckedOut(l) /\ Wrapped(l)
    BY <2>1, AtTheEnd DEF Save
  <2>3. got = tree
    BY <2>2 DEF CheckedOut, IInv, TypeOK
  <2> QED
    BY <2>1, <2>2, <2>3 DEF Wrapped, Cleaned
<1> QED
  BY Invariance, <1>1, PTL DEF Spec, LockFollowsTree

(* Tor stays with the commit that lock.json pins it to: no run of the       *)
(* generator moves it, an update included, unless it tears the file.        *)
THEOREM TorPinnedHolds == Spec => TorPinned
<1>1. IInv /\ [Next]_vars =>
        (at # 0 /\ lock # NoLock => lock' = TornLock \/ lock'["tor"] = lock["tor"])
  <2> SUFFICES ASSUME IInv, [Next]_vars, at # 0, lock # NoLock, lock' # lock,
                      lock' # TornLock
               PROVE  lock'["tor"] = lock["tor"]
    OBVIOUS
  <2>1. Save /\ update /\ lock' = got
    BY OnlySaveWrites DEF Save
  <2>2. Begun /\ CheckedOut("tor")
    BY <2>1, AtTheEnd, Order DEF Save
  <2> QED
    BY <2>1, <2>2 DEF Begun, CheckedOut
<1> QED
  BY Invariance, <1>1, PTL DEF Spec, TorPinned

-----------------------------------------------------------------------------
(* What a run leaves behind                                                 *)

(* An update that ended well, and could remove libtor/, has wrapped nothing *)
(* but what is in the tree.                                                 *)
UpdateClean == done /\ Cleaned => \A l \in Lib : wrapped[l] \subseteq Src(tree[l])

(* A step that is not a run's last leaves an ended run's result alone.      *)
LEMMA DoneKept ==
  ASSUME IInv, [Next]_vars, done'
  PROVE  \/ Save
         \/ done /\ UNCHANGED <<update, fresh, failed, tree, wrapped>>
<1>1. done => at = 0
  BY DEF IInv, Progress, Begun
<1>2. at # 0 => Save \/ UNCHANGED done
  BY DEF Next, Run, Between, Start, Clone, Checkout, Wrap, Config, Stage, Configure,
         Build, Panic, Restore, RepairLock, Publish, EditLock, Continue, vars
<1>3. CASE at = 0
  BY <1>3, PlanFact
  DEF Next, Run, Between, Start, Clone, Checkout, Wrap, Config, Stage, Configure, Build, Save,
      Panic, Restore, RepairLock, Publish, EditLock, Step, vars, args, files
<1> QED
  BY <1>1, <1>2, <1>3

LEMMA NextUpdateClean == ASSUME IInv, UpdateClean, [Next]_vars PROVE UpdateClean'
<1> SUFFICES ASSUME done', Cleaned', NEW l \in Lib PROVE wrapped'[l] \subseteq Src(tree'[l])
  BY DEF UpdateClean
<1>1. CASE Save
  <2>1. Cleaned /\ wrapped' = wrapped /\ tree' = tree
    BY <1>1 DEF Save, PassOver, Cleaned, args, files
  <2>2. Wrapped(l)
    BY <1>1, AtTheEnd DEF Save
  <2> QED
    BY <2>1, <2>2 DEF Wrapped
<1>2. CASE done /\ UNCHANGED <<update, fresh, failed, tree, wrapped>>
  BY <1>2 DEF UpdateClean, Cleaned, Src
<1> QED
  BY <1>1, <1>2, DoneKept

(* A run removes the hand-made files on its way, which the compiler needs:  *)
(* the der headers with the target directory, gotor_extra.h with            *)
(* openssl_config.                                                          *)
HandsOff ==
  /\ at # 0 => "der" \notin byhand
  /\ at > 18 => ~fresh
  /\ done => ~fresh

LEMMA NextHandsOff == ASSUME IInv, HandsOff, [Next]_vars PROVE HandsOff'
<1>1. at \in 0 .. 19
  BY PlanFact DEF IInv, TypeOK
<1>2. at' # 0 => "der" \notin byhand'
  <2>1. CASE \E l \in Lib : Config(l)
    BY <2>1 DEF Config, Step, HandsOff
  <2>2. CASE at = 0 \/ UNCHANGED byhand \/ at' = 0
    BY <2>2
    DEF HandsOff, Next, Run, Between, Start, Clone, Checkout, Wrap, Config, Stage, Configure,
        Build, Save, Panic, Restore, RepairLock, Publish, EditLock, Step, files, vars
  <2> QED
    BY <2>1, <2>2
    DEF Next, Run, Between, Start, Clone, Checkout, Wrap, Stage, Configure, Build, Save, Panic,
        Restore, RepairLock, Publish, EditLock, files, vars
<1>3. ASSUME at' > 18 PROVE ~fresh'
  <2>1. CASE Build
    BY <1>1, <2>1, Where, PlanFact DEF Build, Buildable, HandsOff, Continue, args, IInv, TypeOK
  <2>2. CASE UNCHANGED <<at, fresh>>
    BY <1>3, <2>2 DEF HandsOff
  <2>3. CASE at' = 0 \/ at' = 1
    BY <1>3, <2>3
  <2>4. ASSUME NEW s, NEW l, Step(s, l), s # "build", s # "save", l \in Lib \/ s = "stage",
               s \in {"clone", "checkout", "wrap", "config", "stage", "configure"},
               at' = at + 1
        PROVE  FALSE
    <3>1. at \in 18 .. 19
      BY <1>1, <1>3, <2>4
    <3>2. at \in 0 .. Len(Plan)
      BY DEF IInv, TypeOK
    <3>3. CASE s = "stage" \/ s = "configure"
      BY <2>4, <3>1, <3>2, <3>3, Where
    <3>4. CASE s \in {"clone", "checkout", "wrap", "config"} /\ l \in Lib
      <4>1. s = "config" => l # "zlib"
        BY <2>4, <3>2, <3>4, Where
      <4>2. at < 18
        <5>1. /\ s = "clone" => at = CloneAt(l)
              /\ s = "checkout" => at = CheckoutAt(l)
              /\ s = "wrap" => at = WrapAt(l)
              /\ s = "config" => at = ConfigAt(l)
          BY <2>4, <3>2, <3>4, Where
        <5> QED
          BY <3>4, <4>1, <5>1, Order
      <4> QED
        BY <3>1, <4>2
    <3> QED
      BY <2>4, <3>3, <3>4
  <2> QED
    BY <2>1, <2>2, <2>3, <2>4
    DEF Next, Run, Between, Start, Clone, Checkout, Wrap, Config, Stage, Configure, Save, Panic,
        Restore, RepairLock, Publish, EditLock, Continue, args, vars, Lib
<1>4. done' => ~fresh'
  <2>1. CASE Save
    BY <1>1, <2>1, Where DEF Save, HandsOff, args, IInv, TypeOK
  <2> QED
    BY <2>1, DoneKept DEF HandsOff
<1> QED
  BY <1>2, <1>3, <1>4 DEF HandsOff

(* NoStaleWrapper, which the run WrapStale finds violated, holds after      *)
(* every update: but for a removal of libtor/ that failed unseen, only a    *)
(* run without -update leaves wrappers of files that are not there any more.*)
THEOREM UpdateLeavesNoStale == Spec => [](update => NoStaleWrapper)
<1>1. Init => UpdateClean
  BY DEF Init, UpdateClean
<1>2. UpdateClean => (update => NoStaleWrapper)
  BY DEF UpdateClean, NoStaleWrapper, Cleaned
<1> QED
  BY <1>1, <1>2, NextUpdateClean, Invariance, PTL DEF Spec

(* A run that compiles all it has wrapped never ends well: it removes       *)
(* hand-made files that the compiler needs, and nobody can put them back    *)
(* before it is over ("otherwise the build fails immediately", PATCHES.md). *)
(* A run that ends well had -nobuild or a build cache that was not empty,   *)
(* and so the compiler need not have seen a wrapper that a run left behind. *)
THEOREM FreshBuildNeverEndsWell == Spec => [](done => ~fresh)
<1>1. Init => HandsOff
  BY DEF Init, HandsOff
<1>2. HandsOff => (done => ~fresh)
  BY DEF HandsOff
<1> QED
  BY <1>1, <1>2, NextHandsOff, Invariance, PTL DEF Spec
=============================================================================
