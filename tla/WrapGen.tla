------------------------------ MODULE WrapGen -------------------------------
(***************************************************************************)
(* build/wrap.go: the generator that clones the four C libraries, wraps    *)
(* their sources in Go files and keeps lock.json, run again and again over *)
(* one working tree.  A step of a run can fail in two ways.  Most errors   *)
(* are returned and the program panics: what it had removed or written     *)
(* stays so.  Errors of the removal of libtor/ and of most writes are not  *)
(* looked at: the run goes on and may end well.                            *)
(*                                                                         *)
(* A library's commits are numbered in the order they are tagged.  Of its  *)
(* C files one is in every commit and one is the commit's own.             *)
(***************************************************************************)
EXTENDS Naturals, Sequences, FiniteSets

CONSTANTS
  MaxCommit,   \* bound: commits tagged upstream
  MaxRuns,     \* bound: runs of the generator
  MaxUnseen    \* bound: steps of one run with errors that nobody looks at

ASSUME WrapAssumption ==
  MaxCommit \in Nat \ {0} /\ MaxRuns \in Nat /\ MaxUnseen \in Nat

Lib == {"zlib", "libevent", "openssl", "tor"}
TorBranch == 0                 \* release-0.4.6, when nothing pins Tor
Commit == TorBranch .. MaxCommit
Tip == MaxCommit + 1          \* a fresh clone's default branch
Gone == MaxCommit + 2          \* nothing there, or an unfinished mix
NoLock == [l \in Lib |-> Gone] \* there is no lock.json
TornLock == [l \in Lib |-> Tip]  \* it is empty or cut off: no JSON

Common == MaxCommit + 3         \* a C file that every commit has

Src(c) == {Common, c}          \* the C files of commit c that get a wrapper

(* The places whose errors are not looked at.  wrapOpenSSL does look at     *)
(* those of its wrappers.                                                   *)
Unchecked ==
  {<<"clean", "all">>, <<"save", "all">>}
    \cup {"wrap"} \X (Lib \ {"openssl"}) \cup {"config"} \X (Lib \ {"zlib"})

(* What one run does, in order: the wrap functions and the rest of main.    *)
Plan == <<
  <<"clone", "zlib">>, <<"checkout", "zlib">>, <<"wrap", "zlib">>,
  <<"clone", "libevent">>, <<"checkout", "libevent">>, <<"stage", "libevent">>,
  <<"wrap", "libevent">>, <<"config", "libevent">>,
  <<"clone", "openssl">>, <<"checkout", "openssl">>,
  <<"wrap", "openssl">>, <<"config", "openssl">>,
  <<"clone", "tor">>, <<"checkout", "tor">>, <<"configure", "tor">>,
  <<"wrap", "tor">>, <<"config", "tor">>,
  <<"build", "all">>, <<"save", "all">> >>

VARIABLES
  at,        \* the step the run is at, 0 when none is under way
  update,    \* the -update flag of the run
  fresh,     \* the run is to build and nothing is in the build cache
  pinned,    \* what the run read from lock.json when it began
  got,       \* got[l]: the hash wrapX returned for library l
  failed,    \* the places of the run where an error was passed over
  lock,      \* lock.json
  tree,      \* tree[l]: the commit in linux/<l>
  wrapped,   \* wrapped[l]: the C files that a Go file in libtor/ includes
  config,    \* config[l]: the commit that <l>_config was written from
  staged,    \* the libevent installed in builddeps
  against,   \* the libevent Tor was configured with
  byhand,    \* hand-made files in place: gotor_extra.h, the der_*.h headers
  newest,    \* the newest tag upstream
  done,      \* the last run ended well and lock.json was not edited since
  runs       \* runs begun

args == <<update, fresh, pinned>>
files == <<tree, wrapped, config, staged, against, byhand>>
vars == <<at, args, got, failed, lock, files, newest, done, runs>>

TypeOK ==
  /\ at \in 0 .. Len(Plan)
  /\ update \in BOOLEAN /\ fresh \in BOOLEAN
  /\ pinned \in [Lib -> Commit] \cup {NoLock}
  /\ lock \in [Lib -> Commit] \cup {NoLock, TornLock}
  /\ got \in [Lib -> Commit \cup {Gone}]
  /\ failed \subseteq Unchecked
  /\ tree \in [Lib -> Commit \cup {Tip, Gone}]
  /\ wrapped \in [Lib -> SUBSET (Commit \cup {Common})]
  /\ config \in [Lib -> Commit \cup {Gone}]
  /\ staged \in Commit \cup {Gone}
  /\ against \in Commit \cup {Gone}
  /\ byhand \subseteq {"gotor_extra", "der"}
  /\ newest \in 1 .. MaxCommit
  /\ done \in BOOLEAN
  /\ runs \in 0 .. MaxRuns

-----------------------------------------------------------------------------
(* A run of the generator                                                   *)

(* An error at place <<s, l>> is passed over.                               *)
PassOver(s, l) ==
  /\ Cardinality(failed) < MaxUnseen
  /\ failed' = failed \cup {<<s, l>>}

(* A lock.json that is no JSON stops the run at once, and without -update a *)
(* missing one does.  An update removes libtor/, and does not look whether  *)
(* it could: any part of it may be left, here the same one of each library. *)
(* The target directory goes in every run; where it cannot, git clone       *)
(* fails.                                                                   *)
Start(u, f) ==
  /\ at = 0 /\ runs < MaxRuns
  /\ lock # TornLock /\ (u \/ lock # NoLock)
  /\ at' = 1
  /\ update' = u
  /\ fresh' = f
  /\ pinned' = lock
  /\ got' = [l \in Lib |-> Gone]
  /\ \/ /\ wrapped' = IF u THEN [l \in Lib |-> {}] ELSE wrapped
        /\ failed' = {}
     \/ /\ u /\ MaxUnseen > 0
        /\ \E left \in SUBSET (Commit \cup {Common}) :
             wrapped' = [l \in Lib |-> wrapped[l] \cap left]
        /\ failed' = {<<"clean", "all">>}
  /\ tree' = [l \in Lib |-> Gone]
  /\ byhand' = byhand \ {"der"}
  /\ done' = FALSE
  /\ runs' = runs + 1
  /\ UNCHANGED <<lock, config, staged, against, newest>>

Step(s, l) == at # 0 /\ Plan[at] = <<s, l>>
Continue == at' = at + 1 /\ UNCHANGED <<args, lock, newest, done, runs>>

Clone(l) ==
  /\ Step("clone", l) /\ Continue
  /\ tree' = [tree EXCEPT ![l] = Tip]
  /\ UNCHANGED <<got, failed, wrapped, config, staged, against, byhand>>

(* Mutant of Wanted: an update takes Tor from its branch as well.           *)
WantedUnpinned(l) ==
  IF ~update THEN pinned[l] ELSE IF l = "tor" THEN TorBranch ELSE newest

(* An update takes the latest tag, except for Tor, which stays with the     *)
(* lock.json the run found.                                                 *)
Wanted(l) ==
  IF ~update \/ (l = "tor" /\ pinned # NoLock)
    THEN pinned[l]
    ELSE IF l = "tor" THEN TorBranch ELSE newest

(* Mutant of Checkout: the hash is taken from the clone, before checkout.   *)
CheckoutAfterParse(l) ==
  /\ Step("checkout", l) /\ Continue
  /\ tree' = [tree EXCEPT ![l] = Wanted(l)]
  /\ got' = [got EXCEPT ![l] = tree[l]]
  /\ UNCHANGED <<failed, wrapped, config, staged, against, byhand>>

(* git checkout, then git rev-parse for the hash.                           *)
Checkout(l) ==
  /\ Step("checkout", l) /\ Continue
  /\ tree' = [tree EXCEPT ![l] = Wanted(l)]
  /\ got' = [got EXCEPT ![l] = Wanted(l)]
  /\ UNCHANGED <<failed, wrapped, config, staged, against, byhand>>

(* Mutant of Stage: a libevent staged by an earlier run is kept.            *)
StageOnce ==
  /\ Step("stage", "libevent") /\ Continue
  /\ staged' = IF staged = Gone THEN tree["libevent"] ELSE staged
  /\ UNCHANGED <<got, failed, tree, wrapped, config, against, byhand>>

(* builddeps/libevent is removed, and make install fills it again.          *)
Stage ==
  /\ Step("stage", "libevent") /\ Continue
  /\ staged' = tree["libevent"]
  /\ UNCHANGED <<got, failed, tree, wrapped, config, against, byhand>>

(* Tor's configure links its checks against the staged libevent.            *)
Configure ==
  /\ Step("configure", "tor") /\ Continue
  /\ staged # Gone
  /\ against' = staged
  /\ UNCHANGED <<got, failed, tree, wrapped, config, staged, byhand>>

(* A Go file for each C file that is needed; older ones are left.  A Go     *)
(* file whose write fails is cut off: there is no wrapper.                  *)
Wrap(l) ==
  /\ Step("wrap", l) /\ Continue
  /\ \E lost \in SUBSET Src(tree[l]) :
       /\ wrapped' = [wrapped EXCEPT ![l] = (@ \cup Src(tree[l])) \ lost]
       /\ IF lost = {} THEN UNCHANGED failed
                      ELSE l # "openssl" /\ PassOver("wrap", l)
  /\ UNCHANGED <<got, tree, config, staged, against, byhand>>

(* The configuration headers made from the commit: where a write fails, old *)
(* ones stay or the set is mixed.  wrapOpenSSL removes its directory first, *)
(* and with it a header that it does not write.                             *)
Config(l) ==
  /\ Step("config", l) /\ Continue
  /\ \/ config' = [config EXCEPT ![l] = tree[l]] /\ UNCHANGED failed
     \/ /\ \E c \in IF l = "openssl" THEN {Gone} ELSE {config[l], Gone} :
             config' = [config EXCEPT ![l] = c]
        /\ PassOver("config", l)
  /\ byhand' = IF l = "openssl" THEN byhand \ {"gotor_extra"} ELSE byhand
  /\ UNCHANGED <<got, tree, wrapped, staged, against>>

(* What a compiler that runs has to find: every file a wrapper includes,    *)
(* and the hand-made ones too.                                              *)
Buildable ==
  /\ \A l \in Lib : wrapped[l] \subseteq Src(tree[l])
  /\ byhand = {"gotor_extra", "der"}

(* go build, unless -nobuild.  With a warm cache it may not look at the     *)
(* files that are included, and so pass without them, or it may fail.       *)
Build ==
  /\ Step("build", "all") /\ Continue
  /\ fresh => Buildable
  /\ UNCHANGED <<got, failed, files>>

(* Mutant of Save: what upstream has now is recorded, not what was wrapped. *)
SaveNewest ==
  /\ Step("save", "all")
  /\ lock' = IF update THEN [got EXCEPT !["zlib"] = newest] ELSE lock
  /\ at' = 0
  /\ done' = TRUE
  /\ UNCHANGED <<args, got, failed, files, newest, runs>>

(* An update writes lock.json last of all, and ends well whether or not     *)
(* that is done.                                                            *)
Save ==
  /\ Step("save", "all")
  /\ \/ lock' = (IF update THEN got ELSE lock) /\ UNCHANGED failed
     \/ update /\ lock' \in {lock, TornLock} /\ PassOver("save", "all")
  /\ at' = 0
  /\ done' = TRUE
  /\ UNCHANGED <<args, got, files, newest, runs>>

(* A step fails with an error that is returned; it may have done some of    *)
(* its work before.  What the program had in memory is gone.                *)
Panic ==
  /\ at # 0 /\ at' = 0
  /\ update' = FALSE /\ fresh' = FALSE /\ pinned' = NoLock
  /\ got' = [l \in Lib |-> Gone] /\ failed' = {}
  /\ \/ UNCHANGED files
     \/ /\ \E l \in Lib : /\ Step("wrap", l)
                          /\ \E part, lost \in SUBSET Src(tree[l]) :
                               wrapped' = [wrapped EXCEPT ![l] = (@ \ lost) \cup part]
        /\ UNCHANGED <<tree, config, staged, against, byhand>>
     \/ /\ Step("stage", "libevent")
        /\ staged' = Gone
        /\ UNCHANGED <<tree, wrapped, config, against, byhand>>
     \/ /\ \E l \in Lib :
             /\ Step("config", l)
             /\ config' = [config EXCEPT ![l] = Gone]
             /\ byhand' = IF l = "openssl" THEN byhand \ {"gotor_extra"} ELSE byhand
        /\ UNCHANGED <<tree, wrapped, staged, against>>
  /\ UNCHANGED <<lock, newest, done, runs>>

-----------------------------------------------------------------------------
(* What people do between runs, and upstream at any time                    *)

(* lock.json is edited by hand: this is how Tor is bumped.                  *)
EditLock(l) ==
  /\ at = 0 /\ lock \notin {NoLock, TornLock} /\ lock[l] # newest
  /\ lock' = [lock EXCEPT ![l] = newest]
  /\ done' = FALSE
  /\ UNCHANGED <<at, args, got, failed, files, newest, runs>>

(* A torn lock.json is replaced by the one the run had read.                *)
RepairLock ==
  /\ at = 0 /\ lock = TornLock
  /\ lock' = pinned
  /\ done' = FALSE
  /\ UNCHANGED <<at, args, got, failed, files, newest, runs>>

(* The hand-made files are put back.                                        *)
Restore ==
  /\ at = 0 /\ \A l \in Lib : tree[l] # Gone
  /\ byhand' = {"gotor_extra", "der"}
  /\ UNCHANGED <<at, args, got, failed, lock, tree, wrapped, config, staged,
                 against, newest, done, runs>>

(* A tag that comes between a library's clone and its checkout is not in    *)
(* the clone: it is as if it came after the checkout.                       *)
Publish ==
  /\ newest < MaxCommit
  /\ \A l \in Lib : ~Step("checkout", l)
  /\ newest' = newest + 1
  /\ UNCHANGED <<at, args, got, failed, lock, files, done, runs>>

Init ==
  /\ at = 0
  /\ update = FALSE /\ fresh = FALSE
  /\ pinned = NoLock
  /\ got = [l \in Lib |-> Gone]
  /\ failed = {}
  /\ lock \in {[l \in Lib |-> 1], NoLock}
  /\ tree = [l \in Lib |-> 1]
  /\ wrapped = [l \in Lib |-> Src(1)]
  /\ config = [l \in Lib |-> 1]
  /\ staged = Gone
  /\ against = 1
  /\ byhand = {"gotor_extra", "der"}
  /\ newest = 1
  /\ done = FALSE
  /\ runs = 0

Run ==
  \/ \E u, f \in BOOLEAN : Start(u, f)
  \/ \E l \in Lib : Clone(l) \/ Checkout(l) \/ Wrap(l) \/ Config(l)
  \/ Stage \/ Configure \/ Build \/ Save \/ Panic

Between == Restore \/ RepairLock \/ Publish \/ \E l \in Lib : EditLock(l)

Next == Run \/ Between

Spec == Init /\ [][Next]_vars

-----------------------------------------------------------------------------
(* A run that ended well may have passed over errors, but only its own: the *)
(* sources and the libevent that Tor was configured with are of the commits *)
(* it returned, and so are lock.json, a library's wrappers and its headers, *)
(* each unless writing that very part failed in this run.  What earlier     *)
(* runs left undone, panicking or not, never shows.                         *)
Consistent ==
  done => /\ tree = got
          /\ <<"save", "all">> \notin failed => lock = got
          /\ \A l \in Lib :
               <<"wrap", l>> \notin failed => Src(got[l]) \subseteq wrapped[l]
          /\ \A l \in Lib \ {"zlib"} :
               <<"config", l>> \notin failed => config[l] = got[l]
          /\ staged = got["libevent"] /\ against = got["libevent"]

(* A run changes lock.json by tearing it or to the commits of the whole     *)
(* tree.  By then no wrapper is missing but of libraries where a write was  *)
(* passed over, and none is stale unless the removal of libtor/ was.        *)
LockFollowsTree ==
  [][at # 0 /\ lock' # lock =>
       \/ lock' = TornLock
       \/ /\ lock' = tree
          /\ \A l \in Lib :
               /\ <<"wrap", l>> \notin failed => Src(tree[l]) \subseteq wrapped[l]
               /\ <<"clean", "all">> \notin failed => wrapped[l] \subseteq Src(tree[l])]_vars

(* "Tor is pinned by lock.json" (PATCHES.md): no run moves it to another    *)
(* commit, whatever else it may do to the file.                             *)
TorPinned ==
  [][at # 0 /\ lock # NoLock => lock' = TornLock \/ lock'["tor"] = lock["tor"]]_vars

(* Clean up any previously generated files (main): a run that ended well,   *)
(* and could remove what it wanted to, leaves no wrapper of a C file that   *)
(* is not there.                                                            *)
NoStaleWrapper ==
  done /\ <<"clean", "all">> \notin failed =>
    \A l \in Lib : wrapped[l] \subseteq Src(tree[l])
=============================================================================
