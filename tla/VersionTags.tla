---------------------------- MODULE VersionTags -----------------------------
(***************************************************************************)
(* build/wrap.go: which tag of a library an update checks out.  latestXTag *)
(* scans the tags git lists, in the order of their names, and keeps the    *)
(* best so far; the order of names is not that of versions (v1.10 comes    *)
(* before v1.9), so the scan here takes the tags in any order.             *)
(***************************************************************************)
EXTENDS Naturals, Sequences, FiniteSets

CONSTANTS
  Part,      \* the numbers a version is made of
  MaxParts,  \* bound: parts of a version
  Label,     \* what may follow the version in a tag's name
  MaxTags    \* bound: tags git lists

ASSUME TagAssumption ==
  Part \subseteq Nat /\ MaxParts \in Nat /\ Label \subseteq STRING /\ MaxTags \in Nat

Version == UNION {[1 .. n -> Part] : n \in 1 .. MaxParts}
Tag == [version : Version, label : Label]
NoTag == [version |-> <<>>, label |-> "none"]
Library == {"zlib", "libevent", "openssl"}

VARIABLES
  lib,    \* whose tags are scanned
  seen,   \* the tags scanned so far
  best    \* the best of them

vars == <<lib, seen, best>>

-----------------------------------------------------------------------------
(* compareVersionParts: a part that is missing counts as 0.                 *)
PartOf(v, i) == IF i <= Len(v) THEN v[i] ELSE 0

Limit(a, b) == IF Len(a) > Len(b) THEN Len(a) ELSE Len(b)

Below(a, b) ==
  \E i \in 1 .. Limit(a, b) :
    /\ PartOf(a, i) < PartOf(b, i)
    /\ \A j \in 1 .. i - 1 : PartOf(a, j) = PartOf(b, j)

Same(a, b) == \A i \in 1 .. Limit(a, b) : PartOf(a, i) = PartOf(b, i)

(* libeventPrereleaseRank, of the label in lower case                       *)
Rank(label) ==
  CASE label \in {"", "stable"} -> 4
    [] label = "rc" -> 3
    [] label = "beta" -> 2
    [] label \in {"alpha", "alpha-dev", "dev"} -> 1
    [] OTHER -> 0

(* The regular expressions: zlib versions have any number of parts, the     *)
(* others three; only libevent's may have a label.                          *)
Matches(l, t) ==
  /\ l \in {"libevent", "openssl"} => Len(t.version) = 3
  /\ l \in {"zlib", "openssl"} => t.label = ""

-----------------------------------------------------------------------------
(* Mutant of Better: the rank decides first.                                *)
BetterByRank(l, t, u) ==
  \/ Below(u.version, t.version)
  \/ l = "libevent" /\ Rank(t.label) > Rank(u.label)

(* The candidate t takes the place of u.                                    *)
Better(l, t, u) ==
  \/ Below(u.version, t.version)
  \/ /\ l = "libevent" /\ Same(t.version, u.version)
     /\ Rank(t.label) > Rank(u.label)

(* Mutant of Scan: the first tag is not made the best.                      *)
ScanSkipsFirst(t) ==
  /\ t \in Tag \ seen /\ Cardinality(seen) < MaxTags
  /\ seen' = seen \cup {t}
  /\ best' = IF /\ Matches(lib, t) /\ seen # {}
                /\ best = NoTag \/ Better(lib, t, best)
               THEN t ELSE best
  /\ UNCHANGED lib

(* One turn of the loop, for one more of the tags there are                 *)
Scan(t) ==
  /\ t \in Tag \ seen /\ Cardinality(seen) < MaxTags
  /\ seen' = seen \cup {t}
  /\ best' = IF Matches(lib, t) /\ (best = NoTag \/ Better(lib, t, best))
               THEN t ELSE best
  /\ UNCHANGED lib

Init == lib \in Library /\ seen = {} /\ best = NoTag

Next == \E t \in Tag : Scan(t)

Spec == Init /\ [][Next]_vars

-----------------------------------------------------------------------------
(* The best so far is a tag the library's expression matches, and there is  *)
(* one as soon as such a tag was seen.                                      *)
TypeOK ==
  /\ lib \in Library
  /\ seen \subseteq Tag
  /\ best \in {t \in seen : Matches(lib, t)} \cup {NoTag}
  /\ best = NoTag <=> \A t \in seen : ~Matches(lib, t)

(* latestXTag: no tag seen so far is of a higher version than the best, or  *)
(* of the same version and nearer to a release; so the order of the scan    *)
(* does not matter beyond ties.                                             *)
BestSeen ==
  \A t \in seen :
    Matches(lib, t) =>
      /\ ~Below(best.version, t.version)
      /\ lib = "libevent" /\ Same(t.version, best.version)
           => Rank(t.label) <= Rank(best.label)
=============================================================================
