------------------------- MODULE VersionTagsProofs --------------------------
(***************************************************************************)
(* The scan of VersionTags finds the best of any set of tags, and the      *)
(* order of the tags decides between tied ones only.  Where two versions   *)
(* differ there is a first part in which they do (LeastNumber): this is    *)
(* what the comparison finds.                                              *)
(***************************************************************************)
EXTENDS VersionTags, TLAPS, WellFoundedInduction

(* A version has a length, and each part, the missing ones included, is a   *)
(* natural number.                                                          *)
LEMMA VersionFacts ==
  ASSUME NEW v \in Version
  PROVE  Len(v) \in Nat /\ \A i \in Nat \ {0} : PartOf(v, i) \in Nat
<1>1. PICK n \in 1 .. MaxParts : v \in [1 .. n -> Part]
  BY DEF Version
<1>2. n \in Nat
  BY TagAssumption
<1>3. v \in Seq(Part) /\ Len(v) = n
  BY <1>1, <1>2
<1>4. ASSUME NEW i \in Nat \ {0}
      PROVE  PartOf(v, i) \in Nat
  <2>1. CASE i <= Len(v)
    <3>1. i \in 1 .. n
      BY <1>2, <1>3, <2>1
    <3>2. v[i] \in Part
      BY <1>1, <3>1
    <3> QED
      BY <2>1, <3>2, TagAssumption DEF PartOf
  <2>2. CASE ~(i <= Len(v))
    BY <2>2 DEF PartOf
  <2> QED
    BY <2>1, <2>2
<1> QED
  BY <1>2, <1>3, <1>4

(* A version is below another exactly when the parts first differ so at     *)
(* some position, whatever the lengths.                                     *)
LEMMA BelowAnywhere ==
  ASSUME NEW a \in Version, NEW b \in Version
  PROVE  Below(a, b) <=>
           \E i \in Nat \ {0} :
             /\ PartOf(a, i) < PartOf(b, i)
             /\ \A j \in 1 .. i - 1 : PartOf(a, j) = PartOf(b, j)
<1>1. Limit(a, b) \in Nat
  BY VersionFacts DEF Limit
<1>2. ASSUME NEW i \in Nat \ {0}, PartOf(a, i) < PartOf(b, i)
      PROVE  i \in 1 .. Limit(a, b)
  <2>1. PartOf(a, i) \in Nat /\ Len(b) \in Nat /\ Len(a) \in Nat
    BY VersionFacts
  <2>2. i <= Len(b)
    BY <1>2, <2>1 DEF PartOf
  <2> QED
    BY <2>1, <2>2 DEF Limit
<1> QED
  BY <1>1, <1>2 DEF Below

(* Two versions are the same exactly when all their parts are equal.        *)
LEMMA SameEverywhere ==
  ASSUME NEW a \in Version, NEW b \in Version
  PROVE  Same(a, b) <=> \A i \in Nat \ {0} : PartOf(a, i) = PartOf(b, i)
<1>1. Limit(a, b) \in Nat /\ Len(a) \in Nat /\ Len(b) \in Nat
  BY VersionFacts DEF Limit
<1>2. ASSUME NEW i \in Nat \ {0}, i \notin 1 .. Limit(a, b)
      PROVE  PartOf(a, i) = 0 /\ PartOf(b, i) = 0
  BY <1>1, <1>2 DEF Limit, PartOf
<1> QED
  BY <1>1, <1>2 DEF Same

(* compareVersionParts orders versions strictly.                            *)
LEMMA BelowTransitive ==
  ASSUME NEW a \in Version, NEW b \in Version, NEW c \in Version,
         Below(a, b), Below(b, c)
  PROVE  Below(a, c)
<1>1. PICK i \in Nat \ {0} :
        /\ PartOf(a, i) < PartOf(b, i)
        /\ \A j \in 1 .. i - 1 : PartOf(a, j) = PartOf(b, j)
  BY BelowAnywhere
<1>2. PICK k \in Nat \ {0} :
        /\ PartOf(b, k) < PartOf(c, k)
        /\ \A j \in 1 .. k - 1 : PartOf(b, j) = PartOf(c, j)
  BY BelowAnywhere
<1> DEFINE m == IF i < k THEN i ELSE k
<1>3. m \in Nat \ {0} /\ m <= i /\ m <= k
  OBVIOUS
<1>4. /\ PartOf(a, m) \in Nat /\ PartOf(b, m) \in Nat /\ PartOf(c, m) \in Nat
  BY <1>3, VersionFacts
<1>5. PartOf(a, m) < PartOf(c, m)
  <2>1. CASE i < k
    BY <2>1, <1>1, <1>2, <1>4
  <2>2. CASE i = k
    BY <2>2, <1>1, <1>2, <1>4
  <2>3. CASE i > k
    BY <2>3, <1>1, <1>2, <1>4
  <2> QED
    BY <2>1, <2>2, <2>3
<1>6. \A j \in 1 .. m - 1 : PartOf(a, j) = PartOf(c, j)
  BY <1>1, <1>2, <1>3
<1> HIDE DEF m
<1> QED
  BY <1>3, <1>5, <1>6, BelowAnywhere

(* No version is below itself.                                              *)
LEMMA BelowIrreflexive ==
  ASSUME NEW a \in Version
  PROVE  ~Below(a, a)
  BY VersionFacts, BelowAnywhere

(* Versions with the same parts are above the same versions.                *)
LEMMA SameAbove ==
  ASSUME NEW a \in Version, NEW b \in Version, NEW c \in Version,
         Same(a, b)
  PROVE  /\ Below(a, c) <=> Below(b, c)
         /\ Below(c, a) <=> Below(c, b)
         /\ Same(c, a) <=> Same(c, b)
         /\ Same(b, a)
<1>1. \A i \in Nat \ {0} : PartOf(a, i) = PartOf(b, i)
  BY SameEverywhere
<1>2. Below(a, c) <=> Below(b, c)
  BY <1>1, BelowAnywhere
<1>3. Below(c, a) <=> Below(c, b)
  BY <1>1, BelowAnywhere
<1>4. (Same(c, a) <=> Same(c, b)) /\ Same(b, a)
  BY <1>1, SameEverywhere
<1> QED
  BY <1>2, <1>3, <1>4

(* Rank is a number.                                                        *)
LEMMA RankNat == \A label : Rank(label) \in 0 .. 4
  BY DEF Rank

(* latestXTag returns a tag its expression matches, if it saw one.          *)
THEOREM TypeCorrect == Spec => []TypeOK
<1>1. Init => TypeOK
  BY DEF Init, TypeOK, NoTag, Tag, Version
<1>2. NoTag \notin Tag
  BY TagAssumption DEF NoTag, Tag, Version
<1>3. TypeOK /\ [Next]_vars => TypeOK'
  <2> SUFFICES ASSUME TypeOK, [Next]_vars
               PROVE  TypeOK'
    OBVIOUS
  <2>1. ASSUME NEW t \in Tag, Scan(t)
        PROVE  TypeOK'
    <3>1. t # NoTag
      BY <1>2
    <3>2. CASE Matches(lib, t) /\ (best = NoTag \/ Better(lib, t, best))
      BY <2>1, <3>1, <3>2 DEF TypeOK, Scan
    <3>3. CASE ~(Matches(lib, t) /\ (best = NoTag \/ Better(lib, t, best)))
      BY <2>1, <3>1, <3>3 DEF TypeOK, Scan
    <3> QED
      BY <3>2, <3>3
  <2>2. CASE UNCHANGED vars
    BY <2>2 DEF TypeOK, vars
  <2> QED
    BY <2>1, <2>2 DEF Next
<1> QED
  BY <1>1, <1>3, PTL DEF Spec

(* latestXTag returns a best tag, for every set of tags and every order of  *)
(* the scan.                                                                *)
THEOREM BestSeenHolds == Spec => []BestSeen
<1>1. Init => BestSeen
  BY DEF Init, BestSeen
<1>2. TypeOK /\ BestSeen /\ [Next]_vars => BestSeen'
  <2> SUFFICES ASSUME TypeOK, BestSeen, [Next]_vars
               PROVE  BestSeen'
    OBVIOUS
  <2>1. ASSUME NEW t \in Tag, Scan(t)
        PROVE  BestSeen'
    <3> SUFFICES ASSUME NEW s \in seen \cup {t}, Matches(lib, s)
                 PROVE  /\ ~Below(best'.version, s.version)
                        /\ lib = "libevent" /\ Same(s.version, best'.version)
                             => Rank(s.label) <= Rank(best'.label)
      BY <2>1 DEF BestSeen, Scan
    <3>1. s \in Tag /\ s.version \in Version /\ t.version \in Version
      BY DEF TypeOK, Tag
    <3>2. CASE Matches(lib, t) /\ best = NoTag
      <4>1. s = t /\ best' = t
        BY <2>1, <3>2 DEF TypeOK, Scan
      <4> QED
        BY <4>1, <3>1, BelowIrreflexive, RankNat
    <3>3. CASE Matches(lib, t) /\ best # NoTag /\ Better(lib, t, best)
      <4>1. best' = t /\ best \in Tag /\ best.version \in Version
        BY <2>1, <3>3 DEF TypeOK, Scan, Tag
      <4>2. CASE s = t
        BY <4>1, <4>2, <3>1, BelowIrreflexive, RankNat
      <4>3. CASE s \in seen
        <5>1. /\ ~Below(best.version, s.version)
              /\ lib = "libevent" /\ Same(s.version, best.version)
                   => Rank(s.label) <= Rank(best.label)
          BY <4>3 DEF BestSeen
        <5>2. CASE Below(best.version, t.version)
          <6>1. ~Below(t.version, s.version)
            BY <5>1, <5>2, <4>1, <3>1, BelowTransitive
          <6>2. ~Same(s.version, t.version)
            BY <5>1, <5>2, <4>1, <3>1, SameAbove
          <6> QED
            BY <4>1, <6>1, <6>2
        <5>3. CASE /\ Same(t.version, best.version)
                   /\ Rank(t.label) > Rank(best.label)
          <6>1. ~Below(t.version, s.version)
            BY <5>1, <5>3, <4>1, <3>1, SameAbove
          <6>2. lib = "libevent" /\ Same(s.version, t.version)
                  => Rank(s.label) <= Rank(t.label)
            BY <5>1, <5>3, <4>1, <3>1, SameAbove, RankNat
          <6> QED
            BY <4>1, <6>1, <6>2
        <5> QED
          BY <5>2, <5>3, <3>3 DEF Better
      <4> QED
        BY <4>2, <4>3
    <3>4. CASE Matches(lib, t) /\ best # NoTag /\ ~Better(lib, t, best)
      BY <2>1, <3>4, RankNat DEF BestSeen, Scan, Better
    <3>5. CASE ~Matches(lib, t)
      BY <2>1, <3>5 DEF BestSeen, Scan
    <3> QED
      BY <3>2, <3>3, <3>4, <3>5
  <2>2. CASE UNCHANGED vars
    BY <2>2 DEF BestSeen, vars
  <2> QED
    BY <2>1, <2>2 DEF Next
<1> QED
  BY <1>1, <1>2, TypeCorrect, PTL DEF Spec

-----------------------------------------------------------------------------
(* The order of the scan                                                    *)

(* A set of numbers has a least one.                                        *)
LEMMA LeastNumber ==
  ASSUME NEW S \in SUBSET Nat, S # {}
  PROVE  \E m \in S : \A k \in S : m <= k
<1> DEFINE R == OpToRel(<, Nat)
<1>1. \A x, y \in Nat : y < x => <<y, x>> \in R
  BY DEF OpToRel
<1>2. IsWellFoundedOn(R, Nat)
  BY NatLessThanWellFounded
<1> HIDE DEF R
<1>3. PICK m \in S : \A y \in S : ~ (<<y, m>> \in R)
  BY <1>2, WFMin
<1>4. ASSUME NEW k \in S PROVE m <= k
  <2>1. m \in Nat /\ k \in Nat
    OBVIOUS
  <2>2. ~(k < m)
    BY <1>1, <1>3, <2>1
  <2> QED
    BY <2>1, <2>2
<1> QED
  BY <1>4

(* Of two versions one is below the other, unless they are the same: the    *)
(* first part in which they differ decides.                                 *)
LEMMA Trichotomy ==
  ASSUME NEW a \in Version, NEW b \in Version
  PROVE  Below(a, b) \/ Same(a, b) \/ Below(b, a)
<1> DEFINE D == {i \in Nat \ {0} : PartOf(a, i) # PartOf(b, i)}
<1>1. CASE D = {}
  BY <1>1, SameEverywhere
<1>2. CASE D # {}
  <2>1. PICK i \in D : \A k \in D : i <= k
    BY <1>2, LeastNumber
  <2>2. i \in Nat \ {0} /\ PartOf(a, i) # PartOf(b, i)
    BY <2>1
  <2>3. ASSUME NEW j \in 1 .. i - 1 PROVE PartOf(a, j) = PartOf(b, j)
    <3>1. j \in Nat \ {0} /\ ~(i <= j)
      BY <2>2
    <3> QED
      BY <2>1, <3>1
  <2>4. PartOf(a, i) \in Nat /\ PartOf(b, i) \in Nat
    BY <2>2, VersionFacts
  <2>5. CASE PartOf(a, i) < PartOf(b, i)
    <3>1. Below(a, b)
      BY <2>2, <2>3, <2>5, BelowAnywhere
    <3> QED
      BY <3>1
  <2>6. CASE PartOf(b, i) < PartOf(a, i)
    <3>1. \A j \in 1 .. i - 1 : PartOf(b, j) = PartOf(a, j)
      BY <2>3
    <3>2. Below(b, a)
      BY <2>2, <2>6, <3>1, BelowAnywhere
    <3> QED
      BY <3>2
  <2> QED
    BY <2>2, <2>4, <2>5, <2>6
<1> QED
  BY <1>1, <1>2

(* The tags of S that latestXTag may return for library l: none of S that   *)
(* it matches is better.                                                    *)
BestOf(l, S) ==
  {b \in S : Matches(l, b) /\ \A t \in S : Matches(l, t) => ~Better(l, t, b)}

(* As good as each other: they differ in nothing that the code compares.    *)
Tied(l, b, c) ==
  Same(b.version, c.version) /\ (l = "libevent" => Rank(b.label) = Rank(c.label))

(* The best tags of a set are tied.                                         *)
LEMMA BestTied ==
  ASSUME NEW l \in Library, NEW S \in SUBSET Tag, NEW b \in BestOf(l, S), NEW c \in BestOf(l, S)
  PROVE  Tied(l, b, c)
<1>1. b \in Tag /\ c \in Tag /\ b.version \in Version /\ c.version \in Version
  BY DEF BestOf, Tag
<1>2. ~Better(l, b, c) /\ ~Better(l, c, b)
  BY DEF BestOf
<1>3. Same(b.version, c.version) /\ Same(c.version, b.version)
  BY <1>1, <1>2, Trichotomy, SameAbove DEF Better
<1> QED
  BY <1>2, <1>3, RankNat DEF Better, Tied

(* Versions with as many parts are the same only when they are equal.       *)
LEMMA SameLength ==
  ASSUME NEW a \in Version, NEW b \in Version, Len(a) = Len(b), Same(a, b)
  PROVE  a = b
<1>1. PICK m \in 1 .. MaxParts : a \in [1 .. m -> Part]
  BY DEF Version
<1>2. PICK n \in 1 .. MaxParts : b \in [1 .. n -> Part]
  BY DEF Version
<1>3. m \in Nat /\ n \in Nat
  BY TagAssumption
<1>4. Len(a) = m /\ Len(b) = n
  BY <1>1, <1>2, <1>3
<1>5. m = n
  BY <1>4
<1>6. ASSUME NEW i \in 1 .. n PROVE a[i] = b[i]
  <2>1. PartOf(a, i) = PartOf(b, i)
    BY <1>3, SameEverywhere
  <2>2. i <= n
    BY <1>3
  <2>3. i <= Len(a) /\ i <= Len(b)
    BY <1>4, <1>5, <2>2
  <2> QED
    BY <2>1, <2>3 DEF PartOf
<1>7. a \in [1 .. n -> Part]
  BY <1>1, <1>5
<1> QED
  BY <1>2, <1>6, <1>7

(* Of OpenSSL's tags, whose versions have three parts and nothing else, no  *)
(* two are tied.                                                            *)
LEMMA OpensslUnique ==
  ASSUME NEW b \in Tag, NEW c \in Tag, Matches("openssl", b), Matches("openssl", c),
         Same(b.version, c.version)
  PROVE  b = c
<1>1. /\ b.version \in Version /\ c.version \in Version /\ b.label = "" /\ c.label = ""
      /\ Len(b.version) = 3 /\ Len(c.version) = 3
  BY DEF Tag, Matches
<1>2. b.version = c.version
  BY <1>1, SameLength
<1>3. /\ b = [version |-> b.version, label |-> b.label]
      /\ c = [version |-> c.version, label |-> c.label]
  BY DEF Tag
<1> QED
  BY <1>1, <1>2, <1>3

(* The order in which git lists the tags decides nothing but ties: whatever *)
(* the scan returns for a set of tags is as good as every other best tag of *)
(* it, and for OpenSSL there is no other.                                   *)
THEOREM OrderDecidesTies ==
  Spec => [](best # NoTag =>
               /\ best \in BestOf(lib, seen)
               /\ \A c \in BestOf(lib, seen) : Tied(lib, best, c) /\ (lib = "openssl" => c = best))
<1>1. ASSUME TypeOK, BestSeen, best # NoTag
      PROVE  /\ best \in BestOf(lib, seen)
             /\ \A c \in BestOf(lib, seen) :
                  Tied(lib, best, c) /\ (lib = "openssl" => c = best)
  <2>1. best \in seen /\ Matches(lib, best) /\ seen \in SUBSET Tag /\ lib \in Library
    BY <1>1 DEF TypeOK
  <2>2. best \in BestOf(lib, seen)
    <3> SUFFICES ASSUME NEW t \in seen, Matches(lib, t), Better(lib, t, best) PROVE FALSE
      BY <2>1 DEF BestOf
    <3> QED
      BY <1>1, RankNat DEF BestSeen, Better
  <2>3. ASSUME NEW c \in BestOf(lib, seen)
        PROVE  Tied(lib, best, c) /\ (lib = "openssl" => c = best)
    <3>1. Tied(lib, best, c)
      BY <2>1, <2>2, BestTied
    <3>2. c \in Tag /\ best \in Tag /\ Matches(lib, c)
      BY <2>1 DEF BestOf
    <3> QED
      BY <2>1, <3>1, <3>2, OpensslUnique DEF Tied
  <2> QED
    BY <2>2, <2>3
<1> QED
  BY <1>1, TypeCorrect, BestSeenHolds, PTL
=============================================================================
