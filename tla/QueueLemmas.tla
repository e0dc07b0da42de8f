---------------------------- MODULE QueueLemmas -----------------------------
(***************************************************************************)
(* Lemmas about sequences that the proofs about WorkQueue and CpuWorker    *)
(* share: what is left of a queue when entries leave it from the front or  *)
(* from the middle and one comes in at the end.                            *)
(***************************************************************************)
EXTENDS Integers, Sequences, SequencesExt, TLAPS

-----------------------------------------------------------------------------
(* Entries by their places                                                  *)

(* What is left when one entry is cut out of a queue.                       *)
LEMMA RemoveAtFact ==
  ASSUME NEW S, NEW s \in Seq(S), NEW k \in DOMAIN s
  PROVE  /\ RemoveAt(s, k) \in Seq(S)
         /\ Len(RemoveAt(s, k)) = Len(s) - 1
         /\ \A i \in 1 .. Len(s) - 1 :
              RemoveAt(s, k)[i] = IF i < k THEN s[i] ELSE s[i + 1]
<1> DEFINE a == SubSeq(s, 1, k - 1)
           b == SubSeq(s, k + 1, Len(s))
<1>1. k \in 1 .. Len(s) /\ Len(s) \in Nat
  OBVIOUS
<1>2. /\ a \in Seq(S) /\ Len(a) = k - 1
      /\ \A i \in 1 .. k - 1 : a[i] = s[i]
  BY <1>1
<1>3. /\ b \in Seq(S) /\ Len(b) = Len(s) - k
      /\ \A i \in 1 .. Len(s) - k : b[i] = s[k + i]
  BY <1>1
<1>4. RemoveAt(s, k) = a \o b
  BY DEF RemoveAt
<1> HIDE DEF a, b
<1>5. a \o b \in Seq(S) /\ Len(a \o b) = Len(s) - 1
  BY <1>1, <1>2, <1>3
<1>6. ASSUME NEW i \in 1 .. Len(s) - 1
      PROVE  (a \o b)[i] = IF i < k THEN s[i] ELSE s[i + 1]
  <2>1. CASE i < k
    BY <1>1, <1>2, <1>3, <2>1
  <2>2. CASE ~(i < k)
    <3>1. (a \o b)[i] = b[i - (k - 1)]
      BY <1>1, <1>2, <1>3, <2>2
    <3>2. i - (k - 1) \in 1 .. Len(s) - k /\ k + (i - (k - 1)) = i + 1
      BY <1>1, <2>2
    <3> QED
      BY <1>3, <2>2, <3>1, <3>2
  <2> QED
    BY <2>1, <2>2
<1> QED
  BY <1>4, <1>5, <1>6

(* What is left when the first k entries go and one comes in at the end.    *)
LEMMA CullFact ==
  ASSUME NEW S, NEW s \in Seq(S), NEW k \in 0 .. Len(s), NEW x \in S
  PROVE  LET t == Append(SubSeq(s, k + 1, Len(s)), x)
         IN  /\ t \in Seq(S)
             /\ Len(t) = Len(s) + 1 - k
             /\ \A i \in 1 .. Len(t) : t[i] = IF i <= Len(s) - k THEN s[i + k] ELSE x
<1> DEFINE b == SubSeq(s, k + 1, Len(s))
<1>1. /\ b \in Seq(S) /\ Len(b) = Len(s) - k
      /\ \A i \in 1 .. Len(s) - k : b[i] = s[k + i]
  OBVIOUS
<1> HIDE DEF b
<1>2. /\ Append(b, x) \in Seq(S) /\ Len(Append(b, x)) = Len(s) + 1 - k
      /\ \A i \in 1 .. Len(s) - k : Append(b, x)[i] = b[i]
      /\ Append(b, x)[Len(s) + 1 - k] = x
  BY <1>1
<1>3. ASSUME NEW i \in 1 .. Len(s) + 1 - k
      PROVE  Append(b, x)[i] = IF i <= Len(s) - k THEN s[i + k] ELSE x
  <2>1. CASE i <= Len(s) - k
    BY <1>1, <1>2, <2>1
  <2>2. CASE ~(i <= Len(s) - k)
    <3>1. i = Len(s) + 1 - k
      BY <2>2
    <3> QED
      BY <1>2, <2>2, <3>1
  <2> QED
    BY <2>1, <2>2
<1> QED
  BY <1>2, <1>3 DEF b

(* What is left without the first entry.                                    *)
LEMMA TailFact ==
  ASSUME NEW S, NEW s \in Seq(S), s # <<>>
  PROVE  /\ Head(s) = s[1] /\ s[1] \in S /\ Len(s) > 0
         /\ Tail(s) \in Seq(S) /\ Len(Tail(s)) = Len(s) - 1
         /\ \A i \in 1 .. Len(s) - 1 : Tail(s)[i] = s[i + 1]
  OBVIOUS

-----------------------------------------------------------------------------
(* Queues without repetition, as sets                                       *)

Distinct(s) == \A i, j \in DOMAIN s : s[i] = s[j] => i = j

(* An entry that was not there comes in at the end.                         *)
LEMMA AppendFact ==
  ASSUME NEW S, NEW s \in Seq(S), NEW x \in S, Distinct(s), x \notin ToSet(s)
  PROVE  Distinct(Append(s, x)) /\ ToSet(Append(s, x)) = ToSet(s) \cup {x}
<1> DEFINE t == Append(s, x)
<1>1. /\ DOMAIN s = 1 .. Len(s) /\ DOMAIN t = 1 .. Len(s) + 1 /\ Len(s) \in Nat
      /\ t[Len(s) + 1] = x /\ \A i \in 1 .. Len(s) : t[i] = s[i]
  OBVIOUS
<1> HIDE DEF t
<1>2. \A i \in 1 .. Len(s) : s[i] \in ToSet(s)
  BY <1>1 DEF ToSet
<1>3. ASSUME NEW i \in DOMAIN t, NEW j \in DOMAIN t, t[i] = t[j] PROVE i = j
  BY <1>1, <1>2, <1>3 DEF Distinct
<1>4. ASSUME NEW y PROVE y \in ToSet(t) <=> y \in ToSet(s) \cup {x}
  <2>1. y \in ToSet(t) <=> \E i \in 1 .. Len(s) + 1 : y = t[i]
    BY <1>1 DEF ToSet
  <2>2. y \in ToSet(s) <=> \E i \in 1 .. Len(s) : y = s[i]
    BY <1>1 DEF ToSet
  <2> QED
    BY <1>1, <2>1, <2>2
<1> QED
  BY <1>3, <1>4 DEF Distinct, t

(* One entry cut out, wherever it was.                                      *)
LEMMA CutFact ==
  ASSUME NEW S, NEW s \in Seq(S), NEW k \in DOMAIN s, Distinct(s),
         NEW t \in Seq(S), Len(t) = Len(s) - 1,
         \A i \in 1 .. Len(s) - 1 : t[i] = IF i < k THEN s[i] ELSE s[i + 1]
  PROVE  Distinct(t) /\ ToSet(t) = ToSet(s) \ {s[k]} /\ s[k] \in ToSet(s)
<1>1. DOMAIN s = 1 .. Len(s) /\ DOMAIN t = 1 .. Len(s) - 1 /\ Len(s) \in Nat
  OBVIOUS
<1> DEFINE from(n) == IF n < k THEN n ELSE n + 1
<1>2. \A i \in DOMAIN t : from(i) \in DOMAIN s /\ from(i) # k /\ t[i] = s[from(i)]
  BY <1>1
<1>3. \A i, j \in DOMAIN t : from(i) = from(j) => i = j
  BY <1>1
<1>4. \A m \in DOMAIN s : m # k => \E i \in DOMAIN t : from(i) = m
  <2> SUFFICES ASSUME NEW m \in DOMAIN s, m # k PROVE \E i \in DOMAIN t : from(i) = m
    OBVIOUS
  <2>1. CASE m < k
    <3>1. m \in DOMAIN t /\ from(m) = m
      BY <1>1, <2>1
    <3> QED
      BY <3>1
  <2>2. CASE m > k
    <3>1. m - 1 \in DOMAIN t /\ from(m - 1) = m
      BY <1>1, <2>2
    <3> QED
      BY <3>1
  <2> QED
    BY <1>1, <2>1, <2>2
<1> HIDE DEF from
<1>5. Distinct(t)
  BY <1>2, <1>3 DEF Distinct
<1>6. ASSUME NEW y PROVE y \in ToSet(t) <=> y \in ToSet(s) \ {s[k]}
  <2>1. y \in ToSet(t) <=> \E i \in DOMAIN t : y = t[i]
    BY DEF ToSet
  <2>2. y \in ToSet(s) <=> \E m \in DOMAIN s : y = s[m]
    BY DEF ToSet
  <2> QED
    BY <1>2, <1>4, <2>1, <2>2 DEF Distinct
<1>7. s[k] \in ToSet(s)
  BY DEF ToSet
<1> QED
  BY <1>5, <1>6, <1>7

(* The first entry taken off.                                               *)
LEMMA TailCut ==
  ASSUME NEW S, NEW s \in Seq(S), s # <<>>, Distinct(s)
  PROVE  /\ Head(s) \in S /\ Head(s) \in ToSet(s)
         /\ Distinct(Tail(s)) /\ ToSet(Tail(s)) = ToSet(s) \ {Head(s)}
<1> DEFINE t == Tail(s)
           k == 1
<1>1. /\ Head(s) = s[k] /\ s[k] \in S /\ k \in DOMAIN s
      /\ t \in Seq(S) /\ Len(t) = Len(s) - 1
      /\ \A i \in 1 .. Len(s) - 1 : t[i] = IF i < k THEN s[i] ELSE s[i + 1]
  BY TailFact
<1> HIDE DEF t, k
<1>2. Distinct(t) /\ ToSet(t) = ToSet(s) \ {s[k]} /\ s[k] \in ToSet(s)
  BY <1>1, CutFact
<1> QED
  BY <1>1, <1>2 DEF t

(* Some entry cut out.                                                      *)
LEMMA RemoveCut ==
  ASSUME NEW S, NEW s \in Seq(S), NEW k \in DOMAIN s, Distinct(s)
  PROVE  /\ s[k] \in ToSet(s)
         /\ Distinct(RemoveAt(s, k)) /\ ToSet(RemoveAt(s, k)) = ToSet(s) \ {s[k]}
<1> DEFINE t == RemoveAt(s, k)
<1>1. /\ t \in Seq(S) /\ Len(t) = Len(s) - 1
      /\ \A i \in 1 .. Len(s) - 1 : t[i] = IF i < k THEN s[i] ELSE s[i + 1]
  BY RemoveAtFact
<1> HIDE DEF t
<1>2. Distinct(t) /\ ToSet(t) = ToSet(s) \ {s[k]} /\ s[k] \in ToSet(s)
  BY <1>1, CutFact
<1> QED
  BY <1>2 DEF t
=============================================================================
