--------------------------- MODULE RateStatsProofs ---------------------------
(***************************************************************************)
(* Theorems about RateStats: the running total is the sum of the samples   *)
(* kept, no sample is older than the window and the lateness of the calls, *)
(* and without late calls the slice trimmed from its front is the sliding  *)
(* window of SlidingWindow; for every configuration and order of calls.    *)
(*                                                                         *)
(* A sum is a recursive function, so that its lemmas need induction.  The  *)
(* library's induction theorems take an operator; here it is derived from  *)
(* its theorem that a non-empty set of subsets of a finite set has a       *)
(* smallest one, for sets that a proof defines.                            *)
(***************************************************************************)
EXTENDS RateStats, SequenceTheorems, FiniteSetTheorems, TLAPS

(* What Update stores. *)
Sample == [timestamp : Nat, bytes : Nat]

(* A smallest natural exists: the intervals 0 .. i are ordered by inclusion. *)
LEMMA LeastNat ==
  ASSUME NEW n \in Nat, NEW I, I \subseteq 0 .. n, I # {}
  PROVE  \E x \in I : \A y \in I : x <= y
<1> DEFINE all == 0 .. n
           upTo == {0 .. i : i \in I}
<1>1. IsWellFoundedOn(StrictSubsetOrdering(all), SUBSET all)
  <2>1. IsFiniteSet(all)
    BY FS_Interval
  <2> HIDE DEF all
  <2>2. FiniteSubsetsOf(all) = SUBSET all
    BY <2>1, FS_FiniteSubsetsOfFinite
  <2>3. IsWellFoundedOn(StrictSubsetOrdering(all), FiniteSubsetsOf(all))
    BY FS_StrictSubsetOrderingWellFounded
  <2> QED BY <2>2, <2>3
<1>2. upTo \subseteq SUBSET all /\ upTo # {}
  <2>1. \A i \in I : 0 .. i \subseteq all
    OBVIOUS
  <2> HIDE DEF all
  <2> QED BY <2>1
<1>3. PICK T \in upTo : \A U \in upTo : <<U, T>> \notin StrictSubsetOrdering(all)
  <2> HIDE DEF upTo, all
  <2> QED BY <1>1, <1>2, WFMin
<1>4. PICK x \in I : T = 0 .. x
  OBVIOUS
<1>5. ASSUME NEW y \in I
      PROVE  x <= y
  <2> SUFFICES ASSUME y < x PROVE FALSE
    OBVIOUS
  <2>1. 0 .. y \in upTo /\ 0 .. y \subseteq all /\ 0 .. x \subseteq all
    OBVIOUS
  <2>2. 0 .. y \subseteq 0 .. x /\ x \in 0 .. x /\ x \notin 0 .. y
    OBVIOUS
  <2>3. 0 .. y # 0 .. x
    BY <2>2
  <2>4. <<0 .. y, 0 .. x>> \in StrictSubsetOrdering(all)
    BY <2>1, <2>2, <2>3 DEF StrictSubsetOrdering
  <2> QED BY <1>3, <1>4, <2>1, <2>4
<1> QED BY <1>5

(* Induction, for a set that a proof defines by what it shows of its members. *)
LEMMA InductiveSet ==
  ASSUME NEW P, 0 \in P, \A n \in Nat : n \in P => n + 1 \in P
  PROVE  Nat \subseteq P
<1> SUFFICES ASSUME NEW n \in Nat, n \notin P PROVE FALSE
  OBVIOUS
<1> DEFINE missing == {i \in 0 .. n : i \notin P}
<1>1. PICK x \in missing : \A y \in missing : x <= y
  <2>1. missing \subseteq 0 .. n /\ missing # {}
    OBVIOUS
  <2> HIDE DEF missing
  <2> QED BY <2>1, LeastNat
<1>2. x \in 0 .. n /\ x # 0 /\ x - 1 \in 0 .. n /\ x - 1 \notin missing
  BY <1>1
<1> QED BY <1>1, <1>2
-----------------------------------------------------------------------------
(* The function inside SumBytes: the bytes of the first i samples. *)
BytesUpTo(samples) ==
  LET upTo[i \in 0 .. Len(samples)] == IF i = 0 THEN 0 ELSE upTo[i - 1] + samples[i].bytes
  IN  upTo

LEMMA SumIsBytesUpToLen ==
  ASSUME NEW samples
  PROVE  SumBytes(samples) = BytesUpTo(samples)[Len(samples)]
BY DEF SumBytes, BytesUpTo

LEMMA SampleTypes ==
  ASSUME NEW samples \in Seq(Sample)
  PROVE  /\ Len(samples) \in Nat /\ DOMAIN samples = 1 .. Len(samples)
         /\ \A i \in 1 .. Len(samples) :
              /\ samples[i] \in Sample
              /\ samples[i].bytes \in Nat /\ samples[i].timestamp \in Nat
<1>1. Len(samples) \in Nat /\ DOMAIN samples = 1 .. Len(samples)
  BY LenProperties
<1>2. \A i \in 1 .. Len(samples) : samples[i] \in Sample
  BY ElementOfSeq
<1> QED BY <1>1, <1>2 DEF Sample

(* The recursion has a solution, so that the chosen function is one.       *)
LEMMA BytesUpToExists ==
  ASSUME NEW samples \in Seq(Sample)
  PROVE  \E g \in [0 .. Len(samples) -> Nat] :
           /\ g[0] = 0
           /\ \A i \in 1 .. Len(samples) : g[i] = g[i - 1] + samples[i].bytes
<1> DEFINE Solves(g, n) ==
             g[0] = 0 /\ \A i \in 1 .. n : g[i] = g[i - 1] + samples[i].bytes
           P == {n \in Nat : n <= Len(samples) => \E g \in [0 .. n -> Nat] : Solves(g, n)}
<1>1. 0 \in P
  <2> DEFINE zero == [i \in 0 .. 0 |-> 0]
  <2>1. zero \in [0 .. 0 -> Nat] /\ Solves(zero, 0)
    OBVIOUS
  <2> HIDE DEF zero, Solves
  <2> QED BY <2>1
<1> HIDE DEF Solves
<1>2. ASSUME NEW n \in Nat, n \in P
      PROVE  n + 1 \in P
  <2> SUFFICES ASSUME n + 1 <= Len(samples)
               PROVE  \E h \in [0 .. n + 1 -> Nat] : Solves(h, n + 1)
    OBVIOUS
  <2>1. n <= Len(samples) /\ samples[n + 1].bytes \in Nat
    BY SampleTypes
  <2>2. PICK g \in [0 .. n -> Nat] : Solves(g, n)
    BY <1>2, <2>1
  <2> DEFINE h == [i \in 0 .. n + 1 |-> IF i = n + 1 THEN g[n] + samples[n + 1].bytes
                                       ELSE g[i]]
  <2>3. h \in [0 .. n + 1 -> Nat]
    BY <2>1
  <2>4. Solves(h, n + 1)
    BY <2>2 DEF Solves
  <2> HIDE DEF h
  <2> QED BY <2>3, <2>4
<1>3. Len(samples) \in Nat
  BY SampleTypes
<1> HIDE DEF P
<1>4. Nat \subseteq P
  BY <1>1, <1>2, InductiveSet
<1>5. Len(samples) \in P
  BY <1>3, <1>4
<1> QED BY <1>3, <1>5 DEF P, Solves

LEMMA BytesUpToDef ==
  ASSUME NEW samples \in Seq(Sample)
  PROVE  /\ BytesUpTo(samples)[0] = 0
         /\ \A i \in 1 .. Len(samples) :
              BytesUpTo(samples)[i] = BytesUpTo(samples)[i - 1] + samples[i].bytes
<1> DEFINE Step(g) == [i \in 0 .. Len(samples) |->
                         IF i = 0 THEN 0 ELSE g[i - 1] + samples[i].bytes]
<1>1. PICK g \in [0 .. Len(samples) -> Nat] :
        /\ g[0] = 0
        /\ \A i \in 1 .. Len(samples) : g[i] = g[i - 1] + samples[i].bytes
  BY BytesUpToExists
<1>2. g = Step(g)
  BY <1>1, SampleTypes
<1>3. BytesUpTo(samples) = CHOOSE f : f = Step(f)
  BY DEF BytesUpTo
<1> HIDE DEF Step
<1>4. BytesUpTo(samples) = Step(BytesUpTo(samples))
  BY <1>2, <1>3
<1>5. Len(samples) \in Nat
  BY SampleTypes
<1> HIDE DEF BytesUpTo
<1> QED BY <1>4, <1>5 DEF Step

LEMMA BytesUpToType ==
  ASSUME NEW samples \in Seq(Sample), NEW i \in 0 .. Len(samples)
  PROVE  BytesUpTo(samples)[i] \in Nat
<1> DEFINE P == {n \in Nat : n <= Len(samples) => BytesUpTo(samples)[n] \in Nat}
<1>1. 0 \in P
  BY BytesUpToDef
<1>2. ASSUME NEW n \in Nat, n \in P, n + 1 <= Len(samples)
      PROVE  BytesUpTo(samples)[n + 1] \in Nat
  <2>1. Len(samples) \in Nat
    BY SampleTypes
  <2>2. n + 1 \in 1 .. Len(samples) /\ (n + 1) - 1 = n /\ n <= Len(samples)
    BY <1>2, <2>1
  <2>3. BytesUpTo(samples)[n + 1] = BytesUpTo(samples)[n] + samples[n + 1].bytes
    BY <2>2, BytesUpToDef
  <2>4. BytesUpTo(samples)[n] \in Nat
    BY <1>2, <2>2
  <2>5. samples[n + 1].bytes \in Nat
    BY <2>2, SampleTypes
  <2> QED BY <2>3, <2>4, <2>5
<1>3. \A n \in Nat : n \in P => n + 1 \in P
  BY <1>2
<1>4. i \in Nat /\ i <= Len(samples)
  BY SampleTypes
<1> HIDE DEF P
<1>5. i \in P
  BY <1>1, <1>3, <1>4, InductiveSet
<1> QED BY <1>4, <1>5 DEF P

(* The bytes of a stretch are the same wherever it lies.                   *)
LEMMA BytesOfStretch ==
  ASSUME NEW a \in Seq(Sample), NEW b \in Seq(Sample), NEW k \in Nat, NEW n \in Nat,
         k + n <= Len(a), n <= Len(b), \A i \in 1 .. n : a[k + i] = b[i]
  PROVE  BytesUpTo(a)[k + n] = BytesUpTo(a)[k] + BytesUpTo(b)[n]
<1> DEFINE P == {j \in Nat : j <= n =>
                   BytesUpTo(a)[k + j] = BytesUpTo(a)[k] + BytesUpTo(b)[j]}
<1>0. Len(a) \in Nat /\ Len(b) \in Nat
  BY SampleTypes
<1>1. 0 \in P
  <2>1. BytesUpTo(a)[k] \in Nat
    BY <1>0, BytesUpToType
  <2> QED BY <2>1, BytesUpToDef
<1>2. ASSUME NEW j \in Nat, j \in P, j + 1 <= n
      PROVE  BytesUpTo(a)[k + (j + 1)] = BytesUpTo(a)[k] + BytesUpTo(b)[j + 1]
  <2>1. /\ k + (j + 1) \in 1 .. Len(a) /\ (k + (j + 1)) - 1 = k + j
        /\ j + 1 \in 1 .. Len(b) /\ (j + 1) - 1 = j
        /\ j + 1 \in 1 .. n /\ k \in 0 .. Len(a) /\ j \in 0 .. Len(b)
    BY <1>0, <1>2
  <2>2. BytesUpTo(a)[k + (j + 1)] = BytesUpTo(a)[k + j] + a[k + (j + 1)].bytes
    BY <2>1, BytesUpToDef
  <2>3. BytesUpTo(b)[j + 1] = BytesUpTo(b)[j] + b[j + 1].bytes
    BY <2>1, BytesUpToDef
  <2>4. a[k + (j + 1)] = b[j + 1]
    BY <2>1
  <2>5. b[j + 1].bytes \in Nat
    BY <2>1, SampleTypes
  <2>6. BytesUpTo(a)[k] \in Nat /\ BytesUpTo(b)[j] \in Nat
    BY <2>1, BytesUpToType
  <2>7. BytesUpTo(a)[k + j] = BytesUpTo(a)[k] + BytesUpTo(b)[j]
    BY <1>2
  <2> QED BY <2>2, <2>3, <2>4, <2>5, <2>6, <2>7
<1>3. \A j \in Nat : j \in P => j + 1 \in P
  BY <1>2
<1> HIDE DEF P
<1>4. n \in P
  BY <1>1, <1>3, InductiveSet
<1> QED BY <1>4 DEF P

LEMMA SumType ==
  ASSUME NEW samples \in Seq(Sample)
  PROVE  SumBytes(samples) \in Nat
<1>1. Len(samples) \in 0 .. Len(samples)
  BY SampleTypes
<1> QED BY <1>1, SumIsBytesUpToLen, BytesUpToType

LEMMA SumOfNone == SumBytes(<<>>) = 0
<1>1. <<>> \in Seq(Sample) /\ Len(<<>>) = 0
  BY EmptySeq
<1> QED BY <1>1, SumIsBytesUpToLen, BytesUpToDef

LEMMA SumOfAppend ==
  ASSUME NEW samples \in Seq(Sample), NEW e \in Sample
  PROVE  SumBytes(Append(samples, e)) = SumBytes(samples) + e.bytes
<1> DEFINE longer == Append(samples, e)
           n == Len(samples)
<1>1. /\ longer \in Seq(Sample) /\ Len(longer) = n + 1 /\ longer[n + 1] = e
      /\ \A i \in 1 .. n : longer[i] = samples[i]
  BY AppendProperties
<1>2. n \in Nat
  BY SampleTypes
<1> HIDE DEF longer, n
<1>3. BytesUpTo(longer)[n + 1] = BytesUpTo(longer)[n] + e.bytes
  <2>1. n + 1 \in 1 .. Len(longer) /\ (n + 1) - 1 = n
    BY <1>1, <1>2
  <2> QED BY <1>1, <2>1, BytesUpToDef
<1>4. BytesUpTo(longer)[n] = BytesUpTo(samples)[n]
  <2>1. 0 + n <= Len(longer) /\ n <= Len(samples) /\ n = 0 + n
    BY <1>1, <1>2 DEF n
  <2>2. \A i \in 1 .. n : longer[0 + i] = samples[i]
    BY <1>1, <1>2
  <2>3. BytesUpTo(longer)[0 + n] = BytesUpTo(longer)[0] + BytesUpTo(samples)[n]
    BY <1>1, <1>2, <2>1, <2>2, BytesOfStretch
  <2>4. BytesUpTo(samples)[n] \in Nat
    BY <1>2, BytesUpToType DEF n
  <2> QED BY <1>1, <2>1, <2>3, <2>4, BytesUpToDef
<1> QED BY <1>1, <1>3, <1>4, SumIsBytesUpToLen DEF longer, n

LEMMA SumOfSplit ==
  ASSUME NEW samples \in Seq(Sample), NEW n \in 0 .. Len(samples)
  PROVE  SumBytes(samples) =
           SumBytes(SubSeq(samples, 1, n)) + SumBytes(SubSeq(samples, n + 1, Len(samples)))
<1> DEFINE front == SubSeq(samples, 1, n)
           back == SubSeq(samples, n + 1, Len(samples))
           m == Len(samples) - n
<1>1. Len(samples) \in Nat /\ n \in Nat /\ m \in Nat /\ n + m = Len(samples)
  BY SampleTypes
<1>2. front \in Seq(Sample) /\ Len(front) = n /\ \A i \in 1 .. n : front[i] = samples[i]
  <2>1. \A i \in 1 .. n : samples[i] \in Sample
    BY <1>1, SampleTypes
  <2> QED BY <1>1, <2>1, SubSeqProperties
<1>3. back \in Seq(Sample) /\ Len(back) = m /\ \A i \in 1 .. m : samples[n + i] = back[i]
  <2>1. \A i \in n + 1 .. Len(samples) : samples[i] \in Sample
    BY <1>1, SampleTypes
  <2>2. back \in Seq(Sample) /\ Len(back) = m
    BY <1>1, <2>1, SubSeqProperties
  <2>3. \A i \in 1 .. m : back[i] = samples[(n + 1) + i - 1] /\ (n + 1) + i - 1 = n + i
    BY <1>1, <2>1, SubSeqProperties
  <2> QED BY <2>2, <2>3
<1> HIDE DEF front, back, m
<1>4. BytesUpTo(samples)[0 + n] = BytesUpTo(samples)[0] + BytesUpTo(front)[n]
  <2>1. 0 + n <= Len(samples) /\ n <= Len(front)
    BY <1>1, <1>2
  <2>2. \A i \in 1 .. n : samples[0 + i] = front[i]
    BY <1>1, <1>2
  <2>3. front \in Seq(Sample) /\ n \in Nat
    BY <1>1, <1>2
  <2> QED BY <2>1, <2>2, <2>3, BytesOfStretch
<1>5. BytesUpTo(samples)[n + m] = BytesUpTo(samples)[n] + BytesUpTo(back)[m]
  <2>1. n + m <= Len(samples) /\ m <= Len(back)
    BY <1>1, <1>3
  <2> QED BY <1>1, <1>3, <2>1, BytesOfStretch
<1>6. BytesUpTo(front)[n] \in Nat
  BY <1>1, <1>2, BytesUpToType
<1>7. BytesUpTo(samples)[n] = BytesUpTo(front)[n]
  BY <1>1, <1>4, <1>6, BytesUpToDef
<1> QED BY <1>1, <1>2, <1>3, <1>5, <1>7, SumIsBytesUpToLen DEF front, back
-----------------------------------------------------------------------------
(* The trimming stops at the first sample that is fresh.                   *)
LEMMA ExpiredCounted ==
  ASSUME NEW samples \in Seq(Sample), NEW cutoff \in Int
  PROVE  LET n == ExpiredCount(samples, cutoff)
         IN  /\ n \in 0 .. Len(samples)
             /\ \A i \in 1 .. n : samples[i].timestamp < cutoff
             /\ n < Len(samples) => samples[n + 1].timestamp >= cutoff
<1> DEFINE I == {i \in 1 .. Len(samples) : samples[i].timestamp >= cutoff}
           fresh == IF I # {} THEN Min(I) ELSE 0
           n == ExpiredCount(samples, cutoff)
<1>1. n = IF fresh = 0 THEN Len(samples) ELSE fresh - 1
  BY DEF ExpiredCount, SelectInSeq
<1>2. Len(samples) \in Nat /\ \A i \in 1 .. Len(samples) : samples[i].timestamp \in Int
  BY SampleTypes
<1>3. I # {} => fresh \in I /\ \A i \in I : fresh <= i
  <2> SUFFICES ASSUME I # {} PROVE Min(I) \in I /\ \A i \in I : Min(I) <= i
    OBVIOUS
  <2>1. I \subseteq 0 .. Len(samples)
    BY <1>2
  <2> HIDE DEF I
  <2>2. \E x \in I : \A y \in I : x <= y
    BY <1>2, <2>1, LeastNat
  <2> QED BY <2>2 DEF Min
<1>4. I = {} => fresh = 0
  OBVIOUS
<1> HIDE DEF fresh, n
<1>5. CASE I = {}
  BY <1>1, <1>2, <1>4, <1>5 DEF n
<1>6. CASE I # {}
  <2>1. fresh \in 1 .. Len(samples) /\ samples[fresh].timestamp >= cutoff
    BY <1>3, <1>6
  <2>2. n = fresh - 1 /\ n \in 0 .. Len(samples) /\ n + 1 = fresh
    BY <1>1, <1>2, <2>1
  <2>3. ASSUME NEW i \in 1 .. n
        PROVE  samples[i].timestamp < cutoff
    <3>1. i \in 1 .. Len(samples) /\ ~(fresh <= i)
      BY <1>2, <2>1, <2>2
    <3>2. i \notin I
      BY <1>3, <1>6, <3>1
    <3> QED BY <1>2, <3>1, <3>2
  <2> QED BY <2>1, <2>2, <2>3 DEF n
<1> QED BY <1>5, <1>6

(* What removeExpired leaves: the samples from the first fresh one on.     *)
LEMMA Trimmed ==
  ASSUME NEW r, r.samples \in Seq(Sample), NEW t \in Int
  PROVE  LET n == ExpiredCount(r.samples, t - WindowSize)
             kept == RemoveExpired(r, t).samples
         IN  /\ n \in 0 .. Len(r.samples)
             /\ kept = SubSeq(r.samples, n + 1, Len(r.samples))
             /\ kept \in Seq(Sample) /\ Len(kept) = Len(r.samples) - n
             /\ \A i \in 1 .. Len(kept) : kept[i] = r.samples[n + i]
             /\ \A i \in 1 .. n : r.samples[i].timestamp < t - WindowSize
             /\ Len(kept) > 0 => kept[1].timestamp >= t - WindowSize
<1> DEFINE s == r.samples
           n == ExpiredCount(s, t - WindowSize)
           kept == SubSeq(s, n + 1, Len(s))
<1>1. RemoveExpired(r, t).samples = kept
  BY DEF RemoveExpired
<1>2. s \in Seq(Sample) /\ Len(s) \in Nat /\ t - WindowSize \in Int
  BY SampleTypes, ConfigAssumption
<1> HIDE DEF s
<1>3. /\ n \in 0 .. Len(s)
      /\ \A i \in 1 .. n : s[i].timestamp < t - WindowSize
      /\ n < Len(s) => s[n + 1].timestamp >= t - WindowSize
  BY <1>2, ExpiredCounted
<1> HIDE DEF n
<1>4. \A i \in n + 1 .. Len(s) : s[i] \in Sample
  BY <1>2, <1>3, SampleTypes
<1>5. kept \in Seq(Sample) /\ Len(kept) = IF n + 1 <= Len(s) THEN Len(s) - n ELSE 0
  BY <1>2, <1>3, <1>4, SubSeqProperties
<1>6. Len(kept) = Len(s) - n
  BY <1>2, <1>3, <1>5
<1>7. \A i \in 1 .. Len(kept) : kept[i] = s[n + i]
  <2>1. \A i \in 1 .. (Len(s) - (n + 1)) + 1 : kept[i] = s[((n + 1) + i) - 1]
    BY <1>2, <1>3, <1>4, SubSeqProperties
  <2> HIDE DEF kept
  <2> QED BY <1>2, <1>3, <1>6, <2>1
<1>8. Len(kept) > 0 => kept[1].timestamp >= t - WindowSize
  <2>1. Len(kept) > 0 => n < Len(s) /\ kept[1] = s[n + 1]
    <3> HIDE DEF kept
    <3> QED BY <1>2, <1>3, <1>6, <1>7
  <2> QED BY <1>3, <2>1
<1> HIDE DEF kept
<1> QED BY <1>1, <1>3, <1>5, <1>6, <1>7, <1>8 DEF s, n, kept

-----------------------------------------------------------------------------
(* A record whose total is the sum of its samples. *)
Exact(r) == r.samples \in Seq(Sample) /\ r.totalBytes = SumBytes(r.samples)

(* The total loses what the slice loses.                                   *)
LEMMA RemoveExpiredExact ==
  ASSUME NEW r, Exact(r), NEW t \in Int
  PROVE  Exact(RemoveExpired(r, t))
<1> DEFINE n == ExpiredCount(r.samples, t - WindowSize)
           gone == SubSeq(r.samples, 1, n)
           kept == SubSeq(r.samples, n + 1, Len(r.samples))
<1>1. n \in 0 .. Len(r.samples) /\ kept \in Seq(Sample)
  BY Trimmed DEF Exact
<1>2. gone \in Seq(Sample)
  <2>1. \A i \in 1 .. n : r.samples[i] \in Sample
    BY <1>1, SampleTypes DEF Exact
  <2>2. n \in Int
    BY <1>1
  <2> HIDE DEF n
  <2> QED BY <2>1, <2>2, SubSeqProperties
<1>3. SumBytes(r.samples) = SumBytes(gone) + SumBytes(kept)
  BY <1>1, SumOfSplit DEF Exact
<1>4. SumBytes(gone) \in Nat /\ SumBytes(kept) \in Nat
  BY <1>1, <1>2, SumType
<1>5. RemoveExpired(r, t)
        = [samples |-> kept, totalBytes |-> r.totalBytes - SumBytes(gone)]
  BY DEF RemoveExpired
<1> HIDE DEF kept, gone
<1>6. r.totalBytes - SumBytes(gone) = SumBytes(kept)
  BY <1>3, <1>4 DEF Exact
<1> QED BY <1>1, <1>5, <1>6 DEF Exact

LEMMA UpdatedExact ==
  ASSUME NEW r, Exact(r), NEW bytes \in Nat, NEW t \in Nat
  PROVE  Exact(Updated(r, bytes, t))
<1> DEFINE trimmed == RemoveExpired(r, t)
           arrived == [timestamp |-> t, bytes |-> bytes]
<1>1. Exact(trimmed)
  BY RemoveExpiredExact
<1>2. arrived \in Sample /\ arrived.bytes = bytes
  BY DEF Sample
<1>3. Updated(r, bytes, t) = [samples    |-> Append(trimmed.samples, arrived),
                              totalBytes |-> trimmed.totalBytes + bytes]
  BY DEF Updated
<1> HIDE DEF trimmed, arrived
<1>4. Append(trimmed.samples, arrived) \in Seq(Sample)
  BY <1>1, <1>2, AppendProperties DEF Exact
<1>5. SumBytes(Append(trimmed.samples, arrived)) = trimmed.totalBytes + bytes
  BY <1>1, <1>2, SumOfAppend DEF Exact
<1> QED BY <1>3, <1>4, <1>5 DEF Exact
-----------------------------------------------------------------------------
(* Samples stand in the order of the calls: none is ahead of the latest    *)
(* call and none is further behind an earlier one than calls were late.    *)
Orderly(samples, last, late) ==
  /\ \A i \in 1 .. Len(samples) : samples[i].timestamp <= last
  /\ \A i, j \in 1 .. Len(samples) :
       i < j => samples[j].timestamp >= samples[i].timestamp - late

(* The trimming stopped at the first sample, if there is one. *)
FreshFirst(samples, t) == Len(samples) > 0 => samples[1].timestamp >= t - WindowSize

LEMMA TrimmedOrderly ==
  ASSUME NEW r, r.samples \in Seq(Sample), NEW t \in Int,
         NEW last \in Int, NEW late \in Int, NEW newLast \in Int, NEW newLate \in Int,
         Orderly(r.samples, last, late), last <= newLast, late <= newLate
  PROVE  LET kept == RemoveExpired(r, t).samples
         IN  kept \in Seq(Sample) /\ Orderly(kept, newLast, newLate) /\ FreshFirst(kept, t)
<1> DEFINE s == r.samples
           n == ExpiredCount(s, t - WindowSize)
           kept == RemoveExpired(r, t).samples
<1>1. /\ n \in 0 .. Len(s) /\ kept \in Seq(Sample) /\ Len(kept) = Len(s) - n
      /\ \A i \in 1 .. Len(kept) : kept[i] = s[n + i]
      /\ Len(kept) > 0 => kept[1].timestamp >= t - WindowSize
  BY Trimmed
<1>2. /\ s \in Seq(Sample) /\ Len(s) \in Nat
      /\ \A i \in 1 .. Len(s) : s[i].timestamp \in Nat
  BY SampleTypes
<1>3. /\ \A i \in 1 .. Len(s) : s[i].timestamp <= last
      /\ \A i, j \in 1 .. Len(s) : i < j => s[j].timestamp >= s[i].timestamp - late
  BY DEF Orderly
<1> HIDE DEF s, n, kept
<1>4. ASSUME NEW i \in 1 .. Len(kept)
      PROVE  /\ n + i \in 1 .. Len(s) /\ kept[i] = s[n + i]
             /\ kept[i].timestamp \in Nat /\ kept[i].timestamp <= newLast
  <2>1. n + i \in 1 .. Len(s)
    BY <1>1, <1>2
  <2>2. kept[i] = s[n + i]
    BY <1>1
  <2>3. s[n + i].timestamp \in Nat /\ s[n + i].timestamp <= last
    BY <1>2, <1>3, <2>1
  <2> QED BY <2>1, <2>2, <2>3
<1>5. ASSUME NEW i \in 1 .. Len(kept), NEW j \in 1 .. Len(kept), i < j
      PROVE  kept[j].timestamp >= kept[i].timestamp - newLate
  <2>1. n + i < n + j
    BY <1>1, <1>2, <1>5
  <2>2. s[n + j].timestamp >= s[n + i].timestamp - late
    BY <1>3, <1>4, <2>1
  <2>3. /\ kept[i].timestamp = s[n + i].timestamp /\ kept[i].timestamp \in Nat
        /\ kept[j].timestamp = s[n + j].timestamp /\ kept[j].timestamp \in Nat
    BY <1>4
  <2> QED BY <2>2, <2>3
<1>6. Orderly(kept, newLast, newLate)
  BY <1>4, <1>5 DEF Orderly
<1> QED BY <1>1, <1>6 DEF FreshFirst, kept

LEMMA AppendedOrderly ==
  ASSUME NEW kept \in Seq(Sample), NEW e \in Sample,
         NEW last \in Int, NEW late \in Nat,
         Orderly(kept, last, late), FreshFirst(kept, e.timestamp),
         e.timestamp <= last, last - e.timestamp <= late
  PROVE  LET longer == Append(kept, e)
         IN  /\ longer \in Seq(Sample) /\ Orderly(longer, last, late)
             /\ FreshFirst(longer, e.timestamp)
<1> DEFINE longer == Append(kept, e)
           n == Len(kept)
<1>1. /\ longer \in Seq(Sample) /\ Len(longer) = n + 1 /\ longer[n + 1] = e
      /\ \A i \in 1 .. n : longer[i] = kept[i]
  BY AppendProperties
<1>2. n \in Nat /\ e.timestamp \in Nat /\ \A i \in 1 .. n : kept[i].timestamp \in Nat
  BY SampleTypes DEF Sample
<1>3. /\ \A i \in 1 .. n : kept[i].timestamp <= last
      /\ \A i, j \in 1 .. n : i < j => kept[j].timestamp >= kept[i].timestamp - late
  BY DEF Orderly
<1>4. n > 0 => kept[1].timestamp >= e.timestamp - WindowSize
  BY DEF FreshFirst
<1> HIDE DEF longer, n
<1>5. ASSUME NEW i \in 1 .. n + 1
      PROVE  longer[i].timestamp \in Nat /\ longer[i].timestamp <= last
  BY <1>1, <1>2, <1>3
<1>6. ASSUME NEW i \in 1 .. n + 1, NEW j \in 1 .. n + 1, i < j
      PROVE  longer[j].timestamp >= longer[i].timestamp - late
  <2>1. i \in 1 .. n /\ longer[i] = kept[i]
    BY <1>1, <1>2, <1>6
  <2>2. CASE j = n + 1
    BY <1>1, <1>2, <1>3, <2>1, <2>2
  <2>3. CASE j # n + 1
    <3>1. j \in 1 .. n
      BY <1>2, <2>3
    <3> QED BY <1>1, <1>3, <1>6, <2>1, <3>1
  <2> QED BY <2>2, <2>3
<1>7. Orderly(longer, last, late)
  BY <1>1, <1>5, <1>6 DEF Orderly
<1>8. longer[1].timestamp >= e.timestamp - WindowSize
  BY <1>1, <1>2, <1>4, ConfigAssumption
<1> QED BY <1>1, <1>7, <1>8 DEF FreshFirst, longer

LEMMA MaxOfTwo ==
  ASSUME NEW a \in Int, NEW b \in Int
  PROVE  Max({a, b}) = IF a >= b THEN a ELSE b
<1>1. \E x \in {a, b} : \A y \in {a, b} : x >= y
  OBVIOUS
<1>2. Max({a, b}) \in {a, b} /\ \A y \in {a, b} : Max({a, b}) >= y
  BY <1>1 DEF Max
<1> QED BY <1>2

-----------------------------------------------------------------------------
(* The inductive invariant. *)
IInv ==
  /\ latest \in Nat /\ lateness \in Nat /\ lastCall \in Nat
  /\ Exact(rs)
  /\ Orderly(rs.samples, latest, lateness)
  /\ FreshFirst(rs.samples, lastCall)

(* The times of a call: the latest is no further ahead of it than lateness.*)
LEMMA CalledTimes ==
  ASSUME IInv, NEW t \in Instants, Called(t)
  PROVE  /\ t \in Nat
         /\ latest' \in Nat /\ lateness' \in Nat
         /\ latest <= latest' /\ lateness <= lateness'
         /\ t <= latest' /\ latest' - t <= lateness'
<1>1. t \in Nat /\ latest \in Nat /\ lateness \in Nat /\ latest - t \in Int
  BY ConfigAssumption DEF IInv, Instants
<1>2. /\ latest' = (IF latest >= t THEN latest ELSE t)
      /\ lateness' = (IF lateness >= latest - t THEN lateness ELSE latest - t)
  BY <1>1, MaxOfTwo DEF Called
<1> QED BY <1>1, <1>2

LEMMA UpdateStep ==
  ASSUME IInv, NEW bytes \in Sizes, NEW t \in Instants, Update(bytes, t)
  PROVE  IInv'
<1> DEFINE trimmed == RemoveExpired(rs, t)
           arrived == [timestamp |-> t, bytes |-> bytes]
<1>1. /\ t \in Nat /\ latest' \in Nat /\ lateness' \in Nat
      /\ latest <= latest' /\ lateness <= lateness'
      /\ t <= latest' /\ latest' - t <= lateness'
  BY CalledTimes DEF Update
<1>2. bytes \in Nat /\ arrived \in Sample /\ arrived.timestamp = t
  BY <1>1, ConfigAssumption DEF Sample
<1>3. Exact(rs')
  BY <1>1, <1>2, UpdatedExact DEF IInv, Update
<1>4. /\ trimmed.samples \in Seq(Sample) /\ FreshFirst(trimmed.samples, t)
      /\ Orderly(trimmed.samples, latest', lateness')
  <2>1. rs.samples \in Seq(Sample) /\ latest \in Int /\ lateness \in Int /\ t \in Int
        /\ latest' \in Int /\ lateness' \in Int
    BY <1>1 DEF IInv, Exact
  <2> QED BY <1>1, <2>1, TrimmedOrderly DEF IInv
<1>5. rs'.samples = Append(trimmed.samples, arrived)
  BY DEF Update, Updated
<1> HIDE DEF trimmed, arrived
<1>6. Orderly(rs'.samples, latest', lateness') /\ FreshFirst(rs'.samples, t)
  <2>1. latest' \in Int /\ arrived.timestamp <= latest' /\ latest' - arrived.timestamp <= lateness'
    <3>1. latest' \in Int
      BY <1>1
    <3>2. t <= latest'
      BY <1>1
    <3>3. latest' - t <= lateness'
      BY <1>1
    <3> QED BY <1>2, <3>1, <3>2, <3>3, Zenon
  <2>2. FreshFirst(trimmed.samples, arrived.timestamp)
    BY <1>2, <1>4
  <2>3. LET longer == Append(trimmed.samples, arrived)
        IN  Orderly(longer, latest', lateness') /\ FreshFirst(longer, arrived.timestamp)
    BY <1>1, <1>2, <1>4, <2>1, <2>2, AppendedOrderly
  <2> QED BY <1>2, <1>5, <2>3
<1>7. lastCall' = t
  BY DEF Update, Called
<1> QED BY <1>1, <1>3, <1>6, <1>7 DEF IInv, Exact, Orderly, FreshFirst

LEMMA RateStep ==
  ASSUME IInv, NEW t \in Instants, Rate(t)
  PROVE  IInv'
<1>1. /\ t \in Nat /\ latest' \in Nat /\ lateness' \in Nat
      /\ latest <= latest' /\ lateness <= lateness'
  BY CalledTimes DEF Rate
<1>2. Exact(rs')
  BY <1>1, RemoveExpiredExact DEF IInv, Rate
<1>3. Orderly(rs'.samples, latest', lateness') /\ FreshFirst(rs'.samples, t)
  <2>1. rs.samples \in Seq(Sample) /\ latest \in Int /\ lateness \in Int /\ t \in Int
        /\ latest' \in Int /\ lateness' \in Int
    BY <1>1 DEF IInv, Exact
  <2> QED BY <1>1, <2>1, TrimmedOrderly DEF IInv, Rate
<1>4. lastCall' = t
  BY DEF Rate, Called
<1> QED BY <1>1, <1>2, <1>3, <1>4 DEF IInv, Exact, Orderly, FreshFirst

LEMMA NewStatsFacts ==
  /\ Exact(NewRateStats) /\ NewRateStats.samples = <<>> /\ Len(<<>>) = 0
  /\ \A last, late, t : Orderly(<<>>, last, late) /\ FreshFirst(<<>>, t)
<1>1. <<>> \in Seq(Sample) /\ Len(<<>>) = 0
  BY EmptySeq
<1>2. Exact(NewRateStats)
  BY <1>1, SumOfNone DEF NewRateStats, Exact
<1> QED BY <1>1, <1>2 DEF NewRateStats, Orderly, FreshFirst

LEMMA IInvInductive == Spec => []IInv
<1>1. Init => IInv
  BY NewStatsFacts DEF Init, IInv
<1>2. IInv /\ [Next]_vars => IInv'
  <2> SUFFICES ASSUME IInv, [Next]_vars PROVE IInv'
    OBVIOUS
  <2>1. CASE Reset
    BY <2>1, NewStatsFacts DEF Reset, IInv, Exact, Orderly, FreshFirst
  <2>2. CASE UNCHANGED vars
    BY <2>2 DEF vars, IInv, Exact, Orderly, FreshFirst
  <2> QED BY <2>1, <2>2, UpdateStep, RateStep DEF Next
<1> QED BY <1>1, <1>2, PTL DEF Spec

(* The running total is a fresh sum in every reachable state: subtracting  *)
(* what the loop of removeExpired passes never drifts.                     *)
THEOREM TotalExact == Spec => []TotalMatches
<1>1. IInv => TotalMatches
  BY DEF IInv, Exact, TotalMatches
<1> QED BY <1>1, IInvInductive, PTL

(* However calls are reordered, a sample outlives the window by no more    *)
(* than calls have been late.                                              *)
THEOREM StalenessIsBounded == Spec => []StalenessBounded
<1>1. ASSUME IInv, NEW i \in DOMAIN rs.samples
      PROVE  rs.samples[i].timestamp >= lastCall - WindowSize - lateness
  <2>1. /\ Len(rs.samples) \in Nat /\ i \in 1 .. Len(rs.samples) /\ WindowSize \in Nat
        /\ \A j \in 1 .. Len(rs.samples) : rs.samples[j].timestamp \in Nat
        /\ lateness \in Nat /\ lastCall \in Nat
    BY <1>1, SampleTypes, ConfigAssumption DEF IInv, Exact
  <2>2. 1 \in 1 .. Len(rs.samples) /\ rs.samples[1].timestamp >= lastCall - WindowSize
    BY <1>1, <2>1 DEF IInv, FreshFirst
  <2>3. i > 1 => rs.samples[i].timestamp >= rs.samples[1].timestamp - lateness
    BY <1>1, <2>1, <2>2 DEF IInv, Orderly
  <2> QED BY <2>1, <2>2, <2>3
<1>2. IInv => StalenessBounded
  BY <1>1 DEF StalenessBounded
<1> QED BY <1>2, IInvInductive, PTL
-----------------------------------------------------------------------------
LEMMA SameSum ==
  ASSUME NEW samples
  PROVE  Abstract!SumBytes(samples) = SumBytes(samples)
BY DEF SumBytes, Abstract!SumBytes

LEMMA GreatestNat ==
  ASSUME NEW n \in Nat, NEW I, I \subseteq 0 .. n, I # {}
  PROVE  \E x \in I : \A y \in I : x >= y
<1> DEFINE below == {n - i : i \in I}
<1>0. \A i \in I : i \in Int /\ i >= 0 /\ i <= n
  OBVIOUS
<1>1. below \subseteq 0 .. n /\ below # {}
  <2>1. \A i \in I : n - i \in 0 .. n
    BY <1>0
  <2>2. below \subseteq 0 .. n
    BY <2>1
  <2>3. below # {}
    OBVIOUS
  <2> QED BY <2>2, <2>3
<1>2. PICK z \in below : \A y \in below : z <= y
  <2> HIDE DEF below
  <2> QED BY <1>1, LeastNat
<1>3. PICK x \in I : z = n - x
  OBVIOUS
<1>4. \A y \in I : n - x <= n - y
  BY <1>2, <1>3
<1> QED BY <1>0, <1>4

(* The first and the last sample stand for the earliest and the latest, up *)
(* to the lateness of calls at either end.                                 *)
LEMMA SpanOfOrderly ==
  ASSUME NEW samples \in Seq(Sample), Len(samples) > 0,
         NEW last \in Nat, NEW late \in Nat, Orderly(samples, last, late)
  PROVE  LET elapsed == samples[Len(samples)].timestamp - samples[1].timestamp
         IN  /\ elapsed \in Int /\ Abstract!Span(samples) \in Int
             /\ elapsed <= Abstract!Span(samples)
             /\ elapsed >= Abstract!Span(samples) - 2 * late
<1> DEFINE n == Len(samples)
           stamps == {samples[i].timestamp : i \in DOMAIN samples}
           high == Abstract!Max(stamps)
           low == Abstract!Min(stamps)
<1>1. /\ n \in Nat /\ DOMAIN samples = 1 .. n /\ 1 \in 1 .. n /\ n \in 1 .. n
      /\ \A i \in 1 .. n : samples[i].timestamp \in Nat
  BY SampleTypes
<1>2. /\ \A i \in 1 .. n : samples[i].timestamp <= last
      /\ \A i, j \in 1 .. n : i < j => samples[j].timestamp >= samples[i].timestamp - late
  BY DEF Orderly
<1> HIDE DEF n
<1>3. stamps \subseteq 0 .. last /\ stamps # {}
  BY <1>1, <1>2
<1>4. \A i \in 1 .. n : samples[i].timestamp \in stamps
  BY <1>1
<1>5. high \in stamps /\ \A x \in stamps : high >= x
  <2> HIDE DEF stamps
  <2>1. \E x \in stamps : \A y \in stamps : x >= y
    BY <1>3, GreatestNat
  <2> QED BY <2>1 DEF Abstract!Max
<1>6. low \in stamps /\ \A x \in stamps : low <= x
  <2> HIDE DEF stamps
  <2>1. \E x \in stamps : \A y \in stamps : x <= y
    BY <1>3, LeastNat
  <2> QED BY <2>1 DEF Abstract!Min
<1>7. Abstract!Span(samples) = high - low
  BY DEF Abstract!Span
<1> HIDE DEF high, low
<1>8. PICK a \in 1 .. n : high = samples[a].timestamp
  BY <1>1, <1>5
<1>9. PICK b \in 1 .. n : low = samples[b].timestamp
  BY <1>1, <1>6
<1> HIDE DEF stamps
<1>10. high >= samples[n].timestamp /\ low <= samples[1].timestamp
  BY <1>1, <1>4, <1>5, <1>6
<1>11. samples[n].timestamp >= high - late
  <2>1. CASE a = n
    BY <1>1, <1>8, <2>1
  <2>2. CASE a # n
    <3>1. a < n
      BY <1>1, <2>2
    <3> QED BY <1>1, <1>2, <1>8, <3>1
  <2> QED BY <2>1, <2>2
<1>12. low >= samples[1].timestamp - late
  <2>1. CASE b = 1
    BY <1>1, <1>9, <2>1
  <2>2. CASE b # 1
    <3>1. 1 < b
      BY <1>1, <2>2
    <3> QED BY <1>1, <1>2, <1>9, <3>1
  <2> QED BY <2>1, <2>2
<1>13. high \in Nat /\ low \in Nat /\ samples[1].timestamp \in Nat /\ samples[n].timestamp \in Nat
  BY <1>1, <1>8, <1>9
<1>14. /\ high - low \in Int /\ samples[n].timestamp - samples[1].timestamp \in Int
       /\ samples[n].timestamp - samples[1].timestamp <= high - low
       /\ samples[n].timestamp - samples[1].timestamp >= (high - low) - 2 * late
  <2> DEFINE newest == samples[n].timestamp
             first == samples[1].timestamp
  <2>1. newest \in Nat /\ first \in Nat /\ high \in Nat /\ low \in Nat
    BY <1>13
  <2>2. high >= newest /\ low <= first
    BY <1>10
  <2>3. newest >= high - late /\ low >= first - late
    BY <1>11, <1>12
  <2> HIDE DEF newest, first
  <2>4. newest - first <= high - low
    BY <2>1, <2>2
  <2>5. newest - first >= (high - low) - 2 * late
    BY <2>1, <2>3
  <2> QED BY <2>1, <2>4, <2>5 DEF newest, first
<1> QED BY <1>7, <1>14 DEF n

(* What removeExpired drops and keeps is what the window allows.           *)
LEMMA TrimIsAllowed ==
  ASSUME IInv, NEW t \in Instants, Called(t)
  PROVE  RemoveExpired(rs, t).samples \in Abstract!Trimmed(t)
<1> DEFINE s == rs.samples
           n == ExpiredCount(s, t - WindowSize)
           kept == RemoveExpired(rs, t).samples
<1>1. /\ t \in Nat /\ latest' \in Nat /\ lateness' \in Nat
      /\ latest <= latest' /\ lateness <= lateness'
  BY CalledTimes
<1>2. /\ s \in Seq(Sample) /\ Len(s) \in Nat /\ WindowSize \in Nat /\ lateness \in Nat
      /\ latest \in Nat
  BY SampleTypes, ConfigAssumption DEF IInv, Exact
<1>3. /\ n \in 0 .. Len(s) /\ kept = SubSeq(s, n + 1, Len(s))
      /\ Len(kept) = Len(s) - n
      /\ \A i \in 1 .. Len(kept) : kept[i] = s[n + i]
      /\ \A i \in 1 .. n : s[i].timestamp < t - WindowSize
      /\ Len(kept) > 0 => kept[1].timestamp >= t - WindowSize
  <2>1. rs.samples \in Seq(Sample) /\ t \in Int
    BY <1>1, <1>2
  <2> QED BY <2>1, Trimmed
<1>4. /\ kept \in Seq(Sample) /\ Orderly(kept, latest', lateness')
      /\ FreshFirst(kept, t)
  <2>1. rs.samples \in Seq(Sample) /\ t \in Int /\ latest \in Int /\ lateness \in Int
        /\ latest' \in Int /\ lateness' \in Int
    BY <1>1, <1>2
  <2> QED BY <1>1, <2>1, TrimmedOrderly DEF IInv
<1> HIDE DEF n, kept, s
<1>5. ASSUME NEW i \in n + 1 .. Len(s)
      PROVE  s[i].timestamp >= t - WindowSize - lateness'
  <2>1. i - n \in 1 .. Len(kept) /\ n + (i - n) = i /\ 1 \in 1 .. Len(kept)
    BY <1>2, <1>3
  <2>2. s[i] = kept[i - n]
    BY <1>3, <2>1
  <2>3. kept[1].timestamp \in Nat /\ kept[i - n].timestamp \in Nat
    BY <1>4, <2>1, SampleTypes
  <2>4. kept[1].timestamp >= t - WindowSize
    BY <1>3, <2>1
  <2>5. i - n > 1 => kept[i - n].timestamp >= kept[1].timestamp - lateness'
    BY <1>4, <2>1 DEF Orderly
  <2>6. i - n = 1 \/ i - n > 1
    BY <2>1
  <2>7. lateness' \in Nat
    BY <1>1
  <2>8. kept[i - n].timestamp >= t - WindowSize - lateness'
    BY <1>1, <1>2, <2>3, <2>4, <2>5, <2>6, <2>7
  <2> QED BY <2>2, <2>8
<1> QED BY <1>3, <1>5 DEF Abstract!Trimmed, s, kept

(* The rate of the slice is a rate over the window.                        *)
LEMMA MeasuredIsAllowed ==
  ASSUME NEW r, Exact(r), latest' \in Nat, lateness' \in Nat,
         Orderly(r.samples, latest', lateness')
  PROVE  Measured(r) \in {Abstract!RateOver(r.samples, span) :
                            span \in Abstract!Spans(r.samples)}
<1> DEFINE s == r.samples
           elapsed == s[Len(s)].timestamp - s[1].timestamp
<1>1. s \in Seq(Sample) /\ Len(s) \in Nat
  BY SampleTypes DEF Exact
<1>2. CASE Len(s) = 0
  <2>1. s = <<>>
    BY <1>1, <1>2, EmptySeq
  <2>2. Measured(r) = NoRate
    BY <1>2 DEF Measured
  <2>3. 0 \in Abstract!Spans(s)
    BY <2>1 DEF Abstract!Spans
  <2>4. Abstract!RateOver(s, 0) = NoRate
    BY <1>2 DEF Abstract!RateOver, Abstract!NoRate, NoRate
  <2> QED BY <2>2, <2>3, <2>4
<1>3. CASE Len(s) > 0
  <2>1. /\ elapsed \in Int /\ Abstract!Span(s) \in Int
        /\ elapsed <= Abstract!Span(s) /\ elapsed >= Abstract!Span(s) - 2 * lateness'
    BY <1>1, <1>3, SpanOfOrderly
  <2>2. s # <<>>
    BY <1>3, EmptySeq
  <2>3. Head(s) = s[1] /\ Last(s) = s[Len(s)]
    BY <1>1, <2>2, HeadTailProperties DEF Last
  <2>4. Measured(r) = Abstract!RateOver(s, elapsed)
    BY <2>3, SameSum DEF Measured, Abstract!RateOver, Abstract!NoRate, NoRate, Exact
  <2> HIDE DEF elapsed
  <2>5. elapsed \in Abstract!Spans(s)
    BY <2>1, <2>2 DEF Abstract!Spans
  <2> QED BY <2>4, <2>5
<1> QED BY <1>1, <1>2, <1>3

LEMMA CalledIsCalled ==
  ASSUME NEW t, Called(t)
  PROVE  Abstract!Called(t)
BY DEF Called, Abstract!Called, Max, Abstract!Max

(* RateStats implements the window, step by step: every call with lateness *)
(* drops nothing fresh, keeps nothing older than the lateness explains and *)
(* answers with a rate over what it keeps.                                 *)
THEOREM WindowImplemented == Spec => ImplementsWindow
<1>1. Init => Abstract!Init
  BY DEF Init, Abstract!Init, NewRateStats, NoRate, Abstract!NoRate
<1>2. IInv /\ IInv' /\ [Next]_vars
        => [Abstract!Next]_<<rs.samples, answer, latest, lateness>>
  <2> SUFFICES ASSUME IInv, IInv', [Next]_vars
               PROVE  Abstract!Next \/ UNCHANGED <<rs.samples, answer, latest, lateness>>
    OBVIOUS
  <2>1. ASSUME NEW bytes \in Sizes, NEW t \in Instants, Update(bytes, t)
        PROVE  Abstract!Update(bytes, t)
    <3> DEFINE w == RemoveExpired(rs, t).samples
    <3>1. Abstract!Called(t) /\ w \in Abstract!Trimmed(t)
      BY <2>1, CalledIsCalled, TrimIsAllowed DEF Update
    <3>2. rs'.samples = Append(w, [timestamp |-> t, bytes |-> bytes])
      BY <2>1 DEF Update, Updated
    <3> HIDE DEF w
    <3> QED BY <2>1, <3>1, <3>2 DEF Update, Abstract!Update
  <2>2. ASSUME NEW t \in Instants, Rate(t)
        PROVE  Abstract!Rate(t)
    <3>1. Abstract!Called(t) /\ rs'.samples \in Abstract!Trimmed(t)
      BY <2>2, CalledIsCalled, TrimIsAllowed DEF Rate
    <3>2. Measured(rs') \in {Abstract!RateOver(rs'.samples, span) :
                               span \in Abstract!Spans(rs'.samples)}
      BY MeasuredIsAllowed DEF IInv, Exact, Orderly
    <3> QED BY <2>2, <3>1, <3>2 DEF Rate, Abstract!Rate
  <2>3. CASE Reset
    BY <2>3 DEF Reset, Abstract!Next, Abstract!Reset, NewRateStats
  <2>4. CASE UNCHANGED vars
    BY <2>4 DEF vars
  <2> QED BY <2>1, <2>2, <2>3, <2>4 DEF Next, Abstract!Next
<1> QED BY <1>1, <1>2, IInvInductive, PTL DEF Spec, ImplementsWindow, Abstract!Spec
=============================================================================
