-------------------------- MODULE DetectionProofs ---------------------------
(***************************************************************************)
(* For any detectors, policies and texts: what the two loops of            *)
(* DetectionEngine.detect leave.  The properties are read off IInv, which  *)
(* says what a step of the first loop knows about the candidates it has    *)
(* considered, and a round of the second about those it has dropped.       *)
(* Then, for any lexicon and text, the detectors themselves.  What detect  *)
(* skips finds nothing: an entity has a type that its detector declares,   *)
(* and an expression that ends with a number matches nothing without one.  *)
(* What they find is finite and of their types, so that the engine's       *)
(* properties hold with them in it; and TextInv says of every entity       *)
(* found, by whichever detector, when it may be a famous name or the INN   *)
(* of an organisation.                                                     *)
(***************************************************************************)
EXTENDS TextProperties, FiniteSetTheorems, SequenceTheorems, WellFoundedInduction, TLAPS

(* Numbers have a least one. *)
LEMMA LeastNumber ==
    ASSUME NEW S \in SUBSET Nat, S # {}
    PROVE  \E n \in S : \A m \in S : n <= m
<1> DEFINE R == {ss \in Nat \X Nat : ss[1] < ss[2]}
<1>1. IsWellFoundedOn(R, Nat)
  BY NatLessThanWellFounded DEF OpToRel
<1>2. \A m, n \in Nat : m < n => <<m, n>> \in R
  OBVIOUS
<1> HIDE DEF R
<1>3. PICK n \in S : \A m \in S : ~(<<m, n>> \in R)
  BY <1>1, WFMin
<1>4. \A m \in S : m \in Nat
  OBVIOUS
<1>5. \A m \in S : ~(m < n)
  BY <1>2, <1>3, <1>4
<1>6. \A m \in S : n <= m
  BY <1>4, <1>5
<1> QED
  BY <1>6

(* What holds of 0 and of n + 1 with n, holds of every number to N. *)
LEMMA UpTo ==
    ASSUME NEW N \in Nat, NEW S, 0 \in S, \A n \in 1 .. N : n - 1 \in S => n \in S
    PROVE  0 .. N \subseteq S
<1> DEFINE Bad == {n \in 0 .. N : n \notin S}
<1>1. Bad = {}
  <2> SUFFICES ASSUME Bad # {} PROVE FALSE
    OBVIOUS
  <2>1. Bad \in SUBSET Nat
    OBVIOUS
  <2> HIDE DEF Bad
  <2>2. PICK n \in Bad : \A m \in Bad : n <= m
    BY <2>1, LeastNumber
  <2>3. n \in 1 .. N /\ n \notin S /\ n - 1 \in 0 .. N /\ ~(n <= n - 1)
    BY DEF Bad
  <2>4. n - 1 \in S
    BY <2>2, <2>3 DEF Bad
  <2> QED
    BY <2>3, <2>4
<1> QED
  BY <1>1

(* A finite set of numbers has a greatest one, which is its Max, and a     *)
(* least one, its Min.                                                     *)
LEMMA Extremes ==
    ASSUME NEW S \in SUBSET Nat, S # {}, NEW N \in Nat, \A n \in S : n <= N
    PROVE  /\ Max(S) \in S /\ \A n \in S : n <= Max(S)
           /\ Min(S) \in S /\ \A n \in S : Min(S) <= n
<1>1. \E n \in S : \A m \in S : n <= m
  BY LeastNumber
<1>2. \E n \in S : \A m \in S : n >= m
  <2> DEFINE T == {d \in 0 .. N : N - d \in S}
  <2>1. T \in SUBSET Nat
    OBVIOUS
  <2>2. T # {}
    <3>1. PICK n \in S : TRUE
      OBVIOUS
    <3>2. N - n \in 0 .. N /\ N - (N - n) = n
      OBVIOUS
    <3> QED
      BY <3>2
  <2>3. PICK d \in T : \A e \in T : d <= e
    <3> HIDE DEF T
    <3> QED
      BY <2>1, <2>2, LeastNumber
  <2>4. \A m \in S : N - m \in T /\ m \in Nat
    <3> SUFFICES ASSUME NEW m \in S PROVE N - m \in T
      OBVIOUS
    <3>1. N - m \in 0 .. N /\ N - (N - m) = m
      OBVIOUS
    <3> QED
      BY <3>1
  <2>5. N - d \in S /\ d \in 0 .. N
    BY <2>3
  <2> HIDE DEF T
  <2>6. \A m \in S : d <= N - m
    BY <2>3, <2>4
  <2>7. \A m \in S : N - d >= m
    BY <2>4, <2>5, <2>6
  <2> QED
    BY <2>5, <2>7
<1>3. Max(S) \in S /\ \A n \in S : Max(S) >= n
  BY <1>2 DEF Max
<1>4. Min(S) \in S /\ \A n \in S : Min(S) <= n
  BY <1>1 DEF Min
<1> QED
  BY <1>3, <1>4

(* A function on 0 .. N may be defined by what it is at 0 and by a step. *)
StepsIn(S, N, step) == step \in [1 .. N -> [S -> S]]

Iterates(S, N, zero, step, f) ==
    f \in [0 .. N -> S] /\ f[0] = zero /\ \A n \in 1 .. N : f[n] = step[n][f[n - 1]]

LEMMA Stepwise ==
    ASSUME NEW S, NEW N \in Nat, NEW zero \in S, NEW step, StepsIn(S, N, step)
    PROVE  \E f : Iterates(S, N, zero, step, f)
<1> DEFINE Fits(f, n) == f[0] = zero /\ \A k \in 1 .. n : f[k] = step[k][f[k - 1]]
           T == {n \in 0 .. N : \E f \in [0 .. n -> S] : Fits(f, n)}
<1>1. 0 \in T
  <2> DEFINE f == [k \in 0 .. 0 |-> zero]
  <2>1. f \in [0 .. 0 -> S] /\ Fits(f, 0)
    OBVIOUS
  <2> HIDE DEF f, Fits
  <2> QED
    BY <2>1
<1>2. ASSUME NEW n \in 1 .. N, n - 1 \in T PROVE n \in T
  <2>1. PICK f \in [0 .. n - 1 -> S] : Fits(f, n - 1)
    BY <1>2
  <2> DEFINE g == [k \in 0 .. n |-> IF k = n THEN step[n][f[n - 1]] ELSE f[k]]
  <2>2. g \in [0 .. n -> S]
    BY DEF StepsIn
  <2>3. Fits(g, n)
    <3>1. g[0] = zero /\ g[n] = step[n][f[n - 1]] /\ \A k \in 0 .. n - 1 : g[k] = f[k]
      BY <2>1
    <3>2. \A k \in 1 .. n : k - 1 \in 0 .. n - 1 /\ (k # n => k \in 1 .. n - 1 /\ k \in 0 .. n - 1)
      OBVIOUS
    <3> HIDE DEF g
    <3> QED
      BY <2>1, <3>1, <3>2
  <2> HIDE DEF g, Fits
  <2> QED
    BY <2>2, <2>3
<1> HIDE DEF Fits
<1>3. 0 .. N \subseteq T
  <2> HIDE DEF T
  <2> QED
    BY <1>1, <1>2, UpTo
<1>4. \E f \in [0 .. N -> S] : Fits(f, N)
  BY <1>3
<1> QED
  BY <1>4 DEF Fits, Iterates

-----------------------------------------------------------------------------
IsEntity(e) ==
    e.start \in Nat /\ e.end \in Nat /\ e.start < e.end /\ e.priority \in Nat

Typed ==
    /\ policy \in Policies
    /\ \A e \in Range(found) : IsEntity(e)
    /\ queue \subseteq Candidates(found, policy.types)
    /\ chosen \in Seq(Asked)
    /\ kept \subseteq Range(chosen)
    /\ phase \in {"detectors", "overlaps", "requirements", "done"}

(* What is accepted stands in the order of the text, without overlap. *)
Sorted == \A i, j \in DOMAIN chosen : i < j => chosen[i].end <= chosen[j].start

(* What is accepted outranks what is still to be considered. *)
BestFirst ==
    \A f \in Range(chosen) :
       \E i \in Candidates(found, policy.types) :
          found[i] = f /\ \A j \in queue : Outranks(i, j)

(* What has been considered is accepted, or in the way of what outranks it *)
(* and is.                                                                 *)
Considered ==
    \A i \in Candidates(found, policy.types) \ queue :
       \/ found[i] \in Range(chosen)
       \/ \E j \in Candidates(found, policy.types) :
             found[j] \in Range(chosen) /\ Overlap(found[i], found[j]) /\ Outranks(j, i)

(* A round has dropped nothing that could have been supported. *)
Rounds ==
    /\ phase \in {"requirements", "done"} =>
          /\ queue = {}
          /\ \A s \in SUBSET Range(chosen) : Supporting(s) => s \subseteq kept
    /\ phase = "done" => Supporting(kept)
    /\ phase \in {"detectors", "overlaps"} => kept = {}
    /\ phase = "detectors" => chosen = <<>>

IInv == Typed /\ Sorted /\ BestFirst /\ Considered /\ Rounds

-----------------------------------------------------------------------------
(* bisect_left on the starts: those before e are the first ones. *)
LEMMA PositionSplits ==
    ASSUME Typed, Sorted, NEW e, IsEntity(e)
    PROVE  /\ Position(e) \in 0 .. Len(chosen)
           /\ \A i \in DOMAIN chosen : chosen[i].start < e.start <=> i <= Position(e)
<1> DEFINE n == Len(chosen)
           before == {i \in DOMAIN chosen : chosen[i].start < e.start}
           k == Cardinality(before)
<1>1. n \in Nat /\ DOMAIN chosen = 1 .. n
  BY DEF Typed
<1>2. \A i \in 1 .. n : IsEntity(chosen[i])
  BY <1>1 DEF Typed, Asked
<1>3. before \in SUBSET (1 .. n) /\ IsFiniteSet(1 .. n) /\ Cardinality(1 .. n) = n
  <2>1. 1 \in Int /\ n \in Int /\ (IF 1 > n THEN 0 ELSE n - 1 + 1) = n
    BY <1>1
  <2> HIDE DEF n
  <2>2. IsFiniteSet(1 .. n) /\ Cardinality(1 .. n) = n
    BY <2>1, FS_Interval
  <2> QED
    BY <1>1, <2>2
<1>4. IsFiniteSet(before) /\ k \in Nat /\ k <= n
  BY <1>3, FS_Subset, FS_CardinalityType
<1>5. ASSUME NEW i \in before PROVE i <= k
  <2>1. \A h \in 1 .. i : h \in before
    <3> SUFFICES ASSUME NEW h \in 1 .. i, h < i PROVE chosen[h].start < e.start
      BY <1>1, <1>5
    <3>1. h \in 1 .. n /\ i \in 1 .. n
      BY <1>1, <1>5
    <3>2. chosen[h].end <= chosen[i].start
      BY <1>1, <3>1 DEF Sorted
    <3> QED
      BY <1>2, <1>5, <3>1, <3>2 DEF IsEntity
  <2>2. 1 .. i \in SUBSET before /\ i \in 1 .. n
    BY <1>1, <2>1
  <2>3. Cardinality(1 .. i) = i
    BY <2>2, FS_Interval
  <2> QED
    BY <1>4, <2>2, <2>3, FS_Subset
<1>6. before = 1 .. k
  <2>1. before \in SUBSET (1 .. k)
    BY <1>1, <1>4, <1>5
  <2>2. IsFiniteSet(1 .. k) /\ Cardinality(1 .. k) = k
    BY <1>4, FS_Interval
  <2> QED
    BY <2>1, <2>2, FS_Subset
<1>7. Position(e) = k
  BY DEF Position
<1> HIDE DEF k
<1>8. \A i \in DOMAIN chosen : chosen[i].start < e.start <=> i \in 1 .. k
  BY <1>6
<1> QED
  BY <1>1, <1>4, <1>7, <1>8

(* list.insert. *)
LEMMA Inserted ==
    ASSUME NEW S, NEW s \in Seq(S), NEW e \in S, NEW k \in 0 .. Len(s),
           NEW t, t = InsertAt(s, k + 1, e)
    PROVE  /\ t \in Seq(S)
           /\ Len(t) = Len(s) + 1
           /\ \A i \in 1 .. Len(t) :
                 t[i] = IF i <= k THEN s[i] ELSE IF i = k + 1 THEN e ELSE s[i - 1]
<1> DEFINE left  == SubSeq(s, 1, k)
           right == SubSeq(s, k + 1, Len(s))
<1>1. left \in Seq(S) /\ Len(left) = k /\ \A i \in 1 .. k : left[i] = s[i]
  OBVIOUS
<1>2. right \in Seq(S) /\ Len(right) = Len(s) - k /\ \A i \in 1 .. Len(s) - k : right[i] = s[k + i]
  OBVIOUS
<1>3. InsertAt(s, k + 1, e) = (left \o <<e>>) \o right
  <2>1. (k + 1) - 1 = k
    OBVIOUS
  <2> QED
    BY <2>1 DEF InsertAt
<1> HIDE DEF left, right
<1> DEFINE front == left \o <<e>>
<1>4. /\ front \in Seq(S) /\ Len(front) = k + 1
      /\ \A i \in 1 .. k + 1 : front[i] = IF i <= k THEN s[i] ELSE e
  BY <1>1
<1> HIDE DEF front
<1> DEFINE whole == front \o right
<1>5. /\ whole \in Seq(S) /\ Len(whole) = Len(s) + 1
      /\ \A i \in 1 .. Len(s) + 1 :
            whole[i] = IF i <= k + 1 THEN front[i] ELSE right[i - (k + 1)]
  <2>1. Len(front) + Len(right) = Len(s) + 1
    BY <1>2, <1>4
  <2>2. /\ whole \in Seq(S) /\ Len(whole) = Len(front) + Len(right)
        /\ \A i \in 1 .. Len(front) + Len(right) :
              whole[i] = IF i <= Len(front) THEN front[i] ELSE right[i - Len(front)]
    <3>1. front \in Seq(S) /\ right \in Seq(S)
      BY <1>2, <1>4
    <3> QED
      BY <3>1, ConcatProperties, Zenon
  <2>3. Len(front) = k + 1
    BY <1>4
  <2> HIDE DEF whole
  <2> QED
    BY <2>1, <2>2, <2>3
<1>6. InsertAt(s, k + 1, e) = whole
  BY <1>3 DEF front
<1> HIDE DEF whole
<1>7. ASSUME NEW i \in 1 .. Len(s) + 1
      PROVE  whole[i] = IF i <= k THEN s[i] ELSE IF i = k + 1 THEN e ELSE s[i - 1]
  <2>1. CASE i <= k + 1
    BY <1>4, <1>5, <2>1
  <2>2. CASE i > k + 1
    <3>1. i - (k + 1) \in 1 .. Len(s) - k /\ k + (i - (k + 1)) = i - 1
      BY <2>2
    <3>2. right[i - (k + 1)] = s[i - 1]
      BY <1>2, <3>1
    <3>3. whole[i] = right[i - (k + 1)]
      BY <1>5, <2>2
    <3> QED
      BY <2>2, <3>2, <3>3
  <2> QED
    BY <2>1, <2>2
<1> QED
  BY <1>5, <1>6, <1>7

(* The comparison with the two neighbours is one with all. *)
LEMMA FreeOverlapsNothing ==
    ASSUME Typed, Sorted, NEW e, IsEntity(e)
    PROVE  /\ Free(e) => \A i \in DOMAIN chosen :
                            IF i <= Position(e) THEN chosen[i].end <= e.start
                                                ELSE e.end <= chosen[i].start
           /\ ~Free(e) => \E f \in Range(chosen) : Overlap(e, f)
<1> DEFINE n == Len(chosen)
           k == Position(e)
<1>1. n \in Nat /\ DOMAIN chosen = 1 .. n
  BY DEF Typed
<1>2. \A i \in 1 .. n : IsEntity(chosen[i])
  BY <1>1 DEF Typed, Asked
<1>3. k \in 0 .. n /\ \A i \in 1 .. n : chosen[i].start < e.start <=> i <= k
  BY <1>1, PositionSplits
<1>4. Free(e) <=> /\ ~(k > 0 /\ chosen[k].end > e.start)
                  /\ ~(k < n /\ chosen[k + 1].start < e.end)
  BY DEF Free
<1> HIDE DEF n, k
<1>5. ASSUME Free(e), NEW i \in 1 .. n
      PROVE  IF i <= k THEN chosen[i].end <= e.start ELSE e.end <= chosen[i].start
  <2>1. CASE i = k \/ i = k + 1
    BY <1>1, <1>2, <1>3, <1>4, <1>5, <2>1 DEF IsEntity
  <2>2. CASE i < k
    <3>1. chosen[i].end <= chosen[k].start /\ chosen[k].start < e.start
      BY <1>1, <1>3, <2>2 DEF Sorted
    <3> QED
      BY <1>1, <1>2, <1>3, <2>2, <3>1 DEF IsEntity
  <2>3. CASE i > k + 1
    <3>1. chosen[k + 1].end <= chosen[i].start /\ k + 1 \in 1 .. n
      BY <1>1, <1>3, <2>3 DEF Sorted
    <3>2. e.end <= chosen[k + 1].start
      BY <1>1, <1>2, <1>3, <1>4, <1>5, <2>3, <3>1 DEF IsEntity
    <3>3. IsEntity(chosen[k + 1]) /\ IsEntity(chosen[i]) /\ ~(i <= k)
      BY <1>2, <1>3, <2>3, <3>1
    <3> QED
      BY <3>1, <3>2, <3>3 DEF IsEntity
  <2> QED
    BY <1>1, <1>3, <2>1, <2>2, <2>3
<1>6. ASSUME ~Free(e)
      PROVE  \E f \in Range(chosen) : Overlap(e, f)
  <2>1. PICK i \in 1 .. n : chosen[i].start < e.end /\ e.start < chosen[i].end
    <3>1. CASE k > 0 /\ chosen[k].end > e.start
      <4>1. k \in 1 .. n /\ chosen[k].start < e.start
        BY <1>1, <1>3, <3>1
      <4> QED
        BY <1>2, <3>1, <4>1 DEF IsEntity
    <3>2. CASE k < n /\ chosen[k + 1].start < e.end
      <4>1. k + 1 \in 1 .. n /\ ~(chosen[k + 1].start < e.start)
        BY <1>1, <1>3, <3>2
      <4> QED
        BY <1>2, <3>2, <4>1 DEF IsEntity
    <3> QED
      BY <1>4, <1>6, <3>1, <3>2
  <2>2. chosen[i] \in Range(chosen)
    BY <1>1 DEF Range
  <2> QED
    BY <2>1, <2>2 DEF Overlap
<1> QED
  BY <1>1, <1>5, <1>6 DEF k

-----------------------------------------------------------------------------
(* More company never makes an entity lose its support. *)
LEMMA SatisfiedMonotone ==
    ASSUME NEW e, NEW s, NEW t, s \subseteq t, Satisfied(e, TypesIn(s))
    PROVE  Satisfied(e, TypesIn(t))
<1>1. TypesIn(s) \subseteq TypesIn(t)
  BY DEF TypesIn
<1> QED
  BY <1>1 DEF Satisfied

(* What is accepted is finitely much. *)
LEMMA KeptFinite ==
    ASSUME Typed
    PROVE  IsFiniteSet(kept)
<1>1. DOMAIN chosen = 1 .. Len(chosen) /\ Len(chosen) \in Nat
  BY DEF Typed
<1>2. IsFiniteSet(1 .. Len(chosen))
  BY <1>1, FS_Interval
<1>3. chosen \in Surjection(1 .. Len(chosen), Range(chosen))
  BY <1>1 DEF Typed, Range, Surjection
<1>4. IsFiniteSet(Range(chosen))
  BY <1>2, <1>3, FS_Surjection
<1> QED
  BY <1>4, FS_Subset DEF Typed

-----------------------------------------------------------------------------
(* Nothing is considered yet.                                              *)
LEMMA InitInv == EngineInit => IInv
<1> SUFFICES ASSUME EngineInit PROVE IInv
  OBVIOUS
<1> USE DEF EngineInit
<1>1. Range(found) = {} /\ Range(chosen) = {} /\ Asked = {} /\ Candidates(found, policy.types) = {}
  BY DEF Range, Asked, Candidates
<1>2. Typed
  BY <1>1 DEF Typed
<1>3. Sorted /\ BestFirst /\ Considered /\ Rounds
  BY <1>1 DEF Sorted, BestFirst, Considered, Rounds
<1> QED
  BY <1>2, <1>3 DEF IInv

(* The detectors have answered, whichever they are. *)
LEMMA CollectInv ==
    ASSUME IInv, NEW f, \A e \in Range(f) : IsEntity(e), Collect(f)
    PROVE  IInv'
<1> USE DEF IInv
<1>1. /\ phase = "detectors" /\ phase' = "overlaps"
      /\ found' = f /\ policy' = policy
      /\ queue' = Candidates(f, policy.types)
      /\ chosen' = <<>> /\ kept' = {} /\ policy \in Policies
  BY DEF Collect, Rounds, Typed
<1>2. Range(chosen') = {}
  BY <1>1 DEF Range
<1>3. Typed'
  BY <1>1, <1>2 DEF Typed
<1>4. Sorted' /\ BestFirst' /\ Considered' /\ Rounds'
  BY <1>1, <1>2 DEF Sorted, BestFirst, Considered, Rounds
<1> QED
  BY <1>3, <1>4

LEMMA DetectInv ==
    ASSUME IInv, Detect
    PROVE  IInv'
<1>1. PICK f \in Yields : Collect(f)
  BY DEF Detect
<1>2. \A e \in Range(f) : IsEntity(e)
  BY EngineAssumption DEF IsEntity
<1> QED
  BY <1>1, <1>2, CollectInv

(* The key of the sort, its ties broken by the order of the list, is the   *)
(* rank of an entity and its detector.                                     *)
LEMMA BeforeOutranks ==
    ASSUME NEW i \in Nat, NEW j \in Nat, IsEntity(found[i]), IsEntity(found[j]), Before(found, i, j)
    PROVE  Outranks(i, j)
<1> DEFINE less == <<found[j].priority, Length(found[j]), found[i].start, i>>
           more == <<found[i].priority, Length(found[i]), found[j].start, j>>
<1>1. /\ Length(found[i]) \in Int /\ Length(found[j]) \in Int
      /\ found[i].priority \in Int /\ found[j].priority \in Int
      /\ found[i].start \in Int /\ found[j].start \in Int
  BY DEF IsEntity, Length
<1>2. \E n \in 1 .. 4 : less[n] < more[n] /\ \A m \in 1 .. n - 1 : less[m] = more[m]
  <2>1. CASE less[1] < more[1]
    <3>1. 1 \in 1 .. 4 /\ \A m \in 1 .. 1 - 1 : less[m] = more[m]
      OBVIOUS
    <3> HIDE DEF less, more
    <3> QED
      BY <2>1, <3>1
  <2>2. CASE less[1] = more[1] /\ less[2] < more[2]
    <3>1. 2 \in 1 .. 4 /\ 1 .. 2 - 1 = {1}
      OBVIOUS
    <3> HIDE DEF less, more
    <3> QED
      BY <2>2, <3>1
  <2>3. CASE less[1] = more[1] /\ less[2] = more[2] /\ less[3] < more[3]
    <3>1. 3 \in 1 .. 4 /\ 1 .. 3 - 1 = {1, 2}
      OBVIOUS
    <3> HIDE DEF less, more
    <3> QED
      BY <2>3, <3>1
  <2>4. CASE less[1] = more[1] /\ less[2] = more[2] /\ less[3] = more[3] /\ less[4] < more[4]
    <3>1. 4 \in 1 .. 4 /\ 1 .. 4 - 1 = {1, 2, 3}
      OBVIOUS
    <3> HIDE DEF less, more
    <3> QED
      BY <2>4, <3>1
  <2> QED
    BY <1>1, <2>1, <2>2, <2>3, <2>4 DEF Before
<1> QED
  BY <1>2 DEF Outranks

(* The first loop: a candidate is taken if it touches neither neighbour.   *)
LEMMA ConsiderInv ==
    ASSUME IInv, Consider
    PROVE  IInv'
<1> USE DEF IInv
<1>1. PICK i \in queue :
         /\ \A j \in queue \ {i} : Before(found, i, j)
         /\ chosen' = IF Free(found[i])
                      THEN InsertAt(chosen, Position(found[i]) + 1, found[i]) ELSE chosen
         /\ queue' = queue \ {i}
  BY DEF Consider
<1>2. /\ phase = "overlaps" /\ phase' = phase /\ policy' = policy
      /\ found' = found /\ kept' = kept /\ kept = {}
  BY DEF Consider, Rounds
<1> DEFINE e == found[i]
           k == Position(e)
<1>3. i \in DOMAIN found /\ e \in Asked /\ IsEntity(e)
  BY DEF Typed, Candidates, Asked, Range
<1>4. Asked' = Asked
  BY <1>2 DEF Asked
<1>5. \A j \in queue \ {i} : Outranks(i, j)
  <2> SUFFICES ASSUME NEW j \in queue \ {i} PROVE Outranks(i, j)
    OBVIOUS
  <2>1. Before(found, i, j)
    BY <1>1
  <2>2. i \in DOMAIN found /\ j \in DOMAIN found /\ IsEntity(found[i]) /\ IsEntity(found[j])
    BY DEF Typed, Candidates, Range
  <2>3. i \in Nat /\ j \in Nat
    BY <2>2 DEF Typed
  <2> QED
    BY <2>1, <2>2, <2>3, BeforeOutranks
<1>6. CASE ~Free(e)
  <2>1. chosen' = chosen
    BY <1>1, <1>6
  <2>2. Typed' /\ Sorted' /\ Rounds'
    BY <1>1, <1>2, <1>4, <2>1 DEF Typed, Sorted, Rounds
  <2>3. BestFirst'
    BY <1>1, <1>2, <2>1 DEF BestFirst, Outranks
  <2>4. PICK f \in Range(chosen) : Overlap(e, f)
    BY <1>3, <1>6, FreeOverlapsNothing
  <2>5. PICK j \in Candidates(found, policy.types) : found[j] = f /\ Outranks(j, i)
    BY <1>1, <2>4 DEF BestFirst
  <2>6. Considered'
    BY <1>1, <1>2, <2>1, <2>4, <2>5 DEF Considered, Outranks
  <2> QED
    BY <2>2, <2>3, <2>6
<1>7. CASE Free(e)
  <2> DEFINE n == Len(chosen)
  <2>1. n \in Nat /\ DOMAIN chosen = 1 .. n /\ chosen \in Seq(Asked)
    BY DEF Typed
  <2>2. k \in 0 .. n
    BY <1>3, PositionSplits
  <2>3. chosen' = InsertAt(chosen, k + 1, e)
    BY <1>1, <1>7
  <2>4. \A j \in 1 .. n : IF j <= k THEN chosen[j].end <= e.start ELSE e.end <= chosen[j].start
    BY <1>3, <1>7, <2>1, FreeOverlapsNothing
  <2>5. \A j \in 1 .. n : IsEntity(chosen[j])
    BY <2>1 DEF Typed, Asked
  <2> HIDE DEF e, k
  <2>6. /\ chosen' \in Seq(Asked) /\ Len(chosen') = n + 1 /\ DOMAIN chosen' = 1 .. n + 1
        /\ \A j \in 1 .. n + 1 :
              chosen'[j] = IF j <= k THEN chosen[j] ELSE IF j = k + 1 THEN e ELSE chosen[j - 1]
    <3>1. k \in 0 .. Len(chosen) /\ e \in Asked
      BY <1>3, <2>2
    <3> HIDE DEF n
    <3>2. /\ chosen' \in Seq(Asked) /\ Len(chosen') = Len(chosen) + 1
          /\ \A j \in 1 .. Len(chosen') :
                chosen'[j] = IF j <= k THEN chosen[j] ELSE IF j = k + 1 THEN e ELSE chosen[j - 1]
      <4> DEFINE Ins(s, x, h, t) ==
                    /\ t \in Seq(Asked) /\ Len(t) = Len(s) + 1
                    /\ \A j \in 1 .. Len(t) :
                          t[j] = IF j <= h THEN s[j] ELSE IF j = h + 1 THEN x ELSE s[j - 1]
      <4>1. \A s \in Seq(Asked) : \A x \in Asked : \A h \in 0 .. Len(s) :
               Ins(s, x, h, InsertAt(s, h + 1, x))
        BY Inserted
      <4> HIDE DEF Ins
      <4>2. Ins(chosen, e, k, InsertAt(chosen, k + 1, e))
        BY <2>1, <3>1, <4>1, Zenon
      <4>3. Ins(chosen, e, k, chosen')
        BY <2>3, <4>2, Zenon
      <4> QED
        BY <4>3, Zenon DEF Ins
    <3>3. DOMAIN chosen' = 1 .. Len(chosen')
      BY <3>2
    <3> QED
      BY <3>2, <3>3 DEF n
  <2>7. Range(chosen') = Range(chosen) \cup {e}
    <3>1. ASSUME NEW x \in Range(chosen') PROVE x \in Range(chosen) \cup {e}
      <4>1. PICK j \in 1 .. n + 1 : x = chosen'[j]
        BY <2>6 DEF Range
      <4>2. CASE j <= k
        <5>1. j \in 1 .. n /\ x = chosen[j]
          BY <2>1, <2>2, <2>6, <4>1, <4>2
        <5> QED
          BY <2>1, <5>1 DEF Range
      <4>3. CASE j = k + 1
        <5>1. ~(k + 1 <= k)
          BY <2>1, <2>2
        <5> QED
          BY <2>6, <4>1, <4>3, <5>1
      <4>4. CASE j > k + 1
        <5>1. j - 1 \in 1 .. n /\ ~(j <= k) /\ j # k + 1
          BY <2>1, <2>2, <4>4
        <5>2. x = chosen[j - 1]
          BY <2>6, <4>1, <5>1
        <5> QED
          BY <2>1, <5>1, <5>2 DEF Range
      <4> QED
        BY <2>1, <2>2, <4>2, <4>3, <4>4
    <3>2. e \in Range(chosen')
      <4>1. k + 1 \in 1 .. n + 1 /\ chosen'[k + 1] = e
        BY <2>1, <2>2, <2>6
      <4> QED
        BY <2>6, <4>1 DEF Range
    <3>3. ASSUME NEW x \in Range(chosen) PROVE x \in Range(chosen')
      <4>1. PICK j \in 1 .. n : x = chosen[j]
        BY <2>1 DEF Range
      <4>2. CASE j <= k
        BY <2>1, <2>2, <2>6, <4>1, <4>2 DEF Range
      <4>3. CASE j > k
        <5>1. /\ j + 1 \in 1 .. n + 1 /\ ~(j + 1 <= k) /\ j + 1 # k + 1 /\ (j + 1) - 1 = j
          BY <2>1, <2>2, <4>3
        <5>2. chosen'[j + 1] = x
          BY <2>6, <4>1, <5>1
        <5> QED
          BY <2>6, <5>1, <5>2 DEF Range
      <4> QED
        BY <2>2, <4>2, <4>3
    <3> QED
      BY <3>1, <3>2, <3>3
  <2>8. Typed'
    <3>1. chosen' \in Seq(Asked')
      BY <1>4, <2>6
    <3> QED
      BY <1>1, <1>2, <2>7, <3>1 DEF Typed
  <2>9. Sorted'
    <3> SUFFICES ASSUME NEW a \in 1 .. n + 1, NEW b \in 1 .. n + 1, a < b
                 PROVE  chosen'[a].end <= chosen'[b].start
      BY <2>6 DEF Sorted
    <3>1. CASE b <= k
      <4>1. a \in 1 .. n /\ b \in 1 .. n /\ a <= k
        BY <2>1, <2>2, <3>1
      <4>2. chosen'[a] = chosen[a] /\ chosen'[b] = chosen[b]
        BY <2>2, <2>6, <3>1, <4>1
      <4> QED
        BY <2>1, <4>1, <4>2 DEF Sorted
    <3>2. CASE b = k + 1
      BY <2>1, <2>2, <2>4, <2>6, <3>2
    <3>3. CASE b > k + 1 /\ a = k + 1
      <4>1. b - 1 \in 1 .. n /\ ~(b - 1 <= k)
        BY <2>1, <2>2, <3>3
      <4> QED
        BY <2>1, <2>2, <2>4, <2>6, <3>3, <4>1
    <3>4. CASE b > k + 1 /\ a <= k
      <4>1. b - 1 \in 1 .. n /\ a \in 1 .. n /\ a < b - 1
        BY <2>1, <2>2, <3>4
      <4>2. chosen'[a] = chosen[a] /\ chosen'[b] = chosen[b - 1]
        BY <2>2, <2>6, <3>4
      <4> QED
        BY <2>1, <4>1, <4>2 DEF Sorted
    <3>5. CASE a > k + 1
      <4>1. a - 1 \in 1 .. n /\ b - 1 \in 1 .. n /\ a - 1 < b - 1
        BY <2>1, <2>2, <3>5
      <4>2. chosen'[a] = chosen[a - 1] /\ chosen'[b] = chosen[b - 1]
        BY <2>2, <2>6, <3>5
      <4> QED
        BY <2>1, <4>1, <4>2 DEF Sorted
    <3> QED
      BY <2>2, <3>1, <3>2, <3>3, <3>4, <3>5
  <2>10. BestFirst'
    <3>1. \A x, y : Outranks(x, y)' <=> Outranks(x, y)
      BY <1>2 DEF Outranks
    <3>2. i \in Candidates(found, policy.types) /\ found[i] = e
      BY <1>1 DEF Typed, e
    <3> QED
      BY <1>1, <1>2, <1>5, <2>7, <3>1, <3>2 DEF BestFirst
  <2>11. Considered'
    <3>1. \A x, y : Outranks(x, y)' <=> Outranks(x, y)
      BY <1>2 DEF Outranks
    <3>2. found[i] = e
      BY DEF e
    <3> QED
      BY <1>1, <1>2, <2>7, <3>1, <3>2 DEF Considered
  <2>12. Rounds'
    BY <1>2 DEF Rounds
  <2> QED
    BY <2>8, <2>9, <2>10, <2>11, <2>12
<1> QED
  BY <1>6, <1>7

(* The first loop has ended: whatever was taken is kept for now.           *)
LEMMA ResolvedInv ==
    ASSUME IInv, Resolved
    PROVE  IInv'
<1> USE DEF IInv
<1>1. /\ phase' = "requirements" /\ queue = {} /\ kept' = Range(chosen)
      /\ UNCHANGED <<policy, found, queue, chosen>>
  BY DEF Resolved
<1>2. Asked' = Asked
  BY <1>1 DEF Asked
<1>3. Typed' /\ Sorted' /\ BestFirst' /\ Considered'
  BY <1>1, <1>2 DEF Typed, Sorted, BestFirst, Considered, Outranks
<1>4. Rounds'
  BY <1>1 DEF Rounds
<1> QED
  BY <1>3, <1>4

(* A round of the second loop: what is not supported is dropped.           *)
LEMMA RequireInv ==
    ASSUME IInv, Require
    PROVE  IInv'
<1> USE DEF IInv
<1>1. /\ phase = "requirements" /\ kept' = Supported
      /\ phase' = IF Cardinality(Supported) = Cardinality(kept) THEN "done" ELSE phase
      /\ UNCHANGED <<policy, found, queue, chosen>>
  BY DEF Require
<1>2. Supported \subseteq kept
  BY DEF Supported
<1>3. Asked' = Asked
  BY <1>1 DEF Asked
<1>4. Typed' /\ Sorted' /\ BestFirst' /\ Considered'
  BY <1>1, <1>2, <1>3 DEF Typed, Sorted, BestFirst, Considered, Outranks
<1>5. ASSUME NEW s \in SUBSET Range(chosen), Supporting(s)
      PROVE  s \subseteq Supported
  <2>1. s \subseteq kept
    BY <1>1, <1>5 DEF Rounds
  <2>2. \A e \in s : Satisfied(e, TypesIn(kept))
    BY <1>5, <2>1, SatisfiedMonotone DEF Supporting
  <2> QED
    BY <2>1, <2>2 DEF Supported
<1>6. phase' = "done" => Supported = kept
  BY <1>1, <1>2, KeptFinite, FS_Subset
<1>7. Supported = kept => Supporting(kept)
  BY DEF Supported, Supporting
<1>8. \A s : Supporting(s)' <=> Supporting(s)
  BY <1>1 DEF Supporting, Satisfied
<1>9. Rounds'
  BY <1>1, <1>5, <1>6, <1>7, <1>8 DEF Rounds
<1> QED
  BY <1>4, <1>9

LEMMA IdleInv ==
    ASSUME IInv, UNCHANGED engineVars
    PROVE  IInv'
<1>1. UNCHANGED <<policy, found, queue, chosen, kept, phase>>
  BY DEF engineVars
<1>2. \A i, j : Outranks(i, j)' <=> Outranks(i, j)
  BY <1>1 DEF Outranks
<1>3. Typed' /\ Sorted' /\ BestFirst' /\ Considered'
  BY <1>1, <1>2 DEF IInv, Typed, Sorted, BestFirst, Considered, Asked
<1>4. Rounds'
  BY <1>1 DEF IInv, Rounds, Supporting, Satisfied
<1> QED
  BY <1>3, <1>4 DEF IInv

(* Every step of the engine keeps the invariant.                           *)
LEMMA Inductive == IInv /\ [EngineNext]_engineVars => IInv'
  BY IdleInv, DetectInv, ConsiderInv, ResolvedInv, RequireInv DEF EngineNext, Select

LEMMA Invariance == EngineSpec => []IInv
BY InitInv, Inductive, PTL DEF EngineSpec

-----------------------------------------------------------------------------
LEMMA TypeFollows == IInv => TypeOK
<1> SUFFICES ASSUME IInv PROVE TypeOK
  OBVIOUS
<1>1. \A i \in queue : found[i] \in Asked
  BY DEF IInv, Typed, Candidates, Asked, Range
<1>2. Range(chosen) \subseteq Asked
  BY DEF IInv, Typed, Range
<1> QED
  BY <1>1, <1>2 DEF IInv, Typed, TypeOK

(* Nothing is masked that no detector found or the policy did not ask for. *)
THEOREM TypeCorrect == EngineSpec => []TypeOK
  BY Invariance, TypeFollows, PTL

LEMMA DisjointFollows == IInv => Disjoint
<1> SUFFICES ASSUME IInv, NEW e \in kept, NEW f \in kept, e # f
             PROVE  ~Overlap(e, f)
  BY DEF Disjoint, IInv, Sorted
<1>1. /\ chosen \in Seq(Asked) /\ IsEntity(e) /\ IsEntity(f)
  BY DEF IInv, Typed, Asked, Range
<1>2. PICK i \in DOMAIN chosen, j \in DOMAIN chosen : e = chosen[i] /\ f = chosen[j]
  BY DEF IInv, Typed, Range
<1>3. i \in Nat /\ j \in Nat /\ i # j
  BY <1>1, <1>2
<1>4. e.end <= f.start \/ f.end <= e.start
  BY <1>2, <1>3 DEF IInv, Sorted
<1> QED
  BY <1>1, <1>4 DEF Overlap, IsEntity

(* No two entities that are accepted overlap, though each is compared with *)
(* its two neighbours only (engine.py, _resolve_overlaps).                 *)
THEOREM DisjointCorrect == EngineSpec => []Disjoint
  BY Invariance, DisjointFollows, PTL

LEMMA LeftOutFollows == IInv => LeftOutForCause
<1> SUFFICES ASSUME IInv, phase = "done", NEW i \in Candidates(found, policy.types),
                    found[i] \notin kept, Satisfied(found[i], TypesIn(kept))
             PROVE  \E j \in Candidates(found, policy.types) :
                       found[j] \in Range(chosen) /\ Overlap(found[i], found[j]) /\ Outranks(j, i)
  BY DEF LeftOutForCause
<1> DEFINE e == found[i]
<1>1. queue = {} /\ Supporting(kept) /\ kept \subseteq Range(chosen)
  BY DEF IInv, Rounds, Typed
<1>2. e \notin Range(chosen)
  <2> SUFFICES ASSUME e \in Range(chosen) PROVE FALSE
    OBVIOUS
  <2> DEFINE more == kept \cup {e}
  <2>1. \A x \in more : Satisfied(x, TypesIn(kept))
    BY <1>1 DEF Supporting
  <2>2. Supporting(more)
    BY <2>1, SatisfiedMonotone DEF Supporting
  <2>3. more \subseteq kept
    BY <1>1, <2>2 DEF IInv, Rounds
  <2> QED
    BY <2>3
<1> QED
  BY <1>1, <1>2 DEF IInv, Considered

(* The greedy choice gives a reason for whatever it leaves out: a neighbour*)
(* of higher rank, of equal rank from a detector asked before, or a        *)
(* requirement that what is masked does not meet.                          *)
THEOREM LeftOutCorrect == EngineSpec => []LeftOutForCause
  BY Invariance, LeftOutFollows, PTL

LEMMA LargestFollows == IInv => LargestSupported
<1> SUFFICES ASSUME IInv, phase = "done"
             PROVE  kept = UNION {s \in SUBSET Range(chosen) : Supporting(s)}
  BY DEF LargestSupported
<1>1. kept \in SUBSET Range(chosen) /\ Supporting(kept)
  BY DEF IInv, Rounds, Typed
<1>2. \A s \in SUBSET Range(chosen) : Supporting(s) => s \subseteq kept
  BY DEF IInv, Rounds
<1> QED
  BY <1>1, <1>2

(* The rounds of _apply_requirements end in the largest set of entities    *)
(* that support one another.                                               *)
THEOREM LargestCorrect == EngineSpec => []LargestSupported
  BY Invariance, LargestFollows, PTL

-----------------------------------------------------------------------------
(* Where the lexemes of a text are: one after another. *)
LEMMA Positions ==
    ASSUME text \in Seq(Lexemes)
    PROVE  /\ Size \in Nat
           /\ \A i \in 1 .. Size : /\ From[i] \in Nat /\ To(i) \in Nat /\ Letters(i) \in Nat
                                   /\ From[i] < Letters(i) /\ Letters(i) <= To(i)
           /\ \A i, j \in 1 .. Size : i < j => To(i) <= From[j]
<1> DEFINE Z == Size
           gap(i) == text[i - 1].width + IF Glued(i) THEN 0 ELSE 1
           body(r, i) == IF i = 1 THEN 0 ELSE r[i - 1] + text[i - 1].width + IF Glued(i) THEN 0 ELSE 1
           step == [n \in 1 .. Z |-> [x \in Nat |-> IF n = 1 THEN 0 ELSE x + gap(n)]]
<1>1. Z \in Nat /\ \A i \in 1 .. Z : text[i] \in Lexemes
  BY LenProperties DEF Size
<1>2. \A i \in 1 .. Z : text[i].width \in Nat /\ text[i].width > 0
  BY <1>1, LexemesAssumption
<1>3. \A i \in 1 .. Z : i > 1 => gap(i) \in Nat /\ text[i - 1].width <= gap(i)
  <2> SUFFICES ASSUME NEW i \in 1 .. Z, i > 1 PROVE gap(i) \in Nat /\ text[i - 1].width <= gap(i)
    OBVIOUS
  <2>1. i - 1 \in 1 .. Z
    BY <1>1
  <2> QED
    BY <1>2, <2>1
<1>4. StepsIn(Nat, Z, step)
  <2> HIDE DEF gap, Z
  <2>1. \A n \in 1 .. Z, x \in Nat : (IF n = 1 THEN 0 ELSE x + gap(n)) \in Nat
    BY <1>1, <1>3
  <2> QED
    BY <2>1 DEF StepsIn
<1>5. PICK f : Iterates(Nat, Z, 0, step, f)
  <2> HIDE DEF step, Z
  <2>1. 0 \in Nat
    OBVIOUS
  <2> QED
    BY <1>1, <1>4, <2>1, Stepwise, Zenon
<1> DEFINE g == [i \in 1 .. Z |-> f[i]]
<1>6. \A i \in 1 .. Z : g[i] = body(g, i)
  <2> SUFFICES ASSUME NEW i \in 1 .. Z PROVE g[i] = body(g, i)
    OBVIOUS
  <2>1. i - 1 \in 0 .. Z /\ (i # 1 => i - 1 \in 1 .. Z)
    BY <1>1
  <2>2. f[i - 1] \in Nat /\ g[i] = f[i] /\ (i # 1 => g[i - 1] = f[i - 1])
    <3> HIDE DEF Z
    <3> QED
      BY <1>1, <1>5, <2>1 DEF Iterates
  <2>3. step[i][f[i - 1]] = IF i = 1 THEN 0 ELSE f[i - 1] + gap(i)
    <3> HIDE DEF gap, Z
    <3> QED
      BY <2>2
  <2>4. f[i] = IF i = 1 THEN 0 ELSE f[i - 1] + gap(i)
    <3> HIDE DEF gap, Z, step
    <3> QED
      BY <1>5, <2>3 DEF Iterates
  <2>5. i # 1 => text[i - 1].width \in Nat
    BY <1>2, <2>1
  <2> HIDE DEF g, Z, step
  <2> QED
    BY <2>2, <2>4, <2>5
<1>7. g = [i \in 1 .. Z |-> body(g, i)]
  <2> HIDE DEF body
  <2> QED
    BY <1>6
<1>8. From = [i \in 1 .. Z |-> body(From, i)]
  <2> DEFINE h == CHOOSE r : r = [i \in 1 .. Z |-> body(r, i)]
  <2>1. From = h
    BY DEF From
  <2>2. h = [i \in 1 .. Z |-> body(h, i)]
    <3> HIDE DEF body, g, Z
    <3> QED
      BY <1>7
  <2> HIDE DEF h, body, Z
  <2> QED
    BY <2>1, <2>2
<1>9. \A i \in 1 .. Z : From[i] = body(From, i)
  <2> HIDE DEF body, Z
  <2> QED
    BY <1>8
<1>a. /\ 1 \in 1 .. Z => From[1] = 0
      /\ \A i \in 1 .. Z : i > 1 /\ From[i - 1] \in Nat => From[i] = From[i - 1] + gap(i)
  <2> SUFFICES ASSUME NEW i \in 1 .. Z, i > 1, From[i - 1] \in Nat
               PROVE  From[i] = From[i - 1] + gap(i)
    BY <1>9
  <2>1. i - 1 \in 1 .. Z
    BY <1>1
  <2>2. text[i - 1].width \in Nat /\ From[i] = body(From, i) /\ i # 1
    BY <1>2, <1>9, <2>1
  <2> HIDE DEF Z
  <2> QED
    BY <2>2
<1> HIDE DEF gap, g, Z, body, step
<1> DEFINE S == {n \in 0 .. Z : n > 0 => From[n] \in Nat}
<1>10. 0 .. Z \subseteq S
  <2>1. 0 \in S
    BY <1>1
  <2>2. ASSUME NEW n \in 1 .. Z, n - 1 \in S PROVE n \in S
    <3>1. n > 1 => n - 1 \in 1 .. Z /\ From[n - 1] \in Nat
      BY <1>1, <2>2
    <3> QED
      BY <1>3, <1>a, <3>1
  <2> HIDE DEF S
  <2> QED
    BY <1>1, <2>1, <2>2, UpTo
<1>11. \A i \in 1 .. Z : From[i] \in Nat
  BY <1>10
<1>12. ASSUME NEW i \in 1 .. Z
       PROVE  /\ To(i) \in Nat /\ To(i) = From[i] + text[i].width
              /\ Letters(i) \in Nat /\ From[i] < Letters(i) /\ Letters(i) <= To(i)
  <2>1. Has(i, "dotted") => text[i].width > 1
    BY <1>1, LexemesAssumption DEF Has
  <2> QED
    BY <1>2, <1>11, <2>1 DEF To, Letters
<1>13. ASSUME NEW i \in 1 .. Z, i > 1 PROVE To(i - 1) <= From[i]
  <2>1. i - 1 \in 1 .. Z
    BY <1>1, <1>13
  <2> QED
    <3>1. From[i] = From[i - 1] + gap(i) /\ gap(i) \in Nat /\ text[i - 1].width <= gap(i)
      BY <1>3, <1>a, <1>11, <1>13, <2>1
    <3>2. To(i - 1) = From[i - 1] + text[i - 1].width
      BY <1>12, <2>1
    <3>3. From[i - 1] \in Nat /\ text[i - 1].width \in Nat
      BY <1>2, <1>11, <2>1
    <3> QED
      BY ONLY <3>1, <3>2, <3>3
<1>14. ASSUME NEW i \in 1 .. Z PROVE \A j \in 1 .. Z : i < j => To(i) <= From[j]
  <2> DEFINE T == {d \in 0 .. Z : \A j \in 1 .. Z : j = i + 1 + d => To(i) <= From[j]}
  <2>1. 0 \in T
    BY <1>1, <1>13
  <2>2. ASSUME NEW d \in 1 .. Z, d - 1 \in T PROVE d \in T
    <3> SUFFICES ASSUME NEW j \in 1 .. Z, j = i + 1 + d PROVE To(i) <= From[j]
      OBVIOUS
    <3>1. j - 1 \in 1 .. Z /\ j - 1 = i + 1 + (d - 1)
      BY <1>1
    <3>2. To(i) <= From[j - 1]
      BY <2>2, <3>1
    <3> QED
      <4>1. To(i) <= From[j - 1] /\ To(j - 1) <= From[j] /\ To(j - 1) = From[j - 1] + text[j - 1].width
        BY <1>1, <1>12, <1>13, <3>1, <3>2
      <4> QED
        <5>1. To(i) \in Nat /\ From[j - 1] \in Nat /\ From[j] \in Nat /\ text[j - 1].width \in Nat
          BY <1>2, <1>11, <1>12, <3>1
        <5> QED
          BY ONLY <4>1, <5>1
  <2> HIDE DEF T
  <2>3. 0 .. Z \subseteq T
    BY <1>1, <2>1, <2>2, UpTo
  <2>4. \A j \in 1 .. Z : i < j => j - i - 1 \in 0 .. Z /\ j = i + 1 + (j - i - 1)
    BY <1>1
  <2> QED
    BY <2>3, <2>4 DEF T
<1> QED
  BY <1>1, <1>11, <1>12, <1>14 DEF Z

(* What finditer finds are matches, each at its lexeme.  The recursion has  *)
(* a least solution, g; what it finds is found by any other.                *)
LEMMA OnlyMatches ==
    ASSUME Size \in Nat, NEW at,
           \A i \in 1 .. Size : at[i] # <<>> => Last(at[i]) \in i + 1 .. Size + 1
    PROVE  \A m \in NonOverlapping(at) : \E i \in 1 .. Size : m = at[i] /\ m # <<>>
<1> DEFINE Z == Size
           J == 1 .. Z + 1
           M == {at[i] : i \in 1 .. Z}
           body(r, i) == IF i > Z THEN {}
                         ELSE IF at[i] = <<>> THEN r[i + 1] ELSE {at[i]} \cup r[Last(at[i])]
           f == CHOOSE r : r = [i \in J |-> body(r, i)]
           R == [J -> SUBSET M]
           Closed(r) == \A k \in J : body(r, k) \subseteq r[k]
           g == [i \in J |-> {x \in M : \A r \in R : Closed(r) => x \in r[i]}]
           h == [i \in J |-> body(g, i)]
<1>1. NonOverlapping(at) = f[1]
  BY DEF NonOverlapping
<1>2. \A i \in J : ~(i > Z) => /\ i \in 1 .. Z /\ i + 1 \in J
                               /\ at[i] # <<>> => Last(at[i]) \in J /\ at[i] \in M
  OBVIOUS
<1>3. ASSUME NEW r \in R, NEW s \in R, \A k \in J : r[k] \subseteq s[k], NEW i \in J
      PROVE  body(r, i) \subseteq body(s, i) /\ body(r, i) \in SUBSET M
  <2> HIDE DEF J, M, Z
  <2> QED
    BY <1>2, <1>3
<1> HIDE DEF M, J, Z, f, body
<1>4. g \in R /\ \A i \in J : g[i] \in SUBSET M
  OBVIOUS
<1>5. \A r \in R : Closed(r) => \A i \in J : g[i] \subseteq r[i]
  <2> HIDE DEF R, Closed
  <2> QED
    OBVIOUS
<1> HIDE DEF g, Closed
<1>6. ASSUME NEW i \in J PROVE body(g, i) \subseteq g[i]
  <2>1. ASSUME NEW r \in R, Closed(r) PROVE body(g, i) \subseteq r[i]
    <3>1. body(g, i) \subseteq body(r, i)
      <4> HIDE DEF R
      <4> QED
        BY <1>3, <1>4, <1>5, <2>1
    <3> QED
      BY <2>1, <3>1 DEF Closed
  <2>2. body(g, i) \in SUBSET M
    <3> HIDE DEF R
    <3> QED
      BY <1>3, <1>4
  <2> HIDE DEF R, Closed
  <2> QED
    BY <2>1, <2>2 DEF g
<1>7. h \in R /\ Closed(h)
  <2>1. h \in R
    <3>1. \A i \in J : body(g, i) \in SUBSET M
      <4> HIDE DEF R
      <4> QED
        BY <1>3, <1>4
    <3> QED
      BY <3>1
  <2>2. \A i \in J : h[i] = body(g, i)
    OBVIOUS
  <2>3. \A i \in J : h[i] \subseteq g[i]
    BY <1>6, <2>2
  <2> HIDE DEF h, R
  <2>4. \A i \in J : body(h, i) \subseteq body(g, i)
    BY <1>3, <1>4, <2>1, <2>3
  <2> QED
    BY <2>1, <2>2, <2>4 DEF Closed
<1>8. \A i \in J : g[i] = body(g, i)
  <2>1. \A i \in J : h[i] = body(g, i)
    OBVIOUS
  <2> HIDE DEF h, R
  <2> QED
    BY <1>5, <1>6, <1>7, <2>1
<1>9. g = [i \in J |-> body(g, i)]
  <2>1. g = [i \in J |-> g[i]]
    BY DEF g
  <2> QED
    BY <1>8, <2>1
<1>10. f = [i \in J |-> body(f, i)]
  BY <1>9 DEF f
<1>11. \A i \in J : f[i] = body(f, i)
  BY <1>10
<1> DEFINE Known(i) == \A m \in f[i] : \E k \in 1 .. Z : m = at[k] /\ m # <<>>
           S == {d \in 0 .. Z : \A i \in Z + 1 - d .. Z + 1 : Known(i)}
<1>12. ASSUME NEW i \in J, \A k \in J : k > i => Known(k) PROVE Known(i)
  <2>1. CASE i > Z
    BY <1>11, <2>1 DEF body
  <2>2. CASE ~(i > Z) /\ at[i] = <<>>
    <3>1. f[i] = f[i + 1]
      BY <1>11, <2>2 DEF body
    <3>2. i + 1 \in J /\ i + 1 > i
      BY <1>2, <2>2 DEF J
    <3> QED
      BY <1>12, <3>1, <3>2
  <2>3. CASE ~(i > Z) /\ at[i] # <<>>
    <3>1. f[i] = {at[i]} \cup f[Last(at[i])]
      BY <1>11, <2>3 DEF body
    <3>2. Last(at[i]) \in J /\ Last(at[i]) > i /\ i \in 1 .. Z
      BY <1>2, <2>3 DEF J, Z
    <3>3. Known(Last(at[i]))
      BY <1>12, <3>2
    <3> QED
      BY <2>3, <3>1, <3>2, <3>3
  <2> QED
    BY <2>1, <2>2, <2>3
<1> HIDE DEF Known
<1>13. 0 \in S
  <2>1. \A i \in Z + 1 - 0 .. Z + 1 : i \in J /\ \A k \in J : ~(k > i)
    BY DEF J, Z
  <2> QED
    BY <1>12, <2>1 DEF Z
<1>14. ASSUME NEW d \in 1 .. Z, d - 1 \in S PROVE d \in S
  <2>1. \A i \in Z + 1 - d .. Z + 1 : i # Z + 1 - d => i \in Z + 1 - (d - 1) .. Z + 1
    BY DEF Z
  <2>2. Z + 1 - d \in J /\ \A k \in J : k > Z + 1 - d => k \in Z + 1 - (d - 1) .. Z + 1
    BY DEF Z, J
  <2>3. \A i \in Z + 1 - (d - 1) .. Z + 1 : Known(i)
    BY <1>14
  <2>4. Known(Z + 1 - d)
    BY <1>12, <2>2, <2>3
  <2>5. d \in 0 .. Z
    OBVIOUS
  <2> QED
    BY <2>1, <2>3, <2>4, <2>5
<1> HIDE DEF S
<1>15. 0 .. Z \subseteq S
  BY <1>13, <1>14, UpTo DEF Z
<1>16. Known(1)
  <2>1. Z \in 0 .. Z /\ 1 \in Z + 1 - Z .. Z + 1
    BY DEF Z
  <2> QED
    BY <1>15, <2>1 DEF S
<1> QED
  BY <1>1, <1>16 DEF Known, Z

(* What match gives back from item k on, at lexeme j: where each item      *)
(* begins, and where the rest of the text does.                            *)
Leads(p, k, j, m) ==
    /\ m \in Seq(Nat) /\ Len(m) = Len(p) + 2 - k /\ m[1] = j
    /\ \A n \in 1 .. Len(p) + 1 - k : /\ m[n + 1] \in m[n] + p[k + n - 1].min .. Size + 1
                                      /\ Takes(p[k + n - 1], m[n], m[n + 1])

(* From right to left, one item more leads on from where it ends.  The      *)
(* recursion of MatchAt has a solution, item by item, and any agrees with  *)
(* what is said here.                                                      *)
LEMMA MatchLeads ==
    ASSUME Size \in Nat, NEW p, Len(p) \in Nat, \A k \in 1 .. Len(p) : p[k].min \in Nat,
           NEW i \in 1 .. Size, MatchAt(p, i) # <<>>
    PROVE  Leads(p, 1, i, MatchAt(p, i))
<1> DEFINE L == Len(p)
           Z == Size
           K == 1 .. L + 1
           J == 1 .. Z + 1
           ends(k, j) == {n \in j + p[k].min .. Size + 1 : n <= j + p[k].max /\ Takes(p[k], j, n)}
           among(r, k, j) == {r[n] : n \in ends(k, j)} \ {<<>>}
           first(ts, k) == CHOOSE t \in ts : \A u \in ts : IF p[k].lazy THEN t[1] <= u[1] ELSE t[1] >= u[1]
           piece(r, k, j) == IF among(r, k, j) = {} THEN <<>> ELSE <<j>> \o first(among(r, k, j), k)
           body(m, k, j) == IF k > L THEN <<j>> ELSE piece(m[k + 1], k, j)
           f == CHOOSE m : m = [k \in K |-> [j \in J |-> body(m, k, j)]]
           S == {r \in [J -> Seq(Nat)] : \A j \in J : r[j] # <<>> => r[j][1] = j}
           zero == [j \in J |-> <<j>>]
           step == [d \in 1 .. L |-> [r \in S |-> [j \in J |-> piece(r, L + 1 - d, j)]]]
<1>1. MatchAt(p, i) = f[1][i]
  BY DEF MatchAt
<1>2. ASSUME NEW k \in 1 .. L, NEW j \in J
      PROVE  \A n \in ends(k, j) : n \in J /\ n \in j + p[k].min .. Z + 1 /\ Takes(p[k], j, n)
  OBVIOUS
<1>3. zero \in S
  OBVIOUS
<1> HIDE DEF ends, L, Z, J
(* The choice among the tails is of one of them. *)
<1>4. ASSUME NEW r \in S, NEW k \in 1 .. L, NEW j \in J, among(r, k, j) # {}
      PROVE  \E n \in ends(k, j) : r[n] # <<>> /\ piece(r, k, j) = <<j>> \o r[n]
  <2> DEFINE ts == among(r, k, j)
             heads == {t[1] : t \in ts}
  <2>1. \A t \in ts : \E n \in ends(k, j) : n \in J /\ t = r[n] /\ r[n] # <<>> /\ t[1] = n
    BY <1>2
  <2>2. heads \in SUBSET Nat /\ heads # {} /\ \A n \in heads : n <= Z + 1
    <3>1. heads \subseteq J
      <4> HIDE DEF ts
      <4> QED
        BY <2>1
    <3>2. heads # {}
      BY <1>4
    <3> HIDE DEF heads
    <3> QED
      BY <3>1, <3>2 DEF J, Z
  <2> HIDE DEF ts
  <2>3. /\ Max(heads) \in heads /\ \A n \in heads : n <= Max(heads)
        /\ Min(heads) \in heads /\ \A n \in heads : Min(heads) <= n
    <3> HIDE DEF heads
    <3>1. Z + 1 \in Nat
      BY DEF Z
    <3> QED
      BY <2>2, <3>1, Extremes
  <2>4. \E t \in ts : \A u \in ts : IF p[k].lazy THEN t[1] <= u[1] ELSE t[1] >= u[1]
    <3>1. \A u \in ts : u[1] \in heads /\ u[1] \in Nat
      BY <2>2
    <3>2. PICK a \in ts : a[1] = Max(heads)
      BY <2>3
    <3>3. PICK b \in ts : b[1] = Min(heads)
      BY <2>3
    <3> HIDE DEF heads
    <3>4. \A u \in ts : a[1] >= u[1] /\ b[1] <= u[1]
      BY <2>2, <2>3, <3>1, <3>2, <3>3
    <3> QED
      BY <3>4
  <2>5. first(ts, k) \in ts
    BY <2>4
  <2>6. piece(r, k, j) = <<j>> \o first(ts, k)
    BY <1>4 DEF ts
  <2> HIDE DEF first, heads, piece
  <2>7. PICK n \in ends(k, j) : first(ts, k) = r[n] /\ r[n] # <<>>
    BY <2>1, <2>5
  <2> QED
    BY <2>6, <2>7
<1> HIDE DEF first
<1>5. ASSUME NEW r \in S, NEW k \in 1 .. L PROVE [j \in J |-> piece(r, k, j)] \in S
  <2>1. ASSUME NEW j \in J
        PROVE  piece(r, k, j) \in Seq(Nat) /\ (piece(r, k, j) # <<>> => piece(r, k, j)[1] = j)
    <3>1. CASE among(r, k, j) = {}
      BY <3>1
    <3>2. CASE among(r, k, j) # {}
      <4>1. PICK n \in ends(k, j) : r[n] # <<>> /\ piece(r, k, j) = <<j>> \o r[n]
        BY <1>4, <3>2
      <4>2. r[n] \in Seq(Nat) /\ <<j>> \in Seq(Nat)
        BY <1>2 DEF J, Z
      <4> HIDE DEF piece
      <4> QED
        BY <4>1, <4>2
    <3> QED
      BY <3>1, <3>2
  <2> HIDE DEF piece
  <2> QED
    BY <2>1
<1> HIDE DEF piece, S
<1>6. StepsIn(S, L, step)
  <2>1. \A d \in 1 .. L : L + 1 - d \in 1 .. L
    BY DEF L
  <2>2. \A d \in 1 .. L, r \in S : [j \in J |-> piece(r, L + 1 - d, j)] \in S
    BY <1>5, <2>1
  <2> QED
    BY <2>2 DEF StepsIn
<1>7. PICK a : Iterates(S, L, zero, step, a)
  <2> HIDE DEF zero, step
  <2>1. L \in Nat
    BY DEF L
  <2> QED
    BY <1>3, <1>6, <2>1, Stepwise, Zenon
<1> DEFINE g == [k \in K |-> a[L + 1 - k]]
<1>8. \A k \in K, j \in J : g[k][j] = body(g, k, j)
  <2> SUFFICES ASSUME NEW k \in K, NEW j \in J PROVE g[k][j] = body(g, k, j)
    OBVIOUS
  <2>1. CASE k > L
    <3>1. L + 1 - k = 0
      BY <2>1 DEF L
    <3> QED
      BY <1>7, <2>1, <3>1 DEF Iterates
  <2>2. CASE ~(k > L)
    <3> DEFINE d == L + 1 - k
    <3>1. d \in 1 .. L /\ k + 1 \in K /\ L + 1 - (k + 1) = d - 1 /\ d - 1 \in 0 .. L /\ L + 1 - d = k
      BY <2>2 DEF L
    <3>2. g[k] = a[d] /\ g[k + 1] = a[d - 1]
      BY <3>1
    <3> HIDE DEF d, g
    <3>3. a[d - 1] \in S /\ a[d] = step[d][a[d - 1]]
      <4> HIDE DEF step, zero
      <4> QED
        BY <1>7, <3>1 DEF Iterates
    <3>4. step[d][a[d - 1]] = [n \in J |-> piece(a[d - 1], k, n)]
      BY <3>1, <3>3
    <3> HIDE DEF step, zero
    <3> QED
      BY <2>2, <3>2, <3>3, <3>4
  <2> QED
    BY <2>1, <2>2
<1>9. g = [k \in K |-> [j \in J |-> body(g, k, j)]]
  <2>1. \A k \in K : a[L + 1 - k] \in [J -> Seq(Nat)]
    <3>1. \A k \in K : L + 1 - k \in 0 .. L
      BY DEF L
    <3> HIDE DEF step, zero
    <3> QED
      BY <1>7, <3>1 DEF Iterates, S
  <2>2. g = [k \in K |-> g[k]] /\ \A k \in K : g[k] = [j \in J |-> g[k][j]]
    <3> HIDE DEF step, zero, K
    <3> QED
      BY <2>1
  <2> HIDE DEF body, K, g, step, zero
  <2>3. ASSUME NEW k \in K PROVE g[k] = [j \in J |-> body(g, k, j)]
    BY <1>8, <2>2
  <2> QED
    BY <2>2, <2>3
<1>10. f = [k \in K |-> [j \in J |-> body(f, k, j)]]
  <2> HIDE DEF body, K, g, step, zero
  <2> QED
    BY <1>9
<1> HIDE DEF f, g, step, zero
<1>11. \A k \in K, j \in J : f[k][j] = body(f, k, j)
  <2> HIDE DEF body, K
  <2> QED
    BY <1>10
<1> DEFINE Good(k) == \A j \in J : /\ f[k][j] \in Seq(Nat)
                                   /\ f[k][j] # <<>> => Leads(p, k, j, f[k][j])
           T == {d \in 0 .. L : Good(L + 1 - d)}
<1>12. Good(L + 1)
  <2> SUFFICES ASSUME NEW j \in J
               PROVE  f[L + 1][j] \in Seq(Nat) /\ Leads(p, L + 1, j, f[L + 1][j])
    OBVIOUS
  <2>1. L + 1 \in K /\ L + 1 > L /\ L \in Nat
    BY DEF L
  <2>2. f[L + 1][j] = <<j>>
    BY <1>11, <2>1
  <2>3. Leads(p, L + 1, j, <<j>>)
    BY <2>1 DEF Leads, L, J, Z
  <2>4. <<j>> \in Seq(Nat)
    BY DEF J, Z
  <2> QED
    BY <2>2, <2>3, <2>4
<1>13. ASSUME NEW k \in 1 .. L, Good(k + 1) PROVE Good(k)
  <2> DEFINE r == f[k + 1]
  <2>1. k \in K /\ k + 1 \in K /\ ~(k > L) /\ L \in Nat
    BY DEF L
  <2>2. \A j \in J : f[k][j] = piece(r, k, j)
    BY <1>11, <2>1
  <2>3. r \in S
    <3>1. r = [j \in J |-> body(f, k + 1, j)]
      <4> HIDE DEF body, K
      <4> QED
        BY <1>10, <2>1
    <3>2. \A j \in J : r[j] \in Seq(Nat) /\ (r[j] # <<>> => r[j][1] = j)
      BY <1>13 DEF Leads
    <3>3. r \in [J -> Seq(Nat)]
      <4>1. r = [j \in J |-> r[j]]
        <5> HIDE DEF body
        <5> QED
          BY <3>1
      <4> HIDE DEF r
      <4> QED
        BY <3>2, <4>1
    <3> HIDE DEF r
    <3> QED
      BY <3>2, <3>3 DEF S
  <2>4. ASSUME NEW j \in J PROVE f[k][j] = <<>> \/ (Leads(p, k, j, f[k][j]) /\ f[k][j] \in Seq(Nat))
    <3>1. CASE among(r, k, j) = {}
      BY <2>2, <3>1 DEF piece
    <3>2. CASE among(r, k, j) # {}
      <4>1. PICK n \in ends(k, j) : r[n] # <<>> /\ piece(r, k, j) = <<j>> \o r[n]
        <5> HIDE DEF r, among
        <5> QED
          BY <1>4, <2>3, <3>2
      <4>2. n \in J /\ n \in j + p[k].min .. Z + 1 /\ Takes(p[k], j, n)
        BY <1>2
      <4>3. Leads(p, k + 1, n, r[n])
        BY <1>13, <4>1, <4>2
      <4> DEFINE t == r[n]
                 m == <<j>> \o t
      <4> HIDE DEF t, r
      <4>4. t \in Seq(Nat) /\ Len(t) = L + 1 - k /\ t[1] = n /\ j \in Nat /\ k \in 1 .. L /\ L \in Nat
        BY <2>1, <4>3 DEF Leads, L, t, J, Z
      <4>5. m \in Seq(Nat) /\ Len(m) = L + 2 - k /\ m[1] = j /\ \A x \in 1 .. L + 1 - k : m[x + 1] = t[x]
        <5>1. <<j>> \in Seq(Nat) /\ Len(<<j>>) = 1 /\ <<j>>[1] = j
          BY <4>4
        <5>2. m \in Seq(Nat) /\ Len(m) = 1 + Len(t) /\ m[1] = j
          <6>1. t \in Seq(Nat) /\ Len(t) \in Nat /\ 1 \in 1 .. 1 + Len(t)
            BY <4>4
          <6>2. m \in Seq(Nat) /\ Len(m) = 1 + Len(t)
            BY ONLY <5>1, <6>1, ConcatProperties
          <6>3. m[1] = <<j>>[1]
            BY ONLY <5>1, <6>1, ConcatProperties
          <6> QED
            BY ONLY <5>1, <6>2, <6>3
        <5>3. \A x \in 1 .. L + 1 - k : m[x + 1] = t[x]
          <6>1. t \in Seq(Nat) /\ \A x \in 1 .. L + 1 - k : x \in 1 .. Len(t)
            BY <4>4
          <6>2. \A y \in 1 .. 1 + Len(t) : m[y] = IF y <= 1 THEN <<j>>[y] ELSE t[y - 1]
            BY ONLY <5>1, <6>1, ConcatProperties
          <6>3. \A x \in 1 .. Len(t) : x + 1 \in 1 .. 1 + Len(t) /\ ~(x + 1 <= 1) /\ (x + 1) - 1 = x
            BY ONLY <6>1, LenProperties
          <6> HIDE DEF m
          <6> QED
            BY <6>1, <6>2, <6>3
        <5> HIDE DEF m
        <5> QED
          BY <4>4, <5>2, <5>3
      <4> HIDE DEF m
      <4>6. ASSUME NEW x \in 1 .. L + 1 - k
            PROVE  /\ m[x + 1] \in m[x] + p[k + x - 1].min .. Z + 1
                   /\ Takes(p[k + x - 1], m[x], m[x + 1])
        <5>1. CASE x = 1
          <6>1. 1 \in 1 .. L + 1 - k /\ k + 1 - 1 = k
            BY <4>4
          <6>2. m[1] = j /\ m[1 + 1] = n
            BY <4>4, <4>5, <6>1
          <6> QED
            BY <4>2, <5>1, <6>1, <6>2
        <5>2. CASE x # 1
          <6>1. x - 1 \in 1 .. L + 1 - (k + 1) /\ (k + 1) + (x - 1) - 1 = k + x - 1 /\ (x - 1) + 1 = x
                /\ x - 1 \in 1 .. L + 1 - k
            BY <4>4, <5>2
          <6>2. m[x] = t[x - 1] /\ m[x + 1] = t[x]
            BY <4>5, <6>1
          <6>3. t[x] \in t[x - 1] + p[k + x - 1].min .. Z + 1 /\ Takes(p[k + x - 1], t[x - 1], t[x])
            BY <4>3, <6>1 DEF Leads, L, Z, t
          <6> QED
            BY <6>2, <6>3
        <5> QED
          BY <5>1, <5>2
      <4>7. Leads(p, k, j, m)
        BY <4>5, <4>6 DEF Leads, L, Z
      <4> QED
        BY <2>2, <4>1, <4>5, <4>7 DEF m, t
    <3> QED
      BY <3>1, <3>2
  <2>5. <<>> \in Seq(Nat)
    OBVIOUS
  <2> QED
    BY <2>4, <2>5
<1> HIDE DEF Good
<1>14. 0 .. L \subseteq T
  <2>1. 0 \in T
    <3>1. L + 1 - 0 = L + 1 /\ 0 \in 0 .. L
      BY DEF L
    <3> QED
      BY <1>12, <3>1
  <2>2. ASSUME NEW d \in 1 .. L, d - 1 \in T PROVE d \in T
    <3>1. L + 1 - d \in 1 .. L /\ L + 1 - (d - 1) = (L + 1 - d) + 1 /\ d \in 0 .. L
      BY DEF L
    <3> QED
      BY <1>13, <2>2, <3>1
  <2> HIDE DEF T
  <2> QED
    BY <2>1, <2>2, UpTo DEF L
<1>15. Good(1)
  <2>1. L \in 0 .. L /\ L + 1 - L = 1
    BY DEF L
  <2> QED
    BY <1>14, <2>1
<1> QED
  BY <1>1, <1>15 DEF Good, J, Z

-----------------------------------------------------------------------------
(* A text without a digit, and what its lexemes are not. *)
NoDigit == \A i \in 1 .. Size : ~Has(i, "digits")

(* In a text without digits no lexeme is of a class of numbers. *)
LEMMA NotNumber ==
    ASSUME text \in Seq(Lexemes), NoDigit, NEW i \in 1 .. Size
    PROVE  ~IsA(i, NumberClasses)
<1>1. text[i] \in Lexemes
  BY DEF Size
<1> QED
  BY <1>1, DigitsAssumption DEF NoDigit, Has, IsA

(* An item that takes a number, and nothing else. *)
NumberItem(e) == e.min = 1 /\ e.except = FALSE /\ e.of \subseteq NumberClasses

(* An expression that ends with a number matches nothing in such a text:    *)
(* from its last item backwards, no item leads to a match.  The recursion   *)
(* of MatchAt has a solution, g, and any other agrees with it.              *)
LEMMA NoMatch ==
    ASSUME text \in Seq(Lexemes), NoDigit, NEW p, Len(p) \in Nat, Len(p) > 0, NumberItem(p[Len(p)]),
       \A k \in 1 .. Len(p) : p[k].min \in Nat, NEW i \in 1 .. Size
    PROVE MatchAt(p, i) = <<>>
<1> DEFINE L == Len(p)
           Z == Size
           K == 1 .. L + 1
           J == 1 .. Z + 1
           ends(k, j) == {n \in j + p[k].min .. Size + 1 : n <= j + p[k].max /\ Takes(p[k], j, n)}
           tails(m, k, j) == {m[k + 1][n] : n \in ends(k, j)} \ {<<>>}
           body(m, k, j) ==
              IF k > L THEN <<j>>
              ELSE IF tails(m, k, j) = {} THEN <<>>
                   ELSE <<j>> \o CHOOSE t \in tails(m, k, j) :
                                   \A u \in tails(m, k, j) : IF p[k].lazy THEN t[1] <= u[1] ELSE t[1] >= u[1]
           f == CHOOSE m : m = [k \in K |-> [j \in J |-> body(m, k, j)]]
           g == [k \in K |-> [j \in J |-> IF k > L THEN <<j>> ELSE <<>>]]
<1>1. MatchAt(p, i) = f[1][i]
  BY DEF MatchAt
<1>2. L \in Nat /\ L > 0 /\ Z \in Nat
  <2>1. Len(text) \in Nat
    BY LenProperties
  <2> QED
    BY <2>1 DEF Size
<1>3. ASSUME NEW j \in J PROVE ends(L, j) = {}
  <2> SUFFICES ASSUME NEW n \in j + 1 .. Z + 1, Takes(p[L], j, n) PROVE FALSE
    BY <1>2 DEF NumberItem
  <2>1. j \in j .. n - 1
    BY <1>2
  <2>2. IsA(j, p[L].of)
    <3>1. IsA(j, p[L].of) # p[L].except
      BY <2>1, Zenon DEF Takes
    <3>2. p[L].except = FALSE
      BY DEF NumberItem
    <3> QED
      BY ONLY <3>1, <3>2, Zenon DEF IsA
  <2>3. j \in 1 .. Size /\ IsA(j, NumberClasses)
    BY <2>2 DEF IsA, NumberItem
  <2> QED
    BY <2>3, NotNumber
<1>4. ASSUME NEW k \in 1 .. L, NEW j \in J PROVE ends(k, j) \subseteq J
  BY <1>2
<1>5. ASSUME NEW m, NEW k \in 1 .. L, NEW j \in J, k < L => \A n \in J : m[k + 1][n] = <<>>
      PROVE  body(m, k, j) = <<>>
  <2>1. tails(m, k, j) = {}
    <3> HIDE DEF ends, L, J
    <3>1. CASE k = L
      BY <1>3, <3>1
    <3>2. CASE k < L
      BY <1>4, <1>5, <3>2
    <3>3. k = L \/ k < L
      BY <1>2
    <3> HIDE DEF tails
    <3> QED
      BY <3>1, <3>2, <3>3
  <2>2. ~(k > L)
    BY <1>2
  <2> HIDE DEF tails, L
  <2> QED
    BY <2>1, <2>2
<1>6. \A k \in K, j \in J : g[k][j] = body(g, k, j)
  <2> SUFFICES ASSUME NEW k \in K, NEW j \in J PROVE g[k][j] = body(g, k, j)
    OBVIOUS
  <2>1. \A x \in K, n \in J : g[x][n] = IF x > L THEN <<n>> ELSE <<>>
    OBVIOUS
  <2> HIDE DEF g
  <2>2. CASE k > L
    BY <2>1, <2>2
  <2>3. CASE ~(k > L)
    <3>1. k \in 1 .. L /\ (k < L => k + 1 \in K /\ ~(k + 1 > L))
      BY <1>2, <2>3
    <3>2. k < L => \A n \in J : g[k + 1][n] = <<>>
      BY <2>1, <3>1
    <3> HIDE DEF body, J, K, L
    <3>3. body(g, k, j) = <<>>
      BY <1>5, <3>1, <3>2
    <3> QED
      BY <2>1, <2>3, <3>3
  <2> QED
    BY <2>2, <2>3
<1>7. g = [k \in K |-> [j \in J |-> body(g, k, j)]]
  <2>1. g = [k \in K |-> g[k]] /\ \A k \in K : g[k] = [j \in J |-> g[k][j]]
    <3> HIDE DEF K, J
    <3> QED
      OBVIOUS
  <2> HIDE DEF body, K, J, L, g
  <2>2. ASSUME NEW k \in K PROVE g[k] = [j \in J |-> body(g, k, j)]
    BY <1>6, <2>1
  <2> QED
    BY <2>1, <2>2
<1>8. f = [k \in K |-> [j \in J |-> body(f, k, j)]]
  <2> HIDE DEF body, K, J, g
  <2> QED
    BY <1>7
<1> HIDE DEF f, g
<1>9. \A k \in K, j \in J : f[k][j] = body(f, k, j)
  <2> HIDE DEF body, K, J
  <2> QED
    BY <1>8
<1> DEFINE Fine(d) == \A j \in J : f[L - d][j] = <<>>
           Bad == {d \in 0 .. L - 1 : ~Fine(d)}
<1>10. ASSUME NEW d \in 0 .. L - 1, d > 0 => Fine(d - 1) PROVE Fine(d)
  <2> DEFINE k == L - d
  <2>1. k \in 1 .. L /\ k \in K /\ (k < L => d > 0 /\ k + 1 = L - (d - 1))
    BY <1>2
  <2> HIDE DEF k
  <2> SUFFICES ASSUME NEW j \in J PROVE f[k][j] = <<>>
    BY DEF k
  <2> HIDE DEF J, K, L, body
  <2>2. k < L => \A n \in J : f[k + 1][n] = <<>>
    BY <1>10, <2>1
  <2>3. body(f, k, j) = <<>>
    BY <1>5, <2>1, <2>2
  <2> QED
    BY <1>9, <2>1, <2>3
<1>11. Bad = {}
  <2> SUFFICES ASSUME Bad # {} PROVE FALSE
    OBVIOUS
  <2> HIDE DEF Fine
  <2>1. Bad \in SUBSET Nat
    BY <1>2
  <2>2. PICK d \in Bad : \A e \in Bad : d <= e
    BY <2>1, LeastNumber
  <2>3. d \in 0 .. L - 1 /\ ~Fine(d) /\ (d > 0 => d - 1 \in 0 .. L - 1 /\ ~(d <= d - 1))
    BY <1>2
  <2>4. d > 0 => Fine(d - 1)
    BY <2>2, <2>3
  <2> QED
    BY <1>10, <2>3, <2>4
<1>12. Fine(L - 1) /\ L - (L - 1) = 1 /\ i \in J
  <2>1. L - 1 \in 0 .. L - 1 /\ L - (L - 1) = 1 /\ i \in J
    BY <1>2
  <2> HIDE DEF Fine
  <2> QED
    BY <1>11, <2>1
<1> QED
  BY <1>1, <1>12

(* No match at any lexeme: finditer finds none. *)
LEMMA NothingMatched ==
    ASSUME Size \in Nat, NEW at, \A i \in 1 .. Size : at[i] = <<>>
    PROVE  NonOverlapping(at) = {}
<1> DEFINE Z == Size
           J == 1 .. Z + 1
           body(r, i) == IF i > Z THEN {}
                         ELSE IF at[i] = <<>> THEN r[i + 1] ELSE {at[i]} \cup r[Last(at[i])]
           f == CHOOSE r : r = [i \in J |-> body(r, i)]
           g == [i \in J |-> {}]
<1>1. NonOverlapping(at) = f[1]
  BY DEF NonOverlapping
<1>2. ASSUME NEW r, NEW i \in J PROVE body(r, i) = IF i > Z THEN {} ELSE r[i + 1]
  BY DEF J
<1>3. \A i \in J : body(g, i) = {}
  BY <1>2
<1>4. g = [i \in J |-> body(g, i)]
  <2> HIDE DEF body, J
  <2> QED
    BY <1>3
<1>5. f = [i \in J |-> body(f, i)]
  <2> HIDE DEF body, J, g
  <2> QED
    BY <1>4
<1> HIDE DEF f, g
<1>6. \A i \in J : f[i] = body(f, i)
  <2> HIDE DEF body, J
  <2> QED
    BY <1>5
<1> DEFINE Bad == {d \in 0 .. Z : f[Z + 1 - d] # {}}
<1>7. ASSUME NEW d \in 0 .. Z, d > 0 => f[Z + 1 - (d - 1)] = {} PROVE f[Z + 1 - d] = {}
  <2> DEFINE i == Z + 1 - d
  <2>1. i \in J /\ (~(i > Z) => d > 0 /\ i + 1 = Z + 1 - (d - 1))
    OBVIOUS
  <2> HIDE DEF i
  <2>2. f[i] = IF i > Z THEN {} ELSE f[i + 1]
    <3> HIDE DEF body, J
    <3> QED
      BY <1>2, <1>6, <2>1
  <2>3. f[i] = {}
    BY <1>7, <2>1, <2>2
  <2> QED
    BY <2>3 DEF i
<1>8. Bad = {}
  <2> SUFFICES ASSUME Bad # {} PROVE FALSE
    OBVIOUS
  <2>a. Bad \in SUBSET Nat
    OBVIOUS
  <2>1. PICK d \in Bad : \A e \in Bad : d <= e
    <3> HIDE DEF Bad
    <3> QED
      BY <2>a, LeastNumber
  <2>2. d \in 0 .. Z /\ f[Z + 1 - d] # {} /\ (d > 0 => d - 1 \in 0 .. Z /\ ~(d <= d - 1))
    OBVIOUS
  <2>3. d > 0 => f[Z + 1 - (d - 1)] = {}
    BY <2>1, <2>2
  <2> QED
    BY <1>7, <2>2, <2>3
<1>9. Z \in 0 .. Z /\ Z + 1 - Z = 1
  OBVIOUS
<1> QED
  BY <1>1, <1>8, <1>9

(* The expressions that end with a number. *)
NumberEnd(p) ==
  /\ Len(p) \in Nat /\ Len(p) > 0 /\ NumberItem(p[Len(p)])
  /\ \A k \in 1 .. Len(p) : p[k].min \in Nat

(* Nor do several such expressions together, as _groups has them, find any. *)
LEMMA NoHits ==
    ASSUME text \in Seq(Lexemes), NoDigit, NEW ps, \A p \in ps : NumberEnd(p)
    PROVE  Hits(ps) = {}
<1>1. ASSUME NEW i \in 1 .. Size PROVE \A p \in ps : MatchAt(p, i) = <<>>
  BY NoMatch DEF NumberEnd
<1>2. Size \in Nat
  BY LenProperties DEF Size
<1> DEFINE matches(i) == {b \in {<<p, MatchAt(p, i)>> : p \in ps} : b[2] # <<>>}
           hits(i) == {Hit(a[1], a[2]) : a \in matches(i)}
           at == [i \in 1 .. Size |-> AnyOf(hits(i))]
<1>3. \A i \in 1 .. Size : matches(i) = {}
  BY <1>1
<1>4. \A i \in 1 .. Size : hits(i) = {}
  <2> HIDE DEF matches
  <2> QED
    BY <1>3
<1>5. \A i \in 1 .. Size : at[i] = <<>>
  <2> HIDE DEF hits
  <2> QED
    BY <1>4 DEF AnyOf
<1>6. Hits(ps) = NonOverlapping(at)
  BY DEF Hits
<1> HIDE DEF at
<1> QED
  BY <1>2, <1>5, <1>6, NothingMatched

(* Which of the detectors' expressions do. *)
Fit(e) == e.min \in Nat

LEMMA ItemsFit ==
    /\ \A cs : Fit(One(cs)) /\ Fit(Opt(cs)) /\ Fit(Value(cs))
    /\ \A cs, n : Fit(Gap(cs, n))
  BY DEF One, Opt, Value, Gap, Item, Fit

LEMMA ValueNumber ==
    \A cs : cs \subseteq NumberClasses => NumberItem(Value(cs)) /\ Fit(Value(cs))
  BY DEF Value, Item, NumberItem, Fit

(* What stands before such an expression does not matter. *)
LEMMA Behind ==
    ASSUME NEW S, \A e \in S : Fit(e), NEW q \in Seq(S), NEW r \in Seq(S), NumberEnd(r)
    PROVE  NumberEnd(q \o r)
<1> DEFINE s == q \o r
<1>1. s \in Seq(S) /\ Len(s) = Len(q) + Len(r) /\ Len(q) \in Nat /\ Len(r) \in Nat
  BY ConcatProperties, LenProperties
<1>2. s[Len(q) + Len(r)] = r[Len(r)]
  BY <1>1, ConcatProperties DEF NumberEnd
<1>3. \A k \in 1 .. Len(s) : s[k] \in S
  BY <1>1, ElementOfSeq
<1> HIDE DEF s
<1> QED
  BY <1>1, <1>2, <1>3 DEF NumberEnd, Fit

LEMMA ShortEnds ==
    ASSUME NEW z, NumberItem(z), Fit(z), NEW a, Fit(a), NEW b, Fit(b)
    PROVE  NumberEnd(<<z>>) /\ NumberEnd(<<a, z>>) /\ NumberEnd(<<a, b, z>>)
  BY DEF NumberEnd, Fit

LEMMA LongerEnds ==
    ASSUME NEW z, NumberItem(z), Fit(z), NEW a, Fit(a), NEW b, Fit(b), NEW c, Fit(c)
    PROVE  /\ NumberEnd(<<a, b, c, z>>)
           /\ \A d, e : Fit(d) /\ Fit(e) => NumberEnd(<<a, b, c, d, z>>) /\ NumberEnd(<<a, b, c, d, e, z>>)
  BY DEF NumberEnd, Fit

LEMMA BehindTwo ==
    ASSUME NEW z, NumberItem(z), Fit(z), NEW a, Fit(a), NEW b, Fit(b)
    PROVE  /\ NumberEnd(<<a, b>> \o <<z>>)
           /\ NumberEnd(<<a>> \o <<b>> \o <<z>>)
           /\ \A c, d, e, f : Fit(c) /\ Fit(d) /\ Fit(e) /\ Fit(f) =>
                /\ NumberEnd(<<a, b>> \o <<c, d, e, f, z>>)
                /\ NumberEnd(<<a>> \o <<b, c>> \o <<z>>)
<1>0. NumberEnd(<<z>>)
  BY ShortEnds
<1>1. NumberEnd(<<a, b>> \o <<z>>)
  <2>1. <<a, b>> \in Seq({a, b, z}) /\ <<z>> \in Seq({a, b, z}) /\ \A e \in {a, b, z} : Fit(e)
    OBVIOUS
  <2> QED
    BY <1>0, <2>1, Behind
<1>2. NumberEnd(<<a>> \o <<b>> \o <<z>>)
  <2>1. <<a>> \o <<b>> \in Seq({a, b, z}) /\ <<z>> \in Seq({a, b, z}) /\ \A e \in {a, b, z} : Fit(e)
    BY ConcatProperties
  <2> QED
    BY <1>0, <2>1, Behind
<1>3. ASSUME NEW c, NEW d, NEW e, NEW f, Fit(c), Fit(d), Fit(e), Fit(f)
      PROVE  /\ NumberEnd(<<a, b>> \o <<c, d, e, f, z>>)
             /\ NumberEnd(<<a>> \o <<b, c>> \o <<z>>)
  <2> DEFINE S == {a, b, c, d, e, f, z}
  <2>1. <<a, b>> \in Seq(S) /\ <<a>> \in Seq(S) /\ <<b, c>> \in Seq(S) /\ <<z>> \in Seq(S)
        /\ <<c, d, e, f, z>> \in Seq(S)
    OBVIOUS
  <2>2. \A x \in S : Fit(x)
    BY <1>3
  <2>3. NumberEnd(<<c, d, e, f, z>>)
    BY <1>3, LongerEnds
  <2> HIDE DEF S
  <2>4. <<a>> \o <<b, c>> \in Seq(S)
    BY <2>1, ConcatProperties
  <2> QED
    BY <1>0, <2>1, <2>2, <2>3, <2>4, Behind
<1> QED
  BY <1>1, <1>2, <1>3

-----------------------------------------------------------------------------
(* The detectors that declare to need digits find nothing without them. *)
Blank == text \in Seq(Lexemes) /\ NoDigit

(* Where nothing matches there are no entities.                            *)
LEMMA NothingAt ==
    /\ \A t, pr, r : WeakAt(t, {}, pr, r) = {}
    /\ \A t, pr : EntitiesAt(t, {}, pr) = {}
    /\ Places({}) = {}
  BY DEF WeakAt, EntitiesAt, Places

LEMMA NothingFound ==
    ASSUME Blank, NEW p, NumberEnd(p)
    PROVE  /\ Hits({p}) = {}
           /\ \A t, pr : Found(t, p, pr) = {}
           /\ \A t, pr, r : WeakFound(t, p, pr, r) = {}
<1>1. Hits({p}) = {}
  BY NoHits DEF Blank
<1> QED
  BY <1>1, NothingAt DEF Found, WeakFound

(* The detectors, one by one. *)
LEMMA NoCards == ASSUME Blank PROVE Cards = {}
<1> DEFINE until == Marked("until") \o <<Value({"month_year"})>>
           pin == <<One({"pin"}), Opt({"code_word"}), Opt({"from"}), Opt({"of_card"}), Opt({":"}),
                    Value({"four", "six"})>>
           cvv == <<One({"cvv"}), Opt({"code_word"}), Opt({":"}), Value({"three", "four"})>>
           expiry == <<One({"expiry_label"}), Opt({"of_card"}), Opt({":", "."}), Value({"month_year"})>>
           bare == <<Value({"month_slash_year"})>>
           card(i) == Has(i, "card") /\ (Has(i, "luhn") \/ CueBefore(From[i], "card_cue", 40))
           cards == {i \in 1 .. Size : card(i)}
           undiscounted == {h \in Hits({until}) : ~CueBefore(From[h[1]], "discount", 40)}
<1>1. NumberEnd(until)
  BY ONLY ItemsFit, ValueNumber, BehindTwo DEF Marked, NumberClasses
<1>2. NumberEnd(pin)
  BY ONLY ItemsFit, ValueNumber, ShortEnds, LongerEnds DEF NumberClasses
<1>3. NumberEnd(cvv)
  BY ONLY ItemsFit, ValueNumber, ShortEnds, LongerEnds DEF NumberClasses
<1>4. NumberEnd(expiry)
  BY ONLY ItemsFit, ValueNumber, ShortEnds, LongerEnds DEF NumberClasses
<1>5. NumberEnd(bare)
  BY ONLY ItemsFit, ValueNumber, ShortEnds, LongerEnds DEF NumberClasses
<1>6. cards = {}
  BY NotNumber DEF Blank, Has, IsA, NumberClasses
<1>7. Cards = EntitiesAt("card_number", {{i} : i \in cards}, 82) \cup Found("cvv", cvv, 85)
              \cup Found("pin", pin, 85) \cup Found("card_expiry", expiry, 80)
              \cup EntitiesAt("card_expiry", Places(undiscounted), 78) \cup BareExpiry
  BY Zenon DEF Cards
<1>8. undiscounted = {}
  <2> HIDE DEF until
  <2> QED
    BY <1>1, NothingFound
<1>9. BareExpiry = {}
  BY <1>5, NothingFound DEF BareExpiry
<1> HIDE DEF pin, cvv, expiry, cards, undiscounted
<1>10. {{i} : i \in cards} = {}
  BY <1>6
<1>11. /\ EntitiesAt("card_number", {{i} : i \in cards}, 82) = {}
       /\ EntitiesAt("card_expiry", Places(undiscounted), 78) = {}
  BY ONLY <1>8, <1>10, NothingAt
<1>12. Found("cvv", cvv, 85) = {} /\ Found("pin", pin, 85) = {} /\ Found("card_expiry", expiry, 80) = {}
  BY <1>2, <1>3, <1>4, NothingFound
<1> QED
  BY ONLY <1>7, <1>9, <1>11, <1>12

LEMMA NoInns == ASSUME Blank PROVE Inns = {}
<1> DEFINE labelled == <<One({"inn"})>> \o <<Opt({"of_person"}), Opt({":"})>> \o <<Value({"ten", "twelve"})>>
           valid == <<Value({"inn_valid"})>>
<1>1. NumberEnd(labelled)
  BY ONLY ItemsFit, ValueNumber, BehindTwo DEF NumberClasses
<1>2. NumberEnd(valid)
  BY ONLY ItemsFit, ValueNumber, ShortEnds DEF NumberClasses
<1>3. ClientInn(<<Opt({"of_person"}), Opt({":"})>>, {"ten", "twelve"}, 77)
         = EntitiesAt("inn", Places({h \in Hits({labelled}) : ~OfOrganisation(h)}), 77)
  BY DEF ClientInn
<1>4. Inns = ClientInn(<<Opt({"of_person"}), Opt({":"})>>, {"ten", "twelve"}, 77) \cup Found("inn", valid, 42)
  BY DEF Inns
<1> HIDE DEF labelled, valid
<1>5. {h \in Hits({labelled}) : ~OfOrganisation(h)} = {}
  BY <1>1, NothingFound
<1>6. EntitiesAt("inn", Places({h \in Hits({labelled}) : ~OfOrganisation(h)}), 77) = {}
  BY <1>5, NothingAt
<1>7. Found("inn", valid, 42) = {}
  BY <1>2, NothingFound
<1> QED
  BY ONLY <1>3, <1>4, <1>6, <1>7

LEMMA NoTypedDocuments ==
    ASSUME Blank, NEW ps, \A p \in ps : NumberEnd(p), NEW cue, NEW pr
    PROVE  TypedDocuments(ps, cue, pr) = {}
<1>1. Hits(ps) = {}
  BY NoHits DEF Blank
<1>2. \A t : {h \in Hits(ps) : DocType(From[h[1]], cue) = t} = {}
  BY <1>1
<1>3. \A t : EntitiesAt(t, Places({h \in Hits(ps) : DocType(From[h[1]], cue) = t}), pr) = {}
  BY <1>2, NothingAt
<1> QED
  BY <1>3 DEF TypedDocuments

LEMMA SeriesAndNumberEnd ==
    ASSUME NEW a, NEW b, Fit(a), Fit(b), NEW series
    PROVE  \A p \in SeriesAndNumber(<<a, b>>, series) : NumberEnd(p)
<1> DEFINE comma == [Opt({",", ":"}) EXCEPT !.max = 3]
<1>1. Fit(comma)
  BY DEF Opt, Item, Fit
<1>2. SeriesAndNumber(<<a, b>>, series) =
        {<<a, b>> \o <<Value(series), comma, Opt({"number_between"}), Opt({":"}), Value({"six"})>>,
         <<a, b>> \o <<Value({"ten", "dashed_document"})>>}
  BY DEF SeriesAndNumber
<1> HIDE DEF comma
<1>3. NumberItem(Value({"six"})) /\ NumberItem(Value({"ten", "dashed_document"}))
  BY ValueNumber DEF NumberClasses
<1>4. NumberEnd(<<a, b>> \o <<Value(series), comma, Opt({"number_between"}), Opt({":"}), Value({"six"})>>)
  BY ONLY Fit(a), Fit(b), <1>1, <1>3, ItemsFit, BehindTwo
<1>5. NumberEnd(<<a, b>> \o <<Value({"ten", "dashed_document"})>>)
  BY ONLY Fit(a), Fit(b), <1>1, <1>3, ItemsFit, BehindTwo
<1> QED
  BY ONLY <1>2, <1>4, <1>5

LEMMA NoIdentityDocuments == ASSUME Blank PROVE IdentityDocuments = {}
<1> DEFINE anySeries == {"four", "series", "series_letters"}
           after(cue, series) == SeriesAndNumber(<<One({cue}), NoDigits(40)>>, series)
           labelled == SeriesAndNumber(After("seriya"), anySeries)
           letters == {<<Value({"series"}), Value({"six"})>>}
           digits == {<<Value({"four"}), Value({"six"})>>}
<1>1. \A cue, series : \A p \in after(cue, series) : NumberEnd(p)
  BY SeriesAndNumberEnd, ItemsFit DEF NoDigits
<1>2. \A p \in labelled : NumberEnd(p)
  BY SeriesAndNumberEnd, ItemsFit DEF After
<1>3. (\A p \in letters : NumberEnd(p)) /\ \A p \in digits : NumberEnd(p)
  BY ONLY ItemsFit, ValueNumber, ShortEnds DEF NumberClasses
<1>4. IdentityDocuments =
        EntitiesAt("driver_license", Places(Hits(after("licence", anySeries))), 76)
        \cup EntitiesAt("passport", Places(Hits(after("passport", {"four", "series"}))), 74)
        \cup TypedDocuments(labelled, "licence", 73)
        \cup TypedDocuments(letters, "licence", 45) \cup TypedDocuments(digits, "licence", 45)
  BY Zenon DEF IdentityDocuments
<1> HIDE DEF after, labelled, letters, digits, anySeries
<1>5. Hits(after("licence", anySeries)) = {} /\ Hits(after("passport", {"four", "series"})) = {}
  BY <1>1, NoHits DEF Blank
<1>6. /\ EntitiesAt("driver_license", Places(Hits(after("licence", anySeries))), 76) = {}
      /\ EntitiesAt("passport", Places(Hits(after("passport", {"four", "series"}))), 74) = {}
  BY <1>5, NothingAt
<1>7. /\ TypedDocuments(labelled, "licence", 73) = {}
      /\ TypedDocuments(letters, "licence", 45) = {} /\ TypedDocuments(digits, "licence", 45) = {}
  BY <1>2, <1>3, NoTypedDocuments
<1> QED
  BY ONLY <1>4, <1>6, <1>7

LEMMA NoExtraDocuments == ASSUME Blank PROVE ExtraDocuments = {}
<1> DEFINE snils(i) == Has(i, "snils") /\ (CueBefore(From[i], "snils_cue", 40) \/ Has(i, "snils_valid"))
           all == {i \in 1 .. Size : snils(i)}
           abroad == <<One({"abroad"}), NoDigits(30), Value({"two"}), Value({"seven"})>>
           military == <<One({"military"}), NoDigits(20), Value({"letters2"}), Value({"seven"})>>
           birth == <<One({"birth_certificate"}), Gap({}, 20), Value({"roman"}), Value({"letters2"}), Value({"six"})>>
<1>1. all = {}
  BY NotNumber DEF Blank, Has, IsA, NumberClasses
<1>2. NumberEnd(abroad) /\ NumberEnd(military)
  BY ONLY ItemsFit, ValueNumber, LongerEnds DEF NumberClasses, NoDigits
<1>3. NumberEnd(birth)
  BY ONLY ItemsFit, ValueNumber, LongerEnds DEF NumberClasses
<1>4. ExtraDocuments = EntitiesAt("snils", {{i} : i \in all}, 68) \cup Found("foreign_passport", abroad, 78)
                       \cup Found("military_id", military, 78) \cup Found("birth_certificate", birth, 78)
  BY Zenon DEF ExtraDocuments
<1> HIDE DEF all, abroad, military, birth
<1>5. {{i} : i \in all} = {}
  BY <1>1
<1>6. EntitiesAt("snils", {{i} : i \in all}, 68) = {}
  BY ONLY <1>5, NothingAt
<1>7. /\ Found("foreign_passport", abroad, 78) = {} /\ Found("military_id", military, 78) = {}
      /\ Found("birth_certificate", birth, 78) = {}
  BY <1>2, <1>3, NothingFound
<1> QED
  BY ONLY <1>4, <1>6, <1>7

LEMMA NoDates == ASSUME Blank PROVE Dates = {}
<1> DEFINE date == <<Value({"date"})>>
           words == <<Value({"day"}), Value({"month_text"})>>
           month == <<Value({"month_text"})>>
           dates(p, shift) == UNION {DateEntity(h[1], h[3] - 1, shift) : h \in Hits({p})}
<1>1. NumberEnd(date) /\ NumberEnd(words) /\ NumberEnd(month)
  BY ONLY ItemsFit, ValueNumber, ShortEnds DEF NumberClasses
<1>2. Dates = dates(date, 0) \cup dates(words, 0) \cup dates(month, -5)
  BY Zenon DEF Dates
<1> HIDE DEF date, words, month
<1>3. Hits({date}) = {} /\ Hits({words}) = {} /\ Hits({month}) = {}
  BY <1>1, NothingFound
<1>4. dates(date, 0) = {} /\ dates(words, 0) = {} /\ dates(month, -5) = {}
  BY ONLY <1>3
<1> QED
  BY ONLY <1>2, <1>4

-----------------------------------------------------------------------------
(* What make_entity makes: of lexemes of the text, from the first of them   *)
(* to the last, with its dot or without.                                    *)
Requirements == {{}, {"card_number"}, {"passport", "passport_issuer"}, PersonTypes}

Made(e) ==
    /\ e.hidden \in (SUBSET (1 .. Size)) \ {{}}
    /\ e.priority \in 0 .. 100 /\ e.requires \in Requirements
    /\ e.end \in {To(Max(e.hidden)), Letters(Max(e.hidden))}
    /\ e = [type |-> e.type, hidden |-> e.hidden, start |-> From[Min(e.hidden)], end |-> e.end,
            priority |-> e.priority, requires |-> e.requires]

(* All that is found is made so, and of the types ts. *)
OfTypes(es, ts) == \A e \in es : e.type \in ts /\ Made(e)

(* The priorities that the detectors give. *)
Rank(p) == p \in 0 .. 100

LEMMA Ranks ==
    /\ Rank(30) /\ Rank(35) /\ Rank(40) /\ Rank(42) /\ Rank(44) /\ Rank(45) /\ Rank(46) /\ Rank(50)
    /\ Rank(55) /\ Rank(58) /\ Rank(60) /\ Rank(62) /\ Rank(64) /\ Rank(65) /\ Rank(66) /\ Rank(67)
    /\ Rank(68) /\ Rank(69) /\ Rank(70) /\ Rank(72) /\ Rank(73) /\ Rank(74) /\ Rank(76) /\ Rank(77)
    /\ Rank(78) /\ Rank(79) /\ Rank(80) /\ Rank(82) /\ Rank(85) /\ Rank(86) /\ Rank(90)
  BY DEF Rank

(* What make_entity makes has the type it is asked for, a beginning and an *)
(* end.                                                                    *)
LEMMA EntityToTypes ==
    ASSUME NEW t, NEW h, NEW dot, NEW p, NEW r, Rank(p), r \in Requirements
    PROVE  OfTypes(EntityTo(t, h, dot, p, r), {t})
<1> SUFFICES ASSUME NEW e \in EntityTo(t, h, dot, p, r) PROVE e.type \in {t} /\ Made(e)
  BY DEF OfTypes
<1>1. /\ h \in (SUBSET (1 .. Size)) \ {{}}
      /\ e = [type |-> t, hidden |-> h, start |-> From[Min(h)],
              end |-> IF dot THEN To(Max(h)) ELSE Letters(Max(h)), priority |-> p, requires |-> r]
  BY DEF EntityTo
<1> QED
  BY <1>1 DEF Made, Rank

(* What lexemes an entity hides. *)
LEMMA EntityHides ==
    /\ \A t, h, dot, p, r : \A e \in EntityTo(t, h, dot, p, r) : e.hidden = h /\ h \subseteq 1 .. Size
    /\ \A t, h, p, r : \A e \in Entity(t, h, p, r) : e.hidden = h /\ h \subseteq 1 .. Size
  BY DEF EntityTo, Entity

LEMMA Requirable ==
    {} \in Requirements /\ {"card_number"} \in Requirements /\ {"passport", "passport_issuer"} \in Requirements
    /\ PersonTypes \in Requirements
  BY DEF Requirements

LEMMA EntityTypes ==
    \A t, h, p, r : Rank(p) /\ r \in Requirements => OfTypes(Entity(t, h, p, r), {t})
  BY EntityToTypes DEF Entity

LEMMA WeakTypes ==
    \A t, h, p, r : Rank(p) /\ r \in Requirements => OfTypes(WeakAt(t, h, p, r), {t})
<1> SUFFICES ASSUME NEW t, NEW h, NEW p, NEW r, Rank(p), r \in Requirements,
                    NEW g \in h, NEW e \in Entity(t, g, p, r)
             PROVE  e.type \in {t} /\ Made(e)
  BY DEF WeakAt, OfTypes
<1>1. OfTypes(Entity(t, g, p, r), {t})
  BY EntityTypes
<1> QED
  BY <1>1 DEF OfTypes

LEMMA AtTypes ==
    \A t, h, p : Rank(p) => OfTypes(EntitiesAt(t, h, p), {t})
  BY WeakTypes, Requirable DEF EntitiesAt

LEMMA WeakFoundTypes ==
    \A t, h, p, r : Rank(p) /\ r \in Requirements => OfTypes(WeakFound(t, h, p, r), {t})
  BY WeakTypes DEF WeakFound

LEMMA FoundTypes ==
    \A t, h, p : Rank(p) => OfTypes(Found(t, h, p), {t})
  BY WeakFoundTypes, Requirable DEF Found

(* Fewer types are among more. *)
LEMMA MoreTypes ==
    ASSUME NEW es, NEW ss, NEW ts, OfTypes(es, ss), ss \subseteq ts
    PROVE  OfTypes(es, ts)
  BY DEF OfTypes

(* What a text that is one value may be. *)
ValueTypes == {"cvv", "pin", "card_expiry", "date", "passport", "driver_license", "department_code",
               "address", "inn", "card_number", "card_holder", "citizenship", "passport_issuer",
               "phone", "email", "fio"}

LEMMA StandaloneTypes == OfTypes(Standalone, ValueTypes)
<1>1. OfTypes(Standalone, DOMAIN Checks)
  <2> SUFFICES ASSUME NEW t \in DOMAIN Checks, NEW e \in Entity(t, 1 .. ValueEnd, 90, {})
               PROVE  e.type \in DOMAIN Checks /\ Made(e)
    BY DEF Standalone, OfTypes
  <2>1. OfTypes(Entity(t, 1 .. ValueEnd, 90, {}), {t})
    BY ONLY EntityTypes, Ranks, Requirable
  <2> QED
    BY <2>1 DEF OfTypes
<1>2. DOMAIN Checks = ValueTypes
  BY DEF Checks, ValueTypes
<1> QED
  BY ONLY <1>1, <1>2

LEMMA CardTypes == OfTypes(Cards, {"card_number", "cvv", "pin", "card_expiry"})
<1>1. OfTypes(BareExpiry, {"card_expiry"})
  BY Ranks, Requirable, WeakFoundTypes DEF BareExpiry
<1> DEFINE until == Marked("until") \o <<Value({"month_year"})>>
           pin == <<One({"pin"}), Opt({"code_word"}), Opt({"from"}), Opt({"of_card"}), Opt({":"}),
                    Value({"four", "six"})>>
           cvv == <<One({"cvv"}), Opt({"code_word"}), Opt({":"}), Value({"three", "four"})>>
           expiry == <<One({"expiry_label"}), Opt({"of_card"}), Opt({":", "."}), Value({"month_year"})>>
           card(i) == Has(i, "card") /\ (Has(i, "luhn") \/ CueBefore(From[i], "card_cue", 40))
           cards == {i \in 1 .. Size : card(i)}
           undiscounted == {h \in Hits({until}) : ~CueBefore(From[h[1]], "discount", 40)}
<1>2. Cards = EntitiesAt("card_number", {{i} : i \in cards}, 82) \cup Found("cvv", cvv, 85)
              \cup Found("pin", pin, 85) \cup Found("card_expiry", expiry, 80)
              \cup EntitiesAt("card_expiry", Places(undiscounted), 78) \cup BareExpiry
  BY ZenonT(30) DEF Cards
<1> HIDE DEF pin, cvv, expiry, cards, undiscounted
<1>3. /\ OfTypes(EntitiesAt("card_number", {{i} : i \in cards}, 82), {"card_number"})
      /\ OfTypes(EntitiesAt("card_expiry", Places(undiscounted), 78), {"card_expiry"})
  BY ONLY Ranks, AtTypes
<1>4. /\ OfTypes(Found("cvv", cvv, 85), {"cvv"}) /\ OfTypes(Found("pin", pin, 85), {"pin"})
      /\ OfTypes(Found("card_expiry", expiry, 80), {"card_expiry"})
  BY ONLY Ranks, FoundTypes
<1> DEFINE a == EntitiesAt("card_number", {{i} : i \in cards}, 82)
           b == Found("cvv", cvv, 85)
           c == Found("pin", pin, 85)
           d == Found("card_expiry", expiry, 80)
           e == EntitiesAt("card_expiry", Places(undiscounted), 78)
<1>5. Cards = a \cup b \cup c \cup d \cup e \cup BareExpiry
  BY ONLY <1>2, Zenon
<1>6. /\ OfTypes(a, {"card_number"}) /\ OfTypes(b, {"cvv"}) /\ OfTypes(c, {"pin"})
      /\ OfTypes(d, {"card_expiry"}) /\ OfTypes(e, {"card_expiry"})
  BY <1>3, <1>4
<1> HIDE DEF a, b, c, d, e
<1> QED
  BY ONLY <1>1, <1>5, <1>6 DEF OfTypes

LEMMA ContactTypes == OfTypes(Contacts, {"email", "phone"})
<1> DEFINE numbers(p) == {n \in Places(Hits({p})) : \A i \in n : ~Has(i, "org_phone")}
           email == <<Value({"email"})>>
           bare == numbers(<<Value({"phone"})>>)
           labelled == numbers(Marked("phone_cue") \o <<Value({"seven", "ten"})>>)
<1>1. Contacts = Found("email", email, 90) \cup EntitiesAt("phone", bare, 65) \cup EntitiesAt("phone", labelled, 64)
  BY Zenon DEF Contacts
<1> HIDE DEF email, bare, labelled
<1>2. /\ OfTypes(Found("email", email, 90), {"email"})
      /\ OfTypes(EntitiesAt("phone", bare, 65), {"phone"})
      /\ OfTypes(EntitiesAt("phone", labelled, 64), {"phone"})
  BY ONLY Ranks, AtTypes, FoundTypes
<1> QED
  BY ONLY <1>1, <1>2 DEF OfTypes

LEMMA InnTypes == OfTypes(Inns, {"inn"})
  BY Ranks, AtTypes, FoundTypes DEF OfTypes, Inns, ClientInn

LEMMA IdTypes == OfTypes(IdentityDocuments, {"passport", "driver_license"})
  BY Ranks, AtTypes, FoundTypes DEF OfTypes, IdentityDocuments, TypedDocuments

LEMMA ExtraTypes == OfTypes(ExtraDocuments, {"snils", "foreign_passport", "military_id", "birth_certificate"})
  BY Ranks, AtTypes, FoundTypes DEF OfTypes, ExtraDocuments

LEMMA DateTypes == OfTypes(Dates, {"birth_date", "passport_issue_date", "date"})
<1> DEFINE ts == {"birth_date", "passport_issue_date", "date"}
<1>1. ASSUME NEW s \in {0, -5}, NEW a, NEW b PROVE OfTypes(DateEntity(a, b, s), ts)
  <2>1. Rank(64 + s) /\ Rank(35 + s)
    BY DEF Rank
  <2>2. \A h : /\ OfTypes(WeakAt("birth_date", h, 64 + s, {}), {"birth_date"})
               /\ OfTypes(WeakAt("passport_issue_date", h, 64 + s, {}), {"passport_issue_date"})
               /\ OfTypes(WeakAt("date", h, 35 + s, PersonTypes), {"date"})
    BY ONLY <2>1, WeakTypes, Requirable
  <2>3. \/ DateEntity(a, b, s) = {}
        \/ DateEntity(a, b, s) = WeakAt("birth_date", {a .. b}, 64 + s, {})
        \/ DateEntity(a, b, s) = WeakAt("passport_issue_date", {a .. b}, 64 + s, {})
        \/ DateEntity(a, b, s) = WeakAt("date", {a .. b}, 35 + s, PersonTypes)
    BY DEF DateEntity
  <2> QED
    BY ONLY <2>2, <2>3 DEF OfTypes
<1> DEFINE dates(p, s) == UNION {DateEntity(h[1], h[3] - 1, s) : h \in Hits({p})}
           date == <<Value({"date"})>>
           words == <<Value({"day"}), Value({"month_text"})>>
           month == <<Value({"month_text"})>>
<1>2. Dates = dates(date, 0) \cup dates(words, 0) \cup dates(month, -5)
  BY Zenon DEF Dates
<1> HIDE DEF date, words, month, ts
<1>3. OfTypes(dates(date, 0), ts) /\ OfTypes(dates(words, 0), ts) /\ OfTypes(dates(month, -5), ts)
  BY ONLY <1>1 DEF OfTypes
<1> HIDE DEF dates
<1>4. OfTypes(Dates, ts)
  BY ONLY <1>2, <1>3 DEF OfTypes
<1> QED
  BY ONLY <1>4 DEF ts

LEMMA IssuanceTypes == OfTypes(Issuance, {"department_code", "passport_issuer", "citizenship", "birth_place"})
<1>1. OfTypes(Issuers, {"passport_issuer"})
  BY Ranks, AtTypes DEF Issuers
<1>2. OfTypes(BirthPlaces, {"birth_place"})
  BY Ranks, AtTypes DEF BirthPlaces
<1> DEFINE labelled == After("dept_label") \o <<Value({"dept", "six"})>>
           bare == <<Value({"dept"})>>
           citizen == After("citizen") \o <<Value({"citizen_of"})>>
           company == {"passport", "passport_issuer"}
<1>3. Issuance = Found("department_code", labelled, 72) \cup WeakFound("department_code", bare, 30, company)
                 \cup Issuers \cup Found("citizenship", citizen, 70) \cup BirthPlaces
  BY Zenon DEF Issuance
<1>a. company \in Requirements
  BY Requirable
<1> HIDE DEF labelled, bare, citizen, company
<1>4. /\ OfTypes(Found("department_code", labelled, 72), {"department_code"})
      /\ OfTypes(Found("citizenship", citizen, 70), {"citizenship"})
  BY ONLY Ranks, FoundTypes
<1>5. OfTypes(WeakFound("department_code", bare, 30, company), {"department_code"})
  BY ONLY <1>a, Ranks, WeakFoundTypes
<1> QED
  BY ONLY <1>1, <1>2, <1>3, <1>4, <1>5 DEF OfTypes

LEMMA NameTypes ==
    \A a, b, p : Rank(p) => OfTypes(NameEntity(a, b, p), {"fio"})
  BY EntityToTypes, Requirable DEF NameEntity

LEMMA HolderTypes == OfTypes(HolderEntities, {"card_holder"})
<1>1. \A hs, ls : OfTypes(EntitiesAt("card_holder", hs, 80) \cup WeakAt("card_holder", ls, 55, {"card_number"}),
                          {"card_holder"})
  BY Ranks, Requirable, AtTypes, WeakTypes DEF OfTypes
<1> QED
  BY ONLY <1>1, Zenon DEF HolderEntities

LEMMA FioTypes == OfTypes(FioEntities, {"fio", "card_holder"})
<1>1. \A c \in ByMorphology \cup ByInitials \cup ByCue : Rank(c.priority)
  <2>1. \A c \in ByMorphology : \E a, b, d : c = Core(a, b, d, 60)
    BY Zenon DEF ByMorphology
  <2>2. \A c \in ByInitials : \E a, b, d : c = Core(a, b, d, 62)
    BY Zenon DEF ByInitials
  <2>3. \A c \in ByCue : \E a, b, d : c = Core(a, b, d, 58)
    BY Zenon DEF ByCue
  <2>4. \A a, b, d : /\ Rank(Core(a, b, d, 60).priority) /\ Rank(Core(a, b, d, 62).priority)
                     /\ Rank(Core(a, b, d, 58).priority)
    BY Ranks DEF Core
  <2> QED
    BY ONLY <2>1, <2>2, <2>3, <2>4
<1>2. ASSUME NEW e \in FioEntities, e \notin HolderEntities PROVE e.type = "fio" /\ Made(e)
  <2>1. PICK c \in ByMorphology \cup ByInitials \cup ByCue : e \in NameEntity(c.first, c.last, c.priority)
    BY <1>2 DEF FioEntities
  <2>2. OfTypes(NameEntity(c.first, c.last, c.priority), {"fio"})
    BY ONLY <1>1, NameTypes
  <2> QED
    BY ONLY <2>1, <2>2 DEF OfTypes
<1> QED
  BY <1>2, HolderTypes DEF OfTypes

LEMMA AddressTypes == OfTypes(AddressEntities, {"address"})
  BY Ranks, AtTypes DEF AddressEntities, AddressesAmong

LEMMA LabelledTypes ==
     /\ OfTypes(LabelledDocuments, {"passport", "driver_license"})
     /\ OfTypes(LabelledDates, {"birth_date", "passport_issue_date"})
     /\ OfTypes(LabelledNames, {"fio"})
     /\ OfTypes(ClientNames, {"fio"})
     /\ OfTypes(WholeName, {"fio"})
     /\ OfTypes(LabelledCitizenship, {"citizenship"})
<1>1. OfTypes(LabelledDocuments, {"passport", "driver_license"})
  <2>1. ASSUME NEW ps PROVE OfTypes(TypedDocuments(ps, "licence_label", 45), {"passport", "driver_license"})
    BY Ranks, AtTypes DEF OfTypes, TypedDocuments
  <2>2. PICK ps, qs :
           LabelledDocuments = TypedDocuments(ps, "licence_label", 45) \cup TypedDocuments(qs, "licence_label", 45)
    BY Zenon DEF LabelledDocuments
  <2> QED
    BY ONLY <2>1, <2>2 DEF OfTypes
<1>2. OfTypes(LabelledDates, {"birth_date", "passport_issue_date"})
  BY Ranks, AtTypes DEF OfTypes, LabelledDates
<1>3. OfTypes(LabelledNames, {"fio"})
  BY Ranks, AtTypes DEF LabelledNames
<1>4. OfTypes(ClientNames, {"fio"})
  <2>1. \A e \in ClientNames : \E h : e \in EntityTo("fio", h, TRUE, 45, {}) \/ e \in Entity("fio", h, 45, {})
    BY Zenon DEF ClientNames
  <2>2. \A h : OfTypes(EntityTo("fio", h, TRUE, 45, {}), {"fio"}) /\ OfTypes(Entity("fio", h, 45, {}), {"fio"})
    BY ONLY EntityToTypes, EntityTypes, Ranks, Requirable
  <2> QED
    BY ONLY <2>1, <2>2 DEF OfTypes
<1>5. OfTypes(WholeName, {"fio"})
  <2>1. \E h : WholeName \subseteq EntityTo("fio", h, TRUE, 45, {})
    BY DEF WholeName
  <2>2. \A h : OfTypes(EntityTo("fio", h, TRUE, 45, {}), {"fio"})
    BY ONLY EntityToTypes, Ranks, Requirable
  <2> QED
    BY ONLY <2>1, <2>2 DEF OfTypes
<1>6. OfTypes(LabelledCitizenship, {"citizenship"})
  BY Ranks, FoundTypes DEF LabelledCitizenship
<1> QED
  BY ONLY <1>1, <1>2, <1>3, <1>4, <1>5, <1>6

LEMMA ContextTypes ==
     /\ OfTypes(Secrets, {"pin", "cvv", "card_number"})
     /\ OfTypes(LabelledNumbers, {"inn", "passport", "department_code"})
     /\ OfTypes(LabelledIssuers, {"passport_issuer"})
     /\ OfTypes(RoleNames, {"fio"})
     /\ OfTypes(BareNames, {"fio"})
     /\ OfTypes(BareAddressEntities, {"address"})
<1>1. OfTypes(Secrets, {"pin", "cvv", "card_number"})
  <2>1. OfTypes(CardAndCode, {"pin", "cvv", "card_number"})
    <3>1. PICK a, b, c : CardAndCode = EntitiesAt("card_number", a, 86)
                                \cup EntitiesAt("cvv", b, 86) \cup EntitiesAt("pin", c, 86)
      BY DEF CardAndCode
    <3> QED
      BY ONLY <3>1, Ranks, AtTypes DEF OfTypes
  <2> QED
    BY ONLY <2>1, Ranks, AtTypes, FoundTypes DEF OfTypes, Secrets
<1>2. OfTypes(LabelledNumbers, {"inn", "passport", "department_code"})
  <2>1. \A b, v : OfTypes(ClientInn(b, v, 79), {"inn"})
    BY Ranks, AtTypes DEF ClientInn
  <2> QED
    <3>1. OfTypes(WholeNumbers, {"inn", "passport"})
      <4>1. PICK a, b : WholeNumbers = EntitiesAt("inn", a, 79) \cup EntitiesAt("passport", b, 79)
        BY Zenon DEF WholeNumbers
      <4> QED
        BY ONLY <4>1, Ranks, AtTypes DEF OfTypes
    <3>2. PICK a, v, b, c :
             LabelledNumbers = ((ClientInn(a, v, 79) \cup WholeNumbers) \cup EntitiesAt("passport", b, 44))
                               \cup Found("department_code", c, 79)
      BY Zenon DEF LabelledNumbers
    <3>3. /\ OfTypes(ClientInn(a, v, 79), {"inn"})
          /\ OfTypes(EntitiesAt("passport", b, 44), {"passport"})
          /\ OfTypes(Found("department_code", c, 79), {"department_code"})
      BY ONLY <2>1, Ranks, AtTypes, FoundTypes
    <3> QED
      BY ONLY <3>1, <3>2, <3>3 DEF OfTypes
<1>3. OfTypes(LabelledIssuers, {"passport_issuer"})
  BY Ranks, AtTypes DEF LabelledIssuers
<1>4. OfTypes(RoleNames, {"fio"})
  <2>1. \A e \in RoleNames : \E a, b : e \in NameEntity(a, b, 67)
    BY Zenon DEF RoleNames
  <2>2. \A a, b : OfTypes(NameEntity(a, b, 67), {"fio"})
    BY ONLY NameTypes, Ranks
  <2> QED
    BY ONLY <2>1, <2>2 DEF OfTypes
<1>5. OfTypes(BareNames, {"fio"})
  <2>1. \A e \in BareNames : \E h : e \in EntitiesAt("fio", h, 46)
    BY Zenon DEF BareNames
  <2>2. \A h : OfTypes(EntitiesAt("fio", h, 46), {"fio"})
    BY ONLY Ranks, AtTypes
  <2> QED
    BY ONLY <2>1, <2>2 DEF OfTypes
<1>6. OfTypes(BareAddressEntities, {"address"})
  BY Ranks, AtTypes DEF BareAddressEntities
<1> QED
  BY ONLY <1>1, <1>2, <1>3, <1>4, <1>5, <1>6

LEMMA DeclaredTypesOf ==
    /\ DeclaredTypes["Standalone"] = ValueTypes
    /\ DeclaredTypes["Contact"] = {"email", "phone"}
    /\ DeclaredTypes["Card"] = {"card_number", "cvv", "pin", "card_expiry"}
    /\ DeclaredTypes["Inn"] = {"inn"}
    /\ DeclaredTypes["IdentityDocument"] = {"passport", "driver_license"}
    /\ DeclaredTypes["Issuance"] = {"department_code", "passport_issuer", "citizenship", "birth_place"}
    /\ DeclaredTypes["ExtraDocument"] = {"snils", "foreign_passport", "military_id", "birth_certificate"}
    /\ DeclaredTypes["Date"] = {"birth_date", "passport_issue_date", "date"}
    /\ DeclaredTypes["Fio"] = {"fio", "card_holder"}
    /\ DeclaredTypes["Address"] = {"address"}
    /\ DeclaredTypes["LabelledValue"] = {"passport", "driver_license", "birth_date", "passport_issue_date", "fio",
                            "citizenship"}
    /\ DeclaredTypes["ContextValue"] = {"pin", "cvv", "card_number", "inn", "passport", "department_code",
                            "passport_issuer", "fio", "address"}
  BY DEF DeclaredTypes, ValueTypes

LEMMA RegistryOf ==
    Range(Registry) = {"Standalone", "Contact", "Card", "Inn", "IdentityDocument", "Issuance",
                "ExtraDocument", "Date", "Fio", "Address", "LabelledValue", "ContextValue"}
  BY DEF Range, Registry

(* The types a detector declares (entity_types) are those of what it yields. *)
LEMMA DetectedTypes ==
    ASSUME NEW d \in Range(Registry)
    PROVE  OfTypes(DetectedBy(d), DeclaredTypes[d])
<1> USE DeclaredTypesOf DEF DetectedBy
<1>1. CASE d = "Standalone" BY <1>1, StandaloneTypes
<1>2. CASE d = "Contact" BY <1>2, ContactTypes
<1>3. CASE d = "Card" BY <1>3, CardTypes
<1>4. CASE d = "Inn" BY <1>4, InnTypes
<1>5. CASE d = "IdentityDocument" BY <1>5, IdTypes
<1>6. CASE d = "Issuance" BY <1>6, IssuanceTypes
<1>7. CASE d = "ExtraDocument" BY <1>7, ExtraTypes
<1>8. CASE d = "Date" BY <1>8, DateTypes
<1>9. CASE d = "Fio" BY <1>9, FioTypes
<1>10. CASE d = "Address" BY <1>10, AddressTypes
<1>11. CASE d = "LabelledValue" BY <1>11, LabelledTypes DEF OfTypes
<1>12. CASE d = "ContextValue" BY <1>12, ContextTypes DEF OfTypes
<1> QED
  BY ONLY <1>1, <1>2, <1>3, <1>4, <1>5, <1>6, <1>7, <1>8, <1>9, <1>10, <1>11, <1>12, RegistryOf

(* needs_digits. *)
LEMMA NothingWithoutDigits ==
    ASSUME Blank, NEW d \in NeedsDigits
    PROVE  DetectedBy(d) = {}
<1> USE DEF DetectedBy
<1>1. CASE d = "Card" BY <1>1, NoCards
<1>2. CASE d = "Inn" BY <1>2, NoInns
<1>3. CASE d = "IdentityDocument" BY <1>3, NoIdentityDocuments
<1>4. CASE d = "ExtraDocument" BY <1>4, NoExtraDocuments
<1>5. CASE d = "Date" BY <1>5, NoDates
<1> QED
  BY <1>1, <1>2, <1>3, <1>4, <1>5 DEF NeedsDigits

(* What detect skips would not have found anything the policy asks for. *)
LEMMA SkippedFindsNothing ==
    ASSUME text \in Seq(Lexemes)
    PROVE  SkippingLosesNothing
<1> SUFFICES ASSUME NEW d \in Range(Registry), ~Applicable(d, policy.types),
                    NEW e \in DetectedBy(d)
             PROVE  e.type \notin policy.types
  BY DEF SkippingLosesNothing
<1>1. CASE DeclaredTypes[d] \cap policy.types = {}
  BY <1>1, DetectedTypes DEF OfTypes
<1>2. CASE d \in NeedsDigits /\ NoDigit
  BY <1>2, NothingWithoutDigits DEF Blank
<1> QED
  BY <1>1, <1>2 DEF Applicable, NoDigit

(* For any lexicon, policy and text: what engine.detect skips (base.py,     *)
(* applicable) finds nothing that the policy asks for.                      *)
THEOREM SkippingCorrect == TextSpec => []SkippingLosesNothing
<1> DEFINE Inv == text \in Seq(Lexemes)
<1>1. TextInit => Inv
  BY DEF TextInit
<1>2. Inv /\ [TextNext]_vars => Inv'
  BY DEF TextNext, DetectText, vars
<1>3. Inv => SkippingLosesNothing
  BY SkippedFindsNothing
<1> QED
  BY <1>1, <1>2, <1>3, PTL DEF TextSpec

-----------------------------------------------------------------------------
(* make_entity never makes an empty interval. *)
LEMMA MadeIsEntity ==
    ASSUME text \in Seq(Lexemes), NEW e, Made(e)
    PROVE  IsEntity(e)
<1> DEFINE h == e.hidden
<1>1. h \in SUBSET (1 .. Size) /\ h # {} /\ e.priority \in Nat
      /\ e.end \in {To(Max(h)), Letters(Max(h))}
  <2>1. h \in (SUBSET (1 .. Size)) \ {{}} /\ e.priority \in 0 .. 100
        /\ e.end \in {To(Max(h)), Letters(Max(h))}
    BY Zenon DEF Made
  <2>2. h # {}
    BY ONLY <2>1, Zenon
  <2>3. e.priority \in Nat
    BY ONLY <2>1
  <2>4. h \in SUBSET (1 .. Size)
    BY ONLY <2>1, Zenon
  <2> QED
    BY ONLY <2>1, <2>2, <2>3, <2>4, Zenon
<1>2. e.start = From[Min(h)]
  <2>1. e = [type |-> e.type, hidden |-> e.hidden, start |-> From[Min(e.hidden)], end |-> e.end,
             priority |-> e.priority, requires |-> e.requires]
    BY DEF Made
  <2> QED
    BY <2>1
<1> HIDE DEF h
<1>3. /\ Max(h) \in 1 .. Size /\ Min(h) \in 1 .. Size /\ Min(h) <= Max(h)
  <2>1. h \in SUBSET Nat /\ (\A n \in h : n <= Size) /\ Size \in Nat
    BY <1>1, Positions
  <2>2. Max(h) \in h /\ Min(h) \in h /\ \A n \in h : Min(h) <= n
    BY <1>1, <2>1, Extremes
  <2> QED
    BY <1>1, <2>2
<1>4. /\ From[Min(h)] \in Nat /\ From[Max(h)] \in Nat /\ To(Min(h)) \in Nat /\ From[Min(h)] < To(Min(h))
      /\ To(Max(h)) \in Nat /\ Letters(Max(h)) \in Nat
      /\ From[Max(h)] < Letters(Max(h)) /\ Letters(Max(h)) <= To(Max(h))
  BY <1>3, Positions
<1>5. From[Min(h)] <= From[Max(h)]
  <2>1. CASE Min(h) = Max(h)
    BY <1>4, <2>1
  <2>2. CASE Min(h) # Max(h)
    <3>1. To(Min(h)) <= From[Max(h)]
      BY <1>3, <2>2, Positions
    <3> QED
      BY <1>4, <3>1
  <2> QED
    BY <2>1, <2>2
<1> QED
  BY <1>1, <1>2, <1>4, <1>5 DEF IsEntity

-----------------------------------------------------------------------------
(* There are finitely many types. *)
TypeList == <<"card_number", "cvv", "pin", "card_expiry", "card_holder", "date", "birth_date",
              "passport_issue_date", "passport", "driver_license", "department_code", "passport_issuer",
              "citizenship", "birth_place", "address", "inn", "phone", "email", "fio", "snils",
              "foreign_passport", "military_id", "birth_certificate">>

TypeNames == {TypeList[i] : i \in 1 .. 23}

(* The types that a detector declares are finitely many.                   *)
LEMMA FiniteTypes ==
    ASSUME NEW d \in Range(Registry)
    PROVE  IsFiniteSet(DeclaredTypes[d])
<1>1. IsFiniteSet(TypeNames)
  <2> DEFINE f == [i \in 1 .. 23 |-> TypeList[i]]
  <2>1. f \in Surjection(1 .. 23, TypeNames)
    <3>1. \A i \in 1 .. 23 : f[i] = TypeList[i]
      OBVIOUS
    <3>2. f = [i \in 1 .. 23 |-> f[i]]
      BY <3>1
    <3> HIDE DEF f
    <3> QED
      BY <3>1, <3>2 DEF TypeNames, Surjection
  <2>2. IsFiniteSet(1 .. 23)
    <3>1. 1 \in Int /\ 23 \in Int
      OBVIOUS
    <3> QED
      BY ONLY <3>1, FS_Interval
  <2> QED
    BY <2>1, <2>2, FS_Surjection
<1>2. {"card_number", "cvv", "pin", "card_expiry", "card_holder", "date", "birth_date",
       "passport_issue_date", "passport", "driver_license", "department_code", "passport_issuer",
       "citizenship", "birth_place", "address", "inn", "phone", "email", "fio", "snils",
       "foreign_passport", "military_id", "birth_certificate"} \subseteq TypeNames
  BY DEF TypeNames, TypeList
<1>3. DeclaredTypes[d] \subseteq TypeNames
  <2> HIDE DEF TypeNames
  <2> QED
    BY ONLY <1>2, DeclaredTypesOf, RegistryOf, d \in Range(Registry) DEF ValueTypes
<1> QED
  BY <1>1, <1>3, FS_Subset

(* What a detector finds in a text is finitely much. *)
LEMMA FinitelyMade ==
    ASSUME Size \in Nat, NEW es, NEW ts, IsFiniteSet(ts), OfTypes(es, ts)
    PROVE  IsFiniteSet(es)
<1> DEFINE H == SUBSET (1 .. Size)
           P == 0 .. 100
           A == ((ts \X H) \X P) \X (Requirements \X BOOLEAN)
           make(t, h, p, r, b) == [type |-> t, hidden |-> h, start |-> From[Min(h)],
                     end |-> IF b THEN To(Max(h)) ELSE Letters(Max(h)), priority |-> p, requires |-> r]
           f == [a \in A |-> make(a[1][1][1], a[1][1][2], a[1][2], a[2][1], a[2][2])]
           B == {f[a] : a \in A}
<1>1. IsFiniteSet(A)
  <2>1. IsFiniteSet(H) /\ IsFiniteSet(P)
    <3>1. 0 \in Int /\ 1 \in Int /\ 100 \in Int /\ Size \in Int
      OBVIOUS
    <3>2. IsFiniteSet(0 .. 100) /\ IsFiniteSet(1 .. Size)
      BY ONLY <3>1, FS_Interval
    <3> QED
      BY ONLY <3>2, FS_SUBSET
  <2>2. IsFiniteSet(Requirements) /\ IsFiniteSet(BOOLEAN)
    <3>1. \A x : IsFiniteSet({x})
      BY FS_Singleton
    <3>2. Requirements = {{}} \cup {{"card_number"}} \cup {{"passport", "passport_issuer"}} \cup {PersonTypes}
      BY DEF Requirements
    <3>3. BOOLEAN = {TRUE} \cup {FALSE}
      OBVIOUS
    <3>4. \A x, y : IsFiniteSet({x} \cup {y})
      BY ONLY <3>1, FS_AddElement
    <3>5. \A x, y, z, u : IsFiniteSet({x} \cup {y} \cup {z} \cup {u})
      BY ONLY <3>4, FS_AddElement
    <3>6. IsFiniteSet(Requirements)
      BY ONLY <3>2, <3>5, Zenon
    <3>7. IsFiniteSet(BOOLEAN)
      BY ONLY <3>3, <3>4, Zenon
    <3> QED
      BY ONLY <3>6, <3>7
  <2> HIDE DEF H, P
  <2> QED
    BY <2>1, <2>2, FS_Product
<1>2. ASSUME NEW e \in es PROVE e \in B
  <2> DEFINE b == e.end = To(Max(e.hidden))
             a == << <<<<e.type, e.hidden>>, e.priority>>, <<e.requires, b>> >>
  <2>1. e.type \in ts /\ Made(e)
    BY DEF OfTypes
  <2>2. b \in BOOLEAN
    OBVIOUS
  <2> HIDE DEF b
  <2>3. a \in A
    BY <2>1, <2>2 DEF Made
  <2>4. f[a] = make(e.type, e.hidden, e.priority, e.requires, b)
    <3> HIDE DEF A, make
    <3> QED
      BY <2>3
  <2>5. e.end = IF b THEN To(Max(e.hidden)) ELSE Letters(Max(e.hidden))
    BY <2>1 DEF Made, b
  <2>6. e = make(e.type, e.hidden, e.priority, e.requires, b)
    BY <2>1, <2>5 DEF Made
  <2> HIDE DEF f, A, a, make
  <2> QED
    BY <2>3, <2>4, <2>6
<1>3. f \in Surjection(A, B)
  <2>1. f = [a \in A |-> f[a]]
    <3> HIDE DEF A, make
    <3> QED
      OBVIOUS
  <2> HIDE DEF f, A
  <2> QED
    BY <2>1 DEF Surjection
<1> HIDE DEF A, B, f
<1>4. IsFiniteSet(B)
  BY <1>1, <1>3, FS_Surjection
<1> QED
  BY <1>2, <1>4, FS_Subset

(* SetToSeq lists what is in a finite set. *)
LEMMA ListedSet ==
    ASSUME NEW S, IsFiniteSet(S)
    PROVE  SetToSeq(S) \in Seq(S)
<1> DEFINE n == Cardinality(S)
<1>1. n \in Nat /\ ExistsBijection(1 .. n, S)
  BY FS_CardinalityType
<1>2. \E f \in [1 .. n -> S] : IsInjective(f)
  BY <1>1, Zenon DEF ExistsBijection, Bijection, Injection
<1>3. SetToSeq(S) \in [1 .. n -> S]
  BY <1>2, Zenon DEF SetToSeq
<1> HIDE DEF n
<1> QED
  BY <1>1, <1>3

(* What a detector yields, as a sequence, is what it detects.              *)
LEMMA ListedIsDetected ==
    ASSUME text \in Seq(Lexemes), NEW d \in Range(Registry), NEW on
    PROVE  Listed(d, on) \in Seq(DetectedBy(d))
<1>1. IsFiniteSet(DetectedBy(d))
  BY Positions, FiniteTypes, FinitelyMade, DetectedTypes
<1> QED
  BY <1>1, ListedSet DEF Listed

(* What is found is found by a detector of the registry. *)
LEMMA FoundIsDetected ==
    ASSUME text \in Seq(Lexemes), NEW on
    PROVE  /\ FoundIn(on) \in Seq(UNION {DetectedBy(d) : d \in Range(Registry)})
<1> DEFINE N == Len(Registry)
           S == Seq(UNION {DetectedBy(d) : d \in Range(Registry)})
           step == [n \in 1 .. N |-> [s \in S |-> s \o Listed(Registry[n], on)]]
           f == CHOOSE y : y = [n \in 0 .. N |-> IF n = 0 THEN <<>> ELSE y[n - 1] \o Listed(Registry[n], on)]
<1>1. FoundIn(on) = f[N]
  BY DEF FoundIn
<1>2. N \in Nat /\ \A n \in 1 .. N : Registry[n] \in Range(Registry)
  <2>1. N = 12 /\ DOMAIN Registry = 1 .. 12
    BY DEF Registry
  <2> QED
    BY <2>1 DEF Range
<1> HIDE DEF N, S
<1>3. \A n \in 1 .. N : Listed(Registry[n], on) \in S
  <2> SUFFICES ASSUME NEW d \in Range(Registry) PROVE Listed(d, on) \in S
    BY <1>2
  <2>1. DetectedBy(d) \subseteq UNION {DetectedBy(c) : c \in Range(Registry)}
    OBVIOUS
  <2>2. Listed(d, on) \in Seq(DetectedBy(d))
    BY ListedIsDetected
  <2> QED
    BY <2>1, <2>2 DEF S
<1>4. StepsIn(S, N, step)
  <2>1. \A n \in 1 .. N, s \in S : s \o Listed(Registry[n], on) \in S
    BY <1>3 DEF S
  <2> QED
    BY <2>1 DEF StepsIn
<1>5. PICK y : Iterates(S, N, <<>>, step, y)
  <2>1. <<>> \in S
    BY DEF S
  <2> HIDE DEF step
  <2> QED
    BY <1>2, <1>4, <2>1, Stepwise, Zenon
<1>6. y = [n \in 0 .. N |-> IF n = 0 THEN <<>> ELSE y[n - 1] \o Listed(Registry[n], on)]
  <2>1. y = [n \in 0 .. N |-> y[n]] /\ y[0] = <<>>
    <3> HIDE DEF step
    <3> QED
      BY <1>5 DEF Iterates
  <2>2. \A n \in 1 .. N : y[n - 1] \in S /\ y[n] = step[n][y[n - 1]]
    <3> HIDE DEF step
    <3> QED
      BY <1>2, <1>5 DEF Iterates
  <2>3. \A n \in 1 .. N : y[n] = y[n - 1] \o Listed(Registry[n], on)
    BY <2>2
  <2>4. \A n \in 0 .. N : n # 0 => n \in 1 .. N
    BY <1>2
  <2>5. \A n \in 0 .. N : y[n] = IF n = 0 THEN <<>> ELSE y[n - 1] \o Listed(Registry[n], on)
    BY ONLY <2>1, <2>3, <2>4
  <2> QED
    BY ONLY <2>1, <2>5
<1>7. f = [n \in 0 .. N |-> IF n = 0 THEN <<>> ELSE f[n - 1] \o Listed(Registry[n], on)]
  BY <1>6
<1> HIDE DEF f, step
<1> DEFINE T == {n \in 0 .. N : f[n] \in S}
<1>8. 0 .. N \subseteq T
  <2>1. 0 \in T
    BY <1>2, <1>7 DEF S
  <2>2. ASSUME NEW n \in 1 .. N, n - 1 \in T PROVE n \in T
    <3>1. n \in 0 .. N /\ f[n] = f[n - 1] \o Listed(Registry[n], on)
      BY <1>2, <1>7
    <3>2. f[n - 1] \in S /\ Listed(Registry[n], on) \in S
      BY <1>3, <2>2
    <3>3. f[n - 1] \o Listed(Registry[n], on) \in S
      BY <3>2 DEF S
    <3> QED
      BY <3>1, <3>3
  <2> HIDE DEF T
  <2> QED
    BY <1>2, <2>1, <2>2, UpTo
<1>9. N \in 0 .. N
  BY <1>2
<1> QED
  BY <1>1, <1>8, <1>9 DEF S

-----------------------------------------------------------------------------
(* A name that is not that of a famous person, or is a client's. *)
Renowned(i) == Has(i, "famous")
Fine(e) == (\E i \in e.hidden : Renowned(i)) => CueBefore(e.start, "strong_cue", 40)
AllFine(es) == \A e \in es : e.type = "fio" => Fine(e)

(* What is no part of a famous name. *)
LEMMA NotRenowned ==
    ASSUME text \in Seq(Lexemes), NEW i,
           \/ Has(i, "first") \/ Has(i, "patronymic") \/ Has(i, "initial") \/ Has(i, ".")
    PROVE  ~Renowned(i)
<1>1. i \in 1 .. Size => text[i] \in Lexemes
  BY DEF Size
<1> QED
  BY <1>1, NamesAssumption DEF Has, Renowned

LEMMA IsNone ==
    ASSUME NEW i, NEW cs, "famous" \in cs, ~IsA(i, cs)
    PROVE  ~Renowned(i)
  BY DEF IsA, Has, Renowned

(* StandaloneValueDetector takes no famous name.                           *)
LEMMA StandaloneFine == AllFine(Standalone)
<1> SUFFICES ASSUME NEW t \in DOMAIN Checks, Checks[t], NEW e \in Entity(t, 1 .. ValueEnd, 90, {}), e.type = "fio"
             PROVE  \A i \in e.hidden : ~Renowned(i)
  BY DEF Standalone, AllFine, Fine
<1>1. t = "fio" /\ e.hidden = 1 .. ValueEnd
  <2>1. OfTypes(Entity(t, 1 .. ValueEnd, 90, {}), {t})
    BY ONLY EntityTypes, Ranks, Requirable
  <2> QED
    BY <2>1, EntityHides DEF OfTypes
<1>2. Checks["fio"] => ValueEnd = 1 /\ ~IsA(1, {"town", "not_surname", "famous"})
  BY DEF Checks
<1> QED
  BY <1>1, <1>2, IsNone

LEMMA AtHides ==
    ASSUME NEW t, NEW places, NEW pr, NEW e \in EntitiesAt(t, places, pr)
    PROVE  e.hidden \in places /\ e.hidden \subseteq 1 .. Size
  BY EntityHides DEF EntitiesAt, WeakAt

(* LabelledValueDetector takes none after a label,                         *)
LEMMA LabelledNamesFine == AllFine(LabelledNames)
<1>1. ASSUME NEW e \in LabelledNames PROVE LooksLikeName(e.hidden, FALSE)
  <2> DEFINE label == <<One({"name_label"}), Gap({":"}, 40), One({":"})>>
             words(m) == Last(m) .. RunOf(Last(m), 4, AnyWord)
             named(m) == Has(Last(m), "word") /\ Has(Last(m), "upper") /\ LooksLikeName(words(m), FALSE)
             places == {words(m) : m \in {m \in FindIter(label) : named(m)}}
  <2>1. LabelledNames = EntitiesAt("fio", places, 45)
    BY Zenon DEF LabelledNames
  <2>2. \A h \in places : LooksLikeName(h, FALSE)
    BY Zenon
  <2> HIDE DEF places
  <2> QED
    BY <2>1, <2>2, AtHides
<1>2. \A words, dots : LooksLikeName(words, dots) => \A i \in words : ~Renowned(i)
  BY IsNone DEF LooksLikeName
<1> QED
  BY ONLY <1>1, <1>2 DEF AllFine, Fine

(* as a text that is one name,                                             *)
LEMMA WholeNameFine == AllFine(WholeName)
<1>1. ASSUME NEW e \in WholeName PROVE LooksLikeName(e.hidden, TRUE)
  <2>1. PICK h : e \in EntityTo("fio", h, TRUE, 45, {}) /\ LooksLikeName(h, TRUE)
    <3> DEFINE n == Max({0} \cup {i \in 1 .. Size : ~IsA(i, {","})})
    <3>1. e \in EntityTo("fio", 1 .. n, TRUE, 45, {}) /\ LooksLikeName(1 .. n, TRUE)
      BY DEF WholeName
    <3> QED
      BY <3>1
  <2>2. e.hidden = h
    BY <2>1 DEF EntityTo
  <2> QED
    BY ONLY <2>1, <2>2, Zenon
<1>2. \A words, dots : LooksLikeName(words, dots) => \A i \in words : ~Renowned(i)
  BY IsNone DEF LooksLikeName
<1> QED
  BY ONLY <1>1, <1>2 DEF AllFine, Fine

(* or after a client's word: that is a first name, and no famous surname   *)
(* is.                                                                     *)
LEMMA ClientNamesFine ==
    ASSUME text \in Seq(Lexemes)
    PROVE  AllFine(ClientNames)
<1>1. ASSUME NEW e \in ClientNames
      PROVE  \E i : /\ Has(i, "first")
                    /\ \/ e.hidden = {i}
                       \/ e.hidden = {i, i + 1} /\ Has(i + 1, "initial")
  <2>1. PICK i : /\ Has(i, "first")
                 /\ e \in IF Adjacent(i) /\ Has(i + 1, "initial")
                          THEN EntityTo("fio", {i, i + 1}, TRUE, 45, {}) ELSE Entity("fio", {i}, 45, {})
    BY Zenon DEF ClientNames
  <2>2. CASE Has(i + 1, "initial") /\ e \in EntityTo("fio", {i, i + 1}, TRUE, 45, {})
    <3>1. e.hidden = {i, i + 1}
      BY <2>2 DEF EntityTo
    <3> QED
      BY ONLY <2>1, <2>2, <3>1, Zenon
  <2>3. CASE e \in Entity("fio", {i}, 45, {})
    <3>1. e.hidden = {i}
      BY <2>3 DEF EntityTo, Entity
    <3> QED
      BY ONLY <2>1, <3>1, Zenon
  <2> QED
    BY ONLY <2>1, <2>2, <2>3, Zenon
<1> QED
  BY <1>1, NotRenowned DEF AllFine, Fine

(* Nor does _bare_names.                                                   *)
LEMMA BareNamesFine == AllFine(BareNames)
<1>1. ASSUME NEW e \in BareNames
      PROVE  \A i \in e.hidden : ~IsA(i, {"bare_stop", "town", "famous"})
  BY AtHides DEF BareNames
<1> QED
  BY <1>1, IsNone DEF AllFine, Fine

-----------------------------------------------------------------------------
(* extend_person_span adds initials and patronymics to a name. *)
Addition(i) == Has(i, "initial") \/ Has(i, "patronymic")

(* What a step to the right adds are initials and patronymics,             *)
LEMMA StepsRight ==
    ASSUME NEW n \in Nat
    PROVE  /\ StepRight(n) \in Nat /\ n <= StepRight(n)
           /\ \A i \in n .. StepRight(n) - 1 : Addition(i)
  BY DEF StepRight, Addition

(* and what three steps add.                                               *)
LEMMA ExtendsRight ==
    ASSUME NEW n \in Nat
    PROVE  /\ ExtendRight(n) \in Nat /\ n <= ExtendRight(n)
           /\ \A i \in n .. ExtendRight(n) - 1 : Addition(i)
<1> DEFINE a == StepRight(n)
           b == StepRight(a)
           c == StepRight(b)
<1>1. a \in Nat /\ n <= a /\ \A i \in n .. a - 1 : Addition(i)
  BY StepsRight
<1>2. b \in Nat /\ a <= b /\ \A i \in a .. b - 1 : Addition(i)
  BY <1>1, StepsRight
<1>3. c \in Nat /\ b <= c /\ \A i \in b .. c - 1 : Addition(i)
  BY <1>2, StepsRight
<1>4. ExtendRight(n) = c
  BY DEF ExtendRight
<1> HIDE DEF a, b, c
<1>5. \A i \in n .. c - 1 : i \in n .. a - 1 \/ i \in a .. b - 1 \/ i \in b .. c - 1
  BY <1>1, <1>2, <1>3
<1> QED
  BY <1>1, <1>2, <1>3, <1>4, <1>5

LEMMA EntityParts ==
    ASSUME NEW t, NEW h, NEW dot, NEW p, NEW r, NEW e \in EntityTo(t, h, dot, p, r)
    PROVE  h \in (SUBSET (1 .. Size)) \ {{}} /\ e.hidden = h /\ e.start = From[Min(h)]
<1>1. /\ h \in (SUBSET (1 .. Size)) \ {{}}
      /\ e = [type |-> t, hidden |-> h, start |-> From[Min(h)],
              end |-> IF dot THEN To(Max(h)) ELSE Letters(Max(h)), priority |-> p, requires |-> r]
  BY DEF EntityTo
<1> QED
  BY <1>1

Spans(e, first, last) ==
    \E a, b \in Int : /\ e.hidden = a .. b /\ a .. b \in (SUBSET (1 .. Size)) \ {{}}
                      /\ e.start = From[Min(a .. b)]
                      /\ a = first \/ (a = first - 1 /\ Has(a, "initial"))
                      /\ \A i \in a .. b : i \in first .. last \/ Addition(i)

(* A name that has been extended: what it hides and where it begins.       *)
LEMMA NameHides ==
    ASSUME NEW first \in Nat, NEW last \in Nat, NEW pr, NEW e \in NameEntity(first, last, pr)
    PROVE  Spans(e, first, last)
<1> DEFINE x == Extended(first, last)
           a == x.first
           b == x.last
<1>1. e.hidden = a .. b /\ a .. b \in (SUBSET (1 .. Size)) \ {{}} /\ e.start = From[Min(a .. b)]
  <2>1. PICK h, dot, r : h = a .. b /\ e \in EntityTo("fio", h, dot, pr, r)
    BY Zenon DEF NameEntity
  <2>2. h \in (SUBSET (1 .. Size)) \ {{}} /\ e.hidden = h /\ e.start = From[Min(h)]
    <3>1. e \in EntityTo("fio", h, dot, pr, r)
      BY <2>1
    <3> QED
      BY ONLY <3>1, EntityParts
  <2> HIDE DEF a, b
  <2> QED
    BY ONLY <2>1, <2>2, Zenon
<1>2. a = first \/ (a = first - 1 /\ Has(a, "initial"))
  BY DEF Extended
<1>3. b = last \/ b = ExtendRight(last + 1) - 1
  BY DEF Extended
<1>4. /\ ExtendRight(last + 1) \in Nat /\ last + 1 <= ExtendRight(last + 1)
      /\ \A i \in last + 1 .. ExtendRight(last + 1) - 1 : Addition(i)
  BY ExtendsRight
<1> HIDE DEF a, b
<1>5. a \in Int /\ b \in Int
  BY <1>2, <1>3, <1>4
<1>6. ASSUME NEW i \in a .. b, i \notin first .. last PROVE Addition(i)
  <2>1. CASE i < first
    <3>1. i = a /\ Has(a, "initial")
      BY <1>2, <1>5, <1>6, <2>1
    <3> QED
      BY <3>1 DEF Addition
  <2>2. CASE i > last
    BY <1>3, <1>4, <1>5, <1>6, <2>2
  <2> QED
    BY <1>5, <1>6, <2>1, <2>2
<1> QED
  BY <1>1, <1>2, <1>5, <1>6 DEF Spans

LEMMA NotAdded ==
    ASSUME text \in Seq(Lexemes), NEW i, Addition(i)
    PROVE  ~Renowned(i)
  BY NotRenowned DEF Addition

-----------------------------------------------------------------------------
LEMMA RoleTokenIs ==
    ASSUME NEW i, RoleToken(i)
    PROVE  i \in 1 .. Size /\ ~Renowned(i)
<1>1. i \in 1 .. Size
  BY DEF RoleToken, KnownName, IsA
<1>2. ~IsA(i, {"no_name_role", "famous"})
  BY DEF RoleToken
<1> QED
  BY <1>1, <1>2, IsNone

LEMMA NextTokenIs ==
    ASSUME text \in Seq(Lexemes), NEW i \in Nat, ~Renowned(i)
    PROVE  /\ NextToken(i) \in Nat /\ i < NextToken(i)
           /\ \A j \in i .. NextToken(i) - 1 : ~Renowned(j)
<1>1. CASE NextToken(i) = i + 1
  BY <1>1
<1>2. CASE NextToken(i) = i + 2 /\ Has(i + 1, ".")
  <2>1. ~Renowned(i + 1)
    BY <1>2, NotRenowned
  <2>2. \A j \in i .. i + 2 - 1 : j = i \/ j = i + 1
    OBVIOUS
  <2> QED
    BY <1>2, <2>1, <2>2
<1> QED
  BY <1>1, <1>2 DEF NextToken

(* From the first to the last word after a role's label no name is famous. *)
LEMMA RoleSpan ==
    ASSUME text \in Seq(Lexemes), NEW first, RoleTokens(first) # {}
    PROVE  /\ Min(RoleTokens(first)) \in Nat /\ Max(RoleTokens(first)) \in Nat
           /\ \A i \in Min(RoleTokens(first)) .. Max(RoleTokens(first)) : ~Renowned(i)
<1> DEFINE t == RoleTokens(first)
           second == NextToken(first)
           third  == NextToken(second)
           chain  == <<first, second, third, NextToken(third)>>
           taken(k) == \A j \in 1 .. k : RoleToken(chain[j]) /\ (j > 1 => ~IsA(chain[j], {",", ":"}))
           clear(n) == n \in 1 .. Size /\ first <= n /\ \A i \in first .. n : ~Renowned(i)
<1>1. t = {chain[k] : k \in {k \in 1 .. 4 : taken(k)}}
  BY Zenon DEF RoleTokens
<1>2. ASSUME NEW k \in 1 .. 4, taken(k) PROVE \A j \in 1 .. k : RoleToken(chain[j])
  BY <1>2
<1>3. \A k \in 1 .. 4 : \A j \in 1 .. k : j \in 1 .. 4
  OBVIOUS
<1>4. chain[1] = first /\ chain[2] = second /\ chain[3] = third /\ chain[4] = NextToken(third)
  OBVIOUS
<1>5. Size \in Nat
  BY Positions
<1> HIDE DEF chain, taken, second, third
<1>6. first \in 1 .. Size /\ clear(first)
  <2>1. PICK k \in 1 .. 4 : taken(k)
    BY <1>1
  <2>2. RoleToken(first)
    BY <1>2, <1>4, <2>1
  <2>3. first \in 1 .. Size /\ ~Renowned(first)
    BY <2>2, RoleTokenIs
  <2>4. \A i \in first .. first : i = first
    BY <1>5, <2>3
  <2> QED
    BY <1>5, <2>3, <2>4
<1>7. ASSUME NEW n, clear(n), RoleToken(NextToken(n)) PROVE clear(NextToken(n))
  <2>1. n \in Nat /\ ~Renowned(n)
    BY <1>5, <1>6, <1>7
  <2>2. NextToken(n) \in Nat /\ n < NextToken(n) /\ \A j \in n .. NextToken(n) - 1 : ~Renowned(j)
    BY <2>1, NextTokenIs
  <2>3. NextToken(n) \in 1 .. Size /\ ~Renowned(NextToken(n))
    BY <1>7, RoleTokenIs
  <2>4. first \in Nat
    BY <1>5, <1>6
  <2>5. \A i \in first .. NextToken(n) : i \in first .. n \/ i \in n .. NextToken(n) - 1 \/ i = NextToken(n)
    BY <2>1, <2>2, <2>4
  <2> QED
    BY <1>7, <2>1, <2>2, <2>3, <2>4, <2>5
<1> HIDE DEF clear
<1>8. ASSUME NEW k \in 1 .. 4, taken(k) PROVE clear(chain[k])
  <2>1. \A j \in 1 .. k : RoleToken(chain[j])
    BY <1>2, <1>8
  <2>2. k >= 2 => clear(second)
    BY <1>4, <1>6, <1>7, <2>1 DEF second
  <2>3. k >= 3 => clear(third)
    BY <1>4, <1>7, <2>1, <2>2 DEF third
  <2>4. k >= 4 => clear(chain[4])
    BY <1>4, <1>7, <2>1, <2>3
  <2> QED
    BY <1>4, <1>6, <2>2, <2>3, <2>4
<1>9. \A n \in t : clear(n)
  BY <1>1, <1>8
<1> HIDE DEF t
<1>10. Min(t) \in t /\ Max(t) \in t
  <2>1. t \in SUBSET Nat /\ \A n \in t : n <= Size
    BY <1>5, <1>9 DEF clear
  <2>2. t # {}
    BY DEF t
  <2> QED
    BY <1>5, <2>1, <2>2, Extremes
<1>11. clear(Min(t)) /\ clear(Max(t))
  BY <1>9, <1>10
<1>12. Min(t) \in Nat /\ Max(t) \in Nat /\ \A i \in Min(t) .. Max(t) : ~Renowned(i)
  <2>1. \A i \in Min(t) .. Max(t) : i \in first .. Max(t)
    BY <1>5, <1>6, <1>11 DEF clear
  <2> QED
    BY <1>5, <1>11, <2>1 DEF clear
<1> QED
  BY <1>12 DEF t

(* _role_names takes no famous name, and extension adds none.              *)
LEMMA RoleNamesFine ==
    ASSUME text \in Seq(Lexemes)
    PROVE  AllFine(RoleNames)
<1> SUFFICES ASSUME NEW e \in RoleNames PROVE \A i \in e.hidden : ~Renowned(i)
  BY DEF AllFine, Fine
<1>1. PICK first : RoleTokens(first) # {}
                   /\ e \in NameEntity(Min(RoleTokens(first)), Max(RoleTokens(first)), 67)
  BY Zenon DEF RoleNames
<1> DEFINE a == Min(RoleTokens(first))
           b == Max(RoleTokens(first))
<1>2. a \in Nat /\ b \in Nat /\ \A i \in a .. b : ~Renowned(i)
  BY <1>1, RoleSpan
<1>3. e \in NameEntity(a, b, 67)
  BY <1>1
<1> HIDE DEF a, b
<1>4. PICK x, y \in Int : e.hidden = x .. y /\ \A i \in x .. y : i \in a .. b \/ Addition(i)
  <2>1. Spans(e, a, b)
    BY <1>2, <1>3, NameHides
  <2> QED
    BY <2>1 DEF Spans
<1> QED
  BY <1>2, <1>4, NotAdded

-----------------------------------------------------------------------------
(* A match of an expression whose first item takes a lexeme takes one, and *)
(* ends in the text.                                                       *)
LEMMA LeadsOn ==
    ASSUME Size \in Nat, NEW p, Len(p) \in Nat \ {0}, \A k \in 1 .. Len(p) : p[k].min \in Nat, p[1].min > 0,
           NEW i \in 1 .. Size, NEW m, Leads(p, 1, i, m)
    PROVE  \A n \in 2 .. Len(p) + 1 : m[n] \in i + 1 .. Size + 1
<1> DEFINE L == Len(p)
           S == {d \in 0 .. L - 1 : m[d + 2] \in i + 1 .. Size + 1}
<1>1. m[1] = i /\ \A n \in 1 .. L : m[n + 1] \in m[n] + p[n].min .. Size + 1
  <2>1. m[1] = i /\ \A n \in 1 .. L + 1 - 1 : m[n + 1] \in m[n] + p[1 + n - 1].min .. Size + 1
    BY DEF Leads
  <2>2. L + 1 - 1 = L /\ \A n \in 1 .. L : 1 + n - 1 = n
    OBVIOUS
  <2> QED
    BY <2>1, <2>2
<1>2. L \in Nat /\ L >= 1
  OBVIOUS
<1>3. \A n \in 1 .. L : p[n].min \in Nat
  OBVIOUS
<1> HIDE DEF L
<1>4. 0 \in S
  <2>1. 1 \in 1 .. L /\ m[1 + 1] \in m[1] + p[1].min .. Size + 1
    BY <1>1, <1>2
  <2> QED
    BY <1>1, <1>2, <1>3, <2>1
<1>5. ASSUME NEW d \in 1 .. L - 1, d - 1 \in S PROVE d \in S
  <2>1. d + 1 \in 1 .. L /\ (d - 1) + 2 = d + 1 /\ (d + 1) + 1 = d + 2 /\ d \in 0 .. L - 1
    BY <1>2
  <2>2. m[d + 1] \in i + 1 .. Size + 1
    BY <1>5, <2>1
  <2>3. m[d + 2] \in m[d + 1] + p[d + 1].min .. Size + 1 /\ p[d + 1].min \in Nat
    BY <1>1, <1>3, <2>1
  <2>4. m[d + 2] \in i + 1 .. Size + 1
    BY <2>2, <2>3
  <2> QED
    BY <2>1, <2>4
<1> HIDE DEF S
<1>6. 0 .. L - 1 \subseteq S
  <2> DEFINE N == L - 1
  <2>1. N \in Nat
    BY <1>2
  <2>2. \A d \in 1 .. N : d - 1 \in S => d \in S
    BY <1>5
  <2> HIDE DEF N
  <2>3. 0 .. N \subseteq S
    BY <1>4, <2>1, <2>2, UpTo
  <2> QED
    BY <2>3 DEF N
<1>7. \A n \in 2 .. L + 1 : n - 2 \in 0 .. L - 1 /\ (n - 2) + 2 = n
  BY <1>2
<1> QED
  BY <1>6, <1>7 DEF S, L

(* What finditer finds are such matches. *)
LEMMA FindIterLeads ==
    ASSUME Size \in Nat, NEW p, Len(p) \in Nat \ {0}, \A k \in 1 .. Len(p) : p[k].min \in Nat, p[1].min > 0,
           NEW m \in FindIter(p)
    PROVE  \E i \in 1 .. Size : Leads(p, 1, i, m)
<1> DEFINE at == [i \in 1 .. Size |-> MatchAt(p, i)]
<1>1. \A i \in 1 .. Size : at[i] = MatchAt(p, i)
  OBVIOUS
<1>2. \A i \in 1 .. Size : at[i] # <<>> => Leads(p, 1, i, at[i])
  BY <1>1, MatchLeads
<1>3. m \in NonOverlapping(at)
  BY DEF FindIter
<1> HIDE DEF at
<1>4. ASSUME NEW i \in 1 .. Size, at[i] # <<>> PROVE Last(at[i]) \in i + 1 .. Size + 1
  <2>1. Leads(p, 1, i, at[i])
    BY <1>2, <1>4
  <2>2. Len(at[i]) = Len(p) + 1
    <3>1. Len(at[i]) = Len(p) + 2 - 1
      BY <2>1 DEF Leads
    <3> QED
      BY <3>1
  <2>3. \A n \in 2 .. Len(p) + 1 : at[i][n] \in i + 1 .. Size + 1
    BY <2>1, LeadsOn
  <2>4. Len(p) + 1 \in 2 .. Len(p) + 1
    OBVIOUS
  <2> QED
    BY <2>2, <2>3, <2>4 DEF Last
<1> QED
  BY <1>2, <1>3, <1>4, OnlyMatches

(* Where the names are that FioDetector finds, before it extends them. *)
Placed(c) == c.first \in 1 .. Size /\ c.last \in Nat

(* A core begins and ends at words of the text: one found by morphology,   *)
LEMMA MorphologyPlaced ==
    ASSUME text \in Seq(Lexemes), NEW c \in ByMorphology
    PROVE  Placed(c)
<1> DEFINE at == [i \in 1 .. Size |-> IF Has(i, "word") /\ MatchRun(i) > 0 THEN <<i, i + MatchRun(i)>> ELSE <<>>]
<1>1. Size \in Nat
  BY Positions
<1>2. ASSUME NEW i \in 1 .. Size, MatchRun(i) > 0
      PROVE  MatchRun(i) \in 2 .. 3 /\ i + MatchRun(i) \in i + 1 .. Size + 1
  <2>1. MatchRun(i) \in {0, 2, 3}
    BY DEF MatchRun
  <2>2. MatchRun(i) = 3 => i + 2 \in 1 .. Size
    BY DEF MatchRun, IsSurname, Capitalised, Has, IsA
  <2>3. MatchRun(i) = 2 => i + 1 \in 1 .. Size
    BY DEF MatchRun, Has
  <2> QED
    BY <1>1, <1>2, <2>1, <2>2, <2>3
<1>3. ASSUME NEW i \in 1 .. Size, at[i] # <<>>
      PROVE  at[i] = <<i, i + MatchRun(i)>> /\ MatchRun(i) > 0
  BY <1>3
<1>4. PICK m \in NonOverlapping(at) : c = Core(m[1], m[2] - 1, Letters(m[2] - 1), 60)
  BY Zenon DEF ByMorphology
<1> HIDE DEF at
<1>5. \A i \in 1 .. Size : at[i] # <<>> => Last(at[i]) \in i + 1 .. Size + 1
  <2>1. \A x, y : Last(<<x, y>>) = y
    BY DEF Last
  <2> QED
    BY <1>2, <1>3, <2>1
<1>6. PICK i \in 1 .. Size : m = at[i] /\ m # <<>>
  BY <1>1, <1>4, <1>5, OnlyMatches
<1>7. m[1] = i /\ m[2] = i + MatchRun(i) /\ MatchRun(i) \in 2 .. 3
  BY <1>2, <1>3, <1>6
<1>8. c.first = i /\ c.last = i + MatchRun(i) - 1
  BY <1>4, <1>7 DEF Core
<1> QED
  BY <1>1, <1>7, <1>8 DEF Placed

(* by initials,                                                            *)
LEMMA InitialsPlaced ==
    ASSUME text \in Seq(Lexemes), NEW c \in ByInitials
    PROVE  Placed(c)
<1> DEFINE p == <<One({"Cap"}), One({"Initial"}), One({"Initial", "Letter"})>>
           q == <<One({"Initial"}), One({"Initial"}), One({"Cap"})>>
<1>1. PICK m \in FindIter(p) \cup FindIter(q) : c = Core(m[1], m[4] - 1, To(m[4] - 1), 62)
  BY Zenon DEF ByInitials
<1>2. /\ Len(p) = 3 /\ \A k \in 1 .. 3 : p[k].min = 1
      /\ Len(q) = 3 /\ \A k \in 1 .. 3 : q[k].min = 1
  <2>1. \A cs : One(cs).min = 1
    BY DEF One, Item
  <2> QED
    BY <2>1
<1> HIDE DEF p, q
<1>3. Size \in Nat
  BY Positions
<1>4. \E i \in 1 .. Size : m[1] = i /\ m[4] \in i + 1 .. Size + 1
  <2>1. ASSUME NEW r, Len(r) = 3, \A k \in 1 .. 3 : r[k].min = 1, m \in FindIter(r)
        PROVE  \E i \in 1 .. Size : m[1] = i /\ m[4] \in i + 1 .. Size + 1
    <3>1. Len(r) \in Nat \ {0} /\ (\A k \in 1 .. Len(r) : r[k].min \in Nat) /\ r[1].min > 0
      BY <2>1
    <3>2. PICK i \in 1 .. Size : Leads(r, 1, i, m)
      BY <1>3, <2>1, <3>1, FindIterLeads
    <3>3. \A n \in 2 .. Len(r) + 1 : m[n] \in i + 1 .. Size + 1
      BY <1>3, <3>1, <3>2, LeadsOn
    <3>4. m[1] = i
      BY <3>2 DEF Leads
    <3>5. 4 \in 2 .. Len(r) + 1
      BY <2>1
    <3> QED
      BY <3>3, <3>4, <3>5
  <2> QED
    BY <1>1, <1>2, <2>1
<1>5. c.first = m[1] /\ c.last = m[4] - 1
  BY <1>1 DEF Core
<1> QED
  BY <1>3, <1>4, <1>5 DEF Placed

(* and after a cue.                                                        *)
LEMMA CuePlaced ==
    ASSUME text \in Seq(Lexemes), NEW c \in ByCue
    PROVE  Placed(c)
<1>1. Size \in Nat
  BY Positions
<1>2. \E i \in 1 .. Size : \E S \in SUBSET (i + 1 .. i + 2) : c.first = i /\ c.last = Max({i} \cup S)
  <2> DEFINE follows(j) == Capitalised(j) \/ KnownName(j)
             last(i)    == RunOf(i, 3, follows)
             run(i)     == {k \in i + 1 .. i + 3 - 1 :
                               \A j \in i + 1 .. k : Adjacent(j - 1) /\ Has(j, "word") /\ follows(j)}
  <2>1. \E i \in 1 .. Size : c = Core(i, last(i), Letters(last(i)), 58)
    BY Zenon DEF ByCue
  <2>2. \A i : last(i) = Max({i} \cup run(i))
    BY DEF RunOf
  <2>3. \A i \in 1 .. Size : run(i) \subseteq i + 1 .. i + 2
    BY <1>1
  <2> HIDE DEF last, run
  <2>4. PICK i \in 1 .. Size : c = Core(i, last(i), Letters(last(i)), 58)
    BY <2>1
  <2>5. c.first = i /\ c.last = Max({i} \cup run(i))
    BY <2>2, <2>4 DEF Core
  <2>6. run(i) \in SUBSET (i + 1 .. i + 2)
    BY <2>3
  <2> QED
    BY ONLY <2>5, <2>6, Zenon
<1>3. PICK i \in 1 .. Size : \E S \in SUBSET (i + 1 .. i + 2) : c.first = i /\ c.last = Max({i} \cup S)
  BY <1>2
<1>a. PICK S \in SUBSET (i + 1 .. i + 2) : c.first = i /\ c.last = Max({i} \cup S)
  BY <1>3
<1>4. {i} \cup S \in SUBSET Nat /\ {i} \cup S # {} /\ (\A n \in {i} \cup S : n <= i + 2) /\ i + 2 \in Nat
  BY <1>1
<1>5. Max({i} \cup S) \in {i} \cup S
  BY <1>4, Extremes
<1>6. Max({i} \cup S) \in Nat
  BY ONLY <1>4, <1>5
<1> QED
  BY ONLY <1>a, <1>6, i \in 1 .. Size DEF Placed

(* A name among whose words is a famous one follows a client's word, and   *)
(* so does what extend_person_span makes of it: the initial it adds on the *)
(* left is no such word.                                                   *)
LEMMA CueBeforeInitial ==
    ASSUME text \in Seq(Lexemes), NEW a \in 1 .. Size, a + 1 \in 1 .. Size, Has(a, "initial"),
           CueBefore(From[a + 1], "strong_cue", 40)
    PROVE  CueBefore(From[a], "strong_cue", 40)
<1>1. PICK j \in 1 .. Size : Has(j, "strong_cue") /\ To(j) <= From[a + 1] /\ From[a + 1] <= From[j] + 40
  BY DEF CueBefore
<1>2. Size \in Nat /\ \A i \in 1 .. Size : From[i] \in Nat /\ To(i) \in Nat /\ From[i] < To(i)
  BY ONLY text \in Seq(Lexemes), Positions
<1>3. \A i, k \in 1 .. Size : i < k => To(i) <= From[k]
  BY ONLY text \in Seq(Lexemes), Positions
<1>4. j # a
  <2>1. text[a] \in Lexemes
    BY DEF Size
  <2>2. "strong_cue" \notin text[a].classes
    BY <2>1, NamesAssumption DEF Has
  <2> QED
    BY <1>1, <2>2 DEF Has
<1>5. j < a
  <2>1. ~(j = a + 1)
    BY <1>1, <1>2
  <2>2. ~(a + 1 < j)
    <3> SUFFICES ASSUME a + 1 < j PROVE FALSE
      OBVIOUS
    <3>1. To(a + 1) <= From[j]
      BY <1>3
    <3> QED
      BY <1>1, <1>2, <3>1
  <2> QED
    BY <1>2, <1>4, <2>1, <2>2
<1>6. To(j) <= From[a] /\ From[a] <= From[j] + 40
  <2>1. To(j) <= From[a] /\ To(a) <= From[a + 1]
    BY <1>2, <1>3, <1>5
  <2> QED
    BY <1>1, <1>2, <2>1
<1> QED
  BY <1>1, <1>6 DEF CueBefore

(* What _is_excluded lets pass is no famous name, or follows a client's    *)
(* word.                                                                   *)
LEMMA NotExcluded ==
    ASSUME NEW c, ~Excluded(c), NEW i \in c.first .. c.last, Renowned(i)
    PROVE  CueBefore(From[c.first], "strong_cue", 40)
  BY DEF Excluded, Renowned

(* Extension does not change that.                                         *)
LEMMA ExtendedFine ==
    ASSUME text \in Seq(Lexemes), NEW c, Placed(c), ~Excluded(c), NEW pr, NEW e \in NameEntity(c.first, c.last, pr)
    PROVE  Fine(e)
<1> DEFINE first == c.first
           last  == c.last
<1>1. first \in Nat /\ last \in Nat /\ first \in 1 .. Size /\ Size \in Nat
  BY Positions DEF Placed
<1>2. PICK a, b \in Int : /\ e.hidden = a .. b /\ a .. b \in (SUBSET (1 .. Size)) \ {{}}
                          /\ e.start = From[Min(a .. b)]
                          /\ a = first \/ (a = first - 1 /\ Has(a, "initial"))
                          /\ \A i \in a .. b : i \in first .. last \/ Addition(i)
  <2>1. e \in NameEntity(first, last, pr)
    OBVIOUS
  <2> HIDE DEF first, last
  <2>2. Spans(e, first, last)
    BY <1>1, <2>1, NameHides
  <2> QED
    BY <2>2 DEF Spans
<1> SUFFICES ASSUME NEW i \in a .. b, Renowned(i) PROVE CueBefore(e.start, "strong_cue", 40)
  BY <1>2 DEF Fine
<1>3. i \in first .. last
  BY <1>2, NotAdded
<1>4. CueBefore(From[first], "strong_cue", 40)
  BY <1>3, NotExcluded
<1> HIDE DEF first, last
<1>5. Min(a .. b) = a /\ a \in 1 .. Size
  <2>0. \A n \in a .. b : n \in 1 .. Size
    BY ONLY <1>2
  <2>1. a .. b \in SUBSET Nat /\ a .. b # {} /\ \A n \in a .. b : n <= Size
    BY ONLY <1>1, <2>0, i \in a .. b
  <2>2. Min(a .. b) \in a .. b /\ \A n \in a .. b : Min(a .. b) <= n
    BY <1>1, <2>1, Extremes
  <2>3. a \in a .. b
    BY <1>2
  <2>4. a \in 1 .. Size
    BY <1>2, <2>3
  <2> HIDE <1>2
  <2> QED
    BY <2>2, <2>3, <2>4
<1>6. CASE a = first
  BY <1>2, <1>4, <1>5, <1>6
<1>7. CASE a = first - 1 /\ Has(a, "initial")
  <2>1. a + 1 = first
    BY <1>1, <1>7
  <2>2. CueBefore(From[a], "strong_cue", 40)
    BY <1>1, <1>4, <1>5, <1>7, <2>1, CueBeforeInitial
  <2> QED
    BY <1>2, <1>5, <2>2
<1> QED
  BY <1>2, <1>6, <1>7

(* FioDetector, the three ways together.                                   *)
LEMMA FioEntitiesFine ==
    ASSUME text \in Seq(Lexemes)
    PROVE  AllFine(FioEntities)
<1> SUFFICES ASSUME NEW e \in FioEntities, e.type = "fio" PROVE Fine(e)
  BY DEF AllFine
<1>1. e \notin HolderEntities
  BY HolderTypes DEF OfTypes
<1>2. PICK c \in ByMorphology \cup ByInitials \cup ByCue :
           ~Excluded(c) /\ e \in NameEntity(c.first, c.last, c.priority)
  BY <1>1 DEF FioEntities
<1>3. Placed(c)
  BY MorphologyPlaced, InitialsPlaced, CuePlaced
<1> QED
  BY <1>2, <1>3, ExtendedFine

(* No detector finds a famous name, but as a client's. *)
LEMMA DetectedFine ==
    ASSUME text \in Seq(Lexemes), NEW d \in Range(Registry)
    PROVE  AllFine(DetectedBy(d))
<1>1. ASSUME NEW es, NEW ts, OfTypes(es, ts), "fio" \notin ts PROVE AllFine(es)
  BY <1>1 DEF OfTypes, AllFine
<1> USE DEF DetectedBy
<1>2. CASE d = "Standalone" BY <1>2, StandaloneFine
<1>3. CASE d = "Contact" BY <1>1, <1>3, ContactTypes
<1>4. CASE d = "Card" BY <1>1, <1>4, CardTypes
<1>5. CASE d = "Inn" BY <1>1, <1>5, InnTypes
<1>6. CASE d = "IdentityDocument" BY <1>1, <1>6, IdTypes
<1>7. CASE d = "Issuance" BY <1>1, <1>7, IssuanceTypes
<1>8. CASE d = "ExtraDocument" BY <1>1, <1>8, ExtraTypes
<1>9. CASE d = "Date" BY <1>1, <1>9, DateTypes
<1>10. CASE d = "Fio" BY <1>10, FioEntitiesFine
<1>11. CASE d = "Address" BY <1>1, <1>11, AddressTypes
<1>12. CASE d = "LabelledValue"
  <2>1. AllFine(LabelledDocuments) /\ AllFine(LabelledDates) /\ AllFine(LabelledCitizenship)
    BY <1>1, LabelledTypes
  <2> QED
    BY <1>12, <2>1, LabelledNamesFine, ClientNamesFine, WholeNameFine DEF AllFine
<1>13. CASE d = "ContextValue"
  <2>1. AllFine(Secrets) /\ AllFine(LabelledNumbers) /\ AllFine(LabelledIssuers) /\ AllFine(BareAddressEntities)
    BY <1>1, ContextTypes
  <2> QED
    BY <1>13, <2>1, RoleNamesFine, BareNamesFine DEF AllFine
<1> QED
  BY ONLY <1>2, <1>3, <1>4, <1>5, <1>6, <1>7, <1>8, <1>9, <1>10, <1>11, <1>12, <1>13, RegistryOf, d \in Range(Registry)

-----------------------------------------------------------------------------
(* The INN of an organisation: none, but those whose digits are a person's. *)
Own(e) ==
    CueBefore(e.start, "organisation_form", 40) => \A i \in e.hidden : Has(i, "inn_valid")
AllOwn(es) == \A e \in es : e.type = "inn" => Own(e)

(* An expression that begins with a lexeme it takes, and its matches. *)
Regular(p) == /\ Len(p) \in Nat \ {0} /\ DOMAIN p = 1 .. Len(p)
              /\ \A k \in 1 .. Len(p) : p[k].min \in Nat
              /\ p[1].min > 0

(* The bounds of a match grow from its first lexeme to the end of its      *)
(* last.                                                                   *)
LEMMA MatchGrows ==
    ASSUME Size \in Nat, NEW p, Regular(p), NEW i \in 1 .. Size, NEW m, Leads(p, 1, i, m)
    PROVE  /\ Len(m) = Len(p) + 1 /\ Last(m) = m[Len(p) + 1] /\ Last(m) \in i + 1 .. Size + 1
           /\ \A n \in 1 .. Len(p) + 1 : m[n] \in i .. Last(m)
<1> DEFINE L == Len(p)
           end == m[L + 1]
           S == {d \in 0 .. L : m[L + 1 - d] \in i .. end}
<1>1. L \in Nat /\ L > 0 /\ p[1].min > 0 /\ \A k \in 1 .. L : p[k].min \in Nat
  BY DEF Regular
<1>2. m[1] = i /\ Len(m) = L + 1 /\ \A n \in 1 .. L : m[n + 1] \in m[n] + p[n].min .. Size + 1
  <2>1. m[1] = i /\ Len(m) = L + 2 - 1
        /\ \A n \in 1 .. L + 1 - 1 : m[n + 1] \in m[n] + p[1 + n - 1].min .. Size + 1
    BY DEF Leads
  <2>2. L + 1 - 1 = L /\ L + 2 - 1 = L + 1 /\ \A n \in 1 .. L : 1 + n - 1 = n
    BY <1>1
  <2> QED
    BY <2>1, <2>2
<1>3. \A n \in 2 .. L + 1 : m[n] \in i + 1 .. Size + 1
  BY <1>1, LeadsOn
<1> HIDE DEF L
<1>4. \A n \in 1 .. L + 1 : m[n] \in Nat /\ i <= m[n] /\ m[n] <= Size + 1
  <2>1. \A n \in 1 .. L + 1 : n = 1 \/ n \in 2 .. L + 1
    BY <1>1
  <2> QED
    BY <1>2, <1>3, <2>1
<1>5. end \in i + 1 .. Size + 1
  BY <1>1, <1>3
<1>6. 0 \in S
  <2>1. L + 1 - 0 = L + 1
    BY <1>1
  <2> QED
    BY <1>1, <1>5, <2>1
<1>7. ASSUME NEW d \in 1 .. L, d - 1 \in S PROVE d \in S
  <2>1. L + 1 - d \in 1 .. L /\ (L + 1 - d) + 1 = L + 1 - (d - 1) /\ d \in 0 .. L /\ L + 1 - d \in 1 .. L + 1
    BY <1>1
  <2>2. m[L + 1 - (d - 1)] \in i .. end
    BY <1>7
  <2>3. m[L + 1 - (d - 1)] \in m[L + 1 - d] + p[L + 1 - d].min .. Size + 1 /\ p[L + 1 - d].min \in Nat
    BY <1>1, <1>2, <2>1
  <2>4. m[L + 1 - d] \in Nat /\ i <= m[L + 1 - d]
    BY <1>4, <2>1
  <2> HIDE DEF end
  <2>5. m[L + 1 - d] \in i .. end
    BY <1>5, <2>2, <2>3, <2>4
  <2> QED
    BY <2>1, <2>5
<1> HIDE DEF S, end
<1>8. 0 .. L \subseteq S
  BY <1>1, <1>6, <1>7, UpTo
<1>9. \A n \in 1 .. L + 1 : L + 1 - n \in 0 .. L /\ L + 1 - (L + 1 - n) = n
  BY <1>1
<1>10. \A n \in 1 .. L + 1 : m[n] \in i .. end
  BY <1>8, <1>9 DEF S
<1>11. Last(m) = end
  BY <1>2 DEF Last, end
<1> QED
  BY <1>2, <1>5, <1>10, <1>11 DEF L, end

(* What _groups finds with one such expression: a match, and what its      *)
(* groups hide lies within.                                                *)
LEMMA OneExpression ==
    ASSUME Size \in Nat, NEW p, Regular(p), NEW h \in Hits({p})
    PROVE  \E i \in 1 .. Size : \E m : h = Hit(p, m) /\ Leads(p, 1, i, m)
<1> DEFINE at == [i \in 1 .. Size |->
                    AnyOf({Hit(a[1], a[2]) : a \in {b \in {<<q, MatchAt(q, i)>> : q \in {p}} : b[2] # <<>>}})]
<1>1. ASSUME NEW i \in 1 .. Size, at[i] # <<>>
      PROVE  at[i] = Hit(p, MatchAt(p, i)) /\ MatchAt(p, i) # <<>>
  <2> DEFINE hits == {Hit(a[1], a[2]) : a \in {b \in {<<q, MatchAt(q, i)>> : q \in {p}} : b[2] # <<>>}}
  <2>1. ASSUME NEW y \in hits PROVE y = Hit(p, MatchAt(p, i)) /\ MatchAt(p, i) # <<>>
    <3>1. PICK a \in {b \in {<<q, MatchAt(q, i)>> : q \in {p}} : b[2] # <<>>} : y = Hit(a[1], a[2])
      BY Zenon
    <3>2. a = <<p, MatchAt(p, i)>> /\ a[2] # <<>>
      BY <3>1
    <3>3. a[1] = p /\ a[2] = MatchAt(p, i)
      BY <3>2
    <3> QED
      BY ONLY <3>1, <3>2, <3>3, Zenon
  <2>2. at[i] = AnyOf(hits)
    BY Zenon
  <2> HIDE DEF at, hits
  <2>3. at[i] \in hits
    BY <1>1, <2>2, Zenon DEF AnyOf
  <2> QED
    BY <2>1, <2>3
<1>2. h \in NonOverlapping(at)
  BY DEF Hits
<1> HIDE DEF at
<1>3. Len(p) \in Nat /\ \A k \in 1 .. Len(p) : p[k].min \in Nat
  BY DEF Regular
<1>4. ASSUME NEW i \in 1 .. Size, at[i] # <<>>
      PROVE  Leads(p, 1, i, MatchAt(p, i)) /\ Last(at[i]) \in i + 1 .. Size + 1
  <2>1. Leads(p, 1, i, MatchAt(p, i))
    BY <1>1, <1>3, <1>4, MatchLeads
  <2>2. Last(MatchAt(p, i)) \in i + 1 .. Size + 1
    BY <2>1, MatchGrows
  <2>3. Last(at[i]) = Last(MatchAt(p, i))
    <3>1. \A x, y, z : Last(<<x, y, z>>) = z
      BY DEF Last
    <3>2. \A q, m : Last(Hit(q, m)) = Last(m)
      BY ONLY <3>1 DEF Hit
    <3> QED
      BY <1>1, <1>4, <3>2
  <2> QED
    BY <2>1, <2>2, <2>3
<1> QED
  BY <1>1, <1>2, <1>4, OnlyMatches

LEMMA GroupsWithin ==
    ASSUME Size \in Nat, NEW p, Regular(p), NEW i \in 1 .. Size, NEW m, Leads(p, 1, i, m),
           NEW n \in GroupsOf(p, m)
    PROVE  n \in i .. Last(m) - 1
<1>1. PICK k \in 1 .. Len(p) : n \in m[k] .. m[k + 1] - 1
  BY Zenon DEF GroupsOf, Regular
<1>2. Len(p) \in Nat
  BY DEF Regular
<1>3. k \in 1 .. Len(p) + 1 /\ k + 1 \in 1 .. Len(p) + 1
  BY <1>2
<1>4. m[k] \in i .. Last(m) /\ m[k + 1] \in i .. Last(m) /\ Last(m) \in i + 1 .. Size + 1
  BY <1>3, MatchGrows
<1> QED
  BY <1>1, <1>4

(* An expression with a label in front and a value at the end is one.      *)
LEMMA RegularBetween ==
    ASSUME NEW S, NEW b \in Seq(S), \A x \in S : x.min \in Nat, NEW first, NEW last,
           first.min \in Nat \ {0}, last.min \in Nat
    PROVE  Regular(<<first>> \o b \o <<last>>)
<1> DEFINE T == S \cup {first, last}
           p == <<first>> \o b \o <<last>>
<1>1. \A x \in T : x.min \in Nat
  OBVIOUS
<1>2. <<first>> \in Seq(T) /\ b \in Seq(T) /\ <<last>> \in Seq(T)
  OBVIOUS
<1> HIDE DEF T
<1>3. <<first>> \o b \in Seq(T) /\ Len(<<first>> \o b) = 1 + Len(b)
      /\ (<<first>> \o b)[1] = first
  <2>1. Len(<<first>>) = 1 /\ <<first>>[1] = first /\ Len(b) \in Nat
    BY <1>2
  <2> QED
    BY <1>2, <2>1, ConcatProperties
<1> DEFINE q == <<first>> \o b
<1> HIDE DEF q
<1>4. q \in Seq(T) /\ Len(q) \in Nat /\ Len(q) >= 1 /\ q[1] = first
  <2>1. Len(b) \in Nat
    BY <1>2
  <2> QED
    BY <1>3, <2>1 DEF q
<1>5. q \o <<last>> \in Seq(T) /\ Len(q \o <<last>>) = Len(q) + 1 /\ (q \o <<last>>)[1] = first
  <2>1. Len(<<last>>) = 1
    OBVIOUS
  <2> QED
    BY <1>2, <1>4, <2>1, ConcatProperties
<1>6. p = q \o <<last>>
  BY DEF q
<1> HIDE DEF p
<1>7. /\ Len(p) \in Nat \ {0} /\ DOMAIN p = 1 .. Len(p) /\ p[1] = first
      /\ \A k \in 1 .. Len(p) : p[k] \in T
  BY <1>4, <1>5, <1>6
<1> QED
  BY <1>1, <1>7 DEF Regular, p

(* An entity hides the place it was made for, and begins with it.          *)
LEMMA EntityAt ==
    ASSUME NEW t, NEW places, NEW pr, NEW e \in EntitiesAt(t, places, pr)
    PROVE  /\ e.hidden \in places /\ e.hidden \in (SUBSET (1 .. Size)) \ {{}}
           /\ e.start = From[Min(e.hidden)]
<1>0. PICK dot, none : dot = FALSE /\ none = {}
  OBVIOUS
<1>1. PICK h \in places : e \in EntityTo(t, h, dot, pr, none)
  BY <1>0 DEF EntitiesAt, WeakAt, Entity
<1>2. h \in (SUBSET (1 .. Size)) \ {{}} /\ e.hidden = h /\ e.start = From[Min(h)]
  <2>1. e \in EntityTo(t, h, dot, pr, none)
    BY <1>1
  <2> QED
    BY ONLY <2>1, EntityParts
<1>3. e.hidden \in places
  BY <1>2
<1> QED
  BY ONLY <1>2, <1>3, Zenon

(* The window before a match that leaves a place to an organisation, and   *)
(* the match itself, hold no word of one.                                  *)
LEMMA NoCueWithin ==
    ASSUME text \in Seq(Lexemes), NEW c, NEW i \in 1 .. Size, NEW n \in 1 .. Size, i <= n,
           ~CueBefore(From[i], c, 40), \A k \in i .. n - 1 : ~Has(k, c)
    PROVE  ~CueBefore(From[n], c, 40)
<1> SUFFICES ASSUME NEW j \in 1 .. Size, Has(j, c), To(j) <= From[n], From[n] <= From[j] + 40 PROVE FALSE
  BY Zenon DEF CueBefore
<1>1. Size \in Nat /\ \A k \in 1 .. Size : From[k] \in Nat /\ To(k) \in Nat /\ From[k] < To(k)
  BY ONLY text \in Seq(Lexemes), Positions
<1>2. \A k, l \in 1 .. Size : k < l => To(k) <= From[l]
  BY ONLY text \in Seq(Lexemes), Positions
<1>3. j < n
  <2>1. j # n
    BY <1>1
  <2>2. ~(n < j)
    <3> SUFFICES ASSUME n < j PROVE FALSE
      OBVIOUS
    <3>1. To(n) <= From[j]
      BY <1>2
    <3> QED
      BY <1>1, <3>1
  <2> QED
    BY <1>1, <2>1, <2>2
<1>4. j < i
  BY <1>1, <1>3
<1>5. To(j) <= From[i] /\ From[i] <= From[n]
  <2>1. To(j) <= From[i]
    BY <1>2, <1>4
  <2>2. i < n => To(i) <= From[n]
    BY <1>2
  <2> QED
    BY <1>1, <2>1, <2>2
<1>6. From[i] <= From[j] + 40
  BY <1>1, <1>5
<1> QED
  BY <1>5, <1>6 DEF CueBefore

(* The INN after its label: no word of an organisation comes before or     *)
(* between.                                                                *)
LEMMA ClientInnOwn ==
    ASSUME text \in Seq(Lexemes), NEW S, NEW between \in Seq(S), \A x \in S : x.min \in Nat, NEW value, NEW pr
    PROVE  AllOwn(ClientInn(between, value, pr))
<1> DEFINE p == <<One({"inn"})>> \o between \o <<Value(value)>>
<1> SUFFICES ASSUME NEW e \in ClientInn(between, value, pr) PROVE ~CueBefore(e.start, "organisation_form", 40)
  BY DEF AllOwn, Own
<1>1. Regular(p)
  <2>1. \A cs : One(cs).min = 1 /\ Value(cs).min = 1
    BY DEF One, Value, Item
  <2> QED
    BY <2>1, RegularBetween
<1>2. PICK h \in Hits({p}) : ~OfOrganisation(h) /\ e.hidden = h[2]
  <2>1. ClientInn(between, value, pr) = EntitiesAt("inn", Places({h \in Hits({p}) : ~OfOrganisation(h)}), pr)
    BY Zenon DEF ClientInn
  <2>2. e.hidden \in Places({h \in Hits({p}) : ~OfOrganisation(h)})
    <3> DEFINE a == Places({h \in Hits({p}) : ~OfOrganisation(h)})
    <3>1. e \in EntitiesAt("inn", a, pr)
      BY <2>1, Zenon
    <3> HIDE DEF a
    <3>2. e.hidden \in a
      BY ONLY <3>1, EntityAt
    <3> QED
      BY <3>2 DEF a
  <2> HIDE DEF p
  <2> QED
    BY <2>2 DEF Places
<1>3. e.hidden \in (SUBSET (1 .. Size)) \ {{}} /\ e.start = From[Min(e.hidden)]
  <2>1. PICK a : e \in EntitiesAt("inn", a, pr)
    BY Zenon DEF ClientInn
  <2> QED
    BY ONLY <2>1, EntityAt
<1>4. Size \in Nat
  BY Positions
<1> HIDE DEF p
<1>5. PICK i \in 1 .. Size : \E m : h = Hit(p, m) /\ Leads(p, 1, i, m)
  BY <1>1, <1>4, OneExpression
<1>6. PICK m : h = Hit(p, m) /\ Leads(p, 1, i, m)
  BY <1>5
<1>7. h[1] = i /\ h[2] = GroupsOf(p, m) /\ h[3] = Last(m)
  <2>1. m[1] = i
    BY <1>6 DEF Leads
  <2> QED
    BY <1>6, <2>1 DEF Hit
<1> DEFINE n == Min(e.hidden)
<1>8. n \in e.hidden /\ n \in 1 .. Size
  <2> DEFINE s == e.hidden
  <2>1. s \in (SUBSET (1 .. Size)) \ {{}}
    BY <1>3
  <2> HIDE DEF s
  <2>2. s \in SUBSET Nat /\ s # {} /\ \A k \in s : k <= Size
    BY ONLY <1>4, <2>1
  <2>3. Min(s) \in s
    BY ONLY <1>4, <2>2, Extremes
  <2>4. n \in e.hidden
    BY <2>3 DEF s, n
  <2> QED
    BY <1>3, <2>4
<1> HIDE DEF n
<1>9. n \in i .. Last(m) - 1
  BY <1>1, <1>2, <1>4, <1>6, <1>7, <1>8, GroupsWithin
<1>10. ~CueBefore(From[i], "organisation_form", 40) /\ \A k \in i .. Last(m) - 1 : ~Has(k, "organisation_form")
  BY <1>2, <1>7 DEF OfOrganisation
<1>11. Last(m) \in i + 1 .. Size + 1
  BY <1>1, <1>4, <1>6, MatchGrows
<1>12. ~CueBefore(From[n], "organisation_form", 40)
  <2>1. i <= n /\ \A k \in i .. n - 1 : k \in i .. Last(m) - 1
    BY <1>4, <1>8, <1>9, <1>11
  <2> QED
    BY <1>8, <1>10, <2>1, NoCueWithin
<1> QED
  BY <1>3, <1>12 DEF n

(* Where the text begins nothing stands before. *)
LEMMA NoCueAtStart ==
    ASSUME text \in Seq(Lexemes), NEW n \in Nat, n > 0, 1 .. n \subseteq 1 .. Size, NEW c, NEW w
    PROVE  ~CueBefore(From[Min(1 .. n)], c, w)
<1>1. Size \in Nat /\ \A k \in 1 .. Size : From[k] \in Nat /\ To(k) \in Nat /\ From[k] < To(k)
  BY ONLY text \in Seq(Lexemes), Positions
<1>2. \A k, l \in 1 .. Size : k < l => To(k) <= From[l]
  BY ONLY text \in Seq(Lexemes), Positions
<1>3. Min(1 .. n) = 1
  <2> DEFINE s == 1 .. n
  <2>1. s \in SUBSET Nat /\ s # {} /\ (\A k \in s : k <= n) /\ 1 \in s /\ \A k \in s : k \in Nat /\ 1 <= k
    <3>1. n \in Nat /\ n > 0
      OBVIOUS
    <3>2. s \in SUBSET Nat /\ \A k \in s : k \in Nat /\ 1 <= k /\ k <= n
      BY ONLY <3>1
    <3>3. 1 \in s
      BY ONLY <3>1
    <3> QED
      BY <3>2, <3>3
  <2> HIDE DEF s
  <2>2. Min(s) \in s /\ \A k \in s : Min(s) <= k
    BY <2>1, Extremes
  <2> QED
    BY <2>1, <2>2 DEF s
<1>4. 1 \in 1 .. Size
  OBVIOUS
<1> SUFFICES ASSUME NEW j \in 1 .. Size, To(j) <= From[1] PROVE FALSE
  BY <1>3 DEF CueBefore
<1>5. j = 1 \/ 1 < j
  BY <1>1
<1>6. 1 < j => To(1) <= From[j]
  BY <1>2, <1>4
<1> QED
  BY <1>1, <1>4, <1>5, <1>6

(* InnDetector: the labelled one, and twelve digits with check digits.     *)
LEMMA InnsOwn ==
    ASSUME text \in Seq(Lexemes)
    PROVE  AllOwn(Inns)
<1>1. AllOwn(ClientInn(<<Opt({"of_person"}), Opt({":"})>>, {"ten", "twelve"}, 77))
  <2> DEFINE S == {Opt({"of_person"}), Opt({":"})}
  <2>1. \A x \in S : x.min \in Nat
    <3>1. \A cs : Opt(cs).min = 0
      BY DEF Opt, Item
    <3> QED
      BY <3>1
  <2>2. <<Opt({"of_person"}), Opt({":"})>> \in Seq(S)
    OBVIOUS
  <2> HIDE DEF S
  <2> QED
    BY ONLY text \in Seq(Lexemes), <2>1, <2>2, ClientInnOwn
<1>2. AllOwn(Found("inn", <<Value({"inn_valid"})>>, 42))
  <2> DEFINE p == <<Value({"inn_valid"})>>
  <2> SUFFICES ASSUME NEW e \in Found("inn", p, 42) PROVE \A k \in e.hidden : Has(k, "inn_valid")
    BY DEF AllOwn, Own
  <2>1. PICK h \in Hits({p}) : e.hidden = h[2]
    <3> DEFINE a == Places(Hits({p}))
    <3>2. e \in EntitiesAt("inn", a, 42)
      BY Zenon DEF Found, WeakFound, EntitiesAt
    <3> HIDE DEF a
    <3>3. e.hidden \in a
      BY ONLY <3>2, EntityAt
    <3>1. e.hidden \in Places(Hits({p}))
      BY <3>3 DEF a
    <3> HIDE DEF p
    <3> QED
      BY <3>1 DEF Places
  <2>a. Len(p) = 1 /\ p[1] = Value({"inn_valid"}) /\ DOMAIN p = 1 .. 1
    OBVIOUS
  <2>b. \A cs : Value(cs).of = cs /\ Value(cs).min = 1 /\ Value(cs).except = FALSE
    BY DEF Value, One, Item
  <2> HIDE DEF p
  <2>2. /\ Len(p) = 1 /\ p[1].of = {"inn_valid"} /\ p[1].except = FALSE
        /\ p[1].min = 1 /\ DOMAIN p = 1 .. 1
    BY ONLY <2>a, <2>b, Zenon
  <2>3. Size \in Nat
    BY Positions
  <2>4. Regular(p)
    BY <2>2 DEF Regular
  <2>5. PICK i \in 1 .. Size : \E m : h = Hit(p, m) /\ Leads(p, 1, i, m)
    BY <2>3, <2>4, OneExpression
  <2>6. PICK m : h = Hit(p, m) /\ Leads(p, 1, i, m)
    BY <2>5
  <2>7. e.hidden = GroupsOf(p, m)
    BY <2>1, <2>6 DEF Hit
  <2>8. \A k \in GroupsOf(p, m) : k \in m[1] .. m[1 + 1] - 1
    BY <2>2 DEF GroupsOf
  <2>9. Takes(p[1], m[1], m[1 + 1])
    <3>1. 1 \in 1 .. Len(p) + 1 - 1 /\ 1 + 1 - 1 = 1
      BY <2>2
    <3> QED
      BY <2>6, <3>1 DEF Leads
  <2>10. \A k \in m[1] .. m[1 + 1] - 1 : IsA(k, {"inn_valid"})
    <3> SUFFICES ASSUME NEW k \in m[1] .. m[1 + 1] - 1 PROVE IsA(k, {"inn_valid"})
      OBVIOUS
    <3>1. IsA(k, p[1].of) # p[1].except
      BY <2>9, Zenon DEF Takes
    <3>2. IsA(k, {"inn_valid"}) # FALSE
      BY <2>2, <3>1
    <3> QED
      BY <3>2 DEF IsA
  <2> QED
    BY <2>7, <2>8, <2>10 DEF IsA, Has
<1> QED
  BY <1>1, <1>2 DEF Inns, AllOwn

(* _numbers: the labelled one, and the text that is one number.            *)
LEMMA LabelledNumbersOwn ==
    ASSUME text \in Seq(Lexemes)
    PROVE  AllOwn(LabelledNumbers)
<1>1. AllOwn(ClientInn(<<Words>>, {"ten", "twelve", "inn_groups"}, 79))
  <2> DEFINE S == {Words}
  <2>1. Words.min = 0
    BY DEF Words, Gap, Opt, Item
  <2>2. \A x \in S : x.min \in Nat
    BY <2>1
  <2>3. <<Words>> \in Seq(S)
    OBVIOUS
  <2> HIDE DEF S
  <2> QED
    BY ONLY text \in Seq(Lexemes), <2>2, <2>3, ClientInnOwn
<1>2. AllOwn(WholeNumbers)
  <2> SUFFICES ASSUME NEW e \in WholeNumbers, e.type = "inn" PROVE ~CueBefore(e.start, "organisation_form", 40)
    BY DEF AllOwn, Own
  <2>1. \E a, b : \/ e \in EntitiesAt("inn", a, 79) /\ (\A h \in a : h = {1} /\ Size = 1)
                 \/ e \in EntitiesAt("passport", b, 79)
    <3> DEFINE whole(c) == IF Size = 1 /\ Has(1, c) THEN {{1}} ELSE {}
               a == whole("inn_groups")
               b == whole("dashed_document")
    <3>1. WholeNumbers = EntitiesAt("inn", a, 79) \cup EntitiesAt("passport", b, 79)
      BY Zenon DEF WholeNumbers
    <3>2. \A h \in a : h = {1} /\ Size = 1
      OBVIOUS
    <3> HIDE DEF a, b
    <3> QED
      BY <3>1, <3>2, Zenon
  <2>2. \A b : OfTypes(EntitiesAt("passport", b, 79), {"passport"})
    BY ONLY Ranks, AtTypes
  <2>3. PICK a : e \in EntitiesAt("inn", a, 79) /\ \A h \in a : h = {1} /\ Size = 1
    BY <2>1, <2>2 DEF OfTypes
  <2>4. e.hidden = {1} /\ Size = 1 /\ e.start = From[Min({1})]
    <3>1. e \in EntitiesAt("inn", a, 79)
      BY <2>3
    <3>2. e.hidden \in a /\ e.start = From[Min(e.hidden)]
      BY ONLY <3>1, EntityAt
    <3> QED
      BY <2>3, <3>2
  <2>5. {1} = 1 .. 1
    OBVIOUS
  <2>6. ~CueBefore(From[Min(1 .. 1)], "organisation_form", 40)
    <3>1. 1 \in Nat /\ 1 > 0 /\ 1 .. 1 \subseteq 1 .. Size
      BY <2>4
    <3> QED
      BY <3>1, NoCueAtStart
  <2> QED
    BY <2>4, <2>5, <2>6
<1>3. \A a : /\ OfTypes(EntitiesAt("passport", a, 44), {"passport"})
             /\ OfTypes(Found("department_code", a, 79), {"department_code"})
  BY ONLY Ranks, AtTypes, FoundTypes
<1>4. PICK a, b, c : LabelledNumbers = ((ClientInn(<<Words>>, {"ten", "twelve", "inn_groups"}, 79) \cup WholeNumbers)
                               \cup EntitiesAt("passport", b, 44)) \cup Found("department_code", c, 79)
  BY Zenon DEF LabelledNumbers
<1>5. AllOwn(EntitiesAt("passport", b, 44)) /\ AllOwn(Found("department_code", c, 79))
  BY <1>3 DEF OfTypes, AllOwn
<1> QED
  BY ONLY <1>1, <1>2, <1>4, <1>5 DEF AllOwn

(* What the whole text is has nothing before it.                           *)
LEMMA StandaloneOwn ==
    ASSUME text \in Seq(Lexemes)
    PROVE  AllOwn(Standalone)
<1> SUFFICES ASSUME NEW t, NEW e \in Entity(t, 1 .. ValueEnd, 90, {}) PROVE ~CueBefore(e.start, "organisation_form", 40)
  BY DEF Standalone, AllOwn, Own
<1>1. 1 .. ValueEnd \in (SUBSET (1 .. Size)) \ {{}} /\ e.start = From[Min(1 .. ValueEnd)]
  <2> DEFINE h == 1 .. ValueEnd
  <2>1. PICK dot, pr, r : dot = FALSE /\ pr = 90 /\ r = {}
    OBVIOUS
  <2>2. e \in EntityTo(t, h, dot, pr, r)
    BY <2>1, Zenon DEF Entity
  <2> HIDE DEF h
  <2>3. h \in (SUBSET (1 .. Size)) \ {{}} /\ e.start = From[Min(h)]
    BY ONLY <2>2, EntityParts
  <2> QED
    BY <2>3 DEF h
<1>2. ValueEnd \in Nat
  <2> DEFINE s == {0} \cup {i \in 1 .. Size : ~IsA(i, {".", ","})}
  <2>1. Size \in Nat
    BY Positions
  <2>a. \A n \in s : n = 0 \/ n \in 1 .. Size
    BY Zenon
  <2>b. 0 \in s
    BY Zenon
  <2>3. ValueEnd = Max(s)
    BY DEF ValueEnd
  <2> HIDE DEF s
  <2>2. s \in SUBSET Nat /\ s # {} /\ \A n \in s : n <= Size
    BY ONLY <2>1, <2>a, <2>b
  <2>4. Max(s) \in s
    BY <2>1, <2>2, Extremes
  <2> QED
    BY <2>2, <2>3, <2>4
<1>3. ValueEnd > 0 /\ 1 .. ValueEnd \subseteq 1 .. Size
  BY <1>1, <1>2
<1> QED
  BY <1>1, <1>2, <1>3, NoCueAtStart

(* No detector takes the INN of an organisation. *)
LEMMA DetectedOwn ==
    ASSUME text \in Seq(Lexemes), NEW d \in Range(Registry)
    PROVE  AllOwn(DetectedBy(d))
<1>1. ASSUME "inn" \notin DeclaredTypes[d] PROVE AllOwn(DetectedBy(d))
  BY <1>1, DetectedTypes DEF OfTypes, AllOwn
<1>2. CASE d = "Standalone"
  BY <1>2, StandaloneOwn DEF DetectedBy
<1>3. CASE d = "Inn"
  BY <1>3, InnsOwn DEF DetectedBy
<1>4. CASE d = "ContextValue"
  <2>1. DetectedBy(d) = Secrets \cup LabelledNumbers \cup LabelledIssuers \cup RoleNames
                        \cup BareNames \cup BareAddressEntities
    BY <1>4 DEF DetectedBy
  <2>2. /\ AllOwn(Secrets) /\ AllOwn(LabelledIssuers) /\ AllOwn(RoleNames)
        /\ AllOwn(BareNames) /\ AllOwn(BareAddressEntities)
    BY ContextTypes DEF OfTypes, AllOwn
  <2> QED
    BY <2>1, <2>2, LabelledNumbersOwn DEF AllOwn
<1>5. CASE d \notin {"Standalone", "Inn", "ContextValue"}
  <2>1. "inn" \notin DeclaredTypes[d]
    BY ONLY <1>5, DeclaredTypesOf, RegistryOf, d \in Range(Registry)
  <2> QED
    BY <1>1, <2>1
<1> QED
  BY <1>2, <1>3, <1>4, <1>5

-----------------------------------------------------------------------------
(* The engine with the detectors of the repository: what they find is fit   *)
(* for the two loops, and fine.                                            *)
LEMMA FoundFine ==
    ASSUME text \in Seq(Lexemes), NEW on
    PROVE  /\ \A e \in Range(FoundIn(on)) : IsEntity(e)
           /\ AllFine(Range(FoundIn(on))) /\ AllOwn(Range(FoundIn(on)))
<1> DEFINE f == FoundIn(on)
<1>1. Range(f) \subseteq UNION {DetectedBy(d) : d \in Range(Registry)}
  <2>1. f \in Seq(UNION {DetectedBy(d) : d \in Range(Registry)})
    BY FoundIsDetected
  <2> HIDE DEF f
  <2> QED
    BY <2>1 DEF Range
<1> HIDE DEF f
<1>2. ASSUME NEW e \in Range(f) PROVE IsEntity(e) /\ (e.type = "fio" => Fine(e)) /\ (e.type = "inn" => Own(e))
  <2>1. PICK d \in Range(Registry) : e \in DetectedBy(d)
    BY <1>1
  <2>2. Made(e)
    BY <2>1, DetectedTypes DEF OfTypes
  <2>3. AllFine(DetectedBy(d)) /\ AllOwn(DetectedBy(d))
    BY DetectedFine, DetectedOwn
  <2>4. IsEntity(e)
    BY ONLY text \in Seq(Lexemes), <2>2, MadeIsEntity
  <2> QED
    BY <2>1, <2>3, <2>4 DEF AllFine, AllOwn
<1>3. (\A e \in Range(f) : IsEntity(e)) /\ AllFine(Range(f)) /\ AllOwn(Range(f))
  BY <1>2 DEF AllFine, AllOwn
<1> QED
  BY <1>3 DEF f

(* What is fine stays so: the text does not change. *)
TextInv ==
    /\ IInv
    /\ text \in Seq(Lexemes)
    /\ AllFine(Range(found)) /\ AllOwn(Range(found))

(* What is fine depends on the text alone.                                 *)
LEMMA StaysFine ==
    ASSUME text' = text, NEW es, AllFine(es), AllOwn(es)
    PROVE  AllFine(es)' /\ AllOwn(es)'
<1>1. From' = From
  BY DEF From, Size, Glued, Has
<1>2. \A pos, c, window : CueBefore(pos, c, window)' <=> CueBefore(pos, c, window)
  BY <1>1 DEF CueBefore, To, Size, Has
<1>3. \A i : Renowned(i)' <=> Renowned(i)
  BY DEF Renowned, Has, Size
<1>4. \A e : Fine(e)' <=> Fine(e)
  BY <1>2, <1>3 DEF Fine
<1>5. \A e : Own(e)' <=> Own(e)
  BY <1>2 DEF Own, Has, Size
<1> QED
  BY <1>4, <1>5 DEF AllFine, AllOwn

LEMMA TextInitInv == TextInit => TextInv
<1> SUFFICES ASSUME TextInit PROVE TextInv
  OBVIOUS
<1>1. IInv /\ text \in Seq(Lexemes) /\ found = <<>>
  BY InitInv DEF TextInit, EngineInit
<1>2. Range(found) = {}
  BY <1>1 DEF Range
<1> QED
  BY <1>1, <1>2 DEF TextInv, AllFine, AllOwn

(* Every step of detect keeps it, whichever of its parts takes the step.   *)
LEMMA TextInductive == TextInv /\ [TextNext]_vars => TextInv'
<1> SUFFICES ASSUME TextInv, [TextNext]_vars PROVE TextInv'
  OBVIOUS
<1> USE DEF TextInv
<1>1. text' = text
  BY DEF TextNext, DetectText, vars
<1>2. CASE DetectText
  <2>1. Collect(FoundIn(policy.types))
    BY <1>2 DEF DetectText
  <2>2. found' = FoundIn(policy.types)
    BY <2>1 DEF Collect
  <2>3. /\ \A e \in Range(FoundIn(policy.types)) : IsEntity(e)
        /\ AllFine(Range(FoundIn(policy.types))) /\ AllOwn(Range(FoundIn(policy.types)))
    BY FoundFine
  <2>4. IInv'
    BY ONLY IInv, <2>1, <2>3, CollectInv
  <2> QED
    BY <1>1, <2>2, <2>3, <2>4, StaysFine
<1>3. CASE Select
  <2>1. IInv'
    BY <1>3, ConsiderInv, ResolvedInv, RequireInv DEF Select
  <2>2. found' = found
    BY <1>3 DEF Select, Consider, Resolved, Require
  <2> QED
    BY <1>1, <2>1, <2>2, StaysFine
<1>4. CASE UNCHANGED vars
  <2>1. UNCHANGED engineVars
    BY <1>4 DEF vars
  <2>2. IInv' /\ found' = found
    BY <2>1, IdleInv DEF engineVars
  <2> QED
    BY <1>1, <2>2, StaysFine
<1> QED
  BY <1>2, <1>3, <1>4 DEF TextNext

LEMMA TextInvariance == TextSpec => []TextInv
  BY TextInitInv, TextInductive, PTL DEF TextSpec

(* What the engine promises of any detectors it keeps for those of the     *)
(* repository, whose texts have any length: what they yield is finite, of  *)
(* the types they declare, and never an empty interval.                    *)
THEOREM TextEngineCorrect == TextSpec => [](TypeOK /\ Disjoint /\ LeftOutForCause /\ LargestSupported)
<1>1. TextInv => IInv
  BY DEF TextInv
<1> QED
  BY <1>1, TextInvariance, TypeFollows, DisjointFollows, LeftOutFollows, LargestFollows, PTL

(* A famous name is masked only after a word that makes it a client's,     *)
(* whichever of the five ways of finding names comes upon it (fio.py,      *)
(* _is_excluded).                                                          *)
THEOREM FamousCorrect == TextSpec => []FamousKept
<1>1. TextInv => FamousKept
  <2> SUFFICES ASSUME TextInv, NEW e \in HiddenAs("fio")
               PROVE  (\E i \in e.hidden : Has(i, "famous")) => CueBefore(e.start, "strong_cue", 40)
    BY DEF FamousKept
  <2>1. e \in Range(found) /\ e.type = "fio"
    <3>1. TypeOK
      BY TypeFollows DEF TextInv
    <3> QED
      BY <3>1 DEF TypeOK, Asked, HiddenAs
  <2> QED
    BY <2>1 DEF TextInv, AllFine, Fine, Renowned
<1> QED
  BY <1>1, TextInvariance, PTL

(* The INN of an organisation is left alone, unless its own check digits   *)
(* make it a person's, by all three detectors that take an INN             *)
(* (finance_contacts.py, context_values.py, standalone.py).                *)
THEOREM InnCorrect == TextSpec => []OrganisationInnKept
<1>1. TextInv => OrganisationInnKept
  <2> SUFFICES ASSUME TextInv, NEW e \in HiddenAs("inn") PROVE Own(e)
    BY DEF OrganisationInnKept, Own
  <2>1. e \in Range(found) /\ e.type = "inn"
    <3>1. TypeOK
      BY TypeFollows DEF TextInv
    <3> QED
      BY <3>1 DEF TypeOK, Asked, HiddenAs
  <2> QED
    BY <2>1 DEF TextInv, AllOwn
<1> QED
  BY <1>1, TextInvariance, PTL
=============================================================================
