--------------------------- MODULE MaskingProofs ----------------------------
(***************************************************************************)
(* For texts of any length with any number of entities: what the masks     *)
(* that work in place (full, partial) leave of a text, and what an answer  *)
(* is once its masks have been taken back.                                 *)
(*                                                                         *)
(* Masking.  Each round of the loop of Masker.mask extends the part of the *)
(* text that is already shown as it may be (IInv).                         *)
(*                                                                         *)
(* Restoring.  An answer is a row of pieces, the masks, with gaps between  *)
(* them (Joined).  A round of unmask_fragments turns every piece that is   *)
(* the mask into the value and leaves the rest alone (RInv), because the   *)
(* mask begins nowhere but at such a piece (Safe), for one reason or       *)
(* another: it is a label, longer masks are gone already, or nothing is    *)
(* ambiguous.  That str.replace does no more than that is shown by the     *)
(* least counterexample: a set of numbers has a least one.                 *)
(***************************************************************************)
EXTENDS Masking, FiniteSetTheorems, SequenceTheorems, TLAPS

(* An entity within a text of n characters. *)
IsEntity(e, n) ==
    /\ Start(e) \in 1 .. n /\ End(e) \in 1 .. n /\ Start(e) <= End(e)
    /\ \A p \in Range(e) : p[1] \in Start(e) .. n /\ p[2] \in 1 .. End(e)

(* What the engine found in the text. *)
Given ==
    /\ text \in Seq(Alphabet)
    /\ entities \in Seq(Range(entities))
    /\ rule \in Rules
    /\ \A h \in 1 .. Len(entities) :
          IsEntity(entities[h], Len(text)) /\ Positions(entities[h]) # {}
    /\ \A h \in 1 .. Len(entities) - 1 : End(entities[h]) < Start(entities[h + 1])

(* The first n characters of the text, those of hid hidden. *)
Shown(s, n, hid) ==
    /\ s \in Seq(Alphabet \cup {Star}) /\ Len(s) = n
    /\ \A i \in 1 .. n : s[i] = IF i \in hid THEN Star ELSE text[i]

(* What the masked entities hide. *)
HiddenSoFar == UNION {Hidden(entities[h]) : h \in 1 .. Done}

Progress ==
    /\ phase \in {"found", "masked", "returned"}
    /\ masked = [text |-> masked.text, fragments |-> masked.fragments]
    /\ masked.fragments \in Seq(Range(masked.fragments))
    /\ Done <= Len(entities)
    /\ Pos \in 1 .. Len(text) + 1
    /\ \A h \in 1 .. Done : End(entities[h]) < Pos
    /\ phase # "found" => Done = Len(entities)

IInv ==
    /\ Given /\ Progress
    /\ InPlace => Shown(masked.text, IF phase = "found" THEN Pos - 1 ELSE Len(text), HiddenSoFar)

-----------------------------------------------------------------------------
(* Entities lie within the text. *)
LEMMA FoundEntities ==
    ASSUME NEW n \in Nat, NEW e \in Parts(n), WellFormed(e)
    PROVE  IsEntity(e, n)
<1>1. CASE \E p \in (1 .. n) \X (1 .. n) : p[1] <= p[2] /\ e = <<p>>
  <2>1. PICK p \in (1 .. n) \X (1 .. n) : p[1] <= p[2] /\ e = <<p>>
    BY <1>1
  <2>2. Len(e) = 1 /\ e[1] = p /\ Range(e) = {p} /\ p[1] \in 1 .. n /\ p[2] \in 1 .. n
    BY <2>1 DEF Range
  <2> QED
    BY <2>1, <2>2 DEF IsEntity, Start, End
<1>2. CASE \E p, q \in (1 .. n) \X (1 .. n) : p[1] <= p[2] /\ q[1] <= q[2] /\ e = <<p, q>>
  <2>1. PICK p \in (1 .. n) \X (1 .. n), q \in (1 .. n) \X (1 .. n) :
           p[1] <= p[2] /\ q[1] <= q[2] /\ e = <<p, q>>
    BY <1>2
  <2>2. /\ Len(e) = 2 /\ e[1] = p /\ e[2] = q /\ Range(e) = {p, q}
        /\ p[1] \in 1 .. n /\ p[2] \in 1 .. n /\ q[1] \in 1 .. n /\ q[2] \in 1 .. n
    BY <2>1 DEF Range
  <2>3. p[2] < q[1]
    BY <2>2 DEF WellFormed
  <2> QED
    BY <2>1, <2>2, <2>3 DEF IsEntity, Start, End
<1> QED
  BY <1>1, <1>2 DEF Parts

(* The positions of an entity are within it, and finitely many. *)
LEMMA PositionsInside ==
    ASSUME Given, NEW h \in 1 .. Len(entities)
    PROVE  LET e == entities[h]
           IN  /\ Positions(e) \subseteq Start(e) .. End(e)
               /\ Positions(e) \subseteq 1 .. Len(text)
               /\ IsFiniteSet(Positions(e))
               /\ \A i \in Positions(e) : text[i] \in Alphanumeric
<1> DEFINE e == entities[h]
           n == Len(text)
<1>1. n \in Nat /\ DOMAIN text = 1 .. n /\ IsEntity(e, n)
  BY DEF Given
<1>2. Positions(e) \subseteq 1 .. n /\ Positions(e) \subseteq Start(e) .. End(e)
  <2> SUFFICES ASSUME NEW i \in Positions(e) PROVE i \in 1 .. n /\ i \in Start(e) .. End(e)
    OBVIOUS
  <2>1. i \in 1 .. n
    BY <1>1 DEF Positions
  <2>2. PICK p \in Range(e) : p[1] <= i /\ i <= p[2]
    BY DEF Positions
  <2> QED
    BY <1>1, <2>1, <2>2 DEF IsEntity
<1>3. 1 \in Int /\ n \in Int
  BY <1>1
<1> HIDE DEF n
<1>4. IsFiniteSet(1 .. n)
  BY <1>3, FS_Interval
<1>5. IsFiniteSet(Positions(e))
  BY <1>2, <1>4, FS_Subset
<1> QED
  BY <1>2, <1>5 DEF Positions, n

(* In a finite set of numbers each rank is that of some member. *)
LEMMA EveryRank ==
    ASSUME NEW P \in SUBSET Nat, IsFiniteSet(P), NEW r \in Nat, r < Cardinality(P)
    PROVE  \E i \in P : Cardinality({j \in P : j < i}) = r
<1> DEFINE below(i) == {j \in P : j < i}
           rank == [i \in P |-> Cardinality(below(i))]
           n == Cardinality(P)
<1>1. n \in Nat /\ n > 0
  BY FS_CardinalityType
<1>2. \A i \in P : IsFiniteSet(below(i)) /\ Cardinality(below(i)) \in Nat
  BY FS_Subset, FS_CardinalityType
<1>3. ASSUME NEW i \in P PROVE Cardinality(below(i)) < n
  <2>1. below(i) \in SUBSET P /\ i \notin below(i)
    OBVIOUS
  <2> HIDE DEF below
  <2>2. Cardinality(below(i)) <= n /\ (n = Cardinality(below(i)) => P = below(i))
    BY <2>1, FS_Subset
  <2> QED
    BY <1>1, <1>2, <2>1, <2>2
<1>4. ASSUME NEW i \in P, NEW k \in P, i < k PROVE Cardinality(below(i)) < Cardinality(below(k))
  <2>1. below(i) \in SUBSET below(k) /\ i \in below(k) /\ i \notin below(i)
    <3>1. \A j \in P : j \in Nat
      OBVIOUS
    <3>2. \A j \in P : j < i => j < k
      BY <1>4, <3>1
    <3>3. ~(i < i)
      BY <3>1
    <3> QED
      BY <1>4, <3>2, <3>3
  <2> HIDE DEF below
  <2>2. /\ Cardinality(below(i)) <= Cardinality(below(k))
        /\ Cardinality(below(k)) = Cardinality(below(i)) => below(k) = below(i)
    BY <1>2, <2>1, FS_Subset
  <2> QED
    BY <1>2, <2>1, <2>2
<1> HIDE DEF below
<1>5. rank \in [P -> 0 .. n - 1]
  BY <1>1, <1>2, <1>3
<1>6. ASSUME NEW i \in P, NEW k \in P, rank[i] = rank[k] PROVE i = k
  <2>1. ~(i < k) /\ ~(k < i)
    BY <1>2, <1>4, <1>6
  <2> QED
    BY <2>1
<1>7. rank \in Injection(P, 0 .. n - 1)
  BY <1>5, <1>6 DEF Injection, IsInjective
<1>8. IsFiniteSet(0 .. n - 1) /\ Cardinality(0 .. n - 1) = n
  <2> DEFINE m == n - 1
  <2>1. 0 \in Int /\ m \in Int /\ (IF 0 > m THEN 0 ELSE m - 0 + 1) = n
    BY <1>1
  <2> HIDE DEF m
  <2>2. IsFiniteSet(0 .. m) /\ Cardinality(0 .. m) = n
    BY <2>1, FS_Interval
  <2> QED
    BY <2>2 DEF m
<1>9. rank \in Surjection(P, 0 .. n - 1)
  <2> HIDE DEF rank
  <2> QED
    BY <1>7, <1>8, FS_Injection
<1>10. r \in 0 .. n - 1
  BY <1>1
<1>11. \E i \in P : rank[i] = r
  <2> HIDE DEF rank
  <2> QED
    BY <1>9, <1>10 DEF Surjection
<1> QED
  BY <1>11 DEF below

(* A mask in place hides a letter or digit of every entity, and nothing    *)
(* but letters and digits of it.                                           *)
LEMMA HidesSome ==
    ASSUME Given, NEW h \in 1 .. Len(entities)
    PROVE  LET e == entities[h] IN Hidden(e) # {} /\ Hidden(e) \subseteq Positions(e)
<1> DEFINE e == entities[h]
           n == Cardinality(Positions(e))
           rank(i) == Cardinality({j \in Positions(e) : j < i})
           keeps == rule.strategy = "partial" /\ n > rule.start + rule.end
<1>1. /\ Positions(e) # {} /\ IsFiniteSet(Positions(e)) /\ Positions(e) \in SUBSET Nat
      /\ rule.start \in Nat /\ rule.end \in Nat
  <2>1. Positions(e) \subseteq 1 .. Len(text) /\ Len(text) \in Nat
    BY PositionsInside DEF Given
  <2>2. Positions(e) \in SUBSET Nat
    BY <2>1
  <2>3. Positions(e) # {} /\ IsFiniteSet(Positions(e))
    BY PositionsInside DEF Given
  <2> QED
    BY <2>2, <2>3, MaskingAssumption DEF Given
<1>2. Hidden(e) = {i \in Positions(e) :
                      ~keeps \/ (rank(i) >= rule.start /\ rank(i) + rule.end < n)}
  BY DEF Hidden
<1>3. n \in Nat
  BY <1>1, FS_CardinalityType
<1>4. CASE keeps
  <2>1. rule.start < n
    BY <1>1, <1>3, <1>4
  <2>2. \E i \in Positions(e) : rank(i) = rule.start
    BY <1>1, <2>1, EveryRank
  <2>3. rule.start + rule.end < n
    BY <1>1, <1>3, <1>4
  <2> HIDE DEF rank, n, keeps
  <2> QED
    BY <1>1, <1>2, <2>2, <2>3
<1>5. CASE ~keeps
  <2> HIDE DEF rank, n, keeps
  <2> QED
    BY <1>1, <1>2, <1>5
<1>6. Hidden(e) \subseteq Positions(e)
  BY <1>2
<1> QED
  BY <1>4, <1>5, <1>6

(* What is added behind the text that is shown shows the next characters. *)
LEMMA Extended ==
    ASSUME NEW n \in Nat, NEW hid, NEW s, Shown(s, n, hid),
           NEW m \in Nat, NEW more, NEW t \in Seq(Alphabet \cup {Star}), Len(t) = m,
           \A k \in 1 .. m : t[k] = IF n + k \in more THEN Star ELSE text[n + k],
           hid \cap (n + 1 .. n + m) = {}, more \cap (1 .. n) = {}
    PROVE  Shown(s \o t, n + m, hid \cup more)
<1>1. /\ s \in Seq(Alphabet \cup {Star}) /\ Len(s) = n
      /\ \A i \in 1 .. n : s[i] = IF i \in hid THEN Star ELSE text[i]
  BY DEF Shown
<1>2. /\ s \o t \in Seq(Alphabet \cup {Star}) /\ Len(s \o t) = n + m
      /\ \A i \in 1 .. n + m : (s \o t)[i] = IF i <= n THEN s[i] ELSE t[i - n]
  <2> DEFINE A == Alphabet \cup {Star}
  <2>1. s \in Seq(A) /\ Len(s) = n /\ t \in Seq(A) /\ Len(t) = m
    BY <1>1
  <2> HIDE DEF A
  <2>2. /\ s \o t \in Seq(A) /\ Len(s \o t) = Len(s) + Len(t)
        /\ \A i \in 1 .. Len(s) + Len(t) :
              (s \o t)[i] = IF i <= Len(s) THEN s[i] ELSE t[i - Len(s)]
    BY ONLY <2>1, ConcatProperties
  <2>3. s \o t \in Seq(Alphabet \cup {Star})
    BY ONLY <2>2 DEF A
  <2> QED
    BY ONLY <2>1, <2>2, <2>3
<1> DEFINE u == s \o t
<1> HIDE DEF u
<1>3. ASSUME NEW i \in 1 .. n + m
      PROVE  u[i] = IF i \in hid \cup more THEN Star ELSE text[i]
  <2>1. CASE i <= n
    <3>1. i \in 1 .. n /\ i \notin more /\ u[i] = s[i]
      BY <1>2, <2>1 DEF u
    <3> QED
      BY <1>1, <3>1
  <2>2. CASE i > n
    <3>1. i - n \in 1 .. m /\ n + (i - n) = i /\ i \notin hid /\ u[i] = t[i - n]
      BY <1>2, <2>2 DEF u
    <3> QED
      BY <3>1
  <2>3. i <= n \/ i > n
    OBVIOUS
  <2> QED
    BY <2>1, <2>2, <2>3
<1> QED
  BY <1>2, <1>3 DEF Shown, u

(* The text between two entities, and behind the last, is shown as it is. *)
LEMMA GapShown ==
    ASSUME Given, NEW a \in 1 .. Len(text) + 1, NEW b \in 0 .. Len(text), a <= b + 1
    PROVE  LET t == SubSeq(text, a, b)
           IN  /\ t \in Seq(Alphabet \cup {Star}) /\ Len(t) = b - a + 1
               /\ \A k \in 1 .. b - a + 1 : t[k] = text[a - 1 + k]
<1>1. Len(text) \in Nat /\ \A i \in 1 .. Len(text) : text[i] \in Alphabet
  BY DEF Given
<1>2. a \in Int /\ b \in Int /\ \A i \in a .. b : text[i] \in Alphabet \cup {Star}
  BY <1>1
<1>3. /\ SubSeq(text, a, b) \in Seq(Alphabet \cup {Star})
      /\ Len(SubSeq(text, a, b)) = (IF a <= b THEN b - a + 1 ELSE 0)
      /\ \A i \in 1 .. b - a + 1 : SubSeq(text, a, b)[i] = text[a + i - 1]
  BY <1>2, SubSeqProperties
<1>4. \A k \in 1 .. b - a + 1 : a + k - 1 = a - 1 + k
  BY <1>1
<1> QED
  BY <1>1, <1>3, <1>4

(* The mask of an entity. *)
LEMMA InPlaceMask ==
    ASSUME Given, InPlace, NEW h \in 1 .. Len(entities)
    PROVE  LET e == entities[h]
               t == Apply(e)
               m == End(e) - Start(e) + 1
           IN  /\ t \in Seq(Alphabet \cup {Star}) /\ Len(t) = m
               /\ \A k \in 1 .. m : t[k] = IF Start(e) - 1 + k \in Hidden(e)
                                           THEN Star ELSE text[Start(e) - 1 + k]
<1> DEFINE e == entities[h]
           m == End(e) - Start(e) + 1
<1>1. /\ Len(text) \in Nat /\ \A i \in 1 .. Len(text) : text[i] \in Alphabet
      /\ Start(e) \in 1 .. Len(text) /\ End(e) \in 1 .. Len(text) /\ Start(e) <= End(e)
  BY DEF Given, IsEntity
<1>2. Apply(e) = Chars(e)
  BY DEF Apply, InPlace
<1>3. Chars(e) = [k \in 1 .. m |-> IF Start(e) + k - 1 \in Hidden(e)
                                   THEN Star ELSE text[Start(e) + k - 1]]
  BY DEF Chars
<1> HIDE DEF e
<1>4. m \in Nat /\ \A k \in 1 .. m : Start(e) + k - 1 \in 1 .. Len(text)
                                     /\ Start(e) + k - 1 = Start(e) - 1 + k
  BY <1>1
<1> HIDE DEF m
<1>5. \A k \in 1 .. m : Chars(e)[k] \in Alphabet \cup {Star}
  BY <1>1, <1>3, <1>4
<1>6. Chars(e) \in Seq(Alphabet \cup {Star}) /\ Len(Chars(e)) = m
  BY <1>3, <1>4, <1>5
<1> QED
  BY <1>2, <1>3, <1>4, <1>6 DEF e, m

-----------------------------------------------------------------------------
LEMMA MaskingInit == Init => IInv
<1> SUFFICES ASSUME Init PROVE IInv
  OBVIOUS
<1>1. PICK n \in 1 .. MaxLength : text \in [1 .. n -> Alphabet]
  BY DEF Init, Texts
<1>2. n \in Nat /\ Len(text) = n /\ text \in Seq(Alphabet)
  BY <1>1, MaskingAssumption
<1>3. PICK k \in 0 .. MaxEntities :
         /\ entities \in [1 .. k -> {e \in Parts(n) : WellFormed(e)}]
         /\ \A i \in 1 .. k - 1 : End(entities[i]) < Start(entities[i + 1])
  BY <1>2 DEF Init, Found
<1>4. k \in Nat /\ DOMAIN entities = 1 .. k /\ Len(entities) = k
  BY <1>3, MaskingAssumption
<1>5. entities \in Seq(Range(entities))
  <2>1. \A i \in 1 .. k : entities[i] \in Range(entities)
    BY <1>4 DEF Range
  <2>2. entities \in [1 .. k -> Range(entities)]
    BY <1>3, <2>1
  <2> QED
    BY <1>4, <2>2
<1>6. \A h \in 1 .. Len(entities) :
         IsEntity(entities[h], Len(text)) /\ Positions(entities[h]) # {}
  <2> SUFFICES ASSUME NEW h \in 1 .. Len(entities)
               PROVE  IsEntity(entities[h], Len(text)) /\ Positions(entities[h]) # {}
    OBVIOUS
  <2>1. entities[h] \in Parts(n) /\ WellFormed(entities[h])
    BY <1>3, <1>4
  <2>2. IsEntity(entities[h], n)
    BY <1>2, <2>1, FoundEntities
  <2> QED
    BY <1>2, <1>4, <2>2 DEF Init
<1>7. Given
  BY <1>2, <1>3, <1>4, <1>5, <1>6 DEF Given, Init
<1>8. masked.text = <<>> /\ masked.fragments = <<>> /\ phase = "found"
  BY DEF Init
<1>9. Done = 0 /\ Pos = 1
  BY <1>8 DEF Done, Pos
<1>10. Progress
  BY <1>2, <1>4, <1>8, <1>9 DEF Progress, Init
<1>11. Shown(masked.text, Pos - 1, HiddenSoFar)
  BY <1>8, <1>9 DEF Shown
<1> QED
  BY <1>7, <1>8, <1>10, <1>11 DEF IInv

(* What is asked and found does not change. *)
Task == <<text, entities, rule>>

LEMMA TaskKept ==
    ASSUME UNCHANGED Task
    PROVE  /\ Given => Given' /\ InPlace' = InPlace
           /\ \A e : Positions(e)' = Positions(e) /\ Hidden(e)' = Hidden(e)
<1>1. text' = text /\ entities' = entities /\ rule' = rule
  BY DEF Task
<1>2. \A e : Positions(e)' = Positions(e)
  BY <1>1 DEF Positions
<1>3. \A e : Hidden(e)' = Hidden(e)
  BY <1>1, <1>2 DEF Hidden
<1>4. InPlace' = InPlace
  BY <1>1 DEF InPlace
<1>5. Given => Given'
  BY <1>1, <1>2 DEF Given
<1> QED
  BY <1>2, <1>3, <1>4, <1>5

(* The entities that are masked hide nothing behind Pos. *)
LEMMA HiddenBefore ==
    ASSUME Given, Progress, NEW i \in HiddenSoFar PROVE i \in Nat /\ i < Pos
<1>1. PICK h \in 1 .. Done : i \in Hidden(entities[h])
  BY DEF HiddenSoFar
<1>2. h \in 1 .. Len(entities) /\ End(entities[h]) < Pos /\ Pos \in Nat
  BY DEF Given, Progress, Done
<1>3. i \in Start(entities[h]) .. End(entities[h])
  BY <1>1, <1>2, PositionsInside, HidesSome
<1> QED
  BY <1>2, <1>3 DEF Given, IsEntity

(* The entity that is masked next is one that was found. *)
LEMMA DoneRange ==
    ASSUME IInv
    PROVE  /\ Done \in Nat /\ Len(entities) \in Nat /\ Len(text) \in Nat
           /\ Pos \in 1 .. Len(text) + 1
           /\ Done < Len(entities) => Done + 1 \in 1 .. Len(entities)
<1>1. /\ masked.fragments \in Seq(Range(masked.fragments)) /\ Pos \in 1 .. Len(text) + 1
      /\ entities \in Seq(Range(entities)) /\ text \in Seq(Alphabet)
  BY DEF IInv, Given, Progress
<1>2. Done \in Nat
  BY <1>1, LenProperties DEF Done
<1>3. Len(entities) \in Nat /\ Len(text) \in Nat
  BY <1>1, LenProperties
<1> HIDE DEF Done
<1>4. Done < Len(entities) => Done + 1 \in 1 .. Len(entities)
  BY <1>2, <1>3
<1> QED
  BY <1>1, <1>2, <1>3, <1>4

LEMMA MaskEntityKeeps == ASSUME IInv, MaskEntity PROVE IInv'
<1> DEFINE e == entities[Done + 1]
           old == masked.text
           gap == SubSeq(text, Pos, Start(e) - 1)
           mask == Apply(e)
           anything == Alphabet \cup {Star}
<1>1. /\ Given /\ Progress /\ phase = "found" /\ phase' = "found" /\ UNCHANGED Task
      /\ masked'.text = old \o gap \o mask
      /\ masked'.fragments = Append(masked.fragments, <<Apply(e), Span(e)>>)
  BY DEF IInv, MaskEntity, Task
<1>2. /\ Done \in Nat /\ Done + 1 \in 1 .. Len(entities) /\ Len(entities) \in Nat
      /\ Len(text) \in Nat /\ Pos \in 1 .. Len(text) + 1
  BY DoneRange DEF MaskEntity
<1>3. /\ Start(e) \in 1 .. Len(text) /\ End(e) \in 1 .. Len(text) /\ Start(e) <= End(e)
      /\ Pos <= Start(e)
  <2>1. IsEntity(e, Len(text))
    BY <1>1, <1>2 DEF Given
  <2>2. CASE Done = 0
    BY <2>1, <2>2 DEF Pos, IsEntity
  <2>3. CASE Done # 0
    <3>1. Done \in 1 .. Len(entities) - 1
      BY <1>2, <2>3
    <3>2. IsEntity(entities[Done], Len(text)) /\ End(entities[Done]) < Start(e)
      <4>1. Given /\ Done \in 1 .. Len(entities)
        BY <1>1, <1>2, <3>1
      <4>2. IsEntity(entities[Done], Len(text))
        BY <4>1 DEF Given
      <4>3. End(entities[Done]) < Start(e)
        BY <4>1, <3>1 DEF Given
      <4> QED
        BY <4>2, <4>3
    <3>3. End(entities[Done]) \in Nat
      BY <3>2 DEF IsEntity
    <3> QED
      BY <2>1, <2>3, <3>2, <3>3 DEF Pos, IsEntity
  <2> QED
    BY <2>2, <2>3
<1>4. /\ masked'.fragments \in Seq(Range(masked'.fragments)) /\ Done' = Done + 1
  <2> DEFINE f == masked.fragments
             g == Append(f, <<Apply(e), Span(e)>>)
  <2>1. f \in Seq(Range(f)) /\ Len(f) = Done
    BY <1>1 DEF Progress, Done
  <2> HIDE DEF f
  <2>2. /\ Len(g) = Done + 1 /\ DOMAIN g = 1 .. Done + 1
        /\ g \in Seq(Range(f) \cup {<<Apply(e), Span(e)>>})
    BY <1>2, <2>1
  <2> HIDE DEF g
  <2>3. g \in Seq(Range(g))
    BY <1>2, <2>2 DEF Range
  <2> QED
    BY <1>1, <2>2, <2>3 DEF f, g, Done
<1>5. Pos' = End(e) + 1
  BY <1>1, <1>2, <1>4 DEF Pos, Task
<1>6. \A h \in 1 .. Done' : End(entities'[h]) < Pos'
  <2>1. entities' = entities /\ Done' = Done + 1 /\ Pos' = End(e) + 1
    BY <1>1, <1>4, <1>5 DEF Task
  <2>2. \A h \in 1 .. Done : End(entities[h]) \in Nat /\ End(entities[h]) < Pos
    <3>1. \A h \in 1 .. Done : h \in 1 .. Len(entities)
      BY <1>2
    <3>2. \A h \in 1 .. Done : IsEntity(entities[h], Len(text))
      BY <1>1, <3>1 DEF Given
    <3> HIDE DEF e
    <3> QED
      BY <1>1, <1>2, <3>2 DEF IsEntity, Progress
  <2> SUFFICES ASSUME NEW h \in 1 .. Done + 1 PROVE End(entities[h]) < End(e) + 1
    BY <2>1
  <2>3. CASE h = Done + 1
    BY <1>3, <2>3
  <2>4. CASE h # Done + 1
    <3>1. h \in 1 .. Done
      BY <1>2, <2>4
    <3>2. /\ End(entities[h]) \in Nat /\ End(entities[h]) < Pos
          /\ Pos \in Nat /\ Start(e) \in Nat /\ End(e) \in Nat
          /\ Pos <= Start(e) /\ Start(e) <= End(e)
      BY <1>2, <1>3, <2>2, <3>1
    <3> HIDE DEF e
    <3> QED
      BY <3>2
  <2> QED
    BY <2>3, <2>4
<1>7. Progress'
  <2>1. Done' <= Len(entities')
    BY <1>1, <1>2, <1>4 DEF Task
  <2>2. Pos' \in 1 .. Len(text') + 1
    <3>1. Len(text') = Len(text)
      BY <1>1 DEF Task
    <3> HIDE DEF e
    <3> QED
      BY <1>2, <1>3, <1>5, <3>1
  <2>3. /\ masked' = [text |-> masked'.text, fragments |-> masked'.fragments]
        /\ phase' = "found"
    BY <1>1 DEF MaskEntity
  <2> QED
    BY <1>4, <1>6, <2>1, <2>2, <2>3 DEF Progress
<1>8. Given'
  BY <1>1, TaskKept
<1>9. ASSUME InPlace PROVE Shown(masked.text, Pos - 1, HiddenSoFar)'
  <2> DEFINE hid == HiddenSoFar
             more == Hidden(e)
             n == Pos - 1
             k == Start(e) - Pos
             m == End(e) - Start(e) + 1
  <2>1. Shown(old, n, hid)
    BY <1>1, <1>9 DEF IInv
  <2>2. /\ gap \in Seq(anything) /\ Len(gap) = k
        /\ \A j \in 1 .. k : gap[j] = text[n + j]
    <3>1. /\ Pos \in 1 .. Len(text) + 1 /\ Start(e) - 1 \in 0 .. Len(text)
          /\ Pos <= Start(e) - 1 + 1 /\ Start(e) - 1 - Pos + 1 = k
      BY <1>2, <1>3
    <3> QED
      BY <1>1, <3>1, GapShown
  <2>3. /\ mask \in Seq(anything) /\ Len(mask) = m
        /\ \A j \in 1 .. m : mask[j] = IF Start(e) - 1 + j \in more
                                       THEN Star ELSE text[Start(e) - 1 + j]
    BY <1>1, <1>2, <1>9, InPlaceMask
  <2>4. n \in Nat /\ k \in Nat /\ m \in Nat /\ n + k = Start(e) - 1 /\ n + k + m = End(e)
    <3>1. \A p, a, b \in Int : 1 <= p /\ p <= a /\ a <= b =>
             /\ p - 1 \in Nat /\ a - p \in Nat /\ b - a + 1 \in Nat
             /\ (p - 1) + (a - p) = a - 1 /\ (p - 1) + (a - p) + (b - a + 1) = b
      OBVIOUS
    <3>2. Pos \in Int /\ Start(e) \in Int /\ End(e) \in Int
          /\ 1 <= Pos /\ Pos <= Start(e) /\ Start(e) <= End(e)
      BY <1>2, <1>3
    <3> QED
      BY ONLY <3>1, <3>2
  <2>5. \A i \in hid : i \in Nat /\ i <= n
    BY <1>1, <1>2, HiddenBefore
  <2>6. \A i \in more : i \in Nat /\ i > n + k
    <3>1. more \subseteq Start(e) .. End(e)
      BY <1>1, <1>2, PositionsInside, HidesSome
    <3> HIDE DEF more
    <3>2. \A i \in Start(e) .. End(e) : i \in Nat /\ i > Start(e) - 1
      BY <1>3
    <3> QED
      BY <2>4, <3>1, <3>2
  <2>7. HiddenSoFar' = hid \cup more
    <3>1. HiddenSoFar' = UNION {Hidden(entities[h]) : h \in 1 .. Done + 1}
      BY <1>1, <1>4, TaskKept DEF HiddenSoFar, Task
    <3>2. 1 .. Done + 1 = (1 .. Done) \cup {Done + 1}
      BY <1>2
    <3> QED
      BY <3>1, <3>2 DEF HiddenSoFar
  <2> HIDE DEF hid, more, n, k, m, gap, mask, old, e, anything
  <2>8. Shown(old \o gap, n + k, hid \cup {})
    <3>1. /\ \A j \in 1 .. k : gap[j] = IF n + j \in {} THEN Star ELSE text[n + j]
          /\ hid \cap (n + 1 .. n + k) = {} /\ {} \cap (1 .. n) = {}
      BY <2>2, <2>4, <2>5
    <3> QED
      BY <2>1, <2>2, <2>4, <3>1, Extended DEF anything
  <2>9. Shown(old \o gap \o mask, n + k + m, hid \cup {} \cup more)
    <3>1. /\ \A j \in 1 .. m : mask[j] = IF n + k + j \in more THEN Star ELSE text[n + k + j]
          /\ (hid \cup {}) \cap (n + k + 1 .. n + k + m) = {} /\ more \cap (1 .. n + k) = {}
      BY <2>3, <2>4, <2>5, <2>6
    <3>2. n + k \in Nat
      BY <2>4
    <3> QED
      BY <2>3, <2>4, <2>8, <3>1, <3>2, Extended DEF anything
  <2>10. Pos' - 1 = n + k + m /\ hid \cup {} \cup more = HiddenSoFar'
    BY <1>3, <1>5, <2>4, <2>7 DEF e
  <2>11. Shown(masked'.text, Pos' - 1, HiddenSoFar')
    BY <1>1, <2>9, <2>10 DEF gap, mask, old, e
  <2> QED
    BY <1>1, <2>11 DEF Shown, Task
<1>10. InPlace' = InPlace
  BY <1>1, TaskKept
<1> QED
  BY <1>1, <1>7, <1>8, <1>9, <1>10 DEF IInv

LEMMA MaskRestKeeps == ASSUME IInv, MaskRest PROVE IInv'
<1> DEFINE gap == SubSeq(text, Pos, Len(text))
           old == masked.text
<1>1. /\ Given /\ Progress /\ phase = "found" /\ phase' = "masked" /\ UNCHANGED Task
      /\ masked' = [text |-> old \o gap, fragments |-> masked.fragments]
      /\ Done = Len(entities)
  <2>1. masked = [text |-> old, fragments |-> masked.fragments]
    BY DEF IInv, Progress
  <2>2. masked' = [masked EXCEPT !.text = @ \o gap]
    BY DEF MaskRest
  <2>3. masked' = [text |-> old \o gap, fragments |-> masked.fragments]
    BY <2>1, <2>2
  <2> QED
    BY <2>3 DEF IInv, MaskRest, Task
<1>2. masked'.fragments = masked.fragments
  BY <1>1
<1>3. Done' = Done /\ Pos' = Pos
  BY <1>1, <1>2 DEF Done, Pos, Task
<1>4. Given' /\ InPlace' = InPlace
  BY <1>1, TaskKept
<1>5. Progress'
  BY <1>1, <1>2, <1>3 DEF Progress, Task
<1>6. HiddenSoFar' = HiddenSoFar
  BY <1>1, <1>3, TaskKept DEF HiddenSoFar, Task
<1>7. Len(text) \in Nat /\ Pos \in 1 .. Len(text) + 1
  BY <1>1 DEF Given, Progress
<1>8. ASSUME InPlace PROVE Shown(old \o gap, Len(text), HiddenSoFar)
  <2> DEFINE n == Pos - 1
             k == Len(text) - n
             hid == HiddenSoFar
  <2>1. Shown(old, n, hid)
    BY <1>1, <1>8 DEF IInv
  <2>2. /\ gap \in Seq(Alphabet \cup {Star}) /\ Len(gap) = k
        /\ \A j \in 1 .. k : gap[j] = text[n + j]
    <3>1. /\ Len(text) \in 0 .. Len(text) /\ Pos <= Len(text) + 1
          /\ Len(text) - Pos + 1 = k
      BY <1>7
    <3> QED
      BY <1>1, <1>7, <3>1, GapShown
  <2>3. n \in Nat /\ k \in Nat /\ n + k = Len(text)
    BY <1>7
  <2>4. \A i \in hid : i \in Nat /\ i <= n
    BY <1>1, <1>7, HiddenBefore
  <2> HIDE DEF n, k, hid, gap, old
  <2>5. /\ \A j \in 1 .. k : gap[j] = IF n + j \in {} THEN Star ELSE text[n + j]
        /\ hid \cap (n + 1 .. n + k) = {} /\ {} \cap (1 .. n) = {}
    BY <2>2, <2>3, <2>4
  <2>6. Shown(old \o gap, n + k, hid \cup {})
    BY <2>1, <2>2, <2>3, <2>5, Extended
  <2> QED
    BY <2>3, <2>6 DEF hid
<1>9. ASSUME InPlace PROVE Shown(masked.text, Len(text), HiddenSoFar)'
  <2>1. old \o gap = masked'.text
    BY <1>1
  <2> QED
    BY <1>1, <1>6, <1>8, <1>9, <2>1 DEF Shown, Task
<1> QED
  BY <1>1, <1>4, <1>5, <1>9 DEF IInv

(* What comes after the masking leaves the masked text alone. *)
LEMMA LaterKeeps ==
    ASSUME IInv, UNCHANGED <<Task, masked>>, phase' = phase \/ (phase # "found" /\ phase' # "found"),
           phase' \in {"found", "masked", "returned"}
    PROVE  IInv'
<1>1. /\ UNCHANGED Task /\ masked' = masked /\ text' = text /\ entities' = entities
      /\ phase' = "found" <=> phase = "found"
  BY DEF Task
<1>2. Done' = Done /\ Pos' = Pos
  BY <1>1 DEF Done, Pos
<1>3. Given' /\ InPlace' = InPlace
  BY <1>1, TaskKept DEF IInv
<1>4. HiddenSoFar' = HiddenSoFar
  BY <1>1, <1>2, TaskKept DEF HiddenSoFar
<1>5. Progress'
  BY <1>1, <1>2 DEF IInv, Progress
<1>6. (InPlace => Shown(masked.text, IF phase = "found" THEN Pos - 1 ELSE Len(text), HiddenSoFar))'
  BY <1>1, <1>2, <1>3, <1>4 DEF IInv, Shown
<1> QED
  BY <1>3, <1>5, <1>6 DEF IInv

LEMMA MaskingStep == IInv /\ [Next]_vars => IInv'
<1> SUFFICES ASSUME IInv, [Next]_vars PROVE IInv'
  OBVIOUS
<1>1. CASE UNCHANGED vars
  BY <1>1, LaterKeeps DEF vars, Task, IInv, Progress
<1>2. CASE Return
  BY <1>2, LaterKeeps DEF Return, Task
<1>3. CASE RestoreFragment
  BY <1>3, LaterKeeps DEF RestoreFragment, Task
<1> QED
  BY <1>1, <1>2, <1>3, MaskEntityKeeps, MaskRestKeeps DEF Next

LEMMA MaskingInvariant == Spec => []IInv
BY MaskingInit, MaskingStep, PTL DEF Spec

-----------------------------------------------------------------------------
(* Masking in place (Masker._chars) hides at least one letter or digit of  *)
(* each entity, and changes nothing but letters and digits of entities:    *)
(* for texts of any length, any number of entities and any keep_start and  *)
(* keep_end.                                                               *)
THEOREM HidingCorrect == Spec => []HidesInPlace
<1>1. IInv => HidesInPlace
  <2> SUFFICES ASSUME IInv, phase # "found", InPlace
               PROVE  /\ Len(masked.text) = Len(text)
                      /\ \A i \in DOMAIN text :
                            masked.text[i] # text[i] =>
                               \E e \in Range(entities) : i \in Positions(e)
                      /\ \A e \in Range(entities) : \E i \in Positions(e) :
                            masked.text[i] # text[i]
    BY DEF HidesInPlace
  <2>1. /\ Given /\ Progress /\ Done = Len(entities) /\ Len(entities) \in Nat
        /\ DOMAIN entities = 1 .. Len(entities) /\ DOMAIN text = 1 .. Len(text)
        /\ Shown(masked.text, Len(text), HiddenSoFar)
    BY DEF IInv, Progress, Given
  <2>2. /\ Len(masked.text) = Len(text)
        /\ \A i \in 1 .. Len(text) :
              masked.text[i] = IF i \in HiddenSoFar THEN Star ELSE text[i]
    BY <2>1 DEF Shown
  <2>3. HiddenSoFar = UNION {Hidden(entities[h]) : h \in 1 .. Len(entities)}
    BY <2>1 DEF HiddenSoFar
  <2>4. \A h \in 1 .. Len(entities) :
           Hidden(entities[h]) # {} /\ Hidden(entities[h]) \subseteq Positions(entities[h])
    BY <2>1, HidesSome
  <2>5. ASSUME NEW i \in DOMAIN text, masked.text[i] # text[i]
        PROVE  \E e \in Range(entities) : i \in Positions(e)
    <3>1. PICK h \in 1 .. Len(entities) : i \in Hidden(entities[h])
      BY <2>1, <2>2, <2>3, <2>5
    <3> QED
      BY <2>1, <2>4, <3>1 DEF Range
  <2>6. ASSUME NEW e \in Range(entities)
        PROVE  \E i \in Positions(e) : masked.text[i] # text[i]
    <3>1. PICK h \in 1 .. Len(entities) : e = entities[h]
      BY <2>1 DEF Range
    <3>2. PICK i \in Hidden(e) : i \in Positions(e)
      BY <2>4, <3>1
    <3>3. i \in HiddenSoFar
      BY <2>3, <3>1, <3>2
    <3>4. i \in 1 .. Len(text) /\ text[i] \in Alphanumeric
      BY <2>1, <3>1, <3>2, PositionsInside
    <3>5. masked.text[i] = Star
      BY <2>2, <3>3, <3>4
    <3> QED
      BY <3>2, <3>4, <3>5, MaskingAssumption
  <2> QED
    BY <2>2, <2>5, <2>6
<1> QED
  BY <1>1, MaskingInvariant, PTL

-----------------------------------------------------------------------------
(* A set of numbers that is not empty has a least one. *)
LEMMA LeastNumber ==
    ASSUME NEW S \in SUBSET Nat, S # {}
    PROVE  \E n \in S : \A m \in S : n <= m
<1> DEFINE R == {ss \in Nat \X Nat : ss[1] < ss[2]}
<1>1. IsWellFoundedOn(R, Nat)
  BY NatLessThanWellFounded DEF OpToRel
<1>2. \A m, n \in Nat : m < n => <<m, n>> \in R
  OBVIOUS
<1> HIDE DEF R
<1>3. PICK n \in S : \A m \in S : ~(<<m, n>> \in R)
  BY <1>1, WFMin
<1>4. \A m \in S : m \in Nat
  OBVIOUS
<1>5. \A m \in S : ~(m < n)
  BY <1>2, <1>3, <1>4
<1>6. \A m \in S : n <= m
  BY <1>4, <1>5
<1> QED
  BY <1>6

(* Texts that are made from the back: that of length n by putting a[n]     *)
(* before one that is d[n] shorter.                                        *)
Unrolls(f, n, a, d) ==
    /\ f[0] = <<>>
    /\ \A k \in 1 .. n : f[k] = a[k] \o f[k - d[k]]

LEMMA UnrollingExists ==
    ASSUME NEW S, NEW n \in Nat, NEW a \in [1 .. n -> Seq(S)], NEW d \in [1 .. n -> Nat],
           \A k \in 1 .. n : d[k] \in 1 .. k
    PROVE  \E f \in [0 .. n -> Seq(S)] : Unrolls(f, n, a, d)
<1> DEFINE Has(k) == \E f \in [0 .. k -> Seq(S)] : Unrolls(f, k, a, d)
           Bad == {k \in 0 .. n : ~Has(k)}
<1>1. Has(0)
  <2> DEFINE f == [k \in 0 .. 0 |-> <<>>]
  <2>1. f \in [0 .. 0 -> Seq(S)] /\ f[0] = <<>>
    BY EmptySeq
  <2> HIDE DEF f
  <2>2. Unrolls(f, 0, a, d)
    BY <2>1 DEF Unrolls
  <2> QED
    BY <2>1, <2>2
<1>2. ASSUME NEW k \in 1 .. n, Has(k - 1) PROVE Has(k)
  <2>1. PICK f \in [0 .. k - 1 -> Seq(S)] : Unrolls(f, k - 1, a, d)
    BY <1>2
  <2> DEFINE g == [j \in 0 .. k |-> IF j = k THEN a[k] \o f[k - d[k]] ELSE f[j]]
  <2>2. k - d[k] \in 0 .. k - 1 /\ a[k] \in Seq(S)
    OBVIOUS
  <2>3. f[k - d[k]] \in Seq(S)
    BY <2>2
  <2>4. a[k] \o f[k - d[k]] \in Seq(S)
    BY <2>2, <2>3, ConcatProperties
  <2>5. \A j \in 0 .. k : j # k => j \in 0 .. k - 1
    OBVIOUS
  <2>6. g \in [0 .. k -> Seq(S)]
    BY <2>4, <2>5
  <2>7. g[k] = a[k] \o f[k - d[k]] /\ \A j \in 0 .. k - 1 : g[j] = f[j]
    <3>1. k \in 0 .. k /\ \A j \in 0 .. k - 1 : j \in 0 .. k /\ j # k
      OBVIOUS
    <3> QED
      BY <3>1
  <2> HIDE DEF g
  <2>8. ASSUME NEW j \in 1 .. k PROVE g[j] = a[j] \o g[j - d[j]]
    <3>1. CASE j = k
      BY <2>2, <2>7, <3>1
    <3>2. CASE j # k
      <4>1. j \in 1 .. k - 1 /\ j \in 0 .. k - 1
        BY <3>2
      <4>2. d[j] \in 1 .. j
        BY <4>1
      <4>3. j - d[j] \in 0 .. k - 1
        <5> DEFINE dj == d[j]
        <5>1. dj \in 1 .. j
          BY <4>2
        <5> HIDE DEF dj
        <5>2. j - dj \in 0 .. k - 1
          BY <4>1, <5>1
        <5> QED
          BY <5>2 DEF dj
      <4>4. f[j] = a[j] \o f[j - d[j]]
        BY <2>1, <4>1 DEF Unrolls
      <4> QED
        BY <2>7, <4>1, <4>3, <4>4
    <3> QED
      BY <3>1, <3>2
  <2>9. g[0] = <<>>
    <3>1. f[0] = <<>>
      BY <2>1 DEF Unrolls
    <3>2. 0 \in 0 .. k - 1
      OBVIOUS
    <3> QED
      BY <2>7, <3>1, <3>2
  <2>10. Unrolls(g, k, a, d)
    BY <2>8, <2>9 DEF Unrolls
  <2> QED
    BY <2>6, <2>10
<1>3. Bad = {}
  <2> HIDE DEF Has
  <2> SUFFICES ASSUME Bad # {} PROVE FALSE
    OBVIOUS
  <2>1. Bad \in SUBSET Nat
    OBVIOUS
  <2>2. PICK k \in Bad : \A j \in Bad : k <= j
    BY <2>1, LeastNumber
  <2>3. k \in 1 .. n
    BY <1>1, <2>2
  <2>4. k - 1 \in 0 .. n /\ k - 1 \notin Bad
    BY <2>2, <2>3
  <2> QED
    BY <1>2, <2>2, <2>3, <2>4
<1> HIDE DEF Has
<1>4. n \in 0 .. n /\ n \notin Bad
  BY <1>3
<1>5. Has(n)
  BY <1>4
<1> QED
  BY <1>5 DEF Has

LEMMA UnrollingUnique ==
    ASSUME NEW m \in Nat, NEW a, NEW d, NEW f, NEW g,
           \A k \in 1 .. m : d[k] \in 1 .. k,
           Unrolls(f, m, a, d), Unrolls(g, m, a, d)
    PROVE  f[m] = g[m]
<1> DEFINE Bad == {k \in 0 .. m : f[k] # g[k]}
<1> SUFFICES Bad = {}
  OBVIOUS
<1> SUFFICES ASSUME Bad # {} PROVE FALSE
  OBVIOUS
<1>1. Bad \in SUBSET Nat
  OBVIOUS
<1>2. PICK k \in Bad : \A j \in Bad : k <= j
  BY <1>1, LeastNumber
<1>3. k \in 1 .. m
  <2>1. f[0] = g[0]
    BY DEF Unrolls
  <2> QED
    BY <1>2, <2>1
<1>4. k - d[k] \in 0 .. m /\ ~(k <= k - d[k])
  <2> DEFINE dk == d[k]
  <2>1. dk \in 1 .. k
    BY <1>3
  <2> HIDE DEF dk
  <2>2. k - dk \in 0 .. m /\ ~(k <= k - dk)
    BY <1>3, <2>1
  <2> QED
    BY <2>2 DEF dk
<1>5. f[k - d[k]] = g[k - d[k]]
  BY <1>2, <1>4
<1>6. f[k] = a[k] \o f[k - d[k]] /\ g[k] = a[k] \o g[k - d[k]]
  BY <1>3 DEF Unrolls
<1> QED
  BY <1>2, <1>5, <1>6

(* An occurrence, character by character. *)
LEMMA AtPointwise ==
    ASSUME NEW S, NEW s \in Seq(S), NEW m \in Seq(S), NEW i \in 1 .. Len(s), m # <<>>
    PROVE  At(s, i, m) <=> /\ i + Len(m) - 1 <= Len(s)
                           /\ \A k \in 1 .. Len(m) : s[i + k - 1] = m[k]
<1>1. Len(s) \in Nat /\ Len(m) \in Nat \ {0} /\ \A k \in 1 .. Len(s) : s[k] \in S
  BY EmptySeq, LenProperties, ElementOfSeq
<1> DEFINE j == i + Len(m) - 1
           u == SubSeq(s, i, j)
<1> SUFFICES ASSUME j <= Len(s)
             PROVE  u = m <=> \A k \in 1 .. Len(m) : s[i + k - 1] = m[k]
  BY DEF At
<1>2. i \in Int /\ j \in Int /\ i <= j /\ j - i + 1 = Len(m) /\ \A k \in i .. j : s[k] \in S
  BY <1>1
<1> HIDE DEF j
<1>3. u \in Seq(S) /\ Len(u) = Len(m) /\ \A k \in 1 .. Len(m) : u[k] = s[i + k - 1]
  BY <1>2, SubSeqProperties
<1> HIDE DEF u
<1>4. ASSUME \A k \in 1 .. Len(m) : s[i + k - 1] = m[k] PROVE u = m
  BY <1>3, <1>4, SeqEqual
<1> QED
  BY <1>3, <1>4

(* What str.replace does to the last characters of s, more and more of them. *)
Backed(f, s, m, by) ==
    /\ f[0] = <<>>
    /\ \A n \in 1 .. Len(s) :
          f[n] = IF At(s, Len(s) - n + 1, m) THEN by \o f[n - Len(m)]
                 ELSE <<s[Len(s) - n + 1]>> \o f[n - 1]

LEMMA ReplaceBacked ==
    ASSUME NEW S, NEW s \in Seq(S), NEW m \in Seq(S), NEW by \in Seq(S), m # <<>>
    PROVE  \E f \in [0 .. Len(s) -> Seq(S)] : Backed(f, s, m, by) /\ Replace(s, m, by) = f[Len(s)]
<1> DEFINE l == Len(s)
           hit(n) == At(s, l - n + 1, m)
           a == [n \in 1 .. l |-> IF hit(n) THEN by ELSE <<s[l - n + 1]>>]
           d == [n \in 1 .. l |-> IF hit(n) THEN Len(m) ELSE 1]
           step(g, n) == IF n = 0 THEN <<>>
                         ELSE IF hit(n) THEN by \o g[n - Len(m)]
                         ELSE <<s[l - n + 1]>> \o g[n - 1]
           last == CHOOSE g : g = [n \in 0 .. l |-> step(g, n)]
<1>1. l \in Nat /\ Len(m) \in Nat \ {0} /\ \A k \in 1 .. l : s[k] \in S
  BY EmptySeq, LenProperties, ElementOfSeq
<1>2. Replace(s, m, by) = last[l]
  BY DEF Replace
<1>3. \A n \in 1 .. l : hit(n) => Len(m) <= n
  BY <1>1 DEF At
<1> HIDE DEF l, hit
<1>4. a \in [1 .. l -> Seq(S)]
  <2> SUFFICES ASSUME NEW n \in 1 .. l PROVE (IF hit(n) THEN by ELSE <<s[l - n + 1]>>) \in Seq(S)
    OBVIOUS
  <2>1. l - n + 1 \in 1 .. l
    BY <1>1
  <2>2. s[l - n + 1] \in S
    BY <1>1, <2>1
  <2> QED
    BY <2>2
<1>5. d \in [1 .. l -> Nat] /\ \A n \in 1 .. l : d[n] \in 1 .. n
  BY <1>1, <1>3
<1>6. \A n \in 1 .. l : /\ hit(n) => a[n] = by /\ d[n] = Len(m)
                        /\ ~hit(n) => a[n] = <<s[l - n + 1]>> /\ d[n] = 1
  OBVIOUS
<1> HIDE DEF a, d
<1>7. PICK f \in [0 .. l -> Seq(S)] : Unrolls(f, l, a, d)
  BY <1>1, <1>4, <1>5, UnrollingExists
<1>8. f[0] = <<>> /\ \A n \in 1 .. l : f[n] = a[n] \o f[n - d[n]]
  BY <1>7 DEF Unrolls
<1>9. \A n \in 1 .. l : f[n] = IF hit(n) THEN by \o f[n - Len(m)] ELSE <<s[l - n + 1]>> \o f[n - 1]
  BY <1>6, <1>8
<1>10. f = [n \in 0 .. l |-> step(f, n)]
  <2>1. \A n \in 0 .. l : f[n] = step(f, n)
    <3> SUFFICES ASSUME NEW n \in 0 .. l PROVE f[n] = step(f, n)
      OBVIOUS
    <3>1. CASE n = 0
      BY <1>8, <3>1
    <3>2. CASE n # 0
      <4>1. n \in 1 .. l
        BY <1>1, <3>2
      <4> QED
        BY <1>9, <3>2, <4>1
    <3> QED
      BY <3>1, <3>2
  <2> HIDE DEF step
  <2> QED
    BY <2>1
<1>11. last = [n \in 0 .. l |-> step(last, n)]
  <2> HIDE DEF step
  <2> QED
    BY <1>10
<1> HIDE DEF last
<1>12. Unrolls(last, l, a, d)
  <2>1. \A n \in 0 .. l : last[n] = step(last, n)
    <3> HIDE DEF step
    <3> QED
      BY <1>11
  <2>2. 0 \in 0 .. l
    BY <1>1
  <2>3. last[0] = <<>>
    BY <2>1, <2>2
  <2>4. ASSUME NEW n \in 1 .. l PROVE last[n] = a[n] \o last[n - d[n]]
    <3>1. n \in 0 .. l /\ n # 0
      BY <1>1
    <3>2. last[n] = IF hit(n) THEN by \o last[n - Len(m)] ELSE <<s[l - n + 1]>> \o last[n - 1]
      BY <2>1, <3>1
    <3> QED
      BY <1>6, <3>2
  <2> QED
    BY <2>3, <2>4 DEF Unrolls
<1>13. last[l] = f[l]
  <2>1. \A n \in 1 .. l : d[n] \in 1 .. n
    BY <1>5
  <2> QED
    BY <1>1, <1>7, <1>12, <2>1, UnrollingUnique
<1>14. Backed(f, s, m, by)
  BY <1>8, <1>9 DEF Backed, l, hit
<1> QED
  BY <1>2, <1>13, <1>14 DEF l

(* What occurs in the last part of a text occurs in the text. *)
LEMMA AtBehind ==
    ASSUME NEW S, NEW p \in Seq(S), NEW w \in Seq(S), NEW m \in Seq(S), m # <<>>,
           NEW i \in 1 .. Len(w)
    PROVE  At(p \o w, Len(p) + i, m) <=> At(w, i, m)
<1>1. Len(p) \in Nat /\ Len(w) \in Nat /\ Len(m) \in Nat \ {0}
  BY EmptySeq, LenProperties
<1> DEFINE s == p \o w
<1>2. /\ s \in Seq(S) /\ Len(s) = Len(p) + Len(w)
      /\ \A k \in 1 .. Len(w) : s[Len(p) + k] = w[k]
  <2>1. /\ s \in Seq(S) /\ Len(s) = Len(p) + Len(w)
        /\ \A k \in 1 .. Len(p) + Len(w) : s[k] = IF k <= Len(p) THEN p[k] ELSE w[k - Len(p)]
    BY ConcatProperties
  <2> HIDE DEF s
  <2>2. ASSUME NEW k \in 1 .. Len(w) PROVE s[Len(p) + k] = w[k]
    <3>1. /\ Len(p) + k \in 1 .. Len(p) + Len(w) /\ ~(Len(p) + k <= Len(p))
          /\ Len(p) + k - Len(p) = k
      BY <1>1
    <3> QED
      BY <2>1, <3>1
  <2> QED
    BY <2>1, <2>2
<1> HIDE DEF s
<1>3. Len(p) + i \in 1 .. Len(s)
  BY <1>1, <1>2
<1>4. At(s, Len(p) + i, m) <=> /\ Len(p) + i + Len(m) - 1 <= Len(s)
                               /\ \A k \in 1 .. Len(m) : s[Len(p) + i + k - 1] = m[k]
  <2> DEFINE j == Len(p) + i
  <2> HIDE DEF j
  <2>1. At(s, j, m) <=> /\ j + Len(m) - 1 <= Len(s)
                        /\ \A k \in 1 .. Len(m) : s[j + k - 1] = m[k]
    <3>1. j \in 1 .. Len(s)
      BY <1>3 DEF j
    <3>2. \A t \in Seq(S) : \A n \in 1 .. Len(t) :
             At(t, n, m) <=> /\ n + Len(m) - 1 <= Len(t)
                             /\ \A k \in 1 .. Len(m) : t[n + k - 1] = m[k]
      BY AtPointwise
    <3>3. s \in Seq(S)
      BY <1>2
    <3> QED
      BY <3>1, <3>2, <3>3
  <2> QED
    BY <2>1 DEF j
<1>5. At(w, i, m) <=> /\ i + Len(m) - 1 <= Len(w)
                      /\ \A k \in 1 .. Len(m) : w[i + k - 1] = m[k]
  BY AtPointwise
<1>6. Len(p) + i + Len(m) - 1 <= Len(s) <=> i + Len(m) - 1 <= Len(w)
  BY <1>1, <1>2
<1>7. ASSUME i + Len(m) - 1 <= Len(w), NEW k \in 1 .. Len(m)
      PROVE  s[Len(p) + i + k - 1] = w[i + k - 1]
  <2>1. i + k - 1 \in 1 .. Len(w) /\ Len(p) + (i + k - 1) = Len(p) + i + k - 1
    BY <1>1, <1>7
  <2> QED
    BY <1>2, <2>1
<1>8. At(s, Len(p) + i, m) <=> At(w, i, m)
  BY <1>4, <1>5, <1>6, <1>7
<1> QED
  BY <1>8 DEF s

(* What becomes of the last part of a text does not depend on the rest. *)
LEMMA BackedBehind ==
    ASSUME NEW S, NEW p \in Seq(S), NEW w \in Seq(S), NEW m \in Seq(S), m # <<>>, NEW by,
           NEW f, NEW g, Backed(f, p \o w, m, by), Backed(g, w, m, by)
    PROVE  f[Len(w)] = g[Len(w)]
<1> DEFINE s == p \o w
           l == Len(w)
           hit(n) == At(w, l - n + 1, m)
           a == [n \in 1 .. l |-> IF hit(n) THEN by ELSE <<w[l - n + 1]>>]
           d == [n \in 1 .. l |-> IF hit(n) THEN Len(m) ELSE 1]
<1>1. Len(p) \in Nat /\ l \in Nat /\ Len(m) \in Nat \ {0}
  BY EmptySeq, LenProperties
<1>2. /\ Len(s) = Len(p) + l
      /\ \A k \in 1 .. Len(p) + l : s[k] = IF k <= Len(p) THEN p[k] ELSE w[k - Len(p)]
  BY ConcatProperties
<1>3. \A n \in 1 .. l : hit(n) => Len(m) <= n
  BY <1>1 DEF At
<1>4. ASSUME NEW n \in 1 .. l
      PROVE  (At(s, Len(s) - n + 1, m) <=> hit(n)) /\ s[Len(s) - n + 1] = w[l - n + 1]
  <2> DEFINE i == l - n + 1
  <2>1. i \in 1 .. Len(w) /\ Len(s) - n + 1 = Len(p) + i
    BY <1>1, <1>2
  <2>2. /\ Len(p) + i \in 1 .. Len(p) + l /\ ~(Len(p) + i <= Len(p)) /\ Len(p) + i - Len(p) = i
    BY <1>1, <2>1
  <2> HIDE DEF i
  <2>3. At(s, Len(p) + i, m) <=> At(w, i, m)
    BY <2>1, AtBehind
  <2>4. s[Len(p) + i] = w[i]
    <3> DEFINE j == Len(p) + i
    <3> HIDE DEF s, l
    <3>1. j \in 1 .. Len(p) + l
      BY <2>2
    <3>2. ~(j <= Len(p))
      BY <2>2
    <3>3. j - Len(p) = i
      BY <1>1, <2>1
    <3> HIDE DEF j
    <3>4. s[j] = w[j - Len(p)]
      BY <1>2, <3>1, <3>2
    <3> QED
      BY <3>3, <3>4 DEF j
  <2> HIDE DEF s, l
  <2> QED
    BY <2>1, <2>3, <2>4 DEF i
<1>5. /\ f[0] = <<>>
      /\ \A n \in 1 .. Len(s) : f[n] = IF At(s, Len(s) - n + 1, m) THEN by \o f[n - Len(m)]
                                       ELSE <<s[Len(s) - n + 1]>> \o f[n - 1]
  BY DEF Backed
<1>6. /\ g[0] = <<>>
      /\ \A n \in 1 .. l : g[n] = IF hit(n) THEN by \o g[n - Len(m)]
                                  ELSE <<w[l - n + 1]>> \o g[n - 1]
  BY DEF Backed
<1> HIDE DEF s, l, hit
<1>7. \A n \in 1 .. l : d[n] \in 1 .. n
  BY <1>1, <1>3
<1>8. \A n \in 1 .. l : /\ hit(n) => a[n] = by /\ d[n] = Len(m)
                        /\ ~hit(n) => a[n] = <<w[l - n + 1]>> /\ d[n] = 1
  OBVIOUS
<1> HIDE DEF a, d
<1>9. Unrolls(g, l, a, d)
  BY <1>6, <1>8 DEF Unrolls
<1>10. Unrolls(f, l, a, d)
  <2>1. ASSUME NEW n \in 1 .. l PROVE f[n] = a[n] \o f[n - d[n]]
    <3>1. n \in 1 .. Len(s)
      BY <1>1, <1>2
    <3>2. f[n] = IF hit(n) THEN by \o f[n - Len(m)] ELSE <<w[l - n + 1]>> \o f[n - 1]
      BY <1>4, <1>5, <3>1
    <3> QED
      BY <1>8, <3>2
  <2> QED
    BY <1>5, <2>1 DEF Unrolls
<1>11. f[l] = g[l]
  BY <1>1, <1>7, <1>9, <1>10, UnrollingUnique
<1> QED
  BY <1>11 DEF l

LEMMA ReplaceType ==
    ASSUME NEW S, NEW s \in Seq(S), NEW m \in Seq(S), NEW by \in Seq(S), m # <<>>
    PROVE  Replace(s, m, by) \in Seq(S)
<1>1. PICK f \in [0 .. Len(s) -> Seq(S)] : Replace(s, m, by) = f[Len(s)]
  BY ReplaceBacked
<1>2. Len(s) \in 0 .. Len(s)
  BY LenProperties
<1> QED
  BY <1>1, <1>2

LEMMA ReplaceNothing ==
    ASSUME NEW S, NEW m \in Seq(S), NEW by \in Seq(S), m # <<>>
    PROVE  Replace(<<>>, m, by) = <<>>
<1>1. <<>> \in Seq(S) /\ Len(<<>>) = 0
  BY EmptySeq
<1> DEFINE s == <<>>
<1> HIDE DEF s
<1>2. PICK f \in [0 .. Len(s) -> Seq(S)] : Backed(f, s, m, by) /\ Replace(s, m, by) = f[Len(s)]
  <2>1. s \in Seq(S)
    BY <1>1 DEF s
  <2>2. \A t \in Seq(S) : \E f \in [0 .. Len(t) -> Seq(S)] :
           Backed(f, t, m, by) /\ Replace(t, m, by) = f[Len(t)]
    BY ReplaceBacked
  <2> QED
    BY <2>1, <2>2
<1>3. f[0] = <<>>
  BY <1>2 DEF Backed
<1>4. Replace(s, m, by) = <<>>
  BY <1>1, <1>2, <1>3 DEF s
<1> QED
  BY <1>4 DEF s

(* An occurrence at the beginning is replaced. *)
LEMMA ReplaceHere ==
    ASSUME NEW S, NEW w \in Seq(S), NEW m \in Seq(S), NEW by \in Seq(S), m # <<>>
    PROVE  Replace(m \o w, m, by) = by \o Replace(w, m, by)
<1> DEFINE s == m \o w
<1>1. Len(w) \in Nat /\ Len(m) \in Nat \ {0}
  BY EmptySeq, LenProperties
<1>2. /\ s \in Seq(S) /\ Len(s) = Len(m) + Len(w)
      /\ \A k \in 1 .. Len(m) + Len(w) : s[k] = IF k <= Len(m) THEN m[k] ELSE w[k - Len(m)]
  BY ConcatProperties
<1>3. PICK f \in [0 .. Len(s) -> Seq(S)] : Backed(f, s, m, by) /\ Replace(s, m, by) = f[Len(s)]
  <2> HIDE DEF s
  <2>1. s \in Seq(S)
    BY <1>2
  <2>2. \A t \in Seq(S) : \E f \in [0 .. Len(t) -> Seq(S)] :
           Backed(f, t, m, by) /\ Replace(t, m, by) = f[Len(t)]
    BY ReplaceBacked
  <2> QED
    BY <2>1, <2>2
<1>4. PICK g \in [0 .. Len(w) -> Seq(S)] : Backed(g, w, m, by) /\ Replace(w, m, by) = g[Len(w)]
  BY ReplaceBacked
<1>5. f[Len(w)] = g[Len(w)]
  BY <1>3, <1>4, BackedBehind
<1> HIDE DEF s
<1>6. 1 \in 1 .. Len(s) /\ 1 + Len(m) - 1 <= Len(s) /\ \A k \in 1 .. Len(m) : s[1 + k - 1] = m[k]
  <2>1. \A k \in 1 .. Len(m) : k \in 1 .. Len(m) + Len(w) /\ k <= Len(m) /\ 1 + k - 1 = k
    BY <1>1
  <2> QED
    BY <1>1, <1>2, <2>1
<1>7. At(s, 1, m)
  BY <1>2, <1>6, AtPointwise
<1>8. Len(s) \in 1 .. Len(s) /\ Len(s) - Len(s) + 1 = 1 /\ Len(s) - Len(m) = Len(w)
  BY <1>1, <1>2
<1>9. f[Len(s)] = by \o f[Len(w)]
  BY <1>3, <1>7, <1>8 DEF Backed
<1> QED
  BY <1>3, <1>4, <1>5, <1>9 DEF s

(* A part of the text in which no occurrence begins stays. *)
LEMMA ReplacePast ==
    ASSUME NEW S, NEW p, NEW w, NEW m, NEW by,
           p \in Seq(S), w \in Seq(S), m \in Seq(S), by \in Seq(S),
           m # <<>>, \A i \in 1 .. Len(p) : ~At(p \o w, i, m)
    PROVE  Replace(p \o w, m, by) = p \o Replace(w, m, by)
<1> DEFINE s == p \o w
           l == Len(p)
           h == Len(w)
           q(k) == SubSeq(p, l - k + 1, l)
<1>1. l \in Nat /\ h \in Nat
  BY LenProperties
<1>2. s \in Seq(S)
  BY ConcatProperties
<1>3. Len(s) = l + h
  BY ConcatProperties
<1>4. \A k \in 1 .. l + h : s[k] = IF k <= l THEN p[k] ELSE w[k - l]
  BY ConcatProperties
<1>5. PICK f \in [0 .. Len(s) -> Seq(S)] : Backed(f, s, m, by) /\ Replace(s, m, by) = f[Len(s)]
  <2> HIDE DEF s
  <2>1. \A t \in Seq(S) : \E f \in [0 .. Len(t) -> Seq(S)] :
           Backed(f, t, m, by) /\ Replace(t, m, by) = f[Len(t)]
    BY ReplaceBacked
  <2> QED
    BY <1>2, <2>1
<1>6. PICK g \in [0 .. h -> Seq(S)] : Backed(g, w, m, by) /\ Replace(w, m, by) = g[h]
  BY ReplaceBacked
<1> DEFINE x == g[h]
           Fine(k) == f[h + k] = q(k) \o x
           Bad == {k \in 0 .. l : ~Fine(k)}
<1>7. x \in Seq(S)
  <2>1. h \in 0 .. h
    BY <1>1
  <2> HIDE DEF h
  <2> QED
    BY <2>1
<1>8. f[h] = x
  <2>1. Backed(f, p \o w, m, by)
    BY <1>5
  <2>2. f[Len(w)] = g[Len(w)]
    <3>1. \A u, v : Backed(u, p \o w, m, by) /\ Backed(v, w, m, by) => u[Len(w)] = v[Len(w)]
      BY ONLY p \in Seq(S), w \in Seq(S), m \in Seq(S), m # <<>>, BackedBehind
    <3>2. Backed(g, w, m, by)
      BY <1>6
    <3> QED
      BY ONLY <2>1, <3>1, <3>2
  <2> QED
    BY <2>2
<1>8a. \A n \in 1 .. Len(s) : f[n] = IF At(s, Len(s) - n + 1, m) THEN by \o f[n - Len(m)]
                                   ELSE <<s[Len(s) - n + 1]>> \o f[n - 1]
  BY <1>5 DEF Backed
<1>9. \A i \in 1 .. l : ~At(s, i, m)
  OBVIOUS
<1>10. \A i \in 1 .. l : p[i] \in S
  BY ElementOfSeq
<1> HIDE DEF s, x, h
<1>11. Fine(0)
  <2>1. l - 0 + 1 \in Int /\ l \in Int /\ l < l - 0 + 1 /\ h + 0 = h
    BY <1>1
  <2>2. q(0) = <<>>
    BY <2>1, SubSeqEmpty
  <2>3. <<>> \o x = x
    BY <1>7, ConcatEmptySeq
  <2> QED
    BY <1>8, <2>1, <2>2, <2>3
<1>12. ASSUME NEW k \in 1 .. l, Fine(k - 1) PROVE Fine(k)
  <2> DEFINE i == l - k + 1
             r == q(k - 1)
             o == <<p[i]>>
  <2>1. i \in 1 .. l /\ l \in i .. l /\ i + 1 = l - (k - 1) + 1
    BY <1>1
  <2>2. q(k) = o \o r
    BY <2>1, SubSeqRecursiveFirst
  <2>3. o \in Seq(S)
    BY <1>10, <2>1
  <2>4. r \in Seq(S)
    <3>1. l - (k - 1) + 1 \in Int /\ l \in Int /\ \A j \in l - (k - 1) + 1 .. l : p[j] \in S
      BY <1>1, <1>10
    <3> HIDE DEF l
    <3> QED
      BY <3>1, SubSeqProperties
  <2>5. /\ h + k \in 1 .. Len(s)
        /\ Len(s) - (h + k) + 1 = i
        /\ h + k - 1 = h + (k - 1)
    BY <1>1, <1>3
  <2>6. s[i] = p[i]
    <3>1. i \in 1 .. l + h /\ i <= l
      BY <1>1
    <3> HIDE DEF i, l
    <3> QED
      BY <1>4, <3>1
  <2>7. f[h + k] = o \o f[h + (k - 1)]
    <3> DEFINE n == h + k
    <3> HIDE DEF i, l
    <3>1. n \in 1 .. Len(s) /\ Len(s) - n + 1 = i /\ n - 1 = h + (k - 1)
      BY <1>1, <2>5
    <3> HIDE DEF n
    <3>2. f[n] = IF At(s, Len(s) - n + 1, m) THEN by \o f[n - Len(m)]
                 ELSE <<s[Len(s) - n + 1]>> \o f[n - 1]
      BY <1>8a, <3>1
    <3>3. f[n] = <<p[i]>> \o f[n - 1]
      BY <1>9, <2>1, <2>6, <3>1, <3>2
    <3> QED
      BY <3>1, <3>3 DEF n
  <2>8. f[h + (k - 1)] = r \o x
    BY <1>12
  <2> HIDE DEF r, o, q
  <2>9. (o \o r) \o x = o \o (r \o x)
    BY ONLY <1>7, <2>3, <2>4, ConcatAssociative, SMTT(60)
  <2> QED
    BY <2>2, <2>7, <2>8, <2>9
<1>13. Bad = {}
  <2> HIDE DEF Fine
  <2> SUFFICES ASSUME Bad # {} PROVE FALSE
    OBVIOUS
  <2>1. Bad \in SUBSET Nat
    OBVIOUS
  <2>2. PICK k \in Bad : \A j \in Bad : k <= j
    BY <2>1, LeastNumber
  <2>3. k \in 1 .. l
    BY <1>1, <1>11, <2>2
  <2>4. k - 1 \in 0 .. l /\ k - 1 \notin Bad
    BY <1>1, <2>2, <2>3
  <2> QED
    BY <1>12, <2>2, <2>3, <2>4
<1>14. Fine(l)
  <2> HIDE DEF Fine, l
  <2>1. l \in 0 .. l
    BY <1>1
  <2>2. l \notin Bad
    BY <1>13
  <2> QED
    BY <2>1, <2>2
<1>15. q(l) = p
  <2>1. l - l + 1 = 1
    BY <1>1
  <2> QED
    BY <2>1, SubSeqFull
<1>16. f[Len(s)] = p \o x
  <2>1. Len(s) = h + l
    BY <1>1, <1>3
  <2> HIDE DEF q, l
  <2> QED
    BY <1>14, <1>15, <2>1
<1>17. Replace(s, m, by) = p \o Replace(w, m, by)
  BY <1>5, <1>6, <1>16 DEF x
<1> QED
  BY <1>17 DEF s

-----------------------------------------------------------------------------
(* The provers take concatenation apart, character by character; where it  *)
(* is enough that texts are put behind one another, it is ++.              *)
s ++ t == s \o t

LEMMA CatType ==
    ASSUME NEW S, NEW a \in Seq(S), NEW b \in Seq(S) PROVE a ++ b \in Seq(S)
BY ConcatProperties DEF ++

LEMMA CatAssociative ==
    ASSUME NEW S, NEW a \in Seq(S), NEW b \in Seq(S), NEW c \in Seq(S)
    PROVE  (a ++ b) ++ c = a ++ (b ++ c)
BY ConcatAssociative DEF ++

LEMMA CatNothing ==
    ASSUME NEW S, NEW a \in Seq(S) PROVE a ++ <<>> = a /\ <<>> ++ a = a
BY ConcatEmptySeq DEF ++

LEMMA CatHere ==
    ASSUME NEW S, NEW w \in Seq(S), NEW m \in Seq(S), NEW by \in Seq(S), m # <<>>
    PROVE  Replace(m ++ w, m, by) = by ++ Replace(w, m, by)
BY ReplaceHere DEF ++

LEMMA CatPast ==
    ASSUME NEW S, NEW p \in Seq(S), NEW w \in Seq(S), NEW m \in Seq(S), NEW by \in Seq(S),
           m # <<>>, \A i \in 1 .. Len(p) : ~At(p ++ w, i, m)
    PROVE  Replace(p ++ w, m, by) = p ++ Replace(w, m, by)
BY ReplacePast DEF ++

(* A text of k pieces x[j], each behind a g[j], and t behind them all: w[j] *)
(* is what is left of it from g[j] on.                                     *)
Chain(w, k, g, x) == \A j \in 1 .. k : w[j] = g[j] ++ (x[j] ++ w[j + 1])

Joined(S, k, g, x, t, s) ==
    \E w \in [1 .. k + 1 -> Seq(S)] : w[1] = s /\ w[k + 1] = t /\ Chain(w, k, g, x)

LEMMA JoinedUnique ==
    ASSUME NEW S, NEW k \in Nat, NEW g, NEW x, NEW t, NEW r, NEW s,
           Joined(S, k, g, x, t, r), Joined(S, k, g, x, t, s)
    PROVE  r = s
<1>1. PICK u \in [1 .. k + 1 -> Seq(S)] : u[1] = r /\ u[k + 1] = t /\ Chain(u, k, g, x)
  BY DEF Joined
<1>2. PICK w \in [1 .. k + 1 -> Seq(S)] : w[1] = s /\ w[k + 1] = t /\ Chain(w, k, g, x)
  BY DEF Joined
<1> DEFINE Same(n) == u[k + 1 - n] = w[k + 1 - n]
           Bad == {n \in 0 .. k : ~Same(n)}
<1>3. Same(0)
  BY <1>1, <1>2
<1>4. ASSUME NEW n \in 1 .. k, Same(n - 1) PROVE Same(n)
  <2> DEFINE j == k + 1 - n
  <2>1. j \in 1 .. k /\ k + 1 - (n - 1) = j + 1
    OBVIOUS
  <2> HIDE DEF j
  <2>2. u[j + 1] = w[j + 1]
    BY <1>4, <2>1
  <2>3. u[j] = g[j] ++ (x[j] ++ u[j + 1]) /\ w[j] = g[j] ++ (x[j] ++ w[j + 1])
    BY <1>1, <1>2, <2>1 DEF Chain
  <2>4. u[j] = w[j]
    BY <2>2, <2>3
  <2> QED
    BY <2>4 DEF j
<1>5. Same(k)
  <2> HIDE DEF Same
  <2> SUFFICES ASSUME Bad # {} PROVE FALSE
    OBVIOUS
  <2>1. Bad \in SUBSET Nat
    OBVIOUS
  <2>2. PICK n \in Bad : \A i \in Bad : n <= i
    BY <2>1, LeastNumber
  <2>3. n \in 1 .. k /\ ~Same(n)
    BY <1>3, <2>2
  <2>4. n - 1 \in 0 .. k /\ ~(n <= n - 1)
    BY <2>3
  <2>5. Same(n - 1)
    BY <2>2, <2>4
  <2> QED
    BY <1>4, <2>3, <2>5
<1>6. u[1] = w[1]
  <2>1. k + 1 - k = 1
    OBVIOUS
  <2> QED
    BY <1>5, <2>1
<1> QED
  BY <1>1, <1>2, <1>6

LEMMA Reassociated ==
    ASSUME NEW S, NEW a \in Seq(S), NEW b \in Seq(S), NEW c \in Seq(S), NEW d \in Seq(S)
    PROVE  (a ++ (b ++ c)) ++ d = a ++ (b ++ (c ++ d))
<1>1. (b ++ c) ++ d = b ++ (c ++ d)
  BY CatAssociative
<1>2. (a ++ (b ++ c)) ++ d = a ++ ((b ++ c) ++ d)
  BY CatType, CatAssociative
<1> QED
  BY <1>1, <1>2

(* More text behind it. *)
LEMMA JoinedLonger ==
    ASSUME NEW S, NEW k \in Nat, NEW g, NEW x, \A j \in 1 .. k : g[j] \in Seq(S) /\ x[j] \in Seq(S),
           NEW t, NEW s, Joined(S, k, g, x, t, s), NEW u \in Seq(S)
    PROVE  Joined(S, k, g, x, t ++ u, s ++ u)
<1>1. PICK w \in [1 .. k + 1 -> Seq(S)] : w[1] = s /\ w[k + 1] = t /\ Chain(w, k, g, x)
  BY DEF Joined
<1> DEFINE z == [j \in 1 .. k + 1 |-> w[j] ++ u]
<1>2. \A j \in 1 .. k + 1 : w[j] ++ u \in Seq(S)
  BY CatType
<1>3. z \in [1 .. k + 1 -> Seq(S)]
  BY <1>2
<1>4. 1 \in 1 .. k + 1 /\ k + 1 \in 1 .. k + 1 /\ \A j \in 1 .. k : j \in 1 .. k + 1 /\ j + 1 \in 1 .. k + 1
  OBVIOUS
<1>5. \A j \in 1 .. k + 1 : z[j] = w[j] ++ u
  OBVIOUS
<1> HIDE DEF z
<1>6. ASSUME NEW j \in 1 .. k PROVE z[j] = g[j] ++ (x[j] ++ z[j + 1])
  <2>1. z[j] = w[j] ++ u /\ z[j + 1] = w[j + 1] ++ u
    BY <1>4, <1>5
  <2>2. w[j] = g[j] ++ (x[j] ++ w[j + 1])
    BY <1>1 DEF Chain
  <2> DEFINE a == g[j]
             b == x[j]
             c == w[j + 1]
  <2>3. a \in Seq(S)
    OBVIOUS
  <2>4. b \in Seq(S)
    OBVIOUS
  <2>5. c \in Seq(S)
    BY <1>4
  <2> HIDE DEF a, b, c
  <2>6. (a ++ (b ++ c)) ++ u = a ++ (b ++ (c ++ u))
    BY <2>3, <2>4, <2>5, Reassociated
  <2> QED
    BY <2>1, <2>2, <2>6 DEF a, b, c
<1>7. Chain(z, k, g, x)
  BY <1>6 DEF Chain
<1>8. z[1] = s ++ u /\ z[k + 1] = t ++ u
  BY <1>1, <1>4, <1>5
<1> QED
  BY <1>3, <1>7, <1>8 DEF Joined

(* One more piece. *)
LEMMA JoinedMore ==
    ASSUME NEW S, NEW k \in Nat, NEW g, NEW x, NEW t \in Seq(S), NEW s,
           Joined(S, k, g, x, g[k + 1] ++ (x[k + 1] ++ t), s)
    PROVE  Joined(S, k + 1, g, x, t, s)
<1> DEFINE n == k + 1
<1>1. PICK w \in [1 .. n -> Seq(S)] :
         w[1] = s /\ w[n] = g[n] ++ (x[n] ++ t) /\ Chain(w, k, g, x)
  BY DEF Joined
<1> DEFINE z == [j \in 1 .. n + 1 |-> IF j = n + 1 THEN t ELSE w[j]]
<1>2. /\ n \in Nat /\ n + 1 \in 1 .. n + 1 /\ 1 \in 1 .. n /\ n \in 1 .. n
      /\ \A j \in 1 .. n + 1 : j # n + 1 => j \in 1 .. n
      /\ \A j \in 1 .. n : j \in 1 .. n + 1 /\ j # n + 1
  OBVIOUS
<1>2a. \A j \in 1 .. n : j # n => j \in 1 .. k /\ j + 1 \in 1 .. n
  OBVIOUS
<1> HIDE DEF n
<1>3. z \in [1 .. n + 1 -> Seq(S)]
  BY <1>2
<1>4. z[n + 1] = t /\ \A j \in 1 .. n : z[j] = w[j]
  BY <1>2
<1> HIDE DEF z
<1>5. ASSUME NEW j \in 1 .. n PROVE z[j] = g[j] ++ (x[j] ++ z[j + 1])
  <2>1. CASE j = n
    BY <1>1, <1>2, <1>4, <2>1
  <2>2. CASE j # n
    <3>1. j \in 1 .. k /\ j + 1 \in 1 .. n
      BY <1>2a, <2>2
    <3>2. w[j] = g[j] ++ (x[j] ++ w[j + 1])
      BY <1>1, <3>1 DEF Chain
    <3> QED
      BY <1>4, <3>1, <3>2
  <2> QED
    BY <2>1, <2>2
<1>6. Chain(z, n, g, x)
  BY <1>5 DEF Chain
<1>7. z[1] = s
  BY <1>1, <1>2, <1>4
<1>8. Joined(S, n, g, x, t, s)
  BY <1>3, <1>4, <1>6, <1>7 DEF Joined
<1> QED
  BY <1>8 DEF n

-----------------------------------------------------------------------------
(* An occurrence of m begins in p, with w behind it. *)
Begins(p, w, m) == \E i \in 1 .. Len(p) : At(p ++ w, i, m)

LEMMA BeginsWithFirst ==
    ASSUME NEW S, NEW p \in Seq(S), NEW w \in Seq(S), NEW m \in Seq(S), m # <<>>, Begins(p, w, m)
    PROVE  \E i \in 1 .. Len(p) :
              \A c \in 1 .. Len(m) : i + c - 1 <= Len(p) => p[i + c - 1] = m[c]
<1> DEFINE s == p ++ w
<1>1. PICK i \in 1 .. Len(p) : At(s, i, m)
  BY DEF Begins
<1>2. s \in Seq(S) /\ Len(s) = Len(p) + Len(w)
      /\ \A k \in 1 .. Len(p) + Len(w) : s[k] = IF k <= Len(p) THEN p[k] ELSE w[k - Len(p)]
  BY ConcatProperties DEF ++
<1>3. Len(p) \in Nat /\ Len(w) \in Nat /\ Len(m) \in Nat
  BY LenProperties
<1> HIDE DEF s
<1>4. \A c \in 1 .. Len(m) : s[i + c - 1] = m[c]
  <2>1. i \in 1 .. Len(s)
    BY <1>2, <1>3
  <2>2. s \in Seq(S)
    BY <1>2
  <2>3. \A t \in Seq(S) : \A n \in 1 .. Len(t) :
           At(t, n, m) <=> /\ n + Len(m) - 1 <= Len(t)
                           /\ \A k \in 1 .. Len(m) : t[n + k - 1] = m[k]
    BY AtPointwise
  <2> QED
    BY <1>1, <2>1, <2>2, <2>3
<1>5. ASSUME NEW c \in 1 .. Len(m), i + c - 1 <= Len(p) PROVE p[i + c - 1] = m[c]
  <2> DEFINE j == i + c - 1
  <2>1. j \in 1 .. Len(p) + Len(w) /\ j <= Len(p)
    BY <1>3, <1>5
  <2>2. s[j] = m[c]
    BY <1>4
  <2> HIDE DEF j
  <2>3. p[j] = m[c]
    BY <1>2, <2>1, <2>2
  <2> QED
    BY <2>3 DEF j
<1> QED
  BY <1>5

(* An occurrence that begins in p is in p, or goes on behind it. *)
LEMMA BeginsWhere ==
    ASSUME NEW S, NEW p \in Seq(S), NEW w \in Seq(S), NEW m \in Seq(S), m # <<>>, Begins(p, w, m)
    PROVE  \/ Occurs(p, m)
           \/ /\ p # <<>> /\ \E c \in 1 .. Len(m) : m[c] = p[Len(p)]
              /\ w # <<>> /\ \E c \in 1 .. Len(m) : m[c] = w[1]
<1> DEFINE s == p ++ w
<1>1. PICK i \in 1 .. Len(p) : At(s, i, m)
  BY DEF Begins
<1>2. s \in Seq(S) /\ Len(s) = Len(p) + Len(w)
      /\ \A k \in 1 .. Len(p) + Len(w) : s[k] = IF k <= Len(p) THEN p[k] ELSE w[k - Len(p)]
  BY ConcatProperties DEF ++
<1>3. Len(p) \in Nat /\ Len(w) \in Nat /\ Len(m) \in Nat \ {0}
  BY EmptySeq, LenProperties
<1> HIDE DEF s
<1>4. /\ i + Len(m) - 1 <= Len(s)
      /\ \A c \in 1 .. Len(m) : s[i + c - 1] = m[c]
  <2>1. i \in 1 .. Len(s)
    BY <1>2, <1>3
  <2>2. s \in Seq(S)
    BY <1>2
  <2>3. \A t \in Seq(S) : \A n \in 1 .. Len(t) :
           At(t, n, m) <=> /\ n + Len(m) - 1 <= Len(t)
                           /\ \A k \in 1 .. Len(m) : t[n + k - 1] = m[k]
    BY AtPointwise
  <2> QED
    BY <1>1, <2>1, <2>2, <2>3
<1>5. CASE i + Len(m) - 1 <= Len(p)
  <2>1. ASSUME NEW c \in 1 .. Len(m) PROVE p[i + c - 1] = m[c]
    <3> DEFINE j == i + c - 1
    <3>1. j \in 1 .. Len(p) + Len(w) /\ j <= Len(p)
      BY <1>3, <1>5
    <3>2. s[j] = m[c]
      BY <1>4
    <3> HIDE DEF j
    <3>3. p[j] = m[c]
      BY <1>2, <3>1, <3>2
    <3> QED
      BY <3>3 DEF j
  <2>2. At(p, i, m)
    BY <1>5, <2>1, AtPointwise
  <2>3. i \in DOMAIN p
    BY LenProperties
  <2> QED
    BY <2>2, <2>3 DEF Occurs
<1>6. CASE ~(i + Len(m) - 1 <= Len(p))
  <2> DEFINE n == Len(p)
             q == n + 1
             c == n - i + 1
             d == c + 1
  <2>1. c \in 1 .. Len(m) /\ d \in 1 .. Len(m)
    BY <1>2, <1>3, <1>4, <1>6
  <2>2. i + c - 1 = n /\ i + d - 1 = q
    BY <1>3
  <2>3. n \in 1 .. n + Len(w) /\ q \in 1 .. n + Len(w) /\ Len(w) >= 1
    BY <1>2, <1>3, <1>4, <1>6
  <2>4. n <= n /\ ~(q <= n) /\ q - n = 1
    BY <1>3
  <2>5. p # <<>> /\ w # <<>>
    BY <1>3, <2>3
  <2> HIDE DEF c, d, q, n
  <2>6. s[n] = m[c]
    BY <1>4, <2>1, <2>2
  <2>7. s[q] = m[d]
    BY <1>4, <2>1, <2>2
  <2>8. \A k \in 1 .. n + Len(w) : s[k] = IF k <= n THEN p[k] ELSE w[k - n]
    BY <1>2 DEF n
  <2>9. s[n] = p[n]
    BY <2>3, <2>4, <2>8
  <2>10. s[q] = w[1]
    BY <2>3, <2>4, <2>8
  <2> QED
    BY <2>1, <2>5, <2>6, <2>7, <2>9, <2>10 DEF n
<1> QED
  BY <1>5, <1>6

LEMMA ReplaceAbsent ==
    ASSUME NEW S, NEW s \in Seq(S), NEW m \in Seq(S), NEW by \in Seq(S), m # <<>>, ~Occurs(s, m)
    PROVE  Replace(s, m, by) = s
<1>1. <<>> \in Seq(S) /\ s ++ <<>> = s
  BY CatNothing
<1>2. DOMAIN s = 1 .. Len(s)
  BY LenProperties
<1>3. \A i \in 1 .. Len(s) : ~At(s ++ <<>>, i, m)
  BY <1>1, <1>2 DEF Occurs
<1> DEFINE e == <<>>
<1>4. e \in Seq(S) /\ \A i \in 1 .. Len(s) : ~At(s ++ e, i, m)
  BY <1>1, <1>3
<1>5. Replace(e, m, by) = e
  BY ReplaceNothing
<1> HIDE DEF e
<1>6. Replace(s ++ e, m, by) = s ++ Replace(e, m, by)
  BY <1>4, CatPast
<1> QED
  BY <1>1, <1>5, <1>6 DEF e

(* str.replace on a text of pieces: when m is found as a piece, and begins *)
(* nowhere else, it is replaced as a piece.                                *)
LEMMA JoinedReplace ==
    ASSUME NEW S, NEW k \in Nat, NEW g \in [1 .. k -> Seq(S)], NEW x \in [1 .. k -> Seq(S)],
           NEW t \in Seq(S), NEW s, Joined(S, k, g, x, t, s),
           NEW m \in Seq(S), NEW v \in Seq(S), m # <<>>, ~Occurs(t, m),
           \A j \in 1 .. k : \A w \in Seq(S) : ~Begins(g[j], w, m),
           \A j \in 1 .. k : \A w \in Seq(S) :
              x[j] = m \/ ~Begins(x[j], IF j = k THEN t ELSE g[j + 1] ++ w, m),
           NEW y, \A j \in 1 .. k : y[j] = IF x[j] = m THEN v ELSE x[j]
    PROVE  Joined(S, k, g, y, t, Replace(s, m, v))
<1>1. PICK w \in [1 .. k + 1 -> Seq(S)] : w[1] = s /\ w[k + 1] = t /\ Chain(w, k, g, x)
  BY DEF Joined
<1> DEFINE z == [j \in 1 .. k + 1 |-> Replace(w[j], m, v)]
<1>2. \A j \in 1 .. k + 1 : Replace(w[j], m, v) \in Seq(S)
  BY ReplaceType
<1>3. z \in [1 .. k + 1 -> Seq(S)]
  BY <1>2
<1>4. \A j \in 1 .. k + 1 : z[j] = Replace(w[j], m, v)
  OBVIOUS
<1>5. 1 \in 1 .. k + 1 /\ k + 1 \in 1 .. k + 1 /\ \A j \in 1 .. k : j \in 1 .. k + 1 /\ j + 1 \in 1 .. k + 1
  OBVIOUS
<1> HIDE DEF z
<1>6. z[1] = Replace(s, m, v)
  BY <1>1, <1>4, <1>5
<1>7. z[k + 1] = t
  BY <1>1, <1>4, <1>5, ReplaceAbsent
<1>8. ASSUME NEW j \in 1 .. k PROVE z[j] = g[j] ++ (y[j] ++ z[j + 1])
  <2> DEFINE a == g[j]
             b == x[j]
             c == w[j + 1]
  <2>1. a \in Seq(S)
    OBVIOUS
  <2>2. b \in Seq(S)
    OBVIOUS
  <2>3. c \in Seq(S)
    BY <1>5
  <2>4. w[j] = a ++ (b ++ c)
    BY <1>1 DEF Chain
  <2>5. z[j] = Replace(w[j], m, v) /\ z[j + 1] = Replace(c, m, v)
    BY <1>4, <1>5
  <2>6. \A u \in Seq(S) : ~Begins(a, u, m)
    OBVIOUS
  <2>7. b = m \/ ~Begins(b, c, m)
    <3>1. CASE j = k
      BY <1>1, <3>1
    <3>2. CASE j # k
      <4>1. j + 1 \in 1 .. k
        BY <3>2
      <4>2. c = g[j + 1] ++ (x[j + 1] ++ w[j + 1 + 1])
        BY <1>1, <4>1 DEF Chain
      <4>3. j + 1 + 1 \in 1 .. k + 1
        BY <4>1
      <4>4. x[j + 1] \in Seq(S) /\ w[j + 1 + 1] \in Seq(S)
        BY <4>1, <4>3
      <4>5. x[j + 1] ++ w[j + 1 + 1] \in Seq(S)
        BY <4>4, CatType
      <4> QED
        BY <3>2, <4>2, <4>5
    <3> QED
      BY <3>1, <3>2
  <2>8. y[j] = IF b = m THEN v ELSE b
    OBVIOUS
  <2> HIDE DEF a, b, c
  <2>9. b ++ c \in Seq(S)
    BY <2>2, <2>3, CatType
  <2>10. Replace(a ++ (b ++ c), m, v) = a ++ Replace(b ++ c, m, v)
    <3> DEFINE bc == b ++ c
    <3>1. bc \in Seq(S)
      BY <2>9
    <3> HIDE DEF bc
    <3>2. \A i \in 1 .. Len(a) : ~At(a ++ bc, i, m)
      BY <2>6, <3>1 DEF Begins
    <3>3. Replace(a ++ bc, m, v) = a ++ Replace(bc, m, v)
      BY <2>1, <3>1, <3>2, CatPast
    <3> QED
      BY <3>3 DEF bc
  <2>11. Replace(b ++ c, m, v) = y[j] ++ Replace(c, m, v)
    <3>1. CASE b = m
      BY <2>3, <2>8, <3>1, CatHere
    <3>2. CASE b # m
      <4>1. \A i \in 1 .. Len(b) : ~At(b ++ c, i, m)
        BY <2>7, <3>2 DEF Begins
      <4>2. Replace(b ++ c, m, v) = b ++ Replace(c, m, v)
        BY <2>2, <2>3, <4>1, CatPast
      <4> QED
        BY <2>8, <3>2, <4>2
    <3> QED
      BY <3>1, <3>2
  <2> QED
    BY <2>4, <2>5, <2>10, <2>11 DEF a, c
<1>9. Chain(z, k, g, y)
  BY <1>8 DEF Chain
<1> QED
  BY <1>3, <1>6, <1>7, <1>9 DEF Joined

-----------------------------------------------------------------------------
(* The characters of a text and of its masks. *)
Symbols == Alphabet \cup UNION {Range(Apply(e)) : e \in Range(entities)}

(* What the text is made of: Gap(h) and Span of each entity in turn, Rest. *)
Gaps  == [h \in 1 .. Len(entities) |-> Gap(h)]
Spans == [h \in 1 .. Len(entities) |-> Span(entities[h])]
Masks == [h \in 1 .. Len(entities) |-> Apply(entities[h])]
Rest  == Gap(Len(entities) + 1)

Setting == <<text, entities, rule, digest>>

LEMMA SettingKept ==
    ASSUME UNCHANGED Setting
    PROVE  /\ UNCHANGED <<Symbols, Gaps, Spans, Masks, Rest>>
           /\ \A e : Apply(e)' = Apply(e) /\ Span(e)' = Span(e)
           /\ \A h : Gap(h)' = Gap(h)
<1>1. text' = text /\ entities' = entities /\ rule' = rule /\ digest' = digest
  BY DEF Setting
<1>2. \A e : Span(e)' = Span(e)
  BY <1>1 DEF Span
<1>3. \A e : Chars(e)' = Chars(e)
  BY <1>1, TaskKept DEF Chars, Task
<1>4. \A e : Apply(e)' = Apply(e)
  <2>1. \A s : Synthetic(s)' = Synthetic(s)
    BY <1>1 DEF Synthetic
  <2> QED
    BY <1>1, <1>2, <1>3, <2>1 DEF Apply
<1>5. \A h : Gap(h)' = Gap(h)
  BY <1>1 DEF Gap
<1>6. Symbols' = Symbols
  BY <1>1, <1>4 DEF Symbols
<1>7. UNCHANGED <<Gaps, Spans, Masks, Rest>>
  BY <1>1, <1>2, <1>4, <1>5 DEF Gaps, Spans, Masks, Rest
<1> QED
  BY <1>2, <1>4, <1>5, <1>6, <1>7

(* Where the entities are. *)
LEMMA Bounds ==
    ASSUME Given, NEW h \in 1 .. Len(entities)
    PROVE  /\ Start(entities[h]) \in 1 .. Len(text) /\ End(entities[h]) \in 1 .. Len(text)
           /\ Start(entities[h]) <= End(entities[h])
           /\ h > 1 => End(entities[h - 1]) < Start(entities[h])
<1>1. Len(entities) \in Nat
  BY DEF Given
<1>2. /\ Start(entities[h]) \in 1 .. Len(text) /\ End(entities[h]) \in 1 .. Len(text)
      /\ Start(entities[h]) <= End(entities[h])
  BY DEF Given, IsEntity
<1>3. ASSUME h > 1 PROVE End(entities[h - 1]) < Start(entities[h])
  <2> DEFINE k == h - 1
  <2>1. k \in 1 .. Len(entities) - 1 /\ h = k + 1
    BY <1>1, <1>3
  <2> HIDE DEF k
  <2>2. End(entities[k]) < Start(entities[k + 1])
    BY <2>1 DEF Given
  <2> QED
    BY <2>1, <2>2 DEF k
<1> QED
  BY <1>2, <1>3

LEMMA TextPart ==
    ASSUME Given, NEW a \in 1 .. Len(text) + 1, NEW b \in 0 .. Len(text)
    PROVE  /\ SubSeq(text, a, b) \in Seq(Alphabet)
           /\ Len(SubSeq(text, a, b)) = IF a <= b THEN b - a + 1 ELSE 0
           /\ \A i \in 1 .. b - a + 1 : SubSeq(text, a, b)[i] = text[a + i - 1]
<1>1. Len(text) \in Nat /\ \A i \in 1 .. Len(text) : text[i] \in Alphabet
  BY DEF Given
<1>2. a \in Int /\ b \in Int /\ \A i \in a .. b : text[i] \in Alphabet
  BY <1>1
<1> QED
  BY <1>2, SubSeqProperties

LEMMA SpanType ==
    ASSUME Given, NEW h \in 1 .. Len(entities)
    PROVE  Span(entities[h]) \in Seq(Alphabet) /\ Span(entities[h]) # <<>>
<1> DEFINE a == Start(entities[h])
           b == End(entities[h])
           s == SubSeq(text, a, b)
<1>1. a \in 1 .. Len(text) /\ b \in 1 .. Len(text) /\ a <= b /\ Len(text) \in Nat
  BY Bounds DEF Given
<1> HIDE DEF a, b
<1>2. a \in 1 .. Len(text) + 1 /\ b \in 0 .. Len(text) /\ b - a + 1 > 0
  BY <1>1
<1>3. s \in Seq(Alphabet) /\ Len(s) = b - a + 1
  BY <1>1, <1>2, TextPart
<1> HIDE DEF s
<1>4. s # <<>>
  BY <1>2, <1>3
<1> QED
  BY <1>3, <1>4 DEF Span, s, a, b

(* A function on 1 .. n is a sequence of what it has. *)
LEMMA SequenceOfItsOwn ==
    ASSUME NEW n \in Nat, n > 0, NEW f, f = [i \in 1 .. n |-> f[i]]
    PROVE  f \in Seq(Range(f)) /\ f # <<>>
<1>1. DOMAIN f = 1 .. n
  OBVIOUS
<1>2. \A i \in 1 .. n : f[i] \in Range(f)
  BY <1>1 DEF Range
<1>3. f \in [1 .. n -> Range(f)]
  BY <1>2
<1>4. f \in Seq(Range(f)) /\ Len(f) = n
  BY <1>1, <1>3
<1> QED
  BY <1>4

LEMMA MaskType ==
    ASSUME Given, NEW h \in 1 .. Len(entities)
    PROVE  Apply(entities[h]) \in Seq(Symbols) /\ Apply(entities[h]) # <<>>
<1> DEFINE e == entities[h]
           s == Span(e)
           m == Apply(e)
           Own(u) == u \in Seq(Range(u)) /\ u # <<>>
<1>1. s \in Seq(Alphabet) /\ s # <<>>
  BY SpanType
<1>2. Len(s) \in Nat /\ Len(s) > 0 /\ DOMAIN s = 1 .. Len(s)
  BY <1>1, EmptySeq, LenProperties
<1> HIDE DEF e, s, m
<1>3. Own(Mail(s))
  <2>1. Mail(s) = [i \in 1 .. Len(s) |-> Mail(s)[i]]
    BY <1>2 DEF Mail
  <2> QED
    BY <1>2, <2>1, SequenceOfItsOwn
<1>4. Own(Synthetic(s))
  <2>1. Synthetic(s) = [i \in 1 .. Len(s) |-> Synthetic(s)[i]]
    BY <1>2 DEF Synthetic
  <2> QED
    BY <1>2, <2>1, SequenceOfItsOwn
<1>5. Own(Chars(e))
  <2> DEFINE n == End(e) - Start(e) + 1
  <2>1. n \in Nat /\ n > 0
    <3>1. Start(e) \in Nat /\ End(e) \in Nat /\ Start(e) <= End(e)
      BY Bounds DEF e, Given
    <3> QED
      BY <3>1
  <2>2. Chars(e) = [i \in 1 .. n |-> Chars(e)[i]]
    BY DEF Chars
  <2> HIDE DEF n
  <2> QED
    BY <2>1, <2>2, SequenceOfItsOwn
<1>6. ASSUME Range(s) \cap Letters # {} PROVE Own(Initials(s))
  <2> DEFINE starts == {i \in DOMAIN s : s[i] \in Letters /\ (i = 1 \/ s[i - 1] \notin Letters)}
             n == 3 * Cardinality(starts) - 1
             where == {i \in 1 .. Len(s) : s[i] \in Letters}
  <2>1. where # {} /\ where \in SUBSET Nat
    BY <1>2, <1>6 DEF Range
  <2>2. PICK i \in where : \A j \in where : i <= j
    BY <2>1, LeastNumber
  <2>3. i \in starts
    <3>1. i \in 1 .. Len(s) /\ s[i] \in Letters
      BY <2>2
    <3>2. ASSUME i # 1 PROVE s[i - 1] \notin Letters
      <4>1. i - 1 \in 1 .. Len(s) /\ ~(i <= i - 1)
        BY <1>2, <3>1, <3>2
      <4>2. i - 1 \notin where
        BY <2>2, <4>1
      <4> QED
        BY <4>1, <4>2
    <3> QED
      BY <1>2, <3>1, <3>2
  <2>4. IsFiniteSet(starts)
    <3>1. starts \subseteq 1 .. Len(s)
      BY <1>2
    <3> HIDE DEF starts
    <3>2. IsFiniteSet(1 .. Len(s))
      BY <1>2, FS_Interval
    <3> QED
      BY <3>1, <3>2, FS_Subset
  <2>5. Cardinality(starts) \in Nat /\ Cardinality(starts) # 0
    <3> HIDE DEF starts
    <3> QED
      BY <2>3, <2>4, FS_CardinalityType, FS_EmptySet
  <2>6. Initials(s) = [j \in 1 .. n |-> Initials(s)[j]]
    BY DEF Initials
  <2> HIDE DEF starts
  <2>7. n \in Nat /\ n > 0
    BY <2>5
  <2> HIDE DEF n
  <2> QED
    BY <2>6, <2>7, SequenceOfItsOwn
<1>7. \A d : Own(<<"[", d, "]">>)
  BY DEF Range
<1>8. Own(<<"[", "]">>)
  BY DEF Range
<1>9. Own(m)
  <2> HIDE DEF Own
  <2>1. m = Apply(e) /\ s = Span(e)
    BY DEF m, s
  <2> QED
    BY <1>3, <1>4, <1>5, <1>6, <1>7, <1>8, <2>1 DEF Apply
<1>10. Range(m) \subseteq Symbols
  <2>1. e \in Range(entities)
    BY DEF e, Given, Range
  <2> QED
    BY <2>1 DEF Symbols, m
<1>11. m \in Seq(Symbols)
  BY <1>9, <1>10, SeqMonotonic
<1> QED
  BY <1>9, <1>11 DEF m, e

(* Where Gap(h) begins. *)
After(h) == IF h = 1 THEN 1 ELSE End(entities[h - 1]) + 1

LEMMA AfterBounds ==
    ASSUME Given, NEW h \in 1 .. Len(entities) + 1
    PROVE  /\ After(h) \in 1 .. Len(text) + 1
           /\ h <= Len(entities) => After(h) <= Start(entities[h])
<1>1. Len(entities) \in Nat /\ Len(text) \in Nat
  BY DEF Given
<1>2. CASE h = 1
  <2>1. h <= Len(entities) => Start(entities[h]) \in 1 .. Len(text)
    BY <1>1, Bounds
  <2> QED
    BY <1>1, <1>2, <2>1 DEF After
<1>3. CASE h # 1
  <2> DEFINE k == h - 1
             b == End(entities[k])
  <2>1. k \in 1 .. Len(entities)
    BY <1>1, <1>3
  <2>2. b \in 1 .. Len(text)
    BY <2>1, Bounds
  <2>3. ASSUME h <= Len(entities) PROVE b < Start(entities[h]) /\ Start(entities[h]) \in Nat
    <3>1. h \in 1 .. Len(entities) /\ h > 1
      BY <1>1, <1>3, <2>3
    <3> QED
      BY <1>1, <3>1, Bounds
  <2>4. After(h) = b + 1
    BY <1>3 DEF After
  <2> HIDE DEF b
  <2> QED
    BY <1>1, <2>2, <2>3, <2>4
<1> QED
  BY <1>2, <1>3

LEMMA GapIs ==
    ASSUME Given, NEW h \in 1 .. Len(entities) + 1
    PROVE  /\ Gap(h) = SubSeq(text, After(h), IF h > Len(entities) THEN Len(text)
                                              ELSE Start(entities[h]) - 1)
           /\ (IF h > Len(entities) THEN Len(text) ELSE Start(entities[h]) - 1) \in 0 .. Len(text)
           /\ Gap(h) \in Seq(Alphabet)
<1> DEFINE a == After(h)
           b == IF h > Len(entities) THEN Len(text) ELSE Start(entities[h]) - 1
<1>1. Len(entities) \in Nat /\ Len(text) \in Nat
  BY DEF Given
<1>2. a \in 1 .. Len(text) + 1
  BY AfterBounds
<1>3. b \in 0 .. Len(text)
  <2>1. CASE h > Len(entities)
    BY <1>1, <2>1
  <2>2. CASE ~(h > Len(entities))
    <3>1. h \in 1 .. Len(entities)
      BY <1>1, <2>2
    <3>2. Start(entities[h]) \in 1 .. Len(text)
      BY <3>1, Bounds
    <3> QED
      BY <1>1, <2>2, <3>2
  <2> QED
    BY <2>1, <2>2
<1>4. Gap(h) = SubSeq(text, a, b)
  BY DEF Gap, After
<1> HIDE DEF a, b
<1>5. Gap(h) \in Seq(Alphabet)
  BY <1>2, <1>3, <1>4, TextPart
<1> QED
  BY <1>3, <1>4, <1>5 DEF a, b

LEMMA Split ==
    ASSUME NEW S, NEW s \in Seq(S), NEW a \in 1 .. Len(s) + 1, NEW b \in a - 1 .. Len(s)
    PROVE  SubSeq(s, a, Len(s)) = SubSeq(s, a, b) ++ SubSeq(s, b + 1, Len(s))
<1>1. Len(s) \in Nat
  BY LenProperties
<1>2. b \in Int /\ Len(s) \in b .. Len(s)
  BY <1>1
<1>3. SubSeq(s, a, b) \o SubSeq(s, b + 1, Len(s)) = SubSeq(s, a, Len(s))
  BY <1>2, ConcatAdjacentSubSeq
<1> QED
  BY <1>3 DEF ++

(* The text is its gaps and spans. *)
LEMMA TextJoined ==
    ASSUME Given PROVE Joined(Symbols, Len(entities), Gaps, Spans, Rest, text)
<1> DEFINE n == Len(entities)
           l == Len(text)
           w == [h \in 1 .. n + 1 |-> SubSeq(text, After(h), l)]
<1>1. n \in Nat /\ l \in Nat /\ text \in Seq(Alphabet)
  BY DEF Given
<1>2. w \in [1 .. n + 1 -> Seq(Symbols)]
  <2> SUFFICES ASSUME NEW h \in 1 .. n + 1 PROVE SubSeq(text, After(h), l) \in Seq(Symbols)
    OBVIOUS
  <2>1. After(h) \in 1 .. l + 1 /\ l \in 0 .. l
    BY <1>1, AfterBounds
  <2>2. SubSeq(text, After(h), l) \in Seq(Alphabet)
    BY <2>1, TextPart
  <2>3. Alphabet \subseteq Symbols
    BY DEF Symbols
  <2> HIDE DEF l
  <2> QED
    BY <2>2, <2>3, SeqMonotonic
<1>3. \A h \in 1 .. n + 1 : w[h] = SubSeq(text, After(h), l)
  OBVIOUS
<1> HIDE DEF w
<1>4. w[1] = text
  <2>1. 1 \in 1 .. n + 1 /\ After(1) = 1
    BY <1>1 DEF After
  <2>2. SubSeq(text, 1, l) = text
    BY <1>1, SubSeqFull
  <2> HIDE DEF n, l
  <2> QED
    BY <1>3, <2>1, <2>2
<1>5. w[n + 1] = Rest
  <2>1. n + 1 \in 1 .. n + 1 /\ n + 1 > n
    BY <1>1
  <2>2. Gap(n + 1) = SubSeq(text, After(n + 1), l)
    BY <2>1, GapIs
  <2> QED
    BY <1>3, <2>1, <2>2 DEF Rest
<1>6. ASSUME NEW h \in 1 .. n PROVE w[h] = Gaps[h] ++ (Spans[h] ++ w[h + 1])
  <2> DEFINE a == After(h)
             b == Start(entities[h]) - 1
             c == End(entities[h])
  <2>1. h \in 1 .. n + 1 /\ h + 1 \in 1 .. n + 1 /\ ~(h > n) /\ h <= n /\ h + 1 # 1 /\ h + 1 - 1 = h
    BY <1>1
  <2>2. Gaps[h] = SubSeq(text, a, b) /\ Spans[h] = SubSeq(text, b + 1, c)
    <3>1. Gap(h) = SubSeq(text, a, b)
      BY <2>1, GapIs
    <3>2. Start(entities[h]) \in Nat
      BY Bounds DEF Given
    <3>3. b + 1 = Start(entities[h])
      BY <3>2
    <3>4. Span(entities[h]) = SubSeq(text, b + 1, c)
      BY <3>3 DEF Span
    <3> QED
      BY <3>1, <3>4 DEF Gaps, Spans
  <2>3. After(h + 1) = c + 1
    BY <2>1 DEF After
  <2>4. a \in 1 .. l + 1 /\ b \in a - 1 .. l /\ b + 1 \in 1 .. l + 1 /\ c \in b + 1 - 1 .. l
    <3>1. a \in 1 .. l + 1 /\ a <= Start(entities[h])
      BY <2>1, AfterBounds
    <3>2. Start(entities[h]) \in 1 .. l /\ c \in 1 .. l /\ Start(entities[h]) <= c
      BY Bounds
    <3> HIDE DEF a, c, l
    <3> QED
      BY <1>1, <3>1, <3>2
  <2> HIDE DEF a, b, c
  <2>5. SubSeq(text, a, l) = SubSeq(text, a, b) ++ SubSeq(text, b + 1, l)
    BY <1>1, <2>4, Split
  <2> DEFINE d == b + 1
  <2>6. d \in 1 .. l + 1 /\ c \in d - 1 .. l
    BY <2>4
  <2> HIDE DEF d
  <2>7. SubSeq(text, d, l) = SubSeq(text, d, c) ++ SubSeq(text, c + 1, l)
    BY <1>1, <2>6, Split
  <2>8. w[h] = SubSeq(text, a, l) /\ w[h + 1] = SubSeq(text, c + 1, l)
    BY <1>3, <2>1, <2>3 DEF a
  <2> QED
    BY <2>2, <2>5, <2>7, <2>8 DEF d
<1>7. Chain(w, n, Gaps, Spans)
  BY <1>6 DEF Chain
<1> HIDE DEF l
<1> QED
  BY <1>2, <1>4, <1>5, <1>7 DEF Joined

(* Two texts with one between them. *)
LEMMA JoinedTwo ==
    ASSUME NEW S, NEW a \in Seq(S), NEW c \in Seq(S), NEW b \in Seq(S),
           NEW g, g[1] = <<>>, g[2] = c, NEW x, x[1] = a, x[2] = b
    PROVE  Joined(S, 2, g, x, <<>>, a \o c \o b)
<1> DEFINE e == <<>>
           w == [j \in 1 .. 2 + 1 |-> IF j = 1 THEN a ++ (c ++ b) ELSE IF j = 2 THEN c ++ b ELSE e]
<1>1. e \in Seq(S) /\ c ++ b \in Seq(S)
  BY CatType, CatNothing
<1>2. a ++ (c ++ b) \in Seq(S)
  BY <1>1, CatType
<1>3. b ++ e = b /\ e ++ (a ++ (c ++ b)) = a ++ (c ++ b)
  BY <1>2, CatNothing
<1>4. a \o c \o b = a ++ (c ++ b)
  <2>1. (a ++ c) ++ b = a ++ (c ++ b)
    BY CatAssociative
  <2> QED
    BY <2>1 DEF ++
<1>5. g[1] = e
  OBVIOUS
<1> HIDE DEF e
<1>6. w \in [1 .. 2 + 1 -> Seq(S)]
  BY <1>1, <1>2
<1>7. w[1] = a ++ (c ++ b) /\ w[2] = c ++ b /\ w[2 + 1] = e
  OBVIOUS
<1> HIDE DEF w
<1>8. ASSUME NEW j \in 1 .. 2 PROVE w[j] = g[j] ++ (x[j] ++ w[j + 1])
  <2>1. j = 1 \/ j = 2
    OBVIOUS
  <2>2. CASE j = 1
    BY <1>3, <1>5, <1>7, <2>2
  <2>3. CASE j = 2
    BY <1>3, <1>7, <2>3
  <2> QED
    BY <2>1, <2>2, <2>3
<1>9. Chain(w, 2, g, x)
  BY <1>8 DEF Chain
<1>10. Joined(S, 2, g, x, e, a ++ (c ++ b))
  BY <1>6, <1>7, <1>9 DEF Joined
<1> QED
  BY <1>4, <1>10 DEF e

-----------------------------------------------------------------------------
Fragment(h) == <<Apply(entities[h]), Span(entities[h])>>

(* The masked text, as far as it has been made. *)
Remembered == \A h \in 1 .. Done : masked.fragments[h] = Fragment(h)
Assembled ==
    /\ phase = "found" => Joined(Symbols, Done, Gaps, Masks, <<>>, masked.text)
    /\ phase # "found" => Joined(Symbols, Len(entities), Gaps, Masks, Rest, masked.text)

MInv == IInv /\ digest \in Digests /\ Remembered /\ Assembled

LEMMA PartsType ==
    ASSUME Given, NEW h \in 1 .. Len(entities)
    PROVE  Gaps[h] \in Seq(Symbols) /\ Masks[h] \in Seq(Symbols) /\ Spans[h] \in Seq(Symbols)
<1>1. Alphabet \subseteq Symbols
  BY DEF Symbols
<1>2. h \in 1 .. Len(entities) + 1
  BY DEF Given
<1>3. Gap(h) \in Seq(Symbols)
  BY <1>1, <1>2, GapIs, SeqMonotonic
<1>4. Span(entities[h]) \in Seq(Symbols)
  BY <1>1, SpanType, SeqMonotonic
<1>5. Apply(entities[h]) \in Seq(Symbols)
  BY MaskType
<1> QED
  BY <1>3, <1>4, <1>5 DEF Gaps, Masks, Spans

LEMMA RestType == ASSUME Given PROVE Rest \in Seq(Symbols) /\ Rest \in Seq(Alphabet)
<1>1. Alphabet \subseteq Symbols
  BY DEF Symbols
<1> DEFINE h == Len(entities) + 1
<1>2. h \in 1 .. Len(entities) + 1
  BY DEF Given
<1>3. Gap(h) \in Seq(Alphabet)
  BY <1>2, GapIs
<1> QED
  BY <1>1, <1>3, SeqMonotonic DEF Rest

LEMMA SayInit == Init => MInv
<1> SUFFICES ASSUME Init PROVE MInv
  OBVIOUS
<1>1. IInv
  BY MaskingInit
<1>2. masked.text = <<>> /\ masked.fragments = <<>> /\ phase = "found" /\ digest \in Digests
  BY DEF Init
<1>3. Done = 0
  BY <1>2 DEF Done
<1>4. Remembered
  BY <1>3 DEF Remembered
<1> DEFINE e == <<>>
           w == [j \in 1 .. 0 + 1 |-> e]
<1>5. e \in Seq(Symbols)
  BY CatNothing
<1> HIDE DEF e
<1>6. w \in [1 .. 0 + 1 -> Seq(Symbols)] /\ w[1] = e /\ w[0 + 1] = e
  BY <1>5
<1> HIDE DEF w
<1>7. Joined(Symbols, 0, Gaps, Masks, e, e)
  BY <1>6 DEF Joined, Chain
<1>8. Assembled
  BY <1>2, <1>3, <1>7 DEF Assembled, e
<1> QED
  BY <1>1, <1>2, <1>4, <1>8 DEF MInv

LEMMA MaskEntityExtends == ASSUME MInv, MaskEntity, IInv' PROVE MInv'
<1> DEFINE k == Done
           n == k + 1
           e == entities[n]
           old == masked.text
           gap == Gap(n)
           mask == Apply(e)
<1>1. /\ Given /\ Progress /\ phase = "found" /\ phase' = "found" /\ UNCHANGED Setting
      /\ masked'.text = old \o SubSeq(text, Pos, Start(e) - 1) \o mask
      /\ masked'.fragments = Append(masked.fragments, Fragment(n))
  BY DEF MInv, IInv, MaskEntity, Setting, Fragment
<1>2. k \in Nat /\ n \in 1 .. Len(entities) /\ n \in 1 .. Len(entities) + 1 /\ Len(entities) \in Nat
  <2>1. k \in Nat /\ n \in 1 .. Len(entities) /\ Len(entities) \in Nat
    BY DoneRange DEF MInv, MaskEntity
  <2> QED
    BY <2>1
<1>3. gap = SubSeq(text, Pos, Start(e) - 1)
  <2>1. After(n) = Pos
    <3>1. n = 1 <=> k = 0
      BY <1>2
    <3>2. n - 1 = k
      BY <1>2
    <3> HIDE DEF n
    <3> QED
      BY <3>1, <3>2 DEF After, Pos
  <2>2. ~(n > Len(entities))
    BY <1>2
  <2> QED
    BY <1>1, <1>2, <2>1, <2>2, GapIs
<1>4. Joined(Symbols, k, Gaps, Masks, <<>>, old)
  BY <1>1 DEF MInv, Assembled
<1>5. \A j \in 1 .. k : Gaps[j] \in Seq(Symbols) /\ Masks[j] \in Seq(Symbols)
  <2>1. \A j \in 1 .. k : j \in 1 .. Len(entities)
    BY <1>2
  <2> QED
    BY <1>1, <2>1, PartsType
<1>6. Gaps[n] = gap /\ Masks[n] = mask
  BY <1>2 DEF Gaps, Masks
<1>7. gap \in Seq(Symbols) /\ mask \in Seq(Symbols)
  BY <1>1, <1>2, <1>6, PartsType
<1>8. old \in Seq(Symbols)
  <2>1. 1 \in 1 .. k + 1
    BY <1>2
  <2> QED
    BY <1>4, <2>1 DEF Joined
<1>9. masked'.fragments[n] = Fragment(n) /\ \A h \in 1 .. k : masked'.fragments[h] = Fragment(h)
  <2> DEFINE f == masked.fragments
             T == Range(f) \cup {Fragment(n)}
  <2>1. f \in Seq(Range(f)) /\ Len(f) = k
    BY <1>1 DEF Progress, Done
  <2>2. \A h \in 1 .. k : f[h] = Fragment(h)
    BY DEF MInv, Remembered
  <2>3. Fragment(n) \in T /\ Range(f) \subseteq T
    OBVIOUS
  <2> HIDE DEF f, T
  <2>4. f \in Seq(T)
    BY <2>1, <2>3, SeqMonotonic
  <2> DEFINE g == Append(f, Fragment(n))
  <2>5. (\A i \in 1 .. Len(f) : g[i] = f[i]) /\ g[Len(f) + 1] = Fragment(n)
    BY <2>3, <2>4, AppendProperties
  <2>6. g = masked'.fragments
    BY <1>1 DEF f
  <2> HIDE DEF g
  <2> QED
    BY <2>1, <2>2, <2>5, <2>6
<1>10. Done' = n
  <2>1. IInv'
    OBVIOUS
  <2>2. Len(Append(masked.fragments, Fragment(n))) = Len(masked.fragments) + 1
    BY <1>1 DEF Progress
  <2> QED
    BY <1>1, <2>2 DEF Done
<1> HIDE DEF k, e, old, gap, mask
<1>11. masked'.text = old ++ (gap ++ mask)
  <2>1. masked'.text = (old ++ gap) ++ mask
    BY <1>1, <1>3 DEF ++
  <2> QED
    BY <1>7, <1>8, <2>1, CatAssociative
<1>12. Joined(Symbols, n, Gaps, Masks, <<>>, masked'.text)
  <2> DEFINE nothing == <<>>
  <2>1. nothing \in Seq(Symbols) /\ mask ++ nothing = mask
    BY <1>7, CatNothing
  <2>2. gap ++ mask \in Seq(Symbols)
    BY <1>7, CatType
  <2>3. nothing ++ (gap ++ mask) = gap ++ mask
    BY <2>2, CatNothing
  <2>4. Joined(Symbols, k, Gaps, Masks, nothing, old)
    BY <1>4
  <2> HIDE DEF nothing
  <2>5. Joined(Symbols, k, Gaps, Masks, nothing ++ (gap ++ mask), old ++ (gap ++ mask))
    BY <1>2, <1>5, <2>2, <2>4, JoinedLonger
  <2>6. Joined(Symbols, k, Gaps, Masks, Gaps[k + 1] ++ (Masks[k + 1] ++ nothing), masked'.text)
    BY <1>6, <1>11, <2>1, <2>3, <2>5
  <2> HIDE DEF n
  <2>7. Joined(Symbols, k + 1, Gaps, Masks, nothing, masked'.text)
    BY <1>2, <2>1, <2>6, JoinedMore
  <2> QED
    BY <2>7 DEF n, nothing
<1>13. Assembled'
  BY <1>1, <1>10, <1>12, SettingKept DEF Assembled
<1>14. Remembered'
  <2>1. entities' = entities /\ \A h : Fragment(h)' = Fragment(h)
    BY <1>1, SettingKept DEF Fragment, Setting
  <2>2. \A h \in 1 .. n : h = n \/ h \in 1 .. k
    BY <1>2
  <2> HIDE DEF n
  <2> QED
    BY <1>9, <1>10, <2>1, <2>2 DEF Remembered
<1>15. digest' \in Digests'
  BY <1>1, SettingKept DEF Digests, Values, Setting, MInv
<1> QED
  BY <1>13, <1>14, <1>15 DEF MInv

LEMMA MaskRestExtends == ASSUME MInv, MaskRest, IInv' PROVE MInv'
<1> DEFINE n == Len(entities)
           old == masked.text
<1>1. /\ Given /\ Progress /\ phase = "found" /\ phase' = "masked" /\ UNCHANGED Setting
      /\ masked' = [text |-> old \o SubSeq(text, Pos, Len(text)), fragments |-> masked.fragments]
      /\ Done = n
  <2>1. masked = [text |-> old, fragments |-> masked.fragments]
    BY DEF MInv, IInv, Progress
  <2>2. masked' = [masked EXCEPT !.text = @ \o SubSeq(text, Pos, Len(text))]
    BY DEF MaskRest
  <2>3. masked' = [text |-> old \o SubSeq(text, Pos, Len(text)), fragments |-> masked.fragments]
    BY <2>1, <2>2
  <2> QED
    BY <2>3 DEF MInv, IInv, MaskRest, Setting
<1>2. n \in Nat
  BY <1>1 DEF Given
<1>3. SubSeq(text, Pos, Len(text)) = Rest
  <2>1. n + 1 \in 1 .. n + 1 /\ n + 1 > n /\ (n + 1 = 1 <=> n = 0) /\ n + 1 - 1 = n
    BY <1>2
  <2>2. After(n + 1) = Pos
    BY <1>1, <2>1 DEF After, Pos
  <2> QED
    BY <1>1, <2>1, <2>2, GapIs DEF Rest
<1>4. masked'.text = old ++ Rest /\ masked'.fragments = masked.fragments
  BY <1>1, <1>3 DEF ++
<1>5. Joined(Symbols, n, Gaps, Masks, <<>>, old)
  BY <1>1 DEF MInv, Assembled
<1>6. Joined(Symbols, n, Gaps, Masks, Rest, old ++ Rest)
  <2> DEFINE nothing == <<>>
  <2>1. Rest \in Seq(Symbols) /\ nothing ++ Rest = Rest
    BY <1>1, RestType, CatNothing
  <2>2. Joined(Symbols, n, Gaps, Masks, nothing, old)
    BY <1>5
  <2>3. \A j \in 1 .. n : Gaps[j] \in Seq(Symbols) /\ Masks[j] \in Seq(Symbols)
    BY <1>1, PartsType
  <2> HIDE DEF nothing, n, old
  <2>4. Joined(Symbols, n, Gaps, Masks, nothing ++ Rest, old ++ Rest)
    BY <1>2, <2>1, <2>2, <2>3, JoinedLonger
  <2> QED
    BY <2>1, <2>4
<1>7. Done' = Done /\ entities' = entities /\ \A h : Fragment(h)' = Fragment(h)
  BY <1>1, <1>4, SettingKept DEF Done, Fragment, Setting
<1>8. Assembled'
  BY <1>1, <1>4, <1>6, <1>7, SettingKept DEF Assembled
<1>9. Remembered'
  BY <1>4, <1>7 DEF Remembered, MInv
<1>10. digest' \in Digests'
  BY <1>1, SettingKept DEF Digests, Values, Setting, MInv
<1> QED
  BY <1>8, <1>9, <1>10 DEF MInv

LEMMA LaterRemembers ==
    ASSUME MInv, UNCHANGED <<Setting, masked>>, (phase = "found") = (phase' = "found"), IInv'
    PROVE  MInv'
<1>1. /\ UNCHANGED Setting /\ masked' = masked /\ entities' = entities /\ rule' = rule /\ digest' = digest
  BY DEF Setting
<1>2. Done' = Done /\ \A h : Fragment(h)' = Fragment(h)
  BY <1>1, SettingKept DEF Done, Fragment
<1>3. Assembled'
  BY <1>1, <1>2, SettingKept DEF Assembled, MInv
<1>4. Remembered'
  BY <1>1, <1>2 DEF Remembered, MInv
<1>5. digest' \in Digests'
  BY <1>1, SettingKept DEF Digests, Values, MInv
<1> QED
  BY <1>3, <1>4, <1>5 DEF MInv

-----------------------------------------------------------------------------
(* What came back: pieces that are masks, or values when they have been    *)
(* restored, each behind a text of Between; Ending behind them all.        *)
Fragments == {Fragment(h) : h \in 1 .. Len(entities)}
Count    == IF repeats = <<>> THEN Len(entities) ELSE 2
Said(j)  == IF repeats = <<>> THEN j ELSE repeats[j]
Between  == IF repeats = <<>> THEN Gaps ELSE <<<<>>, <<Separator>>>>
Ending   == IF repeats = <<>> THEN Rest ELSE <<>>
Pieces   == [j \in 1 .. Count |-> IF Fragment(Said(j)) \in Range(pending)
                                  THEN Apply(entities[Said(j)]) ELSE Span(entities[Said(j)])]

Repeated == repeats = <<>> \/ \E i, j \in 1 .. Len(entities) : repeats = <<i, j>>

(* The fragments to restore are different ones, longer masks first. *)
Ordered ==
    /\ pending \in Seq(Fragments)
    /\ \A i, j \in 1 .. Len(pending) : i # j => pending[i] # pending[j]
    /\ \A i, j \in 1 .. Len(pending) : i < j => Len(pending[i][1]) >= Len(pending[j][1])

Clear ==
    \/ rule.strategy = "token"
    \/ rule.strategy = "full" /\ Apart /\ OnlyStars
    \/ Unambiguous

RInv ==
    /\ MInv
    /\ phase = "returned" =>
          /\ Ordered /\ Repeated
          /\ Clear => Joined(Symbols, Count, Between, Pieces, Ending, restored)

LEMMA FragmentsKnown ==
    ASSUME MInv, phase # "found"
    PROVE  /\ Range(masked.fragments) = Fragments /\ DOMAIN masked.fragments = 1 .. Len(entities)
           /\ masked.fragments \in Seq(Fragments)
           /\ \A h \in 1 .. Len(entities) : masked.fragments[h] = Fragment(h)
<1> DEFINE f == masked.fragments
           n == Len(entities)
<1>1. Done = n
  BY DEF MInv, IInv, Progress
<1>2. Len(f) = n /\ f \in Seq(Range(f)) /\ \A h \in 1 .. n : f[h] = Fragment(h)
  BY <1>1 DEF MInv, IInv, Progress, Remembered, Done
<1> HIDE DEF f, n
<1>3. DOMAIN f = 1 .. n
  BY <1>2, LenProperties
<1>4. Range(f) = {Fragment(h) : h \in 1 .. n}
  BY <1>2, <1>3 DEF Range
<1> QED
  BY <1>2, <1>3, <1>4 DEF f, n, Fragments

LEMMA OrdersAreOrders ==
    ASSUME NEW n \in Nat, NEW f, DOMAIN f = 1 .. n, NEW p \in Orders(f)
    PROVE  /\ p \in Seq(Range(f)) /\ Range(p) = Range(f)
           /\ \A i, j \in 1 .. Len(p) : i # j => p[i] # p[j]
           /\ \A i, j \in 1 .. Len(p) : i < j => Len(p[i][1]) >= Len(p[j][1])
<1> DEFINE F == Range(f)
           c == Cardinality(F)
<1>1. IsFiniteSet(F)
  <2> DEFINE g == [i \in 1 .. n |-> f[i]]
  <2>1. F = {f[i] : i \in 1 .. n}
    BY DEF Range
  <2>2. g \in Surjection(1 .. n, F)
    BY <2>1 DEF Surjection
  <2>3. IsFiniteSet(1 .. n)
    BY FS_Interval
  <2> HIDE DEF g, F
  <2> QED
    BY <2>2, <2>3, FS_Surjection
<1>2. c \in Nat
  BY <1>1, FS_CardinalityType
<1>3. /\ p \in [1 .. c -> F]
      /\ \A i, j \in 1 .. c : i # j => p[i] # p[j]
  BY DEF Orders, SetToSeqs
<1>4. \A i, j \in DOMAIN p : i < j => Len(p[i][1]) >= Len(p[j][1])
  BY DEF Orders
<1> HIDE DEF c, F
<1>5. Len(p) = c /\ DOMAIN p = 1 .. c /\ p \in Seq(F)
  BY <1>2, <1>3
<1>6. p \in Injection(1 .. c, F)
  BY <1>3 DEF Injection, IsInjective
<1>7. IsFiniteSet(1 .. c) /\ Cardinality(1 .. c) = c
  BY <1>2, FS_Interval
<1>8. p \in Surjection(1 .. c, F)
  <2>1. Cardinality(1 .. c) = Cardinality(F)
    BY <1>7 DEF c
  <2> QED
    BY <1>1, <1>6, <2>1, FS_Injection
<1>9. Range(p) = F
  BY <1>3, <1>5, <1>8 DEF Surjection, Range
<1> QED
  BY <1>3, <1>4, <1>5, <1>9 DEF F

LEMMA ReturnReturns == ASSUME RInv, Return, MInv' PROVE RInv'
<1>1. /\ MInv /\ phase # "found" /\ phase' = "returned" /\ masked' = masked /\ UNCHANGED Setting
      /\ pending' \in Orders(masked.fragments)
  BY DEF RInv, Return, Setting
<1>2. /\ Symbols' = Symbols /\ Gaps' = Gaps /\ Masks' = Masks /\ Rest' = Rest
      /\ entities' = entities /\ text' = text
      /\ \A e : Apply(e)' = Apply(e) /\ Span(e)' = Span(e)
      /\ \A h : Fragment(h)' = Fragment(h)
  BY <1>1, SettingKept DEF Setting, Fragment
<1>3. /\ Range(masked.fragments) = Fragments /\ DOMAIN masked.fragments = 1 .. Len(entities)
      /\ \A h \in 1 .. Len(entities) : masked.fragments[h] = Fragment(h)
  BY <1>1, FragmentsKnown
<1>4. Given /\ Len(entities) \in Nat /\ Joined(Symbols, Len(entities), Gaps, Masks, Rest, masked.text)
  BY <1>1 DEF MInv, IInv, Given, Assembled
<1>5. /\ pending' \in Seq(Fragments) /\ Range(pending') = Fragments
      /\ \A i, j \in 1 .. Len(pending') : i # j => pending'[i] # pending'[j]
      /\ \A i, j \in 1 .. Len(pending') : i < j => Len(pending'[i][1]) >= Len(pending'[j][1])
  <2> DEFINE f == masked.fragments
  <2> HIDE DEF f
  <2>1. DOMAIN f = 1 .. Len(entities) /\ Range(f) = Fragments /\ pending' \in Orders(f)
    BY <1>1, <1>3 DEF f
  <2> QED
    BY <1>4, <2>1, OrdersAreOrders
<1>6. Fragments' = Fragments
  BY <1>2 DEF Fragments
<1>7. Ordered'
  BY <1>5, <1>6 DEF Ordered
<1>8. CASE restored' = masked.text /\ repeats' = <<>>
  <2>1. Count' = Len(entities) /\ Between' = Gaps /\ Ending' = Rest /\ \A j : Said(j)' = j
    BY <1>2, <1>8 DEF Count, Between, Ending, Said
  <2>2. \A j \in 1 .. Len(entities) : Pieces'[j] = Masks[j]
    <3>1. \A j \in 1 .. Len(entities) : Fragment(j) \in Range(pending')
      BY <1>5 DEF Fragments
    <3> QED
      BY <1>2, <2>1, <3>1 DEF Pieces, Masks
  <2>3. Joined(Symbols, Len(entities), Gaps, Pieces', Rest, masked.text)
    BY <1>4, <2>2 DEF Joined, Chain
  <2>4. Joined(Symbols, Count, Between, Pieces, Ending, restored)'
    BY <1>2, <1>8, <2>1, <2>3
  <2> QED
    BY <1>1, <1>7, <1>8, <2>4 DEF RInv, Repeated
<1>9. ASSUME NEW i \in DOMAIN masked.fragments, NEW j \in DOMAIN masked.fragments,
             restored' = masked.fragments[i][1] \o <<Separator>> \o masked.fragments[j][1],
             repeats' = <<i, j>>
      PROVE  RInv'
  <2>1. i \in 1 .. Len(entities) /\ j \in 1 .. Len(entities)
    BY <1>3
  <2> DEFINE a == Apply(entities[i])
             b == Apply(entities[j])
             c == <<Separator>>
  <2>2. restored' = a \o c \o b
    <3>1. masked.fragments[i][1] = a /\ masked.fragments[j][1] = b
      BY <1>3, <2>1 DEF Fragment
    <3> QED
      BY <1>9, <3>1
  <2>3. repeats' # <<>> /\ repeats'[1] = i /\ repeats'[2] = j
    BY <1>9
  <2>4. Count' = 2 /\ Between' = <<<<>>, c>> /\ Ending' = <<>> /\ Said(1)' = i /\ Said(2)' = j
    BY <2>3 DEF Count, Between, Ending, Said
  <2>5. Pieces'[1] = a /\ Pieces'[2] = b
    <3>1. \A h \in 1 .. Len(entities) : Fragment(h) \in Range(pending')
      BY <1>5 DEF Fragments
    <3>2. 1 \in 1 .. 2 /\ 2 \in 1 .. 2
      OBVIOUS
    <3> QED
      BY <1>2, <2>1, <2>4, <3>1, <3>2 DEF Pieces
  <2>6. a \in Seq(Symbols) /\ b \in Seq(Symbols)
    BY <1>4, <2>1, MaskType
  <2>7. c \in Seq(Symbols)
    BY DEF Symbols, Alphabet
  <2>8. Between'[1] = <<>> /\ Between'[2] = c
    BY <2>4
  <2> HIDE DEF a, b, c
  <2>9. Joined(Symbols, 2, Between', Pieces', <<>>, a \o c \o b)
    BY <2>5, <2>6, <2>7, <2>8, JoinedTwo
  <2>10. Joined(Symbols, Count, Between, Pieces, Ending, restored)'
    BY <1>2, <2>2, <2>4, <2>9
  <2>11. Repeated'
    BY <1>2, <1>9, <2>1 DEF Repeated
  <2> QED
    BY <1>1, <1>7, <2>10, <2>11 DEF RInv
<1> QED
  BY <1>8, <1>9 DEF Return

-----------------------------------------------------------------------------
(* What the gaps, pieces and end of a text that came back are. *)
LEMMA ReturnedType ==
    ASSUME Given, Repeated
    PROVE  /\ Count \in Nat /\ \A j \in 1 .. Count : Said(j) \in 1 .. Len(entities)
           /\ Ending \in Seq(Alphabet) /\ \A j \in 1 .. Count : Between[j] \in Seq(Alphabet)
           /\ Between = [j \in 1 .. Count |-> Between[j]]
           /\ Alphabet \subseteq Symbols
<1>1. Len(entities) \in Nat /\ Alphabet \subseteq Symbols
  BY DEF Given, Symbols
<1>2. CASE repeats = <<>>
  <2>1. Count = Len(entities) /\ Ending = Rest /\ Between = Gaps /\ \A j : Said(j) = j
    BY <1>2 DEF Count, Ending, Between, Said
  <2>2. \A j \in 1 .. Len(entities) : Gaps[j] \in Seq(Alphabet)
    <3> SUFFICES ASSUME NEW j \in 1 .. Len(entities) PROVE Gaps[j] \in Seq(Alphabet)
      OBVIOUS
    <3>1. j \in 1 .. Len(entities) + 1
      BY <1>1
    <3> QED
      BY <3>1, GapIs DEF Gaps
  <2>3. Gaps = [j \in 1 .. Len(entities) |-> Gaps[j]]
    BY DEF Gaps
  <2>4. Rest \in Seq(Alphabet)
    BY RestType
  <2> QED
    BY <1>1, <2>1, <2>2, <2>3, <2>4
<1>3. CASE repeats # <<>>
  <2>1. PICK a, b \in 1 .. Len(entities) : repeats = <<a, b>>
    BY <1>3 DEF Repeated
  <2>2. repeats[1] = a /\ repeats[2] = b
    BY <2>1
  <2>3. Count = 2 /\ Ending = <<>> /\ Between = <<<<>>, <<Separator>>>> /\ Said(1) = a /\ Said(2) = b
    BY <1>3, <2>2 DEF Count, Ending, Between, Said
  <2>4. \A j \in 1 .. 2 : j = 1 \/ j = 2
    OBVIOUS
  <2>5. Between[1] = <<>> /\ Between[2] = <<Separator>>
    BY <2>3
  <2>6. <<>> \in Seq(Alphabet) /\ <<Separator>> \in Seq(Alphabet)
    BY DEF Alphabet
  <2>7. Between = [j \in 1 .. 2 |-> Between[j]]
    BY <2>3
  <2>8. \A j \in 1 .. 2 : Between[j] \in Seq(Alphabet) /\ Said(j) \in 1 .. Len(entities)
    BY <2>3, <2>4, <2>5, <2>6
  <2> QED
    BY <1>1, <2>3, <2>6, <2>7, <2>8
<1> QED
  BY <1>2, <1>3

(* A piece is a mask, or a value that has no mask any more. *)
LEMMA PieceType ==
    ASSUME Given, Repeated, NEW j \in 1 .. Count
    PROVE  /\ Fragment(Said(j)) \in Fragments
           /\ Pieces[j] \in Seq(Symbols) /\ Pieces[j] # <<>>
           /\ \/ Fragment(Said(j)) \in Range(pending) /\ Pieces[j] = Fragment(Said(j))[1]
              \/ /\ Fragment(Said(j)) \notin Range(pending) /\ Pieces[j] = Fragment(Said(j))[2]
                 /\ Pieces[j] \in Seq(Alphabet)
<1> DEFINE h == Said(j)
<1>1. h \in 1 .. Len(entities)
  BY ReturnedType
<1>2. Alphabet \subseteq Symbols
  BY DEF Symbols
<1>3. Pieces[j] = IF Fragment(h) \in Range(pending) THEN Apply(entities[h]) ELSE Span(entities[h])
  BY DEF Pieces
<1> HIDE DEF h
<1>4. Span(entities[h]) \in Seq(Alphabet) /\ Span(entities[h]) # <<>>
  BY <1>1, SpanType
<1>5. Span(entities[h]) \in Seq(Symbols)
  BY <1>2, <1>4, SeqMonotonic
<1>6. Apply(entities[h]) \in Seq(Symbols) /\ Apply(entities[h]) # <<>>
  BY <1>1, MaskType
<1>7. Fragment(h)[1] = Apply(entities[h]) /\ Fragment(h)[2] = Span(entities[h])
  BY DEF Fragment
<1>8. Fragment(h) \in Fragments
  BY <1>1 DEF Fragments
<1> QED
  BY <1>3, <1>4, <1>5, <1>6, <1>7, <1>8 DEF h

(* The same for the fragments that are to be restored. *)
LEMMA FragmentType ==
    ASSUME Given, NEW f \in Fragments
    PROVE  /\ f[1] \in Seq(Symbols) /\ f[1] # <<>>
           /\ f[2] \in Seq(Symbols) /\ f[2] \in Seq(Alphabet) /\ f[2] # <<>>
           /\ \E h \in 1 .. Len(entities) : f = Fragment(h)
<1>1. PICK h \in 1 .. Len(entities) : f = Fragment(h)
  BY DEF Fragments
<1>2. f[1] = Apply(entities[h]) /\ f[2] = Span(entities[h])
  BY <1>1 DEF Fragment
<1>3. Alphabet \subseteq Symbols
  BY DEF Symbols
<1>4. f[2] \in Seq(Alphabet) /\ f[2] # <<>>
  BY <1>2, SpanType
<1>5. f[1] \in Seq(Symbols) /\ f[1] # <<>>
  BY <1>2, MaskType
<1> QED
  BY <1>1, <1>3, <1>4, <1>5, SeqMonotonic

(* Restoring the first of the fragments leaves the others, in their order. *)
LEMMA PendingHead ==
    ASSUME Given, Ordered, pending # <<>>
    PROVE  /\ Head(pending) \in Fragments /\ Head(pending) \in Range(pending)
           /\ Range(pending) \subseteq Fragments
           /\ \A g \in Range(pending) : Len(Head(pending)[1]) >= Len(g[1])
           /\ Range(Tail(pending)) = Range(pending) \ {Head(pending)}
           /\ Tail(pending) \in Seq(Fragments)
           /\ \A i, j \in 1 .. Len(Tail(pending)) :
                 /\ i # j => Tail(pending)[i] # Tail(pending)[j]
                 /\ i < j => Len(Tail(pending)[i][1]) >= Len(Tail(pending)[j][1])
<1> DEFINE p == pending
           t == Tail(pending)
           n == Len(p)
<1>1. /\ p \in Seq(Fragments)
      /\ \A i, j \in 1 .. n : i # j => p[i] # p[j]
      /\ \A i, j \in 1 .. n : i < j => Len(p[i][1]) >= Len(p[j][1])
  BY DEF Ordered
<1>2. n \in Nat \ {0} /\ DOMAIN p = 1 .. n /\ \A i \in 1 .. n : p[i] \in Fragments
  BY <1>1, EmptySeq, LenProperties, ElementOfSeq
<1>3. Head(p) = p[1]
  OBVIOUS
<1>4. t \in Seq(Fragments) /\ Len(t) = n - 1 /\ \A i \in 1 .. Len(t) : t[i] = p[i + 1]
  BY <1>1, HeadTailProperties
<1>5. DOMAIN t = 1 .. n - 1
  BY <1>4, LenProperties
<1> HIDE DEF p, t, n
<1>6. 1 \in 1 .. n /\ \A i \in 1 .. n - 1 : i + 1 \in 1 .. n /\ i + 1 # 1
  BY <1>2
<1>7. Range(p) = {p[i] : i \in 1 .. n} /\ Range(t) = {t[i] : i \in 1 .. n - 1}
  BY <1>2, <1>5 DEF Range
<1>8. Range(t) = Range(p) \ {p[1]}
  <2>1. ASSUME NEW i \in 1 .. n - 1 PROVE t[i] \in Range(p) \ {p[1]}
    BY <1>1, <1>4, <1>6, <1>7
  <2>2. ASSUME NEW i \in 1 .. n, p[i] # p[1] PROVE p[i] \in Range(t)
    <3> DEFINE k == i - 1
    <3>1. k \in 1 .. n - 1 /\ i = k + 1
      BY <1>2, <2>2
    <3> HIDE DEF k
    <3> QED
      BY <1>4, <1>7, <3>1
  <2> QED
    BY <1>7, <2>1, <2>2
<1>9. \A g \in Range(p) : Len(p[1][1]) >= Len(g[1])
  <2> SUFFICES ASSUME NEW i \in 1 .. n PROVE Len(p[1][1]) >= Len(p[i][1])
    BY <1>7
  <2>1. CASE i = 1
    <3>1. p[1][1] \in Seq(Symbols)
      BY <1>2, <1>6, FragmentType
    <3>2. Len(p[1][1]) \in Nat
      BY <3>1, LenProperties
    <3> QED
      BY <2>1, <3>2
  <2>2. CASE i # 1
    BY <1>1, <1>2, <1>6, <2>2
  <2> QED
    BY <2>1, <2>2
<1>10. ASSUME NEW i \in 1 .. n - 1, NEW j \in 1 .. n - 1
       PROVE  (i # j => t[i] # t[j]) /\ (i < j => Len(t[i][1]) >= Len(t[j][1]))
  <2> DEFINE a == i + 1
             b == j + 1
  <2>1. a \in 1 .. n /\ b \in 1 .. n /\ (i # j => a # b) /\ (i < j => a < b)
    BY <1>6
  <2>2. t[i] = p[a] /\ t[j] = p[b]
    BY <1>4
  <2> HIDE DEF a, b
  <2> QED
    BY <1>1, <2>1, <2>2
<1>11. Range(p) \subseteq Fragments
  BY <1>2, <1>7
<1> QED
  BY <1>2, <1>3, <1>4, <1>6, <1>7, <1>8, <1>9, <1>10, <1>11 DEF p, t

(* What comes behind the j-th piece, when w comes behind the next gap. *)
Behind(j, w) == IF j = Count THEN Ending ELSE Between[j + 1] ++ w

(* Restoring f replaces the pieces that are its mask, and nothing else. *)
Safe(f) ==
    /\ ~Occurs(Ending, f[1])
    /\ \A j \in 1 .. Count : \A w \in Seq(Symbols) : ~Begins(Between[j], w, f[1])
    /\ \A j \in 1 .. Count : \A w \in Seq(Symbols) :
          Pieces[j] = f[1] \/ ~Begins(Pieces[j], Behind(j, w), f[1])
    /\ \A j \in 1 .. Count : Pieces[j] = f[1] => Fragment(Said(j)) = f

LEMMA BehindType ==
    ASSUME Given, Repeated, NEW j \in 1 .. Count, NEW w \in Seq(Symbols)
    PROVE  Behind(j, w) \in Seq(Symbols)
<1>1. /\ Count \in Nat /\ Ending \in Seq(Alphabet) /\ Alphabet \subseteq Symbols
      /\ \A i \in 1 .. Count : Between[i] \in Seq(Alphabet)
  BY ReturnedType
<1>2. CASE j = Count
  BY <1>1, <1>2, SeqMonotonic DEF Behind
<1>3. CASE j # Count
  <2>1. j + 1 \in 1 .. Count
    BY <1>1, <1>3
  <2>2. Between[j + 1] \in Seq(Symbols)
    BY <1>1, <2>1, SeqMonotonic
  <2>3. Between[j + 1] ++ w \in Seq(Symbols)
    BY <2>2, CatType
  <2> QED
    BY <1>3, <2>3 DEF Behind
<1> QED
  BY <1>2, <1>3

(* Nothing begins where its first character is not. *)
LEMMA NoneBegins ==
    ASSUME NEW S, NEW p \in Seq(S), NEW m \in Seq(S), m # <<>>,
           \A i \in 1 .. Len(p) : p[i] # m[1]
    PROVE  ~Occurs(p, m) /\ \A w \in Seq(S) : ~Begins(p, w, m)
<1>1. Len(m) \in Nat \ {0} /\ Len(p) \in Nat
  BY EmptySeq, LenProperties
<1>2. 1 \in 1 .. Len(m)
  BY <1>1
<1>3. ASSUME NEW w \in Seq(S), Begins(p, w, m) PROVE FALSE
  <2>1. PICK i \in 1 .. Len(p) :
              \A c \in 1 .. Len(m) : i + c - 1 <= Len(p) => p[i + c - 1] = m[c]
    BY <1>3, BeginsWithFirst
  <2>2. i + 1 - 1 = i /\ i <= Len(p)
    BY <1>1
  <2>3. p[i] = m[1]
    BY <1>2, <2>1, <2>2
  <2> QED
    BY <2>3
<1>4. ~Occurs(p, m)
  <2> SUFFICES ASSUME Occurs(p, m) PROVE FALSE
    OBVIOUS
  <2>1. PICK i \in 1 .. Len(p) : At(p, i, m)
    BY LenProperties DEF Occurs
  <2>2. \A k \in 1 .. Len(m) : p[i + k - 1] = m[k]
    BY <2>1, AtPointwise
  <2>3. i + 1 - 1 = i
    BY <1>1
  <2>4. p[i] = m[1]
    BY <1>2, <2>2, <2>3
  <2> QED
    BY <2>4
<1> QED
  BY <1>3, <1>4

(* A character that no text has begins nothing in one. *)
LEMMA NoneInText ==
    ASSUME Given, NEW p \in Seq(Alphabet), NEW m \in Seq(Symbols), m # <<>>, m[1] \notin Alphabet
    PROVE  p # m /\ ~Occurs(p, m) /\ \A w \in Seq(Symbols) : ~Begins(p, w, m)
<1>1. Alphabet \subseteq Symbols
  BY DEF Symbols
<1>2. p \in Seq(Symbols)
  BY <1>1, SeqMonotonic
<1>3. \A i \in 1 .. Len(p) : p[i] \in Alphabet
  BY ElementOfSeq
<1>4. \A i \in 1 .. Len(p) : p[i] # m[1]
  BY <1>3
<1>5. ~Occurs(p, m) /\ \A w \in Seq(Symbols) : ~Begins(p, w, m)
  BY <1>2, <1>4, NoneBegins
<1>6. 1 \in 1 .. Len(m)
  <2>1. Len(m) \in Nat \ {0}
    BY EmptySeq, LenProperties
  <2> QED
    BY <2>1
<1>7. p # m
  BY <1>3, <1>6
<1> QED
  BY <1>5, <1>7

(* A mask that is a token label. *)
LEMMA TokenSafe ==
    ASSUME RInv, Ordered, Repeated, rule.strategy = "token", pending # <<>>
    PROVE  Safe(Head(pending))
<1> DEFINE f == Head(pending)
           m == f[1]
<1>1. Given /\ digest \in Digests
  BY DEF RInv, MInv, IInv
<1>2. f \in Fragments
  BY <1>1, PendingHead
<1> HIDE DEF f
<1>3. PICK h \in 1 .. Len(entities) : f = Fragment(h)
  BY <1>1, <1>2, FragmentType
<1>4. m \in Seq(Symbols) /\ m # <<>>
  BY <1>1, <1>2, FragmentType
<1>5. \A e : Apply(e) = <<"[", digest[Span(e)], "]">>
  BY DEF Apply
<1>6. {"[", "]"} \cap (Alphabet \cup Labels) = {}
  BY MaskingAssumption
<1>7. /\ \A i \in 1 .. Len(entities) : digest[Span(entities[i])] \in Labels
      /\ \A i, j \in 1 .. Len(entities) :
            digest[Span(entities[i])] = digest[Span(entities[j])] => Span(entities[i]) = Span(entities[j])
  <2>1. digest \in Injection(Values, Labels)
    BY <1>1 DEF Digests
  <2>2. \A i \in 1 .. Len(entities) : entities[i] \in Range(entities)
    BY <1>1 DEF Given, Range
  <2>3. \A i \in 1 .. Len(entities) : Span(entities[i]) \in Values
    BY <2>2 DEF Values
  <2> QED
    BY <2>1, <2>3 DEF Injection, IsInjective
<1>8. m[1] = "[" /\ m[1] \notin Alphabet /\ m[2] = digest[Span(entities[h])] /\ Len(m) = 3
  BY <1>3, <1>5, <1>6 DEF Fragment
<1> HIDE DEF m
<1>9. /\ Ending \in Seq(Alphabet) /\ \A j \in 1 .. Count : Between[j] \in Seq(Alphabet)
      /\ \A j \in 1 .. Count : Said(j) \in 1 .. Len(entities)
  BY <1>1, ReturnedType
<1>10. /\ ~Occurs(Ending, m)
       /\ \A j \in 1 .. Count : \A w \in Seq(Symbols) : ~Begins(Between[j], w, m)
  BY <1>1, <1>4, <1>8, <1>9, NoneInText
<1>11. ASSUME NEW j \in 1 .. Count
       PROVE  /\ Pieces[j] = m => Fragment(Said(j)) = f
              /\ \A w \in Seq(Symbols) : Pieces[j] = m \/ ~Begins(Pieces[j], Behind(j, w), m)
  <2> DEFINE p == Pieces[j]
             i == Said(j)
  <2>1. p \in Seq(Symbols) /\ p # <<>> /\ i \in 1 .. Len(entities)
        /\ (p = Fragment(i)[1] \/ p \in Seq(Alphabet))
    BY <1>1, <1>9, PieceType
  <2>2. \A w \in Seq(Symbols) : Behind(j, w) \in Seq(Symbols)
    BY <1>1, BehindType
  <2> HIDE DEF p, i
  <2>3. CASE p \in Seq(Alphabet)
    <3>1. p # m /\ \A w \in Seq(Symbols) : ~Begins(p, w, m)
      BY <1>1, <1>4, <1>8, <2>3, NoneInText
    <3> QED
      BY <2>2, <3>1 DEF p
  <2>4. CASE p = Fragment(i)[1]
    <3>1. p = <<"[", digest[Span(entities[i])], "]">>
      BY <1>5, <2>4 DEF Fragment
    <3>2. p[1] = "[" /\ p[2] = digest[Span(entities[i])] /\ p[3] = "]" /\ Len(p) = 3
      BY <3>1
    <3>3. m = <<"[", digest[Span(entities[h])], "]">>
      BY <1>3, <1>5 DEF m, Fragment
    <3>4. p[2] # "["
      BY <1>6, <1>7, <2>1, <3>2
    <3>5. p[2] = m[2] => p = m /\ Fragment(i) = f
      <4>1. p[2] = m[2] => Span(entities[i]) = Span(entities[h])
        BY <1>7, <1>8, <2>1, <3>2
      <4>2. Span(entities[i]) = Span(entities[h]) => Apply(entities[i]) = Apply(entities[h])
        BY <1>5
      <4> QED
        BY <1>3, <3>1, <3>3, <4>1, <4>2 DEF Fragment
    <3>6. ASSUME NEW u \in Seq(Symbols), Begins(p, u, m) PROVE p = m
      <4>1. PICK k \in 1 .. Len(p) :
                  \A c \in 1 .. Len(m) : k + c - 1 <= Len(p) => p[k + c - 1] = m[c]
        <5>1. p \in Seq(Symbols) /\ m \in Seq(Symbols) /\ m # <<>> /\ u \in Seq(Symbols)
          BY <1>4, <2>1
        <5> HIDE DEF m
        <5> QED
          BY ONLY <3>6, <5>1, BeginsWithFirst
      <4>2. k \in 1 .. 3 /\ \A c \in 1 .. 3 : k + c - 1 <= 3 => p[k + c - 1] = m[c]
        BY <1>8, <3>2, <4>1
      <4>3. p[k] = "["
        <5>1. 1 \in 1 .. 3 /\ k + 1 - 1 = k /\ k <= 3
          BY <4>2
        <5> QED
          BY <1>8, <4>2, <5>1
      <4>4. k = 1
        BY <3>2, <3>4, <4>2, <4>3
      <4>5. p[2] = m[2]
        <5>1. 2 \in 1 .. 3 /\ 1 + 2 - 1 = 2 /\ 2 <= 3
          OBVIOUS
        <5> QED
          BY <4>2, <4>4, <5>1
      <4> QED
        BY <3>5, <4>5
    <3> QED
      BY <2>2, <3>5, <3>6 DEF p, i
  <2> QED
    BY <2>1, <2>3, <2>4
<1>12. m = Head(pending)[1]
  BY DEF m, f
<1> QED
  BY <1>10, <1>11, <1>12 DEF Safe, f

(* Where a gap between two entities begins and ends. *)
LEMMA GapEnds ==
    ASSUME Given, NEW h \in 1 .. Len(entities) + 1, Gap(h) # <<>>
    PROVE  /\ h > 1 => h - 1 \in 1 .. Len(entities) /\ After(h) = End(entities[h - 1]) + 1
           /\ After(h) \in 1 .. Len(text) /\ Gap(h)[1] = text[After(h)]
           /\ h <= Len(entities) => /\ Start(entities[h]) - 1 \in 1 .. Len(text)
                                    /\ Gap(h)[Len(Gap(h))] = text[Start(entities[h]) - 1]
<1> DEFINE a == After(h)
           b == IF h > Len(entities) THEN Len(text) ELSE Start(entities[h]) - 1
           g == Gap(h)
           l == Len(text)
<1>1. Len(entities) \in Nat /\ l \in Nat
  BY DEF Given
<1>2. a \in 1 .. l + 1
  BY AfterBounds
<1>3. b \in 0 .. l /\ g = SubSeq(text, a, b)
  BY GapIs
<1>4. /\ g \in Seq(Alphabet) /\ Len(g) = IF a <= b THEN b - a + 1 ELSE 0
      /\ \A i \in 1 .. b - a + 1 : g[i] = text[a + i - 1]
  BY <1>2, <1>3, TextPart
<1>5. g # <<>>
  OBVIOUS
<1>6. h <= Len(entities) => Start(entities[h]) \in Nat /\ b = Start(entities[h]) - 1
  BY <1>1, Bounds DEF Given
<1>7. h > 1 => h - 1 \in 1 .. Len(entities) /\ a = End(entities[h - 1]) + 1
  BY <1>1 DEF After
<1> HIDE DEF a, b, g, l
<1>8. a <= b
  BY <1>4, <1>5, EmptySeq
<1>9. a \in 1 .. l /\ b \in 1 .. l
  BY <1>1, <1>2, <1>3, <1>8
<1>10. g[1] = text[a]
  <2>1. 1 \in 1 .. b - a + 1 /\ a + 1 - 1 = a
    BY <1>8, <1>9
  <2> QED
    BY <1>4, <2>1
<1>11. g[Len(g)] = text[b]
  <2> DEFINE i == b - a + 1
  <2>1. i \in 1 .. b - a + 1 /\ a + i - 1 = b /\ Len(g) = i
    BY <1>4, <1>8, <1>9
  <2> HIDE DEF i
  <2> QED
    BY <1>4, <2>1
<1> QED
  BY <1>6, <1>7, <1>9, <1>10, <1>11 DEF a, b, g, l

(* When there is text between two entities, there is some behind a piece. *)
LEMMA BehindFirst ==
    ASSUME Given, Repeated, Apart, NEW j \in 1 .. Count, NEW w \in Seq(Symbols), Behind(j, w) # <<>>
    PROVE  /\ Behind(j, w)[1] \in Alphabet
           /\ Delimited => Behind(j, w)[1] = Separator
<1>1. /\ Count \in Nat /\ Ending \in Seq(Alphabet) /\ Alphabet \subseteq Symbols
      /\ \A i \in 1 .. Count : Between[i] \in Seq(Alphabet)
  BY ReturnedType
<1>2. /\ Len(entities) \in Nat /\ DOMAIN text = 1 .. Len(text)
      /\ \A i \in 1 .. Len(text) : text[i] \in Alphabet
      /\ \A i \in 1 .. Len(entities) : entities[i] \in Range(entities)
  <2>1. Len(entities) \in Nat /\ DOMAIN entities = 1 .. Len(entities) /\ text \in Seq(Alphabet)
    BY LenProperties DEF Given
  <2>2. \A i \in 1 .. Len(entities) : entities[i] \in Range(entities)
    BY <2>1 DEF Range
  <2> QED
    BY <2>1, <2>2, LenProperties, ElementOfSeq
<1>3. ASSUME NEW h \in 2 .. Len(entities) + 1, Gap(h) # <<>>
      PROVE  Gap(h)[1] \in Alphabet /\ (Delimited => Gap(h)[1] = Separator)
  <2> DEFINE k == h - 1
             a == After(h)
  <2>1. k \in 1 .. Len(entities) /\ h \in 1 .. Len(entities) + 1 /\ h > 1
    BY <1>2
  <2>2. a = End(entities[k]) + 1 /\ a \in 1 .. Len(text) /\ Gap(h)[1] = text[a]
    BY <1>3, <2>1, GapEnds
  <2> HIDE DEF k, a
  <2>3. Delimited => text[a] = Separator
    BY <1>2, <2>1, <2>2 DEF Delimited
  <2> QED
    BY <1>2, <2>2, <2>3
<1>4. CASE j = Count /\ repeats = <<>>
  <2>1. Count = Len(entities) /\ Behind(j, w) = Rest
    BY <1>4 DEF Count, Behind, Ending
  <2> DEFINE h == Len(entities) + 1
  <2>2. h \in 2 .. Len(entities) + 1 /\ Rest = Gap(h)
    BY <1>2, <2>1 DEF Rest
  <2> HIDE DEF h
  <2> QED
    BY <1>3, <2>1, <2>2
<1>5. CASE j = Count /\ repeats # <<>>
  BY <1>5 DEF Behind, Ending
<1>6. CASE j # Count
  <2> DEFINE k == j + 1
             g == Between[k]
  <2>1. k \in 1 .. Count /\ k > 1
    BY <1>1, <1>6
  <2>2. g # <<>> /\ g[1] \in Alphabet /\ (Delimited => g[1] = Separator)
    <3>1. CASE repeats = <<>>
      <4>1. Count = Len(entities) /\ Between = Gaps
        BY <3>1 DEF Count, Between
      <4>2. k \in 2 .. Len(entities) /\ k \in 1 .. Len(entities) + 1 /\ ~(k > Len(entities))
        BY <1>1, <2>1, <4>1
      <4>3. g = Gap(k)
        BY <4>1, <4>2 DEF Gaps
      <4> HIDE DEF k, g
      <4>4. Gap(k) # <<>>
        <5> DEFINE i == k - 1
                   a == End(entities[i]) + 1
                   b == Start(entities[k]) - 1
        <5>1. i \in 1 .. Len(entities) - 1 /\ i + 1 = k /\ k # 1 /\ i \in 1 .. Len(entities)
          BY <1>2, <4>2
        <5>2. End(entities[i]) \in 1 .. Len(text) /\ Start(entities[k]) \in 1 .. Len(text)
          BY <4>2, <5>1, Bounds
        <5>3. End(entities[i]) + 1 < Start(entities[k])
          BY <5>1 DEF Apart
        <5>4. Gap(k) = SubSeq(text, a, b)
          BY <4>2, <5>1 DEF Gap
        <5>5. Len(text) \in Nat
          BY DEF Given
        <5>6. a \in 1 .. Len(text) + 1 /\ b \in 0 .. Len(text) /\ a <= b /\ b - a + 1 > 0
          <6>1. \A x, y, n \in Int : 1 <= x /\ x <= n /\ 1 <= y /\ y <= n /\ x + 1 < y =>
                   /\ x + 1 \in 1 .. n + 1 /\ y - 1 \in 0 .. n /\ x + 1 <= y - 1
                   /\ (y - 1) - (x + 1) + 1 > 0
            OBVIOUS
          <6>2. /\ End(entities[i]) \in Int /\ Start(entities[k]) \in Int /\ Len(text) \in Int
                /\ 1 <= End(entities[i]) /\ End(entities[i]) <= Len(text)
                /\ 1 <= Start(entities[k]) /\ Start(entities[k]) <= Len(text)
            BY ONLY <5>2, <5>5
          <6> QED
            BY ONLY <5>3, <6>1, <6>2
        <5> HIDE DEF a, b
        <5>7. Len(Gap(k)) > 0
          BY <5>4, <5>6, TextPart
        <5> QED
          BY <5>7, EmptySeq
      <4> QED
        BY <1>3, <4>2, <4>3, <4>4
    <3>2. CASE repeats # <<>>
      <4>1. Count = 2 /\ Between = <<<<>>, <<Separator>>>>
        BY <3>2 DEF Count, Between
      <4>2. k = 2
        BY <2>1, <4>1
      <4>3. g = <<Separator>>
        BY <4>1, <4>2
      <4> QED
        BY <4>3 DEF Alphabet
    <3> QED
      BY <3>1, <3>2
  <2>3. Behind(j, w) = g ++ w /\ g \in Seq(Symbols)
    <3>1. g \in Seq(Alphabet)
      BY <1>1, <2>1
    <3> QED
      BY <1>1, <1>6, <3>1, SeqMonotonic DEF Behind
  <2> HIDE DEF g
  <2>4. (g ++ w)[1] = g[1]
    <3>1. Len(g) \in Nat \ {0} /\ Len(w) \in Nat
      BY <2>2, <2>3, EmptySeq, LenProperties
    <3>2. \A i \in 1 .. Len(g) + Len(w) : (g ++ w)[i] = IF i <= Len(g) THEN g[i] ELSE w[i - Len(g)]
      BY <2>3, ConcatProperties DEF ++
    <3> QED
      BY <3>1, <3>2
  <2> QED
    BY <2>2, <2>3, <2>4
<1> QED
  BY <1>4, <1>5, <1>6

(* A mask that is nothing but stars. *)
LEMMA StarsSafe ==
    ASSUME RInv, phase = "returned", Ordered, Repeated, Apart, OnlyStars, pending # <<>>
    PROVE  Safe(Head(pending))
<1> DEFINE f == Head(pending)
           m == f[1]
<1>1. Given
  BY DEF RInv, MInv, IInv
<1>2. /\ f \in Fragments /\ f \in Range(pending) /\ Range(pending) \subseteq Fragments
      /\ \A g \in Range(pending) : Len(m) >= Len(g[1])
  BY <1>1, PendingHead
<1>3. Range(masked.fragments) = Fragments
  BY FragmentsKnown DEF RInv
<1>4. /\ \A g \in Fragments : Range(g[1]) = {Star}
      /\ \A g \in Fragments : g[1] = m => g = f
  BY <1>2, <1>3 DEF OnlyStars
<1> HIDE DEF f
<1>5. m \in Seq(Symbols) /\ m # <<>>
  BY <1>1, <1>2, FragmentType
<1>6. \A g \in Fragments : \A i \in 1 .. Len(g[1]) : g[1][i] = Star
  <2> SUFFICES ASSUME NEW g \in Fragments, NEW i \in 1 .. Len(g[1]) PROVE g[1][i] = Star
    OBVIOUS
  <2>1. g[1] \in Seq(Symbols)
    BY <1>1, FragmentType
  <2>2. DOMAIN g[1] = 1 .. Len(g[1])
    BY <2>1, LenProperties
  <2>3. g[1][i] \in Range(g[1])
    BY <2>2 DEF Range
  <2> QED
    BY <1>4, <2>3
<1>7. Star \notin Alphabet
  BY MaskingAssumption DEF Alphabet
<1>8. \A c \in 1 .. Len(m) : m[c] = Star
  BY <1>2, <1>6
<1>9. 1 \in 1 .. Len(m)
  <2>1. Len(m) \in Nat \ {0}
    BY <1>5, EmptySeq, LenProperties
  <2> QED
    BY <2>1
<1> HIDE DEF m
<1>10. m[1] \notin Alphabet
  BY <1>7, <1>8, <1>9
<1>11. /\ Ending \in Seq(Alphabet) /\ \A j \in 1 .. Count : Between[j] \in Seq(Alphabet)
       /\ \A j \in 1 .. Count : Said(j) \in 1 .. Len(entities)
  BY <1>1, ReturnedType
<1>12. /\ ~Occurs(Ending, m)
       /\ \A j \in 1 .. Count : \A w \in Seq(Symbols) : ~Begins(Between[j], w, m)
  BY <1>1, <1>5, <1>10, <1>11, NoneInText
<1>13. ASSUME NEW j \in 1 .. Count
       PROVE  /\ Pieces[j] = m => Fragment(Said(j)) = f
              /\ \A w \in Seq(Symbols) : Pieces[j] = m \/ ~Begins(Pieces[j], Behind(j, w), m)
  <2> DEFINE p == Pieces[j]
             g == Fragment(Said(j))
  <2>1. p \in Seq(Symbols) /\ g \in Fragments
        /\ ((g \in Range(pending) /\ p = g[1]) \/ p \in Seq(Alphabet))
    BY <1>1, PieceType
  <2>2. \A w \in Seq(Symbols) : Behind(j, w) \in Seq(Symbols)
    BY <1>1, BehindType
  <2> HIDE DEF p, g
  <2>3. CASE p \in Seq(Alphabet)
    <3>1. p # m /\ \A w \in Seq(Symbols) : ~Begins(p, w, m)
      BY <1>1, <1>5, <1>10, <2>3, NoneInText
    <3> QED
      BY <2>2, <3>1 DEF p
  <2>4. CASE g \in Range(pending) /\ p = g[1]
    <3>1. p = m => g = f
      BY <1>4, <2>1, <2>4 DEF m
    <3>2. Len(m) >= Len(p) /\ \A i \in 1 .. Len(p) : p[i] = Star
      BY <1>2, <1>6, <2>1, <2>4 DEF m
    <3>3. ~Occurs(p, m) \/ p = m
      <4> SUFFICES ASSUME Occurs(p, m) PROVE p = m
        OBVIOUS
      <4>1. PICK i \in 1 .. Len(p) : At(p, i, m)
        BY <2>1, LenProperties DEF Occurs
      <4>2. i + Len(m) - 1 <= Len(p)
        BY <4>1 DEF At
      <4>3. Len(m) \in Nat /\ Len(p) \in Nat
        BY <1>5, <2>1, LenProperties
      <4>4. Len(m) = Len(p)
        BY <3>2, <4>2, <4>3
      <4>5. \A c \in 1 .. Len(p) : p[c] = m[c]
        BY <1>8, <3>2, <4>4
      <4> QED
        BY ONLY <1>5, <2>1, <4>4, <4>5, SeqEqual
    <3>4. ASSUME NEW w \in Seq(Symbols), Begins(p, Behind(j, w), m), p # m PROVE FALSE
      <4> DEFINE u == Behind(j, w)
      <4>1. u \in Seq(Symbols)
        BY <2>2
      <4>2. u # <<>> => u[1] \in Alphabet
        BY <1>1, BehindFirst
      <4>3. Begins(p, u, m)
        BY <3>4
      <4> HIDE DEF u
      <4>4. u # <<>> /\ \E c \in 1 .. Len(m) : m[c] = u[1]
        <5>1. p \in Seq(Symbols) /\ m \in Seq(Symbols) /\ m # <<>> /\ ~Occurs(p, m)
          BY <1>5, <2>1, <3>3, <3>4
        <5> QED
          BY ONLY <4>1, <4>3, <5>1, BeginsWhere
      <4> QED
        BY <1>7, <1>8, <4>2, <4>4
    <3> QED
      BY <3>1, <3>4 DEF p, g
  <2> QED
    BY <2>1, <2>3, <2>4
<1>14. m = Head(pending)[1]
  BY DEF m, f
<1> QED
  BY <1>12, <1>13, <1>14 DEF Safe, f

-----------------------------------------------------------------------------
(* A mask that nothing makes ambiguous. *)
LEMMA UnambiguousSafe ==
    ASSUME RInv, phase = "returned", Ordered, Repeated, Unambiguous, pending # <<>>,
           Head(pending)[1] # Head(pending)[2]
    PROVE  Safe(Head(pending))
<1> DEFINE f == Head(pending)
           m == f[1]
<1>1. Given
  BY DEF RInv, MInv, IInv
<1>2. f \in Fragments
  BY <1>1, PendingHead
<1>3. Range(masked.fragments) = Fragments
  BY FragmentsKnown DEF RInv
<1>4. /\ Delimited /\ Apart /\ Separator \notin Range(m)
      /\ \A g \in Fragments : ~Occurs(g[2], m) /\ (f # g => ~Occurs(g[1], m))
      /\ \A h \in 1 .. Len(entities) + 1 : ~Occurs(Gap(h), m)
  <2>1. f[1] # f[2]
    OBVIOUS
  <2> HIDE DEF f
  <2> QED
    BY <1>2, <1>3, <2>1 DEF Unambiguous, Delimited
<1> HIDE DEF f
<1>5. m \in Seq(Symbols) /\ m # <<>>
  BY <1>1, <1>2, FragmentType
<1>6. Len(m) \in Nat \ {0} /\ DOMAIN m = 1 .. Len(m)
  BY <1>5, EmptySeq, LenProperties
<1> HIDE DEF m
<1>7. \A c \in 1 .. Len(m) : m[c] # Separator
  BY <1>4, <1>6 DEF Range
<1>8. /\ Ending \in Seq(Alphabet) /\ \A j \in 1 .. Count : Between[j] \in Seq(Alphabet)
      /\ \A j \in 1 .. Count : Said(j) \in 1 .. Len(entities)
      /\ Alphabet \subseteq Symbols /\ Len(entities) \in Nat
  BY <1>1, ReturnedType DEF Given
<1>9. Occurs(m, m)
  <2>1. 1 \in 1 .. Len(m)
    BY <1>6
  <2>2. 1 + Len(m) - 1 <= Len(m) /\ \A k \in 1 .. Len(m) : m[1 + k - 1] = m[k]
    BY <1>6
  <2>3. At(m, 1, m)
    BY <1>5, <2>1, <2>2, AtPointwise
  <2> QED
    BY <1>6, <2>1, <2>3 DEF Occurs
<1>10. ~Occurs(<<>>, m)
  BY DEF Occurs
<1>11. ~Occurs(Ending, m)
  <2>1. CASE repeats = <<>>
    <3>1. Len(entities) + 1 \in 1 .. Len(entities) + 1
      BY <1>8
    <3> QED
      BY <1>4, <2>1, <3>1 DEF Ending, Rest
  <2> QED
    BY <1>10, <2>1 DEF Ending
<1>12. ASSUME NEW j \in 1 .. Count
       PROVE  \A w \in Seq(Symbols) : ~Begins(Between[j], w, m)
  <2> DEFINE g == Between[j]
  <2>1. g \in Seq(Symbols)
    BY <1>8, SeqMonotonic
  <2>2. ~Occurs(g, m) /\ (g # <<>> => g[Len(g)] = Separator)
    <3>1. CASE repeats = <<>>
      <4>1. g = Gap(j) /\ j \in 1 .. Len(entities)
        BY <3>1 DEF Count, Between, Gaps
      <4>2. j \in 1 .. Len(entities) + 1 /\ j <= Len(entities)
        BY <1>8, <4>1
      <4> HIDE DEF g
      <4>3. ASSUME g # <<>> PROVE g[Len(g)] = Separator
        <5> DEFINE b == Start(entities[j]) - 1
        <5>1. b \in 1 .. Len(text) /\ g[Len(g)] = text[b]
          BY <1>1, <4>1, <4>2, <4>3, GapEnds
        <5>2. DOMAIN text = 1 .. Len(text) /\ entities[j] \in Range(entities)
          <6>1. DOMAIN entities = 1 .. Len(entities) /\ DOMAIN text = 1 .. Len(text)
            BY <1>1, LenProperties DEF Given
          <6> QED
            BY <4>1, <6>1 DEF Range
        <5>3. b \in {Start(entities[j]) - 1, End(entities[j]) + 1} \cap DOMAIN text
          BY <5>1, <5>2
        <5> HIDE DEF b
        <5>4. text[b] = Separator
          BY <1>4, <5>2, <5>3 DEF Delimited
        <5> QED
          BY <5>1, <5>4
      <4> QED
        BY <1>4, <4>1, <4>2, <4>3
    <3>2. CASE repeats # <<>>
      <4>1. Count = 2 /\ Between = <<<<>>, <<Separator>>>>
        BY <3>2 DEF Count, Between
      <4>2. g = <<>> \/ g = <<Separator>>
        BY <4>1
      <4>3. CASE g = <<>>
        BY <1>10, <4>3
      <4>4. CASE g = <<Separator>>
        <5>1. Len(g) = 1 /\ g[1] = Separator /\ g \in Seq(Symbols)
          BY <2>1, <4>4
        <5>2. 1 \in 1 .. Len(m)
          BY <1>6
        <5> HIDE DEF g
        <5>3. \A i \in 1 .. Len(g) : g[i] # m[1]
          BY <1>7, <5>1, <5>2
        <5>4. ~Occurs(g, m)
          BY ONLY <1>5, <5>1, <5>3, NoneBegins
        <5> QED
          BY <5>1, <5>4
      <4> QED
        BY <4>2, <4>3, <4>4
    <3> QED
      BY <3>1, <3>2
  <2> HIDE DEF g
  <2>3. ASSUME NEW w \in Seq(Symbols), Begins(g, w, m) PROVE FALSE
    <3>1. g # <<>> /\ \E c \in 1 .. Len(m) : m[c] = g[Len(g)]
      <4>1. w \in Seq(Symbols)
        OBVIOUS
      <4> QED
        BY ONLY <1>5, <2>1, <2>2, <2>3, <4>1, BeginsWhere
    <3> QED
      BY <1>7, <2>2, <3>1
  <2> QED
    BY <2>3 DEF g
<1>13. ASSUME NEW j \in 1 .. Count
       PROVE  /\ Pieces[j] = m => Fragment(Said(j)) = f
              /\ \A w \in Seq(Symbols) : Pieces[j] = m \/ ~Begins(Pieces[j], Behind(j, w), m)
  <2> DEFINE p == Pieces[j]
             g == Fragment(Said(j))
  <2>1. p \in Seq(Symbols) /\ g \in Fragments /\ (p = g[1] \/ p = g[2])
    BY <1>1, PieceType
  <2>2. \A w \in Seq(Symbols) : Behind(j, w) \in Seq(Symbols)
    BY <1>1, BehindType
  <2> HIDE DEF p, g
  <2>3. p = m => g = f
    BY <1>4, <1>9, <2>1
  <2>4. p = m \/ ~Occurs(p, m)
    <3>1. f = g => p = m \/ p = g[2]
      BY <2>1 DEF m
    <3> QED
      BY <1>4, <2>1, <3>1
  <2>5. ASSUME NEW w \in Seq(Symbols), Begins(p, Behind(j, w), m), p # m PROVE FALSE
    <3> DEFINE u == Behind(j, w)
    <3>1. u \in Seq(Symbols)
      BY <2>2
    <3>2. u # <<>> => u[1] = Separator
      BY <1>1, <1>4, BehindFirst
    <3>3. Begins(p, u, m)
      BY <2>5
    <3> HIDE DEF u
    <3>4. u # <<>> /\ \E c \in 1 .. Len(m) : m[c] = u[1]
      <4>1. ~Occurs(p, m)
        BY <2>4, <2>5
      <4> QED
        BY ONLY <1>5, <2>1, <3>1, <3>3, <4>1, BeginsWhere
    <3> QED
      BY <1>7, <3>2, <3>4
  <2> QED
    BY <2>3, <2>5 DEF p, g
<1>14. m = Head(pending)[1]
  BY DEF m, f
<1> QED
  BY <1>11, <1>12, <1>13, <1>14 DEF Safe, f

(* str.replace in a round of unmask_fragments. *)
LEMMA RestoreRestores == ASSUME RInv, RestoreFragment, MInv' PROVE RInv'
<1> DEFINE f == Head(pending)
           m == f[1]
           v == f[2]
           q == pending'
<1>1. /\ MInv /\ Given /\ phase = "returned" /\ phase' = "returned" /\ Ordered /\ Repeated
      /\ pending # <<>> /\ q = Tail(pending) /\ UNCHANGED Setting /\ masked' = masked /\ repeats' = repeats
      /\ restored' = IF m = v \/ ~Occurs(restored, m) THEN restored ELSE Replace(restored, m, v)
  BY DEF RInv, MInv, IInv, RestoreFragment, Setting
<1>2. /\ Symbols' = Symbols /\ Gaps' = Gaps /\ Rest' = Rest /\ entities' = entities /\ text' = text /\ rule' = rule
      /\ \A e : Apply(e)' = Apply(e) /\ Span(e)' = Span(e)
      /\ \A h : Fragment(h)' = Fragment(h) /\ Gap(h)' = Gap(h)
  BY <1>1, SettingKept DEF Setting, Fragment
<1>3. /\ Count' = Count /\ Between' = Between /\ Ending' = Ending /\ \A j : Said(j)' = Said(j)
      /\ Fragments' = Fragments
  BY <1>1, <1>2 DEF Count, Between, Ending, Said, Fragments
<1>4. /\ f \in Fragments /\ f \in Range(pending) /\ Range(q) = Range(pending) \ {f}
      /\ q \in Seq(Fragments)
      /\ \A i, j \in 1 .. Len(q) :
            (i # j => q[i] # q[j]) /\ (i < j => Len(q[i][1]) >= Len(q[j][1]))
  BY <1>1, PendingHead
<1>5. Ordered'
  BY <1>3, <1>4 DEF Ordered
<1>6. Repeated'
  BY <1>1, <1>2 DEF Repeated
<1>7. Clear' => Clear
  <2>1. Apart' = Apart
    BY <1>2 DEF Apart
  <2>2. OnlyStars' = OnlyStars
    BY <1>1 DEF OnlyStars
  <2>3. Unambiguous' = Unambiguous
    BY <1>1, <1>2, <2>1 DEF Unambiguous, Delimited
  <2> QED
    BY <1>2, <2>1, <2>2, <2>3 DEF Clear
<1>8. ASSUME Clear PROVE Joined(Symbols, Count, Between, Pieces', Ending, restored')
  <2>1. Joined(Symbols, Count, Between, Pieces, Ending, restored)
    BY <1>1, <1>8 DEF RInv
  <2>2. m \in Seq(Symbols) /\ m # <<>> /\ v \in Seq(Symbols)
    BY <1>1, <1>4, FragmentType
  <2>3. ASSUME NEW j \in 1 .. Count
        PROVE  Pieces'[j] = IF Fragment(Said(j)) = f THEN v ELSE Pieces[j]
    <3> DEFINE h == Said(j)
    <3>1. Pieces[j] = IF Fragment(h) \in Range(pending) THEN Apply(entities[h]) ELSE Span(entities[h])
      BY DEF Pieces
    <3>2. Pieces'[j] = IF Fragment(h) \in Range(q) THEN Apply(entities[h]) ELSE Span(entities[h])
      BY <1>2, <1>3 DEF Pieces
    <3>3. Fragment(h)[2] = Span(entities[h])
      BY DEF Fragment
    <3> HIDE DEF h, q, f
    <3> QED
      BY <1>4, <3>1, <3>2, <3>3 DEF h
  <2>4. \A j \in 1 .. Count : Fragment(Said(j)) = f => Pieces[j] = m
    <3> SUFFICES ASSUME NEW j \in 1 .. Count, Fragment(Said(j)) = f PROVE Pieces[j] = m
      OBVIOUS
    <3> HIDE DEF f
    <3> QED
      BY <1>1, <1>4, PieceType
  <2>5. CASE m = v
    <3>1. \A j \in 1 .. Count : Pieces'[j] = Pieces[j]
      BY <2>3, <2>4, <2>5
    <3>2. restored' = restored
      BY <1>1, <2>5
    <3> QED
      BY <2>1, <3>1, <3>2 DEF Joined, Chain
  <2>6. CASE m # v
    <3>1. Safe(f)
      BY <1>1, <1>8, <2>6, TokenSafe, StarsSafe, UnambiguousSafe DEF Clear
    <3>2. \A j \in 1 .. Count : Pieces'[j] = IF Pieces[j] = m THEN v ELSE Pieces[j]
      BY <2>3, <2>4, <3>1 DEF Safe
    <3>3. Count \in Nat /\ Between \in [1 .. Count -> Seq(Symbols)] /\ Ending \in Seq(Symbols)
      <4>1. /\ Count \in Nat /\ Ending \in Seq(Alphabet) /\ Alphabet \subseteq Symbols
            /\ \A j \in 1 .. Count : Between[j] \in Seq(Alphabet)
            /\ Between = [j \in 1 .. Count |-> Between[j]]
        BY <1>1, ReturnedType
      <4>2. Ending \in Seq(Symbols) /\ \A j \in 1 .. Count : Between[j] \in Seq(Symbols)
        BY <4>1, SeqMonotonic
      <4> QED
        BY <4>1, <4>2
    <3>4. Pieces \in [1 .. Count -> Seq(Symbols)]
      <4>1. \A j \in 1 .. Count : Pieces[j] \in Seq(Symbols)
        BY <1>1, PieceType
      <4>2. Pieces = [j \in 1 .. Count |-> Pieces[j]]
        BY DEF Pieces
      <4> QED
        BY <4>1, <4>2
    <3>5. restored' = Replace(restored, m, v)
      <4>1. restored \in Seq(Symbols)
        <5>1. 1 \in 1 .. Count + 1
          BY <3>3
        <5> QED
          BY <2>1, <5>1 DEF Joined
      <4> HIDE DEF m, v
      <4> QED
        BY <1>1, <2>2, <2>6, <4>1, ReplaceAbsent
    <3>6. /\ ~Occurs(Ending, m)
          /\ \A j \in 1 .. Count : \A w \in Seq(Symbols) : ~Begins(Between[j], w, m)
          /\ \A j \in 1 .. Count : \A w \in Seq(Symbols) :
                Pieces[j] = m \/ ~Begins(Pieces[j], IF j = Count THEN Ending ELSE Between[j + 1] ++ w, m)
      BY <3>1 DEF Safe, Behind
    <3> HIDE DEF m, v
    <3> DEFINE y == Pieces'
               r == restored'
    <3>7. \A j \in 1 .. Count : y[j] = IF Pieces[j] = m THEN v ELSE Pieces[j]
      BY <3>2
    <3>8. r = Replace(restored, m, v)
      BY <3>5
    <3> HIDE DEF y, r
    <3>9. Joined(Symbols, Count, Between, y, Ending, Replace(restored, m, v))
      BY ONLY <2>1, <2>2, <3>3, <3>4, <3>6, <3>7, JoinedReplace
    <3> QED
      BY <3>8, <3>9 DEF y, r
  <2> QED
    BY <2>5, <2>6
<1>9. Clear' => Joined(Symbols, Count, Between, Pieces, Ending, restored)'
  BY <1>2, <1>3, <1>7, <1>8
<1> QED
  BY <1>1, <1>5, <1>6, <1>9 DEF RInv

-----------------------------------------------------------------------------
LEMMA RestoringInit == Init => RInv
BY SayInit DEF Init, RInv

LEMMA RestoringStep == RInv /\ [Next]_vars => RInv'
<1> SUFFICES ASSUME RInv, [Next]_vars PROVE RInv'
  OBVIOUS
<1>1. MInv /\ IInv /\ Given /\ IInv'
  <2>1. MInv /\ IInv /\ Given
    BY DEF RInv, MInv, IInv
  <2> QED
    BY <2>1, MaskingStep
<1>2. CASE MaskEntity
  <2>1. phase' = "found"
    BY <1>2 DEF MaskEntity
  <2> QED
    BY <1>1, <1>2, <2>1, MaskEntityExtends DEF RInv
<1>3. CASE MaskRest
  <2>1. phase' = "masked"
    BY <1>3 DEF MaskRest
  <2> QED
    BY <1>1, <1>3, <2>1, MaskRestExtends DEF RInv
<1>4. CASE Return
  <2>1. MInv'
    <3>1. UNCHANGED <<Setting, masked>> /\ phase # "found" /\ phase' # "found"
      BY <1>4 DEF Return, Setting
    <3> QED
      BY <1>1, <3>1, LaterRemembers
  <2> QED
    BY <1>4, <2>1, ReturnReturns
<1>5. CASE RestoreFragment
  <2>1. MInv'
    <3>1. UNCHANGED <<Setting, masked>> /\ phase' = phase
      BY <1>5 DEF RestoreFragment, Setting
    <3> QED
      BY <1>1, <3>1, LaterRemembers
  <2> QED
    BY <1>5, <2>1, RestoreRestores
<1>6. CASE UNCHANGED vars
  <2>1. /\ UNCHANGED <<Setting, masked>> /\ UNCHANGED Setting /\ phase' = phase /\ masked' = masked
        /\ repeats' = repeats /\ restored' = restored /\ pending' = pending
    BY <1>6 DEF vars, Setting
  <2>2. MInv'
    BY <1>1, <2>1, LaterRemembers
  <2>3. /\ Symbols' = Symbols /\ Gaps' = Gaps /\ Rest' = Rest /\ entities' = entities /\ text' = text /\ rule' = rule
        /\ \A e : Apply(e)' = Apply(e) /\ Span(e)' = Span(e)
        /\ \A h : Fragment(h)' = Fragment(h) /\ Gap(h)' = Gap(h)
    BY <2>1, SettingKept DEF Setting, Fragment
  <2>4. /\ Count' = Count /\ Between' = Between /\ Ending' = Ending /\ \A j : Said(j)' = Said(j)
        /\ Fragments' = Fragments /\ Repeated' = Repeated
    BY <2>1, <2>3 DEF Count, Between, Ending, Said, Fragments, Repeated
  <2>5. Pieces' = Pieces
    BY <2>1, <2>3, <2>4 DEF Pieces
  <2>6. Ordered' = Ordered
    BY <2>1, <2>4 DEF Ordered
  <2>7. Apart' = Apart /\ OnlyStars' = OnlyStars
    BY <2>1, <2>3 DEF Apart, OnlyStars
  <2>8. Unambiguous' = Unambiguous
    BY <2>1, <2>3, <2>7 DEF Unambiguous, Delimited
  <2>9. Clear' = Clear
    BY <2>3, <2>7, <2>8 DEF Clear
  <2> QED
    BY <2>1, <2>2, <2>3, <2>4, <2>5, <2>6, <2>9 DEF RInv
<1> QED
  BY <1>2, <1>3, <1>4, <1>5, <1>6 DEF Next

LEMMA RestoringInvariant == Spec => []RInv
BY RestoringInit, RestoringStep, PTL DEF Spec

(* What was meant is what was said, with the values in place of the masks. *)
LEMMA MeantIsRestored == RInv /\ Restored /\ Clear => restored = Meant
<1> SUFFICES ASSUME RInv, Restored, Clear PROVE restored = Meant
  OBVIOUS
<1>1. /\ Given /\ Repeated /\ pending = <<>>
      /\ Joined(Symbols, Count, Between, Pieces, Ending, restored)
  BY DEF RInv, MInv, IInv, Restored
<1>2. Count \in Nat /\ \A j \in 1 .. Count : Said(j) \in 1 .. Len(entities)
  BY <1>1, ReturnedType
<1>3. \A j \in 1 .. Count : Pieces[j] = Span(entities[Said(j)])
  <2>1. Range(pending) = {}
    BY <1>1 DEF Range
  <2> QED
    BY <2>1 DEF Pieces
<1>4. Joined(Symbols, Count, Between, Pieces, Ending, Meant)
  <2>1. CASE repeats = <<>>
    <3>1. /\ Count = Len(entities) /\ Between = Gaps /\ Ending = Rest /\ Meant = text
          /\ \A j : Said(j) = j
      BY <2>1 DEF Count, Between, Ending, Meant, Said
    <3>2. Joined(Symbols, Len(entities), Gaps, Spans, Rest, text)
      BY <1>1, TextJoined
    <3>3. \A j \in 1 .. Len(entities) : Pieces[j] = Spans[j]
      BY <1>3, <3>1 DEF Spans
    <3> QED
      BY <3>1, <3>2, <3>3 DEF Joined, Chain
  <2>2. CASE repeats # <<>>
    <3>1. PICK i, j \in 1 .. Len(entities) : repeats = <<i, j>>
      BY <1>1, <2>2 DEF Repeated
    <3> DEFINE a == Span(entities[i])
               b == Span(entities[j])
               c == <<Separator>>
    <3>2. repeats[1] = i /\ repeats[2] = j
      BY <3>1
    <3>3. /\ Count = 2 /\ Between = <<<<>>, c>> /\ Ending = <<>> /\ Said(1) = i /\ Said(2) = j
          /\ Meant = a \o c \o b
      BY <2>2, <3>2 DEF Count, Between, Ending, Said, Meant
    <3>4. Alphabet \subseteq Symbols /\ c \in Seq(Alphabet)
      BY DEF Symbols, Alphabet
    <3>5. a \in Seq(Symbols) /\ b \in Seq(Symbols) /\ c \in Seq(Symbols)
      <4>1. a \in Seq(Alphabet) /\ b \in Seq(Alphabet)
        BY <1>1, SpanType
      <4> QED
        BY <3>4, <4>1, SeqMonotonic
    <3>6. Between[1] = <<>> /\ Between[2] = c
      BY <3>3
    <3>7. Pieces[1] = a /\ Pieces[2] = b
      BY <1>3, <3>3
    <3> HIDE DEF a, b, c
    <3>8. Joined(Symbols, 2, Between, Pieces, <<>>, a \o c \o b)
      BY <3>5, <3>6, <3>7, JoinedTwo
    <3> QED
      BY <3>3, <3>8
  <2> QED
    BY <2>1, <2>2
<1> QED
  BY <1>1, <1>2, <1>4, JoinedUnique

-----------------------------------------------------------------------------
(* unmask_fragments on token labels: when each value has a label of its    *)
(* own, whatever comes back (the whole text, or labels in other words) is  *)
(* restored.                                                               *)
THEOREM LabelsCorrect == Spec => []LabelsRestored
<1>1. RInv => LabelsRestored
  BY MeantIsRestored DEF Clear, LabelsRestored
<1> QED
  BY <1>1, RestoringInvariant, PTL

(* unmask_fragments on full masks: when they are nothing but stars, of     *)
(* different lengths and apart, the order of the fragments (longer masks   *)
(* first) keeps a shorter mask from breaking a longer one.                 *)
THEOREM LongestFirstCorrect == Spec => []LongestFirst
<1>1. RInv => LongestFirst
  BY MeantIsRestored DEF Clear, LongestFirst
<1> QED
  BY <1>1, RestoringInvariant, PTL

(* unmask_fragments with any strategy: a text in which no mask is          *)
(* ambiguous is restored.                                                  *)
THEOREM UnambiguousCorrect == Spec => []UnambiguousRestored
<1>1. RInv => UnambiguousRestored
  BY MeantIsRestored DEF Clear, UnambiguousRestored
<1> QED
  BY <1>1, RestoringInvariant, PTL
=============================================================================
