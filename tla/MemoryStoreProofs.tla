------------------------- MODULE MemoryStoreProofs --------------------------
(***************************************************************************)
(* For any keys, TTL and bound: what the in-process store keeps.  Orderly  *)
(* says that the OrderedDict lists every stored key once, and that the     *)
(* keys behind one in it have all been written after it; the rest follows  *)
(* from that and from the length of the list.                              *)
(***************************************************************************)
EXTENDS MemoryStore, FiniteSetTheorems, SequenceTheorems, TLAPS

Typed ==
    /\ now \in 0 .. MaxTime
    /\ entry \in [Keys -> [expires: 0 .. MaxTime + Ttl, record: Records] \cup {None}]
    /\ response = None \/ response.result \in Results

(* The history of the writes is one of keys, and finite. *)
Recorded ==
    /\ since \in [Keys -> SUBSET Keys]
    /\ \A k \in Keys : IsFiniteSet(since[k])

(* A list of keys without repetition. *)
KeyList(s) == s \in Seq(Keys) /\ \A i, j \in 1 .. Len(s) : s[i] = s[j] => i = j

(* The keys that a list holds. *)
Listed(s) == {s[i] : i \in 1 .. Len(s)}

Orderly ==
    /\ KeyList(order)
    /\ Listed(order) = Stored
    /\ Len(order) <= MaxItems
    /\ \A i, j \in 1 .. Len(order) : i < j => order[j] \in since[order[i]]

IInv == Typed /\ Recorded /\ Orderly

-----------------------------------------------------------------------------
(* The elements of a sequence are the values at its positions. *)
LEMMA ListedIsRange == ASSUME NEW s \in Seq(Keys) PROVE Listed(s) = Range(s)
BY DEF Listed, Range

(* A list without repetition is as long as the set of its keys. *)
LEMMA LengthOfList ==
    ASSUME NEW s, KeyList(s)
    PROVE  IsFiniteSet(Listed(s)) /\ Cardinality(Listed(s)) = Len(s)
<1>1. Len(s) \in Nat /\ s \in [1 .. Len(s) -> Keys]
  BY DEF KeyList
<1> DEFINE n == Len(s)
<1>2. 1 \in Int /\ n \in Int /\ (IF 1 > n THEN 0 ELSE n - 1 + 1) = n
  BY <1>1
<1>3. IsFiniteSet(1 .. n) /\ Cardinality(1 .. n) = n
  <2> HIDE DEF n
  <2> QED
    BY <1>2, FS_Interval
<1>4. s \in Bijection(1 .. n, Listed(s))
  BY <1>1 DEF KeyList, Listed, Bijection, Injection, Surjection, IsInjective
<1>5. ExistsBijection(1 .. n, Listed(s))
  BY <1>4 DEF ExistsBijection
<1> HIDE DEF n
<1>6. IsFiniteSet(Listed(s)) /\ Cardinality(Listed(s)) = Cardinality(1 .. n)
  BY <1>3, <1>5, FS_Bijection
<1> QED
  BY <1>3, <1>6 DEF n

(* A part of a list keeps its order. *)
LEMMA PartOfList ==
    ASSUME NEW s, KeyList(s), NEW a \in 1 .. Len(s) + 1, NEW b \in 0 .. Len(s), a <= b + 1
    PROVE  /\ SubSeq(s, a, b) \in Seq(Keys)
           /\ Len(SubSeq(s, a, b)) = b - a + 1
           /\ \A i \in 1 .. b - a + 1 : SubSeq(s, a, b)[i] = s[a + i - 1]
<1>1. Len(s) \in Nat /\ \A i \in 1 .. Len(s) : s[i] \in Keys
  BY DEF KeyList
<1>2. a \in Int /\ b \in Int /\ \A i \in a .. b : s[i] \in Keys
  BY <1>1
<1>3. /\ SubSeq(s, a, b) \in Seq(Keys)
      /\ Len(SubSeq(s, a, b)) = (IF a <= b THEN b - a + 1 ELSE 0)
      /\ \A i \in 1 .. b - a + 1 : SubSeq(s, a, b)[i] = s[a + i - 1]
  BY <1>2, SubSeqProperties
<1> QED
  BY <1>1, <1>3

(* Taking a listed key out closes the gap. *)
LEMMA RemovedFirst ==
    ASSUME NEW s, KeyList(s), NEW p \in 1 .. Len(s)
    PROVE  LET r == RemoveFirst(s, s[p])
           IN  /\ r \in Seq(Keys) /\ Len(r) = Len(s) - 1
               /\ \A i \in 1 .. Len(s) - 1 : r[i] = (IF i < p THEN s[i] ELSE s[i + 1])
<1>1. Len(s) \in Nat
  BY DEF KeyList
<1>2. {i \in 1 .. Len(s) : s[i] = s[p]} = {p}
  BY DEF KeyList
<1>3. Min({p}) = p
  BY DEF Min
<1>4. SelectInSeq(s, LAMBDA v : v = s[p]) = p
  BY <1>2, <1>3 DEF SelectInSeq
<1>5. RemoveFirst(s, s[p]) = SubSeq(s, 1, p - 1) \o SubSeq(s, p + 1, Len(s))
  BY <1>4 DEF RemoveFirst, RemoveAt
<1> DEFINE u == SubSeq(s, 1, p - 1)
           v == SubSeq(s, p + 1, Len(s))
<1>6. u \in Seq(Keys) /\ Len(u) = p - 1 /\ \A i \in 1 .. p - 1 : u[i] = s[i]
  <2>1. 1 \in 1 .. Len(s) + 1 /\ p - 1 \in 0 .. Len(s) /\ 1 <= p - 1 + 1
    BY <1>1
  <2>2. /\ u \in Seq(Keys) /\ Len(u) = p - 1 - 1 + 1
        /\ \A i \in 1 .. p - 1 - 1 + 1 : u[i] = s[1 + i - 1]
    BY <2>1, PartOfList
  <2> QED
    BY <1>1, <2>2
<1>7. v \in Seq(Keys) /\ Len(v) = Len(s) - p /\ \A i \in 1 .. Len(s) - p : v[i] = s[p + i]
  <2>1. p + 1 \in 1 .. Len(s) + 1 /\ Len(s) \in 0 .. Len(s) /\ p + 1 <= Len(s) + 1
    BY <1>1
  <2>2. /\ v \in Seq(Keys) /\ Len(v) = Len(s) - (p + 1) + 1
        /\ \A i \in 1 .. Len(s) - (p + 1) + 1 : v[i] = s[p + 1 + i - 1]
    BY <2>1, PartOfList
  <2> QED
    BY <1>1, <2>2
<1> HIDE DEF u, v
<1>8. /\ u \o v \in Seq(Keys) /\ Len(u \o v) = Len(u) + Len(v)
      /\ \A i \in 1 .. Len(u) + Len(v) :
            (u \o v)[i] = IF i <= Len(u) THEN u[i] ELSE v[i - Len(u)]
  BY <1>6, <1>7, ConcatProperties
<1>9. Len(u \o v) = Len(s) - 1
  BY <1>1, <1>6, <1>7, <1>8
<1>10. ASSUME NEW i \in 1 .. Len(s) - 1
       PROVE  (u \o v)[i] = IF i < p THEN s[i] ELSE s[i + 1]
  <2>1. (u \o v)[i] = IF i <= p - 1 THEN u[i] ELSE v[i - (p - 1)]
    BY <1>1, <1>6, <1>7, <1>8
  <2>2. CASE i < p
    BY <1>1, <1>6, <2>1, <2>2
  <2>3. CASE i >= p
    <3>1. i - (p - 1) \in 1 .. Len(s) - p /\ p + (i - (p - 1)) = i + 1 /\ ~(i <= p - 1)
      BY <1>1, <2>3
    <3>2. v[i - (p - 1)] = s[i + 1]
      BY <1>7, <3>1
    <3> QED
      BY <2>1, <2>3, <3>1, <3>2
  <2>4. i < p \/ i >= p
    BY <1>1
  <2> QED
    BY <2>2, <2>3, <2>4
<1> QED
  BY <1>5, <1>8, <1>9, <1>10 DEF u, v

(* A list from which a key was taken: every pair of neighbours was one.    *)
LEMMA Removed ==
    ASSUME NEW s, KeyList(s), NEW k \in Keys
    PROVE  LET r == RemoveFirst(s, k)
           IN  /\ KeyList(r)
               /\ Listed(r) = Listed(s) \ {k}
               /\ Len(r) = IF k \in Listed(s) THEN Len(s) - 1 ELSE Len(s)
               /\ k \notin Listed(s) => r = s
               /\ \A i, j \in 1 .. Len(r) : i < j =>
                     \E a, b \in 1 .. Len(s) : a < b /\ r[i] = s[a] /\ r[j] = s[b]
<1>1. Len(s) \in Nat
  BY DEF KeyList
<1>2. CASE k \notin Listed(s)
  <2>1. RemoveFirst(s, k) = s
    BY <1>2 DEF RemoveFirst, Listed
  <2> QED
    BY <1>2, <2>1
<1>3. CASE k \in Listed(s)
  <2>1. PICK p \in 1 .. Len(s) : s[p] = k
    BY <1>3 DEF Listed
  <2> DEFINE r == RemoveFirst(s, k)
             at(i) == IF i < p THEN i ELSE i + 1
  <2>2. /\ r \in Seq(Keys) /\ Len(r) = Len(s) - 1
        /\ \A i \in 1 .. Len(s) - 1 : r[i] = (IF i < p THEN s[i] ELSE s[i + 1])
    BY <2>1, RemovedFirst
  <2> HIDE DEF r
  <2>3. \A i \in 1 .. Len(r) : at(i) \in 1 .. Len(s) /\ at(i) # p /\ r[i] = s[at(i)]
    BY <1>1, <2>2
  <2>4. \A i, j \in 1 .. Len(r) : i < j => at(i) < at(j)
    BY <1>1, <2>2
  <2>5. KeyList(r)
    BY <1>1, <2>2, <2>3, <2>4 DEF KeyList
  <2>6. Listed(r) = Listed(s) \ {k}
    <3>1. ASSUME NEW a \in 1 .. Len(s), a # p PROVE s[a] \in Listed(r)
      <4>1. CASE a < p
        <5>1. a \in 1 .. Len(r) /\ r[a] = s[a]
          BY <1>1, <2>2, <4>1
        <5> QED
          BY <5>1 DEF Listed
      <4>2. CASE a > p
        <5>1. a - 1 \in 1 .. Len(r) /\ r[a - 1] = s[a]
          BY <1>1, <2>2, <4>2
        <5> QED
          BY <5>1 DEF Listed
      <4> QED
        BY <1>1, <3>1, <4>1, <4>2
    <3>2. \A a \in 1 .. Len(s) : a # p => s[a] # k
      BY <2>1 DEF KeyList
    <3> QED
      BY <2>1, <2>3, <3>1, <3>2 DEF Listed
  <2>7. \A i, j \in 1 .. Len(r) : i < j =>
           \E a, b \in 1 .. Len(s) : a < b /\ r[i] = s[a] /\ r[j] = s[b]
    <3> SUFFICES ASSUME NEW i \in 1 .. Len(r), NEW j \in 1 .. Len(r), i < j
                 PROVE  \E a, b \in 1 .. Len(s) : a < b /\ r[i] = s[a] /\ r[j] = s[b]
      OBVIOUS
    <3> HIDE DEF at
    <3> QED
      BY <2>3, <2>4
  <2> QED
    BY <1>3, <2>2, <2>5, <2>6, <2>7 DEF r
<1> QED
  BY <1>2, <1>3

(* The list that put works on: the key at the end, the others as they were. *)
LEMMA Moved ==
    ASSUME NEW s, KeyList(s), NEW k \in Keys
    PROVE  LET m == MovedToEnd(s, k)
           IN  /\ KeyList(m)
               /\ Listed(m) = Listed(s) \cup {k}
               /\ Len(m) = IF k \in Listed(s) THEN Len(s) ELSE Len(s) + 1
               /\ \A i \in 1 .. Len(m) : m[i] = k <=> i = Len(m)
               /\ \A i, j \in 1 .. Len(m) : i < j =>
                     \/ j = Len(m)
                     \/ \E a, b \in 1 .. Len(s) : a < b /\ m[i] = s[a] /\ m[j] = s[b]
               /\ MovedToEnd(RemoveFirst(s, k), k) = m
<1> DEFINE r == RemoveFirst(s, k)
           m == MovedToEnd(s, k)
<1>1. Len(s) \in Nat
  BY DEF KeyList
<1>2. /\ KeyList(r)
      /\ Listed(r) = Listed(s) \ {k}
      /\ Len(r) = IF k \in Listed(s) THEN Len(s) - 1 ELSE Len(s)
      /\ \A i, j \in 1 .. Len(r) : i < j =>
            \E a, b \in 1 .. Len(s) : a < b /\ r[i] = s[a] /\ r[j] = s[b]
  BY Removed
<1>3. RemoveFirst(r, k) = r
  BY <1>2, Removed
<1>4. m = Append(r, k) /\ MovedToEnd(r, k) = m
  BY <1>3 DEF MovedToEnd
<1>5. Len(r) \in Nat /\ r \in Seq(Keys)
  BY <1>2 DEF KeyList
<1> HIDE DEF r
<1>6. /\ m \in Seq(Keys) /\ Len(m) = Len(r) + 1
      /\ \A i \in 1 .. Len(r) : m[i] = r[i]
      /\ m[Len(r) + 1] = k
  BY <1>4, <1>5, AppendProperties
<1> HIDE DEF m
<1>7. \A i \in 1 .. Len(m) : m[i] = k <=> i = Len(m)
  <2>1. \A i \in 1 .. Len(r) : r[i] # k
    BY <1>2 DEF Listed
  <2> SUFFICES ASSUME NEW i \in 1 .. Len(m) PROVE m[i] = k <=> i = Len(m)
    OBVIOUS
  <2>2. CASE i \in 1 .. Len(r)
    <3>1. m[i] # k /\ i # Len(m)
      BY <1>5, <1>6, <2>1, <2>2
    <3> QED
      BY <3>1
  <2>3. i \in 1 .. Len(r) \/ i = Len(m)
    BY <1>5, <1>6
  <2> QED
    BY <1>6, <2>2, <2>3
<1>8. KeyList(m)
  <2> SUFFICES ASSUME NEW i \in 1 .. Len(m), NEW j \in 1 .. Len(m), m[i] = m[j]
               PROVE  i = j
    BY <1>6 DEF KeyList
  <2>1. CASE m[i] = k
    BY <1>7, <2>1
  <2>2. CASE m[i] # k
    <3>1. i # Len(m) /\ j # Len(m)
      BY <1>7, <2>2
    <3>2. i \in 1 .. Len(r) /\ j \in 1 .. Len(r)
      BY <1>5, <1>6, <3>1
    <3>3. r[i] = r[j]
      BY <1>6, <3>2
    <3> QED
      BY <1>2, <3>2, <3>3 DEF KeyList
  <2> QED
    BY <2>1, <2>2
<1>9. Listed(m) = Listed(r) \cup {k}
  BY <1>5, <1>6 DEF Listed
<1>10. \A i, j \in 1 .. Len(m) : i < j =>
          \/ j = Len(m)
          \/ \E a, b \in 1 .. Len(s) : a < b /\ m[i] = s[a] /\ m[j] = s[b]
  <2> SUFFICES ASSUME NEW i \in 1 .. Len(m), NEW j \in 1 .. Len(m), i < j, j # Len(m)
               PROVE  \E a, b \in 1 .. Len(s) : a < b /\ m[i] = s[a] /\ m[j] = s[b]
    OBVIOUS
  <2>1. i \in 1 .. Len(r) /\ j \in 1 .. Len(r)
    BY <1>5, <1>6
  <2>2. m[i] = r[i] /\ m[j] = r[j]
    BY <1>6, <2>1
  <2>3. PICK a \in 1 .. Len(s), b \in 1 .. Len(s) : a < b /\ r[i] = s[a] /\ r[j] = s[b]
    BY <1>2, <2>1
  <2> QED
    BY <2>2, <2>3
<1>11. Listed(m) = Listed(s) \cup {k}
  BY <1>2, <1>9
<1>12. Len(m) = IF k \in Listed(s) THEN Len(s) ELSE Len(s) + 1
  BY <1>1, <1>2, <1>6
<1> QED
  BY <1>4, <1>7, <1>8, <1>10, <1>11, <1>12 DEF m, r

(* What a put does: the key is there, every other one is as it was unless  *)
(* max_items others have been written after it.                            *)
LEMMA Written ==
    ASSUME IInv, NEW k \in Keys, NEW rec \in Records, Write(k, rec, order)
    PROVE  /\ entry' \in [Keys -> [expires: 0 .. MaxTime + Ttl, record: Records] \cup {None}]
           /\ Recorded' /\ Orderly'
           /\ entry'[k] = [expires |-> now + Ttl, record |-> rec]
           /\ \A j \in Keys \ {k} :
                 \/ entry'[j] = entry[j]
                 \/ entry'[j] = None /\ Cardinality(since'[j]) >= MaxItems
<1> DEFINE m == MovedToEnd(order, k)
           n == Excess(m)
           gone == {m[i] : i \in 1 .. n}
           new == [expires |-> now + Ttl, record |-> rec]
<1>1. /\ KeyList(order) /\ Len(order) \in Nat /\ Len(order) <= MaxItems
      /\ Listed(order) = Stored /\ MaxItems \in Nat /\ MaxItems > 0
      /\ \A i, j \in 1 .. Len(order) : i < j => order[j] \in since[order[i]]
  BY StoreAssumption DEF IInv, Orderly, KeyList
<1>2. /\ KeyList(m)
      /\ Listed(m) = Listed(order) \cup {k}
      /\ Len(m) = IF k \in Listed(order) THEN Len(order) ELSE Len(order) + 1
      /\ \A i \in 1 .. Len(m) : m[i] = k <=> i = Len(m)
      /\ \A i, j \in 1 .. Len(m) : i < j =>
            \/ j = Len(m)
            \/ \E a, b \in 1 .. Len(order) :
                  a < b /\ m[i] = order[a] /\ m[j] = order[b]
  BY <1>1, Moved
<1>3. /\ entry' = [j \in Keys |-> IF j \in gone THEN None ELSE IF j = k THEN new ELSE entry[j]]
      /\ order' = SubSeq(m, n + 1, Len(m))
      /\ since' = [j \in Keys |-> IF j = k THEN {} ELSE since[j] \cup {k}]
  BY DEF Write
<1> HIDE DEF m
<1>4. Len(m) \in Nat /\ m \in Seq(Keys) /\ Len(m) > 0 /\ Len(m) <= MaxItems + 1
  BY <1>1, <1>2 DEF KeyList, Listed
<1>5. n \in Nat /\ n < Len(m) /\ Len(m) - n <= MaxItems
      /\ (n = 0 \/ (n = 1 /\ Len(m) = MaxItems + 1))
  <2>1. CASE Len(m) > MaxItems
    <3>1. n = Len(m) - MaxItems /\ Len(m) = MaxItems + 1
      BY <1>1, <1>4, <2>1 DEF Excess
    <3> HIDE DEF n
    <3> QED
      BY <1>1, <3>1
  <2>2. CASE ~(Len(m) > MaxItems)
    <3>1. n = 0
      BY <2>2 DEF Excess
    <3> HIDE DEF n
    <3> QED
      BY <1>1, <1>4, <2>2, <3>1
  <2> QED
    BY <2>1, <2>2
<1> HIDE DEF n
<1>6. k \notin gone
  BY <1>2, <1>4, <1>5
<1>7. new \in [expires: 0 .. MaxTime + Ttl, record: Records] /\ new # None
  BY StoreAssumption DEF IInv, Typed
<1> HIDE DEF gone, new
<1>8. entry' \in [Keys -> [expires: 0 .. MaxTime + Ttl, record: Records] \cup {None}]
  BY <1>3, <1>7 DEF IInv, Typed
<1>9. entry'[k] = new
  BY <1>3, <1>6
<1>10. Recorded'
  <2>1. \A j \in Keys : IsFiniteSet(since[j] \cup {k})
    BY FS_AddElement DEF IInv, Recorded
  <2>2. IsFiniteSet({})
    BY FS_EmptySet
  <2>3. \A j \in Keys : IsFiniteSet(since'[j])
    BY <1>3, <2>1, <2>2
  <2>4. since' \in [Keys -> SUBSET Keys]
    BY <1>3 DEF IInv, Recorded
  <2> QED
    BY <2>3, <2>4 DEF Recorded
<1>11. /\ order' \in Seq(Keys) /\ Len(order') = Len(m) - n
       /\ \A i \in 1 .. Len(m) - n : order'[i] = m[n + i]
  <2>1. n + 1 \in 1 .. Len(m) + 1 /\ Len(m) \in 0 .. Len(m) /\ n + 1 <= Len(m) + 1
    BY <1>4, <1>5
  <2>2. /\ order' \in Seq(Keys) /\ Len(order') = Len(m) - (n + 1) + 1
        /\ \A i \in 1 .. Len(m) - (n + 1) + 1 : order'[i] = m[n + 1 + i - 1]
    BY <1>2, <1>3, <2>1, PartOfList
  <2> QED
    BY <1>4, <1>5, <2>2
<1>12. KeyList(order')
  BY <1>2, <1>4, <1>5, <1>11 DEF KeyList
<1>13. Listed(order') = Listed(m) \ gone
  <2>1. \A i \in 1 .. Len(m) - n : n + i \in 1 .. Len(m) /\ order'[i] = m[n + i]
    BY <1>4, <1>5, <1>11
  <2>2. \A i \in 1 .. Len(m) - n : order'[i] \in Listed(m) /\ order'[i] \notin gone
    <3> SUFFICES ASSUME NEW i \in 1 .. Len(m) - n
                 PROVE  order'[i] \in Listed(m) /\ order'[i] \notin gone
      OBVIOUS
    <3>1. n + i \in 1 .. Len(m) /\ order'[i] = m[n + i]
      BY <2>1
    <3>2. \A h \in 1 .. n : h \in 1 .. Len(m) /\ h # n + i
      BY <1>4, <1>5, <3>1
    <3>3. \A h \in 1 .. n : m[h] # m[n + i]
      BY <1>2, <3>1, <3>2 DEF KeyList
    <3> QED
      BY <3>1, <3>3 DEF Listed, gone
  <2>3. ASSUME NEW h \in 1 .. Len(m), m[h] \notin gone PROVE m[h] \in Listed(order')
    <3>1. h - n \in 1 .. Len(m) - n /\ n + (h - n) = h
      BY <1>4, <1>5, <2>3 DEF gone
    <3>2. order'[h - n] = m[h]
      BY <2>1, <3>1
    <3> QED
      BY <1>11, <3>1, <3>2 DEF Listed
  <2> QED
    BY <1>11, <2>2, <2>3 DEF Listed
<1>14. Listed(order') = Stored'
  <2>1. \A j \in Keys : entry'[j] # None <=> j \notin gone /\ (j = k \/ entry[j] # None)
    BY <1>3, <1>7
  <2>2. Stored' = {j \in Keys : entry'[j] # None} /\ Stored = {j \in Keys : entry[j] # None}
    BY DEF Stored
  <2> QED
    BY <1>1, <1>2, <1>13, <2>1, <2>2
<1>15. \A i, j \in 1 .. Len(m) : i < j => m[j] \in since'[m[i]]
  <2> SUFFICES ASSUME NEW i \in 1 .. Len(m), NEW j \in 1 .. Len(m), i < j
               PROVE  m[j] \in since'[m[i]]
    OBVIOUS
  <2>1. m[i] \in Keys /\ m[i] # k
    BY <1>2, <1>4
  <2>2. since'[m[i]] = since[m[i]] \cup {k}
    BY <1>3, <2>1
  <2>3. m[j] = k \/ m[j] \in since[m[i]]
    <3>1. CASE j = Len(m)
      BY <1>2, <3>1
    <3>2. CASE j # Len(m)
      <4>1. PICK a \in 1 .. Len(order), b \in 1 .. Len(order) :
               a < b /\ m[i] = order[a] /\ m[j] = order[b]
        BY <1>2, <3>2
      <4>2. order[b] \in since[order[a]]
        BY <1>1, <4>1
      <4> QED
        BY <4>1, <4>2
    <3> QED
      BY <3>1, <3>2
  <2> QED
    BY <2>2, <2>3
<1>16. \A i, j \in 1 .. Len(order') : i < j => order'[j] \in since'[order'[i]]
  <2> SUFFICES ASSUME NEW i \in 1 .. Len(order'), NEW j \in 1 .. Len(order'), i < j
               PROVE  order'[j] \in since'[order'[i]]
    OBVIOUS
  <2>1. i \in 1 .. Len(m) - n /\ j \in 1 .. Len(m) - n
    BY <1>11
  <2>2. n + i \in 1 .. Len(m) /\ n + j \in 1 .. Len(m) /\ n + i < n + j
    BY <1>4, <1>5, <2>1
  <2>3. m[n + j] \in since'[m[n + i]]
    BY <1>15, <2>2
  <2> QED
    BY <1>11, <2>1, <2>3
<1>17. Orderly'
  BY <1>5, <1>11, <1>12, <1>14, <1>16 DEF Orderly
<1>18. ASSUME NEW j \in Keys \ {k}
       PROVE  \/ entry'[j] = entry[j]
              \/ entry'[j] = None /\ Cardinality(since'[j]) >= MaxItems
  <2>1. CASE j \notin gone
    BY <1>3, <2>1
  <2>2. CASE j \in gone
    <3>1. n = 1 /\ Len(m) = MaxItems + 1 /\ j = m[1] /\ 1 \in 1 .. Len(m)
      BY <1>4, <1>5, <2>2 DEF gone
    <3>2. Len(order') = MaxItems
      BY <1>1, <1>11, <3>1
    <3>3. \A i \in 1 .. MaxItems : order'[i] \in since'[j]
      <4> SUFFICES ASSUME NEW i \in 1 .. MaxItems PROVE order'[i] \in since'[j]
        OBVIOUS
      <4>1. 1 + i \in 1 .. Len(m) /\ 1 < 1 + i /\ order'[i] = m[1 + i]
        BY <1>1, <1>11, <3>1
      <4> QED
        BY <1>15, <3>1, <4>1
    <3>4. Listed(order') \in SUBSET since'[j]
      BY <3>2, <3>3 DEF Listed
    <3>5. IsFiniteSet(since'[j])
      BY <1>10 DEF Recorded
    <3>6. Cardinality(Listed(order')) <= Cardinality(since'[j])
      BY <3>4, <3>5, FS_Subset
    <3>7. Cardinality(Listed(order')) = MaxItems
      BY <1>12, <3>2, LengthOfList
    <3>8. entry'[j] = None
      BY <1>3, <2>2
    <3>9. Cardinality(since'[j]) \in Nat
      BY <3>5, FS_CardinalityType
    <3> QED
      BY <1>1, <3>6, <3>7, <3>8, <3>9
  <2> QED
    BY <2>1, <2>2
<1> QED
  BY <1>8, <1>9, <1>10, <1>17, <1>18 DEF new

(* put_if_absent first drops the key; the list it leaves is put's. *)
LEMMA PutAfterDrop ==
    ASSUME IInv, NEW k \in Keys, NEW rec \in Records, Write(k, rec, RemoveFirst(order, k))
    PROVE  Write(k, rec, order)
<1>1. MovedToEnd(RemoveFirst(order, k), k) = MovedToEnd(order, k)
  BY Moved DEF IInv, Orderly
<1> QED
  BY <1>1 DEF Write

(* What get answers is a record, or None. *)
LEMMA Answered == ASSUME IInv, NEW k \in Keys PROVE Lookup(k) \in Records \cup {None}
BY DEF IInv, Typed, Lookup

(* get on an expired entry drops that key and nothing else. *)
LEMMA DroppedExpired ==
    ASSUME IInv, NEW k \in Keys, Expired(k),
           entry' = [entry EXCEPT ![k] = None], order' = RemoveFirst(order, k),
           UNCHANGED since
    PROVE  Orderly'
<1>1. /\ KeyList(order) /\ Len(order) \in Nat /\ Len(order) <= MaxItems
      /\ Listed(order) = Stored /\ MaxItems \in Nat
      /\ \A i, j \in 1 .. Len(order) : i < j => order[j] \in since[order[i]]
  BY StoreAssumption DEF IInv, Orderly, KeyList
<1>2. /\ KeyList(order') /\ Listed(order') = Listed(order) \ {k}
      /\ Len(order') = IF k \in Listed(order) THEN Len(order) - 1 ELSE Len(order)
      /\ \A i, j \in 1 .. Len(order') : i < j =>
            \E a, b \in 1 .. Len(order) :
               a < b /\ order'[i] = order[a] /\ order'[j] = order[b]
  <2> DEFINE r == RemoveFirst(order, k)
  <2>1. /\ KeyList(r) /\ Listed(r) = Listed(order) \ {k}
        /\ Len(r) = IF k \in Listed(order) THEN Len(order) - 1 ELSE Len(order)
        /\ \A i, j \in 1 .. Len(r) : i < j =>
              \E a, b \in 1 .. Len(order) : a < b /\ r[i] = order[a] /\ r[j] = order[b]
    BY ONLY <1>1, k \in Keys, Removed
  <2>2. r = order'
    OBVIOUS
  <2> HIDE DEF r
  <2> QED
    BY <2>1, <2>2
<1>3. Listed(order') = Stored'
  BY <1>1, <1>2 DEF Stored, IInv, Typed
<1>4. Len(order') <= MaxItems
  BY <1>1, <1>2
<1>5. \A i, j \in 1 .. Len(order') : i < j => order'[j] \in since'[order'[i]]
  <2> SUFFICES ASSUME NEW i \in 1 .. Len(order'), NEW j \in 1 .. Len(order'), i < j
               PROVE  order'[j] \in since'[order'[i]]
    OBVIOUS
  <2>1. PICK a \in 1 .. Len(order), b \in 1 .. Len(order) :
           a < b /\ order'[i] = order[a] /\ order'[j] = order[b]
    BY <1>2
  <2> QED
    BY <1>1, <2>1
<1> QED
  BY <1>2, <1>3, <1>4, <1>5 DEF Orderly

LEMMA StoreInit == Init => IInv
<1> SUFFICES ASSUME Init PROVE IInv
  OBVIOUS
<1>1. Typed
  BY StoreAssumption DEF Init, Typed
<1>2. Recorded
  BY FS_EmptySet DEF Init, Recorded
<1>3. order = <<>> /\ Len(order) = 0 /\ Stored = {}
  BY DEF Init, Stored
<1>4. KeyList(order) /\ Listed(order) = {}
  BY <1>3 DEF KeyList, Listed
<1>5. Orderly
  BY <1>3, <1>4, StoreAssumption DEF Orderly
<1> QED
  BY <1>1, <1>2, <1>5 DEF IInv

LEMMA StoreStep == IInv /\ [Next]_vars => IInv'
<1> SUFFICES ASSUME IInv, [Next]_vars PROVE IInv'
  OBVIOUS
<1>1. ASSUME NEW k \in Keys, Get(k) PROVE IInv'
  <2>1. Typed'
    <3>1. response' = Response("get", k, Lookup(k)) /\ Lookup(k) \in Results
      BY <1>1, Answered DEF Get, Results
    <3>2. response'.result \in Results
      BY <3>1 DEF Response
    <3>3. now' \in 0 .. MaxTime
      BY <1>1 DEF Get, IInv, Typed
    <3>4. entry' \in [Keys -> [expires: 0 .. MaxTime + Ttl, record: Records] \cup {None}]
      BY <1>1 DEF Get, IInv, Typed
    <3> QED
      BY <3>2, <3>3, <3>4 DEF Typed
  <2>2. Recorded'
    BY <1>1 DEF Get, IInv, Recorded
  <2>3. Orderly'
    <3>1. CASE Expired(k)
      BY <1>1, <3>1, DroppedExpired DEF Get
    <3>2. CASE ~Expired(k)
      BY <1>1, <3>2 DEF Get, IInv, Orderly, Stored
    <3> QED
      BY <3>1, <3>2
  <2> QED
    BY <2>1, <2>2, <2>3 DEF IInv
<1>2. ASSUME NEW k \in Keys, NEW rec \in Records, Put(k, rec) PROVE IInv'
  <2>1. Write(k, rec, order) /\ UNCHANGED now
    BY <1>2 DEF Put
  <2>2. /\ entry' \in [Keys -> [expires: 0 .. MaxTime + Ttl, record: Records] \cup {None}]
        /\ Recorded' /\ Orderly'
    BY <2>1, Written
  <2>3. response'.result \in Results
    BY <1>2 DEF Put, Response, Results
  <2>4. Typed'
    BY <2>1, <2>2, <2>3 DEF IInv, Typed
  <2> QED
    BY <2>2, <2>4 DEF IInv
<1>3. ASSUME NEW k \in Keys, NEW rec \in Records, PutIfAbsent(k, rec) PROVE IInv'
  <2>1. UNCHANGED now /\ response'.result \in Results
    BY <1>3 DEF PutIfAbsent, Response, Results
  <2>2. /\ entry' \in [Keys -> [expires: 0 .. MaxTime + Ttl, record: Records] \cup {None}]
        /\ Recorded' /\ Orderly'
    <3>1. CASE Lookup(k) # None
      <4>1. UNCHANGED <<entry, order, since>>
        BY <1>3, <3>1 DEF PutIfAbsent
      <4> QED
        BY <4>1 DEF IInv, Typed, Recorded, Orderly, Stored
    <3>2. CASE Lookup(k) = None
      <4>1. Write(k, rec, RemoveFirst(order, k))
        BY <1>3, <3>2 DEF PutIfAbsent
      <4>2. Write(k, rec, order)
        BY <4>1, PutAfterDrop
      <4> QED
        BY <4>2, Written
    <3> QED
      BY <3>1, <3>2
  <2>3. Typed'
    BY <2>1, <2>2 DEF IInv, Typed
  <2> QED
    BY <2>2, <2>3 DEF IInv
<1>4. ASSUME Close PROVE IInv'
  <2>1. order' = <<>> /\ Len(order') = 0 /\ Stored' = {}
    BY <1>4 DEF Close, Stored
  <2>2. KeyList(order') /\ Listed(order') = {}
    BY <2>1 DEF KeyList, Listed
  <2>3. Orderly'
    BY <2>1, <2>2, StoreAssumption DEF Orderly
  <2>4. Typed'
    BY <1>4 DEF Close, IInv, Typed
  <2>5. Recorded'
    BY <1>4, FS_EmptySet DEF Close, Recorded
  <2> QED
    BY <2>3, <2>4, <2>5 DEF IInv
<1>5. ASSUME Tick PROVE IInv'
  BY <1>5, StoreAssumption DEF Tick, IInv, Typed, Recorded, Orderly, Stored
<1>6. ASSUME UNCHANGED vars PROVE IInv'
  BY <1>6 DEF vars, IInv, Typed, Recorded, Orderly, Stored
<1> QED
  BY <1>1, <1>2, <1>3, <1>4, <1>5, <1>6 DEF Next

LEMMA StoreInvariant == Spec => []IInv
BY StoreInit, StoreStep, PTL DEF Spec

-----------------------------------------------------------------------------
(* The OrderedDict and the entries never disagree, and there are never     *)
(* more of them than max_items.                                            *)
THEOREM StoreTypeOK == Spec => []TypeOK
<1>1. IInv => TypeOK
  <2> SUFFICES ASSUME IInv PROVE TypeOK
    OBVIOUS
  <2>1. Range(order) = Stored
    BY ListedIsRange DEF IInv, Orderly, KeyList
  <2>2. Len(order) = Cardinality(Stored)
    BY LengthOfList DEF IInv, Orderly
  <2> QED
    BY <2>1, <2>2 DEF IInv, Typed, Orderly, TypeOK
<1> QED
  BY <1>1, StoreInvariant, PTL

(* What a step does to a record that was readable: it is readable after    *)
(* it, or its time is over, or max_items other keys came after it, or the  *)
(* store was closed.                                                       *)
LEMMA StaysReadable ==
    ASSUME IInv, Next, NEW k \in Keys, Lookup(k) # None
    PROVE  \/ Lookup(k)' # None
           \/ now' > entry[k].expires
           \/ Cardinality(since'[k]) >= MaxItems
           \/ order' = <<>>
<1>1. /\ entry[k] # None /\ ~Expired(k) /\ entry[k].record # None
      /\ entry[k].expires \in Nat /\ now \in Nat /\ Ttl \in Nat
      /\ entry[k] \in [expires: 0 .. MaxTime + Ttl, record: Records]
  BY StoreAssumption DEF IInv, Typed, Lookup
<1>2. ASSUME entry'[k] = entry[k], now' \in Nat
      PROVE  Lookup(k)' # None \/ now' > entry[k].expires
  BY <1>1, <1>2 DEF Lookup, Expired
<1>3. ASSUME NEW c \in Keys, NEW rec \in Records, Write(c, rec, order), UNCHANGED now
      PROVE  Lookup(k)' # None \/ now' > entry[k].expires \/ Cardinality(since'[k]) >= MaxItems
  <2>1. /\ entry'[c] = [expires |-> now + Ttl, record |-> rec]
        /\ \A j \in Keys \ {c} :
              \/ entry'[j] = entry[j]
              \/ entry'[j] = None /\ Cardinality(since'[j]) >= MaxItems
    BY <1>3, Written
  <2>2. CASE k = c
    <3>1. /\ entry'[k].record = rec /\ entry'[k].expires = now + Ttl
          /\ ~(now + Ttl < now') /\ rec # None
      BY <1>1, <1>3, <2>1, <2>2, StoreAssumption
    <3>2. entry'[k] # None
      BY <2>1, <2>2, StoreAssumption DEF IInv, Typed
    <3> QED
      BY <3>1, <3>2 DEF Lookup, Expired
  <2>3. CASE k # c
    BY <1>1, <1>2, <1>3, <2>1, <2>3
  <2> QED
    BY <2>2, <2>3
<1>4. ASSUME NEW c \in Keys, Get(c) PROVE Lookup(k)' # None \/ now' > entry[k].expires
  <2>1. entry'[k] = entry[k] /\ now' = now
    BY <1>1, <1>4 DEF Get, IInv, Typed
  <2> QED
    BY <1>1, <1>2, <2>1
<1>5. ASSUME NEW c \in Keys, NEW rec \in Records, Put(c, rec)
      PROVE  Lookup(k)' # None \/ now' > entry[k].expires \/ Cardinality(since'[k]) >= MaxItems
  BY <1>3, <1>5 DEF Put
<1>6. ASSUME NEW c \in Keys, NEW rec \in Records, PutIfAbsent(c, rec)
      PROVE  Lookup(k)' # None \/ now' > entry[k].expires \/ Cardinality(since'[k]) >= MaxItems
  <2>1. CASE Lookup(c) # None
    <3>1. entry'[k] = entry[k] /\ now' = now
      BY <1>6, <2>1 DEF PutIfAbsent
    <3> QED
      BY <1>1, <1>2, <3>1
  <2>2. CASE Lookup(c) = None
    <3>1. Write(c, rec, RemoveFirst(order, c)) /\ UNCHANGED now
      BY <1>6, <2>2 DEF PutIfAbsent
    <3>2. Write(c, rec, order)
      BY <3>1, PutAfterDrop
    <3> QED
      BY <1>3, <3>1, <3>2
  <2> QED
    BY <2>1, <2>2
<1>7. ASSUME Close PROVE order' = <<>>
  BY <1>7 DEF Close
<1>8. ASSUME Tick PROVE Lookup(k)' # None \/ now' > entry[k].expires
  <2>1. entry'[k] = entry[k] /\ now' \in Nat
    BY <1>1, <1>8 DEF Tick
  <2> QED
    BY <1>2, <2>1
<1> QED
  BY <1>4, <1>5, <1>6, <1>7, <1>8 DEF Next

(* A record that was written can be read until its TTL has passed or       *)
(* max_items other keys were written after it.                             *)
THEOREM RecordsRetained == Spec => Retained
<1>1. IInv /\ [Next]_vars =>
         [\A k \in Keys : Lookup(k) # None =>
             \/ Lookup(k)' # None
             \/ now' > entry[k].expires
             \/ Cardinality(since'[k]) >= MaxItems
             \/ order' = <<>>]_vars
  BY StaysReadable
<1> QED
  BY <1>1, StoreInvariant, PTL DEF Spec, Retained

-----------------------------------------------------------------------------
(* The record that each key holds, for a reader of the store. *)
Held == [k \in Keys |-> Lookup(k)]

(* To a reader, a put takes effect and forgets some of the other keys. *)
LEMMA PutForgets ==
    ASSUME IInv, NEW k \in Keys, NEW rec \in Records, Write(k, rec, order), UNCHANGED now
    PROVE  \E lost \in SUBSET (Keys \ {k}) :
              Held' = Contract!Without([Held EXCEPT ![k] = rec], lost)
<1> DEFINE lost == {j \in Keys \ {k} : Lookup(j)' = None}
<1>1. /\ entry'[k] = [expires |-> now + Ttl, record |-> rec]
      /\ \A j \in Keys \ {k} : entry'[j] = entry[j] \/ entry'[j] = None
      /\ entry' \in [Keys -> [expires: 0 .. MaxTime + Ttl, record: Records] \cup {None}]
  BY Written
<1>2. Lookup(k)' = rec
  <2>1. entry'[k] # None
    BY <1>1, StoreAssumption DEF IInv, Typed
  <2>2. ~(now + Ttl < now) /\ now' = now
    BY StoreAssumption DEF IInv, Typed
  <2> QED
    BY <1>1, <2>1, <2>2 DEF Lookup, Expired
<1>3. \A j \in Keys \ {k} : Lookup(j)' = None \/ Lookup(j)' = Lookup(j)
  BY <1>1 DEF Lookup, Expired
<1>4. Held' = [j \in Keys |-> Lookup(j)'] /\ Held = [j \in Keys |-> Lookup(j)]
  BY DEF Held
<1>5. ASSUME NEW j \in Keys
      PROVE  Held'[j] = IF j \in lost THEN None ELSE [Held EXCEPT ![k] = rec][j]
  <2>1. Held'[j] = Lookup(j)' /\ Held[j] = Lookup(j)
    BY <1>4
  <2>2. CASE j = k
    BY <1>2, <1>4, <2>1, <2>2
  <2>3. CASE j # k
    BY <1>3, <1>4, <2>1, <2>3
  <2> QED
    BY <2>2, <2>3
<1>6. Held' = Contract!Without([Held EXCEPT ![k] = rec], lost)
  <2> HIDE DEF lost, Held
  <2> QED
    BY <1>4, <1>5 DEF Contract!Without
<1> QED
  BY <1>6

LEMMA ContractInit == Init => Contract!Init
BY DEF Init, Contract!Init, Lookup, Expired

(* Every step of the store is one of the map it promises to be. *)
LEMMA ContractStep ==
    ASSUME IInv, [Next]_vars PROVE [Contract!Next]_(Contract!vars)
<1>1. Held = [k \in Keys |-> Lookup(k)] /\ Held' = [k \in Keys |-> Lookup(k)']
  BY DEF Held
<1>2. ASSUME \A k \in Keys : Lookup(k)' = Lookup(k) PROVE Held' = Held
  BY <1>1, <1>2
<1>3. ASSUME NEW k \in Keys, Get(k) PROVE Contract!Get(k)
  <2>1. response' = Contract!Response("get", k, Held[k])
    BY <1>1, <1>3 DEF Get, Response, Contract!Response
  <2>2. \A j \in Keys : Lookup(j)' = Lookup(j)
    BY <1>3 DEF Get, Lookup, Expired, IInv, Typed
  <2> QED
    BY <1>1, <1>2, <2>1, <2>2 DEF Contract!Get, Held
<1>4. ASSUME NEW k \in Keys, NEW rec \in Records, Put(k, rec) PROVE Contract!Put(k, rec)
  <2>1. response' = Contract!Response("put", k, None)
    BY <1>4 DEF Put, Response, Contract!Response
  <2>2. Write(k, rec, order) /\ UNCHANGED now
    BY <1>4 DEF Put
  <2>3. \E lost \in SUBSET (Keys \ {k}) :
           Held' = Contract!Without([Held EXCEPT ![k] = rec], lost)
    BY <2>2, PutForgets
  <2> QED
    BY <2>1, <2>3 DEF Contract!Put, Held
<1>5. ASSUME NEW k \in Keys, NEW rec \in Records, PutIfAbsent(k, rec)
      PROVE  Contract!PutIfAbsent(k, rec)
  <2>1. response' = Contract!Response("put_if_absent", k, Held[k] = None)
    BY <1>1, <1>5 DEF PutIfAbsent, Response, Contract!Response
  <2>2. CASE Held[k] # None
    <3>1. UNCHANGED <<entry, now>>
      BY <1>1, <1>5, <2>2 DEF PutIfAbsent
    <3>2. Held' = Held
      BY <1>2, <3>1 DEF Lookup, Expired
    <3> QED
      BY <2>1, <2>2, <3>2 DEF Contract!PutIfAbsent, Held
  <2>3. CASE Held[k] = None
    <3>1. Write(k, rec, RemoveFirst(order, k)) /\ UNCHANGED now
      BY <1>1, <1>5, <2>3 DEF PutIfAbsent
    <3>2. Write(k, rec, order)
      BY <3>1, PutAfterDrop
    <3>3. \E lost \in SUBSET (Keys \ {k}) :
             Held' = Contract!Without([Held EXCEPT ![k] = rec], lost)
      BY <3>1, <3>2, PutForgets
    <3> QED
      BY <2>1, <2>3, <3>3 DEF Contract!PutIfAbsent, Held
  <2> QED
    BY <2>2, <2>3
<1>6. ASSUME UNCHANGED response, \A k \in Keys : Lookup(k)' = None \/ Lookup(k)' = Lookup(k)
      PROVE  Contract!Forget
  <2> DEFINE lost == {k \in Keys : Lookup(k)' = None}
  <2>1. Held' = Contract!Without(Held, lost)
    BY <1>1, <1>6 DEF Contract!Without
  <2> QED
    BY <1>6, <2>1 DEF Contract!Forget, Held
<1>7. ASSUME Close PROVE Contract!Forget
  <2>1. \A k \in Keys : Lookup(k)' = None
    BY <1>7 DEF Close, Lookup
  <2> QED
    BY <1>6, <1>7, <2>1 DEF Close
<1>8. ASSUME Tick PROVE Contract!Forget
  <2>1. \A k \in Keys : Lookup(k)' = None \/ Lookup(k)' = Lookup(k)
    BY <1>8 DEF Tick, Lookup, Expired, IInv, Typed
  <2> QED
    BY <1>6, <1>8, <2>1 DEF Tick
<1>9. ASSUME UNCHANGED vars PROVE UNCHANGED Contract!vars
  BY <1>9 DEF vars, Contract!vars, Lookup, Expired
<1> QED
  BY <1>3, <1>4, <1>5, <1>7, <1>8, <1>9 DEF Next, Contract!Next

(* The in-process store keeps the contract of the MappingStore protocol:   *)
(* atomic operations, and answers that are the last record written.        *)
THEOREM StoreContractKept == Spec => ContractKept
BY ContractInit, ContractStep, StoreInvariant, PTL DEF Spec, ContractKept, Contract!Spec
=============================================================================
