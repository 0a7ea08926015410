----------------------- MODULE WorkerAdmissionProofs ------------------------
(***************************************************************************)
(* For every limit, pool and set of calls: the admission counter is exact, *)
(* nobody is turned away while there is a place, and a pool with room for  *)
(* the admitted requests and the probes never runs dry.                    *)
(***************************************************************************)
EXTENDS WorkerAdmission, FiniteSetTheorems, TLAPS

(* The calls, and those in any phase, are finite sets. *)
LEMMA FiniteCalls ==
    /\ IsFiniteSet(Calls)
    /\ IsFiniteSet(Inside)
    /\ IsFiniteSet(Connected)
    /\ Cardinality(Inside) \in Nat
    /\ Cardinality(Connected) \in Nat
    /\ Cardinality(Probes) \in Nat
<1>1. IsFiniteSet(Calls)
  BY AdmissionAssumption, FS_Union DEF Calls
<1>2. Inside \subseteq Requests /\ Connected \subseteq Calls
  BY DEF Inside, Connected
<1>3. IsFiniteSet(Inside) /\ IsFiniteSet(Connected)
  BY <1>1, <1>2, AdmissionAssumption, FS_Subset
<1> QED
  BY <1>1, <1>3, AdmissionAssumption, FS_CardinalityType

(* Types are preserved as long as the counter counts the requests inside. *)
LEMMA TypeStep ==
    ASSUME TypeOK, CounterExact, [Next]_vars
    PROVE  TypeOK'
<1> USE DEF TypeOK, Phases, Calls, MoveTo
<1>1. ASSUME NEW r \in Requests, Enter(r)
      PROVE  TypeOK'
  BY <1>1 DEF Enter
<1>2. ASSUME NEW r \in Requests, Repeat(r)
      PROVE  TypeOK'
  BY <1>2 DEF Repeat
<1>3. ASSUME NEW p \in Probes, Pass(p)
      PROVE  TypeOK'
  BY <1>3 DEF Pass
<1>4. ASSUME NEW c \in Calls, Connect(c)
      PROVE  TypeOK'
  BY <1>4 DEF Connect
<1>5. ASSUME NEW c \in Calls, Disconnect(c)
      PROVE  TypeOK'
  BY <1>5 DEF Disconnect
<1>6. ASSUME NEW c \in Calls, Finish(c) \/ Fail(c)
      PROVE  TypeOK'
  <2>1. phase[c] \in {"running", "connected"}
    BY <1>6 DEF Finish, Fail
  <2>2. c \in Requests => inflight - 1 \in Nat
    <3> HAVE c \in Requests
    <3>1. c \in Inside
      BY <2>1 DEF Inside
    <3>2. Cardinality(Inside) # 0
      BY <3>1, FiniteCalls, FS_EmptySet
    <3> QED
      BY <3>2, FiniteCalls DEF CounterExact
  <2> QED
    BY <1>6, <2>2 DEF Finish, Fail
<1>7. CASE UNCHANGED vars
  BY <1>7 DEF vars
<1> QED
  BY <1>1, <1>2, <1>3, <1>4, <1>5, <1>6, <1>7 DEF Next

(* A step changes the requests inside by at most the one that moves. *)
LEMMA InsideStep ==
    ASSUME TypeOK, NEW c \in Calls, NEW p \in Phases, MoveTo(c, p)
    PROVE  Inside' = IF c \in Requests /\ p \in {"running", "connected"}
                     THEN Inside \cup {c}
                     ELSE Inside \ {c}
  BY DEF TypeOK, Inside, MoveTo, Calls

(* The counter follows the requests that enter and leave. *)
LEMMA CounterStep ==
    ASSUME TypeOK, CounterExact, [Next]_vars
    PROVE  CounterExact'
<1> USE AdmissionAssumption DEF CounterExact
<1>1. ASSUME NEW r \in Requests, Enter(r)
      PROVE  CounterExact'
  <2>1. r \in Calls /\ r \notin Inside
    BY <1>1 DEF Enter, Inside, Calls
  <2>2. CASE inflight >= MaxInflight
    <3>1. Inside' = Inside \ {r}
      BY <1>1, <2>1, <2>2, InsideStep DEF Enter, Phases
    <3> QED
      BY <1>1, <2>1, <2>2, <3>1 DEF Enter
  <2>3. CASE ~(inflight >= MaxInflight)
    <3>1. Inside' = Inside \cup {r}
      BY <1>1, <2>1, <2>3, InsideStep DEF Enter, Phases
    <3>2. Cardinality(Inside') = Cardinality(Inside) + 1
      BY <2>1, <3>1, FiniteCalls, FS_AddElement
    <3> QED
      BY <1>1, <2>3, <3>2 DEF Enter, TypeOK
  <2> QED
    BY <2>2, <2>3
<1>2. ASSUME NEW r \in Requests, Repeat(r)
      PROVE  CounterExact'
  <2>1. r \in Calls /\ r \notin Inside
    BY <1>2 DEF Repeat, Inside, Calls
  <2>2. Inside' = Inside \ {r}
    BY <1>2, <2>1, InsideStep DEF Repeat, Phases
  <2> QED
    BY <1>2, <2>1, <2>2 DEF Repeat
<1>3. ASSUME NEW p \in Probes, Pass(p)
      PROVE  CounterExact'
  <2>1. p \in Calls /\ p \notin Requests /\ p \notin Inside
    BY DEF Inside, Calls
  <2>2. Inside' = Inside \ {p}
    BY <1>3, <2>1, InsideStep DEF Pass, Phases
  <2> QED
    BY <1>3, <2>1, <2>2 DEF Pass
<1>4. ASSUME NEW c \in Calls, Connect(c) \/ Disconnect(c)
      PROVE  CounterExact'
  <2>1. c \in Requests => c \in Inside
    BY <1>4 DEF Connect, Disconnect, Inside
  <2>2. Inside' = Inside
    <3>1. CASE UNCHANGED phase
      BY <3>1 DEF Inside
    <3>2. CASE \E p \in {"running", "connected"} : MoveTo(c, p)
      <4>1. c \notin Requests => c \notin Inside
        BY DEF Inside
      <4> QED
        BY <2>1, <3>2, <4>1, InsideStep DEF Phases
    <3> QED
      BY <1>4, <3>1, <3>2 DEF Connect, Disconnect
  <2> QED
    BY <1>4, <2>2 DEF Connect, Disconnect
<1>5. ASSUME NEW c \in Calls, Finish(c) \/ Fail(c)
      PROVE  CounterExact'
  <2>1. MoveTo(c, "finished") /\ phase[c] \in {"running", "connected"}
    BY <1>5 DEF Finish, Fail
  <2>2. Inside' = Inside \ {c}
    BY <2>1, InsideStep DEF Phases
  <2>3. CASE c \in Requests
    <3>1. c \in Inside
      BY <2>1, <2>3 DEF Inside
    <3>2. Cardinality(Inside') = Cardinality(Inside) - 1
      BY <2>2, <3>1, FiniteCalls, FS_RemoveElement
    <3> QED
      BY <1>5, <2>3, <3>2, FiniteCalls DEF Finish, Fail
  <2>4. CASE c \notin Requests
    <3>1. c \notin Inside
      BY <2>4 DEF Inside
    <3> QED
      BY <1>5, <2>2, <2>4, <3>1 DEF Finish, Fail
  <2> QED
    BY <2>3, <2>4
<1>6. CASE UNCHANGED vars
  BY <1>6 DEF vars, Inside
<1> QED
  BY <1>1, <1>2, <1>3, <1>4, <1>5, <1>6 DEF Next

(* A call that asks for a connection does not hold one, so fewer than all  *)
(* the admitted requests and probes do.                                    *)
LEMMA PoolStep ==
    ASSUME TypeOK, CounterExact, PoolSuffices, [Next]_vars
    PROVE  PoolSuffices'
<1> SUFFICES ASSUME MaxInflight + Cardinality(Probes) <= MaxConnections,
                    starved = {}
             PROVE  starved' = {}
  BY DEF PoolSuffices
<1>1. ASSUME NEW c \in Calls, Connect(c)
      PROVE  starved' = {}
  <2> DEFINE Entitled == Inside \cup Probes
  <2>1. IsFiniteSet(Entitled) /\ IsFiniteSet(Entitled \ {c})
    BY FiniteCalls, AdmissionAssumption, FS_Union, FS_RemoveElement
  <2>2. Cardinality(Entitled) <= Cardinality(Inside) + Cardinality(Probes)
    <3>1. /\ Cardinality(Entitled) = Cardinality(Inside) + Cardinality(Probes)
                                       - Cardinality(Inside \cap Probes)
          /\ IsFiniteSet(Inside \cap Probes)
      BY FiniteCalls, AdmissionAssumption, FS_Union, FS_Intersection
    <3>2. Cardinality(Inside \cap Probes) \in Nat
      BY <3>1, FS_CardinalityType
    <3> QED
      BY <3>1, <3>2, FiniteCalls
  <2>3. c \in Entitled /\ Connected \subseteq Entitled \ {c}
    BY <1>1 DEF Connect, Connected, Inside, Calls
  <2>4. Cardinality(Entitled \ {c}) = Cardinality(Entitled) - 1
    BY <2>1, <2>3, FS_RemoveElement
  <2>5. Cardinality(Connected) <= Cardinality(Entitled \ {c})
    BY <2>1, <2>3, FS_Subset
  <2>6. Cardinality(Entitled) \in Nat
    BY <2>1, FS_CardinalityType
  <2>7. Cardinality(Connected) < MaxConnections
    BY <2>2, <2>4, <2>5, <2>6, FiniteCalls, AdmissionAssumption DEF CounterExact
  <2> QED
    BY <1>1, <2>7 DEF Connect
<1>2. ASSUME NEW c \in Calls, Disconnect(c) \/ Finish(c) \/ Fail(c)
      PROVE  starved' = {}
  BY <1>2 DEF Disconnect, Finish, Fail
<1>3. ASSUME NEW r \in Requests, Enter(r) \/ Repeat(r)
      PROVE  starved' = {}
  BY <1>3 DEF Enter, Repeat
<1>4. ASSUME NEW p \in Probes, Pass(p)
      PROVE  starved' = {}
  BY <1>4 DEF Pass
<1>5. CASE UNCHANGED vars
  BY <1>5 DEF vars
<1> QED
  BY <1>1, <1>2, <1>3, <1>4, <1>5 DEF Next

-----------------------------------------------------------------------------
IInv == TypeOK /\ CounterExact /\ PoolSuffices

LEMMA InitIInv == Init => IInv
<1> SUFFICES ASSUME Init PROVE IInv
  OBVIOUS
<1>1. TypeOK /\ PoolSuffices
  BY DEF Init, TypeOK, Phases, PoolSuffices
<1>2. Inside = {}
  BY DEF Init, Inside, Calls
<1>3. CounterExact
  BY <1>2, FS_EmptySet, AdmissionAssumption DEF Init, CounterExact
<1> QED
  BY <1>1, <1>3 DEF IInv

LEMMA NextIInv == IInv /\ [Next]_vars => IInv'
  BY TypeStep, CounterStep, PoolStep DEF IInv

(* The invariant the other theorems are read off. *)
THEOREM Invariance == Spec => []IInv
<1>1. Init => IInv
  BY InitIInv
<1>2. IInv /\ [Next]_vars => IInv'
  BY NextIInv
<1> QED
  BY <1>1, <1>2, PTL DEF Spec

(* Counter, phases and repeats stay in their ranges: a call that leaves    *)
(* never takes the counter below zero, because it is counted.              *)
THEOREM TypeCorrect == Spec => []TypeOK
<1>1. IInv => TypeOK
  BY DEF IInv
<1> QED
  BY <1>1, Invariance, PTL

(* The counter of InflightLimitMiddleware is exact and bounded. *)
THEOREM CounterCorrect == Spec => []CounterExact
<1>1. IInv => CounterExact
  BY DEF IInv
<1> QED
  BY <1>1, Invariance, PTL

(* max_inflight plus the probes within redis_max_connections: no admitted  *)
(* request ever mistakes an exhausted pool for a dead Redis.               *)
THEOREM PoolCorrect == Spec => []PoolSuffices
<1>1. IInv => PoolSuffices
  BY DEF IInv
<1> QED
  BY <1>1, Invariance, PTL

(* A 429 means that max_inflight requests are being handled. *)
THEOREM RejectionCorrect == Spec => RejectedOnlyWhenFull
<1> DEFINE Full == \A r \in Requests :
                      phase[r] = "new" /\ phase'[r] = "rejected" =>
                         Cardinality(Inside) = MaxInflight
<1>1. IInv /\ [Next]_vars => [Full]_vars
  <2> SUFFICES ASSUME IInv, Next, NEW r \in Requests,
                      phase[r] = "new", phase'[r] = "rejected"
               PROVE  Cardinality(Inside) = MaxInflight
    OBVIOUS
  <2>1. Enter(r) /\ inflight >= MaxInflight
    <3>1. ASSUME NEW c \in Calls, NEW p \in Phases \ {"rejected"}, MoveTo(c, p)
          PROVE  FALSE
      BY <3>1 DEF IInv, TypeOK, MoveTo, Calls
    <3>2. ASSUME NEW q \in Requests, Enter(q)
          PROVE  Enter(r) /\ inflight >= MaxInflight
      BY <3>1, <3>2 DEF Enter, MoveTo, IInv, TypeOK, Calls, Phases
    <3>3. ASSUME NEW q \in Requests, Repeat(q)
          PROVE  FALSE
      BY <3>1, <3>3 DEF Repeat, Calls, Phases
    <3>4. ASSUME NEW p \in Probes, Pass(p)
          PROVE  FALSE
      BY <3>1, <3>4 DEF Pass, Calls, Phases
    <3>5. ASSUME NEW c \in Calls, Connect(c) \/ Disconnect(c) \/ Finish(c) \/ Fail(c)
          PROVE  FALSE
      BY <3>1, <3>5 DEF Connect, Disconnect, Finish, Fail, Phases
    <3> QED
      BY <3>2, <3>3, <3>4, <3>5 DEF Next
  <2> QED
    BY <2>1, FiniteCalls, AdmissionAssumption DEF IInv, CounterExact
<1> QED
  BY <1>1, Invariance, PTL DEF Spec, RejectedOnlyWhenFull
=============================================================================
