--------------------------- MODULE TimeoutProofs ----------------------------
(***************************************************************************)
(* The service under timeouts, repeated and late commands, for any number  *)
(* of workers, requests and faults.                                        *)
(*                                                                         *)
(* First: FallbackStore uses its memory only after a connection error, and *)
(* each 503 costs two timeouts.  The proof keeps a ledger: every timeout   *)
(* and every broken connection belongs to the request that met it, until   *)
(* the request has been answered 503 or its worker has switched to memory. *)
(*                                                                         *)
(* Second: for clients that use a payload_id for one text, an answered     *)
(* mask stays stored, is reversed on demand, and no record is written      *)
(* twice.                                                                  *)
(***************************************************************************)
EXTENDS ProcessProofs, FiniteSetTheorems

Broken      == {r \in Requests : stage[r] = "served" /\ reply[r].status = "connection"}
TimedOut(r) == stage[r] = "served" /\ reply[r].status = "timeout"
Once        == {r \in Requests : TimedOut(r) \/ (stage[r] = "sent" /\ retried[r])}
Twice       == {r \in Requests : TimedOut(r) /\ retried[r]}
Unavailable == {r \in Requests : Direction(r) = "store_unavailable"}

OnlyDegraded == \A w \in Workers, k \in Keys : memory[w][k] # None => w \in degraded

Finite ==
    /\ IsFiniteSet(degraded) /\ IsFiniteSet(Broken)
    /\ IsFiniteSet(Once) /\ IsFiniteSet(Twice) /\ IsFiniteSet(Unavailable)

BrokenPaid == Cardinality(degraded) + Cardinality(Broken) <= faults.disconnects

TimeoutsPaid ==
    2 * Cardinality(Unavailable) + Cardinality(Once) + Cardinality(Twice) <= faults.timeouts

Ledger == TypeOK /\ OnlyDegraded /\ Finite /\ BrokenPaid /\ TimeoutsPaid

-----------------------------------------------------------------------------
LEMMA Fewer ==
    ASSUME NEW S, NEW T, IsFiniteSet(S), T \subseteq S
    PROVE  IsFiniteSet(T) /\ Cardinality(T) \in Nat /\ Cardinality(S) \in Nat
           /\ Cardinality(T) <= Cardinality(S)
  BY FS_Subset, FS_CardinalityType

LEMMA OneMore ==
    ASSUME NEW S, NEW T, NEW x, IsFiniteSet(S), T \subseteq S \cup {x}
    PROVE  IsFiniteSet(T) /\ Cardinality(T) \in Nat /\ Cardinality(S) \in Nat
           /\ Cardinality(T) <= Cardinality(S) + 1
<1> DEFINE more == S \cup {x}
<1>1. IsFiniteSet(more) /\ Cardinality(more) <= Cardinality(S) + 1 /\ Cardinality(S) \in Nat
  <2>1. Cardinality(S) \in Nat
    BY FS_CardinalityType
  <2>2. /\ IsFiniteSet(more)
        /\ Cardinality(more) = IF x \in S THEN Cardinality(S) ELSE Cardinality(S) + 1
    BY FS_AddElement
  <2> HIDE DEF more
  <2> QED
    BY <2>1, <2>2
<1>2. T \subseteq more
  OBVIOUS
<1> HIDE DEF more
<1>3. IsFiniteSet(T) /\ Cardinality(T) \in Nat /\ Cardinality(more) \in Nat
      /\ Cardinality(T) <= Cardinality(more)
  BY <1>1, <1>2, Fewer
<1> QED
  BY <1>1, <1>3

LEMMA OneLess ==
    ASSUME NEW S, NEW T, NEW x \in S, IsFiniteSet(S), T \subseteq S \ {x}
    PROVE  IsFiniteSet(T) /\ Cardinality(T) \in Nat /\ Cardinality(S) \in Nat
           /\ Cardinality(T) + 1 <= Cardinality(S)
<1> DEFINE less == S \ {x}
<1>1. IsFiniteSet(less) /\ Cardinality(less) = Cardinality(S) - 1
      /\ Cardinality(S) \in Nat
  BY FS_RemoveElement, FS_CardinalityType
<1>2. T \subseteq less
  OBVIOUS
<1> HIDE DEF less
<1>3. IsFiniteSet(T) /\ Cardinality(T) \in Nat /\ Cardinality(less) \in Nat
      /\ Cardinality(T) <= Cardinality(less)
  BY <1>1, <1>2, Fewer
<1> QED
  BY <1>1, <1>3

(* A step after which nobody has been given more to account for. *)
LEMMA QuietStep ==
    ASSUME Ledger, TypeOK',
           Broken' \subseteq Broken, Once' \subseteq Once, Twice' \subseteq Twice,
           Unavailable' \subseteq Unavailable, degraded' = degraded,
           \A w \in Workers, k \in Keys : memory'[w][k] # None => memory[w][k] # None,
           faults'.timeouts >= faults.timeouts,
           faults'.disconnects >= faults.disconnects
    PROVE  Ledger'
<1> USE DEF Ledger
<1>1. faults.timeouts \in Nat /\ faults.disconnects \in Nat
      /\ faults'.timeouts \in Nat /\ faults'.disconnects \in Nat
  BY DEF TypeOK
<1>2. OnlyDegraded'
  BY DEF OnlyDegraded
<1>3. /\ IsFiniteSet(Broken') /\ Cardinality(Broken') \in Nat
      /\ Cardinality(Broken) \in Nat /\ Cardinality(Broken') <= Cardinality(Broken)
  BY Fewer DEF Finite
<1>4. /\ IsFiniteSet(Once') /\ Cardinality(Once') \in Nat
      /\ Cardinality(Once) \in Nat /\ Cardinality(Once') <= Cardinality(Once)
  BY Fewer DEF Finite
<1>5. /\ IsFiniteSet(Twice') /\ Cardinality(Twice') \in Nat
      /\ Cardinality(Twice) \in Nat /\ Cardinality(Twice') <= Cardinality(Twice)
  BY Fewer DEF Finite
<1>6. /\ IsFiniteSet(Unavailable') /\ Cardinality(Unavailable') \in Nat
      /\ Cardinality(Unavailable) \in Nat
      /\ Cardinality(Unavailable') <= Cardinality(Unavailable)
  BY Fewer DEF Finite
<1>7. Cardinality(degraded) \in Nat
  BY FS_CardinalityType DEF Finite
<1>8. Finite'
  BY <1>3, <1>4, <1>5, <1>6 DEF Finite
<1>9. BrokenPaid'
  BY <1>1, <1>3, <1>7 DEF BrokenPaid
<1>10. TimeoutsPaid'
  BY <1>1, <1>4, <1>5, <1>6 DEF TimeoutsPaid
<1> QED
  BY <1>2, <1>8, <1>9, <1>10

-----------------------------------------------------------------------------
(* What Send and Respond do to the account of a request. *)
OwnStep(r) ==
    /\ \A q \in Requests : q # r => /\ stage'[q] = stage[q] /\ retried'[q] = retried[q]
                                    /\ reply'[q] = reply[q] /\ answer'[q] = answer[q]
    /\ stage'[r] = "answered" \/ (stage'[r] = "sent" /\ ~retried'[r])
    /\ answer'[r] = answer[r] \/ answer'[r].direction # "store_unavailable"

LEMMA SendOwn ==
    ASSUME TypeOK, NEW r \in Requests, NEW o, Send(r, o),
           \A q \in Requests : q # r => reply'[q] = reply[q]
    PROVE  OwnStep(r)
  BY DEF TypeOK, Send, OwnStep

LEMMA RespondOwn ==
    ASSUME TypeOK, NEW r \in Requests, NEW a, Respond(r, a),
           a.direction # "store_unavailable",
           \A q \in Requests : q # r => reply'[q] = reply[q]
    PROVE  OwnStep(r)
  BY DEF TypeOK, Respond, OwnStep

LEMMA VerdictNeverUnavailable ==
    ASSUME NEW t, NEW rec, NEW s
    PROVE  Verdict(t, rec, s).direction # "store_unavailable"
  BY DEF Verdict, Error

LEMMA ContinueOwn ==
    ASSUME TypeOK, NEW r \in Requests, NEW found, NEW created,
           Continue(r, found, created), UNCHANGED reply
    PROVE  OwnStep(r)
<1>1. OwnMask(r).direction # "store_unavailable"
  BY DEF OwnMask, Masked
<1>2. op[r] \in Ops
  BY DEF TypeOK
<1> QED
  BY <1>1, <1>2, ContinueCases, SendOwn, RespondOwn, VerdictNeverUnavailable

(* The request leaves the ledger; nobody else's entries change. *)
LEMMA OwnAccounts ==
    ASSUME NEW r \in Requests, OwnStep(r)
    PROVE  /\ Broken' \subseteq Broken \ {r}
           /\ Once' \subseteq Once \ {r} /\ Twice' \subseteq Twice \ {r}
           /\ Unavailable' \subseteq Unavailable
<1>1. ASSUME NEW q \in Requests
      PROVE  /\ q \in Broken' => q \in Broken /\ q # r
             /\ q \in Once' => q \in Once /\ q # r
             /\ q \in Twice' => q \in Twice /\ q # r
             /\ q \in Unavailable' => q \in Unavailable
  <2>1. CASE q = r
    BY <2>1 DEF OwnStep, Broken, Once, Twice, TimedOut, Unavailable, Direction
  <2>2. CASE q # r
    BY <2>2 DEF OwnStep, Broken, Once, Twice, TimedOut, Unavailable, Direction
  <2> QED
    BY <2>1, <2>2
<1>2. /\ Broken' \subseteq Requests /\ Once' \subseteq Requests
      /\ Twice' \subseteq Requests /\ Unavailable' \subseteq Requests
  BY DEF Broken, Once, Twice, Unavailable
<1> QED
  BY <1>1, <1>2

-----------------------------------------------------------------------------
LEMMA LedgerInit == Init => Ledger
<1> SUFFICES ASSUME Init PROVE Ledger
  OBVIOUS
<1>1. Broken = {} /\ Once = {} /\ Twice = {} /\ Unavailable = {} /\ degraded = {}
  BY DEF Init, Broken, Once, Twice, TimedOut, Unavailable, Direction, Pending, Error
<1>2. OnlyDegraded
  BY DEF Init, OnlyDegraded
<1>3. Finite /\ BrokenPaid /\ TimeoutsPaid
  <2>1. IsFiniteSet({}) /\ Cardinality({}) = 0
    BY FS_EmptySet
  <2>2. faults.timeouts = 0 /\ faults.disconnects = 0
    BY DEF Init
  <2> QED
    BY <1>1, <2>1, <2>2 DEF Finite, BrokenPaid, TimeoutsPaid
<1> QED
  BY <1>2, <1>3, TypeInit DEF Ledger

(* A timeout is entered for its request, the second one as the second. *)
LEMMA TimeOutLedger ==
    ASSUME Ledger, TypeOK', NEW r \in Requests, TimeOut(r)
    PROVE  Ledger'
<1> USE DEF Ledger
<1>1. /\ stage[r] = "sent"
      /\ stage' = [stage EXCEPT ![r] = "served"]
      /\ reply' = [reply EXCEPT ![r] = [NoReply EXCEPT !.status = "timeout"]]
      /\ faults' = [faults EXCEPT !.timeouts = @ + 1]
      /\ UNCHANGED <<memory, retried, answer, degraded>>
  BY DEF TimeOut, Fail
<1>2. faults.timeouts \in Nat /\ faults.disconnects \in Nat
      /\ faults'.timeouts = faults.timeouts + 1 /\ faults'.disconnects = faults.disconnects
  BY <1>1 DEF TypeOK
<1>3. /\ stage'[r] = "served" /\ reply'[r].status = "timeout"
      /\ \A q \in Requests : q # r => stage'[q] = stage[q] /\ reply'[q] = reply[q]
  BY <1>1 DEF TypeOK, NoReply
<1>4. OnlyDegraded' /\ Unavailable' = Unavailable
  BY <1>1 DEF OnlyDegraded, Unavailable, Direction
<1>5. Broken' \subseteq Broken
  BY <1>3 DEF Broken
<1>6. /\ retried[r] => Once' \subseteq Once /\ Twice' \subseteq Twice \cup {r}
      /\ ~retried[r] => Once' \subseteq Once \cup {r} /\ Twice' \subseteq Twice
  BY <1>1, <1>3 DEF Once, Twice, TimedOut
<1>7. /\ IsFiniteSet(Broken') /\ Cardinality(Broken') \in Nat
      /\ Cardinality(Broken) \in Nat /\ Cardinality(Broken') <= Cardinality(Broken)
  BY <1>5, Fewer DEF Finite
<1>8. Cardinality(degraded) \in Nat /\ Cardinality(Unavailable) \in Nat
  BY FS_CardinalityType DEF Finite
<1>9. BrokenPaid'
  BY <1>1, <1>2, <1>7, <1>8 DEF BrokenPaid
<1>10. /\ IsFiniteSet(Once') /\ IsFiniteSet(Twice')
       /\ Cardinality(Once') \in Nat /\ Cardinality(Once) \in Nat
       /\ Cardinality(Twice') \in Nat /\ Cardinality(Twice) \in Nat
       /\ Cardinality(Once') + Cardinality(Twice') <= Cardinality(Once) + Cardinality(Twice) + 1
  <2>1. CASE retried[r]
    <3>1. /\ IsFiniteSet(Once') /\ Cardinality(Once') \in Nat /\ Cardinality(Once) \in Nat
          /\ Cardinality(Once') <= Cardinality(Once)
      BY <1>6, <2>1, Fewer DEF Finite
    <3>2. /\ IsFiniteSet(Twice') /\ Cardinality(Twice') \in Nat /\ Cardinality(Twice) \in Nat
          /\ Cardinality(Twice') <= Cardinality(Twice) + 1
      BY <1>6, <2>1, OneMore DEF Finite
    <3> QED
      BY <3>1, <3>2
  <2>2. CASE ~retried[r]
    <3>1. /\ IsFiniteSet(Once') /\ Cardinality(Once') \in Nat /\ Cardinality(Once) \in Nat
          /\ Cardinality(Once') <= Cardinality(Once) + 1
      BY <1>6, <2>2, OneMore DEF Finite
    <3>2. /\ IsFiniteSet(Twice') /\ Cardinality(Twice') \in Nat /\ Cardinality(Twice) \in Nat
          /\ Cardinality(Twice') <= Cardinality(Twice)
      BY <1>6, <2>2, Fewer DEF Finite
    <3> QED
      BY <3>1, <3>2
  <2> QED
    BY <2>1, <2>2
<1>11. TimeoutsPaid'
  BY <1>2, <1>4, <1>8, <1>10 DEF TimeoutsPaid
<1>12. Finite'
  BY <1>1, <1>4, <1>7, <1>10 DEF Finite
<1> QED
  BY <1>4, <1>9, <1>11, <1>12

(* A connection error is entered for its request. *)
LEMMA DisconnectLedger ==
    ASSUME Ledger, TypeOK', NEW r \in Requests, Disconnect(r)
    PROVE  Ledger'
<1> USE DEF Ledger
<1>1. /\ stage[r] = "sent"
      /\ stage' = [stage EXCEPT ![r] = "served"]
      /\ reply' = [reply EXCEPT ![r] = [NoReply EXCEPT !.status = "connection"]]
      /\ faults' = [faults EXCEPT !.disconnects = @ + 1]
      /\ UNCHANGED <<memory, retried, answer, degraded>>
  BY DEF Disconnect, Fail
<1>2. faults.timeouts \in Nat /\ faults.disconnects \in Nat
      /\ faults'.disconnects = faults.disconnects + 1 /\ faults'.timeouts = faults.timeouts
  BY <1>1 DEF TypeOK
<1>3. /\ stage'[r] = "served" /\ reply'[r].status = "connection"
      /\ \A q \in Requests : q # r => stage'[q] = stage[q] /\ reply'[q] = reply[q]
  BY <1>1 DEF TypeOK, NoReply
<1>4. OnlyDegraded' /\ Unavailable' = Unavailable
  BY <1>1 DEF OnlyDegraded, Unavailable, Direction
<1>5. Broken' \subseteq Broken \cup {r} /\ Once' \subseteq Once /\ Twice' \subseteq Twice
  BY <1>1, <1>3 DEF Broken, Once, Twice, TimedOut
<1>6. /\ IsFiniteSet(Broken') /\ Cardinality(Broken') \in Nat
      /\ Cardinality(Broken) \in Nat /\ Cardinality(Broken') <= Cardinality(Broken) + 1
  BY <1>5, OneMore DEF Finite
<1>7. /\ IsFiniteSet(Once') /\ Cardinality(Once') \in Nat
      /\ Cardinality(Once) \in Nat /\ Cardinality(Once') <= Cardinality(Once)
  BY <1>5, Fewer DEF Finite
<1>8. /\ IsFiniteSet(Twice') /\ Cardinality(Twice') \in Nat
      /\ Cardinality(Twice) \in Nat /\ Cardinality(Twice') <= Cardinality(Twice)
  BY <1>5, Fewer DEF Finite
<1>9. Cardinality(degraded) \in Nat /\ Cardinality(Unavailable) \in Nat
  BY FS_CardinalityType DEF Finite
<1>10. BrokenPaid' /\ TimeoutsPaid'
  BY <1>1, <1>2, <1>4, <1>6, <1>7, <1>8, <1>9 DEF BrokenPaid, TimeoutsPaid
<1>11. Finite'
  BY <1>1, <1>4, <1>6, <1>7, <1>8 DEF Finite
<1> QED
  BY <1>4, <1>10, <1>11

(* A worker that switches to memory takes a broken connection off. *)
LEMMA DegradeLedger ==
    ASSUME Ledger, TypeOK', NEW r \in Requests, Degrade(r)
    PROVE  Ledger'
<1> USE DEF Ledger
<1>1. /\ stage[r] = "served" /\ reply[r].status = "connection"
      /\ degraded' = degraded \cup {Worker(r)}
      /\ Continue(r, Remembered(r), Remembered(r) = None)
      /\ faults' = faults /\ UNCHANGED reply
  BY DEF Degrade
<1>2. /\ Broken' \subseteq Broken \ {r}
      /\ Once' \subseteq Once /\ Twice' \subseteq Twice /\ Unavailable' \subseteq Unavailable
  BY <1>1, ContinueOwn, OwnAccounts
<1>3. r \in Broken
  BY <1>1 DEF Broken
<1>4. OnlyDegraded'
  <2>1. \A w \in Workers : w # Worker(r) => memory'[w] = memory[w]
    BY DEF Degrade, TypeOK
  <2> QED
    BY <1>1, <2>1 DEF OnlyDegraded
<1>5. faults.timeouts \in Nat /\ faults.disconnects \in Nat
  BY DEF TypeOK
<1>6. /\ IsFiniteSet(Broken') /\ Cardinality(Broken') \in Nat
      /\ Cardinality(Broken) \in Nat /\ Cardinality(Broken') + 1 <= Cardinality(Broken)
  BY <1>2, <1>3, OneLess DEF Finite
<1>7. /\ IsFiniteSet(degraded') /\ Cardinality(degraded') \in Nat
      /\ Cardinality(degraded) \in Nat /\ Cardinality(degraded') <= Cardinality(degraded) + 1
  BY <1>1, OneMore DEF Finite
<1>8. /\ IsFiniteSet(Once') /\ Cardinality(Once') \in Nat
      /\ Cardinality(Once) \in Nat /\ Cardinality(Once') <= Cardinality(Once)
  BY <1>2, Fewer DEF Finite
<1>9. /\ IsFiniteSet(Twice') /\ Cardinality(Twice') \in Nat
      /\ Cardinality(Twice) \in Nat /\ Cardinality(Twice') <= Cardinality(Twice)
  BY <1>2, Fewer DEF Finite
<1>10. /\ IsFiniteSet(Unavailable') /\ Cardinality(Unavailable') \in Nat
       /\ Cardinality(Unavailable) \in Nat
       /\ Cardinality(Unavailable') <= Cardinality(Unavailable)
  BY <1>2, Fewer DEF Finite
<1>11. BrokenPaid' /\ TimeoutsPaid'
  BY <1>1, <1>5, <1>6, <1>7, <1>8, <1>9, <1>10 DEF BrokenPaid, TimeoutsPaid
<1>12. Finite'
  BY <1>6, <1>7, <1>8, <1>9, <1>10 DEF Finite
<1> QED
  BY <1>4, <1>11, <1>12

(* A 503 takes two timeouts off. *)
LEMMA GiveUpLedger ==
    ASSUME Ledger, TypeOK', NEW r \in Requests, GiveUp(r)
    PROVE  Ledger'
<1> USE DEF Ledger
<1>1. /\ stage[r] = "served" /\ reply[r].status = "timeout" /\ retried[r]
      /\ stage' = [stage EXCEPT ![r] = "answered"]
      /\ answer' = [answer EXCEPT ![r] = Error("store_unavailable")]
      /\ UNCHANGED <<memory, retried, reply, degraded, faults>>
  BY DEF GiveUp, Respond
<1>2. r \in Once /\ r \in Twice
  BY <1>1 DEF Once, Twice, TimedOut
<1>3. /\ stage'[r] = "answered"
      /\ \A q \in Requests : q # r => stage'[q] = stage[q] /\ answer'[q] = answer[q]
  BY <1>1 DEF TypeOK
<1>4. /\ Broken' \subseteq Broken /\ Once' \subseteq Once \ {r} /\ Twice' \subseteq Twice \ {r}
      /\ Unavailable' \subseteq Unavailable \cup {r}
  BY <1>1, <1>3 DEF Broken, Once, Twice, TimedOut, Unavailable, Direction
<1>5. OnlyDegraded'
  BY <1>1 DEF OnlyDegraded
<1>6. faults.timeouts \in Nat /\ faults.disconnects \in Nat
  BY DEF TypeOK
<1>7. /\ IsFiniteSet(Broken') /\ Cardinality(Broken') \in Nat
      /\ Cardinality(Broken) \in Nat /\ Cardinality(Broken') <= Cardinality(Broken)
  BY <1>4, Fewer DEF Finite
<1>8. /\ IsFiniteSet(Once') /\ Cardinality(Once') \in Nat
      /\ Cardinality(Once) \in Nat /\ Cardinality(Once') + 1 <= Cardinality(Once)
  BY <1>2, <1>4, OneLess DEF Finite
<1>9. /\ IsFiniteSet(Twice') /\ Cardinality(Twice') \in Nat
      /\ Cardinality(Twice) \in Nat /\ Cardinality(Twice') + 1 <= Cardinality(Twice)
  BY <1>2, <1>4, OneLess DEF Finite
<1>10. /\ IsFiniteSet(Unavailable') /\ Cardinality(Unavailable') \in Nat
       /\ Cardinality(Unavailable) \in Nat
       /\ Cardinality(Unavailable') <= Cardinality(Unavailable) + 1
  BY <1>4, OneMore DEF Finite
<1>11. Cardinality(degraded) \in Nat
  BY FS_CardinalityType DEF Finite
<1>12. BrokenPaid' /\ TimeoutsPaid'
  BY <1>1, <1>6, <1>7, <1>8, <1>9, <1>10, <1>11 DEF BrokenPaid, TimeoutsPaid
<1>13. Finite'
  BY <1>1, <1>7, <1>8, <1>9, <1>10 DEF Finite
<1> QED
  BY <1>5, <1>12, <1>13

-----------------------------------------------------------------------------
LEMMA ArriveLedger ==
    ASSUME Ledger, TypeOK', NEW r \in Requests, NEW w \in Workers, NEW k \in Keys,
           NEW s \in Systems, NEW t \in Texts, Arrive(r, w, k, s, t)
    PROVE  Ledger'
<1>1. UNCHANGED <<memory, reply, degraded, faults>>
  BY DEF Arrive
<1>2. OwnStep(r)
  <2>1. CASE s \in Enabled
    <3>1. Send(r, "get")
      BY <2>1 DEF Arrive
    <3> QED
      BY <1>1, <3>1, SendOwn DEF Ledger
  <2>2. CASE s \notin Enabled
    <3>1. Respond(r, Error("system_not_allowed"))
      BY <2>2 DEF Arrive
    <3>2. Error("system_not_allowed").direction # "store_unavailable"
      BY DEF Error
    <3> QED
      BY <1>1, <3>1, <3>2, RespondOwn DEF Ledger
  <2> QED
    BY <2>1, <2>2
<1>3. faults.timeouts \in Nat /\ faults.disconnects \in Nat
  BY DEF Ledger, TypeOK
<1> QED
  BY <1>1, <1>2, <1>3, OwnAccounts, QuietStep

LEMMA LedgerStep == Ledger /\ [Next]_vars => Ledger'
<1> SUFFICES ASSUME Ledger, [Next]_vars PROVE Ledger'
  OBVIOUS
<1> USE DEF Ledger
<1>1. TypeOK'
  BY TypeStep
<1>2. faults.timeouts \in Nat /\ faults.disconnects \in Nat
  BY DEF TypeOK
<1>3. ASSUME NEW r \in Requests, Serve(r)
      PROVE  Ledger'
  <2>1. /\ stage[r] = "sent" /\ reply'[r].status = "ok" /\ stage'[r] = "served"
        /\ \A q \in Requests : q # r => stage'[q] = stage[q] /\ reply'[q] = reply[q]
        /\ UNCHANGED <<memory, retried, answer, degraded, faults>>
    BY <1>3 DEF Serve, TypeOK
  <2>2. /\ Broken' \subseteq Broken /\ Once' \subseteq Once /\ Twice' \subseteq Twice
        /\ Unavailable' \subseteq Unavailable
    BY <2>1 DEF Broken, Once, Twice, TimedOut, Unavailable, Direction
  <2> QED
    BY <1>1, <1>2, <2>1, <2>2, QuietStep
<1>4. ASSUME NEW r \in Requests, Resend(r)
      PROVE  Ledger'
  <2>1. /\ UNCHANGED <<memory, stage, retried, reply, answer, degraded>>
        /\ faults' = [faults EXCEPT !.timeouts = @ + 1]
    BY <1>4 DEF Resend
  <2>2. faults'.timeouts >= faults.timeouts /\ faults'.disconnects >= faults.disconnects
    BY <1>2, <2>1 DEF TypeOK
  <2>3. /\ Broken' = Broken /\ Once' = Once /\ Twice' = Twice /\ Unavailable' = Unavailable
    BY <2>1 DEF Broken, Once, Twice, TimedOut, Unavailable, Direction
  <2> QED
    BY <1>1, <2>1, <2>2, <2>3, QuietStep
<1>5. ASSUME NEW r \in Requests, ReplyArrives(r)
      PROVE  Ledger'
  <2>1. /\ Continue(r, Found(r), reply[r].created)
        /\ UNCHANGED <<memory, reply, degraded, faults>>
    BY <1>5 DEF ReplyArrives
  <2> QED
    BY <1>1, <1>2, <2>1, ContinueOwn, OwnAccounts, QuietStep
<1>6. ASSUME NEW r \in Requests, RetryAfterTimeout(r)
      PROVE  Ledger'
  <2>1. /\ TimedOut(r) /\ stage'[r] = "sent"
        /\ \A q \in Requests : q # r => stage'[q] = stage[q] /\ retried'[q] = retried[q]
        /\ UNCHANGED <<memory, reply, answer, degraded, faults>>
    BY <1>6 DEF RetryAfterTimeout, TimedOut, TypeOK
  <2>2. /\ Broken' \subseteq Broken /\ Once' \subseteq Once /\ Twice' \subseteq Twice
        /\ Unavailable' = Unavailable
    BY <2>1 DEF Broken, Once, Twice, TimedOut, Unavailable, Direction
  <2> QED
    BY <1>1, <1>2, <2>1, <2>2, QuietStep
<1>7. ASSUME NEW c \in late, RunLate(c)
      PROVE  Ledger'
  <2>1. UNCHANGED <<memory, stage, retried, reply, answer, degraded, faults>>
    BY <1>7 DEF RunLate
  <2>2. /\ Broken' = Broken /\ Once' = Once /\ Twice' = Twice /\ Unavailable' = Unavailable
    BY <2>1 DEF Broken, Once, Twice, TimedOut, Unavailable, Direction
  <2> QED
    BY <1>1, <1>2, <2>1, <2>2, QuietStep
<1>8. ASSUME NEW k \in Keys, LoseRedis(k) \/ \E w \in Workers : LoseMemory(w, k)
      PROVE  Ledger'
  <2>1. /\ UNCHANGED <<stage, retried, reply, answer, degraded>>
        /\ faults' = [faults EXCEPT !.losses = @ + 1]
    BY <1>8 DEF LoseRedis, LoseMemory
  <2>2. faults'.timeouts >= faults.timeouts /\ faults'.disconnects >= faults.disconnects
    BY <1>2, <2>1 DEF TypeOK
  <2>3. \A v \in Workers, j \in Keys : memory'[v][j] # None => memory[v][j] # None
    BY <1>8 DEF LoseRedis, LoseMemory, TypeOK
  <2>4. /\ Broken' = Broken /\ Once' = Once /\ Twice' = Twice /\ Unavailable' = Unavailable
    BY <2>1 DEF Broken, Once, Twice, TimedOut, Unavailable, Direction
  <2> QED
    BY <1>1, <2>1, <2>2, <2>3, <2>4, QuietStep
<1>9. ASSUME NEW w \in Workers, Restart(w)
      PROVE  Ledger'
  <2>1. /\ UNCHANGED <<retried, reply, answer, degraded>>
        /\ faults' = [faults EXCEPT !.restarts = @ + 1]
        /\ memory' = [memory EXCEPT ![w] = [k \in Keys |-> None]]
        /\ \A q \in Requests : stage'[q] \in {stage[q], "aborted"}
    BY <1>9 DEF Restart
  <2>2. faults'.timeouts >= faults.timeouts /\ faults'.disconnects >= faults.disconnects
    BY <1>2, <2>1 DEF TypeOK
  <2>3. \A v \in Workers, j \in Keys : memory'[v][j] # None => memory[v][j] # None
    BY <2>1 DEF TypeOK
  <2>4. /\ Broken' \subseteq Broken /\ Once' \subseteq Once /\ Twice' \subseteq Twice
        /\ Unavailable' = Unavailable
    BY <2>1 DEF Broken, Once, Twice, TimedOut, Unavailable, Direction
  <2> QED
    BY <1>1, <2>1, <2>2, <2>3, <2>4, QuietStep
<1>10. CASE UNCHANGED vars
  <2>1. UNCHANGED <<memory, stage, retried, reply, answer, degraded, faults>>
    BY <1>10 DEF vars
  <2>2. /\ Broken' = Broken /\ Once' = Once /\ Twice' = Twice /\ Unavailable' = Unavailable
    BY <2>1 DEF Broken, Once, Twice, TimedOut, Unavailable, Direction
  <2> QED
    BY <1>1, <1>2, <2>1, <2>2, QuietStep
<1>11. CASE Next
  <2>1. ASSUME NEW r \in Requests, Step(r)
        PROVE  Ledger'
    BY <1>1, <1>3, <1>4, <1>5, <1>6, <2>1, ArriveLedger, TimeOutLedger, DisconnectLedger,
       DegradeLedger, GiveUpLedger DEF Step, Resume
  <2>2. CASE Environment
    BY <1>7, <1>8, <1>9, <2>2 DEF Environment
  <2> QED
    BY <1>11, <2>1, <2>2 DEF Next
<1> QED
  BY <1>10, <1>11

(* FallbackStore takes a timeout for a busy Redis: memory is used only     *)
(* after a connection error, workers degrade no more often than            *)
(* connections break, and a 503 costs two timeouts.                        *)
THEOREM TimeoutsCorrect == Spec => []TimeoutsNeverDegrade
<1>1. Ledger => TimeoutsNeverDegrade
  <2> SUFFICES ASSUME Ledger PROVE TimeoutsNeverDegrade
    OBVIOUS
  <2>1. /\ Cardinality(degraded) \in Nat /\ Cardinality(Broken) \in Nat
        /\ Cardinality(Unavailable) \in Nat /\ Cardinality(Once) \in Nat
        /\ Cardinality(Twice) \in Nat
    BY FS_CardinalityType DEF Ledger, Finite
  <2>2. faults.timeouts \in Nat /\ faults.disconnects \in Nat
    BY DEF Ledger, TypeOK
  <2>3. Unavailable = {r \in Requests : Direction(r) = "store_unavailable"}
    BY DEF Unavailable
  <2>4. Cardinality(degraded) <= faults.disconnects
    BY <2>1, <2>2 DEF Ledger, BrokenPaid
  <2>5. 2 * Cardinality(Unavailable) <= faults.timeouts
    BY <2>1, <2>2 DEF Ledger, TimeoutsPaid
  <2> QED
    BY <2>3, <2>4, <2>5 DEF Ledger, OnlyDegraded, TimeoutsNeverDegrade
<1> QED
  BY <1>1, LedgerInit, LedgerStep, PTL DEF Spec

-----------------------------------------------------------------------------
(* Clients that use a payload_id for one text.                             *)


(* The record of the text that key k is used for, made for some system. *)
Clean(k, rec) ==
    \E t \in Texts, s \in Systems : <<k, t>> \in Originals /\ rec = NewRecord(t, s)

Kept(r) == redis[Key(r)]

IsOriginal(r) == <<Key(r), Payload(r)>> \in Originals

(* The text of its key, or something that came of the mask that is kept. *)
Entitled(r) ==
    \/ IsOriginal(r)
    \/ Kept(r) # None /\ Payload(r) \in Echoes(Kept(r).masked)

(* A running operation: nobody overwrites, only the text of the key is     *)
(* written, and who lost the race for the key knows that it has a record.  *)
Pursued(r) ==
    /\ op[r] # "put"
    /\ op[r] = "put_if_absent" => IsOriginal(r)
    /\ op[r] = "reget" => Kept(r) # None

(* A reply on its way: what it says of a record is what Redis still says.  *)
Truthful(r) ==
    /\ reply[r].status \in {"ok", "timeout"}
    /\ reply[r].record \in {None, Kept(r)}
    /\ reply[r].status = "ok" =>
          /\ op[r] = "get" /\ reply[r].record = None => IsOriginal(r)
          /\ op[r] = "put_if_absent" =>
                IF reply[r].created THEN Kept(r) = OwnRecord(r) ELSE Kept(r) # None
          /\ op[r] = "reget" => reply[r].record # None

(* An answer is an error, what the record says, or the mask in it. *)
Settled(r) ==
    \/ Direction(r) \in {"store_unavailable", "system_not_allowed"}
    \/ Kept(r) # None /\ answer[r] = Verdict(Payload(r), Kept(r), System(r))
    \/ Kept(r) = OwnRecord(r) /\ answer[r] = OwnMask(r)

Orderly(r) ==
    stage[r] # "idle" =>
       /\ Entitled(r)
       /\ Running(r) => Pursued(r)
       /\ Served(r) => Truthful(r)
       /\ Answered(r) => Settled(r)

CleanStores ==
    /\ \A k \in Keys : redis[k] # None => Clean(k, redis[k])
    /\ \A w \in Workers, k \in Keys : memory[w][k] = None
    /\ \A c \in late : c.op = "put_if_absent" /\ Clean(c.key, c.record)

OneTextInv == TypeOK /\ CleanStores /\ \A r \in Requests : Orderly(r)

RecordsKept == \A k \in Keys : redis[k] # None => redis'[k] = redis[k]

-----------------------------------------------------------------------------
(* Who is entitled is never taken for a client with another text. *)
LEMMA NeverNewText ==
    ASSUME OneTextDiscipline, OneTextInv, NEW r \in Requests, stage[r] # "idle",
           Kept(r) # None
    PROVE  Verdict(Payload(r), Kept(r), System(r)).direction
              \in {"unmask", "mask_retry", "unmask_fragments", "unmask_forbidden"}
<1> USE DEF OneTextInv
<1>1. Key(r) \in Keys /\ Payload(r) \in Texts /\ System(r) \in Systems
  BY InputType
<1>2. PICK t \in Texts, s \in Systems : <<Key(r), t>> \in Originals
                                        /\ Kept(r) = NewRecord(t, s)
  BY <1>1 DEF CleanStores, Clean, Kept
<1>3. /\ Kept(r).original = t /\ Kept(r).masked = MaskOf(t, s)
      /\ Kept(r).fragments = FragmentsOf(t, s)
  BY <1>2 DEF NewRecord
<1>4. Entitled(r)
  BY DEF Orderly
<1>5. CASE IsOriginal(r)
  <2>1. Payload(r) = t
    BY <1>1, <1>2, <1>5 DEF OneTextDiscipline, IsOriginal
  <2> QED
    BY <1>3, <2>1 DEF Verdict, Error
<1>6. CASE Payload(r) \in Echoes(MaskOf(t, s))
  <2>1. \/ Payload(r) = MaskOf(t, s)
        \/ UnmaskFragments(Payload(r), FragmentsOf(t, s)).replaced
    BY <1>2, <1>1, <1>6 DEF OneTextDiscipline
  <2> QED
    BY <1>3, <2>1 DEF Verdict, Error
<1> QED
  BY <1>3, <1>4, <1>5, <1>6 DEF Entitled

(* Nothing that is known of a request depends on more than the record of   *)
(* its key, which stays.                                                   *)
LEMMA StaysOrderly ==
    ASSUME OneTextInv, [Next]_vars, RecordsKept, NEW q \in Requests,
           \/ stage'[q] = stage[q]
           \/ stage[q] # "idle" /\ stage'[q] = "aborted",
           Running(q) => op'[q] = op[q],
           Served(q) => reply'[q] = reply[q],
           Answered(q) => answer'[q] = answer[q]
    PROVE  Orderly(q)'
<1> USE DEF OneTextInv
<1> SUFFICES ASSUME stage'[q] # "idle"
             PROVE  /\ Entitled(q)' /\ (Running(q)' => Pursued(q)')
                    /\ (Served(q)' => Truthful(q)') /\ (Answered(q)' => Settled(q)')
  BY DEF Orderly
<1>1. stage[q] # "idle"
  OBVIOUS
<1>2. /\ Key(q)' = Key(q) /\ Payload(q)' = Payload(q) /\ System(q)' = System(q)
      /\ Key(q) \in Keys
  BY <1>1, Frame, InputType
<1>3. Kept(q) # None => Kept(q)' = Kept(q)
  BY <1>2 DEF RecordsKept, Kept
<1>4. IsOriginal(q)' = IsOriginal(q) /\ OwnRecord(q)' = OwnRecord(q)
      /\ OwnMask(q)' = OwnMask(q)
  BY <1>2 DEF IsOriginal, OwnRecord, OwnMask
<1>5. OwnRecord(q) # None
  BY <1>1, InputType, RecordsAssumption
<1>6. Entitled(q)'
  BY <1>1, <1>2, <1>3, <1>4 DEF Orderly, Entitled
<1>7. ASSUME Running(q)' PROVE Pursued(q)'
  <2>1. Running(q) /\ op'[q] = op[q] /\ Pursued(q)
    BY <1>1, <1>7 DEF Running, Orderly
  <2> QED
    BY <1>3, <1>4, <2>1 DEF Pursued
<1>8. ASSUME Served(q)' PROVE Truthful(q)'
  <2>1. Served(q) /\ Running(q) /\ op'[q] = op[q] /\ reply'[q] = reply[q] /\ Truthful(q)
    BY <1>1, <1>8 DEF Served, Running, Orderly
  <2> QED
    BY <1>3, <1>4, <1>5, <2>1 DEF Truthful
<1>9. ASSUME Answered(q)' PROVE Settled(q)'
  <2>1. Answered(q) /\ answer'[q] = answer[q] /\ Settled(q)
    BY <1>1, <1>9 DEF Answered, Orderly
  <2> QED
    BY <1>2, <1>3, <1>4, <1>5, <2>1 DEF Settled, Direction
<1> QED
  BY <1>6, <1>7, <1>8, <1>9

-----------------------------------------------------------------------------
(* A record that is there is neither overwritten nor lost. *)
LEMMA ExecuteKeeps ==
    ASSUME NEW map \in [Keys -> Cell], NEW o, o # "put", NEW k \in Keys,
           NEW rec \in MappingRecord
    PROVE  /\ \A j \in Keys : map[j] # None => Execute(map, o, k, rec)[j] = map[j]
           /\ o = "put_if_absent" /\ map[k] = None => Execute(map, o, k, rec)[k] = rec
           /\ o # "put_if_absent" => Execute(map, o, k, rec) = map
  BY DEF Execute, PutIfAbsent, Put, Cell

LEMMA KeepsRecords ==
    ASSUME OneTextDiscipline, OneTextInv, [Next]_vars
    PROVE  RecordsKept
<1> USE DEF OneTextInv
<1>1. redis \in [Keys -> Cell]
  BY DEF TypeOK, Cell
<1>2. ASSUME NEW r \in Requests, Serve(r)
      PROVE  RecordsKept
  <2>1. op[r] # "put"
    BY <1>2 DEF Serve, Orderly, Running, Pursued
  <2>2. Key(r) \in Keys /\ OwnRecord(r) \in MappingRecord
    BY <1>2, InputType DEF Serve
  <2>3. redis' = Execute(redis, op[r], Key(r), OwnRecord(r))
    BY <1>2 DEF Serve
  <2> QED
    BY <1>1, <2>1, <2>2, <2>3, ExecuteKeeps DEF RecordsKept
<1>3. ASSUME NEW c \in late, RunLate(c)
      PROVE  RecordsKept
  <2>1. c.op # "put" /\ c.key \in Keys /\ c.record \in MappingRecord
    BY DEF CleanStores, TypeOK, Commands
  <2>2. redis' = Execute(redis, c.op, c.key, c.record)
    BY <1>3 DEF RunLate
  <2> QED
    BY <1>1, <2>1, <2>2, ExecuteKeeps DEF RecordsKept
<1>4. ASSUME NEW k \in Keys
      PROVE  ~LoseRedis(k)
  BY DEF LoseRedis, OneTextDiscipline, TypeOK
<1>5. ASSUME redis' = redis
      PROVE  RecordsKept
  BY <1>5 DEF RecordsKept
<1>6. CASE UNCHANGED vars
  BY <1>5, <1>6 DEF vars
<1>7. ASSUME NEW r \in Requests, Step(r)
      PROVE  RecordsKept
  BY <1>2, <1>5, <1>7 DEF Step, Arrive, TimeOut, Disconnect, Fail, Resend, Resume,
                          ReplyArrives, RetryAfterTimeout, GiveUp, Degrade
<1>8. CASE Environment
  BY <1>3, <1>4, <1>5, <1>8 DEF Environment, LoseMemory, Restart
<1> QED
  BY <1>6, <1>7, <1>8 DEF Next

(* What a request with a store operation under way would write is the text *)
(* of its key.                                                             *)
LEMMA WritesClean ==
    ASSUME OneTextInv, NEW r \in Requests, Running(r), op[r] \in Writes
    PROVE  op[r] = "put_if_absent" /\ Clean(Key(r), OwnRecord(r))
<1> USE DEF OneTextInv
<1>1. op[r] = "put_if_absent" /\ IsOriginal(r)
  BY DEF Orderly, Pursued, Running, Writes
<1>2. Payload(r) \in Texts /\ System(r) \in Systems
  BY InputType DEF Running
<1> QED
  BY <1>1, <1>2 DEF IsOriginal, Clean, OwnRecord

LEMMA StoresStep ==
    ASSUME OneTextDiscipline, OneTextInv, [Next]_vars
    PROVE  CleanStores'
<1> USE DEF OneTextInv
<1> DEFINE RedisGoes == \/ redis' = redis
                        \/ \E k \in Keys, o \in Ops : \E rec \in MappingRecord :
                              /\ (o \in Writes => Clean(k, rec))
                              /\ redis' = Execute(redis, o, k, rec)
           LateGoes  == \A c \in late' : \/ c \in late
                                         \/ \E r \in Requests : Running(r) /\ c \in Abandoned(r)
           Quiet     == RedisGoes /\ memory' = memory /\ LateGoes
<1>1. redis \in [Keys -> Cell]
  BY DEF TypeOK, Cell
<1>2. ASSUME NEW r \in Requests, NEW w \in Workers, NEW k \in Keys,
             NEW s \in Systems, NEW t \in Texts, Arrive(r, w, k, s, t)
      PROVE  Quiet
  BY <1>2 DEF Arrive
<1>3. ASSUME NEW r \in Requests, Serve(r)
      PROVE  Quiet
  <2>1. Key(r) \in Keys /\ OwnRecord(r) \in MappingRecord /\ op[r] \in Ops
    BY <1>3, InputType DEF Serve, TypeOK
  <2>2. op[r] \in Writes => Clean(Key(r), OwnRecord(r))
    BY <1>3, WritesClean DEF Serve, Running
  <2> QED
    BY <1>3, <2>1, <2>2 DEF Serve
<1>4. ASSUME NEW r \in Requests, TimeOut(r) \/ Disconnect(r) \/ Resend(r)
      PROVE  Quiet
  BY <1>4 DEF TimeOut, Disconnect, Resend, Fail, Running
<1>5. ASSUME NEW r \in Requests, Resume(r)
      PROVE  Quiet
  <2>1. ~Degrade(r)
    BY DEF Degrade, Orderly, Truthful, Served
  <2> QED
    BY <1>5, <2>1 DEF Resume, ReplyArrives, RetryAfterTimeout, GiveUp
<1>6. ASSUME NEW c \in late, RunLate(c)
      PROVE  Quiet
  <2>1. c.key \in Keys /\ c.record \in MappingRecord /\ c.op \in Ops /\ Clean(c.key, c.record)
    BY DEF TypeOK, Commands, CleanStores, Writes, Ops
  <2> QED
    BY <1>6, <2>1 DEF RunLate
<1>7. ASSUME NEW w \in Workers, Restart(w)
      PROVE  Quiet
  <2>1. memory' = memory
    BY <1>7 DEF Restart, CleanStores, TypeOK
  <2> QED
    BY <1>7, <2>1 DEF Restart
<1>8. ASSUME NEW k \in Keys
      PROVE  ~LoseRedis(k) /\ \A w \in Workers : ~LoseMemory(w, k)
  BY DEF LoseRedis, LoseMemory, OneTextDiscipline, TypeOK
<1>9. ASSUME UNCHANGED vars
      PROVE  Quiet
  <2>1. redis' = redis /\ memory' = memory /\ late' = late
    BY <1>9 DEF vars
  <2> QED
    BY <2>1
<1>10. Quiet
  <2> HIDE DEF Quiet
  <2> QED
    BY <1>2, <1>3, <1>4, <1>5, <1>6, <1>7, <1>8, <1>9 DEF Next, Step, Environment
<1>11. \A k \in Keys : redis'[k] # None => Clean(k, redis'[k])
  <2>1. CASE redis' = redis
    BY <2>1 DEF CleanStores
  <2>2. ASSUME NEW k \in Keys, NEW o \in Ops, NEW rec \in MappingRecord,
               o \in Writes => Clean(k, rec), redis' = Execute(redis, o, k, rec),
               NEW j \in Keys, redis'[j] # None
        PROVE  Clean(j, redis'[j])
    <3>1. CASE o \in Writes
      <4>1. \/ redis'[j] = redis[j]
            \/ j = k /\ redis'[j] = rec
        BY <1>1, <2>2, ExecuteType
      <4> QED
        BY <2>2, <3>1, <4>1 DEF CleanStores
    <3>2. CASE o \notin Writes
      BY <2>2, <3>2 DEF Execute, Writes, CleanStores
    <3> QED
      BY <3>1, <3>2
  <2> QED
    BY <1>10, <2>1, <2>2
<1>12. \A c \in late' : c.op = "put_if_absent" /\ Clean(c.key, c.record)
  <2>1. ASSUME NEW r \in Requests, Running(r), NEW c \in Abandoned(r)
        PROVE  c.op = "put_if_absent" /\ Clean(c.key, c.record)
    BY <2>1, WritesClean DEF Abandoned, LateCommand
  <2> QED
    BY <1>10, <2>1 DEF CleanStores
<1> QED
  BY <1>10, <1>11, <1>12 DEF CleanStores, Clean

-----------------------------------------------------------------------------
(* The request that moves: what it is entitled to stays, and its new state *)
(* has to be shown orderly.                                                *)
LEMMA MovesOrderly ==
    ASSUME OneTextInv, [Next]_vars, RecordsKept, NEW r \in Requests,
           stage[r] # "idle"
    PROVE  /\ Key(r)' = Key(r) /\ Payload(r)' = Payload(r) /\ System(r)' = System(r)
           /\ Key(r) \in Keys /\ OwnRecord(r) \in MappingRecord /\ OwnRecord(r) # None
           /\ IsOriginal(r)' = IsOriginal(r) /\ OwnRecord(r)' = OwnRecord(r)
           /\ OwnMask(r)' = OwnMask(r)
           /\ Kept(r) # None => Kept(r)' = Kept(r)
           /\ Entitled(r) /\ Entitled(r)'
<1> USE DEF OneTextInv
<1>1. /\ Key(r)' = Key(r) /\ Payload(r)' = Payload(r) /\ System(r)' = System(r)
      /\ Key(r) \in Keys /\ OwnRecord(r) \in MappingRecord /\ OwnRecord(r) # None
  BY Frame, InputType, RecordsAssumption
<1>2. Kept(r) # None => Kept(r)' = Kept(r)
  BY <1>1 DEF RecordsKept, Kept
<1>3. IsOriginal(r)' = IsOriginal(r) /\ OwnRecord(r)' = OwnRecord(r)
      /\ OwnMask(r)' = OwnMask(r)
  BY <1>1 DEF IsOriginal, OwnRecord, OwnMask
<1>4. Entitled(r) /\ Entitled(r)'
  BY <1>1, <1>2, <1>3 DEF Orderly, Entitled
<1> QED
  BY <1>1, <1>2, <1>3, <1>4

LEMMA ArriveOrderly ==
    ASSUME OneTextInv, [Next]_vars, RecordsKept,
           NEW r \in Requests, NEW w \in Workers, NEW k \in Keys,
           NEW s \in Systems, NEW t \in Texts, Arrive(r, w, k, s, t)
    PROVE  Orderly(r)'
<1> USE DEF OneTextInv
<1>1. /\ Key(r)' = k /\ Payload(r)' = t /\ redis' = redis
      /\ Submittable(k, t)
  BY DEF Arrive, TypeOK, Key, Payload
<1>2. Entitled(r)'
  <2>1. CASE <<k, t>> \in Originals
    BY <1>1, <2>1 DEF Entitled, IsOriginal
  <2>2. ASSUME NEW q \in Requests, stage[q] = "answered", Key(q) = k,
               answer[q].direction \in {"mask", "mask_retry"},
               t \in Echoes(answer[q].result)
        PROVE  Entitled(r)'
    <3>1. Settled(q) /\ OwnRecord(q) # None
      BY <2>2, InputType, RecordsAssumption DEF Orderly, Answered
    <3>2. Kept(q) # None /\ answer[q].result = Kept(q).masked
      BY <2>2, <3>1 DEF Settled, Direction, Verdict, Error, OwnMask, OwnRecord, Masked,
                        NewRecord
    <3> QED
      BY <1>1, <2>2, <3>2 DEF Entitled, Kept
  <2> QED
    BY <1>1, <2>1, <2>2 DEF Submittable
<1>3. CASE s \in Enabled
  <2>1. Send(r, "get")
    BY <1>3 DEF Arrive
  <2>2. stage'[r] = "sent" /\ op'[r] = "get"
    BY <2>1 DEF Send, TypeOK
  <2> QED
    BY <1>2, <2>2 DEF Orderly, Running, Served, Answered, Pursued
<1>4. CASE s \notin Enabled
  <2>1. Respond(r, Error("system_not_allowed"))
    BY <1>4 DEF Arrive
  <2>2. stage'[r] = "answered" /\ answer'[r] = Error("system_not_allowed")
    BY <2>1 DEF Respond, TypeOK
  <2> QED
    BY <1>2, <2>2 DEF Orderly, Running, Served, Answered, Settled, Direction, Error
<1> QED
  BY <1>3, <1>4

LEMMA ServeOrderly ==
    ASSUME OneTextInv, [Next]_vars, RecordsKept, NEW r \in Requests, Serve(r)
    PROVE  Orderly(r)'
<1> USE DEF OneTextInv
<1>1. stage[r] = "sent" /\ stage'[r] = "served" /\ op'[r] = op[r]
      /\ op[r] \in Ops /\ Pursued(r)
  <2>1. stage[r] = "sent" /\ stage'[r] = "served" /\ op'[r] = op[r] /\ op[r] \in Ops
    BY DEF Serve, TypeOK
  <2> QED
    BY <2>1 DEF Orderly, Running
<1>2. reply'[r] = [status  |-> "ok",
                   record  |-> IF op[r] \in Writes THEN None ELSE Kept(r),
                   created |-> op[r] = "put_if_absent" /\ Kept(r) = None]
  BY DEF Serve, TypeOK, Kept
<1>3. /\ Key(r)' = Key(r) /\ Key(r) \in Keys
      /\ OwnRecord(r) \in MappingRecord /\ OwnRecord(r) # None
      /\ IsOriginal(r)' = IsOriginal(r) /\ OwnRecord(r)' = OwnRecord(r)
      /\ Kept(r) # None => Kept(r)' = Kept(r)
      /\ Entitled(r) /\ Entitled(r)'
  BY <1>1, MovesOrderly
<1>4. redis' = Execute(redis, op[r], Key(r), OwnRecord(r)) /\ redis \in [Keys -> Cell]
  BY DEF Serve, TypeOK, Cell
<1>5. /\ op[r] = "put_if_absent" /\ Kept(r) = None => Kept(r)' = OwnRecord(r)
      /\ op[r] # "put_if_absent" => Kept(r)' = Kept(r)
  BY <1>1, <1>3, <1>4, ExecuteKeeps DEF Kept, Pursued
<1>6. Pursued(r)'
  BY <1>1, <1>3 DEF Pursued
<1>7. Truthful(r)'
  <2>1. CASE op[r] = "put_if_absent"
    <3>1. /\ reply'[r].status = "ok" /\ reply'[r].record = None
      BY <1>2, <2>1 DEF Writes
    <3>3. reply'[r].created = (op[r] = "put_if_absent" /\ Kept(r) = None)
      BY <1>2
    <3>2. IF reply'[r].created THEN Kept(r)' = OwnRecord(r) ELSE Kept(r)' # None
      BY <1>3, <1>5, <2>1, <3>3
    <3> QED
      BY <1>1, <1>3, <2>1, <3>1, <3>2 DEF Truthful
  <2>2. CASE op[r] # "put_if_absent"
    <3>1. op[r] \in {"get", "reget"}
      BY <1>1, <2>2 DEF Pursued, Ops
    <3>2. reply'[r].status = "ok" /\ reply'[r].record = Kept(r) /\ Kept(r)' = Kept(r)
      BY <1>2, <1>5, <3>1 DEF Writes
    <3> QED
      BY <1>1, <1>3, <3>1, <3>2 DEF Truthful, Pursued, Entitled
  <2> QED
    BY <2>1, <2>2
<1> QED
  BY <1>1, <1>3, <1>6, <1>7 DEF Orderly, Running, Answered

LEMMA TimeOutOrderly ==
    ASSUME OneTextInv, [Next]_vars, RecordsKept, NEW r \in Requests, TimeOut(r)
    PROVE  Orderly(r)'
<1> USE DEF OneTextInv
<1>1. /\ stage[r] = "sent" /\ stage'[r] = "served" /\ op'[r] = op[r]
      /\ reply'[r].status = "timeout" /\ reply'[r].record = None
      /\ Pursued(r)
  BY DEF TimeOut, Fail, NoReply, TypeOK, Orderly, Running
<1>2. Entitled(r)' /\ Pursued(r)'
  BY <1>1, MovesOrderly DEF Pursued
<1> QED
  BY <1>1, <1>2 DEF Orderly, Running, Answered, Truthful

LEMMA RetryOrderly ==
    ASSUME OneTextInv, [Next]_vars, RecordsKept, NEW r \in Requests,
           RetryAfterTimeout(r)
    PROVE  Orderly(r)'
<1> USE DEF OneTextInv
<1>1. /\ stage[r] = "served" /\ stage'[r] = "sent" /\ op'[r] = op[r] /\ Pursued(r)
  BY DEF RetryAfterTimeout, TypeOK, Orderly, Running
<1>2. Entitled(r)' /\ Pursued(r)'
  BY <1>1, MovesOrderly DEF Pursued
<1> QED
  BY <1>1, <1>2 DEF Orderly, Running, Served, Answered

LEMMA GiveUpOrderly ==
    ASSUME OneTextInv, [Next]_vars, RecordsKept, NEW r \in Requests, GiveUp(r)
    PROVE  Orderly(r)'
<1> USE DEF OneTextInv
<1>1. /\ stage[r] = "served" /\ stage'[r] = "answered"
      /\ answer'[r] = Error("store_unavailable")
  BY DEF GiveUp, Respond, TypeOK
<1>2. Entitled(r)'
  BY <1>1, MovesOrderly
<1> QED
  BY <1>1, <1>2 DEF Orderly, Running, Served, Answered, Settled, Direction, Error

(* The processor goes on with what Redis told it. *)
LEMMA ReplyOrderly ==
    ASSUME OneTextDiscipline, OneTextInv, [Next]_vars, RecordsKept,
           NEW r \in Requests, ReplyArrives(r)
    PROVE  Orderly(r)'
<1> USE DEF OneTextInv
<1>1. /\ stage[r] = "served" /\ Served(r) /\ op[r] \in Ops
      /\ reply[r].status = "ok" /\ UNCHANGED <<redis, input, reply>>
      /\ Continue(r, Found(r), reply[r].created)
  BY DEF ReplyArrives, Served, TypeOK
<1>2. Truthful(r) /\ Pursued(r)
  BY <1>1 DEF Orderly, Served, Running
<1>3. Found(r) = reply[r].record
  BY <1>1, InputType DEF Found, Remembered, CleanStores
<1>4. /\ Key(r)' = Key(r) /\ Payload(r)' = Payload(r) /\ System(r)' = System(r)
      /\ IsOriginal(r)' = IsOriginal(r) /\ OwnRecord(r)' = OwnRecord(r)
      /\ OwnMask(r)' = OwnMask(r) /\ Kept(r)' = Kept(r)
      /\ Entitled(r)'
  BY <1>1, MovesOrderly DEF Kept
<1>5. ASSUME NEW o \in Ops, o # "put", Send(r, o),
             o = "put_if_absent" => IsOriginal(r),
             o = "reget" => Kept(r) # None
      PROVE  Orderly(r)'
  <2>1. stage'[r] = "sent" /\ op'[r] = o
    BY <1>5 DEF Send, TypeOK
  <2> QED
    BY <1>4, <1>5, <2>1 DEF Orderly, Served, Answered, Pursued
<1>6. ASSUME Respond(r, OwnMask(r)), Kept(r) = OwnRecord(r)
      PROVE  Orderly(r)'
  <2>1. stage'[r] = "answered" /\ answer'[r] = OwnMask(r)
    BY <1>6 DEF Respond, TypeOK
  <2> QED
    BY <1>4, <1>6, <2>1 DEF Orderly, Running, Served, Settled
<1>7. CASE op[r] \in {"get", "reget"} /\ reply[r].record # None
  <2> DEFINE verdict == Verdict(Payload(r), Kept(r), System(r))
  <2>1. Kept(r) # None /\ Found(r) = Kept(r)
    BY <1>2, <1>3, <1>7 DEF Truthful
  <2>2. verdict.direction # "new_text"
    BY <1>1, <2>1, NeverNewText
  <2>3. AnswerFrom(r, Kept(r))
    BY <1>1, <1>7, <2>1 DEF Continue, AfterGet
  <2>4. Respond(r, verdict)
    BY <2>2, <2>3 DEF AnswerFrom
  <2> HIDE DEF verdict
  <2>5. stage'[r] = "answered" /\ answer'[r] = verdict
    BY <2>4 DEF Respond, TypeOK
  <2> QED
    BY <1>4, <2>1, <2>5 DEF Orderly, Running, Served, Settled, verdict
<1>8. CASE op[r] \in {"get", "reget"} /\ reply[r].record = None
  <2>1. op[r] = "get" /\ IsOriginal(r)
    BY <1>1, <1>2, <1>8 DEF Truthful
  <2>2. Send(r, "put_if_absent")
    BY <1>1, <1>3, <1>8, <2>1 DEF Continue, AfterGet
  <2> QED
    BY <1>5, <2>1, <2>2 DEF Ops
<1>9. CASE op[r] = "put_if_absent"
  <2>1. AfterPutIfAbsent(r, reply[r].created)
    BY <1>1, <1>9 DEF Continue
  <2>2. CASE reply[r].created
    BY <1>1, <1>2, <1>6, <1>9, <2>1, <2>2 DEF Truthful, AfterPutIfAbsent
  <2>3. CASE ~reply[r].created
    BY <1>1, <1>2, <1>5, <1>9, <2>1, <2>3 DEF Truthful, AfterPutIfAbsent, Ops
  <2> QED
    BY <2>2, <2>3
<1> QED
  BY <1>1, <1>2, <1>7, <1>8, <1>9 DEF Pursued, Ops

LEMMA OrderlyStep ==
    ASSUME OneTextDiscipline, OneTextInv, [Next]_vars
    PROVE  \A q \in Requests : Orderly(q)'
<1> USE DEF OneTextInv
<1>1. RecordsKept
  BY KeepsRecords
<1> SUFFICES ASSUME NEW q \in Requests
             PROVE  Orderly(q)'
  OBVIOUS
<1> DEFINE Unmoved == /\ stage'[q] = stage[q] /\ op'[q] = op[q]
                      /\ reply'[q] = reply[q] /\ answer'[q] = answer[q]
<1>2. ASSUME Unmoved
      PROVE  Orderly(q)'
  <2>1. /\ stage'[q] = stage[q] /\ op'[q] = op[q]
        /\ reply'[q] = reply[q] /\ answer'[q] = answer[q]
    BY <1>2
  <2> QED
    BY <1>1, <2>1, StaysOrderly
<1>3. ASSUME NEW r \in Requests, Step(r), r # q
      PROVE  Unmoved
  <2>1. ASSUME (\E o : Send(r, o)) \/ (\E a : Respond(r, a))
        PROVE  stage'[q] = stage[q] /\ op'[q] = op[q] /\ answer'[q] = answer[q]
    BY <1>3, <2>1 DEF Send, Respond, TypeOK
  <2>2. ASSUME NEW w \in Workers, NEW k \in Keys, NEW s \in Systems, NEW t \in Texts,
               Arrive(r, w, k, s, t)
        PROVE  Unmoved
    BY <2>1, <2>2 DEF Arrive
  <2>3. CASE Serve(r) \/ TimeOut(r) \/ Disconnect(r) \/ Resend(r)
    BY <1>3, <2>3 DEF Serve, TimeOut, Disconnect, Resend, Fail, TypeOK
  <2>4. ASSUME NEW found, NEW created, Continue(r, found, created)
        PROVE  stage'[q] = stage[q] /\ op'[q] = op[q] /\ answer'[q] = answer[q]
    <3>1. op[r] \in Ops
      BY DEF TypeOK
    <3> QED
      BY <2>1, <2>4, <3>1, ContinueCases
  <2>5. CASE ReplyArrives(r) \/ Degrade(r)
    BY <2>4, <2>5 DEF ReplyArrives, Degrade
  <2>6. CASE RetryAfterTimeout(r) \/ GiveUp(r)
    BY <1>3, <2>6 DEF RetryAfterTimeout, GiveUp, Respond, TypeOK
  <2> HIDE DEF Unmoved
  <2> QED
    BY <1>3, <2>2, <2>3, <2>5, <2>6 DEF Step, Resume
<1>4. ASSUME Step(q)
      PROVE  Orderly(q)'
  <2>1. ~Disconnect(q)
    BY DEF Disconnect, Fail, OneTextDiscipline, TypeOK
  <2>2. ~Degrade(q)
    BY DEF Degrade, Orderly, Truthful, Served
  <2>3. CASE Resend(q)
    BY <1>2, <2>3 DEF Resend
  <2> QED
    BY <1>1, <1>4, <2>1, <2>2, <2>3, ArriveOrderly, ServeOrderly, TimeOutOrderly,
       RetryOrderly, GiveUpOrderly, ReplyOrderly DEF Step, Resume
<1>5. CASE Environment
  <2>1. ASSUME NEW w \in Workers, Restart(w)
        PROVE  Orderly(q)'
    <3>1. /\ \/ stage'[q] = stage[q]
             \/ stage[q] # "idle" /\ stage'[q] = "aborted"
          /\ op'[q] = op[q] /\ reply'[q] = reply[q] /\ answer'[q] = answer[q]
      BY <2>1 DEF Restart, Running
    <3> QED
      BY <1>1, <3>1, StaysOrderly
  <2>2. ASSUME NEW c \in late, RunLate(c)
        PROVE  Orderly(q)'
    BY <1>2, <2>2 DEF RunLate
  <2>3. ASSUME NEW k \in Keys, LoseRedis(k) \/ \E w \in Workers : LoseMemory(w, k)
        PROVE  Orderly(q)'
    BY <1>2, <2>3 DEF LoseRedis, LoseMemory
  <2> QED
    BY <1>5, <2>1, <2>2, <2>3 DEF Environment
<1>6. CASE UNCHANGED vars
  BY <1>2, <1>6 DEF vars
<1> QED
  BY <1>2, <1>3, <1>4, <1>5, <1>6 DEF Next

LEMMA OneTextInit == Init => OneTextInv
  BY TypeInit DEF Init, OneTextInv, CleanStores, Orderly

LEMMA OneTextInvariance ==
    ASSUME OneTextDiscipline
    PROVE  Spec => []OneTextInv
<1>1. OneTextInv /\ [Next]_vars => OneTextInv'
  BY TypeStep, StoresStep, OrderlyStep DEF OneTextInv
<1> QED
  BY <1>1, OneTextInit, PTL DEF Spec

(* What was answered to a masking request is what Redis keeps. *)
LEMMA MaskingKept ==
    ASSUME OneTextInv, NEW r \in Requests, IsMasking(r)
    PROVE  /\ Key(r) \in Keys /\ Kept(r) # None /\ Clean(Key(r), Kept(r))
           /\ Kept(r).masked = Result(r) /\ Kept(r).original = Payload(r)
           /\ Direction(r) = "mask" => Kept(r) = OwnRecord(r)
<1> USE DEF OneTextInv
<1>1. Settled(r) /\ Key(r) \in Keys /\ OwnRecord(r) # None
  BY InputType, RecordsAssumption DEF IsMasking, Answered, Orderly
<1>2. CASE Kept(r) # None /\ answer[r] = Verdict(Payload(r), Kept(r), System(r))
  BY <1>1, <1>2 DEF IsMasking, Direction, Result, Verdict, Error, CleanStores, Kept
<1>3. CASE Kept(r) = OwnRecord(r) /\ answer[r] = OwnMask(r)
  <2>1. Kept(r).masked = Result(r) /\ Kept(r).original = Payload(r)
    BY <1>3 DEF Result, OwnRecord, OwnMask, NewRecord, Masked
  <2> QED
    BY <1>1, <1>3, <2>1 DEF CleanStores, Kept
<1> QED
  BY <1>1, <1>2, <1>3 DEF Settled, IsMasking

(* An answered mask stays in Redis with its text, so every answer to that  *)
(* text carries one and the same mask, through timeouts, repeated and late *)
(* commands and restarts of workers.                                       *)
THEOREM MasksStored ==
    ASSUME OneTextDiscipline
    PROVE  Spec => []AnsweredMaskIsStored
<1>1. OneTextInv => AnsweredMaskIsStored
  BY MaskingKept DEF AnsweredMaskIsStored, Kept
<1> QED
  BY <1>1, OneTextInvariance, PTL

(* A mask that was answered is turned back into its text. *)
THEOREM MasksReversed ==
    ASSUME OneTextDiscipline
    PROVE  Spec => []RoundTrip
<1>1. OneTextInv => RoundTrip
  <2> SUFFICES ASSUME OneTextInv, NEW r \in Requests, NEW q \in Requests,
                      IsMasking(q), Answered(r), Key(r) = Key(q),
                      Payload(r) = Result(q), Payload(r) # Payload(q),
                      System(r) \in Unmaskers
               PROVE  \/ Direction(r) = "unmask" /\ Result(r) = Payload(q)
                      \/ Direction(r) \in {"store_unavailable", "system_not_allowed"}
    BY DEF RoundTrip
  <2>1. /\ Kept(r) # None /\ Kept(r).masked = Payload(r)
        /\ Kept(r).original = Payload(q) /\ Settled(r)
    BY MaskingKept DEF Kept, OneTextInv, Orderly, Answered
  <2>2. Kept(r) # OwnRecord(r)
    BY <2>1 DEF OwnRecord, NewRecord
  <2> QED
    BY <2>1, <2>2 DEF Settled, Verdict, Direction, Result
<1> QED
  BY <1>1, OneTextInvariance, PTL

(* A reply that carries labels of an answered mask is restored. *)
THEOREM RepliesAreRestored ==
    ASSUME OneTextDiscipline
    PROVE  Spec => []RepliesRestored
<1>1. OneTextInv => RepliesRestored
  <2> SUFFICES ASSUME OneTextInv, NEW r \in Requests, NEW q \in Requests,
                      IsMasking(q), Direction(q) = "mask",
                      Answered(r), Key(r) = Key(q), System(r) \in Unmaskers,
                      UnmaskFragments(Payload(r), OwnRecord(q).fragments).replaced,
                      Payload(r) # Result(q)
               PROVE  \/ /\ Direction(r) = "unmask_fragments"
                         /\ Result(r) =
                               UnmaskFragments(Payload(r), OwnRecord(q).fragments).text
                      \/ Direction(r) \in {"store_unavailable", "system_not_allowed"}
    BY DEF RepliesRestored
  <2>1. /\ Kept(r) # None /\ Kept(r) = OwnRecord(q) /\ Clean(Key(r), Kept(r))
        /\ Kept(r).masked # Payload(r) /\ Settled(r) /\ Key(r) \in Keys
    BY MaskingKept DEF Kept, OneTextInv, Orderly, Answered
  <2>2. Payload(r) # Kept(r).original
    BY <2>1 DEF Clean, NewRecord, OneTextDiscipline
  <2>3. Kept(r) # OwnRecord(r)
    BY <2>2 DEF OwnRecord, NewRecord
  <2> QED
    BY <2>1, <2>2, <2>3 DEF Settled, Verdict, Direction, Result
<1> QED
  BY <1>1, OneTextInvariance, PTL

(* The first record of a key is the last: no step overwrites it, neither a *)
(* late nor a repeated command.                                            *)
THEOREM RecordsWrittenOnce ==
    ASSUME OneTextDiscipline
    PROVE  Spec => WrittenOnce
<1>1. OneTextInv /\ [Next]_vars => [\A k \in Keys : redis[k] # None => redis'[k] = redis[k]]_vars
  BY KeepsRecords DEF RecordsKept
<1> QED
  BY <1>1, OneTextInvariance, PTL DEF Spec, WrittenOnce
=============================================================================
