-------------------------- MODULE WorkerAdmission ---------------------------
(***************************************************************************)
(* What one worker lets in, and the Redis connections it needs for it:     *)
(* InflightLimitMiddleware (app/api/limiter.py) in front of the handlers,  *)
(* the connection pool that RedisStore asks for max_connections            *)
(* (app/storage/redis_store.py), the /ready probe that goes past the limit *)
(* (app/api/service.py), and a client that repeats a request answered 429  *)
(* (load/k6_process.js).                                                   *)
(*                                                                         *)
(* The event loop runs the code between two awaits as one step, so the     *)
(* test of the counter and its increment cannot be separated.              *)
(***************************************************************************)
EXTENDS Naturals, FiniteSets

CONSTANTS
    Requests,         \* requests to /process
    Probes,           \* requests to /ready, which bypass the limit
    MaxInflight,      \* max_inflight
    MaxConnections,   \* redis_max_connections
    MaxRetries        \* how often a client repeats a request after a 429

ASSUME AdmissionAssumption ==
    /\ IsFiniteSet(Requests) /\ IsFiniteSet(Probes)
    /\ Requests \cap Probes = {}
    /\ MaxInflight \in Nat /\ MaxConnections \in Nat /\ MaxRetries \in Nat

Calls == Requests \cup Probes

VARIABLES
    inflight,   \* InflightLimitMiddleware._inflight
    phase,      \* where each call is
    tries,      \* how often each request has been repeated
    starved     \* calls that found every connection of the pool taken

vars == <<inflight, phase, tries, starved>>

Phases    == {"new", "running", "connected", "rejected", "finished"}
Inside    == {r \in Requests : phase[r] \in {"running", "connected"}}
Connected == {c \in Calls : phase[c] = "connected"}

Init ==
    /\ inflight = 0
    /\ phase = [c \in Calls |-> "new"]
    /\ tries = [r \in Requests |-> 0]
    /\ starved = {}

MoveTo(c, p) == phase' = [phase EXCEPT ![c] = p]

-----------------------------------------------------------------------------
(* MUTANT of Enter: one request too many. *)
EnterOneMore(r) ==
    /\ phase[r] = "new"
    /\ IF inflight > MaxInflight
       THEN MoveTo(r, "rejected") /\ UNCHANGED inflight
       ELSE MoveTo(r, "running") /\ inflight' = inflight + 1
    /\ UNCHANGED <<tries, starved>>

(* __call__ for /process: 429 at the limit, otherwise into the handler. *)
Enter(r) ==
    /\ phase[r] = "new"
    /\ IF inflight >= MaxInflight
       THEN MoveTo(r, "rejected") /\ UNCHANGED inflight
       ELSE MoveTo(r, "running") /\ inflight' = inflight + 1
    /\ UNCHANGED <<tries, starved>>

(* __call__ for any other path. *)
Pass(p) ==
    /\ phase[p] = "new"
    /\ MoveTo(p, "running")
    /\ UNCHANGED <<inflight, tries, starved>>

(* A command takes a connection of the pool; a pool with none left raises  *)
(* a ConnectionError: FallbackStore degrades, ping says False.             *)
Connect(c) ==
    /\ phase[c] = "running"
    /\ IF Cardinality(Connected) < MaxConnections
       THEN MoveTo(c, "connected") /\ UNCHANGED starved
       ELSE starved' = starved \cup {c} /\ UNCHANGED phase
    /\ UNCHANGED <<inflight, tries>>

Disconnect(c) ==
    /\ phase[c] = "connected"
    /\ MoveTo(c, "running")
    /\ UNCHANGED <<inflight, tries, starved>>

(* The handler returns. *)
Finish(c) ==
    /\ phase[c] = "running"
    /\ MoveTo(c, "finished")
    /\ inflight' = IF c \in Requests THEN inflight - 1 ELSE inflight
    /\ UNCHANGED <<tries, starved>>

(* MUTANT of Fail: every failing call gives back a place, admitted or not. *)
FailFreesAnyPlace(c) ==
    /\ phase[c] \in {"running", "connected"}
    /\ MoveTo(c, "finished")
    /\ inflight' = inflight - 1
    /\ UNCHANGED <<tries, starved>>

(* MUTANT of Fail: the counter is not restored when the handler raises. *)
FailWithoutFinally(c) ==
    /\ phase[c] \in {"running", "connected"}
    /\ MoveTo(c, "finished")
    /\ UNCHANGED <<inflight, tries, starved>>

(* The handler raises or is cancelled, perhaps while it awaits a command:  *)
(* the finally clauses give the connection and the place back.             *)
Fail(c) ==
    /\ phase[c] \in {"running", "connected"}
    /\ MoveTo(c, "finished")
    /\ inflight' = IF c \in Requests THEN inflight - 1 ELSE inflight
    /\ UNCHANGED <<tries, starved>>

(* The client waits for Retry-After and sends the request again. *)
Repeat(r) ==
    /\ phase[r] = "rejected" /\ tries[r] < MaxRetries
    /\ MoveTo(r, "new")
    /\ tries' = [tries EXCEPT ![r] = @ + 1]
    /\ UNCHANGED <<inflight, starved>>

Next ==
    \/ \E r \in Requests : Enter(r) \/ Repeat(r)
    \/ \E p \in Probes : Pass(p)
    \/ \E c \in Calls : Connect(c) \/ Disconnect(c) \/ Finish(c) \/ Fail(c)

Spec == Init /\ [][Next]_vars

-----------------------------------------------------------------------------
(* Every variable stays in its range. *)
TypeOK ==
    /\ inflight \in Nat
    /\ phase \in [Calls -> Phases]
    /\ tries \in [Requests -> Nat]
    /\ starved \subseteq Calls

(* The counter is the number of requests inside the handler, whichever way *)
(* they leave it, and never exceeds the limit.                             *)
CounterExact == inflight = Cardinality(Inside) /\ inflight <= MaxInflight

(* A request is turned away only while max_inflight others are being       *)
(* handled: no place is ever lost to a handler that failed.                *)
RejectedOnlyWhenFull ==
    [][\A r \in Requests :
          phase[r] = "new" /\ phase'[r] = "rejected" =>
             Cardinality(Inside) = MaxInflight]_vars

(* With room in the pool for every admitted request and every probe, a     *)
(* healthy Redis is never taken for a dead one.                            *)
PoolSuffices ==
    MaxInflight + Cardinality(Probes) <= MaxConnections => starved = {}
=============================================================================
