--------------------------- MODULE ProcessService ---------------------------
(***************************************************************************)
(* POST /process on several workers that share one Redis.                  *)
(*                                                                         *)
(* A request runs Processor.process (app/core/processor.py) over           *)
(* FallbackStore (app/storage/fallback.py), which calls RedisStore         *)
(* (app/storage/redis_store.py) first and, on a connection error, the      *)
(* MemoryStore of the worker the request runs in (app/storage/memory.py).  *)
(*                                                                         *)
(* A worker is one asyncio event loop, so the code between two awaits of a *)
(* Redis command is one atomic step.  A Redis command is three steps: the  *)
(* request sends it, Redis executes it (or the client library gives up),   *)
(* and the request resumes with a reply that may be stale by then.         *)
(***************************************************************************)
EXTENDS MappingRecords, Naturals, FiniteSets

CONSTANTS
    Workers,          \* uvicorn worker processes
    Requests,         \* HTTP requests; each is sent once
    Originals,        \* <<payload_id, text>> pairs the clients may submit
    Echoes(_),        \* texts a client may derive from a mask it was given
    MaxTimeouts,      \* bound: commands that time out or are sent again
    MaxDisconnects,   \* bound: commands that end in a connection error
    MaxLosses,        \* bound: records lost to expiry, eviction or a restart
    MaxRestarts       \* bound: worker restarts

(* What a request carries, and the worker that accepts it. *)
Inputs == [worker: Workers, key: Keys, system: Systems, payload: Texts]

ASSUME ServiceAssumption ==
    /\ None \notin Inputs
    /\ Originals \subseteq Keys \X Texts
    /\ \A t \in Texts : Echoes(t) \subseteq Texts
    /\ MaxTimeouts \in Nat /\ MaxDisconnects \in Nat
    /\ MaxLosses \in Nat /\ MaxRestarts \in Nat

VARIABLES
    redis,      \* the shared store: a record or None for every key
    memory,     \* each worker's MemoryStore
    late,       \* commands given up by their sender that Redis may still run
    input,      \* what each request carries
    stage,      \* where each request is
    op,         \* the store operation each request is in
    retried,    \* whether that operation is in its second attempt
    reply,      \* what the current command came back with
    answer,     \* the outcome of each request
    degraded,   \* workers that have switched to their memory at least once
    faults      \* how many faults of each kind have happened

stores == <<redis, memory, late>>
vars == <<redis, memory, late, input, stage, op, retried, reply, answer,
          degraded, faults>>

-----------------------------------------------------------------------------
Stages  == {"idle", "sent", "served", "answered", "aborted"}
Ops     == {"get", "put_if_absent", "reget", "put"}
Writes  == {"put_if_absent", "put"}
Replies == [status: {"ok", "timeout", "connection"},
            record: MappingRecord \cup {None}, created: BOOLEAN]
Commands == [sender: Requests, second: BOOLEAN, op: Writes, key: Keys,
             record: MappingRecord]
NoReply == [status |-> "ok", record |-> None, created |-> FALSE]

Worker(r)  == input[r].worker
Key(r)     == input[r].key
Payload(r) == input[r].payload
System(r)  == input[r].system
Running(r) == stage[r] \in {"sent", "served"}

(* The record _mask builds for the request's own text. *)
OwnRecord(r) == NewRecord(Payload(r), System(r))
OwnMask(r)   == Masked(Payload(r), System(r))

(* A client knows its own texts, the masks it was answered with and what   *)
(* the echoes of those masks are (the reply of an LLM that was sent one).  *)
Submittable(k, t) ==
    \/ <<k, t>> \in Originals
    \/ \E r \in Requests :
          /\ stage[r] = "answered" /\ Key(r) = k
          /\ answer[r].direction \in {"mask", "mask_retry"}
          /\ t \in Echoes(answer[r].result)

-----------------------------------------------------------------------------
(* The contract of the MappingStore protocol, on one map from keys to      *)
(* records.                                                                *)
OverwritingPut(map, k, rec) == [map EXCEPT ![k] = rec]     \* MUTANT: SET without NX
PutIfAbsent(map, k, rec) == IF map[k] = None THEN [map EXCEPT ![k] = rec] ELSE map
Put(map, k, rec)         == [map EXCEPT ![k] = rec]
Execute(map, o, k, rec)  ==
    CASE o = "put_if_absent" -> PutIfAbsent(map, k, rec)
      [] o = "put"           -> Put(map, k, rec)
      [] OTHER               -> map

Init ==
    /\ redis = [k \in Keys |-> None]
    /\ memory = [w \in Workers |-> [k \in Keys |-> None]]
    /\ late = {}
    /\ input = [r \in Requests |-> None]
    /\ stage = [r \in Requests |-> "idle"]
    /\ op = [r \in Requests |-> "get"]
    /\ retried = [r \in Requests |-> FALSE]
    /\ reply = [r \in Requests |-> NoReply]
    /\ answer = [r \in Requests |-> Pending]
    /\ degraded = {}
    /\ faults = [timeouts |-> 0, disconnects |-> 0, losses |-> 0, restarts |-> 0]

-----------------------------------------------------------------------------
(* The request awaits the first attempt of store operation o. *)
Send(r, o) ==
    /\ stage' = [stage EXCEPT ![r] = "sent"]
    /\ op' = [op EXCEPT ![r] = o]
    /\ retried' = [retried EXCEPT ![r] = FALSE]
    /\ UNCHANGED answer

Respond(r, outcome) ==
    /\ stage' = [stage EXCEPT ![r] = "answered"]
    /\ answer' = [answer EXCEPT ![r] = outcome]
    /\ UNCHANGED <<op, retried>>

(* process() of app/api/process.py: a system that is unknown or disabled   *)
(* is refused; otherwise Processor.process reads the record of the key.    *)
Arrive(r, w, k, s, t) ==
    /\ stage[r] = "idle"
    /\ Submittable(k, t)
    /\ input' = [input EXCEPT ![r] = [worker |-> w, key |-> k, system |-> s,
                                      payload |-> t]]
    /\ IF s \in Enabled THEN Send(r, "get")
                        ELSE Respond(r, Error("system_not_allowed"))
    /\ UNCHANGED <<redis, memory, late, reply, degraded, faults>>

-----------------------------------------------------------------------------
(* Redis executes the command of r and its reply is on the way back. *)
Serve(r) ==
    /\ stage[r] = "sent"
    /\ stage' = [stage EXCEPT ![r] = "served"]
    /\ reply' = [reply EXCEPT ![r] =
                   [status  |-> "ok",
                    record  |-> IF op[r] \in Writes THEN None ELSE redis[Key(r)],
                    created |-> op[r] = "put_if_absent" /\ redis[Key(r)] = None]]
    /\ redis' = Execute(redis, op[r], Key(r), OwnRecord(r))
    /\ UNCHANGED <<memory, late, input, op, retried, answer, degraded, faults>>

(* The command of r ends in an error although Redis may still execute it:  *)
(* a write joins the late commands.                                        *)
LateCommand(r) ==
    [sender |-> r, second |-> retried[r], op |-> op[r], key |-> Key(r),
     record |-> OwnRecord(r)]
Abandoned(r) == IF op[r] \in Writes THEN {LateCommand(r)} ELSE {}

Fail(r, status, kind, bound) ==
    /\ stage[r] = "sent"
    /\ faults[kind] < bound
    /\ faults' = [faults EXCEPT ![kind] = @ + 1]
    /\ stage' = [stage EXCEPT ![r] = "served"]
    /\ reply' = [reply EXCEPT ![r] = [NoReply EXCEPT !.status = status]]
    /\ late' = late \cup Abandoned(r)
    /\ UNCHANGED <<redis, memory, input, op, retried, answer, degraded>>

TimeOut(r)    == Fail(r, "timeout", "timeouts", MaxTimeouts)
Disconnect(r) == Fail(r, "connection", "disconnects", MaxDisconnects)

(* redis-py loses the reply, or the connection, and sends the command once *)
(* more by itself (requirements.txt allows versions that retry by default).*)
Resend(r) ==
    /\ stage[r] = "sent"
    /\ faults.timeouts < MaxTimeouts
    /\ faults' = [faults EXCEPT !.timeouts = @ + 1]
    /\ late' = late \cup Abandoned(r)
    /\ UNCHANGED <<redis, memory, input, stage, op, retried, reply, answer,
                   degraded>>

RunLate(c) ==
    /\ redis' = Execute(redis, c.op, c.key, c.record)
    /\ late' = late \ {c}
    /\ UNCHANGED <<memory, input, stage, op, retried, reply, answer, degraded,
                   faults>>

-----------------------------------------------------------------------------
(* Processor.process and _existing after an await: the store operation of  *)
(* r returned found (a record or None) or created (put_if_absent).         *)
AnswerFrom(r, rec) ==
    LET verdict == Verdict(Payload(r), rec, System(r))
    IN  IF verdict.direction = "new_text" THEN Send(r, "put")
                                          ELSE Respond(r, verdict)

AfterGet(r, found) ==
    CASE found # None       -> AnswerFrom(r, found)
      [] found = None /\ op[r] = "get"   -> Send(r, "put_if_absent")
      [] found = None /\ op[r] = "reget" -> Respond(r, OwnMask(r))

(* MUTANT of AfterPutIfAbsent: the result of put_if_absent is ignored. *)
IgnoreLostRace(r, created) == Respond(r, OwnMask(r))

AfterPutIfAbsent(r, created) ==
    IF created THEN Respond(r, OwnMask(r)) ELSE Send(r, "reget")

AfterPut(r) == Respond(r, OwnMask(r))

Continue(r, found, created) ==
    CASE op[r] \in {"get", "reget"} -> AfterGet(r, found)
      [] op[r] = "put_if_absent"    -> AfterPutIfAbsent(r, created)
      [] op[r] = "put"              -> AfterPut(r)

(* MUTANT of Remembered: the memory is not looked up by key. *)
RememberedAnyKey(r) ==
    LET held == {k \in Keys : memory[Worker(r)][k] # None}
    IN  IF held = {} THEN None ELSE memory[Worker(r)][CHOOSE k \in held : TRUE]

(* What the worker's own memory holds for the key of r. *)
Remembered(r) == memory[Worker(r)][Key(r)]

(* What a read returns.  A key that Redis does not hold is looked up in    *)
(* memory, but not after a retry: _handle_error returns what Redis says.   *)
Found(r) ==
    IF reply[r].record = None /\ ~retried[r] THEN Remembered(r)
                                             ELSE reply[r].record

(* FallbackStore: the primary replied. *)
ReplyArrives(r) ==
    /\ stage[r] = "served" /\ reply[r].status = "ok"
    /\ Continue(r, Found(r), reply[r].created)
    /\ UNCHANGED <<redis, memory, late, input, reply, degraded, faults>>

(* MUTANT of RetryAfterTimeout: a timeout switches to memory, as a         *)
(* connection error does.                                                  *)
SwitchOnTimeout(r) ==
    /\ stage[r] = "served" /\ reply[r].status = "timeout" /\ ~retried[r]
    /\ memory' = [memory EXCEPT ![Worker(r)] =
                    Execute(@, op[r], Key(r), OwnRecord(r))]
    /\ Continue(r, Remembered(r), Remembered(r) = None)
    /\ UNCHANGED <<redis, late, input, reply, degraded, faults>>

(* _handle_error, first timeout: the same command once more. *)
RetryAfterTimeout(r) ==
    /\ stage[r] = "served" /\ reply[r].status = "timeout" /\ ~retried[r]
    /\ stage' = [stage EXCEPT ![r] = "sent"]
    /\ retried' = [retried EXCEPT ![r] = TRUE]
    /\ UNCHANGED <<redis, memory, late, input, op, reply, answer, degraded,
                   faults>>

(* MUTANT of GiveUp: the second timeout of a write is not answered. *)
GiveUpOnReads(r) ==
    /\ stage[r] = "served" /\ reply[r].status = "timeout" /\ retried[r]
    /\ op[r] \notin Writes
    /\ Respond(r, Error("store_unavailable"))
    /\ UNCHANGED <<redis, memory, late, input, reply, degraded, faults>>

(* _handle_error, second timeout: StoreUnavailableError, status 503. *)
GiveUp(r) ==
    /\ stage[r] = "served" /\ reply[r].status = "timeout" /\ retried[r]
    /\ Respond(r, Error("store_unavailable"))
    /\ UNCHANGED <<redis, memory, late, input, reply, degraded, faults>>

(* _handle_error, connection error: the operation runs on the memory of    *)
(* the worker and the processor continues with its result.                 *)
Degrade(r) ==
    /\ stage[r] = "served" /\ reply[r].status = "connection"
    /\ memory' = [memory EXCEPT ![Worker(r)] =
                    Execute(@, op[r], Key(r), OwnRecord(r))]
    /\ degraded' = degraded \cup {Worker(r)}
    /\ Continue(r, Remembered(r), Remembered(r) = None)
    /\ UNCHANGED <<redis, late, input, reply, faults>>

-----------------------------------------------------------------------------
(* Redis drops a record: TTL, volatile-ttl eviction, or a Redis restart. *)
LoseRedis(k) ==
    /\ redis[k] # None
    /\ faults.losses < MaxLosses
    /\ redis' = [redis EXCEPT ![k] = None]
    /\ faults' = [faults EXCEPT !.losses = @ + 1]
    /\ UNCHANGED <<memory, late, input, stage, op, retried, reply, answer,
                   degraded>>

(* A MemoryStore drops a record: TTL or max_items. *)
LoseMemory(w, k) ==
    /\ memory[w][k] # None
    /\ faults.losses < MaxLosses
    /\ memory' = [memory EXCEPT ![w][k] = None]
    /\ faults' = [faults EXCEPT !.losses = @ + 1]
    /\ UNCHANGED <<redis, late, input, stage, op, retried, reply, answer,
                   degraded>>

(* A worker process is replaced: its memory is empty, its requests break   *)
(* off and commands they had sent may still reach Redis.                   *)
Restart(w) ==
    LET lost == {r \in Requests : Running(r) /\ Worker(r) = w}
    IN  /\ faults.restarts < MaxRestarts
        /\ faults' = [faults EXCEPT !.restarts = @ + 1]
        /\ memory' = [memory EXCEPT ![w] = [k \in Keys |-> None]]
        /\ stage' = [r \in Requests |-> IF r \in lost THEN "aborted" ELSE stage[r]]
        /\ late' = late \cup UNION {Abandoned(r) : r \in {q \in lost : stage[q] = "sent"}}
        /\ UNCHANGED <<redis, input, op, retried, reply, answer, degraded>>

-----------------------------------------------------------------------------
Resume(r) == ReplyArrives(r) \/ RetryAfterTimeout(r) \/ GiveUp(r) \/ Degrade(r)

Step(r) ==
    \/ \E w \in Workers, k \in Keys, s \in Systems, t \in Texts :
          Arrive(r, w, k, s, t)
    \/ Serve(r) \/ TimeOut(r) \/ Disconnect(r) \/ Resend(r)
    \/ Resume(r)

Environment ==
    \/ \E c \in late : RunLate(c)
    \/ \E k \in Keys : LoseRedis(k)
    \/ \E w \in Workers, k \in Keys : LoseMemory(w, k)
    \/ \E w \in Workers : Restart(w)

Next == (\E r \in Requests : Step(r)) \/ Environment

Spec == Init /\ [][Next]_vars

(* A command ends (socket_timeout) and the event loop resumes every request *)
(* whose command has ended.                                                 *)
Fairness ==
    \A r \in Requests : WF_vars(Serve(r) \/ TimeOut(r) \/ Disconnect(r))
                        /\ WF_vars(Resume(r))
FairSpec == Spec /\ Fairness
=============================================================================
