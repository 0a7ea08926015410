--------------------------- MODULE ProcessProofs ----------------------------
(***************************************************************************)
(* For every set of workers, keys, systems, texts and requests, every      *)
(* masking and every number of faults: the types of ProcessService, and    *)
(* that no answer ever unmasks what its key, or its system, has no claim   *)
(* to.  The second part is about a service in which nothing fails: it      *)
(* implements RequestContract.                                             *)
(***************************************************************************)
EXTENDS ProcessProperties, TLAPS

Cell == MappingRecord \cup {None}

(* The record of a text and what it says about another text are well       *)
(* formed.                                                                 *)
LEMMA NewRecordType ==
    ASSUME NEW t \in Texts, NEW s \in Systems
    PROVE  NewRecord(t, s) \in MappingRecord
  BY RecordsAssumption DEF NewRecord, MappingRecord

LEMMA MaskedType ==
    ASSUME NEW t \in Texts, NEW s \in Systems
    PROVE  Masked(t, s) \in Outcome
  BY RecordsAssumption DEF Masked, Outcome, Success

LEMMA ErrorType ==
    /\ \A e \in Failure \cup {"pending", "new_text"} : Error(e) \in Outcome
    /\ Pending \in Outcome
  BY DEF Error, Outcome, Pending

LEMMA VerdictType ==
    ASSUME NEW t \in Texts, NEW rec \in MappingRecord, NEW s \in Systems
    PROVE  Verdict(t, rec, s) \in Outcome
<1>1. UnmaskFragments(t, rec.fragments).text \in Texts
  BY RecordsAssumption DEF MappingRecord
<1>2. rec.original \in Texts /\ rec.masked \in Texts
  BY DEF MappingRecord
<1> QED
  BY <1>1, <1>2, ErrorType DEF Verdict, Outcome, Success, Failure

(* A store operation leaves a map of records, and touches its key only. *)
LEMMA ExecuteType ==
    ASSUME NEW map \in [Keys -> Cell], NEW o, NEW k \in Keys,
           NEW rec \in MappingRecord
    PROVE  /\ Execute(map, o, k, rec) \in [Keys -> Cell]
           /\ \A j \in Keys : \/ Execute(map, o, k, rec)[j] = map[j]
                              \/ j = k /\ Execute(map, o, k, rec)[j] = rec
  BY DEF Execute, PutIfAbsent, Put, Cell

(* The processor either starts another store operation or answers, with    *)
(* its own mask or with what the record it was given says.                 *)
LEMMA ContinueCases ==
    ASSUME NEW r \in Requests, NEW found, NEW created,
           op[r] \in Ops, Continue(r, found, created)
    PROVE  \/ \E o \in Ops : Send(r, o)
           \/ Respond(r, OwnMask(r))
           \/ /\ found # None
              /\ Respond(r, Verdict(Payload(r), found, System(r)))
<1> DEFINE Goal == \/ \E o \in Ops : Send(r, o)
                   \/ Respond(r, OwnMask(r))
                   \/ /\ found # None
                      /\ Respond(r, Verdict(Payload(r), found, System(r)))
<1>1. CASE op[r] \in {"get", "reget"}
  <2>1. AfterGet(r, found)
    BY <1>1 DEF Continue
  <2>2. CASE found # None
    <3>1. AnswerFrom(r, found)
      BY <2>1, <2>2 DEF AfterGet
    <3> QED
      BY <2>2, <3>1 DEF AnswerFrom, Ops
  <2>3. CASE found = None
    BY <1>1, <2>1, <2>3 DEF AfterGet, Ops
  <2> QED
    BY <2>2, <2>3
<1>2. CASE op[r] = "put_if_absent"
  <2>1. AfterPutIfAbsent(r, created)
    BY <1>2 DEF Continue
  <2> QED
    BY <2>1 DEF AfterPutIfAbsent, Ops
<1>3. CASE op[r] = "put"
  <2>1. AfterPut(r)
    BY <1>3 DEF Continue
  <2> QED
    BY <2>1 DEF AfterPut
<1> QED
  BY <1>1, <1>2, <1>3 DEF Ops

-----------------------------------------------------------------------------
(* A request that has arrived carries an input and builds a record. *)
LEMMA InputType ==
    ASSUME TypeOK, NEW r \in Requests, stage[r] # "idle"
    PROVE  /\ input[r] \in Inputs
           /\ Worker(r) \in Workers /\ Key(r) \in Keys
           /\ System(r) \in Systems /\ Payload(r) \in Texts
           /\ OwnRecord(r) \in MappingRecord
           /\ OwnMask(r) \in Outcome
<1>1. input[r] \in Inputs
  BY DEF TypeOK
<1>2. Worker(r) \in Workers /\ Key(r) \in Keys /\ System(r) \in Systems
      /\ Payload(r) \in Texts
  BY <1>1 DEF Inputs, Worker, Key, System, Payload
<1> QED
  BY <1>1, <1>2, NewRecordType, MaskedType DEF OwnRecord, OwnMask

(* What Send and Respond do to the types of the request's own state. *)
LEMMA SendType ==
    ASSUME TypeOK, NEW r \in Requests, NEW o \in Ops, Send(r, o),
           stage[r] # "idle" \/ input'[r] \in Inputs
    PROVE  /\ stage' \in [Requests -> Stages]
           /\ op' \in [Requests -> Ops]
           /\ retried' \in [Requests -> BOOLEAN]
           /\ answer' \in [Requests -> Outcome]
  BY DEF TypeOK, Send, Stages

LEMMA RespondType ==
    ASSUME TypeOK, NEW r \in Requests, NEW a \in Outcome, Respond(r, a)
    PROVE  /\ stage' \in [Requests -> Stages]
           /\ op' \in [Requests -> Ops]
           /\ retried' \in [Requests -> BOOLEAN]
           /\ answer' \in [Requests -> Outcome]
  BY DEF TypeOK, Respond, Stages

LEMMA ContinueType ==
    ASSUME TypeOK, NEW r \in Requests, NEW found \in Cell, NEW created,
           stage[r] # "idle", Continue(r, found, created)
    PROVE  /\ stage' \in [Requests -> Stages]
           /\ op' \in [Requests -> Ops]
           /\ retried' \in [Requests -> BOOLEAN]
           /\ answer' \in [Requests -> Outcome]
           /\ \A q \in Requests : q # r => stage'[q] = stage[q]
<1>1. op[r] \in Ops
  BY DEF TypeOK
<1>2. ASSUME NEW o \in Ops, Send(r, o)
      PROVE  \A q \in Requests : q # r => stage'[q] = stage[q]
  BY <1>2 DEF Send, TypeOK
<1>3. ASSUME NEW a, Respond(r, a)
      PROVE  \A q \in Requests : q # r => stage'[q] = stage[q]
  BY <1>3 DEF Respond, TypeOK
<1>4. found # None => Verdict(Payload(r), found, System(r)) \in Outcome
  BY InputType, VerdictType DEF Cell
<1> QED
  BY <1>1, <1>2, <1>3, <1>4, InputType, ContinueCases, SendType, RespondType

-----------------------------------------------------------------------------
(* Types are preserved by every step. *)
LEMMA TypeStep ==
    ASSUME TypeOK, [Next]_vars
    PROVE  TypeOK'
<1> USE RecordsAssumption, ServiceAssumption
<1>1. ASSUME NEW r \in Requests, NEW w \in Workers, NEW k \in Keys,
             NEW s \in Systems, NEW t \in Texts, Arrive(r, w, k, s, t)
      PROVE  TypeOK'
  <2> DEFINE i == [worker |-> w, key |-> k, system |-> s, payload |-> t]
  <2>1. input' = [input EXCEPT ![r] = i] /\ i \in Inputs
    BY <1>1 DEF Arrive, Inputs
  <2>2. input' \in [Requests -> Inputs \cup {None}] /\ input'[r] \in Inputs
        /\ \A q \in Requests : q # r => input'[q] = input[q]
    BY <2>1 DEF TypeOK
  <2>3. /\ stage' \in [Requests -> Stages]
        /\ op' \in [Requests -> Ops]
        /\ retried' \in [Requests -> BOOLEAN]
        /\ answer' \in [Requests -> Outcome]
        /\ \A q \in Requests : q # r => stage'[q] = stage[q]
    <3>1. CASE s \in Enabled
      <4>1. Send(r, "get")
        BY <1>1, <3>1 DEF Arrive
      <4>2. "get" \in Ops
        BY DEF Ops
      <4>3. \A q \in Requests : q # r => stage'[q] = stage[q]
        BY <4>1 DEF Send, TypeOK
      <4> QED
        BY <2>2, <4>1, <4>2, <4>3, SendType
    <3>2. CASE s \notin Enabled
      <4>1. Respond(r, Error("system_not_allowed"))
        BY <1>1, <3>2 DEF Arrive
      <4>2. Error("system_not_allowed") \in Outcome
        BY ErrorType DEF Failure
      <4>3. \A q \in Requests : q # r => stage'[q] = stage[q]
        BY <4>1 DEF Respond, TypeOK
      <4> QED
        BY <4>1, <4>2, <4>3, RespondType
    <3> QED
      BY <3>1, <3>2
  <2> QED
    BY <1>1, <2>2, <2>3 DEF Arrive, TypeOK
<1>2. ASSUME NEW r \in Requests, Serve(r)
      PROVE  TypeOK'
  <2>1. stage[r] = "sent" /\ stage[r] # "idle"
    BY <1>2 DEF Serve
  <2>2. redis' \in [Keys -> MappingRecord \cup {None}]
    BY <1>2, <2>1, InputType, ExecuteType DEF Serve, TypeOK, Cell
  <2>3. redis[Key(r)] \in MappingRecord \cup {None}
    BY <2>1, InputType DEF TypeOK
  <2>4. reply' \in [Requests -> Replies]
    BY <1>2, <2>3 DEF Serve, TypeOK, Replies
  <2> QED
    BY <1>2, <2>1, <2>2, <2>4 DEF Serve, TypeOK, Stages
<1>3. ASSUME NEW r \in Requests, NEW status \in {"timeout", "connection"},
             NEW kind \in {"timeouts", "disconnects"}, NEW bound,
             Fail(r, status, kind, bound)
      PROVE  TypeOK'
  <2>1. stage[r] = "sent" /\ stage[r] # "idle"
    BY <1>3 DEF Fail
  <2>2. Abandoned(r) \subseteq Commands
    BY <2>1, InputType DEF Abandoned, LateCommand, Commands, TypeOK
  <2>3. reply' \in [Requests -> Replies]
    BY <1>3 DEF Fail, TypeOK, Replies, NoReply
  <2>4. faults' \in [{"timeouts", "disconnects", "losses", "restarts"} -> Nat]
    BY <1>3 DEF Fail, TypeOK
  <2> QED
    BY <1>3, <2>1, <2>2, <2>3, <2>4 DEF Fail, TypeOK, Stages
<1>4. ASSUME NEW r \in Requests, ReplyArrives(r)
      PROVE  TypeOK'
  <2> DEFINE found == Found(r)
  <2>1. stage[r] = "served" /\ stage[r] # "idle"
        /\ Continue(r, found, reply[r].created)
    BY <1>4 DEF ReplyArrives
  <2>2. found \in Cell
    BY <2>1, InputType DEF Found, TypeOK, Replies, Remembered, Cell
  <2> HIDE DEF found
  <2>3. /\ stage' \in [Requests -> Stages]
        /\ op' \in [Requests -> Ops]
        /\ retried' \in [Requests -> BOOLEAN]
        /\ answer' \in [Requests -> Outcome]
        /\ \A q \in Requests : q # r => stage'[q] = stage[q]
    BY <2>1, <2>2, ContinueType
  <2> QED
    BY <1>4, <2>1, <2>3 DEF ReplyArrives, TypeOK
<1>5. ASSUME NEW r \in Requests, RetryAfterTimeout(r)
      PROVE  TypeOK'
  BY <1>5 DEF RetryAfterTimeout, TypeOK, Stages
<1>6. ASSUME NEW r \in Requests, GiveUp(r)
      PROVE  TypeOK'
  <2>1. Error("store_unavailable") \in Outcome
    BY ErrorType DEF Failure
  <2>2. Respond(r, Error("store_unavailable")) /\ stage[r] = "served"
    BY <1>6 DEF GiveUp
  <2>3. \A q \in Requests : q # r => stage'[q] = stage[q]
    BY <2>2 DEF Respond, TypeOK
  <2> QED
    BY <1>6, <2>1, <2>2, <2>3, RespondType DEF GiveUp, TypeOK
<1>7. ASSUME NEW r \in Requests, Degrade(r)
      PROVE  TypeOK'
  <2>1. stage[r] = "served" /\ stage[r] # "idle"
        /\ Continue(r, Remembered(r), Remembered(r) = None)
    BY <1>7 DEF Degrade
  <2>2. Remembered(r) \in Cell
    BY <2>1, InputType DEF TypeOK, Remembered, Cell
  <2>3. /\ stage' \in [Requests -> Stages]
        /\ op' \in [Requests -> Ops]
        /\ retried' \in [Requests -> BOOLEAN]
        /\ answer' \in [Requests -> Outcome]
        /\ \A q \in Requests : q # r => stage'[q] = stage[q]
    BY <2>1, <2>2, ContinueType
  <2>4. Execute(memory[Worker(r)], op[r], Key(r), OwnRecord(r)) \in [Keys -> Cell]
    BY <2>1, InputType, ExecuteType DEF TypeOK, Cell
  <2>5. memory' \in [Workers -> [Keys -> MappingRecord \cup {None}]]
    BY <1>7, <2>4 DEF Degrade, TypeOK, Cell
  <2>6. degraded' \subseteq Workers
    BY <1>7, <2>1, InputType DEF Degrade, TypeOK
  <2> QED
    BY <1>7, <2>1, <2>3, <2>5, <2>6 DEF Degrade, TypeOK
<1>8. ASSUME NEW c \in late, RunLate(c)
      PROVE  TypeOK'
  <2>1. c.key \in Keys /\ c.record \in MappingRecord
    BY DEF TypeOK, Commands
  <2>2. redis' \in [Keys -> MappingRecord \cup {None}]
    BY <1>8, <2>1, ExecuteType DEF RunLate, TypeOK, Cell
  <2> QED
    BY <1>8, <2>2 DEF RunLate, TypeOK
<1>9. ASSUME NEW k \in Keys, LoseRedis(k)
      PROVE  TypeOK'
  BY <1>9 DEF LoseRedis, TypeOK
<1>10. ASSUME NEW w \in Workers, NEW k \in Keys, LoseMemory(w, k)
       PROVE  TypeOK'
  BY <1>10 DEF LoseMemory, TypeOK
<1>11. ASSUME NEW w \in Workers, Restart(w)
       PROVE  TypeOK'
  <2> DEFINE lost == {r \in Requests : Running(r) /\ Worker(r) = w}
             gone == {q \in lost : stage[q] = "sent"}
  <2>1. \A q \in gone : Abandoned(q) \subseteq Commands
    BY InputType DEF Abandoned, LateCommand, Commands, TypeOK
  <2>2. late' \subseteq Commands
    BY <1>11, <2>1 DEF Restart, TypeOK
  <2>3. stage' \in [Requests -> Stages]
        /\ \A q \in Requests : stage'[q] # "idle" => stage[q] # "idle"
    BY <1>11 DEF Restart, TypeOK, Stages, Running
  <2>4. faults' \in [{"timeouts", "disconnects", "losses", "restarts"} -> Nat]
    BY <1>11 DEF Restart, TypeOK
  <2>5. memory' \in [Workers -> [Keys -> MappingRecord \cup {None}]]
    BY <1>11 DEF Restart, TypeOK
  <2> QED
    BY <1>11, <2>2, <2>3, <2>4, <2>5 DEF Restart, TypeOK
<1>12. ASSUME NEW r \in Requests, Resend(r)
       PROVE  TypeOK'
  <2>1. Abandoned(r) \subseteq Commands
    BY <1>12, InputType DEF Resend, Abandoned, LateCommand, Commands, TypeOK
  <2>2. faults' \in [{"timeouts", "disconnects", "losses", "restarts"} -> Nat]
    BY <1>12 DEF Resend, TypeOK
  <2> QED
    BY <1>12, <2>1, <2>2 DEF Resend, TypeOK
<1>13. CASE UNCHANGED vars
  BY <1>13 DEF vars, TypeOK
<1> QED
  BY <1>1, <1>2, <1>3, <1>4, <1>5, <1>6, <1>7, <1>8, <1>9, <1>10, <1>11, <1>12,
     <1>13
     DEF Next, Step, Environment, Resume, TimeOut, Disconnect

LEMMA TypeInit == Init => TypeOK
  BY RecordsAssumption, ErrorType
     DEF Init, TypeOK, Stages, Ops, Replies, NoReply

(* Every variable of the service stays in its range. *)
THEOREM TypeCorrect == Spec => []TypeOK
  BY TypeInit, TypeStep, PTL DEF Spec

-----------------------------------------------------------------------------
(* The inductive invariant: every record, wherever it is kept or on its    *)
(* way, masks a text submitted under its own key, and so every answer is   *)
(* justified.                                                              *)
Owned(k, rec) ==
    rec = None \/ \E t \in Submitted(k), s \in Systems : rec = NewRecord(t, s)

RecordsOwned ==
    /\ \A k \in Keys : Owned(k, redis[k])
    /\ \A w \in Workers, k \in Keys : Owned(k, memory[w][k])
    /\ \A c \in late : Owned(c.key, c.record)
    /\ \A r \in Requests : Served(r) => Owned(Key(r), reply[r].record)

AnswersJustified ==
    \A r \in Requests : Answered(r) => Justified(r) /\ LearnsNothing(r)

IInv == TypeOK /\ RecordsOwned /\ AnswersJustified

(* What a record of text u says about text t. *)
LEMMA VerdictOwned ==
    ASSUME NEW t \in Texts, NEW s \in Systems, NEW u \in Texts, NEW v \in Systems,
           NEW a, a = Verdict(t, NewRecord(u, v), s)
    PROVE  /\ a.direction = "unmask" => a.result = u /\ t = MaskOf(u, v)
           /\ a.direction = "unmask_fragments" =>
                 UnmaskFragments(t, FragmentsOf(u, v))
                    = [text |-> a.result, replaced |-> TRUE]
           /\ a.direction \in Success /\ s \notin Unmaskers =>
                 a.result \in {t, MaskOf(t, v)}
<1> DEFINE rec      == NewRecord(u, v)
           restored == UnmaskFragments(t, FragmentsOf(u, v))
<1>1. /\ rec.original = u /\ rec.masked = MaskOf(u, v)
      /\ rec.fragments = FragmentsOf(u, v)
  BY DEF NewRecord
<1>2. restored \in [text: Texts, replaced: BOOLEAN]
  BY RecordsAssumption
<1>3. restored.replaced => restored = [text |-> restored.text, replaced |-> TRUE]
  BY <1>2
<1> HIDE DEF rec, restored
<1>4. a = Verdict(t, rec, s) /\ restored = UnmaskFragments(t, rec.fragments)
  BY <1>1 DEF rec, restored
<1>5. CASE t = rec.masked
  BY <1>1, <1>4, <1>5 DEF Verdict, Error, Success
<1>6. CASE t # rec.masked /\ t = rec.original
  BY <1>1, <1>4, <1>6 DEF Verdict, Error, Success
<1>7. CASE t # rec.masked /\ t # rec.original /\ restored.replaced
  <2>1. CASE s \in Unmaskers
    <3>1. a = [direction |-> "unmask_fragments", result |-> restored.text]
      BY <1>4, <1>7, <2>1 DEF Verdict
    <3> QED
      BY <1>3, <1>7, <2>1, <3>1 DEF restored
  <2>2. CASE s \notin Unmaskers
    BY <1>4, <1>7, <2>2 DEF Verdict, Error, Success
  <2> QED
    BY <2>1, <2>2
<1>8. CASE t # rec.masked /\ t # rec.original /\ ~restored.replaced
  BY <1>4, <1>8 DEF Verdict, Error, Success
<1> QED
  BY <1>5, <1>6, <1>7, <1>8

(* Nothing a request carries changes once it has arrived, so what was      *)
(* submitted stays submitted.                                              *)
LEMMA Frame ==
    ASSUME TypeOK, [Next]_vars
    PROVE  /\ \A q \in Requests : stage[q] # "idle" =>
                 /\ input'[q] = input[q] /\ stage'[q] # "idle"
                 /\ Key(q)' = Key(q) /\ Payload(q)' = Payload(q)
                 /\ System(q)' = System(q)
           /\ \A k : Submitted(k) \subseteq Submitted(k)'
           /\ \A k, rec : Owned(k, rec) => Owned(k, rec)'
<1>1. \A q \in Requests : stage[q] # "idle" =>
         input'[q] = input[q] /\ stage'[q] # "idle"
  <2> SUFFICES ASSUME NEW q \in Requests, stage[q] # "idle"
               PROVE  input'[q] = input[q] /\ stage'[q] # "idle"
    OBVIOUS
  <2>1. ASSUME NEW r \in Requests, NEW w \in Workers, NEW k \in Keys,
               NEW s \in Systems, NEW t \in Texts, Arrive(r, w, k, s, t)
        PROVE  input'[q] = input[q] /\ stage'[q] # "idle"
    BY <2>1 DEF Arrive, Send, Respond, TypeOK
  <2>2. ASSUME NEW r \in Requests,
               Serve(r) \/ TimeOut(r) \/ Disconnect(r) \/ Resend(r)
        PROVE  input'[q] = input[q] /\ stage'[q] # "idle"
    BY <2>2 DEF Serve, TimeOut, Disconnect, Resend, Fail, TypeOK
  <2>3. ASSUME NEW r \in Requests, NEW found, NEW created,
               Continue(r, found, created)
        PROVE  stage'[q] # "idle"
    <3>1. op[r] \in Ops
      BY DEF TypeOK
    <3>2. (\E o : Send(r, o)) \/ (\E a : Respond(r, a))
      BY <2>3, <3>1, ContinueCases
    <3> QED
      BY <3>2 DEF Send, Respond, TypeOK
  <2>4. ASSUME NEW r \in Requests, Resume(r)
        PROVE  input'[q] = input[q] /\ stage'[q] # "idle"
    <3>1. input' = input
      BY <2>4 DEF Resume, ReplyArrives, RetryAfterTimeout, GiveUp, Degrade
    <3>2. CASE RetryAfterTimeout(r) \/ GiveUp(r)
      BY <3>1, <3>2 DEF RetryAfterTimeout, GiveUp, Respond, TypeOK
    <3>3. CASE ReplyArrives(r) \/ Degrade(r)
      BY <2>3, <3>1, <3>3 DEF ReplyArrives, Degrade
    <3> QED
      BY <2>4, <3>2, <3>3 DEF Resume
  <2>5. CASE Environment
    <3>1. input' = input
      BY <2>5 DEF Environment, RunLate, LoseRedis, LoseMemory, Restart
    <3>2. stage'[q] = stage[q] \/ stage'[q] = "aborted"
      BY <2>5 DEF Environment, RunLate, LoseRedis, LoseMemory, Restart
    <3> QED
      BY <3>1, <3>2
  <2>6. CASE UNCHANGED vars
    BY <2>6 DEF vars
  <2> QED
    BY <2>1, <2>2, <2>4, <2>5, <2>6 DEF Next, Step
<1>2. \A q \in Requests : stage[q] # "idle" =>
         /\ Key(q)' = Key(q) /\ Payload(q)' = Payload(q) /\ System(q)' = System(q)
  BY <1>1 DEF Key, Payload, System
<1>3. \A k : Submitted(k) \subseteq Submitted(k)'
  BY <1>1, <1>2 DEF Submitted
<1>4. \A k, rec : Owned(k, rec) => Owned(k, rec)'
  BY <1>3 DEF Owned
<1> QED
  BY <1>1, <1>2, <1>3, <1>4

LEMMA OwnRecordOwned ==
    ASSUME TypeOK, NEW r \in Requests, stage[r] # "idle"
    PROVE  Owned(Key(r), OwnRecord(r))
<1>1. Payload(r) \in Submitted(Key(r))
  BY DEF Submitted
<1> QED
  BY <1>1, InputType DEF Owned, OwnRecord

(* A store operation on owned records leaves owned records. *)
LEMMA ExecuteOwned ==
    ASSUME NEW map \in [Keys -> Cell], NEW o, NEW k \in Keys,
           NEW rec \in MappingRecord, Owned(k, rec),
           \A j \in Keys : Owned(j, map[j])
    PROVE  \A j \in Keys : Owned(j, Execute(map, o, k, rec)[j])
<1> SUFFICES ASSUME NEW j \in Keys
             PROVE  Owned(j, Execute(map, o, k, rec)[j])
  OBVIOUS
<1>1. \/ Execute(map, o, k, rec)[j] = map[j]
      \/ j = k /\ Execute(map, o, k, rec)[j] = rec
  BY ExecuteType
<1> QED
  BY <1>1

(* The ways a step may write the places that hold records: it moves the    *)
(* request's own record, or a record that was owned where it came from.    *)
RedisMoves ==
    \/ redis' = redis
    \/ \E k \in Keys, o \in Ops : \E rec \in MappingRecord :
          Owned(k, rec) /\ redis' = Execute(redis, o, k, rec)
    \/ \E k \in Keys : redis' = [redis EXCEPT ![k] = None]

MemoryMoves ==
    \/ memory' = memory
    \/ \E w \in Workers, k \in Keys, o \in Ops : \E rec \in MappingRecord :
          /\ Owned(k, rec)
          /\ memory' = [memory EXCEPT ![w] = Execute(memory[w], o, k, rec)]
    \/ \E w \in Workers, k \in Keys : memory' = [memory EXCEPT ![w][k] = None]
    \/ \E w \in Workers : memory' = [memory EXCEPT ![w] = [k \in Keys |-> None]]

LateMoves ==
    \A c \in late' : \/ c \in late
                     \/ \E r \in Requests : stage[r] # "idle" /\ c \in Abandoned(r)

ReplyMoves ==
    \A q \in Requests : stage'[q] = "served" =>
       \/ stage[q] = "served" /\ reply'[q] = reply[q]
       \/ stage[q] = "sent" /\ reply'[q].record \in {None, redis[Key(q)]}

LEMMA OwnedNone == \A k : Owned(k, None)
  BY DEF Owned

LEMMA RedisOwned ==
    ASSUME IInv, [Next]_vars, RedisMoves
    PROVE  \A k \in Keys : Owned(k, redis[k])'
<1> USE DEF IInv
<1>1. \A k, rec : Owned(k, rec) => Owned(k, rec)'
  BY Frame
<1>2. \A k \in Keys : Owned(k, redis'[k])
  <2>1. CASE redis' = redis
    BY <2>1 DEF RecordsOwned
  <2>2. ASSUME NEW k \in Keys, NEW o \in Ops, NEW rec \in MappingRecord,
               Owned(k, rec), redis' = Execute(redis, o, k, rec)
        PROVE  \A j \in Keys : Owned(j, redis'[j])
    BY <2>2, ExecuteOwned DEF RecordsOwned, TypeOK, Cell
  <2>3. ASSUME NEW k \in Keys, redis' = [redis EXCEPT ![k] = None]
        PROVE  \A j \in Keys : Owned(j, redis'[j])
    BY OwnedNone, <2>3 DEF RecordsOwned, TypeOK
  <2> QED
    BY <2>1, <2>2, <2>3 DEF RedisMoves
<1> QED
  BY <1>1, <1>2

LEMMA MemoryOwned ==
    ASSUME IInv, [Next]_vars, MemoryMoves
    PROVE  \A w \in Workers, k \in Keys : Owned(k, memory[w][k])'
<1> USE DEF IInv
<1>1. \A k, rec : Owned(k, rec) => Owned(k, rec)'
  BY Frame
<1>2. \A v \in Workers, j \in Keys : Owned(j, memory'[v][j])
  <2>1. CASE memory' = memory
    BY <2>1 DEF RecordsOwned
  <2>2. ASSUME NEW w \in Workers, NEW k \in Keys, NEW o \in Ops,
               NEW rec \in MappingRecord, Owned(k, rec),
               memory' = [memory EXCEPT ![w] = Execute(memory[w], o, k, rec)]
        PROVE  \A v \in Workers, j \in Keys : Owned(j, memory'[v][j])
    <3>1. \A j \in Keys : Owned(j, Execute(memory[w], o, k, rec)[j])
      BY <2>2, ExecuteOwned DEF RecordsOwned, TypeOK, Cell
    <3>2. \A v \in Workers : memory'[v] = IF v = w THEN Execute(memory[w], o, k, rec)
                                                   ELSE memory[v]
      BY <2>2 DEF TypeOK
    <3> QED
      BY <3>1, <3>2 DEF RecordsOwned
  <2>3. ASSUME \A v \in Workers, j \in Keys :
                  memory'[v][j] = memory[v][j] \/ memory'[v][j] = None
        PROVE  \A v \in Workers, j \in Keys : Owned(j, memory'[v][j])
    BY OwnedNone, <2>3 DEF RecordsOwned
  <2>4. ASSUME NEW w \in Workers, NEW k \in Keys,
               memory' = [memory EXCEPT ![w][k] = None]
        PROVE  \A v \in Workers, j \in Keys :
                  memory'[v][j] = memory[v][j] \/ memory'[v][j] = None
    BY <2>4 DEF TypeOK
  <2>5. ASSUME NEW w \in Workers,
               memory' = [memory EXCEPT ![w] = [k \in Keys |-> None]]
        PROVE  \A v \in Workers, j \in Keys :
                  memory'[v][j] = memory[v][j] \/ memory'[v][j] = None
    BY <2>5 DEF TypeOK
  <2> QED
    BY <2>1, <2>2, <2>3, <2>4, <2>5 DEF MemoryMoves
<1> QED
  BY <1>1, <1>2

LEMMA LateOwned ==
    ASSUME IInv, [Next]_vars, LateMoves
    PROVE  \A c \in late' : Owned(c.key, c.record)'
<1> USE DEF IInv
<1>1. \A k, rec : Owned(k, rec) => Owned(k, rec)'
  BY Frame
<1>2. ASSUME NEW r \in Requests, stage[r] # "idle", NEW c \in Abandoned(r)
      PROVE  c.key = Key(r) /\ c.record = OwnRecord(r)
  BY <1>2 DEF Abandoned, LateCommand
<1> QED
  BY <1>1, <1>2, OwnRecordOwned DEF RecordsOwned, LateMoves

LEMMA ReplyOwned ==
    ASSUME IInv, [Next]_vars, ReplyMoves, NEW q \in Requests, Served(q)'
    PROVE  Owned(Key(q), reply[q].record)'
<1> USE DEF IInv
<1>1. \A k, rec : Owned(k, rec) => Owned(k, rec)'
  BY Frame
<1>2. stage'[q] = "served"
  BY DEF Served
<1>3. stage[q] # "idle"
  BY <1>2 DEF ReplyMoves
<1>4. Key(q)' = Key(q) /\ Key(q) \in Keys
  BY <1>3, Frame, InputType
<1>5. Owned(Key(q), reply'[q].record)
  <2>1. CASE stage[q] = "served" /\ reply'[q] = reply[q]
    BY <2>1 DEF RecordsOwned, Served
  <2>2. CASE reply'[q].record = redis[Key(q)]
    BY <1>4, <2>2 DEF RecordsOwned
  <2>3. CASE reply'[q].record = None
    BY <2>3, OwnedNone
  <2> QED
    BY <1>2, <2>1, <2>2, <2>3 DEF ReplyMoves
<1> QED
  BY <1>1, <1>4, <1>5

(* Records stay owned by every step. *)
LEMMA RecordsStep ==
    ASSUME IInv, [Next]_vars
    PROVE  RecordsOwned'
<1> USE DEF IInv
<1> DEFINE Moves == RedisMoves /\ MemoryMoves /\ LateMoves /\ ReplyMoves
<1>1. ASSUME NEW r \in Requests, NEW w \in Workers, NEW k \in Keys,
             NEW s \in Systems, NEW t \in Texts, Arrive(r, w, k, s, t)
      PROVE  Moves
  BY <1>1 DEF Arrive, Send, Respond, TypeOK, RedisMoves, MemoryMoves, LateMoves,
              ReplyMoves
<1>2. ASSUME NEW r \in Requests, Serve(r)
      PROVE  Moves
  <2>1. stage[r] # "idle"
    BY <1>2 DEF Serve
  <2>2. op[r] \in Ops /\ redis' = Execute(redis, op[r], Key(r), OwnRecord(r))
    BY <1>2 DEF Serve, TypeOK
  <2>3. RedisMoves
    BY <2>1, <2>2, InputType, OwnRecordOwned DEF RedisMoves
  <2>4. ReplyMoves
    BY <1>2 DEF Serve, TypeOK, ReplyMoves
  <2> QED
    BY <1>2, <2>3, <2>4 DEF Serve, MemoryMoves, LateMoves
<1>3. ASSUME NEW r \in Requests, TimeOut(r) \/ Disconnect(r)
      PROVE  Moves
  <2>1. \E status, kind, bound : Fail(r, status, kind, bound)
    BY <1>3 DEF TimeOut, Disconnect
  <2>2. LateMoves
    BY <2>1 DEF Fail, LateMoves
  <2>3. ReplyMoves
    BY <2>1 DEF Fail, NoReply, TypeOK, ReplyMoves
  <2> QED
    BY <2>1, <2>2, <2>3 DEF Fail, RedisMoves, MemoryMoves
<1>4. ASSUME NEW r \in Requests, NEW found, NEW created,
             Continue(r, found, created), reply' = reply
      PROVE  ReplyMoves
  <2>1. op[r] \in Ops
    BY DEF TypeOK
  <2>2. (\E o : Send(r, o)) \/ (\E a : Respond(r, a))
    BY <1>4, <2>1, ContinueCases
  <2> QED
    BY <1>4, <2>2 DEF Send, Respond, TypeOK, ReplyMoves
<1>5. ASSUME NEW r \in Requests, ReplyArrives(r)
      PROVE  Moves
  BY <1>4, <1>5 DEF ReplyArrives, RedisMoves, MemoryMoves, LateMoves
<1>6. ASSUME NEW r \in Requests, RetryAfterTimeout(r) \/ GiveUp(r)
      PROVE  Moves
  BY <1>6 DEF RetryAfterTimeout, GiveUp, Respond, TypeOK, RedisMoves, MemoryMoves,
              LateMoves, ReplyMoves
<1>7. ASSUME NEW r \in Requests, Degrade(r)
      PROVE  Moves
  <2>1. stage[r] # "idle"
    BY <1>7 DEF Degrade
  <2>2. op[r] \in Ops
        /\ memory' = [memory EXCEPT ![Worker(r)] =
                        Execute(memory[Worker(r)], op[r], Key(r), OwnRecord(r))]
    BY <1>7 DEF Degrade, TypeOK
  <2>3. MemoryMoves
    BY <2>1, <2>2, InputType, OwnRecordOwned DEF MemoryMoves
  <2>4. ReplyMoves
    BY <1>4, <1>7 DEF Degrade
  <2> QED
    BY <1>7, <2>3, <2>4 DEF Degrade, RedisMoves, LateMoves
<1>8. ASSUME NEW c \in late, RunLate(c)
      PROVE  Moves
  <2>1. Owned(c.key, c.record) /\ c.key \in Keys /\ c.record \in MappingRecord
        /\ c.op \in Ops
    BY DEF RecordsOwned, TypeOK, Commands, Writes, Ops
  <2> QED
    BY <1>8, <2>1 DEF RunLate, RedisMoves, MemoryMoves, LateMoves, ReplyMoves
<1>9. ASSUME NEW k \in Keys, LoseRedis(k)
      PROVE  Moves
  BY <1>9 DEF LoseRedis, RedisMoves, MemoryMoves, LateMoves, ReplyMoves
<1>10. ASSUME NEW w \in Workers, NEW k \in Keys, LoseMemory(w, k)
       PROVE  Moves
  BY <1>10 DEF LoseMemory, RedisMoves, MemoryMoves, LateMoves, ReplyMoves
<1>11. ASSUME NEW w \in Workers, Restart(w)
       PROVE  Moves
  <2>1. LateMoves
    BY <1>11 DEF Restart, LateMoves
  <2>2. ReplyMoves
    BY <1>11 DEF Restart, ReplyMoves
  <2> QED
    BY <1>11, <2>1, <2>2 DEF Restart, RedisMoves, MemoryMoves
<1>12. ASSUME NEW r \in Requests, Resend(r)
       PROVE  Moves
  <2>1. LateMoves
    BY <1>12 DEF Resend, LateMoves
  <2> QED
    BY <1>12, <2>1 DEF Resend, RedisMoves, MemoryMoves, ReplyMoves
<1>13. ASSUME UNCHANGED vars
       PROVE  Moves
  BY <1>13 DEF vars, RedisMoves, MemoryMoves, LateMoves, ReplyMoves
<1>14. Moves
  BY <1>1, <1>2, <1>3, <1>5, <1>6, <1>7, <1>8, <1>9, <1>10, <1>11, <1>12, <1>13
     DEF Next, Step, Environment, Resume
<1> QED
  BY <1>14, RedisOwned, MemoryOwned, LateOwned, ReplyOwned DEF RecordsOwned

-----------------------------------------------------------------------------
(* What may be answered to r: an outcome that an owned record justifies,   *)
(* stated of outcome a before it becomes the answer.                       *)
Rightful(r, a) ==
    /\ a.direction = "unmask" =>
          /\ a.result \in Submitted(Key(r))
          /\ \E s \in Systems : Payload(r) = MaskOf(a.result, s)
    /\ a.direction = "unmask_fragments" =>
          \E t \in Submitted(Key(r)), s \in Systems :
             UnmaskFragments(Payload(r), FragmentsOf(t, s))
                = [text |-> a.result, replaced |-> TRUE]
    /\ a.direction \in Success /\ System(r) \notin Unmaskers =>
          a.result \in {Payload(r)} \cup {MaskOf(Payload(r), s) : s \in Systems}

LEMMA OwnMaskRightful ==
    ASSUME TypeOK, NEW r \in Requests, stage[r] # "idle"
    PROVE  Rightful(r, OwnMask(r))
<1>1. OwnMask(r).direction = "mask" /\ OwnMask(r).result = MaskOf(Payload(r), System(r))
  BY DEF OwnMask, Masked
<1>2. System(r) \in Systems
  BY InputType
<1> QED
  BY <1>1, <1>2 DEF Rightful

LEMMA ErrorRightful ==
    ASSUME NEW r, NEW e \in Failure
    PROVE  Rightful(r, Error(e))
  BY DEF Rightful, Error, Failure, Success

LEMMA VerdictRightful ==
    ASSUME TypeOK, NEW r \in Requests, stage[r] # "idle",
           NEW rec, rec # None, Owned(Key(r), rec)
    PROVE  Rightful(r, Verdict(Payload(r), rec, System(r)))
<1> DEFINE a == Verdict(Payload(r), rec, System(r))
<1>1. Payload(r) \in Texts /\ System(r) \in Systems /\ Key(r) \in Keys
  BY InputType
<1>2. PICK u \in Submitted(Key(r)), v \in Systems : rec = NewRecord(u, v)
  BY DEF Owned
<1>3. u \in Texts
  BY <1>2, InputType DEF Submitted
<1>4. /\ a.direction = "unmask" => a.result = u /\ Payload(r) = MaskOf(u, v)
      /\ a.direction = "unmask_fragments" =>
            UnmaskFragments(Payload(r), FragmentsOf(u, v))
               = [text |-> a.result, replaced |-> TRUE]
      /\ a.direction \in Success /\ System(r) \notin Unmaskers =>
            a.result \in {Payload(r), MaskOf(Payload(r), v)}
  BY <1>1, <1>2, <1>3, VerdictOwned
<1> HIDE DEF a
<1>5. Rightful(r, a)
  BY <1>2, <1>4 DEF Rightful
<1> QED
  BY <1>5 DEF a

(* Once rightful, an answer stays justified: what was submitted under its  *)
(* key stays submitted.                                                    *)
LEMMA RightfulStays ==
    ASSUME TypeOK, [Next]_vars, NEW q \in Requests, stage[q] # "idle",
           Rightful(q, answer'[q])
    PROVE  Justified(q)' /\ LearnsNothing(q)'
<1>1. /\ Key(q)' = Key(q) /\ Payload(q)' = Payload(q) /\ System(q)' = System(q)
      /\ Submitted(Key(q)) \subseteq Submitted(Key(q))'
  BY Frame
<1>2. Justified(q)'
  BY <1>1 DEF Rightful, Justified, Direction, Result
<1>3. LearnsNothing(q)'
  BY <1>1 DEF Rightful, LearnsNothing, Direction, Result
<1> QED
  BY <1>2, <1>3

(* A request that resumes from an await is answered rightfully. *)
LEMMA ContinueRightful ==
    ASSUME TypeOK, NEW r \in Requests, stage[r] = "served",
           NEW found, NEW created, Owned(Key(r), found),
           Continue(r, found, created)
    PROVE  \A q \in Requests : stage'[q] = "answered" =>
              \/ stage[q] = "answered" /\ answer'[q] = answer[q]
              \/ stage[q] = "served" /\ Rightful(q, answer'[q])
<1>1. op[r] \in Ops
  BY DEF TypeOK
<1>2. ASSUME NEW o \in Ops, Send(r, o)
      PROVE  \A q \in Requests : stage'[q] = "answered" =>
                stage[q] = "answered" /\ answer'[q] = answer[q]
  BY <1>2 DEF Send, TypeOK
<1>3. ASSUME NEW a, Rightful(r, a), Respond(r, a)
      PROVE  \A q \in Requests : stage'[q] = "answered" =>
              \/ stage[q] = "answered" /\ answer'[q] = answer[q]
              \/ stage[q] = "served" /\ Rightful(q, answer'[q])
  BY <1>3 DEF Respond, TypeOK
<1>4. Rightful(r, OwnMask(r))
  BY OwnMaskRightful
<1>5. found # None => Rightful(r, Verdict(Payload(r), found, System(r)))
  BY VerdictRightful
<1> QED
  BY <1>1, <1>2, <1>3, <1>4, <1>5, ContinueCases

LEMMA AnswersStep ==
    ASSUME IInv, [Next]_vars
    PROVE  AnswersJustified'
<1> USE DEF IInv
<1> DEFINE Given(q) == \/ stage[q] = "answered" /\ answer'[q] = answer[q]
                       \/ stage[q] # "idle" /\ Rightful(q, answer'[q])
                       \/ answer'[q].direction = "system_not_allowed"
           Goal == \A q \in Requests : stage'[q] = "answered" => Given(q)
<1>1. ASSUME NEW r \in Requests, NEW w \in Workers, NEW k \in Keys,
             NEW s \in Systems, NEW t \in Texts, Arrive(r, w, k, s, t)
      PROVE  Goal
  <2>1. Send(r, "get") \/ Respond(r, Error("system_not_allowed"))
    BY <1>1 DEF Arrive
  <2> QED
    BY <2>1 DEF Send, Respond, Error, TypeOK
<1>2. ASSUME NEW r \in Requests,
             Serve(r) \/ TimeOut(r) \/ Disconnect(r) \/ Resend(r)
      PROVE  Goal
  BY <1>2 DEF Serve, TimeOut, Disconnect, Resend, Fail, TypeOK
<1>3. ASSUME NEW r \in Requests, ReplyArrives(r)
      PROVE  Goal
  <2> DEFINE found == Found(r)
  <2>1. stage[r] = "served" /\ Continue(r, found, reply[r].created)
    BY <1>3 DEF ReplyArrives
  <2>2. Owned(Key(r), found)
    BY <2>1, InputType DEF Found, RecordsOwned, Remembered, Served
  <2> HIDE DEF found
  <2> QED
    BY <2>1, <2>2, ContinueRightful
<1>4. ASSUME NEW r \in Requests, RetryAfterTimeout(r)
      PROVE  Goal
  BY <1>4 DEF RetryAfterTimeout, TypeOK
<1>5. ASSUME NEW r \in Requests, GiveUp(r)
      PROVE  Goal
  <2>1. stage[r] = "served" /\ Respond(r, Error("store_unavailable"))
    BY <1>5 DEF GiveUp
  <2>2. Rightful(r, Error("store_unavailable"))
    BY ErrorRightful DEF Failure
  <2> QED
    BY <2>1, <2>2 DEF Respond, TypeOK
<1>6. ASSUME NEW r \in Requests, Degrade(r)
      PROVE  Goal
  <2>1. stage[r] = "served" /\ Continue(r, Remembered(r), Remembered(r) = None)
    BY <1>6 DEF Degrade
  <2>2. Owned(Key(r), Remembered(r))
    BY <2>1, InputType DEF RecordsOwned, Remembered
  <2> QED
    BY <2>1, <2>2, ContinueRightful
<1>7. ASSUME Environment
      PROVE  Goal
  BY <1>7 DEF Environment, RunLate, LoseRedis, LoseMemory, Restart
<1>8. ASSUME UNCHANGED vars
      PROVE  Goal
  BY <1>8 DEF vars
<1>9. Goal
  BY <1>1, <1>2, <1>3, <1>4, <1>5, <1>6, <1>7, <1>8 DEF Next, Step, Resume
<1> SUFFICES ASSUME NEW q \in Requests, stage'[q] = "answered"
             PROVE  Justified(q)' /\ LearnsNothing(q)'
  BY DEF AnswersJustified, Answered
<1>10. CASE stage[q] = "answered" /\ answer'[q] = answer[q]
  <2>1. Justified(q) /\ LearnsNothing(q)
    BY <1>10 DEF AnswersJustified, Answered
  <2>2. Rightful(q, answer'[q])
    BY <1>10, <2>1 DEF Justified, LearnsNothing, Direction, Result, Rightful
  <2> QED
    BY <1>10, <2>2, RightfulStays
<1>11. CASE stage[q] # "idle" /\ Rightful(q, answer'[q])
  BY <1>11, RightfulStays
<1>12. CASE answer'[q].direction = "system_not_allowed"
  BY <1>12 DEF Justified, LearnsNothing, Direction, Success
<1> QED
  BY <1>9, <1>10, <1>11, <1>12

LEMMA IInvInit == Init => IInv
  BY TypeInit DEF Init, IInv, RecordsOwned, AnswersJustified, Owned, Served,
                  Answered

LEMMA IInvariance == Spec => []IInv
<1>1. IInv /\ [Next]_vars => IInv'
  BY TypeStep, RecordsStep, AnswersStep DEF IInv
<1> QED
  BY <1>1, IInvInit, PTL DEF Spec

(* An unmasking answer is justified by a text submitted under the same     *)
(* payload_id, whatever fails, is lost or comes late.                      *)
THEOREM UnmaskCorrect == Spec => []UnmaskJustified
<1>1. IInv => UnmaskJustified
  BY DEF IInv, AnswersJustified, UnmaskJustified
<1> QED
  BY <1>1, IInvariance, PTL

(* A system without the unmask right gets its own payload or a mask of it. *)
THEOREM PermissionCorrect == Spec => []ForbiddenLearnsNothing
<1>1. IInv => ForbiddenLearnsNothing
  BY DEF IInv, AnswersJustified, ForbiddenLearnsNothing
<1> QED
  BY <1>1, IInvariance, PTL

-----------------------------------------------------------------------------
(***************************************************************************)
(* While Redis neither fails nor forgets and no worker is restarted, the   *)
(* service implements RequestContract, for any number of workers,          *)
(* requests, keys, systems and texts: what a request does in up to four    *)
(* store operations, interleaved with those of all others, looks as if it  *)
(* had been decided at one instant.                                        *)
(***************************************************************************)
NoFaults == MaxTimeouts = 0 /\ MaxDisconnects = 0 /\ MaxLosses = 0 /\ MaxRestarts = 0

(* A reply on its way comes from Redis, and whoever lost the race for a    *)
(* key knows that the key has a record, which may be replaced but not go.  *)
Told(r) ==
    /\ reply[r].status = "ok"
    /\ reply[r].created => op[r] = "put_if_absent"
    /\ op[r] \in Writes => reply[r].record = None
    /\ op[r] = "put_if_absent" /\ ~reply[r].created => redis[Key(r)] # None
    /\ op[r] = "reget" => reply[r].record # None

Undisturbed(r) ==
    /\ stage[r] = "idle" => input[r] = None /\ op[r] = "get"
    /\ stage[r] # "aborted"
    /\ Running(r) /\ op[r] = "reget" => redis[Key(r)] # None
    /\ Served(r) => Told(r)

NominalInv ==
    /\ TypeOK
    /\ \A w \in Workers, k \in Keys : memory[w][k] = None
    /\ late = {}
    /\ \A r \in Requests : Undisturbed(r)

-----------------------------------------------------------------------------
(* The steps that are left when nothing fails. *)
LEMMA NominalNext ==
    ASSUME NoFaults, NominalInv, Next
    PROVE  \/ \E r \in Requests, w \in Workers, k \in Keys, s \in Systems, t \in Texts :
                 Arrive(r, w, k, s, t)
           \/ \E r \in Requests : Serve(r) \/ ReplyArrives(r)
<1> USE DEF NominalInv
<1>1. /\ ~(faults.timeouts < 0) /\ ~(faults.disconnects < 0)
      /\ ~(faults.losses < 0) /\ ~(faults.restarts < 0)
  BY DEF TypeOK
<1>2. ASSUME NEW r \in Requests
      PROVE  ~TimeOut(r) /\ ~Disconnect(r) /\ ~Resend(r)
  BY <1>1 DEF TimeOut, Disconnect, Fail, Resend, NoFaults
<1>3. ASSUME NEW r \in Requests, Resume(r)
      PROVE  ReplyArrives(r)
  BY <1>3 DEF Resume, RetryAfterTimeout, GiveUp, Degrade, Undisturbed, Served, Told
<1>4. ~Environment
  BY <1>1 DEF Environment, LoseRedis, LoseMemory, Restart, NoFaults
<1> QED
  BY <1>2, <1>3, <1>4 DEF Next, Step

(* No record goes: an operation replaces one at most. *)
LEMMA ExecutePresent ==
    ASSUME NEW map \in [Keys -> Cell], NEW o, NEW k \in Keys,
           NEW rec \in MappingRecord
    PROVE  /\ \A j \in Keys : map[j] # None => Execute(map, o, k, rec)[j] # None
           /\ o = "put_if_absent" => Execute(map, o, k, rec)[k] # None
  BY RecordsAssumption DEF Execute, PutIfAbsent, Put, Cell

(* Where nothing of a request changes, it stays undisturbed. *)
LEMMA StaysUndisturbed ==
    ASSUME NominalInv, [Next]_vars, NEW q \in Requests,
           stage'[q] = stage[q], op'[q] = op[q], reply'[q] = reply[q],
           input'[q] = input[q],
           \A k \in Keys : redis[k] # None => redis'[k] # None
    PROVE  Undisturbed(q)'
<1> USE DEF NominalInv
<1>1. CASE stage[q] = "idle"
  BY <1>1 DEF Undisturbed, Running, Served
<1>2. CASE stage[q] # "idle"
  <2>1. Key(q) \in Keys /\ Key(q)' = Key(q)
    BY <1>2, InputType DEF Key
  <2> QED
    BY <2>1 DEF Undisturbed, Running, Served, Told
<1> QED
  BY <1>1, <1>2

LEMMA ArriveUndisturbed ==
    ASSUME NominalInv, [Next]_vars, NEW r \in Requests, NEW w \in Workers,
           NEW k \in Keys, NEW s \in Systems, NEW t \in Texts,
           Arrive(r, w, k, s, t)
    PROVE  NominalInv'
<1> USE DEF NominalInv
<1>1. \/ Send(r, "get")
      \/ Respond(r, Error("system_not_allowed"))
  BY DEF Arrive
<1>2. UNCHANGED <<redis, memory, late, reply>>
  BY DEF Arrive
<1>3. ASSUME NEW q \in Requests, q # r
      PROVE  Undisturbed(q)'
  <2>1. stage'[q] = stage[q] /\ op'[q] = op[q] /\ input'[q] = input[q]
    BY <1>1, <1>3 DEF Send, Respond, Arrive, TypeOK
  <2> QED
    BY <1>2, <2>1, StaysUndisturbed
<1>4. Undisturbed(r)'
  <2>1. stage'[r] = "answered" \/ (stage'[r] = "sent" /\ op'[r] = "get")
    BY <1>1 DEF Send, Respond, TypeOK
  <2> QED
    BY <2>1 DEF Undisturbed, Running, Served
<1> QED
  BY <1>2, <1>3, <1>4, TypeStep

LEMMA ServeUndisturbed ==
    ASSUME NominalInv, [Next]_vars, NEW r \in Requests, Serve(r)
    PROVE  NominalInv'
<1> USE DEF NominalInv
<1>1. /\ stage[r] = "sent" /\ stage' = [stage EXCEPT ![r] = "served"]
      /\ UNCHANGED <<memory, late, input, op, retried, answer>>
      /\ redis' = Execute(redis, op[r], Key(r), OwnRecord(r))
  BY DEF Serve
<1>2. Key(r) \in Keys /\ Key(r)' = Key(r) /\ OwnRecord(r) \in MappingRecord
  BY <1>1, InputType DEF Key
<1>3. /\ \A j \in Keys : redis[j] # None => redis'[j] # None
      /\ op[r] = "put_if_absent" => redis'[Key(r)] # None
  BY <1>1, <1>2, ExecutePresent DEF TypeOK, Cell
<1>4. ASSUME NEW q \in Requests, q # r
      PROVE  Undisturbed(q)'
  <2>1. stage'[q] = stage[q] /\ reply'[q] = reply[q]
    BY <1>4 DEF Serve, TypeOK
  <2> QED
    BY <1>1, <1>3, <2>1, StaysUndisturbed
<1>5. Undisturbed(r)'
  <2>1. /\ stage'[r] = "served" /\ reply'[r].status = "ok"
        /\ op[r] \in Writes => reply'[r].record = None
        /\ op[r] \notin Writes => reply'[r].record = redis[Key(r)]
    BY <1>1 DEF Serve, TypeOK
  <2>2. reply'[r].created = (op[r] = "put_if_absent" /\ redis[Key(r)] = None)
    BY DEF Serve, TypeOK
  <2>3. op[r] = "reget" => redis[Key(r)] # None
    BY <1>1 DEF Undisturbed, Running
  <2>4. Told(r)'
    <3>1. reply'[r].created => op[r] = "put_if_absent"
      BY <2>2
    <3> QED
      BY <1>1, <1>2, <1>3, <2>1, <2>3, <3>1 DEF Told, Writes
  <2> QED
    BY <1>1, <1>2, <1>3, <2>1, <2>3, <2>4 DEF Undisturbed
<1> QED
  BY <1>1, <1>4, <1>5, TypeStep

(* What the processor does with a reply, case by case. *)
LEMMA ReplyCases ==
    ASSUME NominalInv, NEW r \in Requests, ReplyArrives(r)
    PROVE  \/ /\ op[r] \in {"get", "reget"} /\ HasRead(r)
              /\ Seen(r) = Error("new_text") /\ Send(r, "put")
           \/ /\ op[r] \in {"get", "reget"} /\ HasRead(r)
              /\ Seen(r) # Error("new_text") /\ Respond(r, Seen(r))
           \/ op[r] = "get" /\ ~HasRead(r) /\ Send(r, "put_if_absent")
           \/ op[r] = "put_if_absent" /\ ~HasRead(r) /\ reply[r].created
              /\ Respond(r, OwnMask(r))
           \/ op[r] = "put_if_absent" /\ ~HasRead(r) /\ ~reply[r].created
              /\ Send(r, "reget")
           \/ op[r] = "put" /\ ~HasRead(r) /\ Respond(r, OwnMask(r))
<1> USE DEF NominalInv
<1>1. /\ stage[r] = "served" /\ Served(r) /\ op[r] \in Ops
      /\ Continue(r, Found(r), reply[r].created)
  BY DEF ReplyArrives, Served, TypeOK
<1>2. Told(r)
  BY <1>1 DEF Undisturbed
<1>3. Found(r) = reply[r].record
  BY <1>1, InputType DEF Found, Remembered
<1>4. CASE op[r] \in {"get", "reget"} /\ reply[r].record # None
  <2>1. HasRead(r)
    BY <1>1, <1>4 DEF HasRead
  <2>2. AnswerFrom(r, reply[r].record)
    BY <1>1, <1>3, <1>4 DEF Continue, AfterGet
  <2>3. Seen(r).direction = "new_text" <=> Seen(r) = Error("new_text")
    BY DEF Seen, Verdict, Error
  <2>4. IF Seen(r).direction = "new_text" THEN Send(r, "put") ELSE Respond(r, Seen(r))
    BY <2>2 DEF AnswerFrom, Seen
  <2> QED
    BY <1>4, <2>1, <2>3, <2>4
<1>5. CASE op[r] \in {"get", "reget"} /\ reply[r].record = None
  <2>1. op[r] = "get"
    BY <1>2, <1>5 DEF Told
  <2>2. Send(r, "put_if_absent")
    BY <1>1, <1>3, <1>5, <2>1 DEF Continue, AfterGet
  <2> QED
    BY <1>5, <2>1, <2>2 DEF HasRead
<1>6. CASE op[r] = "put_if_absent"
  <2>1. AfterPutIfAbsent(r, reply[r].created)
    BY <1>1, <1>6 DEF Continue
  <2>2. ~HasRead(r)
    BY <1>2, <1>6 DEF Told, HasRead, Writes
  <2> QED
    BY <1>6, <2>1, <2>2 DEF AfterPutIfAbsent
<1>7. CASE op[r] = "put"
  <2>1. AfterPut(r)
    BY <1>1, <1>7 DEF Continue
  <2>2. ~HasRead(r)
    BY <1>2, <1>7 DEF Told, HasRead, Writes
  <2> QED
    BY <1>7, <2>1, <2>2 DEF AfterPut
<1> QED
  BY <1>1, <1>4, <1>5, <1>6, <1>7 DEF Ops

LEMMA ReplyUndisturbed ==
    ASSUME NominalInv, [Next]_vars, NEW r \in Requests, ReplyArrives(r)
    PROVE  NominalInv'
<1> USE DEF NominalInv
<1>1. stage[r] = "served" /\ UNCHANGED <<redis, memory, late, input, reply>>
  BY DEF ReplyArrives
<1>2. Told(r) /\ Key(r)' = Key(r)
  BY <1>1 DEF Undisturbed, Served, Key
<1>3. (\E o : Send(r, o)) \/ (\E a : Respond(r, a))
  BY ReplyCases
<1>4. ASSUME NEW q \in Requests, q # r
      PROVE  Undisturbed(q)'
  <2>1. stage'[q] = stage[q] /\ op'[q] = op[q]
    BY <1>3, <1>4 DEF Send, Respond, TypeOK
  <2> QED
    BY <1>1, <2>1, StaysUndisturbed
<1>5. Undisturbed(r)'
  <2>1. ASSUME NEW o, Send(r, o), o = "reget" => redis[Key(r)] # None
        PROVE  Undisturbed(r)'
    <3>1. stage'[r] = "sent" /\ op'[r] = o
      BY <2>1 DEF Send, TypeOK
    <3> QED
      BY <1>1, <1>2, <2>1, <3>1 DEF Undisturbed, Served
  <2>2. ASSUME NEW a, Respond(r, a)
        PROVE  Undisturbed(r)'
    <3>1. stage'[r] = "answered"
      BY <2>2 DEF Respond, TypeOK
    <3> QED
      BY <3>1 DEF Undisturbed, Running, Served
  <2> QED
    BY <1>2, <2>1, <2>2, ReplyCases DEF Told
<1> QED
  BY <1>1, <1>4, <1>5, TypeStep

LEMMA NominalInvariance ==
    ASSUME NoFaults
    PROVE  Spec => []NominalInv
<1>1. Init => NominalInv
  BY TypeInit DEF Init, NominalInv, Undisturbed, Running, Served
<1>2. NominalInv /\ [Next]_vars => NominalInv'
  <2> SUFFICES ASSUME NominalInv, [Next]_vars PROVE NominalInv'
    OBVIOUS
  <2>1. CASE Next
    BY <2>1, NominalNext, ArriveUndisturbed, ServeUndisturbed, ReplyUndisturbed
  <2>2. CASE UNCHANGED vars
    <3>1. TypeOK'
      BY TypeStep DEF NominalInv
    <3>2. \A q \in Requests : Undisturbed(q)'
      BY <2>2, StaysUndisturbed DEF vars, NominalInv
    <3> QED
      BY <2>2, <3>1, <3>2 DEF vars, NominalInv
  <2> QED
    BY <2>1, <2>2
<1> QED
  BY <1>1, <1>2, PTL DEF Spec

-----------------------------------------------------------------------------
(* The state of the contract. *)
Decisions  == [r \in Requests |-> Decision(r)]
Mismatched == {r \in Requests : op[r] = "put" \/ (HasRead(r) /\ Seen(r) = Error("new_text"))}

(* The contract speaks of the same records and verdicts. *)
LEMMA SameWords ==
    /\ \A t, s : Contract!NewRecord(t, s) = NewRecord(t, s)
    /\ \A t, s : Contract!Masked(t, s) = Masked(t, s)
    /\ \A e : Contract!Error(e) = Error(e)
    /\ Contract!Pending = Pending
    /\ \A t, rec, s : Contract!Verdict(t, rec, s) = Verdict(t, rec, s)
  BY DEF Contract!NewRecord, NewRecord, Contract!Masked, Masked, Contract!Error, Error,
         Contract!Pending, Pending, Contract!Verdict, Verdict

(* What a request counts for in the contract does not change with its      *)
(* neighbours.                                                             *)
LEMMA SameDecision ==
    ASSUME NEW q \in Requests, stage'[q] = stage[q], op'[q] = op[q],
           reply'[q] = reply[q], input'[q] = input[q], answer'[q] = answer[q]
    PROVE  /\ Decision(q)' = Decision(q)
           /\ q \in Mismatched' <=> q \in Mismatched
<1>1. /\ Payload(q)' = Payload(q) /\ System(q)' = System(q)
      /\ Served(q)' = Served(q) /\ Answered(q)' = Answered(q)
  BY DEF Payload, System, Served, Answered
<1>2. HasRead(q)' = HasRead(q) /\ Seen(q)' = Seen(q) /\ OwnMask(q)' = OwnMask(q)
  BY <1>1 DEF HasRead, Seen, OwnMask
<1> QED
  BY <1>1, <1>2 DEF Decision, Mismatched

(* A reply on its way to the processor is no step of the contract: the     *)
(* request was decided when Redis executed its command.                    *)
LEMMA ReplyStutters ==
    ASSUME NominalInv, [Next]_vars, NEW r \in Requests, ReplyArrives(r)
    PROVE  UNCHANGED <<redis, input, Mismatched, Decisions>>
<1> USE DEF NominalInv
<1>1. stage[r] = "served" /\ UNCHANGED <<redis, input, reply>>
  BY DEF ReplyArrives
<1>2. Served(r) /\ ~Answered(r) /\ Told(r)
  BY <1>1 DEF Served, Answered, Undisturbed
<1>3. (\E o : Send(r, o)) \/ (\E a : Respond(r, a))
  BY ReplyCases
<1>4. ASSUME NEW q \in Requests, q # r
      PROVE  Decision(q)' = Decision(q) /\ (q \in Mismatched' <=> q \in Mismatched)
  <2>1. stage'[q] = stage[q] /\ op'[q] = op[q] /\ answer'[q] = answer[q]
    BY <1>3, <1>4 DEF Send, Respond, TypeOK
  <2> QED
    BY <1>1, <2>1, SameDecision
<1>5. Decision(r)' = Decision(r) /\ (r \in Mismatched' <=> r \in Mismatched)
  <2>1. ASSUME NEW o, Send(r, o)
        PROVE  /\ Decision(r)' = Pending
               /\ r \in Mismatched' <=> o = "put"
    <3>1. stage'[r] = "sent" /\ op'[r] = o
      BY <2>1 DEF Send, TypeOK
    <3>2. ~Answered(r)' /\ ~HasRead(r)' /\ ~Served(r)'
      BY <3>1 DEF Answered, HasRead, Served
    <3> QED
      BY <3>1, <3>2 DEF Decision, Mismatched
  <2>2. ASSUME NEW a, Respond(r, a)
        PROVE  /\ Decision(r)' = a
               /\ r \in Mismatched' <=> op[r] = "put"
    <3>1. stage'[r] = "answered" /\ op'[r] = op[r] /\ answer'[r] = a
      BY <2>2 DEF Respond, TypeOK
    <3>2. Answered(r)' /\ ~HasRead(r)' /\ ~Served(r)'
      BY <3>1 DEF Answered, HasRead, Served
    <3> QED
      BY <3>1, <3>2 DEF Decision, Mismatched
  <2>3. CASE op[r] \in {"get", "reget"} /\ HasRead(r)
    <3>1. ~reply[r].created
      BY <1>2, <2>3 DEF Told
    <3>2. CASE Seen(r) = Error("new_text") /\ Send(r, "put")
      <4>1. Decision(r) = Pending
        BY <1>2, <2>3, <3>1, <3>2 DEF Decision
      <4>2. r \in Mismatched
        BY <2>3, <3>2 DEF Mismatched
      <4> QED
        BY <2>1, <3>2, <4>1, <4>2
    <3>3. CASE Seen(r) # Error("new_text") /\ Respond(r, Seen(r))
      <4>1. Decision(r) = Seen(r)
        BY <1>2, <2>3, <3>1, <3>3 DEF Decision
      <4>2. r \notin Mismatched
        BY <2>3, <3>3 DEF Mismatched
      <4> QED
        BY <2>2, <2>3, <3>3, <4>1, <4>2
    <3> QED
      BY <2>3, <3>2, <3>3, ReplyCases
  <2>4. CASE /\ op[r] \in {"get", "put_if_absent"} /\ ~HasRead(r) /\ ~reply[r].created
             /\ \E o \in {"put_if_absent", "reget"} : Send(r, o)
    <3>1. Decision(r) = Pending
      BY <1>2, <2>4 DEF Decision
    <3>2. r \notin Mismatched
      BY <2>4 DEF Mismatched
    <3> QED
      BY <2>1, <2>4, <3>1, <3>2
  <2>5. CASE ~HasRead(r) /\ (op[r] = "put" \/ (op[r] = "put_if_absent" /\ reply[r].created))
             /\ Respond(r, OwnMask(r))
    <3>1. Decision(r) = OwnMask(r)
      BY <1>2, <2>5 DEF Decision
    <3>2. r \in Mismatched <=> op[r] = "put"
      BY <2>5 DEF Mismatched
    <3> QED
      BY <2>2, <2>5, <3>1, <3>2
  <2>6. op[r] = "get" => ~reply[r].created
    BY <1>2 DEF Told
  <2> QED
    BY <2>3, <2>4, <2>5, <2>6, ReplyCases
<1>6. Decisions' = Decisions
  BY <1>4, <1>5 DEF Decisions
<1>7. Mismatched' = Mismatched
  <2>1. Mismatched \subseteq Requests /\ Mismatched' \subseteq Requests
    BY DEF Mismatched
  <2> QED
    BY <1>4, <1>5, <2>1
<1> QED
  BY <1>1, <1>6, <1>7

(* A request that arrives is opened. *)
LEMMA ArriveOpens ==
    ASSUME NominalInv, [Next]_vars, NEW r \in Requests, NEW w \in Workers,
           NEW k \in Keys, NEW s \in Systems, NEW t \in Texts,
           Arrive(r, w, k, s, t)
    PROVE  \E i \in Inputs :
              /\ input[r] = None
              /\ input' = [input EXCEPT ![r] = i]
              /\ Decisions' = [Decisions EXCEPT ![r] =
                                 IF i.system \in Enabled THEN Pending
                                 ELSE Error("system_not_allowed")]
              /\ UNCHANGED <<redis, Mismatched>>
<1> USE DEF NominalInv
<1> DEFINE i == [worker |-> w, key |-> k, system |-> s, payload |-> t]
<1>1. /\ i \in Inputs /\ stage[r] = "idle" /\ input[r] = None /\ op[r] = "get"
      /\ input' = [input EXCEPT ![r] = i] /\ UNCHANGED <<redis, reply>>
  BY DEF Arrive, Undisturbed, Inputs
<1>2. /\ s \in Enabled => Send(r, "get")
      /\ s \notin Enabled => Respond(r, Error("system_not_allowed"))
  BY DEF Arrive
<1>3. ASSUME NEW q \in Requests, q # r
      PROVE  Decision(q)' = Decision(q) /\ (q \in Mismatched' <=> q \in Mismatched)
  <2>1. /\ stage'[q] = stage[q] /\ op'[q] = op[q] /\ answer'[q] = answer[q]
        /\ input'[q] = input[q]
    BY <1>1, <1>2, <1>3 DEF Send, Respond, TypeOK
  <2> QED
    BY <1>1, <2>1, SameDecision
<1>4. r \notin Mismatched
  BY <1>1 DEF Mismatched, HasRead, Served
<1>5. s \in Enabled => Decision(r)' = Pending /\ r \notin Mismatched'
  <2> HAVE s \in Enabled
  <2>1. stage'[r] = "sent" /\ op'[r] = "get"
    BY <1>2 DEF Send, TypeOK
  <2> QED
    BY <2>1 DEF Decision, Mismatched, HasRead, Served, Answered
<1>6. s \notin Enabled => Decision(r)' = Error("system_not_allowed") /\ r \notin Mismatched'
  <2> HAVE s \notin Enabled
  <2>1. stage'[r] = "answered" /\ op'[r] = "get" /\ answer'[r] = Error("system_not_allowed")
    BY <1>1, <1>2 DEF Respond, TypeOK
  <2> QED
    BY <2>1 DEF Decision, Mismatched, HasRead, Served, Answered
<1>7. Mismatched' = Mismatched
  <2>1. Mismatched \subseteq Requests /\ Mismatched' \subseteq Requests
    BY DEF Mismatched
  <2>2. r \notin Mismatched'
    BY <1>5, <1>6
  <2> QED
    BY <1>3, <1>4, <2>1, <2>2
<1>8. Decisions' = [Decisions EXCEPT ![r] = IF s \in Enabled THEN Pending
                                            ELSE Error("system_not_allowed")]
  BY <1>3, <1>5, <1>6 DEF Decisions
<1>9. i.system = s
  OBVIOUS
<1> QED
  BY <1>1, <1>7, <1>8, <1>9

(* Redis executes a command: the request is decided by the record of that  *)
(* instant, makes the record, or learns that the record is another text's. *)
LEMMA ServeDecides ==
    ASSUME NominalInv, [Next]_vars, NEW r \in Requests, Serve(r)
    PROVE  /\ input[r] # None /\ Decision(r) = Pending /\ input' = input
           /\ \/ UNCHANGED <<redis, Mismatched, Decisions>>
              \/ /\ redis[Key(r)] = None
                 /\ redis' = [redis EXCEPT ![Key(r)] = OwnRecord(r)]
                 /\ Decisions' = [Decisions EXCEPT ![r] = OwnMask(r)]
                 /\ Mismatched' = Mismatched
              \/ LET said == Verdict(Payload(r), redis[Key(r)], System(r))
                 IN  /\ redis[Key(r)] # None /\ said # Error("new_text")
                     /\ Decisions' = [Decisions EXCEPT ![r] = said]
                     /\ UNCHANGED <<redis, Mismatched>>
              \/ /\ redis[Key(r)] # None
                 /\ Verdict(Payload(r), redis[Key(r)], System(r)) = Error("new_text")
                 /\ Mismatched' = Mismatched \cup {r}
                 /\ UNCHANGED <<redis, Decisions>>
              \/ /\ r \in Mismatched
                 /\ redis' = [redis EXCEPT ![Key(r)] = OwnRecord(r)]
                 /\ Decisions' = [Decisions EXCEPT ![r] = OwnMask(r)]
                 /\ Mismatched' = Mismatched
<1> USE DEF NominalInv
<1> DEFINE said == Verdict(Payload(r), redis[Key(r)], System(r))
<1>1. /\ stage[r] = "sent" /\ stage'[r] = "served" /\ op[r] \in Ops
      /\ UNCHANGED <<input, op, answer>>
      /\ redis' = Execute(redis, op[r], Key(r), OwnRecord(r))
      /\ \A q \in Requests : q # r => stage'[q] = stage[q] /\ reply'[q] = reply[q]
  BY DEF Serve, TypeOK
<1>2. /\ reply'[r].record = IF op[r] \in Writes THEN None ELSE redis[Key(r)]
      /\ reply'[r].created = (op[r] = "put_if_absent" /\ redis[Key(r)] = None)
  BY DEF Serve, TypeOK
<1>3. input[r] # None
  BY <1>1, InputType, ServiceAssumption
<1>4. ~Answered(r) /\ ~Served(r) /\ ~HasRead(r)
  BY <1>1 DEF Answered, Served, HasRead
<1>5. Decision(r) = Pending /\ (r \in Mismatched <=> op[r] = "put")
  BY <1>4 DEF Decision, Mismatched
<1>6. /\ Served(r)' /\ ~Answered(r)'
      /\ HasRead(r)' <=> op[r] \notin Writes /\ redis[Key(r)] # None
      /\ Payload(r)' = Payload(r) /\ System(r)' = System(r) /\ OwnMask(r)' = OwnMask(r)
  BY <1>1, <1>2 DEF Served, Answered, HasRead, Payload, System, OwnMask
<1>7. HasRead(r)' => Seen(r)' = said
  BY <1>2, <1>6 DEF Seen
<1>8. /\ \A q \in Requests \ {r} : Decision(q)' = Decision(q)
      /\ \A q \in Requests \ {r} : q \in Mismatched' <=> q \in Mismatched
      /\ Mismatched \subseteq Requests /\ Mismatched' \subseteq Requests
  <2>1. ASSUME NEW q \in Requests \ {r}
        PROVE  Decision(q)' = Decision(q) /\ (q \in Mismatched' <=> q \in Mismatched)
    BY <1>1, SameDecision
  <2>2. Mismatched \subseteq Requests /\ Mismatched' \subseteq Requests
    BY DEF Mismatched
  <2> QED
    BY <2>1, <2>2
<1>9. ASSUME NEW a, Decision(r)' = a
      PROVE  Decisions' = [Decisions EXCEPT ![r] = a]
  BY <1>8, <1>9 DEF Decisions
<1>10. Decision(r)' = Pending => Decisions' = Decisions
  BY <1>5, <1>8 DEF Decisions
<1>11. r \in Mismatched' <=> op[r] = "put" \/ (HasRead(r)' /\ said = Error("new_text"))
  BY <1>1, <1>7 DEF Mismatched
<1> HIDE DEF said
<1>12. CASE op[r] \in {"get", "reget"}
  <2>1. redis' = redis /\ op[r] \notin Writes
    BY <1>1, <1>12 DEF Execute, Writes
  <2>2. ~reply'[r].created /\ op'[r] # "put"
    BY <1>1, <1>2, <1>12
  <2>3. CASE redis[Key(r)] = None
    <3>1. Decision(r)' = Pending
      BY <1>6, <2>2, <2>3 DEF Decision
    <3>2. Mismatched' = Mismatched
      BY <1>5, <1>6, <1>8, <1>11, <1>12, <2>3
    <3> QED
      BY <1>1, <1>3, <1>5, <1>10, <2>1, <3>1, <3>2
  <2>4. CASE redis[Key(r)] # None /\ said # Error("new_text")
    <3>1. Decision(r)' = said
      BY <1>6, <1>7, <2>1, <2>2, <2>4 DEF Decision, Error
    <3>2. Mismatched' = Mismatched
      BY <1>5, <1>8, <1>11, <1>12, <2>4
    <3> QED
      BY <1>1, <1>3, <1>5, <1>9, <2>1, <2>4, <3>1, <3>2 DEF said
  <2>5. CASE redis[Key(r)] # None /\ said = Error("new_text")
    <3>1. Decision(r)' = Pending
      BY <1>6, <1>7, <2>2, <2>5 DEF Decision, Error
    <3>2. Mismatched' = Mismatched \cup {r}
      BY <1>6, <1>8, <1>11, <2>1, <2>5
    <3> QED
      BY <1>1, <1>3, <1>5, <1>10, <2>1, <2>5, <3>1, <3>2 DEF said
  <2> QED
    BY <2>3, <2>4, <2>5
<1>13. CASE op[r] = "put_if_absent"
  <2>1. ~HasRead(r)' /\ op'[r] # "put"
    BY <1>1, <1>6, <1>13 DEF Writes
  <2>2. Mismatched' = Mismatched
    BY <1>5, <1>8, <1>11, <1>13, <2>1
  <2>3. CASE redis[Key(r)] = None
    <3>1. redis' = [redis EXCEPT ![Key(r)] = OwnRecord(r)]
      BY <1>1, <1>13, <2>3 DEF Execute, PutIfAbsent
    <3>2. Decision(r)' = OwnMask(r)
      BY <1>2, <1>6, <1>13, <2>1, <2>3 DEF Decision
    <3> QED
      BY <1>1, <1>3, <1>5, <1>9, <2>2, <2>3, <3>1, <3>2
  <2>4. CASE redis[Key(r)] # None
    <3>1. redis' = redis
      BY <1>1, <1>13, <2>4 DEF Execute, PutIfAbsent
    <3>2. Decision(r)' = Pending
      BY <1>2, <1>6, <1>13, <2>1, <2>4 DEF Decision
    <3> QED
      BY <1>1, <1>3, <1>5, <1>10, <2>2, <3>1, <3>2
  <2> QED
    BY <2>3, <2>4
<1>14. CASE op[r] = "put"
  <2>1. ~HasRead(r)' /\ op'[r] = "put"
    BY <1>1, <1>6, <1>14 DEF Writes
  <2>2. redis' = [redis EXCEPT ![Key(r)] = OwnRecord(r)]
    BY <1>1, <1>14 DEF Execute, Put
  <2>3. Decision(r)' = OwnMask(r)
    BY <1>6, <2>1 DEF Decision
  <2>4. r \in Mismatched /\ Mismatched' = Mismatched
    BY <1>5, <1>8, <1>11, <1>14
  <2> QED
    BY <1>1, <1>3, <1>5, <1>9, <2>2, <2>3, <2>4
<1> QED
  BY <1>1, <1>12, <1>13, <1>14 DEF Ops

-----------------------------------------------------------------------------
(* The initial states and the steps of the service are states and steps of *)
(* the contract.                                                           *)
LEMMA ContractInit == Init => Contract!Init
<1> SUFFICES ASSUME Init PROVE Contract!Init
  OBVIOUS
<1>1. \A r \in Requests : ~Answered(r) /\ ~Served(r) /\ ~HasRead(r) /\ op[r] # "put"
  BY DEF Init, Answered, Served, HasRead
<1>2. \A r \in Requests : Decision(r) = Pending
  BY <1>1 DEF Decision
<1> QED
  BY <1>1, <1>2, SameWords DEF Init, Contract!Init

LEMMA ContractStep ==
    ASSUME NoFaults, NominalInv, [Next]_vars
    PROVE  [Contract!Next]_(Contract!vars)
<1> USE DEF NominalInv
<1>1. UNCHANGED <<redis, input, Mismatched, Decisions>> => UNCHANGED Contract!vars
  BY DEF Contract!vars, Mismatched, Decisions
<1>2. ASSUME NEW r \in Requests, NEW w \in Workers, NEW k \in Keys,
             NEW s \in Systems, NEW t \in Texts, Arrive(r, w, k, s, t)
      PROVE  Contract!Next
  <2>1. PICK i \in Inputs :
           /\ input[r] = None
           /\ input' = [input EXCEPT ![r] = i]
           /\ Decisions' = [Decisions EXCEPT ![r] =
                              IF i.system \in Enabled THEN Pending
                              ELSE Error("system_not_allowed")]
           /\ UNCHANGED <<redis, Mismatched>>
    BY <1>2, ArriveOpens
  <2>2. Contract!Open(r, i)
    BY <2>1, SameWords DEF Contract!Open, Decisions, Mismatched
  <2> QED
    BY <2>2 DEF Contract!Next
<1>3. ASSUME NEW r \in Requests, Serve(r)
      PROVE  Contract!Next \/ UNCHANGED Contract!vars
  <2> DEFINE said == Verdict(Payload(r), redis[Key(r)], System(r))
  <2>1. Decisions[r] = Pending
    BY <1>3, ServeDecides DEF Decisions
  <2>2. Contract!Undecided(r)
    BY <1>3, <2>1, ServeDecides, SameWords DEF Contract!Undecided, Decisions
  <2>3. Contract!Present(r) <=> redis[Key(r)] # None
    BY DEF Contract!Present, Key
  <2>4. Contract!Consulted(r) = said
    BY SameWords DEF Contract!Consulted, Payload, System, Key
  <2>5. ASSUME redis' = [redis EXCEPT ![Key(r)] = OwnRecord(r)]
        PROVE  Contract!Store(r)
    BY <2>5, SameWords DEF Contract!Store, OwnRecord, Payload, System, Key
  <2>6. ASSUME NEW a, Decisions' = [Decisions EXCEPT ![r] = a], Mismatched' = Mismatched
        PROVE  Contract!Decide(r, a)
    BY <1>3, <2>2, <2>6, ServeDecides DEF Contract!Decide, Decisions, Mismatched
  <2>7. OwnMask(r) = Contract!Masked(input[r].payload, input[r].system)
    BY SameWords DEF OwnMask, Payload, System
  <2>8. CASE UNCHANGED <<redis, Mismatched, Decisions>>
    BY <1>1, <1>3, <2>8, ServeDecides
  <2>9. CASE /\ redis[Key(r)] = None
             /\ redis' = [redis EXCEPT ![Key(r)] = OwnRecord(r)]
             /\ Decisions' = [Decisions EXCEPT ![r] = OwnMask(r)]
             /\ Mismatched' = Mismatched
    <3>1. Contract!Create(r)
      BY <2>2, <2>3, <2>5, <2>6, <2>7, <2>9 DEF Contract!Create
    <3> QED
      BY <3>1 DEF Contract!Next
  <2>10. CASE /\ redis[Key(r)] # None /\ said # Error("new_text")
              /\ Decisions' = [Decisions EXCEPT ![r] = said]
              /\ UNCHANGED <<redis, Mismatched>>
    <3>1. Contract!Consult(r)
      BY <2>2, <2>3, <2>4, <2>6, <2>10, SameWords DEF Contract!Consult
    <3> QED
      BY <3>1 DEF Contract!Next
  <2>11. CASE /\ redis[Key(r)] # None /\ said = Error("new_text")
              /\ Mismatched' = Mismatched \cup {r}
              /\ UNCHANGED <<redis, Decisions>>
    <3>1. Contract!Mismatch(r)
      BY <1>3, <2>2, <2>3, <2>4, <2>11, ServeDecides, SameWords
         DEF Contract!Mismatch, Mismatched, Decisions
    <3> QED
      BY <3>1 DEF Contract!Next
  <2>12. CASE /\ r \in Mismatched
              /\ redis' = [redis EXCEPT ![Key(r)] = OwnRecord(r)]
              /\ Decisions' = [Decisions EXCEPT ![r] = OwnMask(r)]
              /\ Mismatched' = Mismatched
    <3>1. Contract!Replace(r)
      BY <2>5, <2>6, <2>7, <2>12 DEF Contract!Replace, Mismatched
    <3> QED
      BY <3>1 DEF Contract!Next
  <2> QED
    BY <1>3, <2>8, <2>9, <2>10, <2>11, <2>12, ServeDecides
<1>4. ASSUME NEW r \in Requests, ReplyArrives(r)
      PROVE  UNCHANGED Contract!vars
  BY <1>1, <1>4, ReplyStutters
<1>5. CASE UNCHANGED vars
  <2>1. \A q \in Requests : Decision(q)' = Decision(q)
                            /\ (q \in Mismatched' <=> q \in Mismatched)
    BY <1>5, SameDecision DEF vars
  <2>2. Decisions' = Decisions
    BY <2>1 DEF Decisions
  <2>3. Mismatched \subseteq Requests /\ Mismatched' \subseteq Requests
    BY DEF Mismatched
  <2> QED
    BY <1>1, <1>5, <2>1, <2>2, <2>3 DEF vars
<1> QED
  BY <1>2, <1>3, <1>4, <1>5, NominalNext

(* Without faults the four store operations of every request, interleaved  *)
(* with those of all the others, implement one atomic decision.            *)
THEOREM ContractImplemented ==
    ASSUME NoFaults
    PROVE  Spec => ContractKept
<1>1. NominalInv /\ [Next]_vars => [Contract!Next]_(Contract!vars)
  BY ContractStep
<1> QED
  BY <1>1, ContractInit, NominalInvariance, PTL DEF Spec, ContractKept, Contract!Spec
=============================================================================
