------------------------- MODULE ProcessProperties --------------------------
(***************************************************************************)
(* What the workers of ProcessService must keep true together.             *)
(***************************************************************************)
EXTENDS ProcessService

(* Every variable of the service stays in its range. *)
TypeOK ==
    /\ redis \in [Keys -> MappingRecord \cup {None}]
    /\ memory \in [Workers -> [Keys -> MappingRecord \cup {None}]]
    /\ late \subseteq Commands
    /\ input \in [Requests -> Inputs \cup {None}]
    /\ stage \in [Requests -> Stages]
    /\ \A r \in Requests : stage[r] # "idle" => input[r] \in Inputs
    /\ op \in [Requests -> Ops]
    /\ retried \in [Requests -> BOOLEAN]
    /\ reply \in [Requests -> Replies]
    /\ answer \in [Requests -> Outcome]
    /\ degraded \subseteq Workers
    /\ faults \in [{"timeouts", "disconnects", "losses", "restarts"} -> Nat]

Answered(r)    == stage[r] = "answered"
Direction(r)   == answer[r].direction
Result(r)      == answer[r].result
IsMasking(r)   == Answered(r) /\ Direction(r) \in {"mask", "mask_retry"}
Submitted(k)   == {Payload(r) : r \in {q \in Requests : stage[q] # "idle" /\ Key(q) = k}}

-----------------------------------------------------------------------------
(* An unmasking answer is justified by a text that was itself submitted    *)
(* under the same payload_id: its mask was the payload, or its fragments   *)
(* restore the payload.  Whatever is lost, late or served from a worker's  *)
(* memory, no record ever answers for another key (RecordCodec binds it to *)
(* its key) and none is made up.                                           *)
Justified(r) ==
    /\ Direction(r) = "unmask" =>
          /\ Result(r) \in Submitted(Key(r))
          /\ \E s \in Systems : Payload(r) = MaskOf(Result(r), s)
    /\ Direction(r) = "unmask_fragments" =>
          \E t \in Submitted(Key(r)), s \in Systems :
             UnmaskFragments(Payload(r), FragmentsOf(t, s))
                = [text |-> Result(r), replaced |-> TRUE]

UnmaskJustified == \A r \in Requests : Answered(r) => Justified(r)

(* A system without the unmask right is only ever given back its own       *)
(* payload or a mask of it (UnmaskForbiddenError in Processor._existing),  *)
(* although records are shared by all systems that use the payload_id.     *)
LearnsNothing(r) ==
    Direction(r) \in Success /\ System(r) \notin Unmaskers =>
       Result(r) \in {Payload(r)} \cup {MaskOf(Payload(r), s) : s \in Systems}

ForbiddenLearnsNothing == \A r \in Requests : Answered(r) => LearnsNothing(r)

(* FallbackStore takes a timeout for a busy Redis, not for a dead one:     *)
(* memory is used only after a connection error, and a 503 costs two       *)
(* timeouts.                                                               *)
TimeoutsNeverDegrade ==
    /\ \A w \in Workers, k \in Keys :
          memory[w][k] # None => w \in degraded
    /\ Cardinality(degraded) <= faults.disconnects
    /\ 2 * Cardinality({r \in Requests : Direction(r) = "store_unavailable"})
          <= faults.timeouts

-----------------------------------------------------------------------------
(* The next four speak of clients that use a payload_id for one text, its  *)
(* mask and the replies that carry its labels, and of a Redis that may be  *)
(* slow or run a command late but keeps its records.                       *)
OneTextDiscipline ==
    /\ \A k \in Keys, t, u \in Texts :
          <<k, t>> \in Originals /\ <<k, u>> \in Originals => t = u
    /\ \A k \in Keys, t \in Texts, s \in Systems :
          <<k, t>> \in Originals =>
             /\ ~UnmaskFragments(t, FragmentsOf(t, s)).replaced
             /\ \A e \in Echoes(MaskOf(t, s)) \ {MaskOf(t, s)} :
                   UnmaskFragments(e, FragmentsOf(t, s)).replaced
    /\ MaxDisconnects = 0 /\ MaxLosses = 0

(* An answered mask stays in Redis: whoever was given it can have it       *)
(* reversed later, at any worker; so all answers to one text carry the     *)
(* same mask and retries are safe (README.md), whichever system asked.     *)
AnsweredMaskIsStored ==
    \A r \in Requests :
       IsMasking(r) =>
          /\ redis[Key(r)] # None
          /\ redis[Key(r)].masked = Result(r)
          /\ redis[Key(r)].original = Payload(r)

(* A mask that was answered is turned back into its text, never into the   *)
(* mask itself (README.md: "без тихой подмены ответа").                    *)
RoundTrip ==
    \A r, q \in Requests :
       /\ IsMasking(q) /\ Answered(r) /\ Key(r) = Key(q)
       /\ Payload(r) = Result(q) /\ Payload(r) # Payload(q)
       /\ System(r) \in Unmaskers
       => \/ Direction(r) = "unmask" /\ Result(r) = Payload(q)
          \/ Direction(r) \in {"store_unavailable", "system_not_allowed"}

(* A text that carries labels of an answered mask is restored by fragments *)
(* (README.md, the table of /process, last row).                           *)
RepliesRestored ==
    \A r, q \in Requests :
       LET restored == UnmaskFragments(Payload(r), OwnRecord(q).fragments)
       IN  /\ IsMasking(q) /\ Direction(q) = "mask"
           /\ Answered(r) /\ Key(r) = Key(q) /\ System(r) \in Unmaskers
           /\ restored.replaced /\ Payload(r) # Result(q)
           => \/ Direction(r) = "unmask_fragments" /\ Result(r) = restored.text
              \/ Direction(r) \in {"store_unavailable", "system_not_allowed"}

(* The first record of a key is the last: SET NX never overwrites it, a    *)
(* late or repeated command neither.                                       *)
WrittenOnce ==
    [][\A k \in Keys : redis[k] # None => redis'[k] = redis[k]]_vars

(* Every request that was admitted comes to an end. *)
EveryRequestEnds ==
    \A r \in Requests : Running(r) ~> ~Running(r)

-----------------------------------------------------------------------------
(* A claim of README.md that a connection error refutes.                   *)

(* "новый id: маска, соответствие сохраняется": an answered mask is kept   *)
(* in some store while nothing is lost.                                    *)
AnsweredMaskIsKept ==
    \A r \in Requests :
       IsMasking(r) =>
          \E store \in {redis} \cup {memory[w] : w \in Workers} :
             /\ store[Key(r)] # None
             /\ store[Key(r)].masked = Result(r)
             /\ store[Key(r)].original = Payload(r)

-----------------------------------------------------------------------------
(* A request is decided when the command that settles it is executed, not  *)
(* when it resumes with the reply.                                         *)
Served(r)  == stage[r] = "served"
HasRead(r) == Served(r) /\ reply[r].record # None
Seen(r)    == Verdict(Payload(r), reply[r].record, System(r))

Decision(r) ==
    CASE Answered(r) -> answer[r]
      [] HasRead(r) /\ Seen(r) # Error("new_text") -> Seen(r)
      [] Served(r) /\ (reply[r].created \/ op[r] = "put") -> OwnMask(r)
      [] OTHER -> Pending

Contract == INSTANCE RequestContract
    WITH record <- redis,
         verdict <- [r \in Requests |-> Decision(r)],
         mismatched <- {r \in Requests :
                          op[r] = "put" \/ (HasRead(r) /\ Seen(r) = Error("new_text"))}

(* While Redis neither fails nor forgets, the read, the conditional write, *)
(* the second read and the write of a request appear as steps of the       *)
(* contract: a request is decided by the record of one instant, and a key  *)
(* without a record gets one from a single request.                        *)
ContractKept == Contract!Spec
=============================================================================
