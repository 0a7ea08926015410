-------------------------- MODULE RequestContract ---------------------------
(***************************************************************************)
(* What POST /process promises about one payload_id (README.md, the table  *)
(* "Логика /process"; app/core/processor.py) as if every request took      *)
(* effect at one instant: one record per key, and a request either creates *)
(* it, is decided by it, or replaces it with a new text.                   *)
(***************************************************************************)
EXTENDS MappingRecords

CONSTANTS
    Requests,
    Inputs      \* records with at least the fields key, system and payload

VARIABLES
    record,     \* the record of each key, or None
    input,      \* what each request carries, None before it arrives
    mismatched, \* requests that found the record of another text
    verdict     \* the outcome of each request once it is decided

vars == <<record, input, mismatched, verdict>>

Init ==
    /\ record = [k \in Keys |-> None]
    /\ input = [r \in Requests |-> None]
    /\ mismatched = {}
    /\ verdict = [r \in Requests |-> Pending]

(* A request arrives; a system that is not enabled is refused on the spot. *)
Open(r, i) ==
    /\ input[r] = None
    /\ input' = [input EXCEPT ![r] = i]
    /\ verdict' = [verdict EXCEPT ![r] =
                     IF i.system \in Enabled THEN Pending
                                             ELSE Error("system_not_allowed")]
    /\ UNCHANGED <<record, mismatched>>

Undecided(r) == input[r] # None /\ verdict[r] = Pending

Decide(r, outcome) ==
    /\ Undecided(r)
    /\ verdict' = [verdict EXCEPT ![r] = outcome]
    /\ UNCHANGED <<input, mismatched>>

Store(r) ==
    record' = [record EXCEPT ![input[r].key] =
                 NewRecord(input[r].payload, input[r].system)]

Present(r) == record[input[r].key] # None

(* What the record of its key says about r. *)
Consulted(r) == Verdict(input[r].payload, record[input[r].key], input[r].system)

(* The first text of a key: masked, and its record kept. *)
Create(r) ==
    /\ Undecided(r) /\ ~Present(r)
    /\ Store(r)
    /\ Decide(r, Masked(input[r].payload, input[r].system))

(* The record of the key decides the request. *)
Consult(r) ==
    /\ Undecided(r) /\ Present(r) /\ Consulted(r) # Error("new_text")
    /\ Decide(r, Consulted(r))
    /\ UNCHANGED record

(* The record of the key belongs to another text: the request will replace *)
(* the record, which may be yet another one by then.                       *)
Mismatch(r) ==
    /\ Undecided(r) /\ Present(r) /\ Consulted(r) = Error("new_text")
    /\ mismatched' = mismatched \cup {r}
    /\ UNCHANGED <<record, input, verdict>>

Replace(r) ==
    /\ r \in mismatched
    /\ Store(r)
    /\ Decide(r, Masked(input[r].payload, input[r].system))

Next == \E r \in Requests :
           \/ \E i \in Inputs : Open(r, i)
           \/ Create(r) \/ Consult(r) \/ Mismatch(r) \/ Replace(r)

Spec == Init /\ [][Next]_vars
=============================================================================
