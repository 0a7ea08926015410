-------------------------- MODULE DetectionEngine ---------------------------
(***************************************************************************)
(* DetectionEngine.detect (app/core/engine.py): from the candidates of all *)
(* detectors to the personal data that will be masked.  Here the detectors *)
(* are the input: Yields is what they may find, in the order of the        *)
(* registry, whatever detectors there are (TextDetection has those of the  *)
(* repository).  The two loops are the steps of the specification: the     *)
(* greedy choice of _resolve_overlaps, one candidate a step, and the       *)
(* rounds of _apply_requirements.                                          *)
(***************************************************************************)
EXTENDS Naturals, Sequences, FiniteSets, SequencesExt

CONSTANTS
    Types,      \* PDType
    Policies,   \* of the systems: the types asked for, and the types that a
                \* type must come with (pd_types, require_combination)
    Yields      \* what the detectors may find in a text

ASSUME EngineAssumption ==
    /\ \A p \in Policies : /\ p.types \subseteq Types
                           /\ p.combinations \in [Types -> SUBSET Types]
    /\ \A f \in Yields : /\ f \in Seq(Range(f))
                         /\ \A e \in Range(f) :
                              /\ e.type \in Types /\ e.requires \subseteq Types
                              /\ e.start \in Nat /\ e.end \in Nat /\ e.start < e.end
                              /\ e.priority \in Nat

VARIABLES
    policy,     \* of the system that asks
    found,      \* what the detectors yield
    queue,      \* the candidates not yet considered: their places in found
    chosen,     \* accepted so far, in the order of the text
    kept,       \* what the requirements have left of them
    phase

engineVars == <<policy, found, queue, chosen, kept, phase>>

Length(e)      == e.end - e.start
Overlap(e, f)  == e.start < f.end /\ f.start < e.end
TypesIn(s)     == {e.type : e \in s}

-----------------------------------------------------------------------------
(* MUTANT of Before: of equal candidates the one found last is the first.  *)
BeforeIfFoundLater(f, i, j) ==
    \/ f[i].priority > f[j].priority
    \/ /\ f[i].priority = f[j].priority
       /\ \/ Length(f[i]) > Length(f[j])
          \/ /\ Length(f[i]) = Length(f[j])
             /\ f[i].start < f[j].start \/ (f[i].start = f[j].start /\ j < i)

(* The order of sorted(candidates, key=(-priority, -length, start)), which *)
(* is stable: the candidate at i comes before that at j.                   *)
Before(f, i, j) ==
    \/ f[i].priority > f[j].priority
    \/ /\ f[i].priority = f[j].priority
       /\ \/ Length(f[i]) > Length(f[j])
          \/ /\ Length(f[i]) = Length(f[j])
             /\ \/ f[i].start < f[j].start
                \/ f[i].start = f[j].start /\ i < j

(* MUTANT of Candidates: the policy's types are not asked. *)
CandidatesOfAnyType(f, on) == DOMAIN f

(* detect: what the detectors found of the types that the policy asks for. *)
Candidates(f, on) == {i \in DOMAIN f : f[i].type \in on}

EngineInit ==
    /\ policy \in Policies
    /\ found = <<>> /\ queue = {} /\ chosen = <<>> /\ kept = {}
    /\ phase = "detectors"

(* The detectors have found f. *)
Collect(f) ==
    /\ phase = "detectors"
    /\ found' = f
    /\ queue' = Candidates(f, policy.types)
    /\ phase' = "overlaps"
    /\ UNCHANGED <<policy, chosen, kept>>

Detect == \E f \in Yields : Collect(f)

-----------------------------------------------------------------------------
(* bisect_left over the starts of chosen: how many lie before e. *)
Position(e) == Cardinality({i \in DOMAIN chosen : chosen[i].start < e.start})

(* MUTANT of Free: only the entity to the left is looked at. *)
FreeOnTheLeft(e) ==
    LET idx == Position(e) IN ~(idx > 0 /\ chosen[idx].end > e.start)

(* e overlaps neither of the entities it would come between. *)
Free(e) ==
    LET idx == Position(e)
    IN  /\ ~(idx > 0 /\ chosen[idx].end > e.start)
        /\ ~(idx < Len(chosen) /\ chosen[idx + 1].start < e.end)

(* One round of the loop in _resolve_overlaps: the best that is left. *)
Consider ==
    /\ phase = "overlaps"
    /\ \E i \in queue :
          /\ \A j \in queue \ {i} : Before(found, i, j)
          /\ chosen' = IF Free(found[i])
                       THEN InsertAt(chosen, Position(found[i]) + 1, found[i]) ELSE chosen
          /\ queue' = queue \ {i}
    /\ UNCHANGED <<policy, found, kept, phase>>

Resolved ==
    /\ phase = "overlaps" /\ queue = {}
    /\ kept' = Range(chosen)
    /\ phase' = "requirements"
    /\ UNCHANGED <<policy, found, queue, chosen>>

(* satisfied() of _apply_requirements. *)
Satisfied(e, present) ==
    /\ e.requires # {} => e.requires \cap present # {}
    /\ policy.combinations[e.type] # {} => policy.combinations[e.type] \cap present # {}

Supported == {e \in kept : Satisfied(e, TypesIn(kept))}

(* MUTANT of Require: the entities that rested on a dropped one stay. *)
RequireOnce ==
    /\ phase = "requirements"
    /\ kept' = Supported
    /\ phase' = "done"
    /\ UNCHANGED <<policy, found, queue, chosen>>

(* MUTANT of Require: the round is compared with the first one. *)
RequireAgainstInput ==
    /\ phase = "requirements"
    /\ kept' = Supported
    /\ phase' = IF Cardinality(Supported) = Len(chosen) THEN "done" ELSE phase
    /\ UNCHANGED <<policy, found, queue, chosen>>

(* One round of _apply_requirements; the last one drops nothing.  What is  *)
(* kept has no two entities in one place, so that the order of the list,   *)
(* by start, is not written down.                                          *)
Require ==
    /\ phase = "requirements"
    /\ kept' = Supported
    /\ phase' = IF Cardinality(Supported) = Cardinality(kept) THEN "done" ELSE phase
    /\ UNCHANGED <<policy, found, queue, chosen>>

Select == Consider \/ Resolved \/ Require

EngineNext == Detect \/ Select

EngineSpec == EngineInit /\ [][EngineNext]_engineVars /\ WF_engineVars(Select)

-----------------------------------------------------------------------------
(* What the detectors found of the types that the policy asks for. *)
Asked == {e \in Range(found) : e.type \in policy.types}

(* Every variable stays in its range, and nothing is there that no         *)
(* detector found.                                                         *)
TypeOK ==
    /\ policy \in Policies
    /\ \A i \in queue : found[i] \in Asked
    /\ Range(chosen) \subseteq Asked
    /\ kept \subseteq Range(chosen)
    /\ phase \in {"detectors", "overlaps", "requirements", "done"}

(* What is accepted is in the order of the text and nothing in it          *)
(* overlaps, although a candidate is compared with its two neighbours      *)
(* only: Masker.mask cuts the text at these intervals one after another.   *)
Disjoint ==
    /\ \A i, j \in DOMAIN chosen : i < j => chosen[i].end <= chosen[j].start
    /\ \A e, f \in kept : e # f => ~Overlap(e, f)

(* The candidate at j outranks that at i: by priority, length, start, and  *)
(* the place in the answers of the detectors - the first of these in which *)
(* they differ.                                                            *)
Outranks(j, i) ==
    LET less == <<found[i].priority, Length(found[i]), found[j].start, j>>
        more == <<found[j].priority, Length(found[j]), found[i].start, i>>
    IN  \E n \in 1 .. 4 : less[n] < more[n] /\ \A m \in 1 .. n - 1 : less[m] = more[m]

(* A candidate is left out for cause only: its requirements are not met by *)
(* what is masked, or it overlaps an accepted entity that outranks it - of *)
(* equals the one whose detector was asked first.  That entity may itself  *)
(* have been dropped by the requirements: it is not replaced by what it    *)
(* had displaced (engine.py:38).                                           *)
LeftOutForCause ==
    phase = "done" =>
       \A i \in Candidates(found, policy.types) :
          \/ found[i] \in kept
          \/ ~Satisfied(found[i], TypesIn(kept))
          \/ \E j \in Candidates(found, policy.types) :
                found[j] \in Range(chosen) /\ Overlap(found[i], found[j]) /\ Outranks(j, i)

(* The rounds end in the largest set of accepted entities that support one *)
(* another, however the requirements are chained.                          *)
Supporting(s) == \A e \in s : Satisfied(e, TypesIn(s))

LargestSupported ==
    phase = "done" => kept = UNION {s \in SUBSET Range(chosen) : Supporting(s)}

(* Once the detectors have answered, the detection ends. *)
EveryDetectionEnds == phase = "overlaps" ~> phase = "done"
=============================================================================
