--------------------------- MODULE MappingRecords ---------------------------
(***************************************************************************)
(* The values that /process works on: texts, the mapping records that the  *)
(* stores keep (app/storage/base.py) and what Processor decides when it    *)
(* holds a text and the record stored under the same payload_id            *)
(* (app/core/processor.py).                                                *)
(*                                                                         *)
(* Detection and masking are deterministic functions of a text and of the  *)
(* policy of the calling system, so they enter as operators.  A text is    *)
(* an opaque value: only equality of texts, and whether a text holds masks *)
(* of a record, decide the direction of a request.                         *)
(***************************************************************************)

CONSTANTS
    Keys,             \* the payload_ids
    Texts,            \* the payloads and the results
    Systems,          \* the consumer systems of config/systems.yaml
    Enabled,          \* those with enabled: true
    Unmaskers,        \* those with unmask: true
    FragmentSets,     \* the possible values of MappingRecord.fragments
    MaskOf(_, _),     \* Masker.mask(detect(text), policy).text
    FragmentsOf(_, _),      \* Masker.mask(detect(text), policy).fragments
    UnmaskFragments(_, _),  \* unmask_fragments(text, fragments)
    None              \* Python's None

MappingRecord == [original: Texts, masked: Texts, fragments: FragmentSets]

ASSUME RecordsAssumption ==
    /\ None \notin MappingRecord
    /\ None \notin Texts
    /\ Enabled \subseteq Systems
    /\ Unmaskers \subseteq Systems
    /\ \A t \in Texts, s \in Systems :
          /\ MaskOf(t, s) \in Texts
          /\ FragmentsOf(t, s) \in FragmentSets
    /\ \A t \in Texts, f \in FragmentSets :
          UnmaskFragments(t, f) \in [text: Texts, replaced: BOOLEAN]

-----------------------------------------------------------------------------
(* MUTANT of NewRecord: _mask forgets to hand over the fragments. *)
RecordWithoutFragments(t, s) == [original |-> t, masked |-> MaskOf(t, s)]

(* Processor._mask: the record that masking text t for system s produces. *)
NewRecord(t, s) ==
    [original |-> t, masked |-> MaskOf(t, s), fragments |-> FragmentsOf(t, s)]

(* A ProcessOutcome, or the error that process() turns into a status code. *)
Success    == {"mask", "mask_retry", "unmask", "unmask_fragments"}
Failure    == {"system_not_allowed", "unmask_forbidden", "store_unavailable"}
Outcome    == [direction: Success, result: Texts]
                \cup [direction: Failure \cup {"pending", "new_text"}, result: {None}]
Error(e)   == [direction |-> e, result |-> None]
Pending    == Error("pending")
Masked(t, s) == [direction |-> "mask", result |-> MaskOf(t, s)]

(* MUTANT of Verdict: a payload with our masks is taken for a new text. *)
VerdictWithoutFragments(t, rec, s) ==
    CASE t = rec.masked /\ rec.masked # rec.original /\ s \notin Unmaskers
              -> Error("unmask_forbidden")
      [] t = rec.masked /\ (rec.masked = rec.original \/ s \in Unmaskers)
              -> [direction |-> "unmask", result |-> rec.original]
      [] t # rec.masked /\ t = rec.original
              -> [direction |-> "mask_retry", result |-> rec.masked]
      [] OTHER -> Error("new_text")

(* MUTANT of Verdict: the unmask right is checked for whole masks only. *)
VerdictWithoutReplyCheck(t, rec, s) ==
    LET restored == UnmaskFragments(t, rec.fragments)
        verdict  == VerdictWithoutFragments(t, rec, s)
    IN  IF verdict = Error("new_text") /\ restored.replaced
        THEN [direction |-> "unmask_fragments", result |-> restored.text]
        ELSE verdict

(* MUTANT of Verdict: a repeated text is masked anew instead of being      *)
(* answered with the stored mask.                                          *)
VerdictWithoutRetry(t, rec, s) ==
    IF t # rec.masked /\ t = rec.original
    THEN Error("new_text") ELSE VerdictWithoutReplyCheck(t, rec, s)

(* Processor._existing without its write: text t arrived under the key of  *)
(* record rec from system s.  "new_text" is the last resort: the text is   *)
(* masked afresh and its record replaces rec.                              *)
Verdict(t, rec, s) ==
    LET restored  == UnmaskFragments(t, rec.fragments)
        isMask    == t = rec.masked
        isRetry   == ~isMask /\ t = rec.original
        isReply   == ~isMask /\ ~isRetry /\ restored.replaced
        discloses == isReply \/ (isMask /\ rec.masked # rec.original)
    IN  IF discloses /\ s \notin Unmaskers
        THEN Error("unmask_forbidden")
        ELSE CASE isMask  -> [direction |-> "unmask", result |-> rec.original]
               [] isRetry -> [direction |-> "mask_retry", result |-> rec.masked]
               [] isReply -> [direction |-> "unmask_fragments",
                              result |-> restored.text]
               [] OTHER   -> Error("new_text")
=============================================================================
