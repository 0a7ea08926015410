----------------------------- MODULE ChatProxy ------------------------------
(***************************************************************************)
(* POST /chat: mask a message, send it to the LLM, restore the answer      *)
(* (app/api/chat.py, app/core/chat_proxy.py, AlfaGenClient of              *)
(* app/llm/client.py).  Calls run interleaved on one event loop and share  *)
(* the proxy, the masker and the HTTP client.                              *)
(*                                                                         *)
(* A text is a sequence of symbols: a label is the symbols Open and Close, *)
(* so that the chunks of a stream may cut it in two; a personal value and  *)
(* a word take two symbols as well.  The code up to the request to the LLM *)
(* does not suspend and is one step; then every line of the stream is one. *)
(***************************************************************************)
EXTENDS Naturals, Sequences, FiniteSets, SequencesExt

CONSTANTS
    Calls,           \* requests to /chat
    Messages,        \* what clients say
    TooLong,         \* messages longer than max_payload_chars
    Systems,         \* systems in config/systems.yaml
    Enabled,         \* those with enabled: true
    Unmaskers,       \* those with unmask: true
    Values,          \* personal data
    DataOf(_, _),    \* the values detected in a message under a policy
    LabelOf(_, _),   \* the mask a policy gives a value
    Redetected,      \* <<message, system>> whose mask is detected as data again
    MaxSaid,         \* bound: words and labels in an answer of the LLM
    None             \* Python's None

ASSUME ChatAssumption ==
    /\ Enabled \subseteq Systems /\ Unmaskers \subseteq Systems
    /\ None \notin Systems
    /\ \A m \in Messages, s \in Systems : DataOf(m, s) \subseteq Values
    /\ TooLong \subseteq Messages
    /\ MaxSaid \in Nat

VARIABLES
    request,    \* the message and the X-System-Id header of each call
    stage,      \* where each call is
    sent,       \* the labels in the text that was sent to the LLM, or None
    said,       \* what the LLM answers, as it will come in the stream
    received,   \* the chunks received so far, joined
    cuts,       \* the positions where those chunks end
    outcome,    \* status and answer of each call
    broken      \* calls whose stream or connection was at fault

vars == <<request, stage, sent, said, received, cuts, outcome, broken>>

Symbol(kind, of) == [kind |-> kind, of |-> of]
Word     == Symbol("word", "")
Open(l)  == Symbol("open", l)
Close(l) == Symbol("close", l)
Value(v) == Symbol("value", v)

Message(c) == request[c].message
System(c)  == request[c].system
Label(c, v) == LabelOf(v, System(c))
Pending == [status |-> 0, answer |-> <<>>]
Status(code) == [status |-> code, answer |-> <<>>]

(* masked.fragments: which values each label of the call stands for.       *)
Meant(c, l) == {v \in DataOf(Message(c), System(c)) : Label(c, v) = l}
Labels(c)   == {Label(c, v) : v \in DataOf(Message(c), System(c))}

(* MUTANT of Fragments: the fragments of the calls are kept together. *)
FragmentsOfAnyCall(c) ==
    LET owners(l) == {d \in Calls : sent[d] # None /\ l \in Labels(d)}
    IN  {f \in [UNION {Labels(d) : d \in {e \in Calls : sent[e] # None}} -> Values] :
            \A l \in DOMAIN f : \E d \in owners(l) : f[l] \in Meant(d, l)}

(* What unmask_fragments may put in the place of each label of the call:   *)
(* of several values with one label, the first in the order of a set.      *)
Fragments(c) ==
    {f \in [Labels(c) -> Values] : \A l \in Labels(c) : f[l] \in Meant(c, l)}

(* Place i begins a whole label that fragments knows. *)
Whole(text, i, fragments) ==
    /\ i \in 1 .. Len(text) - 1
    /\ \E l \in DOMAIN fragments : text[i] = Open(l) /\ text[i + 1] = Close(l)

(* The text with the labels that begin at the places gone for their values. *)
Replaced(text, fragments, places) ==
    [i \in 1 .. Len(text) |->
        CASE i \in places -> Value(fragments[text[i].of])
          [] i - 1 \in places -> Value(fragments[text[i - 1].of])
          [] OTHER -> text[i]]

(* unmask_fragments on labels: every whole label that fragments knows.     *)
(* Labels never overlap, so the scan from the left meets all of them.      *)
Restored(text, fragments) ==
    Replaced(text, fragments, {i \in DOMAIN text : Whole(text, i, fragments)})

(* An LLM may use any label it has been sent, in any call, but whole. *)
KnownLabels == UNION {sent[c] : c \in {d \in Calls : sent[d] # None}}
Pieces == {<<Word, Word>>} \cup {<<Open(l), Close(l)>> : l \in KnownLabels}
Text(pieces) ==
    [i \in 1 .. 2 * Len(pieces) |-> pieces[(i + 1) \div 2][IF i % 2 = 1 THEN 1 ELSE 2]]
Answers == {Text(p) : p \in BoundedSeq(Pieces, MaxSaid)}

Init ==
    /\ request = [c \in Calls |-> None]
    /\ stage = [c \in Calls |-> "new"]
    /\ sent = [c \in Calls |-> None]
    /\ said = [c \in Calls |-> <<>>]
    /\ received = [c \in Calls |-> <<>>]
    /\ cuts = [c \in Calls |-> {}]
    /\ outcome = [c \in Calls |-> Pending]
    /\ broken = {}

-----------------------------------------------------------------------------
(* The call returns; its local state is gone. *)
Forget(c) ==
    /\ said' = [said EXCEPT ![c] = <<>>]
    /\ received' = [received EXCEPT ![c] = <<>>]
    /\ cuts' = [cuts EXCEPT ![c] = {}]

Close200(c, answer) ==
    /\ stage' = [stage EXCEPT ![c] = "closed"]
    /\ outcome' = [outcome EXCEPT ![c] = [status |-> 200, answer |-> answer]]
    /\ Forget(c)

(* MUTANT of Refuse: the handler raises, and nothing is answered. *)
RefuseSilently(c, code) ==
    /\ stage' = [stage EXCEPT ![c] = "closed"]
    /\ Forget(c)
    /\ UNCHANGED outcome

Refuse(c, code) ==
    /\ stage' = [stage EXCEPT ![c] = "closed"]
    /\ outcome' = [outcome EXCEPT ![c] = Status(code)]
    /\ Forget(c)

(* chat() and the guards of handle(): the status that refuses message m of *)
(* system s, or 0.                                                         *)
Refusal(m, s) ==
    CASE m \in TooLong -> 413
      [] m \notin TooLong /\ (s \notin Enabled \/ s \notin Unmaskers) -> 403
      [] m \notin TooLong /\ s \in Enabled \cap Unmaskers
            /\ <<m, s>> \in Redetected -> 422
      [] OTHER -> 0

(* chat() and handle() up to the first await. *)
Arrive(c, m, s) ==
    /\ stage[c] = "new"
    /\ request' = [request EXCEPT ![c] = [message |-> m, system |-> s]]
    /\ IF Refusal(m, s) # 0
       THEN Refuse(c, Refusal(m, s)) /\ UNCHANGED sent
       ELSE /\ stage' = [stage EXCEPT ![c] = "waiting"]
            /\ sent' = [sent EXCEPT ![c] = {LabelOf(v, s) : v \in DataOf(m, s)}]
            /\ UNCHANGED <<outcome, said, received, cuts>>
    /\ UNCHANGED broken

(* Status 200: the stream begins. *)
Begin(c, text) ==
    /\ stage[c] = "waiting"
    /\ stage' = [stage EXCEPT ![c] = "streaming"]
    /\ said' = [said EXCEPT ![c] = text]
    /\ UNCHANGED <<request, sent, received, cuts, outcome, broken>>

(* Another status, a timeout or a network error, before or in the stream;  *)
(* a line that is no JSON or lacks choices[0].delta: LLMUnavailableError.  *)
Unavailable(c) ==
    /\ stage[c] \in {"waiting", "streaming"}
    /\ Refuse(c, 503)
    /\ broken' = broken \cup {c}
    /\ UNCHANGED <<request, sent>>

(* A delta that is JSON but not an object has no .get, and a content that  *)
(* is not a string cannot be joined: neither error is caught.              *)
Malformed(c) ==
    /\ stage[c] = "streaming"
    /\ Refuse(c, 500)
    /\ broken' = broken \cup {c}
    /\ UNCHANGED <<request, sent>>

(* The next chunk carries n symbols.  A line without data: or without      *)
(* content changes nothing.                                                *)
Chunk(c, n) ==
    LET so_far == Len(received[c])
    IN  /\ stage[c] = "streaming"
        /\ so_far + n <= Len(said[c])
        /\ received' = [received EXCEPT ![c] = @ \o SubSeq(said[c], so_far + 1, so_far + n)]
        /\ cuts' = [cuts EXCEPT ![c] = @ \cup {so_far + n}]
        /\ UNCHANGED <<request, stage, sent, said, outcome, broken>>

(* MUTANT of Answer: every chunk is restored by itself. *)
AnswerByChunk(c, fragments) ==
    Replaced(received[c], fragments,
             {i \in DOMAIN received[c] : Whole(received[c], i, fragments)} \ cuts[c])

(* The rest of handle(): the joined chunks, restored. *)
Answer(c, fragments) == Restored(received[c], fragments)

(* data: [DONE], or a stream that simply ends: the loop is left in the     *)
(* same way, so an answer that was cut short is taken for a whole one.     *)
End(c) ==
    /\ stage[c] = "streaming"
    /\ \E f \in Fragments(c) : Close200(c, Answer(c, f))
    /\ UNCHANGED <<request, sent, broken>>

Next == \E c \in Calls :
    \/ \E m \in Messages, s \in Systems \cup {None} : Arrive(c, m, s)
    \/ \E text \in Answers : Begin(c, text)
    \/ \E n \in 1 .. Len(said[c]) : Chunk(c, n)
    \/ End(c) \/ Unavailable(c) \/ Malformed(c)

Spec == Init /\ [][Next]_vars

-----------------------------------------------------------------------------
(* Every variable stays in its range; only admitted calls reach the LLM.   *)
TypeOK ==
    /\ \A c \in Calls :
          /\ stage[c] \in {"new", "waiting", "streaming", "closed"}
          /\ stage[c] # "new" => Message(c) \in Messages
          /\ outcome[c].status \in {0, 200, 403, 413, 422, 500, 503}
          /\ outcome[c].status # 0 <=> stage[c] = "closed"
          /\ IsPrefix(received[c], said[c])
    /\ broken \subseteq Calls

Answered(c) == outcome[c].status = 200

(* No whole label of the call is left in its answer, wherever the stream   *)
(* was cut into chunks.                                                    *)
LabelsSurviveChunking ==
    \A c \in Calls : Answered(c) =>
       \A i \in 1 .. Len(outcome[c].answer) - 1 :
          LET s == outcome[c].answer
          IN  ~(\E l \in Labels(c) : s[i] = Open(l) /\ s[i + 1] = Close(l))

(* An answer holds personal data of its own message only, although calls   *)
(* run interleaved and an LLM may repeat the label of another call.        *)
OwnDataOnly ==
    \A c \in Calls : Answered(c) =>
       \A i \in DOMAIN outcome[c].answer :
          LET s == outcome[c].answer[i]
          IN  s.kind = "value" => s.of \in DataOf(Message(c), System(c))

(* "битый поток" is LLMUnavailableError (app/llm/client.py), status 503.   *)
BrokenStreamIsUnavailable ==
    \A c \in broken : outcome[c].status = 503
=============================================================================
