----------------------------- MODULE ChatProofs -----------------------------
(***************************************************************************)
(* For any number of interleaved calls, any messages, systems and labels,  *)
(* and whatever the LLM answers in whatever chunks: what comes back to the *)
(* caller.  CallInv says of one call what no step of it, nor of another    *)
(* call, breaks.                                                           *)
(***************************************************************************)
EXTENDS ChatProxy, SequenceTheorems, TLAPS

Domains ==
    /\ DOMAIN request = Calls /\ DOMAIN stage = Calls /\ DOMAIN sent = Calls
    /\ DOMAIN said = Calls /\ DOMAIN received = Calls /\ DOMAIN cuts = Calls
    /\ DOMAIN outcome = Calls

Codes == {403, 413, 422, 500, 503}

(* A text without personal values: what an LLM says. *)
Impersonal(t) ==
    /\ t \in Seq(Range(t))
    /\ \A i \in DOMAIN t : t[i].kind # "value"

(* A text whose personal values are among vs, and which holds none of the  *)
(* labels ls as a whole.                                                   *)
ValuesAmong(t, vs) == \A i \in DOMAIN t : t[i].kind = "value" => t[i].of \in vs
WithoutLabels(t, ls) ==
    \A i \in 1 .. Len(t) - 1 : ~(\E l \in ls : t[i] = Open(l) /\ t[i + 1] = Close(l))

(* Where a call is agrees with what is known about it. *)
Staged(c) ==
    /\ stage[c] \in {"new", "waiting", "streaming", "closed"}
    /\ stage[c] = "new" => sent[c] = None
    /\ stage[c] \in {"new", "waiting"} => received[c] = <<>>
    /\ stage[c] # "new" => Message(c) \in Messages
    /\ outcome[c].status \in Codes \cup {0, 200}
    /\ outcome[c].status # 0 <=> stage[c] = "closed"

(* What was received is the beginning of what the LLM says. *)
Streamed(c) ==
    /\ Impersonal(said[c])
    /\ \E n \in 0 .. Len(said[c]) : received[c] = SubSeq(said[c], 1, n)

Answers200(c) ==
    outcome[c].status = 200 =>
       /\ ValuesAmong(outcome[c].answer, DataOf(Message(c), System(c)))
       /\ WithoutLabels(outcome[c].answer, Labels(c))

CallInv(c) == Staged(c) /\ Streamed(c) /\ Answers200(c)

IInv == Domains /\ broken \subseteq Calls /\ \A c \in Calls : CallInv(c)

-----------------------------------------------------------------------------
(* A label that is taken for its value is gone, wherever else the text has *)
(* been cut; and nothing but the values of the fragments comes in.         *)
LEMMA RestoredText ==
    ASSUME NEW t, Impersonal(t), NEW f
    PROVE  LET r == Restored(t, f)
           IN  /\ ValuesAmong(r, {f[l] : l \in DOMAIN f})
               /\ WithoutLabels(r, DOMAIN f)
<1> DEFINE n == Len(t)
           places == {i \in DOMAIN t : Whole(t, i, f)}
           r == Restored(t, f)
<1>1. n \in Nat /\ DOMAIN t = 1 .. n
  BY DEF Impersonal
<1>2. \A i \in places : /\ i \in 1 .. n - 1 /\ t[i].kind = "open"
                        /\ t[i].of \in DOMAIN f /\ t[i + 1].kind = "close"
  <2> SUFFICES ASSUME NEW i \in places
               PROVE  /\ i \in 1 .. n - 1 /\ t[i].kind = "open"
                      /\ t[i].of \in DOMAIN f /\ t[i + 1].kind = "close"
    OBVIOUS
  <2>1. i \in 1 .. n - 1
    BY DEF Whole
  <2>2. PICK l \in DOMAIN f : t[i] = Open(l) /\ t[i + 1] = Close(l)
    BY DEF Whole
  <2> QED
    BY <2>1, <2>2 DEF Open, Close, Symbol
<1>3. \A i \in 1 .. n - 1 : \A l \in DOMAIN f :
         t[i] = Open(l) /\ t[i + 1] = Close(l) => i \in places
  BY <1>1 DEF Whole
<1>4. r = [i \in 1 .. n |->
             CASE i \in places -> Value(f[t[i].of])
               [] i - 1 \in places -> Value(f[t[i - 1].of])
               [] OTHER -> t[i]]
  BY DEF Restored, Replaced
<1> HIDE DEF places, r
<1>5. r \in [1 .. n -> Range(r)] /\ DOMAIN r = 1 .. n /\ Len(r) = n
  <2>1. DOMAIN r = 1 .. n
    BY <1>4
  <2>2. r \in [1 .. n -> Range(r)]
    BY <1>4, <2>1 DEF Range
  <2> QED
    BY <1>1, <2>1, <2>2
<1>6. ASSUME NEW i \in 1 .. n
      PROVE  \/ i \in places /\ r[i] = Value(f[t[i].of])
             \/ i - 1 \in places /\ r[i] = Value(f[t[i - 1].of])
             \/ i \notin places /\ i - 1 \notin places /\ r[i] = t[i]
  <2>1. CASE i \in places
    <3>1. i - 1 \notin places
      <4>1. SUFFICES ASSUME i - 1 \in places PROVE FALSE
        OBVIOUS
      <4>2. t[(i - 1) + 1].kind = "close" /\ (i - 1) + 1 = i
        BY <1>1, <1>2, <4>1
      <4> QED
        BY <1>2, <2>1, <4>2
    <3> QED
      BY <1>4, <2>1, <3>1
  <2>2. CASE i \notin places /\ i - 1 \in places
    BY <1>4, <2>2
  <2>3. CASE i \notin places /\ i - 1 \notin places
    BY <1>4, <2>3
  <2> QED
    BY <2>1, <2>2, <2>3
<1>7. ValuesAmong(r, {f[l] : l \in DOMAIN f})
  <2> SUFFICES ASSUME NEW i \in 1 .. n, r[i].kind = "value"
               PROVE  r[i].of \in {f[l] : l \in DOMAIN f}
    BY <1>5 DEF ValuesAmong
  <2>1. CASE i \in places /\ r[i] = Value(f[t[i].of])
    BY <1>2, <2>1 DEF Value, Symbol
  <2>2. CASE i - 1 \in places /\ r[i] = Value(f[t[i - 1].of])
    BY <1>2, <2>2 DEF Value, Symbol
  <2>3. r[i] # t[i]
    BY <1>1 DEF Impersonal
  <2> QED
    BY <1>6, <2>1, <2>2, <2>3
<1>8. WithoutLabels(r, DOMAIN f)
  <2> SUFFICES ASSUME NEW i \in 1 .. n - 1, NEW l \in DOMAIN f,
                      r[i] = Open(l), r[i + 1] = Close(l)
               PROVE  FALSE
    BY <1>5 DEF WithoutLabels
  <2>1. \A v : r[i] # Value(v) /\ r[i + 1] # Value(v)
    BY DEF Open, Close, Value, Symbol
  <2>2. r[i] = t[i] /\ i \notin places
    BY <1>1, <1>6, <2>1
  <2>3. r[i + 1] = t[i + 1]
    <3>1. i + 1 \in 1 .. n
      BY <1>1
    <3> QED
      BY <1>6, <2>1, <3>1
  <2> QED
    BY <1>3, <2>2, <2>3
<1> QED
  BY <1>7, <1>8 DEF r

(* The LLM knows labels and words only. *)
LEMMA AnswersAreImpersonal == ASSUME NEW t \in Answers PROVE Impersonal(t)
<1>1. PICK p \in BoundedSeq(Pieces, MaxSaid) : t = Text(p)
  BY DEF Answers
<1>2. PICK n \in 0 .. MaxSaid : p \in [1 .. n -> Pieces]
  BY <1>1 DEF BoundedSeq, SeqOf
<1>3. n \in Nat /\ Len(p) = n
  BY <1>2, ChatAssumption
<1>4. t = [i \in 1 .. 2 * n |-> p[(i + 1) \div 2][IF i % 2 = 1 THEN 1 ELSE 2]]
  BY <1>1, <1>3 DEF Text
<1>5. \A q \in Pieces : q[1].kind # "value" /\ q[2].kind # "value"
  <2>1. \A l : Word.kind # "value" /\ Open(l).kind # "value" /\ Close(l).kind # "value"
    BY DEF Word, Open, Close, Symbol
  <2> TAKE q \in Pieces
  <2>2. CASE q = <<Word, Word>>
    BY <2>1, <2>2
  <2>3. CASE \E l \in KnownLabels : q = <<Open(l), Close(l)>>
    BY <2>1, <2>3
  <2> QED
    BY <2>2, <2>3 DEF Pieces
<1>6. ASSUME NEW i \in 1 .. 2 * n PROVE t[i].kind # "value"
  <2>1. (i + 1) \div 2 \in 1 .. n
    BY <1>3
  <2>2. p[(i + 1) \div 2] \in Pieces
    BY <1>2, <2>1
  <2>3. CASE i % 2 = 1
    BY <1>4, <1>5, <2>2, <2>3
  <2>4. CASE i % 2 # 1
    BY <1>4, <1>5, <2>2, <2>4
  <2> QED
    BY <2>3, <2>4
<1>7. DOMAIN t = 1 .. 2 * n /\ 2 * n \in Nat
  BY <1>3, <1>4
<1>8. t \in Seq(Range(t))
  BY <1>4, <1>7 DEF Range
<1> QED
  BY <1>6, <1>7, <1>8 DEF Impersonal

(* Every beginning of what the LLM says is as free of values. *)
LEMMA BeginningIsImpersonal ==
    ASSUME NEW t, Impersonal(t), NEW n \in 0 .. Len(t)
    PROVE  /\ Impersonal(SubSeq(t, 1, n)) /\ Len(SubSeq(t, 1, n)) = n
           /\ IsPrefix(SubSeq(t, 1, n), t)
<1> DEFINE s == SubSeq(t, 1, n)
<1>1. Len(t) \in Nat /\ DOMAIN t = 1 .. Len(t)
  BY DEF Impersonal
<1>2. 1 \in Int /\ n \in Int /\ \A i \in 1 .. n : t[i] \in Range(t)
  BY <1>1 DEF Range
<1>3. /\ s \in Seq(Range(t)) /\ Len(s) = (IF 1 <= n THEN n - 1 + 1 ELSE 0)
      /\ \A i \in 1 .. n - 1 + 1 : s[i] = t[1 + i - 1]
  BY <1>2, SubSeqProperties
<1>4. Len(s) = n /\ DOMAIN s = 1 .. n /\ \A i \in 1 .. n : s[i] = t[i]
  BY <1>1, <1>3
<1> HIDE DEF s
<1>5. s \in Seq(Range(s))
  BY <1>3, <1>4 DEF Range
<1>6. Impersonal(s)
  BY <1>1, <1>4, <1>5 DEF Impersonal
<1>7. SubSeq(s, 1, Len(s)) = s
  BY <1>5, SubSeqFull
<1> QED
  BY <1>1, <1>4, <1>6, <1>7 DEF s, IsPrefix

-----------------------------------------------------------------------------
(* How chat() and handle() refuse. *)
LEMMA RefusalCode ==
    ASSUME NEW m, NEW s, Refusal(m, s) # 0
    PROVE  Refusal(m, s) \in Codes
  BY DEF Refusal, Codes

LEMMA InitInv == Init => IInv
<1> SUFFICES ASSUME Init PROVE IInv
  OBVIOUS
<1>1. Impersonal(<<>>) /\ Len(<<>>) = 0 /\ SubSeq(<<>>, 1, 0) = <<>>
  BY SubSeqEmpty DEF Impersonal
<1> SUFFICES ASSUME NEW c \in Calls PROVE CallInv(c)
  BY DEF Init, IInv, Domains
<1>2. Staged(c)
  BY DEF Init, Staged, Pending, Codes
<1>3. said[c] = <<>> /\ received[c] = <<>>
  BY DEF Init
<1>4. Streamed(c)
  BY <1>1, <1>3 DEF Streamed
<1>5. Answers200(c)
  BY DEF Init, Answers200, Pending
<1> QED
  BY <1>2, <1>4, <1>5 DEF CallInv

(* What a call's invariant is about. *)
About(c) == <<request[c], stage[c], sent[c], said[c], received[c], outcome[c]>>

(* A step that leaves a call alone leaves its invariant alone. *)
LEMMA Untouched ==
    ASSUME NEW c \in Calls, CallInv(c), About(c)' = About(c) PROVE CallInv(c)'
<1>1. /\ request'[c] = request[c] /\ stage'[c] = stage[c] /\ sent'[c] = sent[c]
      /\ said'[c] = said[c] /\ received'[c] = received[c] /\ outcome'[c] = outcome[c]
  BY DEF About
<1>2. Staged(c)'
  BY <1>1 DEF CallInv, Staged, Message
<1>3. Streamed(c)'
  BY <1>1 DEF CallInv, Streamed
<1>4. Message(c)' = Message(c) /\ System(c)' = System(c)
  BY <1>1 DEF Message, System
<1>5. Labels(c)' = Labels(c)
  BY <1>4 DEF Labels, Label
<1>6. Answers200(c)'
  BY <1>1, <1>4, <1>5 DEF CallInv, Answers200
<1> QED
  BY <1>2, <1>3, <1>6 DEF CallInv

(* The local state of a call that has returned says nothing any more. *)
LEMMA Forgotten ==
    ASSUME Domains, NEW c \in Calls, Forget(c) PROVE Streamed(c)'
<1>1. said'[c] = <<>> /\ received'[c] = <<>>
  BY DEF Forget, Domains
<1>2. Impersonal(<<>>) /\ Len(<<>>) = 0 /\ SubSeq(<<>>, 1, 0) = <<>>
  BY SubSeqEmpty DEF Impersonal
<1> QED
  BY <1>1, <1>2 DEF Streamed

(* A refusal of a call under way. *)
LEMMA Refused ==
    ASSUME Domains, NEW c \in Calls, NEW code \in Codes, Refuse(c, code),
           Message(c)' \in Messages
    PROVE  CallInv(c)'
<1>1. /\ stage'[c] = "closed" /\ outcome'[c].status = code /\ Forget(c)
  BY DEF Refuse, Status, Domains
<1>2. Streamed(c)'
  BY <1>1, Forgotten
<1>3. Staged(c)' /\ Answers200(c)'
  BY <1>1 DEF Staged, Answers200, Codes
<1> QED
  BY <1>2, <1>3 DEF CallInv

LEMMA ArriveInv ==
    ASSUME IInv, NEW c \in Calls, NEW m \in Messages, NEW s, Arrive(c, m, s)
    PROVE  CallInv(c)'
<1>1. /\ Domains /\ CallInv(c) /\ stage[c] = "new" /\ sent[c] = None
      /\ request'[c] = [message |-> m, system |-> s]
  BY DEF IInv, Arrive, CallInv, Staged, Domains
<1>2. Message(c)' = m /\ System(c)' = s
  BY <1>1 DEF Message, System
<1>3. CASE Refusal(m, s) # 0
  <2>1. Refuse(c, Refusal(m, s)) /\ UNCHANGED sent
    BY <1>3 DEF Arrive
  <2> QED
    BY <1>1, <1>2, <1>3, <2>1, RefusalCode, Refused
<1>4. CASE Refusal(m, s) = 0
  <2>1. /\ stage'[c] = "waiting"
        /\ outcome' = outcome /\ said' = said /\ received' = received
        /\ received[c] = <<>>
    BY <1>1, <1>4 DEF Arrive, Domains, CallInv, Staged
  <2>2. outcome[c].status = 0
    BY <1>1 DEF CallInv, Staged
  <2>3. Staged(c)' /\ Answers200(c)'
    BY <1>2, <2>1, <2>2 DEF Staged, Answers200
  <2>4. Streamed(c)'
    BY <1>1, <2>1 DEF CallInv, Streamed
  <2> QED
    BY <2>3, <2>4 DEF CallInv
<1> QED
  BY <1>3, <1>4

(* From the arrival on, what was asked stays. *)
LEMMA Asked ==
    ASSUME NEW c \in Calls, CallInv(c), stage[c] # "new", UNCHANGED <<request, sent>>
    PROVE  /\ Message(c)' = Message(c) /\ System(c)' = System(c)
           /\ Labels(c)' = Labels(c)
           /\ Message(c) \in Messages
<1>1. Message(c)' = Message(c) /\ System(c)' = System(c)
  BY DEF Message, System
<1>2. Labels(c)' = Labels(c)
  BY <1>1 DEF Labels, Label
<1>3. Message(c) \in Messages
  BY DEF CallInv, Staged
<1> QED
  BY <1>1, <1>2, <1>3

LEMMA BeginInv ==
    ASSUME IInv, NEW c \in Calls, NEW text \in Answers, Begin(c, text)
    PROVE  CallInv(c)'
<1>1. /\ Domains /\ CallInv(c) /\ stage[c] = "waiting" /\ stage'[c] = "streaming"
      /\ said'[c] = text /\ UNCHANGED <<request, sent, received, outcome>>
  BY DEF IInv, Begin, Domains
<1>2. Message(c)' \in Messages
  BY <1>1, Asked
<1>3. outcome[c].status = 0
  BY <1>1 DEF CallInv, Staged
<1>4. Staged(c)' /\ Answers200(c)'
  BY <1>1, <1>2, <1>3 DEF Staged, Answers200
<1>5. Streamed(c)'
  <2>1. Impersonal(text) /\ Len(text) \in Nat
    BY AnswersAreImpersonal DEF Impersonal
  <2>2. received'[c] = <<>> /\ SubSeq(text, 1, 0) = <<>>
    BY <1>1, SubSeqEmpty DEF CallInv, Staged
  <2> QED
    BY <1>1, <2>1, <2>2 DEF Streamed
<1> QED
  BY <1>4, <1>5 DEF CallInv

LEMMA ChunkInv ==
    ASSUME IInv, NEW c \in Calls, NEW n \in 1 .. Len(said[c]), Chunk(c, n)
    PROVE  CallInv(c)'
<1>1. /\ Domains /\ CallInv(c) /\ stage[c] = "streaming"
      /\ UNCHANGED <<request, stage, sent, said, outcome>>
      /\ Len(received[c]) + n <= Len(said[c])
      /\ received'[c] = received[c] \o SubSeq(said[c], Len(received[c]) + 1, Len(received[c]) + n)
  BY DEF IInv, Chunk, Domains
<1> DEFINE t == said[c]
<1>2. PICK k \in 0 .. Len(t) : received[c] = SubSeq(t, 1, k)
  BY <1>1 DEF CallInv, Streamed
<1>3. Impersonal(t) /\ t \in Seq(Range(t)) /\ Len(t) \in Nat
  BY <1>1 DEF CallInv, Streamed, Impersonal
<1>4. Len(received[c]) = k
  BY <1>2, <1>3, BeginningIsImpersonal
<1>5. received'[c] = SubSeq(t, 1, k + n)
  <2>1. 1 \in 1 .. Len(t) + 1 /\ k \in 1 - 1 .. Len(t) /\ k + n \in k .. Len(t)
    BY <1>1, <1>3, <1>4
  <2> HIDE DEF t
  <2>2. SubSeq(t, 1, k) \o SubSeq(t, k + 1, k + n) = SubSeq(t, 1, k + n)
    BY <1>3, <2>1, ConcatAdjacentSubSeq
  <2> QED
    BY <1>1, <1>2, <1>4, <2>2 DEF t
<1>6. k + n \in 0 .. Len(t)
  BY <1>1, <1>3, <1>4
<1>7. Streamed(c)'
  BY <1>1, <1>3, <1>5, <1>6 DEF Streamed
<1>8. Message(c)' = Message(c) /\ Message(c) \in Messages
  BY <1>1, Asked
<1>9. outcome[c].status = 0
  BY <1>1 DEF CallInv, Staged
<1>10. Staged(c)' /\ Answers200(c)'
  BY <1>1, <1>8, <1>9 DEF CallInv, Staged, Answers200
<1> QED
  BY <1>7, <1>10 DEF CallInv

LEMMA EndInv ==
    ASSUME IInv, NEW c \in Calls, End(c)
    PROVE  CallInv(c)'
<1>1. PICK f \in Fragments(c) : Close200(c, Answer(c, f))
  BY DEF End
<1>2. /\ Domains /\ CallInv(c) /\ stage[c] = "streaming" /\ UNCHANGED <<request, sent>>
      /\ stage'[c] = "closed" /\ Forget(c)
      /\ outcome'[c] = [status |-> 200, answer |-> Answer(c, f)]
  BY <1>1 DEF IInv, End, Close200, Domains
<1>3. /\ Message(c)' = Message(c) /\ System(c)' = System(c) /\ Labels(c)' = Labels(c)
      /\ Message(c) \in Messages
  BY <1>2, Asked
<1>4. DOMAIN f = Labels(c) /\ \A l \in DOMAIN f : f[l] \in DataOf(Message(c), System(c))
  BY DEF Fragments, Meant
<1>5. Impersonal(received[c])
  BY <1>2, BeginningIsImpersonal DEF CallInv, Streamed
<1>6. /\ ValuesAmong(Answer(c, f), {f[l] : l \in DOMAIN f})
      /\ WithoutLabels(Answer(c, f), DOMAIN f)
  BY <1>5, RestoredText DEF Answer
<1>7. ValuesAmong(Answer(c, f), DataOf(Message(c), System(c)))
  BY <1>4, <1>6 DEF ValuesAmong
<1>8. /\ outcome'[c].status = 200 /\ outcome'[c].answer = Answer(c, f)
  BY <1>2
<1>9. Answers200(c)'
  BY <1>3, <1>4, <1>6, <1>7, <1>8 DEF Answers200
<1>10. Staged(c)'
  BY <1>2, <1>3, <1>8 DEF Staged, Codes
<1>11. Streamed(c)'
  BY <1>2, Forgotten
<1> QED
  BY <1>9, <1>10, <1>11 DEF CallInv

LEMMA FaultInv ==
    ASSUME IInv, NEW c \in Calls, Unavailable(c) \/ Malformed(c)
    PROVE  CallInv(c)'
<1>1. /\ Domains /\ CallInv(c) /\ stage[c] # "new" /\ UNCHANGED <<request, sent>>
      /\ \E code \in Codes : Refuse(c, code)
  BY DEF IInv, Unavailable, Malformed, Codes
<1>2. Message(c)' \in Messages
  BY <1>1, Asked
<1> QED
  BY <1>1, <1>2, Refused

LEMMA Inductive == IInv /\ [Next]_vars => IInv'
<1> SUFFICES ASSUME IInv, [Next]_vars PROVE IInv'
  OBVIOUS
<1>1. CASE UNCHANGED vars
  <2>1. \A c \in Calls : About(c)' = About(c)
    BY <1>1 DEF vars, About
  <2>2. \A c \in Calls : CallInv(c)'
    BY <2>1, Untouched DEF IInv
  <2> QED
    BY <1>1, <2>2 DEF vars, IInv, Domains
<1>2. CASE Next
  <2> PICK c \in Calls :
         \/ \E m \in Messages, s \in Systems \cup {None} : Arrive(c, m, s)
         \/ \E text \in Answers : Begin(c, text)
         \/ \E n \in 1 .. Len(said[c]) : Chunk(c, n)
         \/ End(c) \/ Unavailable(c) \/ Malformed(c)
    BY <1>2 DEF Next
  <2>1. CallInv(c)'
    BY ArriveInv, BeginInv, ChunkInv, EndInv, FaultInv
  <2>2. Domains' /\ broken' \subseteq Calls
    BY DEF IInv, Domains, Arrive, Begin, Chunk, End, Unavailable, Malformed,
           Refuse, Close200, Forget
  <2>3. ASSUME NEW d \in Calls, d # c PROVE About(d)' = About(d)
    BY <2>3 DEF IInv, Domains, About, Arrive, Begin, Chunk, End, Unavailable, Malformed,
                Refuse, Close200, Forget
  <2>4. ASSUME NEW d \in Calls, d # c PROVE CallInv(d)'
    BY <2>3, <2>4, Untouched DEF IInv
  <2> QED
    BY <2>1, <2>2, <2>4 DEF IInv
<1> QED
  BY <1>1, <1>2

LEMMA Invariant == Spec => []IInv
BY InitInv, Inductive, PTL DEF Spec

-----------------------------------------------------------------------------
(* The stages, the status codes and the streams of all calls.              *)
THEOREM TypeCorrect == Spec => []TypeOK
<1>1. IInv => TypeOK
  <2> SUFFICES ASSUME IInv, NEW c \in Calls
               PROVE  /\ stage[c] \in {"new", "waiting", "streaming", "closed"}
                      /\ stage[c] # "new" => Message(c) \in Messages
                      /\ outcome[c].status \in {0, 200, 403, 413, 422, 500, 503}
                      /\ outcome[c].status # 0 <=> stage[c] = "closed"
                      /\ IsPrefix(received[c], said[c])
    BY DEF IInv, TypeOK
  <2>1. IsPrefix(received[c], said[c])
    BY BeginningIsImpersonal DEF IInv, CallInv, Streamed
  <2> QED
    BY <2>1 DEF IInv, CallInv, Staged, Codes
<1> QED
  BY <1>1, Invariant, PTL

(* No whole label of a call is left in its answer, wherever the stream was *)
(* cut (the joined parts of _read_stream, unmask_fragments of handle).     *)
THEOREM ChunkingCorrect == Spec => []LabelsSurviveChunking
<1>1. IInv => LabelsSurviveChunking
  BY DEF IInv, CallInv, Answers200, WithoutLabels, Answered, LabelsSurviveChunking
<1> QED
  BY <1>1, Invariant, PTL

(* A caller is given personal values of its own message only, whatever     *)
(* labels of other calls the LLM repeats to it.                            *)
THEOREM OwnDataCorrect == Spec => []OwnDataOnly
<1>1. IInv => OwnDataOnly
  BY DEF IInv, CallInv, Answers200, ValuesAmong, Answered, OwnDataOnly
<1> QED
  BY <1>1, Invariant, PTL
=============================================================================
