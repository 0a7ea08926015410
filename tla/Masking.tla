------------------------------ MODULE Masking -------------------------------
(***************************************************************************)
(* Masker.mask and unmask_fragments (app/core/masking.py) on texts that    *)
(* are sequences of characters.  The specification masks a text, one       *)
(* entity in each round of the loop, lets an LLM put the masks into        *)
(* another order, and restores what it said, one fragment in each round.   *)
(*                                                                         *)
(* What matters of a strategy is whether its masks can be told from one    *)
(* another: full and partial hide characters in place, so two values may   *)
(* have one mask, and a mask may be part of another; initials and email    *)
(* leave letters of the value; synthetic makes a value of the same shape;  *)
(* token gives each value a label of its own (HMAC, taken to be            *)
(* injective), redact one per type.                                        *)
(***************************************************************************)
EXTENDS Naturals, Sequences, FiniteSets, FiniteSetsExt, SequencesExt

CONSTANTS
    Letters,       \* characters for which isalpha holds
    Digits,        \* and isdigit
    Separator,     \* any other character of a text (none has brackets),
    AtSign,        \* and that of an e-mail address
    Star,          \* MaskRule.char
    Labels,        \* what a token label has between its brackets
    MaxLength,     \* bound on the length of a text
    MaxEntities,   \* bound on the entities in a text
    Rules          \* the mask rules in use

Alphanumeric == Letters \cup Digits
Alphabet     == Alphanumeric \cup {Separator, AtSign}

ASSUME MaskingAssumption ==
    /\ Letters \cap Digits = {}
    /\ {Star, Separator, AtSign} \cap Alphanumeric = {} /\ Star \notin {Separator, AtSign}
    /\ {"[", "]"} \cap (Alphabet \cup Labels) = {}
    /\ \A rule \in Rules :
          /\ rule.strategy \in {"initials", "partial", "full", "email", "token", "redact", "synthetic"}
          /\ rule.start \in Nat /\ rule.end \in Nat
    /\ MaxLength \in Nat /\ MaxEntities \in Nat

VARIABLES
    text,       \* the text to mask
    entities,   \* what the engine found in it, in order
    rule,       \* the rule of every entity
    digest,     \* the HMAC of each value under the secret of the Masker
    masked,     \* the MaskResult, as far as it has been made
    repeats,    \* history: the entities whose masks come back, <<>> for the whole text
    restored,   \* what came back, restored by the fragments that are not
    pending,    \* pending: the order of unmask_fragments, as far as it is to be done
    phase

vars == <<text, entities, rule, digest, masked, repeats, restored, pending, phase>>

Texts == UNION {[1 .. n -> Alphabet] : n \in 1 .. MaxLength}

(* An entity: one or two parts, sorted and not empty; the last part ends   *)
(* where the entity does.  Positions count from 1 and bounds are inclusive.*)
Parts(n) ==
    {<<p>> : p \in {q \in (1 .. n) \X (1 .. n) : q[1] <= q[2]}}
    \cup {<<p, q>> : p, q \in {r \in (1 .. n) \X (1 .. n) : r[1] <= r[2]}}
Start(e) == e[1][1]
End(e)   == e[Len(e)][2]
WellFormed(e) == \A i \in 1 .. Len(e) - 1 : e[i][2] < e[i + 1][1]

(* What DetectionEngine.detect returns: entities in the order of the text  *)
(* that do not overlap.                                                    *)
Found(n) ==
    UNION {{s \in [1 .. k -> {e \in Parts(n) : WellFormed(e)}] :
               \A i \in 1 .. k - 1 : End(s[i]) < Start(s[i + 1])} :
           k \in 0 .. MaxEntities}

Span(e) == SubSeq(text, Start(e), End(e))

-----------------------------------------------------------------------------
(* The positions of e in the text that a mask may hide: letters and digits *)
(* inside the parts.                                                       *)
Positions(e) ==
    {i \in DOMAIN text : /\ text[i] \in Alphanumeric
                         /\ \E p \in Range(e) : p[1] <= i /\ i <= p[2]}

(* MUTANT of Hidden: the ends are kept even when nothing else is left. *)
HiddenBetweenEnds(e) ==
    LET rank(i) == Cardinality({j \in Positions(e) : j < i})
        n == Cardinality(Positions(e))
    IN  {i \in Positions(e) : rank(i) >= rule.start /\ rank(i) + rule.end < n}

(* Those that it does hide: full hides all; partial keeps some at either   *)
(* end, unless that would be all of them.                                  *)
Hidden(e) ==
    LET rank(i) == Cardinality({j \in Positions(e) : j < i})
        n == Cardinality(Positions(e))
        keeps == rule.strategy = "partial" /\ n > rule.start + rule.end
    IN  {i \in Positions(e) :
            ~keeps \/ (rank(i) >= rule.start /\ rank(i) + rule.end < n)}

(* Masker._chars *)
Chars(e) ==
    [k \in 1 .. End(e) - Start(e) + 1 |->
       IF Start(e) + k - 1 \in Hidden(e) THEN Star ELSE text[Start(e) + k - 1]]

(* The first letters of the words of s, each with a dot: "И. И." *)
Initials(s) ==
    LET starts == {i \in DOMAIN s : s[i] \in Letters /\ (i = 1 \/ s[i - 1] \notin Letters)}
        word(k) == CHOOSE i \in starts : Cardinality({j \in starts : j < i}) = k
    IN  [i \in 1 .. 3 * Cardinality(starts) - 1 |->
           CASE i % 3 = 1 -> s[word(i \div 3)] [] i % 3 = 2 -> "." [] OTHER -> " "]

(* "i*****@mail.ru": up to the first "@" all but one character is hidden. *)
Mail(s) ==
    LET at == Min({i \in DOMAIN s : s[i] = AtSign})
    IN  [i \in DOMAIN s |-> IF 1 < i /\ i < at THEN Star ELSE s[i]]

(* _synthetic, for what is neither a name nor an e-mail address: letters   *)
(* become one letter, digits come from the digest of the value.            *)
Synthetic(s) ==
    [i \in DOMAIN s |-> IF s[i] \in Letters THEN "X"
                        ELSE IF s[i] \in Digits THEN digest[s] ELSE s[i]]

(* Masker._apply *)
Apply(e) ==
    CASE rule.strategy = "initials" /\ Range(Span(e)) \cap Letters # {} -> Initials(Span(e))
      [] rule.strategy = "email" /\ AtSign \in Range(Span(e))           -> Mail(Span(e))
      [] rule.strategy = "token"     -> <<"[", digest[Span(e)], "]">>
      [] rule.strategy = "redact"    -> <<"[", "]">>
      [] rule.strategy = "synthetic" -> Synthetic(Span(e))
      [] OTHER                       -> Chars(e)

(* The digests that the values of the text may have: a digit of it is all  *)
(* that synthetic takes, two values of a text never share a label.         *)
Values == {Span(e) : e \in Range(entities)}
Digests ==
    CASE rule.strategy = "synthetic" -> [Values -> Digits]
      [] rule.strategy = "token"     -> Injection(Values, Labels)
      [] OTHER                       -> {<<>>}

(* How many entities are masked, and where the text goes on after them: pos. *)
Done == Len(masked.fragments)
Pos == IF Done = 0 THEN 1 ELSE End(entities[Done]) + 1

-----------------------------------------------------------------------------
At(s, i, m) == i + Len(m) - 1 <= Len(s) /\ SubSeq(s, i, i + Len(m) - 1) = m
Occurs(s, m) == \E i \in DOMAIN s : At(s, i, m)

(* MUTANT of Replace: only the first occurrence is replaced. *)
ReplaceFirst(s, m, by) ==
    LET i == CHOOSE k \in DOMAIN s : At(s, k, m) /\ \A j \in 1 .. k - 1 : ~At(s, j, m)
    IN  SubSeq(s, 1, i - 1) \o by \o SubSeq(s, i + Len(m), Len(s))

(* str.replace: every occurrence of m, from the left, without overlaps;    *)
(* last[n] is what becomes of the last n characters.                       *)
Replace(s, m, by) ==
    LET last[n \in 0 .. Len(s)] ==
            LET i == Len(s) - n + 1
            IN  IF n = 0 THEN <<>>
                ELSE IF At(s, i, m) THEN by \o last[n - Len(m)]
                ELSE <<s[i]>> \o last[n - 1]
    IN  last[Len(s)]

(* MUTANT of Orders: the fragments are taken as they come. *)
OrdersAsFound(fragments) == {fragments}

(* sorted(set(fragments), key=-len): longer masks first; what order masks  *)
(* of one length have is up to the hashing of a set.                       *)
Orders(fragments) ==
    {s \in SetToSeqs(Range(fragments)) :
        \A i, j \in DOMAIN s : i < j => Len(s[i][1]) >= Len(s[j][1])}

-----------------------------------------------------------------------------
Init ==
    /\ text \in Texts
    /\ entities \in Found(Len(text))
    /\ \A i \in DOMAIN entities : Positions(entities[i]) # {}
    /\ rule \in Rules
    /\ digest \in Digests
    /\ masked = [text |-> <<>>, fragments |-> <<>>]
    /\ repeats = <<>> /\ restored = <<>> /\ pending = <<>>
    /\ phase = "found"

(* A round of the loop of Masker.mask: the text up to the entity, and its  *)
(* mask.                                                                   *)
MaskEntity ==
    /\ phase = "found" /\ Done < Len(entities)
    /\ LET e == entities[Done + 1]
       IN  masked' = [text |-> masked.text \o SubSeq(text, Pos, Start(e) - 1) \o Apply(e),
                      fragments |-> Append(masked.fragments, <<Apply(e), Span(e)>>)]
    /\ UNCHANGED <<text, entities, rule, digest, repeats, restored, pending, phase>>

(* The rest of the text. *)
MaskRest ==
    /\ phase = "found" /\ Done = Len(entities) /\ phase' = "masked"
    /\ masked' = [masked EXCEPT !.text = @ \o SubSeq(text, Pos, Len(text))]
    /\ UNCHANGED <<text, entities, rule, digest, repeats, restored, pending>>

(* The masked text comes back as it is, or the LLM repeats two of the      *)
(* masks in words of its own.  unmask_fragments sorts the fragments.       *)
Return ==
    /\ phase = "masked" /\ phase' = "returned"
    /\ \/ restored' = masked.text /\ repeats' = <<>>
       \/ \E i, j \in DOMAIN masked.fragments :
             /\ restored' = masked.fragments[i][1] \o <<Separator>> \o masked.fragments[j][1]
             /\ repeats' = <<i, j>>
    /\ pending' \in Orders(masked.fragments)
    /\ UNCHANGED <<text, entities, rule, digest, masked>>

(* A round of the loop of unmask_fragments. *)
RestoreFragment ==
    /\ phase = "returned" /\ pending # <<>>
    /\ LET f == Head(pending)
       IN  restored' = IF f[1] = f[2] \/ ~Occurs(restored, f[1]) THEN restored
                       ELSE Replace(restored, f[1], f[2])
    /\ pending' = Tail(pending)
    /\ UNCHANGED <<text, entities, rule, digest, masked, repeats, phase>>

Next == MaskEntity \/ MaskRest \/ Return \/ RestoreFragment

Spec == Init /\ [][Next]_vars

-----------------------------------------------------------------------------
(* In-place masks keep the length and every character outside the parts,   *)
(* and hide at least one letter or digit of every entity, all of them when *)
(* the rule would keep as many as there are.                               *)
InPlace == rule.strategy \in {"full", "partial"}

HidesInPlace ==
    (phase # "found" /\ InPlace) =>
       /\ Len(masked.text) = Len(text)
       /\ \A i \in DOMAIN text :
             masked.text[i] # text[i] =>
                \E e \in Range(entities) : i \in Positions(e)
       /\ \A e \in Range(entities) : \E i \in Positions(e) :
             masked.text[i] # text[i]

(* What was said, once unmask_fragments returns. *)
Restored == phase = "returned" /\ pending = <<>>
Meant == IF repeats = <<>> THEN text
         ELSE Span(entities[repeats[1]]) \o <<Separator>> \o Span(entities[repeats[2]])

(* When every value has a label of its own and the text has no brackets,   *)
(* whatever comes back is restored: the whole text, and labels repeated in *)
(* other words.                                                            *)
LabelsRestored == (Restored /\ rule.strategy = "token") => restored = Meant

(* Between two entities there is text. *)
Apart == \A i \in 1 .. Len(entities) - 1 : End(entities[i]) + 1 < Start(entities[i + 1])

(* In-place masks restore a text too, as long as they are nothing but      *)
(* stars of different lengths and do not run into each other: a shorter    *)
(* mask that is a part of a longer one never breaks it (the docstring of   *)
(* unmask_fragments).                                                      *)
OnlyStars ==
    /\ \A f \in Range(masked.fragments) : Range(f[1]) = {Star}
    /\ \A f, g \in Range(masked.fragments) : f[1] = g[1] => f = g

LongestFirst ==
    (Restored /\ rule.strategy = "full" /\ Apart /\ OnlyStars) => restored = Meant

(* Whatever the strategy, a text is restored if nothing in it is           *)
(* ambiguous: each value stands between separators, its mask has none and  *)
(* is found in no other mask, no value and nowhere between them.           *)
(* Otherwise unmask_fragments has only the text of a mask to go by: two    *)
(* values of one length have one full mask, and a value that is put back   *)
(* makes a mask with what is next to it.                                   *)
Gap(h) ==
    SubSeq(text, IF h = 1 THEN 1 ELSE End(entities[h - 1]) + 1,
                 IF h > Len(entities) THEN Len(text) ELSE Start(entities[h]) - 1)

Delimited ==
    /\ Apart
    /\ \A e \in Range(entities) : \A i \in {Start(e) - 1, End(e) + 1} \cap DOMAIN text :
          text[i] = Separator

Unambiguous ==
    /\ Delimited
    /\ \A f, g \in Range(masked.fragments) :
          f[1] # f[2] =>
             /\ Separator \notin Range(f[1])
             /\ f # g => ~Occurs(g[1], f[1])
             /\ ~Occurs(g[2], f[1])
             /\ \A h \in 1 .. Len(entities) + 1 : ~Occurs(Gap(h), f[1])

UnambiguousRestored == (Restored /\ Unambiguous) => restored = Meant
=============================================================================
