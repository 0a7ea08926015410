---------------------------- MODULE TextPatterns ----------------------------
(***************************************************************************)
(* What the detectors (app/core/detectors) are written with: regular       *)
(* expressions over the text, cue_before and make_entity.  A text is a     *)
(* sequence of lexemes - a word, a number, an abbreviation or an initial   *)
(* with its dot, a punctuation mark.  The classes of a lexeme are the      *)
(* alternatives of the detectors' expressions that it matches: "Лесная" is *)
(* a word with a capital and the ending of an adjective, "г." a word with  *)
(* a dot and a label of a locality.  Lexemes are separated by one space,   *)
(* save those that stick to their neighbour; a lexeme's width is its       *)
(* length, so that the windows of characters in the code are windows of    *)
(* characters here.                                                        *)
(***************************************************************************)
EXTENDS Naturals, Sequences, FiniteSetsExt, SequencesExt

CONSTANT Lexemes

ASSUME LexemesAssumption ==
    \A w \in Lexemes : /\ w.width \in Nat \ {0} /\ \A c \in w.classes : c \in STRING
                       /\ "dotted" \in w.classes => w.width > 1

VARIABLE text

Size        == Len(text)
Has(i, c)   == i \in 1 .. Size /\ c \in text[i].classes
IsA(i, cs)  == i \in 1 .. Size /\ cs \cap text[i].classes # {}
Glued(i)    == Has(i, "glued") \/ Has(i - 1, "opening")

(* Where a lexeme begins, ends, and ends without its dot. *)
From[i \in 1 .. Size] ==
    IF i = 1 THEN 0 ELSE From[i - 1] + text[i - 1].width + IF Glued(i) THEN 0 ELSE 1
To(i)      == From[i] + text[i].width
Letters(i) == To(i) - IF Has(i, "dotted") THEN 1 ELSE 0

(* cue_before: a cue in the window of characters before a place. *)
CueBefore(pos, c, window) ==
    \E j \in 1 .. Size : Has(j, c) /\ To(j) <= pos /\ pos <= From[j] + window

(* Where the sentence of a place begins: after the last full stop that a   *)
(* space follows, be it the dot of an abbreviation.                        *)
SentenceStart(pos) ==
    Max({0} \cup {From[j] : j \in {k \in 2 .. Size : /\ From[k] <= pos /\ ~Glued(k)
                                                     /\ IsA(k - 1, {"dotted", "."})}})

(* A cue in the sentence of a place, before it. *)
CueInSentence(pos, c) ==
    \E j \in 1 .. Size : Has(j, c) /\ SentenceStart(pos) <= From[j] /\ From[j] < pos

(* Two neighbours with nothing but a space between them. *)
Adjacent(i) == i < Size /\ ~Has(i, "dotted") /\ ~Glued(i + 1)

-----------------------------------------------------------------------------
(* An expression is a sequence of items, each of which takes some lexemes. *)
Item == [of |-> {}, except |-> FALSE, min |-> 1, max |-> 1, chars |-> 0,
         lazy |-> FALSE, value |-> FALSE, joined |-> FALSE, ahead |-> <<>>]

One(cs)       == [Item EXCEPT !.of = cs]
Opt(cs)       == [Item EXCEPT !.of = cs, !.min = 0]
Value(cs)     == [Item EXCEPT !.of = cs, !.value = TRUE]
Values(cs, l, h) == [Value(cs) EXCEPT !.min = l, !.max = h]
More(cs, n)   == [Values(cs, 0, n) EXCEPT !.joined = TRUE]
Gap(cs, n)    == [Opt(cs) EXCEPT !.except = TRUE, !.max = n, !.chars = n, !.lazy = TRUE]
Ahead(seq)    == [Opt({}) EXCEPT !.max = 0, !.ahead = seq]

(* Item e may take the lexemes i .. j - 1. *)
Takes(e, i, j) ==
    /\ \A k \in i .. j - 1 : IsA(k, e.of) # e.except
    /\ e.joined /\ j > i => Adjacent(i - 1)
    /\ e.chars > 0 /\ j > i => To(j - 1) <= e.chars + IF i = 1 THEN 0 ELSE To(i - 1)
    /\ \A k \in DOMAIN e.ahead : IsA(i + k - 1, e.ahead[k])

(* match at lexeme i: where each item begins, and where the rest of the    *)
(* text begins, as backtracking finds them; <<>> if there is no match.     *)
MatchAt(p, i) ==
    LET match[k \in 1 .. Len(p) + 1] ==
          [j \in 1 .. Size + 1 |->
             IF k > Len(p) THEN <<j>>
             ELSE LET ends  == {n \in j + p[k].min .. Size + 1 : n <= j + p[k].max /\ Takes(p[k], j, n)}
                      tails == {match[k + 1][n] : n \in ends} \ {<<>>}
                  IN  IF tails = {} THEN <<>>
                      ELSE <<j>> \o CHOOSE t \in tails :
                                      \A u \in tails : IF p[k].lazy THEN t[1] <= u[1] ELSE t[1] >= u[1]]
    IN  match[1][i]

(* finditer: from left to right, a match starts after the one before it.   *)
(* at[i] is the match at lexeme i; its last element is where it ends.      *)
NonOverlapping(at) ==
    LET rest[i \in 1 .. Size + 1] ==
          IF i > Size THEN {}
          ELSE LET m == at[i] IN IF m = <<>> THEN rest[i + 1] ELSE {m} \cup rest[Last(m)]
    IN  rest[1]

FindIter(p) == NonOverlapping([i \in 1 .. Size |-> MatchAt(p, i)])

(* The groups of match m of expression p: what will be hidden. *)
GroupsOf(p, m) == UNION {m[k] .. m[k + 1] - 1 : k \in {n \in DOMAIN p : p[n].value}}

(* finditer of an expression with alternatives, of which one at most       *)
(* matches: where a match begins, its groups, and where it ends.           *)
Hit(p, m)  == <<m[1], GroupsOf(p, m), Last(m)>>
AnyOf(hits) == IF hits = {} THEN <<>> ELSE CHOOSE h \in hits : TRUE

Hits(ps) ==
    NonOverlapping([i \in 1 .. Size |->
       AnyOf({Hit(a[1], a[2]) : a \in {b \in {<<p, MatchAt(p, i)>> : p \in ps} : b[2] # <<>>}})])

(* make_entity: the lexemes that will be hidden - the last of them with    *)
(* its dot or without - or nothing, if there is nothing to hide.           *)
EntityTo(t, hidden, dot, priority, requires) ==
    {[type |-> t, hidden |-> h, start |-> From[Min(h)],
      end |-> IF dot THEN To(Max(h)) ELSE Letters(Max(h)),
      priority |-> priority, requires |-> requires] :
         h \in {hidden} \cap ((SUBSET (1 .. Size)) \ {{}})}

Entity(t, hidden, priority, requires) == EntityTo(t, hidden, FALSE, priority, requires)

(* An entity for each of the places; weak, if requires is not empty. *)
Places(hits) == {h[2] : h \in hits}
WeakAt(t, places, priority, requires) == UNION {Entity(t, p, priority, requires) : p \in places}
EntitiesAt(t, places, priority)       == WeakAt(t, places, priority, {})

(* The entities of all matches of p. *)
WeakFound(t, p, priority, requires) == WeakAt(t, Places(Hits({p})), priority, requires)
Found(t, p, priority)               == WeakFound(t, p, priority, {})
=============================================================================
