--------------------------- MODULE NameDetectors ----------------------------
(***************************************************************************)
(* What finds names: FioDetector (fio.py) with extend_person_span          *)
(* (name_span.py), the names after a label and the text that is one name   *)
(* (labelled.py), the names after a person's role and the text that is two *)
(* or three words (context_values.py).  The words of a text are its        *)
(* Cyrillic words; an initial is a word of one letter with its dot.        *)
(***************************************************************************)
EXTENDS TextPatterns

(* A famous surname is no first name and no patronymic, and a letter with   *)
(* its dot is no word.                                                     *)
ASSUME NamesAssumption ==
    \A w \in Lexemes :
       /\ "famous" \in w.classes => w.classes \cap {"first", "patronymic", "initial", "."} = {}
       /\ "initial" \in w.classes => "strong_cue" \notin w.classes

Capitalised(i) == IsA(i, {"Cap", "Initial", "Letter"})
KnownName(i)   == IsA(i, {"first", "patronymic", "surname"})

(* The last of at most n words from i on, each fit to follow. *)
RunOf(i, n, Follows(_)) ==
    Max({i} \cup {k \in i + 1 .. i + n - 1 :
                    \A j \in i + 1 .. k : Adjacent(j - 1) /\ Has(j, "word") /\ Follows(j)})

AnyWord(i) == TRUE

-----------------------------------------------------------------------------
(* extend_person_span: an initial on the left, the dot of the last letter, *)
(* and up to three steps to the right - initials or a patronymic.          *)
StepRight(n) ==
    IF Glued(n) THEN n
    ELSE IF Has(n, "initial") THEN IF Has(n + 1, "initial") THEN n + 2 ELSE n + 1
    ELSE IF Has(n, "patronymic") THEN n + 1 ELSE n

ExtendRight(next) == StepRight(StepRight(StepRight(next)))

(* MUTANT of Extended: a name stays as its detector found it. *)
Unextended(first, last) == [first |-> first, last |-> last]

Extended(first, last) ==
    [first |-> IF Has(first - 1, "initial") THEN first - 1 ELSE first,
     last  |-> IF Has(last, "abbreviation") THEN last ELSE ExtendRight(last + 1) - 1]

NameEntity(first, last, priority) ==
    LET e == Extended(first, last)
    IN  EntityTo("fio", e.first .. e.last, Has(e.last, "initial"), priority, {})

-----------------------------------------------------------------------------

(* _is_surname and _match_run: how many words from i on are a name. *)
IsSurname(i) ==
    \/ Has(i, "surname")
    \/ Capitalised(i) /\ ~IsA(i, {"fio_cue", "first", "patronymic"})

MatchRun(i) ==
    LET n == RunOf(i, 3, AnyWord) - i + 1
        Is(k, c) == Has(i + k, c)
    IN  IF n = 3 /\ \/ IsSurname(i) /\ Is(1, "first") /\ Is(2, "patronymic")
                    \/ Is(0, "first") /\ Is(1, "patronymic") /\ IsSurname(i + 2)
        THEN 3
        ELSE IF n >= 2 /\ \/ Is(0, "first") /\ Is(1, "patronymic")
                          \/ Is(0, "surname") /\ Is(1, "first")
                          \/ Is(0, "first") /\ Is(1, "surname")
        THEN 2 ELSE 0

Core(first, last, end, priority) ==
    [first |-> first, last |-> last, end |-> end, priority |-> priority]

ByMorphology ==
    LET at == [i \in 1 .. Size |-> IF Has(i, "word") /\ MatchRun(i) > 0 THEN <<i, i + MatchRun(i)>> ELSE <<>>]
    IN  {Core(m[1], m[2] - 1, Letters(m[2] - 1), 60) : m \in NonOverlapping(at)}

ByInitials ==
    {Core(m[1], m[4] - 1, To(m[4] - 1), 62) :
        m \in FindIter(<<One({"Cap"}), One({"Initial"}), One({"Initial", "Letter"})>>)
              \cup FindIter(<<One({"Initial"}), One({"Initial"}), One({"Cap"})>>)}

(* _by_cue: two or three words right after "клиент", or one surname. *)
JustAfter(i, c) == Has(i - 1, c) \/ (Has(i - 1, ":") /\ Has(i - 2, c))

ByCue ==
    LET follows(j) == Capitalised(j) \/ KnownName(j)
        last(i)    == RunOf(i, 3, follows)
        name(i)    == LET run == i .. last(i)
                      IN  /\ \A j \in run : ~Has(j, "no_name")
                          /\ IF last(i) = i THEN Has(i, "surname") /\ ~IsA(i, {"first", "patronymic"})
                             ELSE \/ \A j \in run : Capitalised(j)
                                  \/ \E j \in run : IsA(j, {"first", "patronymic"})
    IN  {Core(i, last(i), Letters(last(i)), 58) :
            i \in {i \in 1 .. Size : Has(i, "word") /\ ~Has(i, "fio_cue") /\ JustAfter(i, "fio_cue") /\ name(i)}}

(* MUTANT of Excluded: what stands around a name does not matter. *)
NeverExcluded(c) == FALSE

(* _is_excluded: a name in quotation marks, after "улица" or "поэт",       *)
(* before "великий поэт", or of a famous person.  A client's word in front *)
(* lifts the last two.                                                     *)
Excluded(c) ==
    LET renown == <<[Opt({","}) EXCEPT !.max = 5], Opt({"was"}),
                    [Opt({"plain", "number"}) EXCEPT !.max = 2, !.lazy = TRUE], One({"renown"})>>
        after  == IF c.last < Size /\ c.end = To(c.last) THEN MatchAt(renown, c.last + 1) ELSE <<>>
    IN  \/ Has(c.first - 1, "opening")
        \/ Has(c.first - 1, "non_pd_cue") /\ ~Glued(c.first)
        \/ /\ \/ after # <<>> /\ To(after[4]) <= c.end + 60
              \/ \E i \in c.first .. c.last : Has(i, "famous")
           /\ ~CueBefore(From[c.first], "strong_cue", 40)

(* _card_holders: the words after "держатель карты"; two words in Latin    *)
(* capitals, if a card number is found too.                                *)
HolderEntities ==
    LET ok(i) == IsA(i, {"LATIN", "Latin", "Cap"}) \/ KnownName(i)
        cue   == <<One({"holder_cue"}), Opt({"of_card"}), Opt({":"}), Opt({"opening"}),
                   Values({"lower", "Cap", "Latin", "LATIN"}, 2, 3)>>
        words(m) == LET all   == m[5] .. m[6] - 1
                        upto  == Max({0} \cup {i \in all : ~Has(i, "holder_stop")})
                        from  == Min({Size + 1} \cup {i \in all : ~Has(i, "holder_lead")})
                        named == {i \in from .. upto : ok(i)}
                    IN  IF named = {} THEN {} ELSE from .. Max(named)
        latin == {m \in FindIter(<<One({"LATIN"}), One({"LATIN"})>>) :
                     ~Has(m[1], "latin_stop") /\ ~Has(m[2], "latin_stop")}
        holders == {h \in {words(m) : m \in FindIter(cue)} : Cardinality(h) >= 2 /\ \A i \in h : ok(i)}
    IN  EntitiesAt("card_holder", holders, 80)
        \cup WeakAt("card_holder", {{m[1], m[2]} : m \in latin}, 55, {"card_number"})

FioEntities ==
    HolderEntities
    \cup (UNION {NameEntity(c.first, c.last, c.priority) :
                    c \in {c \in ByMorphology \cup ByInitials \cup ByCue : ~Excluded(c)}})

-----------------------------------------------------------------------------
(* _looks_like_name.  Only if dots are taken is an initial one. *)
LooksLikeName(words, dots) ==
    LET strong(i) == KnownName(i) \/ (dots /\ Has(i, "initial"))
    IN  /\ \A i \in words : ~IsA(i, {"no_name_labelled", "famous"})
        /\ \A i \in words : strong(i) \/ Has(i, "upper")
        /\ \E i \in words : strong(i)

(* _labelled_names: all the words after "имя:", four at the most, up to a  *)
(* dot - an initial is found without its own.                              *)
LabelledNames ==
    LET label  == <<One({"name_label"}), Gap({":"}, 40), One({":"})>>
        words(m) == Last(m) .. RunOf(Last(m), 4, AnyWord)
        named(m) == Has(Last(m), "word") /\ Has(Last(m), "upper") /\ LooksLikeName(words(m), FALSE)
    IN  EntitiesAt("fio", {words(m) : m \in {m \in FindIter(label) : named(m)}}, 45)

(* _client_names: a first name after the word "клиент". *)
ClientNames ==
    LET clients == FindIter(<<One({"client"}), One({"word"})>>)
        name(i) == IF Adjacent(i) /\ Has(i + 1, "initial")
                   THEN EntityTo("fio", {i, i + 1}, TRUE, 45, {}) ELSE Entity("fio", {i}, 45, {})
    IN  UNION {name(i) : i \in {i \in {m[2] : m \in clients} : Has(i, "first") /\ ~Has(i, "no_name_labelled")}}

(* _whole_name: the text is one to four names and initials. *)
WholeName ==
    LET n == Max({0} \cup {i \in 1 .. Size : ~IsA(i, {","})})
    IN  IF /\ n \in 1 .. 4 /\ To(Size) <= 80
           /\ \A i \in 1 .. n : Has(i, "word") /\ ~Has(i, "abbreviation")
           /\ LooksLikeName(1 .. n, TRUE)
        THEN EntityTo("fio", 1 .. n, TRUE, 45, {}) ELSE {}

-----------------------------------------------------------------------------
(* _role_names: the words after "получатель:", four at the most, up to one *)
(* that is not part of a name or to a comma.  The dot of a sentence does   *)
(* not end them.                                                           *)
RoleToken(i) ==
    /\ ~IsA(i, {"no_name_role", "famous"})
    /\ IsA(i, {"Cap", "Latin", "initial"}) \/ KnownName(i)

NextToken(i) == IF Has(i + 1, ".") /\ Has(i, "plain") THEN i + 2 ELSE i + 1

RoleTokens(first) ==
    LET second == NextToken(first)
        third  == NextToken(second)
        chain  == <<first, second, third, NextToken(third)>>
    IN  {chain[k] : k \in {k \in 1 .. 4 : \A j \in 1 .. k : RoleToken(chain[j])
                                                         /\ (j > 1 => ~IsA(chain[j], {",", ":"}))}}

(* _weak_value: nothing but initials, or no word that is surely a name and *)
(* not two words either.                                                   *)
WeakValue(tokens) ==
    \/ \A i \in tokens : Has(i, "initial")
    \/ /\ \A i \in tokens : ~KnownName(i) /\ ~Has(i, "initial")
       /\ \/ Cardinality(tokens) < 2
          \/ \E i \in tokens : Has(i, "geo")

RoleNames ==
    LET label   == <<One({"role"}), Gap({":", "digits", "quote"}, 40), One({":"})>>
        other(m) == \E i \in m[1] .. Last(m) - 1 : IsA(i, {"organisation_form", "address_cue"})
        named   == {RoleTokens(Last(m)) : m \in {m \in FindIter(label) : ~other(m)}}
    IN  UNION {NameEntity(Min(t), Max(t), 67) : t \in {t \in named : t # {} /\ ~WeakValue(t)}}

(* _bare_names: the text is two or three capitalised words; or begins with *)
(* two Latin ones.                                                         *)
BareNames ==
    LET stops(i) == IsA(i, {"bare_stop", "town", "famous"})
        lead     == <<One({"Latin"}), One({"Latin"}), Ahead(<<{"lowercase"}>>)>>
        leads    == Size > 0 /\ MatchAt(lead, 1) # <<>> /\ ~stops(1) /\ ~stops(2)
    IN  (IF /\ Size \in 2 .. 3 /\ To(Size) <= 40
             /\ \A i \in 1 .. Size : IsA(i, {"Cap", "Latin"}) /\ ~stops(i)
         THEN EntitiesAt("fio", {1 .. Size}, 46) ELSE {})
        \cup (IF leads THEN EntitiesAt("fio", {{1, 2}}, 46) ELSE {})
=============================================================================
