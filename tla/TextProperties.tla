--------------------------- MODULE TextProperties ---------------------------
(***************************************************************************)
(* What the detectors and the engine together do to a text.  A property    *)
(* compares the text with what is hidden in it once detect has ended; the  *)
(* words that decide may stand anywhere in the text, and the value may be  *)
(* found by a detector other than the one that knows the words.            *)
(***************************************************************************)
EXTENDS TextDetection

Answered   == text # <<>> /\ phase = "done"
Hidden     == UNION {e.hidden : e \in kept}
HiddenAs(t) == {e \in kept : e.type = t}
None(cs)   == \A i \in 1 .. Size : ~IsA(i, cs)

(* A detector that engine.detect skips - the policy asks for none of its   *)
(* types, or the text has no digits - would have found nothing that the    *)
(* policy asks for (base.py, applicable).                                  *)
SkippingLosesNothing ==
    Answered =>
       \A d \in Range(Registry) :
          ~Applicable(d, policy.types) => \A e \in DetectedBy(d) : e.type \notin policy.types

(* A famous name is hidden as a name only after a word that makes it a     *)
(* client's (fio.py, _is_excluded), whichever of the five ways of finding  *)
(* names comes upon it.                                                    *)
FamousKept ==
    Answered =>
       \A e \in HiddenAs("fio") :
          (\E i \in e.hidden : Has(i, "famous")) => CueBefore(e.start, "strong_cue", 40)

(* Two words of a text that are a first name and a patronymic, with the    *)
(* surname after or before them.                                           *)
Surname(i)  == IsA(i, {"surname", "Cap"}) /\ ~IsA(i, {"first", "patronymic", "fio_cue"})
FullName(i) ==
    /\ \A k \in i .. i + 2 : Has(k, "word")
    /\ Adjacent(i) /\ Adjacent(i + 1)
    /\ \/ Has(i, "first") /\ Has(i + 1, "patronymic") /\ Surname(i + 2)
       \/ Surname(i) /\ Has(i + 1, "first") /\ Has(i + 2, "patronymic")

(* Nothing in the text makes its names those of streets or poets. *)
OrdinaryNames == None({"famous", "renown", "non_pd_cue", "opening"})



(* Names and initials are written with capitals, and no name stands after *)
(* a label ("имя:") or is written in Latin letters.                        *)
PlainNames ==
    /\ None({"name_label", "Latin"})
    /\ \A i \in 1 .. Size : KnownName(i) \/ Has(i, "initial") => Capitalised(i)

(* An initial right after a name that is hidden is hidden as well          *)
(* (name_span.py), whichever detector the name was found by, unless three  *)
(* parts were added to it already (_MAX_STEPS).  The names that PlainNames *)
(* leaves out are not extended (labelled.py, context_values.py).           *)
InitialsHidden ==
    Answered /\ PlainNames =>
       \A e \in HiddenAs("fio") :
          LET last == Max(e.hidden)
          IN  Has(last + 1, "initial") =>
                 \/ last + 1 \in Hidden
                 \/ \A i \in last - 2 .. last : IsA(i, {"initial", "patronymic"})

(* An address after an organisation's word in its sentence is left alone,  *)
(* although it is found by two detectors with two lists of such words: a   *)
(* word in both lists decides (address.py and context_values.py).          *)
WithLabel(e) == LET i == Min(e.hidden) IN IF Has(i - 1, "dotted") THEN From[i - 1] ELSE e.start

OrganisationAddressKept ==
    Answered =>
       \A e \in HiddenAs("address"), j \in 1 .. Size \ Hidden :
          ~(/\ {"organisation", "bare_organisation"} \subseteq text[j].classes
            /\ SentenceStart(WithLabel(e)) <= From[j] /\ From[j] < WithLabel(e))

(* The INN of an organisation is left alone by both detectors that look    *)
(* for one, unless its own check digits make it a person's                 *)
(* (finance_contacts.py and context_values.py).                            *)
OrganisationInnKept ==
    Answered =>
       \A e \in HiddenAs("inn") :
          CueBefore(e.start, "organisation_form", 40) => \A i \in e.hidden : Has(i, "inn_valid")

(* An address after its label is hidden with its index, town, street and   *)
(* house, if no organisation stands in the text: the street and the house  *)
(* have no labels of their own, the town may be taken by two detectors     *)
(* (address.py beside an index, context_values.py).                        *)
LabelledAddress(i) ==
    LET town  == IF Has(i + 2, "six") /\ Has(i + 3, ",") THEN i + 4 ELSE i + 2
        house == IF Has(town + 3, ",") THEN town + 4 ELSE town + 3
    IN  IF /\ Has(i, "address_label") /\ Has(i + 1, ":")
           /\ Has(town, "Cap") /\ Has(town + 1, ",") /\ Has(town + 2, "Cap") /\ Has(house, "upto3")
        THEN {k \in i + 2 .. house : ~Has(k, ",")} ELSE {}

LabelledAddressHidden ==
    Answered /\ None({"organisation", "bare_organisation"}) =>
       \A i \in 1 .. Size : LabelledAddress(i) \subseteq Hidden

(* A series after its word and the number that follows are hidden together:*)
(* the rule for a series alone (context_values.py) gives way to a number,  *)
(* at once, after a comma, after "номер" or both, and then another         *)
(* detector takes the two.  documents.py knows "серия" alone.  After       *)
(* "серии" a number that is not called one may not stand behind a comma    *)
(* ("серии 4510, 654321" is left open), and the series may already belong  *)
(* to a number before it ("номер 654321 серии 4510").                      *)
NumberOf(i) ==
    LET comma  == Has(i + 1, ",")
        k      == IF comma THEN i + 2 ELSE i + 1
        called == Has(k, "number_word")
        n      == IF called THEN k + 1 ELSE k
        after  == /\ comma => called
                  /\ \A j \in 1 .. i - 2 : ~Has(j, "number_label")
    IN  {j \in {n} : Has(j, "six") /\ (Has(i - 1, "seriya") \/ after)}

=============================================================================
