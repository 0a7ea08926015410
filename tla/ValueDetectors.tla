--------------------------- MODULE ValueDetectors ---------------------------
(***************************************************************************)
(* What finds numbers, dates and documents: StandaloneValueDetector, Card-,*)
(* Inn- and ContactDetector, the three document detectors, DateDetector,   *)
(* and the values after a label in labelled.py and context_values.py.  A   *)
(* number's format, check digits and year are classes of its lexeme; what  *)
(* is modelled is where a value may stand, what must stand before it, and  *)
(* how much the detectors trust it.                                        *)
(***************************************************************************)
EXTENDS TextPatterns

(* The classes of what has a digit in it. *)
NumberClasses == {"two", "three", "four", "six", "seven", "ten", "twelve", "inn_valid", "card", "snils",
                  "dashed_document", "date", "full_date", "day", "month_text", "month_year", "month_slash_year"}

ASSUME DigitsAssumption ==
    \A w \in Lexemes : w.classes \cap NumberClasses # {} => "digits" \in w.classes

(* Words and signs between a label and a value, up to a number or a dot. *)
Words        == Gap({"digits", "dotted", "."}, 40)
NoDigits(n)  == Gap({"digits"}, n)
After(label) == <<One({label}), Opt({":"})>>
Marked(label) == <<One({label}), Opt({":", "."})>>

-----------------------------------------------------------------------------
(* StandaloneValueDetector._CHECKS: the whole text, without full stops and *)
(* commas at its end, is one value.  A year is not a PIN, and a date has a *)
(* year of four digits.                                                    *)
ValueEnd == Max({0} \cup {i \in 1 .. Size : ~IsA(i, {".", ","})})

Checks ==
    LET one(c)  == ValueEnd = 1 /\ Has(1, c)
        latin(i) == IsA(i, {"LATIN", "Latin"}) /\ ~Has(i, "latin_stop")
        name    == IsA(1, {"surname", "first", "patronymic"}) /\ ~IsA(1, {"town", "not_surname", "famous"})
    IN  [pin             |-> one("four") /\ ~Has(1, "year"),
         cvv             |-> one("three"),
         card_expiry     |-> one("month_year"),
         driver_license  |-> ValueEnd = 2 /\ Has(1, "series_letters") /\ Has(2, "six"),
         passport        |-> one("ten"),
         inn             |-> one("twelve"),
         department_code |-> one("dept"),
         address         |-> one("six") \/ one("town"),
         date            |-> /\ one("full_date") \/ (ValueEnd = 2 /\ Has(1, "day") /\ Has(2, "month_text"))
                             /\ ~Has(ValueEnd, "historic"),
         card_number     |-> one("card"),
         phone           |-> one("phone"),
         email           |-> one("email"),
         passport_issuer |-> one("issuer_alone"),
         card_holder     |-> ValueEnd \in 2 .. 3 /\ \A i \in 1 .. ValueEnd : latin(i),
         citizenship     |-> one("citizen_of"),
         fio             |-> ValueEnd = 1 /\ name]

Standalone == UNION {Entity(t, 1 .. ValueEnd, 90, {}) : t \in {t \in DOMAIN Checks : Checks[t]}}

-----------------------------------------------------------------------------
(* ContactDetector.  8-800 is the number of an organisation. *)
Contacts ==
    LET numbers(p) == {n \in Places(Hits({p})) : \A i \in n : ~Has(i, "org_phone")}
    IN  Found("email", <<Value({"email"})>>, 90)
        \cup EntitiesAt("phone", numbers(<<Value({"phone"})>>), 65)
        \cup EntitiesAt("phone", numbers(Marked("phone_cue") \o <<Value({"seven", "ten"})>>), 64)

(* An expiry date that nothing introduces: only with a card number. *)
BareExpiry == WeakFound("card_expiry", <<Value({"month_slash_year"})>>, 40, {"card_number"})

(* CardDetector: a number with its check digit or a card's word before it, *)
(* its secrets and its expiry - save that of a discount.                   *)
Cards ==
    LET until == Marked("until") \o <<Value({"month_year"})>>
        pin   == <<One({"pin"}), Opt({"code_word"}), Opt({"from"}), Opt({"of_card"}), Opt({":"}), Value({"four", "six"})>>
        card(i) == Has(i, "card") /\ (Has(i, "luhn") \/ CueBefore(From[i], "card_cue", 40))
        discount(i) == CueBefore(From[i], "discount", 40)
        cards   == {i \in 1 .. Size : card(i)}
    IN  EntitiesAt("card_number", {{i} : i \in cards}, 82)
        \cup Found("cvv", <<One({"cvv"}), Opt({"code_word"}), Opt({":"}), Value({"three", "four"})>>, 85)
        \cup Found("pin", pin, 85)
        \cup Found("card_expiry", <<One({"expiry_label"}), Opt({"of_card"}), Opt({":", "."}), Value({"month_year"})>>, 80)
        \cup EntitiesAt("card_expiry", Places({h \in Hits({until}) : ~discount(h[1])}), 78)
        \cup BareExpiry

(* MUTANT of OfOrganisation: only what stands between label and number. *)
OrganisationInside(h) == \E i \in h[1] .. h[3] - 1 : Has(i, "organisation_form")

(* The word of an organisation before a match, or within it. *)
OfOrganisation(h) ==
    \/ CueBefore(From[h[1]], "organisation_form", 40)
    \/ \E i \in h[1] .. h[3] - 1 : Has(i, "organisation_form")

ClientInn(between, value, priority) ==
    LET hits == Hits({<<One({"inn"})>> \o between \o <<Value(value)>>})
    IN  EntitiesAt("inn", Places({h \in hits : ~OfOrganisation(h)}), priority)

(* InnDetector: after a label, or twelve digits with their check digits. *)
Inns == ClientInn(<<Opt({"of_person"}), Opt({":"})>>, {"ten", "twelve"}, 77) \cup Found("inn", <<Value({"inn_valid"})>>, 42)

-----------------------------------------------------------------------------
(* The words for a series and for a number are not the same everywhere:    *)
(*   "seriya", "number_between"      in documents.py: "серия"; "номер",    *)
(*       "ном.", "н." and the sign;                                        *)
(*   "series_label", "number_label"  in labelled.py: "серия", "серии",     *)
(*       "серией", "сер."; "номер", "номером" and the sign;                *)
(*   "series_word", "number_word"    in context_values.py: "серия" and     *)
(*       "серии"; "номер" and the sign.                                    *)
(* So are those of a licence: "licence" in documents.py, "licence_label"   *)
(* ("удостоверени", "ву", "права", "водительск") in labelled.py.           *)


(* The expressions for a series and a number: apart, or ten digits.  What  *)
(* takes only digits for a series is a passport.                           *)
SeriesAndNumber(label, series) ==
    {label \o <<Value(series), [Opt({",", ":"}) EXCEPT !.max = 3], Opt({"number_between"}), Opt({":"}), Value({"six"})>>,
     label \o <<Value({"ten", "dashed_document"})>>}

(* _doc_type and _document_type: a licence, if a word for it is in the 60  *)
(* characters before.                                                      *)
DocType(pos, cue) == IF CueBefore(pos, cue, 60) THEN "driver_license" ELSE "passport"

TypedDocuments(ps, cue, priority) ==
    LET of(t) == Places({h \in Hits(ps) : DocType(From[h[1]], cue) = t})
    IN  EntitiesAt("passport", of("passport"), priority)
        \cup EntitiesAt("driver_license", of("driver_license"), priority)

(* IdentityDocumentDetector. *)
IdentityDocuments ==
    LET anySeries == {"four", "series", "series_letters"}
        after(cue, series) == Hits(SeriesAndNumber(<<One({cue}), NoDigits(40)>>, series))
    IN  EntitiesAt("driver_license", Places(after("licence", anySeries)), 76)
        \cup EntitiesAt("passport", Places(after("passport", {"four", "series"})), 74)
        \cup TypedDocuments(SeriesAndNumber(After("seriya"), anySeries), "licence", 73)
        \cup TypedDocuments({<<Value({"series"}), Value({"six"})>>}, "licence", 45)
        \cup TypedDocuments({<<Value({"four"}), Value({"six"})>>}, "licence", 45)

Long(place) == place # {} /\ From[Min(place)] + 3 <= To(Max(place))

(* _issuers: from "выдан" to a date, a code, a number after a comma or the *)
(* end of the sentence, if an authority is named in its first characters.  *)
Issuers ==
    LET stop(k) == \/ Has(k, ".") /\ k > 1 /\ text[k - 1].width > 2
                   \/ Has(k, "abbreviation") /\ text[k].width > 3
        ends(k) == \/ IsA(k, {"date", "dept_label", "issue_date_label"})
                   \/ (Has(k, ",") /\ Has(k + 1, "digits"))
                   \/ (stop(k) /\ Has(k + 1, "upper"))
                   \/ (IsA(k, {".", "dotted"}) /\ k = Size)
        value(s) == LET end  == Min({Size + 1} \cup {k \in s .. Size : ends(k)})
                        upto == IF Has(end, "dotted") THEN end ELSE end - 1
                    IN  s .. Max({s - 1} \cup {k \in s .. upto : ~IsA(k, {",", "."}) /\ To(k) <= From[s] + 200})
        named(s) == s <= Size /\ \E k \in s .. Size : Has(k, "authority") /\ To(k) <= From[s] + 30
        starts   == {s \in {h[3] : h \in Hits({After("issued")})} : named(s)}
    IN  EntitiesAt("passport_issuer", {p \in {value(s) : s \in starts} : Long(p)}, 66)

(* _birth_places: the first word of a place and the words that go on with  *)
(* it - a kind of place, or a capital after a capital.                     *)
PlaceWords(first) ==
    LET words[k \in 1 .. Size + 1, n \in 0 .. 6] ==
          LET next == IF Has(k + 1, ",") THEN k + 2 ELSE k + 1
              ok   == /\ Has(k, "plain") \/ (Has(k, "place_dotted") /\ k # first)
                      /\ Has(next, "word")
                      /\ Has(next, "geo") \/ (Has(next, "upper") /\ Has(first, "upper"))
          IN  IF n = 0 THEN {} ELSE {k} \cup IF ok THEN words[next, n - 1] ELSE {}
        kept == IF Has(first, "word") THEN words[first, 6] ELSE {}
        last == Max({0} \cup {k \in kept : ~Has(k, "place_tail")})
    IN  IF last = 0 THEN {} ELSE first .. last

BirthPlaces ==
    LET prefix(k) == IF Has(k, "place_prefix") /\ Has(k + 1, "word") THEN k + 1 ELSE k
        start(m)  == LET s     == prefix(m[3])
                         later == MatchAt(<<Gap({":", "digits", ","}, 60), One({":"})>>, s)
                     IN  IF Has(m[1], "place_of_birth") /\ m[2] = m[3] /\ later # <<>>
                         THEN prefix(later[3]) ELSE s
        places == {PlaceWords(start(m)) : m \in {m \in FindIter(After("born_in")) : Has(prefix(m[3]), "word")}}
    IN  EntitiesAt("birth_place", places, 72)

(* IssuanceDetector. *)
Issuance ==
    Found("department_code", After("dept_label") \o <<Value({"dept", "six"})>>, 72)
    \cup WeakFound("department_code", <<Value({"dept"})>>, 30, {"passport", "passport_issuer"})
    \cup Issuers
    \cup Found("citizenship", After("citizen") \o <<Value({"citizen_of"})>>, 70)
    \cup BirthPlaces

(* ExtraDocumentDetector. *)
ExtraDocuments ==
    LET snils(i) == Has(i, "snils") /\ (CueBefore(From[i], "snils_cue", 40) \/ Has(i, "snils_valid"))
    IN  EntitiesAt("snils", {{i} : i \in {i \in 1 .. Size : snils(i)}}, 68)
        \cup Found("foreign_passport", <<One({"abroad"}), NoDigits(30), Value({"two"}), Value({"seven"})>>, 78)
        \cup Found("military_id", <<One({"military"}), NoDigits(20), Value({"letters2"}), Value({"seven"})>>, 78)
        \cup Found("birth_certificate",
                   <<One({"birth_certificate"}), Gap({}, 20), Value({"roman"}), Value({"letters2"}), Value({"six"})>>, 78)

-----------------------------------------------------------------------------
(* _classify of dates.py: born, issued, or some date - which is hidden     *)
(* only with data of a person.  Dates before 1900 are history.             *)
PersonTypes == {"fio", "passport", "driver_license", "birth_place", "inn"}

DateEntity(first, last, shift) ==
    LET e(t, priority, requires) == WeakAt(t, {first .. last}, priority + shift, requires)
        before(cue, window) == CueBefore(From[first], cue, window)
    IN  IF Has(last, "historic") THEN {}
        ELSE IF before("birth", 35) \/ Has(last + 1, "birth_after") THEN e("birth_date", 64, {})
        ELSE IF before("issue", 90) THEN e("passport_issue_date", 64, {})
        ELSE IF Has(last, "future") THEN {} ELSE e("date", 35, PersonTypes)

Dates ==
    LET dates(p, shift) == UNION {DateEntity(h[1], h[3] - 1, shift) : h \in Hits({p})}
    IN  dates(<<Value({"date"})>>, 0)
        \cup dates(<<Value({"day"}), Value({"month_text"})>>, 0)
        \cup dates(<<Value({"month_text"})>>, -5)

-----------------------------------------------------------------------------
(* LabelledValueDetector: documents with words between series and number,  *)
(* in either order; dates and citizenship some words after their label.    *)
LabelledDocuments ==
    LET series == After("series_label") \o <<Value({"four", "series"})>>
        number == After("number_label") \o <<Value({"six"})>>
    IN  TypedDocuments({series \o <<NoDigits(25)>> \o number}, "licence_label", 45)
        \cup TypedDocuments({number \o <<NoDigits(25)>> \o series}, "licence_label", 45)

LabelledDates ==
    LET label(c) == <<One({c}), Gap({":", ".", "dotted"}, 60), One({":"})>>
        dates(c) == {h \in Hits({label(c) \o <<Value({"month_slash_year"})>>,
                                 label(c) \o <<Value({"day"}), Value({"month_text"})>>,
                                 label(c) \o <<Value({"day"}), Value({"two"}), Values({"two", "four"}, 0, 1)>>}) : ~Has(h[3] - 1, "historic")}
    IN  EntitiesAt("birth_date", Places(dates("birth_date_label")), 45)
        \cup EntitiesAt("passport_issue_date", Places(dates("issue_date_label")), 45)

LabelledCitizenship ==
    LET label == <<One({"citizenship"}), Gap({":"}, 40), One({":"})>>
    IN  Found("citizenship", label \o <<Value({"upper"}), [More({"upper"}, 3) EXCEPT !.value = TRUE]>>, 45)

-----------------------------------------------------------------------------
(* ContextValueDetector: a secret some words after its label, or before    *)
(* it; a card with a code after it as the whole text.                      *)
CardAndCode ==
    LET whole(c, i) == IF Size = 2 /\ Has(1, "sixteen") /\ Has(2, c) THEN {{i}} ELSE {}
    IN  EntitiesAt("card_number", whole("three", 1) \cup whole("four", 1), 86)
        \cup EntitiesAt("cvv", whole("three", 2), 86)
        \cup EntitiesAt("pin", whole("four", 2), 86)

Secrets ==
    LET secret   == <<Words, Value({"four", "six"})>>
        pins     == Hits({<<One({"pin"})>> \o secret, <<One({"pin"}), One({"."}), One({"code_word"})>> \o secret})
    IN  EntitiesAt("pin", Places(pins), 86)
        \cup Found("cvv", <<One({"cvv"}), Words, Value({"three"})>>, 86)
        \cup Found("cvv", <<One({"code_word"}), Value({"three"}), Gap({"digits", ".", "dotted"}, 30), One({"cvv"})>>, 86)
        \cup CardAndCode

(* _numbers: a number that is the whole text; an INN some words after its  *)
(* label; a series without a number.                                       *)
WholeNumbers ==
    LET whole(c) == IF Size = 1 /\ Has(1, c) THEN {{1}} ELSE {}
    IN  EntitiesAt("inn", whole("inn_groups"), 79) \cup EntitiesAt("passport", whole("dashed_document"), 79)

LabelledNumbers ==
    LET numberNext(n) == LET k == IF Has(n, ",") THEN n + 1 ELSE n
                         IN  IsA(IF Has(k, "number_word") THEN k + 1 ELSE k, {"digits"})
        series == Hits({After("series_word") \o <<Value({"four", "series"})>>})
    IN  ClientInn(<<Words>>, {"ten", "twelve", "inn_groups"}, 79)
        \cup WholeNumbers
        \cup EntitiesAt("passport", Places({h \in series : ~numberNext(h[3])}), 44)
        \cup Found("department_code", <<One({"dept_label"}), Words, Value({"dept"})>>, 79)

(* _issuers and _issuer_end: an authority's name goes on to a word that is *)
(* not part of one, a number, a comma or the end of the sentence.          *)
LabelledIssuers ==
    LET name[k \in 1 .. Size + 1] ==
          IF ~Has(k, "word") \/ Has(k, "issuer_stop") THEN {}
          ELSE {k} \cup IF Has(k, "dotted") /\ ~IsA(k, {"place_dotted", "Initial"}) THEN {}
                        ELSE IF ~Has(k + 1, ".") THEN name[k + 1]
                        ELSE IF Has(k, "CAPS") THEN name[k + 2] ELSE {}
        labelled  == {h[3] : h \in Hits({<<One({"issuer_label"}), One({":"})>>})}
        authority == {h[1] : h \in Hits({<<Opt({"department"}), Opt({"gu"}), One({"authority_name"})>>})}
        known(i)  == IF i = 1 THEN To(Size) <= 80 ELSE CueBefore(From[i], "issuer_cue", 60)
        names     == {name[i] : i \in labelled \cup {i \in authority : known(i)}}
    IN  EntitiesAt("passport_issuer", {Min(n) .. Max(n) : n \in {n \in names : Long(n)}}, 69)
=============================================================================
