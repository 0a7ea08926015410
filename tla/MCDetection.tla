---------------------------- MODULE MCDetection -----------------------------
(***************************************************************************)
(* Two kinds of input for the engine.  Texts, put together from the        *)
(* phrases of a client's message, go through the detectors; and, so that   *)
(* overlaps and requirements of every shape happen, sequences of           *)
(* candidates that no detector has to yield go through the engine alone    *)
(* (then text is empty).                                                   *)
(***************************************************************************)
EXTENDS TextProperties, TLC

-----------------------------------------------------------------------------
(* The lexemes, transliterated, with their length and what they match.     *)
Lexeme(word, width, classes) == [word |-> word, width |-> width, classes |-> classes]

Small   == {"word", "plain", "lower", "lowercase"}
Capitalled == {"word", "plain", "Cap", "upper"}
NotName == {"no_name_labelled", "no_name_role", "bare_stop"}
Number  == {"number", "digits"}
Digits  == {"digits"}

MCLexemes == {
    Lexeme("Ivan", 4, Capitalled \cup {"first"}),
    Lexeme("Petrovich", 8, Capitalled \cup {"patronymic"}),
    Lexeme("Sidorov", 7, Capitalled \cup {"surname"}),
    Lexeme("Kim", 3, Capitalled),
    Lexeme("Spasibo", 7, Capitalled \cup {"bare_stop", "no_name_labelled"}),
    Lexeme("Pushkin", 6, Capitalled \cup {"surname", "famous"}),
    Lexeme("P.", 2, {"word", "dotted", "initial", "Initial", "upper"}),
    Lexeme("klient", 6, Small \cup {"fio_cue", "strong_cue", "client", "role", "no_name_labelled"}),
    Lexeme("poet", 4, Small \cup {"non_pd_cue", "renown"}),
    Lexeme("bank", 4, Small \cup NotName \cup {"organisation", "bare_organisation"}),
    Lexeme("kompaniya", 8, Small \cup {"bare_organisation", "organisation_form", "no_name_role"}),
    Lexeme("adres", 5, Small \cup {"personal", "address_label", "address_cue"}),
    Lexeme("g.", 2, {"word", "dotted", "initial", "lowercase", "locality", "geo",
                "place_prefix", "place_dotted", "place_tail"}),
    Lexeme("Moskva", 6, Capitalled \cup {"town", "no_name", "no_name_role"}),
    Lexeme("ul.", 3, {"word", "dotted", "abbreviation", "lowercase",
                 "street_label", "street_after", "non_pd_cue"}),
    Lexeme("Lesnaya", 6, Capitalled \cup {"adjective", "Adjective"}),
    Lexeme("7", 1, Number \cup {"upto3"}),
    Lexeme("seriya", 5, Small \cup {"seriya", "series_label", "series_word"}),
    Lexeme("serii", 5, Small \cup {"series_label", "series_word"}),
    Lexeme("nomer", 5, Small \cup {"number_between", "number_label", "number_word"}),
    Lexeme("nomerom", 7, Small \cup {"number_label"}),
    Lexeme("vodit", 12, Small \cup {"licence", "licence_label"}),     \* "водительское"
    Lexeme("udost", 13, Small \cup {"licence_label"}),                \* "удостоверение"
    Lexeme("4510", 4, Number \cup {"four"}),
    Lexeme("654321", 6, Digits \cup {"six"}),
    Lexeme("12.03.90", 8, Digits \cup {"date"}),
    Lexeme("12.03.1990", 10, Digits \cup {"date", "full_date"}),
    Lexeme("OOO", 3, {"word", "plain", "upper", "CAPS", "organisation_form", "no_name_role"}),
    Lexeme("INN", 3, {"word", "plain", "upper", "CAPS", "inn"}),
    Lexeme("4510654321", 10, Digits \cup {"ten"}),
    Lexeme("500100732259", 12, Digits \cup {"twelve", "inn_valid"}),
    Lexeme("500100732258", 12, Digits \cup {"twelve"}),
    Lexeme("karta", 5, Small \cup NotName \cup {"card_cue"}),
    Lexeme("4111111111111112", 16, Digits \cup {"sixteen", "card"}),   \* fails Luhn's check
    Lexeme("12/27", 5, Digits \cup {"month_year", "month_slash_year"}),
    Lexeme("pin", 3, Small \cup {"pin"}),
    Lexeme("3907", 4, Number \cup {"four"}),
    Lexeme(",", 1, {"glued", ","}),
    Lexeme(".", 1, {"glued", "."}),
    Lexeme(":", 1, {"glued", ":"})}

Entry(word) == CHOOSE w \in MCLexemes : w.word = word

-----------------------------------------------------------------------------
(* The texts: up to MaxPhrases phrases. *)
MaxPhrases == 3
Lexed(words) == [i \in DOMAIN words |-> Entry(words[i])]
Texts(phrases) ==
    {Lexed(FlattenSeq(s)) : s \in UNION {[1 .. k -> phrases] : k \in 1 .. MaxPhrases}}

Names == Texts({
    <<"Ivan", "Petrovich">>, <<"Sidorov">>, <<"Kim">>, <<"Spasibo">>, <<"P.">>,
    <<"klient">>, <<"poet">>, <<"Pushkin">>, <<",">>})
Addresses == Texts({
    <<"bank">>, <<"kompaniya">>, <<"g.", "Moskva">>, <<"ul.", "Lesnaya">>, <<"7">>,
    <<",">>, <<".">>, <<"adres", ":">>, <<"klient">>})
LabelledAddresses == Texts({
    <<"bank">>, <<"kompaniya">>, <<"adres", ":">>, <<".", "adres", ":">>, <<"adres", ":", "654321", ",">>,
    <<"Moskva", ",", "Lesnaya", "7">>, <<"Moskva", ",", "Lesnaya", ",", "7">>, <<",", "7">>})
Documents == Texts({
    <<"seriya", "4510">>, <<"serii", "4510">>, <<"654321">>, <<"nomer", "654321">>, <<"nomerom", "654321">>,
    <<",">>, <<"Moskva">>, <<"12.03.90">>, <<"vodit">>, <<"udost">>})
Numbers == Texts({
    <<"OOO">>, <<"INN">>, <<":", "4510654321">>, <<"500100732259">>, <<":", "500100732258">>,
    <<"karta", "4111111111111112">>, <<"12/27">>, <<"12.03.1990">>, <<"pin", "3907">>, <<",">>})

MCTexts == Names \cup Addresses \cup LabelledAddresses \cup Documents \cup Numbers

-----------------------------------------------------------------------------
(* The policies: all types, as for default, and those of support-bot,      *)
(* which hides a PIN or a CVV only beside a card (config/systems.yaml).    *)
MCTypes == UNION {DeclaredTypes[d] : d \in DOMAIN DeclaredTypes}
WithCard(t) == IF t \in {"pin", "cvv"} THEN {"card_number"} ELSE {}
PolicyOf(types, Combined(_)) == [types |-> types, combinations |-> [t \in MCTypes |-> Combined(t)]]

SupportBotTypes == {"fio", "phone", "email", "card_number", "cvv", "pin", "card_holder",
                    "card_expiry", "address"}
Default    == PolicyOf(MCTypes, LAMBDA t : {})
SupportBot == PolicyOf(SupportBotTypes, LAMBDA t : WithCard(t))
MCPolicies == {Default, SupportBot}
                  \cup {PolicyOf(MCTypes \ {t}, LAMBDA u : WithCard(u)) : t \in {"card_number", "date"}}

(* Candidates over a text of five characters: a card number and what is    *)
(* taken for a PIN, an expiry or a holder in and around it; a weak expiry  *)
(* and weak holders, one of them in the expiry's place and of its rank.    *)
Candidate(t, s, e, p, req) ==
    [type |-> t, start |-> s, end |-> e, priority |-> p, requires |-> req]

MCCandidates == {
    Candidate("card_number", 0, 2, 82, {}),
    Candidate("card_number", 1, 4, 50, {}),
    Candidate("pin",         3, 4, 85, {}),
    Candidate("pin",         2, 4, 85, {}),
    Candidate("card_expiry", 0, 1, 80, {}),
    Candidate("card_expiry", 2, 3, 40, {"card_number"}),
    Candidate("card_holder", 4, 5, 80, {}),
    Candidate("card_holder", 3, 5, 55, {"card_expiry"}),
    Candidate("card_holder", 2, 3, 40, {"card_number", "pin"})}

(* Any candidate twice, any two in either order, and any four. *)
MaxCandidates == 4
MCYields ==
    [1 .. 2 -> MCCandidates]
        \cup {SetToSeq(s) : s \in UNION {kSubset(k, MCCandidates) : k \in 0 .. MaxCandidates}}

-----------------------------------------------------------------------------
Init ==
    /\ EngineInit
    /\ \/ text = <<>>
       \/ text \in MCTexts /\ policy \in {Default, SupportBot}

DetectCandidates == text = <<>> /\ Detect /\ UNCHANGED text

Next == DetectCandidates \/ TextNext

(* The loops of detect run on; the detectors' part of it is one step. *)
Spec == Init /\ [][Next]_vars /\ WF_engineVars(Select)
=============================================================================
