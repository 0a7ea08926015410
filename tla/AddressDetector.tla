-------------------------- MODULE AddressDetector ---------------------------
(***************************************************************************)
(* AddressDetector.detect (app/core/detectors/address.py): components with *)
(* their labels, towns and house numbers without one, chains of components *)
(* and the two contexts that decide about a chain - an organisation's word *)
(* in its sentence, a client's words before a component that stands alone. *)
(* _bare_addresses of context_values.py, which fills its gaps, is here too.*)
(***************************************************************************)
EXTENDS TextPatterns

-----------------------------------------------------------------------------
(* _COMPONENT_PATTERNS, each with its alternatives.  A value is any word   *)
(* after the label of a town or a street: it may be the letters of the     *)
(* label that follows.                                                     *)
Capital           == {"Cap", "CAPS"}
Town(label, then) == <<One({label}), Ahead(then), Value({"word"}), More(Capital, 1)>>

ComponentPatterns == {
    <<"country",  {<<Value({"country"}), Ahead(<<{","}, {"six", "locality", "region_word", "upper"}>>)>>}>>,
    <<"country",  {<<One({"country_label"}), Opt({":"}), Value({"country"})>>}>>,
    <<"index",    {<<Value({"six"}), Ahead(<<{","}>>)>>}>>,
    <<"index",    {<<One({"index_label"}), Opt({":"}), Value({"six"})>>}>>,
    <<"region",   {<<Value({"adjective"}), One({"region_word"})>>}>>,
    <<"region",   {<<One({"republic"}), Value(Capital), More(Capital, 1)>>}>>,
    <<"district", {<<Value({"adjective"}), One({"district_word"})>>}>>,
    <<"city",     {Town("locality", <<>>), Town("village", <<Capital>>)}>>,
    <<"street",   {<<One({"street_label"}), Values({"upto3"}, 0, 1), Value({"word"}), More(Capital, 2)>>}>>,
    <<"street",   {<<Value({"Adjective"}), One({"street_after"})>>}>>,
    <<"house",    {<<One({"house_label"}), Value({"upto3", "four"})>>}>>,
    <<"building", {<<One({"building_label"}), Value({"upto3", "letter", "initial"})>>}>>,
    <<"flat",     {<<One({"flat_label"}), Value({"upto3", "four"})>>}>>}

(* "обл" is tried before "област": the match of "область" ends within it,  *)
(* and nothing touches such a component on its right.                      *)
Component(kind, first, next, hidden) ==
    [kind |-> kind, first |-> first, next |-> next, hidden |-> hidden, start |-> From[first],
     end |-> IF next - 1 \in hidden THEN Letters(next - 1)
             ELSE To(next - 1) - IF Has(next - 1, "cut") THEN 1 ELSE 0]

(* _components: of what overlaps, what begins first and then is longest. *)
Longest(cs) ==
    IF cs = {} THEN <<>> ELSE CHOOSE c \in {<<c, c.next>> : c \in cs} : \A d \in cs : d.next <= c[2]

Leftmost(cs) ==
    {m[1] : m \in NonOverlapping([i \in 1 .. Size |-> Longest({c \in cs : c.first = i})])}

Labelled ==
    Leftmost(UNION {{Component(p[1], h[1], h[3], h[2]) : h \in Hits(p[2])} : p \in ComponentPatterns})

(* _gap_ok: nothing but commas, three at the most, between two components. *)
Touch(c, d) ==
    /\ c.end = To(c.next - 1) /\ c.next <= d.first /\ d.first <= c.next + 3
    /\ \A k \in c.next .. d.first - 1 : Has(k, ",")

(* _add_localities: a town without a label, beside a component. *)
Localities(cs) ==
    LET town(i) == Component("city", i, i + 1, {i})
    IN  {town(i) : i \in {i \in 1 .. Size :
           /\ Has(i, "town")
           /\ \A c \in cs : i \notin c.first .. c.next - 1
           /\ \E c \in cs : Touch(town(i), c) \/ Touch(c, town(i))}}

(* _add_bare_house: a number right after a street.  It begins where the    *)
(* street ends, not at its digits.                                         *)
BareHouses(cs) ==
    LET house == <<Opt({","}), Value({"upto3", "four"})>>
        m(c)  == MatchAt(house, c.next)
    IN  {[Component("house", c.next, Last(m(c)), GroupsOf(house, m(c))) EXCEPT !.start = c.end] :
            c \in {c \in cs : c.kind = "street" /\ c.end = To(c.next - 1) /\ m(c) # <<>>}}

(* _drop_initials_labels: what begins at the second of two initials. *)
WithoutInitials(cs) ==
    LET pairs == FindIter(<<One({"Initial"}), One({"Initial"})>>)
    IN  {c \in cs : \A m \in pairs : c.start # From[m[2]]}

Components ==
    LET WithLocalities(cs) == cs \cup Localities(cs)
        WithHouses(cs)     == cs \cup BareHouses(cs)
    IN  WithoutInitials(WithHouses(WithLocalities(Labelled)))

(* _chains: what the chain of a component begins with. *)
HeadOf(cs, c) ==
    LET head[d \in cs] ==
          LET before == {e \in cs : e.start < d.start}
              prev   == CHOOSE e \in before : \A f \in before : f.start <= e.start
          IN  IF before # {} /\ Touch(prev, d) THEN head[prev] ELSE d
    IN  head[c]

Alone(cs, c) == \A d \in cs \ {c} : HeadOf(cs, d) # HeadOf(cs, c)

(* _org_cue_before: in the sentence, between its start and the chain. *)
OrganisationBefore(pos) == CueInSentence(pos, "organisation")

(* A component that stands alone needs a label or a client's words. *)
InContext(cs, c) ==
    \/ ~Alone(cs, c)
    \/ c.start < From[Min(c.hidden)]
    \/ CueBefore(c.start, "personal", 60)

AddressesAmong(cs) ==
    LET client(c) == ~OrganisationBefore(HeadOf(cs, c).start) /\ InContext(cs, c)
    IN  EntitiesAt("address", {c.hidden : c \in {c \in cs : client(c)}}, 50)

AddressEntities == AddressesAmong(Components)

-----------------------------------------------------------------------------
(* _bare_addresses: town, street, house and flat after "адрес:", without   *)
(* labels.  The organisations it knows are not those of AddressDetector.   *)
AfterLabel   == <<One({"address_label"}), Opt({"of_client"}), Opt({":"})>>
IndexFirst   == <<Value({"six"}), One({","})>>

(* MUTANT of TownToHouse: no comma between the street and the house. *)
TownToHouseAtOnce ==
    <<Values({"Cap"}, 1, 2), One({","}), Value({"upper", "number"}), Values({"Cap"}, 0, 1),
      Opt({}), Value({"upto3", "four"})>>

(* From the town to the house, with or without a comma between them. *)
TownToHouse  == <<Values({"Cap"}, 1, 2), One({","}), Value({"upper", "number"}), Values({"Cap"}, 0, 1),
                  Opt({","}), Value({"upto3", "four"})>>

(* MUTANT of OrganisationBeforeLabel: the organisation is not looked for. *)
NoOrganisation(pos) == FALSE

(* The organisation of a labelled address, in its sentence and before it. *)
OrganisationBeforeLabel(pos) == CueInSentence(pos, "bare_organisation")

BareAddressEntities ==
    LET flat(n) == IF Has(n, ",") /\ IsA(n + 1, {"upto3", "four"}) THEN {{n + 1}} ELSE {}
        \* what the groups take, given where the town is in the expression
        groups(m, k) == {m[k] .. m[k + 1] - 1, m[k + 2] .. m[k + 4] - 1, {m[k + 5]}} \cup flat(Last(m))
        client(m) == ~OrganisationBeforeLabel(From[m[1]])
        plain   == {m \in FindIter(AfterLabel \o TownToHouse) : client(m)}
        indexed == {m \in FindIter(AfterLabel \o IndexFirst \o TownToHouse) : client(m)}
        places  == UNION ({groups(m, 4) : m \in plain} \cup {groups(m, 6) \cup {{m[4]}} : m \in indexed})
    IN  EntitiesAt("address", places, 55)
=============================================================================
