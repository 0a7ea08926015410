--------------------------- MODULE TextDetection ----------------------------
(***************************************************************************)
(* DetectionEngine with the detectors of the repository (registry.py): a   *)
(* text goes through every detector that its policy needs, and what they   *)
(* find goes through the engine.                                           *)
(***************************************************************************)
EXTENDS DetectionEngine, AddressDetector, NameDetectors, ValueDetectors

vars == <<text, engineVars>>

-----------------------------------------------------------------------------
(* default_detectors, in order, and what each declares: its types, and     *)
(* whether it is of no use in a text without digits.                       *)
Registry == <<"Standalone", "Contact", "Card", "Inn", "IdentityDocument", "Issuance",
              "ExtraDocument", "Date", "Fio", "Address", "LabelledValue", "ContextValue">>

(* MUTANT of NeedsDigits: addresses have house numbers, do they not? *)
AddressNeedsDigits == {"Card", "Inn", "IdentityDocument", "ExtraDocument", "Date", "Address"}

NeedsDigits == {"Card", "Inn", "IdentityDocument", "ExtraDocument", "Date"}

DeclaredTypes == [
    Standalone       |-> {"cvv", "pin", "card_expiry", "date", "passport", "driver_license",
                          "department_code", "address", "inn", "card_number", "card_holder",
                          "citizenship", "passport_issuer", "phone", "email", "fio"},
    Contact          |-> {"email", "phone"},
    Card             |-> {"card_number", "cvv", "pin", "card_expiry"},
    Inn              |-> {"inn"},
    IdentityDocument |-> {"passport", "driver_license"},
    Issuance         |-> {"department_code", "passport_issuer", "citizenship", "birth_place"},
    ExtraDocument    |-> {"snils", "foreign_passport", "military_id", "birth_certificate"},
    Date             |-> {"birth_date", "passport_issue_date", "date"},
    Fio              |-> {"fio", "card_holder"},
    Address          |-> {"address"},
    LabelledValue    |-> {"passport", "driver_license", "birth_date", "passport_issue_date", "fio",
                          "citizenship"},
    ContextValue     |-> {"pin", "cvv", "card_number", "inn", "passport", "department_code",
                          "passport_issuer", "fio", "address"}]

DetectedBy(d) ==
    CASE d = "Standalone"       -> Standalone
      [] d = "Contact"          -> Contacts
      [] d = "Card"             -> Cards
      [] d = "Inn"              -> Inns
      [] d = "IdentityDocument" -> IdentityDocuments
      [] d = "Issuance"         -> Issuance
      [] d = "ExtraDocument"    -> ExtraDocuments
      [] d = "Date"             -> Dates
      [] d = "Fio"              -> FioEntities
      [] d = "Address"          -> AddressEntities
      [] d = "LabelledValue"    -> LabelledDocuments \cup LabelledDates \cup LabelledNames
                                   \cup ClientNames \cup WholeName \cup LabelledCitizenship
      [] d = "ContextValue"     -> Secrets \cup LabelledNumbers \cup LabelledIssuers \cup RoleNames
                                   \cup BareNames \cup BareAddressEntities

(* applicable: the detectors that detect skips. *)
Applicable(d, on) ==
    /\ DeclaredTypes[d] \cap on # {}
    /\ d \in NeedsDigits => \E i \in 1 .. Size : Has(i, "digits")

(* Entities of one detector with one priority and one place exclude one    *)
(* another: their order among themselves does not matter.                  *)
Listed(d, on) == IF Applicable(d, on) THEN SetToSeq(DetectedBy(d)) ELSE <<>>

FoundIn(on) ==
    LET yields[n \in 0 .. Len(Registry)] ==
          IF n = 0 THEN <<>> ELSE yields[n - 1] \o Listed(Registry[n], on)
    IN  yields[Len(Registry)]

DetectText ==
    /\ text # <<>>
    /\ Collect(FoundIn(policy.types))
    /\ UNCHANGED text

TextNext == DetectText \/ (Select /\ UNCHANGED text)

(* Any text of the lexicon. *)
TextInit == EngineInit /\ text \in Seq(Lexemes) \ {<<>>}

TextSpec == TextInit /\ [][TextNext]_vars /\ WF_engineVars(Select)
=============================================================================
