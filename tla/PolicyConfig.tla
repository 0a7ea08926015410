---------------------------- MODULE PolicyConfig ----------------------------
(***************************************************************************)
(* parse_policies (app/core/policy.py): from the YAML of the systems to    *)
(* the registry that requests are resolved with.  A key that is absent     *)
(* from the YAML is None here; so is the registry, when parsing raises.    *)
(***************************************************************************)
EXTENDS Naturals, Sequences, FiniteSets, Functions

CONSTANTS
    Types,        \* PDType
    Strategies,   \* of masking.py
    None

(* DEFAULT_RULE is one of the strategies'. *)
ASSUME StrategiesAssumption == "full" \in Strategies

OrDefault(raw, default) == IF raw = None THEN default ELSE raw

(* MaskRule: what is absent from spec has its default; __post_init__       *)
(* refuses what it cannot apply.  keep stands for both ends of partial.    *)
MaskRule(spec) ==
    [strategy |-> OrDefault(spec.strategy, "full"), keep |-> OrDefault(spec.keep, 0)]

RuleAccepted(spec) == MaskRule(spec).strategy \in Strategies /\ MaskRule(spec).keep >= 0

(* _rules: a function of the types that have a rule. *)
RulesOf(raw)       == [t \in DOMAIN raw |-> MaskRule(raw[t])]
RulesAccepted(raw) == \A t \in DOMAIN raw : t \in Types /\ RuleAccepted(raw[t])

(* _pd_types.  "all" is the same as an absent list: both are None here. *)
PdTypes(raw) == IF raw = None THEN Types ELSE raw

(* MUTANT of SystemAccepted: the types of a combination are not looked up. *)
SystemAcceptedLoosely(spec) ==
    /\ PdTypes(spec.pd_types) \subseteq Types
    /\ RulesAccepted(spec.masking)

(* _pd_type raises for an unknown type, wherever it is named. *)
SystemAccepted(spec) ==
    /\ PdTypes(spec.pd_types) \subseteq Types
    /\ RulesAccepted(spec.masking)
    /\ \A t \in DOMAIN spec.require_combination :
          t \in Types /\ spec.require_combination[t] \subseteq Types

(* A system's own rules go before those of all systems; a rule replaces    *)
(* another as a whole.                                                     *)
SystemPolicy(base, spec) ==
    [enabled        |-> OrDefault(spec.enabled, TRUE),
     pd_types       |-> PdTypes(spec.pd_types),
     unmask_allowed |-> OrDefault(spec.unmask, TRUE),
     rules          |-> LET own == RulesOf(spec.masking)
                        IN  [t \in DOMAIN base \cup DOMAIN own |->
                               IF t \in DOMAIN own THEN own[t] ELSE base[t]],
     combinations   |-> spec.require_combination]

ParsePolicies(data) ==
    LET default == OrDefault(data.default_system, "default")
    IN  IF /\ RulesAccepted(data.masking)
           /\ \A s \in DOMAIN data.systems : SystemAccepted(data.systems[s])
           /\ default \in DOMAIN data.systems
        THEN [default_system |-> default,
              systems |-> [s \in DOMAIN data.systems |->
                             SystemPolicy(RulesOf(data.masking), data.systems[s])]]
        ELSE None

(* Masker.mask: a type without a rule is masked by DEFAULT_RULE. *)
RuleFor(policy, t) ==
    IF t \in DOMAIN policy.rules THEN policy.rules[t] ELSE MaskRule([strategy |-> None, keep |-> None])
=============================================================================
