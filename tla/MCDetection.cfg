SPECIFICATION Spec
CONSTANTS
    Types <- MCTypes
    Policies <- MCPolicies
    Yields <- MCYields
    Lexemes <- MCLexemes
INVARIANTS
    TypeOK
    Disjoint
    LeftOutForCause
    LargestSupported
    SkippingLosesNothing
    FamousKept
    
    InitialsHidden
    OrganisationAddressKept
    LabelledAddressHidden
    OrganisationInnKept
    
PROPERTIES
    EveryDetectionEnds
CHECK_DEADLOCK FALSE
