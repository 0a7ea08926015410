SPECIFICATION FairSpec
CONSTANTS
    id1 = id1
    id2 = id2
    r1 = r1
    r2 = r2
    r3 = r3
    w1 = w1
    w2 = w2
    None = None
    Texts <- AnnsTexts
    FragmentSets <- MCFragmentSets
    MaskOf <- MCMaskOf
    FragmentsOf <- MCFragmentsOf
    UnmaskFragments <- MCUnmaskFragments
    Keys = {id1, id2}
    Workers = {w1}
    Requests = {r1, r2}
    Systems <- TwoSystems
    Enabled <- TwoSystems
    Unmaskers <- OneSystem
    Originals <- MixedKeys
    Echoes <- MaskAndReply
    MaxTimeouts = 2
    MaxDisconnects = 1
    MaxLosses = 1
    MaxRestarts = 0
INVARIANTS
    UnmaskJustified
    ForbiddenLearnsNothing
PROPERTIES
    EveryRequestEnds
CHECK_DEADLOCK FALSE
