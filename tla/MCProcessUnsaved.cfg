SPECIFICATION Spec
CONSTANTS
    id1 = id1
    id2 = id2
    r1 = r1
    r2 = r2
    r3 = r3
    w1 = w1
    w2 = w2
    None = None
    Texts <- MCTexts
    FragmentSets <- MCFragmentSets
    MaskOf <- MCMaskOf
    FragmentsOf <- MCFragmentsOf
    UnmaskFragments <- MCUnmaskFragments
    Keys = {id1}
    Workers = {w1, w2}
    Requests = {r1, r2, r3}
    Systems <- TwoSystems
    Enabled <- TwoSystems
    Unmaskers <- OneSystem
    Originals <- OneText
    Echoes <- NoEcho
    MaxTimeouts = 0
    MaxDisconnects = 1
    MaxLosses = 0
    MaxRestarts = 0
SYMMETRY Symmetric
INVARIANTS
    AnsweredMaskIsKept
CHECK_DEADLOCK FALSE
