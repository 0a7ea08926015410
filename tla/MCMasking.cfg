SPECIFICATION Spec
CONSTANTS
    Letters = {"x"}
    Digits = {"7", "8"}
    Separator = "-"
    AtSign = "@"
    Star = "*"
    Labels = {"1", "2"}
    MaxLength = 4
    MaxEntities = 2
    Rules <- MCRules
INVARIANTS
    HidesInPlace
    LabelsRestored
    LongestFirst
    UnambiguousRestored
CHECK_DEADLOCK FALSE
