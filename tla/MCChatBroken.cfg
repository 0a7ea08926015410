SPECIFICATION Spec
CONSTANTS
    c1 = c1
    c2 = c2
    None = None
    Calls = {c1, c2}
    Messages <- MCMessages
    TooLong <- MCTooLong
    Systems <- MCSystems
    Enabled <- MCEnabled
    Unmaskers <- MCUnmaskers
    Values <- MCValues
    DataOf <- MCDataOf
    LabelOf <- MCLabelOf
    Redetected <- MCRedetected
    MaxSaid = 2
INVARIANTS
    BrokenStreamIsUnavailable
CHECK_DEADLOCK FALSE
