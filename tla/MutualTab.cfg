SPECIFICATION Spec
CONSTANTS
    p = p
    q = q
    e1 = e1
    e2 = e2
    none = none
    Phone <- OnePhone
    Other <- OneOther
    Party <- Sides
    Entry <- TwoEntries
    By <- Authors
    MaxOps = 2
    MaxFaults = 1
    NoEntry = none
INVARIANTS TypeOK CursorHonest ConfirmedIsFinal IntentKept RefusedIsUndone
PROPERTIES Settles FirstDecisionStands
CONSTRAINT OneStory
CHECK_DEADLOCK FALSE
