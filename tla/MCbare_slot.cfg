SPECIFICATION Spec
CONSTANTS
    Bases <- PayBase
    Additions <- MCAdditions
    Fresh <- MCFresh
    Common <- MCCommon
    MaxEdits <- MCMaxEdits
INVARIANT
    NothingLoosenedIsSilent
CHECK_DEADLOCK FALSE
