SPECIFICATION Spec
CONSTANTS
    Bases <- MCBases
    Additions <- MCAdditions
    Fresh <- MCFresh
    Common <- MCCommon
    MaxEdits <- MCMaxEdits
INVARIANTS
    EveryLossIsReported
    ComparedOneToOne
    UntiedIsUnbound
    NoGuessFailsABuild
    RemovalsAreLosses
    OnlyBareSlotsAreSilent
CHECK_DEADLOCK FALSE
