SPECIFICATION Spec
CONSTANTS
    Places <- MCPlaces
    Alphabet <- MCAlphabet
    Idents <- MCIdents
    Unused <- MCUnused
    Programs <- MCPrograms
    NewName <- MCNewName
    NewFn = "helper"
    MaxEdits = 2
INVARIANTS EveryDroppedCheckIsNamed NamedChecksAreGone NamedOnce
CHECK_DEADLOCK FALSE
