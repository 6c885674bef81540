SPECIFICATION Spec
CONSTANTS
    Places <- MCPlaces
    Alphabet <- MCAlphabet
    Idents <- MCIdents
    Unused <- MCUnused
    Programs <- MCPrograms
    NewName <- MCNewName
    NewFn = "helper"
    MaxEdits = 2
INVARIANT SpellingIsNotReported
CHECK_DEADLOCK FALSE
