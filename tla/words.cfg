CONSTANTS
    Typed <- Texts
    LineSize = 7
    NameSize = 2
    IntMax = 31
    Yes <- LetterY
    Commands <- Letters
SPECIFICATION Spec
INVARIANTS
    TextTypeOK
    ArgumentsAreNotEmpty
    
    MessageIsTheRest
    StopsOnlyOnYes
CHECK_DEADLOCK FALSE
