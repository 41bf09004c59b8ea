CONSTANTS
    Printable <- OneLetterAndArrows
    Typed = {"a"}
    Lens = {2, 4}
    MaxPending = 3
SPECIFICATION Spec
INVARIANTS
    SerialTypeOK
    InBuffer
    ScreenShowsBuffer
PROPERTIES
    EditsALine
