CONSTANTS
    Printable <- OneLetterAndArrows
    Typed = {"a"}
    Lens = {4}
    MaxPending = 3
SPECIFICATION Spec
INVARIANTS
    ArrowsAreNotText
