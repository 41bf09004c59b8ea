CONSTANTS
    Moments <- Carries
    MaxTicks = 1
    DateArgs <- Dates
    TimeArgs <- TimesTyped
SPECIFICATION Spec
INVARIANTS
    
    ShownIsNotOver
    DateSetIsOnTheClock
    TimeSetIsNotLate
    RefusedLeavesClock
