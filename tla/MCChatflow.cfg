\* Two steps, of which the second may fail; one press of a button for what is
\* shown, a fetch call that fails and a page that is loaded again.
CONSTANTS
    Script <- TwoSteps
    NoBack = {}
    Fragile = {2}
    MaxPresses = 1
    MaxBacks = 2
    MaxLoads = 2
    MaxFaults = 1
SPECIFICATION FairSpec
INVARIANTS TypeOK  Restorable
PROPERTIES  QuestionShown EndShown
CHECK_DEADLOCK FALSE
