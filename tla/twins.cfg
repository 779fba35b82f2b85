CONSTANTS
    capacity = 4
    Programs <- TwinPrograms
SPECIFICATION TwinsSpec
INVARIANT OrderIrrelevant
