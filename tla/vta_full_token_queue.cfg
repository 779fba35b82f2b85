CONSTANTS
    capacity = 4
    Programs <- RacePrograms
SPECIFICATION Spec
INVARIANT OneTokenPerInstruction
