CONSTANTS
    capacity = 2
    Programs <- DoublePrograms
SPECIFICATION Spec
INVARIANT OneTokenPerInstruction
