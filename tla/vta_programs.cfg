CONSTANTS
    capacity = 4
    Programs <- SmallPrograms
SPECIFICATION Spec
INVARIANT NoFault
INVARIANT HandshakesEnd
PROPERTY ImplementsPipeline
PROPERTY Completes
