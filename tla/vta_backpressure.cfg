CONSTANTS
    capacity = 2
    Programs <- AheadPrograms
SPECIFICATION Spec
PROPERTY ImplementsPipeline
PROPERTY RdyMeansRoom
PROPERTY Completes
