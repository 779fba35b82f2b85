CONSTANTS
    capacity = 2
    Programs <- MCPrograms
SPECIFICATION FairSpec
INVARIANT TypeOK
INVARIANT CurrentOK
INVARIANT InOrder
INVARIANT TokensEarned
INVARIANT TokensMatched
INVARIANT LayerBarrier
INVARIANT NeverStuck
PROPERTY Completes
\* The pipeline stops after the last layer.
CHECK_DEADLOCK FALSE
