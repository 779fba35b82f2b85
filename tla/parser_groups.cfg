CONSTANT Models <- MCModels
SPECIFICATION Spec
INVARIANT LostRows
INVARIANT InProgramOrder
INVARIANT GroupsEndWithFinish
INVARIANT EachTileOnce
