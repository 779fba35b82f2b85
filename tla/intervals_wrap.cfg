CONSTANTS
    Inputs <- MCInputs
    MaxCacheMemSize = 288
    Files <- MCFiles
    Blank = Blank
    Space = Space
    Word = Word
    Load = Load
    Compute = Compute
    Addresses <- MCAddresses
    Groups <- MCGroups
    Nr <- MCNr
SPECIFICATION PassesSpec
INVARIANT AllExcluded
CHECK_DEADLOCK FALSE
