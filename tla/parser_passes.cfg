CONSTANTS
    Inputs <- MCInputs
    MaxCacheMemSize = 288
    Files <- MCFiles
    Blank = Blank
    Space = Space
    Word = Word
    Load = Load
    Compute = Compute
    Addresses <- MCAddresses
    Groups <- MCGroups
    Nr <- MCNr
SPECIFICATION PassesSpec
INVARIANT Aligned
INVARIANT MisreadsEarned
INVARIANT Partition
INVARIANT ExcludedUnlessWrapped
INVARIANT EachOnce
INVARIANT InTurn
INVARIANT PopsMeetPushes
INVARIANT FaultsEarned
INVARIANT HitsCounted
INVARIANT NothingMoreFits
INVARIANT PassedOverForSmaller
CHECK_DEADLOCK FALSE
