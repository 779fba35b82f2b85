CONSTANTS
    Rows <- MCRows
    Platforms <- MCPlatforms
SPECIFICATION Spec
INVARIANT AluLatencyDocumented
CHECK_DEADLOCK FALSE
