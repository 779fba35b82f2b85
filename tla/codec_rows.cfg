CONSTANTS
    Rows <- MCRows
    Platforms <- MCPlatforms
SPECIFICATION Spec
INVARIANT ControlKept
INVARIANT FieldsKept
INVARIANT LatencyKept
INVARIANT TimeAdvances
CHECK_DEADLOCK FALSE
