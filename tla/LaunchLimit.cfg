SPECIFICATION MCPlanSpec
INVARIANT LaunchesFit
CHECK_DEADLOCK FALSE
