SPECIFICATION ReportSpec
CONSTANT MaxBlock = 4
INVARIANTS
    ElectionsUpToDate
    ValidatorsUpToDate
    OverlaysFollowConfig
    ReportNotAhead
PROPERTY ConfigMetricsAdvance
