SPECIFICATION Spec
CONSTANTS
    Handlers = {h1, h2}
    Exporter = exporter
    MaxDepth = 2
    MaxSamples = 1
    MaxMissed = 1
    Overlap = FALSE
SYMMETRY HandlerSymmetry
INVARIANTS
    OverlapOnlyDuringSplit
    NoOutdatedShard
PROPERTIES
    CoverageStays
