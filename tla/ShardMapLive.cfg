SPECIFICATION FairSpec
CONSTANTS
    Handlers = {h1, h2}
    Exporter = exporter
    MaxDepth = 1
    MaxSamples = 1
    MaxMissed = 1
    Overlap = TRUE
INVARIANT
    SamplesDue
PROPERTIES
    HandlersFinish
    OutdatedShardsLeave
