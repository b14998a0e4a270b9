SPECIFICATION FairSpec
CONSTANTS
    Master = m
    Others = {s}
    MaxBlock = 3
INVARIANTS
    ReportCoherent
    AverageSamplesOnce
PROPERTIES
    BlockEventuallyShown
\* The bound ends the blocks; the exporter goes on.
