SPECIFICATION FairSpec
CONSTANTS
    Handlers = {h1}
    MaxBlock = 4
    Genesis = 10
    DirtyFlag = 16
INVARIANTS
    TotalsCoverEarlierBlocks
    CleanMeansExported
    GasSamplesOnce
    AverageSamplesOnce
    SeqnoWithItsUtime
PROPERTIES
    ReportsAdvance
    SeqnoEventuallyExported
    GasEventuallyExported
