SPECIFICATION PipelineSpec
CONSTANTS
    MaxBlock = 2
    MaxParallel = 1
INVARIANTS
    ReadyReportWhole
    AddressesOfShown
PROPERTY
    AddressesOfShownValidators
