SPECIFICATION FairSpec
CONSTANTS
    Handlers = {h1, h2}
    Exporter = exporter
    Versions = {v1, v2}
    MaxBlocks = 2
INVARIANTS
    BlocksCountedOnce
PROPERTIES
    ImplementsTally
    BlocksEventuallyExported
