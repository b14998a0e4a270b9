SPECIFICATION ImportFairSpec
CONSTANTS
    ByteSize = 2
    Files = {{1, 2}, {0, 2, 3}}
INVARIANTS
    RowsOfOneFile
    LookupFindsRange
PROPERTIES
    ImportRepairs
