SPECIFICATION Spec
CONSTANTS
    Half = 32
    Values = {0, 1, 3}
    MaxValue = 3
    MaxPushes = 10
PROPERTIES
    ImplementsAverage
