SPECIFICATION Spec
CONSTANTS
    LenSpace = 4
    Values = {0, 3}
    MaxIpap = 2
    MaxIpapLen = 7
    MaxForeign = 5
    ForeignTypes = {1, 4}
    Foreign <- MCForeign
INVARIANTS TypeOK StoreKeepsObjects ArrivesUnchanged
PROPERTIES ParserEnds
CHECK_DEADLOCK FALSE
