SPECIFICATION BlockSpec
CONSTANTS
    Word = 16
    Classes <- MCClasses
    Wide = 8
    Count = 4
    Length = 4
    Byte = 8
    Ts <- MCTs
    Value <- MCValue
    MaxPoints = 3
INVARIANT NothingLostInFile
