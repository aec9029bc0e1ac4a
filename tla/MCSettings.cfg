\* Every file of up to four lines, with two sections, a repeated key, continued lines and
\* errors, and two changes after it was loaded.  The dictionary starts with one slot, and so
\* doubles twice.  Every text of up to four bytes of ten kinds, and every cut of its encoding.
\* Every value of up to six bytes, with up to three names, in buffers from one byte on.
SPECIFICATION SpecAny
CONSTANTS
    Keys <- MCKeys
    Values <- MCValues
    Null = Null
    MinSize = 1
    Lines <- MCLines
    SetKeys <- MCSetKeys
    SetValues <- MCSetValues
    MaxLines = 4
    LineSize = 5
    KeyWidth = 2
    MaxOps = 2
    Pieces <- MCPieces
    MaxPieces = 4
    Src <- MCSrc
    Inputs <- MCInputs
    Homes <- MCHomes
    Sizes = {1, 2, 3, 4, 5, 6, 7, 8, 10}
INVARIANTS TypeOK LoadMatchesFile DumpReloads NamesDecode ReplacesAll StaysInBuffer
PROPERTY RefinesMap
CHECK_DEADLOCK FALSE
