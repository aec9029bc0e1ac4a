\* Every text of up to five pieces, among them escapes that are cut off, strings that are
\* not closed and objects with a repeated name.
SPECIFICATION SpecText
CONSTANTS
    Pieces <- MCPieces
    MaxPieces = 5
    GroupName <- MCGroupName
INVARIANTS ReadsBack LearnsAllOrNothing
CHECK_DEADLOCK FALSE
