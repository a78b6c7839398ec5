CONSTANTS
    Pastes <- MCPastes
    Letters = {"x"}
    MaxPieces = 3
SPECIFICATION Spec
INVARIANTS TypeOK TagsNest ReadsAsWritten LostOnlyBehindEscapes NothingIsLeft
CHECK_DEADLOCK FALSE
