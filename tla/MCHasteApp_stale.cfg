CONSTANTS
    k1 = k1
    k2 = k2
    None = None
    Keys = {k1, k2}
    Texts = {"a", "ab"}
    Torn <- MCTorn
    Pastes <- MCPastes
    Names <- MCNames
    Languages = {"xml"}
    Paths <- MCKnownPaths
    MaxRequests = 2
    MaxHistory = 2
SPECIFICATION Spec
INVARIANT LoadedIsShown
