CONSTANTS
    Bad = Bad
    None = None
    DefaultKeyLength = 2
    DefaultMaxLength = 4
    Vowels = {"a"}
    Consonants = {"b"}
    Plans <- MCPlans
    Keys <- MCKeys
    Pastes = {"p"}
    Orphans = {"no/parent"}
    Levels = {"info", "debug"}
    MaxChanges = 1
SPECIFICATION FairSpec
INVARIANTS TypeOK DocumentsAreThere PastesOutliveRestarts KeysAreNotEmpty
PROPERTIES OnlyLeftoversStopAStart ComesIntoService
CHECK_DEADLOCK FALSE
