CONSTANTS
    r1 = r1
    r2 = r2
    r3 = r3
    Main = Main
    None = None
    Requests = {r1, r2, r3}
    Keys <- MCKeys
    Ids <- MCGeneratedKeys
    GeneratedKeys <- MCGeneratedKeys
    Chunks = {"x", "y", "z", "d"}
    Bodies <- MCBodies
    MaxLength = 2
    StaticDocs <- MCStaticDocs
    Kinds = {"get", "post"}
    RateLimiting = FALSE
    Backends = {"file", "redis"}
    StorageFails = TRUE
SPECIFICATION Spec
SYMMETRY Symmetry
INVARIANTS TypeOK ReadsComeFromPosts ReadsAgree
CHECK_DEADLOCK FALSE
