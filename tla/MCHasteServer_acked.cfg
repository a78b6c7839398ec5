CONSTANTS
    r1 = r1
    r2 = r2
    r3 = r3
    Main = Main
    None = None
    Requests = {r1}
    Keys <- MCKeys
    Ids <- MCGeneratedKeys
    GeneratedKeys <- MCGeneratedKeys
    Chunks = {"x", "y", "z", "d"}
    Bodies <- MCBodies
    MaxLength = 2
    StaticDocs <- MCStaticDocs
    Kinds = {"get", "head", "post", "log"}
    RateLimiting = FALSE
    Backends = {"file", "redis", "memcached", "mongodb", "postgres", "s3"}
    StorageFails = FALSE
SPECIFICATION Spec
INVARIANT AckedIsStored
CHECK_DEADLOCK FALSE
