SPECIFICATION FairSpec
CONSTANTS
    Handlers = {h1, h2}
    NoOne = NoOne
    Clients = {c1, c2}
    Files = {f1, f2}
    Sizes = {1, 2}
    MaxAttempts = 2
    MaxUploads = 2
    Faults = {"dbFails", "saveFails", "restart"}
INVARIANTS
    TypeOK
    VerifiedIsBacked
    UnspoiledIsWhole
PROPERTY CallsReturn
