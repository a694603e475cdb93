SPECIFICATION Spec
CONSTANTS
    Handlers = {h1, h2}
    NoOne = NoOne
    Clients = {c1, c2}
    Files = {f1}
    Sizes = {1, 2}
    MaxAttempts = 1
    MaxUploads = 2
    Faults = {}
SYMMETRY Symmetry
INVARIANT SavedIsStored
