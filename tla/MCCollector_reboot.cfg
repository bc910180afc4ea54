SPECIFICATION Spec
CONSTANTS
    security = security
    system = system
    Channel = {security}
    Readable = {security}
    Limit = 1
    MaxRecord = 1
    MaxLives = 2
    MaxSignatures = 1
INVARIANT
    NoDuplicateIngestion
