SPECIFICATION FairSpec
CONSTANTS
    security = security
    system = system
    Channel = {security}
    Readable = {security}
    Limit = 2
    MaxRecord = 3
    MaxLives = 3
    MaxSignatures = 1
INVARIANTS
    TypeOK
    OncePerLife
    MissingHasCause
    MarkSubsumesSignatures
PROPERTIES
    SavedNeverResent
    EventsAreMarked
