\* Two calls of any constructors, with times around a clock change.
SPECIFICATION Spec
CONSTANTS
    Zone = {"London"}
    Wall <- Clock
    OffsetOf <- Offsets
    Utc = "UTC"
    Naive = "naive"
    Trimmed = Trimmed
    NotFinite = NotFinite
    None = None
    Activities <- SomeActivities
    Observations <- SomeObservations
    Mappings <- SomeMappings
    Instruments <- SomeInstruments
    Listings <- SomeListings
    Entities <- SomeEntities
    Charge <- Charges
    MaxClaims = 2
INVARIANTS
    Chronology
    OneFactOneRecord
    IntervalsByInstant
    QualityByInstant
    ChargesCanBeAdded
CHECK_DEADLOCK FALSE
