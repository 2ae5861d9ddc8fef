\* Logins at the edges of the day, read up to ten minutes later.
SPECIFICATION Spec
CONSTANTS
    Instant <- MCInstant
    Latency = 10
    None = None
INVARIANTS
    StaleForADayAtMost
    NeverExpiresEarly
CHECK_DEADLOCK FALSE
