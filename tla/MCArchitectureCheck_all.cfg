\* All rules over three modules whose sources hold no import or one, and
\* may be unreadable in part.
SPECIFICATION FairSpec
CONSTANTS
    Module = {m1, m2, m3}
    Unknown = {ghost}
    Prefix <- MCPrefix
    Statement <- MCStatement
    Sources <- MCSources
INVARIANTS
    AcyclicWhenAccepted
    ReportedCycleIsReal
    RecordedImportsConfined
PROPERTIES
    CheckTerminates
CHECK_DEADLOCK FALSE
