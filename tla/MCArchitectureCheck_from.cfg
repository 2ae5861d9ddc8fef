\* A from-import of a module through the package it lives in.
SPECIFICATION Spec
CONSTANTS
    Module = {m1, m2}
    Unknown = {}
    Prefix <- MCSiblings
    Statement <- MCFromParent
    Sources <- MCFromSources
INVARIANTS
    AcceptedSourcesObeyRules
CHECK_DEADLOCK FALSE
