---------------------------- MODULE MCKiteSession ----------------------------
(***************************************************************************)
(* Instances of KiteSession for TLC.                                       *)
(***************************************************************************)
EXTENDS KiteSession

\* Over four days: around UTC midnight, 06:00 India time (00:30 UTC) and
\* Indian midnight (18:30 UTC), at a latency from it, and at odd times.
MCInstant ==
    {d * Day + m : d \in 0 .. 3,
                   m \in {0, 1, 29, 30, 31, 599, 1100, 1109, 1110, 1111, 1120, 1439}}

=============================================================================
