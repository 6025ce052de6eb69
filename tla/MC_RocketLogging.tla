---------------------------- MODULE MC_RocketLogging ----------------------------
EXTENDS RocketLogging

MCPayloads == M!Events \cup {"track0", "track1", "sample", "none"}

\* Bound: one failure in a flight, a refused allocation or a failing call of the
\* file system.
OneFailure == refusals + faults <= 1
================================================================================
