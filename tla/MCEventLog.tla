------------------------------ MODULE MCEventLog ------------------------------
(* EventLog on small instances: reporters and polls are interchangeable. *)
EXTENDS EventLog, TLC

CONSTANTS r1, r2, p1, p2
MCReporters == {r1, r2}
MCPolls == {p1, p2}
MCSymmetry == Permutations(MCReporters) \cup Permutations(MCPolls)
=============================================================================
