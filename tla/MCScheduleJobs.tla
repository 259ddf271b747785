--------------------------- MODULE MCScheduleJobs ---------------------------
(* Instances of ScheduleJobs for TLC: slots are interchangeable.           *)
EXTENDS ScheduleJobs, TLC

Symmetry == Permutations(Workers)
=============================================================================
