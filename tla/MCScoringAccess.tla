-------------------------- MODULE MCScoringAccess --------------------------
(* Instances of ScoringAccess for TLC.  Sessions are interchangeable, and   *)
(* so are devices: safety is checked up to their permutations.              *)
EXTENDS ScoringFencing, TLC

Interchangeable == Permutations(Sessions) \cup Permutations(Devices)
=============================================================================
