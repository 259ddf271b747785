--------------------------- MODULE MCScoreLedger ---------------------------
(* Instances of ScoreLedger for TLC: one match is finalised and corrected,  *)
(* or finalised and reopened beside one that is scored, or both are         *)
(* finalised.                                                               *)
EXTENDS ScoreLedger, TLC

CONSTANTS m1, m2

TwoMatches == {m1, m2}
CorrectedOrBoth ==
  {m1 :> 5 @@ m2 :> 0, m1 :> 4 @@ m2 :> 1, m1 :> 2 @@ m2 :> 2}
FirstAlone == {m1 :> 2 @@ m2 :> 1}
=============================================================================
