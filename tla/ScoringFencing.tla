--------------------------- MODULE ScoringFencing ---------------------------
(***************************************************************************)
(* Scoring access as an implementation of FencedWriter: the owner is the   *)
(* holder named by the lease row, lapsed or not, and a session's token is  *)
(* its writer generation.                                                  *)
(***************************************************************************)
EXTENDS ScoringAccess

Writer == INSTANCE FencedWriter WITH
  Clients <- Sessions,
  token   <- [s \in Sessions |-> session[s].gen],
  owner   <- lease.holder

(***************************************************************************)
(* Whatever the handlers do (exchange, takeover, resume, revocation), they *)
(* grant, withdraw or use one right to write, every grant with a new       *)
(* greatest generation, and no canonical event of a writer is accepted     *)
(* except from its owner and with the newest generation.                   *)
(***************************************************************************)
OneFencedWriter == Writer!Spec
=============================================================================
