---------------------------- MODULE FencedWriter ----------------------------
(***************************************************************************)
(* What scoring access promises, without passes, sessions or deadlines: at *)
(* any time at most one client owns the right to write, every grant of it  *)
(* carries a token greater than all tokens given before, and what is       *)
(* written carries the newest token of all.  Ownership may be taken back   *)
(* at any time; nothing is promised about who gets it next.                *)
(***************************************************************************)
EXTENDS Naturals

CONSTANTS
  Clients,  \* who may ask for the right to write
  None      \* nobody

VARIABLES
  token,  \* the token each client was given last, 0 before the first
  owner,  \* the client that may write
  fence   \* the token of the last write

vars == <<token, owner, fence>>

Init ==
  /\ token = [c \in Clients |-> 0]
  /\ owner = None
  /\ fence = 0

\* The right to write passes to a client, from whomever, with a new token.
Grant(c) ==
  /\ token' = [token EXCEPT ![c] = token'[c]]
  /\ token'[c] \in Nat
  /\ \A d \in Clients : token[d] < token'[c]
  /\ owner' = c
  /\ UNCHANGED fence

Withdraw ==
  /\ owner' = None
  /\ UNCHANGED <<token, fence>>

Write(c) ==
  /\ owner = c
  /\ \A d \in Clients \ {c} : token[d] < token[c]
  /\ fence' = token[c]
  /\ UNCHANGED <<token, owner>>

Next ==
  \/ \E c \in Clients : Grant(c) \/ Write(c)
  \/ Withdraw

Spec == Init /\ [][Next]_vars
=============================================================================
