-------------------------- MODULE OrderedDelivery --------------------------
(***************************************************************************)
(* What the phone promises of taps: they are entered in the order they     *)
(* were made, each of them at most once and none past an earlier one that  *)
(* waits; the scorer may in the end forget the ones that wait.             *)
(***************************************************************************)
EXTENDS Naturals, Sequences

VARIABLES
  taken, \* the taps recorded, in order
  log    \* the taps entered in the match's stream, in order

vars == <<taken, log>>

Init == taken = <<>> /\ log = <<>>

\* Taps are numbered as they are made: a new one follows the earlier ones.
Records ==
  /\ Len(taken') = Len(taken) + 1
  /\ SubSeq(taken', 1, Len(taken)) = taken
  /\ \A i \in DOMAIN taken : taken[i] < taken'[Len(taken')]

Take == Records /\ UNCHANGED log

Direct == Records /\ log = taken /\ log' = taken'

Enter ==
  /\ Len(log) < Len(taken)
  /\ log' = Append(log, taken[Len(log) + 1])
  /\ UNCHANGED taken

Forget ==
  /\ taken' = log
  /\ UNCHANGED log

Next == Take \/ Direct \/ Enter \/ Forget

Spec == Init /\ [][Next]_vars
=============================================================================
