--------------------------- MODULE MCOfflineQueue ---------------------------
(* Instances of OfflineQueue for TLC: tabs are model values.               *)
EXTENDS OfflineQueue, TLC

Symmetry == Permutations(Tabs \ Frail) \cup Permutations(Frail)

\* The queue is an ordered delivery of the taps; what others enter in the
\* stream is not part of it.
Own == SelectSeq(stream, LAMBDA id : id # 0)

\* The queued taps that are not in the stream yet.
Unsent ==
  SelectSeq([n \in DOMAIN commands |-> commands[n].id],
            LAMBDA id : \A i \in DOMAIN stream : stream[i] # id)

Delivery == INSTANCE OrderedDelivery WITH taken <- Own \o Unsent, log <- Own

(***************************************************************************)
(* Lost answers, repeated and late uploads, a switch from online to        *)
(* offline, closed pages, transfers and reopenings notwithstanding, the    *)
(* phone's taps reach the stream in the order they were made, each at most *)
(* once.                                                                   *)
(***************************************************************************)
DeliveredInOrder == Delivery!Spec

=============================================================================
