----------------------------- MODULE EmailOutbox -----------------------------
(***************************************************************************)
(* Transactional email: rows of notification_email_outbox, the polling     *)
(* workers of apps/worker that claim them in batches and hand them to the  *)
(* SMTP provider, and the delivery events that the provider reports later. *)
(* Every statement or transaction on the database is one step.             *)
(***************************************************************************)
EXTENDS Naturals, FiniteSets

CONSTANTS
  Emails,       \* rows of the outbox, by idempotency key
  Workers,      \* worker processes
  None,         \* nobody, nothing
  MaxAttempts,  \* completed attempts after which an email is given up
  MaxFaults     \* bound: processes that die, batches that outlive their lease,
                \* calls that fail or whose answer is lost

ASSUME MaxAttemptsAssumption == MaxAttempts \in Nat \ {0}
ASSUME MaxFaultsAssumption == MaxFaults \in Nat
ASSUME NoneAssumption == None \notin Emails \cup Workers

VARIABLES
  row,       \* the outbox, by email
  worker,    \* EmailOutboxPollingWorker and its processDue, by process
  sent,      \* how often the provider has accepted an email
  faults     \* number of faults

vars == <<row, worker, sent, faults>>

\* A row and its lease, which is live until it lapses.  A lease token is drawn
\* for a batch; a worker writes rows of its present batch only, so the token is
\* told from all others by its worker.
NoRow == [status |-> "none", attempts |-> 0, token |-> None, live |-> FALSE]

\* A worker: the rows of its batch with the attempts they were read with, what
\* of it is still to be sent, the email in hand, how its sending ended and
\* whether the provider gave a receipt; for a batch that a shutdown waits for,
\* whether it has failed.
Outcomes == {"none", "accepted", "transient", "permanent"}
Idle == [pc |-> "idle", copy |-> <<>>, todo |-> {}, email |-> None, outcome |-> "none",
         receipt |-> FALSE, stopping |-> FALSE, failed |-> FALSE]
Down == [Idle EXCEPT !.pc = "down"]

(***************************************************************************)
(* Rows and workers have their types, and the CHECK of migration 0004      *)
(* holds: a row has a lease exactly while it is processing.                *)
(***************************************************************************)
TypeOK ==
  /\ row \in [Emails -> [status : {"none", "pending", "processing", "delivered", "dead_letter"},
                         attempts : Nat, token : Workers \cup {None}, live : BOOLEAN]]
  /\ \A e \in Emails : /\ row[e].token # None <=> row[e].status = "processing"
                       /\ row[e].live => row[e].status = "processing"
  /\ \A w \in Workers :
       /\ worker[w].pc \in {"down", "idle", "poll", "send", "settle", "over"}
       /\ worker[w].todo \subseteq DOMAIN worker[w].copy
       /\ worker[w].copy \in [DOMAIN worker[w].copy -> 0..MaxAttempts - 1]
       /\ worker[w].outcome \in Outcomes
       /\ worker[w].pc = "settle" <=> worker[w].email # None
       /\ {worker[w].receipt, worker[w].stopping, worker[w].failed} \subseteq BOOLEAN
  /\ sent \in [Emails -> Nat]
  /\ faults \in 0..MaxFaults

Init ==
  /\ row = [e \in Emails |-> NoRow]
  /\ worker = [w \in Workers |-> Down]
  /\ sent = [e \in Emails |-> 0]
  /\ faults = 0

Fault == faults < MaxFaults /\ faults' = faults + 1
At(w, pc) == worker[w].pc = pc

----------------------------------------------------------------------------
(* Publishing a notification, once or again, keeps the row that is there.  *)

Upserted(r) == IF r.status = "none" THEN [NoRow EXCEPT !.status = "pending"] ELSE r

Publish(e) ==
  /\ row' = [row EXCEPT ![e] = Upserted(@)]
  /\ UNCHANGED <<worker, sent, faults>>

----------------------------------------------------------------------------
(* The polling worker.                                                     *)

Start(w) ==
  /\ At(w, "down")
  /\ worker' = [worker EXCEPT ![w] = [Idle EXCEPT !.pc = "poll"]]
  /\ UNCHANGED <<row, sent, faults>>

Poll(w) ==
  /\ At(w, "idle")
  /\ worker' = [worker EXCEPT ![w].pc = "poll"]
  /\ UNCHANGED <<row, sent, faults>>

\* A batch ends.  When a shutdown waits for it, it is kept with its failure,
\* which the exit code reports; otherwise the next poll follows.
Over(w, failed) ==
  worker' = [worker EXCEPT ![w] =
               IF worker[w].stopping
               THEN [Idle EXCEPT !.pc = "over", !.copy = worker[w].copy,
                                 !.stopping = TRUE, !.failed = failed]
               ELSE Idle]

\* The intake boundary: a batch in flight goes on to its end.
RequestStop(w) ==
  /\ worker[w].pc \in {"idle", "poll", "send", "settle"} /\ ~worker[w].stopping
  /\ worker' = [worker EXCEPT ![w].stopping = TRUE,
                              ![w].pc = IF @ = "idle" THEN "over" ELSE @]
  /\ UNCHANGED <<row, sent, faults>>

Exit(w) ==
  /\ At(w, "over")
  /\ worker' = [worker EXCEPT ![w] = Down]
  /\ UNCHANGED <<row, sent, faults>>

\* The process dies, or the watchdog ends it.
Crash(w) ==
  /\ ~At(w, "down") /\ Fault
  /\ worker' = [worker EXCEPT ![w] = Down]
  /\ UNCHANGED <<row, sent>>

----------------------------------------------------------------------------
(* processDue: claim.                                                      *)

\* Fault: a lease is not looked at.
ClaimableLeased(e) == row[e].status \in {"pending", "processing"}

\* Fault: what a dead worker has claimed stays claimed.
ClaimablePending(e) == row[e].status = "pending"

Claimable(e) ==
  \/ row[e].status = "pending"
  \/ row[e].status = "processing" /\ ~row[e].live

Claimed(w, batch) ==
  [e \in Emails |-> IF e \in batch
                    THEN [row[e] EXCEPT !.status = "processing", !.token = w, !.live = TRUE]
                    ELSE row[e]]

\* Which of the claimable rows are due, not locked and within the limit is
\* left open.
Claim(w, batch) ==
  /\ At(w, "poll")
  /\ \A e \in batch : Claimable(e)
  /\ row' = Claimed(w, batch)
  /\ IF batch = {} THEN Over(w, FALSE)
     ELSE worker' = [worker EXCEPT ![w].pc = "send", ![w].todo = batch,
                                   ![w].copy = [e \in batch |-> row[e].attempts]]
  /\ UNCHANGED <<sent, faults>>

\* The claim fails, or its answer is lost and its rows stay leased.
ClaimFails(w) ==
  /\ At(w, "poll") /\ Fault
  /\ \E batch \in SUBSET {e \in Emails : Claimable(e)} : row' = Claimed(w, batch)
  /\ Over(w, TRUE)
  /\ UNCHANGED sent

\* The lease of a row that nobody works on lapses, or that of a batch whose
\* sending takes too long.
Attended(e) == \E w \in Workers : row[e].token = w /\ (e \in worker[w].todo \/ worker[w].email = e)

Expire(e) ==
  /\ row[e].live /\ ~Attended(e)
  /\ row' = [row EXCEPT ![e].live = FALSE]
  /\ UNCHANGED <<worker, sent, faults>>

Overrun(w) ==
  /\ Fault
  /\ \E e \in DOMAIN worker[w].copy : row[e].token = w /\ row[e].live
  /\ row' = [e \in Emails |-> IF e \in DOMAIN worker[w].copy /\ row[e].token = w
                              THEN [row[e] EXCEPT !.live = FALSE] ELSE row[e]]
  /\ UNCHANGED <<worker, sent>>

----------------------------------------------------------------------------
(* processDue: send one email after the other; no lease is looked at.      *)

Answered(w, e, outcome) ==
  worker' = [worker EXCEPT ![w].pc = "settle", ![w].todo = @ \ {e}, ![w].email = e,
                           ![w].outcome = outcome, ![w].receipt = outcome = "accepted"]

Send(w, e) ==
  /\ At(w, "send") /\ e \in worker[w].todo
  /\ \/ /\ sent' = [sent EXCEPT ![e] = @ + 1]
        /\ Answered(w, e, "accepted")
     \/ /\ \E failure \in {"transient", "permanent"} : Answered(w, e, failure)
        /\ UNCHANGED sent
  /\ UNCHANGED <<row, faults>>

\* The provider accepted, and the connection timed out before it said so.
SendUnheard(w, e) ==
  /\ At(w, "send") /\ e \in worker[w].todo /\ Fault
  /\ sent' = [sent EXCEPT ![e] = @ + 1]
  /\ Answered(w, e, "transient")
  /\ UNCHANGED row

----------------------------------------------------------------------------
(* processDue: the outcome is stored under the token of the batch.         *)

\* Fault: the row is processing, whoever claimed it last.
HoldsProcessing(w) == row[worker[w].email].status = "processing"

Holds(w) == row[worker[w].email].status = "processing" /\ row[worker[w].email].token = w

\* Fault: the lease stays in the row.
SettledLeased(r, status) == [r EXCEPT !.status = status, !.attempts = @ + 1]

Settled(r, status) ==
  [r EXCEPT !.status = status, !.attempts = @ + 1, !.token = None, !.live = FALSE]

ShouldRetry(made, outcome) == outcome = "transient" /\ made < MaxAttempts

\* markDelivered or markFailed.
Stored(w) ==
  LET e == worker[w].email
      made == worker[w].copy[e] + 1
  IN row' = [row EXCEPT ![e] =
               Settled(@, IF worker[w].outcome = "accepted" THEN "delivered"
                          ELSE IF ShouldRetry(made, worker[w].outcome) THEN "pending"
                          ELSE "dead_letter")]

Proceed(w) ==
  IF worker[w].todo = {} THEN Over(w, FALSE)
  ELSE worker' = [worker EXCEPT ![w].pc = "send", ![w].email = None,
                                ![w].outcome = "none", ![w].receipt = FALSE]

\* Fault: a batch that was given up ends like any other.
AbortQuietly(w) == Over(w, FALSE)

\* An error leaves the rest of the batch claimed and unsent.
Abort(w) == Over(w, TRUE)

Settle(w) ==
  /\ At(w, "settle")
  /\ IF Holds(w) THEN Stored(w) /\ Proceed(w)
     ELSE Abort(w) /\ UNCHANGED row
  /\ UNCHANGED <<sent, faults>>

\* Fault: the failed acknowledgement is caught with the provider's errors.
Caught(w) == worker' = [worker EXCEPT ![w].outcome = "transient"]

\* The statement fails; nothing is recorded against the email.
Failed(w) == Abort(w)

SettleFails(w) ==
  /\ At(w, "settle") /\ Fault
  /\ \/ UNCHANGED row
     \/ Holds(w) /\ Stored(w)
  /\ Failed(w)
  /\ UNCHANGED sent

----------------------------------------------------------------------------
(* The provider reports that a message bounced or failed.  One that comes  *)
(* before its message was acknowledged finds no row, and a repetition is   *)
(* a duplicate; other events change no status.                             *)

RecordDeliveryEvent(e) ==
  /\ row[e].status = "delivered"
  /\ row' = [row EXCEPT ![e].status = "dead_letter"]
  /\ UNCHANGED <<worker, sent, faults>>

----------------------------------------------------------------------------
Batch(w) ==
  \/ \E batch \in SUBSET Emails : Claim(w, batch)
  \/ \E e \in Emails : Send(w, e)
  \/ Settle(w)

Next ==
  \/ \E e \in Emails : Publish(e) \/ Expire(e) \/ RecordDeliveryEvent(e)
  \/ \E w \in Workers : \/ Start(w) \/ Poll(w) \/ RequestStop(w) \/ Exit(w) \/ Crash(w)
                        \/ Batch(w) \/ ClaimFails(w) \/ Overrun(w) \/ SettleFails(w)
                        \/ \E e \in Emails : SendUnheard(w, e)

Spec == Init /\ [][Next]_vars

\* Processes are started again and poll, batches go on, leases lapse.  A row
\* is claimed in the end: a process that starts polls at once, and the rows
\* that have been due for longest come first.
Fairness ==
  /\ \A w \in Workers : WF_vars(Start(w) \/ Poll(w) \/ Exit(w)) /\ WF_vars(Batch(w))
  /\ \A e \in Emails : /\ WF_vars(Expire(e))
                       /\ SF_vars(\E w \in Workers, batch \in SUBSET Emails :
                                    e \in batch /\ Claim(w, batch))

FairSpec == Spec /\ Fairness

----------------------------------------------------------------------------
(***************************************************************************)
(* WORKER_SHUTDOWN.md: a failure is counted against the email by the       *)
(* present holder of the lease only.  However many workers hold copies of  *)
(* a row, it fails MaxAttempts times at most, and one that still waits has *)
(* an attempt left.                                                        *)
(***************************************************************************)
AttemptsBounded ==
  \A e \in Emails : /\ row[e].attempts <= MaxAttempts
                    /\ row[e].status = "pending" => row[e].attempts < MaxAttempts

(***************************************************************************)
(* Delivery is not exactly once, but each further copy that a recipient    *)
(* gets has a cause of its own: a process that died, a batch that outlived *)
(* its lease, or an answer that was lost.                                  *)
(***************************************************************************)
ResentOnlyAfterFault == \A e \in Emails : sent[e] <= 1 + faults

(***************************************************************************)
(* WORKER_SHUTDOWN.md: "A normal exit requires successful application      *)
(* draining and acknowledgement of the current batch": a process that ends *)
(* normally leaves no row of the batch it waited for under its lease.      *)
(***************************************************************************)
CleanStop ==
  \A w \in Workers : At(w, "over") /\ ~worker[w].failed =>
    \A e \in DOMAIN worker[w].copy : row[e].token # w

(***************************************************************************)
(* WORKER_SHUTDOWN.md: "Once the provider accepts a message, a database    *)
(* acknowledgement failure must never be classified as a provider          *)
(* rejection": a worker that holds a receipt stores no failure.            *)
(***************************************************************************)
AcceptedNeverFailed ==
  [][\A w \in Workers, e \in Emails :
       worker[w].email = e /\ worker[w].receipt /\ row[e].token = w
         => row'[e].status \in {"processing", "delivered"}]_vars

(***************************************************************************)
(* Every published email is delivered or given up in the end, whatever     *)
(* batches were left behind.                                               *)
(***************************************************************************)
EveryEmailSettles ==
  \A e \in Emails : row[e].status = "pending" ~> row[e].status \in {"delivered", "dead_letter"}
=============================================================================
