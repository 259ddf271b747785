-------------------------- MODULE EmailOutboxProofs --------------------------
(***************************************************************************)
(* Proofs for EmailOutbox, for any emails, workers, attempts and faults.   *)
(*                                                                         *)
(* The first invariant relates a worker's batch to the rows: as long as a  *)
(* row bears the worker's token, the copy has the row's attempts, and the  *)
(* email is still to be sent or in hand, unless the batch was given up.    *)
(* The second counts how often an email may still be sent without another  *)
(* fault: each sending uses up a chance, and only a fault makes one.       *)
(***************************************************************************)
EXTENDS EmailOutbox, FiniteSetTheorems, TLAPS

Pcs == {"down", "idle", "poll", "send", "settle", "over"}
Statuses == {"none", "pending", "processing", "delivered", "dead_letter"}
Batches == UNION {[batch -> 0..MaxAttempts - 1] : batch \in SUBSET Emails}

Row == [status : Statuses, attempts : Nat, token : Workers \cup {None}, live : BOOLEAN]
Process == [pc : Pcs, copy : Batches, todo : SUBSET Emails, email : Emails \cup {None},
            outcome : Outcomes, receipt : BOOLEAN, stopping : BOOLEAN, failed : BOOLEAN]

Shape ==
  /\ row \in [Emails -> Row]
  /\ worker \in [Workers -> Process]
  /\ sent \in [Emails -> Nat]
  /\ faults \in 0..MaxFaults

\* A row is leased exactly while it is processing, and has an attempt left
\* until it is settled.
RowOK(r) ==
  /\ r.token # None <=> r.status = "processing"
  /\ r.live => r.status = "processing"
  /\ r.attempts <= MaxAttempts
  /\ r.status \in {"none", "pending", "processing"} => r.attempts < MaxAttempts

\* The email in hand is of the batch and sent already; only a batch at work
\* has something to send, and a worker between batches has none.
BatchOK(p) ==
  /\ p.pc = "settle" <=> p.email # None
  /\ p.email # None => p.email \in DOMAIN p.copy \ p.todo
  /\ p.todo \subseteq DOMAIN p.copy
  /\ p.pc \notin {"send", "settle"} => p.todo = {}
  /\ p.pc \in {"down", "idle", "poll"} => DOMAIN p.copy = {}
  /\ p.receipt => p.outcome = "accepted"
  /\ p.failed => p.pc = "over"

\* What bears the token of a worker is as the worker knows it.
Tokened(w, p) ==
  \A e \in DOMAIN p.copy :
    row[e].token = w =>
      /\ p.copy[e] = row[e].attempts
      /\ p.failed \/ e \in p.todo \/ e = p.email

IInv ==
  /\ Shape
  /\ \A e \in Emails : RowOK(row[e])
  /\ \A w \in Workers : BatchOK(worker[w]) /\ Tokened(w, worker[w])

-----------------------------------------------------------------------------
(* A worker's batch and the rows                                            *)

LEMMA CopiesOfEmails ==
  ASSUME NEW copy \in Batches
  PROVE  /\ DOMAIN copy \subseteq Emails
         /\ copy \in [DOMAIN copy -> 0..MaxAttempts - 1]
  BY DEF Batches

LEMMA NoBatch == <<>> \in Batches /\ DOMAIN <<>> = {}
<1>1. DOMAIN <<>> = {} /\ <<>> \in [{} -> 0..MaxAttempts - 1]
  OBVIOUS
<1>2. QED
  BY <1>1 DEF Batches

LEMMA Constants ==
  /\ MaxAttempts \in Nat \ {0} /\ MaxFaults \in Nat
  /\ None \notin Emails /\ None \notin Workers
  BY MaxAttemptsAssumption, MaxFaultsAssumption, NoneAssumption

LEMMA IdleProcess ==
  /\ Idle \in Process /\ BatchOK(Idle)
  /\ Down \in Process /\ BatchOK(Down)
  /\ [Idle EXCEPT !.pc = "poll"] \in Process /\ BatchOK([Idle EXCEPT !.pc = "poll"])
  BY NoBatch DEF Idle, Down, Process, Pcs, Outcomes, BatchOK

\* A row that bears a worker's token has borne it before, with its attempts.
TokenKept(v) ==
  \A e \in Emails :
    row'[e].token = v => row[e].token = v /\ row'[e].attempts = row[e].attempts

Rows == row' \in [Emails -> Row] /\ \A e \in Emails : RowOK(row'[e])
Counts == sent' \in [Emails -> Nat] /\ faults' \in 0..MaxFaults

\* The rows change, and no worker does.
LEMMA RowsChange ==
  ASSUME IInv, Rows, Counts, worker' = worker, \A v \in Workers : TokenKept(v)
  PROVE  IInv'
<1>1. ASSUME NEW v \in Workers PROVE Tokened(v, worker[v])'
  <2>1. worker[v].copy \in Batches /\ Tokened(v, worker[v])
    BY DEF IInv, Shape, Process
  <2>2. DOMAIN worker[v].copy \subseteq Emails
    BY <2>1, CopiesOfEmails
  <2>3. QED
    BY <2>1, <2>2 DEF Tokened, TokenKept
<1>2. QED
  BY <1>1 DEF IInv, Shape, Rows, Counts

\* One worker changes, perhaps with the rows.
LEMMA WorkerChanges ==
  ASSUME IInv, Rows, Counts, NEW w \in Workers, NEW p \in Process,
         worker' = [worker EXCEPT ![w] = p], BatchOK(p), Tokened(w, p)',
         \A v \in Workers \ {w} : TokenKept(v)
  PROVE  IInv'
<1>1. ASSUME NEW v \in Workers PROVE BatchOK(worker'[v]) /\ Tokened(v, worker[v])'
  <2>1. CASE v = w
    BY <2>1 DEF IInv, Shape
  <2>2. CASE v # w
    <3>1. worker'[v] = worker[v]
      BY <2>2 DEF IInv, Shape
    <3>2. worker[v].copy \in Batches /\ Tokened(v, worker[v]) /\ BatchOK(worker[v])
      BY DEF IInv, Shape, Process
    <3>3. DOMAIN worker[v].copy \subseteq Emails
      BY <3>2, CopiesOfEmails
    <3>4. TokenKept(v)
      BY <2>2
    <3>5. Tokened(v, worker[v])'
      BY <3>1, <3>2, <3>3, <3>4 DEF Tokened, TokenKept
    <3>6. QED
      BY <3>1, <3>2, <3>5
  <2>3. QED
    BY <2>1, <2>2
<1>2. Shape'
  BY DEF IInv, Shape, Rows, Counts
<1>3. QED
  BY <1>1, <1>2 DEF IInv, Rows

-----------------------------------------------------------------------------
(* The steps keep the first invariant                                       *)

LEMMA Start0 == Init => IInv
<1> SUFFICES ASSUME Init PROVE IInv
  OBVIOUS
<1>1. Shape
  BY Constants, IdleProcess DEF Init, Shape, NoRow, Row, Statuses
<1>2. \A e \in Emails : RowOK(row[e])
  BY Constants DEF Init, NoRow, RowOK
<1>3. \A w \in Workers : BatchOK(worker[w]) /\ Tokened(w, worker[w])
  BY IdleProcess, NoBatch DEF Init, Tokened, Down, Idle
<1>4. QED
  BY <1>1, <1>2, <1>3 DEF IInv

LEMMA SameRows ==
  ASSUME IInv, row' = row
  PROVE  Rows /\ \A v \in Workers : TokenKept(v)
  BY DEF IInv, Shape, Rows, TokenKept

LEMMA SameCounts ==
  ASSUME IInv, sent' = sent, faults' = faults \/ Fault
  PROVE  Counts
  BY Constants DEF IInv, Shape, Counts, Fault

LEMMA RowSteps ==
  ASSUME IInv, NEW e \in Emails, Publish(e) \/ Expire(e) \/ RecordDeliveryEvent(e)
  PROVE  IInv'
<1>1. row[e] \in Row /\ RowOK(row[e]) /\ row \in [Emails -> Row]
  BY DEF IInv, Shape
<1>2. Counts /\ worker' = worker
  BY SameCounts DEF Publish, Expire, RecordDeliveryEvent
<1> DEFINE r == row'[e]
<1>3. /\ row' = [row EXCEPT ![e] = r] /\ r \in Row /\ RowOK(r)
      /\ r.token = None \/ (r.token = row[e].token /\ r.attempts = row[e].attempts)
  <2>1. CASE Publish(e)
    <3>1. row' = [row EXCEPT ![e] = Upserted(row[e])] /\ r = Upserted(row[e])
      BY <1>1, <2>1 DEF Publish
    <3>2. CASE row[e].status = "none"
      <4>1. r = [status |-> "pending", attempts |-> 0, token |-> None, live |-> FALSE]
        BY <3>1, <3>2 DEF Upserted, NoRow
      <4>2. r \in Row /\ RowOK(r) /\ r.token = None
        BY <4>1, Constants DEF Row, Statuses, RowOK
      <4>3. QED
        BY <1>1, <3>1, <4>2
    <3>3. CASE row[e].status # "none"
      BY <1>1, <3>1, <3>3 DEF Upserted
    <3>4. QED
      BY <3>2, <3>3
  <2>2. CASE Expire(e)
    <3>1. row' = [row EXCEPT ![e].live = FALSE] /\ r = [row[e] EXCEPT !.live = FALSE]
      BY <1>1, <2>2 DEF Expire
    <3>2. QED
      BY <1>1, <3>1 DEF Row, RowOK
  <2>3. CASE RecordDeliveryEvent(e)
    <3>1. /\ row' = [row EXCEPT ![e].status = "dead_letter"]
          /\ r = [row[e] EXCEPT !.status = "dead_letter"] /\ row[e].status = "delivered"
      BY <1>1, <2>3 DEF RecordDeliveryEvent
    <3>2. QED
      BY <1>1, <3>1 DEF Row, Statuses, RowOK
  <2>4. QED
    BY <2>1, <2>2, <2>3
<1> HIDE DEF r
<1>4. Rows
  BY <1>1, <1>3 DEF Rows, IInv
<1>5. ASSUME NEW v \in Workers PROVE TokenKept(v)
  BY <1>1, <1>3, Constants DEF TokenKept
<1>6. QED
  BY <1>2, <1>4, <1>5, RowsChange

LEMMA OverrunStep ==
  ASSUME IInv, NEW w \in Workers, Overrun(w)
  PROVE  IInv'
<1>1. /\ row' = [e \in Emails |-> IF e \in DOMAIN worker[w].copy /\ row[e].token = w
                                  THEN [row[e] EXCEPT !.live = FALSE] ELSE row[e]]
      /\ worker' = worker /\ Counts
  BY SameCounts DEF Overrun
<1>2. ASSUME NEW e \in Emails
      PROVE  /\ row'[e] \in Row /\ RowOK(row'[e])
             /\ row'[e].token = row[e].token /\ row'[e].attempts = row[e].attempts
  <2>1. row[e] \in Row /\ RowOK(row[e])
    BY DEF IInv, Shape
  <2>2. QED
    BY <1>1, <2>1 DEF Row, RowOK
<1>3. Rows /\ \A v \in Workers : TokenKept(v)
  BY <1>1, <1>2 DEF Rows, TokenKept
<1>4. QED
  BY <1>1, <1>3, RowsChange

\* Steps between batches, and the end of one.
LEMMA OverBatch ==
  ASSUME IInv, NEW w \in Workers, NEW failed \in BOOLEAN, Over(w, failed)
  PROVE  \E p \in Process :
           /\ worker' = [worker EXCEPT ![w] = p] /\ BatchOK(p)
           /\ p.copy = <<>> \/ p.copy = worker[w].copy
           /\ p.failed = failed \/ p.copy = <<>>
           /\ p.todo = {} /\ p.email = None
<1>1. worker[w] \in Process
  BY DEF IInv, Shape
<1>2. CASE worker[w].stopping
  <2> DEFINE p == [Idle EXCEPT !.pc = "over", !.copy = worker[w].copy,
                               !.stopping = TRUE, !.failed = failed]
  <2>1. p \in Process
    BY <1>1, IdleProcess DEF Process, Pcs
  <2>2. /\ p.copy = worker[w].copy /\ p.failed = failed
        /\ p.todo = {} /\ p.email = None /\ p.pc = "over" /\ p.receipt = FALSE
    BY DEF Idle
  <2>3. BatchOK(p)
    BY <2>2 DEF BatchOK
  <2>4. worker' = [worker EXCEPT ![w] = p]
    BY <1>2 DEF Over
  <2>5. QED
    BY <2>1, <2>2, <2>3, <2>4
<1>3. CASE ~worker[w].stopping
  BY <1>3, IdleProcess DEF Over, Idle
<1>4. QED
  BY <1>2, <1>3

LEMMA QuietSteps ==
  ASSUME IInv, NEW w \in Workers,
         Start(w) \/ Poll(w) \/ RequestStop(w) \/ Exit(w) \/ Crash(w)
  PROVE  IInv'
<1>1. Rows /\ Counts /\ (\A v \in Workers : TokenKept(v)) /\ row' = row
  BY SameRows, SameCounts DEF Start, Poll, RequestStop, Exit, Crash
<1>2. worker[w] \in Process /\ BatchOK(worker[w]) /\ Tokened(w, worker[w])
  BY DEF IInv, Shape
<1>3. CASE Start(w) \/ Exit(w) \/ Crash(w)
  <2>1. PICK p \in {Down, [Idle EXCEPT !.pc = "poll"]} : worker' = [worker EXCEPT ![w] = p]
    BY <1>3 DEF Start, Exit, Crash
  <2>2. p \in Process /\ BatchOK(p) /\ DOMAIN p.copy = {}
    BY IdleProcess, NoBatch, <2>1 DEF Down, Idle
  <2>3. Tokened(w, p)'
    BY <2>2 DEF Tokened
  <2>4. QED
    BY <1>1, <2>1, <2>2, <2>3, WorkerChanges
<1>4. CASE Poll(w) \/ RequestStop(w)
  <2>1. PICK p : /\ worker' = [worker EXCEPT ![w] = p]
                 /\ \/ p = [worker[w] EXCEPT !.pc = "poll"] /\ worker[w].pc = "idle"
                    \/ p = [worker[w] EXCEPT !.stopping = TRUE,
                                             !.pc = IF @ = "idle" THEN "over" ELSE @]
    BY <1>4 DEF Poll, RequestStop, At, IInv, Shape
  <2>2. /\ p \in Process
        /\ p.copy = worker[w].copy /\ p.todo = worker[w].todo /\ p.email = worker[w].email
        /\ p.failed = worker[w].failed /\ p.receipt = worker[w].receipt
        /\ p.outcome = worker[w].outcome
        /\ p.pc = worker[w].pc \/ (worker[w].pc = "idle" /\ p.pc \in {"poll", "over"})
    BY <1>2, <2>1 DEF Process, Pcs
  <2>3. BatchOK(p)
    BY <1>2, <2>2 DEF BatchOK
  <2>4. Tokened(w, p)
    BY <1>2, <2>2 DEF Tokened
  <2>5. Tokened(w, p)'
    BY <1>1, <2>4 DEF Tokened
  <2>6. QED
    BY <1>1, <2>1, <2>2, <2>3, <2>5, WorkerChanges
<1>5. QED
  BY <1>3, <1>4

\* Claimed rows are processing under the claiming worker's token.
LEMMA ClaimedRows ==
  ASSUME IInv, NEW w \in Workers, NEW batch \in SUBSET {e \in Emails : Claimable(e)},
         row' = Claimed(w, batch)
  PROVE  /\ Rows
         /\ \A e \in Emails : row'[e].attempts = row[e].attempts
         /\ \A e \in Emails \ batch : row'[e] = row[e]
         /\ \A v \in Workers \ {w} : TokenKept(v)
<1>1. ASSUME NEW e \in batch
      PROVE  /\ row'[e] \in Row /\ RowOK(row'[e])
             /\ row'[e].attempts = row[e].attempts /\ row'[e].token = w
  <2>1. row[e] \in Row /\ RowOK(row[e]) /\ Claimable(e)
    BY DEF IInv, Shape
  <2>2. row'[e] = [row[e] EXCEPT !.status = "processing", !.token = w, !.live = TRUE]
    BY DEF Claimed
  <2>3. row[e].attempts < MaxAttempts
    BY <2>1 DEF Claimable, RowOK
  <2>4. QED
    BY <2>1, <2>2, <2>3, Constants DEF Row, Statuses, RowOK
<1>2. ASSUME NEW e \in Emails \ batch
      PROVE  row'[e] = row[e] /\ row[e] \in Row /\ RowOK(row[e])
  BY DEF Claimed, IInv, Shape
<1>3. Rows
  BY <1>1, <1>2 DEF Rows, Claimed
<1>4. ASSUME NEW v \in Workers \ {w} PROVE TokenKept(v)
  BY <1>1, <1>2 DEF TokenKept
<1>5. QED
  BY <1>1, <1>2, <1>3, <1>4

\* When a batch ends, what still bears the worker's token is accounted for
\* if nothing does, or if the batch counts as failed.
LEMMA EndBatch ==
  ASSUME IInv, Rows, Counts, NEW w \in Workers, NEW failed \in BOOLEAN, Over(w, failed),
         \A v \in Workers \ {w} : TokenKept(v),
         \A e \in DOMAIN worker[w].copy :
           row'[e].token = w => failed /\ worker[w].copy[e] = row'[e].attempts
  PROVE  IInv'
<1>1. PICK p \in Process :
        /\ worker' = [worker EXCEPT ![w] = p] /\ BatchOK(p)
        /\ p.copy = <<>> \/ p.copy = worker[w].copy
        /\ p.failed = failed \/ p.copy = <<>>
        /\ p.todo = {} /\ p.email = None
  BY OverBatch
<1>2. Tokened(w, p)'
  <2>1. CASE p.copy = <<>>
    BY <2>1, NoBatch DEF Tokened
  <2>2. CASE p.copy = worker[w].copy /\ p.failed = failed
    BY <2>2 DEF Tokened
  <2>3. QED
    BY <1>1, <2>1, <2>2
<1>3. QED
  BY <1>1, <1>2, WorkerChanges

LEMMA ClaimSteps ==
  ASSUME IInv, NEW w \in Workers, ClaimFails(w) \/ \E batch \in SUBSET Emails : Claim(w, batch)
  PROVE  IInv'
<1>1. worker[w] \in Process /\ BatchOK(worker[w])
  BY DEF IInv, Shape
<1>2. At(w, "poll") /\ DOMAIN worker[w].copy = {}
  BY <1>1 DEF Claim, ClaimFails, At, BatchOK
<1>3. Counts
  BY SameCounts DEF Claim, ClaimFails
<1>4. CASE ClaimFails(w)
  <2>1. PICK batch \in SUBSET {e \in Emails : Claimable(e)} : row' = Claimed(w, batch)
    BY <1>4 DEF ClaimFails
  <2>2. Over(w, TRUE)
    BY <1>4 DEF ClaimFails
  <2>3. QED
    BY <1>2, <1>3, <2>1, <2>2, ClaimedRows, EndBatch
<1>5. ASSUME NEW batch \in SUBSET Emails, Claim(w, batch) PROVE IInv'
  <2>1. batch \in SUBSET {e \in Emails : Claimable(e)} /\ row' = Claimed(w, batch)
    BY <1>5 DEF Claim
  <2>2. CASE batch = {}
    BY <1>2, <1>3, <1>5, <2>1, <2>2, ClaimedRows, EndBatch DEF Claim
  <2>3. CASE batch # {}
    <3>1. PICK p : /\ worker' = [worker EXCEPT ![w] = p]
                   /\ p = [worker[w] EXCEPT !.pc = "send", !.todo = batch,
                                            !.copy = [e \in batch |-> row[e].attempts]]
      BY <1>1, <1>5, <2>3 DEF Claim, IInv, Shape
    <3>2. [e \in batch |-> row[e].attempts] \in Batches
      <4>1. ASSUME NEW e \in batch PROVE row[e].attempts \in 0..MaxAttempts - 1
        <5>1. row[e] \in Row /\ RowOK(row[e]) /\ Claimable(e)
          BY <2>1 DEF IInv, Shape
        <5>2. QED
          BY <5>1, Constants DEF Row, RowOK, Claimable
      <4>2. [e \in batch |-> row[e].attempts] \in [batch -> 0..MaxAttempts - 1]
        BY <4>1
      <4>3. QED
        BY <4>2 DEF Batches
    <3>3. /\ p \in Process /\ p.todo = batch /\ DOMAIN p.copy = batch /\ p.pc = "send"
          /\ p.email = worker[w].email /\ p.receipt = worker[w].receipt
          /\ p.outcome = worker[w].outcome /\ p.failed = worker[w].failed
          /\ \A e \in batch : p.copy[e] = row[e].attempts
      BY <1>1, <3>1, <3>2 DEF Process, Pcs
    <3>4. BatchOK(p)
      BY <1>1, <1>2, <3>3 DEF BatchOK, At
    <3>5. Tokened(w, p)'
      BY <2>1, <3>3, ClaimedRows DEF Tokened
    <3>6. QED
      BY <1>3, <2>1, <3>1, <3>3, <3>4, <3>5, ClaimedRows, WorkerChanges
  <2>4. QED
    BY <2>2, <2>3
<1>6. QED
  BY <1>4, <1>5

LEMMA SendSteps ==
  ASSUME IInv, NEW w \in Workers, NEW e \in Emails, Send(w, e) \/ SendUnheard(w, e)
  PROVE  IInv'
<1>1. worker[w] \in Process /\ BatchOK(worker[w]) /\ Tokened(w, worker[w])
  BY DEF IInv, Shape
<1>2. row' = row /\ At(w, "send") /\ e \in worker[w].todo
  BY DEF Send, SendUnheard
<1>3. Counts
  BY Constants DEF IInv, Shape, Counts, Send, SendUnheard, Fault
<1>4. PICK outcome \in Outcomes : Answered(w, e, outcome)
  BY DEF Send, SendUnheard, Outcomes
<1>5. PICK p : /\ worker' = [worker EXCEPT ![w] = p]
               /\ p = [worker[w] EXCEPT !.pc = "settle", !.todo = @ \ {e}, !.email = e,
                                        !.outcome = outcome,
                                        !.receipt = outcome = "accepted"]
  BY <1>1, <1>4 DEF Answered, IInv, Shape
<1>6. /\ p \in Process /\ p.pc = "settle" /\ p.todo = worker[w].todo \ {e} /\ p.email = e
      /\ p.outcome = outcome /\ p.receipt = (outcome = "accepted")
      /\ p.copy = worker[w].copy /\ p.failed = worker[w].failed
  BY <1>1, <1>5 DEF Process, Pcs
<1>7. BatchOK(p)
  BY <1>1, <1>2, <1>6, Constants DEF BatchOK
<1>8. Tokened(w, p)
  <2>1. worker[w].email = None /\ DOMAIN worker[w].copy \subseteq Emails
    BY <1>1, <1>2, CopiesOfEmails DEF BatchOK, At, Process
  <2>2. QED
    BY <1>1, <1>6, <2>1, Constants DEF Tokened
<1>9. Tokened(w, p)'
  BY <1>2, <1>8 DEF Tokened
<1>10. QED
  BY <1>2, <1>3, <1>5, <1>6, <1>7, <1>9, SameRows, WorkerChanges

\* A stored outcome frees the row, with an attempt left when it waits again.
LEMMA StoredRows ==
  ASSUME IInv, NEW w \in Workers, At(w, "settle"), Holds(w), Stored(w)
  PROVE  /\ Rows
         /\ row'[worker[w].email].token = None
         /\ row'[worker[w].email].status
              = IF worker[w].outcome = "accepted" THEN "delivered"
                ELSE IF ShouldRetry(row[worker[w].email].attempts + 1, worker[w].outcome)
                     THEN "pending" ELSE "dead_letter"
         /\ \A e \in Emails \ {worker[w].email} : row'[e] = row[e]
         /\ \A v \in Workers : TokenKept(v)
<1> DEFINE e == worker[w].email
           made == worker[w].copy[e] + 1
           status == IF worker[w].outcome = "accepted" THEN "delivered"
                     ELSE IF ShouldRetry(made, worker[w].outcome) THEN "pending"
                     ELSE "dead_letter"
<1>1. worker[w] \in Process /\ BatchOK(worker[w]) /\ Tokened(w, worker[w])
  BY DEF IInv, Shape
<1>2. e \in DOMAIN worker[w].copy /\ worker[w].copy \in Batches
  BY <1>1 DEF BatchOK, At, Process
<1>3. e \in Emails
  BY <1>2, CopiesOfEmails
<1>4. row[e] \in Row /\ RowOK(row[e]) /\ row[e].status = "processing" /\ row[e].token = w
  BY <1>3 DEF IInv, Shape, Holds
<1>5. worker[w].copy[e] = row[e].attempts
  BY <1>1, <1>2, <1>4 DEF Tokened
<1>6. row' = [row EXCEPT ![e] = Settled(row[e], status)]
  BY <1>3 DEF Stored
<1>7. row'[e] = [status |-> status, attempts |-> row[e].attempts + 1, token |-> None, live |-> FALSE]
  BY <1>3, <1>4, <1>6 DEF Settled, Row, IInv, Shape
<1>8. row'[e] \in Row /\ RowOK(row'[e])
  BY <1>4, <1>5, <1>7, Constants DEF Row, Statuses, RowOK, ShouldRetry
<1>9. Rows
  BY <1>6, <1>8 DEF Rows, IInv, Shape
<1>10. ASSUME NEW f \in Emails \ {e} PROVE row'[f] = row[f]
  BY <1>6 DEF IInv, Shape
<1>11. ASSUME NEW v \in Workers PROVE TokenKept(v)
  BY <1>7, <1>10, Constants DEF TokenKept
<1>12. QED
  BY <1>5, <1>7, <1>9, <1>10, <1>11

LEMMA SettleSteps ==
  ASSUME IInv, NEW w \in Workers, Settle(w) \/ SettleFails(w)
  PROVE  IInv'
<1>1. worker[w] \in Process /\ BatchOK(worker[w]) /\ Tokened(w, worker[w])
  BY DEF IInv, Shape
<1>2. At(w, "settle") /\ worker[w].email \in DOMAIN worker[w].copy
  BY <1>1 DEF Settle, SettleFails, At, BatchOK
<1>3. worker[w].email \in Emails /\ DOMAIN worker[w].copy \subseteq Emails
  BY <1>1, <1>2, CopiesOfEmails DEF Process
<1>4. Counts
  BY SameCounts DEF Settle, SettleFails
\* What still bears the token after the step has the copy's attempts.
<1>5. ASSUME row' = row \/ (Holds(w) /\ Stored(w))
      PROVE  /\ Rows /\ \A v \in Workers : TokenKept(v)
             /\ \A e \in DOMAIN worker[w].copy :
                  row'[e].token = w => worker[w].copy[e] = row'[e].attempts
  <2>1. Rows /\ \A v \in Workers : TokenKept(v)
    BY <1>2, <1>5, SameRows, StoredRows
  <2>2. QED
    BY <1>1, <1>3, <2>1 DEF TokenKept, Tokened
<1>6. ASSUME Abort(w), row' = row \/ (Holds(w) /\ Stored(w)) PROVE IInv'
  BY <1>4, <1>5, <1>6, EndBatch DEF Abort
<1>7. CASE SettleFails(w)
  BY <1>6, <1>7 DEF SettleFails, Failed
<1>8. CASE Settle(w) /\ ~Holds(w)
  BY <1>6, <1>8 DEF Settle
<1>9. CASE Settle(w) /\ Holds(w)
  <2>1. Stored(w) /\ Proceed(w)
    BY <1>9 DEF Settle
  <2>2. /\ row'[worker[w].email].token = None
        /\ \A e \in Emails \ {worker[w].email} : row'[e] = row[e]
    BY <1>2, <1>9, <2>1, StoredRows
  \* What still bears the token is still to be sent.
  <2>3. ASSUME NEW e \in DOMAIN worker[w].copy, row'[e].token = w
        PROVE  /\ e # worker[w].email /\ row[e].token = w
               /\ worker[w].failed \/ e \in worker[w].todo
    BY <1>1, <1>3, <2>2, <2>3, Constants DEF Tokened
  <2>4. CASE worker[w].todo = {}
    <3>1. Over(w, FALSE)
      BY <2>1, <2>4 DEF Proceed
    <3>2. ~worker[w].failed
      BY <1>1, <1>2 DEF BatchOK, At
    <3>3. QED
      BY <1>4, <1>5, <2>1, <2>3, <2>4, <3>1, <3>2, <1>9, EndBatch
  <2>5. CASE worker[w].todo # {}
    <3>1. PICK p : /\ worker' = [worker EXCEPT ![w] = p]
                   /\ p = [worker[w] EXCEPT !.pc = "send", !.email = None,
                                            !.outcome = "none", !.receipt = FALSE]
      BY <1>1, <2>1, <2>5 DEF Proceed, IInv, Shape
    <3>2. /\ p \in Process /\ p.pc = "send" /\ p.email = None /\ p.receipt = FALSE
          /\ p.todo = worker[w].todo /\ p.copy = worker[w].copy
          /\ p.failed = worker[w].failed
      BY <1>1, <3>1 DEF Process, Pcs, Outcomes
    <3>3. BatchOK(p)
      BY <1>1, <1>2, <3>2 DEF BatchOK, At
    <3>4. Tokened(w, p)'
      BY <1>5, <1>9, <2>1, <2>3, <3>2 DEF Tokened
    <3>5. QED
      BY <1>4, <1>5, <1>9, <2>1, <3>1, <3>2, <3>3, <3>4, WorkerChanges
  <2>6. QED
    BY <2>4, <2>5
<1>10. QED
  BY <1>7, <1>8, <1>9

LEMMA Inductive == IInv /\ [Next]_vars => IInv'
<1> SUFFICES ASSUME IInv, [Next]_vars PROVE IInv'
  OBVIOUS
<1>1. ASSUME NEW e \in Emails, Publish(e) \/ Expire(e) \/ RecordDeliveryEvent(e) PROVE IInv'
  BY <1>1, RowSteps
<1>2. ASSUME NEW w \in Workers, Batch(w) PROVE IInv'
  BY <1>2, ClaimSteps, SendSteps, SettleSteps DEF Batch
<1>3. ASSUME NEW w \in Workers,
             Start(w) \/ Poll(w) \/ RequestStop(w) \/ Exit(w) \/ Crash(w)
      PROVE  IInv'
  BY <1>3, QuietSteps
<1>4. ASSUME NEW w \in Workers,
             ClaimFails(w) \/ Overrun(w) \/ SettleFails(w)
               \/ \E e \in Emails : SendUnheard(w, e)
      PROVE  IInv'
  BY <1>4, ClaimSteps, OverrunStep, SettleSteps, SendSteps
<1>5. CASE UNCHANGED vars
  BY <1>5, SameRows, SameCounts, RowsChange DEF vars
<1>6. QED
  BY <1>1, <1>2, <1>3, <1>4, <1>5 DEF Next

\* Batches and rows agree in every reachable state.
THEOREM OutboxHolds == Spec => []IInv
  BY Start0, Inductive, PTL DEF Spec

\* Rows and workers keep their types, and a row bears a lease exactly while
\* it is processing, as the CHECK of migration 0004 demands.
THEOREM OutboxTypes == Spec => []TypeOK
<1>1. IInv => TypeOK
  <2> SUFFICES ASSUME IInv PROVE TypeOK
    OBVIOUS
  <2>1. ASSUME NEW w \in Workers
        PROVE  /\ worker[w] \in Process /\ BatchOK(worker[w])
               /\ worker[w].copy \in [DOMAIN worker[w].copy -> 0..MaxAttempts - 1]
    <3>1. worker[w] \in Process /\ BatchOK(worker[w])
      BY DEF IInv, Shape
    <3>2. QED
      BY <3>1, CopiesOfEmails DEF Process
  <2>2. ASSUME NEW w \in Workers
        PROVE  /\ worker[w].pc \in Pcs /\ worker[w].todo \subseteq DOMAIN worker[w].copy
               /\ worker[w].outcome \in Outcomes
               /\ worker[w].pc = "settle" <=> worker[w].email # None
               /\ {worker[w].receipt, worker[w].stopping, worker[w].failed} \subseteq BOOLEAN
    BY <2>1 DEF Process, BatchOK
  <2>3. ASSUME NEW e \in Emails
        PROVE  /\ row[e].token # None <=> row[e].status = "processing"
               /\ row[e].live => row[e].status = "processing"
    BY DEF IInv, RowOK
  <2>4. QED
    BY <2>1, <2>2, <2>3 DEF TypeOK, IInv, Shape, Row, Statuses, Pcs
<1>2. QED
  BY <1>1, OutboxHolds, PTL

\* However many workers hold copies of a row, its failures are counted once
\* each, and one that waits has an attempt left.
THEOREM AttemptsStayBounded == Spec => []AttemptsBounded
<1>1. IInv => AttemptsBounded
  BY DEF IInv, RowOK, AttemptsBounded
<1>2. QED
  BY <1>1, OutboxHolds, PTL

\* A process that ends normally has settled its whole batch.
THEOREM StopIsClean == Spec => []CleanStop
<1>1. IInv => CleanStop
  <2> SUFFICES ASSUME IInv, NEW w \in Workers, At(w, "over"), ~worker[w].failed,
                      NEW e \in DOMAIN worker[w].copy, row[e].token = w
               PROVE  FALSE
    BY DEF CleanStop
  <2>1. worker[w] \in Process /\ BatchOK(worker[w]) /\ Tokened(w, worker[w])
    BY DEF IInv, Shape
  <2>2. worker[w].todo = {} /\ worker[w].email = None /\ e \in Emails
    BY <2>1, CopiesOfEmails DEF BatchOK, At, Process
  <2>3. QED
    BY <2>1, <2>2, Constants DEF Tokened
<1>2. QED
  BY <1>1, OutboxHolds, PTL

\* A worker that holds the provider's receipt stores no failure, whatever
\* happens to the database, and nobody else does in its place.
THEOREM ReceiptIsNoFailure == Spec => AcceptedNeverFailed
<1>1. ASSUME IInv, [Next]_vars, NEW w \in Workers, NEW e \in Emails,
             worker[w].email = e, worker[w].receipt, row[e].token = w
      PROVE  row'[e].status \in {"processing", "delivered"}
  <2>1. /\ worker[w] \in Process /\ BatchOK(worker[w])
        /\ row \in [Emails -> Row] /\ row[e] \in Row /\ row[e].status = "processing"
        /\ worker[w].outcome = "accepted"
    BY <1>1, Constants DEF IInv, Shape, RowOK, BatchOK
  <2>2. ASSUME NEW v \in Workers, row' = row \/ (At(v, "settle") /\ Holds(v) /\ Stored(v))
        PROVE  row'[e].status \in {"processing", "delivered"}
    <3>1. CASE row' = row
      BY <2>1, <3>1
    <3>2. CASE At(v, "settle") /\ Holds(v) /\ Stored(v)
      <4>1. CASE worker[v].email = e
        <5>1. v = w
          BY <1>1, <3>2, <4>1 DEF Holds
        <5>2. QED
          BY <1>1, <2>1, <3>2, <5>1, StoredRows
      <4>2. CASE worker[v].email # e
        BY <1>1, <2>1, <3>2, <4>2, StoredRows
      <4>3. QED
        BY <4>1, <4>2
    <3>3. QED
      BY <2>2, <3>1, <3>2
  <2>3. ASSUME NEW v \in Workers, NEW batch \in SUBSET {f \in Emails : Claimable(f)},
               row' = Claimed(v, batch)
        PROVE  row'[e].status \in {"processing", "delivered"}
    BY <2>1, <2>3 DEF Claimed, Row
  <2>4. ASSUME NEW f \in Emails, Publish(f) \/ Expire(f) \/ RecordDeliveryEvent(f)
        PROVE  row'[e].status \in {"processing", "delivered"}
    BY <2>1, <2>4 DEF Publish, Upserted, Expire, RecordDeliveryEvent, Row
  <2>5. ASSUME NEW v \in Workers, Overrun(v)
        PROVE  row'[e].status \in {"processing", "delivered"}
    BY <2>1, <2>5 DEF Overrun, Row
  <2>6. ASSUME NEW v \in Workers,
               Start(v) \/ Poll(v) \/ RequestStop(v) \/ Exit(v) \/ Crash(v)
                 \/ \E f \in Emails : Send(v, f) \/ SendUnheard(v, f)
        PROVE  row' = row
    BY <2>6 DEF Start, Poll, RequestStop, Exit, Crash, Send, SendUnheard
  <2>7. ASSUME NEW v \in Workers, Settle(v) \/ SettleFails(v)
        PROVE  row' = row \/ (At(v, "settle") /\ Holds(v) /\ Stored(v))
    BY <2>7 DEF Settle, SettleFails
  <2>8. ASSUME NEW v \in Workers, ClaimFails(v) \/ \E batch \in SUBSET Emails : Claim(v, batch)
        PROVE  \E batch \in SUBSET {f \in Emails : Claimable(f)} : row' = Claimed(v, batch)
    BY <2>8 DEF Claim, ClaimFails
  <2>9. CASE UNCHANGED vars
    BY <2>1, <2>9 DEF vars
  <2>10. QED
    BY <1>1, <2>1, <2>2, <2>3, <2>4, <2>5, <2>6, <2>7, <2>8, <2>9 DEF Next, Batch
<1>2. IInv /\ [Next]_vars =>
        [\A w \in Workers, e \in Emails :
           worker[w].email = e /\ worker[w].receipt /\ row[e].token = w
             => row'[e].status \in {"processing", "delivered"}]_vars
  BY <1>1
<1>3. QED
  BY <1>2, OutboxHolds, PTL DEF Spec, AcceptedNeverFailed

-----------------------------------------------------------------------------
(* How often an email is sent                                               *)

\* The workers that are still to send an email.
Senders(e) == {w \in Workers : e \in worker[w].todo}

\* A worker has sent the email, and stores that, or is about to send it.
Works(p, e) == e \in p.todo \/ (p.email = e /\ p.outcome = "accepted")

\* One of them holds the email's live lease.
Covered(e) == row[e].live /\ \E w \in Workers : row[e].token = w /\ Works(worker[w], e)

\* The row may be claimed once more without a fault.
Reclaimable(e) ==
  row[e].status \in {"none", "pending"} \/ (row[e].status = "processing" /\ ~Covered(e))

Spare(e) == IF Reclaimable(e) THEN 1 ELSE 0

\* How often it was sent, may be sent by a batch, and may be claimed again.
Counted(e) ==
  /\ IsFiniteSet(Senders(e))
  /\ sent[e] + Cardinality(Senders(e)) + Spare(e) <= 1 + faults

SendingsCounted == \A e \in Emails : Counted(e)

LEMMA Numbers ==
  ASSUME IInv, NEW e \in Emails, IsFiniteSet(Senders(e))
  PROVE  /\ Cardinality(Senders(e)) \in Nat /\ Spare(e) \in {0, 1}
         /\ sent[e] \in Nat /\ faults \in Nat
  BY FS_CardinalityType, Constants DEF Spare, IInv, Shape

\* One worker changes: the email leaves its batch, enters it, or neither.
LEMMA SendersChange ==
  ASSUME IInv, NEW w \in Workers, NEW p \in Process, worker' = [worker EXCEPT ![w] = p],
         NEW e \in Emails, IsFiniteSet(Senders(e))
  PROVE  /\ IsFiniteSet(Senders(e)')
         /\ (e \in worker[w].todo <=> e \in p.todo) => Senders(e)' = Senders(e)
         /\ e \in worker[w].todo /\ e \notin p.todo =>
              Cardinality(Senders(e)') = Cardinality(Senders(e)) - 1
         /\ e \notin worker[w].todo /\ e \in p.todo =>
              Cardinality(Senders(e)') = Cardinality(Senders(e)) + 1
<1>1. /\ worker'[w] = p
      /\ \A v \in Workers \ {w} : worker'[v] = worker[v]
  BY DEF IInv, Shape
<1>2. CASE e \in worker[w].todo <=> e \in p.todo
  <2>1. Senders(e)' = Senders(e)
    BY <1>1, <1>2 DEF Senders
  <2>2. QED
    BY <1>2, <2>1
<1>3. CASE e \in worker[w].todo /\ e \notin p.todo
  <2>1. Senders(e)' = Senders(e) \ {w} /\ w \in Senders(e)
    BY <1>1, <1>3 DEF Senders
  <2>2. QED
    BY <1>3, <2>1, FS_RemoveElement
<1>4. CASE e \notin worker[w].todo /\ e \in p.todo
  <2>1. Senders(e)' = Senders(e) \cup {w} /\ w \notin Senders(e)
    BY <1>1, <1>4 DEF Senders
  <2>2. QED
    BY <1>4, <2>1, FS_AddElement
<1>5. QED
  BY <1>2, <1>3, <1>4

\* The worker changes nothing about who covers a row it has left as it is, if
\* the row is not under its token, or if it works on the email as before.
LEMMA CoverStays ==
  ASSUME IInv, NEW w \in Workers, NEW p \in Process, worker' = [worker EXCEPT ![w] = p],
         NEW e \in Emails, row'[e] = row[e],
         row[e].token # w \/ (Works(worker[w], e) <=> Works(p, e))
  PROVE  Spare(e)' = Spare(e)
<1>1. /\ worker'[w] = p
      /\ \A v \in Workers \ {w} : worker'[v] = worker[v]
  BY DEF IInv, Shape
<1>2. Covered(e)' <=> Covered(e)
  <2>1. ASSUME NEW v \in Workers, row[e].token = v
        PROVE  Works(worker[v], e)' <=> Works(worker[v], e)
    BY <1>1, <2>1 DEF Works
  <2>2. QED
    BY <2>1 DEF Covered
<1>3. QED
  BY <1>2 DEF Spare, Reclaimable

\* A fault makes up for one more claim.
LEMMA FaultCounted ==
  ASSUME IInv, IInv', NEW e \in Emails, Counted(e), Fault, IsFiniteSet(Senders(e)'),
         sent'[e] + Cardinality(Senders(e)') <= sent[e] + Cardinality(Senders(e))
  PROVE  Counted(e)'
<1>1. Spare(e) \in {0, 1} /\ Spare(e)' \in {0, 1} /\ faults' = faults + 1
  BY DEF Spare, Fault
<1>2. /\ Cardinality(Senders(e)) \in Nat /\ Cardinality(Senders(e)') \in Nat
      /\ sent[e] \in Nat /\ sent'[e] \in Nat /\ faults \in Nat
  BY FS_CardinalityType, Constants DEF IInv, Shape, Counted
<1>3. QED
  BY <1>1, <1>2 DEF Counted

\* Without one, the three numbers must not grow.
LEMMA BalanceCounted ==
  ASSUME IInv, IInv', NEW e \in Emails, Counted(e), IsFiniteSet(Senders(e)'),
         faults' = faults,
         sent'[e] + Cardinality(Senders(e)') + Spare(e)'
           <= sent[e] + Cardinality(Senders(e)) + Spare(e)
  PROVE  Counted(e)'
<1>1. Spare(e) \in {0, 1} /\ Spare(e)' \in {0, 1}
  BY DEF Spare
<1>2. /\ Cardinality(Senders(e)) \in Nat /\ Cardinality(Senders(e)') \in Nat
      /\ sent[e] \in Nat /\ sent'[e] \in Nat /\ faults \in Nat
  BY FS_CardinalityType, Constants DEF IInv, Shape, Counted
<1>3. QED
  BY <1>1, <1>2 DEF Counted

LEMMA RowStepsCounted ==
  ASSUME IInv, IInv', SendingsCounted, NEW f \in Emails,
         Publish(f) \/ Expire(f) \/ RecordDeliveryEvent(f)
  PROVE  SendingsCounted'
<1> SUFFICES ASSUME NEW e \in Emails PROVE Counted(e)'
  BY DEF SendingsCounted
<1>1. Counted(e) /\ row[e] \in Row /\ RowOK(row[e]) /\ row \in [Emails -> Row]
  BY DEF SendingsCounted, IInv, Shape
<1>2. worker' = worker /\ sent' = sent /\ faults' = faults
  BY DEF Publish, Expire, RecordDeliveryEvent
<1>3. Senders(e)' = Senders(e)
  BY <1>2 DEF Senders
<1>4. Spare(e)' = Spare(e) \/ Spare(e) = 1
  <2>1. CASE row'[e] = row[e]
    BY <1>2, <2>1 DEF Spare, Reclaimable, Covered, Works
  <2>2. CASE e = f /\ row'[e] # row[e]
    <3>1. CASE Publish(f)
      <4>1. row[e].status = "none"
        BY <1>1, <2>2, <3>1 DEF Publish, Upserted
      <4>2. QED
        BY <4>1 DEF Spare, Reclaimable
    <3>2. CASE Expire(f)
      <4>1. ~Covered(e) /\ row[e].status = "processing"
        BY <1>1, <2>2, <3>2 DEF Expire, Attended, Covered, Works, RowOK
      <4>2. QED
        BY <4>1 DEF Spare, Reclaimable
    <3>3. CASE RecordDeliveryEvent(f)
      <4>1. row'[e].status = "dead_letter" /\ row[e].status = "delivered"
        BY <1>1, <2>2, <3>3 DEF RecordDeliveryEvent, Row
      <4>2. QED
        BY <4>1 DEF Spare, Reclaimable
    <3>4. QED
      BY <3>1, <3>2, <3>3
  <2>3. CASE e # f
    BY <1>1, <2>1, <2>3 DEF Publish, Expire, RecordDeliveryEvent
  <2>4. QED
    BY <2>1, <2>2, <2>3
<1>5. Spare(e) \in {0, 1} /\ Spare(e)' \in {0, 1}
  BY DEF Spare
<1>6. Cardinality(Senders(e)) \in Nat /\ sent[e] \in Nat /\ IsFiniteSet(Senders(e))
  BY <1>1, FS_CardinalityType DEF Counted, IInv, Shape
<1>7. QED
  BY <1>1, <1>2, <1>3, <1>4, <1>5, <1>6, BalanceCounted

\* A batch ends: its worker has nothing to send any more.
LEMMA OverEmpties ==
  ASSUME IInv, NEW w \in Workers, NEW failed \in BOOLEAN, Over(w, failed),
         NEW e \in Emails, IsFiniteSet(Senders(e))
  PROVE  /\ \E p \in Process : /\ worker' = [worker EXCEPT ![w] = p]
                               /\ p.todo = {} /\ p.email = None /\ ~Works(p, e)
         /\ IsFiniteSet(Senders(e)')
         /\ e \in worker[w].todo => Cardinality(Senders(e)') = Cardinality(Senders(e)) - 1
         /\ e \notin worker[w].todo => Cardinality(Senders(e)') = Cardinality(Senders(e))
<1>1. PICK p \in Process : /\ worker' = [worker EXCEPT ![w] = p]
                           /\ p.todo = {} /\ p.email = None
  BY OverBatch
<1>2. ~Works(p, e)
  BY <1>1, Constants DEF Works
<1>3. QED
  BY <1>1, <1>2, SendersChange

\* An email is sent: it leaves what the worker is to send.
LEMMA AnsweredBatch ==
  ASSUME IInv, NEW w \in Workers, NEW f \in Emails, NEW outcome \in Outcomes,
         Answered(w, f, outcome)
  PROVE  \E p \in Process : /\ worker' = [worker EXCEPT ![w] = p]
                            /\ p.todo = worker[w].todo \ {f}
                            /\ p.email = f /\ p.outcome = outcome
<1>1. worker[w] \in Process
  BY DEF IInv, Shape
<1>2. PICK p : /\ worker' = [worker EXCEPT ![w] = p]
               /\ p = [worker[w] EXCEPT !.pc = "settle", !.todo = @ \ {f}, !.email = f,
                                        !.outcome = outcome,
                                        !.receipt = outcome = "accepted"]
  BY <1>1 DEF Answered, IInv, Shape
<1>3. p \in Process /\ p.todo = worker[w].todo \ {f} /\ p.email = f /\ p.outcome = outcome
  BY <1>1, <1>2 DEF Process, Pcs
<1>4. QED
  BY <1>2, <1>3

\* The three numbers of an email, and two ways in which they change.
LEMMA SendersLeave ==
  ASSUME IInv, NEW w \in Workers, NEW p \in Process, worker' = [worker EXCEPT ![w] = p],
         NEW e \in Emails, IsFiniteSet(Senders(e)), p.todo \subseteq worker[w].todo
  PROVE  /\ IsFiniteSet(Senders(e)')
         /\ Cardinality(Senders(e)) \in Nat /\ Cardinality(Senders(e)') \in Nat
         /\ Cardinality(Senders(e)') <= Cardinality(Senders(e))
<1>1. Cardinality(Senders(e)) \in Nat
  BY FS_CardinalityType
<1>2. IsFiniteSet(Senders(e)')
  BY SendersChange
<1>3. Cardinality(Senders(e)') \in Nat
  BY <1>2, FS_CardinalityType
<1>4. CASE e \in p.todo <=> e \in worker[w].todo
  <2>1. Senders(e)' = Senders(e)
    BY <1>4, SendersChange
  <2>2. QED
    BY <1>1, <1>2, <2>1
<1>5. CASE e \in worker[w].todo /\ e \notin p.todo
  <2>1. Cardinality(Senders(e)') = Cardinality(Senders(e)) - 1
    BY <1>5, SendersChange
  <2>2. QED
    BY <1>1, <1>2, <1>3, <2>1
<1>6. QED
  BY <1>4, <1>5

\* Steps that are a fault, or a row that loses its lease by one.
LEMMA FaultsCounted ==
  ASSUME IInv, IInv', SendingsCounted, NEW w \in Workers,
         Crash(w) \/ ClaimFails(w) \/ Overrun(w) \/ SettleFails(w)
           \/ \E f \in Emails : SendUnheard(w, f)
  PROVE  SendingsCounted'
<1> SUFFICES ASSUME NEW e \in Emails PROVE Counted(e)'
  BY DEF SendingsCounted
<1>1. Counted(e) /\ IsFiniteSet(Senders(e)) /\ Cardinality(Senders(e)) \in Nat
  BY FS_CardinalityType DEF SendingsCounted, Counted
<1>2. Fault /\ sent[e] \in Nat
  BY DEF Crash, ClaimFails, Overrun, SettleFails, SendUnheard, IInv, Shape
<1>3. /\ IsFiniteSet(Senders(e)')
      /\ sent'[e] + Cardinality(Senders(e)') <= sent[e] + Cardinality(Senders(e))
  <2>1. ASSUME NEW p \in Process, worker' = [worker EXCEPT ![w] = p],
               p.todo \subseteq worker[w].todo, sent' = sent
        PROVE  /\ IsFiniteSet(Senders(e)')
               /\ sent'[e] + Cardinality(Senders(e)') <= sent[e] + Cardinality(Senders(e))
    <3>1. /\ IsFiniteSet(Senders(e)') /\ Cardinality(Senders(e)') \in Nat
          /\ Cardinality(Senders(e)') <= Cardinality(Senders(e))
      BY <1>1, <2>1, SendersLeave
    <3>2. QED
      BY <1>1, <1>2, <2>1, <3>1
  <2>2. CASE Overrun(w)
    <3>1. worker' = worker /\ sent' = sent
      BY <2>2 DEF Overrun
    <3>2. worker' = [worker EXCEPT ![w] = worker[w]] /\ worker[w] \in Process
      BY <3>1 DEF IInv, Shape
    <3>3. QED
      BY <2>1, <3>1, <3>2
  <2>3. CASE ClaimFails(w) \/ SettleFails(w)
    <3>1. Over(w, TRUE) /\ sent' = sent
      BY <2>3 DEF ClaimFails, SettleFails, Failed, Abort
    <3>2. PICK p \in Process : worker' = [worker EXCEPT ![w] = p] /\ p.todo = {}
      BY <3>1, OverBatch
    <3>3. QED
      BY <2>1, <3>1, <3>2
  <2>4. CASE Crash(w)
    <3>1. worker' = [worker EXCEPT ![w] = Down] /\ sent' = sent /\ Down.todo = {}
      BY <2>4 DEF Crash, Down, Idle
    <3>2. QED
      BY <2>1, <3>1, IdleProcess
  <2>5. ASSUME NEW f \in Emails, SendUnheard(w, f)
        PROVE  /\ IsFiniteSet(Senders(e)')
               /\ sent'[e] + Cardinality(Senders(e)') <= sent[e] + Cardinality(Senders(e))
    <3>1. f \in worker[w].todo /\ Answered(w, f, "transient") /\ "transient" \in Outcomes
      BY <2>5 DEF SendUnheard, Outcomes
    <3>2. PICK p \in Process : /\ worker' = [worker EXCEPT ![w] = p]
                               /\ p.todo = worker[w].todo \ {f}
      BY <3>1, AnsweredBatch
    <3>3. sent' = [sent EXCEPT ![f] = @ + 1] /\ sent \in [Emails -> Nat]
      BY <2>5 DEF SendUnheard, IInv, Shape
    <3>4. CASE e = f
      <4>1. sent'[e] = sent[e] + 1
        BY <3>3, <3>4
      <4>2. e \in worker[w].todo /\ e \notin p.todo
        BY <3>1, <3>2, <3>4
      <4>3. /\ IsFiniteSet(Senders(e)')
            /\ Cardinality(Senders(e)') = Cardinality(Senders(e)) - 1
        BY <1>1, <3>2, <4>2, SendersChange
      <4>4. QED
        BY <1>1, <1>2, <4>1, <4>3
    <3>5. CASE e # f
      <4>1. sent'[e] = sent[e]
        BY <3>3, <3>5
      <4>2. /\ IsFiniteSet(Senders(e)') /\ Cardinality(Senders(e)') \in Nat
            /\ Cardinality(Senders(e)') <= Cardinality(Senders(e))
        BY <1>1, <3>2, SendersLeave
      <4>3. QED
        BY <1>1, <1>2, <4>1, <4>2
    <3>6. QED
      BY <3>4, <3>5
  <2>6. QED
    BY <2>2, <2>3, <2>4, <2>5
<1>4. QED
  BY <1>1, <1>2, <1>3, FaultCounted

\* A step of one worker that touches no row, sends nothing, and leaves what
\* the worker works on as it is.
LEMMA QuietCounted ==
  ASSUME IInv, IInv', NEW w \in Workers, NEW p \in Process,
         worker' = [worker EXCEPT ![w] = p], NEW e \in Emails, Counted(e),
         row'[e] = row[e], sent'[e] = sent[e], faults' = faults,
         (e \in worker[w].todo <=> e \in p.todo),
         row[e].token # w \/ (Works(worker[w], e) <=> Works(p, e))
  PROVE  Counted(e)'
<1>1. Spare(e)' = Spare(e)
  BY CoverStays
<1>2. Senders(e)' = Senders(e)
  BY SendersChange DEF Counted
<1>3. QED
  BY <1>1, <1>2 DEF Counted

LEMMA BetweenCounted ==
  ASSUME IInv, IInv', SendingsCounted, NEW w \in Workers,
         Start(w) \/ Poll(w) \/ RequestStop(w) \/ Exit(w)
  PROVE  SendingsCounted'
<1> SUFFICES ASSUME NEW e \in Emails PROVE Counted(e)'
  BY DEF SendingsCounted
<1>1. Counted(e) /\ worker[w] \in Process /\ BatchOK(worker[w])
  BY DEF SendingsCounted, IInv, Shape
<1>2. row' = row /\ sent' = sent /\ faults' = faults
  BY DEF Start, Poll, RequestStop, Exit
<1>3. PICK p \in Process : /\ worker' = [worker EXCEPT ![w] = p]
                           /\ p.todo = worker[w].todo /\ p.email = worker[w].email
                           /\ p.email = None \/ p.outcome = worker[w].outcome
  <2>1. CASE Start(w) \/ Exit(w)
    <3>1. PICK p \in {Down, [Idle EXCEPT !.pc = "poll"]} : worker' = [worker EXCEPT ![w] = p]
      BY <2>1 DEF Start, Exit
    <3>2. p \in Process /\ p.todo = {} /\ p.email = None
      BY IdleProcess DEF Down, Idle
    <3>3. worker[w].todo = {} /\ worker[w].email = None
      BY <1>1, <2>1 DEF Start, Exit, At, BatchOK
    <3>4. QED
      BY <3>1, <3>2, <3>3
  <2>2. CASE Poll(w) \/ RequestStop(w)
    <3>1. PICK p : /\ worker' = [worker EXCEPT ![w] = p]
                   /\ \/ p = [worker[w] EXCEPT !.pc = "poll"]
                      \/ p = [worker[w] EXCEPT !.stopping = TRUE,
                                               !.pc = IF @ = "idle" THEN "over" ELSE @]
      BY <2>2 DEF Poll, RequestStop, IInv, Shape
    <3>2. /\ p \in Process /\ p.todo = worker[w].todo /\ p.email = worker[w].email
          /\ p.outcome = worker[w].outcome
      BY <1>1, <3>1 DEF Process, Pcs
    <3>3. QED
      BY <3>1, <3>2
  <2>3. QED
    BY <2>1, <2>2
<1>4. Works(worker[w], e) <=> Works(p, e)
  BY <1>3, Constants DEF Works
<1>5. QED
  BY <1>1, <1>2, <1>3, <1>4, QuietCounted

LEMMA ClaimCounted ==
  ASSUME IInv, IInv', SendingsCounted, NEW w \in Workers,
         NEW batch \in SUBSET Emails, Claim(w, batch)
  PROVE  SendingsCounted'
<1> SUFFICES ASSUME NEW e \in Emails PROVE Counted(e)'
  BY DEF SendingsCounted
<1>1. /\ Counted(e) /\ worker[w] \in Process /\ BatchOK(worker[w])
      /\ row[e] \in Row /\ RowOK(row[e])
  BY DEF SendingsCounted, IInv, Shape
<1>2. /\ worker[w].todo = {} /\ ~Works(worker[w], e) /\ worker[w].email = None
  BY <1>1, Constants DEF Claim, At, BatchOK, Works
<1>3. sent' = sent /\ faults' = faults /\ row' = Claimed(w, batch)
  BY DEF Claim
<1>4. CASE batch = {}
  <2>1. Over(w, FALSE) /\ row'[e] = row[e]
    BY <1>3, <1>4 DEF Claim, Claimed
  <2>2. PICK p \in Process : /\ worker' = [worker EXCEPT ![w] = p]
                             /\ p.todo = {} /\ ~Works(p, e)
    BY <1>1, <2>1, OverEmpties DEF Counted
  <2>3. QED
    BY <1>1, <1>2, <1>3, <2>1, <2>2, QuietCounted
<1>5. CASE batch # {}
  <2>1. PICK p : /\ worker' = [worker EXCEPT ![w] = p]
                 /\ p = [worker[w] EXCEPT !.pc = "send", !.todo = batch,
                                          !.copy = [f \in batch |-> row[f].attempts]]
    BY <1>1, <1>5 DEF Claim, IInv, Shape
  <2>2. p.todo = batch /\ p.email = None /\ p \in Process
    <3>1. worker'[w] = p
      BY <2>1 DEF IInv, Shape
    <3>2. QED
      BY <1>1, <1>2, <2>1, <3>1 DEF IInv, Shape, Process
  <2>3. CASE e \in batch
    <3>1. Claimable(e) /\ row'[e] = [row[e] EXCEPT !.status = "processing", !.token = w, !.live = TRUE]
      BY <1>3, <2>3 DEF Claim, Claimed
    <3>2. Spare(e) = 1
      BY <3>1 DEF Claimable, Spare, Reclaimable, Covered
    <3>3. Spare(e)' = 0
      <4>1. Works(worker[w], e)'
        BY <2>1, <2>2, <2>3 DEF Works, IInv, Shape
      <4>2. row'[e].live /\ row'[e].token = w /\ row'[e].status = "processing"
        BY <1>1, <3>1 DEF Row
      <4>3. Covered(e)'
        BY <4>1, <4>2 DEF Covered
      <4>4. QED
        BY <4>2, <4>3 DEF Spare, Reclaimable
    <3>4. /\ IsFiniteSet(Senders(e)') /\ IsFiniteSet(Senders(e))
          /\ Cardinality(Senders(e)') = Cardinality(Senders(e)) + 1
      <4>1. worker' = [worker EXCEPT ![w] = p] /\ p \in Process
        BY <2>1, <2>2
      <4>2. e \notin worker[w].todo /\ e \in p.todo
        BY <1>2, <2>2, <2>3
      <4>3. IsFiniteSet(Senders(e))
        BY <1>1 DEF Counted
      <4>4. QED
        BY <4>1, <4>2, <4>3, SendersChange
    <3>5. Cardinality(Senders(e)) \in Nat /\ sent[e] \in Nat
      BY <3>4, FS_CardinalityType DEF IInv, Shape
    <3>6. QED
      BY <1>1, <1>3, <3>2, <3>3, <3>4, <3>5, BalanceCounted
  <2>4. CASE e \notin batch
    <3>1. row'[e] = row[e]
      BY <1>3, <2>4 DEF Claimed
    <3>2. ~Works(p, e)
      BY <2>2, <2>4, Constants DEF Works
    <3>3. /\ e \in worker[w].todo <=> e \in p.todo
          /\ Works(worker[w], e) <=> Works(p, e)
      BY <1>2, <2>2, <2>4, <3>2
    <3>4. worker' = [worker EXCEPT ![w] = p] /\ p \in Process
      BY <2>1, <2>2
    <3>5. Counted(e) /\ sent'[e] = sent[e] /\ faults' = faults
      BY <1>1, <1>3
    <3>6. QED
      BY <3>1, <3>3, <3>4, <3>5, QuietCounted
  <2>5. QED
    BY <2>3, <2>4
<1>6. QED
  BY <1>4, <1>5

LEMMA SendCounted ==
  ASSUME IInv, IInv', SendingsCounted, NEW w \in Workers, NEW f \in Emails, Send(w, f)
  PROVE  SendingsCounted'
<1> SUFFICES ASSUME NEW e \in Emails PROVE Counted(e)'
  BY DEF SendingsCounted
<1>1. /\ Counted(e) /\ worker[w] \in Process /\ BatchOK(worker[w])
      /\ row[e] \in Row /\ RowOK(row[e]) /\ sent \in [Emails -> Nat]
  BY DEF SendingsCounted, IInv, Shape
<1>2. /\ row' = row /\ faults' = faults /\ f \in worker[w].todo /\ worker[w].email = None
  BY <1>1 DEF Send, At, BatchOK
<1>3. PICK outcome \in Outcomes : /\ Answered(w, f, outcome)
                                  /\ sent' = IF outcome = "accepted"
                                             THEN [sent EXCEPT ![f] = @ + 1] ELSE sent
  BY DEF Send, Outcomes
<1>4. PICK p \in Process : /\ worker' = [worker EXCEPT ![w] = p]
                           /\ p.todo = worker[w].todo \ {f}
                           /\ p.email = f /\ p.outcome = outcome
  BY <1>3, AnsweredBatch
<1>5. CASE e # f
  <2>1. Works(worker[w], e) <=> Works(p, e)
    BY <1>2, <1>4, <1>5, Constants DEF Works
  <2>2. sent'[e] = sent[e]
    BY <1>1, <1>3, <1>5
  <2>3. e \in worker[w].todo <=> e \in p.todo
    BY <1>4, <1>5
  <2>4. QED
    BY <1>1, <1>2, <1>4, <2>1, <2>2, <2>3, QuietCounted
<1>6. CASE e = f
  <2>1. /\ IsFiniteSet(Senders(e)') /\ IsFiniteSet(Senders(e))
        /\ Cardinality(Senders(e)') = Cardinality(Senders(e)) - 1
    BY <1>1, <1>2, <1>4, <1>6, SendersChange DEF Counted
  <2>2. /\ Cardinality(Senders(e)) \in Nat /\ sent[e] \in Nat
        /\ Spare(e) \in {0, 1} /\ Spare(e)' \in {0, 1}
    BY <1>1, <2>1, FS_CardinalityType DEF Spare
  <2>3. CASE outcome # "accepted"
    BY <1>1, <1>2, <1>3, <2>1, <2>2, <2>3, BalanceCounted
  <2>4. CASE outcome = "accepted"
    <3>1. Works(worker[w], e) /\ Works(p, e)
      BY <1>2, <1>4, <1>6, <2>4 DEF Works
    <3>2. Spare(e)' = Spare(e)
      BY <1>2, <1>4, <3>1, CoverStays
    <3>3. sent'[e] = sent[e] + 1
      BY <1>1, <1>3, <1>6, <2>4
    <3>4. QED
      BY <1>1, <1>2, <2>1, <2>2, <3>2, <3>3, BalanceCounted
  <2>5. QED
    BY <2>3, <2>4
<1>7. QED
  BY <1>5, <1>6

\* After an outcome is stored the worker goes on with what is still to be sent.
LEMMA ProceededBatch ==
  ASSUME IInv, NEW w \in Workers, Proceed(w)
  PROVE  \E p \in Process : /\ worker' = [worker EXCEPT ![w] = p]
                            /\ p.todo = worker[w].todo /\ p.email = None
<1>1. worker[w] \in Process
  BY DEF IInv, Shape
<1>2. CASE worker[w].todo = {}
  <2>1. Over(w, FALSE)
    BY <1>2 DEF Proceed
  <2>2. QED
    BY <1>2, <2>1, OverBatch
<1>3. CASE worker[w].todo # {}
  <2>1. PICK p : /\ worker' = [worker EXCEPT ![w] = p]
                 /\ p = [worker[w] EXCEPT !.pc = "send", !.email = None,
                                          !.outcome = "none", !.receipt = FALSE]
    BY <1>1, <1>3 DEF Proceed, IInv, Shape
  <2>2. p \in Process /\ p.email = None /\ p.todo = worker[w].todo
    BY <1>1, <2>1 DEF Process, Pcs, Outcomes
  <2>3. QED
    BY <2>1, <2>2
<1>4. QED
  BY <1>2, <1>3

\* A receipt settles its email for good; what was not accepted may be claimed
\* again, as it might have been before, when nobody covered it any more.  A
\* worker that has lost its row gives up the rest of its batch, of which each
\* email may be claimed once in its place.
LEMMA SettleCounted ==
  ASSUME IInv, IInv', SendingsCounted, NEW w \in Workers, Settle(w)
  PROVE  SendingsCounted'
<1> SUFFICES ASSUME NEW e \in Emails PROVE Counted(e)'
  BY DEF SendingsCounted
<1>1. /\ Counted(e) /\ worker[w] \in Process /\ BatchOK(worker[w])
      /\ row[e] \in Row /\ RowOK(row[e]) /\ IsFiniteSet(Senders(e))
  BY DEF SendingsCounted, Counted, IInv, Shape
<1>2. /\ sent' = sent /\ faults' = faults /\ At(w, "settle")
      /\ worker[w].email # None /\ worker[w].email \notin worker[w].todo
  BY <1>1 DEF Settle, At, BatchOK
<1>3. /\ Cardinality(Senders(e)) \in Nat /\ sent[e] \in Nat
      /\ Spare(e) \in {0, 1} /\ Spare(e)' \in {0, 1}
  BY <1>1, FS_CardinalityType DEF Spare, IInv, Shape
<1>4. CASE Holds(w)
  <2>1. Stored(w) /\ Proceed(w)
    BY <1>4 DEF Settle
  <2>2. PICK p \in Process : /\ worker' = [worker EXCEPT ![w] = p]
                             /\ p.todo = worker[w].todo /\ p.email = None
    BY <2>1, ProceededBatch
  <2>3. CASE e # worker[w].email
    <3>1. row'[e] = row[e]
      BY <1>2, <1>4, <2>1, <2>3, StoredRows
    <3>2. Works(worker[w], e) <=> Works(p, e)
      BY <2>2, <2>3, Constants DEF Works
    <3>3. QED
      BY <1>1, <1>2, <2>2, <3>1, <3>2, QuietCounted
  <2>4. CASE e = worker[w].email
    <3>1. Senders(e)' = Senders(e)
      BY <1>1, <2>2, SendersChange
    <3>2. Spare(e)' <= Spare(e)
      <4>1. CASE worker[w].outcome = "accepted"
        <5>1. row'[e].status = "delivered"
          BY <1>2, <1>4, <2>1, <2>4, <4>1, StoredRows
        <5>2. Spare(e)' = 0
          BY <5>1 DEF Spare, Reclaimable
        <5>3. QED
          BY <1>3, <5>2
      <4>2. CASE worker[w].outcome # "accepted"
        <5>1. ~Works(worker[w], e)
          BY <1>2, <2>4, <4>2 DEF Works
        <5>2. row[e].status = "processing" /\ row[e].token = w
          BY <1>4, <2>4 DEF Holds
        <5>3. Spare(e) = 1
          BY <5>1, <5>2 DEF Spare, Reclaimable, Covered
        <5>4. QED
          BY <1>3, <5>3
      <4>3. QED
        BY <4>1, <4>2
    <3>3. QED
      BY <1>1, <1>2, <1>3, <3>1, <3>2, BalanceCounted
  <2>5. QED
    BY <2>3, <2>4
<1>5. CASE ~Holds(w)
  <2>1. Over(w, TRUE) /\ row' = row
    BY <1>5 DEF Settle, Abort
  <2>2. PICK p \in Process : /\ worker' = [worker EXCEPT ![w] = p]
                             /\ p.todo = {} /\ ~Works(p, e)
    BY <1>1, <2>1, OverEmpties
  <2>3. CASE e \in worker[w].todo
    <3>1. /\ IsFiniteSet(Senders(e)')
          /\ Cardinality(Senders(e)') = Cardinality(Senders(e)) - 1
      BY <1>1, <2>2, <2>3, SendersChange
    <3>2. QED
      BY <1>1, <1>2, <1>3, <3>1, BalanceCounted
  <2>4. CASE e \notin worker[w].todo
    <3>1. row[e].token # w \/ (Works(worker[w], e) <=> Works(p, e))
      <4>1. CASE Works(worker[w], e)
        <5>1. e = worker[w].email
          BY <2>4, <4>1 DEF Works
        <5>2. row[e].token # w
          BY <1>1, <1>5, <5>1, Constants DEF Holds, RowOK
        <5>3. QED
          BY <5>2
      <4>2. QED
        BY <2>2, <4>1
    <3>2. e \in worker[w].todo <=> e \in p.todo
      BY <2>2, <2>4
    <3>3. QED
      BY <1>1, <1>2, <2>1, <2>2, <3>1, <3>2, QuietCounted
  <2>5. QED
    BY <2>3, <2>4
<1>6. QED
  BY <1>4, <1>5

LEMMA SendingsStart == Init => SendingsCounted
<1> SUFFICES ASSUME Init, NEW e \in Emails PROVE Counted(e)
  BY DEF SendingsCounted
<1>1. Senders(e) = {}
  BY DEF Senders, Init, Down, Idle
<1>2. IsFiniteSet(Senders(e)) /\ Cardinality(Senders(e)) = 0
  BY <1>1, FS_EmptySet
<1>3. sent[e] = 0 /\ faults = 0 /\ Spare(e) \in {0, 1}
  BY DEF Init, Spare
<1>4. QED
  BY <1>2, <1>3 DEF Counted

LEMMA SendingsInductive == IInv /\ IInv' /\ SendingsCounted /\ [Next]_vars => SendingsCounted'
<1> SUFFICES ASSUME IInv, IInv', SendingsCounted, [Next]_vars PROVE SendingsCounted'
  OBVIOUS
<1>1. ASSUME NEW e \in Emails, Publish(e) \/ Expire(e) \/ RecordDeliveryEvent(e)
      PROVE  SendingsCounted'
  BY <1>1, RowStepsCounted
<1>2. ASSUME NEW w \in Workers, Batch(w) PROVE SendingsCounted'
  BY <1>2, ClaimCounted, SendCounted, SettleCounted DEF Batch
<1>3. ASSUME NEW w \in Workers, Start(w) \/ Poll(w) \/ RequestStop(w) \/ Exit(w)
      PROVE  SendingsCounted'
  BY <1>3, BetweenCounted
<1>4. ASSUME NEW w \in Workers,
             Crash(w) \/ ClaimFails(w) \/ Overrun(w) \/ SettleFails(w)
               \/ \E e \in Emails : SendUnheard(w, e)
      PROVE  SendingsCounted'
  BY <1>4, FaultsCounted
<1>5. CASE UNCHANGED vars
  BY <1>5 DEF vars, SendingsCounted, Counted, Senders, Spare, Reclaimable, Covered, Works
<1>6. QED
  BY <1>1, <1>2, <1>3, <1>4, <1>5 DEF Next

\* Each copy of an email beyond the first has a fault of its own: a process
\* that died, a batch that outlived its lease, a call that failed or whose
\* answer was lost.
THEOREM ResentOnlyByFaults == Spec => []ResentOnlyAfterFault
<1>1. IInv /\ SendingsCounted => ResentOnlyAfterFault
  <2> SUFFICES ASSUME IInv, SendingsCounted, NEW e \in Emails PROVE sent[e] <= 1 + faults
    BY DEF ResentOnlyAfterFault
  <2>1. Counted(e) /\ IsFiniteSet(Senders(e))
    BY DEF SendingsCounted, Counted
  <2>2. QED
    BY <2>1, Numbers DEF Counted
<1>2. Init => SendingsCounted
  BY SendingsStart
<1>3. IInv /\ IInv' /\ SendingsCounted /\ [Next]_vars => SendingsCounted'
  BY SendingsInductive
<1>4. QED
  BY <1>1, <1>2, <1>3, OutboxHolds, PTL DEF Spec

=============================================================================
