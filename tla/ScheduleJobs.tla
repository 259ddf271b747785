---------------------------- MODULE ScheduleJobs ----------------------------
(***************************************************************************)
(* Schedule generation: the row of a job in PostgreSQL, the reference to   *)
(* it in the queue, and the processors of apps/scheduler that solve it.    *)
(* Every database function is one step.  A processor may be paused at any  *)
(* step, lose its slot's process, or fail to reach the database.           *)
(***************************************************************************)
EXTENDS DurableJobQueue

CONSTANTS
  MaxQuality,  \* bound: quality of a candidate
  MaxFaults    \* bound: processes that die or are paused until a lock or lease
               \* runs out, calls that fail or whose answer is lost

ASSUME BoundsAssumption == MaxQuality \in Nat /\ MaxFaults \in Nat

VARIABLES
  row,      \* schedule_generation_jobs, by job
  proc,     \* process(): where it is and its local variables, by slot
  faults    \* number of them

vars == <<queue, row, proc, faults>>

Running == {"running", "valid_best_found", "cancelling"}
Ended == {"cancelled", "completed", "failed", "no_solution"}
Active == Running \cup {"queued"}

\* A job's row: its lease (live until it lapses), its fence token and the
\* quality of its current best result, 0 when there is none.  Each claim draws
\* a new random token; a slot that claims holds no older one, so a token is
\* told from all that still exist by the slot that drew it.
NoRow == [status |-> "none", parent |-> None, asked |-> FALSE, fence |-> None,
          live |-> FALSE, best |-> 0]

\* A processor at work: its best result, the candidate in hand, and how it is
\* about to end: with a final status, or with an error.
Final == {"cancelled", "completed", "no_solution"}
Errors == {"transient", "invariant"}
ProcRow == [pc : {"claim", "clone", "solve", "store", "finish", "release", "throw", "return"},
            best : 0..MaxQuality, cand : 0..MaxQuality, end : Final \cup Errors \cup {"none"}]
NoProc == [pc |-> "none"]
Locals(pc) == [pc |-> pc, best |-> 0, cand |-> 0, end |-> "none"]

(***************************************************************************)
(* Rows, queue and processors have their types; a row has a fence exactly  *)
(* while its status says that it is worked on, and a slot has a processor  *)
(* exactly while the handler runs.                                         *)
(***************************************************************************)
TypeOK ==
  /\ QueueTypeOK
  /\ row \in [Jobs -> [status : Active \cup Ended \cup {"none"}, parent : Jobs \cup {None},
                       asked : BOOLEAN, fence : Workers \cup {None}, live : BOOLEAN,
                       best : 0..MaxQuality]]
  /\ \A j \in Jobs : row[j].fence # None <=> row[j].status \in Running
  /\ proc \in [Workers -> {NoProc} \cup ProcRow]
  /\ \A w \in Workers : proc[w] # NoProc <=> worker[w].pc = "run"
  /\ faults \in 0..MaxFaults

Init ==
  /\ QueueInit
  /\ row = [j \in Jobs |-> NoRow]
  /\ proc = [w \in Workers |-> NoProc]
  /\ faults = 0

----------------------------------------------------------------------------
(* The API.  A row is inserted in a transaction; the job is queued after   *)
(* the commit, and when that fails the row stays.                          *)

\* schedule_generation_jobs_one_active_competition.
NoActiveJob == \A j \in Jobs : row[j].status \notin Active

Insert(j, parent) ==
  /\ row[j].status = "none" /\ NoActiveJob
  /\ row' = [row EXCEPT ![j] = [NoRow EXCEPT !.status = "queued", !.parent = parent]]
  /\ UNCHANGED <<queue, proc, faults>>

GenerateSchedule(j) == Insert(j, None)

ContinueScheduleJob(j, parent) ==
  /\ row[parent].status \in Ended /\ row[parent].best > 0
  /\ Insert(j, parent)

\* The request after its commit, or a repetition that found the receipt:
\* whatever the row's status is by now.
EnqueueReference(j) ==
  /\ row[j].status # "none"
  /\ Enqueue(j)
  /\ UNCHANGED <<row, proc, faults>>

RecoverQueued(j) ==
  /\ row[j].status = "queued"
  /\ Enqueue(j)
  /\ UNCHANGED <<row, proc, faults>>

CancelScheduleJob(j) ==
  /\ row[j].status \in Active \ {"cancelling"}
  /\ row' = [row EXCEPT ![j].asked = TRUE,
                        ![j].status = IF @ = "queued" THEN "cancelled" ELSE "cancelling"]
  /\ UNCHANGED <<queue, proc, faults>>

----------------------------------------------------------------------------
(* The database functions that a processor calls.                          *)

\* Fault: the fence token is not compared.
FencedByStatus(w) == row[Target(w)].status \in Running /\ row[Target(w)].live

Fenced(w) == row[Target(w)].fence = w /\ row[Target(w)].live

Claimable(r) == r.status = "queued" \/ (r.status \in Running /\ ~r.live)

\* Fault: the fence token stays in the row.
FreedFenced(r, status) == [r EXCEPT !.status = status, !.live = FALSE]

Freed(r, status) == [r EXCEPT !.status = status, !.fence = None, !.live = FALSE]

Fault == faults < MaxFaults /\ faults' = faults + 1

\* The holder of the fence is at work.  Once paused, it loses the lock and
\* the lease.
Attended(j) ==
  \E w \in Workers : /\ Owns(w) /\ Target(w) = j
                     /\ row[j].fence = w => row[j].live

\* Nobody renewed the lease in time.
LeaseLapses(j) ==
  /\ row[j].live
  /\ row' = [row EXCEPT ![j].live = FALSE]
  /\ IF Attended(j) /\ job[j].owner = row[j].fence THEN Fault ELSE UNCHANGED faults
  /\ UNCHANGED <<queue, proc>>

\* Fault: a result is stored although the job was cancelled.
StorableUncancelled(w, q) == Fenced(w) /\ q > row[Target(w)].best

\* phase4_checkpoint_schedule_option.
Storable(w, q) ==
  /\ Fenced(w) /\ ~row[Target(w)].asked
  /\ q > row[Target(w)].best

Store(w, q) ==
  row' = [row EXCEPT ![Target(w)].best = q, ![Target(w)].status = "valid_best_found"]

\* phase4_release_schedule_job_after_failure, or for an invariant error
\* phase4_finish_schedule_job.
\* Fault: the status stays, for another attempt to claim.
ReleasedAsItIs(r, err) == Freed(r, r.status)

Released(r, err) ==
  IF err = "invariant" THEN Freed(r, "failed")
  ELSE Freed(r, IF r.status = "cancelling" THEN "cancelled" ELSE "queued")

----------------------------------------------------------------------------
(* process().                                                              *)

Goes(w, p) == proc' = [proc EXCEPT ![w] = p]
At(w, pc) == proc[w].pc = pc
Ends(w, pc, end) == Goes(w, [Locals(pc) EXCEPT !.end = end])

TakeJob(w, j) == Take(w, j) /\ UNCHANGED <<row, proc, faults>>

Start(w) == StartHandler(w) /\ Goes(w, Locals("claim")) /\ UNCHANGED <<row, faults>>

Discard(w) == DiscardJob(w) /\ UNCHANGED <<row, proc, faults>>

\* The result that a claimed job starts from: its own, or its parent's.
Inherited(r) == r.best = 0 /\ r.parent # None
Seed(r) == IF Inherited(r) THEN row[r.parent].best ELSE r.best

\* Fault: a processor starts from nothing.
StartEmpty(r) == Locals("solve")

\* The local variables after a claim; a parent's result is stored first.
StartClaimed(r) ==
  [Locals(IF Inherited(r) THEN "clone" ELSE "solve") EXCEPT !.best = Seed(r)]

\* Fault: a job that another worker holds counts as done.
UnclaimedIsDone(r) == "return"

\* claimJob without a claim: an ended job is answered, a busy one thrown.
Unclaimed(r) == IF r.status \in Ended THEN "return" ELSE "throw"

Claimed(r, w) ==
  [r EXCEPT !.status = IF @ = "cancelling" THEN @ ELSE "running", !.fence = w, !.live = TRUE]

Claim(w) ==
  /\ At(w, "claim")
  /\ LET j == Target(w)  r == row[j] IN
       IF Claimable(r)
       THEN row' = [row EXCEPT ![j] = Claimed(@, w)] /\ Goes(w, StartClaimed(r))
       ELSE /\ Goes(w, Locals(Unclaimed(r)))
            /\ UNCHANGED row
  /\ UNCHANGED <<queue, faults>>

\* The parent's result becomes the job's own.  A refusal is not released:
\* claimJob has not returned the claim.
Clone(w) ==
  /\ At(w, "clone")
  /\ IF Storable(w, proc[w].best)
     THEN Store(w, proc[w].best) /\ Goes(w, [proc[w] EXCEPT !.pc = "solve"])
     ELSE Goes(w, Locals("throw")) /\ UNCHANGED row
  /\ UNCHANGED <<queue, faults>>

\* pollCancellation, which precedes each call of the solver.  Its timer finds
\* nothing that the next such call would not; that of renewLease, when the
\* lease was lost, ends an attempt whose next write would be refused.
Lost(w) == row[Target(w)].fence # w
CancelRequested(w) == ~Lost(w) /\ (Target(w) \in marker \/ row[Target(w)].asked)

Stopped(w) ==
  /\ At(w, "solve")
  /\ \/ CancelRequested(w) /\ Ends(w, "finish", "cancelled")
     \/ Lost(w) /\ Ends(w, "release", "transient")
  /\ UNCHANGED <<queue, row, faults>>

Solving(w) == At(w, "solve") /\ ~Lost(w) /\ ~CancelRequested(w)

\* The solver yields a candidate, better than the processor's best or not.
Yield(w) ==
  /\ Solving(w)
  /\ \E q \in proc[w].best..MaxQuality : Goes(w, [proc[w] EXCEPT !.pc = "store", !.cand = q])
  /\ UNCHANGED <<queue, row, faults>>

\* No candidate is left.
Solved(w) ==
  /\ Solving(w)
  /\ Ends(w, "finish", IF proc[w].best = 0 THEN "no_solution" ELSE "completed")
  /\ UNCHANGED <<queue, row, faults>>

\* The solver misses its deadline, or yields what it may not.
SolverFails(w) ==
  /\ Solving(w)
  /\ \E error \in Errors : Ends(w, "release", error)
  /\ UNCHANGED <<queue, row, faults>>

\* An improvement is stored.  Of any other candidate, or when the job was
\* cancelled, the progress is recorded, which a cancelled job refuses.
Checkpoint(w) ==
  /\ At(w, "store")
  /\ LET q == proc[w].cand
         Continue == Goes(w, [Locals("solve") EXCEPT !.best = q])
     IN \/ q > proc[w].best /\ Storable(w, q) /\ Store(w, q) /\ Continue
        \/ q = proc[w].best /\ Fenced(w) /\ ~row[Target(w)].asked /\ UNCHANGED row /\ Continue
        \/ /\ ~Fenced(w) \/ row[Target(w)].asked
           /\ Ends(w, "release", "transient") /\ UNCHANGED row
  /\ UNCHANGED <<queue, faults>>

Finish(w) ==
  /\ At(w, "finish")
  /\ IF Fenced(w)
     THEN /\ row' = [row EXCEPT ![Target(w)] = Freed(@, proc[w].end)]
          /\ Goes(w, Locals("return"))
     ELSE Ends(w, "release", "transient") /\ UNCHANGED row
  /\ UNCHANGED <<queue, faults>>

\* releaseAfterFailure; when the database refuses, the error is swallowed.
Release(w) ==
  /\ At(w, "release")
  /\ row' = IF Fenced(w) THEN [row EXCEPT ![Target(w)] = Released(@, proc[w].end)] ELSE row
  /\ Goes(w, Locals("throw"))
  /\ UNCHANGED <<queue, faults>>

Return(w) == At(w, "return") /\ Succeed(w) /\ Goes(w, NoProc) /\ UNCHANGED <<row, faults>>

Throw(w) == At(w, "throw") /\ Fail(w) /\ Goes(w, NoProc) /\ UNCHANGED <<row, faults>>

\* A call does not reach the database, or a poll Redis.
Unreachable(w) ==
  /\ Fault
  /\ \/ /\ proc[w].pc \in {"claim", "clone", "release"}
        /\ Goes(w, Locals("throw"))
     \/ /\ proc[w].pc \in {"solve", "store", "finish"}
        /\ Ends(w, "release", "transient")
  /\ UNCHANGED <<queue, row>>

\* A call is answered by an error though its transaction was committed.
Unheard(w) ==
  /\ Fault
  /\ LET j == Target(w) IN
       \/ /\ At(w, "claim") /\ Claimable(row[j])
          /\ row' = [row EXCEPT ![j] = Claimed(@, w)]
          /\ Goes(w, Locals("throw"))
       \/ /\ At(w, "clone") /\ Storable(w, proc[w].best) /\ Store(w, proc[w].best)
          /\ Goes(w, Locals("throw"))
       \/ /\ At(w, "store") /\ Storable(w, proc[w].cand) /\ Store(w, proc[w].cand)
          /\ Ends(w, "release", "transient")
       \/ /\ At(w, "finish") /\ Fenced(w)
          /\ row' = [row EXCEPT ![j] = Freed(@, proc[w].end)]
          /\ Ends(w, "release", "transient")
       \/ /\ At(w, "release") /\ Fenced(w)
          /\ row' = [row EXCEPT ![j] = Released(@, proc[w].end)]
          /\ Goes(w, Locals("throw"))
  /\ UNCHANGED queue

Crash(w) ==
  /\ Fault
  /\ KillSlot(w)
  /\ Goes(w, NoProc)
  /\ UNCHANGED row

\* handleDeadLetter: the row is failed if it is queued; errors are swallowed.
MarkDeadLettered(w, j) ==
  /\ [kind |-> "hook", job |-> j] \in events[w]
  /\ Handled(w, "hook", j)
  /\ \/ /\ row' = IF row[j].status = "queued" THEN [row EXCEPT ![j].status = "failed"] ELSE row
        /\ UNCHANGED faults
     \/ /\ Fault
        /\ UNCHANGED row
  /\ UNCHANGED <<job, dead, marker, worker, call, calls, proc>>

----------------------------------------------------------------------------
Process(w) ==
  \/ Start(w) \/ Discard(w) \/ Claim(w) \/ Clone(w) \/ Stopped(w) \/ Yield(w) \/ Solved(w)
  \/ Checkpoint(w) \/ Finish(w) \/ Release(w) \/ Return(w) \/ Throw(w)

Organiser(j) ==
  \/ GenerateSchedule(j) \/ CancelScheduleJob(j) \/ EnqueueReference(j)
  \/ \E parent \in Jobs : ContinueScheduleJob(j, parent)

\* BullMQ takes a job from a slot that still works on it only after a pause.
Queue ==
  /\ Background /\ UNCHANGED <<row, proc>>
  /\ IF \E j \in Jobs : Attended(j) /\ job'[j].state # "active"
     THEN Fault ELSE UNCHANGED faults

Next ==
  \/ \E j \in Jobs : Organiser(j) \/ RecoverQueued(j) \/ LeaseLapses(j)
  \/ \E w \in Workers : \/ Process(w) \/ SolverFails(w)
                        \/ Unreachable(w) \/ Unheard(w) \/ Crash(w)
                        \/ \E j \in Jobs : TakeJob(w, j) \/ MarkDeadLettered(w, j)
  \/ Queue

Spec == Init /\ [][Next]_vars

\* What keeps running: slots, their event handlers, BullMQ, and the
\* maintenance that queues references again.  A solver has finitely many
\* candidates.
Settle(w) ==
  \E j \in Jobs : \/ MoveToDeadLetter(w, j) /\ UNCHANGED <<row, proc, faults>>
                  \/ MarkDeadLettered(w, j)

Tend(j) ==
  /\ Promote(j) \/ (Stall(j) /\ ~Attended(j))
  /\ UNCHANGED <<row, proc, faults>>

Fairness ==
  /\ \A w \in Workers : WF_vars(Process(w)) /\ SF_vars(Solved(w)) /\ WF_vars(Settle(w))
  /\ \A j \in Jobs : /\ WF_vars(Tend(j)) /\ WF_vars(RecoverQueued(j))
                     /\ WF_vars(\E w \in Workers : TakeJob(w, j))

FairSpec == Spec /\ Fairness

----------------------------------------------------------------------------
(***************************************************************************)
(* The queue forgets no work: a reference that BullMQ counts as completed  *)
(* belongs to a row that has ended.  One that another worker held when it  *)
(* was taken is thrown, and tried again.                                   *)
(***************************************************************************)
CompletedMeansEnded == \A j \in Jobs : job[j].state = "completed" => row[j].status \in Ended

(***************************************************************************)
(* A row ends the way its result says, whichever of several attempts ended *)
(* it: without a solution only when no attempt stored one, completed only  *)
(* with one.                                                               *)
(***************************************************************************)
OutcomeMatchesResult ==
  \A j \in Jobs :
    /\ row[j].status = "no_solution" => row[j].best = 0
    /\ row[j].status \in {"completed", "valid_best_found"} => row[j].best > 0

(***************************************************************************)
(* The scheduler's README: a "retry/continue ... retains the prior best",  *)
(* and crashes and dead letters never delete it: results only improve, and *)
(* a continuation with a result has one at least as good as its parent's.  *)
(***************************************************************************)
ContinuationKeepsBest ==
  \A j \in Jobs :
    row[j].parent # None /\ row[j].status \in {"valid_best_found", "completed", "no_solution"}
      => row[j].best >= row[row[j].parent].best

(***************************************************************************)
(* A cancellation is the last word on the result: what the organiser saw   *)
(* when cancelling is what stays, though an attempt has a better candidate *)
(* in hand.                                                                *)
(***************************************************************************)
CancelledKeepsResult ==
  [][\A j \in Jobs : row[j].asked => row'[j].best = row[j].best]_vars

(***************************************************************************)
(* Every requested job ends.  Only after a fault or an operator's call may *)
(* the queue have given it up instead.                                     *)
(***************************************************************************)
EndsOrGivenUp ==
  \A j \in Jobs :
    row[j].status \in Active ~>
      \/ row[j].status \in Ended
      \/ faults + calls > 0 /\ job[j].state \in {"failed", "removed"}

=============================================================================
