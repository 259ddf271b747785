# Verification of the tournament platform

TLA+ models of the parts of this repository in which several actors meet: who may score
a match, what the public page shows of what was scored, the phone's offline queue, who
plays in the next match, the jobs that generate schedules, and the e-mail outbox. The
models are checked with TLC on small instances, and the central invariants are proved
with TLAPS for all instances. Paths below are relative to `src/`; `R` is
`apps/api/src/phase-2-runtime.ts`, `P3` is `apps/api/src/phase-3-runtime.ts`.

## The system

A competition's matches are scored by volunteers on phones. An organiser hands out
access passes; a phone exchanges a pass for a session, one session at a time is the
writer of a match, and everything it scores is an event in the match's canonical
stream. Results are snapshots under a competition-wide result version, and a
projection of them, overlaid with live scores, is what spectators read. Phones lose
their connection for hours and go on scoring.

| Component | State it keeps | Operations | Talks to |
|---|---|---|---|
| Scoring access (R, migrations 0006, 0028, 0036) | passes, sessions, one lease row per match, offline authorizations, takeover requests, transfer conflicts | create and revoke a pass, exchange, heartbeat, request/expire/deny/approve a takeover, issue/renew/resume/revoke an offline authorization | Postgres (advisory lock per match), phone, organiser |
| Score ledger (R, migrations 0006, 0029, 0030) | event streams, match state, result snapshots, result version | append, finalise, reopen, correct, publish the schedule | scoring access (who may), public projection (written in the same transaction) |
| Public projection, overlay, sweeper (R 5530–5885, `public-live-overlay.ts`, `competition-lifecycle-sweeper.ts`, migration 0070) | projection row per pair of versions, overlay row per live match, cut-off and time of generation | build and commit a projection, upsert an overlay row, read, sweep | score ledger |
| Phone client (`PhoneScoring.tsx`) | the offline kit: secret, recording deadline, queue | prepare, record, establish authority, replay, sign out | scoring access, score ledger |
| Offline queue (`packages/domain/src/offline-scoring.ts`, `apps/web/lib/offline-scoring*`) | IndexedDB: package, commands, acknowledgements, conflicts, replay lease; the session cookie; an attested export | record, establish authority, acquire, send, acknowledge, record a conflict, complete, recover, export, discard | score ledger (uploads), scoring access (resume) |
| Advancement (R 5158–5395, P3 1208–1363 and 3278–3688, `packages/domain/src/results.ts`) | participants of each match, advancement slots, conflicts, standings, withdrawn entries | publish a result, recalculate the standings, withdraw an entry | score ledger (results), organiser |
| Job queue (`packages/jobs`) | BullMQ jobs, dead letters, cancellation markers | enqueue, cancel, run, exhaust, retry a dead letter | Redis, workers |
| Email outbox (`packages/notifications`, `apps/worker`) | outbox rows with lease tokens and attempts | publish, claim, send, settle, take a delivery event, stop | mail provider |
| Schedule generation (`apps/scheduler`, migration 0013) | job rows beside the queue's: status, lease, fence token, best result | submit, continue, claim, solve, checkpoint, finish, release, cancel, recover | job queue, Postgres |
| Result repair (`gate-c-c4-*.ts`, `result-repair.ts`) | repair cases, previews, publications | open, supersede, preview, approve, publish | score ledger (a correction opens a case) |
| Domain algorithms, identity, entitlements, administration, assisted setup, web and infrastructure | – or one row per request | – | – |

### What is hard in it, and what correctness means

* *Scoring access.* Requests of several devices and the organiser meet in any order,
  devices vanish and come back, deadlines run out between any two steps. Only one
  session may hold the match; whoever holds it must still have the right to; a device
  that is away with permission must find its place; and an organiser who transfers
  the match must learn of work the old device has not sent. The handlers take a
  session's word under a lock they waited for; three different rules produce
  generations; expiry is lazy; what the server knows of a device is what it was told.
* *Score ledger and projection.* Matches share no lock with one another, but one
  result version and one page. Transactions run under READ COMMITTED, so a projection
  is put together from statements of different age while points are scored. What is
  shown must be the latest result, or the current live score, and an abandoned match
  must leave the page.
* *Offline queue.* Several tabs share one store without a common transaction; an answer
  may be lost before or after the server has entered the event; a late request may still
  arrive; a tab dies and leaves its lease. Each tap must reach the stream once and in
  order, or stay in the queue with the reason, until the scorer discards it and has been
  told how much was pending.
* *Advancement.* Two recalculations fill the same slots from different standings and
  under different guards, while matches start and reopen. A started match keeps its
  participants, and the organiser must be told of every difference that leaves.
* *Schedule jobs.* A row in Postgres and a job in Redis tell the same story at different
  speeds; processors are paused past their lease; the organiser cancels in between.
* *Outbox.* Delivery at least once under leases that lapse in the middle of a batch: an
  e-mail goes out twice only after a fault, and what the provider took never fails.

`PROJECT.json` lists each hazard with its line and the properties aimed at it.

## Modules

| Module | What it is |
|---|---|
| `ScoringAccess` | access, lease, takeover, offline authorization, and the guard of every canonical write, for one match |
| `MCScoringAccess` | its instances for TLC (symmetry of sessions and devices) |
| `ScoringAccessProofs` | the inductive invariant of `ScoringAccess` and the theorems it contains |
| `ScoringHandoverProofs` | theorems that rest on it: the fence, the handover, the lifetime of a pass, and what a device may hold that the server does not know of |
| `FencedWriter` | what scoring access promises: one owner of the right to write, growing tokens |
| `ScoringFencing`, `ScoringFencingProofs` | `ScoringAccess` as an implementation of it, and the proof that it is one |
| `ScoreLedger` | streams, results, projections, overlay, sweeper, for the matches of one competition |
| `MCScoreLedger` | its instances for TLC (bounds per match) |
| `ScoreLedgerProofs` | its invariant and theorems, for every competition: what the page shows is current |
| `OfflineQueue` | the phone's stores, recording, replay by any tab, and the server's side of an upload |
| `OrderedDelivery` | what the queue promises: taps are entered in order, each at most once |
| `MCOfflineQueue` | instances of `OfflineQueue`, and the mapping that shows it implements `OrderedDelivery` |
| `OfflineQueueProofs` | its invariants: acknowledgements are true, what is cleared is accounted for, the stored queue is sound |
| `Advancement`, `MCAdvancement` | how a division's matches learn who plays in them, and a format of five matches for TLC |
| `AdvancementProofs` | its invariant and theorems, for every format |
| `DurableJobQueue` | BullMQ with cancellation markers and dead letters |
| `ScheduleJobs`, `MCScheduleJobs` | rows and processors of schedule generation, composed with the queue |
| `ScheduleJobsProofs` | its invariant and theorems, the queue's part included |
| `EmailOutbox`, `MCEmailOutbox` | outbox rows and the workers that send them |
| `EmailOutboxProofs` | its invariant and theorems, and how often an e-mail can be sent |

Operators whose comment begins with "Fault:" are not part of a specification: each is
a plausible slip in the operator that follows it, and shows that a property can fail.

### ScoringAccess and the code

Every handler opens a transaction, takes the match's advisory lock and authenticates
again under it; so each is one atomic action. The variables are the tables; the field
names follow the columns. Time is kept in countdowns: a deadline `expires_at` is the
time left, `min(a, now + c)` is `Lesser(a, C)`, `expires_at <= now` is `= 0`, and
`Tick` takes one unit from every row. `beat` is what is left of the 30 seconds in
which a heartbeat counts as recent.

| Action | Code |
|---|---|
| `CreateAccessPass`, `RevokeAccessPass` | R 1690, 1970: revocation ends authorizations, sessions and lease of the pass together |
| `ExchangeAccess` (`ExchangeAsWriter`, `ExchangeReadOnly`) | R 2574: expire overdue authorizations, decide whether the writer's place is taken (`WriterReserved`), draw a generation (`NextGeneration`) |
| `Heartbeat` | R 3671: extends session and lease, records the reported queue; rolled back when a writer has lost the lease |
| `AppendScoreEvent`, `Finalise` | R 3354, 4308 and the trigger of migration 0030 (`WriterGuard`); `replayed` tells a queued command from a live one |
| `ReopenMatch`, `CorrectMatch` | R 4520, 4671: the organiser's; only their effect on the match's state matters here |
| `RequestTakeover`, `ExpireTakeoverRequests`, `ExpireTakeovers`, `DenyTakeover`, `ApproveTakeover` | R 3765, 3951, 3988. `Approvable` is every test of the handler, `ApprovalStorable` the CHECK of migration 0028 |
| `IssueOfflineAuthorization`, `ResumeOfflineAuthorization`, `ResumeTooLate`, `RevokeOfflineAuthorization` | R 2078, 2334, 2504. The answer to an issue may be lost (`delivered = FALSE`); the expiry a late resume commits before it refuses is an action of its own |
| `RecordOffline`, and `kit` | `offline-scoring.ts` and `PhoneScoring.tsx`: what the phone does alone |

From the client the model takes three facts, each with its place in `PhoneScoring.tsx`:
it prepares a device only with an empty queue (430–470), it replays only after it has
established its authority, which reports the queue (790–885), and it rolls a
preparation back (`preserve`) only while nothing is queued. The server does not depend
on them for anything but `TransferLeavesConflict`.

### ScoreLedger and the code

Appending and reopening are single transactions under the lock of their match:
`Append` (with the overlay upsert `Upsert`) and `Reopen`. A projection is a *job*:
`Begin…` takes the lock on the publication row (`PublicationFree`) and reads the results
and the list of live matches; `ReadStep` reads, match by match, the stream's version and
then its events, in two statements; `CommitResult` and `CommitUpkeep` write everything
at once. Other matches are scored in between: that is READ COMMITTED. `Retry` is the
repeated publication request of `phase-4-runtime.ts` 5817–5905, which does not take the
lock. `Shown` is what a visitor gets: the projection with live rows laid over it
(`public-live-overlay.ts`).

A score is abstracted to its *mark*, the version of the event that last changed it, so
"shows the current score" is an equality of marks. The six hours after which a live
match is stale are flags `fresh`; `hidden` and `seenStale` keep what comparing with the
cut-off and the time of generation would say. A job that fails rolls back and leaves
nothing, so only jobs that commit are begun.

### OfflineQueue and the code

One offline authorization of one phone. Every IndexedDB transaction and every server
transaction is one step; the variables `pkg`, `commands`, `acks`, `conflicts`, `lease` and
`exported` are the object stores, `stream`, `final` and `authority` the server's tables. A
tap is its number.

| Action | Code |
|---|---|
| `Tap`, `TapOnline`, `ReadQueue`, `Enqueue` | `PhoneScoring.tsx` 1326, `offline-scoring-coordinator.ts` 319: package, queue and store are three transactions; the third checks the whole queue (`Integral` is `assertOfflineQueueIntegrity`) |
| `Begin`, `Establish`, `EstablishUnheard` | the resumption before a replay; it rotates the session's token |
| `Acquire`, `Pick`, `Send`, `Serve`, `Receive`, `GiveUp` | `replay.ts`: Web Lock and lease, the first command without acknowledgement, the upload, its answer or none |
| `StoreAck`, `Complete`, `Refresh`, `Block`, `RecordConflict`, `Release` | `indexeddb.ts` and `replay.ts`: every write is fenced by the owner of the lease |
| `Recover`, `Save` | `reconcileOfflineReplayRecovery` |
| `ReadExport`, `Export`, `SignOut`, `Discard`, `MarkTerminal` | `export.ts`, `strict-indexeddb.ts` 267, `PhoneScoring.tsx` 1003. The exported document counts the commands (`PendingIn`) and fingerprints them, it holds none |
| `Refusal`, `Answer`, `Accept` | R 3354 and 4308 as a queued command meets them: authority first, then the receipt, then state, sequence and window |
| `ServeLate`, `Transfer`, `Revoke`, `LeaseRunsOut`, `WindowAdvances`, `Foreign`, `LeaseLapses`, `Close` | what happens meanwhile: a request given up arrives after all, the organiser acts, time passes, a tab is closed and leaves its lease row |

The composition with `ScoringAccess` is by `authority` and `window`: the five ways in which
the access model lets an authorization end are the values that the server answers by here.

*The promise* is `OrderedDelivery`: taps enter the stream in the order they were made, each
at most once. `MCOfflineQueue` maps the phone's own entries of the stream and what is queued
behind them to it; `DeliveredInOrder` is the refinement.

*Abstracted.* A replay's owner is a fresh UUID in the code, so the tab stands for it and the
epoch beside it is redundant. The queue read of an enqueue, and the reads of an export, are
one read each. The digest that attests an export is equality with what it covers; that the
scorer's page confirms the checksum of its own export is left out, any attested one will do.
Left out: another principal signing in on the phone, the resolution of a reversal's target,
other authorizations' packages, `replay_attempts`, the limit of 2000 commands
(`offline-scoring.ts` 216), a page closed between a terminal status and its conflict
(`replay.ts` 284, where the status alone tells the scorer). A package row saved by a
recovering tab can reappear after another tab's discard; it is empty, and no property is
about it.

### Advancement and the code

One division: matches, a pool whose participants are seeded, and sides fed by a rank of the
pool or by the winner or loser of another match (`Source`).

| Action | Code |
|---|---|
| `Admit`, `Start`, `Reopen` | R 1690, 3576, 4520: they lock the match only |
| `Publish` by `Finalise` and `Correct`, with `Advance` | R 5016 and 5158–5395: one step, for it locks the publication row and every match row before it decides |
| `PublishElsewhere` | another division draws a result version |
| `Recalculate` or `Withdraw`, then `Commit` or `Abort` | P3 3278–3688 and 1208–1363: the states of the matches are read without a lock, and the writes come later; `Locked` are the rows a withdrawal locks |
| `WithdrawEarly` | P3 1208–1224: before anything was played |
| `Accepted` | the CHECK of migration 0006 and the trigger of migration 0012 on a match's participants |

*Abstracted.* Standings are wins less losses, a draw being worth nothing, and ties fall to
the entries' ids. Pending and ready are one state, final and corrected another. Left out:
slots set by hand, ranks across groups, the deciding game of a double elimination, replaced
entries, the policy that voids all results, reasons of a conflict other than a started
match. The deadlock of two publications (R 5084) is an `Abort` or a step not taken, as
`app.ts` 92 answers it for a repetition.

### DurableJobQueue, ScheduleJobs and the code

`DurableJobQueue` is `packages/jobs/src/durable-job-queue.ts` over BullMQ: a job is taken,
its lock lapses (`Stall`), the adapter's handlers of worker events run later in the process
(`ClearMarker`, `MoveToDeadLetter`), and `cancel` and `retryDeadLetter` are two steps each,
a read and an action on it (`Call`, then `SetMarker`, `RemoveJob`, or `RetryJob` and
`DropDeadLetter`).

`ScheduleJobs` extends it with the rows of migration 0013 and the processors of
`apps/scheduler/src/processor.ts`. Each database function is one step: `Claim`, `Clone`,
`Checkpoint`, `Finish`, `Release`, `MarkDeadLettered`; `Unreachable` and `Unheard` are a call
that fails before or after its transaction. A fence token is told by the slot that drew it.
The API's side is `GenerateSchedule`, `ContinueScheduleJob`, `CancelScheduleJob`,
`EnqueueReference` (the queue is told after the commit, or not at all) and `RecoverQueued`.

*Abstracted.* Revision numbers, counts of explored candidates, BullMQ's retention of
finished jobs (7 days, `durable-job-queue.ts` 96), the marker's 24 hours, Redis errors while
the marker is read. Timers that renew a lease or poll for a cancellation are folded into the
calls that would find the same. A row locked by another claim (`SKIP LOCKED`) is an
`Unreachable` claim. Accepting an option is not modelled.

### EmailOutbox and the code

`packages/notifications/src/outbox.ts` and `postgres.ts`, `apps/worker/src`: publish, claim
a batch under one lease, send one e-mail after the other without a look at the lease, store
each outcome under the batch's token, stop cleanly. The claim set is open (due dates, limit
and `SKIP LOCKED` decide it); backoff only delays. A crash stands for the watchdog, too, and
counts no attempt. A delivery event before the acknowledgement finds no row
(`postgres.ts` 416) and a repeated one changes nothing. The purge of old rows
(`pdpa-retention.ts` 83–91) is left out: it deletes e-mails by age whatever their state, so
`EveryEmailSettles` is about the time before.

## Runs

No run takes much more than four minutes with two workers.

| Run | Question | Bounds | Result |
|---|---|---|---|
| `handover` | who holds the match: `LeaseHolderAuthoritative`, `ReservationHonoured`, `OneActiveAuthorization`, `TransferLeavesConflict`, `LeaseIsNewest`, `AuthorityWithinPass`, `HandoverNeedsApproval`, `EventsFenced`, and the refinement `OneFencedWriter` | 2 sessions, 2 devices; a pass of 4 units, session 3, lease 2, heartbeat and request 1, recording 2, grace 1 | holds, 1.1 million states |
| `scoring` | `LiveScoreCurrent`, `PublicResultCurrent`, `ResultVersionsDistinct`, `ResultChangesWithVersion`, and under `FairSpec` `AbandonedMatchLeavesPage` | 2 matches, of 5 and 0, 4 and 1, or 2 and 2 events | holds, 0.3 million states |
| `stale_cutoff` | `ShownLiveIsCandidate`, a statement of a comment | 2 matches of 2 and 1 events, a match may cross the cut-off within a sweep | violated, see below |
| `replay` | `ClearedIsAccounted`, `CompletedIsDrained`, `AcksTrue`, and the refinement `DeliveredInOrder` | 1 tab that may be closed, 2 taps, online too, 1 event of others, 2 attempts, exports | holds, 0.9 million states |
| `two_tabs` | `QueueIntegral`, `ConflictsArePending` | 2 tabs without Web Locks, 2 taps | holds, 4.2 million states |
| `drains` | `QueueDrains` under `FairSpec` | 2 tabs, one of which may be closed, 1 tap | holds, 0.2 million states |
| `discard` | `RecordedIsKept`, what a button of the page says | 1 tab, 1 tap, exports | violated, see below |
| `schedule` | `ContinuationKeepsBest`, `CancelledKeepsResult` | 2 jobs, 2 slots, 2 attempts, 1 fault | holds, 1.6 million states |
| `one_job` | `CompletedMeansEnded`, `OutcomeMatchesResult`, `CancellationStands`, and under `FairSpec` `EndsOrGivenUp` | 1 job, 2 slots, 2 attempts, 2 qualities, 1 fault, 1 call of an operator | holds, 0.2 million states |
| `dead_letter` | `DeadLetterKept`, a statement of the README of `packages/jobs` | the same without a fault | violated, see below |
| `outbox` | `AttemptsBounded`, `ResentOnlyAfterFault`, `CleanStop`, `AcceptedNeverFailed`, and under `FairSpec` `EveryEmailSettles` | 2 e-mails, 2 workers, 2 attempts, 1 fault | holds, 0.3 million states, no deadlock |
| `advancement` | `SlotsAligned`, `DivergenceIsRecorded` | a pool of 2 matches, a semi-final of its first two, a final and a third place fed by it; 1 entry may withdraw; 4 result versions | holds, 61 thousand states |

The first run of each module also checks its `TypeOK`.

Why the bounds are enough to meet the cases. *Access:* two sessions make every pair of
incumbent and newcomer, and the second session may be the same device after a restart or
another one. The countdowns are not to scale but in order: a heartbeat stops being recent
before the lease lapses, that before a replay window closes or a session ends, and all
before the pass. There is no bound but the number of sessions. Passes for viewers, and
several passes of a match, are left to the proofs, which allow any number of both. *Ledger:*
with five events a match is scored, finalised and corrected while other jobs rebuild the
page; with four it is finalised, reopened and finalised again, and an event of the other
match falls between any two statements of a job; with two each, both are finalised in any
order. Longer streams side by side are left to the proofs, which cover all but
`AbandonedMatchLeavesPage`. `Lengths` (the pairs) and `MaxSchedule` cap it, and it ends when
they are used up, without a deadlock because projections are regenerated forever. *Queue:*
two taps are the least with an order, and a third party's event is enough to make any
sequence stale; two attempts let an answer be lost and the upload be repeated (the code
makes 6); two tabs are every pair of owner and intruder. Exports are taken in the run with
one tab; that a tap is recorded in one tab while another exports is left to the proof of
`ClearedIsAccounted`. *Advancement:* two pool results, a semi-final and a correction of the
pool are the four versions it takes to make a played match disagree with the results; a
withdrawal may take the place of any. *Jobs, outbox:* two slots (workers) are the present
holder of a row and one that was paused; two attempts are one that is repeated and one that
exhausts; one fault at any step.

Runs with `CHECK_DEADLOCK FALSE` are of systems that may stop: all taps are made, the result
versions are used up, every job has ended.

*Crossing the cut-off.* `Crossing` names the jobs during which a match may become stale.
It is empty in the passing runs: a match goes stale between jobs, not within the few
milliseconds of one. `stale_cutoff` lets it happen within the sweeper's job and shows
what goes wrong. `AbandonedMatchLeavesPage` therefore holds up to that window, and the
finding says so.

*Fairness.* Nothing is assumed of people, except that in the queue a scorer whose page does
not replay by itself asks for it, and that in the jobs an operator calls the maintenance route.

* Ledger. `WF(Sweep)`: the sweeper runs every five minutes and regenerates the competitions
  it finds (`competition-lifecycle-sweeper.ts`). `WF` of `ReadStep`, `CommitResult` and
  `CommitUpkeep`: a transaction that has begun ends, and the transactions of one
  competition wait for each other on the publication row.
* Queue. `WF` of each open tab's next step. `SF(Serve)`, `SF(Receive)`, and for the tab that
  is not closed `SF(Begin)`, `SF(Establish)`: the network comes back again and again, and so
  does the page's `online` event or the scorer's "sync now". `WF(LeaseLapses)` of a closed
  tab's lease. `<>[][~LeaseRunsOut]_vars`: in the end an upload gets through within the 45
  seconds for which the resumption before it takes the writer lease.
* Jobs. `WF` of the slots, of the handlers of worker events, of BullMQ's timers and of
  taking a job; `SF(Solved)`: a solver has finitely many candidates; `WF(RecoverQueued)`: the
  maintenance route is called again and again.
* Outbox. `WF` of starting, polling, sending and leaving, and of leases that lapse; `SF` of
  claiming each e-mail: a worker polls at once when it starts, and the rows that have been
  due for longest come first.

### What the documents say and the code does not do

Three have a run that shows them:

* `stale_cutoff`: the cut-off is computed before the reads (R 5669) and the time of
  generation after them (R 5859). A match that crosses in between stays on the page as live
  and the sweeper's query never finds it, though the comment at
  `competition-lifecycle-sweeper.ts` 232 says it would.
* `dead_letter`: `retryDeadLetter` (`durable-job-queue.ts` 138) retries the job and then
  removes its record. If the job fails for good in between, the new record is ignored as a
  duplicate and the old one removed: an exhausted job is in no dead-letter queue, though
  `packages/jobs/README.md` 16 says all are copied there.
* `discard`: the diagnostic that a scorer exports before ending a session with unsent work
  (`export.ts` 114–194) counts the commands and fingerprints them, and contains none; by
  design it is sanitized. Yet the button that follows is "Discard exported work and end
  scoring" (`apps/web/lib/phase2.ts` 555), and `discardAfterExport` deletes the commands. A
  tap that was pending then exists nowhere any more. What does hold is that none goes
  unannounced (`ClearedIsAccounted`).

The others were met while reading or in earlier traces and have no run of their own.

*Access and ledger.*

* ADR 0001 has lease expiry increment the generation. A lapse writes nothing, and a resume
  of an offline authorization brings the lease back under its old generation. No harm:
  `LeaseIsNewest` and `EventsFenced` hold.
* An approval without acknowledgement is judged twice, by the handler on the incumbent's
  current state (R 4181) and by the table's CHECK on the state frozen in the request
  (migration 0028, 216–220); when they differ the transaction aborts. The web form always
  sends the acknowledgement then, the API does not ask for it.
* The comment in `resolveTakeover` argues that a lapsed lease implies a stale heartbeat. The
  lease is also capped by pass and session.
* An authorization capped by its pass ends with it, and until the last heartbeat is 30
  seconds old the incumbent's state is taken from its last report; what was recorded since
  is transferred without acknowledgement. This is why `TransferLeavesConflict` excludes an
  incumbent whose pass has expired.
* Migration 0070 (8–11) counts reopening among what rebuilds the projection. `reopenMatch`
  (R 4520) writes neither projection nor overlay, and the page shows a corrected match
  with the score from before the correction until the next event.

*Advancement.* `EXCEPTIONAL_CASES.md` is in `docs/policies`.

* Entries that stay tied in a pool are sent on in the order of their ids (R 5258–5279);
  `EXCEPTIONAL_CASES.md` 18 says "If still tied, block automatic advancement", and 41 "the
  product does not silently use seed or randomness".
* A match's home side is written before its away side, and the CHECK that they differ
  (migration 0006, 136) is immediate: a correction that swaps the first two of a pool who
  meet in one match is refused. `Accepted` models it.
* After a publication has written the ranked slots, the recalculation of a withdrawal never
  moves them (`results.ts` 1455), and an entry sent on keeps its place without a forfeit
  (P3 1284–1293); `EXCEPTIONAL_CASES.md` and `docs/qa/phase-3-verdict.md` 15 say that a
  withdrawn entry is scheduled no more. A trace of nine steps of the model shows it.
* `mutateEntry` replaces an entry (P3 1495) without regard to the locked format and leaves
  the matches as they are; the standings leave replaced entries out, and from then on every
  finalisation of the division fails with "references an unknown entry".
* A rank across groups is looked up by group or stage only (R 5158–5395), so a publication
  empties such a slot; `docs/qa/phase-3-verdict.md` 17 counts them as supported.
* A publication takes the newest revision of the format, a draft included (R 5233): a draft
  made after play has begun stops advancement.
* The requested recalculation writes ranked participants without a test of the match's
  state (P3 3566–3577) after a read without a lock. `DivergenceIsRecorded` starts with a
  publication because of it.
* A correction to a draw empties a side of a match that was admitted; once started, that
  match cannot be finalised (R 5042).
* The requested recalculation sends provisional ranks of an unfinished pool on, a publication
  only those of a finished one.

*Schedule jobs.* Five attempts with delays of 1, 2, 4 and 8 seconds end before a lease of 30
seconds does. When a release fails, which is swallowed (`processor.ts` 252–259), or the answer
to a claim is lost, every attempt finds the row busy, the job is exhausted, and
`markDeadLettered` refuses a running row: the row stays, and the index of one active job
(migration 0013, 1172) refuses every new one. `recoverQueuedScheduleJobs` does not recover a
queued row whose job has failed either, for the failed job is kept 7 days and makes the new
one a duplicate; `phase-4-runtime.ts` 3938 says the maintenance boundary can.
`EndsOrGivenUp` counts a job given up by the queue as an end for this reason.

*Repair* (read, not modelled). A published repair can still be abandoned. The advice after
`REPAIR_ANALYSIS_STALE`, to create a new case, cannot be followed. A correction has already
moved the slots that follow results, so the analysis classifies waiting matches as
unchanged; and the fingerprint contains the state of downstream matches, so one that starts
after the analysis makes the case stale for good.

## Proofs

Every theorem holds for all values of the constants that satisfy the assumptions named in
the modules, and nothing else is assumed.

| Module | Theorem | Property |
|---|---|---|
| `ScoringFencingProofs` | `ScoringIsAFencedWriter` | `OneFencedWriter`, the refinement of `FencedWriter` |
| `ScoreLedgerProofs` | `LedgerHolds` | its inductive invariant |
| | `LedgerTypes` | `TypeOK` |
| | `PageShowsLatestResult` | `PublicResultCurrent` |
| | `PageShowsLatestScore` | `LiveScoreCurrent` |
| | `VersionsOfResultsDistinct` | `ResultVersionsDistinct` |
| | `ResultsChangeUnderVersion` | `ResultChangesWithVersion` |
| `OfflineQueueProofs` | `UploadsConsistent`, `QueueHolds` | its inductive invariants |
| | `QueueTypes` | `TypeOK` |
| | `AcknowledgementsTrue` | `AcksTrue` |
| | `ClearingIsAccounted` | `ClearedIsAccounted` |
| | `QueueStaysIntegral` | `QueueIntegral` |
| | `CompletionIsDrained` | `CompletedIsDrained` |
| | `ConflictsAreAboutPending` | `ConflictsArePending` |
| `AdvancementProofs` | `AdvancementHolds` | its inductive invariant |
| | `AdvancementTypes` | `TypeOK` |
| | `SlotsStayAligned` | `SlotsAligned` |
| | `DivergenceStaysRecorded` | `DivergenceIsRecorded` |
| `ScheduleJobsProofs` | `JobsHold` | its inductive invariant |
| | `JobsTypes` | `TypeOK` |
| | `CompletedHasEnded` | `CompletedMeansEnded` |
| | `OutcomeIsResult` | `OutcomeMatchesResult` |
| | `ContinuationIsNoWorse` | `ContinuationKeepsBest` |
| | `CancelledResultStays` | `CancelledKeepsResult` |
| `EmailOutboxProofs` | `OutboxHolds` | its inductive invariant |
| | `OutboxTypes` | `TypeOK` |
| | `AttemptsStayBounded` | `AttemptsBounded` |
| | `StopIsClean` | `CleanStop` |
| | `ReceiptIsNoFailure` | `AcceptedNeverFailed` |
| | `ResentOnlyByFaults` | `ResentOnlyAfterFault` |

### Scoring access

`ScoringAccessProofs` and `ScoringHandoverProofs`, for any sets of sessions, devices and
passes and any lifetimes. Assumed: lifetimes are positive, the grace period may be zero;
`None` is none of the rows; viewers' passes are passes. The last two theorems of the table
assume also that the grace period is no shorter than a heartbeat counts
(`GraceAssumption`; the code has 15 minutes and 30 seconds).

| Theorem | Property |
|---|---|
| `TypesCorrect` | `TypeOK` |
| `HolderStaysAuthoritative` | `LeaseHolderAuthoritative` |
| `PlaceIsKept` | `ReservationHonoured` |
| `AuthorizationIsUnique` | `OneActiveAuthorization` |
| `LeaseStaysNewest` | `LeaseIsNewest` |
| `AuthorityHolds` | `Authority`, the inductive invariant |
| `FenceNeverFalls` | `EventsFenced` |
| `HandoverIsApproved` | `HandoverNeedsApproval` |
| `PassIsTheCeiling` | `AuthorityWithinPass` |
| `DevicesAreKnown` | `DeviceKnown`, an inductive invariant about devices |
| `TransferIsOnRecord` | `TransferLeavesConflict` |

*The invariant.* None of its four properties is inductive alone. A resume writes its old
generation into the lease; that keeps `LeaseIsNewest` only because the lease already is
the resuming session's (`ReservationHonoured`). `ReservationHonoured` survives an exchange
because an open replay window reserves the place, and a takeover because the approval
ends the authorization of the *lease's* generation, which is that of its holder
(`LeaseHolderAuthoritative`, `AuthorizationCurrent`) and of nobody else
(`OneActiveAuthorization`). `Authority` joins the four with the types, `PassKnown` (a session
in use has a pass, without which deadlines are not numbers), `GenerationGiven` (who never
wrote has generation 0), `AuthorizationCurrent` and `LeaseCounted`.

*The argument.* `StepCases` splits the steps: all but five are `Steady`, they leave
modes, generations, revocations and the lease's holder alone and let authorizations only
end. `SteadyKeeps` deals with those at once. Each of the five that decide who holds the
match (a pass revoked, an exchange, an approval, an authorization issued or revoked) has
a lemma of its own.

The others build on it. `FenceNeverFalls`: an event carries the generation of the
lease's holder (`FenceCases`), which is the newest of all; generations are never taken
back (`GenerationsGrow`); so the last event's generation is never above all of them
(`FenceIssued`). `HandoverIsApproved`: of the steps that decide, an exchange finds the
incumbent bound unless it comes from the same device, and an approval marks the former
holder. `PassIsTheCeiling` has an invariant of its own, `WithinPass`, which adds that a
session starts without an authorization and a pass without time.

`TransferIsOnRecord` needs to know what a device can hold that the server was not told of,
though no handler ever reads the device. `DeviceKnown` says it of each session. The holder
records no longer than its authorization says, since the device starts to count when the
answer is there (`RecordingKnown`). The window for replay lasts a grace period longer than
the recording, or as long as the pass (`WindowLasts`). So from a heartbeat that reported an
empty queue until that heartbeat is old, whatever was queued since is covered: either the
place is reserved, or the pass is over (`QueueKnown`). An approval thus finds a silent
holder, a reserved place, or a report of a queue, and each of them writes the conflict; what
is left on the device is on record (`LeftBehind`). If the grace period were shorter than a
heartbeat counts, the window could close while the last report, of an empty queue, is
still believed; hence the assumption.

`ScoringIsAFencedWriter` maps the lease's holder to the owner and a session's generation to its
token. An exchange and an approval are grants, a revocation withdraws, an accepted event is
a write, and everything else a stutter. A grant's token is above all earlier ones because
`NextGeneration` is above the lease's and every session's, and a write carries the newest
token by `LeaseIsNewest`.

### Ledger and page

For any matches and versions, and whatever `Crossing` is: the theorems do not depend on
matches crossing the cut-off between jobs only, as the finding does. Assumed
(`JobsAssumption`): `Upkeep` and `Retry` are two jobs other than those of matches.

*The invariant* relates what a job holds to the present. All jobs but a retry hold the
publication row (`Exclusive`), so the result version a job builds for is the next one or the
newest (`Due`), the snapshots it read are still the latest, and no match that it lists as
live is over (`Building`). A retry holds no lock; the same is true of it only as long as the
result version has not moved, and what it writes is refused once it has. For scores there
is no lock at all: a point commits an overlay row between any two statements of a job. What
saves the page is an order of times. A row that the job found old and that
no point has touched since is of a match whose version the job read as it is now, or which
it left out (`ReadOK`); a point since then makes the row younger than the projection, and
the job does not hide it. `ScoreOK` adds that while a match is scored its overlay row has
its score, and that it is hidden only while stale, with no live projection to fall back to.

### Offline queue

For any number of tabs, taps, attempts and foreign events, with or without Web Locks. The
stream and the queue only grow, except that a discard empties the queue, and it takes the
lease with it. So a tab that holds the lease uploads a command of the queue as it is
(`Uploads`), an answer stays true while it waits (`AnswerTrue`), and what is stored under
the lease is true. A tab that has lost its lease may be anywhere, which is why `Uploads` asks
for `Holds`. `ClearingIsAccounted` follows: only a discard takes commands from the phone, and
it is allowed only when all of them are acknowledged, so that by `AcksTrue` the server has
them, or when the export attested last is of just this queue; a command is then
acknowledged in it or counted as pending.

`QInv` is about the stored queue: it is what `loadOfflineReplaySnapshot` accepts, a completed
package is drained, and the tab that holds the lease uploads the first command without an
acknowledgement, because only it could have stored one and then it goes on to the next
(`AtFirst`). `ConflictsArePending` follows: a conflict is written under the lease. The
acknowledgement and the package's counter are written in one transaction, so they agree.

### Advancement

For any format: matches, seeds, sources, outcomes, number of versions. Assumed
(`FormatAssumption`): a side is seeded, ranked, or fed by another match, the pool's matches
are seeded, no two entries have the same order, and `None` is not one of the names.
`DivergenceIsRecorded` alone is not inductive. It needs that a waiting match follows the
results (`WaitingFollows`), that a side that is filled, or whose match is admitted, has a
feeder with a result (`FilledIsFed`, `AdmittedIsFed`), that a match with a result keeps its
participants, and about a recalculation in flight (`JobOK`): every match that waits now is
among those it read as waiting or awarded, and one among them that has started since still
had a decided feeder then (`ReadStillFollows`). The point of the argument: nobody can start
a match before its feeders have results, and while the job holds the publication row those
results do not change; so what the recalculation read without a lock as waiting may still be
written, or is what the row has already.

### Schedule jobs

For any numbers of jobs, slots, attempts, qualities, faults and operators' calls. Assumed:
`Attempts` is positive, the other bounds are numbers (`BoundsAssumption`,
`CallsAssumption`), `None` is neither a job nor a slot (`NoneAssumption`).

A row's fence names the processor that may write it; a processor that lost it, because it
was paused past the lease, has outdated variables and goes on. The invariant therefore
says something of a processor's variables only while it has the fence: that it knows the
row's result and is at a point of the handler from which the end it is about to write fits
that result (`Holding`). Of the others it says what they can still do, which is to leave
(`ProcFits`). Of the rows it says that the end fits the result, and that a
continuation with a result is not worse than its parent, whose result can no longer change
(`RowFits`). What an ended row has is final (`Lasting`), and every action is shown to be one
of a few kinds that respect it. `CompletedMeansEnded` joins the two halves: BullMQ completes a
job when its handler returns, which it does only when the row has ended, and no row leaves
its end.

### E-mail outbox

For any e-mails, workers, attempts and faults. Assumed: `MaxAttempts` is positive,
`MaxFaults` a number, `None` is neither an e-mail nor a worker.

A worker sends from a copy of the rows it claimed. `IInv` relates the two: as long as a
row bears the worker's token the copy has the row's attempts, and the e-mail is still to be
sent or in hand, unless the worker is going down with an error (`Tokened`). `CleanStop`
follows, and with it that a failure is counted once and by the holder of the token
(`AttemptsBounded`).

`ResentOnlyAfterFault` counts. Take the workers that may still send an e-mail
(`Senders`), the ones with the e-mail before them in a batch that is running, and whether the
row can be claimed once more without a fault (`Spare`). What was sent, the senders and the
spare are together never more than one and the faults (`SendingsCounted`): a claim turns
the spare into a sender, a sending turns a sender into what was sent, and what makes a row
claimable again while its e-mail may be out, a lapsed lease, a crash, a lost answer or a
failed write, is a fault.

### Only model-checked

* Liveness under fairness and `ENABLED` are out of the prover's reach:
  `AbandonedMatchLeavesPage`, `QueueDrains`, `EndsOrGivenUp`, `EveryEmailSettles`.
* `DeliveredInOrder`: its mapping filters the stream and the queue with `SelectSeq`, a
  built-in operator that the prover cannot unfold, and what it computes would need an
  induction over sequences.
* `CancellationStands` holds of one call of an operator, and that is what the run checks; with
  more calls a retry may follow the cancellation, by design. There is nothing to prove for
  all values of `MaxCalls`.

## Not modelled

* In `ScoringAccess`: tokens, PINs, codes and rate limits (an exchange is a correct one);
  the device's hash of its profile; audit rows; match cancellation; an answer lost by a
  handler other than an issue. Sequence numbers and idempotency keys belong to the ledger
  and the queue. No run has a viewer's pass or two passes of a match; the proofs do.
* In `ScoreLedger`: the five sport reducers and the standings (a score is its mark);
  receipts of repeated commands (they are in `OfflineQueue`); who may append.
* In `OfflineQueue`, `Advancement`, the jobs and the outbox: what their sections above name.
  Beyond that, the cancellation marker of a job that fails for good outlives it for up to
  24 hours (`durable-job-queue.ts` 198) and cancels its retry; the model has it, and no
  property forbids it.
* Accepting a schedule option and editing a schedule: one transaction each, that locks
  the schedule's row and compares versions.
* Result repair: each of its transactions computes a fingerprint of everything it rests on
  anew before it writes and refuses when it differs, so that interleavings end in a refusal.
  What is wrong with it (above) is wrong without any.
* Domain algorithms (formats, draws, constraint solver, sport packs, tie-breaks): sequential,
  with tests of their own. Identity, entitlements, administration, data rights:
  single-transaction reads and writes. Assisted setup, web, infrastructure: no protocol of
  their own. Together they are most of the repository's lines.

## Plan

Done: the modules above, the refinements `OneFencedWriter` (also proved) and
`DeliveredInOrder`, and the proofs of every safety invariant and action property that the
passing runs check, but for `CancellationStands`. Left, in this order:

1. Proofs: `DeliveredInOrder` for one tab, with a mapping that is a recursive function in
   place of `SelectSeq`, and an invariant about the requests that may still arrive.
2. `Repair`: cases superseded by another correction, with the fingerprint as a set of
   versions.
3. In `Advancement`: replaced entries, slots set by hand, ranks across groups.
