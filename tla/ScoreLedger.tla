---------------------------- MODULE ScoreLedger ----------------------------
(***************************************************************************)
(* What the matches of one competition have scored and what its public     *)
(* page shows of it: the canonical event streams, the result snapshots and *)
(* the competition-wide result version, the public projection, the overlay *)
(* of live scores, and the sweeper that takes abandoned matches off the    *)
(* page (apps/api/src/phase-2-runtime.ts, public-live-overlay.ts,          *)
(* competition-lifecycle-sweeper.ts and migrations 0006, 0029, 0070).      *)
(*                                                                         *)
(* A score is abstracted to its mark: the version of the event that last   *)
(* changed it.  Appending and reopening are single transactions under the  *)
(* lock of the match and are atomic.  A projection is built by a job: it   *)
(* lists the live matches, reads the stream version of each, then its      *)
(* events, in statements of their own (READ COMMITTED), while other        *)
(* matches go on, and commits everything at once.  A job that fails leaves *)
(* nothing behind, so only jobs that commit are started.                   *)
(*                                                                         *)
(* Time: "fresh" says that a timestamp is younger than the stale cut-off   *)
(* of 6 hours.                                                             *)
(***************************************************************************)
EXTENDS Naturals, FiniteSets

CONSTANTS
  Matches,     \* matches of the competition
  Upkeep,      \* job: schedule publication and the lifecycle sweeper
  Retry,       \* job: repeated request of a schedule publication
  Crossing,    \* jobs during which a match may cross the stale cut-off
  Lengths,     \* bounds on the events of the matches' streams, one of which holds
  MaxSchedule  \* bound on schedule publications

Jobs == Matches \cup {Upkeep, Retry}

ASSUME JobsAssumption ==
  /\ Upkeep \notin Matches /\ Retry \notin Matches /\ Upkeep # Retry
  /\ Crossing \subseteq Matches \cup {Upkeep}
ASSUME BoundsAssumption ==
  Lengths \subseteq [Matches -> Nat] /\ MaxSchedule \in Nat

VARIABLES
  stream,     \* matches.state and match_score_streams
  overlay,    \* public_live_match_scores
  result,     \* latest match_result_snapshots row of each match
  published,  \* competition_publications
  projection, \* the public_competition_projections row of these versions
  hidden,     \* matches whose overlay row is not after its cut-off
  seenStale,  \* matches that were stale already at its generated_at
  job         \* projections being built, by job

vars == <<stream, overlay, result, published, projection, hidden, seenStale, job>>

----------------------------------------------------------------------------
States == {"pending", "in_progress", "final", "corrected"}

StreamRow == [state : States, version : Nat, mark : Nat, fresh : BOOLEAN,
              last : {"none", "score", "match_reopened", "finalisation"}]
OverlayRow == [version : Nat, mark : Nat, fresh : BOOLEAN, behind : BOOLEAN]
ResultRow == [version : Nat, mark : Nat, state : {"none", "final", "corrected"}]
Entry == [kind : {"none", "in_progress", "final", "corrected"}, mark : Nat]
Read == [listed : Nat, version : Nat, mark : Nat,
         done : {"nothing", "version", "score"}]
Job == [kind : {"idle", "final", "corrected", "publish", "regenerate"},
        schedule : Nat, result : Nat, over : [Matches -> Entry], live : SUBSET Matches,
        old : SUBSET Matches, late : SUBSET Matches, read : [Matches -> Read]]

TypeOK ==
  /\ stream \in [Matches -> StreamRow]
  /\ overlay \in [Matches -> OverlayRow]
  /\ result \in [Matches -> ResultRow]
  /\ published \in [schedule : Nat, result : Nat]
  /\ projection \in [Matches -> Entry]
  /\ hidden \subseteq Matches
  /\ seenStale \subseteq Matches
  /\ job \in [Jobs -> Job]

Unread == [listed |-> 0, version |-> 0, mark |-> 0, done |-> "nothing"]
NoEntry == [kind |-> "none", mark |-> 0]
Idle == [kind |-> "idle", schedule |-> 0, result |-> 0,
         over |-> [m \in Matches |-> NoEntry], live |-> {}, old |-> {},
         late |-> {}, read |-> [m \in Matches |-> Unread]]

Init ==
  /\ stream = [m \in Matches |-> [state |-> "pending", version |-> 0,
                 mark |-> 0, fresh |-> FALSE, last |-> "none"]]
  /\ overlay = [m \in Matches |-> [version |-> 0, mark |-> 0,
                 fresh |-> FALSE, behind |-> FALSE]]
  /\ result = [m \in Matches |-> [version |-> 0, mark |-> 0, state |-> "none"]]
  /\ published = [schedule |-> 0, result |-> 0]
  /\ projection = [m \in Matches |-> NoEntry]
  /\ hidden = {} /\ seenStale = {}
  /\ job = [j \in Jobs |-> Idle]

----------------------------------------------------------------------------
(* What a visitor sees.                                                    *)

\* Live rows are overlaid on the stored projection by every reader.
Overlaid(m) ==
  /\ overlay[m].version > 0
  /\ stream[m].state = "in_progress"
  /\ published.schedule > 0
  /\ m \notin hidden

Shown(m) ==
  IF Overlaid(m) THEN [kind |-> "in_progress", mark |-> overlay[m].mark]
  ELSE projection[m]

----------------------------------------------------------------------------
(* One match: appending and reopening.                                     *)

Active(j) == job[j].kind # "idle"

\* A correction reopens the match, unless its last event does, applies a
\* command and finalises.
CorrectionLength(m) == IF stream[m].last = "match_reopened" THEN 2 ELSE 3

\* The length of a stream once the job of its match, if any, has committed.
Ahead(m) ==
  CASE job[m].kind = "final" -> stream[m].version + 1
    [] job[m].kind = "corrected" -> stream[m].version + CorrectionLength(m)
    [] OTHER -> stream[m].version

\* The bound: with n more events of m the streams are within one of Lengths.
Room(m, n) ==
  \E length \in Lengths :
    /\ stream[m].version + n <= length[m]
    /\ \A other \in Matches \ {m} : Ahead(other) <= length[other]

\* An overlay row is only replaced by one of the same or a later version.
Upsert(row, new) == IF row.version <= new.version THEN new ELSE row

\* The event stream moves on: the match is fresh, and a job whose cut-off
\* was computed before no longer finds its row old.
Append(m) ==
  LET v == stream[m].version + 1 IN
  /\ ~Active(m)
  /\ stream[m].state \in {"pending", "in_progress"} /\ Room(m, 1)
  /\ stream' = [stream EXCEPT ![m] = [state |-> "in_progress", version |-> v,
                  mark |-> v, fresh |-> TRUE, last |-> "score"]]
  /\ overlay' = [overlay EXCEPT ![m] = Upsert(@, [version |-> v, mark |-> v,
                  fresh |-> TRUE, behind |-> FALSE])]
  /\ hidden' = hidden \ {m} /\ seenStale' = seenStale \ {m}
  /\ job' = [j \in Jobs |-> [job[j] EXCEPT !.old = @ \ {m}]]
  /\ UNCHANGED <<result, published, projection>>

\* Neither the projection nor the overlay row is written.
Reopen(m) ==
  /\ ~Active(m)
  /\ stream[m].state \in {"final", "corrected"} /\ Room(m, 1)
  /\ stream' = [stream EXCEPT ![m].state = "in_progress", ![m].version = @ + 1,
                              ![m].fresh = TRUE, ![m].last = "match_reopened"]
  /\ overlay' = [overlay EXCEPT ![m].behind = TRUE]
  /\ seenStale' = seenStale \ {m}
  /\ UNCHANGED <<result, published, projection, hidden, job>>

----------------------------------------------------------------------------
(* Building a projection.                                                  *)

\* Fault: the publication row is read without a lock.
PublicationFreeUnlocked == ~Active(Upkeep)

\* SELECT ... FOR UPDATE on the competition's publication row.
PublicationFree == \A j \in Jobs \ {Retry} : ~Active(j)

\* Fault: the matches are listed before the state of the job's own is set.
LiveListBeforeState(j) ==
  {m \in Matches : stream[m].state = "in_progress" /\ stream[m].fresh}

\* The matches a projection shows as live, as the transaction of j sees them.
LiveList(j) ==
  {m \in Matches \ {j} : stream[m].state = "in_progress" /\ stream[m].fresh}

\* Fault: a match without a result is listed under a label of its own.
ResultsLabelled ==
  [m \in Matches |-> [kind |-> IF result[m].version = 0 THEN "scheduled" ELSE result[m].state,
                      mark |-> result[m].mark]]

\* The latest snapshot of every match up to the result version.
Results ==
  [m \in Matches |-> [kind |-> result[m].state, mark |-> result[m].mark]]

Begin(j, kind, schedule, rv) ==
  job' = [job EXCEPT ![j] =
    [kind |-> kind, schedule |-> schedule, result |-> rv, over |-> Results, live |-> LiveList(j),
     old |-> {m \in Matches : overlay[m].version > 0 /\ ~overlay[m].fresh},
     late |-> {}, read |-> [m \in Matches |->
       IF m \in LiveList(j) THEN [Unread EXCEPT !.listed = stream[m].version] ELSE Unread]]]

Unchanged == UNCHANGED <<stream, overlay, result, published, projection, hidden, seenStale>>

\* A draft competition has no public projection: nothing is finalised before
\* the first schedule publication.
BeginResult(m, kind) ==
  /\ PublicationFree
  /\ published.schedule > 0
  /\ Begin(m, kind, published.schedule, published.result + 1)
  /\ Unchanged

BeginFinalise(m) ==
  /\ stream[m].state = "in_progress" /\ Room(m, 1)
  /\ BeginResult(m, "final")

BeginCorrect(m) ==
  /\ \/ stream[m].state \in {"final", "corrected"}
     \/ stream[m].state = "in_progress" /\ stream[m].last = "match_reopened"
  /\ Room(m, CorrectionLength(m))
  /\ BeginResult(m, "corrected")

BeginPublishSchedule ==
  /\ PublicationFree
  /\ published.schedule < MaxSchedule
  /\ Begin(Upkeep, "publish", published.schedule + 1, published.result)
  /\ Unchanged

\* The sweeper selected the competition before it took the lock, or has just
\* completed it: whatever it saw then is not looked at again.
BeginRegenerate ==
  /\ PublicationFree
  /\ published.schedule > 0
  /\ Begin(Upkeep, "regenerate", published.schedule, published.result)
  /\ Unchanged

\* A publication repeated with its idempotency key rebuilds the projection
\* without locking the publication row.
BeginRetry ==
  /\ ~Active(Retry)
  /\ published.schedule > 0
  /\ Begin(Retry, "regenerate", published.schedule, published.result)
  /\ Unchanged

\* Fault: the events are read first.
ReadStepEventsFirst(j, m) ==
  LET r == job[j].read[m] IN
  /\ m \in job[j].live
  /\ \A n \in Matches \ {m} : job[j].read[n].done # "version"
  /\ \/ /\ r.done = "nothing"
        /\ job' = [job EXCEPT ![j].read[m] =
             [r EXCEPT !.mark = stream[m].mark, !.done = "version"]]
     \/ /\ r.done = "version"
        /\ job' = [job EXCEPT ![j].read[m] =
             [r EXCEPT !.version = stream[m].version, !.done = "score"]]
  /\ Unchanged

\* Match by match, the version of the stream, then its events.
ReadStep(j, m) ==
  LET r == job[j].read[m] IN
  /\ m \in job[j].live
  /\ \A n \in Matches \ {m} : job[j].read[n].done # "version"
  /\ \/ /\ r.done = "nothing"
        /\ job' = [job EXCEPT ![j].read[m] =
             [r EXCEPT !.version = stream[m].version, !.done = "version"]]
     \/ /\ r.done = "version"
        /\ job' = [job EXCEPT ![j].read[m] =
             [r EXCEPT !.mark = stream[m].mark, !.done = "score"]]
  /\ Unchanged

----------------------------------------------------------------------------
(* Committing it.                                                          *)

ReadAll(j) == \A m \in job[j].live : job[j].read[m].done = "score"

\* Fault: the projection of the competition is overwritten whatever the versions.
CurrentAlways(j) == TRUE

\* The row of a projection is found by its versions; a retry that was
\* overtaken writes one nobody reads.
Current(j) ==
  \/ j # Retry
  \/ job[j].schedule = published.schedule /\ job[j].result = published.result

\* Live rows as the job read them, with the time of the stream it listed.
Refreshed(j) == {m \in job[j].live : overlay[m].version <= job[j].read[m].version}

\* Fault: the cut-off of an existing row is not updated.
HiddenByFirstCutoff(j) == hidden \ Refreshed(j)

\* live_overlay_cutoff_at is the cut-off the projection was built with.
HiddenBy(j) == job[j].old \ Refreshed(j)

WriteProjection(j, over) ==
  /\ projection' = IF ~Current(j) THEN projection ELSE
       [m \in Matches |->
          IF m \in job[j].live
          THEN [kind |-> "in_progress", mark |-> job[j].read[m].mark]
          ELSE over[m]]
  /\ hidden' = IF Current(j) THEN HiddenBy(j) ELSE hidden \ Refreshed(j)
  /\ seenStale' = IF Current(j) THEN {m \in Matches : stream[m].version > 0 /\ ~stream'[m].fresh}
                  ELSE seenStale
  /\ overlay' = [m \in Matches |->
       IF m \in job[j].live
       THEN Upsert(overlay[m],
              [version |-> job[j].read[m].version, mark |-> job[j].read[m].mark,
               fresh |-> m \notin job[j].late,
               behind |-> stream[m].version > job[j].read[m].listed])
       ELSE IF m = j THEN [overlay[m] EXCEPT !.behind = TRUE] ELSE overlay[m]]
  /\ job' = [k \in Jobs |-> IF k = j THEN Idle
                            ELSE [job[k] EXCEPT !.old = @ \ Refreshed(j)]]

\* finaliseCanonical and correctCanonicalMatch commit event, stream,
\* snapshot, result version and projection together.
CommitResult(m) ==
  LET kind == job[m].kind
      v == stream[m].version + IF kind = "final" THEN 1 ELSE CorrectionLength(m)
  IN
  /\ kind \in {"final", "corrected"} /\ ReadAll(m)
  /\ \E mark \in {stream[m].mark} \cup IF kind = "final" THEN {} ELSE {v - 1} :
       /\ stream' = [stream EXCEPT ![m] = [state |-> kind, version |-> v,
                       mark |-> mark, fresh |-> TRUE, last |-> "finalisation"]]
       /\ result' = [result EXCEPT ![m] =
                       [version |-> job[m].result, mark |-> mark, state |-> kind]]
       /\ published' = [published EXCEPT !.result = job[m].result]
       /\ WriteProjection(m, [job[m].over EXCEPT ![m] = [kind |-> kind, mark |-> mark]])

CommitUpkeep(j) ==
  /\ job[j].kind \in {"publish", "regenerate"} /\ ReadAll(j)
  /\ published' = IF job[j].kind = "publish"
                  THEN [published EXCEPT !.schedule = job[j].schedule] ELSE published
  /\ UNCHANGED <<stream, result>>
  /\ WriteProjection(j, job[j].over)

----------------------------------------------------------------------------
(* Time.                                                                   *)

MayCross == \A j \in Jobs : Active(j) => j \in Crossing

\* Six hours without scoring; of a match that is over nobody asks.
GoStale(m) ==
  /\ MayCross
  /\ stream[m].state = "in_progress" /\ stream[m].fresh
  /\ stream' = [stream EXCEPT ![m].fresh = FALSE]
  /\ overlay' = [overlay EXCEPT ![m].fresh = FALSE]
  /\ job' = [j \in Jobs |-> IF m \in job[j].live
               THEN [job[j] EXCEPT !.late = @ \cup {m}] ELSE job[j]]
  /\ UNCHANGED <<result, published, projection, hidden, seenStale>>

\* The overlay row may be older than the stream: after a finalisation or a
\* reopening, or when a point was scored while the row was refreshed.
AgeOverlay(m) ==
  /\ MayCross
  /\ overlay[m].behind /\ overlay[m].fresh
  /\ overlay' = [overlay EXCEPT ![m].fresh = FALSE]
  /\ UNCHANGED <<stream, result, published, projection, hidden, seenStale, job>>

Next ==
  \/ \E m \in Matches :
       \/ Append(m) \/ Reopen(m) \/ GoStale(m) \/ AgeOverlay(m)
       \/ BeginFinalise(m) \/ BeginCorrect(m) \/ CommitResult(m)
  \/ BeginPublishSchedule \/ BeginRegenerate \/ BeginRetry
  \/ \E j \in Jobs, m \in Matches : ReadStep(j, m)
  \/ CommitUpkeep(Upkeep) \/ CommitUpkeep(Retry)

Spec == Init /\ [][Next]_vars

----------------------------------------------------------------------------
(* The sweeper runs every five minutes and a transaction that has begun    *)
(* ends: fairness for the sweep of a candidate and for every job begun.    *)

\* staleLiveCandidates
SweepCandidates ==
  {m \in Matches : /\ stream[m].state = "in_progress"
                   /\ ~stream[m].fresh
                   /\ m \notin seenStale}

Sweep == SweepCandidates # {} /\ BeginRegenerate

Fairness ==
  /\ WF_vars(Sweep)
  /\ \A j \in Jobs, m \in Matches : WF_vars(ReadStep(j, m))
  /\ \A m \in Matches : WF_vars(CommitResult(m))
  /\ WF_vars(CommitUpkeep(Upkeep)) /\ WF_vars(CommitUpkeep(Retry))

FairSpec == Spec /\ Fairness

----------------------------------------------------------------------------
(* Properties.                                                             *)

(***************************************************************************)
(* The page shows, of a match that is over, its latest snapshot, whoever   *)
(* wrote the projection last and whatever it had listed as live: another   *)
(* match's finalisation, the sweeper, or a repeated publication request    *)
(* that did not wait for the publication row.                              *)
(***************************************************************************)
PublicResultCurrent ==
  \A m \in Matches : stream[m].state \in {"final", "corrected"} =>
    Shown(m) = [kind |-> stream[m].state, mark |-> stream[m].mark]

(***************************************************************************)
(* While a match is being scored the page never shows an older score of it *)
(* as live, and shows it live until it is abandoned, although points take  *)
(* no lock a projection holds.                                             *)
(***************************************************************************)
LiveScoreCurrent ==
  \A m \in Matches :
    stream[m].last = "score" /\ published.schedule > 0 =>
      IF stream[m].fresh
      THEN Shown(m) = [kind |-> "in_progress", mark |-> stream[m].mark]
      ELSE Shown(m).kind = "in_progress" => Shown(m).mark = stream[m].mark

(***************************************************************************)
(* Every result has a competition-wide version of its own, though matches  *)
(* are finalised side by side under different advisory locks.              *)
(***************************************************************************)
ResultVersionsDistinct ==
  \A m, n \in Matches :
    m # n /\ result[m].version > 0 => result[m].version # result[n].version

(***************************************************************************)
(* ADR 0001 section 5: a published result changes only under a higher      *)
(* result version, and versions never go back.                             *)
(***************************************************************************)
ResultChangesWithVersion ==
  [][/\ published'.result >= published.result
     /\ \A m \in Matches :
          /\ Shown(m).kind \in {"final", "corrected"}
          /\ Shown(m)'.kind \in {"final", "corrected"}
          /\ Shown(m)' # Shown(m)
          => published'.result > published.result]_vars

(***************************************************************************)
(* An abandoned match does not stay "LIVE" for spectators: it leaves the   *)
(* page, unless it is scored, finalised or reopened first.                 *)
(***************************************************************************)
AbandonedMatchLeavesPage ==
  \A m \in Matches :
    stream[m].state = "in_progress" /\ ~stream[m].fresh
      ~> \/ Shown(m).kind # "in_progress"
         \/ stream[m].fresh \/ stream[m].state # "in_progress"

----------------------------------------------------------------------------
(* What the documents say and the code does not do.                        *)

(***************************************************************************)
(* The sweeper's comment: "A projection still shows a match live iff it    *)
(* was generated before that match crossed the stale cut-off."             *)
(***************************************************************************)
ShownLiveIsCandidate ==
  \A m \in Matches :
    /\ stream[m].state = "in_progress" /\ ~stream[m].fresh
    /\ Shown(m).kind = "in_progress"
    => m \in SweepCandidates
=============================================================================
