------------------------- MODULE ScoreLedgerProofs -------------------------
(***************************************************************************)
(* Proofs about ScoreLedger, for every competition, whatever the bounds,   *)
(* and even when matches cross the stale cut-off while projections are     *)
(* being built: the public page shows of a match that is over its latest   *)
(* result, of a match that is being scored never an older score, results   *)
(* have versions of their own and change under a higher one only.          *)
(*                                                                         *)
(* The inductive invariant relates what a job holds to the present: its    *)
(* results are the latest as long as the versions it builds for are, since *)
(* it holds the publication row or notices that it was overtaken; and what *)
(* it has read of a match is not older than an overlay row that it found   *)
(* old, since a point scored meanwhile makes that row young.               *)
(***************************************************************************)
EXTENDS ScoreLedger, TLAPS

Over(m) == stream[m].state \in {"final", "corrected"}
ResultEntry(m) == [kind |-> result[m].state, mark |-> result[m].mark]

\* All jobs but a retry hold the publication row.
Exclusive == \A i, j \in Jobs \ {Retry} : Active(i) /\ Active(j) => i = j

\* The snapshot of a match is the latest, and what is stored of it on the page.
ResultOK(m) ==
  /\ result[m].version <= published.result
  /\ Over(m) => result[m].state = stream[m].state /\ result[m].mark = stream[m].mark
  /\ Over(m) \/ projection[m].kind \in {"final", "corrected"} => projection[m] = ResultEntry(m)

\* The versions that a job builds for.
Due(j) ==
  /\ j \in Matches => /\ job[j].kind \in {"final", "corrected"}
                      /\ job[j].result = published.result + 1
  /\ j = Upkeep => /\ job[j].kind \in {"publish", "regenerate"}
                   /\ job[j].result = published.result
  /\ j = Retry => job[j].kind = "regenerate" /\ job[j].result <= published.result

\* A job that was not overtaken has the latest results, and lists no match as
\* live that is over.
Building(j) ==
  /\ Due(j)
  /\ j \notin job[j].live
  /\ j # Retry \/ job[j].result = published.result =>
       \A m \in Matches : /\ job[j].over[m] = ResultEntry(m)
                          /\ m # j /\ Over(m) => m \notin job[j].live

\* While a match is scored its overlay row has its score.  It is hidden only
\* when it is stale, and then the projection does not show it live either.
ScoreOK(m) ==
  /\ overlay[m].version <= stream[m].version
  /\ stream[m].last = "score" =>
       /\ stream[m].state = "in_progress" /\ stream[m].version > 0
       /\ overlay[m].version = stream[m].version /\ overlay[m].mark = stream[m].mark
       /\ m \in hidden => ~stream[m].fresh /\ projection[m].kind # "in_progress"

\* What a job has read of a match.  An overlay row that it found old and that
\* no point has touched since belongs to a match that it lists, if that is
\* fresh, and whose version it reads as it is.
ReadOK(j, m) ==
  /\ job[j].over[m].kind # "in_progress"
  /\ job[j].read[m].version <= stream[m].version
  /\ job[j].read[m].done = "score" /\ job[j].read[m].version = stream[m].version
       => job[j].read[m].mark = stream[m].mark
  /\ Active(j) /\ m # j /\ stream[m].last = "score" /\ m \in job[j].old =>
       /\ stream[m].fresh => m \in job[j].live
       /\ m \in job[j].live => \/ job[j].read[m].done = "nothing"
                               \/ job[j].read[m].version = stream[m].version

IInv ==
  /\ TypeOK /\ Exclusive /\ ResultVersionsDistinct
  /\ \A m \in Matches : ResultOK(m) /\ ScoreOK(m)
  /\ \A j \in Jobs : /\ Active(j) => Building(j)
                     /\ \A m \in Matches : ReadOK(j, m)

-----------------------------------------------------------------------------
(* What a step leaves as it is                                              *)

\* A job goes on as it was, but for rows it no longer finds old.
Keeps(j) ==
  /\ job'[j] \in Job
  /\ job'[j].kind = job[j].kind /\ job'[j].schedule = job[j].schedule
  /\ job'[j].result = job[j].result /\ job'[j].over = job[j].over
  /\ job'[j].live = job[j].live /\ job'[j].read = job[j].read
  /\ job'[j].old \subseteq job[j].old

\* A match is scored no further by the step, and does not become fresh again.
Rests(m) ==
  /\ stream'[m].version = stream[m].version /\ stream'[m].mark = stream[m].mark
  /\ stream'[m].last = stream[m].last /\ stream'[m].state = stream[m].state
  /\ stream'[m].fresh => stream[m].fresh

LEMMA SameJob ==
  ASSUME TypeOK, NEW j \in Jobs, job'[j] = job[j]
  PROVE  Keeps(j)
  BY DEF TypeOK, Keeps

LEMMA Entries ==
  ASSUME TypeOK, NEW m \in Matches
  PROVE  /\ stream[m] \in StreamRow /\ overlay[m] \in OverlayRow /\ result[m] \in ResultRow
         /\ projection[m] \in Entry /\ ResultEntry(m) \in Entry
         /\ ResultEntry(m).kind = result[m].state /\ ResultEntry(m).mark = result[m].mark
  BY DEF TypeOK, ResultEntry, ResultRow, Entry

LEMMA JobParts ==
  ASSUME TypeOK, NEW j \in Jobs
  PROVE  /\ job[j] \in Job
         /\ job[j].over \in [Matches -> Entry] /\ job[j].read \in [Matches -> Read]
         /\ job[j].live \subseteq Matches /\ job[j].old \subseteq Matches
         /\ job[j].schedule \in Nat /\ job[j].result \in Nat
         /\ job[j].kind \in {"idle", "final", "corrected", "publish", "regenerate"}
  BY DEF TypeOK, Job

\* A job that is kept still has the latest results when results stay, or when
\* it is a retry that another match's result overtakes.
LEMMA BuildingKept ==
  ASSUME IInv, NEW j \in Jobs, Keeps(j), Active(j),
         \/ /\ result' = result /\ published'.result = published.result
            /\ \A m \in Matches : Over(m)' => Over(m)
         \/ j = Retry /\ published'.result > published.result,
         published' \in [schedule : Nat, result : Nat]
  PROVE  Building(j)'
<1>1. Building(j) /\ job[j] \in Job /\ published \in [schedule : Nat, result : Nat]
  BY DEF IInv, TypeOK
<1>2. CASE /\ result' = result /\ published'.result = published.result
           /\ \A m \in Matches : Over(m)' => Over(m)
  <2>1. Due(j)'
    BY <1>1, <1>2 DEF Keeps, Building, Due
  <2>2. \A m \in Matches : ResultEntry(m)' = ResultEntry(m)
    BY <1>2 DEF ResultEntry
  <2>3. QED
    BY <1>1, <1>2, <2>1, <2>2 DEF Keeps, Building
<1>3. CASE j = Retry /\ published'.result > published.result
  <2>1. job'[j].result < published'.result /\ job'[j].result <= published'.result
    BY <1>1, <1>3, JobParts, JobsAssumption DEF Building, Due, Keeps, IInv
  <2>2. job'[j].result # published'.result
    BY <1>1, <2>1, JobParts DEF Keeps, IInv
  <2>3. QED
    BY <1>1, <1>3, <2>1, <2>2, JobsAssumption DEF Building, Due, Keeps
<1>4. QED
  BY <1>2, <1>3

\* What a kept job has read of a match stays good while the match rests, when
\* a point makes its row young, and when something else happens to it.
LEMMA ReadKept ==
  ASSUME IInv, NEW j \in Jobs, Keeps(j), NEW m \in Matches,
         stream' \in [Matches -> StreamRow],
         \/ Rests(m)
         \/ /\ stream'[m].version > stream[m].version
            /\ stream'[m].last # "score" \/ m \notin job'[j].old
  PROVE  ReadOK(j, m)'
<1>1. /\ ReadOK(j, m) /\ job[j] \in Job /\ job[j].read[m] \in Read
      /\ stream[m] \in StreamRow /\ stream'[m] \in StreamRow
  BY JobParts DEF IInv, TypeOK
<1>2. CASE Rests(m)
  BY <1>1, <1>2 DEF ReadOK, Keeps, Rests, Active
<1>3. CASE /\ stream'[m].version > stream[m].version
           /\ stream'[m].last # "score" \/ m \notin job'[j].old
  <2>1. job'[j].read[m].version < stream'[m].version
    BY <1>1, <1>3 DEF ReadOK, Keeps, Read, StreamRow
  <2>2. job'[j].read[m].version \in Nat /\ stream'[m].version \in Nat
    BY <1>1 DEF Keeps, Read, StreamRow
  <2>3. QED
    BY <1>1, <1>3, <2>1, <2>2 DEF ReadOK, Keeps
<1>4. QED
  BY <1>2, <1>3

-----------------------------------------------------------------------------
(* Scoring, reopening and time                                              *)

\* A step that leaves results and the projection alone.
LEMMA ResultKept ==
  ASSUME IInv, NEW m \in Matches, result' = result, published' = published,
         projection' = projection,
         Over(m)' => Over(m) /\ stream'[m].state = stream[m].state
                             /\ stream'[m].mark = stream[m].mark
  PROVE  ResultOK(m)'
<1>1. ResultOK(m)
  BY DEF IInv
<1>2. QED
  BY <1>1 DEF ResultOK, ResultEntry, Over

\* What remains to be shown of a step that leaves results, the publication
\* and the projection alone and starts no job.
LEMMA MatchStep ==
  ASSUME IInv, TypeOK', result' = result, published' = published, projection' = projection,
         \A j \in Jobs : Keeps(j),
         \A m \in Matches : Over(m)' => Over(m) /\ stream'[m].state = stream[m].state
                                                /\ stream'[m].mark = stream[m].mark,
         \A m \in Matches : ScoreOK(m)',
         \A m \in Matches : \/ Rests(m)
                            \/ /\ stream'[m].version > stream[m].version
                               /\ \/ stream'[m].last # "score"
                                  \/ \A j \in Jobs : m \notin job'[j].old
  PROVE  IInv'
<1>1. ASSUME NEW j \in Jobs PROVE Active(j)' <=> Active(j)
  BY DEF Keeps, Active
<1>2. Exclusive'
  BY <1>1 DEF IInv, Exclusive
<1>3. ResultVersionsDistinct'
  BY DEF IInv, ResultVersionsDistinct
<1>4. \A m \in Matches : ResultOK(m)'
  BY ResultKept
<1>5. ASSUME NEW j \in Jobs, Active(j)' PROVE Building(j)'
  BY <1>1, <1>5, BuildingKept DEF IInv, TypeOK
<1>6. stream' \in [Matches -> StreamRow]
  BY DEF TypeOK
<1>7. ASSUME NEW j \in Jobs, NEW m \in Matches PROVE ReadOK(j, m)'
  BY <1>6, ReadKept
<1>8. QED
  BY <1>2, <1>3, <1>4, <1>5, <1>7 DEF IInv

LEMMA AppendStep ==
  ASSUME IInv, NEW m \in Matches, Append(m)
  PROVE  IInv'
<1> DEFINE v == stream[m].version + 1
           r == [state |-> "in_progress", version |-> v, mark |-> v, fresh |-> TRUE,
                 last |-> "score"]
           o == [version |-> v, mark |-> v, fresh |-> TRUE, behind |-> FALSE]
<1>1. /\ stream[m] \in StreamRow /\ overlay[m] \in OverlayRow /\ ScoreOK(m) /\ TypeOK
  BY DEF IInv, TypeOK
<1>2. v \in Nat /\ v > 0 /\ v > stream[m].version /\ overlay[m].version <= v
  BY <1>1 DEF StreamRow, OverlayRow, ScoreOK
<1>3. r \in StreamRow /\ o \in OverlayRow
  BY <1>2 DEF StreamRow, OverlayRow, States
<1>4. stream' = [stream EXCEPT ![m] = r] /\ overlay' = [overlay EXCEPT ![m] = o]
  BY <1>1, <1>2 DEF Append, Upsert
<1> HIDE DEF v
<1>5. ASSUME NEW j \in Jobs PROVE Keeps(j) /\ m \notin job'[j].old
  <2>1. job'[j] = [job[j] EXCEPT !.old = @ \ {m}] /\ job[j] \in Job
    BY <1>1 DEF Append, TypeOK
  <2>2. QED
    BY <2>1 DEF Keeps, Job
<1>6. /\ result' = result /\ published' = published /\ projection' = projection
      /\ hidden' = hidden \ {m} /\ seenStale' = seenStale \ {m}
      /\ job' \in [Jobs -> Job]
  BY <1>5 DEF Append, Keeps
<1>7. TypeOK'
  BY <1>1, <1>3, <1>4, <1>6 DEF TypeOK
<1>8. stream'[m] = r /\ overlay'[m] = o /\ m \notin hidden'
  BY <1>1, <1>4, <1>6 DEF TypeOK
<1>9. ASSUME NEW n \in Matches \ {m}
      PROVE  stream'[n] = stream[n] /\ overlay'[n] = overlay[n] /\ (n \in hidden' <=> n \in hidden)
  BY <1>1, <1>4, <1>6 DEF TypeOK
<1>10. ASSUME NEW n \in Matches PROVE ScoreOK(n)'
  <2>1. CASE n = m
    BY <1>2, <1>8, <2>1 DEF ScoreOK
  <2>2. CASE n # m
    <3>1. ScoreOK(n)
      BY DEF IInv
    <3>2. QED
      BY <1>6, <1>9, <2>2, <3>1 DEF ScoreOK
  <2>3. QED
    BY <2>1, <2>2
<1>11. ASSUME NEW n \in Matches, Over(n)'
       PROVE  Over(n) /\ stream'[n].state = stream[n].state /\ stream'[n].mark = stream[n].mark
  BY <1>8, <1>9, <1>11 DEF Over
<1>12. ASSUME NEW n \in Matches
       PROVE  \/ Rests(n)
              \/ /\ stream'[n].version > stream[n].version
                 /\ \/ stream'[n].last # "score"
                    \/ \A j \in Jobs : n \notin job'[j].old
  <2>1. CASE n = m
    BY <1>2, <1>5, <1>8, <2>1
  <2>2. CASE n # m
    BY <1>9, <2>2 DEF Rests
  <2>3. QED
    BY <2>1, <2>2
<1>13. QED
  BY <1>5, <1>6, <1>7, <1>10, <1>11, <1>12, MatchStep

LEMMA ReopenStep ==
  ASSUME IInv, NEW m \in Matches, Reopen(m)
  PROVE  IInv'
<1>1. /\ stream[m] \in StreamRow /\ overlay[m] \in OverlayRow /\ ScoreOK(m) /\ TypeOK
  BY DEF IInv, TypeOK
<1>2. PICK r : /\ stream' = [stream EXCEPT ![m] = r]
               /\ r = [stream[m] EXCEPT !.state = "in_progress", !.version = @ + 1,
                                        !.fresh = TRUE, !.last = "match_reopened"]
  BY <1>1 DEF Reopen, TypeOK
<1>3. PICK o : overlay' = [overlay EXCEPT ![m] = o] /\ o = [overlay[m] EXCEPT !.behind = TRUE]
  BY <1>1 DEF Reopen, TypeOK
<1>4. /\ r \in StreamRow /\ r.version = stream[m].version + 1 /\ r.last = "match_reopened"
      /\ r.state = "in_progress"
      /\ o \in OverlayRow /\ o.version = overlay[m].version
  <2>1. stream[m].version + 1 \in Nat
    BY <1>1 DEF StreamRow
  <2>2. r \in StreamRow /\ r.version = stream[m].version + 1
    BY <1>1, <1>2, <2>1 DEF StreamRow, States
  <2>3. r.last = "match_reopened" /\ r.state = "in_progress"
    BY <1>1, <1>2 DEF StreamRow
  <2>4. o \in OverlayRow /\ o.version = overlay[m].version
    BY <1>1, <1>3 DEF OverlayRow
  <2>5. QED
    BY <2>2, <2>3, <2>4
<1>5. /\ result' = result /\ published' = published /\ projection' = projection
      /\ hidden' = hidden /\ seenStale' = seenStale \ {m} /\ job' = job
  BY DEF Reopen
<1>6. TypeOK'
  BY <1>1, <1>2, <1>3, <1>4, <1>5 DEF TypeOK
<1>7. stream'[m] = r /\ overlay'[m] = o
  BY <1>1, <1>2, <1>3 DEF TypeOK
<1>8. ASSUME NEW n \in Matches \ {m} PROVE stream'[n] = stream[n] /\ overlay'[n] = overlay[n]
  BY <1>1, <1>2, <1>3 DEF TypeOK
<1>9. ASSUME NEW n \in Matches PROVE ScoreOK(n)'
  <2>1. CASE n = m
    BY <1>1, <1>4, <1>7, <2>1 DEF ScoreOK, StreamRow, OverlayRow
  <2>2. CASE n # m
    <3>1. ScoreOK(n)
      BY DEF IInv
    <3>2. QED
      BY <1>5, <1>8, <2>2, <3>1 DEF ScoreOK
  <2>3. QED
    BY <2>1, <2>2
<1>10. ASSUME NEW n \in Matches, Over(n)'
       PROVE  Over(n) /\ stream'[n].state = stream[n].state /\ stream'[n].mark = stream[n].mark
  BY <1>4, <1>7, <1>8, <1>10 DEF Over
<1>11. ASSUME NEW n \in Matches
       PROVE  Rests(n) \/ (stream'[n].version > stream[n].version /\ stream'[n].last # "score")
  <2>1. CASE n = m
    BY <1>1, <1>4, <1>7, <2>1 DEF StreamRow
  <2>2. CASE n # m
    BY <1>8, <2>2 DEF Rests
  <2>3. QED
    BY <2>1, <2>2
<1>12. ASSUME NEW j \in Jobs PROVE Keeps(j)
  BY <1>1, <1>5, SameJob
<1>13. QED
  BY <1>5, <1>6, <1>9, <1>10, <1>11, <1>12, MatchStep

\* Time passes: a match, its overlay row or both become stale.
LEMMA TimeSteps ==
  ASSUME IInv, NEW m \in Matches, GoStale(m) \/ AgeOverlay(m)
  PROVE  IInv'
<1>1. /\ stream[m] \in StreamRow /\ overlay[m] \in OverlayRow /\ TypeOK
  BY DEF IInv, TypeOK
<1>2. PICK r : /\ stream' = [stream EXCEPT ![m] = r]
               /\ r = [stream[m] EXCEPT !.fresh = FALSE] \/ r = stream[m]
  <2>1. CASE GoStale(m)
    BY <1>1, <2>1 DEF GoStale, TypeOK
  <2>2. CASE AgeOverlay(m)
    BY <1>1, <2>2 DEF AgeOverlay, TypeOK
  <2>3. QED
    BY <2>1, <2>2
<1>3. PICK o : overlay' = [overlay EXCEPT ![m] = o] /\ o = [overlay[m] EXCEPT !.fresh = FALSE]
  BY <1>1 DEF GoStale, AgeOverlay, TypeOK
<1>4. /\ r \in StreamRow /\ r.version = stream[m].version /\ r.mark = stream[m].mark
      /\ r.last = stream[m].last /\ r.state = stream[m].state /\ (r.fresh => stream[m].fresh)
      /\ o \in OverlayRow /\ o.version = overlay[m].version /\ o.mark = overlay[m].mark
  BY <1>1, <1>2, <1>3 DEF StreamRow, OverlayRow
<1>5. ASSUME NEW j \in Jobs PROVE Keeps(j)
  <2>1. job'[j] = job[j] \/ (m \in job[j].live /\ job'[j] = [job[j] EXCEPT !.late = @ \cup {m}])
    BY <1>1 DEF GoStale, AgeOverlay, TypeOK
  <2>2. CASE job'[j] = job[j]
    BY <1>1, <2>2, SameJob
  <2>3. CASE job'[j] = [job[j] EXCEPT !.late = @ \cup {m}]
    BY <1>1, <2>3, JobParts DEF Keeps, Job
  <2>4. QED
    BY <2>1, <2>2, <2>3
<1>6. /\ result' = result /\ published' = published /\ projection' = projection
      /\ hidden' = hidden /\ seenStale' = seenStale
      /\ job' \in [Jobs -> Job]
  BY <1>1, <1>5 DEF GoStale, AgeOverlay, TypeOK, Keeps
<1>7. TypeOK'
  BY <1>1, <1>2, <1>3, <1>4, <1>6 DEF TypeOK
<1>8. stream'[m] = r /\ overlay'[m] = o
  BY <1>1, <1>2, <1>3 DEF TypeOK
<1>9. ASSUME NEW n \in Matches \ {m} PROVE stream'[n] = stream[n] /\ overlay'[n] = overlay[n]
  BY <1>1, <1>2, <1>3 DEF TypeOK
<1>10. ASSUME NEW n \in Matches PROVE ScoreOK(n)'
  <2>1. ScoreOK(n)
    BY DEF IInv
  <2>2. QED
    BY <1>4, <1>6, <1>8, <1>9, <2>1 DEF ScoreOK
<1>11. ASSUME NEW n \in Matches PROVE Rests(n)
  BY <1>4, <1>8, <1>9 DEF Rests
<1>12. ASSUME NEW n \in Matches, Over(n)'
       PROVE  Over(n) /\ stream'[n].state = stream[n].state /\ stream'[n].mark = stream[n].mark
  BY <1>11, <1>12 DEF Over, Rests
<1>13. QED
  BY <1>5, <1>6, <1>7, <1>10, <1>11, <1>12, MatchStep

-----------------------------------------------------------------------------
(* Building a projection                                                    *)

\* A step that touches nothing but one job.
LEMMA JobStep ==
  ASSUME IInv, NEW j \in Jobs, Unchanged, NEW J \in Job, job' = [job EXCEPT ![j] = J],
         Active(j)' => Building(j)', \A m \in Matches : ReadOK(j, m)',
         Active(j)' => \A k \in Jobs \ {j} : Active(k) => j = Retry \/ k = Retry
  PROVE  IInv'
<1>1. /\ stream' = stream /\ overlay' = overlay /\ result' = result /\ published' = published
      /\ projection' = projection /\ hidden' = hidden /\ seenStale' = seenStale /\ TypeOK
  BY DEF Unchanged, IInv
<1>2. TypeOK'
  BY <1>1 DEF TypeOK
<1>3. \A k \in Jobs \ {j} : job'[k] = job[k]
  BY <1>1 DEF TypeOK
<1>4. Exclusive'
  <2>1. ASSUME NEW k \in Jobs \ {j} PROVE Active(k)' <=> Active(k)
    BY <1>3 DEF Active
  <2>2. QED
    BY <2>1 DEF IInv, Exclusive
<1>5. ResultVersionsDistinct'
  BY <1>1 DEF IInv, ResultVersionsDistinct
<1>6. \A m \in Matches : ResultOK(m)' /\ ScoreOK(m)'
  BY <1>1 DEF IInv, ResultOK, ResultEntry, ScoreOK, Over
<1>7. ASSUME NEW k \in Jobs \ {j} PROVE Keeps(k)
  BY <1>1, <1>3, SameJob
<1>8. ASSUME NEW k \in Jobs, Active(k)' PROVE Building(k)'
  <2>1. CASE k = j
    BY <1>8, <2>1
  <2>2. CASE k # j
    <3>1. Keeps(k) /\ Active(k)
      BY <1>3, <1>7, <1>8, <2>2 DEF Active
    <3>2. \A m \in Matches : Over(m)' => Over(m)
      BY <1>1 DEF Over
    <3>3. QED
      BY <1>1, <3>1, <3>2, BuildingKept DEF TypeOK
  <2>3. QED
    BY <2>1, <2>2
<1>9. ASSUME NEW k \in Jobs, NEW m \in Matches PROVE ReadOK(k, m)'
  <2>1. CASE k = j
    BY <2>1
  <2>2. CASE k # j
    BY <1>1, <1>7, <2>2, ReadKept DEF Rests, TypeOK
  <2>3. QED
    BY <2>1, <2>2
<1>10. QED
  BY <1>2, <1>4, <1>5, <1>6, <1>8, <1>9 DEF IInv

LEMMA BeginStep ==
  ASSUME IInv, NEW j \in Jobs, ~Active(j), Unchanged,
         NEW kind \in {"final", "corrected", "publish", "regenerate"},
         NEW schedule \in Nat, NEW rv \in Nat, Begin(j, kind, schedule, rv),
         j \in Matches => kind \in {"final", "corrected"} /\ rv = published.result + 1,
         j \notin Matches => kind \in {"publish", "regenerate"} /\ rv = published.result,
         j = Retry => kind = "regenerate",
         j = Retry \/ PublicationFree
  PROVE  IInv'
<1> DEFINE read == [m \in Matches |-> IF m \in LiveList(j)
                                      THEN [Unread EXCEPT !.listed = stream[m].version]
                                      ELSE Unread]
           old == {m \in Matches : overlay[m].version > 0 /\ ~overlay[m].fresh}
           J == [kind |-> kind, schedule |-> schedule, result |-> rv, over |-> Results,
                 live |-> LiveList(j), old |-> old, late |-> {}, read |-> read]
<1>1. TypeOK /\ job' = [job EXCEPT ![j] = J] /\ job'[j] = J
  BY DEF Begin, IInv, TypeOK
<1>2. ASSUME NEW m \in Matches
      PROVE  /\ read[m] \in Read /\ read[m].version = 0 /\ read[m].done = "nothing"
             /\ Results[m] \in Entry /\ Results[m] = ResultEntry(m)
             /\ Results[m].kind # "in_progress"
  <2>1. stream[m].version \in Nat
    BY <1>1 DEF TypeOK, StreamRow
  <2>2. read[m] \in Read /\ read[m].version = 0 /\ read[m].done = "nothing"
    BY <2>1 DEF Unread, Read
  <2>3. /\ Results[m] \in Entry /\ Results[m] = ResultEntry(m)
        /\ Results[m].kind # "in_progress"
    BY <1>1 DEF Results, ResultEntry, Entry, TypeOK, ResultRow
  <2>4. QED
    BY <2>2, <2>3
<1>3. read \in [Matches -> Read] /\ Results \in [Matches -> Entry] /\ LiveList(j) \subseteq Matches
  <2>1. read = [m \in Matches |-> read[m]] /\ Results = [m \in Matches |-> Results[m]]
    BY DEF Results
  <2> HIDE DEF read
  <2>2. QED
    BY <1>2, <2>1 DEF LiveList
<1>4. J \in Job
  <2> HIDE DEF read
  <2>1. QED
    BY <1>3 DEF Job
<1>5. stream' = stream /\ result' = result /\ published' = published
  BY DEF Unchanged
<1> HIDE DEF read, J
<1>6. /\ job'[j].kind = kind /\ job'[j].result = rv /\ job'[j].over = Results
      /\ job'[j].live = LiveList(j) /\ job'[j].read = read
  BY <1>1 DEF J
<1>7. Building(j)'
  <2>1. Due(j)'
    <3>1. Upkeep \notin Matches /\ Retry \notin Matches /\ published.result \in Nat
      BY <1>1, JobsAssumption DEF TypeOK
    <3>2. QED
      BY <1>5, <1>6, <3>1 DEF Due, Jobs
  <2>2. j \notin LiveList(j)
    BY DEF LiveList
  <2>3. ASSUME NEW m \in Matches
        PROVE  /\ Results[m] = ResultEntry(m)' /\ (Over(m)' => m \notin LiveList(j))
    BY <1>2, <1>5 DEF LiveList, Over, ResultEntry
  <2>4. QED
    BY <1>6, <2>1, <2>2, <2>3 DEF Building
<1>8. ASSUME NEW m \in Matches PROVE ReadOK(j, m)'
  <2>1. stream[m].version \in Nat /\ ScoreOK(m)
    BY <1>1 DEF IInv, TypeOK, StreamRow
  <2>2. stream[m].last = "score" /\ stream[m].fresh /\ m # j => m \in LiveList(j)
    BY <2>1 DEF ScoreOK, LiveList
  <2>3. QED
    BY <1>2, <1>5, <1>6, <2>1, <2>2 DEF ReadOK
<1>9. ASSUME NEW k \in Jobs \ {j}, Active(k) PROVE j = Retry \/ k = Retry
  BY <1>9 DEF PublicationFree
<1>10. QED
  BY <1>1, <1>4, <1>7, <1>8, <1>9, JobStep

LEMMA BeginSteps ==
  ASSUME IInv,
         \/ \E m \in Matches : BeginFinalise(m) \/ BeginCorrect(m)
         \/ BeginPublishSchedule \/ BeginRegenerate \/ BeginRetry
  PROVE  IInv'
<1>1. /\ published.result \in Nat /\ published.schedule \in Nat
      /\ published.result + 1 \in Nat /\ published.schedule + 1 \in Nat
      /\ Upkeep \in Jobs /\ Retry \in Jobs /\ Matches \subseteq Jobs
      /\ Upkeep \notin Matches /\ Retry \notin Matches /\ Upkeep # Retry
  BY JobsAssumption DEF IInv, TypeOK, Jobs
<1>2. ASSUME NEW j \in Jobs \ {Retry}, PublicationFree PROVE ~Active(j)
  BY <1>2 DEF PublicationFree
<1>3. ASSUME NEW m \in Matches, BeginFinalise(m) \/ BeginCorrect(m) PROVE IInv'
  <2>1. PICK kind \in {"final", "corrected"} : BeginResult(m, kind)
    BY <1>3 DEF BeginFinalise, BeginCorrect
  <2>2. QED
    BY <1>1, <1>2, <2>1, BeginStep DEF BeginResult
<1>4. CASE BeginPublishSchedule
  BY <1>1, <1>2, <1>4, BeginStep DEF BeginPublishSchedule
<1>5. CASE BeginRegenerate
  BY <1>1, <1>2, <1>5, BeginStep DEF BeginRegenerate
<1>6. CASE BeginRetry
  BY <1>1, <1>6, BeginStep DEF BeginRetry
<1>7. QED
  BY <1>3, <1>4, <1>5, <1>6

\* The version of a match is read first, and then its score, which may be that
\* of a later version, or of the match's present one.
LEMMA ReadingStep ==
  ASSUME IInv, NEW j \in Jobs, NEW m \in Matches, ReadStep(j, m)
  PROVE  IInv'
<1> DEFINE r == job[j].read[m]
<1>1. /\ TypeOK /\ job[j] \in Job /\ job[j].read \in [Matches -> Read] /\ r \in Read
      /\ stream[m] \in StreamRow /\ m \in job[j].live
  BY JobParts DEF IInv, TypeOK, ReadStep
<1>2. stream' = stream /\ result' = result /\ published' = published /\ Unchanged
  BY DEF ReadStep, Unchanged
<1>3. PICK R \in Read :
        /\ job' = [job EXCEPT ![j].read[m] = R]
        /\ R.version <= stream[m].version
        /\ R.done = "score" /\ R.version = stream[m].version => R.mark = stream[m].mark
        /\ \/ r.done = "nothing" /\ R.version = stream[m].version
           \/ r.done = "version" /\ R.version = r.version
  <2>1. CASE r.done = "nothing"
    <3>1. PICK R : /\ job' = [job EXCEPT ![j].read[m] = R]
                   /\ R = [r EXCEPT !.version = stream[m].version, !.done = "version"]
      BY <2>1 DEF ReadStep
    <3>2. /\ R \in Read /\ R.version = stream[m].version /\ R.done = "version"
      BY <1>1, <3>1 DEF Read, StreamRow
    <3>3. stream[m].version <= stream[m].version
      BY <1>1 DEF StreamRow
    <3>4. QED
      BY <2>1, <3>1, <3>2, <3>3
  <2>2. CASE r.done = "version"
    <3>1. PICK R : /\ job' = [job EXCEPT ![j].read[m] = R]
                   /\ R = [r EXCEPT !.mark = stream[m].mark, !.done = "score"]
      BY <2>2 DEF ReadStep
    <3>2. R \in Read /\ R.version = r.version /\ R.mark = stream[m].mark
      BY <1>1, <3>1 DEF Read, StreamRow
    <3>3. r.version <= stream[m].version
      BY DEF IInv, ReadOK
    <3>4. QED
      BY <2>2, <3>1, <3>2, <3>3
  <2>3. QED
    BY <2>1, <2>2 DEF ReadStep
<1>4. PICK J : /\ job' = [job EXCEPT ![j] = J]
               /\ J = [job[j] EXCEPT !.read = [job[j].read EXCEPT ![m] = R]]
  BY <1>1, <1>3 DEF TypeOK
<1>5. /\ J \in Job /\ J.read = [job[j].read EXCEPT ![m] = R]
      /\ J.kind = job[j].kind /\ J.result = job[j].result /\ J.over = job[j].over
      /\ J.live = job[j].live /\ J.old = job[j].old
  BY <1>1, <1>4 DEF Job
<1>6. job'[j] = J
  BY <1>1, <1>4 DEF TypeOK
<1>7. Active(j)' <=> Active(j)
  BY <1>5, <1>6 DEF Active
<1>8. ASSUME Active(j)' PROVE Building(j)'
  <2>1. Building(j)
    BY <1>7, <1>8 DEF IInv
  <2>2. QED
    BY <1>2, <1>5, <1>6, <2>1 DEF Building, Due, ResultEntry, Over
<1>9. ASSUME NEW n \in Matches PROVE ReadOK(j, n)'
  <2>1. ReadOK(j, n)
    BY DEF IInv
  <2>2. CASE n = m
    <3>1. job'[j].read[n] = R
      BY <1>1, <1>5, <1>6, <2>2
    <3>2. QED
      BY <1>2, <1>3, <1>5, <1>6, <1>7, <2>1, <2>2, <3>1 DEF ReadOK
  <2>3. CASE n # m
    <3>1. job'[j].read[n] = job[j].read[n]
      BY <1>1, <1>5, <1>6, <2>3
    <3>2. QED
      BY <1>2, <1>5, <1>6, <1>7, <2>1, <3>1 DEF ReadOK
  <2>4. QED
    BY <2>2, <2>3
<1>10. ASSUME Active(j)', NEW k \in Jobs \ {j}, Active(k) PROVE j = Retry \/ k = Retry
  BY <1>7, <1>10 DEF IInv, Exclusive
<1>11. QED
  BY <1>2, <1>4, <1>5, <1>8, <1>9, <1>10, JobStep

-----------------------------------------------------------------------------
(* Committing it                                                            *)

LEMMA OverlayRows ==
  ASSUME NEW v \in Nat, NEW k \in Nat, NEW f \in BOOLEAN, NEW b \in BOOLEAN
  PROVE  /\ [version |-> v, mark |-> k, fresh |-> f, behind |-> b] \in OverlayRow
         /\ [version |-> v, mark |-> k, fresh |-> f, behind |-> b].version = v
         /\ [version |-> v, mark |-> k, fresh |-> f, behind |-> b].mark = k
  BY DEF OverlayRow

\* The overlay row of a match after a commit: as it was, or as the job read it.
LEMMA WrittenOverlay ==
  ASSUME IInv, NEW j \in Jobs, NEW over, WriteProjection(j, over), NEW m \in Matches
  PROVE  /\ overlay'[m] \in OverlayRow
         /\ \/ overlay'[m].version = overlay[m].version /\ overlay'[m].mark = overlay[m].mark
            \/ /\ m \in job[j].live /\ overlay[m].version <= job[j].read[m].version
               /\ overlay'[m].version = job[j].read[m].version
               /\ overlay'[m].mark = job[j].read[m].mark
<1>1. /\ overlay[m] \in OverlayRow /\ stream[m] \in StreamRow /\ job[j].read[m] \in Read
  BY JobParts DEF IInv, TypeOK
<1>2. job[j].read[m].version \in Nat /\ job[j].read[m].mark \in Nat
  BY <1>1 DEF Read
<1>3. CASE m \in job[j].live
  <2>1. PICK f \in BOOLEAN, b \in BOOLEAN :
          overlay'[m] = Upsert(overlay[m], [version |-> job[j].read[m].version,
                          mark |-> job[j].read[m].mark, fresh |-> f, behind |-> b])
    <3>1. /\ (m \notin job[j].late) \in BOOLEAN
          /\ (stream[m].version > job[j].read[m].listed) \in BOOLEAN
      OBVIOUS
    <3>2. overlay'[m] = Upsert(overlay[m], [version |-> job[j].read[m].version,
                          mark |-> job[j].read[m].mark, fresh |-> m \notin job[j].late,
                          behind |-> stream[m].version > job[j].read[m].listed])
      BY <1>3, Zenon DEF WriteProjection
    <3>3. QED
      BY <3>1, <3>2
  <2>2. PICK o \in OverlayRow : /\ overlay'[m] = Upsert(overlay[m], o)
                                /\ o.version = job[j].read[m].version
                                /\ o.mark = job[j].read[m].mark
    BY <1>2, <2>1, OverlayRows
  <2>3. QED
    BY <1>1, <1>3, <2>2 DEF Upsert
<1>4. CASE m \notin job[j].live
  <2>1. overlay'[m] = overlay[m] \/ overlay'[m] = [overlay[m] EXCEPT !.behind = TRUE]
    BY <1>4 DEF WriteProjection
  <2>2. QED
    BY <1>1, <2>1 DEF OverlayRow
<1>5. QED
  BY <1>3, <1>4

\* The job is done, and the others go on.
LEMMA WrittenJobs ==
  ASSUME IInv, NEW j \in Jobs, NEW over, WriteProjection(j, over)
  PROVE  /\ job' \in [Jobs -> Job] /\ job'[j] = Idle
         /\ \A k \in Jobs \ {j} : Keeps(k)
<1>1. Idle \in Job
  BY DEF Idle, Job, Entry, NoEntry, Read, Unread
<1>2. ASSUME NEW k \in Jobs \ {j} PROVE Keeps(k)
  <2>1. job'[k] = [job[k] EXCEPT !.old = @ \ Refreshed(j)] /\ job[k] \in Job
    BY DEF WriteProjection, IInv, TypeOK
  <2>2. QED
    BY <2>1 DEF Keeps, Job
<1>3. job'[j] = Idle /\ job' = [k \in Jobs |-> job'[k]]
  BY DEF WriteProjection
<1>4. QED
  BY <1>1, <1>2, <1>3 DEF Keeps

LEMMA WrittenTypes ==
  ASSUME IInv, NEW j \in Jobs, NEW over \in [Matches -> Entry], WriteProjection(j, over)
  PROVE  /\ overlay' \in [Matches -> OverlayRow] /\ projection' \in [Matches -> Entry]
         /\ hidden' \subseteq Matches /\ seenStale' \subseteq Matches
<1>1. overlay' \in [Matches -> OverlayRow]
  <2>1. overlay' = [m \in Matches |-> overlay'[m]]
    BY DEF WriteProjection
  <2>2. QED
    BY <2>1, WrittenOverlay
<1>2. projection' \in [Matches -> Entry]
  <2>1. CASE Current(j)
    <3>1. ASSUME NEW m \in Matches
          PROVE  [kind |-> "in_progress", mark |-> job[j].read[m].mark] \in Entry
      BY JobParts DEF IInv, Entry, Read
    <3>2. QED
      BY <2>1, <3>1 DEF WriteProjection
  <2>2. CASE ~Current(j)
    BY <2>2 DEF WriteProjection, IInv, TypeOK
  <2>3. QED
    BY <2>1, <2>2
<1>3. hidden' \subseteq Matches /\ seenStale' \subseteq Matches
  BY JobParts DEF WriteProjection, IInv, TypeOK, HiddenBy
<1>4. QED
  BY <1>1, <1>2, <1>3

\* A match that is scored while the projection of others is committed keeps
\* its score, and is hidden only when it is stale.
LEMMA WrittenScore ==
  ASSUME IInv, NEW j \in Jobs, Active(j), ReadAll(j), NEW over, WriteProjection(j, over),
         NEW m \in Matches, m # j, stream'[m] = stream[m], over[m] = job[j].over[m]
  PROVE  ScoreOK(m)'
<1>1. /\ ScoreOK(m) /\ ReadOK(j, m) /\ job[j].read[m] \in Read
      /\ overlay[m] \in OverlayRow /\ stream[m] \in StreamRow
      /\ job[j].old \subseteq Matches
  BY JobParts DEF IInv, TypeOK
<1>2. /\ job[j].read[m].version \in Nat /\ overlay[m].version \in Nat
      /\ stream[m].version \in Nat
  BY <1>1 DEF Read, OverlayRow, StreamRow
<1>3. m \in job[j].live => job[j].read[m].done = "score"
  BY DEF ReadAll
<1>4. overlay'[m].version <= stream[m].version
  BY <1>1, <1>2, WrittenOverlay DEF ScoreOK, ReadOK
<1>5. ASSUME stream[m].last = "score"
      PROVE  overlay'[m].version = stream[m].version /\ overlay'[m].mark = stream[m].mark
  BY <1>1, <1>2, <1>3, <1>5, WrittenOverlay DEF ScoreOK, ReadOK
<1>6. ASSUME stream[m].last = "score", m \in hidden'
      PROVE  ~stream[m].fresh /\ projection'[m].kind # "in_progress"
  <2>1. CASE Current(j)
    <3>1. m \in job[j].old /\ m \notin Refreshed(j)
      BY <1>6, <2>1 DEF WriteProjection, HiddenBy
    <3>2. m \notin job[j].live
      <4> SUFFICES ASSUME m \in job[j].live PROVE FALSE
        OBVIOUS
      <4>1. job[j].read[m].version = stream[m].version
        BY <1>1, <1>3, <1>6, <3>1 DEF ReadOK
      <4>2. overlay[m].version <= job[j].read[m].version
        BY <1>1, <1>2, <1>6, <4>1 DEF ScoreOK
      <4>3. QED
        BY <3>1, <4>2 DEF Refreshed
    <3>3. ~stream[m].fresh
      BY <1>1, <1>6, <3>1, <3>2 DEF ReadOK
    <3>4. projection'[m] = job[j].over[m]
      BY <2>1, <3>2 DEF WriteProjection
    <3>5. QED
      BY <1>1, <3>3, <3>4 DEF ReadOK
  <2>2. CASE ~Current(j)
    <3>1. m \in hidden /\ projection' = projection
      BY <1>6, <2>2 DEF WriteProjection
    <3>2. QED
      BY <1>1, <1>6, <3>1 DEF ScoreOK
  <2>3. QED
    BY <2>1, <2>2
<1>7. QED
  BY <1>1, <1>4, <1>5, <1>6 DEF ScoreOK

\* What a commit writes of the other matches' results is what they are.
LEMMA WrittenResult ==
  ASSUME IInv, NEW j \in Jobs, Active(j), NEW over, WriteProjection(j, over),
         NEW m \in Matches, m # j, stream'[m] = stream[m], over[m] = job[j].over[m],
         result'[m] = result[m], published'.result \in Nat,
         published'.result >= published.result
  PROVE  ResultOK(m)'
<1>1. /\ ResultOK(m) /\ result[m].version \in Nat /\ published.result \in Nat
  BY DEF IInv, TypeOK, ResultRow
<1>2. result'[m].version <= published'.result /\ ResultEntry(m)' = ResultEntry(m)
  BY <1>1 DEF ResultOK, ResultEntry
<1>3. Over(m)' <=> Over(m)
  BY DEF Over
<1>4. CASE Current(j)
  <2>1. job[j].over[m] = ResultEntry(m) /\ (Over(m) => m \notin job[j].live)
    BY <1>4 DEF Current, Building, IInv
  <2>2. projection'[m] = IF m \in job[j].live
                         THEN [kind |-> "in_progress", mark |-> job[j].read[m].mark]
                         ELSE job[j].over[m]
    BY <1>4 DEF WriteProjection
  <2>3. CASE m \in job[j].live
    <3>1. projection'[m].kind = "in_progress" /\ ~Over(m)
      BY <2>1, <2>2, <2>3
    <3>2. QED
      BY <1>1, <1>2, <1>3, <3>1 DEF ResultOK
  <2>4. CASE m \notin job[j].live
    BY <1>1, <1>2, <1>3, <2>1, <2>2, <2>4 DEF ResultOK
  <2>5. QED
    BY <2>3, <2>4
<1>5. CASE ~Current(j)
  <2>1. projection' = projection
    BY <1>5 DEF WriteProjection
  <2>2. QED
    BY <1>1, <1>2, <1>3, <2>1 DEF ResultOK
<1>6. QED
  BY <1>4, <1>5

\* The other jobs after a commit; the one that committed is idle.
LEMMA WrittenReads ==
  ASSUME IInv, NEW j \in Jobs, NEW over, WriteProjection(j, over),
         stream' \in [Matches -> StreamRow],
         \A m \in Matches : \/ stream'[m] = stream[m]
                            \/ /\ stream'[m].version > stream[m].version
                               /\ stream'[m].last # "score",
         NEW k \in Jobs, NEW m \in Matches
  PROVE  ReadOK(k, m)'
<1>1. CASE k # j
  <2>1. Keeps(k)
    BY <1>1, WrittenJobs
  <2>2. \/ Rests(m)
        \/ stream'[m].version > stream[m].version /\ stream'[m].last # "score"
    BY DEF Rests
  <2>3. QED
    BY <2>1, <2>2, ReadKept
<1>2. CASE k = j
  <2>1. job'[j] = Idle /\ stream'[m].version \in Nat
    BY WrittenJobs DEF StreamRow
  <2>2. QED
    BY <1>2, <2>1 DEF ReadOK, Active, Idle, Unread, NoEntry
<1>3. QED
  BY <1>1, <1>2

LEMMA UpkeepStep ==
  ASSUME IInv, NEW j \in {Upkeep, Retry}, CommitUpkeep(j)
  PROVE  IInv'
<1>1. /\ j \in Jobs /\ j \notin Matches /\ TypeOK /\ Active(j) /\ ReadAll(j)
      /\ WriteProjection(j, job[j].over)
      /\ job[j].over \in [Matches -> Entry] /\ job[j].schedule \in Nat
  BY JobParts, JobsAssumption DEF IInv, Jobs, Active, CommitUpkeep
<1>2. stream' = stream /\ result' = result
  BY DEF CommitUpkeep
<1>3. /\ published' \in [schedule : Nat, result : Nat] /\ published'.result = published.result
  BY <1>1 DEF CommitUpkeep, TypeOK
<1>4. TypeOK'
  BY <1>1, <1>2, <1>3, WrittenTypes, WrittenJobs DEF TypeOK
<1>5. ASSUME NEW k \in Jobs, Active(k)' PROVE k # j /\ Keeps(k) /\ Active(k)
  BY <1>1, <1>5, WrittenJobs DEF Active, Idle, Keeps
<1>6. Exclusive' /\ ResultVersionsDistinct'
  BY <1>2, <1>5 DEF IInv, Exclusive, ResultVersionsDistinct
<1>7. ASSUME NEW m \in Matches PROVE ResultOK(m)' /\ ScoreOK(m)'
  BY <1>1, <1>2, <1>3, WrittenResult, WrittenScore
<1>8. ASSUME NEW k \in Jobs, Active(k)' PROVE Building(k)'
  BY <1>2, <1>3, <1>5, <1>8, BuildingKept DEF Over
<1>9. ASSUME NEW k \in Jobs, NEW m \in Matches PROVE ReadOK(k, m)'
  BY <1>1, <1>2, WrittenReads DEF TypeOK
<1>10. QED
  BY <1>4, <1>6, <1>7, <1>8, <1>9 DEF IInv

\* Finalising and correcting: the snapshot, the result version and the
\* projection belong together.
LEMMA ResultStep ==
  ASSUME IInv, NEW j \in Matches, CommitResult(j)
  PROVE  IInv'
<1> DEFINE kind == job[j].kind
           v == stream[j].version + IF kind = "final" THEN 1 ELSE CorrectionLength(j)
<1>1. /\ j \in Jobs /\ TypeOK /\ Active(j) /\ ReadAll(j) /\ kind \in {"final", "corrected"}
      /\ job[j].over \in [Matches -> Entry] /\ j # Retry /\ j # Upkeep
  BY JobParts, JobsAssumption DEF IInv, Jobs, Active, CommitResult
<1>2. Building(j) /\ job[j].result = published.result + 1 /\ j \notin job[j].live
  BY <1>1 DEF IInv, Building, Due
<1>3. /\ stream[j].version \in Nat /\ stream[j].mark \in Nat /\ published.result \in Nat
      /\ v \in Nat /\ v > stream[j].version /\ v - 1 \in Nat
  BY <1>1 DEF TypeOK, StreamRow, CorrectionLength
<1> HIDE DEF v
<1>4. PICK mark \in Nat :
        /\ stream' = [stream EXCEPT ![j] = [state |-> kind, version |-> v, mark |-> mark,
                                            fresh |-> TRUE, last |-> "finalisation"]]
        /\ result' = [result EXCEPT ![j] = [version |-> job[j].result, mark |-> mark,
                                            state |-> kind]]
        /\ WriteProjection(j, [job[j].over EXCEPT ![j] = [kind |-> kind, mark |-> mark]])
  BY <1>3 DEF CommitResult, v
<1> DEFINE over == [job[j].over EXCEPT ![j] = [kind |-> kind, mark |-> mark]]
<1>5. /\ [state |-> kind, version |-> v, mark |-> mark, fresh |-> TRUE,
          last |-> "finalisation"] \in StreamRow
      /\ [version |-> job[j].result, mark |-> mark, state |-> kind] \in ResultRow
      /\ [kind |-> kind, mark |-> mark] \in Entry
  BY <1>1, <1>2, <1>3 DEF StreamRow, ResultRow, Entry, States
<1>6. /\ published' \in [schedule : Nat, result : Nat]
      /\ published'.result = published.result + 1
  BY <1>1, <1>2, <1>3 DEF CommitResult, TypeOK
<1>7. /\ stream' \in [Matches -> StreamRow] /\ result' \in [Matches -> ResultRow]
      /\ over \in [Matches -> Entry]
  BY <1>1, <1>4, <1>5 DEF TypeOK
<1>8. /\ stream'[j].state = kind /\ stream'[j].version = v /\ stream'[j].mark = mark
      /\ stream'[j].last = "finalisation"
      /\ result'[j].version = published'.result /\ result'[j].mark = mark
      /\ result'[j].state = kind /\ over[j] = [kind |-> kind, mark |-> mark]
  BY <1>1, <1>2, <1>4, <1>6 DEF TypeOK
<1>9. ASSUME NEW m \in Matches \ {j}
      PROVE  /\ stream'[m] = stream[m] /\ result'[m] = result[m] /\ over[m] = job[j].over[m]
  BY <1>1, <1>4 DEF TypeOK
<1> WriteProjection(j, over)
  BY <1>4
<1> HIDE DEF over, kind
<1>10. TypeOK'
  BY <1>1, <1>6, <1>7, WrittenTypes, WrittenJobs DEF TypeOK
<1>11. ASSUME NEW k \in Jobs, Active(k)' PROVE k = Retry /\ Keeps(k) /\ Active(k)
  <2>1. k # j /\ Keeps(k) /\ Active(k)
    BY <1>1, <1>11, WrittenJobs DEF Active, Idle, Keeps
  <2>2. QED
    BY <1>1, <2>1 DEF IInv, Exclusive
<1>12. Exclusive'
  BY <1>11 DEF Exclusive
<1>13. ResultVersionsDistinct'
  <2>1. ASSUME NEW m \in Matches \ {j}
        PROVE  /\ result'[m].version # result'[j].version /\ result'[m] = result[m]
    <3>1. result[m].version <= published.result /\ result[m].version \in Nat
      BY <1>1 DEF IInv, ResultOK, TypeOK, ResultRow
    <3>2. QED
      BY <1>3, <1>6, <1>8, <1>9, <3>1
  <2>2. QED
    BY <2>1 DEF IInv, ResultVersionsDistinct
<1>14. ASSUME NEW m \in Matches PROVE ResultOK(m)'
  <2>1. CASE m # j
    <3>1. published'.result \in Nat /\ published'.result >= published.result
      BY <1>3, <1>6
    <3>2. QED
      BY <1>1, <1>9, <2>1, <3>1, WrittenResult
  <2>2. CASE m = j
    <3>1. projection'[j] = over[j]
      BY <1>1, <1>2 DEF WriteProjection, Current
    <3>2. ResultEntry(j)' = [kind |-> kind, mark |-> mark]
      BY <1>8 DEF ResultEntry
    <3>3. result'[j].version <= published'.result
      BY <1>3, <1>6, <1>8
    <3>4. QED
      BY <1>8, <2>2, <3>1, <3>2, <3>3 DEF ResultOK
  <2>3. QED
    BY <2>1, <2>2
<1>15. ASSUME NEW m \in Matches PROVE ScoreOK(m)'
  <2>1. CASE m # j
    BY <1>1, <1>9, <2>1, WrittenScore
  <2>2. CASE m = j
    <3>1. /\ overlay'[j].version = overlay[j].version /\ overlay[j].version \in Nat
          /\ overlay[j].version <= stream[j].version
      BY <1>1, <1>2, WrittenOverlay DEF IInv, ScoreOK, TypeOK, OverlayRow
    <3>2. QED
      BY <1>3, <1>8, <2>2, <3>1 DEF ScoreOK
  <2>3. QED
    BY <2>1, <2>2
<1>16. ASSUME NEW k \in Jobs, Active(k)' PROVE Building(k)'
  BY <1>3, <1>6, <1>11, <1>16, BuildingKept
<1>17. ASSUME NEW k \in Jobs, NEW m \in Matches PROVE ReadOK(k, m)'
  <2>1. \A n \in Matches : \/ stream'[n] = stream[n]
                           \/ /\ stream'[n].version > stream[n].version
                              /\ stream'[n].last # "score"
    BY <1>3, <1>8, <1>9
  <2>2. QED
    BY <1>1, <1>7, <2>1, WrittenReads
<1>18. QED
  BY <1>10, <1>12, <1>13, <1>14, <1>15, <1>16, <1>17 DEF IInv

-----------------------------------------------------------------------------
(* The theorems                                                             *)

LEMMA Start0 == Init => IInv
<1> SUFFICES ASSUME Init PROVE IInv
  OBVIOUS
<1>1. Idle \in Job
  BY DEF Idle, Job, Entry, NoEntry, Read, Unread
<1>2. TypeOK
  BY <1>1 DEF Init, TypeOK, StreamRow, OverlayRow, ResultRow, Entry, NoEntry, States
<1>3. \A j \in Jobs : ~Active(j) /\ job[j] = Idle
  BY DEF Init, Active, Idle
<1>4. Exclusive /\ ResultVersionsDistinct
  BY <1>3 DEF Exclusive, Init, ResultVersionsDistinct
<1>5. \A m \in Matches : ResultOK(m) /\ ScoreOK(m)
  BY DEF Init, ResultOK, ScoreOK, Over, NoEntry
<1>6. \A j \in Jobs, m \in Matches : ReadOK(j, m)
  BY <1>3 DEF ReadOK, Init, Idle, NoEntry, Unread
<1>7. QED
  BY <1>2, <1>3, <1>4, <1>5, <1>6 DEF IInv

LEMMA Inductive == IInv /\ [Next]_vars => IInv'
<1> SUFFICES ASSUME IInv, [Next]_vars PROVE IInv'
  OBVIOUS
<1>1. ASSUME NEW m \in Matches, Append(m) \/ Reopen(m) \/ GoStale(m) \/ AgeOverlay(m)
      PROVE  IInv'
  BY <1>1, AppendStep, ReopenStep, TimeSteps
<1>2. ASSUME NEW m \in Matches, BeginFinalise(m) \/ BeginCorrect(m) PROVE IInv'
  BY <1>2, BeginSteps
<1>3. ASSUME NEW m \in Matches, CommitResult(m) PROVE IInv'
  BY <1>3, ResultStep
<1>4. CASE BeginPublishSchedule \/ BeginRegenerate \/ BeginRetry
  BY <1>4, BeginSteps
<1>5. ASSUME NEW j \in Jobs, NEW m \in Matches, ReadStep(j, m) PROVE IInv'
  BY <1>5, ReadingStep
<1>6. CASE CommitUpkeep(Upkeep) \/ CommitUpkeep(Retry)
  BY <1>6, UpkeepStep
<1>7. CASE UNCHANGED vars
  BY <1>7 DEF vars, IInv, TypeOK, Exclusive, ResultVersionsDistinct, ResultOK, ScoreOK, ReadOK,
              Building, Due, Over, ResultEntry, Active
<1>8. QED
  BY <1>1, <1>2, <1>3, <1>4, <1>5, <1>6, <1>7 DEF Next

\* Jobs, results and the page agree in every reachable state.
THEOREM LedgerHolds == Spec => []IInv
<1>1. Init => IInv
  BY Start0
<1>2. IInv /\ [Next]_vars => IInv'
  BY Inductive
<1>3. QED
  BY <1>1, <1>2, PTL DEF Spec

\* The ledger, the page and the jobs have their types.
THEOREM LedgerTypes == Spec => []TypeOK
<1>1. IInv => TypeOK
  BY DEF IInv
<1>2. QED
  BY <1>1, LedgerHolds, PTL

\* Of a match that is over the page shows the latest snapshot, whoever wrote
\* the projection last.
THEOREM PageShowsLatestResult == Spec => []PublicResultCurrent
<1>1. IInv => PublicResultCurrent
  <2> SUFFICES ASSUME IInv, NEW m \in Matches, Over(m)
               PROVE  Shown(m) = [kind |-> stream[m].state, mark |-> stream[m].mark]
    BY DEF PublicResultCurrent, Over
  <2>1. ~Overlaid(m)
    BY DEF Overlaid, Over
  <2>2. /\ projection[m] = ResultEntry(m)
        /\ result[m].state = stream[m].state /\ result[m].mark = stream[m].mark
    BY DEF IInv, ResultOK
  <2>3. QED
    BY <2>1, <2>2 DEF Shown, ResultEntry
<1>2. QED
  BY <1>1, LedgerHolds, PTL

\* Of a match that is being scored the page shows the score, or, when the
\* match is stale, the score or nothing live.
THEOREM PageShowsLatestScore == Spec => []LiveScoreCurrent
<1>1. IInv => LiveScoreCurrent
  <2> SUFFICES ASSUME IInv, NEW m \in Matches, stream[m].last = "score", published.schedule > 0
               PROVE  IF stream[m].fresh
                      THEN Shown(m) = [kind |-> "in_progress", mark |-> stream[m].mark]
                      ELSE Shown(m).kind = "in_progress" => Shown(m).mark = stream[m].mark
    BY DEF LiveScoreCurrent
  <2>1. /\ stream[m].state = "in_progress" /\ overlay[m].version > 0
        /\ overlay[m].mark = stream[m].mark
        /\ m \in hidden => ~stream[m].fresh /\ projection[m].kind # "in_progress"
    BY DEF IInv, ScoreOK
  <2>2. CASE m \notin hidden
    <3>1. Shown(m) = [kind |-> "in_progress", mark |-> stream[m].mark]
      BY <2>1, <2>2 DEF Shown, Overlaid
    <3>2. QED
      BY <3>1
  <2>3. CASE m \in hidden
    BY <2>1, <2>3 DEF Shown, Overlaid
  <2>4. QED
    BY <2>2, <2>3
<1>2. QED
  BY <1>1, LedgerHolds, PTL

\* No two results of a competition have the same version.
THEOREM VersionsOfResultsDistinct == Spec => []ResultVersionsDistinct
<1>1. IInv => ResultVersionsDistinct
  BY DEF IInv
<1>2. QED
  BY <1>1, LedgerHolds, PTL

\* What changes results changes the result version.
LEMMA VersionGrows ==
  ASSUME IInv, [Next]_vars
  PROVE  /\ published.result \in Nat
         /\ \/ result' = result /\ published'.result = published.result
            \/ published'.result = published.result + 1
<1>1. published.result \in Nat /\ TypeOK
  BY DEF IInv, TypeOK
<1>2. CASE \/ \E m \in Matches : Append(m) \/ Reopen(m) \/ GoStale(m) \/ AgeOverlay(m)
           \/ UNCHANGED vars
  BY <1>1, <1>2 DEF Append, Reopen, GoStale, AgeOverlay, vars
<1>3. CASE \/ \E m \in Matches : BeginFinalise(m) \/ BeginCorrect(m)
           \/ BeginPublishSchedule \/ BeginRegenerate \/ BeginRetry
           \/ \E j \in Jobs, m \in Matches : ReadStep(j, m)
  BY <1>1, <1>3 DEF BeginFinalise, BeginCorrect, BeginResult, BeginPublishSchedule,
                    BeginRegenerate, BeginRetry, ReadStep, Unchanged
<1>4. ASSUME NEW j \in {Upkeep, Retry}, CommitUpkeep(j)
      PROVE  result' = result /\ published'.result = published.result
  BY <1>1, <1>4 DEF CommitUpkeep, TypeOK
<1>5. ASSUME NEW m \in Matches, CommitResult(m)
      PROVE  published'.result = published.result + 1
  <2>1. Due(m) /\ published' = [published EXCEPT !.result = job[m].result]
    BY <1>5 DEF CommitResult, IInv, Building, Active, Jobs
  <2>2. QED
    BY <1>1, <2>1 DEF Due, TypeOK
<1>6. QED
  BY <1>1, <1>2, <1>3, <1>4, <1>5 DEF Next

\* A result on the page changes under a higher result version only, and the
\* version never goes back.
THEOREM ResultsChangeUnderVersion == Spec => ResultChangesWithVersion
<1>1. ASSUME IInv, IInv', [Next]_vars
      PROVE  /\ published'.result >= published.result
             /\ \A m \in Matches :
                  /\ Shown(m).kind \in {"final", "corrected"}
                  /\ Shown(m)'.kind \in {"final", "corrected"}
                  /\ Shown(m)' # Shown(m)
                  => published'.result > published.result
  <2>1. CASE published'.result = published.result + 1
    BY <1>1, <2>1, VersionGrows
  <2>2. CASE result' = result /\ published'.result = published.result
    <3>1. ASSUME NEW m \in Matches, Shown(m).kind \in {"final", "corrected"}
          PROVE  Shown(m) = ResultEntry(m)
      BY <1>1, <3>1 DEF IInv, ResultOK, Shown
    <3>2. ASSUME NEW m \in Matches, Shown(m)'.kind \in {"final", "corrected"}
          PROVE  Shown(m)' = ResultEntry(m)'
      BY <1>1, <3>2 DEF IInv, ResultOK, Shown
    <3>3. \A m \in Matches : ResultEntry(m)' = ResultEntry(m)
      BY <2>2 DEF ResultEntry
    <3>4. published'.result >= published.result
      BY <1>1, <2>2, VersionGrows
    <3>5. QED
      BY <3>1, <3>2, <3>3, <3>4
  <2>3. QED
    BY <1>1, <2>1, <2>2, VersionGrows
<1>2. IInv /\ IInv' /\ [Next]_vars =>
        [/\ published'.result >= published.result
         /\ \A m \in Matches :
              /\ Shown(m).kind \in {"final", "corrected"}
              /\ Shown(m)'.kind \in {"final", "corrected"}
              /\ Shown(m)' # Shown(m)
              => published'.result > published.result]_vars
  BY <1>1
<1>3. QED
  BY <1>2, LedgerHolds, PTL DEF Spec, ResultChangesWithVersion

=============================================================================
