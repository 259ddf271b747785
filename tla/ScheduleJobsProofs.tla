------------------------- MODULE ScheduleJobsProofs -------------------------
(***************************************************************************)
(* Proofs about ScheduleJobs and the queue it extends, for any number of   *)
(* jobs, slots, attempts, faults and operators' calls: a row's result only *)
(* improves, beside its parent's too, it ends as its result says, and what *)
(* the queue counts as completed has ended.                                *)
(*                                                                         *)
(* The inductive invariant says what a processor that holds the fence of   *)
(* its row knows of the row.  A processor that does not may have outdated  *)
(* variables; the database functions refuse what it writes.                *)
(***************************************************************************)
EXTENDS ScheduleJobs, TLAPS

JobRow == [state : {"none", "removed", "waiting", "delayed", "active", "completed", "failed"},
           made : Nat, stalls : 0..1, owner : Workers \cup {None}]
Slot == {Idle} \cup [pc : {"check", "run"}, job : Jobs]
Kinds == {"clear", "file", "hook"}
Event == [kind : Kinds, job : Jobs]
CallRow == {NoCall} \cup [pc : {"mark", "remove", "retry", "drop"}, job : Jobs]
Row == [status : Active \cup Ended \cup {"none"}, parent : Jobs \cup {None},
        asked : BOOLEAN, fence : Workers \cup {None}, live : BOOLEAN, best : 0..MaxQuality]

-----------------------------------------------------------------------------
(* The queue                                                                *)

\* No job completes by the step.
NoneCompletes == \A j \in Jobs : job'[j].state = "completed" => job[j].state = "completed"

LEMMA QueueParts ==
  ASSUME QueueTypeOK
  PROVE  /\ job \in [Jobs -> JobRow] /\ worker \in [Workers -> Slot]
         /\ events \in [Workers -> SUBSET Event] /\ call \in CallRow
         /\ dead \subseteq Jobs /\ marker \subseteq Jobs /\ calls \in 0..MaxCalls
  BY DEF QueueTypeOK, JobRow, Slot, Event, Kinds, CallRow

\* One job changes, or none.
LEMMA JobChange ==
  ASSUME QueueTypeOK, NEW j \in Jobs, NEW r \in JobRow, job' = [job EXCEPT ![j] = r],
         r.state = "completed" => job[j].state = "completed"
  PROVE  job' \in [Jobs -> JobRow] /\ NoneCompletes
  BY QueueParts DEF NoneCompletes

LEMMA JobsSame ==
  ASSUME QueueTypeOK, job' = job
  PROVE  job' \in [Jobs -> JobRow] /\ NoneCompletes
  BY QueueParts DEF NoneCompletes

\* Adding a reference, delays that end, and locks that lapse.
LEMMA ReferenceSteps ==
  ASSUME QueueTypeOK, NEW j \in Jobs, Enqueue(j) \/ Promote(j) \/ Stall(j)
  PROVE  QueueTypeOK' /\ worker' = worker /\ NoneCompletes
<1>1. job \in [Jobs -> JobRow] /\ job[j] \in JobRow
  BY QueueParts
<1>2. job' \in [Jobs -> JobRow] /\ NoneCompletes
  <2>1. CASE Enqueue(j)
    <3>1. [NoJob EXCEPT !.state = "waiting"] \in JobRow
      BY DEF NoJob, JobRow
    <3>2. [NoJob EXCEPT !.state = "waiting"].state = "waiting"
      BY DEF NoJob
    <3>3. QED
      BY <2>1, <3>1, <3>2, JobChange, JobsSame DEF Enqueue, Added
  <2>2. CASE Promote(j)
    <3>1. PICK r : job' = [job EXCEPT ![j] = r] /\ r = [job[j] EXCEPT !.state = "waiting"]
      BY <1>1, <2>2 DEF Promote
    <3>2. r \in JobRow /\ r.state = "waiting"
      BY <1>1, <3>1 DEF JobRow
    <3>3. QED
      BY <3>1, <3>2, JobChange
  <2>3. CASE Stall(j)
    <3>1. PICK r : /\ job' = [job EXCEPT ![j] = r]
                   /\ \/ r = [job[j] EXCEPT !.state = "waiting", !.stalls = 1, !.owner = None]
                      \/ r = [job[j] EXCEPT !.state = "failed", !.owner = None]
      BY <1>1, <2>3 DEF Stall
    <3>2. CASE r = [job[j] EXCEPT !.state = "waiting", !.stalls = 1, !.owner = None]
      <4>1. r \in JobRow /\ r.state = "waiting"
        <5>1. 1 \in 0..1 /\ None \in Workers \cup {None}
          OBVIOUS
        <5>2. QED
          BY <1>1, <3>2, <5>1 DEF JobRow
      <4>2. QED
        BY <3>1, <4>1, JobChange
    <3>3. CASE r = [job[j] EXCEPT !.state = "failed", !.owner = None]
      <4>1. r \in JobRow /\ r.state = "failed"
        BY <1>1, <3>3 DEF JobRow
      <4>2. QED
        BY <3>1, <4>1, JobChange
    <3>4. QED
      BY <3>1, <3>2, <3>3
  <2>4. QED
    BY <2>1, <2>2, <2>3
<1>3. UNCHANGED <<dead, marker, worker, events, call, calls>>
  BY DEF Enqueue, Promote, Stall
<1>4. QED
  BY <1>2, <1>3 DEF QueueTypeOK, JobRow

\* The event handlers.
LEMMA HandlerSteps ==
  ASSUME QueueTypeOK, NEW w \in Workers, NEW j \in Jobs,
         \/ ClearMarker(w, j) \/ MoveToDeadLetter(w, j)
         \/ Handled(w, "hook", j) /\ UNCHANGED <<job, dead, marker, worker, call, calls>>
  PROVE  QueueTypeOK' /\ worker' = worker /\ NoneCompletes
<1>1. job' = job /\ worker' = worker /\ call' = call /\ calls' = calls
  BY DEF ClearMarker, MoveToDeadLetter
<1>2. dead' \subseteq Jobs /\ marker' \subseteq Jobs
  BY QueueParts DEF ClearMarker, MoveToDeadLetter
<1>3. events' \in [Workers -> SUBSET Event]
  <2>1. [kind |-> "hook", job |-> j] \in Event
    BY DEF Event, Kinds
  <2>2. QED
    BY <2>1, QueueParts DEF ClearMarker, MoveToDeadLetter, Handled
<1>4. QED
  BY <1>1, <1>2, <1>3, JobsSame DEF QueueTypeOK, Event, Kinds

\* An operator's calls.
LEMMA OperatorSteps ==
  ASSUME QueueTypeOK, Operator
  PROVE  QueueTypeOK' /\ worker' = worker /\ NoneCompletes
<1>1. /\ job \in [Jobs -> JobRow] /\ call \in CallRow /\ dead \subseteq Jobs
      /\ marker \subseteq Jobs /\ calls \in 0..MaxCalls
  BY QueueParts
<1>2. worker' = worker /\ events' = events
  BY DEF Operator, Cancel, RetryDeadLetter, Call, SetMarker, RemoveJob, RetryJob, DropDeadLetter
<1>3. call.pc # "none" => call \in [pc : {"mark", "remove", "retry", "drop"}, job : Jobs]
  BY <1>1 DEF CallRow, NoCall
<1>4. ASSUME NEW j \in Jobs, Cancel(j) \/ RetryDeadLetter(j)
      PROVE  /\ job' = job /\ dead' = dead /\ marker' = marker
             /\ call' \in CallRow /\ calls' \in 0..MaxCalls
  <2>1. PICK pc \in {"mark", "remove", "retry"} : Call(pc, j)
    BY <1>4 DEF Cancel, RetryDeadLetter
  <2>2. [pc |-> pc, job |-> j] \in CallRow
    BY DEF CallRow
  <2>3. calls + 1 \in 0..MaxCalls
    BY <1>1, <2>1, CallsAssumption DEF Call
  <2>4. QED
    BY <2>1, <2>2, <2>3 DEF Call
<1>5. CASE SetMarker
  BY <1>1, <1>2, <1>3, <1>5, JobsSame DEF SetMarker, QueueTypeOK, NoCall
<1>6. CASE RemoveJob
  <2>1. call.job \in Jobs
    BY <1>3, <1>6 DEF RemoveJob
  <2>2. /\ [NoJob EXCEPT !.state = "removed"] \in JobRow
        /\ [NoJob EXCEPT !.state = "removed"].state = "removed"
    BY DEF NoJob, JobRow
  <2>3. job' \in [Jobs -> JobRow] /\ NoneCompletes
    BY <1>6, <2>1, <2>2, JobChange, JobsSame DEF RemoveJob
  <2>4. QED
    BY <1>1, <1>2, <1>6, <2>3 DEF RemoveJob, QueueTypeOK, NoCall, JobRow
<1>7. CASE RetryJob
  <2>1. call.job \in Jobs /\ call \in [pc : {"mark", "remove", "retry", "drop"}, job : Jobs]
    BY <1>3, <1>7 DEF RetryJob
  <2>2. CASE job[call.job].state = "failed"
    <3>1. PICK r : /\ job' = [job EXCEPT ![call.job] = r]
                   /\ r = [job[call.job] EXCEPT !.state = "waiting"]
      BY <1>1, <1>7, <2>1, <2>2 DEF RetryJob
    <3>2. r \in JobRow /\ r.state = "waiting"
      BY <1>1, <2>1, <3>1 DEF JobRow
    <3>3. job' \in [Jobs -> JobRow] /\ NoneCompletes
      BY <2>1, <3>1, <3>2, JobChange
    <3>4. call' \in CallRow
      BY <1>7, <2>1, <2>2 DEF RetryJob, CallRow
    <3>5. QED
      BY <1>1, <1>2, <1>7, <3>3, <3>4 DEF RetryJob, QueueTypeOK, JobRow, CallRow
  <2>3. CASE job[call.job].state # "failed"
    BY <1>1, <1>2, <1>7, <2>3, JobsSame DEF RetryJob, QueueTypeOK, JobRow, CallRow
  <2>4. QED
    BY <2>2, <2>3
<1>8. CASE DropDeadLetter
  BY <1>1, <1>2, <1>8, JobsSame DEF DropDeadLetter, QueueTypeOK, NoCall
<1>9. QED
  BY <1>1, <1>2, <1>4, <1>5, <1>6, <1>7, <1>8, JobsSame DEF Operator, QueueTypeOK, CallRow

LEMMA BackgroundSteps ==
  ASSUME QueueTypeOK, Background
  PROVE  QueueTypeOK' /\ worker' = worker /\ NoneCompletes
  BY ReferenceSteps, HandlerSteps, OperatorSteps DEF Background

\* Only the slot's worker changes.
LEMMA SlotChange ==
  ASSUME QueueTypeOK, NEW w \in Workers, NEW s \in Slot, worker' = [worker EXCEPT ![w] = s]
  PROVE  /\ worker' \in [Workers -> Slot] /\ worker'[w] = s
         /\ \A v \in Workers \ {w} : worker'[v] = worker[v]
  BY QueueParts

LEMMA TakeSteps ==
  ASSUME QueueTypeOK, NEW w \in Workers, NEW j \in Jobs, Take(w, j)
  PROVE  /\ QueueTypeOK' /\ NoneCompletes /\ worker[w] = Idle
         /\ worker'[w] = [pc |-> "check", job |-> j]
         /\ \A v \in Workers \ {w} : worker'[v] = worker[v]
<1>1. job \in [Jobs -> JobRow] /\ job[j] \in JobRow /\ worker[w] \in Slot
  BY QueueParts
<1>2. PICK r : job' = [job EXCEPT ![j] = r] /\ r = [job[j] EXCEPT !.state = "active", !.owner = w]
  BY <1>1 DEF Take
<1>3. r \in JobRow /\ r.state = "active"
  BY <1>1, <1>2 DEF JobRow
<1>4. job' \in [Jobs -> JobRow] /\ NoneCompletes
  BY <1>2, <1>3, JobChange
<1>5. [pc |-> "check", job |-> j] \in Slot
  BY DEF Slot
<1>6. /\ worker' \in [Workers -> Slot] /\ worker'[w] = [pc |-> "check", job |-> j]
      /\ \A v \in Workers \ {w} : worker'[v] = worker[v]
  BY <1>5, SlotChange DEF Take
<1>7. worker[w] = Idle
  BY <1>1 DEF Take, Busy, Slot
<1>8. QED
  BY <1>4, <1>6, <1>7 DEF Take, QueueTypeOK, JobRow, Slot

LEMMA HandlerStarts ==
  ASSUME QueueTypeOK, NEW w \in Workers, StartHandler(w)
  PROVE  /\ QueueTypeOK' /\ job' = job /\ Target(w) \in Jobs
         /\ worker'[w] = [pc |-> "run", job |-> Target(w)]
         /\ \A v \in Workers \ {w} : worker'[v] = worker[v]
<1>1. worker \in [Workers -> Slot] /\ worker[w] \in [pc : {"check", "run"}, job : Jobs]
  BY QueueParts DEF StartHandler, Slot, Idle
<1>2. PICK s : worker' = [worker EXCEPT ![w] = s] /\ s = [worker[w] EXCEPT !.pc = "run"]
  BY <1>1 DEF StartHandler
<1>3. s \in Slot /\ s = [pc |-> "run", job |-> Target(w)] /\ Target(w) \in Jobs
  BY <1>1, <1>2 DEF Slot, Target
<1>4. /\ worker' \in [Workers -> Slot] /\ worker'[w] = s
      /\ \A v \in Workers \ {w} : worker'[v] = worker[v]
  BY <1>2, <1>3, SlotChange
<1>5. QED
  BY <1>3, <1>4 DEF StartHandler, QueueTypeOK

LEMMA LeaveSteps ==
  ASSUME QueueTypeOK, NEW w \in Workers, Target(w) \in Jobs, NEW outcome \in JobRow,
         NEW kinds \in SUBSET Kinds, Leave(w, outcome, kinds)
  PROVE  /\ QueueTypeOK' /\ worker'[w] = Idle
         /\ \A v \in Workers \ {w} : worker'[v] = worker[v]
         /\ \A j \in Jobs : \/ job'[j] = job[j]
                            \/ j = Target(w) /\ job'[j].state = outcome.state
<1>1. job \in [Jobs -> JobRow] /\ events \in [Workers -> SUBSET Event]
  BY QueueParts
<1>2. Idle \in Slot
  BY DEF Slot
<1>3. /\ worker' \in [Workers -> Slot] /\ worker'[w] = Idle
      /\ \A v \in Workers \ {w} : worker'[v] = worker[v]
  BY <1>2, SlotChange DEF Leave
<1>4. CASE Owns(w)
  <2>1. PICK r : job' = [job EXCEPT ![Target(w)] = r] /\ r = [outcome EXCEPT !.owner = None]
    BY <1>4 DEF Leave
  <2>2. r \in JobRow /\ r.state = outcome.state
    BY <2>1 DEF JobRow
  <2>3. [kind : kinds, job : {Target(w)}] \subseteq Event
    BY DEF Event
  <2>4. events' \in [Workers -> SUBSET Event]
    BY <1>1, <1>4, <2>3 DEF Leave
  <2>5. job' \in [Jobs -> JobRow]
    BY <1>1, <2>1, <2>2
  <2>6. QED
    BY <1>1, <1>3, <2>1, <2>2, <2>4, <2>5 DEF Leave, QueueTypeOK, JobRow, Slot, Event, Kinds
<1>5. CASE ~Owns(w)
  BY <1>1, <1>3, <1>5 DEF Leave, QueueTypeOK, Slot
<1>6. QED
  BY <1>4, <1>5

-----------------------------------------------------------------------------
(* Rows and processors                                                      *)

\* A row's result is as its status says and not worse than its parent's, which
\* has ended.
RowFits(r) ==
  /\ r.status = "none" => r = NoRow
  /\ r.status = "no_solution" => r.best = 0 /\ r.parent = None
  /\ r.status \in {"completed", "valid_best_found"} => r.best > 0
  /\ r.parent # None => /\ row[r.parent].status \in Ended /\ row[r.parent].best > 0
                        /\ r.best # 0 => r.best >= row[r.parent].best

\* What a processor knows of its row, as long as it holds the fence: the best
\* result, which is its parent's at least once it solves.
Holding(p, r) ==
  /\ p.pc = "clone" => r.best = 0 /\ r.parent # None /\ p.best = row[r.parent].best
  /\ p.pc \in {"solve", "store"} => r.best = p.best /\ (r.parent # None => p.best > 0)
  /\ p.pc = "finish" /\ p.end = "no_solution" => r.best = 0 /\ r.parent = None
  /\ p.pc = "finish" /\ p.end = "completed" => r.best > 0

ProcFits(w, p, r) ==
  /\ p.pc = "return" => r.status \in Ended
  /\ p.pc = "finish" => p.end \in Final
  /\ p.pc = "release" => p.end \in Errors
  /\ r.fence = w => Holding(p, r)

IInv ==
  /\ TypeOK /\ CompletedMeansEnded
  /\ \A j \in Jobs : RowFits(row[j])
  /\ \A w \in Workers : proc[w] # NoProc => ProcFits(w, proc[w], row[Target(w)])

\* A row and a processor as parts of their types.
LEMMA Parts ==
  ASSUME TypeOK
  PROVE  /\ row \in [Jobs -> Row] /\ proc \in [Workers -> {NoProc} \cup ProcRow]
         /\ QueueTypeOK /\ faults \in 0..MaxFaults
         /\ \A j \in Jobs : row[j].fence # None <=> row[j].status \in Running
         /\ \A w \in Workers : proc[w] # NoProc <=> worker[w].pc = "run"
  BY DEF TypeOK, Row

\* A slot with a processor has a job.
LEMMA AtWork ==
  ASSUME TypeOK, NEW w \in Workers, proc[w] # NoProc \/ worker[w].pc # "idle"
  PROVE  /\ worker[w] \in [pc : {"check", "run"}, job : Jobs] /\ Target(w) \in Jobs
         /\ worker[w].pc = "run" => proc[w] \in ProcRow
         /\ row[Target(w)] \in Row
  BY Parts, QueueParts DEF Slot, Idle, Target

\* What has ended stays as it ended.
Lasting(r, s) == r.status \in Ended => s.status = r.status /\ s.best = r.best

\* A step replaces a row, maybe by itself.
LEMMA RowChange ==
  ASSUME IInv, NEW j \in Jobs, NEW r \in Row, row' = [row EXCEPT ![j] = r],
         RowFits(r), r.fence # None <=> r.status \in Running, Lasting(row[j], r)
  PROVE  /\ row' \in [Jobs -> Row] /\ row'[j] = r
         /\ \A k \in Jobs \ {j} : row'[k] = row[k]
         /\ \A k \in Jobs : row'[k].fence # None <=> row'[k].status \in Running
         /\ \A k \in Jobs : RowFits(row[k])' /\ Lasting(row[k], row'[k])
<1>1. /\ row \in [Jobs -> Row] /\ \A k \in Jobs : RowFits(row[k])
      /\ \A k \in Jobs : row[k].fence # None <=> row[k].status \in Running
  BY Parts DEF IInv
<1>2. /\ row' \in [Jobs -> Row] /\ row'[j] = r
      /\ \A k \in Jobs \ {j} : row'[k] = row[k]
  BY <1>1
<1>3. \A k \in Jobs : Lasting(row[k], row'[k])
  BY <1>2 DEF Lasting
<1>4. ASSUME NEW k \in Jobs PROVE RowFits(row[k])'
  <2>1. row'[k] \in Row /\ RowFits(row'[k])
    BY <1>1, <1>2
  <2>2. row'[k].parent # None => /\ row'[row'[k].parent].status = row[row'[k].parent].status
                                 /\ row'[row'[k].parent].best = row[row'[k].parent].best
    BY <1>3, <2>1 DEF RowFits, Lasting, Row
  <2>3. QED
    BY <2>1, <2>2 DEF RowFits
<1>5. QED
  BY <1>1, <1>2, <1>3, <1>4

\* A processor that goes on while its row ends, or is not written except by
\* the holder of the fence.
LEMMA ProcKept ==
  ASSUME IInv, NEW w \in Workers, proc'[w] = proc[w], worker'[w] = worker[w],
         \A k \in Jobs : Lasting(row[k], row'[k]),
         \A k \in Jobs : row'[k].fence = w => /\ row[k].fence = w /\ row'[k].best = row[k].best
                                              /\ row'[k].parent = row[k].parent
  PROVE  proc'[w] # NoProc => ProcFits(w, proc[w], row[Target(w)])'
<1> SUFFICES ASSUME proc[w] # NoProc PROVE ProcFits(w, proc[w], row[Target(w)])'
  OBVIOUS
<1> DEFINE j == Target(w)
<1>1. j \in Jobs /\ j' = j /\ row[j] \in Row
  BY AtWork DEF Target, IInv
<1>2. ProcFits(w, proc[w], row[j]) /\ RowFits(row[j])
  BY <1>1 DEF IInv
<1> HIDE DEF j
<1>3. row'[j].fence = w => Holding(proc[w], row[j])'
  <2> SUFFICES ASSUME row'[j].fence = w PROVE Holding(proc[w], row[j])'
    OBVIOUS
  <2>1. row'[j].best = row[j].best /\ row'[j].parent = row[j].parent /\ Holding(proc[w], row[j])
    BY <1>1, <1>2 DEF ProcFits
  <2>2. row[j].parent # None => row'[row[j].parent].best = row[row[j].parent].best
    BY <1>1, <1>2 DEF RowFits, Lasting, Row
  <2>3. QED
    BY <1>1, <2>1, <2>2 DEF Holding
<1>4. row[j].status \in Ended => row'[j].status \in Ended
  BY <1>1 DEF Lasting
<1>5. QED
  BY <1>1, <1>2, <1>3, <1>4 DEF ProcFits, j

\* A step of the queue or the API: no processor moves, and a row that changes
\* keeps its result for the holder of its fence.
LEMMA OutsideStep ==
  ASSUME IInv, QueueTypeOK', worker' = worker, NoneCompletes, proc' = proc,
         faults' \in 0..MaxFaults, NEW j \in Jobs, NEW r \in Row, row' = [row EXCEPT ![j] = r],
         RowFits(r), r.fence # None <=> r.status \in Running, Lasting(row[j], r),
         r.fence # None => /\ r.fence = row[j].fence /\ r.best = row[j].best
                           /\ r.parent = row[j].parent
  PROVE  IInv'
<1>1. /\ row' \in [Jobs -> Row] /\ row'[j] = r
      /\ \A k \in Jobs \ {j} : row'[k] = row[k]
      /\ \A k \in Jobs : row'[k].fence # None <=> row'[k].status \in Running
      /\ \A k \in Jobs : RowFits(row[k])' /\ Lasting(row[k], row'[k])
  BY RowChange
<1>2. TypeOK'
  BY <1>1 DEF IInv, TypeOK, Row
<1>3. CompletedMeansEnded'
  BY <1>1 DEF IInv, CompletedMeansEnded, NoneCompletes, Lasting
<1>4. ASSUME NEW w \in Workers, proc'[w] # NoProc PROVE ProcFits(w, proc[w], row[Target(w)])'
  BY <1>1, <1>4, ProcKept, NoneAssumption
<1>5. QED
  BY <1>1, <1>2, <1>3, <1>4 DEF IInv

\* No row changes either.
LEMMA QueueStep ==
  ASSUME IInv, QueueTypeOK', worker' = worker, NoneCompletes, proc' = proc, row' = row,
         faults' \in 0..MaxFaults
  PROVE  IInv'
<1>1. TypeOK'
  BY DEF IInv, TypeOK
<1>2. CompletedMeansEnded'
  BY DEF IInv, CompletedMeansEnded, NoneCompletes
<1>3. \A j \in Jobs : RowFits(row[j])'
  BY DEF IInv, RowFits
<1>4. ASSUME NEW w \in Workers, proc'[w] # NoProc PROVE ProcFits(w, proc[w], row[Target(w)])'
  BY <1>4, ProcKept DEF Lasting
<1>5. QED
  BY <1>1, <1>2, <1>3, <1>4 DEF IInv

\* A processor does something to its row, or nothing.
LEMMA WorkStep ==
  ASSUME IInv, UNCHANGED queue, NEW w \in Workers, proc[w] # NoProc,
         faults' \in 0..MaxFaults, NEW r \in Row, row' = [row EXCEPT ![Target(w)] = r],
         RowFits(r), r.fence # None <=> r.status \in Running, Lasting(row[Target(w)], r),
         \/ r.fence \in {w, None}
         \/ r = row[Target(w)],
         NEW p \in ProcRow, proc' = [proc EXCEPT ![w] = p], ProcFits(w, p, r)
  PROVE  IInv'
<1> DEFINE j == Target(w)
<1>1. j \in Jobs /\ row[j] \in Row /\ worker[w].pc = "run"
  BY AtWork, Parts DEF IInv
<1>2. /\ worker' = worker /\ job' = job /\ j' = j /\ QueueTypeOK'
  BY DEF queue, Target, IInv, TypeOK, QueueTypeOK
<1> HIDE DEF j
<1>3. /\ row' \in [Jobs -> Row] /\ row'[j] = r
      /\ \A k \in Jobs \ {j} : row'[k] = row[k]
      /\ \A k \in Jobs : row'[k].fence # None <=> row'[k].status \in Running
      /\ \A k \in Jobs : RowFits(row[k])' /\ Lasting(row[k], row'[k])
  BY <1>1, RowChange DEF j
<1>4. /\ proc' \in [Workers -> {NoProc} \cup ProcRow] /\ proc'[w] = p
      /\ \A v \in Workers \ {w} : proc'[v] = proc[v]
  BY Parts DEF IInv
<1>5. p # NoProc
  BY DEF ProcRow, NoProc
<1>6. \A v \in Workers : proc'[v] # NoProc <=> worker'[v].pc = "run"
  BY <1>1, <1>2, <1>4, <1>5, Parts DEF IInv
<1>7. TypeOK'
  BY <1>2, <1>3, <1>4, <1>6 DEF TypeOK, Row
<1>8. CompletedMeansEnded'
  BY <1>2, <1>3 DEF IInv, CompletedMeansEnded, Lasting
<1>9. ASSUME NEW v \in Workers, proc'[v] # NoProc
      PROVE  ProcFits(v, proc[v], row[Target(v)])'
  <2>1. CASE v = w
    <3>1. RowFits(r) /\ r.parent # None => row'[r.parent].best = row[r.parent].best
      BY <1>3 DEF RowFits, Lasting, Row
    <3>2. Holding(p, r) => Holding(p, r)'
      BY <3>1 DEF Holding
    <3>3. QED
      BY <1>2, <1>3, <1>4, <2>1, <3>2 DEF ProcFits, j
  <2>2. CASE v # w
    <3>1. ASSUME NEW k \in Jobs, row'[k].fence = v
          PROVE  /\ row[k].fence = v /\ row'[k].best = row[k].best
                 /\ row'[k].parent = row[k].parent
      BY <1>1, <1>3, <2>2, <3>1, NoneAssumption DEF j
    <3>2. QED
      BY <1>2, <1>3, <1>4, <1>9, <2>2, <3>1, ProcKept
  <2>3. QED
    BY <2>1, <2>2
<1>10. QED
  BY <1>3, <1>7, <1>8, <1>9 DEF IInv

\* A processor goes on, and its row stays.
LEMMA ThinkStep ==
  ASSUME IInv, UNCHANGED queue, row' = row, NEW w \in Workers, proc[w] # NoProc,
         faults' \in 0..MaxFaults, NEW p \in ProcRow, Goes(w, p),
         ProcFits(w, p, row[Target(w)])
  PROVE  IInv'
<1> DEFINE r == row[Target(w)]
<1>1. Target(w) \in Jobs /\ r \in Row
  BY AtWork DEF IInv
<1>2. row' = [row EXCEPT ![Target(w)] = r]
  BY <1>1, Parts DEF IInv
<1>3. RowFits(r) /\ Lasting(r, r) /\ (r.fence # None <=> r.status \in Running)
  BY <1>1, Parts DEF IInv, Lasting
<1>4. QED
  BY <1>1, <1>2, <1>3, WorkStep DEF Goes

Pcs == {"claim", "clone", "solve", "store", "finish", "release", "throw", "return"}

LEMMA LocalsFit ==
  ASSUME NEW pc \in Pcs
  PROVE  /\ Locals(pc) \in ProcRow /\ Locals(pc).pc = pc /\ Locals(pc).best = 0
         /\ Locals(pc).end = "none"
  BY BoundsAssumption DEF Locals, ProcRow, Pcs

LEMMA EndsFit ==
  ASSUME NEW pc \in Pcs, NEW end \in Final \cup Errors, NEW w, Ends(w, pc, end)
  PROVE  \E p \in ProcRow : Goes(w, p) /\ p.pc = pc /\ p.end = end
<1>1. PICK p : Goes(w, p) /\ p = [Locals(pc) EXCEPT !.end = end]
  BY DEF Ends
<1>2. p \in ProcRow /\ p.pc = pc /\ p.end = end
  BY <1>1, LocalsFit DEF ProcRow
<1>3. QED
  BY <1>1, <1>2

\* A processor gives up, whatever it knows of its row.
LEMMA GivesUp ==
  ASSUME IInv, UNCHANGED queue, row' = row, NEW w \in Workers, proc[w] # NoProc,
         faults' \in 0..MaxFaults,
         \/ Goes(w, Locals("throw"))
         \/ \E error \in Errors : Ends(w, "release", error)
  PROVE  IInv'
<1>1. CASE Goes(w, Locals("throw"))
  <2>1. Locals("throw") \in ProcRow /\ Locals("throw").pc = "throw"
    BY LocalsFit DEF Pcs
  <2>2. ProcFits(w, Locals("throw"), row[Target(w)])
    BY <2>1 DEF ProcFits, Holding
  <2>3. QED
    BY <1>1, <2>1, <2>2, ThinkStep
<1>2. ASSUME NEW error \in Errors, Ends(w, "release", error) PROVE IInv'
  <2>1. PICK p \in ProcRow : Goes(w, p) /\ p.pc = "release" /\ p.end = error
    BY <1>2, EndsFit DEF Pcs
  <2>2. ProcFits(w, p, row[Target(w)])
    BY <2>1 DEF ProcFits, Holding
  <2>3. QED
    BY <2>1, <2>2, ThinkStep
<1>3. QED
  BY <1>1, <1>2

\* A row freed by its processor, with a status that fits its result.
LEMMA FreedRow ==
  ASSUME IInv, NEW j \in Jobs, row[j].status \in Running,
         NEW status \in Ended \cup {"queued"},
         status = "no_solution" => row[j].best = 0 /\ row[j].parent = None,
         status = "completed" => row[j].best > 0
  PROVE  /\ Freed(row[j], status) \in Row /\ RowFits(Freed(row[j], status))
         /\ Freed(row[j], status).fence = None /\ Freed(row[j], status).status = status
         /\ Freed(row[j], status).status \notin Running
         /\ Lasting(row[j], Freed(row[j], status))
<1>1. row[j] \in Row /\ RowFits(row[j])
  BY Parts DEF IInv
<1>2. PICK r : r = Freed(row[j], status)
  OBVIOUS
<1>3. /\ r \in Row /\ r.status = status /\ r.fence = None /\ r.best = row[j].best
      /\ r.parent = row[j].parent
  BY <1>1, <1>2 DEF Freed, Row, Active, Ended
<1>4. status \notin Running /\ row[j].status \notin Ended
  BY DEF Running, Ended
<1>5. RowFits(r) /\ Lasting(row[j], r)
  BY <1>1, <1>3, <1>4 DEF RowFits, Lasting, Ended
<1>6. QED
  BY <1>2, <1>3, <1>4, <1>5

\* A better result of the row's own, or its parent's.
LEMMA StoredRow ==
  ASSUME IInv, NEW w \in Workers, proc[w] # NoProc, NEW q \in 0..MaxQuality,
         Storable(w, q), Store(w, q),
         row[Target(w)].parent # None =>
           row[Target(w)].best > 0 \/ q = row[row[Target(w)].parent].best
  PROVE  \E r \in Row :
           /\ row' = [row EXCEPT ![Target(w)] = r] /\ RowFits(r)
           /\ r.fence # None <=> r.status \in Running
           /\ Lasting(row[Target(w)], r)
           /\ r.fence = w /\ r.best = q /\ r.parent = row[Target(w)].parent
<1> DEFINE j == Target(w)
<1>1. j \in Jobs /\ row[j] \in Row /\ RowFits(row[j])
  BY AtWork DEF IInv
<1>2. row[j].fence = w /\ row[j].status \in Running /\ q > row[j].best
  BY <1>1, Parts, NoneAssumption DEF IInv, Storable, Fenced
<1>3. PICK r : /\ row' = [row EXCEPT ![j] = r]
               /\ r = [row[j] EXCEPT !.best = q, !.status = "valid_best_found"]
  BY <1>1, Parts DEF IInv, Store
<1> HIDE DEF j
<1>4. /\ r \in Row /\ r.fence = w /\ r.best = q /\ r.parent = row[j].parent
      /\ r.status = "valid_best_found"
  BY <1>1, <1>2, <1>3 DEF Row, Active, Running
<1>5. row[j].status \notin Ended /\ r.status \in Running /\ q > 0 /\ r.fence # None
  BY <1>1, <1>2, <1>4, BoundsAssumption, NoneAssumption DEF Running, Ended, Row
<1>6. r.parent # None => row[r.parent].best \in 0..MaxQuality
  BY <1>1, <1>4, Parts DEF IInv, Row
<1>7. r.parent # None => q >= row[r.parent].best
  BY <1>1, <1>2, <1>4, <1>6, BoundsAssumption DEF RowFits, Row, j
<1>8. RowFits(r)
  BY <1>1, <1>4, <1>5, <1>7 DEF RowFits
<1>9. Lasting(row[j], r)
  BY <1>5 DEF Lasting
<1>10. QED
  BY <1>3, <1>4, <1>5, <1>8, <1>9 DEF j

\* The claim draws a new fence; result and parent stay.
LEMMA ClaimedRow ==
  ASSUME IInv, NEW w \in Workers, NEW j \in Jobs, Claimable(row[j])
  PROVE  \E r \in Row :
           /\ r = Claimed(row[j], w) /\ RowFits(r)
           /\ r.fence # None <=> r.status \in Running
           /\ Lasting(row[j], r)
           /\ r.fence = w /\ r.best = row[j].best /\ r.parent = row[j].parent
<1>1. row[j] \in Row /\ RowFits(row[j]) /\ row[j].status \notin Ended
  BY Parts DEF IInv, Claimable, Running, Ended
<1>2. PICK r : r = Claimed(row[j], w)
  OBVIOUS
<1>3. /\ r \in Row /\ r.fence = w /\ r.best = row[j].best /\ r.parent = row[j].parent
      /\ r.status \in {"cancelling", "running"}
  BY <1>1, <1>2 DEF Claimed, Row, Active, Running
<1>4. RowFits(r) /\ Lasting(row[j], r)
  BY <1>1, <1>3 DEF RowFits, Lasting
<1>5. QED
  BY <1>2, <1>3, <1>4, NoneAssumption DEF Running

-----------------------------------------------------------------------------
(* The API, leases, the queue and dead letters                              *)

LEMMA FaultBounded ==
  ASSUME IInv, Fault \/ faults' = faults
  PROVE  faults' \in 0..MaxFaults
  BY Parts, BoundsAssumption DEF IInv, Fault

LEMMA SameQueue ==
  ASSUME IInv, UNCHANGED queue
  PROVE  QueueTypeOK' /\ worker' = worker /\ NoneCompletes
  BY DEF IInv, TypeOK, QueueTypeOK, queue, NoneCompletes

LEMMA InsertStep ==
  ASSUME IInv, NEW j \in Jobs, NEW parent \in Jobs \cup {None}, Insert(j, parent),
         parent # None => row[parent].status \in Ended /\ row[parent].best > 0
  PROVE  IInv'
<1>1. NoRow \in Row /\ NoRow.fence = None /\ NoRow.best = 0
  BY BoundsAssumption DEF NoRow, Row
<1>2. PICK r \in Row : /\ row' = [row EXCEPT ![j] = r] /\ r.status = "queued"
                       /\ r.parent = parent /\ r.fence = None /\ r.best = 0
  <2>1. PICK r : /\ row' = [row EXCEPT ![j] = r]
                 /\ r = [NoRow EXCEPT !.status = "queued", !.parent = parent]
    BY DEF Insert
  <2>2. /\ r \in Row /\ r.status = "queued" /\ r.parent = parent /\ r.fence = None
        /\ r.best = 0
    BY <1>1, <2>1 DEF Row, Active
  <2>3. QED
    BY <2>1, <2>2
<1>3. RowFits(r)
  BY <1>2 DEF RowFits
<1>4. Lasting(row[j], r) /\ r.status \notin Running
  BY <1>2 DEF Insert, Lasting, Ended, Running
<1>5. QueueTypeOK' /\ worker' = worker /\ NoneCompletes /\ proc' = proc /\ faults' \in 0..MaxFaults
  BY SameQueue, FaultBounded DEF Insert
<1>6. QED
  BY <1>1, <1>2, <1>3, <1>4, <1>5, OutsideStep

LEMMA OrganiserSteps ==
  ASSUME IInv, NEW j \in Jobs, Organiser(j) \/ RecoverQueued(j)
  PROVE  IInv'
<1>1. CASE GenerateSchedule(j)
  BY <1>1, InsertStep DEF GenerateSchedule
<1>2. ASSUME NEW parent \in Jobs, ContinueScheduleJob(j, parent) PROVE IInv'
  BY <1>2, InsertStep DEF ContinueScheduleJob
<1>3. CASE EnqueueReference(j) \/ RecoverQueued(j)
  <2>1. Enqueue(j) /\ row' = row /\ proc' = proc /\ faults' = faults
    BY <1>3 DEF EnqueueReference, RecoverQueued
  <2>2. QueueTypeOK' /\ worker' = worker /\ NoneCompletes
    BY <2>1, ReferenceSteps DEF IInv, TypeOK
  <2>3. QED
    BY <2>1, <2>2, QueueStep, FaultBounded
<1>4. CASE CancelScheduleJob(j)
  <2>1. row[j] \in Row /\ RowFits(row[j]) /\ (row[j].fence # None <=> row[j].status \in Running)
    BY Parts DEF IInv
  <2>2. PICK r : /\ row' = [row EXCEPT ![j] = r]
                 /\ r = [row[j] EXCEPT !.asked = TRUE,
                           !.status = IF @ = "queued" THEN "cancelled" ELSE "cancelling"]
    BY <1>4, Parts DEF IInv, CancelScheduleJob
  <2>3. /\ r \in Row /\ r.fence = row[j].fence /\ r.best = row[j].best /\ r.parent = row[j].parent
        /\ r.status = IF row[j].status = "queued" THEN "cancelled" ELSE "cancelling"
    BY <2>1, <2>2 DEF Row, Active, Running, Ended
  <2>4. row[j].status \in Running \cup {"queued"}
    BY <1>4 DEF CancelScheduleJob, Active
  <2>5. RowFits(r) /\ Lasting(row[j], r) /\ (r.fence # None <=> r.status \in Running)
    BY <2>1, <2>3, <2>4 DEF RowFits, Lasting, Running, Ended
  <2>6. QueueTypeOK' /\ worker' = worker /\ NoneCompletes /\ proc' = proc /\ faults' \in 0..MaxFaults
    BY <1>4, SameQueue, FaultBounded DEF CancelScheduleJob
  <2>7. QED
    BY <2>2, <2>3, <2>5, <2>6, OutsideStep
<1>5. QED
  BY <1>1, <1>2, <1>3, <1>4 DEF Organiser

LEMMA LapseStep ==
  ASSUME IInv, NEW j \in Jobs, LeaseLapses(j)
  PROVE  IInv'
<1>1. row[j] \in Row /\ RowFits(row[j]) /\ (row[j].fence # None <=> row[j].status \in Running)
  BY Parts DEF IInv
<1>2. PICK r : row' = [row EXCEPT ![j] = r] /\ r = [row[j] EXCEPT !.live = FALSE]
  BY Parts DEF IInv, LeaseLapses
<1>3. /\ r \in Row /\ r.fence = row[j].fence /\ r.best = row[j].best /\ r.parent = row[j].parent
      /\ r.status = row[j].status
  BY <1>1, <1>2 DEF Row
<1>4. row[j].status # "none"
  BY <1>1 DEF RowFits, NoRow, LeaseLapses
<1>5. RowFits(r) /\ Lasting(row[j], r) /\ (r.fence # None <=> r.status \in Running)
  BY <1>1, <1>3, <1>4 DEF RowFits, Lasting
<1>6. QueueTypeOK' /\ worker' = worker /\ NoneCompletes /\ proc' = proc /\ faults' \in 0..MaxFaults
  BY SameQueue, FaultBounded DEF LeaseLapses
<1>7. QED
  BY <1>2, <1>3, <1>5, <1>6, OutsideStep

LEMMA DeadLetterStep ==
  ASSUME IInv, NEW w \in Workers, NEW j \in Jobs, MarkDeadLettered(w, j)
  PROVE  IInv'
<1>1. row[j] \in Row /\ RowFits(row[j]) /\ (row[j].fence # None <=> row[j].status \in Running)
  BY Parts DEF IInv
<1>2. QueueTypeOK' /\ worker' = worker /\ NoneCompletes /\ proc' = proc
  BY HandlerSteps DEF IInv, TypeOK, MarkDeadLettered
<1>3. faults' \in 0..MaxFaults
  BY FaultBounded DEF MarkDeadLettered
<1>4. CASE row' = row
  BY <1>2, <1>3, <1>4, QueueStep
<1>5. CASE row[j].status = "queued" /\ row' = [row EXCEPT ![j].status = "failed"]
  <2>1. PICK r : row' = [row EXCEPT ![j] = r] /\ r = [row[j] EXCEPT !.status = "failed"]
    BY <1>5, Parts DEF IInv
  <2>2. /\ r \in Row /\ r.fence = row[j].fence /\ r.best = row[j].best
        /\ r.parent = row[j].parent /\ r.status = "failed"
    BY <1>1, <2>1 DEF Row, Ended
  <2>3. RowFits(r) /\ Lasting(row[j], r) /\ (r.fence # None <=> r.status \in Running)
    BY <1>1, <1>5, <2>2 DEF RowFits, Lasting, Running, Ended
  <2>4. QED
    BY <1>2, <1>3, <2>1, <2>2, <2>3, OutsideStep
<1>6. QED
  BY <1>4, <1>5 DEF MarkDeadLettered

LEMMA QueueSteps ==
  ASSUME IInv, Queue
  PROVE  IInv'
<1>1. QueueTypeOK' /\ worker' = worker /\ NoneCompletes
  BY BackgroundSteps DEF IInv, TypeOK, Queue
<1>2. proc' = proc /\ row' = row /\ faults' \in 0..MaxFaults
  BY FaultBounded DEF Queue
<1>3. QED
  BY <1>1, <1>2, QueueStep

-----------------------------------------------------------------------------
(* A slot takes a job, starts and leaves it                                 *)

LEMMA SlotStep ==
  ASSUME IInv, QueueTypeOK', row' = row, faults' \in 0..MaxFaults, CompletedMeansEnded',
         NEW w \in Workers, \A v \in Workers \ {w} : worker'[v] = worker[v],
         NEW p \in {NoProc, Locals("claim")}, proc' = [proc EXCEPT ![w] = p],
         p = NoProc <=> worker'[w].pc # "run"
  PROVE  IInv'
<1>1. /\ proc' \in [Workers -> {NoProc} \cup ProcRow] /\ proc'[w] = p
      /\ \A v \in Workers \ {w} : proc'[v] = proc[v]
  BY Parts, LocalsFit DEF IInv, Pcs
<1>2. \A v \in Workers : proc'[v] # NoProc <=> worker'[v].pc = "run"
  BY <1>1, Parts DEF IInv
<1>3. TypeOK'
  BY <1>1, <1>2, Parts DEF IInv, TypeOK, Row
<1>4. \A j \in Jobs : RowFits(row[j])'
  BY DEF IInv, RowFits
<1>5. ASSUME NEW v \in Workers, proc'[v] # NoProc PROVE ProcFits(v, proc[v], row[Target(v)])'
  <2>1. CASE v = w
    <3>1. proc'[v].pc = "claim"
      BY <1>1, <1>5, <2>1, LocalsFit DEF Pcs
    <3>2. QED
      BY <3>1 DEF ProcFits, Holding
  <2>2. CASE v # w
    BY <1>1, <1>5, <2>2, ProcKept DEF Lasting
  <2>3. QED
    BY <2>1, <2>2
<1>6. QED
  BY <1>3, <1>4, <1>5 DEF IInv

LEMMA NoneEnds ==
  ASSUME IInv, NoneCompletes, row' = row
  PROVE  CompletedMeansEnded'
  BY DEF IInv, CompletedMeansEnded, NoneCompletes

LEMMA StartSteps ==
  ASSUME IInv, NEW w \in Workers,
         Start(w) \/ (\E j \in Jobs : TakeJob(w, j)) \/ Crash(w)
  PROVE  IInv'
<1>1. TypeOK /\ QueueTypeOK /\ proc \in [Workers -> {NoProc} \cup ProcRow]
  BY Parts DEF IInv
<1>2. row' = row /\ faults' \in 0..MaxFaults
  BY FaultBounded DEF Start, TakeJob, Crash
<1>3. Locals("claim") # NoProc
  BY LocalsFit DEF Pcs, NoProc
<1>4. CASE Start(w)
  <2>1. /\ QueueTypeOK' /\ job' = job /\ worker'[w].pc = "run"
        /\ \A v \in Workers \ {w} : worker'[v] = worker[v]
    <3>1. /\ QueueTypeOK' /\ job' = job /\ worker'[w] = [pc |-> "run", job |-> Target(w)]
          /\ \A v \in Workers \ {w} : worker'[v] = worker[v]
      BY <1>1, <1>4, HandlerStarts DEF Start
    <3>2. QED
      BY <3>1
  <2>2. CompletedMeansEnded'
    BY <1>2, <2>1, NoneEnds DEF NoneCompletes
  <2>3. QED
    BY <1>2, <1>3, <1>4, <2>1, <2>2, SlotStep DEF Start, Goes
<1>5. ASSUME NEW j \in Jobs, TakeJob(w, j) PROVE IInv'
  <2>1. /\ QueueTypeOK' /\ NoneCompletes /\ worker[w] = Idle /\ worker'[w].pc = "check"
        /\ \A v \in Workers \ {w} : worker'[v] = worker[v]
    <3>1. /\ QueueTypeOK' /\ NoneCompletes /\ worker[w] = Idle
          /\ worker'[w] = [pc |-> "check", job |-> j]
          /\ \A v \in Workers \ {w} : worker'[v] = worker[v]
      BY <1>1, <1>5, TakeSteps DEF TakeJob
    <3>2. QED
      BY <3>1
  <2>2. proc[w] = NoProc
    BY <1>1, <2>1, Parts DEF Idle
  <2>3. proc' = [proc EXCEPT ![w] = NoProc]
    BY <1>1, <1>5, <2>2 DEF TakeJob
  <2>4. QED
    BY <1>2, <2>1, <2>3, NoneEnds, SlotStep
<1>6. CASE Crash(w)
  <2>1. /\ QueueTypeOK' /\ NoneCompletes /\ worker'[w] = Idle
        /\ \A v \in Workers \ {w} : worker'[v] = worker[v]
    <3>1. Idle \in Slot
      BY DEF Slot
    <3>2. /\ worker' \in [Workers -> Slot] /\ worker'[w] = Idle
          /\ \A v \in Workers \ {w} : worker'[v] = worker[v]
      BY <1>1, <1>6, <3>1, SlotChange DEF Crash, KillSlot
    <3>3. events' \in [Workers -> SUBSET Event] /\ job' = job
      BY <1>1, <1>6, QueueParts DEF Crash, KillSlot
    <3>4. QED
      BY <1>1, <1>6, <3>2, <3>3 DEF Crash, KillSlot, QueueTypeOK, Slot, Event, Kinds, NoneCompletes
  <2>2. worker'[w].pc # "run" /\ proc' = [proc EXCEPT ![w] = NoProc] /\ CompletedMeansEnded'
    BY <1>2, <1>6, <2>1, NoneEnds DEF Crash, Goes, Idle
  <2>3. QED
    BY <1>2, <2>1, <2>2, SlotStep
<1>7. QED
  BY <1>4, <1>5, <1>6

\* A slot leaves its job; only one whose row has ended counts as completed.
LEMMA LeavingStep ==
  ASSUME IInv, row' = row, faults' = faults, NEW w \in Workers, Target(w) \in Jobs,
         NEW outcome \in JobRow, NEW kinds \in SUBSET Kinds, Leave(w, outcome, kinds),
         proc' = [proc EXCEPT ![w] = NoProc],
         outcome.state = "completed" => row[Target(w)].status \in Ended
  PROVE  IInv'
<1>1. /\ QueueTypeOK' /\ worker'[w] = Idle
      /\ \A v \in Workers \ {w} : worker'[v] = worker[v]
      /\ \A j \in Jobs : \/ job'[j] = job[j]
                         \/ j = Target(w) /\ job'[j].state = outcome.state
  BY LeaveSteps DEF IInv, TypeOK
<1>2. CompletedMeansEnded'
  BY <1>1 DEF IInv, CompletedMeansEnded
<1>3. worker'[w].pc # "run" /\ faults' \in 0..MaxFaults
  BY <1>1, FaultBounded DEF Idle
<1>4. QED
  BY <1>1, <1>2, <1>3, SlotStep

LEMMA LeavingSteps ==
  ASSUME IInv, NEW w \in Workers, Discard(w) \/ Return(w) \/ Throw(w)
  PROVE  IInv'
<1>1. TypeOK /\ QueueTypeOK /\ proc \in [Workers -> {NoProc} \cup ProcRow]
  BY Parts DEF IInv
<1>2. row' = row /\ faults' = faults /\ worker[w].pc # "idle"
  BY DEF Discard, Return, Throw, DiscardJob, Succeed, Fail
<1>3. Target(w) \in Jobs /\ job[Target(w)] \in JobRow /\ job[Target(w)].made + 1 \in Nat
  BY <1>1, <1>2, AtWork, QueueParts DEF JobRow
<1>4. proc' = [proc EXCEPT ![w] = NoProc]
  <2>1. CASE Discard(w)
    <3>1. proc[w] = NoProc /\ proc' = proc
      BY <1>1, <2>1, Parts DEF Discard, DiscardJob
    <3>2. QED
      BY <1>1, <3>1
  <2>2. CASE Return(w) \/ Throw(w)
    BY <2>2 DEF Return, Throw, Goes
  <2>3. QED
    BY <2>1, <2>2
<1>5. CASE Discard(w)
  <2>1. PICK outcome : /\ outcome = [job[Target(w)] EXCEPT !.state = "failed", !.made = @ + 1]
                       /\ Leave(w, outcome, {"clear"})
    BY <1>5 DEF Discard, DiscardJob
  <2>2. outcome \in JobRow /\ outcome.state = "failed"
    BY <1>3, <2>1 DEF JobRow
  <2>3. QED
    BY <1>2, <1>3, <1>4, <2>1, <2>2, LeavingStep DEF Kinds
<1>6. CASE Return(w)
  <2>1. PICK outcome : /\ outcome = [job[Target(w)] EXCEPT !.state = "completed", !.made = @ + 1]
                       /\ Leave(w, outcome, {"clear"})
    BY <1>6 DEF Return, Succeed
  <2>2. outcome \in JobRow
    BY <1>3, <2>1 DEF JobRow
  <2>3. row[Target(w)].status \in Ended
    BY <1>6 DEF Return, At, NoProc, IInv, ProcFits
  <2>4. QED
    BY <1>2, <1>3, <1>4, <2>1, <2>2, <2>3, LeavingStep DEF Kinds
<1>7. CASE Throw(w)
  <2>1. PICK state \in {"failed", "delayed"}, kinds \in SUBSET Kinds :
          Leave(w, [job[Target(w)] EXCEPT !.state = state, !.made = job[Target(w)].made + 1], kinds)
    BY <1>7 DEF Throw, Fail, Kinds
  <2>2. PICK outcome : /\ outcome = [job[Target(w)] EXCEPT !.state = state,
                                                          !.made = job[Target(w)].made + 1]
                       /\ Leave(w, outcome, kinds)
    BY <2>1
  <2>3. outcome \in JobRow /\ outcome.state = state
    BY <1>3, <2>2 DEF JobRow
  <2>4. QED
    BY <1>2, <1>3, <1>4, <2>2, <2>3, LeavingStep
<1>8. QED
  BY <1>5, <1>6, <1>7

-----------------------------------------------------------------------------
(* process()                                                                *)

\* What a processor at a step knows.
LEMMA Known ==
  ASSUME IInv, NEW w \in Workers, NEW pc \in Pcs, At(w, pc)
  PROVE  /\ proc[w] # NoProc /\ proc[w] \in ProcRow /\ Target(w) \in Jobs
         /\ row[Target(w)] \in Row /\ RowFits(row[Target(w)])
         /\ ProcFits(w, proc[w], row[Target(w)]) /\ worker[w].pc = "run"
<1>1. proc[w] # NoProc /\ TypeOK
  BY DEF At, NoProc, Pcs, IInv
<1>2. QED
  BY <1>1, AtWork, Parts DEF IInv

\* The holder of a live lease has a row that is worked on.
LEMMA HolderRuns ==
  ASSUME IInv, NEW w \in Workers, Target(w) \in Jobs, Fenced(w)
  PROVE  row[Target(w)].fence = w /\ row[Target(w)].status \in Running
  BY Parts, NoneAssumption DEF Fenced, IInv

\* What a claim gives the processor to start from.
LEMMA StartFits ==
  ASSUME IInv, NEW j \in Jobs
  PROVE  /\ StartClaimed(row[j]) \in ProcRow
         /\ StartClaimed(row[j]).best = Seed(row[j])
         /\ StartClaimed(row[j]).pc = IF Inherited(row[j]) THEN "clone" ELSE "solve"
<1>1. Seed(row[j]) \in 0..MaxQuality
  BY Parts DEF IInv, Row, Seed, Inherited
<1>2. PICK p : /\ p = StartClaimed(row[j])
               /\ p = [Locals(IF Inherited(row[j]) THEN "clone" ELSE "solve")
                         EXCEPT !.best = Seed(row[j])]
  BY DEF StartClaimed
<1>3. PICK pc \in Pcs : pc = IF Inherited(row[j]) THEN "clone" ELSE "solve"
  BY DEF Pcs
<1>4. p \in ProcRow /\ p.best = Seed(row[j]) /\ p.pc = pc
  BY <1>1, <1>2, <1>3, LocalsFit DEF ProcRow
<1>5. QED
  BY <1>2, <1>3, <1>4

LEMMA ClaimSteps ==
  ASSUME IInv, NEW w \in Workers, Claim(w)
  PROVE  IInv'
<1> DEFINE j == Target(w)
<1>1. proc[w] # NoProc /\ j \in Jobs /\ row[j] \in Row /\ RowFits(row[j])
  BY Known DEF Claim, Pcs
<1>2. UNCHANGED queue /\ faults' \in 0..MaxFaults
  BY FaultBounded DEF Claim
<1>3. CASE Claimable(row[j])
  <2>1. row' = [row EXCEPT ![j] = Claimed(row[j], w)] /\ Goes(w, StartClaimed(row[j]))
    BY <1>1, <1>3 DEF Claim
  <2>2. PICK r \in Row :
           /\ r = Claimed(row[j], w) /\ RowFits(r)
           /\ r.fence # None <=> r.status \in Running
           /\ Lasting(row[j], r)
           /\ r.fence = w /\ r.best = row[j].best /\ r.parent = row[j].parent
    BY <1>1, <1>3, ClaimedRow
  <2>3. PICK p \in ProcRow : /\ Goes(w, p) /\ p.best = Seed(row[j])
                             /\ p.pc = IF Inherited(row[j]) THEN "clone" ELSE "solve"
    BY <1>1, <2>1, StartFits
  <2>4. Holding(p, r)
    <3>1. CASE Inherited(row[j])
      BY <2>2, <2>3, <3>1 DEF Inherited, Holding, Seed
    <3>2. CASE ~Inherited(row[j])
      <4>1. p.pc = "solve" /\ p.best = row[j].best /\ r.best = p.best
        BY <2>2, <2>3, <3>2 DEF Seed
      <4>2. r.parent # None => p.best > 0
        BY <1>1, <2>2, <3>2, <4>1, BoundsAssumption DEF Inherited, Row
      <4>3. QED
        BY <4>1, <4>2 DEF Holding
    <3>3. QED
      BY <3>1, <3>2
  <2>5. ProcFits(w, p, r)
    BY <2>3, <2>4 DEF ProcFits
  <2>6. QED
    BY <1>1, <1>2, <2>1, <2>2, <2>3, <2>5, WorkStep DEF Goes
<1>4. CASE ~Claimable(row[j])
  <2>1. Goes(w, Locals(Unclaimed(row[j]))) /\ row' = row
    BY <1>4 DEF Claim
  <2>2. PICK pc \in {"return", "throw"} : /\ Goes(w, Locals(pc))
                                          /\ pc = "return" => row[j].status \in Ended
    BY <2>1 DEF Unclaimed
  <2>3. PICK p \in ProcRow : Goes(w, p) /\ p.pc = pc
    BY <2>2, LocalsFit DEF Pcs
  <2>4. CASE pc = "return"
    <3>1. ProcFits(w, p, row[j])
      BY <2>2, <2>3, <2>4 DEF ProcFits, Holding
    <3>2. QED
      BY <1>1, <1>2, <2>1, <2>3, <3>1, ThinkStep
  <2>5. CASE pc = "throw"
    <3>1. ProcFits(w, p, row[j])
      BY <2>3, <2>5 DEF ProcFits, Holding
    <3>2. QED
      BY <1>1, <1>2, <2>1, <2>3, <3>1, ThinkStep
  <2>6. QED
    BY <2>2, <2>4, <2>5
<1>5. QED
  BY <1>3, <1>4

\* A result is stored, by clone or by checkpoint, and the processor goes on
\* with it, or with an error.
LEMMA StoreSteps ==
  ASSUME IInv, UNCHANGED queue, NEW w \in Workers, proc[w] # NoProc,
         faults' \in 0..MaxFaults, NEW q \in 0..MaxQuality, Storable(w, q), Store(w, q),
         row[Target(w)].parent # None =>
           row[Target(w)].best > 0 \/ q = row[row[Target(w)].parent].best,
         NEW p \in ProcRow, Goes(w, p),
         \/ p.pc = "solve" /\ p.best = q
         \/ p.pc = "throw"
         \/ p.pc = "release" /\ p.end \in Errors
  PROVE  IInv'
<1>1. PICK r \in Row :
         /\ row' = [row EXCEPT ![Target(w)] = r] /\ RowFits(r)
         /\ r.fence # None <=> r.status \in Running
         /\ Lasting(row[Target(w)], r)
         /\ r.fence = w /\ r.best = q /\ r.parent = row[Target(w)].parent
  BY StoredRow
<1>2. q > 0
  BY BoundsAssumption, AtWork DEF Storable, IInv, Row
<1>3. ProcFits(w, p, r)
  BY <1>1, <1>2 DEF ProcFits, Holding
<1>4. QED
  BY <1>1, <1>3, WorkStep DEF Goes

\* A parent's result is stored while the row has none.
LEMMA CloneKnows ==
  ASSUME IInv, NEW w \in Workers, At(w, "clone"), Storable(w, proc[w].best)
  PROVE  proc[w].best = row[row[Target(w)].parent].best
  BY Known DEF Pcs, At, ProcFits, Holding, Storable, Fenced

\* A candidate is stored beside a result of the row's own, if it has a parent.
LEMMA StoreKnows ==
  ASSUME IInv, NEW w \in Workers, At(w, "store"), Fenced(w)
  PROVE  /\ row[Target(w)].best = proc[w].best
         /\ row[Target(w)].parent # None => row[Target(w)].best > 0
  BY Known DEF Pcs, At, ProcFits, Holding, Fenced

LEMMA CloneSteps ==
  ASSUME IInv, NEW w \in Workers, Clone(w)
  PROVE  IInv'
<1>1. proc[w] # NoProc /\ proc[w] \in ProcRow
  BY Known DEF Clone, Pcs
<1>2. UNCHANGED queue /\ faults' \in 0..MaxFaults
  BY FaultBounded DEF Clone
<1>3. CASE Storable(w, proc[w].best)
  <2>1. PICK p : Goes(w, p) /\ p = [proc[w] EXCEPT !.pc = "solve"] /\ Store(w, proc[w].best)
    BY <1>3 DEF Clone
  <2>2. p \in ProcRow /\ p.pc = "solve" /\ p.best = proc[w].best /\ p.best \in 0..MaxQuality
    BY <1>1, <2>1 DEF ProcRow
  <2>3. QED
    BY <1>1, <1>2, <1>3, <2>1, <2>2, CloneKnows, StoreSteps DEF Clone
<1>4. CASE ~Storable(w, proc[w].best)
  BY <1>1, <1>2, <1>4, GivesUp DEF Clone
<1>5. QED
  BY <1>3, <1>4

\* The solver is asked, yields, or is done.
LEMMA SolveSteps ==
  ASSUME IInv, NEW w \in Workers, Stopped(w) \/ Yield(w) \/ Solved(w) \/ SolverFails(w)
  PROVE  IInv'
<1>1. /\ proc[w] # NoProc /\ proc[w] \in ProcRow /\ At(w, "solve")
      /\ ProcFits(w, proc[w], row[Target(w)]) /\ row[Target(w)] \in Row
  BY Known DEF Stopped, Yield, Solved, SolverFails, Solving, Pcs
<1>2. UNCHANGED queue /\ row' = row /\ faults' \in 0..MaxFaults
  BY FaultBounded DEF Stopped, Yield, Solved, SolverFails
<1>3. CASE Stopped(w) /\ ~Lost(w)
  <2>1. Ends(w, "finish", "cancelled")
    BY <1>3 DEF Stopped
  <2>2. PICK p \in ProcRow : Goes(w, p) /\ p.pc = "finish" /\ p.end = "cancelled"
    BY <2>1, EndsFit DEF Pcs, Final
  <2>3. ProcFits(w, p, row[Target(w)])
    BY <2>2 DEF ProcFits, Holding, Final
  <2>4. QED
    BY <1>1, <1>2, <2>2, <2>3, ThinkStep
<1>4. CASE Stopped(w) /\ Lost(w)
  <2>1. Ends(w, "release", "transient") /\ "transient" \in Errors
    BY <1>4 DEF Stopped, CancelRequested, Errors
  <2>2. QED
    BY <1>1, <1>2, <2>1, GivesUp
<1>5. CASE SolverFails(w)
  BY <1>1, <1>2, <1>5, GivesUp DEF SolverFails
<1>6. CASE Yield(w)
  <2>1. PICK q \in proc[w].best..MaxQuality : Goes(w, [proc[w] EXCEPT !.pc = "store", !.cand = q])
    BY <1>6 DEF Yield
  <2>2. q \in 0..MaxQuality
    BY <1>1, <2>1, BoundsAssumption DEF ProcRow
  <2>3. PICK p : Goes(w, p) /\ p = [proc[w] EXCEPT !.pc = "store", !.cand = q]
    BY <2>1
  <2>4. p \in ProcRow /\ p.pc = "store" /\ p.best = proc[w].best
    BY <1>1, <2>2, <2>3 DEF ProcRow
  <2>5. ProcFits(w, p, row[Target(w)])
    BY <1>1, <2>4 DEF ProcFits, Holding, At
  <2>6. QED
    BY <1>1, <1>2, <2>3, <2>4, <2>5, ThinkStep
<1>7. CASE Solved(w)
  <2>1. PICK end \in {"no_solution", "completed"} :
          Ends(w, "finish", end) /\ (end = "no_solution" <=> proc[w].best = 0)
    BY <1>7 DEF Solved
  <2>2. PICK p \in ProcRow : Goes(w, p) /\ p.pc = "finish" /\ p.end = end
    BY <2>1, EndsFit DEF Pcs, Final
  <2>3. ASSUME row[Target(w)].fence = w PROVE Holding(p, row[Target(w)])
    <3>1. /\ row[Target(w)].best = proc[w].best
          /\ row[Target(w)].parent # None => proc[w].best > 0
      BY <1>1, <2>3 DEF ProcFits, Holding, At
    <3>2. proc[w].best \in Nat
      BY <1>1, BoundsAssumption DEF ProcRow
    <3>3. QED
      BY <2>1, <2>2, <3>1, <3>2 DEF Holding
  <2>4. ProcFits(w, p, row[Target(w)])
    BY <2>1, <2>2, <2>3 DEF ProcFits, Final
  <2>5. QED
    BY <1>1, <1>2, <2>2, <2>4, ThinkStep
<1>8. QED
  BY <1>3, <1>4, <1>5, <1>6, <1>7

LEMMA CheckpointSteps ==
  ASSUME IInv, NEW w \in Workers, Checkpoint(w)
  PROVE  IInv'
<1> DEFINE q == proc[w].cand
<1>1. /\ proc[w] # NoProc /\ At(w, "store") /\ q \in 0..MaxQuality
      /\ ProcFits(w, proc[w], row[Target(w)])
  BY Known DEF Checkpoint, Pcs, ProcRow
<1>2. UNCHANGED queue /\ faults' \in 0..MaxFaults
  BY FaultBounded DEF Checkpoint
<1>3. PICK p : p = [Locals("solve") EXCEPT !.best = q]
  OBVIOUS
<1>4. p \in ProcRow /\ p.pc = "solve" /\ p.best = q
  BY <1>1, <1>3, LocalsFit DEF ProcRow, Pcs
<1>5. CASE Storable(w, q) /\ Store(w, q) /\ Goes(w, p)
  <2>1. row[Target(w)].parent # None => row[Target(w)].best > 0
    BY <1>1, <1>5, StoreKnows DEF Storable
  <2>2. QED
    BY <1>1, <1>2, <1>4, <1>5, <2>1, StoreSteps
<1>6. CASE q = proc[w].best /\ Fenced(w) /\ row' = row /\ Goes(w, p)
  <2>1. ProcFits(w, p, row[Target(w)])
    BY <1>1, <1>4, <1>6 DEF ProcFits, Holding, At
  <2>2. QED
    BY <1>1, <1>2, <1>4, <1>6, <2>1, ThinkStep
<1>7. CASE Ends(w, "release", "transient") /\ row' = row
  BY <1>1, <1>2, <1>7, GivesUp DEF Errors
<1>8. QED
  BY <1>3, <1>5, <1>6, <1>7 DEF Checkpoint

\* The row is freed with the status that the processor ends with.
LEMMA FreeingStep ==
  ASSUME IInv, UNCHANGED queue, NEW w \in Workers, proc[w] # NoProc,
         faults' \in 0..MaxFaults, Fenced(w), NEW status \in Ended \cup {"queued"},
         row' = [row EXCEPT ![Target(w)] = Freed(row[Target(w)], status)],
         status = "no_solution" => row[Target(w)].best = 0 /\ row[Target(w)].parent = None,
         status = "completed" => row[Target(w)].best > 0,
         NEW p \in ProcRow, Goes(w, p),
         \/ p.pc = "return" /\ status \in Ended
         \/ p.pc = "throw"
         \/ p.pc = "release" /\ p.end \in Errors
  PROVE  IInv'
<1>1. Target(w) \in Jobs /\ row[Target(w)].status \in Running
  BY AtWork, HolderRuns DEF IInv
<1>2. PICK r \in Row :
         /\ r = Freed(row[Target(w)], status) /\ RowFits(r) /\ r.fence = None
         /\ r.status = status /\ r.status \notin Running /\ Lasting(row[Target(w)], r)
  BY <1>1, FreedRow
<1>3. ProcFits(w, p, r)
  BY <1>2, NoneAssumption DEF ProcFits
<1>4. QED
  BY <1>2, <1>3, WorkStep DEF Goes

LEMMA FinishKnows ==
  ASSUME IInv, NEW w \in Workers, At(w, "finish"), Fenced(w)
  PROVE  /\ proc[w].end \in Final
         /\ proc[w].end = "no_solution" => row[Target(w)].best = 0 /\ row[Target(w)].parent = None
         /\ proc[w].end = "completed" => row[Target(w)].best > 0
  BY Known DEF Pcs, At, ProcFits, Holding, Fenced

LEMMA ReleasedStatus ==
  ASSUME NEW r, NEW error \in Errors
  PROVE  \E status \in {"failed", "cancelled", "queued"} : Released(r, error) = Freed(r, status)
  BY DEF Released

LEMMA FinishSteps ==
  ASSUME IInv, NEW w \in Workers, Finish(w)
  PROVE  IInv'
<1>1. proc[w] # NoProc /\ At(w, "finish") /\ Target(w) \in Jobs
  BY Known DEF Finish, Pcs
<1>2. UNCHANGED queue /\ faults' \in 0..MaxFaults
  BY FaultBounded DEF Finish
<1>3. CASE Fenced(w)
  <2>1. /\ row' = [row EXCEPT ![Target(w)] = Freed(row[Target(w)], proc[w].end)]
        /\ Goes(w, Locals("return"))
    BY <1>1, <1>3 DEF Finish
  <2>2. Locals("return") \in ProcRow /\ Locals("return").pc = "return"
    BY LocalsFit DEF Pcs
  <2>3. proc[w].end \in Ended
    BY <1>1, <1>3, FinishKnows DEF Final, Ended
  <2>4. QED
    BY <1>1, <1>2, <1>3, <2>1, <2>2, <2>3, FinishKnows, FreeingStep
<1>4. CASE ~Fenced(w)
  BY <1>1, <1>2, <1>4, GivesUp DEF Finish, Errors
<1>5. QED
  BY <1>3, <1>4

LEMMA ReleaseSteps ==
  ASSUME IInv, NEW w \in Workers, Release(w)
  PROVE  IInv'
<1>1. /\ proc[w] # NoProc /\ At(w, "release") /\ Target(w) \in Jobs
      /\ ProcFits(w, proc[w], row[Target(w)])
  BY Known DEF Release, Pcs
<1>2. UNCHANGED queue /\ faults' \in 0..MaxFaults /\ Goes(w, Locals("throw"))
  BY FaultBounded DEF Release
<1>3. CASE Fenced(w)
  <2>1. row' = [row EXCEPT ![Target(w)] = Released(row[Target(w)], proc[w].end)]
    BY <1>1, <1>3 DEF Release
  <2>2. PICK status \in {"failed", "cancelled", "queued"} :
          row' = [row EXCEPT ![Target(w)] = Freed(row[Target(w)], status)]
    BY <1>1, <2>1, ReleasedStatus DEF ProcFits, At
  <2>3. Locals("throw") \in ProcRow /\ Locals("throw").pc = "throw"
    BY LocalsFit DEF Pcs
  <2>4. QED
    BY <1>1, <1>2, <1>3, <2>2, <2>3, FreeingStep DEF Ended
<1>4. CASE ~Fenced(w)
  BY <1>1, <1>2, <1>4, GivesUp DEF Release
<1>5. QED
  BY <1>3, <1>4

\* Calls that do not arrive.
LEMMA UnreachableSteps ==
  ASSUME IInv, NEW w \in Workers, Unreachable(w)
  PROVE  IInv'
<1>1. proc[w] # NoProc
  BY DEF Unreachable, NoProc
<1>2. QED
  BY <1>1, FaultBounded, GivesUp DEF Unreachable, Errors

\* Calls that are answered by an error after their commit.
LEMMA UnheardSteps ==
  ASSUME IInv, NEW w \in Workers, Unheard(w)
  PROVE  IInv'
<1> DEFINE j == Target(w)
<1>1. /\ proc[w] # NoProc /\ j \in Jobs /\ row[j] \in Row /\ proc[w] \in ProcRow
      /\ ProcFits(w, proc[w], row[j])
  BY Known DEF Unheard, Pcs
<1>2. UNCHANGED queue /\ faults' \in 0..MaxFaults
  BY FaultBounded DEF Unheard
<1>3. /\ Locals("throw") \in ProcRow /\ Locals("throw").pc = "throw"
  BY LocalsFit DEF Pcs
<1>4. ASSUME Ends(w, "release", "transient")
      PROVE  \E p \in ProcRow : Goes(w, p) /\ p.pc = "release" /\ p.end \in Errors
  BY <1>4, EndsFit DEF Pcs, Errors
<1>5. CASE At(w, "claim") /\ Claimable(row[j]) /\ Goes(w, Locals("throw"))
             /\ row' = [row EXCEPT ![j] = Claimed(row[j], w)]
  <2>1. PICK r \in Row :
           /\ r = Claimed(row[j], w) /\ RowFits(r)
           /\ r.fence # None <=> r.status \in Running
           /\ Lasting(row[j], r) /\ r.fence = w
    BY <1>1, <1>5, ClaimedRow
  <2>2. ProcFits(w, Locals("throw"), r)
    BY <1>3 DEF ProcFits, Holding
  <2>3. QED
    BY <1>1, <1>2, <1>3, <1>5, <2>1, <2>2, WorkStep DEF Goes
<1>6. CASE At(w, "clone") /\ Storable(w, proc[w].best) /\ Store(w, proc[w].best)
             /\ Goes(w, Locals("throw"))
  <2>1. proc[w].best \in 0..MaxQuality
    BY <1>1 DEF ProcRow
  <2>2. QED
    BY <1>1, <1>2, <1>3, <1>6, <2>1, CloneKnows, StoreSteps
<1>7. CASE At(w, "store") /\ Storable(w, proc[w].cand) /\ Store(w, proc[w].cand)
             /\ Ends(w, "release", "transient")
  <2>1. proc[w].cand \in 0..MaxQuality
    BY <1>1 DEF ProcRow
  <2>2. row[j].parent # None => row[j].best > 0
    BY <1>7, StoreKnows DEF Storable
  <2>3. PICK p \in ProcRow : Goes(w, p) /\ p.pc = "release" /\ p.end \in Errors
    BY <1>4, <1>7
  <2>4. QED
    BY <1>1, <1>2, <1>7, <2>1, <2>2, <2>3, StoreSteps
<1>8. CASE At(w, "finish") /\ Fenced(w) /\ Ends(w, "release", "transient")
             /\ row' = [row EXCEPT ![j] = Freed(row[j], proc[w].end)]
  <2>1. PICK p \in ProcRow : Goes(w, p) /\ p.pc = "release" /\ p.end \in Errors
    BY <1>4, <1>8
  <2>2. proc[w].end \in Ended
    BY <1>8, FinishKnows DEF Final, Ended
  <2>3. QED
    BY <1>1, <1>2, <1>8, <2>1, <2>2, FinishKnows, FreeingStep
<1>9. CASE At(w, "release") /\ Fenced(w) /\ Goes(w, Locals("throw"))
             /\ row' = [row EXCEPT ![j] = Released(row[j], proc[w].end)]
  <2>1. PICK status \in {"failed", "cancelled", "queued"} :
          row' = [row EXCEPT ![j] = Freed(row[j], status)]
    BY <1>1, <1>9, ReleasedStatus DEF ProcFits, At
  <2>2. QED
    BY <1>1, <1>2, <1>3, <1>9, <2>1, FreeingStep DEF Ended
<1>10. QED
  BY <1>1, <1>5, <1>6, <1>7, <1>8, <1>9 DEF Unheard

-----------------------------------------------------------------------------
(* Every step                                                               *)

LEMMA Start0 ==
  ASSUME Init
  PROVE  IInv
<1>1. job \in [Jobs -> JobRow]
  <2>1. NoJob \in JobRow
    BY DEF NoJob, JobRow
  <2>2. QED
    BY <2>1 DEF Init, QueueInit
<1>2. QueueTypeOK
  BY <1>1, CallsAssumption DEF Init, QueueInit, QueueTypeOK, JobRow
<1>3. row \in [Jobs -> Row] /\ \A j \in Jobs : row[j] = NoRow
  <2>1. NoRow \in Row
    BY BoundsAssumption DEF NoRow, Row
  <2>2. QED
    BY <2>1 DEF Init
<1>4. /\ NoRow.status = "none" /\ NoRow.parent = None /\ NoRow.fence = None
      /\ NoRow.status \notin Running
  BY DEF NoRow, Running
<1>5. \A w \in Workers : proc[w] = NoProc /\ worker[w].pc # "run"
  BY DEF Init, QueueInit, Idle
<1>6. proc \in [Workers -> {NoProc} \cup ProcRow] /\ faults \in 0..MaxFaults
  BY BoundsAssumption DEF Init
<1>7. TypeOK
  BY <1>2, <1>3, <1>4, <1>5, <1>6 DEF TypeOK, Row
<1>8. CompletedMeansEnded
  <2>1. NoJob.state = "none"
    BY DEF NoJob
  <2>2. QED
    BY <2>1 DEF Init, QueueInit, CompletedMeansEnded
<1>9. \A j \in Jobs : RowFits(row[j])
  BY <1>3, <1>4 DEF RowFits
<1>10. QED
  BY <1>5, <1>7, <1>8, <1>9 DEF IInv

LEMMA Inductive ==
  ASSUME IInv, [Next]_vars
  PROVE  IInv'
<1>1. ASSUME NEW j \in Jobs, Organiser(j) \/ RecoverQueued(j) \/ LeaseLapses(j)
      PROVE  IInv'
  BY <1>1, OrganiserSteps, LapseStep
<1>2. ASSUME NEW w \in Workers, Process(w)
      PROVE  IInv'
  BY <1>2, StartSteps, LeavingSteps, ClaimSteps, CloneSteps, SolveSteps, CheckpointSteps,
     FinishSteps, ReleaseSteps DEF Process
<1>3. ASSUME NEW w \in Workers, SolverFails(w) \/ Unreachable(w) \/ Unheard(w) \/ Crash(w)
      PROVE  IInv'
  BY <1>3, SolveSteps, UnreachableSteps, UnheardSteps, StartSteps
<1>4. ASSUME NEW w \in Workers, NEW j \in Jobs, TakeJob(w, j) \/ MarkDeadLettered(w, j)
      PROVE  IInv'
  BY <1>4, StartSteps, DeadLetterStep
<1>5. CASE Queue
  BY <1>5, QueueSteps
<1>6. CASE UNCHANGED vars
  <2>1. UNCHANGED queue /\ row' = row /\ proc' = proc /\ faults' = faults
    BY <1>6 DEF vars
  <2>2. QED
    BY <2>1, SameQueue, FaultBounded, QueueStep
<1>7. QED
  BY <1>1, <1>2, <1>3, <1>4, <1>5, <1>6 DEF Next

(***************************************************************************)
(* The invariant holds in every state: what the row of a job says fits its *)
(* result, and a processor that holds the fence knows both.                *)
(***************************************************************************)
THEOREM JobsHold == Spec => []IInv
<1>1. Init => IInv
  BY Start0
<1>2. IInv /\ [Next]_vars => IInv'
  BY Inductive
<1>3. QED
  BY <1>1, <1>2, PTL DEF Spec

(***************************************************************************)
(* Rows, queue and processors have their types, a row has a fence exactly  *)
(* while it is worked on, and a slot a processor while the handler runs.   *)
(***************************************************************************)
THEOREM JobsTypes == Spec => []TypeOK
<1>1. IInv => TypeOK
  BY DEF IInv
<1>2. QED
  BY <1>1, JobsHold, PTL

(***************************************************************************)
(* What BullMQ counts as completed has a row that ended, for any number of *)
(* attempts, crashes, lapsed leases and operators' calls.                  *)
(***************************************************************************)
THEOREM CompletedHasEnded == Spec => []CompletedMeansEnded
<1>1. IInv => CompletedMeansEnded
  BY DEF IInv
<1>2. QED
  BY <1>1, JobsHold, PTL

(***************************************************************************)
(* A row ends as its result says, whichever attempt ended it.              *)
(***************************************************************************)
THEOREM OutcomeIsResult == Spec => []OutcomeMatchesResult
<1>1. IInv => OutcomeMatchesResult
  BY DEF IInv, RowFits, OutcomeMatchesResult
<1>2. QED
  BY <1>1, JobsHold, PTL

(***************************************************************************)
(* A continuation with a result is not worse than what it continues.       *)
(***************************************************************************)
THEOREM ContinuationIsNoWorse == Spec => []ContinuationKeepsBest
<1>1. ASSUME IInv PROVE ContinuationKeepsBest
  <2> SUFFICES ASSUME NEW j \in Jobs, row[j].parent # None,
                      row[j].status \in {"valid_best_found", "completed", "no_solution"}
               PROVE  row[j].best >= row[row[j].parent].best
    BY DEF ContinuationKeepsBest
  <2>1. RowFits(row[j])
    BY <1>1 DEF IInv
  <2>2. row[j].best > 0
    BY <2>1 DEF RowFits
  <2>3. QED
    BY <2>1, <2>2 DEF RowFits
<1>2. QED
  BY <1>1, JobsHold, PTL

-----------------------------------------------------------------------------
(* Cancellation and results                                                 *)

\* A cancelled job's result stays.
ResultStays == \A j \in Jobs : row[j].asked => row'[j].best = row[j].best

\* A row is replaced by one with the same result.
LEMMA SameBest ==
  ASSUME row \in [Jobs -> Row], NEW j \in Jobs, NEW r, row' = [row EXCEPT ![j] = r],
         row[j].asked => r.best = row[j].best
  PROVE  ResultStays
  BY DEF ResultStays

LEMMA RowSame ==
  ASSUME row' = row
  PROVE  ResultStays
  BY DEF ResultStays

LEMMA StoringStays ==
  ASSUME IInv, NEW w \in Workers, Target(w) \in Jobs, NEW q, Storable(w, q), Store(w, q)
  PROVE  ResultStays
  BY Parts DEF IInv, Storable, Store, ResultStays

LEMMA WritesKeepBest ==
  ASSUME NEW r \in Row, NEW w \in Workers
  PROVE  /\ Claimed(r, w).best = r.best
         /\ \A status \in Ended \cup {"queued"} : Freed(r, status).best = r.best
         /\ \A error \in Errors : Released(r, error).best = r.best
<1>1. \A status \in Ended \cup {"queued"} : Freed(r, status).best = r.best
  BY DEF Freed, Row
<1>2. \A error \in Errors : Released(r, error).best = r.best
  BY <1>1, ReleasedStatus DEF Ended
<1>3. Claimed(r, w).best = r.best
  BY DEF Claimed, Row
<1>4. QED
  BY <1>1, <1>2, <1>3

LEMMA ApiKeeps ==
  ASSUME IInv, NEW j \in Jobs, Organiser(j) \/ RecoverQueued(j) \/ LeaseLapses(j)
  PROVE  ResultStays
<1>1. row \in [Jobs -> Row] /\ row[j] \in Row /\ RowFits(row[j])
  BY Parts DEF IInv
<1>2. ASSUME NEW parent, Insert(j, parent) PROVE ResultStays
  <2>1. row[j].asked = FALSE
    BY <1>1, <1>2 DEF Insert, RowFits, NoRow
  <2>2. PICK r : row' = [row EXCEPT ![j] = r]
    BY <1>2 DEF Insert
  <2>3. QED
    BY <1>1, <2>1, <2>2, SameBest
<1>3. CASE CancelScheduleJob(j)
  <2>1. PICK r : /\ row' = [row EXCEPT ![j] = r]
                 /\ r = [row[j] EXCEPT !.asked = TRUE,
                           !.status = IF @ = "queued" THEN "cancelled" ELSE "cancelling"]
    BY <1>1, <1>3 DEF CancelScheduleJob
  <2>2. r.best = row[j].best
    BY <1>1, <2>1 DEF Row
  <2>3. QED
    BY <1>1, <2>1, <2>2, SameBest
<1>4. CASE LeaseLapses(j)
  <2>1. PICK r : row' = [row EXCEPT ![j] = r] /\ r = [row[j] EXCEPT !.live = FALSE]
    BY <1>1, <1>4 DEF LeaseLapses
  <2>2. r.best = row[j].best
    BY <1>1, <2>1 DEF Row
  <2>3. QED
    BY <1>1, <2>1, <2>2, SameBest
<1>5. CASE EnqueueReference(j) \/ RecoverQueued(j)
  BY <1>5, RowSame DEF EnqueueReference, RecoverQueued
<1>6. QED
  BY <1>2, <1>3, <1>4, <1>5 DEF Organiser, GenerateSchedule, ContinueScheduleJob

LEMMA ProcessKeeps ==
  ASSUME IInv, NEW w \in Workers, Process(w)
  PROVE  ResultStays
<1>1. row \in [Jobs -> Row]
  BY Parts DEF IInv
<1>2. ASSUME NEW pc \in Pcs, At(w, pc)
      PROVE  Target(w) \in Jobs /\ row[Target(w)] \in Row /\ ProcFits(w, proc[w], row[Target(w)])
  BY <1>2, Known
<1>3. CASE Claim(w)
  <2>1. \/ row' = row
        \/ row' = [row EXCEPT ![Target(w)] = Claimed(row[Target(w)], w)]
    BY <1>3 DEF Claim
  <2>2. Target(w) \in Jobs /\ Claimed(row[Target(w)], w).best = row[Target(w)].best
    BY <1>2, <1>3, WritesKeepBest DEF Claim, Pcs
  <2>3. QED
    BY <1>1, <2>1, <2>2, SameBest, RowSame
<1>4. CASE Clone(w) \/ Checkpoint(w)
  <2>1. Target(w) \in Jobs
    BY <1>2, <1>4 DEF Clone, Checkpoint, Pcs
  <2>2. \/ row' = row
        \/ \E q : Storable(w, q) /\ Store(w, q)
    BY <1>4 DEF Clone, Checkpoint
  <2>3. QED
    BY <2>1, <2>2, StoringStays, RowSame
<1>5. CASE Finish(w)
  <2>1. CASE Fenced(w)
    <3>1. Target(w) \in Jobs /\ row[Target(w)] \in Row /\ proc[w].end \in Ended
      BY <1>2, <1>5, <2>1, FinishKnows DEF Finish, Pcs, Final, Ended
    <3>2. row' = [row EXCEPT ![Target(w)] = Freed(row[Target(w)], proc[w].end)]
      BY <1>1, <1>5, <2>1, <3>1 DEF Finish
    <3>3. QED
      BY <1>1, <3>1, <3>2, WritesKeepBest, SameBest
  <2>2. CASE ~Fenced(w)
    BY <1>5, <2>2, RowSame DEF Finish
  <2>3. QED
    BY <2>1, <2>2
<1>6. CASE Release(w)
  <2>1. /\ Target(w) \in Jobs /\ row[Target(w)] \in Row /\ proc[w].end \in Errors
    BY <1>2, <1>6 DEF Release, Pcs, ProcFits, At
  <2>2. \/ row' = row
        \/ row' = [row EXCEPT ![Target(w)] = Released(row[Target(w)], proc[w].end)]
    BY <1>6 DEF Release
  <2>3. QED
    BY <1>1, <2>1, <2>2, WritesKeepBest, SameBest, RowSame
<1>7. CASE ~(Claim(w) \/ Clone(w) \/ Checkpoint(w) \/ Finish(w) \/ Release(w))
  BY <1>7, RowSame DEF Process, Start, Discard, Stopped, Yield, Solved, Return, Throw
<1>8. QED
  BY <1>3, <1>4, <1>5, <1>6, <1>7

LEMMA UnheardKeeps ==
  ASSUME IInv, NEW w \in Workers, Unheard(w)
  PROVE  ResultStays
<1>1. row \in [Jobs -> Row]
  BY Parts DEF IInv
<1>2. /\ Target(w) \in Jobs /\ row[Target(w)] \in Row
      /\ ProcFits(w, proc[w], row[Target(w)])
  BY Known DEF Unheard, Pcs
<1>3. CASE row' = [row EXCEPT ![Target(w)] = Claimed(row[Target(w)], w)]
  BY <1>1, <1>2, <1>3, WritesKeepBest, SameBest
<1>4. ASSUME NEW q, Storable(w, q), Store(w, q) PROVE ResultStays
  BY <1>2, <1>4, StoringStays
<1>5. CASE At(w, "finish") /\ Fenced(w)
             /\ row' = [row EXCEPT ![Target(w)] = Freed(row[Target(w)], proc[w].end)]
  <2>1. proc[w].end \in Ended
    BY <1>5, FinishKnows DEF Final, Ended
  <2>2. QED
    BY <1>1, <1>2, <1>5, <2>1, WritesKeepBest, SameBest
<1>6. CASE At(w, "release")
             /\ row' = [row EXCEPT ![Target(w)] = Released(row[Target(w)], proc[w].end)]
  <2>1. proc[w].end \in Errors
    BY <1>2, <1>6 DEF ProcFits, At
  <2>2. QED
    BY <1>1, <1>2, <1>6, <2>1, WritesKeepBest, SameBest
<1>7. QED
  BY <1>3, <1>4, <1>5, <1>6 DEF Unheard

LEMMA DeadLetterKeeps ==
  ASSUME IInv, NEW w \in Workers, NEW j \in Jobs, MarkDeadLettered(w, j)
  PROVE  ResultStays
<1>1. row \in [Jobs -> Row] /\ row[j] \in Row
  BY Parts DEF IInv
<1>2. CASE row' = [row EXCEPT ![j].status = "failed"]
  <2>1. PICK r : row' = [row EXCEPT ![j] = r] /\ r = [row[j] EXCEPT !.status = "failed"]
    BY <1>1, <1>2
  <2>2. r.best = row[j].best
    BY <1>1, <2>1 DEF Row
  <2>3. QED
    BY <1>1, <2>1, <2>2, SameBest
<1>3. QED
  BY <1>2, RowSame DEF MarkDeadLettered

(***************************************************************************)
(* After a cancellation the result is what it was, whatever attempts still *)
(* run, were lost, or had their answers lost.                              *)
(***************************************************************************)
THEOREM CancelledResultStays == Spec => CancelledKeepsResult
<1>1. ASSUME IInv, Next PROVE ResultStays
  <2>1. ASSUME NEW j \in Jobs, Organiser(j) \/ RecoverQueued(j) \/ LeaseLapses(j)
        PROVE  ResultStays
    BY <1>1, <2>1, ApiKeeps
  <2>2. ASSUME NEW w \in Workers, Process(w) \/ Unheard(w)
        PROVE  ResultStays
    BY <1>1, <2>2, ProcessKeeps, UnheardKeeps
  <2>3. ASSUME NEW w \in Workers, SolverFails(w) \/ Unreachable(w) \/ Crash(w)
        PROVE  ResultStays
    BY <2>3, RowSame DEF SolverFails, Unreachable, Crash
  <2>4. ASSUME NEW w \in Workers, NEW j \in Jobs, TakeJob(w, j) \/ MarkDeadLettered(w, j)
        PROVE  ResultStays
    BY <1>1, <2>4, DeadLetterKeeps, RowSame DEF TakeJob
  <2>5. CASE Queue
    BY <2>5, RowSame DEF Queue
  <2>6. QED
    BY <1>1, <2>1, <2>2, <2>3, <2>4, <2>5 DEF Next
<1>2. IInv /\ [Next]_vars => [\A j \in Jobs : row[j].asked => row'[j].best = row[j].best]_vars
  BY <1>1 DEF ResultStays
<1>3. QED
  BY <1>2, JobsHold, PTL DEF Spec, CancelledKeepsResult
=============================================================================
