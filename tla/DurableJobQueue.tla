-------------------------- MODULE DurableJobQueue --------------------------
(***************************************************************************)
(* packages/jobs: a BullMQ queue with deterministic job ids, cooperative   *)
(* cancellation and a dead-letter queue.  What BullMQ keeps in Redis is    *)
(* job; dead, marker and the answers of the adapter are its own.  A worker *)
(* is one slot of a worker process: a slot runs one job at a time.  The    *)
(* adapter's event handlers run in the process, after the job was moved.   *)
(***************************************************************************)
EXTENDS Naturals, FiniteSets

CONSTANTS
  Jobs,       \* deterministic job ids
  Workers,    \* slots of worker processes
  None,       \* nobody
  Attempts,   \* attempts of a job
  MaxCalls    \* bound: calls of cancel and retryDeadLetter

ASSUME AttemptsAssumption == Attempts \in Nat \ {0}
ASSUME CallsAssumption == MaxCalls \in Nat
ASSUME NoneAssumption == None \notin Jobs \cup Workers

VARIABLES
  job,     \* state, attemptsMade, how often it stalled, and who holds its lock
  dead,    \* jobs with a record in the dead-letter queue
  marker,  \* jobs with a cancellation marker
  worker,  \* what each slot is doing
  events,  \* handlers of worker events that are still to run, by slot
  call,    \* the call of cancel or retryDeadLetter that is under way
  calls    \* number of those calls

queue == <<job, dead, marker, worker, events, call, calls>>

Idle == [pc |-> "idle"]
NoCall == [pc |-> "none"]
NoJob == [state |-> "none", made |-> 0, stalls |-> 0, owner |-> None]

Absent(j) == job[j].state \in {"none", "removed"}
Busy(w) == worker[w].pc # "idle"
Target(w) == worker[w].job
Owns(w) == Busy(w) /\ job[Target(w)].state = "active" /\ job[Target(w)].owner = w

Pending(kind) == {j \in Jobs : \E w \in Workers : [kind |-> kind, job |-> j] \in events[w]}

QueueTypeOK ==
  /\ job \in [Jobs -> [state : {"none", "removed", "waiting", "delayed", "active",
                                "completed", "failed"},
                       made : Nat, stalls : 0..1, owner : Workers \cup {None}]]
  /\ dead \subseteq Jobs /\ marker \subseteq Jobs
  /\ worker \in [Workers -> {Idle} \cup [pc : {"check", "run"}, job : Jobs]]
  /\ events \in [Workers -> SUBSET [kind : {"clear", "file", "hook"}, job : Jobs]]
  /\ call \in {NoCall} \cup [pc : {"mark", "remove", "retry", "drop"}, job : Jobs]
  /\ calls \in 0..MaxCalls

QueueInit ==
  /\ job = [j \in Jobs |-> NoJob]
  /\ dead = {} /\ marker = {}
  /\ worker = [w \in Workers |-> Idle]
  /\ events = [w \in Workers |-> {}]
  /\ call = NoCall /\ calls = 0

----------------------------------------------------------------------------
(* Producers.  getJob and add need not be one step: add keeps the job that *)
(* has the id.                                                             *)

Added(j) == IF Absent(j) THEN [job EXCEPT ![j] = [NoJob EXCEPT !.state = "waiting"]] ELSE job

Enqueue(j) == job' = Added(j) /\ UNCHANGED <<dead, marker, worker, events, call, calls>>

----------------------------------------------------------------------------
(* BullMQ.                                                                 *)

Promote(j) ==
  /\ job[j].state = "delayed"
  /\ job' = [job EXCEPT ![j].state = "waiting"]
  /\ UNCHANGED <<dead, marker, worker, events, call, calls>>

\* A lock that was not renewed in time: another worker's check puts the job
\* back, or fails it when that happened before.
Stall(j) ==
  /\ job[j].state = "active"
  /\ job' = [job EXCEPT ![j] = IF @.stalls = 0
                               THEN [@ EXCEPT !.state = "waiting", !.stalls = 1, !.owner = None]
                               ELSE [@ EXCEPT !.state = "failed", !.owner = None]]
  /\ UNCHANGED <<dead, marker, worker, events, call, calls>>

Take(w, j) ==
  /\ ~Busy(w) /\ job[j].state = "waiting"
  /\ job' = [job EXCEPT ![j].state = "active", ![j].owner = w]
  /\ worker' = [worker EXCEPT ![w] = [pc |-> "check", job |-> j]]
  /\ UNCHANGED <<dead, marker, events, call, calls>>

\* A slot leaves its job.  BullMQ accepts the outcome from the holder of the
\* lock only, and only then does the worker emit an event.
Leave(w, outcome, kinds) ==
  /\ worker' = [worker EXCEPT ![w] = Idle]
  /\ IF Owns(w)
     THEN /\ job' = [job EXCEPT ![Target(w)] = [outcome EXCEPT !.owner = None]]
          /\ events' = [events EXCEPT ![w] = @ \cup [kind : kinds, job : {Target(w)}]]
     ELSE UNCHANGED <<job, events>>
  /\ UNCHANGED <<dead, marker, call, calls>>

----------------------------------------------------------------------------
(* The worker's processor, around the handler.                             *)

\* The handler is called when no cancellation was requested.
StartHandler(w) ==
  /\ worker[w].pc = "check" /\ Target(w) \notin marker
  /\ worker' = [worker EXCEPT ![w].pc = "run"]
  /\ UNCHANGED <<job, dead, marker, events, call, calls>>

\* discard and JobCancelledError: failed without another attempt.
DiscardJob(w) ==
  /\ worker[w].pc = "check" /\ Target(w) \in marker
  /\ Leave(w, [job[Target(w)] EXCEPT !.state = "failed", !.made = @ + 1], {"clear"})

Succeed(w) ==
  /\ worker[w].pc = "run"
  /\ Leave(w, [job[Target(w)] EXCEPT !.state = "completed", !.made = @ + 1], {"clear"})

Exhausted(made) == made >= Attempts

\* Fault: every failure clears the marker, not only a cancellation.
FailClearing(w) ==
  /\ worker[w].pc = "run"
  /\ LET made == job[Target(w)].made + 1 IN
       Leave(w, [job[Target(w)] EXCEPT !.state = IF Exhausted(made) THEN "failed" ELSE "delayed",
                                       !.made = made],
             IF Exhausted(made) THEN {"clear", "file"} ELSE {"clear"})

Fail(w) ==
  /\ worker[w].pc = "run"
  /\ LET made == job[Target(w)].made + 1 IN
       Leave(w, [job[Target(w)] EXCEPT !.state = IF Exhausted(made) THEN "failed" ELSE "delayed",
                                       !.made = made],
             IF Exhausted(made) THEN {"file"} ELSE {})

Handled(w, kind, j) == events' = [events EXCEPT ![w] = @ \ {[kind |-> kind, job |-> j]}]

ClearMarker(w, j) ==
  /\ [kind |-> "clear", job |-> j] \in events[w]
  /\ marker' = marker \ {j}
  /\ Handled(w, "clear", j)
  /\ UNCHANGED <<job, dead, worker, call, calls>>

\* The record keeps its id, so a second one is ignored; the hook is called
\* either way.
MoveToDeadLetter(w, j) ==
  /\ [kind |-> "file", job |-> j] \in events[w]
  /\ dead' = dead \cup {j}
  /\ events' = [events EXCEPT ![w] = (@ \ {[kind |-> "file", job |-> j]})
                                       \cup {[kind |-> "hook", job |-> j]}]
  /\ UNCHANGED <<job, marker, worker, call, calls>>

\* The process dies: its jobs stay locked, what its handlers had to do is lost.
KillSlot(w) ==
  /\ Busy(w) \/ events[w] # {}
  /\ worker' = [worker EXCEPT ![w] = Idle]
  /\ events' = [events EXCEPT ![w] = {}]
  /\ UNCHANGED <<job, dead, marker, call, calls>>

----------------------------------------------------------------------------
(* cancel and retryDeadLetter read the job, then act on what they read.    *)

Call(pc, j) == /\ call = NoCall /\ calls < MaxCalls
               /\ call' = [pc |-> pc, job |-> j] /\ calls' = calls + 1
               /\ UNCHANGED <<job, dead, marker, worker, events>>

Cancel(j) ==
  \/ job[j].state = "active" /\ Call("mark", j)
  \/ job[j].state \in {"waiting", "delayed"} /\ Call("remove", j)

RetryDeadLetter(j) == job[j].state = "failed" /\ j \in dead /\ Call("retry", j)

SetMarker ==
  /\ call.pc = "mark"
  /\ marker' = marker \cup {call.job}
  /\ call' = NoCall
  /\ UNCHANGED <<job, dead, worker, events, calls>>

\* BullMQ refuses to remove a job that is locked.
RemoveJob ==
  /\ call.pc = "remove"
  /\ job' = IF job[call.job].state = "active" \/ Absent(call.job) THEN job
            ELSE [job EXCEPT ![call.job] = [NoJob EXCEPT !.state = "removed"]]
  /\ call' = NoCall
  /\ UNCHANGED <<dead, marker, worker, events, calls>>

\* The attempts made stay: one more failure exhausts the job again.
RetryJob ==
  /\ call.pc = "retry"
  /\ IF job[call.job].state = "failed"
     THEN /\ job' = [job EXCEPT ![call.job].state = "waiting"]
          /\ call' = [call EXCEPT !.pc = "drop"]
     ELSE call' = NoCall /\ UNCHANGED job
  /\ UNCHANGED <<dead, marker, worker, events, calls>>

DropDeadLetter ==
  /\ call.pc = "drop"
  /\ dead' = dead \ {call.job}
  /\ call' = NoCall
  /\ UNCHANGED <<job, marker, worker, events, calls>>

Operator ==
  \/ \E j \in Jobs : Cancel(j) \/ RetryDeadLetter(j)
  \/ SetMarker \/ RemoveJob \/ RetryJob \/ DropDeadLetter

\* What the queue does by itself.
Background ==
  \/ \E j \in Jobs : Promote(j) \/ Stall(j)
  \/ \E w \in Workers, j \in Jobs : ClearMarker(w, j) \/ MoveToDeadLetter(w, j)
  \/ Operator

----------------------------------------------------------------------------
(***************************************************************************)
(* Cancellation stands: once cancel has answered that it is requested, the *)
(* request is forgotten only when the job has completed or failed, however *)
(* late the workers' event handlers run and whichever slot they belong to. *)
(* So it is of one call: a second cancel may remove the job while the      *)
(* handler of the first is still to run, and that handler may then clear   *)
(* the request after a removal, or a later one of a job queued again.      *)
(***************************************************************************)
CancellationStands ==
  [][\A j \in marker : j \notin marker' => job[j].state \in {"completed", "failed"}]_queue

(***************************************************************************)
(* The README: "Exhausted jobs are copied to `<queue>.dead-letter`": the   *)
(* record of a job is not removed while the job is failed, unless another  *)
(* copy is on its way.                                                     *)
(***************************************************************************)
DeadLetterKept ==
  [][\A j \in dead : j \notin dead' => job[j].state # "failed" \/ j \in Pending("file")]_queue
=============================================================================
