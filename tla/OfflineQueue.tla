---------------------------- MODULE OfflineQueue ----------------------------
(***************************************************************************)
(* The queue a phone keeps while it scores without a network, for one      *)
(* offline authorization: the IndexedDB stores, recording in them, and the *)
(* replay that uploads them from any tab of the browser, against the       *)
(* server's stream of the match (packages/domain/src/offline-scoring.ts,   *)
(* apps/web/lib/offline-scoring/*.ts, offline-scoring-port.ts,             *)
(* offline-scoring-coordinator.ts, components/phase2/PhoneScoring.tsx).    *)
(*                                                                         *)
(* Every IndexedDB transaction and every server transaction is one step.   *)
(* A request in flight may be given up (timeout, network error) before or  *)
(* after the server has handled it, and the server may handle a request    *)
(* that was given up later on.  A tab may be closed at any step and leaves *)
(* its lease row behind.  What a tap says is abstracted to its identity:   *)
(* ids count the taps made, 0 stands for an event of somebody else.        *)
(*                                                                         *)
(* Time: a replay lease is live for 30 seconds after its last renewal, the *)
(* authorization may record while its window is open and replay until it   *)
(* is closed; the server's and the phone's copies of the window agree.     *)
(***************************************************************************)
EXTENDS Naturals, Sequences, FiniteSets

CONSTANTS
  Tabs,         \* pages of the browser profile that holds the stores
  Frail,        \* tabs that may be closed while they work
  None,         \* nobody
  WebLocks,     \* the browser has navigator.locks
  Exports,      \* the scorer takes diagnostic exports
  ScoresOnline, \* the scorer also scores online after preparing
  MaxTaps,      \* bound on the taps made
  MaxForeign,   \* bound on the events of others
  MaxAttempts   \* uploads of one command in one replay, 6 in the code

ASSUME TabsAssumption == None \notin Tabs /\ Frail \subseteq Tabs
ASSUME BoundsAssumption ==
  MaxTaps \in Nat /\ MaxForeign \in Nat /\ MaxAttempts \in Nat \ {0}
ASSUME ChoicesAssumption == {WebLocks, ScoresOnline, Exports} \subseteq BOOLEAN

VARIABLES
  stream,    \* server: canonical_score_events of the match, as tap ids
  final,     \* server: the match is final or corrected
  authority, \* server: what became of the phone's authorization and lease
  window,    \* the authorization's recording and replay windows
  cookie,    \* the browser's session cookie is the one the server knows
  pkg,       \* match_packages: status and last_acknowledged_sequence
  commands,  \* commands, by local_sequence
  acks,      \* acknowledgements, by local_sequence: their sequence
  conflicts, \* conflicts: local_sequence and code
  lease,     \* replay_state: owner and whether the lease is live
  lock,      \* holder of the Web Lock of this authorization
  exported,  \* the diagnostic export that is attested: what it covers, or None
  tab,       \* what each tab is doing
  late,      \* requests given up that the server may still handle
  taps,      \* number of taps made
  stored     \* taps the phone has reported as recorded offline

store == <<pkg, commands, acks, conflicts, exported>>
server == <<stream, final, authority>>
vars == <<stream, final, authority, window, cookie, pkg, commands, acks,
          conflicts, exported, lease, lock, tab, late, taps, stored>>

----------------------------------------------------------------------------
Statuses == {"active", "expired", "revoked", "transferred", "completed", "none"}
Codes == {"invalid", "stale", "reused", "version", "expired", "revoked", "transferred"}

CommandRow == [id : Nat, expected : Nat, final : BOOLEAN]
Answers ==
  [kind : {"none", "retry"}] \cup [kind : {"ack"}, seq : Nat]
    \cup [kind : {"blocked"}, code : Codes]

NoAnswer == [kind |-> "none"]
Acked(s) == [kind |-> "ack", seq |-> s]
Blocked(c) == [kind |-> "blocked", code |-> c]

\* A tab at rest, one that records a tap, one that replays.
Idle == [pc |-> "idle"]
Recording ==
  [pc : {"package", "queue"}, id : Nat, final : BOOLEAN, acked : Nat,
   local : Nat, pending : Nat]
Replaying ==
  [pc : {"send", "wait", "store", "refresh", "block", "conflict"},
   n : Nat, cmd : CommandRow, try : Nat, got : Answers, fresh : BOOLEAN, refreshed : BOOLEAN]
Elsewhere ==
  [pc : {"idle", "closed", "establish", "acquire", "pick", "complete",
         "recover", "discard"}]
    \cup [pc : {"release"}, done : BOOLEAN] \cup [pc : {"save"}, seq : Nat]

Pending == Len(commands) - Len(acks)

\* What the diagnostic export attests.
Snapshot ==
  [pkg |-> pkg, commands |-> commands, acks |-> acks, conflicts |-> conflicts]
PackageRow == [status : Statuses, acked : Nat]
ConflictRow == [n : Nat, code : Codes]
Snapshots ==
  [pkg : PackageRow, commands : Seq(CommandRow), acks : Seq(Nat),
   conflicts : SUBSET ConflictRow]
Exporting == [pc : {"export"}, snap : Snapshots]

Init ==
  /\ stream = <<>> /\ final = FALSE
  /\ authority = "active" /\ window = "open" /\ cookie = TRUE
  /\ pkg = [status |-> "active", acked |-> 0]
  /\ commands = <<>> /\ acks = <<>> /\ conflicts = {}
  /\ lease = [owner |-> None, live |-> FALSE] /\ lock = None
  /\ exported = None
  /\ tab = [t \in Tabs |-> Idle] /\ late = {}
  /\ taps = 0 /\ stored = {}

----------------------------------------------------------------------------
(* The server.                                                             *)

Committed(id) == \E i \in DOMAIN stream : stream[i] = id
Position(id) == CHOOSE i \in DOMAIN stream : stream[i] = id

\* Fault: the sequence that a command expects is not compared.
RefusalOfAnyVersion(req, fresh) ==
  CASE ~fresh \/ authority = "revoked" -> "invalid"
    [] fresh /\ authority \in {"lapsed", "transferred"} -> "stale"
    [] fresh /\ authority = "active" /\ Committed(req.id) -> "duplicate"
    [] fresh /\ authority = "active" /\ ~Committed(req.id) /\ final -> "invalid"
    [] OTHER -> IF window = "closed" THEN "expired" ELSE "none"

\* Why a command is not accepted as new; the first reason that applies.
Refusal(req, fresh) ==
  CASE ~fresh \/ authority = "revoked" -> "invalid"
    [] fresh /\ authority \in {"lapsed", "transferred"} -> "stale"
    [] fresh /\ authority = "active" /\ Committed(req.id) -> "duplicate"
    [] fresh /\ authority = "active" /\ ~Committed(req.id) /\ final -> "invalid"
    [] OTHER -> IF Len(stream) # req.expected THEN "version"
                ELSE IF window = "closed" THEN "expired" ELSE "none"

\* Fault: a duplicate is answered with the place the client expects.
AnswerAsExpected(req, fresh) ==
  LET why == Refusal(req, fresh) IN
    CASE why \in {"none", "duplicate"} -> Acked(req.expected + 1)
      [] OTHER -> Blocked(why)

\* The answer to a command.  A finalisation's fingerprint covers the
\* sequence it expects, an event's does not.
Answer(req, fresh) ==
  LET why == Refusal(req, fresh) IN
    CASE why = "none" -> Acked(Len(stream) + 1)
      [] why = "duplicate" ->
           IF req.final /\ Position(req.id) # req.expected + 1
           THEN Blocked("reused") ELSE Acked(Position(req.id))
      [] OTHER -> Blocked(why)

Accept(req, fresh) ==
  IF Refusal(req, fresh) = "none"
  THEN /\ stream' = Append(stream, req.id)
       /\ final' = req.final
  ELSE UNCHANGED <<stream, final>>

\* What resumeOfflineAuthorization answers.
ResumeCode ==
  CASE authority = "transferred" -> "transferred"
    [] authority = "revoked" -> "revoked"
    [] OTHER -> IF window = "closed" THEN "expired" ELSE "active"

\* Resuming takes the lease again and rotates the session's token: requests
\* on their way with the old one will be denied.  The phone that misses the
\* answer keeps the old cookie.
Resume(t, next, heard) ==
  /\ authority' = "active"
  /\ cookie' = heard
  /\ late' = {}
  /\ tab' = [u \in Tabs |->
              IF u = t THEN next
              ELSE IF tab[u].pc = "wait" /\ tab[u].got = NoAnswer
              THEN [tab[u] EXCEPT !.fresh = FALSE]
              ELSE tab[u]]

Transfer ==
  /\ authority \in {"active", "lapsed"}
  /\ authority' = "transferred"
  /\ UNCHANGED <<stream, final, window, cookie, store, lease, lock, tab, late, taps, stored>>

Revoke ==
  /\ authority \in {"active", "lapsed"}
  /\ authority' = "revoked"
  /\ UNCHANGED <<stream, final, window, cookie, store, lease, lock, tab, late, taps, stored>>

\* The writer lease runs out between two uploads.
LeaseRunsOut ==
  /\ authority = "active"
  /\ authority' = "lapsed"
  /\ UNCHANGED <<stream, final, window, cookie, store, lease, lock, tab, late, taps, stored>>

WindowAdvances ==
  /\ window # "closed"
  /\ window' = IF window = "open" THEN "grace" ELSE "closed"
  /\ UNCHANGED <<server, cookie, store, lease, lock, tab, late, taps, stored>>

\* An event of a new writer, or the organiser reopening a final match.
Foreign ==
  /\ Cardinality({i \in DOMAIN stream : stream[i] = 0}) < MaxForeign
  /\ \/ final \/ authority \in {"transferred", "revoked"}
     \/ window = "closed" /\ authority = "lapsed"
  /\ stream' = Append(stream, 0)
  /\ final' = FALSE
  /\ UNCHANGED <<authority, window, cookie, store, lease, lock, tab, late, taps, stored>>

\* A request that was given up arrives after all.
ServeLate ==
  \E req \in late :
    /\ Accept(req, TRUE)
    /\ late' = late \ {req}
    /\ UNCHANGED <<authority, window, cookie, store, lease, lock, tab, taps, stored>>

----------------------------------------------------------------------------
(* Recording: enqueueOfflineEvent and enqueueOfflineFinalisation read the  *)
(* package, then the queue, and store the command in a transaction that    *)
(* checks the whole queue.                                                 *)

Goto(t, s) == tab' = [tab EXCEPT ![t] = s]
At(pc) == [pc |-> pc]
Ended(done) == [pc |-> "release", done |-> done]

\* A tap goes to the offline queue: offline, or after an upload that brought
\* no answer; then the server may have, or may yet, handle it.
Tap(t) ==
  /\ tab[t].pc = "idle" /\ taps < MaxTaps
  /\ pkg.status = "active"
  /\ taps' = taps + 1
  /\ \E f \in BOOLEAN :
       Goto(t, [pc |-> "package", id |-> taps + 1, final |-> f, acked |-> pkg.acked,
                local |-> 0, pending |-> 0])
  /\ UNCHANGED <<server, window, cookie, store, lease, lock, late, stored>>

\* A tap while online: it expects the sequence of the last receipt.
TapOnline(t) ==
  /\ ScoresOnline /\ tab[t].pc = "idle" /\ taps < MaxTaps /\ Pending = 0
  /\ taps' = taps + 1
  /\ LET req == [id |-> taps + 1, expected |-> Len(stream), final |-> FALSE] IN
       \/ /\ Answer(req, cookie).kind = "ack"
          /\ Accept(req, cookie)
          /\ UNCHANGED <<tab, late>>
       \/ /\ pkg.status = "active"
          /\ \/ Accept(req, cookie) /\ UNCHANGED late
             \/ /\ late' = IF cookie THEN late \cup {req} ELSE late
                /\ UNCHANGED <<stream, final>>
          /\ Goto(t, [pc |-> "package", id |-> req.id, final |-> FALSE, acked |-> pkg.acked,
                      local |-> 0, pending |-> 0])
  /\ UNCHANGED <<authority, window, cookie, store, lease, lock, stored>>

ReadQueue(t) ==
  /\ tab[t].pc = "package"
  /\ Goto(t, [tab[t] EXCEPT !.pc = "queue", !.local = Len(commands) + 1,
                            !.pending = Pending])
  /\ UNCHANGED <<server, window, cookie, store, lease, lock, late, taps, stored>>

\* assertOfflineQueueIntegrity over the stored commands.
Integral(cs, as, acked) ==
  LET base == IF cs = <<>> THEN acked ELSE cs[1].expected IN
    /\ base <= acked
    /\ \A i \in DOMAIN cs :
         /\ cs[i].expected = base + i - 1
         /\ \A j \in DOMAIN cs : j < i => cs[i].id # cs[j].id /\ ~cs[j].final
    /\ Len(as) <= Len(cs)
    /\ \A i \in DOMAIN as : as[i] = base + i

\* Fault: the sequence is the one of the last acknowledged event but one.
CommandBehind(d) == [id |-> d.id, expected |-> d.acked + d.pending - 1, final |-> d.final]

Command(d) == [id |-> d.id, expected |-> d.acked + d.pending, final |-> d.final]

\* Fault: the queue with the new command is not checked.
RecordableUnchecked(d) ==
  pkg.status = "active" /\ window = "open" /\ d.local = Len(commands) + 1

Recordable(d) ==
  /\ pkg.status = "active" /\ window = "open"
  /\ d.local = Len(commands) + 1
  /\ Integral(Append(commands, Command(d)), acks, pkg.acked)

Enqueue(t) ==
  /\ tab[t].pc = "queue"
  /\ IF Recordable(tab[t])
     THEN /\ commands' = Append(commands, Command(tab[t]))
          /\ stored' = stored \cup {tab[t].id}
     ELSE UNCHANGED <<commands, stored>>
  /\ Goto(t, Idle)
  /\ UNCHANGED <<server, window, cookie, pkg, acks, conflicts, exported, lease, lock, late, taps>>

----------------------------------------------------------------------------
(* Replay: one tab at a time by Web Lock and lease; every write after the  *)
(* lease was taken is fenced by its owner, a fresh id for every replay.    *)

Holds(t) == lease.owner = t
Renewed == [lease EXCEPT !.live = TRUE]

\* The network is back, or the scorer asks to synchronise.
Begin(t) ==
  /\ tab[t].pc = "idle" /\ Pending > 0
  /\ Goto(t, At("establish"))
  /\ UNCHANGED <<server, window, cookie, store, lease, lock, late, taps, stored>>

Establish(t) ==
  /\ tab[t].pc = "establish"
  /\ IF ResumeCode = "active"
     THEN Resume(t, At("acquire"), TRUE)
     ELSE Goto(t, Idle) /\ UNCHANGED <<authority, cookie, late>>
  /\ UNCHANGED <<stream, final, window, store, lease, lock, taps, stored>>

\* The request or its answer is lost.
EstablishUnheard(t) ==
  /\ tab[t].pc = "establish"
  /\ \/ ResumeCode = "active" /\ Resume(t, Idle, FALSE)
     \/ Goto(t, Idle) /\ UNCHANGED <<authority, cookie, late>>
  /\ UNCHANGED <<stream, final, window, store, lease, lock, taps, stored>>

\* Fault: a lease that ran out is not taken over.
AcquirableUntilReleased ==
  /\ WebLocks => lock = None
  /\ pkg.status # "none"
  /\ lease.owner = None

Acquirable ==
  /\ WebLocks => lock = None
  /\ pkg.status # "none"
  /\ lease.owner = None \/ ~lease.live

Acquire(t) ==
  /\ tab[t].pc = "acquire"
  /\ IF Acquirable
     THEN /\ lease' = [owner |-> t, live |-> TRUE]
          /\ lock' = IF WebLocks THEN t ELSE lock
          /\ Goto(t, At("pick"))
     ELSE Goto(t, Idle) /\ UNCHANGED <<lease, lock>>
  /\ UNCHANGED <<server, window, cookie, store, late, taps, stored>>

\* The first command without an acknowledgement, if it may be replayed.
Pick(t) ==
  /\ tab[t].pc = "pick"
  /\ IF pkg.status = "active" /\ Pending > 0 /\ window # "closed"
     THEN Goto(t, [pc |-> "send", n |-> Len(acks) + 1, cmd |-> commands[Len(acks) + 1],
                   try |-> 1, got |-> NoAnswer, fresh |-> FALSE, refreshed |-> FALSE])
     ELSE Goto(t, Ended(pkg.status # "none" /\ Pending = 0))
  /\ pkg' = IF pkg.status = "active" /\ Pending > 0 /\ window = "closed" /\ Holds(t)
            THEN [pkg EXCEPT !.status = "expired"] ELSE pkg
  /\ UNCHANGED <<server, window, cookie, commands, acks, conflicts, exported,
                 lease, lock, late, taps, stored>>

Send(t) ==
  /\ tab[t].pc = "send"
  /\ IF Holds(t)
     THEN /\ lease' = Renewed
          /\ Goto(t, [tab[t] EXCEPT !.pc = "wait", !.got = NoAnswer, !.fresh = cookie])
     ELSE Goto(t, Ended(FALSE)) /\ UNCHANGED lease
  /\ UNCHANGED <<server, window, cookie, store, lock, late, taps, stored>>

Serve(t) ==
  /\ tab[t].pc = "wait" /\ tab[t].got = NoAnswer
  /\ Goto(t, [tab[t] EXCEPT !.got = Answer(tab[t].cmd, tab[t].fresh)])
  /\ Accept(tab[t].cmd, tab[t].fresh)
  /\ UNCHANGED <<authority, window, cookie, store, lease, lock, late, taps, stored>>

\* The lease is renewed before an answer is acted upon.
Conclude(t, got) ==
  LET next ==
    CASE got.kind = "ack" -> [tab[t] EXCEPT !.pc = "store", !.got = got]
      [] got.kind = "retry" ->
           IF tab[t].try < MaxAttempts
           THEN [tab[t] EXCEPT !.pc = "send", !.try = @ + 1, !.got = NoAnswer]
           ELSE Ended(FALSE)
      [] OTHER ->
           [tab[t] EXCEPT !.got = got,
              !.pc = IF got.code = "stale" /\ ~tab[t].refreshed THEN "refresh" ELSE "block"]
  IN IF Holds(t)
     THEN lease' = Renewed /\ Goto(t, next)
     ELSE Goto(t, Ended(FALSE)) /\ UNCHANGED lease

Receive(t) ==
  /\ tab[t].pc = "wait" /\ tab[t].got # NoAnswer
  /\ Conclude(t, tab[t].got)
  /\ UNCHANGED <<server, window, cookie, store, lock, late, taps, stored>>

Abandoned(t) ==
  IF tab[t].pc = "wait" /\ tab[t].got = NoAnswer /\ tab[t].fresh
  THEN {tab[t].cmd} ELSE {}

GiveUp(t) ==
  /\ tab[t].pc = "wait"
  /\ late' = late \cup Abandoned(t)
  /\ Conclude(t, [kind |-> "retry"])
  /\ UNCHANGED <<server, window, cookie, store, lock, taps, stored>>

\* appendAcknowledgement, in queue order and only at the sequence expected.
Storable(n, seq) ==
  /\ n = Len(acks) + 1 /\ n \in DOMAIN commands
  /\ seq = commands[n].expected + 1

StoreAck(t) ==
  /\ tab[t].pc = "store"
  /\ LET n == tab[t].n  seq == tab[t].got.seq IN
       IF Holds(t) /\ Storable(n, seq)
       THEN /\ acks' = Append(acks, seq)
            /\ pkg' = [pkg EXCEPT !.acked = IF seq > @ THEN seq ELSE @]
            /\ Goto(t, At(IF commands[n].final THEN "complete" ELSE "pick"))
       ELSE Goto(t, Ended(FALSE)) /\ UNCHANGED <<acks, pkg>>
  /\ UNCHANGED <<server, window, cookie, commands, conflicts, exported,
                 lease, lock, late, taps, stored>>

\* canTransitionOfflineAuthorizationStatus
MayBecome(status) == pkg.status \in {"active", status}

Complete(t) ==
  /\ tab[t].pc = "complete"
  /\ pkg' = IF Holds(t) /\ MayBecome("completed")
            THEN [pkg EXCEPT !.status = "completed"] ELSE pkg
  /\ Goto(t, Ended(Holds(t) /\ MayBecome("completed")))
  /\ UNCHANGED <<server, window, cookie, commands, acks, conflicts, exported,
                 lease, lock, late, taps, stored>>

\* refreshAuthority, once per command, after the answer "stale generation".
Refresh(t) ==
  /\ tab[t].pc = "refresh"
  /\ LET again == [tab[t] EXCEPT !.pc = "send", !.try = @ + 1, !.refreshed = TRUE]
         block(code) == [tab[t] EXCEPT !.pc = "block", !.refreshed = TRUE, !.got = Blocked(code)]
     IN \/ /\ ResumeCode = "active"
           /\ Resume(t, IF pkg.status # "active" THEN block("stale")
                        ELSE IF tab[t].try < MaxAttempts THEN again ELSE Ended(FALSE), TRUE)
        \/ /\ ResumeCode # "active"
           /\ Goto(t, block(ResumeCode)) /\ UNCHANGED <<authority, cookie, late>>
        \/ /\ ResumeCode = "active"
           /\ Resume(t, block("stale"), FALSE)
        \/ Goto(t, block("stale")) /\ UNCHANGED <<authority, cookie, late>>
  /\ UNCHANGED <<stream, final, window, store, lease, lock, taps, stored>>

\* recordBlocked: the package's terminal status, then the conflict.
Block(t) ==
  /\ tab[t].pc = "block"
  /\ LET code == tab[t].got.code
         terminal == code \in {"revoked", "transferred", "expired"}
     IN IF terminal => Holds(t) /\ MayBecome(code)
        THEN /\ pkg' = IF terminal THEN [pkg EXCEPT !.status = code] ELSE pkg
             /\ Goto(t, [tab[t] EXCEPT !.pc = "conflict"])
        ELSE Goto(t, Ended(FALSE)) /\ UNCHANGED pkg
  /\ UNCHANGED <<server, window, cookie, commands, acks, conflicts, exported,
                 lease, lock, late, taps, stored>>

\* Fault: a tab that lost its lease may still record.
RecordConflictUnfenced(t) ==
  /\ tab[t].pc = "conflict"
  /\ conflicts' = conflicts \cup {[n |-> tab[t].n, code |-> tab[t].got.code]}
  /\ Goto(t, Ended(FALSE))
  /\ UNCHANGED <<server, window, cookie, pkg, commands, acks, exported,
                 lease, lock, late, taps, stored>>

RecordConflict(t) ==
  /\ tab[t].pc = "conflict"
  /\ conflicts' = IF Holds(t) THEN conflicts \cup {[n |-> tab[t].n, code |-> tab[t].got.code]}
                  ELSE conflicts
  /\ Goto(t, Ended(FALSE))
  /\ UNCHANGED <<server, window, cookie, pkg, commands, acks, exported,
                 lease, lock, late, taps, stored>>

Release(t) ==
  /\ tab[t].pc = "release"
  /\ lease' = IF Holds(t) THEN [owner |-> None, live |-> FALSE] ELSE lease
  /\ lock' = IF lock = t THEN None ELSE lock
  /\ Goto(t, IF tab[t].done THEN At("recover") ELSE Idle)
  /\ UNCHANGED <<server, window, cookie, store, late, taps, stored>>

\* reconcileOfflineReplayRecovery: the session as the server has it, saved as
\* the package unless there is one, whose sequence and status stand.
Recover(t) ==
  /\ tab[t].pc = "recover"
  /\ \/ /\ cookie /\ authority # "revoked" /\ ~final
        /\ Goto(t, [pc |-> "save", seq |-> Len(stream)])
     \/ Goto(t, Idle)
  /\ UNCHANGED <<server, window, cookie, store, lease, lock, late, taps, stored>>

Save(t) ==
  /\ tab[t].pc = "save"
  /\ pkg' = IF pkg.status = "none" THEN [status |-> "active", acked |-> tab[t].seq] ELSE pkg
  /\ Goto(t, Idle)
  /\ UNCHANGED <<server, window, cookie, commands, acks, conflicts, exported,
                 lease, lock, late, taps, stored>>

LeaseLapses ==
  /\ lease.live
  /\ lease' = [lease EXCEPT !.live = FALSE]
  /\ UNCHANGED <<server, window, cookie, store, lock, tab, late, taps, stored>>

\* The browser drops the Web Lock of a closed tab, the lease row stays.
Close(t) ==
  /\ t \in Frail /\ tab[t].pc # "closed"
  /\ late' = late \cup Abandoned(t)
  /\ lock' = IF lock = t THEN None ELSE lock
  /\ Goto(t, At("closed"))
  /\ UNCHANGED <<server, window, cookie, store, lease, taps, stored>>

----------------------------------------------------------------------------
(* The end of the package: a terminal error outside the replay, the        *)
(* diagnostic export, and the sign-out that discards.                      *)

MarkTerminal(t) ==
  /\ tab[t].pc = "idle" /\ pkg.status = "active"
  /\ \/ authority = "revoked" /\ pkg' = [pkg EXCEPT !.status = "revoked"]
     \/ window = "closed" /\ pkg' = [pkg EXCEPT !.status = "expired"]
  /\ UNCHANGED <<server, window, cookie, commands, acks, conflicts, exported,
                 lease, lock, tab, late, taps, stored>>

\* What the document tells of the commands: how many there are, which are
\* acknowledged, and so how many the server is not known to have.  No command
\* is in it.
PendingIn(snap) ==
  {snap.commands[n].id : n \in Len(snap.acks) + 1 .. Len(snap.commands)}

\* createOfflineDiagnosticExport reads the stores, then attests what it read;
\* the page downloads the document.
ReadExport(t) ==
  /\ Exports /\ tab[t].pc = "idle" /\ pkg.status # "none"
  /\ Goto(t, [pc |-> "export", snap |-> Snapshot])
  /\ UNCHANGED <<server, window, cookie, store, lease, lock, late, taps, stored>>

Export(t) ==
  /\ tab[t].pc = "export"
  /\ LET snap == tab[t].snap IN
       exported' = IF pkg.status # "none" THEN snap ELSE exported
  /\ Goto(t, Idle)
  /\ UNCHANGED <<server, window, cookie, pkg, commands, acks, conflicts,
                 lease, lock, late, taps, stored>>

SignOut(t) ==
  /\ tab[t].pc = "idle" /\ pkg.status # "none" /\ authority # "transferred"
  /\ authority' = "revoked"
  /\ Goto(t, At("discard"))
  /\ UNCHANGED <<stream, final, window, cookie, store, lease, lock, late, taps, stored>>

\* The stores are what the last diagnostic attests.
Attested == exported # None /\ exported = Snapshot

\* Nothing is pending and there is no conflict.
Resolved == Pending = 0 /\ conflicts = {} /\ Integral(commands, acks, pkg.acked)

\* Fault: any earlier export allows the discard.
DiscardableOnceExported == exported # None \/ Resolved

\* discardAfterExport or discardResolvedAuthorization
Discardable == Attested \/ Resolved

Discard(t) ==
  /\ tab[t].pc = "discard"
  /\ IF pkg.status # "none" /\ Discardable
     THEN /\ pkg' = [status |-> "none", acked |-> 0]
          /\ commands' = <<>> /\ acks' = <<>> /\ conflicts' = {}
          /\ exported' = None
          /\ lease' = [owner |-> None, live |-> FALSE]
     ELSE UNCHANGED <<pkg, commands, acks, conflicts, exported, lease>>
  /\ Goto(t, Idle)
  /\ UNCHANGED <<server, window, cookie, lock, late, taps, stored>>

----------------------------------------------------------------------------
Replay(t) ==
  \/ Begin(t) \/ Establish(t) \/ Acquire(t) \/ Pick(t) \/ Send(t) \/ Serve(t)
  \/ Receive(t) \/ StoreAck(t) \/ Complete(t) \/ Refresh(t) \/ Block(t)
  \/ RecordConflict(t) \/ Release(t) \/ Recover(t) \/ Save(t)

Record(t) == Tap(t) \/ TapOnline(t) \/ ReadQueue(t) \/ Enqueue(t)

Next ==
  \/ Transfer \/ Revoke \/ LeaseRunsOut \/ WindowAdvances \/ Foreign \/ ServeLate \/ LeaseLapses
  \/ \E t \in Tabs :
       \/ Record(t) \/ Replay(t) \/ EstablishUnheard(t) \/ GiveUp(t) \/ Close(t)
       \/ MarkTerminal(t) \/ ReadExport(t) \/ Export(t) \/ SignOut(t) \/ Discard(t)

Spec == Init /\ [][Next]_vars

\* An open page runs; while it stays open its "online" event or the scorer's
\* "sync now" comes again and again, and again and again a request and its
\* answer get through, in the end within the 45 seconds for which a resumption
\* takes the writer lease; the replay lease of a closed page runs out.
Fairness ==
  /\ \A t \in Tabs :
       /\ WF_vars(Replay(t) \/ ReadQueue(t) \/ Enqueue(t) \/ Export(t))
       /\ SF_vars(Serve(t)) /\ SF_vars(Receive(t))
  /\ \A t \in Tabs \ Frail : SF_vars(Begin(t)) /\ SF_vars(Establish(t))
  /\ WF_vars(LeaseLapses /\ tab[lease.owner].pc = "closed")
  /\ <>[][~LeaseRunsOut]_vars

FairSpec == Spec /\ Fairness

----------------------------------------------------------------------------
TypeOK ==
  /\ stream \in Seq(Nat) /\ final \in BOOLEAN
  /\ authority \in {"active", "lapsed", "transferred", "revoked"}
  /\ window \in {"open", "grace", "closed"} /\ cookie \in BOOLEAN
  /\ pkg \in PackageRow
  /\ commands \in Seq(CommandRow) /\ acks \in Seq(Nat)
  /\ conflicts \subseteq ConflictRow
  /\ lease \in [owner : Tabs \cup {None}, live : BOOLEAN]
  /\ lock \in Tabs \cup {None}
  /\ exported \in {None} \cup Snapshots
  /\ tab \in [Tabs -> Elsewhere \cup Recording \cup Replaying \cup Exporting]
  /\ late \subseteq CommandRow
  /\ taps \in Nat /\ stored \subseteq Nat

\* assertOfflineQueueIntegrity never finds the stored queue corrupt: recovery
\* after a restart, which refuses a corrupt queue, always finds the taps.
QueueIntegral == Integral(commands, acks, pkg.acked)

\* Whatever was lost, repeated or reopened, an acknowledgement names the place
\* of its own command in the server's stream.
AcksTrue ==
  \A n \in DOMAIN acks :
    acks[n] \in DOMAIN stream /\ stream[acks[n]] = commands[n].id

InQueue(id) == \E n \in DOMAIN commands : commands[n].id = id

(***************************************************************************)
(* A recorded tap leaves the phone only when the server has it, or when    *)
(* the diagnostic attested last counts it as pending: nothing is cleared   *)
(* that was recorded after that diagnostic was read, by whichever tab, or  *)
(* that it counts as delivered although it is not.  The document is only a *)
(* count; a tap cleared by it is gone, see RecordedIsKept.                 *)
(***************************************************************************)
ClearedIsAccounted ==
  [][\A id \in stored :
       InQueue(id) /\ ~InQueue(id)' =>
         \/ Committed(id)
         \/ exported # None /\ id \in PendingIn(exported)]_vars

\* The package is only completed when every command was acknowledged, the
\* finalisation last.
CompletedIsDrained ==
  pkg.status = "completed" => /\ Pending = 0
                              /\ commands # <<>> /\ commands[Len(commands)].final

\* A conflict is only ever recorded about the first command that has no
\* acknowledgement: a tab that lost its lease to another one, which uploaded
\* the command, does not report it as blocked.
ConflictsArePending ==
  [][\A c \in conflicts' \ conflicts : c.n = Len(acks) + 1]_vars

\* While the phone may replay, what it recorded is uploaded in the end, or a
\* conflict tells the scorer why not.
MayReplay ==
  /\ pkg.status = "active" /\ window # "closed"
  /\ authority \in {"active", "lapsed"} /\ conflicts = {}

QueueDrains == Pending > 0 ~> Pending = 0 \/ ~MayReplay

----------------------------------------------------------------------------
(* What the page says and the code does not do.                            *)

(***************************************************************************)
(* The button "Discard exported work and end scoring": what is discarded   *)
(* has been exported.  No work is in the export, so that would mean that a *)
(* recorded tap is on the server or on the phone.                          *)
(***************************************************************************)
RecordedIsKept == \A id \in stored : Committed(id) \/ InQueue(id)
=============================================================================
