------------------------- MODULE OfflineQueueProofs -------------------------
(***************************************************************************)
(* Proofs for OfflineQueue, for any number of tabs, taps and attempts and  *)
(* with or without Web Locks: an acknowledgement names the place of its    *)
(* own command, what is cleared is delivered or counted as pending, the    *)
(* stored queue is never corrupt, a completed one is drained, and a        *)
(* conflict is about the first command that waits.                         *)
(*                                                                         *)
(* The argument: the stream and the queue only grow, except that a discard *)
(* empties the queue and takes the lease away.  So a tab that holds the    *)
(* lease uploads a command of the queue as it is, the first without an     *)
(* acknowledgement; an answer stays true while it waits, and what is       *)
(* stored under the lease is true.                                         *)
(***************************************************************************)
EXTENDS OfflineQueue, TLAPS

Uploading == {"send", "wait", "store", "refresh", "block", "conflict"}

\* The answer a tab waits with names the place of its command.
AnswerTrue(d) ==
  d.got.kind = "ack" => d.got.seq \in DOMAIN stream /\ stream[d.got.seq] = d.cmd.id

\* It is an acknowledgement or a refusal where the upload goes on from one.
Fitting(d) ==
  /\ d.pc = "store" => d.got.kind = "ack"
  /\ d.pc \in {"refresh", "block", "conflict"} => d.got.kind = "blocked"

AnswerTrueNext(d) ==
  d.got.kind = "ack" => d.got.seq \in DOMAIN stream' /\ stream'[d.got.seq] = d.cmd.id

Uploads(u) ==
  /\ tab[u].pc \in Uploading =>
       /\ tab[u] \in Replaying
       /\ Holds(u) => tab[u].n \in DOMAIN commands /\ commands[tab[u].n] = tab[u].cmd
       /\ AnswerTrue(tab[u]) /\ Fitting(tab[u])
  /\ tab[u].pc \in {"package", "queue"} => tab[u] \in Recording
  /\ tab[u].pc = "save" => tab[u] \in [pc : {"save"}, seq : Nat]

LeaseRow == [owner : Tabs \cup {None}, live : BOOLEAN]

Shape ==
  /\ stream \in Seq(Nat) /\ commands \in Seq(CommandRow) /\ acks \in Seq(Nat)
  /\ pkg \in PackageRow /\ cookie \in BOOLEAN /\ taps \in Nat
  /\ Len(acks) <= Len(commands)
  /\ late \subseteq CommandRow
  /\ lease \in LeaseRow
  /\ DOMAIN tab = Tabs

IInv == Shape /\ (\A u \in Tabs : Uploads(u)) /\ AcksTrue

\* What every step but a discard does to the stream and the queue.
StreamGrows == stream' = stream \/ \E id \in Nat : stream' = Append(stream, id)
QueueGrows == commands' = commands \/ \E c \in CommandRow : commands' = Append(commands, c)

\* A tab that goes on with what it does.
Kept(u) ==
  \/ tab'[u] = tab[u]
  \/ tab[u].pc = "wait" /\ tab'[u] = [tab[u] EXCEPT !.fresh = FALSE]

LEMMA Indexes ==
  ASSUME NEW S, NEW s \in Seq(S), NEW x \in S, NEW i \in DOMAIN s
  PROVE  i \in DOMAIN Append(s, x) /\ Append(s, x)[i] = s[i]
  OBVIOUS

LEMMA StreamKeeps ==
  ASSUME stream \in Seq(Nat), StreamGrows
  PROVE  /\ stream' \in Seq(Nat)
         /\ \A i \in DOMAIN stream : i \in DOMAIN stream' /\ stream'[i] = stream[i]
  BY Indexes DEF StreamGrows

LEMMA QueueKeeps ==
  ASSUME commands \in Seq(CommandRow), QueueGrows
  PROVE  /\ commands' \in Seq(CommandRow)
         /\ Len(commands) <= Len(commands')
         /\ \A i \in DOMAIN commands : i \in DOMAIN commands' /\ commands'[i] = commands[i]
  BY Indexes DEF QueueGrows

LEMMA KeptUploads ==
  ASSUME stream \in Seq(Nat), commands \in Seq(CommandRow), NEW u \in Tabs, Uploads(u),
         Kept(u), StreamGrows, QueueGrows \/ lease'.owner # u,
         lease'.owner = u => lease.owner = u
  PROVE  Uploads(u)'
<1>1. CASE tab'[u] = tab[u]
  BY <1>1, StreamKeeps, QueueKeeps DEF Uploads, AnswerTrue, Holds, Fitting
<1>2. CASE tab[u].pc = "wait" /\ tab'[u] = [tab[u] EXCEPT !.fresh = FALSE]
  <2>1. tab[u] \in Replaying
    BY <1>2 DEF Uploads, Uploading
  <2>2. /\ tab'[u] \in Replaying /\ tab'[u].pc = "wait" /\ tab'[u].n = tab[u].n
        /\ tab'[u].cmd = tab[u].cmd /\ tab'[u].got = tab[u].got
    BY <1>2, <2>1 DEF Replaying
  <2> QED
    BY <1>2, <2>2, StreamKeeps, QueueKeeps DEF Uploads, AnswerTrue, Holds, Uploading, Fitting
<1> QED
  BY <1>1, <1>2 DEF Kept

\* The server's answer: the place where the event was entered, now or before.
LEMMA AnswersAreTrue ==
  ASSUME stream \in Seq(Nat), NEW req \in CommandRow, NEW fresh, Accept(req, fresh)
  PROVE  /\ StreamGrows
         /\ Answer(req, fresh).kind = "ack" =>
              /\ Answer(req, fresh).seq \in DOMAIN stream'
              /\ stream'[Answer(req, fresh).seq] = req.id
<1>1. req.id \in Nat
  BY DEF CommandRow
<1>2. CASE Refusal(req, fresh) = "none"
  <2>1. stream' = Append(stream, req.id)
    BY <1>2 DEF Accept
  <2>2. Answer(req, fresh) = Acked(Len(stream) + 1)
    BY <1>2 DEF Answer
  <2> QED
    BY <1>1, <2>1, <2>2 DEF Acked, StreamGrows
<1>3. CASE Refusal(req, fresh) = "duplicate"
  <2>1. stream' = stream
    BY <1>3 DEF Accept
  <2>2. Committed(req.id)
    BY <1>3 DEF Refusal
  <2>3. Position(req.id) \in DOMAIN stream /\ stream[Position(req.id)] = req.id
    BY <2>2 DEF Committed, Position
  <2>4. Answer(req, fresh) \in {Acked(Position(req.id)), Blocked("reused")}
    BY <1>3 DEF Answer
  <2> QED
    BY <2>1, <2>3, <2>4 DEF Acked, Blocked, StreamGrows
<1>4. CASE Refusal(req, fresh) \notin {"none", "duplicate"}
  <2>1. stream' = stream
    BY <1>4 DEF Accept
  <2>2. Answer(req, fresh) = Blocked(Refusal(req, fresh))
    BY <1>4 DEF Answer
  <2> QED
    BY <2>1, <2>2 DEF Blocked, StreamGrows
<1> QED
  BY <1>2, <1>3, <1>4

----------------------------------------------------------------------------
(* Every step leaves the acknowledgements alone, except StoreAck, which    *)
(* adds one, and Discard, which removes all.                               *)

\* A step of tab t that does not touch the acknowledgements.
Moves(t) ==
  /\ DOMAIN tab' = Tabs
  /\ \A u \in Tabs \ {t} : Kept(u)
  /\ StreamGrows /\ QueueGrows /\ acks' = acks
  /\ lease' \in LeaseRow /\ lease'.owner \in {lease.owner, t, None}
  /\ late' \subseteq CommandRow /\ cookie' \in BOOLEAN

LEMMA MovesKeeps ==
  ASSUME IInv, NEW t, Moves(t), t \in Tabs => Uploads(t)', pkg' \in PackageRow, taps' \in Nat
  PROVE  IInv'
<1>1. \A u \in Tabs \ {t} : Uploads(u)'
  <2> TAKE u \in Tabs \ {t}
  <2>1. lease'.owner = u => lease.owner = u
    BY TabsAssumption DEF Moves
  <2> QED
    BY <2>1, KeptUploads DEF Moves, IInv, Shape
<1>2. Shape'
  BY StreamKeeps, QueueKeeps DEF Moves, IInv, Shape
<1>3. AcksTrue'
  <2> SUFFICES ASSUME NEW n \in DOMAIN acks
               PROVE  acks[n] \in DOMAIN stream' /\ stream'[acks[n]] = commands'[n].id
    BY DEF AcksTrue, Moves
  <2>1. acks[n] \in DOMAIN stream /\ stream[acks[n]] = commands[n].id
    BY DEF IInv, AcksTrue
  <2>2. n \in DOMAIN commands
    BY DEF IInv, Shape
  <2> QED
    BY <2>1, <2>2, StreamKeeps, QueueKeeps DEF Moves, IInv, Shape
<1> QED
  BY <1>1, <1>2, <1>3 DEF IInv

\* A tab that does something else than uploading.
LEMMA RestingUploads ==
  ASSUME NEW t \in Tabs, tab'[t].pc \notin Uploading \cup {"package", "queue", "save"}
  PROVE  Uploads(t)'
  BY DEF Uploads

LEMMA GotoMoves ==
  ASSUME IInv, NEW t \in Tabs, NEW d, Goto(t, d),
         StreamGrows, QueueGrows, acks' = acks,
         lease' \in LeaseRow, lease'.owner \in {lease.owner, t, None}, late' \subseteq CommandRow,
         cookie' \in BOOLEAN
  PROVE  Moves(t) /\ tab'[t] = d
  BY DEF Goto, Moves, Kept, IInv, Shape

LEMMA ResumeMoves ==
  ASSUME IInv, NEW t \in Tabs, NEW d, NEW heard \in BOOLEAN, Resume(t, d, heard),
         UNCHANGED <<stream, commands, acks, lease>>
  PROVE  Moves(t) /\ tab'[t] = d
<1>1. DOMAIN tab' = Tabs /\ tab'[t] = d
  BY DEF Resume
<1>2. ASSUME NEW u \in Tabs \ {t} PROVE Kept(u)
  <2>1. CASE tab[u].pc = "wait" /\ tab[u].got = NoAnswer
    BY <2>1 DEF Resume, Kept
  <2>2. CASE ~(tab[u].pc = "wait" /\ tab[u].got = NoAnswer)
    BY <2>2 DEF Resume, Kept
  <2> QED
    BY <2>1, <2>2
<1> QED
  BY <1>1, <1>2 DEF Moves, StreamGrows, QueueGrows, Resume, IInv, Shape

----------------------------------------------------------------------------
(* One lemma for each group of actions.                                    *)

LEMMA AcceptGrows ==
  ASSUME NEW req \in CommandRow, NEW fresh, Accept(req, fresh)
  PROVE  StreamGrows
  BY DEF Accept, StreamGrows, CommandRow

LEMMA SystemStep ==
  ASSUME IInv,
         Transfer \/ Revoke \/ LeaseRunsOut \/ WindowAdvances \/ Foreign \/ ServeLate \/ LeaseLapses
  PROVE  IInv'
<1>1. pkg' = pkg /\ commands' = commands /\ acks' = acks /\ tab' = tab /\ taps' = taps
      /\ cookie' = cookie
  BY DEF Transfer, Revoke, LeaseRunsOut, WindowAdvances, Foreign, ServeLate, LeaseLapses, store
<1>2. StreamGrows
  <2>1. CASE ServeLate
    BY <2>1, AcceptGrows DEF ServeLate, IInv, Shape
  <2>2. CASE Foreign
    BY <2>2 DEF Foreign, StreamGrows
  <2> QED
    BY <2>1, <2>2
    DEF Transfer, Revoke, LeaseRunsOut, WindowAdvances, LeaseLapses, StreamGrows, server
<1>3. lease' \in LeaseRow /\ lease'.owner = lease.owner
  BY DEF Transfer, Revoke, LeaseRunsOut, WindowAdvances, Foreign, ServeLate, LeaseLapses, IInv,
         Shape, LeaseRow
<1>4. late' \subseteq CommandRow
  BY DEF Transfer, Revoke, LeaseRunsOut, WindowAdvances, Foreign, ServeLate, LeaseLapses, IInv, Shape
<1>5. Moves(None)
  BY <1>1, <1>2, <1>3, <1>4 DEF Moves, Kept, QueueGrows, IInv, Shape
<1> QED
  BY <1>1, <1>5, MovesKeeps, TabsAssumption DEF IInv, Shape

\* A tap that is being recorded, with what it found in the queue.
LEMMA RecordStep ==
  ASSUME IInv, NEW t \in Tabs, Tap(t) \/ ReadQueue(t)
  PROVE  IInv'
<1>1. UNCHANGED <<stream, commands, acks, pkg, cookie, lease, late>> /\ taps' \in Nat
  BY DEF Tap, ReadQueue, server, store, IInv, Shape
<1>2. PICK d : Goto(t, d) /\ d \in Recording
  <2>1. CASE Tap(t)
    <3>1. PICK f \in BOOLEAN :
            Goto(t, [pc |-> "package", id |-> taps + 1, final |-> f, acked |-> pkg.acked,
                     local |-> 0, pending |-> 0])
      BY <2>1 DEF Tap
    <3>2. taps + 1 \in Nat /\ pkg.acked \in Nat
      BY DEF IInv, Shape, PackageRow
    <3> QED
      BY <3>1, <3>2 DEF Recording
  <2>2. CASE ReadQueue(t)
    <3> DEFINE d == [tab[t] EXCEPT !.pc = "queue", !.local = Len(commands) + 1, !.pending = Pending]
    <3>1. Goto(t, d)
      BY <2>2 DEF ReadQueue
    <3>2. tab[t] \in Recording
      BY <2>2 DEF ReadQueue, IInv, Uploads
    <3>3. Pending \in Nat /\ Len(commands) + 1 \in Nat
      BY DEF Pending, IInv, Shape
    <3>4. d \in Recording
      BY <3>2, <3>3 DEF Recording
    <3> QED
      BY <3>1, <3>4
  <2> QED
    BY <2>1, <2>2
<1>3. Moves(t) /\ tab'[t] = d
  BY <1>1, <1>2, GotoMoves DEF StreamGrows, QueueGrows, IInv, Shape
<1>4. Uploads(t)'
  BY <1>2, <1>3 DEF Uploads, Uploading, Recording
<1> QED
  BY <1>1, <1>3, <1>4, MovesKeeps DEF IInv, Shape

LEMMA TapOnlineStep ==
  ASSUME IInv, NEW t \in Tabs, TapOnline(t)
  PROVE  IInv'
<1> DEFINE req == [id |-> taps + 1, expected |-> Len(stream), final |-> FALSE]
<1>1. UNCHANGED <<commands, acks, pkg, cookie, lease>> /\ taps' \in Nat
  BY DEF TapOnline, store, IInv, Shape
<1>2. req \in CommandRow
  BY DEF CommandRow, IInv, Shape
<1>3. StreamGrows /\ late' \subseteq CommandRow
  <2>1. CASE Accept(req, cookie) /\ UNCHANGED late
    BY <2>1, <1>2, AcceptGrows DEF IInv, Shape
  <2>2. CASE UNCHANGED stream /\ late' \in {late, late \cup {req}}
    BY <2>2, <1>2 DEF IInv, Shape, StreamGrows
  <2> QED
    BY <2>1, <2>2 DEF TapOnline
<1>4. CASE UNCHANGED tab
  <2>1. Moves(None)
    BY <1>1, <1>3, <1>4 DEF Moves, Kept, QueueGrows, IInv, Shape
  <2> QED
    BY <1>1, <2>1, MovesKeeps, TabsAssumption DEF IInv, Shape
<1>5. CASE Goto(t, [pc |-> "package", id |-> req.id, final |-> FALSE, acked |-> pkg.acked,
                    local |-> 0, pending |-> 0])
  <2> DEFINE d == [pc |-> "package", id |-> req.id, final |-> FALSE, acked |-> pkg.acked,
                   local |-> 0, pending |-> 0]
  <2>1. d \in Recording
    BY DEF IInv, Shape, Recording, PackageRow
  <2> HIDE DEF d
  <2>2. Moves(t) /\ tab'[t] = d
    BY <1>1, <1>3, <1>5, GotoMoves DEF d, QueueGrows, IInv, Shape
  <2> QED
    <3>1. Uploads(t)'
      BY <2>1, <2>2 DEF Uploads, Uploading, Recording
    <3> QED
      BY <1>1, <2>2, <3>1, MovesKeeps DEF IInv, Shape
<1> QED
  BY <1>4, <1>5 DEF TapOnline

LEMMA EnqueueStep ==
  ASSUME IInv, NEW t \in Tabs, Enqueue(t)
  PROVE  IInv'
<1>1. UNCHANGED <<stream, acks, pkg, lease, late, taps>>
  BY DEF Enqueue, server
<1>2. QueueGrows
  <2>1. Command(tab[t]) \in CommandRow
    <3>1. tab[t] \in Recording
        BY DEF Enqueue, IInv, Uploads
      <3> QED
        BY <3>1 DEF Recording, Command, CommandRow
  <2> QED
    BY <2>1 DEF Enqueue, QueueGrows
<1>3. Moves(t) /\ tab'[t] = Idle
  BY <1>1, <1>2, GotoMoves DEF Enqueue, StreamGrows, IInv, Shape
<1>4. Uploads(t)'
  BY <1>3, RestingUploads DEF Idle, Uploading
<1>5. pkg' \in PackageRow /\ taps' \in Nat
  BY <1>1 DEF IInv, Shape
<1> QED
  BY <1>3, <1>4, <1>5, MovesKeeps

\* A step to a state that is no upload, with the server's stream, the queue
\* and the acknowledgements as they are.
LEMMA RestStep ==
  ASSUME IInv, NEW t \in Tabs, NEW d, Goto(t, d),
         d.pc \notin Uploading \cup {"package", "queue", "save"},
         UNCHANGED <<stream, commands, acks, taps>>, pkg' \in PackageRow,
         lease' \in LeaseRow, lease'.owner \in {lease.owner, t, None}, late' \subseteq CommandRow,
         cookie' \in BOOLEAN
  PROVE  IInv'
<1>1. Moves(t) /\ tab'[t] = d
  BY GotoMoves DEF StreamGrows, QueueGrows
<1> QED
  BY <1>1, RestingUploads, MovesKeeps DEF IInv, Shape

LEMMA ResumeStep ==
  ASSUME IInv, NEW t \in Tabs, NEW d, NEW heard \in BOOLEAN, Resume(t, d, heard),
         UNCHANGED <<stream, commands, acks, taps, pkg, lease>>,
         d.pc \notin Uploading \cup {"package", "queue", "save"}
  PROVE  IInv'
<1>1. Moves(t) /\ tab'[t] = d
  BY ResumeMoves
<1> QED
  BY <1>1, RestingUploads, MovesKeeps DEF IInv, Shape

LEMMA QuietStep ==
  ASSUME IInv, NEW t \in Tabs,
         \/ Begin(t) \/ Establish(t) \/ EstablishUnheard(t) \/ Acquire(t) \/ Complete(t)
         \/ RecordConflict(t) \/ Release(t) \/ Save(t) \/ Close(t)
         \/ ReadExport(t) \/ Export(t) \/ SignOut(t)
  PROVE  IInv'
<1> USE DEF Idle, At, Ended, Uploading, store, server, IInv, Shape, LeaseRow
<1>1. CASE Begin(t)
  BY <1>1, RestStep DEF Begin
<1>2. CASE Establish(t)
  <2>1. CASE Resume(t, At("acquire"), TRUE)
    BY <1>2, <2>1, ResumeStep DEF Establish
  <2>2. CASE Goto(t, Idle) /\ UNCHANGED <<late, cookie>>
    BY <1>2, <2>2, RestStep DEF Establish
  <2> QED
    BY <1>2, <2>1, <2>2 DEF Establish
<1>3. CASE EstablishUnheard(t)
  <2>1. CASE Resume(t, Idle, FALSE)
    BY <1>3, <2>1, ResumeStep DEF EstablishUnheard
  <2>2. CASE Goto(t, Idle) /\ UNCHANGED <<late, cookie>>
    BY <1>3, <2>2, RestStep DEF EstablishUnheard
  <2> QED
    BY <1>3, <2>1, <2>2 DEF EstablishUnheard
<1>4. CASE Acquire(t)
  <2>1. CASE lease' = [owner |-> t, live |-> TRUE] /\ Goto(t, At("pick"))
    BY <1>4, <2>1, RestStep DEF Acquire
  <2>2. CASE Goto(t, Idle) /\ UNCHANGED lease
    BY <1>4, <2>2, RestStep DEF Acquire
  <2> QED
    BY <1>4, <2>1, <2>2 DEF Acquire
<1>5. CASE Complete(t)
  <2>1. Goto(t, Ended(Holds(t) /\ MayBecome("completed"))) /\ UNCHANGED <<late, lease>>
    BY <1>5 DEF Complete
  <2>2. pkg' \in PackageRow /\ UNCHANGED <<stream, commands, acks, taps>>
    BY <1>5 DEF Complete, PackageRow, Statuses
  <2> QED
    BY <1>5, <2>1, <2>2, RestStep DEF Complete
<1>6. CASE RecordConflict(t)
  BY <1>6, RestStep DEF RecordConflict
<1>7. CASE Release(t)
  <2>1. lease' \in LeaseRow /\ lease'.owner \in {lease.owner, None}
    BY <1>7 DEF Release
  <2>2. PICK d \in {At("recover"), Idle} : Goto(t, d)
    BY <1>7 DEF Release
  <2> QED
    BY <1>7, <2>1, <2>2, RestStep DEF Release
<1>8. CASE Save(t)
  <2>1. tab[t].seq \in Nat
    BY <1>8 DEF Save, Uploads
  <2>2. pkg' \in PackageRow
    BY <1>8, <2>1 DEF Save, PackageRow, Statuses
  <2> QED
    BY <1>8, <2>2, RestStep DEF Save
<1>9. CASE Close(t)
  <2>1. late' \subseteq CommandRow
    BY <1>9 DEF Close, Abandoned, Uploads, Replaying
  <2> QED
    BY <1>9, <2>1, RestStep DEF Close
<1>10. CASE ReadExport(t)
  <2>1. Goto(t, [pc |-> "export", snap |-> Snapshot])
    BY <1>10 DEF ReadExport
  <2> QED
    BY <1>10, <2>1, RestStep DEF ReadExport
<1>11. CASE Export(t)
  BY <1>11, RestStep DEF Export
<1>12. CASE SignOut(t)
  BY <1>12, RestStep DEF SignOut
<1> QED
  BY <1>1, <1>2, <1>3, <1>4, <1>5, <1>6, <1>7, <1>8, <1>9, <1>10, <1>11, <1>12

\* A step to another state of an upload.
LEMMA UploadStep ==
  ASSUME IInv, NEW t \in Tabs, NEW d \in Replaying, Goto(t, d),
         StreamGrows, UNCHANGED <<commands, acks, taps>>, pkg' \in PackageRow,
         lease' \in LeaseRow, lease'.owner = lease.owner, late' \subseteq CommandRow,
         cookie' = cookie,
         Holds(t) => d.n \in DOMAIN commands /\ commands[d.n] = d.cmd,
         AnswerTrueNext(d), Fitting(d)
  PROVE  IInv'
<1>1. Moves(t) /\ tab'[t] = d
  BY GotoMoves DEF QueueGrows, IInv, Shape
<1>2. Uploads(t)'
  BY <1>1 DEF Uploads, Uploading, Replaying, Holds, AnswerTrue, AnswerTrueNext, Fitting
<1> QED
  BY <1>1, <1>2, MovesKeeps DEF IInv, Shape

LEMMA RecoverStep ==
  ASSUME IInv, NEW t \in Tabs, Recover(t)
  PROVE  IInv'
<1> USE DEF Recover, server, store
<1>1. CASE Goto(t, Idle)
  BY <1>1, RestStep DEF Idle, Uploading, IInv, Shape
<1>2. CASE Goto(t, [pc |-> "save", seq |-> Len(stream)])
  <2>1. Moves(t) /\ tab'[t] = [pc |-> "save", seq |-> Len(stream)]
    BY <1>2, GotoMoves DEF StreamGrows, QueueGrows, IInv, Shape
  <2>2. Len(stream) \in Nat
    BY DEF IInv, Shape
  <2>3. Uploads(t)'
    BY <2>1, <2>2 DEF Uploads, Uploading
  <2> QED
    BY <2>1, <2>3, MovesKeeps DEF IInv, Shape
<1> QED
  BY <1>1, <1>2

LEMMA MarkTerminalStep ==
  ASSUME IInv, NEW t \in Tabs, MarkTerminal(t)
  PROVE  IInv'
<1>1. pkg' \in PackageRow
  BY DEF MarkTerminal, IInv, Shape, PackageRow, Statuses
<1>2. Moves(None)
  BY DEF MarkTerminal, Moves, Kept, StreamGrows, QueueGrows, server, IInv, Shape
<1> QED
  BY <1>1, <1>2, MovesKeeps, TabsAssumption DEF MarkTerminal, IInv, Shape

LEMMA PickStep ==
  ASSUME IInv, NEW t \in Tabs, Pick(t)
  PROVE  IInv'
<1>1. UNCHANGED <<stream, commands, acks, taps, cookie, lease, late>> /\ pkg' \in PackageRow
  BY DEF Pick, server, IInv, Shape, PackageRow, Statuses
<1>2. CASE Goto(t, Ended(pkg.status # "none" /\ Pending = 0))
  BY <1>1, <1>2, RestStep DEF Ended, Uploading, IInv, Shape
<1>3. CASE ~Goto(t, Ended(pkg.status # "none" /\ Pending = 0))
  <2> DEFINE n == Len(acks) + 1
             d == [pc |-> "send", n |-> n, cmd |-> commands[n],
                   try |-> 1, got |-> NoAnswer, fresh |-> FALSE, refreshed |-> FALSE]
  <2>1. Goto(t, d) /\ Pending > 0
    BY <1>3 DEF Pick
  <2>2. n \in DOMAIN commands /\ n \in Nat /\ commands[n] \in CommandRow
    BY <2>1 DEF Pending, IInv, Shape
  <2>3. d \in Replaying /\ d.n = n /\ d.cmd = commands[n] /\ d.got.kind = "none"
      /\ d.pc = "send"
    BY <2>2 DEF Replaying, Answers, NoAnswer
  <2> HIDE DEF d
  <2>4. AnswerTrueNext(d) /\ Fitting(d)
    BY <2>3 DEF AnswerTrueNext, Fitting
  <2> QED
    BY <1>1, <2>1, <2>2, <2>3, <2>4, UploadStep DEF StreamGrows, IInv, Shape
<1> QED
  BY <1>2, <1>3

LEMMA SendStep ==
  ASSUME IInv, NEW t \in Tabs, Send(t)
  PROVE  IInv'
<1> DEFINE d == [tab[t] EXCEPT !.pc = "wait", !.got = NoAnswer, !.fresh = cookie]
<1>1. UNCHANGED <<stream, commands, acks, taps, cookie, late, pkg>>
  BY DEF Send, server, store
<1>2. CASE Goto(t, Ended(FALSE)) /\ UNCHANGED lease
  BY <1>1, <1>2, RestStep DEF Ended, Uploading, IInv, Shape
<1>3. CASE Holds(t) /\ lease' = Renewed /\ Goto(t, d)
  <2>1. /\ tab[t] \in Replaying
        /\ tab[t].n \in DOMAIN commands /\ commands[tab[t].n] = tab[t].cmd
    BY <1>3 DEF Send, IInv, Uploads, Uploading
  <2>2. d \in Replaying /\ d.n = tab[t].n /\ d.cmd = tab[t].cmd /\ d.got.kind = "none"
        /\ d.pc = "wait"
    BY <2>1 DEF Replaying, Answers, NoAnswer, IInv, Shape
  <2>3. lease' \in LeaseRow /\ lease'.owner = lease.owner
    BY <1>3 DEF Renewed, LeaseRow, IInv, Shape
  <2> HIDE DEF d
  <2>4. AnswerTrueNext(d) /\ Fitting(d)
    BY <2>2 DEF AnswerTrueNext, Fitting
  <2> QED
    BY <1>1, <1>3, <2>1, <2>2, <2>3, <2>4, UploadStep DEF StreamGrows, IInv, Shape
<1> QED
  BY <1>2, <1>3 DEF Send

LEMMA AnswerType ==
  ASSUME stream \in Seq(Nat), NEW req \in CommandRow, NEW fresh
  PROVE  Answer(req, fresh) \in Answers
<1>1. Len(stream) + 1 \in Nat
  OBVIOUS
<1>2. Refusal(req, fresh) = "duplicate" => Position(req.id) \in Nat
  <2>1. Refusal(req, fresh) = "duplicate" => Committed(req.id)
    BY DEF Refusal
  <2>2. Committed(req.id) => Position(req.id) \in DOMAIN stream
    BY DEF Committed, Position
  <2> QED
    BY <2>1, <2>2
<1>3. Refusal(req, fresh) \in Codes \cup {"none", "duplicate"}
  BY DEF Refusal, Codes
<1>4. \A n \in Nat : Acked(n) \in Answers
  BY DEF Acked, Answers
<1>5. \A c \in Codes : Blocked(c) \in Answers
  BY DEF Blocked, Answers
<1>6. Blocked("reused") \in Answers
  BY <1>5 DEF Codes
<1>7. CASE Refusal(req, fresh) = "none"
  BY <1>1, <1>4, <1>7 DEF Answer
<1>8. CASE Refusal(req, fresh) = "duplicate"
  BY <1>2, <1>4, <1>6, <1>8 DEF Answer
<1>9. CASE Refusal(req, fresh) \notin {"none", "duplicate"}
  BY <1>3, <1>5, <1>9 DEF Answer
<1> QED
  BY <1>7, <1>8, <1>9

LEMMA ServeStep ==
  ASSUME IInv, NEW t \in Tabs, Serve(t)
  PROVE  IInv'
<1> DEFINE got == Answer(tab[t].cmd, tab[t].fresh)
           d == [tab[t] EXCEPT !.got = got]
<1>1. /\ tab[t] \in Replaying /\ tab[t].pc = "wait"
      /\ Holds(t) => tab[t].n \in DOMAIN commands /\ commands[tab[t].n] = tab[t].cmd
  BY DEF Serve, IInv, Uploads, Uploading
<1>2. tab[t].cmd \in CommandRow
  BY <1>1 DEF Replaying
<1>3. stream \in Seq(Nat)
  BY DEF IInv, Shape
<1>4. StreamGrows /\ (got.kind = "ack" => got.seq \in DOMAIN stream' /\ stream'[got.seq] = tab[t].cmd.id)
  BY <1>2, <1>3, AnswersAreTrue DEF Serve
<1>5. got \in Answers
  BY <1>2, <1>3, AnswerType
<1> HIDE DEF got
<1>6. d \in Replaying /\ d.n = tab[t].n /\ d.cmd = tab[t].cmd /\ d.got = got
      /\ d.pc = "wait"
  BY <1>1, <1>5 DEF Replaying
<1>7. Goto(t, d)
  BY DEF Serve, got
<1>8. UNCHANGED <<commands, acks, taps, cookie, lease, late, pkg>>
  BY DEF Serve, store
<1> HIDE DEF d
<1>9. AnswerTrueNext(d) /\ Fitting(d)
  BY <1>4, <1>6 DEF AnswerTrueNext, Fitting
<1> QED
  BY <1>1, <1>4, <1>6, <1>7, <1>8, <1>9, UploadStep DEF IInv, Shape

\* An answer is acted upon only under the lease.
LEMMA ConcludeStep ==
  ASSUME IInv, NEW t \in Tabs, NEW got \in Answers, tab[t].pc = "wait", got.kind # "none",
         got.kind = "ack" => got = tab[t].got,
         Conclude(t, got), late' \subseteq CommandRow,
         UNCHANGED <<stream, commands, acks, taps, cookie, pkg>>
  PROVE  IInv'
<1>1. CASE Goto(t, Ended(FALSE)) /\ lease' \in {lease, Renewed}
  <2>1. lease' \in LeaseRow /\ lease'.owner = lease.owner
    BY <1>1 DEF Renewed, LeaseRow, IInv, Shape
  <2> QED
    BY <1>1, <2>1, RestStep DEF Ended, Uploading, IInv, Shape
<1>2. CASE Holds(t) /\ lease' = Renewed /\ ~Goto(t, Ended(FALSE))
  <2>1. /\ tab[t] \in Replaying /\ AnswerTrue(tab[t])
        /\ tab[t].n \in DOMAIN commands /\ commands[tab[t].n] = tab[t].cmd
    BY <1>2 DEF IInv, Uploads, Uploading
  <2>2. lease' \in LeaseRow /\ lease'.owner = lease.owner
    BY <1>2 DEF Renewed, LeaseRow, IInv, Shape
  <2>3. CASE got.kind = "ack"
    <3> DEFINE d == [tab[t] EXCEPT !.pc = "store", !.got = got]
    <3>1. Goto(t, d)
      BY <1>2, <2>3 DEF Conclude
    <3>2. d \in Replaying /\ d.n = tab[t].n /\ d.cmd = tab[t].cmd /\ d.got = got
          /\ d.pc = "store"
      BY <2>1 DEF Replaying
    <3> HIDE DEF d
    <3>3. AnswerTrueNext(d) /\ Fitting(d)
      BY <2>1, <2>3, <3>2 DEF AnswerTrueNext, AnswerTrue, Fitting
    <3> QED
      BY <2>1, <2>2, <3>1, <3>2, <3>3, UploadStep DEF StreamGrows, IInv, Shape
  <2>4. CASE got.kind = "retry"
    <3> DEFINE d == [tab[t] EXCEPT !.pc = "send", !.try = @ + 1, !.got = NoAnswer]
    <3>1. Goto(t, d)
      BY <1>2, <2>4 DEF Conclude
    <3>2. NoAnswer \in Answers /\ NoAnswer.kind = "none"
      BY DEF Answers, NoAnswer
    <3>3. tab[t].try + 1 \in Nat
      BY <2>1 DEF Replaying
    <3>4. d \in Replaying /\ d.n = tab[t].n /\ d.cmd = tab[t].cmd /\ d.got = NoAnswer
          /\ d.pc = "send"
      BY <2>1, <3>2, <3>3 DEF Replaying
    <3> HIDE DEF d
    <3>5. AnswerTrueNext(d) /\ Fitting(d)
      BY <3>2, <3>4 DEF AnswerTrueNext, Fitting
    <3> QED
      BY <2>1, <2>2, <3>1, <3>4, <3>5, UploadStep DEF StreamGrows, IInv, Shape
  <2>5. CASE got.kind \notin {"ack", "retry"}
    <3> DEFINE d == [tab[t] EXCEPT !.got = got,
                       !.pc = IF got.code = "stale" /\ ~tab[t].refreshed THEN "refresh" ELSE "block"]
    <3>1. Goto(t, d)
      BY <1>2, <2>5 DEF Conclude
    <3>2. d \in Replaying /\ d.n = tab[t].n /\ d.cmd = tab[t].cmd /\ d.got = got
          /\ d.pc \in {"refresh", "block"}
      BY <2>1 DEF Replaying
    <3>3. got.kind = "blocked"
      BY <2>5 DEF Answers
    <3> HIDE DEF d
    <3>4. AnswerTrueNext(d) /\ Fitting(d)
      BY <3>2, <3>3 DEF AnswerTrueNext, Fitting
    <3> QED
      BY <2>1, <2>2, <3>1, <3>2, <3>4, UploadStep DEF StreamGrows, IInv, Shape
  <2> QED
    BY <2>3, <2>4, <2>5
<1> QED
  BY <1>1, <1>2 DEF Conclude

LEMMA ReceiveStep ==
  ASSUME IInv, NEW t \in Tabs, Receive(t) \/ GiveUp(t)
  PROVE  IInv'
<1>1. tab[t].pc = "wait" /\ tab[t] \in Replaying
  BY DEF Receive, GiveUp, IInv, Uploads, Uploading
<1>2. UNCHANGED <<stream, commands, acks, taps, cookie, pkg>>
  BY DEF Receive, GiveUp, server, store
<1>3. CASE Receive(t)
  <2>1. tab[t].got \in Answers
    BY <1>1 DEF Replaying
  <2>2. tab[t].got.kind # "none"
    BY <1>3, <2>1 DEF Receive, Answers, NoAnswer
  <2> QED
    BY <1>1, <1>2, <1>3, <2>1, <2>2, ConcludeStep DEF Receive, IInv, Shape
<1>4. CASE GiveUp(t)
  <2>1. [kind |-> "retry"] \in Answers
    BY DEF Answers
  <2>2. late' \subseteq CommandRow
    BY <1>1, <1>4 DEF GiveUp, Abandoned, Replaying, IInv, Shape
  <2> QED
    BY <1>1, <1>2, <1>4, <2>1, <2>2, ConcludeStep DEF GiveUp
<1> QED
  BY <1>3, <1>4

LEMMA StoreAckStep ==
  ASSUME IInv, NEW t \in Tabs, StoreAck(t)
  PROVE  IInv'
<1> DEFINE n == tab[t].n  seq == tab[t].got.seq
<1>1. UNCHANGED <<stream, commands, taps, cookie, lease, late>>
  BY DEF StoreAck, server
<1>2. CASE UNCHANGED <<acks, pkg>> /\ Goto(t, Ended(FALSE))
  BY <1>1, <1>2, RestStep DEF Ended, Uploading, IInv, Shape
<1>3. CASE /\ Holds(t) /\ Storable(n, seq) /\ acks' = Append(acks, seq)
           /\ pkg' = [pkg EXCEPT !.acked = IF seq > @ THEN seq ELSE @]
           /\ Goto(t, At(IF commands[n].final THEN "complete" ELSE "pick"))
  <2>1. /\ tab[t].pc = "store" /\ tab[t] \in Replaying
        /\ AnswerTrue(tab[t]) /\ Fitting(tab[t])
        /\ n \in DOMAIN commands /\ commands[n] = tab[t].cmd
    BY <1>3 DEF StoreAck, IInv, Uploads, Uploading
  <2>2. n = Len(acks) + 1 /\ seq = commands[n].expected + 1
    BY <1>3 DEF Storable
  <2>3. seq \in DOMAIN stream /\ stream[seq] = commands[n].id
    BY <2>1 DEF AnswerTrue, Fitting
  <2>4. seq \in Nat
    BY <2>3 DEF IInv, Shape
  <2>5. acks' \in Seq(Nat) /\ Len(acks') = n /\ acks'[n] = seq
        /\ \A i \in DOMAIN acks' : i = n \/ (i \in DOMAIN acks /\ acks'[i] = acks[i])
    BY <1>3, <2>2, <2>4 DEF IInv, Shape
  <2>6. AcksTrue'
    BY <1>1, <2>3, <2>5 DEF IInv, AcksTrue
  <2>7. pkg' \in PackageRow
    BY <1>3, <2>4 DEF IInv, Shape, PackageRow
  <2>8. DOMAIN tab' = Tabs /\ (\A u \in Tabs \ {t} : tab'[u] = tab[u])
        /\ tab'[t].pc \in {"complete", "pick"}
    BY <1>3 DEF Goto, At, IInv, Shape
  <2>9. Shape'
    BY <1>1, <2>1, <2>5, <2>7, <2>8 DEF IInv, Shape
  <2>10. \A u \in Tabs : Uploads(u)'
    <3> TAKE u \in Tabs
    <3>1. CASE u = t
      BY <2>8, <3>1 DEF Uploads, Uploading
    <3>2. CASE u # t
      BY <1>1, <2>8, <3>2 DEF IInv, Uploads, AnswerTrue, Holds, Fitting
    <3> QED
      BY <3>1, <3>2
  <2> QED
    BY <2>6, <2>9, <2>10 DEF IInv
<1> QED
  BY <1>2, <1>3 DEF StoreAck

\* A resumption in the middle of an upload; what is uploaded stays.
LEMMA ResumedUpload ==
  ASSUME IInv, NEW t \in Tabs, NEW d \in Replaying, NEW heard \in BOOLEAN, Resume(t, d, heard),
         UNCHANGED <<stream, commands, acks, taps, pkg, lease>>,
         Holds(t) => d.n \in DOMAIN commands /\ commands[d.n] = d.cmd,
         d.got.kind # "ack", Fitting(d)
  PROVE  IInv'
<1>1. Moves(t) /\ tab'[t] = d
  BY ResumeMoves
<1>2. Uploads(t)'
  BY <1>1 DEF Uploads, Uploading, Replaying, Holds, AnswerTrue, Fitting
<1> QED
  BY <1>1, <1>2, MovesKeeps DEF IInv, Shape

LEMMA RefreshStep ==
  ASSUME IInv, NEW t \in Tabs, Refresh(t)
  PROVE  IInv'
<1> DEFINE again == [tab[t] EXCEPT !.pc = "send", !.try = @ + 1, !.refreshed = TRUE]
           block(code) == [tab[t] EXCEPT !.pc = "block", !.refreshed = TRUE, !.got = Blocked(code)]
<1>1. /\ tab[t] \in Replaying /\ tab[t].got.kind = "blocked"
      /\ Holds(t) => tab[t].n \in DOMAIN commands /\ commands[tab[t].n] = tab[t].cmd
  BY DEF Refresh, IInv, Uploads, Uploading, Fitting
<1>2. UNCHANGED <<stream, commands, acks, taps, pkg, lease>>
  BY DEF Refresh, store
<1>3. tab[t].try + 1 \in Nat
  BY <1>1 DEF Replaying
<1>4. /\ again \in Replaying /\ again.n = tab[t].n /\ again.cmd = tab[t].cmd
      /\ again.got = tab[t].got /\ again.pc = "send"
  BY <1>1, <1>3 DEF Replaying
<1>5. ASSUME NEW code \in Codes
      PROVE  /\ block(code) \in Replaying /\ block(code).n = tab[t].n
             /\ block(code).cmd = tab[t].cmd /\ block(code).got.kind = "blocked"
             /\ block(code).pc = "block"
  <2>1. Blocked(code) \in Answers /\ Blocked(code).kind = "blocked"
    BY DEF Blocked, Answers
  <2> QED
    BY <1>1, <2>1 DEF Replaying
<1>6. ResumeCode # "active" => ResumeCode \in Codes
  BY DEF ResumeCode, Codes
<1>7. "stale" \in Codes
  BY DEF Codes
<1> HIDE DEF again, block
<1>8. CASE Resume(t, again, TRUE)
  BY <1>1, <1>2, <1>4, <1>8, ResumedUpload DEF Fitting
<1>9. CASE Resume(t, Ended(FALSE), TRUE)
  BY <1>2, <1>9, ResumeStep DEF Ended, Uploading
<1>10. CASE \E heard \in BOOLEAN : Resume(t, block("stale"), heard)
  BY <1>1, <1>2, <1>5, <1>7, <1>10, ResumedUpload DEF Fitting
<1>11. CASE \E code \in Codes : Goto(t, block(code)) /\ UNCHANGED <<cookie, late>>
  <2>1. PICK code \in Codes : Goto(t, block(code)) /\ UNCHANGED <<cookie, late>>
    BY <1>11
  <2>2. AnswerTrueNext(block(code)) /\ Fitting(block(code))
    BY <1>5 DEF AnswerTrueNext, Fitting
  <2> QED
    BY <1>1, <1>2, <1>5, <2>1, <2>2, UploadStep DEF StreamGrows, IInv, Shape
<1> QED
  BY <1>6, <1>7, <1>8, <1>9, <1>10, <1>11 DEF Refresh, again, block

LEMMA BlockStep ==
  ASSUME IInv, NEW t \in Tabs, Block(t)
  PROVE  IInv'
<1>1. UNCHANGED <<stream, commands, acks, taps, cookie, late, lease>>
  BY DEF Block, server
<1>2. /\ tab[t] \in Replaying /\ tab[t].got.kind = "blocked"
      /\ Holds(t) => tab[t].n \in DOMAIN commands /\ commands[tab[t].n] = tab[t].cmd
  BY DEF Block, IInv, Uploads, Uploading, Fitting
<1>3. pkg' \in PackageRow
  BY DEF Block, PackageRow, Statuses, IInv, Shape
<1>4. CASE Goto(t, Ended(FALSE))
  BY <1>1, <1>3, <1>4, RestStep DEF Ended, Uploading, IInv, Shape
<1>5. CASE Goto(t, [tab[t] EXCEPT !.pc = "conflict"])
  <2> DEFINE d == [tab[t] EXCEPT !.pc = "conflict"]
  <2>1. d \in Replaying /\ d.n = tab[t].n /\ d.cmd = tab[t].cmd /\ d.got = tab[t].got
        /\ d.pc = "conflict"
    BY <1>2 DEF Replaying
  <2>2. Goto(t, d)
    BY <1>5
  <2> HIDE DEF d
  <2>3. AnswerTrueNext(d) /\ Fitting(d)
    BY <1>2, <2>1 DEF AnswerTrueNext, Fitting
  <2> QED
    BY <1>1, <1>2, <1>3, <2>1, <2>2, <2>3, UploadStep DEF StreamGrows, IInv, Shape
<1> QED
  BY <1>4, <1>5 DEF Block

LEMMA DiscardStep ==
  ASSUME IInv, NEW t \in Tabs, Discard(t)
  PROVE  IInv'
<1> USE DEF Discard, server
<1>1. CASE UNCHANGED <<pkg, commands, acks, lease>>
  BY <1>1, RestStep DEF Idle, Uploading, IInv, Shape
<1>2. CASE /\ pkg' = [status |-> "none", acked |-> 0]
           /\ commands' = <<>> /\ acks' = <<>>
           /\ lease' = [owner |-> None, live |-> FALSE]
  <2>1. /\ DOMAIN tab' = Tabs /\ tab'[t].pc = "idle"
        /\ \A u \in Tabs \ {t} : tab'[u] = tab[u]
    BY DEF Goto, Idle, IInv, Shape
  <2>2. Shape'
    BY <1>2, <2>1 DEF IInv, Shape, PackageRow, Statuses, LeaseRow
  <2>3. AcksTrue'
    BY <1>2 DEF AcksTrue
  <2>4. \A u \in Tabs : Uploads(u)'
    <3> TAKE u \in Tabs
    <3>1. CASE u = t
      BY <2>1, <3>1 DEF Uploads, Uploading
    <3>2. CASE u # t
      BY <1>2, <2>1, <3>2, TabsAssumption DEF IInv, Uploads, AnswerTrue, Holds, Fitting
    <3> QED
      BY <3>1, <3>2
  <2> QED
    BY <2>2, <2>3, <2>4 DEF IInv
<1> QED
  BY <1>1, <1>2

----------------------------------------------------------------------------
LEMMA Start == Init => IInv
<1> SUFFICES ASSUME Init PROVE IInv
  OBVIOUS
<1>1. Shape
  BY DEF Init, Shape, PackageRow, Statuses, LeaseRow
<1>2. \A u \in Tabs : Uploads(u)
  BY DEF Init, Uploads, Uploading, Idle
<1>3. AcksTrue
  BY DEF Init, AcksTrue
<1> QED
  BY <1>1, <1>2, <1>3 DEF IInv

LEMMA Stutter ==
  ASSUME IInv, UNCHANGED vars
  PROVE  IInv'
<1>1. UNCHANGED <<stream, commands, acks, pkg, cookie, taps, late, lease, tab>>
  BY DEF vars, store
<1>2. Shape' /\ AcksTrue'
  BY <1>1 DEF IInv, Shape, AcksTrue
<1>3. ASSUME NEW u \in Tabs PROVE Uploads(u)'
  BY <1>1 DEF IInv, Uploads, AnswerTrue, Holds, Fitting
<1> QED
  BY <1>2, <1>3 DEF IInv

LEMMA Step ==
  ASSUME IInv, [Next]_vars
  PROVE  IInv'
<1>1. ASSUME NEW t \in Tabs, Record(t) PROVE IInv'
  BY <1>1, RecordStep, TapOnlineStep, EnqueueStep DEF Record
<1>2. ASSUME NEW t \in Tabs, Replay(t) PROVE IInv'
  BY <1>2, QuietStep, PickStep, SendStep, ServeStep, ReceiveStep, StoreAckStep, RefreshStep,
     BlockStep, RecoverStep DEF Replay
<1>3. ASSUME NEW t \in Tabs,
             \/ EstablishUnheard(t) \/ GiveUp(t) \/ Close(t) \/ MarkTerminal(t)
             \/ ReadExport(t) \/ Export(t) \/ SignOut(t) \/ Discard(t)
      PROVE  IInv'
  BY <1>3, QuietStep, ReceiveStep, MarkTerminalStep, DiscardStep
<1> QED
  BY <1>1, <1>2, <1>3, SystemStep, Stutter DEF Next

\* What the phone believes acknowledged is what the server entered there.
THEOREM UploadsConsistent == Spec => []IInv
BY Start, Step, PTL DEF Spec

\* An acknowledgement names the place of its own command in the server's
\* stream, whatever was lost, repeated, reopened or handed over.
THEOREM AcknowledgementsTrue == Spec => []AcksTrue
<1>1. IInv => AcksTrue
  BY DEF IInv
<1> QED
  BY <1>1, UploadsConsistent, PTL

----------------------------------------------------------------------------
(* What is cleared.  Only a discard takes commands from the phone, and it  *)
(* needs a diagnostic that attests exactly the queue, or none pending.     *)
(* What the queue has an acknowledgement for is on the server by AcksTrue, *)
(* the rest is what the diagnostic counts as pending.                      *)

\* Commands are added by a recording and taken by a discard only.
LEMMA OnlyDiscardClears ==
  ASSUME [Next]_vars, commands' # commands
  PROVE  \E t \in Tabs : Enqueue(t) \/ Discard(t)
<1> USE DEF store
<1>1. Next
  BY DEF vars
<1>2. ~(Transfer \/ Revoke \/ LeaseRunsOut \/ WindowAdvances \/ Foreign \/ ServeLate \/ LeaseLapses)
  BY DEF Transfer, Revoke, LeaseRunsOut, WindowAdvances, Foreign, ServeLate, LeaseLapses
<1>3. ASSUME NEW t \in Tabs PROVE ~(Tap(t) \/ TapOnline(t) \/ ReadQueue(t))
  BY DEF Tap, TapOnline, ReadQueue
<1>4. ASSUME NEW t \in Tabs
      PROVE  ~(Begin(t) \/ Establish(t) \/ Acquire(t) \/ Pick(t) \/ Send(t) \/ Serve(t))
  BY DEF Begin, Establish, Acquire, Pick, Send, Serve
<1>5. ASSUME NEW t \in Tabs
      PROVE  ~(Receive(t) \/ StoreAck(t) \/ Complete(t) \/ Refresh(t) \/ Block(t))
  BY DEF Receive, StoreAck, Complete, Refresh, Block
<1>6. ASSUME NEW t \in Tabs
      PROVE  ~(RecordConflict(t) \/ Release(t) \/ Recover(t) \/ Save(t))
  BY DEF RecordConflict, Release, Recover, Save
<1>7. ASSUME NEW t \in Tabs
      PROVE  ~(EstablishUnheard(t) \/ GiveUp(t) \/ Close(t))
  BY DEF EstablishUnheard, GiveUp, Close
<1>8. ASSUME NEW t \in Tabs
      PROVE  ~(MarkTerminal(t) \/ ReadExport(t) \/ Export(t) \/ SignOut(t))
  BY DEF MarkTerminal, ReadExport, Export, SignOut
<1>9. ASSUME NEW t \in Tabs PROVE ~Replay(t) /\ (Record(t) => Enqueue(t))
  BY <1>3, <1>4, <1>5, <1>6 DEF Replay, Record
<1> QED
  BY <1>1, <1>2, <1>7, <1>8, <1>9 DEF Next

LEMMA EnqueueKeeps ==
  ASSUME IInv, NEW t \in Tabs, Enqueue(t), NEW id, InQueue(id)
  PROVE  InQueue(id)'
<1>1. tab[t] \in Recording
  BY DEF Enqueue, IInv, Uploads
<1>2. Command(tab[t]) \in CommandRow
  BY <1>1 DEF Recording, Command, CommandRow, IInv, Shape
<1>3. QueueGrows
  BY <1>2 DEF Enqueue, QueueGrows
<1> QED
  BY <1>3, QueueKeeps DEF InQueue, IInv, Shape

LEMMA DiscardAccounts ==
  ASSUME IInv, NEW t \in Tabs, Discard(t), commands' # commands, NEW id, InQueue(id)
  PROVE  \/ Committed(id)
         \/ exported # None /\ id \in PendingIn(exported)
<1>1. Discardable
  BY DEF Discard
<1>2. PICK n \in DOMAIN commands : commands[n].id = id
  BY DEF InQueue
<1>3. CASE n \in DOMAIN acks
  BY <1>2, <1>3 DEF IInv, AcksTrue, Committed
<1>4. CASE n \notin DOMAIN acks
  <2>1. n \in Len(acks) + 1 .. Len(commands)
    BY <1>4 DEF IInv, Shape
  <2>2. Attested
    BY <1>1, <2>1 DEF Discardable, Resolved, Pending, IInv, Shape
  <2>3. exported.commands = commands /\ exported.acks = acks
    BY <2>2 DEF Attested, Snapshot
  <2> QED
    BY <1>2, <2>1, <2>2, <2>3 DEF Attested, PendingIn
<1> QED
  BY <1>3, <1>4

\* A recorded tap leaves the phone only when the server has it, or when the
\* diagnostic attested last counts it as pending, whichever tab records,
\* exports or signs out meanwhile.
THEOREM ClearingIsAccounted == Spec => ClearedIsAccounted
<1>1. ASSUME IInv, [Next]_vars, NEW id, InQueue(id), ~InQueue(id)'
      PROVE  \/ Committed(id)
             \/ exported # None /\ id \in PendingIn(exported)
  <2>1. commands' # commands
    BY <1>1 DEF InQueue
  <2>2. PICK t \in Tabs : Enqueue(t) \/ Discard(t)
    BY <1>1, <2>1, OnlyDiscardClears
  <2> QED
    BY <1>1, <2>1, <2>2, EnqueueKeeps, DiscardAccounts
<1>2. IInv /\ [Next]_vars =>
        [\A id \in stored :
           InQueue(id) /\ ~InQueue(id)' =>
             \/ Committed(id)
             \/ exported # None /\ id \in PendingIn(exported)]_vars
  BY <1>1
<1> QED
  BY <1>2, UploadsConsistent, PTL DEF Spec, ClearedIsAccounted

----------------------------------------------------------------------------
(* The stored queue and what may become of it.  While a tab holds the      *)
(* lease, the command it uploads is the first without an acknowledgement:  *)
(* only it could store one, and then it goes on to the next.  Behind a     *)
(* finalisation nothing is queued, so the tab that stores its              *)
(* acknowledgement has drained the queue.                                  *)

Drained == Pending = 0 /\ commands # <<>> /\ commands[Len(commands)].final

AtFirst(d) ==
  /\ d.pc \in Uploading => d.n = Len(acks) + 1
  /\ d.pc = "complete" => Drained

QInv ==
  /\ QueueIntegral
  /\ pkg.status = "none" => commands = <<>>
  /\ CompletedIsDrained
  /\ \A u \in Tabs : Holds(u) => AtFirst(tab[u])

\* What becomes of the package while the queue stays as it is.
PackageMoves ==
  /\ pkg'.acked = pkg.acked
  /\ \/ pkg'.status = pkg.status
     \/ pkg'.status \notin {"none", "completed"}
     \/ pkg'.status = "completed" /\ Drained

LEMMA QueueStays ==
  ASSUME IInv, QInv, NEW t, \A u \in Tabs \ {t} : Kept(u), UNCHANGED <<commands, acks>>,
         lease'.owner \in {lease.owner, t, None}, PackageMoves,
         t \in Tabs /\ lease'.owner = t => AtFirst(tab'[t])
  PROVE  QInv'
<1>1. QueueIntegral'
  BY DEF QInv, QueueIntegral, Integral, PackageMoves
<1>2. Drained => Drained'
  BY DEF Drained, Pending
<1>3. (pkg'.status = "none" => commands' = <<>>) /\ CompletedIsDrained'
  BY <1>2 DEF QInv, PackageMoves, CompletedIsDrained, Drained
<1>4. ASSUME NEW u \in Tabs, lease'.owner = u PROVE AtFirst(tab[u])'
  <2>1. CASE u = t
    BY <1>2, <1>4, <2>1 DEF AtFirst
  <2>2. CASE u # t
    <3>1. AtFirst(tab[u]) /\ Kept(u) /\ Uploads(u)
      BY <1>4, <2>2, TabsAssumption DEF QInv, Holds, IInv
    <3>2. CASE tab'[u] = tab[u]
      BY <1>2, <3>1, <3>2 DEF AtFirst
    <3>3. CASE tab[u].pc = "wait" /\ tab'[u] = [tab[u] EXCEPT !.fresh = FALSE]
      <4>1. tab[u] \in Replaying
        BY <3>1, <3>3 DEF Uploads, Uploading
      <4>2. tab'[u].pc = "wait" /\ tab'[u].n = tab[u].n
        BY <3>3, <4>1 DEF Replaying
      <4>3. tab[u].n = Len(acks) + 1
        BY <3>1, <3>3 DEF AtFirst, Uploading
      <4> QED
        BY <4>2, <4>3 DEF AtFirst
    <3> QED
      BY <3>1, <3>2, <3>3 DEF Kept
  <2> QED
    BY <2>1, <2>2
<1> QED
  BY <1>1, <1>3, <1>4 DEF QInv, Holds

LEMMA GotoKeeps ==
  ASSUME IInv, NEW t \in Tabs, NEW d, Goto(t, d)
  PROVE  tab'[t] = d /\ \A u \in Tabs \ {t} : Kept(u)
  BY DEF Goto, Kept, IInv, Shape

\* A tab that does something else than uploading.
LEMMA RestQueue ==
  ASSUME IInv, QInv, NEW t \in Tabs, NEW d, Goto(t, d), d.pc \notin Uploading \cup {"complete"},
         UNCHANGED <<commands, acks>>, lease'.owner \in {lease.owner, t, None}, PackageMoves
  PROVE  QInv'
<1>1. tab'[t] = d /\ \A u \in Tabs \ {t} : Kept(u)
  BY GotoKeeps
<1>2. AtFirst(tab'[t])
  BY <1>1 DEF AtFirst
<1> QED
  BY <1>1, <1>2, QueueStays

\* The uploading tab goes on with its command.
LEMMA UploadQueue ==
  ASSUME IInv, QInv, NEW t \in Tabs, NEW d, Goto(t, d), tab[t].pc \in Uploading,
         d.pc \in Uploading, d.n = tab[t].n,
         UNCHANGED <<commands, acks>>, lease'.owner \in {lease.owner, None}, PackageMoves
  PROVE  QInv'
<1>1. tab'[t] = d /\ \A u \in Tabs \ {t} : Kept(u)
  BY GotoKeeps
<1>2. lease'.owner = t => AtFirst(tab'[t])
  BY <1>1, TabsAssumption DEF AtFirst, QInv, Holds, Uploading
<1> QED
  BY <1>1, <1>2, QueueStays

LEMMA ResumeQueue ==
  ASSUME IInv, QInv, NEW t \in Tabs, NEW d, NEW heard \in BOOLEAN, Resume(t, d, heard),
         UNCHANGED <<stream, commands, acks, lease, pkg>>,
         \/ d.pc \notin Uploading \cup {"complete"}
         \/ tab[t].pc \in Uploading /\ d.pc \in Uploading /\ d.n = tab[t].n
  PROVE  QInv'
<1>1. tab'[t] = d /\ \A u \in Tabs \ {t} : Kept(u)
  BY ResumeMoves DEF Moves
<1>2. lease'.owner = t => AtFirst(tab'[t])
  BY <1>1 DEF AtFirst, QInv, Holds, Uploading
<1>3. PackageMoves
  BY DEF PackageMoves
<1> QED
  BY <1>1, <1>2, <1>3, QueueStays

\* No tab moves.
LEMMA SystemQueue ==
  ASSUME IInv, QInv, UNCHANGED <<tab, commands, acks>>, lease'.owner = lease.owner, PackageMoves
  PROVE  QInv'
<1>1. \A u \in Tabs \ {None} : Kept(u)
  BY DEF Kept
<1> QED
  BY <1>1, QueueStays, TabsAssumption

LEMMA SystemKeepsQueue ==
  ASSUME IInv, QInv,
         \/ Transfer \/ Revoke \/ LeaseRunsOut \/ WindowAdvances \/ Foreign \/ ServeLate
         \/ LeaseLapses \/ UNCHANGED vars \/ \E t \in Tabs : MarkTerminal(t)
  PROVE  QInv'
<1> USE DEF store, server
<1>1. CASE \E t \in Tabs : MarkTerminal(t)
  <2>1. PackageMoves
    BY <1>1 DEF MarkTerminal, PackageMoves, IInv, Shape, PackageRow
  <2> QED
    BY <1>1, <2>1, SystemQueue DEF MarkTerminal
<1>2. CASE ~\E t \in Tabs : MarkTerminal(t)
  <2>1. UNCHANGED <<tab, commands, acks, pkg>>
    BY <1>2 DEF Transfer, Revoke, LeaseRunsOut, WindowAdvances, Foreign, ServeLate, LeaseLapses, vars
  <2>2. lease'.owner = lease.owner
    BY <1>2 DEF Transfer, Revoke, LeaseRunsOut, WindowAdvances, Foreign, ServeLate, LeaseLapses,
                vars, IInv, Shape, LeaseRow
  <2> QED
    BY <2>1, <2>2, SystemQueue DEF PackageMoves
<1> QED
  BY <1>1, <1>2

LEMMA RecordKeepsQueue ==
  ASSUME IInv, QInv, NEW t \in Tabs, Tap(t) \/ TapOnline(t) \/ ReadQueue(t)
  PROVE  QInv'
<1>1. UNCHANGED <<commands, acks, pkg, lease>>
  BY DEF Tap, TapOnline, ReadQueue, store
<1>2. CASE Tap(t)
  BY <1>1, <1>2, RestQueue DEF Tap, Uploading, PackageMoves
<1>3. CASE TapOnline(t)
  BY <1>1, <1>3, RestQueue, SystemQueue DEF TapOnline, Uploading, PackageMoves
<1>4. CASE ReadQueue(t)
  <2> DEFINE d == [tab[t] EXCEPT !.pc = "queue", !.local = Len(commands) + 1, !.pending = Pending]
  <2>1. tab[t] \in Recording
    BY <1>4 DEF ReadQueue, IInv, Uploads
  <2>2. d.pc = "queue" /\ Goto(t, d)
    BY <1>4, <2>1 DEF ReadQueue, Recording
  <2> HIDE DEF d
  <2> QED
    BY <1>1, <2>2, RestQueue DEF Uploading, PackageMoves
<1> QED
  BY <1>2, <1>3, <1>4

\* The queue is checked with the new command in it, and no command comes
\* behind a finalisation.
LEMMA EnqueueKeepsQueue ==
  ASSUME IInv, QInv, NEW t \in Tabs, Enqueue(t)
  PROVE  QInv'
<1>1. UNCHANGED <<acks, pkg, lease>> /\ Goto(t, Idle)
  BY DEF Enqueue
<1>2. CASE UNCHANGED commands
  BY <1>1, <1>2, RestQueue DEF Idle, Uploading, PackageMoves
<1>3. CASE Recordable(tab[t]) /\ commands' = Append(commands, Command(tab[t]))
  <2>1. Command(tab[t]) \in CommandRow
    <3>1. tab[t] \in Recording
      BY DEF Enqueue, IInv, Uploads
    <3> QED
      BY <3>1 DEF Recording, Command, CommandRow
  <2>2. QueueIntegral'
    BY <1>1, <1>3 DEF Recordable, QueueIntegral
  <2>3. pkg.status = "active" /\ pkg' = pkg
    BY <1>1, <1>3 DEF Recordable
  <2>4. tab'[t] = Idle /\ \A u \in Tabs \ {t} : tab'[u] = tab[u]
    BY <1>1 DEF Goto, IInv, Shape
  <2>5. ~Drained
    <3> SUFFICES ASSUME Drained PROVE FALSE
      OBVIOUS
    <3> DEFINE n == Len(commands)  cs == Append(commands, Command(tab[t]))
    <3>1. n \in Nat \ {0} /\ commands[n].final
      BY DEF Drained, IInv, Shape
    <3>2. n \in DOMAIN cs /\ n + 1 \in DOMAIN cs /\ cs[n] = commands[n] /\ n < n + 1
      BY <2>1, <3>1 DEF IInv, Shape
    <3>3. Integral(cs, acks, pkg.acked)
      BY <1>3 DEF Recordable
    <3> HIDE DEF n, cs
    <3>4. ~cs[n].final
      BY <3>2, <3>3 DEF Integral
    <3> QED
      BY <3>1, <3>2, <3>4
  <2>6. ASSUME NEW u \in Tabs, lease'.owner = u PROVE AtFirst(tab[u])'
    <3>1. CASE u = t
      BY <2>4, <3>1 DEF AtFirst, Idle, Uploading
    <3>2. CASE u # t
      <4>1. AtFirst(tab[u]) /\ tab'[u] = tab[u]
        BY <1>1, <2>4, <2>6, <3>2 DEF QInv, Holds
      <4> QED
        BY <1>1, <2>5, <4>1 DEF AtFirst
    <3> QED
      BY <3>1, <3>2
  <2>7. CompletedIsDrained' /\ pkg'.status # "none"
    BY <2>3 DEF CompletedIsDrained
  <2> QED
    BY <2>2, <2>6, <2>7 DEF QInv, Holds
<1> QED
  BY <1>2, <1>3 DEF Enqueue

LEMMA QuietKeepsQueue ==
  ASSUME IInv, QInv, NEW t \in Tabs,
         \/ Begin(t) \/ Establish(t) \/ EstablishUnheard(t) \/ Acquire(t) \/ RecordConflict(t)
         \/ Release(t) \/ Recover(t) \/ Close(t) \/ ReadExport(t) \/ Export(t) \/ SignOut(t)
  PROVE  QInv'
<1> USE DEF Idle, At, Ended, Uploading, PackageMoves, store, server
<1>1. UNCHANGED <<commands, acks, pkg>>
  BY DEF Begin, Establish, EstablishUnheard, Acquire, RecordConflict, Release, Recover, Close,
         ReadExport, Export, SignOut
<1>2. CASE Begin(t) \/ RecordConflict(t) \/ ReadExport(t) \/ Export(t) \/ SignOut(t)
  BY <1>1, <1>2, RestQueue DEF Begin, RecordConflict, ReadExport, Export, SignOut
<1>3. CASE Establish(t) \/ EstablishUnheard(t)
  <2>1. UNCHANGED <<stream, lease>>
    BY <1>3 DEF Establish, EstablishUnheard
  <2>2. CASE \E heard \in BOOLEAN, d \in {At("acquire"), Idle} : Resume(t, d, heard)
    BY <1>1, <2>1, <2>2, ResumeQueue
  <2>3. CASE Goto(t, Idle)
    BY <1>1, <2>1, <2>3, RestQueue
  <2> QED
    BY <1>3, <2>2, <2>3 DEF Establish, EstablishUnheard
<1>4. CASE Acquire(t)
  <2>1. lease'.owner \in {lease.owner, t} /\ \E d \in {At("pick"), Idle} : Goto(t, d)
    BY <1>4 DEF Acquire
  <2> QED
    BY <1>1, <2>1, RestQueue
<1>5. CASE Release(t)
  <2>1. lease'.owner \in {lease.owner, None} /\ \E d \in {At("recover"), Idle} : Goto(t, d)
    BY <1>5 DEF Release
  <2> QED
    BY <1>1, <2>1, RestQueue
<1>6. CASE Recover(t) \/ Close(t)
  <2>1. /\ lease' = lease
        /\ \E d : Goto(t, d) /\ d.pc \in {"save", "idle", "closed"}
    BY <1>6 DEF Recover, Close
  <2> QED
    BY <1>1, <2>1, RestQueue
<1> QED
  BY <1>2, <1>3, <1>4, <1>5, <1>6

LEMMA PickKeepsQueue ==
  ASSUME IInv, QInv, NEW t \in Tabs, Pick(t)
  PROVE  QInv'
<1>1. UNCHANGED <<commands, acks, lease>> /\ PackageMoves
  BY DEF Pick, PackageMoves, IInv, Shape, PackageRow
<1>2. CASE Goto(t, Ended(pkg.status # "none" /\ Pending = 0))
  BY <1>1, <1>2, RestQueue DEF Ended, Uploading
<1>3. CASE ~Goto(t, Ended(pkg.status # "none" /\ Pending = 0))
  <2>1. PICK d : /\ Goto(t, d)
                 /\ d = [pc |-> "send", n |-> Len(acks) + 1, cmd |-> commands[Len(acks) + 1],
                         try |-> 1, got |-> NoAnswer, fresh |-> FALSE, refreshed |-> FALSE]
    BY <1>3 DEF Pick
  <2>2. d.pc = "send" /\ d.n = Len(acks) + 1
    BY <2>1
  <2>3. tab'[t] = d /\ \A u \in Tabs \ {t} : Kept(u)
    BY <2>1, GotoKeeps
  <2>4. AtFirst(tab'[t])
    BY <2>2, <2>3 DEF AtFirst, Uploading
  <2> QED
    BY <1>1, <2>3, <2>4, QueueStays
<1> QED
  BY <1>2, <1>3

\* An answer that is acted upon, and a refresh, let the upload go on with its
\* command, or end it.
LEMMA ConcludeNext ==
  ASSUME NEW t \in Tabs, NEW got, tab[t] \in Replaying, Conclude(t, got),
         ~Goto(t, Ended(FALSE))
  PROVE  \E d : Goto(t, d) /\ d.pc \in Uploading /\ d.n = tab[t].n
<1>1. PICK d : /\ Goto(t, d)
               /\ \/ d = [tab[t] EXCEPT !.pc = "store", !.got = got]
                  \/ d = [tab[t] EXCEPT !.pc = "send", !.try = @ + 1, !.got = NoAnswer]
                  \/ d = [tab[t] EXCEPT !.got = got,
                            !.pc = IF got.code = "stale" /\ ~tab[t].refreshed
                                   THEN "refresh" ELSE "block"]
  BY DEF Conclude
<1>2. CASE d = [tab[t] EXCEPT !.pc = "store", !.got = got]
  <2>1. d.pc \in Uploading /\ d.n = tab[t].n
    BY <1>2 DEF Replaying, Uploading
  <2> QED
    BY <1>1, <2>1
<1>3. CASE d = [tab[t] EXCEPT !.pc = "send", !.try = @ + 1, !.got = NoAnswer]
  <2>1. d.pc \in Uploading /\ d.n = tab[t].n
    BY <1>3 DEF Replaying, Uploading
  <2> QED
    BY <1>1, <2>1
<1>4. CASE d = [tab[t] EXCEPT !.got = got,
                  !.pc = IF got.code = "stale" /\ ~tab[t].refreshed THEN "refresh" ELSE "block"]
  <2>1. d.pc \in Uploading /\ d.n = tab[t].n
    BY <1>4 DEF Replaying, Uploading
  <2> QED
    BY <1>1, <2>1
<1> QED
  BY <1>1, <1>2, <1>3, <1>4

LEMMA RefreshNext ==
  ASSUME NEW t \in Tabs, tab[t] \in Replaying, Refresh(t)
  PROVE  \E d : /\ Goto(t, d) \/ \E heard \in BOOLEAN : Resume(t, d, heard)
                /\ \/ d.pc \in {"send", "block"} /\ d.n = tab[t].n
                   \/ d = Ended(FALSE)
<1>1. \A code : LET d == [tab[t] EXCEPT !.pc = "block", !.refreshed = TRUE, !.got = Blocked(code)]
                IN  d.pc = "block" /\ d.n = tab[t].n
  BY DEF Replaying
<1>2. LET d == [tab[t] EXCEPT !.pc = "send", !.try = @ + 1, !.refreshed = TRUE]
      IN  d.pc = "send" /\ d.n = tab[t].n
  BY DEF Replaying
<1> QED
  BY <1>1, <1>2 DEF Refresh

LEMMA ConcludeKeepsQueue ==
  ASSUME IInv, QInv, NEW t \in Tabs, NEW got, tab[t].pc = "wait", Conclude(t, got),
         UNCHANGED <<commands, acks, pkg>>
  PROVE  QInv'
<1>1. tab[t] \in Replaying
  BY DEF IInv, Uploads, Uploading
<1>2. lease'.owner = lease.owner /\ PackageMoves
  BY DEF Conclude, Renewed, IInv, Shape, LeaseRow, PackageMoves
<1>3. CASE Goto(t, Ended(FALSE))
  BY <1>2, <1>3, RestQueue DEF Ended, Uploading
<1>4. CASE ~Goto(t, Ended(FALSE))
  <2>1. PICK d : Goto(t, d) /\ d.pc \in Uploading /\ d.n = tab[t].n
    BY <1>1, <1>4, ConcludeNext
  <2> QED
    BY <1>2, <2>1, UploadQueue DEF Uploading
<1> QED
  BY <1>3, <1>4

LEMMA UploadKeepsQueue ==
  ASSUME IInv, QInv, NEW t \in Tabs,
         Send(t) \/ Serve(t) \/ Receive(t) \/ GiveUp(t) \/ Refresh(t) \/ Block(t)
  PROVE  QInv'
<1> USE DEF Uploading, server, store
<1>1. tab[t] \in Replaying /\ tab[t].pc \in Uploading
  BY DEF Send, Serve, Receive, GiveUp, Refresh, Block, IInv, Uploads
<1>2. UNCHANGED <<commands, acks>>
  BY DEF Send, Serve, Receive, GiveUp, Refresh, Block
<1>3. CASE Send(t)
  <2> DEFINE d == [tab[t] EXCEPT !.pc = "wait", !.got = NoAnswer, !.fresh = cookie]
  <2>1. lease'.owner = lease.owner /\ PackageMoves
    BY <1>3 DEF Send, Renewed, PackageMoves, IInv, Shape, LeaseRow
  <2>2. CASE Goto(t, Ended(FALSE))
    BY <1>2, <2>1, <2>2, RestQueue DEF Ended
  <2>3. CASE Goto(t, d)
    <3>1. d.pc = "wait" /\ d.n = tab[t].n
      BY <1>1 DEF Replaying
    <3> HIDE DEF d
    <3> QED
      BY <1>1, <1>2, <2>1, <2>3, <3>1, UploadQueue
  <2> QED
    BY <1>3, <2>2, <2>3 DEF Send
<1>4. CASE Serve(t)
  <2>1. PICK d : Goto(t, d) /\ d = [tab[t] EXCEPT !.got = Answer(tab[t].cmd, tab[t].fresh)]
    BY <1>4 DEF Serve
  <2>2. d.pc = tab[t].pc /\ d.n = tab[t].n
    BY <1>1, <2>1 DEF Replaying
  <2> QED
    BY <1>1, <1>2, <1>4, <2>1, <2>2, UploadQueue DEF Serve, PackageMoves
<1>5. CASE Receive(t) \/ GiveUp(t)
  BY <1>5, ConcludeKeepsQueue DEF Receive, GiveUp
<1>6. CASE Refresh(t)
  <2>1. UNCHANGED <<stream, lease, pkg>>
    BY <1>6 DEF Refresh
  <2>4. PICK d : /\ Goto(t, d) \/ \E heard \in BOOLEAN : Resume(t, d, heard)
                 /\ \/ d.pc \in {"send", "block"} /\ d.n = tab[t].n
                    \/ d = Ended(FALSE)
    BY <1>1, <1>6, RefreshNext
  <2>5. PackageMoves
    BY <2>1 DEF PackageMoves
  <2>6. CASE d = Ended(FALSE)
    BY <1>2, <2>1, <2>4, <2>5, <2>6, RestQueue, ResumeQueue DEF Ended
  <2>7. CASE d.pc \in {"send", "block"} /\ d.n = tab[t].n
    BY <1>1, <1>2, <2>1, <2>4, <2>5, <2>7, UploadQueue, ResumeQueue
  <2> QED
    BY <2>4, <2>6, <2>7
<1>7. CASE Block(t)
  <2>1. lease' = lease /\ PackageMoves
    BY <1>7 DEF Block, PackageMoves, IInv, Shape, PackageRow
  <2>2. CASE Goto(t, Ended(FALSE))
    BY <1>2, <2>1, <2>2, RestQueue DEF Ended
  <2>3. CASE Goto(t, [tab[t] EXCEPT !.pc = "conflict"])
    <3>1. PICK d : Goto(t, d) /\ d = [tab[t] EXCEPT !.pc = "conflict"]
      BY <2>3
    <3>2. d.pc = "conflict" /\ d.n = tab[t].n
      BY <1>1, <3>1 DEF Replaying
    <3> QED
      BY <1>1, <1>2, <2>1, <3>1, <3>2, UploadQueue
  <2> QED
    BY <1>7, <2>2, <2>3 DEF Block
<1> QED
  BY <1>3, <1>4, <1>5, <1>6, <1>7

LEMMA CompleteKeepsQueue ==
  ASSUME IInv, QInv, NEW t \in Tabs, Complete(t)
  PROVE  QInv'
<1>1. UNCHANGED <<commands, acks, lease>> /\ Goto(t, Ended(Holds(t) /\ MayBecome("completed")))
  BY DEF Complete
<1>2. PackageMoves
  <2>1. Holds(t) => Drained
    BY DEF Complete, QInv, AtFirst
  <2>2. pkg \in PackageRow
    BY DEF IInv, Shape
  <2> QED
    BY <2>1, <2>2 DEF Complete, PackageMoves, PackageRow
<1> QED
  BY <1>1, <1>2, RestQueue DEF Ended, Uploading

\* What a recovery saves is the package of an empty queue, unless there is one.
LEMMA SaveKeepsQueue ==
  ASSUME IInv, QInv, NEW t \in Tabs, Save(t)
  PROVE  QInv'
<1>1. UNCHANGED <<commands, acks, lease>> /\ Goto(t, Idle)
  BY DEF Save
<1>2. CASE pkg' = pkg
  BY <1>1, <1>2, RestQueue DEF Idle, Uploading, PackageMoves
<1>3. CASE pkg.status = "none" /\ pkg' = [status |-> "active", acked |-> tab[t].seq]
  <2>1. commands = <<>> /\ acks = <<>>
    BY <1>3 DEF QInv, IInv, Shape
  <2>2. pkg'.acked \in Nat
    BY <1>3 DEF Save, IInv, Uploads
  <2>3. QueueIntegral'
    BY <1>1, <2>1, <2>2 DEF QueueIntegral, Integral
  <2>4. CompletedIsDrained' /\ pkg'.status # "none"
    BY <1>3 DEF CompletedIsDrained
  <2>5. tab'[t] = Idle /\ \A u \in Tabs \ {t} : tab'[u] = tab[u]
    BY <1>1 DEF Goto, IInv, Shape
  <2>6. ASSUME NEW u \in Tabs, lease'.owner = u PROVE AtFirst(tab[u])'
    <3>1. CASE u = t
      BY <2>5, <3>1 DEF AtFirst, Idle, Uploading
    <3>2. CASE u # t
      BY <1>1, <2>5, <2>6, <3>2 DEF QInv, Holds, AtFirst, Drained, Pending
    <3> QED
      BY <3>1, <3>2
  <2> QED
    BY <2>3, <2>4, <2>6 DEF QInv, Holds
<1> QED
  BY <1>2, <1>3 DEF Save

\* The next acknowledgement, and the last one if it is a finalisation's.
LEMMA StoreKeepsQueue ==
  ASSUME IInv, QInv, NEW t \in Tabs, StoreAck(t)
  PROVE  QInv'
<1> DEFINE n == tab[t].n  seq == tab[t].got.seq
<1>1. UNCHANGED <<commands, lease>>
  BY DEF StoreAck
<1>2. CASE UNCHANGED <<acks, pkg>> /\ Goto(t, Ended(FALSE))
  BY <1>1, <1>2, RestQueue DEF Ended, Uploading, PackageMoves
<1>3. CASE /\ Holds(t) /\ Storable(n, seq) /\ acks' = Append(acks, seq)
           /\ pkg' = [pkg EXCEPT !.acked = IF seq > @ THEN seq ELSE @]
           /\ Goto(t, At(IF commands[n].final THEN "complete" ELSE "pick"))
  <2>1. /\ commands \in Seq(CommandRow) /\ acks \in Seq(Nat) /\ pkg \in PackageRow
        /\ Len(acks) <= Len(commands)
    BY DEF IInv, Shape
  <2>2. /\ n = Len(acks) + 1 /\ n \in 1..Len(commands) /\ commands # <<>>
        /\ seq = commands[n].expected + 1 /\ commands[n] \in CommandRow
    BY <1>3, <2>1 DEF Storable
  <2> HIDE DEF n, seq
  <2>3. seq \in Nat /\ commands[1].expected \in Nat /\ pkg.acked \in Nat
    <3>1. commands[1] \in CommandRow
      BY <2>1, <2>2
    <3> QED
      BY <2>1, <2>2, <3>1 DEF CommandRow, PackageRow
  <2>4. /\ commands[1].expected <= pkg.acked
        /\ \A i \in DOMAIN commands :
             /\ commands[i].expected = commands[1].expected + i - 1
             /\ \A j \in DOMAIN commands :
                  j < i => commands[i].id # commands[j].id /\ ~commands[j].final
        /\ \A i \in DOMAIN acks : acks[i] = commands[1].expected + i
    BY <2>2 DEF QInv, QueueIntegral, Integral
  <2>5. /\ acks' \in Seq(Nat) /\ Len(acks') = n
        /\ \A i \in DOMAIN acks' : \/ i \in DOMAIN acks /\ acks'[i] = acks[i]
                                   \/ i = n /\ acks'[i] = seq
    BY <1>3, <2>1, <2>2, <2>3
  <2>6. /\ pkg'.status = pkg.status /\ pkg'.acked \in Nat /\ pkg.acked <= pkg'.acked
    BY <1>3, <2>1, <2>3 DEF PackageRow
  <2>7. seq = commands[1].expected + n
    BY <2>2, <2>3, <2>4
  <2>8. QueueIntegral'
    <3>1. commands[1].expected <= pkg'.acked
      BY <2>3, <2>4, <2>6
    <3>2. \A i \in DOMAIN acks' : acks'[i] = commands[1].expected + i
      BY <2>4, <2>5, <2>7
    <3> QED
      BY <1>1, <2>2, <2>4, <2>5, <3>1, <3>2 DEF QueueIntegral, Integral
  <2>9. ~Drained
    BY <2>1, <2>2 DEF Drained, Pending
  <2>10. pkg.status # "completed"
    BY <2>9 DEF QInv, CompletedIsDrained, Drained
  <2>11. commands[n].final => Drained'
    <3> SUFFICES ASSUME commands[n].final PROVE Drained'
      OBVIOUS
    <3>1. n = Len(commands)
      <4> SUFFICES ASSUME n < Len(commands) PROVE FALSE
        BY <2>1, <2>2
      <4>1. n + 1 \in DOMAIN commands /\ n \in DOMAIN commands /\ n < n + 1
        BY <2>1, <2>2
      <4> QED
        BY <2>4, <4>1
    <3> QED
      BY <1>1, <2>1, <2>2, <2>5, <3>1 DEF Drained, Pending
  <2>12. /\ tab'[t].pc = IF commands[n].final THEN "complete" ELSE "pick"
         /\ \A u \in Tabs \ {t} : tab'[u] = tab[u]
    BY <1>3 DEF Goto, At, IInv, Shape
  <2>13. ASSUME NEW u \in Tabs, lease'.owner = u PROVE AtFirst(tab[u])'
    <3>1. u = t
      BY <1>1, <1>3, <2>13 DEF Holds
    <3> QED
      BY <2>11, <2>12, <3>1 DEF AtFirst, Uploading
  <2> QED
    BY <1>1, <2>2, <2>6, <2>8, <2>10, <2>13 DEF QInv, CompletedIsDrained, Holds
<1> QED
  BY <1>2, <1>3 DEF StoreAck

LEMMA DiscardKeepsQueue ==
  ASSUME IInv, QInv, NEW t \in Tabs, Discard(t)
  PROVE  QInv'
<1>1. CASE UNCHANGED <<pkg, commands, acks, lease>>
  BY <1>1, RestQueue DEF Discard, Idle, Uploading, PackageMoves
<1>2. CASE /\ pkg' = [status |-> "none", acked |-> 0]
           /\ commands' = <<>> /\ acks' = <<>>
           /\ lease' = [owner |-> None, live |-> FALSE]
  <2>1. QueueIntegral'
    BY <1>2 DEF QueueIntegral, Integral
  <2>2. \A u \in Tabs : ~Holds(u)'
    BY <1>2, TabsAssumption DEF Holds
  <2> QED
    BY <1>2, <2>1, <2>2 DEF QInv, CompletedIsDrained
<1> QED
  BY <1>1, <1>2 DEF Discard

LEMMA StepKeepsQueue ==
  ASSUME IInv, QInv, [Next]_vars
  PROVE  QInv'
<1>1. ASSUME NEW t \in Tabs, Record(t) PROVE QInv'
  BY <1>1, RecordKeepsQueue, EnqueueKeepsQueue DEF Record
<1>2. ASSUME NEW t \in Tabs, Replay(t) PROVE QInv'
  BY <1>2, QuietKeepsQueue, PickKeepsQueue, UploadKeepsQueue, StoreKeepsQueue,
     CompleteKeepsQueue, SaveKeepsQueue DEF Replay
<1>3. ASSUME NEW t \in Tabs,
             \/ EstablishUnheard(t) \/ GiveUp(t) \/ Close(t) \/ MarkTerminal(t)
             \/ ReadExport(t) \/ Export(t) \/ SignOut(t) \/ Discard(t)
      PROVE  QInv'
  BY <1>3, QuietKeepsQueue, UploadKeepsQueue, SystemKeepsQueue, DiscardKeepsQueue
<1> QED
  BY <1>1, <1>2, <1>3, SystemKeepsQueue DEF Next

LEMMA QueueStart == Init => QInv
<1> SUFFICES ASSUME Init PROVE QInv
  OBVIOUS
<1>1. QueueIntegral
  BY DEF Init, QueueIntegral, Integral
<1>2. \A u \in Tabs : ~Holds(u)
  BY TabsAssumption DEF Init, Holds
<1> QED
  BY <1>1, <1>2 DEF Init, QInv, CompletedIsDrained

\* In every state the queue fits the package, and the tab with the lease
\* uploads the first command that has no acknowledgement.
THEOREM QueueHolds == Spec => []QInv
BY QueueStart, StepKeepsQueue, UploadsConsistent, PTL DEF Spec

\* The stored queue is never corrupt, whatever was stored by whom and in
\* which order: a restart finds the taps.
THEOREM QueueStaysIntegral == Spec => []QueueIntegral
<1>1. QInv => QueueIntegral
  BY DEF QInv
<1> QED
  BY <1>1, QueueHolds, PTL

\* A completed package has every command acknowledged, a finalisation last.
THEOREM CompletionIsDrained == Spec => []CompletedIsDrained
<1>1. QInv => CompletedIsDrained
  BY DEF QInv
<1> QED
  BY <1>1, QueueHolds, PTL

\* Conflicts are recorded about the first command without an acknowledgement
\* only, with or without Web Locks and however often the lease changes hands.
THEOREM ConflictsAreAboutPending == Spec => ConflictsArePending
<1>1. ASSUME IInv, QInv, Next, NEW c \in conflicts' \ conflicts PROVE c.n = Len(acks) + 1
  <2>1. ASSUME NEW t \in Tabs, RecordConflict(t) PROVE c.n = Len(acks) + 1
    <3>1. /\ Holds(t) /\ tab[t].pc = "conflict"
          /\ conflicts' = conflicts \cup {[n |-> tab[t].n, code |-> tab[t].got.code]}
      BY <1>1, <2>1 DEF RecordConflict
    <3>2. tab[t].n = Len(acks) + 1
      BY <1>1, <3>1 DEF QInv, AtFirst, Uploading
    <3>3. c.n = tab[t].n
      BY <1>1, <3>1
    <3> QED
      BY <3>2, <3>3
  <2>2. ~\E t \in Tabs : Record(t)
    BY <1>1 DEF Record, Tap, TapOnline, ReadQueue, Enqueue, store
  <2>3. ASSUME NEW t \in Tabs, Replay(t) PROVE RecordConflict(t)
    BY <1>1, <2>3 DEF Replay, Begin, Establish, Acquire, Pick, Send, Serve, Receive, StoreAck,
                      Complete, Refresh, Block, Release, Recover, Save, store
  <2>4. ~\E t \in Tabs : \/ EstablishUnheard(t) \/ GiveUp(t) \/ Close(t) \/ MarkTerminal(t)
                         \/ ReadExport(t) \/ Export(t) \/ SignOut(t) \/ Discard(t)
    BY <1>1 DEF EstablishUnheard, GiveUp, Close, MarkTerminal, ReadExport, Export, SignOut,
                Discard, store
  <2>5. ~(Transfer \/ Revoke \/ LeaseRunsOut \/ WindowAdvances \/ Foreign \/ ServeLate \/ LeaseLapses)
    BY <1>1 DEF Transfer, Revoke, LeaseRunsOut, WindowAdvances, Foreign, ServeLate, LeaseLapses, store
  <2> QED
    BY <1>1, <2>1, <2>2, <2>3, <2>4, <2>5 DEF Next
<1>2. IInv /\ QInv /\ [Next]_vars => [\A c \in conflicts' \ conflicts : c.n = Len(acks) + 1]_vars
  BY <1>1
<1> QED
  BY <1>2, QueueHolds, UploadsConsistent, PTL DEF Spec, ConflictsArePending

----------------------------------------------------------------------------
(* Types.  Those of an upload and of a recording are known already.        *)

Quiet ==
  [pc : {"idle", "closed", "establish", "acquire", "pick", "complete", "recover", "discard"}]
    \cup [pc : {"release"}, done : BOOLEAN] \cup Exporting
TabRow == Elsewhere \cup Recording \cup Replaying \cup Exporting
Loud == Uploading \cup {"package", "queue", "save"}

ServerTypes ==
  /\ final \in BOOLEAN /\ authority \in {"active", "lapsed", "transferred", "revoked"}
  /\ window \in {"open", "grace", "closed"} /\ lock \in Tabs \cup {None}
PhoneTypes ==
  /\ conflicts \subseteq ConflictRow /\ exported \in {None} \cup Snapshots
  /\ stored \subseteq Nat
TabTypes == tab \in [Tabs -> TabRow]

Types == ServerTypes /\ PhoneTypes /\ TabTypes

LEMMA AllTyped == IInv /\ Types => TypeOK
  BY DEF IInv, Shape, Types, ServerTypes, PhoneTypes, TabTypes, TypeOK, LeaseRow, TabRow

LEMMA GotoTyped ==
  ASSUME IInv', TabTypes, NEW t \in Tabs, NEW d, Goto(t, d), d.pc \in Loud \/ d \in Quiet
  PROVE  TabTypes'
<1>1. tab' = [tab EXCEPT ![t] = d] /\ tab'[t] = d
  BY DEF Goto, TabTypes
<1>2. tab'[t] \in TabRow
  BY <1>1 DEF IInv, Uploads, TabRow, Quiet, Elsewhere, Loud
<1> QED
  BY <1>1, <1>2 DEF TabTypes

LEMMA ResumeTyped ==
  ASSUME IInv, IInv', TabTypes, NEW t \in Tabs, NEW d, NEW heard, Resume(t, d, heard),
         d.pc \in Loud \/ d \in Quiet
  PROVE  TabTypes'
<1>1. tab' = [u \in Tabs |-> tab'[u]] /\ tab'[t] = d
  BY DEF Resume
<1>2. ASSUME NEW u \in Tabs PROVE tab'[u] \in TabRow
  <2>1. CASE u = t
    BY <1>1, <2>1 DEF IInv, Uploads, TabRow, Quiet, Elsewhere, Loud
  <2>2. CASE u # t /\ tab[u].pc = "wait" /\ tab[u].got = NoAnswer
    <3>1. tab[u] \in Replaying /\ tab'[u] = [tab[u] EXCEPT !.fresh = FALSE]
      BY <2>2 DEF Resume, IInv, Uploads, Uploading
    <3>2. tab'[u] \in Replaying
      BY <3>1 DEF Replaying
    <3> QED
      BY <3>2 DEF TabRow
  <2>3. CASE u # t /\ ~(tab[u].pc = "wait" /\ tab[u].got = NoAnswer)
    BY <2>3 DEF Resume, TabTypes
  <2> QED
    BY <2>1, <2>2, <2>3
<1> QED
  BY <1>1, <1>2 DEF TabTypes

\* An upload goes on, or ends.
LEMMA UploadTyped ==
  ASSUME IInv, IInv', TabTypes, NEW t \in Tabs,
         \/ Pick(t) \/ Send(t) \/ Serve(t) \/ Receive(t) \/ GiveUp(t) \/ StoreAck(t)
         \/ Refresh(t) \/ Block(t) \/ RecordConflict(t)
  PROVE  TabTypes'
<1> USE DEF Uploading, Loud
<1>1. \A done \in BOOLEAN : Ended(done) \in Quiet
  BY DEF Ended, Quiet
<1>2. CASE Pick(t)
  <2>1. CASE Goto(t, Ended(pkg.status # "none" /\ Pending = 0))
    <3>1. (pkg.status # "none" /\ Pending = 0) \in BOOLEAN
      OBVIOUS
    <3> QED
      BY <1>1, <2>1, <3>1, GotoTyped
  <2>2. CASE ~Goto(t, Ended(pkg.status # "none" /\ Pending = 0))
    BY <1>2, <2>2, GotoTyped DEF Pick
  <2> QED
    BY <2>1, <2>2
<1>3. CASE RecordConflict(t) \/ StoreAck(t)
  <2>1. At("complete") \in Quiet /\ At("pick") \in Quiet
    BY DEF At, Quiet
  <2>2. \E d \in {Ended(FALSE), At("complete"), At("pick")} : Goto(t, d)
    BY <1>3 DEF RecordConflict, StoreAck
  <2> QED
    BY <1>1, <2>1, <2>2, GotoTyped
<1>4. CASE Send(t) \/ Serve(t) \/ Receive(t) \/ GiveUp(t) \/ Refresh(t) \/ Block(t)
  <2>1. tab[t] \in Replaying
    BY <1>4 DEF Send, Serve, Receive, GiveUp, Refresh, Block, IInv, Uploads
  <2>2. CASE Goto(t, Ended(FALSE)) \/ Resume(t, Ended(FALSE), TRUE)
    BY <1>1, <2>2, GotoTyped, ResumeTyped
  <2>3. CASE Send(t) /\ ~Goto(t, Ended(FALSE))
    <3>1. PICK d : Goto(t, d) /\ d = [tab[t] EXCEPT !.pc = "wait", !.got = NoAnswer, !.fresh = cookie]
      BY <2>3 DEF Send
    <3>2. d.pc = "wait"
      BY <2>1, <3>1 DEF Replaying
    <3> QED
      BY <3>1, <3>2, GotoTyped
  <2>4. CASE Serve(t)
    <3>1. PICK d : Goto(t, d) /\ d = [tab[t] EXCEPT !.got = Answer(tab[t].cmd, tab[t].fresh)]
      BY <2>4 DEF Serve
    <3>2. d.pc = "wait"
      BY <2>1, <2>4, <3>1 DEF Replaying, Serve
    <3> QED
      BY <3>1, <3>2, GotoTyped
  <2>5. ASSUME NEW got, Conclude(t, got), ~Goto(t, Ended(FALSE)) PROVE TabTypes'
    BY <2>1, <2>5, ConcludeNext, GotoTyped
  <2>6. CASE Refresh(t)
    <3>1. PICK d : /\ Goto(t, d) \/ \E heard \in BOOLEAN : Resume(t, d, heard)
                   /\ d.pc \in {"send", "block"} \/ d = Ended(FALSE)
      BY <2>1, <2>6, RefreshNext
    <3> QED
      BY <1>1, <3>1, GotoTyped, ResumeTyped
  <2>7. CASE Block(t) /\ ~Goto(t, Ended(FALSE))
    <3>1. PICK d : Goto(t, d) /\ d = [tab[t] EXCEPT !.pc = "conflict"]
      BY <2>7 DEF Block
    <3>2. d.pc = "conflict"
      BY <2>1, <3>1 DEF Replaying
    <3> QED
      BY <3>1, <3>2, GotoTyped
  <2> QED
    BY <1>4, <2>2, <2>3, <2>4, <2>5, <2>6, <2>7 DEF Receive, GiveUp
<1> QED
  BY <1>2, <1>3, <1>4

LEMMA RecordTyped ==
  ASSUME IInv, IInv', TabTypes, NEW t \in Tabs, Record(t)
  PROVE  TabTypes'
<1>1. CASE ReadQueue(t)
  <2>1. tab[t] \in Recording
    BY <1>1 DEF ReadQueue, IInv, Uploads
  <2>2. PICK d : /\ Goto(t, d)
                 /\ d = [tab[t] EXCEPT !.pc = "queue", !.local = Len(commands) + 1,
                                       !.pending = Pending]
    BY <1>1 DEF ReadQueue
  <2>3. d.pc = "queue"
    BY <2>1, <2>2 DEF Recording
  <2> QED
    BY <2>2, <2>3, GotoTyped DEF Loud
<1>2. CASE Tap(t) \/ TapOnline(t)
  BY <1>2, GotoTyped DEF Tap, TapOnline, Loud, TabTypes
<1>3. CASE Enqueue(t)
  <2>1. Goto(t, Idle) /\ Idle \in Quiet
    BY <1>3 DEF Enqueue, Idle, Quiet
  <2> QED
    BY <2>1, GotoTyped
<1> QED
  BY <1>1, <1>2, <1>3 DEF Record

LEMMA QuietTyped ==
  ASSUME IInv, IInv', TabTypes, PhoneTypes, NEW t \in Tabs,
         \/ Begin(t) \/ Establish(t) \/ EstablishUnheard(t) \/ Acquire(t) \/ Complete(t)
         \/ Release(t) \/ Recover(t) \/ Save(t) \/ Close(t) \/ MarkTerminal(t)
         \/ ReadExport(t) \/ Export(t) \/ SignOut(t) \/ Discard(t)
  PROVE  TabTypes'
<1>1. /\ At("establish") \in Quiet /\ At("acquire") \in Quiet /\ At("pick") \in Quiet
      /\ At("recover") \in Quiet /\ At("closed") \in Quiet /\ At("discard") \in Quiet
      /\ Idle \in Quiet
  BY DEF At, Idle, Quiet
<1>2. \A done \in BOOLEAN : Ended(done) \in Quiet
  BY DEF Ended, Quiet
<1>3. CASE Begin(t) \/ Acquire(t) \/ Release(t) \/ Save(t) \/ Close(t) \/ Export(t)
           \/ SignOut(t) \/ Discard(t)
  <2>1. \E d \in Quiet : Goto(t, d)
    BY <1>1, <1>3 DEF Begin, Acquire, Release, Save, Close, Export, SignOut, Discard
  <2> QED
    BY <2>1, GotoTyped
<1>4. CASE Establish(t) \/ EstablishUnheard(t)
  <2>1. \E d \in Quiet : Goto(t, d) \/ \E heard : Resume(t, d, heard)
    BY <1>1, <1>4 DEF Establish, EstablishUnheard
  <2> QED
    BY <2>1, GotoTyped, ResumeTyped
<1>5. CASE Complete(t)
  <2>1. (Holds(t) /\ MayBecome("completed")) \in BOOLEAN
    OBVIOUS
  <2> QED
    BY <1>2, <1>5, <2>1, GotoTyped DEF Complete
<1>6. CASE Recover(t)
  BY <1>1, <1>6, GotoTyped DEF Recover, Loud
<1>7. CASE MarkTerminal(t)
  BY <1>7 DEF MarkTerminal, TabTypes
<1>8. CASE ReadExport(t)
  <2>1. Snapshot \in Snapshots
    BY DEF Snapshot, Snapshots, PhoneTypes, IInv, Shape
  <2>2. [pc |-> "export", snap |-> Snapshot] \in Quiet
    BY <2>1 DEF Quiet, Exporting
  <2> QED
    BY <1>8, <2>2, GotoTyped DEF ReadExport
<1> QED
  BY <1>3, <1>4, <1>5, <1>6, <1>7, <1>8

\* A finalisation makes the match final, an event of others reopens it.
LEMMA AcceptTyped ==
  ASSUME NEW req \in CommandRow, NEW fresh, Accept(req, fresh), ServerTypes
  PROVE  final' \in BOOLEAN
  BY DEF Accept, ServerTypes, CommandRow

LEMMA StepTyped ==
  ASSUME IInv, IInv', Types, [Next]_vars
  PROVE  Types'
<1> USE DEF Types, store, server
<1>1. CASE UNCHANGED vars
  BY <1>1 DEF vars, ServerTypes, PhoneTypes, TabTypes
<1>2. CASE Transfer \/ Revoke \/ LeaseRunsOut \/ WindowAdvances \/ Foreign \/ LeaseLapses
  BY <1>2 DEF Transfer, Revoke, LeaseRunsOut, WindowAdvances, Foreign, LeaseLapses,
              ServerTypes, PhoneTypes, TabTypes
<1>3. CASE ServeLate
  <2>1. final' \in BOOLEAN
    BY <1>3, AcceptTyped DEF ServeLate, IInv, Shape
  <2> QED
    BY <1>3, <2>1 DEF ServeLate, ServerTypes, PhoneTypes, TabTypes
<1>4. ASSUME NEW t \in Tabs, Record(t) PROVE Types'
  <2>1. TabTypes'
    BY <1>4, RecordTyped
  <2>2. CASE Tap(t) \/ ReadQueue(t)
    BY <2>1, <2>2 DEF Tap, ReadQueue, ServerTypes, PhoneTypes
  <2>3. CASE TapOnline(t)
    <3> DEFINE req == [id |-> taps + 1, expected |-> Len(stream), final |-> FALSE]
    <3>1. req \in CommandRow
      BY DEF CommandRow, IInv, Shape
    <3>2. Accept(req, cookie) \/ final' = final
      BY <2>3 DEF TapOnline
    <3>3. final' \in BOOLEAN
      BY <3>1, <3>2, AcceptTyped DEF ServerTypes
    <3> QED
      BY <2>1, <2>3, <3>3 DEF TapOnline, ServerTypes, PhoneTypes
  <2>4. CASE Enqueue(t)
    <3>1. tab[t].id \in Nat
      BY <2>4 DEF Enqueue, IInv, Uploads, Recording
    <3> QED
      BY <2>1, <2>4, <3>1 DEF Enqueue, ServerTypes, PhoneTypes
  <2> QED
    BY <1>4, <2>2, <2>3, <2>4 DEF Record
<1>5. ASSUME NEW t \in Tabs,
             \/ Pick(t) \/ Send(t) \/ Serve(t) \/ Receive(t) \/ GiveUp(t) \/ StoreAck(t)
             \/ Refresh(t) \/ Block(t) \/ RecordConflict(t)
      PROVE  Types'
  <2>1. TabTypes'
    BY <1>5, UploadTyped
  <2>2. CASE Serve(t)
    <3>1. tab[t].cmd \in CommandRow
      BY <2>2 DEF Serve, IInv, Uploads, Uploading, Replaying
    <3>2. final' \in BOOLEAN
      BY <2>2, <3>1, AcceptTyped DEF Serve
    <3> QED
      BY <2>1, <2>2, <3>2 DEF Serve, ServerTypes, PhoneTypes
  <2>3. CASE RecordConflict(t)
    <3>1. tab[t] \in Replaying /\ tab[t].got.kind = "blocked"
      BY <2>3 DEF RecordConflict, IInv, Uploads, Uploading, Fitting
    <3>2. tab[t].n \in Nat /\ tab[t].got.code \in Codes
      BY <3>1 DEF Replaying, Answers
    <3>3. [n |-> tab[t].n, code |-> tab[t].got.code] \in ConflictRow
      BY <3>2 DEF ConflictRow
    <3> QED
      BY <2>1, <2>3, <3>3 DEF RecordConflict, ServerTypes, PhoneTypes
  <2>4. CASE Pick(t) \/ Send(t) \/ Receive(t) \/ GiveUp(t) \/ StoreAck(t) \/ Block(t)
    BY <2>1, <2>4 DEF Pick, Send, Receive, GiveUp, StoreAck, Block, ServerTypes, PhoneTypes
  <2>5. CASE Refresh(t)
    BY <2>1, <2>5 DEF Refresh, Resume, ServerTypes, PhoneTypes
  <2> QED
    BY <1>5, <2>2, <2>3, <2>4, <2>5
<1>6. ASSUME NEW t \in Tabs,
             \/ Begin(t) \/ Establish(t) \/ EstablishUnheard(t) \/ Acquire(t) \/ Complete(t)
             \/ Release(t) \/ Recover(t) \/ Save(t) \/ Close(t) \/ MarkTerminal(t)
             \/ ReadExport(t) \/ Export(t) \/ SignOut(t) \/ Discard(t)
      PROVE  Types'
  <2>1. TabTypes'
    BY <1>6, QuietTyped
  <2>2. CASE Begin(t) \/ Complete(t) \/ Recover(t) \/ Save(t) \/ MarkTerminal(t) \/ ReadExport(t)
             \/ SignOut(t)
    BY <2>1, <2>2 DEF Begin, Complete, Recover, Save, MarkTerminal, ReadExport, SignOut,
                      ServerTypes, PhoneTypes
  <2>3. CASE Establish(t) \/ EstablishUnheard(t)
    BY <2>1, <2>3 DEF Establish, EstablishUnheard, Resume, ServerTypes, PhoneTypes
  <2>4. CASE Acquire(t) \/ Release(t) \/ Close(t)
    BY <2>1, <2>4 DEF Acquire, Release, Close, ServerTypes, PhoneTypes
  <2>5. CASE Discard(t)
    BY <2>1, <2>5 DEF Discard, ServerTypes, PhoneTypes
  <2>6. CASE Export(t)
    <3>1. tab[t] \in Exporting
      BY <2>6 DEF Export, TabTypes, TabRow, Elsewhere, Recording, Replaying
    <3>2. tab[t].snap \in Snapshots
      BY <3>1 DEF Exporting
    <3>3. {tab[t].snap.commands[i].id : i \in DOMAIN tab[t].snap.commands} \subseteq Nat
      <4>1. tab[t].snap.commands \in Seq(CommandRow)
        BY <3>2 DEF Snapshots
      <4>2. \A i \in DOMAIN tab[t].snap.commands : tab[t].snap.commands[i] \in CommandRow
        BY <4>1
      <4> QED
        BY <4>2 DEF CommandRow
    <3> QED
      BY <2>1, <2>6, <3>2, <3>3 DEF Export, ServerTypes, PhoneTypes
  <2> QED
    BY <1>6, <2>2, <2>3, <2>4, <2>5, <2>6
<1>7. ASSUME NEW t \in Tabs, Replay(t) PROVE Types'
  BY <1>5, <1>6, <1>7 DEF Replay
<1> QED
  BY <1>1, <1>2, <1>3, <1>4, <1>5, <1>6, <1>7 DEF Next

\* Server, stores and tabs have their types, with any number of tabs and taps.
THEOREM QueueTypes == Spec => []TypeOK
<1>1. Init => Types
  <2> SUFFICES ASSUME Init PROVE Types
    OBVIOUS
  <2>1. TabTypes
    BY DEF Init, TabTypes, TabRow, Elsewhere, Idle
  <2> QED
    BY <2>1 DEF Init, Types, ServerTypes, PhoneTypes
<1>2. IInv /\ IInv' /\ Types /\ [Next]_vars => Types'
  BY StepTyped
<1> QED
  BY <1>1, <1>2, AllTyped, UploadsConsistent, PTL DEF Spec
=============================================================================
