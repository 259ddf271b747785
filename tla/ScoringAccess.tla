--------------------------- MODULE ScoringAccess ---------------------------
(***************************************************************************)
(* Who may score one match: access passes, scoring sessions, the writer    *)
(* lease and its generation, takeovers approved by the organiser, and      *)
(* offline scoring authorizations (apps/api/src/phase-2-runtime.ts, with   *)
(* the tables, checks and triggers of migrations 0006, 0028, 0030, 0036).  *)
(*                                                                         *)
(* Every handler of the runtime takes the advisory lock of the match and   *)
(* authenticates again under it, so each is one atomic action here.  A     *)
(* deadline column (expires_at) is a countdown: min(a, now + b) becomes    *)
(* Lesser(a, B), "expires_at <= now" becomes "ttl = 0", and Tick lets one  *)
(* unit of time pass for every row at once.  Rows are never deleted except *)
(* the lease, so a session, pass or request that does not exist yet is a   *)
(* record with status "unissued", "unused" or "none".                      *)
(***************************************************************************)
EXTENDS Naturals, FiniteSets

CONSTANTS
  Sessions,   \* rows of scoring_access_sessions the match may ever get
  Devices,    \* scorer devices (device_id_hash)
  Passes,     \* rows of scoring_access_passes
  Viewers,    \* the passes issued with role "viewer"
  None,       \* SQL NULL
  PassTTL,    \* lifetime the organiser gives a pass
  SessionTTL, \* 30 minutes
  LeaseTTL,   \* 45 seconds
  BeatTTL,    \* 30 seconds: how long a heartbeat counts as recent
  RequestTTL, \* 5 minutes: takeoverRequestTtlMs
  RecordTTL,  \* 4 hours of offline recording
  GraceTTL    \* 15 minutes of replay after it

ASSUME SetsAssumption ==
  /\ Viewers \subseteq Passes
  /\ None \notin Sessions \cup Devices \cup Passes

ASSUME TimesAssumption ==
  /\ PassTTL \in Nat \ {0} /\ SessionTTL \in Nat \ {0}
  /\ LeaseTTL \in Nat \ {0} /\ BeatTTL \in Nat \ {0}
  /\ RequestTTL \in Nat \ {0}
  /\ RecordTTL \in Nat \ {0} /\ GraceTTL \in Nat

\* Replay stays open at least as long as a heartbeat counts as recent, so
\* that the heartbeat is forgotten before the authorization is.
ASSUME GraceAssumption == BeatTTL <= GraceTTL

VARIABLES
  pass,      \* scoring_access_passes
  session,   \* scoring_access_sessions
  lease,     \* the match's row of match_writer_leases
  auth,      \* each session's latest scoring_offline_authorizations row
  takeover,  \* each candidate's latest scoring_takeover_requests row
  conflicts, \* sessions named stale by a scoring_transfer_conflicts row
  match,     \* state of the match and type of the last canonical event
  fence,     \* writer_generation of the last canonical event of a writer
  kit        \* the offline package kept by each session's device

vars == <<pass, session, lease, auth, takeover, conflicts, match, fence, kit>>

----------------------------------------------------------------------------
(* Types and initial state.                                                *)

Modes == {"unused", "viewer", "candidate", "writer", "transferred"}

PassRow == [status : {"unissued", "live", "revoked"}, ttl : Nat]
SessionRow == [mode : Modes, pass : Passes \cup {None},
               device : Devices \cup {None}, gen : Nat, ttl : Nat,
               revoked : BOOLEAN, beat : Nat, pending : BOOLEAN]
LeaseRow == [holder : Sessions \cup {None}, gen : Nat, ttl : Nat]
AuthRow == [status : {"none", "active", "expired", "revoked", "transferred"},
            gen : Nat, rec : Nat, replay : Nat]
TakeoverRow == [status : {"none", "pending", "approved", "denied", "expired"},
                incumbent : Sessions \cup {None},
                seen : {"none", "present", "unknown"}, ttl : Nat]
MatchRow == [state : {"pending", "in_progress", "final", "corrected"},
             last : {"none", "score", "match_reopened", "finalisation"}]
Kit == [secret : BOOLEAN, rec : Nat, queue : BOOLEAN]

NoLease == [holder |-> None, gen |-> 0, ttl |-> 0]
NoKit == [secret |-> FALSE, rec |-> 0, queue |-> FALSE]

TypeOK ==
  /\ pass \in [Passes -> PassRow]
  /\ session \in [Sessions -> SessionRow]
  /\ lease \in LeaseRow
  /\ auth \in [Sessions -> AuthRow]
  /\ takeover \in [Sessions -> TakeoverRow]
  /\ conflicts \subseteq Sessions
  /\ match \in MatchRow
  /\ fence \in Nat
  /\ kit \in [Sessions -> Kit]

Init ==
  /\ pass = [p \in Passes |-> [status |-> "unissued", ttl |-> 0]]
  /\ session = [s \in Sessions |->
       [mode |-> "unused", pass |-> None, device |-> None, gen |-> 0,
        ttl |-> 0, revoked |-> FALSE, beat |-> 0, pending |-> FALSE]]
  /\ lease = NoLease
  /\ auth = [s \in Sessions |->
       [status |-> "none", gen |-> 0, rec |-> 0, replay |-> 0]]
  /\ takeover = [s \in Sessions |->
       [status |-> "none", incumbent |-> None, seen |-> "none", ttl |-> 0]]
  /\ conflicts = {}
  /\ match = [state |-> "pending", last |-> "none"]
  /\ fence = 0
  /\ kit = [s \in Sessions |-> NoKit]

----------------------------------------------------------------------------
(* Helpers shared by the handlers.                                         *)

Lesser(a, b) == IF a <= b THEN a ELSE b

LivePass(p) == pass[p].status = "live" /\ pass[p].ttl > 0

ReadOnly == match.state \in {"final", "corrected"}

\* Authorizations whose replay window is over are marked expired by the
\* handlers that look for an active one.
ExpireOverdue ==
  [s \in Sessions |->
     IF auth[s].status = "active" /\ auth[s].replay = 0
     THEN [auth[s] EXCEPT !.status = "expired"] ELSE auth[s]]

Reserved(s) == auth[s].status = "active" /\ auth[s].replay > 0

\* authenticateScoringSession, with and without requireWriter.
Authentic(s) ==
  /\ session[s].mode # "unused"
  /\ ~session[s].revoked
  /\ session[s].ttl > 0

HoldsLease(s) ==
  /\ lease.holder = s
  /\ lease.gen = session[s].gen
  /\ lease.ttl > 0

AuthenticWriter(s) ==
  /\ Authentic(s)
  /\ session[s].mode = "writer"
  /\ HoldsLease(s)

\* Fault: the label for "nothing pending" is one the table's CHECK refuses.
PendingStateMislabelled(s, reserved) ==
  IF reserved \/ session[s].beat = 0 THEN "unknown"
  ELSE IF session[s].pending THEN "present" ELSE "clear"

\* Fault: a count of zero is believed however old it is.
PendingStateAsReported(s, reserved) ==
  IF session[s].pending THEN "present" ELSE "none"

\* The organiser and the takeover table judge the incumbent by this state.
PendingState(s, reserved) ==
  CASE reserved \/ session[s].beat = 0 -> "unknown"
    [] ~reserved /\ session[s].beat > 0 /\ session[s].pending -> "present"
    [] OTHER -> "none"

\* Fault: generations of sessions that no longer hold the lease are forgotten.
NextGenerationOfLease(g) == g = lease.gen + 1

\* max(lease generation, greatest session generation) + 1.
NextGeneration(g) ==
  LET issued == {session[t].gen : t \in Sessions} \cup {lease.gen}
  IN  (\A h \in issued : h < g) /\ g - 1 \in issued \cup {0}

----------------------------------------------------------------------------
(* Passes.                                                                 *)

CreateAccessPass(p) ==
  /\ pass[p].status = "unissued"
  /\ pass' = [pass EXCEPT ![p] = [status |-> "live", ttl |-> PassTTL]]
  /\ UNCHANGED <<session, lease, auth, takeover, conflicts, match, fence, kit>>

\* Revocation ends, in one transaction, everything obtained with the pass.
RevokeAccessPass(p) ==
  /\ pass[p].status = "live"
  /\ pass' = [pass EXCEPT ![p].status = "revoked"]
  /\ auth' = [s \in Sessions |->
       IF session[s].pass = p /\ auth[s].status = "active"
       THEN [auth[s] EXCEPT !.status = "revoked"] ELSE auth[s]]
  /\ session' = [s \in Sessions |->
       IF session[s].pass = p
       THEN [session[s] EXCEPT !.revoked = TRUE] ELSE session[s]]
  /\ lease' = IF \E s \in Sessions : lease.holder = s /\ session[s].pass = p
              THEN NoLease ELSE lease
  /\ UNCHANGED <<takeover, conflicts, match, fence, kit>>

----------------------------------------------------------------------------
(* Scoring sessions.                                                       *)

\* An incumbent keeps its claim on the match after its lease has lapsed,
\* until the organiser revokes it or transfers the match away.
IncumbentBinds ==
  \E s \in Sessions :
    /\ lease.holder = s
    /\ session[s].mode = "writer"
    /\ ~session[s].revoked
    /\ pass[session[s].pass].status # "revoked"

\* Fault: a device away with an authorization does not keep the place.
WriterReservedByLease(d) ==
  \/ lease.ttl > 0
  \/ IncumbentBinds /\ \A s \in Sessions : lease.holder = s => session[s].device # d

\* Fault: a missed heartbeat frees the place.
WriterReservedWhileLive(d) == lease.ttl > 0 \/ \E s \in Sessions : Reserved(s)

\* Whether a device that presents a pass finds the writer's place taken.
WriterReserved(d) ==
  \/ lease.ttl > 0
  \/ \E s \in Sessions : Reserved(s)
  \/ IncumbentBinds /\ \A s \in Sessions : lease.holder = s => session[s].device # d

NewSession(s, p, d, mode, g) ==
  session' = [session EXCEPT ![s] =
    [mode |-> mode, pass |-> p, device |-> d, gen |-> g,
     ttl |-> Lesser(pass[p].ttl, SessionTTL), revoked |-> FALSE,
     beat |-> BeatTTL, pending |-> FALSE]]

ExchangeAsWriter(s, p, d) ==
  /\ p \notin Viewers /\ ~WriterReserved(d)
  /\ \E g \in 1..Cardinality(Sessions) :
       /\ NextGeneration(g)
       /\ NewSession(s, p, d, "writer", g)
       /\ lease' = [holder |-> s, gen |-> g,
                    ttl |-> Lesser(Lesser(pass[p].ttl, SessionTTL), LeaseTTL)]

ExchangeReadOnly(s, p, d) ==
  /\ p \in Viewers \/ WriterReserved(d)
  /\ NewSession(s, p, d, IF p \in Viewers THEN "viewer" ELSE "candidate", 0)
  /\ UNCHANGED lease

ExchangeAccess(s, p, d) ==
  /\ session[s].mode = "unused"
  /\ LivePass(p)
  /\ ExchangeAsWriter(s, p, d) \/ ExchangeReadOnly(s, p, d)
  /\ auth' = ExpireOverdue
  /\ UNCHANGED <<pass, takeover, conflicts, match, fence, kit>>

\* Fault: the session is extended without the pass's expiry as a ceiling.
HeartbeatUncapped(s) ==
  /\ Authentic(s)
  /\ session[s].mode = "writer" => HoldsLease(s)
  /\ session' = [session EXCEPT ![s].ttl = SessionTTL, ![s].beat = BeatTTL,
                                ![s].pending = kit[s].queue]
  /\ lease' = IF session[s].mode = "writer"
              THEN [lease EXCEPT !.ttl = Lesser(SessionTTL, LeaseTTL)] ELSE lease
  /\ UNCHANGED <<pass, auth, takeover, conflicts, match, fence, kit>>

\* A heartbeat reports whether the device still holds unsent events.  A
\* writer that lost the lease has the whole transaction rolled back.
Heartbeat(s) ==
  /\ Authentic(s)
  /\ session[s].mode = "writer" => HoldsLease(s)
  /\ LET ttl == Lesser(pass[session[s].pass].ttl, SessionTTL) IN
       /\ session' = [session EXCEPT ![s].ttl = ttl, ![s].beat = BeatTTL,
                                     ![s].pending = kit[s].queue]
       /\ lease' = IF session[s].mode = "writer"
                   THEN [lease EXCEPT !.ttl = Lesser(ttl, LeaseTTL)] ELSE lease
  /\ UNCHANGED <<pass, auth, takeover, conflicts, match, fence, kit>>

----------------------------------------------------------------------------
(* Canonical events.                                                       *)

\* The command's device timestamp lies in the recording window: it was
\* recorded there if it is replayed, it is recorded now otherwise.
InRecordingWindow(s, replayed) ==
  auth[s].status = "active" /\ auth[s].gen = session[s].gen
    => auth[s].replay > 0 /\ (replayed \/ auth[s].rec > 0)

\* A device replays its queue only after establishing its authority again,
\* which reports the queue.  With a queue it sends nothing else that the
\* server accepts: the sequence it expects counts the queued events.
MayReplay(s) == kit[s].queue /\ session[s].pending

\* Fault: a token and a generation are enough, the lease is not looked at.
WriterGuardByToken(s) ==
  Authentic(s) /\ session[s].gen > 0 /\ LivePass(session[s].pass)

\* The trigger on canonical_score_events looks at lease, session and pass
\* once more.
WriterGuard(s) == AuthenticWriter(s) /\ LivePass(session[s].pass)

AppendScoreEvent(s, replayed) ==
  /\ WriterGuard(s)
  /\ ~ReadOnly
  /\ InRecordingWindow(s, replayed)
  /\ match' = [state |-> "in_progress", last |-> "score"]
  /\ fence' = session[s].gen
  /\ lease' = [lease EXCEPT !.ttl = Lesser(pass[session[s].pass].ttl, LeaseTTL)]
  /\ session' = [session EXCEPT ![s].beat = BeatTTL]
  /\ \/ ~replayed /\ ~kit[s].queue /\ UNCHANGED kit
     \/ /\ replayed /\ MayReplay(s)
        /\ \E rest \in BOOLEAN : kit' = [kit EXCEPT ![s].queue = rest]
  /\ UNCHANGED <<pass, auth, takeover, conflicts>>

\* Finalisation closes the requests the organiser has not answered; lease
\* and authorization stay as they are.  Nothing may follow a finalisation
\* in an offline queue.
Finalise(s, replayed) ==
  /\ WriterGuard(s)
  /\ match.state = "in_progress"
  /\ InRecordingWindow(s, replayed)
  /\ match' = [state |-> "final", last |-> "finalisation"]
  /\ fence' = session[s].gen
  /\ takeover' = [t \in Sessions |->
       IF takeover[t].status = "pending"
       THEN [takeover[t] EXCEPT !.status = "expired"] ELSE takeover[t]]
  /\ \/ ~replayed /\ ~kit[s].queue /\ UNCHANGED kit
     \/ /\ replayed /\ MayReplay(s)
        /\ kit' = [kit EXCEPT ![s].queue = FALSE]
  /\ UNCHANGED <<pass, session, lease, auth, conflicts>>

ReopenMatch ==
  /\ ReadOnly
  /\ match' = [state |-> "in_progress", last |-> "match_reopened"]
  /\ UNCHANGED <<pass, session, lease, auth, takeover, conflicts, fence, kit>>

CorrectMatch ==
  /\ ReadOnly \/ match = [state |-> "in_progress", last |-> "match_reopened"]
  /\ match' = [state |-> "corrected", last |-> "finalisation"]
  /\ UNCHANGED <<pass, session, lease, auth, takeover, conflicts, fence, kit>>

----------------------------------------------------------------------------
(* Takeover of the match by another session.                               *)

\* A second request while one is pending returns the first, even if the
\* lease has moved since.
RequestTakeover(s) ==
  /\ Authentic(s)
  /\ session[s].mode = "candidate"
  /\ ~ReadOnly
  /\ session' = [session EXCEPT ![s].beat = BeatTTL,
                                ![s].pending = kit[s].queue]
  /\ \E i \in Sessions :
       /\ lease.holder = i
       /\ takeover' =
            IF takeover[s].status = "pending" /\ takeover[s].ttl > 0
            THEN takeover
            ELSE [takeover EXCEPT ![s] =
                   [status |-> "pending", incumbent |-> i,
                    seen |-> PendingState(i, Reserved(i)),
                    ttl |-> Lesser(session[s].ttl, RequestTTL)]]
  /\ UNCHANGED <<pass, lease, auth, conflicts, match, fence, kit>>

\* The organiser's sweep, and the resolution of a request that is too late.
ExpireTakeovers(late) ==
  /\ late # {}
  /\ \A s \in late : takeover[s].status = "pending" /\ (takeover[s].ttl = 0 \/ ReadOnly)
  /\ takeover' = [s \in Sessions |->
       IF s \in late THEN [takeover[s] EXCEPT !.status = "expired"]
       ELSE takeover[s]]
  /\ UNCHANGED <<pass, session, lease, auth, conflicts, match, fence, kit>>

ExpireTakeoverRequests ==
  ExpireTakeovers({s \in Sessions : takeover[s].status = "pending" /\ takeover[s].ttl = 0})

DenyTakeover(s) ==
  /\ takeover[s].status = "pending" /\ takeover[s].ttl > 0
  /\ takeover' = [takeover EXCEPT ![s].status = "denied"]
  /\ UNCHANGED <<pass, session, lease, auth, conflicts, match, fence, kit>>

\* Everything resolveTakeover checks before it writes.
Approvable(s, ack) ==
  LET i == takeover[s].incumbent IN
  /\ takeover[s].status = "pending" /\ takeover[s].ttl > 0
  /\ ~ReadOnly
  /\ lease.holder = i
  /\ session[s].mode = "candidate" /\ ~session[s].revoked /\ session[s].ttl > 0
  /\ LivePass(session[s].pass) /\ session[s].pass \notin Viewers
  /\ ack \/ PendingState(i, Reserved(i) /\ auth[i].gen = lease.gen) = "none"

\* CHECK of scoring_takeover_requests: an approval of a request that saw
\* unknown or pending work must carry the organiser's acknowledgement.
ApprovalStorable(s, ack) == ack \/ takeover[s].seen = "none"

ApproveTakeover(s, ack) ==
  /\ Approvable(s, ack) /\ ApprovalStorable(s, ack)
  /\ \E i \in Sessions :
     LET transferred == Reserved(i) /\ auth[i].gen = lease.gen
         g == lease.gen + 1
     IN  /\ i = takeover[s].incumbent
         /\ auth' = IF transferred
                    THEN [auth EXCEPT ![i].status = "transferred"] ELSE auth
         /\ session' = [session EXCEPT ![i].mode = "transferred",
                                       ![s].mode = "writer", ![s].gen = g,
                                       ![s].beat = BeatTTL]
         /\ lease' = [holder |-> s, gen |-> g,
                      ttl |-> Lesser(session[s].ttl, LeaseTTL)]
         /\ takeover' = [takeover EXCEPT ![s].status = "approved"]
         /\ conflicts' = IF PendingState(i, transferred) # "none"
                         THEN conflicts \cup {i} ELSE conflicts
  /\ UNCHANGED <<pass, match, fence, kit>>

----------------------------------------------------------------------------
(* Offline authorizations.                                                 *)

\* Fault: only replay windows still open are looked for, overdue rows stay.
IssueOverOverdue(s, delivered) ==
  LET rec == Lesser(pass[session[s].pass].ttl, RecordTTL)
  IN
  /\ AuthenticWriter(s)
  /\ pass[session[s].pass].ttl > 0
  /\ match.state = "in_progress"
  /\ \A t \in Sessions \ {s} : ~Reserved(t)
  /\ auth[s].status = "active" => kit[s].secret
  /\ ~kit[s].queue
  /\ auth' = [auth EXCEPT ![s] =
       [status |-> "active", gen |-> session[s].gen, rec |-> rec,
        replay |-> Lesser(pass[session[s].pass].ttl, rec + GraceTTL)]]
  /\ session' = [session EXCEPT ![s].pending = FALSE]
  /\ kit' = IF delivered
            THEN [kit EXCEPT ![s].secret = TRUE, ![s].rec = rec] ELSE kit
  /\ UNCHANGED <<pass, lease, takeover, conflicts, match, fence>>

\* Issue, or renew with the resume secret; the device prepares only with an
\* empty queue and says so.  The answer may get lost on its way to it.
IssueOfflineAuthorization(s, delivered) ==
  LET row == ExpireOverdue
      rec == Lesser(pass[session[s].pass].ttl, RecordTTL)
  IN
  /\ AuthenticWriter(s)
  /\ pass[session[s].pass].ttl > 0
  /\ match.state = "in_progress"
  /\ \A t \in Sessions \ {s} : row[t].status # "active"
  /\ row[s].status = "active" => kit[s].secret
  /\ ~kit[s].queue
  /\ auth' = [row EXCEPT ![s] =
       [status |-> "active", gen |-> session[s].gen, rec |-> rec,
        replay |-> Lesser(pass[session[s].pass].ttl, rec + GraceTTL)]]
  /\ session' = [session EXCEPT ![s].pending = FALSE]
  /\ kit' = IF delivered
            THEN [kit EXCEPT ![s].secret = TRUE, ![s].rec = rec] ELSE kit
  /\ UNCHANGED <<pass, lease, takeover, conflicts, match, fence>>

\* The device comes back, after a restart or a long disconnection: the
\* session gets a new token and the lease returns to it.
ResumeOfflineAuthorization(s) ==
  LET ttl == Lesser(Lesser(pass[session[s].pass].ttl, auth[s].replay), SessionTTL) IN
  /\ kit[s].secret
  /\ Reserved(s) /\ LivePass(session[s].pass)
  /\ session[s].mode = "writer" /\ session[s].gen = auth[s].gen
  /\ lease.holder # None =>
       \/ lease.gen < auth[s].gen
       \/ lease.gen = auth[s].gen /\ lease.holder = s
  /\ session' = [session EXCEPT ![s].ttl = ttl, ![s].beat = BeatTTL,
                                ![s].pending = kit[s].queue]
  /\ lease' = [holder |-> s, gen |-> auth[s].gen, ttl |-> Lesser(ttl, LeaseTTL)]
  /\ UNCHANGED <<pass, auth, takeover, conflicts, match, fence, kit>>

\* A resume that comes too late commits the expiry before it is refused.
ResumeTooLate(s) ==
  /\ kit[s].secret
  /\ session[s].mode # "transferred"
  /\ auth[s].status = "active"
  /\ pass[session[s].pass].status # "revoked"
  /\ auth[s].replay = 0 \/ pass[session[s].pass].ttl = 0
  /\ auth' = [auth EXCEPT ![s].status = "expired"]
  /\ UNCHANGED <<pass, session, lease, takeover, conflicts, match, fence, kit>>

\* Fault: the revoked session keeps the lease.
RevokeOfflineKeepsLease(s, preserve) ==
  /\ kit[s].secret
  /\ auth[s].status = "active"
  /\ preserve => ~kit[s].queue
  /\ auth' = [auth EXCEPT ![s].status = "revoked"]
  /\ session' = IF preserve THEN session
                ELSE [session EXCEPT ![s].revoked = TRUE]
  /\ kit' = [kit EXCEPT ![s].secret = FALSE, ![s].rec = 0]
  /\ UNCHANGED <<pass, lease, takeover, conflicts, match, fence>>

\* The scorer ends offline access, or (preserve) the preparation of a device
\* with nothing recorded yet is rolled back.
RevokeOfflineAuthorization(s, preserve) ==
  /\ kit[s].secret
  /\ auth[s].status = "active"
  /\ preserve => ~kit[s].queue
  /\ auth' = [auth EXCEPT ![s].status = "revoked"]
  /\ session' = IF preserve THEN session
                ELSE [session EXCEPT ![s].revoked = TRUE]
  /\ lease' = IF ~preserve /\ lease.holder = s /\ lease.gen = auth[s].gen
              THEN NoLease ELSE lease
  /\ kit' = [kit EXCEPT ![s].secret = FALSE, ![s].rec = 0]
  /\ UNCHANGED <<pass, takeover, conflicts, match, fence>>

\* The device, alone: an event goes into the local queue while its copy of
\* the authorization says that recording is allowed.
RecordOffline(s) ==
  /\ kit[s].rec > 0
  /\ kit' = [kit EXCEPT ![s].queue = TRUE]
  /\ UNCHANGED <<pass, session, lease, auth, takeover, conflicts, match, fence>>

----------------------------------------------------------------------------
Elapsed(n) == IF n = 0 THEN 0 ELSE n - 1

Tick ==
  /\ pass' = [p \in Passes |-> [pass[p] EXCEPT !.ttl = Elapsed(@)]]
  /\ session' = [s \in Sessions |->
       [session[s] EXCEPT !.ttl = Elapsed(@), !.beat = Elapsed(@)]]
  /\ lease' = [lease EXCEPT !.ttl = Elapsed(@)]
  /\ auth' = [s \in Sessions |->
       [auth[s] EXCEPT !.rec = Elapsed(@), !.replay = Elapsed(@)]]
  /\ takeover' = [s \in Sessions |-> [takeover[s] EXCEPT !.ttl = Elapsed(@)]]
  /\ kit' = [s \in Sessions |-> [kit[s] EXCEPT !.rec = Elapsed(@)]]
  /\ UNCHANGED <<conflicts, match, fence>>

Next ==
  \/ \E p \in Passes : CreateAccessPass(p) \/ RevokeAccessPass(p)
  \/ \E s \in Sessions, p \in Passes, d \in Devices : ExchangeAccess(s, p, d)
  \/ \E s \in Sessions : Heartbeat(s) \/ RequestTakeover(s) \/ DenyTakeover(s)
  \/ \E s \in Sessions, replayed \in BOOLEAN :
       AppendScoreEvent(s, replayed) \/ Finalise(s, replayed)
  \/ ReopenMatch \/ CorrectMatch
  \/ ExpireTakeoverRequests
  \/ \E s \in Sessions : ExpireTakeovers({s})
  \/ \E s \in Sessions, ack \in BOOLEAN : ApproveTakeover(s, ack)
  \/ \E s \in Sessions, choice \in BOOLEAN :
       \/ IssueOfflineAuthorization(s, choice)
       \/ RevokeOfflineAuthorization(s, choice)
  \/ \E s \in Sessions :
       ResumeOfflineAuthorization(s) \/ ResumeTooLate(s) \/ RecordOffline(s)
  \/ Tick

Spec == Init /\ [][Next]_vars

----------------------------------------------------------------------------
(* Properties.                                                             *)

(***************************************************************************)
(* The session named by the lease is a writer of the lease's generation    *)
(* and neither it nor its pass is revoked: no path (exchange, takeover,    *)
(* resume, revocation) leaves the lease with somebody who lost the right   *)
(* to it.                                                                  *)
(***************************************************************************)
LeaseHolderAuthoritative ==
  \A s \in Sessions : lease.holder = s =>
    /\ session[s].mode = "writer"
    /\ session[s].gen = lease.gen
    /\ ~session[s].revoked
    /\ pass[session[s].pass].status # "revoked"

(***************************************************************************)
(* The lease carries the newest generation of the match and nobody else    *)
(* has it, although an exchange counts from all sessions, a takeover from  *)
(* the lease alone, and a resume brings an old generation back.            *)
(***************************************************************************)
LeaseIsNewest ==
  lease.holder # None =>
    \A s \in Sessions : lease.holder # s => session[s].gen < lease.gen

(***************************************************************************)
(* While a device may still replay what it recorded offline, the match is  *)
(* kept for it: the lease row names its session and generation.            *)
(***************************************************************************)
ReservationHonoured ==
  \A s \in Sessions : Reserved(s) =>
    /\ lease.holder = s
    /\ lease.gen = auth[s].gen

(***************************************************************************)
(* At most one authorization of the match is active, overdue ones          *)
(* included: the unique index of migration 0036 never aborts a handler.    *)
(***************************************************************************)
OneActiveAuthorization ==
  \A s, t \in Sessions :
    auth[s].status = "active" /\ auth[t].status = "active" => s = t

(***************************************************************************)
(* Nothing obtained with a pass outlives the pass: neither its sessions,   *)
(* nor the lease they hold (which an append extends without looking at     *)
(* the session), nor the replay window of their authorizations.            *)
(***************************************************************************)
AuthorityWithinPass ==
  \A s \in Sessions, p \in Passes : session[s].pass = p =>
    /\ session[s].ttl <= pass[p].ttl
    /\ lease.holder = s => lease.ttl <= pass[p].ttl
    /\ auth[s].replay <= pass[p].ttl
    /\ auth[s].rec <= auth[s].replay

(***************************************************************************)
(* A device that holds unsent offline events loses the match to another    *)
(* session only together with an open transfer conflict for the organiser, *)
(* unless its pass has expired: the handler decides from what the server   *)
(* was told (an authorization, a recent heartbeat, a reported count), the  *)
(* property from what is true.                                             *)
(***************************************************************************)
TransferLeavesConflict ==
  \A s \in Sessions :
    session[s].mode = "transferred" /\ kit[s].queue =>
      s \in conflicts \/ pass[session[s].pass].ttl = 0

(***************************************************************************)
(* Writer generations of accepted events never decrease: an event of a     *)
(* fenced-off writer is never appended after one of its successor.         *)
(***************************************************************************)
EventsFenced == [][fence' >= fence]_vars

(***************************************************************************)
(* A missed heartbeat never appoints a second writer: the lease passes     *)
(* from a session that was not revoked to another device only by an        *)
(* approved takeover, which marks the former holder transferred.           *)
(***************************************************************************)
HandoverNeedsApproval ==
  [][\A s, t \in Sessions :
       /\ lease.holder = s /\ lease'.holder = t
       /\ session[s].device # session'[t].device
       => /\ session'[s].mode = "transferred"
          /\ takeover[t].status = "pending" /\ takeover[t].incumbent = s]_vars

=============================================================================
