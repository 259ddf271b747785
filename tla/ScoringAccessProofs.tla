------------------------ MODULE ScoringAccessProofs ------------------------
(***************************************************************************)
(* Proofs about ScoringAccess, for any sets of sessions, devices and       *)
(* passes and any lifetimes.                                               *)
(***************************************************************************)
EXTENDS ScoringAccess, TLAPS

----------------------------------------------------------------------------
(* Helpers.                                                                *)

\* The lesser of two lifetimes is one of them and exceeds neither.
LEMMA LesserFacts ==
  ASSUME NEW a \in Nat, NEW b \in Nat
  PROVE  /\ Lesser(a, b) \in Nat
         /\ Lesser(a, b) <= a /\ Lesser(a, b) <= b
         /\ Lesser(a, b) \in {a, b}
  BY DEF Lesser

\* A countdown stays a natural number and never grows.
LEMMA ElapsedFacts ==
  ASSUME NEW n \in Nat
  PROVE  /\ Elapsed(n) \in Nat /\ Elapsed(n) <= n
         /\ n > 0 => Elapsed(n) = n - 1
         /\ n = 0 => Elapsed(n) = 0
  BY DEF Elapsed

\* A new generation is above the lease's and every session's.
LEMMA NextGenerationFacts ==
  ASSUME TypeOK, NEW g \in 1..Cardinality(Sessions), NextGeneration(g)
  PROVE  /\ g \in Nat /\ g > 0 /\ g > lease.gen
         /\ \A t \in Sessions : g > session[t].gen
  BY DEF NextGeneration

LEMMA PendingStateType ==
  ASSUME NEW s, NEW reserved \in BOOLEAN
  PROVE  PendingState(s, reserved) \in {"none", "present", "unknown"}
  BY DEF PendingState

----------------------------------------------------------------------------
(* Types.  A deadline is computed from the pass of a session, so a step    *)
(* keeps the types only if every session in use has one.                   *)

PassKnown ==
  \A s \in Sessions : session[s].mode # "unused" => session[s].pass \in Passes

LEMMA TypeInit == Init => TypeOK
  BY SetsAssumption DEF Init, TypeOK, PassRow, SessionRow, Modes, LeaseRow, NoLease,
     AuthRow, TakeoverRow, MatchRow, Kit, NoKit

\* The updates the handlers make of a session keep its shape.
LEMMA RowUpdates ==
  ASSUME NEW row \in SessionRow, NEW ttl \in Nat, NEW beat \in Nat, NEW gen \in Nat,
         NEW pending \in BOOLEAN
  PROVE  /\ [row EXCEPT !.revoked = TRUE] \in SessionRow
         /\ [row EXCEPT !.beat = beat] \in SessionRow
         /\ [row EXCEPT !.pending = FALSE] \in SessionRow
         /\ [row EXCEPT !.mode = "transferred"] \in SessionRow
         /\ [row EXCEPT !.mode = "writer", !.gen = gen, !.beat = beat] \in SessionRow
         /\ [row EXCEPT !.ttl = ttl, !.beat = beat] \in SessionRow
         /\ [row EXCEPT !.ttl = ttl, !.beat = beat, !.pending = pending] \in SessionRow
  BY DEF SessionRow, Modes

\* What a heartbeat, a takeover request and a resume write into a session.
LEMMA SessionBeaten ==
  ASSUME TypeOK, NEW s \in Sessions, NEW ttl \in Nat,
         session' = [session EXCEPT ![s].ttl = ttl, ![s].beat = BeatTTL,
                                    ![s].pending = kit[s].queue]
  PROVE  session' \in [Sessions -> SessionRow]
<1>1. kit[s].queue \in BOOLEAN /\ session[s] \in SessionRow
  BY DEF TypeOK, Kit
<1>2. [session[s] EXCEPT !.ttl = ttl, !.beat = BeatTTL, !.pending = kit[s].queue] \in SessionRow
  BY <1>1, RowUpdates, TimesAssumption
<1> QED
  BY <1>2 DEF TypeOK

LEMMA TypeStep == TypeOK /\ PassKnown /\ [Next]_vars => TypeOK'
<1> SUFFICES ASSUME TypeOK, PassKnown, [Next]_vars PROVE TypeOK'
  OBVIOUS
<1> USE SetsAssumption, TimesAssumption DEF TypeOK, PassKnown
<1>1. ASSUME NEW p \in Passes, CreateAccessPass(p) PROVE TypeOK'
  BY <1>1 DEF CreateAccessPass, PassRow
<1>2. ASSUME NEW p \in Passes, RevokeAccessPass(p) PROVE TypeOK'
  <2>1. pass' \in [Passes -> PassRow]
    BY <1>2 DEF RevokeAccessPass, PassRow
  <2>2. auth' \in [Sessions -> AuthRow]
    BY <1>2 DEF RevokeAccessPass, AuthRow
  <2>3. lease' \in LeaseRow
    BY <1>2 DEF RevokeAccessPass, NoLease, LeaseRow
  <2>4. session' = [t \in Sessions |->
          IF session[t].pass = p THEN [session[t] EXCEPT !.revoked = TRUE] ELSE session[t]]
    BY <1>2 DEF RevokeAccessPass
  <2>5. session' \in [Sessions -> SessionRow]
    <3>1. \A t \in Sessions : session[t] \in SessionRow
      OBVIOUS
    <3>2. \A t \in Sessions : [session[t] EXCEPT !.revoked = TRUE] \in SessionRow
      BY <3>1, RowUpdates, 0 \in Nat, FALSE \in BOOLEAN
    <3> QED BY <2>4, <3>1, <3>2
  <2> QED BY <1>2, <2>1, <2>2, <2>3, <2>5 DEF RevokeAccessPass
<1>3. ASSUME NEW s \in Sessions, NEW p \in Passes, NEW d \in Devices,
             ExchangeAccess(s, p, d)
      PROVE  TypeOK'
  <2>1. auth' \in [Sessions -> AuthRow]
    BY <1>3 DEF ExchangeAccess, ExpireOverdue, AuthRow
  <2>2. Lesser(pass[p].ttl, SessionTTL) \in Nat
    BY LesserFacts DEF PassRow
  <2>3. CASE ExchangeAsWriter(s, p, d)
    <3> PICK g \in 1..Cardinality(Sessions) :
          /\ NextGeneration(g)
          /\ NewSession(s, p, d, "writer", g)
          /\ lease' = [holder |-> s, gen |-> g,
               ttl |-> Lesser(Lesser(pass[p].ttl, SessionTTL), LeaseTTL)]
      BY <2>3 DEF ExchangeAsWriter
    <3>1. g \in Nat
      BY NextGenerationFacts
    <3>2. session' \in [Sessions -> SessionRow]
      BY <2>2, <3>1 DEF NewSession, SessionRow, Modes
    <3>3. lease' \in LeaseRow
      BY <2>2, <3>1, LesserFacts DEF LeaseRow
    <3> QED BY <1>3, <2>1, <3>2, <3>3 DEF ExchangeAccess
  <2>4. CASE ExchangeReadOnly(s, p, d)
    <3>1. session' \in [Sessions -> SessionRow]
      BY <2>2, <2>4 DEF ExchangeReadOnly, NewSession, SessionRow, Modes
    <3> QED BY <1>3, <2>1, <2>4, <3>1 DEF ExchangeAccess, ExchangeReadOnly
  <2> QED BY <1>3, <2>3, <2>4 DEF ExchangeAccess
<1>4. ASSUME NEW s \in Sessions, Heartbeat(s) PROVE TypeOK'
  <2>1. Lesser(pass[session[s].pass].ttl, SessionTTL) \in Nat
    BY <1>4, LesserFacts DEF Heartbeat, Authentic, PassRow
  <2>2. Lesser(Lesser(pass[session[s].pass].ttl, SessionTTL), LeaseTTL) \in Nat
    BY <2>1, LesserFacts
  <2>3. session' \in [Sessions -> SessionRow]
    <3>1. session' = [session EXCEPT
            ![s].ttl = Lesser(pass[session[s].pass].ttl, SessionTTL),
            ![s].beat = BeatTTL, ![s].pending = kit[s].queue]
      BY <1>4 DEF Heartbeat
    <3> QED BY <2>1, <3>1, SessionBeaten
  <2>4. lease' \in LeaseRow
    BY <1>4, <2>2 DEF Heartbeat, LeaseRow
  <2> QED BY <1>4, <2>3, <2>4 DEF Heartbeat
<1>5. ASSUME NEW s \in Sessions, NEW replayed \in BOOLEAN, AppendScoreEvent(s, replayed)
      PROVE  TypeOK'
  <2>1. Lesser(pass[session[s].pass].ttl, LeaseTTL) \in Nat
    BY <1>5, LesserFacts
       DEF AppendScoreEvent, WriterGuard, AuthenticWriter, Authentic, PassRow
  <2>2. session' \in [Sessions -> SessionRow]
    <3>1. session' = [session EXCEPT ![s] = [session[s] EXCEPT !.beat = BeatTTL]]
      BY <1>5 DEF AppendScoreEvent
    <3>2. [session[s] EXCEPT !.beat = BeatTTL] \in SessionRow
      BY RowUpdates, FALSE \in BOOLEAN
    <3> QED BY <3>1, <3>2
  <2>3. kit' \in [Sessions -> Kit]
    BY <1>5 DEF AppendScoreEvent, Kit
  <2>4. match' \in MatchRow /\ fence' \in Nat /\ lease' \in LeaseRow
    BY <1>5, <2>1 DEF AppendScoreEvent, MatchRow, SessionRow, LeaseRow
  <2> QED BY <1>5, <2>2, <2>3, <2>4 DEF AppendScoreEvent
<1>6. ASSUME NEW s \in Sessions, NEW replayed \in BOOLEAN, Finalise(s, replayed)
      PROVE  TypeOK'
  <2>1. kit' \in [Sessions -> Kit]
    <3>1. kit' = kit \/ kit' = [kit EXCEPT ![s].queue = FALSE]
      BY <1>6 DEF Finalise
    <3>2. CASE kit' = kit
      BY <3>2
    <3>3. CASE kit' = [kit EXCEPT ![s].queue = FALSE]
      BY <3>3 DEF Kit
    <3> QED BY <3>1, <3>2, <3>3
  <2>2. takeover' \in [Sessions -> TakeoverRow]
    BY <1>6 DEF Finalise, TakeoverRow
  <2>3. match' \in MatchRow /\ fence' \in Nat
    BY <1>6 DEF Finalise, MatchRow, SessionRow
  <2> QED BY <1>6, <2>1, <2>2, <2>3 DEF Finalise
<1>7. CASE ReopenMatch
  BY <1>7 DEF ReopenMatch, MatchRow
<1>8. CASE CorrectMatch
  BY <1>8 DEF CorrectMatch, MatchRow
<1>9. ASSUME NEW s \in Sessions, RequestTakeover(s) PROVE TypeOK'
  <2> PICK i \in Sessions :
         /\ lease.holder = i
         /\ takeover' =
              IF takeover[s].status = "pending" /\ takeover[s].ttl > 0
              THEN takeover
              ELSE [takeover EXCEPT ![s] =
                     [status |-> "pending", incumbent |-> i,
                      seen |-> PendingState(i, Reserved(i)),
                      ttl |-> Lesser(session[s].ttl, RequestTTL)]]
    BY <1>9 DEF RequestTakeover
  <2>1. PendingState(i, Reserved(i)) \in {"none", "present", "unknown"}
    BY PendingStateType DEF Reserved
  <2>2. Lesser(session[s].ttl, RequestTTL) \in Nat
    BY LesserFacts DEF SessionRow
  <2>3. takeover' \in [Sessions -> TakeoverRow]
    BY <2>1, <2>2 DEF TakeoverRow
  <2>4. session' \in [Sessions -> SessionRow]
    <3>1. session' = [session EXCEPT ![s].ttl = session[s].ttl,
            ![s].beat = BeatTTL, ![s].pending = kit[s].queue]
      BY <1>9 DEF RequestTakeover, SessionRow
    <3>2. session[s].ttl \in Nat
      BY DEF SessionRow
    <3> QED BY <3>1, <3>2, SessionBeaten
  <2> QED BY <1>9, <2>3, <2>4 DEF RequestTakeover
<1>10. ASSUME NEW late, ExpireTakeovers(late) PROVE TypeOK'
  BY <1>10 DEF ExpireTakeovers, TakeoverRow
<1>11. ASSUME NEW s \in Sessions, DenyTakeover(s) PROVE TypeOK'
  BY <1>11 DEF DenyTakeover, TakeoverRow
<1>12. ASSUME NEW s \in Sessions, NEW ack \in BOOLEAN, ApproveTakeover(s, ack)
       PROVE  TypeOK'
  <2>1. lease.gen + 1 \in Nat /\ Lesser(session[s].ttl, LeaseTTL) \in Nat
    <3>1. lease.gen \in Nat /\ session[s].ttl \in Nat
      BY DEF LeaseRow, SessionRow
    <3>2. lease.gen + 1 \in Nat
      BY <3>1
    <3> QED BY <3>1, <3>2, LesserFacts
  <2>2. session' \in [Sessions -> SessionRow]
    <3>1. PICK i \in Sessions :
            session' = [session EXCEPT ![i].mode = "transferred", ![s].mode = "writer",
                                       ![s].gen = lease.gen + 1, ![s].beat = BeatTTL]
      BY <1>12 DEF ApproveTakeover
    <3> DEFINE rows == [session EXCEPT ![i].mode = "transferred"]
    <3>2. rows \in [Sessions -> SessionRow]
      BY RowUpdates, 0 \in Nat, FALSE \in BOOLEAN
    <3>3. [rows[s] EXCEPT !.mode = "writer", !.gen = lease.gen + 1, !.beat = BeatTTL] \in SessionRow
      BY <2>1, <3>2, RowUpdates, FALSE \in BOOLEAN
    <3>4. session' = [rows EXCEPT ![s] =
            [rows[s] EXCEPT !.mode = "writer", !.gen = lease.gen + 1, !.beat = BeatTTL]]
      BY <3>1
    <3> QED BY <3>2, <3>3, <3>4
  <2>3. lease' \in LeaseRow
    BY <1>12, <2>1 DEF ApproveTakeover, LeaseRow
  <2>4. auth' \in [Sessions -> AuthRow]
    <3>1. PICK i \in Sessions : auth' = auth \/ auth' = [auth EXCEPT ![i].status = "transferred"]
      BY <1>12 DEF ApproveTakeover
    <3>2. [auth[i] EXCEPT !.status = "transferred"] \in AuthRow
      BY DEF AuthRow
    <3> QED BY <3>1, <3>2
  <2>5. takeover' \in [Sessions -> TakeoverRow] /\ conflicts' \subseteq Sessions
    BY <1>12 DEF ApproveTakeover, TakeoverRow
  <2> QED BY <1>12, <2>2, <2>3, <2>4, <2>5 DEF ApproveTakeover
<1>13. ASSUME NEW s \in Sessions, NEW delivered \in BOOLEAN,
              IssueOfflineAuthorization(s, delivered)
       PROVE  TypeOK'
  <2> DEFINE ttl == pass[session[s].pass].ttl
             rec == Lesser(ttl, RecordTTL)
             replay == Lesser(ttl, rec + GraceTTL)
  <2>1. ttl \in Nat
    BY <1>13 DEF IssueOfflineAuthorization, AuthenticWriter, Authentic, PassRow
  <2>2. rec \in Nat
    BY <2>1, LesserFacts
  <2>3. replay \in Nat
    <3>1. rec + GraceTTL \in Nat
      BY <2>2
    <3> QED BY <2>1, <3>1, LesserFacts
  <2> HIDE DEF rec, replay
  <2>4. ExpireOverdue \in [Sessions -> AuthRow]
    BY DEF ExpireOverdue, AuthRow
  <2>5. auth' = [ExpireOverdue EXCEPT ![s] =
          [status |-> "active", gen |-> session[s].gen, rec |-> rec, replay |-> replay]]
    BY <1>13 DEF IssueOfflineAuthorization, rec, replay
  <2>6. auth' \in [Sessions -> AuthRow]
    BY <2>2, <2>3, <2>4, <2>5 DEF AuthRow, SessionRow
  <2>7. session' \in [Sessions -> SessionRow]
    <3>1. session' = [session EXCEPT ![s].pending = FALSE]
      BY <1>13 DEF IssueOfflineAuthorization
    <3>2. session[s] \in SessionRow
      OBVIOUS
    <3>3. session' \in [Sessions -> SessionRow]
      BY <3>1, <3>2, RowUpdates
    <3> QED BY <3>3
  <2>8. kit' = kit \/ kit' = [kit EXCEPT ![s].secret = TRUE, ![s].rec = rec]
    BY <1>13 DEF IssueOfflineAuthorization, rec
  <2>9. kit' \in [Sessions -> Kit]
    <3>1. CASE kit' = kit
      BY <3>1
    <3>2. CASE kit' = [kit EXCEPT ![s].secret = TRUE, ![s].rec = rec]
      BY <2>2, <3>2 DEF Kit
    <3> QED BY <2>8, <3>1, <3>2
  <2> QED BY <1>13, <2>6, <2>7, <2>9 DEF IssueOfflineAuthorization
<1>14. ASSUME NEW s \in Sessions, NEW preserve \in BOOLEAN,
              RevokeOfflineAuthorization(s, preserve)
       PROVE  TypeOK'
  <2>1. auth' \in [Sessions -> AuthRow] /\ kit' \in [Sessions -> Kit]
    <3>1. auth' \in [Sessions -> AuthRow]
      BY <1>14 DEF RevokeOfflineAuthorization, AuthRow
    <3>2. kit' = [kit EXCEPT ![s].secret = FALSE, ![s].rec = 0]
      BY <1>14 DEF RevokeOfflineAuthorization
    <3> QED BY <3>1, <3>2 DEF Kit
  <2>2. session' \in [Sessions -> SessionRow]
    <3>1. session' = session \/ session' = [session EXCEPT ![s].revoked = TRUE]
      BY <1>14 DEF RevokeOfflineAuthorization
    <3>2. CASE session' = session
      BY <3>2
    <3>3. CASE session' = [session EXCEPT ![s].revoked = TRUE]
      <4>1. session[s] \in SessionRow
        OBVIOUS
      <4>2. session' \in [Sessions -> SessionRow]
        BY <3>3, <4>1, RowUpdates
      <4> QED BY <4>2
    <3> QED BY <3>1, <3>2, <3>3
  <2>3. lease' \in LeaseRow
    BY <1>14 DEF RevokeOfflineAuthorization, LeaseRow, NoLease
  <2> QED BY <1>14, <2>1, <2>2, <2>3 DEF RevokeOfflineAuthorization
<1>15. ASSUME NEW s \in Sessions, ResumeOfflineAuthorization(s) PROVE TypeOK'
  <2> DEFINE first == Lesser(pass[session[s].pass].ttl, auth[s].replay)
             ttl == Lesser(first, SessionTTL)
  <2>1. first \in Nat
    BY <1>15, LesserFacts DEF ResumeOfflineAuthorization, PassRow, AuthRow
  <2>2. ttl \in Nat
    BY <2>1, LesserFacts
  <2>3. Lesser(ttl, LeaseTTL) \in Nat
    BY <2>2, LesserFacts
  <2> HIDE DEF ttl
  <2>4. session' = [session EXCEPT ![s].ttl = ttl, ![s].beat = BeatTTL,
                                   ![s].pending = kit[s].queue]
    BY <1>15 DEF ResumeOfflineAuthorization, ttl
  <2>5. session' \in [Sessions -> SessionRow]
    BY <2>2, <2>4, SessionBeaten
  <2>6. lease' = [holder |-> s, gen |-> auth[s].gen, ttl |-> Lesser(ttl, LeaseTTL)]
    BY <1>15 DEF ResumeOfflineAuthorization, ttl
  <2>7. lease' \in LeaseRow
    BY <2>3, <2>6 DEF LeaseRow, AuthRow
  <2> QED BY <1>15, <2>5, <2>7 DEF ResumeOfflineAuthorization
<1>16. ASSUME NEW s \in Sessions, ResumeTooLate(s) PROVE TypeOK'
  BY <1>16 DEF ResumeTooLate, AuthRow
<1>17. ASSUME NEW s \in Sessions, RecordOffline(s) PROVE TypeOK'
  BY <1>17 DEF RecordOffline, Kit
<1>18. CASE Tick
  <2>1. pass' \in [Passes -> PassRow] /\ lease' \in LeaseRow
    BY <1>18, ElapsedFacts DEF Tick, PassRow, LeaseRow
  <2>2. session' \in [Sessions -> SessionRow]
    <3>1. session' = [t \in Sessions |-> [session[t] EXCEPT
            !.ttl = Elapsed(session[t].ttl), !.beat = Elapsed(session[t].beat)]]
      BY <1>18 DEF Tick
    <3>2. ASSUME NEW t \in Sessions
          PROVE  Elapsed(session[t].ttl) \in Nat /\ Elapsed(session[t].beat) \in Nat
      BY ElapsedFacts DEF SessionRow
    <3>3. \A t \in Sessions : session[t] \in SessionRow
      OBVIOUS
    <3>4. session' \in [Sessions -> SessionRow]
      BY <3>1, <3>2, <3>3, RowUpdates
    <3> QED BY <3>4
  <2>3. auth' \in [Sessions -> AuthRow]
    BY <1>18, ElapsedFacts DEF Tick, AuthRow
  <2>4. takeover' \in [Sessions -> TakeoverRow]
    <3>1. takeover' = [t \in Sessions |->
            [takeover[t] EXCEPT !.ttl = Elapsed(takeover[t].ttl)]]
      BY <1>18 DEF Tick
    <3>2. ASSUME NEW t \in Sessions
          PROVE  [takeover[t] EXCEPT !.ttl = Elapsed(takeover[t].ttl)] \in TakeoverRow
      <4>1. takeover[t] \in TakeoverRow /\ Elapsed(takeover[t].ttl) \in Nat
        BY ElapsedFacts DEF TakeoverRow
      <4> QED BY <4>1 DEF TakeoverRow
    <3> QED BY <3>1, <3>2
  <2>5. kit' \in [Sessions -> Kit]
    <3>1. kit' = [t \in Sessions |-> [kit[t] EXCEPT !.rec = Elapsed(kit[t].rec)]]
      BY <1>18 DEF Tick
    <3>2. \A t \in Sessions : Elapsed(kit[t].rec) \in Nat
      BY ElapsedFacts DEF Kit
    <3> QED BY <3>1, <3>2 DEF Kit
  <2> QED BY <1>18, <2>1, <2>2, <2>3, <2>4, <2>5 DEF Tick
<1>19. CASE UNCHANGED vars
  BY <1>19 DEF vars
<1> HIDE SetsAssumption, TimesAssumption DEF TypeOK, PassKnown
<1> QED
  BY <1>1, <1>2, <1>3, <1>4, <1>5, <1>6, <1>7, <1>8, <1>9, <1>10, <1>11, <1>12,
     <1>13, <1>14, <1>15, <1>16, <1>17, <1>18, <1>19
     DEF Next, ExpireTakeoverRequests

----------------------------------------------------------------------------
(* Who holds the match.                                                    *)

\* Only sessions that write or wrote have a generation.
GenerationGiven ==
  \A s \in Sessions :
    session[s].mode \notin {"writer", "transferred"} => session[s].gen = 0

\* An active authorization belongs to a session that still has the rights
\* it was issued with, or was transferred after its replay window.
AuthorizationCurrent ==
  \A s \in Sessions : auth[s].status = "active" =>
    /\ session[s].mode \in {"writer", "transferred"}
    /\ ~session[s].revoked
    /\ auth[s].gen = session[s].gen

LeaseCounted == lease.holder # None => lease.gen > 0

(***************************************************************************)
(* The inductive invariant.  None of the four properties is inductive      *)
(* alone: a resume finds its lease in place because the place was kept for *)
(* it, the place is kept because a takeover ends the authorization of the  *)
(* holder's own generation, and the holder's generation is the lease's.    *)
(***************************************************************************)
Authority ==
  /\ TypeOK
  /\ PassKnown
  /\ GenerationGiven
  /\ AuthorizationCurrent
  /\ LeaseCounted
  /\ LeaseHolderAuthoritative
  /\ LeaseIsNewest
  /\ ReservationHonoured
  /\ OneActiveAuthorization

\* What a step may do to sessions and authorizations without touching the
\* question of who holds the match.
Steady ==
  /\ \A s \in Sessions :
       /\ session'[s].mode = session[s].mode
       /\ session'[s].pass = session[s].pass
       /\ session'[s].device = session[s].device
       /\ session'[s].gen = session[s].gen
       /\ session'[s].revoked = session[s].revoked
       /\ auth'[s].status = "active" => /\ auth[s].status = "active"
                                        /\ auth'[s].gen = auth[s].gen
                                        /\ auth'[s].replay <= auth[s].replay
  /\ \A p \in Passes : pass'[p].status = "revoked" => pass[p].status = "revoked"
  /\ lease'.holder = lease.holder
  /\ lease'.gen = lease.gen

LEMMA SteadyKeeps ==
  ASSUME Authority, TypeOK', Steady
  PROVE  Authority'
<1>1. PassKnown' /\ GenerationGiven' /\ LeaseCounted'
  BY DEF Authority, Steady, PassKnown, GenerationGiven, LeaseCounted
<1>2. AuthorizationCurrent' /\ OneActiveAuthorization'
  BY DEF Authority, Steady, AuthorizationCurrent, OneActiveAuthorization
<1>3. LeaseIsNewest'
  BY DEF Authority, Steady, LeaseIsNewest
<1>4. LeaseHolderAuthoritative'
  <2> SUFFICES ASSUME NEW s \in Sessions, lease'.holder = s
               PROVE  /\ session'[s].mode = "writer" /\ session'[s].gen = lease'.gen
                      /\ ~session'[s].revoked /\ pass'[session'[s].pass].status # "revoked"
    BY DEF LeaseHolderAuthoritative
  <2>1. /\ session[s].mode = "writer" /\ session[s].gen = lease.gen
        /\ ~session[s].revoked /\ pass[session[s].pass].status # "revoked"
    BY DEF Authority, Steady, LeaseHolderAuthoritative
  <2>2. session[s].pass \in Passes
    BY <2>1 DEF Authority, PassKnown
  <2> QED BY <2>1, <2>2 DEF Steady
<1>5. ReservationHonoured'
  <2> SUFFICES ASSUME NEW s \in Sessions, Reserved(s)'
               PROVE  lease'.holder = s /\ lease'.gen = auth'[s].gen
    BY DEF ReservationHonoured
  <2>1. auth[s].status = "active" /\ auth'[s].gen = auth[s].gen /\ auth[s].replay > 0
    BY DEF Reserved, Steady, Authority, TypeOK, AuthRow
  <2> QED BY <2>1 DEF Authority, ReservationHonoured, Reserved, Steady
<1> QED BY <1>1, <1>2, <1>3, <1>4, <1>5 DEF Authority

\* A step that writes no session, pass, lease or authorization.
LEMMA RestSteady ==
  ASSUME Authority, UNCHANGED <<pass, session, lease, auth>>
  PROVE  Steady
  BY DEF Steady, Authority, TypeOK, AuthRow

LEMMA BeatenFields ==
  ASSUME TypeOK, NEW s \in Sessions, NEW ttl \in Nat, NEW pending \in BOOLEAN,
         session' = [session EXCEPT ![s].ttl = ttl, ![s].beat = BeatTTL, ![s].pending = pending],
         NEW t \in Sessions
  PROVE  /\ session'[t].mode = session[t].mode /\ session'[t].pass = session[t].pass
         /\ session'[t].device = session[t].device
         /\ session'[t].gen = session[t].gen /\ session'[t].revoked = session[t].revoked
<1>1. session'[t].mode = session[t].mode /\ session'[t].pass = session[t].pass
  BY DEF TypeOK, SessionRow
<1>2. session'[t].device = session[t].device
  BY DEF TypeOK, SessionRow
<1>3. session'[t].gen = session[t].gen
  BY DEF TypeOK, SessionRow
<1>4. session'[t].revoked = session[t].revoked
  BY DEF TypeOK, SessionRow
<1> QED BY <1>1, <1>2, <1>3, <1>4

\* A step that marks a session as heard of.
LEMMA BeatenSteady ==
  ASSUME Authority, NEW s \in Sessions, NEW ttl \in Nat, NEW pending \in BOOLEAN,
         session' = [session EXCEPT ![s].ttl = ttl, ![s].beat = BeatTTL, ![s].pending = pending],
         UNCHANGED <<pass, auth>>,
         lease'.holder = lease.holder, lease'.gen = lease.gen
  PROVE  Steady
<1>1. \A t \in Sessions :
        /\ session'[t].mode = session[t].mode /\ session'[t].pass = session[t].pass
        /\ session'[t].device = session[t].device
        /\ session'[t].gen = session[t].gen /\ session'[t].revoked = session[t].revoked
  BY BeatenFields DEF Authority
<1> QED BY <1>1 DEF Steady, Authority, TypeOK, AuthRow

LEMMA AuthorityInit == Init => Authority
<1> SUFFICES ASSUME Init PROVE Authority
  OBVIOUS
<1>1. TypeOK
  BY TypeInit
<1>2. PassKnown /\ GenerationGiven /\ LeaseCounted /\ LeaseIsNewest
  BY DEF Init, PassKnown, GenerationGiven, LeaseCounted, LeaseIsNewest, NoLease
<1>3. AuthorizationCurrent /\ OneActiveAuthorization /\ ReservationHonoured
  BY DEF Init, AuthorizationCurrent, OneActiveAuthorization, ReservationHonoured, Reserved
<1>4. LeaseHolderAuthoritative
  BY SetsAssumption DEF Init, LeaseHolderAuthoritative, NoLease
<1> QED BY <1>1, <1>2, <1>3, <1>4 DEF Authority

\* An authorization only loses by the expiry of overdue ones.
LEMMA ExpireOverdueFacts ==
  ASSUME TypeOK, NEW s \in Sessions
  PROVE  /\ ExpireOverdue[s].status = "active" => auth[s].status = "active"
         /\ ExpireOverdue[s].status = "active" => auth[s].replay > 0
         /\ ExpireOverdue[s].gen = auth[s].gen
         /\ ExpireOverdue[s].replay = auth[s].replay
  BY DEF ExpireOverdue, TypeOK, AuthRow

LEMMA ExchangeKeeps ==
  ASSUME Authority, TypeOK', NEW s \in Sessions, NEW p \in Passes, NEW d \in Devices,
         ExchangeAccess(s, p, d)
  PROVE  Authority'
<1>1. /\ session[s].mode = "unused" /\ session[s].gen = 0 /\ lease.holder # s
      /\ auth[s].status # "active"
  BY DEF ExchangeAccess, Authority, GenerationGiven, LeaseHolderAuthoritative, AuthorizationCurrent
<1>2. pass' = pass /\ pass[p].status = "live"
  BY DEF ExchangeAccess, LivePass
<1>3. \A t \in Sessions :
        /\ auth'[t].status = "active" => auth[t].status = "active"
        /\ auth'[t].gen = auth[t].gen
        /\ auth'[t].replay = auth[t].replay
  BY ExpireOverdueFacts DEF ExchangeAccess, Authority
<1>4. \A t \in Sessions \ {s} : session'[t] = session[t]
  BY DEF ExchangeAccess, ExchangeAsWriter, ExchangeReadOnly, NewSession, Authority, TypeOK
<1>5. OneActiveAuthorization'
  BY <1>3 DEF Authority, OneActiveAuthorization
<1>6. AuthorizationCurrent'
  BY <1>1, <1>3, <1>4 DEF Authority, AuthorizationCurrent
<1>7. CASE ExchangeAsWriter(s, p, d)
  <2> PICK g \in 1..Cardinality(Sessions) :
        /\ NextGeneration(g)
        /\ NewSession(s, p, d, "writer", g)
        /\ lease' = [holder |-> s, gen |-> g,
             ttl |-> Lesser(Lesser(pass[p].ttl, SessionTTL), LeaseTTL)]
    BY <1>7 DEF ExchangeAsWriter
  <2>1. g > 0 /\ g > lease.gen /\ \A t \in Sessions : g > session[t].gen
    BY NextGenerationFacts DEF Authority
  <2>2. /\ session'[s].mode = "writer" /\ session'[s].pass = p
        /\ session'[s].gen = g /\ ~session'[s].revoked
    BY DEF NewSession, Authority, TypeOK
  <2>3. lease'.holder = s /\ lease'.gen = g
    OBVIOUS
  <2>4. PassKnown' /\ GenerationGiven' /\ LeaseCounted'
    BY <1>4, <2>1, <2>2, <2>3 DEF Authority, PassKnown, GenerationGiven, LeaseCounted
  <2>5. LeaseHolderAuthoritative' /\ LeaseIsNewest'
    BY <1>2, <1>4, <2>1, <2>2, <2>3 DEF LeaseHolderAuthoritative, LeaseIsNewest
  <2>6. \A t \in Sessions : ~Reserved(t)
    BY <1>7 DEF ExchangeAsWriter, WriterReserved
  <2>7. ReservationHonoured'
    BY <1>3, <2>6 DEF ReservationHonoured, Reserved
  <2> QED BY <1>5, <1>6, <2>4, <2>5, <2>7 DEF Authority
<1>8. CASE ExchangeReadOnly(s, p, d)
  <2>1. /\ session'[s].mode \in {"viewer", "candidate"} /\ session'[s].pass = p
        /\ session'[s].gen = 0 /\ lease' = lease
    BY <1>8 DEF ExchangeReadOnly, NewSession, Authority, TypeOK
  <2>2. PassKnown' /\ GenerationGiven' /\ LeaseCounted'
    BY <1>4, <2>1 DEF Authority, PassKnown, GenerationGiven, LeaseCounted
  <2>3. LeaseHolderAuthoritative'
    BY <1>1, <1>2, <1>4, <2>1 DEF Authority, LeaseHolderAuthoritative
  <2>4. LeaseIsNewest'
    BY <1>4, <2>1 DEF Authority, LeaseIsNewest, LeaseCounted
  <2>5. ReservationHonoured'
    BY <1>3, <2>1 DEF Authority, ReservationHonoured, Reserved
  <2> QED BY <1>5, <1>6, <2>2, <2>3, <2>4, <2>5 DEF Authority
<1> QED BY <1>7, <1>8 DEF ExchangeAccess

LEMMA RevokePassKeeps ==
  ASSUME Authority, TypeOK', NEW p \in Passes, RevokeAccessPass(p)
  PROVE  Authority'
<1>1. \A t \in Sessions :
        /\ session'[t].mode = session[t].mode /\ session'[t].pass = session[t].pass
        /\ session'[t].gen = session[t].gen
        /\ session[t].pass # p => session'[t].revoked = session[t].revoked
        /\ auth'[t].status = "active" => auth[t].status = "active" /\ session[t].pass # p
        /\ auth'[t].gen = auth[t].gen /\ auth'[t].replay = auth[t].replay
  <2> SUFFICES ASSUME NEW t \in Sessions
               PROVE  /\ session'[t].mode = session[t].mode /\ session'[t].pass = session[t].pass
                      /\ session'[t].gen = session[t].gen
                      /\ session[t].pass # p => session'[t].revoked = session[t].revoked
                      /\ auth'[t].status = "active" =>
                           auth[t].status = "active" /\ session[t].pass # p
                      /\ auth'[t].gen = auth[t].gen /\ auth'[t].replay = auth[t].replay
    OBVIOUS
  <2>1. session[t] \in SessionRow /\ auth[t] \in AuthRow
    BY DEF Authority, TypeOK
  <2>2. session'[t] = IF session[t].pass = p
          THEN [session[t] EXCEPT !.revoked = TRUE] ELSE session[t]
    BY DEF RevokeAccessPass
  <2>3. auth'[t] = IF session[t].pass = p /\ auth[t].status = "active"
          THEN [auth[t] EXCEPT !.status = "revoked"] ELSE auth[t]
    BY DEF RevokeAccessPass
  <2>4. auth'[t].gen = auth[t].gen /\ auth'[t].replay = auth[t].replay
    BY <2>1, <2>3 DEF AuthRow
  <2>5. auth'[t].status = "active" => auth[t].status = "active" /\ session[t].pass # p
    BY <2>1, <2>3 DEF AuthRow
  <2>6. /\ session'[t].mode = session[t].mode /\ session'[t].pass = session[t].pass
        /\ session'[t].gen = session[t].gen
    BY <2>1, <2>2 DEF SessionRow
  <2>7. session[t].pass # p => session'[t].revoked = session[t].revoked
    BY <2>2
  <2> QED BY <2>4, <2>5, <2>6, <2>7
<1>2. /\ lease' \in {lease, NoLease}
      /\ \A t \in Sessions : lease.holder = t /\ session[t].pass = p => lease' = NoLease
      /\ (\A t \in Sessions : lease.holder = t => session[t].pass # p) => lease' = lease
  BY DEF RevokeAccessPass
<1>3. \A q \in Passes \ {p} : pass'[q] = pass[q]
  BY DEF RevokeAccessPass, Authority, TypeOK
<1>4. NoLease.holder = None /\ \A t \in Sessions : t # None
  BY SetsAssumption DEF NoLease
<1>5. PassKnown' /\ GenerationGiven' /\ LeaseCounted' /\ LeaseIsNewest'
  BY <1>1, <1>2, <1>4 DEF Authority, PassKnown, GenerationGiven, LeaseCounted, LeaseIsNewest
<1>6. AuthorizationCurrent' /\ OneActiveAuthorization'
  BY <1>1 DEF Authority, AuthorizationCurrent, OneActiveAuthorization
<1>7. LeaseHolderAuthoritative'
  <2> SUFFICES ASSUME NEW t \in Sessions, lease'.holder = t
               PROVE  /\ session'[t].mode = "writer" /\ session'[t].gen = lease'.gen
                      /\ ~session'[t].revoked /\ pass'[session'[t].pass].status # "revoked"
    BY DEF LeaseHolderAuthoritative
  <2>1. lease' = lease /\ session[t].pass # p
    BY <1>2, <1>4
  <2>2. /\ session[t].mode = "writer" /\ session[t].gen = lease.gen
        /\ ~session[t].revoked /\ pass[session[t].pass].status # "revoked"
    BY <2>1 DEF Authority, LeaseHolderAuthoritative
  <2>3. session[t].pass \in Passes
    BY <2>2 DEF Authority, PassKnown
  <2> QED BY <1>1, <1>3, <2>1, <2>2, <2>3
<1>8. ReservationHonoured'
  <2> SUFFICES ASSUME NEW t \in Sessions, Reserved(t)'
               PROVE  lease'.holder = t /\ lease'.gen = auth'[t].gen
    BY DEF ReservationHonoured
  <2>1. Reserved(t) /\ session[t].pass # p /\ auth'[t].gen = auth[t].gen
    BY <1>1 DEF Reserved
  <2>2. lease.holder = t /\ lease.gen = auth[t].gen
    BY <2>1 DEF Authority, ReservationHonoured
  <2> QED BY <1>2, <2>1, <2>2
<1> QED BY <1>5, <1>6, <1>7, <1>8 DEF Authority

LEMMA IssueKeeps ==
  ASSUME Authority, TypeOK', NEW s \in Sessions, NEW delivered \in BOOLEAN,
         IssueOfflineAuthorization(s, delivered)
  PROVE  Authority'
<1>1. /\ session[s].mode = "writer" /\ ~session[s].revoked
      /\ lease.holder = s /\ lease.gen = session[s].gen
  BY DEF IssueOfflineAuthorization, AuthenticWriter, Authentic, HoldsLease
<1>2. auth'[s].gen = session[s].gen
  BY ExpireOverdueFacts DEF IssueOfflineAuthorization, ExpireOverdue, Authority, TypeOK
<1>3. \A t \in Sessions \ {s} : auth'[t].status # "active"
  BY DEF IssueOfflineAuthorization, ExpireOverdue, Authority, TypeOK
<1>4. UNCHANGED <<pass, lease>>
  BY DEF IssueOfflineAuthorization
<1>5. \A t \in Sessions :
        /\ session'[t].mode = session[t].mode /\ session'[t].pass = session[t].pass
        /\ session'[t].gen = session[t].gen /\ session'[t].revoked = session[t].revoked
  <2> TAKE t \in Sessions
  <2>1. session[t] \in SessionRow
    BY DEF Authority, TypeOK
  <2>2. session'[t] = IF t = s THEN [session[t] EXCEPT !.pending = FALSE] ELSE session[t]
    BY DEF IssueOfflineAuthorization, Authority, TypeOK
  <2> QED BY <2>1, <2>2 DEF SessionRow
<1>6. PassKnown' /\ GenerationGiven' /\ LeaseCounted' /\ LeaseIsNewest'
  BY <1>4, <1>5 DEF Authority, PassKnown, GenerationGiven, LeaseCounted, LeaseIsNewest
<1>7. LeaseHolderAuthoritative'
  BY <1>4, <1>5 DEF Authority, LeaseHolderAuthoritative
<1>8. AuthorizationCurrent'
  BY <1>1, <1>2, <1>3, <1>5 DEF AuthorizationCurrent
<1>9. OneActiveAuthorization'
  BY <1>3 DEF OneActiveAuthorization
<1>10. ReservationHonoured'
  BY <1>1, <1>2, <1>3, <1>4 DEF ReservationHonoured, Reserved
<1> QED BY <1>6, <1>7, <1>8, <1>9, <1>10 DEF Authority

LEMMA RevokeOfflineKeeps ==
  ASSUME Authority, TypeOK', NEW s \in Sessions, NEW preserve \in BOOLEAN,
         RevokeOfflineAuthorization(s, preserve)
  PROVE  Authority'
<1>1. auth[s].status = "active" /\ auth[s].gen = session[s].gen
  BY DEF RevokeOfflineAuthorization, Authority, AuthorizationCurrent
<1>2. /\ auth'[s].status = "revoked"
      /\ \A t \in Sessions \ {s} : auth'[t] = auth[t]
  BY DEF RevokeOfflineAuthorization, Authority, TypeOK, AuthRow
<1>3. \A t \in Sessions :
        /\ session'[t].mode = session[t].mode /\ session'[t].pass = session[t].pass
        /\ session'[t].gen = session[t].gen
        /\ t # s \/ preserve => session'[t].revoked = session[t].revoked
  <2> TAKE t \in Sessions
  <2>1. session[t] \in SessionRow
    BY DEF Authority, TypeOK
  <2>2. session'[t] = IF t = s /\ ~preserve
                      THEN [session[t] EXCEPT !.revoked = TRUE] ELSE session[t]
    BY DEF RevokeOfflineAuthorization, Authority, TypeOK
  <2> QED BY <2>1, <2>2 DEF SessionRow
<1>4. NoLease.holder = None /\ \A t \in Sessions : t # None
  BY SetsAssumption DEF NoLease
<1>5. pass' = pass /\ (lease' = lease \/ (lease' = NoLease /\ lease.holder = s))
  <2>1. pass' = pass
    BY DEF RevokeOfflineAuthorization
  <2> DEFINE ends == ~preserve /\ lease.holder = s /\ lease.gen = auth[s].gen
  <2>2. lease' = IF ends THEN NoLease ELSE lease
    BY DEF RevokeOfflineAuthorization
  <2>3. ends => lease.holder = s
    OBVIOUS
  <2> HIDE DEF ends
  <2> QED BY <2>1, <2>2, <2>3
<1>6. lease.holder = s /\ ~preserve => lease' = NoLease
  BY <1>1 DEF RevokeOfflineAuthorization, Authority, LeaseHolderAuthoritative
<1>7. PassKnown' /\ GenerationGiven' /\ LeaseCounted' /\ LeaseIsNewest'
  BY <1>3, <1>4, <1>5 DEF Authority, PassKnown, GenerationGiven, LeaseCounted, LeaseIsNewest
<1>8. LeaseHolderAuthoritative'
  <2> SUFFICES ASSUME NEW t \in Sessions, lease'.holder = t
               PROVE  /\ session'[t].mode = "writer" /\ session'[t].gen = lease'.gen
                      /\ ~session'[t].revoked /\ pass'[session'[t].pass].status # "revoked"
    BY DEF LeaseHolderAuthoritative
  <2>1. lease' = lease /\ (t # s \/ preserve)
    BY <1>4, <1>5, <1>6
  <2> QED BY <1>3, <1>5, <2>1 DEF Authority, LeaseHolderAuthoritative
<1>9. AuthorizationCurrent' /\ OneActiveAuthorization'
  BY <1>2, <1>3 DEF Authority, AuthorizationCurrent, OneActiveAuthorization
<1>10. ReservationHonoured'
  <2> SUFFICES ASSUME NEW t \in Sessions, Reserved(t)'
               PROVE  lease'.holder = t /\ lease'.gen = auth'[t].gen
    BY DEF ReservationHonoured
  <2>1. t # s /\ auth'[t] = auth[t]
    BY <1>2 DEF Reserved
  <2>2. lease.holder = t /\ lease.gen = auth[t].gen
    BY <2>1 DEF Reserved, Authority, ReservationHonoured
  <2> QED BY <1>5, <2>1, <2>2
<1> QED BY <1>7, <1>8, <1>9, <1>10 DEF Authority

\* What an approval writes: the request names the incumbent.
Handover(s) ==
  LET i == takeover[s].incumbent
      g == lease.gen + 1
  IN  /\ session' = [session EXCEPT ![i].mode = "transferred", ![s].mode = "writer",
                                    ![s].gen = g, ![s].beat = BeatTTL]
      /\ lease' = [holder |-> s, gen |-> g, ttl |-> Lesser(session[s].ttl, LeaseTTL)]
      /\ pass' = pass
      /\ auth' = IF Reserved(i) /\ auth[i].gen = lease.gen
                 THEN [auth EXCEPT ![i].status = "transferred"] ELSE auth

LEMMA ApproveEffects ==
  ASSUME NEW s \in Sessions, NEW ack \in BOOLEAN, ApproveTakeover(s, ack)
  PROVE  Handover(s)
<1>1. session' = [session EXCEPT ![takeover[s].incumbent].mode = "transferred",
                                 ![s].mode = "writer", ![s].gen = lease.gen + 1,
                                 ![s].beat = BeatTTL]
  BY DEF ApproveTakeover
<1>2. lease' = [holder |-> s, gen |-> lease.gen + 1, ttl |-> Lesser(session[s].ttl, LeaseTTL)]
  BY DEF ApproveTakeover
<1>3. auth' = IF Reserved(takeover[s].incumbent) /\ auth[takeover[s].incumbent].gen = lease.gen
              THEN [auth EXCEPT ![takeover[s].incumbent].status = "transferred"] ELSE auth
  BY DEF ApproveTakeover
<1>4. pass' = pass
  BY DEF ApproveTakeover
<1> QED BY <1>1, <1>2, <1>3, <1>4 DEF Handover

LEMMA ApproveKeeps ==
  ASSUME Authority, TypeOK', NEW s \in Sessions, NEW ack \in BOOLEAN,
         ApproveTakeover(s, ack)
  PROVE  Authority'
<1> DEFINE i == takeover[s].incumbent
           g == lease.gen + 1
<1>1. i \in Sessions /\ lease.holder = i
  BY DEF ApproveTakeover, Approvable
<1>2. /\ session[s].mode = "candidate" /\ ~session[s].revoked
      /\ pass[session[s].pass].status = "live"
  BY DEF ApproveTakeover, Approvable, LivePass
<1>3. /\ session[i].mode = "writer" /\ session[i].gen = lease.gen
      /\ i # s /\ lease.gen > 0 /\ lease.gen \in Nat /\ session[s].pass \in Passes
  BY <1>1, <1>2, SetsAssumption
     DEF Authority, LeaseHolderAuthoritative, LeaseCounted, TypeOK, LeaseRow, PassKnown
<1>a. Handover(s)
  BY ApproveEffects
<1>4. /\ session' = [session EXCEPT ![i].mode = "transferred", ![s].mode = "writer",
                                    ![s].gen = g, ![s].beat = BeatTTL]
      /\ lease'.holder = s /\ lease'.gen = g /\ pass' = pass
      /\ auth' = IF Reserved(i) /\ auth[i].gen = lease.gen
                 THEN [auth EXCEPT ![i].status = "transferred"] ELSE auth
  BY <1>a DEF Handover
<1> HIDE DEF i
<1>5. \A t \in Sessions :
        /\ session'[t].mode = IF t = i THEN "transferred" ELSE IF t = s THEN "writer"
                              ELSE session[t].mode
        /\ session'[t].gen = IF t = s THEN g ELSE session[t].gen
        /\ session'[t].pass = session[t].pass
        /\ session'[t].revoked = session[t].revoked
  <2> TAKE t \in Sessions
  <2>1. session[t] \in SessionRow
    BY DEF Authority, TypeOK
  <2>2. session'[t] =
          IF t = i THEN [session[t] EXCEPT !.mode = "transferred"]
          ELSE IF t = s THEN [session[t] EXCEPT !.mode = "writer", !.gen = g, !.beat = BeatTTL]
          ELSE session[t]
    BY <1>1, <1>3, <1>4 DEF Authority, TypeOK
  <2> QED BY <1>3, <2>1, <2>2 DEF SessionRow
<1>6. \A t \in Sessions : ~Reserved(t)'
  <2> SUFFICES ASSUME NEW t \in Sessions, Reserved(t)' PROVE FALSE
    OBVIOUS
  <2>1. Reserved(t) /\ auth'[t].gen = auth[t].gen
    BY <1>1, <1>4 DEF Reserved, Authority, TypeOK, AuthRow
  <2>2. t = i /\ auth[i].gen = lease.gen
    BY <1>1, <2>1 DEF Authority, ReservationHonoured
  <2>3. auth'[i].status = "transferred"
    BY <1>1, <1>4, <2>1, <2>2 DEF Authority, TypeOK, AuthRow
  <2> QED BY <2>2, <2>3 DEF Reserved
<1>7. \A t \in Sessions : auth'[t].status = "active" =>
        auth[t].status = "active" /\ auth'[t].gen = auth[t].gen
  BY <1>1, <1>4 DEF Authority, TypeOK, AuthRow
<1>8. PassKnown' /\ GenerationGiven' /\ LeaseCounted'
  <2>1. session[i].pass \in Passes
    BY <1>1, <1>3 DEF Authority, PassKnown
  <2>2. PassKnown'
    BY <1>3, <1>5, <2>1 DEF Authority, PassKnown
  <2>3. GenerationGiven'
    BY <1>5 DEF Authority, GenerationGiven
  <2>4. LeaseCounted'
    BY <1>3, <1>4 DEF LeaseCounted
  <2> QED BY <2>2, <2>3, <2>4
<1>9. LeaseHolderAuthoritative'
  <2>1. /\ session'[s].mode = "writer" /\ session'[s].gen = g
        /\ session'[s].pass = session[s].pass /\ ~session'[s].revoked
    BY <1>2, <1>3, <1>5
  <2>2. pass'[session'[s].pass].status # "revoked"
    BY <1>2, <1>4, <2>1
  <2> QED BY <1>4, <2>1, <2>2 DEF LeaseHolderAuthoritative
<1>10. LeaseIsNewest'
  <2> SUFFICES ASSUME NEW t \in Sessions, t # s PROVE session'[t].gen < g
    BY <1>4 DEF LeaseIsNewest
  <2>1. session[t].gen <= lease.gen /\ session[t].gen \in Nat
    BY <1>1, <1>3, SetsAssumption DEF Authority, LeaseIsNewest, TypeOK, SessionRow
  <2> QED BY <1>3, <1>5, <2>1
<1>11. AuthorizationCurrent'
  BY <1>2, <1>5, <1>7 DEF Authority, AuthorizationCurrent
<1>12. OneActiveAuthorization'
  BY <1>7 DEF Authority, OneActiveAuthorization
<1>13. ReservationHonoured'
  BY <1>6 DEF ReservationHonoured
<1> QED BY <1>8, <1>9, <1>10, <1>11, <1>12, <1>13 DEF Authority

\* A step is one of five that decide who holds the match, or steady.
Deciding ==
  \/ \E p \in Passes : RevokeAccessPass(p)
  \/ \E s \in Sessions, p \in Passes, d \in Devices : ExchangeAccess(s, p, d)
  \/ \E s \in Sessions, ack \in BOOLEAN : ApproveTakeover(s, ack)
  \/ \E s \in Sessions, delivered \in BOOLEAN : IssueOfflineAuthorization(s, delivered)
  \/ \E s \in Sessions, preserve \in BOOLEAN : RevokeOfflineAuthorization(s, preserve)

LEMMA StepCases == Authority /\ [Next]_vars => Steady \/ Deciding
<1> SUFFICES ASSUME Authority, [Next]_vars PROVE Steady \/ Deciding
  OBVIOUS
<1>a. \A s \in Sessions : /\ kit[s].queue \in BOOLEAN
                           /\ session[s].pending \in BOOLEAN /\ session[s].ttl \in Nat
  BY DEF Authority, TypeOK, Kit, SessionRow
<1>1. ASSUME NEW p \in Passes, CreateAccessPass(p) PROVE Steady
  <2>1. UNCHANGED <<session, lease, auth>>
    BY <1>1 DEF CreateAccessPass
  <2>2. \A q \in Passes : pass'[q].status = "revoked" => pass[q].status = "revoked"
    BY <1>1 DEF CreateAccessPass, Authority, TypeOK
  <2> QED BY <2>1, <2>2 DEF Steady, Authority, TypeOK, AuthRow
<1>2. ASSUME NEW s \in Sessions, Heartbeat(s) PROVE Steady
  <2>1. UNCHANGED <<pass, auth>> /\ lease'.holder = lease.holder /\ lease'.gen = lease.gen
    BY <1>2 DEF Heartbeat, Authority, TypeOK, LeaseRow
  <2>2. session' = [session EXCEPT ![s].ttl = Lesser(pass[session[s].pass].ttl, SessionTTL),
                                   ![s].beat = BeatTTL, ![s].pending = kit[s].queue]
    BY <1>2 DEF Heartbeat
  <2>3. pass[session[s].pass].ttl \in Nat
    BY <1>2 DEF Heartbeat, Authentic, Authority, PassKnown, TypeOK, PassRow
  <2>4. Lesser(pass[session[s].pass].ttl, SessionTTL) \in Nat
    BY <2>3, LesserFacts, TimesAssumption
  <2> QED BY <1>a, <2>1, <2>2, <2>4, BeatenSteady
<1>3. ASSUME NEW s \in Sessions, NEW replayed \in BOOLEAN, AppendScoreEvent(s, replayed)
      PROVE  Steady
  <2>1. UNCHANGED <<pass, auth>> /\ lease'.holder = lease.holder /\ lease'.gen = lease.gen
    BY <1>3 DEF AppendScoreEvent, Authority, TypeOK, LeaseRow
  <2>2. session' = [session EXCEPT ![s].ttl = session[s].ttl, ![s].beat = BeatTTL,
                                   ![s].pending = session[s].pending]
    BY <1>3 DEF AppendScoreEvent, Authority, TypeOK, SessionRow
  <2> QED BY <1>a, <2>1, <2>2, BeatenSteady
<1>4. ASSUME NEW s \in Sessions, NEW replayed \in BOOLEAN, Finalise(s, replayed)
      PROVE  Steady
  BY <1>4, RestSteady DEF Finalise
<1>5. ASSUME ReopenMatch PROVE Steady
  BY <1>5, RestSteady DEF ReopenMatch
<1>6. ASSUME CorrectMatch PROVE Steady
  BY <1>6, RestSteady DEF CorrectMatch
<1>7. ASSUME NEW s \in Sessions, RequestTakeover(s) PROVE Steady
  <2>1. UNCHANGED <<pass, auth, lease>>
    BY <1>7 DEF RequestTakeover
  <2>2. session' = [session EXCEPT ![s].ttl = session[s].ttl, ![s].beat = BeatTTL,
                                   ![s].pending = kit[s].queue]
    BY <1>7 DEF RequestTakeover, Authority, TypeOK, SessionRow
  <2> QED BY <1>a, <2>1, <2>2, BeatenSteady
<1>8. ASSUME NEW late, ExpireTakeovers(late) PROVE Steady
  BY <1>8, RestSteady DEF ExpireTakeovers
<1>9. ASSUME NEW s \in Sessions, DenyTakeover(s) PROVE Steady
  BY <1>9, RestSteady DEF DenyTakeover
<1>10. ASSUME NEW s \in Sessions, ResumeOfflineAuthorization(s) PROVE Steady
  <2>1. UNCHANGED <<pass, auth>> /\ lease'.holder = s /\ lease'.gen = auth[s].gen /\ Reserved(s)
    BY <1>10 DEF ResumeOfflineAuthorization
  <2>2. lease.holder = s /\ lease.gen = auth[s].gen
    BY <2>1 DEF Authority, ReservationHonoured
  <2> DEFINE window == Lesser(pass[session[s].pass].ttl, auth[s].replay)
             ttl == Lesser(window, SessionTTL)
  <2>3. session' = [session EXCEPT ![s].ttl = ttl, ![s].beat = BeatTTL,
                                   ![s].pending = kit[s].queue]
    BY <1>10 DEF ResumeOfflineAuthorization
  <2>4. pass[session[s].pass].ttl \in Nat /\ auth[s].replay \in Nat
    BY <1>10 DEF ResumeOfflineAuthorization, Authority, PassKnown, TypeOK, PassRow, AuthRow
  <2>5. window \in Nat
    BY <2>4, LesserFacts
  <2>6. ttl \in Nat
    BY <2>5, LesserFacts, TimesAssumption
  <2> HIDE DEF ttl
  <2> QED BY <1>a, <2>1, <2>2, <2>3, <2>6, BeatenSteady
<1>11. ASSUME NEW s \in Sessions, ResumeTooLate(s) PROVE Steady
  <2>1. UNCHANGED <<pass, session, lease>>
    BY <1>11 DEF ResumeTooLate
  <2>2. \A t \in Sessions :
          /\ auth'[t].status = "active" => auth[t].status = "active"
          /\ auth'[t].gen = auth[t].gen /\ auth'[t].replay = auth[t].replay
    BY <1>11 DEF ResumeTooLate, Authority, TypeOK, AuthRow
  <2> QED BY <2>1, <2>2 DEF Steady, Authority, TypeOK, AuthRow
<1>12. ASSUME NEW s \in Sessions, RecordOffline(s) PROVE Steady
  BY <1>12, RestSteady DEF RecordOffline
<1>13. ASSUME Tick PROVE Steady
  <2>1. lease'.holder = lease.holder /\ lease'.gen = lease.gen
    BY <1>13 DEF Tick, Authority, TypeOK, LeaseRow
  <2>2. \A p \in Passes : pass'[p].status = pass[p].status
    BY <1>13 DEF Tick, Authority, TypeOK, PassRow
  <2>3. ASSUME NEW t \in Sessions
        PROVE  /\ session'[t].mode = session[t].mode /\ session'[t].pass = session[t].pass
               /\ session'[t].device = session[t].device
               /\ session'[t].gen = session[t].gen /\ session'[t].revoked = session[t].revoked
    <3>1. session[t] \in SessionRow
      BY DEF Authority, TypeOK
    <3>2. session'[t] = [session[t] EXCEPT !.ttl = Elapsed(session[t].ttl),
                                           !.beat = Elapsed(session[t].beat)]
      BY <1>13 DEF Tick
    <3> QED BY <3>1, <3>2 DEF SessionRow
  <2>4. ASSUME NEW t \in Sessions
        PROVE  /\ auth'[t].status = auth[t].status /\ auth'[t].gen = auth[t].gen
               /\ auth'[t].replay <= auth[t].replay
    <3>1. auth[t] \in AuthRow
      BY DEF Authority, TypeOK
    <3>2. auth'[t] = [auth[t] EXCEPT !.rec = Elapsed(auth[t].rec),
                                     !.replay = Elapsed(auth[t].replay)]
      BY <1>13 DEF Tick
    <3> QED BY <3>1, <3>2, ElapsedFacts DEF AuthRow
  <2> QED BY <2>1, <2>2, <2>3, <2>4 DEF Steady
<1>14. ASSUME UNCHANGED vars PROVE Steady
  BY <1>14, RestSteady DEF vars
<1> QED
  BY <1>1, <1>2, <1>3, <1>4, <1>5, <1>6, <1>7, <1>8, <1>9, <1>10, <1>11, <1>12,
     <1>13, <1>14 DEF Next, ExpireTakeoverRequests, Deciding

LEMMA AuthorityStep == Authority /\ [Next]_vars => Authority'
<1> SUFFICES ASSUME Authority, [Next]_vars PROVE Authority'
  OBVIOUS
<1>1. TypeOK'
  BY TypeStep DEF Authority
<1>2. CASE Steady
  BY <1>1, <1>2, SteadyKeeps
<1>3. CASE Deciding
  BY <1>1, <1>3, RevokePassKeeps, ExchangeKeeps, ApproveKeeps, IssueKeeps, RevokeOfflineKeeps
     DEF Deciding
<1> QED BY <1>2, <1>3, StepCases

(***************************************************************************)
(* In every execution Authority holds.                                     *)
(***************************************************************************)
THEOREM AuthorityHolds == Spec => []Authority
  BY AuthorityInit, AuthorityStep, PTL DEF Spec

(***************************************************************************)
(* Every row the handlers write has the shape its table asks for, for all  *)
(* lifetimes and any number of sessions.                                   *)
(***************************************************************************)
THEOREM TypesCorrect == Spec => []TypeOK
<1>1. Authority => TypeOK
  BY DEF Authority
<1> QED BY <1>1, AuthorityHolds, PTL

(***************************************************************************)
(* No path leaves the lease with a session that lost its rights.           *)
(***************************************************************************)
THEOREM HolderStaysAuthoritative == Spec => []LeaseHolderAuthoritative
<1>1. Authority => LeaseHolderAuthoritative
  BY DEF Authority
<1> QED BY <1>1, AuthorityHolds, PTL

(***************************************************************************)
(* The match is kept for a device that may still replay.                   *)
(***************************************************************************)
THEOREM PlaceIsKept == Spec => []ReservationHonoured
<1>1. Authority => ReservationHonoured
  BY DEF Authority
<1> QED BY <1>1, AuthorityHolds, PTL

(***************************************************************************)
(* The unique index over active authorizations of a match never aborts a   *)
(* handler.                                                                *)
(***************************************************************************)
THEOREM AuthorizationIsUnique == Spec => []OneActiveAuthorization
<1>1. Authority => OneActiveAuthorization
  BY DEF Authority
<1> QED BY <1>1, AuthorityHolds, PTL

(***************************************************************************)
(* The lease always carries the newest generation of the match, however    *)
(* exchanges, takeovers and resumes interleave.                            *)
(***************************************************************************)
THEOREM LeaseStaysNewest == Spec => []LeaseIsNewest
<1>1. Authority => LeaseIsNewest
  BY DEF Authority
<1> QED BY <1>1, AuthorityHolds, PTL
=============================================================================
