----------------------- MODULE ScoringHandoverProofs -----------------------
(***************************************************************************)
(* Proofs about ScoringAccess that rest on Authority: the fence of         *)
(* canonical events, the handover of a match, the lifetime of a pass as    *)
(* the limit of what was obtained with it, and what a device may hold that *)
(* the server was not told of when the match goes to another.              *)
(***************************************************************************)
EXTENDS ScoringAccessProofs

----------------------------------------------------------------------------
(* The fence.                                                              *)

\* The generation of the last event was given to some session.
FenceIssued == fence = 0 \/ \E s \in Sessions : fence <= session[s].gen

\* An event carries the generation of the lease and of its holder.
FenceKept == fence' = fence

FenceSet == \E s \in Sessions : lease.holder = s /\ fence' = session[s].gen

LEMMA FenceCases == [Next]_vars => FenceKept \/ FenceSet
<1> SUFFICES ASSUME [Next]_vars PROVE FenceKept \/ FenceSet
  OBVIOUS
<1>1. ASSUME NEW p \in Passes, CreateAccessPass(p) \/ RevokeAccessPass(p) PROVE FenceKept
  BY <1>1 DEF CreateAccessPass, RevokeAccessPass, FenceKept
<1>2. ASSUME NEW s \in Sessions, NEW p \in Passes, NEW d \in Devices, ExchangeAccess(s, p, d)
      PROVE  FenceKept
  BY <1>2 DEF ExchangeAccess, FenceKept
<1>3. ASSUME NEW s \in Sessions, Heartbeat(s) \/ RequestTakeover(s) \/ DenyTakeover(s)
      PROVE  FenceKept
  BY <1>3 DEF Heartbeat, RequestTakeover, DenyTakeover, FenceKept
<1>4. ASSUME NEW s \in Sessions, NEW replayed \in BOOLEAN,
             AppendScoreEvent(s, replayed) \/ Finalise(s, replayed)
      PROVE  FenceSet
  BY <1>4 DEF AppendScoreEvent, Finalise, WriterGuard, AuthenticWriter, HoldsLease, FenceSet
<1>5. ASSUME ReopenMatch \/ CorrectMatch PROVE FenceKept
  BY <1>5 DEF ReopenMatch, CorrectMatch, FenceKept
<1>6. ASSUME NEW late, ExpireTakeovers(late) PROVE FenceKept
  BY <1>6 DEF ExpireTakeovers, FenceKept
<1>7. ASSUME NEW s \in Sessions, NEW ack \in BOOLEAN, ApproveTakeover(s, ack) PROVE FenceKept
  BY <1>7 DEF ApproveTakeover, FenceKept
<1>8. ASSUME NEW s \in Sessions, NEW choice \in BOOLEAN,
             \/ IssueOfflineAuthorization(s, choice)
             \/ RevokeOfflineAuthorization(s, choice)
      PROVE  FenceKept
  BY <1>8 DEF IssueOfflineAuthorization, RevokeOfflineAuthorization, FenceKept
<1>9. ASSUME NEW s \in Sessions,
             ResumeOfflineAuthorization(s) \/ ResumeTooLate(s) \/ RecordOffline(s)
      PROVE  FenceKept
  BY <1>9 DEF ResumeOfflineAuthorization, ResumeTooLate, RecordOffline, FenceKept
<1>10. ASSUME Tick \/ UNCHANGED vars PROVE FenceKept
  BY <1>10 DEF Tick, vars, FenceKept
<1> HIDE DEF FenceKept, FenceSet
<1> QED
  BY <1>1, <1>2, <1>3, <1>4, <1>5, <1>6, <1>7, <1>8, <1>9, <1>10
     DEF Next, ExpireTakeoverRequests

\* A session's generation is given once and never taken back.
LEMMA GenerationsGrow ==
  ASSUME Authority, [Next]_vars, NEW t \in Sessions
  PROVE  session[t].gen <= session'[t].gen
<1>a. session[t].gen \in Nat /\ lease.gen \in Nat
  BY DEF Authority, TypeOK, SessionRow, LeaseRow
<1>1. CASE Steady
  BY <1>a, <1>1 DEF Steady
<1>2. ASSUME NEW p \in Passes, RevokeAccessPass(p) PROVE session'[t].gen = session[t].gen
  BY <1>2 DEF RevokeAccessPass, Authority, TypeOK, SessionRow
<1>3. ASSUME NEW s \in Sessions, NEW p \in Passes, NEW d \in Devices, ExchangeAccess(s, p, d)
      PROVE  session[t].gen <= session'[t].gen
  <2>1. CASE s # t
    BY <1>3, <1>a, <2>1
       DEF ExchangeAccess, ExchangeAsWriter, ExchangeReadOnly, NewSession, Authority, TypeOK
  <2>2. CASE s = t
    <3>1. session[t].gen = 0
      BY <1>3, <2>2 DEF ExchangeAccess, Authority, GenerationGiven
    <3>2. session'[t].gen \in Nat
      BY <1>3, TypeStep DEF Authority, TypeOK, SessionRow
    <3> QED BY <3>1, <3>2
  <2> QED BY <2>1, <2>2
<1>4. ASSUME NEW s \in Sessions, NEW ack \in BOOLEAN, ApproveTakeover(s, ack)
      PROVE  session[t].gen <= session'[t].gen
  <2> PICK i \in Sessions :
         session' = [session EXCEPT ![i].mode = "transferred", ![s].mode = "writer",
                                    ![s].gen = lease.gen + 1, ![s].beat = BeatTTL]
    BY <1>4 DEF ApproveTakeover
  <2>1. CASE s # t
    BY <1>a, <2>1 DEF Authority, TypeOK, SessionRow
  <2>2. CASE s = t
    <3>1. session[t].gen = 0
      BY <1>4, <2>2 DEF ApproveTakeover, Approvable, Authority, GenerationGiven
    <3>2. session'[t].gen \in Nat
      BY <1>4, TypeStep DEF Authority, TypeOK, SessionRow
    <3> QED BY <3>1, <3>2
  <2> QED BY <2>1, <2>2
<1>5. ASSUME NEW s \in Sessions, NEW delivered \in BOOLEAN,
             IssueOfflineAuthorization(s, delivered)
      PROVE  session'[t].gen = session[t].gen
  <2>1. session' = [session EXCEPT ![s].pending = FALSE]
    BY <1>5 DEF IssueOfflineAuthorization
  <2> QED BY <2>1 DEF Authority, TypeOK, SessionRow
<1>6. ASSUME NEW s \in Sessions, NEW preserve \in BOOLEAN,
             RevokeOfflineAuthorization(s, preserve)
      PROVE  session'[t].gen = session[t].gen
  <2>1. session' = session \/ session' = [session EXCEPT ![s].revoked = TRUE]
    BY <1>6 DEF RevokeOfflineAuthorization
  <2> QED BY <2>1 DEF Authority, TypeOK, SessionRow
<1> QED
  BY <1>a, <1>1, <1>2, <1>3, <1>4, <1>5, <1>6, StepCases DEF Deciding

LEMMA FenceStep ==
  ASSUME Authority, FenceIssued, fence \in Nat, [Next]_vars
  PROVE  FenceIssued' /\ fence <= fence'
<1>1. CASE FenceKept
  <2>1. fence' = fence
    BY <1>1 DEF FenceKept
  <2>2. CASE fence = 0
    BY <2>1, <2>2 DEF FenceIssued
  <2>3. ASSUME NEW s \in Sessions, fence <= session[s].gen PROVE FenceIssued'
    <3>1. session[s].gen \in Nat /\ session'[s].gen \in Nat
      BY TypeStep DEF Authority, TypeOK, SessionRow
    <3>2. fence' <= session'[s].gen
      BY <2>1, <2>3, <3>1, GenerationsGrow
    <3> QED BY <3>2 DEF FenceIssued
  <2> QED BY <2>1, <2>2, <2>3 DEF FenceIssued
<1>2. CASE FenceSet
  <2> PICK s \in Sessions : lease.holder = s /\ fence' = session[s].gen
    BY <1>2 DEF FenceSet
  <2>1. \A t \in Sessions : session[t].gen \in Nat /\ session[t].gen <= session[s].gen
    BY SetsAssumption
       DEF Authority, TypeOK, SessionRow, LeaseIsNewest, LeaseHolderAuthoritative
  <2>2. fence <= fence'
    BY <2>1 DEF FenceIssued
  <2>3. session'[s].gen \in Nat
    BY TypeStep DEF Authority, TypeOK, SessionRow
  <2>4. fence' <= session'[s].gen
    BY <2>1, <2>3, GenerationsGrow
  <2> QED BY <2>2, <2>4 DEF FenceIssued
<1> QED BY <1>1, <1>2, FenceCases

(***************************************************************************)
(* No event of a fenced-off writer follows one of its successor: the       *)
(* writer generations of accepted events never decrease.                   *)
(***************************************************************************)
THEOREM FenceNeverFalls == Spec => EventsFenced
<1>1. Init => FenceIssued
  BY DEF Init, FenceIssued
<1>2. Authority => fence \in Nat
  BY DEF Authority, TypeOK
<1>3. Authority /\ FenceIssued /\ [Next]_vars => FenceIssued'
  BY <1>2, FenceStep
<1>4. Authority /\ FenceIssued /\ [Next]_vars => [fence' >= fence]_vars
  BY <1>2, FenceStep
<1> QED
  BY <1>1, <1>3, <1>4, AuthorityHolds, PTL DEF Spec, EventsFenced

----------------------------------------------------------------------------
(* The handover.                                                           *)

\* What the property asks of a step at which the lease passes from s to t.
Approved(s, t) ==
  /\ session'[s].mode = "transferred"
  /\ takeover[t].status = "pending" /\ takeover[t].incumbent = s

\* An incumbent with its rights binds the match, lapsed or not: an exchange
\* gives the lease only to a session of the same device.
LEMMA ExchangeKeepsDevice ==
  ASSUME Authority, NEW r \in Sessions, NEW p \in Passes, NEW d \in Devices,
         ExchangeAccess(r, p, d),
         NEW s \in Sessions, NEW t \in Sessions, lease.holder = s, lease'.holder = t
  PROVE  session'[t].device = session[s].device
<1>1. session[s].mode = "writer"
  BY DEF Authority, LeaseHolderAuthoritative
<1>2. session[r].mode = "unused"
  BY DEF ExchangeAccess
<1>3. CASE ExchangeAsWriter(r, p, d)
  <2>1. IncumbentBinds
    BY DEF Authority, LeaseHolderAuthoritative, IncumbentBinds
  <2>2. session[s].device = d
    BY <1>3, <2>1 DEF ExchangeAsWriter, WriterReserved
  <2>3. t = r /\ session'[r].device = d
    BY <1>3 DEF ExchangeAsWriter, NewSession, Authority, TypeOK
  <2> QED BY <2>2, <2>3
<1>4. CASE ExchangeReadOnly(r, p, d)
  <2>1. t = s /\ s # r
    BY <1>1, <1>2, <1>4 DEF ExchangeReadOnly
  <2> QED BY <1>4, <2>1 DEF ExchangeReadOnly, NewSession, Authority, TypeOK
<1> QED BY <1>3, <1>4 DEF ExchangeAccess

LEMMA ApprovalTransfers ==
  ASSUME Authority, NEW r \in Sessions, NEW ack \in BOOLEAN, ApproveTakeover(r, ack),
         NEW s \in Sessions, NEW t \in Sessions, lease.holder = s, lease'.holder = t
  PROVE  Approved(s, t)
<1>a. Handover(r)
  BY ApproveEffects
<1>1. t = r
  BY <1>a DEF Handover
<1>2. /\ takeover[r].status = "pending" /\ takeover[r].incumbent = s
      /\ session[r].mode = "candidate"
  BY DEF ApproveTakeover, Approvable
<1>3. s # r
  BY <1>2 DEF Authority, LeaseHolderAuthoritative
<1>4. session' = [session EXCEPT ![s].mode = "transferred", ![r].mode = "writer",
                                 ![r].gen = lease.gen + 1, ![r].beat = BeatTTL]
  BY <1>a, <1>2 DEF Handover
<1>5. session'[s].mode = "transferred"
  BY <1>3, <1>4 DEF Authority, TypeOK, SessionRow
<1> QED BY <1>1, <1>2, <1>5 DEF Approved

LEMMA HandoverStep ==
  ASSUME Authority, [Next]_vars, NEW s \in Sessions, NEW t \in Sessions,
         lease.holder = s, lease'.holder = t, session[s].device # session'[t].device
  PROVE  Approved(s, t)
<1>1. ~Steady
  BY DEF Steady
<1>2. ASSUME NEW p \in Passes, RevokeAccessPass(p) PROVE FALSE
  <2>1. t = s
    BY <1>2, SetsAssumption DEF RevokeAccessPass, NoLease
  <2>2. session'[s].device = session[s].device
    BY <1>2 DEF RevokeAccessPass, Authority, TypeOK, SessionRow
  <2> QED BY <2>1, <2>2
<1>3. ASSUME NEW r \in Sessions, NEW p \in Passes, NEW d \in Devices, ExchangeAccess(r, p, d)
      PROVE  FALSE
  BY <1>3, ExchangeKeepsDevice
<1>4. ASSUME NEW r \in Sessions, NEW ack \in BOOLEAN, ApproveTakeover(r, ack)
      PROVE  Approved(s, t)
  BY <1>4, ApprovalTransfers
<1>5. ASSUME NEW r \in Sessions, NEW delivered \in BOOLEAN,
             IssueOfflineAuthorization(r, delivered)
      PROVE  FALSE
  <2>1. lease' = lease /\ session' = [session EXCEPT ![r].pending = FALSE]
    BY <1>5 DEF IssueOfflineAuthorization
  <2>2. session'[s].device = session[s].device
    BY <2>1 DEF Authority, TypeOK, SessionRow
  <2> QED BY <2>1, <2>2
<1>6. ASSUME NEW r \in Sessions, NEW preserve \in BOOLEAN,
             RevokeOfflineAuthorization(r, preserve)
      PROVE  FALSE
  <2>1. t = s
    BY <1>6, SetsAssumption DEF RevokeOfflineAuthorization, NoLease
  <2>2. session' = session \/ session' = [session EXCEPT ![r].revoked = TRUE]
    BY <1>6 DEF RevokeOfflineAuthorization
  <2>3. session'[s].device = session[s].device
    BY <2>2 DEF Authority, TypeOK, SessionRow
  <2> QED BY <2>1, <2>3
<1> QED
  BY <1>1, <1>2, <1>3, <1>4, <1>5, <1>6, StepCases DEF Deciding

(***************************************************************************)
(* A match passes to another device only with the organiser's approval of  *)
(* a request against its holder, however long the holder was silent.       *)
(***************************************************************************)
THEOREM HandoverIsApproved == Spec => HandoverNeedsApproval
<1>1. Authority /\ [Next]_vars =>
        \A s, t \in Sessions :
          /\ lease.holder = s /\ lease'.holder = t
          /\ session[s].device # session'[t].device
          => /\ session'[s].mode = "transferred"
             /\ takeover[t].status = "pending" /\ takeover[t].incumbent = s
  BY HandoverStep DEF Approved
<1> QED
  BY <1>1, AuthorityHolds, PTL DEF Spec, HandoverNeedsApproval

----------------------------------------------------------------------------
(* Deadlines.  What is bounded by the pass of a session.                   *)

Bounded(s) ==
  \A p \in Passes : session[s].pass = p =>
    /\ session[s].ttl <= pass[p].ttl
    /\ lease.holder = s => lease.ttl <= pass[p].ttl
    /\ auth[s].replay <= pass[p].ttl
    /\ auth[s].rec <= auth[s].replay

\* A session starts without an authorization, a pass without time.
NothingEarly ==
  /\ \A s \in Sessions : session[s].mode = "unused" => auth[s].replay = 0 /\ auth[s].rec = 0
  /\ \A p \in Passes : pass[p].status = "unissued" => pass[p].ttl = 0

WithinPass == (\A s \in Sessions : Bounded(s)) /\ NothingEarly

LEMMA ElapsedMonotone ==
  ASSUME NEW a \in Nat, NEW b \in Nat, a <= b
  PROVE  Elapsed(a) <= Elapsed(b)
  BY DEF Elapsed

\* The fields deadlines are kept in hold natural numbers.
LEMMA TimesTyped ==
  ASSUME TypeOK, NEW s \in Sessions
  PROVE  /\ session[s].ttl \in Nat /\ session[s].beat \in Nat
         /\ auth[s].rec \in Nat /\ auth[s].replay \in Nat
         /\ lease.ttl \in Nat /\ \A p \in Passes : pass[p].ttl \in Nat
  BY DEF TypeOK, SessionRow, AuthRow, LeaseRow, PassRow

\* A step that moves no deadline, and takes the lease from nobody or away.
Unhurried ==
  /\ \A s \in Sessions :
       /\ session'[s].mode = session[s].mode
       /\ session'[s].pass = session[s].pass
       /\ session'[s].ttl = session[s].ttl
       /\ auth'[s].rec = auth[s].rec /\ auth'[s].replay = auth[s].replay
  /\ \A p \in Passes :
       /\ pass'[p].ttl = pass[p].ttl
       /\ pass'[p].status = "unissued" => pass[p].status = "unissued"
  /\ \/ lease'.holder = lease.holder /\ lease'.ttl = lease.ttl
     \/ lease' = NoLease

LEMMA UnhurriedKeeps ==
  ASSUME WithinPass, Unhurried
  PROVE  WithinPass'
<1>1. ASSUME NEW s \in Sessions PROVE Bounded(s)'
  BY SetsAssumption DEF WithinPass, Bounded, Unhurried, NoLease
<1>2. NothingEarly'
  BY DEF WithinPass, NothingEarly, Unhurried
<1> QED BY <1>1, <1>2 DEF WithinPass

\* A step that writes no pass and no authorization, and moves at most the
\* deadlines of one session and its lease.
LEMMA OneSessionKeeps ==
  ASSUME Authority, WithinPass, NEW s \in Sessions, UNCHANGED pass,
         session[s].mode # "unused",
         \A t \in Sessions \ {s} :
           /\ session'[t].pass = session[t].pass /\ session'[t].ttl = session[t].ttl
           /\ session'[t].mode = "unused" => session[t].mode = "unused",
         session'[s].pass = session[s].pass, session'[s].mode # "unused",
         session'[s].ttl <= pass[session[s].pass].ttl,
         \A t \in Sessions : auth'[t].rec = auth[t].rec /\ auth'[t].replay = auth[t].replay,
         \/ lease'.holder = s /\ lease'.ttl <= pass[session[s].pass].ttl
         \/ UNCHANGED lease
  PROVE  WithinPass'
<1>1. Bounded(s)'
  BY DEF WithinPass, Bounded
<1>2. ASSUME NEW t \in Sessions, t # s PROVE Bounded(t)'
  BY <1>2 DEF WithinPass, Bounded
<1>3. NothingEarly'
  BY DEF WithinPass, NothingEarly
<1> QED BY <1>1, <1>2, <1>3 DEF WithinPass

LEMMA WithinPassInit == Init => WithinPass
  BY SetsAssumption DEF Init, WithinPass, Bounded, NothingEarly, NoLease

LEMMA ExchangeWithin ==
  ASSUME Authority, WithinPass, NEW s \in Sessions, NEW p \in Passes, NEW d \in Devices,
         ExchangeAccess(s, p, d)
  PROVE  WithinPass'
<1> DEFINE ttl == Lesser(pass[p].ttl, SessionTTL)
<1>a. pass[p].ttl \in Nat
  BY TimesTyped DEF Authority
<1>b. ttl \in Nat /\ ttl <= pass[p].ttl
  BY <1>a, LesserFacts, TimesAssumption
<1>c. Lesser(ttl, LeaseTTL) \in Nat /\ Lesser(ttl, LeaseTTL) <= ttl
  BY <1>b, LesserFacts, TimesAssumption
<1> HIDE DEF ttl
<1>d. /\ session[s].mode = "unused" /\ UNCHANGED pass
      /\ \A t \in Sessions : auth'[t].rec = auth[t].rec /\ auth'[t].replay = auth[t].replay
  <2>1. \A t \in Sessions : /\ ExpireOverdue[t].rec = auth[t].rec
                            /\ ExpireOverdue[t].replay = auth[t].replay
    BY DEF ExpireOverdue, Authority, TypeOK, AuthRow
  <2> QED BY <2>1 DEF ExchangeAccess
<1>e. \A t \in Sessions \ {s} : session'[t] = session[t]
  BY DEF ExchangeAccess, ExchangeAsWriter, ExchangeReadOnly, NewSession, Authority, TypeOK
<1>f. session'[s].pass = p /\ session'[s].ttl = ttl /\ session'[s].mode # "unused"
  BY DEF ExchangeAccess, ExchangeAsWriter, ExchangeReadOnly, NewSession, Authority, TypeOK, ttl
<1>g. \/ lease'.holder = s /\ lease'.ttl = Lesser(ttl, LeaseTTL)
      \/ UNCHANGED lease /\ lease.holder # s
  BY <1>d DEF ExchangeAccess, ExchangeAsWriter, ExchangeReadOnly, Authority,
     LeaseHolderAuthoritative, ttl
<1>1. Bounded(s)'
  <2>1. auth'[s].replay = 0 /\ auth'[s].rec = 0
    BY <1>d DEF WithinPass, NothingEarly
  <2> QED BY <1>a, <1>b, <1>c, <1>d, <1>f, <1>g, <2>1 DEF Bounded
<1>2. ASSUME NEW t \in Sessions, t # s PROVE Bounded(t)'
  BY <1>d, <1>e, <1>g, <1>2 DEF WithinPass, Bounded
<1>3. NothingEarly'
  BY <1>d, <1>e, <1>f DEF WithinPass, NothingEarly
<1> QED BY <1>1, <1>2, <1>3 DEF WithinPass

LEMMA IssueWithin ==
  ASSUME Authority, WithinPass, NEW s \in Sessions, NEW delivered \in BOOLEAN,
         IssueOfflineAuthorization(s, delivered)
  PROVE  WithinPass'
<1> DEFINE ttl == pass[session[s].pass].ttl
           rec == Lesser(ttl, RecordTTL)
           replay == Lesser(ttl, rec + GraceTTL)
<1>a. session[s].mode = "writer" /\ session[s].pass \in Passes /\ ttl \in Nat
  BY TimesTyped DEF IssueOfflineAuthorization, AuthenticWriter, Authority, PassKnown
<1>b. rec \in Nat /\ rec <= ttl
  BY <1>a, LesserFacts, TimesAssumption
<1>c. replay <= ttl /\ rec <= replay
  <2>1. rec + GraceTTL \in Nat /\ rec <= rec + GraceTTL
    BY <1>b, TimesAssumption
  <2>2. replay \in {ttl, rec + GraceTTL} /\ replay <= ttl
    BY <1>a, <2>1, LesserFacts
  <2> QED BY <1>b, <2>1, <2>2
<1> HIDE DEF rec, replay
<1>d. UNCHANGED <<pass, lease>> /\ session' = [session EXCEPT ![s].pending = FALSE]
  BY DEF IssueOfflineAuthorization
<1>e. \A t \in Sessions : /\ session'[t].pass = session[t].pass
                          /\ session'[t].ttl = session[t].ttl
                          /\ session'[t].mode = session[t].mode
  BY <1>d DEF Authority, TypeOK, SessionRow
<1>f. auth' = [ExpireOverdue EXCEPT ![s] =
        [status |-> "active", gen |-> session[s].gen, rec |-> rec, replay |-> replay]]
  BY DEF IssueOfflineAuthorization, rec, replay
<1>g. auth'[s].rec = rec /\ auth'[s].replay = replay
  BY <1>f DEF ExpireOverdue
<1>h. \A t \in Sessions \ {s} : auth'[t].rec = auth[t].rec /\ auth'[t].replay = auth[t].replay
  BY <1>f DEF ExpireOverdue, Authority, TypeOK, AuthRow
<1>1. Bounded(s)'
  BY <1>c, <1>d, <1>e, <1>g DEF WithinPass, Bounded
<1>2. ASSUME NEW t \in Sessions, t # s PROVE Bounded(t)'
  BY <1>d, <1>e, <1>h, <1>2 DEF WithinPass, Bounded
<1>3. NothingEarly'
  BY <1>a, <1>d, <1>e, <1>h DEF WithinPass, NothingEarly
<1> QED BY <1>1, <1>2, <1>3 DEF WithinPass

LEMMA TickWithin ==
  ASSUME Authority, WithinPass, Tick
  PROVE  WithinPass'
<1>1. ASSUME NEW s \in Sessions
      PROVE  /\ session'[s].pass = session[s].pass /\ session'[s].mode = session[s].mode
             /\ session'[s].ttl = Elapsed(session[s].ttl)
             /\ auth'[s].rec = Elapsed(auth[s].rec)
             /\ auth'[s].replay = Elapsed(auth[s].replay)
  <2>1. session[s] \in SessionRow /\ auth[s] \in AuthRow
    BY DEF Authority, TypeOK
  <2>2. session'[s] = [session[s] EXCEPT !.ttl = Elapsed(session[s].ttl),
                                         !.beat = Elapsed(session[s].beat)]
    BY DEF Tick
  <2>3. auth'[s] = [auth[s] EXCEPT !.rec = Elapsed(auth[s].rec),
                                   !.replay = Elapsed(auth[s].replay)]
    BY DEF Tick
  <2>4. session'[s].ttl = Elapsed(session[s].ttl) /\ session'[s].pass = session[s].pass
    BY <2>1, <2>2 DEF SessionRow
  <2>5. session'[s].mode = session[s].mode
    BY <2>1, <2>2 DEF SessionRow
  <2>6. auth'[s].rec = Elapsed(auth[s].rec) /\ auth'[s].replay = Elapsed(auth[s].replay)
    BY <2>1, <2>3 DEF AuthRow
  <2> QED BY <2>4, <2>5, <2>6
<1>2. lease'.holder = lease.holder /\ lease'.ttl = Elapsed(lease.ttl)
  BY DEF Tick, Authority, TypeOK, LeaseRow
<1>3. \A p \in Passes : pass'[p].ttl = Elapsed(pass[p].ttl) /\ pass'[p].status = pass[p].status
  BY DEF Tick, Authority, TypeOK, PassRow
<1>4. ASSUME NEW s \in Sessions PROVE Bounded(s)'
  <2> SUFFICES ASSUME NEW p \in Passes, session'[s].pass = p
               PROVE  /\ session'[s].ttl <= pass'[p].ttl
                      /\ lease'.holder = s => lease'.ttl <= pass'[p].ttl
                      /\ auth'[s].replay <= pass'[p].ttl
                      /\ auth'[s].rec <= auth'[s].replay
    BY DEF Bounded
  <2>1. /\ session[s].ttl <= pass[p].ttl
        /\ lease.holder = s => lease.ttl <= pass[p].ttl
        /\ auth[s].replay <= pass[p].ttl
        /\ auth[s].rec <= auth[s].replay
    BY <1>1 DEF WithinPass, Bounded
  <2>2. /\ session[s].ttl \in Nat /\ auth[s].rec \in Nat /\ auth[s].replay \in Nat
        /\ lease.ttl \in Nat /\ pass[p].ttl \in Nat
    BY TimesTyped DEF Authority
  <2>3. Elapsed(session[s].ttl) <= Elapsed(pass[p].ttl)
    BY <2>1, <2>2, ElapsedMonotone
  <2>4. lease.holder = s => Elapsed(lease.ttl) <= Elapsed(pass[p].ttl)
    BY <2>1, <2>2, ElapsedMonotone
  <2>5. Elapsed(auth[s].replay) <= Elapsed(pass[p].ttl)
    BY <2>1, <2>2, ElapsedMonotone
  <2>6. Elapsed(auth[s].rec) <= Elapsed(auth[s].replay)
    BY <2>1, <2>2, ElapsedMonotone
  <2> QED BY <1>1, <1>2, <1>3, <2>3, <2>4, <2>5, <2>6
<1>5. NothingEarly'
  BY <1>1, <1>3 DEF WithinPass, NothingEarly, Elapsed
<1> QED BY <1>4, <1>5 DEF WithinPass

\* The steps that move the deadlines of one session, or give it the lease.
LEMMA HeartbeatWithin ==
  ASSUME Authority, WithinPass, NEW s \in Sessions, Heartbeat(s)
  PROVE  WithinPass'
<1> DEFINE ceiling == pass[session[s].pass].ttl
           ttl == Lesser(ceiling, SessionTTL)
<1>1. session[s].mode # "unused" /\ ceiling \in Nat /\ UNCHANGED <<pass, auth>>
  BY TimesTyped DEF Heartbeat, Authentic, Authority, PassKnown
<1>2. ttl \in Nat /\ ttl <= ceiling
  BY <1>1, LesserFacts, TimesAssumption
<1>3. Lesser(ttl, LeaseTTL) \in Nat /\ Lesser(ttl, LeaseTTL) <= ttl
  BY <1>2, LesserFacts, TimesAssumption
<1> HIDE DEF ttl
<1>4. session' = [session EXCEPT ![s].ttl = ttl, ![s].beat = BeatTTL, ![s].pending = kit[s].queue]
  BY DEF Heartbeat, ttl
<1>5. kit[s].queue \in BOOLEAN
  BY DEF Authority, TypeOK, Kit
<1>6. \A t \in Sessions : session'[t].mode = session[t].mode /\ session'[t].pass = session[t].pass
  BY <1>2, <1>4, <1>5, BeatenFields DEF Authority
<1>7. session'[s].ttl = ttl /\ \A t \in Sessions \ {s} : session'[t] = session[t]
  BY <1>4 DEF Authority, TypeOK, SessionRow
<1>8. \/ lease'.holder = s /\ lease'.ttl = Lesser(ttl, LeaseTTL)
      \/ UNCHANGED lease
  BY DEF Heartbeat, HoldsLease, Authority, TypeOK, LeaseRow, ttl
<1>9. \/ lease'.holder = s /\ lease'.ttl <= ceiling
      \/ UNCHANGED lease
  BY <1>1, <1>2, <1>3, <1>8
<1> QED BY <1>1, <1>2, <1>6, <1>7, <1>9, OneSessionKeeps

LEMMA AppendWithin ==
  ASSUME Authority, WithinPass, NEW s \in Sessions, NEW replayed \in BOOLEAN,
         AppendScoreEvent(s, replayed)
  PROVE  WithinPass'
<1> DEFINE ceiling == pass[session[s].pass].ttl
<1>1. /\ session[s].mode # "unused" /\ session[s].pass \in Passes /\ ceiling \in Nat
      /\ UNCHANGED <<pass, auth>> /\ lease.holder = s
  BY TimesTyped DEF AppendScoreEvent, WriterGuard, AuthenticWriter, HoldsLease, Authority, PassKnown
<1>2. session' = [session EXCEPT ![s].beat = BeatTTL]
  BY DEF AppendScoreEvent
<1>3. \A t \in Sessions : /\ session'[t].mode = session[t].mode
                          /\ session'[t].pass = session[t].pass
                          /\ session'[t].ttl = session[t].ttl
  BY <1>2 DEF Authority, TypeOK, SessionRow
<1>4. lease'.holder = s /\ lease'.ttl = Lesser(ceiling, LeaseTTL)
  BY <1>1 DEF AppendScoreEvent, Authority, TypeOK, LeaseRow
<1>5. lease'.ttl <= ceiling
  BY <1>1, <1>4, LesserFacts, TimesAssumption
<1>6. session'[s].ttl <= ceiling
  BY <1>1, <1>3 DEF WithinPass, Bounded
<1> QED BY <1>1, <1>3, <1>4, <1>5, <1>6, OneSessionKeeps

LEMMA ApproveWithin ==
  ASSUME Authority, WithinPass, NEW s \in Sessions, NEW ack \in BOOLEAN, ApproveTakeover(s, ack)
  PROVE  WithinPass'
<1> DEFINE ceiling == pass[session[s].pass].ttl
<1>1. /\ session[s].mode = "candidate" /\ session[s].pass \in Passes
      /\ ceiling \in Nat /\ session[s].ttl \in Nat /\ UNCHANGED pass
  BY TimesTyped DEF ApproveTakeover, Approvable, Authority, PassKnown
<1>2. session[s].ttl <= ceiling
  BY <1>1 DEF WithinPass, Bounded
<1>a. Handover(s)
  BY ApproveEffects
<1>3. PICK i :
        session' = [session EXCEPT ![i].mode = "transferred", ![s].mode = "writer",
                                   ![s].gen = lease.gen + 1, ![s].beat = BeatTTL]
  BY <1>a DEF Handover
<1>4. \A t \in Sessions : session'[t].pass = session[t].pass /\ session'[t].ttl = session[t].ttl
  BY <1>3 DEF Authority, TypeOK, SessionRow
<1>5. \A t \in Sessions : session'[t].mode = "unused" => session[t].mode = "unused"
  BY <1>3 DEF Authority, TypeOK, SessionRow
<1>6. session'[s].mode # "unused"
  BY <1>1, <1>5
<1>7. \A t \in Sessions : auth'[t].rec = auth[t].rec /\ auth'[t].replay = auth[t].replay
  <2>1. PICK j : auth' = auth \/ auth' = [auth EXCEPT ![j].status = "transferred"]
    BY <1>a DEF Handover
  <2> QED BY <2>1 DEF Authority, TypeOK, AuthRow
<1>8. lease'.holder = s /\ lease'.ttl = Lesser(session[s].ttl, LeaseTTL)
  BY <1>a DEF Handover
<1>9. lease'.ttl \in Nat /\ lease'.ttl <= session[s].ttl
  BY <1>1, <1>8, LesserFacts, TimesAssumption
<1>10. lease'.ttl <= ceiling
  BY <1>1, <1>2, <1>9
<1> QED BY <1>1, <1>2, <1>4, <1>5, <1>6, <1>7, <1>8, <1>10, OneSessionKeeps

LEMMA ResumeWithin ==
  ASSUME Authority, WithinPass, NEW s \in Sessions, ResumeOfflineAuthorization(s)
  PROVE  WithinPass'
<1> DEFINE ceiling == pass[session[s].pass].ttl
           window == Lesser(ceiling, auth[s].replay)
           ttl == Lesser(window, SessionTTL)
<1>1. /\ session[s].mode # "unused" /\ ceiling \in Nat /\ auth[s].replay \in Nat
      /\ UNCHANGED <<pass, auth>>
  BY TimesTyped DEF ResumeOfflineAuthorization, Authority, PassKnown
<1>2. window \in Nat /\ window <= ceiling
  BY <1>1, LesserFacts
<1>3. ttl \in Nat /\ ttl <= window
  BY <1>2, LesserFacts, TimesAssumption
<1>4. Lesser(ttl, LeaseTTL) \in Nat /\ Lesser(ttl, LeaseTTL) <= ttl
  BY <1>3, LesserFacts, TimesAssumption
<1> HIDE DEF ttl
<1>5. session' = [session EXCEPT ![s].ttl = ttl, ![s].beat = BeatTTL, ![s].pending = kit[s].queue]
  BY DEF ResumeOfflineAuthorization, ttl
<1>6. kit[s].queue \in BOOLEAN
  BY DEF Authority, TypeOK, Kit
<1>7. \A t \in Sessions : session'[t].mode = session[t].mode /\ session'[t].pass = session[t].pass
  BY <1>3, <1>5, <1>6, BeatenFields DEF Authority
<1>8. session'[s].ttl = ttl /\ \A t \in Sessions \ {s} : session'[t] = session[t]
  BY <1>5 DEF Authority, TypeOK, SessionRow
<1>9. lease'.holder = s /\ lease'.ttl = Lesser(ttl, LeaseTTL)
  BY DEF ResumeOfflineAuthorization, ttl
<1>10. ttl <= ceiling /\ lease'.ttl <= ceiling
  BY <1>1, <1>2, <1>3, <1>4, <1>9
<1> QED BY <1>1, <1>7, <1>8, <1>9, <1>10, OneSessionKeeps

LEMMA CreateWithin ==
  ASSUME Authority, WithinPass, NEW p \in Passes, CreateAccessPass(p)
  PROVE  WithinPass'
<1>1. /\ UNCHANGED <<session, lease, auth>> /\ pass[p].ttl = 0
      /\ pass' = [pass EXCEPT ![p] = [status |-> "live", ttl |-> PassTTL]]
  BY DEF CreateAccessPass, WithinPass, NothingEarly
<1>2. \A q \in Passes : pass'[q].ttl \in Nat /\ pass[q].ttl <= pass'[q].ttl
  BY <1>1, TimesAssumption DEF Authority, TypeOK, PassRow
<1>3. ASSUME NEW s \in Sessions PROVE Bounded(s)'
  <2> SUFFICES ASSUME NEW q \in Passes, session[s].pass = q
               PROVE  /\ session[s].ttl <= pass'[q].ttl
                      /\ lease.holder = s => lease.ttl <= pass'[q].ttl
                      /\ auth[s].replay <= pass'[q].ttl
                      /\ auth[s].rec <= auth[s].replay
    BY <1>1 DEF Bounded
  <2>1. /\ session[s].ttl <= pass[q].ttl
        /\ lease.holder = s => lease.ttl <= pass[q].ttl
        /\ auth[s].replay <= pass[q].ttl
        /\ auth[s].rec <= auth[s].replay
    BY DEF WithinPass, Bounded
  <2>2. /\ session[s].ttl \in Nat /\ auth[s].replay \in Nat
        /\ lease.ttl \in Nat /\ pass[q].ttl \in Nat
    BY TimesTyped DEF Authority
  <2> QED BY <1>2, <2>1, <2>2
<1>4. NothingEarly'
  BY <1>1 DEF WithinPass, NothingEarly, Authority, TypeOK
<1> QED BY <1>3, <1>4 DEF WithinPass

LEMMA WithinPassStep ==
  ASSUME Authority, WithinPass, [Next]_vars
  PROVE  WithinPass'
<1>1. ASSUME NEW p \in Passes, RevokeAccessPass(p) PROVE Unhurried
  <2>1. \A s \in Sessions : /\ session'[s].mode = session[s].mode
                            /\ session'[s].pass = session[s].pass
                            /\ session'[s].ttl = session[s].ttl
    BY <1>1 DEF RevokeAccessPass, Authority, TypeOK, SessionRow
  <2>2. \A s \in Sessions : auth'[s].rec = auth[s].rec /\ auth'[s].replay = auth[s].replay
    BY <1>1 DEF RevokeAccessPass, Authority, TypeOK, AuthRow
  <2>3. \A q \in Passes : /\ pass'[q].ttl = pass[q].ttl
                          /\ pass'[q].status = "unissued" => pass[q].status = "unissued"
    BY <1>1 DEF RevokeAccessPass, Authority, TypeOK, PassRow
  <2>4. lease' = lease \/ lease' = NoLease
    BY <1>1 DEF RevokeAccessPass
  <2> QED BY <2>1, <2>2, <2>3, <2>4 DEF Unhurried
<1>2. ASSUME UNCHANGED <<pass, session, lease, auth>> PROVE Unhurried
  BY <1>2 DEF Unhurried
<1>3. ASSUME NEW s \in Sessions, RequestTakeover(s) PROVE Unhurried
  <2>1. session' = [session EXCEPT ![s].beat = BeatTTL, ![s].pending = kit[s].queue]
    BY <1>3 DEF RequestTakeover
  <2>2. \A t \in Sessions : /\ session'[t].mode = session[t].mode
                            /\ session'[t].pass = session[t].pass
                            /\ session'[t].ttl = session[t].ttl
    BY <2>1 DEF Authority, TypeOK, SessionRow
  <2> QED BY <1>3, <2>2 DEF RequestTakeover, Unhurried
<1>4. ASSUME NEW s \in Sessions, NEW preserve \in BOOLEAN,
             RevokeOfflineAuthorization(s, preserve)
      PROVE  Unhurried
  <2>1. session' = session \/ session' = [session EXCEPT ![s].revoked = TRUE]
    BY <1>4 DEF RevokeOfflineAuthorization
  <2>2. \A t \in Sessions : /\ session'[t].mode = session[t].mode
                            /\ session'[t].pass = session[t].pass
                            /\ session'[t].ttl = session[t].ttl
    BY <2>1 DEF Authority, TypeOK, SessionRow
  <2>3. \A t \in Sessions : auth'[t].rec = auth[t].rec /\ auth'[t].replay = auth[t].replay
    BY <1>4 DEF RevokeOfflineAuthorization, Authority, TypeOK, AuthRow
  <2>4. UNCHANGED pass /\ (lease' = lease \/ lease' = NoLease)
    BY <1>4 DEF RevokeOfflineAuthorization
  <2> QED BY <2>2, <2>3, <2>4 DEF Unhurried
<1>5. ASSUME NEW s \in Sessions, ResumeTooLate(s) PROVE Unhurried
  <2>1. UNCHANGED <<pass, session, lease>>
    BY <1>5 DEF ResumeTooLate
  <2>2. \A t \in Sessions : auth'[t].rec = auth[t].rec /\ auth'[t].replay = auth[t].replay
    BY <1>5 DEF ResumeTooLate, Authority, TypeOK, AuthRow
  <2> QED BY <2>1, <2>2 DEF Unhurried
<1>6. ASSUME NEW s \in Sessions, DenyTakeover(s) \/ RecordOffline(s) PROVE Unhurried
  BY <1>2, <1>6 DEF DenyTakeover, RecordOffline
<1>7. ASSUME NEW s \in Sessions, NEW replayed \in BOOLEAN, Finalise(s, replayed)
      PROVE  Unhurried
  BY <1>2, <1>7 DEF Finalise
<1>8. ASSUME ReopenMatch \/ CorrectMatch \/ UNCHANGED vars PROVE Unhurried
  BY <1>2, <1>8 DEF ReopenMatch, CorrectMatch, vars
<1>9. ASSUME NEW late, ExpireTakeovers(late) PROVE Unhurried
  BY <1>2, <1>9 DEF ExpireTakeovers
<1> QED
  BY <1>1, <1>3, <1>4, <1>5, <1>6, <1>7, <1>8, <1>9, UnhurriedKeeps, CreateWithin,
     ExchangeWithin, HeartbeatWithin, AppendWithin, ApproveWithin, IssueWithin,
     ResumeWithin, TickWithin DEF Next, ExpireTakeoverRequests

(***************************************************************************)
(* Nothing obtained with a pass outlives it, for any lifetimes: each       *)
(* handler that extends a session, a lease or an authorization has the     *)
(* pass's expiry as its ceiling, directly or through the session's.        *)
(***************************************************************************)
THEOREM PassIsTheCeiling == Spec => []AuthorityWithinPass
<1>1. Authority /\ WithinPass /\ [Next]_vars => WithinPass'
  BY WithinPassStep
<1>2. WithinPass => AuthorityWithinPass
  BY DEF WithinPass, Bounded, AuthorityWithinPass
<1> QED
  BY <1>1, <1>2, WithinPassInit, AuthorityHolds, PTL DEF Spec

----------------------------------------------------------------------------
(* What a device may hold that the server was not told of.                 *)

\* A session in use has a pass that was issued.
PassIssued(s) ==
  \A p \in Passes : session[s].pass = p => pass[p].status # "unissued"

\* Only a writer ever had something to record with.
Unarmed(s) ==
  session[s].mode \in {"unused", "viewer", "candidate"} =>
    ~kit[s].queue /\ kit[s].rec = 0

\* The window of an authorization outlives the recording by the grace
\* period, or lasts as long as the pass.
WindowLasts(s) ==
  /\ auth[s].rec <= RecordTTL
  /\ auth[s].rec > 0 => \/ auth[s].rec + GraceTTL <= auth[s].replay
                        \/ auth[s].replay = pass[session[s].pass].ttl
  /\ session[s].beat <= BeatTTL

\* The writer's device records no longer than the server believes.
RecordingKnown(s) ==
  lease.holder = s /\ kit[s].rec > 0 =>
    auth[s].status = "active" /\ kit[s].rec <= auth[s].rec

\* While a queue is unreported the place is reserved, and it stays reserved
\* until the last heartbeat is old, or to the end of the pass.
QueueCovered(s) ==
  \/ session[s].beat = 0
  \/ pass[session[s].pass].ttl = 0
  \/ /\ Reserved(s)
     /\ session[s].beat <= auth[s].replay \/ auth[s].replay = pass[session[s].pass].ttl

QueueKnown(s) ==
  lease.holder = s /\ kit[s].queue /\ ~session[s].pending => QueueCovered(s)

\* What a device still has, or may still record, when the match has gone to
\* another is on record.
LeftBehind(s) ==
  session[s].mode = "transferred" /\ (kit[s].queue \/ kit[s].rec > 0) =>
    s \in conflicts \/ pass[session[s].pass].ttl = 0

Device(s) ==
  /\ PassIssued(s)
  /\ Unarmed(s)
  /\ WindowLasts(s)
  /\ RecordingKnown(s)
  /\ QueueKnown(s)
  /\ LeftBehind(s)

DeviceKnown == \A s \in Sessions : Device(s)

LEMMA DeviceInit == Init => DeviceKnown
<1> SUFFICES ASSUME Init, NEW s \in Sessions PROVE Device(s)
  BY DEF DeviceKnown
<1>1. /\ session[s].mode = "unused" /\ session[s].pass = None /\ session[s].beat = 0
      /\ auth[s].rec = 0 /\ lease.holder = None /\ kit[s].rec = 0 /\ kit[s].queue = FALSE
  BY DEF Init, NoLease, NoKit
<1>2. s # None /\ None \notin Passes
  BY SetsAssumption
<1>3. PassIssued(s) /\ Unarmed(s) /\ RecordingKnown(s) /\ QueueKnown(s) /\ LeftBehind(s)
  BY <1>1, <1>2 DEF PassIssued, Unarmed, RecordingKnown, QueueKnown, LeftBehind
<1>4. WindowLasts(s)
  BY <1>1, TimesAssumption DEF WindowLasts
<1> QED BY <1>3, <1>4 DEF Device

LEMMA DeviceTyped ==
  ASSUME TypeOK, NEW s \in Sessions
  PROVE  kit[s].rec \in Nat /\ kit[s].queue \in BOOLEAN /\ session[s].pending \in BOOLEAN
  BY DEF TypeOK, Kit, SessionRow

\* An authorization that may no longer be replayed allows no recording.
LEMMA RecordingEndsFirst ==
  ASSUME Authority, WithinPass, NEW s \in Sessions
  PROVE  auth[s].rec <= auth[s].replay
<1>1. auth[s].rec \in Nat /\ auth[s].replay \in Nat
  BY TimesTyped DEF Authority
<1>2. CASE session[s].mode = "unused"
  BY <1>1, <1>2 DEF WithinPass, NothingEarly
<1>3. CASE session[s].mode # "unused"
  BY <1>3 DEF WithinPass, Bounded, Authority, PassKnown
<1> QED BY <1>2, <1>3

\* A step after which the server knows as much about a session's device as
\* before: it hears of its queue, or nothing changes but what ends.
Heard(s) ==
  \/ session'[s].beat = session[s].beat /\ session'[s].pending = session[s].pending
  \/ session'[s].beat = BeatTTL /\ (kit'[s].queue => session'[s].pending)

PassSame(s) ==
  \A p \in Passes : session[s].pass = p =>
    /\ pass'[p].ttl = pass[p].ttl
    /\ pass'[p].status = "unissued" => pass[p].status = "unissued"

LeaseNoMore(s) ==
  lease'.holder = s =>
    /\ lease.holder = s
    /\ \/ auth'[s].status = auth[s].status
       \/ auth[s].replay = 0
       \/ ~kit'[s].queue /\ kit'[s].rec = 0

KitNoMore(s) ==
  /\ kit'[s].queue => kit[s].queue
  /\ kit'[s].rec = kit[s].rec \/ kit'[s].rec = 0

Quiet(s) ==
  /\ session'[s].mode = session[s].mode /\ session'[s].pass = session[s].pass
  /\ auth'[s].rec = auth[s].rec /\ auth'[s].replay = auth[s].replay
  /\ s \in conflicts => s \in conflicts'
  /\ Heard(s) /\ PassSame(s) /\ LeaseNoMore(s) /\ KitNoMore(s)

LEMMA QuietKeeps ==
  ASSUME Authority, WithinPass, NEW s \in Sessions, Device(s), Quiet(s)
  PROVE  Device(s)'
<1>a. session'[s].mode = session[s].mode /\ session'[s].pass = session[s].pass
  BY DEF Quiet
<1>b. auth'[s].rec = auth[s].rec /\ auth'[s].replay = auth[s].replay
  BY DEF Quiet
<1>c. auth[s].rec \in Nat /\ auth[s].replay \in Nat /\ session[s].beat \in Nat
  BY TimesTyped DEF Authority
<1>d. kit[s].rec \in Nat /\ kit[s].queue \in BOOLEAN
  BY DeviceTyped DEF Authority
<1>e. session[s].mode # "unused" =>
        /\ session[s].pass \in Passes
        /\ pass'[session[s].pass].ttl = pass[session[s].pass].ttl
  BY DEF Authority, PassKnown, Quiet, PassSame
<1>f. session[s].mode = "unused" => auth[s].rec = 0
  BY DEF WithinPass, NothingEarly
<1>g. lease.holder = s => session[s].mode = "writer"
  BY DEF Authority, LeaseHolderAuthoritative
<1>h. auth[s].rec <= auth[s].replay
  BY RecordingEndsFirst
<1>1. PassIssued(s)'
  BY <1>a DEF Device, PassIssued, Quiet, PassSame
<1>2. Unarmed(s)'
  BY <1>a, <1>d DEF Device, Unarmed, Quiet, KitNoMore
<1>3. WindowLasts(s)'
  <2>1. session'[s].beat = session[s].beat \/ session'[s].beat = BeatTTL
    BY DEF Quiet, Heard
  <2>2. session'[s].beat <= BeatTTL
    BY <2>1, TimesAssumption DEF Device, WindowLasts
  <2>3. auth[s].rec > 0 => \/ auth[s].rec + GraceTTL <= auth[s].replay
                           \/ auth[s].replay = pass'[session[s].pass].ttl
    BY <1>e, <1>f DEF Device, WindowLasts
  <2>4. auth[s].rec <= RecordTTL
    BY DEF Device, WindowLasts
  <2> QED BY <1>a, <1>b, <2>2, <2>3, <2>4 DEF WindowLasts
<1>4. RecordingKnown(s)'
  <2> SUFFICES ASSUME lease'.holder = s, kit'[s].rec > 0
               PROVE  auth'[s].status = "active" /\ kit'[s].rec <= auth'[s].rec
    BY DEF RecordingKnown
  <2>1. lease.holder = s /\ kit'[s].rec = kit[s].rec
    BY DEF Quiet, LeaseNoMore, KitNoMore
  <2>2. auth[s].status = "active" /\ kit[s].rec <= auth[s].rec
    BY <2>1 DEF Device, RecordingKnown
  <2>3. auth[s].replay # 0
    BY <1>c, <1>d, <1>h, <2>1, <2>2
  <2>4. auth'[s].status = auth[s].status
    BY <2>3 DEF Quiet, LeaseNoMore
  <2> QED BY <1>b, <2>1, <2>2, <2>4
<1>5. QueueKnown(s)'
  <2> SUFFICES ASSUME lease'.holder = s, kit'[s].queue, ~session'[s].pending
               PROVE  QueueCovered(s)'
    BY DEF QueueKnown
  <2>1. lease.holder = s /\ kit[s].queue
    BY DEF Quiet, LeaseNoMore, KitNoMore
  <2>2. session'[s].beat = session[s].beat /\ ~session[s].pending
    BY DEF Quiet, Heard
  <2>3. QueueCovered(s)
    BY <2>1, <2>2 DEF Device, QueueKnown
  <2>4. session'[s].pass = session[s].pass
        /\ pass'[session[s].pass].ttl = pass[session[s].pass].ttl
    BY <1>a, <1>e, <1>g, <2>1
  <2>5. CASE ~Reserved(s)
    BY <2>2, <2>3, <2>4, <2>5 DEF QueueCovered
  <2>6. CASE Reserved(s)
    <3>1. auth'[s].status = auth[s].status
      BY <2>6, <1>c DEF Reserved, Quiet, LeaseNoMore
    <3>2. Reserved(s)'
      BY <1>b, <2>6, <3>1 DEF Reserved
    <3> QED BY <1>b, <2>2, <2>3, <2>4, <3>2 DEF QueueCovered
  <2> QED BY <2>5, <2>6
<1>6. LeftBehind(s)'
  <2> SUFFICES ASSUME session[s].mode = "transferred", kit'[s].queue \/ kit'[s].rec > 0
               PROVE  s \in conflicts' \/ pass'[session[s].pass].ttl = 0
    BY <1>a DEF LeftBehind
  <2>1. kit[s].queue \/ kit[s].rec > 0
    BY DEF Quiet, KitNoMore
  <2>2. s \in conflicts \/ pass[session[s].pass].ttl = 0
    BY <2>1 DEF Device, LeftBehind
  <2> QED BY <1>e, <2>2 DEF Quiet
<1> QED BY <1>1, <1>2, <1>3, <1>4, <1>5, <1>6 DEF Device

\* A session of which a step at most marks an overdue authorization.
Untouched(s) ==
  /\ session'[s] = session[s] /\ kit'[s] = kit[s]
  /\ \/ auth'[s] = auth[s]
     \/ auth[s].replay = 0 /\ auth'[s].replay = 0 /\ auth'[s].rec = auth[s].rec
  /\ s \in conflicts => s \in conflicts'
  /\ lease'.holder = s => lease.holder = s
  /\ PassSame(s)

LEMMA UntouchedKeeps ==
  ASSUME Authority, WithinPass, DeviceKnown, NEW s \in Sessions, Untouched(s)
  PROVE  Device(s)'
<1>1. Quiet(s)
  BY DEF Untouched, Quiet, Heard, LeaseNoMore, KitNoMore
<1> QED BY <1>1, QuietKeeps DEF DeviceKnown

LEMMA ExchangeKnown ==
  ASSUME Authority, WithinPass, DeviceKnown,
         NEW s \in Sessions, NEW p \in Passes, NEW d \in Devices, ExchangeAccess(s, p, d)
  PROVE  DeviceKnown'
<1>a. /\ session[s].mode = "unused" /\ pass[p].status = "live" /\ auth' = ExpireOverdue
      /\ UNCHANGED <<pass, kit, conflicts>>
  BY DEF ExchangeAccess, LivePass
<1>b. \A t \in Sessions \ {s} : session'[t] = session[t]
  BY DEF ExchangeAccess, ExchangeAsWriter, ExchangeReadOnly, NewSession, Authority, TypeOK
<1>c. /\ session'[s].pass = p /\ session'[s].beat = BeatTTL
      /\ session'[s].mode \in {"writer", "viewer", "candidate"}
  BY DEF ExchangeAccess, ExchangeAsWriter, ExchangeReadOnly, NewSession, Authority, TypeOK
<1>d. \A t \in Sessions \ {s} : lease'.holder = t => lease.holder = t
  BY DEF ExchangeAccess, ExchangeAsWriter, ExchangeReadOnly
<1>e. \A t \in Sessions :
        \/ auth'[t] = auth[t]
        \/ auth[t].replay = 0 /\ auth'[t].replay = 0 /\ auth'[t].rec = auth[t].rec
  BY <1>a DEF ExpireOverdue, Authority, TypeOK, AuthRow
<1>1. ASSUME NEW t \in Sessions, t # s PROVE Device(t)'
  <2>1. PassSame(t)
    BY <1>a DEF PassSame
  <2>2. Untouched(t)
    BY <1>1, <1>a, <1>b, <1>d, <1>e, <2>1 DEF Untouched
  <2> QED BY <2>2, UntouchedKeeps
<1>2. Device(s)'
  <2>1. ~kit'[s].queue /\ kit'[s].rec = 0
    BY <1>a DEF DeviceKnown, Device, Unarmed
  <2>2. auth'[s].rec = 0
    BY <1>a, <1>e DEF WithinPass, NothingEarly
  <2>3. PassIssued(s)'
    BY <1>a, <1>c DEF PassIssued
  <2>4. WindowLasts(s)'
    BY <1>c, <2>2, TimesAssumption DEF WindowLasts
  <2>5. Unarmed(s)' /\ RecordingKnown(s)' /\ QueueKnown(s)' /\ LeftBehind(s)'
    BY <2>1 DEF Unarmed, RecordingKnown, QueueKnown, LeftBehind
  <2> QED BY <2>3, <2>4, <2>5 DEF Device
<1> QED BY <1>1, <1>2 DEF DeviceKnown

\* What the server believes of a holder that it says has nothing pending.
LEMMA NothingPending ==
  ASSUME Authority, WithinPass, NEW i \in Sessions, Device(i), lease.holder = i,
         PendingState(i, Reserved(i) /\ auth[i].gen = lease.gen) = "none",
         kit[i].queue \/ kit[i].rec > 0
  PROVE  pass[session[i].pass].ttl = 0
<1>a. kit[i].rec \in Nat /\ auth[i].rec \in Nat /\ auth[i].replay \in Nat
      /\ session[i].beat \in Nat
  BY DeviceTyped, TimesTyped DEF Authority
<1>1. Reserved(i) => auth[i].gen = lease.gen
  BY DEF Authority, ReservationHonoured
<1>2. ~Reserved(i) /\ session[i].beat # 0
  BY <1>1 DEF PendingState
<1>3. ~session[i].pending
  BY <1>a, <1>2 DEF PendingState
<1>4. auth[i].rec <= auth[i].replay
  BY RecordingEndsFirst
<1>5. ~(kit[i].rec > 0)
  BY <1>a, <1>2, <1>4 DEF Device, RecordingKnown, Reserved
<1>6. QueueCovered(i)
  BY <1>3, <1>5 DEF Device, QueueKnown
<1> QED BY <1>2, <1>6 DEF QueueCovered

LEMMA ApproveKnown ==
  ASSUME Authority, WithinPass, DeviceKnown,
         NEW s \in Sessions, NEW ack \in BOOLEAN, ApproveTakeover(s, ack)
  PROVE  DeviceKnown'
<1>0. PICK i \in Sessions : i = takeover[s].incumbent
  BY DEF ApproveTakeover
<1> DEFINE transferred == Reserved(i) /\ auth[i].gen = lease.gen
<1>a. /\ lease.holder = i /\ session[s].mode = "candidate"
      /\ UNCHANGED <<pass, kit>>
  BY <1>0 DEF ApproveTakeover, Approvable
<1>b. i # s /\ session[i].mode = "writer"
  BY <1>a DEF Authority, LeaseHolderAuthoritative
<1>c. conflicts' = IF PendingState(i, transferred) # "none" THEN conflicts \cup {i} ELSE conflicts
  BY <1>0 DEF ApproveTakeover
<1>d. Handover(s)
  BY ApproveEffects
<1>e. /\ session' = [session EXCEPT ![i].mode = "transferred", ![s].mode = "writer",
                                    ![s].gen = lease.gen + 1, ![s].beat = BeatTTL]
      /\ lease'.holder = s
      /\ auth' = auth \/ auth' = [auth EXCEPT ![i].status = "transferred"]
  BY <1>0, <1>d DEF Handover
<1> HIDE DEF transferred
<1>f. \A t \in Sessions : t \notin {i, s} => session'[t] = session[t] /\ auth'[t] = auth[t]
  BY <1>e DEF Authority, TypeOK
<1>g. \A t \in Sessions : /\ session'[t].pass = session[t].pass
                          /\ auth'[t].rec = auth[t].rec /\ auth'[t].replay = auth[t].replay
  <2>1. \A t \in Sessions : session'[t].pass = session[t].pass
    BY <1>e DEF Authority, TypeOK, SessionRow
  <2>2. \A t \in Sessions : auth'[t].rec = auth[t].rec /\ auth'[t].replay = auth[t].replay
    BY <1>e DEF Authority, TypeOK, AuthRow
  <2> QED BY <2>1, <2>2
<1>h. session'[i].mode = "transferred" /\ session'[i].beat = session[i].beat
  BY <1>a, <1>b, <1>e DEF Authority, TypeOK, SessionRow
<1>i. session'[s].mode = "writer" /\ session'[s].beat = BeatTTL
  BY <1>b, <1>e DEF Authority, TypeOK, SessionRow
<1>1. ASSUME NEW t \in Sessions, t \notin {i, s} PROVE Device(t)'
  <2>1. PassSame(t)
    BY <1>a DEF PassSame
  <2>2. Untouched(t)
    BY <1>1, <1>a, <1>c, <1>e, <1>f, <2>1 DEF Untouched
  <2> QED BY <2>2, UntouchedKeeps
<1>2. Device(s)'
  <2>1. ~kit'[s].queue /\ kit'[s].rec = 0
    BY <1>a DEF DeviceKnown, Device, Unarmed
  <2>2. PassIssued(s)'
    BY <1>a, <1>g DEF DeviceKnown, Device, PassIssued
  <2>3. WindowLasts(s)'
    BY <1>a, <1>g, <1>i, TimesAssumption DEF DeviceKnown, Device, WindowLasts
  <2>4. Unarmed(s)' /\ RecordingKnown(s)' /\ QueueKnown(s)' /\ LeftBehind(s)'
    BY <2>1 DEF Unarmed, RecordingKnown, QueueKnown, LeftBehind
  <2> QED BY <2>2, <2>3, <2>4 DEF Device
<1>3. Device(i)'
  <2>1. PassIssued(i)'
    BY <1>a, <1>g DEF DeviceKnown, Device, PassIssued
  <2>2. WindowLasts(i)'
    BY <1>a, <1>g, <1>h DEF DeviceKnown, Device, WindowLasts
  <2>3. Unarmed(i)' /\ RecordingKnown(i)' /\ QueueKnown(i)'
    BY <1>b, <1>e, <1>h DEF Unarmed, RecordingKnown, QueueKnown
  <2>4. LeftBehind(i)'
    <3> SUFFICES ASSUME kit[i].queue \/ kit[i].rec > 0
                 PROVE  i \in conflicts' \/ pass[session[i].pass].ttl = 0
      BY <1>a, <1>g DEF LeftBehind
    <3>1. CASE PendingState(i, transferred) = "none"
      <4>1. PendingState(i, Reserved(i) /\ auth[i].gen = lease.gen) = "none"
        BY <3>1 DEF transferred
      <4> QED BY <1>a, <4>1, NothingPending DEF DeviceKnown
    <3>2. CASE PendingState(i, transferred) # "none"
      BY <1>c, <3>2
    <3> QED BY <3>1, <3>2
  <2> QED BY <2>1, <2>2, <2>3, <2>4 DEF Device
<1> QED BY <1>1, <1>2, <1>3 DEF DeviceKnown

LEMMA IssueKnown ==
  ASSUME Authority, WithinPass, DeviceKnown,
         NEW s \in Sessions, NEW delivered \in BOOLEAN, IssueOfflineAuthorization(s, delivered)
  PROVE  DeviceKnown'
<1> DEFINE ttl == pass[session[s].pass].ttl
           rec == Lesser(ttl, RecordTTL)
           replay == Lesser(ttl, rec + GraceTTL)
<1>a. session[s].mode = "writer" /\ session[s].pass \in Passes /\ ttl \in Nat
  BY TimesTyped DEF IssueOfflineAuthorization, AuthenticWriter, Authority, PassKnown
<1>b. rec \in Nat /\ rec <= ttl /\ rec <= RecordTTL
  BY <1>a, TimesAssumption DEF Lesser
<1>c. replay = ttl \/ replay = rec + GraceTTL
  BY DEF Lesser
<1>d. auth[s].rec <= ttl /\ auth[s].rec <= RecordTTL => auth[s].rec <= rec
  BY DEF Lesser
<1>e. auth' = [ExpireOverdue EXCEPT ![s] =
        [status |-> "active", gen |-> session[s].gen, rec |-> rec, replay |-> replay]]
  BY DEF IssueOfflineAuthorization
<1>f. kit' = IF delivered THEN [kit EXCEPT ![s].secret = TRUE, ![s].rec = rec] ELSE kit
  BY DEF IssueOfflineAuthorization
<1> HIDE DEF rec, replay
<1>g. /\ UNCHANGED <<pass, lease, conflicts>> /\ ~kit[s].queue
      /\ session' = [session EXCEPT ![s].pending = FALSE]
  BY DEF IssueOfflineAuthorization
<1>h. /\ auth'[s].status = "active" /\ auth'[s].rec = rec /\ auth'[s].replay = replay
  BY <1>e DEF ExpireOverdue
<1>i. /\ session'[s].mode = "writer" /\ session'[s].pass = session[s].pass
      /\ session'[s].beat = session[s].beat
  BY <1>a, <1>g DEF Authority, TypeOK, SessionRow
<1>j. ~kit'[s].queue /\ kit'[s].rec \in {kit[s].rec, rec}
  BY <1>f, <1>g DEF Authority, TypeOK, Kit
<1>k. \A t \in Sessions \ {s} : session'[t] = session[t] /\ kit'[t] = kit[t]
  BY <1>f, <1>g DEF Authority, TypeOK
<1>l. \A t \in Sessions \ {s} :
        \/ auth'[t] = auth[t]
        \/ auth[t].replay = 0 /\ auth'[t].replay = 0 /\ auth'[t].rec = auth[t].rec
  BY <1>e DEF ExpireOverdue, Authority, TypeOK, AuthRow
<1>1. ASSUME NEW t \in Sessions, t # s PROVE Device(t)'
  <2>1. PassSame(t)
    BY <1>g DEF PassSame
  <2>2. Untouched(t)
    BY <1>1, <1>g, <1>k, <1>l, <2>1 DEF Untouched
  <2> QED BY <2>2, UntouchedKeeps
<1>2. Device(s)'
  <2>1. PassIssued(s)'
    BY <1>g, <1>i DEF DeviceKnown, Device, PassIssued
  <2>2. Unarmed(s)' /\ LeftBehind(s)' /\ QueueKnown(s)'
    BY <1>i, <1>j DEF Unarmed, LeftBehind, QueueKnown
  <2>3. WindowLasts(s)'
    <3>1. session[s].beat <= BeatTTL
      BY DEF DeviceKnown, Device, WindowLasts
    <3>2. rec + GraceTTL <= replay \/ replay = ttl
      BY <1>b, <1>c, TimesAssumption
    <3> QED BY <1>b, <1>g, <1>h, <1>i, <3>1, <3>2 DEF WindowLasts
  <2>4. RecordingKnown(s)'
    <3> SUFFICES ASSUME lease.holder = s, kit'[s].rec > 0 PROVE kit'[s].rec <= rec
      BY <1>g, <1>h DEF RecordingKnown
    <3>1. rec <= rec
      BY <1>b
    <3>2. CASE kit'[s].rec = rec
      BY <3>1, <3>2
    <3>3. CASE kit'[s].rec = kit[s].rec
      <4>1. kit[s].rec <= auth[s].rec
        BY <3>3 DEF DeviceKnown, Device, RecordingKnown
      <4>2. auth[s].rec <= ttl
        BY <1>a, RecordingEndsFirst, TimesTyped DEF WithinPass, Bounded, Authority
      <4>3. auth[s].rec <= RecordTTL
        BY DEF DeviceKnown, Device, WindowLasts
      <4>4. auth[s].rec \in Nat /\ kit[s].rec \in Nat
        BY TimesTyped, DeviceTyped DEF Authority
      <4> QED BY <1>b, <1>d, <3>3, <4>1, <4>2, <4>3, <4>4
    <3> QED BY <1>j, <3>2, <3>3
  <2> QED BY <2>1, <2>2, <2>3, <2>4 DEF Device
<1> QED BY <1>1, <1>2 DEF DeviceKnown

LEMMA RecordKnown ==
  ASSUME Authority, WithinPass, DeviceKnown, NEW s \in Sessions, RecordOffline(s)
  PROVE  DeviceKnown'
<1>a. /\ kit[s].rec > 0 /\ kit' = [kit EXCEPT ![s].queue = TRUE]
      /\ UNCHANGED <<pass, session, lease, auth, conflicts>>
  BY DEF RecordOffline
<1>b. kit'[s].rec = kit[s].rec /\ \A t \in Sessions \ {s} : kit'[t] = kit[t]
  BY <1>a DEF Authority, TypeOK, Kit
<1>c. kit[s].rec \in Nat
  BY DeviceTyped DEF Authority
<1>1. ASSUME NEW t \in Sessions, t # s PROVE Device(t)'
  <2>1. PassSame(t)
    BY <1>a DEF PassSame
  <2>2. Untouched(t)
    BY <1>1, <1>a, <1>b, <2>1 DEF Untouched
  <2> QED BY <2>2, UntouchedKeeps
<1>2. Device(s)'
  <2>a. Device(s)
    BY DEF DeviceKnown
  <2>1. PassIssued(s)' /\ WindowLasts(s)' /\ RecordingKnown(s)'
    BY <1>a, <1>b, <2>a DEF Device, PassIssued, WindowLasts, RecordingKnown
  <2>2. Unarmed(s)' /\ LeftBehind(s)'
    BY <1>a, <1>b, <1>c, <2>a DEF Device, Unarmed, LeftBehind
  <2>3. QueueKnown(s)'
    <3> SUFFICES ASSUME lease.holder = s PROVE QueueCovered(s)
      BY <1>a DEF QueueKnown, QueueCovered, Reserved
    <3>1. auth[s].status = "active" /\ kit[s].rec <= auth[s].rec
      BY <1>a, <2>a DEF Device, RecordingKnown
    <3>2. /\ auth[s].rec \in Nat /\ auth[s].replay \in Nat /\ session[s].beat \in Nat
      BY TimesTyped DEF Authority
    <3>3. auth[s].rec > 0 /\ auth[s].rec <= auth[s].replay
      BY <1>a, <1>c, <3>1, <3>2, RecordingEndsFirst
    <3>4. Reserved(s)
      BY <3>1, <3>2, <3>3 DEF Reserved
    <3>5. \/ auth[s].rec + GraceTTL <= auth[s].replay
          \/ auth[s].replay = pass[session[s].pass].ttl
      BY <2>a, <3>3 DEF Device, WindowLasts
    <3>6. session[s].beat <= BeatTTL
      BY <2>a DEF Device, WindowLasts
    <3>7. auth[s].rec + GraceTTL <= auth[s].replay => session[s].beat <= auth[s].replay
      BY <3>2, <3>6, TimesAssumption, GraceAssumption
    <3> QED BY <3>4, <3>5, <3>7 DEF QueueCovered
  <2> QED BY <2>1, <2>2, <2>3 DEF Device
<1> QED BY <1>1, <1>2 DEF DeviceKnown

LEMMA TickKnown ==
  ASSUME Authority, WithinPass, DeviceKnown, Tick
  PROVE  DeviceKnown'
<1> SUFFICES ASSUME NEW s \in Sessions PROVE Device(s)'
  BY DEF DeviceKnown
<1>a. Device(s)
  BY DEF DeviceKnown
<1>b. /\ session'[s].pass = session[s].pass /\ session'[s].mode = session[s].mode
      /\ session'[s].beat = Elapsed(session[s].beat)
      /\ session'[s].pending = session[s].pending
  <2>1. session[s] \in SessionRow
    BY DEF Authority, TypeOK
  <2>2. session'[s] = [session[s] EXCEPT !.ttl = Elapsed(session[s].ttl),
                                         !.beat = Elapsed(session[s].beat)]
    BY DEF Tick
  <2>3. session'[s].pass = session[s].pass /\ session'[s].mode = session[s].mode
    BY <2>1, <2>2 DEF SessionRow
  <2>4. session'[s].beat = Elapsed(session[s].beat) /\ session'[s].pending = session[s].pending
    BY <2>1, <2>2 DEF SessionRow
  <2> QED BY <2>3, <2>4
<1>c. /\ auth'[s].rec = Elapsed(auth[s].rec) /\ auth'[s].replay = Elapsed(auth[s].replay)
      /\ auth'[s].status = auth[s].status
  <2>1. auth[s] \in AuthRow
    BY DEF Authority, TypeOK
  <2>2. auth'[s] = [auth[s] EXCEPT !.rec = Elapsed(auth[s].rec),
                                   !.replay = Elapsed(auth[s].replay)]
    BY DEF Tick
  <2> QED BY <2>1, <2>2 DEF AuthRow
<1>d. kit'[s].rec = Elapsed(kit[s].rec) /\ kit'[s].queue = kit[s].queue
  <2>1. kit[s] \in Kit
    BY DEF Authority, TypeOK
  <2>2. kit'[s] = [kit[s] EXCEPT !.rec = Elapsed(kit[s].rec)]
    BY DEF Tick
  <2> QED BY <2>1, <2>2 DEF Kit
<1>e. /\ \A p \in Passes : pass'[p].ttl = Elapsed(pass[p].ttl) /\ pass'[p].status = pass[p].status
      /\ lease'.holder = lease.holder /\ conflicts' = conflicts
  BY DEF Tick, Authority, TypeOK, PassRow, LeaseRow
<1>f. /\ auth[s].rec \in Nat /\ auth[s].replay \in Nat /\ session[s].beat \in Nat
      /\ kit[s].rec \in Nat
  BY TimesTyped, DeviceTyped DEF Authority
<1>g. session[s].mode # "unused" =>
        /\ session[s].pass \in Passes /\ pass[session[s].pass].ttl \in Nat
        /\ pass'[session[s].pass].ttl = Elapsed(pass[session[s].pass].ttl)
  BY <1>e, TimesTyped DEF Authority, PassKnown
<1>1. PassIssued(s)'
  BY <1>a, <1>b, <1>e DEF Device, PassIssued
<1>2. Unarmed(s)'
  BY <1>a, <1>b, <1>d DEF Device, Unarmed, Elapsed
<1>3. WindowLasts(s)'
  <2>1. auth'[s].rec <= RecordTTL /\ session'[s].beat <= BeatTTL
    BY <1>a, <1>b, <1>c, <1>f, TimesAssumption DEF Device, WindowLasts, Elapsed
  <2>2. SUFFICES ASSUME auth'[s].rec > 0
                 PROVE  \/ auth'[s].rec + GraceTTL <= auth'[s].replay
                        \/ auth'[s].replay = pass'[session[s].pass].ttl
    BY <1>b, <2>1 DEF WindowLasts
  <2>3. auth[s].rec > 0 /\ auth'[s].rec = auth[s].rec - 1 /\ auth[s].replay > 0
    BY <1>c, <1>f, <2>2, RecordingEndsFirst DEF Elapsed
  <2>4. CASE auth[s].rec + GraceTTL <= auth[s].replay
    BY <1>c, <1>f, <2>3, <2>4, TimesAssumption DEF Elapsed
  <2>5. CASE auth[s].replay = pass[session[s].pass].ttl
    <3>1. session[s].mode # "unused"
      BY <1>f, <2>3 DEF WithinPass, NothingEarly
    <3> QED BY <1>c, <1>g, <2>5, <3>1
  <2> QED BY <1>a, <2>3, <2>4, <2>5 DEF Device, WindowLasts
<1>4. RecordingKnown(s)'
  <2>1. kit[s].rec <= auth[s].rec => Elapsed(kit[s].rec) <= Elapsed(auth[s].rec)
    BY <1>f, ElapsedMonotone
  <2>2. Elapsed(kit[s].rec) > 0 => kit[s].rec > 0
    BY <1>f DEF Elapsed
  <2> QED BY <1>a, <1>c, <1>d, <1>e, <2>1, <2>2 DEF Device, RecordingKnown
<1>5. QueueKnown(s)'
  <2> SUFFICES ASSUME lease.holder = s, kit[s].queue, ~session[s].pending
               PROVE  QueueCovered(s)'
    BY <1>b, <1>d, <1>e DEF QueueKnown
  <2>a. session[s].mode # "unused"
    BY DEF Authority, LeaseHolderAuthoritative
  <2>b. QueueCovered(s)
    BY <1>a DEF Device, QueueKnown
  <2>c. /\ pass[session[s].pass].ttl \in Nat
        /\ pass'[session[s].pass].ttl = Elapsed(pass[session[s].pass].ttl)
    BY <1>g, <2>a
  <2>1. CASE session[s].beat = 0
    BY <1>b, <2>1 DEF QueueCovered, Elapsed
  <2>2. CASE pass[session[s].pass].ttl = 0
    BY <1>b, <2>c, <2>2 DEF QueueCovered, Elapsed
  <2>3. CASE /\ Reserved(s)
             /\ session[s].beat <= auth[s].replay \/ auth[s].replay = pass[session[s].pass].ttl
    <3>1. \/ Elapsed(session[s].beat) <= Elapsed(auth[s].replay)
          \/ Elapsed(auth[s].replay) = Elapsed(pass[session[s].pass].ttl)
      BY <1>f, <2>3, ElapsedMonotone
    <3>2. CASE auth'[s].replay = 0
      <4>1. session'[s].beat = 0 \/ pass'[session[s].pass].ttl = 0
        BY <1>b, <1>c, <1>f, <2>c, <3>1, <3>2 DEF Elapsed
      <4> QED BY <1>b, <4>1 DEF QueueCovered
    <3>3. CASE auth'[s].replay # 0
      <4>1. Reserved(s)'
        BY <1>c, <1>f, <2>3, <3>3 DEF Reserved, Elapsed
      <4> QED BY <1>b, <1>c, <2>c, <3>1, <4>1 DEF QueueCovered
    <3> QED BY <3>2, <3>3
  <2> QED BY <2>b, <2>1, <2>2, <2>3 DEF QueueCovered
<1>6. LeftBehind(s)'
  <2>1. kit'[s].rec > 0 => kit[s].rec > 0
    BY <1>d, <1>f DEF Elapsed
  <2>2. session[s].mode = "transferred" /\ pass[session[s].pass].ttl = 0 =>
          pass'[session[s].pass].ttl = 0
    BY <1>g DEF Elapsed
  <2> QED BY <1>a, <1>b, <1>d, <1>e, <2>1, <2>2 DEF Device, LeftBehind
<1> QED BY <1>1, <1>2, <1>3, <1>4, <1>5, <1>6 DEF Device

\* The steps in which the server hears of a device's queue.
LEMMA HeartbeatKnown ==
  ASSUME Authority, WithinPass, DeviceKnown, NEW s \in Sessions,
         Heartbeat(s) \/ RequestTakeover(s) \/ ResumeOfflineAuthorization(s)
  PROVE  DeviceKnown'
<1>a. UNCHANGED <<pass, auth, conflicts, kit>>
  BY DEF Heartbeat, RequestTakeover, ResumeOfflineAuthorization
<1>b. PICK ttl : session' = [session EXCEPT ![s].ttl = ttl, ![s].beat = BeatTTL,
                                            ![s].pending = kit[s].queue]
  <2>1. CASE Heartbeat(s)
    BY <2>1 DEF Heartbeat
  <2>2. CASE RequestTakeover(s)
    <3>1. session' = [session EXCEPT ![s].ttl = session[s].ttl, ![s].beat = BeatTTL,
                                     ![s].pending = kit[s].queue]
      BY <2>2 DEF RequestTakeover, Authority, TypeOK, SessionRow
    <3> QED BY <3>1
  <2>3. CASE ResumeOfflineAuthorization(s)
    BY <2>3 DEF ResumeOfflineAuthorization
  <2> QED BY <2>1, <2>2, <2>3
<1>c. lease'.holder = lease.holder
  <2>1. CASE Heartbeat(s) \/ RequestTakeover(s)
    BY <2>1 DEF Heartbeat, RequestTakeover, Authority, TypeOK, LeaseRow
  <2>2. CASE ResumeOfflineAuthorization(s)
    BY <2>2 DEF ResumeOfflineAuthorization, Authority, ReservationHonoured
  <2> QED BY <2>1, <2>2
<1>d. \A t \in Sessions \ {s} : session'[t] = session[t]
  BY <1>b DEF Authority, TypeOK
<1>e. /\ session'[s].mode = session[s].mode /\ session'[s].pass = session[s].pass
      /\ session'[s].beat = BeatTTL /\ session'[s].pending = kit[s].queue
  BY <1>b DEF Authority, TypeOK, SessionRow
<1>f. \A t \in Sessions : PassSame(t)
  BY <1>a DEF PassSame
<1>1. ASSUME NEW t \in Sessions, t # s PROVE Device(t)'
  <2>1. Untouched(t)
    BY <1>1, <1>a, <1>c, <1>d, <1>f DEF Untouched
  <2> QED BY <2>1, UntouchedKeeps
<1>2. Device(s)'
  <2>1. Quiet(s)
    BY <1>a, <1>c, <1>e, <1>f DEF Quiet, Heard, LeaseNoMore, KitNoMore
  <2> QED BY <2>1, QuietKeeps DEF DeviceKnown
<1> QED BY <1>1, <1>2 DEF DeviceKnown

LEMMA AppendKnown ==
  ASSUME Authority, WithinPass, DeviceKnown, NEW s \in Sessions, NEW replayed \in BOOLEAN,
         AppendScoreEvent(s, replayed) \/ Finalise(s, replayed)
  PROVE  DeviceKnown'
<1>a. UNCHANGED <<pass, auth, conflicts>>
  BY DEF AppendScoreEvent, Finalise
<1>b. session' = session \/ session' = [session EXCEPT ![s].beat = BeatTTL]
  BY DEF AppendScoreEvent, Finalise
<1>c. lease'.holder = lease.holder
  BY DEF AppendScoreEvent, Finalise, Authority, TypeOK, LeaseRow
<1>d. \/ ~kit[s].queue /\ kit' = kit
      \/ /\ kit[s].queue /\ session[s].pending
         /\ \E rest \in BOOLEAN : kit' = [kit EXCEPT ![s].queue = rest]
  BY DEF AppendScoreEvent, Finalise, MayReplay
<1>e. \A t \in Sessions \ {s} : session'[t] = session[t] /\ kit'[t] = kit[t]
  BY <1>b, <1>d DEF Authority, TypeOK
<1>f. /\ session'[s].mode = session[s].mode /\ session'[s].pass = session[s].pass
      /\ session'[s].pending = session[s].pending
      /\ session'[s].beat = session[s].beat \/ session'[s].beat = BeatTTL
  BY <1>b DEF Authority, TypeOK, SessionRow
<1>g. kit'[s].rec = kit[s].rec /\ (kit'[s].queue => kit[s].queue /\ session[s].pending)
  BY <1>d DEF Authority, TypeOK, Kit
<1>h. \A t \in Sessions : PassSame(t)
  BY <1>a DEF PassSame
<1>1. ASSUME NEW t \in Sessions, t # s PROVE Device(t)'
  <2>1. Untouched(t)
    BY <1>1, <1>a, <1>c, <1>e, <1>h DEF Untouched
  <2> QED BY <2>1, UntouchedKeeps
<1>2. Device(s)'
  <2>1. Quiet(s)
    BY <1>a, <1>c, <1>f, <1>g, <1>h DEF Quiet, Heard, LeaseNoMore, KitNoMore
  <2> QED BY <2>1, QuietKeeps DEF DeviceKnown
<1> QED BY <1>1, <1>2 DEF DeviceKnown

\* A session that loses its rights loses the lease.
LEMMA RevokeKnown ==
  ASSUME Authority, WithinPass, DeviceKnown, NEW p \in Passes, RevokeAccessPass(p)
  PROVE  DeviceKnown'
<1> SUFFICES ASSUME NEW t \in Sessions PROVE Quiet(t)
  BY QuietKeeps DEF DeviceKnown
<1>a. UNCHANGED <<conflicts, kit>>
  BY DEF RevokeAccessPass
<1>b. /\ session'[t].mode = session[t].mode /\ session'[t].pass = session[t].pass
      /\ session'[t].beat = session[t].beat /\ session'[t].pending = session[t].pending
  BY DEF RevokeAccessPass, Authority, TypeOK, SessionRow
<1>c. /\ auth'[t].rec = auth[t].rec /\ auth'[t].replay = auth[t].replay
      /\ session[t].pass # p => auth'[t].status = auth[t].status
  BY DEF RevokeAccessPass, Authority, TypeOK, AuthRow
<1>d. PassSame(t)
  BY DEF RevokeAccessPass, PassSame, Authority, TypeOK, PassRow
<1>e. lease'.holder = t => lease.holder = t /\ session[t].pass # p
  BY SetsAssumption DEF RevokeAccessPass, NoLease
<1> QED BY <1>a, <1>b, <1>c, <1>d, <1>e DEF Quiet, Heard, LeaseNoMore, KitNoMore

LEMMA RevokeOfflineKnown ==
  ASSUME Authority, WithinPass, DeviceKnown, NEW s \in Sessions, NEW preserve \in BOOLEAN,
         RevokeOfflineAuthorization(s, preserve)
  PROVE  DeviceKnown'
<1>a. /\ UNCHANGED <<pass, conflicts>>
      /\ preserve => ~kit[s].queue
      /\ auth[s].status = "active"
      /\ kit' = [kit EXCEPT ![s].secret = FALSE, ![s].rec = 0]
      /\ auth' = [auth EXCEPT ![s].status = "revoked"]
  BY DEF RevokeOfflineAuthorization
<1>b. session' = session \/ session' = [session EXCEPT ![s].revoked = TRUE]
  BY DEF RevokeOfflineAuthorization
<1>c. lease' = lease \/ lease'.holder = None
  BY DEF RevokeOfflineAuthorization, NoLease
<1>d. \A t \in Sessions \ {s} : /\ session'[t] = session[t] /\ kit'[t] = kit[t]
                                /\ auth'[t] = auth[t]
  BY <1>a, <1>b DEF Authority, TypeOK
<1>e. \A t \in Sessions : PassSame(t)
  BY <1>a DEF PassSame
<1>f. \A t \in Sessions : lease'.holder = t => lease.holder = t
  BY <1>c, SetsAssumption
<1>1. ASSUME NEW t \in Sessions, t # s PROVE Device(t)'
  <2>1. Untouched(t)
    BY <1>1, <1>a, <1>d, <1>e, <1>f DEF Untouched
  <2> QED BY <2>1, UntouchedKeeps
<1>2. Device(s)'
  <2>1. kit'[s].rec = 0 /\ kit'[s].queue = kit[s].queue
    BY <1>a DEF Authority, TypeOK, Kit
  <2>2. /\ session'[s].mode = session[s].mode /\ session'[s].pass = session[s].pass
        /\ session'[s].beat = session[s].beat /\ session'[s].pending = session[s].pending
    BY <1>b DEF Authority, TypeOK, SessionRow
  <2>3. auth'[s].rec = auth[s].rec /\ auth'[s].replay = auth[s].replay
    BY <1>a DEF Authority, TypeOK, AuthRow
  <2>4. lease'.holder = s => preserve
    <3> SUFFICES ASSUME ~preserve, lease.holder = s PROVE lease'.holder # s
      BY <1>f
    <3>1. lease.gen = auth[s].gen
      BY <1>a DEF Authority, LeaseHolderAuthoritative, AuthorizationCurrent
    <3> QED BY <3>1, SetsAssumption DEF RevokeOfflineAuthorization, NoLease
  <2>5. LeaseNoMore(s)
    BY <1>a, <1>f, <2>1, <2>4 DEF LeaseNoMore
  <2>6. Quiet(s)
    BY <1>a, <1>e, <2>1, <2>2, <2>3, <2>5 DEF Quiet, Heard, KitNoMore
  <2> QED BY <2>6, QuietKeeps DEF DeviceKnown
<1> QED BY <1>1, <1>2 DEF DeviceKnown

LEMMA TooLateKnown ==
  ASSUME Authority, WithinPass, DeviceKnown, NEW s \in Sessions, ResumeTooLate(s)
  PROVE  DeviceKnown'
<1> SUFFICES ASSUME NEW t \in Sessions PROVE Untouched(t)
  BY UntouchedKeeps DEF DeviceKnown
<1>a. /\ UNCHANGED <<pass, session, lease, conflicts, kit>>
      /\ auth' = [auth EXCEPT ![s].status = "expired"]
      /\ auth[s].replay = 0 \/ pass[session[s].pass].ttl = 0
  BY DEF ResumeTooLate
<1>b. auth[s].replay = 0
  <2>1. auth[s].replay \in Nat
    BY TimesTyped DEF Authority
  <2>2. CASE session[s].mode = "unused"
    BY <2>2 DEF WithinPass, NothingEarly
  <2>3. CASE session[s].mode # "unused"
    <3>1. session[s].pass \in Passes /\ auth[s].replay <= pass[session[s].pass].ttl
      BY <2>3 DEF Authority, PassKnown, WithinPass, Bounded
    <3> QED BY <1>a, <2>1, <3>1
  <2> QED BY <2>2, <2>3
<1>c. PassSame(t)
  BY <1>a DEF PassSame
<1>d. auth'[t].rec = auth[t].rec /\ auth'[t].replay = auth[t].replay
  BY <1>a DEF Authority, TypeOK, AuthRow
<1>e. t # s => auth'[t] = auth[t]
  BY <1>a DEF Authority, TypeOK
<1> QED BY <1>a, <1>b, <1>c, <1>d, <1>e DEF Untouched

LEMMA CreateKnown ==
  ASSUME Authority, WithinPass, DeviceKnown, NEW p \in Passes, CreateAccessPass(p)
  PROVE  DeviceKnown'
<1> SUFFICES ASSUME NEW t \in Sessions PROVE Untouched(t)
  BY UntouchedKeeps DEF DeviceKnown
<1>1. UNCHANGED <<session, lease, auth, conflicts, kit>>
  BY DEF CreateAccessPass
<1>2. session[t].pass # p
  BY DEF CreateAccessPass, DeviceKnown, Device, PassIssued
<1>3. PassSame(t)
  BY <1>2 DEF CreateAccessPass, PassSame, Authority, TypeOK
<1> QED BY <1>1, <1>3 DEF Untouched

LEMMA DeviceStep ==
  ASSUME Authority, WithinPass, DeviceKnown, [Next]_vars
  PROVE  DeviceKnown'
<1>1. ASSUME UNCHANGED <<pass, session, lease, auth, conflicts, kit>> PROVE DeviceKnown'
  <2> SUFFICES ASSUME NEW t \in Sessions PROVE Untouched(t)
    BY UntouchedKeeps DEF DeviceKnown
  <2> QED BY <1>1 DEF Untouched, PassSame
<1>2. ASSUME NEW s \in Sessions, DenyTakeover(s) PROVE DeviceKnown'
  BY <1>1, <1>2 DEF DenyTakeover
<1>3. ASSUME ReopenMatch \/ CorrectMatch \/ UNCHANGED vars PROVE DeviceKnown'
  BY <1>1, <1>3 DEF ReopenMatch, CorrectMatch, vars
<1>4. ASSUME NEW late, ExpireTakeovers(late) PROVE DeviceKnown'
  BY <1>1, <1>4 DEF ExpireTakeovers
<1> QED
  BY <1>2, <1>3, <1>4, CreateKnown, RevokeKnown, ExchangeKnown, HeartbeatKnown, AppendKnown,
     ApproveKnown, IssueKnown, RevokeOfflineKnown, TooLateKnown, RecordKnown, TickKnown
     DEF Next, ExpireTakeoverRequests

(***************************************************************************)
(* In every execution the server knows enough of each device: the holder's *)
(* unreported queue is covered by its authorization until the last         *)
(* heartbeat is old, and what a device was left with when the match went   *)
(* to another is on record.  Rests on GraceAssumption: authorizations stay *)
(* open for replay at least as long as a heartbeat counts.                 *)
(***************************************************************************)
THEOREM DevicesAreKnown == Spec => []DeviceKnown
<1>1. Authority /\ WithinPass /\ [Next]_vars => WithinPass'
  BY WithinPassStep
<1>2. Authority /\ WithinPass /\ DeviceKnown /\ [Next]_vars => DeviceKnown'
  BY DeviceStep
<1> QED
  BY <1>1, <1>2, WithinPassInit, DeviceInit, AuthorityHolds, PTL DEF Spec

(***************************************************************************)
(* No takeover, however timed, takes the match from a device with unsent   *)
(* events without a conflict for the organiser, unless its pass is over.   *)
(***************************************************************************)
THEOREM TransferIsOnRecord == Spec => []TransferLeavesConflict
<1>1. DeviceKnown => TransferLeavesConflict
  BY DEF DeviceKnown, Device, LeftBehind, TransferLeavesConflict
<1> QED BY <1>1, DevicesAreKnown, PTL
=============================================================================
