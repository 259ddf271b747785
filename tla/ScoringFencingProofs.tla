------------------------ MODULE ScoringFencingProofs ------------------------
(***************************************************************************)
(* Scoring access implements FencedWriter: every step maps to a grant, a   *)
(* withdrawal or a use of the right to write, or changes none of it.       *)
(***************************************************************************)
EXTENDS ScoringHandoverProofs, ScoringFencing

\* The token each session was given, as the mapping reads it.
Tokens == [s \in Sessions |-> session[s].gen]

\* A step that changes nothing of the mapped state, or only takes the right
\* to write away.
SilentStep ==
  /\ \A s \in Sessions : session'[s].gen = session[s].gen
  /\ lease'.holder \in {lease.holder, None}
  /\ fence' = fence

LEMMA QuietMaps ==
  ASSUME SilentStep
  PROVE  [Writer!Next]_(Writer!vars)
<1>1. Tokens' = Tokens /\ fence' = fence
  BY DEF SilentStep, Tokens
<1>2. CASE lease'.holder = lease.holder
  BY <1>1, <1>2 DEF Tokens, Writer!vars
<1>3. CASE lease'.holder = None
  BY <1>1, <1>3 DEF Tokens, Writer!Next, Writer!Withdraw
<1> QED BY <1>2, <1>3 DEF SilentStep

\* A step that gives one session a generation above all others and the
\* lease with it.
Granted(s) ==
  /\ lease'.holder = s
  /\ session'[s].gen \in Nat
  /\ \A t \in Sessions : session[t].gen < session'[s].gen
  /\ \A t \in Sessions \ {s} : session'[t].gen = session[t].gen
  /\ fence' = fence

LEMMA GrantedMaps ==
  ASSUME NEW s \in Sessions, Granted(s)
  PROVE  [Writer!Next]_(Writer!vars)
<1>1. Tokens' = [Tokens EXCEPT ![s] = Tokens'[s]]
  BY DEF Granted, Tokens
<1>2. Tokens'[s] \in Nat /\ \A t \in Sessions : Tokens[t] < Tokens'[s]
  BY DEF Granted, Tokens
<1>3. Writer!Grant(s)
  BY <1>1, <1>2 DEF Granted, Tokens, Writer!Grant
<1> QED BY <1>3 DEF Writer!Next

LEMMA SteadyMaps ==
  ASSUME Authority, Steady, [Next]_vars
  PROVE  [Writer!Next]_(Writer!vars)
<1>1. CASE FenceKept
  BY <1>1, QuietMaps DEF Steady, SilentStep, FenceKept
<1>2. CASE FenceSet
  <2> PICK s \in Sessions : lease.holder = s /\ fence' = session[s].gen
    BY <1>2 DEF FenceSet
  <2>1. \A t \in Sessions \ {s} : session[t].gen < session[s].gen
    BY SetsAssumption DEF Authority, LeaseIsNewest, LeaseHolderAuthoritative
  <2>2. Tokens' = Tokens /\ lease'.holder = lease.holder
    BY DEF Tokens, Steady
  <2>3. Writer!Write(s)
    BY <2>1, <2>2 DEF Tokens, Writer!Write
  <2> QED BY <2>3 DEF Writer!Next
<1> QED BY <1>1, <1>2, FenceCases

LEMMA ExchangeMaps ==
  ASSUME Authority, NEW s \in Sessions, NEW p \in Passes, NEW d \in Devices,
         ExchangeAccess(s, p, d)
  PROVE  [Writer!Next]_(Writer!vars)
<1>1. fence' = fence /\ session[s].gen = 0
  BY DEF ExchangeAccess, Authority, GenerationGiven
<1>2. CASE ExchangeAsWriter(s, p, d)
  <2> PICK g \in 1..Cardinality(Sessions) :
        NextGeneration(g) /\ NewSession(s, p, d, "writer", g) /\ lease'.holder = s
    BY <1>2 DEF ExchangeAsWriter
  <2>1. g \in Nat /\ \A t \in Sessions : session[t].gen < g
    BY NextGenerationFacts DEF Authority
  <2>2. session'[s].gen = g /\ \A t \in Sessions \ {s} : session'[t] = session[t]
    BY DEF NewSession, Authority, TypeOK
  <2> QED BY <1>1, <2>1, <2>2, GrantedMaps DEF Granted
<1>3. CASE ExchangeReadOnly(s, p, d)
  <2>1. session'[s].gen = 0 /\ \A t \in Sessions \ {s} : session'[t] = session[t]
    BY <1>3 DEF ExchangeReadOnly, NewSession, Authority, TypeOK
  <2> QED BY <1>1, <1>3, <2>1, QuietMaps DEF ExchangeReadOnly, SilentStep
<1> QED BY <1>2, <1>3 DEF ExchangeAccess

LEMMA ApproveMaps ==
  ASSUME Authority, NEW s \in Sessions, NEW ack \in BOOLEAN, ApproveTakeover(s, ack)
  PROVE  [Writer!Next]_(Writer!vars)
<1>1. Handover(s)
  BY ApproveEffects
<1>2. takeover[s].incumbent \in Sessions /\ lease.holder = takeover[s].incumbent
  BY DEF ApproveTakeover, Approvable
<1>3. \A t \in Sessions : session[t].gen \in Nat /\ session[t].gen <= lease.gen
  BY <1>2, SetsAssumption
     DEF Authority, TypeOK, SessionRow, LeaseRow, LeaseIsNewest, LeaseHolderAuthoritative
<1>4. PICK i \in Sessions :
        session' = [session EXCEPT ![i].mode = "transferred", ![s].mode = "writer",
                                   ![s].gen = lease.gen + 1, ![s].beat = BeatTTL]
  BY <1>1, <1>2 DEF Handover
<1>5. session'[s].gen = lease.gen + 1 /\ lease.gen \in Nat
  BY <1>4 DEF Authority, TypeOK, SessionRow, LeaseRow
<1>6. \A t \in Sessions \ {s} : session'[t].gen = session[t].gen
  BY <1>4 DEF Authority, TypeOK, SessionRow
<1>7. fence' = fence
  BY DEF ApproveTakeover
<1>8. lease'.holder = s
  BY <1>1 DEF Handover
<1>9. \A t \in Sessions : session[t].gen < session'[s].gen
  BY <1>3, <1>5
<1> QED BY <1>5, <1>6, <1>7, <1>8, <1>9, GrantedMaps DEF Granted

\* The remaining steps of the five that decide who holds the match.
LEMMA QuietSteps ==
  ASSUME Authority,
         \/ \E p \in Passes : RevokeAccessPass(p)
         \/ \E s \in Sessions, choice \in BOOLEAN :
              \/ IssueOfflineAuthorization(s, choice)
              \/ RevokeOfflineAuthorization(s, choice)
  PROVE  SilentStep
<1>1. ASSUME NEW p \in Passes, RevokeAccessPass(p) PROVE SilentStep
  <2>1. \A s \in Sessions : session'[s].gen = session[s].gen
    BY <1>1 DEF RevokeAccessPass, Authority, TypeOK, SessionRow
  <2> QED BY <1>1, <2>1 DEF RevokeAccessPass, NoLease, SilentStep
<1>2. ASSUME NEW s \in Sessions, NEW choice \in BOOLEAN, IssueOfflineAuthorization(s, choice)
      PROVE  SilentStep
  <2>1. session' = [session EXCEPT ![s].pending = FALSE]
    BY <1>2 DEF IssueOfflineAuthorization
  <2>2. \A t \in Sessions : session'[t].gen = session[t].gen
    BY <2>1 DEF Authority, TypeOK, SessionRow
  <2> QED BY <1>2, <2>2 DEF IssueOfflineAuthorization, SilentStep
<1>3. ASSUME NEW s \in Sessions, NEW choice \in BOOLEAN, RevokeOfflineAuthorization(s, choice)
      PROVE  SilentStep
  <2>1. session' = session \/ session' = [session EXCEPT ![s].revoked = TRUE]
    BY <1>3 DEF RevokeOfflineAuthorization
  <2>2. \A t \in Sessions : session'[t].gen = session[t].gen
    BY <2>1 DEF Authority, TypeOK, SessionRow
  <2> QED BY <1>3, <2>2 DEF RevokeOfflineAuthorization, NoLease, SilentStep
<1> QED BY <1>1, <1>2, <1>3

(***************************************************************************)
(* For any sets of sessions, devices and passes and any lifetimes, scoring *)
(* access implements the fenced writer: at most one session owns the right *)
(* to write, each grant carries a new greatest generation, and accepted    *)
(* events carry the newest generation granted.                             *)
(***************************************************************************)
THEOREM ScoringIsAFencedWriter == Spec => OneFencedWriter
<1>1. Init => Writer!Init
  BY DEF Init, NoLease, Writer!Init
<1>2. Authority /\ [Next]_vars => [Writer!Next]_(Writer!vars)
  <2> SUFFICES ASSUME Authority, [Next]_vars PROVE [Writer!Next]_(Writer!vars)
    OBVIOUS
  <2>1. CASE Steady
    BY <2>1, SteadyMaps
  <2>2. CASE Deciding
    BY <2>2, ExchangeMaps, ApproveMaps, QuietSteps, QuietMaps DEF Deciding
  <2> QED BY <2>1, <2>2, StepCases
<1> QED
  BY <1>1, <1>2, AuthorityHolds, PTL DEF Spec, OneFencedWriter, Writer!Spec
=============================================================================
