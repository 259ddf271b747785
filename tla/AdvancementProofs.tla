------------------------- MODULE AdvancementProofs -------------------------
(* The invariant behind Advancement, and the theorems it contains, for any  *)
(* format: any matches, pool, sources of the sides and number of versions.  *)
(*                                                                          *)
(* The two recalculations agree on what a side fed by a match should hold,  *)
(* so such a side always follows the results while its match waits, and a   *)
(* side a recalculation read as waiting is right even when its match starts *)
(* before the write.  What holds this together is that nobody can start a   *)
(* match before its feeding matches have results, and that a match with a   *)
(* result keeps its participants.                                           *)
EXTENDS Advancement, TLAPS

\* The sides fed by another match.
Fed == Derived \ Ranked
Feeder(s) == Source[s].match
Follows(s) == entry[s] = Sent(Source[s].kind, Feeder(s), result)

\* A slot and the side it is about never differ.
Aligned == \A s \in Derived : slot[s].entry = entry[s]

\* A side fed by a match follows the results as long as its match waits.
WaitingFollows == \A s \in Fed : state[s[1]] = "waiting" => Follows(s)

\* A side holds someone, and its match is given out for scoring, only when
\* the match that feeds it has a result.
FilledIsFed == \A s \in Fed : entry[s] # None => result[Feeder(s)] # None
AdmittedIsFed == \A s \in Fed : s[1] \in admitted => result[Feeder(s)] # None

\* What a recalculation in flight may rely on.
ReadStillFollows ==
  \A s \in Fed : s[1] \in job.read /\ state[s[1]] # "waiting" =>
    Follows(s) /\ result[Feeder(s)] # None
JobOK ==
  job # None =>
    /\ ReadStillFollows
    /\ Waiting \subseteq job.read \cup job.forfeits
    /\ job.read \cap job.forfeits = {}
    /\ \A m \in job.forfeits : result[m] = None
    /\ job.leaver # None => version < MaxVersion

\* Standings lag behind the result version, and published ones mean that
\* something has been published.
StandingsPast ==
  /\ standings.version <= version
  /\ standings.by = "publication" =>
       version > 0 /\ \E m \in Matches : result[m] # None

IInv ==
  /\ TypeOK
  /\ Aligned
  /\ WaitingFollows
  /\ FilledIsFed
  /\ AdmittedIsFed
  /\ JobOK
  /\ StandingsPast
  /\ DivergenceIsRecorded

-----------------------------------------------------------------------------
\* Every derived side is a side of its match, and a fed one has a feeder.
LEMMA Sidedness ==
  ASSUME FormatAssumption
  PROVE  /\ \A s \in Sides : s = <<s[1], s[2]>> /\ s[1] \in Matches /\ s[2] \in {"home", "away"}
         /\ \A s \in Fed : /\ s \in Sides /\ s \in Derived
                           /\ Feeder(s) \in Matches
                           /\ Source[s].kind \in {"winner", "loser"}
         /\ \A s \in Derived : s \in Sides /\ (s \in Fed \/ s \in Ranked)
         /\ \A s \in Seeded : s \in Sides /\ Source[s].entry \in Entries
BY DEF FormatAssumption, Sides, Fed, Feeder, Derived, Seeded, Ranked

\* What stands at a rank is an entry of the pool, or nothing.
LEMMA RankType ==
  ASSUME FormatAssumption, NEW r, NEW res, NEW gone
  PROVE  AtRank(r, res, gone) \in Entries \cup {None}
<1>1. ASSUME NEW f \in Fixtures
      PROVE  f.home \in Entries /\ f.away \in Entries
  <2>1. PICK m \in Pool :
          f = [match |-> m, home |-> Source[<<m, "home">>].entry,
                            away |-> Source[<<m, "away">>].entry]
    BY Zenon DEF Fixtures
  <2>2. <<m, "home">> \in Seeded /\ <<m, "away">> \in Seeded
    BY DEF FormatAssumption
  <2>3. QED
    BY <2>1, <2>2, Sidedness
<1>2. PoolEntries \subseteq Entries
  BY <1>1 DEF PoolEntries
<1> DEFINE here == {e \in PoolEntries \ gone :
                      Cardinality({f \in PoolEntries \ gone : Above(f, e, res)}) = r - 1}
<1>3. here \subseteq Entries
  BY <1>2
<1>4. AtRank(r, res, gone) = IF here = {} THEN None ELSE CHOOSE e \in here : TRUE
  BY Zenon DEF AtRank
<1> HIDE DEF here
<1>5. QED
  BY <1>3, <1>4

\* Changes the database accepts leave a match with a result its participants.
LEMMA ResultKeepsPlayers ==
  ASSUME NEW new, Accepted(new), NEW m \in Matches, result[m] # None
  PROVE  /\ new[<<m, "home">>] = entry[<<m, "home">>]
         /\ new[<<m, "away">>] = entry[<<m, "away">>]
BY DEF Accepted, Players

LEMMA InitialStates == Init => IInv
<1> SUFFICES ASSUME Init PROVE IInv
  OBVIOUS
<1> USE FormatAssumption, Sidedness
<1>1. TypeOK
  BY DEF Init, TypeOK, Empty
<1>2. Aligned
  BY DEF Init, Aligned, Empty, Derived
<1>3. FilledIsFed /\ AdmittedIsFed
  BY DEF Init, FilledIsFed, AdmittedIsFed, Fed, Derived
<1>4. WaitingFollows
  BY DEF Init, WaitingFollows, Follows, Sent, Fed, Derived
<1>5. JobOK
  BY DEF Init, JobOK
<1>6. StandingsPast /\ DivergenceIsRecorded
  BY DEF Init, StandingsPast, DivergenceIsRecorded
<1>7. QED
  BY <1>1, <1>2, <1>3, <1>4, <1>5, <1>6 DEF IInv

-----------------------------------------------------------------------------
(* Steps that change no participants, slots or results                      *)

\* Participants, slots and results as they were, and no match back to waiting.
Still ==
  /\ UNCHANGED <<entry, result, slot, conflict, standings>>
  /\ \A m \in Matches : state'[m] = "waiting" => state[m] = "waiting"

LEMMA StillSteps ==
  ASSUME IInv, Still
  PROVE  Aligned' /\ WaitingFollows' /\ FilledIsFed'
<1> USE Sidedness, FormatAssumption
<1>1. Aligned'
  BY DEF IInv, Aligned, Still
<1>2. FilledIsFed'
  BY DEF IInv, FilledIsFed, Still
<1>3. WaitingFollows'
  BY DEF IInv, WaitingFollows, Follows, Sent, Known, Players, Still
<1>4. QED
  BY <1>1, <1>2, <1>3

\* What is on record stays complete while nobody withdraws.
LEMMA StillRecorded ==
  ASSUME IInv, Still, version' = version, withdrawn' = withdrawn
  PROVE  StandingsPast' /\ DivergenceIsRecorded'
<1> USE Sidedness, FormatAssumption
<1>1. StandingsPast'
  BY DEF IInv, StandingsPast, Still
<1>2. DivergenceIsRecorded'
  BY DEF IInv, DivergenceIsRecorded, Decided, Sent, Known, Players, Still
<1>3. QED
  BY <1>1, <1>2

\* The recalculation in flight keeps what it relies on.
LEMMA StillRead ==
  ASSUME IInv, Still, job' = job, version' = version, job # None,
         \A m \in Matches : state[m] = "waiting" /\ state'[m] # "waiting" => m \in admitted
  PROVE  JobOK'
<1> USE Sidedness, FormatAssumption
<1>1. ASSUME NEW s \in Fed, s[1] \in job.read, state'[s[1]] # "waiting"
      PROVE  Follows(s) /\ result[Feeder(s)] # None
  <2>1. CASE state[s[1]] # "waiting"
    BY <1>1, <2>1 DEF IInv, JobOK, ReadStillFollows
  <2>2. CASE state[s[1]] = "waiting"
    BY <1>1, <2>2 DEF IInv, WaitingFollows, AdmittedIsFed
  <2>3. QED
    BY <2>1, <2>2
<1>2. ReadStillFollows'
  BY <1>1 DEF ReadStillFollows, Follows, Sent, Known, Players, Still
<1>3. (Waiting \subseteq job.read \cup job.forfeits)'
  BY DEF IInv, JobOK, Waiting, Still
<1>4. QED
  BY <1>2, <1>3 DEF IInv, JobOK, Still

LEMMA AdmitStep == ASSUME IInv, NEW m \in Matches, Admit(m) PROVE IInv'
<1> USE Sidedness, FormatAssumption
<1>1. Still /\ job' = job /\ version' = version /\ withdrawn' = withdrawn /\ state' = state
  BY DEF Admit, Still
<1>2. TypeOK'
  BY DEF IInv, TypeOK, Admit
<1>3. AdmittedIsFed'
  <2>1. ASSUME NEW s \in Fed, s[1] = m
        PROVE  result[Feeder(s)] # None
    BY <2>1 DEF IInv, FilledIsFed, Admit, Known, Players
  <2>2. QED
    BY <2>1 DEF IInv, AdmittedIsFed, Admit
<1>4. JobOK'
  <2>1. CASE job = None
    BY <2>1, <1>1 DEF JobOK
  <2>2. CASE job # None
    BY <2>2, <1>1, StillRead
  <2>3. QED
    BY <2>1, <2>2
<1>5. QED
  BY <1>1, <1>2, <1>3, <1>4, StillSteps, StillRecorded DEF IInv

LEMMA StartStep == ASSUME IInv, NEW m \in Matches, Start(m) PROVE IInv'
<1> USE Sidedness, FormatAssumption
<1>1. Still /\ job' = job /\ version' = version /\ withdrawn' = withdrawn
  BY DEF IInv, TypeOK, Start, Still
<1>2. TypeOK'
  BY DEF IInv, TypeOK, Start
<1>3. AdmittedIsFed'
  BY DEF IInv, AdmittedIsFed, Start
<1>4. JobOK'
  <2>1. CASE job = None
    BY <2>1, <1>1 DEF JobOK
  <2>2. \A n \in Matches : state[n] = "waiting" /\ state'[n] # "waiting" => n \in admitted
    BY DEF IInv, TypeOK, Start
  <2>3. CASE job # None
    BY <2>2, <2>3, <1>1, StillRead
  <2>4. QED
    BY <2>1, <2>3
<1>5. QED
  BY <1>1, <1>2, <1>3, <1>4, StillSteps, StillRecorded DEF IInv

LEMMA ReopenStep == ASSUME IInv, NEW m \in Matches, Reopen(m) PROVE IInv'
<1> USE Sidedness, FormatAssumption
<1>1. /\ Still /\ job' = job /\ version' = version /\ withdrawn' = withdrawn
      /\ \A n \in Matches : state'[n] # "waiting" => state[n] # "waiting"
  BY DEF IInv, TypeOK, Reopen, Still
<1>2. TypeOK'
  BY DEF IInv, TypeOK, Reopen
<1>3. AdmittedIsFed'
  BY DEF IInv, AdmittedIsFed, Reopen
<1>4. JobOK'
  <2>1. CASE job = None
    BY <2>1, <1>1 DEF JobOK
  <2>2. CASE job # None
    BY <2>2, <1>1, StillRead
  <2>3. QED
    BY <2>1, <2>2
<1>5. QED
  BY <1>1, <1>2, <1>3, <1>4, StillSteps, StillRecorded DEF IInv

\* A result of another division makes the standings those of an older version.
LEMMA PublishElsewhereStep == ASSUME IInv, PublishElsewhere PROVE IInv'
<1> USE Sidedness, FormatAssumption
<1>1. Still
  BY DEF PublishElsewhere, Still
<1>2. TypeOK'
  BY DEF IInv, TypeOK, PublishElsewhere
<1>3. AdmittedIsFed' /\ JobOK'
  BY DEF IInv, AdmittedIsFed, JobOK, PublishElsewhere
<1>4. StandingsPast' /\ standings'.version # version'
  BY DEF IInv, TypeOK, StandingsPast, PublishElsewhere
<1>5. DivergenceIsRecorded'
  BY <1>4 DEF DivergenceIsRecorded
<1>6. QED
  BY <1>1, <1>2, <1>3, <1>4, <1>5, StillSteps DEF IInv

-----------------------------------------------------------------------------
(* A recalculation begins                                                   *)

\* What a recalculation reads as waiting is waiting.
LEMMA BeginSteps ==
  ASSUME IInv, Still, state' = state, version' = version, withdrawn' = withdrawn,
         admitted' = admitted,
         NEW leaver \in Leaving \cup {None}, NEW forfeits \in SUBSET Matches,
         \A m \in forfeits : result[m] = None,
         leaver # None => version < MaxVersion,
         job' = [leaver |-> leaver, forfeits |-> forfeits, read |-> Waiting \ forfeits]
  PROVE  IInv'
<1> USE Sidedness, FormatAssumption
<1>1. TypeOK'
  BY DEF IInv, TypeOK, Still, Waiting
<1>2. AdmittedIsFed'
  BY DEF IInv, AdmittedIsFed, Still
<1>3. /\ job'.leaver = leaver /\ job'.forfeits = forfeits
      /\ job'.read = Waiting \ forfeits /\ Waiting' = Waiting
  BY DEF Waiting
<1>4. ReadStillFollows'
  BY <1>3 DEF ReadStillFollows, Waiting
<1>5. JobOK'
  BY <1>3, <1>4 DEF JobOK, Still
<1>6. QED
  BY <1>1, <1>2, <1>5, StillSteps, StillRecorded DEF IInv

LEMMA RecalculateStep == ASSUME IInv, Recalculate PROVE IInv'
<1>1. job' = [leaver |-> None, forfeits |-> {}, read |-> Waiting \ {}]
  BY DEF Recalculate
<1>2. Still /\ UNCHANGED <<state, version, withdrawn, admitted>>
  BY DEF Recalculate, Still
<1>3. QED
  BY <1>1, <1>2, BeginSteps

LEMMA WithdrawStep == ASSUME IInv, NEW e \in Leaving, Withdraw(e) PROVE IInv'
<1>1. /\ job' = [leaver |-> e, forfeits |-> Forfeits(e), read |-> Waiting \ Forfeits(e)]
      /\ version < MaxVersion
  BY DEF Withdraw
<1>2. Still /\ UNCHANGED <<state, version, withdrawn, admitted>>
  BY DEF Withdraw, Still
<1>3. Forfeits(e) \in SUBSET Matches /\ \A m \in Forfeits(e) : result[m] = None
  BY DEF Forfeits, Waiting
<1>4. QED
  BY <1>1, <1>2, <1>3, BeginSteps

\* Once results are published, nobody withdraws without a recalculation.
LEMMA WithdrawEarlyStep == ASSUME IInv, NEW e \in Leaving, WithdrawEarly(e) PROVE IInv'
<1> USE Sidedness, FormatAssumption
<1>1. Still
  BY DEF WithdrawEarly, Still
<1>2. TypeOK'
  BY DEF IInv, TypeOK, WithdrawEarly
<1>3. AdmittedIsFed' /\ JobOK' /\ StandingsPast'
  BY DEF IInv, AdmittedIsFed, JobOK, StandingsPast, WithdrawEarly
<1>4. standings.by # "publication"
  BY DEF IInv, TypeOK, StandingsPast, WithdrawEarly, Started
<1>5. DivergenceIsRecorded'
  BY <1>1, <1>4 DEF DivergenceIsRecorded, Still
<1>6. QED
  BY <1>1, <1>2, <1>3, <1>5, StillSteps DEF IInv

LEMMA AbortStep == ASSUME IInv, Abort PROVE IInv'
<1>1. /\ Still /\ version' = version /\ withdrawn' = withdrawn
  BY DEF Abort, Still
<1>2. TypeOK' /\ AdmittedIsFed' /\ JobOK'
  BY DEF IInv, TypeOK, AdmittedIsFed, JobOK, Abort
<1>3. QED
  BY <1>1, <1>2, StillSteps, StillRecorded DEF IInv

LEMMA StutterStep == ASSUME IInv, UNCHANGED vars PROVE IInv'
<1>1. /\ Still /\ version' = version /\ withdrawn' = withdrawn
  BY DEF vars, Still
<1>2. TypeOK' /\ AdmittedIsFed'
  BY DEF IInv, TypeOK, AdmittedIsFed, vars
<1>3. JobOK'
  <2>1. CASE job = None
    BY <2>1 DEF JobOK, vars
  <2>2. CASE job # None
    BY <1>1, <2>2, StillRead DEF vars
  <2>3. QED
    BY <2>1, <2>2
<1>4. QED
  BY <1>1, <1>2, <1>3, StillSteps, StillRecorded DEF IInv

-----------------------------------------------------------------------------
(* A result is published                                                    *)

\* The type of results, those there are and those a step makes.
Resulting(res) == res \in [Matches -> Outcomes \cup {"home", "away", None}]

LEMMA SentType ==
  ASSUME TypeOK, NEW kind, NEW m \in Matches, NEW res, Resulting(res)
  PROVE  Sent(kind, m, res) \in Entries \cup {None}
<1> USE FormatAssumption, Sidedness
<1>1. CASE res[m] \in {None, "draw"}
  BY <1>1 DEF Sent
<1>2. CASE res[m] \notin {None, "draw"}
  <2>1. res[m] \in {"home", "away"}
    BY <1>2 DEF Resulting
  <2>2. <<m, "home">> \in Sides /\ <<m, "away">> \in Sides
    BY DEF Sides
  <2>3. QED
    BY <2>1, <2>2 DEF Sent, TypeOK, Other
<1>3. QED
  BY <1>1, <1>2

LEMMA DecidedType ==
  ASSUME TypeOK, NEW s \in Derived, NEW res, Resulting(res)
  PROVE  Decided(s, res) \in Entries \cup {None}
<1> USE FormatAssumption, Sidedness
<1>1. CASE s \in Ranked
  BY <1>1, RankType DEF Decided
<1>2. CASE s \in Fed
  BY <1>2, SentType DEF Decided, Feeder, Fed
<1>3. QED
  BY <1>1, <1>2

LEMMA PublishStep ==
  ASSUME IInv, NEW m \in Matches, NEW outcome \in Outcomes, Publish(m, outcome),
         state[m] # "waiting"
  PROVE  IInv'
<1> USE FormatAssumption, Sidedness
<1> DEFINE moved == [s \in Sides |->
                       IF s \in Derived /\ Open(s) THEN Decided(s, result') ELSE entry[s]]
           changed(s) == slot[s].entry # Decided(s, result')
\* What the action does, side by side.
<1>1. /\ result' = [result EXCEPT ![m] = outcome]
      /\ state' = [state EXCEPT ![m] = "done"]
      /\ version' = version + 1 /\ version < MaxVersion /\ job = None /\ job' = None
      /\ standings' = [version |-> version + 1, by |-> "publication"]
      /\ admitted' = admitted /\ withdrawn' = withdrawn
  BY DEF Publish
<1>2. /\ Accepted(moved) /\ entry' = moved
      /\ slot' = [s \in Derived |->
                    IF ~Open(s) /\ changed(s) THEN slot[s]
                    ELSE [entry |-> Decided(s, result'), rule |-> "publication"]]
      /\ conflict' = [s \in Derived |->
                        IF ~Open(s) /\ changed(s) THEN version + 1 ELSE conflict[s]]
  BY DEF Publish, Advance
<1>3. /\ \A s \in Sides : entry'[s] = IF s \in Derived /\ Open(s)
                                      THEN Decided(s, result') ELSE entry[s]
      /\ \A s \in Derived : Open(s) => entry'[s] = Decided(s, result')
      /\ \A s \in Derived : ~Open(s) => entry'[s] = entry[s]
  BY <1>2
<1>4. Resulting(result') /\ outcome # None
  BY <1>1 DEF IInv, TypeOK, Resulting
<1>5. \A n \in Matches : result[n] # None => result'[n] # None
  BY <1>1, <1>4 DEF IInv, TypeOK
<1>6. \A n \in Matches : state[n] # "waiting" <=> state'[n] # "waiting"
  BY <1>1 DEF IInv, TypeOK
\* Matches with a result keep their participants, so what they decide is the
\* same before and after the move.
<1>7. ASSUME NEW n \in Matches, result'[n] # None
      PROVE  /\ entry'[<<n, "home">>] = entry[<<n, "home">>]
             /\ entry'[<<n, "away">>] = entry[<<n, "away">>]
  <2>1. CASE result[n] # None
    BY <1>2, <2>1, ResultKeepsPlayers
  <2>2. CASE n = m
    <3>1. <<m, "home">> \in Sides /\ <<m, "away">> \in Sides
      BY DEF Sides
    <3>2. ~Open(<<m, "home">>) /\ ~Open(<<m, "away">>)
      BY DEF Open
    <3>3. QED
      BY <1>3, <2>2, <3>1, <3>2
  <2>3. CASE n # m /\ result[n] = None
    BY <1>1, <1>7, <2>3 DEF IInv, TypeOK
  <2>4. QED
    BY <2>1, <2>2, <2>3
<1>8. ASSUME NEW s \in Derived
      PROVE  Decided(s, result') = Decided(s, result)'
  <2>1. CASE s \in Ranked
    BY <1>1, <2>1 DEF Decided
  <2>2. CASE s \in Fed
    <3>1. CASE result'[Feeder(s)] = None
      BY <2>2, <3>1 DEF Decided, Sent, Fed, Feeder
    <3>2. CASE result'[Feeder(s)] # None
      <4>1. result'[Feeder(s)] \in {"home", "away", "draw"}
        BY <1>4, <2>2, <3>2 DEF Resulting
      <4>2. QED
        BY <1>7, <2>2, <3>2, <4>1 DEF Decided, Sent, Fed, Feeder, Known, Players, Other
    <3>3. QED
      BY <3>1, <3>2
  <2>3. QED
    BY <2>1, <2>2
<1> HIDE DEF moved
<1>9. TypeOK'
  <2>1. \A s \in Derived : Decided(s, result') \in Entries \cup {None}
    BY <1>4, DecidedType DEF IInv
  <2>2. entry' \in [Sides -> Entries \cup {None}]
    BY <1>2, <2>1 DEF IInv, TypeOK, moved
  <2>3. slot' \in [Derived -> [entry : Entries \cup {None},
                               rule : {None, "publication", "recalculation"}]]
    BY <1>2, <2>1 DEF IInv, TypeOK
  <2>4. conflict' \in [Derived -> 0..MaxVersion]
    BY <1>1, <1>2 DEF IInv, TypeOK
  <2>5. /\ state' \in [Matches -> {"waiting", "playing", "done"}]
        /\ result' \in [Matches -> Outcomes \cup {"home", "away", None}]
        /\ version' \in 0..MaxVersion
        /\ standings' \in [version : 0..MaxVersion,
                           by : {None, "publication", "recalculation"}]
    BY <1>1 DEF IInv, TypeOK
  <2>6. QED
    BY <1>1, <2>2, <2>3, <2>4, <2>5 DEF IInv, TypeOK
<1>10. Aligned'
  <2>1. ASSUME NEW s \in Derived PROVE slot'[s].entry = entry'[s]
    <3>1. slot[s].entry = entry[s]
      BY DEF IInv, Aligned
    <3>2. CASE Open(s)
      BY <1>2, <1>3, <3>2
    <3>3. CASE ~Open(s) /\ changed(s)
      BY <1>2, <1>3, <3>1, <3>3
    <3>4. CASE ~Open(s) /\ ~changed(s)
      BY <1>2, <1>3, <3>1, <3>4
    <3>5. QED
      BY <3>2, <3>3, <3>4
  <2>2. QED
    BY <2>1 DEF Aligned
<1>11. WaitingFollows'
  <2>1. ASSUME NEW s \in Fed, state'[s[1]] = "waiting"
        PROVE  entry'[s] = Decided(s, result)'
    BY <1>3, <1>6, <1>8, <2>1 DEF Open
  <2>2. QED
    BY <2>1 DEF WaitingFollows, Follows, Decided, Fed, Feeder
<1>12. FilledIsFed'
  <2>1. ASSUME NEW s \in Fed, entry'[s] # None PROVE result'[Feeder(s)] # None
    <3>1. CASE Open(s)
      BY <1>3, <2>1, <3>1 DEF Decided, Sent, Fed, Feeder
    <3>2. CASE ~Open(s)
      BY <1>3, <1>5, <2>1, <3>2 DEF IInv, FilledIsFed
    <3>3. QED
      BY <3>1, <3>2
  <2>2. QED
    BY <2>1 DEF FilledIsFed, Feeder
<1>13. AdmittedIsFed' /\ JobOK'
  BY <1>1, <1>5 DEF IInv, AdmittedIsFed, JobOK, Feeder
<1>14. StandingsPast'
  BY <1>1, <1>4 DEF IInv, TypeOK, StandingsPast
\* A side that differs is that of a started match, and its slot differed too.
<1>15. DivergenceIsRecorded'
  <2>1. ASSUME NEW s \in Derived, entry'[s] # Decided(s, result)'
        PROVE  state'[s[1]] # "waiting" /\ conflict'[s] = version'
    <3>1. ~Open(s) /\ changed(s)
      BY <1>3, <1>8, <2>1 DEF IInv, Aligned
    <3>2. QED
      BY <1>1, <1>2, <1>6, <3>1 DEF Open
  <2>2. QED
    BY <2>1 DEF DivergenceIsRecorded
<1>16. QED
  BY <1>9, <1>10, <1>11, <1>12, <1>13, <1>14, <1>15 DEF IInv

-----------------------------------------------------------------------------
(* A recalculation writes                                                   *)

LEMMA CommitStep == ASSUME IInv, Commit PROVE IInv'
<1> USE FormatAssumption, Sidedness
<1> DEFINE moved == [s \in Sides |->
                       IF s \in Derived /\ Written(s) /\ (s \in Ranked \/ Open(s))
                       THEN Wanted(s) ELSE entry[s]]
<1>1. /\ job # None /\ job' = None
      /\ result' = Results
      /\ state' = [m \in Matches |-> IF m \in job.forfeits THEN "done" ELSE state[m]]
      /\ withdrawn' = Gone /\ version' = Now /\ admitted' = admitted
      /\ standings' = [version |-> Now, by |-> "recalculation"]
  BY DEF Commit
<1>2. /\ Accepted(moved) /\ entry' = moved
      /\ slot' = [s \in Derived |->
                    IF ~Written(s) THEN slot[s]
                    ELSE [entry |-> Wanted(s),
                          rule |-> IF s \in Ranked /\ slot[s].rule = "publication"
                                   THEN "publication" ELSE "recalculation"]]
      /\ conflict' = [s \in Derived |->
                        IF Asked(s) /\ Protected(s) /\ Held(s) # Wanted(s)
                        THEN Now ELSE conflict[s]]
  BY DEF Commit
<1>3. \A s \in Sides : entry'[s] = IF s \in Derived /\ Written(s) /\ (s \in Ranked \/ Open(s))
                                   THEN Wanted(s) ELSE entry[s]
  BY <1>2
<1>4. /\ job.leaver \in Leaving \cup {None} /\ job.forfeits \subseteq Matches
      /\ job.read \cap job.forfeits = {}
      /\ \A n \in job.forfeits : result[n] = None
      /\ Waiting \subseteq job.read \cup job.forfeits
      /\ ReadStillFollows
      /\ job.leaver # None => version < MaxVersion
  BY <1>1 DEF IInv, TypeOK, JobOK
\* Results only grow, by the forfeits.
<1>5. /\ Resulting(result')
      /\ \A n \in Matches : n \notin job.forfeits => result'[n] = result[n]
      /\ \A n \in Matches : result[n] # None => result'[n] = result[n]
  BY <1>1, <1>4 DEF IInv, TypeOK, Resulting, Results, WithForfeits
<1>6. \A s \in Fed : Wanted(s) = Sent(Source[s].kind, Feeder(s), result')
  BY <1>1 DEF Wanted, Decided, Fed, Feeder
<1>7. \A s \in Ranked : Held(s) = entry[s]
  BY DEF IInv, Aligned, Held, Derived, Ranked, Seeded
\* Forfeited matches are among those read as started, so they are left alone.
<1>8. ASSUME NEW n \in Matches, result'[n] # None
      PROVE  /\ entry'[<<n, "home">>] = entry[<<n, "home">>]
             /\ entry'[<<n, "away">>] = entry[<<n, "away">>]
  <2>1. CASE result[n] # None
    BY <1>2, <2>1, ResultKeepsPlayers
  <2>2. CASE n \in job.forfeits
    <3>1. ASSUME NEW s \in Sides, s[1] = n PROVE entry'[s] = entry[s]
      <4>1. Protected(s)
        BY <1>4, <2>2, <3>1 DEF Protected
      <4>2. CASE s \in Ranked
        BY <1>3, <1>7, <4>1, <4>2 DEF Written
      <4>3. CASE s \notin Ranked
        BY <1>3, <4>1, <4>3 DEF Written
      <4>4. QED
        BY <4>2, <4>3
    <3>2. <<n, "home">> \in Sides /\ <<n, "away">> \in Sides
      BY DEF Sides
    <3>3. QED
      BY <3>1, <3>2
  <2>3. CASE n \notin job.forfeits /\ result[n] = None
    BY <1>5, <1>8, <2>3
  <2>4. QED
    BY <2>1, <2>2, <2>3
<1>9. ASSUME NEW s \in Fed
      PROVE  Sent(Source[s].kind, Feeder(s), result') = Sent(Source[s].kind, Feeder(s), result)'
  <2>1. CASE result'[Feeder(s)] = None
    BY <2>1 DEF Sent, Feeder
  <2>2. CASE result'[Feeder(s)] # None
    <3>1. result'[Feeder(s)] \in {"home", "away", "draw"}
      BY <1>5, <2>2 DEF Resulting
    <3>2. QED
      BY <1>8, <2>2, <3>1 DEF Sent, Feeder, Known, Players, Other
  <2>3. QED
    BY <2>1, <2>2
<1> HIDE DEF moved
<1>10. TypeOK'
  <2>1. ASSUME NEW s \in Derived PROVE Wanted(s) \in Entries \cup {None}
    <3>1. /\ entry[s] \in Entries \cup {None} /\ slot[s].entry \in Entries \cup {None}
      BY DEF IInv, TypeOK
    <3>2. CASE s \in Fed
      BY <1>5, <1>6, <3>2, SentType DEF IInv
    <3>3. CASE s \in Ranked
      BY <3>1, <3>3, RankType DEF Wanted, Held, Provisional
    <3>4. QED
      BY <3>2, <3>3
  <2>2. entry' \in [Sides -> Entries \cup {None}]
    BY <1>2, <2>1 DEF IInv, TypeOK, moved
  <2>3. slot' \in [Derived -> [entry : Entries \cup {None},
                               rule : {None, "publication", "recalculation"}]]
    BY <1>2, <2>1 DEF IInv, TypeOK
  <2>4. Now \in 0..MaxVersion
    BY <1>4 DEF IInv, TypeOK, Now
  <2>5. conflict' \in [Derived -> 0..MaxVersion]
    BY <1>2, <2>4 DEF IInv, TypeOK
  <2>6. /\ state' \in [Matches -> {"waiting", "playing", "done"}]
        /\ standings' \in [version : 0..MaxVersion,
                           by : {None, "publication", "recalculation"}]
        /\ withdrawn' \subseteq Leaving
    BY <1>1, <1>4, <2>4 DEF IInv, TypeOK, Gone
  <2>7. QED
    BY <1>1, <1>5, <2>2, <2>3, <2>4, <2>5, <2>6 DEF IInv, TypeOK, Resulting
\* A fed side read as waiting is written to its slot; if its match has started
\* since, that is what the match already holds.
<1>11. ASSUME NEW s \in Fed, Written(s), ~Open(s)
       PROVE  Wanted(s) = entry[s]
  <2>1. s[1] \in job.read
    BY <1>11 DEF Written, Protected, Fed
  <2>2. Follows(s) /\ result[Feeder(s)] # None
    BY <1>4, <1>11, <2>1 DEF ReadStillFollows, Open
  <2>3. result'[Feeder(s)] = result[Feeder(s)]
    BY <1>5, <2>2
  <2>4. QED
    BY <1>6, <2>2, <2>3 DEF Follows, Sent
<1>12. Aligned'
  <2>1. ASSUME NEW s \in Derived PROVE slot'[s].entry = entry'[s]
    <3>1. slot[s].entry = entry[s]
      BY DEF IInv, Aligned
    <3>2. CASE ~Written(s)
      BY <1>2, <1>3, <3>1, <3>2
    <3>3. CASE Written(s) /\ (s \in Ranked \/ Open(s))
      BY <1>2, <1>3, <3>3
    <3>4. CASE Written(s) /\ s \in Fed /\ ~Open(s)
      BY <1>2, <1>3, <1>11, <3>4 DEF Fed
    <3>5. QED
      BY <3>2, <3>3, <3>4
  <2>2. QED
    BY <2>1 DEF Aligned
<1>13. WaitingFollows'
  <2>1. ASSUME NEW s \in Fed, state'[s[1]] = "waiting"
        PROVE  entry'[s] = Wanted(s)
    <3>1. Open(s) /\ s[1] \in job.read
      BY <1>1, <1>4, <2>1 DEF Open, Waiting
    <3>2. CASE Asked(s)
      BY <1>3, <3>1, <3>2 DEF Written, Protected
    <3>3. CASE ~Asked(s) /\ Wanted(s) # None
      BY <1>3, <3>3 DEF Asked, Written
    <3>4. CASE ~Asked(s) /\ Wanted(s) = None
      <4>1. entry[s] = Sent(Source[s].kind, Feeder(s), result)
        BY <3>1 DEF IInv, WaitingFollows, Follows, Open
      <4>2. entry[s] = None
        BY <1>5, <1>6, <3>4, <4>1 DEF Sent
      <4>3. QED
        BY <1>3, <3>4, <4>2 DEF Written
    <3>5. QED
      BY <3>2, <3>3, <3>4
  <2>2. QED
    BY <1>6, <1>9, <2>1 DEF WaitingFollows, Follows, Feeder
<1>14. FilledIsFed'
  <2>1. ASSUME NEW s \in Fed, entry'[s] # None PROVE result'[Feeder(s)] # None
    <3>1. CASE entry'[s] = Wanted(s)
      BY <1>6, <2>1, <3>1 DEF Sent
    <3>2. CASE entry'[s] = entry[s]
      BY <1>5, <2>1, <3>2 DEF IInv, FilledIsFed
    <3>3. QED
      BY <1>3, <3>1, <3>2
  <2>2. QED
    BY <2>1 DEF FilledIsFed, Feeder
<1>15. AdmittedIsFed'
  BY <1>1, <1>5 DEF IInv, AdmittedIsFed, Feeder
<1>16. StandingsPast' /\ DivergenceIsRecorded'
  BY <1>1, <1>4 DEF IInv, TypeOK, StandingsPast, DivergenceIsRecorded, Now
<1>17. QED
  BY <1>1, <1>10, <1>12, <1>13, <1>14, <1>15, <1>16 DEF IInv, JobOK

-----------------------------------------------------------------------------
LEMMA Inductive == IInv /\ [Next]_vars => IInv'
<1> SUFFICES ASSUME IInv, [Next]_vars PROVE IInv'
  OBVIOUS
<1>1. CASE \E m \in Matches : Admit(m) \/ Start(m) \/ Reopen(m)
  BY <1>1, AdmitStep, StartStep, ReopenStep
<1>2. ASSUME NEW m \in Matches, NEW outcome \in Outcomes,
             Finalise(m, outcome) \/ Correct(m, outcome)
      PROVE  IInv'
  <2>1. Publish(m, outcome) /\ state[m] # "waiting"
    BY <1>2 DEF Finalise, Correct
  <2>2. QED
    BY <2>1, PublishStep
<1>3. CASE PublishElsewhere
  BY <1>3, PublishElsewhereStep
<1>4. CASE Recalculate
  BY <1>4, RecalculateStep
<1>5. CASE \E e \in Leaving : WithdrawEarly(e) \/ Withdraw(e)
  BY <1>5, WithdrawEarlyStep, WithdrawStep
<1>6. CASE Commit
  BY <1>6, CommitStep
<1>7. CASE Abort
  BY <1>7, AbortStep
<1>8. CASE UNCHANGED vars
  BY <1>8, StutterStep
<1>9. QED
  BY <1>1, <1>2, <1>3, <1>4, <1>5, <1>6, <1>7, <1>8 DEF Next

\* Advancement's inductive invariant holds in every reachable state.
THEOREM AdvancementHolds == Spec => []IInv
<1>1. Init => IInv
  BY InitialStates
<1>2. IInv /\ [Next]_vars => IInv'
  BY Inductive
<1>3. QED
  BY <1>1, <1>2, PTL DEF Spec

\* Every variable keeps its type, whatever the format of the division.
THEOREM AdvancementTypes == Spec => []TypeOK
<1>1. IInv => TypeOK
  BY DEF IInv
<1>2. QED
  BY <1>1, AdvancementHolds, PTL

\* A slot that has a row names its match's participant, in spite of the two
\* recalculations' different guards and of matches starting in between.
THEOREM SlotsStayAligned == Spec => []SlotsAligned
<1>1. IInv => SlotsAligned
  BY DEF IInv, Aligned, SlotsAligned
<1>2. QED
  BY <1>1, AdvancementHolds, PTL

\* After every publication the conflicts on record under its version are all
\* the sides in which a started match differs from the results.
THEOREM DivergenceStaysRecorded == Spec => []DivergenceIsRecorded
<1>1. IInv => DivergenceIsRecorded
  BY DEF IInv
<1>2. QED
  BY <1>1, AdvancementHolds, PTL
=============================================================================
