---------------------------- MODULE Advancement ----------------------------
(* How the matches of one division learn who plays in them.  A match's side *)
(* is a seeded entry, a rank of a pool, or the winner or loser of another   *)
(* match.  Two pieces of code fill the derived sides: the publication of a  *)
(* result (recalculateDivision of phase-2-runtime.ts) and the recalculation *)
(* of the standings, which an organiser asks for or a withdrawal runs       *)
(* (recalculateStandingsInTransaction of phase-3-runtime.ts).  The two read *)
(* different standings, mark the slots they write with different rules, and *)
(* only the first locks the matches it looks at.                            *)
(*                                                                          *)
(* The publication row's lock serialises them; starting and reopening a     *)
(* match do not take it, so they fall between the reads and the writes of a *)
(* recalculation.  States pending and ready are one ("waiting"), final and  *)
(* corrected another ("done"): no guard tells them apart.                   *)
EXTENDS Integers, FiniteSets

CONSTANTS
  Matches,     \* of the division's published format
  Pool,        \* those that make up its one pool
  Entries,
  Leaving,     \* the entries that may withdraw
  Source,      \* for each side of each match, what fills it
  Order,       \* the entries' ids as the numbers they sort by
  Outcomes,    \* the results a match may be given
  None,
  MaxVersion   \* bound on the competition's result version

Sides == Matches \X {"home", "away"}
Other(side) == IF side = "home" THEN "away" ELSE "home"

Seeded == {s \in Sides : Source[s].kind = "seed"}
Ranked == {s \in Sides : Source[s].kind = "rank"}
Derived == Sides \ Seeded

ASSUME FormatAssumption ==
  /\ Pool \subseteq Matches /\ Leaving \subseteq Entries
  /\ None \notin Entries \cup Outcomes \cup {"publication"}
  /\ Outcomes \subseteq {"home", "away", "draw"}
  /\ Order \in [Entries -> Nat]
  /\ \A e, f \in Entries : Order[e] = Order[f] => e = f
  /\ \A s \in Sides :
       \/ Source[s].kind = "seed" /\ Source[s].entry \in Entries
       \/ Source[s].kind = "rank" /\ Source[s].rank \in Nat \ {0}
       \/ Source[s].kind \in {"winner", "loser"} /\ Source[s].match \in Matches \ {s[1]}
  /\ \A m \in Pool : {<<m, "home">>, <<m, "away">>} \subseteq Seeded
  /\ MaxVersion \in Nat

VARIABLES
  entry,      \* the participant of each side of each match, or None
  state,      \* of each match
  result,     \* the outcome of each match's newest result snapshot, or None
  slot,       \* the advancement slot of each derived side, once it has a row
  conflict,   \* the last result version at which a side was found started
  admitted,   \* the matches somebody has been given access to score
  withdrawn,  \* the entries that have withdrawn
  version,    \* the competition's result version
  standings,  \* the newest standings: their version, and the code that made them
  job         \* the recalculation in flight, holding the publication row

vars == <<entry, state, result, slot, conflict, admitted, withdrawn, version,
          standings, job>>

Players(m, side) == {side[<<m, "home">>], side[<<m, "away">>]}
Known(m) == None \notin Players(m, entry)

-----------------------------------------------------------------------------
(* Standings and results                                                    *)

\* The matches of the pool; both participants are seeded, and stay.
Fixtures == {[match |-> m, home |-> Source[<<m, "home">>].entry,
                           away |-> Source[<<m, "away">>].entry] : m \in Pool}
PoolEntries == UNION {{f.home, f.away} : f \in Fixtures}

\* An entry's points: its wins less its losses, a draw being worth nothing.
Decisive(f, res) == res[f.match] \in {"home", "away"}
Won(e, res) == {f \in Fixtures : Decisive(f, res) /\ f[res[f.match]] = e}
Lost(e, res) == {f \in Fixtures : Decisive(f, res) /\ f[Other(res[f.match])] = e}
Points(e, res) == Cardinality(Won(e, res)) - Cardinality(Lost(e, res))

Tied(e, res) == \E f \in PoolEntries \ {e} : Points(f, res) = Points(e, res)
Above(f, e, res) ==
  \/ Points(f, res) > Points(e, res)
  \/ Points(f, res) = Points(e, res) /\ Order[f] < Order[e]

\* The entry at a rank of the pool among those that have not withdrawn.
AtRank(r, res, gone) ==
  LET active == PoolEntries \ gone
      here == {e \in active : Cardinality({f \in active : Above(f, e, res)}) = r - 1}
  IN  IF here = {} THEN None ELSE CHOOSE e \in here : TRUE

PoolComplete(res) == \A m \in Pool : res[m] # None

\* The entry a decided match sends on; a draw decides nothing.
Sent(kind, m, res) ==
  IF res[m] \in {None, "draw"} \/ ~Known(m) THEN None
  ELSE entry[<<m, IF kind = "winner" THEN res[m] ELSE Other(res[m])>>]

\* What a published result makes of a derived side: a rank only once every
\* match of the pool has a result, ties falling back on the entries' ids.
Decided(s, res) ==
  IF s \in Ranked
  THEN IF PoolComplete(res) THEN AtRank(Source[s].rank, res, withdrawn) ELSE None
  ELSE Sent(Source[s].kind, Source[s].match, res)

\* What a recalculation makes of a rank: of whatever results there are, an
\* entry that nobody else is level with.
Provisional(s, res, gone) ==
  LET e == AtRank(Source[s].rank, res, gone)
  IN  IF e = None \/ Tied(e, res) THEN None ELSE e

-----------------------------------------------------------------------------
(* The database's own guards on a match's participants                      *)

\* One side is written before the other, and a match may at no moment have
\* the same entry on both; the sides of a match with a result stay.
Accepted(new) ==
  \A m \in Matches :
    LET home == new[<<m, "home">>]  away == new[<<m, "away">>]  old == entry[<<m, "away">>]
    IN  Players(m, new) # Players(m, entry) \/ home # entry[<<m, "home">>] =>
          /\ result[m] = None
          /\ home = None \/ home \notin {old, away}

-----------------------------------------------------------------------------
Empty == [entry |-> None, rule |-> None]

Init ==
  /\ entry = [s \in Sides |-> IF s \in Seeded THEN Source[s].entry ELSE None]
  /\ state = [m \in Matches |-> "waiting"]
  /\ result = [m \in Matches |-> None]
  /\ slot = [s \in Derived |-> Empty]
  /\ conflict = [s \in Derived |-> 0]
  /\ admitted = {}
  /\ withdrawn = {}
  /\ version = 0
  /\ standings = [version |-> 0, by |-> None]
  /\ job = None

\* Access to score a match is only issued once both participants are known;
\* it outlives their being taken back.
Admit(m) ==
  /\ Known(m)
  /\ admitted' = admitted \cup {m}
  /\ UNCHANGED <<entry, state, result, slot, conflict, withdrawn, version,
                 standings, job>>

\* The matches a withdrawing entry is in, save those it was sent to.
Claimed(e) ==
  {m \in Matches : /\ Known(m) /\ e \in Players(m, entry)
                   /\ \A s \in Derived : s[1] = m /\ slot[s].rule # None => slot[s].entry # e}

\* A withdrawal keeps their rows locked until it ends.
Locked == IF job = None THEN {} ELSE Claimed(job.leaver)

\* The first event of a match starts it.
Start(m) ==
  /\ m \in admitted /\ state[m] = "waiting" /\ m \notin Locked
  /\ state' = [state EXCEPT ![m] = "playing"]
  /\ UNCHANGED <<entry, result, slot, conflict, admitted, withdrawn, version,
                 standings, job>>

\* Reopening leaves the result and whatever it decided as they are.
Reopen(m) ==
  /\ state[m] = "done" /\ m \notin Locked
  /\ state' = [state EXCEPT ![m] = "playing"]
  /\ UNCHANGED <<entry, result, slot, conflict, admitted, withdrawn, version,
                 standings, job>>

Open(s) == state[s[1]] = "waiting"

\* Fault: a difference in a started match is recorded, and its slot written all the same.
AdvanceThrough(res) ==
  LET moved == [s \in Sides |-> IF s \in Derived /\ Open(s) THEN Decided(s, res) ELSE entry[s]]
      changed(s) == slot[s].entry # Decided(s, res)
  IN  /\ Accepted(moved)
      /\ entry' = moved
      /\ slot' = [s \in Derived |-> [entry |-> Decided(s, res), rule |-> "publication"]]
      /\ conflict' = [s \in Derived |->
                        IF ~Open(s) /\ changed(s) THEN version + 1 ELSE conflict[s]]

\* Fault: matches that have ended are taken for settled.
AdvanceUnlessEnded(res) ==
  LET moved == [s \in Sides |-> IF s \in Derived /\ Open(s) THEN Decided(s, res) ELSE entry[s]]
      changed(s) == slot[s].entry # Decided(s, res)
  IN  /\ Accepted(moved)
      /\ entry' = moved
      /\ slot' = [s \in Derived |->
                    IF ~Open(s) /\ changed(s) THEN slot[s]
                    ELSE [entry |-> Decided(s, res), rule |-> "publication"]]
      /\ conflict' = [s \in Derived |->
                        IF state[s[1]] = "playing" /\ changed(s) THEN version + 1 ELSE conflict[s]]

\* The sides of matches that have not started follow the results; a started
\* match keeps its participants, and the difference becomes a conflict.
Advance(res) ==
  LET moved == [s \in Sides |-> IF s \in Derived /\ Open(s) THEN Decided(s, res) ELSE entry[s]]
      changed(s) == slot[s].entry # Decided(s, res)
  IN  /\ Accepted(moved)
      /\ entry' = moved
      /\ slot' = [s \in Derived |->
                    IF ~Open(s) /\ changed(s) THEN slot[s]
                    ELSE [entry |-> Decided(s, res), rule |-> "publication"]]
      /\ conflict' = [s \in Derived |->
                        IF ~Open(s) /\ changed(s) THEN version + 1 ELSE conflict[s]]

\* Publishing a result, by finalising a match or correcting one.
Publish(m, outcome) ==
  /\ Known(m) /\ job = None /\ version < MaxVersion
  /\ result' = [result EXCEPT ![m] = outcome]
  /\ state' = [state EXCEPT ![m] = "done"]
  /\ version' = version + 1
  /\ standings' = [version |-> version + 1, by |-> "publication"]
  /\ Advance(result')
  /\ UNCHANGED <<admitted, withdrawn, job>>

Finalise(m, outcome) == state[m] = "playing" /\ Publish(m, outcome)

\* A correction reopens and finalises in one transaction; after a reopening
\* it must be the next event.
Correct(m, outcome) ==
  /\ result[m] # None /\ state[m] \in {"done", "playing"}
  /\ Publish(m, outcome)

\* Another division of the competition publishes a result.
PublishElsewhere ==
  /\ job = None /\ version < MaxVersion
  /\ version' = version + 1
  /\ UNCHANGED <<entry, state, result, slot, conflict, admitted, withdrawn,
                 standings, job>>

-----------------------------------------------------------------------------
(* A recalculation: its reads, then its writes                              *)

Waiting == {m \in Matches : state[m] = "waiting"}

\* An organiser asks for standings the current result version has none of.
Recalculate ==
  /\ job = None /\ version > standings.version
  /\ job' = [leaver |-> None, forfeits |-> {}, read |-> Waiting]
  /\ UNCHANGED <<entry, state, result, slot, conflict, admitted, withdrawn,
                 version, standings>>

Forfeits(e) == {m \in Claimed(e) \cap Waiting : result[m] = None}

Started == \E m \in Matches : state[m] # "waiting" \/ result[m] # None

\* Before anything has been played, or when there is nothing to publish, a
\* withdrawal is no more than the entry's status.
WithdrawEarly(e) ==
  /\ e \in Leaving \ withdrawn /\ job = None
  /\ ~Started \/ (version = 0 /\ Forfeits(e) = {})
  /\ withdrawn' = withdrawn \cup {e}
  /\ UNCHANGED <<entry, state, result, slot, conflict, admitted, version,
                 standings, job>>

Withdraw(e) ==
  /\ e \in Leaving \ withdrawn /\ job = None /\ version < MaxVersion
  /\ Started /\ (version > 0 \/ Forfeits(e) # {})
  /\ job' = [leaver |-> e, forfeits |-> Forfeits(e), read |-> Waiting \ Forfeits(e)]
  /\ UNCHANGED <<entry, state, result, slot, conflict, admitted, withdrawn,
                 version, standings>>

\* The results a withdrawal leaves: its forfeits are won by the other side.
WithForfeits(e, forfeits) ==
  [m \in Matches |-> IF m \notin forfeits THEN result[m]
                     ELSE IF entry[<<m, "home">>] = e THEN "away" ELSE "home"]

\* Fault: a recalculation that was asked for draws a result version, too.
NowAlways == version + 1

\* Only a withdrawal draws a result version.
Now == IF job.leaver = None THEN version ELSE version + 1

\* The entries that have withdrawn, and the results, once it is through.
Gone == withdrawn \cup ({job.leaver} \ {None})
Results == WithForfeits(job.leaver, job.forfeits)

\* What the recalculation takes a side to hold, and what it wants there.  A
\* rank's slot that a published result wrote is under another rule and stays.
Held(s) == IF s \in Ranked /\ slot[s].rule # None THEN slot[s].entry ELSE entry[s]
Wanted(s) ==
  IF s \notin Ranked THEN Decided(s, Results)
  ELSE IF slot[s].rule = "publication" THEN Held(s)
  ELSE Provisional(s, Results, Gone)

\* A side fed by a match is passed over when nothing is decided, or when the
\* side and its slot are right already.
Asked(s) ==
  s \in Ranked \/ (Wanted(s) # None /\ ~(entry[s] = Wanted(s) /\ slot[s].entry = Wanted(s)))
Protected(s) == s[1] \notin job.read
Written(s) == Asked(s) /\ (~Protected(s) \/ (s \in Ranked /\ Held(s) = Wanted(s)))

\* The writes go by the matches' states as they were read.  Only a side fed
\* by a match is written under the condition that its match still waits.
Commit ==
  LET moved == [s \in Sides |->
                  IF s \in Derived /\ Written(s) /\ (s \in Ranked \/ Open(s))
                  THEN Wanted(s) ELSE entry[s]]
  IN  /\ job # None
      /\ Accepted(moved)
      /\ entry' = moved
      /\ slot' = [s \in Derived |->
                    IF ~Written(s) THEN slot[s]
                    ELSE [entry |-> Wanted(s),
                          rule |-> IF s \in Ranked /\ slot[s].rule = "publication"
                                   THEN "publication" ELSE "recalculation"]]
      /\ conflict' = [s \in Derived |->
                        IF Asked(s) /\ Protected(s) /\ Held(s) # Wanted(s)
                        THEN Now ELSE conflict[s]]
      /\ result' = Results
      /\ state' = [m \in Matches |-> IF m \in job.forfeits THEN "done" ELSE state[m]]
      /\ withdrawn' = Gone
      /\ version' = Now
      /\ standings' = [version |-> Now, by |-> "recalculation"]
      /\ job' = None
      /\ UNCHANGED admitted

\* The transaction fails: a write the database refuses, a deadlock, a lost
\* connection.
Abort ==
  /\ job # None
  /\ job' = None
  /\ UNCHANGED <<entry, state, result, slot, conflict, admitted, withdrawn,
                 version, standings>>

Next ==
  \/ \E m \in Matches : Admit(m) \/ Start(m) \/ Reopen(m)
  \/ \E m \in Matches, outcome \in Outcomes : Finalise(m, outcome) \/ Correct(m, outcome)
  \/ PublishElsewhere
  \/ Recalculate
  \/ \E e \in Leaving : WithdrawEarly(e) \/ Withdraw(e)
  \/ Commit
  \/ Abort

Spec == Init /\ [][Next]_vars

-----------------------------------------------------------------------------
\* The types of the tables' columns.
TypeOK ==
  /\ entry \in [Sides -> Entries \cup {None}]
  /\ state \in [Matches -> {"waiting", "playing", "done"}]
  /\ result \in [Matches -> Outcomes \cup {"home", "away", None}]
  /\ slot \in [Derived -> [entry : Entries \cup {None},
                           rule : {None, "publication", "recalculation"}]]
  /\ conflict \in [Derived -> 0..MaxVersion]
  /\ admitted \subseteq Matches /\ withdrawn \subseteq Leaving
  /\ version \in 0..MaxVersion
  /\ standings \in [version : 0..MaxVersion, by : {None, "publication", "recalculation"}]
  /\ job = None \/ job \in [leaver : Leaving \cup {None}, forfeits : SUBSET Matches,
                           read : SUBSET Matches]

(***************************************************************************)
(* An advancement slot names the participant its match has.  The two are   *)
(* columns of two tables, written by both recalculations under different   *)
(* guards while matches start and reopen; publication compares results     *)
(* with the slot and a scorer plays by the match, so if they came apart a  *)
(* started match could be taken for one that agrees with the results       *)
(* (phase-3-runtime.ts 3558: "Keep the persisted qualifier aligned").      *)
(***************************************************************************)
SlotsAligned == \A s \in Derived : slot[s].rule # None => slot[s].entry = entry[s]

(***************************************************************************)
(* Once a result is published, every side that differs from what the       *)
(* results decide belongs to a match that has started, and the difference  *)
(* is on record under the newest result version.  However matches start,   *)
(* end, reopen and are corrected, and whatever a withdrawal or a requested *)
(* recalculation wrote before, nothing else is left differing: the         *)
(* organiser's list of conflicts is complete (EXCEPTIONAL_CASES.md, the    *)
(* two rows about corrections).                                            *)
(***************************************************************************)
DivergenceIsRecorded ==
  standings = [version |-> version, by |-> "publication"] =>
    \A s \in Derived : entry[s] # Decided(s, result) =>
      state[s[1]] # "waiting" /\ conflict[s] = version
=============================================================================
