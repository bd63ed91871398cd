---------------------------- MODULE LandingProofs ----------------------------
(***************************************************************************)
(* The answers made from the landing rows of a session, for every number   *)
(* of model calls and rows: what was found is found again, steps keep      *)
(* their numbers, results only advance, and an end is one.                 *)
(***************************************************************************)
EXTENDS LandingRows, FiniteSetTheorems, TLAPS

USE LandingAssumption

-----------------------------------------------------------------------------
(* The tables.                                                             *)
Outputs(table)     == {r \in table : IsTrajectoryRow(r)}
OutputSteps(table) == {r.step : r \in Outputs(table)}

UniqueIds(table) == \A r, q \in table : r.id = q.id => r = q

\* Of the model outputs of a step, one is the latest.
HasLatest(table) ==
  \A r \in Outputs(table) : \E q \in TrajectoryRows(table) : q.step = r.step

IsTable(table) == /\ table \subseteq LandingRow /\ IsFiniteSet(table)
                  /\ UniqueIds(table) /\ HasLatest(table)
                  /\ \A r \in Outputs(table) : r.step # 0

\* A step has one row in the enumeration.
LEMMA OneRowEach ==
  ASSUME NEW table, IsTable(table)
  PROVE  /\ \A a, b \in TrajectoryRows(table) : a.step = b.step => a = b
         /\ {r.step : r \in TrajectoryRows(table)} = OutputSteps(table)
         /\ TrajectoryRows(table) \subseteq table
         /\ OutputSteps(table) \subseteq Steps
<1>1. ASSUME NEW a \in TrajectoryRows(table), NEW b \in TrajectoryRows(table), a.step = b.step
      PROVE  a = b
  <2>1. a.id \in Int /\ b.id \in Int /\ a.step \in Int
    BY DEF TrajectoryRows, IsTable, LandingRow
  <2> QED BY <1>1, <2>1 DEF TrajectoryRows, Later
<1>2. {r.step : r \in TrajectoryRows(table)} = OutputSteps(table)
  BY DEF TrajectoryRows, OutputSteps, Outputs, IsTable, HasLatest
<1>3. OutputSteps(table) \subseteq Steps
  BY DEF OutputSteps, Outputs, IsTable, LandingRow, Steps
<1> QED BY <1>1, <1>2, <1>3 DEF TrajectoryRows

\* enumerate() over the sorted rows counts steps: the number of a step is how many steps
\* with a model output come no later than it.
LEMMA NumberCounts ==
  ASSUME NEW table, IsTable(table), NEW s \in Steps
  PROVE  Number(table, s) = IF s \in OutputSteps(table)
                            THEN Cardinality({t \in OutputSteps(table) : t <= s})
                            ELSE 0
<1> DEFINE found == {r \in TrajectoryRows(table) : r.step = s}
<1>1. found = {} <=> s \notin OutputSteps(table)
  BY OneRowEach
<1>2. CASE found = {}
  BY <1>1, <1>2 DEF Number
<1>3. CASE found # {}
  <2> PICK x \in found : TRUE
    BY <1>3
  <2>1. x \in TrajectoryRows(table) /\ x.step = s /\ found = {x}
    BY OneRowEach
  <2>2. Latest(found) = x
    BY <2>1 DEF Latest
  <2> DEFINE A == {q \in TrajectoryRows(table) : q = x \/ Later(x, q)}
             B == {t \in OutputSteps(table) : t <= s}
             f == [q \in A |-> q.step]
  <2>3. \A q \in TrajectoryRows(table) : q.step \in Int /\ q.id \in Int
    BY OneRowEach DEF IsTable, LandingRow
  <2>4. \A q \in TrajectoryRows(table) : q \in A <=> q.step <= s
    BY <2>1, <2>3, OneRowEach DEF Later
  <2>5. f \in [A -> B]
    BY <2>4, OneRowEach
  <2>6. \A a, b \in A : f[a] = f[b] => a = b
    BY OneRowEach
  <2>7. \A t \in B : \E a \in A : f[a] = t
    BY <2>4, OneRowEach
  <2>8. ExistsBijection(A, B)
    BY <2>5, <2>6, <2>7 DEF ExistsBijection, Bijection, Injection, Surjection, IsInjective
  <2>9. IsFiniteSet(A)
    BY OneRowEach, FS_Subset DEF IsTable
  <2>10. Cardinality(A) = Cardinality(B)
    BY <2>8, <2>9, FS_Bijection
  <2> QED BY <1>1, <1>3, <2>2, <2>10 DEF Number, Position
<1> QED BY <1>2, <1>3

\* A number is one of 1..MaxSteps, and 0 says that the step is not there.
LEMMA NumberRange ==
  ASSUME NEW table, IsTable(table), NEW s \in Steps
  PROVE  /\ Number(table, s) \in 0..MaxSteps
         /\ Number(table, s) = 0 <=> s \notin OutputSteps(table)
<1> DEFINE B == {t \in OutputSteps(table) : t <= s}
<1>1. B \subseteq 1..MaxSteps
  BY OneRowEach DEF Steps
<1>2. IsFiniteSet(1..MaxSteps) /\ Cardinality(1..MaxSteps) = MaxSteps
  BY FS_Interval
<1>3. IsFiniteSet(B) /\ Cardinality(B) <= MaxSteps
  BY <1>1, <1>2, FS_Subset
<1>4. Cardinality(B) \in Nat
  BY <1>3, FS_CardinalityType
<1>5. s \in OutputSteps(table) => B # {}
  BY DEF Steps
<1>6. s \in OutputSteps(table) => Cardinality(B) # 0
  BY <1>3, <1>5, FS_EmptySet
<1> QED BY <1>3, <1>4, <1>6, NumberCounts

-----------------------------------------------------------------------------
(* What the writers keep of the rows.                                      *)
Ends(r) == IsSealingRow(r)

\* An output of a step that is new comes behind the outputs of earlier steps, and nothing
\* but repetitions comes behind the end: of a row that should have come first there is an
\* earlier copy.
InSequence(q, r) ==
  r.id < q.id /\ (Ends(r) \/ (IsTrajectoryRow(r) /\ q.step <= r.step)) =>
    \E p \in Outputs(Written) : p.id <= r.id /\ p.step = q.step

WrittenInv ==
  /\ transit \subseteq LandingRow /\ rows \subseteq LandingRow
  /\ over \in BOOLEAN /\ inOrder \in BOOLEAN
  /\ IsFiniteSet(Written) /\ UniqueIds(Written)
  /\ transit \cap rows = {}
  /\ \A r \in Written : r.id <= Cardinality(Written)
  /\ Written # {} => \E r \in Written : \A q \in Written : q.step <= r.step
  /\ \A r \in Outputs(Written) : r.step # 0
  /\ \A r \in Written : Ends(r) => over
  /\ \A q \in Outputs(Written), r \in Written : InSequence(q, r)
  /\ inOrder => \A r \in rows, q \in transit : r.id < q.id
  /\ HasLatest(rows)

\* A query sees a table.
LEMMA RowsAreTable == WrittenInv => IsTable(rows)
  BY FS_Subset DEF WrittenInv, IsTable, Written, UniqueIds, Outputs

\* One more row is written.
LEMMA WriteKeeps ==
  ASSUME WrittenInv, NEW step \in 0..MaxSteps, NEW event \in Events, NEW mark \in Marks,
         Write(step, event, mark), over' \in BOOLEAN, over => over',
         event = "inference" => step # 0,
         \A id : Ends([id |-> id, step |-> step, event |-> event, mark |-> mark]) => over',
         event = "inference" =>
           \A r \in Written : Ends(r) \/ (IsTrajectoryRow(r) /\ step <= r.step) =>
             \E p \in Outputs(Written) : p.id <= r.id /\ p.step = step
  PROVE  WrittenInv'
<1> DEFINE n   == Cardinality(Written)
           new == [id |-> n + 1, step |-> step, event |-> event, mark |-> mark]
<1>1. n \in Nat
  BY FS_CardinalityType DEF WrittenInv
<1>2. new \in LandingRow
  BY <1>1 DEF Write, LandingRow
<1>3. Written \subseteq LandingRow
  BY DEF WrittenInv, Written
<1>4. \A r \in Written : r.id \in Nat /\ r.id < n + 1 /\ r.step \in Nat
  BY <1>1, <1>3 DEF WrittenInv, LandingRow
<1>5. new \notin Written
  BY <1>1, <1>4
<1>6. Written' = Written \cup {new} /\ transit' = transit \cup {new} /\ rows' = rows
      /\ inOrder' = inOrder
  BY DEF Write, Written
<1>7. IsFiniteSet(Written') /\ Cardinality(Written') = n + 1
  BY <1>5, <1>6, FS_AddElement DEF WrittenInv
<1>8. \A r \in Written' : r.id <= Cardinality(Written')
  BY <1>1, <1>4, <1>6, <1>7
<1>9. UniqueIds(Written')
  BY <1>4, <1>6 DEF WrittenInv, UniqueIds
<1>10. transit' \cap rows' = {}
  BY <1>5, <1>6 DEF WrittenInv, Written
<1>11. \E r \in Written' : \A q \in Written' : q.step <= r.step
  <2>1. CASE \A q \in Written : q.step <= step
    <3>1. new \in Written' /\ new.step = step /\ step <= step
      BY <1>6
    <3> QED BY <1>6, <2>1, <3>1
  <2>2. CASE \E q \in Written : ~(q.step <= step)
    <3>1. PICK r \in Written : \A q \in Written : q.step <= r.step
      BY <2>2 DEF WrittenInv
    <3>2. step <= r.step
      BY <1>4, <2>2, <3>1
    <3> QED BY <1>6, <3>1, <3>2
  <2> QED BY <2>1, <2>2
<1>12. \A r \in Outputs(Written') : r.step # 0
  BY <1>6 DEF WrittenInv, Outputs, IsTrajectoryRow
<1>13. \A r \in Written' : Ends(r) => over'
  BY <1>6 DEF WrittenInv
<1>14. Outputs(Written) \subseteq Outputs(Written')
  BY <1>6 DEF Outputs
<1>15. ASSUME NEW q \in Outputs(Written'), NEW r \in Written', r.id < q.id,
              Ends(r) \/ (IsTrajectoryRow(r) /\ q.step <= r.step)
       PROVE  \E p \in Outputs(Written') : p.id <= r.id /\ p.step = q.step
  <2>1. r \in Written
    <3>1. CASE r = new
      BY <1>1, <1>4, <1>6, <1>15, <3>1 DEF Outputs
    <3> QED BY <1>6, <3>1
  <2>2. CASE q \in Written
    <3>1. q \in Outputs(Written)
      BY <1>15, <2>2 DEF Outputs
    <3> QED BY <1>14, <1>15, <2>1, <3>1 DEF WrittenInv, InSequence
  <2>3. CASE q = new
    <3>1. event = "inference"
      BY <1>15, <2>3 DEF Outputs, IsTrajectoryRow
    <3> QED BY <1>14, <1>15, <2>1, <2>3, <3>1
  <2> QED BY <1>6, <1>15, <2>2, <2>3 DEF Outputs
<1>16. ASSUME inOrder', NEW r \in rows', NEW q \in transit'
       PROVE  r.id < q.id
  <2>1. r \in rows /\ r.id < n + 1
    BY <1>4, <1>6 DEF Written
  <2>2. CASE q = new
    BY <2>1, <2>2
  <2>3. CASE q \in transit
    BY <1>6, <1>16, <2>1, <2>3 DEF WrittenInv
  <2> QED BY <1>6, <2>2, <2>3
<1>17. transit' \subseteq LandingRow /\ rows' \subseteq LandingRow /\ HasLatest(rows')
  BY <1>2, <1>6 DEF WrittenInv, HasLatest
<1> QED
  BY <1>6, <1>7, <1>8, <1>9, <1>10, <1>11, <1>12, <1>13, <1>15, <1>16, <1>17
     DEF WrittenInv, InSequence

\* The last step written is one of the steps, and none is later.
LEMMA LastStepRange ==
  ASSUME WrittenInv
  PROVE  LastStep \in 0..MaxSteps /\ \A r \in Written : r.step <= LastStep
<1>1. \A r \in Written : r.step \in 0..MaxSteps
  BY DEF WrittenInv, Written, LandingRow
<1> QED BY <1>1 DEF WrittenInv, LastStep

\* The session's model calls, its ending, and repetitions of either.
LEMMA EpisodeKeeps ==
  ASSUME WrittenInv, Call \/ CallRefused \/ EpisodeEnds \/ WrittenAgain
  PROVE  WrittenInv'
<1>1. \A r \in Written : /\ r \in LandingRow /\ r.step \in Nat /\ r.id \in Nat
                         /\ r = [id |-> r.id, step |-> r.step, event |-> r.event,
                                 mark |-> r.mark]
  BY DEF WrittenInv, Written, LandingRow
<1>2. CASE Call
  <2>1. PICK s \in Steps \cap {LastStep, LastStep + 1}, m \in Marks :
          over' = (m \in {"terminal", "completed", "final"}) /\ Write(s, "inference", m)
    BY <1>2 DEF Call
  <2>2. ~over /\ \A r \in Written : ~Ends(r)
    BY <1>2 DEF Call, WrittenInv
  <2>3. ASSUME NEW r \in Written, IsTrajectoryRow(r), s <= r.step
        PROVE  \E p \in Outputs(Written) : p.id <= r.id /\ p.step = s
    <3>1. r.step = s
      BY <1>1, <2>3, LastStepRange DEF Steps
    <3> QED BY <1>1, <2>3, <3>1 DEF Outputs
  <2>4. s \in 0..MaxSteps /\ s # 0 /\ "inference" \in Events
    BY DEF Steps, Events
  <2>5. \A id : Ends([id |-> id, step |-> s, event |-> "inference", mark |-> m]) => over'
    BY <2>1 DEF Ends, IsSealingRow
  <2> QED BY <2>1, <2>2, <2>3, <2>4, <2>5, WriteKeeps
<1>3. CASE CallRefused
  <2>1. PICK s \in Steps : Write(s, "refused", "none") /\ over' = over
    BY <1>3 DEF CallRefused
  <2>2. s \in 0..MaxSteps /\ "refused" \in Events /\ "none" \in Marks
    BY DEF Steps, Events, Marks
  <2>3. \A id : ~Ends([id |-> id, step |-> s, event |-> "refused", mark |-> "none"])
    BY DEF Ends, IsSealingRow
  <2> QED BY <2>1, <2>2, <2>3, WriteKeeps DEF WrittenInv
<1>4. CASE EpisodeEnds
  <2>1. PICK event \in {"close", "summary"} :
          \E m \in {"none", "completed"} \cup (IF event = "summary" THEN {"final"} ELSE {}) :
            Write(LastStep, event, m)
    BY <1>4 DEF EpisodeEnds
  <2>2. PICK m \in {"none", "completed", "final"} : Write(LastStep, event, m)
    BY <2>1
  <2>3. event \in Events /\ m \in Marks /\ event # "inference" /\ over' = TRUE
    BY <1>4 DEF Events, Marks, EpisodeEnds
  <2> QED BY <2>2, <2>3, LastStepRange, WriteKeeps
<1>5. CASE WrittenAgain
  <2>1. PICK c \in Written : Write(c.step, c.event, c.mark) /\ over' = over
    BY <1>5 DEF WrittenAgain
  <2>2. c.step \in 0..MaxSteps /\ c.event \in Events /\ c.mark \in Marks
    BY <1>1 DEF LandingRow
  <2>3. \A id : Ends([id |-> id, step |-> c.step, event |-> c.event, mark |-> c.mark])
                  <=> Ends(c)
    BY DEF Ends, IsSealingRow
  <2>4. c.event = "inference" => c \in Outputs(Written)
    BY DEF Outputs, IsTrajectoryRow
  <2>5. ASSUME c.event = "inference", NEW r \in Written,
               Ends(r) \/ (IsTrajectoryRow(r) /\ c.step <= r.step)
        PROVE  \E p \in Outputs(Written) : p.id <= r.id /\ p.step = c.step
    <3>1. CASE r.id < c.id
      BY <2>4, <2>5, <3>1 DEF WrittenInv, InSequence
    <3>2. CASE c.id <= r.id
      BY <2>4, <2>5, <3>2
    <3> QED BY <1>1, <3>1, <3>2
  <2>6. c.event = "inference" => c.step # 0
    BY <2>4 DEF WrittenInv
  <2> QED BY <2>1, <2>2, <2>3, <2>5, <2>6, WriteKeeps DEF WrittenInv
<1> QED BY <1>2, <1>3, <1>4, <1>5

\* A row that lands is an output of a new step, or of one that has a latest output already.
LEMMA LandKeeps ==
  ASSUME WrittenInv, Land
  PROVE  WrittenInv'
<1>1. PICK r \in transit : /\ inOrder => \A q \in transit : r.id <= q.id
                           /\ transit' = transit \ {r} /\ rows' = rows \cup {r}
  BY DEF Land
<1>2. Written' = Written /\ UNCHANGED <<over, inOrder>>
  BY <1>1 DEF Written, Land
<1>3. Written \subseteq LandingRow /\ r \in Written /\ rows \subseteq Written
  BY DEF WrittenInv, Written
<1>4. \A q \in Written : q.id \in Int /\ q.step \in Int
  BY <1>3 DEF LandingRow
<1>5. ASSUME inOrder', NEW a \in rows', NEW q \in transit'
      PROVE  a.id < q.id
  <2>1. q \in transit /\ q # r /\ q \in Written
    BY <1>1 DEF Written
  <2>2. CASE a \in rows
    BY <1>2, <1>5, <2>1, <2>2 DEF WrittenInv
  <2>3. CASE a = r
    BY <1>1, <1>2, <1>3, <1>4, <1>5, <2>1, <2>3 DEF WrittenInv, UniqueIds
  <2> QED BY <1>1, <2>2, <2>3
<1>6. ASSUME NEW a \in Outputs(rows')
      PROVE  \E q \in TrajectoryRows(rows') : q.step = a.step
  <2> DEFINE Best(q, table) == \A p \in Outputs(table) \ {q} : p.step = q.step => Later(q, p)
  <2>1. \A table : TrajectoryRows(table) = {q \in Outputs(table) : Best(q, table)}
    BY DEF TrajectoryRows, Outputs
  <2>2. Outputs(rows') = Outputs(rows) \cup (IF IsTrajectoryRow(r) THEN {r} ELSE {})
    BY <1>1 DEF Outputs
  <2>3. \A q \in Outputs(rows') : q \in Written
    BY <1>1, <1>3 DEF Outputs
  <2>4. \A p, q \in Written : Later(p, q) <=>
          p.step > q.step \/ (p.step = q.step /\ p.id > q.id)
    BY DEF Later
  <2>5. CASE \E b \in Outputs(rows) : b.step = a.step
    <3>1. PICK b \in TrajectoryRows(rows) : b.step = a.step
      BY <2>5 DEF WrittenInv, HasLatest
    <3>2. b \in Outputs(rows) /\ Best(b, rows) /\ b \in Written
      BY <1>3, <2>1, <3>1 DEF Outputs
    <3>3. CASE ~(r \in Outputs(rows') /\ r.step = a.step) \/ b.id > r.id
      <4>1. Best(b, rows')
        BY <1>3, <1>4, <2>2, <2>4, <3>1, <3>2, <3>3
      <4> QED BY <2>1, <2>2, <3>1, <3>2, <4>1
    <3>4. CASE r \in Outputs(rows') /\ r.step = a.step /\ ~(b.id > r.id)
      <4>1. b # r
        BY <3>2 DEF Outputs, WrittenInv
      <4>2. r.id > b.id
        BY <1>3, <1>4, <3>2, <3>4, <4>1 DEF WrittenInv, UniqueIds
      <4>3. ASSUME NEW p \in Outputs(rows') \ {r}, p.step = r.step PROVE Later(r, p)
        <5>1. p \in Outputs(rows) /\ p \in Written
          BY <2>2, <2>3, <4>3
        <5>2. p.id <= b.id
          BY <1>4, <2>4, <3>1, <3>2, <3>4, <4>3, <5>1
        <5> QED BY <1>3, <1>4, <2>4, <3>2, <4>2, <4>3, <5>1, <5>2
      <4> QED BY <2>1, <3>4, <4>3
    <3> QED BY <3>3, <3>4
  <2>6. CASE \A b \in Outputs(rows) : b.step # a.step
    <3>1. a = r /\ r \in Outputs(rows')
      BY <2>2, <2>6
    <3>2. Best(r, rows')
      BY <2>2, <2>6, <3>1
    <3> QED BY <2>1, <3>1, <3>2
  <2> QED BY <2>5, <2>6
<1>7. transit' \cap rows' = {} /\ transit' \subseteq LandingRow /\ rows' \subseteq LandingRow
  BY <1>1 DEF WrittenInv
<1> QED BY <1>2, <1>5, <1>6, <1>7 DEF WrittenInv, HasLatest, InSequence

-----------------------------------------------------------------------------
(* What the client was told.                                               *)
Completed(r) == r.mark \in {"completed", "final"}

\* Each answer is backed by the table for good, and while rows land in order the numbers
\* told are those of any later list.
AnswerInv ==
  /\ asked \in [kind : {"none", "steps", "result", "step", "session"}, step : 0..MaxSteps]
  /\ told \in [result : Results, sealed : BOOLEAN, lost : BOOLEAN,
               number : [Steps -> 0..MaxSteps]]
  /\ asked.kind \in {"step", "session"} => asked.step \in Steps
  /\ asked.kind = "session" => told.number[asked.step] = 0
  /\ told.result = "running" => rows # {}
  /\ told.result = "failed" => \E r \in rows : Completed(r)
  /\ told.result = "succeeded" => \E r \in rows : r.mark = "final"
  /\ told.sealed => \E r \in rows : Ends(r)
  /\ \A s \in Steps : told.number[s] # 0 =>
       /\ s \in OutputSteps(rows)
       /\ inOrder => told.number[s] = Number(rows, s)
  /\ inOrder /\ told.sealed => \A s \in Steps : told.number[s] = Number(rows, s)
  /\ ~told.lost

LandingInv == WrittenInv /\ AnswerInv

\* Who was told of anything was told from rows that are still there.
LEMMA KnownHasRows == AnswerInv => (Known => rows # {})
  BY DEF AnswerInv, Known, OutputSteps, Outputs

\* In order, a row that lands brings no step before one that is there, and none behind the end.
LEMMA NumbersStay ==
  ASSUME WrittenInv, Land, inOrder, NEW s \in Steps,
         s \in OutputSteps(rows) \/ \E r \in rows : Ends(r)
  PROVE  Number(rows', s) = Number(rows, s)
<1>1. PICK q \in transit : /\ \A p \in transit : q.id <= p.id
                           /\ transit' = transit \ {q} /\ rows' = rows \cup {q}
  BY DEF Land
<1>2. IsTable(rows) /\ IsTable(rows')
  <2>1. WrittenInv'
    BY LandKeeps
  <2> QED BY <2>1, RowsAreTable, FS_Subset
       DEF WrittenInv, IsTable, Written, UniqueIds, Outputs
<1>3. \A r \in Written : r.id \in Int /\ r.step \in Int
  BY DEF WrittenInv, Written, LandingRow
<1>4. OutputSteps(rows') = OutputSteps(rows) \cup (IF IsTrajectoryRow(q) THEN {q.step} ELSE {})
  BY <1>1 DEF OutputSteps, Outputs
<1>5. ASSUME IsTrajectoryRow(q), NEW r \in rows,
             Ends(r) \/ (IsTrajectoryRow(r) /\ q.step <= r.step)
      PROVE  q.step \in OutputSteps(rows)
  <2>1. q \in Outputs(Written) /\ r \in Written /\ r.id < q.id
    BY <1>5 DEF Outputs, Written, WrittenInv
  <2>2. PICK p \in Outputs(Written) : p.id <= r.id /\ p.step = q.step
    BY <1>5, <2>1 DEF WrittenInv, InSequence
  <2>3. p \in Written /\ q \in Written
    BY <2>2 DEF Outputs, Written
  <2>4. ~(q.id <= p.id)
    BY <1>3, <2>1, <2>2, <2>3
  <2>5. p \in rows
    BY <1>1, <2>3, <2>4 DEF Written
  <2> QED BY <2>2, <2>5 DEF OutputSteps, Outputs
<1>6. (s \in OutputSteps(rows) <=> s \in OutputSteps(rows'))
      /\ (s \in OutputSteps(rows) =>
            {t \in OutputSteps(rows) : t <= s} = {t \in OutputSteps(rows') : t <= s})
  <2>1. CASE \E r \in rows : Ends(r)
    BY <1>4, <1>5, <2>1
  <2>2. CASE s \in OutputSteps(rows)
    <3>1. PICK r \in rows : IsTrajectoryRow(r) /\ r.step = s
      BY <2>2 DEF OutputSteps, Outputs
    <3> QED BY <1>4, <1>5, <2>2, <3>1
  <2> QED BY <2>1, <2>2
<1> QED BY <1>2, <1>6, NumberCounts

\* The answers stay backed while rows are written and land.
LEMMA AnswersStayBacked ==
  ASSUME LandingInv, WrittenInv', UNCHANGED <<asked, told, inOrder>>,
         Land \/ rows' = rows
  PROVE  AnswerInv'
<1>1. rows \subseteq rows' /\ OutputSteps(rows) \subseteq OutputSteps(rows')
  BY DEF Land, OutputSteps, Outputs
<1>2. ASSUME inOrder, NEW s \in Steps, told.number[s] # 0 \/ told.sealed
      PROVE  Number(rows', s) = Number(rows, s)
  BY <1>2, NumbersStay DEF LandingInv, AnswerInv
<1> QED BY <1>1, <1>2 DEF LandingInv, AnswerInv

\* An answer that something is missing leaves the rest of what was told.
LEMMA NotFoundTells ==
  ASSUME AnswerInv, NEW wrong \in BOOLEAN, NotFound(wrong)
  PROVE  told' = [told EXCEPT !.lost = wrong] /\ asked' = NoRequest
  BY DEF NotFound, Tell

\* The error a request ends with is the truth: nothing it misses was told before.
LEMMA NothingIsLost ==
  ASSUME AnswerInv, WhichIsMissing \/ (ListSteps /\ rows = {})
  PROVE  NotFound(FALSE)
<1> DEFINE known == Known
<1>0. known \in BOOLEAN /\ (rows = {} => known = FALSE)
  <2>1. known \in BOOLEAN
    BY DEF Known
  <2>2. rows = {} => ~known
    BY KnownHasRows
  <2> QED BY <2>1, <2>2, Zenon
<1>1. CASE ListSteps /\ rows = {}
  <2>1. Known = FALSE
    BY <1>0, <1>1, Zenon
  <2> QED BY <1>1, <2>1, Zenon DEF ListSteps
<1>2. CASE WhichIsMissing
  <2>1. (IF rows = {} THEN Known ELSE told.number[asked.step] # 0) = FALSE
    <3>1. rows = {} => Known = FALSE
      BY <1>0, Zenon
    <3>2. told.number[asked.step] = 0
      BY <1>2 DEF WhichIsMissing, AnswerInv
    <3> QED BY <3>1, <3>2, Zenon
  <2> QED BY <1>2, <2>1, Zenon DEF WhichIsMissing
<1> QED BY <1>1, <1>2

\* The requests.
LEMMA RequestsKeep ==
  ASSUME LandingInv,
         \/ Ask \/ ListSteps \/ GetResult \/ GetTrajectory \/ WhichIsMissing \/ RequestFails
  PROVE  LandingInv'
<1> USE DEF LandingInv
<1>1. UNCHANGED episode
  BY DEF Ask, ListSteps, GetResult, GetTrajectory, WhichIsMissing, RequestFails, Tell, NotFound
<1>2. WrittenInv'
  BY <1>1 DEF episode, WrittenInv, Written, InSequence
<1>3. IsTable(rows) /\ rows' = rows /\ inOrder' = inOrder
  BY <1>1, RowsAreTable DEF episode
<1>4. NoRequest \in [kind : {"none", "steps", "result", "step", "session"}, step : 0..MaxSteps]
      /\ NoRequest.kind = "none"
  BY DEF NoRequest
<1>5. CASE Ask
  BY <1>2, <1>3, <1>4, <1>5 DEF Ask, AnswerInv, Steps
<1>6. CASE RequestFails
  BY <1>2, <1>3, <1>4, <1>6 DEF RequestFails, AnswerInv
<1>7. CASE GetResult
  <2>1. told' = [told EXCEPT !.result = Result(rows)] /\ asked' = NoRequest
    BY <1>7 DEF GetResult, Tell
  <2>2. Result(rows) \in Results
    BY DEF Result, Results
  <2>3. /\ Result(rows) = "running" => rows # {}
        /\ Result(rows) = "failed" => \E r \in rows : Completed(r)
        /\ Result(rows) = "succeeded" => \E r \in rows : r.mark = "final"
    BY DEF Result, Completed
  <2> QED BY <1>2, <1>3, <1>4, <2>1, <2>2, <2>3 DEF AnswerInv
<1>8. CASE ListSteps
  <2>1. CASE rows = {}
    <3>1. told' = [told EXCEPT !.lost = FALSE] /\ asked' = NoRequest
      BY <1>8, <2>1, NothingIsLost, NotFoundTells
    <3> QED BY <1>2, <1>3, <1>4, <3>1 DEF AnswerInv
  <2>2. CASE rows # {}
    <3>1. /\ told' = [told EXCEPT !.number = [s \in Steps |-> Number(rows, s)],
                                  !.sealed = \E r \in rows : IsSealingRow(r)]
          /\ asked' = NoRequest
      BY <1>8, <2>2 DEF ListSteps, Tell
    <3>2. \A s \in Steps : /\ Number(rows, s) \in 0..MaxSteps
                           /\ Number(rows, s) = 0 <=> s \notin OutputSteps(rows)
      BY <1>3, NumberRange
    <3>3. told'.number = [s \in Steps |-> Number(rows, s)]
          /\ told'.sealed = (\E r \in rows : Ends(r))
          /\ told'.lost = told.lost /\ told'.result = told.result
      BY <3>1 DEF AnswerInv, Ends
    <3>4. told' \in [result : Results, sealed : BOOLEAN, lost : BOOLEAN,
                     number : [Steps -> 0..MaxSteps]]
      BY <3>1, <3>2 DEF AnswerInv
    <3> QED BY <1>2, <1>3, <1>4, <3>1, <3>2, <3>3, <3>4 DEF AnswerInv
  <2> QED BY <2>1, <2>2
<1>9. CASE GetTrajectory
  <2> DEFINE n == Number(rows, asked.step)
  <2>1. asked.step \in Steps /\ n \in 0..MaxSteps
        /\ (n = 0 <=> asked.step \notin OutputSteps(rows))
    BY <1>3, <1>9, NumberRange DEF GetTrajectory, AnswerInv
  <2> HIDE DEF n
  <2>2. CASE n # 0
    <3>1. told' = [told EXCEPT !.number[asked.step] = n] /\ asked' = NoRequest
      BY <1>9, <2>2 DEF GetTrajectory, Tell, n
    <3>2. told'.number = [told.number EXCEPT ![asked.step] = n]
          /\ told'.sealed = told.sealed
          /\ told'.lost = told.lost /\ told'.result = told.result
      BY <3>1 DEF AnswerInv
    <3>3. told' \in [result : Results, sealed : BOOLEAN, lost : BOOLEAN,
                     number : [Steps -> 0..MaxSteps]]
      BY <2>1, <3>1 DEF AnswerInv
    <3>4. \A s \in Steps : told'.number[s] = IF s = asked.step THEN n ELSE told.number[s]
      BY <3>2 DEF AnswerInv
    <3> QED BY <1>2, <1>3, <1>4, <2>1, <2>2, <3>1, <3>2, <3>3, <3>4 DEF AnswerInv, n
  <2>3. CASE n = 0
    <3>1. asked' = [asked EXCEPT !.kind = "session"] /\ told' = told
      BY <1>9, <2>3 DEF GetTrajectory, n
    <3>2. told.number[asked.step] = 0
      BY <2>1, <2>3 DEF AnswerInv
    <3> QED BY <1>2, <1>3, <2>1, <3>1, <3>2 DEF AnswerInv
  <2> QED BY <2>2, <2>3
<1>10. CASE WhichIsMissing
  <2>1. told' = [told EXCEPT !.lost = FALSE] /\ asked' = NoRequest
    BY <1>10, NothingIsLost, NotFoundTells
  <2> QED BY <1>2, <1>3, <1>4, <2>1 DEF AnswerInv
<1> QED BY <1>5, <1>6, <1>7, <1>8, <1>9, <1>10

\* No row is written, and nothing was told.
LEMMA LandingInit == Init => LandingInv
<1> SUFFICES ASSUME Init PROVE LandingInv
  OBVIOUS
<1>1. Written = {} /\ IsFiniteSet({})
  BY FS_EmptySet DEF Init, Written
<1>2. WrittenInv
  BY <1>1 DEF Init, WrittenInv, UniqueIds, Outputs, HasLatest
<1>3. AnswerInv
  BY DEF Init, AnswerInv, NoRequest, Results
<1> QED BY <1>2, <1>3 DEF LandingInv

\* The episode writes rows and says nothing; a request says and writes nothing; a row that
\* lands changes what both rest on.
LEMMA LandingNext == LandingInv /\ [Next]_vars => LandingInv'
<1> SUFFICES ASSUME LandingInv, [Next]_vars PROVE LandingInv'
  OBVIOUS
<1>1. CASE Call \/ CallRefused \/ EpisodeEnds \/ WrittenAgain
  <2>1. UNCHANGED <<asked, told, inOrder>> /\ rows' = rows
    BY <1>1 DEF Call, CallRefused, EpisodeEnds, WrittenAgain, Write
  <2> QED BY <1>1, <2>1, EpisodeKeeps, AnswersStayBacked DEF LandingInv
<1>2. CASE Land
  BY <1>2, LandKeeps, AnswersStayBacked DEF LandingInv, Land
<1>3. CASE UNCHANGED vars
  <2>1. UNCHANGED <<transit, rows, over, inOrder, asked, told>>
    BY <1>3 DEF vars, episode
  <2>2. WrittenInv'
    BY <2>1 DEF LandingInv, WrittenInv, Written, InSequence
  <2> QED BY <2>1, <2>2, AnswersStayBacked DEF LandingInv
<1> QED BY <1>1, <1>2, <1>3, RequestsKeep DEF Next

\* The rows written and the answers told fit in every state.
LEMMA LandingInductive == Spec => []LandingInv
  BY LandingInit, LandingNext, PTL DEF Spec

-----------------------------------------------------------------------------
\* What the other requests answer says nothing of steps.
LEMMA OtherAnswers ==
  ASSUME AnswerInv, GetResult \/ WhichIsMissing
  PROVE  told'.number = told.number /\ told'.sealed = told.sealed
<1>1. CASE GetResult
  BY <1>1 DEF GetResult, Tell, AnswerInv
<1>2. CASE WhichIsMissing
  <2>1. told' = [told EXCEPT !.lost = FALSE]
    BY <1>2, NothingIsLost, NotFoundTells
  <2> QED BY <2>1 DEF AnswerInv
<1> QED BY <1>1, <1>2

\* The types; a step number among them is at most the number of the session's steps.
THEOREM LandingTypeCorrect == Spec => []TypeOK
<1>1. LandingInv => TypeOK
  BY DEF LandingInv, WrittenInv, AnswerInv, TypeOK
<1> QED BY <1>1, LandingInductive, PTL

\* A step or session a client knows is found by every later request.
THEOREM KnownIsAlwaysFound == Spec => []KnownIsFound
<1>1. LandingInv => KnownIsFound
  BY DEF LandingInv, AnswerInv, KnownIsFound
<1> QED BY <1>1, LandingInductive, PTL

\* Nobody is told of an end before there is one.
THEOREM EndsAreTrue == Spec => []EndIsTrue
<1>1. LandingInv => EndIsTrue
  BY DEF LandingInv, WrittenInv, AnswerInv, EndIsTrue, Written, Ends, IsSealingRow, Completed
<1> QED BY <1>1, LandingInductive, PTL

\* The number of a step, once told, is told again, by the list and by the trajectory request.
THEOREM NumbersAlwaysStable == Spec => NumbersAreStable
<1>1. ASSUME LandingInv, [Next]_vars, inOrder, NEW s \in Steps, told.number[s] # 0
      PROVE  told'.number[s] = told.number[s]
  <2>1. told.number[s] = Number(rows, s)
    BY <1>1 DEF LandingInv, AnswerInv
  <2>2. CASE ListSteps
    <3>1. rows # {}
      BY <1>1 DEF LandingInv, AnswerInv, OutputSteps, Outputs
    <3>2. told'.number = [t \in Steps |-> Number(rows, t)]
      BY <1>1, <2>2, <3>1 DEF ListSteps, Tell, LandingInv, AnswerInv
    <3> QED BY <2>1, <3>2
  <2>3. CASE GetTrajectory
    <3>1. asked.step \in Steps /\ told.number \in [Steps -> 0..MaxSteps]
      BY <1>1, <2>3 DEF GetTrajectory, LandingInv, AnswerInv
    <3>2. \/ told' = told
          \/ told' = [told EXCEPT !.number[asked.step] = Number(rows, asked.step)]
      BY <2>3 DEF GetTrajectory, Tell
    <3>3. CASE told' = [told EXCEPT !.number[asked.step] = Number(rows, asked.step)]
      <4>1. told'.number = [told.number EXCEPT ![asked.step] = Number(rows, asked.step)]
        BY <1>1, <3>3 DEF LandingInv, AnswerInv
      <4> QED BY <2>1, <3>1, <4>1
    <3> QED BY <3>2, <3>3
  <2>4. CASE GetResult \/ WhichIsMissing
    BY <1>1, <2>4, OtherAnswers DEF LandingInv
  <2> QED BY <1>1, <2>2, <2>3, <2>4
       DEF Next, vars, Call, CallRefused, EpisodeEnds, WrittenAgain, Write, Land, Ask,
           RequestFails
<1>2. LandingInv /\ [Next]_vars =>
        [inOrder => \A s \in Steps :
           told.number[s] # 0 => told'.number[s] = told.number[s]]_vars
  BY <1>1
<1> QED BY <1>2, LandingInductive, PTL DEF Spec, NumbersAreStable

\* A list said to be sealed has all the steps there will ever be.
THEOREM SealedAreComplete == Spec => SealedIsComplete
<1>1. ASSUME LandingInv, [Next]_vars, inOrder, told.sealed
      PROVE  told'.sealed /\ told'.number = told.number
  <2>1. told.number = [s \in Steps |-> Number(rows, s)] /\ \E r \in rows : Ends(r)
    BY <1>1 DEF LandingInv, AnswerInv
  <2>2. CASE ListSteps
    <3>1. rows # {}
      BY <2>1
    <3> QED BY <1>1, <2>1, <2>2, <3>1 DEF ListSteps, Tell, LandingInv, AnswerInv, Ends
  <2>3. CASE GetTrajectory
    <3>1. asked.step \in Steps
      BY <1>1, <2>3 DEF GetTrajectory, LandingInv, AnswerInv
    <3>2. Number(rows, asked.step) = told.number[asked.step]
      BY <2>1, <3>1
    <3> QED BY <1>1, <2>3, <3>2 DEF GetTrajectory, Tell, LandingInv, AnswerInv
  <2>4. CASE GetResult \/ WhichIsMissing
    BY <1>1, <2>4, OtherAnswers DEF LandingInv
  <2> QED BY <1>1, <2>2, <2>3, <2>4
       DEF Next, vars, Call, CallRefused, EpisodeEnds, WrittenAgain, Write, Land, Ask,
           RequestFails
<1>2. LandingInv /\ [Next]_vars =>
        [inOrder /\ told.sealed => told'.sealed /\ told'.number = told.number]_vars
  BY <1>1
<1> QED BY <1>2, LandingInductive, PTL DEF Spec, SealedIsComplete

\* No result is taken back, in whatever order the closing rows land.
THEOREM ResultsOnlyAdvance == Spec => ResultsAdvance
<1>1. ASSUME LandingInv, [Next]_vars
      PROVE  Rank(told.result) <= Rank(told'.result)
  <2>1. CASE GetResult
    <3>1. told'.result = Result(rows)
      BY <1>1, <2>1 DEF GetResult, Tell, LandingInv, AnswerInv
    <3>2. /\ told.result = "succeeded" => Result(rows) = "succeeded"
          /\ told.result = "failed" => Result(rows) \in {"failed", "succeeded"}
          /\ told.result = "running" => Result(rows) \in {"running", "failed", "succeeded"}
      BY <1>1 DEF LandingInv, AnswerInv, Result, Completed
    <3>3. \A a, b \in Results : Rank(a) <= Rank(b) <=>
            \/ a \in {"none", "SESSION_NOT_FOUND"}
            \/ a = "running" /\ b \in {"running", "failed", "succeeded"}
            \/ a = "failed" /\ b \in {"failed", "succeeded"}
            \/ a = "succeeded" /\ b = "succeeded"
      BY DEF Rank, Results
    <3>4. told.result \in Results /\ Result(rows) \in Results
      BY <1>1 DEF LandingInv, AnswerInv, Result, Results
    <3> QED BY <3>1, <3>2, <3>3, <3>4 DEF Results
  <2>2. CASE told'.result = told.result
    BY <2>2 DEF Rank
  <2>3. CASE WhichIsMissing \/ (ListSteps /\ rows = {})
    <3>1. told' = [told EXCEPT !.lost = FALSE]
      BY <1>1, <2>3, NothingIsLost, NotFoundTells DEF LandingInv
    <3>2. told'.result = told.result
      BY <1>1, <3>1 DEF LandingInv, AnswerInv
    <3> QED BY <2>2, <3>2
  <2>4. CASE GetTrajectory \/ (ListSteps /\ rows # {})
    <3>1. told'.result = told.result
      BY <1>1, <2>4 DEF ListSteps, GetTrajectory, Tell, LandingInv, AnswerInv
    <3> QED BY <2>2, <3>1
  <2> QED BY <1>1, <2>1, <2>2, <2>3, <2>4
       DEF Next, vars, Call, CallRefused, EpisodeEnds, WrittenAgain, Write, Land, Ask,
           RequestFails
<1>2. LandingInv /\ [Next]_vars => [Rank(told.result) <= Rank(told'.result)]_vars
  BY <1>1
<1> QED BY <1>2, LandingInductive, PTL DEF Spec, ResultsAdvance
=============================================================================
