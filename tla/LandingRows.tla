---------------------------- MODULE LandingRows ----------------------------
(***************************************************************************)
(* What WTDataPlatformRepository makes of the landing rows of one session: *)
(* its result, its list of steps, and the search for one step, which       *)
(* RealRuntimeRepository.get_trajectory makes in two queries.  Every       *)
(* request queries the table as it is then, and rows land in between.      *)
(*                                                                         *)
(* The rows are external: the Gateway writes one per model call and one    *)
(* when it closes the session, the controller one with the evaluation.     *)
(* `id' stands for the pair of created_at and id the code sorts by.        *)
(***************************************************************************)
EXTENDS Integers, FiniteSets

CONSTANTS MaxSteps,      \* bound: the model calls of the session
          MaxRows        \* bound: the rows written, repeated ones included

ASSUME LandingAssumption == MaxSteps \in Nat /\ MaxRows \in Nat

VARIABLES
  transit,   \* the rows written that no query sees yet
  rows,      \* the rows a query sees
  over,      \* the episode makes no more model calls
  inOrder,   \* the rows of the session land in the order they were written
  asked,     \* the request under way: its kind, the step it is about
  told       \* what the client was told last

episode == <<transit, rows, over, inOrder>>
vars    == <<episode, asked, told>>

Steps  == 1..MaxSteps
Events == {"inference", "refused", "close", "summary"}

\* reward: of a step; terminal, completed: the flags; final: completed with a reward.
Marks == {"none", "reward", "terminal", "completed", "final"}

LandingRow == [id : 1..MaxRows, step : 0..MaxSteps, event : Events, mark : Marks]

Written  == transit \cup rows
LastStep == IF Written = {} THEN 0
            ELSE CHOOSE s \in 0..MaxSteps : /\ \E r \in Written : r.step = s
                                            /\ \A r \in Written : r.step <= s

Results == {"none", "SESSION_NOT_FOUND", "running", "failed", "succeeded"}
NoRequest == [kind |-> "none", step |-> 0]

TypeOK ==
  /\ transit \subseteq LandingRow /\ rows \subseteq LandingRow
  /\ over \in BOOLEAN /\ inOrder \in BOOLEAN
  /\ asked \in [kind : {"none", "steps", "result", "step", "session"}, step : 0..MaxSteps]
  /\ told \in [result : Results, sealed : BOOLEAN, lost : BOOLEAN,
               number : [Steps -> 0..MaxSteps]]

Init ==
  /\ transit = {} /\ rows = {} /\ over = FALSE /\ inOrder \in BOOLEAN
  /\ asked = NoRequest
  /\ told = [result |-> "none", sealed |-> FALSE, lost |-> FALSE,
             number |-> [s \in Steps |-> 0]]

-----------------------------------------------------------------------------
(* The writers *)
Write(step, event, mark) ==
  /\ Cardinality(Written) < MaxRows
  /\ transit' = transit \cup
       {[id |-> Cardinality(Written) + 1, step |-> step, event |-> event, mark |-> mark]}
  /\ UNCHANGED <<rows, inOrder, asked, told>>

\* A model call, or one more attempt at the last one; a refused one has no marks.
Call ==
  /\ ~over
  /\ \E s \in Steps \cap {LastStep, LastStep + 1}, m \in Marks :
       /\ over' = (m \in {"terminal", "completed", "final"})
       /\ Write(s, "inference", m)

CallRefused ==
  /\ ~over
  /\ \E s \in Steps \cap {LastStep, LastStep + 1} : Write(s, "refused", "none")
  /\ UNCHANGED over

\* The Gateway closes the session, the controller adds the evaluation, in either order.
EpisodeEnds ==
  /\ \E event \in {"close", "summary"} :
       /\ \A r \in Written : r.event # event
       /\ \E m \in {"none", "completed"} \cup (IF event = "summary" THEN {"final"} ELSE {}) :
            Write(LastStep, event, m)
  /\ over' = TRUE

\* A writer that lost its answer writes the row again.
WrittenAgain ==
  /\ \E r \in Written : Write(r.step, r.event, r.mark)
  /\ UNCHANGED over

Land ==
  /\ \E r \in transit :
       /\ inOrder => \A q \in transit : r.id <= q.id
       /\ transit' = transit \ {r} /\ rows' = rows \cup {r}
  /\ UNCHANGED <<over, inOrder, asked, told>>

-----------------------------------------------------------------------------
(* The adapter *)
\* _row_sort_key
Later(a, b) == a.step > b.step \/ (a.step = b.step /\ a.id > b.id)

Latest(set) == CHOOSE r \in set : \A q \in set \ {r} : Later(r, q)

IsTrajectoryRow(r) == r.event = "inference"

\* Mutant: the latest row of a step is taken whatever it is.
TrajectoryRowsUnfiltered(table) ==
  {r \in table : /\ IsTrajectoryRow(r)
                 /\ \A q \in table \ {r} : q.step = r.step => Later(r, q)}

\* _trajectory_rows: of the rows of a step that carry a model output, the latest.
TrajectoryRows(table) ==
  LET steps == {r \in table : IsTrajectoryRow(r)}
  IN {r \in steps : \A q \in steps \ {r} : q.step = r.step => Later(r, q)}

\* enumerate(steps, start = 1), in the order of the sort key.
Position(steps, r) == Cardinality({q \in steps : q = r \/ Later(r, q)})

\* Mutants: the position among all the rows; whatever is no model output seals.
NumberInTable(table, s) ==
  LET found == {r \in TrajectoryRows(table) : r.step = s}
  IN IF found = {} THEN 0 ELSE Position(table, Latest(found))

IsSealingRowUnlessOutput(r) == r.mark # "none" \/ r.event # "inference"

Number(table, s) ==
  LET steps == TrajectoryRows(table)
      found == {r \in steps : r.step = s}
  IN IF found = {} THEN 0 ELSE Position(steps, Latest(found))

IsSealingRow(r) == \/ r.mark \in {"terminal", "completed", "final"}
                   \/ r.event \in {"close", "summary"}

\* Mutants of the result: any reward counts; the latest completed row decides.
ResultByReward(table) ==
  IF table = {} THEN "SESSION_NOT_FOUND"
  ELSE IF \E r \in table : r.mark \in {"reward", "final"} THEN "succeeded"
  ELSE IF \E r \in table : r.mark = "completed" THEN "failed"
  ELSE "running"

ResultByLatest(table) ==
  LET completed == {r \in table : r.mark \in {"completed", "final"}}
  IN IF table = {} THEN "SESSION_NOT_FOUND"
     ELSE IF completed = {} THEN "running"
     ELSE IF Latest(completed).mark = "final" THEN "succeeded" ELSE "failed"

\* get_result: the rewarded rows among the completed ones decide, when there are any.
Result(table) ==
  IF table = {} THEN "SESSION_NOT_FOUND"
  ELSE IF \E r \in table : r.mark = "final" THEN "succeeded"
  ELSE IF \E r \in table : r.mark = "completed" THEN "failed"
  ELSE "running"

-----------------------------------------------------------------------------
(* The requests *)
Ask ==
  /\ asked = NoRequest
  /\ \/ \E kind \in {"steps", "result"} : asked' = [kind |-> kind, step |-> 0]
     \/ \E s \in Steps : asked' = [kind |-> "step", step |-> s]
  /\ UNCHANGED <<episode, told>>

Tell(answer) == told' = answer /\ asked' = NoRequest /\ UNCHANGED episode

\* SESSION_NOT_FOUND after the session was known, or STEP_NOT_FOUND after the step was.
Known == told.sealed \/ told.result \in {"running", "failed", "succeeded"}
           \/ \E s \in Steps : told.number[s] # 0
NotFound(wrong) == Tell([told EXCEPT !.lost = wrong])

ListSteps ==
  /\ asked.kind = "steps"
  /\ IF rows = {} THEN NotFound(Known)
     ELSE Tell([told EXCEPT !.number = [s \in Steps |-> Number(rows, s)],
                            !.sealed = \E r \in rows : IsSealingRow(r)])

GetResult ==
  /\ asked.kind = "result"
  /\ Tell([told EXCEPT !.result = Result(rows)])

\* Mutant: the enumeration goes over another list than that of get_steps.
GetTrajectoryByTable ==
  /\ asked.kind = "step"
  /\ LET n == NumberInTable(rows, asked.step)
     IN IF n # 0 THEN Tell([told EXCEPT !.number[asked.step] = n])
        ELSE asked' = [asked EXCEPT !.kind = "session"] /\ UNCHANGED <<episode, told>>

GetTrajectory ==
  /\ asked.kind = "step"
  /\ LET n == Number(rows, asked.step)
     IN IF n # 0 THEN Tell([told EXCEPT !.number[asked.step] = n])
        ELSE asked' = [asked EXCEPT !.kind = "session"] /\ UNCHANGED <<episode, told>>

\* The second query only decides which error it is.
WhichIsMissing ==
  /\ asked.kind = "session"
  /\ NotFound(IF rows = {} THEN Known ELSE told.number[asked.step] # 0)

\* DEPENDENCY_UNAVAILABLE
RequestFails ==
  /\ asked # NoRequest
  /\ asked' = NoRequest
  /\ UNCHANGED <<episode, told>>

Next == \/ Call \/ CallRefused \/ EpisodeEnds \/ WrittenAgain \/ Land
        \/ Ask \/ ListSteps \/ GetResult \/ GetTrajectory \/ WhichIsMissing \/ RequestFails

Spec == Init /\ [][Next]_vars

-----------------------------------------------------------------------------
(* Properties *)

\* API_DESIGN: a step that was listed or returned is found again by every later request,
\* and its session is, in whatever order rows land, attempts fail and rows are repeated.
KnownIsFound == ~told.lost

\* API_DESIGN: a step_id and its sequence_no never change once returned, by the list or by
\* the trajectory request, as long as the rows of the session land in order.
NumbersAreStable ==
  [][inOrder => \A s \in Steps :
       told.number[s] # 0 => told'.number[s] = told.number[s]]_vars

\* API_DESIGN: sealed = true says that the trajectory is complete: no request returns a
\* step that the sealed list did not have.
SealedIsComplete ==
  [][inOrder /\ told.sealed => told'.sealed /\ told'.number = told.number]_vars

Rank(r) == CASE r = "running" -> 1 [] r = "failed" -> 2 [] r = "succeeded" -> 3 [] OTHER -> 0

\* A success with its score is never taken back, and an ended session never runs again,
\* although the row with the reward and the one that closes the session land in any order.
ResultsAdvance == [][Rank(told.result) <= Rank(told'.result)]_vars

\* Nobody is told of an end, by a result or by a sealed list, while the episode goes on: a
\* reward of a step, a refused call and a repeated row do not end it.
EndIsTrue == told.sealed \/ told.result \in {"failed", "succeeded"} => over
=============================================================================
