---------------------------- MODULE Gates_proofs ----------------------------
(***************************************************************************)
(* What holds of every number of gates, metrics and troubles: a verdict    *)
(* that says "tripped" has been announced.                                 *)
(***************************************************************************)
EXTENDS Gates, Sums_proofs, TLAPS

Listed == [gate : Gate, rule : {"isnan", "above", "no_improve"},
           action : {"stop_run", "record"}, verdict : {"none", "no", "yes"}]
Pass == [stage : {"over", "gates", "history", "record", "event", "live", "stop"},
         todo : SUBSET Listed, tripped : BOOLEAN]

GateTypes ==
    /\ scenario \in Scenario /\ gates \in [Gate -> Row \cup {None}]
    /\ pass \in [Evaluator -> Pass]
    /\ announced \subseteq Gate /\ excused \subseteq Gate

\* A pass beyond its first read has a gate at hand, and what it has exists.
HasGates == \A e \in Evaluator :
    /\ pass[e].stage \notin {"over", "gates"} => pass[e].todo # {}
    /\ \A row \in pass[e].todo : gates[row.gate] # None

\* The announcement of g was made, is about to be, or was cut off.
Telling(e, g) == At(e, "event") /\ Current(e).gate = g
Told(g) == g \in announced \cup excused \/ \E e \in Evaluator : Telling(e, g)

\* A verdict an evaluation read may be written back unannounced.
ReadIsTold == \A e \in Evaluator : \A row \in pass[e].todo : row.verdict = "yes" => Told(row.gate)

GatesInv == GateTypes /\ HasGates /\ ReadIsTold /\ TripIsAnnounced

-----------------------------------------------------------------------------

LEMMA CurrentIsListed ==
  ASSUME GateTypes, NEW e \in Evaluator, pass[e].todo # {}
  PROVE  Current(e) \in pass[e].todo /\ Current(e) \in Listed /\ Current(e).gate \in Gate
<1> DEFINE todo == pass[e].todo
           names == {row.gate : row \in todo}
<1>1. todo \subseteq Listed
  BY DEF GateTypes, Pass
<1>2. names \subseteq Nat /\ names # {}
  <2>1. \A row \in todo : row.gate \in Nat
    BY <1>1, GateAssumption DEF Listed
  <2>2. PICK row \in todo : TRUE
    OBVIOUS
  <2>3. row.gate \in names
    BY <2>2
  <2> QED BY <2>1, <2>3
<1>3. PICK n \in names : \A m \in names : n <= m
  <2> HIDE DEF names
  <2> QED BY <1>2, LeastNatural
<1>4. \E row \in todo : \A other \in todo : row.gate <= other.gate
  BY <1>3
<1>5. Current(e) \in todo
  BY <1>4 DEF Current
<1> QED BY <1>1, <1>5 DEF Listed

LEMMA AtHand ==
  ASSUME GatesInv, NEW e \in Evaluator, ~At(e, "over"), ~At(e, "gates")
  PROVE  /\ Current(e) \in pass[e].todo /\ Current(e) \in Listed /\ Current(e).gate \in Gate
         /\ gates[Current(e).gate] # None
BY CurrentIsListed DEF GatesInv, HasGates, At

\* What was told stays told while nothing is taken back and nobody about to
\* tell leaves off.
LEMMA ToldStays ==
  ASSUME announced \subseteq announced', excused \subseteq excused',
         \A e \in Evaluator : At(e, "event") =>
             pass'[e] = pass[e] \/ Current(e).gate \in announced' \cup excused'
  PROVE  \A g \in Gate : Told(g) => Told(g)'
<1> SUFFICES ASSUME NEW g \in Gate, Told(g), g \notin announced' \cup excused' PROVE Told(g)'
  BY DEF Told
<1>1. PICK e \in Evaluator : Telling(e, g)
  BY DEF Told
<1>2. pass'[e] = pass[e]
  BY <1>1 DEF Telling
<1>3. Telling(e, g)'
  BY <1>1, <1>2 DEF Telling, At, Current
<1> QED BY <1>3 DEF Told

\* A step of one evaluation that leaves the rows alone.
LEMMA PassGoesOn ==
  ASSUME GatesInv, NEW e \in Evaluator, NEW new \in Pass, pass' = [pass EXCEPT ![e] = new],
         new.stage \notin {"over", "gates"} => new.todo # {},
         \A row \in new.todo : row \in pass[e].todo
             \/ (row.gate \in Gate /\ gates[row.gate] # None
                 /\ row.verdict = gates[row.gate].verdict),
         At(e, "event") => Current(e).gate \in announced',
         UNCHANGED <<scenario, gates, excused>>, announced \subseteq announced', announced' \subseteq Gate
  PROVE  GatesInv'
<1> USE DEF GatesInv
<1>1. pass'[e] = new /\ \A f \in Evaluator : f # e => pass'[f] = pass[f]
  BY DEF GateTypes
<1>2. GateTypes'
  BY DEF GateTypes
<1>3. HasGates'
  BY <1>1 DEF HasGates
<1>4. \A g \in Gate : Told(g) => Told(g)'
  BY <1>1, ToldStays DEF At
<1>5. TripIsAnnounced'
  BY <1>4 DEF TripIsAnnounced, Told, Telling
<1>6. \A f \in Evaluator : \A row \in pass[f].todo : row.gate \in Gate
  BY DEF GateTypes, Pass, Listed
<1>7. ReadIsTold'
  <2>1. \A g \in Gate : gates[g] # None /\ gates[g].verdict = "yes" => Told(g)
    BY DEF TripIsAnnounced, Told, Telling
  <2> QED BY <1>1, <1>4, <1>6, <2>1 DEF ReadIsTold
<1> QED BY <1>2, <1>3, <1>5, <1>7

\* Most steps are none of the gates'.
LEMMA NotTheGates ==
  ASSUME GatesInv, UNCHANGED <<scenario, gates, pass, announced, excused>> PROVE GatesInv'
BY DEF GatesInv, GateTypes, HasGates, ReadIsTold, TripIsAnnounced, Told, Telling, At, Current

LEMMA TrippedOrNot ==
  ASSUME NEW rule \in {"isnan", "above", "no_improve"} PROVE Tripped(rule) \in BOOLEAN
BY DEF Tripped

LEMMA InitGates == Init => GatesInv
<1> SUFFICES ASSUME Init PROVE GatesInv
  OBVIOUS
<1>1. scenario \in Scenario /\ gates \in [Gate -> Registered \cup {None}]
  BY GateAssumption DEF Init
<1>2. GateTypes
  BY <1>1 DEF Init, GateTypes, Pass, NoPass, Registered
<1>3. HasGates /\ ReadIsTold
  BY DEF Init, HasGates, ReadIsTold, NoPass
<1>4. TripIsAnnounced
  BY <1>1 DEF TripIsAnnounced, Registered
<1> QED BY <1>2, <1>3, <1>4 DEF GatesInv

-----------------------------------------------------------------------------
(***************************************************************************)
(* The steps of an evaluation.                                             *)
(***************************************************************************)

\* Where the end of a gate's turn and the way to its next stage lead.
LEMMA Leads ==
  ASSUME GatesInv, NEW e \in Evaluator,
         \/ NextGate(e)
         \/ pass[e].todo # {} /\ \E stage \in {"event", "live", "stop"} : GoTo(e, stage)
  PROVE  \E new \in Pass : /\ pass' = [pass EXCEPT ![e] = new]
                           /\ new.stage \notin {"over", "gates"} => new.todo # {}
                           /\ new.todo \subseteq pass[e].todo
<1>1. pass \in [Evaluator -> Pass] /\ pass[e].todo \subseteq Listed /\ pass[e].tripped \in BOOLEAN
  BY DEF GatesInv, GateTypes, Pass
<1>2. CASE NextGate(e)
  <2> DEFINE rest == pass[e].todo \ {Current(e)}
             new == IF rest = {} THEN NoPass ELSE [stage |-> "history", todo |-> rest, tripped |-> FALSE]
  <2>1. pass' = [pass EXCEPT ![e] = new]
    BY <1>2 DEF NextGate
  <2>2. new \in Pass /\ new.todo \subseteq pass[e].todo /\ (new.stage \notin {"over", "gates"} => new.todo # {})
    BY <1>1 DEF Pass, NoPass
  <2> HIDE DEF new
  <2> QED BY <2>1, <2>2
<1>3. ASSUME pass[e].todo # {}, NEW stage \in {"event", "live", "stop"}, GoTo(e, stage)
      PROVE  \E new \in Pass : /\ pass' = [pass EXCEPT ![e] = new]
                               /\ new.stage \notin {"over", "gates"} => new.todo # {}
                               /\ new.todo \subseteq pass[e].todo
  <2> DEFINE new == [pass[e] EXCEPT !.stage = stage]
  <2>1. pass' = [pass EXCEPT ![e] = new]
    BY <1>3 DEF GoTo
  <2>2. new \in Pass /\ new.todo = pass[e].todo
    BY <1>1, <1>3 DEF Pass
  <2> HIDE DEF new
  <2> QED BY <1>3, <2>1, <2>2
<1> QED BY <1>2, <1>3

LEMMA ReadGatesInv ==
  ASSUME GatesInv, NEW e \in Evaluator, ReadGates(e) PROVE GatesInv'
<1> DEFINE listed == {[gate |-> g, rule |-> gates[g].rule, action |-> gates[g].action,
                       verdict |-> gates[g].verdict] : g \in {h \in Gate : gates[h] # None}}
           new == IF listed = {} THEN NoPass ELSE [stage |-> "history", todo |-> listed, tripped |-> FALSE]
<1>1. pass' = [pass EXCEPT ![e] = new] /\ At(e, "gates") /\ UNCHANGED <<scenario, gates, announced, excused>>
  BY DEF ReadGates, storeVars, ghostVars
<1>2. listed \subseteq Listed
        /\ \A row \in listed : row.gate \in Gate /\ gates[row.gate] # None
                               /\ row.verdict = gates[row.gate].verdict
  BY DEF GatesInv, GateTypes, Row, Listed
<1> HIDE DEF listed
<1>3. new \in Pass /\ (new.stage \notin {"over", "gates"} => new.todo # {}) /\ new.todo \subseteq listed
  BY <1>2 DEF Pass, NoPass
<1> HIDE DEF new
<1>4. ~At(e, "event") /\ announced \subseteq Gate
  BY <1>1 DEF At, GatesInv, GateTypes
<1> QED BY <1>1, <1>2, <1>3, <1>4, PassGoesOn

LEMMA ReadHistoryInv ==
  ASSUME GatesInv, NEW e \in Evaluator, ReadHistory(e) PROVE GatesInv'
<1> DEFINE new == [stage |-> "record", todo |-> pass[e].todo, tripped |-> Tripped(Current(e).rule)]
<1>1. pass' = [pass EXCEPT ![e] = new] /\ At(e, "history") /\ UNCHANGED <<scenario, gates, announced, excused>>
  BY DEF ReadHistory, storeVars, ghostVars
<1>2. Current(e).rule \in {"isnan", "above", "no_improve"}
  BY <1>1, AtHand DEF At, Listed
<1>3. new \in Pass /\ new.todo = pass[e].todo /\ new.todo # {}
  BY <1>1, <1>2, TrippedOrNot DEF Pass, GatesInv, GateTypes, HasGates, At
<1> HIDE DEF new
<1>4. ~At(e, "event") /\ announced \subseteq Gate
  BY <1>1 DEF At, GatesInv, GateTypes
<1> QED BY <1>1, <1>3, <1>4, PassGoesOn

\* The verdict written is announced by this evaluation, or was when it was read.
LEMMA RecordInv ==
  ASSUME GatesInv, NEW e \in Evaluator, Record(e) PROVE GatesInv'
<1> USE DEF GatesInv
<1>1. /\ At(e, "record") /\ ~At(e, "event") /\ UNCHANGED <<scenario, announced, excused>>
      /\ pass[e].todo # {}
  BY DEF Record, At, ghostVars, HasGates
<1>2. PICK g \in Gate : g = Current(e).gate /\ gates[g] \in Row /\ Current(e) \in pass[e].todo
  BY <1>1, AtHand DEF At, GateTypes
<1>3. PICK v \in {"yes", "no"} :
         /\ gates' = [gates EXCEPT ![g].verdict = v]
         /\ v = "yes" => pass[e].tripped
  BY <1>2 DEF Record
<1>4. PICK new \in Pass : /\ pass' = [pass EXCEPT ![e] = new]
                          /\ new.stage \notin {"over", "gates"} => new.todo # {}
                          /\ new.todo \subseteq pass[e].todo
  BY <1>1, Leads DEF Record
<1>5. pass'[e] = new /\ \A f \in Evaluator : f # e => pass'[f] = pass[f]
  BY <1>4 DEF GateTypes
<1>6. [gates[g] EXCEPT !.verdict = v] \in Row /\ [gates[g] EXCEPT !.verdict = v].verdict = v
  BY <1>2 DEF Row
<1>7. /\ gates' \in [Gate -> Row \cup {None}] /\ gates'[g] # None /\ gates'[g].verdict = v
      /\ \A h \in Gate : h # g => gates'[h] = gates[h]
  BY <1>3, <1>6, GateAssumption DEF GateTypes
<1>8. GateTypes'
  BY <1>1, <1>4, <1>7 DEF GateTypes
<1>9. \A f \in Evaluator : \A row \in pass[f].todo : row.gate \in Gate
  BY DEF GateTypes, Pass, Listed
<1>10. HasGates'
  BY <1>4, <1>5, <1>7, <1>9 DEF HasGates
<1>11. \A h \in Gate : Told(h) => Told(h)'
  BY <1>1, <1>5, ToldStays DEF At
<1>12. ReadIsTold'
  BY <1>4, <1>5, <1>9, <1>11 DEF ReadIsTold
<1>13. v = "yes" => Told(g)'
  <2> SUFFICES ASSUME pass[e].tripped PROVE Told(g)'
    BY <1>3
  <2>1. CASE Newly(e)
    <3>1. GoTo(e, "event")
      BY <2>1 DEF Record
    <3>2. pass'[e].stage = "event" /\ pass'[e].todo = pass[e].todo
      BY <3>1 DEF GoTo, GateTypes, Pass
    <3>3. Telling(e, g)'
      BY <1>2, <3>2 DEF Telling, At, Current
    <3> QED BY <3>3 DEF Told
  <2>2. CASE ~Newly(e)
    <3>1. Current(e).verdict = "yes"
      BY <2>2 DEF Newly
    <3> QED BY <1>2, <1>11, <3>1 DEF ReadIsTold
  <2> QED BY <2>1, <2>2
<1>14. \A h \in Gate : gates'[h] # None /\ gates'[h].verdict = "yes" => Told(h)'
  BY <1>7, <1>11, <1>13 DEF TripIsAnnounced, Told, Telling
<1>15. TripIsAnnounced'
  BY <1>14 DEF TripIsAnnounced, Told, Telling
<1> QED BY <1>8, <1>10, <1>12, <1>15

LEMMA AddEventInv ==
  ASSUME GatesInv, NEW e \in Evaluator, AddEvent(e) PROVE GatesInv'
<1>1. /\ At(e, "event") /\ announced' = announced \cup {Current(e).gate}
      /\ GoTo(e, "live") \/ NextGate(e)
      /\ UNCHANGED <<scenario, gates, excused>>
  BY DEF AddEvent, storeVars
<1>2. Current(e).gate \in Gate /\ announced \subseteq Gate /\ pass[e].todo # {}
  BY <1>1, AtHand DEF At, GatesInv, GateTypes
<1>3. PICK new \in Pass : /\ pass' = [pass EXCEPT ![e] = new]
                          /\ new.stage \notin {"over", "gates"} => new.todo # {}
                          /\ new.todo \subseteq pass[e].todo
  BY <1>1, <1>2, Leads
<1> QED BY <1>1, <1>2, <1>3, PassGoesOn

LEMMA StopInv ==
  ASSUME GatesInv, NEW e \in Evaluator, ReadRun(e) \/ Stop(e) PROVE GatesInv'
<1>1. /\ ~At(e, "event") /\ pass[e].todo # {} /\ announced \subseteq Gate
      /\ GoTo(e, "stop") \/ NextGate(e)
      /\ UNCHANGED <<scenario, gates, announced, excused>>
  BY DEF ReadRun, Stop, At, storeVars, ghostVars, GatesInv, HasGates, GateTypes
<1>2. PICK new \in Pass : /\ pass' = [pass EXCEPT ![e] = new]
                          /\ new.stage \notin {"over", "gates"} => new.todo # {}
                          /\ new.todo \subseteq pass[e].todo
  BY <1>1, Leads
<1> QED BY <1>1, <1>2, PassGoesOn

-----------------------------------------------------------------------------

\* An evaluation begins: a metric arrived, or somebody asked.
LEMMA BeginsInv ==
  ASSUME GatesInv, OnMetric \/ CheckGates PROVE GatesInv'
<1>1. PICK e \in Evaluator : At(e, "over") /\ GoTo(e, "gates")
  BY DEF OnMetric, CheckGates, Arrives, Evaluator
<1>2. UNCHANGED <<scenario, gates, announced, excused>> /\ announced \subseteq Gate
  BY DEF OnMetric, CheckGates, storeVars, ghostVars, GatesInv, GateTypes
<1> DEFINE new == [pass[e] EXCEPT !.stage = "gates"]
<1>3. pass' = [pass EXCEPT ![e] = new]
  BY <1>1 DEF GoTo
<1>4. new \in Pass /\ new.todo = pass[e].todo /\ new.stage = "gates"
  BY DEF GatesInv, GateTypes, Pass
<1> HIDE DEF new
<1> QED BY <1>1, <1>2, <1>3, <1>4, PassGoesOn DEF At

\* Announcements that a crash cuts off are excused.
LEMMA RestartInv ==
  ASSUME GatesInv, Restart PROVE GatesInv'
<1> USE DEF GatesInv
<1>1. /\ pass' = [e \in Evaluator |-> NoPass] /\ UNCHANGED <<scenario, gates, announced>>
      /\ excused' = excused \cup {Current(e).gate : e \in {f \in Evaluator : At(f, "event")}}
  BY DEF Restart, storeVars
<1>2. \A e \in Evaluator : At(e, "event") => Current(e).gate \in excused' /\ Current(e).gate \in Gate
  BY <1>1, AtHand DEF At
<1>3. GateTypes' /\ HasGates' /\ ReadIsTold'
  BY <1>1, <1>2 DEF GateTypes, HasGates, ReadIsTold, Pass, NoPass
<1>4. \A g \in Gate : Told(g) => Told(g)'
  BY <1>1, <1>2, ToldStays
<1>5. TripIsAnnounced'
  BY <1>1, <1>4 DEF TripIsAnnounced, Told, Telling
<1> QED BY <1>3, <1>5

\* A gate registered anew has no verdict, and an evaluation that has the old
\* one is excused.
LEMMA RegisterInv ==
  ASSUME GatesInv, NEW g \in Gate, Register(g) PROVE GatesInv'
<1> USE DEF GatesInv
<1>1. PICK row \in Registered : gates' = [gates EXCEPT ![g] = row]
  BY GateAssumption DEF Register, GateTypes
<1>2. /\ announced' = announced \ {g} /\ UNCHANGED <<scenario, pass>>
      /\ excused' \in {excused \cup {g}, excused \ {g}}
      /\ g \notin excused' => \A e \in Evaluator : \A r \in pass[e].todo : r.gate # g
  BY DEF Register
<1>3. /\ gates'[g] = row /\ row \in Row /\ row # None /\ row.verdict = "none"
      /\ \A h \in Gate : h # g => gates'[h] = gates[h]
  BY <1>1, GateAssumption DEF Registered, GateTypes
<1>4. GateTypes'
  BY <1>1, <1>2, <1>3 DEF GateTypes
<1>5. \A e \in Evaluator : \A r \in pass[e].todo : r.gate \in Gate
  BY DEF GateTypes, Pass, Listed
<1>6. HasGates'
  BY <1>2, <1>3, <1>5 DEF HasGates
<1>7. \A h \in Gate : h # g /\ Told(h) => Told(h)'
  BY <1>2 DEF Told, Telling, At, Current
<1>8. ReadIsTold'
  BY <1>2, <1>5, <1>7 DEF ReadIsTold, Told
<1>9. TripIsAnnounced'
  BY <1>3, <1>7 DEF TripIsAnnounced, Told, Telling
<1> QED BY <1>4, <1>6, <1>8, <1>9

LEMMA NextGates == GatesInv /\ [Next]_vars => GatesInv'
<1> SUFFICES ASSUME GatesInv, [Next]_vars PROVE GatesInv'
  OBVIOUS
<1>1. ASSUME NEW e \in Evaluator, Evaluate(e) PROVE GatesInv'
  BY <1>1, ReadGatesInv, ReadHistoryInv, RecordInv, AddEventInv, StopInv DEF Evaluate
<1>2. CASE \/ OnEnd \/ Assign \/ ReportMetric \/ JobEnds \/ Cancel \/ Drop \/ Reconnect
           \/ OperatorStop \/ ResumeRun \/ WindowPasses \/ UNCHANGED vars
  <2>1. UNCHANGED <<scenario, gates, pass, announced, excused>>
    BY <1>2 DEF OnEnd, Assign, ReportMetric, JobEnds, Cancel, Drop, Reconnect, OperatorStop,
                ResumeRun, WindowPasses, vars, storeVars, ghostVars
  <2> QED BY <2>1, NotTheGates
<1> QED BY <1>1, <1>2, BeginsInv, RestartInv, RegisterInv DEF Next

(* A gate whose verdict says "tripped" has been announced since it was       *)
(* registered, or an evaluation is about to, however many evaluations of the *)
(* same gates overlap (record_gate_result goes by the name and writes what   *)
(* its own read led to).                                                     *)
THEOREM TripsAreAnnounced == Spec => []TripIsAnnounced
<1>1. Spec => []GatesInv
  BY InitGates, NextGates, PTL DEF Spec
<1>2. GatesInv => TripIsAnnounced
  BY DEF GatesInv
<1> QED BY <1>1, <1>2, PTL
=============================================================================
