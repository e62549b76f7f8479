------------------------------- MODULE Gates -------------------------------
(***************************************************************************)
(* The watchdog gates of one run.  A gate is a rule about one metric's     *)
(* history; every metric that arrives and every check_gates request walks  *)
(* over the run's gates, a store call at a time, and a gate that stops     *)
(* runs asks for the stop again as long as its rule holds.                 *)
(*                                                                         *)
(*   scenario  what this behaviour is about, of those in Scenario            *)
(*   gates     rows of the gates table, by name: the rule, the action and  *)
(*             the last verdict                                            *)
(*   series    the metrics table: per step the value and whether it was    *)
(*             written before the trailing window                          *)
(*   run       the run's state; assigned and running are both "active"     *)
(*   named     the row names a worker                                      *)
(*   pass      per evaluator, how far its evaluate_gates has come: the     *)
(*             session that ingests metrics, and a check_gates request     *)
(*   linked    hub.links has the worker                                    *)
(*   cancel    a Cancel is on its way to the worker                        *)
(*   job, pos  the worker executes the run, and its last reported step     *)
(*   outbox    the worker's events not yet at the hub                      *)
(*   announced gates with a gate_evaluated event since their registration  *)
(*   excused   gates whose announcement a crash cut off, or that were      *)
(*             registered anew under an evaluation                         *)
(***************************************************************************)
EXTENDS Integers, Sequences, FiniteSetsExt

CONSTANTS Gate,        \* names, in the order the store lists them
          Scenario,    \* the gates registered from the start and later, the
                       \* values of their metric, and how many troubles there are
          MaxStep,     \* this step stands for all later ones, too
          Backlog,     \* metrics the worker has under way at most
          NaN, None

Row == [rule : {"isnan", "above", "no_improve"}, action : {"stop_run", "record"},
        verdict : {"none", "no", "yes"}]

\* register_gate leaves the verdict open.
Registered == {row \in Row : row.verdict = "none"}

ASSUME GateAssumption ==
    /\ Gate \subseteq Nat /\ MaxStep \in Nat \ {0} /\ Backlog \in Nat \ {0}
    /\ None \notin Nat \cup {NaN} \cup Row /\ NaN \notin Nat
    /\ \A s \in Scenario : /\ s.values \subseteq Nat \cup {NaN}
                           /\ s.tables \subseteq [Gate -> Registered \cup {None}]
                           /\ s.rows \subseteq Registered

VARIABLES scenario, gates, series, run, named, pass, linked, cancel, job, pos,
          outbox, announced, excused, budget

storeVars == <<gates, series, run, named>>
workerVars == <<job, pos, outbox>>
fleetVars == <<linked, cancel, workerVars>>
ghostVars == <<announced, excused>>
vars == <<scenario, storeVars, pass, fleetVars, ghostVars, budget>>

Evaluator == {"ingest", "request"}
Step == 1..MaxStep
Live == {"queued", "active"}
NoPass == [stage |-> "over", todo |-> {}, tripped |-> FALSE]

Init ==
    /\ scenario \in Scenario
    /\ gates \in scenario.tables
    /\ series = [s \in Step |-> None]
    /\ run = "queued" /\ named = FALSE
    /\ pass = [e \in Evaluator |-> NoPass]
    /\ linked = TRUE /\ cancel = FALSE
    /\ job = FALSE /\ pos = 0 /\ outbox = <<>>
    /\ announced = {} /\ excused = {}
    /\ budget \in scenario.budgets

Spend(f) ==
    /\ budget[f] > 0
    /\ budget' = [budget EXCEPT ![f] = @ - 1]

-----------------------------------------------------------------------------
(***************************************************************************)
(* gate::evaluate, a function of the history in the order of its steps.    *)
(* Comparisons with NaN are false, and f64::min passes over it.            *)
(***************************************************************************)

Reported == {s \in Step : series[s] # None}
Latest == series[Max(Reported)].value
Observed(aged) == {series[s].value : s \in {r \in Reported : series[r].aged = aged}} \ {NaN}

Tripped(rule) ==
    CASE rule = "isnan" -> Reported # {} /\ Latest = NaN
      [] rule = "above" -> Reported # {} /\ Latest # NaN /\ Latest > 1
      [] rule = "no_improve" ->
            /\ Observed(TRUE) # {}
            /\ \A v \in Observed(FALSE) : v >= Min(Observed(TRUE))

-----------------------------------------------------------------------------
(***************************************************************************)
(* evaluate_gates.                                                         *)
(***************************************************************************)

At(e, stage) == pass[e].stage = stage
\* The store lists the gates by name.
Current(e) == CHOOSE row \in pass[e].todo : \A other \in pass[e].todo : row.gate <= other.gate
GoTo(e, stage) == pass' = [pass EXCEPT ![e].stage = stage]

\* On to the next gate of the list, if there is one.
NextGate(e) ==
    LET rest == pass[e].todo \ {Current(e)}
    IN  pass' = [pass EXCEPT ![e] =
                    IF rest = {} THEN NoPass
                    ELSE [stage |-> "history", todo |-> rest, tripped |-> FALSE]]

\* check_gates: anybody may ask at any time.
CheckGates ==
    /\ Spend("ask") /\ At("request", "over")
    /\ GoTo("request", "gates")
    /\ UNCHANGED <<scenario, storeVars, fleetVars, ghostVars>>

\* The rows as they are now are what the pass goes by to its end.
ReadGates(e) ==
    LET listed == {[gate |-> g, rule |-> gates[g].rule, action |-> gates[g].action,
                    verdict |-> gates[g].verdict] : g \in {h \in Gate : gates[h] # None}}
    IN  /\ At(e, "gates")
        /\ pass' = [pass EXCEPT ![e] =
                       IF listed = {} THEN NoPass
                       ELSE [stage |-> "history", todo |-> listed, tripped |-> FALSE]]
        /\ UNCHANGED <<scenario, storeVars, fleetVars, ghostVars, budget>>

ReadHistory(e) ==
    /\ At(e, "history")
    /\ pass' = [pass EXCEPT ![e] = [stage |-> "record", todo |-> @.todo,
                                    tripped |-> Tripped(Current(e).rule)]]
    /\ UNCHANGED <<scenario, storeVars, fleetVars, ghostVars, budget>>

\* Mutant: only a gate known to be untripped flips.
NewlyFlipped(e) == pass[e].tripped /\ Current(e).verdict = "no"

\* The verdict is new to the pass, which need not mean new to the store.
Newly(e) == pass[e].tripped /\ Current(e).verdict # "yes"

\* Mutant: the stop is asked for when the verdict flips, and never again.
WantsStopOnce(e) == Newly(e) /\ Current(e).action = "stop_run"

WantsStop(e) == pass[e].tripped /\ Current(e).action = "stop_run"

\* record_gate_result goes by the name: whatever is registered under it now.
Record(e) ==
    /\ At(e, "record")
    /\ gates' = [gates EXCEPT ![Current(e).gate].verdict =
                                 IF pass[e].tripped THEN "yes" ELSE "no"]
    /\ IF Newly(e) THEN GoTo(e, "event")
       ELSE IF WantsStop(e) THEN GoTo(e, "live") ELSE NextGate(e)
    /\ UNCHANGED <<scenario, series, run, named, fleetVars, ghostVars, budget>>

AddEvent(e) ==
    /\ At(e, "event")
    /\ announced' = announced \cup {Current(e).gate}
    /\ IF WantsStop(e) THEN GoTo(e, "live") ELSE NextGate(e)
    /\ UNCHANGED <<scenario, storeVars, fleetVars, excused, budget>>

ReadRun(e) ==
    /\ At(e, "live")
    /\ IF run \in Live THEN GoTo(e, "stop") ELSE NextGate(e)
    /\ UNCHANGED <<scenario, storeVars, fleetVars, ghostVars, budget>>

\* stop_run: the worker of the row is signalled if it has a link, else the run
\* is cancelled here and now; a run that ended meanwhile is refused.
StopRun ==
    IF run \in Live /\ named /\ linked
    THEN cancel' = TRUE /\ UNCHANGED run
    ELSE run' = (IF run \in Live THEN "cancelled" ELSE run) /\ UNCHANGED cancel

Stop(e) ==
    /\ At(e, "stop")
    /\ StopRun
    /\ NextGate(e)
    /\ UNCHANGED <<scenario, gates, series, named, linked, workerVars, ghostVars, budget>>

-----------------------------------------------------------------------------
(***************************************************************************)
(* What the hub hears of the worker, one event at a time: the next is read *)
(* when the evaluation is over.                                            *)
(***************************************************************************)

Arrives(kind) ==
    /\ linked /\ At("ingest", "over")
    /\ outbox # <<>> /\ Head(outbox).kind = kind
    /\ outbox' = Tail(outbox)

\* append_metrics: a step reported before gets the new value and keeps its
\* time.  The last step stands for later ones as well, whose time is now.
OnMetric ==
    LET m == Head(outbox)
        seen == m.step < MaxStep /\ series[m.step] # None
    IN  /\ Arrives("metric")
        /\ series' = [series EXCEPT ![m.step] =
                         [value |-> m.value, aged |-> IF seen THEN @.aged ELSE FALSE]]
        /\ GoTo("ingest", "gates")
        /\ UNCHANGED <<scenario, gates, run, named, linked, cancel, job, pos, ghostVars, budget>>

\* finish_run, for whatever state the run is in.
OnEnd ==
    /\ Arrives("killed") \/ Arrives("exited")
    /\ run' = IF Head(outbox).kind = "killed" THEN "cancelled" ELSE "ended"
    /\ UNCHANGED <<scenario, gates, series, named, pass, linked, cancel, job, pos, ghostVars, budget>>

-----------------------------------------------------------------------------
(***************************************************************************)
(* The worker, a persistent one: its job goes on without a link.           *)
(***************************************************************************)

\* The run is given to the worker, from the start or from a checkpoint.  What
\* the outbox had is cleared, what was on the socket is not.
Assign ==
    /\ run = "queued" /\ linked /\ ~job
    /\ run' = "active" /\ named' = TRUE
    /\ job' = TRUE /\ pos' \in 0..pos
    /\ outbox' \in {outbox, <<>>}
    /\ UNCHANGED <<scenario, gates, series, pass, linked, cancel, ghostVars, budget>>

ReportMetric ==
    /\ job /\ Len(outbox) < Backlog
    /\ pos' = IF pos < MaxStep THEN pos + 1 ELSE pos
    /\ \E v \in scenario.values :
          outbox' = Append(outbox, [kind |-> "metric", step |-> pos', value |-> v])
    /\ UNCHANGED <<scenario, storeVars, pass, linked, cancel, job, ghostVars, budget>>

JobEnds ==
    /\ job /\ Len(outbox) <= Backlog
    /\ job' = FALSE
    /\ outbox' = Append(outbox, [kind |-> "exited"])
    /\ UNCHANGED <<scenario, storeVars, pass, linked, cancel, pos, ghostVars, budget>>

\* The job is aborted, or the empty slot reported, in either case as killed.
Cancel ==
    /\ linked /\ cancel /\ Len(outbox) <= Backlog
    /\ cancel' = FALSE /\ job' = FALSE
    /\ outbox' = Append(outbox, [kind |-> "killed"])
    /\ UNCHANGED <<scenario, storeVars, pass, linked, pos, ghostVars, budget>>

-----------------------------------------------------------------------------

\* The link breaks, and a Cancel handed to it is lost.
Drop ==
    /\ Spend("drop") /\ linked
    /\ linked' = FALSE /\ cancel' = FALSE
    /\ UNCHANGED <<scenario, storeVars, pass, workerVars, ghostVars>>

Reconnect ==
    /\ ~linked /\ linked' = TRUE
    /\ UNCHANGED <<scenario, storeVars, pass, cancel, workerVars, ghostVars, budget>>

\* The control plane restarts: its passes end wherever they are.
Restart ==
    /\ Spend("restart")
    /\ pass' = [e \in Evaluator |-> NoPass]
    /\ linked' = FALSE /\ cancel' = FALSE
    /\ excused' = excused \cup {Current(e).gate : e \in {f \in Evaluator : At(f, "event")}}
    /\ UNCHANGED <<scenario, storeVars, workerVars, announced>>

\* register_gate: an upsert, which forgets the verdict.
Register(g) ==
    /\ Spend("register")
    /\ \E row \in scenario.rows : gates' = [gates EXCEPT ![g] = row]
    /\ announced' = announced \ {g}
    /\ excused' = IF \E e \in Evaluator : \E row \in pass[e].todo : row.gate = g
                  THEN excused \cup {g} ELSE excused \ {g}
    /\ UNCHANGED <<scenario, series, run, named, pass, fleetVars>>

OperatorStop ==
    /\ Spend("stop") /\ run \in Live
    /\ StopRun
    /\ UNCHANGED <<scenario, gates, series, named, pass, linked, workerVars, ghostVars>>

ResumeRun ==
    /\ Spend("resume") /\ run \notin Live
    /\ run' = "queued"
    /\ UNCHANGED <<scenario, gates, series, named, pass, fleetVars, ghostVars>>

\* The trailing window moves on beyond what was written so far.
WindowPasses ==
    /\ scenario.timed /\ \E s \in Reported : ~series[s].aged
    /\ series' = [s \in Step |-> IF s \in Reported THEN [series[s] EXCEPT !.aged = TRUE]
                                                  ELSE None]
    /\ UNCHANGED <<scenario, gates, run, named, pass, fleetVars, ghostVars, budget>>

-----------------------------------------------------------------------------

Evaluate(e) ==
    \/ ReadGates(e) \/ ReadHistory(e) \/ Record(e) \/ AddEvent(e) \/ ReadRun(e) \/ Stop(e)

Next ==
    \/ CheckGates
    \/ \E e \in Evaluator : Evaluate(e)
    \/ OnMetric \/ OnEnd
    \/ Assign \/ ReportMetric \/ JobEnds \/ Cancel
    \/ Drop \/ Reconnect \/ Restart
    \/ \E g \in Gate : Register(g)
    \/ OperatorStop \/ ResumeRun
    \/ WindowPasses

\* The session's pass goes on, so do the links and the queue; a job reports its
\* metric again and again, or ends.  Nobody has to ask for verdicts.
Fairness ==
    /\ WF_vars(Evaluate("ingest"))
    /\ WF_vars(OnMetric \/ OnEnd)
    /\ WF_vars(Assign) /\ WF_vars(ReportMetric \/ JobEnds) /\ WF_vars(Cancel)
    /\ WF_vars(Reconnect)

Spec == Init /\ [][Next]_vars /\ Fairness

-----------------------------------------------------------------------------
(***************************************************************************)
(* Properties.                                                             *)
(***************************************************************************)

\* A run one of whose watchdogs holds ends, or the watchdog does no longer
\* hold: the stop converges (control.rs: "a stop must CONVERGE, not fire
\* once"), although the Cancel may be lost with its link, the process may die
\* between the verdict and the stop, and a slow request may put an older verdict
\* over a newer one.
Breached(g) ==
    /\ gates[g] # None /\ gates[g].action = "stop_run"
    /\ Tripped(gates[g].rule)
    /\ run \in Live

BreachEndsRun == \A g \in Gate : Breached(g) ~> ~Breached(g)

\* A gate whose verdict is "tripped" has been announced since it was registered,
\* whichever of two evaluations wrote the verdict, or one of them is about to;
\* unless the process died in between, or the gate was registered anew while an
\* evaluation was under way, which then writes the old rule's verdict.
TripIsAnnounced ==
    \A g \in Gate :
        gates[g] # None /\ gates[g].verdict = "yes" =>
            \/ g \in announced \cup excused
            \/ \E e \in Evaluator : At(e, "event") /\ Current(e).gate = g
=============================================================================
