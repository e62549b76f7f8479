------------------------------- MODULE Fleet -------------------------------
(***************************************************************************)
(* The control plane's hub composed with its workers over the fabric, the  *)
(* fairness its loops justify, and what the composition promises under     *)
(* which faults.                                                           *)
(***************************************************************************)
EXTENDS Hub, ComputeWorker

\* History: the runs an operator or a watchdog gate ever asked to stop.
VARIABLE asked

vars == <<fabricVars, hubVars, workerVars, asked>>

Init == FabricInit /\ HubInit /\ WorkerInit /\ asked = {}

-----------------------------------------------------------------------------
(***************************************************************************)
(* Where a run is, across both ends and the wire.                          *)
(***************************************************************************)

Ordered(w, r) ==
    \E k \in Socket : \E i \in DOMAIN down[<<w, k>>] :
        down[<<w, k>>][i] = AssignOf(r)

\* What w has yet to report, on its way or kept for the next session.
Unreported(w) ==
    {e \in UNION {Range(jobrx[w]), Range(outbox[w]),
                  UNION {Range(up[<<w, k>>]) : k \in Socket}} :
       e.seq > highWater[w]}

Reporting(w, r) == \E e \in Unreported(w) : e.run = r

InHand(w, r) == Ordered(w, r) \/ Executes(w, r) \/ Reporting(w, r)

-----------------------------------------------------------------------------
(***************************************************************************)
(* The composition.                                                        *)
(***************************************************************************)

\* An assigned run that no worker has in hand stays so until it is overdue;
\* one that is merely slow is overdue only if ASSIGNMENT_STUCK_TIMEOUT is too
\* short for it, which is a fault.
StuckAssignments(S) ==
    /\ ReapStuck(S)
    /\ IF \E r \in S, w \in Worker : InHand(w, r) THEN Spend("stuck")
       ELSE UNCHANGED budget

Request ==
    \/ \E r \in Run : Submit(r) /\ UNCHANGED asked
    \/ \E s \in Sweep : SubmitSweep(s) /\ UNCHANGED asked
    \/ \E r \in Run : StopRun(r) /\ asked' = asked \cup {r}
    \/ \E r \in Run : ResumeRun(r) /\ UNCHANGED asked

HubStep ==
    \/ \E c \in Conn : \/ Attach(c) \/ SessionEnd(c) \/ SessionLost(c)
                       \/ Heartbeat(c) \/ OnMessage(c)
    \/ \E w \in Worker : \/ Lapse(w) \/ ReapStale(w)
                         \/ DrainLease(w) \/ ExtendLease(w)
    \/ \E S \in SUBSET Run : StuckAssignments(S)
    \/ Restart

WorkerStep ==
    \/ \E c \in Conn : \/ HelloAck(c) \/ Forward(c) \/ AssignJob(c) \/ Cancel(c)
                       \/ DrainRequest(c) \/ SelfDrain(c)
                       \/ Hangup(c) \/ ConnectionLost(c)
    \/ \E w \in Worker : \/ Crash(w)
                         \/ ExecutorStart(w) \/ ExecutorEnd(w) \/ ExecutorFinish(w)

Next == \/ Request /\ UNCHANGED workerVars
        \/ HubStep /\ UNCHANGED <<workerVars, asked>>
        \/ WorkerStep /\ UNCHANGED <<hubVars, asked>>

Spec == Init /\ [][Next]_vars

(***************************************************************************)
(* Both main loops keep turning: a worker redials after every lost session,*)
(* each end notices a closed socket, a session task reads what arrives, a  *)
(* worker's select loop serves its socket and its executor's channel, and  *)
(* the reaper ticks.  Nothing is assumed of operators or of faults.        *)
(***************************************************************************)
Redial(w) == /\ \E k \in Socket : Attach(<<w, k>>)
             /\ UNCHANGED <<workerVars, asked>>

SessionTask(c) == /\ SessionEnd(c) \/ Heartbeat(c) \/ OnMessage(c)
                  /\ UNCHANGED <<workerVars, asked>>

ReapLost == /\ \E S \in SUBSET Run : S # {} /\ StuckAssignments(S)
            /\ UNCHANGED <<budget, workerVars, asked>>

ReaperTick == ReapStuck({}) /\ UNCHANGED <<budget, workerVars, asked>>

SessionLoop(c) == /\ \/ HelloAck(c) \/ Forward(c) \/ AssignJob(c) \/ Cancel(c)
                     \/ DrainRequest(c) \/ Hangup(c)
                  /\ UNCHANGED <<hubVars, asked>>

Executor(w) == /\ ExecutorStart(w) \/ ExecutorFinish(w)
               /\ UNCHANGED <<hubVars, asked>>

JobEnds(w) == ExecutorEnd(w) /\ UNCHANGED <<hubVars, asked>>

Fairness == /\ \A w \in Worker : WF_vars(Redial(w)) /\ WF_vars(Executor(w))
            /\ \A c \in Conn : WF_vars(SessionTask(c)) /\ WF_vars(SessionLoop(c))
            /\ WF_vars(ReapLost) /\ WF_vars(ReaperTick)

\* Jobs may run for ever, or end by themselves or at max_runtime_secs.
FairSpec == Spec /\ Fairness
EndingSpec == FairSpec /\ \A w \in Worker : WF_vars(JobEnds(w))

TypeOK == FabricTypeOK /\ HubTypeOK /\ WorkerTypeOK /\ asked \subseteq Run

-----------------------------------------------------------------------------
(***************************************************************************)
(* What holds under every fault.                                           *)
(***************************************************************************)

\* An upload grant lives only while its run is assigned or running: every
\* path that ends or requeues a run revokes it.
GrantsFollowRuns == \A r \in grants : rstate[r] \in Active

\* An active run names the worker it was given to.
ActiveHasWorker == \A r \in Run : rstate[r] \in Active => rworker[r] # None

\* The run a leased worker claims can still be given back, by its session's
\* detach or by the heartbeat reaper: both look at connected workers only.
ClaimIsReapable ==
    \A w \in Worker \ Persistent : current[w] # None => w \in connected

\* Two workers never claim the same run: a requeue takes the run from one
\* worker's row before the scheduler writes it into another's.  Only a run
\* resumed while it is still in a row comes to be in two.
ClaimsAreDisjoint ==
    \A v, w \in Worker : current[v] = current[w] /\ current[v] # None => v = w

(***************************************************************************)
(* What holds of persistent workers as long as no assignment is requeued   *)
(* behind its worker's back.  A leased worker's session takes its job      *)
(* along, and what it still reports of it comes after the requeue.         *)
(***************************************************************************)

\* A worker only ever executes a run the control plane has it down for.
ExecutorIsOwner ==
    \A w \in Worker, r \in Run : Executes(w, r) =>
        rstate[r] \in Active /\ rworker[r] = w

\* A worker's claim is an active run of its own, so that nothing terminal is
\* requeued when the worker vanishes.
ClaimIsLive ==
    \A w \in Worker : current[w] # None =>
        rstate[current[w]] \in Active /\ rworker[current[w]] = w

\* A run the control plane has running is in its worker's hands.
RunningIsHeld ==
    \A r \in Run : rstate[r] = "running" =>
        Executes(rworker[r], r) \/ Reporting(rworker[r], r)

\* As long as nothing was ever stopped, only an operator's resume takes a run
\* out of a terminal state: no replay and no detach resurrects it.
TerminalIsFinal ==
    [][\A r \in Run : rstate[r] \in Terminal /\ rstate'[r] # rstate[r]
                        => ResumeRun(r) \/ asked # {}]_vars

\* Children of a sweep never execute, as far as the control plane can tell,
\* beyond the sweep's concurrency.
SweepWithinConcurrency ==
    \A s \in Sweep : Concurrency[s] > 0 =>
        Cardinality({r \in Run : SweepOf[r] = s /\ rstate[r] \in Active})
            <= Concurrency[s]

(***************************************************************************)
(* Stopping.  A stop that crosses the end of its run is answered by a kill *)
(* report that frees the worker from its next run; where runs go one at a  *)
(* time there is none yet.                                                 *)
(***************************************************************************)

\* A cancel aborts the job it names and no other.
CancelHitsItsTarget ==
    [][\A c \in Conn, r \in Run : Cancel(c) /\ Executes(WorkerOf(c), r)
                                    => Head(down[c]).run = r]_vars

\* A run that ends cancelled was asked to stop.
CancelledWasAsked == \A r \in Run : rstate[r] = "cancelled" => r \in asked

\* A terminal run executes nowhere: what stop_run settles on the spot is not
\* still burning a worker's time.
TerminalIsIdle ==
    \A r \in Run, w \in Worker : Executes(w, r) => rstate[r] \notin Terminal

(***************************************************************************)
(* Progress.                                                               *)
(***************************************************************************)

\* Every submitted run ends.
EveryRunEnds == \A r \in Run : rstate[r] = "queued" ~> rstate[r] \in Terminal

\* A run asked to stop ends, even one that would never end by itself.
StopEnds == \A r \in Run : r \in asked ~> rstate[r] \in Terminal

-----------------------------------------------------------------------------
(***************************************************************************)
(* The refinement: what the two ends hold, put together, is Execution.     *)
(***************************************************************************)

Underway(w, r) == /\ slot[w] # None /\ slot[w].run = r
                  /\ slot[w].phase = "running"

Doers(r) == {w \in Worker : Underway(w, r)}

Outcomes(r) == {FinalState(e.kind) :
                   e \in {f \in UNION {Unreported(w) : w \in Worker} :
                             f.run = r /\ f.kind # "started"}}

AnyOf(S) == CHOOSE x \in S : TRUE

TruthOf(r) == CASE rstate[r] = "new" -> "absent"
                [] rstate[r] \in Terminal -> rstate[r]
                [] rstate[r] \in {"queued"} \cup Active ->
                     IF Doers(r) # {} THEN "executing"
                     ELSE IF Outcomes(r) # {} THEN AnyOf(Outcomes(r))
                     ELSE "waiting"

DoerOf(r) == IF Doers(r) = {} THEN None ELSE AnyOf(Doers(r))

RecordOf(r) == CASE rstate[r] = "new" -> "absent"
                 [] rstate[r] \in {"queued", "assigned"} -> "waiting"
                 [] rstate[r] = "running" -> "executing"
                 [] rstate[r] \in Terminal -> rstate[r]

Promise == INSTANCE Execution
             WITH Outcome <- {FinalState(kind) : kind \in ExitKind},
                  truth <- [r \in Run |-> TruthOf(r)],
                  doer <- [r \in Run |-> DoerOf(r)],
                  record <- [r \in Run |-> RecordOf(r)]

\* With a fleet of persistent workers, drops at any moment and replays leave
\* no trace: the fleet implements Execution.
ImplementsExecution == Promise!Spec
=============================================================================
