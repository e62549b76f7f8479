-------------------------------- MODULE Hub --------------------------------
(***************************************************************************)
(* The control plane's hub: the run and worker rows of the store, the      *)
(* in-memory links, grants and high-water marks, and the handlers that     *)
(* move them.  Every handler ends in the scheduler pass the code ends it   *)
(* with (Pump).                                                            *)
(*                                                                         *)
(*   rstate, rworker   runs.state and runs.worker_id (store)               *)
(*   current           workers.current_run (store)                         *)
(*   connected         workers.connected (store)                           *)
(*   silent            workers whose last_seen is over HEARTBEAT_TIMEOUT   *)
(*   draining          workers whose lease is in LeaseState::Draining      *)
(*   link              Hub.links: the connection control messages go to    *)
(*   highWater         Hub.high_water (NoSeq when absent)                  *)
(*   grants            runs with a live upload grant                       *)
(***************************************************************************)
EXTENDS Fabric

VARIABLES rstate, rworker, current, connected, silent, draining,
          link, highWater, grants

storeVars == <<rstate, rworker, current, connected, silent, draining>>
memoryVars == <<link, highWater, grants>>
hubVars == <<storeVars, memoryVars>>

HubInit ==
    /\ rstate = [r \in Run |-> "new"]
    /\ rworker = [r \in Run |-> None]
    /\ current = [w \in Worker |-> None]
    /\ connected = {}
    /\ silent = {}
    /\ draining = {}
    /\ link = [w \in Worker |-> None]
    /\ highWater = [w \in Worker |-> NoSeq]
    /\ grants = {}

HubTypeOK ==
    /\ rstate \in [Run -> RunState]
    /\ rworker \in [Run -> Worker \cup {None}]
    /\ current \in [Worker -> Run \cup {None}]
    /\ connected \subseteq Worker
    /\ silent \subseteq Worker
    /\ draining \subseteq Worker
    /\ link \in [Worker -> Socket \cup {None}]
    /\ highWater \in [Worker -> Nat \cup {NoSeq}]
    /\ grants \subseteq Run

-----------------------------------------------------------------------------
(***************************************************************************)
(* Scheduling.  st, cur and lk stand for the run states, current runs and  *)
(* links the handler leaves behind before its trailing pump.               *)
(***************************************************************************)

\* The n oldest members of a set of runs.
Oldest(S, n) == {r \in S : Cardinality({q \in S : q < r}) < n}

Siblings(r) == {q \in Run : SweepOf[q] = SweepOf[r]}

\* Mutant: one child too many.
HeldLate(st, r) ==
    /\ SweepOf[r] # None
    /\ Concurrency[SweepOf[r]] > 0
    /\ Cardinality({q \in Siblings(r) : \/ st[q] \in Active
                                        \/ st[q] = "queued" /\ q < r})
         > Concurrency[SweepOf[r]]

\* A queued sweep child is held while older queued siblings and the active
\* ones already fill its sweep's concurrency.
Held(st, r) ==
    /\ SweepOf[r] # None
    /\ Concurrency[SweepOf[r]] > 0
    /\ Cardinality({q \in Siblings(r) : \/ st[q] \in Active
                                        \/ st[q] = "queued" /\ q < r})
         >= Concurrency[SweepOf[r]]

Assignable(st) == {r \in Run : st[r] = "queued" /\ ~Held(st, r)}

EligibleForAssignment(cur, lk, sil) ==
    {w \in Worker : /\ lk[w] # None
                    /\ cur[w] = None
                    /\ w \notin draining
                    /\ w \notin sil}

\* One pass over the links, in the arbitrary order of a hash map: the oldest
\* assignable runs go to eligible workers, one each.
Assignments(st, cur, lk, sil) ==
    LET free == EligibleForAssignment(cur, lk, sil)
    IN Injection(Oldest(Assignable(st), Cardinality(free)), free)

Taken(f) == {f[r] : r \in DOMAIN f}

\* dn is what the handler itself put on the wire before pumping.
Pump(st, wk, cur, gr, lk, sil, dn) ==
    \E f \in Assignments(st, cur, lk, sil) :
      /\ rstate' = [r \in Run |-> IF r \in DOMAIN f THEN "assigned" ELSE st[r]]
      /\ rworker' = [r \in Run |-> IF r \in DOMAIN f THEN f[r] ELSE wk[r]]
      /\ current' = [w \in Worker |->
                       IF w \in Taken(f)
                       THEN CHOOSE r \in DOMAIN f : f[r] = w ELSE cur[w]]
      /\ grants' = gr \cup DOMAIN f
      /\ down' = [c \in Conn |->
                    IF WorkerOf(c) \in Taken(f) /\ lk[WorkerOf(c)] = SocketOf(c)
                    THEN Append(dn[c], AssignOf(CHOOSE r \in DOMAIN f :
                                                  f[r] = WorkerOf(c)))
                    ELSE dn[c]]

Requeue(st, S) == [r \in Run |-> IF r \in S THEN "queued" ELSE st[r]]

-----------------------------------------------------------------------------
(***************************************************************************)
(* Operator requests: submit, sweep fan-out, stop, resume.                 *)
(***************************************************************************)

\* Runs are created in the order of their numbers.
NextInLine(S) == \A q \in Run : rstate[q] = "new" =>
                    q \in S \/ \A r \in S : r < q

Create(S) ==
    /\ S # {}
    /\ \A r \in S : rstate[r] = "new"
    /\ NextInLine(S)
    /\ Pump(Requeue(rstate, S), rworker, current, grants, link, silent, down)
    /\ UNCHANGED <<connected, silent, draining, link, highWater,
                   dialled, serving, up, budget>>

Submit(r) == SweepOf[r] = None /\ Create({r})

SubmitSweep(s) == Create({r \in Run : SweepOf[r] = s})

\* Mutant: a run with a worker is settled on the spot all the same.
CancelNowAlways(r) ==
    /\ LET cur == [w \in Worker |-> IF w = rworker[r] THEN None ELSE current[w]]
       IN Pump([rstate EXCEPT ![r] = "cancelled"], rworker, cur,
               grants \ {r}, link, silent, down)
    /\ UNCHANGED <<connected, silent, draining, link, highWater,
                   dialled, serving, up>>

Post(dn, w, m) ==
    IF link[w] = None THEN dn
    ELSE [dn EXCEPT ![<<w, link[w]>>] = Append(@, m)]

\* A live link is signalled and the worker's report finalises the run ...
SignalCancel(r) ==
    /\ rworker[r] # None /\ link[rworker[r]] # None
    /\ down' = Post(down, rworker[r], CancelOf(r))
    /\ UNCHANGED <<storeVars, memoryVars, dialled, serving, up>>

\* ... otherwise it is cancelled on the spot.
CancelNow(r) ==
    /\ rworker[r] # None => link[rworker[r]] = None
    /\ LET cur == [w \in Worker |-> IF w = rworker[r] THEN None ELSE current[w]]
       IN Pump([rstate EXCEPT ![r] = "cancelled"], rworker, cur,
               grants \ {r}, link, silent, down)
    /\ UNCHANGED <<connected, silent, draining, link, highWater,
                   dialled, serving, up>>

\* Mutant: a terminal run is not rejected.
StopRunAny(r) ==
    /\ Spend("stop")
    /\ rstate[r] # "new"
    /\ SignalCancel(r) \/ CancelNow(r)

StopRun(r) ==
    /\ Spend("stop")
    /\ rstate[r] \notin Terminal \cup {"new"}
    /\ SignalCancel(r) \/ CancelNow(r)

ResumeRun(r) ==
    /\ Spend("resume")
    /\ rstate[r] \in Terminal
    /\ Pump(Requeue(rstate, {r}), rworker, current, grants, link, silent, down)
    /\ UNCHANGED <<connected, silent, draining, link, highWater,
                   dialled, serving, up>>

-----------------------------------------------------------------------------
(***************************************************************************)
(* Connections.                                                            *)
(***************************************************************************)

\* A worker dials in: the session acknowledges the Hello with the worker's
\* high-water mark, replaces whatever link the worker had, and pumps.
Attach(c) ==
    LET w == WorkerOf(c)
        k == SocketOf(c)
        hw == IF highWater[w] = NoSeq THEN SeqOrigin ELSE highWater[w]
        lk == [link EXCEPT ![w] = k]
    IN /\ \A j \in Socket : <<w, j>> \notin dialled
       /\ c \notin serving
       /\ dialled' = dialled \cup {c}
       /\ serving' = serving \cup {c}
       /\ connected' = connected \cup {w}
       /\ silent' = silent \ {w}
       /\ link' = lk
       /\ Pump(rstate, rworker, current, grants, lk, silent \ {w},
               [down EXCEPT ![c] = <<AckOf(hw)>>])
       /\ UNCHANGED <<draining, highWater, up, budget>>

\* Mutant: the run goes back to the queue whatever the worker's class.
DetachRequeues(w, dn) ==
    LET lost == {current[w]} \ {None}
        cur == [current EXCEPT ![w] = None]
        lk == [link EXCEPT ![w] = None]
    IN /\ link' = lk
       /\ connected' = connected \ {w}
       /\ Pump(Requeue(rstate, lost), rworker, cur, grants \ lost, lk, silent, dn)
       /\ UNCHANGED <<silent, draining, highWater>>

\* Mutant: the vanished worker keeps its claim.
DetachKeepsClaim(w, dn) ==
    LET lost == IF w \in Persistent THEN {} ELSE {current[w]} \ {None}
        lk == [link EXCEPT ![w] = None]
    IN /\ link' = lk
       /\ connected' = connected \ {w}
       /\ Pump(Requeue(rstate, lost), rworker, current, grants \ lost, lk, silent, dn)
       /\ UNCHANGED <<silent, draining, highWater>>

\* Forget the worker's link, whichever session put it there; a leased
\* worker's run goes back to the queue, a persistent worker keeps its own.
Detach(w, dn) ==
    LET lost == IF w \in Persistent THEN {} ELSE {current[w]} \ {None}
        cur == IF w \in Persistent THEN current
               ELSE [current EXCEPT ![w] = None]
        lk == [link EXCEPT ![w] = None]
    IN /\ link' = lk
       /\ connected' = connected \ {w}
       /\ Pump(Requeue(rstate, lost), rworker, cur, grants \ lost, lk, silent, dn)
       /\ UNCHANGED <<silent, draining, highWater>>

\* A session task stops serving; whatever it had not read is lost.
Unserve(c) ==
    /\ c \in serving
    /\ serving' = serving \ {c}
    /\ up' = [up EXCEPT ![c] = <<>>]
    /\ Detach(WorkerOf(c),
              IF c \in dialled THEN down ELSE [down EXCEPT ![c] = <<>>])
    /\ UNCHANGED dialled

\* It finds its socket closed, or its sender gone from the links.
SessionEnd(c) ==
    /\ c \notin dialled \/ link[WorkerOf(c)] # SocketOf(c)
    /\ Unserve(c)
    /\ UNCHANGED budget

\* Or the network fails under it, before the worker knows.
SessionLost(c) == Spend("drop") /\ Unserve(c)

\* No message from a worker for longer than the heartbeat timeout.
Lapse(w) ==
    /\ Spend("lapse")
    /\ w \in connected \ silent
    /\ silent' = silent \cup {w}
    /\ UNCHANGED <<rstate, rworker, current, connected, draining, memoryVars,
                   dialled, serving, up, down>>

Heartbeat(c) ==
    /\ c \in serving \cap dialled
    /\ WorkerOf(c) \in silent
    /\ silent' = silent \ {WorkerOf(c)}
    /\ UNCHANGED <<rstate, rworker, current, connected, draining, memoryVars,
                   fabricVars>>

\* The heartbeat reaper gives a silent connected worker up.
ReapStale(w) ==
    /\ w \in connected \cap silent
    /\ Detach(w, down)
    /\ UNCHANGED <<dialled, serving, up, budget>>

\* Mutant: the overdue runs keep their grants.
ReapStuckKeepsGrant(S) ==
    /\ S \subseteq {r \in Run : rstate[r] = "assigned"}
    /\ LET held == {rworker[r] : r \in S}
           cur == [w \in Worker |-> IF w \in held THEN None ELSE current[w]]
       IN Pump(Requeue(rstate, S), rworker, cur, grants, link, silent, down)
    /\ UNCHANGED <<connected, silent, draining, link, highWater,
                   dialled, serving, up>>

\* Mutant: the worker of an overdue run is not freed.
ReapStuckKeepsClaim(S) ==
    /\ S \subseteq {r \in Run : rstate[r] = "assigned"}
    /\ Pump(Requeue(rstate, S), rworker, current, grants \ S, link, silent, down)
    /\ UNCHANGED <<connected, silent, draining, link, highWater,
                   dialled, serving, up>>

\* The assignment reaper requeues the assigned runs that were not confirmed
\* in time; with none overdue the pass only pumps.  Which runs can be overdue
\* is for the composition to say.
ReapStuck(S) ==
    /\ S \subseteq {r \in Run : rstate[r] = "assigned"}
    /\ LET held == {rworker[r] : r \in S}
           cur == [w \in Worker |-> IF w \in held THEN None ELSE current[w]]
       IN Pump(Requeue(rstate, S), rworker, cur, grants \ S, link, silent, down)
    /\ UNCHANGED <<connected, silent, draining, link, highWater,
                   dialled, serving, up>>

\* The process dies and comes back on the same store: every socket is gone
\* and so is all that lives in memory.
Restart ==
    /\ Spend("restart")
    /\ link' = [w \in Worker |-> None]
    /\ highWater' = [w \in Worker |-> NoSeq]
    /\ grants' = {}
    /\ serving' = {}
    /\ up' = [c \in Conn |-> <<>>]
    /\ down' = [c \in Conn |-> IF c \in dialled THEN down[c] ELSE <<>>]
    /\ UNCHANGED <<storeVars, dialled>>

-----------------------------------------------------------------------------
(***************************************************************************)
(* Messages from workers.                                                  *)
(***************************************************************************)

\* Mutant: the liveness check of transition_if_live is missing.
JobStartedAlways(w, r) ==
    /\ rstate' = [rstate EXCEPT ![r] = "running"]
    /\ rworker' = [rworker EXCEPT ![r] = w]
    /\ UNCHANGED <<current, grants, down>>

\* Mutant: a started run forgets its worker.
JobStartedAnonymous(w, r) ==
    /\ IF rstate[r] \in Terminal
       THEN UNCHANGED <<rstate, rworker>>
       ELSE /\ rstate' = [rstate EXCEPT ![r] = "running"]
            /\ rworker' = [rworker EXCEPT ![r] = None]
    /\ UNCHANGED <<current, grants, down>>

JobStarted(w, r) ==
    /\ IF rstate[r] \in Terminal
       THEN UNCHANGED <<rstate, rworker>>
       ELSE /\ rstate' = [rstate EXCEPT ![r] = "running"]
            /\ rworker' = [rworker EXCEPT ![r] = w]
    /\ UNCHANGED <<current, grants, down>>

\* Mutant: the sender is not freed.
FinishRunKeepsClaim(w, r, state, sil) ==
    Pump([rstate EXCEPT ![r] = state], [rworker EXCEPT ![r] = w],
         current, grants \ {r}, link, sil, down)

\* JobExited and JobKilled: the run is finalised whatever state it is in and
\* the sender is freed whatever it is doing.
FinishRun(w, r, state, sil) ==
    Pump([rstate EXCEPT ![r] = state], [rworker EXCEPT ![r] = w],
         [current EXCEPT ![w] = None], grants \ {r}, link, sil, down)

OnMessage(c) ==
    LET w == WorkerOf(c)
        e == Head(up[c])
    IN /\ c \in serving
       /\ up[c] # <<>>
       /\ up' = [up EXCEPT ![c] = Tail(@)]
       /\ silent' = silent \ {w}
       /\ IF e.seq <= highWater[w]
          THEN UNCHANGED <<rstate, rworker, current, grants, highWater, down>>
          ELSE /\ highWater' = [highWater EXCEPT ![w] = e.seq]
               /\ IF e.kind = "started" THEN JobStarted(w, e.run)
                  ELSE FinishRun(w, e.run, FinalState(e.kind), silent \ {w})
       /\ UNCHANGED <<connected, draining, link, dialled, serving, budget>>

-----------------------------------------------------------------------------
(***************************************************************************)
(* What the lease manager does to the hub: drain a leased worker towards   *)
(* its wall, and take a draining lease back when it is extended.           *)
(***************************************************************************)

DrainLease(w) ==
    /\ Spend("drain")
    /\ w \notin Persistent \cup draining
    /\ draining' = draining \cup {w}
    /\ down' = Post(down, w, DrainMsg)
    /\ UNCHANGED <<rstate, rworker, current, connected, silent, memoryVars,
                   dialled, serving, up>>

ExtendLease(w) ==
    /\ Spend("extend")
    /\ w \in draining
    /\ draining' = draining \ {w}
    /\ UNCHANGED <<rstate, rworker, current, connected, silent, memoryVars,
                   dialled, serving, up, down>>
=============================================================================
