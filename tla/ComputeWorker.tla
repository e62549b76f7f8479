--------------------------- MODULE ComputeWorker ---------------------------
(***************************************************************************)
(* The worker process: what run_session and the executor keep and do.      *)
(* All of it lives in memory and outlives a session; only the process'     *)
(* death clears it.                                                        *)
(*                                                                         *)
(*   seq     the worker-lifetime sequence counter                          *)
(*   slot    the current job, None or [run, phase]                         *)
(*   jobrx   events the executor produced and no session has picked up     *)
(*   outbox  events of the current job handed to a session, for replay     *)
(*   refuses workers that are draining and take no new work                *)
(***************************************************************************)
EXTENDS Fabric

VARIABLES seq, slot, jobrx, outbox, refuses

workerVars == <<seq, slot, jobrx, outbox, refuses>>

Job == [run : Run, phase : {"spawned", "running", "reported", "finished"}]
Spawned(r) == [run |-> r, phase |-> "spawned"]

\* An empty slot is none of the jobs.
ASSUME JobAssumption == None \notin Job

WorkerInit ==
    /\ seq = [w \in Worker |-> SeqOrigin]
    /\ slot = [w \in Worker |-> None]
    /\ jobrx = [w \in Worker |-> <<>>]
    /\ outbox = [w \in Worker |-> <<>>]
    /\ refuses = {}

WorkerTypeOK ==
    /\ seq \in [Worker -> Nat]
    /\ slot \in [Worker -> Job \cup {None}]
    /\ jobrx \in [Worker -> Seq(Event)]
    /\ outbox \in [Worker -> Seq(Event)]
    /\ refuses \subseteq Worker

\* The slot holds a job whose task has not finished.
Busy(w) == slot[w] # None /\ slot[w].phase # "finished"

Executes(w, r) == /\ slot[w] # None /\ slot[w].run = r
                  /\ slot[w].phase \in {"spawned", "running"}

Stamp(w, r, kind) == [seq |-> seq[w], run |-> r, kind |-> kind]

\* An event goes to the executor's channel with the next sequence number.
Emit(w, r, kind) ==
    /\ seq' = [seq EXCEPT ![w] = @ + 1]
    /\ jobrx' = [jobrx EXCEPT ![w] = Append(@, Stamp(w, r, kind))]

\* What reaches a socket whose other end is gone is lost.
Send(c, events) == up' = IF c \in serving THEN [up EXCEPT ![c] = @ \o events]
                         ELSE up

\* Past the handshake: the acknowledgement is the first message down.
InSession(c) == /\ c \in dialled
                /\ down[c] # <<>> => Head(down[c]).type # "ack"

Arrives(c, type) == /\ c \in dialled
                    /\ down[c] # <<>>
                    /\ Head(down[c]).type = type
                    /\ down' = [down EXCEPT ![c] = Tail(@)]

-----------------------------------------------------------------------------

\* Dropping the events the control plane has applied drops a prefix, for the
\* outbox is in sequence order.  Nothing is trimmed against SeqOrigin.
Applied(events, hw) == {i \in DOMAIN events : events[i].seq <= hw}

TrimToHighWater(events, hw) ==
    IF hw > SeqOrigin
    THEN SubSeq(events, Cardinality(Applied(events, hw)) + 1, Len(events))
    ELSE events

\* Mutant: a new session resumes streaming without resending its outbox.
HelloAckNoReplay(c) ==
    LET w == WorkerOf(c)
        kept == TrimToHighWater(outbox[w] \o jobrx[w], Head(down[c]).highWater)
    IN /\ Arrives(c, "ack")
       /\ outbox' = [outbox EXCEPT ![w] = kept]
       /\ jobrx' = [jobrx EXCEPT ![w] = <<>>]
       /\ refuses' = refuses \ {w}
       /\ UNCHANGED <<seq, slot, dialled, serving, up, budget>>

\* The handshake completes: sweep up what was produced meanwhile, drop what
\* the control plane has applied, resend the rest.
HelloAck(c) ==
    LET w == WorkerOf(c)
        kept == TrimToHighWater(outbox[w] \o jobrx[w], Head(down[c]).highWater)
    IN /\ Arrives(c, "ack")
       /\ outbox' = [outbox EXCEPT ![w] = kept]
       /\ jobrx' = [jobrx EXCEPT ![w] = <<>>]
       /\ refuses' = refuses \ {w}
       /\ Send(c, kept)
       /\ UNCHANGED <<seq, slot, dialled, serving, budget>>

\* An executor event is recorded for replay, then streamed.
Forward(c) ==
    LET w == WorkerOf(c)
    IN /\ InSession(c)
       /\ jobrx[w] # <<>>
       /\ outbox' = [outbox EXCEPT ![w] = Append(@, Head(jobrx[w]))]
       /\ jobrx' = [jobrx EXCEPT ![w] = Tail(@)]
       /\ Send(c, <<Head(jobrx[w])>>)
       /\ UNCHANGED <<seq, slot, refuses, dialled, serving, down, budget>>

\* A draining or busy worker ignores an assignment; otherwise the job starts
\* with a fresh outbox.
AssignJob(c) ==
    LET w == WorkerOf(c)
    IN /\ Arrives(c, "assign")
       /\ IF w \in refuses \/ Busy(w)
          THEN UNCHANGED <<slot, outbox>>
          ELSE /\ slot' = [slot EXCEPT ![w] = Spawned(Head(down[c]).run)]
               /\ outbox' = [outbox EXCEPT ![w] = <<>>]
       /\ UNCHANGED <<seq, jobrx, refuses, dialled, serving, up, budget>>

\* Mutant: the aborted job is not reported.
CancelSilently(c) ==
    /\ Arrives(c, "cancel")
    /\ slot' = [slot EXCEPT ![WorkerOf(c)] = None]
    /\ UNCHANGED <<seq, jobrx, outbox, refuses, dialled, serving, up, budget>>

\* Whatever job is in the slot is aborted and reported killed; for an empty
\* slot the run named in the message is.
Cancel(c) ==
    LET w == WorkerOf(c)
        killed == IF slot[w] = None THEN Head(down[c]).run ELSE slot[w].run
    IN /\ Arrives(c, "cancel")
       /\ slot' = [slot EXCEPT ![w] = None]
       /\ Emit(w, killed, "killed_cancel")
       /\ UNCHANGED <<outbox, refuses, dialled, serving, up, budget>>

DrainRequest(c) ==
    /\ Arrives(c, "drain")
    /\ refuses' = refuses \cup {WorkerOf(c)}
    /\ UNCHANGED <<seq, slot, jobrx, outbox, dialled, serving, up, budget>>

\* The belt: once T-drain has passed on the worker's own clock every session
\* soon drains itself.  A budget of 0 is a lease that outlasts the behaviour.
SelfDrain(c) ==
    /\ budget["selfdrain"] > 0
    /\ InSession(c)
    /\ WorkerOf(c) \notin refuses \cup Persistent
    /\ refuses' = refuses \cup {WorkerOf(c)}
    /\ UNCHANGED <<seq, slot, jobrx, outbox, fabricVars>>

\* Mutant: the worker abandons its job whatever its class.
EndSessionAborts(c) ==
    LET w == WorkerOf(c)
    IN /\ c \in dialled
       /\ dialled' = dialled \ {c}
       /\ down' = [down EXCEPT ![c] = <<>>]
       /\ slot' = [slot EXCEPT ![w] = None]
       /\ UNCHANGED <<seq, jobrx, outbox, refuses, serving, up>>

\* The session is over for the worker, which dials again after a backoff.
\* A leased worker abandons its job without a word.
EndSession(c) ==
    LET w == WorkerOf(c)
    IN /\ c \in dialled
       /\ dialled' = dialled \ {c}
       /\ down' = [down EXCEPT ![c] = <<>>]
       /\ slot' = IF w \in Persistent THEN slot ELSE [slot EXCEPT ![w] = None]
       /\ UNCHANGED <<seq, jobrx, outbox, refuses, serving, up>>

\* The control plane closed the socket, or the network fails.
Hangup(c) == c \notin serving /\ EndSession(c) /\ UNCHANGED budget
ConnectionLost(c) == Spend("drop") /\ EndSession(c)

\* A persistent worker's process dies and is started again by its service
\* manager: same identity, nothing in memory.
Crash(w) ==
    /\ Spend("crash")
    /\ w \in Persistent
    /\ dialled' = {c \in dialled : WorkerOf(c) # w}
    /\ down' = [c \in Conn |-> IF WorkerOf(c) = w THEN <<>> ELSE down[c]]
    /\ seq' = [seq EXCEPT ![w] = SeqOrigin]
    /\ slot' = [slot EXCEPT ![w] = None]
    /\ jobrx' = [jobrx EXCEPT ![w] = <<>>]
    /\ outbox' = [outbox EXCEPT ![w] = <<>>]
    /\ refuses' = refuses \ {w}
    /\ UNCHANGED <<serving, up>>

-----------------------------------------------------------------------------
(***************************************************************************)
(* The executor task.                                                      *)
(***************************************************************************)

ExecutorStart(w) ==
    /\ slot[w] # None /\ slot[w].phase = "spawned"
    /\ slot' = [slot EXCEPT ![w].phase = "running"]
    /\ Emit(w, slot[w].run, "started")
    /\ UNCHANGED <<outbox, refuses, fabricVars>>

\* The report is on its way before the task counts as finished; should the
\* task linger in between, an assignment that arrives finds the worker busy.
ExecutorEnd(w) ==
    /\ slot[w] # None /\ slot[w].phase = "running"
    /\ \E kind \in ExitKind : Emit(w, slot[w].run, kind)
    /\ \/ /\ slot' = [slot EXCEPT ![w].phase = "finished"]
          /\ UNCHANGED budget
       \/ /\ Spend("linger")
          /\ slot' = [slot EXCEPT ![w].phase = "reported"]
    /\ UNCHANGED <<outbox, refuses, dialled, serving, up, down>>

ExecutorFinish(w) ==
    /\ slot[w] # None /\ slot[w].phase = "reported"
    /\ slot' = [slot EXCEPT ![w].phase = "finished"]
    /\ UNCHANGED <<seq, jobrx, outbox, refuses, fabricVars>>
=============================================================================
