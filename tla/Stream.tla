------------------------------- MODULE Stream -------------------------------
(***************************************************************************)
(* The event stream of one persistent worker: everything its jobs produce, *)
(* log lines included, numbered from one counter by several tasks, kept in *)
(* the outbox, resent after every reconnect and deduplicated by the hub    *)
(* against its high-water mark.                                            *)
(*                                                                         *)
(* Events keep the order in which they enter the executor's channel        *)
(* through outbox and socket, so both are sets of positions in that order. *)
(* The worker's process lives on, the control plane's may restart; what it *)
(* tells the worker arrives at once, and its store does not fail.          *)
(*                                                                         *)
(*   seq       the worker's counter                                        *)
(*   job       jobs assigned so far; the last of them is the current one   *)
(*   phase     of the current job's supervisor task                        *)
(*   reading   jobs whose pump tasks still read the output                 *)
(*   held      number it took for a line it has not sent yet               *)
(*   sent      history of the executor's channel                           *)
(*   taken     how much of it the sessions have picked up                  *)
(*   outbox    positions kept for replay                                   *)
(*   session   socket of the worker's session, or None                     *)
(*   ack       high-water mark in a handshake not completed, or None       *)
(*   attached  sockets with a live session task in the control plane       *)
(*   wire      positions on their way on each socket                       *)
(*   highWater the hub's mark for this worker, in memory                   *)
(*   applied   positions the hub has ever applied, in the store            *)
(***************************************************************************)
EXTENDS Integers, Sequences, FiniteSets

CONSTANTS Pump,     \* pump tasks of a job: stdout, stderr, the metrics tail
          Jobs,     \* jobs assigned in a behaviour; a bound
          Socket,   \* slots for connections, which may overlap
          Budget,   \* lines and faults a behaviour may start with; a bound
          None

Fault == {"line", "drop", "restart", "cancel"}

ASSUME JobsAssumption == Jobs \in Nat
ASSUME NoneAssumption == None \notin Nat /\ None \notin Socket
ASSUME FaultAssumption == Budget \subseteq [Fault -> Nat]

VARIABLES seq, job, phase, reading, held, sent, taken, outbox,
          session, ack, attached, wire, highWater, applied, budget

executorVars == <<seq, job, phase, reading, held, sent>>
workerVars == <<executorVars, taken, outbox, session, ack>>
hubVars == <<attached, highWater, applied>>
vars == <<workerVars, hubVars, wire, budget>>

Task == (1..Jobs) \X Pump
Kind == {"started", "line", "end"}
Event == [seq : Nat, job : 1..Jobs, kind : Kind]

NoSeq == -1
SeqOrigin == 0

Init ==
    /\ seq = SeqOrigin
    /\ job = 0
    /\ phase = "finished"
    /\ reading = {}
    /\ held = [t \in Task |-> None]
    /\ sent = <<>>
    /\ taken = 0
    /\ outbox = {}
    /\ session = None
    /\ ack = None
    /\ attached = {}
    /\ wire = [k \in Socket |-> {}]
    /\ highWater = NoSeq
    /\ applied = {}
    /\ budget \in Budget

TypeOK ==
    /\ seq \in Nat
    /\ job \in 0..Jobs
    /\ phase \in {"spawned", "running", "finished"}
    /\ phase # "finished" => job > 0
    /\ reading \subseteq 1..job
    /\ held \in [Task -> Nat \cup {None}]
    /\ sent \in Seq(Event)
    /\ taken \in 0..Len(sent)
    /\ outbox \subseteq 1..taken
    /\ session \in Socket \cup {None}
    /\ ack \in Nat \cup {None}
    /\ attached \subseteq Socket
    /\ wire \in [Socket -> SUBSET (1..taken)]
    /\ highWater \in Nat \cup {NoSeq}
    /\ applied \subseteq 1..taken
    /\ budget \in [Fault -> Nat]

Spend(what) == /\ budget[what] > 0
               /\ budget' = [budget EXCEPT ![what] = @ - 1]

-----------------------------------------------------------------------------
(***************************************************************************)
(* The tasks of a job.                                                     *)
(***************************************************************************)

\* Mutant: numbered from before the counter.
EmitBefore(kind) ==
    /\ sent' = Append(sent, [seq |-> seq - 1, job |-> job, kind |-> kind])
    /\ seq' = seq + 1

\* What the supervisor and the session send, numbered and sent in one step: of
\* the tasks of a job only the pumps run at the same time as another.
Emit(kind) ==
    /\ sent' = Append(sent, [seq |-> seq, job |-> job, kind |-> kind])
    /\ seq' = seq + 1

\* The job starts, and with it its pumps.
ExecutorStart ==
    /\ phase = "spawned"
    /\ phase' = "running"
    /\ reading' = reading \cup {job}
    /\ Emit("started")
    /\ UNCHANGED <<job, held, taken, outbox, session, ack, hubVars, wire, budget>>

\* A pump takes a number for the line it has read ...
TakeNumber(t) ==
    /\ Spend("line")
    /\ t[1] \in reading /\ held[t] = None
    /\ held' = [held EXCEPT ![t] = seq]
    /\ seq' = seq + 1
    /\ UNCHANGED <<job, phase, reading, sent, taken, outbox, session, ack,
                   hubVars, wire>>

\* ... and sends the line.
SendLine(t) ==
    /\ held[t] # None
    /\ sent' = Append(sent, [seq |-> held[t], job |-> t[1], kind |-> "line"])
    /\ held' = [held EXCEPT ![t] = None]
    /\ UNCHANGED <<seq, job, phase, reading, taken, outbox, session, ack, hubVars,
                   wire, budget>>

\* Mutant: the report does not wait for the pumps.
ExecutorEndEarly ==
    /\ phase = "running"
    /\ phase' = "finished"
    /\ reading' = reading \ {job}
    /\ Emit("end")
    /\ UNCHANGED <<job, held, taken, outbox, session, ack, hubVars, wire, budget>>

\* The child has exited and the pumps have flushed: the supervisor reports it.
ExecutorEnd ==
    /\ phase = "running"
    /\ \A p \in Pump : held[<<job, p>>] = None
    /\ phase' = "finished"
    /\ reading' = reading \ {job}
    /\ Emit("end")
    /\ UNCHANGED <<job, held, taken, outbox, session, ack, hubVars, wire, budget>>

InSession == session # None /\ ack = None

\* A cancel reports the end at once.  It drops the supervisor, not the pumps:
\* these read on until the killed child's pipes are empty.
Cancel ==
    /\ Spend("cancel")
    /\ InSession /\ job > 0
    /\ phase' = "finished"
    /\ Emit("end")
    /\ UNCHANGED <<job, reading, held, taken, outbox, session, ack, hubVars, wire>>

\* The hub assigns a new job to a worker it has seen the end of the last one
\* from; the worker starts it with a fresh outbox.
Ended(j) == \E i \in applied : sent[i].job = j /\ sent[i].kind = "end"

AssignJob ==
    /\ InSession
    /\ phase = "finished"
    /\ job < Jobs
    /\ job > 0 => Ended(job)
    /\ job' = job + 1
    /\ phase' = "spawned"
    /\ outbox' = {}
    /\ UNCHANGED <<seq, reading, held, sent, taken, session, ack, hubVars, wire,
                   budget>>

-----------------------------------------------------------------------------
(***************************************************************************)
(* Sessions.                                                               *)
(***************************************************************************)

Dial(k) ==
    /\ session = None
    /\ k \notin attached
    /\ session' = k
    /\ attached' = attached \cup {k}
    /\ ack' = IF highWater = NoSeq THEN SeqOrigin ELSE highWater
    /\ UNCHANGED <<executorVars, taken, outbox, highWater, applied, wire, budget>>

\* What is sent on a socket whose other end is gone is lost.
Send(S) == wire' = IF session \in attached
                   THEN [wire EXCEPT ![session] = @ \cup S] ELSE wire

\* Mutant: the first event past the mark is trimmed with the rest.
TrimTooMuch(S, mark) ==
    IF mark > SeqOrigin THEN {i \in S : sent[i].seq > mark + 1} ELSE S

TrimToHighWater(S, mark) ==
    IF mark > SeqOrigin THEN {i \in S : sent[i].seq > mark} ELSE S

\* The handshake completes: everything produced meanwhile joins the outbox,
\* what the hub has applied leaves it, the rest is resent.
HelloAck ==
    /\ ack # None
    /\ LET kept == TrimToHighWater(outbox \cup (taken + 1)..Len(sent), ack)
       IN outbox' = kept /\ Send(kept)
    /\ taken' = Len(sent)
    /\ ack' = None
    /\ UNCHANGED <<executorVars, session, hubVars, budget>>

\* Mutant: an event is streamed without being kept.
ForwardUnkept ==
    /\ InSession
    /\ taken < Len(sent)
    /\ taken' = taken + 1
    /\ Send({taken + 1})
    /\ UNCHANGED <<executorVars, outbox, session, ack, hubVars, budget>>

Forward ==
    /\ InSession
    /\ taken < Len(sent)
    /\ taken' = taken + 1
    /\ outbox' = outbox \cup {taken + 1}
    /\ Send({taken + 1})
    /\ UNCHANGED <<executorVars, session, ack, hubVars, budget>>

\* The worker's end of the session goes, because the hub's has or by itself.
WorkerEnd ==
    /\ session # None
    /\ session' = None
    /\ ack' = None
    /\ UNCHANGED <<executorVars, taken, outbox, hubVars, wire>>

Hangup == session \notin attached /\ WorkerEnd /\ UNCHANGED budget
ConnectionLost == Spend("drop") /\ WorkerEnd

\* The hub's end goes; what it had not read is lost.
HubEnd(k) ==
    /\ k \in attached
    /\ attached' = attached \ {k}
    /\ wire' = [wire EXCEPT ![k] = {}]
    /\ UNCHANGED <<workerVars, highWater, applied>>

SessionEnd(k) == session # k /\ HubEnd(k) /\ UNCHANGED budget
SessionLost(k) == Spend("drop") /\ HubEnd(k)

-----------------------------------------------------------------------------
(***************************************************************************)
(* The hub.                                                                *)
(***************************************************************************)

IsNext(k, i) == i \in wire[k] /\ \A j \in wire[k] : i <= j

\* Mutant: replays are not recognised.
OnMessageAgain(k) ==
    /\ k \in attached
    /\ \E i \in wire[k] :
         /\ IsNext(k, i)
         /\ wire' = [wire EXCEPT ![k] = @ \ {i}]
         /\ highWater' = sent[i].seq
         /\ applied' = applied \cup {i}
    /\ UNCHANGED <<workerVars, attached, budget>>

OnMessage(k) ==
    /\ k \in attached
    /\ \E i \in wire[k] :
         /\ IsNext(k, i)
         /\ wire' = [wire EXCEPT ![k] = @ \ {i}]
         /\ IF sent[i].seq <= highWater
            THEN UNCHANGED <<highWater, applied>>
            ELSE /\ highWater' = sent[i].seq
                 /\ applied' = applied \cup {i}
    /\ UNCHANGED <<workerVars, attached, budget>>

Restart ==
    /\ Spend("restart")
    /\ attached' = {}
    /\ wire' = [k \in Socket |-> {}]
    /\ highWater' = NoSeq
    /\ UNCHANGED <<workerVars, applied>>

-----------------------------------------------------------------------------

Executor == \/ ExecutorStart \/ ExecutorEnd
            \/ \E t \in Task : TakeNumber(t) \/ SendLine(t)

WorkerLoop == AssignJob \/ Cancel \/ HelloAck \/ Forward \/ Hangup \/ ConnectionLost

Next == \/ Executor \/ WorkerLoop \/ Restart
        \/ \E k \in Socket : Dial(k) \/ SessionEnd(k) \/ SessionLost(k) \/ OnMessage(k)

Spec == Init /\ [][Next]_vars

\* A worker redials, its select loop serves the handshake and the executor's
\* channel, each end notices a closed socket, and a session task reads on.
Fairness ==
    /\ WF_vars(\E k \in Socket : Dial(k))
    /\ WF_vars(HelloAck) /\ WF_vars(Forward) /\ WF_vars(Hangup)
    /\ \A k \in Socket : WF_vars(OnMessage(k)) /\ WF_vars(SessionEnd(k))

FairSpec == Spec /\ Fairness

-----------------------------------------------------------------------------
(***************************************************************************)
(* Properties.                                                             *)
(***************************************************************************)

\* No behaviour has more events: every job starts and ends, every cancel ends
\* it again, and there are the lines.
MostEvents ==
    LET More(b) == b["line"] + b["cancel"]
    IN 2 * Jobs + CHOOSE n \in {More(b) : b \in Budget} : \A b \in Budget : More(b) <= n

\* The hub is past position i for good: it applied it, a higher number was
\* sent before it, or the end of its own job was.
Overtaken(i) == \E h \in 1..(i - 1) : sent[h].seq > sent[i].seq
Straggler(i) == \E h \in 1..(i - 1) : sent[h].kind = "end" /\ sent[h].job = sent[i].job
Settled(i) == i \in applied \/ Overtaken(i) \/ Straggler(i)

\* No drop, replay, trim, restart or fresh outbox loses an event that was not
\* settled: whatever the sessions took is applied or still kept for resending.
NothingLost == \A i \in 1..taken : i \in outbox \/ Settled(i)

\* No line follows the end of its job, except one that a pump which outlives
\* a cancel still reads: the supervisor waits for the pumps before it reports.
EndIsLast ==
    \A i, j \in 1..Len(sent) :
        (i < j /\ sent[i].kind = "end" /\ sent[i].job = sent[j].job)
            => sent[j].kind = "end" \/ sent[j].job \in reading

\* Every event is applied in the end, unless it may be dropped.
EveryEventSettles ==
    \A i \in 1..MostEvents : i \in DOMAIN sent ~> i \in DOMAIN sent /\ Settled(i)

\* What messages.rs says of the events it drops: they are replays of events
\* already applied.
DroppedWasApplied ==
    [][\A k \in attached' : wire[k] \ wire'[k] \subseteq applied']_vars

-----------------------------------------------------------------------------

Promise == INSTANCE Channel WITH mark <- highWater, delivered <- applied

\* Sessions, replays, trims and restarts are an in-order channel: the hub never
\* applies an event before one sent earlier that it could still apply, so that
\* the exit of a job finalises a run whose log is complete.
ImplementsChannel == Promise!Spec
=============================================================================
