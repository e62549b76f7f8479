------------------------------- MODULE Fabric -------------------------------
(***************************************************************************)
(* The compute fabric shared by the control plane and its workers: the     *)
(* websocket connections, the messages on them, and the vocabulary of      *)
(* runs.  A worker dials out; each dial is a connection with a worker end  *)
(* and a control-plane end (the session task), either of which may notice  *)
(* the loss of the other long after it happened.                           *)
(*                                                                         *)
(*   dialled  connections whose worker end is open (run_session running)   *)
(*   serving  connections whose session task is alive in the control plane *)
(*   up       streamed events on their way to the control plane            *)
(*   down     control messages on their way to the worker                  *)
(*   budget   how many more of each kind of fault or operator intervention *)
(*            the environment has in it; the bound of every run of TLC     *)
(***************************************************************************)
EXTENDS Integers, Sequences, FiniteSets, Functions

CONSTANTS Worker,        \* worker identities
          Persistent,    \* those enrolled with a persistent worker token
          Run,           \* runs, numbered in order of creation
          Sweep,         \* sweeps
          SweepOf,       \* the sweep a run is a child of, or None
          Concurrency,   \* per sweep, how many children may be active (0: any)
          Socket,        \* slots for one worker's connections; bounds overlap
          ExitKind,      \* how a job may end by itself
          Budget,        \* the budgets the environment may start from
          None

Intervention == {"drop", "lapse", "stuck", "stop", "resume", "restart",
                 "crash", "drain", "extend", "selfdrain", "linger"}

OwnExit == {"exited_ok", "exited_err", "killed_runtime"}

ASSUME WorkerAssumption == Persistent \subseteq Worker /\ None \notin Worker
ASSUME RunAssumption == Run \subseteq Nat /\ None \notin Run /\ IsFiniteSet(Run)
ASSUME SweepAssumption == /\ None \notin Sweep
                          /\ SweepOf \in [Run -> Sweep \cup {None}]
                          /\ Concurrency \in [Sweep -> Nat]
ASSUME SocketAssumption == None \notin Socket
ASSUME ExitAssumption == ExitKind \subseteq OwnExit
ASSUME BudgetAssumption == Budget \subseteq [Intervention -> Nat]

VARIABLES dialled, serving, up, down, budget

fabricVars == <<dialled, serving, up, down, budget>>

-----------------------------------------------------------------------------

Conn == Worker \X Socket
WorkerOf(c) == c[1]
SocketOf(c) == c[2]

\* The streamed events that move a run; logs, metrics and artifacts travel
\* the same way and are the subject of module Stream.
EventKind == {"started", "killed_cancel"} \cup OwnExit
Event == [seq : Nat, run : Run, kind : EventKind]

\* Seq::next stamps from 0, so an absent high-water mark lies below 0.
NoSeq == -1
SeqOrigin == 0

Ack == [type : {"ack"}, highWater : Nat]
Command == [type : {"assign", "cancel"}, run : Run]
Drain == [type : {"drain"}]
Control == Ack \cup Command \cup Drain

AckOf(hw) == [type |-> "ack", highWater |-> hw]
AssignOf(r) == [type |-> "assign", run |-> r]
CancelOf(r) == [type |-> "cancel", run |-> r]
DrainMsg == [type |-> "drain"]

\* Terminal states, and the state each worker report finalises a run in.
Terminal == {"completed", "failed", "cancelled"}
Active == {"assigned", "running"}
RunState == {"new", "queued"} \cup Active \cup Terminal

\* Mutant: the report is taken for the state.
FinalStateRaw(kind) == IF kind = "exited_ok" THEN "completed" ELSE kind

\* Mutant: every kill lands in cancelled.
FinalStateOfKill(kind) ==
    CASE kind = "exited_ok" -> "completed"
      [] kind = "exited_err" -> "failed"
      [] OTHER -> "cancelled"

FinalState(kind) ==
    CASE kind = "exited_ok" -> "completed"
      [] kind = "killed_cancel" -> "cancelled"
      [] OTHER -> "failed"

Spend(what) == /\ budget[what] > 0
               /\ budget' = [budget EXCEPT ![what] = @ - 1]

FabricInit ==
    /\ dialled = {}
    /\ serving = {}
    /\ up = [c \in Conn |-> <<>>]
    /\ down = [c \in Conn |-> <<>>]
    /\ budget \in Budget

FabricTypeOK ==
    /\ dialled \subseteq Conn
    /\ serving \subseteq Conn
    /\ up \in [Conn -> Seq(Event)]
    /\ down \in [Conn -> Seq(Control)]
    /\ budget \in [Intervention -> Nat]
=============================================================================
