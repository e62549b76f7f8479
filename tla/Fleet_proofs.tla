---------------------------- MODULE Fleet_proofs ----------------------------
(***************************************************************************)
(* What holds of every fleet: for any workers of either class, any runs    *)
(* and sweeps, any number of overlapping connections and any faults.       *)
(***************************************************************************)
EXTENDS Fleet, Sums_proofs, FiniteSetTheorems, SequenceTheorems, TLAPS

-----------------------------------------------------------------------------
(***************************************************************************)
(* The scheduler pass.  Every handler of the hub ends in one, so whatever  *)
(* it preserves is stated once.                                            *)
(***************************************************************************)

\* A scheduler pass leaves what it writes well typed.
LEMMA PumpType ==
  ASSUME NEW st \in [Run -> RunState], NEW wk \in [Run -> Worker \cup {None}],
         NEW cur \in [Worker -> Run \cup {None}], NEW gr \in SUBSET Run,
         NEW lk, NEW sil, NEW dn \in [Conn -> Seq(Control)],
         Pump(st, wk, cur, gr, lk, sil, dn)
  PROVE  /\ rstate' \in [Run -> RunState]
         /\ rworker' \in [Run -> Worker \cup {None}]
         /\ current' \in [Worker -> Run \cup {None}]
         /\ grants' \in SUBSET Run
         /\ down' \in [Conn -> Seq(Control)]
<1> DEFINE free == EligibleForAssignment(cur, lk, sil)
<1>1. PICK f \in Assignments(st, cur, lk, sil) :
        /\ rstate' = [r \in Run |-> IF r \in DOMAIN f THEN "assigned" ELSE st[r]]
        /\ rworker' = [r \in Run |-> IF r \in DOMAIN f THEN f[r] ELSE wk[r]]
        /\ current' = [w \in Worker |->
                         IF w \in Taken(f)
                         THEN CHOOSE r \in DOMAIN f : f[r] = w ELSE cur[w]]
        /\ grants' = gr \cup DOMAIN f
        /\ down' = [c \in Conn |->
                      IF WorkerOf(c) \in Taken(f) /\ lk[WorkerOf(c)] = SocketOf(c)
                      THEN Append(dn[c], AssignOf(CHOOSE r \in DOMAIN f :
                                                    f[r] = WorkerOf(c)))
                      ELSE dn[c]]
  BY DEF Pump
<1>2. /\ DOMAIN f \subseteq Run
      /\ \A r \in DOMAIN f : f[r] \in Worker
  BY DEF Assignments, Injection, Oldest, Assignable, EligibleForAssignment
<1>3. \A w \in Taken(f) : (CHOOSE r \in DOMAIN f : f[r] = w) \in Run
  BY <1>2 DEF Taken
<1>4. \A w \in Taken(f) : AssignOf(CHOOSE r \in DOMAIN f : f[r] = w) \in Control
  BY <1>3 DEF AssignOf, Control, Command
<1>5. down' \in [Conn -> Seq(Control)]
  <2> SUFFICES ASSUME NEW c \in Conn PROVE down'[c] \in Seq(Control)
    BY <1>1
  <2>1. dn[c] \in Seq(Control)
    OBVIOUS
  <2>2. CASE WorkerOf(c) \in Taken(f) /\ lk[WorkerOf(c)] = SocketOf(c)
    <3> DEFINE m == AssignOf(CHOOSE r \in DOMAIN f : f[r] = WorkerOf(c))
    <3>1. m \in Control
      BY <1>4, <2>2
    <3>2. down'[c] = Append(dn[c], m)
      BY <1>1, <2>2
    <3> HIDE DEF m
    <3> QED BY <2>1, <3>1, <3>2, AppendProperties
  <2>3. CASE ~(WorkerOf(c) \in Taken(f) /\ lk[WorkerOf(c)] = SocketOf(c))
    BY <1>1, <2>1, <2>3
  <2> QED BY <2>2, <2>3
<1>6. rstate' \in [Run -> RunState]
  BY <1>1 DEF RunState, Active
<1>7. rworker' \in [Run -> Worker \cup {None}]
  BY <1>1, <1>2
<1>8. current' \in [Worker -> Run \cup {None}]
  BY <1>1, <1>3
<1>9. grants' \in SUBSET Run
  BY <1>1, <1>2
<1> QED BY <1>5, <1>6, <1>7, <1>8, <1>9

\* A scheduler pass gives grants and workers only to the runs it assigns.
LEMMA PumpPreserves ==
  ASSUME NEW st \in [Run -> RunState], NEW wk \in [Run -> Worker \cup {None}],
         NEW cur \in [Worker -> Run \cup {None}], NEW gr \in SUBSET Run,
         NEW lk, NEW sil, NEW dn,
         Pump(st, wk, cur, gr, lk, sil, dn)
  PROVE  /\ (\A r \in gr : st[r] \in Active)
              => \A r \in grants' : rstate'[r] \in Active
         /\ (\A r \in Run : st[r] \in Active => wk[r] # None)
              => \A r \in Run : rstate'[r] \in Active => rworker'[r] # None
<1>1. PICK f \in Assignments(st, cur, lk, sil) :
        /\ rstate' = [r \in Run |-> IF r \in DOMAIN f THEN "assigned" ELSE st[r]]
        /\ rworker' = [r \in Run |-> IF r \in DOMAIN f THEN f[r] ELSE wk[r]]
        /\ grants' = gr \cup DOMAIN f
  BY DEF Pump
<1>2. /\ DOMAIN f \subseteq Run
      /\ \A r \in DOMAIN f : f[r] \in Worker
  BY DEF Assignments, Injection, Oldest, Assignable, EligibleForAssignment
<1>3. \A r \in DOMAIN f : f[r] # None
  BY <1>2, WorkerAssumption
<1>4. (\A r \in gr : st[r] \in Active) => \A r \in grants' : rstate'[r] \in Active
  BY <1>1, <1>2 DEF Active
<1>5. (\A r \in Run : st[r] \in Active => wk[r] # None)
         => \A r \in Run : rstate'[r] \in Active => rworker'[r] # None
  BY <1>1, <1>3
<1> QED BY <1>4, <1>5

\* And it lets only linked workers claim one of them.
LEMMA PumpClaims ==
  ASSUME NEW st, NEW wk, NEW cur, NEW gr, NEW lk, NEW sil, NEW dn,
         Pump(st, wk, cur, gr, lk, sil, dn)
  PROVE  \A w \in Worker : current'[w] # None => cur[w] # None \/ lk[w] # None
<1>1. PICK f \in Assignments(st, cur, lk, sil) :
        current' = [w \in Worker |->
                      IF w \in Taken(f)
                      THEN CHOOSE r \in DOMAIN f : f[r] = w ELSE cur[w]]
  BY DEF Pump
<1>2. \A w \in Taken(f) : lk[w] # None
  BY DEF Taken, Assignments, Injection, EligibleForAssignment
<1> QED BY <1>1, <1>2

-----------------------------------------------------------------------------
(***************************************************************************)
(* Types.                                                                  *)
(***************************************************************************)

LEMMA ConnType ==
  ASSUME NEW c \in Conn
  PROVE  /\ WorkerOf(c) \in Worker
         /\ SocketOf(c) \in Socket
         /\ c = <<WorkerOf(c), SocketOf(c)>>
BY DEF Conn, WorkerOf, SocketOf

LEMMA RequeueType ==
  ASSUME NEW st \in [Run -> RunState], NEW S
  PROVE  Requeue(st, S) \in [Run -> RunState]
BY DEF Requeue, RunState

LEMMA SpendType ==
  ASSUME NEW what \in Intervention, budget \in [Intervention -> Nat], Spend(what)
  PROVE  budget' \in [Intervention -> Nat]
BY DEF Spend

\* Posting a message on a live link, or on none, keeps the wire well typed.
LEMMA PostType ==
  ASSUME NEW dn \in [Conn -> Seq(Control)], NEW w \in Worker, NEW m \in Control,
         link \in [Worker -> Socket \cup {None}]
  PROVE  Post(dn, w, m) \in [Conn -> Seq(Control)]
<1>1. CASE link[w] = None
  BY <1>1 DEF Post
<1>2. CASE link[w] # None
  <2>1. <<w, link[w]>> \in Conn
    BY <1>2 DEF Conn
  <2>2. Append(dn[<<w, link[w]>>], m) \in Seq(Control)
    BY <2>1, AppendProperties
  <2> QED BY <1>2, <2>1, <2>2 DEF Post
<1> QED BY <1>1, <1>2

LEMMA InitType == Init => TypeOK
<1> SUFFICES ASSUME Init PROVE TypeOK
  OBVIOUS
<1> USE DEF Init
<1>1. FabricTypeOK
  BY EmptySeq, BudgetAssumption DEF FabricInit, FabricTypeOK
<1>2. HubTypeOK
  BY DEF HubInit, HubTypeOK, RunState, NoSeq
<1>3. WorkerTypeOK
  BY EmptySeq DEF WorkerInit, WorkerTypeOK, SeqOrigin
<1> QED BY <1>1, <1>2, <1>3 DEF TypeOK

\* Requests of the operator and of the gates.
LEMMA RequestType ==
  ASSUME TypeOK, Request, UNCHANGED workerVars
  PROVE  TypeOK'
<1> USE DEF TypeOK, HubTypeOK, FabricTypeOK
<1>1. WorkerTypeOK'
  BY DEF WorkerTypeOK, workerVars
<1>2. ASSUME NEW S \in SUBSET Run, Create(S)
      PROVE  FabricTypeOK' /\ HubTypeOK'
  <2>1. Pump(Requeue(rstate, S), rworker, current, grants, link, silent, down)
    BY <1>2 DEF Create
  <2> QED BY <1>2, <2>1, RequeueType, PumpType DEF Create
<1>3. ASSUME NEW r \in Run, Submit(r)
      PROVE  FabricTypeOK' /\ HubTypeOK'
  BY <1>2, <1>3 DEF Submit
<1>4. ASSUME NEW s \in Sweep, SubmitSweep(s)
      PROVE  FabricTypeOK' /\ HubTypeOK'
  BY <1>2, <1>4 DEF SubmitSweep
<1>5. ASSUME NEW r \in Run, StopRun(r)
      PROVE  FabricTypeOK' /\ HubTypeOK'
  <2>1. budget' \in [Intervention -> Nat]
    BY <1>5, SpendType DEF StopRun, Intervention
  <2>2. CASE SignalCancel(r)
    <3>1. CancelOf(r) \in Control
      BY DEF CancelOf, Control, Command
    <3>2. down' \in [Conn -> Seq(Control)]
      BY <2>2, <3>1, PostType DEF SignalCancel
    <3> QED BY <2>1, <2>2, <3>2 DEF SignalCancel, storeVars, memoryVars
  <2>3. CASE CancelNow(r)
    <3> DEFINE cur == [w \in Worker |-> IF w = rworker[r] THEN None ELSE current[w]]
               st == [rstate EXCEPT ![r] = "cancelled"]
    <3>1. /\ cur \in [Worker -> Run \cup {None}]
          /\ st \in [Run -> RunState]
      BY DEF RunState, Terminal
    <3>2. Pump(st, rworker, cur, grants \ {r}, link, silent, down)
      BY <2>3 DEF CancelNow
    <3> HIDE DEF cur, st
    <3> QED BY <2>1, <2>3, <3>1, <3>2, PumpType DEF CancelNow
  <2> QED BY <1>5, <2>2, <2>3 DEF StopRun
<1>6. ASSUME NEW r \in Run, ResumeRun(r)
      PROVE  FabricTypeOK' /\ HubTypeOK'
  <2>1. budget' \in [Intervention -> Nat]
    BY <1>6, SpendType DEF ResumeRun, Intervention
  <2>2. Pump(Requeue(rstate, {r}), rworker, current, grants, link, silent, down)
    BY <1>6 DEF ResumeRun
  <2> QED BY <1>6, <2>1, <2>2, RequeueType, PumpType DEF ResumeRun
<1>7. asked' \subseteq Run
  BY DEF Request
<1> QED BY <1>1, <1>3, <1>4, <1>5, <1>6, <1>7 DEF Request

\* The control plane's handlers.
LEMMA DetachType ==
  ASSUME HubTypeOK, NEW w \in Worker, NEW dn \in [Conn -> Seq(Control)], Detach(w, dn)
  PROVE  HubTypeOK' /\ down' \in [Conn -> Seq(Control)]
<1> USE DEF HubTypeOK
<1> DEFINE lost == IF w \in Persistent THEN {} ELSE {current[w]} \ {None}
           cur == IF w \in Persistent THEN current
                  ELSE [current EXCEPT ![w] = None]
           lk == [link EXCEPT ![w] = None]
<1>1. Pump(Requeue(rstate, lost), rworker, cur, grants \ lost, lk, silent, dn)
  BY DEF Detach
<1>2. cur \in [Worker -> Run \cup {None}]
  OBVIOUS
<1>3. /\ link' \in [Worker -> Socket \cup {None}]
      /\ connected' \subseteq Worker
      /\ UNCHANGED <<silent, draining, highWater>>
  BY DEF Detach
<1> HIDE DEF lost, cur, lk
<1> QED BY <1>1, <1>2, <1>3, RequeueType, PumpType

LEMMA OnMessageType ==
  ASSUME TypeOK, NEW c \in Conn, OnMessage(c)
  PROVE  FabricTypeOK' /\ HubTypeOK'
<1> USE DEF TypeOK, HubTypeOK, FabricTypeOK
<1> DEFINE w == WorkerOf(c)
           e == Head(up[c])
<1>1. w \in Worker
  BY ConnType
<1>2. /\ e \in Event
      /\ up' \in [Conn -> Seq(Event)]
  BY HeadTailProperties DEF OnMessage
<1>3. e.seq \in Nat /\ e.run \in Run
  BY <1>2 DEF Event
<1>4. /\ silent' \subseteq Worker
      /\ UNCHANGED <<connected, draining, link, dialled, serving, budget>>
  BY DEF OnMessage
<1>5. highWater' \in [Worker -> Nat \cup {NoSeq}]
  BY <1>1, <1>3 DEF OnMessage
<1>6. CASE UNCHANGED <<rstate, rworker, current, grants, down>>
  BY <1>2, <1>4, <1>5, <1>6
<1>7. CASE JobStarted(w, e.run)
  <2>1. /\ rstate' \in [Run -> RunState]
        /\ rworker' \in [Run -> Worker \cup {None}]
        /\ UNCHANGED <<current, grants, down>>
    BY <1>1, <1>3, <1>7 DEF JobStarted, RunState, Active
  <2> QED BY <1>2, <1>4, <1>5, <2>1
<1>8. CASE FinishRun(w, e.run, FinalState(e.kind), silent \ {w})
  <2> DEFINE st == [rstate EXCEPT ![e.run] = FinalState(e.kind)]
             wk == [rworker EXCEPT ![e.run] = w]
             cur == [current EXCEPT ![w] = None]
  <2>1. FinalState(e.kind) \in RunState
    BY DEF FinalState, RunState, Terminal
  <2>2. /\ st \in [Run -> RunState]
        /\ wk \in [Run -> Worker \cup {None}]
        /\ cur \in [Worker -> Run \cup {None}]
    BY <1>1, <1>3, <2>1
  <2>3. Pump(st, wk, cur, grants \ {e.run}, link, silent \ {w}, down)
    BY <1>8 DEF FinishRun
  <2> HIDE DEF st, wk, cur
  <2> QED BY <1>2, <1>4, <1>5, <2>2, <2>3, PumpType
<1> QED BY <1>6, <1>7, <1>8 DEF OnMessage

LEMMA HubStepType ==
  ASSUME TypeOK, HubStep, UNCHANGED <<workerVars, asked>>
  PROVE  TypeOK'
<1> USE DEF TypeOK, HubTypeOK, FabricTypeOK
<1>1. WorkerTypeOK' /\ asked' \subseteq Run
  BY DEF WorkerTypeOK, workerVars
<1>2. ASSUME NEW c \in Conn, Attach(c)
      PROVE  FabricTypeOK' /\ HubTypeOK'
  <2> DEFINE hw == IF highWater[WorkerOf(c)] = NoSeq THEN SeqOrigin
                   ELSE highWater[WorkerOf(c)]
             lk == [link EXCEPT ![WorkerOf(c)] = SocketOf(c)]
             dn == [down EXCEPT ![c] = <<AckOf(hw)>>]
  <2>1. hw \in Nat
    BY ConnType DEF NoSeq, SeqOrigin
  <2>2. <<AckOf(hw)>> \in Seq(Control)
    <3>1. AckOf(hw) \in Control
      BY <2>1 DEF AckOf, Control, Ack
    <3> HIDE DEF hw
    <3> QED BY <3>1
  <2>3. dn \in [Conn -> Seq(Control)]
    BY <2>2
  <2>4. Pump(rstate, rworker, current, grants, lk, silent \ {WorkerOf(c)}, dn)
    BY <1>2 DEF Attach
  <2>5. /\ dialled' \subseteq Conn /\ serving' \subseteq Conn
        /\ connected' \subseteq Worker /\ silent' \subseteq Worker
        /\ link' \in [Worker -> Socket \cup {None}]
        /\ UNCHANGED <<draining, highWater, up, budget>>
    BY <1>2, ConnType DEF Attach
  <2> HIDE DEF dn, lk
  <2> QED BY <2>3, <2>4, <2>5, PumpType
<1>3. ASSUME NEW c \in Conn, Unserve(c), budget' \in [Intervention -> Nat]
      PROVE  FabricTypeOK' /\ HubTypeOK'
  <2> DEFINE dn == IF c \in dialled THEN down ELSE [down EXCEPT ![c] = <<>>]
  <2>1. dn \in [Conn -> Seq(Control)]
    BY EmptySeq
  <2>2. Detach(WorkerOf(c), dn)
    BY <1>3 DEF Unserve
  <2>3. HubTypeOK' /\ down' \in [Conn -> Seq(Control)]
    <3> HIDE DEF dn
    <3> QED BY <2>1, <2>2, ConnType, DetachType
  <2>4. /\ serving' \subseteq Conn /\ dialled' \subseteq Conn
        /\ up' \in [Conn -> Seq(Event)]
    BY <1>3, EmptySeq DEF Unserve
  <2> QED BY <1>3, <2>3, <2>4
<1>4. ASSUME NEW c \in Conn, SessionEnd(c)
      PROVE  FabricTypeOK' /\ HubTypeOK'
  BY <1>3, <1>4 DEF SessionEnd
<1>5. ASSUME NEW c \in Conn, SessionLost(c)
      PROVE  FabricTypeOK' /\ HubTypeOK'
  BY <1>3, <1>5, SpendType DEF SessionLost, Intervention
<1>6. ASSUME NEW c \in Conn, Heartbeat(c)
      PROVE  FabricTypeOK' /\ HubTypeOK'
  BY <1>6 DEF Heartbeat, memoryVars, fabricVars
<1>7. ASSUME NEW w \in Worker, Lapse(w)
      PROVE  FabricTypeOK' /\ HubTypeOK'
  BY <1>7, SpendType DEF Lapse, memoryVars, Intervention
<1>8. ASSUME NEW w \in Worker, ReapStale(w)
      PROVE  FabricTypeOK' /\ HubTypeOK'
  BY <1>8, DetachType DEF ReapStale
<1>9. ASSUME NEW w \in Worker, DrainLease(w)
      PROVE  FabricTypeOK' /\ HubTypeOK'
  <2>1. DrainMsg \in Control
    BY DEF DrainMsg, Control, Drain
  <2> QED BY <1>9, <2>1, SpendType, PostType
          DEF DrainLease, memoryVars, Intervention
<1>10. ASSUME NEW w \in Worker, ExtendLease(w)
       PROVE  FabricTypeOK' /\ HubTypeOK'
  BY <1>10, SpendType DEF ExtendLease, memoryVars, Intervention
<1>11. ASSUME NEW S \in SUBSET Run, StuckAssignments(S)
       PROVE  FabricTypeOK' /\ HubTypeOK'
  <2> DEFINE held == {rworker[r] : r \in S}
             cur == [w \in Worker |-> IF w \in held THEN None ELSE current[w]]
  <2>1. cur \in [Worker -> Run \cup {None}]
    OBVIOUS
  <2>2. Pump(Requeue(rstate, S), rworker, cur, grants \ S, link, silent, down)
    BY <1>11 DEF StuckAssignments, ReapStuck
  <2>3. budget' \in [Intervention -> Nat]
    BY <1>11, SpendType DEF StuckAssignments, Intervention
  <2>4. UNCHANGED <<connected, silent, draining, link, highWater, dialled, serving, up>>
    BY <1>11 DEF StuckAssignments, ReapStuck
  <2> HIDE DEF cur
  <2> QED BY <2>1, <2>2, <2>3, <2>4, RequeueType, PumpType
<1>12. ASSUME Restart
       PROVE  FabricTypeOK' /\ HubTypeOK'
  BY <1>12, SpendType, EmptySeq DEF Restart, storeVars, Intervention, NoSeq
<1>13. ASSUME NEW c \in Conn, OnMessage(c)
       PROVE  FabricTypeOK' /\ HubTypeOK'
  BY <1>13, OnMessageType
<1> QED BY <1>1, <1>2, <1>4, <1>5, <1>6, <1>7, <1>8, <1>9, <1>10, <1>11, <1>12, <1>13
        DEF HubStep

\* Trimming adds nothing.
LEMMA TrimType ==
  ASSUME NEW S, NEW events \in Seq(S), NEW hw \in Nat
  PROVE  TrimToHighWater(events, hw) \in Seq(S)
<1>1. /\ DOMAIN events = 1 .. Len(events)
      /\ Len(events) \in Nat
      /\ \A i \in 1 .. Len(events) : events[i] \in S
  BY LenProperties
<1>2. Cardinality(Applied(events, hw)) \in Nat
  <2>1. IsFiniteSet(1 .. Len(events))
    BY <1>1, FS_Interval
  <2>2. Applied(events, hw) \in SUBSET (1 .. Len(events))
    BY <1>1 DEF Applied
  <2>3. IsFiniteSet(Applied(events, hw))
    BY <2>1, <2>2, FS_Subset
  <2> QED BY <2>3, FS_CardinalityType
<1>3. SubSeq(events, Cardinality(Applied(events, hw)) + 1, Len(events)) \in Seq(S)
  <2> DEFINE n == Cardinality(Applied(events, hw)) + 1
  <2>1. n \in Int /\ Len(events) \in Int
    BY <1>1, <1>2
  <2>2. \A i \in n .. Len(events) : events[i] \in S
    BY <1>1, <1>2
  <2> HIDE DEF n
  <2>3. SubSeq(events, n, Len(events)) \in Seq(S)
    BY <2>1, <2>2, SubSeqProperties, Zenon
  <2> QED BY <2>3 DEF n
<1> QED BY <1>3 DEF TrimToHighWater

\* What a worker stamps and sends.
LEMMA EmitType ==
  ASSUME WorkerTypeOK, NEW w \in Worker, NEW r \in Run, NEW kind \in EventKind,
         Emit(w, r, kind)
  PROVE  /\ seq' \in [Worker -> Nat]
         /\ jobrx' \in [Worker -> Seq(Event)]
<1>1. Stamp(w, r, kind) \in Event
  BY DEF WorkerTypeOK, Stamp, Event
<1>2. Append(jobrx[w], Stamp(w, r, kind)) \in Seq(Event)
  BY <1>1, AppendProperties DEF WorkerTypeOK
<1> QED BY <1>2 DEF WorkerTypeOK, Emit

LEMMA SendType ==
  ASSUME NEW c \in Conn, NEW events \in Seq(Event), up \in [Conn -> Seq(Event)],
         Send(c, events)
  PROVE  up' \in [Conn -> Seq(Event)]
<1>1. up[c] \o events \in Seq(Event)
  BY ConcatProperties
<1> QED BY <1>1 DEF Send

LEMMA ArrivesType ==
  ASSUME NEW c \in Conn, NEW type, down \in [Conn -> Seq(Control)], Arrives(c, type)
  PROVE  /\ down' \in [Conn -> Seq(Control)]
         /\ Head(down[c]) \in Control
         /\ Head(down[c]).type = type
<1>1. Head(down[c]) \in Control /\ Tail(down[c]) \in Seq(Control)
  BY HeadTailProperties DEF Arrives
<1> QED BY <1>1 DEF Arrives

\* Moving a worker's job to another phase keeps every slot a job or empty.
LEMMA PhaseType ==
  ASSUME slot \in [Worker -> Job \cup {None}],
         NEW w \in Worker, slot[w] \in Job,
         NEW phase \in {"spawned", "running", "reported", "finished"}
  PROVE  [slot EXCEPT ![w].phase = phase] \in [Worker -> Job \cup {None}]
<1>1. [slot[w] EXCEPT !.phase = phase] \in Job
  BY DEF Job
<1> DEFINE job == [slot[w] EXCEPT !.phase = phase]
<1>2. [slot EXCEPT ![w].phase = phase] = [slot EXCEPT ![w] = job]
  OBVIOUS
<1>3. job \in Job \cup {None}
  BY <1>1
<1> HIDE DEF job
<1>4. [slot EXCEPT ![w] = job] \in [Worker -> Job \cup {None}]
  BY <1>3
<1> QED BY <1>2, <1>4

\* The worker's handlers.
LEMMA WorkerStepType ==
  ASSUME TypeOK, WorkerStep, UNCHANGED <<hubVars, asked>>
  PROVE  TypeOK'
<1> USE DEF TypeOK, FabricTypeOK, WorkerTypeOK
<1>1. HubTypeOK' /\ asked' \subseteq Run
  BY DEF HubTypeOK, hubVars, storeVars, memoryVars
<1>2. ASSUME NEW c \in Conn, HelloAck(c)
      PROVE  FabricTypeOK' /\ WorkerTypeOK'
  <2> DEFINE w == WorkerOf(c)
             kept == TrimToHighWater(outbox[w] \o jobrx[w], Head(down[c]).highWater)
  <2>1. w \in Worker
    BY ConnType
  <2>2. Head(down[c]).highWater \in Nat /\ down' \in [Conn -> Seq(Control)]
    <3>1. /\ Head(down[c]) \in Control
          /\ Head(down[c]).type = "ack"
          /\ down' \in [Conn -> Seq(Control)]
      BY <1>2, ArrivesType DEF HelloAck
    <3> QED BY <3>1 DEF Control, Ack, Command, Drain
  <2>3. kept \in Seq(Event)
    BY <2>1, <2>2, ConcatProperties, TrimType
  <2>4. up' \in [Conn -> Seq(Event)]
    <3>1. Send(c, kept)
      BY <1>2 DEF HelloAck
    <3> HIDE DEF kept
    <3> QED BY <2>3, <3>1, SendType
  <2>5. outbox' = [outbox EXCEPT ![w] = kept]
    BY <1>2 DEF HelloAck
  <2>6. /\ jobrx' \in [Worker -> Seq(Event)]
        /\ refuses' \subseteq Worker
        /\ UNCHANGED <<seq, slot, dialled, serving, budget>>
    BY <1>2, EmptySeq DEF HelloAck
  <2> HIDE DEF kept
  <2> QED BY <2>2, <2>3, <2>4, <2>5, <2>6
<1>3. ASSUME NEW c \in Conn, Forward(c)
      PROVE  FabricTypeOK' /\ WorkerTypeOK'
  <2> DEFINE w == WorkerOf(c)
  <2>1. w \in Worker /\ jobrx[w] # <<>>
    BY <1>3, ConnType DEF Forward
  <2>2. Head(jobrx[w]) \in Event /\ Tail(jobrx[w]) \in Seq(Event)
    BY <2>1, HeadTailProperties
  <2>3. Append(outbox[w], Head(jobrx[w])) \in Seq(Event)
    BY <2>1, <2>2, AppendProperties
  <2>4. up' \in [Conn -> Seq(Event)]
    <3>1. Send(c, <<Head(jobrx[w])>>)
      BY <1>3 DEF Forward
    <3>2. <<Head(jobrx[w])>> \in Seq(Event)
      BY <2>2
    <3> QED BY <3>1, <3>2, SendType
  <2> QED BY <1>3, <2>2, <2>3, <2>4 DEF Forward
<1>4. ASSUME NEW c \in Conn, AssignJob(c)
      PROVE  FabricTypeOK' /\ WorkerTypeOK'
  <2>1. Head(down[c]).run \in Run /\ down' \in [Conn -> Seq(Control)]
    <3>1. /\ Head(down[c]) \in Control
          /\ Head(down[c]).type = "assign"
          /\ down' \in [Conn -> Seq(Control)]
      BY <1>4, ArrivesType DEF AssignJob
    <3> QED BY <3>1 DEF Control, Ack, Command, Drain
  <2>2. Spawned(Head(down[c]).run) \in Job
    BY <2>1 DEF Spawned, Job
  <2>3. /\ slot' \in [Worker -> Job \cup {None}]
        /\ outbox' \in [Worker -> Seq(Event)]
    <3>1. CASE UNCHANGED <<slot, outbox>>
      BY <3>1
    <3>2. CASE /\ slot' = [slot EXCEPT ![WorkerOf(c)] = Spawned(Head(down[c]).run)]
               /\ outbox' = [outbox EXCEPT ![WorkerOf(c)] = <<>>]
      BY <2>2, <3>2, EmptySeq
    <3> QED BY <1>4, <3>1, <3>2 DEF AssignJob
  <2> QED BY <1>4, <2>1, <2>3 DEF AssignJob
<1>5. ASSUME NEW c \in Conn, Cancel(c)
      PROVE  FabricTypeOK' /\ WorkerTypeOK'
  <2> DEFINE w == WorkerOf(c)
             killed == IF slot[w] = None THEN Head(down[c]).run ELSE slot[w].run
  <2>1. w \in Worker
    BY ConnType
  <2>2. Head(down[c]).run \in Run /\ down' \in [Conn -> Seq(Control)]
    <3>1. /\ Head(down[c]) \in Control
          /\ Head(down[c]).type = "cancel"
          /\ down' \in [Conn -> Seq(Control)]
      BY <1>5, ArrivesType DEF Cancel
    <3> QED BY <3>1 DEF Control, Ack, Command, Drain
  <2>3. killed \in Run
    BY <2>1, <2>2 DEF Job
  <2>4. Emit(w, killed, "killed_cancel")
    BY <1>5 DEF Cancel
  <2>5. "killed_cancel" \in EventKind
    BY DEF EventKind
  <2>6. seq' \in [Worker -> Nat] /\ jobrx' \in [Worker -> Seq(Event)]
    <3> HIDE DEF killed
    <3> QED BY <2>1, <2>3, <2>4, <2>5, EmitType
  <2> QED BY <1>5, <2>2, <2>6 DEF Cancel
<1>6. ASSUME NEW c \in Conn, DrainRequest(c)
      PROVE  FabricTypeOK' /\ WorkerTypeOK'
  BY <1>6, ArrivesType, ConnType DEF DrainRequest
<1>7. ASSUME NEW c \in Conn, SelfDrain(c)
      PROVE  FabricTypeOK' /\ WorkerTypeOK'
  BY <1>7, ConnType DEF SelfDrain, fabricVars
<1>8. ASSUME NEW c \in Conn, EndSession(c), budget' \in [Intervention -> Nat]
      PROVE  FabricTypeOK' /\ WorkerTypeOK'
  BY <1>8, EmptySeq DEF EndSession
<1>9. ASSUME NEW c \in Conn, Hangup(c) \/ ConnectionLost(c)
      PROVE  FabricTypeOK' /\ WorkerTypeOK'
  BY <1>8, <1>9, SpendType DEF Hangup, ConnectionLost, Intervention
<1>10. ASSUME NEW w \in Worker, Crash(w)
       PROVE  FabricTypeOK' /\ WorkerTypeOK'
  BY <1>10, SpendType, EmptySeq DEF Crash, Intervention, SeqOrigin
<1>11. ASSUME NEW w \in Worker, ExecutorStart(w)
       PROVE  FabricTypeOK' /\ WorkerTypeOK'
  <2>1. slot[w] \in Job
    BY <1>11 DEF ExecutorStart
  <2>2. slot' \in [Worker -> Job \cup {None}]
    BY <1>11, <2>1, PhaseType DEF ExecutorStart
  <2>3. seq' \in [Worker -> Nat] /\ jobrx' \in [Worker -> Seq(Event)]
    BY <1>11, <2>1, EmitType DEF ExecutorStart, Job, EventKind
  <2> QED BY <1>11, <2>2, <2>3 DEF ExecutorStart, fabricVars
<1>12. ASSUME NEW w \in Worker, ExecutorEnd(w)
       PROVE  FabricTypeOK' /\ WorkerTypeOK'
  <2>1. slot[w] \in Job
    BY <1>12 DEF ExecutorEnd
  <2>2. slot' \in [Worker -> Job \cup {None}]
    <3>1. PICK phase \in {"finished", "reported"} :
                slot' = [slot EXCEPT ![w].phase = phase]
      BY <1>12 DEF ExecutorEnd
    <3>2. slot \in [Worker -> Job \cup {None}]
      OBVIOUS
    <3>3. [slot EXCEPT ![w].phase = phase] \in [Worker -> Job \cup {None}]
      BY <2>1, <3>2, PhaseType
    <3> QED BY <3>1, <3>3
  <2>3. budget' \in [Intervention -> Nat]
    BY <1>12, SpendType DEF ExecutorEnd, Intervention
  <2>4. seq' \in [Worker -> Nat] /\ jobrx' \in [Worker -> Seq(Event)]
    BY <1>12, <2>1, ExitAssumption, EmitType DEF ExecutorEnd, Job, EventKind
  <2> QED BY <1>12, <2>2, <2>3, <2>4 DEF ExecutorEnd
<1>13. ASSUME NEW w \in Worker, ExecutorFinish(w)
       PROVE  FabricTypeOK' /\ WorkerTypeOK'
  <2>1. slot[w] \in Job
    BY <1>13 DEF ExecutorFinish
  <2>2. slot' \in [Worker -> Job \cup {None}]
    BY <1>13, <2>1, PhaseType DEF ExecutorFinish
  <2> QED BY <1>13, <2>2 DEF ExecutorFinish, fabricVars
<1> QED BY <1>1, <1>2, <1>3, <1>4, <1>5, <1>6, <1>7, <1>9, <1>10, <1>11, <1>12, <1>13
        DEF WorkerStep

LEMMA NextType == TypeOK /\ [Next]_vars => TypeOK'
<1> SUFFICES ASSUME TypeOK, [Next]_vars PROVE TypeOK'
  OBVIOUS
<1>1. CASE Request /\ UNCHANGED workerVars
  BY <1>1, RequestType
<1>2. CASE HubStep /\ UNCHANGED <<workerVars, asked>>
  BY <1>2, HubStepType
<1>3. CASE WorkerStep /\ UNCHANGED <<hubVars, asked>>
  BY <1>3, WorkerStepType
<1>4. CASE UNCHANGED vars
  BY <1>4 DEF TypeOK, FabricTypeOK, HubTypeOK, WorkerTypeOK, vars,
              fabricVars, hubVars, storeVars, memoryVars, workerVars
<1> QED BY <1>1, <1>2, <1>3, <1>4 DEF Next

\* Every variable of the fleet keeps its type: in particular no worker can
\* make the hub index a run, a worker or a connection that does not exist.
THEOREM FleetTypeOK == Spec => []TypeOK
<1>1. Init => TypeOK
  BY InitType
<1>2. TypeOK /\ [Next]_vars => TypeOK'
  BY NextType
<1> QED BY <1>1, <1>2, PTL DEF Spec

-----------------------------------------------------------------------------
(***************************************************************************)
(* Grants, ownership and claims.  The three invariants are inductive once  *)
(* every linked worker is known to be connected: only a linked worker is   *)
(* given a run, so only a connected one comes to claim one.                *)
(***************************************************************************)

LinkedIsConnected == \A w \in Worker : link[w] # None => w \in connected

Ownership == /\ GrantsFollowRuns
             /\ ActiveHasWorker
             /\ ClaimIsReapable
             /\ LinkedIsConnected

LEMMA InitOwnership == Init => Ownership
BY DEF Init, HubInit, Ownership, GrantsFollowRuns, ActiveHasWorker,
       ClaimIsReapable, LinkedIsConnected, Active

\* A handler that hands the scheduler grants of active runs, owned active
\* runs, claims of connected workers and links to connected workers leaves
\* all four invariants behind.
LEMMA PumpOwnership ==
  ASSUME NEW st \in [Run -> RunState], NEW wk \in [Run -> Worker \cup {None}],
         NEW cur \in [Worker -> Run \cup {None}], NEW gr \in SUBSET Run,
         NEW lk, NEW sil, NEW dn,
         Pump(st, wk, cur, gr, lk, sil, dn),
         \A r \in gr : st[r] \in Active,
         \A r \in Run : st[r] \in Active => wk[r] # None,
         \A w \in Worker \ Persistent : cur[w] # None => w \in connected',
         \A w \in Worker : lk[w] # None => w \in connected',
         link' = lk
  PROVE  Ownership'
<1>1. GrantsFollowRuns'
  BY PumpPreserves DEF GrantsFollowRuns
<1>2. ActiveHasWorker'
  BY PumpPreserves DEF ActiveHasWorker
<1>3. ClaimIsReapable'
  <2>1. \A w \in Worker : current'[w] # None => cur[w] # None \/ lk[w] # None
    BY PumpClaims
  <2> QED BY <2>1 DEF ClaimIsReapable
<1>4. LinkedIsConnected'
  BY DEF LinkedIsConnected
<1> QED BY <1>1, <1>2, <1>3, <1>4 DEF Ownership

\* Putting runs back in the queue, whichever they are, makes none active.
LEMMA RequeueActive ==
  ASSUME NEW st \in [Run -> RunState], NEW S
  PROVE  \A r \in Run : /\ Requeue(st, S)[r] \in Active => st[r] \in Active
                        /\ r \notin S => Requeue(st, S)[r] = st[r]
BY DEF Requeue, Active

LEMMA CreateOwnership ==
  ASSUME TypeOK, Ownership, NEW S \in SUBSET Run, Create(S)
  PROVE  Ownership'
<1> USE DEF TypeOK, HubTypeOK
<1>1. Pump(Requeue(rstate, S), rworker, current, grants, link, silent, down)
  BY DEF Create
<1>2. \A r \in grants : Requeue(rstate, S)[r] \in Active
  BY RequeueActive DEF Create, Ownership, GrantsFollowRuns, Active
<1>3. \A r \in Run : Requeue(rstate, S)[r] \in Active => rworker[r] # None
  BY RequeueActive DEF Ownership, ActiveHasWorker
<1>4. connected' = connected /\ link' = link
  BY DEF Create
<1> QED BY <1>1, <1>2, <1>3, <1>4, RequeueType, PumpOwnership
        DEF Ownership, ClaimIsReapable, LinkedIsConnected

LEMMA RequestOwnership ==
  ASSUME TypeOK, Ownership, Request
  PROVE  Ownership'
<1> USE DEF TypeOK, HubTypeOK
<1>1. ASSUME NEW r \in Run, Submit(r) PROVE Ownership'
  BY <1>1, CreateOwnership DEF Submit
<1>2. ASSUME NEW s \in Sweep, SubmitSweep(s) PROVE Ownership'
  BY <1>2, CreateOwnership DEF SubmitSweep
<1>3. ASSUME NEW r \in Run, SignalCancel(r) PROVE Ownership'
  BY <1>3 DEF SignalCancel, storeVars, memoryVars, Ownership, GrantsFollowRuns,
              ActiveHasWorker, ClaimIsReapable, LinkedIsConnected
<1>4. ASSUME NEW r \in Run, CancelNow(r) PROVE Ownership'
  <2> DEFINE cur == [w \in Worker |-> IF w = rworker[r] THEN None ELSE current[w]]
             st == [rstate EXCEPT ![r] = "cancelled"]
  <2>1. /\ cur \in [Worker -> Run \cup {None}]
        /\ st \in [Run -> RunState]
    BY DEF RunState, Terminal
  <2>2. Pump(st, rworker, cur, grants \ {r}, link, silent, down)
    BY <1>4 DEF CancelNow
  <2>3. \A q \in grants \ {r} : st[q] \in Active
    BY DEF Ownership, GrantsFollowRuns
  <2>4. \A q \in Run : st[q] \in Active => rworker[q] # None
    BY DEF Ownership, ActiveHasWorker, Active
  <2>5. connected' = connected /\ link' = link
    BY <1>4 DEF CancelNow
  <2>6. \A w \in Worker \ Persistent : cur[w] # None => w \in connected'
    BY <2>5 DEF Ownership, ClaimIsReapable
  <2> HIDE DEF cur, st
  <2> QED BY <2>1, <2>2, <2>3, <2>4, <2>5, <2>6, PumpOwnership
          DEF Ownership, LinkedIsConnected
<1>5. ASSUME NEW r \in Run, ResumeRun(r) PROVE Ownership'
  <2>1. Pump(Requeue(rstate, {r}), rworker, current, grants, link, silent, down)
    BY <1>5 DEF ResumeRun
  <2>2. \A q \in grants : Requeue(rstate, {r})[q] \in Active
    BY <1>5, RequeueActive DEF ResumeRun, Ownership, GrantsFollowRuns, Active, Terminal
  <2>3. \A q \in Run : Requeue(rstate, {r})[q] \in Active => rworker[q] # None
    BY RequeueActive DEF Ownership, ActiveHasWorker
  <2>4. connected' = connected /\ link' = link
    BY <1>5 DEF ResumeRun
  <2>5. /\ \A w \in Worker \ Persistent : current[w] # None => w \in connected'
        /\ \A w \in Worker : link[w] # None => w \in connected'
    BY <2>4 DEF Ownership, ClaimIsReapable, LinkedIsConnected
  <2>6. Requeue(rstate, {r}) \in [Run -> RunState]
    BY RequeueType
  <2> QED BY <2>1, <2>2, <2>3, <2>4, <2>5, <2>6, PumpOwnership
<1> QED BY <1>1, <1>2, <1>3, <1>4, <1>5 DEF Request, StopRun

LEMMA DetachOwnership ==
  ASSUME HubTypeOK, Ownership, NEW w \in Worker, NEW dn, Detach(w, dn)
  PROVE  Ownership'
<1> USE DEF HubTypeOK
<1> DEFINE lost == IF w \in Persistent THEN {} ELSE {current[w]} \ {None}
           cur == IF w \in Persistent THEN current
                  ELSE [current EXCEPT ![w] = None]
           lk == [link EXCEPT ![w] = None]
           st == Requeue(rstate, lost)
<1>1. Pump(st, rworker, cur, grants \ lost, lk, silent, dn)
  BY DEF Detach
<1>2. cur \in [Worker -> Run \cup {None}] /\ st \in [Run -> RunState]
  BY RequeueType
<1>3. \A r \in grants \ lost : st[r] \in Active
  BY RequeueActive DEF Ownership, GrantsFollowRuns
<1>4. \A r \in Run : st[r] \in Active => rworker[r] # None
  BY RequeueActive DEF Ownership, ActiveHasWorker
<1>5. connected' = connected \ {w} /\ link' = lk
  BY DEF Detach
<1>6. \A v \in Worker \ Persistent : cur[v] # None => v \in connected'
  BY <1>5 DEF Ownership, ClaimIsReapable
<1>7. \A v \in Worker : lk[v] # None => v \in connected'
  BY <1>5 DEF Ownership, LinkedIsConnected
<1> HIDE DEF lost, cur, lk, st
<1> QED BY <1>1, <1>2, <1>3, <1>4, <1>5, <1>6, <1>7, PumpOwnership

LEMMA OnMessageOwnership ==
  ASSUME TypeOK, Ownership, NEW c \in Conn, OnMessage(c)
  PROVE  Ownership'
<1> USE DEF TypeOK, HubTypeOK
<1> DEFINE w == WorkerOf(c)
           e == Head(up[c])
<1>1. w \in Worker /\ w # None
  BY ConnType, WorkerAssumption
<1>2. e.run \in Run
  <2>1. e \in Event
    BY HeadTailProperties DEF OnMessage, FabricTypeOK
  <2> QED BY <2>1 DEF Event
<1>3. connected' = connected /\ link' = link
  BY DEF OnMessage
<1>4. CASE UNCHANGED <<rstate, rworker, current, grants, down>>
  BY <1>3, <1>4 DEF Ownership, GrantsFollowRuns, ActiveHasWorker, ClaimIsReapable,
                    LinkedIsConnected
<1>5. CASE JobStarted(w, e.run)
  <2>1. \A r \in Run : rstate[r] \in Active => rstate'[r] \in Active
    BY <1>2, <1>5 DEF JobStarted, Active
  <2>2. GrantsFollowRuns'
    BY <1>5, <2>1 DEF JobStarted, Ownership, GrantsFollowRuns
  <2>3. ActiveHasWorker'
    BY <1>1, <1>2, <1>5 DEF JobStarted, Ownership, ActiveHasWorker
  <2>4. ClaimIsReapable' /\ LinkedIsConnected'
    BY <1>3, <1>5 DEF JobStarted, Ownership, ClaimIsReapable, LinkedIsConnected
  <2> QED BY <2>2, <2>3, <2>4 DEF Ownership
<1>6. CASE FinishRun(w, e.run, FinalState(e.kind), silent \ {w})
  <2> DEFINE st == [rstate EXCEPT ![e.run] = FinalState(e.kind)]
             wk == [rworker EXCEPT ![e.run] = w]
             cur == [current EXCEPT ![w] = None]
  <2>1. FinalState(e.kind) \in RunState \ Active
    BY DEF FinalState, RunState, Active, Terminal
  <2>2. /\ st \in [Run -> RunState]
        /\ wk \in [Run -> Worker \cup {None}]
        /\ cur \in [Worker -> Run \cup {None}]
    BY <1>1, <1>2, <2>1
  <2>3. Pump(st, wk, cur, grants \ {e.run}, link, silent \ {w}, down)
    BY <1>6 DEF FinishRun
  <2>4. \A r \in grants \ {e.run} : st[r] \in Active
    BY DEF Ownership, GrantsFollowRuns
  <2>5. \A r \in Run : st[r] \in Active => wk[r] # None
    BY <1>1, <1>2, <2>1 DEF Ownership, ActiveHasWorker
  <2>6. \A v \in Worker \ Persistent : cur[v] # None => v \in connected'
    BY <1>3 DEF Ownership, ClaimIsReapable
  <2>7. \A v \in Worker : link[v] # None => v \in connected'
    BY <1>3 DEF Ownership, LinkedIsConnected
  <2> HIDE DEF st, wk, cur
  <2> QED BY <1>3, <2>2, <2>3, <2>4, <2>5, <2>6, <2>7, PumpOwnership
<1> QED BY <1>4, <1>5, <1>6 DEF OnMessage

LEMMA HubStepOwnership ==
  ASSUME TypeOK, Ownership, HubStep
  PROVE  Ownership'
<1> USE DEF TypeOK, HubTypeOK
<1> USE DEF Ownership, GrantsFollowRuns, ActiveHasWorker, ClaimIsReapable, LinkedIsConnected
<1>1. ASSUME NEW c \in Conn, Attach(c) PROVE Ownership'
  <2> HIDE DEF Ownership, GrantsFollowRuns, ActiveHasWorker, ClaimIsReapable, LinkedIsConnected
  <2> DEFINE hw == IF highWater[WorkerOf(c)] = NoSeq THEN SeqOrigin
                   ELSE highWater[WorkerOf(c)]
             lk == [link EXCEPT ![WorkerOf(c)] = SocketOf(c)]
             dn == [down EXCEPT ![c] = <<AckOf(hw)>>]
  <2>1. Pump(rstate, rworker, current, grants, lk, silent \ {WorkerOf(c)}, dn)
    BY <1>1 DEF Attach
  <2>2. connected' = connected \cup {WorkerOf(c)} /\ link' = lk
    BY <1>1 DEF Attach
  <2>3. /\ \A r \in grants : rstate[r] \in Active
        /\ \A r \in Run : rstate[r] \in Active => rworker[r] # None
    BY DEF Ownership, GrantsFollowRuns, ActiveHasWorker
  <2>4. /\ \A w \in Worker \ Persistent : current[w] # None => w \in connected'
        /\ \A w \in Worker : lk[w] # None => w \in connected'
    BY <2>2 DEF Ownership, ClaimIsReapable, LinkedIsConnected
  <2> HIDE DEF hw, lk, dn
  <2> QED BY <2>1, <2>2, <2>3, <2>4, PumpOwnership
<1>2. ASSUME NEW c \in Conn, Unserve(c) PROVE Ownership'
  <2> HIDE DEF Ownership
  <2> QED BY <1>2, ConnType, DetachOwnership DEF Unserve
<1>3. ASSUME NEW c \in Conn, SessionEnd(c) \/ SessionLost(c) PROVE Ownership'
  BY <1>2, <1>3 DEF SessionEnd, SessionLost
<1>4. ASSUME NEW c \in Conn, Heartbeat(c) PROVE Ownership'
  BY <1>4 DEF Heartbeat, memoryVars
<1>5. ASSUME NEW c \in Conn, OnMessage(c) PROVE Ownership'
  BY <1>5, OnMessageOwnership
<1>6. ASSUME NEW w \in Worker, Lapse(w) PROVE Ownership'
  BY <1>6 DEF Lapse, memoryVars
<1>7. ASSUME NEW w \in Worker, ReapStale(w) PROVE Ownership'
  BY <1>7, DetachOwnership DEF ReapStale
<1>8. ASSUME NEW w \in Worker, DrainLease(w) PROVE Ownership'
  BY <1>8 DEF DrainLease, memoryVars
<1>9. ASSUME NEW w \in Worker, ExtendLease(w) PROVE Ownership'
  BY <1>9 DEF ExtendLease, memoryVars
<1>10. ASSUME NEW S \in SUBSET Run, StuckAssignments(S) PROVE Ownership'
  <2> HIDE DEF Ownership, GrantsFollowRuns, ActiveHasWorker, ClaimIsReapable, LinkedIsConnected
  <2> DEFINE held == {rworker[r] : r \in S}
             cur == [w \in Worker |-> IF w \in held THEN None ELSE current[w]]
             st == Requeue(rstate, S)
  <2>1. cur \in [Worker -> Run \cup {None}] /\ st \in [Run -> RunState]
    BY RequeueType
  <2>2. Pump(st, rworker, cur, grants \ S, link, silent, down)
    BY <1>10 DEF StuckAssignments, ReapStuck
  <2>3. \A r \in grants \ S : st[r] \in Active
    BY RequeueActive DEF Ownership, GrantsFollowRuns
  <2>4. \A r \in Run : st[r] \in Active => rworker[r] # None
    BY RequeueActive DEF Ownership, ActiveHasWorker
  <2>5. connected' = connected /\ link' = link
    BY <1>10 DEF StuckAssignments, ReapStuck
  <2>6. \A w \in Worker \ Persistent : cur[w] # None => w \in connected'
    BY <2>5 DEF Ownership, ClaimIsReapable
  <2>7. \A w \in Worker : link[w] # None => w \in connected'
    BY <2>5 DEF Ownership, LinkedIsConnected
  <2> HIDE DEF held, cur, st
  <2> QED BY <2>1, <2>2, <2>3, <2>4, <2>5, <2>6, <2>7, PumpOwnership
<1>11. ASSUME Restart PROVE Ownership'
  BY <1>11 DEF Restart, storeVars
<1> HIDE DEF Ownership
<1> QED BY <1>1, <1>3, <1>4, <1>5, <1>6, <1>7, <1>8, <1>9, <1>10, <1>11 DEF HubStep

LEMMA NextOwnership == TypeOK /\ Ownership /\ [Next]_vars => Ownership'
<1> SUFFICES ASSUME TypeOK, Ownership, [Next]_vars PROVE Ownership'
  OBVIOUS
<1>1. CASE Request
  BY <1>1, RequestOwnership
<1>2. CASE HubStep
  BY <1>2, HubStepOwnership
<1>3. CASE UNCHANGED hubVars
  BY <1>3 DEF hubVars, storeVars, memoryVars, Ownership, GrantsFollowRuns,
              ActiveHasWorker, ClaimIsReapable, LinkedIsConnected
<1> QED BY <1>1, <1>2, <1>3 DEF Next, vars

LEMMA FleetOwnership == Spec => []Ownership
<1>1. Init => Ownership
  BY InitOwnership
<1>2. TypeOK /\ Ownership /\ [Next]_vars => Ownership'
  BY NextOwnership
<1> QED BY <1>1, <1>2, FleetTypeOK, PTL DEF Spec

\* No upload grant outlives its run's time on a worker, through any mix of
\* stops, reports, detaches, reaps, resumes and restarts.
THEOREM FleetGrantsFollowRuns == Spec => []GrantsFollowRuns
<1>1. Ownership => GrantsFollowRuns
  BY DEF Ownership
<1> QED BY <1>1, FleetOwnership, PTL

\* Every run the record has on a worker names that worker.
THEOREM FleetActiveHasWorker == Spec => []ActiveHasWorker
<1>1. Ownership => ActiveHasWorker
  BY DEF Ownership
<1> QED BY <1>1, FleetOwnership, PTL

\* No leased worker is left holding a run where neither the end of a session
\* nor the heartbeat reaper would look for it.
THEOREM FleetClaimIsReapable == Spec => []ClaimIsReapable
<1>1. Ownership => ClaimIsReapable
  BY DEF Ownership
<1> QED BY <1>1, FleetOwnership, PTL

-----------------------------------------------------------------------------
(***************************************************************************)
(* Claims.  A requeue must find the run unclaimed, or two workers come to  *)
(* claim it: so an assigned run is claimed by the worker in its row or by  *)
(* none, which is the one whose claim the assignment reaper takes away.  A *)
(* resume is what can break this, for the terminal run it requeues may     *)
(* still be in the row of a worker that a report did not come from.        *)
(***************************************************************************)

\* No more of a trouble to come.
Never(what) == \A b \in Budget : b[what] = 0

Over(what) == budget[what] = 0

\* The trouble there is none of to start with never comes.
LEMMA NeverStays ==
  ASSUME NEW what \in Intervention, TypeOK, [Next]_vars
  PROVE  Over(what) => Over(what)' /\ ~Spend(what)
<1>1. budget \in [Intervention -> Nat]
  BY DEF TypeOK, FabricTypeOK
<1>2. budget' = budget \/ \E any \in Intervention : Spend(any)
  <2>1. CASE Request /\ UNCHANGED workerVars
    BY <2>1 DEF Request, Submit, SubmitSweep, Create, StopRun, ResumeRun, Intervention
  <2>2. CASE HubStep /\ UNCHANGED <<workerVars, asked>>
    BY <2>2 DEF HubStep, Attach, SessionEnd, SessionLost, Heartbeat, OnMessage, Lapse,
                ReapStale, DrainLease, ExtendLease, StuckAssignments, Restart, Intervention,
                fabricVars
  <2>3. CASE WorkerStep /\ UNCHANGED <<hubVars, asked>>
    BY <2>3 DEF WorkerStep, HelloAck, Forward, AssignJob, Cancel, DrainRequest, SelfDrain,
                Hangup, ConnectionLost, Crash, ExecutorStart, ExecutorEnd, ExecutorFinish,
                Intervention, fabricVars
  <2>4. CASE UNCHANGED vars
    BY <2>4 DEF vars, fabricVars
  <2> QED BY <2>1, <2>2, <2>3, <2>4 DEF Next
<1>3. ASSUME Over(what), NEW any \in Intervention, Spend(any) PROVE Over(what)'
  BY <1>1, <1>3 DEF Over, Spend
<1>4. Over(what) => ~Spend(what)
  BY DEF Over, Spend
<1> QED BY <1>2, <1>3, <1>4 DEF Over

\* f hands its runs out, and nothing else changes but what the handler itself did.
HandsOut(f, st, wk, cur, lk, dn) ==
    /\ \A r \in DOMAIN f : /\ r \in Run /\ st[r] = "queued" /\ ~Held(st, r)
                           /\ f[r] \in Worker /\ cur[f[r]] = None /\ lk[f[r]] # None
                           /\ rstate'[r] = "assigned" /\ rworker'[r] = f[r]
                           /\ current'[f[r]] = r
    /\ \A q, r \in DOMAIN f : f[q] = f[r] => q = r
    /\ \A r \in Run \ DOMAIN f : rstate'[r] = st[r] /\ rworker'[r] = wk[r]
    /\ \A w \in Worker : \/ \E r \in DOMAIN f : f[r] = w
                         \/ current'[w] = cur[w]
    /\ \A c \in Conn : \/ \E r \in DOMAIN f : /\ f[r] = WorkerOf(c)
                                              /\ lk[WorkerOf(c)] = SocketOf(c)
                                              /\ down'[c] = Append(dn[c], AssignOf(r))
                       \/ down'[c] = dn[c]
    /\ \A r \in DOMAIN f, c \in Conn :
         f[r] = WorkerOf(c) /\ lk[WorkerOf(c)] = SocketOf(c)
           => down'[c] = Append(dn[c], AssignOf(r))

\* What a scheduler pass does, run by run and worker by worker.
LEMMA PumpHandsOut ==
  ASSUME NEW st, NEW wk, NEW cur, NEW gr, NEW lk, NEW sil, NEW dn,
         Pump(st, wk, cur, gr, lk, sil, dn)
  PROVE  \E f : HandsOut(f, st, wk, cur, lk, dn)
<1>1. PICK f \in Assignments(st, cur, lk, sil) :
        /\ rstate' = [r \in Run |-> IF r \in DOMAIN f THEN "assigned" ELSE st[r]]
        /\ rworker' = [r \in Run |-> IF r \in DOMAIN f THEN f[r] ELSE wk[r]]
        /\ current' = [w \in Worker |->
                         IF w \in Taken(f)
                         THEN CHOOSE r \in DOMAIN f : f[r] = w ELSE cur[w]]
        /\ down' = [c \in Conn |->
                      IF WorkerOf(c) \in Taken(f) /\ lk[WorkerOf(c)] = SocketOf(c)
                      THEN Append(dn[c], AssignOf(CHOOSE r \in DOMAIN f :
                                                    f[r] = WorkerOf(c)))
                      ELSE dn[c]]
  BY DEF Pump
<1>2. /\ \A r \in DOMAIN f : /\ r \in Run /\ st[r] = "queued" /\ ~Held(st, r)
                             /\ f[r] \in Worker /\ cur[f[r]] = None /\ lk[f[r]] # None
      /\ \A q, r \in DOMAIN f : f[q] = f[r] => q = r
  BY DEF Assignments, Injection, IsInjective, Oldest, Assignable, EligibleForAssignment
<1>3. \A w \in Taken(f) : LET p == CHOOSE r \in DOMAIN f : f[r] = w
                          IN  p \in DOMAIN f /\ f[p] = w
  BY DEF Taken
<1>4. \A r \in DOMAIN f : (CHOOSE q \in DOMAIN f : f[q] = f[r]) = r
  BY <1>2
<1>5. \A r \in DOMAIN f : /\ rstate'[r] = "assigned" /\ rworker'[r] = f[r]
                          /\ current'[f[r]] = r
  BY <1>1, <1>2, <1>4 DEF Taken
<1>6. \A w \in Worker : \/ \E r \in DOMAIN f : f[r] = w
                        \/ current'[w] = cur[w]
  BY <1>1, <1>3
<1>7. \A c \in Conn : \/ \E r \in DOMAIN f : /\ f[r] = WorkerOf(c)
                                             /\ lk[WorkerOf(c)] = SocketOf(c)
                                             /\ down'[c] = Append(dn[c], AssignOf(r))
                      \/ down'[c] = dn[c]
  BY <1>1, <1>3
<1>8. \A r \in DOMAIN f, c \in Conn :
        f[r] = WorkerOf(c) /\ lk[WorkerOf(c)] = SocketOf(c)
          => down'[c] = Append(dn[c], AssignOf(r))
  BY <1>1, <1>4 DEF Taken
<1> QED BY <1>1, <1>2, <1>5, <1>6, <1>7, <1>8 DEF HandsOut

Grounded(st, wk, cur) ==
    /\ \A v, w \in Worker : cur[v] = cur[w] /\ cur[v] # None => v = w
    /\ \A w \in Worker : cur[w] # None =>
         /\ st[cur[w]] \notin {"new", "queued"}
         /\ st[cur[w]] = "assigned" => wk[cur[w]] = w

Claims == Grounded(rstate, rworker, current) /\ Over("resume")

LEMMA PumpGrounded ==
  ASSUME NEW st, NEW wk, NEW cur \in [Worker -> Run \cup {None}], NEW gr, NEW lk, NEW sil, NEW dn,
         Pump(st, wk, cur, gr, lk, sil, dn), Grounded(st, wk, cur)
  PROVE  Grounded(rstate', rworker', current')
<1>1. PICK f : HandsOut(f, st, wk, cur, lk, dn)
  BY PumpHandsOut
<1>2. \A w \in Worker : cur[w] # None => cur[w] \in Run \ DOMAIN f
  BY <1>1 DEF Grounded, HandsOut
<1>3. \A r \in DOMAIN f : r # None
  BY <1>1, RunAssumption DEF HandsOut
<1> QED BY <1>1, <1>2, <1>3 DEF Grounded, HandsOut

LEMMA DetachClaims ==
  ASSUME HubTypeOK, Grounded(rstate, rworker, current), NEW w \in Worker, NEW dn, Detach(w, dn)
  PROVE  Grounded(rstate', rworker', current')
<1> USE DEF HubTypeOK
<1> DEFINE lost == IF w \in Persistent THEN {} ELSE {current[w]} \ {None}
           cur == IF w \in Persistent THEN current
                  ELSE [current EXCEPT ![w] = None]
           lk == [link EXCEPT ![w] = None]
           st == Requeue(rstate, lost)
<1>1. Pump(st, rworker, cur, grants \ lost, lk, silent, dn)
  BY DEF Detach
<1>2. cur \in [Worker -> Run \cup {None}]
  OBVIOUS
<1>3. Grounded(st, rworker, cur)
  BY DEF Grounded, Requeue
<1> HIDE DEF lost, cur, lk, st
<1> QED BY <1>1, <1>2, <1>3, PumpGrounded

LEMMA RequestClaims ==
  ASSUME TypeOK, Claims, Request
  PROVE  Grounded(rstate', rworker', current')
<1> USE DEF TypeOK, HubTypeOK
<1>1. ASSUME NEW S \in SUBSET Run, Create(S) PROVE Grounded(rstate', rworker', current')
  <2>1. Pump(Requeue(rstate, S), rworker, current, grants, link, silent, down)
    BY <1>1 DEF Create
  <2>2. Grounded(Requeue(rstate, S), rworker, current)
    BY <1>1 DEF Create, Requeue, Claims, Grounded
  <2> QED BY <2>1, <2>2, PumpGrounded
<1>2. ASSUME NEW r \in Run, Submit(r) PROVE Grounded(rstate', rworker', current')
  BY <1>1, <1>2 DEF Submit
<1>3. ASSUME NEW s \in Sweep, SubmitSweep(s) PROVE Grounded(rstate', rworker', current')
  BY <1>1, <1>3 DEF SubmitSweep
<1>4. ASSUME NEW r \in Run, SignalCancel(r) PROVE Grounded(rstate', rworker', current')
  BY <1>4 DEF SignalCancel, storeVars, Claims
<1>5. ASSUME NEW r \in Run, CancelNow(r) PROVE Grounded(rstate', rworker', current')
  <2> DEFINE cur == [w \in Worker |-> IF w = rworker[r] THEN None ELSE current[w]]
             st == [rstate EXCEPT ![r] = "cancelled"]
  <2>1. Pump(st, rworker, cur, grants \ {r}, link, silent, down)
    BY <1>5 DEF CancelNow
  <2>2. cur \in [Worker -> Run \cup {None}] /\ Grounded(st, rworker, cur)
    BY DEF Claims, Grounded
  <2> HIDE DEF cur, st
  <2> QED BY <2>1, <2>2, PumpGrounded
<1>6. \A r \in Run : ~ResumeRun(r)
  BY DEF Claims, Over, ResumeRun, Spend, FabricTypeOK, Intervention
<1> QED BY <1>2, <1>3, <1>4, <1>5, <1>6 DEF Request, StopRun

LEMMA OnMessageClaims ==
  ASSUME TypeOK, Claims, NEW c \in Conn, OnMessage(c)
  PROVE  Grounded(rstate', rworker', current')
<1> USE DEF TypeOK, HubTypeOK
<1> DEFINE w == WorkerOf(c)
           e == Head(up[c])
<1>1. w \in Worker /\ e.run \in Run
  <2>1. e \in Event
    BY HeadTailProperties DEF OnMessage, FabricTypeOK
  <2> QED BY <2>1, ConnType DEF Event
<1> HIDE DEF w, e
<1>2. CASE UNCHANGED <<rstate, rworker, current, grants, down>>
  BY <1>2 DEF Claims
<1>3. CASE JobStarted(w, e.run)
  BY <1>1, <1>3 DEF JobStarted, Claims, Grounded, Terminal
<1>4. CASE FinishRun(w, e.run, FinalState(e.kind), silent \ {w})
  <2> DEFINE st == [rstate EXCEPT ![e.run] = FinalState(e.kind)]
             wk == [rworker EXCEPT ![e.run] = w]
             cur == [current EXCEPT ![w] = None]
  <2>1. FinalState(e.kind) \in Terminal
    BY DEF FinalState, Terminal
  <2>2. cur \in [Worker -> Run \cup {None}] /\ Grounded(st, wk, cur)
    BY <1>1, <2>1 DEF Claims, Grounded, Terminal
  <2>3. Pump(st, wk, cur, grants \ {e.run}, link, silent \ {w}, down)
    BY <1>4 DEF FinishRun
  <2> HIDE DEF st, wk, cur
  <2> QED BY <2>2, <2>3, PumpGrounded
<1> QED BY <1>2, <1>3, <1>4 DEF OnMessage, w, e

LEMMA HubStepClaims ==
  ASSUME TypeOK, Claims, HubStep
  PROVE  Grounded(rstate', rworker', current')
<1> USE DEF TypeOK, HubTypeOK
<1>1. Grounded(rstate, rworker, current)
  BY DEF Claims
<1>2. CASE UNCHANGED <<rstate, rworker, current>>
  BY <1>1, <1>2
<1>3. ASSUME NEW c \in Conn, Attach(c) PROVE Grounded(rstate', rworker', current')
  <2> DEFINE hw == IF highWater[WorkerOf(c)] = NoSeq THEN SeqOrigin
                   ELSE highWater[WorkerOf(c)]
             lk == [link EXCEPT ![WorkerOf(c)] = SocketOf(c)]
             dn == [down EXCEPT ![c] = <<AckOf(hw)>>]
  <2>1. Pump(rstate, rworker, current, grants, lk, silent \ {WorkerOf(c)}, dn)
    BY <1>3 DEF Attach
  <2> HIDE DEF hw, lk, dn
  <2> QED BY <1>1, <2>1, PumpGrounded
<1>4. ASSUME NEW c \in Conn, Unserve(c) PROVE Grounded(rstate', rworker', current')
  BY <1>1, <1>4, ConnType, DetachClaims DEF Unserve
<1>5. ASSUME NEW w \in Worker, ReapStale(w) PROVE Grounded(rstate', rworker', current')
  BY <1>1, <1>5, DetachClaims DEF ReapStale
<1>6. ASSUME NEW S \in SUBSET Run, StuckAssignments(S)
      PROVE  Grounded(rstate', rworker', current')
  <2> DEFINE held == {rworker[r] : r \in S}
             cur == [w \in Worker |-> IF w \in held THEN None ELSE current[w]]
             st == Requeue(rstate, S)
  <2>1. cur \in [Worker -> Run \cup {None}]
    OBVIOUS
  <2>2. Pump(st, rworker, cur, grants \ S, link, silent, down)
    BY <1>6 DEF StuckAssignments, ReapStuck
  <2>3. Grounded(st, rworker, cur)
    BY <1>1, <1>6 DEF StuckAssignments, ReapStuck, Grounded, Requeue
  <2> HIDE DEF held, cur, st
  <2> QED BY <2>1, <2>2, <2>3, PumpGrounded
<1>7. (\E w \in Worker : Lapse(w) \/ DrainLease(w) \/ ExtendLease(w))
      \/ (\E c \in Conn : Heartbeat(c)) \/ Restart
        => UNCHANGED <<rstate, rworker, current>>
  BY DEF Lapse, DrainLease, ExtendLease, Heartbeat, Restart, storeVars
<1> QED BY <1>2, <1>3, <1>4, <1>5, <1>6, <1>7, OnMessageClaims
        DEF HubStep, SessionEnd, SessionLost

LEMMA NextClaims == TypeOK /\ Claims /\ [Next]_vars => Claims'
<1> SUFFICES ASSUME TypeOK, Claims, [Next]_vars PROVE Claims'
  OBVIOUS
<1>1. Over("resume")'
  BY NeverStays DEF Claims, Intervention
<1>2. CASE UNCHANGED hubVars
  BY <1>1, <1>2 DEF hubVars, storeVars, Claims
<1> QED BY <1>1, <1>2, RequestClaims, HubStepClaims DEF Next, vars, Claims

\* As long as no operator resumes a run that has ended, two workers never
\* claim the same run: neither drops, restarts, crashes, stops, late reports
\* nor assignments taken for lost bring that about, in any number or order.
THEOREM FleetClaimsAreDisjoint ==
  ASSUME Never("resume")
  PROVE  Spec => []ClaimsAreDisjoint
<1>1. Init => Claims
  <2> SUFFICES ASSUME Init PROVE Claims
    OBVIOUS
  <2>1. Over("resume")
    BY DEF Init, FabricInit, Never, Over
  <2>2. Grounded(rstate, rworker, current)
    BY DEF Init, HubInit, Grounded
  <2> QED BY <2>1, <2>2 DEF Claims
<1>2. TypeOK /\ Claims /\ [Next]_vars => Claims'
  BY NextClaims
<1>3. Claims => ClaimsAreDisjoint
  BY DEF Claims, Grounded, ClaimsAreDisjoint
<1> QED BY <1>1, <1>2, <1>3, FleetTypeOK, PTL DEF Spec

-----------------------------------------------------------------------------
(***************************************************************************)
(* Streams.  As long as no worker process dies and counts anew, the events *)
(* of a worker are numbered in one order, wherever they are: it keeps them *)
(* in that order, every session carries them in that order, and a session  *)
(* that carries an event carries whatever was kept and not applied before. *)
(***************************************************************************)

Sorted(s) == \A i, j \in DOMAIN s : i < j => s[i].seq < s[j].seq

Kept(w) == Range(outbox[w]) \cup Range(jobrx[w])

InFlight(w) == UNION {Range(up[<<w, k>>]) : k \in Socket}

\* An acknowledgement waits at the worker's end; there is none behind it.
AckWaits(msgs) == msgs # <<>> /\ Head(msgs).type = "ack"

AckFirst(msgs) == \A i \in DOMAIN msgs : i # 1 => msgs[i].type # "ack"

Numbered ==
    /\ \A w \in Worker :
         /\ Sorted(outbox[w]) /\ Sorted(jobrx[w])
         /\ \A e \in Range(outbox[w]) \cup InFlight(w), f \in Range(jobrx[w]) : e.seq < f.seq
         /\ \A e \in Kept(w) \cup InFlight(w) : e.seq < seq[w]
         /\ \A e, f \in Kept(w) \cup InFlight(w) : e.seq = f.seq => e = f
         /\ highWater[w] < seq[w]
    /\ \A c \in Conn : Sorted(up[c])

Sessions ==
    /\ \A c, d \in dialled : WorkerOf(c) = WorkerOf(d) => c = d
    /\ \A c \in Conn : /\ c \notin serving \/ AckWaits(down[c]) => up[c] = <<>>
                       /\ AckFirst(down[c])

\* What a session in progress has resent or sent on, and in what order.
Replayed(c) ==
    LET w == WorkerOf(c)
    IN  /\ c \in dialled \cap serving /\ ~AckWaits(down[c])
             => \A e \in Range(outbox[w]) : e.seq > highWater[w] => e \in Range(up[c])
        /\ \A f \in Range(up[c]), e \in Kept(w) :
             highWater[w] < e.seq /\ e.seq < f.seq => e \in Range(up[c])

Wire == /\ Numbered
        /\ Sessions
        /\ \A c \in Conn : Replayed(c)
        /\ Over("crash")

\* Sequences of events.
LEMMA RangeOfAppend ==
  ASSUME NEW S, NEW s \in Seq(S), NEW e \in S
  PROVE  Range(Append(s, e)) = Range(s) \cup {e}
<1>1. /\ DOMAIN s = 1..Len(s) /\ Len(s) \in Nat
      /\ DOMAIN Append(s, e) = 1..Len(s) + 1
      /\ \A i \in 1..Len(s) : Append(s, e)[i] = s[i]
      /\ Append(s, e)[Len(s) + 1] = e
  BY AppendProperties, LenProperties
<1>2. 1..Len(s) + 1 = (1..Len(s)) \cup {Len(s) + 1}
  BY <1>1
<1> QED BY <1>1, <1>2 DEF Range

LEMMA RangeOfTail ==
  ASSUME NEW S, NEW s \in Seq(S), s # <<>>
  PROVE  Range(s) = {Head(s)} \cup Range(Tail(s))
<1>1. /\ DOMAIN s = 1..Len(s) /\ Len(s) \in Nat /\ Len(s) >= 1
      /\ DOMAIN Tail(s) = 1..Len(s) - 1
      /\ \A i \in 1..Len(s) - 1 : Tail(s)[i] = s[i + 1]
      /\ Head(s) = s[1]
  BY HeadTailProperties, LenProperties, EmptySeq
<1>2. Range(s) \subseteq {Head(s)} \cup Range(Tail(s))
  <2> SUFFICES ASSUME NEW i \in 1..Len(s), i # 1 PROVE s[i] \in Range(Tail(s))
    BY <1>1 DEF Range
  <2>1. i - 1 \in 1..Len(s) - 1
    BY <1>1
  <2>2. s[i] = Tail(s)[i - 1]
    BY <1>1, <2>1
  <2> QED BY <1>1, <2>1, <2>2 DEF Range
<1>3. {Head(s)} \cup Range(Tail(s)) \subseteq Range(s)
  BY <1>1 DEF Range
<1> QED BY <1>2, <1>3

LEMMA RangeOfConcat ==
  ASSUME NEW S, NEW s \in Seq(S), NEW t \in Seq(S)
  PROVE  Range(s \o t) = Range(s) \cup Range(t)
<1>1. /\ DOMAIN s = 1..Len(s) /\ Len(s) \in Nat /\ DOMAIN t = 1..Len(t) /\ Len(t) \in Nat
      /\ DOMAIN (s \o t) = 1..Len(s) + Len(t)
      /\ \A i \in 1..Len(s) + Len(t) : (s \o t)[i] = IF i <= Len(s) THEN s[i] ELSE t[i - Len(s)]
  BY ConcatProperties, LenProperties
<1>2. Range(s \o t) \subseteq Range(s) \cup Range(t)
  <2> SUFFICES ASSUME NEW i \in 1..Len(s) + Len(t) PROVE (s \o t)[i] \in Range(s) \cup Range(t)
    BY <1>1 DEF Range
  <2>1. CASE i <= Len(s)
    BY <1>1, <2>1 DEF Range
  <2>2. CASE ~(i <= Len(s))
    <3>1. i - Len(s) \in 1..Len(t)
      BY <1>1, <2>2
    <3> QED BY <1>1, <2>2, <3>1 DEF Range
  <2> QED BY <2>1, <2>2
<1>3. Range(s) \subseteq Range(s \o t)
  BY <1>1 DEF Range
<1>4. Range(t) \subseteq Range(s \o t)
  <2> SUFFICES ASSUME NEW i \in 1..Len(t) PROVE t[i] \in Range(s \o t)
    BY <1>1 DEF Range
  <2>1. /\ Len(s) + i \in 1..Len(s) + Len(t) /\ ~(Len(s) + i <= Len(s))
        /\ (Len(s) + i) - Len(s) = i
    BY <1>1
  <2>2. (s \o t)[Len(s) + i] = t[i]
    BY <1>1, <2>1
  <2> QED BY <1>1, <2>1, <2>2 DEF Range
<1> QED BY <1>2, <1>3, <1>4

\* What keeps a sequence of events in order.
LEMMA SortedAppend ==
  ASSUME NEW s \in Seq(Event), Sorted(s), NEW e \in Event, \A f \in Range(s) : f.seq < e.seq
  PROVE  Sorted(Append(s, e))
<1>1. /\ DOMAIN s = 1..Len(s) /\ Len(s) \in Nat
      /\ DOMAIN Append(s, e) = 1..Len(s) + 1
      /\ \A i \in 1..Len(s) : Append(s, e)[i] = s[i]
      /\ Append(s, e)[Len(s) + 1] = e
  BY AppendProperties, LenProperties
<1> SUFFICES ASSUME NEW i \in 1..Len(s) + 1, NEW j \in 1..Len(s) + 1, i < j
             PROVE  Append(s, e)[i].seq < Append(s, e)[j].seq
  BY <1>1 DEF Sorted
<1>2. i \in 1..Len(s)
  BY <1>1
<1>3. CASE j = Len(s) + 1
  BY <1>1, <1>2, <1>3 DEF Range
<1>4. CASE j # Len(s) + 1
  BY <1>1, <1>2, <1>4 DEF Sorted
<1> QED BY <1>3, <1>4

LEMMA SortedTail ==
  ASSUME NEW s \in Seq(Event), Sorted(s), s # <<>>
  PROVE  /\ Sorted(Tail(s))
         /\ \A e \in Range(Tail(s)) : Head(s).seq < e.seq
<1>1. /\ DOMAIN s = 1..Len(s) /\ Len(s) \in Nat /\ Len(s) >= 1
      /\ DOMAIN Tail(s) = 1..Len(s) - 1
      /\ \A i \in 1..Len(s) - 1 : Tail(s)[i] = s[i + 1]
      /\ Head(s) = s[1]
  BY HeadTailProperties, LenProperties, EmptySeq
<1>2. Sorted(Tail(s))
  BY <1>1 DEF Sorted
<1>3. \A e \in Range(Tail(s)) : Head(s).seq < e.seq
  BY <1>1 DEF Sorted, Range
<1> QED BY <1>2, <1>3

LEMMA SortedConcat ==
  ASSUME NEW s \in Seq(Event), NEW t \in Seq(Event), Sorted(s), Sorted(t),
         \A e \in Range(s), f \in Range(t) : e.seq < f.seq
  PROVE  Sorted(s \o t)
<1>1. /\ DOMAIN s = 1..Len(s) /\ Len(s) \in Nat /\ DOMAIN t = 1..Len(t) /\ Len(t) \in Nat
      /\ DOMAIN (s \o t) = 1..Len(s) + Len(t)
      /\ \A i \in 1..Len(s) + Len(t) : (s \o t)[i] = IF i <= Len(s) THEN s[i] ELSE t[i - Len(s)]
  BY ConcatProperties, LenProperties
<1> SUFFICES ASSUME NEW i \in 1..Len(s) + Len(t), NEW j \in 1..Len(s) + Len(t), i < j
             PROVE  (s \o t)[i].seq < (s \o t)[j].seq
  BY <1>1 DEF Sorted
<1>2. CASE j <= Len(s)
  BY <1>1, <1>2 DEF Sorted
<1>3. CASE i <= Len(s) /\ ~(j <= Len(s))
  <2>1. i \in 1..Len(s) /\ j - Len(s) \in 1..Len(t)
    BY <1>1, <1>3
  <2> QED BY <1>1, <1>3, <2>1 DEF Range
<1>4. CASE ~(i <= Len(s))
  <2>1. i - Len(s) \in 1..Len(t) /\ j - Len(s) \in 1..Len(t) /\ i - Len(s) < j - Len(s)
    BY <1>1, <1>4
  <2> QED BY <1>1, <1>4, <2>1 DEF Sorted
<1> QED BY <1>1, <1>2, <1>3, <1>4

\* What SubSeq leaves when it drops a prefix.
LEMMA SubSeqOf ==
  ASSUME NEW S, NEW s \in Seq(S), NEW a \in Nat, a <= Len(s)
  PROVE  LET t == SubSeq(s, a + 1, Len(s))
         IN  /\ t \in Seq(S)
             /\ DOMAIN t = 1..Len(s) - a
             /\ \A i \in 1..Len(s) - a : t[i] = s[a + i]
<1> DEFINE m == a + 1
           n == Len(s)
           t == SubSeq(s, m, n)
<1>1. /\ m \in Int /\ n \in Int
      /\ \A i \in m..n : s[i] \in S
      /\ m <= n + 1 /\ n - m + 1 = n - a
      /\ \A i \in 1..n - m + 1 : m + i - 1 = a + i
      /\ n - a \in Nat /\ (m <= n \/ n - m + 1 = 0)
  BY LenProperties
<1> HIDE DEF m, n
<1>2. /\ t \in Seq(S)
      /\ Len(t) = IF m <= n THEN n - m + 1 ELSE 0
      /\ \A i \in 1..n - m + 1 : t[i] = s[m + i - 1]
  BY <1>1, SubSeqProperties
<1> HIDE DEF t
<1>3. Len(t) = n - a
  <2>1. Len(t) = n - m + 1
    BY <1>1, <1>2
  <2> QED BY <1>1, <2>1
<1>4. /\ t \in Seq(S)
      /\ DOMAIN t = 1..n - a
      /\ \A i \in 1..n - a : t[i] = s[a + i]
  <2>1. DOMAIN t = 1..n - a
    BY <1>2, <1>3, LenProperties
  <2> QED BY <1>1, <1>2, <2>1
<1> QED BY <1>4 DEF t, m, n

\* Trimming drops what has been applied, and nothing else.
LEMMA Trimmed ==
  ASSUME NEW s \in Seq(Event), Sorted(s), NEW hw \in Nat
  PROVE  /\ TrimToHighWater(s, hw) \in Seq(Event)
         /\ Sorted(TrimToHighWater(s, hw))
         /\ Range(TrimToHighWater(s, hw)) \subseteq Range(s)
         /\ \A e \in Range(s) : e.seq > hw => e \in Range(TrimToHighWater(s, hw))
<1> DEFINE a == Cardinality(Applied(s, hw))
           t == SubSeq(s, a + 1, Len(s))
<1>1. /\ DOMAIN s = 1..Len(s) /\ Len(s) \in Nat
      /\ \A i \in 1..Len(s) : s[i] \in Event /\ s[i].seq \in Nat
  <2>1. DOMAIN s = 1..Len(s) /\ Len(s) \in Nat /\ \A i \in 1..Len(s) : s[i] \in Event
    BY LenProperties
  <2>2. \A e \in Event : e.seq \in Nat
    BY DEF Event
  <2> QED BY <2>1, <2>2
<1>2. \A n \in Nat : IsFiniteSet(1..n) /\ Cardinality(1..n) = n
  <2> SUFFICES ASSUME NEW n \in Nat PROVE IsFiniteSet(1..n) /\ Cardinality(1..n) = n
    OBVIOUS
  <2>1. 1 \in Int /\ n \in Int
    OBVIOUS
  <2>2. IsFiniteSet(1..n) /\ Cardinality(1..n) = IF 1 > n THEN 0 ELSE n - 1 + 1
    BY <2>1, FS_Interval
  <2> QED BY <2>2
<1>3. a \in Nat /\ a <= Len(s)
  <2>1. Applied(s, hw) \in SUBSET (1..Len(s))
    BY <1>1 DEF Applied
  <2>2. IsFiniteSet(1..Len(s)) /\ Cardinality(1..Len(s)) = Len(s)
    BY <1>1, <1>2
  <2>3. IsFiniteSet(Applied(s, hw)) /\ a <= Cardinality(1..Len(s))
    BY <2>1, <2>2, FS_Subset
  <2> QED BY <2>2, <2>3, FS_CardinalityType
<1>4. ASSUME NEW i \in 1..Len(s), s[i].seq > hw
      PROVE  a + 1 <= i
  <2> DEFINE n == i - 1
  <2>1. n \in Nat
    BY <1>1
  <2>2. Applied(s, hw) \in SUBSET (1..n)
    <3> SUFFICES ASSUME NEW j \in 1..Len(s), s[j].seq <= hw PROVE j < i
      BY <1>1 DEF Applied
    <3>1. ~(i < j) /\ i # j
      BY <1>1, <1>4 DEF Sorted
    <3> QED BY <1>1, <3>1
  <2>3. a <= n
    <3> HIDE DEF n
    <3> QED BY <1>2, <2>1, <2>2, FS_Subset
  <2> QED BY <1>1, <1>3, <2>3
<1>5. /\ t \in Seq(Event)
      /\ DOMAIN t = 1..Len(s) - a
      /\ \A i \in 1..Len(s) - a : t[i] = s[a + i] /\ a + i \in 1..Len(s)
  <2> HIDE DEF a
  <2>1. /\ t \in Seq(Event)
        /\ DOMAIN t = 1..Len(s) - a
        /\ \A i \in 1..Len(s) - a : t[i] = s[a + i]
    BY <1>3, SubSeqOf
  <2> HIDE DEF t
  <2>2. \A i \in 1..Len(s) - a : a + i \in 1..Len(s)
    BY <1>1, <1>3
  <2> QED BY <2>1, <2>2
<1>6. /\ Sorted(t)
      /\ Range(t) \subseteq Range(s)
      /\ \A e \in Range(s) : e.seq > hw => e \in Range(t)
  <2> HIDE DEF a, t
  <2>1. Sorted(t)
    <3> SUFFICES ASSUME NEW i \in 1..Len(s) - a, NEW j \in 1..Len(s) - a, i < j
                 PROVE  t[i].seq < t[j].seq
      BY <1>5 DEF Sorted
    <3>1. a + i \in DOMAIN s /\ a + j \in DOMAIN s /\ a + i < a + j
      BY <1>1, <1>3, <1>5
    <3>2. s[a + i].seq < s[a + j].seq
      BY <3>1 DEF Sorted
    <3> QED BY <1>5, <3>2
  <2>2. Range(t) \subseteq Range(s)
    BY <1>1, <1>5 DEF Range
  <2>3. ASSUME NEW i \in 1..Len(s), s[i].seq > hw PROVE s[i] \in Range(t)
    <3>1. i - a \in 1..Len(s) - a /\ a + (i - a) = i
      BY <1>1, <1>3, <1>4, <2>3
    <3>2. i - a \in DOMAIN t /\ t[i - a] = s[i]
      BY <1>5, <3>1
    <3> QED BY <3>2 DEF Range
  <2> QED BY <1>1, <2>1, <2>2, <2>3 DEF Range
<1> HIDE DEF t
<1>7. CASE hw > SeqOrigin
  BY <1>5, <1>6, <1>7 DEF TrimToHighWater, t
<1>8. CASE ~(hw > SeqOrigin)
  BY <1>8 DEF TrimToHighWater
<1> QED BY <1>7, <1>8

\* Where the events of a worker are, and that they are events.
LEMMA InFlightIs ==
  ASSUME NEW w \in Worker
  PROVE  InFlight(w) = UNION {Range(up[c]) : c \in {d \in Conn : WorkerOf(d) = w}}
<1>1. \A k \in Socket : <<w, k>> \in Conn /\ WorkerOf(<<w, k>>) = w
  BY DEF Conn, WorkerOf
<1>2. \A c \in Conn : WorkerOf(c) = w => SocketOf(c) \in Socket /\ c = <<w, SocketOf(c)>>
  BY ConnType
<1> QED BY <1>1, <1>2 DEF InFlight

LEMMA EventsType ==
  ASSUME TypeOK
  PROVE  /\ \A c \in Conn : \A e \in Range(up[c]) : e \in Event /\ e.seq \in Nat
         /\ \A w \in Worker : \A e \in Kept(w) \cup InFlight(w) : e \in Event /\ e.seq \in Nat
         /\ \A w \in Worker : highWater[w] \in Int /\ highWater[w] >= -1 /\ seq[w] \in Nat
<1>1. \A s \in Seq(Event) : \A e \in Range(s) : e \in Event
  BY LenProperties DEF Range
<1>2. \A e \in Event : e.seq \in Nat
  BY DEF Event
<1>3. \A c \in Conn : \A e \in Range(up[c]) : e \in Event
  BY <1>1 DEF TypeOK, FabricTypeOK
<1>4. \A w \in Worker : \A e \in Kept(w) : e \in Event
  BY <1>1 DEF TypeOK, WorkerTypeOK, Kept
<1>5. \A w \in Worker : \A e \in InFlight(w) : e \in Event
  BY <1>3, InFlightIs
<1>6. \A w \in Worker : highWater[w] \in Int /\ highWater[w] >= -1 /\ seq[w] \in Nat
  BY DEF TypeOK, HubTypeOK, WorkerTypeOK, NoSeq
<1> QED BY <1>2, <1>3, <1>4, <1>5, <1>6

\* A step that only gives up events, sessions or what it has to replay.
Settles ==
    /\ UNCHANGED <<seq, jobrx, highWater>>
    /\ \A w \in Worker : outbox'[w] \in {outbox[w], <<>>}
    /\ dialled' \subseteq dialled /\ serving' \subseteq serving
    /\ \A c \in Conn :
         /\ up'[c] = IF c \in serving' THEN up[c] ELSE <<>>
         /\ AckFirst(down'[c])
         /\ AckWaits(down'[c]) => AckWaits(down[c])
         /\ c \in dialled' \cap serving' /\ AckWaits(down[c]) => AckWaits(down'[c])

LEMMA WireSettles ==
  ASSUME TypeOK, Wire, Settles, Over("crash")'
  PROVE  Wire'
<1> USE DEF Wire
<1>1. /\ \A c \in Conn : Range(up'[c]) \subseteq Range(up[c])
      /\ \A w \in Worker : Range(outbox'[w]) \subseteq Range(outbox[w])
      /\ \A s \in {<<>>} : Sorted(s)
  BY DEF Settles, Range, Sorted
<1>2. \A w \in Worker : Kept(w)' \subseteq Kept(w) /\ InFlight(w)' \subseteq InFlight(w)
  <2> SUFFICES ASSUME NEW w \in Worker
               PROVE  Kept(w)' \subseteq Kept(w) /\ InFlight(w)' \subseteq InFlight(w)
    OBVIOUS
  <2>1. Kept(w)' \subseteq Kept(w)
    BY <1>1 DEF Kept, Settles
  <2>2. InFlight(w)' \subseteq InFlight(w)
    BY <1>1 DEF InFlight, Conn
  <2> QED BY <2>1, <2>2
<1>3. Numbered'
  <2>1. \A w \in Worker : Sorted(outbox'[w]) /\ Sorted(jobrx'[w])
    BY <1>1 DEF Settles, Numbered
  <2>2. \A c \in Conn : Sorted(up'[c])
    BY <1>1 DEF Settles, Numbered
  <2>3. /\ jobrx' = jobrx /\ seq' = seq /\ highWater' = highWater
    BY DEF Settles
  <2> QED BY <1>1, <1>2, <2>1, <2>2, <2>3 DEF Numbered
<1>4. Sessions'
  BY DEF Settles, Sessions
<1>5. ASSUME NEW c \in Conn PROVE Replayed(c)'
  <2> DEFINE w == WorkerOf(c)
  <2>1. w \in Worker /\ w' = w
    BY ConnType
  <2>2. CASE c \notin serving'
    BY <2>2 DEF Settles, Replayed, Range
  <2>3. CASE c \in serving'
    <3>1. up'[c] = up[c] /\ c \in serving /\ highWater' = highWater
      BY <2>3 DEF Settles
    <3>2. Kept(w)' \subseteq Kept(w) /\ Range(outbox'[w]) \subseteq Range(outbox[w])
      BY <1>1, <1>2, <2>1
    <3>3. c \in dialled' /\ ~AckWaits(down'[c]) => c \in dialled /\ ~AckWaits(down[c])
      BY <2>3 DEF Settles
    <3>4. Replayed(c)
      OBVIOUS
    <3> QED BY <2>1, <3>1, <3>2, <3>3, <3>4 DEF Replayed
  <2> QED BY <2>2, <2>3
<1> QED BY <1>3, <1>4, <1>5

\* Acknowledgements come first: what is posted or read after them is none.
LEMMA AckAppend ==
  ASSUME NEW s \in Seq(Control), NEW m \in Control, m.type # "ack"
  PROVE  /\ AckWaits(Append(s, m)) <=> AckWaits(s)
         /\ AckFirst(s) => AckFirst(Append(s, m))
<1>1. /\ DOMAIN s = 1..Len(s) /\ Len(s) \in Nat /\ (s = <<>> <=> Len(s) = 0)
      /\ DOMAIN Append(s, m) = 1..Len(s) + 1
      /\ \A i \in 1..Len(s) : Append(s, m)[i] = s[i]
      /\ Append(s, m)[Len(s) + 1] = m
      /\ Append(s, m) # <<>>
  BY AppendProperties, LenProperties, EmptySeq
<1>2. \A t : Head(t) = t[1]
  OBVIOUS
<1>3. AckWaits(Append(s, m)) <=> AckWaits(s)
  BY <1>1, <1>2 DEF AckWaits
<1>4. AckFirst(s) => AckFirst(Append(s, m))
  BY <1>1 DEF AckFirst
<1> QED BY <1>3, <1>4

LEMMA AckTail ==
  ASSUME NEW s \in Seq(Control), s # <<>>, AckFirst(s)
  PROVE  ~AckWaits(Tail(s)) /\ AckFirst(Tail(s))
<1>1. /\ DOMAIN s = 1..Len(s) /\ Len(s) \in Nat /\ Len(s) >= 1
      /\ DOMAIN Tail(s) = 1..Len(s) - 1 /\ Tail(s) \in Seq(Control)
      /\ \A i \in 1..Len(s) - 1 : Tail(s)[i] = s[i + 1]
  BY HeadTailProperties, LenProperties, EmptySeq
<1>2. \A i \in 1..Len(s) - 1 : Tail(s)[i].type # "ack"
  BY <1>1 DEF AckFirst
<1>3. AckFirst(Tail(s))
  BY <1>1, <1>2 DEF AckFirst
<1>4. Tail(s) # <<>> => 1 \in 1..Len(s) - 1 /\ Head(Tail(s)) = Tail(s)[1]
  BY <1>1, EmptySeq, LenProperties
<1> QED BY <1>2, <1>3, <1>4 DEF AckWaits

LEMMA PumpAcks ==
  ASSUME NEW st, NEW wk, NEW cur, NEW gr, NEW lk, NEW sil, NEW dn \in [Conn -> Seq(Control)],
         Pump(st, wk, cur, gr, lk, sil, dn)
  PROVE  \A c \in Conn : /\ AckWaits(down'[c]) <=> AckWaits(dn[c])
                         /\ AckFirst(dn[c]) => AckFirst(down'[c])
<1>1. PICK f : HandsOut(f, st, wk, cur, lk, dn)
  BY PumpHandsOut
<1>2. \A r \in Run : AssignOf(r) \in Control /\ AssignOf(r).type # "ack"
  BY DEF AssignOf, Control, Command
<1>3. ASSUME NEW c \in Conn, NEW r \in DOMAIN f, down'[c] = Append(dn[c], AssignOf(r))
      PROVE  /\ AckWaits(down'[c]) <=> AckWaits(dn[c])
             /\ AckFirst(dn[c]) => AckFirst(down'[c])
  <2>1. r \in Run
    BY <1>1 DEF HandsOut
  <2> QED BY <1>2, <1>3, <2>1, AckAppend
<1> QED BY <1>1, <1>3 DEF HandsOut

LEMMA PostAcks ==
  ASSUME NEW dn \in [Conn -> Seq(Control)], NEW w \in Worker, NEW m \in Control, m.type # "ack",
         link \in [Worker -> Socket \cup {None}]
  PROVE  \A c \in Conn : /\ AckWaits(Post(dn, w, m)[c]) <=> AckWaits(dn[c])
                         /\ AckFirst(dn[c]) => AckFirst(Post(dn, w, m)[c])
<1> SUFFICES ASSUME NEW c \in Conn
             PROVE  /\ AckWaits(Post(dn, w, m)[c]) <=> AckWaits(dn[c])
                    /\ AckFirst(dn[c]) => AckFirst(Post(dn, w, m)[c])
  OBVIOUS
<1>1. Post(dn, w, m)[c] \in {dn[c], Append(dn[c], m)}
  BY DEF Post
<1> QED BY <1>1, AckAppend

\* A step of the hub that only posts.
LEMMA WirePosts ==
  ASSUME TypeOK, Wire, UNCHANGED <<workerVars, highWater, dialled, serving, up>>,
         \A c \in Conn : /\ AckWaits(down'[c]) <=> AckWaits(down[c])
                         /\ AckFirst(down[c]) => AckFirst(down'[c]),
         Over("crash")'
  PROVE  Wire'
<1>1. Settles
  BY DEF Settles, Wire, Sessions, workerVars, TypeOK, FabricTypeOK
<1> QED BY <1>1, WireSettles

LEMMA RequestWire ==
  ASSUME TypeOK, Wire, Request, UNCHANGED workerVars, Over("crash")'
  PROVE  Wire'
<1> USE DEF TypeOK, FabricTypeOK, HubTypeOK
<1>1. ASSUME UNCHANGED <<highWater, dialled, serving, up>>,
             NEW st, NEW wk, NEW cur, NEW gr, NEW lk, NEW sil, Pump(st, wk, cur, gr, lk, sil, down)
      PROVE  Wire'
  BY <1>1, PumpAcks, WirePosts
<1>2. ASSUME NEW S \in SUBSET Run, Create(S) PROVE Wire'
  BY <1>1, <1>2 DEF Create
<1>3. ASSUME NEW r \in Run, Submit(r) PROVE Wire'
  BY <1>2, <1>3 DEF Submit
<1>4. ASSUME NEW s \in Sweep, SubmitSweep(s) PROVE Wire'
  BY <1>2, <1>4 DEF SubmitSweep
<1>5. ASSUME NEW r \in Run, SignalCancel(r) PROVE Wire'
  <2>1. /\ CancelOf(r) \in Control /\ CancelOf(r).type # "ack"
        /\ rworker[r] \in Worker
    BY <1>5 DEF CancelOf, Control, Command, SignalCancel
  <2> QED BY <1>5, <2>1, PostAcks, WirePosts DEF SignalCancel, memoryVars
<1>6. ASSUME NEW r \in Run, CancelNow(r) PROVE Wire'
  BY <1>1, <1>6 DEF CancelNow
<1>7. ASSUME NEW r \in Run, ResumeRun(r) PROVE Wire'
  BY <1>1, <1>7 DEF ResumeRun
<1> QED BY <1>3, <1>4, <1>5, <1>6, <1>7 DEF Request, StopRun

LEMMA AttachWire ==
  ASSUME TypeOK, Wire, NEW c \in Conn, Attach(c), UNCHANGED workerVars, Over("crash")'
  PROVE  Wire'
<1> USE DEF TypeOK, FabricTypeOK, HubTypeOK, Wire
<1> DEFINE w == WorkerOf(c)
           hw == IF highWater[w] = NoSeq THEN SeqOrigin ELSE highWater[w]
           lk == [link EXCEPT ![w] = SocketOf(c)]
           dn == [down EXCEPT ![c] = <<AckOf(hw)>>]
<1>1. w \in Worker /\ hw \in Nat
  BY ConnType DEF NoSeq, SeqOrigin
<1>2. /\ <<AckOf(hw)>> \in Seq(Control) /\ AckWaits(<<AckOf(hw)>>) /\ AckFirst(<<AckOf(hw)>>)
  <2>1. AckOf(hw) \in Control /\ AckOf(hw).type = "ack"
    BY <1>1 DEF AckOf, Control, Ack
  <2> HIDE DEF hw
  <2> QED BY <2>1 DEF AckWaits, AckFirst
<1>3. /\ Pump(rstate, rworker, current, grants, lk, silent \ {w}, dn)
      /\ dn \in [Conn -> Seq(Control)]
      /\ AckWaits(dn[c]) /\ AckFirst(dn[c])
      /\ \A d \in Conn : d # c => dn[d] = down[d]
  BY <1>2 DEF Attach
<1>4. \A d \in Conn : /\ AckWaits(down'[d]) <=> AckWaits(dn[d])
                      /\ AckFirst(dn[d]) => AckFirst(down'[d])
  <2> HIDE DEF dn, lk
  <2> QED BY <1>3, PumpAcks
<1>5. /\ \A j \in Socket : <<w, j>> \notin dialled
      /\ c \notin serving
      /\ dialled' = dialled \cup {c} /\ serving' = serving \cup {c}
      /\ up' = up /\ highWater' = highWater /\ outbox' = outbox /\ jobrx' = jobrx /\ seq' = seq
  BY DEF Attach, workerVars
<1> HIDE DEF hw, lk, dn, w
<1>6. Numbered'
  <2>1. \A v \in Worker : Kept(v)' = Kept(v) /\ InFlight(v)' = InFlight(v)
    BY <1>5 DEF Kept, InFlight
  <2> QED BY <1>5, <2>1 DEF Numbered
<1>7. Sessions'
  <2>1. \A d \in dialled : WorkerOf(d) # WorkerOf(c)
    BY <1>5, ConnType DEF w
  <2>2. \A d, e \in dialled' : WorkerOf(d) = WorkerOf(e) => d = e
    BY <1>5, <2>1 DEF Sessions
  <2>3. \A d \in Conn : /\ d \notin serving' \/ AckWaits(down'[d]) => up'[d] = <<>>
                        /\ AckFirst(down'[d])
    BY <1>3, <1>4, <1>5 DEF Sessions
  <2> QED BY <2>2, <2>3 DEF Sessions
<1>8. ASSUME NEW d \in Conn PROVE Replayed(d)'
  <2>1. Replayed(d)
    OBVIOUS
  <2>2. CASE d = c
    BY <1>3, <1>4, <1>5, <2>1, <2>2 DEF Replayed, Kept
  <2>3. CASE d # c
    BY <1>3, <1>4, <1>5, <2>1, <2>3 DEF Replayed, Kept
  <2> QED BY <2>2, <2>3
<1> QED BY <1>6, <1>7, <1>8

LEMMA UnserveWire ==
  ASSUME TypeOK, Wire, NEW c \in Conn, Unserve(c), UNCHANGED workerVars, Over("crash")'
  PROVE  Wire'
<1> USE DEF TypeOK, FabricTypeOK, HubTypeOK, Wire
<1> DEFINE dn == IF c \in dialled THEN down ELSE [down EXCEPT ![c] = <<>>]
<1>1. /\ dn \in [Conn -> Seq(Control)]
      /\ \A d \in Conn : d # c \/ d \in dialled => dn[d] = down[d]
      /\ c \notin dialled => dn[c] = <<>>
  BY EmptySeq
<1>2. /\ Detach(WorkerOf(c), dn)
      /\ serving' = serving \ {c} /\ c \in serving
      /\ up' = [up EXCEPT ![c] = <<>>]
      /\ UNCHANGED dialled
  BY DEF Unserve
<1> HIDE DEF dn
<1>3. /\ \A d \in Conn : /\ AckWaits(down'[d]) <=> AckWaits(dn[d])
                         /\ AckFirst(dn[d]) => AckFirst(down'[d])
      /\ UNCHANGED highWater
  BY <1>1, <1>2, PumpAcks DEF Detach
<1>4. AckFirst(<<>>) /\ ~AckWaits(<<>>)
  BY DEF AckFirst, AckWaits
<1>5. Settles
  <2>1. UNCHANGED <<seq, jobrx, outbox, highWater>>
    BY <1>3 DEF workerVars
  <2>2. ASSUME NEW d \in Conn
        PROVE  /\ up'[d] = IF d \in serving' THEN up[d] ELSE <<>>
               /\ AckFirst(down'[d])
               /\ AckWaits(down'[d]) => AckWaits(down[d])
               /\ d \in dialled' \cap serving' /\ AckWaits(down[d]) => AckWaits(down'[d])
    <3>1. up'[d] = IF d \in serving' THEN up[d] ELSE <<>>
      BY <1>2 DEF Sessions
    <3>2. AckFirst(dn[d]) /\ (AckWaits(dn[d]) => AckWaits(down[d]))
      BY <1>1, <1>4 DEF Sessions
    <3>3. d \in dialled' /\ AckWaits(down[d]) => AckWaits(dn[d])
      BY <1>1, <1>2
    <3> QED BY <1>3, <3>1, <3>2, <3>3
  <2> QED BY <1>2, <2>1, <2>2 DEF Settles
<1> QED BY <1>5, WireSettles

\* What a message read does to the streams: it is the oldest its session carries.
LEMMA OnMessageReads ==
  ASSUME TypeOK, Numbered, NEW c \in Conn, OnMessage(c)
  PROVE  LET w == WorkerOf(c)
             e == Head(up[c])
         IN  /\ w \in Worker /\ e \in Event /\ e \in InFlight(w)
             /\ c \in serving
             /\ Range(up[c]) = {e} \cup Range(up'[c])
             /\ Sorted(up'[c]) /\ \A f \in Range(up'[c]) : e.seq < f.seq
             /\ \A d \in Conn : d # c => up'[d] = up[d]
             /\ highWater' = [highWater EXCEPT ![w] = IF e.seq <= @ THEN @ ELSE e.seq]
             /\ UNCHANGED <<connected, draining, link, dialled, serving, budget>>
<1> DEFINE w == WorkerOf(c)
           e == Head(up[c])
<1>1. up[c] \in Seq(Event) /\ up[c] # <<>> /\ up' = [up EXCEPT ![c] = Tail(@)]
  BY DEF TypeOK, FabricTypeOK, OnMessage
<1>2. w \in Worker /\ e \in Event
  BY <1>1, ConnType, HeadTailProperties
<1>3. Range(up[c]) = {e} \cup Range(Tail(up[c]))
  BY <1>1, RangeOfTail
<1>4. Sorted(Tail(up[c])) /\ \A f \in Range(Tail(up[c])) : e.seq < f.seq
  BY <1>1, SortedTail DEF Numbered
<1>5. up'[c] = Tail(up[c]) /\ \A d \in Conn : d # c => up'[d] = up[d]
  BY <1>1 DEF TypeOK, FabricTypeOK
<1>6. e \in InFlight(w)
  BY <1>2, <1>3, InFlightIs
<1>7. highWater' = [highWater EXCEPT ![w] = IF e.seq <= @ THEN @ ELSE e.seq]
  BY <1>2 DEF OnMessage, TypeOK, HubTypeOK
<1>8. UNCHANGED <<connected, draining, link, dialled, serving, budget>> /\ c \in serving
  BY DEF OnMessage
<1> QED BY <1>2, <1>3, <1>4, <1>5, <1>6, <1>7, <1>8

LEMMA OnMessageAcks ==
  ASSUME TypeOK, NEW c \in Conn, OnMessage(c)
  PROVE  \A d \in Conn : /\ AckWaits(down'[d]) <=> AckWaits(down[d])
                         /\ AckFirst(down[d]) => AckFirst(down'[d])
<1>1. down \in [Conn -> Seq(Control)]
  BY DEF TypeOK, FabricTypeOK
<1>2. down' = down \/ \E st, wk, cur, gr, sil : Pump(st, wk, cur, gr, link, sil, down)
  BY DEF OnMessage, JobStarted, FinishRun
<1> QED BY <1>1, <1>2, PumpAcks

LEMMA OnMessageWire ==
  ASSUME TypeOK, Wire, NEW c \in Conn, OnMessage(c), UNCHANGED workerVars, Over("crash")'
  PROVE  Wire'
<1> USE DEF Wire
<1> DEFINE w == WorkerOf(c)
           e == Head(up[c])
<1>1. /\ w \in Worker /\ e \in Event /\ e \in InFlight(w)
      /\ Range(up[c]) = {e} \cup Range(up'[c])
      /\ Sorted(up'[c])
      /\ \A d \in Conn : d # c => up'[d] = up[d]
      /\ highWater' = [highWater EXCEPT ![w] = IF e.seq <= @ THEN @ ELSE e.seq]
      /\ UNCHANGED <<dialled, serving>> /\ c \in serving
  BY OnMessageReads
<1> HIDE DEF e
<1>2. \A d \in Conn : /\ AckWaits(down'[d]) <=> AckWaits(down[d])
                      /\ AckFirst(down[d]) => AckFirst(down'[d])
  BY OnMessageAcks
<1>3. outbox' = outbox /\ jobrx' = jobrx /\ seq' = seq /\ \A v \in Worker : Kept(v)' = Kept(v)
  BY DEF workerVars, Kept
<1>4. \A d \in Conn : Range(up'[d]) \subseteq Range(up[d])
  BY <1>1
<1>5. \A v \in Worker : InFlight(v)' \subseteq InFlight(v)
  BY <1>4 DEF InFlight, Conn
<1>6. \A v \in Worker : /\ highWater'[v] >= highWater[v]
                        /\ highWater'[v] \in {highWater[v], e.seq} /\ highWater'[v] \in Int
                        /\ v = w => highWater'[v] >= e.seq
                        /\ v # w => highWater'[v] = highWater[v]
  BY <1>1, EventsType DEF TypeOK, HubTypeOK
<1>7. Numbered'
  <2>1. \A v \in Worker : highWater'[v] < seq'[v]
    BY <1>1, <1>3, <1>6 DEF Numbered
  <2>2. \A d \in Conn : Sorted(up'[d])
    BY <1>1 DEF Numbered
  <2> QED BY <1>3, <1>5, <2>1, <2>2 DEF Numbered
<1>8. Sessions'
  <2>1. \A d \in Conn : up[d] = <<>> => up'[d] = <<>>
    BY <1>1 DEF OnMessage
  <2> QED BY <1>1, <1>2, <2>1 DEF Sessions
<1>9. ASSUME NEW d \in Conn PROVE Replayed(d)'
  <2> DEFINE v == WorkerOf(d)
  <2>1. v \in Worker /\ Replayed(d)
    BY ConnType
  <2>2. ASSUME NEW f \in Kept(v), highWater'[v] < f.seq, f \in Range(up[d])
        PROVE  f \in Range(up'[d])
    <3>1. CASE d # c
      BY <1>1, <2>2, <3>1
    <3>2. CASE d = c
      <4>1. e.seq <= highWater'[v] /\ e.seq \in Int /\ f.seq \in Int
        BY <1>1, <1>6, <2>1, <3>2, EventsType
      <4>2. f # e
        BY <1>6, <2>1, <2>2, <4>1
      <4> QED BY <1>1, <2>2, <3>2, <4>2
    <3> QED BY <3>1, <3>2
  <2>3. \A f \in Kept(v) : f.seq \in Int /\ (highWater'[v] < f.seq => highWater[v] < f.seq)
    BY <1>6, <2>1, EventsType
  <2>4. Range(outbox[v]) \subseteq Kept(v) /\ Range(up'[d]) \subseteq Range(up[d])
    BY <1>4 DEF Kept
  <2> QED BY <1>1, <1>2, <1>3, <2>1, <2>2, <2>3, <2>4 DEF Replayed
<1> QED BY <1>7, <1>8, <1>9, <1>3

LEMMA RestartWire ==
  ASSUME TypeOK, Wire, Restart, UNCHANGED workerVars, Over("crash")'
  PROVE  Wire'
<1> USE DEF Wire
<1>1. /\ highWater' = [w \in Worker |-> NoSeq] /\ serving' = {} /\ dialled' = dialled
      /\ up' = [c \in Conn |-> <<>>]
      /\ outbox' = outbox /\ jobrx' = jobrx /\ seq' = seq
      /\ \A c \in Conn : down'[c] \in {down[c], <<>>}
  BY DEF Restart, workerVars
<1>2. /\ \A w \in Worker : Kept(w)' = Kept(w) /\ InFlight(w)' = {}
      /\ \A c \in Conn : Range(up'[c]) = {}
      /\ Sorted(<<>>) /\ AckFirst(<<>>)
  <2>1. Range(<<>>) = {} /\ Sorted(<<>>) /\ AckFirst(<<>>)
    BY DEF Range, Sorted, AckFirst
  <2>2. \A c \in Conn : Range(up'[c]) = {}
    BY <1>1, <2>1
  <2>3. \A w \in Worker : Kept(w)' = Kept(w)
    BY <1>1 DEF Kept
  <2>4. \A w \in Worker : InFlight(w)' = {}
    <3>1. \A w \in Worker, k \in Socket : Range(up'[<<w, k>>]) = {}
      BY <2>2 DEF Conn
    <3> QED BY <3>1 DEF InFlight
  <2> QED BY <2>1, <2>2, <2>3, <2>4
<1>3. Numbered'
  <2>1. \A w \in Worker : highWater'[w] < seq'[w]
    BY <1>1, EventsType DEF NoSeq
  <2> QED BY <1>1, <1>2, <2>1 DEF Numbered
<1>4. Sessions'
  BY <1>1, <1>2 DEF Sessions
<1>5. \A c \in Conn : Replayed(c)'
  BY <1>1, <1>2 DEF Replayed
<1> QED BY <1>3, <1>4, <1>5

LEMMA HubStepWire ==
  ASSUME TypeOK, Wire, HubStep, UNCHANGED workerVars, Over("crash")'
  PROVE  Wire'
<1>1. down \in [Conn -> Seq(Control)] /\ link \in [Worker -> Socket \cup {None}]
  BY DEF TypeOK, FabricTypeOK, HubTypeOK
<1>2. ASSUME NEW c \in Conn, Attach(c) PROVE Wire'
  BY <1>2, AttachWire
<1>3. ASSUME NEW c \in Conn, Unserve(c) PROVE Wire'
  BY <1>3, UnserveWire
<1>4. ASSUME NEW c \in Conn, Heartbeat(c) PROVE Wire'
  BY <1>4, WirePosts DEF Heartbeat, memoryVars, fabricVars
<1>5. ASSUME NEW c \in Conn, OnMessage(c) PROVE Wire'
  BY <1>5, OnMessageWire
<1>6. ASSUME NEW w \in Worker, Lapse(w) PROVE Wire'
  BY <1>6, WirePosts DEF Lapse, memoryVars
<1>7. ASSUME NEW w \in Worker, ReapStale(w) PROVE Wire'
  BY <1>1, <1>7, PumpAcks, WirePosts DEF ReapStale, Detach
<1>8. ASSUME NEW w \in Worker, DrainLease(w) PROVE Wire'
  <2>1. DrainMsg \in Control /\ DrainMsg.type # "ack"
    BY DEF DrainMsg, Control, Drain
  <2> QED BY <1>1, <1>8, <2>1, PostAcks, WirePosts DEF DrainLease, memoryVars
<1>9. ASSUME NEW w \in Worker, ExtendLease(w) PROVE Wire'
  BY <1>9, WirePosts DEF ExtendLease, memoryVars
<1>10. ASSUME NEW S \in SUBSET Run, StuckAssignments(S) PROVE Wire'
  BY <1>1, <1>10, PumpAcks, WirePosts DEF StuckAssignments, ReapStuck
<1> QED BY <1>2, <1>3, <1>4, <1>5, <1>6, <1>7, <1>8, <1>9, <1>10, RestartWire
        DEF HubStep, SessionEnd, SessionLost

\* The worker's side.
LEMMA EmitWire ==
  ASSUME TypeOK, Wire, NEW w \in Worker, NEW r \in Run, NEW kind \in EventKind,
         Emit(w, r, kind),
         UNCHANGED <<outbox, highWater, dialled, serving, up>>,
         \A c \in Conn : /\ AckWaits(down'[c]) <=> AckWaits(down[c])
                         /\ AckFirst(down'[c]),
         Over("crash")'
  PROVE  Wire'
<1> USE DEF Wire
<1> DEFINE new == Stamp(w, r, kind)
<1>1. /\ jobrx \in [Worker -> Seq(Event)] /\ new \in Event /\ new.seq = seq[w]
      /\ seq \in [Worker -> Nat]
  BY DEF TypeOK, WorkerTypeOK, Stamp, Event
<1>2. /\ jobrx'[w] = Append(jobrx[w], new)
      /\ \A v \in Worker : v # w => jobrx'[v] = jobrx[v]
      /\ \A v \in Worker : seq'[v] = IF v = w THEN seq[v] + 1 ELSE seq[v]
  BY <1>1 DEF Emit
<1> HIDE DEF new
<1>3. Range(jobrx'[w]) = Range(jobrx[w]) \cup {new}
  BY <1>1, <1>2, RangeOfAppend
<1>4. /\ \A v \in Worker : InFlight(v)' = InFlight(v)
      /\ \A v \in Worker : Kept(v)' = IF v = w THEN Kept(v) \cup {new} ELSE Kept(v)
      /\ UNCHANGED <<outbox, highWater, dialled, serving, up>>
  BY <1>2, <1>3 DEF InFlight, Kept
<1>5. /\ \A v \in Worker : \A e \in Kept(v) \cup InFlight(v) : e.seq < seq[v] /\ e.seq \in Nat
      /\ \A v \in Worker : seq[v] \in Nat /\ highWater[v] \in Int
  BY EventsType DEF Numbered
<1>6. Numbered'
  <2>1. \A v \in Worker : Sorted(jobrx'[v])
    <3>1. Sorted(jobrx'[w])
      <4>1. \A e \in Range(jobrx[w]) : e.seq < new.seq
        BY <1>1, <1>5 DEF Kept
      <4> QED BY <1>1, <1>2, <4>1, SortedAppend DEF Numbered
    <3> QED BY <1>2, <3>1 DEF Numbered
  <2>2. \A v \in Worker : \A e \in Range(outbox[v]) \cup InFlight(v), f \in Range(jobrx'[v]) :
          e.seq < f.seq
    <3>1. \A e \in Range(outbox[w]) \cup InFlight(w) : e.seq < new.seq
      BY <1>1, <1>5 DEF Kept
    <3> QED BY <1>2, <1>3, <3>1 DEF Numbered
  <2>3. ASSUME NEW v \in Worker, NEW e \in Kept(v)' \cup InFlight(v)'
        PROVE  /\ e.seq < seq'[v]
               /\ \A f \in Kept(v)' \cup InFlight(v)' : e.seq = f.seq => e = f
    <3>1. CASE v # w
      BY <1>2, <1>4, <2>3, <3>1 DEF Numbered
    <3>2. CASE v = w
      <4>1. seq'[w] = seq[w] + 1
        BY <1>2
      <4>2. Kept(w)' \cup InFlight(w)' = (Kept(w) \cup InFlight(w)) \cup {new}
        BY <1>4
      <4>3. \A f \in Kept(w) \cup InFlight(w) : f.seq < new.seq /\ f.seq \in Nat
        BY <1>1, <1>5
      <4>4. \A f, g \in Kept(w) \cup InFlight(w) : f.seq = g.seq => f = g
        BY DEF Numbered
      <4> QED BY <1>1, <2>3, <3>2, <4>1, <4>2, <4>3, <4>4
    <3> QED BY <3>1, <3>2
  <2>4. \A v \in Worker : highWater'[v] < seq'[v]
    BY <1>2, <1>4, <1>5 DEF Numbered
  <2> QED BY <1>4, <2>1, <2>2, <2>3, <2>4 DEF Numbered
<1>7. Sessions'
  BY <1>4 DEF Sessions
<1>8. ASSUME NEW c \in Conn PROVE Replayed(c)'
  <2> DEFINE v == WorkerOf(c)
  <2>1. v \in Worker /\ Replayed(c)
    BY ConnType
  <2>2. Range(up[c]) \subseteq InFlight(v)
    BY <2>1, InFlightIs
  <2>3. \A f \in Range(up[c]), e \in Kept(v)' : e.seq < f.seq => e \in Kept(v)
    <3>1. \A f \in Range(up[c]) : f.seq < seq[v] /\ f.seq \in Nat
      BY <1>5, <2>1, <2>2
    <3>2. \A e \in Kept(v)' : e \in Kept(v) \/ (e = new /\ v = w)
      BY <1>4, <2>1
    <3> QED BY <1>1, <3>1, <3>2
  <2> HIDE DEF v
  <2>4. /\ \A e \in Range(outbox[v]) : e.seq > highWater[v] /\ c \in dialled \cap serving
              /\ ~AckWaits(down[c]) => e \in Range(up[c])
        /\ \A f \in Range(up[c]), e \in Kept(v) :
             highWater[v] < e.seq /\ e.seq < f.seq => e \in Range(up[c])
    BY <2>1 DEF Replayed, v
  <2> QED BY <1>4, <2>3, <2>4 DEF Replayed, v
<1> QED BY <1>6, <1>7, <1>8

LEMMA ArrivesAcks ==
  ASSUME TypeOK, Sessions, NEW c \in Conn, NEW type, Arrives(c, type)
  PROVE  /\ c \in dialled
         /\ \A d \in Conn : d # c => down'[d] = down[d]
         /\ \A d \in Conn : AckFirst(down'[d])
         /\ ~AckWaits(down'[c])
         /\ AckWaits(down[c]) <=> type = "ack"
<1>1. /\ down[c] \in Seq(Control) /\ down[c] # <<>> /\ AckFirst(down[c])
      /\ Head(down[c]).type = type /\ c \in dialled
      /\ down'[c] = Tail(down[c])
      /\ \A d \in Conn : d # c => down'[d] = down[d]
  BY DEF TypeOK, FabricTypeOK, Sessions, Arrives
<1>2. ~AckWaits(Tail(down[c])) /\ AckFirst(Tail(down[c]))
  BY <1>1, AckTail
<1> QED BY <1>1, <1>2 DEF AckWaits, Sessions

\* A step of the worker that sends on some of what it keeps.
LEMMA WireSends ==
  ASSUME TypeOK, Wire, NEW c \in Conn, NEW s \in Seq(Event), Send(c, s),
         UNCHANGED <<seq, highWater, dialled, serving>>,
         c \in dialled, ~AckWaits(down'[c]), Sorted(s),
         \A d \in Conn : AckFirst(down'[d]) /\ (d # c => down'[d] = down[d]),
         LET w == WorkerOf(c)
         IN  /\ outbox'[w] \in Seq(Event) /\ Sorted(outbox'[w]) /\ Sorted(jobrx'[w])
             /\ \A e \in Range(outbox'[w]), f \in Range(jobrx'[w]) : e.seq < f.seq
             /\ Range(jobrx'[w]) \subseteq Range(jobrx[w])
             /\ Range(outbox'[w]) \subseteq Kept(w)
             /\ Range(s) \subseteq Range(outbox'[w])
             /\ \A e \in Range(s), f \in Range(jobrx'[w]) : e.seq < f.seq
             /\ \A e \in Range(up[c]), f \in Range(s) : e.seq < f.seq
             \* what it has not sent is what it resends, or stays behind
             /\ \A e \in Kept(w)' : \/ e \in Range(s)
                                    \/ \A f \in Range(s) : f.seq < e.seq
                                    \/ /\ ~AckWaits(down[c]) /\ e \in Range(outbox[w])
             /\ \A e \in Range(outbox'[w]) : e \in Range(s) \/
                                             (~AckWaits(down[c]) /\ e \in Range(outbox[w]))
             /\ \A v \in Worker : v # w => outbox'[v] = outbox[v] /\ jobrx'[v] = jobrx[v],
         Over("crash")'
  PROVE  Wire'
<1> USE DEF Wire
<1> DEFINE w == WorkerOf(c)
<1>1. w \in Worker /\ up \in [Conn -> Seq(Event)]
  BY ConnType DEF TypeOK, FabricTypeOK
<1>2. /\ \A d \in Conn : d # c \/ d \notin serving => up'[d] = up[d]
      /\ c \in serving => /\ up'[c] = up[c] \o s
                          /\ Range(up'[c]) = Range(up[c]) \cup Range(s)
  <2>1. up[c] \in Seq(Event)
    BY <1>1
  <2> QED BY <1>1, <2>1, RangeOfConcat DEF Send
<1>3. /\ \A v \in Worker : Kept(v)' \subseteq Kept(v)
      /\ \A v \in Worker : v # w => Kept(v)' = Kept(v)
  BY DEF Kept
<1>4. /\ \A d \in Conn : Range(up'[d]) \subseteq Range(up[d]) \cup Kept(WorkerOf(d))
      /\ Range(s) \subseteq Kept(w)
  BY <1>2
<1>5. \A v \in Worker : InFlight(v)' \subseteq InFlight(v) \cup Kept(v)
  <2> SUFFICES ASSUME NEW v \in Worker, NEW k \in Socket, NEW e \in Range(up'[<<v, k>>])
               PROVE  e \in InFlight(v) \cup Kept(v)
    BY DEF InFlight
  <2>1. <<v, k>> \in Conn /\ WorkerOf(<<v, k>>) = v
    BY DEF Conn, WorkerOf
  <2> QED BY <1>4, <2>1 DEF InFlight
<1>6. /\ \A v \in Worker : \A e \in Kept(v) \cup InFlight(v) : e.seq \in Nat
      /\ \A v \in Worker : seq[v] \in Nat /\ highWater[v] \in Int
  BY EventsType
<1>7. Numbered'
  <2>1. \A v \in Worker : Sorted(outbox'[v]) /\ Sorted(jobrx'[v])
    BY DEF Numbered
  <2>2. \A d \in Conn : Sorted(up'[d])
    <3>1. c \in serving => Sorted(up[c] \o s)
      BY <1>1, SortedConcat DEF Numbered
    <3> QED BY <1>2, <3>1 DEF Numbered
  <2>3. ASSUME NEW v \in Worker, NEW e \in Range(outbox'[v]) \cup InFlight(v)',
               NEW f \in Range(jobrx'[v])
        PROVE  e.seq < f.seq
    <3>1. Range(jobrx'[v]) \subseteq Range(jobrx[v])
      OBVIOUS
    <3>2. CASE e \in Range(outbox'[v])
      BY <3>2 DEF Numbered
    <3>3. CASE e \in InFlight(v)
      BY <3>1, <3>3 DEF Numbered
    <3>4. CASE e \in InFlight(v)' /\ e \notin InFlight(v)
      <4>1. PICK k \in Socket : e \in Range(up'[<<v, k>>])
        BY <3>4 DEF InFlight
      <4>2. e \notin Range(up[<<v, k>>]) /\ <<v, k>> \in Conn
        BY <3>4 DEF InFlight, Conn
      <4>3. <<v, k>> = c /\ e \in Range(s)
        BY <1>2, <4>1, <4>2
      <4>4. v = w
        BY <4>3 DEF WorkerOf
      <4> QED BY <4>3, <4>4
    <3> QED BY <2>3, <3>2, <3>3, <3>4
  <2>4. \A v \in Worker : Kept(v)' \cup InFlight(v)' \subseteq Kept(v) \cup InFlight(v)
    BY <1>3, <1>5
  <2> QED BY <2>1, <2>2, <2>3, <2>4 DEF Numbered
<1>8. Sessions'
  BY <1>2 DEF Sessions
<1>9. ASSUME NEW d \in Conn PROVE Replayed(d)'
  <2> DEFINE v == WorkerOf(d)
  <2>1. v \in Worker /\ Replayed(d) /\ Replayed(c)
    BY ConnType
  <2>2. CASE v # w
    <3>1. d # c
      BY <2>2
    <3>2. Kept(v)' = Kept(v) /\ outbox'[v] = outbox[v]
      BY <1>3, <2>1, <2>2
    <3> QED BY <1>2, <2>1, <3>1, <3>2 DEF Replayed
  <2>3. CASE v = w /\ d # c
    <3>1. d \notin dialled
      BY <2>3 DEF Sessions
    <3> QED BY <1>2, <1>3, <2>1, <2>3, <3>1 DEF Replayed
  <2>4. CASE d = c /\ c \notin serving
    BY <1>2, <1>3, <2>1, <2>4 DEF Replayed
  <2>5. CASE d = c /\ c \in serving
    <3>1. ~AckWaits(down[c]) => \A e \in Range(outbox[w]) :
                                  e.seq > highWater[w] => e \in Range(up[c])
      BY <2>1, <2>5 DEF Replayed
    <3>2. \A e \in Range(outbox'[w]) : e.seq > highWater[w] => e \in Range(up'[c])
      BY <1>2, <2>5, <3>1
    <3>3. ASSUME NEW f \in Range(up'[c]), NEW e \in Kept(w)', highWater[w] < e.seq, e.seq < f.seq
          PROVE  e \in Range(up'[c])
      <4>1. CASE f \in Range(up[c])
        BY <1>1, <1>2, <1>3, <2>1, <2>5, <3>3, <4>1 DEF Replayed
      <4>2. CASE f \in Range(s)
        <5>1. ~(f.seq < e.seq)
          BY <1>1, <1>3, <1>4, <1>6, <3>3, <4>2
        <5>2. e \in Range(s) \/ (~AckWaits(down[c]) /\ e \in Range(outbox[w]))
          BY <4>2, <5>1
        <5>3. e.seq > highWater[w]
          BY <1>1, <1>3, <1>6, <3>3
        <5> QED BY <1>2, <2>5, <3>1, <5>2, <5>3
      <4> QED BY <1>2, <2>5, <3>3, <4>1, <4>2
    <3> QED BY <2>5, <3>2, <3>3 DEF Replayed
  <2> QED BY <2>2, <2>3, <2>4, <2>5
<1> QED BY <1>7, <1>8, <1>9

\* What a worker keeps when the acknowledgement arrives is what it resends.
LEMMA HelloAckKeeps ==
  ASSUME TypeOK, Wire, NEW c \in Conn, HelloAck(c)
  PROVE  LET w == WorkerOf(c)
             kept == TrimToHighWater(outbox[w] \o jobrx[w], Head(down[c]).highWater)
         IN  /\ w \in Worker /\ kept \in Seq(Event) /\ Sorted(kept)
             /\ Range(kept) \subseteq Kept(w)
             /\ Head(down[c]).highWater \in Nat
             /\ \A e \in Kept(w) : e.seq > Head(down[c]).highWater => e \in Range(kept)
             /\ outbox' = [outbox EXCEPT ![w] = kept] /\ jobrx' = [jobrx EXCEPT ![w] = <<>>]
             /\ Send(c, kept)
<1> DEFINE w == WorkerOf(c)
           hw == Head(down[c]).highWater
           all == outbox[w] \o jobrx[w]
<1>1. w \in Worker /\ outbox[w] \in Seq(Event) /\ jobrx[w] \in Seq(Event)
  BY ConnType DEF TypeOK, WorkerTypeOK
<1>2. hw \in Nat
  <2>1. Head(down[c]) \in Control /\ Head(down[c]).type = "ack"
    BY ArrivesType DEF TypeOK, FabricTypeOK, HelloAck
  <2> QED BY <2>1 DEF Control, Ack, Command, Drain
<1>3. all \in Seq(Event) /\ Range(all) = Kept(w)
  BY <1>1, ConcatProperties, RangeOfConcat DEF Kept
<1>4. Sorted(all)
  BY <1>1, SortedConcat DEF Wire, Numbered
<1>5. /\ outbox' = [outbox EXCEPT ![w] = TrimToHighWater(all, hw)]
      /\ jobrx' = [jobrx EXCEPT ![w] = <<>>]
      /\ Send(c, TrimToHighWater(all, hw))
  BY DEF HelloAck
<1> HIDE DEF all, hw
<1>6. LET kept == TrimToHighWater(all, hw)
      IN  /\ kept \in Seq(Event) /\ Sorted(kept) /\ Range(kept) \subseteq Kept(w)
          /\ \A e \in Kept(w) : e.seq > hw => e \in Range(kept)
  BY <1>2, <1>3, <1>4, Trimmed
<1> QED BY <1>1, <1>2, <1>5, <1>6 DEF all, hw

LEMMA HelloAckWire ==
  ASSUME TypeOK, Wire, NEW c \in Conn, HelloAck(c), UNCHANGED hubVars, Over("crash")'
  PROVE  Wire'
<1> DEFINE w == WorkerOf(c)
           kept == TrimToHighWater(outbox[w] \o jobrx[w], Head(down[c]).highWater)
<1>1. /\ w \in Worker /\ kept \in Seq(Event) /\ Sorted(kept) /\ Range(kept) \subseteq Kept(w)
      /\ outbox' = [outbox EXCEPT ![w] = kept] /\ jobrx' = [jobrx EXCEPT ![w] = <<>>]
      /\ Send(c, kept)
  BY HelloAckKeeps
<1> HIDE DEF kept
<1>2. /\ c \in dialled /\ ~AckWaits(down'[c]) /\ AckWaits(down[c])
      /\ \A d \in Conn : AckFirst(down'[d]) /\ (d # c => down'[d] = down[d])
  BY ArrivesAcks DEF HelloAck, Wire
<1>3. /\ outbox'[w] = kept /\ jobrx'[w] = <<>>
      /\ \A v \in Worker : v # w => outbox'[v] = outbox[v] /\ jobrx'[v] = jobrx[v]
  BY <1>1 DEF TypeOK, WorkerTypeOK
<1>4. Range(<<>>) = {} /\ Sorted(<<>>) /\ up[c] = <<>>
  BY <1>2 DEF Range, Sorted, Wire, Sessions
<1>5. UNCHANGED <<seq, highWater, dialled, serving>>
  BY DEF HelloAck, hubVars, memoryVars
<1>6. Kept(w)' = Range(kept)
  BY <1>3, <1>4 DEF Kept
<1> QED BY <1>1, <1>2, <1>3, <1>4, <1>5, <1>6, WireSends

LEMMA ForwardWire ==
  ASSUME TypeOK, Wire, NEW c \in Conn, Forward(c), UNCHANGED hubVars, Over("crash")'
  PROVE  Wire'
<1> DEFINE w == WorkerOf(c)
           h == Head(jobrx[w])
<1>1. /\ w \in Worker /\ outbox[w] \in Seq(Event) /\ jobrx[w] \in Seq(Event)
      /\ jobrx[w] # <<>> /\ h \in Event /\ Tail(jobrx[w]) \in Seq(Event)
  BY ConnType, HeadTailProperties DEF TypeOK, WorkerTypeOK, Forward
<1>2. /\ Range(jobrx[w]) = {h} \cup Range(Tail(jobrx[w]))
      /\ Sorted(Tail(jobrx[w])) /\ \A e \in Range(Tail(jobrx[w])) : h.seq < e.seq
  BY <1>1, RangeOfTail, SortedTail DEF Wire, Numbered
<1>3. /\ outbox' = [outbox EXCEPT ![w] = Append(@, h)]
      /\ jobrx' = [jobrx EXCEPT ![w] = Tail(@)]
      /\ Send(c, <<h>>)
      /\ c \in dialled /\ ~AckWaits(down[c])
      /\ UNCHANGED <<seq, highWater, dialled, serving, down>>
  BY DEF Forward, InSession, AckWaits, hubVars, memoryVars
<1> HIDE DEF h
<1>4. /\ outbox'[w] = Append(outbox[w], h) /\ jobrx'[w] = Tail(jobrx[w])
      /\ \A v \in Worker : v # w => outbox'[v] = outbox[v] /\ jobrx'[v] = jobrx[v]
  BY <1>1, <1>3 DEF TypeOK, WorkerTypeOK
<1>5. /\ <<h>> \in Seq(Event) /\ Sorted(<<h>>) /\ Range(<<h>>) = {h}
      /\ outbox'[w] \in Seq(Event) /\ Range(outbox'[w]) = Range(outbox[w]) \cup {h}
  BY <1>1, <1>4, AppendProperties, RangeOfAppend DEF Sorted, Range
<1>6. \A e \in Range(outbox[w]) \cup InFlight(w), f \in Range(jobrx[w]) : e.seq < f.seq
  BY <1>1 DEF Wire, Numbered
<1>7. Sorted(outbox'[w])
  BY <1>1, <1>2, <1>4, <1>6, SortedAppend DEF Wire, Numbered
<1>8. /\ \A e \in Range(outbox'[w]), f \in Range(jobrx'[w]) : e.seq < f.seq
      /\ Range(jobrx'[w]) \subseteq Range(jobrx[w])
      /\ Range(outbox'[w]) \subseteq Kept(w)
      /\ Kept(w)' = Range(outbox[w]) \cup {h} \cup Range(Tail(jobrx[w]))
  BY <1>2, <1>4, <1>5, <1>6 DEF Kept
<1>9. \A e \in Range(up[c]) : e.seq < h.seq
  <2>1. Range(up[c]) \subseteq InFlight(w)
    BY <1>1, InFlightIs
  <2> QED BY <1>2, <1>6, <2>1
<1>10. \A d \in Conn : AckFirst(down'[d]) /\ down'[d] = down[d]
  BY <1>3 DEF Wire, Sessions
<1> QED BY <1>1, <1>2, <1>3, <1>4, <1>5, <1>7, <1>8, <1>9, <1>10, WireSends

LEMMA WorkerStepWire ==
  ASSUME TypeOK, Wire, WorkerStep, UNCHANGED hubVars, ~Spend("crash"), Over("crash")'
  PROVE  Wire'
<1> USE DEF Wire
<1>1. UNCHANGED highWater
  BY DEF hubVars, memoryVars
<1>2. \A w \in Worker : jobrx[w] \in Seq(Event) /\ slot[w] \in Job \cup {None}
  BY DEF TypeOK, WorkerTypeOK
<1>3. AckFirst(<<>>) /\ ~AckWaits(<<>>)
  BY DEF AckFirst, AckWaits
<1>4. ASSUME NEW c \in Conn, NEW type, type # "ack", Arrives(c, type)
      PROVE  \A d \in Conn : /\ AckWaits(down'[d]) <=> AckWaits(down[d])
                             /\ AckFirst(down'[d])
  BY <1>4, ArrivesAcks
<1>5. ASSUME NEW c \in Conn, AssignJob(c) PROVE Wire'
  <2>1. Settles
    BY <1>1, <1>4, <1>5 DEF Settles, AssignJob, Sessions, TypeOK, WorkerTypeOK
  <2> QED BY <2>1, WireSettles
<1>6. ASSUME NEW c \in Conn, Cancel(c) PROVE Wire'
  <2> DEFINE w == WorkerOf(c)
             killed == IF slot[w] = None THEN Head(down[c]).run ELSE slot[w].run
  <2>1. w \in Worker /\ killed \in Run
    <3>1. Head(down[c]) \in Control /\ Head(down[c]).type = "cancel"
      BY <1>6, ArrivesType DEF Cancel, TypeOK, FabricTypeOK
    <3> QED BY <1>2, <3>1, ConnType DEF Control, Ack, Command, Drain, Job
  <2>2. /\ Emit(w, killed, "killed_cancel") /\ "killed_cancel" \in EventKind
        /\ UNCHANGED <<outbox, highWater, dialled, serving, up>>
    BY <1>1, <1>6 DEF Cancel, EventKind
  <2>3. \A d \in Conn : /\ AckWaits(down'[d]) <=> AckWaits(down[d])
                        /\ AckFirst(down'[d])
    BY <1>4, <1>6 DEF Cancel
  <2> HIDE DEF killed
  <2> QED BY <2>1, <2>2, <2>3, EmitWire
<1>7. ASSUME NEW c \in Conn, DrainRequest(c) PROVE Wire'
  <2>1. Settles
    BY <1>1, <1>4, <1>7 DEF Settles, DrainRequest, Sessions
  <2> QED BY <2>1, WireSettles
<1>8. ASSUME NEW c \in Conn, SelfDrain(c) PROVE Wire'
  <2>1. Settles
    BY <1>1, <1>8 DEF Settles, SelfDrain, Sessions, fabricVars
  <2> QED BY <2>1, WireSettles
<1>9. ASSUME NEW c \in Conn, EndSession(c) PROVE Wire'
  <2>1. \A d \in Conn : /\ AckFirst(down'[d])
                        /\ AckWaits(down'[d]) => AckWaits(down[d])
                        /\ d \in dialled' /\ AckWaits(down[d]) => AckWaits(down'[d])
    BY <1>3, <1>9 DEF EndSession, Sessions, TypeOK, FabricTypeOK
  <2>2. Settles
    BY <1>1, <1>9, <2>1 DEF Settles, EndSession, Sessions
  <2> QED BY <2>2, WireSettles
<1>10. ASSUME NEW w \in Worker, ExecutorStart(w) PROVE Wire'
  <2>1. slot[w].run \in Run /\ Emit(w, slot[w].run, "started") /\ "started" \in EventKind
    BY <1>2, <1>10 DEF ExecutorStart, Job, EventKind
  <2>2. \A d \in Conn : /\ AckWaits(down'[d]) <=> AckWaits(down[d])
                        /\ AckFirst(down'[d])
    BY <1>10 DEF ExecutorStart, fabricVars, Sessions
  <2> QED BY <1>1, <1>10, <2>1, <2>2, EmitWire DEF ExecutorStart, fabricVars
<1>11. ASSUME NEW w \in Worker, ExecutorEnd(w) PROVE Wire'
  <2>1. slot[w].run \in Run
    BY <1>2, <1>11 DEF ExecutorEnd, Job
  <2>2. PICK kind \in ExitKind : Emit(w, slot[w].run, kind)
    BY <1>11 DEF ExecutorEnd
  <2>3. kind \in EventKind
    BY ExitAssumption DEF EventKind
  <2>4. \A d \in Conn : /\ AckWaits(down'[d]) <=> AckWaits(down[d])
                        /\ AckFirst(down'[d])
    BY <1>11 DEF ExecutorEnd, Sessions
  <2> QED BY <1>1, <1>11, <2>1, <2>2, <2>3, <2>4, EmitWire DEF ExecutorEnd
<1>12. ASSUME NEW w \in Worker, ExecutorFinish(w) PROVE Wire'
  <2>1. Settles
    BY <1>1, <1>12 DEF Settles, ExecutorFinish, Sessions, fabricVars
  <2> QED BY <2>1, WireSettles
<1> QED BY <1>5, <1>6, <1>7, <1>8, <1>9, <1>10, <1>11, <1>12, HelloAckWire, ForwardWire
        DEF WorkerStep, Hangup, ConnectionLost, Crash

LEMMA NextWire == TypeOK /\ Wire /\ [Next]_vars => Wire'
<1> SUFFICES ASSUME TypeOK, Wire, [Next]_vars PROVE Wire'
  OBVIOUS
<1>1. Over("crash")' /\ ~Spend("crash")
  BY NeverStays DEF Wire, Intervention
<1>2. CASE UNCHANGED vars
  <2>1. Settles
    BY <1>2 DEF Settles, vars, fabricVars, hubVars, memoryVars, workerVars, Wire, Sessions
  <2> QED BY <1>1, <2>1, WireSettles
<1> QED BY <1>1, <1>2, RequestWire, HubStepWire, WorkerStepWire DEF Next

LEMMA InitWire == Never("crash") /\ Init => Wire
<1> SUFFICES ASSUME Never("crash"), Init PROVE Wire
  OBVIOUS
<1> USE DEF Init, FabricInit, HubInit, WorkerInit
<1>1. Over("crash")
  BY DEF Never, Over
<1>2. Range(<<>>) = {} /\ Sorted(<<>>) /\ AckFirst(<<>>)
  BY DEF Range, Sorted, AckFirst
<1>3. \A w \in Worker : Kept(w) = {} /\ InFlight(w) = {}
  <2>1. \A w \in Worker, k \in Socket : Range(up[<<w, k>>]) = {}
    BY <1>2 DEF Conn
  <2> QED BY <1>2, <2>1 DEF Kept, InFlight
<1>4. Numbered
  BY <1>2, <1>3 DEF Numbered, SeqOrigin, NoSeq
<1>5. Sessions
  BY <1>2 DEF Sessions
<1>6. \A c \in Conn : Replayed(c)
  BY <1>2 DEF Replayed
<1> QED BY <1>1, <1>4, <1>5, <1>6 DEF Wire

LEMMA FleetWire ==
  ASSUME Never("crash")
  PROVE  Spec => []Wire
<1>1. Init => Wire
  BY InitWire
<1>2. TypeOK /\ Wire /\ [Next]_vars => Wire'
  BY NextWire
<1> QED BY <1>1, <1>2, FleetTypeOK, PTL DEF Spec

-----------------------------------------------------------------------------
(***************************************************************************)
(* Ownership.  In a fleet of persistent workers that are neither stopped,  *)
(* nor resumed, nor given up too early, nor killed, every trace of a run   *)
(* is with the worker in its row: the order to start it, the job, what the *)
(* job has reported and what of that is yet to be applied.  The parameters *)
(* st, wk, cur and dn stand for the rows and the wire a handler leaves     *)
(* behind before its trailing pump; tr and done for the traces of events.  *)
(***************************************************************************)

\* Events that may still be applied, and those kept although they were.
Traces(w) == Kept(w) \cup {e \in InFlight(w) : e.seq > highWater[w]}

Settled(w) == {e \in Kept(w) : e.seq <= highWater[w]}

Fresh == {"new", "queued"}

Traced(st, wk, tr, done) ==
    \A w \in Worker :
      /\ \A e \in tr[w] : st[e.run] \notin Fresh /\ wk[e.run] = w
      /\ \A e \in done[w] : st[e.run] # "assigned"

Doing(st, wk, tr) ==
    \A w \in Worker, r \in Run : Executes(w, r) =>
      /\ st[r] \in Active /\ wk[r] = w
      /\ \A e \in tr[w] : e.run = r => e.kind = "started"

Ordering(st, wk, dn, tr) ==
    /\ \A c \in Conn : \A i \in DOMAIN dn[c] :
         /\ dn[c][i].type # "cancel"
         /\ dn[c][i].type = "assign" =>
              LET w == WorkerOf(c)
                  r == dn[c][i].run
              IN  /\ st[r] = "assigned" /\ wk[r] = w /\ ~Executes(w, r)
                  /\ \A e \in tr[w] : e.run # r
    /\ \A c, d \in Conn : \A i \in DOMAIN dn[c], j \in DOMAIN dn[d] :
         dn[c][i].type = "assign" /\ dn[d][j].type = "assign" /\ dn[c][i].run = dn[d][j].run
            => c = d /\ i = j

Claiming(st, wk, cur) ==
    \A w \in Worker : cur[w] # None => st[cur[w]] \in Active /\ wk[cur[w]] = w

OwnedAs(st, wk, cur, dn, tr, done) ==
    /\ Traced(st, wk, tr, done)
    /\ Doing(st, wk, tr)
    /\ Ordering(st, wk, dn, tr)
    /\ Claiming(st, wk, cur)

Owned == OwnedAs(rstate, rworker, current, down,
                 [w \in Worker |-> Traces(w)], [w \in Worker |-> Settled(w)])

\* Nobody has been asked to stop so far.
Unstopped == asked = {}

Unmeddled == (\A what \in {"stuck", "crash", "resume"} : Over(what)) /\ Unstopped

\* Handing out queued runs, of which there is no trace, leaves all in its place.
LEMMA PumpOwned ==
  ASSUME NEW st \in [Run -> RunState], NEW wk \in [Run -> Worker \cup {None}],
         NEW cur \in [Worker -> Run \cup {None}], NEW gr, NEW lk, NEW sil,
         NEW dn \in [Conn -> Seq(Control)], NEW tr, NEW done,
         \A w \in Worker : tr[w] \subseteq Event /\ done[w] \subseteq tr[w],
         OwnedAs(st, wk, cur, dn, tr, done), Pump(st, wk, cur, gr, lk, sil, dn)
  PROVE  OwnedAs(rstate', rworker', current', down', tr, done)
<1> USE DEF OwnedAs
<1>1. PICK f : HandsOut(f, st, wk, cur, lk, dn)
  BY PumpHandsOut
<1>2. /\ \A r \in DOMAIN f : r \in Run /\ st[r] = "queued" /\ f[r] \in Worker
                             /\ rstate'[r] = "assigned" /\ rworker'[r] = f[r]
                             /\ current'[f[r]] = r
      /\ \A r \in Run \ DOMAIN f : rstate'[r] = st[r] /\ rworker'[r] = wk[r]
  BY <1>1 DEF HandsOut
<1>3. \A e \in Event : e.run \in Run
  BY DEF Event
<1>4. Traced(rstate', rworker', tr, done)
  <2>1. \A w \in Worker : \A e \in tr[w] : e.run \in Run \ DOMAIN f
    BY <1>2, <1>3 DEF Traced, Fresh
  <2> QED BY <1>2, <2>1 DEF Traced
<1>5. Doing(rstate', rworker', tr)
  <2>1. \A w \in Worker, r \in Run : Executes(w, r) => r \in Run \ DOMAIN f
    BY <1>2 DEF Doing, Active
  <2> QED BY <1>2, <2>1 DEF Doing
<1>6. Claiming(rstate', rworker', current')
  <2> SUFFICES ASSUME NEW w \in Worker, current'[w] # None
               PROVE  rstate'[current'[w]] \in Active /\ rworker'[current'[w]] = w
    BY DEF Claiming
  <2>1. CASE \E r \in DOMAIN f : f[r] = w
    BY <1>2, <2>1 DEF Active
  <2>2. CASE current'[w] = cur[w]
    <3>1. st[cur[w]] \in Active /\ wk[cur[w]] = w /\ cur[w] \in Run
      BY <2>2 DEF Claiming
    <3> QED BY <1>2, <2>2, <3>1 DEF Active
  <2> QED BY <1>1, <2>1, <2>2 DEF HandsOut
<1>7. \A c \in Conn : /\ dn[c] \in Seq(Control)
                      /\ DOMAIN dn[c] = 1..Len(dn[c]) /\ Len(dn[c]) \in Nat
                      /\ \A i \in DOMAIN dn[c] : dn[c][i] \in Control
  BY LenProperties
<1>8. \A m \in Control : m.type = "assign" => m.run \in Run
  BY DEF Control, Ack, Command, Drain

\* What c holds afterwards is what it held, or one order more.
<1>9. ASSUME NEW c \in Conn, NEW i \in DOMAIN down'[c]
      PROVE  \/ i \in DOMAIN dn[c] /\ down'[c][i] = dn[c][i]
             \/ \E r \in DOMAIN f : /\ f[r] = WorkerOf(c) /\ lk[WorkerOf(c)] = SocketOf(c)
                                    /\ i = Len(dn[c]) + 1 /\ down'[c][i] = AssignOf(r)
  <2>1. CASE down'[c] = dn[c]
    BY <1>9, <2>1
  <2>2. ASSUME NEW r \in DOMAIN f, f[r] = WorkerOf(c), lk[WorkerOf(c)] = SocketOf(c),
               down'[c] = Append(dn[c], AssignOf(r))
        PROVE  \/ i \in DOMAIN dn[c] /\ down'[c][i] = dn[c][i]
               \/ i = Len(dn[c]) + 1 /\ down'[c][i] = AssignOf(r)
    <3>1. AssignOf(r) \in Control
      BY <1>2 DEF AssignOf, Control, Command
    <3>2. /\ DOMAIN down'[c] = 1..Len(dn[c]) + 1
          /\ \A j \in 1..Len(dn[c]) : down'[c][j] = dn[c][j]
          /\ down'[c][Len(dn[c]) + 1] = AssignOf(r)
      BY <1>7, <2>2, <3>1, AppendProperties, LenProperties
    <3> QED BY <1>7, <1>9, <3>2
  <2> QED BY <1>1, <2>1, <2>2 DEF HandsOut
<1>10. \A r : AssignOf(r).type = "assign" /\ AssignOf(r).run = r
  BY DEF AssignOf
<1>11. ASSUME NEW c \in Conn, NEW i \in DOMAIN dn[c], dn[c][i].type = "assign"
       PROVE  dn[c][i].run \in Run \ DOMAIN f
  BY <1>2, <1>7, <1>8, <1>11 DEF Ordering
<1>12. ASSUME NEW c \in Conn, NEW i \in DOMAIN down'[c]
       PROVE  /\ down'[c][i].type # "cancel"
              /\ down'[c][i].type = "assign" =>
                   LET w == WorkerOf(c)
                       r == down'[c][i].run
                   IN  /\ rstate'[r] = "assigned" /\ rworker'[r] = w /\ ~Executes(w, r)
                       /\ \A e \in tr[w] : e.run # r
  <2>1. CASE i \in DOMAIN dn[c] /\ down'[c][i] = dn[c][i]
    BY <1>2, <1>11, <2>1 DEF Ordering
  <2>2. ASSUME NEW r \in DOMAIN f, f[r] = WorkerOf(c), down'[c][i] = AssignOf(r)
        PROVE  /\ down'[c][i].type = "assign" /\ down'[c][i].run = r
               /\ rstate'[r] = "assigned" /\ rworker'[r] = WorkerOf(c)
               /\ ~Executes(WorkerOf(c), r)
               /\ \A e \in tr[WorkerOf(c)] : e.run # r
    <3>1. WorkerOf(c) \in Worker
      BY ConnType
    <3>2. ~Executes(WorkerOf(c), r)
      BY <1>2, <3>1 DEF Doing, Active
    <3>3. \A e \in tr[WorkerOf(c)] : e.run # r
      BY <1>2, <3>1 DEF Traced, Fresh
    <3> QED BY <1>2, <1>10, <2>2, <3>2, <3>3
  <2> QED BY <1>9, <2>1, <2>2
<1>13. ASSUME NEW c \in Conn, NEW d \in Conn, NEW i \in DOMAIN down'[c], NEW j \in DOMAIN down'[d],
              down'[c][i].type = "assign", down'[d][j].type = "assign",
              down'[c][i].run = down'[d][j].run
       PROVE  c = d /\ i = j
  <2>1. CASE /\ i \in DOMAIN dn[c] /\ down'[c][i] = dn[c][i]
             /\ j \in DOMAIN dn[d] /\ down'[d][j] = dn[d][j]
    BY <1>13, <2>1 DEF Ordering
  <2>2. ASSUME NEW r \in DOMAIN f, f[r] = WorkerOf(c), lk[WorkerOf(c)] = SocketOf(c),
               i = Len(dn[c]) + 1, down'[c][i] = AssignOf(r)
        PROVE  c = d /\ i = j
    <3>1. down'[d][j].run = r
      BY <1>10, <1>13, <2>2
    <3>2. ~(j \in DOMAIN dn[d] /\ down'[d][j] = dn[d][j])
      BY <1>11, <1>13, <3>1
    <3>3. PICK q \in DOMAIN f : /\ f[q] = WorkerOf(d) /\ lk[WorkerOf(d)] = SocketOf(d)
                                /\ j = Len(dn[d]) + 1 /\ down'[d][j] = AssignOf(q)
      BY <1>9, <3>2
    <3>4. q = r
      BY <1>10, <3>1, <3>3
    <3> QED BY <2>2, <3>3, <3>4, ConnType
  <2>3. ASSUME NEW r \in DOMAIN f, f[r] = WorkerOf(d), lk[WorkerOf(d)] = SocketOf(d),
               j = Len(dn[d]) + 1, down'[d][j] = AssignOf(r),
               i \in DOMAIN dn[c] /\ down'[c][i] = dn[c][i]
        PROVE  FALSE
    BY <1>10, <1>11, <1>13, <2>3
  <2> QED BY <1>9, <2>1, <2>2, <2>3
<1>14. Ordering(rstate', rworker', down', tr)
  BY <1>12, <1>13 DEF Ordering
<1> QED BY <1>4, <1>5, <1>6, <1>14

\* Fewer orders: what a sequence still holds of them, it held before.
FewerOrders(dn, than) ==
    \A c \in Conn : \E n \in Nat : \A i \in DOMAIN dn[c] :
        /\ dn[c][i].type # "cancel"
        /\ dn[c][i].type = "assign" => i + n \in DOMAIN than[c] /\ dn[c][i] = than[c][i + n]

LEMMA SameOrders ==
  ASSUME NEW st, NEW wk, NEW dn \in [Conn -> Seq(Control)], NEW tr, Ordering(st, wk, dn, tr)
  PROVE  FewerOrders(dn, dn)
<1> SUFFICES ASSUME NEW c \in Conn
             PROVE  \A i \in DOMAIN dn[c] : /\ dn[c][i].type # "cancel"
                                            /\ i + 0 \in DOMAIN dn[c] /\ dn[c][i] = dn[c][i + 0]
  BY DEF FewerOrders
<1>1. DOMAIN dn[c] = 1..Len(dn[c])
  BY LenProperties
<1> QED BY <1>1 DEF Ordering

LEMMA OwnedLess ==
  ASSUME NEW st, NEW wk, NEW cur, NEW dn, NEW tr, NEW done, OwnedAs(st, wk, cur, dn, tr, done),
         NEW tr2, NEW done2, \A w \in Worker : tr2[w] \subseteq tr[w] /\ done2[w] \subseteq done[w],
         NEW dn2 \in [Conn -> Seq(Control)], FewerOrders(dn2, dn)
  PROVE  OwnedAs(st, wk, cur, dn2, tr2, done2)
<1> USE DEF OwnedAs
<1>1. Traced(st, wk, tr2, done2)
  BY DEF Traced
<1>2. Doing(st, wk, tr2)
  BY DEF Doing
<1>3. ASSUME NEW c \in Conn, NEW i \in DOMAIN dn2[c]
      PROVE  /\ dn2[c][i].type # "cancel"
             /\ dn2[c][i].type = "assign" =>
                  LET w == WorkerOf(c)
                      r == dn2[c][i].run
                  IN  /\ st[r] = "assigned" /\ wk[r] = w /\ ~Executes(w, r)
                      /\ \A e \in tr2[w] : e.run # r
  BY <1>3, ConnType DEF FewerOrders, Ordering
<1>4. ASSUME NEW c \in Conn, NEW d \in Conn, NEW i \in DOMAIN dn2[c], NEW j \in DOMAIN dn2[d],
             dn2[c][i].type = "assign", dn2[d][j].type = "assign", dn2[c][i].run = dn2[d][j].run
      PROVE  c = d /\ i = j
  <2>1. i \in Nat /\ j \in Nat
    <3>1. DOMAIN dn2[c] = 1..Len(dn2[c]) /\ DOMAIN dn2[d] = 1..Len(dn2[d])
      BY LenProperties
    <3> QED BY <3>1
  <2>2. c = d
    BY <1>4 DEF FewerOrders, Ordering
  <2>3. PICK n \in Nat : /\ i + n \in DOMAIN dn[c] /\ dn2[c][i] = dn[c][i + n]
                         /\ j + n \in DOMAIN dn[c] /\ dn2[c][j] = dn[c][j + n]
    BY <1>4, <2>2 DEF FewerOrders
  <2>4. i + n = j + n
    BY <1>4, <2>2, <2>3 DEF Ordering
  <2> QED BY <2>1, <2>2, <2>4
<1>5. Ordering(st, wk, dn2, tr2)
  BY <1>3, <1>4 DEF Ordering
<1> QED BY <1>1, <1>2, <1>5

\* A run of which there is no trace may go back to the queue.
LEMMA RequeueOwned ==
  ASSUME NEW st \in [Run -> RunState], NEW wk, NEW cur \in [Worker -> Run \cup {None}],
         NEW dn \in [Conn -> Seq(Control)], NEW tr, NEW done, NEW S \in SUBSET Run,
         \A w \in Worker : tr[w] \subseteq Event /\ done[w] \subseteq tr[w],
         OwnedAs(st, wk, cur, dn, tr, done),
         \A w \in Worker : /\ \A e \in tr[w] : e.run \notin S
                           /\ \A r \in S : ~Executes(w, r) /\ cur[w] # r,
         \A c \in Conn : \A i \in DOMAIN dn[c] : dn[c][i].type = "assign" => dn[c][i].run \notin S
  PROVE  OwnedAs(Requeue(st, S), wk, cur, dn, tr, done)
<1> USE DEF OwnedAs
<1>1. \A r \in Run \ S : Requeue(st, S)[r] = st[r]
  BY DEF Requeue
<1>2. \A e \in Event : e.run \in Run
  BY DEF Event
<1>3. \A c \in Conn : \A i \in DOMAIN dn[c] : dn[c][i].type = "assign" => dn[c][i].run \in Run
  <2>1. \A c \in Conn : \A i \in DOMAIN dn[c] : dn[c][i] \in Control
    BY LenProperties
  <2> QED BY <2>1 DEF Control, Ack, Command, Drain
<1>4. Traced(Requeue(st, S), wk, tr, done)
  BY <1>1, <1>2 DEF Traced
<1>5. Doing(Requeue(st, S), wk, tr)
  BY <1>1 DEF Doing
<1>6. Ordering(Requeue(st, S), wk, dn, tr)
  BY <1>1, <1>3 DEF Ordering
<1>7. Claiming(Requeue(st, S), wk, cur)
  BY <1>1 DEF Claiming
<1> QED BY <1>4, <1>5, <1>6, <1>7

\* The events of a state, and what becomes of them.
LEMMA TracesType ==
  ASSUME TypeOK
  PROVE  \A w \in Worker : Traces(w) \subseteq Event /\ Settled(w) \subseteq Traces(w)
BY EventsType DEF Traces, Settled

LEMMA OwnedAfter ==
  ASSUME UNCHANGED slot,
         OwnedAs(rstate', rworker', current', down',
                 [w \in Worker |-> Traces(w)'], [w \in Worker |-> Settled(w)'])
  PROVE  Owned'
BY DEF Owned, OwnedAs, Traced, Doing, Ordering, Claiming, Executes

\* A handler that ends in a pump, having left everything in its place.
LEMMA OwnedPumps ==
  ASSUME TypeOK, UNCHANGED slot,
         \A w \in Worker : Traces(w)' \subseteq Traces(w),
         NEW st \in [Run -> RunState], NEW wk \in [Run -> Worker \cup {None}],
         NEW cur \in [Worker -> Run \cup {None}], NEW gr, NEW lk, NEW sil,
         NEW dn \in [Conn -> Seq(Control)],
         OwnedAs(st, wk, cur, dn, [w \in Worker |-> Traces(w)'], [w \in Worker |-> Settled(w)']),
         Pump(st, wk, cur, gr, lk, sil, dn)
  PROVE  Owned'
<1> DEFINE tr == [w \in Worker |-> Traces(w)']
           done == [w \in Worker |-> Settled(w)']
<1>1. \A w \in Worker : tr[w] \subseteq Event /\ done[w] \subseteq tr[w]
  <2>1. \A w \in Worker : Settled(w)' \subseteq Traces(w)'
    BY DEF Settled, Traces
  <2> QED BY <2>1, TracesType
<1> HIDE DEF tr, done
<1>2. OwnedAs(rstate', rworker', current', down', tr, done)
  BY <1>1, PumpOwned DEF tr, done
<1> QED BY <1>2, OwnedAfter DEF tr, done

AllPersistent == Worker \subseteq Persistent

\* Owned with the traces of another state, or the same.
LEMMA OwnedTraces ==
  ASSUME Owned,
         \A w \in Worker : Traces(w)' \subseteq Traces(w) /\ Settled(w)' \subseteq Settled(w),
         NEW dn \in [Conn -> Seq(Control)], FewerOrders(dn, down)
  PROVE  OwnedAs(rstate, rworker, current, dn,
                 [w \in Worker |-> Traces(w)'], [w \in Worker |-> Settled(w)'])
<1> DEFINE tr == [w \in Worker |-> Traces(w)]
           done == [w \in Worker |-> Settled(w)]
           tr2 == [w \in Worker |-> Traces(w)']
           done2 == [w \in Worker |-> Settled(w)']
<1>1. \A w \in Worker : tr2[w] \subseteq tr[w] /\ done2[w] \subseteq done[w]
  OBVIOUS
<1>2. OwnedAs(rstate, rworker, current, down, tr, done)
  BY DEF Owned
<1> HIDE DEF tr, done, tr2, done2
<1>3. OwnedAs(rstate, rworker, current, dn, tr2, done2)
  BY <1>1, <1>2, OwnedLess
<1> QED BY <1>3 DEF tr2, done2

LEMMA SameTraces ==
  ASSUME UNCHANGED <<workerVars, up, highWater>>
  PROVE  \A w \in Worker : Traces(w)' = Traces(w) /\ Settled(w)' = Settled(w)
BY DEF workerVars, Traces, Settled, Kept, InFlight

\* No trace of a run anywhere.
Untraced(S) ==
    /\ \A w \in Worker : /\ \A e \in Traces(w) : e.run \notin S
                         /\ \A r \in S : ~Executes(w, r)
    /\ \A c \in Conn : \A i \in DOMAIN down[c] :
         down[c][i].type = "assign" => down[c][i].run \notin S

LEMMA RequeueUntraced ==
  ASSUME TypeOK, Owned, UNCHANGED <<workerVars, up, highWater>>,
         NEW S \in SUBSET Run, Untraced(S),
         NEW cur \in [Worker -> Run \cup {None}],
         \A w \in Worker : cur[w] \notin S /\ cur[w] \in {None, current[w]},
         NEW gr, Pump(Requeue(rstate, S), rworker, cur, gr, link, silent, down)
  PROVE  Owned'
<1> DEFINE tr == [w \in Worker |-> Traces(w)']
           done == [w \in Worker |-> Settled(w)']
<1>1. /\ \A w \in Worker : Traces(w)' = Traces(w) /\ Settled(w)' = Settled(w)
      /\ UNCHANGED slot
  BY SameTraces DEF workerVars
<1>2. /\ down \in [Conn -> Seq(Control)] /\ rstate \in [Run -> RunState]
      /\ rworker \in [Run -> Worker \cup {None}]
      /\ Requeue(rstate, S) \in [Run -> RunState]
  BY RequeueType DEF TypeOK, FabricTypeOK, HubTypeOK
<1>3. FewerOrders(down, down)
  BY <1>2, SameOrders DEF Owned, OwnedAs
<1>4. OwnedAs(rstate, rworker, current, down, tr, done)
  BY <1>1, <1>2, <1>3, OwnedTraces
<1>5. \A w \in Worker : /\ tr[w] \subseteq Event /\ done[w] \subseteq tr[w]
                        /\ \A e \in tr[w] : e.run \notin S
                        /\ \A r \in S : ~Executes(w, r) /\ cur[w] # r
  BY <1>1, TracesType DEF Untraced
<1>6. \A c \in Conn : \A i \in DOMAIN down[c] : down[c][i].type = "assign" => down[c][i].run \notin S
  BY DEF Untraced
<1> HIDE DEF tr, done
<1>7. OwnedAs(rstate, rworker, cur, down, tr, done)
  <2>1. Claiming(rstate, rworker, cur)
    BY <1>4 DEF OwnedAs, Claiming
  <2> QED BY <1>4, <2>1 DEF OwnedAs
<1>8. OwnedAs(Requeue(rstate, S), rworker, cur, down, tr, done)
  BY <1>2, <1>5, <1>6, <1>7, RequeueOwned
<1> QED BY <1>1, <1>2, <1>8, OwnedPumps DEF tr, done

LEMMA RequestOwned ==
  ASSUME TypeOK, Owned, Unmeddled, Unstopped', Request, UNCHANGED workerVars
  PROVE  Owned'
<1>1. ASSUME NEW S \in SUBSET Run, Create(S) PROVE Owned'
  <2>1. /\ \A r \in S : rstate[r] = "new"
        /\ Pump(Requeue(rstate, S), rworker, current, grants, link, silent, down)
        /\ UNCHANGED <<up, highWater>>
    BY <1>1 DEF Create
  <2>2. Untraced(S) /\ \A w \in Worker : current[w] \notin S
    <3>1. \A w \in Worker : current[w] \notin S
      <4>1. Claiming(rstate, rworker, current)
        BY DEF Owned, OwnedAs
      <4>2. None \notin S
        BY RunAssumption
      <4> QED BY <2>1, <4>1, <4>2 DEF Claiming, Active
    <3>2. \A w \in Worker : /\ \A e \in Traces(w) : e.run \notin S
                            /\ \A r \in S : ~Executes(w, r)
      BY <2>1 DEF Owned, OwnedAs, Traced, Doing, Fresh, Active
    <3>3. \A c \in Conn : \A i \in DOMAIN down[c] :
            down[c][i].type = "assign" => down[c][i].run \notin S
      BY <2>1 DEF Owned, OwnedAs, Ordering
    <3> QED BY <3>1, <3>2, <3>3 DEF Untraced
  <2>3. current \in [Worker -> Run \cup {None}]
    BY DEF TypeOK, HubTypeOK
  <2> QED BY <2>1, <2>2, <2>3, RequeueUntraced
<1>2. ASSUME NEW r \in Run, Submit(r) PROVE Owned'
  BY <1>1, <1>2 DEF Submit
<1>3. ASSUME NEW s \in Sweep, SubmitSweep(s) PROVE Owned'
  BY <1>1, <1>3 DEF SubmitSweep
<1>4. \A r \in Run : ~ResumeRun(r) /\ asked' # asked \cup {r}
  BY DEF Unmeddled, Unstopped, Over, ResumeRun, Spend, Intervention
<1> QED BY <1>2, <1>3, <1>4 DEF Request

\* A run that nobody has in hand leaves no trace.
LEMMA StuckOwned ==
  ASSUME TypeOK, Owned, Unmeddled, NEW S \in SUBSET Run, StuckAssignments(S), UNCHANGED workerVars
  PROVE  Owned'
<1> DEFINE held == {rworker[r] : r \in S}
           cur == [w \in Worker |-> IF w \in held THEN None ELSE current[w]]
<1>1. /\ \A r \in S : rstate[r] = "assigned"
      /\ \A r \in S, w \in Worker : ~InHand(w, r)
      /\ Pump(Requeue(rstate, S), rworker, cur, grants \ S, link, silent, down)
      /\ UNCHANGED <<up, highWater>>
  BY DEF StuckAssignments, ReapStuck, Unmeddled, Over, Spend, TypeOK, FabricTypeOK, Intervention
<1>2. \A w \in Worker : \A e \in Traces(w) : e.run \notin S
  <2> SUFFICES ASSUME NEW w \in Worker, NEW e \in Traces(w), e.run \in S PROVE FALSE
    OBVIOUS
  <2>1. CASE e \in Kept(w) /\ e.seq <= highWater[w]
    BY <1>1, <2>1 DEF Owned, OwnedAs, Traced, Settled
  <2>2. CASE ~(e \in Kept(w) /\ e.seq <= highWater[w])
    <3>1. e.seq > highWater[w]
      BY <2>2, EventsType DEF Traces
    <3>2. e \in Unreported(w)
      BY <3>1 DEF Traces, Unreported, Kept, InFlight
    <3> QED BY <1>1, <3>2 DEF InHand, Reporting
  <2> QED BY <2>1, <2>2
<1>3. \A w \in Worker, r \in S : ~Executes(w, r)
  BY <1>1 DEF InHand
<1>4. ASSUME NEW c \in Conn, NEW i \in DOMAIN down[c], down[c][i].type = "assign"
      PROVE  down[c][i].run \notin S
  <2>1. down[c][i] \in Control
    BY LenProperties DEF TypeOK, FabricTypeOK
  <2>2. down[c][i] = AssignOf(down[c][i].run)
    BY <1>4, <2>1 DEF Control, Ack, Command, Drain, AssignOf
  <2>3. c = <<WorkerOf(c), SocketOf(c)>> /\ WorkerOf(c) \in Worker /\ SocketOf(c) \in Socket
    BY ConnType
  <2>4. Ordered(WorkerOf(c), down[c][i].run)
    BY <2>2, <2>3 DEF Ordered
  <2> QED BY <1>1, <2>3, <2>4 DEF InHand
<1>5. Untraced(S)
  BY <1>2, <1>3, <1>4 DEF Untraced
<1>6. /\ cur \in [Worker -> Run \cup {None}]
      /\ \A w \in Worker : cur[w] \notin S /\ cur[w] \in {None, current[w]}
  <2>1. current \in [Worker -> Run \cup {None}]
    BY DEF TypeOK, HubTypeOK
  <2>2. \A w \in Worker : current[w] \in S => w \in held
    BY RunAssumption DEF Owned, OwnedAs, Claiming
  <2> QED BY <2>1, <2>2, RunAssumption
<1> HIDE DEF cur
<1> QED BY <1>1, <1>5, <1>6, RequeueUntraced

LEMMA FewerTraces ==
  ASSUME UNCHANGED <<workerVars, highWater>>,
         \A c \in Conn : Range(up'[c]) \subseteq Range(up[c])
  PROVE  \A w \in Worker : Traces(w)' \subseteq Traces(w) /\ Settled(w)' = Settled(w)
<1>1. \A w \in Worker : Kept(w)' = Kept(w)
  BY DEF workerVars, Kept
<1>2. \A w \in Worker : InFlight(w)' \subseteq InFlight(w)
  BY DEF InFlight, Conn
<1> QED BY <1>1, <1>2 DEF Traces, Settled

\* No order is in an emptied or an acknowledging sequence.
LEMMA ClearedOrders ==
  ASSUME NEW dn \in [Conn -> Seq(Control)], FewerOrders(dn, dn), NEW c \in Conn,
         NEW s \in Seq(Control), \A i \in DOMAIN s : s[i].type \notin {"assign", "cancel"}
  PROVE  FewerOrders([dn EXCEPT ![c] = s], dn)
<1> SUFFICES ASSUME NEW d \in Conn
             PROVE  \E n \in Nat : \A i \in DOMAIN [dn EXCEPT ![c] = s][d] :
                      LET m == [dn EXCEPT ![c] = s][d][i]
                      IN  /\ m.type # "cancel"
                          /\ m.type = "assign" => i + n \in DOMAIN dn[d] /\ m = dn[d][i + n]
  BY DEF FewerOrders
<1>1. CASE d = c
  BY <1>1
<1>2. CASE d # c
  BY <1>2 DEF FewerOrders
<1> QED BY <1>1, <1>2

LEMMA AttachOwned ==
  ASSUME TypeOK, Owned, NEW c \in Conn, Attach(c), UNCHANGED workerVars
  PROVE  Owned'
<1> USE DEF TypeOK, FabricTypeOK, HubTypeOK
<1> DEFINE w == WorkerOf(c)
           hw == IF highWater[w] = NoSeq THEN SeqOrigin ELSE highWater[w]
           lk == [link EXCEPT ![w] = SocketOf(c)]
           s == <<AckOf(hw)>>
           dn == [down EXCEPT ![c] = s]
<1>1. w \in Worker /\ hw \in Nat
  BY ConnType DEF NoSeq, SeqOrigin
<1>2. s \in Seq(Control) /\ \A i \in DOMAIN s : s[i].type \notin {"assign", "cancel"}
  <2>1. AckOf(hw) \in Control /\ AckOf(hw).type = "ack"
    BY <1>1 DEF AckOf, Control, Ack
  <2> HIDE DEF hw
  <2> QED BY <2>1
<1>3. Pump(rstate, rworker, current, grants, lk, silent \ {w}, dn) /\ UNCHANGED <<up, highWater, slot>>
  BY DEF Attach, workerVars
<1> HIDE DEF s
<1>4. dn \in [Conn -> Seq(Control)] /\ FewerOrders(dn, down)
  BY <1>2, SameOrders, ClearedOrders DEF Owned, OwnedAs
<1>5. \A v \in Worker : Traces(v)' = Traces(v) /\ Settled(v)' = Settled(v)
  BY <1>3, SameTraces
<1> HIDE DEF dn, lk
<1>6. OwnedAs(rstate, rworker, current, dn,
              [v \in Worker |-> Traces(v)'], [v \in Worker |-> Settled(v)'])
  BY <1>4, <1>5, OwnedTraces
<1> QED BY <1>3, <1>4, <1>5, <1>6, OwnedPumps

\* A persistent worker keeps its claim when its link is forgotten.
LEMMA DetachOwned ==
  ASSUME TypeOK, Owned, AllPersistent, NEW w \in Worker,
         NEW dn \in [Conn -> Seq(Control)], FewerOrders(dn, down), Detach(w, dn),
         UNCHANGED slot,
         \A v \in Worker : Traces(v)' \subseteq Traces(v) /\ Settled(v)' \subseteq Settled(v)
  PROVE  Owned'
<1> USE DEF TypeOK, FabricTypeOK, HubTypeOK
<1> DEFINE lk == [link EXCEPT ![w] = None]
<1>1. Pump(Requeue(rstate, {}), rworker, current, grants \ {}, lk, silent, dn)
  BY DEF Detach, AllPersistent
<1>2. Requeue(rstate, {}) = rstate
  BY DEF Requeue
<1>3. OwnedAs(rstate, rworker, current, dn,
              [v \in Worker |-> Traces(v)'], [v \in Worker |-> Settled(v)'])
  BY OwnedTraces
<1> HIDE DEF lk
<1> QED BY <1>1, <1>2, <1>3, OwnedPumps

LEMMA UnserveOwned ==
  ASSUME TypeOK, Owned, AllPersistent, NEW c \in Conn, Unserve(c), UNCHANGED workerVars
  PROVE  Owned'
<1> USE DEF TypeOK, FabricTypeOK
<1> DEFINE dn == IF c \in dialled THEN down ELSE [down EXCEPT ![c] = <<>>]
<1>1. /\ Detach(WorkerOf(c), dn) /\ UNCHANGED <<highWater, slot>>
      /\ up' = [up EXCEPT ![c] = <<>>]
  BY DEF Unserve, Detach, workerVars
<1>2. dn \in [Conn -> Seq(Control)] /\ FewerOrders(dn, down)
  <2>1. FewerOrders(down, down)
    BY SameOrders DEF Owned, OwnedAs
  <2>2. <<>> \in Seq(Control) /\ \A i \in DOMAIN <<>> : <<>>[i].type \notin {"assign", "cancel"}
    BY EmptySeq
  <2>3. FewerOrders([down EXCEPT ![c] = <<>>], down)
    BY <2>1, <2>2, ClearedOrders
  <2> QED BY <2>1, <2>2, <2>3
<1>3. \A d \in Conn : Range(up'[d]) \subseteq Range(up[d])
  BY <1>1 DEF Range
<1> HIDE DEF dn
<1> QED BY <1>1, <1>2, <1>3, ConnType, FewerTraces, DetachOwned

LEMMA RestartOwned ==
  ASSUME TypeOK, Owned, Restart, UNCHANGED workerVars
  PROVE  Owned'
<1> USE DEF TypeOK, FabricTypeOK
<1>1. /\ highWater' = [w \in Worker |-> NoSeq] /\ up' = [c \in Conn |-> <<>>]
      /\ down' = [c \in Conn |-> IF c \in dialled THEN down[c] ELSE <<>>]
      /\ UNCHANGED <<rstate, rworker, current, slot>>
  BY DEF Restart, storeVars, workerVars
<1>2. \A w \in Worker : InFlight(w)' = {} /\ Kept(w)' = Kept(w)
  <2>1. \A w \in Worker, k \in Socket : Range(up'[<<w, k>>]) = {}
    BY <1>1 DEF Conn, Range
  <2> QED BY <2>1 DEF InFlight, Kept, workerVars
<1>3. \A w \in Worker : Traces(w)' \subseteq Traces(w) /\ Settled(w)' \subseteq Settled(w)
  <2>1. \A w \in Worker : \A e \in Kept(w) : ~(e.seq <= NoSeq)
    BY EventsType DEF NoSeq
  <2> QED BY <1>1, <1>2, <2>1 DEF Traces, Settled
<1>4. down' \in [Conn -> Seq(Control)] /\ FewerOrders(down', down)
  <2>1. down' \in [Conn -> Seq(Control)]
    BY <1>1, EmptySeq
  <2>2. FewerOrders(down, down)
    BY SameOrders DEF Owned, OwnedAs
  <2>3. ASSUME NEW c \in Conn
        PROVE  \E n \in Nat : \A i \in DOMAIN down'[c] :
                 /\ down'[c][i].type # "cancel"
                 /\ down'[c][i].type = "assign" =>
                      i + n \in DOMAIN down[c] /\ down'[c][i] = down[c][i + n]
    <3>1. CASE down'[c] = down[c]
      BY <2>2, <3>1 DEF FewerOrders
    <3>2. CASE down'[c] = <<>>
      <4>1. \A i \in DOMAIN down'[c] : FALSE
        BY <3>2
      <4> QED BY <4>1
    <3> QED BY <1>1, <3>1, <3>2
  <2> QED BY <2>1, <2>3 DEF FewerOrders
<1>5. OwnedAs(rstate, rworker, current, down',
              [w \in Worker |-> Traces(w)'], [w \in Worker |-> Settled(w)'])
  BY <1>3, <1>4, OwnedTraces
<1> QED BY <1>1, <1>5, OwnedAfter

\* An applied event was the oldest unapplied one of its worker.
LEMMA OnMessageTraces ==
  ASSUME TypeOK, Wire, NEW c \in Conn, OnMessage(c), UNCHANGED workerVars
  PROVE  LET w == WorkerOf(c)
             e == Head(up[c])
         IN  /\ \A v \in Worker : Traces(v)' \subseteq Traces(v)
             /\ \A v \in Worker : Settled(v)' \subseteq
                                    Settled(v) \cup (IF v = w /\ e.seq > highWater[w] THEN {e} ELSE {})
             /\ e.seq > highWater[w] => e \in Traces(w)
<1> DEFINE w == WorkerOf(c)
           e == Head(up[c])
<1>1. /\ w \in Worker /\ e \in Event /\ e \in InFlight(w)
      /\ Range(up[c]) = {e} \cup Range(up'[c])
      /\ Sorted(up'[c]) /\ \A f \in Range(up'[c]) : e.seq < f.seq
      /\ \A d \in Conn : d # c => up'[d] = up[d]
      /\ highWater' = [highWater EXCEPT ![w] = IF e.seq <= @ THEN @ ELSE e.seq]
  BY OnMessageReads DEF Wire
<1> HIDE DEF e
<1>2. \A v \in Worker : Kept(v)' = Kept(v)
  BY DEF workerVars, Kept
<1>3. \A v \in Worker : InFlight(v)' \subseteq InFlight(v)
  <2>1. \A d \in Conn : Range(up'[d]) \subseteq Range(up[d])
    BY <1>1
  <2> QED BY <2>1 DEF InFlight, Conn
<1>4. /\ \A v \in Worker : highWater'[v] \in Int /\ highWater'[v] >= highWater[v]
      /\ \A v \in Worker : v # w => highWater'[v] = highWater[v]
      /\ highWater'[w] = IF e.seq <= highWater[w] THEN highWater[w] ELSE e.seq
      /\ \A v \in Worker : \A f \in Kept(v) \cup InFlight(v) : f.seq \in Nat
      /\ \A v \in Worker : highWater[v] \in Int
  BY <1>1, EventsType DEF TypeOK, HubTypeOK
<1>5. \A v \in Worker : Traces(v)' \subseteq Traces(v)
  BY <1>2, <1>3, <1>4 DEF Traces
<1>6. ASSUME NEW f \in Kept(w), f.seq <= highWater'[w], ~(f.seq <= highWater[w])
      PROVE  f = e /\ e.seq > highWater[w]
  <2>1. e.seq > highWater[w] /\ highWater'[w] = e.seq
    BY <1>1, <1>4, <1>6
  <2>2. f.seq \in Nat /\ e.seq \in Nat /\ f.seq <= e.seq /\ highWater[w] < f.seq
    BY <1>1, <1>4, <1>6, <2>1
  <2>3. CASE f.seq = e.seq
    <3>1. f = e
      BY <1>1, <1>6, <2>3 DEF Wire, Numbered
    <3> QED BY <2>1, <3>1
  <2>4. CASE f.seq < e.seq
    <3>1. e \in Range(up[c])
      BY <1>1
    <3>2. f \in Range(up[c])
      BY <1>6, <2>2, <2>4, <3>1 DEF Wire, Replayed
    <3>3. f # e /\ f \in Range(up'[c])
      BY <1>1, <2>4, <2>2, <3>2
    <3> QED BY <1>1, <2>2, <2>4, <3>3
  <2> QED BY <2>2, <2>3, <2>4
<1>7. \A v \in Worker : Settled(v)' \subseteq
                          Settled(v) \cup (IF v = w /\ e.seq > highWater[w] THEN {e} ELSE {})
  BY <1>1, <1>2, <1>4, <1>6 DEF Settled
<1>8. e.seq > highWater[w] => e \in Traces(w)
  BY <1>1 DEF Traces
<1> QED BY <1>5, <1>7, <1>8 DEF e

LEMMA OnMessageOwned ==
  ASSUME TypeOK, Wire, Owned, NEW c \in Conn, OnMessage(c), UNCHANGED workerVars
  PROVE  Owned'
<1> DEFINE w == WorkerOf(c)
           e == Head(up[c])
           r == e.run
           tr == [v \in Worker |-> Traces(v)']
           done == [v \in Worker |-> Settled(v)']
           older == [v \in Worker |-> Settled(v)' \cap Settled(v)]
<1>1. w \in Worker /\ e \in Event /\ r \in Run
  <2>1. w \in Worker /\ e \in Event
    BY OnMessageReads DEF Wire
  <2> QED BY <2>1 DEF Event
<1>2. /\ \A v \in Worker : Traces(v)' \subseteq Traces(v)
      /\ \A v \in Worker : Settled(v)' \subseteq
                             Settled(v) \cup (IF v = w /\ e.seq > highWater[w] THEN {e} ELSE {})
      /\ e.seq > highWater[w] => e \in Traces(w)
  BY OnMessageTraces
<1>3. /\ down \in [Conn -> Seq(Control)] /\ rstate \in [Run -> RunState]
      /\ rworker \in [Run -> Worker \cup {None}] /\ current \in [Worker -> Run \cup {None}]
      /\ UNCHANGED slot
      /\ \A v \in Worker : Traces(v) \subseteq Event /\ e.seq \in Nat /\ highWater[v] \in Int
  <2>1. e.seq \in Nat
    BY <1>1 DEF Event
  <2> QED BY <2>1, TracesType, EventsType DEF TypeOK, FabricTypeOK, HubTypeOK, workerVars
<1>4. FewerOrders(down, down)
  BY <1>3, SameOrders DEF Owned, OwnedAs
<1> HIDE DEF e
<1>5. CASE e.seq <= highWater[w]
  <2>1. UNCHANGED <<rstate, rworker, current, down>>
    BY <1>5 DEF OnMessage, e
  <2>2. \A v \in Worker : Settled(v)' \subseteq Settled(v)
    BY <1>1, <1>2, <1>3, <1>5
  <2>3. OwnedAs(rstate, rworker, current, down,
                [v \in Worker |-> Traces(v)'], [v \in Worker |-> Settled(v)'])
    BY <1>2, <1>3, <1>4, <2>2, OwnedTraces
  <2> QED BY <1>3, <2>1, <2>3, OwnedAfter
<1>6. CASE ~(e.seq <= highWater[w])
  <2>1. /\ e \in Traces(w)
        /\ \A v \in Worker : done[v] \subseteq older[v] \cup (IF v = w THEN {e} ELSE {})
    BY <1>1, <1>2, <1>3, <1>6
  <2>2. OwnedAs(rstate, rworker, current, down, tr, older)
    <3>1. \A v \in Worker : /\ tr[v] \subseteq [u \in Worker |-> Traces(u)][v]
                            /\ older[v] \subseteq [u \in Worker |-> Settled(u)][v]
      BY <1>2
    <3> HIDE DEF tr, older
    <3> QED BY <1>3, <1>4, <3>1, OwnedLess DEF Owned
  <2> HIDE DEF tr, done, older
  <2>3. \A v \in Worker : tr[v] \subseteq Event
    BY <1>2, <1>3 DEF tr
  <2>4. /\ rstate[r] \notin Fresh /\ rworker[r] = w
        /\ \A v \in Worker : v # w => current[v] # r
        /\ \A d \in Conn : \A i \in DOMAIN down[d] :
             down[d][i].type = "assign" => down[d][i].run # r
        /\ e.kind # "started" => \A v \in Worker : ~Executes(v, r)
    <3>1. rstate[r] \notin Fresh /\ rworker[r] = w
      BY <1>1, <2>1 DEF Owned, OwnedAs, Traced
    <3>2. \A v \in Worker : v # w => current[v] # r
      <4>1. r # None
        BY <1>1, RunAssumption
      <4> QED BY <3>1, <4>1, <2>2 DEF OwnedAs, Claiming
    <3>3. \A d \in Conn : \A i \in DOMAIN down[d] :
             down[d][i].type = "assign" => down[d][i].run # r
      <4> SUFFICES ASSUME NEW d \in Conn, NEW i \in DOMAIN down[d],
                          down[d][i].type = "assign", down[d][i].run = r
                   PROVE  FALSE
        OBVIOUS
      <4>1. Ordering(rstate, rworker, down, [v \in Worker |-> Traces(v)])
        BY DEF Owned, OwnedAs
      <4>2. /\ rworker[r] = WorkerOf(d)
            /\ \A f \in [v \in Worker |-> Traces(v)][WorkerOf(d)] : f.run # r
        BY <4>1 DEF Ordering
      <4>3. \A f \in Traces(w) : f.run # r
        BY <1>1, <3>1, <4>2
      <4> QED BY <2>1, <4>3
    <3>4. e.kind # "started" => \A v \in Worker : ~Executes(v, r)
      BY <1>1, <2>1, <3>1 DEF Owned, OwnedAs, Doing
    <3> QED BY <3>1, <3>2, <3>3, <3>4
  <2>5. CASE e.kind = "started"
    <3>1. JobStarted(w, r)
      BY <1>6, <2>5 DEF OnMessage, e
    <3>2. /\ current' = current /\ down' = down /\ rworker' = rworker
          /\ \A q \in Run : q # r => rstate'[q] = rstate[q]
          /\ rstate[r] \in Active => rstate'[r] = "running"
          /\ rstate[r] \notin Active => rstate'[r] = rstate[r] /\ rstate[r] \in Terminal
      BY <1>1, <1>3, <2>4, <3>1 DEF JobStarted, Fresh, Active, Terminal, RunState
    <3>3. OwnedAs(rstate', rworker', current', down', tr, done)
      <4>1. Traced(rstate', rworker', tr, done)
        <5>1. rstate'[r] \notin Fresh /\ rstate'[r] # "assigned"
          BY <3>2 DEF Fresh, Active, Terminal
        <5>2. \A v \in Worker : \A f \in done[v] : f \in older[v] \/ f.run = r
          BY <2>1
        <5>3. \A v \in Worker : \A f \in older[v] : f.run \in Run
          BY <1>3, TracesType DEF older, Event
        <5> QED BY <2>2, <2>3, <3>2, <5>1, <5>2, <5>3 DEF OwnedAs, Traced, Event
      <4>2. Doing(rstate', rworker', tr)
        BY <2>2, <3>2 DEF OwnedAs, Doing, Active
      <4>3. Claiming(rstate', rworker', current')
        BY <1>3, <2>2, <3>2 DEF OwnedAs, Claiming, Active
      <4>4. Ordering(rstate', rworker', down', tr)
        <5>1. \A d \in Conn : \A i \in DOMAIN down[d] :
                down[d][i].type = "assign" => down[d][i].run \in Run
          <6>1. \A d \in Conn : \A i \in DOMAIN down[d] : down[d][i] \in Control
            BY <1>3, LenProperties
          <6> QED BY <6>1 DEF Control, Ack, Command, Drain
        <5> QED BY <2>2, <2>4, <3>2, <5>1 DEF OwnedAs, Ordering
      <4> QED BY <4>1, <4>2, <4>3, <4>4 DEF OwnedAs
    <3> QED BY <1>3, <3>3, OwnedAfter DEF tr, done
  <2>6. CASE e.kind # "started"
    <3> DEFINE st == [rstate EXCEPT ![r] = FinalState(e.kind)]
               wk == [rworker EXCEPT ![r] = w]
               cur == [current EXCEPT ![w] = None]
    <3>1. Pump(st, wk, cur, grants \ {r}, link, silent \ {w}, down)
      BY <1>6, <2>6 DEF OnMessage, FinishRun, e
    <3>2. /\ \A q \in Run : q # r => st[q] = rstate[q]
          /\ st[r] \in Terminal /\ wk = rworker
          /\ st \in [Run -> RunState]
          /\ cur \in [Worker -> Run \cup {None}]
          /\ \A v \in Worker : cur[v] # None => cur[v] = current[v] /\ cur[v] # r
      <4>1. FinalState(e.kind) \in Terminal
        BY DEF FinalState, Terminal
      <4> QED BY <1>1, <1>3, <2>4, <4>1 DEF RunState
    <3> HIDE DEF st, wk, cur
    <3>3. OwnedAs(st, wk, cur, down, tr, done)
      <4>1. Traced(st, wk, tr, done)
        <5>1. st[r] \notin Fresh /\ st[r] # "assigned"
          BY <3>2 DEF Fresh, Terminal
        <5>2. \A v \in Worker : \A f \in done[v] : f \in older[v] \/ f.run = r
          BY <2>1
        <5>3. \A v \in Worker : \A f \in older[v] : f.run \in Run
          BY <1>3, TracesType DEF older, Event
        <5> QED BY <2>2, <2>3, <3>2, <5>1, <5>2, <5>3 DEF OwnedAs, Traced, Event
      <4>2. Doing(st, wk, tr)
        BY <2>2, <2>4, <2>6, <3>2 DEF OwnedAs, Doing
      <4>3. Claiming(st, wk, cur)
        BY <1>3, <2>2, <3>2 DEF OwnedAs, Claiming
      <4>4. Ordering(st, wk, down, tr)
        <5>1. \A d \in Conn : \A i \in DOMAIN down[d] :
                down[d][i].type = "assign" => down[d][i].run \in Run
          <6>1. \A d \in Conn : \A i \in DOMAIN down[d] : down[d][i] \in Control
            BY <1>3, LenProperties
          <6> QED BY <6>1 DEF Control, Ack, Command, Drain
        <5> QED BY <2>2, <2>4, <3>2, <5>1 DEF OwnedAs, Ordering
      <4> QED BY <4>1, <4>2, <4>3, <4>4 DEF OwnedAs
    <3> QED BY <1>2, <1>3, <3>1, <3>2, <3>3, OwnedPumps DEF tr, done
  <2> QED BY <2>5, <2>6
<1> QED BY <1>5, <1>6

LEMMA HubStepOwned ==
  ASSUME TypeOK, Wire, Owned, Unmeddled, AllPersistent, HubStep, UNCHANGED workerVars
  PROVE  Owned'
<1>1. ASSUME NEW c \in Conn, Attach(c) PROVE Owned'
  BY <1>1, AttachOwned
<1>2. ASSUME NEW c \in Conn, Unserve(c) PROVE Owned'
  BY <1>2, UnserveOwned
<1>3. ASSUME UNCHANGED <<rstate, rworker, current, down, up, highWater>> PROVE Owned'
  <2>1. \A w \in Worker : Traces(w)' = Traces(w) /\ Settled(w)' = Settled(w)
    BY <1>3, SameTraces
  <2> QED BY <1>3, <2>1, OwnedAfter DEF Owned, workerVars
<1>4. ASSUME NEW c \in Conn, Heartbeat(c) PROVE Owned'
  BY <1>3, <1>4 DEF Heartbeat, memoryVars, fabricVars
<1>5. ASSUME NEW c \in Conn, OnMessage(c) PROVE Owned'
  BY <1>5, OnMessageOwned
<1>6. ASSUME NEW w \in Worker, Lapse(w) PROVE Owned'
  BY <1>3, <1>6 DEF Lapse, memoryVars
<1>7. ASSUME NEW w \in Worker, ReapStale(w) PROVE Owned'
  <2>1. /\ Detach(w, down) /\ UNCHANGED <<up, highWater, slot>>
    BY <1>7 DEF ReapStale, Detach, workerVars
  <2>2. \A v \in Worker : Traces(v)' = Traces(v) /\ Settled(v)' = Settled(v)
    BY <2>1, SameTraces
  <2>3. down \in [Conn -> Seq(Control)] /\ FewerOrders(down, down)
    BY SameOrders DEF Owned, OwnedAs, TypeOK, FabricTypeOK
  <2> QED BY <2>1, <2>2, <2>3, DetachOwned
<1>8. \A w \in Worker : ~DrainLease(w)
  BY DEF DrainLease, AllPersistent
<1>9. ASSUME NEW w \in Worker, ExtendLease(w) PROVE Owned'
  BY <1>3, <1>9 DEF ExtendLease, memoryVars
<1>10. ASSUME NEW S \in SUBSET Run, StuckAssignments(S) PROVE Owned'
  BY <1>10, StuckOwned
<1> QED BY <1>1, <1>2, <1>4, <1>5, <1>6, <1>7, <1>8, <1>9, <1>10, RestartOwned
        DEF HubStep, SessionEnd, SessionLost

\* The worker's side.  The rows stay as they are.
LEMMA TailOrders ==
  ASSUME TypeOK, Owned, NEW c \in Conn, NEW type, Arrives(c, type)
  PROVE  down' \in [Conn -> Seq(Control)] /\ FewerOrders(down', down)
<1>1. /\ down \in [Conn -> Seq(Control)] /\ down[c] # <<>> /\ down' = [down EXCEPT ![c] = Tail(@)]
      /\ Tail(down[c]) \in Seq(Control)
      /\ DOMAIN down[c] = 1..Len(down[c]) /\ Len(down[c]) \in Nat /\ Len(down[c]) >= 1
      /\ DOMAIN Tail(down[c]) = 1..Len(down[c]) - 1
      /\ \A i \in 1..Len(down[c]) - 1 : Tail(down[c])[i] = down[c][i + 1]
  BY HeadTailProperties, LenProperties, EmptySeq DEF TypeOK, FabricTypeOK, Arrives
<1>2. FewerOrders(down, down)
  BY <1>1, SameOrders DEF Owned, OwnedAs
<1>3. \A i \in DOMAIN down[c] : down[c][i].type # "cancel"
  BY DEF Owned, OwnedAs, Ordering
<1>4. \A i \in DOMAIN down'[c] : /\ down'[c][i].type # "cancel"
                                 /\ i + 1 \in DOMAIN down[c] /\ down'[c][i] = down[c][i + 1]
  BY <1>1, <1>3
<1>5. ASSUME NEW d \in Conn
      PROVE  \E n \in Nat : \A i \in DOMAIN down'[d] :
               /\ down'[d][i].type # "cancel"
               /\ down'[d][i].type = "assign" =>
                    i + n \in DOMAIN down[d] /\ down'[d][i] = down[d][i + n]
  <2>1. CASE d = c
    <3>1. 1 \in Nat
      OBVIOUS
    <3> QED BY <1>4, <2>1, <3>1
  <2>2. CASE d # c
    <3>1. down'[d] = down[d]
      BY <1>1, <2>2
    <3> QED BY <1>2, <3>1 DEF FewerOrders
  <2> QED BY <2>1, <2>2
<1>6. down' \in [Conn -> Seq(Control)]
  BY <1>1
<1> QED BY <1>5, <1>6 DEF FewerOrders

LEMMA OwnedKeeps ==
  ASSUME Owned, UNCHANGED <<rstate, rworker, current, slot>>,
         \A w \in Worker : Traces(w)' \subseteq Traces(w) /\ Settled(w)' \subseteq Settled(w),
         down' \in [Conn -> Seq(Control)], FewerOrders(down', down)
  PROVE  Owned'
<1>1. OwnedAs(rstate, rworker, current, down',
              [w \in Worker |-> Traces(w)'], [w \in Worker |-> Settled(w)'])
  BY OwnedTraces
<1> QED BY <1>1, OwnedAfter

\* Resending and sending on move events that are kept.
LEMMA SendTraces ==
  ASSUME TypeOK, NEW c \in Conn, NEW s \in Seq(Event), Send(c, s), UNCHANGED highWater,
         Range(s) \subseteq Kept(WorkerOf(c)),
         \A w \in Worker : Kept(w)' \subseteq Kept(w)
  PROVE  \A w \in Worker : Traces(w)' \subseteq Traces(w) /\ Settled(w)' \subseteq Settled(w)
<1>1. \A d \in Conn : Range(up'[d]) \subseteq Range(up[d]) \cup Kept(WorkerOf(d))
  <2>1. up \in [Conn -> Seq(Event)] /\ Range(up[c] \o s) = Range(up[c]) \cup Range(s)
    BY RangeOfConcat DEF TypeOK, FabricTypeOK
  <2> QED BY <2>1 DEF Send
<1>2. \A w \in Worker : InFlight(w)' \subseteq InFlight(w) \cup Kept(w)
  <2> SUFFICES ASSUME NEW w \in Worker, NEW k \in Socket, NEW e \in Range(up'[<<w, k>>])
               PROVE  e \in InFlight(w) \cup Kept(w)
    BY DEF InFlight
  <2>1. <<w, k>> \in Conn /\ WorkerOf(<<w, k>>) = w
    BY DEF Conn, WorkerOf
  <2> QED BY <1>1, <2>1 DEF InFlight
<1> QED BY <1>2 DEF Traces, Settled

\* A session that starts or goes on moves what is kept and adds nothing.
LEMMA StreamTraces ==
  ASSUME TypeOK, Wire, NEW c \in Conn, HelloAck(c) \/ Forward(c), UNCHANGED hubVars
  PROVE  \A w \in Worker : Traces(w)' \subseteq Traces(w) /\ Settled(w)' \subseteq Settled(w)
<1>1. /\ UNCHANGED highWater
      /\ outbox \in [Worker -> Seq(Event)] /\ jobrx \in [Worker -> Seq(Event)]
  BY DEF hubVars, memoryVars, TypeOK, WorkerTypeOK
<1>2. CASE HelloAck(c)
  <2> DEFINE w == WorkerOf(c)
             kept == TrimToHighWater(outbox[w] \o jobrx[w], Head(down[c]).highWater)
  <2>1. /\ w \in Worker /\ kept \in Seq(Event) /\ Range(kept) \subseteq Kept(w)
        /\ outbox' = [outbox EXCEPT ![w] = kept] /\ jobrx' = [jobrx EXCEPT ![w] = <<>>]
        /\ Send(c, kept)
    BY <1>2, HelloAckKeeps
  <2> HIDE DEF kept
  <2>2. \A v \in Worker : Kept(v)' \subseteq Kept(v)
    <3>1. Range(<<>>) = {}
      BY DEF Range
    <3> QED BY <1>1, <2>1, <3>1 DEF Kept
  <2> QED BY <1>1, <2>1, <2>2, SendTraces
<1>3. CASE Forward(c)
  <2> DEFINE w == WorkerOf(c)
             h == Head(jobrx[w])
  <2>1. /\ w \in Worker /\ jobrx[w] # <<>> /\ h \in Event /\ Tail(jobrx[w]) \in Seq(Event)
        /\ outbox' = [outbox EXCEPT ![w] = Append(@, h)]
        /\ jobrx' = [jobrx EXCEPT ![w] = Tail(@)]
        /\ Send(c, <<h>>)
    BY <1>1, <1>3, ConnType, HeadTailProperties DEF Forward
  <2>2. Range(jobrx[w]) = {h} \cup Range(Tail(jobrx[w]))
    BY <1>1, <2>1, RangeOfTail
  <2> HIDE DEF h
  <2>3. /\ Range(Append(outbox[w], h)) = Range(outbox[w]) \cup {h}
        /\ <<h>> \in Seq(Event) /\ Range(<<h>>) = {h}
    <3>1. <<h>> \in Seq(Event) /\ Range(<<h>>) = {h}
      BY <2>1 DEF Range
    <3>2. outbox[w] \in Seq(Event)
      BY <1>1, <2>1
    <3> QED BY <2>1, <3>1, <3>2, RangeOfAppend
  <2>4. \A v \in Worker : Kept(v)' \subseteq Kept(v)
    BY <1>1, <2>1, <2>2, <2>3 DEF Kept
  <2>5. Range(<<h>>) \subseteq Kept(w)
    BY <2>2, <2>3 DEF Kept
  <2> QED BY <1>1, <2>1, <2>3, <2>4, <2>5, SendTraces
<1> QED BY <1>2, <1>3

LEMMA AssignJobOwned ==
  ASSUME TypeOK, Owned, NEW c \in Conn, AssignJob(c), UNCHANGED hubVars
  PROVE  Owned'
<1> DEFINE w == WorkerOf(c)
           r == Head(down[c]).run
<1>1. /\ Arrives(c, "assign") /\ w \in Worker
      /\ UNCHANGED <<jobrx, up, highWater, rstate, rworker, current>>
      /\ slot \in [Worker -> Job \cup {None}] /\ outbox \in [Worker -> Seq(Event)]
      /\ down \in [Conn -> Seq(Control)]
  BY ConnType DEF AssignJob, hubVars, storeVars, memoryVars, TypeOK, WorkerTypeOK, FabricTypeOK
<1>2. down' \in [Conn -> Seq(Control)] /\ FewerOrders(down', down)
  BY <1>1, TailOrders
<1>3. \A v \in Worker : outbox'[v] \in {outbox[v], <<>>}
  BY <1>1 DEF AssignJob
<1>4. \A v \in Worker : Traces(v)' \subseteq Traces(v) /\ Settled(v)' \subseteq Settled(v)
  <2>1. Range(<<>>) = {}
    BY DEF Range
  <2>2. \A v \in Worker : Kept(v)' \subseteq Kept(v) /\ InFlight(v)' = InFlight(v)
    BY <1>1, <1>3, <2>1 DEF Kept, InFlight
  <2> QED BY <1>1, <2>2 DEF Traces, Settled
<1>5. CASE slot' = slot
  BY <1>1, <1>2, <1>4, <1>5, OwnedKeeps
<1>6. CASE ~(w \in refuses \/ Busy(w))
  <2>1. /\ slot' = [slot EXCEPT ![w] = Spawned(r)]
        /\ \A q \in Run : ~Executes(w, q)
    BY <1>6 DEF AssignJob, Busy, Executes
  <2>2. /\ 1 \in DOMAIN down[c] /\ Head(down[c]) = down[c][1]
        /\ down[c][1].type = "assign" /\ down[c][1].run = r /\ r \in Run
    <3>1. /\ down[c] \in Seq(Control) /\ down[c] # <<>>
          /\ Head(down[c]).type = "assign"
      BY <1>1 DEF Arrives
    <3>2. /\ DOMAIN down[c] = 1..Len(down[c]) /\ Len(down[c]) \in Nat /\ Len(down[c]) # 0
          /\ Head(down[c]) = down[c][1] /\ Head(down[c]) \in Control
      BY <3>1, LenProperties, EmptySeq, HeadTailProperties
    <3> QED BY <3>1, <3>2 DEF Control, Ack, Command, Drain
  <2>3. Ordering(rstate, rworker, down, [v \in Worker |-> Traces(v)])
    BY DEF Owned, OwnedAs
  <2>4. /\ rstate[r] = "assigned" /\ rworker[r] = w
        /\ \A e \in Traces(w) : e.run # r
    <3>1. /\ rstate[r] = "assigned" /\ rworker[r] = w
          /\ \A e \in [v \in Worker |-> Traces(v)][w] : e.run # r
      BY <2>2, <2>3 DEF Ordering
    <3> QED BY <1>1, <3>1
  <2>5. OwnedAs(rstate, rworker, current, down',
                [v \in Worker |-> Traces(v)'], [v \in Worker |-> Settled(v)'])
    BY <1>2, <1>4, OwnedTraces
  <2>6. \A v \in Worker, q \in Run : Executes(v, q)' => Executes(v, q) \/ (v = w /\ q = r)
    BY <1>1, <2>1 DEF Executes, Spawned
  \* The order is gone from the wire.
  <2>7. ASSUME NEW d \in Conn, NEW i \in DOMAIN down'[d], down'[d][i].type = "assign"
        PROVE  down'[d][i].run # r
    <3>1. /\ DOMAIN down[c] = 1..Len(down[c]) /\ Len(down[c]) \in Nat
          /\ DOMAIN Tail(down[c]) = 1..Len(down[c]) - 1
          /\ \A j \in 1..Len(down[c]) - 1 : Tail(down[c])[j] = down[c][j + 1]
          /\ down'[c] = Tail(down[c]) /\ \A b \in Conn : b # c => down'[b] = down[b]
      BY <1>1, HeadTailProperties, LenProperties, EmptySeq DEF Arrives
    <3>2. CASE d # c
      BY <2>2, <2>3, <2>7, <3>1, <3>2 DEF Ordering
    <3>3. CASE d = c
      <4> DEFINE n == Len(down[c])
      <4>1. i \in Nat /\ i >= 1 /\ i + 1 \in DOMAIN down[c] /\ down'[c][i] = down[c][i + 1]
        <5>1. i \in DOMAIN down'[c]
          BY <3>3
        <5>2. i \in 1..n - 1 /\ n \in Nat /\ DOMAIN down[c] = 1..n
          BY <3>1, <5>1
        <5>3. down'[c][i] = down[c][i + 1]
          BY <3>1, <5>2
        <5> HIDE DEF n
        <5>4. i \in Nat /\ i >= 1 /\ i + 1 \in 1..n
          BY <5>2
        <5> QED BY <5>2, <5>3, <5>4
      <4>2. i + 1 # 1
        BY <4>1
      <4> QED BY <2>2, <2>3, <2>7, <3>3, <4>1, <4>2 DEF Ordering
    <3> QED BY <3>2, <3>3
  <2>8. Doing(rstate, rworker, [v \in Worker |-> Traces(v)])'
    <3> SUFFICES ASSUME NEW v \in Worker, NEW q \in Run, Executes(v, q)'
                 PROVE  /\ rstate'[q] \in Active /\ rworker'[q] = v
                        /\ \A e \in Traces(v)' : e.run = q => e.kind = "started"
      BY DEF Doing
    <3>1. CASE Executes(v, q)
      BY <1>1, <2>5, <3>1 DEF OwnedAs, Doing
    <3>2. CASE v = w /\ q = r
      BY <1>1, <1>4, <2>4, <3>2 DEF Active
    <3> QED BY <2>6, <3>1, <3>2
  <2>9. Ordering(rstate, rworker, down, [v \in Worker |-> Traces(v)])'
    <3>1. Ordering(rstate, rworker, down', [v \in Worker |-> Traces(v)'])
      BY <2>5 DEF OwnedAs
    <3>2. ASSUME NEW d \in Conn, NEW i \in DOMAIN down'[d], down'[d][i].type = "assign",
                 NEW q, q = down'[d][i].run
          PROVE  ~Executes(WorkerOf(d), q)'
      <4>1. q \in Run
        <5>1. down'[d][i] \in Control
          BY <1>2, <3>2, LenProperties
        <5> QED BY <3>2, <5>1 DEF Control, Ack, Command, Drain
      <4>2. ~Executes(WorkerOf(d), q)
        BY <3>1, <3>2 DEF Ordering
      <4> QED BY <2>6, <2>7, <3>2, <4>1, <4>2, ConnType
    <3> QED BY <1>1, <3>1, <3>2 DEF Ordering, Executes
  <2> QED BY <1>1, <2>5, <2>8, <2>9 DEF Owned, OwnedAs, Traced, Doing, Claiming
<1> QED BY <1>5, <1>6 DEF AssignJob

\* What the executor reports of a job is with the job's worker.
LEMMA EmitOwned ==
  ASSUME TypeOK, Wire, Owned,
         NEW w \in Worker, NEW r \in Run, NEW kind \in EventKind, Emit(w, r, kind), Executes(w, r),
         UNCHANGED <<rstate, rworker, current, outbox, up, down, highWater>>,
         \A v \in Worker, q \in Run : Executes(v, q)' => Executes(v, q),
         kind # "started" => \A q \in Run : ~Executes(w, q)'
  PROVE  Owned'
<1> DEFINE new == Stamp(w, r, kind)
<1>1. /\ jobrx \in [Worker -> Seq(Event)] /\ new \in Event /\ new.seq = seq[w] /\ new.run = r
      /\ new.kind = kind /\ seq[w] \in Nat /\ highWater[w] \in Int
  BY EventsType DEF TypeOK, WorkerTypeOK, Stamp, Event
<1>2. /\ jobrx'[w] = Append(jobrx[w], new)
      /\ \A v \in Worker : v # w => jobrx'[v] = jobrx[v]
  BY <1>1 DEF Emit
<1> HIDE DEF new
<1>3. Range(jobrx'[w]) = Range(jobrx[w]) \cup {new}
  BY <1>1, <1>2, RangeOfAppend
<1>4. \A v \in Worker : /\ InFlight(v)' = InFlight(v)
                        /\ Kept(v)' = IF v = w THEN Kept(v) \cup {new} ELSE Kept(v)
  BY <1>2, <1>3 DEF InFlight, Kept
<1>5. /\ \A v \in Worker : Traces(v)' = IF v = w THEN Traces(v) \cup {new} ELSE Traces(v)
      /\ \A v \in Worker : Settled(v)' = Settled(v)
  <2>1. ~(new.seq <= highWater[w])
    BY <1>1 DEF Wire, Numbered
  <2> QED BY <1>4, <2>1 DEF Traces, Settled
<1>6. /\ Traced(rstate, rworker, [v \in Worker |-> Traces(v)], [v \in Worker |-> Settled(v)])
      /\ Doing(rstate, rworker, [v \in Worker |-> Traces(v)])
      /\ Ordering(rstate, rworker, down, [v \in Worker |-> Traces(v)])
      /\ Claiming(rstate, rworker, current)
  BY DEF Owned, OwnedAs
<1>7. rstate[r] \in Active /\ rworker[r] = w
  BY <1>6 DEF Doing
<1>8. Traced(rstate, rworker, [v \in Worker |-> Traces(v)], [v \in Worker |-> Settled(v)])'
  BY <1>1, <1>5, <1>6, <1>7 DEF Traced, Fresh, Active
<1>9. Doing(rstate, rworker, [v \in Worker |-> Traces(v)])'
  <2> SUFFICES ASSUME NEW v \in Worker, NEW q \in Run, Executes(v, q)'
               PROVE  /\ rstate'[q] \in Active /\ rworker'[q] = v
                      /\ \A e \in Traces(v)' : e.run = q => e.kind = "started"
    BY DEF Doing
  <2>1. /\ rstate'[q] \in Active /\ rworker'[q] = v
        /\ \A e \in Traces(v) : e.run = q => e.kind = "started"
    BY <1>6 DEF Doing
  <2>2. v = w => new.kind = "started"
    BY <1>1
  <2> QED BY <1>5, <2>1, <2>2
<1>10. Ordering(rstate, rworker, down, [v \in Worker |-> Traces(v)])'
  <2>1. ASSUME NEW c \in Conn, NEW i \in DOMAIN down[c], down[c][i].type = "assign",
               NEW q, q = down[c][i].run
        PROVE  /\ rstate[q] = "assigned" /\ rworker[q] = WorkerOf(c)
               /\ ~Executes(WorkerOf(c), q)'
               /\ \A e \in Traces(WorkerOf(c))' : e.run # q
    <3>1. WorkerOf(c) \in Worker /\ q \in Run
      <4>1. down[c][i] \in Control
        BY LenProperties DEF TypeOK, FabricTypeOK
      <4> QED BY <2>1, <4>1, ConnType DEF Control, Ack, Command, Drain
    <3>2. /\ rstate[q] = "assigned" /\ rworker[q] = WorkerOf(c)
          /\ ~Executes(WorkerOf(c), q)
          /\ \A e \in [v \in Worker |-> Traces(v)][WorkerOf(c)] : e.run # q
      BY <1>6, <2>1 DEF Ordering
    <3>3. WorkerOf(c) = w => q # r
      BY <3>2
    <3> QED BY <1>1, <1>5, <3>1, <3>2, <3>3
  <2> QED BY <1>6, <2>1, ConnType DEF Ordering, Executes
<1>11. Claiming(rstate, rworker, current)'
  BY <1>6 DEF Claiming
<1> QED BY <1>8, <1>9, <1>10, <1>11 DEF Owned, OwnedAs

LEMMA WorkerStepOwned ==
  ASSUME TypeOK, Wire, Owned, Unmeddled, AllPersistent, WorkerStep, UNCHANGED hubVars
  PROVE  Owned'
<1>1. UNCHANGED <<rstate, rworker, current, highWater>>
  BY DEF hubVars, storeVars, memoryVars
<1>2. /\ slot \in [Worker -> Job \cup {None}] /\ down \in [Conn -> Seq(Control)]
      /\ up \in [Conn -> Seq(Event)]
      /\ outbox \in [Worker -> Seq(Event)] /\ jobrx \in [Worker -> Seq(Event)]
  BY DEF TypeOK, WorkerTypeOK, FabricTypeOK
<1>3. FewerOrders(down, down)
  BY <1>2, SameOrders DEF Owned, OwnedAs
<1>4. ASSUME UNCHANGED <<jobrx, outbox, up>>
      PROVE  \A w \in Worker : Traces(w)' = Traces(w) /\ Settled(w)' = Settled(w)
  BY <1>1, <1>4 DEF Traces, Settled, Kept, InFlight
<1>5. ASSUME NEW c \in Conn, HelloAck(c) PROVE Owned'
  <2>1. UNCHANGED slot /\ down' \in [Conn -> Seq(Control)] /\ FewerOrders(down', down)
    BY <1>5, TailOrders DEF HelloAck
  <2>2. \A w \in Worker : Traces(w)' \subseteq Traces(w) /\ Settled(w)' \subseteq Settled(w)
    BY <1>5, StreamTraces
  <2> QED BY <1>1, <2>1, <2>2, OwnedKeeps
<1>6. ASSUME NEW c \in Conn, Forward(c) PROVE Owned'
  <2>1. UNCHANGED <<slot, down>>
    BY <1>6 DEF Forward
  <2>2. \A w \in Worker : Traces(w)' \subseteq Traces(w) /\ Settled(w)' \subseteq Settled(w)
    BY <1>6, StreamTraces
  <2> QED BY <1>1, <1>2, <1>3, <2>1, <2>2, OwnedKeeps
<1>7. ASSUME NEW c \in Conn, AssignJob(c) PROVE Owned'
  BY <1>7, AssignJobOwned
<1>8. \A c \in Conn : ~Cancel(c)
  <2> SUFFICES ASSUME NEW c \in Conn, Cancel(c) PROVE FALSE
    OBVIOUS
  <2>1. down[c] \in Seq(Control) /\ down[c] # <<>> /\ Head(down[c]).type = "cancel"
    BY <1>2 DEF Cancel, Arrives
  <2>2. 1 \in DOMAIN down[c] /\ Head(down[c]) = down[c][1]
    BY <2>1, LenProperties, EmptySeq
  <2> QED BY <2>1, <2>2 DEF Owned, OwnedAs, Ordering
<1>9. ASSUME NEW c \in Conn, DrainRequest(c) PROVE Owned'
  <2>1. /\ UNCHANGED <<slot, jobrx, outbox, up>>
        /\ down' \in [Conn -> Seq(Control)] /\ FewerOrders(down', down)
    BY <1>9, TailOrders DEF DrainRequest
  <2> QED BY <1>1, <1>4, <2>1, OwnedKeeps
<1>10. ASSUME NEW c \in Conn, SelfDrain(c) PROVE Owned'
  <2>1. UNCHANGED <<slot, jobrx, outbox, up, down>>
    BY <1>10 DEF SelfDrain, fabricVars
  <2> QED BY <1>1, <1>2, <1>3, <1>4, <2>1, OwnedKeeps
<1>11. ASSUME NEW c \in Conn, EndSession(c) PROVE Owned'
  <2>1. /\ UNCHANGED <<slot, jobrx, outbox, up>>
        /\ down' = [down EXCEPT ![c] = <<>>]
    BY <1>11, ConnType DEF EndSession, AllPersistent
  <2>2. down' \in [Conn -> Seq(Control)] /\ FewerOrders(down', down)
    <3>1. <<>> \in Seq(Control) /\ \A i \in DOMAIN <<>> : <<>>[i].type \notin {"assign", "cancel"}
      BY EmptySeq
    <3>2. FewerOrders([down EXCEPT ![c] = <<>>], down)
      BY <1>2, <1>3, <3>1, ClearedOrders
    <3> QED BY <1>2, <2>1, <3>1, <3>2
  <2> QED BY <1>1, <1>4, <2>1, <2>2, OwnedKeeps
<1>12. \A w \in Worker : ~Crash(w)
  BY DEF Crash, Unmeddled, Over, Spend, TypeOK, FabricTypeOK, Intervention
<1>13. ASSUME NEW w \in Worker, ExecutorStart(w) PROVE Owned'
  <2>1. slot[w] \in Job /\ slot[w].run \in Run /\ Executes(w, slot[w].run)
        /\ Emit(w, slot[w].run, "started") /\ "started" \in EventKind
        /\ UNCHANGED <<outbox, up, down>>
    BY <1>2, <1>13 DEF ExecutorStart, Job, Executes, EventKind, fabricVars
  <2>2. \A v \in Worker, q \in Run : Executes(v, q)' => Executes(v, q)
    BY <1>2, <1>13, <2>1 DEF ExecutorStart, Executes, Job
  <2> QED BY <1>1, <2>1, <2>2, EmitOwned
<1>14. ASSUME NEW w \in Worker, ExecutorEnd(w) PROVE Owned'
  <2>1. slot[w] \in Job /\ slot[w].run \in Run /\ Executes(w, slot[w].run)
        /\ UNCHANGED <<outbox, up, down>>
    BY <1>2, <1>14 DEF ExecutorEnd, Job, Executes
  <2>2. PICK kind \in ExitKind : Emit(w, slot[w].run, kind)
    BY <1>14 DEF ExecutorEnd
  <2>3. kind \in EventKind
    BY ExitAssumption DEF EventKind
  <2>4. PICK phase \in {"finished", "reported"} : slot' = [slot EXCEPT ![w].phase = phase]
    BY <1>14 DEF ExecutorEnd
  <2>5. /\ \A v \in Worker, q \in Run : Executes(v, q)' => Executes(v, q)
        /\ \A q \in Run : ~Executes(w, q)'
    BY <1>2, <2>1, <2>4 DEF Executes, Job
  <2> QED BY <1>1, <2>1, <2>2, <2>3, <2>5, EmitOwned
<1>15. ASSUME NEW w \in Worker, ExecutorFinish(w) PROVE Owned'
  <2>1. UNCHANGED <<jobrx, outbox, up, down>>
    BY <1>15 DEF ExecutorFinish, fabricVars
  <2>2. \A v \in Worker : \A q : Executes(v, q)' <=> Executes(v, q)
    BY <1>2, <1>15 DEF ExecutorFinish, Executes, Job
  <2>3. \A v \in Worker : Traces(v)' = Traces(v) /\ Settled(v)' = Settled(v)
    BY <1>4, <2>1
  <2>4. Traced(rstate, rworker, [v \in Worker |-> Traces(v)], [v \in Worker |-> Settled(v)])'
    BY <1>1, <2>3 DEF Owned, OwnedAs, Traced
  <2>5. Doing(rstate, rworker, [v \in Worker |-> Traces(v)])'
    BY <1>1, <2>2, <2>3 DEF Owned, OwnedAs, Doing
  <2>6. Ordering(rstate, rworker, down, [v \in Worker |-> Traces(v)])'
    <3>1. \A c \in Conn : \A q : ~Executes(WorkerOf(c), q) => ~Executes(WorkerOf(c), q)'
      BY <2>2, ConnType
    <3> QED BY <1>1, <2>1, <2>3, <3>1, ConnType DEF Owned, OwnedAs, Ordering, Executes
  <2>7. Claiming(rstate, rworker, current)'
    BY <1>1 DEF Owned, OwnedAs, Claiming
  <2> QED BY <2>4, <2>5, <2>6, <2>7 DEF Owned, OwnedAs
<1> QED BY <1>5, <1>6, <1>7, <1>8, <1>9, <1>10, <1>11, <1>12, <1>13, <1>14, <1>15
        DEF WorkerStep, Hangup, ConnectionLost

LEMMA NextOwned ==
  ASSUME AllPersistent
  PROVE  TypeOK /\ Wire /\ Owned /\ Unmeddled /\ [Next]_vars /\ Unstopped'
           => Owned' /\ Unmeddled'
<1> SUFFICES ASSUME TypeOK, Wire, Owned, Unmeddled, [Next]_vars, Unstopped'
             PROVE  Owned' /\ Unmeddled'
  OBVIOUS
<1>1. Unmeddled'
  BY NeverStays DEF Unmeddled, Intervention
<1>2. ASSUME UNCHANGED vars PROVE Owned'
  <2>1. UNCHANGED <<rstate, rworker, current, slot, down>> /\ down \in [Conn -> Seq(Control)]
    BY <1>2 DEF vars, fabricVars, hubVars, storeVars, workerVars, TypeOK, FabricTypeOK
  <2>2. \A w \in Worker : Traces(w)' = Traces(w) /\ Settled(w)' = Settled(w)
    BY <1>2, SameTraces DEF vars, fabricVars, hubVars, memoryVars
  <2>3. FewerOrders(down, down)
    BY <2>1, SameOrders DEF Owned, OwnedAs
  <2> QED BY <2>1, <2>2, <2>3, OwnedKeeps
<1>3. Owned'
  BY <1>2, RequestOwned, HubStepOwned, WorkerStepOwned DEF Next
<1> QED BY <1>1, <1>3

Peaceful == \A what \in {"stuck", "crash", "resume"} : Never(what)

LEMMA InitOwned == Peaceful /\ Init => Owned /\ Unmeddled
<1> SUFFICES ASSUME Peaceful, Init PROVE Owned /\ Unmeddled
  OBVIOUS
<1> USE DEF Init, FabricInit, HubInit, WorkerInit
<1>1. Unmeddled
  BY DEF Peaceful, Never, Unmeddled, Unstopped, Over
<1>2. \A w \in Worker : Traces(w) = {} /\ Settled(w) = {}
  <2>1. Range(<<>>) = {}
    BY DEF Range
  <2>2. \A w \in Worker, k \in Socket : Range(up[<<w, k>>]) = {}
    BY <2>1 DEF Conn
  <2> QED BY <2>1, <2>2 DEF Kept, InFlight, Traces, Settled
<1>3. Traced(rstate, rworker, [w \in Worker |-> Traces(w)], [w \in Worker |-> Settled(w)])
  BY <1>2 DEF Traced
<1>4. Doing(rstate, rworker, [w \in Worker |-> Traces(w)])
  BY DEF Doing, Executes
<1>5. Ordering(rstate, rworker, down, [w \in Worker |-> Traces(w)])
  BY DEF Ordering
<1>6. Claiming(rstate, rworker, current)
  BY DEF Claiming
<1> QED BY <1>1, <1>3, <1>4, <1>5, <1>6 DEF Owned, OwnedAs

\* A stop is not forgotten.
LEMMA AskedGrows == [Next]_vars => asked \subseteq asked'
BY DEF Next, Request, vars

LEMMA FleetUnmeddled ==
  ASSUME AllPersistent, Peaceful
  PROVE  Spec => [](Unstopped => Owned /\ Unmeddled)
<1>1. Init => (Unstopped => Owned /\ Unmeddled)
  BY InitOwned
<1>2. TypeOK /\ Wire /\ (Unstopped => Owned /\ Unmeddled) /\ [Next]_vars
        => (Unstopped => Owned /\ Unmeddled)'
  <2> SUFFICES ASSUME TypeOK, Wire, Unstopped => Owned /\ Unmeddled, [Next]_vars, Unstopped'
               PROVE  Owned' /\ Unmeddled'
    OBVIOUS
  <2>1. Unstopped
    BY AskedGrows DEF Unstopped
  <2> QED BY <2>1, NextOwned
<1>3. Never("crash")
  BY DEF Peaceful
<1>4. Spec => []Wire
  BY <1>3, FleetWire
<1> QED BY <1>1, <1>2, <1>4, FleetTypeOK, PTL DEF Spec

LEMMA FleetUnstopped ==
  ASSUME Never("stop")
  PROVE  Spec => []Unstopped
<1>1. Init => Unstopped /\ Over("stop")
  BY DEF Init, FabricInit, Unstopped, Never, Over
<1>2. TypeOK /\ (Unstopped /\ Over("stop")) /\ [Next]_vars => (Unstopped /\ Over("stop"))'
  <2> SUFFICES ASSUME TypeOK, Unstopped, Over("stop"), [Next]_vars
               PROVE  Unstopped' /\ Over("stop")'
    OBVIOUS
  <2>1. Over("stop")' /\ ~Spend("stop")
    BY NeverStays DEF Intervention
  <2>2. \A r \in Run : ~StopRun(r)
    BY <2>1 DEF StopRun
  <2> QED BY <2>1, <2>2 DEF Unstopped, Next, Request, vars
<1> QED BY <1>1, <1>2, FleetTypeOK, PTL DEF Spec

LEMMA FleetOwned ==
  ASSUME AllPersistent, Peaceful, Never("stop")
  PROVE  Spec => [](Owned /\ Unmeddled)
BY FleetUnmeddled, FleetUnstopped, PTL

\* Whatever connections are lost, however late either end notices, whoever
\* falls silent and whenever the control plane restarts: a persistent worker
\* only ever executes a run that the store has assigned or running on it.
THEOREM FleetExecutorIsOwner ==
  ASSUME AllPersistent, Peaceful, Never("stop")
  PROVE  Spec => []ExecutorIsOwner
<1>1. Owned => ExecutorIsOwner
  BY DEF Owned, OwnedAs, Doing, ExecutorIsOwner
<1> QED BY <1>1, FleetOwned, PTL

\* And what a worker's row claims is an active run of its own, so that a
\* requeue or a detach never puts a finished run back in the queue.
THEOREM FleetClaimIsLive ==
  ASSUME AllPersistent, Peaceful, Never("stop")
  PROVE  Spec => []ClaimIsLive
<1>1. Owned => ClaimIsLive
  BY DEF Owned, OwnedAs, Claiming, ClaimIsLive
<1> QED BY <1>1, FleetOwned, PTL

-----------------------------------------------------------------------------
(***************************************************************************)
(* Sweeps.  Only the scheduler makes a child of a sweep active, and it     *)
(* counts; but a report that a job has started makes its run active too,   *)
(* even when the run has gone back to the queue meanwhile, where it is not *)
(* counted.  What bounds them all is the number of children that were ever *)
(* given out and have not ended: a report names a run that was, and the    *)
(* scheduler gives them out oldest first, so that those back in the queue  *)
(* are older than the one it would give out next, and counted with it.     *)
(* That fails when a run that has ended goes back to the queue, by way of  *)
(* a resume or of the detach of a leased worker.                           *)
(***************************************************************************)

\* A set of runs is empty or has a last one.
LEMMA LastOf ==
  ASSUME NEW D \in SUBSET Run, D # {}
  PROVE  \E m \in D : \A q \in D : q <= m
<1> DEFINE above(r) == {q \in D : q > r}
           T == {Cardinality(above(r)) : r \in D}
<1>1. /\ IsFiniteSet(D) /\ D \subseteq Nat
      /\ \A r \in D : IsFiniteSet(above(r)) /\ Cardinality(above(r)) \in Nat
  BY RunAssumption, FS_Subset, FS_CardinalityType
<1>2. T \in SUBSET Nat /\ T # {}
  BY <1>1
<1>3. PICK n \in T : \A k \in T : n <= k
  BY <1>2, LeastNatural
<1>4. PICK m \in D : n = Cardinality(above(m))
  BY <1>3
<1>5. ASSUME NEW q \in D, ~(q <= m) PROVE FALSE
  <2>1. q > m /\ q \in above(m) /\ above(q) \subseteq above(m) /\ q \notin above(q)
    <3>1. q \in Nat /\ m \in Nat /\ \A r \in D : r \in Nat
      BY <1>1
    <3>2. q > m
      BY <1>5, <3>1
    <3>3. \A r \in D : r > q => r > m
      BY <3>1, <3>2
    <3>4. ~(q > q)
      BY <3>1
    <3> QED BY <3>2, <3>3, <3>4
  <2> HIDE DEF above
  <2>2. Cardinality(above(q)) <= Cardinality(above(m))
           /\ (Cardinality(above(q)) = Cardinality(above(m)) => above(q) = above(m))
    BY <1>1, <2>1, FS_Subset
  <2>3. Cardinality(above(q)) < Cardinality(above(m))
    BY <1>1, <2>1, <2>2
  <2> QED BY <1>1, <1>3, <1>4, <2>3
<1> QED BY <1>5

\* The children of a sweep that were given out and have not ended.
GivenOut(st, wk, s) ==
    {r \in Run : SweepOf[r] = s /\ wk[r] # None /\ st[r] \notin Terminal}

\* Siblings are created together, and given out oldest first.
Queueing(st, wk) ==
    /\ \A r \in Run : /\ st[r] = "new" => wk[r] = None
                      /\ st[r] \in Active => wk[r] # None
    /\ \A q, r \in Run : SweepOf[q] = SweepOf[r] /\ SweepOf[r] # None =>
         /\ st[q] = "new" => st[r] = "new"
         /\ q < r /\ wk[r] # None => wk[q] # None \/ st[q] \in Terminal

Measured(st, wk) ==
    /\ Queueing(st, wk)
    /\ \A s \in Sweep : Concurrency[s] > 0 =>
         Cardinality(GivenOut(st, wk, s)) <= Concurrency[s]

\* A child is held no longer than those created after it.
LEMMA HeldInOrder ==
  ASSUME NEW st, NEW q \in Run, NEW r \in Run, q < r, SweepOf[q] = SweepOf[r], Held(st, q)
  PROVE  Held(st, r)
<1> DEFINE before(x) == {p \in Siblings(x) : \/ st[p] \in Active
                                             \/ st[p] = "queued" /\ p < x}
<1>1. Siblings(q) = Siblings(r) /\ Siblings(r) \subseteq Run
  BY DEF Siblings
<1>2. before(q) \subseteq before(r) /\ before(r) \subseteq Run
  <2> SUFFICES ASSUME NEW p \in before(q) PROVE p \in before(r)
    BY <1>1
  <2>1. p \in Nat /\ q \in Nat /\ r \in Nat
    BY <1>1, RunAssumption
  <2> QED BY <1>1, <2>1
<1>3. IsFiniteSet(before(r)) /\ IsFiniteSet(before(q))
  BY <1>2, RunAssumption, FS_Subset
<1>4. /\ Cardinality(before(q)) <= Cardinality(before(r))
      /\ Cardinality(before(q)) \in Nat /\ Cardinality(before(r)) \in Nat
  BY <1>2, <1>3, FS_Subset, FS_CardinalityType
<1>5. /\ SweepOf[q] # None /\ Concurrency[SweepOf[q]] > 0
      /\ Cardinality(before(q)) >= Concurrency[SweepOf[q]]
  BY DEF Held
<1>6. Concurrency[SweepOf[r]] \in Nat
  BY <1>5, SweepAssumption
<1> HIDE DEF before
<1>7. Cardinality(before(r)) >= Concurrency[SweepOf[r]]
  BY <1>4, <1>5, <1>6
<1> QED BY <1>5, <1>7 DEF Held, before

\* A pass does not hand a run out before an older one that it could.
LEMMA PumpOldestFirst ==
  ASSUME IsFiniteSet(Worker),
         NEW st, NEW wk, NEW cur, NEW gr, NEW lk, NEW sil, NEW dn,
         Pump(st, wk, cur, gr, lk, sil, dn)
  PROVE  \A q, r \in Run :
           q < r /\ st[q] = "queued" /\ ~Held(st, q) /\ st[r] = "queued" =>
             (rstate'[r] = "assigned" => rstate'[q] = "assigned")
<1>1. PICK f \in Assignments(st, cur, lk, sil) :
        rstate' = [r \in Run |-> IF r \in DOMAIN f THEN "assigned" ELSE st[r]]
  BY DEF Pump
<1> DEFINE free == EligibleForAssignment(cur, lk, sil)
           older(x) == {p \in Assignable(st) : p < x}
<1>2. DOMAIN f = {r \in Assignable(st) : Cardinality(older(r)) < Cardinality(free)}
  BY <1>1 DEF Assignments, Injection, IsInjective, Oldest
<1>3. Cardinality(free) \in Nat
  <2>1. free \subseteq Worker
    BY DEF EligibleForAssignment
  <2> QED BY <2>1, FS_Subset, FS_CardinalityType
<1> SUFFICES ASSUME NEW q \in Run, NEW r \in Run, q < r, st[q] = "queued", ~Held(st, q),
                    st[r] = "queued", rstate'[r] = "assigned"
             PROVE  rstate'[q] = "assigned"
  OBVIOUS
<1>4. r \in DOMAIN f /\ q \in Assignable(st)
  BY <1>1 DEF Assignable
<1>5. older(q) \subseteq older(r) /\ older(r) \subseteq Run
  <2>1. \A p \in Assignable(st) : p \in Run
    BY DEF Assignable
  <2> SUFFICES ASSUME NEW p \in older(q) PROVE p < r
    BY <2>1
  <2>2. p \in Nat /\ q \in Nat /\ r \in Nat /\ p < q
    BY <2>1, RunAssumption
  <2> QED BY <2>2
<1>6. /\ Cardinality(older(q)) <= Cardinality(older(r))
      /\ Cardinality(older(q)) \in Nat /\ Cardinality(older(r)) \in Nat
  <2>1. IsFiniteSet(older(r)) /\ IsFiniteSet(older(q))
    BY <1>5, RunAssumption, FS_Subset
  <2> QED BY <1>5, <2>1, FS_Subset, FS_CardinalityType
<1> HIDE DEF older, free
<1>7. Cardinality(older(r)) < Cardinality(free)
  BY <1>2, <1>4
<1>8. q \in DOMAIN f
  BY <1>2, <1>3, <1>4, <1>6, <1>7
<1> QED BY <1>1, <1>8

\* Of the children given out none becomes another, and who ended stays so.
LEMMA MeasuredLess ==
  ASSUME NEW st, NEW wk, Measured(st, wk), NEW st2, NEW wk2,
         \A r \in Run : /\ wk2[r] = None <=> wk[r] = None
                        /\ st[r] \in Terminal => st2[r] \in Terminal
                        /\ st2[r] = "new" => st[r] = "new"
                        /\ st2[r] \in Active => wk[r] # None,
         \A q, r \in Run : SweepOf[q] = SweepOf[r] /\ SweepOf[r] # None =>
           (st2[q] = "new" => st2[r] = "new")
  PROVE  Measured(st2, wk2)
<1>1. Queueing(st2, wk2)
  BY DEF Measured, Queueing
<1>2. ASSUME NEW s \in Sweep, Concurrency[s] > 0
      PROVE  Cardinality(GivenOut(st2, wk2, s)) <= Concurrency[s]
  <2>1. GivenOut(st2, wk2, s) \subseteq GivenOut(st, wk, s) /\ GivenOut(st, wk, s) \subseteq Run
    BY DEF GivenOut
  <2>2. IsFiniteSet(GivenOut(st, wk, s)) /\ IsFiniteSet(GivenOut(st2, wk2, s))
    BY <2>1, RunAssumption, FS_Subset
  <2>3. Cardinality(GivenOut(st2, wk2, s)) <= Cardinality(GivenOut(st, wk, s))
    BY <2>1, <2>2, FS_Subset
  <2>4. Cardinality(GivenOut(st, wk, s)) <= Concurrency[s]
    BY <1>2 DEF Measured
  <2> QED BY <2>2, <2>3, <2>4, FS_CardinalityType, SweepAssumption
<1> QED BY <1>1, <1>2 DEF Measured

\* The last child a pass hands out for the first time was not held: with
\* those before it, it fits.
LEMMA PumpMeasured ==
  ASSUME IsFiniteSet(Worker), NEW st \in [Run -> RunState], NEW wk,
         NEW cur, NEW gr, NEW lk, NEW sil, NEW dn,
         Pump(st, wk, cur, gr, lk, sil, dn), Measured(st, wk)
  PROVE  Measured(rstate', rworker') /\ \A r \in Run : wk[r] # None => rworker'[r] # None
<1>1. PICK f : HandsOut(f, st, wk, cur, lk, dn)
  BY PumpHandsOut
<1>2. /\ \A r \in DOMAIN f : /\ r \in Run /\ st[r] = "queued" /\ ~Held(st, r)
                             /\ rstate'[r] = "assigned" /\ rworker'[r] # None
      /\ \A r \in Run \ DOMAIN f : rstate'[r] = st[r] /\ rworker'[r] = wk[r]
  BY <1>1, WorkerAssumption DEF HandsOut
<1>3. /\ \A r \in Run : /\ st[r] = "new" => wk[r] = None
                        /\ st[r] \in Active => wk[r] # None
      /\ \A q, r \in Run : SweepOf[q] = SweepOf[r] /\ SweepOf[r] # None =>
           /\ st[q] = "new" => st[r] = "new"
           /\ q < r /\ wk[r] # None => wk[q] # None \/ st[q] \in Terminal
  BY DEF Measured, Queueing
<1>4. \A r \in Run : wk[r] # None => rworker'[r] # None
  BY <1>2
<1>5. ASSUME NEW q \in Run, NEW r \in Run, SweepOf[q] = SweepOf[r], SweepOf[r] # None,
             q < r, rworker'[r] # None
      PROVE  rworker'[q] # None \/ rstate'[q] \in Terminal
  <2>1. CASE wk[r] # None
    <3>1. wk[q] # None \/ st[q] \in Terminal
      BY <1>3, <1>5, <2>1
    <3>2. st[q] \in Terminal => rstate'[q] = st[q]
      BY <1>2 DEF Terminal
    <3> QED BY <1>4, <3>1, <3>2
  <2>2. CASE wk[r] = None
    <3>1. r \in DOMAIN f
      BY <1>2, <1>5, <2>2
    <3>2. st[r] = "queued" /\ ~Held(st, r) /\ rstate'[r] = "assigned" /\ st[q] # "new"
      BY <1>2, <1>3, <1>5, <3>1
    <3>3. CASE st[q] = "queued"
      <4>1. ~Held(st, q)
        BY <1>5, <3>2, HeldInOrder
      <4>2. rstate'[q] = "assigned"
        BY <1>5, <3>2, <3>3, <4>1, PumpOldestFirst
      <4>3. q \in DOMAIN f
        BY <1>2, <3>3, <4>2
      <4> QED BY <1>2, <4>3
    <3>4. CASE st[q] \in Active
      BY <1>3, <1>4, <3>4
    <3>5. CASE st[q] \in Terminal
      BY <1>2, <3>5 DEF Terminal
    <3> QED BY <3>2, <3>3, <3>4, <3>5 DEF RunState
  <2> QED BY <2>1, <2>2
<1>6. Queueing(rstate', rworker')
  <2>1. \A r \in Run : /\ rstate'[r] = "new" => rworker'[r] = None
                       /\ rstate'[r] \in Active => rworker'[r] # None
    BY <1>2, <1>3
  <2>2. \A q, r \in Run : SweepOf[q] = SweepOf[r] /\ SweepOf[r] # None =>
          (rstate'[q] = "new" => rstate'[r] = "new")
    <3>1. \A r \in Run : rstate'[r] = "new" <=> st[r] = "new"
      BY <1>2
    <3> QED BY <1>3, <3>1
  <2> QED BY <1>5, <2>1, <2>2 DEF Queueing
<1>7. ASSUME NEW s \in Sweep, Concurrency[s] > 0
      PROVE  Cardinality(GivenOut(rstate', rworker', s)) <= Concurrency[s]
  <2> DEFINE D == {r \in DOMAIN f : SweepOf[r] = s /\ wk[r] = None}
  <2>1. D \in SUBSET Run /\ Concurrency[s] \in Nat /\ s # None
    BY <1>2, SweepAssumption
  <2>2. CASE D = {}
    <3>1. GivenOut(rstate', rworker', s) \subseteq GivenOut(st, wk, s)
      BY <1>2, <2>2 DEF GivenOut, Terminal
    <3>2. GivenOut(st, wk, s) \subseteq Run
      BY DEF GivenOut
    <3>3. IsFiniteSet(GivenOut(st, wk, s)) /\ IsFiniteSet(GivenOut(rstate', rworker', s))
      BY <3>1, <3>2, RunAssumption, FS_Subset
    <3>4. Cardinality(GivenOut(rstate', rworker', s)) <= Cardinality(GivenOut(st, wk, s))
      BY <3>1, <3>3, FS_Subset
    <3>5. Cardinality(GivenOut(st, wk, s)) <= Concurrency[s]
      BY <1>7 DEF Measured
    <3> QED BY <2>1, <3>3, <3>4, <3>5, FS_CardinalityType
  <2>3. CASE D # {}
    <3>1. PICK m \in D : \A q \in D : q <= m
      BY <2>1, <2>3, LastOf
    <3> DEFINE A == {q \in Siblings(m) : \/ st[q] \in Active
                                         \/ st[q] = "queued" /\ q < m}
    <3>2. /\ m \in Run /\ SweepOf[m] = s /\ ~Held(st, m) /\ A \subseteq Run
          /\ st[m] = "queued" /\ wk[m] = None
      BY <1>2, <3>1 DEF Siblings
    <3>3. IsFiniteSet(A) /\ Cardinality(A) \in Nat
      BY <3>2, RunAssumption, FS_Subset, FS_CardinalityType
    <3>4. Cardinality(A) < Concurrency[s]
      BY <1>7, <2>1, <3>2, <3>3 DEF Held
    <3>5. GivenOut(rstate', rworker', s) \subseteq A \cup {m}
      <4> SUFFICES ASSUME NEW r \in Run, SweepOf[r] = s, rworker'[r] # None,
                          rstate'[r] \notin Terminal, r # m
                   PROVE  r \in A
        BY DEF GivenOut
      <4>1. r \in Siblings(m) /\ r \in Nat /\ m \in Nat
        BY <3>2, RunAssumption DEF Siblings
      <4>2. CASE r \in D
        BY <1>2, <3>1, <4>1, <4>2
      <4>3. CASE r \notin D
        <5>1. wk[r] # None /\ st[r] \notin Terminal /\ st[r] # "new"
          BY <1>2, <1>3, <4>3 DEF Terminal
        <5>2. st[r] = "queued" => ~(m < r)
          BY <1>3, <2>1, <3>2, <5>1 DEF Terminal
        <5>3. st[r] \in Active \/ st[r] = "queued"
          BY <5>1 DEF RunState
        <5> QED BY <4>1, <5>2, <5>3
      <4> QED BY <4>2, <4>3
    <3> HIDE DEF A
    <3>6. IsFiniteSet(A \cup {m}) /\ Cardinality(A \cup {m}) \in Nat
      BY <3>3, FS_AddElement, FS_CardinalityType
    <3>7. Cardinality(A \cup {m}) <= Cardinality(A) + 1
      <4>1. Cardinality(A \cup {m}) = IF m \in A THEN Cardinality(A) ELSE Cardinality(A) + 1
        BY <3>3, FS_AddElement
      <4> QED BY <3>3, <4>1
    <3>8. /\ Cardinality(GivenOut(rstate', rworker', s)) <= Cardinality(A \cup {m})
          /\ Cardinality(GivenOut(rstate', rworker', s)) \in Nat
      BY <3>5, <3>6, FS_Subset, FS_CardinalityType
    <3> QED BY <2>1, <3>3, <3>4, <3>6, <3>7, <3>8
  <2> QED BY <2>2, <2>3
<1> QED BY <1>4, <1>6, <1>7 DEF Measured

\* Events and control messages that name runs of S only.
EventOf(S) == {e \in Event : e.run \in S}

ControlOf(S) == {m \in Control : m.type \in {"assign", "cancel"} => m.run \in S}

\* Whatever is ordered, executes or is reported is a run of S.
Named(S) ==
    /\ outbox \in [Worker -> Seq(EventOf(S))]
    /\ jobrx \in [Worker -> Seq(EventOf(S))]
    /\ up \in [Conn -> Seq(EventOf(S))]
    /\ down \in [Conn -> Seq(ControlOf(S))]
    /\ \A w \in Worker : slot[w] # None => slot[w].run \in S

LEMMA NamedInMore ==
  ASSUME NEW S, NEW T, S \subseteq T
  PROVE  /\ Seq(EventOf(S)) \subseteq Seq(EventOf(T))
         /\ Seq(ControlOf(S)) \subseteq Seq(ControlOf(T))
<1>1. EventOf(S) \subseteq EventOf(T) /\ ControlOf(S) \subseteq ControlOf(T)
  BY DEF EventOf, ControlOf
<1> QED BY <1>1, SeqMonotonic

LEMMA ArrivesNamed ==
  ASSUME NEW S, Named(S), NEW c \in Conn, NEW type, Arrives(c, type)
  PROVE  /\ down' \in [Conn -> Seq(ControlOf(S))]
         /\ Head(down[c]) \in ControlOf(S) /\ Head(down[c]).type = type
<1>1. Head(down[c]) \in ControlOf(S) /\ Tail(down[c]) \in Seq(ControlOf(S))
  BY HeadTailProperties DEF Arrives, Named
<1> QED BY <1>1 DEF Arrives, Named

LEMMA EmitNamed ==
  ASSUME TypeOK, NEW S \in SUBSET Run, Named(S), NEW w \in Worker, NEW r \in S,
         NEW kind \in EventKind, Emit(w, r, kind)
  PROVE  jobrx' \in [Worker -> Seq(EventOf(S))]
<1>1. Stamp(w, r, kind) \in EventOf(S)
  BY DEF TypeOK, WorkerTypeOK, Stamp, Event, EventOf
<1>2. Append(jobrx[w], Stamp(w, r, kind)) \in Seq(EventOf(S))
  BY <1>1, AppendProperties DEF Named
<1> QED BY <1>2 DEF Named, Emit

LEMMA SendNamed ==
  ASSUME NEW S, Named(S), NEW c \in Conn, NEW events \in Seq(EventOf(S)), Send(c, events)
  PROVE  up' \in [Conn -> Seq(EventOf(S))]
<1>1. up[c] \o events \in Seq(EventOf(S))
  BY ConcatProperties DEF Named
<1> QED BY <1>1 DEF Send, Named

\* A worker reports the runs it was given, and those it was asked to stop.
LEMMA WorkerStepNamed ==
  ASSUME TypeOK, NEW S \in SUBSET Run, Named(S), WorkerStep
  PROVE  Named(S)'
<1> USE DEF Named
<1>1. /\ slot \in [Worker -> Job \cup {None}] /\ None \notin Run
      /\ \A m \in ControlOf(S) : m.type \in {"assign", "cancel"} => m.run \in S
      /\ \A m \in ControlOf(S) : m.type = "ack" => m.highWater \in Nat
      /\ <<>> \in Seq(EventOf(S)) /\ <<>> \in Seq(ControlOf(S))
  BY EmptySeq, RunAssumption
     DEF TypeOK, WorkerTypeOK, ControlOf, Control, Ack, Command, Drain
<1>2. ASSUME NEW c \in Conn, HelloAck(c) PROVE Named(S)'
  <2> DEFINE w == WorkerOf(c)
             kept == TrimToHighWater(outbox[w] \o jobrx[w], Head(down[c]).highWater)
  <2>1. w \in Worker /\ Arrives(c, "ack")
    BY <1>2, ConnType DEF HelloAck
  <2>2. down' \in [Conn -> Seq(ControlOf(S))] /\ Head(down[c]).highWater \in Nat
    BY <1>1, <2>1, ArrivesNamed
  <2>3. kept \in Seq(EventOf(S))
    BY <2>1, <2>2, ConcatProperties, TrimType
  <2>4. /\ outbox' = [outbox EXCEPT ![w] = kept] /\ jobrx' = [jobrx EXCEPT ![w] = <<>>]
        /\ Send(c, kept) /\ UNCHANGED slot
    BY <1>2 DEF HelloAck
  <2> HIDE DEF kept
  <2>5. up' \in [Conn -> Seq(EventOf(S))]
    BY <2>3, <2>4, SendNamed
  <2> QED BY <1>1, <2>2, <2>3, <2>4, <2>5
<1>3. ASSUME NEW c \in Conn, Forward(c) PROVE Named(S)'
  <2> DEFINE w == WorkerOf(c)
             h == Head(jobrx[w])
  <2>1. w \in Worker /\ jobrx[w] # <<>>
    BY <1>3, ConnType DEF Forward
  <2>2. h \in EventOf(S) /\ Tail(jobrx[w]) \in Seq(EventOf(S))
    BY <2>1, HeadTailProperties
  <2>3. /\ outbox' = [outbox EXCEPT ![w] = Append(@, h)]
        /\ jobrx' = [jobrx EXCEPT ![w] = Tail(@)]
        /\ Send(c, <<h>>) /\ UNCHANGED <<slot, down>>
    BY <1>3 DEF Forward
  <2> HIDE DEF h
  <2>4. Append(outbox[w], h) \in Seq(EventOf(S)) /\ <<h>> \in Seq(EventOf(S))
    BY <2>1, <2>2, AppendProperties
  <2>5. up' \in [Conn -> Seq(EventOf(S))]
    BY <2>3, <2>4, SendNamed
  <2> QED BY <2>2, <2>3, <2>4, <2>5
<1>4. ASSUME NEW c \in Conn, AssignJob(c) PROVE Named(S)'
  <2> DEFINE w == WorkerOf(c)
             m == Head(down[c])
  <2>1. w \in Worker /\ Arrives(c, "assign") /\ UNCHANGED <<jobrx, up>>
    BY <1>4, ConnType DEF AssignJob
  <2>2. down' \in [Conn -> Seq(ControlOf(S))] /\ m.run \in S
    BY <1>1, <2>1, ArrivesNamed
  <2>3. \/ UNCHANGED <<slot, outbox>>
        \/ /\ slot' = [slot EXCEPT ![w] = Spawned(m.run)]
           /\ outbox' = [outbox EXCEPT ![w] = <<>>]
    BY <1>4 DEF AssignJob
  <2> HIDE DEF m
  <2>4. outbox' \in [Worker -> Seq(EventOf(S))]
    BY <1>1, <2>3
  <2>5. \A v \in Worker : slot'[v] # None => slot'[v].run \in S
    BY <1>1, <2>1, <2>2, <2>3 DEF Spawned
  <2> QED BY <2>1, <2>2, <2>4, <2>5
<1>5. ASSUME NEW c \in Conn, Cancel(c) PROVE Named(S)'
  <2> DEFINE w == WorkerOf(c)
             killed == IF slot[w] = None THEN Head(down[c]).run ELSE slot[w].run
  <2>1. /\ w \in Worker /\ Arrives(c, "cancel") /\ UNCHANGED <<outbox, up>>
        /\ slot' = [slot EXCEPT ![w] = None]
        /\ Emit(w, killed, "killed_cancel") /\ "killed_cancel" \in EventKind
    BY <1>5, ConnType DEF Cancel, EventKind
  <2>2. down' \in [Conn -> Seq(ControlOf(S))] /\ killed \in S
    BY <1>1, <2>1, ArrivesNamed
  <2> HIDE DEF killed
  <2>3. jobrx' \in [Worker -> Seq(EventOf(S))]
    BY <2>1, <2>2, EmitNamed
  <2>4. \A v \in Worker : slot'[v] # None => slot'[v].run \in S
    BY <1>1, <2>1
  <2> QED BY <2>1, <2>2, <2>3, <2>4
<1>6. ASSUME NEW c \in Conn, DrainRequest(c) PROVE Named(S)'
  BY <1>6, ArrivesNamed DEF DrainRequest
<1>7. ASSUME NEW c \in Conn, SelfDrain(c) PROVE Named(S)'
  BY <1>7 DEF SelfDrain, fabricVars
<1>8. ASSUME NEW c \in Conn, EndSession(c) PROVE Named(S)'
  <2>1. /\ UNCHANGED <<outbox, jobrx, up>> /\ down' = [down EXCEPT ![c] = <<>>]
        /\ \A v \in Worker : slot'[v] \in {slot[v], None}
    BY <1>1, <1>8 DEF EndSession
  <2> QED BY <1>1, <2>1
<1>9. ASSUME NEW w \in Worker, Crash(w) PROVE Named(S)'
  <2>1. /\ outbox' = [outbox EXCEPT ![w] = <<>>] /\ jobrx' = [jobrx EXCEPT ![w] = <<>>]
        /\ slot' = [slot EXCEPT ![w] = None] /\ UNCHANGED up
        /\ down' = [c \in Conn |-> IF WorkerOf(c) = w THEN <<>> ELSE down[c]]
    BY <1>9 DEF Crash
  <2>2. \A v \in Worker : slot'[v] # None => slot'[v].run \in S
    BY <1>1, <2>1
  <2> QED BY <1>1, <2>1, <2>2
<1>10. ASSUME NEW w \in Worker, NEW kind \in EventKind, slot[w] # None,
              Emit(w, slot[w].run, kind), UNCHANGED <<outbox, up, down>>,
              NEW phase \in {"running", "reported", "finished"},
              slot' = [slot EXCEPT ![w].phase = phase]
       PROVE  Named(S)'
  <2>1. jobrx' \in [Worker -> Seq(EventOf(S))]
    BY <1>10, EmitNamed
  <2>2. \A v \in Worker : slot'[v] # None => slot'[v].run \in S
    BY <1>1, <1>10 DEF Job
  <2> QED BY <1>10, <2>1, <2>2
<1>11. ASSUME NEW w \in Worker, ExecutorStart(w) PROVE Named(S)'
  BY <1>10, <1>11 DEF ExecutorStart, EventKind, fabricVars
<1>12. ASSUME NEW w \in Worker, ExecutorEnd(w) PROVE Named(S)'
  <2>1. PICK kind \in ExitKind : Emit(w, slot[w].run, kind)
    BY <1>12 DEF ExecutorEnd
  <2>2. PICK phase \in {"finished", "reported"} : slot' = [slot EXCEPT ![w].phase = phase]
    BY <1>12 DEF ExecutorEnd
  <2>3. kind \in EventKind
    BY ExitAssumption DEF EventKind
  <2>4. slot[w] # None /\ UNCHANGED <<outbox, up, down>>
    BY <1>12 DEF ExecutorEnd
  <2> QED BY <1>10, <2>1, <2>2, <2>3, <2>4
<1>13. ASSUME NEW w \in Worker, ExecutorFinish(w) PROVE Named(S)'
  <2>1. /\ slot' = [slot EXCEPT ![w].phase = "finished"] /\ slot[w] # None
        /\ UNCHANGED <<outbox, jobrx, up, down>>
    BY <1>13 DEF ExecutorFinish, fabricVars
  <2>2. \A v \in Worker : slot'[v] # None => slot'[v].run \in S
    BY <1>1, <2>1 DEF Job
  <2> QED BY <2>1, <2>2
<1> QED BY <1>2, <1>3, <1>4, <1>5, <1>6, <1>7, <1>8, <1>9, <1>11, <1>12, <1>13
        DEF WorkerStep, Hangup, ConnectionLost

\* The runs that were ever given out, whatever has become of them.
Given(wk) == {r \in Run : wk[r] # None}

Orderly == Measured(rstate, rworker) /\ Named(Given(rworker))

\* A handler gives none out before its pass, and takes none back that ended.
Advances(st, wk) ==
    /\ \A r \in Run : /\ wk[r] = None <=> rworker[r] = None
                      /\ rstate[r] \in Terminal => st[r] \in Terminal
                      /\ st[r] = "new" => rstate[r] = "new"
                      /\ st[r] \in Active => rworker[r] # None
    /\ \A q, r \in Run : SweepOf[q] = SweepOf[r] /\ SweepOf[r] # None =>
         (st[q] = "new" => st[r] = "new")

LEMMA SameAdvances == Orderly => Advances(rstate, rworker)
BY DEF Orderly, Measured, Queueing, Advances

\* A handler that ends in a pump.
LEMMA PumpOrderly ==
  ASSUME IsFiniteSet(Worker), TypeOK, Orderly, UNCHANGED workerVars,
         NEW st \in [Run -> RunState], NEW wk, Advances(st, wk),
         NEW cur, NEW gr, NEW lk, NEW sil,
         NEW dn \in [Conn -> Seq(ControlOf(Given(rworker)))],
         Pump(st, wk, cur, gr, lk, sil, dn),
         up' \in [Conn -> Seq(EventOf(Given(rworker)))]
  PROVE  Orderly'
<1>1. Measured(st, wk)
  BY MeasuredLess DEF Orderly, Advances
<1>2. Measured(rstate', rworker') /\ \A r \in Run : wk[r] # None => rworker'[r] # None
  BY <1>1, PumpMeasured
<1>3. PICK S : S = Given(rworker)
  OBVIOUS
<1>4. PICK T : T = Given(rworker')
  OBVIOUS
<1>5. PICK f : HandsOut(f, st, wk, cur, lk, dn)
  BY PumpHandsOut
<1>6. S \subseteq T /\ T \subseteq Run /\ DOMAIN f \subseteq T
  <2>1. \A r \in DOMAIN f : r \in Run /\ rworker'[r] # None
    BY <1>5, WorkerAssumption DEF HandsOut
  <2> QED BY <1>2, <1>3, <1>4, <2>1 DEF Given, Advances
<1>7. Seq(EventOf(S)) \subseteq Seq(EventOf(T)) /\ Seq(ControlOf(S)) \subseteq Seq(ControlOf(T))
  BY <1>6, NamedInMore
<1>8. Named(S) /\ dn \in [Conn -> Seq(ControlOf(S))] /\ up' \in [Conn -> Seq(EventOf(S))]
  BY <1>3 DEF Orderly
<1>9. down' \in [Conn -> Seq(ControlOf(T))]
  <2>1. ASSUME NEW c \in Conn PROVE down'[c] \in Seq(ControlOf(T))
    <3>1. dn[c] \in Seq(ControlOf(T))
      BY <1>7, <1>8
    <3>2. CASE down'[c] = dn[c]
      BY <3>1, <3>2
    <3>3. ASSUME NEW r \in DOMAIN f, down'[c] = Append(dn[c], AssignOf(r))
          PROVE  down'[c] \in Seq(ControlOf(T))
      <4>1. AssignOf(r) \in ControlOf(T)
        BY <1>6 DEF AssignOf, Control, Command, ControlOf
      <4> QED BY <3>1, <3>3, <4>1, AppendProperties
    <3> QED BY <1>5, <3>2, <3>3 DEF HandsOut
  <2>2. down' = [c \in Conn |-> down'[c]]
    BY DEF Pump
  <2> QED BY <2>1, <2>2
<1>10. Named(T)'
  BY <1>6, <1>7, <1>8, <1>9 DEF Named, workerVars
<1>11. Named(Given(rworker))'
  BY <1>4, <1>10 DEF Named
<1> QED BY <1>2, <1>11 DEF Orderly

\* A handler that gives nothing out.
LEMMA OrderlyKeeps ==
  ASSUME TypeOK, Orderly, UNCHANGED workerVars, Advances(rstate', rworker'),
         down' \in [Conn -> Seq(ControlOf(Given(rworker)))],
         up' \in [Conn -> Seq(EventOf(Given(rworker)))]
  PROVE  Orderly'
<1>1. Measured(rstate', rworker')
  BY MeasuredLess DEF Orderly, Advances
<1>2. Given(rworker') = Given(rworker)
  BY DEF Given, Advances
<1>3. PICK S : S = Given(rworker)
  OBVIOUS
<1>4. Named(S)'
  <2>1. Named(S)
    BY <1>3 DEF Orderly
  <2>2. down' \in [Conn -> Seq(ControlOf(S))] /\ up' \in [Conn -> Seq(EventOf(S))]
    BY <1>3
  <2> QED BY <2>1, <2>2 DEF Named, workerVars
<1>5. Named(Given(rworker))'
  BY <1>2, <1>3, <1>4 DEF Named
<1> QED BY <1>1, <1>5 DEF Orderly

LEMMA RequestOrderly ==
  ASSUME IsFiniteSet(Worker), TypeOK, Orderly, Over("resume"), Request, UNCHANGED workerVars
  PROVE  Orderly'
<1> USE DEF TypeOK, FabricTypeOK, HubTypeOK
<1>1. /\ Advances(rstate, rworker) /\ Measured(rstate, rworker)
      /\ down \in [Conn -> Seq(ControlOf(Given(rworker)))]
      /\ up \in [Conn -> Seq(EventOf(Given(rworker)))]
  BY SameAdvances DEF Orderly, Named
<1>2. ASSUME NEW S \in SUBSET Run, Create(S),
             \A q, r \in Run : SweepOf[q] = SweepOf[r] /\ SweepOf[r] # None => (q \in S <=> r \in S)
      PROVE  Orderly'
  <2> DEFINE st == Requeue(rstate, S)
  <2>1. /\ Pump(st, rworker, current, grants, link, silent, down)
        /\ \A r \in S : rstate[r] = "new" /\ UNCHANGED up
    BY <1>2 DEF Create
  <2>2. up' = up
    BY <1>2 DEF Create
  <2>3. st \in [Run -> RunState] /\ Advances(st, rworker)
    <3>1. /\ \A r \in S : st[r] = "queued" /\ rstate[r] = "new"
          /\ \A r \in Run \ S : st[r] = rstate[r]
      BY <2>1 DEF Requeue
    <3>2. \A q, r \in Run : SweepOf[q] = SweepOf[r] /\ SweepOf[r] # None =>
            (st[q] = "new" => st[r] = "new")
      BY <1>1, <1>2, <3>1 DEF Advances
    <3> QED BY <1>1, <3>1, <3>2, RequeueType DEF Advances, Active, Terminal
  <2> HIDE DEF st
  <2> QED BY <1>1, <2>1, <2>2, <2>3, PumpOrderly
<1>3. ASSUME NEW r \in Run, Submit(r) PROVE Orderly'
  <2>1. SweepOf[r] = None /\ Create({r})
    BY <1>3 DEF Submit
  <2> QED BY <1>2, <2>1
<1>4. ASSUME NEW s \in Sweep, SubmitSweep(s) PROVE Orderly'
  BY <1>2, <1>4 DEF SubmitSweep
<1>5. ASSUME NEW r \in Run, SignalCancel(r) PROVE Orderly'
  <2>1. /\ rworker[r] # None /\ rworker[r] \in Worker /\ link[rworker[r]] # None
        /\ down' = Post(down, rworker[r], CancelOf(r))
        /\ UNCHANGED <<rstate, rworker, up>>
    BY <1>5 DEF SignalCancel, storeVars, memoryVars
  <2>2. CancelOf(r) \in ControlOf(Given(rworker))
    BY <2>1 DEF CancelOf, Control, Command, ControlOf, Given
  <2>3. <<rworker[r], link[rworker[r]]>> \in Conn
    BY <2>1 DEF Conn
  <2>4. down' \in [Conn -> Seq(ControlOf(Given(rworker)))]
    BY <1>1, <2>1, <2>2, <2>3, AppendProperties DEF Post
  <2> QED BY <1>1, <2>1, <2>4, OrderlyKeeps
<1>6. ASSUME NEW r \in Run, CancelNow(r), rstate[r] # "new" PROVE Orderly'
  <2> DEFINE cur == [w \in Worker |-> IF w = rworker[r] THEN None ELSE current[w]]
             st == [rstate EXCEPT ![r] = "cancelled"]
  <2>1. /\ Pump(st, rworker, cur, grants \ {r}, link, silent, down)
        /\ up' = up
    BY <1>6 DEF CancelNow
  <2>2. st \in [Run -> RunState]
    BY DEF RunState, Terminal
  <2>3. Advances(st, rworker)
    BY <1>1, <1>6 DEF Advances, Active, Terminal
  <2> HIDE DEF st, cur
  <2> QED BY <1>1, <2>1, <2>2, <2>3, PumpOrderly
<1>7. \A r \in Run : ~ResumeRun(r)
  BY DEF Over, ResumeRun, Spend, Intervention
<1> QED BY <1>3, <1>4, <1>5, <1>6, <1>7 DEF Request, StopRun

LEMMA DetachOrderly ==
  ASSUME IsFiniteSet(Worker), TypeOK, Orderly, AllPersistent, UNCHANGED workerVars,
         NEW w \in Worker, NEW dn \in [Conn -> Seq(ControlOf(Given(rworker)))], Detach(w, dn),
         up' \in [Conn -> Seq(EventOf(Given(rworker)))]
  PROVE  Orderly'
<1> DEFINE lk == [link EXCEPT ![w] = None]
<1>1. Pump(Requeue(rstate, {}), rworker, current, grants \ {}, lk, silent, dn)
  BY DEF Detach, AllPersistent
<1>2. Requeue(rstate, {}) = rstate /\ rstate \in [Run -> RunState] /\ Advances(rstate, rworker)
  BY SameAdvances DEF Requeue, TypeOK, HubTypeOK
<1> HIDE DEF lk
<1> QED BY <1>1, <1>2, PumpOrderly

\* Only what names a run that was given out makes it active.
LEMMA OnMessageOrderly ==
  ASSUME IsFiniteSet(Worker), TypeOK, Orderly, NEW c \in Conn, OnMessage(c), UNCHANGED workerVars
  PROVE  Orderly'
<1> DEFINE w == WorkerOf(c)
           e == Head(up[c])
           r == e.run
<1>1. /\ Advances(rstate, rworker) /\ Measured(rstate, rworker)
      /\ down \in [Conn -> Seq(ControlOf(Given(rworker)))]
      /\ up \in [Conn -> Seq(EventOf(Given(rworker)))]
      /\ w \in Worker /\ w # None
  BY ConnType, SameAdvances, WorkerAssumption DEF Orderly, Named
<1>2. up[c] # <<>> /\ up' = [up EXCEPT ![c] = Tail(@)]
  BY DEF OnMessage
<1>3. e \in EventOf(Given(rworker)) /\ Tail(up[c]) \in Seq(EventOf(Given(rworker)))
  BY <1>1, <1>2, HeadTailProperties
<1>4. r \in Run /\ rworker[r] # None
  BY <1>3 DEF EventOf, Given
<1>5. up' \in [Conn -> Seq(EventOf(Given(rworker)))]
  BY <1>1, <1>2, <1>3
<1>6. rstate \in [Run -> RunState] /\ rworker \in [Run -> Worker \cup {None}] /\ rstate[r] # "new"
  BY <1>1, <1>4 DEF TypeOK, HubTypeOK, Measured, Queueing
<1>7. \/ UNCHANGED <<rstate, rworker, down>>
      \/ JobStarted(w, r)
      \/ FinishRun(w, r, FinalState(e.kind), silent \ {w})
  BY DEF OnMessage
<1> HIDE DEF e, r
<1>8. CASE UNCHANGED <<rstate, rworker, down>>
  BY <1>1, <1>5, <1>8, OrderlyKeeps
<1>9. CASE JobStarted(w, r)
  <2>1. \/ UNCHANGED <<rstate, rworker>>
        \/ /\ rstate[r] \notin Terminal
           /\ rstate' = [rstate EXCEPT ![r] = "running"] /\ rworker' = [rworker EXCEPT ![r] = w]
    BY <1>9 DEF JobStarted
  <2>2. Advances(rstate', rworker')
    BY <1>1, <1>4, <1>6, <2>1 DEF Advances
  <2> QED BY <1>1, <1>5, <1>9, <2>2, OrderlyKeeps DEF JobStarted
<1>10. CASE FinishRun(w, r, FinalState(e.kind), silent \ {w})
  <2> DEFINE st == [rstate EXCEPT ![r] = FinalState(e.kind)]
             wk == [rworker EXCEPT ![r] = w]
             cur == [current EXCEPT ![w] = None]
  <2>1. Pump(st, wk, cur, grants \ {r}, link, silent \ {w}, down)
    BY <1>10 DEF FinishRun
  <2>2. FinalState(e.kind) \in Terminal
    BY DEF FinalState, Terminal
  <2>3. st \in [Run -> RunState]
    BY <1>6, <2>2 DEF RunState
  <2>4. Advances(st, wk)
    BY <1>1, <1>4, <1>6, <2>2 DEF Advances, Active, Terminal
  <2> HIDE DEF st, wk, cur
  <2> QED BY <1>1, <1>5, <2>1, <2>3, <2>4, PumpOrderly
<1> QED BY <1>7, <1>8, <1>9, <1>10

LEMMA HubStepOrderly ==
  ASSUME IsFiniteSet(Worker), TypeOK, Orderly, AllPersistent, HubStep, UNCHANGED workerVars
  PROVE  Orderly'
<1>1. /\ Advances(rstate, rworker)
      /\ down \in [Conn -> Seq(ControlOf(Given(rworker)))]
      /\ up \in [Conn -> Seq(EventOf(Given(rworker)))]
      /\ <<>> \in Seq(EventOf(Given(rworker))) /\ <<>> \in Seq(ControlOf(Given(rworker)))
      /\ rstate \in [Run -> RunState]
  BY EmptySeq, SameAdvances DEF Orderly, Named, TypeOK, HubTypeOK
<1>2. ASSUME UNCHANGED <<rstate, rworker, down, up>> PROVE Orderly'
  BY <1>1, <1>2, OrderlyKeeps
<1>3. ASSUME NEW c \in Conn, Attach(c) PROVE Orderly'
  <2> DEFINE w == WorkerOf(c)
             hw == IF highWater[w] = NoSeq THEN SeqOrigin ELSE highWater[w]
             lk == [link EXCEPT ![w] = SocketOf(c)]
             dn == [down EXCEPT ![c] = <<AckOf(hw)>>]
  <2>1. hw \in Nat
    BY ConnType DEF NoSeq, SeqOrigin, TypeOK, HubTypeOK
  <2>2. <<AckOf(hw)>> \in Seq(ControlOf(Given(rworker)))
    <3>1. AckOf(hw) \in ControlOf(Given(rworker))
      BY <2>1 DEF AckOf, Control, Ack, ControlOf
    <3> HIDE DEF hw
    <3> QED BY <3>1
  <2>3. dn \in [Conn -> Seq(ControlOf(Given(rworker)))]
    BY <1>1, <2>2
  <2>4. Pump(rstate, rworker, current, grants, lk, silent \ {w}, dn) /\ up' = up
    BY <1>3 DEF Attach
  <2> HIDE DEF dn, lk
  <2> QED BY <1>1, <2>3, <2>4, PumpOrderly
<1>4. ASSUME NEW c \in Conn, Unserve(c) PROVE Orderly'
  <2> DEFINE dn == IF c \in dialled THEN down ELSE [down EXCEPT ![c] = <<>>]
  <2>1. Detach(WorkerOf(c), dn) /\ up' = [up EXCEPT ![c] = <<>>] /\ WorkerOf(c) \in Worker
    BY <1>4, ConnType DEF Unserve
  <2>2. /\ dn \in [Conn -> Seq(ControlOf(Given(rworker)))]
        /\ up' \in [Conn -> Seq(EventOf(Given(rworker)))]
    BY <1>1, <2>1
  <2> HIDE DEF dn
  <2> QED BY <2>1, <2>2, DetachOrderly
<1>5. ASSUME NEW c \in Conn, Heartbeat(c) PROVE Orderly'
  BY <1>2, <1>5 DEF Heartbeat, fabricVars
<1>6. ASSUME NEW w \in Worker, Lapse(w) PROVE Orderly'
  BY <1>2, <1>6 DEF Lapse
<1>7. ASSUME NEW w \in Worker, ReapStale(w) PROVE Orderly'
  BY <1>1, <1>7, DetachOrderly DEF ReapStale
<1>8. \A w \in Worker : ~DrainLease(w)
  BY DEF DrainLease, AllPersistent
<1>9. ASSUME NEW w \in Worker, ExtendLease(w) PROVE Orderly'
  BY <1>2, <1>9 DEF ExtendLease
<1>10. ASSUME NEW S \in SUBSET Run, StuckAssignments(S) PROVE Orderly'
  <2> DEFINE held == {rworker[r] : r \in S}
             cur == [w \in Worker |-> IF w \in held THEN None ELSE current[w]]
             st == Requeue(rstate, S)
  <2>1. /\ Pump(st, rworker, cur, grants \ S, link, silent, down) /\ up' = up
        /\ \A r \in S : rstate[r] = "assigned"
    BY <1>10 DEF StuckAssignments, ReapStuck
  <2>2. st \in [Run -> RunState] /\ Advances(st, rworker)
    <3>1. /\ \A r \in S : st[r] = "queued" /\ rstate[r] = "assigned"
          /\ \A r \in Run \ S : st[r] = rstate[r]
      BY <2>1 DEF Requeue
    <3> QED BY <1>1, <3>1, RequeueType DEF Advances, Active, Terminal
  <2> HIDE DEF st, cur
  <2> QED BY <1>1, <2>1, <2>2, PumpOrderly
<1>11. ASSUME Restart PROVE Orderly'
  <2>1. /\ UNCHANGED <<rstate, rworker>> /\ up' = [c \in Conn |-> <<>>]
        /\ down' = [c \in Conn |-> IF c \in dialled THEN down[c] ELSE <<>>]
    BY <1>11 DEF Restart, storeVars
  <2>2. /\ down' \in [Conn -> Seq(ControlOf(Given(rworker)))]
        /\ up' \in [Conn -> Seq(EventOf(Given(rworker)))]
    BY <1>1, <2>1
  <2> QED BY <1>1, <2>1, <2>2, OrderlyKeeps
<1> QED BY <1>3, <1>4, <1>5, <1>6, <1>7, <1>8, <1>9, <1>10, <1>11, OnMessageOrderly
        DEF HubStep, SessionEnd, SessionLost

LEMMA NextOrderly ==
  ASSUME IsFiniteSet(Worker), AllPersistent
  PROVE  TypeOK /\ (Orderly /\ Over("resume")) /\ [Next]_vars => (Orderly /\ Over("resume"))'
<1> SUFFICES ASSUME TypeOK, Orderly, Over("resume"), [Next]_vars PROVE Orderly' /\ Over("resume")'
  OBVIOUS
<1>1. Over("resume")'
  BY NeverStays DEF Intervention
<1>2. ASSUME WorkerStep, UNCHANGED hubVars PROVE Orderly'
  <2>1. PICK S : S = Given(rworker)
    OBVIOUS
  <2>2. Named(S) /\ S \in SUBSET Run
    BY <2>1 DEF Orderly, Given
  <2>3. Named(S)'
    BY <1>2, <2>2, WorkerStepNamed
  <2>4. UNCHANGED <<rstate, rworker>>
    BY <1>2 DEF hubVars, storeVars
  <2>5. Named(Given(rworker))'
    BY <2>1, <2>3, <2>4 DEF Named, Given
  <2> QED BY <2>4, <2>5 DEF Orderly
<1>3. ASSUME UNCHANGED vars PROVE Orderly'
  <2>1. UNCHANGED <<rstate, rworker, down, up, workerVars>>
    BY <1>3 DEF vars, hubVars, storeVars, fabricVars
  <2> QED BY <2>1 DEF Orderly, Named, Given, workerVars
<1>4. Orderly'
  BY <1>2, <1>3, RequestOrderly, HubStepOrderly DEF Next
<1> QED BY <1>1, <1>4

LEMMA InitOrderly == Init => Orderly
<1> SUFFICES ASSUME Init PROVE Orderly
  OBVIOUS
<1> USE DEF Init, FabricInit, HubInit, WorkerInit
<1>1. Queueing(rstate, rworker)
  BY DEF Queueing, Active
<1>2. ASSUME NEW s \in Sweep, Concurrency[s] > 0
      PROVE  Cardinality(GivenOut(rstate, rworker, s)) <= Concurrency[s]
  <2>1. GivenOut(rstate, rworker, s) = {}
    BY DEF GivenOut
  <2>2. Cardinality(GivenOut(rstate, rworker, s)) = 0
    BY <2>1, FS_EmptySet
  <2> QED BY <2>2, SweepAssumption
<1>3. Named(Given(rworker))
  BY EmptySeq DEF Named
<1> QED BY <1>1, <1>2, <1>3 DEF Orderly, Measured

\* The children of a sweep that the store has assigned or running never
\* exceed its concurrency: whatever connections and messages are lost,
\* whenever the control plane restarts or a worker's process dies, however
\* early an assignment is given up, and whichever runs are stopped.
THEOREM FleetSweepWithinConcurrency ==
  ASSUME IsFiniteSet(Worker), AllPersistent, Never("resume")
  PROVE  Spec => []SweepWithinConcurrency
<1>1. Init => Orderly /\ Over("resume")
  BY InitOrderly DEF Never, Over, Init, FabricInit
<1>2. TypeOK /\ (Orderly /\ Over("resume")) /\ [Next]_vars => (Orderly /\ Over("resume"))'
  BY NextOrderly
<1>3. Orderly => SweepWithinConcurrency
  <2> SUFFICES ASSUME Orderly, NEW s \in Sweep, Concurrency[s] > 0
               PROVE  Cardinality({r \in Run : SweepOf[r] = s /\ rstate[r] \in Active}) <= Concurrency[s]
    BY DEF SweepWithinConcurrency
  <2> DEFINE A == {r \in Run : SweepOf[r] = s /\ rstate[r] \in Active}
             G == GivenOut(rstate, rworker, s)
  <2>1. A \subseteq G /\ G \subseteq Run
    BY DEF GivenOut, Orderly, Measured, Queueing, Active, Terminal
  <2>2. IsFiniteSet(A) /\ IsFiniteSet(G)
    BY <2>1, RunAssumption, FS_Subset
  <2>3. Cardinality(A) <= Cardinality(G)
    BY <2>1, <2>2, FS_Subset
  <2>4. Cardinality(G) <= Concurrency[s]
    BY DEF Orderly, Measured
  <2> HIDE DEF A, G
  <2>5. Cardinality(A) <= Concurrency[s]
    BY <2>2, <2>3, <2>4, FS_CardinalityType, SweepAssumption
  <2> QED BY <2>5 DEF A
<1> QED BY <1>1, <1>2, <1>3, FleetTypeOK, PTL DEF Spec

-----------------------------------------------------------------------------
(***************************************************************************)
(* Hands.  As long as the control plane does not forget its high-water     *)
(* marks, a persistent worker keeps whatever it has yet to report, has one *)
(* run in hand at most, ordered, executing or to be reported, and that is  *)
(* the one in its row; and what it has to report of a run that does not    *)
(* execute any more includes how it ended.                                 *)
(***************************************************************************)

Owes(r, ow) == \E e \in ow : e.run = r /\ e.kind # "started"

Owing ==
    \A w \in Worker :
      /\ Unreported(w) \subseteq Kept(w)
      /\ \A e, f \in Traces(w) : e.run = f.run /\ f.kind # "started" => e.seq <= f.seq
      /\ \A e \in Unreported(w) : Underway(w, e.run) \/ Owes(e.run, Unreported(w))
      /\ \A r \in Run : Executes(w, r) /\ ~Underway(w, r) => \A e \in Traces(w) : e.run # r

\* A worker is never told of more than was applied.
Acknowledged ==
    \A c \in Conn : \A m \in Range(down[c]) :
      m.type = "ack" /\ m.highWater > SeqOrigin => m.highWater <= highWater[WorkerOf(c)]

\* The rows, the orders and what is owed, as a handler leaves them behind.
RowsAs(st, wk, cur, dn, ow) ==
    /\ \A w \in Worker :
         /\ \A r \in Run : Executes(w, r) => cur[w] = r
         /\ \A e \in ow[w] : cur[w] = e.run
         /\ \A r \in Run :
              /\ st[r] = "running" /\ wk[r] = w => Underway(w, r) \/ Owes(r, ow[w])
              /\ st[r] = "assigned" /\ wk[r] = w =>
                   /\ cur[w] = r
                   /\ Underway(w, r) \/ Owes(r, ow[w])
                        => \E e \in ow[w] : e.run = r /\ e.kind = "started"
    /\ \A c \in Conn : \A m \in Range(dn[c]) : m.type = "assign" => cur[WorkerOf(c)] = m.run

InHands == RowsAs(rstate, rworker, current, down, [w \in Worker |-> Unreported(w)])

Handed == Owing /\ Acknowledged /\ InHands

\* What a message or an event names is a run.
LEMMA NamesRuns ==
  ASSUME TypeOK
  PROVE  /\ \A c \in Conn : \A m \in Range(down[c]) : m \in Control
         /\ \A m \in Control : m.type = "assign" => m.run \in Run /\ m = AssignOf(m.run)
         /\ \A w \in Worker : \A e \in Traces(w) : e \in Event /\ e.run \in Run
<1>1. \A s \in Seq(Control) : \A m \in Range(s) : m \in Control
  BY LenProperties DEF Range
<1>2. \A c \in Conn : \A m \in Range(down[c]) : m \in Control
  BY <1>1 DEF TypeOK, FabricTypeOK
<1>3. \A m \in Control : m.type = "assign" => m.run \in Run /\ m = AssignOf(m.run)
  BY DEF Control, Ack, Command, Drain, AssignOf
<1>4. \A w \in Worker : \A e \in Traces(w) : e \in Event /\ e.run \in Run
  BY TracesType DEF Event
<1> QED BY <1>2, <1>3, <1>4

LEMMA UnreportedIs ==
  \A w : Unreported(w) = {e \in Kept(w) \cup InFlight(w) : e.seq > highWater[w]}
BY DEF Unreported, Kept, InFlight

LEMMA UnreportedType ==
  ASSUME TypeOK
  PROVE  \A w \in Worker : \A e \in Unreported(w) :
           /\ e \in Traces(w) /\ e \in Event /\ e.run \in Run /\ e.seq \in Nat
           /\ highWater[w] \in Int
BY UnreportedIs, NamesRuns, EventsType DEF Traces, Event

\* Who is handed a run had none, and the run was in no one's hands.
LEMMA PumpRows ==
  ASSUME TypeOK, NEW st \in [Run -> RunState], NEW wk \in [Run -> Worker \cup {None}],
         NEW cur \in [Worker -> Run \cup {None}], NEW gr, NEW lk, NEW sil,
         NEW dn \in [Conn -> Seq(Control)], NEW ow,
         \A w \in Worker : \A e \in ow[w] : e.run \in Run,
         RowsAs(st, wk, cur, dn, ow), Pump(st, wk, cur, gr, lk, sil, dn)
  PROVE  RowsAs(rstate', rworker', current', down', ow)
<1>1. PICK f : HandsOut(f, st, wk, cur, lk, dn)
  BY PumpHandsOut
<1>2. /\ \A r \in DOMAIN f : /\ r \in Run /\ st[r] = "queued" /\ f[r] \in Worker /\ cur[f[r]] = None
                             /\ rstate'[r] = "assigned" /\ rworker'[r] = f[r]
                             /\ current'[f[r]] = r
      /\ \A r \in Run \ DOMAIN f : rstate'[r] = st[r] /\ rworker'[r] = wk[r]
      /\ \A w \in Worker : (\E r \in DOMAIN f : f[r] = w) \/ current'[w] = cur[w]
      /\ None \notin Run
  BY <1>1, RunAssumption DEF HandsOut
<1>3. ASSUME NEW w \in Worker, cur[w] # None PROVE current'[w] = cur[w]
  BY <1>2, <1>3
<1>4. ASSUME NEW w \in Worker
      PROVE  /\ \A r \in Run : Executes(w, r) => current'[w] = r
             /\ \A e \in ow[w] : current'[w] = e.run
  BY <1>2, <1>3 DEF RowsAs
<1>5. ASSUME NEW w \in Worker, NEW r \in Run, rstate'[r] = "running", rworker'[r] = w
      PROVE  Underway(w, r) \/ Owes(r, ow[w])
  BY <1>2, <1>5 DEF RowsAs
<1>6. ASSUME NEW w \in Worker, NEW r \in Run, rstate'[r] = "assigned", rworker'[r] = w
      PROVE  /\ current'[w] = r
             /\ Underway(w, r) \/ Owes(r, ow[w])
                  => \E e \in ow[w] : e.run = r /\ e.kind = "started"
  <2>1. CASE r \in DOMAIN f
    <3>1. current'[w] = r /\ cur[w] = None
      BY <1>2, <1>6, <2>1
    <3>2. ~Underway(w, r)
      BY <1>2, <3>1 DEF RowsAs, Underway, Executes
    <3>3. ~Owes(r, ow[w])
      BY <1>2, <3>1 DEF RowsAs, Owes
    <3> QED BY <3>1, <3>2, <3>3
  <2>2. CASE r \notin DOMAIN f
    <3>1. st[r] = "assigned" /\ wk[r] = w
      BY <1>2, <1>6, <2>2
    <3>2. cur[w] = r
      BY <3>1 DEF RowsAs
    <3> QED BY <1>2, <1>3, <3>1, <3>2 DEF RowsAs
  <2> QED BY <2>1, <2>2
<1>7. ASSUME NEW c \in Conn, NEW m \in Range(down'[c]), m.type = "assign"
      PROVE  current'[WorkerOf(c)] = m.run
  <2>1. WorkerOf(c) \in Worker
    BY ConnType
  <2>2. ASSUME m \in Range(dn[c]) PROVE current'[WorkerOf(c)] = m.run
    <3>1. cur[WorkerOf(c)] = m.run
      BY <1>7, <2>2 DEF RowsAs
    <3>2. m \in Control
      BY <2>2, LenProperties DEF Range
    <3>3. m.run \in Run
      BY <1>7, <3>2 DEF Control, Ack, Command, Drain
    <3> QED BY <1>2, <1>3, <2>1, <3>1, <3>3
  <2>3. ASSUME NEW r \in DOMAIN f, f[r] = WorkerOf(c), down'[c] = Append(dn[c], AssignOf(r))
        PROVE  current'[WorkerOf(c)] = m.run
    <3>1. AssignOf(r) \in Control /\ AssignOf(r).run = r
      BY <1>2 DEF AssignOf, Control, Command
    <3>2. m \in Range(dn[c]) \/ m = AssignOf(r)
      BY <2>3, <3>1, RangeOfAppend
    <3> QED BY <1>2, <2>2, <2>3, <3>1, <3>2
  <2> QED BY <1>1, <2>2, <2>3 DEF HandsOut
<1> QED BY <1>4, <1>5, <1>6, <1>7 DEF RowsAs

\* Acknowledgements stay true: a pass adds none.
LEMMA PumpAcknowledged ==
  ASSUME NEW st, NEW wk, NEW cur, NEW gr, NEW lk, NEW sil, NEW dn \in [Conn -> Seq(Control)],
         Pump(st, wk, cur, gr, lk, sil, dn)
  PROVE  \A c \in Conn : \A m \in Range(down'[c]) : m.type = "ack" => m \in Range(dn[c])
<1>1. PICK f : HandsOut(f, st, wk, cur, lk, dn)
  BY PumpHandsOut
<1> SUFFICES ASSUME NEW c \in Conn, NEW m \in Range(down'[c]), m.type = "ack"
             PROVE  m \in Range(dn[c])
  OBVIOUS
<1>2. ASSUME NEW r \in DOMAIN f, down'[c] = Append(dn[c], AssignOf(r))
      PROVE  m \in Range(dn[c])
  <2>1. AssignOf(r) \in Control /\ AssignOf(r).type = "assign"
    BY <1>1 DEF HandsOut, AssignOf, Control, Command
  <2>2. Range(down'[c]) = Range(dn[c]) \cup {AssignOf(r)}
    BY <1>2, <2>1, RangeOfAppend
  <2> QED BY <2>1, <2>2
<1> QED BY <1>1, <1>2 DEF HandsOut

LEMMA AckedStays ==
  ASSUME TypeOK, Acknowledged, \A w \in Worker : highWater'[w] \in Int /\ highWater'[w] >= highWater[w],
         \A c \in Conn : \A m \in Range(down'[c]) : m.type = "ack" => m \in Range(down[c])
  PROVE  Acknowledged'
<1> SUFFICES ASSUME NEW c \in Conn, NEW m \in Range(down'[c]), m.type = "ack",
                    m.highWater > SeqOrigin
             PROVE  m.highWater <= highWater'[WorkerOf(c)]
  BY DEF Acknowledged
<1>1. m \in Range(down[c]) /\ m \in Control /\ WorkerOf(c) \in Worker
  BY NamesRuns, ConnType
<1>2. m.highWater \in Nat /\ m.highWater <= highWater[WorkerOf(c)] /\ highWater[WorkerOf(c)] \in Int
  BY <1>1, EventsType DEF Acknowledged, Control, Ack, Command, Drain
<1> QED BY <1>1, <1>2

\* A step that reports nothing, and settles what it settles in order.
LEMMA OwingStep ==
  ASSUME TypeOK, Owing,
         \A w \in Worker :
           /\ Traces(w)' \subseteq Traces(w)
           /\ Unreported(w)' \subseteq Unreported(w) /\ Unreported(w)' \subseteq Kept(w)'
           /\ \A e \in Unreported(w)', f \in Unreported(w) : e.seq <= f.seq => f \in Unreported(w)'
           /\ \A r \in Run : /\ Underway(w, r) => Underway(w, r)'
                             /\ Executes(w, r)' /\ ~Underway(w, r)' =>
                                  \/ Executes(w, r) /\ ~Underway(w, r)
                                  \/ \A e \in Traces(w) : e.run # r
  PROVE  Owing'
<1>1. ASSUME NEW w \in Worker, NEW e \in Unreported(w)'
      PROVE  Underway(w, e.run)' \/ \E f \in Unreported(w)' : f.run = e.run /\ f.kind # "started"
  <2>1. e \in Unreported(w) /\ e \in Traces(w) /\ e.run \in Run
    BY <1>1, UnreportedType
  <2>2. CASE Underway(w, e.run)
    BY <2>1, <2>2
  <2>3. ASSUME NEW f \in Unreported(w), f.run = e.run, f.kind # "started"
        PROVE  f \in Unreported(w)'
    <3>1. f \in Traces(w)
      BY UnreportedType
    <3> QED BY <1>1, <2>1, <2>3, <3>1 DEF Owing
  <2> QED BY <2>1, <2>2, <2>3 DEF Owing, Owes
<1>2. ASSUME NEW w \in Worker
      PROVE  /\ Unreported(w)' \subseteq Kept(w)'
             /\ \A e, f \in Traces(w)' : e.run = f.run /\ f.kind # "started" => e.seq <= f.seq
             /\ \A r \in Run : Executes(w, r)' /\ ~Underway(w, r)' => \A e \in Traces(w)' : e.run # r
  BY DEF Owing
<1> QED BY <1>1, <1>2 DEF Owing, Owes

\* Losing a session's unread events loses nothing that is owed.
LEMMA SameOwed ==
  ASSUME TypeOK, Owing, UNCHANGED <<workerVars, highWater>>,
         \A c \in Conn : Range(up'[c]) \subseteq Range(up[c])
  PROVE  /\ Owing' /\ UNCHANGED slot
         /\ \A w \in Worker : Unreported(w)' = Unreported(w)
<1>1. /\ \A w \in Worker : Traces(w)' \subseteq Traces(w)
      /\ UNCHANGED slot
  BY FewerTraces DEF workerVars
<1>2. \A w \in Worker : Kept(w)' = Kept(w) /\ InFlight(w)' \subseteq InFlight(w)
  BY DEF workerVars, Kept, InFlight, Conn
<1>3. \A w \in Worker : Unreported(w)' = Unreported(w)
  <2> SUFFICES ASSUME NEW w \in Worker PROVE Unreported(w)' = Unreported(w)
    OBVIOUS
  <2>1. Unreported(w) = {e \in Kept(w) \cup InFlight(w) : e.seq > highWater[w]}
    BY UnreportedIs
  <2>2. Unreported(w)' = {e \in Kept(w)' \cup InFlight(w)' : e.seq > highWater'[w]}
    BY DEF Unreported, Kept, InFlight
  <2>3. Unreported(w) \subseteq Kept(w)
    BY DEF Owing
  <2> QED BY <1>2, <2>1, <2>2, <2>3
<1>4. \A w \in Worker : Unreported(w)' \subseteq Kept(w)'
  BY <1>2, <1>3 DEF Owing
<1>5. \A w \in Worker, r \in Run : /\ Underway(w, r)' <=> Underway(w, r)
                                   /\ Executes(w, r)' <=> Executes(w, r)
  BY <1>1 DEF Underway, Executes
<1>6. Owing'
  BY <1>1, <1>3, <1>4, <1>5, OwingStep
<1> QED BY <1>1, <1>3, <1>6

LEMMA InHandsAfter ==
  ASSUME UNCHANGED slot,
         RowsAs(rstate', rworker', current', down', [w \in Worker |-> Unreported(w)'])
  PROVE  InHands'
<1>1. [w \in Worker |-> Unreported(w)]' = [w \in Worker |-> Unreported(w)']
  OBVIOUS
<1> QED BY <1>1 DEF InHands, RowsAs, Executes, Underway

\* Nothing is reported or settled, and no job starts or ends.
Quiet == \A w \in Worker : /\ Unreported(w)' = Unreported(w)
                           /\ \A r \in Run : Underway(w, r)' <=> Underway(w, r)

\* A step that leaves what is kept, or what of it is yet to be reported.
LEMMA KeptHanded ==
  ASSUME TypeOK, Handed, UNCHANGED <<rstate, rworker, current, highWater>>,
         \A w \in Worker : /\ Kept(w)' \subseteq Kept(w)
                           /\ InFlight(w)' \subseteq InFlight(w) \cup Kept(w)
                           /\ Unreported(w) \subseteq Kept(w)',
         \A w \in Worker, r \in Run : /\ Underway(w, r)' <=> Underway(w, r)
                                      /\ Executes(w, r)' <=> Executes(w, r),
         \A c \in Conn : \A m \in Range(down'[c]) : m \in Range(down[c])
  PROVE  Handed' /\ Quiet
<1>1. \A w \in Worker : Unreported(w)' = Unreported(w)
  <2> SUFFICES ASSUME NEW w \in Worker PROVE Unreported(w)' = Unreported(w)
    OBVIOUS
  <2>1. Unreported(w) = {e \in Kept(w) \cup InFlight(w) : e.seq > highWater[w]}
    BY UnreportedIs
  <2>2. Unreported(w)' = {e \in Kept(w)' \cup InFlight(w)' : e.seq > highWater[w]}
    BY DEF Unreported, Kept, InFlight
  <2> QED BY <2>1, <2>2
<1>2. \A w \in Worker : Traces(w)' \subseteq Traces(w)
  BY DEF Traces
<1>3. Owing'
  BY <1>1, <1>2, OwingStep DEF Handed
<1>4. Acknowledged'
  <2>1. \A w \in Worker : highWater'[w] \in Int /\ highWater'[w] >= highWater[w]
    BY EventsType
  <2> QED BY <2>1, AckedStays DEF Handed
<1>5. RowsAs(rstate, rworker, current, down, [w \in Worker |-> Unreported(w)])
  BY DEF Handed, InHands
<1>6. RowsAs(rstate, rworker, current, down, [w \in Worker |-> Unreported(w)])'
  <2>1. [w \in Worker |-> Unreported(w)]' = [w \in Worker |-> Unreported(w)]
    BY <1>1
  <2> DEFINE ow == [w \in Worker |-> Unreported(w)]
  <2>2. ow' = ow
    BY <2>1
  <2>3. RowsAs(rstate, rworker, current, down, ow)
    BY <1>5
  <2> HIDE DEF ow
  <2>4. RowsAs(rstate, rworker, current, down, ow)'
    BY <2>2, <2>3 DEF RowsAs
  <2> QED BY <2>4 DEF ow
<1> QED BY <1>1, <1>3, <1>4, <1>6 DEF Handed, InHands, Quiet

\* A handler that ends in a pump.
LEMMA PumpHanded ==
  ASSUME TypeOK, Owing', UNCHANGED slot,
         \A w \in Worker : Unreported(w)' \subseteq Unreported(w),
         NEW st \in [Run -> RunState], NEW wk \in [Run -> Worker \cup {None}],
         NEW cur \in [Worker -> Run \cup {None}], NEW gr, NEW lk, NEW sil,
         NEW dn \in [Conn -> Seq(Control)],
         RowsAs(st, wk, cur, dn, [w \in Worker |-> Unreported(w)']),
         Pump(st, wk, cur, gr, lk, sil, dn),
         \A w \in Worker : highWater'[w] \in Int,
         \A c \in Conn : \A m \in Range(dn[c]) :
           m.type = "ack" /\ m.highWater > SeqOrigin => m.highWater <= highWater'[WorkerOf(c)]
  PROVE  Handed'
<1> DEFINE ow == [w \in Worker |-> Unreported(w)']
<1>1. \A w \in Worker : \A e \in ow[w] : e.run \in Run
  BY UnreportedType
<1> HIDE DEF ow
<1>2. RowsAs(rstate', rworker', current', down', ow)
  BY <1>1, PumpRows DEF ow
<1>3. InHands'
  BY <1>2, InHandsAfter DEF ow
<1>4. Acknowledged'
  BY PumpAcknowledged DEF Acknowledged
<1> QED BY <1>3, <1>4 DEF Handed

\* Rows that claim no less and promise no more.
LEMMA RowsRequeued ==
  ASSUME NEW st, NEW wk, NEW cur, NEW dn, NEW ow, RowsAs(st, wk, cur, dn, ow), NEW S
  PROVE  RowsAs(Requeue(st, S), wk, cur, dn, ow)
<1>1. \A r \in Run : Requeue(st, S)[r] \in {"running", "assigned"} => Requeue(st, S)[r] = st[r]
  BY DEF Requeue
<1> QED BY <1>1 DEF RowsAs

LEMMA RowsSame ==
  ASSUME InHands, \A w \in Worker : Unreported(w)' = Unreported(w), NEW dn,
         \A c \in Conn : \A m \in Range(dn[c]) : m.type = "assign" => m \in Range(down[c])
  PROVE  RowsAs(rstate, rworker, current, dn, [w \in Worker |-> Unreported(w)'])
<1>1. [w \in Worker |-> Unreported(w)'] = [w \in Worker |-> Unreported(w)]
  OBVIOUS
<1> QED BY <1>1 DEF InHands, RowsAs

LEMMA RequestHanded ==
  ASSUME TypeOK, Handed, Unmeddled, Unstopped', Request, UNCHANGED workerVars
  PROVE  Handed'
<1> USE DEF TypeOK, FabricTypeOK, HubTypeOK
<1>1. ASSUME NEW S \in SUBSET Run, Create(S) PROVE Handed'
  <2> DEFINE st == Requeue(rstate, S)
  <2>1. /\ Pump(st, rworker, current, grants, link, silent, down)
        /\ UNCHANGED <<up, highWater>>
    BY <1>1 DEF Create
  <2>2. /\ Owing' /\ UNCHANGED slot
        /\ \A w \in Worker : Unreported(w)' = Unreported(w)
    BY <2>1, SameOwed DEF Handed
  <2>3. RowsAs(st, rworker, current, down, [w \in Worker |-> Unreported(w)'])
    BY <2>2, RowsSame, RowsRequeued DEF Handed
  <2>4. st \in [Run -> RunState] /\ \A w \in Worker : highWater'[w] \in Int
    BY <2>1, RequeueType, EventsType
  <2> HIDE DEF st
  <2> QED BY <2>1, <2>2, <2>3, <2>4, PumpHanded DEF Handed, Acknowledged
<1>2. ASSUME NEW r \in Run, Submit(r) PROVE Handed'
  BY <1>1, <1>2 DEF Submit
<1>3. ASSUME NEW s \in Sweep, SubmitSweep(s) PROVE Handed'
  BY <1>1, <1>3 DEF SubmitSweep
<1>4. \A r \in Run : ~ResumeRun(r) /\ asked' # asked \cup {r}
  BY DEF Unmeddled, Unstopped, Over, ResumeRun, Spend, Intervention
<1> QED BY <1>2, <1>3, <1>4 DEF Request

\* An assignment given up for lost was in no hand, and its worker's is free.
LEMMA StuckHanded ==
  ASSUME TypeOK, Handed, Unmeddled, NEW S \in SUBSET Run, StuckAssignments(S), UNCHANGED workerVars
  PROVE  Handed'
<1> DEFINE held == {rworker[r] : r \in S}
           cur == [w \in Worker |-> IF w \in held THEN None ELSE current[w]]
           st == Requeue(rstate, S)
           ow == [w \in Worker |-> Unreported(w)']
<1>1. /\ \A r \in S : rstate[r] = "assigned"
      /\ \A r \in S, w \in Worker : ~InHand(w, r)
      /\ Pump(st, rworker, cur, grants \ S, link, silent, down)
      /\ UNCHANGED <<up, highWater>>
  BY DEF StuckAssignments, ReapStuck, Unmeddled, Over, Spend, TypeOK, FabricTypeOK, Intervention
<1>2. /\ Owing' /\ UNCHANGED slot
      /\ \A w \in Worker : Unreported(w)' = Unreported(w)
  BY <1>1, SameOwed DEF Handed
<1>3. RowsAs(rstate, rworker, current, down, ow)
  BY <1>2, RowsSame DEF Handed
<1>4. \A w \in Worker : \A e \in ow[w] : e \in Unreported(w) /\ e.run \in Run
  BY <1>2, UnreportedType
<1> HIDE DEF ow
<1>5. ASSUME NEW w \in Worker, w \in held
      PROVE  \E r \in S : current[w] = r
  BY <1>1, <1>3, <1>5 DEF RowsAs
<1>6. ASSUME NEW w \in Worker
      PROVE  /\ \A r \in Run : Executes(w, r) => cur[w] = r
             /\ \A e \in ow[w] : cur[w] = e.run
             /\ \A r \in Run : st[r] = "running" /\ rworker[r] = w =>
                                 Underway(w, r) \/ Owes(r, ow[w])
             /\ \A r \in Run : st[r] = "assigned" /\ rworker[r] = w =>
                  /\ cur[w] = r
                  /\ Underway(w, r) \/ Owes(r, ow[w])
                       => \E e \in ow[w] : e.run = r /\ e.kind = "started"
  <2>1. \A r \in Run : st[r] \in {"running", "assigned"} => st[r] = rstate[r] /\ r \notin S
    BY DEF Requeue
  <2>2. CASE w \notin held
    BY <1>3, <2>1, <2>2 DEF RowsAs
  <2>3. CASE w \in held
    <3>1. PICK r \in S : current[w] = r
      BY <1>5, <2>3
    <3>2. \A q \in Run : ~Executes(w, q)
      BY <1>1, <1>3, <3>1 DEF RowsAs, InHand
    <3>3. \A e \in ow[w] : FALSE
      BY <1>1, <1>3, <1>4, <3>1 DEF RowsAs, InHand, Reporting
    <3>4. \A q \in Run : ~(st[q] = "assigned" /\ rworker[q] = w)
      BY <1>3, <2>1, <3>1 DEF RowsAs
    <3>5. \A q \in Run : st[q] = "running" /\ rworker[q] = w => Underway(w, q) \/ Owes(q, ow[w])
      BY <1>3, <2>1 DEF RowsAs
    <3> QED BY <3>2, <3>3, <3>4, <3>5
  <2> QED BY <2>2, <2>3
<1>7. ASSUME NEW c \in Conn, NEW m \in Range(down[c]), m.type = "assign"
      PROVE  cur[WorkerOf(c)] = m.run
  <2>1. WorkerOf(c) \in Worker /\ SocketOf(c) \in Socket /\ c = <<WorkerOf(c), SocketOf(c)>>
    BY ConnType
  <2>2. current[WorkerOf(c)] = m.run /\ m = AssignOf(m.run)
    BY <1>3, <1>7, NamesRuns DEF RowsAs
  <2>3. Ordered(WorkerOf(c), m.run)
    BY <2>1, <2>2 DEF Ordered, Range
  <2>4. WorkerOf(c) \notin held
    BY <1>1, <1>5, <2>1, <2>2, <2>3 DEF InHand
  <2> QED BY <2>1, <2>2, <2>4
<1>8. RowsAs(st, rworker, cur, down, ow)
  BY <1>6, <1>7 DEF RowsAs
<1>9. /\ st \in [Run -> RunState] /\ cur \in [Worker -> Run \cup {None}]
      /\ rworker \in [Run -> Worker \cup {None}] /\ down \in [Conn -> Seq(Control)]
      /\ \A w \in Worker : highWater'[w] \in Int
  BY <1>1, RequeueType, EventsType DEF TypeOK, HubTypeOK, FabricTypeOK
<1> HIDE DEF st, cur
<1> QED BY <1>1, <1>2, <1>8, <1>9, PumpHanded DEF Handed, Acknowledged, ow

LEMMA AttachHanded ==
  ASSUME TypeOK, Handed, NEW c \in Conn, Attach(c), UNCHANGED workerVars
  PROVE  Handed'
<1> USE DEF TypeOK, FabricTypeOK, HubTypeOK
<1> DEFINE w == WorkerOf(c)
           hw == IF highWater[w] = NoSeq THEN SeqOrigin ELSE highWater[w]
           lk == [link EXCEPT ![w] = SocketOf(c)]
           s == <<AckOf(hw)>>
           dn == [down EXCEPT ![c] = s]
<1>1. w \in Worker /\ hw \in Nat /\ (hw > SeqOrigin => hw = highWater[w])
  BY ConnType DEF NoSeq, SeqOrigin
<1>2. s \in Seq(Control) /\ \A m \in Range(s) : m.type = "ack" /\ m.highWater = hw
  <2>1. AckOf(hw) \in Control /\ AckOf(hw).type = "ack" /\ AckOf(hw).highWater = hw
    BY <1>1 DEF AckOf, Control, Ack
  <2> HIDE DEF hw
  <2> QED BY <2>1 DEF Range
<1>3. Pump(rstate, rworker, current, grants, lk, silent \ {w}, dn) /\ UNCHANGED <<up, highWater>>
  BY DEF Attach
<1> HIDE DEF s, hw
<1>4. /\ dn \in [Conn -> Seq(Control)]
      /\ \A d \in Conn : \A m \in Range(dn[d]) : m.type = "assign" => m \in Range(down[d])
  BY <1>2
<1>5. ASSUME NEW d \in Conn, NEW m \in Range(dn[d]), m.type = "ack", m.highWater > SeqOrigin
      PROVE  m.highWater <= highWater'[WorkerOf(d)]
  <2>1. CASE d = c
    BY <1>1, <1>2, <1>3, <1>5, <2>1
  <2>2. CASE d # c
    BY <1>3, <1>5, <2>2 DEF Handed, Acknowledged
  <2> QED BY <2>1, <2>2
<1>6. /\ Owing' /\ UNCHANGED slot
      /\ \A v \in Worker : Unreported(v)' = Unreported(v)
      /\ \A v \in Worker : highWater'[v] \in Int
  BY <1>3, SameOwed, EventsType DEF Handed
<1> HIDE DEF dn, lk
<1>7. RowsAs(rstate, rworker, current, dn, [v \in Worker |-> Unreported(v)'])
  BY <1>4, <1>6, RowsSame DEF Handed
<1> QED BY <1>3, <1>4, <1>5, <1>6, <1>7, PumpHanded

LEMMA DetachHanded ==
  ASSUME TypeOK, Handed, AllPersistent, NEW w \in Worker,
         NEW dn \in [Conn -> Seq(Control)], Detach(w, dn), UNCHANGED workerVars,
         \A c \in Conn : \A m \in Range(dn[c]) : m \in Range(down[c]),
         \A c \in Conn : Range(up'[c]) \subseteq Range(up[c])
  PROVE  Handed'
<1> USE DEF TypeOK, FabricTypeOK, HubTypeOK
<1> DEFINE lk == [link EXCEPT ![w] = None]
<1>1. Pump(Requeue(rstate, {}), rworker, current, grants \ {}, lk, silent, dn) /\ UNCHANGED highWater
  BY DEF Detach, AllPersistent
<1>2. Requeue(rstate, {}) = rstate
  BY DEF Requeue
<1>3. /\ Owing' /\ UNCHANGED slot
      /\ \A v \in Worker : Unreported(v)' = Unreported(v)
      /\ \A v \in Worker : highWater'[v] \in Int
  BY <1>1, SameOwed, EventsType DEF Handed
<1> HIDE DEF lk
<1>4. RowsAs(rstate, rworker, current, dn, [v \in Worker |-> Unreported(v)'])
  BY <1>3, RowsSame DEF Handed
<1>5. \A c \in Conn : \A m \in Range(dn[c]) :
        m.type = "ack" /\ m.highWater > SeqOrigin => m.highWater <= highWater'[WorkerOf(c)]
  BY <1>1 DEF Handed, Acknowledged
<1> QED BY <1>1, <1>2, <1>3, <1>4, <1>5, PumpHanded

LEMMA UnserveHanded ==
  ASSUME TypeOK, Handed, AllPersistent, NEW c \in Conn, Unserve(c), UNCHANGED workerVars
  PROVE  Handed'
<1> DEFINE dn == IF c \in dialled THEN down ELSE [down EXCEPT ![c] = <<>>]
<1>1. /\ Detach(WorkerOf(c), dn)
      /\ up' = [up EXCEPT ![c] = <<>>]
      /\ up \in [Conn -> Seq(Event)] /\ down \in [Conn -> Seq(Control)]
  BY DEF Unserve, TypeOK, FabricTypeOK
<1>2. Range(<<>>) = {} /\ <<>> \in Seq(Control)
  BY EmptySeq DEF Range
<1>3. /\ dn \in [Conn -> Seq(Control)]
      /\ \A d \in Conn : \A m \in Range(dn[d]) : m \in Range(down[d])
  BY <1>1, <1>2
<1>4. \A d \in Conn : Range(up'[d]) \subseteq Range(up[d])
  BY <1>1, <1>2
<1> HIDE DEF dn
<1> QED BY <1>1, <1>3, <1>4, ConnType, DetachHanded

\* Reading a message settles what it says, and no more.
LEMMA OnMessageSettles ==
  ASSUME TypeOK, Wire, Handed, NEW c \in Conn, OnMessage(c), UNCHANGED workerVars
  PROVE  LET w == WorkerOf(c)
             e == Head(up[c])
         IN  /\ Owing' /\ UNCHANGED slot
             /\ \A v \in Worker : highWater'[v] \in Int /\ highWater'[v] >= highWater[v]
             /\ \A v \in Worker : v # w \/ e.seq <= highWater[w] => Unreported(v)' = Unreported(v)
             /\ e.seq > highWater[w] => /\ e \in Unreported(w)
                                        /\ Unreported(w)' = {f \in Unreported(w) : f.seq > e.seq}
<1> DEFINE w == WorkerOf(c)
           e == Head(up[c])
<1>1. /\ w \in Worker /\ e \in Event /\ e \in InFlight(w)
      /\ Range(up[c]) = {e} \cup Range(up'[c])
      /\ \A d \in Conn : d # c => up'[d] = up[d]
      /\ highWater' = [highWater EXCEPT ![w] = IF e.seq <= @ THEN @ ELSE e.seq]
  BY OnMessageReads DEF Wire
<1> HIDE DEF e
<1>2. /\ UNCHANGED slot /\ e.seq \in Nat
      /\ \A v \in Worker : Kept(v)' = Kept(v) /\ highWater[v] \in Int
  BY <1>1, EventsType DEF workerVars, Kept, Event
<1>3. \A v \in Worker : InFlight(v)' \subseteq InFlight(v)
  <2>1. \A d \in Conn : Range(up'[d]) \subseteq Range(up[d])
    BY <1>1
  <2> QED BY <2>1 DEF InFlight, Conn
<1>4. \A v \in Worker : highWater'[v] \in Int /\ highWater'[v] >= highWater[v]
  BY <1>1, <1>2 DEF TypeOK, HubTypeOK
<1>5. \A v \in Worker : Unreported(v)' = {f \in Unreported(v) : f.seq > highWater'[v]}
  <2> SUFFICES ASSUME NEW v \in Worker
               PROVE  Unreported(v)' = {f \in Unreported(v) : f.seq > highWater'[v]}
    OBVIOUS
  <2>1. /\ Unreported(v) = {f \in Kept(v) \cup InFlight(v) : f.seq > highWater[v]}
        /\ Unreported(v) \subseteq Kept(v)
    BY UnreportedIs DEF Handed, Owing
  <2>2. Unreported(v)' = {f \in Kept(v)' \cup InFlight(v)' : f.seq > highWater'[v]}
    BY DEF Unreported, Kept, InFlight
  <2>3. \A f \in Kept(v) \cup InFlight(v) : f.seq \in Nat
    BY EventsType
  <2>4. /\ highWater[v] \in Int /\ highWater'[v] \in Int /\ highWater'[v] >= highWater[v]
        /\ Kept(v)' = Kept(v) /\ InFlight(v)' \subseteq InFlight(v)
    BY <1>2, <1>3, <1>4
  <2>5. \A f \in Kept(v) \cup InFlight(v) : f.seq > highWater'[v] => f.seq > highWater[v]
    BY <2>3, <2>4
  <2> QED BY <2>1, <2>2, <2>4, <2>5
<1>6. /\ \A v \in Worker : v # w \/ e.seq <= highWater[w] => Unreported(v)' = Unreported(v)
      /\ e.seq > highWater[w] => Unreported(w)' = {f \in Unreported(w) : f.seq > e.seq}
  <2>1. \A v \in Worker : highWater'[v] = IF v = w /\ e.seq > highWater[w] THEN e.seq ELSE highWater[v]
    BY <1>1, <1>2 DEF TypeOK, HubTypeOK
  <2>2. \A v \in Worker : {f \in Unreported(v) : f.seq > highWater[v]} = Unreported(v)
    BY UnreportedIs
  <2>3. ASSUME NEW v \in Worker, v # w \/ e.seq <= highWater[w]
        PROVE  Unreported(v)' = Unreported(v)
    <3>1. highWater'[v] = highWater[v]
      BY <1>2, <2>1, <2>3
    <3> QED BY <1>5, <2>2, <3>1
  <2>4. ASSUME e.seq > highWater[w]
        PROVE  Unreported(w)' = {f \in Unreported(w) : f.seq > e.seq}
    <3>1. highWater'[w] = e.seq
      BY <1>1, <2>1, <2>4
    <3> QED BY <1>1, <1>5, <3>1
  <2> QED BY <2>3, <2>4
<1>7. e.seq > highWater[w] => e \in Unreported(w)
  BY <1>1, UnreportedIs
<1>8. \A v \in Worker, q \in Run : /\ Underway(v, q)' <=> Underway(v, q)
                                   /\ Executes(v, q)' <=> Executes(v, q)
  BY <1>2 DEF Underway, Executes
<1>9. Owing'
  <2>1. \A v \in Worker : Traces(v)' \subseteq Traces(v)
    BY OnMessageTraces
  <2>2. \A v \in Worker : Unreported(v)' \subseteq Unreported(v) /\ Unreported(v)' \subseteq Kept(v)'
    BY <1>2, <1>5 DEF Handed, Owing
  <2>3. ASSUME NEW v \in Worker, NEW f \in Unreported(v)', NEW g \in Unreported(v), f.seq <= g.seq
        PROVE  g \in Unreported(v)'
    <3>1. f \in Unreported(v) /\ f.seq > highWater'[v]
      BY <1>5, <2>3
    <3>2. f.seq \in Nat /\ g.seq \in Nat /\ highWater'[v] \in Int
      BY <1>4, <3>1, UnreportedType
    <3>3. g.seq > highWater'[v]
      BY <2>3, <3>1, <3>2
    <3> QED BY <1>5, <3>3
  <2> QED BY <1>8, <2>1, <2>2, <2>3, OwingStep DEF Handed
<1> QED BY <1>2, <1>4, <1>6, <1>7, <1>9 DEF e

LEMMA OnMessageHanded ==
  ASSUME TypeOK, Wire, Owned, Handed, NEW c \in Conn, OnMessage(c), UNCHANGED workerVars
  PROVE  Handed'
<1> DEFINE w == WorkerOf(c)
           e == Head(up[c])
           r == e.run
           ow == [v \in Worker |-> Unreported(v)']
<1>1. /\ Owing' /\ UNCHANGED slot
      /\ \A v \in Worker : highWater'[v] \in Int /\ highWater'[v] >= highWater[v]
      /\ \A v \in Worker : v # w \/ e.seq <= highWater[w] => Unreported(v)' = Unreported(v)
      /\ e.seq > highWater[w] => /\ e \in Unreported(w)
                                 /\ Unreported(w)' = {f \in Unreported(w) : f.seq > e.seq}
  BY OnMessageSettles
<1>2. /\ w \in Worker /\ e \in Event /\ r \in Run /\ e.seq \in Nat /\ highWater[w] \in Int
  <2>1. w \in Worker /\ e \in Event
    BY OnMessageReads DEF Wire
  <2> QED BY <2>1, EventsType DEF Event
<1>3. /\ down \in [Conn -> Seq(Control)] /\ rstate \in [Run -> RunState]
      /\ rworker \in [Run -> Worker \cup {None}] /\ current \in [Worker -> Run \cup {None}]
  BY DEF TypeOK, FabricTypeOK, HubTypeOK
<1> HIDE DEF e
<1>4. CASE e.seq <= highWater[w]
  <2>1. UNCHANGED <<rstate, rworker, current, down>>
    BY <1>4 DEF OnMessage, e
  <2>2. RowsAs(rstate, rworker, current, down, ow)
    BY <1>1, <1>4, RowsSame DEF Handed
  <2>3. InHands'
    BY <1>1, <2>1, <2>2, InHandsAfter
  <2>4. Acknowledged'
    BY <1>1, <2>1, AckedStays DEF Handed
  <2> QED BY <1>1, <2>3, <2>4 DEF Handed
<1>5. CASE e.seq > highWater[w]
  <2>1. /\ e \in Unreported(w) /\ e \in Traces(w)
        /\ Unreported(w)' = {f \in Unreported(w) : f.seq > e.seq}
        /\ \A v \in Worker : v # w => Unreported(v)' = Unreported(v)
        /\ \A v \in Worker : Unreported(v)' \subseteq Unreported(v)
    BY <1>1, <1>2, <1>5, UnreportedType
  <2>2. RowsAs(rstate, rworker, current, down, [v \in Worker |-> Unreported(v)])
    BY DEF Handed, InHands
  <2>3. /\ current[w] = r /\ rworker[r] = w /\ r # None
        /\ \A f \in Unreported(w) : f.run = r
        /\ \A v \in Worker, q \in Run : Executes(v, q) => current[v] = q
    <3>1. \A f \in Unreported(w) : current[w] = f.run
      BY <1>2, <2>2 DEF RowsAs
    <3>2. rworker[r] = w
      BY <1>2, <2>1 DEF Owned, OwnedAs, Traced
    <3> QED BY <1>2, <2>1, <2>2, <3>1, <3>2, RunAssumption DEF RowsAs
  <2>4. \A v \in Worker, q \in Run : v # w /\ rworker[q] = v =>
          /\ rstate[q] = "running" => Underway(v, q) \/ Owes(q, ow[v])
          /\ rstate[q] = "assigned" =>
               /\ current[v] = q
               /\ Underway(v, q) \/ Owes(q, ow[v]) => \E f \in ow[v] : f.run = q /\ f.kind = "started"
    BY <2>1, <2>2 DEF RowsAs
  <2>5. \A v \in Worker : \A f \in ow[v] : f \in Unreported(v) /\ current[v] = f.run
    BY <2>1, <2>2 DEF RowsAs
  <2>6. ow[w] = {f \in Unreported(w) : f.seq > e.seq}
    BY <1>2, <2>1
  <2> HIDE DEF ow
  \* Another run of the same worker is not active.
  <2>7. \A q \in Run : q # r /\ rworker[q] = w => rstate[q] \notin Active
    <3> SUFFICES ASSUME NEW q \in Run, q # r, rworker[q] = w, rstate[q] \in Active PROVE FALSE
      OBVIOUS
    <3>1. current[w] # q /\ ~Executes(w, q) /\ ~Owes(q, Unreported(w))
      BY <1>2, <2>3 DEF Owes
    <3> QED BY <1>2, <2>2, <3>1 DEF RowsAs, Active, Underway, Executes
  <2>8. CASE e.kind = "started"
    <3>1. JobStarted(w, r)
      BY <1>2, <1>5, <2>8 DEF OnMessage, e
    <3>2. /\ current' = current /\ down' = down
          /\ \A q \in Run : q # r => rstate'[q] = rstate[q] /\ rworker'[q] = rworker[q]
          /\ rworker'[r] = w /\ rstate'[r] # "assigned"
      BY <1>2, <1>3, <2>3, <3>1 DEF JobStarted, Terminal
    <3>3. rstate'[r] = "running" => Underway(w, r) \/ Owes(r, ow[w])
      <4>1. Underway(w, r) \/ Owes(r, Unreported(w))
        BY <1>2, <2>1 DEF Handed, Owing
      <4>2. ASSUME NEW f \in Unreported(w), f.run = r, f.kind # "started" PROVE f \in ow[w]
        <5>1. f \in Traces(w) /\ f.seq \in Nat /\ f \in Kept(w) /\ e \in Kept(w)
          BY <1>2, <2>1, UnreportedType DEF Handed, Owing
        <5>2. e.seq <= f.seq
          BY <1>2, <2>1, <4>2, <5>1 DEF Handed, Owing
        <5>3. e.seq # f.seq
          BY <1>2, <2>8, <4>2, <5>1 DEF Wire, Numbered
        <5> QED BY <1>2, <2>6, <4>2, <5>1, <5>2, <5>3
      <4> QED BY <4>1, <4>2 DEF Owes
    <3>4. RowsAs(rstate', rworker', current', down', ow)
      <4>1. \A q \in Run, v \in Worker : rstate'[q] = "running" /\ rworker'[q] = v =>
              Underway(v, q) \/ Owes(q, ow[v])
        BY <2>4, <2>7, <3>2, <3>3 DEF Active
      <4>2. \A q \in Run, v \in Worker : rstate'[q] = "assigned" /\ rworker'[q] = v =>
               /\ current[v] = q
               /\ Underway(v, q) \/ Owes(q, ow[v]) => \E f \in ow[v] : f.run = q /\ f.kind = "started"
        BY <2>4, <2>7, <3>2 DEF Active
      <4> QED BY <2>2, <2>5, <3>2, <4>1, <4>2 DEF RowsAs
    <3>5. InHands'
      BY <1>1, <3>4, InHandsAfter DEF ow
    <3>6. Acknowledged'
      BY <1>1, <3>2, AckedStays DEF Handed
    <3> QED BY <1>1, <3>5, <3>6 DEF Handed
  <2>9. CASE e.kind # "started"
    <3> DEFINE st == [rstate EXCEPT ![r] = FinalState(e.kind)]
               wk == [rworker EXCEPT ![r] = w]
               cur == [current EXCEPT ![w] = None]
    <3>1. Pump(st, wk, cur, grants \ {r}, link, silent \ {w}, down)
      BY <1>2, <1>5, <2>9 DEF OnMessage, FinishRun, e
    <3>2. /\ \A q \in Run : q # r => st[q] = rstate[q]
          /\ st[r] \in Terminal /\ wk = rworker
          /\ st \in [Run -> RunState]
          /\ cur \in [Worker -> Run \cup {None}]
          /\ \A v \in Worker : v # w => cur[v] = current[v]
      <4>1. FinalState(e.kind) \in Terminal
        BY DEF FinalState, Terminal
      <4> QED BY <1>2, <1>3, <2>3, <4>1 DEF RunState
    <3> HIDE DEF st, wk, cur
    <3>3. ow[w] = {}
      <4> SUFFICES ASSUME NEW f \in ow[w] PROVE FALSE
        OBVIOUS
      <4>1. f \in Unreported(w) /\ f.seq > e.seq /\ f.run = r
        BY <2>3, <2>6
      <4>2. f \in Traces(w) /\ f.seq \in Nat
        BY <1>2, <4>1, UnreportedType
      <4>3. f.seq <= e.seq
        BY <1>2, <2>1, <2>9, <4>1, <4>2 DEF Handed, Owing
      <4> QED BY <1>2, <4>1, <4>2, <4>3
    <3>4. \A q \in Run : ~Executes(w, q)
      <4>1. ~Executes(w, r)
        BY <1>2, <2>1, <2>9 DEF Owned, OwnedAs, Doing
      <4> QED BY <1>2, <2>3, <4>1
    <3>5. ASSUME NEW d \in Conn, NEW m \in Range(down[d]), m.type = "assign"
          PROVE  cur[WorkerOf(d)] = m.run
      <4>1. current[WorkerOf(d)] = m.run /\ WorkerOf(d) \in Worker
        BY <2>2, <3>5, ConnType DEF RowsAs
      <4>2. WorkerOf(d) # w
        <5> SUFFICES ASSUME WorkerOf(d) = w PROVE FALSE
          OBVIOUS
        <5>1. PICK i \in DOMAIN down[d] : down[d][i] = m
          BY DEF Range
        <5>2. m.run = r
          BY <2>3, <4>1
        <5>3. Ordering(rstate, rworker, down, [v \in Worker |-> Traces(v)])
          BY DEF Owned, OwnedAs
        <5>4. \A f \in [v \in Worker |-> Traces(v)][w] : f.run # r
          BY <3>5, <5>1, <5>2, <5>3 DEF Ordering
        <5> QED BY <1>2, <2>1, <5>4
      <4> QED BY <3>2, <4>1, <4>2
    <3>6. RowsAs(st, wk, cur, down, ow)
      <4>1. \A q \in Run, v \in Worker : st[q] \in Active /\ wk[q] = v => q # r /\ v # w
        BY <2>3, <2>7, <3>2 DEF Active, Terminal
      <4>2. \A q \in Run, v \in Worker : st[q] = "running" /\ wk[q] = v =>
              Underway(v, q) \/ Owes(q, ow[v])
        BY <2>4, <3>2, <4>1 DEF Active
      <4>3. \A q \in Run, v \in Worker : st[q] = "assigned" /\ wk[q] = v =>
               /\ cur[v] = q
               /\ Underway(v, q) \/ Owes(q, ow[v]) => \E f \in ow[v] : f.run = q /\ f.kind = "started"
        BY <2>4, <3>2, <4>1 DEF Active
      <4>4. \A v \in Worker : /\ \A q \in Run : Executes(v, q) => cur[v] = q
                              /\ \A f \in ow[v] : cur[v] = f.run
        BY <2>3, <2>5, <3>2, <3>3, <3>4
      <4> QED BY <3>5, <4>2, <4>3, <4>4 DEF RowsAs
    <3>7. \A d \in Conn : \A m \in Range(down[d]) :
            m.type = "ack" /\ m.highWater > SeqOrigin => m.highWater <= highWater'[WorkerOf(d)]
      <4> SUFFICES ASSUME NEW d \in Conn, NEW m \in Range(down[d]), m.type = "ack",
                          m.highWater > SeqOrigin
                   PROVE  m.highWater <= highWater'[WorkerOf(d)]
        OBVIOUS
      <4>1. m \in Control /\ WorkerOf(d) \in Worker
        BY NamesRuns, ConnType
      <4>2. /\ m.highWater \in Nat /\ m.highWater <= highWater[WorkerOf(d)]
            /\ highWater[WorkerOf(d)] \in Int
        BY <4>1, EventsType DEF Handed, Acknowledged, Control, Ack, Command, Drain
      <4> QED BY <1>1, <4>1, <4>2
    <3> QED BY <1>1, <1>3, <2>1, <3>1, <3>2, <3>6, <3>7, PumpHanded DEF ow
  <2> QED BY <2>8, <2>9
<1> QED BY <1>2, <1>4, <1>5

\* A step that leaves the rows, the orders and what is owed as they are.
LEMMA HandedKeeps ==
  ASSUME TypeOK, Handed, Owing', UNCHANGED <<rstate, rworker, current, highWater, slot>>,
         \A w \in Worker : Unreported(w)' = Unreported(w),
         \A c \in Conn : \A m \in Range(down'[c]) : m \in Range(down[c])
  PROVE  Handed'
<1>1. RowsAs(rstate, rworker, current, down', [w \in Worker |-> Unreported(w)'])
  BY RowsSame DEF Handed
<1>2. InHands'
  BY <1>1, InHandsAfter
<1>3. \A w \in Worker : highWater'[w] \in Int /\ highWater'[w] >= highWater[w]
  BY EventsType
<1>4. Acknowledged'
  BY <1>3, AckedStays DEF Handed
<1> QED BY <1>2, <1>4 DEF Handed

LEMMA HubStepHanded ==
  ASSUME TypeOK, Wire, Owned, Handed, Unmeddled, Over("restart"), AllPersistent,
         HubStep, UNCHANGED workerVars
  PROVE  Handed'
<1>1. ASSUME NEW c \in Conn, Attach(c) PROVE Handed'
  BY <1>1, AttachHanded
<1>2. ASSUME NEW c \in Conn, Unserve(c) PROVE Handed'
  BY <1>2, UnserveHanded
<1>3. ASSUME UNCHANGED <<rstate, rworker, current, down, up, highWater>> PROVE Handed'
  <2>1. /\ Owing' /\ UNCHANGED slot
        /\ \A w \in Worker : Unreported(w)' = Unreported(w)
    BY <1>3, SameOwed DEF Handed
  <2> QED BY <1>3, <2>1, HandedKeeps
<1>4. ASSUME NEW c \in Conn, Heartbeat(c) PROVE Handed'
  BY <1>3, <1>4 DEF Heartbeat, memoryVars, fabricVars
<1>5. ASSUME NEW c \in Conn, OnMessage(c) PROVE Handed'
  BY <1>5, OnMessageHanded
<1>6. ASSUME NEW w \in Worker, Lapse(w) PROVE Handed'
  BY <1>3, <1>6 DEF Lapse, memoryVars
<1>7. ASSUME NEW w \in Worker, ReapStale(w) PROVE Handed'
  <2>1. Detach(w, down) /\ UNCHANGED up /\ down \in [Conn -> Seq(Control)]
    BY <1>7 DEF ReapStale, TypeOK, FabricTypeOK
  <2> QED BY <2>1, DetachHanded
<1>8. \A w \in Worker : ~DrainLease(w)
  BY DEF DrainLease, AllPersistent
<1>9. ASSUME NEW w \in Worker, ExtendLease(w) PROVE Handed'
  BY <1>3, <1>9 DEF ExtendLease, memoryVars
<1>10. ASSUME NEW S \in SUBSET Run, StuckAssignments(S) PROVE Handed'
  BY <1>10, StuckHanded
<1>11. ~Restart
  BY DEF Restart, Over, Spend, TypeOK, FabricTypeOK, Intervention
<1> QED BY <1>1, <1>2, <1>4, <1>5, <1>6, <1>7, <1>8, <1>9, <1>10, <1>11
        DEF HubStep, SessionEnd, SessionLost

\* The worker's side.  What it resends or sends on, it keeps.
LEMMA SendHanded ==
  ASSUME TypeOK, Handed, NEW c \in Conn, NEW s \in Seq(Event), Send(c, s),
         UNCHANGED <<rstate, rworker, current, highWater, slot>>,
         Range(s) \subseteq Kept(WorkerOf(c)),
         \A w \in Worker : Kept(w)' \subseteq Kept(w) /\ Unreported(w) \subseteq Kept(w)',
         \A d \in Conn : \A m \in Range(down'[d]) : m \in Range(down[d])
  PROVE  Handed' /\ Quiet
<1>1. \A d \in Conn : Range(up'[d]) \subseteq Range(up[d]) \cup Kept(WorkerOf(d))
  <2>1. up \in [Conn -> Seq(Event)] /\ Range(up[c] \o s) = Range(up[c]) \cup Range(s)
    BY RangeOfConcat DEF TypeOK, FabricTypeOK
  <2> QED BY <2>1 DEF Send
<1>2. \A w \in Worker : InFlight(w)' \subseteq InFlight(w) \cup Kept(w)
  <2> SUFFICES ASSUME NEW w \in Worker, NEW k \in Socket, NEW e \in Range(up'[<<w, k>>])
               PROVE  e \in InFlight(w) \cup Kept(w)
    BY DEF InFlight
  <2>1. <<w, k>> \in Conn /\ WorkerOf(<<w, k>>) = w
    BY DEF Conn, WorkerOf
  <2> QED BY <1>1, <2>1 DEF InFlight
<1>3. \A w \in Worker, r \in Run : /\ Underway(w, r)' <=> Underway(w, r)
                                   /\ Executes(w, r)' <=> Executes(w, r)
  BY DEF Underway, Executes
<1> QED BY <1>2, <1>3, KeptHanded

LEMMA ArrivesOrders ==
  ASSUME TypeOK, NEW c \in Conn, NEW type, Arrives(c, type)
  PROVE  /\ Head(down[c]) \in Range(down[c]) /\ Head(down[c]).type = type
         /\ \A d \in Conn : \A m \in Range(down'[d]) : m \in Range(down[d])
<1>1. /\ down \in [Conn -> Seq(Control)] /\ down[c] \in Seq(Control) /\ down[c] # <<>>
      /\ down' = [down EXCEPT ![c] = Tail(@)] /\ Head(down[c]).type = type
  BY DEF TypeOK, FabricTypeOK, Arrives
<1>2. Range(down[c]) = {Head(down[c])} \cup Range(Tail(down[c]))
  BY <1>1, RangeOfTail
<1> QED BY <1>1, <1>2

LEMMA HelloAckHanded ==
  ASSUME TypeOK, Wire, Handed, NEW c \in Conn, HelloAck(c), UNCHANGED hubVars
  PROVE  Handed' /\ Quiet
<1> DEFINE w == WorkerOf(c)
           hw == Head(down[c]).highWater
           all == outbox[w] \o jobrx[w]
           kept == TrimToHighWater(all, hw)
<1>1. /\ w \in Worker /\ kept \in Seq(Event) /\ Range(kept) \subseteq Kept(w) /\ hw \in Nat
      /\ \A e \in Kept(w) : e.seq > hw => e \in Range(kept)
      /\ outbox' = [outbox EXCEPT ![w] = kept] /\ jobrx' = [jobrx EXCEPT ![w] = <<>>]
      /\ Send(c, kept)
  BY HelloAckKeeps
<1>2. /\ outbox \in [Worker -> Seq(Event)] /\ jobrx \in [Worker -> Seq(Event)]
      /\ UNCHANGED <<rstate, rworker, current, highWater, slot>>
  BY DEF TypeOK, WorkerTypeOK, hubVars, storeVars, memoryVars, HelloAck
<1>3. Range(all) = Kept(w)
  BY <1>1, <1>2, RangeOfConcat DEF Kept
<1>4. hw > SeqOrigin => hw <= highWater[w]
  <2>1. Head(down[c]) \in Range(down[c]) /\ Head(down[c]).type = "ack"
    BY ArrivesOrders DEF HelloAck
  <2> QED BY <2>1 DEF Handed, Acknowledged
<1> HIDE DEF all, kept, hw
<1>5. hw = SeqOrigin => kept = all
  <2>1. ~(SeqOrigin > SeqOrigin)
    BY DEF SeqOrigin
  <2> QED BY <2>1 DEF TrimToHighWater, kept
<1>6. \A e \in Unreported(w) : e \in Range(kept)
  <2> SUFFICES ASSUME NEW e \in Unreported(w) PROVE e \in Range(kept)
    OBVIOUS
  <2>1. e \in Kept(w) /\ e.seq \in Nat /\ highWater[w] \in Int /\ e.seq > highWater[w]
    BY <1>1, UnreportedType, UnreportedIs DEF Handed, Owing
  <2>2. CASE hw = SeqOrigin
    BY <1>3, <1>5, <2>1, <2>2
  <2>3. CASE hw # SeqOrigin
    <3>1. hw > SeqOrigin
      BY <1>1, <2>3 DEF SeqOrigin
    <3> QED BY <1>1, <1>4, <2>1, <3>1
  <2> QED BY <2>2, <2>3
<1>7. /\ Kept(w)' = Range(kept)
      /\ \A v \in Worker : v # w => Kept(v)' = Kept(v)
  <2>1. Range(<<>>) = {}
    BY DEF Range
  <2> QED BY <1>1, <1>2, <2>1 DEF Kept
<1>8. \A v \in Worker : Kept(v)' \subseteq Kept(v) /\ Unreported(v) \subseteq Kept(v)'
  BY <1>1, <1>6, <1>7 DEF Handed, Owing
<1>9. \A d \in Conn : \A m \in Range(down'[d]) : m \in Range(down[d])
  BY ArrivesOrders DEF HelloAck
<1> QED BY <1>1, <1>2, <1>8, <1>9, SendHanded

LEMMA ForwardHanded ==
  ASSUME TypeOK, Handed, NEW c \in Conn, Forward(c), UNCHANGED hubVars
  PROVE  Handed' /\ Quiet
<1> DEFINE w == WorkerOf(c)
           h == Head(jobrx[w])
<1>1. /\ outbox \in [Worker -> Seq(Event)] /\ jobrx \in [Worker -> Seq(Event)]
      /\ UNCHANGED <<rstate, rworker, current, highWater, slot, down>>
  BY DEF TypeOK, WorkerTypeOK, hubVars, storeVars, memoryVars, Forward
<1>2. /\ w \in Worker /\ jobrx[w] # <<>> /\ h \in Event /\ Tail(jobrx[w]) \in Seq(Event)
      /\ outbox' = [outbox EXCEPT ![w] = Append(@, h)]
      /\ jobrx' = [jobrx EXCEPT ![w] = Tail(@)]
      /\ Send(c, <<h>>)
  BY <1>1, ConnType, HeadTailProperties DEF Forward
<1>3. Range(jobrx[w]) = {h} \cup Range(Tail(jobrx[w]))
  BY <1>1, <1>2, RangeOfTail
<1> HIDE DEF h
<1>4. /\ Range(Append(outbox[w], h)) = Range(outbox[w]) \cup {h}
      /\ <<h>> \in Seq(Event) /\ Range(<<h>>) = {h}
  <2>1. <<h>> \in Seq(Event) /\ Range(<<h>>) = {h}
    BY <1>2 DEF Range
  <2>2. outbox[w] \in Seq(Event)
    BY <1>1, <1>2
  <2> QED BY <1>2, <2>1, <2>2, RangeOfAppend
<1>5. \A v \in Worker : Kept(v)' = Kept(v)
  BY <1>1, <1>2, <1>3, <1>4 DEF Kept
<1>6. Range(<<h>>) \subseteq Kept(w)
  BY <1>3, <1>4 DEF Kept
<1>7. \A v \in Worker : Kept(v)' \subseteq Kept(v) /\ Unreported(v) \subseteq Kept(v)'
  BY <1>5 DEF Handed, Owing
<1>8. \A d \in Conn : \A m \in Range(down'[d]) : m \in Range(down[d])
  BY <1>1
<1> QED BY <1>1, <1>2, <1>4, <1>6, <1>7, <1>8, SendHanded

\* A job starts with a fresh outbox: nothing that was in it is still owed.
LEMMA AssignJobHanded ==
  ASSUME TypeOK, Owned, Handed, NEW c \in Conn, AssignJob(c), UNCHANGED hubVars
  PROVE  Handed' /\ Quiet
<1> DEFINE w == WorkerOf(c)
           r == Head(down[c]).run
<1>1. /\ UNCHANGED <<rstate, rworker, current, highWater, jobrx, up>>
      /\ slot \in [Worker -> Job \cup {None}] /\ outbox \in [Worker -> Seq(Event)]
      /\ w \in Worker /\ down \in [Conn -> Seq(Control)]
  BY ConnType DEF AssignJob, hubVars, storeVars, memoryVars, TypeOK, WorkerTypeOK, FabricTypeOK
<1>2. /\ Head(down[c]) \in Range(down[c]) /\ Head(down[c]).type = "assign"
      /\ \A d \in Conn : \A m \in Range(down'[d]) : m \in Range(down[d])
  BY ArrivesOrders DEF AssignJob
<1>3. r \in Run
  BY <1>2, NamesRuns
<1>4. CASE slot' = slot /\ outbox' = outbox
  <2>1. \A v \in Worker : Kept(v)' = Kept(v) /\ InFlight(v)' = InFlight(v)
    BY <1>1, <1>4 DEF Kept, InFlight
  <2>2. \A v \in Worker : Unreported(v) \subseteq Kept(v)'
    BY <2>1 DEF Handed, Owing
  <2>3. \A v \in Worker, q \in Run : /\ Underway(v, q)' <=> Underway(v, q)
                                     /\ Executes(v, q)' <=> Executes(v, q)
    BY <1>4 DEF Underway, Executes
  <2> QED BY <1>1, <1>2, <2>1, <2>2, <2>3, KeptHanded
<1>5. CASE ~(w \in refuses \/ Busy(w))
  <2>1. /\ slot' = [slot EXCEPT ![w] = Spawned(r)] /\ outbox' = [outbox EXCEPT ![w] = <<>>]
        /\ \A q \in Run : ~Executes(w, q) /\ ~Underway(w, q)
    BY <1>5 DEF AssignJob, Busy, Executes, Underway
  <2>2. RowsAs(rstate, rworker, current, down, [v \in Worker |-> Unreported(v)])
    BY DEF Handed, InHands
  <2>3. current[w] = r
    BY <1>2, <2>2 DEF RowsAs
  <2>4. \A e \in Traces(w) : e.run # r
    <3>1. PICK i \in DOMAIN down[c] : down[c][i] = Head(down[c])
      BY <1>2 DEF Range
    <3>2. Ordering(rstate, rworker, down, [v \in Worker |-> Traces(v)])
      BY DEF Owned, OwnedAs
    <3>3. \A e \in [v \in Worker |-> Traces(v)][w] : e.run # r
      BY <1>2, <3>1, <3>2 DEF Ordering
    <3> QED BY <1>1, <3>3
  <2>5. Unreported(w) = {}
    BY <1>1, <2>2, <2>3, <2>4, UnreportedType DEF RowsAs
  <2>6. /\ \A v \in Worker : Kept(v)' \subseteq Kept(v) /\ InFlight(v)' = InFlight(v)
        /\ \A v \in Worker : v # w => Kept(v)' = Kept(v)
    <3>1. Range(<<>>) = {}
      BY DEF Range
    <3> QED BY <1>1, <2>1, <3>1 DEF Kept, InFlight
  <2>7. \A v \in Worker : Unreported(v)' = Unreported(v)
    <3> SUFFICES ASSUME NEW v \in Worker PROVE Unreported(v)' = Unreported(v)
      OBVIOUS
    <3>1. Unreported(v) = {e \in Kept(v) \cup InFlight(v) : e.seq > highWater[v]}
      BY UnreportedIs
    <3>2. Unreported(v)' = {e \in Kept(v)' \cup InFlight(v)' : e.seq > highWater[v]}
      BY <1>1 DEF Unreported, Kept, InFlight
    <3>3. CASE v = w
      BY <2>5, <2>6, <3>1, <3>2, <3>3
    <3>4. CASE v # w
      BY <2>6, <3>1, <3>2, <3>4
    <3> QED BY <3>3, <3>4
  <2>8. /\ \A q \in Run : Executes(w, q)' => q = r
        /\ \A q \in Run : ~Underway(w, q)'
        /\ \A v \in Worker, q \in Run : v # w => /\ Underway(v, q)' <=> Underway(v, q)
                                                 /\ Executes(v, q)' <=> Executes(v, q)
    <3>1. slot'[w] = Spawned(r) /\ \A v \in Worker : v # w => slot'[v] = slot[v]
      BY <1>1, <2>1
    <3> QED BY <3>1 DEF Executes, Underway, Spawned
  <2>9. Owing'
    <3>1. \A v \in Worker : /\ Traces(v)' \subseteq Traces(v)
                            /\ Unreported(v)' \subseteq Kept(v)'
      BY <1>1, <2>5, <2>6, <2>7 DEF Handed, Owing, Traces
    <3>2. \A v \in Worker, q \in Run : /\ Underway(v, q) => Underway(v, q)'
                                       /\ Executes(v, q)' /\ ~Underway(v, q)' =>
                                            \/ Executes(v, q) /\ ~Underway(v, q)
                                            \/ \A e \in Traces(v) : e.run # q
      BY <2>1, <2>4, <2>8
    <3> QED BY <2>7, <3>1, <3>2, OwingStep DEF Handed
  <2>10. Acknowledged'
    <3>1. \A v \in Worker : highWater'[v] \in Int /\ highWater'[v] >= highWater[v]
      BY <1>1, EventsType
    <3> QED BY <1>2, <3>1, AckedStays DEF Handed
  <2>11. RowsAs(rstate, rworker, current, down, [v \in Worker |-> Unreported(v)])'
    <3> DEFINE ow == [v \in Worker |-> Unreported(v)]
    <3>1. ow' = ow /\ ow[w] = {}
      BY <1>1, <2>5, <2>7
    <3>2. RowsAs(rstate, rworker, current, down, ow)
      BY <2>2
    <3> HIDE DEF ow
    <3>3. \A v \in Worker : /\ \A q \in Run : Executes(v, q)' => current[v] = q
                            /\ \A e \in ow[v] : current[v] = e.run
      BY <2>3, <2>8, <3>2 DEF RowsAs
    <3>4. \A q \in Run : /\ ~(rstate[q] = "running" /\ rworker[q] = w)
                         /\ rstate[q] = "assigned" /\ rworker[q] = w => current[w] = q
      BY <1>1, <2>1, <3>1, <3>2 DEF RowsAs, Owes
    <3>5. \A v \in Worker, q \in Run :
            /\ rstate[q] = "running" /\ rworker[q] = v => Underway(v, q)' \/ Owes(q, ow[v])
            /\ rstate[q] = "assigned" /\ rworker[q] = v =>
                 /\ current[v] = q
                 /\ Underway(v, q)' \/ Owes(q, ow[v])
                      => \E e \in ow[v] : e.run = q /\ e.kind = "started"
      <4> SUFFICES ASSUME NEW v \in Worker, NEW q \in Run
                   PROVE  /\ rstate[q] = "running" /\ rworker[q] = v =>
                               Underway(v, q)' \/ Owes(q, ow[v])
                          /\ rstate[q] = "assigned" /\ rworker[q] = v =>
                               /\ current[v] = q
                               /\ Underway(v, q)' \/ Owes(q, ow[v])
                                    => \E e \in ow[v] : e.run = q /\ e.kind = "started"
        OBVIOUS
      <4>1. CASE v = w
        <5>1. ~Underway(w, q)' /\ ~Owes(q, ow[w])
          BY <2>8, <3>1 DEF Owes
        <5> QED BY <3>4, <4>1, <5>1
      <4>2. CASE v # w
        BY <2>8, <3>2, <4>2 DEF RowsAs
      <4> QED BY <4>1, <4>2
    <3>6. \A d \in Conn : \A m \in Range(down'[d]) : m.type = "assign" => current[WorkerOf(d)] = m.run
      BY <1>2, <3>2 DEF RowsAs
    <3>7. RowsAs(rstate, rworker, current, down, ow)'
      BY <1>1, <3>1, <3>3, <3>5, <3>6 DEF RowsAs
    <3> QED BY <3>7 DEF ow
  <2> QED BY <2>1, <2>7, <2>8, <2>9, <2>10, <2>11 DEF Handed, InHands, Quiet
<1> QED BY <1>4, <1>5 DEF AssignJob

\* What the executor reports is kept, and numbered after all there is.
Emitted(new, w) ==
    /\ \A e \in Kept(w) \cup InFlight(w) : e.seq < new.seq
    /\ Kept(w)' = Kept(w) \cup {new}
    /\ Traces(w)' = Traces(w) \cup {new}
    /\ Unreported(w)' = Unreported(w) \cup {new}
    /\ \A v \in Worker : v # w => /\ Kept(v)' = Kept(v) /\ Traces(v)' = Traces(v)
                                  /\ Unreported(v)' = Unreported(v)

LEMMA EmitAdds ==
  ASSUME TypeOK, Wire, NEW w \in Worker, NEW r \in Run, NEW kind \in EventKind,
         Emit(w, r, kind), UNCHANGED <<outbox, up, highWater>>
  PROVE  \E new \in Event : new.run = r /\ new.kind = kind /\ Emitted(new, w)
<1> DEFINE new == Stamp(w, r, kind)
<1>1. /\ jobrx \in [Worker -> Seq(Event)] /\ new \in Event /\ new.seq = seq[w] /\ new.run = r
      /\ new.kind = kind /\ seq[w] \in Nat /\ highWater[w] \in Int
  BY EventsType DEF TypeOK, WorkerTypeOK, Stamp, Event
<1>2. /\ jobrx'[w] = Append(jobrx[w], new)
      /\ \A v \in Worker : v # w => jobrx'[v] = jobrx[v]
  BY <1>1 DEF Emit
<1> HIDE DEF new
<1>3. Range(jobrx'[w]) = Range(jobrx[w]) \cup {new}
  BY <1>1, <1>2, RangeOfAppend
<1>4. \A v \in Worker : /\ InFlight(v)' = InFlight(v)
                        /\ Kept(v)' = IF v = w THEN Kept(v) \cup {new} ELSE Kept(v)
  BY <1>2, <1>3 DEF InFlight, Kept
<1>5. new.seq > highWater[w] /\ \A e \in Kept(w) \cup InFlight(w) : e.seq < new.seq
  BY <1>1, EventsType DEF Wire, Numbered
<1>6. \A v \in Worker : Unreported(v)' = {e \in Kept(v)' \cup InFlight(v)' : e.seq > highWater[v]}
  BY DEF Unreported, Kept, InFlight
<1>7. Traces(w)' = Traces(w) \cup {new} /\ \A v \in Worker : v # w => Traces(v)' = Traces(v)
  BY <1>4 DEF Traces
<1>8. /\ Unreported(w)' = Unreported(w) \cup {new}
      /\ \A v \in Worker : v # w => Unreported(v)' = Unreported(v)
  BY <1>4, <1>5, <1>6, UnreportedIs
<1> QED BY <1>1, <1>4, <1>5, <1>7, <1>8 DEF Emitted

LEMMA ReportHanded ==
  ASSUME TypeOK, Owned, Handed, NEW w \in Worker, NEW r \in Run, NEW new \in Event,
         Executes(w, r), new.run = r, Emitted(new, w),
         UNCHANGED <<rstate, rworker, current, highWater, down>>,
         \A v \in Worker, q \in Run : v # w => /\ Underway(v, q)' <=> Underway(v, q)
                                               /\ Executes(v, q)' <=> Executes(v, q),
         \A q \in Run : Executes(w, q)' => q = r /\ Underway(w, r)',
         \/ new.kind = "started" /\ ~Underway(w, r) /\ Underway(w, r)'
         \/ new.kind # "started" /\ Underway(w, r)
  PROVE  Handed'
<1>1. RowsAs(rstate, rworker, current, down, [v \in Worker |-> Unreported(v)])
  BY DEF Handed, InHands
<1>2. /\ current[w] = r
      /\ \A q \in Run : Executes(w, q) \/ Underway(w, q) => q = r
      /\ new \in Unreported(w)' /\ new.seq \in Nat
  <2>1. \A q \in Run : Underway(w, q) => Executes(w, q)
    BY DEF Underway, Executes
  <2>2. \A q \in Run : Executes(w, q) => current[w] = q
    BY <1>1 DEF RowsAs
  <2> QED BY <2>1, <2>2 DEF Emitted, Event
<1>3. Owing'
  <2>1. ASSUME NEW v \in Worker
        PROVE  /\ Unreported(v)' \subseteq Kept(v)'
               /\ \A e, f \in Traces(v)' : e.run = f.run /\ f.kind # "started" => e.seq <= f.seq
               /\ \A e \in Unreported(v)' :
                    Underway(v, e.run)' \/ \E f \in Unreported(v)' : f.run = e.run /\ f.kind # "started"
               /\ \A q \in Run : Executes(v, q)' /\ ~Underway(v, q)' => \A e \in Traces(v)' : e.run # q
    <3>1. CASE v # w
      <4>1. \A e \in Unreported(v) : e.run \in Run
        BY UnreportedType
      <4> QED BY <3>1, <4>1 DEF Emitted, Handed, Owing, Owes
    <3>2. CASE v = w
      <4>1. Unreported(w)' \subseteq Kept(w)'
        BY DEF Emitted, Handed, Owing
      <4>2. ASSUME NEW e \in Traces(w)', NEW f \in Traces(w)', e.run = f.run, f.kind # "started"
            PROVE  e.seq <= f.seq
        <5>1. \A g \in Traces(w) : g.seq < new.seq /\ g.seq \in Nat
          BY EventsType DEF Emitted, Traces
        <5>2. CASE f = new
          BY <1>2, <4>2, <5>1, <5>2 DEF Emitted
        <5>3. CASE f \in Traces(w) /\ e \in Traces(w)
          BY <4>2, <5>3 DEF Handed, Owing
        <5>4. CASE f \in Traces(w) /\ e = new
          BY <4>2, <5>4 DEF Owned, OwnedAs, Doing
        <5> QED BY <4>2, <5>2, <5>3, <5>4 DEF Emitted
      <4>3. ASSUME NEW e \in Unreported(w)'
            PROVE  Underway(w, e.run)' \/ \E f \in Unreported(w)' : f.run = e.run /\ f.kind # "started"
        <5>1. CASE e = new
          BY <1>2, <5>1
        <5>2. CASE e \in Unreported(w)
          <6>1. e.run \in Run
            BY <5>2, UnreportedType
          <6>2. Underway(w, e.run) \/ Owes(e.run, Unreported(w))
            BY <5>2 DEF Handed, Owing
          <6> QED BY <1>2, <6>1, <6>2 DEF Emitted, Owes
        <5> QED BY <4>3, <5>1, <5>2 DEF Emitted
      <4>4. \A q \in Run : ~(Executes(w, q)' /\ ~Underway(w, q)')
        OBVIOUS
      <4> QED BY <3>2, <4>1, <4>2, <4>3, <4>4
    <3> QED BY <3>1, <3>2
  <2> QED BY <2>1 DEF Owing, Owes
<1>4. Acknowledged'
  BY DEF Handed, Acknowledged
<1>5. RowsAs(rstate, rworker, current, down, [v \in Worker |-> Unreported(v)])'
  <2>1. ASSUME NEW v \in Worker
        PROVE  /\ \A q \in Run : Executes(v, q)' => current[v] = q
               /\ \A e \in Unreported(v)' : current[v] = e.run
               /\ \A q \in Run :
                    /\ rstate[q] = "running" /\ rworker[q] = v =>
                         Underway(v, q)' \/ Owes(q, Unreported(v)')
                    /\ rstate[q] = "assigned" /\ rworker[q] = v =>
                         /\ current[v] = q
                         /\ Underway(v, q)' \/ Owes(q, Unreported(v)')
                              => \E e \in Unreported(v)' : e.run = q /\ e.kind = "started"
    <3>1. CASE v # w
      BY <1>1, <3>1 DEF RowsAs, Emitted
    <3>2. CASE v = w
      <4>1. /\ \A q \in Run : Executes(w, q)' => current[w] = q
            /\ \A e \in Unreported(w)' : current[w] = e.run
        BY <1>1, <1>2 DEF RowsAs, Emitted
      <4>2. ASSUME NEW q \in Run, rstate[q] = "running", rworker[q] = w
            PROVE  Underway(w, q)' \/ Owes(q, Unreported(w)')
        <5>1. Underway(w, q) \/ Owes(q, Unreported(w))
          BY <1>1, <4>2 DEF RowsAs
        <5> QED BY <1>2, <5>1 DEF Owes, Emitted
      <4>3. ASSUME NEW q \in Run, rstate[q] = "assigned", rworker[q] = w
            PROVE  /\ current[w] = q
                   /\ \E e \in Unreported(w)' : e.run = q /\ e.kind = "started"
        <5>1. current[w] = q /\ q = r
          BY <1>1, <1>2, <4>3 DEF RowsAs
        <5>2. Underway(w, r) => \E e \in Unreported(w) : e.run = r /\ e.kind = "started"
          BY <1>1, <4>3, <5>1 DEF RowsAs
        <5> QED BY <1>2, <5>1, <5>2 DEF Emitted
      <4> QED BY <3>2, <4>1, <4>2, <4>3
    <3> QED BY <3>1, <3>2
  <2>2. \A d \in Conn : \A m \in Range(down[d]) : m.type = "assign" => current[WorkerOf(d)] = m.run
    BY <1>1 DEF RowsAs
  <2> QED BY <2>1, <2>2 DEF RowsAs, Owes
<1> QED BY <1>3, <1>4, <1>5 DEF Handed, InHands

LEMMA WorkerStepHanded ==
  ASSUME TypeOK, Wire, Owned, Handed, Unmeddled, AllPersistent, WorkerStep, UNCHANGED hubVars
  PROVE  /\ Handed'
         /\ \/ Quiet
            \/ \E w \in Worker : ExecutorStart(w) \/ ExecutorEnd(w)
<1>1. UNCHANGED <<rstate, rworker, current, highWater>>
  BY DEF hubVars, storeVars, memoryVars
<1>2. /\ slot \in [Worker -> Job \cup {None}] /\ down \in [Conn -> Seq(Control)]
  BY DEF TypeOK, WorkerTypeOK, FabricTypeOK
<1>3. ASSUME UNCHANGED <<jobrx, outbox, up>>,
             \A w \in Worker, r \in Run : /\ Underway(w, r)' <=> Underway(w, r)
                                          /\ Executes(w, r)' <=> Executes(w, r),
             \A c \in Conn : \A m \in Range(down'[c]) : m \in Range(down[c])
      PROVE  Handed' /\ Quiet
  <2>1. \A w \in Worker : Kept(w)' = Kept(w) /\ InFlight(w)' = InFlight(w)
    BY <1>3 DEF Kept, InFlight
  <2>2. \A w \in Worker : Unreported(w) \subseteq Kept(w)'
    BY <2>1 DEF Handed, Owing
  <2> QED BY <1>1, <1>3, <2>1, <2>2, KeptHanded
<1>4. ASSUME UNCHANGED slot
      PROVE  \A w \in Worker, r \in Run : /\ Underway(w, r)' <=> Underway(w, r)
                                          /\ Executes(w, r)' <=> Executes(w, r)
  BY <1>4 DEF Underway, Executes
<1>5. ASSUME NEW c \in Conn, HelloAck(c) PROVE Handed' /\ Quiet
  BY <1>5, HelloAckHanded
<1>6. ASSUME NEW c \in Conn, Forward(c) PROVE Handed' /\ Quiet
  BY <1>6, ForwardHanded
<1>7. ASSUME NEW c \in Conn, AssignJob(c) PROVE Handed' /\ Quiet
  BY <1>7, AssignJobHanded
<1>8. \A c \in Conn : ~Cancel(c)
  <2> SUFFICES ASSUME NEW c \in Conn, Cancel(c) PROVE FALSE
    OBVIOUS
  <2>1. Head(down[c]) \in Range(down[c]) /\ Head(down[c]).type = "cancel"
    BY ArrivesOrders DEF Cancel
  <2> QED BY <2>1 DEF Owned, OwnedAs, Ordering, Range
<1>9. ASSUME NEW c \in Conn, DrainRequest(c) PROVE Handed' /\ Quiet
  <2>1. /\ UNCHANGED <<slot, jobrx, outbox, up>>
        /\ \A d \in Conn : \A m \in Range(down'[d]) : m \in Range(down[d])
    BY <1>9, ArrivesOrders DEF DrainRequest
  <2> QED BY <1>3, <1>4, <2>1
<1>10. ASSUME NEW c \in Conn, SelfDrain(c) PROVE Handed' /\ Quiet
  <2>1. UNCHANGED <<slot, jobrx, outbox, up, down>>
    BY <1>10 DEF SelfDrain, fabricVars
  <2> QED BY <1>3, <1>4, <2>1
<1>11. ASSUME NEW c \in Conn, EndSession(c) PROVE Handed' /\ Quiet
  <2>1. /\ UNCHANGED <<slot, jobrx, outbox, up>>
        /\ down' = [down EXCEPT ![c] = <<>>]
    BY <1>11, ConnType DEF EndSession, AllPersistent
  <2>2. Range(<<>>) = {}
    BY DEF Range
  <2>3. \A d \in Conn : \A m \in Range(down'[d]) : m \in Range(down[d])
    BY <1>2, <2>1, <2>2
  <2> QED BY <1>3, <1>4, <2>1, <2>3
<1>12. \A w \in Worker : ~Crash(w)
  BY DEF Crash, Unmeddled, Over, Spend, TypeOK, FabricTypeOK, Intervention
<1>13. ASSUME NEW w \in Worker, ExecutorStart(w) PROVE Handed'
  <2> DEFINE r == slot[w].run
  <2>1. /\ slot[w] \in Job /\ r \in Run /\ Executes(w, r) /\ ~Underway(w, r)
        /\ Emit(w, r, "started") /\ "started" \in EventKind
        /\ UNCHANGED <<outbox, up, down>>
        /\ slot' = [slot EXCEPT ![w].phase = "running"]
    BY <1>2, <1>13 DEF ExecutorStart, Job, Executes, Underway, EventKind, fabricVars
  <2>2. /\ slot'[w] \in Job /\ slot'[w].run = r /\ slot'[w].phase = "running"
        /\ \A v \in Worker : v # w => slot'[v] = slot[v]
    BY <1>2, <2>1 DEF Job
  <2>3. PICK new \in Event : new.run = r /\ new.kind = "started" /\ Emitted(new, w)
    BY <1>1, <2>1, EmitAdds
  <2>4. /\ Underway(w, r)'
        /\ \A q \in Run : Executes(w, q)' => q = r
        /\ \A v \in Worker, q \in Run : v # w => /\ Underway(v, q)' <=> Underway(v, q)
                                                 /\ Executes(v, q)' <=> Executes(v, q)
    BY <2>2, JobAssumption DEF Underway, Executes
  <2> QED BY <1>1, <2>1, <2>3, <2>4, ReportHanded
<1>14. ASSUME NEW w \in Worker, ExecutorEnd(w) PROVE Handed'
  <2> DEFINE r == slot[w].run
  <2>1. /\ slot[w] \in Job /\ r \in Run /\ Executes(w, r) /\ Underway(w, r)
        /\ UNCHANGED <<outbox, up, down>>
    BY <1>2, <1>14 DEF ExecutorEnd, Job, Executes, Underway
  <2>2. PICK kind \in ExitKind : Emit(w, r, kind)
    BY <1>14 DEF ExecutorEnd
  <2>3. kind \in EventKind /\ kind # "started"
    BY ExitAssumption DEF EventKind, OwnExit
  <2>4. PICK phase \in {"finished", "reported"} : slot' = [slot EXCEPT ![w].phase = phase]
    BY <1>14 DEF ExecutorEnd
  <2>5. /\ slot'[w].phase \notin {"spawned", "running"}
        /\ \A v \in Worker : v # w => slot'[v] = slot[v]
    BY <1>2, <2>1, <2>4 DEF Job
  <2>6. PICK new \in Event : new.run = r /\ new.kind = kind /\ Emitted(new, w)
    BY <1>1, <2>1, <2>2, <2>3, EmitAdds
  <2>7. /\ \A q \in Run : ~Executes(w, q)'
        /\ \A v \in Worker, q \in Run : v # w => /\ Underway(v, q)' <=> Underway(v, q)
                                                 /\ Executes(v, q)' <=> Executes(v, q)
    BY <2>5 DEF Underway, Executes
  <2> QED BY <1>1, <2>1, <2>3, <2>6, <2>7, ReportHanded
<1>15. ASSUME NEW w \in Worker, ExecutorFinish(w) PROVE Handed' /\ Quiet
  <2>1. UNCHANGED <<jobrx, outbox, up, down>>
    BY <1>15 DEF ExecutorFinish, fabricVars
  <2>2. \A v \in Worker, r \in Run : /\ Underway(v, r)' <=> Underway(v, r)
                                     /\ Executes(v, r)' <=> Executes(v, r)
    BY <1>2, <1>15 DEF ExecutorFinish, Underway, Executes, Job
  <2> QED BY <1>3, <2>1, <2>2
<1> QED BY <1>5, <1>6, <1>7, <1>8, <1>9, <1>10, <1>11, <1>12, <1>13, <1>14, <1>15
        DEF WorkerStep, Hangup, ConnectionLost

LEMMA NextHanded ==
  ASSUME AllPersistent
  PROVE  TypeOK /\ Wire /\ Owned /\ Unmeddled /\ Handed /\ Over("restart") /\ [Next]_vars
           /\ Unstopped' => Handed' /\ Over("restart")'
<1> SUFFICES ASSUME TypeOK, Wire, Owned, Unmeddled, Handed, Over("restart"), [Next]_vars,
                    Unstopped'
             PROVE  Handed' /\ Over("restart")'
  OBVIOUS
<1>1. Over("restart")'
  BY NeverStays DEF Intervention
<1>2. ASSUME UNCHANGED vars PROVE Handed'
  <2>1. UNCHANGED <<workerVars, rstate, rworker, current, down, up, highWater>>
    BY <1>2 DEF vars, fabricVars, hubVars, storeVars, memoryVars
  <2>2. /\ Owing' /\ UNCHANGED slot
        /\ \A w \in Worker : Unreported(w)' = Unreported(w)
    BY <2>1, SameOwed DEF Handed
  <2> QED BY <2>1, <2>2, HandedKeeps
<1>3. Handed'
  BY <1>2, RequestHanded, HubStepHanded, WorkerStepHanded DEF Next
<1> QED BY <1>1, <1>3

LEMMA InitHanded == Never("restart") /\ Init => Handed /\ Over("restart")
<1> SUFFICES ASSUME Never("restart"), Init PROVE Handed /\ Over("restart")
  OBVIOUS
<1> USE DEF Init, FabricInit, HubInit, WorkerInit
<1>1. Over("restart")
  BY DEF Never, Over
<1>2. Range(<<>>) = {}
  BY DEF Range
<1>3. \A w \in Worker : Kept(w) = {} /\ InFlight(w) = {}
  <2>1. \A w \in Worker, k \in Socket : Range(up[<<w, k>>]) = {}
    BY <1>2 DEF Conn
  <2> QED BY <1>2, <2>1 DEF Kept, InFlight
<1>4. \A w \in Worker : Traces(w) = {} /\ Unreported(w) = {}
  BY <1>3, UnreportedIs DEF Traces
<1>5. Owing
  BY <1>4 DEF Owing
<1>6. Acknowledged
  BY <1>2 DEF Acknowledged
<1>7. InHands
  BY <1>2, <1>4 DEF InHands, RowsAs, Executes
<1> QED BY <1>1, <1>5, <1>6, <1>7 DEF Handed

LEMMA FleetHanded ==
  ASSUME AllPersistent, Peaceful, Never("stop"), Never("restart")
  PROVE  Spec => [](Handed /\ Over("restart"))
<1>1. Init => Handed /\ Over("restart")
  BY InitHanded
<1>2. TypeOK /\ Wire /\ (Owned /\ Unmeddled) /\ (Handed /\ Over("restart")) /\ [Next]_vars
        /\ Unstopped' => (Handed /\ Over("restart"))'
  BY NextHanded
<1>3. Never("crash")
  BY DEF Peaceful
<1>4. Spec => []Wire
  BY <1>3, FleetWire
<1> QED BY <1>1, <1>2, <1>4, FleetTypeOK, FleetOwned, FleetUnstopped, PTL DEF Spec

\* Whatever connections are lost and whenever: a run that the store has
\* running is executing on the worker in its row, or that worker still holds
\* and will resend the report of how it ended.  None is running for ever with
\* nobody to say otherwise.
THEOREM FleetRunningIsHeld ==
  ASSUME AllPersistent, Peaceful, Never("stop"), Never("restart")
  PROVE  Spec => []RunningIsHeld
<1>1. TypeOK /\ Ownership /\ Handed => RunningIsHeld
  <2> SUFFICES ASSUME TypeOK, Ownership, Handed, NEW r \in Run, rstate[r] = "running"
               PROVE  Executes(rworker[r], r) \/ Reporting(rworker[r], r)
    BY DEF RunningIsHeld
  <2> DEFINE w == rworker[r]
  <2>1. w \in Worker
    BY DEF Ownership, ActiveHasWorker, Active, TypeOK, HubTypeOK
  <2>2. Underway(w, r) \/ Owes(r, [v \in Worker |-> Unreported(v)][w])
    BY <2>1 DEF Handed, InHands, RowsAs
  <2>3. Underway(w, r) \/ Owes(r, Unreported(w))
    BY <2>1, <2>2
  <2> QED BY <2>3 DEF Underway, Executes, Owes, Reporting
<1> QED BY <1>1, FleetTypeOK, FleetOwnership, FleetHanded, PTL

-----------------------------------------------------------------------------
(***************************************************************************)
(* The refinement.  Where the rows, the job slots and the reports of a run *)
(* are known to agree, what the fleet makes of the run is one truth, one   *)
(* doer and a record of it, and every step of the fleet is a step of       *)
(* Execution or none.                                                      *)
(***************************************************************************)

Truth == [r \in Run |-> TruthOf(r)]

Doer == [r \in Run |-> DoerOf(r)]

Record == [r \in Run |-> RecordOf(r)]

\* What a job may report, as nobody is stopped.
OwnEnds == \A w \in Worker : \A e \in Unreported(w) : e.kind \in ExitKind \cup {"started"}

LEMMA OnlyOne == \A x : AnyOf({x}) = x
BY DEF AnyOf

LEMMA SoleDoer ==
  ASSUME TypeOK, Owned, NEW w \in Worker, NEW r \in Run, Underway(w, r)
  PROVE  /\ Doers(r) = {w} /\ \A q \in Run : q # r => w \notin Doers(q)
         /\ rstate[r] \in Active /\ Outcomes(r) = {}
<1>1. \A v \in Worker : Underway(v, r) => Executes(v, r)
  BY DEF Underway, Executes
<1>2. \A v \in Worker : Executes(v, r) => rstate[r] \in Active /\ rworker[r] = v
  BY DEF Owned, OwnedAs, Doing
<1>3. ASSUME NEW v \in Worker, NEW e \in Unreported(v), e.run = r
      PROVE  e.kind = "started"
  <2>1. e \in Traces(v)
    BY UnreportedType
  <2>2. v = w
    BY <1>1, <1>2, <1>3, <2>1 DEF Owned, OwnedAs, Traced
  <2> QED BY <1>1, <1>3, <2>1, <2>2 DEF Owned, OwnedAs, Doing
<1>4. Outcomes(r) = {}
  BY <1>3 DEF Outcomes
<1>5. Doers(r) = {w} /\ \A q \in Run : q # r => w \notin Doers(q)
  BY <1>1, <1>2 DEF Doers, Underway
<1> QED BY <1>1, <1>2, <1>4, <1>5

LEMMA SoleOutcome ==
  ASSUME TypeOK, Wire, Owned, Handed, NEW w \in Worker, NEW e \in Unreported(w),
         e.kind # "started"
  PROVE  Outcomes(e.run) = {FinalState(e.kind)} /\ Doers(e.run) = {}
<1>1. e \in Traces(w) /\ e.run \in Run /\ e.seq \in Nat /\ e \in Kept(w)
  BY UnreportedType DEF Handed, Owing
<1>2. rworker[e.run] = w
  BY <1>1 DEF Owned, OwnedAs, Traced
<1>3. ASSUME NEW v \in Worker, NEW f \in Unreported(v), f.run = e.run, f.kind # "started"
      PROVE  f = e
  <2>1. f \in Traces(v) /\ f.seq \in Nat /\ f \in Kept(v)
    BY <1>3, UnreportedType DEF Handed, Owing
  <2>2. v = w
    BY <1>2, <1>3, <2>1 DEF Owned, OwnedAs, Traced
  <2>3. e.seq <= f.seq /\ f.seq <= e.seq
    BY <1>1, <1>3, <2>1, <2>2 DEF Handed, Owing
  <2>4. e.seq = f.seq
    BY <1>1, <2>1, <2>3
  <2> QED BY <1>1, <2>1, <2>2, <2>4 DEF Wire, Numbered
<1>4. Outcomes(e.run) = {FinalState(e.kind)}
  BY <1>3 DEF Outcomes
<1>5. Doers(e.run) = {}
  BY <1>1, <1>4, SoleDoer DEF Doers
<1> QED BY <1>4, <1>5

LEMMA TruthIs ==
  ASSUME NEW r \in Run
  PROVE  /\ rstate[r] = "new" => TruthOf(r) = "absent"
         /\ rstate[r] \in Terminal => TruthOf(r) = rstate[r]
         /\ rstate[r] \in {"queued"} \cup Active =>
              TruthOf(r) = IF Doers(r) # {} THEN "executing"
                           ELSE IF Outcomes(r) # {} THEN AnyOf(Outcomes(r)) ELSE "waiting"
<1>1. rstate[r] = "new" => TruthOf(r) = "absent"
  BY DEF TruthOf, Active, Terminal
<1>2. rstate[r] \in Terminal => TruthOf(r) = rstate[r]
  BY DEF TruthOf, Active, Terminal
<1>3. rstate[r] \in {"queued"} \cup Active =>
              TruthOf(r) = IF Doers(r) # {} THEN "executing"
                           ELSE IF Outcomes(r) # {} THEN AnyOf(Outcomes(r)) ELSE "waiting"
  BY DEF TruthOf, Active, Terminal
<1> QED BY <1>1, <1>2, <1>3

\* What is made of a run follows from where its row, its doer and its outcome are.
LEMMA TruthSame ==
  ASSUME NEW r \in Run, rstate[r] \in RunState,
         Doers(r)' = Doers(r), Outcomes(r)' = Outcomes(r),
         \/ rstate'[r] = rstate[r]
         \/ rstate[r] \in {"queued"} \cup Active /\ rstate'[r] \in {"queued"} \cup Active
  PROVE  TruthOf(r)' = TruthOf(r) /\ DoerOf(r)' = DoerOf(r)
<1>1. DoerOf(r)' = DoerOf(r)
  BY DEF DoerOf
<1>2. CASE rstate[r] = "new" /\ rstate'[r] = "new"
  <2>1. TruthOf(r)' = "absent"
    BY <1>2 DEF TruthOf, Active, Terminal
  <2> QED BY <1>1, <1>2, <2>1, TruthIs
<1>3. CASE rstate[r] \in Terminal /\ rstate'[r] = rstate[r]
  <2>1. TruthOf(r)' = rstate'[r]
    BY <1>3 DEF TruthOf, Active, Terminal
  <2> QED BY <1>1, <1>3, <2>1, TruthIs
<1>4. CASE rstate[r] \in {"queued"} \cup Active /\ rstate'[r] \in {"queued"} \cup Active
  <2>1. TruthOf(r)' = IF Doers(r)' # {} THEN "executing"
                      ELSE IF Outcomes(r)' # {} THEN AnyOf(Outcomes(r)') ELSE "waiting"
    BY <1>4 DEF TruthOf, Active, Terminal
  <2> QED BY <1>1, <1>4, <2>1, TruthIs
<1> QED BY <1>2, <1>3, <1>4 DEF RunState

\* The steps of Execution, run by run.
Outcome == {FinalState(kind) : kind \in ExitKind}

Kept3(r) == TruthOf(r)' = TruthOf(r) /\ DoerOf(r)' = DoerOf(r) /\ RecordOf(r)' = RecordOf(r)

LEMMA SubmitStep ==
  ASSUME NEW S \in SUBSET Run, S # {},
         \A r \in S : /\ TruthOf(r) = "absent" /\ TruthOf(r)' = "waiting"
                      /\ RecordOf(r)' = "waiting" /\ DoerOf(r)' = DoerOf(r),
         \A r \in Run \ S : Kept3(r)
  PROVE  Promise!Submit(S)
BY DEF Promise!Submit, Kept3

LEMMA StartStep ==
  ASSUME NEW r \in Run, NEW w \in Worker, TruthOf(r) = "waiting",
         \A q \in Run : DoerOf(q) # w,
         TruthOf(r)' = "executing", DoerOf(r)' = w, RecordOf(r)' = RecordOf(r),
         \A q \in Run : q # r => Kept3(q)
  PROVE  Promise!Start(r, w)
BY DEF Promise!Start, Kept3

LEMMA EndStep ==
  ASSUME NEW r \in Run, TruthOf(r) = "executing", NEW o \in Outcome,
         TruthOf(r)' = o, DoerOf(r)' = None, RecordOf(r)' = RecordOf(r),
         \A q \in Run : q # r => Kept3(q)
  PROVE  Promise!End(r)
BY DEF Promise!End, Kept3, Outcome

LEMMA LearnStartStep ==
  ASSUME NEW r \in Run, RecordOf(r) = "waiting", TruthOf(r) \in Outcome \cup {"executing"},
         TruthOf(r)' = TruthOf(r), DoerOf(r)' = DoerOf(r), RecordOf(r)' = "executing",
         \A q \in Run : q # r => Kept3(q)
  PROVE  Promise!LearnStart(r)
BY DEF Promise!LearnStart, Kept3, Outcome

LEMMA LearnEndStep ==
  ASSUME NEW r \in Run, RecordOf(r) = "executing", TruthOf(r) \in Outcome,
         TruthOf(r)' = TruthOf(r), DoerOf(r)' = DoerOf(r), RecordOf(r)' = TruthOf(r),
         \A q \in Run : q # r => Kept3(q)
  PROVE  Promise!LearnEnd(r)
BY DEF Promise!LearnEnd, Kept3, Outcome

Maps == [Promise!Next]_<<Truth, Doer, Record>>

LEMMA NoStep ==
  ASSUME \A r \in Run : Kept3(r)
  PROVE  Maps
BY DEF Maps, Kept3, Truth, Doer, Record

LEMMA QuietSame ==
  ASSUME Quiet, NEW r \in Run
  PROVE  Doers(r)' = Doers(r) /\ Outcomes(r)' = Outcomes(r)
<1>1. Doers(r)' = Doers(r)
  BY DEF Quiet, Doers
<1>2. UNION {Unreported(w)' : w \in Worker} = UNION {Unreported(w) : w \in Worker}
  BY DEF Quiet
<1>3. Outcomes(r)' = Outcomes(r)
  BY <1>2 DEF Outcomes
<1> QED BY <1>1, <1>3

\* A requeue or an assignment says nothing of a run that its submission did not.
Shuffled(s, t) == s = t \/ {s, t} \subseteq {"queued", "assigned"}

LEMMA PumpShuffles ==
  ASSUME NEW st, NEW wk, NEW cur, NEW gr, NEW lk, NEW sil, NEW dn,
         Pump(st, wk, cur, gr, lk, sil, dn)
  PROVE  \A r \in Run : Shuffled(st[r], rstate'[r])
<1>1. PICK f : HandsOut(f, st, wk, cur, lk, dn)
  BY PumpHandsOut
<1> QED BY <1>1 DEF HandsOut, Shuffled

\* The control plane ends a run only when it is told to.
LEMMA HubStepShuffles ==
  ASSUME TypeOK, AllPersistent, HubStep
  PROVE  \/ Restart \/ \E c \in Conn : OnMessage(c)
         \/ /\ UNCHANGED highWater /\ \A c \in Conn : Range(up'[c]) \subseteq Range(up[c])
            /\ \A r \in Run : Shuffled(rstate[r], rstate'[r])
<1> DEFINE Shuffles == /\ UNCHANGED highWater
                       /\ \A c \in Conn : Range(up'[c]) \subseteq Range(up[c])
                       /\ \A r \in Run : Shuffled(rstate[r], rstate'[r])
<1>1. ASSUME UNCHANGED <<rstate, up, highWater>> PROVE Shuffles
  BY <1>1 DEF Shuffled
<1>2. ASSUME NEW c \in Conn, Attach(c) PROVE Shuffles
  <2>1. \A r \in Run : Shuffled(rstate[r], rstate'[r])
    BY <1>2, PumpShuffles DEF Attach
  <2> QED BY <1>2, <2>1 DEF Attach
<1>3. ASSUME NEW w \in Worker, NEW dn, Detach(w, dn)
      PROVE  UNCHANGED highWater /\ \A r \in Run : Shuffled(rstate[r], rstate'[r])
  <2>1. \E cur, gr, lk : Pump(Requeue(rstate, {}), rworker, cur, gr, lk, silent, dn)
    BY <1>3 DEF Detach, AllPersistent
  <2>2. \A r \in Run : Shuffled(Requeue(rstate, {})[r], rstate'[r])
    BY <2>1, PumpShuffles
  <2> QED BY <1>3, <2>2 DEF Requeue, Detach
<1>4. ASSUME NEW c \in Conn, Unserve(c) PROVE Shuffles
  <2>1. \E dn : Detach(WorkerOf(c), dn)
    BY <1>4 DEF Unserve
  <2>2. UNCHANGED highWater /\ \A r \in Run : Shuffled(rstate[r], rstate'[r])
    BY <1>3, <2>1, ConnType
  <2>3. \A d \in Conn : Range(up'[d]) \subseteq Range(up[d])
    <3>1. up' = [up EXCEPT ![c] = <<>>] /\ up \in [Conn -> Seq(Event)]
      BY <1>4 DEF Unserve, TypeOK, FabricTypeOK
    <3>2. Range(<<>>) = {}
      BY DEF Range
    <3> QED BY <3>1, <3>2
  <2> QED BY <2>2, <2>3
<1>5. ASSUME NEW c \in Conn, Heartbeat(c) PROVE Shuffles
  BY <1>1, <1>5 DEF Heartbeat, memoryVars, fabricVars
<1>6. ASSUME NEW w \in Worker, Lapse(w) PROVE Shuffles
  BY <1>1, <1>6 DEF Lapse, memoryVars
<1>7. ASSUME NEW w \in Worker, ReapStale(w) PROVE Shuffles
  BY <1>3, <1>7 DEF ReapStale
<1>8. \A w \in Worker : ~DrainLease(w)
  BY DEF DrainLease, AllPersistent
<1>9. ASSUME NEW w \in Worker, ExtendLease(w) PROVE Shuffles
  BY <1>1, <1>9 DEF ExtendLease, memoryVars
<1>10. ASSUME NEW S \in SUBSET Run, StuckAssignments(S) PROVE Shuffles
  <2>1. /\ \A r \in S : rstate[r] = "assigned"
        /\ \E cur, gr : Pump(Requeue(rstate, S), rworker, cur, gr, link, silent, down)
        /\ UNCHANGED <<up, highWater>>
    BY <1>10 DEF StuckAssignments, ReapStuck
  <2>2. \A r \in Run : Shuffled(Requeue(rstate, S)[r], rstate'[r])
    BY <2>1, PumpShuffles
  <2>3. \A r \in Run : Shuffled(rstate[r], rstate'[r])
    BY <2>1, <2>2 DEF Requeue, Shuffled
  <2> QED BY <2>1, <2>3
<1> QED BY <1>2, <1>4, <1>5, <1>6, <1>7, <1>8, <1>9, <1>10 DEF HubStep, SessionEnd, SessionLost

LEMMA ShuffleKeeps ==
  ASSUME TypeOK, NEW r \in Run, Doers(r)' = Doers(r), Outcomes(r)' = Outcomes(r),
         Shuffled(rstate[r], rstate'[r])
  PROVE  Kept3(r)
<1>1. rstate[r] \in RunState
  BY DEF TypeOK, HubTypeOK
<1>2. TruthOf(r)' = TruthOf(r) /\ DoerOf(r)' = DoerOf(r)
  BY <1>1, TruthSame DEF Shuffled, Active
<1>3. RecordOf(r)' = RecordOf(r)
  <2>1. CASE rstate'[r] = rstate[r]
    BY <2>1 DEF RecordOf
  <2>2. CASE {rstate[r], rstate'[r]} \subseteq {"queued", "assigned"}
    <3>1. RecordOf(r) = "waiting"
      BY <2>2 DEF RecordOf, Terminal
    <3>2. RecordOf(r)' = "waiting"
      BY <2>2 DEF RecordOf, Terminal
    <3> QED BY <3>1, <3>2
  <2> QED BY <2>1, <2>2 DEF Shuffled
<1> QED BY <1>2, <1>3 DEF Kept3

LEMMA QuietMaps ==
  ASSUME TypeOK, Quiet, \A r \in Run : Shuffled(rstate[r], rstate'[r])
  PROVE  Maps
<1>1. \A r \in Run : Kept3(r)
  BY QuietSame, ShuffleKeeps
<1> QED BY <1>1, NoStep

\* Whatever the control plane does but reading a message.
LEMMA HubQuiet ==
  ASSUME TypeOK, Handed, UNCHANGED <<workerVars, highWater>>,
         \A c \in Conn : Range(up'[c]) \subseteq Range(up[c])
  PROVE  Quiet
<1>1. UNCHANGED slot /\ \A w \in Worker : Unreported(w)' = Unreported(w)
  BY SameOwed DEF Handed
<1> QED BY <1>1 DEF Quiet, Underway

LEMMA CreateMaps ==
  ASSUME TypeOK, Wire, Owned, Handed, NEW S \in SUBSET Run, Create(S), UNCHANGED workerVars
  PROVE  Maps
<1>1. /\ Pump(Requeue(rstate, S), rworker, current, grants, link, silent, down)
      /\ UNCHANGED <<up, highWater>> /\ S # {} /\ \A r \in S : rstate[r] = "new"
  BY DEF Create
<1>2. Quiet
  BY <1>1, HubQuiet
<1>3. \A r \in Run : Shuffled(IF r \in S THEN "queued" ELSE rstate[r], rstate'[r])
  BY <1>1, PumpShuffles DEF Requeue
<1>4. \A r \in Run \ S : Kept3(r)
  BY <1>2, <1>3, QuietSame, ShuffleKeeps
<1>5. ASSUME NEW r \in S
      PROVE  /\ TruthOf(r) = "absent" /\ TruthOf(r)' = "waiting"
             /\ RecordOf(r)' = "waiting" /\ DoerOf(r)' = DoerOf(r)
  <2>1. rstate[r] = "new" /\ rstate'[r] \in {"queued", "assigned"}
    BY <1>1, <1>3 DEF Shuffled
  <2>2. Doers(r) = {}
    BY <2>1, SoleDoer DEF Doers, Active
  <2>3. Outcomes(r) = {}
    <3> SUFFICES ASSUME NEW w \in Worker, NEW e \in Unreported(w), e.run = r PROVE FALSE
      BY DEF Outcomes
    <3>1. e \in Traces(w)
      BY UnreportedType
    <3> QED BY <2>1, <3>1 DEF Owned, OwnedAs, Traced, Fresh
  <2>4. Doers(r)' = {} /\ Outcomes(r)' = {}
    BY <1>2, <2>2, <2>3, QuietSame
  <2>5. TruthOf(r)' = "waiting"
    BY <2>1, <2>4 DEF TruthOf, Active, Terminal
  <2>6. RecordOf(r)' = "waiting"
    BY <2>1 DEF RecordOf, Terminal
  <2>7. DoerOf(r)' = DoerOf(r)
    BY <2>2, <2>4 DEF DoerOf
  <2> QED BY <2>1, <2>5, <2>6, <2>7, TruthIs
<1>6. Promise!Submit(S)
  BY <1>1, <1>4, <1>5, SubmitStep
<1> QED BY <1>6 DEF Maps, Promise!Next, Truth, Doer, Record

\* The report of a start is news of an assigned run, and of no other.
LEMMA StartedMaps ==
  ASSUME TypeOK, Wire, Owned, Handed, OwnEnds, NEW c \in Conn, OnMessage(c), UNCHANGED workerVars,
         Head(up[c]).seq > highWater[WorkerOf(c)], Head(up[c]).kind = "started"
  PROVE  Maps
<1>0. PICK e : e = Head(up[c])
  OBVIOUS
<1> DEFINE w == WorkerOf(c)
           r == e.run
<1>1. /\ UNCHANGED slot /\ e \in Unreported(w)
      /\ Unreported(w)' = {f \in Unreported(w) : f.seq > e.seq}
      /\ \A v \in Worker : v # w => Unreported(v)' = Unreported(v)
  BY <1>0, OnMessageSettles
<1>2. w \in Worker /\ r \in Run /\ e \in Traces(w) /\ e.seq \in Nat
  BY <1>1, ConnType, UnreportedType
<1>3. JobStarted(w, r)
  BY <1>0, <1>2, EventsType DEF OnMessage
<1>4. e.kind = "started"
  BY <1>0
<1>5. RowsAs(rstate, rworker, current, down, [v \in Worker |-> Unreported(v)])
  BY DEF Handed, InHands
<1>6. current[w] = r /\ \A f \in Unreported(w) : f.run = r
  BY <1>1, <1>2, <1>5 DEF RowsAs
<1>7. rstate[r] \in Active /\ rworker[r] = w
  <2>1. r # None
    BY <1>2, RunAssumption
  <2> QED BY <1>2, <1>6, <2>1 DEF Owned, OwnedAs, Claiming
<1>8. \A q \in Run : Doers(q)' = Doers(q)
  BY <1>1 DEF Doers, Underway
<1>9. \A v \in Worker : \A f \in Unreported(v) : f.kind # "started" => f \in Unreported(v)'
  <2> SUFFICES ASSUME NEW f \in Unreported(w), f.kind # "started" PROVE f \in Unreported(w)'
    BY <1>1
  <2>1. f \in Traces(w) /\ f.seq \in Nat /\ f \in Kept(w) /\ e \in Kept(w) /\ f.run = r
    BY <1>1, <1>2, <1>6, UnreportedType DEF Handed, Owing
  <2>2. e.seq <= f.seq
    BY <1>2, <2>1 DEF Handed, Owing
  <2>3. e.seq # f.seq
    BY <1>2, <1>4, <2>1 DEF Wire, Numbered
  <2> QED BY <1>1, <1>2, <2>1, <2>2, <2>3
<1>10. \A q \in Run : Outcomes(q)' = Outcomes(q)
  <2>1. \A v \in Worker : Unreported(v)' \subseteq Unreported(v)
    BY <1>1
  <2>2. \A q \in Run :
          {f \in UNION {Unreported(v)' : v \in Worker} : f.run = q /\ f.kind # "started"}
            = {f \in UNION {Unreported(v) : v \in Worker} : f.run = q /\ f.kind # "started"}
    BY <1>9, <2>1
  <2> QED BY <2>2 DEF Outcomes
<1>11. \A q \in Run : q # r => rstate'[q] = rstate[q]
  BY <1>2, <1>3 DEF JobStarted, TypeOK, HubTypeOK
<1>12. rstate'[r] = "running"
  BY <1>2, <1>3, <1>7 DEF JobStarted, Active, Terminal, TypeOK, HubTypeOK
<1>13. \A q \in Run : q # r => Kept3(q)
  BY <1>8, <1>10, <1>11, ShuffleKeeps DEF Shuffled
<1>14. CASE rstate[r] = "running"
  BY <1>2, <1>8, <1>10, <1>12, <1>13, <1>14, ShuffleKeeps, NoStep DEF Shuffled
<1>15. CASE rstate[r] = "assigned"
  <2>1. TruthOf(r)' = TruthOf(r) /\ DoerOf(r)' = DoerOf(r)
    BY <1>2, <1>8, <1>10, <1>12, <1>15, TruthSame DEF Active, RunState
  <2>2. RecordOf(r) = "waiting"
    BY <1>15 DEF RecordOf, Terminal
  <2>3. RecordOf(r)' = "executing"
    BY <1>12 DEF RecordOf, Terminal
  <2>4. TruthOf(r) \in Outcome \cup {"executing"}
    <3>1. Underway(w, r) \/ Owes(r, Unreported(w))
      BY <1>1, <1>2 DEF Handed, Owing
    <3>2. CASE Underway(w, r)
      <4>1. Doers(r) # {}
        BY <1>2, <3>2 DEF Doers
      <4> QED BY <1>2, <1>7, <4>1, TruthIs
    <3>3. ASSUME NEW f \in Unreported(w), f.run = r, f.kind # "started"
          PROVE  TruthOf(r) \in Outcome
      <4>1. Outcomes(r) = {FinalState(f.kind)} /\ Doers(r) = {}
        BY <1>2, <3>3, SoleOutcome
      <4>2. FinalState(f.kind) \in Outcome
        BY <1>2, <3>3 DEF OwnEnds, Outcome
      <4>3. TruthOf(r) = AnyOf({FinalState(f.kind)})
        BY <1>2, <1>7, <4>1, TruthIs
      <4> QED BY <4>2, <4>3, OnlyOne
    <3> QED BY <3>1, <3>2, <3>3 DEF Owes
  <2>5. Promise!LearnStart(r)
    BY <1>2, <1>13, <2>1, <2>2, <2>3, <2>4, LearnStartStep
  <2> QED BY <1>2, <2>5 DEF Maps, Promise!Next, Truth, Doer, Record
<1> QED BY <1>7, <1>14, <1>15 DEF Active

\* The report of an end comes after that of the start, and tells the truth.
LEMMA EndedMaps ==
  ASSUME TypeOK, Wire, Owned, Handed, OwnEnds, NEW c \in Conn, OnMessage(c), UNCHANGED workerVars,
         Head(up[c]).seq > highWater[WorkerOf(c)], Head(up[c]).kind # "started"
  PROVE  Maps
<1>0. PICK e : e = Head(up[c])
  OBVIOUS
<1> DEFINE w == WorkerOf(c)
           r == e.run
<1>1. /\ UNCHANGED slot /\ e \in Unreported(w) /\ e.kind # "started"
      /\ \A v \in Worker : v # w => Unreported(v)' = Unreported(v)
      /\ Unreported(w)' \subseteq Unreported(w)
  BY <1>0, OnMessageSettles
<1>2. w \in Worker /\ r \in Run /\ e \in Traces(w) /\ e \in Kept(w) /\ e.seq \in Nat
      /\ e.seq > highWater[w]
  BY <1>0, <1>1, ConnType, UnreportedType DEF Handed, Owing
<1>3. RowsAs(rstate, rworker, current, down, [v \in Worker |-> Unreported(v)])
  BY DEF Handed, InHands
<1>4. current[w] = r /\ \A f \in Unreported(w) : f.run = r
  BY <1>1, <1>2, <1>3 DEF RowsAs
<1>5. rstate[r] \in Active /\ rworker[r] = w
  <2>1. r # None
    BY <1>2, RunAssumption
  <2> QED BY <1>2, <1>4, <2>1 DEF Owned, OwnedAs, Claiming
<1>6. rstate[r] = "running"
  <2> SUFFICES ASSUME rstate[r] = "assigned" PROVE FALSE
    BY <1>5 DEF Active
  <2>1. Owes(r, Unreported(w))
    BY <1>1 DEF Owes
  <2>2. PICK g \in Unreported(w) : g.run = r /\ g.kind = "started"
    BY <1>2, <1>3, <1>5, <2>1 DEF RowsAs
  <2>3. /\ g \in Traces(w) /\ g \in Kept(w) /\ g.seq \in Nat /\ g.seq > highWater[w]
    BY <1>2, <2>2, UnreportedType, UnreportedIs DEF Handed, Owing
  <2>4. g.seq <= e.seq
    BY <1>1, <1>2, <2>2, <2>3 DEF Handed, Owing
  <2>5. g.seq # e.seq
    BY <1>1, <1>2, <2>2, <2>3 DEF Wire, Numbered
  <2>6. g.seq < e.seq
    BY <1>2, <2>3, <2>4, <2>5
  <2>7. Range(up[c]) = {e} \cup Range(up'[c]) /\ \A f \in Range(up'[c]) : e.seq < f.seq
    BY <1>0, OnMessageReads DEF Wire
  <2>8. highWater[w] \in Int
    BY <1>2, EventsType
  <2>9. g \in Range(up[c])
    BY <1>2, <2>3, <2>6, <2>7, <2>8 DEF Wire, Replayed
  <2> QED BY <1>2, <2>3, <2>6, <2>7, <2>9
<1>7. \A q \in Run : Doers(q)' = Doers(q)
  BY <1>1 DEF Doers, Underway
<1>8. \A q \in Run : q # r => Outcomes(q)' = Outcomes(q)
  <2> SUFFICES ASSUME NEW q \in Run, q # r PROVE Outcomes(q)' = Outcomes(q)
    OBVIOUS
  <2>1. {f \in UNION {Unreported(v)' : v \in Worker} : f.run = q /\ f.kind # "started"}
          = {f \in UNION {Unreported(v) : v \in Worker} : f.run = q /\ f.kind # "started"}
    BY <1>1, <1>4
  <2> QED BY <2>1 DEF Outcomes
<1>9. /\ rstate'[r] = FinalState(e.kind)
      /\ \A q \in Run : q # r => Shuffled(rstate[q], rstate'[q])
  <2> DEFINE st == [rstate EXCEPT ![r] = FinalState(e.kind)]
             wk == [rworker EXCEPT ![r] = w]
             cur == [current EXCEPT ![w] = None]
  <2>1. Pump(st, wk, cur, grants \ {r}, link, silent \ {w}, down)
    <3>1. /\ ~(e.seq <= highWater[w]) /\ e.kind # "started"
      BY <1>1, <1>2, EventsType
    <3> QED BY <1>0, <3>1 DEF OnMessage, FinishRun
  <2>2. /\ st[r] = FinalState(e.kind) /\ FinalState(e.kind) \in Terminal
        /\ \A q \in Run : q # r => st[q] = rstate[q]
    BY <1>2 DEF TypeOK, HubTypeOK, FinalState, Terminal
  <2> HIDE DEF st, wk, cur
  <2>3. \A q \in Run : Shuffled(st[q], rstate'[q])
    BY <2>1, PumpShuffles
  <2> QED BY <1>2, <2>2, <2>3 DEF Shuffled, Terminal
<1>10. \A q \in Run : q # r => Kept3(q)
  BY <1>7, <1>8, <1>9, ShuffleKeeps
<1>11. /\ TruthOf(r) = FinalState(e.kind) /\ FinalState(e.kind) \in Outcome
       /\ FinalState(e.kind) \in Terminal
  <2>1. Outcomes(r) = {FinalState(e.kind)} /\ Doers(r) = {}
    BY <1>1, <1>2, SoleOutcome
  <2>2. TruthOf(r) = AnyOf({FinalState(e.kind)})
    BY <1>2, <1>5, <2>1, TruthIs
  <2>3. FinalState(e.kind) \in Outcome
    BY <1>1, <1>2 DEF OwnEnds, Outcome
  <2>4. FinalState(e.kind) \in Terminal
    BY DEF FinalState, Terminal
  <2> QED BY <2>2, <2>3, <2>4, OnlyOne
<1>12. TruthOf(r)' = TruthOf(r)
  <2>1. TruthOf(r)' = rstate'[r]
    BY <1>9, <1>11 DEF TruthOf, Active, Terminal
  <2> QED BY <1>9, <1>11, <2>1
<1>13. DoerOf(r)' = DoerOf(r)
  BY <1>2, <1>7 DEF DoerOf
<1>14. RecordOf(r) = "executing"
  BY <1>6 DEF RecordOf, Terminal
<1>15. RecordOf(r)' = TruthOf(r)
  BY <1>9, <1>11 DEF RecordOf, Terminal
<1>16. Promise!LearnEnd(r)
  BY <1>2, <1>10, <1>11, <1>12, <1>13, <1>14, <1>15, LearnEndStep
<1> QED BY <1>2, <1>16 DEF Maps, Promise!Next, Truth, Doer, Record

LEMMA OnMessageMaps ==
  ASSUME TypeOK, Wire, Owned, Handed, OwnEnds, NEW c \in Conn, OnMessage(c), UNCHANGED workerVars
  PROVE  Maps
<1> DEFINE w == WorkerOf(c)
           e == Head(up[c])
<1>1. CASE e.seq <= highWater[w]
  <2>1. UNCHANGED <<rstate, slot>>
    BY <1>1 DEF OnMessage, workerVars
  <2>2. \A v \in Worker : Unreported(v)' = Unreported(v)
    BY <1>1, OnMessageSettles
  <2>3. Quiet
    BY <2>1, <2>2 DEF Quiet, Underway
  <2> QED BY <2>1, <2>3, QuietMaps DEF Shuffled
<1>2. CASE e.seq > highWater[w]
  BY <1>2, StartedMaps, EndedMaps
<1>3. e.seq \in Nat /\ highWater[w] \in Int
  <2>1. w \in Worker /\ e \in Event
    BY OnMessageReads DEF Wire
  <2> QED BY <2>1, EventsType DEF Event
<1> HIDE DEF e, w
<1> QED BY <1>1, <1>2, <1>3

\* The executor: a start and an end of what the worker alone is doing.
LEMMA ExecutorStartMaps ==
  ASSUME TypeOK, Wire, Owned, Handed, NEW w \in Worker, ExecutorStart(w), UNCHANGED hubVars
  PROVE  Maps
<1>1. PICK r \in Run : slot[w].run = r
  BY DEF ExecutorStart, TypeOK, WorkerTypeOK, Job
<1>2. /\ slot[w] # None /\ slot[w].phase = "spawned" /\ slot[w] \in Job
      /\ Emit(w, r, "started") /\ "started" \in EventKind
      /\ UNCHANGED <<outbox, up, highWater, rstate>>
      /\ slot' = [slot EXCEPT ![w].phase = "running"]
  BY <1>1 DEF ExecutorStart, TypeOK, WorkerTypeOK, EventKind, fabricVars, hubVars, storeVars, memoryVars
<1>3. PICK new \in Event : new.run = r /\ new.kind = "started" /\ Emitted(new, w)
  BY <1>2, EmitAdds
<1>4. /\ slot'[w] \in Job /\ slot'[w].run = r /\ slot'[w].phase = "running"
      /\ \A v \in Worker : v # w => slot'[v] = slot[v]
  BY <1>1, <1>2 DEF Job, TypeOK, WorkerTypeOK
<1>5. Executes(w, r) /\ rstate[r] \in Active /\ rworker[r] = w
  <2>1. Executes(w, r)
    BY <1>1, <1>2 DEF Executes
  <2> QED BY <2>1 DEF Owned, OwnedAs, Doing
<1>6. \A q \in Run : w \notin Doers(q)
  BY <1>2 DEF Doers, Underway
<1>7. Doers(r) = {}
  BY <1>5, <1>6 DEF Doers, Underway, Executes, Owned, OwnedAs, Doing
<1>8. Doers(r)' = {w} /\ \A q \in Run : q # r => Doers(q)' = Doers(q)
  <2>1. \A v \in Worker, q \in Run : v # w => (Underway(v, q)' <=> Underway(v, q))
    BY <1>4 DEF Underway
  <2>2. \A q \in Run : Underway(w, q)' <=> q = r
    BY <1>4, JobAssumption DEF Underway
  <2> QED BY <1>6, <1>7, <2>1, <2>2 DEF Doers
<1>9. \A q \in Run : Outcomes(q)' = Outcomes(q)
  <2>1. \A q \in Run :
          {f \in UNION {Unreported(v)' : v \in Worker} : f.run = q /\ f.kind # "started"}
            = {f \in UNION {Unreported(v) : v \in Worker} : f.run = q /\ f.kind # "started"}
    BY <1>3 DEF Emitted
  <2> QED BY <2>1 DEF Outcomes
<1>10. Outcomes(r) = {}
  <2> SUFFICES ASSUME NEW v \in Worker, NEW e \in Unreported(v), e.run = r PROVE FALSE
    BY DEF Outcomes
  <2>1. e \in Traces(v)
    BY UnreportedType
  <2>2. v = w
    BY <1>5, <2>1 DEF Owned, OwnedAs, Traced
  <2>3. ~Underway(w, r)
    BY <1>2 DEF Underway
  <2> QED BY <1>5, <2>1, <2>2, <2>3 DEF Handed, Owing
<1>11. \A q \in Run : q # r => Kept3(q)
  BY <1>2, <1>8, <1>9, ShuffleKeeps DEF Shuffled
<1>12. TruthOf(r) = "waiting"
  BY <1>5, <1>7, <1>10, TruthIs
<1>13. TruthOf(r)' = "executing"
  BY <1>2, <1>5, <1>8 DEF TruthOf, Active, Terminal
<1>14. DoerOf(r)' = w
  <2>1. DoerOf(r)' = AnyOf(Doers(r)')
    BY <1>8 DEF DoerOf
  <2> QED BY <1>8, <2>1, OnlyOne
<1>15. \A q \in Run : DoerOf(q) # w
  <2> SUFFICES ASSUME NEW q \in Run, DoerOf(q) = w PROVE FALSE
    OBVIOUS
  <2>1. Doers(q) # {}
    BY WorkerAssumption DEF DoerOf
  <2>2. PICK v \in Worker : Underway(v, q)
    BY <2>1 DEF Doers
  <2>3. Doers(q) = {v}
    BY <2>2, SoleDoer
  <2>4. DoerOf(q) = v
    BY <2>3, OnlyOne DEF DoerOf
  <2> QED BY <1>6, <2>3, <2>4
<1>16. RecordOf(r)' = RecordOf(r)
  BY <1>2 DEF RecordOf
<1>17. Promise!Start(r, w)
  BY <1>11, <1>12, <1>13, <1>14, <1>15, <1>16, StartStep
<1> QED BY <1>17 DEF Maps, Promise!Next, Truth, Doer, Record

LEMMA ExecutorEndMaps ==
  ASSUME TypeOK, Wire, Owned, Handed, NEW w \in Worker, ExecutorEnd(w), UNCHANGED hubVars
  PROVE  Maps
<1>1. PICK r \in Run : slot[w].run = r
  BY DEF ExecutorEnd, TypeOK, WorkerTypeOK, Job
<1>2. /\ slot[w] # None /\ slot[w].phase = "running" /\ slot[w] \in Job
      /\ UNCHANGED <<outbox, up, highWater, rstate>>
  BY <1>1 DEF ExecutorEnd, TypeOK, WorkerTypeOK, hubVars, storeVars, memoryVars
<1>3. PICK kind \in ExitKind : Emit(w, r, kind)
  BY <1>1 DEF ExecutorEnd
<1>4. kind \in EventKind /\ kind # "started"
  BY ExitAssumption DEF EventKind, OwnExit
<1>5. PICK new \in Event : new.run = r /\ new.kind = kind /\ Emitted(new, w)
  BY <1>2, <1>3, <1>4, EmitAdds
<1>6. /\ slot'[w].phase # "running"
      /\ \A v \in Worker : v # w => slot'[v] = slot[v]
  BY <1>2 DEF ExecutorEnd, Job, TypeOK, WorkerTypeOK
<1>7. Underway(w, r)
  BY <1>1, <1>2 DEF Underway
<1>8. /\ Doers(r) = {w} /\ \A q \in Run : q # r => w \notin Doers(q)
      /\ rstate[r] \in Active /\ Outcomes(r) = {}
  BY <1>7, SoleDoer
<1>9. Doers(r)' = {} /\ \A q \in Run : q # r => Doers(q)' = Doers(q)
  <2>1. \A v \in Worker, q \in Run : v # w => (Underway(v, q)' <=> Underway(v, q))
    BY <1>6 DEF Underway
  <2>2. \A q \in Run : ~Underway(w, q)'
    BY <1>6 DEF Underway
  <2> QED BY <1>8, <2>1, <2>2 DEF Doers
<1>10. \A q \in Run : q # r => Outcomes(q)' = Outcomes(q)
  <2>1. \A q \in Run : q # r =>
          {f \in UNION {Unreported(v)' : v \in Worker} : f.run = q /\ f.kind # "started"}
            = {f \in UNION {Unreported(v) : v \in Worker} : f.run = q /\ f.kind # "started"}
    BY <1>5 DEF Emitted
  <2> QED BY <2>1 DEF Outcomes
<1>11. Outcomes(r)' = {FinalState(kind)}
  <2>1. \A v \in Worker : \A f \in Unreported(v) : f.run = r => f.kind = "started"
    BY <1>8 DEF Outcomes
  <2>2. {f \in UNION {Unreported(v)' : v \in Worker} : f.run = r /\ f.kind # "started"} = {new}
    BY <1>4, <1>5, <2>1 DEF Emitted
  <2> QED BY <1>5, <2>2 DEF Outcomes
<1>12. \A q \in Run : q # r => Kept3(q)
  BY <1>2, <1>9, <1>10, ShuffleKeeps DEF Shuffled
<1>13. TruthOf(r) = "executing"
  BY <1>8, TruthIs
<1>14. TruthOf(r)' = FinalState(kind)
  <2>1. TruthOf(r)' = AnyOf(Outcomes(r)')
    BY <1>2, <1>8, <1>9, <1>11 DEF TruthOf, Active, Terminal
  <2> QED BY <1>11, <2>1, OnlyOne
<1>15. DoerOf(r)' = None
  BY <1>9 DEF DoerOf
<1>16. RecordOf(r)' = RecordOf(r)
  BY <1>2 DEF RecordOf
<1>17. FinalState(kind) \in Outcome
  BY DEF Outcome
<1>18. Promise!End(r)
  BY <1>12, <1>13, <1>14, <1>15, <1>16, <1>17, EndStep
<1> QED BY <1>18 DEF Maps, Promise!Next, Truth, Doer, Record

LEMMA RequestMaps ==
  ASSUME TypeOK, Wire, Owned, Handed, Unmeddled, Unstopped', Request, UNCHANGED workerVars
  PROVE  Maps /\ Quiet
<1>1. ASSUME NEW S \in SUBSET Run, Create(S) PROVE Maps /\ Quiet
  <2>1. UNCHANGED <<up, highWater>>
    BY <1>1 DEF Create
  <2> QED BY <1>1, <2>1, CreateMaps, HubQuiet
<1>2. ASSUME NEW r \in Run, Submit(r) PROVE Maps /\ Quiet
  BY <1>1, <1>2 DEF Submit
<1>3. ASSUME NEW s \in Sweep, SubmitSweep(s) PROVE Maps /\ Quiet
  BY <1>1, <1>3 DEF SubmitSweep
<1>4. \A r \in Run : ~ResumeRun(r) /\ asked' # asked \cup {r}
  BY DEF Unmeddled, Unstopped, Over, ResumeRun, Spend, Intervention
<1> QED BY <1>2, <1>3, <1>4 DEF Request

\* Only reading a message changes what the control plane says of a run.
LEMMA HubStepMaps ==
  ASSUME TypeOK, Wire, Owned, Handed, OwnEnds, Over("restart"), AllPersistent,
         HubStep, UNCHANGED workerVars
  PROVE  Maps /\ (Quiet \/ \E c \in Conn : OnMessage(c))
<1>1. ASSUME UNCHANGED highWater, \A c \in Conn : Range(up'[c]) \subseteq Range(up[c]),
             \A r \in Run : Shuffled(rstate[r], rstate'[r])
      PROVE  Maps /\ Quiet
  <2>1. Quiet
    BY <1>1, HubQuiet
  <2> QED BY <1>1, <2>1, QuietMaps
<1>2. ASSUME NEW c \in Conn, OnMessage(c) PROVE Maps
  BY <1>2, OnMessageMaps
<1>3. ~Restart
  BY DEF Restart, Over, Spend, TypeOK, FabricTypeOK, Intervention
<1> QED BY <1>1, <1>2, <1>3, HubStepShuffles

LEMMA WorkerStepMaps ==
  ASSUME TypeOK, Wire, Owned, Handed, Unmeddled, AllPersistent, WorkerStep, UNCHANGED hubVars
  PROVE  Maps
<1>1. CASE Quiet
  <2>1. \A r \in Run : Shuffled(rstate[r], rstate'[r])
    BY DEF Shuffled, hubVars, storeVars
  <2> QED BY <1>1, <2>1, QuietMaps
<1> QED BY <1>1, WorkerStepHanded, ExecutorStartMaps, ExecutorEndMaps

\* Nobody is killed on request, so jobs only report their own ends.
LEMMA OwnEndsKeeps ==
  ASSUME TypeOK, Wire, Owned, Handed, OwnEnds,
         \/ Quiet
         \/ UNCHANGED workerVars /\ \E c \in Conn : OnMessage(c)
         \/ UNCHANGED hubVars /\ \E w \in Worker : ExecutorStart(w) \/ ExecutorEnd(w)
  PROVE  OwnEnds'
<1>1. ASSUME \A w \in Worker : Unreported(w)' \subseteq Unreported(w) PROVE OwnEnds'
  BY <1>1 DEF OwnEnds
<1>2. CASE Quiet
  BY <1>1, <1>2 DEF Quiet
<1>3. ASSUME NEW c \in Conn, OnMessage(c), UNCHANGED workerVars PROVE OwnEnds'
  <2>1. \A w \in Worker : Unreported(w)' \subseteq Unreported(w)
    <3>1. Head(up[c]).seq \in Nat /\ highWater[WorkerOf(c)] \in Int
      <4>1. WorkerOf(c) \in Worker /\ Head(up[c]) \in Event
        BY <1>3, OnMessageReads DEF Wire
      <4> QED BY <4>1, EventsType DEF Event
    <3>2. Head(up[c]).seq <= highWater[WorkerOf(c)] \/ Head(up[c]).seq > highWater[WorkerOf(c)]
      BY <3>1
    <3> QED BY <1>3, <3>2, OnMessageSettles
  <2> QED BY <1>1, <2>1
<1>4. ASSUME NEW w \in Worker, NEW r \in Run, NEW kind \in ExitKind \cup {"started"},
             Emit(w, r, kind), UNCHANGED <<outbox, up, highWater>>
      PROVE  OwnEnds'
  <2>1. kind \in EventKind
    BY ExitAssumption DEF EventKind
  <2>2. PICK new \in Event : new.run = r /\ new.kind = kind /\ Emitted(new, w)
    BY <1>4, <2>1, EmitAdds
  <2> QED BY <2>2 DEF OwnEnds, Emitted
<1>5. ASSUME NEW w \in Worker, ExecutorStart(w), UNCHANGED hubVars PROVE OwnEnds'
  <2>1. slot[w].run \in Run /\ UNCHANGED <<outbox, up, highWater>>
    BY <1>5 DEF ExecutorStart, TypeOK, WorkerTypeOK, Job, fabricVars, hubVars, memoryVars
  <2> QED BY <1>4, <1>5, <2>1 DEF ExecutorStart
<1>6. ASSUME NEW w \in Worker, ExecutorEnd(w), UNCHANGED hubVars PROVE OwnEnds'
  <2>1. slot[w].run \in Run /\ UNCHANGED <<outbox, up, highWater>>
    BY <1>6 DEF ExecutorEnd, TypeOK, WorkerTypeOK, Job, hubVars, memoryVars
  <2> QED BY <1>4, <1>6, <2>1 DEF ExecutorEnd
<1> QED BY <1>2, <1>3, <1>5, <1>6

LEMMA NextMaps ==
  ASSUME AllPersistent
  PROVE  TypeOK /\ Wire /\ Owned /\ Unmeddled /\ Handed /\ Over("restart") /\ OwnEnds
           /\ [Next]_vars /\ Unstopped' => Maps /\ OwnEnds'
<1> SUFFICES ASSUME TypeOK, Wire, Owned, Unmeddled, Handed, Over("restart"), OwnEnds, [Next]_vars,
                    Unstopped'
             PROVE  Maps /\ OwnEnds'
  OBVIOUS
<1>1. CASE UNCHANGED vars
  <2>1. UNCHANGED <<workerVars, rstate, up, highWater>>
    BY <1>1 DEF vars, fabricVars, hubVars, storeVars, memoryVars
  <2>2. Quiet
    BY <2>1, HubQuiet
  <2>3. \A r \in Run : Shuffled(rstate[r], rstate'[r])
    BY <2>1 DEF Shuffled
  <2> QED BY <2>2, <2>3, QuietMaps, OwnEndsKeeps
<1>2. CASE Request /\ UNCHANGED workerVars
  BY <1>2, RequestMaps, OwnEndsKeeps
<1>3. CASE HubStep /\ UNCHANGED workerVars
  BY <1>3, HubStepMaps, OwnEndsKeeps
<1>4. CASE WorkerStep /\ UNCHANGED hubVars
  BY <1>4, WorkerStepMaps, WorkerStepHanded, OwnEndsKeeps
<1> QED BY <1>1, <1>2, <1>3, <1>4 DEF Next

LEMMA InitMaps == Init => Promise!Init /\ OwnEnds
<1> SUFFICES ASSUME Init PROVE Promise!Init /\ OwnEnds
  OBVIOUS
<1> USE DEF Init, FabricInit, HubInit, WorkerInit
<1>1. \A w \in Worker : Unreported(w) = {}
  <2>1. Range(<<>>) = {}
    BY DEF Range
  <2>2. \A w \in Worker, k \in Socket : Range(up[<<w, k>>]) = {}
    BY <2>1 DEF Conn
  <2>3. \A w \in Worker : Kept(w) = {} /\ InFlight(w) = {}
    BY <2>1, <2>2 DEF Kept, InFlight
  <2> QED BY <2>3, UnreportedIs
<1>2. \A r \in Run : Doers(r) = {}
  BY DEF Doers, Underway
<1>3. \A r \in Run : TruthOf(r) = "absent"
  BY TruthIs
<1>4. \A r \in Run : DoerOf(r) = None
  BY <1>2 DEF DoerOf
<1>5. \A r \in Run : RecordOf(r) = "absent"
  BY DEF RecordOf, Terminal
<1> QED BY <1>1, <1>3, <1>4, <1>5 DEF Promise!Init, OwnEnds

\* Whatever connections are lost and whenever, whoever falls silent, however
\* late either end notices and whatever is resent: a fleet of persistent
\* workers under a control plane that stays up executes each run once, on one
\* worker, to one outcome, and its record of the run goes through the same
\* states behind it.
THEOREM FleetImplementsExecution ==
  ASSUME AllPersistent, Peaceful, Never("stop"), Never("restart")
  PROVE  Spec => ImplementsExecution
<1>1. Init => Promise!Init /\ OwnEnds
  BY InitMaps
<1>2. TypeOK /\ Wire /\ (Owned /\ Unmeddled) /\ (Handed /\ Over("restart")) /\ OwnEnds
        /\ [Next]_vars /\ Unstopped' => Maps /\ OwnEnds'
  BY NextMaps
<1>3. Never("crash")
  BY DEF Peaceful
<1>4. Spec => []Wire
  BY <1>3, FleetWire
<1> QED BY <1>1, <1>2, <1>4, FleetTypeOK, FleetOwned, FleetUnstopped, FleetHanded, PTL
        DEF Spec, ImplementsExecution, Promise!Spec, Maps, Truth, Doer, Record

-----------------------------------------------------------------------------
(***************************************************************************)
(* Ends.  Of the end of a run there is one report, and once it is applied  *)
(* the store says the same: so applying it again, after a restart has had  *)
(* the worker resend everything, changes nothing.                          *)
(***************************************************************************)

Faithful ==
    \A w \in Worker :
      /\ \A e, f \in Traces(w) :
           e.run = f.run /\ e.kind # "started" /\ f.kind # "started" => e = f
      /\ \A e \in Traces(w) :
           e.kind # "started" /\ rstate[e.run] \in Terminal => rstate[e.run] = FinalState(e.kind)

\* A run neither reaches an end nor leaves one.
EndStays(r) == rstate[r] \in Terminal \/ rstate'[r] \in Terminal => rstate'[r] = rstate[r]

EndsStay == \A r \in Run : rstate[r] \in Terminal => rstate'[r] = rstate[r]

Settling == Faithful' /\ EndsStay

LEMMA FaithfulKeeps ==
  ASSUME TypeOK, Faithful, \A w \in Worker : Traces(w)' \subseteq Traces(w),
         \A r \in Run : EndStays(r)
  PROVE  Settling
<1>1. \A w \in Worker : \A e \in Traces(w) : e.run \in Run
  BY TracesType DEF Event
<1>2. Faithful'
  BY <1>1 DEF Faithful, EndStays
<1> QED BY <1>2 DEF EndStays, EndsStay, Settling

LEMMA ShufflesKeepEnds ==
  ASSUME NEW r \in Run, Shuffled(rstate[r], rstate'[r])
  PROVE  EndStays(r)
BY DEF Shuffled, EndStays, Terminal

LEMMA RequestSettling ==
  ASSUME TypeOK, Faithful, Unmeddled, Unstopped', Request, UNCHANGED workerVars
  PROVE  Settling
<1>1. ASSUME NEW S \in SUBSET Run, Create(S) PROVE Settling
  <2>1. /\ Pump(Requeue(rstate, S), rworker, current, grants, link, silent, down)
        /\ UNCHANGED <<up, highWater>> /\ \A r \in S : rstate[r] = "new"
    BY <1>1 DEF Create
  <2>2. \A r \in Run : Shuffled(IF r \in S THEN "queued" ELSE rstate[r], rstate'[r])
    BY <2>1, PumpShuffles DEF Requeue
  <2>3. \A r \in Run : EndStays(r)
    BY <2>1, <2>2 DEF Shuffled, EndStays, Terminal
  <2> QED BY <2>1, <2>3, SameTraces, FaithfulKeeps
<1>2. ASSUME NEW r \in Run, Submit(r) PROVE Settling
  BY <1>1, <1>2 DEF Submit
<1>3. ASSUME NEW s \in Sweep, SubmitSweep(s) PROVE Settling
  BY <1>1, <1>3 DEF SubmitSweep
<1>4. \A r \in Run : ~ResumeRun(r) /\ asked' # asked \cup {r}
  BY DEF Unmeddled, Unstopped, Over, ResumeRun, Spend, Intervention
<1> QED BY <1>2, <1>3, <1>4 DEF Request

\* The end a run comes to, or comes to again, is the one its report tells of.
LEMMA OnMessageSettling ==
  ASSUME TypeOK, Wire, Owned, Faithful, NEW c \in Conn, OnMessage(c), UNCHANGED workerVars
  PROVE  Settling
<1>1. PICK w : w = WorkerOf(c)
  OBVIOUS
<1>2. PICK e : e = Head(up[c])
  OBVIOUS
<1>3. /\ w \in Worker /\ e \in Event /\ e.run \in Run /\ rstate \in [Run -> RunState]
      /\ \A v \in Worker : Traces(v)' \subseteq Traces(v)
      /\ e.seq > highWater[w] => e \in Traces(w)
  BY <1>1, <1>2, OnMessageReads, OnMessageTraces DEF Wire, Event, TypeOK, HubTypeOK
<1>4. CASE rstate' = rstate
  BY <1>3, <1>4, FaithfulKeeps DEF EndStays
<1>5. CASE e.seq > highWater[w] /\ e.kind = "started" /\ rstate' # rstate
  <2>1. JobStarted(w, e.run)
    BY <1>1, <1>2, <1>4, <1>5 DEF OnMessage
  <2>2. rstate[e.run] \notin Terminal /\ rstate' = [rstate EXCEPT ![e.run] = "running"]
    BY <1>5, <2>1 DEF JobStarted
  <2>3. \A r \in Run : EndStays(r)
    BY <1>3, <2>2 DEF EndStays, Terminal
  <2> QED BY <1>3, <2>3, FaithfulKeeps
<1>6. CASE e.seq > highWater[w] /\ e.kind # "started" /\ rstate' # rstate
  <2>1. \E sil : FinishRun(w, e.run, FinalState(e.kind), sil)
    BY <1>1, <1>2, <1>6 DEF OnMessage
  <2>2. \A r \in Run : Shuffled([rstate EXCEPT ![e.run] = FinalState(e.kind)][r], rstate'[r])
    BY <2>1, PumpShuffles DEF FinishRun
  <2>3. \A r \in Run : r # e.run => EndStays(r)
    BY <1>3, <2>2, ShufflesKeepEnds
  <2>4. rstate'[e.run] = FinalState(e.kind) /\ FinalState(e.kind) \in Terminal
    BY <1>3, <2>2 DEF Shuffled, FinalState, Terminal, Event, EventKind
  <2>5. rstate[e.run] \in Terminal => rstate'[e.run] = rstate[e.run]
    BY <1>3, <1>6, <2>4 DEF Faithful
  <2>6. ASSUME NEW v \in Worker, NEW f \in Traces(v), f.run = e.run, f.kind # "started"
        PROVE  f = e
    <3>1. v = w
      BY <1>3, <1>6, <2>6 DEF Owned, OwnedAs, Traced
    <3> QED BY <1>3, <1>6, <2>6, <3>1 DEF Faithful
  <2>7. \A v \in Worker : \A f \in Traces(v) : f.run \in Run
    BY TracesType DEF Event
  <2>8. Faithful'
    BY <1>3, <2>3, <2>4, <2>6, <2>7 DEF Faithful, EndStays
  <2> QED BY <2>3, <2>5, <2>8 DEF Settling, EndsStay, EndStays
<1>7. e.seq \in Nat /\ highWater[w] \in Int
  BY <1>3, EventsType DEF Event
<1>8. e.seq <= highWater[w] => rstate' = rstate
  BY <1>1, <1>2 DEF OnMessage
<1> QED BY <1>4, <1>5, <1>6, <1>7, <1>8

LEMMA HubStepSettling ==
  ASSUME TypeOK, Wire, Owned, Faithful, AllPersistent, HubStep, UNCHANGED workerVars
  PROVE  Settling
<1>1. CASE Restart
  <2>1. up' = [c \in Conn |-> <<>>] /\ UNCHANGED rstate
    BY <1>1 DEF Restart, storeVars
  <2>2. \A w \in Worker : Traces(w)' \subseteq Traces(w)
    <3>1. Range(<<>>) = {}
      BY DEF Range
    <3>2. \A w \in Worker : InFlight(w)' = {} /\ Kept(w)' = Kept(w)
      BY <2>1, <3>1 DEF InFlight, Conn, workerVars, Kept
    <3> QED BY <3>2 DEF Traces
  <2>3. \A r \in Run : EndStays(r)
    BY <2>1 DEF EndStays
  <2> QED BY <2>2, <2>3, FaithfulKeeps
<1>2. CASE /\ UNCHANGED highWater /\ \A c \in Conn : Range(up'[c]) \subseteq Range(up[c])
           /\ \A r \in Run : Shuffled(rstate[r], rstate'[r])
  BY <1>2, FewerTraces, ShufflesKeepEnds, FaithfulKeeps
<1> QED BY <1>1, <1>2, HubStepShuffles, OnMessageSettling

LEMMA WorkerStepSettling ==
  ASSUME TypeOK, Wire, Owned, Faithful, Unmeddled, AllPersistent, WorkerStep, UNCHANGED hubVars
  PROVE  Settling
<1>1. UNCHANGED rstate /\ UNCHANGED highWater /\ \A r \in Run : EndStays(r)
  BY DEF hubVars, storeVars, memoryVars, EndStays
<1>2. ASSUME UNCHANGED <<jobrx, outbox, up>> PROVE Settling
  <2>1. \A w \in Worker : Traces(w)' = Traces(w)
    BY <1>1, <1>2 DEF Traces, Kept, InFlight
  <2> QED BY <1>1, <2>1, FaithfulKeeps
<1>3. ASSUME NEW c \in Conn, HelloAck(c) \/ Forward(c) PROVE Settling
  BY <1>1, <1>3, StreamTraces, FaithfulKeeps
<1>4. ASSUME NEW c \in Conn, AssignJob(c) PROVE Settling
  <2>1. /\ UNCHANGED <<jobrx, up>> /\ outbox \in [Worker -> Seq(Event)]
        /\ outbox' \in {outbox, [outbox EXCEPT ![WorkerOf(c)] = <<>>]}
    BY <1>4 DEF AssignJob, TypeOK, WorkerTypeOK
  <2>2. \A w \in Worker : Traces(w)' \subseteq Traces(w)
    <3>1. Range(<<>>) = {}
      BY DEF Range
    <3>2. \A w \in Worker : Range(outbox'[w]) \subseteq Range(outbox[w])
      BY <2>1, <3>1
    <3>3. \A w \in Worker : Kept(w)' \subseteq Kept(w) /\ InFlight(w)' = InFlight(w)
      BY <2>1, <3>2 DEF Kept, InFlight
    <3> QED BY <1>1, <3>3 DEF Traces
  <2> QED BY <1>1, <2>2, FaithfulKeeps
<1>5. \A c \in Conn : ~Cancel(c)
  <2> SUFFICES ASSUME NEW c \in Conn, Cancel(c) PROVE FALSE
    OBVIOUS
  <2>1. down[c] \in Seq(Control) /\ down[c] # <<>> /\ Head(down[c]).type = "cancel"
    BY DEF Cancel, Arrives, TypeOK, FabricTypeOK
  <2>2. 1 \in DOMAIN down[c] /\ Head(down[c]) = down[c][1]
    BY <2>1, LenProperties, EmptySeq
  <2> QED BY <2>1, <2>2 DEF Owned, OwnedAs, Ordering
<1>6. \A w \in Worker : ~Crash(w)
  BY DEF Crash, Unmeddled, Over, Spend, TypeOK, FabricTypeOK, Intervention
\* A job that executes has reported no end yet.
<1>7. ASSUME NEW w \in Worker, NEW r \in Run, NEW kind \in EventKind, Executes(w, r),
             Emit(w, r, kind), UNCHANGED <<outbox, up>>
      PROVE  Settling
  <2>1. PICK new \in Event : new.run = r /\ new.kind = kind /\ Emitted(new, w)
    BY <1>1, <1>7, EmitAdds
  <2>2. /\ rstate[r] \notin Terminal
        /\ \A e \in Traces(w) : e.run = r => e.kind = "started"
    BY <1>7 DEF Owned, OwnedAs, Doing, Active, Terminal
  <2>3. Faithful'
    BY <1>1, <2>1, <2>2 DEF Faithful, Emitted
  <2> QED BY <1>1, <2>3 DEF Settling, EndsStay, EndStays
<1>8. ASSUME NEW w \in Worker, ExecutorStart(w) PROVE Settling
  <2>1. /\ slot[w].run \in Run /\ Executes(w, slot[w].run) /\ "started" \in EventKind
        /\ Emit(w, slot[w].run, "started") /\ UNCHANGED <<outbox, up>>
    BY <1>8 DEF ExecutorStart, TypeOK, WorkerTypeOK, Job, Executes, EventKind, fabricVars
  <2> QED BY <1>7, <2>1
<1>9. ASSUME NEW w \in Worker, ExecutorEnd(w) PROVE Settling
  <2>1. slot[w].run \in Run /\ Executes(w, slot[w].run) /\ UNCHANGED <<outbox, up>>
    BY <1>9 DEF ExecutorEnd, TypeOK, WorkerTypeOK, Job, Executes
  <2>2. PICK kind \in ExitKind : Emit(w, slot[w].run, kind)
    BY <1>9 DEF ExecutorEnd
  <2>3. kind \in EventKind
    BY ExitAssumption DEF EventKind
  <2> QED BY <1>7, <2>1, <2>2, <2>3
<1> QED BY <1>2, <1>3, <1>4, <1>5, <1>6, <1>8, <1>9
        DEF WorkerStep, Hangup, ConnectionLost, DrainRequest, SelfDrain, EndSession,
            ExecutorFinish, fabricVars

\* The stop that is the first one is of a run that has not ended, and leaves
\* those that have.
LEMMA StopKeepsEnds ==
  ASSUME TypeOK, NEW r \in Run, StopRun(r)
  PROVE  EndsStay
<1>1. rstate \in [Run -> RunState] /\ rstate[r] \notin Terminal
  BY DEF StopRun, TypeOK, HubTypeOK
<1>2. CASE SignalCancel(r)
  BY <1>2 DEF SignalCancel, storeVars, EndsStay
<1>3. CASE CancelNow(r)
  <2>1. \A q \in Run : Shuffled([rstate EXCEPT ![r] = "cancelled"][q], rstate'[q])
    BY <1>3, PumpShuffles DEF CancelNow
  <2> QED BY <1>1, <2>1 DEF Shuffled, EndsStay, Terminal
<1> QED BY <1>2, <1>3 DEF StopRun

\* Whatever connections are lost, whoever falls silent and whenever the
\* control plane restarts and has all of a worker's events resent: until
\* somebody asks for a stop, no replay and no detach resurrects a run that has
\* ended or changes how it ended.
THEOREM FleetTerminalIsFinal ==
  ASSUME AllPersistent, Peaceful
  PROVE  Spec => TerminalIsFinal
<1>1. Init => (Unstopped => Faithful)
  <2> SUFFICES ASSUME Init PROVE Faithful
    OBVIOUS
  <2>1. Range(<<>>) = {}
    BY DEF Range
  <2>2. \A w \in Worker : Traces(w) = {}
    BY <2>1 DEF Init, FabricInit, WorkerInit, Conn, Kept, InFlight, Traces
  <2> QED BY <2>2 DEF Faithful
<1>2. TypeOK /\ Wire /\ (Unstopped => Owned /\ Unmeddled) /\ (Unstopped => Faithful) /\ [Next]_vars
        => (Unstopped => Faithful)' /\ (Unstopped => EndsStay)
  <2> SUFFICES ASSUME TypeOK, Wire, Owned, Unmeddled, Faithful, [Next]_vars
               PROVE  EndsStay /\ (Unstopped' => Faithful')
    BY AskedGrows DEF Unstopped
  <2>1. CASE UNCHANGED vars
    <3>1. UNCHANGED <<workerVars, up, highWater, rstate>>
      BY <2>1 DEF vars, fabricVars, hubVars, storeVars, memoryVars
    <3>2. \A r \in Run : EndStays(r)
      BY <3>1 DEF EndStays
    <3> QED BY <3>1, <3>2, SameTraces, FaithfulKeeps DEF Settling
  <2>2. CASE HubStep /\ UNCHANGED workerVars
    BY <2>2, HubStepSettling DEF Settling
  <2>3. CASE WorkerStep /\ UNCHANGED hubVars
    BY <2>3, WorkerStepSettling DEF Settling
  <2>4. CASE Request /\ UNCHANGED workerVars /\ Unstopped'
    BY <2>4, RequestSettling DEF Settling
  <2>5. CASE Request /\ UNCHANGED workerVars /\ ~Unstopped'
    <3>1. PICK r \in Run : StopRun(r)
      BY <2>5 DEF Request, Unmeddled, Unstopped
    <3> QED BY <2>5, <3>1, StopKeepsEnds
  <2> QED BY <2>1, <2>2, <2>3, <2>4, <2>5 DEF Next
<1>3. (Unstopped => EndsStay) => [\A r \in Run : rstate[r] \in Terminal /\ rstate'[r] # rstate[r]
                                    => ResumeRun(r) \/ asked # {}]_vars
  BY DEF EndsStay, Unstopped
<1>4. Never("crash")
  BY DEF Peaceful
<1>5. Spec => []Wire
  BY <1>4, FleetWire
<1> QED BY <1>1, <1>2, <1>3, <1>5, FleetTypeOK, FleetUnmeddled, PTL DEF Spec, TerminalIsFinal

-----------------------------------------------------------------------------
(***************************************************************************)
(* Stops.  A stop is answered by the worker the run was given to, and what *)
(* that worker then kills must be the run the stop names.  It is as long   *)
(* as runs go one at a time and nothing but stops disturbs them: a cancel  *)
(* follows the order to start its run, and no later order overtakes it.    *)
(***************************************************************************)

\* Runs go one at a time: they are the children of one sweep held at one.
SingleFile == \E s \in Sweep : Concurrency[s] = 1 /\ \A r \in Run : SweepOf[r] = s

\* No fault, and no intervention but stops.
OnlyStops == \A what \in Intervention \ {"stop"} : Never(what)

Unhindered == \A what \in Intervention \ {"stop"} : Over(what)

At(w) == IF slot[w] = None THEN None ELSE slot[w].run

\* What is ahead of an order to start a run is about other runs, what is behind
\* it about that run; and what is ahead of all orders is about the run at hand.
InTurn(s, at) ==
    /\ \A i, j \in DOMAIN s : s[j].type = "assign" /\ i # j /\ s[i].type # "ack" =>
         s[i].type = "cancel" /\ (s[i].run = s[j].run <=> j < i)
    /\ at # None => \A j \in DOMAIN s : s[j].type = "cancel" =>
         s[j].run = at \/ \E i \in DOMAIN s : i < j /\ s[i].type = "assign"

\* What a worker has yet to report; nothing is sent twice.
Coming(w) == Range(jobrx[w]) \cup InFlight(w)

AtRest(w) == slot[w] = None /\ outbox[w] = <<>> /\ jobrx[w] = <<>>

\* No session ends, and nobody refuses work.
Steady ==
    /\ serving = dialled /\ silent = {} /\ refuses = {}
    /\ \A c \in Conn : /\ c \in dialled <=> link[WorkerOf(c)] = SocketOf(c)
                       /\ AckWaits(down[c]) => AtRest(WorkerOf(c))
    /\ \A w \in Worker : /\ link[w] = None => AtRest(w)
                         /\ slot[w] # None => slot[w].phase # "reported"
                         /\ \A e \in Coming(w) : e.seq > highWater[w]

Lines(lk, dn) ==
    \A c \in Conn : /\ lk[WorkerOf(c)] # SocketOf(c) => dn[c] = <<>>
                    /\ \A m \in Range(dn[c]) : m.type # "drain"
                    /\ InTurn(dn[c], At(WorkerOf(c)))

GivenTo(st, wk, r, w) == st[r] \notin Fresh /\ wk[r] = w

\* Whatever there is of a run is where the run was given to, and no stop of it
\* is on its way, reported or recorded that nobody asked for.
Trail(st, wk, dn, cm, as) ==
    /\ \A r \in Run : /\ st[r] \in Fresh => wk[r] = None
                      /\ st[r] = "cancelled" => r \in as
    /\ \A w \in Worker :
         /\ At(w) # None => GivenTo(st, wk, At(w), w)
         /\ \A e \in cm[w] : /\ GivenTo(st, wk, e.run, w)
                             /\ e.kind = "killed_cancel" => e.run \in as
    /\ \A c \in Conn : \A m \in Range(dn[c]) : m.type \in {"assign", "cancel"} =>
         /\ GivenTo(st, wk, m.run, WorkerOf(c))
         /\ m.type = "cancel" => m.run \in as

\* A run is ordered, executes or has ended, one after the other.
Stages(st, dn, cm) ==
    /\ \A c \in Conn : \A m \in Range(dn[c]) : m.type = "assign" =>
         /\ st[m.run] \in Active /\ ~Executes(WorkerOf(c), m.run)
         /\ \A e \in cm[WorkerOf(c)] : e.run # m.run
    /\ \A w \in Worker, r \in Run : Executes(w, r) =>
         st[r] \in Active /\ \A e \in cm[w] : e.run = r => e.kind = "started"

\* An active run is in one of these stages, on a worker that can be told.
Reach(st, wk, lk, dn, cm) ==
    \A r \in Run : st[r] \in Active =>
      /\ wk[r] \in Worker /\ lk[wk[r]] # None
      /\ \/ AssignOf(r) \in Range(dn[<<wk[r], lk[wk[r]]>>])
         \/ Executes(wk[r], r)
         \/ At(wk[r]) \in {None, r} /\ \E e \in cm[wk[r]] : e.run = r /\ e.kind # "started"

\* No more children of a sweep are active than it may have.
ActiveIn(st, s) == {r \in Run : SweepOf[r] = s /\ st[r] \in Active}

Filled(st) == \A s \in Sweep : Concurrency[s] > 0 =>
                 Cardinality(ActiveIn(st, s)) <= Concurrency[s]

InOrder(st, wk, lk, dn, cm, as) ==
    Filled(st) /\ Lines(lk, dn) /\ Trail(st, wk, dn, cm, as) /\ Stages(st, dn, cm)
    /\ Reach(st, wk, lk, dn, cm)

Stoppable == /\ Steady
             /\ InOrder(rstate, rworker, link, down, [w \in Worker |-> Coming(w)], asked)

LEMMA FilledLess ==
  ASSUME NEW st, Filled(st), NEW st2, \A r \in Run : st2[r] \in Active => st[r] \in Active
  PROVE  Filled(st2)
<1> SUFFICES ASSUME NEW s \in Sweep, Concurrency[s] > 0
             PROVE  Cardinality(ActiveIn(st2, s)) <= Concurrency[s]
  BY DEF Filled
<1>1. ActiveIn(st2, s) \subseteq ActiveIn(st, s) /\ ActiveIn(st, s) \subseteq Run
  BY DEF ActiveIn
<1>2. IsFiniteSet(ActiveIn(st, s)) /\ IsFiniteSet(ActiveIn(st2, s))
  BY <1>1, RunAssumption, FS_Subset
<1>3. Cardinality(ActiveIn(st2, s)) <= Cardinality(ActiveIn(st, s))
  BY <1>1, <1>2, FS_Subset
<1>4. Cardinality(ActiveIn(st, s)) <= Concurrency[s]
  BY DEF Filled
<1> QED BY <1>2, <1>3, <1>4, FS_CardinalityType, SweepAssumption

\* The last child a pass hands out was not held: with those before it, it fits.
LEMMA PumpFilled ==
  ASSUME NEW st \in [Run -> RunState], NEW wk, NEW cur, NEW gr, NEW lk, NEW sil, NEW dn,
         Pump(st, wk, cur, gr, lk, sil, dn), Filled(st)
  PROVE  Filled(rstate')
<1> SUFFICES ASSUME NEW s \in Sweep, Concurrency[s] > 0
             PROVE  Cardinality(ActiveIn(rstate', s)) <= Concurrency[s]
  BY DEF Filled
<1>1. PICK f : HandsOut(f, st, wk, cur, lk, dn)
  BY PumpHandsOut
<1> DEFINE D == {r \in DOMAIN f : SweepOf[r] = s}
<1>2. D \in SUBSET Run /\ Concurrency[s] \in Nat /\ s # None
  BY <1>1, SweepAssumption DEF HandsOut
<1>3. CASE D = {}
  <2>1. ActiveIn(rstate', s) = ActiveIn(st, s)
    BY <1>1, <1>3 DEF HandsOut, ActiveIn
  <2> QED BY <2>1 DEF Filled
<1>4. CASE D # {}
  <2>1. PICK m \in D : \A q \in D : q <= m
    BY <1>2, <1>4, LastOf
  <2> DEFINE A == {q \in Siblings(m) : \/ st[q] \in Active
                                       \/ st[q] = "queued" /\ q < m}
  <2>2. m \in Run /\ SweepOf[m] = s /\ ~Held(st, m) /\ A \subseteq Run
    BY <1>1, <1>2, <2>1 DEF HandsOut, Siblings
  <2>3. IsFiniteSet(A) /\ Cardinality(A) \in Nat
    BY <2>2, RunAssumption, FS_Subset, FS_CardinalityType
  <2>4. Cardinality(A) < Concurrency[s]
    BY <1>2, <2>2, <2>3 DEF Held
  <2>5. ActiveIn(rstate', s) \subseteq A \cup {m}
    <3> SUFFICES ASSUME NEW r \in Run, SweepOf[r] = s, rstate'[r] \in Active, r # m PROVE r \in A
      BY DEF ActiveIn
    <3>1. r \in Siblings(m)
      BY <2>2 DEF Siblings
    <3>2. CASE r \in DOMAIN f
      <4>1. r <= m /\ st[r] = "queued" /\ r \in Nat /\ m \in Nat
        BY <1>1, <2>1, <2>2, <3>2, RunAssumption DEF HandsOut
      <4> QED BY <3>1, <4>1
    <3>3. CASE r \notin DOMAIN f
      BY <1>1, <3>1, <3>3 DEF HandsOut
    <3> QED BY <3>2, <3>3
  <2> HIDE DEF A
  <2>6. IsFiniteSet(A \cup {m}) /\ Cardinality(A \cup {m}) \in Nat
    BY <2>3, FS_AddElement, FS_CardinalityType
  <2>7. Cardinality(A \cup {m}) <= Cardinality(A) + 1
    <3>1. Cardinality(A \cup {m}) = IF m \in A THEN Cardinality(A) ELSE Cardinality(A) + 1
      BY <2>3, FS_AddElement
    <3> QED BY <2>3, <3>1
  <2>8. /\ Cardinality(ActiveIn(rstate', s)) <= Cardinality(A \cup {m})
        /\ Cardinality(ActiveIn(rstate', s)) \in Nat
    BY <2>5, <2>6, FS_Subset, FS_CardinalityType
  <2> QED BY <1>2, <2>3, <2>4, <2>6, <2>7, <2>8
<1> QED BY <1>3, <1>4

LEMMA OneActive ==
  ASSUME SingleFile, NEW st, Filled(st)
  PROVE  \A q, r \in Run : st[q] \in Active /\ st[r] \in Active => q = r
<1> SUFFICES ASSUME NEW q \in Run, NEW r \in Run, st[q] \in Active, st[r] \in Active, q # r
             PROVE  FALSE
  OBVIOUS
<1>1. PICK s \in Sweep : Concurrency[s] = 1 /\ \A p \in Run : SweepOf[p] = s
  BY DEF SingleFile
<1>2. Cardinality(ActiveIn(st, s)) <= 1 /\ q \in ActiveIn(st, s) /\ r \in ActiveIn(st, s)
  BY <1>1 DEF Filled, ActiveIn
<1>3. /\ IsFiniteSet(ActiveIn(st, s)) /\ IsFiniteSet({q}) /\ Cardinality({q}) = 1
  <2>1. ActiveIn(st, s) \subseteq Run
    BY DEF ActiveIn
  <2>2. IsFiniteSet(ActiveIn(st, s))
    BY <2>1, RunAssumption, FS_Subset
  <2> QED BY <2>2, FS_Singleton
<1>4. Cardinality({q, r}) = 2
  <2>1. {q, r} = {q} \cup {r}
    OBVIOUS
  <2>2. Cardinality({q} \cup {r}) = Cardinality({q}) + 1
    BY <1>3, FS_AddElement
  <2> QED BY <1>3, <2>1, <2>2
<1>5. Cardinality({q, r}) <= Cardinality(ActiveIn(st, s)) /\ Cardinality(ActiveIn(st, s)) \in Nat
  BY <1>2, <1>3, FS_Subset, FS_CardinalityType
<1> QED BY <1>2, <1>4, <1>5

\* Orders and cancels in turn.
LEMMA InTurnAssigned ==
  ASSUME NEW s \in Seq(Control), NEW at, InTurn(s, at), NEW r \in Run,
         \A m \in Range(s) : m.type # "drain" /\ m.type # "assign"
                             /\ (m.type = "cancel" => m.run # r)
  PROVE  InTurn(Append(s, AssignOf(r)), at)
<1> DEFINE t == Append(s, AssignOf(r))
<1>1. AssignOf(r) \in Control /\ AssignOf(r).type = "assign" /\ AssignOf(r).run = r
  BY DEF AssignOf, Control, Command
<1>2. /\ DOMAIN s = 1..Len(s) /\ Len(s) \in Nat
      /\ DOMAIN t = 1..Len(s) + 1
      /\ \A i \in 1..Len(s) : t[i] = s[i] /\ s[i] \in Range(s) /\ s[i] \in Control
      /\ t[Len(s) + 1] = AssignOf(r)
  BY <1>1, AppendProperties, LenProperties DEF Range
<1> HIDE DEF t
<1>3. \A m \in Control : m.type \in {"ack", "assign", "cancel", "drain"}
  BY DEF Control, Ack, Command, Drain
<1>4. ASSUME NEW i \in DOMAIN t, NEW j \in DOMAIN t, t[j].type = "assign", i # j, t[i].type # "ack"
      PROVE  t[i].type = "cancel" /\ (t[i].run = t[j].run <=> j < i)
  <2>1. j = Len(s) + 1 /\ i \in 1..Len(s)
    BY <1>2, <1>4
  <2>2. t[i] \in Range(s) /\ t[i] \in Control
    BY <1>2, <2>1
  <2> QED BY <1>1, <1>2, <1>3, <1>4, <2>1, <2>2
<1>5. ASSUME at # None, NEW j \in DOMAIN t, t[j].type = "cancel"
      PROVE  t[j].run = at \/ \E i \in DOMAIN t : i < j /\ t[i].type = "assign"
  <2>1. j \in 1..Len(s)
    BY <1>1, <1>2, <1>5
  <2>2. s[j].run = at \/ \E i \in DOMAIN s : i < j /\ s[i].type = "assign"
    BY <1>2, <1>5, <2>1 DEF InTurn
  <2> QED BY <1>2, <2>1, <2>2
<1> QED BY <1>4, <1>5 DEF InTurn, t

LEMMA InTurnCancelled ==
  ASSUME NEW s \in Seq(Control), NEW at, InTurn(s, at), NEW r \in Run,
         \A m \in Range(s) : m.type = "assign" => m.run = r,
         at \in {None, r} \/ \E m \in Range(s) : m.type = "assign"
  PROVE  InTurn(Append(s, CancelOf(r)), at)
<1> DEFINE t == Append(s, CancelOf(r))
<1>1. CancelOf(r) \in Control /\ CancelOf(r).type = "cancel" /\ CancelOf(r).run = r
  BY DEF CancelOf, Control, Command
<1>2. /\ DOMAIN s = 1..Len(s) /\ Len(s) \in Nat
      /\ DOMAIN t = 1..Len(s) + 1
      /\ \A i \in 1..Len(s) : t[i] = s[i] /\ s[i] \in Range(s)
      /\ t[Len(s) + 1] = CancelOf(r)
      /\ \A m \in Range(s) : \E i \in 1..Len(s) : m = s[i]
  BY <1>1, AppendProperties, LenProperties DEF Range
<1> HIDE DEF t
<1>3. ASSUME NEW i \in DOMAIN t, NEW j \in DOMAIN t, t[j].type = "assign", i # j, t[i].type # "ack"
      PROVE  t[i].type = "cancel" /\ (t[i].run = t[j].run <=> j < i)
  <2>1. j \in 1..Len(s) /\ t[j] = s[j]
    BY <1>1, <1>2, <1>3
  <2>2. CASE i = Len(s) + 1
    BY <1>1, <1>2, <1>3, <2>1, <2>2
  <2>3. CASE i \in 1..Len(s)
    BY <1>2, <1>3, <2>1, <2>3 DEF InTurn
  <2> QED BY <1>2, <2>2, <2>3
<1>4. ASSUME at # None, NEW j \in DOMAIN t, t[j].type = "cancel"
      PROVE  t[j].run = at \/ \E i \in DOMAIN t : i < j /\ t[i].type = "assign"
  <2>1. CASE j \in 1..Len(s)
    <3>1. s[j].run = at \/ \E i \in DOMAIN s : i < j /\ s[i].type = "assign"
      BY <1>2, <1>4, <2>1 DEF InTurn
    <3> QED BY <1>2, <2>1, <3>1
  <2>2. CASE j = Len(s) + 1
    <3>1. ASSUME NEW m \in Range(s), m.type = "assign"
          PROVE  \E i \in DOMAIN t : i < j /\ t[i].type = "assign"
      BY <1>2, <2>2, <3>1
    <3> QED BY <1>1, <1>2, <1>4, <2>2, <3>1
  <2> QED BY <1>2, <2>1, <2>2
<1> QED BY <1>3, <1>4 DEF InTurn, t

\* Taking the first message: the order in front decides what is at hand.
LEMMA InTurnTail ==
  ASSUME NEW s \in Seq(Control), s # <<>>, NEW at, InTurn(s, at)
  PROVE  /\ Head(s).type # "assign" => InTurn(Tail(s), at) /\ InTurn(Tail(s), None)
         /\ Head(s).type = "assign" => InTurn(Tail(s), Head(s).run)
         /\ Head(s).type = "cancel" => at \in {None, Head(s).run}
         /\ Head(s).type = "assign" => \A m \in Range(Tail(s)) : m.type # "assign"
         /\ Head(s).type = "cancel" =>
              \A m \in Range(Tail(s)) : m.type = "assign" => m.run # Head(s).run
<1> DEFINE t == Tail(s)
           h == Head(s)
<1>1. /\ DOMAIN s = 1..Len(s) /\ Len(s) \in Nat /\ Len(s) >= 1
      /\ DOMAIN t = 1..Len(s) - 1
      /\ \A i \in 1..Len(s) - 1 : t[i] = s[i + 1] /\ i + 1 \in 1..Len(s)
      /\ h = s[1]
      /\ \A m \in Range(t) : \E i \in 1..Len(s) - 1 : m = t[i]
  BY HeadTailProperties, LenProperties, EmptySeq DEF Range
<1> HIDE DEF t, h
<1>2. ASSUME NEW i \in DOMAIN t, NEW j \in DOMAIN t, t[j].type = "assign", i # j, t[i].type # "ack"
      PROVE  t[i].type = "cancel" /\ (t[i].run = t[j].run <=> j < i)
  <2>1. /\ s[i + 1].type = "cancel"
        /\ s[i + 1].run = s[j + 1].run <=> j + 1 < i + 1
    BY <1>1, <1>2 DEF InTurn
  <2> QED BY <1>1, <2>1
<1>3. ASSUME h.type # "assign", at # None, NEW j \in DOMAIN t, t[j].type = "cancel"
      PROVE  t[j].run = at \/ \E i \in DOMAIN t : i < j /\ t[i].type = "assign"
  <2>1. s[j + 1].run = at \/ \E i \in DOMAIN s : i < j + 1 /\ s[i].type = "assign"
    BY <1>1, <1>3 DEF InTurn
  <2>2. ASSUME NEW i \in DOMAIN s, i < j + 1, s[i].type = "assign"
        PROVE  \E k \in DOMAIN t : k < j /\ t[k].type = "assign"
    <3>1. i # 1
      BY <1>1, <1>3, <2>2
    <3>2. i - 1 \in DOMAIN t /\ i - 1 < j /\ t[i - 1] = s[i]
      BY <1>1, <2>2, <3>1
    <3> QED BY <2>2, <3>2
  <2> QED BY <1>1, <2>1, <2>2
<1>4. ASSUME h.type = "assign", NEW j \in DOMAIN t, t[j].type # "ack"
      PROVE  t[j].type = "cancel" /\ t[j].run = h.run
  <2>1. 1 \in DOMAIN s /\ j + 1 \in DOMAIN s /\ j + 1 # 1 /\ 1 < j + 1
    BY <1>1
  <2>2. s[j + 1].type = "cancel" /\ (s[j + 1].run = s[1].run <=> 1 < j + 1)
    BY <1>1, <1>4, <2>1 DEF InTurn
  <2> QED BY <1>1, <2>1, <2>2
<1>5. ASSUME h.type = "cancel" PROVE at \in {None, h.run}
  <2>1. 1 \in DOMAIN s /\ ~\E i \in DOMAIN s : i < 1
    BY <1>1
  <2> QED BY <1>1, <1>5, <2>1 DEF InTurn
<1>6. ASSUME h.type = "cancel", NEW j \in DOMAIN t, t[j].type = "assign"
      PROVE  t[j].run # h.run
  <2>1. 1 \in DOMAIN s /\ j + 1 \in DOMAIN s /\ 1 # j + 1 /\ ~(j + 1 < 1)
    BY <1>1
  <2>2. s[1].run = s[j + 1].run <=> j + 1 < 1
    BY <1>1, <1>6, <2>1 DEF InTurn
  <2> QED BY <1>1, <2>1, <2>2
<1>7. h.type # "assign" => InTurn(t, at) /\ InTurn(t, None)
  BY <1>2, <1>3 DEF InTurn
<1>8. h.type = "assign" => InTurn(t, h.run)
  BY <1>2, <1>4 DEF InTurn
<1>9. h.type = "assign" => \A m \in Range(t) : m.type # "assign"
  BY <1>1, <1>4
<1>10. h.type = "cancel" => \A m \in Range(t) : m.type = "assign" => m.run # h.run
  BY <1>1, <1>6
<1> QED BY <1>5, <1>7, <1>8, <1>9, <1>10 DEF t, h

\* A scheduler pass keeps the order: what it hands out is the one active run.
LEMMA PumpInOrder ==
  ASSUME SingleFile, TypeOK, NEW st \in [Run -> RunState], NEW wk, NEW cur, NEW gr,
         NEW lk \in [Worker -> Socket \cup {None}], NEW sil, NEW dn \in [Conn -> Seq(Control)],
         NEW cm \in [Worker -> SUBSET Event], NEW as,
         InOrder(st, wk, lk, dn, cm, as), Pump(st, wk, cur, gr, lk, sil, dn)
  PROVE  InOrder(rstate', rworker', lk, down', cm, as)
<1>1. PICK f : HandsOut(f, st, wk, cur, lk, dn)
  BY PumpHandsOut
<1>2. /\ Lines(lk, dn) /\ Trail(st, wk, dn, cm, as) /\ Stages(st, dn, cm)
      /\ Reach(st, wk, lk, dn, cm) /\ Filled(st)
  BY DEF InOrder
<1>3. Filled(rstate')
  BY <1>2, PumpFilled
<1>4. /\ \A r \in DOMAIN f : /\ r \in Run /\ st[r] = "queued" /\ f[r] \in Worker /\ lk[f[r]] \in Socket
                             /\ rstate'[r] = "assigned" /\ rworker'[r] = f[r]
      /\ \A r \in Run \ DOMAIN f : rstate'[r] = st[r] /\ rworker'[r] = wk[r]
      /\ \A c \in Conn : \/ \E r \in DOMAIN f : /\ f[r] = WorkerOf(c)
                                                /\ lk[WorkerOf(c)] = SocketOf(c)
                                                /\ down'[c] = Append(dn[c], AssignOf(r))
                         \/ down'[c] = dn[c]
      /\ \A r \in DOMAIN f, c \in Conn :
           f[r] = WorkerOf(c) /\ lk[WorkerOf(c)] = SocketOf(c)
             => down'[c] = Append(dn[c], AssignOf(r))
  BY <1>1 DEF HandsOut
<1>5. ASSUME NEW r \in DOMAIN f, NEW q \in Run, st[q] \in Active PROVE FALSE
  <2>1. q \notin DOMAIN f /\ rstate'[q] \in Active /\ rstate'[r] \in Active
    BY <1>4, <1>5 DEF Active
  <2> QED BY <1>3, <1>4, <1>5, <2>1, OneActive
<1>6. \A r \in Run : /\ AssignOf(r) \in Control /\ AssignOf(r).type = "assign" /\ AssignOf(r).run = r
  BY DEF AssignOf, Control, Command
<1>7. \A c \in Conn, r \in Run : Range(Append(dn[c], AssignOf(r))) = Range(dn[c]) \cup {AssignOf(r)}
  <2> SUFFICES ASSUME NEW c \in Conn, NEW r \in Run
               PROVE  Range(Append(dn[c], AssignOf(r))) = Range(dn[c]) \cup {AssignOf(r)}
    OBVIOUS
  <2>1. dn[c] \in Seq(Control) /\ AssignOf(r) \in Control
    BY <1>6
  <2> QED BY <2>1, RangeOfAppend
<1>8. /\ \A c \in Conn : \A m \in Range(dn[c]) : m \in Control
      /\ \A m \in Control : m.type \in {"assign", "cancel"} => m.run \in Run
      /\ \A w \in Worker : At(w) # None => At(w) \in Run
      /\ \A w \in Worker : \A e \in cm[w] : e.run \in Run
      /\ None \notin Run
  <2>1. \A s \in Seq(Control) : \A m \in Range(s) : m \in Control
    BY LenProperties DEF Range
  <2>2. \A m \in Control : m.type \in {"assign", "cancel"} => m.run \in Run
    BY DEF Control, Ack, Command, Drain
  <2>3. \A w \in Worker : At(w) # None => At(w) \in Run
    BY DEF At, TypeOK, WorkerTypeOK, Job
  <2>4. \A w \in Worker : \A e \in cm[w] : e.run \in Run
    BY DEF Event
  <2> QED BY <2>1, <2>2, <2>3, <2>4, RunAssumption
<1>9. \A q \in Run, w \in Worker : GivenTo(st, wk, q, w) => q \notin DOMAIN f /\ GivenTo(rstate', rworker', q, w)
  BY <1>4 DEF GivenTo, Fresh
<1>10. Lines(lk, down')
  <2> SUFFICES ASSUME NEW c \in Conn
               PROVE  /\ lk[WorkerOf(c)] # SocketOf(c) => down'[c] = <<>>
                      /\ \A m \in Range(down'[c]) : m.type # "drain"
                      /\ InTurn(down'[c], At(WorkerOf(c)))
    BY DEF Lines
  <2>1. CASE down'[c] = dn[c]
    BY <1>2, <2>1 DEF Lines
  <2>2. ASSUME NEW r \in DOMAIN f, f[r] = WorkerOf(c), lk[WorkerOf(c)] = SocketOf(c),
               down'[c] = Append(dn[c], AssignOf(r))
        PROVE  /\ \A m \in Range(down'[c]) : m.type # "drain"
               /\ InTurn(down'[c], At(WorkerOf(c)))
    <3>1. \A m \in Range(dn[c]) : m.type # "drain" /\ InTurn(dn[c], At(WorkerOf(c)))
      BY <1>2 DEF Lines
    <3>2. \A m \in Range(dn[c]) : m.type # "assign"
      BY <1>2, <1>5, <1>8 DEF Stages
    <3>3. ASSUME NEW m \in Range(dn[c]), m.type = "cancel" PROVE m.run # r
      <4>1. GivenTo(st, wk, m.run, WorkerOf(c)) /\ m.run \in Run
        BY <1>2, <1>8, <3>3 DEF Trail
      <4> QED BY <1>9, <4>1, ConnType
    <3>4. InTurn(dn[c], At(WorkerOf(c)))
      BY <1>2 DEF Lines
    <3>5. InTurn(Append(dn[c], AssignOf(r)), At(WorkerOf(c)))
      BY <1>4, <3>1, <3>2, <3>3, <3>4, InTurnAssigned
    <3> QED BY <1>4, <1>6, <1>7, <2>2, <3>1, <3>5
  <2> QED BY <1>4, <2>1, <2>2
<1>11. ASSUME NEW c \in Conn, NEW m \in Range(down'[c])
       PROVE  \/ m \in Range(dn[c])
              \/ \E r \in DOMAIN f : m = AssignOf(r) /\ f[r] = WorkerOf(c)
  <2>1. ASSUME NEW r \in DOMAIN f, down'[c] = Append(dn[c], AssignOf(r))
        PROVE  m \in Range(dn[c]) \/ m = AssignOf(r)
    <3>1. r \in Run /\ Range(Append(dn[c], AssignOf(r))) = Range(dn[c]) \cup {AssignOf(r)}
      BY <1>4, <1>7
    <3> QED BY <1>11, <2>1, <3>1
  <2> QED BY <1>4, <1>11, <2>1
<1>12. Trail(rstate', rworker', down', cm, as)
  <2>1. \A r \in Run : /\ rstate'[r] \in Fresh => rworker'[r] = None
                       /\ rstate'[r] = "cancelled" => r \in as
    BY <1>2, <1>4 DEF Trail, Fresh
  <2>2. \A w \in Worker : /\ At(w) # None => GivenTo(rstate', rworker', At(w), w)
                          /\ \A e \in cm[w] : /\ GivenTo(rstate', rworker', e.run, w)
                                              /\ e.kind = "killed_cancel" => e.run \in as
    BY <1>2, <1>8, <1>9 DEF Trail
  <2>3. ASSUME NEW c \in Conn, NEW m \in Range(down'[c]), m.type \in {"assign", "cancel"}
        PROVE  /\ GivenTo(rstate', rworker', m.run, WorkerOf(c))
               /\ m.type = "cancel" => m.run \in as
    <3>1. CASE m \in Range(dn[c])
      BY <1>2, <1>8, <1>9, <2>3, <3>1, ConnType DEF Trail
    <3>2. ASSUME NEW r \in DOMAIN f, m = AssignOf(r), f[r] = WorkerOf(c)
          PROVE  GivenTo(rstate', rworker', m.run, WorkerOf(c)) /\ m.type # "cancel"
      BY <1>4, <1>6, <3>2 DEF GivenTo, Fresh
    <3> QED BY <1>11, <3>1, <3>2
  <2> QED BY <2>1, <2>2, <2>3 DEF Trail
<1>13. \A r \in Run : st[r] \in Active => rstate'[r] \in Active /\ rworker'[r] = wk[r]
  BY <1>4 DEF Active
<1>14. Stages(rstate', down', cm)
  <2>1. ASSUME NEW c \in Conn, NEW m \in Range(down'[c]), m.type = "assign"
        PROVE  /\ rstate'[m.run] \in Active /\ ~Executes(WorkerOf(c), m.run)
               /\ \A e \in cm[WorkerOf(c)] : e.run # m.run
    <3>1. CASE m \in Range(dn[c])
      BY <1>2, <1>8, <1>13, <2>1, <3>1 DEF Stages
    <3>2. ASSUME NEW r \in DOMAIN f, m = AssignOf(r)
          PROVE  /\ rstate'[m.run] \in Active /\ ~Executes(WorkerOf(c), m.run)
                 /\ \A e \in cm[WorkerOf(c)] : e.run # m.run
      <4>1. m.run = r /\ rstate'[r] \in Active /\ st[r] \in Fresh /\ st[r] \notin Active
        BY <1>4, <1>6, <3>2 DEF Active, Fresh
      <4>2. ~Executes(WorkerOf(c), r)
        BY <1>2, <1>4, <4>1, ConnType DEF Stages
      <4>3. \A e \in cm[WorkerOf(c)] : e.run # r
        BY <1>2, <4>1, ConnType DEF Trail, GivenTo
      <4> QED BY <4>1, <4>2, <4>3
    <3> QED BY <1>11, <3>1, <3>2
  <2>2. \A w \in Worker, r \in Run : Executes(w, r) =>
          rstate'[r] \in Active /\ \A e \in cm[w] : e.run = r => e.kind = "started"
    BY <1>2, <1>13 DEF Stages
  <2> QED BY <2>1, <2>2 DEF Stages
<1>15. Reach(rstate', rworker', lk, down', cm)
  <2> SUFFICES ASSUME NEW r \in Run, rstate'[r] \in Active
               PROVE  /\ rworker'[r] \in Worker /\ lk[rworker'[r]] # None
                      /\ \/ AssignOf(r) \in Range(down'[<<rworker'[r], lk[rworker'[r]]>>])
                         \/ Executes(rworker'[r], r)
                         \/ /\ At(rworker'[r]) \in {None, r}
                            /\ \E e \in cm[rworker'[r]] : e.run = r /\ e.kind # "started"
    BY DEF Reach
  <2>1. CASE r \in DOMAIN f
    <3> DEFINE c == <<f[r], lk[f[r]]>>
    <3>1. c \in Conn /\ WorkerOf(c) = f[r] /\ SocketOf(c) = lk[f[r]] /\ lk[f[r]] # None
      BY <1>4, <2>1, SocketAssumption DEF Conn, WorkerOf, SocketOf
    <3> HIDE DEF c
    <3>2. AssignOf(r) \in Range(down'[c])
      <4>1. r \in Run /\ down'[c] = Append(dn[c], AssignOf(r))
        BY <1>4, <2>1, <3>1
      <4>2. Range(Append(dn[c], AssignOf(r))) = Range(dn[c]) \cup {AssignOf(r)}
        BY <1>7, <3>1, <4>1
      <4> QED BY <4>1, <4>2
    <3> QED BY <1>4, <2>1, <3>1, <3>2 DEF c
  <2>2. CASE r \notin DOMAIN f
    <3>1. st[r] \in Active /\ rworker'[r] = wk[r]
      BY <1>4, <2>2
    <3>2. wk[r] \in Worker /\ lk[wk[r]] # None /\ <<wk[r], lk[wk[r]]>> \in Conn
      BY <1>2, <3>1 DEF Reach, Conn
    <3>3. ASSUME NEW c \in Conn PROVE Range(dn[c]) \subseteq Range(down'[c])
      <4>1. ASSUME NEW q \in DOMAIN f, down'[c] = Append(dn[c], AssignOf(q))
            PROVE  Range(dn[c]) \subseteq Range(down'[c])
        <5>1. q \in Run
          BY <1>4
        <5>2. Range(Append(dn[c], AssignOf(q))) = Range(dn[c]) \cup {AssignOf(q)}
          BY <1>7, <5>1
        <5> QED BY <4>1, <5>2
      <4>2. CASE down'[c] = dn[c]
        BY <4>2
      <4> QED BY <1>4, <4>1, <4>2
    <3> QED BY <1>2, <3>1, <3>2, <3>3 DEF Reach
  <2> QED BY <2>1, <2>2
<1> QED BY <1>3, <1>10, <1>12, <1>14, <1>15 DEF InOrder

\* A handler moves runs on and applies reports: a run leaves the active states
\* only once there is neither an order for it nor a job.
LEMMA MovesInOrder ==
  ASSUME NEW st, NEW wk, NEW lk, NEW dn, NEW cm, NEW as, InOrder(st, wk, lk, dn, cm, as),
         NEW st2, NEW cm2, NEW as2, as \subseteq as2,
         \A r \in Run : /\ st2[r] \in Active => st[r] \in Active
                        /\ st2[r] \in Fresh => st[r] \in Fresh
                        /\ st2[r] = "cancelled" => r \in as2,
         \A r \in Run : st[r] \in Active /\ st2[r] \notin Active =>
           /\ \A w \in Worker : ~Executes(w, r)
           /\ \A c \in Conn : \A m \in Range(dn[c]) : m.type = "assign" => m.run # r,
         \A w \in Worker : /\ cm2[w] \subseteq cm[w]
                           /\ \A e \in cm[w] : e.kind # "started" /\ st2[e.run] \in Active => e \in cm2[w],
         \A w \in Worker : /\ At(w) # None => At(w) \in Run
                           /\ \A e \in cm[w] : e.run \in Run,
         \A c \in Conn : \A m \in Range(dn[c]) : m.type \in {"assign", "cancel"} => m.run \in Run
  PROVE  InOrder(st2, wk, lk, dn, cm2, as2)
<1>1. /\ Lines(lk, dn) /\ Trail(st, wk, dn, cm, as) /\ Stages(st, dn, cm)
      /\ Reach(st, wk, lk, dn, cm) /\ Filled(st)
  BY DEF InOrder
<1>2. Filled(st2)
  BY <1>1, FilledLess
<1>3. \A r \in Run : \A w : GivenTo(st, wk, r, w) => GivenTo(st2, wk, r, w)
  BY DEF GivenTo
<1>4. Trail(st2, wk, dn, cm2, as2)
  BY <1>1, <1>3, ConnType DEF Trail
<1>5. Stages(st2, dn, cm2)
  BY <1>1, ConnType DEF Stages
<1>6. Reach(st2, wk, lk, dn, cm2)
  BY <1>1 DEF Reach
<1> QED BY <1>1, <1>2, <1>4, <1>5, <1>6 DEF InOrder

\* What the parts of the wire and of a worker name.
LEMMA OrderTypes ==
  ASSUME TypeOK
  PROVE  /\ [w \in Worker |-> Coming(w)] \in [Worker -> SUBSET Event]
         /\ \A w \in Worker : /\ At(w) # None => At(w) \in Run
                              /\ Coming(w) \subseteq Kept(w) \cup InFlight(w)
                              /\ \A e \in Coming(w) : e \in Event /\ e.run \in Run /\ e.seq \in Nat
         /\ \A c \in Conn : \A m \in Range(down[c]) :
              m \in Control /\ (m.type \in {"assign", "cancel"} => m.run \in Run)
<1>1. \A w \in Worker : Coming(w) \subseteq Kept(w) \cup InFlight(w)
  BY DEF Coming, Kept
<1>2. \A w \in Worker : \A e \in Coming(w) : e \in Event /\ e.run \in Run /\ e.seq \in Nat
  BY <1>1, EventsType DEF Event
<1>3. \A w \in Worker : At(w) # None => At(w) \in Run
  BY DEF At, TypeOK, WorkerTypeOK, Job
<1>4. \A m \in Control : m.type \in {"assign", "cancel"} => m.run \in Run
  BY DEF Control, Ack, Command, Drain
<1> QED BY <1>1, <1>2, <1>3, <1>4, NamesRuns

\* A step of the hub, once it is known to keep the order.
LEMMA HubKeepsOrder ==
  ASSUME UNCHANGED workerVars, Steady',
         InOrder(rstate', rworker', link', down', [w \in Worker |-> Coming(w)'], asked')
  PROVE  Stoppable'
<1>1. \A w : At(w)' = At(w) /\ \A r : Executes(w, r)' <=> Executes(w, r)
  BY DEF At, Executes, workerVars
<1>2. /\ Filled(rstate') /\ Lines(link', down')
      /\ Trail(rstate', rworker', down', [w \in Worker |-> Coming(w)'], asked')
      /\ Stages(rstate', down', [w \in Worker |-> Coming(w)'])
      /\ Reach(rstate', rworker', link', down', [w \in Worker |-> Coming(w)'])
  BY DEF InOrder
<1>3. Lines(link, down)'
  BY <1>1, <1>2 DEF Lines
<1>4. Trail(rstate, rworker, down, [w \in Worker |-> Coming(w)], asked)'
  BY <1>1, <1>2 DEF Trail
<1>5. Stages(rstate, down, [w \in Worker |-> Coming(w)])'
  BY <1>1, <1>2 DEF Stages
<1>6. Reach(rstate, rworker, link, down, [w \in Worker |-> Coming(w)])'
  BY <1>1, <1>2 DEF Reach
<1>7. Filled(rstate)'
  BY <1>2
<1> QED BY <1>3, <1>4, <1>5, <1>6, <1>7 DEF Stoppable, InOrder

\* A request moves no session and no report.
LEMMA RequestSteady ==
  ASSUME TypeOK, Steady, UNCHANGED <<workerVars, dialled, serving, silent, link, highWater, up>>,
         \A c \in Conn : AckWaits(down'[c]) => AckWaits(down[c])
  PROVE  Steady' /\ \A w \in Worker : Coming(w)' = Coming(w)
<1>1. \A w \in Worker : Coming(w)' = Coming(w)
  BY DEF Coming, InFlight, workerVars
<1>2. \A w \in Worker : AtRest(w) => AtRest(w)'
  BY DEF AtRest, workerVars
<1> QED BY <1>1, <1>2, ConnType DEF Steady, workerVars

LEMMA RequestStoppable ==
  ASSUME SingleFile, TypeOK, Stoppable, Over("resume"), Request, UNCHANGED workerVars
  PROVE  Stoppable'
<1> DEFINE cm == [w \in Worker |-> Coming(w)]
<1>1. /\ InOrder(rstate, rworker, link, down, cm, asked) /\ Steady
      /\ cm \in [Worker -> SUBSET Event]
      /\ rstate \in [Run -> RunState] /\ rworker \in [Run -> Worker \cup {None}]
      /\ link \in [Worker -> Socket \cup {None}] /\ down \in [Conn -> Seq(Control)]
  BY OrderTypes DEF Stoppable, TypeOK, HubTypeOK, FabricTypeOK
<1>2. /\ Trail(rstate, rworker, down, cm, asked) /\ Stages(rstate, down, cm)
      /\ Reach(rstate, rworker, link, down, cm) /\ Lines(link, down) /\ Filled(rstate)
  BY <1>1 DEF InOrder
<1>3. /\ \A w \in Worker : /\ At(w) # None => At(w) \in Run
                           /\ \A e \in cm[w] : e.run \in Run
      /\ \A c \in Conn : \A m \in Range(down[c]) : m.type \in {"assign", "cancel"} => m.run \in Run
  BY OrderTypes
<1> HIDE DEF cm
<1>4. ASSUME UNCHANGED <<dialled, serving, silent, link, highWater, up>>,
             \A c \in Conn : AckWaits(down'[c]) => AckWaits(down[c]),
             InOrder(rstate', rworker', link, down', cm, asked')
      PROVE  Stoppable'
  <2>1. Steady' /\ \A w \in Worker : Coming(w)' = Coming(w)
    BY <1>1, <1>4, RequestSteady
  <2>2. cm = [w \in Worker |-> Coming(w)']
    BY <2>1 DEF cm
  <2> QED BY <1>4, <2>1, <2>2, HubKeepsOrder
<1>5. ASSUME NEW S \in SUBSET Run, Create(S), UNCHANGED asked PROVE Stoppable'
  <2> DEFINE st == Requeue(rstate, S)
  <2>1. /\ Pump(st, rworker, current, grants, link, silent, down)
        /\ \A r \in S : rstate[r] = "new"
        /\ UNCHANGED <<dialled, serving, silent, link, highWater, up>>
    BY <1>5 DEF Create
  <2>2. st \in [Run -> RunState]
    BY <1>1, RequeueType
  <2>3. \A r \in Run : /\ st[r] \in Active <=> rstate[r] \in Active
                       /\ st[r] \in Fresh => rstate[r] \in Fresh
                       /\ st[r] = "cancelled" => rstate[r] = "cancelled"
    BY <1>1, <2>1 DEF Requeue, Active, Fresh
  <2> HIDE DEF st
  <2>4. \A r \in Run : st[r] = "cancelled" => r \in asked
    BY <1>2, <2>3 DEF Trail
  <2>5. InOrder(st, rworker, link, down, cm, asked)
    BY <1>1, <1>3, <2>3, <2>4, MovesInOrder
  <2>6. InOrder(rstate', rworker', link, down', cm, asked)
    BY <1>1, <2>1, <2>2, <2>5, PumpInOrder
  <2> QED BY <1>1, <1>4, <1>5, <2>1, <2>6, PumpAcks
<1>6. ASSUME NEW r \in Run, rstate[r] \notin Terminal \cup {"new"}, asked' = asked \cup {r}, SignalCancel(r)
      PROVE  Stoppable'
  <2> DEFINE w == rworker[r]
             d == <<w, link[w]>>
             dn == [down EXCEPT ![d] = Append(@, CancelOf(r))]
  <2>1. /\ w \in Worker /\ link[w] \in Socket /\ d \in Conn /\ WorkerOf(d) = w /\ SocketOf(d) = link[w]
        /\ down' = dn
        /\ UNCHANGED <<rstate, rworker, dialled, serving, silent, link, highWater, up>>
    BY <1>1, <1>6 DEF SignalCancel, Post, storeVars, memoryVars, Conn, WorkerOf, SocketOf
  <2>2. rstate[r] \in Active /\ rworker[r] # None
    <3>1. rstate[r] \notin Fresh
      BY <1>2, <1>6 DEF SignalCancel, Trail
    <3> QED BY <1>1, <1>6, <3>1 DEF RunState, Fresh, SignalCancel
  <2>3. /\ CancelOf(r) \in Control /\ CancelOf(r).type = "cancel" /\ CancelOf(r).run = r
        /\ CancelOf(r).type # "ack"
    BY DEF CancelOf, Control, Command
  <2> HIDE DEF d
  <2>4. /\ down'[d] = Append(down[d], CancelOf(r)) /\ down[d] \in Seq(Control)
        /\ \A c \in Conn : c # d => down'[c] = down[c]
        /\ Range(down'[d]) = Range(down[d]) \cup {CancelOf(r)}
    BY <1>1, <2>1, <2>3, RangeOfAppend
  <2> HIDE DEF w, dn
  <2>5. \A c \in Conn : AckWaits(down'[c]) => AckWaits(down[c])
    <3>1. AckWaits(Append(down[d], CancelOf(r))) <=> AckWaits(down[d])
      BY <2>3, <2>4, AckAppend
    <3> QED BY <2>4, <3>1
  <2>6. InTurn(down'[d], At(w))
    <3>1. \A m \in Range(down[d]) : m.type = "assign" => m.run = r
      BY <1>2, <1>3, <2>1, <2>2, OneActive DEF Stages
    <3>2. At(w) \in {None, r} \/ \E m \in Range(down[d]) : m.type = "assign"
      <4>1. AssignOf(r).type = "assign" /\ \A q : Executes(w, q) => At(w) = q
        BY DEF AssignOf, Executes, At
      <4> QED BY <1>2, <2>1, <2>2, <4>1 DEF Reach, w, d
    <3>3. InTurn(down[d], At(w))
      BY <1>2, <2>1 DEF Lines
    <3> QED BY <2>4, <3>1, <3>2, <3>3, InTurnCancelled
  <2>7. Lines(link, down')
    BY <1>2, <2>1, <2>3, <2>4, <2>6 DEF Lines
  <2>8. Trail(rstate, rworker, down', cm, asked')
    <3>1. GivenTo(rstate, rworker, r, w)
      BY <2>2 DEF GivenTo, Active, Fresh, w
    <3>2. asked \subseteq asked' /\ r \in asked'
      BY <1>6
    <3>3. \A c \in Conn : \A m \in Range(down'[c]) : m.type \in {"assign", "cancel"} =>
            /\ GivenTo(rstate, rworker, m.run, WorkerOf(c))
            /\ m.type = "cancel" => m.run \in asked'
      BY <1>2, <2>1, <2>3, <2>4, <3>1, <3>2 DEF Trail
    <3> QED BY <1>2, <3>2, <3>3 DEF Trail
  <2>9. Stages(rstate, down', cm)
    BY <1>2, <2>3, <2>4 DEF Stages
  <2>10. Reach(rstate, rworker, link, down', cm)
    <3>1. \A c \in Conn : Range(down[c]) \subseteq Range(down'[c])
      BY <2>4
    <3>2. \A q \in Run : rworker[q] \in Worker /\ link[rworker[q]] # None
             => <<rworker[q], link[rworker[q]]>> \in Conn
      BY <1>1 DEF Conn
    <3> QED BY <1>2, <3>1, <3>2 DEF Reach
  <2>11. InOrder(rstate', rworker', link, down', cm, asked')
    BY <1>2, <2>1, <2>7, <2>8, <2>9, <2>10 DEF InOrder
  <2> QED BY <1>4, <2>1, <2>5, <2>11
<1>7. ASSUME NEW r \in Run, rstate[r] \notin Terminal \cup {"new"}, asked' = asked \cup {r}, CancelNow(r)
      PROVE  Stoppable'
  <2> DEFINE st == [rstate EXCEPT ![r] = "cancelled"]
             cur == [w \in Worker |-> IF w = rworker[r] THEN None ELSE current[w]]
  <2>1. /\ Pump(st, rworker, cur, grants \ {r}, link, silent, down)
        /\ UNCHANGED <<dialled, serving, silent, link, highWater, up>>
        /\ rworker[r] # None => link[rworker[r]] = None
    BY <1>7 DEF CancelNow
  <2>2. rstate[r] \notin Active
    BY <1>2, <2>1, WorkerAssumption DEF Reach
  <2>3. /\ st \in [Run -> RunState] /\ asked \subseteq asked'
        /\ \A q \in Run : /\ st[q] \in Active <=> rstate[q] \in Active
                          /\ st[q] \in Fresh => rstate[q] \in Fresh
                          /\ st[q] = "cancelled" => rstate[q] = "cancelled" \/ q = r
    BY <1>1, <1>7, <2>2 DEF RunState, Terminal, Active, Fresh
  <2> HIDE DEF st, cur
  <2>4. \A q \in Run : st[q] = "cancelled" => q \in asked'
    BY <1>2, <1>7, <2>3 DEF Trail
  <2>5. InOrder(st, rworker, link, down, cm, asked')
    BY <1>1, <1>3, <2>3, <2>4, MovesInOrder
  <2>6. InOrder(rstate', rworker', link, down', cm, asked')
    BY <1>1, <2>1, <2>3, <2>5, PumpInOrder
  <2> QED BY <1>1, <1>4, <2>1, <2>6, PumpAcks
<1>8. ASSUME NEW r \in Run, StopRun(r), asked' = asked \cup {r} PROVE Stoppable'
  BY <1>6, <1>7, <1>8 DEF StopRun
<1>9. \A r \in Run : ~ResumeRun(r)
  BY DEF ResumeRun, Over, Spend, TypeOK, FabricTypeOK, Intervention
<1> QED BY <1>5, <1>8, <1>9 DEF Request, Submit, SubmitSweep

LEMMA AttachStoppable ==
  ASSUME SingleFile, TypeOK, Stoppable, NEW c \in Conn, Attach(c), UNCHANGED <<workerVars, asked>>
  PROVE  Stoppable'
<1> DEFINE cm == [v \in Worker |-> Coming(v)]
           w == WorkerOf(c)
           k == SocketOf(c)
           hw == IF highWater[w] = NoSeq THEN SeqOrigin ELSE highWater[w]
           lk == [link EXCEPT ![w] = k]
           dn == [down EXCEPT ![c] = <<AckOf(hw)>>]
<1>1. /\ InOrder(rstate, rworker, link, down, cm, asked) /\ Steady
      /\ cm \in [Worker -> SUBSET Event]
      /\ rstate \in [Run -> RunState]
      /\ link \in [Worker -> Socket \cup {None}] /\ down \in [Conn -> Seq(Control)]
      /\ highWater \in [Worker -> Nat \cup {NoSeq}]
      /\ w \in Worker /\ k \in Socket /\ c = <<w, k>>
  BY OrderTypes, ConnType DEF Stoppable, TypeOK, HubTypeOK, FabricTypeOK
<1>2. /\ Trail(rstate, rworker, down, cm, asked) /\ Stages(rstate, down, cm)
      /\ Reach(rstate, rworker, link, down, cm) /\ Lines(link, down) /\ Filled(rstate)
  BY <1>1 DEF InOrder
<1>3. /\ \A j \in Socket : <<w, j>> \notin dialled
      /\ dialled' = dialled \cup {c} /\ serving' = serving \cup {c}
      /\ silent' = silent \ {w} /\ link' = lk
      /\ Pump(rstate, rworker, current, grants, lk, silent \ {w}, dn)
      /\ UNCHANGED <<highWater, up>>
  BY DEF Attach
<1> HIDE DEF cm
<1>4. hw \in Nat /\ AckOf(hw) \in Control /\ AckOf(hw).type = "ack"
  <2>1. hw \in Nat
    BY <1>1 DEF SeqOrigin
  <2> HIDE DEF hw
  <2> QED BY <2>1 DEF AckOf, Control, Ack
<1>5. <<AckOf(hw)>> \in Seq(Control) /\ Range(<<AckOf(hw)>>) = {AckOf(hw)}
  BY <1>4 DEF Range
<1> HIDE DEF hw
<1>6. /\ lk \in [Worker -> Socket \cup {None}] /\ dn \in [Conn -> Seq(Control)]
      /\ lk[w] = k /\ \A v \in Worker : v # w => lk[v] = link[v]
      /\ dn[c] = <<AckOf(hw)>> /\ \A d \in Conn : d # c => dn[d] = down[d]
  BY <1>1, <1>5
<1> HIDE DEF lk, dn
<1>7. link[w] = None /\ AtRest(w)
  <2>1. \A j \in Socket : <<w, j>> \in Conn /\ WorkerOf(<<w, j>>) = w /\ SocketOf(<<w, j>>) = j
    BY <1>1 DEF Conn, WorkerOf, SocketOf
  <2>2. link[w] \notin Socket
    BY <1>1, <1>3, <2>1 DEF Steady
  <2> QED BY <1>1, <2>2 DEF Steady
<1>8. \A d \in Conn : WorkerOf(d) = w => down[d] = <<>>
  BY <1>1, <1>2, <1>7, ConnType, SocketAssumption DEF Lines
<1>9. Lines(lk, dn)
  <2>1. At(w) = None
    BY <1>7 DEF At, AtRest
  <2>2. InTurn(<<AckOf(hw)>>, None)
    <3>1. \A j \in DOMAIN <<AckOf(hw)>> : <<AckOf(hw)>>[j].type = "ack"
      BY <1>4
    <3> QED BY <3>1 DEF InTurn
  <2>3. \A d \in Conn : WorkerOf(d) = w /\ SocketOf(d) = k => d = c
    BY <1>1, ConnType
  <2>4. ASSUME NEW d \in Conn, d # c
        PROVE  /\ lk[WorkerOf(d)] # SocketOf(d) => dn[d] = <<>>
               /\ \A m \in Range(dn[d]) : m.type # "drain"
               /\ InTurn(dn[d], At(WorkerOf(d)))
    <3>1. dn[d] = down[d]
      BY <1>6, <2>4
    <3> QED BY <1>2, <1>6, <1>8, <3>1, ConnType DEF Lines
  <2>5. /\ lk[WorkerOf(c)] = SocketOf(c)
        /\ \A m \in Range(dn[c]) : m.type # "drain"
        /\ InTurn(dn[c], At(WorkerOf(c)))
    BY <1>4, <1>5, <1>6, <2>1, <2>2
  <2> QED BY <2>4, <2>5 DEF Lines
<1>10. \A d \in Conn : \A m \in Range(dn[d]) : m.type \in {"assign", "cancel"} => m \in Range(down[d])
  BY <1>4, <1>5, <1>6
<1>11. Trail(rstate, rworker, dn, cm, asked) /\ Stages(rstate, dn, cm)
  BY <1>2, <1>10 DEF Trail, Stages
<1>12. Reach(rstate, rworker, lk, dn, cm)
  <2> SUFFICES ASSUME NEW r \in Run, rstate[r] \in Active
               PROVE  /\ rworker[r] \in Worker /\ lk[rworker[r]] = link[rworker[r]] /\ link[rworker[r]] # None
                      /\ dn[<<rworker[r], link[rworker[r]]>>] = down[<<rworker[r], link[rworker[r]]>>]
    BY <1>2 DEF Reach
  <2>1. rworker[r] \in Worker /\ link[rworker[r]] # None
    BY <1>2 DEF Reach
  <2>2. <<rworker[r], link[rworker[r]]>> \in Conn /\ <<rworker[r], link[rworker[r]]>> # c
    BY <1>1, <1>7, <2>1 DEF Conn
  <2> QED BY <1>6, <1>7, <2>1, <2>2
<1>13. InOrder(rstate, rworker, lk, dn, cm, asked)
  BY <1>2, <1>9, <1>11, <1>12 DEF InOrder
<1>14. InOrder(rstate', rworker', link', down', cm, asked')
  BY <1>1, <1>3, <1>6, <1>13, PumpInOrder
<1>15. /\ \A v \in Worker : Coming(v)' = Coming(v)
       /\ \A v \in Worker : AtRest(v) => AtRest(v)'
  BY <1>3 DEF Coming, InFlight, AtRest, workerVars
<1>16. Steady'
  <2>1. /\ serving' = dialled' /\ silent' = {} /\ refuses' = {}
        /\ \A v \in Worker : /\ link'[v] = None => AtRest(v)'
                             /\ slot'[v] # None => slot'[v].phase # "reported"
                             /\ \A e \in Coming(v)' : e.seq > highWater'[v]
    BY <1>1, <1>3, <1>6, <1>7, <1>15 DEF Steady, workerVars
  <2>2. ASSUME NEW d \in Conn PROVE d \in dialled' <=> link'[WorkerOf(d)] = SocketOf(d)
    <3>1. WorkerOf(d) = w => (d = c <=> SocketOf(d) = k) /\ d \notin dialled
      BY <1>1, <1>3, ConnType
    <3> QED BY <1>1, <1>3, <1>6, <3>1, ConnType DEF Steady
  <2>3. ASSUME NEW d \in Conn, AckWaits(down'[d]) PROVE AtRest(WorkerOf(d))'
    <3>1. AckWaits(dn[d])
      BY <1>3, <1>6, <2>3, PumpAcks
    <3>2. d # c => AckWaits(down[d])
      BY <1>6, <3>1
    <3> QED BY <1>1, <1>7, <1>15, <3>2, ConnType DEF Steady
  <2> QED BY <2>1, <2>2, <2>3 DEF Steady
<1>17. cm = [v \in Worker |-> Coming(v)']
  BY <1>15 DEF cm
<1> QED BY <1>14, <1>16, <1>17, HubKeepsOrder

\* A report is applied before any that was sent after it.
LEMMA OnMessageComing ==
  ASSUME TypeOK, Wire, Steady, NEW c \in Conn, OnMessage(c), UNCHANGED workerVars
  PROVE  LET w == WorkerOf(c)
             e == Head(up[c])
         IN  /\ w \in Worker /\ e \in Event /\ e \in Coming(w) /\ e.seq > highWater[w]
             /\ Coming(w)' \subseteq Coming(w) /\ Coming(w) \ {e} \subseteq Coming(w)'
             /\ \A v \in Worker : v # w => Coming(v)' = Coming(v)
             /\ Steady'
<1> DEFINE w == WorkerOf(c)
           e == Head(up[c])
<1>1. /\ w \in Worker /\ e \in Event /\ e \in InFlight(w)
      /\ c \in serving
      /\ Range(up[c]) = {e} \cup Range(up'[c])
      /\ \A f \in Range(up'[c]) : e.seq < f.seq
      /\ \A d \in Conn : d # c => up'[d] = up[d]
      /\ highWater' = [highWater EXCEPT ![w] = IF e.seq <= @ THEN @ ELSE e.seq]
      /\ UNCHANGED <<link, dialled, serving>>
  BY OnMessageReads DEF Wire
<1> HIDE DEF e
<1>2. \A d \in Conn : WorkerOf(d) = w /\ d # c => up[d] = <<>>
  BY <1>1 DEF Wire, Sessions, Steady
<1>3. Range(<<>>) = {}
  BY DEF Range
<1>4. InFlight(w) = Range(up[c]) /\ InFlight(w)' = Range(up'[c])
  <2>1. \A d \in Conn : /\ WorkerOf(d) = w /\ d # c => up[d] = <<>> /\ up'[d] = <<>>
    BY <1>1, <1>2
  <2>2. InFlight(w) = UNION {Range(up[d]) : d \in {d \in Conn : WorkerOf(d) = w}}
    BY <1>1, InFlightIs
  <2>3. InFlight(w)' = UNION {Range(up'[d]) : d \in {d \in Conn : WorkerOf(d) = w}}
    <3>1. \A j \in Socket : <<w, j>> \in Conn /\ WorkerOf(<<w, j>>) = w
      BY <1>1 DEF Conn, WorkerOf
    <3>2. \A d \in Conn : WorkerOf(d) = w => SocketOf(d) \in Socket /\ d = <<w, SocketOf(d)>>
      BY ConnType
    <3> QED BY <3>1, <3>2 DEF InFlight
  <2>4. {d \in Conn : WorkerOf(d) = w} = {c} \cup {d \in Conn : WorkerOf(d) = w /\ d # c}
    OBVIOUS
  <2> QED BY <1>3, <2>1, <2>2, <2>3, <2>4
<1>5. ASSUME NEW v \in Worker, v # w PROVE Coming(v)' = Coming(v)
  <2>1. \A j \in Socket : <<v, j>> \in Conn /\ <<v, j>> # c
    BY <1>5 DEF Conn, WorkerOf
  <2> QED BY <1>1, <2>1 DEF Coming, InFlight, workerVars
<1>6. Coming(w)' \subseteq Coming(w) /\ Coming(w) \ {e} \subseteq Coming(w)' /\ e \in Coming(w)
  BY <1>1, <1>4 DEF Coming, workerVars
<1>7. \A f \in Coming(w)' : e.seq < f.seq
  <2>1. \A f \in Range(jobrx[w]) : e.seq < f.seq
    BY <1>1 DEF Wire, Numbered
  <2> QED BY <1>1, <1>4, <2>1 DEF Coming, workerVars
<1>8. e.seq > highWater[w] /\ e.seq \in Nat /\ highWater[w] \in Int
  BY <1>1, <1>6, EventsType DEF Steady
<1>9. /\ highWater'[w] = e.seq /\ \A v \in Worker : v # w => highWater'[v] = highWater[v]
      /\ \A f \in Coming(w)' : f.seq > e.seq
  <2>1. \A f \in Coming(w)' : f.seq \in Nat
    BY <1>1, <1>6, OrderTypes
  <2> QED BY <1>1, <1>7, <1>8, <2>1 DEF TypeOK, HubTypeOK
<1>10. Steady'
  <2>1. \A v \in Worker : AtRest(v) => AtRest(v)'
    BY DEF AtRest, workerVars
  <2>2. silent' = {}
    BY DEF Steady, OnMessage
  <2>3. \A d \in Conn : AckWaits(down'[d]) <=> AckWaits(down[d])
    BY OnMessageAcks
  <2>4. \A v \in Worker : \A f \in Coming(v)' : f.seq > highWater'[v]
    BY <1>5, <1>9 DEF Steady
  <2> QED BY <1>1, <2>1, <2>2, <2>3, <2>4, ConnType DEF Steady, workerVars
<1> QED BY <1>1, <1>5, <1>6, <1>8, <1>10 DEF e

LEMMA OnMessageStoppable ==
  ASSUME SingleFile, TypeOK, Wire, Stoppable, NEW c \in Conn, OnMessage(c),
         UNCHANGED <<workerVars, asked>>
  PROVE  Stoppable'
<1> DEFINE cm == [v \in Worker |-> Coming(v)]
           cm2 == [v \in Worker |-> Coming(v)']
           w == WorkerOf(c)
           e == Head(up[c])
           r == e.run
<1>1. /\ InOrder(rstate, rworker, link, down, cm, asked) /\ Steady
      /\ rstate \in [Run -> RunState] /\ rworker \in [Run -> Worker \cup {None}]
      /\ link \in [Worker -> Socket \cup {None}] /\ down \in [Conn -> Seq(Control)]
      /\ cm \in [Worker -> SUBSET Event]
      /\ \A v \in Worker : /\ At(v) # None => At(v) \in Run
                           /\ \A f \in cm[v] : f.run \in Run
      /\ \A d \in Conn : \A m \in Range(down[d]) : m.type \in {"assign", "cancel"} => m.run \in Run
  BY OrderTypes DEF Stoppable, TypeOK, HubTypeOK, FabricTypeOK
<1>2. /\ Trail(rstate, rworker, down, cm, asked) /\ Stages(rstate, down, cm)
  BY <1>1 DEF InOrder
<1>3. /\ w \in Worker /\ e \in Event /\ e \in Coming(w) /\ e.seq > highWater[w]
      /\ Coming(w)' \subseteq Coming(w) /\ Coming(w) \ {e} \subseteq Coming(w)'
      /\ \A v \in Worker : v # w => Coming(v)' = Coming(v)
      /\ Steady' /\ r \in Run
  BY <1>1, OnMessageComing DEF Event
<1>4. UNCHANGED link /\ ~(e.seq <= highWater[w])
  <2>1. e.seq \in Nat /\ highWater[w] \in Int
    BY <1>3, EventsType DEF Event
  <2> QED BY <1>3, <2>1 DEF OnMessage
<1>5. IF e.kind = "started" THEN JobStarted(w, r)
      ELSE FinishRun(w, r, FinalState(e.kind), silent \ {w})
  BY <1>4 DEF OnMessage
<1> HIDE DEF e
<1>6. /\ GivenTo(rstate, rworker, r, w)
      /\ e.kind = "killed_cancel" => r \in asked
      /\ e \in cm[w]
  BY <1>2, <1>3 DEF Trail
<1>7. /\ cm2 \in [Worker -> SUBSET Event]
      /\ \A v \in Worker : cm2[v] \subseteq cm[v] /\ \A f \in cm[v] : f # e => f \in cm2[v]
  BY <1>1, <1>3
<1> HIDE DEF cm, cm2
<1>8. CASE e.kind = "started"
  <2>1. /\ \/ rstate' = rstate
           \/ rstate' = [rstate EXCEPT ![r] = "running"] /\ rstate[r] \notin Terminal
        /\ rworker' = rworker
        /\ UNCHANGED down
    BY <1>1, <1>3, <1>5, <1>6, <1>8 DEF JobStarted, GivenTo
  <2>2. rstate[r] \in Active \cup Terminal
    BY <1>1, <1>3, <1>6 DEF GivenTo, Fresh, RunState
  <2>3. \A q \in Run : /\ rstate'[q] \in Active <=> rstate[q] \in Active
                       /\ rstate'[q] \in Fresh => rstate[q] \in Fresh
                       /\ rstate'[q] = "cancelled" => rstate[q] = "cancelled"
    BY <1>1, <2>1, <2>2 DEF Active, Fresh
  <2>4. \A q \in Run : rstate'[q] = "cancelled" => q \in asked
    BY <1>2, <2>3 DEF Trail
  <2>5. InOrder(rstate', rworker, link, down, cm2, asked)
    BY <1>1, <1>7, <1>8, <2>3, <2>4, MovesInOrder
  <2> QED BY <1>3, <1>4, <2>1, <2>5, HubKeepsOrder DEF cm2
<1>9. CASE e.kind # "started"
  <2> DEFINE st == [rstate EXCEPT ![r] = FinalState(e.kind)]
             wk == [rworker EXCEPT ![r] = w]
  <2>1. /\ Pump(st, wk, [current EXCEPT ![w] = None], grants \ {r}, link, silent \ {w}, down)
        /\ wk = rworker
    BY <1>1, <1>3, <1>5, <1>6, <1>9 DEF FinishRun, GivenTo
  <2>2. FinalState(e.kind) \in Terminal /\ (FinalState(e.kind) = "cancelled" => e.kind = "killed_cancel")
    BY DEF FinalState, Terminal
  <2>3. /\ st \in [Run -> RunState] /\ st[r] \notin Active
        /\ \A q \in Run : /\ st[q] \in Active => rstate[q] \in Active /\ q # r
                          /\ st[q] \in Fresh => rstate[q] \in Fresh
                          /\ st[q] = "cancelled" => rstate[q] = "cancelled" \/ q \in asked
                          /\ rstate[q] \in Active /\ st[q] \notin Active => q = r
    BY <1>1, <1>3, <1>6, <2>2 DEF RunState, Terminal, Active, Fresh
  <2> HIDE DEF st, wk
  <2>4. \A q \in Run : st[q] = "cancelled" => q \in asked
    BY <1>2, <2>3 DEF Trail
  <2>5. \A v \in Worker : ~Executes(v, r)
    <3>1. \A v \in Worker : Executes(v, r) => At(v) = r
      BY DEF Executes, At
    <3>2. \A v \in Worker : Executes(v, r) => v = w
      BY <1>2, <1>3, <1>6, <3>1, RunAssumption DEF Trail, GivenTo
    <3> QED BY <1>2, <1>3, <1>6, <1>9, <3>2 DEF Stages
  <2>6. \A d \in Conn : \A m \in Range(down[d]) : m.type = "assign" => m.run # r
    <3> SUFFICES ASSUME NEW d \in Conn, NEW m \in Range(down[d]), m.type = "assign", m.run = r
                 PROVE  FALSE
      OBVIOUS
    <3>1. WorkerOf(d) = w
      BY <1>2, <1>6 DEF Trail, GivenTo
    <3> QED BY <1>2, <1>6, <3>1 DEF Stages
  <2>7. InOrder(st, rworker, link, down, cm2, asked)
    BY <1>1, <1>7, <2>3, <2>4, <2>5, <2>6, MovesInOrder
  <2>8. InOrder(rstate', rworker', link, down', cm2, asked)
    BY <1>1, <1>7, <2>1, <2>3, <2>7, PumpInOrder
  <2> QED BY <1>3, <1>4, <2>8, HubKeepsOrder DEF cm2
<1> QED BY <1>8, <1>9

\* Nothing the assignment reaper finds overdue was lost.
LEMMA StuckStoppable ==
  ASSUME SingleFile, TypeOK, Stoppable, Over("stuck"), NEW S \in SUBSET Run, StuckAssignments(S),
         UNCHANGED <<workerVars, asked>>
  PROVE  Stoppable'
<1> DEFINE cm == [v \in Worker |-> Coming(v)]
           st == Requeue(rstate, S)
           cur == [w \in Worker |-> IF w \in {rworker[r] : r \in S} THEN None ELSE current[w]]
<1>1. /\ InOrder(rstate, rworker, link, down, cm, asked) /\ Steady
      /\ rstate \in [Run -> RunState]
      /\ link \in [Worker -> Socket \cup {None}] /\ down \in [Conn -> Seq(Control)]
      /\ cm \in [Worker -> SUBSET Event]
  BY OrderTypes DEF Stoppable, TypeOK, HubTypeOK, FabricTypeOK
<1>2. /\ S \subseteq {r \in Run : rstate[r] = "assigned"}
      /\ Pump(st, rworker, cur, grants \ S, link, silent, down)
      /\ UNCHANGED <<dialled, serving, silent, link, highWater, up>>
  BY DEF StuckAssignments, ReapStuck
<1>3. ASSUME NEW r \in S PROVE \E w \in Worker : InHand(w, r)
  <2> DEFINE w == rworker[r]
  <2>1. r \in Run /\ rstate[r] \in Active
    BY <1>2 DEF Active
  <2>2. /\ w \in Worker /\ link[w] # None
        /\ \/ AssignOf(r) \in Range(down[<<w, link[w]>>])
           \/ Executes(w, r)
           \/ \E e \in Coming(w) : e.run = r
    BY <1>1, <2>1 DEF InOrder, Reach
  <2>3. CASE AssignOf(r) \in Range(down[<<w, link[w]>>])
    <3>1. link[w] \in Socket
      BY <1>1, <2>2
    <3> QED BY <2>2, <2>3, <3>1 DEF InHand, Ordered, Range
  <2>4. CASE Executes(w, r)
    BY <2>2, <2>4 DEF InHand
  <2>5. ASSUME NEW e \in Coming(w), e.run = r PROVE InHand(w, r)
    <3>1. e \in Kept(w) \cup InFlight(w) /\ e.seq > highWater[w]
      BY <1>1, <2>2, OrderTypes DEF Steady
    <3> QED BY <2>2, <2>5, <3>1, UnreportedIs DEF InHand, Reporting
  <2> QED BY <2>2, <2>3, <2>4, <2>5
<1>4. S = {}
  <2>1. ~Spend("stuck")
    BY DEF Over, Spend
  <2> QED BY <1>3, <2>1 DEF StuckAssignments
<1>5. st = rstate
  BY <1>1, <1>4 DEF Requeue
<1> HIDE DEF cm, st, cur
<1>6. InOrder(rstate', rworker', link, down', cm, asked)
  BY <1>1, <1>2, <1>5, PumpInOrder
<1>7. \A c \in Conn : AckWaits(down'[c]) <=> AckWaits(down[c])
  BY <1>1, <1>2, PumpAcks
<1>8. Steady' /\ \A v \in Worker : Coming(v)' = Coming(v)
  BY <1>1, <1>2, <1>7, RequestSteady
<1>9. cm = [v \in Worker |-> Coming(v)']
  BY <1>8 DEF cm
<1> QED BY <1>2, <1>6, <1>8, <1>9, HubKeepsOrder

LEMMA HubStepStoppable ==
  ASSUME SingleFile, TypeOK, Wire, Stoppable, Unhindered, HubStep, UNCHANGED <<workerVars, asked>>
  PROVE  Stoppable'
<1>1. \A what \in Intervention \ {"stop"} : ~Spend(what)
  BY DEF Unhindered, Over, Spend
<1>2. /\ serving = dialled /\ silent = {}
      /\ \A c \in Conn : c \in dialled <=> link[WorkerOf(c)] = SocketOf(c)
  BY DEF Stoppable, Steady
<1>3. \A c \in Conn : ~SessionEnd(c) /\ ~SessionLost(c) /\ ~Heartbeat(c)
  BY <1>1, <1>2 DEF SessionEnd, SessionLost, Heartbeat, Unserve, Intervention
<1>4. \A w \in Worker : ~Lapse(w) /\ ~ReapStale(w) /\ ~DrainLease(w) /\ ~ExtendLease(w)
  BY <1>1, <1>2 DEF Lapse, ReapStale, DrainLease, ExtendLease, Intervention
<1>5. ~Restart
  BY <1>1 DEF Restart, Intervention
<1>6. Over("stuck")
  BY DEF Unhindered, Intervention
<1> QED BY <1>3, <1>4, <1>5, <1>6, AttachStoppable, OnMessageStoppable, StuckStoppable
        DEF HubStep

\* What a step of a worker leaves as it was.
WorkerOnly == UNCHANGED <<rstate, rworker, link, silent, highWater, asked>>

\* The one session a worker has.
LEMMA OwnSession ==
  ASSUME TypeOK, Stoppable, NEW c \in Conn, c \in dialled
  PROVE  /\ WorkerOf(c) \in Worker /\ link[WorkerOf(c)] = SocketOf(c) /\ link[WorkerOf(c)] # None
         /\ \A d \in Conn : WorkerOf(d) = WorkerOf(c) /\ d # c => down[d] = <<>>
         /\ <<WorkerOf(c), link[WorkerOf(c)]>> = c
<1>1. link[WorkerOf(c)] = SocketOf(c)
  BY DEF Stoppable, Steady
<1>2. \A d \in Conn : WorkerOf(d) = WorkerOf(c) /\ d # c => SocketOf(d) # SocketOf(c)
  BY ConnType
<1> QED BY <1>1, <1>2, ConnType, SocketAssumption DEF Stoppable, InOrder, Lines

LEMMA HelloAckStoppable ==
  ASSUME TypeOK, Wire, Stoppable, NEW c \in Conn, HelloAck(c), UNCHANGED hubVars, UNCHANGED asked
  PROVE  Stoppable'
<1> DEFINE w == WorkerOf(c)
           cm == [v \in Worker |-> Coming(v)]
           kept == TrimToHighWater(outbox[w] \o jobrx[w], Head(down[c]).highWater)
<1>1. /\ InOrder(rstate, rworker, link, down, cm, asked) /\ Steady
      /\ WorkerOnly /\ UNCHANGED <<slot, dialled, serving>> /\ Arrives(c, "ack")
      /\ down \in [Conn -> Seq(Control)] /\ outbox \in [Worker -> Seq(Event)]
      /\ jobrx \in [Worker -> Seq(Event)] /\ up \in [Conn -> Seq(Event)] /\ refuses' \subseteq refuses
  BY DEF Stoppable, TypeOK, FabricTypeOK, WorkerTypeOK, HelloAck, hubVars, storeVars, memoryVars, WorkerOnly
<1>2. /\ c \in dialled /\ AckWaits(down[c])
      /\ \A d \in Conn : d # c => down'[d] = down[d]
      /\ ~AckWaits(down'[c])
  BY <1>1, ArrivesAcks DEF Wire
<1>3. w \in Worker /\ AtRest(w)
  BY <1>1, <1>2, ConnType DEF Steady
<1>4. /\ kept \in Seq(Event) /\ Range(kept) \subseteq Kept(w)
      /\ outbox' = [outbox EXCEPT ![w] = kept] /\ jobrx' = [jobrx EXCEPT ![w] = <<>>]
      /\ Send(c, kept)
  BY HelloAckKeeps
<1> HIDE DEF kept, cm
<1>5. kept = <<>>
  <2>1. Kept(w) = {}
    BY <1>3 DEF Kept, AtRest, Range
  <2>2. Len(kept) \in Nat /\ DOMAIN kept = 1..Len(kept) /\ (kept = <<>> <=> Len(kept) = 0)
    BY <1>4, LenProperties, EmptySeq
  <2>3. Len(kept) > 0 => kept[1] \in Range(kept)
    BY <2>2 DEF Range
  <2> QED BY <1>4, <2>1, <2>2, <2>3
<1>6. outbox' = outbox /\ jobrx' = jobrx
  BY <1>1, <1>3, <1>4, <1>5 DEF AtRest
<1>7. up' = up
  <2>1. up[c] \o <<>> = up[c]
    BY <1>1, ConcatProperties, EmptySeq
  <2> QED BY <1>1, <1>4, <1>5, <2>1 DEF Send
<1>8. /\ \A v \in Worker : Coming(v)' = Coming(v) /\ (AtRest(v) => AtRest(v)')
      /\ cm = [v \in Worker |-> Coming(v)']
  BY <1>1, <1>6, <1>7 DEF Coming, InFlight, AtRest, cm
<1>9. Steady'
  BY <1>1, <1>2, <1>8, ConnType DEF Steady, WorkerOnly
<1>10. /\ down[c] \in Seq(Control) /\ down[c] # <<>> /\ down'[c] = Tail(down[c])
       /\ Range(down[c]) = {Head(down[c])} \cup Range(down'[c])
       /\ Head(down[c]).type = "ack"
  BY <1>1, RangeOfTail DEF Arrives
<1>11. /\ \A v : At(v)' = At(v)
       /\ \A v, r : Executes(v, r)' <=> Executes(v, r)
  BY <1>1 DEF At, Executes
<1>12. /\ Lines(link, down) /\ Trail(rstate, rworker, down, cm, asked)
       /\ Stages(rstate, down, cm) /\ Reach(rstate, rworker, link, down, cm) /\ Filled(rstate)
  BY <1>1 DEF InOrder
<1>13. \A d \in Conn : /\ Range(down'[d]) \subseteq Range(down[d])
                       /\ \A m \in Range(down[d]) : m.type # "ack" => m \in Range(down'[d])
  BY <1>2, <1>10
<1>14. Lines(link, down)'
  <2>1. InTurn(down'[c], At(WorkerOf(c)))
    BY <1>10, <1>12, InTurnTail DEF Lines
  <2> QED BY <1>1, <1>2, <1>10, <1>11, <1>12, <1>13, <2>1, OwnSession DEF Lines, WorkerOnly
<1>15. Trail(rstate', rworker', down', cm, asked')
  BY <1>1, <1>12, <1>13 DEF Trail, WorkerOnly
<1>16. Stages(rstate', down', cm)
  BY <1>1, <1>12, <1>13 DEF Stages, WorkerOnly
<1>17. Reach(rstate', rworker', link', down', cm)
  <2>1. \A r \in Run : AssignOf(r).type # "ack"
    BY DEF AssignOf
  <2>2. \A r \in Run : rworker[r] \in Worker /\ link[rworker[r]] # None
           => <<rworker[r], link[rworker[r]]>> \in Conn
    BY DEF TypeOK, HubTypeOK, Conn
  <2> QED BY <1>1, <1>12, <1>13, <2>1, <2>2 DEF Reach, WorkerOnly
<1>18. /\ Trail(rstate, rworker, down, [v \in Worker |-> Coming(v)], asked)'
       /\ Stages(rstate, down, [v \in Worker |-> Coming(v)])'
       /\ Reach(rstate, rworker, link, down, [v \in Worker |-> Coming(v)])'
  BY <1>8, <1>11, <1>15, <1>16, <1>17 DEF Trail, Stages, Reach
<1> QED BY <1>1, <1>9, <1>12, <1>14, <1>18 DEF Stoppable, InOrder, WorkerOnly

LEMMA ForwardStoppable ==
  ASSUME TypeOK, Wire, Stoppable, NEW c \in Conn, Forward(c), UNCHANGED hubVars, UNCHANGED asked
  PROVE  Stoppable'
<1> DEFINE w == WorkerOf(c)
           cm == [v \in Worker |-> Coming(v)]
           e == Head(jobrx[w])
<1>1. /\ InOrder(rstate, rworker, link, down, cm, asked) /\ Steady
      /\ WorkerOnly /\ UNCHANGED <<slot, dialled, serving, down, refuses>>
      /\ jobrx \in [Worker -> Seq(Event)] /\ up \in [Conn -> Seq(Event)] /\ outbox \in [Worker -> Seq(Event)]
      /\ c \in dialled /\ c \in serving /\ w \in Worker /\ ~AckWaits(down[c])
      /\ jobrx[w] # <<>> /\ jobrx' = [jobrx EXCEPT ![w] = Tail(@)]
      /\ outbox' = [outbox EXCEPT ![w] = Append(@, e)]
      /\ up' = [up EXCEPT ![c] = @ \o <<e>>]
  BY ConnType DEF Stoppable, Steady, TypeOK, FabricTypeOK, WorkerTypeOK, Forward, InSession, AckWaits, Send,
         hubVars, storeVars, memoryVars, WorkerOnly
<1>2. /\ e \in Event /\ Range(jobrx[w]) = {e} \cup Range(Tail(jobrx[w]))
      /\ Tail(jobrx[w]) \in Seq(Event)
  BY <1>1, RangeOfTail, HeadTailProperties
<1>3. Range(up'[c]) = Range(up[c]) \cup {e}
  <2>1. <<e>> \in Seq(Event) /\ Range(<<e>>) = {e}
    BY <1>2 DEF Range
  <2>2. up[c] \in Seq(Event) /\ up'[c] = up[c] \o <<e>>
    BY <1>1
  <2>3. Range(up[c] \o <<e>>) = Range(up[c]) \cup Range(<<e>>)
    BY <2>1, <2>2, RangeOfConcat
  <2> QED BY <2>1, <2>2, <2>3
<1> HIDE DEF e, cm
<1>4. /\ Coming(w)' = Coming(w)
      /\ \A v \in Worker : v # w => Coming(v)' = Coming(v)
  <2>1. \A v \in Worker, k \in Socket : <<v, k>> \in Conn /\ (<<v, k>> = c => v = w)
    BY DEF Conn, WorkerOf
  <2>2. \A v \in Worker : v # w => Coming(v)' = Coming(v)
    BY <1>1, <2>1 DEF Coming, InFlight
  <2>3. c = <<w, SocketOf(c)>> /\ SocketOf(c) \in Socket
    BY ConnType
  <2>4. InFlight(w)' = InFlight(w) \cup {e}
    BY <1>1, <1>3, <2>1, <2>3 DEF InFlight
  <2>5. Range(jobrx'[w]) = Range(Tail(jobrx[w]))
    BY <1>1
  <2> QED BY <1>2, <2>2, <2>4, <2>5 DEF Coming
<1>5. /\ \A v \in Worker : Coming(v)' = Coming(v)
      /\ cm = [v \in Worker |-> Coming(v)']
  BY <1>4 DEF cm
<1>6. /\ \A v \in Worker : AtRest(v) /\ v # w => AtRest(v)'
      /\ \A d \in Conn : AckWaits(down[d]) => WorkerOf(d) # w
      /\ link[w] # None
  BY <1>1, OwnSession DEF AtRest, AckWaits
<1>7. Steady'
  BY <1>1, <1>5, <1>6, ConnType DEF Steady, WorkerOnly
<1>8. /\ \A v : At(v)' = At(v)
      /\ \A v, r : Executes(v, r)' <=> Executes(v, r)
  BY <1>1 DEF At, Executes
<1>9. /\ Lines(link, down)'
      /\ Trail(rstate, rworker, down, [v \in Worker |-> Coming(v)], asked)'
      /\ Stages(rstate, down, [v \in Worker |-> Coming(v)])'
      /\ Reach(rstate, rworker, link, down, [v \in Worker |-> Coming(v)])'
  <2>1. /\ Lines(link, down) /\ Trail(rstate, rworker, down, cm, asked)
        /\ Stages(rstate, down, cm) /\ Reach(rstate, rworker, link, down, cm)
        /\ UNCHANGED <<rstate, rworker, link, down, asked>>
    BY <1>1 DEF InOrder, WorkerOnly
  <2>2. Lines(link, down)'
    BY <1>8, <2>1 DEF Lines
  <2>3. Trail(rstate, rworker, down, [v \in Worker |-> Coming(v)], asked)'
    BY <1>5, <1>8, <2>1 DEF Trail
  <2>4. Stages(rstate, down, [v \in Worker |-> Coming(v)])'
    BY <1>5, <1>8, <2>1 DEF Stages
  <2>5. Reach(rstate, rworker, link, down, [v \in Worker |-> Coming(v)])'
    BY <1>5, <1>8, <2>1 DEF Reach
  <2> QED BY <2>2, <2>3, <2>4, <2>5
<1>10. UNCHANGED rstate /\ Filled(rstate)
  BY <1>1 DEF InOrder, WorkerOnly
<1>11. Filled(rstate)'
  BY <1>10
<1> QED BY <1>7, <1>9, <1>11 DEF Stoppable, InOrder

\* The worker takes the order it is sent: of the job before there is no trace.
LEMMA AssignJobStoppable ==
  ASSUME SingleFile, TypeOK, Wire, Stoppable, NEW c \in Conn, AssignJob(c), UNCHANGED hubVars, UNCHANGED asked
  PROVE  Stoppable'
<1> DEFINE w == WorkerOf(c)
           cm == [v \in Worker |-> Coming(v)]
           m == Head(down[c])
<1>1. /\ InOrder(rstate, rworker, link, down, cm, asked) /\ Steady
      /\ WorkerOnly /\ UNCHANGED <<jobrx, up, dialled, serving, refuses>> /\ Arrives(c, "assign")
      /\ down \in [Conn -> Seq(Control)] /\ outbox \in [Worker -> Seq(Event)]
      /\ slot \in [Worker -> Job \cup {None}] /\ w \in Worker
  BY ConnType DEF Stoppable, TypeOK, FabricTypeOK, WorkerTypeOK, AssignJob, hubVars, storeVars, memoryVars, WorkerOnly
<1>2. /\ c \in dialled /\ ~AckWaits(down[c])
      /\ \A d \in Conn : d # c => down'[d] = down[d]
      /\ ~AckWaits(down'[c])
  BY <1>1, ArrivesAcks DEF Wire
<1>3. /\ down[c] \in Seq(Control) /\ down[c] # <<>> /\ down'[c] = Tail(down[c])
      /\ Range(down[c]) = {m} \cup Range(down'[c])
      /\ m.type = "assign"
  BY <1>1, RangeOfTail DEF Arrives
<1>4. /\ Lines(link, down) /\ Trail(rstate, rworker, down, cm, asked)
      /\ Stages(rstate, down, cm) /\ Reach(rstate, rworker, link, down, cm) /\ Filled(rstate)
  BY <1>1 DEF InOrder
<1>5. /\ \A d \in Conn : WorkerOf(d) = w /\ d # c => down[d] = <<>>
      /\ link[w] # None /\ <<w, link[w]>> = c
  BY <1>2, OwnSession
<1>6. PICK r \in Run : r = m.run
  BY <1>3, OrderTypes
<1> HIDE DEF m, cm
<1>7. /\ rstate[r] \in Active /\ ~Executes(w, r) /\ GivenTo(rstate, rworker, r, w)
      /\ \A e \in cm[w] : e.run # r
  BY <1>3, <1>4, <1>6 DEF Stages, Trail
<1>8. \A q \in Run : rstate[q] \in Active => q = r
  BY <1>4, <1>6, <1>7, OneActive
<1>9. ~(w \in refuses \/ Busy(w))
  <2> SUFFICES ASSUME Busy(w) PROVE FALSE
    BY <1>1 DEF Steady
  <2>1. slot[w] \in Job /\ slot[w].phase \in {"spawned", "running"} /\ slot[w].run \in Run
    BY <1>1 DEF Busy, Steady, Job
  <2>2. Executes(w, slot[w].run)
    BY <2>1, JobAssumption DEF Executes
  <2> QED BY <1>1, <1>4, <1>7, <1>8, <2>1, <2>2 DEF Stages
<1>10. slot' = [slot EXCEPT ![w] = Spawned(r)] /\ outbox' = [outbox EXCEPT ![w] = <<>>]
  BY <1>6, <1>9 DEF AssignJob, m
<1>11. /\ slot'[w] = Spawned(r) /\ Spawned(r) # None
       /\ \A v \in Worker : v # w => slot'[v] = slot[v] /\ outbox'[v] = outbox[v]
  <2>1. Spawned(r) \in Job
    BY <1>6 DEF Spawned, Job
  <2> QED BY <1>1, <1>10, <2>1, JobAssumption
<1>12. /\ At(w)' = r /\ \A v \in Worker : v # w => At(v)' = At(v)
       /\ Executes(w, r)' /\ \A q : Executes(w, q)' => q = r
       /\ \A v \in Worker : \A q : v # w => (Executes(v, q)' <=> Executes(v, q))
  <2>1. slot'[w] # None /\ slot'[w].run = r /\ slot'[w].phase = "spawned"
    BY <1>11 DEF Spawned
  <2>2. At(w)' = r /\ Executes(w, r)' /\ \A q : Executes(w, q)' => q = r
    BY <2>1 DEF At, Executes
  <2>3. \A v \in Worker : v # w => At(v)' = At(v) /\ \A q : Executes(v, q)' <=> Executes(v, q)
    BY <1>11 DEF At, Executes
  <2> QED BY <2>2, <2>3
<1>13. /\ \A v \in Worker : Coming(v)' = Coming(v)
       /\ cm = [v \in Worker |-> Coming(v)']
  BY <1>1 DEF Coming, InFlight, cm
<1>14. Steady'
  <2>1. \A v \in Worker : v # w /\ AtRest(v) => AtRest(v)'
    BY <1>1, <1>11 DEF AtRest
  <2>2. \A d \in Conn : AckWaits(down'[d]) => AckWaits(down[d]) /\ WorkerOf(d) # w
    BY <1>2, <1>5 DEF AckWaits
  <2>3. Spawned(r).phase # "reported"
    BY DEF Spawned
  <2> QED BY <1>1, <1>5, <1>11, <1>13, <2>1, <2>2, <2>3, ConnType DEF Steady, WorkerOnly
<1>15. /\ InTurn(down'[c], r)
       /\ \A n \in Range(down'[c]) : n.type # "assign"
  BY <1>3, <1>4, <1>6, InTurnTail DEF Lines, m
<1>16. \A d \in Conn : Range(down'[d]) \subseteq Range(down[d])
  BY <1>2, <1>3
<1>17. Lines(link, down)'
  <2>1. InTurn(<<>>, r)
    BY DEF InTurn
  <2>2. \A d \in Conn : InTurn(down'[d], At(WorkerOf(d))')
    BY <1>2, <1>4, <1>5, <1>12, <1>15, <2>1, ConnType DEF Lines
  <2> QED BY <1>1, <1>2, <1>4, <1>5, <1>16, <2>2, ConnType, OwnSession DEF Lines, WorkerOnly
<1>18. \A d \in Conn : \A n \in Range(down'[d]) : n.type = "assign" => WorkerOf(d) # w
  <2>1. Range(<<>>) = {}
    BY DEF Range
  <2> QED BY <1>2, <1>5, <1>15, <2>1
<1>19. Trail(rstate, rworker, down, cm, asked)'
  <2>1. cm' = cm
    BY <1>13 DEF cm
  <2> QED BY <1>1, <1>4, <1>7, <1>12, <1>16, <2>1 DEF Trail, WorkerOnly, GivenTo
<1>20. Stages(rstate, down, cm)'
  <2>1. cm' = cm
    BY <1>13 DEF cm
  <2>2. \A d \in Conn : \A n \in Range(down'[d]) : n.type = "assign" =>
          /\ rstate[n.run] \in Active /\ ~Executes(WorkerOf(d), n.run)'
          /\ \A e \in cm[WorkerOf(d)] : e.run # n.run
    BY <1>4, <1>12, <1>16, <1>18, ConnType DEF Stages
  <2>3. \A v \in Worker, q \in Run : Executes(v, q)' =>
          rstate[q] \in Active /\ \A e \in cm[v] : e.run = q => e.kind = "started"
    BY <1>4, <1>7, <1>12 DEF Stages
  <2> QED BY <1>1, <2>1, <2>2, <2>3 DEF Stages, WorkerOnly
<1>21. Reach(rstate, rworker, link, down, cm)'
  <2>1. \A q \in Run : rstate[q] \in Active => q = r /\ rworker[q] = w
    BY <1>7, <1>8 DEF GivenTo
  <2>2. \A q \in Run : \A v : rstate[q] \in Active /\ v = rworker[q] =>
          v \in Worker /\ link[v] # None /\ Executes(v, q)'
    BY <1>1, <1>5, <1>12, <2>1
  <2> QED BY <1>1, <2>2 DEF Reach, WorkerOnly
<1>22. Filled(rstate)'
  BY <1>1, <1>4 DEF WorkerOnly
<1> QED BY <1>14, <1>17, <1>19, <1>20, <1>21, <1>22 DEF Stoppable, InOrder, cm

\* A new report has yet to be applied, and is one more that is coming.
LEMMA EmitComing ==
  ASSUME TypeOK, Wire, NEW w \in Worker, NEW r \in Run, NEW kind \in EventKind, Emit(w, r, kind),
         UNCHANGED <<up, highWater>>
  PROVE  \E new \in Event : /\ new.run = r /\ new.kind = kind /\ new.seq > highWater[w]
                            /\ Coming(w)' = Coming(w) \cup {new}
                            /\ \A v \in Worker : v # w => Coming(v)' = Coming(v) /\ jobrx'[v] = jobrx[v]
<1> DEFINE new == Stamp(w, r, kind)
<1>1. /\ jobrx \in [Worker -> Seq(Event)] /\ new \in Event /\ new.seq = seq[w] /\ new.run = r
      /\ new.kind = kind /\ seq[w] \in Nat /\ highWater[w] \in Int
  BY EventsType DEF TypeOK, WorkerTypeOK, Stamp, Event
<1>2. /\ jobrx'[w] = Append(jobrx[w], new)
      /\ \A v \in Worker : v # w => jobrx'[v] = jobrx[v]
  BY <1>1 DEF Emit
<1> HIDE DEF new
<1>3. Range(jobrx'[w]) = Range(jobrx[w]) \cup {new}
  BY <1>1, <1>2, RangeOfAppend
<1>4. new.seq > highWater[w]
  BY <1>1 DEF Wire, Numbered
<1>5. /\ Coming(w)' = Coming(w) \cup {new}
      /\ \A v \in Worker : v # w => Coming(v)' = Coming(v)
  BY <1>2, <1>3 DEF Coming, InFlight
<1> QED BY <1>1, <1>2, <1>4, <1>5

\* What is aborted is what the cancel names, if there is a job at all.
LEMMA CancelNames ==
  ASSUME TypeOK, Stoppable, NEW c \in Conn, Arrives(c, "cancel")
  PROVE  /\ At(WorkerOf(c)) \in {None, Head(down[c]).run}
         /\ \A r \in Run : Executes(WorkerOf(c), r) => Head(down[c]).run = r
<1>1. /\ down[c] \in Seq(Control) /\ down[c] # <<>> /\ Head(down[c]).type = "cancel"
      /\ InTurn(down[c], At(WorkerOf(c)))
  BY DEF TypeOK, FabricTypeOK, Arrives, Stoppable, InOrder, Lines
<1>2. At(WorkerOf(c)) \in {None, Head(down[c]).run}
  BY <1>1, InTurnTail
<1>3. \A r \in Run : Executes(WorkerOf(c), r) => At(WorkerOf(c)) = r
  BY DEF Executes, At
<1> QED BY <1>2, <1>3, RunAssumption

LEMMA CancelStoppable ==
  ASSUME TypeOK, Wire, Stoppable, NEW c \in Conn, Cancel(c), UNCHANGED hubVars, UNCHANGED asked
  PROVE  Stoppable'
<1> DEFINE w == WorkerOf(c)
           cm == [v \in Worker |-> Coming(v)]
           m == Head(down[c])
           r == m.run
           killed == IF slot[w] = None THEN Head(down[c]).run ELSE slot[w].run
<1>1. /\ InOrder(rstate, rworker, link, down, cm, asked) /\ Steady
      /\ WorkerOnly /\ UNCHANGED <<outbox, up, dialled, serving, refuses>> /\ Arrives(c, "cancel")
      /\ down \in [Conn -> Seq(Control)]
      /\ slot \in [Worker -> Job \cup {None}] /\ w \in Worker
      /\ slot' = [slot EXCEPT ![w] = None] /\ Emit(w, killed, "killed_cancel")
  BY ConnType DEF Stoppable, TypeOK, FabricTypeOK, WorkerTypeOK, Cancel, hubVars, storeVars, memoryVars, WorkerOnly
<1>2. /\ c \in dialled /\ ~AckWaits(down[c])
      /\ \A d \in Conn : d # c => down'[d] = down[d]
      /\ ~AckWaits(down'[c])
  BY <1>1, ArrivesAcks DEF Wire
<1>3. /\ down[c] \in Seq(Control) /\ down[c] # <<>> /\ down'[c] = Tail(down[c])
      /\ Range(down[c]) = {m} \cup Range(down'[c])
      /\ m.type = "cancel"
  BY <1>1, RangeOfTail DEF Arrives
<1>4. /\ Lines(link, down) /\ Trail(rstate, rworker, down, cm, asked)
      /\ Stages(rstate, down, cm) /\ Reach(rstate, rworker, link, down, cm) /\ Filled(rstate)
  BY <1>1 DEF InOrder
<1>5. /\ \A d \in Conn : WorkerOf(d) = w /\ d # c => down[d] = <<>>
      /\ link[w] # None /\ <<w, link[w]>> = c
  BY <1>2, OwnSession
<1>6. r \in Run
  BY <1>3, OrderTypes
<1>7. /\ At(w) \in {None, r} /\ InTurn(down'[c], None)
      /\ \A n \in Range(down'[c]) : n.type = "assign" => n.run # r
  BY <1>1, <1>3, <1>4, InTurnTail, CancelNames DEF Lines
<1>8. killed = r
  <2>1. slot[w] # None => slot[w].run \in Run /\ At(w) = slot[w].run
    BY <1>1 DEF At, Job
  <2> QED BY <1>7, <2>1, RunAssumption
<1> HIDE DEF m, cm, killed
<1>9. PICK new \in Event : /\ new.run = r /\ new.kind = "killed_cancel" /\ new.seq > highWater[w]
                           /\ Coming(w)' = Coming(w) \cup {new}
                           /\ \A v \in Worker : v # w => Coming(v)' = Coming(v) /\ jobrx'[v] = jobrx[v]
  <2>1. "killed_cancel" \in EventKind
    BY DEF EventKind
  <2> QED BY <1>1, <1>6, <1>8, <2>1, EmitComing DEF WorkerOnly
<1>10. slot'[w] = None /\ \A v \in Worker : v # w => slot'[v] = slot[v]
  BY <1>1
<1>11. /\ At(w)' = None /\ \A v \in Worker : v # w => At(v)' = At(v)
       /\ \A q : ~Executes(w, q)'
       /\ \A v \in Worker : \A q : v # w => (Executes(v, q)' <=> Executes(v, q))
  BY <1>10 DEF At, Executes
<1>12. cm'[w] = cm[w] \cup {new} /\ \A v \in Worker : v # w => cm'[v] = cm[v]
  BY <1>1, <1>9 DEF cm
<1>13. Steady'
  <2>1. \A v \in Worker : v # w /\ AtRest(v) => AtRest(v)'
    BY <1>1, <1>9, <1>10 DEF AtRest
  <2>2. \A d \in Conn : AckWaits(down'[d]) => AckWaits(down[d]) /\ WorkerOf(d) # w
    BY <1>2, <1>5 DEF AckWaits
  <2> QED BY <1>1, <1>5, <1>9, <1>10, <2>1, <2>2, ConnType DEF Steady, WorkerOnly
<1>14. \A d \in Conn : Range(down'[d]) \subseteq Range(down[d])
  BY <1>2, <1>3
<1>15. Lines(link, down)'
  <2>1. \A d \in Conn : WorkerOf(d) = w /\ d # c => InTurn(down'[d], None)
    <3>1. InTurn(<<>>, None)
      BY DEF InTurn
    <3> QED BY <1>2, <1>5, <3>1
  <2>2. \A d \in Conn : InTurn(down'[d], At(WorkerOf(d))')
    BY <1>2, <1>4, <1>7, <1>11, <2>1, ConnType DEF Lines
  <2> QED BY <1>1, <1>2, <1>4, <1>5, <1>14, <2>2, ConnType, OwnSession DEF Lines, WorkerOnly
<1>16. Trail(rstate, rworker, down, cm, asked)'
  <2>1. GivenTo(rstate, rworker, r, w) /\ r \in asked
    BY <1>3, <1>4 DEF Trail
  <2>2. \A v \in Worker : /\ At(v)' # None => GivenTo(rstate, rworker, At(v)', v)
                          /\ \A e \in cm'[v] : /\ GivenTo(rstate, rworker, e.run, v)
                                               /\ e.kind = "killed_cancel" => e.run \in asked
    BY <1>4, <1>9, <1>11, <1>12, <2>1 DEF Trail
  <2> QED BY <1>1, <1>4, <1>14, <2>2 DEF Trail, WorkerOnly, GivenTo
<1>17. Stages(rstate, down, cm)'
  <2>1. \A d \in Conn : \A n \in Range(down'[d]) : n.type = "assign" =>
          /\ rstate[n.run] \in Active /\ ~Executes(WorkerOf(d), n.run)'
          /\ \A e \in cm'[WorkerOf(d)] : e.run # n.run
    <3> SUFFICES ASSUME NEW d \in Conn, NEW n \in Range(down'[d]), n.type = "assign"
                 PROVE  /\ rstate[n.run] \in Active /\ ~Executes(WorkerOf(d), n.run)'
                        /\ \A e \in cm'[WorkerOf(d)] : e.run # n.run
      OBVIOUS
    <3>1. /\ rstate[n.run] \in Active /\ ~Executes(WorkerOf(d), n.run)
          /\ \A e \in cm[WorkerOf(d)] : e.run # n.run
      BY <1>4, <1>14 DEF Stages
    <3>2. WorkerOf(d) = w => n.run # r
      <4>1. Range(<<>>) = {}
        BY DEF Range
      <4> QED BY <1>2, <1>5, <1>7, <4>1
    <3> QED BY <1>9, <1>11, <1>12, <3>1, <3>2, ConnType
  <2>2. \A v \in Worker, q \in Run : Executes(v, q)' =>
          rstate[q] \in Active /\ \A e \in cm'[v] : e.run = q => e.kind = "started"
    BY <1>4, <1>11, <1>12 DEF Stages
  <2> QED BY <1>1, <2>1, <2>2 DEF Stages, WorkerOnly
<1>18. Reach(rstate, rworker, link, down, cm)'
  <2> SUFFICES ASSUME NEW q \in Run, rstate[q] \in Active, NEW v, v = rworker[q]
               PROVE  /\ v \in Worker /\ link[v] # None
                      /\ \/ AssignOf(q) \in Range(down'[<<v, link[v]>>])
                         \/ Executes(v, q)'
                         \/ At(v)' \in {None, q} /\ \E e \in cm'[v] : e.run = q /\ e.kind # "started"
    BY <1>1 DEF Reach, WorkerOnly
  <2>1. /\ v \in Worker /\ link[v] # None
        /\ \/ AssignOf(q) \in Range(down[<<v, link[v]>>])
           \/ Executes(v, q)
           \/ At(v) \in {None, q} /\ \E e \in cm[v] : e.run = q /\ e.kind # "started"
    BY <1>4 DEF Reach
  <2>2. <<v, link[v]>> \in Conn
    BY <2>1 DEF TypeOK, HubTypeOK, Conn
  <2>3. CASE AssignOf(q) \in Range(down[<<v, link[v]>>])
    <3>1. AssignOf(q).type = "assign"
      BY DEF AssignOf
    <3>2. AssignOf(q) \in Range(down'[<<v, link[v]>>])
      BY <1>2, <1>3, <2>2, <2>3, <3>1
    <3> QED BY <2>1, <3>2
  <2>4. CASE v = w /\ Executes(w, q)
    <3>1. At(w) = q
      BY <2>4 DEF Executes, At
    <3>2. q = r
      BY <1>7, <3>1, RunAssumption
    <3> QED BY <1>9, <1>11, <1>12, <2>1, <2>4, <3>2
  <2>5. CASE v = w /\ \E e \in cm[w] : e.run = q /\ e.kind # "started"
    BY <1>11, <1>12, <2>1, <2>5
  <2>6. CASE v # w
    BY <1>2, <1>5, <1>11, <1>12, <2>1, <2>3, <2>6
  <2> QED BY <2>1, <2>3, <2>4, <2>5, <2>6
<1>19. Filled(rstate)'
  BY <1>1, <1>4 DEF WorkerOnly
<1> QED BY <1>13, <1>15, <1>16, <1>17, <1>18, <1>19 DEF Stoppable, InOrder, cm

LEMMA ArrivesRange ==
  ASSUME TypeOK, NEW c \in Conn, NEW type, Arrives(c, type)
  PROVE  /\ down' \in [Conn -> Seq(Control)]
         /\ \A d \in Conn : Range(down'[d]) \subseteq Range(down[d])
         /\ Head(down[c]) \in Range(down[c]) /\ Head(down[c]).type = type
<1>1. /\ down \in [Conn -> Seq(Control)] /\ down[c] # <<>> /\ down' = [down EXCEPT ![c] = Tail(@)]
      /\ Tail(down[c]) \in Seq(Control) /\ Head(down[c]).type = type
  BY HeadTailProperties DEF TypeOK, FabricTypeOK, Arrives
<1>2. Range(down[c]) = {Head(down[c])} \cup Range(Tail(down[c]))
  BY <1>1, RangeOfTail
<1> QED BY <1>1, <1>2

\* The job at hand starts, or ends, and says so.
LEMMA ReportStoppable ==
  ASSUME TypeOK, Wire, Stoppable, NEW w \in Worker, NEW r \in Run, Executes(w, r),
         NEW kind \in EventKind, kind # "killed_cancel", Emit(w, r, kind),
         WorkerOnly, UNCHANGED <<outbox, up, down, dialled, serving, refuses>>,
         NEW job \in Job, job.run = r, slot' = [slot EXCEPT ![w] = job],
         job.phase = IF kind = "started" THEN "running" ELSE "finished"
  PROVE  Stoppable'
<1> DEFINE cm == [v \in Worker |-> Coming(v)]
<1>1. /\ Lines(link, down) /\ Trail(rstate, rworker, down, cm, asked)
      /\ Stages(rstate, down, cm) /\ Reach(rstate, rworker, link, down, cm) /\ Filled(rstate)
      /\ Steady /\ At(w) = r /\ slot[w] # None
  BY DEF Stoppable, InOrder, Executes, At
<1>2. PICK new \in Event : /\ new.run = r /\ new.kind = kind /\ new.seq > highWater[w]
                           /\ Coming(w)' = Coming(w) \cup {new}
                           /\ \A v \in Worker : v # w => Coming(v)' = Coming(v) /\ jobrx'[v] = jobrx[v]
  BY EmitComing DEF WorkerOnly
<1> HIDE DEF cm
<1>3. cm'[w] = cm[w] \cup {new} /\ \A v \in Worker : v # w => cm'[v] = cm[v]
  BY <1>2 DEF cm
<1>4. slot'[w] = job /\ job # None /\ \A v \in Worker : v # w => slot'[v] = slot[v]
  BY JobAssumption DEF TypeOK, WorkerTypeOK
<1>5. /\ \A v \in Worker : At(v)' = At(v)
      /\ \A q : Executes(w, q)' => q = r /\ kind = "started"
      /\ kind = "started" => Executes(w, r)'
      /\ \A v \in Worker : \A q : v # w => (Executes(v, q)' <=> Executes(v, q))
  <2>1. At(w)' = r
    BY <1>4 DEF At
  <2>2. \A v \in Worker : v # w => At(v)' = At(v)
    BY <1>4 DEF At
  <2>3. /\ \A q : Executes(w, q)' => q = r /\ kind = "started"
        /\ kind = "started" => Executes(w, r)'
    BY <1>4 DEF Executes
  <2>4. \A v \in Worker : \A q : v # w => (Executes(v, q)' <=> Executes(v, q))
    BY <1>4 DEF Executes
  <2> QED BY <1>1, <2>1, <2>2, <2>3, <2>4
<1>6. \A q : Executes(w, q) => q = r
  BY <1>1 DEF Executes, At
<1>7. Steady'
  <2>1. \A v \in Worker : v # w /\ AtRest(v) => AtRest(v)'
    BY <1>2, <1>4 DEF AtRest
  <2>2. ~AtRest(w)
    BY <1>1 DEF AtRest
  <2>3. job.phase # "reported"
    OBVIOUS
  <2> QED BY <1>1, <1>2, <1>4, <2>1, <2>2, <2>3, ConnType DEF Steady, WorkerOnly
<1>8. Lines(link, down)'
  BY <1>1, <1>5, ConnType DEF Lines, WorkerOnly
<1>9. Trail(rstate, rworker, down, cm, asked)'
  <2>1. \A v \in Worker : \A e \in cm'[v] : /\ GivenTo(rstate, rworker, e.run, v)
                                            /\ e.kind = "killed_cancel" => e.run \in asked
    BY <1>1, <1>2, <1>3, RunAssumption DEF Trail
  <2> QED BY <1>1, <1>5, <2>1 DEF Trail, WorkerOnly, GivenTo
<1>10. Stages(rstate, down, cm)'
  <2>1. ASSUME NEW d \in Conn, NEW n \in Range(down[d]), n.type = "assign"
        PROVE  /\ rstate[n.run] \in Active /\ ~Executes(WorkerOf(d), n.run)'
               /\ \A e \in cm'[WorkerOf(d)] : e.run # n.run
    <3>1. /\ rstate[n.run] \in Active /\ ~Executes(WorkerOf(d), n.run)
          /\ \A e \in cm[WorkerOf(d)] : e.run # n.run
      BY <1>1, <2>1 DEF Stages
    <3>2. CASE WorkerOf(d) = w
      <4>1. n.run # r
        BY <3>1, <3>2
      <4> QED BY <1>2, <1>3, <1>5, <3>1, <3>2, <4>1
    <3>3. CASE WorkerOf(d) # w
      BY <1>3, <1>5, <3>1, <3>3, ConnType
    <3> QED BY <3>2, <3>3
  <2>2. ASSUME NEW v \in Worker, NEW q \in Run, Executes(v, q)'
        PROVE  rstate[q] \in Active /\ \A e \in cm'[v] : e.run = q => e.kind = "started"
    <3>1. CASE v = w
      <4>1. q = r /\ kind = "started"
        BY <1>5, <2>2, <3>1
      <4>2. rstate[r] \in Active /\ \A e \in cm[w] : e.run = r => e.kind = "started"
        BY <1>1 DEF Stages
      <4> QED BY <1>2, <1>3, <3>1, <4>1, <4>2
    <3>2. CASE v # w
      BY <1>1, <1>3, <1>5, <2>2, <3>2 DEF Stages
    <3> QED BY <3>1, <3>2
  <2> QED BY <2>1, <2>2 DEF Stages, WorkerOnly
<1>11. Reach(rstate, rworker, link, down, cm)'
  <2> SUFFICES ASSUME NEW q \in Run, rstate[q] \in Active, NEW v, v = rworker[q]
               PROVE  /\ v \in Worker /\ link[v] # None
                      /\ \/ AssignOf(q) \in Range(down[<<v, link[v]>>])
                         \/ Executes(v, q)'
                         \/ At(v)' \in {None, q} /\ \E e \in cm'[v] : e.run = q /\ e.kind # "started"
    BY DEF Reach, WorkerOnly
  <2>1. /\ v \in Worker /\ link[v] # None
        /\ \/ AssignOf(q) \in Range(down[<<v, link[v]>>])
           \/ Executes(v, q)
           \/ At(v) \in {None, q} /\ \E e \in cm[v] : e.run = q /\ e.kind # "started"
    BY <1>1 DEF Reach
  <2>2. CASE v = w /\ Executes(w, q)
    <3>1. q = r /\ At(w)' = q
      BY <1>1, <1>5, <1>6, <2>2
    <3> QED BY <1>2, <1>3, <1>5, <2>1, <2>2, <3>1
  <2>3. CASE ~(v = w /\ Executes(w, q))
    BY <1>3, <1>5, <2>1, <2>3
  <2> QED BY <2>2, <2>3
<1>12. Filled(rstate)'
  BY <1>1 DEF WorkerOnly
<1> QED BY <1>7, <1>8, <1>9, <1>10, <1>11, <1>12 DEF Stoppable, InOrder, cm

LEMMA WorkerStepStoppable ==
  ASSUME SingleFile, TypeOK, Wire, Stoppable, Unhindered, WorkerStep, UNCHANGED hubVars, UNCHANGED asked
  PROVE  Stoppable'
<1>1. \A what \in Intervention \ {"stop"} : ~Spend(what) /\ budget[what] = 0
  BY DEF Unhindered, Over, Spend
<1>2. slot \in [Worker -> Job \cup {None}]
  BY DEF TypeOK, WorkerTypeOK
<1>3. /\ serving = dialled /\ refuses = {}
      /\ \A w \in Worker : slot[w] # None => slot[w].phase # "reported"
      /\ \A c \in Conn : \A m \in Range(down[c]) : m.type # "drain"
  BY DEF Stoppable, Steady, InOrder, Lines
<1>4. \A c \in Conn : /\ ~DrainRequest(c) /\ ~SelfDrain(c) /\ ~Hangup(c) /\ ~ConnectionLost(c)
  <2>1. \A c \in Conn : ~DrainRequest(c)
    BY <1>3, ArrivesRange DEF DrainRequest
  <2>2. \A c \in Conn : ~SelfDrain(c)
    <3>1. ~(budget["selfdrain"] > 0)
      BY <1>1 DEF Intervention
    <3> QED BY <3>1 DEF SelfDrain
  <2>3. \A c \in Conn : ~Hangup(c) /\ ~ConnectionLost(c)
    BY <1>1, <1>3 DEF Hangup, EndSession, ConnectionLost, Intervention
  <2> QED BY <2>1, <2>2, <2>3
<1>5. \A w \in Worker : ~Crash(w) /\ ~ExecutorFinish(w)
  BY <1>1, <1>3 DEF Crash, ExecutorFinish, Intervention
<1>6. WorkerOnly
  BY DEF hubVars, storeVars, memoryVars, WorkerOnly
<1>7. ASSUME NEW w \in Worker, ExecutorStart(w) PROVE Stoppable'
  <2> DEFINE job == [slot[w] EXCEPT !.phase = "running"]
  <2>1. /\ slot[w] \in Job /\ slot[w].run \in Run /\ Executes(w, slot[w].run)
        /\ Emit(w, slot[w].run, "started") /\ "started" \in EventKind
        /\ UNCHANGED <<outbox, up, down, dialled, serving, refuses>>
        /\ slot' = [slot EXCEPT ![w] = job]
    BY <1>2, <1>7 DEF ExecutorStart, Job, Executes, EventKind, fabricVars
  <2>2. job \in Job /\ job.run = slot[w].run /\ job.phase = "running"
    BY <2>1 DEF Job
  <2> HIDE DEF job
  <2> QED BY <1>6, <2>1, <2>2, ReportStoppable
<1>8. ASSUME NEW w \in Worker, ExecutorEnd(w) PROVE Stoppable'
  <2> DEFINE job == [slot[w] EXCEPT !.phase = "finished"]
  <2>1. /\ slot[w] \in Job /\ slot[w].run \in Run /\ Executes(w, slot[w].run)
        /\ UNCHANGED <<outbox, up, down, dialled, serving, refuses>>
    BY <1>2, <1>8 DEF ExecutorEnd, Job, Executes
  <2>2. slot' = [slot EXCEPT ![w] = job]
    BY <1>1, <1>8 DEF ExecutorEnd, Intervention
  <2>3. PICK kind \in ExitKind : Emit(w, slot[w].run, kind)
    BY <1>8 DEF ExecutorEnd
  <2>4. kind \in EventKind /\ kind # "started" /\ kind # "killed_cancel"
    BY ExitAssumption DEF EventKind, OwnExit
  <2>5. job \in Job /\ job.run = slot[w].run /\ job.phase = "finished"
    BY <2>1 DEF Job
  <2> HIDE DEF job
  <2> QED BY <1>6, <2>1, <2>2, <2>3, <2>4, <2>5, ReportStoppable
<1> QED BY <1>4, <1>5, <1>7, <1>8, HelloAckStoppable, ForwardStoppable, AssignJobStoppable,
           CancelStoppable DEF WorkerStep

LEMMA NextStoppable ==
  ASSUME SingleFile
  PROVE  TypeOK /\ Wire /\ (Stoppable /\ Unhindered) /\ [Next]_vars => (Stoppable /\ Unhindered)'
<1> SUFFICES ASSUME TypeOK, Wire, Stoppable, Unhindered, [Next]_vars
             PROVE  Stoppable' /\ Unhindered'
  OBVIOUS
<1>1. Unhindered'
  BY NeverStays DEF Unhindered
<1>2. Over("resume")
  BY DEF Unhindered, Intervention
<1>3. CASE Request /\ UNCHANGED workerVars
  BY <1>1, <1>2, <1>3, RequestStoppable
<1>4. CASE HubStep /\ UNCHANGED <<workerVars, asked>>
  BY <1>1, <1>4, HubStepStoppable
<1>5. CASE WorkerStep /\ UNCHANGED <<hubVars, asked>>
  BY <1>1, <1>5, WorkerStepStoppable
<1>6. CASE UNCHANGED vars
  <2>1. /\ UNCHANGED <<workerVars, dialled, serving, silent, link, highWater, up, down>>
        /\ UNCHANGED <<rstate, rworker, asked>>
    BY <1>6 DEF vars, fabricVars, hubVars, storeVars, memoryVars
  <2>2. Steady' /\ \A w \in Worker : Coming(w)' = Coming(w)
    BY <2>1, RequestSteady DEF Stoppable
  <2>3. [w \in Worker |-> Coming(w)'] = [w \in Worker |-> Coming(w)]
    BY <2>2
  <2> QED BY <1>1, <2>1, <2>2, <2>3, HubKeepsOrder DEF Stoppable
<1> QED BY <1>1, <1>3, <1>4, <1>5, <1>6 DEF Next

LEMMA InitStoppable == OnlyStops /\ Init => Stoppable /\ Unhindered
<1> SUFFICES ASSUME OnlyStops, Init PROVE Stoppable /\ Unhindered
  OBVIOUS
<1> USE DEF Init, FabricInit, HubInit, WorkerInit
<1>1. Unhindered
  BY DEF OnlyStops, Never, Unhindered, Over
<1>2. Range(<<>>) = {} /\ \A at : InTurn(<<>>, at)
  BY DEF Range, InTurn
<1>3. \A w \in Worker : Coming(w) = {} /\ AtRest(w) /\ At(w) = None
  <2>1. \A w \in Worker, k \in Socket : Range(up[<<w, k>>]) = {}
    BY <1>2 DEF Conn
  <2> QED BY <1>2, <2>1 DEF Coming, InFlight, AtRest, At
<1>4. Steady
  BY <1>3, ConnType, SocketAssumption DEF Steady
<1>5. Filled(rstate)
  <2> SUFFICES ASSUME NEW s \in Sweep, Concurrency[s] > 0
               PROVE  Cardinality(ActiveIn(rstate, s)) <= Concurrency[s]
    BY DEF Filled
  <2>1. ActiveIn(rstate, s) = {}
    BY DEF ActiveIn, Active
  <2>2. Cardinality(ActiveIn(rstate, s)) = 0
    BY <2>1, FS_EmptySet
  <2> QED BY <2>2, SweepAssumption
<1>6. Lines(link, down) /\ Stages(rstate, down, [w \in Worker |-> Coming(w)])
  BY <1>2, <1>3 DEF Lines, Stages, Executes
<1>7. Trail(rstate, rworker, down, [w \in Worker |-> Coming(w)], asked)
  BY <1>2, <1>3 DEF Trail
<1>8. Reach(rstate, rworker, link, down, [w \in Worker |-> Coming(w)])
  BY DEF Reach, Active
<1> QED BY <1>1, <1>4, <1>5, <1>6, <1>7, <1>8 DEF Stoppable, InOrder

LEMMA FleetStoppable ==
  ASSUME SingleFile, OnlyStops
  PROVE  Spec => [](Stoppable /\ Wire /\ TypeOK)
<1>1. Init => Stoppable /\ Unhindered
  BY InitStoppable
<1>2. TypeOK /\ Wire /\ (Stoppable /\ Unhindered) /\ [Next]_vars => (Stoppable /\ Unhindered)'
  BY NextStoppable
<1>3. Never("crash")
  BY DEF OnlyStops, Intervention
<1>4. Spec => []Wire
  BY <1>3, FleetWire
<1> QED BY <1>1, <1>2, <1>4, FleetTypeOK, PTL DEF Spec

\* However many stops are asked for and whenever, a cancel that reaches a
\* worker aborts the job it names or none: it never comes too late for its own
\* job and hits the next.
THEOREM FleetCancelHitsItsTarget ==
  ASSUME SingleFile, OnlyStops
  PROVE  Spec => CancelHitsItsTarget
<1>1. TypeOK /\ Stoppable => \A c \in Conn, r \in Run :
        Cancel(c) /\ Executes(WorkerOf(c), r) => Head(down[c]).run = r
  BY CancelNames DEF Cancel
<1>2. TypeOK /\ Stoppable =>
        [\A c \in Conn, r \in Run : Cancel(c) /\ Executes(WorkerOf(c), r)
                                      => Head(down[c]).run = r]_vars
  BY <1>1
<1> QED BY <1>2, FleetStoppable, PTL DEF CancelHitsItsTarget

\* What ends up cancelled was asked to be: no stop ends another run than its own.
THEOREM FleetCancelledWasAsked ==
  ASSUME SingleFile, OnlyStops
  PROVE  Spec => []CancelledWasAsked
<1>1. Stoppable => CancelledWasAsked
  BY DEF Stoppable, InOrder, Trail, CancelledWasAsked
<1> QED BY <1>1, FleetStoppable, PTL

\* Whenever stops are asked for, a run that the store has ended executes nowhere.
THEOREM FleetTerminalIsIdle ==
  ASSUME SingleFile, OnlyStops
  PROVE  Spec => []TerminalIsIdle
<1>1. Stoppable => TerminalIsIdle
  BY DEF Stoppable, InOrder, Stages, TerminalIsIdle, Active, Terminal
<1> QED BY <1>1, FleetStoppable, PTL
=============================================================================
