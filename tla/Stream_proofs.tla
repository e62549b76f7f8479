--------------------------- MODULE Stream_proofs ---------------------------
(***************************************************************************)
(* The safety of Stream for any pumps, jobs, sockets and faults.           *)
(***************************************************************************)
EXTENDS Stream, TLAPS

\* Every number is taken once.
Numbering ==
    /\ \A i \in DOMAIN sent : sent[i].seq < seq
    /\ \A i, j \in DOMAIN sent : sent[i].seq = sent[j].seq => i = j
    /\ \A t \in Task : held[t] # None =>
          /\ held[t] < seq
          /\ \A i \in DOMAIN sent : sent[i].seq # held[t]
          /\ \A u \in Task : held[u] = held[t] => u = t

\* What the tasks of a job send, and when.
Tasks ==
    /\ \A i \in DOMAIN sent : sent[i].job \in 1..job
    /\ \A t \in Task : held[t] # None => t[1] \in reading
    /\ phase = "spawned" =>
          job \notin reading /\ \A i \in DOMAIN sent : sent[i].job # job
    /\ phase = "running" => \A i \in DOMAIN sent : sent[i].kind = "end" => sent[i].job # job

\* The hub has seen the end of every job but the current one.
EarlierEnded == \A j \in 1..(job - 1) : Ended(j)

\* The hub has applied in order: nothing sent before an applied event is still
\* to come.
NothingSkipped == \A i \in applied : \A j \in 1..i : Settled(j)

\* The mark, and the mark a worker is told, are numbers of applied events.
MarkIsApplied ==
    /\ highWater # NoSeq => \E h \in applied : sent[h].seq = highWater
    /\ (ack # None /\ ack > SeqOrigin) => \E h \in applied : sent[h].seq = ack

\* A socket carries everything before what it carries that is not settled,
\* and that of a session past its handshake all that is not settled.
InOrder ==
    /\ \A k \in Socket : \A i \in wire[k] : \A j \in 1..(i - 1) :
          j \in wire[k] \/ Settled(j)
    /\ (InSession /\ session \in attached) =>
          \A j \in 1..taken : j \in wire[session] \/ Settled(j)

Delivery == NothingLost /\ NothingSkipped /\ MarkIsApplied /\ InOrder

StreamInv == TypeOK /\ Numbering /\ Tasks /\ EarlierEnded /\ Delivery

LEMMA InitType == Init => TypeOK
  BY JobsAssumption, NoneAssumption, FaultAssumption
  DEF Init, TypeOK, SeqOrigin, NoSeq, Task, Event, Kind

LEMMA SpendType ==
  ASSUME NEW what \in Fault, budget \in [Fault -> Nat], Spend(what)
  PROVE  budget' \in [Fault -> Nat]
  BY DEF Spend

\* Appending an event to the channel, as every task that sends does.
LEMMA AppendType ==
  ASSUME TypeOK, NEW e \in Event, sent' = Append(sent, e)
  PROVE  /\ sent' \in Seq(Event)
         /\ Len(sent') = Len(sent) + 1
         /\ DOMAIN sent' = DOMAIN sent \cup {Len(sent) + 1}
         /\ sent'[Len(sent) + 1] = e
         /\ \A i \in DOMAIN sent : sent'[i] = sent[i]
  BY DEF TypeOK

LEMMA SentType ==
  ASSUME TypeOK
  PROVE  /\ Len(sent) \in Nat
         /\ DOMAIN sent = 1..Len(sent)
         /\ \A i \in DOMAIN sent : sent[i] \in Event /\ sent[i].seq \in Nat
<1>1. sent \in Seq(Event)
  BY DEF TypeOK
<1>2. Len(sent) \in Nat /\ DOMAIN sent = 1..Len(sent)
  BY <1>1
<1>3. \A i \in DOMAIN sent : sent[i] \in Event
  BY <1>1
<1>4. QED
  BY <1>2, <1>3 DEF Event

LEMMA EmitType ==
  ASSUME TypeOK, NEW kind \in Kind, Emit(kind), job > 0
  PROVE  /\ sent' \in Seq(Event)
         /\ Len(sent') = Len(sent) + 1
         /\ seq' \in Nat
<1>1. [seq |-> seq, job |-> job, kind |-> kind] \in Event
  BY JobsAssumption DEF TypeOK, Event
<1>2. QED
  BY <1>1, AppendType DEF Emit, TypeOK

\* Each step of a task keeps the types.
LEMMA ExecutorType ==
  ASSUME TypeOK, Executor
  PROVE  TypeOK'
<1>1. CASE ExecutorStart
  <2>1. Emit("started") /\ job > 0
    BY <1>1 DEF ExecutorStart, TypeOK
  <2>2. /\ sent' \in Seq(Event)
        /\ Len(sent') = Len(sent) + 1
        /\ seq' \in Nat
    BY <2>1, EmitType DEF Kind
  <2>3. QED
    BY <1>1, <2>1, <2>2 DEF ExecutorStart, TypeOK, hubVars
<1>2. CASE ExecutorEnd
  <2>1. Emit("end") /\ job > 0
    BY <1>2 DEF ExecutorEnd, TypeOK
  <2>2. /\ sent' \in Seq(Event)
        /\ Len(sent') = Len(sent) + 1
        /\ seq' \in Nat
    BY <2>1, EmitType DEF Kind
  <2>3. QED
    BY <1>2, <2>1, <2>2 DEF ExecutorEnd, TypeOK, hubVars
<1>3. ASSUME NEW t \in Task, TakeNumber(t)
      PROVE  TypeOK'
  <2>1. budget' \in [Fault -> Nat]
    BY <1>3, SpendType DEF TakeNumber, TypeOK, Fault
  <2>2. held' \in [Task -> Nat \cup {None}] /\ seq' \in Nat
    BY <1>3 DEF TakeNumber, TypeOK
  <2>3. QED
    BY <1>3, <2>1, <2>2 DEF TakeNumber, TypeOK, hubVars
<1>4. ASSUME NEW t \in Task, SendLine(t)
      PROVE  TypeOK'
  <2>1. [seq |-> held[t], job |-> t[1], kind |-> "line"] \in Event
    BY <1>4 DEF SendLine, TypeOK, Event, Task, Kind
  <2>2. /\ sent' \in Seq(Event)
        /\ Len(sent') = Len(sent) + 1
    BY <1>4, <2>1, AppendType DEF SendLine
  <2>3. held' \in [Task -> Nat \cup {None}]
    BY <1>4 DEF SendLine, TypeOK
  <2>4. QED
    BY <1>4, <2>2, <2>3 DEF SendLine, TypeOK, hubVars
<1>5. QED
  BY <1>1, <1>2, <1>3, <1>4 DEF Executor

LEMMA TrimType ==
  ASSUME TypeOK, NEW mark
  PROVE  TrimToHighWater(outbox \cup (taken + 1)..Len(sent), mark) \subseteq 1..Len(sent)
<1>1. /\ Len(sent) \in Nat /\ taken \in 0..Len(sent)
      /\ outbox \subseteq 1..taken
  BY DEF TypeOK
<1>2. 1..taken \subseteq 1..Len(sent) /\ (taken + 1)..Len(sent) \subseteq 1..Len(sent)
  BY <1>1
<1>3. outbox \cup (taken + 1)..Len(sent) \subseteq 1..Len(sent)
  BY <1>1, <1>2, Zenon
<1>4. QED
  BY <1>3 DEF TrimToHighWater

\* Each step of the session loop keeps the types.
LEMMA WorkerLoopType ==
  ASSUME TypeOK, WorkerLoop
  PROVE  TypeOK'
<1>1. CASE AssignJob
  BY <1>1, JobsAssumption DEF AssignJob, TypeOK, hubVars
<1>2. CASE Cancel
  <2>1. Emit("end") /\ job > 0
    BY <1>2 DEF Cancel
  <2>2. /\ sent' \in Seq(Event)
        /\ Len(sent') = Len(sent) + 1
        /\ seq' \in Nat
    BY <2>1, EmitType DEF Kind
  <2>3. budget' \in [Fault -> Nat]
    BY <1>2, SpendType DEF Cancel, TypeOK, Fault
  <2>4. QED
    BY <1>2, <2>2, <2>3 DEF Cancel, TypeOK, hubVars
<1>3. CASE HelloAck
  <2> DEFINE kept == TrimToHighWater(outbox \cup (taken + 1)..Len(sent), ack)
  <2>1. /\ Len(sent) \in Nat /\ taken \in 0..Len(sent)
        /\ outbox \subseteq 1..taken /\ applied \subseteq 1..taken
        /\ wire \in [Socket -> SUBSET (1..taken)]
    BY DEF TypeOK
  <2>3. kept \subseteq 1..Len(sent)
    BY TrimType
  <2>4. /\ taken' = Len(sent) /\ sent' = sent /\ ack' = None
        /\ outbox' = kept /\ Send(kept)
        /\ UNCHANGED <<seq, job, phase, reading, held, session, attached,
                       highWater, applied, budget>>
    BY <1>3 DEF HelloAck, executorVars, hubVars
  <2> HIDE DEF kept
  <2>5. wire' \in [Socket -> SUBSET (1..taken')]
    <3>1. wire \in [Socket -> SUBSET (1..Len(sent))]
      BY <2>1
    <3>2. QED
      BY <2>3, <2>4, <3>1 DEF Send
  <2>6. outbox' \subseteq 1..taken' /\ applied' \subseteq 1..taken' /\ taken' \in 0..Len(sent')
    BY <2>1, <2>3, <2>4
  <2>7. QED
    BY <2>4, <2>5, <2>6 DEF TypeOK
<1>4. CASE Forward
  <2>1. taken' = taken + 1 /\ taken' \in 0..Len(sent) /\ sent' = sent
    BY <1>4 DEF Forward, executorVars, TypeOK
  <2>2. wire' \in [Socket -> SUBSET (1..taken')]
    BY <1>4, <2>1 DEF Forward, Send, TypeOK
  <2>3. outbox' \subseteq 1..taken' /\ applied' \subseteq 1..taken'
    BY <1>4, <2>1 DEF Forward, hubVars, TypeOK
  <2>4. QED
    BY <1>4, <2>1, <2>2, <2>3 DEF Forward, TypeOK, executorVars, hubVars
<1>5. CASE Hangup
  BY <1>5 DEF Hangup, WorkerEnd, TypeOK, executorVars, hubVars
<1>6. CASE ConnectionLost
  <2>1. budget' \in [Fault -> Nat]
    BY <1>6, SpendType DEF ConnectionLost, TypeOK, Fault
  <2>2. QED
    BY <1>6, <2>1 DEF ConnectionLost, WorkerEnd, TypeOK, executorVars, hubVars
<1>7. QED
  BY <1>1, <1>2, <1>3, <1>4, <1>5, <1>6 DEF WorkerLoop

\* Each step of the control plane, and a worker's dialling, keeps the types.
LEMMA HubType ==
  ASSUME TypeOK, NEW k \in Socket,
         Dial(k) \/ SessionEnd(k) \/ SessionLost(k) \/ OnMessage(k)
  PROVE  TypeOK'
<1>1. CASE Dial(k)
  BY <1>1 DEF Dial, TypeOK, executorVars, NoSeq, SeqOrigin
<1>2. ASSUME HubEnd(k), budget' \in [Fault -> Nat]
      PROVE  TypeOK'
  BY <1>2 DEF HubEnd, TypeOK, workerVars, executorVars
<1>3. CASE SessionEnd(k)
  BY <1>2, <1>3 DEF SessionEnd, TypeOK
<1>4. CASE SessionLost(k)
  BY <1>2, <1>4, SpendType DEF SessionLost, TypeOK, Fault
<1>5. CASE OnMessage(k)
  <2>1. PICK i \in wire[k] :
          /\ wire' = [wire EXCEPT ![k] = @ \ {i}]
          /\ \/ UNCHANGED <<highWater, applied>>
             \/ highWater' = sent[i].seq /\ applied' = applied \cup {i}
    BY <1>5 DEF OnMessage
  <2>2. i \in 1..taken /\ i \in DOMAIN sent /\ sent[i].seq \in Nat
    <3>1. i \in 1..taken /\ taken \in 0..Len(sent)
      BY <2>1 DEF TypeOK
    <3>2. QED
      BY <3>1, SentType
  <2>3. wire' \in [Socket -> SUBSET (1..taken)]
    BY <2>1 DEF TypeOK
  <2>4. highWater' \in Nat \cup {NoSeq} /\ applied' \subseteq 1..taken
    BY <2>1, <2>2 DEF TypeOK
  <2>5. QED
    BY <1>5, <2>3, <2>4 DEF OnMessage, TypeOK, workerVars, executorVars
<1>6. QED
  BY <1>1, <1>3, <1>4, <1>5

LEMMA NextType == TypeOK /\ [Next]_vars => TypeOK'
<1> SUFFICES ASSUME TypeOK, [Next]_vars
             PROVE  TypeOK'
  OBVIOUS
<1>1. CASE Next
  <2>1. CASE Restart
    <3>1. budget' \in [Fault -> Nat]
      BY <2>1, SpendType DEF Restart, TypeOK, Fault
    <3>2. QED
      BY <2>1, <3>1 DEF Restart, TypeOK, workerVars, executorVars
  <2>2. QED
    BY <1>1, <2>1, ExecutorType, WorkerLoopType, HubType DEF Next
<1>2. CASE UNCHANGED vars
  BY <1>2 DEF TypeOK, vars, workerVars, executorVars, hubVars
<1>3. QED
  BY <1>1, <1>2

\* Counters, positions and sockets stay within their types, in particular
\* what is kept, on its way or applied has been taken up by a session.
THEOREM StreamTypeOK == Spec => []TypeOK
BY InitType, NextType, PTL DEF Spec

-----------------------------------------------------------------------------
(***************************************************************************)
(* Numbers and tasks.                                                      *)
(***************************************************************************)

\* Steps of sessions and of the hub: the executor has no part in them.
Transfer ==
    \/ HelloAck \/ Forward \/ Hangup \/ ConnectionLost \/ Restart
    \/ \E k \in Socket : Dial(k) \/ SessionEnd(k) \/ SessionLost(k) \/ OnMessage(k)

LEMMA NextCases ==
  Next <=> Executor \/ AssignJob \/ Cancel \/ Transfer
  BY DEF Next, WorkerLoop, Transfer

LEMMA TransferKeepsExecutor ==
  ASSUME Transfer
  PROVE  UNCHANGED executorVars
<1>1. CASE HelloAck \/ Forward
  BY <1>1 DEF HelloAck, Forward
<1>2. CASE Hangup \/ ConnectionLost
  BY <1>2 DEF Hangup, ConnectionLost, WorkerEnd
<1>3. CASE Restart
  BY <1>3 DEF Restart, workerVars
<1>4. ASSUME NEW k \in Socket,
             Dial(k) \/ SessionEnd(k) \/ SessionLost(k) \/ OnMessage(k)
      PROVE  UNCHANGED executorVars
  BY <1>4 DEF Dial, SessionEnd, SessionLost, HubEnd, OnMessage, workerVars
<1>5. QED
  BY <1>1, <1>2, <1>3, <1>4 DEF Transfer

LEMMA EmitNumbering ==
  ASSUME TypeOK, Numbering, NEW kind \in Kind, Emit(kind), job > 0, held' = held
  PROVE  Numbering'
<1> DEFINE e == [seq |-> seq, job |-> job, kind |-> kind]
<1>1. e \in Event
  BY JobsAssumption DEF TypeOK, Event
<1>2. /\ DOMAIN sent' = DOMAIN sent \cup {Len(sent) + 1}
      /\ sent'[Len(sent) + 1] = e
      /\ \A i \in DOMAIN sent : sent'[i] = sent[i]
  BY <1>1, AppendType DEF Emit
<1>3. seq' = seq + 1 /\ seq \in Nat
  BY DEF Emit, TypeOK
<1>4. \A i \in DOMAIN sent : sent[i].seq \in Nat
  BY SentType
<1>5. \A t \in Task : held[t] \in Nat \cup {None}
  BY DEF TypeOK
<1>6. QED
  BY <1>2, <1>3, <1>4, <1>5, NoneAssumption DEF Numbering

LEMMA NextNumbering ==
  ASSUME TypeOK, Numbering, [Next]_vars
  PROVE  Numbering'
<1>1. ASSUME UNCHANGED <<seq, held, sent>>
      PROVE  Numbering'
  BY <1>1 DEF Numbering
<1>2. CASE ExecutorStart
  <2>1. Emit("started") /\ job > 0 /\ held' = held
    BY <1>2 DEF ExecutorStart, TypeOK
  <2>2. QED
    BY <2>1, EmitNumbering DEF Kind
<1>3. CASE ExecutorEnd
  <2>1. Emit("end") /\ job > 0 /\ held' = held
    BY <1>3 DEF ExecutorEnd, TypeOK
  <2>2. QED
    BY <2>1, EmitNumbering DEF Kind
<1>4. CASE Cancel
  <2>1. Emit("end") /\ job > 0 /\ held' = held
    BY <1>4 DEF Cancel
  <2>2. QED
    BY <2>1, EmitNumbering DEF Kind
<1>5. ASSUME NEW t \in Task, TakeNumber(t)
      PROVE  Numbering'
  <2>1. /\ held' = [held EXCEPT ![t] = seq] /\ seq' = seq + 1 /\ sent' = sent
        /\ seq \in Nat /\ held \in [Task -> Nat \cup {None}]
    BY <1>5 DEF TakeNumber, TypeOK
  <2>2. \A i \in DOMAIN sent : sent[i].seq \in Nat
    BY SentType
  <2>3. QED
    BY <2>1, <2>2, NoneAssumption DEF Numbering
<1>6. ASSUME NEW t \in Task, SendLine(t)
      PROVE  Numbering'
  <2> DEFINE e == [seq |-> held[t], job |-> t[1], kind |-> "line"]
  <2>1. e \in Event
    BY <1>6 DEF SendLine, TypeOK, Event, Task, Kind
  <2>2. /\ DOMAIN sent' = DOMAIN sent \cup {Len(sent) + 1}
        /\ sent'[Len(sent) + 1] = e
        /\ \A i \in DOMAIN sent : sent'[i] = sent[i]
    BY <1>6, <2>1, AppendType DEF SendLine
  <2>3. /\ held' = [held EXCEPT ![t] = None] /\ seq' = seq /\ held[t] # None
        /\ seq \in Nat /\ held \in [Task -> Nat \cup {None}]
    BY <1>6 DEF SendLine, TypeOK
  <2>4. \A i \in DOMAIN sent : sent[i].seq \in Nat
    BY SentType
  <2>5. e.seq = held[t] /\ held[t] \in Nat /\ held[t] < seq
    BY <2>3 DEF Numbering
  <2> HIDE DEF e
  <2>6. QED
    BY <2>2, <2>3, <2>4, <2>5, NoneAssumption DEF Numbering
<1>7. CASE AssignJob
  BY <1>1, <1>7 DEF AssignJob
<1>8. CASE Transfer
  BY <1>1, <1>8, TransferKeepsExecutor DEF executorVars
<1>9. CASE UNCHANGED vars
  BY <1>1, <1>9 DEF vars, workerVars, executorVars
<1>10. QED
  BY <1>2, <1>3, <1>4, <1>5, <1>6, <1>7, <1>8, <1>9, NextCases DEF Executor

LEMMA NextTasks ==
  ASSUME TypeOK, Tasks, [Next]_vars
  PROVE  Tasks'
<1>1. ASSUME UNCHANGED <<job, phase, reading, held, sent>>
      PROVE  Tasks'
  BY <1>1 DEF Tasks
<1>2. ASSUME NEW kind \in Kind, Emit(kind), job > 0
      PROVE  /\ DOMAIN sent' = DOMAIN sent \cup {Len(sent) + 1}
             /\ sent'[Len(sent) + 1].job = job
             /\ sent'[Len(sent) + 1].kind = kind
             /\ \A i \in DOMAIN sent : sent'[i] = sent[i]
  <2>1. [seq |-> seq, job |-> job, kind |-> kind] \in Event
    BY <1>2, JobsAssumption DEF TypeOK, Event
  <2>2. QED
    BY <1>2, <2>1, AppendType DEF Emit
<1>3. CASE ExecutorStart
  <2>1. Emit("started") /\ job \in Nat /\ job > 0 /\ phase = "spawned"
    BY <1>3 DEF ExecutorStart, TypeOK
  <2>2. /\ DOMAIN sent' = DOMAIN sent \cup {Len(sent) + 1}
        /\ sent'[Len(sent) + 1].job = job
        /\ sent'[Len(sent) + 1].kind = "started"
        /\ \A i \in DOMAIN sent : sent'[i] = sent[i]
    BY <1>2, <2>1 DEF Kind
  <2>3. QED
    BY <1>3, <2>1, <2>2 DEF ExecutorStart, Tasks
<1>4. CASE ExecutorEnd
  <2>1. Emit("end") /\ job \in Nat /\ job > 0
    BY <1>4 DEF ExecutorEnd, TypeOK
  <2>2. /\ DOMAIN sent' = DOMAIN sent \cup {Len(sent) + 1}
        /\ sent'[Len(sent) + 1].job = job
        /\ \A i \in DOMAIN sent : sent'[i] = sent[i]
    BY <1>2, <2>1 DEF Kind
  <2>3. \A t \in Task : held[t] # None => t[1] \in reading \ {job}
    BY <1>4 DEF ExecutorEnd, Tasks, Task
  <2>4. QED
    BY <1>4, <2>1, <2>2, <2>3 DEF ExecutorEnd, Tasks
<1>5. CASE Cancel
  <2>1. Emit("end") /\ job \in Nat /\ job > 0
    BY <1>5 DEF Cancel, TypeOK
  <2>2. /\ DOMAIN sent' = DOMAIN sent \cup {Len(sent) + 1}
        /\ sent'[Len(sent) + 1].job = job
        /\ \A i \in DOMAIN sent : sent'[i] = sent[i]
    BY <1>2, <2>1 DEF Kind
  <2>3. QED
    BY <1>5, <2>1, <2>2 DEF Cancel, Tasks
<1>6. ASSUME NEW t \in Task, TakeNumber(t)
      PROVE  Tasks'
  BY <1>6 DEF TakeNumber, Tasks, TypeOK
<1>7. ASSUME NEW t \in Task, SendLine(t)
      PROVE  Tasks'
  <2> DEFINE e == [seq |-> held[t], job |-> t[1], kind |-> "line"]
  <2>1. e \in Event
    BY <1>7 DEF SendLine, TypeOK, Event, Task, Kind
  <2>2. /\ DOMAIN sent' = DOMAIN sent \cup {Len(sent) + 1}
        /\ sent'[Len(sent) + 1] = e
        /\ \A i \in DOMAIN sent : sent'[i] = sent[i]
    BY <1>7, <2>1, AppendType DEF SendLine
  <2>3. /\ held' = [held EXCEPT ![t] = None] /\ held[t] # None
        /\ UNCHANGED <<job, phase, reading>>
        /\ held \in [Task -> Nat \cup {None}]
    BY <1>7 DEF SendLine, TypeOK
  <2>4. e.kind = "line" /\ e.job \in reading /\ e.job \in 1..job
    BY <2>3 DEF Tasks, TypeOK
  <2> HIDE DEF e
  <2>5. \A u \in Task : held'[u] # None => held[u] # None
    BY <2>3
  <2>6. \A u \in Task : held'[u] # None => u[1] \in reading'
    BY <2>3, <2>5 DEF Tasks
  <2>7. QED
    BY <2>2, <2>3, <2>4, <2>6 DEF Tasks
<1>8. CASE AssignJob
  <2>0. job + 1 \notin reading
    BY DEF TypeOK
  <2>1. /\ job' = job + 1 /\ job \in Nat /\ phase' = "spawned"
        /\ UNCHANGED <<reading, held, sent>>
    BY <1>8 DEF AssignJob, TypeOK
  <2>2. \A i \in DOMAIN sent : sent[i].job \in 1..job /\ sent[i].job # job + 1
    BY <2>1 DEF Tasks
  <2>3. QED
    BY <2>0, <2>1, <2>2 DEF Tasks
<1>9. CASE Transfer
  BY <1>1, <1>9, TransferKeepsExecutor DEF executorVars
<1>10. CASE UNCHANGED vars
  BY <1>1, <1>10 DEF vars, workerVars, executorVars
<1>11. QED
  BY <1>3, <1>4, <1>5, <1>6, <1>7, <1>8, <1>9, <1>10, NextCases DEF Executor

-----------------------------------------------------------------------------
(***************************************************************************)
(* What is sent stays sent, what is applied stays applied: an event once   *)
(* settled is settled for ever.                                            *)
(***************************************************************************)

LEMMA ExecutorExtends ==
  ASSUME TypeOK, Executor \/ Cancel
  PROVE  /\ Len(sent') \in Nat /\ Len(sent) <= Len(sent')
         /\ \A i \in DOMAIN sent : sent'[i] = sent[i]
         /\ UNCHANGED <<taken, outbox, session, ack, attached, wire, highWater, applied>>
<1>1. ASSUME NEW e \in Event, sent' = Append(sent, e)
      PROVE  /\ Len(sent') \in Nat /\ Len(sent) <= Len(sent')
             /\ \A i \in DOMAIN sent : sent'[i] = sent[i]
  BY <1>1, AppendType, SentType
<1>2. ASSUME NEW kind \in Kind, Emit(kind), job > 0
      PROVE  /\ Len(sent') \in Nat /\ Len(sent) <= Len(sent')
             /\ \A i \in DOMAIN sent : sent'[i] = sent[i]
  <2>1. [seq |-> seq, job |-> job, kind |-> kind] \in Event
    BY <1>2, JobsAssumption DEF TypeOK, Event
  <2>2. QED
    BY <1>1, <1>2, <2>1 DEF Emit
<1>3. CASE ExecutorStart
  BY <1>2, <1>3 DEF ExecutorStart, TypeOK, Kind, hubVars
<1>4. CASE ExecutorEnd
  BY <1>2, <1>4 DEF ExecutorEnd, TypeOK, Kind, hubVars
<1>5. CASE Cancel
  BY <1>2, <1>5 DEF Cancel, Kind, hubVars
<1>6. ASSUME NEW t \in Task, TakeNumber(t)
      PROVE  /\ sent' = sent
             /\ UNCHANGED <<taken, outbox, session, ack, attached, wire, highWater, applied>>
  BY <1>6 DEF TakeNumber, hubVars
<1>7. ASSUME NEW t \in Task, SendLine(t)
      PROVE  /\ \E e \in Event : sent' = Append(sent, e)
             /\ UNCHANGED <<taken, outbox, session, ack, attached, wire, highWater, applied>>
  <2>1. [seq |-> held[t], job |-> t[1], kind |-> "line"] \in Event
    BY <1>7 DEF SendLine, TypeOK, Event, Task, Kind
  <2>2. QED
    BY <1>7, <2>1 DEF SendLine, hubVars
<1>8. QED
  BY <1>1, <1>3, <1>4, <1>5, <1>6, <1>7, SentType DEF Executor

LEMMA TransferGrowsApplied ==
  ASSUME Transfer
  PROVE  applied \subseteq applied'
<1>1. CASE HelloAck \/ Forward
  BY <1>1 DEF HelloAck, Forward, hubVars
<1>2. CASE Hangup \/ ConnectionLost
  BY <1>2 DEF Hangup, ConnectionLost, WorkerEnd, hubVars
<1>3. CASE Restart
  BY <1>3 DEF Restart
<1>4. ASSUME NEW k \in Socket,
             Dial(k) \/ SessionEnd(k) \/ SessionLost(k) \/ OnMessage(k)
      PROVE  applied \subseteq applied'
  BY <1>4 DEF Dial, SessionEnd, SessionLost, HubEnd, OnMessage
<1>5. QED
  BY <1>1, <1>2, <1>3, <1>4 DEF Transfer

LEMMA NextExtends ==
  ASSUME TypeOK, [Next]_vars
  PROVE  /\ Len(sent') \in Nat /\ Len(sent) <= Len(sent')
         /\ \A i \in DOMAIN sent : sent'[i] = sent[i]
         /\ applied \subseteq applied'
<1>1. CASE Executor \/ Cancel
  BY <1>1, ExecutorExtends
<1>2. CASE AssignJob
  BY <1>2, SentType DEF AssignJob, hubVars
<1>3. CASE Transfer
  BY <1>3, SentType, TransferKeepsExecutor, TransferGrowsApplied DEF executorVars
<1>4. CASE UNCHANGED vars
  BY <1>4, SentType DEF vars, workerVars, executorVars, hubVars
<1>5. QED
  BY <1>1, <1>2, <1>3, <1>4, NextCases

LEMMA SettledStays ==
  ASSUME TypeOK, [Next]_vars
  PROVE  \A i \in 1..Len(sent) : Settled(i) => Settled(i)'
<1>1. /\ DOMAIN sent = 1..Len(sent) /\ Len(sent) \in Nat
      /\ \A i \in DOMAIN sent : sent'[i] = sent[i]
      /\ applied \subseteq applied'
  BY SentType, NextExtends
<1> SUFFICES ASSUME NEW i \in 1..Len(sent), Settled(i)
             PROVE  Settled(i)'
  OBVIOUS
<1>2. CASE i \in applied
  BY <1>1, <1>2 DEF Settled
<1>3. CASE Overtaken(i)
  <2>1. PICK h \in 1..(i - 1) : sent[h].seq > sent[i].seq
    BY <1>3 DEF Overtaken
  <2>2. sent'[h] = sent[h] /\ sent'[i] = sent[i]
    BY <1>1
  <2>3. QED
    BY <2>1, <2>2 DEF Settled, Overtaken
<1>4. CASE Straggler(i)
  <2>1. PICK h \in 1..(i - 1) : sent[h].kind = "end" /\ sent[h].job = sent[i].job
    BY <1>4 DEF Straggler
  <2>2. sent'[h] = sent[h] /\ sent'[i] = sent[i]
    BY <1>1
  <2>3. QED
    BY <2>1, <2>2 DEF Settled, Straggler
<1>5. QED
  BY <1>2, <1>3, <1>4 DEF Settled

LEMMA EndedStays ==
  ASSUME TypeOK, [Next]_vars, NEW j, Ended(j)
  PROVE  Ended(j)'
<1>1. applied \subseteq DOMAIN sent
  BY SentType DEF TypeOK
<1>2. QED
  BY <1>1, NextExtends DEF Ended

LEMMA NextEarlierEnded ==
  ASSUME TypeOK, EarlierEnded, [Next]_vars
  PROVE  EarlierEnded'
<1>1. CASE job' = job
  BY <1>1, EndedStays DEF EarlierEnded
<1>2. CASE AssignJob
  <2>1. job' = job + 1 /\ job \in Nat /\ (job > 0 => Ended(job))
    BY <1>2 DEF AssignJob, TypeOK
  <2>2. \A j \in 1..job : Ended(j)
    BY <2>1 DEF EarlierEnded
  <2>3. QED
    BY <2>1, <2>2, EndedStays DEF EarlierEnded
<1>3. QED
  <2>1. CASE Executor
    BY <1>1, <2>1 DEF Executor, ExecutorStart, ExecutorEnd, TakeNumber, SendLine
  <2>2. CASE Cancel
    BY <1>1, <2>2 DEF Cancel
  <2>3. CASE Transfer
    BY <1>1, <2>3, TransferKeepsExecutor DEF executorVars
  <2>4. CASE UNCHANGED vars
    BY <1>1, <2>4 DEF vars, workerVars, executorVars
  <2>5. QED
    BY <1>2, <2>1, <2>2, <2>3, <2>4, NextCases

LEMMA NextEndIsLast ==
  ASSUME TypeOK, Tasks, EndIsLast, [Next]_vars
  PROVE  EndIsLast'
<1>0. DOMAIN sent = 1..Len(sent) /\ Len(sent) \in Nat
  BY SentType
<1>1. ASSUME UNCHANGED <<sent, reading>>
      PROVE  EndIsLast'
  BY <1>1 DEF EndIsLast
<1>2. ASSUME NEW e \in Event, sent' = Append(sent, e),
             \A i \in DOMAIN sent :
                (sent[i].kind = "end" /\ sent[i].job \in reading)
                    => sent[i].job \in reading',
             e.kind # "end" =>
                \/ e.job \in reading'
                \/ \A i \in DOMAIN sent : sent[i].job # e.job
      PROVE  EndIsLast'
  <2>1. /\ Len(sent') = Len(sent) + 1
        /\ sent'[Len(sent) + 1] = e
        /\ \A i \in DOMAIN sent : sent'[i] = sent[i]
    BY <1>2, AppendType
  <2> SUFFICES ASSUME NEW i \in 1..Len(sent'), NEW j \in 1..Len(sent'), i < j,
                      sent'[i].kind = "end", sent'[i].job = sent'[j].job
               PROVE  sent'[j].kind = "end" \/ sent'[j].job \in reading'
    BY DEF EndIsLast
  <2>2. i \in 1..Len(sent) /\ sent'[i] = sent[i] /\ DOMAIN sent = 1..Len(sent)
    BY <1>0, <2>1
  <2>3. CASE j \in 1..Len(sent)
    <3>1. sent'[j] = sent[j]
      BY <2>2, <2>3, <2>1
    <3>2. sent[j].kind = "end" \/ sent[j].job \in reading
      BY <2>2, <2>3, <3>1 DEF EndIsLast
    <3>3. sent[i].kind = "end" /\ sent[i].job = sent[j].job
      BY <2>2, <3>1
    <3>4. sent[j].kind = "end" \/ sent[j].job \in reading'
      BY <2>2, <3>2, <3>3, <1>2
    <3>5. QED
      BY <3>1, <3>4
  <2>4. CASE j = Len(sent) + 1
    <3>1. sent'[j] = e
      BY <2>1, <2>4
    <3>2. sent[i].kind = "end" /\ sent[i].job = e.job
      BY <2>2, <3>1
    <3>3. e.kind = "end" \/ e.job \in reading'
      BY <2>2, <3>2, <1>2
    <3>4. QED
      BY <3>1, <3>3
  <2>5. QED
    BY <1>0, <2>1, <2>3, <2>4
<1>3. ASSUME NEW kind \in Kind, Emit(kind), job > 0
      PROVE  \E e \in Event : sent' = Append(sent, e) /\ e.kind = kind /\ e.job = job
  <2>1. [seq |-> seq, job |-> job, kind |-> kind] \in Event
    BY <1>3, JobsAssumption DEF TypeOK, Event
  <2>2. QED
    BY <1>3, <2>1 DEF Emit
<1>4. CASE ExecutorStart
  <2>1. Emit("started") /\ job > 0 /\ reading \subseteq reading' /\ job \in reading'
    BY <1>4 DEF ExecutorStart, TypeOK
  <2>2. PICK e \in Event : sent' = Append(sent, e) /\ e.job = job
    BY <1>3, <2>1 DEF Kind
  <2>3. QED
    BY <1>2, <2>1, <2>2
<1>5. CASE ExecutorEnd
  <2>1. Emit("end") /\ job > 0 /\ phase = "running" /\ reading' = reading \ {job}
    BY <1>5 DEF ExecutorEnd, TypeOK
  <2>2. PICK e \in Event : sent' = Append(sent, e) /\ e.kind = "end"
    BY <1>3, <2>1 DEF Kind
  <2>3. \A i \in DOMAIN sent : sent[i].kind = "end" => sent[i].job # job
    BY <2>1 DEF Tasks
  <2>4. QED
    BY <1>2, <2>1, <2>2, <2>3
<1>6. CASE Cancel
  <2>1. Emit("end") /\ job > 0 /\ reading' = reading
    BY <1>6 DEF Cancel
  <2>2. PICK e \in Event : sent' = Append(sent, e) /\ e.kind = "end"
    BY <1>3, <2>1 DEF Kind
  <2>3. QED
    BY <1>2, <2>1, <2>2
<1>7. ASSUME NEW t \in Task, TakeNumber(t)
      PROVE  EndIsLast'
  BY <1>1, <1>7 DEF TakeNumber
<1>8. ASSUME NEW t \in Task, SendLine(t)
      PROVE  EndIsLast'
  <2> DEFINE e == [seq |-> held[t], job |-> t[1], kind |-> "line"]
  <2>1. e \in Event
    BY <1>8 DEF SendLine, TypeOK, Event, Task, Kind
  <2>2. sent' = Append(sent, e) /\ reading' = reading /\ e.job \in reading
    BY <1>8 DEF SendLine, Tasks
  <2> HIDE DEF e
  <2>3. QED
    BY <1>2, <2>1, <2>2
<1>9. CASE AssignJob
  BY <1>1, <1>9 DEF AssignJob
<1>10. CASE Transfer
  BY <1>1, <1>10, TransferKeepsExecutor DEF executorVars
<1>11. CASE UNCHANGED vars
  BY <1>1, <1>11 DEF vars, workerVars, executorVars
<1>12. QED
  BY <1>4, <1>5, <1>6, <1>7, <1>8, <1>9, <1>10, <1>11, NextCases DEF Executor

-----------------------------------------------------------------------------
(***************************************************************************)
(* Delivery.  An applied number vouches for all the numbers below it: what *)
(* was sent before it is settled, for the hub skips nothing, and what was  *)
(* sent after it with a lower number was overtaken by it.                  *)
(***************************************************************************)

LEMMA BelowAppliedIsSettled ==
  ASSUME TypeOK, Numbering, NothingSkipped,
         NEW h \in applied, NEW j \in 1..Len(sent), sent[j].seq <= sent[h].seq
  PROVE  Settled(j)
<1>1. h \in DOMAIN sent /\ j \in DOMAIN sent /\ DOMAIN sent = 1..Len(sent)
  BY SentType DEF TypeOK
<1>2. sent[h].seq \in Nat /\ sent[j].seq \in Nat
  BY <1>1, SentType
<1>3. CASE j <= h
  BY <1>1, <1>3 DEF NothingSkipped
<1>4. CASE j > h
  <2>1. sent[j].seq # sent[h].seq
    BY <1>1, <1>4 DEF Numbering
  <2>2. sent[h].seq > sent[j].seq /\ h \in 1..(j - 1)
    BY <1>1, <1>2, <1>4, <2>1
  <2>3. QED
    BY <2>2 DEF Settled, Overtaken
<1>5. QED
  BY <1>1, <1>3, <1>4

\* Once the end of every job so far is applied, nothing sent is unsettled.
LEMMA AllEndedIsAllSettled ==
  ASSUME TypeOK, Tasks, NothingSkipped, \A j \in 1..job : Ended(j),
         NEW i \in 1..Len(sent)
  PROVE  Settled(i)
<1>1. sent[i].job \in 1..job
  BY SentType DEF Tasks
<1>2. PICK h \in applied : sent[h].job = sent[i].job /\ sent[h].kind = "end"
  BY <1>1 DEF Ended
<1>3. h \in 1..Len(sent) /\ Len(sent) \in Nat
  BY SentType DEF TypeOK
<1>4. CASE i <= h
  BY <1>2, <1>3, <1>4 DEF NothingSkipped
<1>5. CASE i > h
  <2>1. h \in 1..(i - 1)
    BY <1>3, <1>5
  <2>2. QED
    BY <1>2, <2>1 DEF Settled, Straggler
<1>6. QED
  BY <1>3, <1>4, <1>5

\* Sending, numbering and stuttering leave the delivery as it is.
LEMMA SendingKeepsDelivery ==
  ASSUME TypeOK, Delivery, [Next]_vars,
         UNCHANGED <<taken, outbox, session, ack, attached, wire, highWater, applied>>
  PROVE  Delivery'
<1>1. /\ \A i \in 1..Len(sent) : Settled(i) => Settled(i)'
      /\ \A i \in 1..Len(sent) : sent'[i] = sent[i]
      /\ Len(sent) \in Nat
  BY SettledStays, SentType, NextExtends
<1>2. /\ taken \in 0..Len(sent) /\ applied \subseteq 1..Len(sent)
      /\ wire \in [Socket -> SUBSET (1..Len(sent))]
  BY <1>1 DEF TypeOK
<1>3. NothingLost'
  BY <1>1, <1>2 DEF Delivery, NothingLost
<1>4. NothingSkipped'
  <2> SUFFICES ASSUME NEW i \in applied, NEW j \in 1..i
               PROVE  Settled(j)'
    BY DEF NothingSkipped
  <2>1. j \in 1..Len(sent) /\ Settled(j)
    BY <1>2 DEF Delivery, NothingSkipped
  <2>2. QED
    BY <1>1, <2>1
<1>5. MarkIsApplied'
  BY <1>1, <1>2 DEF Delivery, MarkIsApplied
<1>6. InOrder'
  <2>1. ASSUME NEW k \in Socket, NEW i \in wire[k], NEW j \in 1..(i - 1)
        PROVE  j \in wire[k] \/ Settled(j)'
    <3>1. i \in 1..Len(sent)
      BY <1>2
    <3>2. j \in 1..Len(sent)
      BY <1>1, <3>1
    <3>3. j \in wire[k] \/ Settled(j)
      BY DEF Delivery, InOrder
    <3>4. QED
      BY <1>1, <3>2, <3>3
  <2>2. ASSUME InSession, session \in attached, NEW j \in 1..taken
        PROVE  j \in wire[session] \/ Settled(j)'
    <3>1. j \in 1..Len(sent)
      BY <1>1, <1>2
    <3>2. j \in wire[session] \/ Settled(j)
      BY <2>2 DEF Delivery, InOrder
    <3>3. QED
      BY <1>1, <3>1, <3>2
  <2>3. InSession' <=> InSession
    BY DEF InSession
  <2>4. QED
    BY <2>1, <2>2, <2>3 DEF InOrder
<1>7. QED
  BY <1>3, <1>4, <1>5, <1>6 DEF Delivery

LEMMA AssignJobDelivery ==
  ASSUME TypeOK, Tasks, EarlierEnded, Delivery, AssignJob
  PROVE  Delivery'
<1>1. /\ outbox' = {} /\ InSession /\ job \in Nat /\ (job > 0 => Ended(job))
      /\ UNCHANGED <<sent, taken, session, ack, attached, wire, highWater, applied>>
  BY DEF AssignJob, hubVars, TypeOK
<1>2. \A j \in 1..job : Ended(j)
  BY <1>1 DEF EarlierEnded
<1>3. \A i \in 1..Len(sent) : Settled(i)
  BY <1>2, AllEndedIsAllSettled DEF Delivery
<1>4. \A i : Settled(i)' <=> Settled(i)
  BY <1>1 DEF Settled, Overtaken, Straggler
<1>5. taken \in 0..Len(sent) /\ Len(sent) \in Nat
  BY SentType DEF TypeOK
<1>6. NothingLost'
  BY <1>1, <1>3, <1>4, <1>5 DEF NothingLost
<1>7. NothingSkipped' /\ MarkIsApplied'
  BY <1>1, <1>4 DEF Delivery, NothingSkipped, MarkIsApplied
<1>8. InOrder'
  BY <1>1, <1>4 DEF Delivery, InOrder, InSession
<1>9. QED
  BY <1>6, <1>7, <1>8 DEF Delivery

LEMMA DialDelivery ==
  ASSUME TypeOK, Delivery, NEW k \in Socket, Dial(k)
  PROVE  Delivery'
<1>1. /\ ack' = IF highWater = NoSeq THEN SeqOrigin ELSE highWater
      /\ UNCHANGED <<sent, taken, outbox, highWater, applied, wire>>
  BY DEF Dial, executorVars
<1>2. ack' # None /\ (ack' > SeqOrigin => ack' = highWater /\ highWater # NoSeq)
  BY <1>1, NoneAssumption DEF TypeOK, NoSeq, SeqOrigin
<1>3. \A i : Settled(i)' <=> Settled(i)
  BY <1>1 DEF Settled, Overtaken, Straggler
<1>4. NothingLost' /\ NothingSkipped'
  BY <1>1, <1>3 DEF Delivery, NothingLost, NothingSkipped
<1>5. MarkIsApplied'
  BY <1>1, <1>2 DEF Delivery, MarkIsApplied
<1>6. ~InSession'
  BY <1>2 DEF InSession
<1>7. InOrder'
  BY <1>1, <1>3, <1>6 DEF Delivery, InOrder
<1>8. QED
  BY <1>4, <1>5, <1>7 DEF Delivery

\* What a handshake resends, with what it need not: everything.
LEMMA HelloAckDelivery ==
  ASSUME TypeOK, Numbering, Delivery, HelloAck
  PROVE  Delivery'
<1> DEFINE all  == outbox \cup (taken + 1)..Len(sent)
           kept == TrimToHighWater(all, ack)
<1>1. /\ outbox' = kept /\ Send(kept) /\ taken' = Len(sent) /\ ack' = None /\ ack # None
      /\ UNCHANGED <<sent, session, attached, highWater, applied>>
  BY DEF HelloAck, executorVars, hubVars
<1>2. /\ Len(sent) \in Nat /\ DOMAIN sent = 1..Len(sent) /\ taken \in 0..Len(sent)
      /\ ack \in Nat /\ wire \in [Socket -> SUBSET (1..taken)] /\ session \in Socket \cup {None}
      /\ \A i \in DOMAIN sent : sent[i].seq \in Nat
  BY <1>1, SentType DEF TypeOK
<1>3. \A i : Settled(i)' <=> Settled(i)
  BY <1>1 DEF Settled, Overtaken, Straggler
<1>4. \A j \in 1..Len(sent) : j \in all \/ Settled(j)
  <2> SUFFICES ASSUME NEW j \in 1..Len(sent), j \notin all
               PROVE  Settled(j)
    OBVIOUS
  <2>1. j \notin (taken + 1)..Len(sent) /\ j \notin outbox
    OBVIOUS
  <2>2. j \in 1..taken
    BY <1>2, <2>1
  <2>3. QED
    BY <2>1, <2>2 DEF Delivery, NothingLost
<1> HIDE DEF all
<1>5. \A j \in 1..Len(sent) : j \in kept \/ Settled(j)
  <2> SUFFICES ASSUME NEW j \in 1..Len(sent), j \in all, j \notin kept
               PROVE  Settled(j)
    BY <1>4
  <2>1. ack > SeqOrigin /\ ~(sent[j].seq > ack)
    BY DEF TrimToHighWater
  <2>2. PICK h \in applied : sent[h].seq = ack
    BY <1>1, <2>1 DEF Delivery, MarkIsApplied
  <2>3. sent[j].seq <= sent[h].seq
    BY <1>2, <2>1, <2>2
  <2>4. QED
    BY <2>3, BelowAppliedIsSettled DEF Delivery
<1> HIDE DEF kept
<1>6. NothingLost'
  BY <1>1, <1>3, <1>5 DEF NothingLost
<1>7. NothingSkipped' /\ MarkIsApplied'
  BY <1>1, <1>3 DEF Delivery, NothingSkipped, MarkIsApplied
<1>8. InOrder'
  <2>1. ASSUME NEW k \in Socket, NEW i \in wire'[k], NEW j \in 1..(i - 1)
        PROVE  j \in wire'[k] \/ Settled(j)
    <3>1. CASE k = session /\ session \in attached
      <4>1. wire'[k] = wire[k] \cup kept
        BY <1>1, <1>2, <3>1 DEF Send
      <4>2. CASE i \in wire[k]
        BY <4>1, <4>2 DEF Delivery, InOrder
      <4>3. CASE i \in kept
        <5>1. kept \subseteq 1..Len(sent)
          BY TrimType DEF all, kept
        <5>2. j \in 1..Len(sent)
          BY <1>2, <4>3, <5>1
        <5>3. QED
          BY <1>5, <4>1, <5>2
      <4>4. QED
        BY <4>1, <4>2, <4>3
    <3>2. CASE ~(k = session /\ session \in attached)
      <4>1. wire'[k] = wire[k]
        BY <1>1, <1>2, <3>2 DEF Send
      <4>2. QED
        BY <4>1 DEF Delivery, InOrder
    <3>3. QED
      BY <3>1, <3>2
  <2>2. ASSUME InSession', session \in attached, NEW j \in 1..Len(sent)
        PROVE  j \in wire'[session] \/ Settled(j)
    <3>1. session \in Socket
      BY <1>1, <1>2, <2>2 DEF InSession
    <3>2. wire'[session] = wire[session] \cup kept
      BY <1>1, <1>2, <2>2, <3>1 DEF Send
    <3>3. QED
      BY <1>5, <3>2
  <2>3. QED
    BY <1>1, <1>3, <2>1, <2>2 DEF InOrder
<1>9. QED
  BY <1>6, <1>7, <1>8 DEF Delivery

LEMMA ForwardDelivery ==
  ASSUME TypeOK, Delivery, Forward
  PROVE  Delivery'
<1> DEFINE n == taken + 1
<1>1. /\ taken' = n /\ outbox' = outbox \cup {n} /\ Send({n})
      /\ InSession /\ InSession'
      /\ UNCHANGED <<sent, session, attached, highWater, ack, applied>>
  BY DEF Forward, executorVars, hubVars, InSession
<1>2. /\ taken \in Nat /\ wire \in [Socket -> SUBSET (1..taken)] /\ session \in Socket
  BY <1>1, SentType DEF TypeOK, InSession
<1>3. \A i : Settled(i)' <=> Settled(i)
  BY <1>1 DEF Settled, Overtaken, Straggler
<1>4. NothingLost'
  BY <1>1, <1>2, <1>3 DEF Delivery, NothingLost
<1>5. NothingSkipped' /\ MarkIsApplied'
  BY <1>1, <1>3 DEF Delivery, NothingSkipped, MarkIsApplied
<1>6. InOrder'
  <2>1. CASE session \in attached
    <3>1. \A k \in Socket :
             wire'[k] = IF k = session THEN wire[k] \cup {n} ELSE wire[k]
      BY <1>1, <1>2, <2>1 DEF Send
    <3>2. \A j \in 1..taken : j \in wire[session] \/ Settled(j)
      BY <1>1, <2>1 DEF Delivery, InOrder
    <3>3. ASSUME NEW k \in Socket, NEW i \in wire'[k], NEW j \in 1..(i - 1)
          PROVE  j \in wire'[k] \/ Settled(j)
      <4>1. CASE i \in wire[k]
        BY <3>1, <4>1 DEF Delivery, InOrder
      <4>2. CASE k = session /\ i = n
        <5>1. j \in 1..taken
          BY <1>2, <4>2
        <5>2. QED
          BY <3>1, <3>2, <4>2, <5>1
      <4>3. QED
        BY <3>1, <4>1, <4>2
    <3>4. \A j \in 1..n : j \in wire'[session] \/ Settled(j)
      <4>1. wire'[session] = wire[session] \cup {n}
        BY <1>2, <3>1
      <4>2. \A j \in 1..n : j \in 1..taken \/ j = n
        BY <1>2
      <4>3. QED
        BY <3>2, <4>1, <4>2
    <3>5. QED
      BY <1>1, <1>3, <3>3, <3>4 DEF InOrder
  <2>2. CASE session \notin attached
    BY <1>1, <1>3, <2>2 DEF Delivery, InOrder, Send
  <2>3. QED
    BY <2>1, <2>2
<1>7. QED
  BY <1>4, <1>5, <1>6 DEF Delivery

LEMMA WorkerEndDelivery ==
  ASSUME Delivery, WorkerEnd
  PROVE  Delivery'
<1>1. /\ session' = None /\ ack' = None
      /\ UNCHANGED <<sent, taken, outbox, wire, attached, highWater, applied>>
  BY DEF WorkerEnd, executorVars, hubVars
<1>2. \A i : Settled(i)' <=> Settled(i)
  BY <1>1 DEF Settled, Overtaken, Straggler
<1>3. QED
  BY <1>1, <1>2
     DEF Delivery, NothingLost, NothingSkipped, MarkIsApplied, InOrder, InSession

LEMMA HubEndDelivery ==
  ASSUME TypeOK, Delivery, NEW k \in Socket, HubEnd(k)
  PROVE  Delivery'
<1>1. /\ attached' = attached \ {k} /\ wire' = [wire EXCEPT ![k] = {}]
      /\ UNCHANGED <<sent, taken, outbox, session, ack, highWater, applied>>
  BY DEF HubEnd, workerVars, executorVars
<1>2. \A l \in Socket : wire'[l] = IF l = k THEN {} ELSE wire[l]
  BY <1>1 DEF TypeOK
<1>3. \A i : Settled(i)' <=> Settled(i)
  BY <1>1 DEF Settled, Overtaken, Straggler
<1>4. NothingLost' /\ NothingSkipped' /\ MarkIsApplied'
  BY <1>1, <1>3 DEF Delivery, NothingLost, NothingSkipped, MarkIsApplied
<1>5. InOrder'
  <2>1. ASSUME NEW l \in Socket, NEW i \in wire'[l], NEW j \in 1..(i - 1)
        PROVE  j \in wire'[l] \/ Settled(j)
    BY <1>2 DEF Delivery, InOrder
  <2>2. ASSUME InSession', session \in attached', NEW j \in 1..taken
        PROVE  j \in wire'[session] \/ Settled(j)
    <3>1. InSession /\ session \in attached /\ session # k
      BY <1>1, <2>2 DEF InSession
    <3>2. wire'[session] = wire[session]
      BY <1>2, <3>1 DEF TypeOK
    <3>3. QED
      BY <3>1, <3>2 DEF Delivery, InOrder
  <2>3. QED
    BY <1>1, <1>3, <2>1, <2>2 DEF InOrder
<1>6. QED
  BY <1>4, <1>5 DEF Delivery

LEMMA RestartDelivery ==
  ASSUME TypeOK, Delivery, Restart
  PROVE  Delivery'
<1>1. /\ attached' = {} /\ wire' = [k \in Socket |-> {}] /\ highWater' = NoSeq
      /\ UNCHANGED <<sent, taken, outbox, session, ack, applied>>
  BY DEF Restart, workerVars, executorVars
<1>2. \A i : Settled(i)' <=> Settled(i)
  BY <1>1 DEF Settled, Overtaken, Straggler
<1>3. QED
  BY <1>1, <1>2 DEF Delivery, NothingLost, NothingSkipped, MarkIsApplied, InOrder

\* Reading an event off a socket settles it, applied or not; everything sent
\* before it is settled because the socket carries it no longer.
LEMMA OnMessageDelivery ==
  ASSUME TypeOK, Numbering, Delivery, [Next]_vars, NEW k \in Socket, OnMessage(k)
  PROVE  Delivery'
<1>1. PICK i \in wire[k] :
        /\ \A j \in wire[k] : i <= j
        /\ wire' = [wire EXCEPT ![k] = @ \ {i}]
        /\ IF sent[i].seq <= highWater
           THEN UNCHANGED <<highWater, applied>>
           ELSE highWater' = sent[i].seq /\ applied' = applied \cup {i}
  BY DEF OnMessage, IsNext
<1>2. UNCHANGED <<sent, taken, outbox, session, ack, attached>>
  BY DEF OnMessage, workerVars, executorVars
<1>3. /\ i \in 1..Len(sent) /\ i \in DOMAIN sent /\ Len(sent) \in Nat
      /\ sent[i].seq \in Nat /\ highWater \in Nat \cup {NoSeq}
      /\ applied \subseteq 1..taken /\ taken \in 0..Len(sent)
      /\ wire \in [Socket -> SUBSET (1..taken)]
  BY SentType DEF TypeOK
<1>4. \A j \in 1..Len(sent) : Settled(j) => Settled(j)'
  BY SettledStays
<1>5. Settled(i)'
  <2>1. CASE sent[i].seq <= highWater
    <3>1. highWater # NoSeq
      BY <1>3, <2>1 DEF NoSeq
    <3>2. PICK h \in applied : sent[h].seq = highWater
      BY <3>1 DEF Delivery, MarkIsApplied
    <3>3. Settled(i)
      BY <1>3, <2>1, <3>2, BelowAppliedIsSettled DEF Delivery
    <3>4. QED
      BY <1>3, <1>4, <3>3
  <2>2. CASE ~(sent[i].seq <= highWater)
    BY <1>1, <2>2 DEF Settled
  <2>3. QED
    BY <2>1, <2>2
<1>6. \A l \in Socket : wire'[l] = IF l = k THEN wire[l] \ {i} ELSE wire[l]
  BY <1>1, <1>3
<1>7. \A j \in 1..i : Settled(j)'
  <2> SUFFICES ASSUME NEW j \in 1..i, j # i
               PROVE  Settled(j)'
    BY <1>5
  <2>1. j \in 1..(i - 1) /\ j \in 1..Len(sent) /\ j < i
    BY <1>3
  <2>2. j \notin wire[k]
    BY <1>1, <1>3, <2>1
  <2>3. Settled(j)
    BY <2>1, <2>2 DEF Delivery, InOrder
  <2>4. QED
    BY <1>4, <2>1, <2>3
<1>8. NothingLost'
  BY <1>2, <1>3, <1>4 DEF Delivery, NothingLost
<1>9. NothingSkipped'
  <2> SUFFICES ASSUME NEW a \in applied', NEW j \in 1..a
               PROVE  Settled(j)'
    BY DEF NothingSkipped
  <2>1. CASE a = i
    BY <1>7, <2>1
  <2>2. CASE a # i
    <3>1. a \in applied
      BY <1>1, <2>2
    <3>2. j \in 1..Len(sent) /\ Settled(j)
      BY <1>3, <3>1 DEF Delivery, NothingSkipped
    <3>3. QED
      BY <1>4, <3>2
  <2>3. QED
    BY <2>1, <2>2
<1>10. MarkIsApplied'
  BY <1>1, <1>2 DEF Delivery, MarkIsApplied
<1>11. InOrder'
  <2>1. ASSUME NEW l \in Socket, NEW m \in wire'[l], NEW j \in 1..(m - 1)
        PROVE  j \in wire'[l] \/ Settled(j)'
    <3>1. m \in wire[l] /\ m \in 1..Len(sent)
      <4>1. m \in wire[l]
        BY <1>6
      <4>2. wire[l] \subseteq 1..taken
        BY <1>3
      <4>3. QED
        BY <1>3, <4>1, <4>2
    <3>2. j \in 1..Len(sent)
      BY <1>3, <3>1
    <3>3. j \in wire[l] \/ Settled(j)
      BY <3>1 DEF Delivery, InOrder
    <3>4. QED
      BY <1>4, <1>5, <1>6, <3>2, <3>3
  <2>2. ASSUME InSession', session \in attached, NEW j \in 1..taken
        PROVE  j \in wire'[session] \/ Settled(j)'
    <3>1. InSession /\ session \in Socket
      BY <1>2, <2>2 DEF InSession, TypeOK
    <3>2. j \in wire[session] \/ Settled(j)
      BY <2>2, <3>1 DEF Delivery, InOrder
    <3>3. j \in 1..Len(sent)
      BY <1>3
    <3>4. QED
      BY <1>4, <1>5, <1>6, <3>1, <3>2, <3>3
  <2>3. QED
    BY <1>2, <2>1, <2>2 DEF InOrder
<1>12. QED
  BY <1>8, <1>9, <1>10, <1>11 DEF Delivery

LEMMA NextDelivery ==
  ASSUME StreamInv, [Next]_vars
  PROVE  Delivery'
<1> USE DEF StreamInv
<1>1. CASE Executor \/ Cancel
  BY <1>1, ExecutorExtends, SendingKeepsDelivery
<1>2. CASE AssignJob
  BY <1>2, AssignJobDelivery
<1>3. CASE HelloAck
  BY <1>3, HelloAckDelivery
<1>4. CASE Forward
  BY <1>4, ForwardDelivery
<1>5. CASE Hangup \/ ConnectionLost
  BY <1>5, WorkerEndDelivery DEF Hangup, ConnectionLost
<1>6. CASE Restart
  BY <1>6, RestartDelivery
<1>7. ASSUME NEW k \in Socket, Dial(k) \/ SessionEnd(k) \/ SessionLost(k)
      PROVE  Delivery'
  BY <1>7, DialDelivery, HubEndDelivery DEF SessionEnd, SessionLost
<1>8. ASSUME NEW k \in Socket, OnMessage(k)
      PROVE  Delivery'
  BY <1>8, OnMessageDelivery
<1>9. CASE UNCHANGED vars
  BY <1>9, SendingKeepsDelivery DEF vars, workerVars, hubVars
<1>10. QED
  BY <1>1, <1>2, <1>3, <1>4, <1>5, <1>6, <1>7, <1>8, <1>9, NextCases DEF Transfer

-----------------------------------------------------------------------------
(***************************************************************************)
(* Theorems.                                                               *)
(***************************************************************************)

LEMMA InitInv == Init => StreamInv
<1> SUFFICES ASSUME Init
             PROVE  StreamInv
  OBVIOUS
<1>1. TypeOK
  BY InitType
<1>2. Numbering /\ Tasks /\ EarlierEnded
  BY DEF Init, Numbering, Tasks, EarlierEnded
<1>3. Delivery
  BY DEF Init, Delivery, NothingLost, NothingSkipped, MarkIsApplied, InOrder, InSession
<1>4. QED
  BY <1>1, <1>2, <1>3 DEF StreamInv

LEMMA NextInv == StreamInv /\ [Next]_vars => StreamInv'
  BY NextType, NextNumbering, NextTasks, NextEarlierEnded, NextDelivery DEF StreamInv

LEMMA InvHolds == Spec => []StreamInv
  BY InitInv, NextInv, PTL DEF Spec

\* No drop, replay, trim, restart or fresh outbox loses an event that was not
\* settled (outbox.rs, main.rs): the sessions' and the outbox's promise.
THEOREM StreamNothingLost == Spec => []NothingLost
<1>1. StreamInv => NothingLost
  BY DEF StreamInv, Delivery
<1>2. QED
  BY <1>1, InvHolds, PTL

\* No line follows the end of a job that was not cancelled (executor.rs): the
\* supervisor has waited for its pumps.
THEOREM StreamEndIsLast == Spec => []EndIsLast
<1>1. Init => EndIsLast
  BY DEF Init, EndIsLast
<1>2. StreamInv /\ EndIsLast /\ [Next]_vars => EndIsLast'
  BY NextEndIsLast DEF StreamInv
<1>3. QED
  BY <1>1, <1>2, InvHolds, PTL DEF Spec

-----------------------------------------------------------------------------
(***************************************************************************)
(* Refinement: Channel's initial state and steps, seen through the mapping.*)
(***************************************************************************)

LEMMA InitMaps == Init => Promise!Init
  BY DEF Init, Promise!Init, NoSeq

\* A task that sends maps to Send: its number is new.
LEMMA AppendMaps ==
  ASSUME TypeOK, NEW e \in Event, sent' = Append(sent, e),
         \A i \in DOMAIN sent : sent[i].seq # e.seq,
         UNCHANGED <<highWater, applied>>
  PROVE  Promise!Send
<1>1. /\ Len(sent') = Len(sent) + 1 /\ sent'[Len(sent) + 1] = e
      /\ Len(sent) \in Nat
  BY AppendType, SentType
<1>2. sent' # sent /\ sent'[Len(sent')] = e
  BY <1>1
<1>3. QED
  BY <1>2 DEF Promise!Send

LEMMA EmitMaps ==
  ASSUME TypeOK, Numbering, NEW kind \in Kind, Emit(kind), job > 0,
         UNCHANGED <<highWater, applied>>
  PROVE  Promise!Send
<1> DEFINE e == [seq |-> seq, job |-> job, kind |-> kind]
<1>1. e \in Event
  BY JobsAssumption DEF TypeOK, Event
<1>2. \A i \in DOMAIN sent : sent[i].seq # e.seq
  BY SentType DEF Numbering, TypeOK
<1>3. QED
  BY <1>1, <1>2, AppendMaps DEF Emit

LEMMA SendLineMaps ==
  ASSUME TypeOK, Numbering, NEW t \in Task, SendLine(t)
  PROVE  Promise!Send
<1> DEFINE e == [seq |-> held[t], job |-> t[1], kind |-> "line"]
<1>1. e \in Event
  BY DEF SendLine, TypeOK, Event, Task, Kind
<1>2. \A i \in DOMAIN sent : sent[i].seq # e.seq
  BY DEF SendLine, Numbering
<1>3. QED
  BY <1>1, <1>2, AppendMaps DEF SendLine, hubVars

\* The hub's handler maps to Deliver, or for a replay to nothing.
LEMMA OnMessageMaps ==
  ASSUME TypeOK, Delivery, NEW k \in Socket, OnMessage(k)
  PROVE  \/ \E i \in DOMAIN sent : Promise!Deliver(i)
         \/ UNCHANGED <<sent, highWater, applied>>
<1>1. PICK i \in wire[k] :
        /\ \A j \in wire[k] : i <= j
        /\ IF sent[i].seq <= highWater
           THEN UNCHANGED <<highWater, applied>>
           ELSE highWater' = sent[i].seq /\ applied' = applied \cup {i}
  BY DEF OnMessage, IsNext
<1>2. sent' = sent
  BY DEF OnMessage, workerVars, executorVars
<1>3. /\ i \in DOMAIN sent /\ i \in Nat /\ sent[i].seq \in Nat
      /\ highWater \in Nat \cup {NoSeq} /\ wire[k] \subseteq Nat
  <2>1. wire[k] \subseteq 1..taken /\ taken \in 0..Len(sent)
    BY DEF TypeOK
  <2>2. i \in 1..Len(sent) /\ Len(sent) \in Nat
    BY <2>1, SentType
  <2>3. QED
    BY <2>1, <2>2, SentType DEF TypeOK
<1>4. CASE sent[i].seq <= highWater
  BY <1>1, <1>2, <1>4
<1>5. CASE ~(sent[i].seq <= highWater)
  <2>1. sent[i].seq > highWater
    BY <1>3, <1>5 DEF NoSeq
  <2>2. ASSUME NEW j \in 1..(i - 1)
        PROVE  j \in applied \/ Promise!Droppable(j)
    <3>1. j \notin wire[k]
      BY <1>1, <1>3
    <3>2. Settled(j)
      BY <3>1 DEF Delivery, InOrder
    <3>3. QED
      BY <3>2 DEF Settled, Overtaken, Straggler, Promise!Droppable
  <2>3. Promise!Deliver(i)
    BY <1>1, <1>2, <1>5, <2>1, <2>2 DEF Promise!Deliver
  <2>4. QED
    BY <1>3, <2>3
<1>6. QED
  BY <1>4, <1>5

LEMMA NextMaps ==
  ASSUME StreamInv, [Next]_vars
  PROVE  [Promise!Next]_<<sent, highWater, applied>>
<1> USE DEF StreamInv
<1>1. CASE ExecutorStart
  BY <1>1, EmitMaps DEF ExecutorStart, TypeOK, Kind, hubVars, Promise!Next
<1>2. CASE ExecutorEnd
  BY <1>2, EmitMaps DEF ExecutorEnd, TypeOK, Kind, hubVars, Promise!Next
<1>3. CASE Cancel
  BY <1>3, EmitMaps DEF Cancel, Kind, hubVars, Promise!Next
<1>4. ASSUME NEW t \in Task, TakeNumber(t) \/ SendLine(t)
      PROVE  [Promise!Next]_<<sent, highWater, applied>>
  BY <1>4, SendLineMaps DEF TakeNumber, hubVars, Promise!Next
<1>5. CASE AssignJob
  BY <1>5 DEF AssignJob, hubVars
<1>6. CASE HelloAck \/ Forward
  BY <1>6 DEF HelloAck, Forward, executorVars, hubVars
<1>7. CASE Hangup \/ ConnectionLost
  BY <1>7 DEF Hangup, ConnectionLost, WorkerEnd, executorVars, hubVars
<1>8. CASE Restart
  BY <1>8 DEF Restart, workerVars, executorVars, NoSeq, Promise!Next, Promise!Forget
<1>9. ASSUME NEW k \in Socket, Dial(k) \/ SessionEnd(k) \/ SessionLost(k)
      PROVE  [Promise!Next]_<<sent, highWater, applied>>
  BY <1>9 DEF Dial, SessionEnd, SessionLost, HubEnd, workerVars, executorVars
<1>10. ASSUME NEW k \in Socket, OnMessage(k)
       PROVE  [Promise!Next]_<<sent, highWater, applied>>
  BY <1>10, OnMessageMaps DEF Promise!Next
<1>11. CASE UNCHANGED vars
  BY <1>11 DEF vars, workerVars, executorVars, hubVars
<1>12. QED
  BY <1>1, <1>2, <1>3, <1>4, <1>5, <1>6, <1>7, <1>8, <1>9, <1>10, <1>11, NextCases
     DEF Executor, Transfer

\* Sessions, replays, trims, restarts and overlapping connections (main.rs,
\* ws.rs, messages.rs) amount to a channel that goes through what was sent in order.
THEOREM StreamImplementsChannel == Spec => ImplementsChannel
<1>1. Init => Promise!Init
  BY InitMaps
<1>2. StreamInv /\ [Next]_vars => [Promise!Next]_<<sent, highWater, applied>>
  BY NextMaps
<1>3. QED
  BY <1>1, <1>2, InvHolds, PTL DEF Spec, ImplementsChannel, Promise!Spec
=============================================================================
