--------------------------- MODULE Archive_proofs ---------------------------
(***************************************************************************)
(* What holds of every number of steps, workers, attempts and faults: what *)
(* is recorded of a checkpoint is how it was trained, and what is archived *)
(* is on Drive.                                                            *)
(***************************************************************************)
EXTENDS Archive, Sums_proofs, SequenceTheorems, TLAPS

Event == [kind : {"artifact"} \cup Terminal, step : 0..MaxStep, att : Nat]
Task == [stage : {"idle", "files", "promoted", "uploaded", "logs", "marking"},
         step : 0..MaxStep, held : History \cup {None}]

VarTypes ==
    /\ run \in {"queued", "running"} \cup Terminal
    /\ last \in Worker \cup {None} /\ claims \subseteq Worker /\ link \subseteq Worker
    /\ job \in [Worker -> Job \cup {None}]
    /\ events \in [Worker -> Seq(Event)]
    /\ \A w \in Worker : \A i \in DOMAIN events[w] :
          events[w][i].kind = "artifact" => events[w][i].step \in Step
    /\ rows \in [Step -> Row \cup {None}] /\ hot \in [Step -> Object \cup {None}]
    /\ pass \in Pass \cup {None} /\ resume \in Memory \cup {None}
    /\ attempts \in Nat /\ grants \subseteq 1..attempts /\ outlived \in BOOLEAN
    /\ arch \in [Archiver -> Task]
    /\ final \in [Step -> History \cup {None}] /\ onDrive \subseteq Step \X History

-----------------------------------------------------------------------------
(***************************************************************************)
(* One attempt at a time.                                                  *)
(***************************************************************************)

PassIsReady == pass # None => pass.worker \in link /\ job[pass.worker] = None

NoneAhead == \A w \in Worker :
    /\ \A i \in DOMAIN events[w] : events[w][i].att <= attempts
    /\ job[w] # None => job[w].att <= attempts

\* The row's worker has the run as long as it is running, and nobody else.
OneClaim == /\ claims = IF run = "running" THEN {last} ELSE {}
            /\ run = "running" => last \in Worker /\ pass = None

OneJob == \A w \in Worker : job[w] # None =>
              job[w].att = attempts /\ w = last /\ run = "running"

\* Who reports the end of the attempt has nothing more to tell of it.
EndsIt(e) == e.kind # "artifact" /\ e.att = attempts
OneEnd == \A w \in Worker : \A i \in DOMAIN events[w] :
              EndsIt(events[w][i]) => w = last /\ job[w] = None /\ pass = None

IsOf(w, e) == e.kind = "artifact" =>
                  e.att = attempts /\ w = last /\ run = "running" /\ attempts \in grants
EndIsLast == \A w \in Worker : \A i \in DOMAIN events[w] :
                 /\ IsOf(w, events[w][i])
                 /\ events[w][i].kind = "artifact" =>
                        \A j \in 1..i : ~EndsIt(events[w][j])

OneAttempt == OneClaim /\ OneJob /\ OneEnd /\ EndIsLast

-----------------------------------------------------------------------------
(***************************************************************************)
(* The hub remembers where the attempt's weights come from.                *)
(***************************************************************************)

From == resume.from
Trained(s) == Append(resume.slices, <<From, s>>)

\* Nothing was recorded beyond the resume point when the attempt was assembled.
PassFrom == pass # None =>
    /\ pass.from \in Recorded \cup {0} /\ \A s \in Recorded : s <= pass.from
    /\ attempts \in grants => resume # None /\ From = pass.from

Remembers == (run = "running" \/ pass # None) /\ attempts \in grants =>
    /\ resume # None /\ From \in Recorded \cup {0}
    /\ resume.slices = IF From = 0 THEN <<>> ELSE rows[From].slices
    /\ \A s \in Recorded : s > From => rows[s].weights = Trained(s)

\* What the job has trained it trained from there.
JobFrom == \A w \in Worker : job[w] # None =>
    /\ \A s \in job[w].saved : s > job[w].from
    /\ job[w].collected \subseteq job[w].saved /\ job[w].from <= job[w].at
    /\ \A s \in job[w].saved : s <= job[w].at
    /\ job[w].from \in Recorded \cup {0}
    /\ \A s \in Recorded : s > job[w].from => s \in job[w].collected
    /\ attempts \in grants =>
          /\ From = job[w].from
          /\ job[w].stage # "staging" => job[w].base = resume.slices \/ job[w].saved = {}
          /\ job[w].stage = "training" => job[w].base = resume.slices
          /\ job[w].stage = "staging" => job[w].saved = {}

\* What waits to be recorded is what the attempt uploaded, once.
Awaits(w, s) == \E i \in DOMAIN events[w] : events[w][i].kind = "artifact" /\ events[w][i].step = s
ArtifactsAreNew == \A w \in Worker :
    /\ \A s \in Step : Awaits(w, s) =>
          /\ s > From /\ s \notin Recorded
          /\ hot[s] # None => hot[s].weights = Trained(s)
          /\ job[w] # None => s \in job[w].collected
    /\ \A i, j \in DOMAIN events[w] :
          events[w][i].kind = "artifact" /\ events[w][j].kind = "artifact"
              /\ events[w][i].step = events[w][j].step => i = j

HotIsRecorded == \A s \in Step : hot[s] # None =>
    /\ s \in Recorded => hot[s].weights = rows[s].weights
    /\ hot[s].parent # None => s \in Recorded

RowsAreTrue == \A s \in Recorded :
    /\ rows[s].slices = rows[s].weights /\ rows[s].weights # <<>>
    /\ rows[s].parent # None =>
          rows[s].parent \in Recorded /\ rows[s].parent < s /\ Descends(s, rows[s].parent)

LineageInv == /\ OneAttempt /\ PassFrom /\ Remembers /\ JobFrom /\ ArtifactsAreNew
              /\ HotIsRecorded /\ RowsAreTrue

-----------------------------------------------------------------------------
(***************************************************************************)
(* What an archiver holds.                                                 *)
(***************************************************************************)

Holds(a) ==
    LET s == arch[a].step
        held == arch[a].held
    IN  /\ arch[a].stage \in {"uploaded", "logs", "marking"} /\ held # None =>
              <<s, held>> \in onDrive
        /\ ~outlived /\ held # None => held = rows[s].weights
        /\ ~outlived /\ arch[a].stage \in {"uploaded", "logs", "marking"} /\ held = None =>
              hot[s] = None
        /\ arch[a].stage \in {"idle", "files"} => held = None

\* What is archived, or promoted or uploaded for it, was recorded.
OfRecorded ==
    /\ \A a \in Archiver : /\ At(a, "idle") \/ arch[a].step \in Recorded
                           /\ At(a, "promoted") => arch[a].held # None
    /\ \A s \in Step : final[s] # None => s \in Recorded
    /\ \A f \in onDrive : f[1] \in Recorded

Bookkeeping == VarTypes /\ PassIsReady /\ NoneAhead /\ OfRecorded

ArchiveInv == /\ Bookkeeping /\ (~outlived => LineageInv)
              /\ \A a \in Archiver : Holds(a)
              /\ ArchivedIsOnDrive

-----------------------------------------------------------------------------
(***************************************************************************)
(* The latest checkpoint and the events of a worker.                       *)
(***************************************************************************)

LEMMA LatestIsLatest ==
  /\ Latest \in Recorded \cup {0} /\ Latest \in 0..MaxStep
  /\ \A s \in Recorded : s <= Latest
<1> DEFINE Bounds == {n \in Nat : \A s \in Recorded : s <= n}
<1>1. MaxStep \in Bounds /\ Recorded \subseteq 1..MaxStep
  BY LineageAssumption DEF Recorded, Step
<1>2. PICK n \in Bounds : \A m \in Bounds : n <= m
  BY <1>1, LeastNatural
<1>3. n \in Recorded \cup {0}
  <2> SUFFICES ASSUME n \notin Recorded, n # 0 PROVE FALSE
    OBVIOUS
  <2>1. n - 1 \in Nat /\ \A s \in Recorded : s <= n - 1
    BY <1>1, <1>2
  <2>2. n - 1 \in Bounds
    BY <2>1
  <2> QED BY <1>2, <2>1, <2>2
<1>4. \E s \in Recorded \cup {0} : \A r \in Recorded : r <= s
  BY <1>2, <1>3
<1>5. Latest \in Recorded \cup {0} /\ \A r \in Recorded : r <= Latest
  BY <1>4 DEF Latest
<1> QED BY <1>1, <1>5, LineageAssumption

LEMMA EventsTyped ==
  ASSUME VarTypes PROVE \A w \in Worker : \A i \in DOMAIN events[w] : events[w][i] \in Event
<1>1. \A w \in Worker : events[w] \in Seq(Event)
  BY DEF VarTypes
<1> QED BY <1>1, ElementOfSeq

\* What a worker announces comes behind what it announced before.
LEMMA Announced ==
  ASSUME VarTypes, NEW w \in Worker, NEW e \in Event, Announce(w, e)
  PROVE  /\ \A v \in Worker : v # w => events'[v] = events[v]
         /\ events'[w] \in Seq(Event) /\ events' \in [Worker -> Seq(Event)]
         /\ Len(events[w]) \in Nat /\ DOMAIN events[w] = 1..Len(events[w])
         /\ DOMAIN events'[w] = 1..(Len(events[w]) + 1)
         /\ \A i \in DOMAIN events[w] : events'[w][i] = events[w][i]
         /\ events'[w][Len(events[w]) + 1] = e
<1>1. events \in [Worker -> Seq(Event)] /\ events' = [events EXCEPT ![w] = Append(events[w], e)]
  BY DEF VarTypes, Announce
<1>2. events[w] \in Seq(Event) /\ events'[w] = Append(events[w], e)
  BY <1>1
<1>3. /\ Append(events[w], e) \in Seq(Event)
      /\ Len(Append(events[w], e)) = Len(events[w]) + 1
      /\ \A i \in 1..Len(events[w]) : Append(events[w], e)[i] = events[w][i]
      /\ Append(events[w], e)[Len(events[w]) + 1] = e
  BY <1>2, AppendProperties
<1> QED BY <1>1, <1>2, <1>3

LEMMA HandledOne ==
  ASSUME VarTypes, NEW w \in Worker, events[w] # <<>>, Handled(w)
  PROVE  /\ \A v \in Worker : v # w => events'[v] = events[v]
         /\ events' \in [Worker -> Seq(Event)]
         /\ Len(events[w]) \in Nat \ {0} /\ DOMAIN events[w] = 1..Len(events[w])
         /\ DOMAIN events'[w] = 1..(Len(events[w]) - 1)
         /\ \A i \in DOMAIN events'[w] : events'[w][i] = events[w][i + 1]
         /\ Head(events[w]) = events[w][1] /\ Head(events[w]) \in Event
<1>1. events \in [Worker -> Seq(Event)] /\ events' = [events EXCEPT ![w] = Tail(events[w])]
  BY DEF VarTypes, Handled
<1>2. events[w] \in Seq(Event) /\ events'[w] = Tail(events[w])
  BY <1>1
<1>3. /\ Head(events[w]) \in Event /\ Tail(events[w]) \in Seq(Event)
      /\ Len(Tail(events[w])) = Len(events[w]) - 1 /\ Len(events[w]) \in Nat \ {0}
      /\ \A i \in 1..Len(Tail(events[w])) : Tail(events[w])[i] = events[w][i + 1]
  BY <1>2, HeadTailProperties
<1> QED BY <1>1, <1>2, <1>3

LEMMA HistoryGrows ==
  ASSUME NEW h \in History, NEW f \in 0..MaxStep, NEW s \in Step
  PROVE  /\ Append(h, <<f, s>>) \in History /\ Append(h, <<f, s>>) # <<>>
BY AppendProperties DEF History, Session

-----------------------------------------------------------------------------
(***************************************************************************)
(* Bookkeeping: types, the pass, attempts and what refers to a row.        *)
(***************************************************************************)

LEMMA InitBookkeeping == Init => Bookkeeping
<1> SUFFICES ASSUME Init PROVE Bookkeeping
  OBVIOUS
<1> USE DEF Init, LineageInit
<1>1. VarTypes
  <2>1. arch \in [Archiver -> Task]
    BY LineageAssumption DEF Task, Idle
  <2>2. events \in [Worker -> Seq(Event)]
    BY EmptySeq
  <2>3. \A w \in Worker : DOMAIN events[w] = {}
    OBVIOUS
  <2> QED BY <2>1, <2>2, <2>3 DEF VarTypes
<1>2. PassIsReady /\ NoneAhead /\ OfRecorded
  BY DEF PassIsReady, NoneAhead, OfRecorded, At, Idle
<1> QED BY <1>1, <1>2 DEF Bookkeeping

RowsStay == \A s \in Recorded : s \in Recorded'

\* A step that is none of the archiver's.
LEMMA RefsStay ==
  ASSUME OfRecorded, UNCHANGED archiveVars, RowsStay PROVE OfRecorded'
BY DEF OfRecorded, archiveVars, RowsStay, At

LEMMA AssembleTypes ==
  ASSUME Bookkeeping, NEW w \in Worker, Assemble(w), UNCHANGED archiveVars PROVE Bookkeeping'
<1> USE DEF Bookkeeping
<1>1. /\ w \in link /\ job[w] = None
      /\ pass' = [worker |-> w, from |-> Latest] /\ attempts' = attempts + 1
      /\ grants' = grants \cup {attempts + 1} /\ resume' = ResumePoint
      /\ UNCHANGED <<run, last, claims, link, job, events, rows, hot, outlived>>
  BY DEF Assemble, storeVars
<1>2. pass' \in Pass /\ pass'.worker = w
  BY <1>1, LatestIsLatest DEF Pass
<1>3. resume' \in Memory
  <2>1. Latest = 0 => ResumePoint \in Memory
    BY LineageAssumption, EmptySeq DEF ResumePoint, Fresh, Memory, History
  <2>2. Latest # 0 => ResumePoint \in Memory
    BY LatestIsLatest DEF ResumePoint, Memory, Recorded, VarTypes, Row
  <2> QED BY <1>1, <2>1, <2>2
<1>4. VarTypes'
  BY <1>1, <1>2, <1>3 DEF VarTypes, archiveVars
<1>5. PassIsReady' /\ NoneAhead'
  <2>1. \A v \in Worker : \A i \in DOMAIN events[v] : events[v][i].att \in Nat
    BY EventsTyped DEF Event
  <2>2. \A v \in Worker : job[v] # None => job[v].att \in Nat
    BY DEF VarTypes, Job
  <2> QED BY <1>1, <1>2, <2>1, <2>2 DEF PassIsReady, NoneAhead, VarTypes
<1>6. OfRecorded'
  BY <1>1, RefsStay DEF RowsStay, Recorded
<1> QED BY <1>4, <1>5, <1>6

LEMMA AssignTypes ==
  ASSUME Bookkeeping, NEW w \in Worker, Assign(w), UNCHANGED archiveVars PROVE Bookkeeping'
<1> USE DEF Bookkeeping
<1> DEFINE new == [att |-> attempts, stage |-> "staging", from |-> pass.from, at |-> pass.from,
                   base |-> <<>>, saved |-> {}, collected |-> {}]
<1>1. /\ pass # None /\ pass' = None /\ run' = "running" /\ last' = w
      /\ claims' = claims \cup {w} /\ job' = [job EXCEPT ![w] = new]
      /\ UNCHANGED <<resume, grants, attempts, link, events, rows, hot, outlived>>
  BY DEF Assign, storeVars
<1>2. new \in Job
  <2>1. pass.from \in 0..MaxStep /\ attempts \in Nat
    BY <1>1 DEF VarTypes, Pass
  <2>2. <<>> \in History
    BY EmptySeq DEF History
  <2> QED BY <2>1, <2>2 DEF Job
<1>a. new.att <= attempts
  BY DEF VarTypes
<1> HIDE DEF new
<1>3. VarTypes'
  BY <1>1, <1>2 DEF VarTypes, archiveVars
<1>4. PassIsReady' /\ NoneAhead'
  BY <1>1, <1>a DEF PassIsReady, NoneAhead, VarTypes
<1>5. OfRecorded'
  BY <1>1, RefsStay DEF RowsStay, Recorded
<1> QED BY <1>3, <1>4, <1>5

\* Where a job goes from one step of its worker to the next.
JobTypes(w) ==
    /\ job[w] # None
    /\ \A v \in Worker : v # w => job'[v] = job[v]
    /\ job' \in [Worker -> Job \cup {None}]
    /\ job'[w] # None => job'[w].att = job[w].att /\ job'[w].from = job[w].from

LEMMA WorkerStepJob ==
  ASSUME VarTypes, NEW w \in Worker, WorkerStep(w) PROVE JobTypes(w)
<1>0. /\ job \in [Worker -> Job \cup {None}] /\ hot \in [Step -> Object \cup {None}]
      /\ job[w] # None => /\ job[w] \in Job /\ job[w].att \in Nat /\ job[w].from \in 0..MaxStep
                          /\ job[w].at \in 0..MaxStep /\ job[w].base \in History
                          /\ job[w].saved \subseteq Step /\ job[w].collected \subseteq Step
  BY DEF VarTypes, Job
<1>1. CASE Stage(w)
  <2> DEFINE from == job[w].from
             new == [att |-> job[w].att, stage |-> "training", from |-> from, at |-> from,
                     base |-> IF from = 0 THEN <<>> ELSE hot[from].weights,
                     saved |-> {}, collected |-> {}]
  <2>1. CASE Allowed(w) /\ (from # 0 => hot[from] # None)
    <3>1. job[w] # None /\ job' = [job EXCEPT ![w] = new]
      BY <1>1, <2>1 DEF Stage, In
    <3>2. (IF from = 0 THEN <<>> ELSE hot[from].weights) \in History
      <4>1. <<>> \in History
        BY EmptySeq DEF History
      <4>2. CASE from # 0
        <5>1. from \in Step /\ hot[from] \in Object
          BY <1>0, <2>1, <3>1, <4>2, LineageAssumption DEF Step
        <5> QED BY <4>2, <5>1 DEF Object
      <4> QED BY <4>1, <4>2
    <3>3. new \in Job
      BY <1>0, <3>1, <3>2 DEF Job
    <3>4. new.att = job[w].att /\ new.from = job[w].from
      OBVIOUS
    <3> HIDE DEF new
    <3> QED BY <1>0, <3>1, <3>3, <3>4 DEF JobTypes
  <2>2. CASE ~(Allowed(w) /\ (from # 0 => hot[from] # None))
    <3>1. job[w] # None /\ job' = [job EXCEPT ![w].stage = "failed"]
      BY <1>1, <2>2 DEF Stage, In
    <3>2. [job[w] EXCEPT !.stage = "failed"] \in Job
      BY <1>0, <3>1 DEF Job
    <3> QED BY <1>0, <3>1, <3>2 DEF JobTypes, Job
  <2> QED BY <2>1, <2>2
<1>2. CASE Train(w)
  <2>1. job[w] # None /\ job[w].at < MaxStep
    BY <1>2 DEF Train, In
  <2>2. PICK saves \in BOOLEAN : job' = [job EXCEPT ![w] =
            [att |-> @.att, stage |-> "training", from |-> @.from, at |-> @.at + 1,
             base |-> @.base, saved |-> @.saved \cup {s \in {@.at + 1} : saves},
             collected |-> @.collected]]
    BY <1>2 DEF Train
  <2> DEFINE next == job[w].at + 1
             new == [att |-> job[w].att, stage |-> "training", from |-> job[w].from, at |-> next,
                     base |-> job[w].base, saved |-> job[w].saved \cup {s \in {next} : saves},
                     collected |-> job[w].collected]
  <2>3. next \in 0..MaxStep /\ next \in Step
    BY <1>0, <2>1, LineageAssumption DEF Step
  <2>4. new \in Job
    BY <1>0, <2>1, <2>3 DEF Job
  <2>5. job' = [job EXCEPT ![w] = new]
    BY <2>2
  <2>6. new.att = job[w].att /\ new.from = job[w].from
    OBVIOUS
  <2> HIDE DEF new
  <2> QED BY <1>0, <2>1, <2>4, <2>5, <2>6 DEF JobTypes
<1>3. CASE Exit(w)
  <2>1. job[w] # None
    BY <1>3 DEF Exit, In
  <2>2. PICK code \in {"completed", "failed"} : job' = [job EXCEPT ![w].stage = code]
    BY <1>3 DEF Exit
  <2>3. [job[w] EXCEPT !.stage = code] \in Job
    BY <1>0, <2>1 DEF Job
  <2> QED BY <1>0, <2>1, <2>2, <2>3 DEF JobTypes, Job
<1>4. CASE Collect(w)
  <2>1. job[w] # None
    BY <1>4 DEF Collect, In, Ended
  <2>2. PICK s \in NextPending(w) : job' = [job EXCEPT ![w].collected = @ \cup {s}]
    BY <1>4 DEF Collect
  <2>3. s \in Step
    BY <1>0, <2>1 DEF NextPending, Pending
  <2>4. [job[w] EXCEPT !.collected = @ \cup {s}] \in Job
    BY <1>0, <2>1, <2>3 DEF Job
  <2> QED BY <1>0, <2>1, <2>2, <2>4 DEF JobTypes, Job
<1>5. CASE Report(w)
  <2>1. job[w] # None /\ job' = [job EXCEPT ![w] = None]
    BY <1>5 DEF Report, Ended, In
  <2> QED BY <1>0, <2>1 DEF JobTypes
<1> QED BY <1>1, <1>2, <1>3, <1>4, <1>5 DEF WorkerStep

\* What a worker's step does to the rest of the state.
LEMMA WorkerStepElsewhere ==
  ASSUME VarTypes, NEW w \in Worker, WorkerStep(w)
  PROVE  /\ UNCHANGED <<run, last, claims, pass, resume, grants, attempts, link, rows, outlived>>
         /\ \/ UNCHANGED <<events, hot>>
            \/ \E s \in Step, weights \in History :
                  /\ s \in Pending(w) /\ weights = WeightsAt(w, s) /\ Allowed(w) /\ Collect(w)
                  /\ job' = [job EXCEPT ![w].collected = @ \cup {s}]
                  /\ hot' = [hot EXCEPT ![s] = [weights |-> weights, parent |-> None]]
                  /\ \/ UNCHANGED events
                     \/ Announce(w, [kind |-> "artifact", step |-> s, att |-> job[w].att])
            \/ \E code \in {"completed", "failed"} :
                  /\ Announce(w, [kind |-> code, step |-> 0, att |-> job[w].att])
                  /\ UNCHANGED hot /\ Report(w)
<1>0. UNCHANGED <<run, last, claims, pass, resume, grants, attempts, link, rows, outlived>>
  BY DEF WorkerStep, Stage, Train, Exit, Collect, Report, hubVars, storeVars
<1>1. CASE Stage(w) \/ Train(w) \/ Exit(w)
  BY <1>0, <1>1 DEF Stage, Train, Exit, storeVars
<1>2. CASE Collect(w)
  <2>1. job[w] \in Job
    BY <1>2 DEF Collect, In, Ended, VarTypes
  <2>2. PICK s \in NextPending(w) :
           /\ job' = [job EXCEPT ![w].collected = @ \cup {s}]
           /\ \/ /\ Allowed(w)
                 /\ hot' = [hot EXCEPT ![s] = [weights |-> WeightsAt(w, s), parent |-> None]]
                 /\ Announce(w, [kind |-> "artifact", step |-> s, att |-> job[w].att])
              \/ /\ Allowed(w) /\ UNCHANGED events
                 /\ \/ hot' = [hot EXCEPT ![s] = [weights |-> WeightsAt(w, s), parent |-> None]]
                    \/ hot' = hot
              \/ UNCHANGED <<hot, events>>
    BY <1>2 DEF Collect
  <2>3. s \in Pending(w) /\ s \in Step
    BY <2>1 DEF NextPending, Pending, Job
  <2>4. WeightsAt(w, s) \in History
    BY <2>1, <2>3, HistoryGrows DEF WeightsAt, Job
  <2> QED BY <1>0, <1>2, <2>2, <2>3, <2>4
<1>3. CASE Report(w)
  <2>1. /\ job[w].stage \in {"completed", "failed"} /\ UNCHANGED hot
        /\ Announce(w, [kind |-> job[w].stage, step |-> 0, att |-> job[w].att])
    BY <1>3 DEF Report, Ended, In, storeVars
  <2> QED BY <1>0, <1>3, <2>1
<1> QED BY <1>1, <1>2, <1>3 DEF WorkerStep

LEMMA AnnouncedTypes ==
  ASSUME VarTypes, NoneAhead, NEW w \in Worker, NEW e \in Event, Announce(w, e),
         e.kind = "artifact" => e.step \in Step, e.att <= attempts
  PROVE  /\ events' \in [Worker -> Seq(Event)]
         /\ \A v \in Worker : \A i \in DOMAIN events'[v] :
               /\ events'[v][i].kind = "artifact" => events'[v][i].step \in Step
               /\ events'[v][i].att <= attempts
<1>1. ASSUME NEW v \in Worker, NEW i \in DOMAIN events'[v]
      PROVE  events'[v][i] = e \/ (i \in DOMAIN events[v] /\ events'[v][i] = events[v][i])
  BY <1>1, Announced
<1>2. ASSUME NEW v \in Worker, NEW i \in DOMAIN events[v]
      PROVE  /\ events[v][i].kind = "artifact" => events[v][i].step \in Step
             /\ events[v][i].att <= attempts
  BY <1>2 DEF VarTypes, NoneAhead
<1> QED BY <1>1, <1>2, Announced

LEMMA HandledTypes ==
  ASSUME VarTypes, NoneAhead, NEW w \in Worker, events[w] # <<>>, Handled(w)
  PROVE  /\ events' \in [Worker -> Seq(Event)]
         /\ \A v \in Worker : \A i \in DOMAIN events'[v] :
               /\ events'[v][i].kind = "artifact" => events'[v][i].step \in Step
               /\ events'[v][i].att <= attempts
<1>1. ASSUME NEW v \in Worker, NEW i \in DOMAIN events'[v]
      PROVE  \E j \in DOMAIN events[v] : events'[v][i] = events[v][j]
  BY <1>1, HandledOne
<1>2. ASSUME NEW v \in Worker, NEW i \in DOMAIN events[v]
      PROVE  /\ events[v][i].kind = "artifact" => events[v][i].step \in Step
             /\ events[v][i].att <= attempts
  BY <1>2 DEF VarTypes, NoneAhead
<1> QED BY <1>1, <1>2, HandledOne

LEMMA WorkerStepTypes ==
  ASSUME Bookkeeping, NEW w \in Worker, WorkerStep(w), UNCHANGED archiveVars PROVE Bookkeeping'
<1> USE DEF Bookkeeping
<1>1. /\ UNCHANGED <<run, last, claims, pass, resume, grants, attempts, link, rows, outlived>>
      /\ JobTypes(w)
  BY WorkerStepJob, WorkerStepElsewhere
<1>2. job[w].att \in Nat
  BY <1>1 DEF JobTypes, VarTypes, Job
<1>3. /\ hot' \in [Step -> Object \cup {None}] /\ events' \in [Worker -> Seq(Event)]
      /\ \A v \in Worker : \A i \in DOMAIN events'[v] :
            events'[v][i].kind = "artifact" => events'[v][i].step \in Step
      /\ NoneAhead'
  <2>1. \A v \in Worker : job'[v] # None => job'[v].att <= attempts
    BY <1>1 DEF JobTypes, NoneAhead
  <2>2. /\ hot' \in [Step -> Object \cup {None}]
        /\ \/ UNCHANGED events
           \/ \E e \in Event : /\ Announce(w, e) /\ e.att = job[w].att
                               /\ e.kind = "artifact" => e.step \in Step
    <3>1. ASSUME NEW s \in Step, NEW weights \in History
          PROVE  /\ [weights |-> weights, parent |-> None] \in Object
                 /\ [kind |-> "artifact", step |-> s, att |-> job[w].att] \in Event
      BY <1>2, <3>1 DEF Object, Event, Step
    <3>2. ASSUME NEW code \in {"completed", "failed"}
          PROVE  [kind |-> code, step |-> 0, att |-> job[w].att] \in Event
      BY <1>2, <3>2, LineageAssumption DEF Event, Terminal
    <3>3. CASE UNCHANGED <<events, hot>>
      BY <3>3 DEF VarTypes
    <3>4. ASSUME NEW s \in Step, NEW weights \in History,
                 hot' = [hot EXCEPT ![s] = [weights |-> weights, parent |-> None]],
                 \/ UNCHANGED events
                 \/ Announce(w, [kind |-> "artifact", step |-> s, att |-> job[w].att])
          PROVE  /\ hot' \in [Step -> Object \cup {None}]
                 /\ \/ UNCHANGED events
                    \/ \E e \in Event : /\ Announce(w, e) /\ e.att = job[w].att
                                        /\ e.kind = "artifact" => e.step \in Step
      <4> DEFINE e == [kind |-> "artifact", step |-> s, att |-> job[w].att]
                 o == [weights |-> weights, parent |-> None]
      <4>1. e \in Event /\ e.att = job[w].att /\ e.step \in Step /\ o \in Object
        BY <3>1
      <4>2. hot' = [hot EXCEPT ![s] = o] /\ (UNCHANGED events \/ Announce(w, e))
        BY <3>4
      <4> HIDE DEF e, o
      <4> QED BY <4>1, <4>2 DEF VarTypes
    <3>5. ASSUME NEW code \in {"completed", "failed"}, UNCHANGED hot,
                 Announce(w, [kind |-> code, step |-> 0, att |-> job[w].att])
          PROVE  /\ hot' \in [Step -> Object \cup {None}]
                 /\ \E e \in Event : /\ Announce(w, e) /\ e.att = job[w].att
                                     /\ e.kind = "artifact" => e.step \in Step
      <4> DEFINE e == [kind |-> code, step |-> 0, att |-> job[w].att]
      <4>1. e \in Event /\ e.att = job[w].att /\ e.kind # "artifact"
        BY <3>2
      <4>2. UNCHANGED hot /\ Announce(w, e)
        BY <3>5
      <4> HIDE DEF e
      <4> QED BY <4>1, <4>2 DEF VarTypes
    <3> QED BY <3>3, <3>4, <3>5, WorkerStepElsewhere
  <2>3. CASE UNCHANGED events
    BY <1>1, <2>1, <2>2, <2>3 DEF VarTypes, NoneAhead
  <2>4. ASSUME NEW e \in Event, Announce(w, e), e.att = job[w].att,
               e.kind = "artifact" => e.step \in Step
        PROVE  /\ events' \in [Worker -> Seq(Event)]
               /\ \A v \in Worker : \A i \in DOMAIN events'[v] :
                     /\ events'[v][i].kind = "artifact" => events'[v][i].step \in Step
                     /\ events'[v][i].att <= attempts
    <3>1. e.att <= attempts
      BY <1>1, <2>4 DEF NoneAhead, JobTypes
    <3> QED BY <2>4, <3>1, AnnouncedTypes
  <2> QED BY <1>1, <2>1, <2>2, <2>3, <2>4 DEF NoneAhead
<1>4. VarTypes'
  BY <1>1, <1>3 DEF VarTypes, archiveVars, JobTypes
<1>5. PassIsReady'
  BY <1>1 DEF PassIsReady, JobTypes, VarTypes, Pass
<1>6. OfRecorded'
  BY <1>1, RefsStay DEF RowsStay, Recorded
<1> QED BY <1>3, <1>4, <1>5, <1>6

\* What becomes of the checkpoint that is recorded; no other is touched.
LEMMA Ingested ==
  ASSUME VarTypes, NEW s \in Step, Ingest(s)
  PROVE  /\ rows' \in [Step -> Row \cup {None}] /\ hot' \in [Step -> Object \cup {None}]
         /\ \A t \in Step : t # s => rows'[t] = rows[t] /\ hot'[t] = hot[t]
         /\ hot[s] = None => UNCHANGED storeVars
         /\ hot[s] # None =>
               /\ rows'[s] # None /\ hot'[s] # None
               /\ rows'[s].weights = hot[s].weights /\ hot'[s].weights = hot[s].weights
               /\ rows'[s].slices = Append(Remembered.slices, <<Remembered.from, s>>)
               /\ rows'[s].parent = ParentOf(s) /\ hot'[s].parent = ParentOf(s)
               /\ rows[s] # None => /\ rows'[s].archived = rows[s].archived
                                    /\ rows'[s].drive = rows[s].drive
               /\ rows[s] = None => ~rows'[s].archived
<1>1. CASE hot[s] = None
  BY <1>1 DEF Ingest, VarTypes, storeVars
<1>2. CASE hot[s] # None
  <2> DEFINE row == [weights |-> hot[s].weights,
                     slices |-> Append(Remembered.slices, <<Remembered.from, s>>),
                     parent |-> ParentOf(s),
                     location |-> IF rows[s] = None THEN "hot" ELSE rows[s].location,
                     archived |-> rows[s] # None /\ rows[s].archived,
                     drive |-> IF rows[s] = None THEN None ELSE rows[s].drive]
  <2>1. rows' = [rows EXCEPT ![s] = row] /\ hot' = [hot EXCEPT ![s].parent = ParentOf(s)]
    BY <1>2 DEF Ingest, RecordCheckpoint
  <2>2. Remembered \in Memory
    BY LineageAssumption, EmptySeq DEF Remembered, Fresh, VarTypes, Memory, History
  <2>3. Append(Remembered.slices, <<Remembered.from, s>>) \in History
    BY <2>2, HistoryGrows DEF Memory
  <2>4. hot[s] \in Object /\ rows[s] \in Row \cup {None}
    BY <1>2 DEF VarTypes
  <2>5. ParentOf(s) \in Step \cup {None}
    BY <2>4, LatestIsLatest, LineageAssumption DEF ParentOf, Object, Step
  <2>6. row \in Row
    <3>1. hot[s].weights \in History /\ (rows[s] # None /\ rows[s].archived) \in BOOLEAN
      BY <2>4 DEF Object
    <3>2. (IF rows[s] = None THEN "hot" ELSE rows[s].location) \in {"hot", "final", "drive"}
      BY <2>4 DEF Row
    <3>3. (IF rows[s] = None THEN None ELSE rows[s].drive) \in History \cup {None}
      BY <2>4 DEF Row
    <3> QED BY <2>3, <2>5, <3>1, <3>2, <3>3 DEF Row
  <2>7. row # None
    BY <2>6, LineageAssumption
  <2>8. /\ rows[s] # None => row.archived = rows[s].archived /\ row.drive = rows[s].drive
        /\ rows[s] = None => ~row.archived
        /\ row.weights = hot[s].weights /\ row.parent = ParentOf(s)
        /\ row.slices = Append(Remembered.slices, <<Remembered.from, s>>)
    BY <2>4 DEF Row
  <2> HIDE DEF row
  <2>9. rows'[s] = row /\ \A t \in Step : t # s => rows'[t] = rows[t]
    BY <2>1 DEF VarTypes
  <2>10. hot'[s] = [hot[s] EXCEPT !.parent = ParentOf(s)] /\ \A t \in Step : t # s => hot'[t] = hot[t]
    BY <2>1 DEF VarTypes
  <2>11. /\ hot'[s] \in Object /\ hot'[s].parent = ParentOf(s)
         /\ hot'[s].weights = hot[s].weights
    BY <2>4, <2>5, <2>10 DEF Object
  <2>12. hot'[s] # None
    BY <2>11, LineageAssumption
  <2>13. rows' \in [Step -> Row \cup {None}] /\ hot' \in [Step -> Object \cup {None}]
    <3>1. DOMAIN rows' = Step /\ DOMAIN hot' = Step
      BY <2>1 DEF VarTypes
    <3>2. rows' = [t \in Step |-> rows'[t]] /\ hot' = [t \in Step |-> hot'[t]]
      BY <2>1, <3>1 DEF VarTypes
    <3>3. \A t \in Step : rows'[t] \in Row \cup {None} /\ hot'[t] \in Object \cup {None}
      BY <2>6, <2>9, <2>10, <2>11 DEF VarTypes
    <3> QED BY <3>2, <3>3
  <2> QED BY <1>2, <2>7, <2>8, <2>9, <2>10, <2>11, <2>12, <2>13
<1> QED BY <1>1, <1>2

LEMMA OnArtifactTypes ==
  ASSUME Bookkeeping, NEW w \in Worker, OnArtifact(w), UNCHANGED archiveVars PROVE Bookkeeping'
<1> USE DEF Bookkeeping
<1> DEFINE s == Head(events[w]).step
<1>1. /\ events[w] # <<>> /\ Head(events[w]).kind = "artifact" /\ Handled(w) /\ Ingest(s)
      /\ UNCHANGED <<run, last, claims, pass, resume, grants, attempts, link, job, outlived>>
  BY DEF OnArtifact, hubVars
<1>2. s \in Step
  BY <1>1, HandledOne DEF VarTypes
<1>3. /\ rows' \in [Step -> Row \cup {None}] /\ hot' \in [Step -> Object \cup {None}]
      /\ \A t \in Step : rows[t] # None => rows'[t] # None
  BY <1>1, <1>2, Ingested DEF storeVars
<1>4. VarTypes' /\ NoneAhead'
  BY <1>1, <1>3, HandledTypes DEF VarTypes, archiveVars, NoneAhead
<1>5. PassIsReady'
  BY <1>1 DEF PassIsReady
<1>6. OfRecorded'
  BY <1>3, RefsStay DEF RowsStay, Recorded
<1> QED BY <1>4, <1>5, <1>6

LEMMA OnEndTypes ==
  ASSUME Bookkeeping, NEW w \in Worker, OnEnd(w), UNCHANGED archiveVars PROVE Bookkeeping'
<1> USE DEF Bookkeeping
<1>1. /\ events[w] # <<>> /\ Head(events[w]).kind # "artifact" /\ Handled(w)
      /\ run' = Head(events[w]).kind /\ last' = w /\ claims' = claims \ {w}
      /\ grants' = {} /\ resume' = None /\ outlived' \in BOOLEAN
      /\ UNCHANGED <<pass, attempts, link, job, rows, hot>>
  BY DEF OnEnd, storeVars
<1>2. run' \in Terminal
  BY <1>1, HandledOne DEF Event
<1>3. VarTypes' /\ NoneAhead'
  BY <1>1, <1>2, HandledTypes DEF VarTypes, archiveVars, NoneAhead
<1>5. PassIsReady'
  BY <1>1 DEF PassIsReady
<1>6. OfRecorded'
  BY <1>1, RefsStay DEF RowsStay, Recorded
<1> QED BY <1>3, <1>5, <1>6

\* A step of the connection or of an operator that leaves the store alone.
LEMMA HubTypes ==
  ASSUME Bookkeeping,
         (\E w \in Worker : Drop(w) \/ Reconnect(w)) \/ StopRun \/ ResumeRun,
         UNCHANGED archiveVars
  PROVE  Bookkeeping'
<1> USE DEF Bookkeeping
<1>1. UNCHANGED <<rows, hot, attempts>>
  BY DEF Drop, Reconnect, StopRun, ResumeRun, hubVars, storeVars
<1>2. OfRecorded'
  BY <1>1, RefsStay DEF RowsStay, Recorded
<1>3. ASSUME NEW w \in Worker, Drop(w) PROVE Bookkeeping'
  <2>1. /\ pass = None /\ link' = link \ {w}
        /\ job' = job \/ job' = [job EXCEPT ![w] = None]
        /\ run' \in {"queued", run} /\ claims' \subseteq claims /\ grants' \in {{}, grants}
        /\ outlived' \in BOOLEAN /\ UNCHANGED <<last, pass, resume, attempts, events, rows, hot>>
    BY <1>3 DEF Drop, storeVars, VarTypes
  <2>2. \A v \in Worker : job'[v] \in {None, job[v]}
    BY <2>1 DEF VarTypes
  <2>3. job' \in [Worker -> Job \cup {None}]
    BY <2>1 DEF VarTypes
  <2>4. VarTypes'
    BY <2>1, <2>3 DEF VarTypes, archiveVars
  <2> QED BY <1>2, <2>1, <2>2, <2>4 DEF NoneAhead, PassIsReady
<1>4. ASSUME NEW w \in Worker, Reconnect(w) PROVE Bookkeeping'
  <2>1. link' = link \cup {w} /\ UNCHANGED <<run, last, claims, pass, resume, grants, attempts,
                                             job, events, rows, hot, outlived>>
    BY <1>4 DEF Reconnect, hubVars, storeVars
  <2> QED BY <1>2, <2>1 DEF NoneAhead, PassIsReady, VarTypes, archiveVars
<1>5. CASE ResumeRun
  <2>1. run' = "queued" /\ UNCHANGED <<last, claims, pass, resume, grants, attempts, link, job,
                                       events, rows, hot, outlived>>
    BY <1>5 DEF ResumeRun, storeVars
  <2> QED BY <1>2, <2>1 DEF NoneAhead, PassIsReady, VarTypes, archiveVars
<1>6. CASE StopRun
  <2>1. CASE last \in link
    <3> DEFINE e == [kind |-> "cancelled", step |-> 0, att |-> attempts]
    <3>1. /\ last \in Worker /\ pass = None
          /\ job' = [job EXCEPT ![last] = None] /\ Announce(last, e)
          /\ UNCHANGED <<run, last, claims, pass, resume, grants, attempts, outlived, link, rows, hot>>
      BY <1>6, <2>1, LineageAssumption DEF StopRun, VarTypes, hubVars, storeVars
    <3>2. e \in Event /\ e.kind # "artifact" /\ e.att <= attempts
      BY LineageAssumption DEF Event, Terminal, VarTypes
    <3> HIDE DEF e
    <3>3. /\ events' \in [Worker -> Seq(Event)]
          /\ \A v \in Worker : \A i \in DOMAIN events'[v] :
                /\ events'[v][i].kind = "artifact" => events'[v][i].step \in Step
                /\ events'[v][i].att <= attempts
      BY <3>1, <3>2, AnnouncedTypes
    <3>4. \A v \in Worker : job'[v] \in {None, job[v]}
      BY <3>1 DEF VarTypes
    <3>5. VarTypes'
      BY <3>1, <3>3 DEF VarTypes, archiveVars
    <3> QED BY <1>2, <3>1, <3>3, <3>4, <3>5 DEF NoneAhead, PassIsReady
  <2>2. CASE last \notin link
    <3>1. /\ run' = "cancelled" /\ claims' = claims \ {last} /\ grants' = {} /\ resume' = None
          /\ outlived' \in BOOLEAN
          /\ UNCHANGED <<last, pass, attempts, job, events, link, rows, hot>>
      BY <1>6, <2>2 DEF StopRun, storeVars
    <3> QED BY <1>2, <3>1 DEF NoneAhead, PassIsReady, VarTypes, archiveVars, Terminal
  <2> QED BY <2>1, <2>2
<1> QED BY <1>3, <1>4, <1>5, <1>6
-----------------------------------------------------------------------------
(***************************************************************************)
(* The archivers' steps.                                                   *)
(***************************************************************************)

\* What they leave of a row: all but where it is stored.
RowsKept == \A s \in Step :
    /\ (rows'[s] = None) = (rows[s] = None)
    /\ rows[s] # None => /\ rows'[s].weights = rows[s].weights
                         /\ rows'[s].slices = rows[s].slices
                         /\ rows'[s].parent = rows[s].parent

LEMMA KeptRecorded == RowsKept => Recorded' = Recorded
BY DEF RowsKept, Recorded

\* What they may put in the stores, and where an archiver goes.
RowsFit == rows' \in [Step -> Row \cup {None}] /\ RowsKept
CopiesFit ==
    /\ final' \in [Step -> History \cup {None}]
    /\ \A s \in Step : final'[s] # None => final[s] # None \/ s \in Recorded
    /\ onDrive' \subseteq Step \X History
    /\ \A f \in onDrive' : f \in onDrive \/ f[1] \in Recorded
Moves(a) == \E new \in Task :
    /\ arch' = [arch EXCEPT ![a] = new]
    /\ new.stage = "idle" \/ new.step \in Recorded
    /\ new.stage = "promoted" => new.held # None

LEMMA MovesTypes ==
  ASSUME Bookkeeping, NEW a \in Archiver, RowsFit, CopiesFit, Moves(a),
         UNCHANGED <<run, last, claims, link, job, events, hot, pass, resume, grants, attempts, outlived>>
  PROVE  Bookkeeping'
<1> USE DEF Bookkeeping
<1>1. Recorded' = Recorded
  BY KeptRecorded DEF RowsFit
<1>2. PICK new \in Task : /\ arch' = [arch EXCEPT ![a] = new]
                          /\ new.stage = "idle" \/ new.step \in Recorded
                          /\ new.stage = "promoted" => new.held # None
  BY DEF Moves
<1>3. VarTypes'
  BY <1>2 DEF VarTypes, RowsFit, CopiesFit
<1>4. PassIsReady' /\ NoneAhead'
  BY DEF PassIsReady, NoneAhead
<1>5. OfRecorded'
  BY <1>1, <1>2 DEF OfRecorded, At, VarTypes, CopiesFit
<1> QED BY <1>3, <1>4, <1>5

LEMMA StaysFit ==
  ASSUME Bookkeeping
  PROVE  /\ UNCHANGED rows => RowsFit
         /\ UNCHANGED <<final, onDrive>> => CopiesFit
BY DEF Bookkeeping, VarTypes, RowsFit, RowsKept, CopiesFit

LEMMA GoesOn ==
  ASSUME Bookkeeping, NEW a \in Archiver,
         \/ GiveUp(a)
         \/ ~At(a, "idle") /\ \E stage \in {"uploaded", "logs", "marking"} : GoTo(a, stage)
  PROVE  Moves(a)
<1>1. arch \in [Archiver -> Task] /\ (At(a, "idle") \/ arch[a].step \in Recorded)
      /\ Idle \in Task /\ Idle.stage = "idle"
  BY LineageAssumption DEF Bookkeeping, VarTypes, OfRecorded, Idle, Task
<1>2. CASE GiveUp(a)
  BY <1>1, <1>2 DEF GiveUp, Moves
<1>3. ASSUME ~At(a, "idle"), NEW stage \in {"uploaded", "logs", "marking"}, GoTo(a, stage)
      PROVE  Moves(a)
  <2> DEFINE new == [arch[a] EXCEPT !.stage = stage]
  <2>1. new \in Task /\ new.step \in Recorded /\ new.stage # "promoted"
    BY <1>1, <1>3 DEF Task
  <2>2. arch' = [arch EXCEPT ![a] = new]
    BY <1>1, <1>3 DEF GoTo
  <2> HIDE DEF new
  <2> QED BY <2>1, <2>2 DEF Moves
<1> QED BY <1>2, <1>3

\* Where each of its steps takes an archiver.
LEMMA ArchiveStepFits ==
  ASSUME Bookkeeping, NEW a \in Archiver, ArchiveStep(a)
  PROVE  RowsFit /\ CopiesFit /\ Moves(a)
<1>1. /\ arch \in [Archiver -> Task] /\ arch[a] \in Task
      /\ rows \in [Step -> Row \cup {None}] /\ hot \in [Step -> Object \cup {None}]
      /\ At(a, "idle") \/ arch[a].step \in Recorded
      /\ At(a, "promoted") => arch[a].held # None
      /\ Recorded \subseteq Step
  BY DEF Bookkeeping, VarTypes, OfRecorded, Recorded
<1>2. CASE Begin(a)
  <2> DEFINE new == [stage |-> "files", step |-> Latest, held |-> None]
  <2>1. new \in Task /\ new.step \in Recorded /\ new.stage # "promoted"
    BY <1>2, LatestIsLatest DEF Begin, Task
  <2>2. UNCHANGED <<rows, final, onDrive>> /\ arch' = [arch EXCEPT ![a] = new]
    BY <1>2 DEF Begin, storeVars
  <2> HIDE DEF new
  <2> QED BY <2>1, <2>2, StaysFit DEF Moves
<1>3. CASE Promote(a)
  <2> DEFINE s == arch[a].step
             weights == hot[s].weights
             new == [stage |-> "promoted", step |-> s, held |-> weights]
  <2>1. UNCHANGED <<rows, onDrive>> /\ At(a, "files") /\ ~At(a, "idle")
    BY <1>3 DEF Promote, storeVars, At
  <2>2. CASE hot[s] = None
    <3>1. GoTo(a, "uploaded") /\ UNCHANGED final
      BY <1>3, <2>2 DEF Promote
    <3> QED BY <2>1, <3>1, StaysFit, GoesOn
  <2>3. CASE hot[s] # None
    <3>1. s \in Recorded /\ weights \in History /\ weights # None
      BY <1>1, <2>1, <2>3, LineageAssumption DEF Object
    <3>2. /\ arch' = [arch EXCEPT ![a] = new]
          /\ final' = [final EXCEPT ![s] = weights] \/ UNCHANGED final
      BY <1>3, <2>3 DEF Promote
    <3>3. new \in Task /\ new.step \in Recorded /\ new.held # None
      BY <1>1, <3>1 DEF Task
    <3>4. CopiesFit
      BY <1>1, <2>1, <3>1, <3>2 DEF CopiesFit, Bookkeeping, VarTypes
    <3> HIDE DEF new
    <3> QED BY <2>1, <3>2, <3>3, <3>4, StaysFit DEF Moves
  <2> QED BY <2>2, <2>3
<1>4. CASE Upload(a)
  <2> DEFINE Files == Step \X History
             file == <<arch[a].step, arch[a].held>>
  <2>1. /\ UNCHANGED <<rows, final>> /\ At(a, "promoted") /\ ~At(a, "idle")
        /\ onDrive' = onDrive \/ onDrive' = onDrive \cup {file}
        /\ GoTo(a, "uploaded") \/ GiveUp(a)
    BY <1>4 DEF Upload, storeVars, At
  <2>2. file \in Files /\ file[1] \in Recorded /\ onDrive \subseteq Files
    BY <1>1, <2>1 DEF Task, Bookkeeping, VarTypes
  <2>3. final' \in [Step -> History \cup {None}] /\ \A s \in Step : final'[s] # None => final[s] # None
    BY <2>1 DEF Bookkeeping, VarTypes
  <2>4. onDrive' \subseteq Files /\ \A f \in onDrive' : f \in onDrive \/ f[1] \in Recorded
    <3> HIDE DEF file, Files
    <3> QED BY <2>1, <2>2
  <2> QED BY <2>1, <2>3, <2>4, StaysFit, GoesOn DEF CopiesFit
<1>5. CASE MarkFinal(a)
  <2> DEFINE s == arch[a].step
             row == [rows[s] EXCEPT !.location = "final"]
  <2>1. /\ rows' = [rows EXCEPT ![s] = row] /\ GoTo(a, "logs") /\ ~At(a, "idle")
        /\ UNCHANGED <<final, onDrive>>
    BY <1>5 DEF MarkFinal, At
  <2>2. s \in Step /\ rows[s] \in Row
    BY <1>1, <2>1 DEF Recorded
  <2>3. /\ row \in Row /\ row.weights = rows[s].weights /\ row.slices = rows[s].slices
        /\ row.parent = rows[s].parent
    BY <2>2 DEF Row
  <2>4. row # None /\ rows[s] # None
    BY <2>2, <2>3, LineageAssumption
  <2> HIDE DEF row
  <2>5. RowsFit
    BY <1>1, <2>1, <2>2, <2>3, <2>4 DEF RowsFit, RowsKept
  <2> QED BY <2>1, <2>5, StaysFit, GoesOn
<1>6. CASE UploadLogs(a)
  <2>1. UNCHANGED <<rows, final, onDrive>> /\ ~At(a, "idle") /\ (GoTo(a, "marking") \/ GiveUp(a))
    BY <1>6 DEF UploadLogs, storeVars, At
  <2> QED BY <2>1, StaysFit, GoesOn
<1>7. CASE MarkArchived(a)
  <2> DEFINE s == arch[a].step
             row == ArchivedRow(rows[s], arch[a].held)
  <2>1. /\ rows' = [rows EXCEPT ![s] = row] /\ GiveUp(a) /\ ~At(a, "idle")
        /\ UNCHANGED <<final, onDrive>>
    BY <1>7 DEF MarkArchived, At
  <2>2. s \in Step /\ rows[s] \in Row
    BY <1>1, <2>1 DEF Recorded
  <2>3. /\ row \in Row /\ row.weights = rows[s].weights /\ row.slices = rows[s].slices
        /\ row.parent = rows[s].parent
    BY <1>1, <2>2 DEF Row, ArchivedRow, Task
  <2>4. row # None /\ rows[s] # None
    BY <2>2, <2>3, LineageAssumption
  <2> HIDE DEF row
  <2>5. RowsFit
    BY <1>1, <2>1, <2>2, <2>3, <2>4 DEF RowsFit, RowsKept
  <2> QED BY <2>1, <2>5, StaysFit, GoesOn
<1> QED BY <1>2, <1>3, <1>4, <1>5, <1>6, <1>7 DEF ArchiveStep

LEMMA ArchiveStepElsewhere ==
  ASSUME NEW a \in Archiver, ArchiveStep(a)
  PROVE  UNCHANGED <<run, last, claims, link, job, events, hot, pass, resume, grants, attempts, outlived>>
BY DEF ArchiveStep, Begin, Promote, Upload, MarkFinal, UploadLogs, MarkArchived, hubVars, storeVars

LEMMA ExpireTypes ==
  ASSUME Bookkeeping, NEW s \in Step, Expire(s) PROVE Bookkeeping'
<1> USE DEF Bookkeeping
<1>1. hot' = [hot EXCEPT ![s] = None] /\ UNCHANGED archiveVars
      /\ UNCHANGED <<run, last, claims, link, job, events, rows, pass, resume, grants, attempts, outlived>>
  BY DEF Expire, hubVars
<1>2. VarTypes'
  BY <1>1 DEF VarTypes, archiveVars
<1>3. PassIsReady' /\ NoneAhead'
  BY <1>1 DEF PassIsReady, NoneAhead
<1>4. OfRecorded'
  BY <1>1, RefsStay DEF RowsStay, Recorded
<1> QED BY <1>2, <1>3, <1>4

LEMMA HubRestartTypes ==
  ASSUME Bookkeeping, HubRestart PROVE Bookkeeping'
<1> USE DEF Bookkeeping
<1>1. /\ pass' = None /\ resume' = None /\ grants' = {} /\ link' = {}
      /\ job' = [w \in Worker |-> IF w \in Persistent THEN job[w] ELSE None]
      /\ outlived' \in BOOLEAN /\ arch' = [a \in Archiver |-> Idle]
      /\ UNCHANGED <<run, last, claims, attempts, events, rows, hot, final, onDrive>>
  BY DEF HubRestart, Restart, storeVars
<1>2. Idle \in Task /\ Idle.stage = "idle"
  BY LineageAssumption DEF Idle, Task
<1>3. VarTypes'
  BY <1>1, <1>2 DEF VarTypes
<1>4. PassIsReady' /\ NoneAhead'
  BY <1>1 DEF PassIsReady, NoneAhead
<1>5. OfRecorded'
  BY <1>1, <1>2 DEF OfRecorded, At, Recorded
<1> QED BY <1>3, <1>4, <1>5

LEMMA NextBookkeeping == Bookkeeping /\ [Next]_vars => Bookkeeping'
<1> SUFFICES ASSUME Bookkeeping, [Next]_vars PROVE Bookkeeping'
  OBVIOUS
<1>1. CASE LineageNext /\ UNCHANGED archiveVars
  BY <1>1, AssembleTypes, AssignTypes, WorkerStepTypes, OnArtifactTypes, OnEndTypes, HubTypes
     DEF LineageNext, OnMessage
<1>2. ASSUME NEW a \in Archiver, ArchiveStep(a) PROVE Bookkeeping'
  BY <1>2, ArchiveStepFits, ArchiveStepElsewhere, MovesTypes
<1>3. ASSUME NEW s \in Step, Expire(s) PROVE Bookkeeping'
  BY <1>3, ExpireTypes
<1>4. CASE HubRestart
  BY <1>4, HubRestartTypes
<1>5. CASE UNCHANGED vars
  BY <1>5 DEF vars, archiveVars, lineageVars, hubVars, storeVars, Bookkeeping, VarTypes,
              PassIsReady, NoneAhead, OfRecorded, At, Recorded
<1> QED BY <1>1, <1>2, <1>3, <1>4, <1>5 DEF Next

LEMMA BookkeepingTypes == Bookkeeping => TypeOK
<1> SUFFICES ASSUME Bookkeeping PROVE TypeOK
  OBVIOUS
<1>1. LineageTypeOK
  BY DEF LineageTypeOK, Bookkeeping, VarTypes, PassIsReady, Row
<1>2. OfRecorded
  BY DEF Bookkeeping
<1> QED BY <1>1, <1>2 DEF TypeOK, OfRecorded

(* The state of the run, of its rows and of its archive keeps its types; a   *)
(* pass assembles only for a connected idle worker, and only what was        *)
(* recorded is promoted, uploaded or archived.                               *)
THEOREM ArchiveTypes == Spec => []TypeOK
<1>1. Spec => []Bookkeeping
  BY InitBookkeeping, NextBookkeeping, PTL DEF Spec
<1> QED BY <1>1, BookkeepingTypes, PTL

-----------------------------------------------------------------------------
(***************************************************************************)
(* One attempt at a time, as long as none outlived the hub's interest.     *)
(***************************************************************************)

LEMMA InitOneAttempt == Init => OneAttempt
<1> SUFFICES ASSUME Init PROVE OneAttempt
  OBVIOUS
<1>1. \A w \in Worker : job[w] = None /\ DOMAIN events[w] = {}
  BY DEF Init, LineageInit
<1> QED BY <1>1 DEF Init, LineageInit, OneAttempt, OneClaim, OneJob, OneEnd, EndIsLast

\* What waits while the run is not running is the end of an attempt.
LEMMA AtRest ==
  ASSUME OneAttempt, run # "running"
  PROVE  /\ claims = {} /\ \A w \in Worker : job[w] = None
         /\ \A w \in Worker : \A i \in DOMAIN events[w] : events[w][i].kind # "artifact"
BY DEF OneAttempt, OneClaim, OneJob, EndIsLast, IsOf

LEMMA AssembleOne ==
  ASSUME Bookkeeping, OneAttempt, NEW w \in Worker, Assemble(w) PROVE OneAttempt'
<1>1. /\ run = "queued" /\ attempts' = attempts + 1 /\ attempts \in Nat
      /\ UNCHANGED <<run, last, claims, job, events>>
  BY DEF Assemble, Bookkeeping, VarTypes
<1>2. \A v \in Worker : \A i \in DOMAIN events[v] :
          events[v][i].att <= attempts /\ events[v][i].att \in Nat
  BY EventsTyped DEF Bookkeeping, NoneAhead, Event
<1>3. \A v \in Worker : \A i \in DOMAIN events'[v] : ~EndsIt(events[v][i])'
  BY <1>1, <1>2 DEF EndsIt
<1>4. \A v \in Worker : \A i \in DOMAIN events[v] : events[v][i].kind # "artifact"
  BY <1>1, AtRest
<1>5. OneClaim' /\ OneJob'
  BY <1>1, AtRest DEF OneAttempt, OneClaim, OneJob
<1>6. OneEnd'
  BY <1>1, <1>3 DEF OneEnd
<1>7. EndIsLast'
  BY <1>1, <1>4 DEF EndIsLast, IsOf
<1> QED BY <1>5, <1>6, <1>7 DEF OneAttempt

LEMMA AssignOne ==
  ASSUME Bookkeeping, OneAttempt, NEW w \in Worker, Assign(w) PROVE OneAttempt'
<1>1. /\ pass # None /\ pass' = None /\ run' = "running" /\ last' = w
      /\ claims' = claims \cup {w} /\ UNCHANGED <<attempts, events>>
      /\ \A v \in Worker : v # w => job'[v] = job[v]
      /\ job'[w] # None => job'[w].att = attempts
  BY DEF Assign, Bookkeeping, VarTypes
<1>2. run # "running"
  BY <1>1 DEF OneAttempt, OneClaim
<1>3. claims = {} /\ \A v \in Worker : job[v] = None
  BY <1>2, AtRest
<1>4. \A v \in Worker : \A i \in DOMAIN events[v] : events[v][i].kind # "artifact"
  BY <1>2, AtRest
<1>5. \A v \in Worker : \A i \in DOMAIN events[v] : ~EndsIt(events[v][i])
  BY <1>1 DEF OneAttempt, OneEnd
<1>6. OneClaim' /\ OneJob'
  BY <1>1, <1>3 DEF OneClaim, OneJob
<1>7. OneEnd' /\ EndIsLast'
  BY <1>1, <1>4, <1>5 DEF OneEnd, EndIsLast, IsOf, EndsIt
<1> QED BY <1>6, <1>7 DEF OneAttempt

\* Who has the attempt's job is the row's worker, and has not reported its end.
LEMMA JobIsLive ==
  ASSUME OneAttempt, NEW w \in Worker, job[w] # None
  PROVE  /\ w = last /\ run = "running" /\ pass = None /\ job[w].att = attempts
         /\ \A v \in Worker : v # w => job[v] = None
         /\ \A v \in Worker : \A i \in DOMAIN events[v] : ~EndsIt(events[v][i])
         /\ \A v \in Worker : \A i \in DOMAIN events[v] : events[v][i].kind = "artifact" => v = w
BY DEF OneAttempt, OneJob, OneClaim, OneEnd, EndIsLast, IsOf

LEMMA WorkerStepOne ==
  ASSUME Bookkeeping, OneAttempt, NEW w \in Worker, WorkerStep(w) PROVE OneAttempt'
<1> USE DEF Bookkeeping
<1>1. /\ UNCHANGED <<run, last, claims, pass, grants, attempts>> /\ JobTypes(w)
  BY WorkerStepJob, WorkerStepElsewhere
<1>2. job[w] # None
  BY <1>1 DEF JobTypes
<1>3. OneClaim' /\ OneJob'
  BY <1>1, <1>2, JobIsLive DEF OneAttempt, OneClaim, OneJob, JobTypes
<1>4. CASE UNCHANGED events
  BY <1>1, <1>2, <1>3, <1>4, JobIsLive DEF OneAttempt, OneEnd, EndIsLast, IsOf, EndsIt
<1>5. ASSUME NEW e \in Event, Announce(w, e), e.att = attempts,
             e.kind = "artifact" => attempts \in grants,
             e.kind # "artifact" => job'[w] = None
      PROVE  OneAttempt'
  <2>1. ASSUME NEW v \in Worker, NEW i \in DOMAIN events'[v]
        PROVE  \/ i \in DOMAIN events[v] /\ events'[v][i] = events[v][i]
               \/ v = w /\ events'[v][i] = e /\ i = Len(events[w]) + 1
    BY <1>5, <2>1, Announced
  <2>2. OneEnd'
    BY <1>1, <1>2, <1>5, <2>1, JobIsLive DEF OneEnd, EndsIt
  <2>3. ASSUME NEW v \in Worker, NEW i \in DOMAIN events'[v] PROVE IsOf(v, events[v][i])'
    BY <1>1, <1>2, <1>5, <2>1, <2>3, JobIsLive DEF OneAttempt, EndIsLast, IsOf
  <2>4. ASSUME NEW v \in Worker, NEW i \in DOMAIN events'[v], events'[v][i].kind = "artifact",
               NEW j \in 1..i
        PROVE  ~EndsIt(events[v][j])'
    <3>1. j \in DOMAIN events'[v]
      <4>1. events'[v] \in Seq(Event)
        BY <1>5, Announced
      <4> QED BY <2>4, <4>1
    <3>2. \/ j \in DOMAIN events[v] /\ events'[v][j] = events[v][j]
          \/ v = w /\ events'[v][j] = e /\ j = Len(events[w]) + 1
      BY <2>1, <3>1
    <3>3. CASE j \in DOMAIN events[v] /\ events'[v][j] = events[v][j]
      BY <1>1, <1>2, <3>3, JobIsLive DEF EndsIt
    <3>4. CASE v = w /\ events'[v][j] = e /\ j = Len(events[w]) + 1
      <4>1. i = j
        BY <1>5, <2>4, <3>4, Announced
      <4> QED BY <2>4, <3>4, <4>1 DEF EndsIt
    <3> QED BY <3>2, <3>3, <3>4
  <2> QED BY <1>3, <2>2, <2>3, <2>4 DEF OneAttempt, EndIsLast
<1>6. job[w] \in Job /\ job[w].att = attempts /\ attempts \in Nat
  BY <1>2, JobIsLive DEF VarTypes
<1>7. ASSUME NEW s \in Step, Allowed(w), Announce(w, [kind |-> "artifact", step |-> s, att |-> job[w].att])
      PROVE  OneAttempt'
  <2> DEFINE e == [kind |-> "artifact", step |-> s, att |-> job[w].att]
  <2>1. e \in Event /\ e.att = attempts /\ e.kind = "artifact" /\ attempts \in grants
    BY <1>6, <1>7 DEF Event, Step, Allowed
  <2>2. Announce(w, e)
    BY <1>7
  <2> HIDE DEF e
  <2> QED BY <1>5, <2>1, <2>2
<1>8. ASSUME NEW code \in {"completed", "failed"}, Report(w),
             Announce(w, [kind |-> code, step |-> 0, att |-> job[w].att])
      PROVE  OneAttempt'
  <2> DEFINE e == [kind |-> code, step |-> 0, att |-> job[w].att]
  <2>1. e \in Event /\ e.att = attempts /\ e.kind # "artifact"
    BY <1>6, <1>8, LineageAssumption DEF Event, Terminal
  <2>2. Announce(w, e) /\ job'[w] = None
    BY <1>8 DEF Report, VarTypes
  <2> HIDE DEF e
  <2> QED BY <1>5, <2>1, <2>2
<1> QED BY <1>4, <1>7, <1>8, WorkerStepElsewhere

\* What is left to handle after one is what was there, one place further on.
LEMMA LeftOver ==
  ASSUME VarTypes, NEW w \in Worker, events[w] # <<>>, Handled(w)
  PROVE  \A v \in Worker : \A i \in DOMAIN events'[v] :
             /\ i \in Nat
             /\ v # w => i \in DOMAIN events[v] /\ events'[v][i] = events[v][i]
             /\ v = w => i + 1 \in DOMAIN events[v] /\ events'[v][i] = events[v][i + 1]
                         /\ 1 \in DOMAIN events[v] /\ 1 \in 1..(i + 1)
<1>1. ASSUME NEW v \in Worker, NEW i \in DOMAIN events'[v], v # w
      PROVE  i \in Nat /\ i \in DOMAIN events[v] /\ events'[v][i] = events[v][i]
  <2>1. events[v] \in Seq(Event)
    BY DEF VarTypes
  <2> QED BY <1>1, <2>1, HandledOne
<1> QED BY <1>1, HandledOne

LEMMA OnArtifactOne ==
  ASSUME Bookkeeping, OneAttempt, NEW w \in Worker, OnArtifact(w) PROVE OneAttempt'
<1> USE DEF Bookkeeping
<1>1. /\ events[w] # <<>> /\ Handled(w)
      /\ UNCHANGED <<run, last, claims, pass, grants, attempts, job>>
  BY DEF OnArtifact, hubVars
<1>2. OneClaim' /\ OneJob'
  BY <1>1 DEF OneAttempt, OneClaim, OneJob
<1>3. OneEnd'
  BY <1>1, LeftOver DEF OneAttempt, OneEnd, EndsIt
<1>4. ASSUME NEW v \in Worker, NEW i \in DOMAIN events'[v] PROVE IsOf(v, events[v][i])'
  BY <1>1, <1>4, LeftOver DEF OneAttempt, EndIsLast, IsOf
<1>5. ASSUME NEW v \in Worker, NEW i \in DOMAIN events'[v], events'[v][i].kind = "artifact",
             NEW j \in 1..i
      PROVE  ~EndsIt(events[v][j])'
  <2>1. events'[v] \in Seq(Event) /\ j \in DOMAIN events'[v]
    BY <1>1, <1>5, HandledOne
  <2>2. CASE v # w
    BY <1>1, <1>5, <2>1, <2>2, LeftOver DEF OneAttempt, EndIsLast, EndsIt
  <2>3. CASE v = w
    <3>1. /\ i + 1 \in DOMAIN events[v] /\ events[v][i + 1].kind = "artifact"
          /\ j + 1 \in 1..(i + 1) /\ events'[v][j] = events[v][j + 1]
      BY <1>1, <1>5, <2>1, <2>3, LeftOver
    <3> QED BY <1>1, <3>1 DEF OneAttempt, EndIsLast, EndsIt
  <2> QED BY <2>2, <2>3
<1> QED BY <1>2, <1>3, <1>4, <1>5 DEF OneAttempt, EndIsLast

LEMMA OnEndOne ==
  ASSUME Bookkeeping, OneAttempt, NEW w \in Worker, OnEnd(w), ~outlived'
  PROVE  /\ OneAttempt' /\ run' \in Terminal /\ w = last /\ pass = None
         /\ \A v \in Worker : job[v] = None
         /\ \A v \in Worker : \A i \in DOMAIN events'[v] : events'[v][i].kind # "artifact"
<1> USE DEF Bookkeeping
<1>1. /\ events[w] # <<>> /\ Handled(w) /\ Head(events[w]).kind # "artifact"
      /\ Head(events[w]).att = attempts
      /\ run' = Head(events[w]).kind /\ last' = w /\ claims' = claims \ {w}
      /\ UNCHANGED <<pass, attempts, job>>
  BY DEF OnEnd
<1>2. Head(events[w]) = events[w][1] /\ 1 \in DOMAIN events[w] /\ run' \in Terminal
  BY <1>1, HandledOne DEF Event
<1>3. EndsIt(events[w][1])
  BY <1>1, <1>2 DEF EndsIt
<1>4. w = last /\ job[w] = None /\ pass = None
  BY <1>2, <1>3 DEF OneAttempt, OneEnd
<1>5. \A v \in Worker : job[v] = None
  BY <1>4 DEF OneAttempt, OneJob
<1>6. ASSUME NEW v \in Worker, NEW i \in DOMAIN events'[v] PROVE events'[v][i].kind # "artifact"
  <2>1. CASE v # w
    BY <1>1, <1>4, <1>6, <2>1, LeftOver DEF OneAttempt, EndIsLast, IsOf
  <2>2. CASE v = w
    BY <1>1, <1>2, <1>3, <1>6, <2>2, LeftOver DEF OneAttempt, EndIsLast
  <2> QED BY <2>1, <2>2
<1>7. OneClaim' /\ OneJob'
  BY <1>1, <1>2, <1>4, <1>5 DEF OneAttempt, OneClaim, OneJob, Terminal
<1>8. OneEnd'
  BY <1>1, <1>4, <1>5, LeftOver DEF OneAttempt, OneEnd, EndsIt
<1>9. EndIsLast'
  BY <1>6 DEF EndIsLast, IsOf
<1> QED BY <1>2, <1>4, <1>5, <1>6, <1>7, <1>8, <1>9 DEF OneAttempt

LEMMA DropOne ==
  ASSUME Bookkeeping, OneAttempt, NEW w \in Worker, Drop(w), ~outlived'
  PROVE  /\ OneAttempt' /\ \A v \in Worker : job'[v] \in {None, job[v]}
         /\ UNCHANGED <<attempts, resume, pass, rows, hot, events>> /\ pass = None
         /\ UNCHANGED <<run, grants>> \/ run' = "queued"
<1> USE DEF Bookkeeping
<1>1. /\ pass = None /\ job' = IF w \in Persistent THEN job ELSE [job EXCEPT ![w] = None]
      /\ UNCHANGED <<last, pass, resume, attempts, events, rows, hot>>
  BY DEF Drop, storeVars
<1>2. \A v \in Worker : job'[v] \in {None, job[v]} /\ (v = w /\ w \notin Persistent => job'[v] = None)
  BY <1>1 DEF VarTypes
<1>3. CASE w \in claims \ Persistent
  <2>1. run' = "queued" /\ claims' = claims \ {w} /\ events[w] = <<>>
    BY <1>3 DEF Drop
  <2>2. claims = {last} /\ w = last
    BY <1>3 DEF OneAttempt, OneClaim
  <2>3. \A v \in Worker : job'[v] = None
    BY <1>2, <1>3, <2>2 DEF OneAttempt, OneJob
  <2>4. DOMAIN events[w] = {}
    BY <2>1
  <2>5. \A v \in Worker : \A i \in DOMAIN events[v] : events[v][i].kind # "artifact" /\ ~EndsIt(events[v][i])
    BY <2>2, <2>4 DEF OneAttempt, OneEnd, EndIsLast, IsOf
  <2>6. OneClaim' /\ OneJob'
    BY <2>1, <2>2, <2>3 DEF OneClaim, OneJob
  <2>7. OneEnd' /\ EndIsLast'
    BY <1>1, <2>5 DEF OneEnd, EndIsLast, IsOf, EndsIt
  <2> QED BY <1>1, <1>2, <2>1, <2>6, <2>7 DEF OneAttempt
<1>4. CASE w \notin claims \ Persistent
  <2>1. UNCHANGED <<run, claims, grants>>
    BY <1>4 DEF Drop
  <2> QED BY <1>1, <1>2, <2>1 DEF OneAttempt, OneClaim, OneJob, OneEnd, EndIsLast, IsOf, EndsIt
<1> QED BY <1>3, <1>4

LEMMA StopOne ==
  ASSUME Bookkeeping, OneAttempt, StopRun, ~outlived'
  PROVE  /\ OneAttempt' /\ \A v \in Worker : job'[v] \in {None, job[v]}
         /\ UNCHANGED <<attempts, pass, rows, hot>>
         /\ \/ /\ UNCHANGED <<run, resume, grants>> /\ last \in Worker
               /\ Announce(last, [kind |-> "cancelled", step |-> 0, att |-> attempts])
            \/ UNCHANGED events /\ run' = "cancelled" /\ grants' = {} /\ run # "running"
<1> USE DEF Bookkeeping
<1>1. UNCHANGED <<last, attempts, pass, rows, hot>>
  BY DEF StopRun, hubVars, storeVars
<1>2. CASE last \in link
  <2> DEFINE e == [kind |-> "cancelled", step |-> 0, att |-> attempts]
  <2>1. /\ last \in Worker /\ pass = None /\ job' = [job EXCEPT ![last] = None] /\ Announce(last, e)
        /\ UNCHANGED <<run, claims, grants, resume>>
    BY <1>2, LineageAssumption DEF StopRun, VarTypes, hubVars
  <2>2. e \in Event /\ e.kind # "artifact"
    BY LineageAssumption DEF Event, Terminal, VarTypes
  <2> HIDE DEF e
  <2>3. \A v \in Worker : job'[v] \in {None, job[v]} /\ (v = last => job'[v] = None)
    BY <2>1 DEF VarTypes
  <2>4. ASSUME NEW v \in Worker, NEW i \in DOMAIN events'[v]
        PROVE  \/ i \in DOMAIN events[v] /\ events'[v][i] = events[v][i]
               \/ v = last /\ events'[v][i] = e /\ i = Len(events[last]) + 1
    BY <2>1, <2>2, <2>4, Announced
  <2>5. OneClaim' /\ OneJob'
    BY <1>1, <2>1, <2>3 DEF OneAttempt, OneClaim, OneJob
  <2>6. OneEnd'
    BY <1>1, <2>1, <2>3, <2>4 DEF OneAttempt, OneEnd, EndsIt
  <2>7. ASSUME NEW v \in Worker, NEW i \in DOMAIN events'[v] PROVE IsOf(v, events[v][i])'
    BY <1>1, <2>1, <2>2, <2>4, <2>7 DEF OneAttempt, EndIsLast, IsOf
  <2>8. ASSUME NEW v \in Worker, NEW i \in DOMAIN events'[v], events'[v][i].kind = "artifact",
               NEW j \in 1..i
        PROVE  ~EndsIt(events[v][j])'
    <3>1. i \in DOMAIN events[v] /\ events[v][i].kind = "artifact"
      BY <2>2, <2>4, <2>8
    <3>2. j \in DOMAIN events[v] /\ events'[v][j] = events[v][j]
      <4>1. events[v] \in Seq(Event)
        BY DEF VarTypes
      <4>2. j \in DOMAIN events[v]
        BY <2>8, <3>1, <4>1
      <4> QED BY <2>1, <2>2, <4>2, Announced
    <3> QED BY <1>1, <2>8, <3>1, <3>2 DEF OneAttempt, EndIsLast, EndsIt
  <2> QED BY <1>1, <2>1, <2>3, <2>5, <2>6, <2>7, <2>8 DEF OneAttempt, EndIsLast, e
<1>3. CASE last \notin link
  <2>1. /\ run' = "cancelled" /\ claims' = claims \ {last} /\ grants' = {} /\ last \notin claims
        /\ UNCHANGED <<job, events>>
    BY <1>3 DEF StopRun
  <2>2. run # "running"
    BY <2>1 DEF OneAttempt, OneClaim
  <2>3. claims = {} /\ \A w \in Worker : job[w] = None
        /\ \A i \in DOMAIN events[w] : events[w][i].kind # "artifact"
    BY <2>2, AtRest
  <2>4. OneClaim' /\ OneJob'
    BY <2>1, <2>3 DEF OneClaim, OneJob
  <2>5. OneEnd' /\ EndIsLast'
    BY <1>1, <2>1, <2>3 DEF OneAttempt, OneEnd, EndIsLast, IsOf, EndsIt
  <2> QED BY <1>1, <2>1, <2>2, <2>4, <2>5 DEF OneAttempt
<1> QED BY <1>2, <1>3

-----------------------------------------------------------------------------
(***************************************************************************)
(* Where the weights come from.                                            *)
(***************************************************************************)

LEMMA InitLineageInv == Init => LineageInv
<1> SUFFICES ASSUME Init PROVE LineageInv
  OBVIOUS
<1>1. /\ \A w \in Worker : job[w] = None /\ DOMAIN events[w] = {}
      /\ Recorded = {} /\ \A s \in Step : hot[s] = None
      /\ pass = None /\ run = "queued"
  BY DEF Init, LineageInit, Recorded
<1>2. PassFrom /\ Remembers /\ HotIsRecorded /\ RowsAreTrue
  BY <1>1 DEF PassFrom, Remembers, HotIsRecorded, RowsAreTrue
<1>3. JobFrom
  BY <1>1 DEF JobFrom
<1>4. ArtifactsAreNew
  BY <1>1 DEF ArtifactsAreNew, Awaits
<1> QED BY <1>2, <1>3, <1>4, InitOneAttempt DEF LineageInv

\* A step that leaves the rows alone leaves true what they say.
LEMMA QuietRows ==
  ASSUME LineageInv, UNCHANGED rows
  PROVE  RowsAreTrue' /\ Recorded' = Recorded /\ (UNCHANGED hot => HotIsRecorded')
BY DEF LineageInv, RowsAreTrue, HotIsRecorded, Recorded, Descends

\* With no job and no artifact waiting there is nothing to go wrong.
LEMMA RestHasNothing ==
  ASSUME \A w \in Worker : job'[w] = None,
         \A w \in Worker : \A i \in DOMAIN events'[w] : events'[w][i].kind # "artifact"
  PROVE  JobFrom' /\ ArtifactsAreNew'
<1>1. JobFrom'
  BY DEF JobFrom
<1>2. \A w \in Worker : \A s \in Step : ~Awaits(w, s)'
  BY DEF Awaits
<1> QED BY <1>1, <1>2 DEF ArtifactsAreNew

LEMMA AssembleLineage ==
  ASSUME Bookkeeping, LineageInv, NEW w \in Worker, Assemble(w) PROVE LineageInv'
<1>1. /\ run = "queued" /\ pass' = [worker |-> w, from |-> Latest] /\ attempts' = attempts + 1
      /\ resume' = ResumePoint /\ UNCHANGED <<run, job, events, rows, hot>>
  BY DEF Assemble, storeVars
<1>2. OneAttempt' /\ \A v \in Worker : job[v] = None
      /\ \A i \in DOMAIN events[v] : events[v][i].kind # "artifact"
  BY <1>1, AssembleOne, AtRest DEF LineageInv
<1>3. RowsAreTrue' /\ HotIsRecorded' /\ JobFrom' /\ ArtifactsAreNew' /\ Recorded' = Recorded
  BY <1>1, <1>2, QuietRows, RestHasNothing
<1>4. /\ resume' # None /\ resume'.from = Latest /\ pass'.from = Latest
      /\ resume'.slices = IF Latest = 0 THEN <<>> ELSE rows[Latest].slices
  <2>1. resume' \in Memory
    BY AssembleTypes, LatestIsLatest, LineageAssumption, <1>1, EmptySeq
       DEF ResumePoint, Fresh, Memory, History, Recorded, Bookkeeping, VarTypes, Row
  <2> QED BY <1>1, <2>1, LineageAssumption DEF ResumePoint, Fresh
<1>5. Latest \in Recorded \cup {0} /\ (\A s \in Recorded : s <= Latest) /\ Latest \in Int
      /\ Recorded \subseteq Int
  BY LatestIsLatest DEF Recorded, Step
<1>6. PassFrom'
  BY <1>3, <1>4, <1>5 DEF PassFrom, From
<1>7. Remembers'
  BY <1>1, <1>3, <1>4, <1>5 DEF Remembers, From
<1> QED BY <1>2, <1>3, <1>6, <1>7 DEF LineageInv

LEMMA AssignLineage ==
  ASSUME Bookkeeping, LineageInv, NEW w \in Worker, Assign(w) PROVE LineageInv'
<1> DEFINE new == [att |-> attempts, stage |-> "staging", from |-> pass.from, at |-> pass.from,
                   base |-> <<>>, saved |-> {}, collected |-> {}]
<1>1. /\ pass # None /\ pass' = None /\ run' = "running" /\ job' = [job EXCEPT ![w] = new]
      /\ UNCHANGED <<resume, grants, attempts, events, rows, hot>>
  BY DEF Assign, storeVars
<1>2. OneAttempt' /\ run # "running"
  BY <1>1, AssignOne DEF LineageInv, OneAttempt, OneClaim
<1>3. /\ \A v \in Worker : job[v] = None
      /\ \A v \in Worker : \A i \in DOMAIN events[v] : events[v][i].kind # "artifact"
  BY <1>2, AtRest DEF LineageInv
<1>4. RowsAreTrue' /\ HotIsRecorded' /\ Recorded' = Recorded
  BY <1>1, QuietRows
<1>5. PassFrom' /\ Remembers'
  BY <1>1, <1>4 DEF LineageInv, PassFrom, Remembers, From, Trained
<1>6. ArtifactsAreNew'
  BY <1>1, <1>3 DEF ArtifactsAreNew, Awaits
<1>7. JobFrom'
  <2>1. /\ new.saved = {} /\ new.collected = {} /\ new.from = pass.from /\ new.at = pass.from
        /\ new.stage = "staging" /\ pass.from \in Int
    BY <1>1 DEF Bookkeeping, VarTypes, Pass
  <2>2. job'[w] = new /\ \A v \in Worker : v # w => job'[v] = None
    BY <1>1, <1>3 DEF Bookkeeping, VarTypes
  <2>3. /\ pass.from \in Recorded \cup {0} /\ \A s \in Recorded : s <= pass.from
        /\ attempts \in grants => From = pass.from
    BY <1>1 DEF LineageInv, PassFrom
  <2>4. Recorded \subseteq Int
    BY DEF Recorded, Step
  <2> HIDE DEF new
  <2>5. From' = From
    BY <1>1 DEF From
  <2> QED BY <1>1, <1>4, <2>1, <2>2, <2>3, <2>4, <2>5 DEF JobFrom
<1> QED BY <1>2, <1>4, <1>5, <1>6, <1>7 DEF LineageInv

LEMMA OnEndLineage ==
  ASSUME Bookkeeping, LineageInv, NEW w \in Worker, OnEnd(w), ~outlived' PROVE LineageInv'
<1>1. UNCHANGED <<rows, hot, job, pass>>
  BY DEF OnEnd, storeVars
<1>2. /\ OneAttempt' /\ run' # "running" /\ pass' = None /\ \A v \in Worker : job'[v] = None
      /\ \A v \in Worker : \A i \in DOMAIN events'[v] : events'[v][i].kind # "artifact"
  BY <1>1, OnEndOne DEF LineageInv, Terminal
<1> QED BY <1>1, <1>2, QuietRows, RestHasNothing DEF LineageInv, PassFrom, Remembers

\* Losing its job leaves of a worker what it announced.
LEMMA JobsLost ==
  ASSUME LineageInv, \A w \in Worker : job'[w] \in {None, job[w]},
         UNCHANGED <<resume, attempts, rows, hot>>, grants' = grants,
         \A w \in Worker : \A i \in DOMAIN events'[w] :
             events'[w][i].kind = "artifact" =>
                 i \in DOMAIN events[w] /\ events'[w][i] = events[w][i]
  PROVE  JobFrom' /\ ArtifactsAreNew'
<1>1. From' = From /\ Recorded' = Recorded /\ \A s \in Step : Trained(s)' = Trained(s)
  BY DEF From, Recorded, Trained
<1>2. JobFrom'
  BY <1>1 DEF LineageInv, JobFrom
<1>3. \A w \in Worker : \A s \in Step : Awaits(w, s)' => Awaits(w, s)
  BY DEF Awaits
<1>4. ArtifactsAreNew'
  BY <1>1, <1>3 DEF LineageInv, ArtifactsAreNew
<1> QED BY <1>2, <1>4

LEMMA DropLineage ==
  ASSUME Bookkeeping, LineageInv, NEW w \in Worker, Drop(w), ~outlived' PROVE LineageInv'
<1>1. /\ OneAttempt' /\ \A v \in Worker : job'[v] \in {None, job[v]}
      /\ UNCHANGED <<attempts, resume, pass, rows, hot, events>> /\ pass = None
      /\ UNCHANGED <<run, grants>> \/ run' = "queued"
  BY DropOne DEF LineageInv
<1>2. RowsAreTrue' /\ HotIsRecorded' /\ PassFrom'
  BY <1>1, QuietRows DEF PassFrom
<1>3. CASE UNCHANGED <<run, grants>>
  <2>1. JobFrom' /\ ArtifactsAreNew'
    BY <1>1, <1>3, JobsLost
  <2>2. Remembers'
    BY <1>1, <1>3 DEF LineageInv, Remembers, Recorded, From, Trained
  <2> QED BY <1>1, <1>2, <2>1, <2>2 DEF LineageInv
<1>4. CASE run' = "queued"
  <2>1. /\ \A v \in Worker : job'[v] = None
        /\ \A v \in Worker : \A i \in DOMAIN events'[v] : events'[v][i].kind # "artifact"
    BY <1>1, <1>4 DEF OneAttempt, OneJob, EndIsLast, IsOf
  <2>2. JobFrom' /\ ArtifactsAreNew'
    BY <2>1, RestHasNothing
  <2>3. Remembers'
    BY <1>1, <1>4 DEF Remembers
  <2> QED BY <1>1, <1>2, <2>2, <2>3 DEF LineageInv
<1> QED BY <1>1, <1>3, <1>4

LEMMA StopLineage ==
  ASSUME Bookkeeping, LineageInv, StopRun, ~outlived' PROVE LineageInv'
<1>1. /\ OneAttempt' /\ \A v \in Worker : job'[v] \in {None, job[v]}
      /\ UNCHANGED <<attempts, pass, rows, hot>>
      /\ \/ /\ UNCHANGED <<run, resume, grants>> /\ last \in Worker
            /\ Announce(last, [kind |-> "cancelled", step |-> 0, att |-> attempts])
         \/ UNCHANGED events /\ run' = "cancelled" /\ grants' = {} /\ run # "running"
  BY StopOne DEF LineageInv
<1>2. RowsAreTrue' /\ HotIsRecorded' /\ Recorded' = Recorded
  BY <1>1, QuietRows
<1>3. ASSUME UNCHANGED <<run, resume, grants>>, last \in Worker,
             Announce(last, [kind |-> "cancelled", step |-> 0, att |-> attempts])
      PROVE  LineageInv'
  <2> DEFINE e == [kind |-> "cancelled", step |-> 0, att |-> attempts]
  <2>1. e \in Event /\ e.kind # "artifact" /\ Announce(last, e)
    BY <1>3, LineageAssumption DEF Event, Terminal, Bookkeeping, VarTypes
  <2> HIDE DEF e
  <2>2. \A v \in Worker : \A i \in DOMAIN events'[v] :
            events'[v][i].kind = "artifact" => i \in DOMAIN events[v] /\ events'[v][i] = events[v][i]
    BY <1>3, <2>1, Announced DEF Bookkeeping
  <2>3. JobFrom' /\ ArtifactsAreNew'
    BY <1>1, <1>3, <2>2, JobsLost
  <2>4. PassFrom' /\ Remembers'
    BY <1>1, <1>2, <1>3 DEF LineageInv, PassFrom, Remembers, From, Trained
  <2> QED BY <1>1, <1>2, <2>3, <2>4 DEF LineageInv
<1>4. CASE UNCHANGED events /\ run' = "cancelled" /\ grants' = {} /\ run # "running"
  <2>1. /\ \A v \in Worker : job'[v] = None
        /\ \A v \in Worker : \A i \in DOMAIN events'[v] : events'[v][i].kind # "artifact"
    BY <1>1, <1>4, AtRest DEF LineageInv
  <2>2. JobFrom' /\ ArtifactsAreNew'
    BY <2>1, RestHasNothing
  <2>3. PassFrom' /\ Remembers'
    BY <1>1, <1>2, <1>4 DEF LineageInv, PassFrom, Remembers
  <2> QED BY <1>1, <1>2, <2>2, <2>3 DEF LineageInv
<1> QED BY <1>1, <1>3, <1>4

LEMMA ResumeLineage ==
  ASSUME Bookkeeping, LineageInv, ResumeRun PROVE LineageInv'
<1>1. /\ run # "running" /\ run' = "queued"
      /\ UNCHANGED <<last, claims, pass, resume, grants, attempts, job, events, rows, hot>>
  BY DEF ResumeRun, Terminal, storeVars
<1>2. /\ claims = {} /\ \A w \in Worker : job[w] = None
      /\ \A w \in Worker : \A i \in DOMAIN events[w] : events[w][i].kind # "artifact"
  BY <1>1, AtRest DEF LineageInv
<1>3. RowsAreTrue' /\ HotIsRecorded' /\ JobFrom' /\ ArtifactsAreNew' /\ Recorded' = Recorded
  BY <1>1, <1>2, QuietRows, RestHasNothing
<1>4. PassFrom' /\ Remembers'
  BY <1>1, <1>3 DEF LineageInv, PassFrom, Remembers, From, Trained
<1>5. OneAttempt'
  BY <1>1, <1>2 DEF LineageInv, OneAttempt, OneClaim, OneJob, OneEnd, EndIsLast, IsOf, EndsIt
<1> QED BY <1>3, <1>4, <1>5 DEF LineageInv

LEMMA RestartLineage ==
  ASSUME Bookkeeping, LineageInv, HubRestart, ~outlived' PROVE LineageInv'
<1>1. /\ run # "running" /\ pass' = None /\ grants' = {}
      /\ job' = [w \in Worker |-> IF w \in Persistent THEN job[w] ELSE None]
      /\ UNCHANGED <<run, last, claims, attempts, events, rows, hot>>
  BY DEF HubRestart, Restart, storeVars
<1>2. /\ claims = {} /\ \A w \in Worker : job'[w] = None
      /\ \A w \in Worker : \A i \in DOMAIN events[w] : events[w][i].kind # "artifact"
  BY <1>1, AtRest DEF LineageInv
<1>3. RowsAreTrue' /\ HotIsRecorded' /\ JobFrom' /\ ArtifactsAreNew'
  BY <1>1, <1>2, QuietRows, RestHasNothing
<1>4. PassFrom' /\ Remembers'
  BY <1>1 DEF PassFrom, Remembers
<1>5. OneAttempt'
  BY <1>1, <1>2 DEF LineageInv, OneAttempt, OneClaim, OneJob, OneEnd, EndIsLast, IsOf, EndsIt
<1> QED BY <1>3, <1>4, <1>5 DEF LineageInv

\* An object that is gone, or a row that is stored elsewhere, changes nothing.
LEMMA StorageKeepsLineage ==
  ASSUME LineageInv, RowsKept,
         UNCHANGED <<run, last, claims, job, events, pass, resume, grants, attempts>>,
         \A s \in Step : hot'[s] # None => hot'[s] = hot[s]
  PROVE  LineageInv'
<1>1. /\ Recorded' = Recorded /\ From' = From /\ \A s \in Step : Trained(s)' = Trained(s)
      /\ Recorded \subseteq Step
  BY KeptRecorded DEF From, Trained, Recorded
<1>2. \A s \in Recorded : rows'[s].weights = rows[s].weights /\ rows'[s].slices = rows[s].slices
                          /\ rows'[s].parent = rows[s].parent
  BY <1>1 DEF RowsKept, Recorded
<1>3. \A s, p \in Recorded : Descends(s, p)' <=> Descends(s, p)
  BY <1>2 DEF Descends
<1>4. RowsAreTrue'
  BY <1>1, <1>2, <1>3 DEF LineageInv, RowsAreTrue
<1>5. HotIsRecorded'
  BY <1>1, <1>2 DEF LineageInv, HotIsRecorded
<1>6. PassFrom' /\ Remembers'
  BY <1>1, <1>2 DEF LineageInv, PassFrom, Remembers
<1>7. JobFrom'
  BY <1>1 DEF LineageInv, JobFrom
<1>8. ArtifactsAreNew'
  BY <1>1 DEF LineageInv, ArtifactsAreNew, Awaits
<1>9. OneAttempt'
  BY DEF LineageInv, OneAttempt, OneClaim, OneJob, OneEnd, EndIsLast, IsOf, EndsIt
<1> QED BY <1>4, <1>5, <1>6, <1>7, <1>8, <1>9 DEF LineageInv

LEMMA QuietJobs ==
  ASSUME LineageInv, UNCHANGED <<run, pass, resume, grants, attempts, rows>>
  PROVE  /\ RowsAreTrue' /\ PassFrom' /\ Remembers' /\ Recorded' = Recorded
         /\ From' = From /\ \A s \in Step : Trained(s)' = Trained(s)
<1>1. RowsAreTrue' /\ Recorded' = Recorded
  BY QuietRows
<1>2. From' = From /\ \A s \in Step : Trained(s)' = Trained(s)
  BY DEF From, Trained
<1>3. PassFrom' /\ Remembers'
  BY <1>1, <1>2 DEF LineageInv, PassFrom, Remembers, Recorded
<1> QED BY <1>1, <1>2, <1>3

\* Inputs staged under a live grant are the weights the hub remembers.
LEMMA StageLineage ==
  ASSUME Bookkeeping, LineageInv, NEW w \in Worker, Stage(w) PROVE LineageInv'
<1> DEFINE from == job[w].from
           base == IF from = 0 THEN <<>> ELSE hot[from].weights
           new == [att |-> job[w].att, stage |-> "training", from |-> from, at |-> from,
                   base |-> base, saved |-> {}, collected |-> {}]
<1>1. /\ job[w] # None /\ job[w].stage = "staging"
      /\ UNCHANGED <<run, pass, resume, grants, attempts, rows, hot, events>>
      /\ WorkerStep(w)
  BY DEF Stage, In, hubVars, storeVars, WorkerStep
<1>2. /\ job[w] \in Job /\ w = last /\ run = "running" /\ job[w].att = attempts
      /\ \A v \in Worker : v # w => job[v] = None
      /\ \A v \in Worker : \A i \in DOMAIN events[v] : events[v][i].kind = "artifact" => v = w
  BY <1>1, JobIsLive DEF LineageInv, Bookkeeping, VarTypes
<1>3. OneAttempt' /\ RowsAreTrue' /\ PassFrom' /\ Remembers' /\ HotIsRecorded' /\ Recorded' = Recorded
      /\ From' = From /\ \A s \in Step : Trained(s)' = Trained(s)
  BY <1>1, WorkerStepOne, QuietJobs, QuietRows DEF LineageInv
<1>4. /\ job[w].collected \subseteq job[w].saved /\ from \in Recorded \cup {0}
      /\ \A s \in Recorded : s > from => s \in job[w].collected
      /\ attempts \in grants => From = from /\ job[w].saved = {}
  BY <1>1 DEF LineageInv, JobFrom
<1>5. CASE Allowed(w) /\ (from # 0 => hot[from] # None)
  <2>1. job' = [job EXCEPT ![w] = new] /\ attempts \in grants
    BY <1>2, <1>5 DEF Stage, Allowed
  <2>2. base = resume.slices
    <3>1. From = from /\ resume.slices = IF From = 0 THEN <<>> ELSE rows[From].slices
      BY <1>2, <1>4, <2>1 DEF LineageInv, Remembers
    <3>2. CASE from # 0
      <4>1. from \in Recorded /\ from \in Step /\ hot[from] # None
        BY <1>4, <1>5, <3>2 DEF Recorded
      <4>2. hot[from].weights = rows[from].weights /\ rows[from].slices = rows[from].weights
        BY <4>1 DEF LineageInv, HotIsRecorded, RowsAreTrue
      <4> QED BY <3>1, <3>2, <4>2
    <3> QED BY <3>1, <3>2
  <2>3. /\ new.saved = {} /\ new.collected = {} /\ new.from = from /\ new.at = from
        /\ new.stage = "training" /\ new.base = base /\ from \in Int
    BY <1>2 DEF Job
  <2>4. job'[w] = new /\ \A v \in Worker : v # w => job'[v] = None
    BY <1>2, <2>1 DEF Bookkeeping, VarTypes
  <2>5. ~ \E s \in Recorded : s > from
    BY <1>4, <2>1
  <2> HIDE DEF new, base
  <2>6. JobFrom'
    BY <1>1, <1>3, <1>4, <2>1, <2>2, <2>3, <2>4, <2>5 DEF JobFrom
  <2>7. ArtifactsAreNew'
    <3>1. \A s \in Step : ~Awaits(w, s)
      BY <1>1, <1>4, <2>1 DEF LineageInv, ArtifactsAreNew
    <3>2. \A v \in Worker, s \in Step : Awaits(v, s) => v = w
      BY <1>2 DEF Awaits
    <3>3. \A v \in Worker, s \in Step : ~Awaits(v, s)'
      BY <1>1, <3>1, <3>2 DEF Awaits
    <3> QED BY <1>1, <3>3 DEF LineageInv, ArtifactsAreNew
  <2> QED BY <1>3, <2>6, <2>7 DEF LineageInv
<1>6. CASE ~(Allowed(w) /\ (from # 0 => hot[from] # None))
  <2>1. job' = [job EXCEPT ![w].stage = "failed"]
    BY <1>6 DEF Stage
  <2>2. /\ job'[w] # None
        /\ job'[w].saved = job[w].saved /\ job'[w].collected = job[w].collected
        /\ job'[w].from = job[w].from /\ job'[w].at = job[w].at /\ job'[w].stage = "failed"
        /\ \A v \in Worker : v # w => job'[v] = None
    <3>1. [job[w] EXCEPT !.stage = "failed"] \in Job
      BY <1>2 DEF Job
    <3> QED BY <1>2, <2>1, <3>1, LineageAssumption DEF Bookkeeping, VarTypes, Job
  <2>3. JobFrom'
    BY <1>1, <1>3, <1>4, <2>2 DEF LineageInv, JobFrom
  <2>4. ArtifactsAreNew'
    BY <1>1, <1>2, <1>3, <2>2 DEF LineageInv, ArtifactsAreNew, Awaits
  <2> QED BY <1>3, <2>3, <2>4 DEF LineageInv
<1> QED BY <1>5, <1>6

LEMMA TrainLineage ==
  ASSUME Bookkeeping, LineageInv, NEW w \in Worker, Train(w) \/ Exit(w) PROVE LineageInv'
<1>1. /\ job[w] # None /\ job[w].stage = "training"
      /\ UNCHANGED <<run, pass, resume, grants, attempts, rows, hot, events>> /\ WorkerStep(w)
  BY DEF Train, Exit, In, hubVars, storeVars, WorkerStep
<1>2. /\ job[w] \in Job /\ \A v \in Worker : v # w => job[v] = None
  BY <1>1, JobIsLive DEF LineageInv, Bookkeeping, VarTypes
<1>3. OneAttempt' /\ RowsAreTrue' /\ PassFrom' /\ Remembers' /\ HotIsRecorded' /\ Recorded' = Recorded
      /\ From' = From /\ \A s \in Step : Trained(s)' = Trained(s)
  BY <1>1, WorkerStepOne, QuietJobs, QuietRows DEF LineageInv
<1>4. ASSUME NEW new \in Job, job' = [job EXCEPT ![w] = new],
             new.from = job[w].from, new.base = job[w].base, new.collected = job[w].collected,
             new.at \in {job[w].at, job[w].at + 1}, new.stage # "staging",
             new.saved = job[w].saved \/ new.saved = job[w].saved \cup {new.at},
             new.saved # job[w].saved => new.at = job[w].at + 1
      PROVE  LineageInv'
  <2>1. job'[w] = new /\ new # None /\ \A v \in Worker : v # w => job'[v] = None
    BY <1>2, <1>4, LineageAssumption DEF Bookkeeping, VarTypes
  <2>2. job[w].at \in Int /\ job[w].from \in Int /\ job[w].from <= job[w].at
        /\ job[w].saved \subseteq Int
    BY <1>1, <1>2 DEF LineageInv, JobFrom, Job, Step
  <2>3. JobFrom'
    BY <1>1, <1>3, <1>4, <2>1, <2>2 DEF LineageInv, JobFrom
  <2>4. ArtifactsAreNew'
    BY <1>1, <1>3, <1>4, <2>1 DEF LineageInv, ArtifactsAreNew, Awaits
  <2> QED BY <1>3, <2>3, <2>4 DEF LineageInv
<1>5. CASE Train(w)
  <2>1. PICK saves \in BOOLEAN : job' = [job EXCEPT ![w] =
            [att |-> @.att, stage |-> "training", from |-> @.from, at |-> @.at + 1,
             base |-> @.base, saved |-> @.saved \cup {s \in {@.at + 1} : saves},
             collected |-> @.collected]]
    BY <1>5 DEF Train
  <2> DEFINE next == job[w].at + 1
             new == [att |-> job[w].att, stage |-> "training", from |-> job[w].from, at |-> next,
                     base |-> job[w].base, saved |-> job[w].saved \cup {s \in {next} : saves},
                     collected |-> job[w].collected]
  <2>2. next \in 0..MaxStep /\ next \in Step
    BY <1>2, <1>5, LineageAssumption DEF Train, Step, Job
  <2>3. new \in Job
    BY <1>2, <2>2 DEF Job
  <2>4. job' = [job EXCEPT ![w] = new]
    BY <2>1
  <2>5. /\ new.from = job[w].from /\ new.base = job[w].base /\ new.collected = job[w].collected
        /\ new.at = job[w].at + 1 /\ new.stage # "staging"
        /\ new.saved = job[w].saved \/ new.saved = job[w].saved \cup {new.at}
    OBVIOUS
  <2> HIDE DEF new
  <2> QED BY <1>4, <2>3, <2>4, <2>5
<1>6. CASE Exit(w)
  <2>1. PICK code \in {"completed", "failed"} : job' = [job EXCEPT ![w].stage = code]
    BY <1>6 DEF Exit
  <2> DEFINE new == [job[w] EXCEPT !.stage = code]
  <2>2. /\ new \in Job
        /\ new.from = job[w].from /\ new.base = job[w].base /\ new.collected = job[w].collected
        /\ new.at = job[w].at /\ new.stage # "staging" /\ new.saved = job[w].saved
    BY <1>2 DEF Job
  <2>3. job' = [job EXCEPT ![w] = new]
    BY <2>1
  <2> HIDE DEF new
  <2> QED BY <1>4, <2>2, <2>3
<1> QED BY <1>5, <1>6

LEMMA ReportLineage ==
  ASSUME Bookkeeping, LineageInv, NEW w \in Worker, Report(w) PROVE LineageInv'
<1>1. /\ UNCHANGED <<run, pass, resume, grants, attempts, rows, hot>> /\ WorkerStep(w)
      /\ job' = [job EXCEPT ![w] = None] /\ job[w] # None
      /\ job[w].stage \in {"completed", "failed"}
      /\ Announce(w, [kind |-> job[w].stage, step |-> 0, att |-> job[w].att])
  BY DEF Report, Ended, In, hubVars, storeVars, WorkerStep
<1> DEFINE e == [kind |-> job[w].stage, step |-> 0, att |-> job[w].att]
<1>2. e \in Event /\ e.kind # "artifact"
  BY <1>1, LineageAssumption DEF Event, Bookkeeping, VarTypes, Job, Terminal
<1>3. Announce(w, e)
  BY <1>1
<1> HIDE DEF e
<1>4. \A v \in Worker : \A i \in DOMAIN events'[v] :
          events'[v][i].kind = "artifact" => i \in DOMAIN events[v] /\ events'[v][i] = events[v][i]
  BY <1>2, <1>3, Announced DEF Bookkeeping
<1>5. \A v \in Worker : job'[v] \in {None, job[v]}
  BY <1>1 DEF Bookkeeping, VarTypes
<1>6. JobFrom' /\ ArtifactsAreNew'
  BY <1>1, <1>4, <1>5, JobsLost
<1>7. OneAttempt' /\ RowsAreTrue' /\ PassFrom' /\ Remembers' /\ HotIsRecorded'
  BY <1>1, WorkerStepOne, QuietJobs, QuietRows DEF LineageInv
<1> QED BY <1>6, <1>7 DEF LineageInv

\* What is uploaded was trained from the resume point and is not recorded yet.
LEMMA CollectLineage ==
  ASSUME Bookkeeping, LineageInv, NEW w \in Worker, Collect(w)
  PROVE  LineageInv' /\ \A s \in Recorded : hot'[s] = hot[s]
<1>1. /\ job[w] # None /\ job[w].stage # "staging"
      /\ UNCHANGED <<run, pass, resume, grants, attempts, rows>> /\ WorkerStep(w)
  BY DEF Collect, In, Ended, hubVars, WorkerStep
<1>2. /\ job[w] \in Job /\ job[w].att = attempts /\ run = "running"
      /\ \A v \in Worker : v # w => job[v] = None
      /\ \A v \in Worker : \A i \in DOMAIN events[v] : events[v][i].kind = "artifact" => v = w
  BY <1>1, JobIsLive DEF LineageInv, Bookkeeping, VarTypes
<1>3. OneAttempt' /\ RowsAreTrue' /\ PassFrom' /\ Remembers' /\ Recorded' = Recorded
      /\ From' = From /\ \A t \in Step : Trained(t)' = Trained(t)
  BY <1>1, WorkerStepOne, QuietJobs DEF LineageInv
<1>4. PICK s \in NextPending(w) :
         /\ job' = [job EXCEPT ![w].collected = @ \cup {s}]
         /\ \/ /\ Allowed(w)
               /\ hot' = [hot EXCEPT ![s] = [weights |-> WeightsAt(w, s), parent |-> None]]
               /\ Announce(w, [kind |-> "artifact", step |-> s, att |-> job[w].att])
            \/ /\ Allowed(w) /\ UNCHANGED events
               /\ \/ hot' = [hot EXCEPT ![s] = [weights |-> WeightsAt(w, s), parent |-> None]]
                  \/ hot' = hot
            \/ UNCHANGED <<hot, events>>
  BY DEF Collect
<1>5. s \in job[w].saved /\ s \notin job[w].collected /\ s \in Step /\ s > job[w].from
  BY <1>1, <1>2, <1>4 DEF NextPending, Pending, Job, LineageInv, JobFrom
<1>6. s \notin Recorded
  BY <1>1, <1>5 DEF LineageInv, JobFrom
<1>7. Allowed(w) => From = job[w].from /\ WeightsAt(w, s) = Trained(s)
  BY <1>1, <1>2, <1>5 DEF LineageInv, JobFrom, Allowed, WeightsAt, Trained
<1>8. /\ job'[w] # None /\ job'[w].collected = job[w].collected \cup {s}
      /\ job'[w].saved = job[w].saved /\ job'[w].from = job[w].from /\ job'[w].at = job[w].at
      /\ job'[w].stage = job[w].stage /\ job'[w].base = job[w].base
      /\ \A v \in Worker : v # w => job'[v] = None
  <2>1. [job[w] EXCEPT !.collected = @ \cup {s}] \in Job
    BY <1>2, <1>5 DEF Job
  <2> QED BY <1>2, <1>4, <2>1, LineageAssumption DEF Bookkeeping, VarTypes, Job
<1>9. JobFrom'
  BY <1>1, <1>3, <1>5, <1>8 DEF LineageInv, JobFrom
<1>10. /\ \A t \in Step : t # s => hot'[t] = hot[t]
       /\ \/ UNCHANGED hot
          \/ hot'[s].weights = Trained(s) /\ hot'[s].parent = None
  BY <1>4, <1>5, <1>7 DEF Bookkeeping, VarTypes
<1>11. HotIsRecorded' /\ \A t \in Recorded : hot'[t] = hot[t]
  BY <1>1, <1>3, <1>6, <1>10 DEF LineageInv, HotIsRecorded, Recorded
<1>12. ~Awaits(w, s)
  BY <1>1, <1>5 DEF LineageInv, ArtifactsAreNew
<1>13. CASE UNCHANGED events
  <2>1. \A v \in Worker, t \in Step : Awaits(v, t)' => Awaits(v, t) /\ v = w /\ t # s
    BY <1>2, <1>12, <1>13 DEF Awaits
  <2>2. ASSUME NEW v \in Worker, NEW t \in Step, Awaits(v, t)'
        PROVE  /\ t > From /\ t \notin Recorded
               /\ hot'[t] # None => hot'[t].weights = Trained(t)
               /\ job'[v] # None => t \in job'[v].collected
    <3>1. Awaits(w, t) /\ v = w /\ t # s
      BY <2>1, <2>2
    <3>2. /\ t > From /\ t \notin Recorded /\ t \in job[w].collected
          /\ hot[t] # None => hot[t].weights = Trained(t)
      BY <1>1, <3>1 DEF LineageInv, ArtifactsAreNew
    <3> QED BY <1>8, <1>10, <3>1, <3>2
  <2>3. \A v \in Worker : \A i, j \in DOMAIN events[v] :
            events[v][i].kind = "artifact" /\ events[v][j].kind = "artifact"
                /\ events[v][i].step = events[v][j].step => i = j
    BY DEF LineageInv, ArtifactsAreNew
  <2>4. ArtifactsAreNew'
    BY <1>3, <1>13, <2>2, <2>3 DEF ArtifactsAreNew
  <2> QED BY <1>3, <1>9, <1>11, <2>4 DEF LineageInv
<1>14. ASSUME Allowed(w), hot' = [hot EXCEPT ![s] = [weights |-> WeightsAt(w, s), parent |-> None]],
              Announce(w, [kind |-> "artifact", step |-> s, att |-> job[w].att])
       PROVE  LineageInv'
  <2> DEFINE e == [kind |-> "artifact", step |-> s, att |-> job[w].att]
  <2>1. e \in Event /\ e.kind = "artifact" /\ e.step = s
    BY <1>2, <1>5 DEF Event, Job, Step
  <2>2. Announce(w, e)
    BY <1>14
  <2> HIDE DEF e
  <2>3. ASSUME NEW v \in Worker, NEW i \in DOMAIN events'[v]
        PROVE  \/ i \in DOMAIN events[v] /\ events'[v][i] = events[v][i]
               \/ v = w /\ events'[v][i] = e /\ i = Len(events[w]) + 1
    BY <2>1, <2>2, <2>3, Announced DEF Bookkeeping
  <2>4. ASSUME NEW v \in Worker, NEW t \in Step, Awaits(v, t)'
        PROVE  v = w /\ (t = s \/ Awaits(v, t))
    BY <1>2, <2>1, <2>3, <2>4 DEF Awaits
  <2>5. hot'[s].weights = Trained(s)
    BY <1>5, <1>7, <1>14 DEF Bookkeeping, VarTypes
  <2>6. From = job[w].from
    BY <1>7, <1>14
  <2>7. ASSUME NEW v \in Worker, NEW t \in Step, Awaits(v, t)'
        PROVE  /\ t > From /\ t \notin Recorded
               /\ hot'[t] # None => hot'[t].weights = Trained(t)
               /\ job'[v] # None => t \in job'[v].collected
    <3>1. v = w /\ (t = s \/ Awaits(w, t))
      BY <2>4, <2>7
    <3>2. CASE t = s
      BY <1>5, <1>6, <1>8, <2>5, <2>6, <3>1, <3>2
    <3>3. CASE t # s
      <4>1. /\ t > From /\ t \notin Recorded /\ t \in job[w].collected
            /\ hot[t] # None => hot[t].weights = Trained(t)
        BY <1>1, <3>1, <3>3 DEF LineageInv, ArtifactsAreNew
      <4> QED BY <1>8, <1>10, <3>1, <3>3, <4>1
    <3> QED BY <3>2, <3>3
  <2>8. ASSUME NEW v \in Worker, NEW i \in DOMAIN events'[v], NEW j \in DOMAIN events'[v],
               events'[v][i].kind = "artifact", events'[v][j].kind = "artifact",
               events'[v][i].step = events'[v][j].step
        PROVE  i = j
    <3>1. CASE i \in DOMAIN events[v] /\ events'[v][i] = events[v][i]
               /\ j \in DOMAIN events[v] /\ events'[v][j] = events[v][j]
      BY <2>8, <3>1 DEF LineageInv, ArtifactsAreNew
    <3>2. ~(i \in DOMAIN events[v] /\ events'[v][i] = events[v][i] /\ v = w
            /\ events'[v][i].step = s)
      BY <1>12, <2>8 DEF Awaits
    <3>3. ~(j \in DOMAIN events[v] /\ events'[v][j] = events[v][j] /\ v = w
            /\ events'[v][j].step = s)
      BY <1>12, <2>8 DEF Awaits
    <3> QED BY <2>1, <2>3, <2>8, <3>1, <3>2, <3>3
  <2>9. ArtifactsAreNew'
    BY <1>3, <2>7, <2>8 DEF ArtifactsAreNew
  <2> QED BY <1>3, <1>9, <1>11, <2>9 DEF LineageInv
<1> QED BY <1>4, <1>11, <1>13, <1>14

LEMMA WorkerStepLineage ==
  ASSUME Bookkeeping, LineageInv, NEW w \in Worker, WorkerStep(w)
  PROVE  LineageInv' /\ \A s \in Recorded : hot'[s] = hot[s]
BY StageLineage, TrainLineage, ReportLineage, CollectLineage
   DEF WorkerStep, Stage, Train, Exit, Report, storeVars

\* A history descends from the one it goes on from, and from an earlier
\* checkpoint of its own session.
LEMMA GoesOnFrom ==
  ASSUME NEW h \in History, NEW f \in 0..MaxStep, NEW s \in Step, NEW p \in Step, p <= s,
         NEW hs, hs = Append(h, <<f, s>>),
         NEW hp, hp = Append(h, <<f, p>>) \/ (hp = h /\ h # <<>>)
  PROVE  LET n == Len(hp)
         IN  /\ n <= Len(hs) /\ SubSeq(hs, 1, n - 1) = SubSeq(hp, 1, n - 1)
             /\ hs[n][1] = hp[n][1] /\ hp[n][2] <= hs[n][2]
<1>1. /\ Len(h) \in Nat /\ Len(hs) = Len(h) + 1 /\ hs \in Seq(Session)
      /\ \A i \in 1..Len(h) : hs[i] = h[i]
      /\ hs[Len(h) + 1] = <<f, s>>
  BY AppendProperties DEF History, Session
<1>2. CASE hp = Append(h, <<f, p>>)
  <2>1. /\ Len(hp) = Len(h) + 1 /\ hp \in Seq(Session)
        /\ \A i \in 1..Len(h) : hp[i] = h[i]
        /\ hp[Len(h) + 1] = <<f, p>>
    BY <1>2, AppendProperties DEF History, Session
  <2>2. SubSeq(hs, 1, Len(h)) = h /\ SubSeq(hp, 1, Len(h)) = h
    BY <1>1, <2>1 DEF History
  <2>3. hs[Len(h) + 1][1] = f /\ hp[Len(h) + 1][1] = f /\ hs[Len(h) + 1][2] = s /\ hp[Len(h) + 1][2] = p
    BY <1>1, <2>1
  <2> QED BY <1>1, <2>1, <2>2, <2>3
<1>3. CASE hp = h /\ h # <<>>
  <2> DEFINE n == Len(h)
  <2>1. n \in Nat \ {0} /\ h \in Seq(Session)
    BY <1>1, <1>3 DEF History
  <2>2. SubSeq(hs, 1, n - 1) = SubSeq(h, 1, n - 1)
    BY <1>1, <2>1
  <2>3. h[n] \in Session /\ hs[n] = h[n]
    BY <1>1, <2>1, ElementOfSeq
  <2>4. h[n][2] \in Int
    BY <2>3 DEF Session, Step
  <2> QED BY <1>1, <1>3, <2>1, <2>2, <2>3, <2>4
<1> QED BY <1>2, <1>3

\* The artifact at the head is the running attempt's, trained from where the
\* hub remembers, and new.
LEMMA OnArtifactLineage ==
  ASSUME Bookkeeping, LineageInv, NEW w \in Worker, OnArtifact(w)
  PROVE  /\ LineageInv' /\ \A t \in Recorded : rows'[t] = rows[t] /\ hot'[t] = hot[t]
         /\ run = "running"
<1>1. /\ events[w] # <<>> /\ Head(events[w]).kind = "artifact" /\ Handled(w)
      /\ Ingest(Head(events[w]).step)
      /\ UNCHANGED <<run, pass, resume, grants, attempts, job>>
  BY DEF OnArtifact, hubVars
<1>2. Head(events[w]) = events[w][1] /\ 1 \in DOMAIN events[w] /\ VarTypes
  BY <1>1, HandledOne DEF Bookkeeping
<1>3. PICK s \in Step : s = events[w][1].step
  BY <1>1, <1>2 DEF VarTypes
<1>4. Awaits(w, s) /\ Ingest(s)
  BY <1>1, <1>2, <1>3 DEF Awaits
<1>5. /\ attempts \in grants /\ run = "running" /\ pass = None /\ w = last
      /\ \A v \in Worker : \A i \in DOMAIN events[v] : events[v][i].kind = "artifact" => v = w
      /\ \A v \in Worker : v # w => job[v] = None
  BY <1>1, <1>2 DEF LineageInv, OneAttempt, OneClaim, OneJob, EndIsLast, IsOf
<1>6. /\ s > From /\ s \notin Recorded
      /\ hot[s] # None => hot[s].weights = Trained(s) /\ hot[s].parent = None
      /\ job[w] # None => s \in job[w].collected
  BY <1>4 DEF LineageInv, ArtifactsAreNew, HotIsRecorded
<1>7. /\ resume # None /\ resume \in Memory /\ From \in Recorded \cup {0}
      /\ resume.slices = IF From = 0 THEN <<>> ELSE rows[From].slices
      /\ \A t \in Recorded : t > From => rows[t].weights = Trained(t)
  BY <1>2, <1>5 DEF LineageInv, Remembers, VarTypes
<1>8. OneAttempt' /\ From' = From /\ \A t \in Step : Trained(t)' = Trained(t)
  BY <1>1, OnArtifactOne DEF LineageInv, From, Trained
<1>9. /\ \A t \in Step : t # s => rows'[t] = rows[t] /\ hot'[t] = hot[t]
      /\ hot[s] = None => UNCHANGED <<rows, hot>>
      /\ hot[s] # None =>
            /\ rows'[s] # None /\ hot'[s] # None
            /\ rows'[s].weights = Trained(s) /\ hot'[s].weights = Trained(s)
            /\ rows'[s].slices = Trained(s)
            /\ rows'[s].parent = IF Latest \in 1..(s - 1) THEN Latest ELSE None
  BY <1>2, <1>4, <1>6, <1>7, Ingested DEF storeVars, Remembered, Trained, From, ParentOf
<1>10. /\ Recorded \subseteq Recorded' /\ Recorded' \subseteq Recorded \cup {s}
       /\ \A t \in Recorded : rows'[t] = rows[t] /\ hot'[t] = hot[t]
       /\ s \in Recorded' => hot[s] # None
  BY <1>6, <1>9 DEF Recorded
<1>11. PassFrom'
  BY <1>1, <1>5 DEF PassFrom
<1>12. Remembers'
  <2>1. resume' = resume /\ From' \in Recorded' \cup {0} /\ From' = From
    BY <1>1, <1>7, <1>8, <1>10
  <2>2. resume'.slices = IF From' = 0 THEN <<>> ELSE rows'[From'].slices
    <3>1. From \in Recorded => rows'[From] = rows[From]
      BY <1>10
    <3> QED BY <1>7, <2>1, <3>1
  <2>3. \A t \in Recorded' : t > From' => rows'[t].weights = Trained(t)'
    <3>1. \A t \in Recorded' : t \in Step
      BY DEF Recorded
    <3> QED BY <1>7, <1>8, <1>9, <1>10, <3>1
  <2> QED BY <1>7, <2>1, <2>2, <2>3 DEF Remembers
<1>13. JobFrom'
  BY <1>1, <1>5, <1>6, <1>8, <1>10 DEF LineageInv, JobFrom
<1>14. ArtifactsAreNew'
  <2>1. ASSUME NEW v \in Worker, NEW i \in DOMAIN events'[v], events'[v][i].kind = "artifact"
        PROVE  /\ v = w /\ i + 1 \in DOMAIN events[w] /\ events'[w][i] = events[w][i + 1]
               /\ events[w][i + 1].step # s /\ i \in Nat
    <3>1. v = w
      BY <1>1, <1>2, <1>5, <2>1, LeftOver
    <3>2. i \in Nat /\ i + 1 \in DOMAIN events[w] /\ events'[w][i] = events[w][i + 1]
          /\ 1 \in DOMAIN events[w] /\ i # 0
      BY <1>1, <1>2, <2>1, <3>1, LeftOver, HandledOne
    <3>3. events[w][i + 1].step # s
      BY <1>1, <1>2, <1>3, <2>1, <3>1, <3>2 DEF LineageInv, ArtifactsAreNew
    <3> QED BY <3>1, <3>2, <3>3
  <2>2. ASSUME NEW v \in Worker, NEW t \in Step, Awaits(v, t)'
        PROVE  /\ t > From /\ t \notin Recorded'
               /\ hot'[t] # None => hot'[t].weights = Trained(t)
               /\ job'[v] # None => t \in job'[v].collected
    <3>1. PICK i \in DOMAIN events'[v] : events'[v][i].kind = "artifact" /\ events'[v][i].step = t
      BY <2>2 DEF Awaits
    <3>2. v = w /\ Awaits(w, t) /\ t # s
      BY <2>1, <3>1 DEF Awaits
    <3>3. /\ t > From /\ t \notin Recorded
          /\ hot[t] # None => hot[t].weights = Trained(t)
          /\ job[w] # None => t \in job[w].collected
      BY <3>2 DEF LineageInv, ArtifactsAreNew
    <3> QED BY <1>1, <1>9, <1>10, <3>2, <3>3
  <2>3. ASSUME NEW v \in Worker, NEW i \in DOMAIN events'[v], NEW j \in DOMAIN events'[v],
               events'[v][i].kind = "artifact", events'[v][j].kind = "artifact",
               events'[v][i].step = events'[v][j].step
        PROVE  i = j
    <3>1. i + 1 = j + 1 /\ i \in Nat /\ j \in Nat
      BY <2>1, <2>3 DEF LineageInv, ArtifactsAreNew
    <3> QED BY <3>1
  <2> QED BY <1>8, <2>2, <2>3 DEF ArtifactsAreNew
<1>15. HotIsRecorded'
  BY <1>6, <1>9, <1>10 DEF LineageInv, HotIsRecorded, Recorded
<1>16. RowsAreTrue'
  <2>1. ASSUME NEW t \in Recorded
        PROVE  /\ rows'[t].slices = rows'[t].weights /\ rows'[t].weights # <<>>
               /\ rows'[t].parent # None =>
                     rows'[t].parent \in Recorded' /\ rows'[t].parent < t
                     /\ Descends(t, rows[t].parent)'
    <3>1. /\ rows[t].slices = rows[t].weights /\ rows[t].weights # <<>>
          /\ rows[t].parent # None =>
                rows[t].parent \in Recorded /\ rows[t].parent < t /\ Descends(t, rows[t].parent)
      BY DEF LineageInv, RowsAreTrue
    <3>2. rows'[t] = rows[t]
      BY <1>10
    <3>3. ASSUME rows[t].parent # None PROVE Descends(t, rows[t].parent)'
      <4>1. PICK p \in Recorded : p = rows[t].parent
        BY <3>1, <3>3
      <4>2. rows'[p] = rows[p] /\ Descends(t, p)
        BY <1>10, <3>1, <3>3, <4>1
      <4>3. Descends(t, p)'
        BY <3>2, <4>2 DEF Descends
      <4> QED BY <3>2, <4>1, <4>3 DEF Descends
    <3> QED BY <1>10, <3>1, <3>2, <3>3
  <2>2. CASE s \in Recorded'
    <3>1. hot[s] # None /\ rows'[s].slices = Trained(s) /\ rows'[s].weights = Trained(s)
      BY <1>9, <1>10, <2>2
    <3>2. resume.slices \in History /\ From \in 0..MaxStep
      BY <1>7 DEF Memory, From
    <3>3. Trained(s) # <<>>
      BY <3>2, HistoryGrows DEF Trained
    <3>4. ASSUME rows'[s].parent # None
          PROVE  rows'[s].parent \in Recorded' /\ rows'[s].parent < s
                 /\ Descends(s, rows[s].parent)'
      <4>1. Latest \in 1..(s - 1) /\ rows'[s].parent = Latest
        BY <1>9, <3>1, <3>4
      <4>2. PICK p \in Recorded : p = Latest
        BY <4>1, LatestIsLatest
      <4>3. p < s /\ p >= From /\ p \in Step /\ p # s
        BY <1>7, <3>2, <4>1, <4>2, LatestIsLatest DEF Recorded, Step
      <4>4. rows'[p] = rows[p]
        BY <1>10, <4>2
      <4>5. \/ rows[p].weights = Append(resume.slices, <<From, p>>)
            \/ rows[p].weights = resume.slices /\ resume.slices # <<>>
        <5>1. CASE p > From
          BY <1>7, <4>2, <5>1 DEF Trained
        <5>2. CASE p = From
          <6>1. From # 0 /\ From \in Recorded
            BY <4>2, <4>3, <5>2 DEF Step
          <6>2. rows[p].slices = rows[p].weights /\ rows[p].weights # <<>>
            BY <4>2 DEF LineageInv, RowsAreTrue
          <6> QED BY <1>7, <5>2, <6>1, <6>2
        <5> QED BY <3>2, <4>3, <5>1, <5>2 DEF Step
      <4>6. Descends(s, p)'
        <5>1. rows'[s].weights = Append(resume.slices, <<From, s>>)
          BY <3>1 DEF Trained
        <5>2. p <= s
          BY <4>3 DEF Step
        <5>3. PICK hs : hs = rows'[s].weights
          OBVIOUS
        <5>4. PICK hp : hp = rows'[p].weights
          OBVIOUS
        <5>5. LET n == Len(hp)
              IN  /\ n <= Len(hs) /\ SubSeq(hs, 1, n - 1) = SubSeq(hp, 1, n - 1)
                  /\ hs[n][1] = hp[n][1] /\ hp[n][2] <= hs[n][2]
          <6>1. PICK h \in History : h = resume.slices
            BY <3>2
          <6>2. PICK f \in 0..MaxStep : f = From
            BY <3>2
          <6>3. hs = Append(h, <<f, s>>) /\ (hp = Append(h, <<f, p>>) \/ (hp = h /\ h # <<>>))
            BY <4>4, <4>5, <5>1, <5>3, <5>4, <6>1, <6>2
          <6> QED BY <4>3, <5>2, <6>3, GoesOnFrom
        <5> QED BY <5>3, <5>4, <5>5 DEF Descends
      <4>7. rows'[s].parent = p
        BY <4>1, <4>2
      <4> QED BY <1>10, <4>2, <4>3, <4>6, <4>7 DEF Descends
    <3> QED BY <1>10, <2>1, <3>1, <3>3, <3>4 DEF RowsAreTrue
  <2>3. CASE s \notin Recorded'
    BY <1>10, <2>1, <2>3 DEF RowsAreTrue
  <2> QED BY <2>2, <2>3
<1> QED BY <1>5, <1>8, <1>10, <1>11, <1>12, <1>13, <1>14, <1>15, <1>16 DEF LineageInv

-----------------------------------------------------------------------------
(***************************************************************************)
(* Every step.                                                             *)
(***************************************************************************)

LEMMA OutlivedStays == [Next]_vars => (outlived => outlived')
<1> SUFFICES ASSUME [Next]_vars, outlived PROVE outlived'
  OBVIOUS
<1>1. CASE UNCHANGED vars
  BY <1>1 DEF vars, lineageVars
<1>2. CASE LineageNext
  BY <1>2 DEF LineageNext, Assemble, Assign, WorkerStep, Stage, Train, Exit, Collect, Report,
              OnMessage, OnArtifact, OnEnd, Drop, Reconnect, StopRun, ResumeRun
<1>3. CASE HubRestart
  BY <1>3 DEF HubRestart, Restart
<1>4. ASSUME NEW s \in Step, Expire(s) PROVE outlived'
  BY <1>4 DEF Expire
<1>5. ASSUME NEW a \in Archiver, ArchiveStep(a) PROVE outlived'
  BY <1>5, ArchiveStepElsewhere
<1> QED BY <1>1, <1>2, <1>3, <1>4, <1>5 DEF Next

LEMMA NextLineage ==
  Bookkeeping /\ (~outlived => LineageInv) /\ [Next]_vars => (~outlived' => LineageInv')
<1> SUFFICES ASSUME Bookkeeping, LineageInv, [Next]_vars, ~outlived' PROVE LineageInv'
  BY OutlivedStays
<1>1. ASSUME NEW w \in Worker, Reconnect(w) PROVE LineageInv'
  BY <1>1, StorageKeepsLineage DEF Reconnect, hubVars, storeVars, RowsKept
<1>2. CASE LineageNext
  BY <1>1, <1>2, AssembleLineage, AssignLineage, WorkerStepLineage, OnArtifactLineage,
     OnEndLineage, DropLineage, StopLineage, ResumeLineage DEF LineageNext, OnMessage
<1>3. CASE HubRestart
  BY <1>3, RestartLineage
<1>4. ASSUME NEW s \in Step, Expire(s) PROVE LineageInv'
  <2>1. \A t \in Step : hot'[t] # None => hot'[t] = hot[t]
    BY <1>4 DEF Expire, Bookkeeping, VarTypes
  <2> QED BY <1>4, <2>1, StorageKeepsLineage DEF Expire, hubVars, RowsKept
<1>5. ASSUME NEW a \in Archiver, ArchiveStep(a) PROVE LineageInv'
  BY <1>5, ArchiveStepFits, ArchiveStepElsewhere, StorageKeepsLineage DEF RowsFit
<1>6. CASE UNCHANGED vars
  BY <1>6, StorageKeepsLineage DEF vars, lineageVars, hubVars, storeVars, RowsKept
<1> QED BY <1>2, <1>3, <1>4, <1>5, <1>6 DEF Next

LEMMA LineageIsInvariant == Spec => [](Bookkeeping /\ (~outlived => LineageInv))
<1>1. Init => Bookkeeping /\ (~outlived => LineageInv)
  BY InitBookkeeping, InitLineageInv
<1>2. Bookkeeping /\ (~outlived => LineageInv) /\ [Next]_vars
          => Bookkeeping' /\ (~outlived' => LineageInv')
  BY NextBookkeeping, NextLineage
<1> QED BY <1>1, <1>2, PTL DEF Spec

(* Whatever fails, drops, stops, restarts or expires, and however often the *)
(* run is taken up again: the history recorded with a checkpoint is how its *)
(* weights were trained, and its parent an earlier one they descend from,   *)
(* unless an attempt outlived the hub's interest in it (complete_meta).     *)
THEOREM LineageTrue == Spec => []LineageIsTrue
<1>1. Bookkeeping /\ (~outlived => LineageInv) => LineageIsTrue
  BY DEF LineageInv, RowsAreTrue, LineageIsTrue
<1> QED BY <1>1, LineageIsInvariant, PTL

\* Once the run is settled as completed it has nothing left to record.
LEMMA CompletedRecordsNothing ==
  ASSUME Bookkeeping, ~outlived => LineageInv, [Next]_vars, ~outlived, run = "completed"
  PROVE  Recorded' = Recorded
<1>1. CASE LineageNext
  <2>1. ASSUME NEW w \in Worker, WorkerStep(w) PROVE Recorded' = Recorded
    BY <2>1, WorkerStepElsewhere DEF Bookkeeping, Recorded
  <2>2. ASSUME NEW w \in Worker, OnArtifact(w) PROVE FALSE
    BY <2>2, OnArtifactLineage
  <2>3. ASSUME UNCHANGED rows PROVE Recorded' = Recorded
    BY <2>3 DEF Recorded
  <2> QED BY <1>1, <2>1, <2>2, <2>3
          DEF LineageNext, Assemble, Assign, OnMessage, OnEnd, Drop, Reconnect, StopRun, ResumeRun, storeVars
<1>2. CASE UNCHANGED rows
  BY <1>2 DEF Recorded
<1>3. ASSUME NEW a \in Archiver, ArchiveStep(a) PROVE Recorded' = Recorded
  BY <1>3, ArchiveStepFits, KeptRecorded DEF RowsFit
<1> QED BY <1>1, <1>2, <1>3
        DEF Next, HubRestart, Restart, Expire, vars, lineageVars, storeVars

(* When a run is settled as completed, every checkpoint it will ever have is *)
(* recorded: the executor collects before it reports and the stream keeps    *)
(* the order, so the latest one is the final one.                            *)
THEOREM CompletedIsFinal == Spec => FinalIsFinal
<1>1. /\ Bookkeeping /\ (~outlived => LineageInv) /\ [Next]_vars
      => [~outlived /\ run = "completed" /\ run' = "completed" => Recorded' = Recorded]_lineageVars
  BY CompletedRecordsNothing
<1> QED BY <1>1, LineageIsInvariant, PTL DEF Spec, FinalIsFinal

-----------------------------------------------------------------------------
(***************************************************************************)
(* What is archived is on Drive.                                           *)
(***************************************************************************)

\* What an archiver holds, and what it has marked, no other step spoils.
StoresStay ==
    /\ outlived => outlived'
    /\ \A s \in Recorded : ~outlived' =>
          rows'[s].weights = rows[s].weights /\ (hot[s] = None => hot'[s] = None)
    /\ \A s \in Recorded' : rows'[s].archived =>
          s \in Recorded /\ rows[s].archived /\ rows'[s].drive = rows[s].drive

LEMMA ObjectsStay ==
  ASSUME UNCHANGED rows, outlived => outlived',
         \A s \in Recorded : ~outlived' => (hot[s] = None => hot'[s] = None)
  PROVE  StoresStay
BY DEF StoresStay, Recorded

LEMMA HoldsStay ==
  ASSUME Bookkeeping, NEW a \in Archiver, Holds(a), StoresStay,
         arch'[a] = arch[a], onDrive \subseteq onDrive'
  PROVE  Holds(a)'
<1>1. /\ At(a, "idle") \/ arch[a].step \in Recorded
      /\ At(a, "idle") => arch[a].held = None /\ arch[a].stage = "idle"
  BY DEF Bookkeeping, OfRecorded, Holds, At
<1> QED BY <1>1 DEF Holds, StoresStay, At

LEMMA ArchivedStays ==
  ASSUME ArchivedIsOnDrive, StoresStay, onDrive \subseteq onDrive' PROVE ArchivedIsOnDrive'
BY DEF ArchivedIsOnDrive, StoresStay

LEMMA ElsewhereStays ==
  ASSUME Bookkeeping, ~outlived => LineageInv, [Next]_vars,
         LineageNext \/ HubRestart \/ (\E s \in Step : Expire(s)) \/ UNCHANGED vars
  PROVE  StoresStay
<1>1. outlived => outlived'
  BY OutlivedStays
<1>2. ASSUME UNCHANGED <<rows, hot>> PROVE StoresStay
  BY <1>1, <1>2, ObjectsStay
<1>3. ASSUME NEW w \in Worker, WorkerStep(w) PROVE StoresStay
  <2>1. UNCHANGED rows
    BY <1>3, WorkerStepElsewhere DEF Bookkeeping
  <2>2. ~outlived' => \A s \in Recorded : hot'[s] = hot[s]
    BY <1>1, <1>3, WorkerStepLineage
  <2> QED BY <1>1, <2>1, <2>2, ObjectsStay
<1>4. ASSUME NEW w \in Worker, OnArtifact(w) PROVE StoresStay
  <2>1. PICK s \in Step : Ingest(s)
    BY <1>4, HandledOne DEF OnArtifact, Bookkeeping, VarTypes
  <2>2. ~outlived' => \A t \in Recorded : rows'[t] = rows[t] /\ hot'[t] = hot[t]
    BY <1>1, <1>4, OnArtifactLineage
  <2>3. \A t \in Recorded' : rows'[t].archived =>
            t \in Recorded /\ rows[t].archived /\ rows'[t].drive = rows[t].drive
    <3>1. CASE hot[s] = None
      BY <2>1, <3>1, Ingested DEF Bookkeeping, storeVars, Recorded
    <3>2. CASE hot[s] # None
      BY <2>1, <3>2, Ingested DEF Bookkeeping, Recorded
    <3> QED BY <3>1, <3>2
  <2> QED BY <1>1, <2>2, <2>3 DEF StoresStay
<1>5. ASSUME NEW s \in Step, Expire(s) PROVE StoresStay
  <2>1. UNCHANGED rows /\ \A t \in Step : hot[t] = None => hot'[t] = None
    BY <1>5 DEF Expire, Bookkeeping, VarTypes
  <2> QED BY <1>1, <2>1, ObjectsStay DEF Recorded
<1>6. CASE LineageNext
  BY <1>2, <1>3, <1>4, <1>6
     DEF LineageNext, Assemble, Assign, OnMessage, OnEnd, Drop, Reconnect, StopRun, ResumeRun, storeVars
<1>7. CASE HubRestart \/ UNCHANGED vars
  BY <1>2, <1>7 DEF HubRestart, Restart, vars, lineageVars, storeVars
<1> QED BY <1>5, <1>6, <1>7

LEMMA ArchiveStepInv ==
  ASSUME ArchiveInv, NEW a \in Archiver, ArchiveStep(a)
  PROVE  (\A b \in Archiver : Holds(b)') /\ ArchivedIsOnDrive'
<1>1. /\ RowsKept /\ Recorded' = Recorded /\ UNCHANGED <<hot, outlived>>
      /\ arch \in [Archiver -> Task] /\ arch[a] \in Task /\ rows \in [Step -> Row \cup {None}]
      /\ (At(a, "idle") \/ arch[a].step \in Recorded) /\ (At(a, "promoted") => arch[a].held # None)
      /\ Holds(a) /\ Recorded \subseteq Step
  BY ArchiveStepFits, ArchiveStepElsewhere, KeptRecorded
     DEF ArchiveInv, Bookkeeping, VarTypes, OfRecorded, RowsFit, Recorded
<1>2. /\ \A s \in Recorded : rows'[s].weights = rows[s].weights
      /\ onDrive \subseteq onDrive' /\ \A b \in Archiver : b # a => arch'[b] = arch[b]
  BY <1>1 DEF RowsKept, Recorded, ArchiveStep, Begin, Promote, Upload, MarkFinal, UploadLogs,
              MarkArchived, GoTo, GiveUp
<1>3. ASSUME NEW b \in Archiver, b # a PROVE Holds(b)'
  <2>1. /\ Holds(b) /\ arch'[b] = arch[b] /\ onDrive \subseteq onDrive'
        /\ At(b, "idle") \/ arch[b].step \in Recorded
    BY <1>2, <1>3 DEF ArchiveInv, Bookkeeping, OfRecorded
  <2> QED BY <1>1, <1>2, <2>1 DEF Holds, At
<1>4. ASSUME \A s \in Recorded : rows'[s].archived = rows[s].archived /\ rows'[s].drive = rows[s].drive
      PROVE  ArchivedIsOnDrive'
  <2>1. StoresStay
    BY <1>1, <1>2, <1>4 DEF StoresStay
  <2> QED BY <1>2, <2>1, ArchivedStays DEF ArchiveInv
<1>5. ASSUME GiveUp(a) PROVE Holds(a)'
  <2>1. arch'[a] = Idle
    BY <1>1, <1>5 DEF GiveUp
  <2> QED BY <2>1 DEF Holds, At, Idle
<1>6. ASSUME NEW stage \in {"uploaded", "logs", "marking"}, GoTo(a, stage)
      PROVE  arch'[a].stage = stage /\ arch'[a].step = arch[a].step /\ arch'[a].held = arch[a].held
  BY <1>1, <1>6 DEF GoTo, Task
<1>7. ASSUME NEW stage \in {"uploaded", "logs", "marking"}, GoTo(a, stage), ~At(a, "idle"),
             arch[a].held # None => <<arch[a].step, arch[a].held>> \in onDrive',
             ~outlived /\ arch[a].held = None => hot[arch[a].step] = None
      PROVE  Holds(a)'
  BY <1>1, <1>2, <1>6, <1>7 DEF Holds, At
<1>8. CASE Begin(a)
  <2>1. UNCHANGED rows /\ arch' = [arch EXCEPT ![a] = [stage |-> "files", step |-> Latest, held |-> None]]
    BY <1>8 DEF Begin, storeVars
  <2>2. arch'[a].stage = "files" /\ arch'[a].held = None
    BY <1>1, <2>1
  <2>3. Holds(a)'
    BY <2>2 DEF Holds
  <2> QED BY <1>3, <1>4, <2>1, <2>3
<1>9. CASE Promote(a)
  <2> DEFINE s == arch[a].step
  <2>1. UNCHANGED rows /\ At(a, "files") /\ ~At(a, "idle") /\ arch[a].held = None
    BY <1>1, <1>9 DEF Promote, storeVars, At, Holds
  <2>2. CASE hot[s] = None
    <3>1. GoTo(a, "uploaded")
      BY <1>9, <2>2 DEF Promote
    <3>2. Holds(a)'
      BY <1>7, <2>1, <2>2, <3>1
    <3> QED BY <1>3, <1>4, <2>1, <3>2
  <2>3. CASE hot[s] # None
    <3>1. arch' = [arch EXCEPT ![a] = [stage |-> "promoted", step |-> s, held |-> hot[s].weights]]
      BY <1>9, <2>3 DEF Promote
    <3>2. arch'[a].stage = "promoted" /\ arch'[a].step = s /\ arch'[a].held = hot[s].weights
      BY <1>1, <3>1
    <3>3. ~outlived => hot[s].weights = rows[s].weights
      BY <1>1, <2>1, <2>3 DEF ArchiveInv, LineageInv, HotIsRecorded
    <3>4. Holds(a)'
      BY <1>1, <2>1, <3>2, <3>3 DEF Holds
    <3> QED BY <1>3, <1>4, <2>1, <3>4
  <2> QED BY <2>2, <2>3
<1>10. CASE Upload(a)
  <2>1. UNCHANGED rows /\ At(a, "promoted") /\ ~At(a, "idle")
        /\ (GiveUp(a) \/ (GoTo(a, "uploaded") /\ <<arch[a].step, arch[a].held>> \in onDrive'))
    BY <1>10 DEF Upload, storeVars, At
  <2>2. Holds(a)'
    BY <1>1, <1>5, <1>7, <2>1
  <2> QED BY <1>3, <1>4, <2>1, <2>2
<1>11. CASE MarkFinal(a)
  <2> DEFINE s == arch[a].step
             row == [rows[s] EXCEPT !.location = "final"]
  <2>1. /\ rows' = [rows EXCEPT ![s] = row] /\ GoTo(a, "logs") /\ At(a, "uploaded") /\ ~At(a, "idle")
    BY <1>11 DEF MarkFinal, At
  <2>2. rows[s] \in Row
    BY <1>1, <2>1 DEF Recorded
  <2>3. row.archived = rows[s].archived /\ row.drive = rows[s].drive
    BY <2>2 DEF Row
  <2> HIDE DEF row
  <2>4. \A t \in Recorded : rows'[t].archived = rows[t].archived /\ rows'[t].drive = rows[t].drive
    BY <1>1, <2>1, <2>3
  <2>5. Holds(a)'
    BY <1>1, <1>2, <1>7, <2>1 DEF Holds, At
  <2> QED BY <1>3, <1>4, <2>4, <2>5
<1>12. CASE UploadLogs(a)
  <2>1. UNCHANGED rows /\ At(a, "logs") /\ ~At(a, "idle") /\ (GiveUp(a) \/ GoTo(a, "marking"))
    BY <1>12 DEF UploadLogs, storeVars, At
  <2>2. Holds(a)'
    BY <1>1, <1>2, <1>5, <1>7, <2>1 DEF Holds, At
  <2> QED BY <1>3, <1>4, <2>1, <2>2
<1>13. CASE MarkArchived(a)
  <2> DEFINE s == arch[a].step
             row == ArchivedRow(rows[s], arch[a].held)
  <2>1. /\ rows' = [rows EXCEPT ![s] = row] /\ GiveUp(a) /\ At(a, "marking") /\ ~At(a, "idle")
        /\ UNCHANGED onDrive
    BY <1>13 DEF MarkArchived, At
  <2>2. s \in Recorded
    BY <1>1, <2>1
  <2>3. row.drive = arch[a].held
    BY DEF ArchivedRow
  <2> HIDE DEF row
  <2>4. rows'[s].drive = arch[a].held /\ \A t \in Step : t # s => rows'[t] = rows[t]
    BY <1>1, <2>1, <2>2, <2>3
  <2>5. /\ arch[a].held # None => <<s, arch[a].held>> \in onDrive
        /\ ~outlived => IF arch[a].held = None THEN hot[s] = None
                        ELSE arch[a].held = rows[s].weights
    BY <1>1, <2>1 DEF Holds, At
  <2>6. ASSUME NEW t \in Recorded, rows'[t].archived
        PROVE  /\ rows'[t].drive # None => <<t, rows'[t].drive>> \in onDrive
               /\ ~outlived => IF rows'[t].drive = None THEN hot[t] = None
                               ELSE rows'[t].drive = rows'[t].weights
    <3>1. CASE t = s
      BY <1>2, <2>2, <2>4, <2>5, <3>1
    <3>2. CASE t # s
      BY <1>1, <2>4, <2>6, <3>2 DEF ArchiveInv, ArchivedIsOnDrive
    <3> QED BY <3>1, <3>2
  <2>7. ArchivedIsOnDrive'
    BY <1>1, <2>1, <2>6 DEF ArchivedIsOnDrive
  <2> QED BY <1>3, <1>5, <2>1, <2>7
<1> QED BY <1>8, <1>9, <1>10, <1>11, <1>12, <1>13 DEF ArchiveStep

LEMMA InitArchiveInv == Init => ArchiveInv
<1> SUFFICES ASSUME Init PROVE ArchiveInv
  OBVIOUS
<1>1. \A a \in Archiver : Holds(a)
  BY DEF Init, Holds, At, Idle
<1>2. ArchivedIsOnDrive
  BY DEF Init, LineageInit, ArchivedIsOnDrive, Recorded
<1> QED BY <1>1, <1>2, InitBookkeeping, InitLineageInv DEF ArchiveInv

LEMMA NextArchiveInv == ArchiveInv /\ [Next]_vars => ArchiveInv'
<1> SUFFICES ASSUME ArchiveInv, [Next]_vars PROVE ArchiveInv'
  OBVIOUS
<1>1. Bookkeeping' /\ (~outlived' => LineageInv')
  BY NextBookkeeping, NextLineage DEF ArchiveInv
<1>2. CASE UNCHANGED archiveVars /\ StoresStay
  <2>1. \A a \in Archiver : Holds(a)'
    BY <1>2, HoldsStay DEF ArchiveInv, archiveVars
  <2> QED BY <1>1, <1>2, <2>1, ArchivedStays DEF ArchiveInv, archiveVars
<1>3. CASE HubRestart
  <2>1. \A a \in Archiver : Holds(a)'
    BY <1>3 DEF HubRestart, Holds, At, Idle
  <2>2. StoresStay /\ UNCHANGED onDrive
    BY <1>3, ElsewhereStays DEF ArchiveInv, HubRestart
  <2> QED BY <1>1, <2>1, <2>2, ArchivedStays DEF ArchiveInv
<1>4. ASSUME NEW a \in Archiver, ArchiveStep(a) PROVE ArchiveInv'
  BY <1>1, <1>4, ArchiveStepInv DEF ArchiveInv
<1>5. CASE (LineageNext /\ UNCHANGED archiveVars) \/ (\E s \in Step : Expire(s)) \/ UNCHANGED vars
  BY <1>2, <1>5, ElsewhereStays DEF ArchiveInv, Expire, vars
<1> QED BY <1>3, <1>4, <1>5 DEF Next

(* Through failed copies and uploads, restarts, expired objects and two      *)
(* archivers at work on the same run: what a row says is on Drive is there,  *)
(* and it is the weights the row describes (archive_run reads the row once   *)
(* and awaits between its steps).                                            *)
THEOREM ArchivedOnDrive == Spec => []ArchivedIsOnDrive
<1>1. Spec => []ArchiveInv
  BY InitArchiveInv, NextArchiveInv, PTL DEF Spec
<1>2. ArchiveInv => ArchivedIsOnDrive
  BY DEF ArchiveInv
<1> QED BY <1>1, <1>2, PTL
=============================================================================
