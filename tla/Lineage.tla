------------------------------ MODULE Lineage ------------------------------
(***************************************************************************)
(* The checkpoints of one train run and their lineage: the control plane   *)
(* hands the run to a worker together with its latest checkpoint, the      *)
(* trainer writes checkpoints into the sandbox, the worker uploads them    *)
(* under the run's grant and announces each, and the control plane         *)
(* completes the sidecar with the history it remembers and records it.     *)
(* The weights of a checkpoint are the sessions that really trained them.  *)
(*                                                                         *)
(*   run      state of the run's row                                       *)
(*   last     the worker of the run's row: the last that had it, or None   *)
(*   claims   the workers whose row names the run as their current one     *)
(*   link     workers that are connected                                   *)
(*   job      per worker, the attempt at the run it executes, or None      *)
(*   events   per worker, what it announced and the hub has not handled:   *)
(*            the stream of Stream, an in-order channel                    *)
(*   rows     per step, the row of checkpoints                             *)
(*   hot      per step, the objects under ckpt-hot                         *)
(*   pass     the pump's pass that is assembling the run's job, or None: it *)
(*            holds the lock on the links                                  *)
(*   resume   resume_state of the run in the hub's memory, or None         *)
(*   grants   the attempts whose grant the hub still knows                 *)
(*   attempts how often the run was assigned                               *)
(*   outlived has an attempt ever gone on, or had anything left to tell,   *)
(*            when the hub had given it up or forgotten it                 *)
(*   budget   how many more faults and requests of each kind there are     *)
(***************************************************************************)
EXTENDS Integers, Sequences, FiniteSets

CONSTANTS Worker, Persistent, None,
          MaxStep,      \* the step the trainer ends at
          NameRank,     \* where a step's directory comes when sorted by name
          MaxAttempt,   \* bound on the times the run is assigned
          Budget

Step == 1..MaxStep
Session == (0..MaxStep) \X Step
History == Seq(Session)

Job == [att : Nat, stage : {"staging", "training", "completed", "failed"},
        from : 0..MaxStep, at : 0..MaxStep, base : History,
        saved : SUBSET Step, collected : SUBSET Step]
Object == [weights : History, parent : Step \cup {None}]
Row == [weights : History, slices : History, parent : Step \cup {None},
        location : {"hot", "final", "drive"}, archived : BOOLEAN,
        drive : History \cup {None}]
Pass == [worker : Worker, from : 0..MaxStep]
Memory == [from : 0..MaxStep, slices : History]

ASSUME LineageAssumption ==
    /\ Persistent \subseteq Worker
    /\ MaxStep \in Nat \ {0} /\ MaxAttempt \in Nat \ {0}
    /\ NameRank \in [Step -> Nat]
    /\ None \notin Worker \cup Step \cup Job \cup Object \cup Row \cup Pass \cup Memory \cup History

VARIABLES run, last, claims, link, job, events, rows, hot, pass, resume,
          grants, attempts, outlived, budget

storeVars == <<rows, hot>>
hubVars == <<run, last, claims, pass, resume, grants, attempts>>
lineageVars == <<hubVars, link, job, events, storeVars, outlived, budget>>

Terminal == {"completed", "failed", "cancelled"}

LineageInit ==
    /\ run = "queued" /\ last = None /\ claims = {}
    /\ link = Worker
    /\ job = [w \in Worker |-> None]
    /\ events = [w \in Worker |-> <<>>]
    /\ rows = [s \in Step |-> None]
    /\ hot = [s \in Step |-> None]
    /\ pass = None /\ resume = None /\ grants = {} /\ attempts = 0
    /\ outlived = FALSE
    /\ budget \in Budget

Spend(f) ==
    /\ budget[f] > 0
    /\ budget' = [budget EXCEPT ![f] = @ - 1]

-----------------------------------------------------------------------------
(***************************************************************************)
(* The hub hands the run out.                                              *)
(***************************************************************************)

Recorded == {s \in Step : rows[s] # None}

\* latest_checkpoint: ORDER BY step DESC LIMIT 1, or step 0 for none.
Latest == CHOOSE s \in Recorded \cup {0} : \A t \in Recorded : t <= s

Fresh == [from |-> 0, slices |-> <<>>]

\* Mutant: the history is not carried over to the next session.
ResumePointAnew == [from |-> Latest, slices |-> <<>>]

ResumePoint ==
    IF Latest = 0 THEN Fresh ELSE [from |-> Latest, slices |-> rows[Latest].slices]

\* A pass finds the run queued and the worker idle, and assembles the job.
Assemble(w) ==
    /\ pass = None
    /\ run = "queued" /\ w \in link \ claims /\ job[w] = None
    /\ attempts < MaxAttempt
    /\ pass' = [worker |-> w, from |-> Latest]
    /\ attempts' = attempts + 1
    /\ grants' = grants \cup {attempts'}
    /\ resume' = ResumePoint
    /\ UNCHANGED <<run, last, claims, link, job, events, storeVars, outlived, budget>>

\* Then it assigns the run, whatever became of it meanwhile.
Assign(w) ==
    /\ pass # None /\ pass.worker = w
    /\ pass' = None
    /\ run' = "running" /\ last' = w /\ claims' = claims \cup {w}
    /\ job' = [job EXCEPT ![w] =
                  [att |-> attempts, stage |-> "staging", from |-> pass.from, at |-> pass.from,
                   base |-> <<>>, saved |-> {}, collected |-> {}]]
    /\ UNCHANGED <<resume, grants, attempts, link, events, storeVars, outlived, budget>>

-----------------------------------------------------------------------------
(***************************************************************************)
(* The worker's executor.                                                  *)
(***************************************************************************)

In(w, stage) == job[w] # None /\ job[w].stage = stage
Allowed(w) == job[w].att \in grants
Announce(w, e) == events' = [events EXCEPT ![w] = Append(@, e)]

\* The weights the trainer has after the steps up to s.
WeightsAt(w, s) == Append(job[w].base, <<job[w].from, s>>)

\* Inputs are fetched under the grant; a checkpoint that is not under ckpt-hot
\* or a forgotten grant ends the job with EXIT_CODE_AGENT_ERROR.
Stage(w) ==
    /\ In(w, "staging")
    /\ LET from == job[w].from
       IN  IF Allowed(w) /\ (from # 0 => hot[from] # None)
           THEN job' = [job EXCEPT ![w] =
                   [att |-> @.att, stage |-> "training", from |-> from, at |-> from,
                    base |-> IF from = 0 THEN <<>> ELSE hot[from].weights,
                    saved |-> {}, collected |-> {}]]
           ELSE job' = [job EXCEPT ![w].stage = "failed"]
    /\ UNCHANGED <<hubVars, link, events, storeVars, outlived, budget>>

\* The trainer goes on a step and may save a checkpoint, marker and all.
Train(w) ==
    /\ In(w, "training") /\ job[w].at < MaxStep
    /\ \E saves \in BOOLEAN :
          job' = [job EXCEPT ![w] =
              [att |-> @.att, stage |-> "training", from |-> @.from, at |-> @.at + 1,
               base |-> @.base, saved |-> @.saved \cup {s \in {@.at + 1} : saves},
               collected |-> @.collected]]
    /\ UNCHANGED <<hubVars, link, events, storeVars, outlived, budget>>

\* The process exits; it fails at any time and succeeds at the end.
Exit(w) ==
    /\ In(w, "training")
    /\ \E code \in {"completed", "failed"} :
          /\ code = "completed" => job[w].at = MaxStep
          /\ job' = [job EXCEPT ![w].stage = code]
    /\ UNCHANGED <<hubVars, link, events, storeVars, outlived, budget>>

Ended(w) == In(w, "completed") \/ In(w, "failed")

Pending(w) == job[w].saved \ job[w].collected

\* pending() sorts the directories by name.
NextPending(w) == {s \in Pending(w) : \A t \in Pending(w) : NameRank[s] <= NameRank[t]}

\* One match: its files are uploaded and the artifact announced, or the upload
\* fails, possibly half way.  Either way it is never tried again.
Collect(w) ==
    /\ In(w, "training") \/ Ended(w)
    /\ \E s \in NextPending(w) :
       LET upload == [weights |-> WeightsAt(w, s), parent |-> None]
       IN  /\ job' = [job EXCEPT ![w].collected = @ \cup {s}]
           /\ \/ /\ Allowed(w)
                 /\ hot' = [hot EXCEPT ![s] = upload]
                 /\ Announce(w, [kind |-> "artifact", step |-> s, att |-> job[w].att])
                 /\ UNCHANGED budget
              \/ /\ Allowed(w) /\ Spend("upload")
                 /\ \E landed \in BOOLEAN : hot' = IF landed THEN [hot EXCEPT ![s] = upload] ELSE hot
                 /\ UNCHANGED events
              \/ ~Allowed(w) /\ UNCHANGED <<hot, events, budget>>
    /\ UNCHANGED <<hubVars, link, rows, outlived>>

\* The final drain comes first.
Report(w) ==
    /\ Ended(w) /\ Pending(w) = {}
    /\ Announce(w, [kind |-> job[w].stage, step |-> 0, att |-> job[w].att])
    /\ job' = [job EXCEPT ![w] = None]
    /\ UNCHANGED <<hubVars, link, storeVars, outlived, budget>>

-----------------------------------------------------------------------------
(***************************************************************************)
(* The hub handles what a worker announced.                                *)
(***************************************************************************)

Handled(w) == events' = [events EXCEPT ![w] = Tail(@)]

\* The parent is the latest checkpoint, if it was recorded before this one; a
\* sidecar completed before keeps its own.
ParentOf(s) ==
    IF hot[s].parent # None THEN hot[s].parent
    ELSE IF Latest \in 1..(s - 1) THEN Latest ELSE None

Remembered == IF resume = None THEN Fresh ELSE resume

\* Recording an artifact again updates its row and leaves where it was archived
\* alone.
RecordCheckpoint(s, parent, slices) ==
    rows' = [rows EXCEPT ![s] =
        [weights |-> hot[s].weights, slices |-> slices, parent |-> parent,
         location |-> IF @ = None THEN "hot" ELSE @.location,
         archived |-> @ # None /\ @.archived,
         drive |-> IF @ = None THEN None ELSE @.drive]]

\* ingest_checkpoint with complete_meta; without the model there is nothing to
\* record.
Ingest(s) ==
    IF hot[s] = None THEN UNCHANGED storeVars
    ELSE /\ hot' = [hot EXCEPT ![s].parent = ParentOf(s)]
         /\ RecordCheckpoint(s, ParentOf(s), Append(Remembered.slices, <<Remembered.from, s>>))

OnArtifact(w) ==
    /\ w \in link /\ events[w] # <<>> /\ Head(events[w]).kind = "artifact"
    /\ Handled(w)
    /\ Ingest(Head(events[w]).step)
    /\ UNCHANGED <<hubVars, link, job, outlived, budget>>

Latter(w) == events[w][Len(events[w])]

\* Mutant: artifacts are handled in a task of their own, behind the end.
OnEndEarly(w) ==
    /\ w \in link /\ events[w] # <<>> /\ Latter(w).kind # "artifact"
    /\ events' = [events EXCEPT ![w] = SubSeq(@, 1, Len(@) - 1)]
    /\ run' = Latter(w).kind
    /\ last' = w /\ claims' = claims \ {w}
    /\ grants' = {} /\ resume' = None /\ UNCHANGED pass
    /\ outlived' = (outlived \/ Latter(w).att # attempts)
    /\ UNCHANGED <<attempts, link, job, storeVars, budget>>

\* finish_run settles the run whoever reports and whatever its state.
OnEnd(w) ==
    /\ w \in link /\ events[w] # <<>> /\ Head(events[w]).kind # "artifact"
    /\ Handled(w)
    /\ run' = Head(events[w]).kind
    /\ last' = w /\ claims' = claims \ {w}
    /\ grants' = {} /\ resume' = None /\ UNCHANGED pass
    /\ outlived' = (outlived \/ Head(events[w]).att # attempts)
    /\ UNCHANGED <<attempts, link, job, storeVars, budget>>

\* A leased worker abandons its job with the session; the hub requeues what it
\* had.  A persistent one keeps both.
Drop(w) ==
    /\ w \in link /\ pass = None /\ Spend("drop")
    /\ link' = link \ {w}
    /\ job' = IF w \in Persistent THEN job ELSE [job EXCEPT ![w] = None]
    /\ IF w \in claims \ Persistent
       THEN /\ run' = "queued" /\ claims' = claims \ {w} /\ grants' = {}
            /\ outlived' = (outlived \/ events[w] # <<>>)
       ELSE UNCHANGED <<run, claims, grants, outlived>>
    /\ UNCHANGED <<last, pass, resume, attempts, events, storeVars>>

Reconnect(w) ==
    /\ w \notin link /\ pass = None
    /\ link' = link \cup {w}
    /\ UNCHANGED <<hubVars, job, events, storeVars, outlived, budget>>

\* A stop is signalled to the row's worker if it is connected: it aborts what
\* it runs as it is and reports the run killed, also if it runs nothing.
\* Otherwise the run is settled on the spot.  The signal needs the lock.
StopRun ==
    /\ run \notin Terminal /\ Spend("stop")
    /\ last # None => pass = None
    /\ IF last \in link
       THEN /\ job' = [job EXCEPT ![last] = None]
            /\ Announce(last, [kind |-> "cancelled", step |-> 0, att |-> attempts])
            /\ UNCHANGED <<hubVars, outlived>>
       ELSE /\ run' = "cancelled" /\ claims' = claims \ {last}
            /\ grants' = {} /\ resume' = None
            /\ outlived' = (outlived \/ last \in claims)
            /\ UNCHANGED <<last, pass, attempts, job, events>>
    /\ UNCHANGED <<link, storeVars>>

ResumeRun ==
    /\ run \in Terminal /\ Spend("resume")
    /\ run' = "queued"
    /\ UNCHANGED <<last, claims, pass, resume, grants, attempts, link, job, events, storeVars, outlived>>

\* The hub's memory is gone and so are its connections; the store is not.
Restart ==
    /\ Spend("restart")
    /\ pass' = None /\ resume' = None /\ grants' = {}
    /\ link' = {}
    /\ job' = [w \in Worker |-> IF w \in Persistent THEN job[w] ELSE None]
    /\ outlived' = (outlived \/ run = "running")
    /\ UNCHANGED <<run, last, claims, attempts, events, storeVars>>

-----------------------------------------------------------------------------

WorkerStep(w) == Stage(w) \/ Train(w) \/ Exit(w) \/ Collect(w) \/ Report(w)
OnMessage(w) == OnArtifact(w) \/ OnEnd(w)

LineageNext ==
    \/ \E w \in Worker : Assemble(w) \/ Assign(w) \/ WorkerStep(w) \/ OnMessage(w) \/ Drop(w) \/ Reconnect(w)
    \/ StopRun \/ ResumeRun

-----------------------------------------------------------------------------
(***************************************************************************)
(* Properties.                                                             *)
(***************************************************************************)

LineageTypeOK ==
    /\ run \in {"queued", "running"} \cup Terminal /\ last \in Worker \cup {None}
    /\ claims \subseteq Worker
    /\ \A s \in Step : rows[s] # None =>
          /\ rows[s].slices \in History /\ rows[s].weights \in History
          /\ rows[s].parent \in Step \cup {None}
          /\ rows[s].location \in {"hot", "final", "drive"}
    /\ grants \subseteq 1..attempts
    /\ pass # None => pass.worker \in link /\ job[pass.worker] = None

\* s was trained on from p: the same sessions, the last of p's going further.
Descends(s, p) ==
    LET hs == rows[s].weights
        hp == rows[p].weights
        n == Len(hp)
    IN  /\ n <= Len(hs) /\ SubSeq(hs, 1, n - 1) = SubSeq(hp, 1, n - 1)
        /\ hs[n][1] = hp[n][1] /\ hp[n][2] <= hs[n][2]

\* The recorded history is how the weights under that hash were trained, and
\* the parent is one they descend from, across failures, stops, resumes and
\* uploads that fail or land half, as long as no attempt outlived the hub's
\* interest in it (complete_meta takes the history the hub remembers for that
\* of whatever artifact comes in).
LineageIsTrue ==
    ~outlived => \A s \in Recorded :
        /\ rows[s].slices = rows[s].weights
        /\ rows[s].parent # None => rows[s].parent < s /\ Descends(s, rows[s].parent)

\* A run is settled as completed only when all its checkpoints are recorded:
\* the one the archive takes for the final one is final (the executor collects
\* before it reports, and the stream keeps the order).
FinalIsFinal ==
    [][~outlived /\ run = "completed" /\ run' = "completed" => Recorded' = Recorded]_lineageVars
=============================================================================
