------------------------------- MODULE Mirror -------------------------------
(***************************************************************************)
(* The reporting mirror: what happens to a run is told to an experiments   *)
(* server through a durable outbox.  A report is a task of its own: it     *)
(* inserts a row and attempts it once; a sweep attempts the rows that are  *)
(* due, oldest first, and may meet a row whose first attempt is still      *)
(* under way.  An attempt is a few calls to the server and the store, and  *)
(* the process may die between any two of them.                            *)
(*                                                                         *)
(*   todo     the reports a run has yet to give rise to                    *)
(*   fetched  runs whose experiment was fetched for submission             *)
(*   task     per report, the task that makes it                           *)
(*   outbox   the rows of experiments_outbox in the order of created_at    *)
(*   try      per task and for the sweep, the attempt it is making         *)
(*   sweep    the rows a sweep still has to attempt                        *)
(*   link     experiments_run_id of a run's row                            *)
(*   remote   the server's runs: the executions linked to each and the     *)
(*            reports it took                                              *)
(*   budget   how many more faults of each kind there are                  *)
(***************************************************************************)
EXTENDS Integers, Sequences, FiniteSets

CONSTANTS Run, None,
          Plan,            \* what may happen to the runs: reports in order
          Logical,         \* runs that exist on the server already
          Ref,             \* experiment_ref of a run, or None
          FromExperiment,  \* the runs submit_from_experiment makes
          Batch,           \* OUTBOX_SWEEP_BATCH
          FaultBudget

Kind == {"created", "running", "checkpoint", "completed", "result"}

\* The reports the plans give rise to; a completed run reports its results.
Report == {e \in [run : Run, kind : Kind] :
              \E p \in Plan : \/ \E i \in DOMAIN p[e.run] : p[e.run][i] = e.kind
                             \/ /\ e.kind = "result"
                                /\ \E i \in DOMAIN p[e.run] : p[e.run][i] = "completed"}
Sweeper == [run |-> None, kind |-> "sweep"]
Attempter == Report \cup {Sweeper}

\* The server gives a run it mints an id of its own; the slug is ours.
RemoteRun == Logical \cup Run

ASSUME MirrorAssumption ==
    /\ Plan \subseteq [Run -> Seq(Kind \ {"result"})] /\ Logical \cap Run = {}
    /\ Ref \in [Run -> Logical \cup {None}] /\ None \notin RemoteRun
    /\ None \notin [linked : SUBSET Run, got : SUBSET Report]
    /\ FromExperiment \subseteq {r \in Run : Ref[r] # None}
    /\ Batch \in Nat \ {0}
    /\ FaultBudget \subseteq [{"down", "lost", "crash"} -> Nat]

\* What a plan tells of a run it tells once: a report names one event.
ASSUME EachReportOnce ==
    \A p \in Plan : \A r \in Run : \A i, j \in DOMAIN p[r] : p[r][i] = p[r][j] => i = j

VARIABLES todo, fetched, task, outbox, try, sweep, link, remote, budget

runVars == <<todo, fetched>>
vars == <<runVars, task, outbox, try, sweep, link, remote, budget>>

Init ==
    /\ todo \in Plan
    /\ fetched = {}
    /\ task = [e \in Report |-> "none"]
    /\ outbox = <<>>
    /\ try = [a \in Attempter |-> None]
    /\ sweep = {}
    /\ link = [r \in Run |-> None]
    /\ remote = [x \in RemoteRun |->
                    IF x \in Logical THEN [linked |-> {}, got |-> {}] ELSE None]
    /\ budget \in FaultBudget

Spend(f) ==
    /\ budget[f] > 0
    /\ budget' = [budget EXCEPT ![f] = @ - 1]

-----------------------------------------------------------------------------
(***************************************************************************)
(* Runs and the reports they give rise to.                                 *)
(***************************************************************************)

\* submit_from_experiment looks whether the server's run is taken; what it
\* then submits is attached later.
Fetch(r) ==
    /\ r \in FromExperiment \ fetched
    /\ todo[r] # <<>> /\ Head(todo[r]) = "created"
    /\ remote[Ref[r]].linked = {}
    /\ fetched' = fetched \cup {r}
    /\ UNCHANGED <<todo, task, outbox, try, sweep, link, remote, budget>>

\* The hub spawns the report and goes on.
Happens(r) ==
    /\ todo[r] # <<>>
    /\ r \in FromExperiment /\ Head(todo[r]) = "created" => r \in fetched
    /\ todo' = [todo EXCEPT ![r] = Tail(@)]
    /\ task' = [task EXCEPT ![[run |-> r, kind |-> Head(todo[r])]] = "spawned"]
    /\ UNCHANGED <<fetched, outbox, try, sweep, link, remote, budget>>

Attempt(row) == [row |-> row, stage |-> "ready"]

\* The row is due at once.
EnqueueAndAttempt(e) ==
    /\ task[e] = "spawned"
    /\ task' = [task EXCEPT ![e] = "trying"]
    /\ outbox' = Append(outbox, [report |-> e, status |-> "due"])
    /\ try' = [try EXCEPT ![e] = Attempt(Len(outbox) + 1)]
    /\ UNCHANGED <<runVars, sweep, link, remote, budget>>

-----------------------------------------------------------------------------
(***************************************************************************)
(* The sweep works on a snapshot of the oldest due rows, one after the     *)
(* other.                                                                  *)
(***************************************************************************)

Due == {i \in DOMAIN outbox : outbox[i].status = "due"}

SweepStart ==
    /\ sweep = {} /\ try[Sweeper] = None /\ Due # {}
    /\ sweep' = {i \in Due : Cardinality({j \in Due : j <= i}) <= Batch}
    /\ UNCHANGED <<runVars, task, outbox, try, link, remote, budget>>

SweepNext ==
    /\ try[Sweeper] = None
    /\ \E i \in sweep : /\ \A j \in sweep : i <= j
                        /\ try' = [try EXCEPT ![Sweeper] = Attempt(i)]
                        /\ sweep' = sweep \ {i}
    /\ UNCHANGED <<runVars, task, outbox, link, remote, budget>>

-----------------------------------------------------------------------------
(***************************************************************************)
(* One attempt at a row.                                                   *)
(***************************************************************************)

Making(a, stage) == try[a] # None /\ try[a].stage = stage
Subject(a) == outbox[try[a].row].report
MoveTo(a, stage) == try' = [try EXCEPT ![a].stage = stage]

\* How a call on the server may end: it takes it and says so; it takes it and
\* the answer is lost; it is not reached.
Calls(a, effect, next) ==
    \/ remote' = effect /\ MoveTo(a, next) /\ UNCHANGED budget
    \/ remote' = effect /\ MoveTo(a, "failed") /\ Spend("lost")
    \/ UNCHANGED remote /\ MoveTo(a, "failed") /\ Spend("down")

\* Mutant: the run is posted without a slug, so every attempt mints one.
PostAnew(a) ==
    /\ Making(a, "ready") /\ Subject(a).kind = "created" /\ Ref[Subject(a).run] = None
    /\ LET r == Subject(a).run
       IN  Calls(a, [remote EXCEPT ![r] = [linked |-> {}, got |-> {}]], "minted")
    /\ UNCHANGED <<runVars, task, outbox, sweep, link>>

\* try_create: the server refuses a slug it has.
Post(a) ==
    /\ Making(a, "ready") /\ Subject(a).kind = "created" /\ Ref[Subject(a).run] = None
    /\ LET r == Subject(a).run
       IN  IF remote[r] = None
           THEN Calls(a, [remote EXCEPT ![r] = [linked |-> {}, got |-> {}]], "minted")
           ELSE MoveTo(a, "failed") /\ UNCHANGED <<remote, budget>>
    /\ UNCHANGED <<runVars, task, outbox, sweep, link>>

Linking(x, r) == [remote EXCEPT ![x] = [linked |-> @.linked \cup {r}, got |-> @.got]]
Taking(x, e) == [remote EXCEPT ![x] = [linked |-> @.linked, got |-> @.got \cup {e}]]

\* The linkback of a minted run is best effort.
Linkback(a) ==
    /\ Making(a, "minted")
    /\ LET r == Subject(a).run
       IN  \/ remote' = Linking(r, r) /\ UNCHANGED budget
           \/ UNCHANGED remote /\ Spend("down")
    /\ MoveTo(a, "linked")
    /\ UNCHANGED <<runVars, task, outbox, sweep, link>>

\* try_attach: the same PATCH is the existence check of a run given to us.
Attach(a) ==
    /\ Making(a, "ready") /\ Subject(a).kind = "created" /\ Ref[Subject(a).run] # None
    /\ LET r == Subject(a).run IN Calls(a, Linking(Ref[r], r), "linked")
    /\ UNCHANGED <<runVars, task, outbox, sweep, link>>

\* Mutant: the reference is taken for the link before it was checked.
SaveLinkAtOnce(a) ==
    /\ Making(a, "ready")
    /\ link' = [link EXCEPT ![Subject(a).run] = Subject(a).run]
    /\ MoveTo(a, "delivered")
    /\ UNCHANGED <<runVars, task, outbox, sweep, remote, budget>>

SaveLink(a) ==
    /\ Making(a, "linked")
    /\ LET r == Subject(a).run
       IN  link' = [link EXCEPT ![r] = IF Ref[r] = None THEN r ELSE Ref[r]]
    /\ MoveTo(a, "delivered")
    /\ UNCHANGED <<runVars, task, outbox, sweep, remote, budget>>

\* Mutant: a report of a run without a link has nothing to deliver.
SendOrSkip(a) ==
    /\ Making(a, "ready") /\ Subject(a).kind # "created"
    /\ LET e == Subject(a)
           x == link[e.run]
       IN  IF x = None
           THEN MoveTo(a, "delivered") /\ UNCHANGED <<remote, budget>>
           ELSE Calls(a, Taking(x, e), "delivered")
    /\ UNCHANGED <<runVars, task, outbox, sweep, link>>

\* try_state, try_checkpoint, try_result: they fail for a run not mirrored yet.
Send(a) ==
    /\ Making(a, "ready") /\ Subject(a).kind # "created"
    /\ LET e == Subject(a)
           x == link[e.run]
       IN  IF x = None
           THEN MoveTo(a, "failed") /\ UNCHANGED <<remote, budget>>
           ELSE Calls(a, Taking(x, e), "delivered")
    /\ UNCHANGED <<runVars, task, outbox, sweep, link>>

\* The row is done, or due again after its backoff; done is not undone.  The
\* task of a completed run goes on to report its final metrics.
Finished(a) ==
    IF a = Sweeper THEN task
    ELSE [e \in Report |->
            IF e = a THEN "over"
            ELSE IF a.kind = "completed" /\ e = [a EXCEPT !.kind = "result"] THEN "spawned"
            ELSE task[e]]

\* Mutant: a row whose attempt failed is done with.
SettleDrops(a) ==
    /\ try[a] # None /\ try[a].stage \in {"delivered", "failed"}
    /\ outbox' = [outbox EXCEPT ![try[a].row].status = "done"]
    /\ try' = [try EXCEPT ![a] = None]
    /\ task' = Finished(a)
    /\ UNCHANGED <<runVars, sweep, link, remote, budget>>

Settle(a) ==
    /\ try[a] # None /\ try[a].stage \in {"delivered", "failed"}
    /\ outbox' = [outbox EXCEPT ![try[a].row].status =
                     IF try[a].stage = "delivered" THEN "done"
                     ELSE IF @ = "done" THEN @ ELSE "waiting"]
    /\ try' = [try EXCEPT ![a] = None]
    /\ task' = Finished(a)
    /\ UNCHANGED <<runVars, sweep, link, remote, budget>>

BackoffElapses(i) ==
    /\ i \in DOMAIN outbox /\ outbox[i].status = "waiting"
    /\ outbox' = [outbox EXCEPT ![i].status = "due"]
    /\ UNCHANGED <<runVars, task, try, sweep, link, remote, budget>>

\* A task that has not inserted its row yet is forgotten.
Crash ==
    /\ Spend("crash")
    /\ task' = [e \in Report |-> IF task[e] = "none" THEN "none" ELSE "over"]
    /\ try' = [a \in Attempter |-> None]
    /\ sweep' = {}
    /\ fetched' = {}
    /\ UNCHANGED <<todo, outbox, link, remote>>

-----------------------------------------------------------------------------

AttemptStep(a) == Post(a) \/ Linkback(a) \/ Attach(a) \/ SaveLink(a) \/ Send(a) \/ Settle(a)

MostRows == Cardinality(Report)

Next ==
    \/ \E r \in Run : Fetch(r) \/ Happens(r)
    \/ \E e \in Report : EnqueueAndAttempt(e)
    \/ SweepStart \/ SweepNext
    \/ \E a \in Attempter : AttemptStep(a)
    \/ \E i \in 1..MostRows : BackoffElapses(i)
    \/ Crash

\* The tasks and the loop keep running, and every backoff elapses.
Fairness ==
    /\ WF_vars(SweepStart \/ SweepNext)
    /\ \A e \in Report : WF_vars(EnqueueAndAttempt(e))
    /\ \A a \in Attempter : WF_vars(AttemptStep(a))
    /\ \A i \in 1..MostRows : WF_vars(BackoffElapses(i))

Spec == Init /\ [][Next]_vars /\ Fairness

-----------------------------------------------------------------------------
(***************************************************************************)
(* Properties.                                                             *)
(***************************************************************************)

\* Rows, attempts and links are what the code can make of them.
TypeOK ==
    /\ outbox \in Seq([report : Report, status : {"due", "waiting", "done"}])
    /\ \A i, j \in DOMAIN outbox : outbox[i].report = outbox[j].report => i = j
    /\ \A a \in Attempter : try[a] # None => try[a].row \in DOMAIN outbox
    /\ \A r \in Run : link[r] # None => remote[link[r]] # None

\* A row is marked done only for what the server has: the run is linked, and
\* the server took the report on the run it is linked to (attempt marks done
\* on Ok, and a run without a link is a failure).
DoneWasDelivered ==
    \A i \in DOMAIN outbox : outbox[i].status = "done" =>
        LET e == outbox[i].report
            x == link[e.run]
        IN  /\ x # None
            /\ IF e.kind # "created" THEN e \in remote[x].got
               ELSE Ref[e.run] # None => e.run \in remote[x].linked

\* The server minted a run for us whose id nobody has: the answer was lost or
\* the process died with it, and the slug is taken for good.
Stranded(r) ==
    /\ Ref[r] = None /\ remote[r] # None /\ link[r] = None
    /\ \A a \in Attempter : try[a] # None => ~(/\ Subject(a).run = r
                                               /\ try[a].stage \in {"minted", "linked"})

Recorded(e) == \E i \in DOMAIN outbox : outbox[i].report = e

\* The creation has arrived once the run is linked, any other report once the
\* run it is linked to has it.  A row may say less: if the process dies between
\* the link and the row, the server refuses the slug from then on and the row
\* is retried for ever.
Arrived(e) ==
    /\ link[e.run] # None
    /\ e.kind # "created" => e \in remote[link[e.run]].got

\* What is in the outbox arrives, if the run's creation is in it and the
\* server's run is not stranded, through failures, crashes and races of the
\* sweep with first attempts.
EveryReportArrives ==
    \A e \in Report :
        (Recorded(e) /\ Recorded([e EXCEPT !.kind = "created"]))
            ~> (Arrived(e) \/ Stranded(e.run))

\* Nothing the server took is lost again, and a run's reports all go to one
\* run of the server: neither a second attempt at the creation nor a second
\* link may start it over.
NothingIsForgotten ==
    [][/\ \A r \in Run : link[r] # None => link'[r] = link[r]
       /\ \A x \in RemoteRun : remote[x] # None =>
              remote[x].got \subseteq remote'[x].got]_vars
=============================================================================
