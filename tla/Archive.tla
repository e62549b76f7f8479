------------------------------ MODULE Archive ------------------------------
(***************************************************************************)
(* The archive tier: once the run of Lineage has completed, its final      *)
(* checkpoint is promoted to ckpt-final, uploaded to Drive and marked.     *)
(* The sweep does it for completed runs, an administrator for any run at   *)
(* any time, and again if forced; both go through archive_run, which reads *)
(* the row once and awaits between its steps.  The lifecycle rules of the  *)
(* artifact store take hot objects away.                                   *)
(*                                                                         *)
(*   arch     per archiver, the archive_run it is in                       *)
(*   final    per step, the object under ckpt-final                        *)
(*   onDrive  the checkpoint files uploaded to Drive                       *)
(***************************************************************************)
EXTENDS Lineage

VARIABLES arch, final, onDrive

archiveVars == <<arch, final, onDrive>>
vars == <<lineageVars, archiveVars>>

Archiver == {"sweep", "admin"}
Idle == [stage |-> "idle", step |-> 0, held |-> None]

Init ==
    /\ LineageInit
    /\ arch = [a \in Archiver |-> Idle]
    /\ final = [s \in Step |-> None]
    /\ onDrive = {}

-----------------------------------------------------------------------------
(***************************************************************************)
(* archive_run.                                                            *)
(***************************************************************************)

Archived(s) == rows[s].location = "drive" \/ rows[s].archived

At(a, stage) == arch[a].stage = stage
GoTo(a, stage) == arch' = [arch EXCEPT ![a].stage = stage]
GiveUp(a) == arch' = [arch EXCEPT ![a] = Idle]
\* Mutant: a checkpoint that was promoted is not taken up again.
BeginHot(a) ==
    /\ At(a, "idle") /\ Latest # 0
    /\ IF a = "admin" THEN Spend("archive")
       ELSE run = "completed" /\ rows[Latest].location = "hot" /\ UNCHANGED budget
    /\ arch' = [arch EXCEPT ![a] = [stage |-> "files", step |-> Latest, held |-> None]]
    /\ UNCHANGED <<hubVars, link, job, events, storeVars, outlived, final, onDrive>>

\* Mutant: an administrator's request is not looked up first.
BeginAnyway(a) ==
    /\ At(a, "idle")
    /\ IF a = "admin" THEN Spend("archive")
       ELSE Latest # 0 /\ run = "completed" /\ ~Archived(Latest) /\ UNCHANGED budget
    /\ arch' = [arch EXCEPT ![a] = [stage |-> "files", step |-> Latest, held |-> None]]
    /\ UNCHANGED <<hubVars, link, job, events, storeVars, outlived, final, onDrive>>

\* The sweep looks at completed runs; an administrator may force.
Begin(a) ==
    /\ At(a, "idle") /\ Latest # 0
    /\ IF a = "admin" THEN Spend("archive")
       ELSE run = "completed" /\ ~Archived(Latest) /\ UNCHANGED budget
    /\ arch' = [arch EXCEPT ![a] = [stage |-> "files", step |-> Latest, held |-> None]]
    /\ UNCHANGED <<hubVars, link, job, events, storeVars, outlived, final, onDrive>>

\* A file that is not there is skipped; a copy that fails is only logged.  The
\* model stands for both files.
Promote(a) ==
    /\ At(a, "files")
    /\ LET s == arch[a].step
       IN  IF hot[s] = None THEN GoTo(a, "uploaded") /\ UNCHANGED <<final, budget>>
           ELSE /\ arch' = [arch EXCEPT ![a] = [stage |-> "promoted", step |-> s,
                                                held |-> hot[s].weights]]
                /\ \/ final' = [final EXCEPT ![s] = hot[s].weights] /\ UNCHANGED budget
                   \/ UNCHANGED final /\ Spend("copy")
    /\ UNCHANGED <<hubVars, link, job, events, storeVars, outlived, onDrive>>

\* An upload that fails, perhaps after the file landed, ends the attempt.
Upload(a) ==
    /\ At(a, "promoted")
    /\ LET file == <<arch[a].step, arch[a].held>>
       IN  \/ onDrive' = onDrive \cup {file} /\ GoTo(a, "uploaded") /\ UNCHANGED budget
           \/ Spend("drive") /\ GiveUp(a) /\ onDrive' \in {onDrive, onDrive \cup {file}}
    /\ UNCHANGED <<hubVars, link, job, events, storeVars, outlived, final>>

MarkFinal(a) ==
    /\ At(a, "uploaded")
    /\ rows' = [rows EXCEPT ![arch[a].step].location = "final"]
    /\ GoTo(a, "logs")
    /\ UNCHANGED <<hubVars, link, job, events, hot, outlived, budget, final, onDrive>>

UploadLogs(a) ==
    /\ At(a, "logs")
    /\ \/ GoTo(a, "marking") /\ UNCHANGED budget
       \/ Spend("drive") /\ GiveUp(a)
    /\ UNCHANGED <<hubVars, link, job, events, storeVars, outlived, final, onDrive>>

ArchivedRow(row, held) ==
    [weights |-> row.weights, slices |-> row.slices, parent |-> row.parent,
     location |-> "drive", archived |-> TRUE, drive |-> held]

\* Mutant: the row of the checkpoint that is the latest by now is marked.
MarkLatest(a) ==
    /\ At(a, "marking")
    /\ rows' = [rows EXCEPT ![Latest] = ArchivedRow(@, arch[a].held)]
    /\ GiveUp(a)
    /\ UNCHANGED <<hubVars, link, job, events, hot, outlived, budget, final, onDrive>>

\* mark_checkpoint_archived
MarkArchived(a) ==
    /\ At(a, "marking")
    /\ rows' = [rows EXCEPT ![arch[a].step] = ArchivedRow(@, arch[a].held)]
    /\ GiveUp(a)
    /\ UNCHANGED <<hubVars, link, job, events, hot, outlived, budget, final, onDrive>>

Expire(s) ==
    /\ hot[s] # None /\ Spend("expire")
    /\ hot' = [hot EXCEPT ![s] = None]
    /\ UNCHANGED <<hubVars, link, job, events, rows, outlived, archiveVars>>

HubRestart ==
    /\ Restart
    /\ arch' = [a \in Archiver |-> Idle]
    /\ UNCHANGED <<final, onDrive>>

-----------------------------------------------------------------------------

ArchiveStep(a) ==
    \/ Begin(a) \/ Promote(a) \/ Upload(a)
    \/ MarkFinal(a) \/ UploadLogs(a) \/ MarkArchived(a)

Next ==
    \/ LineageNext /\ UNCHANGED archiveVars
    \/ \E a \in Archiver : ArchiveStep(a)
    \/ \E s \in Step : Expire(s)
    \/ HubRestart

\* The sweep's loop runs for the life of the process.
Spec == Init /\ [][Next]_vars /\ WF_vars(ArchiveStep("sweep"))

-----------------------------------------------------------------------------
(***************************************************************************)
(* Properties.                                                             *)
(***************************************************************************)

TypeOK ==
    /\ LineageTypeOK
    /\ \A a \in Archiver : At(a, "idle") \/ arch[a].step \in Recorded
    /\ \A s \in Step : final[s] # None => s \in Recorded
    /\ \A f \in onDrive : f[1] \in Recorded

\* What a row says is on Drive is there; and unless an attempt the hub had
\* given up wrote over the checkpoint, it is the very weights whose hash the
\* row has, and only one whose hot copy was gone is archived without.
ArchivedIsOnDrive ==
    \A s \in Recorded : rows[s].archived =>
        /\ rows[s].drive # None => <<s, rows[s].drive>> \in onDrive
        /\ ~outlived => IF rows[s].drive = None THEN hot[s] = None
                        ELSE rows[s].drive = rows[s].weights

\* The final checkpoint of a completed run is archived in the end, through
\* failed uploads, restarts and an administrator at work on the same run; or
\* the run is taken up again.
CompletedIsArchived ==
    (run = "completed" /\ Latest # 0) ~> (run # "completed" \/ (Latest # 0 /\ Archived(Latest)))
=============================================================================
