--------------------------- MODULE Mirror_proofs ---------------------------
(***************************************************************************)
(* What holds of every set of runs, plans and faults: a row that is done   *)
(* was delivered, and what the server took it keeps.                       *)
(***************************************************************************)
EXTENDS Mirror, SequenceTheorems, TLAPS

-----------------------------------------------------------------------------
(***************************************************************************)
(* The inductive invariant.                                                *)
(***************************************************************************)

Row == [report : Report, status : {"due", "waiting", "done"}]
Trial == [row : Nat, stage : {"ready", "minted", "linked", "delivered", "failed"}]
Given == [linked : SUBSET Run, got : SUBSET Report]

VarTypes ==
    /\ todo \in [Run -> Seq(Kind \ {"result"})]
    /\ task \in [Report -> {"none", "spawned", "trying", "over"}]
    /\ outbox \in Seq(Row)
    /\ try \in [Attempter -> Trial \cup {None}]
    /\ sweep \in SUBSET DOMAIN outbox
    /\ link \in [Run -> RemoteRun \cup {None}]
    /\ remote \in [RemoteRun -> Given \cup {None}]

\* A report that is still to come has no task yet, and comes once.
ToCome ==
    \A r \in Run :
        /\ \A i, j \in DOMAIN todo[r] : todo[r][i] = todo[r][j] => i = j
        /\ \A i \in DOMAIN todo[r] : /\ [run |-> r, kind |-> todo[r][i]] \in Report
                                     /\ task[[run |-> r, kind |-> todo[r][i]]] = "none"

\* The results are reported by the task of the completion.
ResultIsLast ==
    \A e \in Report : e.kind = "completed" /\ task[e] # "over" =>
        task[[run |-> e.run, kind |-> "result"]] = "none"

\* One row per report, made by its task.
RowOfTask ==
    /\ \A i, j \in DOMAIN outbox : outbox[i].report = outbox[j].report => i = j
    /\ \A i \in DOMAIN outbox : task[outbox[i].report] \in {"trying", "over"}

Home(r) == IF Ref[r] = None THEN r ELSE Ref[r]

LinkIsHome ==
    /\ \A x \in Logical : remote[x] # None
    /\ \A r \in Run : link[r] # None => link[r] = Home(r) /\ remote[Home(r)] # None

\* The server has what the report e says.
Has(e) ==
    /\ link[e.run] # None
    /\ IF e.kind # "created" THEN e \in remote[link[e.run]].got
       ELSE Ref[e.run] # None => e.run \in remote[link[e.run]].linked

\* What an attempt has achieved at each of its stages.
Achieved(a) ==
    LET e == Subject(a)
    IN  /\ try[a].stage \in {"minted", "linked"} =>
               /\ e.kind = "created"
               /\ Ref[e.run] = None => remote[e.run] # None
        /\ try[a].stage = "minted" => Ref[e.run] = None
        /\ try[a].stage = "linked" /\ Ref[e.run] # None =>
               e.run \in remote[Ref[e.run]].linked
        /\ try[a].stage = "delivered" => Has(e)

Trying ==
    \A a \in Attempter : try[a] # None =>
        /\ try[a].row \in DOMAIN outbox
        /\ a # Sweeper => Subject(a) = a /\ task[a] = "trying"
        /\ Achieved(a)

MirrorInv == /\ VarTypes /\ ToCome /\ ResultIsLast /\ RowOfTask
             /\ LinkIsHome /\ Trying /\ DoneWasDelivered

-----------------------------------------------------------------------------
(***************************************************************************)
(* Facts about reports and about what the server holds.                    *)
(***************************************************************************)

LEMMA ReportTypes ==
  /\ \A e \in Report : /\ e \in [run : Run, kind : Kind]
                       /\ e = [run |-> e.run, kind |-> e.kind]
                       /\ e # Sweeper
  /\ \A e \in Report : e.kind = "completed" => [run |-> e.run, kind |-> "result"] \in Report
BY DEF Report, Kind, Sweeper

LEMMA HomeTypes ==
  ASSUME NEW r \in Run
  PROVE  /\ Home(r) \in RemoteRun /\ Home(r) # None /\ r \in RemoteRun
         /\ Ref[r] # None => Ref[r] \in Logical /\ Ref[r] \in RemoteRun
BY MirrorAssumption DEF Home, RemoteRun

LEMMA InitInv == Init => MirrorInv
<1> SUFFICES ASSUME Init PROVE MirrorInv
  OBVIOUS
<1> USE DEF Init
<1>1. VarTypes
  <2>1. remote \in [RemoteRun -> Given \cup {None}]
    BY DEF RemoteRun, Given
  <2> QED BY <2>1, MirrorAssumption DEF VarTypes, Row, Trial
<1>2. ToCome
  <2> SUFFICES ASSUME NEW r \in Run, NEW i \in DOMAIN todo[r]
               PROVE  [run |-> r, kind |-> todo[r][i]] \in Report
    BY EachReportOnce DEF ToCome
  <2>1. todo \in Plan /\ todo[r] \in Seq(Kind)
    BY MirrorAssumption
  <2>2. todo[r][i] \in Kind
    BY <2>1
  <2> QED BY <2>1, <2>2 DEF Report
<1>3. ResultIsLast
  BY ReportTypes DEF ResultIsLast
<1>4. RowOfTask /\ DoneWasDelivered
  BY DEF RowOfTask, DoneWasDelivered
<1>5. LinkIsHome
  BY MirrorAssumption DEF LinkIsHome, RemoteRun
<1>6. Trying
  BY DEF Trying
<1> QED BY <1>1, <1>2, <1>3, <1>4, <1>5, <1>6 DEF MirrorInv

\* What runs exist on the server stays, and so does what they took.
RemoteGrows ==
    /\ remote' \in [RemoteRun -> Given \cup {None}]
    /\ \A x \in RemoteRun : remote[x] # None =>
           /\ remote'[x] # None
           /\ remote[x].linked \subseteq remote'[x].linked
           /\ remote[x].got \subseteq remote'[x].got

LinkIsKept ==
    /\ link' \in [Run -> RemoteRun \cup {None}]
    /\ \A r \in Run : link[r] # None => link'[r] = link[r]
    /\ \A r \in Run : link'[r] # None => link'[r] = Home(r) /\ remote'[Home(r)] # None

LEMMA HasIsKept ==
  ASSUME VarTypes, LinkIsHome, RemoteGrows, LinkIsKept, NEW e \in Report, Has(e)
  PROVE  Has(e)'
<1>1. e.run \in Run
  BY ReportTypes
<1>2. link[e.run] # None /\ link'[e.run] = link[e.run] /\ link[e.run] = Home(e.run)
  BY <1>1 DEF Has, LinkIsKept, LinkIsHome
<1>3. remote[link[e.run]] # None
  BY <1>1, <1>2 DEF LinkIsHome
<1>4. /\ remote[link[e.run]].linked \subseteq remote'[link[e.run]].linked
      /\ remote[link[e.run]].got \subseteq remote'[link[e.run]].got
  BY <1>1, <1>2, <1>3, HomeTypes DEF RemoteGrows
<1> QED BY <1>2, <1>4 DEF Has

LEMMA RowTypes ==
  ASSUME VarTypes
  PROVE  \A i \in DOMAIN outbox : outbox[i] \in Row
<1>1. outbox \in Seq(Row)
  BY DEF VarTypes
<1> QED BY <1>1

LEMMA SubjectTypes ==
  ASSUME VarTypes, Trying, NEW a \in Attempter, try[a] # None
  PROVE  /\ try[a] \in Trial /\ try[a].row \in DOMAIN outbox
         /\ outbox[try[a].row] \in Row
         /\ Subject(a) \in Report /\ Subject(a).run \in Run
<1>1. try[a] \in Trial /\ try[a].row \in DOMAIN outbox
  BY DEF VarTypes, Trying
<1>2. outbox[try[a].row] \in Row
  BY <1>1, RowTypes
<1>3. Subject(a) \in Report
  BY <1>2 DEF Subject, Row
<1> QED BY <1>1, <1>2, <1>3, ReportTypes

-----------------------------------------------------------------------------
(***************************************************************************)
(* An attempt that goes on.                                                *)
(***************************************************************************)

LEMMA MoveKeeps ==
  ASSUME MirrorInv, NEW a \in Attempter, try[a] # None,
         NEW s \in {"ready", "minted", "linked", "delivered", "failed"}, MoveTo(a, s),
         UNCHANGED <<runVars, task, outbox, sweep>>,
         RemoteGrows, LinkIsKept, Achieved(a)'
  PROVE  MirrorInv'
<1> USE DEF MirrorInv
<1>1. try[a] \in Trial
  BY SubjectTypes
<1>2. try' = [try EXCEPT ![a].stage = s] /\ try'[a] = [try[a] EXCEPT !.stage = s]
  BY DEF MoveTo, VarTypes
<1>3. try'[a] \in Trial /\ try'[a].row = try[a].row
  BY <1>1, <1>2 DEF Trial
<1>4. VarTypes'
  BY <1>2, <1>3 DEF VarTypes, runVars, RemoteGrows, LinkIsKept
<1>5. ToCome' /\ ResultIsLast' /\ RowOfTask'
  BY DEF ToCome, ResultIsLast, RowOfTask, runVars
<1>6. LinkIsHome'
  BY MirrorAssumption DEF LinkIsHome, LinkIsKept, RemoteGrows, RemoteRun
<1>7. Trying'
  <2> SUFFICES ASSUME NEW b \in Attempter, try'[b] # None
               PROVE  /\ try'[b].row \in DOMAIN outbox'
                      /\ b # Sweeper => Subject(b)' = b /\ task'[b] = "trying"
                      /\ Achieved(b)'
    BY DEF Trying
  <2>1. CASE b = a
    BY <2>1, <1>3 DEF Trying, Subject
  <2>2. CASE b # a
    <3>1. try'[b] = try[b] /\ Subject(b)' = Subject(b)
      BY <2>2, <1>2 DEF VarTypes, Subject
    <3>2. Subject(b) \in Report /\ Subject(b).run \in Run /\ Achieved(b)
      BY <3>1, SubjectTypes DEF Trying
    <3>3. Has(Subject(b)) => Has(Subject(b))'
      BY <3>1, <3>2, HasIsKept DEF Has
    <3>4. remote[Subject(b).run] # None => remote'[Subject(b).run] # None
      BY <3>2, HomeTypes DEF RemoteGrows
    <3>5. Ref[Subject(b).run] # None =>
            remote[Ref[Subject(b).run]].linked \subseteq remote'[Ref[Subject(b).run]].linked
      BY <3>2, HomeTypes DEF RemoteGrows, LinkIsHome
    <3>6. Achieved(b)'
      BY <3>1, <3>2, <3>3, <3>4, <3>5 DEF Achieved
    <3> QED BY <3>1, <3>6 DEF Trying
  <2> QED BY <2>1, <2>2
<1>8. DoneWasDelivered'
  <2> SUFFICES ASSUME NEW i \in DOMAIN outbox, outbox[i].status = "done"
               PROVE  Has(outbox[i].report)'
    BY DEF DoneWasDelivered, Has
  <2>1. outbox[i].report \in Report
    BY RowTypes DEF Row
  <2>2. Has(outbox[i].report)
    BY DEF DoneWasDelivered, Has
  <2>3. ASSUME NEW e \in Report, Has(e) PROVE Has(e)'
    BY <2>3, HasIsKept
  <2> QED BY <2>1, <2>2, <2>3 DEF Has
<1> QED BY <1>4, <1>5, <1>6, <1>7, <1>8

\* A call that takes effect only makes the server's runs grow; what an attempt
\* that failed has achieved is nothing.
LEMMA CallKeeps ==
  ASSUME MirrorInv, NEW a \in Attempter, Making(a, "ready"),
         NEW effect, NEW next \in {"minted", "linked", "delivered"}, Calls(a, effect, next),
         UNCHANGED <<runVars, task, outbox, sweep, link>>,
         remote' = effect => RemoteGrows,
         remote' = effect /\ try'[a].stage = next /\ try'[a].row = try[a].row => Achieved(a)'
  PROVE  MirrorInv'
<1> USE DEF MirrorInv
<1>1. try[a] # None /\ try[a] \in Trial
  BY SubjectTypes DEF Making
<1>2. RemoteGrows
  BY DEF Calls, RemoteGrows, VarTypes
<1>3. LinkIsKept
  BY <1>2, HomeTypes DEF LinkIsKept, LinkIsHome, VarTypes, RemoteGrows
<1>4. CASE remote' = effect /\ MoveTo(a, next)
  <2>1. try'[a].stage = next /\ try'[a].row = try[a].row
    BY <1>1, <1>4 DEF MoveTo, VarTypes, Trial
  <2> QED BY <1>1, <1>2, <1>3, <1>4, <2>1, MoveKeeps
<1>5. CASE MoveTo(a, "failed")
  <2>1. try'[a].stage = "failed"
    BY <1>1, <1>5 DEF MoveTo, VarTypes, Trial
  <2>2. Achieved(a)'
    BY <2>1 DEF Achieved
  <2> QED BY <1>1, <1>2, <1>3, <1>5, <2>2, MoveKeeps
<1> QED BY <1>4, <1>5 DEF Calls

LEMMA FailKeeps ==
  ASSUME MirrorInv, NEW a \in Attempter, try[a] # None, MoveTo(a, "failed"),
         UNCHANGED <<runVars, task, outbox, sweep, link, remote, budget>>
  PROVE  MirrorInv'
<1> USE DEF MirrorInv
<1>1. try'[a].stage = "failed"
  BY SubjectTypes DEF MoveTo, VarTypes, Trial
<1>2. Achieved(a)'
  BY <1>1 DEF Achieved
<1>3. RemoteGrows /\ LinkIsKept
  BY DEF RemoteGrows, LinkIsKept, LinkIsHome, VarTypes
<1> QED BY <1>2, <1>3, MoveKeeps

\* A run is linked once more.
LEMMA LinkingGrows ==
  ASSUME VarTypes, NEW x \in RemoteRun, remote[x] # None, NEW r \in Run,
         remote' = Linking(x, r)
  PROVE  RemoteGrows /\ r \in remote'[x].linked
<1>1. remote[x] \in Given
  BY DEF VarTypes
<1>2. [linked |-> remote[x].linked \cup {r}, got |-> remote[x].got] \in Given
  BY <1>1 DEF Given
<1> QED BY <1>1, <1>2, MirrorAssumption DEF Linking, RemoteGrows, VarTypes, Given

LEMMA PostKeeps ==
  ASSUME MirrorInv, NEW a \in Attempter, Post(a) PROVE MirrorInv'
<1> USE DEF MirrorInv
<1> DEFINE r == Subject(a).run
           effect == [remote EXCEPT ![r] = [linked |-> {}, got |-> {}]]
<1>1. /\ try[a] # None /\ try[a] \in Trial /\ Making(a, "ready")
      /\ r \in Run /\ r \in RemoteRun /\ Subject(a).kind = "created" /\ Ref[r] = None
  BY SubjectTypes, HomeTypes DEF Post, Making
<1>2. CASE remote[r] = None
  <2>1. Calls(a, effect, "minted") /\ UNCHANGED <<runVars, task, outbox, sweep, link>>
    BY <1>2 DEF Post
  <2>2. ASSUME remote' = effect PROVE RemoteGrows /\ remote'[r] # None
    <3>1. [linked |-> {}, got |-> {}] \in Given /\ [linked |-> {}, got |-> {}] # None
      BY MirrorAssumption DEF Given
    <3> QED BY <1>1, <1>2, <2>2, <3>1 DEF RemoteGrows, VarTypes
  <2>3. ASSUME remote' = effect, try'[a].stage = "minted", try'[a].row = try[a].row
        PROVE  Achieved(a)'
    BY <1>1, <2>1, <2>2, <2>3 DEF Achieved, Subject
  <2> HIDE DEF effect
  <2> QED BY <1>1, <2>1, <2>2, <2>3, CallKeeps
<1>3. CASE remote[r] # None
  <2>1. /\ MoveTo(a, "failed") /\ UNCHANGED <<remote, budget>>
        /\ UNCHANGED <<runVars, task, outbox, sweep, link>>
    BY <1>3 DEF Post
  <2> QED BY <1>1, <2>1, FailKeeps
<1> QED BY <1>2, <1>3

LEMMA LinkbackKeeps ==
  ASSUME MirrorInv, NEW a \in Attempter, Linkback(a) PROVE MirrorInv'
<1> USE DEF MirrorInv
<1> DEFINE r == Subject(a).run
<1>1. /\ try[a] # None /\ try[a] \in Trial /\ try[a].stage = "minted"
      /\ r \in Run /\ r \in RemoteRun
      /\ Subject(a).kind = "created" /\ Ref[r] = None /\ remote[r] # None
  BY SubjectTypes, HomeTypes DEF Linkback, Making, Trying, Achieved
<1>2. remote' = remote \/ remote' = Linking(r, r)
  BY DEF Linkback
<1>3. RemoteGrows
  BY <1>1, <1>2, LinkingGrows DEF RemoteGrows, VarTypes
<1>4. LinkIsKept
  BY <1>3, HomeTypes DEF Linkback, LinkIsKept, LinkIsHome, VarTypes, RemoteGrows
<1>5. MoveTo(a, "linked") /\ try'[a].stage = "linked" /\ try'[a].row = try[a].row
  BY <1>1 DEF Linkback, MoveTo, VarTypes, Trial
<1>6. Achieved(a)'
  BY <1>1, <1>3, <1>5 DEF Linkback, Achieved, Subject, RemoteGrows
<1> QED BY <1>1, <1>3, <1>4, <1>5, <1>6, MoveKeeps DEF Linkback

LEMMA AttachKeeps ==
  ASSUME MirrorInv, NEW a \in Attempter, Attach(a) PROVE MirrorInv'
<1> USE DEF MirrorInv
<1> DEFINE r == Subject(a).run
           effect == Linking(Ref[r], r)
<1>1. /\ try[a] # None /\ Making(a, "ready") /\ r \in Run
      /\ Subject(a).kind = "created" /\ Ref[r] # None
  BY SubjectTypes DEF Attach, Making
<1>2. Ref[r] \in RemoteRun /\ remote[Ref[r]] # None
  BY <1>1, HomeTypes DEF LinkIsHome
<1>3. Calls(a, effect, "linked") /\ UNCHANGED <<runVars, task, outbox, sweep, link>>
  BY DEF Attach
<1>4. remote' = effect => RemoteGrows /\ r \in remote'[Ref[r]].linked
  BY <1>1, <1>2, LinkingGrows
<1>5. ASSUME remote' = effect, try'[a].stage = "linked", try'[a].row = try[a].row
      PROVE  Achieved(a)'
  BY <1>1, <1>3, <1>4, <1>5 DEF Achieved, Subject
<1> HIDE DEF effect
<1> QED BY <1>1, <1>3, <1>4, <1>5, CallKeeps

LEMMA SaveLinkKeeps ==
  ASSUME MirrorInv, NEW a \in Attempter, SaveLink(a) PROVE MirrorInv'
<1> USE DEF MirrorInv
<1> DEFINE r == Subject(a).run
<1>1. /\ try[a] # None /\ try[a] \in Trial /\ try[a].stage = "linked" /\ r \in Run
      /\ Subject(a).kind = "created"
      /\ Ref[r] = None => remote[r] # None
      /\ Ref[r] # None => r \in remote[Ref[r]].linked
  BY SubjectTypes DEF SaveLink, Making, Trying, Achieved
<1>2. link' = [link EXCEPT ![r] = Home(r)] /\ UNCHANGED remote /\ MoveTo(a, "delivered")
  BY DEF SaveLink, Home
<1>3. Home(r) \in RemoteRun /\ Home(r) # None /\ remote[Home(r)] # None
  BY <1>1, HomeTypes DEF Home, LinkIsHome
<1>4. RemoteGrows /\ LinkIsKept
  BY <1>1, <1>2, <1>3 DEF RemoteGrows, LinkIsKept, LinkIsHome, VarTypes
<1>5. try'[a].stage = "delivered" /\ try'[a].row = try[a].row
  BY <1>1, <1>2 DEF MoveTo, VarTypes, Trial
<1>6. Subject(a)' = Subject(a) /\ link'[r] = Home(r)
  BY <1>1, <1>2, <1>5 DEF SaveLink, Subject, VarTypes
<1>7. Has(Subject(a))'
  BY <1>1, <1>2, <1>3, <1>6 DEF Has, Home
<1>8. Achieved(a)'
  BY <1>5, <1>6, <1>7 DEF Achieved
<1> QED BY <1>1, <1>2, <1>4, <1>8, MoveKeeps DEF SaveLink

LEMMA SendKeeps ==
  ASSUME MirrorInv, NEW a \in Attempter, Send(a) PROVE MirrorInv'
<1> USE DEF MirrorInv
<1> DEFINE e == Subject(a)
           x == link[e.run]
           effect == Taking(x, e)
<1>1. /\ try[a] # None /\ Making(a, "ready") /\ e \in Report /\ e.run \in Run
      /\ e.kind # "created" /\ UNCHANGED <<runVars, task, outbox, sweep, link>>
  BY SubjectTypes DEF Send, Making
<1>2. CASE x = None
  <2>1. MoveTo(a, "failed") /\ UNCHANGED <<remote, budget>>
    BY <1>2 DEF Send
  <2> QED BY <1>1, <2>1, FailKeeps
<1>3. CASE x # None
  <2>1. Calls(a, effect, "delivered")
    BY <1>3 DEF Send
  <2>2. x \in RemoteRun /\ remote[x] # None
    BY <1>1, <1>3, HomeTypes DEF LinkIsHome
  <2>3. remote' = effect => RemoteGrows /\ e \in remote'[x].got
    <3>1. remote[x] \in Given
      BY <2>2 DEF VarTypes
    <3>2. [linked |-> remote[x].linked, got |-> remote[x].got \cup {e}] \in Given
      BY <3>1, <1>1 DEF Given
    <3> QED BY <2>2, <3>1, <3>2, MirrorAssumption DEF Taking, RemoteGrows, VarTypes, Given
  <2>4. ASSUME remote' = effect, try'[a].stage = "delivered", try'[a].row = try[a].row
        PROVE  Achieved(a)'
    BY <1>1, <1>3, <2>3, <2>4 DEF Achieved, Subject, Has
  <2> HIDE DEF effect
  <2> QED BY <1>1, <2>1, <2>3, <2>4, CallKeeps
<1> QED BY <1>2, <1>3

-----------------------------------------------------------------------------
(***************************************************************************)
(* Rows and tasks.                                                         *)
(***************************************************************************)

LEMMA StatusKeeps ==
  ASSUME VarTypes, NEW i \in DOMAIN outbox, NEW s \in {"due", "waiting", "done"},
         outbox' = [outbox EXCEPT ![i].status = s]
  PROVE  /\ outbox' \in Seq(Row) /\ DOMAIN outbox' = DOMAIN outbox
         /\ \A j \in DOMAIN outbox : /\ outbox'[j].report = outbox[j].report
                                     /\ j # i => outbox'[j] = outbox[j]
         /\ outbox'[i].status = s
<1>1. outbox \in Seq(Row) /\ outbox[i] \in Row
  BY RowTypes DEF VarTypes
<1>2. [outbox[i] EXCEPT !.status = s] \in Row
  BY <1>1 DEF Row
<1> DEFINE row == [outbox[i] EXCEPT !.status = s]
<1>3. outbox' = [outbox EXCEPT ![i] = row] /\ row.status = s /\ row.report = outbox[i].report
  BY <1>1 DEF Row
<1> HIDE DEF row
<1>4. outbox' \in Seq(Row) /\ Len(outbox') = Len(outbox)
      /\ \A j \in 1..Len(outbox) : outbox'[j] = IF j = i THEN row ELSE outbox[j]
  BY <1>1, <1>2, <1>3, ExceptSeq
<1> QED BY <1>1, <1>3, <1>4

\* Attempts that are under way still are, and rows, links and runs are what
\* they were but for statuses and new rows.
LEMMA OthersKeep ==
  ASSUME MirrorInv, UNCHANGED <<link, remote>>,
         \A i \in DOMAIN outbox : i \in DOMAIN outbox' /\ outbox'[i].report = outbox[i].report,
         NEW b \in Attempter, try[b] # None, try'[b] = try[b],
         b # Sweeper => task'[b] = task[b]
  PROVE  /\ try'[b].row \in DOMAIN outbox'
         /\ b # Sweeper => Subject(b)' = b /\ task'[b] = "trying"
         /\ Achieved(b)'
<1>1. try[b].row \in DOMAIN outbox /\ (b # Sweeper => Subject(b) = b /\ task[b] = "trying")
      /\ Achieved(b)
  BY DEF MirrorInv, Trying
<1>2. Subject(b)' = Subject(b)
  BY <1>1 DEF Subject
<1>3. Achieved(b)'
  BY <1>1, <1>2 DEF Achieved, Has
<1> QED BY <1>1, <1>2, <1>3

LEMMA UntouchedKeeps ==
  ASSUME MirrorInv, UNCHANGED <<todo, task, outbox, try, link, remote>>,
         sweep' \in SUBSET DOMAIN outbox
  PROVE  MirrorInv'
<1> USE DEF MirrorInv
<1>1. VarTypes'
  BY DEF VarTypes
<1>2. ToCome' /\ ResultIsLast' /\ RowOfTask' /\ LinkIsHome' /\ DoneWasDelivered'
  BY DEF ToCome, ResultIsLast, RowOfTask, LinkIsHome, DoneWasDelivered
<1>3. Trying'
  BY OthersKeep DEF Trying
<1> QED BY <1>1, <1>2, <1>3

LEMMA SettleKeeps ==
  ASSUME MirrorInv, NEW a \in Attempter, Settle(a) PROVE MirrorInv'
<1> USE DEF MirrorInv
<1> DEFINE k == try[a].row
           s == IF try[a].stage = "delivered" THEN "done"
                ELSE IF outbox[k].status = "done" THEN "done" ELSE "waiting"
           e == Subject(a)
<1>1. /\ try[a] # None /\ k \in DOMAIN outbox /\ e \in Report /\ Achieved(a)
      /\ outbox[k].report = e
      /\ a # Sweeper => a = e /\ a \in Report /\ task[a] = "trying"
  BY SubjectTypes DEF Settle, Trying, Subject, Attempter
<1>2. /\ outbox' = [outbox EXCEPT ![k].status = s] /\ try' = [try EXCEPT ![a] = None]
      /\ task' = Finished(a) /\ UNCHANGED <<runVars, sweep, link, remote>>
  BY DEF Settle
<1>3. /\ outbox' \in Seq(Row) /\ DOMAIN outbox' = DOMAIN outbox
      /\ \A j \in DOMAIN outbox : /\ outbox'[j].report = outbox[j].report
                                  /\ j # k => outbox'[j] = outbox[j]
      /\ outbox'[k].status = s
  BY <1>1, <1>2, StatusKeeps
<1>4. /\ task' \in [Report -> {"none", "spawned", "trying", "over"}]
      /\ a = Sweeper => task' = task
      /\ a # Sweeper => /\ task'[a] = "over"
                        /\ \A f \in Report : f # a =>
                             \/ task'[f] = task[f]
                             \/ /\ a.kind = "completed" /\ f = [run |-> a.run, kind |-> "result"]
                                /\ task[f] = "none" /\ task'[f] = "spawned"
  <2>1. CASE a = Sweeper
    BY <2>1, <1>2 DEF Finished, VarTypes
  <2>2. CASE a # Sweeper
    <3>1. a \in Report /\ task[a] = "trying" /\ [a EXCEPT !.kind = "result"] = [run |-> a.run, kind |-> "result"]
      BY <2>2, <1>1, ReportTypes
    <3>2. a.kind = "completed" => task[[run |-> a.run, kind |-> "result"]] = "none"
      BY <3>1 DEF ResultIsLast
    <3> QED BY <2>2, <1>2, <3>1, <3>2, ReportTypes DEF Finished, VarTypes
  <2> QED BY <2>1, <2>2
<1>5. VarTypes'
  BY <1>2, <1>3, <1>4 DEF VarTypes, runVars
<1>6. \A f \in Report : task[f] = "none" /\ f.kind # "result" => task'[f] = "none"
  BY <1>1, <1>4
<1>7. ToCome'
  <2> SUFFICES ASSUME NEW r \in Run, NEW i \in DOMAIN todo[r]
               PROVE  task'[[run |-> r, kind |-> todo[r][i]]] = "none"
    BY <1>2 DEF ToCome, runVars
  <2>1. todo[r][i] # "result"
    BY DEF VarTypes
  <2> QED BY <2>1, <1>6 DEF ToCome
<1>8. ResultIsLast'
  <2> SUFFICES ASSUME NEW f \in Report, f.kind = "completed", task'[f] # "over"
               PROVE  task'[[run |-> f.run, kind |-> "result"]] = "none"
    BY DEF ResultIsLast
  <2>1. f # a /\ task[f] # "over"
    BY <1>4, ReportTypes
  <2>2. [run |-> f.run, kind |-> "result"] \in Report /\ task[[run |-> f.run, kind |-> "result"]] = "none"
    BY <2>1, ReportTypes DEF ResultIsLast
  <2>3. a # Sweeper /\ a.kind = "completed" => a.run # f.run
    BY <2>1, <1>1, ReportTypes
  <2>4. [run |-> f.run, kind |-> "result"] # a
    BY <1>1, <2>2, ReportTypes
  <2>5. a # Sweeper /\ a.kind = "completed" =>
           [run |-> f.run, kind |-> "result"] # [run |-> a.run, kind |-> "result"]
    BY <2>3
  <2> QED BY <1>4, <2>2, <2>4, <2>5
<1>9. RowOfTask'
  <2>1. \A i \in DOMAIN outbox : outbox[i].report \in Report
    BY RowTypes DEF Row
  <2>2. \A f \in Report : task[f] \in {"trying", "over"} => task'[f] \in {"trying", "over"}
    BY <1>1, <1>4
  <2>3. \A i \in DOMAIN outbox : task'[outbox[i].report] \in {"trying", "over"}
    BY <2>1, <2>2 DEF RowOfTask
  <2> QED BY <1>3, <2>3 DEF RowOfTask
<1>10. LinkIsHome'
  BY <1>2 DEF LinkIsHome
<1>11. Trying'
  <2> SUFFICES ASSUME NEW b \in Attempter, try'[b] # None
               PROVE  /\ try'[b].row \in DOMAIN outbox'
                      /\ b # Sweeper => Subject(b)' = b /\ task'[b] = "trying"
                      /\ Achieved(b)'
    BY DEF Trying
  <2>1. b # a /\ try'[b] = try[b]
    BY <1>2 DEF VarTypes
  <2>2. b # Sweeper => task[b] = "trying" /\ b \in Report
    BY <2>1 DEF Trying, Attempter
  <2>3. b # Sweeper => task'[b] = task[b]
    BY <1>4, <2>1, <2>2
  <2> QED BY <1>2, <1>3, <2>1, <2>3, OthersKeep
<1>12. DoneWasDelivered'
  <2> SUFFICES ASSUME NEW i \in DOMAIN outbox, outbox'[i].status = "done"
               PROVE  Has(outbox[i].report)
    BY <1>2, <1>3 DEF DoneWasDelivered, Has
  <2>1. CASE outbox[i].status = "done"
    BY <2>1 DEF DoneWasDelivered, Has
  <2>2. CASE i = k /\ try[a].stage = "delivered"
    BY <2>2, <1>1 DEF Achieved
  <2>3. i # k => outbox[i].status = "done"
    BY <1>3
  <2>4. i = k => try[a].stage = "delivered" \/ outbox[i].status = "done"
    BY <1>3
  <2> QED BY <2>1, <2>2, <2>3, <2>4
<1> QED BY <1>5, <1>7, <1>8, <1>9, <1>10, <1>11, <1>12

LEMMA HappensKeeps ==
  ASSUME MirrorInv, NEW r \in Run, Happens(r) PROVE MirrorInv'
<1> USE DEF MirrorInv
<1> DEFINE e == [run |-> r, kind |-> Head(todo[r])]
<1>1. /\ todo[r] \in Seq(Kind \ {"result"}) /\ todo[r] # <<>>
      /\ todo' = [todo EXCEPT ![r] = Tail(@)] /\ task' = [task EXCEPT ![e] = "spawned"]
      /\ UNCHANGED <<fetched, outbox, try, sweep, link, remote, budget>>
  BY DEF Happens, VarTypes
<1>2. 1 \in DOMAIN todo[r] /\ Head(todo[r]) = todo[r][1] /\ e.kind # "result"
  BY <1>1
<1>3. e \in Report /\ task[e] = "none"
  BY <1>2 DEF ToCome
<1>4. VarTypes'
  BY <1>1, <1>3 DEF VarTypes
<1>5. ToCome'
  <2>1. \A i \in DOMAIN todo'[r] : i + 1 \in DOMAIN todo[r] /\ todo'[r][i] = todo[r][i + 1] /\ i \in Nat \ {0}
    BY <1>1 DEF VarTypes
  <2>2. \A q \in Run : q # r => todo'[q] = todo[q]
    BY <1>1 DEF VarTypes
  <2> SUFFICES ASSUME NEW q \in Run
               PROVE  /\ \A i, j \in DOMAIN todo'[q] : todo'[q][i] = todo'[q][j] => i = j
                      /\ \A i \in DOMAIN todo'[q] :
                            /\ [run |-> q, kind |-> todo'[q][i]] \in Report
                            /\ task'[[run |-> q, kind |-> todo'[q][i]]] = "none"
    BY DEF ToCome
  <2>3. CASE q = r
    <3> SUFFICES ASSUME NEW i \in DOMAIN todo'[r], NEW j \in DOMAIN todo'[r]
                 PROVE  /\ todo'[r][i] = todo'[r][j] => i = j
                        /\ [run |-> r, kind |-> todo'[r][i]] \in Report
                        /\ task'[[run |-> r, kind |-> todo'[r][i]]] = "none"
      BY <2>3
    <3>1. /\ todo'[r][i] = todo[r][i + 1] /\ i + 1 \in DOMAIN todo[r] /\ i + 1 # 1
          /\ todo'[r][j] = todo[r][j + 1] /\ j + 1 \in DOMAIN todo[r] /\ i \in Nat /\ j \in Nat
      BY <2>1
    <3>2. todo'[r][i] # Head(todo[r])
      BY <3>1, <1>2 DEF ToCome
    <3>3. [run |-> r, kind |-> todo'[r][i]] # e
      BY <3>2
    <3>4. todo'[r][i] = todo'[r][j] => i + 1 = j + 1
      BY <3>1 DEF ToCome
    <3>5. [run |-> r, kind |-> todo'[r][i]] \in Report /\ task[[run |-> r, kind |-> todo'[r][i]]] = "none"
      BY <3>1 DEF ToCome
    <3> QED BY <3>1, <3>3, <3>4, <3>5, <1>1
  <2>4. CASE q # r
    BY <2>2, <2>4, <1>1 DEF ToCome
  <2> QED BY <2>3, <2>4
<1>6. ResultIsLast'
  BY <1>1, <1>2, <1>3, ReportTypes DEF ResultIsLast, VarTypes
<1>7. RowOfTask' /\ LinkIsHome' /\ DoneWasDelivered'
  BY <1>1, <1>3 DEF RowOfTask, LinkIsHome, DoneWasDelivered, VarTypes
<1>8. Trying'
  <2> SUFFICES ASSUME NEW b \in Attempter, try[b] # None
               PROVE  /\ try'[b].row \in DOMAIN outbox'
                      /\ b # Sweeper => Subject(b)' = b /\ task'[b] = "trying"
                      /\ Achieved(b)'
    BY <1>1 DEF Trying
  <2>1. b # Sweeper => task[b] = "trying" /\ b \in Report
    BY DEF Trying, Attempter
  <2>2. b # Sweeper => task'[b] = task[b]
    BY <2>1, <1>1, <1>3
  <2> QED BY <1>1, <2>2, OthersKeep
<1> QED BY <1>4, <1>5, <1>6, <1>7, <1>8

LEMMA EnqueueKeeps ==
  ASSUME MirrorInv, NEW e \in Report, EnqueueAndAttempt(e) PROVE MirrorInv'
<1> USE DEF MirrorInv
<1> DEFINE row == [report |-> e, status |-> "due"]
           n == Len(outbox) + 1
<1>1. /\ task[e] = "spawned" /\ task' = [task EXCEPT ![e] = "trying"]
      /\ outbox' = Append(outbox, row) /\ try' = [try EXCEPT ![e] = Attempt(n)]
      /\ UNCHANGED <<runVars, sweep, link, remote, budget>>
  BY DEF EnqueueAndAttempt
<1>2. row \in Row /\ outbox \in Seq(Row)
  BY DEF Row, VarTypes
<1>3. /\ outbox' \in Seq(Row) /\ DOMAIN outbox' = DOMAIN outbox \cup {n}
      /\ n \notin DOMAIN outbox /\ n \in Nat
      /\ \A i \in DOMAIN outbox : outbox'[i] = outbox[i]
      /\ outbox'[n] = row
  <2> HIDE DEF row
  <2> QED BY <1>1, <1>2
<1>4. e \in Attempter /\ e # Sweeper
  BY ReportTypes DEF Attempter
<1>5. Attempt(n) \in Trial /\ Attempt(n).row = n /\ Attempt(n).stage = "ready"
  BY <1>3 DEF Attempt, Trial
<1>6. VarTypes'
  BY <1>1, <1>3, <1>5 DEF VarTypes, runVars
<1>7. ToCome' /\ ResultIsLast'
  BY <1>1, ReportTypes DEF ToCome, ResultIsLast, VarTypes, runVars
<1>8. RowOfTask'
  <2>1. \A i \in DOMAIN outbox : outbox[i].report \in Report /\ outbox[i].report # e
    BY <1>1, RowTypes DEF RowOfTask, Row
  <2>2. row.report = e
    OBVIOUS
  <2>3. task'[e] = "trying" /\ \A f \in Report : f # e => task'[f] = task[f]
    BY <1>1 DEF VarTypes
  <2> HIDE DEF row
  <2> QED BY <1>3, <2>1, <2>2, <2>3 DEF RowOfTask
<1>9. LinkIsHome'
  BY <1>1 DEF LinkIsHome
<1>10. Trying'
  <2> SUFFICES ASSUME NEW b \in Attempter, try'[b] # None
               PROVE  /\ try'[b].row \in DOMAIN outbox'
                      /\ b # Sweeper => Subject(b)' = b /\ task'[b] = "trying"
                      /\ Achieved(b)'
    BY DEF Trying
  <2>1. CASE b = e
    <3>1. try'[e] = Attempt(n)
      BY <1>1, <1>4 DEF VarTypes
    <3>2. Achieved(e)'
      BY <3>1, <1>5 DEF Achieved
    <3> QED BY <2>1, <3>1, <3>2, <1>1, <1>3, <1>5 DEF Subject, VarTypes
  <2>2. CASE b # e
    <3>1. try'[b] = try[b] /\ (b # Sweeper => b \in Report)
      BY <2>2, <1>1 DEF VarTypes, Attempter
    <3>2. b # Sweeper => task'[b] = task[b]
      BY <2>2, <3>1, <1>1 DEF VarTypes
    <3>3. \A i \in DOMAIN outbox : i \in DOMAIN outbox' /\ outbox'[i].report = outbox[i].report
      BY <1>3
    <3> QED BY <1>1, <3>1, <3>2, <3>3, OthersKeep
  <2> QED BY <2>1, <2>2
<1>11. DoneWasDelivered'
  <2>1. row.status # "done"
    OBVIOUS
  <2> HIDE DEF row
  <2> QED BY <1>1, <1>3, <2>1 DEF DoneWasDelivered
<1> QED BY <1>6, <1>7, <1>8, <1>9, <1>10, <1>11

LEMMA SweepKeeps == MirrorInv /\ (SweepStart \/ SweepNext) => MirrorInv'
<1> USE DEF MirrorInv
<1>1. ASSUME MirrorInv, SweepStart PROVE MirrorInv'
  BY <1>1, UntouchedKeeps DEF SweepStart, Due, runVars
<1>2. ASSUME MirrorInv, SweepNext PROVE MirrorInv'
  <2>1. PICK i \in sweep : try' = [try EXCEPT ![Sweeper] = Attempt(i)] /\ sweep' = sweep \ {i}
    BY <1>2 DEF SweepNext
  <2>2. UNCHANGED <<runVars, task, outbox, link, remote, budget>>
    BY <1>2 DEF SweepNext
  <2>3. i \in DOMAIN outbox /\ i \in Nat /\ Sweeper \in Attempter
    BY <1>2 DEF VarTypes, Attempter
  <2>4. Attempt(i) \in Trial /\ Attempt(i).row = i /\ Attempt(i).stage = "ready"
    BY <2>3 DEF Attempt, Trial
  <2>5. VarTypes'
    BY <1>2, <2>1, <2>2, <2>4 DEF VarTypes, runVars
  <2>6. ToCome' /\ ResultIsLast' /\ RowOfTask' /\ LinkIsHome' /\ DoneWasDelivered'
    BY <1>2, <2>2 DEF ToCome, ResultIsLast, RowOfTask, LinkIsHome, DoneWasDelivered, runVars
  <2>7. ASSUME NEW b \in Attempter, try'[b] # None
        PROVE  /\ try'[b].row \in DOMAIN outbox'
               /\ b # Sweeper => Subject(b)' = b /\ task'[b] = "trying"
               /\ Achieved(b)'
    <3>1. CASE b = Sweeper
      <4>1. try'[b] = Attempt(i)
        BY <1>2, <2>1, <2>3, <3>1 DEF VarTypes
      <4> QED BY <2>2, <2>3, <2>4, <3>1, <4>1 DEF Achieved
    <3>2. CASE b # Sweeper
      <4>1. try'[b] = try[b]
        BY <1>2, <2>1, <3>2 DEF VarTypes
      <4> QED BY <1>2, <2>2, <2>7, <4>1, OthersKeep
    <3> QED BY <3>1, <3>2
  <2>8. Trying'
    BY <2>7 DEF Trying
  <2> QED BY <2>5, <2>6, <2>8
<1> QED BY <1>1, <1>2

LEMMA BackoffKeeps ==
  ASSUME MirrorInv, NEW k, BackoffElapses(k) PROVE MirrorInv'
<1> USE DEF MirrorInv
<1>1. /\ k \in DOMAIN outbox /\ outbox' = [outbox EXCEPT ![k].status = "due"]
      /\ UNCHANGED <<runVars, task, try, sweep, link, remote, budget>>
  BY DEF BackoffElapses
<1>2. /\ outbox' \in Seq(Row) /\ DOMAIN outbox' = DOMAIN outbox
      /\ \A j \in DOMAIN outbox : /\ outbox'[j].report = outbox[j].report
                                  /\ j # k => outbox'[j] = outbox[j]
      /\ outbox'[k].status = "due"
  BY <1>1, StatusKeeps
<1>3. VarTypes'
  BY <1>1, <1>2 DEF VarTypes, runVars
<1>4. ToCome' /\ ResultIsLast' /\ RowOfTask' /\ LinkIsHome'
  BY <1>1, <1>2 DEF ToCome, ResultIsLast, RowOfTask, LinkIsHome, runVars
<1>5. Trying'
  BY <1>1, <1>2, OthersKeep DEF Trying
<1>6. DoneWasDelivered'
  BY <1>1, <1>2 DEF DoneWasDelivered
<1> QED BY <1>3, <1>4, <1>5, <1>6

LEMMA CrashKeeps == MirrorInv /\ Crash => MirrorInv'
<1> SUFFICES ASSUME MirrorInv, Crash PROVE MirrorInv'
  OBVIOUS
<1> USE DEF MirrorInv
<1>1. /\ task' = [e \in Report |-> IF task[e] = "none" THEN "none" ELSE "over"]
      /\ try' = [a \in Attempter |-> None] /\ sweep' = {}
      /\ UNCHANGED <<todo, outbox, link, remote>>
  BY DEF Crash
<1>2. VarTypes'
  BY <1>1 DEF VarTypes
<1>3. ToCome' /\ ResultIsLast'
  BY <1>1, ReportTypes DEF ToCome, ResultIsLast
<1>4. RowOfTask'
  BY <1>1, RowTypes DEF RowOfTask, Row
<1>5. LinkIsHome' /\ Trying' /\ DoneWasDelivered'
  BY <1>1 DEF LinkIsHome, Trying, DoneWasDelivered
<1> QED BY <1>2, <1>3, <1>4, <1>5

LEMMA AttemptForgetsNothing ==
  ASSUME MirrorInv, NEW a \in Attempter, AttemptStep(a)
  PROVE  /\ \A r \in Run : link[r] # None => link'[r] = link[r]
         /\ \A x \in RemoteRun : remote[x] # None => remote[x].got \subseteq remote'[x].got
<1> USE DEF MirrorInv
<1> DEFINE r == Subject(a).run
<1>1. r \in Run /\ r \in RemoteRun
  BY SubjectTypes, HomeTypes DEF AttemptStep, Post, Linkback, Attach, SaveLink, Send, Settle, Making
<1>2. CASE Post(a)
  BY <1>1, <1>2 DEF Post, Calls, VarTypes
<1>3. ASSUME NEW x \in RemoteRun, remote' = Linking(x, r)
      PROVE  \A y \in RemoteRun : remote[y].got \subseteq remote'[y].got
  BY <1>3 DEF Linking, VarTypes
<1>4. CASE Linkback(a)
  BY <1>1, <1>3, <1>4 DEF Linkback
<1>5. CASE Attach(a)
  <2>1. Ref[r] \in RemoteRun
    BY <1>1, <1>5, HomeTypes DEF Attach
  <2>2. UNCHANGED link /\ (remote' = Linking(Ref[r], r) \/ UNCHANGED remote)
    BY <1>5 DEF Attach, Calls
  <2> QED BY <1>3, <2>1, <2>2
<1>6. CASE SaveLink(a)
  <2>1. Making(a, "linked") /\ link' = [link EXCEPT ![r] = Home(r)] /\ UNCHANGED remote
    BY <1>6 DEF SaveLink, Home
  <2> QED BY <1>1, <2>1 DEF LinkIsHome, VarTypes
<1>7. CASE Send(a)
  BY <1>7 DEF Send, Calls, Taking, VarTypes
<1>8. CASE Settle(a)
  BY <1>8 DEF Settle
<1> QED BY <1>2, <1>4, <1>5, <1>6, <1>7, <1>8 DEF AttemptStep

LEMMA NextInv == MirrorInv /\ [Next]_vars => MirrorInv'
<1> SUFFICES ASSUME MirrorInv, [Next]_vars PROVE MirrorInv'
  OBVIOUS
<1>1. ASSUME NEW r \in Run, Fetch(r) PROVE MirrorInv'
  BY <1>1, UntouchedKeeps DEF Fetch, MirrorInv, VarTypes
<1>2. ASSUME NEW a \in Attempter, AttemptStep(a) PROVE MirrorInv'
  BY <1>2, PostKeeps, LinkbackKeeps, AttachKeeps, SaveLinkKeeps, SendKeeps, SettleKeeps
     DEF AttemptStep
<1>3. CASE UNCHANGED vars
  BY <1>3, UntouchedKeeps DEF vars, runVars, MirrorInv, VarTypes
<1> QED BY <1>1, <1>2, <1>3, HappensKeeps, EnqueueKeeps, SweepKeeps, BackoffKeeps, CrashKeeps
        DEF Next

LEMMA MirrorInvariant == Spec => []MirrorInv
BY InitInv, NextInv, PTL DEF Spec

-----------------------------------------------------------------------------
(***************************************************************************)
(* The theorems.                                                           *)
(***************************************************************************)

\* Rows, attempts and links are what the code can make of them: among them,
\* that a report has one row and a link leads to a run the server has.
THEOREM MirrorTypes == Spec => []TypeOK
<1>1. MirrorInv => TypeOK
  BY DEF MirrorInv, VarTypes, Row, RowOfTask, Trying, LinkIsHome, TypeOK
<1> QED BY <1>1, MirrorInvariant, PTL

\* attempt marks a row done only for what the server has, whatever answers are
\* lost and wherever the process dies, for first attempts and the sweep alike.
THEOREM MirrorDelivers == Spec => []DoneWasDelivered
<1>1. MirrorInv => DoneWasDelivered
  BY DEF MirrorInv
<1> QED BY <1>1, MirrorInvariant, PTL

\* Neither a second creation nor a second link starts the server's run over:
\* a link once saved stays, and what a run of the server took it keeps.
THEOREM MirrorForgetsNothing == Spec => NothingIsForgotten
<1> DEFINE Kept == /\ \A r \in Run : link[r] # None => link'[r] = link[r]
                   /\ \A x \in RemoteRun : remote[x] # None =>
                          remote[x].got \subseteq remote'[x].got
<1>1. MirrorInv /\ [Next]_vars => [Kept]_vars
  <2> SUFFICES ASSUME MirrorInv, Next PROVE Kept
    OBVIOUS
  <2>1. ASSUME NEW a \in Attempter, AttemptStep(a) PROVE Kept
    BY <2>1, AttemptForgetsNothing
  <2>2. CASE UNCHANGED <<link, remote>>
    BY <2>2
  <2> QED BY <2>1, <2>2 DEF Next, Fetch, Happens, EnqueueAndAttempt, SweepStart, SweepNext,
                            BackoffElapses, Crash
<1> QED BY <1>1, MirrorInvariant, PTL DEF Spec, NothingIsForgotten
=============================================================================
