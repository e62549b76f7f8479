------------------------------- MODULE Leases -------------------------------
(***************************************************************************)
(* The lease manager.  Provisioning, extension and teardown are requests   *)
(* of clients; the clock pass and the reconcile pass are loops.  Each is a *)
(* sequence of store and provider calls, and any other may run between two *)
(* of them: a task therefore keeps what it read in a record of its own.    *)
(*                                                                         *)
(*   prov      per worker id, how far the provision that minted it is      *)
(*   rows      workers in the order their lease rows were inserted         *)
(*   age       minutes since started_at                                    *)
(*   ext       per client, the extension it is asking for                  *)
(*   closing   per client and for the clock, its destroy_and_verify        *)
(*   clock     the clock pass: its stage and the verdicts still to do      *)
(*   reconcile the reconcile pass: owned instances, providers to list and  *)
(*             orphans to kill; None between passes                        *)
(*   idle      LeaseManager.idle_since                                     *)
(*   joined, busy, queued   what the idle reaper reads of the hub: workers *)
(*             that registered, those with a run, and whether runs wait    *)
(*   crashed   the process has died at least once                          *)
(*   checked   tasks whose budget check still describes the books          *)
(***************************************************************************)
EXTENDS Provider, Sequences

CONSTANTS Request,       \* the provisions that may be asked for
          Client,        \* callers of the API
          Minutes,       \* minutes an extension may ask for
          Cap0,          \* the budgets the books may start from
          NewCap,        \* the cap an administrator may set later
          DrainWindow,   \* config.drain_window_min
          MaxAge         \* ages are not told apart beyond this bound

Clock == "clock"

Teardowns == [worker : Worker, stage : {"destroy", "verify", "charge"}]
Provisions == [stage : {"asked", "rented", "cleared", "over"}, ask : Request]

ASSUME LeaseAssumption ==
    /\ \A q \in Request : /\ q.worker \in Worker /\ q.provider \in Provider
                          /\ q.minutes \in Nat /\ q.price \in Nat
    /\ Minutes \subseteq Nat \ {0} /\ DrainWindow \in Nat /\ MaxAge \in Nat
    /\ Clock \notin Client /\ Client \cap Worker = {} /\ None \notin Request \cup Client
    /\ Cap0 \subseteq [Scope -> Cap \cup {None}] /\ NewCap \in Cap
    /\ None \notin Teardowns \cup Provisions

VARIABLES prov, rows, age, ext, closing, clock, reconcile, idle,
          joined, busy, queued, crashed, checked

taskVars == <<prov, ext, closing, clock, reconcile, idle>>
hubVars == <<joined, busy, queued, crashed>>
storeVars == <<booksVars, rows, age, hubVars>>
vars == <<storeVars, billed, budget, taskVars, checked>>

Resting == [stage |-> "idle", todo |-> [w \in {} |-> "keep"]]

Init ==
    /\ lease = [w \in Worker |-> None]
    /\ ledger = [w \in Worker |-> [month |-> 0, before |-> 0, ends |-> 0]]
    /\ caps \in Cap0
    /\ billed = [w \in Worker |-> None]
    /\ budget \in FaultBudget
    /\ prov = [w \in Worker |-> None]
    /\ rows = <<>>
    /\ age = [w \in Worker |-> 0]
    /\ ext = [c \in Client |-> None]
    /\ closing = [t \in Client \cup {Clock} |-> None]
    /\ clock = Resting
    /\ reconcile = None
    /\ idle = [w \in Worker |-> "no"]
    /\ joined = {} /\ busy = {} /\ queued = FALSE
    /\ crashed = FALSE
    /\ checked = {}

-----------------------------------------------------------------------------
(***************************************************************************)
(* Provisioning: a zero-cost pre-flight, the rent, an exact check at the   *)
(* provider's price, and only then the lease row.                          *)
(***************************************************************************)

At(w, stage) == prov[w] # None /\ prov[w].stage = stage
MoveTo(w, stage) == prov' = [prov EXCEPT ![w].stage = stage]

RequestProvision(q) ==
    /\ prov[q.worker] = None
    /\ Spend("provision")
    /\ ~Breaches(q.provider, 0)
    /\ prov' = [prov EXCEPT ![q.worker] = [stage |-> "asked", ask |-> q]]
    /\ UNCHANGED <<storeVars, billed, ext, closing, clock, reconcile, idle>>

Rent(w) ==
    /\ At(w, "asked")
    /\ LET p == prov[w].ask.provider
       IN  \/ /\ MockProvision(w, p) \/ VastProvision(w, p)
              /\ MoveTo(w, "rented")
           \/ /\ VastProvisionLost(w, p) \/ ProvisionFails
              /\ MoveTo(w, "over")
    /\ UNCHANGED <<storeVars, ext, closing, clock, reconcile, idle>>

Cost(q) == q.price * q.minutes

\* Mutant: the pre-flight's word is taken for the real price.
ExactCheckSkipped(w) ==
    /\ At(w, "rented")
    /\ MoveTo(w, "cleared")
    /\ UNCHANGED <<storeVars, billed, budget, ext, closing, clock, reconcile, idle>>

\* Refused, the instance is destroyed at once; if that fails too it is left to
\* the reconcile loop.
ExactCheck(w) ==
    /\ At(w, "rented")
    /\ LET q == prov[w].ask
       IN  IF Breaches(q.provider, Cost(q))
           THEN /\ Destroyed(w, q.provider) \/ DestroyFails(q.provider)
                /\ MoveTo(w, "over")
           ELSE MoveTo(w, "cleared") /\ UNCHANGED <<billed, budget>>
    /\ UNCHANGED <<storeVars, ext, closing, clock, reconcile, idle>>

RecordLease(w) ==
    /\ At(w, "cleared")
    /\ LET q == prov[w].ask
       IN  lease' = [lease EXCEPT ![w] =
                       [provider |-> q.provider, price |-> q.price,
                        granted |-> q.minutes, extended |-> 0, state |-> "active"]]
    /\ rows' = Append(rows, w)
    /\ MoveTo(w, "over")
    /\ UNCHANGED <<ledger, caps, age, hubVars, billed, budget, ext, closing,
                   clock, reconcile, idle>>

-----------------------------------------------------------------------------
(***************************************************************************)
(* Extension: a check, then the store's read and write of the row, which   *)
(* is also what the decision to reactivate the lease was read from.        *)
(***************************************************************************)

Free(c) == ext[c] = None /\ closing[c] = None

AskExtend(c, w, minutes) ==
    /\ Free(c) /\ lease[w] # None
    /\ Spend("extend")
    /\ ~Breaches(lease[w].provider, lease[w].price * minutes)
    /\ ext' = [ext EXCEPT ![c] = [worker |-> w, minutes |-> minutes, row |-> None]]
    /\ UNCHANGED <<storeVars, billed, prov, closing, clock, reconcile, idle>>

ReadLease(c) ==
    /\ ext[c] # None /\ ext[c].row = None
    /\ ext' = [ext EXCEPT ![c].row = lease[ext[c].worker]]
    /\ UNCHANGED <<storeVars, billed, budget, prov, closing, clock, reconcile, idle>>

WriteExtension(c) ==
    /\ ext[c] # None /\ ext[c].row # None
    /\ LET w == ext[c].worker
           row == ext[c].row
       IN  lease' = [lease EXCEPT ![w] =
               [provider |-> @.provider, price |-> @.price, granted |-> @.granted,
                extended |-> row.extended + ext[c].minutes,
                state |-> IF row.state = "draining" THEN "active" ELSE @.state]]
    /\ ext' = [ext EXCEPT ![c] = None]
    /\ UNCHANGED <<ledger, caps, rows, age, hubVars, billed, budget, prov,
                   closing, clock, reconcile, idle>>

-----------------------------------------------------------------------------
(***************************************************************************)
(* Tearing a lease down: destroy at the provider, poll until it says Gone  *)
(* or the poll times out, record the row as destroyed, charge the ledger.  *)
(***************************************************************************)

\* drain writes the state without looking at the row again.
Drained(w) == lease' = [lease EXCEPT ![w].state = "draining"]

Begin(t, w) == closing' = [closing EXCEPT ![t] = [worker |-> w, stage |-> "destroy"]]
Closing(t, stage) == closing[t] # None /\ closing[t].stage = stage

Teardown(c, w, drainFirst) ==
    /\ Free(c) /\ lease[w] # None
    /\ Spend("teardown")
    /\ IF drainFirst THEN Drained(w) ELSE UNCHANGED lease
    /\ Begin(c, w)
    /\ UNCHANGED <<ledger, caps, rows, age, hubVars, billed, prov, ext, clock,
                   reconcile, idle>>

Destroy(t) ==
    /\ Closing(t, "destroy")
    /\ Destroyed(closing[t].worker, lease[closing[t].worker].provider)
    /\ closing' = [closing EXCEPT ![t].stage = "verify"]
    /\ UNCHANGED <<storeVars, prov, ext, clock, reconcile, idle>>

\* The error ends the request; in the clock it ends the whole pass.
DestroyRefused(t) ==
    /\ Closing(t, "destroy")
    /\ DestroyFails(lease[closing[t].worker].provider)
    /\ closing' = [closing EXCEPT ![t] = None]
    /\ clock' = IF t = Clock THEN Resting ELSE clock
    /\ UNCHANGED <<storeVars, prov, ext, reconcile, idle>>

\* The poll ends one way or the other, and the row is written either way.
RecordDestroyed(t) ==
    /\ Closing(t, "verify")
    /\ lease' = [lease EXCEPT ![closing[t].worker].state = "destroyed"]
    /\ idle' = [idle EXCEPT ![closing[t].worker] = "no"]
    /\ closing' = [closing EXCEPT ![t].stage = "charge"]
    /\ UNCHANGED <<ledger, caps, rows, age, hubVars, billed, budget, prov, ext,
                   clock, reconcile>>

\* Mutant: the minutes that were paid for and not used are credited.
ChargeCredits(t) ==
    /\ Closing(t, "charge")
    /\ LET w == closing[t].worker
       IN  ledger' = [ledger EXCEPT ![w] =
               [month |-> @.month + lease[w].price * (age[w] - lease[w].granted),
                before |-> @.before, ends |-> @.ends + 1]]
    /\ closing' = [closing EXCEPT ![t] = None]
    /\ UNCHANGED <<lease, caps, rows, age, hubVars, billed, budget, prov, ext,
                   clock, reconcile, idle>>

\* Mutant: only a destroy the provider confirmed is charged.
ChargeConfirmed(t) ==
    /\ Closing(t, "charge")
    /\ LET w == closing[t].worker
       IN  ledger' = IF billed[w] # None THEN ledger
                     ELSE [ledger EXCEPT ![w] =
                              [month |-> @.month + lease[w].price * age[w],
                               before |-> @.before, ends |-> @.ends + 1]]
    /\ closing' = [closing EXCEPT ![t] = None]
    /\ UNCHANGED <<lease, caps, rows, age, hubVars, billed, budget, prov, ext,
                   clock, reconcile, idle>>

Charge(t) ==
    /\ Closing(t, "charge")
    /\ LET w == closing[t].worker
       IN  ledger' = [ledger EXCEPT ![w] = [month |-> @.month + lease[w].price * age[w],
                                            before |-> @.before, ends |-> @.ends + 1]]
    /\ closing' = [closing EXCEPT ![t] = None]
    /\ UNCHANGED <<lease, caps, rows, age, hubVars, billed, budget, prov, ext,
                   clock, reconcile, idle>>

-----------------------------------------------------------------------------
(***************************************************************************)
(* The clock pass: verdicts on a snapshot of the live leases, carried out  *)
(* one by one, then the idle reaper on a snapshot of its own.              *)
(***************************************************************************)

Wall(w) == TotalGranted(lease[w])
DrainPoint(w) == IF Wall(w) > DrainWindow THEN Wall(w) - DrainWindow ELSE 0

Verdict(w) ==
    IF age[w] >= Wall(w) THEN "wall"
    ELSE IF lease[w].state = "active" /\ age[w] >= DrainPoint(w) THEN "drain"
    ELSE "keep"

ClockStart ==
    /\ clock.stage = "idle" /\ DOMAIN clock.todo = {} /\ closing[Clock] = None
    /\ clock' = [stage |-> "walls",
                 todo |-> [w \in {v \in Live : Verdict(v) # "keep"} |-> Verdict(w)]]
    /\ UNCHANGED <<storeVars, billed, budget, prov, ext, closing, reconcile, idle>>

Before(v, w) == \E i, j \in DOMAIN rows : i < j /\ rows[i] = v /\ rows[j] = w

\* The verdicts are carried out in row order.
TakeUp(w) ==
    /\ w \in DOMAIN clock.todo
    /\ \A v \in DOMAIN clock.todo \ {w} : Before(w, v)
    /\ clock' = [stage |-> clock.stage,
                 todo |-> [v \in DOMAIN clock.todo \ {w} |-> clock.todo[v]]]

\* Mutant: a lease past its wall is drained, not destroyed.
ClockDrains(w) ==
    /\ closing[Clock] = None /\ TakeUp(w)
    /\ Drained(w)
    /\ UNCHANGED <<ledger, caps, rows, age, hubVars, billed, budget, prov, ext,
                   closing, reconcile, idle>>

ClockNext(w) ==
    /\ closing[Clock] = None /\ TakeUp(w)
    /\ IF clock.todo[w] = "wall" THEN UNCHANGED lease ELSE Drained(w)
    /\ IF clock.todo[w] = "drain" THEN UNCHANGED closing ELSE Begin(Clock, w)
    /\ UNCHANGED <<ledger, caps, rows, age, hubVars, billed, budget, prov, ext,
                   reconcile, idle>>

\* A live lease is idle when nothing is queued and its registered worker has
\* no run; a worker that never registered is not.
IsIdle(w) == /\ ~queued
             /\ lease[w].state = "active"
             /\ w \in joined \ busy

ReapIdle ==
    /\ clock.stage = "walls" /\ DOMAIN clock.todo = {} /\ closing[Clock] = None
    /\ idle' = [w \in Worker |-> IF w \notin Live THEN idle[w]
                                 ELSE IF ~IsIdle(w) THEN "no"
                                 ELSE IF idle[w] = "no" THEN "since" ELSE idle[w]]
    /\ clock' = [stage |-> "idle",
                 todo |-> [w \in {v \in Live : IsIdle(v) /\ idle[v] = "ripe"} |-> "reap"]]
    /\ UNCHANGED <<storeVars, billed, budget, prov, ext, closing, reconcile>>

-----------------------------------------------------------------------------
(***************************************************************************)
(* The reconcile pass: the live leases are listed first, each provider's   *)
(* instances later, and what is not owned is killed.                       *)
(***************************************************************************)

ReconcileStart ==
    /\ reconcile = None
    /\ reconcile' = [owned |-> Live, todo |-> Provider, orphans |-> {}]
    /\ UNCHANGED <<storeVars, billed, budget, prov, ext, closing, clock, idle>>

ListInstances(p) ==
    /\ reconcile # None /\ reconcile.orphans = {} /\ p \in reconcile.todo
    /\ \/ /\ UNCHANGED budget
          /\ reconcile' = [reconcile EXCEPT !.todo = @ \ {p},
                                            !.orphans = Instances(p) \ reconcile.owned]
       \/ /\ Spend("list")
          /\ reconcile' = [reconcile EXCEPT !.todo = @ \ {p}]
    /\ UNCHANGED <<storeVars, billed, prov, ext, closing, clock, idle>>

\* A destroy that fails is only logged.
KillOrphan(w) ==
    /\ reconcile # None /\ w \in reconcile.orphans
    /\ LET p == prov[w].ask.provider IN Destroyed(w, p) \/ DestroyFails(p)
    /\ reconcile' = [reconcile EXCEPT !.orphans = @ \ {w}]
    /\ UNCHANGED <<storeVars, prov, ext, closing, clock, idle>>

ReconcileEnd ==
    /\ reconcile # None /\ reconcile.todo = {} /\ reconcile.orphans = {}
    /\ reconcile' = None
    /\ UNCHANGED <<storeVars, billed, budget, prov, ext, closing, clock, idle>>

-----------------------------------------------------------------------------
(***************************************************************************)
(* Time, the hub, administrators and crashes.                              *)
(***************************************************************************)

\* A minute passes; a worker idle since before it has been idle long enough.
Tick ==
    /\ \E w \in Worker : lease[w] # None /\ age[w] < MaxAge
    /\ age' = [w \in Worker |-> IF lease[w] # None /\ age[w] < MaxAge
                                THEN age[w] + 1 ELSE age[w]]
    /\ idle' = [w \in Worker |-> IF idle[w] = "since" THEN "ripe" ELSE idle[w]]
    /\ UNCHANGED <<booksVars, rows, hubVars, billed, budget, prov, ext, closing,
                   clock, reconcile>>

Join(w) ==
    /\ billed[w] # None /\ w \notin joined
    /\ joined' = joined \cup {w}
    /\ UNCHANGED <<booksVars, rows, age, busy, queued, crashed, billed, budget, taskVars>>

Submit ==
    /\ ~queued /\ Spend("submit")
    /\ queued' = TRUE
    /\ UNCHANGED <<booksVars, rows, age, joined, busy, crashed, billed, taskVars>>

\* The hub gives the queue's run to a free worker that is not draining.
Assign(w) ==
    /\ queued /\ w \in joined \ busy /\ billed[w] # None
    /\ ~(lease[w] # None /\ lease[w].state = "draining")
    /\ queued' = FALSE /\ busy' = busy \cup {w}
    /\ UNCHANGED <<booksVars, rows, age, joined, crashed, billed, budget, taskVars>>

\* The run ends, or its worker is gone and the hub takes it back.
Release(w) ==
    /\ w \in busy
    /\ busy' = busy \ {w}
    /\ queued' \in IF billed[w] = None THEN {TRUE} ELSE {queued}
    /\ UNCHANGED <<booksVars, rows, age, joined, crashed, billed, budget, taskVars>>

Administer ==
    /\ \/ Spend("setcap") /\ \E s \in Scope : SetBudget(s, NewCap) \/ DeleteBudget(s)
       \/ Spend("month") /\ MonthTurns
    /\ UNCHANGED <<rows, age, hubVars, billed, taskVars>>

\* Every task dies with the process; the store and the instances stay.
Crash ==
    /\ Spend("crash")
    /\ prov' = [w \in Worker |-> IF prov[w] = None THEN None
                                 ELSE [prov[w] EXCEPT !.stage = "over"]]
    /\ ext' = [c \in Client |-> None]
    /\ closing' = [t \in Client \cup {Clock} |-> None]
    /\ clock' = Resting
    /\ reconcile' = None
    /\ idle' = [w \in Worker |-> "no"]
    /\ crashed' = TRUE
    /\ billed' = Orphaned
    /\ UNCHANGED <<booksVars, rows, age, joined, busy, queued>>

-----------------------------------------------------------------------------

Provisioning == \/ \E q \in Request : RequestProvision(q)
                \/ \E w \in Worker : Rent(w) \/ ExactCheck(w) \/ RecordLease(w)

Extending == \E c \in Client : \/ \E w \in Worker, m \in Minutes : AskExtend(c, w, m)
                               \/ ReadLease(c) \/ WriteExtension(c)

TearingDown ==
    \/ \E c \in Client, w \in Worker, drainFirst \in BOOLEAN : Teardown(c, w, drainFirst)
    \/ \E t \in Client \cup {Clock} :
          Destroy(t) \/ DestroyRefused(t) \/ RecordDestroyed(t) \/ Charge(t)

ClockStep == ClockStart \/ ReapIdle \/ \E w \in Worker : ClockNext(w)

ReconcileStep == \/ ReconcileStart \/ ReconcileEnd
                 \/ \E p \in Provider : ListInstances(p)
                 \/ \E w \in Worker : KillOrphan(w)

HubStep == Submit \/ \E w \in Worker : Join(w) \/ Assign(w) \/ Release(w)

\* What the sums behind a check are taken over.
Books == [w \in Worker |-> <<ledger[w].month, ledger[w].before,
                            IF w \in Live THEN ProjectedCost(lease[w]) ELSE 0>>]

\* The tasks that look at the budgets in a step and are let through.
LetThrough == {w \in Worker : At(w, "rented") /\ At(w, "cleared")'}
                \cup {c \in Client : ext[c] = None /\ ext'[c] # None}

\* What the step does to the standing of the checks made before it.
Checked == checked' = (IF Books' = Books /\ caps' = caps THEN checked ELSE {}) \cup LetThrough

Next ==
    /\ \/ Provisioning \/ Extending \/ TearingDown \/ ClockStep \/ ReconcileStep
       \/ Tick \/ HubStep \/ Administer \/ Crash
    /\ Checked

\* The loops and the tasks of the process keep running, and time passes.
Fairness ==
    /\ WF_vars(ClockStep /\ Checked)
    /\ WF_vars(ReconcileStep /\ Checked)
    /\ WF_vars(Tick /\ Checked)
    /\ \A w \in Worker : WF_vars((Rent(w) \/ ExactCheck(w) \/ RecordLease(w)) /\ Checked)
    /\ \A t \in Client \cup {Clock} :
          WF_vars((Destroy(t) \/ DestroyRefused(t) \/ RecordDestroyed(t) \/ Charge(t))
                  /\ Checked)

Spec == Init /\ [][Next]_vars /\ Fairness

-----------------------------------------------------------------------------
(***************************************************************************)
(* Properties.                                                             *)
(***************************************************************************)

\* The values the store may hold, whatever the tasks do to it between each
\* other's steps.
TypeOK ==
    /\ lease \in [Worker -> Lease \cup {None}]
    /\ ledger \in [Worker -> Entries]
    /\ caps \in [Scope -> Cap \cup {None}]
    /\ billed \in [Worker -> Provider \cup {Stray, None}]
    /\ age \in [Worker -> 0..MaxAge]

\* A lease is granted, and a wall moved, within every cap, provided nothing
\* else changed the books between the check and the write (budget_check in
\* provision and extend).
LoneSpendWithinCap ==
    [][/\ \A w \in Worker :
             RecordLease(w) /\ w \in checked => ~Breaches(prov[w].ask.provider, 0)'
       /\ \A c \in Client, w \in Worker :
             WriteExtension(c) /\ c \in checked /\ w = ext[c].worker
                 => ~Breaches(lease[w].provider, 0)']_vars

\* Unless the process crashed, a lease recorded as destroyed has been charged
\* or is about to be (destroy_and_verify ends in the lease_end entry).
DestroyedIsCharged ==
    \A w \in Worker :
        lease[w] # None /\ lease[w].state = "destroyed" =>
            \/ ledger[w].ends > 0
            \/ \E t \in Client \cup {Clock} : Closing(t, "charge") /\ closing[t].worker = w
            \/ crashed

\* Every instance a provider lists stops billing and every live lease is
\* destroyed, for good and both, whatever became of the request that rented the
\* machine, of its lease, of the instance or of its agent: the wall, or the
\* reconcile loop, gets to it.  (Children of a mock provider whose control
\* plane died are no longer listed.)
EveryLeaseEnds ==
    \A w \in Worker : (billed[w] \in Provider \/ w \in Live)
                          ~> (billed[w] \notin Provider /\ w \notin Live)

\* The wall of section 3: an instance at a provider in order is destroyed, no
\* matter what happens to others.
WallIsKept == \A w \in Worker :
                  (billed[w] \in Provider \ Broken) ~> (billed[w] \notin Provider)
=============================================================================
