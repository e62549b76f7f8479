------------------------------- MODULE Budget -------------------------------
(***************************************************************************)
(* Cost governance: the lease, ledger and budget tables of the store and   *)
(* the projected-spend check that provision and extend_lease refuse on.    *)
(* Prices are per minute, so a cost is a price times minutes.              *)
(*                                                                         *)
(*   lease    the lease row of a worker, or None                           *)
(*   ledger   per worker: the cost of its lease_end entries of this month  *)
(*            and of earlier ones, and how many there are.  lease_start    *)
(*            and extend entries are written too, but nothing reads them   *)
(*   caps     the budget row of a scope, or None                           *)
(***************************************************************************)
EXTENDS Integers, FiniteSets, Functions

CONSTANTS Worker, Provider, None

VARIABLES lease, ledger, caps

booksVars == <<lease, ledger, caps>>

Global == "global"
Scope == {Global} \cup Provider
Period == {"month", "all"}
LeaseState == {"active", "draining", "destroyed"}

Lease == [provider : Provider, price : Nat, granted : Nat, extended : Nat,
          state : LeaseState]
Entries == [month : Nat, before : Nat, ends : Nat]
Cap == [cap : Nat, period : Period]

ASSUME BudgetAssumption ==
    /\ Global \notin Provider /\ None \notin Worker \cup Provider \cup Lease
    /\ IsFiniteSet(Worker)

-----------------------------------------------------------------------------

\* live_leases: the rows whose state is not Destroyed.
Live == {w \in Worker : lease[w] # None /\ lease[w].state # "destroyed"}

TotalGranted(l) == l.granted + l.extended

ProjectedCost(l) == l.price * TotalGranted(l)

\* The leases a budget of the scope counts.
InScope(scope, leased) == {w \in leased : scope \in {Global, lease[w].provider}}

\* Realised lease_end cost inside the period.
SpentOn(scope, period) ==
    [w \in Worker |->
        IF w \in InScope(scope, {v \in Worker : lease[v] # None})
        THEN ledger[w].month + (IF period = "all" THEN ledger[w].before ELSE 0)
        ELSE 0]

Spent(scope, period) == SumFunction(SpentOn(scope, period))

CommittedTo(scope) ==
    [w \in Worker |-> IF w \in InScope(scope, Live) THEN ProjectedCost(lease[w]) ELSE 0]

Committed(scope) == SumFunction(CommittedTo(scope))

Projected(scope, period) == Spent(scope, period) + Committed(scope)

\* evaluate: some applicable budget cannot cover the candidate.
Breaches(p, candidate) ==
    \E scope \in {Global, p} :
        /\ caps[scope] # None
        /\ Projected(scope, caps[scope].period) + candidate > caps[scope].cap

-----------------------------------------------------------------------------

\* An administrator upserts or removes a cap; a new one takes effect with the
\* next check and is not held against what is already committed.
SetBudget(scope, cap) ==
    /\ caps' = [caps EXCEPT ![scope] = cap]
    /\ UNCHANGED <<lease, ledger>>

DeleteBudget(scope) ==
    /\ caps[scope] # None
    /\ caps' = [caps EXCEPT ![scope] = None]
    /\ UNCHANGED <<lease, ledger>>

\* month_start moves past the entries written so far.
MonthTurns ==
    /\ ledger' = [w \in Worker |->
                     [month |-> 0, before |-> ledger[w].before + ledger[w].month,
                      ends |-> ledger[w].ends]]
    /\ UNCHANGED <<lease, caps>>
=============================================================================
