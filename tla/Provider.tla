------------------------------ MODULE Provider ------------------------------
(***************************************************************************)
(* What the two provider drivers do when the lease manager calls them.     *)
(* A mock instance is a child process: a destroy kills it before it        *)
(* returns, but the driver keeps its children in memory, and those of a    *)
(* control plane that died are strays it can neither list nor destroy.  A  *)
(* Vast instance lives behind an HTTP API, which may refuse a call, create *)
(* an instance although the answer is lost, or accept a destroy and go on  *)
(* billing.  Every such misbehaviour is taken from a budget, so the        *)
(* provider comes round in the end.                                        *)
(*                                                                         *)
(*   billed   the provider a worker's instance runs at, Stray, or None     *)
(*   budget   how many more of each fault and intervention there are       *)
(***************************************************************************)
EXTENDS Budget

CONSTANTS Vast,          \* the providers behind an API
          Broken,        \* those whose API refuses every destroy for good
          FaultBudget    \* the budgets a behaviour may start from

Fault == {"refuse", "lost", "linger", "list", "crash",
          "provision", "extend", "teardown", "submit", "setcap", "month"}
Stray == "stray"

ASSUME ProviderAssumption ==
    /\ Stray \notin Provider
    /\ Broken \subseteq Vast /\ Vast \subseteq Provider
    /\ FaultBudget \subseteq [Fault -> Nat]

VARIABLES billed, budget

Spend(f) ==
    /\ budget[f] > 0
    /\ budget' = [budget EXCEPT ![f] = @ - 1]

Rented(w, p) == billed' = [billed EXCEPT ![w] = p]
Gone(w) == billed' = [billed EXCEPT ![w] = None]

-----------------------------------------------------------------------------
\* Provider::provision: how the instance is created, and whether the caller
\* gets to know.

MockProvision(w, p) == p \notin Vast /\ Rented(w, p) /\ UNCHANGED budget

VastProvision(w, p) == p \in Vast /\ Rented(w, p) /\ UNCHANGED budget

\* The contract exists, the answer does not arrive or does not parse.
VastProvisionLost(w, p) == p \in Vast /\ Rented(w, p) /\ Spend("lost")

ProvisionFails == Spend("refuse") /\ UNCHANGED billed

-----------------------------------------------------------------------------
\* Provider::destroy succeeds on an instance that is already gone.

MockDestroy(w, p) ==
    /\ p \notin Vast
    /\ IF billed[w] = p THEN Gone(w) ELSE UNCHANGED billed
    /\ UNCHANGED budget

VastDestroy(w, p) ==
    \/ p \in Vast \ Broken /\ Gone(w) /\ UNCHANGED budget
    \/ p \in Vast \ Broken /\ billed[w] # None /\ Spend("linger") /\ UNCHANGED billed

Destroyed(w, p) == MockDestroy(w, p) \/ VastDestroy(w, p)

DestroyFails(p) ==
    \/ p \in Broken /\ UNCHANGED <<billed, budget>>
    \/ p \in Vast \ Broken /\ Spend("refuse") /\ UNCHANGED billed

\* Provider::list_instances.
Instances(p) == {w \in Worker : billed[w] = p}

\* What a dead control plane leaves of the instances.
Orphaned == [w \in Worker |-> IF billed[w] \in Vast \cup {None} THEN billed[w] ELSE Stray]
=============================================================================
