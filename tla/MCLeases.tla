------------------------------ MODULE MCLeases ------------------------------
(***************************************************************************)
(* Two workers at two providers, one behind an API and one a local         *)
(* process, one or two callers, and the budgets of faults and              *)
(* interventions of each run.                                              *)
(***************************************************************************)
EXTENDS Leases, TLC

CONSTANTS vast, mock, w1, w2, c1

Ask(w, p, price) == [worker |-> w, provider |-> p, minutes |-> 2, price |-> price]

OneEach == {Ask(w1, vast, 1), Ask(w2, mock, 1)}

Uncapped == [s \in Scope |-> None]
Capped(n) == [Uncapped EXCEPT ![Global] = [cap |-> n, period |-> "month"]]

\* Enough for one lease and a half, or no cap at all.
OneCap == {Capped(3)}
NoCaps == {Uncapped}
VastCap == [cap |-> 1, period |-> "all"]

\* One provision or two, and one of each of a set of other events.
Upto(n, S) == [f \in Fault |-> IF f = "provision" THEN n ELSE IF f \in S THEN 1 ELSE 0]

FaultFree == {Upto(2, {})}
Troubles == {Upto(1, {"refuse", "linger"}), Upto(1, {"lost", "list"}),
             Upto(1, {"crash", "refuse"}), Upto(1, {"crash", "linger"}),
             Upto(1, {"extend", "teardown"}), Upto(1, {"setcap", "month"}),
             Upto(1, {"submit"}), Upto(2, {})}
=============================================================================
