------------------------------ MODULE MCFleet ------------------------------
(***************************************************************************)
(* Small fleets for TLC: two workers, one to three runs, one connection    *)
(* slot per worker or two where connections may overlap, and the budgets   *)
(* of faults each run of TLC allows.  A behaviour starts from any of its   *)
(* budgets, so a set of budgets with one fault each checks every fault by  *)
(* itself.                                                                 *)
(***************************************************************************)
EXTENDS Fleet, TLC

CONSTANTS w1, w2, s1

NoSweeps == [r \in Run |-> None]
AllInSweep == [r \in Run |-> s1]
OneAtATime == [s \in Sweep |-> 1]

Once(S) == [i \in Intervention |-> IF i \in S THEN 1 ELSE 0]

\* What a fleet of persistent workers takes in its stride.
Tolerated == {Once({"drop"}), Once({"lapse"}), Once({"restart"}), Once({"linger"})}

\* One kind of trouble at a time, every kind there is.
AnyOneFault == {Once({"drop"}), Once({"stuck"}), Once({"crash"}), Once({"restart"}),
                Once({"lapse", "drain", "extend", "selfdrain"}),
                Once({"stop", "resume"}), Once({"linger"})}

TwoStops == {[Once({}) EXCEPT !["stop"] = 2], Once({"resume"})}
OneDrop == {Once({"drop"})}

\* What RunningIsHeld does not survive, as CancelHitsItsTarget does not survive
\* TwoStops of runs in no sweep.
RestartThenDrop == {Once({"restart", "drop"})}
=============================================================================
