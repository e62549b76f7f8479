------------------------------ MODULE MCStream ------------------------------
(***************************************************************************)
(* Small streams for TLC: two pumps, one or two jobs, two lines, two       *)
(* connections that may overlap, and the faults a behaviour may start with.*)
(***************************************************************************)
EXTENDS Stream, TLC

CONSTANTS stdout, stderr

Once(S) == [f \in Fault |-> IF f \in S THEN 1 ELSE 0]
TwoLines(S) == [Once(S) EXCEPT !["line"] = 2]

\* A link that breaks twice, a restart with a break, a cancel with a break.
Troubles == {[TwoLines({}) EXCEPT !["drop"] = 2],
             TwoLines({"drop", "restart"}), TwoLines({"drop", "cancel"})}

NoTrouble == {TwoLines({})}
=============================================================================
