------------------------------ MODULE MCGates ------------------------------
(***************************************************************************)
(* A watchdog of each kind of rule with the values the rule tells apart    *)
(* and a gate that may be registered later, and two gates of which one     *)
(* only records.                                                           *)
(***************************************************************************)
EXTENDS Gates

Fresh(rule, action) == [rule |-> rule, action |-> action, verdict |-> "none"]
Watchdog(rule) == Fresh(rule, "stop_run")
Trouble == {"ask", "drop", "restart", "register", "stop", "resume"}
Some(S) == [t \in Trouble |-> IF t \in S THEN 1 ELSE 0]

Table(first, second) == [g \in Gate |-> IF g = 1 THEN first ELSE second]
About(table, later, values, troubles) ==
    [tables |-> {table}, rows |-> {later}, values |-> values,
     budgets |-> {Some(S) : S \in troubles},
     timed |-> table[1].rule = "no_improve"]

Rules == {About(Table(Watchdog("isnan"), None), Watchdog("above"), {1, NaN},
                {{"drop", "restart"}, {"stop", "resume"}, {"register", "restart"}}),
          About(Table(Watchdog("above"), None), Fresh("above", "record"), {1, 2},
                {{"ask", "restart"}, {"ask", "register"}, {"ask", "drop"}}),
          About(Table(Watchdog("no_improve"), None), Watchdog("no_improve"), {1, 2},
                {{"drop", "resume"}}),
          About(Table(Fresh("above", "record"), Watchdog("above")), Watchdog("above"), {1, 2},
                {{"restart"}, {"drop"}})}
=============================================================================
