----------------------------- MODULE Execution -----------------------------
(***************************************************************************)
(* What the fabric promises whoever submits a run, stated as if there were *)
(* no messages, sessions or replays between the control plane and its      *)
(* workers.  A run is executed once, by one worker that executes nothing   *)
(* else meanwhile, to one outcome; the control plane's record of it lags   *)
(* behind the truth but never says what has not happened.                  *)
(*                                                                         *)
(*   truth   what has become of the run where it executes                  *)
(*   doer    the worker executing it                                       *)
(*   record  what the control plane says of it                             *)
(***************************************************************************)
CONSTANTS Run, Worker, Outcome, None

VARIABLES truth, doer, record

Init == /\ truth = [r \in Run |-> "absent"]
        /\ doer = [r \in Run |-> None]
        /\ record = [r \in Run |-> "absent"]

\* A sweep submits all its children at once.
Submit(S) ==
    /\ S # {} /\ \A r \in S : truth[r] = "absent"
    /\ truth' = [r \in Run |-> IF r \in S THEN "waiting" ELSE truth[r]]
    /\ record' = [r \in Run |-> IF r \in S THEN "waiting" ELSE record[r]]
    /\ UNCHANGED doer

Start(r, w) ==
    /\ truth[r] = "waiting"
    /\ \A q \in Run : doer[q] # w
    /\ truth' = [truth EXCEPT ![r] = "executing"]
    /\ doer' = [doer EXCEPT ![r] = w]
    /\ UNCHANGED record

End(r) ==
    /\ truth[r] = "executing"
    /\ \E outcome \in Outcome : truth' = [truth EXCEPT ![r] = outcome]
    /\ doer' = [doer EXCEPT ![r] = None]
    /\ UNCHANGED record

LearnStart(r) ==
    /\ record[r] = "waiting" /\ truth[r] \in Outcome \cup {"executing"}
    /\ record' = [record EXCEPT ![r] = "executing"]
    /\ UNCHANGED <<truth, doer>>

LearnEnd(r) ==
    /\ record[r] = "executing" /\ truth[r] \in Outcome
    /\ record' = [record EXCEPT ![r] = truth[r]]
    /\ UNCHANGED <<truth, doer>>

Next == \/ \E S \in SUBSET Run : Submit(S)
        \/ \E r \in Run : \/ \E w \in Worker : Start(r, w)
                          \/ End(r) \/ LearnStart(r) \/ LearnEnd(r)

Spec == Init /\ [][Next]_<<truth, doer, record>>
=============================================================================
