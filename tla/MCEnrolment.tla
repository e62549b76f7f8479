---------------------------- MODULE MCEnrolment ----------------------------
(***************************************************************************)
(* A rented machine that was given its identity, two notebooks with one    *)
(* join token and no identity, a Mac with a worker token and a machine     *)
(* with the shared token; two of them at a time.                           *)
(***************************************************************************)
EXTENDS Enrolment, TLC

CONSTANTS rented, cell, twin, mac, dev, cj1, cj2, cw

Tokens == rented :> cj1 @@ cell :> cj2 @@ twin :> cj2 @@ mac :> cw @@ dev :> Shared
Bindings == cj1 :> 1 @@ cj2 :> 2 @@ cw :> 3
Arguments == [m \in Machine |-> IF m = rented THEN 1 ELSE None]

Pairs == {{rented, cell}, {cell, twin}, {rented, mac}, {mac, dev}}

Trouble == {"disconnect", "crash", "deploy", "expire", "revoke", "download"}
Pair(a, b) == [t \in Trouble |-> IF t \in {a, b} THEN 1 ELSE 0]
\* Two troubles, of any two kinds.
Troubles == {Pair(a, b) : a, b \in Trouble}
=============================================================================
