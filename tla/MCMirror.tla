------------------------------ MODULE MCMirror ------------------------------
(***************************************************************************)
(* A run the server mints an id for and a run attached to one of the       *)
(* server's.                                                               *)
(***************************************************************************)
EXTENDS Mirror, TLC

CONSTANTS minted, attached, x1

Mirrored == {minted, attached}
Refs == (minted :> None) @@ (attached :> x1)
Plans == {(minted :> <<"created", "completed">>) @@ (attached :> <<>>),
          (minted :> <<>>) @@ (attached :> <<"created", "checkpoint">>),
          (minted :> <<"created">>) @@ (attached :> <<"created">>)}

Upto(f, g) == [b \in {"down", "lost", "crash"} |->
                  (IF b = f THEN 1 ELSE 0) + (IF b = g THEN 1 ELSE 0)]
TwoFaults == {Upto("down", "crash"), Upto("lost", "down"), Upto("lost", "crash")}
=============================================================================
