----------------------------- MODULE MCArchive -----------------------------
(***************************************************************************)
(* A leased and a persistent worker and a run of three steps, whose        *)
(* directories sort as step_10, step_11, step_9: the last of three to be   *)
(* saved is not the last to be collected.                                  *)
(***************************************************************************)
EXTENDS Archive, TLC

CONSTANTS leased, persistent

ByName == <<3, 1, 2>>

Trouble == {"drop", "stop", "resume", "restart", "upload", "archive", "copy", "drive", "expire"}
Once(S) == [t \in Trouble |-> IF t \in S THEN 1 ELSE 0]
\* What can go wrong with a run and its sessions,
Sessions == {Once({"drop", "resume"}), Once({"stop", "upload", "resume"}), Once({"restart", "resume"})}
\* and what can go wrong with its archive.
Archives == {Once({"archive", "drive"}), Once({"expire", "resume"}), Once({"copy", "restart"}),
             Once({"archive", "resume"})}
Troubles == Sessions \cup Archives
=============================================================================
