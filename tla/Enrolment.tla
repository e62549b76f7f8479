----------------------------- MODULE Enrolment -----------------------------
(***************************************************************************)
(* How a worker's process comes to be a worker of the fleet: it dials in   *)
(* with its token and the identity it knows, the websocket task resolves   *)
(* the token, checks the protocol version, acknowledges and attaches.  A   *)
(* join token enrols the worker it was minted for, once; a worker token is *)
(* good until it is revoked; the shared token gives out new identities.    *)
(*                                                                         *)
(*   tokens   per token: unused, used, expired or revoked                  *)
(*   minted   identities given out for the shared token                    *)
(*   link     per identity, the machine attached under it, or None         *)
(*   min      min_protocol of the hub's configuration                      *)
(*   task     per machine, how far the hub's task for its socket has come, *)
(*            with what its Hello claimed and what it was resolved to      *)
(*   proc     per machine: up, or not there (any more)                     *)
(*   known    per machine, the identity its process knows, or None         *)
(*   version  per machine, the protocol version of its binary              *)
(*   budget   how many more troubles of each kind there are                *)
(***************************************************************************)
EXTENDS Integers, FiniteSets, Functions

CONSTANTS Machine, Identity, None,
          JoinToken, WorkerToken, Shared,
          TokenOf,      \* the token a machine was given
          Bound,        \* the identity a token was minted for
          Given,        \* the --worker-id a machine was given, or None
          Newest,       \* protocol version of the binaries the hub serves
          Cast,         \* the sets of machines that may be there together
          Budget

Token == JoinToken \cup WorkerToken

ASSUME EnrolmentAssumption ==
    /\ TokenOf \in [Machine -> Token \cup {Shared}] /\ Shared \notin Token
    /\ JoinToken \cap WorkerToken = {}
    /\ Bound \in [Token -> Identity] /\ IsInjective(Bound)
    /\ Given \in [Machine -> Identity \cup {None}]
    /\ \A m \in Machine : Given[m] # None =>
          TokenOf[m] \in Token /\ Given[m] = Bound[TokenOf[m]]
    /\ Cast \subseteq SUBSET Machine
    /\ Newest \in Nat /\ None \notin Machine \cup Identity

\* The two ways to give one identity to two machines that the hub cannot tell
\* from a reconnect: to install one worker token twice, or to paste the same
\* --worker-id with its token twice.  A bare join token may be pasted at will.
ASSUME OneMachineEach ==
    \A m, n \in Machine : m # n /\ TokenOf[m] = TokenOf[n] =>
        /\ TokenOf[m] \notin WorkerToken
        /\ Given[m] = None /\ Given[n] = None

VARIABLES tokens, minted, link, min, task, proc, known, version, budget

hubVars == <<tokens, minted, link, min>>
vars == <<hubVars, task, proc, known, version, budget>>

NoTask == [stage |-> "none", claims |-> None, id |-> None, class |-> None]

Init ==
    /\ tokens = [t \in Token |-> "unused"]
    /\ minted = {}
    /\ link = [i \in Identity |-> None]
    /\ min \in {Newest - 1, Newest}
    /\ task = [m \in Machine |-> NoTask]
    /\ \E there \in Cast : proc = [m \in Machine |-> IF m \in there THEN "up" ELSE "exited"]
    /\ known = Given
    /\ version \in [Machine -> {Newest - 1, Newest}]
    /\ \A m \in Machine : proc[m] = "exited" => version[m] = Newest
    /\ budget \in Budget

Spend(f) ==
    /\ budget[f] > 0
    /\ budget' = [budget EXCEPT ![f] = @ - 1]

At(m, stage) == task[m].stage = stage
GoTo(m, stage) == task' = [task EXCEPT ![m].stage = stage]

-----------------------------------------------------------------------------
(***************************************************************************)
(* The handshake.                                                          *)
(***************************************************************************)

\* run_session: connect and say hello, with the identity known, if any.
Dial(m) ==
    /\ proc[m] = "up" /\ At(m, "none")
    /\ task' = [task EXCEPT ![m] =
                   [stage |-> "hello", claims |-> known[m], id |-> None, class |-> None]]
    /\ UNCHANGED <<hubVars, proc, known, version, budget>>

Resolved(m, i, class) ==
    task' = [task EXCEPT ![m] =
                [stage |-> "resolved", claims |-> @.claims, id |-> i, class |-> class]]

\* Mutant: whoever has a consumed token is readmitted.
AdmitJoinTokenOf(m) ==
    LET t == TokenOf[m]
    IN  /\ t \in JoinToken
        /\ tokens' = [tokens EXCEPT ![t] = IF @ = "unused" THEN "used" ELSE @]
        /\ IF tokens[t] \in {"unused", "used"}
           THEN Resolved(m, Bound[t], "leased") ELSE GoTo(m, "refused")
        /\ UNCHANGED minted

\* Mutant: a used token is used up, for its own worker too.
AdmitJoinTokenOnce(m) ==
    LET t == TokenOf[m]
    IN  /\ t \in JoinToken
        /\ tokens' = [tokens EXCEPT ![t] = IF @ = "unused" THEN "used" ELSE @]
        /\ IF tokens[t] = "unused"
           THEN Resolved(m, Bound[t], "leased") ELSE GoTo(m, "refused")
        /\ UNCHANGED minted

\* The first use consumes the token, whatever the Hello claims; a consumed one
\* readmits only who claims the identity it is bound to.
AdmitJoinToken(m) ==
    LET t == TokenOf[m]
    IN  /\ t \in JoinToken
        /\ tokens' = [tokens EXCEPT ![t] = IF @ = "unused" THEN "used" ELSE @]
        /\ IF tokens[t] = "unused" \/ (tokens[t] = "used" /\ task[m].claims = Bound[t])
           THEN Resolved(m, Bound[t], "leased") ELSE GoTo(m, "refused")
        /\ UNCHANGED minted

ResolveWorkerToken(m) ==
    /\ TokenOf[m] \in WorkerToken
    /\ IF tokens[TokenOf[m]] # "revoked"
       THEN Resolved(m, Bound[TokenOf[m]], "persistent") ELSE GoTo(m, "refused")
    /\ UNCHANGED <<tokens, minted>>

Fresh == Identity \ ({Bound[t] : t \in Token} \cup minted)

\* Mutant: a new identity for every Hello.
ResolveSharedAnew(m) ==
    /\ TokenOf[m] = Shared
    /\ \E i \in Fresh : Resolved(m, i, "leased") /\ minted' = minted \cup {i}
    /\ UNCHANGED tokens

\* Mutant: the class is left to the Hello, which says nothing of it.
ResolveSharedClassless(m) ==
    /\ TokenOf[m] = Shared
    /\ \E i \in Fresh : Resolved(m, i, None) /\ minted' = minted \cup {i}
    /\ UNCHANGED tokens

\* The shared token: the identity claimed, or a new one.
ResolveShared(m) ==
    /\ TokenOf[m] = Shared
    /\ IF task[m].claims # None THEN Resolved(m, task[m].claims, "leased") /\ UNCHANGED minted
       ELSE \E i \in Fresh : Resolved(m, i, "leased") /\ minted' = minted \cup {i}
    /\ UNCHANGED tokens

\* resolve_join
ResolveJoin(m) ==
    /\ At(m, "hello")
    /\ AdmitJoinToken(m) \/ ResolveWorkerToken(m) \/ ResolveShared(m)
    /\ UNCHANGED <<link, min, proc, known, version, budget>>

\* The version gate: a binary is offered only to a persistent worker.
VersionGate(m) ==
    /\ At(m, "resolved")
    /\ GoTo(m, IF version[m] >= min THEN "admitted"
               ELSE IF task[m].class = "persistent" THEN "outdated" ELSE "refused")
    /\ UNCHANGED <<hubVars, proc, known, version, budget>>

\* HelloAck: the worker takes the identity it is told.
HelloAck(m) ==
    /\ At(m, "admitted")
    /\ known' = [known EXCEPT ![m] = task[m].id]
    /\ GoTo(m, "acknowledged")
    /\ UNCHANGED <<hubVars, proc, version, budget>>

Attach(m) ==
    /\ At(m, "acknowledged")
    /\ link' = [link EXCEPT ![task[m].id] = m]
    /\ GoTo(m, "attached")
    /\ UNCHANGED <<tokens, minted, min, proc, known, version, budget>>

\* HelloReject without a binary: the worker exits.
HelloReject(m) ==
    /\ At(m, "refused")
    /\ proc' = [proc EXCEPT ![m] = "exited"]
    /\ task' = [task EXCEPT ![m] = NoTask]
    /\ UNCHANGED <<hubVars, known, version, budget>>

\* download_and_replace and reexec; a download that fails or does not verify
\* leaves the old binary, which dials again.
SelfUpdate(m) ==
    /\ At(m, "outdated")
    /\ task' = [task EXCEPT ![m] = NoTask]
    /\ \/ /\ version' = [version EXCEPT ![m] = Newest]
          /\ known' = [known EXCEPT ![m] = Given[m]]
          /\ UNCHANGED budget
       \/ Spend("download") /\ UNCHANGED <<version, known>>
    /\ UNCHANGED <<hubVars, proc>>

-----------------------------------------------------------------------------
(***************************************************************************)
(* What comes in between.                                                  *)
(***************************************************************************)

\* detach takes the identity's link away, whoever holds it.
Detach(m) ==
    link' = IF At(m, "attached") THEN [link EXCEPT ![task[m].id] = None] ELSE link

\* A socket dies, at any stage.
Disconnect(m) ==
    /\ ~At(m, "none") /\ Spend("disconnect")
    /\ Detach(m)
    /\ task' = [task EXCEPT ![m] = NoTask]
    /\ UNCHANGED <<tokens, minted, min, proc, known, version>>

\* A worker's process starts again, from its arguments.
WorkerRestart(m) ==
    /\ proc[m] = "up" /\ Spend("crash")
    /\ Detach(m)
    /\ task' = [task EXCEPT ![m] = NoTask]
    /\ known' = [known EXCEPT ![m] = Given[m]]
    /\ UNCHANGED <<tokens, minted, min, proc, version>>

\* The hub starts again, perhaps with a higher minimum.
HubRestart ==
    /\ Spend("deploy")
    /\ min' \in min..Newest
    /\ link' = [i \in Identity |-> None]
    /\ task' = [m \in Machine |-> NoTask]
    /\ UNCHANGED <<tokens, minted, proc, known, version>>

\* JOIN_TOKEN_TTL passes before the token was used.
Expire(t) ==
    /\ t \in JoinToken /\ tokens[t] = "unused" /\ Spend("expire")
    /\ tokens' = [tokens EXCEPT ![t] = "expired"]
    /\ UNCHANGED <<minted, link, min, task, proc, known, version>>

\* Revoking a worker token leaves a session that was admitted alone.
Revoke(t) ==
    /\ t \in WorkerToken /\ tokens[t] # "revoked" /\ Spend("revoke")
    /\ tokens' = [tokens EXCEPT ![t] = "revoked"]
    /\ UNCHANGED <<minted, link, min, task, proc, known, version>>

-----------------------------------------------------------------------------

Handshake(m) ==
    \/ Dial(m) \/ ResolveJoin(m) \/ VersionGate(m) \/ HelloAck(m)
    \/ Attach(m) \/ HelloReject(m) \/ SelfUpdate(m)

Next ==
    \/ \E m \in Machine : Handshake(m) \/ Disconnect(m) \/ WorkerRestart(m)
    \/ \E t \in Token : Expire(t) \/ Revoke(t)
    \/ HubRestart

\* A worker dials until it is refused; the hub's task answers.
Spec == Init /\ [][Next]_vars /\ \A m \in Machine : WF_vars(Handshake(m))

-----------------------------------------------------------------------------
(***************************************************************************)
(* Properties.                                                             *)
(***************************************************************************)

Stage == {"none", "hello", "resolved", "admitted", "outdated", "refused",
          "acknowledged", "attached"}

TypeOK ==
    /\ tokens \in [Token -> {"unused", "used", "expired", "revoked"}]
    /\ \A m \in Machine : /\ task[m].stage \in Stage
                          /\ task[m].id # None => task[m].class \in {"leased", "persistent"}
    /\ link \in [Identity -> Machine \cup {None}]
    /\ known \in [Machine -> Identity \cup {None}]

\* No two machines go by one identity, also when one join token was pasted in
\* two places and both dial at once (admit_join_token: a consumed token "can
\* never enrol a second worker").  A copied --worker-id would be no different
\* from a reconnect, and no machine is given another's.
IdentitiesAreDistinct ==
    \A m, n \in Machine : known[m] = known[n] /\ known[m] # None => m = n

\* A process keeps the identity it was told through every reconnect and every
\* restart of the hub, until it starts anew; so its runs, its high-water mark
\* and its lease stay its own.
IdentityIsKept ==
    [][\A m \in Machine : known[m] # None => known'[m] \in {known[m], Given[m]}]_vars

\* The hub would take the machine in if it came now.
Welcome(m) ==
    LET t == TokenOf[m]
    IN  /\ t \in JoinToken => tokens[t] = "unused" \/ (tokens[t] = "used" /\ known[m] = Bound[t])
        /\ t \in WorkerToken => tokens[t] # "revoked"
        /\ t \in WorkerToken \/ version[m] >= min

Linked(m) == \E i \in Identity : link[i] = m

\* A worker the hub would take in does get in, through lost sockets, a lost
\* acknowledgement, restarts of either side, upgrades and failed downloads;
\* or the hub would take it in no more.
EveryWorkerJoins ==
    \A m \in Machine : Welcome(m) /\ proc[m] = "up" ~> Linked(m) \/ ~Welcome(m)
=============================================================================
