-------------------------- MODULE Enrolment_proofs --------------------------
(***************************************************************************)
(* What holds of every set of machines and tokens: however often sockets   *)
(* die and processes start again, an identity belongs to one machine, and  *)
(* a machine that knows its identity keeps it.                             *)
(***************************************************************************)
EXTENDS Enrolment, TLAPS

-----------------------------------------------------------------------------
(***************************************************************************)
(* The inductive invariant.                                                *)
(***************************************************************************)

Named == {"resolved", "admitted", "outdated", "acknowledged", "attached"}

TaskTypeOK ==
    /\ task \in [Machine -> [stage : Stage, claims : Identity \cup {None},
                             id : Identity \cup {None},
                             class : {"leased", "persistent", None}]]
    /\ \A m \in Machine : /\ task[m].stage \in Named => task[m].id # None
                          /\ task[m].id # None => task[m].class \in {"leased", "persistent"}

EnrolmentTypeOK == TypeOK /\ TaskTypeOK

\* The identities a machine's process or the hub's task for it goes by.
Held(m) == {known[m], task[m].claims, task[m].id} \ {None}

\* They come from the machine's token.
HeldIsGranted ==
    \A m \in Machine : \A i \in Held(m) :
        IF TokenOf[m] = Shared THEN i \in minted ELSE i = Bound[TokenOf[m]]

MintedIsNew == minted \cap {Bound[t] : t \in Token} = {}

HeldAreDisjoint == \A m, n \in Machine : m # n => Held(m) \cap Held(n) = {}

\* Whoever of those that share a join token holds its identity has used it up.
HeldIsUsed ==
    \A m, n \in Machine : m # n /\ TokenOf[m] = TokenOf[n] /\ TokenOf[m] \in JoinToken =>
        (Held(m) # {} => tokens[TokenOf[m]] = "used")

HeldInv == HeldIsGranted /\ MintedIsNew /\ HeldAreDisjoint /\ HeldIsUsed

\* The hub's task goes by what the process knows.
TaskKnows ==
    \A m \in Machine : /\ task[m].stage = "hello" => task[m].claims = known[m]
                       /\ known[m] # None /\ task[m].id # None => task[m].id = known[m]
                       /\ Given[m] # None => known[m] = Given[m]

EnrolmentInv == EnrolmentTypeOK /\ HeldInv /\ TaskKnows

-----------------------------------------------------------------------------
(***************************************************************************)
(* The invariant holds at the start.                                       *)
(***************************************************************************)

LEMMA InitInv == Init => EnrolmentInv
<1> SUFFICES ASSUME Init PROVE EnrolmentInv
  OBVIOUS
<1> USE DEF Init, NoTask
<1>1. EnrolmentTypeOK
  BY EnrolmentAssumption DEF EnrolmentTypeOK, TypeOK, TaskTypeOK, Stage, Named
<1>2. \A m \in Machine : Held(m) = {Given[m]} \ {None}
  BY DEF Held
<1>3. HeldIsGranted
  BY <1>2, EnrolmentAssumption DEF HeldIsGranted
<1>4. MintedIsNew
  BY DEF MintedIsNew
<1>5. HeldAreDisjoint
  <2> SUFFICES ASSUME NEW m \in Machine, NEW n \in Machine, m # n,
                      Given[m] # None, Given[n] # None, Given[m] = Given[n]
               PROVE  FALSE
    BY <1>2 DEF HeldAreDisjoint
  <2>1. TokenOf[m] = TokenOf[n]
    BY EnrolmentAssumption DEF IsInjective
  <2> QED BY <2>1, OneMachineEach
<1>6. HeldIsUsed
  BY <1>2, OneMachineEach DEF HeldIsUsed
<1>7. TaskKnows
  BY DEF TaskKnows
<1> QED BY <1>1, <1>3, <1>4, <1>5, <1>6, <1>7 DEF EnrolmentInv, HeldInv

-----------------------------------------------------------------------------
(***************************************************************************)
(* Every step but one lets machines hold at most what they held before.    *)
(***************************************************************************)

LEMMA HeldShrinks ==
  ASSUME HeldInv, minted' = minted,
         \A m \in Machine : Held(m)' \subseteq Held(m),
         \A t \in JoinToken : tokens[t] = "used" => tokens'[t] = "used"
  PROVE  HeldInv'
<1>1. HeldIsGranted'
  BY DEF HeldInv, HeldIsGranted
<1>2. MintedIsNew'
  BY DEF HeldInv, MintedIsNew
<1>3. HeldAreDisjoint'
  BY DEF HeldInv, HeldAreDisjoint
<1>4. HeldIsUsed'
  BY DEF HeldInv, HeldIsUsed
<1> QED BY <1>1, <1>2, <1>3, <1>4 DEF HeldInv

\* A socket or a process that goes takes the task with it.
LEMMA TaskEnds ==
  ASSUME EnrolmentInv, NEW S \in SUBSET Machine,
         task' = [m \in Machine |-> IF m \in S THEN NoTask ELSE task[m]],
         \A m \in Machine : known'[m] # known[m] => m \in S /\ known'[m] = Given[m],
         UNCHANGED <<tokens, minted>>
  PROVE  HeldInv' /\ TaskKnows' /\ TaskTypeOK'
<1> USE DEF EnrolmentInv, EnrolmentTypeOK
<1>1. TaskTypeOK'
  BY DEF TaskTypeOK, NoTask, Stage, Named
<1>2. \A m \in Machine : Given[m] # None => known[m] = Given[m]
  BY DEF TaskKnows
<1>3. \A m \in Machine : Held(m)' \subseteq Held(m)
  <2> SUFFICES ASSUME NEW m \in Machine PROVE Held(m)' \subseteq Held(m)
    OBVIOUS
  <2>1. known'[m] \in {known[m], None}
    BY <1>2
  <2>2. task'[m].claims \in {task[m].claims, None} /\ task'[m].id \in {task[m].id, None}
    BY DEF NoTask
  <2> QED BY <2>1, <2>2 DEF Held
<1>4. HeldInv'
  BY <1>3, HeldShrinks
<1>5. TaskKnows'
  BY DEF TaskKnows, NoTask
<1> QED BY <1>1, <1>4, <1>5

-----------------------------------------------------------------------------
(***************************************************************************)
(* The one step that gives an identity out.                                *)
(***************************************************************************)

\* What the hub resolves a token to, it may: nobody else holds it.
MayName(m, i) ==
    /\ i \in Identity
    /\ \A n \in Machine : n # m => i \notin Held(n)
    /\ known[m] # None => known[m] = i
    /\ IF TokenOf[m] = Shared THEN i \in minted' ELSE i = Bound[TokenOf[m]]

LEMMA ResolvedKeeps ==
  ASSUME EnrolmentInv, NEW m \in Machine, NEW i, NEW class \in {"leased", "persistent"},
         task[m].stage = "hello", Resolved(m, i, class), MayName(m, i),
         UNCHANGED known, minted \subseteq minted', MintedIsNew',
         \A t \in JoinToken : tokens[t] = "used" => tokens'[t] = "used",
         TokenOf[m] \in JoinToken => tokens'[TokenOf[m]] = "used"
  PROVE  HeldInv' /\ TaskKnows' /\ TaskTypeOK'
<1> USE DEF EnrolmentInv, EnrolmentTypeOK
<1>1. TaskTypeOK'
  <2> DEFINE row == [stage |-> "resolved", claims |-> task[m].claims, id |-> i, class |-> class]
  <2>1. task' = [task EXCEPT ![m] = row]
    BY DEF Resolved
  <2>2. row \in [stage : Stage, claims : Identity \cup {None}, id : Identity \cup {None},
                 class : {"leased", "persistent", None}]
    BY DEF TaskTypeOK, MayName, Stage
  <2>3. i # None
    BY EnrolmentAssumption DEF MayName
  <2> QED BY <2>1, <2>2, <2>3 DEF TaskTypeOK
<1>2. /\ \A n \in Machine : n # m => Held(n)' = Held(n)
      /\ Held(m)' \subseteq Held(m) \cup {i}
  BY DEF Held, Resolved, TaskTypeOK
<1>3. HeldIsGranted'
  <2> SUFFICES ASSUME NEW n \in Machine, NEW j \in Held(n)'
               PROVE  IF TokenOf[n] = Shared THEN j \in minted' ELSE j = Bound[TokenOf[n]]
    BY DEF HeldIsGranted
  <2>1. CASE j \in Held(n)
    BY <2>1 DEF HeldInv, HeldIsGranted
  <2>2. CASE n = m /\ j = i
    BY <2>2 DEF MayName
  <2> QED BY <1>2, <2>1, <2>2
<1>4. HeldAreDisjoint'
  BY <1>2 DEF HeldInv, HeldAreDisjoint, MayName
<1>5. HeldIsUsed'
  <2> SUFFICES ASSUME NEW k \in Machine, NEW n \in Machine, k # n,
                      TokenOf[k] = TokenOf[n], TokenOf[k] \in JoinToken, Held(k)' # {}
               PROVE  tokens'[TokenOf[k]] = "used"
    BY DEF HeldIsUsed
  <2>1. CASE k = m
    BY <2>1
  <2>2. CASE k # m
    BY <1>2, <2>2 DEF HeldInv, HeldIsUsed
  <2> QED BY <2>1, <2>2
<1>6. TaskKnows'
  BY DEF TaskKnows, Resolved, MayName, TaskTypeOK
<1> QED BY <1>1, <1>3, <1>4, <1>5, <1>6 DEF HeldInv

\* A refusal gives nothing out.
LEMMA RefusedKeeps ==
  ASSUME EnrolmentInv, NEW m \in Machine, task[m].stage = "hello", GoTo(m, "refused"),
         UNCHANGED <<known, minted>>,
         \A t \in JoinToken : tokens[t] = "used" => tokens'[t] = "used"
  PROVE  HeldInv' /\ TaskKnows' /\ TaskTypeOK'
<1> USE DEF EnrolmentInv, EnrolmentTypeOK, GoTo
<1>1. TaskTypeOK'
  BY DEF TaskTypeOK, Stage, Named
<1>2. \A n \in Machine : Held(n)' \subseteq Held(n)
  BY DEF Held, TaskTypeOK
<1>3. TaskKnows'
  BY DEF TaskKnows, TaskTypeOK
<1> QED BY <1>1, <1>2, <1>3, HeldShrinks

\* A token of one's own names an identity nobody else can hold; only those that
\* share the token need be kept apart.
LEMMA BoundMayBeNamed ==
  ASSUME EnrolmentInv, NEW m \in Machine, TokenOf[m] \in Token,
         \A n \in Machine : n # m /\ TokenOf[n] = TokenOf[m] => Held(n) = {}
  PROVE  MayName(m, Bound[TokenOf[m]])
<1> DEFINE i == Bound[TokenOf[m]]
<1> USE DEF EnrolmentInv, EnrolmentTypeOK
<1>1. i \in Identity /\ TokenOf[m] # Shared
  BY EnrolmentAssumption
<1>2. ASSUME NEW n \in Machine, n # m, i \in Held(n) PROVE FALSE
  <2>1. CASE TokenOf[n] = Shared
    BY <1>2, <2>1 DEF HeldInv, HeldIsGranted, MintedIsNew
  <2>2. CASE TokenOf[n] # Shared
    <3>1. TokenOf[n] \in Token /\ Bound[TokenOf[n]] = i
      BY <1>2, <2>2, EnrolmentAssumption DEF HeldInv, HeldIsGranted
    <3>2. TokenOf[n] = TokenOf[m]
      BY <3>1, EnrolmentAssumption DEF IsInjective
    <3> QED BY <1>2, <3>2
  <2> QED BY <2>1, <2>2
<1>3. known[m] # None => known[m] = i
  <2>1. known[m] # None => known[m] \in Held(m)
    BY DEF Held
  <2> QED BY <1>1, <2>1 DEF HeldInv, HeldIsGranted
<1> QED BY <1>1, <1>2, <1>3 DEF MayName

LEMMA ResolveJoinKeeps ==
  ASSUME EnrolmentInv, NEW m \in Machine, ResolveJoin(m)
  PROVE  HeldInv' /\ TaskKnows' /\ TaskTypeOK'
<1> DEFINE t == TokenOf[m]
<1> USE DEF EnrolmentInv, EnrolmentTypeOK
<1>1. task[m].stage = "hello" /\ UNCHANGED known
  BY DEF ResolveJoin, At
<1>2. CASE AdmitJoinToken(m)
  <2>1. /\ UNCHANGED minted /\ t \in JoinToken /\ t \in Token /\ t # Shared
        /\ tokens' = [tokens EXCEPT ![t] = IF @ = "unused" THEN "used" ELSE @]
    BY <1>2, EnrolmentAssumption DEF AdmitJoinToken, Token
  <2>2. /\ MintedIsNew'
        /\ \A u \in JoinToken : tokens[u] = "used" => tokens'[u] = "used"
    BY <2>1 DEF HeldInv, MintedIsNew, TypeOK, Token
  <2>3. CASE GoTo(m, "refused")
    BY <1>1, <2>1, <2>2, <2>3, RefusedKeeps
  <2>4. CASE tokens[t] = "unused" \/ (tokens[t] = "used" /\ task[m].claims = Bound[t])
    <3>1. Resolved(m, Bound[t], "leased")
      BY <1>2, <2>4 DEF AdmitJoinToken
    <3>2. tokens'[t] = "used"
      BY <2>1, <2>4 DEF TypeOK
    <3>3. MayName(m, Bound[t])
      <4>1. CASE tokens[t] = "unused"
        <5>1. \A n \in Machine : n # m /\ TokenOf[n] = t => Held(n) = {}
          BY <2>1, <4>1 DEF HeldInv, HeldIsUsed
        <5> QED BY <2>1, <5>1, BoundMayBeNamed DEF MayName
      <4>2. CASE task[m].claims = Bound[t]
        <5>1. Bound[t] \in Identity /\ Bound[t] \in Held(m)
          BY <2>1, <4>2, EnrolmentAssumption DEF Held
        <5>2. \A n \in Machine : n # m => Bound[t] \notin Held(n)
          BY <5>1 DEF HeldInv, HeldAreDisjoint
        <5>3. known[m] # None => known[m] = Bound[t]
          BY <1>1, <4>2 DEF TaskKnows
        <5> QED BY <2>1, <5>1, <5>2, <5>3 DEF MayName
      <4> QED BY <2>4, <4>1, <4>2
    <3> QED BY <1>1, <2>1, <2>2, <3>1, <3>2, <3>3, ResolvedKeeps
  <2> QED BY <1>2, <2>3, <2>4 DEF AdmitJoinToken
<1>3. CASE ResolveWorkerToken(m)
  <2>1. /\ UNCHANGED <<minted, tokens>> /\ t \in WorkerToken /\ t \in Token /\ t # Shared
        /\ t \notin JoinToken
    BY <1>3, EnrolmentAssumption DEF ResolveWorkerToken, Token
  <2>2. MintedIsNew'
    BY <2>1 DEF HeldInv, MintedIsNew
  <2>3. CASE GoTo(m, "refused")
    BY <1>1, <2>1, <2>3, RefusedKeeps
  <2>4. CASE Resolved(m, Bound[t], "persistent")
    <3>1. \A n \in Machine : n # m /\ TokenOf[n] = t => Held(n) = {}
      BY <2>1, OneMachineEach
    <3>2. MayName(m, Bound[t])
      BY <2>1, <3>1, BoundMayBeNamed DEF MayName
    <3> QED BY <1>1, <2>1, <2>2, <2>4, <3>2, ResolvedKeeps
  <2> QED BY <1>3, <2>3, <2>4 DEF ResolveWorkerToken
<1>4. CASE ResolveShared(m)
  <2>1. UNCHANGED tokens /\ t = Shared /\ t \notin JoinToken
    BY <1>4, EnrolmentAssumption DEF ResolveShared, Token
  <2>2. CASE task[m].claims # None
    <3> DEFINE i == task[m].claims
    <3>1. Resolved(m, i, "leased") /\ UNCHANGED minted
      BY <1>4, <2>2 DEF ResolveShared
    <3>2. MintedIsNew'
      BY <3>1 DEF HeldInv, MintedIsNew
    <3>3. i \in Held(m) /\ i \in Identity
      BY <2>2 DEF Held, TaskTypeOK
    <3>4. MayName(m, i)
      BY <1>1, <2>1, <3>1, <3>3
      DEF MayName, HeldInv, HeldAreDisjoint, HeldIsGranted, TaskKnows
    <3> QED BY <1>1, <2>1, <3>1, <3>2, <3>4, ResolvedKeeps
  <2>3. CASE task[m].claims = None
    <3>1. PICK i \in Fresh : Resolved(m, i, "leased") /\ minted' = minted \cup {i}
      BY <1>4, <2>3 DEF ResolveShared
    <3>2. MintedIsNew'
      BY <3>1 DEF HeldInv, MintedIsNew, Fresh
    <3>3. ASSUME NEW n \in Machine, i \in Held(n) PROVE FALSE
      <4>1. CASE TokenOf[n] = Shared
        BY <3>1, <3>3, <4>1 DEF HeldInv, HeldIsGranted, Fresh
      <4>2. CASE TokenOf[n] # Shared
        <5>1. TokenOf[n] \in Token
          BY <4>2, EnrolmentAssumption
        <5> QED BY <3>1, <3>3, <4>2, <5>1 DEF HeldInv, HeldIsGranted, Fresh
      <4> QED BY <4>1, <4>2
    <3>4. MayName(m, i)
      BY <1>1, <2>1, <2>3, <3>1, <3>3 DEF MayName, Fresh, TaskKnows
    <3> QED BY <1>1, <2>1, <3>1, <3>2, <3>4, ResolvedKeeps
  <2> QED BY <2>2, <2>3
<1> QED BY <1>2, <1>3, <1>4 DEF ResolveJoin

-----------------------------------------------------------------------------
(***************************************************************************)
(* Every step preserves the invariant.                                     *)
(***************************************************************************)

LEMMA HandshakeKeeps ==
  ASSUME EnrolmentInv, NEW m \in Machine, Handshake(m)
  PROVE  HeldInv' /\ TaskKnows' /\ TaskTypeOK'
<1> USE DEF EnrolmentInv, EnrolmentTypeOK
<1>1. CASE Dial(m)
  <2>1. /\ task' = [task EXCEPT ![m] = [stage |-> "hello", claims |-> known[m],
                                        id |-> None, class |-> None]]
        /\ UNCHANGED <<known, minted, tokens>>
    BY <1>1 DEF Dial, NoTask, hubVars
  <2>2. TaskTypeOK'
    BY <2>1 DEF TaskTypeOK, TypeOK, Stage, Named
  <2>3. \A n \in Machine : Held(n)' \subseteq Held(n)
    BY <2>1 DEF Held, TaskTypeOK
  <2>4. TaskKnows'
    BY <2>1 DEF TaskKnows, TaskTypeOK
  <2> QED BY <2>1, <2>2, <2>3, <2>4, HeldShrinks
<1>2. CASE ResolveJoin(m)
  BY <1>2, ResolveJoinKeeps
<1>3. CASE VersionGate(m)
  <2>1. PICK stage \in {"admitted", "outdated", "refused"} :
          task' = [task EXCEPT ![m].stage = stage]
    BY <1>3 DEF VersionGate, GoTo
  <2>2. UNCHANGED <<known, minted, tokens>> /\ task[m].stage = "resolved"
    BY <1>3 DEF VersionGate, hubVars, At
  <2>3. /\ TaskTypeOK'
        /\ \A n \in Machine : Held(n)' \subseteq Held(n)
        /\ TaskKnows'
    BY <2>1, <2>2 DEF TaskTypeOK, Stage, Named, Held, TaskKnows
  <2> QED BY <2>2, <2>3, HeldShrinks
<1>4. CASE HelloAck(m)
  <2>1. /\ task' = [task EXCEPT ![m].stage = "acknowledged"]
        /\ known' = [known EXCEPT ![m] = task[m].id]
        /\ UNCHANGED <<minted, tokens>> /\ task[m].stage = "admitted"
    BY <1>4 DEF HelloAck, GoTo, hubVars, At
  <2>2. TaskTypeOK'
    BY <2>1 DEF TaskTypeOK, Stage, Named
  <2>3. \A n \in Machine : Held(n)' \subseteq Held(n)
    BY <2>1 DEF Held, TaskTypeOK, TypeOK
  <2>4. TaskKnows'
    BY <2>1 DEF TaskKnows, TaskTypeOK, TypeOK, Named
  <2> QED BY <2>1, <2>2, <2>3, <2>4, HeldShrinks
<1>5. CASE Attach(m)
  <2>1. /\ task' = [task EXCEPT ![m].stage = "attached"]
        /\ UNCHANGED <<known, minted, tokens>> /\ task[m].stage = "acknowledged"
    BY <1>5 DEF Attach, GoTo, At
  <2>2. /\ TaskTypeOK'
        /\ \A n \in Machine : Held(n)' \subseteq Held(n)
        /\ TaskKnows'
    BY <2>1 DEF TaskTypeOK, Stage, Named, Held, TaskKnows
  <2> QED BY <2>1, <2>2, HeldShrinks
<1>6. CASE HelloReject(m)
  <2>1. /\ task' = [n \in Machine |-> IF n \in {m} THEN NoTask ELSE task[n]]
        /\ UNCHANGED <<known, minted, tokens>>
    BY <1>6 DEF HelloReject, hubVars, TaskTypeOK
  <2> QED BY <2>1, TaskEnds
<1>7. CASE SelfUpdate(m)
  <2>1. /\ task' = [n \in Machine |-> IF n \in {m} THEN NoTask ELSE task[n]]
        /\ \A n \in Machine : known'[n] # known[n] => n \in {m} /\ known'[n] = Given[n]
        /\ UNCHANGED <<minted, tokens>>
    BY <1>7 DEF SelfUpdate, hubVars, TaskTypeOK, TypeOK
  <2> QED BY <2>1, TaskEnds
<1> QED BY <1>1, <1>2, <1>3, <1>4, <1>5, <1>6, <1>7 DEF Handshake

LEMMA TroubleKeeps ==
  ASSUME EnrolmentInv,
         \/ \E m \in Machine : Disconnect(m) \/ WorkerRestart(m)
         \/ \E t \in Token : Expire(t) \/ Revoke(t)
         \/ HubRestart
  PROVE  HeldInv' /\ TaskKnows' /\ TaskTypeOK'
<1> USE DEF EnrolmentInv, EnrolmentTypeOK
<1>1. ASSUME NEW m \in Machine, Disconnect(m) \/ WorkerRestart(m)
      PROVE  HeldInv' /\ TaskKnows' /\ TaskTypeOK'
  <2>1. /\ task' = [n \in Machine |-> IF n \in {m} THEN NoTask ELSE task[n]]
        /\ \A n \in Machine : known'[n] # known[n] => n \in {m} /\ known'[n] = Given[n]
        /\ UNCHANGED <<minted, tokens>>
    BY <1>1 DEF Disconnect, WorkerRestart, TaskTypeOK, TypeOK
  <2> QED BY <2>1, TaskEnds
<1>2. ASSUME NEW t \in Token, Expire(t) \/ Revoke(t)
      PROVE  HeldInv' /\ TaskKnows' /\ TaskTypeOK'
  <2>1. UNCHANGED <<task, known, minted>>
    BY <1>2 DEF Expire, Revoke
  <2>2. \A u \in JoinToken : tokens[u] = "used" => tokens'[u] = "used"
    BY <1>2, EnrolmentAssumption DEF Expire, Revoke, TypeOK, Token
  <2>3. TaskTypeOK' /\ TaskKnows' /\ \A n \in Machine : Held(n)' = Held(n)
    BY <2>1 DEF TaskTypeOK, TaskKnows, Held
  <2> QED BY <2>1, <2>2, <2>3, HeldShrinks
<1>3. CASE HubRestart
  <2>1. /\ task' = [n \in Machine |-> IF n \in Machine THEN NoTask ELSE task[n]]
        /\ UNCHANGED <<known, minted, tokens>>
    BY <1>3 DEF HubRestart
  <2> QED BY <2>1, TaskEnds
<1> QED BY <1>1, <1>2, <1>3

\* The rest of the types; the tasks' are above.
LEMMA TypeKept ==
  ASSUME EnrolmentTypeOK, Next, TaskTypeOK'
  PROVE  TypeOK'
<1> USE DEF EnrolmentTypeOK, TypeOK
<1>1. \A m \in Machine : /\ task'[m].stage \in Stage
                         /\ task'[m].id # None => task'[m].class \in {"leased", "persistent"}
  BY DEF TaskTypeOK
<1>2. ASSUME NEW m \in Machine, Handshake(m)
      PROVE  /\ tokens' \in [Token -> {"unused", "used", "expired", "revoked"}]
             /\ link' \in [Identity -> Machine \cup {None}]
             /\ known' \in [Machine -> Identity \cup {None}]
  <2>1. tokens' \in [Token -> {"unused", "used", "expired", "revoked"}]
    BY <1>2 DEF Handshake, Dial, ResolveJoin, VersionGate, HelloAck, Attach, HelloReject,
                SelfUpdate, AdmitJoinToken, ResolveWorkerToken, ResolveShared, hubVars
  <2>2. link' \in [Identity -> Machine \cup {None}]
    BY <1>2 DEF Handshake, Dial, ResolveJoin, VersionGate, HelloAck, Attach, HelloReject,
                SelfUpdate, hubVars, TaskTypeOK
  <2>3. known' \in [Machine -> Identity \cup {None}]
    BY <1>2, EnrolmentAssumption
    DEF Handshake, Dial, ResolveJoin, VersionGate, HelloAck, Attach, HelloReject,
        SelfUpdate, hubVars, TaskTypeOK
  <2> QED BY <2>1, <2>2, <2>3
<1>3. ASSUME NEW m \in Machine, Disconnect(m) \/ WorkerRestart(m)
      PROVE  /\ tokens' \in [Token -> {"unused", "used", "expired", "revoked"}]
             /\ link' \in [Identity -> Machine \cup {None}]
             /\ known' \in [Machine -> Identity \cup {None}]
  BY <1>3, EnrolmentAssumption DEF Disconnect, WorkerRestart, Detach
<1>4. ASSUME NEW t \in Token, Expire(t) \/ Revoke(t)
      PROVE  /\ tokens' \in [Token -> {"unused", "used", "expired", "revoked"}]
             /\ UNCHANGED <<link, known>>
  BY <1>4 DEF Expire, Revoke
<1>5. CASE HubRestart
  BY <1>1, <1>5 DEF HubRestart
<1> QED BY <1>1, <1>2, <1>3, <1>4, <1>5 DEF Next

LEMMA NextInv == EnrolmentInv /\ [Next]_vars => EnrolmentInv'
<1> SUFFICES ASSUME EnrolmentInv, [Next]_vars PROVE EnrolmentInv'
  OBVIOUS
<1>1. CASE Next
  <2>1. HeldInv' /\ TaskKnows' /\ TaskTypeOK'
    BY <1>1, HandshakeKeeps, TroubleKeeps DEF Next
  <2> QED BY <1>1, <2>1, TypeKept DEF EnrolmentInv, EnrolmentTypeOK
<1>2. CASE UNCHANGED vars
  BY <1>2 DEF vars, hubVars, EnrolmentInv, EnrolmentTypeOK, TypeOK, TaskTypeOK, HeldInv,
              HeldIsGranted, MintedIsNew, HeldAreDisjoint, HeldIsUsed, Held, TaskKnows
<1> QED BY <1>1, <1>2

LEMMA EnrolmentInvariant == Spec => []EnrolmentInv
BY InitInv, NextInv, PTL DEF Spec

-----------------------------------------------------------------------------
(***************************************************************************)
(* The theorems.                                                           *)
(***************************************************************************)

\* Tokens, links and identities are what the handshake can make of them.
THEOREM EnrolmentTypes == Spec => []TypeOK
<1>1. EnrolmentInv => TypeOK
  BY DEF EnrolmentInv, EnrolmentTypeOK
<1> QED BY <1>1, EnrolmentInvariant, PTL

\* No two machines ever go by one identity (admit_join_token: a consumed token
\* "can never enrol a second worker"), however the handshakes of those that
\* share a join token interleave, and whatever is lost or restarted.
THEOREM EnrolmentIsExclusive == Spec => []IdentitiesAreDistinct
<1>1. EnrolmentInv => IdentitiesAreDistinct
  BY DEF EnrolmentInv, HeldInv, HeldAreDisjoint, Held, IdentitiesAreDistinct
<1> QED BY <1>1, EnrolmentInvariant, PTL

\* A process that knows its identity is told no other (resolve_join returns the
\* identity claimed, or the one the token is bound to).
THEOREM EnrolmentKeepsIdentity == Spec => IdentityIsKept
<1> DEFINE Kept == \A m \in Machine : known[m] # None => known'[m] \in {known[m], Given[m]}
<1>1. EnrolmentInv /\ [Next]_vars => [Kept]_vars
  <2> SUFFICES ASSUME EnrolmentInv, Next PROVE Kept
    OBVIOUS
  <2> USE DEF EnrolmentInv, EnrolmentTypeOK, TypeOK
  <2>1. ASSUME NEW m \in Machine, Handshake(m) PROVE Kept
    <3>1. CASE HelloAck(m)
      BY <3>1 DEF HelloAck, At, TaskKnows, TaskTypeOK, Named
    <3>2. CASE SelfUpdate(m)
      BY <3>2 DEF SelfUpdate
    <3>3. CASE UNCHANGED known
      BY <3>3
    <3> QED BY <2>1, <3>1, <3>2, <3>3
            DEF Handshake, Dial, ResolveJoin, VersionGate, Attach, HelloReject
  <2>2. ASSUME NEW m \in Machine, Disconnect(m) \/ WorkerRestart(m) PROVE Kept
    BY <2>2 DEF Disconnect, WorkerRestart
  <2>3. ASSUME NEW t \in Token, Expire(t) \/ Revoke(t) PROVE Kept
    BY <2>3 DEF Expire, Revoke
  <2>4. CASE HubRestart
    BY <2>4 DEF HubRestart
  <2> QED BY <2>1, <2>2, <2>3, <2>4 DEF Next
<1> QED BY <1>1, EnrolmentInvariant, PTL DEF Spec, IdentityIsKept
=============================================================================
