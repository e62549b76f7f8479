--------------------------- MODULE Leases_proofs ---------------------------
(***************************************************************************)
(* What holds of every set of workers, providers and clients: the values   *)
(* of the store stay what they may be, a destroyed lease is charged, and a *)
(* budget check that nothing overtook covers the write it was made for.    *)
(***************************************************************************)
EXTENDS Leases, Sums_proofs, TLAPS

-----------------------------------------------------------------------------
(***************************************************************************)
(* The inductive invariant: what the tasks remember still makes sense,     *)
(* whatever other tasks did to the rows in the meantime.                   *)
(***************************************************************************)

Owner == Client \cup {Clock}
Extension == [worker : Worker, minutes : Minutes, row : Lease \cup {None}]

ProvisionsOK == prov \in [Worker -> Provisions \cup {None}]

\* An extension is of a worker that has a lease row.
ExtensionsOK ==
    /\ ext \in [Client -> Extension \cup {None}]
    /\ \A c \in Client : ext[c] # None => lease[ext[c].worker] # None

ClosingsOK ==
    /\ closing \in [Owner -> Teardowns \cup {None}]
    /\ \A t \in Owner : closing[t] # None => lease[closing[t].worker] # None

VerdictsOK ==
    /\ DOMAIN clock.todo \subseteq Worker
    /\ \A w \in DOMAIN clock.todo : lease[w] # None

TasksOK == ProvisionsOK /\ ExtensionsOK /\ ClosingsOK /\ VerdictsOK

LeasesInv == TypeOK /\ TasksOK /\ DestroyedIsCharged

-----------------------------------------------------------------------------
(***************************************************************************)
(* A row once written stays, so what the tasks know of it holds on.        *)
(***************************************************************************)

RowsStay == \A w \in Worker : lease[w] # None => lease'[w] # None

LEMMA ExtensionsStay ==
  ASSUME ExtensionsOK, RowsStay, UNCHANGED ext PROVE ExtensionsOK'
BY DEF ExtensionsOK, RowsStay, Extension

LEMMA ClosingsStay ==
  ASSUME ClosingsOK, RowsStay, UNCHANGED closing PROVE ClosingsOK'
BY DEF ClosingsOK, RowsStay, Teardowns

LEMMA VerdictsStay ==
  ASSUME VerdictsOK, RowsStay, UNCHANGED clock PROVE VerdictsOK'
BY DEF VerdictsOK, RowsStay

\* Nothing destroys a lease, forgets its entries or drops a charge that is due.
LEMMA ChargesStay ==
  ASSUME DestroyedIsCharged, ClosingsOK,
         \A w \in Worker : lease'[w] # None /\ lease'[w].state = "destroyed" =>
             lease[w] # None /\ lease[w].state = "destroyed",
         \A w \in Worker : ledger[w].ends > 0 => ledger'[w].ends > 0,
         \A t \in Owner : Closing(t, "charge") => closing'[t] = closing[t],
         crashed => crashed'
  PROVE  DestroyedIsCharged'
<1> SUFFICES ASSUME NEW w \in Worker, lease[w] # None, lease[w].state = "destroyed"
             PROVE  \/ ledger'[w].ends > 0
                    \/ \E t \in Owner : Closing(t, "charge")' /\ closing'[t].worker = w
                    \/ crashed'
  BY DEF DestroyedIsCharged, Owner
<1>1. CASE ledger[w].ends > 0 \/ crashed
  BY <1>1
<1>2. ASSUME NEW t \in Owner, Closing(t, "charge"), closing[t].worker = w
      PROVE  Closing(t, "charge")' /\ closing'[t].worker = w
  BY <1>2 DEF Closing
<1> QED BY <1>1, <1>2 DEF DestroyedIsCharged, Owner

LEMMA InitInv == Init => LeasesInv
<1> SUFFICES ASSUME Init PROVE LeasesInv
  OBVIOUS
<1> USE DEF Init
<1>1. TypeOK
  BY LeaseAssumption DEF TypeOK, Entries
<1>2. TasksOK
  BY DEF TasksOK, ProvisionsOK, ExtensionsOK, ClosingsOK, VerdictsOK, Resting, Owner
<1>3. DestroyedIsCharged
  BY DEF DestroyedIsCharged
<1> QED BY <1>1, <1>2, <1>3 DEF LeasesInv

\* What the drivers do to an instance keeps its type.
LEMMA DriversKeep ==
  ASSUME billed \in [Worker -> Provider \cup {Stray, None}], NEW w, NEW p \in Provider,
         \/ MockProvision(w, p) \/ VastProvision(w, p) \/ VastProvisionLost(w, p)
         \/ ProvisionFails \/ Destroyed(w, p) \/ DestroyFails(p)
  PROVE  billed' \in [Worker -> Provider \cup {Stray, None}]
BY DEF MockProvision, VastProvision, VastProvisionLost, ProvisionFails, Destroyed, MockDestroy,
       VastDestroy, DestroyFails, Rented, Gone

LEMMA StageMoves ==
  ASSUME ProvisionsOK, NEW w \in Worker, prov[w] # None,
         NEW s \in {"asked", "rented", "cleared", "over"}, MoveTo(w, s)
  PROVE  ProvisionsOK'
<1>1. prov[w] \in Provisions
  BY DEF ProvisionsOK
<1>2. [prov[w] EXCEPT !.stage = s] \in Provisions
  BY <1>1 DEF Provisions
<1> QED BY <1>2 DEF ProvisionsOK, MoveTo

-----------------------------------------------------------------------------
(***************************************************************************)
(* Provisioning.                                                           *)
(***************************************************************************)

LEMMA ProvisioningKeeps ==
  ASSUME LeasesInv, Provisioning PROVE LeasesInv'
<1> USE DEF LeasesInv, TasksOK
<1>1. ASSUME NEW q \in Request, RequestProvision(q) PROVE LeasesInv'
  <2>1. /\ prov' = [prov EXCEPT ![q.worker] = [stage |-> "asked", ask |-> q]]
        /\ UNCHANGED <<storeVars, billed, ext, closing, clock>>
    BY <1>1 DEF RequestProvision
  <2>2. ProvisionsOK'
    BY <2>1 DEF ProvisionsOK, Provisions
  <2>3. TypeOK' /\ RowsStay
    BY <2>1 DEF TypeOK, RowsStay, storeVars, booksVars
  <2>4. DestroyedIsCharged'
    BY <2>1 DEF DestroyedIsCharged, Closing, storeVars, booksVars, hubVars
  <2> QED BY <2>1, <2>2, <2>3, <2>4, ExtensionsStay, ClosingsStay, VerdictsStay
<1>2. ASSUME NEW w \in Worker, Rent(w) \/ ExactCheck(w) PROVE LeasesInv'
  <2>1. /\ prov[w] # None /\ prov[w].ask.provider \in Provider
        /\ UNCHANGED <<storeVars, ext, closing, clock>>
    BY <1>2, LeaseAssumption DEF Rent, ExactCheck, At, ProvisionsOK, Provisions
  <2>2. ProvisionsOK'
    BY <1>2, <2>1, StageMoves DEF Rent, ExactCheck
  <2>3. billed' \in [Worker -> Provider \cup {Stray, None}]
    BY <1>2, <2>1, DriversKeep DEF Rent, ExactCheck, TypeOK
  <2>4. TypeOK' /\ RowsStay
    BY <2>1, <2>3 DEF TypeOK, RowsStay, storeVars, booksVars
  <2>5. DestroyedIsCharged'
    BY <2>1 DEF DestroyedIsCharged, Closing, storeVars, booksVars, hubVars
  <2> QED BY <2>1, <2>2, <2>4, <2>5, ExtensionsStay, ClosingsStay, VerdictsStay
<1>3. ASSUME NEW w \in Worker, RecordLease(w) PROVE LeasesInv'
  <2> DEFINE q == prov[w].ask
             row == [provider |-> q.provider, price |-> q.price,
                     granted |-> q.minutes, extended |-> 0, state |-> "active"]
  <2>1. /\ prov[w] # None /\ lease' = [lease EXCEPT ![w] = row] /\ MoveTo(w, "over")
        /\ UNCHANGED <<ledger, caps, age, crashed, billed, ext, closing, clock>>
    BY <1>3 DEF RecordLease, At, hubVars
  <2>2. row \in Lease /\ row # None /\ row.state = "active"
    <3>1. q \in Request
      BY <2>1 DEF ProvisionsOK, Provisions
    <3>2. row \in Lease
      BY <3>1, LeaseAssumption DEF Lease, LeaseState
    <3> QED BY <3>2, BudgetAssumption
  <2> HIDE DEF row
  <2>3. TypeOK' /\ RowsStay
    BY <2>1, <2>2 DEF TypeOK, RowsStay
  <2>4. ProvisionsOK'
    BY <2>1, StageMoves
  <2>5. DestroyedIsCharged'
    BY <2>1, <2>2, ChargesStay DEF TypeOK
  <2> QED BY <2>1, <2>3, <2>4, <2>5, ExtensionsStay, ClosingsStay, VerdictsStay
<1> QED BY <1>1, <1>2, <1>3 DEF Provisioning

-----------------------------------------------------------------------------
(***************************************************************************)
(* Extending.                                                              *)
(***************************************************************************)

LEMMA ExtendingKeeps ==
  ASSUME LeasesInv, Extending PROVE LeasesInv'
<1> USE DEF LeasesInv, TasksOK
<1>1. ASSUME NEW c \in Client, NEW w \in Worker, NEW m \in Minutes, AskExtend(c, w, m)
      PROVE  LeasesInv'
  <2>1. /\ lease[w] # None /\ ext' = [ext EXCEPT ![c] = [worker |-> w, minutes |-> m, row |-> None]]
        /\ UNCHANGED <<storeVars, billed, prov, closing, clock>>
    BY <1>1 DEF AskExtend
  <2>2. TypeOK' /\ RowsStay /\ ProvisionsOK'
    BY <2>1 DEF TypeOK, RowsStay, ProvisionsOK, storeVars, booksVars
  <2>3. ExtensionsOK'
    BY <2>1 DEF ExtensionsOK, Extension, storeVars, booksVars
  <2>4. DestroyedIsCharged'
    BY <2>1 DEF DestroyedIsCharged, Closing, storeVars, booksVars, hubVars
  <2> QED BY <2>1, <2>2, <2>3, <2>4, ClosingsStay, VerdictsStay
<1>2. ASSUME NEW c \in Client, ReadLease(c) PROVE LeasesInv'
  <2>1. /\ ext[c] # None /\ ext' = [ext EXCEPT ![c].row = lease[ext[c].worker]]
        /\ UNCHANGED <<storeVars, billed, prov, closing, clock>>
    BY <1>2 DEF ReadLease
  <2>2. TypeOK' /\ RowsStay /\ ProvisionsOK'
    BY <2>1 DEF TypeOK, RowsStay, ProvisionsOK, storeVars, booksVars
  <2>3. ExtensionsOK'
    <3>1. ext[c] \in Extension
      BY <2>1 DEF ExtensionsOK
    <3>2. lease[ext[c].worker] \in Lease \cup {None}
      BY <3>1 DEF TypeOK, Extension
    <3>3. ext'[c] \in Extension /\ ext'[c].worker = ext[c].worker
      BY <2>1, <3>1, <3>2 DEF Extension, ExtensionsOK
    <3> QED BY <2>1, <3>3 DEF ExtensionsOK, storeVars, booksVars
  <2>4. DestroyedIsCharged'
    BY <2>1 DEF DestroyedIsCharged, Closing, storeVars, booksVars, hubVars
  <2> QED BY <2>1, <2>2, <2>3, <2>4, ClosingsStay, VerdictsStay
<1>3. ASSUME NEW c \in Client, WriteExtension(c) PROVE LeasesInv'
  <2> DEFINE w == ext[c].worker
             read == ext[c].row
             row == [provider |-> lease[w].provider, price |-> lease[w].price,
                     granted |-> lease[w].granted, extended |-> read.extended + ext[c].minutes,
                     state |-> IF read.state = "draining" THEN "active" ELSE lease[w].state]
  <2>1. /\ ext[c] # None /\ read # None /\ lease' = [lease EXCEPT ![w] = row]
        /\ ext' = [ext EXCEPT ![c] = None]
        /\ UNCHANGED <<ledger, caps, age, crashed, billed, prov, closing, clock>>
    BY <1>3 DEF WriteExtension, hubVars
  <2>2. ext[c] \in Extension /\ w \in Worker /\ lease[w] \in Lease /\ read \in Lease
    BY <2>1 DEF ExtensionsOK, Extension, TypeOK
  <2>3. row \in Lease /\ row # None
    <3>1. ext[c].minutes \in Nat
      BY <2>2, LeaseAssumption DEF Extension
    <3>2. read.extended \in Nat
      BY <2>2 DEF Lease
    <3>3. row \in Lease
      BY <2>2, <3>1, <3>2 DEF Lease, LeaseState
    <3> QED BY <3>3, BudgetAssumption
  <2>4. row.state = "destroyed" => lease[w].state = "destroyed"
    OBVIOUS
  <2> HIDE DEF row
  <2>5. TypeOK' /\ RowsStay
    BY <2>1, <2>3 DEF TypeOK, RowsStay
  <2>6. ProvisionsOK'
    BY <2>1 DEF ProvisionsOK
  <2>7. ExtensionsOK'
    BY <2>1, <2>5 DEF ExtensionsOK, RowsStay, Extension
  <2>8. DestroyedIsCharged'
    BY <2>1, <2>2, <2>3, <2>4, BudgetAssumption, ChargesStay DEF TypeOK
  <2> QED BY <2>1, <2>5, <2>6, <2>7, <2>8, ClosingsStay, VerdictsStay
<1> QED BY <1>1, <1>2, <1>3 DEF Extending

-----------------------------------------------------------------------------
(***************************************************************************)
(* Tearing down and the clock.                                             *)
(***************************************************************************)

\* A row that only changes its state stays a row.
LEMMA StateChanges ==
  ASSUME TypeOK, NEW w \in Worker, lease[w] # None, NEW s \in LeaseState,
         lease' = [lease EXCEPT ![w].state = s]
  PROVE  /\ lease' \in [Worker -> Lease \cup {None}] /\ RowsStay
         /\ lease'[w] # None /\ lease'[w].state = s
         /\ \A v \in Worker : v # w => lease'[v] = lease[v]
<1>1. lease[w] \in Lease
  BY DEF TypeOK
<1>2. [lease[w] EXCEPT !.state = s] \in Lease /\ [lease[w] EXCEPT !.state = s].state = s
  BY <1>1 DEF Lease
<1>3. lease'[w] = [lease[w] EXCEPT !.state = s]
  BY DEF TypeOK
<1> QED BY <1>2, <1>3, BudgetAssumption DEF TypeOK, RowsStay

\* Whoever begins to close a lease was not closing another.
LEMMA BeginKeeps ==
  ASSUME TypeOK, ClosingsOK, NEW t \in Owner, NEW w \in Worker, closing[t] = None,
         lease[w] # None, Begin(t, w), RowsStay
  PROVE  /\ ClosingsOK'
         /\ \A u \in Owner : Closing(u, "charge") => closing'[u] = closing[u]
<1>1. [worker |-> w, stage |-> "destroy"] \in Teardowns
  BY DEF Teardowns
<1>2. ClosingsOK'
  BY <1>1 DEF ClosingsOK, Begin, RowsStay, Teardowns
<1> QED BY <1>2 DEF ClosingsOK, Begin, Closing

LEMMA TeardownKeeps ==
  ASSUME LeasesInv, NEW c \in Client, NEW w \in Worker, NEW drainFirst \in BOOLEAN,
         Teardown(c, w, drainFirst)
  PROVE  LeasesInv'
<1> USE DEF LeasesInv, TasksOK
<1>1. /\ closing[c] = None /\ lease[w] # None /\ c \in Owner /\ Begin(c, w)
      /\ UNCHANGED <<ledger, caps, age, crashed, billed, prov, ext, clock>>
      /\ lease' = lease \/ lease' = [lease EXCEPT ![w].state = "draining"]
  BY DEF Teardown, Free, Owner, hubVars, Drained
<1>2. /\ TypeOK' /\ RowsStay
      /\ \A v \in Worker : lease'[v] # None /\ lease'[v].state = "destroyed" =>
             lease[v] # None /\ lease[v].state = "destroyed"
  BY <1>1, StateChanges DEF TypeOK, RowsStay, LeaseState
<1>3. ProvisionsOK' /\ ExtensionsOK' /\ VerdictsOK'
  BY <1>1, <1>2, ExtensionsStay, VerdictsStay DEF ProvisionsOK
<1>4. ClosingsOK' /\ \A u \in Owner : Closing(u, "charge") => closing'[u] = closing[u]
  BY <1>1, <1>2, BeginKeeps
<1>5. DestroyedIsCharged'
  BY <1>1, <1>2, <1>4, ChargesStay
<1> QED BY <1>2, <1>3, <1>4, <1>5

LEMMA DestroyKeeps ==
  ASSUME LeasesInv, NEW t \in Owner, Destroy(t) \/ DestroyRefused(t) PROVE LeasesInv'
<1> USE DEF LeasesInv, TasksOK
<1>1. /\ closing[t] # None /\ closing[t].stage = "destroy"
      /\ UNCHANGED <<storeVars, prov, ext>>
      /\ clock' \in {Resting, clock}
      /\ \/ closing' = [closing EXCEPT ![t].stage = "verify"]
         \/ closing' = [closing EXCEPT ![t] = None]
  BY DEF Destroy, DestroyRefused, Closing
<1>2. closing[t] \in Teardowns /\ closing[t].worker \in Worker
  BY <1>1 DEF ClosingsOK, Teardowns
<1>3. lease[closing[t].worker] # None /\ lease[closing[t].worker].provider \in Provider
  BY <1>1, <1>2 DEF ClosingsOK, TypeOK, Lease
<1>4. billed' \in [Worker -> Provider \cup {Stray, None}]
  BY <1>3, DriversKeep DEF Destroy, DestroyRefused, TypeOK
<1>5. TypeOK' /\ RowsStay
  BY <1>1, <1>4 DEF TypeOK, RowsStay, storeVars, booksVars
<1>6. ClosingsOK'
  <2>1. [closing[t] EXCEPT !.stage = "verify"] \in Teardowns
        /\ [closing[t] EXCEPT !.stage = "verify"].worker = closing[t].worker
    BY <1>2 DEF Teardowns
  <2>2. CASE closing' = [closing EXCEPT ![t].stage = "verify"]
    <3>1. closing'[t] = [closing[t] EXCEPT !.stage = "verify"]
      BY <2>2 DEF ClosingsOK
    <3> QED BY <1>1, <1>3, <2>1, <2>2, <3>1 DEF ClosingsOK, storeVars, booksVars
  <2>3. CASE closing' = [closing EXCEPT ![t] = None]
    BY <1>1, <2>3 DEF ClosingsOK, storeVars, booksVars
  <2> QED BY <1>1, <2>2, <2>3
<1>7. VerdictsOK'
  BY <1>1 DEF VerdictsOK, Resting, storeVars, booksVars
<1>8. \A u \in Owner : Closing(u, "charge") => closing'[u] = closing[u]
  BY <1>1 DEF Closing, ClosingsOK
<1>9. DestroyedIsCharged'
  BY <1>1, <1>8, ChargesStay DEF storeVars, booksVars, hubVars
<1> QED BY <1>1, <1>5, <1>6, <1>7, <1>9, ExtensionsStay DEF ProvisionsOK

LEMMA RecordDestroyedKeeps ==
  ASSUME LeasesInv, NEW t \in Owner, RecordDestroyed(t) PROVE LeasesInv'
<1> USE DEF LeasesInv, TasksOK
<1> DEFINE w == closing[t].worker
<1>1. /\ closing[t] # None /\ closing[t].stage = "verify"
      /\ lease' = [lease EXCEPT ![w].state = "destroyed"]
      /\ closing' = [closing EXCEPT ![t].stage = "charge"]
      /\ UNCHANGED <<ledger, caps, age, crashed, billed, prov, ext, clock>>
  BY DEF RecordDestroyed, Closing, hubVars
<1>2. closing[t] \in Teardowns /\ w \in Worker /\ lease[w] # None
  BY <1>1 DEF ClosingsOK, Teardowns
<1>3. /\ lease' \in [Worker -> Lease \cup {None}] /\ RowsStay
      /\ \A v \in Worker : v # w => lease'[v] = lease[v]
  BY <1>1, <1>2, StateChanges DEF LeaseState
<1>4. /\ closing'[t] = [closing[t] EXCEPT !.stage = "charge"]
      /\ closing'[t] \in Teardowns /\ closing'[t] # None
      /\ closing'[t].worker = w /\ closing'[t].stage = "charge"
  <2>1. closing'[t] = [closing[t] EXCEPT !.stage = "charge"]
    BY <1>1 DEF ClosingsOK
  <2>2. closing'[t] \in Teardowns /\ closing'[t].worker = w /\ closing'[t].stage = "charge"
    BY <1>2, <2>1 DEF Teardowns
  <2> QED BY <2>1, <2>2, LeaseAssumption
<1>5. \A u \in Owner : u # t => closing'[u] = closing[u]
  BY <1>1 DEF ClosingsOK
<1>6. TypeOK' /\ ProvisionsOK' /\ ExtensionsOK' /\ VerdictsOK'
  BY <1>1, <1>3, ExtensionsStay, VerdictsStay DEF TypeOK, ProvisionsOK
<1>7. ClosingsOK'
  BY <1>1, <1>2, <1>3, <1>4, <1>5 DEF ClosingsOK, RowsStay, Teardowns
<1>8. DestroyedIsCharged'
  <2> SUFFICES ASSUME NEW v \in Worker, lease'[v] # None, lease'[v].state = "destroyed"
               PROVE  \/ ledger'[v].ends > 0
                      \/ \E u \in Owner : Closing(u, "charge")' /\ closing'[u].worker = v
                      \/ crashed'
    BY DEF DestroyedIsCharged, Owner
  <2>1. CASE v = w
    BY <1>4, <2>1 DEF Closing
  <2>2. CASE v # w
    <3>1. \/ ledger[v].ends > 0 \/ crashed
          \/ \E u \in Owner : Closing(u, "charge") /\ closing[u].worker = v
      BY <1>3, <2>2 DEF DestroyedIsCharged, Owner
    <3>2. ~Closing(t, "charge")
      BY <1>1 DEF Closing
    <3> QED BY <1>1, <1>5, <3>1, <3>2 DEF Closing
  <2> QED BY <2>1, <2>2
<1> QED BY <1>6, <1>7, <1>8

LEMMA Products == \A m, n \in Nat : m * n \in Nat
OBVIOUS

LEMMA ChargeKeeps ==
  ASSUME LeasesInv, NEW t \in Owner, Charge(t) PROVE LeasesInv'
<1> USE DEF LeasesInv, TasksOK
<1> DEFINE w == closing[t].worker
           cost == lease[w].price * age[w]
           entry == [month |-> ledger[w].month + cost, before |-> ledger[w].before,
                     ends |-> ledger[w].ends + 1]
<1>1. /\ closing[t] # None /\ closing[t].stage = "charge"
      /\ ledger' = [ledger EXCEPT ![w] = entry] /\ closing' = [closing EXCEPT ![t] = None]
      /\ UNCHANGED <<lease, caps, age, crashed, billed, prov, ext, clock>>
  BY DEF Charge, Closing, hubVars
<1>2. w \in Worker /\ lease[w] # None
  BY <1>1 DEF ClosingsOK, Teardowns
<1>3. entry \in Entries /\ entry.ends > 0
  <2>1. lease[w].price \in Nat /\ age[w] \in Nat /\ ledger[w] \in Entries
    BY <1>2, LeaseAssumption DEF TypeOK, Lease
  <2>2. cost \in Nat
    BY <2>1, Products
  <2> HIDE DEF cost
  <2> QED BY <2>1, <2>2 DEF Entries
<1> HIDE DEF cost, entry
<1>4. TypeOK' /\ RowsStay
  BY <1>1, <1>3 DEF TypeOK, RowsStay
<1>5. ClosingsOK' /\ ProvisionsOK' /\ ExtensionsOK' /\ VerdictsOK'
  BY <1>1, <1>4, ExtensionsStay, VerdictsStay DEF ClosingsOK, ProvisionsOK
<1>6. DestroyedIsCharged'
  <2> SUFFICES ASSUME NEW v \in Worker, lease[v] # None, lease[v].state = "destroyed"
               PROVE  \/ ledger'[v].ends > 0
                      \/ \E u \in Owner : Closing(u, "charge")' /\ closing'[u].worker = v
                      \/ crashed'
    BY <1>1 DEF DestroyedIsCharged, Owner
  <2>1. CASE v = w
    BY <1>1, <1>2, <1>3, <2>1 DEF TypeOK
  <2>2. CASE v # w
    <3>1. \/ ledger[v].ends > 0 \/ crashed
          \/ \E u \in Owner : Closing(u, "charge") /\ closing[u].worker = v
      BY <2>2 DEF DestroyedIsCharged, Owner
    <3>2. ledger'[v] = ledger[v]
      BY <1>1, <2>2 DEF TypeOK
    <3>3. \A u \in Owner : u # t => closing'[u] = closing[u]
      BY <1>1 DEF ClosingsOK
    <3> QED BY <1>1, <2>2, <3>1, <3>2, <3>3 DEF Closing
  <2> QED BY <2>1, <2>2
<1> QED BY <1>4, <1>5, <1>6

LEMMA ClockKeeps ==
  ASSUME LeasesInv, ClockStep PROVE LeasesInv'
<1> USE DEF LeasesInv, TasksOK
<1>1. ASSUME ClockStart \/ ReapIdle PROVE LeasesInv'
  <2>1. UNCHANGED <<storeVars, billed, prov, ext, closing>>
    BY <1>1 DEF ClockStart, ReapIdle
  <2>2. VerdictsOK'
    BY <1>1 DEF ClockStart, ReapIdle, VerdictsOK, Live, storeVars, booksVars
  <2>3. TypeOK' /\ RowsStay
    BY <2>1 DEF TypeOK, RowsStay, storeVars, booksVars
  <2>4. DestroyedIsCharged'
    BY <2>1 DEF DestroyedIsCharged, Closing, storeVars, booksVars, hubVars
  <2> QED BY <2>1, <2>2, <2>3, <2>4, ExtensionsStay, ClosingsStay DEF ProvisionsOK
<1>2. ASSUME NEW w \in Worker, ClockNext(w) PROVE LeasesInv'
  <2>1. /\ closing[Clock] = None /\ w \in DOMAIN clock.todo
        /\ UNCHANGED <<ledger, caps, age, crashed, billed, prov, ext>>
        /\ lease' = lease \/ lease' = [lease EXCEPT ![w].state = "draining"]
        /\ UNCHANGED closing \/ Begin(Clock, w)
        /\ clock'.todo = [v \in DOMAIN clock.todo \ {w} |-> clock.todo[v]]
    BY <1>2 DEF ClockNext, TakeUp, Drained, hubVars
  <2>2. lease[w] # None /\ Clock \in Owner
    BY <2>1 DEF VerdictsOK, Owner
  <2>3. /\ TypeOK' /\ RowsStay
        /\ \A v \in Worker : lease'[v] # None /\ lease'[v].state = "destroyed" =>
               lease[v] # None /\ lease[v].state = "destroyed"
    BY <2>1, <2>2, StateChanges DEF TypeOK, RowsStay, LeaseState
  <2>4. ClosingsOK' /\ \A u \in Owner : Closing(u, "charge") => closing'[u] = closing[u]
    BY <2>1, <2>2, <2>3, BeginKeeps, ClosingsStay
  <2>5. VerdictsOK'
    BY <2>1, <2>3 DEF VerdictsOK, RowsStay
  <2>6. DestroyedIsCharged'
    BY <2>1, <2>3, <2>4, ChargesStay
  <2> QED BY <2>1, <2>3, <2>4, <2>5, <2>6, ExtensionsStay DEF ProvisionsOK
<1> QED BY <1>1, <1>2 DEF ClockStep

-----------------------------------------------------------------------------
(***************************************************************************)
(* The reconcile pass, time, the hub, administrators and crashes.          *)
(***************************************************************************)

\* A step that leaves leases, entries and the tasks about them alone.
LEMMA ElsewhereKeeps ==
  ASSUME LeasesInv, UNCHANGED <<lease, crashed, prov, ext, closing, clock>>,
         TypeOK', \A w \in Worker : ledger[w].ends > 0 => ledger'[w].ends > 0
  PROVE  LeasesInv'
<1> USE DEF LeasesInv, TasksOK
<1>1. RowsStay
  BY DEF RowsStay
<1>2. DestroyedIsCharged'
  BY ChargesStay
<1> QED BY <1>1, <1>2, ExtensionsStay, ClosingsStay, VerdictsStay DEF ProvisionsOK

LEMMA ReconcileKeeps ==
  ASSUME LeasesInv, ReconcileStep PROVE LeasesInv'
<1> USE DEF LeasesInv
<1>1. ASSUME NEW w \in Worker, KillOrphan(w) PROVE LeasesInv'
  <2> DEFINE p == prov[w].ask.provider
  <2>1. (Destroyed(w, p) \/ DestroyFails(p)) /\ UNCHANGED <<storeVars, prov, ext, closing, clock>>
    BY <1>1 DEF KillOrphan
  <2> HIDE DEF p
  <2>2. billed' \in [Worker -> Provider \cup {Stray, None}]
    BY <2>1 DEF TypeOK, Destroyed, MockDestroy, VastDestroy, DestroyFails, Gone
  <2> QED BY <2>1, <2>2, ElsewhereKeeps DEF TypeOK, storeVars, booksVars, hubVars
<1>2. ASSUME ReconcileStart \/ ReconcileEnd \/ \E p \in Provider : ListInstances(p)
      PROVE  LeasesInv'
  <2>1. UNCHANGED <<storeVars, billed, prov, ext, closing, clock>>
    BY <1>2 DEF ReconcileStart, ReconcileEnd, ListInstances
  <2> QED BY <2>1, ElsewhereKeeps DEF TypeOK, storeVars, booksVars, hubVars
<1> QED BY <1>1, <1>2 DEF ReconcileStep

LEMMA HubAndTimeKeep ==
  ASSUME LeasesInv, Tick \/ HubStep PROVE LeasesInv'
<1> USE DEF LeasesInv
<1>1. CASE Tick
  <2>1. age' \in [Worker -> 0..MaxAge]
    BY <1>1, LeaseAssumption DEF Tick, TypeOK
  <2> QED BY <1>1, <2>1, ElsewhereKeeps DEF Tick, TypeOK, booksVars, hubVars
<1>2. CASE HubStep
  <2>1. UNCHANGED <<booksVars, age, crashed, billed, taskVars>>
    BY <1>2 DEF HubStep, Submit, Join, Assign, Release
  <2> QED BY <2>1, ElsewhereKeeps DEF TypeOK, booksVars, taskVars
<1> QED BY <1>1, <1>2

LEMMA AdministerKeeps ==
  ASSUME LeasesInv, Administer PROVE LeasesInv'
<1> USE DEF LeasesInv
<1>1. UNCHANGED <<age, crashed, billed, taskVars, lease>>
  BY DEF Administer, hubVars, SetBudget, DeleteBudget, MonthTurns
<1>2. CASE MonthTurns
  <2>1. \A w \in Worker : ledger[w].month \in Nat /\ ledger[w].before \in Nat /\ ledger[w].ends \in Nat
    BY DEF TypeOK, Entries
  <2>2. \A w \in Worker : /\ ledger'[w] \in Entries /\ ledger'[w].ends = ledger[w].ends
    BY <1>2, <2>1 DEF MonthTurns, Entries
  <2>3. ledger' \in [Worker -> Entries]
    BY <1>2, <2>2 DEF MonthTurns
  <2>4. TypeOK'
    BY <1>1, <1>2, <2>3 DEF TypeOK, MonthTurns
  <2> QED BY <1>1, <2>2, <2>4, ElsewhereKeeps DEF taskVars
<1>3. ASSUME NEW s \in Scope, SetBudget(s, NewCap) \/ DeleteBudget(s) PROVE LeasesInv'
  <2>1. UNCHANGED ledger /\ caps' \in [Scope -> Cap \cup {None}]
    BY <1>3, LeaseAssumption DEF SetBudget, DeleteBudget, TypeOK
  <2> QED BY <1>1, <2>1, ElsewhereKeeps DEF taskVars, TypeOK
<1> QED BY <1>2, <1>3 DEF Administer

LEMMA CrashKeeps ==
  ASSUME LeasesInv, Crash PROVE LeasesInv'
<1> USE DEF LeasesInv, TasksOK
<1>1. /\ UNCHANGED <<booksVars, age>> /\ crashed' /\ billed' = Orphaned
      /\ prov' = [w \in Worker |-> IF prov[w] = None THEN None
                                   ELSE [prov[w] EXCEPT !.stage = "over"]]
      /\ ext' = [c \in Client |-> None] /\ closing' = [t \in Owner |-> None]
      /\ clock' = Resting
  BY DEF Crash, Owner
<1>2. TypeOK'
  BY <1>1, ProviderAssumption DEF TypeOK, booksVars, Orphaned
<1>3. ProvisionsOK'
  <2>1. ASSUME NEW w \in Worker, prov[w] # None
        PROVE  [prov[w] EXCEPT !.stage = "over"] \in Provisions
    <3>1. prov[w] \in Provisions
      BY <2>1 DEF ProvisionsOK
    <3> QED BY <3>1 DEF Provisions
  <2> QED BY <1>1, <2>1 DEF ProvisionsOK
<1>4. ExtensionsOK' /\ ClosingsOK' /\ VerdictsOK'
  BY <1>1 DEF ExtensionsOK, ClosingsOK, VerdictsOK, Resting
<1>5. DestroyedIsCharged'
  BY <1>1 DEF DestroyedIsCharged
<1> QED BY <1>2, <1>3, <1>4, <1>5

LEMMA NextInv == LeasesInv /\ [Next]_vars => LeasesInv'
<1> SUFFICES ASSUME LeasesInv, [Next]_vars PROVE LeasesInv'
  OBVIOUS
<1>1. CASE TearingDown
  BY <1>1, TeardownKeeps, DestroyKeeps, RecordDestroyedKeeps, ChargeKeeps DEF TearingDown, Owner
<1>2. CASE UNCHANGED vars
  BY <1>2, ElsewhereKeeps
     DEF vars, storeVars, booksVars, hubVars, taskVars, LeasesInv, TypeOK
<1> QED BY <1>1, <1>2, ProvisioningKeeps, ExtendingKeeps, ClockKeeps, ReconcileKeeps,
           HubAndTimeKeep, AdministerKeeps, CrashKeeps DEF Next

LEMMA LeasesInvariant == Spec => []LeasesInv
BY InitInv, NextInv, PTL DEF Spec

-----------------------------------------------------------------------------
(***************************************************************************)
(* What a budget check says of later books.                                *)
(***************************************************************************)

\* What a worker's lease still commits: the shares behind CommittedTo.
Due(w) == IF w \in Live THEN ProjectedCost(lease[w]) ELSE 0

RowsOK ==
    /\ lease \in [Worker -> Lease \cup {None}]
    /\ ledger \in [Worker -> Entries]
    /\ caps \in [Scope -> Cap \cup {None}]

\* A ledger without a lease row is empty: entries are of leases.
FreshIsFree == \A w \in Worker : lease[w] = None => ledger[w].month = 0 /\ ledger[w].before = 0

\* A row that stays what it was rented as.
SameTerms(w) ==
    /\ lease'[w] # None /\ lease'[w].provider = lease[w].provider
    /\ lease'[w].price = lease[w].price /\ lease'[w].granted = lease[w].granted

\* The ledger stays, and rows only appear.
EntriesStay ==
    \A w \in Worker : /\ ledger'[w].month = ledger[w].month
                      /\ ledger'[w].before = ledger[w].before
                      /\ lease[w] # None => SameTerms(w)

LEMMA CostIsNat == ASSUME NEW l \in Lease PROVE ProjectedCost(l) \in Nat
<1>1. l.price \in Nat /\ TotalGranted(l) \in Nat
  BY DEF Lease, TotalGranted
<1> QED BY <1>1, Products DEF ProjectedCost

\* Before the step and after it, the shares are integers and so are their sums.
LEMMA SharesTyped ==
  ASSUME RowsOK, RowsOK', NEW scope, NEW period
  PROVE  /\ SpentOn(scope, period) \in [Worker -> Int]
         /\ CommittedTo(scope) \in [Worker -> Int] /\ CommittedTo(scope)' \in [Worker -> Int]
         /\ \A w \in Worker : Due(w) \in Nat /\ Due(w)' \in Nat
<1>1. \A w \in Worker : ledger[w].month \in Nat /\ ledger[w].before \in Nat
  BY DEF RowsOK, Entries
<1>2. ASSUME NEW w \in Worker PROVE Due(w) \in Nat /\ Due(w)' \in Nat
  BY CostIsNat DEF Due, Live, RowsOK
<1>3. ASSUME NEW w \in Worker
      PROVE  CommittedTo(scope)[w] \in Int /\ CommittedTo(scope)'[w] \in Int
  <2>1. CommittedTo(scope)[w] \in {0, Due(w)} /\ CommittedTo(scope)'[w] \in {0, Due(w)'}
    BY DEF CommittedTo, Due, InScope
  <2> QED BY <1>2, <2>1
<1>4. \A w \in Worker : SpentOn(scope, period)[w] \in Int
  BY <1>1 DEF SpentOn
<1> QED BY <1>2, <1>3, <1>4 DEF CommittedTo, SpentOn

LEMMA SumTyped == ASSUME NEW f \in [Worker -> Int] PROVE SumFunction(f) \in Int
BY SumGrows, BudgetAssumption

\* What is realised does not change while the ledger stays: a row that appears
\* brings no entries with it.
LEMMA SpentStays ==
  ASSUME FreshIsFree, EntriesStay, NEW scope, NEW period
  PROVE  SpentOn(scope, period)' = SpentOn(scope, period)
<1>1. ASSUME NEW w \in Worker
      PROVE  SpentOn(scope, period)'[w] = SpentOn(scope, period)[w]
  <2>1. CASE lease[w] = None
    BY <2>1 DEF FreshIsFree, EntriesStay, SpentOn, InScope
  <2>2. CASE lease[w] # None
    BY <2>2 DEF EntriesStay, SameTerms, SpentOn, InScope
  <2> QED BY <2>1, <2>2
<1> QED BY <1>1 DEF SpentOn

\* A share committed to a scope follows what is due, wherever the row was.
LEMMA CommittedFollows ==
  ASSUME RowsOK, RowsOK', EntriesStay, NEW scope, NEW w \in Worker, NEW d \in Nat,
         Due(w)' <= Due(w) + d
  PROVE  CommittedTo(scope)'[w] <= CommittedTo(scope)[w] + d
<1>1. Due(w) \in Nat /\ Due(w)' \in Nat
  BY SharesTyped
<1>2. CASE lease[w] = None
  <2>1. CommittedTo(scope)[w] = 0 /\ Due(w) = 0
    BY <1>2 DEF CommittedTo, InScope, Live, Due
  <2>2. CommittedTo(scope)'[w] \in {0, Due(w)'}
    BY DEF CommittedTo, InScope, Live, Due
  <2> QED BY <1>1, <2>1, <2>2
<1>3. CASE lease[w] # None
  <2>1. lease'[w].provider = lease[w].provider
    BY <1>3 DEF EntriesStay, SameTerms
  <2>2. CASE scope \in {Global, lease[w].provider}
    <3>1. CommittedTo(scope)[w] = Due(w)
      BY <2>2 DEF CommittedTo, InScope, Live, Due
    <3>2. CommittedTo(scope)'[w] = Due(w)'
      BY <2>1, <2>2 DEF CommittedTo, InScope, Live, Due
    <3> QED BY <3>1, <3>2
  <2>3. CASE scope \notin {Global, lease[w].provider}
    <3>1. CommittedTo(scope)[w] = 0
      BY <2>3 DEF CommittedTo, InScope, Live
    <3>2. CommittedTo(scope)'[w] = 0
      BY <2>1, <2>3 DEF CommittedTo, InScope, Live
    <3> QED BY <3>1, <3>2
  <2> QED BY <2>2, <2>3
<1> QED BY <1>2, <1>3

\* A check for d holds on when one worker's commitment grows by d at most and
\* nobody else's does.
LEMMA CheckCovers ==
  ASSUME RowsOK, RowsOK', FreshIsFree, EntriesStay, caps' = caps,
         NEW p \in Provider, NEW w \in Worker, NEW d \in Nat,
         \A v \in Worker : Due(v)' <= Due(v) + (IF v = w THEN d ELSE 0),
         ~Breaches(p, d)
  PROVE  ~Breaches(p, 0)'
<1> SUFFICES ASSUME NEW scope \in {Global, p}, caps[scope] # None,
                    Projected(scope, caps[scope].period)' + 0 > caps[scope].cap
             PROVE  FALSE
  BY DEF Breaches
<1> DEFINE period == caps[scope].period
<1>1. caps[scope] \in Cap /\ caps[scope].cap \in Nat
  BY DEF RowsOK, Scope, Cap
<1>2. Projected(scope, period) + d <= caps[scope].cap
  <2>1. ~(Projected(scope, period) + d > caps[scope].cap)
    BY DEF Breaches
  <2>2. SumFunction(SpentOn(scope, period)) \in Int /\ SumFunction(CommittedTo(scope)) \in Int
    BY SharesTyped, SumTyped
  <2> QED BY <1>1, <2>1, <2>2 DEF Projected, Spent, Committed
<1>3. SpentOn(scope, period)' = SpentOn(scope, period)
  BY SpentStays
<1>4. ASSUME NEW v \in Worker
      PROVE  CommittedTo(scope)'[v] <= CommittedTo(scope)[v] + (IF v = w THEN d ELSE 0)
  BY CommittedFollows
<1>5. /\ SumFunction(CommittedTo(scope)) \in Int /\ SumFunction(CommittedTo(scope)') \in Int
      /\ SumFunction(CommittedTo(scope)') <= SumFunction(CommittedTo(scope)) + d
  <2>1. CommittedTo(scope) \in [Worker -> Int] /\ CommittedTo(scope)' \in [Worker -> Int]
    BY SharesTyped
  <2> DEFINE f == CommittedTo(scope)
             h == CommittedTo(scope)'
  <2>2. f \in [Worker -> Int] /\ h \in [Worker -> Int]
    BY <2>1
  <2>3. \A v \in Worker : h[v] <= f[v] + (IF v = w THEN d ELSE 0)
    BY <1>4
  <2> HIDE DEF f, h
  <2>4. SumFunction(f) \in Int /\ SumFunction(h) \in Int /\ SumFunction(h) <= SumFunction(f) + d
    <3>1. IsFiniteSet(Worker) /\ w \in Worker /\ d \in Int
      BY BudgetAssumption
    <3>2. w \in Worker \/ d = 0
      BY <3>1
    <3> QED BY <2>2, <2>3, <3>1, <3>2, SumGrows
  <2> QED BY <2>4 DEF f, h
<1>6. SumFunction(SpentOn(scope, period)) \in Int
  BY SharesTyped, SumTyped
<1> QED BY <1>1, <1>2, <1>3, <1>5, <1>6 DEF Projected, Spent, Committed

\* Books that have not changed are checked with the same result.
LEMMA CheckStands ==
  ASSUME FreshIsFree, EntriesStay, caps' = caps,
         \A v \in Worker : Due(v)' = Due(v), NEW p, NEW d
  PROVE  Breaches(p, d)' <=> Breaches(p, d)
<1>1. ASSUME NEW scope PROVE CommittedTo(scope)' = CommittedTo(scope)
  <2>1. ASSUME NEW w \in Worker PROVE CommittedTo(scope)'[w] = CommittedTo(scope)[w]
    <3>1. Due(w)' = Due(w)
      OBVIOUS
    <3>2. CASE lease[w] = None
      BY <3>1, <3>2 DEF CommittedTo, InScope, Live, Due
    <3>3. CASE lease[w] # None
      BY <3>1, <3>3 DEF EntriesStay, SameTerms, CommittedTo, InScope, Live, Due
    <3> QED BY <3>2, <3>3
  <2> QED BY <2>1 DEF CommittedTo
<1>2. \A scope, period : SpentOn(scope, period)' = SpentOn(scope, period)
  BY SpentStays
<1>3. \A scope, period : Projected(scope, period)' = Projected(scope, period)
  BY <1>1, <1>2 DEF Projected, Spent, Committed
<1> QED BY <1>3 DEF Breaches

-----------------------------------------------------------------------------
(***************************************************************************)
(* What a check is worth later.  A provision is let through at its cost;   *)
(* an extension at the price of its row, whose wall it computes from the   *)
(* row it read.                                                            *)
(***************************************************************************)

\* The row of a worker is written by its one provision, which is over then.
RentedOnce == \A w \in Worker : lease[w] # None => At(w, "over")

\* An extension only ever moves a wall it has read, so a row that has not been
\* extended was not when it was read.
ReadBefore ==
    \A c \in Client :
        ext[c] # None /\ ext[c].row # None /\ lease[ext[c].worker].extended = 0
            => ext[c].row.extended = 0

ProvisionCovered(w) ==
    w \in checked /\ At(w, "cleared") =>
        ~Breaches(prov[w].ask.provider, Cost(prov[w].ask))

ExtensionCovered(c) ==
    LET w == ext[c].worker
        row == ext[c].row
    IN  c \in checked /\ ext[c] # None =>
            /\ ~Breaches(lease[w].provider, lease[w].price * ext[c].minutes)
            /\ row # None =>
                  Due(w) = IF row.state = "destroyed" THEN 0
                           ELSE lease[w].price * (lease[w].granted + row.extended)

ChecksStand == /\ \A w \in Worker : ProvisionCovered(w)
               /\ \A c \in Client : ExtensionCovered(c)

CheckedInv == /\ LeasesInv /\ RentedOnce /\ FreshIsFree /\ ReadBefore /\ ChecksStand

-----------------------------------------------------------------------------
(***************************************************************************)
(* What every step does, whoever takes it.                                 *)
(***************************************************************************)

RowGoesOn(w) == lease[w] # None => SameTerms(w) /\ (lease'[w].extended = 0 => lease[w].extended = 0)

RowAppears(w) == lease[w] = None /\ lease'[w] # None => At(w, "cleared") /\ At(w, "over")'

ProvisionGoesOn(w) ==
    prov[w] # None => /\ prov'[w] # None /\ prov'[w].ask = prov[w].ask
                      /\ At(w, "over") => At(w, "over")'

ProvisionClears(w) ==
    At(w, "cleared")' =>
        \/ At(w, "cleared")
        \/ /\ At(w, "rented") /\ UNCHANGED booksVars
           /\ ~Breaches(prov[w].ask.provider, Cost(prov[w].ask))

ExtensionGoesOn(c) ==
    LET w == ext'[c].worker IN
    ext'[c] # None =>
        \/ ext[c] # None /\ ext'[c] = ext[c]
        \/ /\ ext[c] # None /\ UNCHANGED booksVars
           /\ ext'[c] = [ext[c] EXCEPT !.row = lease[ext[c].worker]]
        \/ /\ ext[c] = None /\ ext'[c].row = None /\ UNCHANGED booksVars
           /\ ~Breaches(lease[w].provider, lease[w].price * ext'[c].minutes)

Regular ==
    /\ \A w \in Worker : RowGoesOn(w) /\ RowAppears(w) /\ ProvisionGoesOn(w) /\ ProvisionClears(w)
    /\ \A c \in Client : ExtensionGoesOn(c)
    /\ FreshIsFree'

\* A step that leaves provisions and extensions alone, and rows where they are.
LEMMA QuietSteps ==
  ASSUME UNCHANGED <<prov, ext>>,
         \A w \in Worker : RowGoesOn(w),
         \A w \in Worker : lease[w] = None =>
             lease'[w] = None /\ ledger'[w].month = 0 /\ ledger'[w].before = 0
  PROVE  Regular
<1>1. ASSUME NEW w \in Worker
      PROVE  RowAppears(w) /\ ProvisionGoesOn(w) /\ ProvisionClears(w)
  BY DEF RowAppears, ProvisionGoesOn, ProvisionClears, At
<1>2. ASSUME NEW c \in Client PROVE ExtensionGoesOn(c)
  BY DEF ExtensionGoesOn
<1>3. FreshIsFree'
  BY DEF FreshIsFree, RowGoesOn, SameTerms
<1> QED BY <1>1, <1>2, <1>3 DEF Regular

LEMMA BooksStay ==
  ASSUME CheckedInv, UNCHANGED <<lease, ledger>>
  PROVE  /\ FreshIsFree'
         /\ \A w \in Worker : RowGoesOn(w) /\ RowAppears(w)
BY DEF CheckedInv, FreshIsFree, RowGoesOn, RowAppears, SameTerms

LEMMA StateSteps ==
  ASSUME CheckedInv, NEW w \in Worker, lease[w] # None, NEW s \in LeaseState,
         lease' = [lease EXCEPT ![w].state = s], UNCHANGED <<ledger, prov, ext>>
  PROVE  Regular
<1>1. lease'[w] = [lease[w] EXCEPT !.state = s] /\ lease[w] \in Lease
  BY DEF CheckedInv, LeasesInv, TypeOK
<1>2. lease'[w] # None /\ \A v \in Worker : v # w => lease'[v] = lease[v]
  BY StateChanges DEF CheckedInv, LeasesInv
<1>3. RowGoesOn(w)
  BY <1>1, <1>2 DEF RowGoesOn, SameTerms, Lease
<1>4. \A v \in Worker : RowGoesOn(v)
  BY <1>2, <1>3 DEF RowGoesOn, SameTerms
<1> QED BY <1>2, <1>4, QuietSteps DEF CheckedInv, FreshIsFree

LEMMA ProvisioningRegular ==
  ASSUME CheckedInv, Provisioning PROVE Regular
<1>0. ProvisionsOK
  BY DEF CheckedInv, LeasesInv, TasksOK
<1>1. ASSUME NEW q \in Request, RequestProvision(q) PROVE Regular
  <2>1. /\ prov[q.worker] = None /\ prov' = [prov EXCEPT ![q.worker] = [stage |-> "asked", ask |-> q]]
        /\ UNCHANGED <<lease, ledger, ext>>
    BY <1>1 DEF RequestProvision, storeVars, booksVars
  <2>2. \A w \in Worker : ProvisionGoesOn(w) /\ ProvisionClears(w)
    BY <1>0, <2>1 DEF ProvisionGoesOn, ProvisionClears, At, ProvisionsOK
  <2>3. \A c \in Client : ExtensionGoesOn(c)
    BY <2>1 DEF ExtensionGoesOn
  <2> QED BY <2>1, <2>2, <2>3, BooksStay DEF Regular
<1>2. ASSUME NEW w \in Worker, Rent(w) \/ ExactCheck(w) PROVE Regular
  <2>1. PICK s \in {"rented", "cleared", "over"} :
           /\ MoveTo(w, s) /\ (At(w, "asked") \/ At(w, "rented"))
           /\ s = "cleared" => /\ At(w, "rented")
                              /\ ~Breaches(prov[w].ask.provider, Cost(prov[w].ask))
    BY <1>2 DEF Rent, ExactCheck
  <2>2. UNCHANGED <<booksVars, ext>>
    BY <1>2 DEF Rent, ExactCheck, storeVars
  <2>3. /\ prov'[w] = [prov[w] EXCEPT !.stage = s] /\ prov[w] \in Provisions
        /\ \A v \in Worker : v # w => prov'[v] = prov[v]
    BY <1>0, <2>1 DEF MoveTo, ProvisionsOK, At
  <2>4. prov'[w] \in Provisions /\ prov'[w].ask = prov[w].ask /\ prov'[w].stage = s
    BY <2>3 DEF Provisions
  <2>5. ProvisionGoesOn(w)
    BY <2>1, <2>4, LeaseAssumption DEF ProvisionGoesOn, At
  <2>6. ProvisionClears(w)
    BY <2>1, <2>2, <2>4 DEF ProvisionClears, At
  <2>7. \A v \in Worker : ProvisionGoesOn(v) /\ ProvisionClears(v)
    BY <2>3, <2>5, <2>6 DEF ProvisionGoesOn, ProvisionClears, At
  <2>8. \A c \in Client : ExtensionGoesOn(c)
    BY <2>2 DEF ExtensionGoesOn
  <2> QED BY <2>2, <2>7, <2>8, BooksStay DEF Regular, booksVars
<1>3. ASSUME NEW w \in Worker, RecordLease(w) PROVE Regular
  <2>1. /\ At(w, "cleared") /\ MoveTo(w, "over") /\ UNCHANGED <<ledger, ext>>
        /\ \E row : lease' = [lease EXCEPT ![w] = row]
    BY <1>3 DEF RecordLease
  <2>2. /\ prov'[w] = [prov[w] EXCEPT !.stage = "over"] /\ prov[w] \in Provisions
        /\ \A v \in Worker : v # w => prov'[v] = prov[v] /\ lease'[v] = lease[v]
    BY <1>0, <2>1 DEF MoveTo, ProvisionsOK, At, CheckedInv, LeasesInv, TypeOK
  <2>3. prov'[w] \in Provisions /\ prov'[w].ask = prov[w].ask /\ prov'[w].stage = "over"
    BY <2>2 DEF Provisions
  <2>4. At(w, "over")' /\ lease[w] = None
    BY <2>1, <2>3, LeaseAssumption DEF At, CheckedInv, RentedOnce
  <2>5. /\ ProvisionGoesOn(w) /\ ProvisionClears(w) /\ RowGoesOn(w) /\ RowAppears(w)
    BY <2>1, <2>3, <2>4 DEF ProvisionGoesOn, ProvisionClears, RowGoesOn, RowAppears, At
  <2>6. \A v \in Worker : /\ ProvisionGoesOn(v) /\ ProvisionClears(v)
                          /\ RowGoesOn(v) /\ RowAppears(v)
    BY <2>2, <2>5 DEF ProvisionGoesOn, ProvisionClears, RowGoesOn, RowAppears, SameTerms, At
  <2>7. \A c \in Client : ExtensionGoesOn(c)
    BY <2>1 DEF ExtensionGoesOn
  <2>8. FreshIsFree'
    BY <2>1, <2>2, <2>4 DEF CheckedInv, FreshIsFree
  <2> QED BY <2>6, <2>7, <2>8 DEF Regular
<1> QED BY <1>1, <1>2, <1>3 DEF Provisioning

LEMMA ExtendingRegular ==
  ASSUME CheckedInv, Extending PROVE Regular
<1>0. ExtensionsOK /\ lease \in [Worker -> Lease \cup {None}]
  BY DEF CheckedInv, LeasesInv, TasksOK, TypeOK
<1>a. ASSUME UNCHANGED prov, NEW w \in Worker
      PROVE  ProvisionGoesOn(w) /\ ProvisionClears(w)
  BY <1>a DEF ProvisionGoesOn, ProvisionClears, At
<1>1. ASSUME NEW c \in Client, NEW w \in Worker, NEW m \in Minutes, AskExtend(c, w, m)
      PROVE  Regular
  <2>1. /\ ext[c] = None /\ ~Breaches(lease[w].provider, lease[w].price * m)
        /\ ext' = [ext EXCEPT ![c] = [worker |-> w, minutes |-> m, row |-> None]]
        /\ UNCHANGED <<booksVars, prov>>
    BY <1>1 DEF AskExtend, Free, storeVars
  <2>2. ext'[c] = [worker |-> w, minutes |-> m, row |-> None]
    BY <1>0, <2>1 DEF ExtensionsOK
  <2>3. ExtensionGoesOn(c)
    BY <2>1, <2>2 DEF ExtensionGoesOn
  <2>4. \A d \in Client : ExtensionGoesOn(d)
    BY <1>0, <2>1, <2>3 DEF ExtensionGoesOn, ExtensionsOK
  <2> QED BY <1>a, <2>1, <2>4, BooksStay DEF Regular, booksVars
<1>2. ASSUME NEW c \in Client, ReadLease(c) PROVE Regular
  <2>1. /\ ext[c] # None /\ ext' = [ext EXCEPT ![c].row = lease[ext[c].worker]]
        /\ UNCHANGED <<booksVars, prov>>
    BY <1>2 DEF ReadLease, storeVars
  <2>2. ext'[c] = [ext[c] EXCEPT !.row = lease[ext[c].worker]]
    BY <1>0, <2>1 DEF ExtensionsOK
  <2>3. \A d \in Client : ExtensionGoesOn(d)
    BY <1>0, <2>1, <2>2 DEF ExtensionGoesOn, ExtensionsOK
  <2> QED BY <1>a, <2>1, <2>3, BooksStay DEF Regular, booksVars
<1>3. ASSUME NEW c \in Client, WriteExtension(c) PROVE Regular
  <2> DEFINE w == ext[c].worker
             read == ext[c].row
             row == [provider |-> lease[w].provider, price |-> lease[w].price,
                     granted |-> lease[w].granted, extended |-> read.extended + ext[c].minutes,
                     state |-> IF read.state = "draining" THEN "active" ELSE lease[w].state]
  <2>1. /\ ext[c] # None /\ read # None /\ lease' = [lease EXCEPT ![w] = row]
        /\ ext' = [ext EXCEPT ![c] = None] /\ UNCHANGED <<ledger, prov>>
    BY <1>3 DEF WriteExtension
  <2>2. ext[c] \in Extension /\ w \in Worker /\ lease[w] \in Lease /\ read \in Lease
    BY <1>0, <2>1 DEF ExtensionsOK, Extension
  <2>3. ext[c].minutes \in Nat \ {0} /\ read.extended \in Nat
    BY <2>2, LeaseAssumption DEF Extension, Lease
  <2>4. row \in Lease /\ row # None /\ row.extended # 0
    <3>1. row \in Lease /\ row.extended # 0
      BY <2>2, <2>3 DEF Lease, LeaseState
    <3> QED BY <3>1, BudgetAssumption
  <2>5. row.provider = lease[w].provider /\ row.price = lease[w].price /\ row.granted = lease[w].granted
    OBVIOUS
  <2> HIDE DEF row
  <2>6. lease'[w] = row /\ \A v \in Worker : v # w => lease'[v] = lease[v]
    BY <1>0, <2>1, <2>2
  <2>7. \A v \in Worker : RowGoesOn(v)
    BY <2>4, <2>5, <2>6 DEF RowGoesOn, SameTerms
  <2>8. \A v \in Worker : RowAppears(v)
    BY <2>2, <2>6, BudgetAssumption DEF RowAppears
  <2>9. \A d \in Client : ExtensionGoesOn(d)
    BY <1>0, <2>1 DEF ExtensionGoesOn, ExtensionsOK
  <2>10. FreshIsFree'
    BY <2>1, <2>4, <2>6 DEF CheckedInv, FreshIsFree
  <2> QED BY <1>a, <2>1, <2>7, <2>8, <2>9, <2>10 DEF Regular
<1> QED BY <1>1, <1>2, <1>3 DEF Extending

LEMMA TearingDownRegular ==
  ASSUME CheckedInv, TearingDown \/ ClockStep PROVE Regular
<1>0. ClosingsOK /\ VerdictsOK /\ lease \in [Worker -> Lease \cup {None}]
  BY DEF CheckedInv, LeasesInv, TasksOK, TypeOK
<1>a. ASSUME UNCHANGED <<lease, ledger, prov, ext>> PROVE Regular
  BY <1>a, BooksStay, QuietSteps DEF CheckedInv, FreshIsFree
<1>1. ASSUME NEW c \in Client, NEW w \in Worker, NEW drainFirst \in BOOLEAN,
             Teardown(c, w, drainFirst)
      PROVE  Regular
  <2>1. /\ lease[w] # None /\ UNCHANGED <<ledger, prov, ext>>
        /\ lease' = lease \/ lease' = [lease EXCEPT ![w].state = "draining"]
    BY <1>1 DEF Teardown, Drained
  <2> QED BY <1>a, <2>1, StateSteps DEF LeaseState
<1>2. ASSUME NEW t \in Owner, Destroy(t) \/ DestroyRefused(t) PROVE Regular
  BY <1>2, <1>a DEF Destroy, DestroyRefused, storeVars, booksVars
<1>3. ASSUME NEW t \in Owner, RecordDestroyed(t) PROVE Regular
  <2>1. /\ closing[t] # None /\ UNCHANGED <<ledger, prov, ext>>
        /\ lease' = [lease EXCEPT ![closing[t].worker].state = "destroyed"]
    BY <1>3 DEF RecordDestroyed, Closing
  <2>2. closing[t].worker \in Worker /\ lease[closing[t].worker] # None
    BY <1>0, <2>1 DEF ClosingsOK, Teardowns
  <2> QED BY <2>1, <2>2, StateSteps DEF LeaseState
<1>4. ASSUME NEW t \in Owner, Charge(t) PROVE Regular
  <2>1. /\ closing[t] # None /\ UNCHANGED <<lease, prov, ext>>
        /\ \E e : ledger' = [ledger EXCEPT ![closing[t].worker] = e]
    BY <1>4 DEF Charge, Closing
  <2>2. closing[t].worker \in Worker /\ lease[closing[t].worker] # None
    BY <1>0, <2>1 DEF ClosingsOK, Teardowns
  <2>3. \A v \in Worker : lease[v] = None => ledger'[v] = ledger[v]
    BY <2>1, <2>2 DEF CheckedInv, LeasesInv, TypeOK
  <2>4. \A v \in Worker : RowGoesOn(v)
    BY <2>1 DEF RowGoesOn, SameTerms
  <2> QED BY <2>1, <2>3, <2>4, QuietSteps DEF CheckedInv, FreshIsFree
<1>5. ASSUME ClockStart \/ ReapIdle PROVE Regular
  BY <1>5, <1>a DEF ClockStart, ReapIdle, storeVars, booksVars
<1>6. ASSUME NEW w \in Worker, ClockNext(w) PROVE Regular
  <2>1. /\ w \in DOMAIN clock.todo /\ UNCHANGED <<ledger, prov, ext>>
        /\ lease' = lease \/ lease' = [lease EXCEPT ![w].state = "draining"]
    BY <1>6 DEF ClockNext, TakeUp, Drained
  <2> QED BY <1>0, <1>a, <2>1, StateSteps DEF VerdictsOK, LeaseState
<1> QED BY <1>1, <1>2, <1>3, <1>4, <1>5, <1>6 DEF TearingDown, ClockStep, Owner

LEMMA ElsewhereRegular ==
  ASSUME CheckedInv,
         \/ ReconcileStep \/ Tick \/ HubStep \/ Administer \/ Crash \/ UNCHANGED vars
  PROVE  Regular
<1>a. ASSUME UNCHANGED <<lease, ledger, prov, ext>> PROVE Regular
  BY <1>a, BooksStay, QuietSteps DEF CheckedInv, FreshIsFree
<1>1. CASE ReconcileStep
  BY <1>1, <1>a DEF ReconcileStep, ReconcileStart, ReconcileEnd, ListInstances, KillOrphan,
                    storeVars, booksVars
<1>2. CASE Tick \/ HubStep \/ UNCHANGED vars
  BY <1>2, <1>a DEF Tick, HubStep, Submit, Join, Assign, Release, vars, storeVars, booksVars, taskVars
<1>3. CASE Administer
  <2>1. UNCHANGED <<lease, prov, ext>> /\ (UNCHANGED ledger \/ MonthTurns)
    BY <1>3 DEF Administer, SetBudget, DeleteBudget, MonthTurns, taskVars
  <2>2. CASE MonthTurns
    <3>1. \A w \in Worker : RowGoesOn(w)
      BY <2>1 DEF RowGoesOn, SameTerms
    <3>2. \A w \in Worker : lease[w] = None => ledger'[w].month = 0 /\ ledger'[w].before = 0
      BY <2>2 DEF MonthTurns, CheckedInv, FreshIsFree
    <3> QED BY <2>1, <3>1, <3>2, QuietSteps
  <2> QED BY <1>a, <2>1, <2>2
<1>4. CASE Crash
  <2>1. /\ UNCHANGED <<lease, ledger>> /\ ext' = [c \in Client |-> None]
        /\ prov' = [w \in Worker |-> IF prov[w] = None THEN None
                                     ELSE [prov[w] EXCEPT !.stage = "over"]]
    BY <1>4 DEF Crash, booksVars
  <2>2. ASSUME NEW w \in Worker PROVE ProvisionGoesOn(w) /\ ProvisionClears(w)
    <3>1. CASE prov[w] = None
      BY <2>1, <3>1 DEF ProvisionGoesOn, ProvisionClears, At
    <3>2. CASE prov[w] # None
      <4>1. prov[w] \in Provisions /\ prov'[w] = [prov[w] EXCEPT !.stage = "over"]
        BY <2>1, <3>2 DEF CheckedInv, LeasesInv, TasksOK, ProvisionsOK
      <4>2. prov'[w] \in Provisions /\ prov'[w].ask = prov[w].ask /\ prov'[w].stage = "over"
        BY <4>1 DEF Provisions
      <4> QED BY <4>2, LeaseAssumption DEF ProvisionGoesOn, ProvisionClears, At
    <3> QED BY <3>1, <3>2
  <2>3. \A c \in Client : ExtensionGoesOn(c)
    BY <2>1 DEF ExtensionGoesOn
  <2> QED BY <2>1, <2>2, <2>3, BooksStay DEF Regular
<1> QED BY <1>1, <1>2, <1>3, <1>4

LEMMA StepsAreRegular ==
  ASSUME CheckedInv, [Next]_vars PROVE Regular
BY ProvisioningRegular, ExtendingRegular, TearingDownRegular, ElsewhereRegular DEF Next

-----------------------------------------------------------------------------
(***************************************************************************)
(* A check stands while Books and caps do; what does not stand is not in   *)
(* checked.                                                                *)
(***************************************************************************)

LEMMA InitChecked == Init => CheckedInv
BY InitInv DEF Init, CheckedInv, RentedOnce, FreshIsFree, ReadBefore, ChecksStand,
               ProvisionCovered, ExtensionCovered

LEMMA StoreOK == LeasesInv => RowsOK
BY DEF LeasesInv, TypeOK, RowsOK

LEMMA SameBooks ==
  ASSUME CheckedInv, Regular, Books' = Books
  PROVE  EntriesStay /\ \A w \in Worker : Due(w)' = Due(w)
<1>1. ASSUME NEW w \in Worker
      PROVE  ledger'[w].month = ledger[w].month /\ ledger'[w].before = ledger[w].before
             /\ Due(w)' = Due(w)
  <2>1. Books'[w] = Books[w]
    OBVIOUS
  <2>2. <<ledger'[w].month, ledger'[w].before, Due(w)'>> = <<ledger[w].month, ledger[w].before, Due(w)>>
    BY <2>1 DEF Books, Due
  <2> QED BY <2>2
<1> QED BY <1>1 DEF EntriesStay, Regular, RowGoesOn

\* The readings of an extension stay below the wall they will move.
LEMMA RowsKeep ==
  ASSUME CheckedInv, Regular, LeasesInv' PROVE RentedOnce' /\ ReadBefore'
<1>1. RentedOnce'
  BY DEF CheckedInv, Regular, RentedOnce, RowAppears, ProvisionGoesOn, At
<1>2. ReadBefore'
  <2> SUFFICES ASSUME NEW c \in Client, ext'[c] # None, ext'[c].row # None,
                      lease'[ext'[c].worker].extended = 0
               PROVE  ext'[c].row.extended = 0
    BY DEF ReadBefore
  <2>1. ext[c] # None /\ ext[c] \in Extension /\ ExtensionGoesOn(c)
    BY DEF CheckedInv, LeasesInv, TasksOK, ExtensionsOK, Regular, ExtensionGoesOn
  <2>2. ext[c].worker \in Worker /\ lease[ext[c].worker] # None
    BY <2>1 DEF CheckedInv, LeasesInv, TasksOK, ExtensionsOK, Extension
  <2>3. RowGoesOn(ext[c].worker)
    BY <2>2 DEF Regular
  <2>4. CASE ext'[c] = ext[c]
    BY <2>1, <2>2, <2>3, <2>4 DEF CheckedInv, ReadBefore, RowGoesOn
  <2>5. CASE ext'[c] = [ext[c] EXCEPT !.row = lease[ext[c].worker]] /\ UNCHANGED booksVars
    BY <2>1, <2>5 DEF Extension, booksVars
  <2> QED BY <2>1, <2>4, <2>5 DEF ExtensionGoesOn
<1> QED BY <1>1, <1>2

LEMMA ProvisionStays ==
  ASSUME CheckedInv, Regular, Checked, NEW w \in Worker PROVE ProvisionCovered(w)'
<1> DEFINE q == prov[w].ask
<1> SUFFICES ASSUME w \in checked', At(w, "cleared")'
             PROVE  ~Breaches(prov[w].ask.provider, Cost(prov[w].ask))'
  BY DEF ProvisionCovered
<1>0. /\ ProvisionClears(w) /\ ProvisionGoesOn(w) /\ FreshIsFree
      /\ \A v \in Worker : RowGoesOn(v)
  BY DEF Regular, CheckedInv
<1>1. prov[w] # None /\ prov'[w].ask = q
  BY <1>0 DEF ProvisionClears, ProvisionGoesOn, At
<1>2. CASE UNCHANGED booksVars /\ ~Breaches(q.provider, Cost(q))
  BY <1>1, <1>2 DEF booksVars, Breaches, Projected, Spent, Committed, SpentOn, CommittedTo, InScope, Live
<1>3. CASE At(w, "cleared") /\ ~(At(w, "rented"))
  <2>1. w \notin LetThrough
    BY <1>3, LeaseAssumption DEF LetThrough
  <2>2. w \in checked /\ Books' = Books /\ caps' = caps
    BY <2>1 DEF Checked
  <2>3. ~Breaches(q.provider, Cost(q))
    BY <1>3, <2>2 DEF CheckedInv, ChecksStand, ProvisionCovered
  <2>4. PICK p, d : p = q.provider /\ d = Cost(q)
    OBVIOUS
  <2>5. Breaches(p, d)' <=> Breaches(p, d)
    BY <1>0, <2>2, SameBooks, CheckStands
  <2> QED BY <1>1, <2>3, <2>4, <2>5 DEF Cost
<1> QED BY <1>0, <1>2, <1>3 DEF ProvisionClears, At

LEMMA ExtensionStays ==
  ASSUME CheckedInv, Regular, Checked, LeasesInv', NEW c \in Client
  PROVE  ExtensionCovered(c)'
<1>w. PICK w : w = ext'[c].worker
  OBVIOUS
<1> DEFINE l == lease[w]
<1> SUFFICES ASSUME c \in checked', ext'[c] # None
             PROVE  /\ ~Breaches(lease[ext[c].worker].provider,
                                lease[ext[c].worker].price * ext[c].minutes)'
                    /\ ext'[c].row # None =>
                          Due(w)' = IF ext'[c].row.state = "destroyed" THEN 0
                                    ELSE lease'[w].price
                                            * (lease'[w].granted + ext'[c].row.extended)
  BY <1>w DEF ExtensionCovered
<1>0. /\ ExtensionGoesOn(c) /\ FreshIsFree /\ c \notin Worker
      /\ ext'[c] \in Extension /\ w \in Worker
  BY <1>w, LeaseAssumption DEF Regular, CheckedInv, LeasesInv, TasksOK, ExtensionsOK, Extension
<1>1. CASE ext[c] = None
  <2>1. /\ ext'[c].row = None /\ UNCHANGED booksVars
        /\ ~Breaches(l.provider, l.price * ext'[c].minutes)
    BY <1>0, <1>1, <1>w DEF ExtensionGoesOn
  <2> QED BY <1>w, <2>1 DEF booksVars, Breaches, Projected, Spent, Committed, SpentOn, CommittedTo,
                      InScope, Live
<1>2. CASE ext[c] # None
  <2>1. c \in checked /\ Books' = Books /\ caps' = caps
    BY <1>0, <1>2 DEF Checked, LetThrough
  <2>2. /\ ext[c] \in Extension /\ ext[c].worker = w /\ ext[c].minutes = ext'[c].minutes
        /\ lease[w] # None /\ lease[w] \in Lease
    <3>1. ext[c] \in Extension /\ lease[ext[c].worker] # None
      BY <1>2 DEF CheckedInv, LeasesInv, TasksOK, ExtensionsOK
    <3>2. ext[c].worker = w /\ ext[c].minutes = ext'[c].minutes
      BY <1>0, <1>2, <1>w, <3>1 DEF ExtensionGoesOn, Extension
    <3> QED BY <1>0, <3>1, <3>2 DEF CheckedInv, LeasesInv, TypeOK
  <2>3. SameTerms(w) /\ EntriesStay /\ \A v \in Worker : Due(v)' = Due(v)
    BY <1>0, <2>1, <2>2, SameBooks DEF Regular, RowGoesOn
  <2>4. /\ ~Breaches(l.provider, l.price * ext[c].minutes)
        /\ ext[c].row # None =>
              Due(w) = IF ext[c].row.state = "destroyed" THEN 0
                       ELSE l.price * (l.granted + ext[c].row.extended)
    BY <1>2, <2>1, <2>2 DEF CheckedInv, ChecksStand, ExtensionCovered
  <2>5. ~Breaches(lease[ext[c].worker].provider, lease[ext[c].worker].price * ext[c].minutes)'
    <3>1. PICK p, d : p = l.provider /\ d = l.price * ext[c].minutes
      OBVIOUS
    <3>2. Breaches(p, d)' <=> Breaches(p, d)
      BY <1>0, <2>1, <2>3, CheckStands
    <3>3. lease'[w].provider = p /\ lease'[w].price * ext'[c].minutes = d
      BY <2>2, <2>3, <3>1 DEF SameTerms
    <3> QED BY <1>w, <2>4, <3>1, <3>2, <3>3
  <2>6. Due(w)' = Due(w)
    BY <1>0, <2>3
  <2>7. CASE ext'[c] = ext[c]
    BY <2>3, <2>4, <2>5, <2>6, <2>7 DEF SameTerms
  <2>8. CASE UNCHANGED booksVars /\ ext'[c] = [ext[c] EXCEPT !.row = lease[ext[c].worker]]
    <3>1. ext'[c].row = l /\ lease' = lease
      BY <2>2, <2>8 DEF Extension, booksVars
    <3>2. Due(w) = IF l.state = "destroyed" THEN 0 ELSE l.price * (l.granted + l.extended)
      BY <1>0, <2>2 DEF Due, Live, ProjectedCost, TotalGranted
    <3> QED BY <2>5, <2>6, <3>1, <3>2
  <2> QED BY <1>0, <1>2, <2>7, <2>8 DEF ExtensionGoesOn
<1> QED BY <1>1, <1>2

LEMMA NextChecked == CheckedInv /\ [Next]_vars => CheckedInv'
<1> SUFFICES ASSUME CheckedInv, [Next]_vars PROVE CheckedInv'
  OBVIOUS
<1>1. LeasesInv'
  BY NextInv DEF CheckedInv
<1>2. Regular
  BY StepsAreRegular
<1>3. RentedOnce' /\ FreshIsFree' /\ ReadBefore'
  BY <1>1, <1>2, RowsKeep DEF Regular
<1>4. CASE Next
  BY <1>1, <1>2, <1>3, <1>4, ProvisionStays, ExtensionStays DEF CheckedInv, ChecksStand, Next
<1>5. CASE UNCHANGED vars
  <2>1. UNCHANGED <<lease, ledger, caps, prov, ext, checked>>
    BY <1>5 DEF vars, storeVars, booksVars, taskVars
  <2>2. \A w \in Worker : ProvisionCovered(w)' <=> ProvisionCovered(w)
    BY <2>1 DEF ProvisionCovered, At, Breaches, Projected, Spent, Committed, SpentOn,
                CommittedTo, InScope, Live
  <2>3. \A c \in Client : ExtensionCovered(c)' <=> ExtensionCovered(c)
    BY <2>1 DEF ExtensionCovered, Due, Breaches, Projected, Spent, Committed, SpentOn,
                CommittedTo, InScope, Live
  <2> QED BY <1>1, <1>3, <2>2, <2>3 DEF CheckedInv, ChecksStand
<1> QED BY <1>4, <1>5

LEMMA CheckedInvariant == Spec => []CheckedInv
BY InitChecked, NextChecked, PTL DEF Spec

\* The row a provision writes commits what it was checked for.
LEMMA RecordingCovered ==
  ASSUME CheckedInv, CheckedInv', Regular, NEW w \in Worker, RecordLease(w), w \in checked
  PROVE  ~Breaches(prov[w].ask.provider, 0)'
<1> DEFINE q == prov[w].ask
           row == [provider |-> q.provider, price |-> q.price,
                   granted |-> q.minutes, extended |-> 0, state |-> "active"]
<1>1. /\ At(w, "cleared") /\ lease' = [lease EXCEPT ![w] = row] /\ UNCHANGED <<ledger, caps>>
  BY DEF RecordLease
<1>2. /\ lease[w] = None /\ q \in Request /\ prov'[w].ask = q
  BY <1>1, LeaseAssumption
     DEF CheckedInv, LeasesInv, TasksOK, ProvisionsOK, Provisions, RentedOnce, At, Regular, ProvisionGoesOn
<1>3. q.price \in Nat /\ q.minutes \in Nat /\ q.provider \in Provider
  BY <1>2, LeaseAssumption
<1>4. lease'[w] = row /\ \A v \in Worker : v # w => lease'[v] = lease[v]
  BY <1>1 DEF CheckedInv, LeasesInv, TypeOK
<1>5. Cost(q) \in Nat /\ Due(w)' = Cost(q) /\ Due(w) = 0
  <2>1. Due(w)' \in {0, ProjectedCost(row)} /\ Due(w) = 0
    BY <1>2, <1>4 DEF Due, Live
  <2>2. w \in Live'
    <3>1. row # None
      BY <1>3, BudgetAssumption DEF Lease, LeaseState
    <3> QED BY <1>4, <3>1 DEF Live
  <2>3. Due(w)' = ProjectedCost(row)
    BY <1>4, <2>2 DEF Due
  <2>4. ProjectedCost(row) = Cost(q) /\ Cost(q) \in Nat
    BY <1>3, Products DEF ProjectedCost, TotalGranted, Cost
  <2> QED BY <2>1, <2>3, <2>4
<1>6. \A v \in Worker : v # w => Due(v)' = Due(v)
  BY <1>4 DEF Due, Live
<1>7. RowsOK /\ RowsOK' /\ FreshIsFree
  BY StoreOK DEF CheckedInv, LeasesInv, TypeOK, RowsOK
<1>8. EntriesStay
  BY <1>1 DEF EntriesStay, Regular, RowGoesOn
<1>9. ~Breaches(q.provider, Cost(q))
  BY <1>1 DEF CheckedInv, ChecksStand, ProvisionCovered
<1>10. PICK p, d : p = q.provider /\ d = Cost(q)
  OBVIOUS
<1>11. ASSUME NEW v \in Worker PROVE Due(v)' <= Due(v) + (IF v = w THEN d ELSE 0)
  <2>1. Due(v) \in Nat /\ Due(v)' \in Nat
    BY <1>7, SharesTyped
  <2> QED BY <1>5, <1>6, <1>10, <2>1
<1>12. ~Breaches(p, 0)'
  BY <1>1, <1>3, <1>5, <1>7, <1>8, <1>9, <1>10, <1>11, CheckCovers
<1> QED BY <1>2, <1>10, <1>12

LEMMA ZeroProduct == \A m, n \in Nat : m * n = 0 => m = 0 \/ n = 0
OBVIOUS

\* The wall an extension writes costs at most its minutes more than the wall the
\* check counted, whether it moves a live wall or one that was destroyed and
\* comes back.
LEMMA WallGrows ==
  ASSUME CheckedInv, NEW c \in Client, ext[c] # None, ext[c].row # None, c \in checked,
         NEW w, w = ext[c].worker, NEW row,
         row = [provider |-> lease[w].provider, price |-> lease[w].price,
                granted |-> lease[w].granted,
                extended |-> ext[c].row.extended + ext[c].minutes,
                state |-> IF ext[c].row.state = "draining" THEN "active" ELSE lease[w].state],
         lease' = [lease EXCEPT ![w] = row]
  PROVE  /\ lease[w].price * ext[c].minutes \in Nat
         /\ Due(w)' <= Due(w) + lease[w].price * ext[c].minutes
<1> DEFINE read == ext[c].row
           price == lease[w].price
           granted == lease[w].granted
           m == ext[c].minutes
<1>1. /\ ext[c] \in Extension /\ w \in Worker /\ lease[w] # None /\ lease[w] \in Lease
      /\ read \in Lease
  BY DEF CheckedInv, LeasesInv, TasksOK, ExtensionsOK, Extension, TypeOK
<1>2. /\ price \in Nat /\ granted \in Nat /\ m \in Nat /\ read.extended \in Nat
      /\ lease[w].extended \in Nat
  BY <1>1, LeaseAssumption DEF Extension, Lease
<1>3. row \in Lease /\ row # None /\ lease'[w] = row
  <2>1. row \in Lease
    BY <1>1, <1>2 DEF Lease, LeaseState
  <2> QED BY <1>1, <2>1, BudgetAssumption DEF CheckedInv, LeasesInv, TypeOK
<1>4. Due(w) = IF lease[w].state = "destroyed" THEN 0 ELSE price * (granted + lease[w].extended)
  BY <1>1 DEF Due, Live, ProjectedCost, TotalGranted
<1>5. Due(w)' = IF row.state = "destroyed" THEN 0 ELSE price * (granted + (read.extended + m))
  BY <1>1, <1>3 DEF Due, Live, ProjectedCost, TotalGranted
<1>6. Due(w) = IF read.state = "destroyed" THEN 0 ELSE price * (granted + read.extended)
  BY DEF CheckedInv, ChecksStand, ExtensionCovered
<1>7. lease[w].extended = 0 => read.extended = 0
  BY DEF CheckedInv, ReadBefore
<1>8. read.state = "destroyed" => row.state = lease[w].state
  OBVIOUS
<1> DEFINE e == read.extended
<1>9. price * m \in Nat /\ price * (granted + e) \in Nat
  BY <1>2, Products
<1>10. price * (granted + (e + m)) = price * (granted + e) + price * m
  BY <1>2
<1>11. ASSUME price * (granted + lease[w].extended) = 0 PROVE price * (granted + e) = 0
  <2>1. CASE price = 0
    BY <1>2, <2>1
  <2>2. CASE price # 0
    <3>1. granted + lease[w].extended = 0
      BY <1>2, <1>11, <2>2, ZeroProduct
    <3>2. granted = 0 /\ e = 0
      BY <1>2, <1>7, <3>1
    <3> QED BY <1>2, <3>2
  <2> QED BY <2>1, <2>2
<1>12. CASE read.state # "destroyed"
  BY <1>5, <1>6, <1>9, <1>10, <1>12
<1>13. CASE read.state = "destroyed"
  <2>1. CASE lease[w].state = "destroyed"
    BY <1>5, <1>6, <1>8, <1>9, <1>13, <2>1
  <2>2. CASE lease[w].state # "destroyed"
    <3>1. price * (granted + e) = 0
      BY <1>4, <1>6, <1>11, <1>13, <2>2
    <3> QED BY <1>5, <1>6, <1>9, <1>10, <1>13, <3>1
  <2> QED BY <2>1, <2>2
<1> QED BY <1>9, <1>12, <1>13

LEMMA ExtendingCovered ==
  ASSUME CheckedInv, CheckedInv', Regular,
         NEW c \in Client, NEW w \in Worker, WriteExtension(c), c \in checked, w = ext[c].worker
  PROVE  ~Breaches(lease[w].provider, 0)'
<1> DEFINE row == [provider |-> lease[w].provider, price |-> lease[w].price,
                   granted |-> lease[w].granted,
                   extended |-> ext[c].row.extended + ext[c].minutes,
                   state |-> IF ext[c].row.state = "draining" THEN "active" ELSE lease[w].state]
<1>1. /\ ext[c] # None /\ ext[c].row # None /\ lease' = [lease EXCEPT ![w] = row]
      /\ UNCHANGED <<ledger, caps>>
  BY DEF WriteExtension
<1>2. PICK d : d = lease[w].price * ext[c].minutes
  OBVIOUS
<1>3. d \in Nat /\ Due(w)' <= Due(w) + d
  BY <1>1, <1>2, WallGrows
<1> HIDE DEF row
<1>4. lease[w] # None /\ lease[w] \in Lease /\ \A v \in Worker : v # w => lease'[v] = lease[v]
  BY <1>1 DEF CheckedInv, LeasesInv, TasksOK, ExtensionsOK, TypeOK
<1>5. PICK p \in Provider : p = lease[w].provider
  BY <1>4 DEF Lease
<1>6. lease'[w].provider = p
  BY <1>4, <1>5 DEF Regular, RowGoesOn, SameTerms
<1>7. RowsOK /\ RowsOK' /\ FreshIsFree
  BY StoreOK DEF CheckedInv, LeasesInv, TypeOK, RowsOK
<1>8. EntriesStay
  BY <1>1 DEF EntriesStay, Regular, RowGoesOn
<1>9. ~Breaches(p, d)
  BY <1>1, <1>2, <1>5 DEF CheckedInv, ChecksStand, ExtensionCovered
<1>10. ASSUME NEW v \in Worker PROVE Due(v)' <= Due(v) + (IF v = w THEN d ELSE 0)
  <2>1. Due(v) \in Nat /\ Due(v)' \in Nat
    BY <1>7, SharesTyped
  <2>2. v # w => Due(v)' = Due(v)
    BY <1>4 DEF Due, Live
  <2> QED BY <1>3, <2>1, <2>2
<1>11. ~Breaches(p, 0)'
  BY <1>1, <1>3, <1>7, <1>8, <1>9, <1>10, CheckCovers
<1> QED BY <1>6, <1>11

-----------------------------------------------------------------------------
(***************************************************************************)
(* The theorems.                                                           *)
(***************************************************************************)

\* The store holds what it may, however extensions, teardowns and the loops
\* write over each other: no wall, price or ledger entry below zero.
THEOREM LeaseTypes == Spec => []TypeOK
<1>1. LeasesInv => TypeOK
  BY DEF LeasesInv
<1> QED BY <1>1, LeasesInvariant, PTL

\* A lease recorded as destroyed has its lease_end entry or a destroy_and_verify
\* that is about to write it, unless the process died in between.
THEOREM DestructionIsCharged == Spec => []DestroyedIsCharged
<1>1. LeasesInv => DestroyedIsCharged
  BY DEF LeasesInv
<1> QED BY <1>1, LeasesInvariant, PTL

\* A lease is granted and a wall moved within every cap, however many workers
\* and providers the sums are taken over, when nothing changed the books between
\* the check and the write.
THEOREM SpendIsWithinCap == Spec => LoneSpendWithinCap
<1> DEFINE A == /\ \A w \in Worker :
                      RecordLease(w) /\ w \in checked => ~Breaches(prov[w].ask.provider, 0)'
                /\ \A c \in Client, w \in Worker :
                      WriteExtension(c) /\ c \in checked /\ w = ext[c].worker
                          => ~Breaches(lease[w].provider, 0)'
<1>1. ASSUME CheckedInv, CheckedInv', [Next]_vars PROVE A
  BY <1>1, StepsAreRegular, RecordingCovered, ExtendingCovered
<1>2. CheckedInv /\ CheckedInv' /\ [Next]_vars => [A]_vars
  BY <1>1
<1>3. Spec => [][Next]_vars
  BY DEF Spec
<1> HIDE DEF A
<1>4. Spec => [][A]_vars
  BY <1>2, <1>3, CheckedInvariant, PTL
<1> QED BY <1>4 DEF LoneSpendWithinCap, A
=============================================================================
