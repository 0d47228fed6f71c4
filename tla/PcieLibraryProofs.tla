------------------------- MODULE PcieLibraryProofs -------------------------
(***************************************************************************)
(* Proofs about PcieLibrary for any tasks and any number of opens: the bus *)
(* is up for every client, there is one or none, an open library stays in  *)
(* memory, and the library implements SharedBus.  Then about the shim of   *)
(* OpenPci for any users, references and direct clients: it counts its     *)
(* users and stays for them however its opens and closes overlap; and, as  *)
(* lemmas, what else holds as long as they do not.                         *)
(***************************************************************************)
EXTENDS OpenPci, FiniteSetTheorems, TLAPS

-----------------------------------------------------------------------------
(* The inductive invariant.                                                *)

\* What pcie_hw_init has acquired when it comes to step s, "link" aside.
Before(s) ==
    CASE s = "ctrl"    -> {}
      [] s = "regions" -> {"ctrl"}
      [] s = "link"    -> {"ctrl", "regions"}
      [] s = "gic400"  -> {"ctrl", "regions"}
      [] s = "demux"   -> {"ctrl", "regions", "gic400"}
      [] s = "rootbus" -> {"ctrl", "regions", "gic400", "demux"}
      [] s = "devices" -> {"ctrl", "regions", "gic400", "demux", "rootbus"}
      [] s = "devlist" -> {"ctrl", "regions", "gic400", "demux", "rootbus", "devices"}
      [] s = "pool"    -> {"ctrl", "regions", "gic400", "demux", "rootbus", "devices", "devlist"}
      [] OTHER         -> Resource

\* One of each resource of S, and of the others none but what leaked.
Have(S) ==
    /\ \A r \in S : held[r] >= 1
    /\ \A r \in Exclusive : held[r] = IF r \in S THEN 1 ELSE 0

\* The task inside LibOpen owns the semaphore and knows how far the bus is up.
Working == Steps \cup {"count"}
Opening(t) ==
    /\ Owner(t)
    /\ Have(Before(pc[t]))
    /\ pc[t] \in Steps => Clients = {} /\ ready = (pc[t] = "pool")
    /\ pc[t] = "count" => ready

\* With nobody inside LibOpen, the bus is up exactly for the clients.
Settled ==
    /\ ready = (Clients # {})
    /\ Have(IF ready THEN Resource ELSE {})

LibInv ==
    /\ TypeOK
    /\ IsFiniteSet(Clients) /\ openCnt = Cardinality(Clients)
    /\ Clients # {} => base = "resident"
    /\ \A t \in Task : pc[t] \in Working => Opening(t)
    /\ (\A t \in Task : pc[t] \notin Working) => Settled

-----------------------------------------------------------------------------
(* The steps of the bring-up.                                              *)

LEMMA StepNames ==
    /\ Steps = {"ctrl", "regions", "link", "gic400", "demux", "rootbus", "devices",
                "devlist", "pool"}
    /\ \A s \in Steps : After[s] \in Pc
BY DEF Steps, After, Pc

\* Step s acquires its resource, if it has one, and leads to step n.
Leads(s, n) ==
    /\ n \in Working
    /\ Before(n) = Before(s) \cup ({s} \cap Resource)
    /\ ({s} \cap Resource) \cap Before(s) = {}
    /\ Before(s) \subseteq Resource
    /\ n \in {"pool", "count"} <=> s \in {"devlist", "pool"}
    /\ n = "pool" <=> s = "devlist"

LEMMA StepOrder == \A s \in Steps : Leads(s, After[s])
<1>1. Leads("ctrl", "regions") /\ Leads("regions", "link") /\ Leads("link", "gic400")
  BY StepNames DEF Leads, Before, Resource, Working
<1>2. Leads("gic400", "demux") /\ Leads("demux", "rootbus") /\ Leads("rootbus", "devices")
  BY StepNames DEF Leads, Before, Resource, Working
<1>3. Leads("devices", "devlist") /\ Leads("devlist", "pool") /\ Leads("pool", "count")
  BY StepNames DEF Leads, Before, Resource, Working
<1>4. QED
  BY <1>1, <1>2, <1>3, StepNames DEF After

\* An error path gives back all there is but the region table and the nodes.
LEMMA UnwindAll ==
    ASSUME NEW s \in Steps
    PROVE  Unwind(s) \subseteq Before(s) /\ Before(s) \cap Exclusive \subseteq Unwind(s)
BY StepNames DEF Unwind, Before, Removed, Exclusive, Resource

LEMMA ShutdownAll ==
    Shutdown \subseteq Resource /\ Exclusive \subseteq Shutdown
BY DEF Shutdown, Removed, Exclusive, Resource

LEMMA LibInit == Init => LibInv
<1> SUFFICES ASSUME Init PROVE LibInv
  OBVIOUS
<1>1. Clients = {}
  BY DEF Init, Clients
<1>2. \A t \in Task : pc[t] \notin Working
  BY StepNames DEF Init, Working
<1>3. TypeOK
  <2>1. <<>> \in Seq(Task) /\ 0 \in 0..MaxOpens
    BY LibraryAssumption
  <2>2. QED
    BY <2>1 DEF Init, TypeOK, Pc
<1>4. Settled
  BY <1>1 DEF Init, Settled, Have, Exclusive
<1>5. IsFiniteSet(Clients) /\ openCnt = Cardinality(Clients)
  BY <1>1, FS_EmptySet DEF Init
<1>6. QED
  BY <1>1, <1>2, <1>3, <1>4, <1>5 DEF LibInv

-----------------------------------------------------------------------------
(* Each step keeps the invariant.                                          *)

\* The part of the invariant about the open in progress.
Progress ==
    /\ \A t \in Task : pc[t] \in Working => Opening(t)
    /\ (\A t \in Task : pc[t] \notin Working) => Settled
Counted ==
    /\ IsFiniteSet(Clients) /\ openCnt = Cardinality(Clients)
    /\ Clients # {} => base = "resident"

LEMMA LibParts == LibInv <=> TypeOK /\ Counted /\ Progress
BY DEF LibInv, Counted, Progress

\* The owner of the semaphore is the only task that can be inside LibOpen.
LEMMA NobodyWorks ==
    ASSUME LibInv, NEW t \in Task, sem = <<>> \/ Owner(t), pc[t] \notin Working
    PROVE  (\A u \in Task : pc[u] \notin Working) /\ Settled
BY DEF LibInv, Opening, Owner

LEMMA OnlyOne ==
    ASSUME LibInv, NEW t \in Task, pc[t] \in Working, NEW u \in Task, u # t
    PROVE  pc[u] \notin Working
BY DEF LibInv, Opening, Owner

\* A step beside the open in progress.
LEMMA Beside ==
    ASSUME LibInv, UNCHANGED <<ready, held, Clients>>,
           sem # <<>> => sem' # <<>> /\ Head(sem') = Head(sem),
           \A u \in Task : pc'[u] = pc[u] \/ (pc[u] \notin Working /\ pc'[u] \notin Working)
    PROVE  Progress'
<1>1. ASSUME NEW u \in Task, pc'[u] \in Working PROVE Opening(u)'
  <2>1. pc'[u] = pc[u] /\ Opening(u)
    BY <1>1 DEF LibInv
  <2>2. Owner(u)'
    BY <2>1 DEF Opening, Owner
  <2>3. QED
    BY <2>1, <2>2 DEF Opening, Have
<1>2. ASSUME \A u \in Task : pc'[u] \notin Working PROVE Settled'
  <2>1. \A u \in Task : pc[u] \notin Working
    BY <1>2
  <2>2. Settled
    BY <2>1 DEF LibInv
  <2>3. QED
    BY <2>2 DEF Settled, Have
<1>3. QED
  BY <1>1, <1>2 DEF Progress

\* LibOpen gets the semaphore.
LEMMA BeginsOpen ==
    ASSUME LibInv, NEW t \in Task, sem = <<>> \/ Owner(t), pc[t] \in {"out", "enter"},
           pc' = [pc EXCEPT ![t] = Opened], UNCHANGED <<ready, held>>, Owner(t)'
    PROVE  Progress' /\ Clients' = Clients /\ pc' \in [Task -> Pc]
<1>0. pc \in [Task -> Pc] /\ Opened \in {"count", "ctrl"}
  BY DEF LibInv, TypeOK, Opened
<1>1. (\A u \in Task : pc[u] \notin Working) /\ Settled
  BY NobodyWorks, StepNames DEF Working
<1>2. Clients' = Clients
  BY <1>0 DEF Clients
<1>3. pc'[t] = Opened /\ \A u \in Task \ {t} : pc'[u] = pc[u]
  BY <1>0
<1>4. Opening(t)'
  <2>1. CASE ready
    <3>1. pc'[t] = "count" /\ Have(Resource)
      BY <1>1, <1>3, <2>1 DEF Opened, Settled
    <3>2. Before("count") = Resource
      BY DEF Before
    <3>3. Have(Before(pc[t]))'
      BY <3>1, <3>2 DEF Have
    <3>4. "count" \notin Steps
      BY StepNames
    <3>5. ready' = TRUE
      BY <2>1 DEF LibInv, TypeOK
    <3>6. QED
      BY <3>1, <3>3, <3>4, <3>5 DEF Opening
  <2>2. CASE ~ready
    <3>1. pc'[t] = "ctrl" /\ Have({}) /\ Clients' = {} /\ ready' = FALSE
      BY <1>1, <1>2, <1>3, <2>2 DEF Opened, Settled
    <3>2. Before("ctrl") = {}
      BY DEF Before
    <3>3. Have(Before(pc[t]))'
      BY <3>1, <3>2 DEF Have
    <3>4. QED
      BY <3>1, <3>3 DEF Opening
  <2>3. QED
    BY <2>1, <2>2
<1>5. pc'[t] \in Working
  BY <1>0, <1>3, StepNames DEF Working
<1>6. Progress'
  BY <1>1, <1>3, <1>4, <1>5 DEF Progress
<1>7. QED
  BY <1>0, <1>2, <1>6, StepNames DEF Pc

\* LibClose with the semaphore.
LEMMA ClosedStep ==
    ASSUME LibInv, NEW t \in Task, sem = <<>> \/ Owner(t), pc[t] \in {"open", "leave"},
           NEW rest \in Seq(Task), Closed(t, rest)
    PROVE  LibInv'
<1>1. (\A u \in Task : pc[u] \notin Working) /\ Settled
  BY NobodyWorks, StepNames DEF Working
<1>2. /\ pc \in [Task -> Pc] /\ held \in [Resource -> Nat] /\ openCnt \in Nat
      /\ opens \in 0..MaxOpens /\ base \in {"resident", "freed"} /\ ready \in BOOLEAN
      /\ delexp \in BOOLEAN
      /\ IsFiniteSet(Clients) /\ openCnt = Cardinality(Clients)
  BY DEF LibInv, TypeOK
<1>3. t \in Clients /\ Clients' = Clients \ {t}
  BY <1>2 DEF Closed, Clients
<1>4. IsFiniteSet(Clients') /\ Cardinality(Clients') = openCnt - 1
  BY <1>2, <1>3, FS_RemoveElement
<1>5. openCnt' \in Nat /\ openCnt' = Cardinality(Clients')
  BY <1>4, FS_CardinalityType DEF Closed
<1>6. Last <=> Clients' = {}
  BY <1>2, <1>4, FS_EmptySet DEF Last
<1>7. ready /\ \A r \in Resource : held[r] >= 1
  BY <1>1, <1>3 DEF Settled, Have
<1>8. Give(Shutdown) \in [Resource -> Nat] /\ \A r \in Exclusive : Give(Shutdown)[r] = 0
  <2>1. \A r \in Resource : held[r] - 1 \in Nat
    BY <1>2, <1>7
  <2>2. \A r \in Exclusive : held[r] = 1
    BY <1>1, <1>7 DEF Settled, Have, Exclusive
  <2>3. QED
    BY <1>2, <2>1, <2>2, ShutdownAll DEF Give
<1>9. \A u \in Task : pc'[u] \notin Working
  BY <1>1, <1>2, StepNames DEF Closed, Working
<1>10. ready' = (Clients' # {})
  BY <1>2, <1>6, <1>7 DEF Closed
<1>11. held' \in [Resource -> Nat] /\ Have(IF ready THEN Resource ELSE {})'
  <2>1. CASE Last
    <3>1. held' = Give(Shutdown) /\ ready' = FALSE
      BY <2>1 DEF Closed
    <3> HIDE DEF Give
    <3>2. QED
      BY <1>8, <3>1 DEF Have
  <2>2. CASE ~Last
    BY <1>1, <1>2, <1>7, <2>2 DEF Closed, Settled, Have
  <2>3. QED
    BY <2>1, <2>2
<1>12. Clients' # {} => base' = "resident"
  <2>1. openCnt' = 0 => Clients' = {}
    BY <1>4, <1>5, FS_EmptySet
  <2>2. base = "resident"
    BY <1>3 DEF LibInv
  <2>3. QED
    BY <2>1, <2>2 DEF Closed
<1>13. TypeOK'
  BY <1>2, <1>5, <1>11 DEF TypeOK, Closed, Pc
<1>14. Progress'
  BY <1>9, <1>10, <1>11 DEF Progress, Settled
<1>15. QED
  BY <1>4, <1>5, <1>12, <1>13, <1>14, LibParts DEF LibInv, Counted, Progress

\* A step of the bring-up succeeds.
LEMMA InitStepKeeps ==
    ASSUME LibInv, NEW t \in Task, InitStep(t)
    PROVE  LibInv' /\ Clients' = Clients
<1> DEFINE s == pc[t]
           n == After[s]
           R == {s} \cap Resource
<1>0. TypeOK /\ Counted /\ Progress
  BY LibParts
<1>1. /\ pc \in [Task -> Pc] /\ held \in [Resource -> Nat] /\ s \in Steps
      /\ Opening(t) /\ Clients = {}
  BY <1>0 DEF InitStep, Progress, Opening, Working, TypeOK
<1>2. Leads(s, n) /\ n \in Pc
  BY <1>1, StepOrder, StepNames
<1> HIDE DEF n
<1>3. /\ pc' = [pc EXCEPT ![t] = n] /\ held' = Take(R) /\ ready' = (n \in {"pool", "count"})
      /\ UNCHANGED <<base, openCnt, delexp, sem, opens>>
  BY DEF InitStep, n
<1>4. pc'[t] = n /\ pc' \in [Task -> Pc] /\ \A u \in Task \ {t} : pc'[u] = pc[u]
  BY <1>1, <1>2, <1>3
<1>5. Clients' = {}
  BY <1>1, <1>2, <1>4, StepNames DEF Clients, Leads, Working
<1>6. held' \in [Resource -> Nat]
  BY <1>1, <1>3 DEF Take
<1>7. Have(Before(pc[t]))'
  <2>1. /\ \A r \in Before(s) : held[r] >= 1
        /\ \A r \in Exclusive : held[r] = IF r \in Before(s) THEN 1 ELSE 0
    BY <1>1 DEF Opening, Have
  <2>2. Before(n) = Before(s) \cup R /\ R \cap Before(s) = {} /\ Before(s) \subseteq Resource
    BY <1>2 DEF Leads
  <2>3. \A r \in Resource : held'[r] = IF r \in R THEN held[r] + 1 ELSE held[r]
    BY <1>3 DEF Take
  <2>4. \A r \in Before(n) : held'[r] >= 1
    BY <1>1, <2>1, <2>2, <2>3
  <2>5. \A r \in Exclusive : held'[r] = IF r \in Before(n) THEN 1 ELSE 0
    BY <1>1, <2>1, <2>2, <2>3 DEF Exclusive
  <2> HIDE DEF R
  <2>6. QED
    BY <1>4, <2>4, <2>5 DEF Have
<1>8. Opening(t)'
  <2>1. Owner(t)'
    BY <1>1, <1>3 DEF Opening, Owner
  <2>2. n \in Steps => ready' = (n = "pool")
    BY <1>3, StepNames
  <2>3. n = "count" => ready'
    BY <1>3
  <2>4. QED
    BY <1>4, <1>5, <1>7, <2>1, <2>2, <2>3 DEF Opening
<1>9. \A u \in Task \ {t} : pc'[u] \notin Working
  BY <1>1, <1>4, OnlyOne DEF Working
<1>10. Progress'
  BY <1>2, <1>4, <1>8, <1>9 DEF Progress, Leads
<1>11. TypeOK'
  <2>1. ready' \in BOOLEAN
    BY <1>3
  <2>2. /\ base' \in {"resident", "freed"} /\ openCnt' \in Nat /\ opens' \in 0..MaxOpens
        /\ delexp' \in BOOLEAN /\ sem' \in Seq(Task)
    BY <1>0, <1>3 DEF TypeOK
  <2>3. QED
    BY <1>4, <1>6, <2>1, <2>2 DEF TypeOK
<1>12. Counted'
  BY <1>0, <1>1, <1>3, <1>5 DEF Counted
<1>13. QED
  BY <1>1, <1>5, <1>10, <1>11, <1>12, LibParts DEF LibInv, Counted, Progress

\* A step of the bring-up fails, and its error path runs.
LEMMA InitFailsKeeps ==
    ASSUME LibInv, NEW t \in Task, InitFails(t)
    PROVE  LibInv' /\ Clients' = Clients
<1> DEFINE s == pc[t]
<1>0. TypeOK /\ Counted /\ Progress
  BY LibParts
<1>1. /\ pc \in [Task -> Pc] /\ held \in [Resource -> Nat] /\ s \in Steps /\ sem \in Seq(Task)
      /\ Opening(t) /\ Clients = {}
  BY <1>0 DEF InitFails, Progress, Opening, Working, TypeOK
<1>2. PICK made \in SUBSET ({s} \cap {"devices"}) :
         held' = [r \in Resource |-> Give(Unwind(s))[r] + IF r \in made THEN 1 ELSE 0]
  BY DEF InitFails
<1>3. /\ \A r \in Before(s) : held[r] >= 1
      /\ \A r \in Exclusive : held[r] = IF r \in Before(s) THEN 1 ELSE 0
  BY <1>1 DEF Opening, Have
<1>4. Unwind(s) \subseteq Before(s) /\ Before(s) \cap Exclusive \subseteq Unwind(s)
  BY <1>1, UnwindAll
<1>5. \A r \in Resource : Give(Unwind(s))[r] = IF r \in Unwind(s) THEN held[r] - 1 ELSE held[r]
  BY DEF Give
<1>6. \A r \in Resource : Give(Unwind(s))[r] \in Nat
  <2>1. \A r \in Resource : held[r] \in Nat /\ (r \in Unwind(s) => held[r] >= 1)
    BY <1>1, <1>3, <1>4
  <2>2. QED
    BY <1>5, <2>1
<1>7. \A r \in Exclusive : Give(Unwind(s))[r] = 0
  <2>1. \A r \in Exclusive : r \in Resource /\ (r \in Unwind(s) <=> r \in Before(s))
    BY <1>4 DEF Exclusive
  <2>2. QED
    BY <1>3, <1>5, <2>1
<1>8. held' \in [Resource -> Nat] /\ \A r \in Exclusive : held'[r] = 0
  <2> DEFINE g == Give(Unwind(s))
  <2> HIDE DEF g
  <2>1. held' \in [Resource -> Nat]
    BY <1>2, <1>6 DEF g
  <2>2. \A r \in Exclusive : r \in Resource /\ r \notin made
    BY <1>2 DEF Exclusive
  <2>3. \A r \in Exclusive : held'[r] = 0
    BY <1>2, <1>7, <2>2 DEF g
  <2>4. QED
    BY <2>1, <2>3
<1>9. /\ ready' = FALSE /\ sem' = Tail(sem) /\ pc' = [pc EXCEPT ![t] = "out"]
      /\ UNCHANGED <<base, openCnt, delexp, opens>>
  BY DEF InitFails
<1>10. pc' \in [Task -> Pc] /\ pc'[t] = "out" /\ \A u \in Task \ {t} : pc'[u] = pc[u]
  BY <1>1, <1>9 DEF Pc
<1>11. Clients' = {}
  BY <1>1, <1>10 DEF Clients
<1>12. \A u \in Task : pc'[u] \notin Working
  <2>1. "out" \notin Working
    BY StepNames DEF Working
  <2>2. \A u \in Task \ {t} : pc[u] \notin Working
    BY <1>1, OnlyOne DEF Working
  <2>3. QED
    BY <1>10, <2>1, <2>2
<1>13. Settled'
  BY <1>8, <1>9, <1>11 DEF Settled, Have
<1>14. sem' \in Seq(Task)
  BY <1>1, <1>9 DEF Opening, Owner
<1>15. TypeOK'
  BY <1>0, <1>8, <1>9, <1>10, <1>14 DEF TypeOK
<1>16. Counted'
  BY <1>0, <1>1, <1>9, <1>11 DEF Counted
<1>17. QED
  BY <1>1, <1>11, <1>12, <1>13, <1>15, <1>16, LibParts DEF LibInv, Counted, Progress

\* An open is counted.
LEMMA CountKeeps ==
    ASSUME LibInv, NEW t \in Task, Count(t)
    PROVE  LibInv' /\ Clients' = Clients \cup {t} /\ t \notin Clients
<1>1. /\ pc \in [Task -> Pc] /\ held \in [Resource -> Nat] /\ pc[t] = "count" /\ sem \in Seq(Task)
      /\ Opening(t) /\ openCnt \in Nat /\ IsFiniteSet(Clients) /\ openCnt = Cardinality(Clients)
      /\ ready \in BOOLEAN /\ opens \in 0..MaxOpens
  BY DEF Count, LibInv, TypeOK, Working
<1>2. /\ base' = "resident" /\ openCnt' = openCnt + 1 /\ delexp' = FALSE /\ sem' = Tail(sem)
      /\ pc' = [pc EXCEPT ![t] = "open"] /\ UNCHANGED <<ready, held, opens>>
  BY DEF Count, Running
<1>3. pc' \in [Task -> Pc] /\ pc'[t] = "open" /\ \A u \in Task \ {t} : pc'[u] = pc[u]
  BY <1>1, <1>2 DEF Pc
<1>4. Clients' = Clients \cup {t} /\ t \notin Clients
  BY <1>1, <1>3 DEF Clients
<1>5. IsFiniteSet(Clients') /\ Cardinality(Clients') = openCnt + 1
  BY <1>1, <1>4, FS_AddElement
<1>6. ready /\ Have(Resource)
  BY <1>1 DEF Opening, Before
<1>7. \A u \in Task : pc'[u] \notin Working
  <2>1. "open" \notin Working
    BY StepNames DEF Working
  <2>2. \A u \in Task \ {t} : pc[u] \notin Working
    BY <1>1, OnlyOne DEF Working
  <2>3. QED
    BY <1>3, <2>1, <2>2
<1>8. Settled'
  BY <1>2, <1>4, <1>6, <1>1 DEF Settled, Have
<1>9. sem' \in Seq(Task)
  BY <1>1, <1>2 DEF Opening, Owner
<1>10. TypeOK'
  <2>1. /\ base' \in {"resident", "freed"} /\ openCnt' \in Nat /\ opens' \in 0..MaxOpens
        /\ held' \in [Resource -> Nat]
    BY <1>1, <1>2
  <2>2. delexp' \in BOOLEAN
    BY <1>2
  <2>3. ready' \in BOOLEAN
    BY <1>1, <1>2
  <2>4. QED
    BY <1>3, <1>9, <2>1, <2>2, <2>3 DEF TypeOK
<1>11. QED
  BY <1>2, <1>4, <1>5, <1>7, <1>8, <1>10, LibParts DEF LibInv, Counted, Progress

\* exec calls LibOpen: it begins, or waits for the semaphore.
LEMMA OpenLibraryKeeps ==
    ASSUME LibInv, NEW t \in Task, OpenLibrary(t)
    PROVE  LibInv' /\ Clients' = Clients /\ ready' = ready
<1>0. TypeOK /\ Counted /\ Progress
  BY LibParts
<1>1. /\ pc \in [Task -> Pc] /\ held \in [Resource -> Nat] /\ sem \in Seq(Task)
      /\ openCnt \in Nat /\ opens \in 0..MaxOpens /\ delexp \in BOOLEAN /\ ready \in BOOLEAN
  BY <1>0 DEF TypeOK
<1>2. /\ base' = "resident" /\ opens' = opens + 1 /\ opens < MaxOpens /\ pc[t] = "out"
      /\ sem' = Append(sem, t) /\ UNCHANGED <<openCnt, delexp, ready, held>>
  BY DEF OpenLibrary
<1>3. sem' \in Seq(Task) /\ sem' # <<>>
  BY <1>1, <1>2
<1>4. pc' \in [Task -> Pc] /\ Clients' = Clients /\ Progress'
  <2>1. CASE sem = <<>>
    <3>1. pc' = [pc EXCEPT ![t] = Opened]
      BY <2>1 DEF OpenLibrary
    <3>2. Owner(t)'
      BY <1>2, <2>1 DEF Owner
    <3>3. QED
      BY <1>2, <2>1, <3>1, <3>2, BeginsOpen
  <2>2. CASE sem # <<>>
    <3>1. pc' = [pc EXCEPT ![t] = "enter"]
      BY <2>2 DEF OpenLibrary
    <3>2. /\ pc' \in [Task -> Pc] /\ pc'[t] = "enter" /\ \A u \in Task \ {t} : pc'[u] = pc[u]
      BY <1>1, <3>1 DEF Pc
    <3>3. Clients' = Clients
      BY <1>2, <3>2 DEF Clients
    <3>4. \A u \in Task : pc'[u] = pc[u] \/ (pc[u] \notin Working /\ pc'[u] \notin Working)
      BY <1>2, <3>2, StepNames DEF Working
    <3>5. Head(sem') = Head(sem)
      BY <1>1, <1>2, <2>2
    <3>6. QED
      BY <1>2, <1>3, <3>2, <3>3, <3>4, <3>5, Beside
  <2>3. QED
    BY <2>1, <2>2
<1>5. opens' \in 0..MaxOpens
  BY <1>1, <1>2, LibraryAssumption
<1>6. TypeOK'
  BY <1>1, <1>2, <1>3, <1>4, <1>5 DEF TypeOK
<1>7. Counted'
  BY <1>0, <1>2, <1>4 DEF Counted
<1>8. QED
  BY <1>2, <1>4, <1>6, <1>7, LibParts DEF LibInv, Counted, Progress

\* A LibOpen that waited goes on.
LEMMA EnterOpenKeeps ==
    ASSUME LibInv, NEW t \in Task, EnterOpen(t)
    PROVE  LibInv' /\ Clients' = Clients /\ ready' = ready
<1>0. TypeOK /\ Counted /\ Progress
  BY LibParts
<1>1. /\ pc[t] = "enter" /\ Owner(t) /\ pc' = [pc EXCEPT ![t] = Opened]
      /\ UNCHANGED <<base, openCnt, delexp, ready, sem, held, opens>>
  BY DEF EnterOpen
<1>2. Owner(t)'
  BY <1>1 DEF Owner
<1>3. pc' \in [Task -> Pc] /\ Clients' = Clients /\ Progress'
  BY <1>1, <1>2, BeginsOpen
<1>4. TypeOK'
  BY <1>0, <1>1, <1>3 DEF TypeOK
<1>5. Counted'
  BY <1>0, <1>1, <1>3 DEF Counted
<1>6. QED
  BY <1>1, <1>3, <1>4, <1>5, LibParts DEF LibInv, Counted, Progress

\* A client queues for the semaphore, to call a vector or to close the library.
LEMMA QueueKeeps ==
    ASSUME LibInv, NEW t \in Task, pc[t] = "open", sem' = Append(sem, t),
           NEW to \in {"call", "leave"}, pc' = [pc EXCEPT ![t] = to],
           UNCHANGED <<base, openCnt, delexp, ready, held, opens>>
    PROVE  LibInv' /\ Clients' = Clients
<1>0. TypeOK /\ Counted /\ Progress
  BY LibParts
<1>1. pc \in [Task -> Pc] /\ sem \in Seq(Task)
  BY <1>0 DEF TypeOK
<1>2. pc' \in [Task -> Pc] /\ pc'[t] = to /\ \A u \in Task \ {t} : pc'[u] = pc[u]
  BY <1>1 DEF Pc
<1>3. Clients' = Clients
  BY <1>2 DEF Clients
<1>4. \A u \in Task : pc'[u] = pc[u] \/ (pc[u] \notin Working /\ pc'[u] \notin Working)
  BY <1>2, StepNames DEF Working
<1>5. sem' \in Seq(Task) /\ sem' # <<>> /\ (sem # <<>> => Head(sem') = Head(sem))
  BY <1>1
<1>6. Progress'
  BY <1>3, <1>4, <1>5, Beside
<1>7. TypeOK'
  BY <1>0, <1>2, <1>5 DEF TypeOK
<1>8. Counted'
  BY <1>0, <1>3 DEF Counted
<1>9. QED
  BY <1>3, <1>6, <1>7, <1>8, LibParts DEF LibInv, Counted, Progress

\* A call that has the semaphore returns.
LEMMA ReturnKeeps ==
    ASSUME LibInv, NEW t \in Task, Return(t)
    PROVE  LibInv' /\ Clients' = Clients /\ ready' = ready
<1>0. TypeOK /\ Counted /\ Progress
  BY LibParts
<1>1. /\ pc[t] = "call" /\ Owner(t) /\ sem' = Tail(sem) /\ pc' = [pc EXCEPT ![t] = "open"]
      /\ UNCHANGED <<base, openCnt, delexp, ready, held, opens>>
  BY DEF Return
<1>2. pc \in [Task -> Pc] /\ sem \in Seq(Task)
  BY <1>0 DEF TypeOK
<1>3. pc' \in [Task -> Pc] /\ pc'[t] = "open" /\ \A u \in Task \ {t} : pc'[u] = pc[u]
  BY <1>1, <1>2 DEF Pc
<1>4. Clients' = Clients
  BY <1>1, <1>3 DEF Clients
<1>5. (\A u \in Task : pc[u] \notin Working) /\ Settled
  BY <1>1, NobodyWorks, StepNames DEF Working
<1>6. \A u \in Task : pc'[u] \notin Working
  BY <1>3, <1>5, StepNames DEF Working
<1>7. Settled'
  BY <1>1, <1>4, <1>5 DEF Settled, Have
<1>8. sem' \in Seq(Task)
  BY <1>1, <1>2 DEF Owner
<1>9. TypeOK'
  BY <1>0, <1>1, <1>3, <1>8 DEF TypeOK
<1>10. Counted'
  BY <1>0, <1>1, <1>4 DEF Counted
<1>11. QED
  BY <1>1, <1>4, <1>6, <1>7, <1>9, <1>10, LibParts DEF LibInv, Counted, Progress

\* exec expunges the library, or marks it.
LEMMA ExpungeKeeps ==
    ASSUME LibInv, Expunge
    PROVE  LibInv' /\ Clients' = Clients /\ ready' = ready
<1>0. TypeOK /\ Counted /\ Progress
  BY LibParts
<1>1. UNCHANGED <<openCnt, ready, sem, held, pc, opens>>
  BY DEF Expunge
<1>2. Clients' = Clients
  BY <1>1 DEF Clients
<1>3. base' \in {"resident", "freed"} /\ delexp' \in BOOLEAN
  BY <1>0 DEF Expunge, TypeOK
<1>4. Clients # {} => base' = base
  <2>1. Idle => Clients = {}
    BY <1>0, FS_EmptySet DEF Counted, Idle
  <2>2. QED
    BY <2>1 DEF Expunge
<1>5. TypeOK'
  BY <1>0, <1>1, <1>3 DEF TypeOK
<1>6. Counted'
  BY <1>0, <1>1, <1>2, <1>4 DEF Counted
<1>7. Progress'
  BY <1>1, <1>2, Beside
<1>8. QED
  BY <1>1, <1>2, <1>5, <1>6, <1>7, LibParts DEF LibInv, Counted, Progress

\* LibClose with the semaphore free, or waiting for it.
LEMMA CloseKeeps ==
    ASSUME LibInv, NEW t \in Task, CloseLibrary(t)
    PROVE  LibInv' /\ (Clients' = Clients \/ Clients' = Clients \ {t})
<1>1. pc[t] = "open"
  BY DEF CloseLibrary
<1>2. CASE sem = <<>> /\ Closed(t, <<>>)
  <2>1. <<>> \in Seq(Task)
    OBVIOUS
  <2>2. LibInv'
    BY <1>1, <1>2, <2>1, ClosedStep
  <2>3. Clients' = Clients \ {t}
    BY <1>1, <1>2 DEF Closed, LibInv, TypeOK, Clients
  <2>4. QED
    BY <2>2, <2>3
<1>3. CASE /\ sem' = Append(sem, t) /\ pc' = [pc EXCEPT ![t] = "leave"]
           /\ UNCHANGED <<base, openCnt, delexp, ready, held, opens>>
  BY <1>1, <1>3, QueueKeeps
<1>4. QED
  BY <1>2, <1>3 DEF CloseLibrary

\* LibClose that waited.
LEMMA EnterCloseKeeps ==
    ASSUME LibInv, NEW t \in Task, EnterClose(t)
    PROVE  LibInv' /\ Clients' = Clients \ {t}
<1>1. pc[t] = "leave" /\ Owner(t) /\ Closed(t, Tail(sem)) /\ sem \in Seq(Task)
  BY DEF EnterClose, LibInv, TypeOK
<1>2. Tail(sem) \in Seq(Task)
  BY <1>1 DEF Owner
<1>3. LibInv'
  BY <1>1, <1>2, ClosedStep
<1>4. Clients' = Clients \ {t}
  BY <1>1 DEF Closed, LibInv, TypeOK, Clients
<1>5. QED
  BY <1>3, <1>4

\* Every step keeps the invariant, and all but three keep who the clients are.
LEMMA LibStep == LibInv /\ [Next]_vars => LibInv'
<1> SUFFICES ASSUME LibInv, [Next]_vars PROVE LibInv'
  OBVIOUS
<1>1. ASSUME NEW t \in Task, OpenLibrary(t) PROVE LibInv'
  BY <1>1, OpenLibraryKeeps
<1>2. ASSUME NEW t \in Task, Call(t) PROVE LibInv'
  BY <1>2, QueueKeeps DEF Call
<1>3. ASSUME NEW t \in Task, EnterOpen(t) PROVE LibInv'
  BY <1>3, EnterOpenKeeps
<1>4. ASSUME NEW t \in Task, InitStep(t) PROVE LibInv'
  BY <1>4, InitStepKeeps
<1>5. ASSUME NEW t \in Task, InitFails(t) PROVE LibInv'
  BY <1>5, InitFailsKeeps
<1>6. ASSUME NEW t \in Task, Count(t) PROVE LibInv'
  BY <1>6, CountKeeps
<1>7. ASSUME NEW t \in Task, Return(t) PROVE LibInv'
  BY <1>7, ReturnKeeps
<1>8. ASSUME NEW t \in Task, CloseLibrary(t) PROVE LibInv'
  BY <1>8, CloseKeeps
<1>9. ASSUME NEW t \in Task, EnterClose(t) PROVE LibInv'
  BY <1>9, EnterCloseKeeps
<1>10. ASSUME Expunge PROVE LibInv'
  BY <1>10, ExpungeKeeps
<1>11. ASSUME UNCHANGED vars PROVE LibInv'
  <2>1. Clients' = Clients
    BY <1>11 DEF vars, Clients
  <2>2. Progress'
    BY <1>11, <2>1, Beside DEF vars
  <2>3. TypeOK' /\ Counted'
    BY <1>11, <2>1, LibParts DEF vars, TypeOK, Counted
  <2>4. QED
    BY <2>2, <2>3, LibParts DEF LibInv, Counted, Progress
<1>12. QED
  BY <1>1, <1>2, <1>3, <1>4, <1>5, <1>6, <1>7, <1>8, <1>9, <1>10, <1>11 DEF Next, Step

LEMMA LibAlways == Spec => []LibInv
BY LibInit, LibStep, PTL DEF Spec

-----------------------------------------------------------------------------
(* The theorems.                                                           *)

\* Every variable keeps its type: no count of what pcie_hw_init acquires goes below
\* zero on any error path or shutdown, and lib_OpenCnt does not either.
THEOREM TypeCorrect == Spec => []TypeOK
<1>1. LibInv => TypeOK
  BY DEF LibInv
<1>2. QED
  BY LibAlways, <1>1, PTL

\* pcie_main.c, LibOpen and LibClose: whoever has the library open finds the bus up
\* with all it consists of, whatever the others open, close or fail to open.
THEOREM ClientsUp == Spec => []UpForClients
<1>1. LibInv => UpForClients
  <2> SUFFICES ASSUME LibInv, Clients # {} PROVE ready /\ \A r \in Resource : held[r] >= 1
    BY DEF UpForClients
  <2>1. CASE \A t \in Task : pc[t] \notin Working
    BY <2>1 DEF LibInv, Settled, Have
  <2>2. CASE \E t \in Task : pc[t] \in Working
    <3>1. PICK t \in Task : pc[t] \in Working
      BY <2>2
    <3>2. Opening(t)
      BY <3>1 DEF LibInv
    <3>3. pc[t] = "count"
      BY <3>1, <3>2 DEF Opening, Working
    <3>4. QED
      BY <3>2, <3>3 DEF Opening, Have, Before
  <2>3. QED
    BY <2>1, <2>2
<1>2. QED
  BY LibAlways, <1>1, PTL

\* pcie_hw_init and pcie_hw_shutdown: never a second controller, demux server or
\* reference to gic400.library, and all or none when nobody opens or closes.
THEOREM OneBus == Spec => []OneBusOrNone
<1>1. LibInv => OneBusOrNone
  <2> SUFFICES ASSUME LibInv, NEW r \in Exclusive
               PROVE  held[r] <= 1 /\ (sem = <<>> => held[r] = IF ready THEN 1 ELSE 0)
    BY DEF OneBusOrNone
  <2>1. CASE \A t \in Task : pc[t] \notin Working
    <3>1. Have(IF ready THEN Resource ELSE {})
      BY <2>1 DEF LibInv, Settled
    <3>2. r \in Resource
      BY DEF Exclusive
    <3>3. QED
      BY <3>1, <3>2 DEF Have
  <2>2. CASE \E t \in Task : pc[t] \in Working
    <3>1. PICK t \in Task : pc[t] \in Working
      BY <2>2
    <3>2. Owner(t) /\ Have(Before(pc[t]))
      BY <3>1 DEF LibInv, Opening
    <3>3. QED
      BY <3>2 DEF Have, Owner
  <2>3. QED
    BY <2>1, <2>2
<1>2. QED
  BY LibAlways, <1>1, PTL

\* LibExpunge: the library stays in memory for as long as a client has it open.
THEOREM OpenKept == Spec => []OpenKeepsBase
<1>1. LibInv => OpenKeepsBase
  BY DEF LibInv, OpenKeepsBase
<1>2. QED
  BY LibAlways, <1>1, PTL

-----------------------------------------------------------------------------
(* The library implements SharedBus.                                       *)

LEMMA UpIsShared ==
    ASSUME LibInv
    PROVE  BusUp = (Clients # {})
<1>1. openCnt = 0 <=> Clients = {}
  BY FS_EmptySet DEF LibInv
<1>2. ready \in BOOLEAN
  BY DEF LibInv, TypeOK
<1>3. CASE \A t \in Task : pc[t] \notin Working
  <2>1. ready = (Clients # {})
    BY <1>3 DEF LibInv, Settled
  <2>2. \A t \in Task : pc[t] \notin {"pool", "count"}
    BY <1>3, StepNames DEF Working
  <2>3. QED
    BY <1>2, <2>1, <2>2 DEF BusUp
<1>4. CASE \E t \in Task : pc[t] \in Working
  <2>1. PICK t \in Task : pc[t] \in Working
    BY <1>4
  <2>2. Opening(t)
    BY <2>1 DEF LibInv
  <2>3. CASE pc[t] = "count"
    <3>1. ready
      BY <2>2, <2>3 DEF Opening
    <3>2. BusUp <=> openCnt # 0
      <4>1. \A u \in Task \ {t} : pc[u] \notin Working
        BY <2>1, OnlyOne
      <4>2. QED
        BY <2>3, <3>1, <4>1 DEF BusUp
    <3>3. QED
      BY <1>1, <3>2 DEF BusUp
  <2>4. CASE pc[t] # "count"
    <3>1. Clients = {} /\ ready = (pc[t] = "pool")
      BY <2>1, <2>2, <2>4 DEF Opening, Working
    <3>2. ~BusUp
      BY <1>1, <3>1 DEF BusUp
    <3>3. QED
      BY <3>1, <3>2 DEF BusUp
  <2>5. QED
    BY <2>3, <2>4
<1>5. QED
  BY <1>3, <1>4

LEMMA BusInit == Init => Bus!Init
<1> SUFFICES ASSUME Init PROVE Bus!Init
  OBVIOUS
<1>1. Clients = {}
  BY DEF Init, Clients
<1>2. BusUp = FALSE
  BY DEF Init, BusUp
<1>3. QED
  BY <1>1, <1>2 DEF Bus!Init

\* A step counts an open, ends one, or leaves the bus as its clients see it.
LEMMA BusStep == LibInv /\ [Next]_vars => [Bus!Next]_<<Clients, BusUp>>
<1> SUFFICES ASSUME LibInv, [Next]_vars PROVE [Bus!Next]_<<Clients, BusUp>>
  OBVIOUS
<1>1. LibInv'
  BY LibStep
<1>2. BusUp = (Clients # {})
  BY UpIsShared
<1>3. (BusUp = (Clients # {}))'
  BY <1>1, UpIsShared, PTL
<1>4. ASSUME Clients' = Clients PROVE UNCHANGED <<Clients, BusUp>>
  BY <1>2, <1>3, <1>4
<1>5. ASSUME NEW t \in Task, Clients' = Clients \cup {t}, t \notin Clients PROVE Bus!Next
  <2>1. BusUp' = TRUE
    BY <1>3, <1>5
  <2>2. Bus!Open(t)
    BY <1>5, <2>1 DEF Bus!Open
  <2>3. QED
    BY <2>2 DEF Bus!Next
<1>6. ASSUME NEW t \in Task, Clients' = Clients \ {t}, t \in Clients PROVE Bus!Next
  <2>1. Bus!Close(t)
    BY <1>3, <1>6 DEF Bus!Close
  <2>2. QED
    BY <2>1 DEF Bus!Next
<1>7. ASSUME NEW t \in Task, OpenLibrary(t) \/ EnterOpen(t) \/ InitStep(t) \/ InitFails(t) \/ Return(t)
      PROVE Clients' = Clients
  BY <1>7, OpenLibraryKeeps, EnterOpenKeeps, InitStepKeeps, InitFailsKeeps, ReturnKeeps
<1>8. ASSUME NEW t \in Task, Call(t) PROVE Clients' = Clients
  BY <1>8, QueueKeeps DEF Call
<1>9. ASSUME NEW t \in Task, Count(t) PROVE Bus!Next
  BY <1>5, <1>9, CountKeeps
<1>10. ASSUME NEW t \in Task, CloseLibrary(t) \/ EnterClose(t)
       PROVE  Clients' = Clients \/ Bus!Next
  <2>1. t \in Clients
    BY <1>10 DEF CloseLibrary, EnterClose, Clients
  <2>2. QED
    BY <1>6, <1>10, <2>1, CloseKeeps, EnterCloseKeeps
<1>11. ASSUME Expunge PROVE Clients' = Clients
  BY <1>11, ExpungeKeeps
<1>12. ASSUME UNCHANGED vars PROVE Clients' = Clients
  BY <1>12 DEF vars, Clients
<1>13. QED
  BY <1>4, <1>7, <1>8, <1>9, <1>10, <1>11, <1>12 DEF Next, Step

\* developer-guide.md, Opening the Library: opens are counted and share one bus, up
\* from the first one that succeeds to the last close.
THEOREM SharedBusImplemented == Spec => ImplementsSharedBus
BY BusInit, BusStep, LibAlways, PTL DEF Spec, ImplementsSharedBus, Bus!Spec

-----------------------------------------------------------------------------
(* openpci.library, whose references are clients of bcmpcie.library.       *)

Using == {u \in User : user[u] \in {"open", "call"}}
Taken == {r \in Ref : pc[r] # "out"}
Kept  == \A u \in User : user[u] # "lost"
Rests == \A u \in User : ~Waits(u)

\* The one that waits is alone; else the shim's reference is there exactly for its users.
ShimInv ==
    /\ pc \in [Task -> Pc] /\ ref \in [User -> Ref \cup {None}] /\ bcmBase \in Ref \cup {None}
    /\ user \in [User -> {"out", "opening", "open", "call", "closing", "lost"}]
    /\ IsFiniteSet(Using) /\ shimCnt = Cardinality(Using)
    /\ \A u, w \in User : Waits(u) /\ w # u => user[w] \in {"out", "lost"}
    /\ shim \in {"resident", "freed"} /\ (shim = "freed" => bcmBase = None /\ Using = {})
    /\ Rests => /\ bcmBase = None <=> Using = {}
                /\ bcmBase # None => pc[bcmBase] \in {"open", "call"}
                /\ Kept => Taken = {bcmBase} \ {None}
    /\ \A u \in User : user[u] = "opening" => bcmBase = None
    /\ \A u \in User : Waits(u) => ref[u] \in Ref /\ (Kept => Taken = {ref[u]})

-----------------------------------------------------------------------------
(* What a step does to the users and to the references.                    *)

LEMMA Moves ==
    ASSUME ShimInv, NEW u \in User, NEW where \in {"out", "opening", "open", "call", "closing", "lost"},
           At(u, where)
    PROVE  /\ user' \in [User -> {"out", "opening", "open", "call", "closing", "lost"}]
           /\ user'[u] = where /\ \A w \in User \ {u} : user'[w] = user[w]
           /\ Using' = IF where \in {"open", "call"} THEN Using \cup {u} ELSE Using \ {u}
BY DEF ShimInv, At, Using

\* Neither step of a reference: the users stay, or leave.
LEMMA Counts ==
    ASSUME IsFiniteSet(Using), shimCnt = Cardinality(Using), NEW u \in User
    PROVE  /\ IsFiniteSet(Using \cup {u}) /\ IsFiniteSet(Using \ {u}) /\ shimCnt \in Nat
           /\ u \notin Using => Using \ {u} = Using /\ Cardinality(Using \cup {u}) = shimCnt + 1
           /\ u \in Using => Using \cup {u} = Using /\ Cardinality(Using \ {u}) = shimCnt - 1
           /\ shimCnt = 0 <=> Using = {}
           /\ shimCnt = 1 /\ u \in Using => Using = {u}
<1>1. /\ IsFiniteSet(Using \cup {u}) /\ IsFiniteSet(Using \ {u}) /\ shimCnt \in Nat
      /\ u \notin Using => Cardinality(Using \cup {u}) = shimCnt + 1
      /\ u \in Using => Cardinality(Using \ {u}) = shimCnt - 1
  BY FS_AddElement, FS_RemoveElement, FS_CardinalityType
<1>2. shimCnt = 0 <=> Using = {}
  BY FS_EmptySet
<1>3. ASSUME shimCnt = 1, u \in Using PROVE Using = {u}
  <2>1. Cardinality(Using \ {u}) = 0
    BY <1>1, <1>3
  <2>2. QED
    BY <2>1, <1>1, <1>3, FS_EmptySet
<1>4. QED
  BY <1>1, <1>2, <1>3

\* The steps of one reference.
LEMMA Refs ==
    ASSUME pc \in [Task -> Pc], NEW t \in Task
    PROVE  /\ OpenLibrary(t) => pc[t] = "out" /\ \E x \in Pc \ {"out"} : pc' = [pc EXCEPT ![t] = x]
           /\ EnterOpen(t) \/ InitStep(t) => pc[t] # "out" /\ \E x \in Pc \ {"out"} : pc' = [pc EXCEPT ![t] = x]
           /\ Count(t) \/ Return(t) => pc[t] # "out" /\ pc' = [pc EXCEPT ![t] = "open"]
           /\ Call(t) => pc[t] = "open" /\ pc' = [pc EXCEPT ![t] = "call"]
           /\ InitFails(t) \/ EnterClose(t) => pc[t] # "out" /\ pc' = [pc EXCEPT ![t] = "out"]
           /\ CloseLibrary(t) => /\ pc[t] = "open"
                                 /\ pc' = [pc EXCEPT ![t] = IF sem = <<>> THEN "out" ELSE "leave"]
<1>1. Opened \in Pc \ {"out"} /\ "enter" \in Pc
  BY StepNames DEF Opened, Pc
<1>2. \A s \in Steps : s # "out" /\ After[s] \in Pc \ {"out"}
  BY StepNames DEF After
<1>3. OpenLibrary(t) => pc[t] = "out" /\ \E x \in Pc \ {"out"} : pc' = [pc EXCEPT ![t] = x]
  BY <1>1 DEF OpenLibrary
<1>4. EnterOpen(t) => pc[t] # "out" /\ \E x \in Pc \ {"out"} : pc' = [pc EXCEPT ![t] = x]
  BY <1>1 DEF EnterOpen
<1>5. InitStep(t) => pc[t] # "out" /\ \E x \in Pc \ {"out"} : pc' = [pc EXCEPT ![t] = x]
  BY <1>2 DEF InitStep
<1>6. Count(t) \/ Return(t) => pc[t] # "out" /\ pc' = [pc EXCEPT ![t] = "open"]
  BY DEF Count, Return
<1>7. Call(t) => pc[t] = "open" /\ pc' = [pc EXCEPT ![t] = "call"]
  BY DEF Call
<1>8. InitFails(t) => pc[t] # "out" /\ pc' = [pc EXCEPT ![t] = "out"]
  BY <1>2 DEF InitFails
<1>9. EnterClose(t) => pc[t] # "out" /\ pc' = [pc EXCEPT ![t] = "out"]
  BY DEF EnterClose, Closed
<1>10. CloseLibrary(t) => /\ pc[t] = "open"
                          /\ pc' = [pc EXCEPT ![t] = IF sem = <<>> THEN "out" ELSE "leave"]
  BY DEF CloseLibrary, Closed
<1>11. QED
  BY <1>3, <1>4, <1>5, <1>6, <1>7, <1>8, <1>9, <1>10

LEMMA Took ==
    ASSUME pc \in [Task -> Pc], NEW r \in Ref, NEW x \in Pc, pc' = [pc EXCEPT ![r] = x]
    PROVE  /\ pc' \in [Task -> Pc] /\ pc'[r] = x
           /\ Taken' = IF x = "out" THEN Taken \ {r} ELSE Taken \cup {r}
BY ShimAssumption DEF Taken

-----------------------------------------------------------------------------
(* Each step keeps the invariant.                                          *)

LEMMA ShimInitial == ShimInit => ShimInv
<1> SUFFICES ASSUME ShimInit PROVE ShimInv
  OBVIOUS
<1>1. Using = {} /\ Taken = {} /\ Rests
  BY ShimAssumption DEF ShimInit, Init, Using, Taken, Rests, Waits
<1>2. IsFiniteSet(Using) /\ shimCnt = Cardinality(Using)
  BY <1>1, FS_EmptySet DEF ShimInit
<1>3. pc \in [Task -> Pc]
  BY DEF ShimInit, Init, Pc
<1>4. QED
  BY <1>1, <1>2, <1>3 DEF ShimInit, ShimInv, Waits

LEMMA OpenKeeps ==
    ASSUME ~Overlap, ShimInv, NEW u \in User, ShimOpen(u)
    PROVE  ShimInv'
<1>1. Rests /\ u \notin Using /\ user[u] = "out" /\ shim' = "resident"
  BY DEF ShimOpen, MayEnter, Rests, Using
<1>2. IsFiniteSet(Using) /\ shimCnt = Cardinality(Using)
  BY DEF ShimInv
<1>3. CASE NeedsBcm /\ At(u, "opening") /\ UNCHANGED <<shimCnt, bcmBase>>
          /\ \E r \in Ref : OpenLibrary(r) /\ ref' = [ref EXCEPT ![u] = r]
  <2>1. PICK r \in Ref : OpenLibrary(r) /\ ref' = [ref EXCEPT ![u] = r]
    BY <1>3
  <2>2. PICK x \in Pc \ {"out"} : pc' = [pc EXCEPT ![r] = x]
    BY <2>1, Refs, ShimAssumption DEF ShimInv
  <2>3. pc' \in [Task -> Pc] /\ Taken' = Taken \cup {r}
    BY <2>2, Took DEF ShimInv
  <2>4. /\ user' \in [User -> {"out", "opening", "open", "call", "closing", "lost"}]
        /\ user'[u] = "opening" /\ \A w \in User \ {u} : user'[w] = user[w]
        /\ Using' = Using
    BY <1>1, <1>2, <1>3, Moves, Counts
  <2>5. bcmBase = None /\ Using = {} /\ (Kept => Taken = {})
    BY <1>1, <1>3 DEF ShimInv, NeedsBcm
  <2>6. \A w \in User \ {u} : user[w] \in {"out", "lost"}
    BY <1>1, <2>5 DEF ShimInv, Using, Rests, Waits
  <2>7. Kept' => Kept
    BY <1>1, <2>4 DEF Kept
  <2>8. ref' \in [User -> Ref \cup {None}] /\ ref'[u] = r
    BY <2>1 DEF ShimInv
  <2>9. \A w \in User : Waits(w)' => w = u
    BY <2>4, <2>6 DEF Waits
  <2>10. ~Rests'
    BY <2>4 DEF Rests, Waits
  <2>11. QED
    BY <1>1, <1>2, <1>3, <2>3, <2>4, <2>5, <2>6, <2>7, <2>8, <2>9, <2>10 DEF ShimInv, Waits
<1>4. CASE ~NeedsBcm /\ shimCnt' = shimCnt + 1 /\ At(u, "open") /\ UNCHANGED <<vars, bcmBase, ref>>
  <2>1. /\ user' \in [User -> {"out", "opening", "open", "call", "closing", "lost"}]
        /\ user'[u] = "open" /\ \A w \in User \ {u} : user'[w] = user[w]
        /\ Using' = Using \cup {u}
    BY <1>4, Moves
  <2>2. IsFiniteSet(Using') /\ shimCnt' = Cardinality(Using')
    BY <1>1, <1>2, <1>4, <2>1, Counts
  <2>3. Rests' /\ (Kept' => Kept) /\ Taken' = Taken
    BY <1>1, <1>4, <2>1 DEF Rests, Waits, Kept, Taken, vars
  <2>4. bcmBase # None
    BY <1>4 DEF NeedsBcm
  <2>5. QED
    BY <1>1, <1>4, <2>1, <2>2, <2>3, <2>4 DEF ShimInv, Rests, Waits, vars
<1>5. QED
  BY <1>3, <1>4 DEF ShimOpen

\* The end of an open or a close that has waited: nobody else did anything in the shim.
LEMMA Returned ==
    ASSUME ShimInv, NEW u \in User, Waits(u), pc[ref[u]] # "out", ref' = [ref EXCEPT ![u] = None],
           \/ /\ At(u, "open") /\ pc' = [pc EXCEPT ![ref[u]] = "open"]
              /\ shim = "resident" /\ shim' = shim /\ bcmBase' = ref[u] /\ shimCnt' = shimCnt + 1
           \/ /\ At(u, "out") /\ pc' = [pc EXCEPT ![ref[u]] = "out"]
              /\ shim' \in {shim, "freed"} /\ bcmBase' = None /\ shimCnt' = shimCnt
           \/ /\ At(u, "lost") /\ \E x \in {"out", "open"} : pc' = [pc EXCEPT ![ref[u]] = x]
              /\ shim = "freed" /\ shim' = shim /\ bcmBase' = bcmBase /\ shimCnt' = shimCnt
    PROVE  ShimInv'
<1>0. PICK where \in {"out", "open", "lost"}, x \in {"out", "open"} :
          /\ At(u, where) /\ pc' = [pc EXCEPT ![ref[u]] = x]
          /\ where = "open" => /\ shim = "resident" /\ shim' = shim /\ bcmBase' = ref[u]
                               /\ shimCnt' = shimCnt + 1 /\ x = "open"
          /\ where # "open" => shimCnt' = shimCnt
          /\ where = "out" => shim' \in {shim, "freed"} /\ bcmBase' = None /\ x = "out"
          /\ where = "lost" => shim = "freed" /\ shim' = shim /\ bcmBase' = bcmBase
  OBVIOUS
<1>1. /\ \A w \in User \ {u} : user[w] \in {"out", "lost"}
      /\ ref[u] \in Ref /\ (Kept => Taken = {ref[u]})
  BY DEF ShimInv
<1>2. Using = {} /\ IsFiniteSet(Using) /\ shimCnt = Cardinality(Using)
  BY <1>1 DEF ShimInv, Using, Waits
<1>3. /\ user' \in [User -> {"out", "opening", "open", "call", "closing", "lost"}]
      /\ user'[u] = where /\ \A w \in User \ {u} : user'[w] = user[w]
      /\ Using' = IF where = "open" THEN Using \cup {u} ELSE Using \ {u}
  BY <1>0, Moves
<1>4. IsFiniteSet(Using') /\ shimCnt' = Cardinality(Using')
  <2>1. CASE where = "open"
    BY <1>0, <1>2, <1>3, <2>1, Counts
  <2>2. CASE where # "open"
    BY <1>0, <1>2, <1>3, <2>2
  <2>3. QED
    BY <2>1, <2>2
<1>5. pc' \in [Task -> Pc] /\ pc'[ref[u]] = x /\ Taken' = IF x = "out" THEN Taken \ {ref[u]} ELSE Taken \cup {ref[u]}
  <2>1. x \in Pc
    BY DEF Pc
  <2>2. QED
    BY <1>0, <1>1, <2>1, Took DEF ShimInv
<1>6. Rests' /\ (Kept' => where # "lost" /\ Kept)
  BY <1>1, <1>3 DEF Rests, Waits, Kept
<1>7. ref' \in [User -> Ref \cup {None}] /\ None \notin Ref
  BY ShimAssumption DEF ShimInv
<1>8. bcmBase' \in Ref \cup {None} /\ (bcmBase' = None <=> Using' = {})
  BY <1>0, <1>1, <1>2, <1>3, <1>7 DEF ShimInv
<1>9. bcmBase' # None => pc'[bcmBase'] \in {"open", "call"}
  <2>1. bcmBase' # None => where = "open"
    BY <1>0 DEF ShimInv
  <2>2. QED
    BY <1>0, <2>1, <1>5
<1>10. Kept' => Taken' = {bcmBase'} \ {None}
  BY <1>0, <1>1, <1>5, <1>6, <1>7
<1>11. shim' \in {"resident", "freed"} /\ (shim' = "freed" => bcmBase' = None /\ Using' = {})
  BY <1>0, <1>2, <1>3, <1>8 DEF ShimInv
<1>12. QED
  BY <1>0, <1>3, <1>4, <1>5, <1>6, <1>7, <1>8, <1>9, <1>10, <1>11 DEF ShimInv, Rests, Waits

\* A step of a reference that neither takes nor gives it back, between two users' steps.
LEMMA Goes ==
    ASSUME ShimInv, NEW r \in Ref, NEW x \in Pc, pc[r] # "out", x # "out", pc' = [pc EXCEPT ![r] = x],
           UNCHANGED shimVars, r = bcmBase => ~Rests
    PROVE  ShimInv'
<1>1. pc' \in [Task -> Pc] /\ Taken' = Taken /\ \A q \in Ref \ {r} : pc'[q] = pc[q]
  BY Took, ShimAssumption DEF ShimInv, Taken
<1>2. Using' = Using /\ (Rests' <=> Rests) /\ (Kept' <=> Kept)
  BY DEF shimVars, Using, Rests, Waits, Kept
<1>3. QED
  BY <1>1, <1>2 DEF ShimInv, shimVars, Waits

LEMMA ProgressKeeps ==
    ASSUME ShimInv, NEW u \in User, Progresses(u)
    PROVE  ShimInv'
<1>1. Waits(u) => ref[u] \in Ref /\ ref[u] \in Task
  BY ShimAssumption DEF ShimInv
<1>2. CASE user[u] = "opening" /\ (EnterOpen(ref[u]) \/ InitStep(ref[u])) /\ UNCHANGED shimVars
  <2>1. Waits(u) /\ ~Rests
    BY <1>2 DEF Waits, Rests
  <2>2. pc[ref[u]] # "out" /\ \E x \in Pc \ {"out"} : pc' = [pc EXCEPT ![ref[u]] = x]
    BY <1>1, <1>2, <2>1, Refs DEF ShimInv
  <2>3. QED
    BY <1>1, <1>2, <2>1, <2>2, Goes
<1>3. CASE user[u] = "opening" /\ Attach(u)
  <2>1. Waits(u) /\ bcmBase = None
    BY <1>3 DEF Waits, ShimInv
  <2>2. pc[ref[u]] # "out" /\ pc' = [pc EXCEPT ![ref[u]] = "open"]
    BY <1>1, <1>3, <2>1, Refs DEF ShimInv, Attach
  <2>3. shimCnt \in Nat
    BY FS_CardinalityType DEF ShimInv
  <2>4. CASE shim = "resident"
    BY <1>3, <2>1, <2>2, <2>4, Returned DEF Attach
  <2>5. CASE shim # "resident"
    BY <1>3, <2>1, <2>2, <2>3, <2>5, Returned DEF Attach, ShimInv
  <2>6. QED
    BY <2>4, <2>5
<1>4. CASE user[u] = "opening" /\ Refuse(u)
  <2>1. Waits(u) /\ bcmBase = None
    BY <1>4 DEF Waits, ShimInv
  <2>2. pc[ref[u]] # "out" /\ pc' = [pc EXCEPT ![ref[u]] = "out"]
    BY <1>1, <1>4, <2>1, Refs DEF ShimInv, Refuse
  <2>3. shimCnt \in Nat
    BY FS_CardinalityType DEF ShimInv
  <2>4. QED
    BY <1>4, <2>1, <2>2, <2>3, Returned DEF Refuse
<1>5. CASE user[u] = "closing" /\ EnterClose(ref[u]) /\ Detach(u, shimCnt) /\ UNCHANGED shimCnt
  <2>1. Waits(u)
    BY <1>5 DEF Waits
  <2>2. pc[ref[u]] # "out" /\ pc' = [pc EXCEPT ![ref[u]] = "out"]
    BY <1>1, <1>5, <2>1, Refs DEF ShimInv
  <2>3. shimCnt \in Nat
    BY FS_CardinalityType DEF ShimInv
  <2>4. CASE shim = "resident"
    BY <1>5, <2>1, <2>2, <2>3, <2>4, Returned DEF Detach
  <2>5. CASE shim # "resident"
    BY <1>5, <2>1, <2>2, <2>3, <2>5, Returned DEF Detach, ShimInv
  <2>6. QED
    BY <2>4, <2>5
<1>6. CASE ShimReturn(u)
  <2>1. bcmBase \in Ref /\ bcmBase \in Task
    BY <1>6, ShimAssumption DEF ShimReturn, ShimInv
  <2>2. pc[bcmBase] # "out" /\ pc' = [pc EXCEPT ![bcmBase] = "open"] /\ "open" \in Pc
    BY <1>6, <2>1, Refs DEF ShimReturn, ShimInv, Pc
  <2>3. /\ user' \in [User -> {"out", "opening", "open", "call", "closing", "lost"}]
        /\ user'[u] = "open" /\ \A w \in User \ {u} : user'[w] = user[w]
        /\ Using' = Using /\ user[u] = "call"
    BY <1>6, Moves DEF ShimReturn, Using
  <2>4. pc' \in [Task -> Pc] /\ Taken' = Taken /\ pc'[bcmBase] = "open"
    BY <2>1, <2>2, Took DEF ShimInv, Taken
  <2>5. (Rests' <=> Rests) /\ (Kept' <=> Kept)
    BY <2>3 DEF Rests, Waits, Kept
  <2>6. UNCHANGED <<shim, shimCnt, bcmBase, ref>>
    BY <1>6 DEF ShimReturn
  <2>7. \A w \in User : Waits(w)' <=> Waits(w)
    BY <2>3 DEF Waits
  <2>8. \A w \in User : user'[w] = "opening" => user[w] = "opening"
    BY <2>3
  <2>9. QED
    BY <2>3, <2>4, <2>5, <2>6, <2>7, <2>8 DEF ShimInv, Waits
<1>7. QED
  BY <1>2, <1>3, <1>4, <1>5, <1>6 DEF Progresses

LEMMA CallKeeps ==
    ASSUME ShimInv, NEW u \in User, ShimCall(u)
    PROVE  ShimInv'
<1>1. bcmBase \in Ref /\ bcmBase \in Task
  BY ShimAssumption DEF ShimCall, ShimInv
<1>2. pc[bcmBase] # "out" /\ pc' = [pc EXCEPT ![bcmBase] = "call"] /\ "call" \in Pc
  BY <1>1, Refs DEF ShimCall, ShimInv, Pc
<1>3. /\ user' \in [User -> {"out", "opening", "open", "call", "closing", "lost"}]
      /\ user'[u] = "call" /\ \A w \in User \ {u} : user'[w] = user[w]
      /\ Using' = Using /\ user[u] = "open"
  BY Moves DEF ShimCall, Using
<1>4. pc' \in [Task -> Pc] /\ Taken' = Taken /\ pc'[bcmBase] = "call"
  BY <1>1, <1>2, Took DEF ShimInv, Taken
<1>5. (Rests' <=> Rests) /\ (Kept' <=> Kept)
  BY <1>3 DEF Rests, Waits, Kept
<1>6. UNCHANGED <<shim, shimCnt, bcmBase, ref>>
  BY DEF ShimCall
<1>7. \A w \in User : Waits(w)' <=> Waits(w)
  BY <1>3 DEF Waits
<1>8. \A w \in User : user'[w] = "opening" => user[w] = "opening"
  BY <1>3
<1>9. QED
  BY <1>3, <1>4, <1>5, <1>6, <1>7, <1>8 DEF ShimInv, Waits

LEMMA CloseKeepsShim ==
    ASSUME ~Overlap, ShimInv, NEW u \in User, ShimClose(u)
    PROVE  /\ ShimInv'
           /\ UNCHANGED vars \/ \E r \in Ref : CloseLibrary(r)
<1>1. Rests /\ u \in Using /\ user[u] = "open"
  BY DEF ShimClose, MayEnter, Rests, Using
<1>2. IsFiniteSet(Using) /\ shimCnt = Cardinality(Using) /\ shimCnt \in Nat
  BY FS_CardinalityType DEF ShimInv
<1>3. bcmBase \in Ref /\ bcmBase \in Task /\ pc[bcmBase] \in {"open", "call"} /\ (Kept => Taken = {bcmBase})
  BY <1>1, ShimAssumption DEF ShimInv
<1>4. shimCnt' = shimCnt - 1
  BY DEF ShimClose
<1>5. shim = "resident"
  BY <1>1 DEF ShimInv
<1>6. CASE ~LastUser /\ At(u, "out") /\ UNCHANGED <<vars, shim, shimDelexp, bcmBase, ref>>
  <2>1. /\ user' \in [User -> {"out", "opening", "open", "call", "closing", "lost"}]
        /\ user'[u] = "out" /\ \A w \in User \ {u} : user'[w] = user[w]
        /\ Using' = Using \ {u}
    BY <1>6, Moves
  <2>2. IsFiniteSet(Using') /\ shimCnt' = Cardinality(Using')
    BY <1>1, <1>2, <1>4, <2>1, Counts
  <2>3. Using' # {}
    BY <1>2, <1>4, <1>6, <2>2, FS_EmptySet DEF LastUser
  <2>4. Rests' /\ (Kept' => Kept) /\ Taken' = Taken
    BY <1>1, <1>6, <2>1 DEF Rests, Waits, Kept, Taken, vars
  <2>5. QED
    BY <1>1, <1>3, <1>5, <1>6, <2>1, <2>2, <2>3, <2>4, ShimAssumption DEF ShimInv, Rests, Waits, vars
<1>7. CASE LastUser /\ Releases(u)
  <2>1. pc[bcmBase] = "open" /\ CloseLibrary(bcmBase)
    BY <1>3, <1>7, ShimAssumption DEF Releases
  <2>2. Using = {u}
    BY <1>1, <1>2, <1>7, Counts DEF LastUser
  <2>3. \A w \in User \ {u} : user[w] \in {"out", "lost"}
    BY <1>1, <2>2 DEF ShimInv, Using, Rests, Waits
  <2>4. pc' = [pc EXCEPT ![bcmBase] = IF sem = <<>> THEN "out" ELSE "leave"]
    BY <1>3, <2>1, Refs DEF ShimInv
  <2>5. /\ pc' \in [Task -> Pc]
        /\ Taken' = IF sem = <<>> THEN Taken \ {bcmBase} ELSE Taken \cup {bcmBase}
    <3>1. CASE sem = <<>>
      BY <1>3, <2>4, <3>1, Took DEF ShimInv, Pc
    <3>2. CASE sem # <<>>
      BY <1>3, <2>4, <3>2, Took DEF ShimInv, Pc
    <3>3. QED
      BY <3>1, <3>2
  <2>6. IF sem = <<>> THEN Detach(u, 0)
        ELSE /\ At(u, "closing") /\ ref' = [ref EXCEPT ![u] = bcmBase]
             /\ UNCHANGED <<shim, shimDelexp, bcmBase>>
    BY <1>3, <1>7, <2>1, ShimAssumption DEF Releases
  <2>7. shimCnt' = 0
    BY <1>4, <1>7 DEF LastUser
  <2>8. CASE sem = <<>>
    <3>1. /\ At(u, "out") /\ bcmBase' = None /\ shim' \in {"resident", "freed"}
          /\ ref' = [ref EXCEPT ![u] = None]
      BY <1>5, <2>6, <2>8 DEF Detach
    <3>2. /\ user' \in [User -> {"out", "opening", "open", "call", "closing", "lost"}]
          /\ user'[u] = "out" /\ \A w \in User \ {u} : user'[w] = user[w]
          /\ Using' = {}
      BY <2>2, <3>1, Moves
    <3>3. Rests' /\ (Kept' => Kept)
      BY <1>1, <2>3, <3>2 DEF Rests, Waits, Kept
    <3>4. IsFiniteSet(Using') /\ shimCnt' = Cardinality(Using')
      BY <2>7, <3>2, FS_EmptySet
    <3>5. Kept' => Taken' = {}
      BY <1>3, <2>5, <2>8, <3>3
    <3>6. ref' \in [User -> Ref \cup {None}]
      BY <3>1 DEF ShimInv
    <3>7. \A w \in User : user'[w] \in {"out", "lost"}
      BY <2>3, <3>2
    <3>8. bcmBase' = None /\ pc' \in [Task -> Pc] /\ {None} \ {None} = {}
      BY <2>5, <3>1
    <3>9. \A w \in User : ~Waits(w)' /\ user'[w] # "opening"
      BY <3>7 DEF Waits
    <3>10. Kept' => Taken' = {bcmBase'} \ {None}
      BY <3>5, <3>8
    <3>11. QED
      BY <1>3, <2>1, <3>1, <3>2, <3>3, <3>4, <3>6, <3>8, <3>9, <3>10 DEF ShimInv
  <2>9. CASE sem # <<>>
    <3>1. At(u, "closing") /\ ref' = [ref EXCEPT ![u] = bcmBase] /\ UNCHANGED <<shim, bcmBase>>
      BY <2>6, <2>9
    <3>2. /\ user' \in [User -> {"out", "opening", "open", "call", "closing", "lost"}]
          /\ user'[u] = "closing" /\ \A w \in User \ {u} : user'[w] = user[w]
          /\ Using' = {}
      BY <2>2, <3>1, Moves
    <3>3. ~Rests' /\ (Kept' => Kept) /\ \A w \in User : Waits(w)' => w = u
      BY <1>1, <2>3, <3>2 DEF Rests, Waits, Kept
    <3>4. IsFiniteSet(Using') /\ shimCnt' = Cardinality(Using')
      BY <2>7, <3>2, FS_EmptySet
    <3>5. Kept' => Taken' = {bcmBase}
      BY <1>3, <2>5, <2>9, <3>3
    <3>6. ref' \in [User -> Ref \cup {None}] /\ ref'[u] = bcmBase
      BY <1>3, <3>1 DEF ShimInv
    <3>7. \A w \in User \ {u} : user'[w] \in {"out", "lost"}
      BY <2>3, <3>2
    <3>8. QED
      BY <1>3, <1>5, <2>1, <2>5, <3>1, <3>2, <3>3, <3>4, <3>5, <3>6, <3>7 DEF ShimInv, Rests, Waits
  <2>10. QED
    BY <1>3, <2>1, <2>8, <2>9
<1>8. QED
  BY <1>6, <1>7 DEF ShimClose

LEMMA ShimExpungeKeeps ==
    ASSUME ShimInv, ShimExpunge
    PROVE  ShimInv'
<1>1. UNCHANGED <<pc, shimCnt, user, ref>>
  BY DEF ShimExpunge, vars
<1>2. Using' = Using /\ Taken' = Taken /\ (Rests' <=> Rests) /\ (Kept' <=> Kept)
  BY <1>1 DEF Using, Taken, Rests, Waits, Kept
<1>3. \A w \in User : Waits(w)' <=> Waits(w)
  BY <1>1 DEF Waits
<1>4. CASE shimCnt > 0
  BY <1>1, <1>2, <1>3, <1>4 DEF ShimInv, ShimExpunge, ShimInUse
<1>5. CASE ~(shimCnt > 0)
  <2>1. Using = {}
    BY <1>5, FS_EmptySet, FS_CardinalityType DEF ShimInv
  <2>2. shim' = "freed" /\ bcmBase' = None
    BY <1>5 DEF ShimExpunge, ShimInUse
  <2>3. Rests => bcmBase = None
    BY <2>1 DEF ShimInv
  <2>4. QED
    BY <1>1, <1>2, <1>3, <2>1, <2>2, <2>3 DEF ShimInv
<1>6. QED
  BY <1>4, <1>5

LEMMA DirectKeeps ==
    ASSUME ShimInv, Direct
    PROVE  ShimInv'
<1>1. UNCHANGED shimVars
  BY DEF Direct
<1>2. pc' \in [Task -> Pc] /\ \A r \in Ref : pc'[r] = pc[r]
  <2>1. CASE Expunge
    BY <2>1 DEF Expunge, ShimInv
  <2>2. ASSUME NEW t \in Task \ Ref, OpenLibrary(t) \/ Call(t) \/ Step(t)
        PROVE  \E x \in Pc : pc' = [pc EXCEPT ![t] = x]
    <3>1. {"open", "call", "out", "leave"} \subseteq Pc /\ pc \in [Task -> Pc]
      BY DEF Pc, ShimInv
    <3>2. QED
      BY <2>2, <3>1, Refs DEF Step
  <2>3. QED
    BY <2>1, <2>2, ShimAssumption DEF Direct, ShimInv
<1>3. Using' = Using /\ Taken' = Taken /\ (Rests' <=> Rests) /\ (Kept' <=> Kept)
  BY <1>1, <1>2 DEF shimVars, Using, Taken, Rests, Waits, Kept
<1>4. \A w \in User : Waits(w)' <=> Waits(w)
  BY <1>1 DEF Waits, shimVars
<1>5. QED
  BY <1>1, <1>2, <1>3, <1>4 DEF ShimInv, shimVars

-----------------------------------------------------------------------------
(* The shim on top of the library.                                         *)

\* What the shim does to bcmpcie.library is what any client may do.
LEMMA ShimStep ==
    ASSUME ~Overlap, ShimInv, [ShimNext]_<<vars, shimVars>>
    PROVE  ShimInv' /\ [Next]_vars
<1>1. ASSUME NEW u \in User, ShimOpen(u) PROVE ShimInv' /\ [Next]_vars
  BY <1>1, OpenKeeps, ShimAssumption DEF ShimOpen, Next
<1>2. ASSUME NEW u \in User, ShimClose(u) PROVE ShimInv' /\ [Next]_vars
  BY <1>2, CloseKeepsShim, ShimAssumption DEF Next, Step
<1>3. ASSUME NEW u \in User, ShimCall(u) PROVE ShimInv' /\ [Next]_vars
  BY <1>3, CallKeeps, ShimAssumption DEF ShimCall, ShimInv, Next
<1>4. ASSUME NEW u \in User, Progresses(u) PROVE ShimInv' /\ [Next]_vars
  <2>1. Waits(u) => ref[u] \in Task
    BY ShimAssumption DEF ShimInv
  <2>2. bcmBase # None => bcmBase \in Task
    BY ShimAssumption DEF ShimInv
  <2>3. QED
    BY <1>4, <2>1, <2>2, ProgressKeeps DEF Progresses, Waits, Attach, Refuse, ShimReturn, Next, Step
<1>5. CASE ShimExpunge
  BY <1>5, ShimExpungeKeeps DEF ShimExpunge
<1>6. CASE Direct
  BY <1>6, DirectKeeps DEF Direct, Next
<1>7. CASE UNCHANGED <<vars, shimVars>>
  <2>1. Using' = Using /\ Taken' = Taken /\ (Rests' <=> Rests) /\ (Kept' <=> Kept)
    BY <1>7 DEF vars, shimVars, Using, Taken, Rests, Waits, Kept
  <2>2. \A w \in User : Waits(w)' <=> Waits(w)
    BY <1>7 DEF Waits, shimVars
  <2>3. QED
    BY <1>7, <2>1, <2>2 DEF ShimInv, vars, shimVars
<1>8. QED
  BY <1>1, <1>2, <1>3, <1>4, <1>5, <1>6, <1>7 DEF ShimNext

LEMMA ShimAlways == ASSUME ~Overlap PROVE ShimSpec => [](ShimInv /\ LibInv)
<1>1. ShimInit => ShimInv /\ LibInv
  BY ShimInitial, LibInit DEF ShimInit
<1>2. ShimInv /\ LibInv /\ [ShimNext]_<<vars, shimVars>> => ShimInv' /\ LibInv'
  BY ShimStep, LibStep
<1>3. QED
  BY <1>1, <1>2, PTL DEF ShimSpec

\* openpci_main.c: without an overlap, the count is that of the users and the shim holds
\* one reference to bcmpcie.library exactly while there are any: none leaks.
LEMMA ReferenceCounted == ASSUME ~Overlap PROVE ShimSpec => []OneReference
<1>1. ShimInv => OneReference
  <2> SUFFICES ASSUME ShimInv, \A u \in User : user[u] \in {"out", "open", "call"}
               PROVE  /\ shimCnt = Cardinality({u \in User : user[u] # "out"})
                      /\ bcmBase = None <=> shimCnt = 0
                      /\ {r \in Ref : pc[r] # "out"} = {bcmBase} \ {None}
    BY DEF OneReference
  <2>1. Using = {u \in User : user[u] # "out"}
    BY DEF Using
  <2>2. Rests /\ Kept
    BY DEF Rests, Waits, Kept
  <2>3. shimCnt = 0 <=> Using = {}
    BY FS_EmptySet DEF ShimInv
  <2>4. QED
    BY <2>1, <2>2, <2>3 DEF ShimInv, Taken
<1>2. QED
  BY <1>1, ShimAlways, PTL

\* openpci_trampolines.S: without an overlap, whoever has openpci.library open calls into
\* an open bcmpcie.library, whatever other clients and expunges do to either base.
LEMMA CallsServed == ASSUME ~Overlap PROVE ShimSpec => []ShimServed
<1>1. ShimInv /\ LibInv => ShimServed
  <2> SUFFICES ASSUME ShimInv, LibInv, NEW u \in User, user[u] \in {"open", "call"}
               PROVE  shim = "resident" /\ bcmBase \in Clients /\ base = "resident"
    BY DEF ShimServed
  <2>1. u \in Using
    BY DEF Using
  <2>2. Rests
    BY DEF ShimInv, Rests, Waits
  <2>3. bcmBase \in Task /\ pc[bcmBase] \in {"open", "call"} /\ shim = "resident"
    BY <2>1, <2>2, ShimAssumption DEF ShimInv
  <2>4. bcmBase \in Clients
    BY <2>3 DEF Clients
  <2>5. QED
    BY <2>3, <2>4 DEF LibInv
<1>2. QED
  BY <1>1, ShimAlways, PTL

-----------------------------------------------------------------------------
(* The shim whose opens and closes overlap.                                *)

Place == {"out", "opening", "open", "call", "closing", "lost"}

CountInv ==
    /\ user \in [User -> Place]
    /\ IsFiniteSet(Using) /\ shimCnt = Cardinality(Using)
    /\ Using # {} => shim = "resident"

LEMMA Moved ==
    ASSUME CountInv, NEW u \in User, NEW where \in Place, At(u, where)
    PROVE  /\ user' \in [User -> Place]
           /\ Using' = IF where \in {"open", "call"} THEN Using \cup {u} ELSE Using \ {u}
BY DEF CountInv, At, Using, Place

\* Nobody begins or stops using the shim.
LEMMA CountStays ==
    ASSUME CountInv, user' \in [User -> Place], Using' = Using, shimCnt' = shimCnt,
           Using # {} => shim' = "resident"
    PROVE  CountInv'
BY DEF CountInv

LEMMA CountOpen ==
    ASSUME CountInv, NEW u \in User, ShimOpen(u)
    PROVE  CountInv'
<1>1. u \notin Using /\ shim' = "resident"
  BY DEF ShimOpen, Using
<1>2. CASE At(u, "opening") /\ shimCnt' = shimCnt
  BY <1>1, <1>2, Moved, CountStays DEF Place
<1>3. CASE At(u, "open") /\ shimCnt' = shimCnt + 1
  BY <1>1, <1>3, Moved, Counts DEF CountInv, Place
<1>4. QED
  BY <1>2, <1>3 DEF ShimOpen

LEMMA CountClose ==
    ASSUME CountInv, NEW u \in User, ShimClose(u)
    PROVE  CountInv'
<1>1. u \in Using /\ shimCnt' = shimCnt - 1
  BY DEF ShimClose, Using
<1>2. /\ IsFiniteSet(Using \ {u}) /\ Cardinality(Using \ {u}) = shimCnt'
      /\ LastUser => Using \ {u} = {}
  BY <1>1, Counts DEF CountInv, LastUser
<1>3. CASE LastUser /\ \E where \in {"out", "closing", "lost"} : At(u, where)
  <2>1. user' \in [User -> Place] /\ Using' = Using \ {u}
    BY <1>3, Moved DEF Place
  <2>2. QED
    BY <1>2, <1>3, <2>1 DEF CountInv
<1>4. CASE At(u, "out") /\ shim' = shim
  <2>1. user' \in [User -> Place] /\ Using' = Using \ {u}
    BY <1>4, Moved DEF Place
  <2>2. QED
    BY <1>2, <1>4, <2>1 DEF CountInv
<1>5. QED
  BY <1>3, <1>4 DEF ShimClose, Releases, Detach

LEMMA CountProgress ==
    ASSUME CountInv, NEW u \in User, Progresses(u)
    PROVE  CountInv'
<1>1. CASE UNCHANGED shimVars
  BY <1>1 DEF shimVars, CountInv, Using
<1>2. CASE user[u] = "opening" /\ Attach(u)
  <2>1. u \notin Using
    BY <1>2 DEF Using
  <2>2. CASE shim = "resident" /\ shimCnt' = shimCnt + 1 /\ At(u, "open") /\ shim' = shim
    BY <2>1, <2>2, Moved, Counts DEF CountInv, Place
  <2>3. CASE At(u, "lost") /\ UNCHANGED <<shimCnt, shim>>
    <3>1. user' \in [User -> Place] /\ Using' = Using
      BY <2>1, <2>3, Moved DEF Place
    <3>2. QED
      BY <2>3, <3>1, CountStays DEF CountInv
  <2>4. QED
    BY <1>2, <2>2, <2>3 DEF Attach
<1>3. CASE user[u] = "opening" /\ Refuse(u)
  <2>1. user' \in [User -> Place] /\ Using' = Using
    BY <1>3, Moved DEF Place, Refuse, Using
  <2>2. QED
    BY <1>3, <2>1, CountStays DEF Refuse, CountInv
<1>4. CASE user[u] = "closing" /\ Detach(u, shimCnt) /\ UNCHANGED shimCnt
  <2>1. user' \in [User -> Place] /\ Using' = Using
    <3>1. u \notin Using
      BY <1>4 DEF Using
    <3>2. QED
      BY <1>4, <3>1, Moved DEF Place, Detach
  <2>2. shim' = IF shim = "resident" /\ shimDelexp /\ shimCnt = 0 THEN "freed" ELSE shim
    BY <1>4 DEF Detach
  <2>3. shimCnt = 0 => Using = {}
    BY FS_EmptySet DEF CountInv
  <2>4. QED
    BY <1>4, <2>1, <2>2, <2>3, CountStays DEF CountInv
<1>5. CASE ShimReturn(u)
  <2>1. user' \in [User -> Place] /\ Using' = Using
    BY <1>5, Moved DEF Place, ShimReturn, Using
  <2>2. QED
    BY <1>5, <2>1, CountStays DEF ShimReturn, CountInv
<1>6. QED
  BY <1>1, <1>2, <1>3, <1>4, <1>5 DEF Progresses

LEMMA CountStep == CountInv /\ [ShimNext]_<<vars, shimVars>> => CountInv'
<1> SUFFICES ASSUME CountInv, [ShimNext]_<<vars, shimVars>> PROVE CountInv'
  OBVIOUS
<1>1. ASSUME NEW u \in User, ShimCall(u) PROVE CountInv'
  <2>1. user' \in [User -> Place] /\ Using' = Using
    BY <1>1, Moved DEF Place, ShimCall, Using
  <2>2. QED
    BY <1>1, <2>1, CountStays DEF ShimCall, CountInv
<1>2. CASE ShimExpunge
  <2>1. UNCHANGED <<user, shimCnt>>
    BY <1>2 DEF ShimExpunge
  <2>2. ~ShimInUse => Using = {}
    BY FS_EmptySet, FS_CardinalityType DEF CountInv, ShimInUse
  <2>3. QED
    BY <1>2, <2>1, <2>2 DEF ShimExpunge, CountInv, Using
<1>3. CASE Direct \/ UNCHANGED <<vars, shimVars>>
  BY <1>3 DEF Direct, shimVars, CountInv, Using
<1>4. QED
  BY <1>1, <1>2, <1>3, CountOpen, CountClose, CountProgress DEF ShimNext

\* openpci_main.c:118-147: however opens, closes and expunges of the shim overlap, its
\* count is that of the tasks that have it open, and it stays in memory for them.
THEOREM UsersCounted == ShimSpec => []ShimCounted
<1>1. ShimInit => CountInv
  <2> SUFFICES ASSUME ShimInit PROVE CountInv
    OBVIOUS
  <2>1. Using = {}
    BY DEF ShimInit, Using
  <2>2. QED
    BY <2>1, FS_EmptySet DEF ShimInit, CountInv, Place
<1>2. CountInv => ShimCounted
  BY DEF CountInv, ShimCounted, Using
<1>3. QED
  BY <1>1, <1>2, CountStep, PTL DEF ShimSpec
=============================================================================
