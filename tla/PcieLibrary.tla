---------------------------- MODULE PcieLibrary ----------------------------
(***************************************************************************)
(* Opening, closing and expunging bcmpcie.library (pcie_main.c) and what a *)
(* first open brings up and a last close takes down (pcie_brcmstb.c).      *)
(* exec calls these vectors under Forbid; a task that waits - for the      *)
(* semaphore, or for gic400.library to load - lets the others run, and     *)
(* memory that runs short makes exec expunge libraries from AllocMem.      *)
(***************************************************************************)
EXTENDS Naturals, Sequences

CONSTANTS Task,         \* the tasks that open the library, once at a time each
          MaxOpens      \* bound: calls of OpenLibrary

ASSUME LibraryAssumption == MaxOpens \in Nat

VARIABLES
    base,       \* the library base: "resident" or "freed"
    openCnt,    \* lib_OpenCnt
    delexp,     \* LIBF_DELEXP
    ready,      \* ctrlReady
    sem,        \* the semaphore: its owner, then the tasks waiting for it
    held,       \* held[r]: how many of resource r are allocated
    pc,         \* pc[t]: where task t is
    opens       \* calls of OpenLibrary so far

vars == <<base, openCnt, delexp, ready, sem, held, pc, opens>>

\* What an open acquires: memory, gic400.library, the demux server on the GIC.
\* "devices" stands for the pci_device and child pci_bus nodes of one enumeration.
Resource == {"ctrl", "regions", "gic400", "demux", "rootbus", "devices", "devlist", "pool"}

\* The steps of pcie_hw_init, each with the one that follows it.
After == [ctrl |-> "regions", regions |-> "link", link |-> "gic400", gic400 |-> "demux",
          demux |-> "rootbus", rootbus |-> "devices", devices |-> "devlist",
          devlist |-> "pool", pool |-> "count"]
Steps == DOMAIN After

\* What brcm_pcie_remove gives back, and what each error path of pcie_hw_init does.
Removed == {"demux", "gic400", "regions"}

\* Mutant of Unwind: brcm_pcie_probe leaves gic400.library open.
UnwindKeepsGic(s) ==
    CASE s = "ctrl" -> {}
      [] s \in {"regions", "link", "gic400", "demux"} -> {"ctrl"}
      [] OTHER -> Removed \cup {"ctrl"}
                  \cup {r \in {"rootbus"} : s # "rootbus"} \cup {r \in {"devlist"} : s = "pool"}

Unwind(s) ==
    CASE s = "ctrl" -> {}
      [] s \in {"regions", "link", "gic400"} -> {"ctrl"}
      [] s = "demux" -> {"ctrl", "gic400"}
      [] s = "rootbus" -> {"ctrl"} \cup Removed
      [] s \in {"devices", "devlist"} -> {"ctrl", "rootbus"} \cup Removed
      [] s = "pool" -> {"ctrl", "rootbus", "devlist"} \cup Removed

\* What pcie_hw_shutdown gives back.
Shutdown == {"devlist", "rootbus", "ctrl", "pool"} \cup Removed

Take(S) == [r \in Resource |-> IF r \in S THEN held[r] + 1 ELSE held[r]]
Give(S) == [r \in Resource |-> IF r \in S THEN held[r] - 1 ELSE held[r]]

Init ==
    /\ base = "resident" /\ openCnt = 0 /\ delexp = FALSE /\ ready = FALSE
    /\ sem = <<>>
    /\ held = [r \in Resource |-> 0]
    /\ pc = [t \in Task |-> "out"]
    /\ opens = 0

-----------------------------------------------------------------------------
Inside  == {t \in Task : pc[t] # "out"}
Running == base = "resident"
Owner(t) == sem # <<>> /\ Head(sem) = t

\* Where a task is not under Forbid, or waits: the others can run.
Switched == {"out", "enter", "gic400", "open", "call", "leave"}
CpuFree  == \A t \in Task : pc[t] \in Switched
Allocating == {"ctrl", "regions", "rootbus", "devices", "devlist", "pool"}

\* LibOpen, once it has the semaphore.
Opened == IF ready THEN "count" ELSE "ctrl"

\* exec loads the library if it is gone, then calls LibOpen.
OpenLibrary(t) ==
    /\ pc[t] = "out" /\ CpuFree /\ opens < MaxOpens
    /\ base = "freed" => Inside = {}
    /\ base' = "resident"
    /\ opens' = opens + 1
    /\ sem' = Append(sem, t)
    /\ pc' = [pc EXCEPT ![t] = IF sem = <<>> THEN Opened ELSE "enter"]
    /\ UNCHANGED <<openCnt, delexp, ready, held>>

\* A waiting LibOpen is given the semaphore.
EnterOpen(t) ==
    /\ Running /\ pc[t] = "enter" /\ Owner(t) /\ CpuFree
    /\ pc' = [pc EXCEPT ![t] = Opened]
    /\ UNCHANGED <<base, openCnt, delexp, ready, sem, held, opens>>

\* A step of pcie_hw_init succeeds.  ctrlReady is set before the pool is made.
InitStep(t) ==
    /\ Running /\ pc[t] \in Steps /\ (pc[t] = "gic400" => CpuFree)
    /\ pc' = [pc EXCEPT ![t] = After[pc[t]]]
    /\ held' = Take({pc[t]} \cap Resource)
    /\ ready' = (After[pc[t]] \in {"pool", "count"})
    /\ UNCHANGED <<base, openCnt, delexp, sem, opens>>

\* Mutant of InitFails: the error return of LibOpen without ReleaseSemaphore.
InitFailsHolding(t) ==
    /\ Running /\ pc[t] \in Steps /\ (pc[t] = "gic400" => CpuFree)
    /\ held' = Give(Unwind(pc[t]))
    /\ ready' = FALSE
    /\ pc' = [pc EXCEPT ![t] = "out"]
    /\ UNCHANGED <<base, openCnt, delexp, sem, opens>>

\* It fails, LibOpen returns NULL.  An enumeration that fails may have made nodes.
InitFails(t) ==
    /\ Running /\ pc[t] \in Steps /\ (pc[t] = "gic400" => CpuFree)
    /\ \E made \in SUBSET ({pc[t]} \cap {"devices"}) :
          held' = [r \in Resource |-> Give(Unwind(pc[t]))[r] + IF r \in made THEN 1 ELSE 0]
    /\ ready' = FALSE
    /\ sem' = Tail(sem)
    /\ pc' = [pc EXCEPT ![t] = "out"]
    /\ UNCHANGED <<base, openCnt, delexp, opens>>

\* The end of LibOpen.
Count(t) ==
    /\ Running /\ pc[t] = "count"
    /\ openCnt' = openCnt + 1
    /\ delexp' = FALSE
    /\ sem' = Tail(sem)
    /\ pc' = [pc EXCEPT ![t] = "open"]
    /\ UNCHANGED <<base, ready, held, opens>>

\* A client's call that takes the semaphore, outside Forbid, and its return.
Call(t) ==
    /\ Running /\ pc[t] = "open" /\ CpuFree
    /\ sem' = Append(sem, t)
    /\ pc' = [pc EXCEPT ![t] = "call"]
    /\ UNCHANGED <<base, openCnt, delexp, ready, held, opens>>

Return(t) ==
    /\ Running /\ pc[t] = "call" /\ Owner(t) /\ CpuFree
    /\ sem' = Tail(sem)
    /\ pc' = [pc EXCEPT ![t] = "open"]
    /\ UNCHANGED <<base, openCnt, delexp, ready, held, opens>>

\* Mutants of Last: LibClose that shuts down before, or never at, the last close.
LastEarly == openCnt <= 2
LastNever == FALSE

\* The close that finds no other open.
Last == openCnt = 1

\* LibClose once it has the semaphore: the last close shuts down, and expunges a
\* library that was asked to go, whoever waits for its semaphore.
Closed(t, rest) ==
    /\ openCnt' = openCnt - 1
    /\ held' = IF Last THEN Give(Shutdown) ELSE held
    /\ ready' = (ready /\ ~Last)
    /\ sem' = rest
    /\ base' = IF openCnt' = 0 /\ delexp THEN "freed" ELSE base
    /\ delexp' = (delexp /\ base' = "resident")
    /\ pc' = [pc EXCEPT ![t] = "out"]
    /\ UNCHANGED opens

CloseLibrary(t) ==
    /\ Running /\ pc[t] = "open" /\ CpuFree
    /\ \/ sem = <<>> /\ Closed(t, <<>>)
       \/ /\ sem # <<>>
          /\ sem' = Append(sem, t)
          /\ pc' = [pc EXCEPT ![t] = "leave"]
          /\ UNCHANGED <<base, openCnt, delexp, ready, held, opens>>

EnterClose(t) ==
    /\ Running /\ pc[t] = "leave" /\ Owner(t) /\ CpuFree
    /\ Closed(t, Tail(sem))

\* Mutant of Idle: LibExpunge that does not look at the open count.
IdleAlways == TRUE

\* No open has been counted.
Idle == openCnt = 0

\* exec expunges: from a task that runs, or from an AllocMem of LibOpen's own.
Expunge ==
    /\ Running /\ \A t \in Task : pc[t] \in Switched \cup Allocating
    /\ IF Idle THEN base' = "freed" /\ delexp' = FALSE
               ELSE delexp' = TRUE /\ UNCHANGED base
    /\ UNCHANGED <<openCnt, ready, sem, held, pc, opens>>

Step(t) == \/ EnterOpen(t) \/ InitStep(t) \/ InitFails(t) \/ Count(t)
           \/ Return(t) \/ CloseLibrary(t) \/ EnterClose(t)
Next == \/ \E t \in Task : OpenLibrary(t) \/ Call(t) \/ Step(t)
        \/ Expunge

Spec == Init /\ [][Next]_vars

-----------------------------------------------------------------------------
(* Properties.                                                             *)

\* Types of all variables.
Pc == {"out", "enter", "count", "open", "call", "leave"} \cup Steps
TypeOK ==
    /\ base \in {"resident", "freed"}
    /\ openCnt \in Nat /\ opens \in 0..MaxOpens
    /\ delexp \in BOOLEAN /\ ready \in BOOLEAN
    /\ sem \in Seq(Task)
    /\ held \in [Resource -> Nat]
    /\ pc \in [Task -> Pc]

Clients == {t \in Task : pc[t] \in {"open", "call", "leave"}}

\* pcie_main.c: the bus is up, with all it consists of, for whoever has the library
\* open, whatever other tasks open, close or fail to open in between.
UpForClients == Clients # {} => ready /\ \A r \in Resource : held[r] >= 1

\* pcie_hw_init and pcie_hw_shutdown: there is never a second controller, demux
\* server or gic400 reference, and when nobody is opening or closing there is one of
\* each or, with the bus down, none.
Exclusive == Resource \ {"regions", "devices"}
OneBusOrNone ==
    \A r \in Exclusive : /\ held[r] <= 1
                         /\ sem = <<>> => held[r] = IF ready THEN 1 ELSE 0

\* LibExpunge: a library that a client has open stays.
OpenKeepsBase == Clients # {} => base = "resident"

\* developer-guide.md: "multiple drivers can call OpenLibrary() concurrently": the
\* base is there for the one that waits while another brings the bus up or closes.
WaiterKeepsBase == \A t \in Task : pc[t] = "enter" => base = "resident"

\* The bus is shared and counted as SharedBus says.  ctrlReady counts as up once the
\* open that set it has counted itself.
BusUp == ready /\ ~\E t \in Task : pc[t] \in {"pool", "count"} /\ openCnt = 0
Bus == INSTANCE SharedBus WITH users <- Clients, up <- BusUp
ImplementsSharedBus == Bus!Spec

\* The library's own steps go on, and the semaphore is passed on in order.
Fair == \A t \in Task : WF_vars(EnterOpen(t) \/ InitStep(t) \/ InitFails(t) \/ Count(t)
                                \/ Return(t) \/ EnterClose(t))
FairSpec == Spec /\ Fair

\* Every OpenLibrary and CloseLibrary returns, as long as the base is not freed.
Returns == \A t \in Task :
    pc[t] \in {"enter", "leave", "call"} \cup Steps
        ~> pc[t] \in {"out", "open"} \/ base = "freed"
=============================================================================
