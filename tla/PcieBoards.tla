----------------------------- MODULE PcieBoards -----------------------------
(***************************************************************************)
(* pcie_find.c and pcie_board.c: once the library is up, programs search    *)
(* the device list, ask for the attributes of a board and reserve it.  The  *)
(* list does not change while it is there, so searches and attributes are   *)
(* operators; reservations are actions of the programs, each one call under *)
(* the library's semaphore.                                                 *)
(***************************************************************************)
EXTENDS PcieHwInit

CONSTANTS Nobody,       \* a NULL owner
          MaxReserved   \* bound: programs obtain the first boards of the list only

ASSUME BoardsAssumption == MaxReserved \in Nat /\ \A b \in Boards : Nobody \notin b.programs

VARIABLES
    owner,    \* owner[f]: the owner of the pci_dev, for the functions of the device list
    held,     \* [fn, by]: the reservations a program was given and has not given back
    robbed    \* those of them whose owner another program has cleared

boardVars == <<hwVars, owner, held, robbed>>

NoDev    == Root      \* a NULL pci_dev
Listable == ToSet(devList)

BoardsInit == HwInit /\ owner = <<>> /\ held = {} /\ robbed = {}

\* pcie_make_pdev: every function of the list gets a cleared pci_dev.
MakeDevs == BuildDevList /\ owner' = [f \in ToSet(devList') |-> Nobody] /\ UNCHANGED <<held, robbed>>

\* LibObtainCard, or LibSetBoardAttrsA with PRM_BoardOwner: a board that has an owner
\* already, even the caller itself, is refused and nothing changes.
ObtainCard(t, f) ==
    /\ stage = "ready" /\ owner[f] = Nobody
    /\ \E i \in DOMAIN devList : i <= MaxReserved /\ devList[i] = f
    /\ owner' = [owner EXCEPT ![f] = t]
    /\ held' = held \cup {[fn |-> f, by |-> t]} /\ robbed' = robbed \ {[fn |-> f, by |-> t]}
    /\ UNCHANGED hwVars

\* Mutant of Released: whoever calls it, the board is free.
ReleasedAny(t, f) == [owner EXCEPT ![f] = Nobody]

\* The owners after t has released f: a no-op for everybody but the owner.
Released(t, f) == IF owner[f] = t THEN [owner EXCEPT ![f] = Nobody] ELSE owner

\* LibReleaseCard, which a program may call without a reservation.
ReleaseCard(t, f) ==
    /\ stage = "ready" /\ owner' = Released(t, f)
    /\ held' = held \ {[fn |-> f, by |-> t]} /\ robbed' = robbed \ {[fn |-> f, by |-> t]}
    /\ UNCHANGED hwVars

\* LibSetBoardAttrsA with a PRM_BoardOwner of 0 clears the owner, whoever calls it: in an
\* error path also a program that was refused the board.
ClearOwner(t, f) ==
    LET own == [fn |-> f, by |-> t] IN
    /\ stage = "ready" /\ owner' = [owner EXCEPT ![f] = Nobody]
    /\ held' = held \ {own} /\ robbed' = (robbed \cup {h \in held : h.fn = f}) \ {own}
    /\ UNCHANGED hwVars

Reserve == \E t \in board.programs, f \in Listable :
               ObtainCard(t, f) \/ ReleaseCard(t, f) \/ ClearOwner(t, f)

\* Programs give their boards back before they close the library.
CloseDown == Shutdown /\ held = {} /\ owner' = <<>> /\ UNCHANGED <<held, robbed>>

GiveUp == SetupFails /\ owner' = <<>> /\ UNCHANGED <<held, robbed>>

LibOpenStep == \/ (Probe \/ ProbeError \/ StartScan \/ Scan \/ CreatePool) /\ UNCHANGED <<owner, held, robbed>>
               \/ MakeDevs \/ GiveUp

BoardsNext == \/ LibOpenStep \/ Reserve \/ CloseDown
              \/ (BringUp \/ Drive) /\ UNCHANGED <<owner, held, robbed>>

\* As in HwSpec: a call of LibOpen runs until it returns.
BoardsSpec == BoardsInit /\ [][BoardsNext]_boardVars /\ WF_boardVars(LibOpenStep)

-----------------------------------------------------------------------------
\* Mutant of After: a search that goes on finds the same board again.
AfterSame(prev) == IF prev = NoDev THEN 1 ELSE CHOOSE i \in DOMAIN devList : devList[i] = prev

\* Where a search that goes on behind prev starts.
After(prev) == IF prev = NoDev THEN 1 ELSE 1 + CHOOSE i \in DOMAIN devList : devList[i] = prev

\* The walk the searches have in common: the first match from there on, or none.
Search(prev, matches) ==
    LET hits == {i \in After(prev) .. Len(devList) : devList[i] \in matches}
    IN IF hits = {} THEN NoDev ELSE devList[Lowest1(hits)]

\* 0xFFFF stands for any.
LibFindDevice(vendor, device, prev) ==
    Search(prev, {f \in Listable : /\ vendor \in {65535, hw[f].vendor}
                                   /\ device \in {65535, hw[f].device}})

LibFindClass(devclass, prev) == Search(prev, {f \in Listable : hw[f].class = devclass})

\* pci_dev.devfn, converted from the controller's device and function numbers.
LibFindSlot(bus, devfn) ==
    Search(NoDev, {f \in Listable : number[hw[f].bus] = bus /\ hw[f].devfn = devfn})

\* The attributes that say which board it is; the class code is given in three bytes.
Attribute(f, tag) ==
    CASE tag = "Vendor"         -> hw[f].vendor
      [] tag = "Device"         -> hw[f].device
      [] tag = "Class"          -> (hw[f].class \div 65536) % 256
      [] tag = "SubClass"       -> (hw[f].class \div 256) % 256
      [] tag = "Interface"      -> hw[f].class % 256
      [] tag = "BusNumber"      -> number[hw[f].bus]
      [] tag = "SlotNumber"     -> Dev(f)
      [] tag = "FunctionNumber" -> hw[f].devfn % 8

\* What of a tag's datum is compared.
Compared(tag, data) ==
    CASE tag \in {"Vendor", "Device"}               -> data % 65536
      [] tag \in {"Class", "SubClass", "Interface"} -> data % 256
      [] OTHER                                      -> data

\* tags is a function from the tags of the list to their data.
LibFindBoardA(prev, tags) ==
    Search(prev, {f \in Listable : \A tag \in DOMAIN tags : Attribute(f, tag) = Compared(tag, tags[tag])})

\* pcie_make_pdev: base_address and base_size of BAR register n.  The flag bits of the
\* sizing mask, and the choice of the mask that takes them off again, are left out: of a
\* memory BAR, whose 68k address has bit 0 clear, PRM_MemorySizeN takes off all of them.
BarOf(f, n)  == {x \in Cached(f) : x.slot = n}
BaseAddress(f, n) == IF BarOf(f, n) = {} THEN 0 ELSE Virt(First(BarOf(f, n)))
BaseSize(f, n)    == IF BarOf(f, n) = {} THEN 0 ELSE (Wrap - First(BarOf(f, n)).size) % Wrap

\* Mutant of MemorySize: the complement alone.
MemorySizeOff(f, n) == IF BaseSize(f, n) = 0 THEN 0 ELSE Wrap - BaseSize(f, n) - 1

\* LibGetBoardAttrsA: PRM_MemoryAddrN, PRM_MemorySizeN and the window of the memory.
MemoryAddr(f, n)  == BaseAddress(f, n)
MemorySize(f, n)  == IF BaseSize(f, n) = 0 THEN 0 ELSE Wrap - BaseSize(f, n)
PCIMemWindowLow   == region["mem"].start
PCIMemWindowHigh  == IF Present("mem") THEN (region["mem"].start + region["mem"].size) % Wrap ELSE 0

-----------------------------------------------------------------------------
\* What a program was given it keeps, and so nobody else is given it, whoever calls
\* LibReleaseCard on the board or asks for it: until the program gives it back or another
\* one clears the owner by PRM_BoardOwner. And the owner of a board was given it and has not
\* given it back: no order of calls leaves a board that nobody holds and nobody can get.
HoldersKept ==
    /\ \A h \in held \ robbed : owner[h.fn] = h.by
    /\ \A f \in DOMAIN owner : owner[f] # Nobody => [fn |-> f, by |-> owner[f]] \in held

\* The tags that say where a board is, and those that say of what class it is.
Place(f) == [tag \in {"BusNumber", "SlotNumber", "FunctionNumber"} |-> Attribute(f, tag)]
Class(f) == [tag \in {"Class", "SubClass", "Interface"} |-> Attribute(f, tag)]

\* The searches by one attribute of a board, or by none.
Filters == {[tag \in {} |-> 0]} \cup
           UNION {{[t \in {tag} |-> Attribute(f, tag)] : f \in Listable} :
                     tag \in {"Vendor", "Class", "SubClass", "BusNumber", "SlotNumber"}}

\* What a loop over Next(prev) from NULL on visits, cut off behind as many as there are.
Visited(Next1(_)) ==
    LET nth[n \in 0 .. Len(devList)] ==
            IF n = 0 THEN Next1(NoDev)
            ELSE LET prev == nth[n - 1] IN IF prev = NoDev THEN NoDev ELSE Next1(prev)
    IN Kept(nth, LAMBDA f : f # NoDev)

VisitedBoards(tags)     == Visited(LAMBDA prev : LibFindBoardA(prev, tags))
VisitedClass(devclass)  == Visited(LAMBDA prev : LibFindClass(devclass, prev))
VisitedDevices(device)  == Visited(LAMBDA prev : LibFindDevice(65535, device, prev))

\* What they are to visit.
ListedBoards(tags)    == Kept(devList, LAMBDA f : \A tag \in DOMAIN tags : Attribute(f, tag) = tags[tag])
ListedClass(devclass) == Kept(devList, LAMBDA f : hw[f].class = devclass)
ListedDevices(device) == Kept(devList, LAMBDA f : device \in {65535, hw[f].device})

\* A loop over FindBoardA, FindDevice or FindClass with the last result as prev visits
\* every board that matches, once and in the order of the list, and ends; a board's own
\* bus number, slot and function lead back to it alone, whatever tree was numbered; and
\* the three bytes GetBoardAttrsA gives of its class find what FindClass finds by the
\* whole code.
SearchesComplete ==
    Ready =>
        /\ \A tags \in Filters : VisitedBoards(tags) = ListedBoards(tags)
        /\ \A f \in Listable :
              /\ VisitedClass(hw[f].class) = ListedClass(hw[f].class)
              /\ VisitedDevices(hw[f].device) = ListedDevices(hw[f].device)
              /\ LibFindSlot(number[hw[f].bus], hw[f].devfn) = f
              /\ VisitedBoards(Place(f)) = <<f>>
              /\ VisitedBoards(Class(f)) = VisitedClass(hw[f].class)

\* The address and the size a board reports for a BAR are what the other LVOs accept: the
\* region of that size can be obtained at the bus address the address translates to, and
\* one unit more cannot; it lies in the reported window of PCI memory unless it is
\* prefetchable, and no other BAR is reported there.  A BAR that ends at 4 GiB is excepted.
BarsReported ==
    Ready /\ SinglePath => \A f \in Listable : \A x \in Mapped(f) :
        LET v == MemoryAddr(f, x.slot) n == MemorySize(f, x.slot) a == LibLogicToPhysic(f, v) IN
        x.addr + x.size < Wrap - 1 =>
            /\ v # 0 /\ n = x.size
            /\ n # 0 => /\ a # 0 => LibObtainPCIRegion(f, a, n) = v /\ LibObtainPCIRegion(f, a, n + 1) = 0
                        /\ x.pool = "mem" => /\ PCIMemWindowLow <= a
                                             /\ PCIMemWindowHigh = 0 \/ a + n <= PCIMemWindowHigh
                        /\ \A g \in Listable : \A y \in Mapped(g) :
                               x = y \/ v + n <= MemoryAddr(g, y.slot)
                                     \/ MemoryAddr(g, y.slot) + MemorySize(g, y.slot) <= v
=============================================================================
