----------------------------- MODULE PcieHwInit -----------------------------
(***************************************************************************)
(* pcie_hw_init and pcie_hw_shutdown of pcie_main.c: the controller of      *)
(* PcieProbe is brought up, the bus behind it enumerated by PciAuto, the    *)
(* device list and the DMA pool are made, and everything is taken down      *)
(* again.  The library's semaphore is held throughout, so the steps form    *)
(* one thread; what varies is the machine, the tree behind the link and     *)
(* what fails.                                                              *)
(***************************************************************************)
EXTENDS PcieTranslate

VARIABLES
    devList,    \* base->devListHead: functions, in the order of the list
    pool        \* base->dmaPool

hwVars == <<vars, probeVars, devList, pool>>

\* No tree yet: the variables of PciAuto before pci_bind_bus_devices fills them.
Idle == /\ hw = <<>> /\ region = [p \in Pools |-> NoRegion] /\ stack = <<>> /\ bar = {}
        /\ lower = [p \in Pools |-> 0] /\ last = 0 /\ number = [b \in Bus |-> 0]
        /\ lastSub = number /\ sec = <<>> /\ sub = <<>> /\ base = <<>> /\ limit = <<>>
        /\ speed = <<>> /\ active = {} /\ result = "idle"

HwInit == Idle /\ ProbeInit /\ devList = <<>> /\ pool = FALSE

\* LibOpen finds the hardware down, the first time or after the last close, and
\* allocates the controller structure.
BringUp == /\ Step("down", "ctrl")
           /\ UNCHANGED <<vars, board, ctrlVars, rcVars, gic400, demux, devList, pool>>

Probe == ProbeNext /\ UNCHANGED <<vars, devList, pool>>

ProbeError == ProbeFails /\ UNCHANGED <<vars, devList, pool>>

\* pciauto_config_init: the largest region of a kind, the first of several as large.
Selected(rs, p) ==
    LET those   == {i \in DOMAIN rs : rs[i].kind = p}
        largest == {i \in those : \A j \in those : rs[j].size <= rs[i].size}
    IN IF those = {} THEN NoRegion
       ELSE LET r == rs[Lowest1(largest)] IN [start |-> r.bus, size |-> r.size]

\* The regions of PciAuto are those of the machines.
ASSUME RegionsAssumption == \A b \in Boards : [p \in Pools |-> Selected(Outbounds(b), p)] \in Regions

\* The root bus is created and bound; then auto-configuration starts as PciAuto's Init says.
StartScan ==
    /\ Step("probed", "scan")
    /\ hw' \in Topologies
    /\ region' = [p \in Pools |-> Selected(regions, p)]
    /\ lower' = pciauto_region_init'
    /\ number' = [b \in Bus' |-> 0] /\ lastSub' = number' /\ last' = 0
    /\ stack' = <<Frame(Root, 0)'>>
    /\ sec' = [f \in Bridges' |-> 0] /\ sub' = sec'
    /\ base' = [p \in Pools |-> sec']
    /\ limit' = [p \in Pools |-> [f \in Bridges' |-> Granule[p] % Wrap]]
    /\ speed' = [f \in DOMAIN hw' |-> "preferred"]
    /\ active' = {} /\ bar' = {} /\ result' = "running"
    /\ UNCHANGED <<board, ctrlVars, rcVars, gic400, demux, devList, pool>>

Scan == stage = "scan" /\ Next /\ UNCHANGED <<probeVars, devList, pool>>

\* Mutant of LastBus: the bus with the highest number is left out.
LastBusEarly == last - 1

\* pci_get_bus_max
LastBus == last

\* The functions on bus n, in the order they were bound.
OnBus(n) ==
    LET bus   == CHOOSE b \in Bus : number[b] = n /\ (n = 0 => b = Root)
        found == Seen(bus, n)
        bound == {hw[f].devfn : f \in found}
    IN Entries([d \in bound |-> CHOOSE f \in found : hw[f].devfn = d], bound)

Listed ==
    LET below[n \in 0 .. LastBus + 1] == IF n = 0 THEN <<>> ELSE below[n - 1] \o OnBus(n - 1)
    IN below[LastBus + 1]

\* The VL805's firmware is loaded again, whose failure is ignored; pcie_build_dev_list.
BuildDevList ==
    /\ Step("scan", "listed") /\ result = "ok"
    /\ devList' = Listed
    /\ UNCHANGED <<vars, board, ctrlVars, rcVars, gic400, demux, pool>>

CreatePool == /\ Step("listed", "ready") /\ pool' = TRUE
              /\ UNCHANGED <<vars, board, ctrlVars, rcVars, gic400, demux, devList>>

\* A driver binds an interrupt server, and later frees its vectors.
Drive == /\ stage = "ready" /\ masked' = ~masked
         /\ UNCHANGED <<vars, board, stage, ctrlVars, perst, bar2, win, gic400, demux, devList, pool>>

\* Everything the enumeration and the device list hold is given up.
Forget ==
    /\ hw' = <<>> /\ region' = [p \in Pools |-> NoRegion] /\ stack' = <<>> /\ bar' = {}
    /\ lower' = [p \in Pools |-> 0] /\ last' = 0 /\ number' = [b \in {Root} |-> 0]
    /\ lastSub' = number' /\ sec' = <<>> /\ sub' = <<>> /\ base' = <<>> /\ limit' = <<>>
    /\ speed' = <<>> /\ active' = {} /\ result' = "idle" /\ devList' = <<>>

\* The error exits of pcie_hw_init behind a probe that succeeded: no memory for the root
\* bus or a device on it, a scan that failed, no memory for a pci_dev, no DMA pool.
SetupFails ==
    /\ stage \in {"probed", "listed"} \/ (stage = "scan" /\ result \in {"ok", "error"})
    /\ stage' = "down" /\ Forget /\ RemoveController
    /\ UNCHANGED pool

\* pcie_hw_shutdown, when the last opener closes.
Shutdown ==
    /\ Step("ready", "down") /\ Forget /\ RemoveController /\ pool' = FALSE

HwNext == \/ BringUp \/ Probe \/ ProbeError \/ StartScan \/ Scan \/ BuildDevList
          \/ CreatePool \/ Drive \/ SetupFails \/ Shutdown

\* A call of LibOpen runs until it returns.
HwSpec == HwInit /\ [][HwNext]_hwVars /\ WF_hwVars(Probe \/ ProbeError \/ StartScan \/ Scan \/ BuildDevList \/ CreatePool \/ SetupFails)

-----------------------------------------------------------------------------
\* Type invariant.
HwTypeOK ==
    /\ stage = "scan" => TypeOK
    /\ board \in Boards
    /\ \A i \in DOMAIN regions : LET r == regions[i] IN
         /\ r.kind \in {"io", "mem", "prefetch", "ram"} /\ r.size \in 1 .. Wrap
         /\ r.bus \in 0 .. Wrap - 1 /\ r.phys \in 0 .. PhysWrap - 1
    /\ dma.phys \in 0 .. Wrap - 1 /\ dma.bus \in 0 .. Wrap - 1 /\ dma.size \in 0 .. Wrap
    /\ lines \in [1 .. 4 -> Nat]
    /\ bar2.offset \in 0 .. Wrap - 1 /\ bar2.size \in 0 .. Wrap /\ Len(win) <= OutWins
    /\ devList \in Seq(DOMAIN hw)
    /\ {perst, masked, gic400, demux, pool} \subseteq BOOLEAN

Ready == stage = "ready"

\* The ranges this stack expects: outbound windows outside the inbound one, and with the
\* granularity of a window register.
Apart    == \A i \in DOMAIN regions : regions[i].kind \in {"mem", "prefetch"} => DmaEnd <= regions[i].bus
Whole(r) == r.phys % Megabyte = 0 /\ r.bus % Megabyte = 0 /\ r.size % Megabyte = 0

\* An access of the 68k to any address of a BAR that has one leaves through exactly one
\* outbound window, and of all the BARs behind it this one answers: MMIO window, regions,
\* window registers and BARs agree.  (A prefetchable range has no outbound window.)
CpuReaches ==
    Ready /\ SinglePath /\ Apart /\ (\A i \in DOMAIN regions : regions[i].kind = "mem" => Whole(regions[i]))
        => \A f \in Fn : \A x \in Mapped(f) : \A k \in 0 .. x.size - 1 :
               x.pool = "mem" => \E a \in Leaves(Emu68(Virt(x) + k)) :
                   /\ Leaves(Emu68(Virt(x) + k)) = {a} /\ a = x.addr + k /\ Answering(a) = {x}

\* Fast RAM that the library registers is its own bus address (PRM_PCIToHostOffset is 0),
\* no BAR answers there, and the inbound window leads a device's access to that RAM.
\* The window decodes from CPU address 0, so this needs a device tree that starts there.
DmaReaches ==
    Ready /\ Apart /\ dma.phys = 0
        => \A f \in Fn, i \in Ram68k : \A a \in Cells(i) \ {0} :
               /\ LibLogicToPhysic(f, a) = a /\ Answering(a) = {}
               /\ Decoded(a) /\ InboundCpu(a) = a

\* Translating there and back leads to the same address, for every address of a mapped
\* BAR and of registered Fast RAM - unless an I/O range has the RAM's bus addresses: the
\* LVO looks regions up by address alone.  A region inside a BAR is obtained at the
\* address the BAR has, and the MMIO window and the regions lead to it like the BAR cache.
\* A BAR that ends at 4 GiB is excepted: its end is 0 on 32 bits.
RoundTrip ==
    Ready /\ Apart => \A f \in Fn :
        /\ (\A i \in DOMAIN regions : regions[i].kind = "io" => DmaEnd <= regions[i].bus) =>
              \A i \in Ram68k : \A a \in Cells(i) \ {0} : LibPhysicToLogic(f, LibLogicToPhysic(f, a)) = a
        /\ \A x \in Mapped(f) : \A k \in 0 .. x.size - 1 : x.addr + x.size < Wrap =>
               /\ LibLogicToPhysic(f, Virt(x) + k) = x.addr + k
               /\ LibPhysicToLogic(f, x.addr + k) = Virt(x) + k
               /\ pci_virt_to_bus(Virt(x) + k, 1, MemRegion) = x.addr + k
        /\ \A r \in 1 .. Wrap - 1, n \in {1, 2, 4} : LET v == LibObtainPCIRegion(f, r, n) IN
               r + n < Wrap /\ v # 0 => \E x \in Mapped(f) :
                   /\ x.addr <= r /\ r + n <= x.addr + x.size /\ v = Virt(x) + (r - x.addr)

\* The device list holds every function that answers on a bus the scan gave a number.
EveryFunctionListed ==
    Ready => /\ ToSet(devList) = {f \in Fn : \E b \in Bus : f \in Seen(b, number[b]) /\ (b = Root \/ number[b] # 0)}
             /\ Cardinality(ToSet(devList)) = Len(devList)

\* Mutant of Swizzle: the pin of the function itself is not turned.
SwizzleNot(f, pin) == pin

\* pci_assign_irq follows the chain of bridges from f.
Swizzle(f, pin) == (((pin - 1) + Dev(f)) % 4) + 1

RoutedPin(f) ==
    LET route[g \in Fn] == [pin \in 1 .. 4 |->
            IF hw[g].bus = Root THEN pin ELSE route[hw[g].bus][Swizzle(g, pin)]]
    IN IF hw[f].pin = 0 THEN 0 ELSE route[f][IF hw[f].pin > 4 THEN 1 ELSE hw[f].pin]

GicIrq(f) == IF RoutedPin(f) = 0 THEN 0 ELSE lines[RoutedPin(f)]

\* A function's interrupt is that of the root port's pin its own pin is wired to: the
\* slots on the way add up modulo 4.  It is the last usable GIC line the device tree gives
\* for the pin before the first entry of interrupt-map with an unusable parent.
InterruptRouted ==
    Ready => \A f \in Fn :
        LET slots == {f} \cup Above(hw[f].bus)
            own   == IF hw[f].pin > 4 THEN 1 ELSE hw[f].pin
            turns == UNION {{<<g, k>> : k \in 1 .. Dev(g)} : g \in {h \in slots : hw[h].bus # Root}}
            pin   == ((own - 1 + Cardinality(turns)) % 4) + 1
            m     == board.intmap
            good  == {i \in DOMAIN m : m[i].pin = pin /\ m[i].spi /\ \A j \in 1 .. i : m[j].usable}
        IN hw[f].pin # 0 =>
             GicIrq(f) = IF good = {} THEN 0
                         ELSE m[CHOOSE i \in good : \A j \in good : j <= i].number + 32

\* No MSI is taken that nobody serves: all are masked, the link is in reset, or the
\* demultiplexer is there.
NoneUnserved == masked \/ perst \/ demux

\* pcie_brcmstb.c:905, "Mask all interrupts since we are not handling any yet": from the
\* reset of the first bring-up on no step opens the gap again, whatever fails where and
\* however often the library is opened and closed.  (Until then the registers are the
\* firmware's.)
QuietUnlessServed == [][(NoneUnserved \/ stage' = "reset") => NoneUnserved']_hwVars

\* A LibOpen that brings the hardware up returns: the walk of the tree ends.
BringUpEnds == (stage = "ctrl") ~> (stage \in {"ready", "down"})
=============================================================================
