------------------------------ MODULE PciAuto ------------------------------
(***************************************************************************)
(* Enumeration: pci_probe.c walks the tree behind the root port, numbers   *)
(* the buses and hands every function to pci_auto.c, which sizes and       *)
(* assigns its BARs and programs the bridges.  The C recursion - a bridge  *)
(* is configured by probing the bus behind it - is the variable stack.     *)
(* Sizes and addresses are counted in units of the smallest BAR and wrap   *)
(* at Wrap, as pci_addr_t wraps at 2^32.                                   *)
(***************************************************************************)
EXTENDS Sequences, FiniteSets, PciAddress, PciCapability, LinkTraining

CONSTANTS Topologies,   \* the hardware: functions from a function's id to what it is
          Regions,      \* the regions the device tree may give: Pools -> [start, size]
          Granule,      \* the granularity of a bridge's window: Pools -> units
          MinLower      \* the address below which no BAR is put, in units

\* ctrl->pci_mem, pci_prefetch and pci_io; a region of size 0 stands for NULL.
Pools == {"mem", "prefetch", "io"}
NoRegion == [start |-> 0, size |-> 0]

\* A class code is 24 bits wide; pciauto_config_device looks at the upper 16.
IsBridge(class) == class \div 256 = 1540      \* PCI_CLASS_BRIDGE_PCI, 0x0604

ASSUME AutoAssumption ==
    \* one megabyte for both kinds of memory; and address 0 is never given to a BAR
    /\ Granule \in [Pools -> Nat \ {0}] /\ Granule["mem"] = Granule["prefetch"]
    /\ MinLower \in Nat \ {0}
    /\ \A r \in Regions, p \in Pools :
           r[p].start \in Nat /\ r[p].size \in Nat /\ r[p].start + r[p].size <= Wrap
    \* the ranges of a device tree do not overlap
    /\ \A r \in Regions : r["mem"].size = 0 \/ r["prefetch"].size = 0
                           \/ r["mem"].start + r["mem"].size <= r["prefetch"].start
                           \/ r["prefetch"].start + r["prefetch"].size <= r["mem"].start
    \* a bus number is a byte, and the root bus has one; so is a device's place on a bus
    /\ \A t \in Topologies : /\ DOMAIN t \subseteq Nat \ {0} /\ IsFiniteSet(DOMAIN t)
                             /\ Cardinality({f \in DOMAIN t : IsBridge(t[f].class)}) <= 255
                             /\ \A f \in DOMAIN t : t[f].devfn \in 0 .. 255

\* The width of PCI_VENDOR_ID, PCI_DEVICE_ID and the class code.
ASSUME IdentityAssumption ==
    \A t \in Topologies : \A f \in DOMAIN t :
        /\ {t[f].vendor, t[f].device, t[f].class} \subseteq Nat
        /\ t[f].vendor < 65536 /\ t[f].device < 65536 /\ t[f].class < 16777216

VARIABLES
    hw,        \* hw[f]: [bus, devfn, multi, vendor, device, class, type1, bars, rom, pin,
               \*         caps, ext, ea, port]
    region,    \* region[p]: what auto-configuration allocates from
    lower,     \* lower[p]: its bus_lower
    stack,     \* the calls of pci_auto_config_devices in progress, innermost last
    last,      \* ctrl->bus_number_last
    number,    \* number[b]: bus_number
    lastSub,   \* lastSub[b]: bus_number_last_sub
    sec, sub,  \* the bridges' SECONDARY_BUS and SUBORDINATE_BUS registers
    base, limit, \* base[p][f], limit[p][f]: a bridge's window, first unit and first after it
    speed,     \* the ports' Target Link Speed
    active,    \* the bridges with DM_FLAG_ACTIVATED
    bar,       \* the BARs assigned so far: [fn, slot, pool, addr, size]
    result     \* of pcie_hw_init's scan: "running", "ok" or "error"

Root == 0               \* the root bus; every other bus is named by its bridge
PCI_CAP_ID_EXP == 16

\* A tree: a function is on the root bus or behind a bridge, no bridge is above itself, and
\* a place on a bus has one function.
Tree(t) ==
    /\ \A f \in DOMAIN t : t[f].bus \in {Root} \cup {b \in DOMAIN t : IsBridge(t[b].class)}
    /\ \A S \in SUBSET DOMAIN t : S # {} => \E f \in S : t[f].bus \notin S
    /\ \A f, g \in DOMAIN t : t[f].bus = t[g].bus /\ t[f].devfn = t[g].devfn => f = g

ASSUME HardwareAssumption ==
    /\ AllOnes # PCI_CAP_ID_EXP
    /\ \A t \in Topologies :
          /\ Tree(t)
          /\ \A f \in DOMAIN t : /\ ListOK(t[f].caps) /\ ListOK(t[f].ext) /\ t[f].pin \in Nat
                                 /\ Polled(t[f].port.full) /\ Polled(t[f].port.slow)

regVars == <<sec, sub, base, limit, speed>>
vars == <<hw, region, lower, stack, last, number, lastSub, regVars, active, bar, result>>

Fn      == DOMAIN hw
Bridges == {f \in Fn : IsBridge(hw[f].class)}
Bus     == {Root} \cup Bridges
Top     == stack[Len(stack)]
Greater(a, b) == IF a >= b THEN a ELSE b
Dev(f)  == hw[f].devfn \div 8

Present(p) == region[p].size # 0
Lowest(p)  == IF region[p].start < MinLower THEN MinLower ELSE region[p].start

\* pciauto_region_init of every region there is.
pciauto_region_init == [p \in Pools |-> IF Present(p) THEN Lowest(p) ELSE 0]

\* The bus_lower of every region, aligned to the granularity of the windows.
Aligned == [p \in Pools |-> IF Present(p) THEN AlignUp(lower[p], Granule[p]) ELSE 0]

\* Mutant of Fits: the test without the alignment.
FitsUnaligned(p, size) ==
    Present(p) /\ (lower[p] - region[p].start + size) % Wrap <= region[p].size

Fits(p, size) ==
    Present(p) /\ (AlignUp(lower[p], size) - region[p].start + size) % Wrap <= region[p].size

\* Mutants of Advanced: the cursor forgets what the alignment skipped, or does not wrap.
AdvancedUnaligned(p, size) == (lower[p] + size) % Wrap
AdvancedWide(p, size)      == AlignUp(lower[p], size) + size

\* bus_lower after an allocation.
Advanced(p, size) == (AlignUp(lower[p], size) + size) % Wrap

-----------------------------------------------------------------------------
\* The functions pci_bind_bus_devices finds on a bus numbered n.
Seen(b, n) == {f \in Fn : /\ hw[f].bus = b
                          /\ n < 2 => Dev(f) = 0
                          /\ \/ hw[f].devfn % 8 = 0
                             \/ \E g \in Fn : /\ hw[g].bus = b /\ hw[g].devfn = 8 * Dev(f)
                                              /\ hw[g].multi}

\* A call of pci_auto_config_devices: the functions left, the one being set up, its BAR.
Frame(b, n) == [bus |-> b, todo |-> Seen(b, n), fn |-> Root, slot |-> 0]

Init ==
    /\ hw \in Topologies /\ region \in Regions
    /\ lower = pciauto_region_init
    /\ number = [b \in Bus |-> 0] /\ lastSub = number /\ last = 0
    /\ stack = <<Frame(Root, 0)>>
    /\ sec = [f \in Bridges |-> 0] /\ sub = sec
    /\ base = [p \in Pools |-> sec]
    /\ limit = [p \in Pools |-> [f \in Bridges |-> Granule[p] % Wrap]]
    /\ speed = [f \in Fn |-> "preferred"]
    /\ active = {} /\ bar = {} /\ result = "running"

\* pci_auto_config_devices takes the next function of the bus, in bdf order.
NextDevice ==
    /\ result = "running" /\ Top.fn = Root
    /\ \E f \in Top.todo :
          /\ \A g \in Top.todo : hw[f].devfn <= hw[g].devfn
          /\ stack' = [stack EXCEPT ![Len(stack)].fn = f, ![Len(stack)].slot = 1]
    /\ UNCHANGED <<hw, region, lower, last, number, lastSub, regVars, active, bar, result>>

\* What the function's BAR registers, and then its ROM register, answer to all ones.
Answers(f) == Append(hw[f].bars, hw[f].rom)
Answer     == Answers(Top.fn)[Top.slot]
SettingUp  == result = "running" /\ Top.fn # Root /\ Top.slot <= Len(Answers(Top.fn))
SetUp      == result = "running" /\ Top.fn # Root /\ Top.slot > Len(Answers(Top.fn))

\* The region a BAR is allocated from.
PoolOf(a) == IF a.kind = "prefetch" /\ ~Present("prefetch") THEN "mem" ELSE a.kind

\* pciauto_setup_device, one BAR: there is none, no region has the type, or no room.
\* A 64-bit BAR without room does not skip its upper half.
SkipBar ==
    /\ SettingUp
    /\ ~(Answer.kind \in Pools /\ Fits(PoolOf(Answer), Answer.size))
    /\ stack' = [stack EXCEPT ![Len(stack)].slot = @ + 1]
    /\ UNCHANGED <<hw, region, lower, last, number, lastSub, regVars, active, bar, result>>

\* A 64-bit BAR takes the slot of its upper half too; the ROM is sized whatever the last
\* BAR is.
SlotsTaken == IF Answer.is64 /\ Top.slot + 1 < Len(Answers(Top.fn)) THEN 2 ELSE 1

AssignBar ==
    /\ SettingUp /\ Answer.kind \in Pools
    /\ LET p == PoolOf(Answer) IN
          /\ Fits(p, Answer.size)
          /\ lower' = [lower EXCEPT ![p] = Advanced(p, Answer.size)]
          /\ bar' = bar \cup {[fn |-> Top.fn, slot |-> Top.slot, pool |-> p,
                               addr |-> AlignUp(lower[p], Answer.size), size |-> Answer.size]}
    /\ stack' = [stack EXCEPT ![Len(stack)].slot = @ + SlotsTaken]
    /\ UNCHANGED <<hw, region, last, number, lastSub, regVars, active, result>>

\* Mutant of Done: the loop over the bus does not move on.
DoneAgain(s, n) ==
    LET b == s[Len(s)].bus IN
    /\ lastSub' = [lastSub EXCEPT ![b] = Greater(@, n)]
    /\ stack' = [s EXCEPT ![Len(s)].fn = Root]

\* pciauto_config_device returns to pci_auto_config_devices with a bus number.
Done(s, n) ==
    LET b == s[Len(s)].bus f == s[Len(s)].fn IN
    /\ lastSub' = [lastSub EXCEPT ![b] = Greater(@, n)]
    /\ stack' = [s EXCEPT ![Len(s)].todo = @ \ {f}, ![Len(s)].fn = Root]

LeafDone ==
    /\ SetUp /\ Top.fn \notin Bridges
    /\ Done(stack, number[Top.bus])
    /\ UNCHANGED <<hw, region, lower, last, number, regVars, active, bar, result>>

\* pciauto_prescan_setup_bridge: f is given bus n behind it, windows that start where
\* the regions stand, none for a region there is not, and a link that works.
Prescan(f, n) ==
    /\ last' = n
    /\ number' = [number EXCEPT ![f] = n] /\ lastSub' = [lastSub EXCEPT ![f] = n]
    /\ sec' = [sec EXCEPT ![f] = n] /\ sub' = [sub EXCEPT ![f] = 255]
    /\ base' = [p \in Pools |-> [base[p] EXCEPT ![f] =
                  IF Present(p) THEN Aligned[p] ELSE IF p = "mem" THEN @ ELSE Wrap - 1]]
    /\ limit' = [p \in Pools |-> [limit[p] EXCEPT ![f] =
                  IF Present(p) \/ p = "mem" THEN @ ELSE Granule[p] % Wrap]]
    /\ speed' = [speed EXCEPT ![f] = IF FindCapability(hw[f].caps, PCI_CAP_ID_EXP) = 0
                                     THEN @ ELSE Speed(hw[f].port)]

\* pci_probe_bus of the new bus up to the call of pci_auto_config_devices, whose
\* pciauto_config_init starts the regions again.
EnterBridge ==
    LET f == Top.fn n == last + 1 IN
    /\ SetUp /\ f \in Bridges \ active /\ hw[f].type1
    /\ Prescan(f, n)
    /\ active' = active \cup {f}
    /\ lower' = pciauto_region_init
    /\ stack' = Append(stack, Frame(f, n))
    /\ UNCHANGED <<hw, region, bar, result>>

\* Mutant of Reported: a bus reports its own number only.
ReportedOwn(b) == number[b]

\* What pciauto_config_device returns for the bridge of bus b, once it is scanned.
Reported(b) == lastSub[b]

\* Mutant of Closed: the next BAR after the bridge may share the window's last granule.
ClosedUnaligned == lower

\* bus_lower when a bridge's windows are closed.
Closed == Aligned

\* The window limits of bridge b once they are closed.
Limits(b) == [p \in Pools |-> [limit[p] EXCEPT ![b] =
                IF Present(p) THEN AlignUp(Closed[p], Granule[p]) ELSE @]]

\* Every function of the bus is configured: pciauto_postscan_setup_bridge, and back to
\* the bus the bridge is on.
LeaveBridge ==
    LET b == Top.bus IN
    /\ result = "running" /\ Len(stack) > 1 /\ Top.fn = Root /\ Top.todo = {}
    /\ sub' = [sub EXCEPT ![b] = lastSub[b]]
    /\ lower' = Closed /\ limit' = Limits(b)
    /\ Done(SubSeq(stack, 1, Len(stack) - 1), Reported(b))
    /\ UNCHANGED <<hw, region, last, number, sec, base, speed, active, bar, result>>

\* The root bus is configured.
Finish ==
    /\ result = "running" /\ Len(stack) = 1 /\ Top.fn = Root /\ Top.todo = {}
    /\ result' = "ok"
    /\ UNCHANGED <<hw, region, lower, stack, last, number, lastSub, regVars, active, bar>>

\* An error returns through every pci_probe_bus on the stack, each to its fail label.
Failing == {stack[i].bus : i \in 1 .. Len(stack)}

\* pci_create_bus is out of memory, or the bridge has another header type.
CreateFails ==
    /\ SetUp /\ Top.fn \in Bridges
    /\ result' = "error" /\ active' = active \ Failing
    /\ UNCHANGED <<hw, region, lower, stack, last, number, lastSub, regVars, bar>>

\* pci_create_device is out of memory while the new bus is bound.
BindFails ==
    LET f == Top.fn n == last + 1 IN
    /\ SetUp /\ f \in Bridges /\ hw[f].type1 /\ Seen(f, n) # {}
    /\ Prescan(f, n)
    /\ lower' = Aligned
    /\ result' = "error" /\ active' = active \ Failing
    /\ UNCHANGED <<hw, region, stack, bar>>

Next == \/ NextDevice \/ SkipBar \/ AssignBar \/ LeafDone
        \/ EnterBridge \/ LeaveBridge \/ Finish \/ CreateFails \/ BindFails

Spec == Init /\ [][Next]_vars

-----------------------------------------------------------------------------
\* Type invariant.
TypeOK ==
    /\ hw \in Topologies /\ region \in Regions /\ lower \in [Pools -> 0 .. Wrap - 1]
    /\ last \in Nat /\ number \in [Bus -> 0 .. last] /\ lastSub \in [Bus -> 0 .. last]
    /\ stack \in Seq([bus : Bus, todo : SUBSET Fn, fn : {Root} \cup Fn, slot : Nat])
    /\ Len(stack) > 0
    /\ sec \in [Bridges -> 0 .. last] /\ sub \in [Bridges -> (0 .. last) \cup {255}]
    /\ base \in [Pools -> [Bridges -> 0 .. Wrap - 1]] /\ limit \in [Pools -> [Bridges -> 0 .. Wrap - 1]]
    /\ speed \in [Fn -> {"preferred", "2.5"}]
    /\ active \subseteq Bridges
    /\ bar \subseteq [fn : Fn, slot : Nat, pool : Pools, addr : 0 .. Wrap - 1, size : 0 .. Wrap - 1]
    /\ result \in {"running", "ok", "error"}

\* The bridges between the root bus and bus b, the one of b included: those that every
\* set with b and the bus above each of its bridges has.
Above(b) ==
    {c \in Bridges : \A S \in SUBSET Bus :
        b \in S /\ (\A d \in S \ {Root} : hw[d].bus \in S) => c \in S}

\* A configuration cycle for a numbered bus is claimed, at every moment of the scan and
\* after it, by the bridges on the way to that bus and by no other bridge: the bus
\* numbers pciauto_prescan_setup_bridge and pciauto_postscan_setup_bridge program nest.
OneRoute ==
    \A f \in Bridges, g \in Bridges :
        number[f] # 0 => (sec[g] \in 1 .. number[f] /\ number[f] <= sub[g] <=> g \in Above(f))

Sized == {x \in bar : x.size # 0}

\* pciauto_region_allocate hands out aligned addresses of the region, also at the end of
\* the address space, where its arithmetic wraps.  A BAR of 4 GiB or more has size 0 on
\* 32 bits and is refused unless the region ends where the address space does.
BarsInRegion ==
    \A x \in bar : LET r == region[x.pool] IN
        IF x.size = 0 THEN r.start + r.size = Wrap
        ELSE /\ r.start <= x.addr /\ x.addr + x.size <= r.start + r.size
             /\ x.addr % x.size = 0

\* A multiple of the granularity behind the region, and behind where it may be entered.
Beyond(r, p, k) == r[p].start + r[p].size <= k * Granule[p] /\ MinLower <= k * Granule[p]

\* A BAR of size s may be asked of region r[p]: a power of two does not wrap around the
\* end of the address space unnoticed, being smaller than the start of the region or
\* than the room behind it.
Sound(r, p, s) ==
    IF s = 0 THEN r[p].start # 0
    ELSE /\ Wrap % s = 0
         /\ s < r[p].start \/ \E k \in 0 .. Wrap : Beyond(r, p, k) /\ k * Granule[p] + 2 * s <= Wrap

\* The answers that are allocated from region p.
From(a, p) == p = a.kind \/ (a.kind = "prefetch" /\ p = "mem")

\* What a device may answer, and the granularity of the windows.
SoundBars ==
    /\ MinLower < Wrap /\ \A p \in Pools : Wrap % Granule[p] = 0
    /\ \A t \in Topologies : \A f \in DOMAIN t :
          LET answers == Append(t[f].bars, t[f].rom) IN
             /\ Len(answers) \in Nat
             /\ \A i \in 1 .. Len(answers) : answers[i].kind \in Pools =>
                   /\ answers[i].size \in Nat
                   /\ \A r \in Regions, p \in Pools :
                         From(answers[i], p) /\ r[p].size # 0 => Sound(r, p, answers[i].size)

\* Every bus has at most one bridge, before the bus's other functions and without a BAR:
\* the root port and one endpoint, or one chain of bridges.
SinglePath ==
    \A f \in Bridges : /\ \A i \in 1 .. Len(Answers(f)) : Answers(f)[i].kind = "none"
                       /\ \A g \in Fn \ {f} : hw[g].bus = hw[f].bus =>
                              g \notin Bridges /\ hw[g].devfn > hw[f].devfn

\* mem and prefetch share one address space, io is another.
Space(p) == IF p = "io" THEN {"io"} ELSE {"mem", "prefetch"}

\* Two BARs of an address space never share an address: allocation does not go back,
\* although pciauto_config_init starts the regions again behind every bridge.
BarsSeparate ==
    SinglePath => \A x \in Sized, y \in Sized :
        \/ x = y \/ x.pool \notin Space(y.pool)
        \/ x.addr + x.size <= y.addr \/ y.addr + y.size <= x.addr

End(p, g) == IF limit[p][g] = 0 THEN Wrap ELSE limit[p][g]
Inside(x, p, g)  == base[p][g] <= x.addr /\ x.addr + x.size <= End(p, g)
Outside(x, p, g) == x.addr + x.size <= base[p][g] \/ End(p, g) <= x.addr \/ End(p, g) <= base[p][g]

\* Every function of the tree is reached through its own bridges.
Reached == \A x \in Sized, g \in Bridges :
              IF g \in Above(hw[x.fn].bus) THEN Inside(x, x.pool, g)
              ELSE \A p \in Space(x.pool) : Outside(x, p, g)

\* A window can start where the first BAR of every region is put.
FromBoundary == \A p \in Pools : Present(p) => Lowest(p) = AlignUp(Lowest(p), Granule[p])

\* After a scan the windows of the bridges above a function contain its BARs and no
\* other window touches them: an access of the CPU gets to the device.  A bridge's base
\* is rounded up and the BARs behind it are then allocated from the start of the region,
\* so this needs FromBoundary.
BarsReached == SinglePath /\ result = "ok" /\ FromBoundary => Reached

\* Prescan finds the PCIe capability wherever the list has it, and leaves a port at the
\* restricted speed if and only if its link does not work at the preferred one and does
\* at 2.5 GT/s.  The samples decide as the comment of pciauto_exp_link_stable says.
LinksTrained ==
    \A f \in active :
        speed[f] = "2.5" <=>
            /\ hw[f].caps.present
            /\ \E p \in Positions : LeadsTo(hw[f].caps, hw[f].caps.first, PCI_CAP_ID_EXP, p, {AllOnes})
            /\ hw[f].port.able /\ hw[f].port.stuck
            /\ ~Works(hw[f].port.full) /\ Works(hw[f].port.slow)

\* pci_auto.h:59-66: postscan trims a bridge's window to the space consumed on its
\* secondary bus.  Whatever the tree, then, it contains the BARs behind the bridge.
WindowsFit ==
    result = "ok" => \A x \in Sized, g \in Bridges :
        g \in Above(hw[x.fn].bus) => Inside(x, x.pool, g)
=============================================================================
