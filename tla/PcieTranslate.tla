--------------------------- MODULE PcieTranslate ---------------------------
(***************************************************************************)
(* pci_bar.c and pcie_mem.c: the translations between 68k, CPU and PCI bus  *)
(* addresses of a machine whose controller is probed and whose BARs are     *)
(* assigned, next to what the hardware does with an address.  The 68k side  *)
(* reaches the devices through the MMIO window Emu68 maps; Fast RAM is      *)
(* mapped 1:1.  Results of the LVOs are 32 bits wide.                       *)
(***************************************************************************)
EXTENDS PciAuto, PcieProbe

\* The kinds a mask and flags select: all of them with mask 0; with PCI_REGION_TYPE and
\* PCI_REGION_MEM the memory, which prefetchable memory and RAM are, too.
AnyRegion == {"io", "mem", "prefetch", "ram"}
MemRegion == AnyRegion \ {"io"}

Lowest1(hits) == CHOOSE i \in hits : \A j \in hits : i <= j

pci_bus_to_phys(a, len, kinds) ==
    LET hits == {i \in DOMAIN regions : LET r == regions[i] IN
                    r.kind \in kinds /\ r.bus <= a /\ a - r.bus < r.size /\ len <= r.size - (a - r.bus)}
    IN IF regions = <<>> THEN a
       ELSE IF hits = {} THEN 0
       ELSE LET r == regions[Lowest1(hits)] IN r.phys + (a - r.bus)

pci_phys_to_bus(a, len, kinds) ==
    LET hits == {i \in DOMAIN regions : LET r == regions[i] IN
                    r.kind \in kinds /\ r.phys <= a /\ a - r.phys < r.size /\ len <= r.size - (a - r.phys)}
    IN IF regions = <<>> THEN a % Wrap
       ELSE IF hits = {} THEN 0
       ELSE LET r == regions[Lowest1(hits)] IN (r.bus + (a - r.phys)) % Wrap

InMmio(p, len) == /\ board.mmio.phys <= p /\ p < board.mmio.phys + board.mmio.size
                  /\ p + len <= board.mmio.phys + board.mmio.size

\* The 68k address, or 0.
pci_bus_to_virt(a, len, kinds) ==
    LET p == pci_bus_to_phys(a, len, kinds)
    IN IF p # 0 /\ InMmio(p, len) THEN board.mmio.virt + (p - board.mmio.phys) ELSE 0

\* No caller in the library; a driver that includes pci_bar.h has it.
pci_virt_to_bus(v, len, kinds) ==
    IF board.mmio.virt <= v /\ v < board.mmio.virt + board.mmio.size
    THEN pci_phys_to_bus(board.mmio.phys + (v - board.mmio.virt), len, kinds) ELSE 0

\* The BAR cache of pciauto_setup_device: the ROM is not in it.
Cached(f) == {x \in bar : x.fn = f /\ x.slot <= Len(hw[f].bars)}
Len1(x)   == IF x.size = 0 THEN 1 ELSE x.size
Virt(x)   == IF x.pool = "io" THEN 0 ELSE pci_bus_to_virt(x.addr, Len1(x), MemRegion)
Mapped(f) == {x \in Cached(f) : Virt(x) # 0}
First(xs) == CHOOSE x \in xs : \A y \in xs : x.slot <= y.slot

LibLogicToPhysic(f, a) ==
    LET hits == {x \in Mapped(f) : Virt(x) <= a /\ a < (Virt(x) + x.size) % Wrap}
    IN IF a = 0 THEN 0
       ELSE IF hits = {} THEN pci_phys_to_bus(a, 1, AnyRegion)
       ELSE LET x == First(hits) IN (x.addr + (a - Virt(x))) % Wrap

LibPhysicToLogic(f, a) ==
    LET hits == {x \in Mapped(f) : x.addr <= a /\ a < (x.addr + x.size) % Wrap}
    IN IF a = 0 THEN 0
       ELSE IF hits = {} THEN pci_bus_to_phys(a, 1, AnyRegion) % Wrap
       ELSE LET x == First(hits) IN (Virt(x) + (a - x.addr)) % Wrap

\* Mutant of Covers: the end of the region is not looked at.
CoversStart(x, r, size) == x.addr <= r /\ r < x.addr + x.size

\* [r, r + size) lies in the BAR, in 32-bit arithmetic.
Covers(x, r, size) == x.addr <= r /\ (r + size) % Wrap <= (x.addr + x.size) % Wrap

LibObtainPCIRegion(f, r, size) ==
    LET hits == {x \in Mapped(f) : Covers(x, r, size)}
    IN IF r = 0 \/ hits = {} THEN 0
       ELSE LET x == First(hits) IN (Virt(x) + (r - x.addr)) % Wrap

-----------------------------------------------------------------------------
\* What the hardware does.  A CPU access to p leaves the root complex at these bus
\* addresses, one for every outbound window that decodes it.
Leaves(p) ==
    {win[i].bus + (p - win[i].base * Megabyte) :
        i \in {j \in DOMAIN win : win[j].base <= p \div Megabyte /\ p \div Megabyte <= win[j].limit}}

\* A 68k access to v reaches the CPU address the MMIO window maps it to, if it does.
Emu68(v) == IF board.mmio.virt <= v /\ v < board.mmio.virt + board.mmio.size
            THEN board.mmio.phys + (v - board.mmio.virt) ELSE 0

\* The BARs that answer bus address a, and the CPU address an access of a device gets to.
Answering(a) == {y \in Sized : y.pool # "io" /\ y.addr <= a /\ a < y.addr + y.size}
Decoded(a)   == bar2.offset <= a /\ a < bar2.offset + bar2.size
InboundCpu(a) == a - bar2.offset

\* What a CPU address means is never in doubt: ranges that are taken, and RAM of the
\* machine, do not overlap, no RAM is where the MMIO window is mapped, and that ends below
\* the end of the 68k's addresses; neither do ranges of memory on the bus.
Overlap(a, m, b, n) == a < b + n /\ b < a + m
SoundMap(b) ==
    /\ b.mmio.virt + b.mmio.size < Wrap
    /\ \A i, j \in DOMAIN b.ranges : LET r == b.ranges[i]  s == b.ranges[j] IN
          i # j /\ Accepted(r) /\ Accepted(s) =>
             /\ ~Overlap(r.cpu, r.size, s.cpu, s.size)
             /\ r.space # "io" /\ s.space # "io" => ~Overlap(r.bus, r.size, s.bus, s.size)
    /\ \A i \in DOMAIN b.memory : LET m == b.memory[i] IN m.fast =>
          /\ ~Overlap(m.lower, m.upper - m.lower, b.mmio.virt, b.mmio.size)
          /\ \A j \in DOMAIN b.ranges : LET r == b.ranges[j] IN
                Accepted(r) => ~Overlap(m.lower, m.upper - m.lower, r.cpu, r.size)
SoundMaps == \A b \in Boards : SoundMap(b)

Ram68k == {i \in DOMAIN regions : regions[i].kind = "ram"}
Cells(i) == regions[i].phys .. regions[i].phys + regions[i].size - 1
=============================================================================
