----------------------------- MODULE PcieProbe -----------------------------
(***************************************************************************)
(* brcm_pcie_probe and brcm_pcie_remove of pcie_brcmstb.c: what the library *)
(* reads from the device tree, and how it programs the root complex from    *)
(* it.  Addresses are counted in the units of PciAuto; CPU addresses are    *)
(* wider than Wrap.  One action is one step that can fail or that leaves    *)
(* the registers changed.                                                   *)
(***************************************************************************)
EXTENDS Sequences, FiniteSets, SequencesExt, PciAddress

CONSTANTS Boards,    \* device tree, memory list and revision of the machines: see BoardOK
          PhysWrap,  \* 2^64, in units
          DmaEnd,    \* PCIE_DMA_WIN_END
          Megabyte,  \* the granularity of an outbound window, in units
          Banks,     \* CONFIG_NR_DRAM_BANKS
          OutWins    \* BRCM_NUM_PCIE_OUT_WINS

Properties == {"node", "mmio", "msi", "cells", "ranges", "dma-ranges"}
Range3     == [bus : Nat, cpu : Nat, size : Nat]
RangeType  == [space : {"config", "io", "mem", "prefetch"}, bus : Nat, cpu : Nat, size : Nat]
BankType   == [fast : BOOLEAN, lower : Nat, upper : Nat]
EntryType  == [pin : Nat, number : Nat, spi : BOOLEAN, usable : BOOLEAN]

BoardOK(b) ==
    /\ b.has \subseteq Properties         \* what brcm_devtree_parse and the walks look up
    /\ b.dma \in Seq(Range3)              \* dma-ranges
    /\ b.ranges \in Seq(RangeType)
    /\ b.memory \in Seq(BankType)
    /\ b.mmio.phys \in Nat /\ b.mmio.virt \in Nat /\ b.mmio.size \in Nat
    /\ b.intmap \in Seq(EntryType)        \* interrupt-map; usable: the parent is
    /\ b.rev33 \in BOOLEAN                \* hw_rev >= BRCM_PCIE_HW_REV_33
    /\ IsFiniteSet(b.programs)            \* who reserves boards, see PcieBoards

PowersOf2 == {2 ^ i : i \in 0 .. 30}

ASSUME ProbeAssumption ==
    /\ PhysWrap \in Nat /\ Wrap <= PhysWrap
    /\ DmaEnd \in PowersOf2 /\ DmaEnd <= Wrap    \* 2 GiB, in units of two bytes or more
    /\ Megabyte \in Nat \ {0} /\ Banks \in Nat /\ OutWins \in Nat
    /\ \A b \in Boards : BoardOK(b)

VARIABLES
    board,      \* the machine
    stage,      \* how far pcie_hw_init is
    regions,    \* the table pci_get_devtree_regions last made: [kind, bus, phys, size]
    dma,        \* the inbound window: [phys, bus, size]
    lines,      \* INT_x_mapping
    perst,      \* is PERST# asserted, and the bridge logic held in reset
    bar2,       \* RC_BAR2: [offset, size]; size 0 is a disabled window
    win,        \* the outbound windows: [bus, base, limit], the last two in Megabytes
    masked,     \* all of MSI_INTR2 is masked
    gic400,     \* gic400Base
    demux       \* the MSI demultiplexer is registered with gic400

ctrlVars  == <<regions, dma, lines>>
rcVars    == <<perst, bar2, win, masked>>
probeVars == <<board, stage, ctrlVars, rcVars, gic400, demux>>

NoDma    == [phys |-> 0, bus |-> 0, size |-> 0]
Disabled == [offset |-> 0, size |-> 0]
Least(a, b) == IF a <= b THEN a ELSE b

\* The entries of s at the indices of I, in their order; SelectSeq in terms of it, which
\* is not recursive.
Entries(s, I) == [k \in 1 .. Cardinality(I) |-> s[CHOOSE i \in I : Cardinality({j \in I : j <= i}) = k]]
Kept(s, Test(_)) == Entries(s, {i \in DOMAIN s : Test(s[i])})

\* The registers as the firmware leaves them; nothing of the library exists yet.
ProbeInit ==
    /\ board \in Boards /\ stage = "down"
    /\ regions = <<>> /\ dma = NoDma /\ lines = [p \in 1 .. 4 |-> 0]
    /\ perst \in BOOLEAN /\ bar2 = Disabled /\ win = <<>> /\ masked \in BOOLEAN
    /\ gic400 = FALSE /\ demux = FALSE

Step(from, to) == stage = from /\ stage' = to

\* INT_x_mapping after the walk of interrupt-map: a later entry for a pin replaces an
\* earlier one, and the first one whose parent the walk cannot use ends it.
Mapping(m) ==
    LET after[i \in 0 .. Len(m)] ==
            IF i = 0 THEN [ended |-> FALSE, line |-> [p \in 1 .. 4 |-> 0]]
            ELSE IF after[i - 1].ended \/ ~m[i].usable THEN [after[i - 1] EXCEPT !.ended = TRUE]
            ELSE IF m[i].pin \in 1 .. 4 /\ m[i].spi
                 THEN [after[i - 1] EXCEPT !.line[m[i].pin] = m[i].number + 32]
            ELSE after[i - 1]
    IN after[Len(m)].line

\* brcm_devtree_parse; the MSI line is looked up last.
DevtreeParse ==
    /\ Step("ctrl", "parsed")
    /\ {"node", "mmio", "msi"} \subseteq board.has
    /\ lines' = Mapping(board.intmap)
    /\ UNCHANGED <<board, regions, dma, rcVars, gic400, demux>>

\* SW_INIT_1, HARD_DEBUG and MISC_CTRL.
ResetBridge ==
    /\ Step("parsed", "reset") /\ perst' = TRUE
    /\ UNCHANGED <<board, ctrlVars, bar2, win, masked, gic400, demux>>

\* Mutant of DmaWindow: the window is where the device tree has it.
DmaWindowDevtree(r) == [phys |-> r.cpu, bus |-> r.bus % Wrap, size |-> Least(r.size, DmaEnd - r.cpu)]

\* brcm_pcie_dma_window: at the CPU's own addresses, below DmaEnd.
DmaWindow(r) == [phys |-> r.cpu, bus |-> r.cpu, size |-> Least(r.size, DmaEnd - r.cpu)]

DmaUsable ==
    /\ {"cells", "dma-ranges"} \subseteq board.has /\ board.dma # <<>>
    /\ board.dma[1].size # 0 /\ board.dma[1].cpu < DmaEnd

FindDmaWindow ==
    /\ Step("reset", "dma") /\ DmaUsable
    /\ dma' = DmaWindow(board.dma[1])
    /\ UNCHANGED <<board, regions, lines, rcVars, gic400, demux>>

\* The records of ranges that become regions: the library's addresses hold them.
Accepted(r) ==
    /\ r.space # "config" /\ r.size # 0
    /\ r.bus < Wrap /\ r.size < Wrap /\ r.bus + r.size <= Wrap /\ r.cpu + r.size <= PhysWrap

Outbound(r) == [kind |-> r.space, bus |-> r.bus, phys |-> r.cpu, size |-> r.size]

Outbounds(b) == LET out == Kept(b.ranges, Accepted) IN [i \in DOMAIN out |-> Outbound(out[i])]

\* The Fast RAM the inbound window covers.
Reachable(m) == /\ m.fast /\ m.lower < m.upper
                /\ dma.phys <= m.lower /\ m.upper <= dma.phys + dma.size

Ram(m) == [kind |-> "ram", bus |-> (m.lower + (dma.bus - dma.phys)) % Wrap,
           phys |-> m.lower, size |-> m.upper - m.lower]

RamRegions ==
    LET rams == Kept(board.memory, Reachable)
    IN [i \in 1 .. Least(Len(rams), Banks) |-> Ram(rams[i])]

\* pci_get_devtree_regions
DevtreeRegions ==
    /\ Step("dma", "regions")
    /\ {"cells", "ranges"} \subseteq board.has
    /\ regions' = Outbounds(board) \o RamRegions
    /\ UNCHANGED <<board, dma, lines, rcVars, gic400, demux>>

\* round_up_pow2_u64, and what brcm_pcie_encode_ibar_size makes of it: a power of two.
InboundSize(size) == CHOOSE p \in PowersOf2 : size <= p /\ \A q \in PowersOf2 : size <= q => p <= q

\* Mutant of Inbound: PERST# is released before the MSIs are masked.
InboundReleases ==
    /\ Step("regions", "windows")
    /\ bar2' = [offset |-> (dma.bus - dma.phys) % Wrap, size |-> InboundSize(dma.size)]
    /\ perst' = FALSE
    /\ UNCHANGED <<board, ctrlVars, win, masked, gic400, demux>>

\* RC_BAR2 and SCB0_SIZE, RC_BAR1 and RC_BAR3 off.  What the window decodes starts at CPU
\* address 0.
Inbound ==
    /\ Step("regions", "windows")
    /\ bar2' = [offset |-> (dma.bus - dma.phys) % Wrap, size |-> InboundSize(dma.size)]
    /\ UNCHANGED <<board, ctrlVars, win, perst, masked, gic400, demux>>

\* MSI_INTR2_MASK_SET and MSI_INTR2_CLR of every bit.
MaskAll ==
    /\ Step("windows", "masked") /\ masked' = TRUE
    /\ UNCHANGED <<board, ctrlVars, win, perst, bar2, gic400, demux>>

\* PERST# is released: the devices behind the link start.
ReleasePerst ==
    /\ Step("masked", "inbound") /\ perst' = FALSE
    /\ UNCHANGED <<board, ctrlVars, win, masked, bar2, gic400, demux>>

\* The link comes up within 100 ms and the controller is a root complex.
LinkUp ==
    /\ Step("inbound", "outbound") /\ win' = <<>>
    /\ UNCHANGED <<board, ctrlVars, perst, bar2, masked, gic400, demux>>

Windowed == Kept(regions, LAMBDA r : r.kind = "mem")

\* Mutant of OutboundWin: the limit is one Megabyte too high.
OutboundWinHigh(r) == [bus |-> r.bus, base |-> r.phys \div Megabyte,
                       limit |-> (r.phys + r.size) \div Megabyte]

\* brcm_pcie_set_outbound_win
OutboundWin(r) == [bus |-> r.bus, base |-> r.phys \div Megabyte,
                   limit |-> (r.phys + r.size - 1) \div Megabyte]

\* One window; a window the last bring-up left programmed keeps its value until then.
SetOutboundWin ==
    /\ stage = "outbound" /\ Len(win) < Least(Len(Windowed), OutWins)
    /\ win' = Append(win, OutboundWin(Windowed[Len(win) + 1]))
    /\ UNCHANGED <<board, stage, ctrlVars, perst, bar2, masked, gic400, demux>>

\* Class code, SSC (whose failure is ignored), endianness, CRS and ASPM; the revision is
\* checked last.
Finetune ==
    /\ Step("outbound", "tuned") /\ Len(win) = Len(Windowed) /\ board.rev33
    /\ UNCHANGED <<board, ctrlVars, rcVars, gic400, demux>>

OpenGic400 ==
    /\ Step("tuned", "gic400") /\ gic400' = TRUE
    /\ UNCHANGED <<board, ctrlVars, rcVars, demux>>

\* brcm_msi_demux_enable
DemuxEnable ==
    /\ Step("gic400", "probed") /\ demux' = TRUE
    /\ UNCHANGED <<board, ctrlVars, rcVars, gic400>>

ProbeNext == \/ DevtreeParse \/ ResetBridge \/ FindDmaWindow \/ DevtreeRegions \/ Inbound
             \/ MaskAll \/ ReleasePerst \/ LinkUp \/ SetOutboundWin \/ Finetune \/ OpenGic400 \/ DemuxEnable

\* Where brcm_pcie_probe may return an error: something the device tree lacks, memory,
\* the link or the mode of the controller, a fifth window, an old revision, gic400.library.
ProbeStages == {"ctrl", "reset", "dma", "inbound", "outbound", "tuned", "gic400"}
Refused(s) ==
    CASE s = "ctrl"     -> ~({"node", "mmio", "msi"} \subseteq board.has)
      [] s = "reset"    -> ~DmaUsable
      [] s = "outbound" -> Len(win) = Least(Len(Windowed), OutWins) /\ (Len(Windowed) > OutWins \/ ~board.rev33)
      [] OTHER          -> TRUE

\* brcm_pcie_close_gic400, then pcie_hw_init's err_probe: the controller structure is
\* freed.  Its registers stay as they are, and so does the table of its regions, which
\* nothing points to any more.
ProbeFails ==
    /\ stage \in ProbeStages /\ Refused(stage)
    /\ stage' = "down"
    /\ dma' = NoDma /\ lines' = [p \in 1 .. 4 |-> 0]
    /\ gic400' = FALSE
    /\ UNCHANGED <<board, regions, rcVars, demux>>

\* brcm_pcie_remove: brcm_msi_demux_disable, brcm_pcie_close_gic400, the reset, and the
\* regions are freed; the windows stay programmed, and so does the mask.
RemoveController ==
    /\ demux' = FALSE /\ gic400' = FALSE /\ perst' = TRUE
    /\ regions' = <<>> /\ dma' = NoDma /\ lines' = [p \in 1 .. 4 |-> 0]
    /\ UNCHANGED <<board, bar2, win, masked>>
=============================================================================
