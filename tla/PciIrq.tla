------------------------------- MODULE PciIrq -------------------------------
(***************************************************************************)
(* The interrupt core and its back-end: the demux-slot pool, the choice of *)
(* interrupt type, servers, runtime masks (pci_irq.c, pcie_msi.c,          *)
(* pcie_msix.c, pci_int.c), the MSI demux of the root complex              *)
(* (pcie_brcmstb_msi.c) and the calls of pcie_irq.c that reach them.       *)
(*                                                                         *)
(* Tasks calling Alloc/Free/Add/Rem hold the library semaphore: "op" is    *)
(* the call that holds it, one register write or field update per step.    *)
(* MaskIntVector/UnmaskIntVector take no lock: each "masker" is a task     *)
(* between reading dev->active and writing the mask register.  The demux   *)
(* interrupt preempts tasks anywhere and tasks never preempt it.  Devices  *)
(* and the PCIe fabric run beside all of them.                             *)
(***************************************************************************)
EXTENDS Integers, FiniteSets

CONSTANTS
    Dev,        \* the PCI functions
    Line,       \* the GIC lines INTA..INTD are routed to
    NSlots,     \* MSI_MAX_VECTORS (32 in the code)
    MsixSize,   \* [Dev -> Nat]: entries of the usable MSI-X table, 0 = no table
    MsiMax,     \* [Dev -> Nat]: 1 << log2_max_vecs, 0 = no MSI capability
    Maskable,   \* [Dev -> BOOLEAN]: the MSI capability has per-vector mask bits
    DevLine,    \* [Dev -> Line \cup {NoLine}]: intx.gic_irq, NoLine = not routed
    Request,    \* the [min, max, flags] drivers pass to AllocIntVectors
    Masker,     \* tasks that may be inside MaskIntVector/UnmaskIntVector
    TaskCalls,  \* the lock-free calls tasks make outside the mask-in-server pattern
    FlrDev,     \* the devices that offer a Function Level Reset
    Raisers,    \* SUBSET (Dev \X Vec): the vectors whose devices raise interrupts
    NoDev, NoLine

Slot == 0 .. NSlots - 1
Vec  == 0 .. NSlots - 1

Msgs     == {"MSIX", "MSI"}          \* the message-signalled types
Types    == Msgs \cup {"INTX"}
MsgOf    == [dev : Dev, slot : Slot]

ASSUME ConstAssumption ==
    /\ NSlots \in Nat \ {0}
    /\ IsFiniteSet(Dev)
    /\ NoDev \notin Dev
    /\ NoLine \notin Line
    /\ MsixSize \in [Dev -> Nat]
    /\ MsiMax \in [Dev -> Nat]
    /\ Maskable \in [Dev -> BOOLEAN]
    /\ DevLine \in [Dev -> Line \cup {NoLine}]
    /\ Request \subseteq [min : Nat, max : Nat, flags : SUBSET Types]
    /\ TaskCalls \subseteq {"mask", "unmask", "intx"}
    /\ FlrDev \subseteq Dev
    /\ Raisers \subseteq Dev \X Vec

VARIABLES
    \* pcie->msi and the root complex's INTR2 registers
    used,       \* bitmap of reserved slots
    servers,    \* servers[s]: the device whose server is bound to s, NoDev if none
    status,     \* INTR2 STATUS: slots that latched a message
    mask,       \* INTR2 MASK: masked slots
    \* dev->active
    mode, nvec, slots,
    intxServer, \* devices whose active.intx_server is set
    \* the devices' registers
    enabled,    \* devices with MSI or MSI-X enabled
    open,       \* open[d]: vectors whose MSI-X entry or MSI mask bit is clear
    intxOn,     \* devices with PCI_COMMAND.INTX_DISABLE clear
    \* gic400
    gic,        \* gic[l]: the device whose server is registered on line l
    \* control
    op,         \* the call holding the library semaphore
    masker,     \* masker[m]: the register write m is about to do
    isr,        \* the demux interrupt server's progress
    \* the fabric, and what the drivers still have to do
    inflight,   \* messages on their way to the root complex
    work,       \* vectors with an interrupt their server has not served yet
    deferred,   \* vectors masked in their server, the task is to drain and unmask
    stale       \* history: slots that held a message when a server was bound

poolVars  == <<used, mode, nvec, slots>>
demuxVars == <<servers, status, mask>>
devVars   == <<enabled, open>>
intxVars  == <<intxServer, intxOn, gic>>
ctlVars   == <<op, masker, isr>>
envVars   == <<inflight, work, deferred, stale>>
vars == <<poolVars, demuxVars, devVars, intxVars, ctlVars, envVars>>

-----------------------------------------------------------------------------
Lesser(a, b) == IF a <= b THEN a ELSE b

OpIdle   == [pc |-> "idle", dev |-> NoDev, vec |-> 0, free |-> FALSE]
IsrIdle  == [active |-> FALSE, todo |-> {}, cur |-> {}]
MaskIdle == [act |-> "idle", slot |-> 0]

At(pc, d, v, fr) == [pc |-> pc, dev |-> d, vec |-> v, free |-> fr]

TaskRuns == ~isr.active                          \* one CPU: no task runs under an ISR
Unlocked == TaskRuns /\ op.pc = "idle"           \* ObtainSemaphore succeeds

\* The vector's demux slot, and the server pci_irq_vec_server finds.
SlotOf(d, v)    == slots[d][v]
HasServer(d, v) == IF mode[d] = "INTX" THEN d \in intxServer
                                       ELSE servers[SlotOf(d, v)] # NoDev

\* A closed vector cannot send; MSI without mask bits has no gate.
HasGate(d) == mode[d] = "MSIX" \/ Maskable[d]

\* The slots the device's allocation still reserves: from pci_irq_vectors_alloc
\* to pci_irq_slots_free.
Holds(d) == /\ mode[d] \in Msgs
            /\ ~(op.dev = d /\ op.pc \in {"clear_mode", "clear_nvec"})
Held(d)  == IF Holds(d) THEN {SlotOf(d, v) : v \in 0 .. nvec[d] - 1} ELSE {}

Init ==
    /\ used = {}
    /\ servers = [s \in Slot |-> NoDev]
    /\ status = {}
    /\ mask = Slot
    /\ mode = [d \in Dev |-> "none"]
    /\ nvec = [d \in Dev |-> 0]
    /\ slots = [d \in Dev |-> [v \in Vec |-> 0]]
    /\ intxServer = {}
    /\ enabled = {}
    /\ open = [d \in Dev |-> {}]
    /\ intxOn = Dev
    /\ gic = [l \in Line |-> NoDev]
    /\ op = OpIdle
    /\ masker = [m \in Masker |-> MaskIdle]
    /\ isr = IsrIdle
    /\ inflight = {} /\ work = {} /\ deferred = {} /\ stale = {}

-----------------------------------------------------------------------------
(* Allocation: pci_irq_vectors_alloc.  Nothing outside sees it half done:  *)
(* no server is bound yet and the lock-free calls see nvec = 0 until its   *)
(* last assignment.                                                        *)

FreeSlots == Slot \ used
Lo(r) == IF r.min < 1 THEN 1 ELSE r.min
Hi(r) == Lesser(r.max, NSlots)

\* pci_irq_slots_alloc_any: f lists the k lowest free slots, in order.
LowestFree(f, k) ==
    /\ f \in [0 .. k - 1 -> FreeSlots]
    /\ \A i, j \in 0 .. k - 1 : i < j => f[i] < f[j]
    /\ \A s \in FreeSlots, i \in 0 .. k - 1 :
          s < f[i] => \E j \in 0 .. k - 1 : f[j] = s

\* slots_alloc_any writes active.slots[] whether or not the allocation succeeds.
Listed(d, f, k) == [v \in Vec |-> IF v < k THEN f[v] ELSE slots[d][v]]

\* pci_irq_slots_free: the first k slots of a device's list leave the bitmap.
FreeListed(bits, list, k) == bits \ {list[v] : v \in 0 .. k - 1}

\* Mutant of RolledBack: the last of the k slots is not given back.
RolledBackShort(d, f, k) ==
    FreeListed(used \cup {f[i] : i \in 0 .. k - 1}, Listed(d, f, k), k - 1)

\* The bitmap after an MSI-X attempt that found too few slots: the k it reserved
\* are freed again by the list it wrote them to.
RolledBack(d, f, k) ==
    FreeListed(used \cup {f[i] : i \in 0 .. k - 1}, Listed(d, f, k), k)

MsixTried(d, r)  == "MSIX" \in r.flags /\ MsixSize[d] > 0
MsixCount(d, r)  == IF MsixTried(d, r)
                    THEN Lesser(Lesser(Hi(r), MsixSize[d]), Cardinality(FreeSlots))
                    ELSE 0
MsixFits(d, r)   == MsixTried(d, r) /\ MsixCount(d, r) >= Lo(r)

\* pci_msi_alloc: block sizes tried, and the aligned blocks still free.
PowersOfTwo     == {n \in 1 .. NSlots : \E k \in 0 .. NSlots : n = 2 ^ k}
MsiSizes(d, r)  == IF "MSI" \in r.flags
                   THEN {n \in PowersOfTwo : Lo(r) <= n /\ n <= Hi(r) /\ n <= MsiMax[d]}
                   ELSE {}
Block(base, n)  == base .. base + n - 1

\* Mutants of FreeBlocks: every base is tried; only the base slot is tested.
FreeBlocksOverrun(bits, n)   == {base \in Slot : Block(base, n) \cap bits = {}}
FreeBlocksUnaligned(bits, n) == {base \in FreeBlocksOverrun(bits, n) : base + n <= NSlots}
FreeBlocksBaseOnly(bits, n)  == {base \in Slot \ bits : base % n = 0 /\ base + n <= NSlots}

FreeBlocks(bits, n) == {base \in Slot : /\ base % n = 0
                                        /\ base + n <= NSlots
                                        /\ Block(base, n) \cap bits = {}}
MsiFits(d, r, bits, n, base) ==
    /\ n \in MsiSizes(d, r) /\ base \in FreeBlocks(bits, n)
    /\ \A m \in MsiSizes(d, r) : m > n => FreeBlocks(bits, m) = {}
    /\ \A b \in FreeBlocks(bits, n) : base <= b
NoMsiFits(d, r, bits) == \A n \in MsiSizes(d, r) : FreeBlocks(bits, n) = {}

IntxFits(d, r) == "INTX" \in r.flags /\ Lo(r) = 1 /\ DevLine[d] # NoLine

CanAlloc(d, r) == Unlocked /\ mode[d] = "none" /\ Lo(r) <= Hi(r)

\* What a successful message-signalled allocation records and programs: every
\* vector closed, INTx dropped, the capability enabled.
Program(d, type, n, list, bits, next) ==
    /\ used' = bits \cup {list[v] : v \in 0 .. n - 1}
    /\ mode' = [mode EXCEPT ![d] = type]
    /\ nvec' = [nvec EXCEPT ![d] = n]
    /\ slots' = [slots EXCEPT ![d] = list]
    /\ enabled' = enabled \cup {d}
    /\ open' = [open EXCEPT ![d] = {}]
    /\ intxOn' = intxOn \ {d}
    /\ op' = next
    /\ UNCHANGED <<demuxVars, intxServer, gic, masker, isr, envVars>>

AllocMsix(d, r) ==
    /\ CanAlloc(d, r) /\ MsixFits(d, r)
    /\ \E f \in [0 .. MsixCount(d, r) - 1 -> FreeSlots] :
          /\ LowestFree(f, MsixCount(d, r))
          /\ Program(d, "MSIX", MsixCount(d, r), Listed(d, f, MsixCount(d, r)), used, op)

MsiList(d, f, k, n, base) ==
    [v \in Vec |-> IF v < n THEN base + v ELSE Listed(d, f, k)[v]]

AllocMsi(d, r, next) ==
    /\ CanAlloc(d, r) /\ ~MsixFits(d, r)
    /\ \E n \in PowersOfTwo, base \in Slot, f \in [0 .. MsixCount(d, r) - 1 -> FreeSlots] :
          LET bits == RolledBack(d, f, MsixCount(d, r)) IN
          /\ LowestFree(f, MsixCount(d, r))
          /\ MsiFits(d, r, bits, n, base)
          /\ Program(d, "MSI", n, MsiList(d, f, MsixCount(d, r), n, base), bits, next)

\* INTx needs no slots; a failure of all types leaves only the scratched list.
AllocIntxOrFail(d, r) ==
    /\ CanAlloc(d, r) /\ ~MsixFits(d, r)
    /\ \E f \in [0 .. MsixCount(d, r) - 1 -> FreeSlots] :
          LET bits == RolledBack(d, f, MsixCount(d, r)) IN
          /\ LowestFree(f, MsixCount(d, r))
          /\ NoMsiFits(d, r, bits)
          /\ used' = bits
          /\ slots' = [slots EXCEPT ![d] = Listed(d, f, MsixCount(d, r))]
    /\ IF IntxFits(d, r)
       THEN mode' = [mode EXCEPT ![d] = "INTX"] /\ nvec' = [nvec EXCEPT ![d] = 1]
       ELSE UNCHANGED <<mode, nvec>>
    /\ UNCHANGED <<demuxVars, devVars, intxVars, ctlVars, envVars>>

-----------------------------------------------------------------------------
(* Attaching a server: pci_irq_add_server and brcm_msi_slot_bind.          *)

BindServer(d, v) ==
    /\ TaskRuns
    /\ \/ op.pc = "idle"
       \/ op.pc = "added" /\ op.dev = d /\ op.vec = v
    /\ v < nvec[d] /\ mode[d] \in Msgs /\ ~HasServer(d, v)
    /\ servers' = [servers EXCEPT ![SlotOf(d, v)] = d]
    /\ stale' = stale \cup (status \cap {SlotOf(d, v)})
    /\ op' = At("bind_clr", d, v, FALSE)
    /\ UNCHANGED <<poolVars, status, mask, devVars, intxVars, masker, isr,
                   inflight, work, deferred>>

\* What the device raised before its server is bound is dropped.
BindClear ==
    /\ TaskRuns /\ op.pc = "bind_clr"
    /\ LET s == SlotOf(op.dev, op.vec) IN
          status' = status \ {s} /\ stale' = stale \ {s}
    /\ work' = work \ {<<op.dev, op.vec>>}
    /\ op' = [op EXCEPT !.pc = "bind_unmask"]
    /\ UNCHANGED <<poolVars, servers, mask, devVars, intxVars, masker, isr,
                   inflight, deferred>>

\* Mutant of BindUnmask: a bound slot is left masked.
BindUnmaskForgotten ==
    /\ TaskRuns /\ op.pc = "bind_unmask"
    /\ op' = [op EXCEPT !.pc = "vec_open"]
    /\ UNCHANGED <<poolVars, demuxVars, devVars, intxVars, masker, isr, envVars>>

BindUnmask ==
    /\ TaskRuns /\ op.pc = "bind_unmask"
    /\ mask' = mask \ {SlotOf(op.dev, op.vec)}
    /\ op' = [op EXCEPT !.pc = "vec_open"]
    /\ UNCHANGED <<poolVars, servers, status, devVars, intxVars, masker, isr, envVars>>

VecOpen ==
    /\ TaskRuns /\ op.pc = "vec_open"
    /\ open' = [open EXCEPT ![op.dev] = @ \cup {op.vec}]
    /\ op' = OpIdle
    /\ UNCHANGED <<poolVars, demuxVars, enabled, intxVars, masker, isr, envVars>>

\* Who may attach: a call that finds the semaphore free, or the AddIntServer that
\* has just allocated for d.
MayAttach(d) == TaskRuns /\ (op.pc = "idle" \/ (op.pc = "added" /\ op.dev = d))

\* Mutant of AddIntx: the refusal of gic400 is ignored.
AddIntxUnrefused(d) ==
    /\ MayAttach(d) /\ mode[d] = "INTX" /\ nvec[d] > 0 /\ d \notin intxServer
    /\ op' = At("intx_set", d, 0, FALSE)
    /\ UNCHANGED <<poolVars, demuxVars, devVars, intxVars, masker, isr, envVars>>

\* INTx: gic400 takes one server per line; the second is refused (-EBUSY).
AddIntx(d) ==
    /\ MayAttach(d) /\ mode[d] = "INTX" /\ nvec[d] > 0 /\ d \notin intxServer
    /\ gic[DevLine[d]] = NoDev
    /\ gic' = [gic EXCEPT ![DevLine[d]] = d]
    /\ op' = At("intx_set", d, 0, FALSE)
    /\ UNCHANGED <<poolVars, demuxVars, devVars, intxServer, intxOn, masker, isr, envVars>>

IntxSet ==
    /\ TaskRuns /\ op.pc = "intx_set"
    /\ intxServer' = intxServer \cup {op.dev}
    /\ op' = [op EXCEPT !.pc = "intx_on"]
    /\ UNCHANGED <<poolVars, demuxVars, devVars, intxOn, gic, masker, isr, envVars>>

IntxEnable ==
    /\ TaskRuns /\ op.pc = "intx_on"
    /\ intxOn' = intxOn \cup {op.dev}
    /\ op' = OpIdle
    /\ UNCHANGED <<poolVars, demuxVars, devVars, intxServer, gic, masker, isr, envVars>>

\* LibAddIntServer: allocate and attach under one hold of the semaphore.
AddIntServerMsi(d) ==
    AllocMsi(d, [min |-> 1, max |-> 1, flags |-> {"MSI"}], At("added", d, 0, FALSE))

AddIntServerIntx(d) ==
    /\ Unlocked /\ mode[d] = "none" /\ DevLine[d] # NoLine
    /\ mode' = [mode EXCEPT ![d] = "INTX"] /\ nvec' = [nvec EXCEPT ![d] = 1]
    /\ op' = At("added", d, 0, FALSE)
    /\ UNCHANGED <<used, slots, demuxVars, devVars, intxVars, masker, isr, envVars>>

\* gic400 refuses: the allocation is rolled back by pci_irq_vectors_free.
RefuseIntx ==
    /\ TaskRuns /\ op.pc = "added"
    /\ mode[op.dev] = "INTX" /\ gic[DevLine[op.dev]] # NoDev
    /\ op' = At("detach", op.dev, 0, TRUE)
    /\ UNCHANGED <<poolVars, demuxVars, devVars, intxVars, masker, isr, envVars>>

-----------------------------------------------------------------------------
(* Detaching: pci_irq_rem_server and brcm_msi_slot_unbind, on their own or *)
(* for every vector still attached in pci_irq_vectors_free.                *)

\* Mutant of VecClose: the device gate stays open.
VecCloseForgotten(d, v, fr) ==
    /\ op' = At("unbind_mask", d, v, fr)
    /\ UNCHANGED <<poolVars, demuxVars, devVars, intxVars, masker, isr, envVars>>

VecClose(d, v, fr) ==
    /\ open' = [open EXCEPT ![d] = @ \ {v}]
    /\ op' = At("unbind_mask", d, v, fr)
    /\ UNCHANGED <<poolVars, demuxVars, enabled, intxVars, masker, isr, envVars>>

\* INTx: the device is quieted before its server goes.
DetachIntx(d, fr) ==
    /\ intxOn' = intxOn \ {d}
    /\ op' = At("intx_gic", d, 0, fr)
    /\ UNCHANGED <<poolVars, demuxVars, devVars, intxServer, gic, masker, isr, envVars>>

RemIntVectorServer(d, v) ==
    /\ Unlocked /\ v < nvec[d] /\ HasServer(d, v)
    /\ IF mode[d] = "INTX" THEN DetachIntx(d, FALSE) ELSE VecClose(d, v, FALSE)

IntxRemove ==
    /\ TaskRuns /\ op.pc = "intx_gic"
    /\ gic' = [gic EXCEPT ![DevLine[op.dev]] = NoDev]
    /\ op' = [op EXCEPT !.pc = "intx_null"]
    /\ UNCHANGED <<poolVars, demuxVars, devVars, intxServer, intxOn, masker, isr, envVars>>

IntxNull ==
    /\ TaskRuns /\ op.pc = "intx_null"
    /\ intxServer' = intxServer \ {op.dev}
    /\ work' = work \ {<<op.dev, 0>>}
    /\ op' = IF op.free THEN At("detach", op.dev, 0, TRUE) ELSE OpIdle
    /\ UNCHANGED <<poolVars, demuxVars, devVars, intxOn, gic, masker, isr,
                   inflight, deferred, stale>>

UnbindMask ==
    /\ TaskRuns /\ op.pc = "unbind_mask"
    /\ mask' = mask \cup {SlotOf(op.dev, op.vec)}
    /\ op' = [op EXCEPT !.pc = "unbind_null"]
    /\ UNCHANGED <<poolVars, servers, status, devVars, intxVars, masker, isr, envVars>>

UnbindNull ==
    /\ TaskRuns /\ op.pc = "unbind_null"
    /\ servers' = [servers EXCEPT ![SlotOf(op.dev, op.vec)] = NoDev]
    /\ work' = work \ {<<op.dev, op.vec>>}
    /\ deferred' = deferred \ {<<op.dev, op.vec>>}
    /\ op' = IF op.free THEN At("detach", op.dev, 0, TRUE) ELSE OpIdle
    /\ UNCHANGED <<poolVars, status, mask, devVars, intxVars, masker, isr, inflight, stale>>

\* FreeIntVectors, and RemIntServer, whose rem_server is the first detach here.
FreeIntVectors(d) ==
    /\ Unlocked /\ mode[d] # "none"
    /\ op' = At("detach", d, 0, TRUE)
    /\ UNCHANGED <<poolVars, demuxVars, devVars, intxVars, masker, isr, envVars>>

FreeDetach ==
    /\ TaskRuns /\ op.pc = "detach"
    /\ \E v \in 0 .. nvec[op.dev] - 1 :
          /\ HasServer(op.dev, v)
          /\ \A u \in 0 .. v - 1 : ~HasServer(op.dev, u)
          /\ IF mode[op.dev] = "INTX" THEN DetachIntx(op.dev, TRUE)
                                      ELSE VecClose(op.dev, v, TRUE)

\* Mutants: the shutdown skips the detaching, or is a posted write.
DetachedUnchecked(d) == TRUE
FlushedPosted(d)     == TRUE

\* pci_msi_shutdown / pci_msix_shutdown.  Both read the capability's control word
\* and then write it with the enable bit clear, and neither reads it back.  The
\* write is a configuration write, which is not posted: the CPU waits for its
\* completion, and the completion does not pass the messages the device posted
\* before it.  The device sends none after it, so none is left in flight.
Detached(d) == \A v \in 0 .. nvec[d] - 1 : ~HasServer(d, v)
Flushed(d)  == \A m \in inflight : m.dev # d
FreeShutdown ==
    /\ TaskRuns /\ op.pc = "detach"
    /\ Detached(op.dev) /\ Flushed(op.dev)
    /\ enabled' = enabled \ {op.dev}
    /\ open' = IF mode[op.dev] = "MSI" /\ Maskable[op.dev]
               THEN [open EXCEPT ![op.dev] = Vec] ELSE open
    /\ op' = [op EXCEPT !.pc = IF mode[op.dev] = "INTX" THEN "clear_mode" ELSE "slots_free"]
    /\ UNCHANGED <<poolVars, demuxVars, intxVars, masker, isr, envVars>>

SlotsFree ==
    /\ TaskRuns /\ op.pc = "slots_free"
    /\ used' = FreeListed(used, slots[op.dev], nvec[op.dev])
    /\ op' = [op EXCEPT !.pc = "clear_mode"]
    /\ UNCHANGED <<mode, nvec, slots, demuxVars, devVars, intxVars, masker, isr, envVars>>

ClearMode ==
    /\ TaskRuns /\ op.pc = "clear_mode"
    /\ mode' = [mode EXCEPT ![op.dev] = "none"]
    /\ op' = [op EXCEPT !.pc = "clear_nvec"]
    /\ UNCHANGED <<used, nvec, slots, demuxVars, devVars, intxVars, masker, isr, envVars>>

ClearNvec ==
    /\ TaskRuns /\ op.pc = "clear_nvec"
    /\ nvec' = [nvec EXCEPT ![op.dev] = 0]
    /\ op' = OpIdle
    /\ UNCHANGED <<used, mode, slots, demuxVars, devVars, intxVars, masker, isr, envVars>>

-----------------------------------------------------------------------------
(* Runtime masks, without the semaphore: read dev->active, then write.     *)

\* pci_irq_vec_mask / pci_irq_vec_unmask up to the register write.
ReadSlot(m, d, v, act) ==
    /\ TaskRuns /\ masker[m] = MaskIdle
    /\ v < nvec[d] /\ mode[d] # "INTX"
    /\ masker' = [masker EXCEPT ![m] = [act |-> act, slot |-> SlotOf(d, v)]]

MaskIntVector(m, d, v, act) ==
    /\ act \in TaskCalls /\ ReadSlot(m, d, v, act)
    /\ UNCHANGED <<poolVars, demuxVars, devVars, intxVars, op, isr, envVars>>

\* brcm_msi_slot_mask / brcm_msi_slot_unmask.
WriteMask(m) ==
    /\ TaskRuns /\ masker[m].act # "idle"
    /\ mask' = IF masker[m].act = "mask" THEN mask \cup {masker[m].slot}
                                         ELSE mask \ {masker[m].slot}
    /\ masker' = [masker EXCEPT ![m] = MaskIdle]
    /\ UNCHANGED <<poolVars, servers, status, devVars, intxVars, op, isr, envVars>>

\* CheckSetINTxMask on any device, and Mask/UnmaskIntVector on an INTx one.
SetIntx(d, on) ==
    /\ TaskRuns /\ "intx" \in TaskCalls
    /\ intxOn' = IF on THEN intxOn \cup {d} ELSE intxOn \ {d}
    /\ UNCHANGED <<poolVars, demuxVars, devVars, intxServer, gic, ctlVars, envVars>>

\* The driver's task: drain the device, then UnmaskIntVector.
BottomHalf(m, d, v) ==
    /\ <<d, v>> \in deferred
    /\ ReadSlot(m, d, v, "unmask")
    /\ deferred' = deferred \ {<<d, v>>}
    /\ work' = work \ {<<d, v>>}
    /\ UNCHANGED <<poolVars, demuxVars, devVars, intxVars, op, isr, inflight, stale>>

\* LibFLR takes no semaphore either: the reset switches MSI and MSI-X off, puts
\* the gates in their reset state and re-enables INTx; dev->active stays.
Flr(d) ==
    /\ TaskRuns /\ d \in FlrDev
    /\ enabled' = enabled \ {d}
    /\ open' = [open EXCEPT ![d] = IF mode[d] = "MSIX" THEN {} ELSE Vec]
    /\ intxOn' = intxOn \cup {d}
    /\ UNCHANGED <<poolVars, demuxVars, intxServer, gic, ctlVars, envVars>>

-----------------------------------------------------------------------------
(* brcm_msi_demux_isr: snapshot STATUS, then per slot clear and call.      *)

DemuxEnter ==
    /\ ~isr.active /\ status \ mask # {}
    /\ isr' = [active |-> TRUE, todo |-> status, cur |-> {}]
    /\ UNCHANGED <<poolVars, demuxVars, devVars, intxVars, op, masker, envVars>>

\* Mutant of DemuxClear: all of STATUS is cleared for the slot.
DemuxClearAll ==
    /\ isr.active /\ isr.cur = {}
    /\ \E s \in isr.todo :
          /\ \A t \in isr.todo : s <= t
          /\ status' = {}
          /\ isr' = [isr EXCEPT !.todo = @ \ {s}, !.cur = {s}]
    /\ UNCHANGED <<poolVars, servers, mask, devVars, intxVars, op, masker, envVars>>

DemuxClear ==
    /\ isr.active /\ isr.cur = {}
    /\ \E s \in isr.todo :
          /\ \A t \in isr.todo : s <= t
          /\ status' = status \ {s}
          /\ isr' = [isr EXCEPT !.todo = @ \ {s}, !.cur = {s}]
    /\ UNCHANGED <<poolVars, servers, mask, devVars, intxVars, op, masker, envVars>>

\* The vectors the server bound to slot s serves.
ServedBy(s) == {<<servers[s], v>> : v \in {u \in 0 .. nvec[servers[s]] - 1 :
                                              SlotOf(servers[s], u) = s}}

\* A server drains its device itself, or masks its vector and signals its task.
DemuxCall ==
    /\ isr.active
    /\ \E s \in isr.cur :
          /\ \/ servers[s] = NoDev /\ UNCHANGED <<mask, work, deferred>>
             \/ /\ servers[s] # NoDev
                /\ work' = work \ ServedBy(s)
                /\ UNCHANGED <<mask, deferred>>
             \/ /\ servers[s] # NoDev
                /\ mask' = mask \cup {s}
                /\ deferred' = deferred \cup ServedBy(s)
                /\ UNCHANGED work
          /\ stale' = stale \ {s}
    /\ isr' = [isr EXCEPT !.cur = {}]
    /\ UNCHANGED <<poolVars, servers, status, devVars, intxVars, op, masker, inflight>>

DemuxExit ==
    /\ isr.active /\ isr.cur = {} /\ isr.todo = {}
    /\ isr' = IsrIdle
    /\ UNCHANGED <<poolVars, demuxVars, devVars, intxVars, op, masker, envVars>>

\* gic400 calls the one server of an asserted INTx line, which drains its device.
IntxInterrupt(l) ==
    /\ TaskRuns /\ gic[l] # NoDev
    /\ <<gic[l], 0>> \in work /\ gic[l] \in intxOn
    /\ work' = work \ {<<gic[l], 0>>}
    /\ UNCHANGED <<poolVars, demuxVars, devVars, intxVars, ctlVars, inflight, deferred, stale>>

-----------------------------------------------------------------------------
(* Devices and the fabric.                                                 *)

\* An MSI-X entry carries its own message; an MSI device replaces the low bits of
\* the one message it was given (for the block's base slot) by the vector.
MsgSlot(d, v) == IF mode[d] = "MSIX" THEN SlotOf(d, v)
                 ELSE SlotOf(d, 0) - (SlotOf(d, 0) % nvec[d]) + v

Raise(d, v) ==
    /\ <<d, v>> \in Raisers /\ d \in enabled /\ v < nvec[d]
    /\ HasGate(d) => v \in open[d]
    /\ inflight' = inflight \cup {[dev |-> d, slot |-> MsgSlot(d, v)]}
    /\ work' = work \cup {<<d, v>>}
    /\ UNCHANGED <<poolVars, demuxVars, devVars, intxVars, ctlVars, deferred, stale>>

RaiseIntx(d) ==
    /\ <<d, 0>> \in Raisers /\ d \in intxServer /\ d \in intxOn
    /\ work' = work \cup {<<d, 0>>}
    /\ UNCHANGED <<poolVars, demuxVars, devVars, intxVars, ctlVars, inflight, deferred, stale>>

\* A posted message reaches the root complex and latches, masked or not.
Arrive(msg) ==
    /\ msg \in inflight
    /\ inflight' = inflight \ {msg}
    /\ status' = status \cup {msg.slot}
    /\ UNCHANGED <<poolVars, servers, mask, devVars, intxVars, ctlVars, work, deferred, stale>>

-----------------------------------------------------------------------------
Locked ==
    \/ BindClear \/ BindUnmask \/ VecOpen \/ UnbindMask \/ UnbindNull
    \/ IntxSet \/ IntxEnable \/ RefuseIntx \/ IntxRemove \/ IntxNull
    \/ FreeDetach \/ FreeShutdown \/ SlotsFree \/ ClearMode \/ ClearNvec

Demux == DemuxEnter \/ DemuxClear \/ DemuxCall \/ DemuxExit

Next ==
    \/ \E d \in Dev, r \in Request :
          AllocMsix(d, r) \/ AllocMsi(d, r, op) \/ AllocIntxOrFail(d, r)
    \/ \E d \in Dev :
          \/ AddIntx(d) \/ AddIntServerMsi(d) \/ AddIntServerIntx(d)
          \/ FreeIntVectors(d) \/ Flr(d) \/ RaiseIntx(d)
    \/ \E d \in Dev, v \in Vec :
          BindServer(d, v) \/ RemIntVectorServer(d, v) \/ Raise(d, v)
    \/ Locked
    \/ \E m \in Masker, d \in Dev, v \in Vec :
          \/ BottomHalf(m, d, v)
          \/ \E act \in {"mask", "unmask"} : MaskIntVector(m, d, v, act)
    \/ \E m \in Masker : WriteMask(m)
    \/ \E d \in Dev, on \in BOOLEAN : SetIntx(d, on)
    \/ Demux
    \/ \E l \in Line : IntxInterrupt(l)
    \/ \E msg \in MsgOf : Arrive(msg)

Spec == Init /\ [][Next]_vars

-----------------------------------------------------------------------------
(* Properties.                                                             *)

Bound(d, v) == v < nvec[d] /\ mode[d] \in Msgs /\ servers[SlotOf(d, v)] = d

\* Types of all variables.
OpPc == {"idle", "added", "bind_clr", "bind_unmask", "vec_open", "unbind_mask",
         "unbind_null", "intx_set", "intx_on", "intx_gic", "intx_null", "detach", "slots_free", "clear_mode", "clear_nvec"}
TypeOK ==
    /\ used \subseteq Slot
    /\ servers \in [Slot -> Dev \cup {NoDev}]
    /\ status \subseteq Slot /\ mask \subseteq Slot /\ stale \subseteq Slot
    /\ mode \in [Dev -> Types \cup {"none"}]
    /\ nvec \in [Dev -> 0 .. NSlots]
    /\ slots \in [Dev -> [Vec -> Slot]]
    /\ intxServer \subseteq Dev /\ enabled \subseteq Dev /\ intxOn \subseteq Dev
    /\ open \in [Dev -> SUBSET Vec]
    /\ gic \in [Line -> Dev \cup {NoDev}]
    /\ op \in [pc : OpPc, dev : Dev \cup {NoDev}, vec : Vec, free : BOOLEAN]
    /\ op.pc # "idle" => op.dev \in Dev
    /\ masker \in [Masker -> [act : {"idle", "mask", "unmask"}, slot : Slot]]
    /\ isr \in [active : BOOLEAN, todo : SUBSET Slot, cur : SUBSET Slot]
    /\ inflight \subseteq MsgOf
    /\ work \subseteq Dev \X Vec /\ deferred \subseteq Dev \X Vec

\* The pool's bitmap and the devices' slot lists agree in every state, through
\* the steps of a teardown and the rollback of a failed allocation: no slot is
\* reserved twice, within a device or between two, and none leaks.
PoolExact ==
    /\ used = UNION {Held(d) : d \in Dev}
    /\ \A d, e \in Dev : d # e => Held(d) \cap Held(e) = {}
    /\ \A d \in Dev : Holds(d) =>
          \A u, v \in 0 .. nvec[d] - 1 : SlotOf(d, u) = SlotOf(d, v) => u = v

\* A server is bound only to a slot its own device still reserves, so freeing
\* and reallocating a slot can never leave it dispatching to the old driver.
ServersOnHeldSlots == \A s \in Slot : servers[s] # NoDev => s \in Held(servers[s])

\* Whatever the interleaving of an attach, a detach and a teardown, a device
\* can send on a gated vector only while its slot has a server.
OpenOnlyBound ==
    \A d \in enabled, v \in Vec :
       HasGate(d) /\ v \in open[d] => Bound(d, v)

\* A message on its way aims at a slot its sender still reserves: the shutdown
\* ends the device's sending before its slots return to the pool.
InflightHeld == \A m \in inflight : m.slot \in Held(m.dev)

\* No interrupt is lost: while a vector has a server and its device waits for
\* service, something will still bring the server or the task to it.
Pending(d, v) ==
    LET s == SlotOf(d, v) IN
      \/ [dev |-> d, slot |-> s] \in inflight
      \/ s \in status \cup isr.cur
      \/ <<d, v>> \in deferred
NoLostWork ==
    \A d \in Dev, v \in Vec :
       /\ <<d, v>> \in work /\ Bound(d, v)
       /\ ~(op.pc = "bind_clr" /\ op.dev = d /\ op.vec = v)
       => Pending(d, v)

\* The vectors of a multi-message MSI allocation are a block of 2^k slots
\* aligned to its size: the device ORs the vector into the base slot's low bits.
MsiBlocks ==
    \A d \in Dev : mode[d] = "MSI" /\ Holds(d) =>
       /\ nvec[d] \in PowersOfTwo
       /\ SlotOf(d, 0) % nvec[d] = 0
       /\ \A v \in 0 .. nvec[d] - 1 : SlotOf(d, v) = SlotOf(d, 0) + v

\* The call that holds the semaphore never loses its footing: whatever runs
\* between its steps, the server it binds or unbinds stays the device's, and from
\* the shutdown on the device can neither send nor have a server left.
CallConsistent ==
    /\ op.pc \in {"bind_clr", "bind_unmask", "vec_open", "unbind_mask", "unbind_null"}
          => Bound(op.dev, op.vec)
    /\ op.pc \in {"intx_set", "intx_on", "intx_gic", "intx_null"} => mode[op.dev] = "INTX"
    /\ op.pc \in {"detach", "clear_mode"} => mode[op.dev] # "none"
    /\ op.pc = "slots_free" =>
          mode[op.dev] \in Msgs /\ Detached(op.dev) /\ Flushed(op.dev)
    /\ op.pc = "clear_nvec" => mode[op.dev] = "none"
    /\ op.pc \in {"slots_free", "clear_mode", "clear_nvec"} => op.dev \notin enabled
    /\ \A d \in enabled : mode[d] \in Msgs
    /\ \A d \in Dev : /\ mode[d] \in Msgs => nvec[d] > 0
                      /\ mode[d] = "none" =>
                            nvec[d] = 0 \/ (op.pc = "clear_nvec" /\ op.dev = d)

\* gic400's registrations and active.intx_server agree, but for the device whose
\* server is just being attached or detached, and only a device whose allocation
\* is INTx has one: whatever two devices on one line do, be it a server added, one
\* refused and rolled back, or a teardown, neither ends up with a server gic400
\* does not call, nor gic400 with one its device has forgotten.
IntxRegistered ==
    /\ \A l \in Line : gic[l] # NoDev =>
          /\ DevLine[gic[l]] = l
          /\ gic[l] \in intxServer \/ (op.pc = "intx_set" /\ op.dev = gic[l])
    /\ \A d \in intxServer :
          /\ mode[d] = "INTX"
          /\ gic[DevLine[d]] = d \/ (op.pc = "intx_null" /\ op.dev = d)

\* pcie_brcmstb_msi.c on slot_bind: "Binding first drops whatever the slot still
\* holds", so no server runs for a message latched before it was bound.
NoStaleDispatch == \A s \in isr.cur : s \in stale => servers[s] = NoDev

\* The refinement: what the core does to the pool is what VectorPool allows.
Owner == [s \in Slot |-> IF \E d \in Dev : s \in Held(d)
                         THEN CHOOSE d \in Dev : s \in Held(d) ELSE NoDev]
Pool == INSTANCE VectorPool WITH owner <- Owner
ImplementsPool == Pool!Spec

\* Fairness: the semaphore holder, the tasks and the fabric make progress, and
\* interrupts leave the CPU to tasks again and again (strong fairness).
Fairness ==
    /\ SF_vars(Locked)
    /\ \A m \in Masker : SF_vars(WriteMask(m))
    /\ \A d \in Dev, v \in Vec : SF_vars(\E m \in Masker : BottomHalf(m, d, v))
    /\ WF_vars(Demux)
    /\ \A msg \in MsgOf : WF_vars(Arrive(msg))
FairSpec == Spec /\ Fairness

\* Every interrupt of a bound vector is served (or its server removed).
Served == \A d \in Dev, v \in Vec :
             (<<d, v>> \in work /\ Bound(d, v)) ~> <<d, v>> \notin work
=============================================================================
