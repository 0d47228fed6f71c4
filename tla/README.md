# Verification of the Emu68 BCM2711 PCIe library

This directory holds a TLA+ development for `bcmpcie.library`, the AmigaOS
library that drives the PCIe controller of the Raspberry Pi 4/CM4 under Emu68,
and for `openpci.library`, the thin shim in front of it.  The modules are
translated from the C sources; line references are in `PROJECT.json` ("map").

## 1. The system

| Component | State it keeps | Operations | What makes it correct |
|---|---|---|---|
| **Interrupt core** `pci_irq.c`, `pcie_msi.c`, `pcie_msix.c`, `pci_int.c` | the demux-slot bitmap `msi.used`; per device `active` (mode, nvec, slots, INTx server); MSI mask shadow; the device's MSI/MSI-X registers and `PCI_COMMAND.INTX_DISABLE` | alloc / free vectors, add / remove a server, mask / unmask a vector | bitmap = what the devices hold; nothing dispatches to a driver that left; no interrupt is lost |
| **Interrupt back-end** `pcie_brcmstb_msi.c` | `msi.servers[32]`, INTR2 STATUS and MASK, gic400 registrations | bind, unbind, mask, unmask a slot; the demux interrupt server; INTx registration | the same, seen from the interrupt side |
| **Interrupt LVOs** `pcie_irq.c` | the library semaphore | typed calls and the obsolete calls on the same core | the semaphore covers all but the runtime masks |
| **Configuration access** `pci_io.c`, `pcie_brcmstb.c:110-212`, `pcie_io.c` | the `EXT_CFG_INDEX` register shared by all functions behind the root port | read, write, read-modify-write | an access reaches the function it names; no update is lost |
| **Library lifecycle** `pcie_main.c` | open count, delayed-expunge flag, `ctrlReady`, controller, root bus, device list, DMA pool | Init, Open, Close, Expunge, `hw_init`, `hw_shutdown` | the hardware is up exactly while somebody has the library open; a failed open gives back what it took |
| **openpci.library** `openpci_main.c`, trampolines | its open count, the reference on bcmpcie.library | Open, Close, Expunge, forward a call | its count is its users'; one reference exactly while it is open; a call never finds none |
| **Board reservation** `pcie_board.c` | `pci_dev.owner` | ObtainCard, ReleaseCard, attributes, SetMaster, FLR | a board stays with its owner and comes free again; what a board reports is what the other calls accept |
| **Enumeration and auto-configuration** `pci_probe.c`, `pci_auto.c`, `pci_lookup.c`, `pci_util.c` | bus tree, bus-number counter, BAR values, bridge windows, region cursors | scan a bus, size and assign BARs, pre/post scan of a bridge | BARs disjoint, aligned, inside the windows of every bridge above |
| **Translation and DMA** `pci_bar.c`, `pcie_mem.c` | regions, DMA pool | CPU/PCI address translation, DMA allocation | round trip; no wrap at the window ends |
| **Device search, capabilities** `pcie_find.c`, `pci_capability.c` | none | list search, capability walk | a loop over a search visits every board once; a walk ends on a list that runs in a circle |
| **Controller bring-up** `pcie_brcmstb.c`, `vl805_reset.c` | regions, INTx lines, inbound and outbound windows, MSI mask, PERST# | read the device tree, reset, windows, link, demux; remove | CPU and DMA addresses get where the library says; no MSI gets through that nobody serves, also after a failure |
| **lspci** `pcie_list.c` | none | list boards, BARs, capabilities | the listing is complete and ends |

How they interact: drivers are Amiga tasks that call library vectors.  Most
calls take the library semaphore around one call into the core; runtime masks,
FLR, capability search and some attribute queries do not.  Devices post MSI
messages that the root complex latches in INTR2 STATUS; gic400 then calls the
demux server at interrupt level, which preempts tasks anywhere, clears each
latched bit and calls the driver's server, which may call `MaskIntVector`
itself.  There is one CPU: tasks do not run while a server does.

The hard behaviours: the demux interrupt between any two register writes of an
attach, detach or teardown; messages still on the fabric when MSI is turned
off; lock-free calls that read `dev->active` and write a register later; the
index/data configuration window; failure half way through a multi-type
allocation or a first open; a slot pool at its limit; opens and closes of the
shim that wait half way; addresses that five tables - device tree, windows,
regions, bridges, BARs - must agree about, in arithmetic that wraps at 4 GiB,
where the Pi 4 region ends.  `PROJECT.json` ("hazards") lists each with its line.

## 2. Plan and status

| Module | Models | Composes | State |
|---|---|---|---|
| `VectorPool` | what the slot pool promises: slots move only by a grant of free slots or a release of all of a device's slots | | done |
| `PciIrq` | interrupt core, back-end, LVOs, demux interrupt, fabric | instantiates `VectorPool` | done |
| `PciIrqProofs` | | extends `PciIrq` | done: invariance and refinement |
| `PciIrqServiceProofs` | | extends `PciIrqProofs` | done: INTx registrations, gates, no interrupt lost |
| `ConfigCalls` | the configuration calls as operators: register, effect, lock, reach | | done |
| `ConfigSpace` | abstract: each call acts on the registers in one step; a link change may spoil a call | extends `ConfigCalls` | done |
| `PcieConfig` | index and window, read-modify-write, link | extends `ConfigCalls`, instantiates `ConfigSpace` | done |
| `PcieConfigProofs` | | extends `PcieConfig` | done: types, addressing, INTx updates, atomicity |
| `SharedBus` | abstract: the users that share one bus | | done |
| `PcieLibrary` | open, close, expunge, bring-up and its error paths | instantiates `SharedBus` | done |
| `OpenPci` | the shim: first open, last close, expunge, forwarding | extends `PcieLibrary`, as its client | done |
| `PcieLibraryProofs` | | extends `OpenPci` | done: the library but for liveness; the shim's count |
| `PciAddress`, `PciCapability`, `LinkTraining` | address arithmetic, capability walks, link retraining as pure operators | | done |
| `PciAuto` | enumeration, bus numbers, BARs and ROMs, bridge windows | extends the three above | done |
| `PciAutoProofs` | | extends `PciAuto` | done: bus numbers, capability walks, link retraining |
| `PciAllocProofs` | | extends `PciAutoProofs` | done: BARs and windows |
| `PcieProbe` | device tree, inbound and outbound windows, reset, demux | extends `PciAddress` | done |
| `PcieTranslate` | the translations, next to what the hardware decodes | `PciAuto` and `PcieProbe` | done |
| `PcieHwInit` | `pcie_hw_init`, `pcie_hw_shutdown`, device list, INTx swizzle | extends `PcieTranslate` | done |
| `PcieBoards` | searches, attributes, reservations | extends `PcieHwInit` | done |
| `PcieBoardsProofs` | | extends `PcieBoards`, `PciAllocProofs` | done: MSI masked until it is served, reservations, bus numbers and BARs up to the close, translations, reports |
| `Lspci` | the walks of lspci | extends `PcieBoards` | done |
| `LspciProofs` | | extends `Lspci`, `PcieBoardsProofs` | done: device list, searches, interrupt lines, listing, types |

The order follows the damage a mistake does and how badly tests reach it: the
interrupt core (tasks, an interrupt and a bus that posts messages), the shared
configuration window, the lifecycle and the shim, then the stack from the device
tree to the client, which is one thread under the library semaphore but where
every layer relies on the tables of the one below.

Every safety property, action property and refinement that a passing run checks is the
subject of a theorem, but for `ShimServed` and `OneReference` of the shim, which hold only
where its opens and closes do not overlap; liveness is left to TLC (section 5).

Abstract specifications: `VectorPool`, `ConfigSpace` and `SharedBus`.  For the
address stack the abstract view is stated as properties instead: what a CPU or
DMA access reaches on the hardware (`CpuReaches`, `DmaReaches`) against what the
library's translations answer (`RoundTrip`).

## 3. The modules and the code

### PciIrq

*State.*  `used`, `servers` are `msi.used`, `msi.servers`; `status`, `mask` the
INTR2 registers; `mode`, `nvec`, `slots`, `intxServer` are `dev->active`;
`enabled`, `open`, `intxOn` are the device's own registers (MSI/MSI-X enable,
per-vector gates, `INTX_DISABLE` clear); `gic` is what gic400 has registered.

*Control.*  A call that takes the library semaphore is `op`: in an attach, a detach and
a teardown one register write or field assignment is one step, because the demux
interrupt (`isr`), a lock-free mask (`masker`), a device or the fabric may act in between.
For INTx these are the registration with gic400, `intx_server` and `INTX_DISABLE`
(`AddIntx`, `IntxSet`, `IntxEnable`) and the same backwards (`DetachIntx`, `IntxRemove`,
`IntxNull`).  Allocation is one
step: a device's slots are looked at by others only through `nvec` and `mode`,
which are published last, and everything before is under the semaphore.  Where the
MSI-X attempt finds too few slots, `RolledBack` computes the bitmap from those it
reserved and the list it frees them by, and MSI is tried on that.  The
machine has one CPU: no task step is enabled while `isr.active`; a task preempted
by another task keeps its place in `op` or `masker`.

*Environment.*  `inflight` holds posted messages; `Flushed` is the PCIe
ordering rule on which both shutdowns rely.  `pci_msi_shutdown` and
`pci_msix_shutdown` read the control word and then write it with the enable bit
clear, and read nothing behind that write.  But a configuration write is not posted:
the CPU waits for its completion, which does not pass the messages that the device
posted before it.  `work` are the
vectors whose device has an interrupt to serve; `deferred` those whose server
masked the vector and left it to a task, the pattern of the developer guide.
`stale` is a history variable for `NoStaleDispatch` and guards nothing.
`prefer_msi`, read outside the semaphore by `LibAddIntServer`, is a free choice.

### ConfigCalls, ConfigSpace, PcieConfig

A register is the set of its bits that are set.  Only the registers that several
calls share are kept: the command register, the MSI control word and the device
control word with the FLR bit.  A call is a sequence of accesses; each access is
`Select` (link check and index write), then `Access` or `Abort`, or
`Unreachable` when the link check fails (a read answers all ones, a write is
dropped, both report success).  `Takes` says which calls hold the semaphore.
The window shows the function named by `index` at the time of the access: that
is `Target`.  Functions on bus 0 bypass the index.

A link that drops resets the functions behind it.  `moved` is a history variable:
the tasks whose call the link has changed under.  `ConfigSpace` says what is left
to promise of such a call: it may find any value in its own register and its
write may be lost, but it still does its own update, to its own register.  The
kinds of call that TLC enumerates stand for the others of the same shape
(`attach` for `detach`, `msi_enable` for `set_master`); the proofs cover all.

### PcieLibrary, SharedBus

exec calls Open, Close and Expunge under Forbid; a wait breaks Forbid.  `pc[t]`
is where a task is; `Switched` are the places where others run: waiting for the
semaphore, loading gic400.library, or being outside.  An `AllocMem` that runs
short makes exec expunge libraries from inside the call, hence `Allocating` in
the guard of `Expunge`.  Assumed of code that is not here: `delay_ms` is a busy
wait, and closing gic400.library or removing a GIC server does not wait.
`held[r]` counts each resource the bring-up acquires; `Unwind(s)` is what the
error path of step `s` gives back, translated from the `goto` labels of
`pcie_hw_init` and of `brcm_pcie_probe`.  The model ends when the base is freed
under a task: nothing meaningful follows.

### OpenPci

The shim's LibOpen and LibClose run under the Forbid of exec and take no semaphore, but
`OpenLibrary` and `CloseLibrary` of bcmpcie.library may wait, and a wait breaks the
Forbid.  A task of `PcieLibrary` stands for one reference to bcmpcie.library; the shim
draws its references from `Ref`.  `ShimOpen` and `ShimClose` run up to the wait,
`Attach`, `Refuse` and `Detach` are what follows it.  `ShimCall` is a trampoline: it
needs `bcmBase`.  `Overlap` says whether an open or close may begin while another one
waits, as the code allows.  `library_shim` shows that `ShimServed` does not survive it,
and a reference that is then closed twice takes the bus from the direct clients as well;
so the run `library`, which looks for what goes wrong even without it, has it FALSE.
The count survives it: the theorem `UsersCounted` is about both.  A bcmBase stands for
one reference, and so for one call in progress at a time; the trampolines hand any
number of calls on to vectors that `PciIrq` and `PcieConfig` model with their
interleavings.  A user whose base was freed under it is "lost" and does nothing more.

### PciAuto, PciAddress, PciCapability, LinkTraining

The C recursion (`pciauto_config_device` - `pci_probe_bus` - `pci_auto_config_devices`)
is the variable `stack`, one frame per bus being configured.  A step is one BAR, one
function finished, one bridge entered or left, or an error that returns through every
frame.  Sizes and addresses are in units of the smallest BAR and wrap at `Wrap`, as
`pci_addr_t` (32 bits in this build) wraps.  `Answers(f)` is what the BAR registers and
then the ROM register answer to all ones, and `SlotsTaken` how far an assigned BAR moves
on: the ROM is sized behind the loop over the BARs, also when a 64-bit BAR is in the
last register; `PoolOf` is the region a BAR is allocated from (prefetchable BARs fall
back to memory).  A bridge's window is `base` (inclusive) to `limit` (exclusive; 0 is
the end of the address space) in units of `Granule`. `EnterBridge` includes the
`pciauto_config_init` of the nested `pci_auto_config_devices`, which starts the regions
again.

`hw[f]` is what a function answers: header, BAR responses, capability lists and,
for a port, the samples of LNKSTA its polling loops will read.  The walks of
`PciCapability` are recursive functions of the TTL; `Speed` is the Target Link
Speed that `pciauto_exp_fixup_link` leaves.  `HardwareAssumption` is all that is taken
for granted of a tree: functions on a bus that leads to the root, one function at a
place, lists whose positions have successors, loops that end at the first active sample
(`Polled`).  Lists may be circular, BARs may answer anything.

### PcieProbe, PcieHwInit

`stage` is how far `pcie_hw_init` has come; an action is a step of `brcm_pcie_probe`
that can fail or leaves registers changed.  `board` is the machine: what its device tree
has, its memory list, its revision.  The inbound window, the masking of the MSIs and the
release of PERST# are three steps in the order of the code (`Inbound`, `MaskAll`,
`ReleasePerst`).  A failed probe leaves the registers as they are, and the region table:
`regions` keeps it until the next bring-up makes its own.  `Refused` is the condition
under which a stage may return an error; causes outside the model (memory, the link,
gic400.library) may strike at any time.  `Kept` is what the loops of
`pci_get_devtree_regions` do, keep entries in their order: `SelectSeq` without its
recursion, so that it can be reasoned about (TLC checks that they agree, `KeptSelects`).
Register fields the properties do not tell apart (SSC, MDIO, endianness, class code) are
part of `Finetune`.  `PcieHwInit` runs `PciAuto` as its stage "scan", on the regions the
probe made, then builds the device list, and undoes what was done when a step fails.
The interrupt pin of a function is turned at each bridge (`Swizzle`). `Mapping` is the
walk of interrupt-map: an entry says which pin, which line, whether it is an SPI, and
whether its parent is one the walk can use; one that is not ends it. `ProbeAssumption`
(`BoardOK`) says of a device tree what kind of number each cell is.

### PcieTranslate

The translation functions and LVOs of `pci_bar.c` and `pcie_mem.c`, with results
cut to 32 bits, next to three operators for the hardware: where an access of the
68k goes (`Emu68`, `Leaves`), which BARs answer (`Answering`), and where an
access of a device goes (`Decoded`, `InboundCpu`).  The properties of
`PcieHwInit` compare the two sides address by address.  `SoundMap` says of a machine
that no CPU address means two things: the ranges of its bridge, its RAM and the
68k's view of the MMIO window do not overlap.

### PcieBoards, Lspci

The device list does not change while it exists, so searches and attributes are
operators and the properties loop over them as a client does: `VisitedBoards`,
`VisitedClass` and `VisitedDevices` call a search again with its last answer until there
is none, and `ListedBoards`, `ListedClass` and `ListedDevices` are the list without the
boards that do not match (65535, 0xFFFF, matches any identifier).  Reservations are
actions of programs: any of them may ask for any board, release it, or clear its owner
by PRM_BoardOwner 0, whether it holds the board or not.  `held` records what a program
was given and has not given back, and `robbed` those of its boards whose owner another
program has cleared; both are history variables and guard nothing but `CloseDown` and
the bound `MaxReserved`.  The class of a board is a 24-bit number for `LibFindClass` and
three bytes for the tags (`Attribute`, `Compared`).  The flag bits of a sizing mask, and
the choice between the memory and the I/O mask that takes them off again, are left out
of `BaseSize`: a mapped memory BAR has a 68k address whose bit 0 is clear, and for it
all four are taken off. `Lspci` has the walks of the listing; `EaSpan` is what a `UBYTE`
offset reaches.  What `LspciAssumption` says of Enhanced Allocation is that a dword's
header is some size.

## 4. The runs

| Run | Distinct states | Shows |
|---|---|---|
| `irq_safety` | 2,102,496 | Attach, detach, teardown, lock-free masks, the demux interrupt and messages in flight in every order, two devices on two slots: a teardown never leaves a gate, a server or a message aimed at a freed slot; no interrupt is lost |
| `irq_pool` | 422,713 | Requests that fit, fall back, get fewer vectors or fail, over four slots, with an FLR at any time: bitmap and slot lists agree, MSI blocks are aligned, `VectorPool` is implemented, a refused INTx registration disturbs nothing |
| `irq_liveness` | 227,086 | Every interrupt of a bound MSI vector is eventually served |
| `irq_stale_dispatch` | violation | A server runs for a message that its device, which has no masks of its own, sent before the server was bound: it is published before the latch is cleared |
| `config_atomic` | 208,436 | With the semaphore, and the link coming and going, every call is atomic (`ConfigSpace`), reaches no other function, and INTx updates keep the other command bits |
| `config_window` | violation | A capability search without the semaphore turns the window away from a call that holds it |
| `config_lost_update` | violation | A lock-free `pci_intx` takes back the bus-master bit of a concurrent SetMaster |
| `library` | 212,682 | Two direct clients and two of the shim, five opens, every bring-up step failing or not, either library expunged anywhere: the bus is up for clients, never twice, the bases stay, the shim, whose opens and closes do not overlap here, serves its users and has one reference exactly while it is open, all calls return |
| `library_expunged` | violation | An expunge while one open loads gic400.library and another waits frees the base of both |
| `library_shim` | violation | An open of the shim begun during its first open takes a reference of its own, and the close of the first user sets `bcmBase` to NULL under it |
| `auto` | 69,927 | The stack from device tree to lspci: see below |
| `auto_windows` | violation | Behind a second switch port allocation starts again at the region's start: BARs lie outside the windows of the ports above |

`auto` checks, layer by layer:

* scan: bus numbers route every configuration cycle (`OneRoute`), BARs stay in
  the region even where arithmetic wraps (`BarsInRegion`), and on a single path
  they are disjoint (`BarsSeparate`) and reached (`BarsReached`); a port is slowed
  down if and only if its link fails at full speed (`LinksTrained`); the scan ends
  (`BringUpEnds`);
* addresses: an access of the 68k to a mapped BAR leaves through one outbound
  window and one BAR answers it (`CpuReaches`); an access of a device to
  registered RAM gets there and no BAR is in its way (`DmaReaches`); the
  translations lead back (`RoundTrip`);
* bring-up: from the first reset on no MSI gets through that nobody serves, whatever
  fails and however often the library is opened and closed (`QuietUnlessServed`; before that
  reset the registers are the firmware's); every
  function has the line its pin is wired to (`InterruptRouted`);
* clients: the list is complete (`EveryFunctionListed`), loops over the searches visit
  every board once, and by the bytes of a class what its code finds
  (`SearchesComplete`), address and size attributes are what the other calls accept
  (`BarsReported`), a board stays with the program it was given to unless another one
  clears its owner, and none is left with an owner that does not hold it
  (`HoldersKept`), capabilities are found whatever the list does
  (`CapabilitiesPrinted`), lspci shows everything (`ListingComplete`).

Every property of a passing run has a mutant in `PROJECT.json`: a definition of
the code changed as a plausible bug would, with which the run fails.

### Bounds, and why they are enough

* *Interrupts.*  Two devices suffice for every conflict over a slot (the old and
  the new owner); two slots let an MSI block and single vectors alternate, four
  let requests fall back.  One masker task: two would only write registers of
  different vectors or repeat a write.  The run with interrupts raised
  (`irq_safety`) and the run with all request shapes (`irq_pool`) are separate
  because their product is out of reach and their properties do not meet.
* *Configuration.*  Two tasks and two functions behind the link, one on bus 0: a
  wrong target or a lost update takes one victim and one intruder.
* *Library.*  One that initialises, one that waits, one that closes or expunges,
  among direct clients and users of the shim; two references, which is one more
  than the shim ever needs; `MaxOpens` = 5 allows each of them to come back.
* *Enumeration.*  Up to four bridges, depth three, six functions; BARs of 1, 2,
  4, 8 units of every kind, one of 8 GiB (size 0 in 32 bits) and regions of 3 to
  8 units: regions overflow, and alignment gaps of every kind occur.  Capability
  lists have two positions and a TTL of 2, which is every chain and circle of two.
* *Machines.*  `Wrap` is 64 units; four machines that come up: the Pi 4 with two
  sizes of MMIO window, one with every kind of range, several banks of memory and
  a torn interrupt-map, one whose ranges start too low and whose inbound window does
  not start at 0; and one for every reason a probe fails.  Each meets every tree.
  `Regions` is what the scan selects from the device trees of these machines; TLC
  evaluates that (`RegionsAssumption`) and that their maps are sound (`MapsAreSound`).
  Two programs call for boards on one of the machines, in every order, and can obtain the
  first of the list (`MaxReserved` = 1): two programs that want the same board are what
  matters, and what happens to a board's owner depends on that board alone.

`CHECK_DEADLOCK FALSE` appears where the system may stop: an access that loses
its link aborts the CPU (`config_atomic`), a base freed under a task ends the model
(`library`), and nobody need open the library again (`auto`, `auto_windows`).

### Fairness

* `PciIrq`: the semaphore holder, the mask writes and the bottom halves are
  tasks, which run again and again as long as interrupts leave the CPU to them
  again and again, hence strong fairness; the demux server and the delivery of a
  posted message are not preempted, hence weak.  Nothing is assumed of drivers:
  raising, allocating, attaching and detaching carry no fairness.
* `PcieLibrary`, `OpenPci`: each task's own steps inside a vector are weakly fair;
  exec passes the semaphore in order of arrival, which is `sem`.  Opening, closing
  and failing are not obliged to happen.
* `PcieBoards`: a LibOpen that runs goes on until it returns; it waits for nobody,
  since it holds the semaphore.

## 5. The proofs

All are checked by TLAPS for every value of the constants that satisfies the
`ASSUME` of the module.

The loops of the code are recursive functions here (`f[n] == ... f[n - 1] ...`), and the
induction theorems of the library take operators the provers cannot instantiate.  So the
proofs do without: that such a function exists and computes its step is shown once
(`CountUp`, `Computed` in `PciAutoProofs`), by looking at the lowest place where an
approximation of it could not be extended; and what a loop keeps is shown at the lowest
turn that would break it (`HasLeast`).  Along a tree the same is done from a function
of the set in question whose parent is not in it (`TreeOf`).

*PciIrqProofs.*  The inductive invariant is `TypeOK` with `PoolExact`,
`ServersOnHeldSlots`, `InflightHeld`, `MsiBlocks` and `CallConsistent`.  None is
inductive alone: that a server sits on a held slot after `SlotsFree` needs
`Detached`, which holds because `CallConsistent` carries the outcome of the
teardown's check across the interleaved steps; that a message aims at a held slot
needs `Flushed` in the same way; that a granted block is disjoint from the others
needs `PoolExact`.  `PoolRefinement` then maps each step to a grant, a release or
a stutter of `VectorPool`.

*PciIrqServiceProofs.*  What the pool's invariant does not say, in three steps, each
on top of the last.  `IntxInv`: `IntxRegistered` with `IntxShape`, that an INTx
allocation has one vector on a line that is routed and that a call about to clear the
mode has removed its server.  `GateInv`: `OpenOnlyBound` with `GateShut`, that between
the two halves of an unbind the gate is closed already: a gate opens as the last step
of an attach (`VecOpen`) and closes as the first of a detach (`VecClose`), and nothing
that runs between the steps opens it.  `ServiceInv`: `NoLostWork` with
`OneInService`, that the demultiplexer serves one slot at a time and leaves with none.
A waiting interrupt has a carrier - in flight, latched, in service, deferred behind
the mask - and every step that takes one carrier away brings the next, or is the
server's own.

*PciAutoProofs.*  `RouteInv` is inductive: `Numbers` (bridges are numbered from 1 in
the order they are entered, registers and `pci_bus` agree, and the bus above a
numbered bridge is numbered), `Descent` (`stack` is the way down from the root bus, and
what is still to do on it has no number, but for the bridge in progress) and `Passing`
(exactly the bridges on the stack pass every number on, with a subordinate of 0xff; the
others end with the numbers they were left with).  `OneRoute` is about `Above`, the
bridges on the way to a bus, which is written as an intersection of closed sets rather
than by recursion so that it can be reasoned about.  The assumption that a tree has at
most 255 bridges is that a bus number is a byte; nothing in the code checks it.
`LinksAreTrained` rests on two loops.  A capability walk with a TTL of n gets to exactly
what a chain of at most n links leads to (`Chain`, `CapabilityFound`).  The run length
that `pciauto_exp_link_stable` counts is at least half the samples if and only if the
second half is quiet (`StableWorks`), since it is reset by the last busy sample.
`LinkInv` carries the answer from the prescan on.

*PciAllocProofs.*  Four invariants over `RouteInv`.  `AllocInv`: a cursor is in its
region, or has gone over the end of the address space once and is 0 (`Cursor`); the
BARs are aligned and inside.  `SepInv`, for trees that are a `SinglePath`: as long as a
bridge is still to be entered nothing has been assigned and the cursors are where they
start (`PathInv`), so that starting the regions again behind it loses nothing, and
afterwards every BAR ends before the cursor (`Behind`).  `ReachInv`: a bridge's window
starts where the first BAR of the region may be, and once the bridge is left ends after
the BARs behind it and before what is assigned later (`Windows`, `Trimmed`).
`SlotInv`: a BAR register is written once, the registers of a function in their order,
and a BAR of 4 GiB or more, of size 0, is at address 0.
`auto_windows` shows what happens on other trees.

`SoundBars` is the hypothesis on what devices answer: a BAR is a power of two smaller
than the start of its region, or than the room behind the region - otherwise `addr -
bus_start + size` of `pciauto_region_allocate` (`pci_auto.c:59-61`) may wrap and accept
an address outside - and one of size 0 (4 GiB and more) does not meet a region that
starts at 0.  The run's machines and trees satisfy it (`BarsAreSound` of
`MCPciAuto`), the Pi 4 does for every BAR below 3 GiB.  `FromBoundary`, in
`BarsReached`, says that the first BAR of a region is put at a window boundary.

*PcieConfigProofs.*  `TypeCorrect` holds for any mix of calls and a moving link.
The other theorems assume that all calls take the semaphore (`Kinds \subseteq
Locked`); the link may move at any step.  `LockedAccess`: the holder is the only
task with a selected access, so the index is still the one it wrote.  `Atomicity`
adds that the value a read-modify-write has read is still in the register when it
writes, or its task is in `moved` (`AInv`); each call then maps to one step of
`ConfigSpace`, the refinement mapping being "answered" from the last access on.
`IntxKeeps` follows from the same invariant.  The violation runs show that the
assumption is needed and that the code does not provide it.

*PcieLibraryProofs.*  The invariant relates `lib_OpenCnt` to the finite set of
clients, and ties `held` to the program counter of the task that initialises
(`Opening`) or to `ready` when none does (`Settled`).  From it follow
`TypeCorrect`, `ClientsUp`, `OneBus`, `OpenKept` and the refinement
`SharedBusImplemented`.

For the shim, `UsersCounted` makes no assumption about who overlaps whom: the finite
set of users that have it open and the count change together, and an expunge frees the
shim only at count 0.  Two lemmas of the module, `ReferenceCounted` and `CallsServed`, are
about `OneReference` and `ShimServed` under `~Overlap`, which the code does not
provide, as `library_shim` shows: they say that nothing else is wrong with the shim, and
no more.

*PcieBoardsProofs.*  `StageInv` says what is there at each stage of a bring-up: the
demultiplexer, PERST# and the MSI masks among it.  `Quiet` needs one thing of it: where
PERST# is released the masks are set, and where the demultiplexer goes they are set before.
`HeldInv` ties `owner` to the boards given out while the device list stands, with the
`robbed` ones excepted on one side only: who is the owner has been given the board, and
who was given a board is its owner unless robbed (`HoldersKeep` states both).
The scan is a black box to both: no step of
`PciAuto` touches these variables.  `RoutesStayUnique` and `BarsStay` carry the
theorems about `PciAuto` from the scan to the last close: outside the scan nothing
writes the registers of bridges and devices, and what gives the tree up gives them up
too.

The theorems about addresses (`BarsAnswerTheCpu`, `FastRamIsReached`,
`TranslationsAgree`, `ReportsAreTrue`) rest on what the layers leave to each other.
`RegionInv`: the regions, the inbound and outbound windows and the regions of the scan
are what the machine's device tree says, at every stage from the one that makes them.
`MapInv`: so regions are within the address space and do not overlap, and RAM is below
`DmaEnd` at its own bus address.  `TransInv`: every BAR is in exactly one region of its
kind (`Home`).  From there it is arithmetic: the 68k address of a BAR leads back to its
region and to no other (`ThroughHome`), no two BARs have a 68k address in common
(`VirtApart`), and so the address reported is that of one BAR, and what
`LibObtainPCIRegion` finds.  The hypotheses are `SoundBars` and `SoundMaps`: facts about
devices and device trees that the code relies on and does not check, and that the run's
machines and trees satisfy.  `FastRamIsReached` needs `SoundBars` too, because a BAR that
is accepted at a wrapped address may answer where the RAM is.  `DmaEnd`, which
is 2 GiB in the code, is assumed to be one of the sizes that the inbound window can have.

*LspciProofs.*  `ListInv` carries what the scan knows to the close: the numbers
(`RouteInv`), the links (`LinkInv`), that the calls in progress and the BARs belong to
functions on a numbered bus (`ScanInv`), and that the device list is exactly these
functions, each once.  Numbers are not given twice (`NumbersUnique`), so the lists of the
buses have nothing in common and appending them bus by bus makes that list (`ListedOf`):
`ListHasEveryFunction`.  A search goes on behind the place where the last board stands,
which is the place the loop has got to only because no board stands twice in the list:
the j-th round of a loop finds the j-th match (`RankFirst`, `VisitsOf`).  What a tag
compares of its datum leaves an attribute as it is (`AttributesFit`), which needs that
identifiers have 16 bits and class codes 24 (`IdentityAssumption` of `PciAuto`), and three
equal bytes make equal codes (`ThreeBytes`).
`ListingIsComplete` adds `SlotInv` for the BARs that are printed and that each entry of
an Enhanced Allocation capability ends behind its start (`Forward`).

`InterruptsAreRouted` compares the swizzle, which follows the parents one by one, with a
sum over `Above`: a function adds its own turns to those of the bus it is on (`TurnsOf`),
and turning twice is turning by the sum (`Quarter`).  For the line, `LastOf` says after
every entry of interrupt-map which one has the pin.  `TypesStay` needs, besides these
invariants, `ScanType`, that what the scan computes fits 32 bits whatever the region, and
`ControllerInv`, what is known of the controller's registers between bring-ups; the size
of the inbound window stays a 32-bit number because `DmaEnd` is one of its sizes.

*With TLC only.*  Liveness (`Served`, `Returns`, `BringUpEnds`): it is out of the
prover's reach, and so is the fairness of the specifications; the theorems use their
safety part alone.  Of the shim, where its opens and closes overlap only the count is
proved; `library_shim` shows what goes wrong.  That the hypotheses of the proofs
(`SoundBars`, `SoundMaps`, `RegionsAssumption`) hold of the machines and trees of `auto`
is checked by TLC.

## 6. Observations without a run

Seen while modelling; the models contain the behaviour.

* `UnmaskIntVector` may leave a free slot unmasked (a teardown between its read
  of `active.slots` and its write), against `pci_types.h:155` ("a slot is
  unmasked only while bound").  No server is called for such a slot, and the next
  bind clears and unmasks it anyway.
* The demux dispatches STATUS unfiltered by MASK: the server of a masked vector
  runs when another slot fires, where `pci_irq.h:142` says the message fires on
  unmask.  The comment at `pcie_brcmstb_msi.c:145` accepts this.
* An FLR resets MSI enable and the gates behind `dev->active`, which
  `pci_types.h:268` calls "the single source of truth for what is live".
* A read-modify-write whose read finds the link down and whose write finds it up
  sets every bit of the register: the all-ones answer is written back.
* A link that does not come up, an old revision or a missing gic400.library
  leaves the region table of `pci_get_devtree_regions` allocated
  (`Unwind("link")`) and the controller out of reset, and an error or a close
  leaves the device and child bus nodes of its enumeration (`held["devices"]` stays 1
  after the last close), although `pcie_main.c:252` says "all associated state".
* `brcm_pcie_remove` does not clear the windows, where `pcie_brcmstb.h` speaks of
  the address-translation configuration.
* In a region that ends at 4 GiB a BAR of 4 GiB or more, whose size is 0 in 32
  bits, is accepted at address 0 and closes the region for every later BAR.
* A refused 64-bit BAR does not skip its upper half: that of an 8 GiB BAR answers
  like a 16-byte BAR and is given an address, against `pci_types.h:195`.
* A BAR that was refused keeps the all-ones of its sizing and memory decoding is
  enabled regardless.  The MSI target 0xfffffffc lies in the Pi 4 region as well.
* Where the first BAR of a region is not at a window boundary, because the region starts
  elsewhere, the first BAR behind a bridge lies below the bridge's base (`FromBoundary`
  in `BarsReached` excludes it; the Pi 4 region starts at 0xC0000000).
* In a full region that ends at 4 GiB, a BAR not smaller than the region's start (2 GiB
  in a region from 2 GiB on) is accepted at address 0: its aligned address wraps, and so
  does `addr - bus_start + size` (`pci_auto.c:59-61`).  `SoundBars` excludes it from the
  theorems.
* The inbound window is programmed from its size alone: with dma-ranges that
  start above CPU address 0 it does not decode all of the RAM that is registered as
  reachable (`pcie_brcmstb.c:761-764`).  `DmaReaches` excludes it.
* Prefetchable and I/O ranges get no outbound window: BARs in them have no 68k
  address, although `pcie_mem.c:149-151` speaks of both memory and I/O BARs.
* A BAR that ends at 4 GiB is not translated, cannot be obtained and, by its
  window's end of 0, is reported in an empty window (`RoundTrip` and `BarsReported`
  except it).  The translations look regions up by address alone, so an I/O range at
  RAM's bus addresses wins over RAM.
* `LibPhysicToLogic` answers a bus address that lies in an outbound region but in no
  mapped BAR with the low 32 bits of the CPU address, not with NULL.
* The size of a board is decoded with the mask that bit 0 of its 68k address
  selects, and lspci complements it once more: it prints the mask, not the size.
* Two programs can be given the same board.  `LibSetBoardAttrsA` with a PRM_BoardOwner of 0
  clears the owner whoever calls it (`pcie_board.c:223`), and tag lists are not applied as
  one.  The developer guide says both that "a non-NULL `owner` cannot be overwritten by a
  second caller" (`:261`) and that the clearing is unconditional and belongs "in every error
  path" (`:282`).  A program that was refused a board and does that frees the board of the
  program that has it, and is given it when it asks again, although `LibObtainCard` returns
  "FALSE if already reserved by another task" (`pcie_board.c:36`).  `ClearOwner` does this;
  "no two programs hold a board" is false of the model, and `HoldersKept` says what is left
  of it.
* A search by class code with FindBoardA finds nothing, or another class: the guide calls
  PRM_Class the "Class code (base<<16, sub<<8, prog-if)" (`developer-guide.md:190`) and
  searches for an xHCI controller by `{ PRM_Class, 0x0C0330 }` (`:152`), but
  `pcie_find.c:111` compares the base class with the low byte of the datum, 0x0C with
  0x30, and `pcie_board.c:99` answers with the base class alone.  `Attribute` and
  `Compared` do so, and `SearchesComplete` is about searches by the bytes that
  GetBoardAttrsA answers.
* LibFindDevice, LibFindClass and LibFindSlot walk the list without the semaphore.
* lspci reads the owner task's name after the semaphore is released, and its
  `UBYTE` offsets wrap within an Enhanced Allocation capability at the end of the
  space.
* Two overlapping first opens of openpci.library open bcmpcie.library twice and one
  reference leaks; a failed open clears `bcmBase` under a successful one; an expunge
  while an open or close waits frees the base it returns to (`openpci_main.c:101-145`).

## 7. Not modelled

* MDIO and SSC access, the delays and register order inside a step of the
  bring-up, and the VL805 firmware load: sequencing against one piece of hardware,
  with no state that others share.
* Capability decoding for MSI and MSI-X (`pci_msi_init`, `pci_msix_init`), which
  runs once before any driver exists; its results are constants of `PciIrq`.
* The command register, cache line size and latency timer that the scan writes:
  nothing in the model decodes by them.
* Access widths and the MMIO and copy vectors (`pcie_io.c`), which touch no state of
  the library.
* DMA buffers: the pool allocator belongs to another repository.
* The text lspci prints: names, flags, bridge windows.
* Public headers, function tables and build files: no behaviour of their own.
