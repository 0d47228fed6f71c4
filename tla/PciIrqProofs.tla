---------------------------- MODULE PciIrqProofs ----------------------------
(***************************************************************************)
(* Proofs about PciIrq for every set of devices, pool size, capability and *)
(* request: the types, the exactness of the slot pool with the ownership   *)
(* of its servers, and that the core implements VectorPool.                *)
(***************************************************************************)
EXTENDS PciIrq, FiniteSetTheorems, TLAPS

USE ConstAssumption

-----------------------------------------------------------------------------
(* Types.                                                                  *)

LEMMA LesserType ==
    ASSUME NEW a \in Int, NEW b \in Int
    PROVE  /\ Lesser(a, b) \in Int
           /\ Lesser(a, b) <= a /\ Lesser(a, b) <= b
           /\ Lesser(a, b) = a \/ Lesser(a, b) = b
BY DEF Lesser

\* Any request a driver can pass, the ones of Request included.
AnyRequest == [min : Nat, max : Nat, flags : SUBSET Types]

LEMMA BoundsType ==
    ASSUME NEW r \in AnyRequest
    PROVE  Lo(r) \in Nat /\ Lo(r) >= 1 /\ Hi(r) \in Nat /\ Hi(r) <= NSlots
BY LesserType DEF Lo, Hi, Lesser, AnyRequest

LEMMA PowerBounds == PowersOfTwo \subseteq 1 .. NSlots
BY DEF PowersOfTwo

LEMMA CountBounds ==
    ASSUME NEW d \in Dev, NEW r \in AnyRequest
    PROVE  /\ MsixCount(d, r) \in Nat /\ MsixCount(d, r) <= NSlots
           /\ MsixFits(d, r) => 1 <= MsixCount(d, r) /\ MsixCount(d, r) <= NSlots
<1>1. Hi(r) \in Nat /\ Hi(r) <= NSlots /\ Lo(r) >= 1 /\ Lo(r) \in Nat
  BY BoundsType
<1>2. FreeSlots \subseteq Slot
  BY DEF FreeSlots
<1>3. IsFiniteSet(Slot) /\ Cardinality(Slot) = NSlots
  <2>1. 0 \in Int /\ NSlots - 1 \in Int
    OBVIOUS
  <2>2. /\ IsFiniteSet(0 .. NSlots - 1)
        /\ Cardinality(0 .. NSlots - 1) =
              IF 0 > NSlots - 1 THEN 0 ELSE NSlots - 1 - 0 + 1
    BY <2>1, FS_Interval, Zenon
  <2>3. QED
    BY <2>2 DEF Slot
<1>4. Cardinality(FreeSlots) \in Nat
  BY <1>2, <1>3, FS_Subset, FS_CardinalityType
<1>5. MsixSize[d] \in Nat
  OBVIOUS
<1>6. QED
  BY <1>1, <1>4, <1>5 DEF MsixFits, MsixCount, Lesser

\* What a failed MSI-X attempt reserved it gives back: the slots it lists are the
\* ones it took, so the bitmap is what it was.
LEMMA RollBack ==
    ASSUME NEW d \in Dev, NEW k \in Nat, k <= NSlots, NEW f, LowestFree(f, k)
    PROVE  RolledBack(d, f, k) = used
<1>1. ASSUME NEW v \in 0 .. k - 1 PROVE v \in Vec /\ Listed(d, f, k)[v] = f[v]
  BY DEF Vec, Listed
<1>2. {Listed(d, f, k)[v] : v \in 0 .. k - 1} = {f[v] : v \in 0 .. k - 1}
  BY <1>1
<1>3. {f[v] : v \in 0 .. k - 1} \cap used = {}
  BY DEF LowestFree, FreeSlots
<1>4. QED
  BY <1>2, <1>3 DEF RolledBack, FreeListed

LEMMA RollBackMsi ==
    ASSUME NEW d \in Dev, NEW r \in AnyRequest, NEW next, AllocMsi(d, r, next)
    PROVE  \E n \in PowersOfTwo, base \in Slot,
              f \in [0 .. MsixCount(d, r) - 1 -> FreeSlots] :
              /\ MsiFits(d, r, used, n, base)
              /\ LowestFree(f, MsixCount(d, r))
              /\ Program(d, "MSI", n, MsiList(d, f, MsixCount(d, r), n, base), used, next)
<1> DEFINE k == MsixCount(d, r)
<1>1. PICK n \in PowersOfTwo, base \in Slot, f \in [0 .. k - 1 -> FreeSlots] :
         /\ LowestFree(f, k)
         /\ MsiFits(d, r, RolledBack(d, f, k), n, base)
         /\ Program(d, "MSI", n, MsiList(d, f, k, n, base), RolledBack(d, f, k), next)
  BY DEF AllocMsi
<1>2. RolledBack(d, f, k) = used
  BY <1>1, CountBounds, RollBack
<1>3. QED
  BY <1>1, <1>2

LEMMA RollBackFail ==
    ASSUME NEW d \in Dev, NEW r \in AnyRequest, AllocIntxOrFail(d, r)
    PROVE  /\ used' = used
           /\ \E f \in [0 .. MsixCount(d, r) - 1 -> FreeSlots] :
                 /\ LowestFree(f, MsixCount(d, r))
                 /\ slots' = [slots EXCEPT ![d] = Listed(d, f, MsixCount(d, r))]
<1> DEFINE k == MsixCount(d, r)
<1>1. PICK f \in [0 .. k - 1 -> FreeSlots] :
         /\ LowestFree(f, k) /\ used' = RolledBack(d, f, k)
         /\ slots' = [slots EXCEPT ![d] = Listed(d, f, k)]
  BY DEF AllocIntxOrFail
<1>2. RolledBack(d, f, k) = used
  BY <1>1, CountBounds, RollBack
<1>3. QED
  BY <1>1, <1>2

\* A successful message-signalled allocation preserves the types.
LEMMA ProgramType ==
    ASSUME TypeOK, NEW d \in Dev, NEW type \in Msgs, NEW n \in 1 .. NSlots,
           NEW list \in [Vec -> Slot], NEW next,
           next \in [pc : OpPc, dev : Dev \cup {NoDev}, vec : Vec, free : BOOLEAN],
           next.pc # "idle" => next.dev \in Dev,
           Program(d, type, n, list, used, next)
    PROVE  TypeOK'
<1>1. used' \subseteq Slot
  <2>1. {list[v] : v \in 0 .. n - 1} \subseteq Slot
    BY DEF Vec
  <2>2. QED
    BY <2>1 DEF Program, TypeOK
<1>2. mode' \in [Dev -> Types \cup {"none"}] /\ nvec' \in [Dev -> 0 .. NSlots]
  BY DEF Program, TypeOK, Types, Msgs
<1>3. slots' \in [Dev -> [Vec -> Slot]] /\ open' \in [Dev -> SUBSET Vec]
  BY DEF Program, TypeOK
<1>4. QED
  BY <1>1, <1>2, <1>3 DEF Program, TypeOK, demuxVars, envVars

LEMMA ListedType ==
    ASSUME TypeOK, NEW d \in Dev, NEW k \in Nat, NEW f, LowestFree(f, k)
    PROVE  Listed(d, f, k) \in [Vec -> Slot]
<1>1. ASSUME NEW v \in Vec, v < k PROVE f[v] \in Slot
  BY <1>1 DEF LowestFree, FreeSlots, Vec
<1>2. slots[d] \in [Vec -> Slot]
  BY DEF TypeOK
<1>3. QED
  BY <1>1, <1>2 DEF Listed

LEMMA TypeInit == Init => TypeOK
BY DEF Init, TypeOK, Slot, Vec, OpIdle, MaskIdle, IsrIdle, OpPc, Types

OpType == [pc : OpPc, dev : Dev \cup {NoDev}, vec : Vec, free : BOOLEAN]

\* The outcomes of pci_irq_vectors_alloc.
LEMMA TypeAllocMsix ==
    ASSUME TypeOK, NEW d \in Dev, NEW r \in AnyRequest, AllocMsix(d, r)
    PROVE  TypeOK'
<1> DEFINE k == MsixCount(d, r)
<1>1. k \in 1 .. NSlots
  BY CountBounds DEF AllocMsix
<1>2. PICK f \in [0 .. k - 1 -> FreeSlots] :
         LowestFree(f, k) /\ Program(d, "MSIX", k, Listed(d, f, k), used, op)
  BY DEF AllocMsix
<1>3. Listed(d, f, k) \in [Vec -> Slot]
  BY <1>1, <1>2, ListedType
<1>4. op \in OpType /\ (op.pc # "idle" => op.dev \in Dev)
  BY DEF TypeOK, OpType
<1>5. QED
  BY <1>1, <1>2, <1>3, <1>4, ProgramType DEF Msgs, OpType

LEMMA MsiListType ==
    ASSUME TypeOK, NEW d \in Dev, NEW r \in AnyRequest, NEW n \in PowersOfTwo,
           NEW base \in Slot, MsiFits(d, r, used, n, base), NEW f,
           LowestFree(f, MsixCount(d, r))
    PROVE  MsiList(d, f, MsixCount(d, r), n, base) \in [Vec -> Slot]
<1>1. MsixCount(d, r) \in Nat
  BY CountBounds
<1>2. Listed(d, f, MsixCount(d, r)) \in [Vec -> Slot]
  BY <1>1, ListedType
<1>3. base + n <= NSlots /\ base \in Nat /\ n \in Nat
  BY PowerBounds DEF MsiFits, FreeBlocks, Slot
<1>4. ASSUME NEW v \in Vec, v < n PROVE base + v \in Slot
  BY <1>3, <1>4 DEF Vec, Slot
<1>5. QED
  BY <1>2, <1>4 DEF MsiList

LEMMA TypeAllocMsi ==
    ASSUME TypeOK, NEW d \in Dev, NEW r \in AnyRequest, NEW next \in OpType,
           next.pc # "idle" => next.dev \in Dev, AllocMsi(d, r, next)
    PROVE  TypeOK'
<1> DEFINE k == MsixCount(d, r)
<1>1. PICK n \in PowersOfTwo, base \in Slot, f \in [0 .. k - 1 -> FreeSlots] :
         /\ MsiFits(d, r, used, n, base)
         /\ LowestFree(f, k)
         /\ Program(d, "MSI", n, MsiList(d, f, k, n, base), used, next)
  BY RollBackMsi
<1>2. MsiList(d, f, k, n, base) \in [Vec -> Slot]
  BY <1>1, MsiListType
<1>3. n \in 1 .. NSlots
  BY PowerBounds
<1>4. QED
  BY <1>1, <1>2, <1>3, ProgramType DEF Msgs, OpType

LEMMA TypeAllocIntxOrFail ==
    ASSUME TypeOK, NEW d \in Dev, NEW r \in AnyRequest, AllocIntxOrFail(d, r)
    PROVE  TypeOK'
<1> DEFINE k == MsixCount(d, r)
<1>1. PICK f \in [0 .. k - 1 -> FreeSlots] :
         LowestFree(f, k) /\ slots' = [slots EXCEPT ![d] = Listed(d, f, k)]
  BY RollBackFail
<1>2. Listed(d, f, k) \in [Vec -> Slot]
  BY <1>1, CountBounds, ListedType
<1>3. slots' \in [Dev -> [Vec -> Slot]]
  BY <1>1, <1>2 DEF TypeOK
<1>4. mode' \in [Dev -> Types \cup {"none"}] /\ nvec' \in [Dev -> 0 .. NSlots]
  <2>1. CASE IntxFits(d, r)
    BY <2>1, 1 \in 0 .. NSlots DEF TypeOK, AllocIntxOrFail, Types
  <2>2. CASE ~IntxFits(d, r)
    BY <2>2 DEF TypeOK, AllocIntxOrFail, Types
  <2>3. QED
    BY <2>1, <2>2
<1>5. QED
  BY <1>3, <1>4, RollBackFail DEF TypeOK, AllocIntxOrFail, demuxVars, devVars, intxVars, ctlVars, envVars

\* The steps of an attach and a detach, and the INTx registrations.
LEMMA TypeAttach ==
    ASSUME TypeOK, NEW d \in Dev, NEW v \in Vec
    PROVE  /\ BindServer(d, v) => TypeOK'
           /\ AddIntServerIntx(d) => TypeOK'
           /\ RemIntVectorServer(d, v) => TypeOK'
<1>1. SlotOf(d, v) \in Slot /\ 0 \in Vec /\ 1 \in 0 .. NSlots
  BY DEF SlotOf, TypeOK, Vec
<1>2. BindServer(d, v) => TypeOK'
  BY <1>1 DEF BindServer, TypeOK, At, OpPc, poolVars, devVars, intxVars
<1>3. AddIntServerIntx(d) => TypeOK'
  BY <1>1 DEF AddIntServerIntx, TypeOK, Types, At, OpPc, demuxVars, devVars, intxVars, envVars
<1>4. RemIntVectorServer(d, v) => TypeOK'
  <2>1. DetachIntx(d, FALSE) => TypeOK'
    BY <1>1 DEF DetachIntx, TypeOK, At, OpPc, poolVars, demuxVars, devVars, envVars
  <2>2. VecClose(d, v, FALSE) => TypeOK'
    BY DEF VecClose, TypeOK, At, OpPc, poolVars, demuxVars, intxVars, envVars
  <2>3. QED
    BY <2>1, <2>2 DEF RemIntVectorServer
<1>5. QED
  BY <1>2, <1>3, <1>4

LEMMA TypeAddIntx == ASSUME TypeOK, NEW d \in Dev, AddIntx(d) PROVE TypeOK'
<1>1. [gic EXCEPT ![DevLine[d]] = d] \in [Line -> Dev \cup {NoDev}]
  BY DEF TypeOK
<1>2. At("intx_set", d, 0, FALSE) \in OpType
  BY DEF At, OpType, OpPc, Vec
<1>3. QED
  BY <1>1, <1>2 DEF AddIntx, At, OpType, TypeOK, poolVars, demuxVars, devVars, envVars

\* The steps of the call that holds the semaphore.
LEMMA TypeLocked == TypeOK /\ Locked => TypeOK'
<1> SUFFICES ASSUME TypeOK, Locked PROVE TypeOK'
  OBVIOUS
<1>1. op.pc # "idle" /\ op.dev \in Dev /\ op.vec \in Vec
  BY DEF Locked, BindClear, BindUnmask, VecOpen, UnbindMask, UnbindNull, FreeDetach,
         FreeShutdown, SlotsFree, ClearMode, ClearNvec, IntxSet, IntxEnable, RefuseIntx,
         IntxRemove, IntxNull, TypeOK
<1>2. SlotOf(op.dev, op.vec) \in Slot /\ 0 \in Vec
  BY <1>1 DEF SlotOf, TypeOK, Vec
<1>3. CASE BindClear
  BY <1>1, <1>2, <1>3 DEF BindClear, TypeOK, OpPc, poolVars, devVars, intxVars
<1>4. CASE BindUnmask
  BY <1>1, <1>2, <1>4 DEF BindUnmask, TypeOK, OpPc, poolVars, devVars, intxVars, envVars
<1>5. CASE VecOpen
  BY <1>1, <1>2, <1>5 DEF VecOpen, TypeOK, OpPc, OpIdle, poolVars, demuxVars, intxVars, envVars
<1>6. CASE UnbindMask
  BY <1>1, <1>2, <1>6 DEF UnbindMask, TypeOK, OpPc, poolVars, devVars, intxVars, envVars
<1>7. CASE UnbindNull
  BY <1>1, <1>2, <1>7 DEF UnbindNull, TypeOK, OpPc, OpIdle, At, poolVars, devVars, intxVars
<1>8. CASE FreeDetach
  <2>1. PICK v \in 0 .. nvec[op.dev] - 1 :
           IF mode[op.dev] = "INTX" THEN DetachIntx(op.dev, TRUE)
                                    ELSE VecClose(op.dev, v, TRUE)
    BY <1>8 DEF FreeDetach
  <2>2. v \in Vec
    BY <1>1 DEF TypeOK, Vec
  <2>3. CASE DetachIntx(op.dev, TRUE)
    BY <1>1, <1>2, <2>3 DEF DetachIntx, TypeOK, At, OpPc, poolVars, demuxVars, devVars, envVars
  <2>4. CASE VecClose(op.dev, v, TRUE)
    BY <1>1, <2>2, <2>4 DEF VecClose, TypeOK, At, OpPc, poolVars, demuxVars, intxVars, envVars
  <2>5. QED
    BY <2>1, <2>3, <2>4
<1>9. CASE FreeShutdown
  BY <1>1, <1>9 DEF FreeShutdown, TypeOK, OpPc, poolVars, demuxVars, intxVars, envVars
<1>10. CASE SlotsFree
  <2>1. used' \subseteq used
    BY <1>10 DEF SlotsFree, FreeListed
  <2>2. QED
    BY <1>1, <1>10, <2>1 DEF SlotsFree, TypeOK, OpPc, demuxVars, devVars, intxVars, envVars
<1>11. CASE ClearMode
  BY <1>1, <1>11 DEF ClearMode, TypeOK, OpPc, Types, demuxVars, devVars, intxVars, envVars
<1>12. CASE ClearNvec
  BY <1>1, <1>2, <1>12 DEF ClearNvec, TypeOK, OpPc, OpIdle, demuxVars, devVars, intxVars, envVars
<1>13. CASE IntxSet
  BY <1>1, <1>13 DEF IntxSet, TypeOK, OpPc, poolVars, demuxVars, devVars, envVars
<1>14. CASE IntxEnable
  BY <1>1, <1>2, <1>14 DEF IntxEnable, TypeOK, OpPc, OpIdle, poolVars, demuxVars, devVars, envVars
<1>15. CASE RefuseIntx
  BY <1>1, <1>2, <1>15 DEF RefuseIntx, TypeOK, OpPc, At, poolVars, demuxVars, devVars, intxVars,
                          envVars
<1>16. CASE IntxRemove
  BY <1>1, <1>16 DEF IntxRemove, TypeOK, OpPc, poolVars, demuxVars, devVars, envVars
<1>17. CASE IntxNull
  BY <1>1, <1>2, <1>17 DEF IntxNull, TypeOK, OpPc, OpIdle, At, poolVars, demuxVars, devVars
<1>18. QED
  BY <1>3, <1>4, <1>5, <1>6, <1>7, <1>8, <1>9, <1>10, <1>11, <1>12, <1>13, <1>14, <1>15,
     <1>16, <1>17 DEF Locked

\* The calls without the semaphore and the resets.
LEMMA TypeLockFree ==
    ASSUME TypeOK, NEW m \in Masker, NEW d \in Dev, NEW v \in Vec,
           NEW act \in {"mask", "unmask"}
    PROVE  /\ MaskIntVector(m, d, v, act) => TypeOK'
           /\ BottomHalf(m, d, v) => TypeOK'
<1>1. SlotOf(d, v) \in Slot
  BY DEF SlotOf, TypeOK
<1>2. ASSUME NEW a \in {"mask", "unmask"}, ReadSlot(m, d, v, a)
      PROVE  masker' \in [Masker -> [act : {"idle", "mask", "unmask"}, slot : Slot]]
  BY <1>1, <1>2 DEF ReadSlot, TypeOK
<1>3. MaskIntVector(m, d, v, act) => TypeOK'
  BY <1>2 DEF MaskIntVector, TypeOK, poolVars, demuxVars, devVars, intxVars, envVars
<1>4. BottomHalf(m, d, v) => TypeOK'
  BY <1>2 DEF BottomHalf, TypeOK, poolVars, demuxVars, devVars, intxVars
<1>5. QED
  BY <1>3, <1>4

LEMMA TypeWriteMask == ASSUME TypeOK, NEW m \in Masker, WriteMask(m) PROVE TypeOK'
<1>1. masker[m].slot \in Slot /\ 0 \in Slot
  BY DEF TypeOK, Slot
<1>2. QED
  BY <1>1 DEF WriteMask, MaskIdle, TypeOK, poolVars, devVars, intxVars, envVars

LEMMA TypeDevice ==
    ASSUME TypeOK, NEW d \in Dev
    PROVE  /\ \A on \in BOOLEAN : SetIntx(d, on) => TypeOK'
           /\ Flr(d) => TypeOK'
           /\ RaiseIntx(d) => TypeOK'
<1>1. ASSUME NEW on \in BOOLEAN, SetIntx(d, on) PROVE TypeOK'
  BY <1>1 DEF SetIntx, TypeOK, poolVars, demuxVars, devVars, ctlVars, envVars
<1>2. Flr(d) => TypeOK'
  BY DEF Flr, TypeOK, poolVars, demuxVars, ctlVars, envVars
<1>3. RaiseIntx(d) => TypeOK'
  <2>1. 0 \in Vec
    BY DEF Vec
  <2>2. QED
    BY <2>1 DEF RaiseIntx, TypeOK, poolVars, demuxVars, devVars, intxVars, ctlVars
<1>4. QED
  BY <1>1, <1>2, <1>3

LEMMA TypeFree == ASSUME TypeOK, NEW d \in Dev, FreeIntVectors(d) PROVE TypeOK'
<1>1. 0 \in Vec
  BY DEF Vec
<1>2. QED
  BY <1>1 DEF FreeIntVectors, TypeOK, At, OpPc, poolVars, demuxVars, devVars, intxVars, envVars

\* The demux interrupt, INTx, and what the devices and the fabric do.
LEMMA TypeDemux == TypeOK /\ Demux => TypeOK'
<1> SUFFICES ASSUME TypeOK, Demux PROVE TypeOK'
  OBVIOUS
<1>1. CASE DemuxEnter
  BY <1>1 DEF DemuxEnter, TypeOK, poolVars, demuxVars, devVars, intxVars, envVars
<1>2. CASE DemuxClear
  <2>1. PICK s \in isr.todo : /\ status' = status \ {s}
                             /\ isr' = [isr EXCEPT !.todo = @ \ {s}, !.cur = {s}]
    BY <1>2 DEF DemuxClear
  <2>2. s \in Slot
    BY DEF TypeOK
  <2>3. isr' \in [active : BOOLEAN, todo : SUBSET Slot, cur : SUBSET Slot]
    BY <2>1, <2>2 DEF TypeOK
  <2>4. QED
    BY <1>2, <2>1, <2>3 DEF DemuxClear, TypeOK, poolVars, devVars, intxVars, envVars
<1>3. CASE DemuxCall
  <2>1. PICK s \in isr.cur :
          /\ \/ servers[s] = NoDev /\ UNCHANGED <<mask, work, deferred>>
             \/ /\ servers[s] # NoDev
                /\ work' = work \ ServedBy(s)
                /\ UNCHANGED <<mask, deferred>>
             \/ /\ servers[s] # NoDev
                /\ mask' = mask \cup {s}
                /\ deferred' = deferred \cup ServedBy(s)
                /\ UNCHANGED work
          /\ stale' = stale \ {s}
    BY <1>3 DEF DemuxCall
  <2>2. s \in Slot
    BY DEF TypeOK
  <2>3. servers[s] # NoDev => ServedBy(s) \subseteq Dev \X Vec
    <3> SUFFICES ASSUME servers[s] # NoDev PROVE ServedBy(s) \subseteq Dev \X Vec
      OBVIOUS
    <3>1. servers[s] \in Dev
      BY <2>2 DEF TypeOK
    <3>2. nvec[servers[s]] \in 0 .. NSlots
      BY <3>1 DEF TypeOK
    <3>3. 0 .. nvec[servers[s]] - 1 \subseteq Vec
      BY <3>2 DEF Vec
    <3>4. QED
      BY <3>1, <3>3 DEF ServedBy
  <2>4. /\ work' \subseteq Dev \X Vec /\ deferred' \subseteq Dev \X Vec
        /\ mask' \subseteq Slot /\ stale' \subseteq Slot
    BY <2>1, <2>2, <2>3 DEF TypeOK
  <2>5. QED
    BY <1>3, <2>4 DEF DemuxCall, TypeOK, poolVars, devVars, intxVars
<1>4. CASE DemuxExit
  BY <1>4 DEF DemuxExit, IsrIdle, TypeOK, poolVars, demuxVars, devVars, intxVars, envVars
<1>5. QED
  BY <1>1, <1>2, <1>3, <1>4 DEF Demux

LEMMA TypeIntxInterrupt == ASSUME TypeOK, NEW l \in Line, IntxInterrupt(l) PROVE TypeOK'
BY DEF IntxInterrupt, TypeOK, poolVars, demuxVars, devVars, intxVars, ctlVars

LEMMA TypeArrive == ASSUME TypeOK, NEW msg \in MsgOf, Arrive(msg) PROVE TypeOK'
<1>1. msg.slot \in Slot
  BY DEF MsgOf
<1>2. QED
  BY <1>1 DEF Arrive, TypeOK, poolVars, devVars, intxVars, ctlVars

LEMMA TypeRaise ==
    ASSUME TypeOK, NEW d \in Dev, NEW v \in Vec, Raise(d, v), MsgSlot(d, v) \in Slot
    PROVE  TypeOK'
<1>1. [dev |-> d, slot |-> MsgSlot(d, v)] \in MsgOf
  BY DEF MsgOf
<1>2. inflight' \subseteq MsgOf /\ work' \subseteq Dev \X Vec
  BY <1>1 DEF Raise, TypeOK
<1>3. QED
  BY <1>2 DEF Raise, TypeOK, poolVars, demuxVars, devVars, intxVars, ctlVars

LEMMA TypeAddIntServerMsi ==
    ASSUME TypeOK, NEW d \in Dev, AddIntServerMsi(d)
    PROVE  TypeOK'
<1>1. [min |-> 1, max |-> 1, flags |-> {"MSI"}] \in AnyRequest
  BY DEF AnyRequest, Types, Msgs
<1>2. At("added", d, 0, FALSE) \in OpType /\ At("added", d, 0, FALSE).dev \in Dev
  BY DEF At, OpType, OpPc, Vec
<1>3. QED
  BY <1>1, <1>2, TypeAllocMsi DEF AddIntServerMsi

-----------------------------------------------------------------------------
(* The inductive invariant.                                                *)

\* What holds of the pool beside the types.
Holdings == PoolExact /\ ServersOnHeldSlots /\ InflightHeld /\ MsiBlocks /\ CallConsistent
IInv     == TypeOK /\ Holdings

\* No slot changes hands in a step.
Kept == \A d \in Dev : Held(d)' = Held(d)

LEMMA HoldingsInit == Init => Holdings
<1> SUFFICES ASSUME Init PROVE Holdings
  OBVIOUS
<1>1. \A d \in Dev : ~Holds(d) /\ Held(d) = {}
  BY DEF Init, Holds, Held, Msgs
<1>2. QED
  BY <1>1 DEF Init, OpIdle, Holdings, PoolExact, ServersOnHeldSlots, InflightHeld,
              MsiBlocks, CallConsistent, Msgs

\* A step that moves no slot between the devices keeps what the pool records.
LEMMA SameHeld ==
    ASSUME UNCHANGED used, inflight' \subseteq inflight,
           TypeOK, PoolExact, InflightHeld, MsiBlocks,
           \A d \in Dev : /\ Holds(d)' = Holds(d)
                          /\ Holds(d) => /\ mode'[d] = mode[d] /\ nvec'[d] = nvec[d]
                                         /\ slots'[d] = slots[d]
    PROVE  /\ PoolExact' /\ InflightHeld' /\ MsiBlocks'
           /\ \A d \in Dev : Held(d)' = Held(d)
<1>1. ASSUME NEW d \in Dev PROVE Held(d)' = Held(d)
  <2>1. CASE ~Holds(d)
    BY <2>1 DEF Held
  <2>2. CASE Holds(d)
    <3>1. nvec'[d] = nvec[d] /\ slots'[d] = slots[d] /\ Holds(d)'
      BY <2>2
    <3>2. {slots'[d][v] : v \in 0 .. nvec'[d] - 1} = {slots[d][v] : v \in 0 .. nvec[d] - 1}
      BY <3>1
    <3>3. QED
      BY <2>2, <3>1, <3>2 DEF Held, SlotOf
  <2>3. QED
    BY <2>1, <2>2
<1>2. PoolExact'
  <2>1. used' = UNION {Held(d)' : d \in Dev}
    BY <1>1 DEF PoolExact
  <2>2. \A d, e \in Dev : d # e => Held(d)' \cap Held(e)' = {}
    BY <1>1 DEF PoolExact
  <2>3. \A d \in Dev : Holds(d)' =>
           \A u, v \in 0 .. nvec'[d] - 1 : SlotOf(d, u)' = SlotOf(d, v)' => u = v
    BY DEF PoolExact, SlotOf
  <2>4. QED
    BY <2>1, <2>2, <2>3 DEF PoolExact
<1>3. InflightHeld'
  <2>1. \A m \in inflight : m.dev \in Dev
    BY DEF TypeOK, MsgOf
  <2>2. QED
    BY <1>1, <2>1 DEF InflightHeld
<1>4. MsiBlocks'
  <2> SUFFICES ASSUME NEW d \in Dev, mode'[d] = "MSI", Holds(d)'
               PROVE  /\ nvec'[d] \in PowersOfTwo
                      /\ SlotOf(d, 0)' % nvec'[d] = 0
                      /\ \A v \in 0 .. nvec'[d] - 1 : SlotOf(d, v)' = SlotOf(d, 0)' + v
    BY DEF MsiBlocks
  <2>1. Holds(d) /\ mode[d] = "MSI" /\ nvec'[d] = nvec[d] /\ slots'[d] = slots[d]
    OBVIOUS
  <2>2. QED
    BY <2>1 DEF MsiBlocks, SlotOf
<1>5. QED
  BY <1>1, <1>2, <1>3, <1>4

\* A step that touches neither the pool, the bindings nor the call in progress.
LEMMA Quiet ==
    ASSUME IInv, UNCHANGED <<poolVars, servers, op>>,
           inflight' \subseteq inflight, enabled' \subseteq enabled
    PROVE  Holdings' /\ Kept
<1>1. \A d \in Dev : Holds(d)' = Holds(d)
  BY DEF Holds, poolVars
<1>2. /\ PoolExact' /\ InflightHeld' /\ MsiBlocks'
      /\ \A d \in Dev : Held(d)' = Held(d)
  BY <1>1, SameHeld DEF IInv, Holdings, poolVars
<1>3. ServersOnHeldSlots'
  BY <1>2 DEF IInv, Holdings, ServersOnHeldSlots, TypeOK
<1>4. CallConsistent'
  BY DEF IInv, Holdings, CallConsistent, Bound, Detached, Flushed, HasServer, SlotOf, poolVars, Msgs
<1>5. QED
  BY <1>2, <1>3, <1>4 DEF Holdings, Kept

\* A step of the call in progress that leaves the pool alone.
LEMMA Moved ==
    ASSUME IInv, UNCHANGED poolVars, inflight' \subseteq inflight,
           op.pc \notin {"clear_mode", "clear_nvec"}, op'.pc \notin {"clear_mode", "clear_nvec"}
    PROVE  /\ PoolExact' /\ InflightHeld' /\ MsiBlocks'
           /\ \A d \in Dev : Held(d)' = Held(d) /\ Holds(d)' = Holds(d)
<1>1. \A d \in Dev : Holds(d)' = Holds(d)
  BY DEF Holds, poolVars
<1>2. QED
  BY <1>1, SameHeld DEF IInv, Holdings, poolVars

\* The server found on a slot a device holds is the device's own.
LEMMA OwnServer ==
    ASSUME IInv, NEW d \in Dev, Holds(d), NEW v \in 0 .. nvec[d] - 1,
           servers[SlotOf(d, v)] # NoDev
    PROVE  servers[SlotOf(d, v)] = d
<1>1. SlotOf(d, v) \in Held(d) /\ v \in Vec
  BY DEF Held, Vec, IInv, TypeOK
<1>2. SlotOf(d, v) \in Slot
  BY <1>1 DEF SlotOf, IInv, TypeOK
<1>3. servers[SlotOf(d, v)] \in Dev
  BY <1>2 DEF IInv, TypeOK
<1>4. SlotOf(d, v) \in Held(servers[SlotOf(d, v)])
  BY <1>2 DEF IInv, Holdings, ServersOnHeldSlots
<1>5. QED
  BY <1>1, <1>3, <1>4 DEF IInv, Holdings, PoolExact

LEMMA HoldVecClose ==
    ASSUME IInv, NEW d \in Dev, NEW v \in 0 .. nvec[d] - 1, NEW fr \in BOOLEAN,
           mode[d] \in Msgs, HasServer(d, v), op.pc \in {"idle", "detach"},
           VecClose(d, v, fr)
    PROVE  Holdings' /\ Kept
<1>1. Holds(d)
  BY DEF Holds
<1>2. servers[SlotOf(d, v)] = d
  BY <1>1, OwnServer DEF HasServer, Msgs
<1>3. /\ PoolExact' /\ InflightHeld' /\ MsiBlocks'
      /\ \A e \in Dev : Held(e)' = Held(e)
  <2>1. UNCHANGED poolVars /\ inflight' = inflight /\ op'.pc = "unbind_mask"
    BY DEF VecClose, At, envVars
  <2>2. QED
    BY <2>1, Moved
<1>4. ServersOnHeldSlots'
  <2>1. UNCHANGED servers
    BY DEF VecClose, demuxVars
  <2>2. QED
    BY <1>3, <2>1 DEF IInv, TypeOK, Holdings, ServersOnHeldSlots
<1>5. CallConsistent'
  <2>1. op' = At("unbind_mask", d, v, fr) /\ UNCHANGED <<poolVars, servers, enabled>>
    BY DEF VecClose, demuxVars
  <2>2. Bound(d, v)'
    BY <1>2, <2>1 DEF Bound, SlotOf, poolVars, IInv, TypeOK
  <2>3. QED
    BY <2>1, <2>2 DEF IInv, Holdings, CallConsistent, At, poolVars
<1>6. QED
  BY <1>3, <1>4, <1>5 DEF Holdings, Kept

LEMMA HoldBind ==
    ASSUME IInv, NEW d \in Dev, NEW v \in Vec, BindServer(d, v)
    PROVE  Holdings' /\ Kept
<1>1. /\ op.pc \in {"idle", "added"} /\ op' = At("bind_clr", d, v, FALSE)
      /\ servers' = [servers EXCEPT ![SlotOf(d, v)] = d]
      /\ UNCHANGED <<poolVars, enabled, inflight>>
      /\ v < nvec[d] /\ mode[d] \in Msgs /\ nvec[d] \in 0 .. NSlots
  BY DEF BindServer, devVars, IInv, TypeOK
<1>2. Holds(d) /\ SlotOf(d, v) \in Held(d) /\ SlotOf(d, v) \in Slot
  BY <1>1 DEF Holds, Held, Vec, SlotOf, IInv, TypeOK
<1>3. /\ PoolExact' /\ InflightHeld' /\ MsiBlocks'
      /\ \A e \in Dev : Held(e)' = Held(e)
  BY <1>1, Moved DEF At
<1>4. ServersOnHeldSlots'
  BY <1>1, <1>2, <1>3 DEF IInv, TypeOK, Holdings, ServersOnHeldSlots
<1>5. CallConsistent'
  <2>1. Bound(d, v)'
    BY <1>1, <1>2 DEF Bound, SlotOf, poolVars, IInv, TypeOK
  <2>2. QED
    BY <1>1, <2>1 DEF IInv, Holdings, CallConsistent, At, poolVars
<1>6. QED
  BY <1>3, <1>4, <1>5 DEF Holdings, Kept

\* The steps of an attach after its first, and of a detach: the pool and the
\* bindings stay, except that unbind_null clears one.
LEMMA HoldSteps ==
    ASSUME IInv, \/ BindClear \/ BindUnmask \/ VecOpen \/ UnbindMask \/ UnbindNull
    PROVE  Holdings' /\ Kept
<1>1. /\ op.pc \in {"bind_clr", "bind_unmask", "vec_open", "unbind_mask", "unbind_null"}
      /\ op.dev \in Dev /\ op.vec \in Vec
      /\ Bound(op.dev, op.vec)
  BY DEF BindClear, BindUnmask, VecOpen, UnbindMask, UnbindNull, IInv, TypeOK, Holdings,
         CallConsistent
<1>2. /\ UNCHANGED <<poolVars, enabled, inflight>>
      /\ \/ op'.pc \in {"bind_unmask", "vec_open", "unbind_null"} /\ UNCHANGED servers
               /\ op'.dev = op.dev /\ op'.vec = op.vec
         \/ op' = OpIdle /\ UNCHANGED servers
         \/ /\ op' = At("detach", op.dev, 0, TRUE) \/ op' = OpIdle
            /\ servers' = [servers EXCEPT ![SlotOf(op.dev, op.vec)] = NoDev]
  <2>1. CASE BindClear
    BY <2>1 DEF BindClear, devVars, IInv, TypeOK
  <2>2. CASE BindUnmask
    BY <2>2 DEF BindUnmask, devVars, envVars, IInv, TypeOK
  <2>3. CASE VecOpen
    BY <2>3 DEF VecOpen, demuxVars, envVars
  <2>4. CASE UnbindMask
    BY <2>4 DEF UnbindMask, devVars, envVars, IInv, TypeOK
  <2>5. CASE UnbindNull
    BY <2>5 DEF UnbindNull, devVars
  <2>6. QED
    BY <2>1, <2>2, <2>3, <2>4, <2>5
<1>3. /\ PoolExact' /\ InflightHeld' /\ MsiBlocks'
      /\ \A e \in Dev : Held(e)' = Held(e)
  <2>1. op.pc \notin {"clear_mode", "clear_nvec"} /\ op'.pc \notin {"clear_mode", "clear_nvec"}
    BY <1>1, <1>2 DEF At, OpIdle
  <2>2. QED
    BY <1>2, <2>1, Moved
<1>4. SlotOf(op.dev, op.vec) \in Slot
  BY <1>1 DEF SlotOf, IInv, TypeOK
<1>5. ServersOnHeldSlots'
  <2>1. ASSUME NEW s \in Slot, servers'[s] # NoDev
        PROVE  servers'[s] = servers[s] /\ servers[s] \in Dev
    <3>1. servers \in [Slot -> Dev \cup {NoDev}]
      BY DEF IInv, TypeOK
    <3>2. servers' = servers \/ servers' = [servers EXCEPT ![SlotOf(op.dev, op.vec)] = NoDev]
      BY <1>2
    <3>3. QED
      BY <1>4, <2>1, <3>1, <3>2
  <2>2. QED
    BY <1>3, <2>1 DEF IInv, Holdings, ServersOnHeldSlots
<1>6. CallConsistent'
  <2>1. Bound(op.dev, op.vec)' \/ op'.pc \in {"idle", "detach"}
    BY <1>1, <1>2 DEF Bound, SlotOf, poolVars, At, OpIdle
  <2>2. mode[op.dev] # "none"
    BY <1>1 DEF Bound, Msgs
  <2>3. /\ \A d \in enabled' : mode'[d] \in Msgs
        /\ \A d \in Dev : /\ mode'[d] \in Msgs => nvec'[d] > 0
                          /\ mode'[d] = "none" => nvec'[d] = 0
    BY <1>1, <1>2 DEF IInv, Holdings, CallConsistent, poolVars
  <2>4. CASE op'.pc \in {"bind_unmask", "vec_open", "unbind_null"}
    <3>1. op'.dev = op.dev /\ op'.vec = op.vec /\ UNCHANGED <<servers, poolVars>>
      BY <1>2, <2>4 DEF At, OpIdle
    <3>2. Bound(op.dev, op.vec)'
      BY <1>1, <3>1 DEF Bound, SlotOf, poolVars
    <3>3. QED
      BY <2>3, <2>4, <3>2 DEF CallConsistent
  <2>5. CASE op' = OpIdle
    BY <2>3, <2>5 DEF CallConsistent, OpIdle
  <2>6. CASE op' = At("detach", op.dev, 0, TRUE)
    <3>1. mode' = mode
      BY <1>2 DEF poolVars
    <3>2. QED
      BY <2>2, <2>3, <2>6, <3>1 DEF CallConsistent, At
  <2>7. QED
    BY <1>2, <2>4, <2>5, <2>6
<1>7. QED
  BY <1>3, <1>5, <1>6 DEF Holdings, Kept

\* The shutdown finds no server and no message left, and the device stays silent.
LEMMA HoldFreeShutdown == ASSUME IInv, FreeShutdown PROVE Holdings' /\ Kept
<1>1. /\ op.pc = "detach" /\ op.dev \in Dev /\ mode[op.dev] \in Types
      /\ Detached(op.dev) /\ Flushed(op.dev)
      /\ op' = [op EXCEPT !.pc = IF mode[op.dev] = "INTX" THEN "clear_mode" ELSE "slots_free"]
      /\ enabled' = enabled \ {op.dev}
      /\ UNCHANGED <<poolVars, servers, inflight>>
  BY DEF FreeShutdown, demuxVars, envVars, IInv, TypeOK, Holdings, CallConsistent
<1>2. \A d \in Dev : Holds(d)' = Holds(d)
  <2>1. op'.dev = op.dev /\ (mode[op.dev] # "INTX" => op'.pc = "slots_free")
    BY <1>1 DEF IInv, TypeOK
  <2>2. QED
    BY <1>1, <2>1 DEF Holds, poolVars, Msgs
<1>3. /\ PoolExact' /\ InflightHeld' /\ MsiBlocks'
      /\ \A d \in Dev : Held(d)' = Held(d)
  BY <1>1, <1>2, SameHeld DEF IInv, Holdings, poolVars
<1>4. ServersOnHeldSlots'
  BY <1>1, <1>3 DEF IInv, TypeOK, Holdings, ServersOnHeldSlots
<1>5. CallConsistent'
  <2>1. op'.dev = op.dev /\ op'.pc = IF mode[op.dev] = "INTX" THEN "clear_mode" ELSE "slots_free"
    BY <1>1 DEF IInv, TypeOK
  <2>2. Detached(op.dev)' /\ Flushed(op.dev)'
    BY <1>1 DEF Detached, Flushed, HasServer, SlotOf, poolVars, FreeShutdown, intxVars
  <2>3. mode[op.dev] = "INTX" \/ mode[op.dev] \in Msgs
    BY <1>1 DEF Types
  <2>4. QED
    BY <1>1, <2>1, <2>2, <2>3 DEF IInv, Holdings, CallConsistent, poolVars, Msgs
<1>6. QED
  BY <1>3, <1>4, <1>5 DEF Holdings, Kept

\* pci_irq_slots_free: the device's slots leave the bitmap and its holding at once.
LEMMA HoldSlotsFree ==
    ASSUME IInv, SlotsFree
    PROVE  /\ Holdings' /\ op.dev \in Dev /\ Held(op.dev) # {}
           /\ \A d \in Dev : Held(d)' = IF d = op.dev THEN {} ELSE Held(d)
<1>1. /\ op.pc = "slots_free" /\ op.dev \in Dev
      /\ used' = FreeListed(used, slots[op.dev], nvec[op.dev])
      /\ op'.pc = "clear_mode" /\ op'.dev = op.dev
      /\ UNCHANGED <<mode, nvec, slots, servers, enabled, inflight>>
      /\ mode[op.dev] \in Msgs /\ Detached(op.dev) /\ Flushed(op.dev)
      /\ op.dev \notin enabled
  BY DEF SlotsFree, demuxVars, devVars, envVars, IInv, TypeOK, Holdings, CallConsistent
<1>2. /\ Holds(op.dev)
      /\ \A d \in Dev : Holds(d)' = (d # op.dev /\ Holds(d))
  BY <1>1 DEF Holds
<1>3. \A d \in Dev : Held(d)' = IF d = op.dev THEN {} ELSE Held(d)
  <2> SUFFICES ASSUME NEW d \in Dev PROVE Held(d)' = IF d = op.dev THEN {} ELSE Held(d)
    OBVIOUS
  <2>1. CASE d = op.dev \/ ~Holds(d)
    BY <1>2, <2>1 DEF Held
  <2>2. CASE d # op.dev /\ Holds(d)
    <3>1. Holds(d)' /\ slots' = slots /\ nvec' = nvec
      BY <1>1, <1>2, <2>2
    <3>2. QED
      BY <2>2, <3>1 DEF Held, SlotOf
  <2>3. QED
    BY <2>1, <2>2
<1>4. Held(op.dev) # {}
  <2>1. nvec[op.dev] \in Nat /\ nvec[op.dev] > 0
    BY <1>1 DEF IInv, TypeOK, Holdings, CallConsistent
  <2>2. SlotOf(op.dev, 0) \in Held(op.dev)
    BY <1>2, <2>1 DEF Held
  <2>3. QED
    BY <2>2
<1>5. PoolExact'
  <2>1. used' = UNION {Held(d)' : d \in Dev}
    <3>1. used' = used \ Held(op.dev)
      BY <1>1, <1>2 DEF FreeListed, Held, SlotOf
    <3>2. QED
      BY <1>1, <1>3, <3>1 DEF IInv, Holdings, PoolExact
  <2>2. \A d, e \in Dev : d # e => Held(d)' \cap Held(e)' = {}
    <3> SUFFICES ASSUME NEW d \in Dev, NEW e \in Dev, d # e
                 PROVE  Held(d)' \cap Held(e)' = {}
      OBVIOUS
    <3>1. CASE d = op.dev \/ e = op.dev
      BY <1>3, <3>1
    <3>2. CASE d # op.dev /\ e # op.dev
      BY <1>3, <3>2 DEF IInv, Holdings, PoolExact
    <3>3. QED
      BY <3>1, <3>2
  <2>3. \A d \in Dev : Holds(d)' =>
           \A u, v \in 0 .. nvec'[d] - 1 : SlotOf(d, u)' = SlotOf(d, v)' => u = v
    <3>1. nvec' = nvec /\ slots' = slots /\ \A d \in Dev : Holds(d)' => Holds(d)
      BY <1>1, <1>2
    <3>2. QED
      BY <3>1 DEF IInv, Holdings, PoolExact, SlotOf
  <2>4. QED
    BY <2>1, <2>2, <2>3 DEF PoolExact
<1>6. ServersOnHeldSlots'
  <2>1. ASSUME NEW s \in Slot, NEW d \in Dev, servers[s] = d
        PROVE  s \in Held(d)'
    <3>1. d # NoDev /\ s \in Held(d)
      BY <2>1 DEF IInv, Holdings, ServersOnHeldSlots
    <3>2. d # op.dev
      BY <1>1, <1>2, <2>1, <3>1 DEF Held, Detached, HasServer, Msgs
    <3>3. QED
      BY <1>3, <3>1, <3>2
  <2>2. \A s \in Slot : servers'[s] # NoDev => servers'[s] \in Dev /\ servers'[s] = servers[s]
    BY <1>1 DEF IInv, TypeOK
  <2>3. QED
    BY <2>1, <2>2 DEF ServersOnHeldSlots
<1>7. InflightHeld'
  BY <1>1, <1>3 DEF IInv, TypeOK, MsgOf, Holdings, InflightHeld, Flushed
<1>8. MsiBlocks'
  BY <1>1, <1>2 DEF IInv, Holdings, MsiBlocks, SlotOf
<1>9. CallConsistent'
  BY <1>1 DEF IInv, Holdings, CallConsistent, Msgs
<1>10. QED
  BY <1>1, <1>3, <1>4, <1>5, <1>6, <1>7, <1>8, <1>9 DEF Holdings

LEMMA HoldClear == ASSUME IInv, ClearMode \/ ClearNvec PROVE Holdings' /\ Kept
<1>1. /\ op.pc \in {"clear_mode", "clear_nvec"} /\ op.dev \in Dev /\ op.dev \notin enabled
      /\ UNCHANGED <<used, slots, servers, enabled, inflight>>
  BY DEF ClearMode, ClearNvec, demuxVars, devVars, envVars, IInv, TypeOK, Holdings, CallConsistent
<1>2. \/ op.pc = "clear_mode" /\ op'.pc = "clear_nvec" /\ op'.dev = op.dev
         /\ mode' = [mode EXCEPT ![op.dev] = "none"] /\ nvec' = nvec
      \/ op.pc = "clear_nvec" /\ op' = OpIdle /\ mode' = mode
         /\ mode[op.dev] = "none" /\ nvec' = [nvec EXCEPT ![op.dev] = 0]
  BY DEF ClearMode, ClearNvec, IInv, TypeOK, Holdings, CallConsistent
<1>3. mode \in [Dev -> Types \cup {"none"}] /\ nvec \in [Dev -> 0 .. NSlots]
  BY DEF IInv, TypeOK
<1>4. \A d \in Dev : /\ Holds(d)' = Holds(d)
                     /\ Holds(d) => mode'[d] = mode[d] /\ nvec'[d] = nvec[d]
  BY <1>1, <1>2, <1>3 DEF Holds, OpIdle, Msgs
<1>5. /\ PoolExact' /\ InflightHeld' /\ MsiBlocks'
      /\ \A d \in Dev : Held(d)' = Held(d)
  BY <1>1, <1>4, SameHeld DEF IInv, Holdings
<1>6. ServersOnHeldSlots'
  BY <1>1, <1>5 DEF IInv, TypeOK, Holdings, ServersOnHeldSlots
<1>7. CallConsistent'
  <2>1. CASE op.pc = "clear_mode"
    <3>1. mode'[op.dev] = "none" /\ \A d \in Dev : d # op.dev => mode'[d] = mode[d]
      BY <1>1, <1>2, <1>3, <2>1
    <3>2. enabled \subseteq Dev
      BY DEF IInv, TypeOK
    <3>3. \A d \in enabled' : mode'[d] \in Msgs
      BY <1>1, <3>1, <3>2 DEF IInv, Holdings, CallConsistent
    <3>4. \A d \in Dev : /\ mode'[d] \in Msgs => nvec'[d] > 0
                         /\ mode'[d] = "none" => nvec'[d] = 0 \/ d = op.dev
      BY <1>1, <1>2, <2>1, <3>1 DEF IInv, Holdings, CallConsistent, Msgs
    <3>5. QED
      BY <1>1, <1>2, <2>1, <3>1, <3>3, <3>4 DEF CallConsistent
  <2>2. CASE op.pc = "clear_nvec"
    <3>1. \A d \in enabled' : mode'[d] \in Msgs
      BY <1>1, <1>2, <2>2 DEF IInv, Holdings, CallConsistent
    <3>2. \A d \in Dev : /\ mode'[d] \in Msgs => nvec'[d] > 0
                         /\ mode'[d] = "none" => nvec'[d] = 0
      BY <1>1, <1>2, <1>3, <2>2 DEF IInv, Holdings, CallConsistent, Msgs
    <3>3. QED
      BY <1>2, <2>2, <3>1, <3>2 DEF CallConsistent, OpIdle
  <2>3. QED
    BY <1>1, <2>1, <2>2
<1>8. QED
  BY <1>5, <1>6, <1>7 DEF Holdings, Kept

\* A step of the call in progress that leaves the pool and the bindings alone, to
\* or from a step of an INTx attach or detach.
LEMMA HoldIntxStep ==
    ASSUME IInv, UNCHANGED <<poolVars, servers, enabled, inflight>>,
           op.pc \notin {"clear_mode", "clear_nvec"},
           op'.pc \in {"idle", "intx_set", "intx_on", "intx_gic", "intx_null", "detach"},
           op'.pc # "idle" => mode[op'.dev] = "INTX"
    PROVE  Holdings' /\ Kept
<1>1. /\ PoolExact' /\ InflightHeld' /\ MsiBlocks'
      /\ \A d \in Dev : Held(d)' = Held(d)
  BY Moved
<1>2. ServersOnHeldSlots'
  BY <1>1 DEF IInv, TypeOK, Holdings, ServersOnHeldSlots
<1>3. CallConsistent'
  BY DEF IInv, Holdings, CallConsistent, poolVars
<1>4. QED
  BY <1>1, <1>2, <1>3 DEF Holdings, Kept

LEMMA HoldIntx ==
    ASSUME IInv, IntxSet \/ IntxEnable \/ RefuseIntx \/ IntxRemove \/ IntxNull
    PROVE  Holdings' /\ Kept
<1>1. /\ UNCHANGED <<poolVars, servers, enabled, inflight>>
      /\ op.pc \in {"added", "intx_set", "intx_on", "intx_gic", "intx_null"}
  BY DEF IntxSet, IntxEnable, RefuseIntx, IntxRemove, IntxNull, demuxVars, devVars, envVars
<1>2. mode[op.dev] = "INTX"
  BY <1>1 DEF RefuseIntx, IntxSet, IntxEnable, IntxRemove, IntxNull, IInv, Holdings, CallConsistent
<1>3. \/ op'.pc = "idle"
      \/ op'.pc \in {"intx_on", "intx_null", "detach"} /\ op'.dev = op.dev
  BY DEF IntxSet, IntxEnable, RefuseIntx, IntxRemove, IntxNull, At, OpIdle, IInv, TypeOK
<1>4. QED
  BY <1>1, <1>2, <1>3, HoldIntxStep

LEMMA HoldDetachIntx ==
    ASSUME IInv, NEW d \in Dev, NEW fr \in BOOLEAN, mode[d] = "INTX",
           op.pc \in {"idle", "detach"}, DetachIntx(d, fr)
    PROVE  Holdings' /\ Kept
<1>1. UNCHANGED <<poolVars, servers, enabled, inflight>> /\ op' = At("intx_gic", d, 0, fr)
  BY DEF DetachIntx, demuxVars, devVars, envVars
<1>2. QED
  BY <1>1, HoldIntxStep DEF At

LEMMA HoldAddIntx == ASSUME IInv, NEW d \in Dev, AddIntx(d) PROVE Holdings' /\ Kept
<1>1. /\ UNCHANGED <<poolVars, servers, enabled, inflight>> /\ op' = At("intx_set", d, 0, FALSE)
      /\ mode[d] = "INTX" /\ op.pc \in {"idle", "added"}
  BY DEF AddIntx, MayAttach, demuxVars, devVars, envVars
<1>2. QED
  BY <1>1, HoldIntxStep DEF At

LEMMA HoldFreeDetach == ASSUME IInv, FreeDetach PROVE Holdings' /\ Kept
<1>1. op.pc = "detach" /\ op.dev \in Dev /\ mode[op.dev] \in Types
  BY DEF FreeDetach, IInv, TypeOK, Holdings, CallConsistent
<1>2. PICK v \in 0 .. nvec[op.dev] - 1 :
         /\ HasServer(op.dev, v)
         /\ IF mode[op.dev] = "INTX" THEN DetachIntx(op.dev, TRUE)
                                     ELSE VecClose(op.dev, v, TRUE)
  BY DEF FreeDetach
<1>3. CASE mode[op.dev] = "INTX"
  BY <1>1, <1>2, <1>3, HoldDetachIntx
<1>4. CASE mode[op.dev] # "INTX"
  BY <1>1, <1>2, <1>4, HoldVecClose DEF Types
<1>5. QED
  BY <1>3, <1>4

LEMMA HoldLocked == ASSUME IInv, Locked PROVE Holdings'
BY HoldSteps, HoldIntx, HoldFreeShutdown, HoldSlotsFree, HoldClear, HoldFreeDetach DEF Locked

\* The list an allocation of n vectors records: distinct free slots, and a block
\* for MSI.
Suitable(type, n, list) ==
    /\ list \in [Vec -> Slot]
    /\ \A v \in 0 .. n - 1 : list[v] \in FreeSlots
    /\ \A u, v \in 0 .. n - 1 : list[u] = list[v] => u = v
    /\ type = "MSI" => /\ n \in PowersOfTwo /\ list[0] % n = 0
                       /\ \A v \in 0 .. n - 1 : list[v] = list[0] + v

\* A successful allocation adds slots nobody holds to one device that holds none.
LEMMA HoldProgram ==
    ASSUME IInv, NEW d \in Dev, NEW type \in Msgs, NEW n \in 1 .. NSlots,
           NEW list, Suitable(type, n, list), NEW next, next.pc \in {"idle", "added"},
           op.pc = "idle", mode[d] = "none",
           Program(d, type, n, list, used, next)
    PROVE  /\ Holdings'
           /\ Held(d) = {}
           /\ \A e \in Dev : Held(e)' = IF e = d THEN {list[v] : v \in 0 .. n - 1} ELSE Held(e)
<1> DEFINE got == {list[v] : v \in 0 .. n - 1}
<1>1. /\ used' = used \cup got /\ op' = next
      /\ mode' = [mode EXCEPT ![d] = type] /\ nvec' = [nvec EXCEPT ![d] = n]
      /\ slots' = [slots EXCEPT ![d] = list] /\ enabled' = enabled \cup {d}
      /\ UNCHANGED <<servers, inflight>>
  BY DEF Program, demuxVars, envVars
<1>2. /\ mode'[d] = type /\ nvec'[d] = n /\ slots'[d] = list
      /\ \A e \in Dev : e # d => /\ mode'[e] = mode[e] /\ nvec'[e] = nvec[e]
                                /\ slots'[e] = slots[e]
  BY <1>1 DEF IInv, TypeOK
<1>3. ~Holds(d) /\ Holds(d)' /\ \A e \in Dev : e # d => Holds(e)' = Holds(e)
  BY <1>1, <1>2 DEF Holds, Msgs
<1>4. Held(d) = {}
  BY <1>3 DEF Held
<1>5. ASSUME NEW e \in Dev PROVE Held(e)' = IF e = d THEN got ELSE Held(e)
  <2>1. CASE e = d
    BY <1>2, <1>3, <2>1 DEF Held, SlotOf
  <2>2. CASE e # d /\ Holds(e)
    <3>1. Holds(e)' /\ nvec'[e] = nvec[e] /\ slots'[e] = slots[e]
      BY <1>2, <1>3, <2>2
    <3>2. {slots'[e][v] : v \in 0 .. nvec'[e] - 1} = {slots[e][v] : v \in 0 .. nvec[e] - 1}
      BY <3>1
    <3>3. QED
      BY <2>2, <3>1, <3>2 DEF Held, SlotOf
  <2>3. CASE e # d /\ ~Holds(e)
    BY <1>3, <2>3 DEF Held
  <2>4. QED
    BY <2>1, <2>2, <2>3
<1>6. \A e \in Dev : Held(e) \subseteq used
  BY DEF IInv, Holdings, PoolExact
<1>7. got \cap used = {}
  BY DEF FreeSlots, Suitable
<1>8. PoolExact'
  <2>1. used' = UNION {Held(e)' : e \in Dev}
    <3>1. used = UNION {Held(e) : e \in Dev}
      BY DEF IInv, Holdings, PoolExact
    <3>2. QED
      BY <1>1, <1>4, <1>5, <3>1
  <2>2. \A e, g \in Dev : e # g => Held(e)' \cap Held(g)' = {}
    <3> SUFFICES ASSUME NEW e \in Dev, NEW g \in Dev, e # g PROVE Held(e)' \cap Held(g)' = {}
      OBVIOUS
    <3>1. CASE e # d /\ g # d
      BY <1>5, <3>1 DEF IInv, Holdings, PoolExact
    <3>2. CASE e = d \/ g = d
      BY <1>5, <1>6, <1>7, <3>2
    <3>3. QED
      BY <3>1, <3>2
  <2>3. ASSUME NEW e \in Dev, Holds(e)', NEW u \in 0 .. nvec'[e] - 1,
               NEW v \in 0 .. nvec'[e] - 1, SlotOf(e, u)' = SlotOf(e, v)'
        PROVE  u = v
    <3>1. CASE e = d
      BY <1>2, <2>3, <3>1 DEF SlotOf, Suitable
    <3>2. CASE e # d
      BY <1>2, <1>3, <2>3, <3>2 DEF SlotOf, IInv, Holdings, PoolExact
    <3>3. QED
      BY <3>1, <3>2
  <2>4. QED
    BY <2>1, <2>2, <2>3 DEF PoolExact
<1>9. ServersOnHeldSlots'
  <2>1. ASSUME NEW s \in Slot, NEW e \in Dev, servers[s] = e
        PROVE  s \in Held(e)'
    <3>1. s \in Held(e)
      BY <2>1 DEF IInv, Holdings, ServersOnHeldSlots
    <3>2. QED
      BY <1>4, <1>5, <3>1
  <2>2. \A s \in Slot : servers'[s] # NoDev => servers'[s] \in Dev /\ servers'[s] = servers[s]
    BY <1>1 DEF IInv, TypeOK
  <2>3. QED
    BY <2>1, <2>2 DEF ServersOnHeldSlots
<1>10. InflightHeld'
  <2>1. ASSUME NEW m \in inflight, NEW e \in Dev, m.dev = e
        PROVE  m.slot \in Held(e)'
    <3>1. m.slot \in Held(e)
      BY <2>1 DEF IInv, Holdings, InflightHeld
    <3>2. QED
      BY <1>4, <1>5, <3>1
  <2>2. \A m \in inflight : m.dev \in Dev
    BY DEF IInv, TypeOK, MsgOf
  <2>3. QED
    BY <1>1, <2>1, <2>2 DEF InflightHeld
<1>11. MsiBlocks'
  <2> SUFFICES ASSUME NEW e \in Dev, mode'[e] = "MSI", Holds(e)'
               PROVE  /\ nvec'[e] \in PowersOfTwo
                      /\ SlotOf(e, 0)' % nvec'[e] = 0
                      /\ \A v \in 0 .. nvec'[e] - 1 : SlotOf(e, v)' = SlotOf(e, 0)' + v
    BY DEF MsiBlocks
  <2>1. CASE e = d
    BY <1>2, <2>1 DEF SlotOf, Suitable
  <2>2. CASE e # d
    <3>1. mode[e] = "MSI" /\ Holds(e) /\ nvec'[e] = nvec[e] /\ slots'[e] = slots[e]
      BY <1>2, <1>3, <2>2
    <3>2. QED
      BY <3>1 DEF SlotOf, IInv, Holdings, MsiBlocks
  <2>3. QED
    BY <2>1, <2>2
<1>12. CallConsistent'
  <2>1. \A e \in enabled' : mode'[e] \in Msgs
    BY <1>1, <1>2 DEF IInv, TypeOK, Holdings, CallConsistent
  <2>2. \A e \in Dev : /\ mode'[e] \in Msgs => nvec'[e] > 0
                       /\ mode'[e] = "none" => nvec'[e] = 0
    <3> SUFFICES ASSUME NEW e \in Dev
                 PROVE  /\ mode'[e] \in Msgs => nvec'[e] > 0
                        /\ mode'[e] = "none" => nvec'[e] = 0
      OBVIOUS
    <3>1. CASE e = d
      BY <1>2, <3>1 DEF Msgs
    <3>2. CASE e # d
      <4>1. mode'[e] = mode[e] /\ nvec'[e] = nvec[e]
        BY <1>2, <3>2
      <4>2. /\ mode[e] \in Msgs => nvec[e] > 0
            /\ mode[e] = "none" => nvec[e] = 0
        BY DEF IInv, Holdings, CallConsistent
      <4>3. QED
        BY <4>1, <4>2
    <3>3. QED
      BY <3>1, <3>2
  <2>3. op'.pc \in {"idle", "added"}
    BY <1>1
  <2>4. QED
    BY <2>1, <2>2, <2>3 DEF CallConsistent
<1>13. QED
  BY <1>4, <1>5, <1>8, <1>9, <1>10, <1>11, <1>12 DEF Holdings

\* What an allocation does to the pool.
Granted(d) ==
    /\ Held(d) = {}
    /\ \E S \in SUBSET FreeSlots :
          /\ S # {}
          /\ \A e \in Dev : Held(e)' = IF e = d THEN S ELSE Held(e)

LEMMA HoldAllocMsix ==
    ASSUME IInv, NEW d \in Dev, NEW r \in AnyRequest, AllocMsix(d, r)
    PROVE  Holdings' /\ Granted(d)
<1> DEFINE k == MsixCount(d, r)
<1>1. k \in 1 .. NSlots /\ op.pc = "idle" /\ mode[d] = "none"
  BY CountBounds DEF AllocMsix, CanAlloc, Unlocked
<1>2. PICK f \in [0 .. k - 1 -> FreeSlots] :
         LowestFree(f, k) /\ Program(d, "MSIX", k, Listed(d, f, k), used, op)
  BY DEF AllocMsix
<1> DEFINE list == Listed(d, f, k)
<1> HIDE DEF k
<1>3. list \in [Vec -> Slot]
  BY <1>1, <1>2, ListedType DEF IInv
<1>4. \A v \in 0 .. k - 1 : v \in Vec /\ list[v] = f[v]
  BY <1>1 DEF Listed, Vec
<1>5. \A v \in 0 .. k - 1 : list[v] \in FreeSlots
  BY <1>2, <1>4
<1>6. ASSUME NEW u \in 0 .. k - 1, NEW v \in 0 .. k - 1, list[u] = list[v]
      PROVE  u = v
  <2>1. f[u] = f[v] /\ f[u] \in Int
    BY <1>2, <1>4, <1>6 DEF FreeSlots, Slot
  <2>2. (u < v => f[u] < f[v]) /\ (v < u => f[v] < f[u])
    BY <1>2 DEF LowestFree
  <2>3. QED
    BY <1>1, <2>1, <2>2
<1> DEFINE got == {list[v] : v \in 0 .. k - 1}
<1>7. Program(d, "MSIX", k, list, used, op)
  BY <1>2
<1> HIDE DEF list
<1>8. /\ Holdings' /\ Held(d) = {}
      /\ \A e \in Dev : Held(e)' = IF e = d THEN got ELSE Held(e)
  <2>1. Suitable("MSIX", k, list) /\ "MSIX" \in Msgs
    BY <1>3, <1>5, <1>6 DEF Suitable, Msgs
  <2>2. QED
    BY <1>1, <1>7, <2>1, HoldProgram
<1>9. got \in SUBSET FreeSlots /\ got # {}
  <2>1. list[0] \in got
    BY <1>1
  <2>2. QED
    BY <1>5, <2>1
<1>10. QED
  BY <1>8, <1>9 DEF Granted

LEMMA HoldAllocMsi ==
    ASSUME IInv, NEW d \in Dev, NEW r \in AnyRequest, NEW next,
           next.pc \in {"idle", "added"}, AllocMsi(d, r, next)
    PROVE  Holdings' /\ Granted(d)
<1> DEFINE k == MsixCount(d, r)
<1>1. op.pc = "idle" /\ mode[d] = "none"
  BY DEF AllocMsi, CanAlloc, Unlocked
<1>2. PICK n \in PowersOfTwo, base \in Slot, f \in [0 .. k - 1 -> FreeSlots] :
         /\ MsiFits(d, r, used, n, base)
         /\ LowestFree(f, k)
         /\ Program(d, "MSI", n, MsiList(d, f, k, n, base), used, next)
  BY RollBackMsi
<1> DEFINE list == MsiList(d, f, k, n, base)
           got  == {list[v] : v \in 0 .. n - 1}
<1>3. n \in 1 .. NSlots
  BY PowerBounds
<1>4. list \in [Vec -> Slot]
  BY <1>2, MsiListType DEF IInv
<1>5. base \in Nat /\ base % n = 0 /\ Block(base, n) \cap used = {} /\ base + n <= NSlots
  BY <1>2 DEF MsiFits, FreeBlocks, Slot
<1>6. \A v \in 0 .. n - 1 : list[v] = base + v
  BY <1>3 DEF MsiList, Vec
<1>7. \A v \in 0 .. n - 1 : list[v] \in FreeSlots
  <2>1. ASSUME NEW v \in 0 .. n - 1 PROVE base + v \in Block(base, n) /\ base + v \in Slot
    BY <1>3, <1>5 DEF Block, Slot
  <2>2. QED
    BY <1>5, <1>6, <2>1 DEF FreeSlots
<1>8. \A u, v \in 0 .. n - 1 : list[u] = list[v] => u = v
  BY <1>3, <1>5, <1>6
<1>9. list[0] = base /\ \A v \in 0 .. n - 1 : list[v] = list[0] + v
  BY <1>3, <1>5, <1>6
<1> HIDE DEF list
<1>10. /\ Holdings' /\ Held(d) = {}
       /\ \A e \in Dev : Held(e)' = IF e = d THEN got ELSE Held(e)
  <2>1. Program(d, "MSI", n, list, used, next)
    BY <1>2 DEF list
  <2>2. Suitable("MSI", n, list) /\ "MSI" \in Msgs
    BY <1>4, <1>5, <1>7, <1>8, <1>9 DEF Suitable, Msgs
  <2>3. QED
    BY <1>1, <1>3, <2>1, <2>2, HoldProgram
<1>11. got \in SUBSET FreeSlots /\ got # {}
  <2>1. list[0] \in got
    BY <1>3
  <2>2. QED
    BY <1>7, <2>1
<1>12. QED
  BY <1>10, <1>11 DEF Granted

\* An INTx allocation, or a failed one, moves no slot.
LEMMA HoldUnallocated ==
    ASSUME IInv, NEW d \in Dev, op.pc = "idle", mode[d] = "none",
           UNCHANGED <<used, servers, enabled, inflight>>, op'.pc \in {"idle", "added"},
           \A e \in Dev : e # d => mode'[e] = mode[e] /\ nvec'[e] = nvec[e] /\ slots'[e] = slots[e],
           \/ mode'[d] = "none" /\ nvec'[d] = nvec[d]
           \/ mode'[d] = "INTX"
    PROVE  Holdings' /\ Kept
<1>1. ~Holds(d) /\ ~Holds(d)' /\ \A e \in Dev : e # d => Holds(e)' = Holds(e)
  BY DEF Holds, Msgs
<1>2. \A e \in Dev : /\ Holds(e)' = Holds(e)
                     /\ Holds(e) => /\ mode'[e] = mode[e] /\ nvec'[e] = nvec[e]
                                    /\ slots'[e] = slots[e]
  <2> TAKE e \in Dev
  <2>1. CASE e = d
    BY <2>1 DEF Holds, Msgs
  <2>2. CASE e # d
    BY <1>1, <2>2
  <2>3. QED
    BY <2>1, <2>2
<1>3. /\ PoolExact' /\ InflightHeld' /\ MsiBlocks'
      /\ \A e \in Dev : Held(e)' = Held(e)
  BY <1>2, SameHeld DEF IInv, Holdings
<1>4. ServersOnHeldSlots'
  BY <1>3 DEF IInv, TypeOK, Holdings, ServersOnHeldSlots
<1>5. CallConsistent'
  <2>1. d \notin enabled /\ enabled \subseteq Dev
    BY DEF IInv, TypeOK, Holdings, CallConsistent, Msgs
  <2>2. \A e \in enabled' : mode'[e] \in Msgs
    BY <2>1 DEF IInv, Holdings, CallConsistent
  <2>3. \A e \in Dev : /\ mode'[e] \in Msgs => nvec'[e] > 0
                       /\ mode'[e] = "none" => nvec'[e] = 0
    BY DEF IInv, Holdings, CallConsistent, Msgs
  <2>4. QED
    BY <2>2, <2>3 DEF CallConsistent
<1>6. QED
  BY <1>3, <1>4, <1>5 DEF Holdings, Kept

LEMMA HoldAllocIntxOrFail ==
    ASSUME IInv, NEW d \in Dev, NEW r \in AnyRequest, AllocIntxOrFail(d, r)
    PROVE  Holdings' /\ Kept
<1>1. /\ op.pc = "idle" /\ mode[d] = "none"
      /\ UNCHANGED <<used, servers, enabled, op, inflight>>
  BY RollBackFail DEF AllocIntxOrFail, CanAlloc, Unlocked, demuxVars, devVars, ctlVars, envVars
<1>2. \A e \in Dev : e # d => mode'[e] = mode[e] /\ nvec'[e] = nvec[e] /\ slots'[e] = slots[e]
  BY DEF AllocIntxOrFail, IInv, TypeOK
<1>3. \/ mode'[d] = "none" /\ nvec'[d] = nvec[d]
      \/ mode'[d] = "INTX"
  BY <1>1 DEF AllocIntxOrFail, IInv, TypeOK
<1>4. QED
  BY <1>1, <1>2, <1>3, HoldUnallocated

LEMMA HoldAddIntServerIntx ==
    ASSUME IInv, NEW d \in Dev, AddIntServerIntx(d)
    PROVE  Holdings' /\ Kept
<1>1. /\ op.pc = "idle" /\ mode[d] = "none" /\ op'.pc = "added"
      /\ UNCHANGED <<used, servers, enabled, inflight>>
  BY DEF AddIntServerIntx, Unlocked, At, demuxVars, devVars, envVars
<1>2. \A e \in Dev : e # d => mode'[e] = mode[e] /\ nvec'[e] = nvec[e] /\ slots'[e] = slots[e]
  BY DEF AddIntServerIntx, IInv, TypeOK
<1>3. mode'[d] = "INTX"
  BY DEF AddIntServerIntx, IInv, TypeOK
<1>4. QED
  BY <1>1, <1>2, <1>3, HoldUnallocated

LEMMA HoldRemIntVectorServer ==
    ASSUME IInv, NEW d \in Dev, NEW v \in Vec, RemIntVectorServer(d, v)
    PROVE  Holdings' /\ Kept
<1>1. op.pc = "idle" /\ v < nvec[d] /\ HasServer(d, v) /\ nvec[d] \in Nat
  BY DEF RemIntVectorServer, Unlocked, IInv, TypeOK
<1>2. CASE mode[d] = "INTX"
  BY <1>1, <1>2, HoldDetachIntx DEF RemIntVectorServer
<1>3. CASE mode[d] # "INTX"
  <2>1. mode[d] # "none" /\ mode[d] \in Types \cup {"none"}
    BY <1>1 DEF Vec, IInv, TypeOK, Holdings, CallConsistent
  <2>2. mode[d] \in Msgs /\ v \in 0 .. nvec[d] - 1
    BY <1>1, <1>3, <2>1 DEF Types, Vec
  <2>3. VecClose(d, v, FALSE)
    BY <1>3 DEF RemIntVectorServer
  <2>4. QED
    BY <1>1, <2>2, <2>3, HoldVecClose
<1>4. QED
  BY <1>2, <1>3

LEMMA HoldFreeIntVectors ==
    ASSUME IInv, NEW d \in Dev, FreeIntVectors(d)
    PROVE  Holdings' /\ Kept
<1>1. /\ op.pc = "idle" /\ op' = At("detach", d, 0, TRUE) /\ mode[d] # "none"
      /\ UNCHANGED <<poolVars, servers, enabled, inflight>>
  BY DEF FreeIntVectors, Unlocked, demuxVars, devVars, envVars
<1>2. /\ PoolExact' /\ InflightHeld' /\ MsiBlocks'
      /\ \A e \in Dev : Held(e)' = Held(e)
  BY <1>1, Moved DEF At
<1>3. ServersOnHeldSlots'
  BY <1>1, <1>2 DEF IInv, TypeOK, Holdings, ServersOnHeldSlots
<1>4. CallConsistent'
  BY <1>1 DEF IInv, Holdings, CallConsistent, At, poolVars
<1>5. QED
  BY <1>2, <1>3, <1>4 DEF Holdings, Kept

\* A message is written for the slot of its own vector.
LEMMA OwnMessage ==
    ASSUME IInv, NEW d \in enabled, NEW v \in Vec, v < nvec[d]
    PROVE  MsgSlot(d, v) = SlotOf(d, v)
<1>1. d \in Dev /\ mode[d] \in Msgs /\ Holds(d) /\ nvec[d] \in 0 .. NSlots
  BY DEF Holds, IInv, TypeOK, Holdings, CallConsistent
<1>2. CASE mode[d] = "MSIX"
  BY <1>2 DEF MsgSlot
<1>3. CASE mode[d] = "MSI"
  <2>1. SlotOf(d, 0) % nvec[d] = 0 /\ SlotOf(d, v) = SlotOf(d, 0) + v
    BY <1>1, <1>3 DEF IInv, Holdings, MsiBlocks, Vec
  <2>2. SlotOf(d, 0) \in Nat
    BY <1>1 DEF SlotOf, IInv, TypeOK, Vec, Slot
  <2>3. MsgSlot(d, v) = SlotOf(d, 0) - 0 + v
    BY <1>3, <2>1 DEF MsgSlot
  <2>4. QED
    BY <2>1, <2>2, <2>3 DEF Vec
<1>4. QED
  BY <1>1, <1>2, <1>3 DEF Msgs

\* The slot is one the device holds.
LEMMA HoldRaise ==
    ASSUME IInv, NEW d \in Dev, NEW v \in Vec, Raise(d, v)
    PROVE  Holdings' /\ Kept /\ MsgSlot(d, v) \in Slot
<1>1. /\ d \in enabled /\ v < nvec[d] /\ mode[d] \in Msgs /\ nvec[d] \in 0 .. NSlots
      /\ inflight' = inflight \cup {[dev |-> d, slot |-> MsgSlot(d, v)]}
      /\ UNCHANGED <<poolVars, servers, enabled, op>>
  BY DEF Raise, demuxVars, devVars, ctlVars, IInv, TypeOK, Holdings, CallConsistent
<1>2. Holds(d)
  BY <1>1 DEF Holds, IInv, Holdings, CallConsistent
<1>3. MsgSlot(d, v) = SlotOf(d, v)
  BY <1>1, OwnMessage
<1>4. SlotOf(d, v) \in Slot /\ SlotOf(d, v) \in Held(d)
  BY <1>1, <1>2 DEF SlotOf, Held, Vec, IInv, TypeOK
<1>5. \A e \in Dev : Holds(e)' = Holds(e) /\ Held(e)' = Held(e)
  BY <1>1 DEF Holds, Held, SlotOf, poolVars
<1>6. InflightHeld'
  <2>1. \A m \in inflight : m.dev \in Dev /\ m.slot \in Held(m.dev)
    BY DEF IInv, TypeOK, MsgOf, Holdings, InflightHeld
  <2>2. \A m \in inflight' : m.dev \in Dev /\ m.slot \in Held(m.dev)
    BY <1>1, <1>3, <1>4, <2>1
  <2>3. ASSUME NEW m \in inflight' PROVE m.slot \in Held(m.dev)'
    BY <1>5, <2>2, <2>3
  <2>4. QED
    BY <2>3 DEF InflightHeld
<1>7. PoolExact' /\ MsiBlocks' /\ ServersOnHeldSlots'
  <2>1. UNCHANGED <<used, mode, nvec, slots, servers, op>>
    BY <1>1 DEF poolVars
  <2>2. PoolExact'
    BY <1>5, <2>1 DEF IInv, Holdings, PoolExact, SlotOf
  <2>3. MsiBlocks'
    BY <1>5, <2>1 DEF IInv, Holdings, MsiBlocks, SlotOf
  <2>4. ServersOnHeldSlots'
    BY <1>5, <2>1 DEF IInv, TypeOK, Holdings, ServersOnHeldSlots
  <2>5. QED
    BY <2>2, <2>3, <2>4
<1>8. CallConsistent'
  <2>1. UNCHANGED <<used, mode, nvec, slots, servers, op, enabled, intxServer>>
    BY <1>1 DEF poolVars, Raise, intxVars
  <2>2. op.pc = "slots_free" => op.dev # d
    BY <1>1 DEF IInv, Holdings, CallConsistent
  <2>3. QED
    BY <1>1, <2>1, <2>2 DEF IInv, Holdings, CallConsistent, Bound, Detached, Flushed,
                            HasServer, SlotOf
<1>9. QED
  BY <1>3, <1>4, <1>5, <1>6, <1>7, <1>8 DEF Holdings, Kept

\* The call with the semaphore aside, a step of a task, the demux or the fabric
\* leaves the pool, the bindings and the call alone.
Background ==
    \/ \E m \in Masker, d \in Dev, v \in Vec :
          \/ BottomHalf(m, d, v)
          \/ \E act \in {"mask", "unmask"} : MaskIntVector(m, d, v, act)
    \/ \E m \in Masker : WriteMask(m)
    \/ \E d \in Dev, on \in BOOLEAN : SetIntx(d, on)
    \/ Demux
    \/ \E l \in Line : IntxInterrupt(l)
    \/ \E msg \in MsgOf : Arrive(msg)
    \/ \E d \in Dev : Flr(d) \/ RaiseIntx(d)

LEMMA BackgroundQuiet ==
    ASSUME Background
    PROVE  /\ UNCHANGED <<poolVars, servers, op>>
           /\ inflight' \subseteq inflight /\ enabled' \subseteq enabled
<1>1. ASSUME NEW m \in Masker, NEW d \in Dev, NEW v \in Vec, BottomHalf(m, d, v)
      PROVE  UNCHANGED <<poolVars, servers, op, inflight, enabled>>
  BY <1>1 DEF BottomHalf, demuxVars, devVars
<1>2. ASSUME NEW m \in Masker, NEW d \in Dev, NEW v \in Vec, NEW act,
             MaskIntVector(m, d, v, act)
      PROVE  UNCHANGED <<poolVars, servers, op, inflight, enabled>>
  BY <1>2 DEF MaskIntVector, demuxVars, devVars, envVars
<1>3. ASSUME NEW m \in Masker, WriteMask(m)
      PROVE  UNCHANGED <<poolVars, servers, op, inflight, enabled>>
  BY <1>3 DEF WriteMask, devVars, envVars
<1>4. ASSUME NEW d \in Dev, NEW on \in BOOLEAN, SetIntx(d, on)
      PROVE  UNCHANGED <<poolVars, servers, op, inflight, enabled>>
  BY <1>4 DEF SetIntx, demuxVars, devVars, ctlVars, envVars
<1>5. ASSUME Demux
      PROVE  UNCHANGED <<poolVars, servers, op, inflight, enabled>>
  BY <1>5 DEF Demux, DemuxEnter, DemuxClear, DemuxCall, DemuxExit, demuxVars, devVars, envVars
<1>6. ASSUME NEW l \in Line, IntxInterrupt(l)
      PROVE  UNCHANGED <<poolVars, servers, op, inflight, enabled>>
  BY <1>6 DEF IntxInterrupt, demuxVars, devVars, ctlVars
<1>7. ASSUME NEW msg \in MsgOf, Arrive(msg)
      PROVE  UNCHANGED <<poolVars, servers, op, enabled>> /\ inflight' \subseteq inflight
  BY <1>7 DEF Arrive, devVars, ctlVars
<1>8. ASSUME NEW d \in Dev, RaiseIntx(d)
      PROVE  UNCHANGED <<poolVars, servers, op, inflight, enabled>>
  BY <1>8 DEF RaiseIntx, demuxVars, devVars, ctlVars
<1>9. ASSUME NEW d \in Dev, Flr(d)
      PROVE  UNCHANGED <<poolVars, servers, op, inflight>> /\ enabled' \subseteq enabled
  BY <1>9 DEF Flr, demuxVars, ctlVars, envVars
<1>10. QED
  BY <1>1, <1>2, <1>3, <1>4, <1>5, <1>6, <1>7, <1>8, <1>9 DEF Background

\* The steps that start a call or end one at once.
Calls ==
    \/ \E d \in Dev, r \in Request :
          AllocMsix(d, r) \/ AllocMsi(d, r, op) \/ AllocIntxOrFail(d, r)
    \/ \E d \in Dev :
          AddIntServerMsi(d) \/ AddIntServerIntx(d) \/ AddIntx(d) \/ FreeIntVectors(d)
    \/ \E d \in Dev, v \in Vec : BindServer(d, v) \/ RemIntVectorServer(d, v) \/ Raise(d, v)

LEMMA NextSplit == Next <=> Calls \/ Locked \/ Background
BY Zenon DEF Next, Calls, Background

LEMMA HoldAddIntServerMsi ==
    ASSUME IInv, NEW d \in Dev, AddIntServerMsi(d)
    PROVE  Holdings' /\ Granted(d)
<1> DEFINE r    == [min |-> 1, max |-> 1, flags |-> {"MSI"}]
           next == At("added", d, 0, FALSE)
<1>1. r \in AnyRequest /\ next.pc \in {"idle", "added"}
  BY DEF AnyRequest, Types, Msgs, At
<1>2. AllocMsi(d, r, next)
  BY DEF AddIntServerMsi
<1> HIDE DEF r, next
<1>3. QED
  BY <1>1, <1>2, HoldAllocMsi

LEMMA RequestType == Request \subseteq AnyRequest
BY DEF AnyRequest

LEMMA HoldCalls == ASSUME IInv, Calls PROVE IInv'
<1>1. ASSUME NEW d \in Dev, NEW r \in Request,
             AllocMsix(d, r) \/ AllocMsi(d, r, op) \/ AllocIntxOrFail(d, r)
      PROVE  IInv'
  <2>1. r \in AnyRequest
    BY RequestType
  <2>2. CASE AllocMsix(d, r)
    BY <2>1, <2>2, HoldAllocMsix, TypeAllocMsix DEF IInv
  <2>3. CASE AllocMsi(d, r, op)
    <3>1. op.pc = "idle" /\ op \in OpType
      BY <2>3 DEF AllocMsi, CanAlloc, Unlocked, IInv, TypeOK, OpType
    <3>2. Holdings'
      BY <2>1, <2>3, <3>1, HoldAllocMsi
    <3>3. TypeOK'
      BY <2>1, <2>3, <3>1, TypeAllocMsi DEF IInv
    <3>4. QED
      BY <3>2, <3>3 DEF IInv
  <2>4. CASE AllocIntxOrFail(d, r)
    BY <2>1, <2>4, HoldAllocIntxOrFail, TypeAllocIntxOrFail DEF IInv
  <2>5. QED
    BY <1>1, <2>2, <2>3, <2>4
<1>2. ASSUME NEW d \in Dev, AddIntServerMsi(d) PROVE IInv'
  BY <1>2, HoldAddIntServerMsi, TypeAddIntServerMsi DEF IInv
<1>3. ASSUME NEW d \in Dev, AddIntServerIntx(d) PROVE IInv'
  <2>1. 0 \in Vec
    BY DEF Vec
  <2>2. QED
    BY <1>3, <2>1, HoldAddIntServerIntx, TypeAttach DEF IInv
<1>4. ASSUME NEW d \in Dev, FreeIntVectors(d) PROVE IInv'
  BY <1>4, HoldFreeIntVectors, TypeFree DEF IInv
<1>5. ASSUME NEW d \in Dev, NEW v \in Vec, BindServer(d, v) PROVE IInv'
  BY <1>5, HoldBind, TypeAttach DEF IInv
<1>6. ASSUME NEW d \in Dev, NEW v \in Vec, RemIntVectorServer(d, v) PROVE IInv'
  BY <1>6, HoldRemIntVectorServer, TypeAttach DEF IInv
<1>7. ASSUME NEW d \in Dev, NEW v \in Vec, Raise(d, v) PROVE IInv'
  BY <1>7, HoldRaise, TypeRaise DEF IInv
<1>8. ASSUME NEW d \in Dev, AddIntx(d) PROVE IInv'
  BY <1>8, HoldAddIntx, TypeAddIntx DEF IInv
<1>9. QED
  BY <1>1, <1>2, <1>3, <1>4, <1>5, <1>6, <1>7, <1>8 DEF Calls

LEMMA TypeBackground == ASSUME TypeOK, Background PROVE TypeOK'
<1>1. ASSUME NEW m \in Masker, NEW d \in Dev, NEW v \in Vec,
             \/ BottomHalf(m, d, v)
             \/ \E act \in {"mask", "unmask"} : MaskIntVector(m, d, v, act)
      PROVE  TypeOK'
  BY <1>1, TypeLockFree
<1>2. ASSUME NEW m \in Masker, WriteMask(m) PROVE TypeOK'
  BY <1>2, TypeWriteMask
<1>3. ASSUME NEW d \in Dev, NEW on \in BOOLEAN, SetIntx(d, on) PROVE TypeOK'
  BY <1>3, TypeDevice
<1>4. ASSUME Demux PROVE TypeOK'
  BY <1>4, TypeDemux
<1>5. ASSUME NEW l \in Line, IntxInterrupt(l) PROVE TypeOK'
  BY <1>5, TypeIntxInterrupt
<1>6. ASSUME NEW msg \in MsgOf, Arrive(msg) PROVE TypeOK'
  BY <1>6, TypeArrive
<1>7. ASSUME NEW d \in Dev, Flr(d) \/ RaiseIntx(d) PROVE TypeOK'
  BY <1>7, TypeDevice
<1>8. QED
  BY <1>1, <1>2, <1>3, <1>4, <1>5, <1>6, <1>7 DEF Background

LEMMA HoldNext == ASSUME IInv, [Next]_vars PROVE IInv'
<1>1. CASE Calls
  BY <1>1, HoldCalls
<1>2. CASE Locked
  BY <1>2, HoldLocked, TypeLocked DEF IInv
<1>3. CASE Background
  BY <1>3, BackgroundQuiet, Quiet, TypeBackground DEF IInv
<1>4. CASE UNCHANGED vars
  <2>1. TypeOK'
    BY <1>4 DEF IInv, TypeOK, vars, poolVars, demuxVars, devVars, intxVars, ctlVars, envVars
  <2>2. Holdings'
    BY <1>4, Quiet DEF vars, demuxVars, devVars, ctlVars, envVars
  <2>3. QED
    BY <2>1, <2>2 DEF IInv
<1>5. QED
  BY <1>1, <1>2, <1>3, <1>4, NextSplit

-----------------------------------------------------------------------------
(* The theorems.                                                           *)

\* The conjunction of the pool's exactness with what ties it to the calls in
\* progress, the bindings and the messages is an invariant.
THEOREM Invariance == Spec => []IInv
<1>1. Init => IInv
  BY TypeInit, HoldingsInit DEF IInv
<1>2. IInv /\ [Next]_vars => IInv'
  BY HoldNext
<1>3. QED
  BY <1>1, <1>2, PTL DEF Spec

\* Every variable keeps its type: in particular no allocation indexes outside the
\* slot lists and every message aims at a real slot.
THEOREM TypeCorrect == Spec => []TypeOK
<1>1. IInv => TypeOK
  BY DEF IInv
<1>2. QED
  BY <1>1, Invariance, PTL

\* The pool's bitmap is exactly the union of what the devices hold, disjointly
\* (pci_irq_vectors_alloc and pci_irq_vectors_free, pci_irq.c).
THEOREM PoolExactness == Spec => []PoolExact
<1>1. IInv => PoolExact
  BY DEF IInv, Holdings
<1>2. QED
  BY <1>1, Invariance, PTL

\* A server is bound only to a slot its own device reserves
\* (brcm_msi_slot_bind and the teardown order of pci_irq_vectors_free).
THEOREM ServersHeld == Spec => []ServersOnHeldSlots
<1>1. IInv => ServersOnHeldSlots
  BY DEF IInv, Holdings
<1>2. QED
  BY <1>1, Invariance, PTL

\* Every message in flight aims at a slot its sender still reserves
\* (pci_msi_shutdown and pci_msix_shutdown before pci_irq_slots_free).
THEOREM InflightOnHeldSlots == Spec => []InflightHeld
<1>1. IInv => InflightHeld
  BY DEF IInv, Holdings
<1>2. QED
  BY <1>1, Invariance, PTL

\* An MSI allocation is a naturally aligned block of consecutive slots
\* (pci_msi_alloc and pci_irq_slots_alloc_aligned).
THEOREM MsiBlocksAligned == Spec => []MsiBlocks
<1>1. IInv => MsiBlocks
  BY DEF IInv, Holdings
<1>2. QED
  BY <1>1, Invariance, PTL

\* The call holding the semaphore keeps its footing whatever runs between its
\* steps (pci_irq_add_server, pci_irq_rem_server, pci_irq_vectors_free).
THEOREM CallsConsistent == Spec => []CallConsistent
<1>1. IInv => CallConsistent
  BY DEF IInv, Holdings
<1>2. QED
  BY <1>1, Invariance, PTL

-----------------------------------------------------------------------------
(* The core implements the abstract pool.                                  *)

OwnerIs ==
    /\ Owner \in [Slot -> Dev \cup {NoDev}]
    /\ \A s \in Slot, d \in Dev : Owner[s] = d <=> s \in Held(d)

LEMMA OwnerUnique == IInv => OwnerIs
<1> SUFFICES ASSUME IInv PROVE OwnerIs
  OBVIOUS
<1>1. ASSUME NEW s \in Slot, NEW d \in Dev, s \in Held(d) PROVE Owner[s] = d
  <2>1. Owner[s] = CHOOSE e \in Dev : s \in Held(e)
    BY <1>1 DEF Owner
  <2>2. \A e \in Dev : s \in Held(e) => e = d
    BY <1>1 DEF IInv, Holdings, PoolExact
  <2>3. QED
    BY <1>1, <2>1, <2>2
<1>2. ASSUME NEW s \in Slot, \A d \in Dev : s \notin Held(d) PROVE Owner[s] = NoDev
  BY <1>2 DEF Owner
<1>3. Owner \in [Slot -> Dev \cup {NoDev}]
  <2>1. \A s \in Slot : Owner[s] \in Dev \cup {NoDev}
    BY <1>1, <1>2
  <2>2. QED
    BY <2>1 DEF Owner
<1>4. QED
  BY <1>1, <1>2, <1>3 DEF OwnerIs

LEMMA GrantStep == ASSUME OwnerIs, OwnerIs', IInv, NEW d \in Dev, Granted(d) PROVE [Pool!Next]_Owner
<1>1. PICK S \in SUBSET FreeSlots :
         S # {} /\ \A e \in Dev : Held(e)' = IF e = d THEN S ELSE Held(e)
  BY DEF Granted
<1>2. S \in SUBSET Slot
  BY <1>1 DEF FreeSlots
<1>3. \A s \in S : Owner[s] = NoDev
  BY <1>2 DEF FreeSlots, OwnerIs, IInv, Holdings, PoolExact
<1>4. Pool!HeldBy(d) = {}
  BY DEF Pool!HeldBy, OwnerIs, Granted
<1>5. Owner' = [s \in Slot |-> IF s \in S THEN d ELSE Owner[s]]
  <2>1. ASSUME NEW s \in Slot PROVE Owner'[s] = IF s \in S THEN d ELSE Owner[s]
    <3>1. CASE s \in S
      BY <1>1, <3>1 DEF OwnerIs
    <3>2. CASE s \notin S /\ Owner[s] \in Dev
      BY <1>1, <1>4, <3>2 DEF OwnerIs, Pool!HeldBy
    <3>3. CASE s \notin S /\ Owner[s] = NoDev
      BY <1>1, <3>3 DEF OwnerIs
    <3>4. QED
      BY <3>1, <3>2, <3>3 DEF OwnerIs
  <2>2. QED
    BY <2>1 DEF OwnerIs
<1>6. Pool!Grant(d)
  <2>1. S \in (SUBSET Pool!HeldBy(NoDev)) \ {{}}
    BY <1>1, <1>2, <1>3 DEF Pool!HeldBy
  <2>2. QED
    BY <1>4, <1>5, <2>1 DEF Pool!Grant
<1>7. QED
  BY <1>6 DEF Pool!Next

LEMMA KeptStep == ASSUME OwnerIs, OwnerIs', Kept PROVE UNCHANGED Owner
<1>1. ASSUME NEW s \in Slot PROVE Owner'[s] = Owner[s]
  BY DEF OwnerIs, Kept
<1>2. QED
  BY <1>1 DEF OwnerIs

LEMMA ReleaseStep == ASSUME OwnerIs, OwnerIs', IInv, SlotsFree PROVE [Pool!Next]_Owner
<1>1. PICK d \in Dev : /\ Held(d) # {}
                       /\ \A e \in Dev : Held(e)' = IF e = d THEN {} ELSE Held(e)
  BY HoldSlotsFree
<1>2. Pool!HeldBy(d) # {}
  <2>1. Held(d) \subseteq Slot
    BY DEF Held, SlotOf, IInv, TypeOK, Vec
  <2>2. QED
    BY <1>1, <2>1 DEF Pool!HeldBy, OwnerIs
<1>3. Owner' = [s \in Slot |-> IF Owner[s] = d THEN NoDev ELSE Owner[s]]
  <2>1. ASSUME NEW s \in Slot PROVE Owner'[s] = IF Owner[s] = d THEN NoDev ELSE Owner[s]
    BY <1>1 DEF OwnerIs
  <2>2. QED
    BY <2>1 DEF OwnerIs
<1>4. Pool!Release(d)
  BY <1>2, <1>3 DEF Pool!Release
<1>5. QED
  BY <1>4 DEF Pool!Next

LEMMA PoolStep ==
    ASSUME IInv, [Next]_vars, OwnerIs, OwnerIs'
    PROVE  [Pool!Next]_Owner
<1>1. CASE Calls
  <2>1. ASSUME NEW d \in Dev, NEW r \in Request,
               AllocMsix(d, r) \/ AllocMsi(d, r, op) \/ AllocIntxOrFail(d, r)
        PROVE  Granted(d) \/ Kept
    <3>1. r \in AnyRequest
      BY RequestType
    <3>2. AllocMsi(d, r, op) => op.pc = "idle"
      BY DEF AllocMsi, CanAlloc, Unlocked
    <3>3. QED
      BY <2>1, <3>1, <3>2, HoldAllocMsix, HoldAllocMsi, HoldAllocIntxOrFail
  <2>2. ASSUME NEW d \in Dev,
               \/ AddIntServerMsi(d) \/ AddIntServerIntx(d)
               \/ AddIntx(d) \/ FreeIntVectors(d)
        PROVE  Granted(d) \/ Kept
    BY <2>2, HoldAddIntServerMsi, HoldAddIntServerIntx, HoldAddIntx, HoldFreeIntVectors
  <2>3. ASSUME NEW d \in Dev, NEW v \in Vec,
               BindServer(d, v) \/ RemIntVectorServer(d, v) \/ Raise(d, v)
        PROVE  Kept
    BY <2>3, HoldBind, HoldRemIntVectorServer, HoldRaise
  <2>4. Kept \/ \E d \in Dev : Granted(d)
    BY <1>1, <2>1, <2>2, <2>3 DEF Calls
  <2>5. QED
    BY <2>4, GrantStep, KeptStep
<1>2. CASE Locked
  <2>1. SlotsFree \/ Kept
    BY <1>2, HoldSteps, HoldIntx, HoldFreeShutdown, HoldClear, HoldFreeDetach DEF Locked
  <2>2. QED
    BY <2>1, ReleaseStep, KeptStep
<1>3. CASE Background
  BY <1>3, BackgroundQuiet, Quiet, KeptStep
<1>4. CASE UNCHANGED vars
  BY <1>4, Quiet, KeptStep DEF vars, demuxVars, devVars, ctlVars, envVars
<1>5. QED
  BY <1>1, <1>2, <1>3, <1>4, NextSplit

\* The interrupt core implements VectorPool: whatever interrupts, messages and
\* lock-free calls do in between, the reservation of slots moves only by whole
\* grants of free slots and whole releases (pci_irq.c).
THEOREM PoolRefinement == Spec => ImplementsPool
<1>1. Init => Pool!Init
  <2> SUFFICES ASSUME Init PROVE Owner = [s \in Slot |-> NoDev]
    BY DEF Pool!Init
  <2>1. \A d \in Dev : Held(d) = {}
    BY DEF Init, Holds, Held, Msgs
  <2>2. QED
    BY <2>1 DEF Owner
<1>2. IInv /\ [Next]_vars /\ OwnerIs /\ OwnerIs' => [Pool!Next]_Owner
  BY PoolStep
<1>3. QED
  BY <1>1, <1>2, Invariance, OwnerUnique, PTL DEF Spec, ImplementsPool, Pool!Spec

=============================================================================
