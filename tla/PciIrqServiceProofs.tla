------------------------- MODULE PciIrqServiceProofs -------------------------
(***************************************************************************)
(* Proofs about the service the interrupt core gives: gic400's             *)
(* registrations, the devices' gates and the interrupts that wait.  They   *)
(* rest on what PciIrqProofs shows of the pool (IInv).                     *)
(*                                                                         *)
(* Each property gets the clauses its proof needs beside it, and the three *)
(* are inductive in this order: IntxInv, then GateInv, then ServiceInv.    *)
(***************************************************************************)
EXTENDS PciIrqProofs

USE ConstAssumption

\* A message-signalled allocation, as the steps below use it.
Granting(d) ==
    /\ op.pc = "idle" /\ mode[d] = "none"
    /\ \E type \in Msgs, n \in Nat, list \in [Vec -> Slot], next \in OpType :
          next.pc \in {"idle", "added"} /\ Program(d, type, n, list, used, next)

LEMMA AllocGrants ==
    ASSUME TypeOK, NEW d \in Dev
    PROVE  /\ \A r \in Request : AllocMsix(d, r) => Granting(d)
           /\ \A r \in Request : AllocMsi(d, r, op) => Granting(d)
           /\ AddIntServerMsi(d) => Granting(d)
<1>1. ASSUME NEW r \in AnyRequest, AllocMsix(d, r) PROVE Granting(d)
  <2> DEFINE k == MsixCount(d, r)
  <2>1. k \in 1 .. NSlots /\ op.pc = "idle" /\ mode[d] = "none" /\ op \in OpType
    BY <1>1, CountBounds DEF AllocMsix, CanAlloc, Unlocked, TypeOK, OpType
  <2>2. PICK f \in [0 .. k - 1 -> FreeSlots] :
           LowestFree(f, k) /\ Program(d, "MSIX", k, Listed(d, f, k), used, op)
    BY <1>1 DEF AllocMsix
  <2> HIDE DEF k
  <2> DEFINE list == Listed(d, f, k)
  <2>3. Program(d, "MSIX", k, list, used, op) /\ list \in [Vec -> Slot] /\ "MSIX" \in Msgs
    BY <2>1, <2>2, ListedType DEF Msgs
  <2> HIDE DEF list
  <2>4. QED
    BY <2>1, <2>3 DEF Granting
<1>2. ASSUME NEW r \in AnyRequest, NEW next \in OpType, next.pc \in {"idle", "added"},
             AllocMsi(d, r, next)
      PROVE  Granting(d)
  <2>1. op.pc = "idle" /\ mode[d] = "none"
    BY <1>2 DEF AllocMsi, CanAlloc, Unlocked
  <2> DEFINE k == MsixCount(d, r)
  <2>2. PICK n \in PowersOfTwo, base \in Slot, f \in [0 .. k - 1 -> FreeSlots] :
           /\ MsiFits(d, r, used, n, base) /\ LowestFree(f, k)
           /\ Program(d, "MSI", n, MsiList(d, f, k, n, base), used, next)
    BY <1>2, RollBackMsi
  <2>3. MsiList(d, f, k, n, base) \in [Vec -> Slot] /\ n \in Nat
    BY <2>2, PowerBounds, MsiListType
  <2> DEFINE list == MsiList(d, f, k, n, base)
  <2>4. Program(d, "MSI", n, list, used, next) /\ list \in [Vec -> Slot] /\ "MSI" \in Msgs
    BY <2>2, <2>3 DEF Msgs
  <2> HIDE DEF list, k
  <2>5. QED
    BY <1>2, <2>1, <2>3, <2>4 DEF Granting
<1>3. ASSUME NEW r \in Request, AllocMsi(d, r, op) PROVE Granting(d)
  <2>1. op.pc = "idle" /\ op \in OpType
    BY <1>3 DEF AllocMsi, CanAlloc, Unlocked, TypeOK, OpType
  <2>2. QED
    BY <1>2, <1>3, <2>1, RequestType
<1>4. ASSUME AddIntServerMsi(d) PROVE Granting(d)
  <2> DEFINE r    == [min |-> 1, max |-> 1, flags |-> {"MSI"}]
             next == At("added", d, 0, FALSE)
  <2>1. r \in AnyRequest
    BY DEF AnyRequest, Types, Msgs
  <2>2. next.pc \in {"idle", "added"}
    BY DEF At
  <2> HIDE DEF r
  <2>3. AllocMsi(d, r, next)
    BY <1>4 DEF AddIntServerMsi, r
  <2>4. next \in OpType
    BY DEF At, OpType, OpPc, Vec
  <2> HIDE DEF next
  <2>5. QED
    BY <1>2, <2>1, <2>2, <2>3, <2>4
<1>5. QED
  BY <1>1, <1>3, <1>4, RequestType

-----------------------------------------------------------------------------
(* gic400's registrations.                                                 *)

\* What IntxRegistered rests on: an INTx allocation has one vector on a line
\* that is routed, a call about to clear its mode has no server left, and an attach
\* or detach in progress has, or no longer has, its line.
IntxShape ==
    /\ \A d \in Dev : mode[d] = "INTX" => nvec[d] = 1 /\ DevLine[d] # NoLine
    /\ op.pc = "clear_mode" => op.dev \notin intxServer
    /\ op.pc \in {"intx_set", "intx_gic"} => gic[DevLine[op.dev]] = op.dev
    /\ op.pc = "intx_null" => gic[DevLine[op.dev]] # op.dev
IntxInv == IntxRegistered /\ IntxShape

\* A step that touches no registration and gives no INTx allocation.
LEMMA IntxFrame ==
    ASSUME IntxInv, UNCHANGED <<intxServer, gic>>,
           \A d \in Dev : mode'[d] = "INTX" => mode[d] = "INTX" /\ nvec'[d] = nvec[d],
           \A d \in intxServer : mode'[d] = mode[d],
           op'.pc = "clear_mode" => op'.dev \notin intxServer,
           op.pc \notin {"intx_set", "intx_null"},
           op'.pc \notin {"intx_set", "intx_gic", "intx_null"}
    PROVE  IntxInv'
<1>1. IntxRegistered'
  BY DEF IntxInv, IntxRegistered
<1>2. IntxShape'
  BY DEF IntxInv, IntxShape
<1>3. QED
  BY <1>1, <1>2 DEF IntxInv

LEMMA IntxGrant == ASSUME IInv, IntxInv, NEW d \in Dev, Granting(d) PROVE IntxInv'
<1>1. PICK type \in Msgs, n \in Nat, list \in [Vec -> Slot], next \in OpType :
         next.pc \in {"idle", "added"} /\ Program(d, type, n, list, used, next)
  BY DEF Granting
<1>2. /\ mode' = [mode EXCEPT ![d] = type] /\ nvec' = [nvec EXCEPT ![d] = n]
      /\ op' = next /\ UNCHANGED <<intxServer, gic>>
  BY <1>1 DEF Program
<1>3. \A e \in Dev : mode'[e] = "INTX" => mode[e] = "INTX" /\ nvec'[e] = nvec[e]
  BY <1>2 DEF IInv, TypeOK, Msgs
<1>4. \A e \in intxServer : mode'[e] = mode[e]
  BY <1>2 DEF Granting, IInv, TypeOK, IntxInv, IntxRegistered
<1>5. QED
  BY <1>1, <1>2, <1>3, <1>4, IntxFrame DEF Granting

\* An INTx allocation, and a failed allocation.
LEMMA IntxAlloc ==
    ASSUME IInv, IntxInv, NEW d \in Dev,
           (\E r \in Request : AllocIntxOrFail(d, r)) \/ AddIntServerIntx(d)
    PROVE  IntxInv'
<1>1. /\ op.pc = "idle" /\ op'.pc \in {"idle", "added"} /\ mode[d] = "none"
      /\ UNCHANGED <<intxServer, gic>>
      /\ mode \in [Dev -> Types \cup {"none"}] /\ nvec \in [Dev -> 0 .. NSlots]
  BY DEF AllocIntxOrFail, AddIntServerIntx, CanAlloc, Unlocked, At, ctlVars, intxVars, IInv, TypeOK
<1>2. d \notin intxServer
  BY <1>1 DEF IntxInv, IntxRegistered
<1>3. CASE UNCHANGED <<mode, nvec>>
  BY <1>1, <1>3, IntxFrame
<1>4. CASE /\ mode' = [mode EXCEPT ![d] = "INTX"] /\ nvec' = [nvec EXCEPT ![d] = 1]
           /\ DevLine[d] # NoLine
  <2>1. IntxRegistered'
    BY <1>1, <1>2, <1>4 DEF IntxInv, IntxRegistered
  <2>2. IntxShape'
    BY <1>1, <1>4 DEF IntxInv, IntxShape
  <2>3. QED
    BY <2>1, <2>2 DEF IntxInv
<1>5. QED
  BY <1>3, <1>4 DEF AllocIntxOrFail, AddIntServerIntx, IntxFits

\* gic400 takes the server: the line is the device's until its call has set
\* active.intx_server.
LEMMA IntxAttach == ASSUME IInv, IntxInv, NEW d \in Dev, AddIntx(d) PROVE IntxInv'
<1>1. /\ mode[d] = "INTX" /\ gic[DevLine[d]] = NoDev /\ UNCHANGED <<mode, nvec, intxServer>>
      /\ gic' = [gic EXCEPT ![DevLine[d]] = d] /\ op' = At("intx_set", d, 0, FALSE)
      /\ gic \in [Line -> Dev \cup {NoDev}] /\ intxServer \subseteq Dev
      /\ op.pc \in {"idle", "added"} /\ d \notin intxServer
  BY DEF AddIntx, MayAttach, poolVars, IInv, TypeOK
<1>2. DevLine[d] \in Line
  BY <1>1 DEF IntxInv, IntxShape
<1>3. IntxRegistered'
  BY <1>1, <1>2 DEF IntxInv, IntxRegistered, At
<1>4. IntxShape'
  BY <1>1 DEF IntxInv, IntxShape, At
<1>5. QED
  BY <1>3, <1>4 DEF IntxInv

LEMMA IntxDetach ==
    ASSUME IInv, IntxInv, NEW d \in Dev, NEW fr, d \in intxServer,
           op.pc \in {"idle", "detach"}, DetachIntx(d, fr)
    PROVE  IntxInv'
<1>1. UNCHANGED <<mode, nvec, intxServer, gic>> /\ op' = At("intx_gic", d, 0, fr)
  BY DEF DetachIntx, poolVars
<1>2. gic[DevLine[d]] = d
  BY DEF IntxInv, IntxRegistered
<1>3. IntxRegistered'
  BY <1>1 DEF IntxInv, IntxRegistered, At
<1>4. IntxShape'
  BY <1>1, <1>2 DEF IntxInv, IntxShape, At
<1>5. QED
  BY <1>3, <1>4 DEF IntxInv

LEMMA IntxRecord == ASSUME IInv, IntxInv, IntxSet PROVE IntxInv'
<1>1. /\ op.pc = "intx_set" /\ op.dev \in Dev /\ mode[op.dev] = "INTX"
      /\ UNCHANGED <<mode, nvec, gic>> /\ intxServer' = intxServer \cup {op.dev}
      /\ op'.pc = "intx_on" /\ op'.dev = op.dev
  BY DEF IntxSet, poolVars, IInv, TypeOK, Holdings, CallConsistent
<1>2. gic[DevLine[op.dev]] = op.dev
  BY <1>1 DEF IntxInv, IntxShape
<1>3. IntxRegistered'
  BY <1>1, <1>2 DEF IntxInv, IntxRegistered
<1>4. IntxShape'
  BY <1>1 DEF IntxInv, IntxShape
<1>5. QED
  BY <1>3, <1>4 DEF IntxInv

\* The detach: the line goes before active.intx_server.
LEMMA IntxRelease == ASSUME IInv, IntxInv, IntxRemove PROVE IntxInv'
<1>1. /\ op.pc = "intx_gic" /\ op.dev \in Dev /\ mode[op.dev] = "INTX"
      /\ UNCHANGED <<mode, nvec, intxServer>>
      /\ gic' = [gic EXCEPT ![DevLine[op.dev]] = NoDev]
      /\ gic \in [Line -> Dev \cup {NoDev}] /\ intxServer \subseteq Dev
      /\ op'.pc = "intx_null" /\ op'.dev = op.dev
  BY DEF IntxRemove, poolVars, IInv, TypeOK, Holdings, CallConsistent
<1>2. DevLine[op.dev] \in Line /\ gic[DevLine[op.dev]] = op.dev
  BY <1>1 DEF IntxInv, IntxShape
<1>3. IntxRegistered'
  BY <1>1, <1>2 DEF IntxInv, IntxRegistered
<1>4. IntxShape'
  BY <1>1 DEF IntxInv, IntxShape
<1>5. QED
  BY <1>3, <1>4 DEF IntxInv

LEMMA IntxForget == ASSUME IInv, IntxInv, IntxNull PROVE IntxInv'
<1>1. /\ op.pc = "intx_null" /\ op.dev \in Dev /\ mode[op.dev] = "INTX"
      /\ UNCHANGED <<mode, nvec, gic>> /\ intxServer' = intxServer \ {op.dev}
      /\ op'.pc \in {"idle", "detach"} /\ gic \in [Line -> Dev \cup {NoDev}]
  BY DEF IntxNull, At, OpIdle, poolVars, IInv, TypeOK, Holdings, CallConsistent
<1>2. \A l \in Line : gic[l] # op.dev
  BY <1>1 DEF IntxInv, IntxRegistered, IntxShape
<1>3. IntxRegistered'
  BY <1>1, <1>2 DEF IntxInv, IntxRegistered
<1>4. IntxShape'
  BY <1>1 DEF IntxInv, IntxShape
<1>5. QED
  BY <1>3, <1>4 DEF IntxInv

\* The steps of the call in progress: only the shutdown of an INTx device comes to
\* clear_mode with that device, and it has found no server.
LEMMA IntxLocked == ASSUME IInv, IntxInv, Locked PROVE IntxInv'
<1>1. CASE BindClear \/ BindUnmask \/ VecOpen \/ UnbindMask \/ UnbindNull \/ IntxEnable \/ RefuseIntx
  <2>1. /\ op'.pc \notin {"clear_mode", "intx_set", "intx_gic", "intx_null"}
        /\ op.pc \notin {"intx_set", "intx_null"}
        /\ UNCHANGED <<mode, nvec, intxServer, gic>>
    BY <1>1 DEF BindClear, BindUnmask, VecOpen, UnbindMask, UnbindNull, IntxEnable, RefuseIntx,
                poolVars, intxVars, OpIdle, At, IInv, TypeOK
  <2>2. QED
    BY <2>1, IntxFrame
<1>2. CASE FreeDetach
  <2>1. PICK v \in 0 .. nvec[op.dev] - 1 :
           /\ HasServer(op.dev, v)
           /\ IF mode[op.dev] = "INTX" THEN DetachIntx(op.dev, TRUE)
                                       ELSE VecClose(op.dev, v, TRUE)
    BY <1>2 DEF FreeDetach
  <2>2. op.dev \in Dev /\ op.pc = "detach"
    BY <1>2 DEF FreeDetach, IInv, TypeOK
  <2>3. CASE mode[op.dev] = "INTX"
    BY <2>1, <2>2, <2>3, IntxDetach DEF HasServer
  <2>4. CASE mode[op.dev] # "INTX"
    <3>1. op'.pc = "unbind_mask" /\ UNCHANGED <<mode, nvec, intxServer, gic>>
      BY <2>1, <2>4 DEF VecClose, At, poolVars, intxVars
    <3>2. QED
      BY <2>2, <3>1, IntxFrame
  <2>5. QED
    BY <2>3, <2>4
<1>3. CASE FreeShutdown
  <2>1. /\ op.dev \in Dev /\ op'.dev = op.dev /\ Detached(op.dev)
        /\ op'.pc = "clear_mode" => mode[op.dev] = "INTX"
        /\ UNCHANGED <<mode, nvec, intxServer, gic>>
        /\ op.pc = "detach" /\ op'.pc \in {"clear_mode", "slots_free"}
    BY <1>3 DEF FreeShutdown, poolVars, intxVars, IInv, TypeOK
  <2>2. mode[op.dev] = "INTX" => op.dev \notin intxServer
    BY <2>1 DEF Detached, HasServer, IntxInv, IntxShape
  <2>3. QED
    BY <2>1, <2>2, IntxFrame
<1>4. CASE SlotsFree
  <2>1. /\ op'.dev = op.dev /\ mode[op.dev] \in Msgs /\ UNCHANGED <<mode, nvec, intxServer, gic>>
        /\ op.pc = "slots_free" /\ op'.pc = "clear_mode"
    BY <1>4 DEF SlotsFree, intxVars, IInv, TypeOK, Holdings, CallConsistent
  <2>2. op.dev \notin intxServer
    BY <2>1 DEF IntxInv, IntxRegistered, Msgs
  <2>3. QED
    BY <2>1, <2>2, IntxFrame
<1>5. CASE ClearMode
  <2>1. /\ op.pc = "clear_mode" /\ op'.pc = "clear_nvec"
        /\ mode' = [mode EXCEPT ![op.dev] = "none"]
        /\ UNCHANGED <<nvec, intxServer, gic>> /\ mode \in [Dev -> Types \cup {"none"}]
        /\ intxServer \subseteq Dev
    BY <1>5 DEF ClearMode, intxVars, IInv, TypeOK
  <2>2. op.dev \notin intxServer
    BY <2>1 DEF IntxInv, IntxShape
  <2>3. QED
    BY <2>1, <2>2, IntxFrame
<1>6. CASE ClearNvec
  <2>1. /\ op' = OpIdle /\ mode[op.dev] = "none" /\ nvec' = [nvec EXCEPT ![op.dev] = 0]
        /\ op.pc = "clear_nvec"
        /\ UNCHANGED <<mode, intxServer, gic>> /\ nvec \in [Dev -> 0 .. NSlots]
    BY <1>6 DEF ClearNvec, intxVars, IInv, TypeOK, Holdings, CallConsistent
  <2>2. QED
    BY <2>1, IntxFrame DEF OpIdle
<1>7. QED
  BY <1>1, <1>2, <1>3, <1>4, <1>5, <1>6, IntxRecord, IntxRelease, IntxForget DEF Locked

\* The other steps do not touch the registrations.
Begun == op.pc \in {"idle", "added"} /\ op'.pc \in {"detach", "bind_clr"}

LEMMA IntxQuiet ==
    ASSUME \/ \E d \in Dev : FreeIntVectors(d) \/ Flr(d) \/ RaiseIntx(d)
           \/ \E d \in Dev, v \in Vec : BindServer(d, v) \/ Raise(d, v)
           \/ \E m \in Masker, d \in Dev, v \in Vec :
                 \/ BottomHalf(m, d, v)
                 \/ \E act \in {"mask", "unmask"} : MaskIntVector(m, d, v, act)
           \/ \E m \in Masker : WriteMask(m)
           \/ \E d \in Dev, on \in BOOLEAN : SetIntx(d, on)
           \/ Demux
           \/ \E l \in Line : IntxInterrupt(l)
           \/ \E msg \in MsgOf : Arrive(msg)
    PROVE  /\ UNCHANGED <<mode, nvec, intxServer, gic>>
           /\ UNCHANGED op \/ Begun
<1>1. ASSUME NEW d \in Dev, FreeIntVectors(d) \/ Flr(d) \/ RaiseIntx(d)
      PROVE  /\ UNCHANGED <<mode, nvec, intxServer, gic>>
             /\ UNCHANGED op \/ Begun
  BY <1>1 DEF Begun, FreeIntVectors, Unlocked, Flr, RaiseIntx, At, poolVars, intxVars, ctlVars
<1>2. ASSUME NEW d \in Dev, NEW v \in Vec, BindServer(d, v) \/ Raise(d, v)
      PROVE  /\ UNCHANGED <<mode, nvec, intxServer, gic>>
             /\ UNCHANGED op \/ Begun
  BY <1>2 DEF Begun, BindServer, Raise, At, poolVars, intxVars, ctlVars
<1>3. ASSUME NEW m \in Masker, NEW d \in Dev, NEW v \in Vec,
             \/ BottomHalf(m, d, v)
             \/ \E act \in {"mask", "unmask"} : MaskIntVector(m, d, v, act)
      PROVE  UNCHANGED <<mode, nvec, intxServer, gic, op>>
  BY <1>3 DEF BottomHalf, MaskIntVector, poolVars, intxVars
<1>4. ASSUME NEW m \in Masker, WriteMask(m)
      PROVE  UNCHANGED <<mode, nvec, intxServer, gic, op>>
  BY <1>4 DEF WriteMask, poolVars, intxVars
<1>5. ASSUME NEW d \in Dev, NEW on \in BOOLEAN, SetIntx(d, on)
      PROVE  UNCHANGED <<mode, nvec, intxServer, gic, op>>
  BY <1>5 DEF SetIntx, poolVars, ctlVars
<1>6. ASSUME Demux PROVE UNCHANGED <<mode, nvec, intxServer, gic, op>>
  BY <1>6 DEF Demux, DemuxEnter, DemuxClear, DemuxCall, DemuxExit, poolVars, intxVars
<1>7. ASSUME NEW l \in Line, IntxInterrupt(l)
      PROVE  UNCHANGED <<mode, nvec, intxServer, gic, op>>
  BY <1>7 DEF IntxInterrupt, poolVars, intxVars, ctlVars
<1>8. ASSUME NEW msg \in MsgOf, Arrive(msg)
      PROVE  UNCHANGED <<mode, nvec, intxServer, gic, op>>
  BY <1>8 DEF Arrive, poolVars, intxVars, ctlVars
<1>9. QED
  BY <1>1, <1>2, <1>3, <1>4, <1>5, <1>6, <1>7, <1>8

LEMMA IntxNext == ASSUME IInv, IntxInv, [Next]_vars PROVE IntxInv'
<1>1. ASSUME NEW d \in Dev, NEW r \in Request,
             AllocMsix(d, r) \/ AllocMsi(d, r, op) \/ AllocIntxOrFail(d, r)
      PROVE  IntxInv'
  BY <1>1, AllocGrants, IntxGrant, IntxAlloc DEF IInv
<1>2. ASSUME NEW d \in Dev, AddIntServerMsi(d) \/ AddIntServerIntx(d) \/ AddIntx(d)
      PROVE  IntxInv'
  BY <1>2, AllocGrants, IntxGrant, IntxAlloc, IntxAttach DEF IInv
<1>3. ASSUME NEW d \in Dev, NEW v \in Vec, RemIntVectorServer(d, v)
      PROVE  IntxInv'
  <2>1. v < nvec[d] /\ HasServer(d, v) /\ op.pc = "idle"
    BY <1>3 DEF RemIntVectorServer, Unlocked
  <2>2. CASE mode[d] = "INTX"
    BY <1>3, <2>1, <2>2, IntxDetach DEF RemIntVectorServer, HasServer
  <2>3. CASE mode[d] # "INTX"
    <3>1. op'.pc = "unbind_mask" /\ UNCHANGED <<mode, nvec, intxServer, gic>>
      BY <1>3, <2>3 DEF RemIntVectorServer, VecClose, At, poolVars, intxVars
    <3>2. QED
      BY <2>1, <3>1, IntxFrame
  <2>4. QED
    BY <2>2, <2>3
<1>4. CASE Locked
  BY <1>4, IntxLocked
<1>5. ASSUME UNCHANGED <<mode, nvec, intxServer, gic>>, UNCHANGED op \/ Begun
      PROVE  IntxInv'
  <2>1. CASE UNCHANGED op
    BY <1>5, <2>1 DEF IntxInv, IntxRegistered, IntxShape
  <2>2. CASE Begun
    BY <1>5, <2>2, IntxFrame DEF Begun
  <2>3. QED
    BY <1>5, <2>1, <2>2
<1>6. CASE UNCHANGED vars
  BY <1>5, <1>6 DEF vars, poolVars, intxVars, ctlVars
<1>7. CASE Calls
  <2>1. ASSUME NEW d \in Dev, FreeIntVectors(d) PROVE IntxInv'
    BY <1>5, <2>1, IntxQuiet
  <2>2. ASSUME NEW d \in Dev, NEW v \in Vec, BindServer(d, v) \/ Raise(d, v) PROVE IntxInv'
    BY <1>5, <2>2, IntxQuiet
  <2>3. QED
    BY <1>1, <1>2, <1>3, <1>7, <2>1, <2>2 DEF Calls
<1>8. CASE Background
  <2>1. UNCHANGED <<mode, nvec, intxServer, gic>> /\ (UNCHANGED op \/ Begun)
    BY <1>8, IntxQuiet DEF Background
  <2>2. QED
    BY <1>5, <2>1
<1>9. QED
  BY <1>4, <1>6, <1>7, <1>8, NextSplit

\* gic400's one server per line and active.intx_server agree, and only an INTx
\* allocation has one (brcm_gic_add_server, pci_irq_rem_server and the rollback of
\* LibAddIntServer).
THEOREM IntxRegistrations == Spec => []IntxRegistered
<1>1. Init => IntxInv
  BY DEF Init, OpIdle, IntxInv, IntxRegistered, IntxShape
<1>2. IInv /\ IntxInv /\ [Next]_vars => IntxInv'
  BY IntxNext
<1>3. IntxInv => IntxRegistered
  BY DEF IntxInv
<1>4. QED
  BY <1>1, <1>2, <1>3, Invariance, PTL DEF Spec

-----------------------------------------------------------------------------
(* The devices' gates.                                                     *)

\* What OpenOnlyBound rests on: a detach closes the vector before it unbinds.
GateShut ==
    op.pc \in {"unbind_mask", "unbind_null"} /\ op.dev \in enabled /\ HasGate(op.dev)
       => op.vec \notin open[op.dev]
GateInv == OpenOnlyBound /\ GateShut

\* A slot has the server of one vector only.
LEMMA OneVector ==
    ASSUME IInv, NEW d \in Dev, NEW v \in Vec, Bound(d, v),
           NEW e \in Dev, NEW u \in Vec, Bound(e, u), SlotOf(d, v) = SlotOf(e, u)
    PROVE  d = e /\ v = u
<1>1. d = e
  BY DEF Bound
<1>2. SlotOf(d, v) \in Slot /\ nvec[d] \in 0 .. NSlots
  BY DEF SlotOf, IInv, TypeOK
<1>3. SlotOf(d, v) \in Held(d)
  BY <1>2 DEF Bound, IInv, Holdings, ServersOnHeldSlots
<1>4. Holds(d)
  BY <1>3 DEF Held
<1>5. v \in 0 .. nvec[d] - 1 /\ u \in 0 .. nvec[d] - 1
  BY <1>1, <1>2 DEF Bound, Vec
<1>6. QED
  BY <1>1, <1>4, <1>5 DEF IInv, Holdings, PoolExact

\* A step that leaves alone what is enabled: its vectors, gates and servers.
LEMMA GateFrame ==
    ASSUME GateInv, enabled' \subseteq enabled, UNCHANGED servers,
           \A d \in enabled' : /\ mode'[d] = mode[d] /\ nvec'[d] = nvec[d]
                               /\ slots'[d] = slots[d] /\ open'[d] = open[d],
           \/ UNCHANGED op
           \/ op'.pc \notin {"unbind_mask", "unbind_null"}
           \/ op.pc = "unbind_mask" /\ op'.dev = op.dev /\ op'.vec = op.vec
    PROVE  GateInv'
<1>1. OpenOnlyBound'
  BY DEF GateInv, OpenOnlyBound, Bound, SlotOf, HasGate
<1>2. GateShut'
  BY DEF GateInv, GateShut, HasGate
<1>3. QED
  BY <1>1, <1>2 DEF GateInv

LEMMA GateGrant == ASSUME IInv, GateInv, NEW d \in Dev, Granting(d) PROVE GateInv'
<1>1. PICK type \in Msgs, n \in Nat, list \in [Vec -> Slot], next \in OpType :
         next.pc \in {"idle", "added"} /\ Program(d, type, n, list, used, next)
  BY DEF Granting
<1>2. /\ mode' = [mode EXCEPT ![d] = type] /\ nvec' = [nvec EXCEPT ![d] = n]
      /\ slots' = [slots EXCEPT ![d] = list] /\ op' = next
      /\ enabled' = enabled \cup {d} /\ open' = [open EXCEPT ![d] = {}]
      /\ UNCHANGED servers
  BY <1>1 DEF Program, demuxVars
<1>3. /\ open'[d] = {}
      /\ \A e \in Dev : e # d => /\ mode'[e] = mode[e] /\ nvec'[e] = nvec[e]
                                /\ slots'[e] = slots[e] /\ open'[e] = open[e]
  BY <1>2 DEF IInv, TypeOK
<1>4. OpenOnlyBound'
  <2> SUFFICES ASSUME NEW e \in enabled', NEW v \in Vec, HasGate(e)', v \in open'[e]
               PROVE  Bound(e, v)'
    BY DEF OpenOnlyBound
  <2>1. e # d /\ e \in enabled /\ e \in Dev
    BY <1>2, <1>3 DEF IInv, TypeOK
  <2>2. mode'[e] = mode[e] /\ nvec'[e] = nvec[e] /\ slots'[e] = slots[e] /\ open'[e] = open[e]
    BY <1>3, <2>1
  <2>3. HasGate(e) /\ v \in open[e]
    BY <2>2 DEF HasGate
  <2>4. Bound(e, v)
    BY <2>1, <2>3 DEF GateInv, OpenOnlyBound
  <2>5. QED
    BY <1>2, <2>2, <2>4 DEF Bound, SlotOf
<1>5. GateShut'
  BY <1>1, <1>2 DEF GateShut
<1>6. QED
  BY <1>4, <1>5 DEF GateInv

\* The device of an INTx or failed allocation is not enabled.
LEMMA GateAlloc ==
    ASSUME IInv, GateInv, NEW d \in Dev,
           (\E r \in Request : AllocIntxOrFail(d, r)) \/ AddIntServerIntx(d)
    PROVE  GateInv'
<1>1. /\ mode[d] = "none" /\ UNCHANGED <<enabled, open, servers>>
      /\ op'.pc \in {"idle", "added"}
      /\ \A e \in Dev : e # d => /\ mode'[e] = mode[e] /\ nvec'[e] = nvec[e]
                                /\ slots'[e] = slots[e]
  BY DEF AllocIntxOrFail, AddIntServerIntx, CanAlloc, Unlocked, At, ctlVars, demuxVars, devVars,
         IInv, TypeOK
<1>2. d \notin enabled /\ enabled \subseteq Dev
  BY <1>1 DEF IInv, TypeOK, Holdings, CallConsistent, Msgs
<1>3. QED
  BY <1>1, <1>2, GateFrame

LEMMA GateBind ==
    ASSUME IInv, GateInv, NEW d \in Dev, NEW v \in Vec, BindServer(d, v)
    PROVE  GateInv'
<1>1. /\ servers' = [servers EXCEPT ![SlotOf(d, v)] = d] /\ servers[SlotOf(d, v)] = NoDev
      /\ UNCHANGED <<mode, nvec, slots, enabled, open>> /\ op'.pc = "bind_clr"
      /\ servers \in [Slot -> Dev \cup {NoDev}]
  BY DEF BindServer, HasServer, Msgs, poolVars, devVars, At, IInv, TypeOK
<1>2. \A e \in Dev, u \in Vec : Bound(e, u) => Bound(e, u)'
  BY <1>1 DEF Bound, SlotOf
<1>3. OpenOnlyBound'
  BY <1>1, <1>2 DEF GateInv, OpenOnlyBound, HasGate, IInv, TypeOK
<1>4. GateShut'
  BY <1>1 DEF GateShut
<1>5. QED
  BY <1>3, <1>4 DEF GateInv

LEMMA GateVecClose ==
    ASSUME IInv, GateInv, NEW d \in Dev, NEW v \in Vec, NEW fr, VecClose(d, v, fr)
    PROVE  GateInv'
<1>1. /\ open' = [open EXCEPT ![d] = @ \ {v}] /\ op' = At("unbind_mask", d, v, fr)
      /\ UNCHANGED <<mode, nvec, slots, servers, enabled>> /\ open \in [Dev -> SUBSET Vec]
      /\ enabled \subseteq Dev
  BY DEF VecClose, poolVars, demuxVars, IInv, TypeOK
<1>2. \A e \in Dev : open'[e] \subseteq open[e]
  BY <1>1
<1>3. OpenOnlyBound'
  BY <1>1, <1>2 DEF GateInv, OpenOnlyBound, Bound, SlotOf, HasGate
<1>4. GateShut'
  BY <1>1 DEF GateShut, At
<1>5. QED
  BY <1>3, <1>4 DEF GateInv

LEMMA GateUnbindNull == ASSUME IInv, GateInv, UnbindNull PROVE GateInv'
<1>1. /\ op.pc = "unbind_null" /\ op.dev \in Dev /\ op.vec \in Vec /\ Bound(op.dev, op.vec)
      /\ servers' = [servers EXCEPT ![SlotOf(op.dev, op.vec)] = NoDev]
      /\ op'.pc \in {"detach", "idle"}
      /\ UNCHANGED <<mode, nvec, slots, enabled, open>>
      /\ servers \in [Slot -> Dev \cup {NoDev}] /\ enabled \subseteq Dev
  BY DEF UnbindNull, poolVars, devVars, At, OpIdle, IInv, TypeOK, Holdings, CallConsistent
<1>2. ASSUME NEW d \in enabled, NEW v \in Vec, HasGate(d), v \in open[d]
      PROVE  Bound(d, v)'
  <2>1. Bound(d, v) /\ d \in Dev
    BY <1>1, <1>2 DEF GateInv, OpenOnlyBound
  <2>2. d # op.dev \/ v # op.vec
    BY <1>1, <1>2 DEF GateInv, GateShut
  <2>3. SlotOf(d, v) # SlotOf(op.dev, op.vec)
    BY <1>1, <2>1, <2>2, OneVector
  <2>4. servers'[SlotOf(d, v)] = servers[SlotOf(d, v)]
    BY <1>1, <2>1, <2>3 DEF SlotOf, IInv, TypeOK
  <2>5. QED
    BY <1>1, <2>1, <2>4 DEF Bound, SlotOf
<1>3. OpenOnlyBound'
  BY <1>1, <1>2 DEF OpenOnlyBound, HasGate
<1>4. GateShut'
  BY <1>1 DEF GateShut
<1>5. QED
  BY <1>3, <1>4 DEF GateInv

\* The other steps of the call in progress: a vector is opened once it is bound, and
\* from the shutdown on the device is not enabled.
LEMMA GateLocked == ASSUME IInv, GateInv, Locked PROVE GateInv'
<1>1. CASE \/ BindClear \/ BindUnmask \/ UnbindMask
           \/ IntxSet \/ IntxEnable \/ RefuseIntx \/ IntxRemove \/ IntxNull
  <2>1. /\ UNCHANGED <<mode, nvec, slots, servers, enabled, open>>
        /\ \/ op'.pc \notin {"unbind_mask", "unbind_null"}
           \/ op.pc = "unbind_mask" /\ op'.dev = op.dev /\ op'.vec = op.vec
    BY <1>1 DEF BindClear, BindUnmask, UnbindMask, IntxSet, IntxEnable, RefuseIntx, IntxRemove,
                IntxNull, At, OpIdle, poolVars, demuxVars, devVars, IInv, TypeOK
  <2>2. QED
    BY <2>1, GateFrame
<1>2. CASE VecOpen
  <2>1. /\ op.dev \in Dev /\ Bound(op.dev, op.vec) /\ op' = OpIdle
        /\ open' = [open EXCEPT ![op.dev] = @ \cup {op.vec}]
        /\ UNCHANGED <<mode, nvec, slots, servers, enabled>>
        /\ open \in [Dev -> SUBSET Vec] /\ enabled \subseteq Dev
    BY <1>2 DEF VecOpen, poolVars, demuxVars, IInv, TypeOK, Holdings, CallConsistent
  <2>2. \A d \in Dev, v \in Vec :
           v \in open'[d] => v \in open[d] \/ (d = op.dev /\ v = op.vec)
    BY <2>1
  <2>3. \A d \in Dev, v \in Vec : Bound(d, v)' = Bound(d, v)
    BY <2>1 DEF Bound, SlotOf
  <2>4. \A d \in Dev : HasGate(d)' = HasGate(d)
    BY <2>1 DEF HasGate
  <2>5. OpenOnlyBound'
    BY <2>1, <2>2, <2>3, <2>4 DEF GateInv, OpenOnlyBound
  <2>6. GateShut'
    BY <2>1 DEF GateShut, OpIdle
  <2>7. QED
    BY <2>5, <2>6 DEF GateInv
<1>3. CASE UnbindNull
  BY <1>3, GateUnbindNull
<1>4. CASE FreeDetach
  <2>1. PICK v \in 0 .. nvec[op.dev] - 1 :
           IF mode[op.dev] = "INTX" THEN DetachIntx(op.dev, TRUE)
                                    ELSE VecClose(op.dev, v, TRUE)
    BY <1>4 DEF FreeDetach
  <2>2. op.dev \in Dev /\ v \in Vec /\ op.pc = "detach"
    BY <1>4 DEF FreeDetach, IInv, TypeOK, Vec
  <2>3. CASE VecClose(op.dev, v, TRUE)
    BY <2>2, <2>3, GateVecClose
  <2>4. CASE DetachIntx(op.dev, TRUE)
    BY <2>4, GateFrame DEF DetachIntx, At, poolVars, demuxVars, devVars
  <2>5. QED
    BY <2>1, <2>3, <2>4
<1>5. CASE FreeShutdown
  <2>1. /\ op.dev \in Dev /\ enabled' = enabled \ {op.dev} /\ enabled \subseteq Dev
        /\ op'.pc \in {"clear_mode", "slots_free"}
        /\ open' = open \/ open' = [open EXCEPT ![op.dev] = Vec]
        /\ UNCHANGED <<mode, nvec, slots, servers>> /\ open \in [Dev -> SUBSET Vec]
    BY <1>5 DEF FreeShutdown, poolVars, demuxVars, IInv, TypeOK
  <2>2. \A d \in enabled' : open'[d] = open[d]
    BY <2>1
  <2>3. QED
    BY <2>1, <2>2, GateFrame
<1>6. CASE SlotsFree \/ ClearMode \/ ClearNvec
  <2>1. /\ op.dev \in Dev /\ op.dev \notin enabled /\ enabled \subseteq Dev
        /\ op'.pc \in {"clear_mode", "clear_nvec", "idle"}
        /\ UNCHANGED <<slots, servers, enabled, open>>
        /\ mode' = mode \/ mode' = [mode EXCEPT ![op.dev] = "none"]
        /\ nvec' = nvec \/ nvec' = [nvec EXCEPT ![op.dev] = 0]
        /\ mode \in [Dev -> Types \cup {"none"}] /\ nvec \in [Dev -> 0 .. NSlots]
    BY <1>6 DEF SlotsFree, ClearMode, ClearNvec, demuxVars, devVars, OpIdle, IInv, TypeOK,
                Holdings, CallConsistent
  <2>2. \A d \in enabled : mode'[d] = mode[d] /\ nvec'[d] = nvec[d]
    BY <2>1
  <2>3. QED
    BY <2>1, <2>2, GateFrame
<1>7. QED
  BY <1>1, <1>2, <1>3, <1>4, <1>5, <1>6 DEF Locked

\* A Function Level Reset opens MSI gates, but leaves the device silent.
LEMMA GateFlr == ASSUME IInv, GateInv, NEW d \in Dev, Flr(d) PROVE GateInv'
<1>1. /\ enabled' = enabled \ {d} /\ enabled \subseteq Dev
      /\ UNCHANGED <<mode, nvec, slots, servers, op>>
      /\ \A e \in Dev : e # d => open'[e] = open[e]
  BY DEF Flr, poolVars, demuxVars, ctlVars, IInv, TypeOK
<1>2. QED
  BY <1>1, GateFrame

\* Beside a reset, no step of a task, the demux or the fabric moves a gate.
LEMMA GatesKept ==
    ASSUME Background
    PROVE  (\E d \in Dev : Flr(d)) \/ UNCHANGED devVars
<1>1. ASSUME NEW m \in Masker, NEW d \in Dev, NEW v \in Vec,
             \/ BottomHalf(m, d, v)
             \/ \E act \in {"mask", "unmask"} : MaskIntVector(m, d, v, act)
      PROVE  UNCHANGED devVars
  BY <1>1 DEF BottomHalf, MaskIntVector
<1>2. ASSUME NEW m \in Masker, WriteMask(m) PROVE UNCHANGED devVars
  BY <1>2 DEF WriteMask
<1>3. ASSUME NEW d \in Dev, NEW on \in BOOLEAN, SetIntx(d, on) PROVE UNCHANGED devVars
  BY <1>3 DEF SetIntx
<1>4. ASSUME Demux PROVE UNCHANGED devVars
  BY <1>4 DEF Demux, DemuxEnter, DemuxClear, DemuxCall, DemuxExit
<1>5. ASSUME NEW l \in Line, IntxInterrupt(l) PROVE UNCHANGED devVars
  BY <1>5 DEF IntxInterrupt
<1>6. ASSUME NEW msg \in MsgOf, Arrive(msg) PROVE UNCHANGED devVars
  BY <1>6 DEF Arrive
<1>7. ASSUME NEW d \in Dev, RaiseIntx(d) PROVE UNCHANGED devVars
  BY <1>7 DEF RaiseIntx
<1>8. QED
  BY <1>1, <1>2, <1>3, <1>4, <1>5, <1>6, <1>7 DEF Background

LEMMA GateNext == ASSUME IInv, GateInv, [Next]_vars PROVE GateInv'
<1>1. ASSUME UNCHANGED <<mode, nvec, slots, servers, enabled, open>>,
             UNCHANGED op \/ op'.pc \in {"detach", "intx_set", "intx_gic"}
      PROVE  GateInv'
  BY <1>1, GateFrame
<1>2. CASE Calls
  <2>1. ASSUME NEW d \in Dev, NEW r \in Request,
               AllocMsix(d, r) \/ AllocMsi(d, r, op) \/ AllocIntxOrFail(d, r)
        PROVE  GateInv'
    BY <2>1, AllocGrants, GateGrant, GateAlloc DEF IInv
  <2>2. ASSUME NEW d \in Dev, AddIntServerMsi(d) \/ AddIntServerIntx(d) PROVE GateInv'
    BY <2>2, AllocGrants, GateGrant, GateAlloc DEF IInv
  <2>3. ASSUME NEW d \in Dev, FreeIntVectors(d) \/ AddIntx(d) PROVE GateInv'
    BY <1>1, <2>3 DEF FreeIntVectors, AddIntx, At, poolVars, demuxVars, devVars
  <2>4. ASSUME NEW d \in Dev, NEW v \in Vec, BindServer(d, v) PROVE GateInv'
    BY <2>4, GateBind
  <2>5. ASSUME NEW d \in Dev, NEW v \in Vec, RemIntVectorServer(d, v) PROVE GateInv'
    <3>1. CASE DetachIntx(d, FALSE)
      BY <1>1, <3>1 DEF DetachIntx, At, poolVars, demuxVars, devVars
    <3>2. CASE VecClose(d, v, FALSE)
      BY <3>2, GateVecClose
    <3>3. QED
      BY <2>5, <3>1, <3>2 DEF RemIntVectorServer
  <2>6. ASSUME NEW d \in Dev, NEW v \in Vec, Raise(d, v) PROVE GateInv'
    BY <1>1, <2>6 DEF Raise, poolVars, demuxVars, devVars, ctlVars
  <2>7. QED
    BY <1>2, <2>1, <2>2, <2>3, <2>4, <2>5, <2>6 DEF Calls
<1>3. CASE Locked
  BY <1>3, GateLocked
<1>4. CASE Background
  BY <1>1, <1>4, GatesKept, GateFlr, BackgroundQuiet DEF poolVars, devVars
<1>5. CASE UNCHANGED vars
  BY <1>1, <1>5 DEF vars, poolVars, demuxVars, devVars, ctlVars
<1>6. QED
  BY <1>2, <1>3, <1>4, <1>5, NextSplit

\* Whatever the interleaving of an attach, a detach and a teardown with resets,
\* masks and interrupts, a device can send on a gated vector only while its slot
\* has its server (pci_irq_vec_open after brcm_msi_slot_bind, pci_irq_vec_close
\* before brcm_msi_slot_unbind).
THEOREM GatesOpenOnlyBound == Spec => []OpenOnlyBound
<1>1. Init => GateInv
  BY DEF Init, OpIdle, GateInv, OpenOnlyBound, GateShut
<1>2. IInv /\ GateInv /\ [Next]_vars => GateInv'
  BY GateNext
<1>3. GateInv => OpenOnlyBound
  BY DEF GateInv
<1>4. QED
  BY <1>1, <1>2, <1>3, Invariance, PTL DEF Spec

-----------------------------------------------------------------------------
(* The interrupts that wait.                                               *)

\* What NoLostWork rests on: the demux serves one slot at a time, and leaves with
\* none in service.
OneInService ==
    /\ ~isr.active => isr.cur = {}
    /\ \A s, t \in isr.cur : s = t
ServiceInv == NoLostWork /\ OneInService

\* NoLostWork, its antecedent named: the vector has a server past its slot_bind,
\* and an interrupt that server has not served.
Waiting(d, v) ==
    /\ <<d, v>> \in work /\ Bound(d, v)
    /\ ~(op.pc = "bind_clr" /\ op.dev = d /\ op.vec = v)

LEMMA WaitingPending == NoLostWork <=> \A d \in Dev, v \in Vec : Waiting(d, v) => Pending(d, v)
BY Zenon DEF NoLostWork, Waiting

\* A step that brings no interrupt and takes away nothing that serves one.
LEMMA WorkFrame ==
    ASSUME ServiceInv, work' \subseteq work,
           UNCHANGED <<mode, nvec, slots, servers, inflight, status, deferred, isr>>,
           UNCHANGED op \/ op.pc # "bind_clr"
    PROVE  ServiceInv'
<1>1. OneInService'
  BY DEF ServiceInv, OneInService
<1>2. ASSUME NEW d \in Dev, NEW v \in Vec, Waiting(d, v)' PROVE Pending(d, v)'
  <2>1. Waiting(d, v)
    BY <1>2 DEF Waiting, Bound, SlotOf
  <2>2. Pending(d, v)
    BY <2>1, WaitingPending DEF ServiceInv
  <2>3. QED
    BY <2>2 DEF Pending, SlotOf
<1>3. QED
  BY <1>1, <1>2, WaitingPending DEF ServiceInv, NoLostWork, Waiting

\* One device's allocation changes and leaves it without a bound vector.
LEMMA WorkElsewhere ==
    ASSUME ServiceInv, NEW d \in Dev, op.pc # "bind_clr",
           UNCHANGED <<servers, work, inflight, status, deferred, isr>>,
           \A e \in Dev : e # d => /\ mode'[e] = mode[e] /\ nvec'[e] = nvec[e]
                                  /\ slots'[e] = slots[e],
           \A v \in Vec : ~Bound(d, v)'
    PROVE  ServiceInv'
<1>1. OneInService'
  BY DEF ServiceInv, OneInService
<1>2. ASSUME NEW e \in Dev, NEW v \in Vec, Waiting(e, v)' PROVE Pending(e, v)'
  <2>1. e # d
    BY <1>2 DEF Waiting
  <2>2. Waiting(e, v)
    BY <1>2, <2>1 DEF Waiting, Bound, SlotOf
  <2>3. Pending(e, v)
    BY <2>2, WaitingPending DEF ServiceInv
  <2>4. QED
    BY <2>1, <2>3 DEF Pending, SlotOf
<1>3. QED
  BY <1>1, <1>2 DEF ServiceInv, NoLostWork, Waiting

\* A new allocation's slots have no server yet.
LEMMA WorkGrant ==
    ASSUME IInv, IInv', ServiceInv, NEW d \in Dev, Granting(d)
    PROVE  ServiceInv'
<1>1. PICK type \in Msgs, n \in Nat, list \in [Vec -> Slot], next \in OpType :
         next.pc \in {"idle", "added"} /\ Program(d, type, n, list, used, next)
  BY DEF Granting
<1>2. /\ mode' = [mode EXCEPT ![d] = type] /\ nvec' = [nvec EXCEPT ![d] = n]
      /\ slots' = [slots EXCEPT ![d] = list]
      /\ UNCHANGED <<servers, work, inflight, status, deferred, isr>>
  BY <1>1 DEF Program, demuxVars, envVars
<1>3. \A e \in Dev : e # d => /\ mode'[e] = mode[e] /\ nvec'[e] = nvec[e]
                             /\ slots'[e] = slots[e]
  BY <1>2 DEF IInv, TypeOK
<1>4. \A s \in Slot : servers[s] # d
  <2>1. Held(d) = {} /\ d # NoDev
    BY DEF Granting, Held, Holds, Msgs
  <2>2. QED
    BY <2>1 DEF IInv, Holdings, ServersOnHeldSlots
<1>5. \A v \in Vec : ~Bound(d, v)'
  <2>1. \A v \in Vec : slots'[d][v] \in Slot
    BY DEF IInv, TypeOK
  <2>2. QED
    BY <1>2, <1>4, <2>1 DEF Bound, SlotOf
<1>6. QED
  BY <1>2, <1>3, <1>5, WorkElsewhere DEF Granting

LEMMA WorkAlloc ==
    ASSUME IInv, ServiceInv, NEW d \in Dev,
           (\E r \in Request : AllocIntxOrFail(d, r)) \/ AddIntServerIntx(d)
    PROVE  ServiceInv'
<1>1. /\ op.pc = "idle" /\ mode[d] = "none" /\ mode'[d] \in {"none", "INTX"}
      /\ UNCHANGED <<servers, work, inflight, status, deferred, isr>>
      /\ \A e \in Dev : e # d => /\ mode'[e] = mode[e] /\ nvec'[e] = nvec[e]
                                /\ slots'[e] = slots[e]
  <2>1. mode \in [Dev -> Types \cup {"none"}] /\ nvec \in [Dev -> 0 .. NSlots]
        /\ slots \in [Dev -> [Vec -> Slot]]
    BY DEF IInv, TypeOK
  <2>2. CASE AddIntServerIntx(d)
    BY <2>1, <2>2 DEF AddIntServerIntx, Unlocked, demuxVars, envVars
  <2>3. CASE \E r \in Request : AllocIntxOrFail(d, r)
    <3>1. PICK r \in Request : AllocIntxOrFail(d, r)
      BY <2>3
    <3>2. \A e \in Dev : e # d => slots'[e] = slots[e]
      BY <2>1, <3>1, RequestType, RollBackFail
    <3>3. \/ mode' = [mode EXCEPT ![d] = "INTX"] /\ nvec' = [nvec EXCEPT ![d] = 1]
          \/ UNCHANGED <<mode, nvec>>
      BY <3>1 DEF AllocIntxOrFail
    <3>4. /\ op.pc = "idle" /\ mode[d] = "none"
          /\ UNCHANGED <<servers, work, inflight, status, deferred, isr>>
      BY <3>1 DEF AllocIntxOrFail, CanAlloc, Unlocked, ctlVars, demuxVars, envVars
    <3>5. QED
      BY <2>1, <3>2, <3>3, <3>4
  <2>4. QED
    BY <2>2, <2>3
<1>2. \A v \in Vec : ~Bound(d, v)'
  BY <1>1 DEF Bound, Msgs
<1>3. QED
  BY <1>1, <1>2, WorkElsewhere

\* slot_bind: the vector waits for nothing until its slot is cleared.
LEMMA WorkBind ==
    ASSUME IInv, ServiceInv, NEW d \in Dev, NEW v \in Vec, BindServer(d, v)
    PROVE  ServiceInv'
<1>1. /\ servers' = [servers EXCEPT ![SlotOf(d, v)] = d]
      /\ servers \in [Slot -> Dev \cup {NoDev}]
      /\ UNCHANGED <<mode, nvec, slots, work, inflight, status, deferred, isr>>
      /\ op.pc \in {"idle", "added"} /\ op' = At("bind_clr", d, v, FALSE)
      /\ v < nvec[d] /\ mode[d] \in Msgs
  BY DEF BindServer, poolVars, IInv, TypeOK
<1>2. OneInService'
  BY <1>1 DEF ServiceInv, OneInService
<1>3. Bound(d, v)'
  BY <1>1 DEF Bound, SlotOf, IInv, TypeOK
<1>4. ASSUME NEW e \in Dev, NEW u \in Vec, Waiting(e, u)' PROVE Pending(e, u)'
  <2>1. e # d \/ u # v
    BY <1>1, <1>4 DEF Waiting, At
  <2>2. SlotOf(e, u)' # SlotOf(d, v)'
    <3>1. Bound(e, u)'
      BY <1>4 DEF Waiting
    <3>2. SUFFICES ASSUME SlotOf(e, u)' = SlotOf(d, v)' PROVE FALSE
      OBVIOUS
    <3>3. e = d
      BY <1>3, <3>1, <3>2 DEF Bound
    <3>4. SlotOf(d, v) \in Slot /\ nvec[d] \in 0 .. NSlots
      BY DEF SlotOf, IInv, TypeOK
    <3>5. Holds(d) /\ u \in 0 .. nvec[d] - 1 /\ v \in 0 .. nvec[d] - 1
      BY <1>1, <3>1, <3>3, <3>4 DEF Holds, Bound, Vec
    <3>6. SlotOf(d, u) = SlotOf(d, v)
      BY <1>1, <3>2, <3>3 DEF SlotOf
    <3>7. QED
      BY <2>1, <3>3, <3>5, <3>6 DEF IInv, Holdings, PoolExact
  <2>3. servers'[SlotOf(e, u)'] = servers[SlotOf(e, u)]
    BY <1>1, <2>2 DEF SlotOf, IInv, TypeOK
  <2>4. Waiting(e, u)
    BY <1>1, <1>4, <2>3 DEF Waiting, Bound, SlotOf
  <2>5. Pending(e, u)
    BY <2>4, WaitingPending DEF ServiceInv
  <2>6. QED
    BY <1>1, <2>5 DEF Pending, SlotOf
<1>5. QED
  BY <1>2, <1>4 DEF ServiceInv, NoLostWork, Waiting

\* slot_bind clears a slot only its own vector uses.
LEMMA WorkBindClear == ASSUME IInv, ServiceInv, BindClear PROVE ServiceInv'
<1>1. /\ op.pc = "bind_clr" /\ op.dev \in Dev /\ op.vec \in Vec /\ Bound(op.dev, op.vec)
      /\ status' = status \ {SlotOf(op.dev, op.vec)}
      /\ work' = work \ {<<op.dev, op.vec>>}
      /\ UNCHANGED <<mode, nvec, slots, servers, inflight, deferred, isr>>
  BY DEF BindClear, poolVars, IInv, TypeOK, Holdings, CallConsistent
<1>2. OneInService'
  BY <1>1 DEF ServiceInv, OneInService
<1>3. ASSUME NEW d \in Dev, NEW v \in Vec, Waiting(d, v)' PROVE Pending(d, v)'
  <2>1. Waiting(d, v) /\ Bound(d, v) /\ (d # op.dev \/ v # op.vec)
    BY <1>1, <1>3 DEF Waiting, Bound, SlotOf
  <2>2. SlotOf(d, v) # SlotOf(op.dev, op.vec)
    BY <1>1, <2>1, OneVector
  <2>3. Pending(d, v)
    BY <2>1, WaitingPending DEF ServiceInv
  <2>4. QED
    BY <1>1, <2>2, <2>3 DEF Pending, SlotOf
<1>4. QED
  BY <1>2, <1>3 DEF ServiceInv, NoLostWork, Waiting

\* slot_unbind drops what its vector still waited for.
LEMMA WorkUnbindNull == ASSUME IInv, ServiceInv, UnbindNull PROVE ServiceInv'
<1>1. /\ op.pc = "unbind_null" /\ op.dev \in Dev
      /\ work' = work \ {<<op.dev, op.vec>>} /\ deferred' = deferred \ {<<op.dev, op.vec>>}
      /\ servers' = [servers EXCEPT ![SlotOf(op.dev, op.vec)] = NoDev]
      /\ servers \in [Slot -> Dev \cup {NoDev}]
      /\ UNCHANGED <<mode, nvec, slots, inflight, status, isr>>
  BY DEF UnbindNull, poolVars, IInv, TypeOK
<1>2. OneInService'
  BY <1>1 DEF ServiceInv, OneInService
<1>3. ASSUME NEW d \in Dev, NEW v \in Vec, Waiting(d, v)' PROVE Pending(d, v)'
  <2>1. <<d, v>> \in work /\ <<d, v>> # <<op.dev, op.vec>> /\ Bound(d, v)'
    BY <1>1, <1>3 DEF Waiting
  <2>2. Bound(d, v)
    BY <1>1, <2>1 DEF Bound, SlotOf, IInv, TypeOK
  <2>3. Pending(d, v)
    BY <1>1, <2>1, <2>2, WaitingPending DEF ServiceInv, Waiting
  <2>4. QED
    BY <1>1, <2>1, <2>3 DEF Pending, SlotOf
<1>4. QED
  BY <1>2, <1>3 DEF ServiceInv, NoLostWork, Waiting

\* The other steps of the call in progress.
LEMMA WorkLocked == ASSUME IInv, ServiceInv, Locked PROVE ServiceInv'
<1>1. CASE BindClear
  BY <1>1, WorkBindClear
<1>2. CASE UnbindNull
  BY <1>2, WorkUnbindNull
<1>3. CASE BindUnmask \/ VecOpen \/ UnbindMask \/ FreeShutdown \/ SlotsFree
  <2>1. /\ op.pc # "bind_clr" /\ work' = work
        /\ UNCHANGED <<mode, nvec, slots, servers, inflight, status, deferred, isr>>
    BY <1>3 DEF BindUnmask, VecOpen, UnbindMask, FreeShutdown, SlotsFree, poolVars,
                demuxVars, envVars
  <2>2. QED
    BY <2>1, WorkFrame
<1>4. CASE FreeDetach
  <2>1. PICK v \in 0 .. nvec[op.dev] - 1 :
           IF mode[op.dev] = "INTX" THEN DetachIntx(op.dev, TRUE)
                                    ELSE VecClose(op.dev, v, TRUE)
    BY <1>4 DEF FreeDetach
  <2>2. op.pc = "detach"
    BY <1>4 DEF FreeDetach
  <2>3. /\ op.pc # "bind_clr" /\ work' \subseteq work
        /\ UNCHANGED <<mode, nvec, slots, servers, inflight, status, deferred, isr>>
    BY <2>1, <2>2 DEF DetachIntx, VecClose, poolVars, demuxVars, envVars
  <2>4. QED
    BY <2>3, WorkFrame
<1>5. CASE ClearMode \/ ClearNvec
  <2>1. /\ op.pc \in {"clear_mode", "clear_nvec"} /\ op.dev \in Dev
        /\ UNCHANGED <<slots, servers, work, inflight, status, deferred, isr>>
    BY <1>5 DEF ClearMode, ClearNvec, demuxVars, envVars, IInv, TypeOK
  <2>2. mode'[op.dev] = "none"
    BY <1>5 DEF ClearMode, ClearNvec, IInv, TypeOK, Holdings, CallConsistent
  <2>3. \A e \in Dev : e # op.dev => mode'[e] = mode[e] /\ nvec'[e] = nvec[e]
    BY <1>5 DEF ClearMode, ClearNvec, IInv, TypeOK
  <2>4. PICK d \in Dev : d = op.dev
    BY <2>1
  <2>5. \A v \in Vec : ~Bound(d, v)'
    BY <2>2, <2>4 DEF Bound, Msgs
  <2>6. QED
    BY <2>1, <2>3, <2>4, <2>5, WorkElsewhere
<1>6. CASE IntxSet \/ IntxEnable \/ RefuseIntx \/ IntxRemove \/ IntxNull
  <2>1. /\ op.pc # "bind_clr" /\ work' \subseteq work
        /\ UNCHANGED <<mode, nvec, slots, servers, inflight, status, deferred, isr>>
    BY <1>6 DEF IntxSet, IntxEnable, RefuseIntx, IntxRemove, IntxNull, poolVars, demuxVars, envVars
  <2>2. QED
    BY <2>1, WorkFrame
<1>7. QED
  BY <1>1, <1>2, <1>3, <1>4, <1>5, <1>6 DEF Locked

\* The demux moves a slot from STATUS into service and calls its server, which
\* drains the device or leaves the vector to its task.
LEMMA WorkDemux == ASSUME IInv, ServiceInv, Demux PROVE ServiceInv'
<1> USE DEF ServiceInv
<1>1. UNCHANGED <<mode, nvec, slots, servers, op, inflight>>
  BY DEF Demux, DemuxEnter, DemuxClear, DemuxCall, DemuxExit, poolVars, demuxVars, envVars
<1>2. \A d \in Dev, v \in Vec : Bound(d, v)' = Bound(d, v) /\ SlotOf(d, v)' = SlotOf(d, v)
  BY <1>1 DEF Bound, SlotOf
<1>3. isr \in [active : BOOLEAN, todo : SUBSET Slot, cur : SUBSET Slot]
  BY DEF IInv, TypeOK
<1>4. CASE DemuxEnter \/ DemuxExit
  <2>1. /\ isr'.cur = {} /\ isr.cur = {}
        /\ UNCHANGED <<status, work, deferred>>
    BY <1>4 DEF DemuxEnter, DemuxExit, IsrIdle, OneInService, demuxVars, envVars
  <2>2. OneInService'
    BY <2>1 DEF OneInService
  <2>3. NoLostWork'
    BY <1>1, <1>2, <2>1 DEF NoLostWork, Pending
  <2>4. QED
    BY <2>2, <2>3
<1>5. CASE DemuxClear
  <2>1. PICK s \in isr.todo :
           /\ isr.active /\ isr.cur = {} /\ status' = status \ {s}
           /\ isr' = [isr EXCEPT !.todo = @ \ {s}, !.cur = {s}]
           /\ UNCHANGED <<work, deferred>>
    BY <1>5 DEF DemuxClear, envVars
  <2>2. isr'.active /\ isr'.cur = {s}
    BY <1>3, <2>1
  <2>3. OneInService'
    BY <2>2 DEF OneInService
  <2>4. NoLostWork'
    BY <1>1, <1>2, <2>1, <2>2 DEF NoLostWork, Pending
  <2>5. QED
    BY <2>3, <2>4
<1>6. CASE DemuxCall
  <2>1. PICK s \in isr.cur :
           \/ servers[s] = NoDev /\ UNCHANGED <<work, deferred>>
           \/ work' = work \ ServedBy(s) /\ UNCHANGED deferred
           \/ deferred' = deferred \cup ServedBy(s) /\ UNCHANGED work
    BY <1>6 DEF DemuxCall
  <2>2. isr'.cur = {} /\ UNCHANGED status /\ isr.cur = {s}
    BY <1>3, <1>6, <2>1 DEF DemuxCall, OneInService
  <2>3. OneInService'
    BY <2>2 DEF OneInService
  <2>4. ASSUME NEW d \in Dev, NEW v \in Vec, Bound(d, v), SlotOf(d, v) = s
        PROVE  servers[s] # NoDev /\ <<d, v>> \in ServedBy(s)
    <3>1. servers[s] = d /\ v \in 0 .. nvec[d] - 1
      BY <2>4 DEF Bound, Vec, IInv, TypeOK
    <3>2. QED
      BY <2>4, <3>1 DEF ServedBy
  <2>5. ASSUME NEW d \in Dev, NEW v \in Vec, Waiting(d, v)' PROVE Pending(d, v)'
    <3>1. /\ <<d, v>> \in work' /\ Bound(d, v)
          /\ ~(op.pc = "bind_clr" /\ op.dev = d /\ op.vec = v)
      BY <1>1, <1>2, <2>5 DEF Waiting
    <3>2. <<d, v>> \in work
      BY <2>1, <3>1
    <3>3. Pending(d, v)
      BY <3>1, <3>2, WaitingPending DEF Waiting
    <3>4. deferred \subseteq deferred'
      BY <2>1
    <3>5. CASE SlotOf(d, v) = s
      <4>1. servers[s] # NoDev /\ <<d, v>> \in ServedBy(s)
        BY <2>4, <3>1, <3>5
      <4>2. <<d, v>> \in deferred'
        BY <2>1, <3>1, <4>1
      <4>3. QED
        BY <4>2 DEF Pending
    <3>6. CASE SlotOf(d, v) # s
      BY <1>1, <1>2, <2>2, <3>3, <3>4, <3>6 DEF Pending
    <3>7. QED
      BY <3>5, <3>6
  <2>6. NoLostWork'
    BY <2>5 DEF NoLostWork, Waiting
  <2>7. QED
    BY <2>3, <2>6
<1>7. QED
  BY <1>4, <1>5, <1>6 DEF Demux

\* A device that raises a vector has written the message of that vector's own slot.
LEMMA WorkRaise ==
    ASSUME IInv, ServiceInv, NEW d \in Dev, NEW v \in Vec, Raise(d, v)
    PROVE  ServiceInv'
<1>1. /\ UNCHANGED <<mode, nvec, slots, servers, op, status, isr, deferred>>
      /\ work' = work \cup {<<d, v>>}
      /\ inflight' = inflight \cup {[dev |-> d, slot |-> MsgSlot(d, v)]}
      /\ d \in enabled /\ v < nvec[d]
  BY DEF Raise, poolVars, demuxVars, ctlVars
<1>2. MsgSlot(d, v) = SlotOf(d, v)
  BY <1>1, OwnMessage
<1>3. OneInService'
  BY <1>1 DEF ServiceInv, OneInService
<1>4. ASSUME NEW e \in Dev, NEW u \in Vec, Waiting(e, u)' PROVE Pending(e, u)'
  <2>1. CASE e = d /\ u = v
    BY <1>1, <1>2, <2>1 DEF Pending, SlotOf
  <2>2. CASE ~(e = d /\ u = v)
    <3>1. Waiting(e, u)
      BY <1>1, <1>4, <2>2 DEF Waiting, Bound, SlotOf
    <3>2. QED
      BY <1>1, <3>1, WaitingPending DEF ServiceInv, Pending, SlotOf
  <2>3. QED
    BY <2>1, <2>2
<1>5. QED
  BY <1>3, <1>4 DEF ServiceInv, NoLostWork, Waiting

\* An INTx interrupt is no message-signalled vector's.
LEMMA WorkRaiseIntx ==
    ASSUME IntxInv, ServiceInv, NEW d \in Dev, RaiseIntx(d)
    PROVE  ServiceInv'
<1>1. /\ UNCHANGED <<mode, nvec, slots, servers, op, status, isr, deferred, inflight>>
      /\ work' = work \cup {<<d, 0>>} /\ mode[d] = "INTX"
  BY DEF RaiseIntx, poolVars, demuxVars, ctlVars, IntxInv, IntxRegistered
<1>2. OneInService'
  BY <1>1 DEF ServiceInv, OneInService
<1>3. ASSUME NEW e \in Dev, NEW u \in Vec, Waiting(e, u)' PROVE Pending(e, u)'
  <2>1. e # d
    BY <1>1, <1>3 DEF Waiting, Bound, Msgs
  <2>2. Waiting(e, u)
    BY <1>1, <1>3, <2>1 DEF Waiting, Bound, SlotOf
  <2>3. QED
    BY <1>1, <2>2, WaitingPending DEF ServiceInv, Pending, SlotOf
<1>4. QED
  BY <1>2, <1>3 DEF ServiceInv, NoLostWork, Waiting

\* A message is in flight until its slot has latched it.
LEMMA WorkArrive ==
    ASSUME ServiceInv, NEW msg \in MsgOf, Arrive(msg)
    PROVE  ServiceInv'
<1>1. /\ UNCHANGED <<mode, nvec, slots, servers, op, work, isr, deferred>>
      /\ inflight' = inflight \ {msg} /\ status' = status \cup {msg.slot}
  BY DEF Arrive, poolVars, ctlVars
<1>2. OneInService'
  BY <1>1 DEF ServiceInv, OneInService
<1>3. ASSUME NEW d \in Dev, NEW v \in Vec, Waiting(d, v)' PROVE Pending(d, v)'
  <2>1. Waiting(d, v)
    BY <1>1, <1>3 DEF Waiting, Bound, SlotOf
  <2>2. Pending(d, v)
    BY <2>1, WaitingPending DEF ServiceInv
  <2>3. CASE msg = [dev |-> d, slot |-> SlotOf(d, v)]
    BY <1>1, <2>3 DEF Pending, SlotOf
  <2>4. CASE msg # [dev |-> d, slot |-> SlotOf(d, v)]
    BY <1>1, <2>2, <2>4 DEF Pending, SlotOf
  <2>5. QED
    BY <2>3, <2>4
<1>4. QED
  BY <1>2, <1>3 DEF ServiceInv, NoLostWork, Waiting

\* The driver's task serves a deferred vector when it forgets it.
LEMMA WorkBottomHalf ==
    ASSUME ServiceInv, NEW m \in Masker, NEW d \in Dev, NEW v \in Vec, BottomHalf(m, d, v)
    PROVE  ServiceInv'
<1>1. /\ UNCHANGED <<mode, nvec, slots, servers, op, status, isr, inflight>>
      /\ work' = work \ {<<d, v>>} /\ deferred' = deferred \ {<<d, v>>}
  BY DEF BottomHalf, poolVars, demuxVars
<1>2. OneInService'
  BY <1>1 DEF ServiceInv, OneInService
<1>3. ASSUME NEW e \in Dev, NEW u \in Vec, Waiting(e, u)' PROVE Pending(e, u)'
  <2>1. Waiting(e, u) /\ <<e, u>> # <<d, v>>
    BY <1>1, <1>3 DEF Waiting, Bound, SlotOf
  <2>2. Pending(e, u)
    BY <2>1, WaitingPending DEF ServiceInv
  <2>3. QED
    BY <1>1, <2>1, <2>2 DEF Pending, SlotOf
<1>4. QED
  BY <1>2, <1>3 DEF ServiceInv, NoLostWork, Waiting

LEMMA WorkCalls == ASSUME IInv, IInv', ServiceInv, Calls PROVE ServiceInv'
<1>1. ASSUME NEW d \in Dev, NEW r \in Request,
             AllocMsix(d, r) \/ AllocMsi(d, r, op) \/ AllocIntxOrFail(d, r)
      PROVE  ServiceInv'
  BY <1>1, AllocGrants, WorkGrant, WorkAlloc DEF IInv
<1>2. ASSUME NEW d \in Dev, AddIntServerMsi(d) \/ AddIntServerIntx(d) PROVE ServiceInv'
  BY <1>2, AllocGrants, WorkGrant, WorkAlloc DEF IInv
<1>3. ASSUME NEW d \in Dev, FreeIntVectors(d) \/ AddIntx(d) PROVE ServiceInv'
  <2>1. /\ op.pc \in {"idle", "added"} /\ work' = work
        /\ UNCHANGED <<mode, nvec, slots, servers, inflight, status, deferred, isr>>
    BY <1>3 DEF FreeIntVectors, AddIntx, MayAttach, Unlocked, poolVars, demuxVars, envVars
  <2>2. QED
    BY <2>1, WorkFrame
<1>4. ASSUME NEW d \in Dev, NEW v \in Vec, BindServer(d, v) PROVE ServiceInv'
  BY <1>4, WorkBind
<1>5. ASSUME NEW d \in Dev, NEW v \in Vec, RemIntVectorServer(d, v) PROVE ServiceInv'
  <2>1. /\ op.pc = "idle" /\ work' \subseteq work
        /\ UNCHANGED <<mode, nvec, slots, servers, inflight, status, deferred, isr>>
    BY <1>5 DEF RemIntVectorServer, Unlocked, DetachIntx, VecClose, poolVars, demuxVars,
                envVars
  <2>2. QED
    BY <2>1, WorkFrame
<1>6. ASSUME NEW d \in Dev, NEW v \in Vec, Raise(d, v) PROVE ServiceInv'
  BY <1>6, WorkRaise
<1>7. QED
  BY <1>1, <1>2, <1>3, <1>4, <1>5, <1>6 DEF Calls

LEMMA WorkBackground == ASSUME IInv, IntxInv, ServiceInv, Background PROVE ServiceInv'
<1>1. ASSUME UNCHANGED <<mode, nvec, slots, servers, inflight, status, deferred, isr, op>>,
             work' \subseteq work
      PROVE  ServiceInv'
  BY <1>1, WorkFrame
<1>2. ASSUME NEW m \in Masker, NEW d \in Dev, NEW v \in Vec, BottomHalf(m, d, v)
      PROVE  ServiceInv'
  BY <1>2, WorkBottomHalf
<1>3. ASSUME NEW m \in Masker, NEW d \in Dev, NEW v \in Vec, NEW act,
             MaskIntVector(m, d, v, act)
      PROVE  ServiceInv'
  BY <1>1, <1>3 DEF MaskIntVector, poolVars, demuxVars, envVars
<1>4. ASSUME NEW m \in Masker, WriteMask(m) PROVE ServiceInv'
  BY <1>1, <1>4 DEF WriteMask, poolVars, envVars
<1>5. ASSUME NEW d \in Dev, NEW on \in BOOLEAN, SetIntx(d, on) PROVE ServiceInv'
  BY <1>1, <1>5 DEF SetIntx, poolVars, demuxVars, ctlVars, envVars
<1>6. ASSUME Demux PROVE ServiceInv'
  BY <1>6, WorkDemux
<1>7. ASSUME NEW l \in Line, IntxInterrupt(l) PROVE ServiceInv'
  BY <1>1, <1>7 DEF IntxInterrupt, poolVars, demuxVars, ctlVars
<1>8. ASSUME NEW msg \in MsgOf, Arrive(msg) PROVE ServiceInv'
  BY <1>8, WorkArrive
<1>9. ASSUME NEW d \in Dev, Flr(d) PROVE ServiceInv'
  BY <1>1, <1>9 DEF Flr, poolVars, demuxVars, ctlVars, envVars
<1>10. ASSUME NEW d \in Dev, RaiseIntx(d) PROVE ServiceInv'
  BY <1>10, WorkRaiseIntx
<1>11. QED
  BY <1>2, <1>3, <1>4, <1>5, <1>6, <1>7, <1>8, <1>9, <1>10 DEF Background

LEMMA WorkNext ==
    ASSUME IInv, IInv', IntxInv, ServiceInv, [Next]_vars
    PROVE  ServiceInv'
<1>1. CASE UNCHANGED vars
  BY <1>1, WorkFrame DEF vars, poolVars, demuxVars, ctlVars, envVars
<1>2. QED
  BY <1>1, WorkCalls, WorkLocked, WorkBackground, NextSplit

\* No interrupt is lost: while a vector has a server and its device waits for
\* service, its message is in flight, latched, in service, or its task is to serve
\* it, whatever masks, detaches, resets and other slots' dispatches run in between
\* (brcm_msi_demux_isr, brcm_msi_slot_bind, brcm_msi_slot_unbind).
THEOREM NoInterruptLost == Spec => []NoLostWork
<1>1. Init => IntxInv /\ ServiceInv
  BY DEF Init, OpIdle, IsrIdle, IntxInv, IntxRegistered, IntxShape, ServiceInv, NoLostWork,
         OneInService
<1>2. IInv /\ IntxInv /\ [Next]_vars => IntxInv'
  BY IntxNext
<1>3. IInv /\ IInv' /\ IntxInv /\ ServiceInv /\ [Next]_vars => ServiceInv'
  BY WorkNext
<1>4. ServiceInv => NoLostWork
  BY DEF ServiceInv
<1>5. QED
  BY <1>1, <1>2, <1>3, <1>4, Invariance, PTL DEF Spec

=============================================================================
