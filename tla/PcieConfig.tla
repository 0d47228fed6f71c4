----------------------------- MODULE PcieConfig -----------------------------
(***************************************************************************)
(* Configuration access on the BCM2711 (pcie_brcmstb.c): functions behind  *)
(* the root port share one window, and EXT_CFG_INDEX says whose registers  *)
(* it shows.  Every access checks the link, writes the index and then      *)
(* touches the window; a read-modify-write is two accesses.  Most library  *)
(* calls do this under the semaphore; Mask/UnmaskIntVector on INTx,        *)
(* CheckSetINTxMask, FLR and the capability searches do not.               *)
(***************************************************************************)
EXTENDS ConfigCalls

CONSTANTS LinkMoves,    \* BOOLEAN: the link may drop and come back
          NoTask        \* "nobody"

ASSUME ConfigAssumption == LinkMoves \in BOOLEAN /\ NoTask \notin Task

VARIABLES
    regs,       \* the functions' registers
    link,       \* PCIE_STATUS: DL active and PHY link up
    index,      \* EXT_CFG_INDEX
    holder,     \* the task holding the library semaphore
    moved,      \* history: the tasks whose call in progress has seen the link change
    aborted,    \* the CPU has taken an abort
    task        \* task[t]: t's call, the access it is in and the value read

vars == <<regs, link, index, holder, moved, aborted, task>>

Idle == [pc |-> "idle", sel |-> FALSE, call |-> NoCall, val |-> {}]

Init ==
    /\ regs = [f \in Fn |-> Reset]
    /\ link \in BOOLEAN
    /\ index = NoFn
    /\ holder = NoTask
    /\ moved = {} /\ aborted = FALSE
    /\ task = [t \in Task |-> Idle]

-----------------------------------------------------------------------------
\* Mutants of Takes.
TakesNotMaster(c) == c.kind \in Locked \ {"set_master"}
TakesNotRead(c)   == c.kind \in Locked \ {"read"}
TakesNotDetach(c) == c.kind \in Locked \ {"detach"}

\* The calls that take the semaphore.
Takes(c) == c.kind \in Locked

Enter(t, c) ==
    /\ ~aborted /\ task[t].pc = "idle"
    /\ IF Takes(c) THEN holder = NoTask /\ holder' = t ELSE UNCHANGED holder
    /\ task' = [task EXCEPT ![t] =
                   [pc |-> CASE c.kind = "write" -> "write" [] c.kind = "area" -> "area"
                             [] OTHER -> "read",
                    sel |-> FALSE, call |-> c, val |-> {}]]
    /\ UNCHANGED <<regs, link, index, moved, aborted>>

\* After a read comes the write of a read-modify-write, if there is one.
AfterRead(c, v) == IF Writes(c, v) THEN "write" ELSE "leave"

\* After the write, SetMaster reads the register back.
AfterWrite(c) == IF c.kind = "set_master" THEN "back" ELSE "leave"

\* A completed access leaves task t with value v.
PcAfter(t, v) == CASE task[t].pc = "read" -> AfterRead(task[t].call, v)
                   [] task[t].pc = "write" -> AfterWrite(task[t].call)
                   [] OTHER -> "leave"
Done(t, v) == [task EXCEPT ![t].sel = FALSE, ![t].val = v, ![t].pc = PcAfter(t, v)]

\* The value an access leaves behind: what it read, or what it wrote.
Value(t, seen) == IF task[t].pc = "write" THEN New(task[t].call, task[t].val) ELSE seen

\* brcm_pcie_config_address: the link check and the index write.
Select(t) ==
    LET f == task[t].call.fn IN
      /\ ~aborted /\ task[t].pc \in {"read", "write", "back"} /\ ~task[t].sel
      /\ Reaches(link, f)
      /\ index' = IF f \in RootPort THEN index ELSE f
      /\ task' = [task EXCEPT ![t].sel = TRUE]
      /\ UNCHANGED <<regs, link, holder, moved, aborted>>

\* No link: a read answers all ones, a write is dropped, both report success.
Unreachable(t) ==
    LET c == task[t].call IN
      /\ ~aborted /\ task[t].pc \in {"read", "write", "back"} /\ ~task[t].sel
      /\ ~Reaches(link, c.fn)
      /\ task' = Done(t, Value(t, Bits[c.reg]))
      /\ UNCHANGED <<regs, link, index, holder, moved, aborted>>

\* The access itself goes to the function the window shows by now.
Target(f) == IF f \in RootPort THEN f ELSE index

Access(t) ==
    LET c == task[t].call
        f == Target(c.fn) IN
      /\ ~aborted /\ task[t].sel /\ Reaches(link, c.fn)
      /\ regs' = IF task[t].pc = "write"
                 THEN Stored(regs, f, c.reg, New(c, task[t].val)) ELSE regs
      /\ task' = Done(t, Value(t, regs[f][c.reg]))
      /\ UNCHANGED <<link, index, holder, moved, aborted>>

\* An access to the window without a link aborts the CPU.
Abort(t) ==
    /\ ~aborted /\ task[t].sel /\ ~Reaches(link, task[t].call.fn)
    /\ aborted' = TRUE
    /\ UNCHANGED <<regs, link, index, holder, moved, task>>

\* PRM_ConfigArea selects the function and hands the window to the caller.
SelectArea(t) ==
    LET f == task[t].call.fn IN
      /\ ~aborted /\ task[t].pc = "area"
      /\ index' = IF f \in RootPort THEN index ELSE f
      /\ task' = [task EXCEPT ![t].pc = "leave"]
      /\ UNCHANGED <<regs, link, holder, moved, aborted>>

Leave(t) ==
    /\ ~aborted /\ task[t].pc = "leave"
    /\ holder' = IF Takes(task[t].call) THEN NoTask ELSE holder
    /\ task' = [task EXCEPT ![t] = Idle]
    /\ moved' = moved \ {t}
    /\ UNCHANGED <<regs, link, index, aborted>>

LinkChange ==
    /\ LinkMoves /\ ~aborted
    /\ link' = ~link
    /\ regs' = Dropped(regs, link)
    /\ moved' = {t \in Task : task[t].pc # "idle"}
    /\ UNCHANGED <<index, holder, aborted, task>>

Step(t) == \/ Select(t) \/ Unreachable(t) \/ Access(t) \/ Abort(t)
           \/ SelectArea(t) \/ Leave(t)
Next == \/ \E t \in Task : Step(t) \/ \E c \in Call : Enter(t, c)
        \/ LinkChange

Spec == Init /\ [][Next]_vars

-----------------------------------------------------------------------------
(* Properties.                                                             *)

\* Types of all variables.
Pc == {"idle", "read", "write", "back", "area", "leave"}
TypeOK ==
    /\ regs \in [Fn -> [Reg -> Word]]
    /\ \A f \in Fn, r \in Reg : regs[f][r] \subseteq Bits[r]
    /\ link \in BOOLEAN
    /\ index \in Fn \cup {NoFn}
    /\ holder \in Task \cup {NoTask} /\ moved \subseteq Task /\ aborted \in BOOLEAN
    /\ task \in [Task -> [pc : Pc, sel : BOOLEAN, call : Call \cup {NoCall}, val : Word]]
    /\ \A t \in Task : task[t].val \subseteq Bits[task[t].call.reg]

\* pcie_private.h: the semaphore "protects all mutable state", the index among it:
\* a call that holds it accesses the registers of the function it names.
LockedOnTarget ==
    \A t \in Task : task[t].sel /\ Takes(task[t].call) => Target(task[t].call.fn) = task[t].call.fn

\* pci_int.c: pci_intx "enables/disables PCI INTx for device @pdev" and "acts on
\* @pdev alone": its accesses change no bit but INTX_DISABLE of that function, unless
\* the link changes between them.
IntxBit(f) == regs[f]["command"] \cap {"intx_disable"}
IntxStep(t) ==
    task[t].call.kind \in IntxKinds /\ t \notin moved /\ task'[t] # task[t] =>
       \A f \in Fn : /\ regs'[f]["command"] \ {"intx_disable"} = regs[f]["command"] \ {"intx_disable"}
                     /\ f # task[t].call.fn => regs'[f] = regs[f]
IntxKeepsOthers == [][\A t \in Task : IntxStep(t)]_vars

\* The refinement: a call takes effect when its last register access that matters
\* completes - the read of one that does not write, else the write.
Effected(s) == s.pc \in {"back", "leave"}
Abs(s) == [pc   |-> IF s.pc = "idle" THEN "idle" ELSE IF Effected(s) THEN "answered" ELSE "asked",
           call |-> s.call,
           ans  |-> IF Effected(s) /\ s.call.kind \in {"read", "find"} THEN s.val ELSE {}]
AbsTask == [t \in Task |-> Abs(task[t])]
Atomic == INSTANCE ConfigSpace WITH task <- AbsTask
ImplementsConfigSpace == Atomic!Spec
=============================================================================
