----------------------------- MODULE ConfigCalls -----------------------------
(***************************************************************************)
(* The configuration calls of the library: the register each one is about, *)
(* what it does to the value and whether it takes the library semaphore.   *)
(* A register is the set of its bits that are set; the registers and bits  *)
(* are those that more than one call shares.                               *)
(***************************************************************************)
EXTENDS FiniteSets

CONSTANTS Fn,       \* the PCI functions
          RootPort, \* the functions on bus 0, accessed without the index
          Task,     \* the tasks that call the library
          Kinds,    \* the kinds of calls they make
          NoFn      \* "no function"

Reg  == {"command", "msg_control", "devctl"}
Bits == [command |-> {"master", "intx_disable"}, msg_control |-> {"enable"},
         devctl |-> {"flr"}]
Bit  == UNION {Bits[r] : r \in Reg}
Word == SUBSET Bit
Reset == [r \in Reg |-> {}]

Locked   == {"read", "write", "set_master", "attach", "detach",
             "msi_enable", "msi_disable", "area"}
LockFree == {"find", "mask", "unmask", "flr"}

ASSUME CallsAssumption ==
    /\ RootPort \subseteq Fn
    /\ NoFn \notin Fn
    /\ Kinds \subseteq Locked \cup LockFree

RegOf(k) == CASE k \in {"msi_enable", "msi_disable"} -> "msg_control"
              [] k = "flr" -> "devctl"
              [] OTHER -> "command"

\* The calls: "read" and "write" are the ReadConfig and WriteConfig vectors.
Call == {c \in [kind : Kinds, fn : Fn, reg : Reg, val : Word] :
            /\ c.kind \in {"read", "write"} \/ c.reg = RegOf(c.kind)
            /\ c.kind = "write" \/ c.val = {}
            /\ c.val \subseteq Bits[c.reg]}
NoCall == [kind |-> "none", fn |-> NoFn, reg |-> "command", val |-> {}]

\* pci_intx has mask, detach and unmask, attach for callers.
IntxKinds == {"mask", "detach", "unmask", "attach"}

\* What the call makes of the value it read.
New(c, old) ==
    CASE c.kind = "write" -> c.val
      [] c.kind = "set_master" -> old \cup {"master"}
      [] c.kind \in {"mask", "detach"} -> old \cup {"intx_disable"}
      [] c.kind \in {"unmask", "attach"} -> old \ {"intx_disable"}
      [] c.kind = "msi_enable" -> old \cup {"enable"}
      [] c.kind = "msi_disable" -> old \ {"enable"}
      [] c.kind = "flr" -> old \cup {"flr"}
      [] OTHER -> old

\* pci_intx does not write a value that did not change.
Writes(c, old) == /\ c.kind \notin {"read", "find", "area"}
                  /\ c.kind \in IntxKinds => New(c, old) # old

\* What the caller is told; most calls return nothing of the register.
Answer(c, old) == IF c.kind \in {"read", "find"} THEN old ELSE {}

\* brcm_pcie_config_address finds an address for f.
Reaches(link, f) == f \in RootPort \/ link

\* The value a read of f returns.
Seen(regs, link, f, r) == IF Reaches(link, f) THEN regs[f][r] ELSE Bits[r]

\* A link that drops resets the functions behind it.
Dropped(regs, link) ==
    [f \in Fn |-> IF link /\ f \notin RootPort THEN Reset ELSE regs[f]]

\* A write reaches function f.  BCR_FLR resets the function.
Stored(regs, f, r, v) ==
    [regs EXCEPT ![f] = IF "flr" \in v THEN Reset ELSE [@ EXCEPT ![r] = v]]
=============================================================================
