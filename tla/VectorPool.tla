----------------------------- MODULE VectorPool -----------------------------
(***************************************************************************)
(* What the interrupt core promises about the root complex's demux slots,  *)
(* with everything about how it does it left out: a slot has at most one   *)
(* holder, a device holding nothing may be granted a set of slots nobody   *)
(* holds, and a device gives back all it holds at once.  In particular a   *)
(* slot never passes from one device to another without being free.        *)
(* PciIrq implements this specification (PciIrq!Pool).                     *)
(***************************************************************************)
CONSTANTS Dev,      \* the PCI functions
          Slot,     \* the demux slots of the root complex
          NoDev     \* "nobody"

VARIABLE owner      \* owner[s]: the device slot s is reserved for

HeldBy(d) == {s \in Slot : owner[s] = d}

Init == owner = [s \in Slot |-> NoDev]

\* pci_irq_vectors_alloc succeeded with a message-signalled type.
Grant(d) ==
    /\ HeldBy(d) = {}
    /\ \E S \in (SUBSET HeldBy(NoDev)) \ {{}} :
          owner' = [s \in Slot |-> IF s \in S THEN d ELSE owner[s]]

\* pci_irq_vectors_free released the slots.
Release(d) ==
    /\ HeldBy(d) # {}
    /\ owner' = [s \in Slot |-> IF owner[s] = d THEN NoDev ELSE owner[s]]

\* (A grant or a release always changes owner.)
Next == owner' # owner /\ \E d \in Dev : Grant(d) \/ Release(d)

Spec == Init /\ [][Next]_owner
=============================================================================
