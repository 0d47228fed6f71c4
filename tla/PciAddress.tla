----------------------------- MODULE PciAddress -----------------------------
(* PCI bus addresses: pci_addr_t counts to 2^32, which is Wrap units of the smallest BAR. *)
EXTENDS Integers

CONSTANT Wrap

ASSUME AddressAssumption == Wrap \in Nat

\* ((x - 1) | (size - 1)) + 1 on 32 bits, for a size that is a power of two or 0.
AlignUp(x, size) ==
    IF size = 0 THEN 0 ELSE ((((x - 1) % Wrap) \div size) * size + size) % Wrap
=============================================================================
