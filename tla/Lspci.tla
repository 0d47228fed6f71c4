------------------------------- MODULE Lspci -------------------------------
(***************************************************************************)
(* pcie_list.c: lspci opens the library, walks the device list and prints  *)
(* what each function's configuration space says.  Modelled are its walks:  *)
(* over the boards, over the capabilities and over the entries of an        *)
(* Enhanced Allocation capability.  hw[f].ea is that capability: [num, at], *)
(* the entries it claims and what its dwords hold, as a header [es, on] or  *)
(* as an address [wide].  hw[f].ext is the list of extended capabilities.   *)
(***************************************************************************)
EXTENDS PcieBoards

CONSTANTS PCI_CAP_ID_MAX,  \* the highest capability id that is looked up
          EaFirst,         \* the first entry of a function's capability, in dwords
          EaSpan           \* the dwords a UBYTE offset reaches

ASSUME LspciAssumption ==
    /\ PCI_CAP_ID_MAX \in Nat /\ AllOnes \notin 1 .. PCI_CAP_ID_MAX
    /\ EaFirst \in Nat /\ EaSpan \in Nat \ {0}
    /\ \A t \in Topologies : \A f \in DOMAIN t :
          /\ Len(t[f].bars) \in Nat
          /\ t[f].ea.num \in Nat /\ \A i \in 0 .. EaSpan - 1 : t[f].ea.at[i].es \in Nat

\* main: the walk over the boards with an empty tag list.
Listing == VisitedBoards([tag \in {} |-> 0])

\* list_bars and print_device_machine: the size is complemented once more.
PrintedSize(f, n) == (Wrap - MemorySize(f, n)) % Wrap

\* The BAR registers with a line of their own.
PrintedBars(f) == {n \in 1 .. Len(hw[f].bars) : MemoryAddr(f, n) # 0 \/ PrintedSize(f, n) # 0}

\* probe_pci_device looks every id up, the standard ones and the extended ones.
DumpedCaps(f) == {<<id, FindCapability(hw[f].caps, id)>> : id \in 1 .. PCI_CAP_ID_MAX}
DumpedExt(f)  == {<<id, FindExtCapability(hw[f].ext, id)>> : id \in 1 .. PCI_CAP_ID_MAX}
Dumped(caps)  == {c \in caps : c[2] # 0}

\* pci_read_config_long((UBYTE)offset)
Dword(m, at) == m[at % EaSpan]

\* Mutant of EntryEnd: what is left of a longer entry is taken for the next one.
EntryEndShort(start, size, at) == at

\* An entry longer than what was read of it ends where its size says.
EntryEnd(start, size, at) == IF at - start < size THEN start + size ELSE at

\* dump_ea_entry: where the next entry starts.  The high halves are read as the low ones
\* say, also when the entry is too short for them.
EaNext(m, start) ==
    LET head == Dword(m, start)
        size == head.es + 1
        wide == Cardinality({i \in {1, 2} : Dword(m, start + i).wide})
    IN IF ~head.on THEN start + size ELSE EntryEnd(start, size, start + 3 + wide)

\* dump_ea_capability: where the entries are taken to be.
EaEntries(ea) ==
    LET at[i \in 0 .. ea.num] == IF i = 0 THEN EaFirst ELSE EaNext(ea.at, at[i - 1])
    IN [i \in 1 .. ea.num |-> at[i - 1]]

-----------------------------------------------------------------------------
\* The capabilities printed are the first ones of their id that a chain of links of the
\* permitted length leads to, whatever circles the hardware's list runs in.  Reading all
\* ones ends a walk of the standard list, but not one of the extended list.
CapabilitiesPrinted ==
    Ready => \A f \in Listable, id \in 1 .. PCI_CAP_ID_MAX, p \in Positions :
        /\ <<id, p>> \in Dumped(DumpedCaps(f)) <=>
              hw[f].caps.present /\ LeadsTo(hw[f].caps, hw[f].caps.first, id, p, {AllOnes})
        /\ <<id, p>> \in Dumped(DumpedExt(f)) <=>
              /\ hw[f].ext.at[FirstPos] # [id |-> 0, next |-> 0]
              /\ LeadsTo(hw[f].ext, FirstPos, id, p, {})

\* An entry of an Enhanced Allocation capability holds what its own dwords announce.
Holds(m, start) == Dword(m, start).on =>
    Dword(m, start).es >= 2 + Cardinality({i \in {1, 2} : Dword(m, start + i).wide})

\* lspci prints each function that was found once and ends.  Of its BARs it prints the
\* assigned ones, those without a 68k address (I/O, prefetchable) too; only a BAR of 4 GiB
\* or more that has none is left out, since its size is 0.  The entries of its Enhanced
\* Allocation are taken to be where the sizes of the ones before them say, as long as
\* none before them is too short for its contents; every step goes forward.
ListingComplete ==
    Ready =>
        /\ Len(Listing) = Cardinality(Listable)
        /\ UNION {{<<f, n>> : n \in PrintedBars(f)} : f \in ToSet(Listing)} =
               {<<x.fn, x.slot>> : x \in {y \in bar : y.slot <= Len(hw[y.fn].bars)
                                                    /\ (y.size # 0 \/ Virt(y) # 0)}}
        /\ \A f \in Listable :
               LET ea == hw[f].ea at == EaEntries(ea) IN
               \A i \in 1 .. ea.num - 1 :
                   /\ at[i] < at[i + 1]
                   /\ Holds(ea.at, at[i]) => at[i + 1] = at[i] + Dword(ea.at, at[i]).es + 1
=============================================================================
