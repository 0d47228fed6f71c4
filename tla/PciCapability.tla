--------------------------- MODULE PciCapability ---------------------------
(***************************************************************************)
(* The searches of pci_capability.c.  A list is [present, first, at]: does  *)
(* the function announce one, where it starts, and at[p] = [id, next], what *)
(* reading position p answers.  The hardware may answer anything: a list    *)
(* may run in a circle, and behind a link that is down every read answers   *)
(* all ones.  Positions count the smallest capability.                      *)
(***************************************************************************)
EXTENDS Naturals

CONSTANTS Positions,  \* the positions a capability can have
          FirstPos,   \* PCI_STD_HEADER_SIZEOF; PCI_CFG_SPACE_SIZE in the extended space
          AllOnes,    \* the id read where nothing answers
          Ttl         \* PCI_FIND_CAP_TTL: as many as there are positions

ASSUME CapabilityAssumption ==
    FirstPos \in Positions /\ Ttl \in Nat /\ \A p \in Positions : p \in Nat /\ 0 < FirstPos /\ FirstPos <= p

\* What the hardware answers to the reads: a link leads to a position, or below all of them.
ListOK(l) ==
    /\ l.present \in BOOLEAN /\ l.first \in Positions \cup {0}
    /\ \A p \in Positions : l.at[p].next \in Positions \cup {0}

\* Mutant of Spent: the last capability of a full list is never looked at.
SpentEarly(ttl) == ttl <= 1

\* while (ttl--)
Spent(ttl) == ttl = 0

\* pci_find_next_capability: the position of id on the list, or 0.
FindFrom(l, id) ==
    LET f[ttl \in 0 .. Ttl] == [pos \in Positions \cup {0} |->
            IF Spent(ttl) \/ pos < FirstPos \/ l.at[pos].id = AllOnes THEN 0
            ELSE IF l.at[pos].id = id THEN pos
            ELSE f[ttl - 1][l.at[pos].next]]
    IN f[Ttl][l.first]

\* pci_find_capability
FindCapability(l, id) == IF l.present THEN FindFrom(l, id) ELSE 0

\* pci_find_ext_capability: the list starts at FirstPos and is empty if that reads 0;
\* all ones are not recognised, they lead to the last position again and again.
FindExtCapability(l, id) ==
    LET f[ttl \in 0 .. Ttl] == [pos \in Positions \cup {0} |->
            IF Spent(ttl) \/ pos < FirstPos THEN 0
            ELSE IF l.at[pos].id = id THEN pos
            ELSE f[ttl - 1][l.at[pos].next]]
    IN IF l.at[FirstPos] = [id |-> 0, next |-> 0] THEN 0 ELSE f[Ttl][FirstPos]

\* What a search is for: p has the id, and from first the links lead to p past
\* capabilities that have another id, none that ends the walk.
LeadsTo(l, first, id, p, ends) ==
    \E n \in 1 .. Ttl : \E c \in [1 .. n -> Positions] :
        /\ c[1] = first /\ c[n] = p /\ l.at[p].id = id
        /\ \A i \in 1 .. n - 1 : l.at[c[i]].id \notin {id} \cup ends /\ l.at[c[i]].next = c[i + 1]
=============================================================================
