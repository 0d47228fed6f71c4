----------------------------- MODULE MCPciAuto -----------------------------
(* The trees, BARs, capability lists, links and regions the PciAuto runs enumerate. *)
EXTENDS PciAuto

NoBar      == [kind |-> "none", size |-> 0, is64 |-> FALSE]
Io(n)      == [kind |-> "io", size |-> n, is64 |-> FALSE]
Mem(n)     == [kind |-> "mem", size |-> n, is64 |-> FALSE]
Mem64(n)   == [kind |-> "mem", size |-> n, is64 |-> TRUE]
Pref64(n)  == [kind |-> "prefetch", size |-> n, is64 |-> TRUE]

\* The BARs of an endpoint.  A 64-bit BAR of 8 GiB (size 0 on 32 bits) is followed by
\* its upper half, which alone answers like a BAR of the smallest size.
BarSets == {<<>>, <<Mem(4), NoBar, Mem64(1)>>, <<Io(1), Pref64(2), NoBar, Mem(1)>>,
            <<Io(2), Mem64(8), NoBar>>, <<Mem64(0), Mem(1)>>}
Roms    == {NoBar, Mem(2)}

\* Capability lists: position 1 is the first one, 255 is read where nothing answers.
MCPositions == 1 .. 2
Cap(i, n)   == [id |-> i, next |-> n]
List(a)     == [present |-> TRUE, first |-> 1, at |-> a]
NoList      == [present |-> FALSE, first |-> 0, at |-> [p \in MCPositions |-> Cap(255, 2)]]
NoExt       == List([p \in MCPositions |-> Cap(0, 0)])
Express     == List(<<Cap(5, 2), Cap(PCI_CAP_ID_EXP, 0)>>)
Lists       == {NoList} \cup
               {List(a) : a \in [MCPositions -> {Cap(i, n) : i \in {5, 255, PCI_CAP_ID_EXP}, n \in 0 .. 2}]}

\* Enhanced Allocation: entries that are off, 32 or 64 bits wide or both, padded, and too
\* short for what they announce.
Lead(e, o)  == [es |-> e, on |-> o, wide |-> FALSE]
Word(w)     == [es |-> 0, on |-> FALSE, wide |-> w]
Off(e)      == <<Lead(e, FALSE)>> \o [i \in 1 .. e |-> Word(FALSE)]
On(e, x, y) == LET body == <<Word(x), Word(y)>> \o [i \in 1 .. 6 |-> Word(FALSE)]
               IN <<Lead(e, TRUE)>> \o SubSeq(body, 1, e)
EaEntrySet  == {Off(0), Off(2), On(2, FALSE, FALSE), On(4, TRUE, TRUE), On(3, TRUE, FALSE),
                On(4, FALSE, FALSE), On(5, FALSE, TRUE), On(1, FALSE, FALSE), On(2, TRUE, TRUE)}
Ea(n, ws)   == [num |-> n, at |-> [i \in 0 .. 15 |-> IF i \in 1 .. Len(ws) THEN ws[i] ELSE Word(FALSE)]]
NoEa        == Ea(0, <<>>)
Eas         == {Ea(3, e \o d) : e \in EaEntrySet, d \in EaEntrySet}

\* What a polling loop reads: it ends at the first sample that is active.
Sample(t)   == [active |-> FALSE, training |-> t]
Samples     == LET s == UNION {[1 .. n -> {Sample(TRUE), Sample(FALSE)}] : n \in 1 .. 3}
               IN s \cup {Append(q, [active |-> TRUE, training |-> t]) : q \in s, t \in BOOLEAN}
Noisy       == <<Sample(FALSE), Sample(TRUE), Sample(FALSE), Sample(TRUE)>>
Quiet       == <<Sample(TRUE), Sample(FALSE), Sample(FALSE)>>
Port(a, s, x, y) == [able |-> a, stuck |-> s, full |-> x, slow |-> y]
GoodPort    == Port(TRUE, FALSE, Quiet, Quiet)

Function(b, df, m, c, t, bs, r, n) ==
    [bus |-> b, devfn |-> df, multi |-> m, vendor |-> 1 + (b % 2), device |-> df, class |-> c,
     type1 |-> t, bars |-> bs, rom |-> r, pin |-> n, caps |-> NoList, ext |-> NoExt,
     ea |-> NoEa, port |-> GoodPort]
\* Class codes: a PCI bridge 0x060400, an xHCI 0x0C0330, an OHCI 0x0C0310.
PciBridge == 394240
Xhci      == 787248
Ohci      == 787216

Bridge(b, df, bs)  == Function(b, df, FALSE, PciBridge, TRUE, bs, NoBar, 0)
Leaf(b, df, bs, r) == Function(b, df, TRUE, IF df = 0 THEN Xhci ELSE Ohci, FALSE, bs, r, 1 + (df % 8))

\* The Pi 4: a root port and one endpoint, of one or two functions.
Endpoint == {<<Bridge(Root, 0, <<>>), Function(1, 0, m, Xhci, FALSE, bs, r, 1),
               Leaf(1, 1, bt, NoBar)>> : m \in BOOLEAN, bs \in BarSets, bt \in BarSets, r \in Roms}

\* A bridge board: the secondary bus of the second bridge has an endpoint; so has the
\* bus of a third bridge, before or after it.
Chain == {<<Bridge(Root, 0, <<>>), Bridge(1, 0, <<>>), Bridge(2, d, <<>>),
            Leaf(2, 16, bs, r), Leaf(3, 0, bt, NoBar)>> :
                d \in {0, 24}, bs \in BarSets, bt \in BarSets, r \in Roms}

\* A switch: two downstream ports behind the upstream port, the second one possibly
\* with a header of another type.
Switch == {<<Bridge(Root, 0, <<>>), Bridge(1, 0, p), Bridge(2, 8, <<>>),
             Function(2, 16, FALSE, PciBridge, t, <<>>, NoBar, 0),
             Leaf(3, 0, bs, NoBar), Leaf(4, 0, bt, r)>> :
                p \in {<<>>, <<Mem(1)>>}, t \in BOOLEAN, bs \in BarSets, bt \in BarSets, r \in Roms}

\* A switch whose ports have no BARs.
MCSwitch == {t \in Switch : t[2].bars = <<>> /\ t[4].type1}

\* A root port with nothing behind it: any capability list, any course of link training.
Alone(c, p) == <<[Bridge(Root, 0, <<>>) EXCEPT !.caps = c, !.ext = [c EXCEPT !.present = TRUE], !.port = p]>>
Links == {Alone(c, Port(TRUE, TRUE, Noisy, Quiet)) : c \in Lists}
         \cup {Alone(Express, Port(a, s, x, Quiet)) : a \in BOOLEAN, s \in BOOLEAN, x \in Samples}
         \cup {Alone(Express, Port(TRUE, TRUE, Noisy, x)) : x \in Samples}
         \cup {<<[Alone(NoList, GoodPort)[1] EXCEPT !.ea = e]>> : e \in Eas}

MCTopologies == Endpoint \cup Chain \cup Switch \cup Links

\* The Pi 4 has a memory region that ends where the address space does.
PiRegions    == [mem |-> [start |-> 56, size |-> 8], prefetch |-> NoRegion, io |-> NoRegion]
MCPiOnly     == {PiRegions}
MCGranule    == [mem |-> 2, prefetch |-> 2, io |-> 1]

\* The proofs about allocation suppose this.
ASSUME BarsAreSound == SoundBars
=============================================================================
