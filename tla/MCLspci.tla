------------------------------ MODULE MCLspci ------------------------------
(* The machines of the run of the whole stack, around the trees of MCPciAuto. *)
EXTENDS Lspci, MCPciAuto

All == Properties
Rec(s, b, c, n)  == [space |-> s, bus |-> b, cpu |-> c, size |-> n]
DmaRec(b, c, n)  == [bus |-> b, cpu |-> c, size |-> n]
Bank(f, l, u)    == [fast |-> f, lower |-> l, upper |-> u]
Entry(p, u, s, n) == [pin |-> p, usable |-> u, spi |-> s, number |-> n]
Machine(h, r, d, m, i, s) ==
    [has |-> h, ranges |-> r, dma |-> d, memory |-> m, intmap |-> i,
     mmio |-> [phys |-> 384, virt |-> 40, size |-> s], rev33 |-> TRUE, programs |-> {}]

FourPins == <<Entry(1, TRUE, TRUE, 143), Entry(2, TRUE, TRUE, 144),
              Entry(3, TRUE, TRUE, 145), Entry(4, TRUE, TRUE, 146)>>
Torn     == <<Entry(1, TRUE, TRUE, 143), Entry(2, TRUE, FALSE, 144), Entry(1, TRUE, TRUE, 147),
              Entry(3, FALSE, TRUE, 145), Entry(4, TRUE, TRUE, 146)>>

\* Chip RAM, Fast RAM below 2 GiB, in one or in five banks, and a Zorro board's above it.
Banks1 == <<Bank(FALSE, 0, 1), Bank(TRUE, 1, 6), Bank(TRUE, 33, 36)>>
Banks5 == <<Bank(TRUE, 0, 2), Bank(TRUE, 30, 34), Bank(TRUE, 2, 2), Bank(TRUE, 3, 4), Bank(TRUE, 4, 5),
            Bank(TRUE, 6, 7), Bank(TRUE, 8, 9)>>

\* The Pi 4: the firmware has the inbound window at 16 GiB, larger than it is used.
PiRange  == Rec("mem", 56, 384, 8)
Pi4(s)   == Machine(All, <<PiRange>>, <<DmaRec(256, 0, 48)>>, Banks1, FourPins, s)

\* Two programs run on it.
Shared   == [Pi4(8) EXCEPT !.programs = {"a", "b"}]

\* All kinds of ranges, and some that are not taken.
Mixed    == <<Rec("config", 0, 0, 4), Rec("io", 0, 500, 4), Rec("mem", 34, 380, 4), Rec("mem", 64, 700, 8),
              Rec("mem", 40, 384, 8), Rec("prefetch", 48, 392, 4), Rec("mem", 60, 700, 8),
              Rec("mem", 52, 710, 0), Rec("mem", 52, 720, 64)>>
Other    == Machine(All, Mixed, <<DmaRec(272, 0, 31)>>, Banks5, Torn, 16)

\* Ranges that start too low, an inbound window that does not start at 0.
LowBoard == Machine(All, <<Rec("mem", 1, 385, 7), Rec("prefetch", 8, 392, 4), Rec("io", 1, 500, 3)>>,
                    <<DmaRec(0, 4, 24)>>, Banks5, <<>>, 8)

\* What a bring-up does not survive.
Five     == [Pi4(8) EXCEPT !.ranges = [i \in 1 .. 5 |-> Rec("mem", 38 + 4 * i, 384 + 8 * i, 4)]]
Lacking  == {[Pi4(8) EXCEPT !.has = All \ {p}] : p \in All}
Bad      == Lacking \cup {Five, [Pi4(8) EXCEPT !.dma = <<>>], [Pi4(8) EXCEPT !.dma = <<DmaRec(0, 0, 0)>>],
                          [Pi4(8) EXCEPT !.dma = <<DmaRec(0, 32, 8)>>], [Pi4(8) EXCEPT !.rev33 = FALSE]}

MCBoards == {Pi4(4), Shared, Other, LowBoard} \cup Bad

\* The regions those select: the Pi 4 has one, of memory, that ends where the address space
\* does; Other has all three, none of them at the end; those of LowBoard start too low.
MachineRegions == {[p \in Pools |-> Selected(Outbounds(b), p)] : b \in MCBoards}

\* The proofs about translation suppose this.
ASSUME MapsAreSound == SoundMaps

\* Kept is SelectSeq.
ASSUME KeptSelects == \A b \in Boards : Kept(b.ranges, Accepted) = SelectSeq(b.ranges, Accepted)
=============================================================================
