-------------------------- MODULE PcieBoardsProofs --------------------------
(***************************************************************************)
(* Theorems about bring-up and reservations, for any machines and trees:   *)
(* that MSIs are quiet unless served, who holds a board, the routes,       *)
(* BARs and windows of PciAutoProofs and PciAllocProofs, which are there   *)
(* until the library is closed, and what the translations of addresses     *)
(* answer about them.                                                      *)
(***************************************************************************)
EXTENDS PcieBoards, PciAllocProofs

\* The stages a bring-up goes through, and what is there at each of them.
InReset  == {"reset", "dma", "regions", "windows", "masked"}
Linked   == {"inbound", "outbound", "tuned", "gic400"}
Up       == {"probed", "scan", "listed", "ready"}
Stages   == {"down", "ctrl", "parsed"} \cup InReset \cup Linked \cup Up

StageInv ==
    /\ stage \in Stages
    /\ demux <=> stage \in Up
    /\ gic400 <=> stage \in Up \cup {"gic400"}
    /\ pool <=> stage = "ready"
    /\ stage \notin {"listed", "ready"} => devList = <<>>
    /\ stage \in InReset => perst
    /\ stage \in Linked \cup {"masked"} => masked

\* The reservations given out are those of the list that is there.
HeldInv ==
    /\ board \in Boards
    /\ stage \in {"listed", "ready"} => DOMAIN owner = Listable
    /\ held # {} => stage = "ready"
    /\ held \subseteq [fn : DOMAIN owner, by : board.programs] /\ robbed \subseteq held
    /\ HoldersKept

-----------------------------------------------------------------------------
LEMMA StageInit == BoardsInit => StageInv
BY DEF BoardsInit, HwInit, ProbeInit, StageInv, Stages, InReset, Linked, Up

LEMMA ProbeStage == StageInv /\ Probe => StageInv'
<1> SUFFICES ASSUME StageInv, Probe PROVE StageInv'
  OBVIOUS
<1> USE DEF StageInv, Stages, InReset, Linked, Up, Step, ctrlVars, rcVars
<1>0. ProbeNext /\ UNCHANGED <<devList, pool>>
  BY DEF Probe
<1>1. CASE DevtreeParse
  BY <1>0, <1>1 DEF DevtreeParse
<1>2. CASE ResetBridge
  BY <1>0, <1>2 DEF ResetBridge
<1>3. CASE FindDmaWindow
  BY <1>0, <1>3 DEF FindDmaWindow
<1>4. CASE DevtreeRegions
  BY <1>0, <1>4 DEF DevtreeRegions
<1>5. CASE Inbound
  BY <1>0, <1>5 DEF Inbound
<1>11. CASE MaskAll
  BY <1>0, <1>11 DEF MaskAll
<1>12. CASE ReleasePerst
  BY <1>0, <1>12 DEF ReleasePerst
<1>6. CASE LinkUp
  BY <1>0, <1>6 DEF LinkUp
<1>7. CASE SetOutboundWin
  BY <1>0, <1>7 DEF SetOutboundWin
<1>8. CASE Finetune
  BY <1>0, <1>8 DEF Finetune
<1>9. CASE OpenGic400
  BY <1>0, <1>9 DEF OpenGic400
<1>10. CASE DemuxEnable
  BY <1>0, <1>10 DEF DemuxEnable
<1>13. QED
  BY <1>0, <1>1, <1>2, <1>3, <1>4, <1>5, <1>6, <1>7, <1>8, <1>9, <1>10, <1>11, <1>12 DEF ProbeNext

\* The steps around the probe.  A failing one and the last close undo everything.
LEMMA BoardsStage == StageInv /\ [BoardsNext]_boardVars => StageInv'
<1> SUFFICES ASSUME StageInv, [BoardsNext]_boardVars PROVE StageInv'
  OBVIOUS
<1>1. CASE Probe
  BY <1>1, ProbeStage
<1> USE DEF StageInv, Stages, InReset, Linked, Up, Step, ctrlVars, rcVars, probeVars, hwVars
<1>2. CASE ProbeError
  BY <1>2 DEF ProbeError, ProbeFails, ProbeStages
<1>3. CASE StartScan
  BY <1>3 DEF StartScan
<1>4. CASE Scan
  BY <1>4 DEF Scan
<1>5. CASE BuildDevList
  BY <1>5 DEF BuildDevList
<1>6. CASE CreatePool
  BY <1>6 DEF CreatePool
<1>7. CASE SetupFails
  BY <1>7 DEF SetupFails, Forget, RemoveController
<1>8. CASE Shutdown
  BY <1>8 DEF Shutdown, Forget, RemoveController
<1>9. CASE BringUp
  BY <1>9 DEF BringUp
<1>10. CASE Drive
  BY <1>10 DEF Drive
<1>11. CASE UNCHANGED hwVars
  BY <1>11
<1>12. QED
  BY <1>1, <1>2, <1>3, <1>4, <1>5, <1>6, <1>7, <1>8, <1>9, <1>10, <1>11
     DEF BoardsNext, LibOpenStep, MakeDevs, GiveUp, Reserve, ObtainCard, ReleaseCard, ClearOwner,
         CloseDown, boardVars

\* pcie_brcmstb.c, pcie_main.c: once the first bring-up has reset the bridge, MSIs are
\* masked, the link is in reset or a demultiplexer serves them - whatever fails at whatever
\* step, and however often the library is opened and closed, for any machine and tree.
THEOREM Quiet == BoardsSpec => QuietUnlessServed
<1>1. StageInv /\ [BoardsNext]_boardVars => [(NoneUnserved \/ stage' = "reset") => NoneUnserved']_hwVars
  <2> SUFFICES ASSUME StageInv, [BoardsNext]_boardVars, NoneUnserved \/ stage' = "reset", ~UNCHANGED hwVars
               PROVE  NoneUnserved'
    OBVIOUS
  <2>1. StageInv'
    BY BoardsStage
  <2>2. CASE stage' \in InReset \cup Linked \cup Up
    BY <2>1, <2>2 DEF StageInv, NoneUnserved
  <2>3. CASE stage' \in {"down", "ctrl", "parsed"}
    <3>1. NoneUnserved
      BY <2>3
    <3>2. SetupFails \/ Shutdown \/ UNCHANGED <<perst, masked, demux>>
      BY <2>3 DEF BoardsNext, LibOpenStep, MakeDevs, GiveUp, Reserve, ObtainCard, ReleaseCard, ClearOwner,
         CloseDown, boardVars, BringUp, Probe, ProbeError, ProbeFails, ProbeNext, DevtreeParse, ResetBridge,
         FindDmaWindow, DevtreeRegions, Inbound, MaskAll, ReleasePerst, LinkUp, SetOutboundWin, Finetune,
         OpenGic400, DemuxEnable, StartScan, Scan, BuildDevList, CreatePool, Drive, Step, StageInv,
         rcVars, probeVars, hwVars
    <3>3. CASE SetupFails \/ Shutdown
      BY <3>3 DEF SetupFails, Shutdown, RemoveController, NoneUnserved
    <3>4. CASE UNCHANGED <<perst, masked, demux>>
      BY <3>1, <3>4 DEF NoneUnserved
    <3>5. QED
      BY <3>2, <3>3, <3>4
  <2>4. QED
    BY <2>1, <2>2, <2>3 DEF StageInv, Stages
<1>2. QED
  BY <1>1, StageInit, BoardsStage, PTL DEF BoardsSpec, QuietUnlessServed

-----------------------------------------------------------------------------
LEMMA HeldInit == BoardsInit => HeldInv
BY DEF BoardsInit, HwInit, ProbeInit, HeldInv, HoldersKept

\* The machine is what it is.
LEMMA SameBoard == [BoardsNext]_boardVars => board' = board
<1> SUFFICES ASSUME [BoardsNext]_boardVars PROVE board' = board
  OBVIOUS
<1> USE DEF ctrlVars, rcVars, probeVars, hwVars
<1>1. CASE Probe
  BY <1>1 DEF Probe, ProbeNext, DevtreeParse, ResetBridge, FindDmaWindow, DevtreeRegions, Inbound,
              MaskAll, ReleasePerst, LinkUp, SetOutboundWin, Finetune, OpenGic400, DemuxEnable
<1>2. CASE ProbeError \/ StartScan \/ Scan \/ BuildDevList \/ CreatePool \/ SetupFails \/ Shutdown
           \/ BringUp \/ Drive \/ UNCHANGED hwVars
  BY <1>2 DEF ProbeError, ProbeFails, StartScan, Scan, BuildDevList, CreatePool, SetupFails,
              Shutdown, BringUp, Drive, RemoveController
<1>3. QED
  BY <1>1, <1>2 DEF BoardsNext, LibOpenStep, MakeDevs, GiveUp, Reserve, ObtainCard, ReleaseCard,
                    ClearOwner, CloseDown, boardVars

\* Nobody holds a board until the library is up, and until then no owner is known.
LEMMA SetupHeld == StageInv /\ HeldInv /\ (LibOpenStep \/ CloseDown \/ (BringUp /\ UNCHANGED <<owner, held, robbed>>))
                   => HeldInv'
<1> SUFFICES ASSUME StageInv, HeldInv, LibOpenStep \/ CloseDown \/ (BringUp /\ UNCHANGED <<owner, held, robbed>>)
             PROVE  HeldInv'
  OBVIOUS
<1>1. held = {} /\ held' = {} /\ robbed' = {}
  <2>1. CASE CloseDown
    BY <2>1 DEF CloseDown, HeldInv
  <2>2. CASE ~CloseDown
    <3>1. stage # "ready"
      BY <2>2 DEF LibOpenStep, MakeDevs, GiveUp, Probe, ProbeNext, ProbeError, ProbeFails, ProbeStages,
                  StartScan, Scan, BuildDevList, CreatePool, SetupFails, BringUp, Step, DevtreeParse,
                  ResetBridge, FindDmaWindow, DevtreeRegions, Inbound, MaskAll, ReleasePerst,
                  LinkUp, SetOutboundWin, Finetune, OpenGic400, DemuxEnable
    <3>2. held' = held /\ robbed' = robbed
      BY <2>2 DEF LibOpenStep, MakeDevs, GiveUp
    <3>3. QED
      BY <3>1, <3>2 DEF HeldInv
  <2>3. QED
    BY <2>1, <2>2
<1>2. board' \in Boards
  BY SameBoard DEF HeldInv, BoardsNext
<1>3. stage' \in {"listed", "ready"} => DOMAIN owner' = Listable'
  <2>1. CASE MakeDevs
    BY <2>1 DEF MakeDevs, Listable
  <2>2. CASE CreatePool /\ UNCHANGED <<owner, held, robbed>>
    BY <2>2 DEF CreatePool, Step, Listable, HeldInv
  <2>3. CASE CloseDown \/ GiveUp
    BY <2>3 DEF CloseDown, GiveUp, SetupFails, Shutdown, Step
  <2>4. CASE BringUp \/ Probe \/ ProbeError \/ StartScan \/ Scan
    BY <2>4 DEF Probe, ProbeNext, ProbeError, ProbeFails, ProbeStages, StartScan, Scan, BringUp, Step,
                DevtreeParse, ResetBridge, FindDmaWindow, DevtreeRegions, Inbound, MaskAll, ReleasePerst,
                LinkUp, SetOutboundWin, Finetune, OpenGic400, DemuxEnable, probeVars
  <2>5. QED
    BY <2>1, <2>2, <2>3, <2>4 DEF LibOpenStep
<1>4. \A f \in DOMAIN owner' : owner'[f] = Nobody
  <2>1. \A f \in DOMAIN owner : owner[f] = Nobody
    BY <1>1 DEF HeldInv, HoldersKept
  <2>2. owner' = owner \/ owner' = <<>> \/ owner' = [f \in ToSet(devList') |-> Nobody]
    BY DEF LibOpenStep, MakeDevs, GiveUp, CloseDown
  <2>3. QED
    BY <2>1, <2>2
<1>5. QED
  BY <1>1, <1>2, <1>3, <1>4 DEF HeldInv, HoldersKept

\* One call of a program: the semaphore is held, the owner says whose the board is.
LEMMA ReserveHeld == StageInv /\ HeldInv /\ Reserve => HeldInv'
<1> SUFFICES ASSUME StageInv, HeldInv, NEW t \in board.programs, NEW f \in Listable,
                    ObtainCard(t, f) \/ ReleaseCard(t, f) \/ ClearOwner(t, f)
             PROVE  HeldInv'
  BY DEF Reserve
<1>1. UNCHANGED hwVars /\ stage = "ready"
  BY DEF ObtainCard, ReleaseCard, ClearOwner
<1>2. board' = board /\ stage' = stage /\ Listable' = Listable /\ stage' = "ready"
  BY <1>1 DEF hwVars, probeVars, Listable
<1>3. DOMAIN owner = Listable /\ t # Nobody
  BY <1>1, BoardsAssumption DEF HeldInv
<1>4. DOMAIN owner' = DOMAIN owner
  BY DEF ObtainCard, ReleaseCard, ClearOwner, Released
<1>5. held' \subseteq [fn : DOMAIN owner', by : board.programs] /\ robbed' \subseteq held'
  BY <1>2, <1>3, <1>4 DEF ObtainCard, ReleaseCard, ClearOwner, HeldInv
<1>6. ASSUME NEW h \in held' \ robbed' PROVE owner'[h.fn] = h.by
  <2>1. h \in held \ robbed =>
           h \in [fn : DOMAIN owner, by : board.programs] /\ owner[h.fn] = h.by /\ h.by # Nobody
    BY BoardsAssumption DEF HeldInv, HoldersKept
  <2>2. CASE ObtainCard(t, f)
    <3>1. /\ f \in DOMAIN owner /\ owner[f] = Nobody /\ owner' = [owner EXCEPT ![f] = t]
          /\ h \in held \ robbed \/ h = [fn |-> f, by |-> t]
      BY <1>3, <1>6, <2>2 DEF ObtainCard
    <3>2. CASE h \in held \ robbed
      BY <2>1, <3>1, <3>2
    <3>3. CASE h = [fn |-> f, by |-> t]
      BY <3>1, <3>3
    <3>4. QED
      BY <3>1, <3>2, <3>3
  <2>3. CASE ReleaseCard(t, f)
    <3>1. h \in held \ robbed /\ h # [fn |-> f, by |-> t] /\ owner' = Released(t, f)
      BY <1>6, <2>3 DEF ReleaseCard
    <3>2. h.fn = f => owner[f] # t
      BY <2>1, <3>1
    <3>3. QED
      BY <2>1, <3>1, <3>2 DEF Released
  <2>4. CASE ClearOwner(t, f)
    <3>1. h \in held \ robbed /\ h.fn # f /\ owner' = [owner EXCEPT ![f] = Nobody]
      BY <1>6, <2>4 DEF ClearOwner
    <3>2. QED
      BY <2>1, <3>1
  <2>5. QED
    BY <2>2, <2>3, <2>4
<1>7. ASSUME NEW g \in DOMAIN owner', owner'[g] # Nobody PROVE [fn |-> g, by |-> owner'[g]] \in held'
  <2>1. g \in DOMAIN owner /\ f \in DOMAIN owner
    BY <1>3, <1>4, <1>7
  <2>2. owner[g] # Nobody => [fn |-> g, by |-> owner[g]] \in held
    BY <2>1 DEF HeldInv, HoldersKept
  <2>3. CASE ObtainCard(t, f)
    <3>1. owner' = [owner EXCEPT ![f] = t] /\ held' = held \cup {[fn |-> f, by |-> t]}
      BY <2>3 DEF ObtainCard
    <3>2. QED
      BY <1>7, <2>1, <2>2, <3>1
  <2>4. CASE ReleaseCard(t, f)
    <3>1. owner' = Released(t, f) /\ held' = held \ {[fn |-> f, by |-> t]}
      BY <2>4 DEF ReleaseCard
    <3>2. owner'[g] = owner[g] /\ ~(g = f /\ owner[g] = t)
      BY <1>7, <2>1, <3>1 DEF Released
    <3>3. [fn |-> g, by |-> owner[g]] # [fn |-> f, by |-> t]
      <4>1. SUFFICES ASSUME [fn |-> g, by |-> owner[g]] = [fn |-> f, by |-> t] PROVE FALSE
        OBVIOUS
      <4>2. [fn |-> g, by |-> owner[g]].fn = f /\ [fn |-> g, by |-> owner[g]].by = t
        BY <4>1
      <4>3. QED
        BY <3>2, <4>2
    <3>4. QED
      BY <1>7, <2>2, <3>1, <3>2, <3>3
  <2>5. CASE ClearOwner(t, f)
    <3>1. owner' = [owner EXCEPT ![f] = Nobody] /\ held' = held \ {[fn |-> f, by |-> t]}
      BY <2>5 DEF ClearOwner
    <3>2. g # f /\ owner'[g] = owner[g]
      BY <1>7, <2>1, <3>1
    <3>3. QED
      BY <1>7, <2>2, <3>1, <3>2
  <2>6. QED
    BY <2>3, <2>4, <2>5
<1>8. QED
  BY <1>2, <1>3, <1>4, <1>5, <1>6, <1>7 DEF HeldInv, HoldersKept

LEMMA BoardsHeld == StageInv /\ HeldInv /\ [BoardsNext]_boardVars => HeldInv'
<1> SUFFICES ASSUME StageInv, HeldInv, [BoardsNext]_boardVars PROVE HeldInv'
  OBVIOUS
<1>1. CASE Reserve
  BY <1>1, ReserveHeld
<1>2. CASE LibOpenStep \/ CloseDown \/ (BringUp /\ UNCHANGED <<owner, held, robbed>>)
  BY <1>2, SetupHeld
<1>3. CASE UNCHANGED boardVars \/ (Drive /\ UNCHANGED <<owner, held, robbed>>)
  BY <1>3 DEF Drive, HeldInv, HoldersKept, Listable, boardVars, hwVars, probeVars
<1>4. QED
  BY <1>1, <1>2, <1>3 DEF BoardsNext

\* pcie_board.c: a program that was given a board stays its owner until it gives it back or
\* another program clears the owner by PRM_BoardOwner, for any number of programs and
\* boards, whoever calls LibReleaseCard on it or asks for it. And every board that has an
\* owner is one its owner can give back.
THEOREM HoldersKeep == BoardsSpec => []HoldersKept
<1>1. HeldInv => HoldersKept
  BY DEF HeldInv
<1>2. QED
  BY <1>1, StageInit, BoardsStage, HeldInit, BoardsHeld, PTL DEF BoardsSpec

-----------------------------------------------------------------------------
(* The bus numbers, from the scan until the library is closed.             *)

\* There is a tree whose bus numbers nest, or none.
TreeInv == RouteInv \/ (hw = <<>> /\ result # "running")

LEMMA BoardsTree == TreeInv /\ (Fresh' => RouteInv') /\ [BoardsNext]_boardVars => TreeInv'
<1> SUFFICES ASSUME TreeInv, Fresh' => RouteInv', [BoardsNext]_boardVars PROVE TreeInv'
  OBVIOUS
<1>1. CASE UNCHANGED vars
  <2>1. TreeInv' = TreeInv
    BY <1>1 DEF TreeInv, RouteInv, Numbers, OneRoute, Descent, Passing, OnStack, Numbered, Above,
                Bus, Bridges, Fn, FrameType, Top, vars, regVars
  <2>2. QED
    BY <2>1
<1>2. CASE StartScan
  <2>1. Fresh'
    BY <1>2 DEF StartScan, Fresh
  <2>2. QED
    BY <2>1 DEF TreeInv
<1>3. CASE Scan
  <2>1. Next /\ result = "running"
    BY <1>3 DEF Scan, Next, NextDevice, SkipBar, AssignBar, LeafDone, EnterBridge, LeaveBridge,
                Finish, CreateFails, BindFails, SetUp, SettingUp
  <2>2. QED
    BY <2>1, NextRoute DEF TreeInv
<1>4. CASE Forget
  BY <1>4 DEF Forget, TreeInv
<1>5. QED
  <2>1. CASE LibOpenStep
    BY <2>1, <1>1, <1>2, <1>3, <1>4 DEF LibOpenStep, Probe, ProbeError, MakeDevs, BuildDevList,
       CreatePool, GiveUp, SetupFails
  <2>2. CASE Reserve \/ UNCHANGED boardVars
    BY <2>2, <1>1 DEF Reserve, ObtainCard, ReleaseCard, ClearOwner, hwVars, boardVars
  <2>3. CASE CloseDown \/ ((BringUp \/ Drive) /\ UNCHANGED <<owner, held, robbed>>)
    BY <2>3, <1>1, <1>4 DEF CloseDown, Shutdown, BringUp, Drive
  <2>4. QED
    BY <2>1, <2>2, <2>3 DEF BoardsNext

\* pci_auto.c: from the first step of the scan until the library is closed the bus numbers
\* of the bridges nest, whatever the tree, and whatever fails in between: a configuration
\* cycle for a numbered bus has one route.
THEOREM RoutesStayUnique == BoardsSpec => []OneRoute
<1>1. TreeInv => OneRoute
  BY DEF TreeInv, RouteInv, OneRoute, Bridges, Fn
<1>2. BoardsInit => TreeInv
  BY DEF BoardsInit, HwInit, Idle, TreeInv
<1>3. QED
  BY <1>1, <1>2, FreshRoute, BoardsTree, PTL DEF BoardsSpec

-----------------------------------------------------------------------------
(* Sequences of entries that are kept, in their order.                     *)

\* Lowest1 is the least one.
LEMMA LeastNat ==
    ASSUME NEW H \in SUBSET Nat, H # {}
    PROVE  Lowest1(H) \in H /\ \A j \in H : Lowest1(H) <= j
BY HasLeast DEF Lowest1

\* What Entries has: every entry of s whose index is in I, and no other.
LEMMA EntriesOf ==
    ASSUME NEW s, NEW I \in SUBSET Nat, IsFiniteSet(I)
    PROVE  /\ Cardinality(I) \in Nat /\ DOMAIN Entries(s, I) = 1 .. Cardinality(I)
           /\ \A k \in 1 .. Cardinality(I) : \E i \in I : Entries(s, I)[k] = s[i] /\ Rank(I, i) = k
           /\ \A i \in I : Rank(I, i) \in 1 .. Cardinality(I) /\ Entries(s, I)[Rank(I, i)] = s[i]
<1> DEFINE n == Cardinality(I)  e == Entries(s, I)
<1>1. n \in Nat /\ DOMAIN e = 1 .. n
  BY FS_CardinalityType DEF Entries
<1>2. \A k \in 1 .. n : e[k] = s[CHOOSE i \in I : Rank(I, i) = k]
  BY DEF Entries, Rank
<1>3. \A k \in 1 .. n : \E i \in I : e[k] = s[i] /\ Rank(I, i) = k
  BY <1>2, Ranks
<1>4. ASSUME NEW i \in I PROVE Rank(I, i) \in 1 .. n /\ e[Rank(I, i)] = s[i]
  <2>1. Rank(I, i) \in 1 .. n
    BY Ranks
  <2>2. PICK j \in I : e[Rank(I, i)] = s[j] /\ Rank(I, j) = Rank(I, i)
    BY <1>3, <2>1
  <2>3. i = j
    <3> SUFFICES ASSUME i # j PROVE FALSE
      OBVIOUS
    <3>1. i < j \/ j < i
      OBVIOUS
    <3>2. Rank(I, i) < Rank(I, j) \/ Rank(I, j) < Rank(I, i)
      BY <3>1, Ranks
    <3>3. QED
      BY <2>1, <2>2, <3>2
  <2>4. QED
    BY <2>1, <2>2, <2>3
<1>5. QED
  BY <1>1, <1>3, <1>4

-----------------------------------------------------------------------------
(* The regions and the windows, from the probe to the close.               *)

\* The windows that are programmed when n of them are.
Programmed(n) == [i \in 1 .. n |-> OutboundWin(Windowed[i])]

\* What the steps of the probe leave, as long as the controller is up.
RegionInv ==
    /\ board \in Boards
    /\ stage \in {"dma", "regions", "windows", "masked"} \cup Linked \cup Up => DmaUsable /\ dma = DmaWindow(board.dma[1])
    /\ stage \in {"regions", "windows", "masked"} \cup Linked \cup Up => regions = Outbounds(board) \o RamRegions
    /\ stage \in {"windows", "masked"} \cup Linked \cup Up =>
          bar2 = [offset |-> (dma.bus - dma.phys) % Wrap, size |-> InboundSize(dma.size)]
    /\ stage = "outbound" => \E n \in 0 .. Len(Windowed) : win = Programmed(n)
    /\ stage \in {"tuned", "gic400"} \cup Up => win = Programmed(Len(Windowed))
    /\ stage \in {"scan", "listed", "ready"} => region = [p \in Pools |-> Selected(regions, p)]

\* They follow from the machine, the regions and the inbound window.
LEMMA KeptFrame ==
    ASSUME UNCHANGED <<board, regions, dma>>
    PROVE  /\ RamRegions' = RamRegions /\ Outbounds(board)' = Outbounds(board)
           /\ Windowed' = Windowed /\ DmaUsable' = DmaUsable
           /\ \A n : Programmed(n)' = Programmed(n)
           /\ \A p : Selected(regions, p)' = Selected(regions, p)
<1>1. RamRegions' = RamRegions
  BY DEF RamRegions, Kept, Entries, Reachable, Ram, Least
<1>2. Windowed' = Windowed
  BY DEF Windowed, Kept, Entries
<1>3. \A n : Programmed(n)' = Programmed(n)
  BY <1>2 DEF Programmed
<1>4. \A p : Selected(regions, p)' = Selected(regions, p)
  BY DEF Selected, Lowest1
<1>5. DmaUsable' = DmaUsable /\ Outbounds(board)' = Outbounds(board)
  BY DEF DmaUsable
<1>6. QED
  BY <1>1, <1>2, <1>3, <1>4, <1>5

\* The indices of a sequence are finitely many numbers.
LEMMA Indices ==
    ASSUME NEW S, NEW s \in Seq(S), NEW I \in SUBSET DOMAIN s
    PROVE  I \in SUBSET Nat /\ IsFiniteSet(I)
<1>1. Len(s) \in Nat /\ DOMAIN s = 1 .. Len(s)
  OBVIOUS
<1>2. IsFiniteSet(1 .. Len(s))
  BY <1>1, FS_Interval
<1>3. QED
  BY <1>1, <1>2, FS_Subset

\* The stages at which the regions are there, and what one is.
Live == {"regions", "windows", "masked"} \cup Linked \cup Up
RegionRecord == [kind : AnyRegion, bus : Nat, phys : Nat, size : Nat]

\* The regions are the ranges that are taken, in their order, and the RAM that is reached.
LEMMA OutboundsOf ==
    ASSUME NEW b \in Boards
    PROVE  /\ Len(Outbounds(b)) \in Nat /\ DOMAIN Outbounds(b) = 1 .. Len(Outbounds(b))
           /\ Outbounds(b) \in Seq(RegionRecord)
           /\ \A k \in DOMAIN Outbounds(b) : Outbounds(b)[k].kind # "ram"
           /\ \E at \in [DOMAIN Outbounds(b) -> DOMAIN b.ranges] :
                 /\ \A k \in DOMAIN Outbounds(b) : /\ Accepted(b.ranges[at[k]])
                                                   /\ Outbounds(b)[k] = Outbound(b.ranges[at[k]])
                 /\ \A k, l \in DOMAIN Outbounds(b) : at[k] = at[l] => k = l
<1> DEFINE s == b.ranges  I == {i \in DOMAIN s : Accepted(s[i])}  e == Entries(s, I)
           n == Cardinality(I)  o == Outbounds(b)
<1>1. BoardOK(b)
  BY ProbeAssumption
<1>2. I \in SUBSET Nat /\ IsFiniteSet(I)
  BY <1>1, Indices DEF BoardOK
<1>3. o = [i \in DOMAIN e |-> Outbound(e[i])]
  BY DEF Outbounds, Kept
<1>4. /\ n \in Nat /\ DOMAIN e = 1 .. n
      /\ \A k \in 1 .. n : \E i \in I : e[k] = s[i] /\ Rank(I, i) = k
  BY <1>2, EntriesOf
<1> HIDE DEF e, n, o
<1>5. DOMAIN o = 1 .. n /\ Len(o) = n /\ \A k \in 1 .. n : o[k] = Outbound(e[k])
  BY <1>3, <1>4
<1> DEFINE at == [k \in 1 .. n |-> CHOOSE i \in I : e[k] = s[i] /\ Rank(I, i) = k]
<1>6. \A k \in 1 .. n : at[k] \in I /\ e[k] = s[at[k]] /\ Rank(I, at[k]) = k
  BY <1>4
<1> HIDE DEF at
<1>7. at \in [1 .. n -> DOMAIN s]
  BY <1>6 DEF at
<1>8. \A k \in 1 .. n : Accepted(s[at[k]]) /\ o[k] = Outbound(s[at[k]])
  BY <1>5, <1>6
<1>9. \A k, l \in 1 .. n : at[k] = at[l] => k = l
  BY <1>6
<1>10. o \in Seq(RegionRecord) /\ \A k \in 1 .. n : o[k].kind # "ram"
  <2>1. ASSUME NEW k \in 1 .. n
        PROVE  o[k] \in RegionRecord /\ o[k].kind # "ram"
    <3>1. s \in Seq(RangeType)
      BY <1>1 DEF BoardOK
    <3>2. s[at[k]] \in RangeType
      BY <1>7, <3>1
    <3>3. o[k] = Outbound(s[at[k]]) /\ s[at[k]].space # "config"
      BY <1>8 DEF Accepted
    <3>4. QED
      BY <3>2, <3>3 DEF Outbound, RegionRecord, RangeType, AnyRegion
  <2>2. o = [k \in 1 .. n |-> o[k]]
    BY <1>3, <1>4, <1>5
  <2>3. QED
    BY <1>4, <2>1, <2>2
<1>11. QED
  BY <1>4, <1>5, <1>7, <1>8, <1>9, <1>10 DEF o

\* Where the inbound window is at the CPU's own addresses, so is the RAM behind it.
LEMMA RamsOf ==
    ASSUME board \in Boards, DmaUsable, dma = DmaWindow(board.dma[1])
    PROVE  /\ RamRegions \in Seq(RegionRecord)
           /\ \A k \in DOMAIN RamRegions : RamRegions[k].kind = "ram"
           /\ \A k \in DOMAIN RamRegions : \E i \in DOMAIN board.memory :
                 Reachable(board.memory[i]) /\ RamRegions[k] = Ram(board.memory[i])
           /\ dma.bus = dma.phys /\ dma.phys \in Nat /\ dma.size \in Nat /\ dma.phys + dma.size <= DmaEnd
           /\ 0 < dma.size /\ DmaEnd <= Wrap /\ DmaEnd \in Nat /\ dma.phys < DmaEnd
<1> DEFINE s == board.memory  I == {i \in DOMAIN s : Reachable(s[i])}  e == Entries(s, I)
           n == Cardinality(I)  m == Least(n, Banks)
<1>1. BoardOK(board) /\ Banks \in Nat /\ DmaEnd \in 0 .. Wrap
  BY ProbeAssumption, AddressAssumption DEF PowersOf2
<1>2. /\ dma.bus = dma.phys /\ dma.phys \in Nat /\ dma.size \in Nat /\ dma.phys + dma.size <= DmaEnd
      /\ 0 < dma.size /\ DmaEnd <= Wrap /\ DmaEnd \in Nat /\ dma.phys < DmaEnd
  <2>1. board.dma[1] \in Range3
    BY <1>1 DEF BoardOK, DmaUsable
  <2>2. QED
    BY <1>1, <2>1 DEF DmaUsable, DmaWindow, Range3, Least
<1>3. I \in SUBSET Nat /\ IsFiniteSet(I)
  BY <1>1, Indices DEF BoardOK
<1>4. /\ n \in Nat /\ DOMAIN e = 1 .. n /\ \A k \in 1 .. n : \E i \in I : e[k] = s[i]
  BY <1>3, EntriesOf
<1>5. RamRegions = [k \in 1 .. Least(Len(e), Banks) |-> Ram(e[k])] /\ e = [k \in 1 .. n |-> e[k]]
  BY <1>4 DEF RamRegions, Kept, Entries
<1> HIDE DEF e, n
<1>6. Len(e) = n
  BY <1>4, <1>5
<1>7. m \in 0 .. n /\ RamRegions = [k \in 1 .. m |-> Ram(e[k])]
  BY <1>1, <1>4, <1>5, <1>6 DEF Least
<1> HIDE DEF m
<1>8. ASSUME NEW k \in 1 .. m
      PROVE  /\ RamRegions[k] \in RegionRecord /\ RamRegions[k].kind = "ram"
             /\ \E i \in DOMAIN s : Reachable(s[i]) /\ RamRegions[k] = Ram(s[i])
  <2>1. k \in 1 .. n
    BY <1>4, <1>7
  <2>2. PICK i \in I : e[k] = s[i]
    BY <1>4, <2>1
  <2>3. s \in Seq(BankType)
    BY <1>1 DEF BoardOK
  <2>4. s[i] \in BankType
    BY <2>3
  <2>5. Reachable(s[i]) /\ RamRegions[k] = Ram(s[i])
    BY <1>7, <2>2
  <2>6. s[i].lower % Wrap \in Nat /\ s[i].upper - s[i].lower \in Nat
    BY <1>2, <2>4, <2>5, AddressAssumption DEF Reachable, BankType
  <2>7. QED
    BY <1>2, <2>4, <2>5, <2>6 DEF Ram, RegionRecord, BankType, AnyRegion
<1>9. RamRegions \in Seq(RegionRecord)
  BY <1>4, <1>7, <1>8
<1>10. QED
  BY <1>2, <1>7, <1>8, <1>9

\* What is known of the regions as long as they are there.
LEMMA RegionsOf ==
    ASSUME RegionInv, stage \in Live
    PROVE  LET o == Outbounds(board) IN
           /\ regions \in Seq(RegionRecord) /\ Len(o) \in 0 .. Len(regions)
           /\ \A k \in 1 .. Len(o) : regions[k] = o[k] /\ regions[k].kind # "ram"
           /\ \A k \in DOMAIN regions \ 1 .. Len(o) :
                 /\ regions[k].kind = "ram"
                 /\ \E i \in DOMAIN board.memory :
                       Reachable(board.memory[i]) /\ regions[k] = Ram(board.memory[i])
<1> DEFINE o == Outbounds(board)  n == Len(o)  q == RamRegions
<1>1. /\ regions = o \o q /\ board \in Boards /\ DmaUsable /\ dma = DmaWindow(board.dma[1])
  BY DEF RegionInv, Live
<1>2. /\ o \in Seq(RegionRecord) /\ \A k \in DOMAIN o : o[k].kind # "ram"
      /\ n \in Nat /\ DOMAIN o = 1 .. n
  BY <1>1, OutboundsOf
<1>3. /\ q \in Seq(RegionRecord)
      /\ \A k \in DOMAIN q :
            /\ q[k].kind = "ram"
            /\ \E i \in DOMAIN board.memory : Reachable(board.memory[i]) /\ q[k] = Ram(board.memory[i])
  BY <1>1, RamsOf
<1> HIDE DEF o, q
<1>4. regions \in Seq(RegionRecord) /\ Len(regions) = n + Len(q) /\ Len(q) \in Nat
  BY <1>1, <1>2, <1>3
<1>5. \A k \in 1 .. n : regions[k] = o[k] /\ o[k].kind # "ram"
  <2>1. \A k \in 1 .. n : (o \o q)[k] = o[k]
    BY <1>2, <1>3
  <2>2. QED
    BY <1>1, <1>2, <2>1
<1>6. ASSUME NEW k \in DOMAIN regions, k \notin 1 .. n
      PROVE  k - n \in DOMAIN q /\ regions[k] = q[k - n] /\ q[k - n].kind = "ram"
  BY <1>1, <1>2, <1>3, <1>4, <1>6
<1>7. QED
  BY <1>2, <1>3, <1>4, <1>5, <1>6 DEF o

\* The outbound windows are for the memory.
LEMMA WindowedOf ==
    ASSUME RegionInv, stage \in Live
    PROVE  LET I == {j \in DOMAIN regions : regions[j].kind = "mem"} IN
           /\ I \in SUBSET Nat /\ IsFiniteSet(I) /\ Windowed = Entries(regions, I)
           /\ Len(Windowed) \in Nat /\ Len(Windowed) = Cardinality(I)
<1> DEFINE I == {j \in DOMAIN regions : regions[j].kind = "mem"}
<1>1. I \in SUBSET Nat /\ IsFiniteSet(I)
  BY RegionsOf, Indices
<1>2. Windowed = Entries(regions, I)
  BY DEF Windowed, Kept
<1>3. Cardinality(I) \in Nat
  BY <1>1, EntriesOf
<1>4. Len(Entries(regions, I)) = Cardinality(I)
  BY <1>3 DEF Entries
<1>5. QED
  BY <1>1, <1>2, <1>3, <1>4

\* A window more is programmed, until there is one for every range of memory.
LEMMA ProbeRegion == ASSUME RegionInv, StageInv, Probe PROVE RegionInv'
<1> USE DEF StageInv, Stages, InReset, Linked, Up, Step, ctrlVars, rcVars
<1>1. ProbeNext /\ UNCHANGED <<vars, devList, pool>> /\ UNCHANGED region
  BY DEF Probe, vars
<1>2. CASE DevtreeParse
  BY <1>1, <1>2 DEF DevtreeParse, RegionInv
<1>3. CASE ResetBridge
  BY <1>1, <1>3 DEF ResetBridge, RegionInv
<1>4. CASE FindDmaWindow
  BY <1>1, <1>4 DEF FindDmaWindow, RegionInv, DmaUsable
<1>5. CASE DevtreeRegions
  <2>1. UNCHANGED <<board, dma>>
    BY <1>5 DEF DevtreeRegions
  <2>2. RamRegions' = RamRegions
    BY <2>1 DEF RamRegions, Kept, Entries, Reachable, Ram, Least
  <2>3. QED
    BY <1>1, <1>5, <2>2 DEF DevtreeRegions, RegionInv, DmaUsable
<1>6. ASSUME UNCHANGED <<board, regions, dma>>
      PROVE  /\ RamRegions' = RamRegions /\ Outbounds(board)' = Outbounds(board)
             /\ Windowed' = Windowed /\ DmaUsable' = DmaUsable
             /\ Programmed(Len(Windowed))' = Programmed(Len(Windowed))
             /\ \A n \in Nat : Programmed(n)' = Programmed(n)
  BY <1>6, KeptFrame DEF Programmed
<1>7. CASE Inbound
  <2>1. UNCHANGED <<board, regions, dma, win>>
    BY <1>7 DEF Inbound
  <2>2. QED
    BY <1>1, <1>6, <1>7, <2>1 DEF Inbound, RegionInv
<1>12. CASE MaskAll \/ ReleasePerst
  <2>1. UNCHANGED <<board, regions, dma, bar2, win>> /\ stage \in {"windows", "masked"}
        /\ stage' \in {"masked", "inbound"}
    BY <1>12 DEF MaskAll, ReleasePerst
  <2>2. QED
    BY <1>1, <1>6, <2>1 DEF RegionInv
<1>8. CASE LinkUp
  <2>1. UNCHANGED <<board, regions, dma, bar2>> /\ win' = <<>> /\ stage' = "outbound" /\ stage = "inbound"
    BY <1>8 DEF LinkUp
  <2>2. Programmed(0)' = <<>>
    BY DEF Programmed
  <2>3. Len(Windowed) \in Nat
    BY <2>1, WindowedOf DEF Live
  <2>4. QED
    BY <1>1, <1>6, <2>1, <2>2, <2>3 DEF RegionInv
<1>9. CASE SetOutboundWin
  <2>1. /\ UNCHANGED <<board, regions, dma, bar2, stage>> /\ stage = "outbound"
        /\ Len(win) < Len(Windowed) /\ win' = Append(win, OutboundWin(Windowed[Len(win) + 1]))
    BY <1>9, ProbeAssumption DEF SetOutboundWin, Least
  <2>2. PICK n \in 0 .. Len(Windowed) : win = Programmed(n)
    BY <2>1 DEF RegionInv
  <2>3. Len(Windowed) \in Nat
    BY <2>1, WindowedOf DEF Live
  <2>4. n \in Nat /\ Len(win) = n /\ win' = Programmed(n + 1) /\ n + 1 \in 0 .. Len(Windowed)
    BY <2>1, <2>2, <2>3 DEF Programmed
  <2>5. \E k \in 0 .. Len(Windowed)' : win' = Programmed(k)'
    BY <1>6, <2>1, <2>4
  <2>6. stage' = "outbound" /\ stage = "outbound" /\ dma' = dma /\ regions' = regions
    BY <2>1
  <2>7. QED
    BY <1>1, <1>6, <2>1, <2>5, <2>6 DEF RegionInv
<1>10. CASE Finetune
  <2>1. /\ UNCHANGED <<board, regions, dma, bar2, win>> /\ stage = "outbound" /\ stage' = "tuned"
        /\ Len(win) = Len(Windowed)
    BY <1>10 DEF Finetune
  <2>2. PICK n \in 0 .. Len(Windowed) : win = Programmed(n)
    BY <2>1 DEF RegionInv
  <2>3. Len(Windowed) \in Nat
    BY <2>1, WindowedOf DEF Live
  <2>4. n = Len(Windowed)
    BY <2>1, <2>2, <2>3 DEF Programmed
  <2>5. QED
    BY <1>1, <1>6, <2>1, <2>2, <2>4 DEF RegionInv
<1>11. CASE OpenGic400 \/ DemuxEnable
  <2>1. UNCHANGED <<board, regions, dma, bar2, win>> /\ stage \in {"tuned", "gic400"}
        /\ stage' \in {"gic400", "probed"}
    BY <1>11 DEF OpenGic400, DemuxEnable
  <2>2. QED
    BY <1>1, <1>6, <2>1 DEF RegionInv
<1>13. QED
  BY <1>1, <1>2, <1>3, <1>4, <1>5, <1>7, <1>8, <1>9, <1>10, <1>11, <1>12 DEF ProbeNext

\* Nothing is programmed before the first LibOpen.
LEMMA RegionInit == BoardsInit => RegionInv
BY DEF BoardsInit, HwInit, ProbeInit, RegionInv, InReset, Linked, Up

\* A failing step and the last close forget the regions; no other step outside the probe
\* touches them, and the scan starts from what is selected from them.
LEMMA BoardsRegion == ASSUME RegionInv, StageInv, [BoardsNext]_boardVars PROVE RegionInv'
<1>1. CASE Probe
  BY <1>1, ProbeRegion
<1> USE DEF StageInv, Stages, InReset, Linked, Up, Step, ctrlVars, rcVars, probeVars, hwVars
<1>2. CASE ProbeError
  BY <1>2 DEF ProbeError, ProbeFails, RegionInv
<1>3. CASE SetupFails \/ Shutdown
  BY <1>3 DEF SetupFails, Shutdown, RemoveController, RegionInv
<1>4. CASE UNCHANGED <<board, regions, dma, bar2, win>> /\ ~Probe /\ ~ProbeError
  <2>1. /\ RamRegions' = RamRegions /\ Outbounds(board)' = Outbounds(board)
        /\ Windowed' = Windowed /\ DmaUsable' = DmaUsable
        /\ \A n : Programmed(n)' = Programmed(n)
        /\ \A p : Selected(regions, p)' = Selected(regions, p)
    BY <1>4, KeptFrame
  <2>2. Programmed(Len(Windowed))' = Programmed(Len(Windowed))
    BY <2>1 DEF Programmed
  <2>3. CASE UNCHANGED <<stage, region>>
    BY <1>4, <2>1, <2>2, <2>3 DEF RegionInv
  <2>4. CASE BringUp
    BY <1>4, <2>4 DEF BringUp, RegionInv
  <2>5. CASE StartScan
    <3>1. stage = "probed" /\ stage' = "scan" /\ region' = [p \in Pools |-> Selected(regions, p)]
      BY <2>5 DEF StartScan
    <3>2. region' = [p \in Pools |-> Selected(regions, p)']
      BY <2>1, <3>1
    <3>3. QED
      BY <1>4, <2>1, <2>2, <3>1, <3>2 DEF RegionInv
  <2>6. CASE BuildDevList \/ CreatePool
    <3>1. stage \in {"scan", "listed"} /\ stage' \in {"listed", "ready"} /\ region' = region
      BY <2>6 DEF BuildDevList, CreatePool, vars, regVars
    <3>2. QED
      BY <1>4, <2>1, <2>2, <3>1 DEF RegionInv
  <2>7. CASE Scan
    <3>1. region' = region /\ stage' = stage
      BY <2>7 DEF Scan, Next, NextDevice, SkipBar, AssignBar, LeafDone, EnterBridge, LeaveBridge,
                  Finish, CreateFails, BindFails, SetUp, SettingUp, vars, regVars
    <3>2. QED
      BY <3>1, <2>3
  <2>8. CASE Drive \/ UNCHANGED hwVars
    <3>1. region' = region /\ stage' = stage
      BY <2>8 DEF Drive, vars, regVars
    <3>2. QED
      BY <3>1, <2>3
  <2>9. QED
    <3>1. Probe \/ ProbeError \/ SetupFails \/ Shutdown \/ BringUp \/ StartScan \/ BuildDevList
            \/ CreatePool \/ Scan \/ Drive \/ UNCHANGED hwVars
      BY DEF BoardsNext, LibOpenStep, MakeDevs, GiveUp, Reserve, ObtainCard, ReleaseCard, ClearOwner,
             CloseDown, boardVars
    <3>2. QED
      BY <1>3, <1>4, <2>4, <2>5, <2>6, <2>7, <2>8, <3>1
<1>5. QED
  <2>1. Probe \/ ProbeError \/ SetupFails \/ Shutdown \/ BringUp \/ StartScan \/ BuildDevList
          \/ CreatePool \/ Scan \/ Drive \/ UNCHANGED hwVars
    BY DEF BoardsNext, LibOpenStep, MakeDevs, GiveUp, Reserve, ObtainCard, ReleaseCard, ClearOwner,
           CloseDown, boardVars
  <2>2. StartScan \/ Scan \/ BuildDevList \/ CreatePool \/ BringUp \/ Drive \/ UNCHANGED hwVars
          => UNCHANGED <<board, regions, dma, bar2, win>>
    BY DEF StartScan, Scan, BuildDevList, CreatePool, BringUp, Drive
  <2>3. QED
    BY <1>1, <1>2, <1>3, <1>4, <2>1, <2>2

\* There is a largest region of a kind, if there is one.
LEMMA LargestRegion ==
    ASSUME RegionInv, stage \in Live, NEW p \in Pools
    PROVE  LET R == {i \in DOMAIN regions : regions[i].kind = p} IN
           R # {} => {i \in R : \A j \in R : regions[j].size <= regions[i].size} # {}
<1> DEFINE o == Outbounds(board)  R == {i \in DOMAIN regions : regions[i].kind = p}
           H == {Wrap - regions[i].size : i \in R}
<1>1. \A i \in R : regions[i].size \in Nat /\ regions[i].size < Wrap
  <2>1. PICK at \in [DOMAIN o -> DOMAIN board.ranges] :
           \A k \in DOMAIN o : Accepted(board.ranges[at[k]]) /\ o[k] = Outbound(board.ranges[at[k]])
    BY OutboundsOf DEF RegionInv
  <2>2. o \in Seq(RegionRecord) /\ DOMAIN o = 1 .. Len(o)
    BY OutboundsOf DEF RegionInv
  <2>3. \A i \in R : i \in 1 .. Len(o) /\ regions[i] = o[i]
    BY RegionsOf DEF Pools
  <2> HIDE DEF o, R
  <2>4. \A i \in DOMAIN o : o[i] \in RegionRecord
    BY <2>2
  <2>5. \A i \in DOMAIN o : o[i].size \in Nat /\ o[i].size < Wrap
    BY <2>1, <2>4 DEF Accepted, Outbound, RegionRecord
  <2>6. QED
    BY <2>2, <2>3, <2>5
<1> SUFFICES ASSUME R # {} PROVE \E i \in R : \A j \in R : regions[j].size <= regions[i].size
  OBVIOUS
<1> HIDE DEF R
<1>2. H \in SUBSET Nat /\ H # {}
  BY <1>1, AddressAssumption
<1>3. Lowest1(H) \in H /\ \A h \in H : Lowest1(H) <= h
  BY <1>2, LeastNat
<1>4. PICK i \in R : Lowest1(H) = Wrap - regions[i].size
  BY <1>3
<1>5. ASSUME NEW j \in R PROVE regions[j].size <= regions[i].size
  <2>1. Wrap - regions[i].size <= Wrap - regions[j].size
    BY <1>3, <1>4
  <2>2. QED
    BY <1>1, <2>1, AddressAssumption
<1>6. QED
  BY <1>5

\* What pciauto_config_init selects is a range of the device tree: RAM is not of its kinds.
LEMMA SelectedOutbound ==
    ASSUME RegionInv, stage \in Live, NEW p \in Pools
    PROVE  Selected(regions, p) = Selected(Outbounds(board), p)
<1> DEFINE o == Outbounds(board)
           R == {i \in DOMAIN regions : regions[i].kind = p}  O == {i \in DOMAIN o : o[i].kind = p}
           LR == {i \in R : \A j \in R : regions[j].size <= regions[i].size}
           LO == {i \in O : \A j \in O : o[j].size <= o[i].size}
<1>1. p # "ram"
  BY DEF Pools
<1>2. /\ DOMAIN regions = 1 .. Len(regions) /\ Len(regions) \in Nat
      /\ Len(o) \in 0 .. Len(regions)
      /\ \A k \in 1 .. Len(o) : regions[k] = o[k]
      /\ \A k \in DOMAIN regions \ 1 .. Len(o) : regions[k].kind = "ram"
  BY RegionsOf
<1>3. DOMAIN o = 1 .. Len(o)
  BY OutboundsOf DEF RegionInv
<1>4. R # {} => LR # {}
  BY LargestRegion
<1> HIDE DEF o
<1>5. R = O
  BY <1>1, <1>2, <1>3
<1>6. \A i \in O : regions[i] = o[i]
  BY <1>2, <1>3
<1>7. LR = LO
  BY <1>5, <1>6
<1>8. LR # {} => Lowest1(LR) \in LR
  <2>1. LR \in SUBSET Nat
    BY <1>2
  <2>2. QED
    BY <2>1, LeastNat
<1>9. CASE R = {}
  BY <1>5, <1>9 DEF Selected, o
<1>10. CASE R # {}
  <2>1. regions[Lowest1(LR)] = o[Lowest1(LO)]
    BY <1>4, <1>5, <1>6, <1>7, <1>8, <1>10
  <2>2. QED
    BY <2>1, <1>5, <1>10 DEF Selected, o
<1>11. QED
  BY <1>9, <1>10

\* Regions has what pciauto_config_init selects from the ranges of the machine.
RegionsGiven == stage \in {"scan", "listed", "ready"} => region \in Regions

LEMMA RegionGiven == RegionInv => RegionsGiven
<1> SUFFICES ASSUME RegionInv, stage \in {"scan", "listed", "ready"} PROVE region \in Regions
  BY DEF RegionsGiven
<1>1. stage \in Live /\ board \in Boards /\ region = [p \in Pools |-> Selected(regions, p)]
  BY DEF RegionInv, Live, Up
<1>2. region = [p \in Pools |-> Selected(Outbounds(board), p)]
  BY <1>1, SelectedOutbound
<1>3. QED
  BY <1>1, <1>2, RegionsAssumption

-----------------------------------------------------------------------------
(* The BARs and the windows, from the scan to the close.                   *)

\* There is a tree, which is allocated or being allocated, or none.
BarsInv == AutoInv \/ (hw = <<>> /\ bar = {} /\ result = "idle")

\* Auto-configuration starts as PciAuto says.
LEMMA ScanStarts == ASSUME RegionsGiven', StartScan PROVE Init'
<1>1. hw' \in Topologies /\ region' \in Regions
  BY DEF StartScan, RegionsGiven, Step
<1>2. /\ lower' = pciauto_region_init' /\ number' = [b \in Bus' |-> 0] /\ lastSub' = number'
      /\ last' = 0 /\ stack' = <<Frame(Root, 0)'>>
  BY DEF StartScan
<1>3. /\ sec' = [f \in Bridges' |-> 0] /\ sub' = sec' /\ base' = [p \in Pools |-> sec']
      /\ limit' = [p \in Pools |-> [f \in Bridges' |-> Granule[p] % Wrap]]
      /\ speed' = [f \in Fn' |-> "preferred"]
      /\ active' = {} /\ bar' = {} /\ result' = "running"
  BY DEF StartScan, Fn
<1>4. QED
  BY <1>1, <1>2, <1>3 DEF Init

LEMMA BoardsBars ==
    ASSUME BarsInv, RegionsGiven', (Init => AutoInv)', AutoInv /\ [Next]_vars => AutoInv',
           [BoardsNext]_boardVars
    PROVE  BarsInv'
<1>1. CASE UNCHANGED vars
  BY <1>1 DEF BarsInv, vars
<1>2. CASE StartScan
  <2>1. Init'
    BY <1>2, ScanStarts
  <2>2. QED
    BY <2>1 DEF BarsInv
<1>3. CASE Scan
  <2>1. Next /\ result = "running"
    BY <1>3 DEF Scan, Next, NextDevice, SkipBar, AssignBar, LeafDone, EnterBridge, LeaveBridge,
                Finish, CreateFails, BindFails, SetUp, SettingUp
  <2>2. QED
    BY <2>1 DEF BarsInv
<1>4. CASE Forget
  BY <1>4 DEF Forget, BarsInv
<1>5. QED
  <2>1. CASE LibOpenStep
    BY <2>1, <1>1, <1>2, <1>3, <1>4 DEF LibOpenStep, Probe, ProbeError, MakeDevs, BuildDevList,
       CreatePool, GiveUp, SetupFails
  <2>2. CASE Reserve \/ UNCHANGED boardVars
    BY <2>2, <1>1 DEF Reserve, ObtainCard, ReleaseCard, ClearOwner, hwVars, boardVars
  <2>3. CASE CloseDown \/ ((BringUp \/ Drive) /\ UNCHANGED <<owner, held, robbed>>)
    BY <2>3, <1>1, <1>4 DEF CloseDown, Shutdown, BringUp, Drive
  <2>4. QED
    BY <2>1, <2>2, <2>3 DEF BoardsNext

LEMMA BarsInvSafe == ASSUME SoundBars, BarsInv PROVE BarsInRegion /\ BarsSeparate /\ BarsReached
<1>1. CASE AutoInv
  BY <1>1, AutoSafe
<1>2. CASE bar = {} /\ result = "idle"
  BY <1>2 DEF BarsInRegion, BarsSeparate, BarsReached, Sized
<1>3. QED
  BY <1>1, <1>2 DEF BarsInv

-----------------------------------------------------------------------------
(* What a CPU address and a bus address mean.                              *)

USE AddressAssumption

\* Two indices of one region, or of none, name regions that do not overlap: what RegionInv
\* and SoundMap say about the regions of the machine.
MapInv ==
    /\ regions \in Seq(RegionRecord)
    /\ \A i \in DOMAIN regions \ Ram68k : regions[i].size > 0 /\ regions[i].bus + regions[i].size <= Wrap
    /\ \A i, j \in DOMAIN regions \ Ram68k : i # j =>
          /\ ~Overlap(regions[i].phys, regions[i].size, regions[j].phys, regions[j].size)
          /\ regions[i].kind # "io" /\ regions[j].kind # "io" =>
                ~Overlap(regions[i].bus, regions[i].size, regions[j].bus, regions[j].size)
    /\ \A i \in Ram68k :
          /\ regions[i].bus = regions[i].phys /\ regions[i].phys + regions[i].size <= DmaEnd
          /\ dma.phys <= regions[i].phys /\ regions[i].phys + regions[i].size <= dma.phys + dma.size
          /\ ~Overlap(regions[i].phys, regions[i].size, board.mmio.virt, board.mmio.size)
          /\ \A j \in DOMAIN regions \ Ram68k :
                ~Overlap(regions[i].phys, regions[i].size, regions[j].phys, regions[j].size)

\* It follows from what the probe leaves, for a machine in whose map nothing overlaps.
LEMMA MapOf == ASSUME SoundMaps, RegionInv, stage \in Live PROVE MapInv
<1> DEFINE o == Outbounds(board)
<1>1. /\ SoundMap(board) /\ board \in Boards /\ BoardOK(board)
      /\ DmaUsable /\ dma = DmaWindow(board.dma[1])
  BY ProbeAssumption DEF RegionInv, Live, SoundMaps
<1>2. /\ regions \in Seq(RegionRecord) /\ DOMAIN regions = 1 .. Len(regions)
      /\ Len(o) \in Nat
      /\ \A k \in 1 .. Len(o) : k \in DOMAIN regions /\ regions[k] = o[k] /\ regions[k].kind # "ram"
      /\ \A k \in DOMAIN regions \ 1 .. Len(o) :
            /\ regions[k].kind = "ram"
            /\ \E i \in DOMAIN board.memory :
                  Reachable(board.memory[i]) /\ regions[k] = Ram(board.memory[i])
  BY RegionsOf
<1>3. DOMAIN regions \ Ram68k = 1 .. Len(o)
  BY <1>2 DEF Ram68k
<1>4. PICK at \in [1 .. Len(o) -> DOMAIN board.ranges] :
         /\ \A k \in 1 .. Len(o) : Accepted(board.ranges[at[k]]) /\ o[k] = Outbound(board.ranges[at[k]])
         /\ \A k, l \in 1 .. Len(o) : at[k] = at[l] => k = l
  BY <1>1, OutboundsOf
<1> HIDE DEF o
<1>5. \A k \in 1 .. Len(o) : board.ranges[at[k]] \in RangeType
  <2>1. board.ranges \in Seq(RangeType)
    BY <1>1 DEF BoardOK
  <2>2. QED
    BY <1>4, <2>1
<1>6. \A i \in 1 .. Len(o) : regions[i].size > 0 /\ regions[i].bus + regions[i].size <= Wrap
  <2> SUFFICES ASSUME NEW i \in 1 .. Len(o)
               PROVE  regions[i].size > 0 /\ regions[i].bus + regions[i].size <= Wrap
    OBVIOUS
  <2>1. Accepted(board.ranges[at[i]]) /\ regions[i] = Outbound(board.ranges[at[i]])
    BY <1>2, <1>4
  <2>2. QED
    BY <1>5, <2>1 DEF Accepted, Outbound, RangeType
<1>7. ASSUME NEW i \in 1 .. Len(o), NEW j \in 1 .. Len(o), i # j
      PROVE  /\ ~Overlap(regions[i].phys, regions[i].size, regions[j].phys, regions[j].size)
             /\ regions[i].kind # "io" /\ regions[j].kind # "io" =>
                   ~Overlap(regions[i].bus, regions[i].size, regions[j].bus, regions[j].size)
  <2>1. /\ Accepted(board.ranges[at[i]]) /\ regions[i] = Outbound(board.ranges[at[i]])
        /\ Accepted(board.ranges[at[j]]) /\ regions[j] = Outbound(board.ranges[at[j]])
    BY <1>2, <1>4
  <2>2. at[i] # at[j] /\ at[i] \in DOMAIN board.ranges /\ at[j] \in DOMAIN board.ranges
    BY <1>4, <1>7
  <2>3. QED
    BY <1>1, <2>1, <2>2 DEF SoundMap, Outbound
<1>8. ASSUME NEW k \in Ram68k
      PROVE  /\ regions[k].bus = regions[k].phys /\ regions[k].phys + regions[k].size <= DmaEnd
             /\ dma.phys <= regions[k].phys /\ regions[k].phys + regions[k].size <= dma.phys + dma.size
             /\ ~Overlap(regions[k].phys, regions[k].size, board.mmio.virt, board.mmio.size)
             /\ \A j \in 1 .. Len(o) :
                   ~Overlap(regions[k].phys, regions[k].size, regions[j].phys, regions[j].size)
  <2>1. k \in DOMAIN regions \ 1 .. Len(o)
    BY <1>3 DEF Ram68k
  <2>2. PICK i \in DOMAIN board.memory : Reachable(board.memory[i]) /\ regions[k] = Ram(board.memory[i])
    BY <1>2, <2>1
  <2> DEFINE m == board.memory[i]
  <2>3. m \in BankType
    BY <1>1 DEF BoardOK
  <2>4. /\ dma.bus = dma.phys /\ dma.phys \in Nat /\ dma.size \in Nat /\ dma.phys + dma.size <= DmaEnd
        /\ DmaEnd <= Wrap /\ DmaEnd \in Nat
    BY <1>1, RamsOf
  <2>5. m.lower \in Nat /\ m.upper \in Nat
    BY <2>3 DEF BankType
  <2>6. /\ m.fast /\ m.lower < m.upper
         /\ dma.phys <= m.lower /\ m.upper <= dma.phys + dma.size
    BY <2>2 DEF Reachable
  <2> HIDE DEF m
  <2>7. m.lower < Wrap
    BY <2>4, <2>5, <2>6, AddressAssumption
  <2>8. /\ m.lower \in Nat /\ m.upper \in Nat /\ m.fast /\ m.lower < m.upper
        /\ dma.phys <= m.lower /\ m.upper <= dma.phys + dma.size /\ m.lower < Wrap
    BY <2>5, <2>6, <2>7
  <2>9. regions[k].bus = m.lower /\ regions[k].phys = m.lower /\ regions[k].size = m.upper - m.lower
    <3>1. (m.lower + (dma.bus - dma.phys)) % Wrap = m.lower
      <4>1. m.lower + (dma.bus - dma.phys) = m.lower
        BY <2>4, <2>8
      <4>2. m.lower % Wrap = m.lower
        <5>1. m.lower \in Int /\ -Wrap <= m.lower /\ m.lower < 2 * Wrap /\ Wrap > 0
          BY <2>4, <2>8, AddressAssumption
        <5>2. QED
          BY <2>8, <5>1, Wraps
      <4>3. QED
        BY <4>1, <4>2
    <3>2. QED
      BY <2>2, <3>1 DEF m, Ram
  <2>10. ~Overlap(m.lower, m.upper - m.lower, board.mmio.virt, board.mmio.size)
    BY <1>1, <2>8 DEF m, SoundMap
  <2>11. ASSUME NEW j \in 1 .. Len(o)
        PROVE  ~Overlap(m.lower, m.upper - m.lower, regions[j].phys, regions[j].size)
    <3>1. Accepted(board.ranges[at[j]]) /\ regions[j] = Outbound(board.ranges[at[j]])
      BY <1>2, <1>4
    <3>2. QED
      BY <1>1, <1>4, <2>8, <3>1 DEF m, SoundMap, Outbound
  <2>12. QED
    BY <2>4, <2>8, <2>9, <2>10, <2>11
<1>9. QED
  BY <1>2, <1>3, <1>6, <1>7, <1>8 DEF MapInv

\* Each BAR is in a range of its kind.
LEMMA BarHome ==
    ASSUME RegionInv, stage \in {"scan", "listed", "ready"}, AllocInv, NEW x \in bar, x.size # 0
    PROVE  \E q \in DOMAIN regions \ Ram68k :
              /\ regions[q].kind = x.pool /\ regions[q].bus <= x.addr
              /\ x.addr + x.size <= regions[q].bus + regions[q].size
              /\ x.addr \in Nat /\ x.size \in Nat /\ x.size > 0 /\ x.pool \in Pools
<1> DEFINE p == x.pool
           R == {i \in DOMAIN regions : regions[i].kind = p}
           L == {i \in R : \A j \in R : regions[j].size <= regions[i].size}
<1>1. /\ p \in Pools /\ x.addr \in Nat /\ x.size \in Nat /\ Present(p)
      /\ region[p].start <= x.addr /\ x.addr + x.size <= region[p].start + region[p].size
  BY DEF AllocInv, BarType, BarsInRegion
<1>2. region[p] = Selected(regions, p)
  BY <1>1 DEF RegionInv
<1>3. R # {}
  BY <1>1, <1>2 DEF Selected, NoRegion, Present
<1>4. L # {} => Lowest1(L) \in L
  <2>1. stage \in Live
    BY DEF Live, Up
  <2>2. DOMAIN regions = 1 .. Len(regions) /\ Len(regions) \in Nat
    BY <2>1, RegionsOf
  <2>3. L \in SUBSET Nat
    BY <2>2
  <2>4. QED
    BY <2>3, LeastNat
<1>5. region[p] = [start |-> regions[Lowest1(L)].bus, size |-> regions[Lowest1(L)].size]
  BY <1>2, <1>3 DEF Selected
<1>6. L # {}
  BY <1>1, <1>3, LargestRegion DEF Live, Up
<1>7. p # "ram"
  BY <1>1 DEF Pools
<1> HIDE DEF L
<1>8. PICK q \in L : q = Lowest1(L)
  BY <1>4, <1>6
<1>9. q \in DOMAIN regions \ Ram68k /\ regions[q].kind = p
  BY <1>7 DEF L, Ram68k
<1>10. QED
  BY <1>1, <1>5, <1>8, <1>9

\* The first index of a region that is hit.
LEMMA FirstHit ==
    ASSUME regions \in Seq(RegionRecord), NEW H \in SUBSET DOMAIN regions, H # {}
    PROVE  Lowest1(H) \in H
<1>1. DOMAIN regions = 1 .. Len(regions) /\ Len(regions) \in Nat
  OBVIOUS
<1>2. H \in SUBSET Nat
  BY <1>1
<1>3. QED
  BY <1>2, LeastNat

\* What MapInv says of a region and its fields.
LEMMA Fields ==
    ASSUME MapInv, NEW i \in DOMAIN regions
    PROVE  /\ regions[i].bus \in Nat /\ regions[i].phys \in Nat /\ regions[i].size \in Nat
           /\ regions[i].kind \in AnyRegion /\ (i \in Ram68k <=> regions[i].kind = "ram")
           /\ regions # <<>>
<1>1. regions[i] \in RegionRecord
  BY DEF MapInv
<1>2. QED
  BY <1>1 DEF RegionRecord, Ram68k

\* A CPU address in a region leads to the bus address it has there.
LEMMA PhysToBus ==
    ASSUME MapInv, DmaEnd \in Nat, DmaEnd <= Wrap, NEW a \in Nat, NEW kinds, NEW i \in DOMAIN regions,
           regions[i].kind \in kinds, regions[i].phys <= a, a < regions[i].phys + regions[i].size
    PROVE  pci_phys_to_bus(a, 1, kinds) = regions[i].bus + (a - regions[i].phys)
<1> DEFINE Hits(r) == /\ r.kind \in kinds /\ r.phys <= a /\ a - r.phys < r.size
                      /\ 1 <= r.size - (a - r.phys)
           H == {j \in DOMAIN regions : Hits(regions[j])}
           l == Lowest1(H)
<1>1. /\ regions[i].bus \in Nat /\ regions[i].phys \in Nat /\ regions[i].size \in Nat
      /\ regions # <<>>
  BY Fields
<1>2. i \in H
  BY <1>1
<1>3. l \in H
  BY <1>2, FirstHit DEF MapInv
<1>4. l \in DOMAIN regions /\ regions[l].phys <= a /\ a - regions[l].phys < regions[l].size
  BY <1>3
<1>5. pci_phys_to_bus(a, 1, kinds) = (regions[l].bus + (a - regions[l].phys)) % Wrap
  BY <1>1, <1>2 DEF pci_phys_to_bus
<1> HIDE DEF H, l
<1>6. regions[l].bus \in Nat /\ regions[l].phys \in Nat /\ regions[l].size \in Nat
  BY <1>4, Fields
<1>7. Overlap(regions[i].phys, regions[i].size, regions[l].phys, regions[l].size)
      /\ Overlap(regions[l].phys, regions[l].size, regions[i].phys, regions[i].size)
  BY <1>1, <1>4, <1>6 DEF Overlap
<1>8. regions[l].bus + (a - regions[l].phys) = regions[i].bus + (a - regions[i].phys)
  <2>1. CASE i \in Ram68k /\ l \in Ram68k
    BY <1>1, <1>6, <2>1 DEF MapInv
  <2>2. CASE i \notin Ram68k /\ l \notin Ram68k
    BY <1>4, <1>7, <2>2 DEF MapInv
  <2>3. CASE i \in Ram68k /\ l \notin Ram68k
    BY <1>4, <1>7, <2>3 DEF MapInv
  <2>4. CASE i \notin Ram68k /\ l \in Ram68k
    BY <1>7, <2>4 DEF MapInv
  <2>5. QED
    BY <2>1, <2>2, <2>3, <2>4
<1>9. regions[i].bus + (a - regions[i].phys) \in Nat /\ regions[i].bus + (a - regions[i].phys) < Wrap
  <2>1. regions[i].bus + regions[i].size <= Wrap
    <3>1. CASE i \in Ram68k
      BY <1>1, <3>1 DEF MapInv
    <3>2. CASE i \notin Ram68k
      BY <3>2 DEF MapInv
    <3>3. QED
      BY <3>1, <3>2
  <2>2. QED
    BY <1>1, <2>1
<1>10. (regions[i].bus + (a - regions[i].phys)) % Wrap = regions[i].bus + (a - regions[i].phys)
  <2> DEFINE x == regions[i].bus + (a - regions[i].phys)
  <2> HIDE DEF x
  <2>1. x \in Nat /\ x < Wrap
    BY <1>9 DEF x
  <2>2. x \in Int /\ -Wrap <= x /\ x < 2 * Wrap /\ Wrap > 0
    BY <2>1
  <2>3. x % Wrap = x
    BY <2>1, <2>2, Wraps
  <2>4. QED
    BY <2>3 DEF x
<1>11. QED
  BY <1>5, <1>8, <1>10

\* A bus address in RAM leads to itself, unless a range has it too.
LEMMA BusToPhysRam ==
    ASSUME MapInv, DmaEnd \in Nat, NEW a \in Nat, NEW i \in Ram68k,
           \A j \in DOMAIN regions \ Ram68k : DmaEnd <= regions[j].bus,
           regions[i].bus <= a, a < regions[i].bus + regions[i].size
    PROVE  pci_bus_to_phys(a, 1, AnyRegion) = a
<1> DEFINE Hits(r) == /\ r.kind \in AnyRegion /\ r.bus <= a /\ a - r.bus < r.size
                      /\ 1 <= r.size - (a - r.bus)
           H == {j \in DOMAIN regions : Hits(regions[j])}
           l == Lowest1(H)
<1>1. /\ i \in DOMAIN regions /\ regions[i].bus \in Nat /\ regions[i].size \in Nat
      /\ regions # <<>> /\ regions[i].kind \in AnyRegion
  BY Fields DEF Ram68k
<1>2. i \in H
  BY <1>1
<1>3. l \in H
  BY <1>2, FirstHit DEF MapInv
<1>4. l \in DOMAIN regions /\ regions[l].bus <= a
  BY <1>3
<1>5. pci_bus_to_phys(a, 1, AnyRegion) = regions[l].phys + (a - regions[l].bus)
  BY <1>1, <1>2 DEF pci_bus_to_phys
<1> HIDE DEF H, l
<1>6. regions[l].bus \in Nat /\ regions[l].phys \in Nat /\ regions[i].phys \in Nat
  BY <1>1, <1>4, Fields
<1>7. a < DmaEnd
  BY <1>1, <1>6 DEF MapInv
<1>8. l \in Ram68k
  BY <1>4, <1>6, <1>7
<1>9. QED
  BY <1>5, <1>6, <1>8 DEF MapInv

-----------------------------------------------------------------------------
(* The addresses of the 68k.                                               *)

\* Cutting to 32 bits leaves a number, which is no larger.
LEMMA Below ==
    ASSUME NEW x \in Nat, Wrap > 0
    PROVE  x % Wrap \in Nat /\ x % Wrap <= x /\ (x < Wrap => x % Wrap = x)
<1>1. Wrap \in Nat \ {0}
  OBVIOUS
<1>2. x \div Wrap \in Nat /\ x % Wrap \in 0 .. Wrap - 1 /\ x = (x \div Wrap) * Wrap + (x % Wrap)
  BY <1>1, Division
<1>3. (x \div Wrap) * Wrap \in Nat
  BY <1>1, <1>2, Multiple
<1>4. x % Wrap \in Nat /\ x % Wrap <= x
  BY <1>2, <1>3
<1>5. x < Wrap => x % Wrap = x
  BY Wraps
<1>6. QED
  BY <1>4, <1>5

\* Region q is the one BAR x is in.
Home(x, q) ==
    /\ q \in DOMAIN regions \ Ram68k /\ regions[q].kind = x.pool
    /\ regions[q].bus <= x.addr /\ x.addr + x.size <= regions[q].bus + regions[q].size

\* What the translations of a library that is up rely on.
TransInv ==
    /\ MapInv /\ board \in Boards /\ SoundMap(board)
    /\ DmaEnd \in Nat /\ DmaEnd <= Wrap /\ DmaEnd > 0
    /\ bar # {} => regions # <<>>
    /\ \A x \in bar : /\ x.addr \in Nat /\ x.size \in Nat /\ x.slot \in Nat /\ x.pool \in Pools
                      /\ x.size # 0 => \E q \in DOMAIN regions : Home(x, q)

\* The MMIO window is where the 68k has addresses.
LEMMA Mmio ==
    ASSUME TransInv
    PROVE  /\ board.mmio.virt \in Nat /\ board.mmio.phys \in Nat /\ board.mmio.size \in Nat
           /\ board.mmio.virt + board.mmio.size < Wrap
<1>1. BoardOK(board)
  BY ProbeAssumption DEF TransInv
<1>2. QED
  BY <1>1 DEF BoardOK, TransInv, SoundMap

\* The region through which a BAR has a 68k address.
Through(x, l) ==
    /\ l \in DOMAIN regions /\ regions[l].kind \in MemRegion
    /\ regions[l].bus <= x.addr /\ x.addr + Len1(x) <= regions[l].bus + regions[l].size
    /\ board.mmio.phys <= regions[l].phys + (x.addr - regions[l].bus)
    /\ regions[l].phys + (x.addr - regions[l].bus) + Len1(x) <= board.mmio.phys + board.mmio.size
    /\ Virt(x) = board.mmio.virt + ((regions[l].phys + (x.addr - regions[l].bus)) - board.mmio.phys)

\* A BAR with a 68k address lies in the MMIO window, and in a region that leads there.
LEMMA VirtOf ==
    ASSUME TransInv, NEW x \in bar, Virt(x) # 0
    PROVE  /\ x.pool # "io" /\ \E l \in DOMAIN regions : Through(x, l)
           /\ Len1(x) \in Nat /\ Len1(x) > 0 /\ x.size <= Len1(x)
           /\ Virt(x) \in Nat /\ board.mmio.virt <= Virt(x)
           /\ Virt(x) + Len1(x) <= board.mmio.virt + board.mmio.size
           /\ Virt(x) + x.size < Wrap /\ (Virt(x) + x.size) % Wrap = Virt(x) + x.size
<1> DEFINE n == Len1(x)
           Hits(r) == /\ r.kind \in MemRegion /\ r.bus <= x.addr /\ x.addr - r.bus < r.size
                      /\ n <= r.size - (x.addr - r.bus)
           H == {j \in DOMAIN regions : Hits(regions[j])}
           l == Lowest1(H)
           p == pci_bus_to_phys(x.addr, n, MemRegion)
<1>1. x.addr \in Nat /\ x.size \in Nat /\ regions # <<>>
  BY DEF TransInv
<1>2. n \in Nat /\ n > 0 /\ x.size <= n
  BY <1>1 DEF Len1
<1>3. x.pool # "io" /\ p # 0 /\ InMmio(p, n) /\ Virt(x) = board.mmio.virt + (p - board.mmio.phys)
  BY DEF Virt, pci_bus_to_virt
<1>4. H # {}
  BY <1>1, <1>3 DEF pci_bus_to_phys
<1>5. l \in H
  BY <1>4, FirstHit DEF TransInv, MapInv
<1>6. p = regions[l].phys + (x.addr - regions[l].bus)
  BY <1>1, <1>4 DEF pci_bus_to_phys
<1>7. /\ l \in DOMAIN regions /\ regions[l].kind \in MemRegion /\ regions[l].bus <= x.addr
      /\ n <= regions[l].size - (x.addr - regions[l].bus)
  BY <1>5
<1> HIDE DEF H, l, p, n
<1>8. regions[l].bus \in Nat /\ regions[l].phys \in Nat /\ regions[l].size \in Nat
  BY <1>7, Fields DEF TransInv
<1>9. p \in Nat /\ x.addr + n <= regions[l].bus + regions[l].size
  BY <1>1, <1>2, <1>6, <1>7, <1>8
<1>10. board.mmio.phys <= p /\ p + n <= board.mmio.phys + board.mmio.size
  BY <1>3 DEF InMmio
<1>11. Through(x, l)
  BY <1>3, <1>6, <1>7, <1>9, <1>10 DEF Through, n
<1>12. /\ Virt(x) \in Nat /\ board.mmio.virt <= Virt(x)
       /\ Virt(x) + n <= board.mmio.virt + board.mmio.size
       /\ Virt(x) + x.size < Wrap
  <2>1. /\ board.mmio.virt \in Nat /\ board.mmio.phys \in Nat /\ board.mmio.size \in Nat
        /\ board.mmio.virt + board.mmio.size < Wrap
    BY Mmio
  <2>2. Virt(x) = board.mmio.virt + (p - board.mmio.phys)
    BY <1>3
  <2> DEFINE v == Virt(x)
  <2>3. v \in Nat /\ board.mmio.virt <= v /\ v + n <= board.mmio.virt + board.mmio.size
    BY <1>2, <1>9, <1>10, <2>1, <2>2
  <2> HIDE DEF v
  <2>4. v + x.size < Wrap
    BY <1>1, <1>2, <2>1, <2>3
  <2>5. QED
    BY <2>3, <2>4 DEF v
<1>13. (Virt(x) + x.size) % Wrap = Virt(x) + x.size
  <2>1. Virt(x) + x.size \in Nat /\ Wrap > 0
    BY <1>1, <1>12
  <2>2. QED
    BY <1>12, <2>1, Below
<1>14. QED
  BY <1>2, <1>3, <1>7, <1>11, <1>12, <1>13 DEF n

\* A BAR that has a 68k address is behind the inbound window, on the bus.
LEMMA Above2G ==
    ASSUME TransInv, Apart, NEW x \in bar, x.pool # "io", x.size # 0
    PROVE  DmaEnd <= x.addr /\ x.addr \in Nat /\ x.size \in Nat /\ x.addr + x.size <= Wrap
<1>1. x.addr \in Nat /\ x.size \in Nat /\ x.pool \in {"mem", "prefetch"}
  BY DEF TransInv, Pools
<1>2. PICK q \in DOMAIN regions : Home(x, q)
  BY DEF TransInv
<1>3. regions[q].bus \in Nat /\ regions[q].size \in Nat
  BY <1>2, Fields DEF TransInv
<1>4. DmaEnd <= regions[q].bus /\ regions[q].bus + regions[q].size <= Wrap
  BY <1>1, <1>2 DEF Home, Apart, TransInv, MapInv
<1>5. QED
  BY <1>1, <1>2, <1>3, <1>4 DEF Home, TransInv

\* Registered RAM is below the end of the inbound window.
LEMMA Cell ==
    ASSUME TransInv, NEW i \in Ram68k, NEW a \in Cells(i)
    PROVE  /\ a \in Nat /\ a < DmaEnd /\ a < Wrap /\ i \in DOMAIN regions
           /\ regions[i].bus = regions[i].phys
           /\ regions[i].phys <= a /\ a < regions[i].phys + regions[i].size
<1>1. /\ regions[i].bus \in Nat /\ regions[i].phys \in Nat /\ regions[i].size \in Nat
      /\ i \in DOMAIN regions
  BY Fields DEF TransInv, Ram68k
<1>2. QED
  BY <1>1 DEF Cells, TransInv, MapInv

\* Fast RAM has its own address on the bus: no BAR is mapped where it is.
LEMMA LogicOfRam ==
    ASSUME TransInv, NEW f, NEW i \in Ram68k, NEW a \in Cells(i) \ {0}
    PROVE  LibLogicToPhysic(f, a) = a
<1> DEFINE H == {x \in Mapped(f) : Virt(x) <= a /\ a < (Virt(x) + x.size) % Wrap}
<1>1. /\ a \in Nat /\ a # 0 /\ i \in DOMAIN regions /\ regions[i].bus = regions[i].phys
      /\ regions[i].phys <= a /\ a < regions[i].phys + regions[i].size
  BY Cell
<1>2. /\ regions[i].bus \in Nat /\ regions[i].phys \in Nat /\ regions[i].size \in Nat
      /\ regions[i].kind \in AnyRegion
  BY <1>1, Fields DEF TransInv
<1>3. ASSUME NEW x \in H PROVE FALSE
  <2>1. x \in bar /\ Virt(x) # 0 /\ Virt(x) <= a /\ a < (Virt(x) + x.size) % Wrap
    BY <1>3 DEF Mapped, Cached
  <2>2. /\ Virt(x) \in Nat /\ board.mmio.virt <= Virt(x) /\ Len1(x) \in Nat /\ x.size <= Len1(x)
        /\ Virt(x) + Len1(x) <= board.mmio.virt + board.mmio.size
        /\ (Virt(x) + x.size) % Wrap = Virt(x) + x.size /\ x.size \in Nat
    BY <2>1, VirtOf DEF TransInv
  <2>3. board.mmio.virt <= a /\ a < board.mmio.virt + board.mmio.size
    BY <1>1, <2>1, <2>2, Mmio
  <2>4. Overlap(regions[i].phys, regions[i].size, board.mmio.virt, board.mmio.size)
    BY <1>1, <1>2, <2>3, Mmio DEF Overlap
  <2>5. QED
    BY <2>4 DEF TransInv, MapInv
<1>4. pci_phys_to_bus(a, 1, AnyRegion) = a
  <2>1. pci_phys_to_bus(a, 1, AnyRegion) = regions[i].bus + (a - regions[i].phys)
    BY <1>1, <1>2, PhysToBus DEF TransInv
  <2>2. QED
    BY <1>1, <1>2, <2>1
<1> HIDE DEF H
<1>5. H = {}
  BY <1>3
<1>6. QED
  BY <1>1, <1>4, <1>5 DEF LibLogicToPhysic, H

\* And its bus address is its own again, if no range is there.
LEMMA PhysicOfRam ==
    ASSUME TransInv, Apart, NEW f, NEW i \in Ram68k, NEW a \in Cells(i) \ {0},
           \A j \in DOMAIN regions : regions[j].kind = "io" => DmaEnd <= regions[j].bus
    PROVE  LibPhysicToLogic(f, a) = a
<1> DEFINE H == {x \in Mapped(f) : x.addr <= a /\ a < (x.addr + x.size) % Wrap}
<1>1. /\ a \in Nat /\ a # 0 /\ a < DmaEnd /\ a < Wrap /\ regions[i].bus = regions[i].phys
      /\ regions[i].phys <= a /\ a < regions[i].phys + regions[i].size
  BY Cell
<1>2. DmaEnd \in Nat /\ DmaEnd <= Wrap /\ Wrap > 0
  BY DEF TransInv
<1>3. ASSUME NEW x \in H PROVE FALSE
  <2>1. x \in bar /\ Virt(x) # 0 /\ x.addr <= a /\ a < (x.addr + x.size) % Wrap
    BY <1>3 DEF Mapped, Cached
  <2>2. x.addr \in Nat /\ x.size \in Nat /\ x.addr + x.size \in Nat /\ x.pool # "io"
    BY <2>1, VirtOf DEF TransInv
  <2>3. (x.addr + x.size) % Wrap \in Nat /\ (x.addr + x.size) % Wrap <= x.addr + x.size
    BY <1>2, <2>2, Below
  <2>4. x.size # 0
    BY <1>1, <2>1, <2>2, <2>3
  <2>5. DmaEnd <= x.addr
    BY <2>1, <2>2, <2>4, Above2G
  <2>6. QED
    BY <1>1, <1>2, <2>1, <2>2, <2>5
<1>4. \A j \in DOMAIN regions \ Ram68k : DmaEnd <= regions[j].bus
  BY Fields DEF Apart, AnyRegion, TransInv
<1>5. pci_bus_to_phys(a, 1, AnyRegion) = a
  BY <1>1, <1>2, <1>4, BusToPhysRam DEF TransInv
<1>6. a % Wrap = a
  BY <1>1, <1>2, Below
<1> HIDE DEF H
<1>7. H = {}
  BY <1>3
<1>8. QED
  BY <1>1, <1>5, <1>6, <1>7 DEF LibPhysicToLogic, H

\* It follows from what the probe and the scan leave.
LEMMA Trans ==
    ASSUME SoundMaps, RegionInv, stage = "ready", BarsInv
    PROVE  TransInv
<1>1. stage \in Live /\ stage \in {"scan", "listed", "ready"}
  BY DEF Live, Up
<1>2. MapInv /\ board \in Boards /\ SoundMap(board)
  BY <1>1, MapOf DEF RegionInv, SoundMaps
<1>3. DmaEnd \in Nat /\ DmaEnd <= Wrap /\ DmaEnd > 0
  <2>1. DmaUsable /\ dma = DmaWindow(board.dma[1]) /\ board \in Boards
    BY <1>1 DEF RegionInv, Live, Up
  <2>2. DmaEnd \in Nat /\ DmaEnd <= Wrap /\ dma.phys \in Nat /\ dma.phys < DmaEnd
    BY <2>1, RamsOf
  <2>3. QED
    BY <2>2
<1>4. ASSUME NEW x \in bar
      PROVE  /\ regions # <<>>
             /\ x.addr \in Nat /\ x.size \in Nat /\ x.slot \in Nat /\ x.pool \in Pools
             /\ x.size # 0 => \E q \in DOMAIN regions : Home(x, q)
  <2>1. AllocInv /\ SlotInv
    BY <1>4 DEF BarsInv, AutoInv
  <2>2. x.addr \in Nat /\ x.size \in Nat /\ x.slot \in Nat /\ x.pool \in Pools /\ Present(x.pool)
    BY <2>1 DEF AllocInv, BarType, SlotInv
  <2>3. regions # <<>>
    <3>1. region[x.pool] = Selected(regions, x.pool)
      BY <1>1, <2>2 DEF RegionInv
    <3>2. Selected(regions, x.pool) # NoRegion
      BY <3>1, <2>2 DEF Present, NoRegion
    <3>3. {i \in DOMAIN regions : regions[i].kind = x.pool} # {}
      BY <3>2 DEF Selected
    <3>4. QED
      BY <3>3
  <2>4. x.size # 0 => \E q \in DOMAIN regions : Home(x, q)
    BY <1>1, <2>1, BarHome DEF Home
  <2>5. QED
    BY <2>2, <2>3, <2>4
<1>5. QED
  BY <1>2, <1>3, <1>4 DEF TransInv

\* The inbound window covers what it is made for, and nothing behind DmaEnd.
LEMMA Inbounds ==
    ASSUME NEW n \in Nat, n <= DmaEnd
    PROVE  InboundSize(n) \in Nat /\ n <= InboundSize(n) /\ InboundSize(n) <= DmaEnd
<1> DEFINE H == {p \in PowersOf2 : n <= p}
<1>1. PowersOf2 \subseteq Nat
  BY DEF PowersOf2
<1>2. DmaEnd \in H
  BY ProbeAssumption
<1>3. H \in SUBSET Nat /\ H # {}
  BY <1>1, <1>2
<1>4. PICK p \in H : \A q \in H : p <= q
  BY <1>3, LeastNat
<1>5. InboundSize(n) \in PowersOf2 /\ n <= InboundSize(n) /\ \A q \in H : InboundSize(n) <= q
  BY <1>4 DEF InboundSize
<1>6. QED
  BY <1>1, <1>2, <1>5

\* The inbound window decodes from 0 on, and the BARs are behind it.
LEMMA DmaSafe == ASSUME SoundMaps, RegionInv, stage = "ready", BarsInv PROVE DmaReaches
<1> SUFFICES ASSUME Apart, dma.phys = 0, NEW f \in Fn, NEW i \in Ram68k, NEW a \in Cells(i) \ {0}
             PROVE  /\ LibLogicToPhysic(f, a) = a /\ Answering(a) = {}
                    /\ Decoded(a) /\ InboundCpu(a) = a
  BY DEF DmaReaches
<1>1. TransInv
  BY Trans
<1>2. LibLogicToPhysic(f, a) = a
  BY <1>1, LogicOfRam
<1>3. /\ a \in Nat /\ a < DmaEnd /\ i \in DOMAIN regions
      /\ regions[i].phys <= a /\ a < regions[i].phys + regions[i].size
  BY <1>1, Cell
<1>4. Answering(a) = {}
  <2> SUFFICES ASSUME NEW y \in Sized, y.pool # "io", y.addr <= a PROVE FALSE
    BY DEF Answering
  <2>1. DmaEnd <= y.addr /\ y.addr \in Nat
    BY <1>1, Above2G DEF Sized
  <2>2. QED
    BY <1>1, <1>3, <2>1 DEF TransInv
<1>5. bar2.offset = 0 /\ a < bar2.size /\ bar2.size \in Nat
  <2>1. /\ DmaUsable /\ dma = DmaWindow(board.dma[1]) /\ board \in Boards
        /\ bar2 = [offset |-> (dma.bus - dma.phys) % Wrap, size |-> InboundSize(dma.size)]
    BY DEF RegionInv, Up
  <2>2. /\ dma.bus = dma.phys /\ dma.size \in Nat /\ dma.phys + dma.size <= DmaEnd
        /\ DmaEnd \in Nat /\ DmaEnd <= Wrap
    BY <2>1, RamsOf
  <2>3. dma.size <= InboundSize(dma.size) /\ InboundSize(dma.size) \in Nat
    BY <2>2, Inbounds
  <2>4. 0 % Wrap = 0
    BY <1>1, Below DEF TransInv
  <2>5. dma.bus - dma.phys = 0
    BY <2>2
  <2>6. regions[i].phys + regions[i].size <= dma.phys + dma.size
    BY <1>1 DEF TransInv, MapInv
  <2>7. regions[i].phys \in Nat /\ regions[i].size \in Nat
    BY <1>1, <1>3, Fields DEF TransInv
  <2>8. a < dma.size
    BY <1>3, <2>2, <2>6, <2>7
  <2>9. a < InboundSize(dma.size)
    BY <1>3, <2>2, <2>3, <2>8
  <2>10. QED
    BY <2>1, <2>3, <2>4, <2>5, <2>9
<1>6. Decoded(a) /\ InboundCpu(a) = a
  BY <1>3, <1>5 DEF Decoded, InboundCpu
<1>7. QED
  BY <1>2, <1>4, <1>6

-----------------------------------------------------------------------------
(* Translating there and back.                                             *)

\* The first of some BARs, in the order of their registers.
LEMMA FirstOf ==
    ASSUME TransInv, NEW H \in SUBSET bar, H # {}
    PROVE  First(H) \in H
<1> DEFINE S == {x.slot : x \in H}
<1>1. S \in SUBSET Nat /\ S # {}
  BY DEF TransInv
<1>2. Lowest1(S) \in S /\ \A s \in S : Lowest1(S) <= s
  BY <1>1, LeastNat
<1>3. PICK x \in H : Lowest1(S) = x.slot
  BY <1>2
<1>4. \A y \in H : x.slot <= y.slot
  BY <1>2, <1>3
<1>5. QED
  BY <1>4 DEF First

\* The region a mapped BAR is in is the one through which it has its address.
LEMMA ThroughHome ==
    ASSUME TransInv, Apart, NEW x \in bar, Virt(x) # 0, x.size # 0
    PROVE  /\ \E l \in DOMAIN regions : Home(x, l) /\ Through(x, l)
           /\ Len1(x) = x.size /\ x.addr \in Nat /\ x.size \in Nat /\ x.size > 0
           /\ x.pool \in {"mem", "prefetch"} /\ DmaEnd <= x.addr /\ x.addr + x.size <= Wrap
<1>1. /\ x.addr \in Nat /\ x.size \in Nat /\ x.size > 0 /\ x.pool \in Pools /\ Len1(x) = x.size
  BY DEF TransInv, Len1
<1>2. x.pool \in {"mem", "prefetch"} /\ \E l \in DOMAIN regions : Through(x, l)
  BY <1>1, VirtOf DEF Pools
<1>3. DmaEnd <= x.addr /\ x.addr + x.size <= Wrap
  BY <1>2, Above2G
<1>4. PICK l \in DOMAIN regions : Through(x, l)
  BY <1>2
<1>5. PICK q \in DOMAIN regions : Home(x, q)
  BY DEF TransInv
<1>6. /\ regions[l].bus \in Nat /\ regions[l].size \in Nat /\ regions[q].bus \in Nat /\ regions[q].size \in Nat
      /\ regions[l].kind # "io" /\ regions[q].kind # "io" /\ q \notin Ram68k
      /\ regions[l].bus <= x.addr /\ x.addr + x.size <= regions[l].bus + regions[l].size
      /\ regions[q].bus <= x.addr /\ x.addr + x.size <= regions[q].bus + regions[q].size
  BY <1>1, <1>2, <1>4, <1>5, Fields DEF Through, Home, MemRegion, TransInv
<1>7. l \notin Ram68k
  <2> SUFFICES ASSUME l \in Ram68k PROVE FALSE
    OBVIOUS
  <2>1. regions[l].bus + regions[l].size <= DmaEnd /\ DmaEnd \in Nat
    BY DEF TransInv, MapInv
  <2>2. QED
    BY <1>1, <1>3, <1>6, <2>1
<1>8. Overlap(regions[l].bus, regions[l].size, regions[q].bus, regions[q].size)
  BY <1>1, <1>6 DEF Overlap
<1>9. l = q
  BY <1>4, <1>5, <1>6, <1>7, <1>8 DEF TransInv, MapInv
<1>10. QED
  BY <1>1, <1>2, <1>3, <1>4, <1>5, <1>9

\* Two BARs at one 68k address are at one bus address, whatever region leads there.
LEMMA Unshared ==
    ASSUME TransInv, NEW x \in bar, NEW y \in bar, Virt(x) # 0, Virt(y) # 0, NEW v \in Nat,
           Virt(x) <= v, v < Virt(x) + Len1(x), Virt(y) <= v, v < Virt(y) + Len1(y)
    PROVE  y.addr + (v - Virt(y)) = x.addr + (v - Virt(x))
<1>1. /\ x.addr \in Nat /\ y.addr \in Nat /\ Virt(x) \in Nat /\ Virt(y) \in Nat
      /\ Len1(x) \in Nat /\ Len1(y) \in Nat
  BY VirtOf DEF TransInv
<1>2. PICK l \in DOMAIN regions : Through(x, l)
  BY VirtOf
<1>3. PICK m \in DOMAIN regions : Through(y, m)
  BY VirtOf
<1>4. /\ regions[l].bus \in Nat /\ regions[l].phys \in Nat /\ regions[l].size \in Nat
      /\ regions[m].bus \in Nat /\ regions[m].phys \in Nat /\ regions[m].size \in Nat
      /\ board.mmio.virt \in Nat /\ board.mmio.phys \in Nat
  BY Fields, Mmio DEF TransInv
<1>5. /\ regions[l].bus <= x.addr /\ x.addr + Len1(x) <= regions[l].bus + regions[l].size
      /\ Virt(x) = board.mmio.virt + ((regions[l].phys + (x.addr - regions[l].bus)) - board.mmio.phys)
  BY <1>2 DEF Through
<1>6. /\ regions[m].bus <= y.addr /\ y.addr + Len1(y) <= regions[m].bus + regions[m].size
      /\ Virt(y) = board.mmio.virt + ((regions[m].phys + (y.addr - regions[m].bus)) - board.mmio.phys)
  BY <1>3 DEF Through
<1>7. Overlap(regions[l].phys, regions[l].size, regions[m].phys, regions[m].size)
      /\ Overlap(regions[m].phys, regions[m].size, regions[l].phys, regions[l].size)
  <2> DEFINE p == board.mmio.phys + (v - board.mmio.virt)
  <2>1. /\ regions[l].phys <= p /\ p < regions[l].phys + regions[l].size
        /\ regions[m].phys <= p /\ p < regions[m].phys + regions[m].size /\ p \in Int
    BY <1>1, <1>4, <1>5, <1>6
  <2> HIDE DEF p
  <2>2. QED
    BY <1>4, <2>1 DEF Overlap
<1>8. l = m \/ (regions[l].bus = regions[l].phys /\ regions[m].bus = regions[m].phys)
  <2>1. CASE l \in Ram68k /\ m \in Ram68k
    BY <2>1 DEF TransInv, MapInv
  <2>2. CASE l \notin Ram68k /\ m \notin Ram68k
    BY <1>7, <2>2 DEF TransInv, MapInv
  <2>3. CASE l \in Ram68k /\ m \notin Ram68k
    BY <1>7, <2>3 DEF TransInv, MapInv
  <2>4. CASE l \notin Ram68k /\ m \in Ram68k
    BY <1>7, <2>4 DEF TransInv, MapInv
  <2>5. QED
    BY <2>1, <2>2, <2>3, <2>4
<1>9. QED
  BY <1>1, <1>4, <1>5, <1>6, <1>8

\* And the other way round.
LEMMA Shift ==
    ASSUME TransInv, Apart, NEW x \in bar, NEW y \in bar, Virt(x) # 0, Virt(y) # 0,
           x.size # 0, y.size # 0, NEW k \in 0 .. x.size - 1,
           y.addr <= x.addr + k, x.addr + k < y.addr + y.size
    PROVE  Virt(y) + ((x.addr + k) - y.addr) = Virt(x) + k
<1>1. /\ x.addr \in Nat /\ x.size \in Nat /\ y.addr \in Nat /\ y.size \in Nat
      /\ x.pool # "io" /\ y.pool # "io"
      /\ Virt(x) \in Nat /\ Virt(y) \in Nat
  BY ThroughHome, VirtOf
<1>2. PICK l \in DOMAIN regions : Home(x, l) /\ Through(x, l)
  BY ThroughHome
<1>3. PICK m \in DOMAIN regions : Home(y, m) /\ Through(y, m)
  BY ThroughHome
<1>4. /\ regions[l].bus \in Nat /\ regions[l].phys \in Nat /\ regions[l].size \in Nat
      /\ regions[m].bus \in Nat /\ regions[m].phys \in Nat /\ regions[m].size \in Nat
      /\ board.mmio.virt \in Nat /\ board.mmio.phys \in Nat
  BY Fields, Mmio DEF TransInv
<1>5. /\ l \notin Ram68k /\ regions[l].kind # "io"
      /\ regions[l].bus <= x.addr /\ x.addr + x.size <= regions[l].bus + regions[l].size
      /\ Virt(x) = board.mmio.virt + ((regions[l].phys + (x.addr - regions[l].bus)) - board.mmio.phys)
  BY <1>1, <1>2 DEF Home, Through
<1>6. /\ m \notin Ram68k /\ regions[m].kind # "io"
      /\ regions[m].bus <= y.addr /\ y.addr + y.size <= regions[m].bus + regions[m].size
      /\ Virt(y) = board.mmio.virt + ((regions[m].phys + (y.addr - regions[m].bus)) - board.mmio.phys)
  BY <1>1, <1>3 DEF Home, Through
<1>7. Overlap(regions[l].bus, regions[l].size, regions[m].bus, regions[m].size)
  BY <1>1, <1>4, <1>5, <1>6 DEF Overlap
<1>8. l = m
  BY <1>2, <1>3, <1>5, <1>6, <1>7 DEF TransInv, MapInv
<1>9. QED
  BY <1>1, <1>4, <1>5, <1>6, <1>8

\* The LVOs that translate, in terms of the BAR the address is in.
LEMMA LogicOfBar ==
    ASSUME TransInv, NEW f, NEW x \in Mapped(f), NEW k \in 0 .. x.size - 1, x.addr + k < Wrap
    PROVE  LibLogicToPhysic(f, Virt(x) + k) = x.addr + k
<1> DEFINE v == Virt(x) + k
           H == {y \in Mapped(f) : Virt(y) <= v /\ v < (Virt(y) + y.size) % Wrap}
           y == First(H)
<1>1. x \in bar /\ Virt(x) # 0 /\ x.size \in Nat /\ x.size # 0 /\ k \in Nat /\ k < x.size
  BY DEF Mapped, Cached, TransInv
<1>2. /\ Virt(x) \in Nat /\ (Virt(x) + x.size) % Wrap = Virt(x) + x.size
  BY <1>1, VirtOf
<1>3. x \in H
  BY <1>1, <1>2
<1>4. H \in SUBSET bar
  BY DEF Mapped, Cached
<1>5. y \in H
  BY <1>3, <1>4, FirstOf
<1>6. LibLogicToPhysic(f, v) = (y.addr + (v - Virt(y))) % Wrap
  <2>1. v # 0
    BY <1>1, <1>2
  <2>2. QED
    BY <1>3, <2>1 DEF LibLogicToPhysic
<1>7. y \in bar /\ Virt(y) # 0 /\ Virt(y) <= v /\ v < (Virt(y) + y.size) % Wrap
  BY <1>5 DEF Mapped, Cached
<1> HIDE DEF H, y
<1>8. /\ y.size \in Nat /\ Virt(y) \in Nat /\ v < Virt(y) + y.size /\ y.size <= Len1(y)
      /\ Len1(y) \in Nat /\ x.addr \in Nat /\ Len1(x) = x.size
  BY <1>1, <1>7, VirtOf DEF TransInv, Len1
<1>9. y.addr + (v - Virt(y)) = x.addr + (v - Virt(x))
  <2>1. v \in Nat /\ Virt(x) <= v /\ v < Virt(x) + Len1(x) /\ v < Virt(y) + Len1(y)
    BY <1>1, <1>2, <1>8
  <2>2. QED
    BY <1>1, <1>7, <2>1, Unshared
<1>10. y.addr + (v - Virt(y)) = x.addr + k
  BY <1>1, <1>2, <1>8, <1>9
<1>11. (x.addr + k) % Wrap = x.addr + k
  <2>1. x.addr + k \in Nat /\ Wrap > 0
    BY <1>1, <1>8
  <2>2. QED
    BY <2>1, Below
<1>12. QED
  BY <1>6, <1>10, <1>11

LEMMA PhysicOfBar ==
    ASSUME TransInv, Apart, NEW f, NEW x \in Mapped(f), NEW k \in 0 .. x.size - 1, x.addr + x.size < Wrap
    PROVE  LibPhysicToLogic(f, x.addr + k) = Virt(x) + k
<1> DEFINE a == x.addr + k
           H == {y \in Mapped(f) : y.addr <= a /\ a < (y.addr + y.size) % Wrap}
           y == First(H)
<1>1. x \in bar /\ Virt(x) # 0 /\ x.size \in Nat /\ x.size # 0 /\ k \in Nat /\ k < x.size
  BY DEF Mapped, Cached, TransInv
<1>2. x.addr \in Nat /\ DmaEnd <= x.addr /\ DmaEnd \in Nat /\ DmaEnd > 0
  BY <1>1, ThroughHome DEF TransInv
<1>3. Virt(x) \in Nat /\ Virt(x) + x.size < Wrap
  BY <1>1, VirtOf
<1>4. x \in H
  <2>1. x.addr + x.size \in Nat /\ Wrap > 0
    BY <1>1, <1>2, <1>3
  <2>2. (x.addr + x.size) % Wrap = x.addr + x.size
    BY <2>1, Below
  <2>3. QED
    BY <1>1, <1>2, <2>2
<1>5. H \in SUBSET bar
  BY DEF Mapped, Cached
<1>6. y \in H
  BY <1>4, <1>5, FirstOf
<1>7. LibPhysicToLogic(f, a) = (Virt(y) + (a - y.addr)) % Wrap
  <2>1. a # 0
    BY <1>1, <1>2
  <2>2. QED
    BY <1>4, <2>1 DEF LibPhysicToLogic
<1>8. y \in bar /\ Virt(y) # 0 /\ y.addr <= a /\ a < (y.addr + y.size) % Wrap
  BY <1>6 DEF Mapped, Cached
<1> HIDE DEF H, y
<1>9. y.addr \in Nat /\ y.size \in Nat
  BY <1>8 DEF TransInv
<1>10. (y.addr + y.size) % Wrap \in Nat /\ (y.addr + y.size) % Wrap <= y.addr + y.size
  <2>1. y.addr + y.size \in Nat /\ Wrap > 0
    BY <1>1, <1>3, <1>9
  <2>2. QED
    BY <2>1, Below
<1>11. a < y.addr + y.size /\ y.size # 0
  BY <1>1, <1>2, <1>8, <1>9, <1>10
<1>12. Virt(y) + (a - y.addr) = Virt(x) + k
  BY <1>1, <1>8, <1>9, <1>11, Shift
<1>13. (Virt(x) + k) % Wrap = Virt(x) + k
  <2>1. Virt(x) + k \in Nat /\ Virt(x) + k < Wrap /\ Wrap > 0
    BY <1>1, <1>3
  <2>2. QED
    BY <2>1, Below
<1>14. QED
  BY <1>7, <1>12, <1>13

\* The MMIO window and the regions lead to the same address.
LEMMA BusOfBar ==
    ASSUME TransInv, Apart, NEW x \in bar, Virt(x) # 0, x.size # 0, NEW k \in 0 .. x.size - 1
    PROVE  pci_virt_to_bus(Virt(x) + k, 1, MemRegion) = x.addr + k
<1>1. x.addr \in Nat /\ x.size \in Nat /\ Len1(x) = x.size /\ k \in Nat /\ k < x.size
  BY ThroughHome
<1>2. PICK l \in DOMAIN regions : Home(x, l) /\ Through(x, l)
  BY ThroughHome
<1>3. /\ regions[l].bus \in Nat /\ regions[l].phys \in Nat /\ regions[l].size \in Nat
      /\ board.mmio.virt \in Nat /\ board.mmio.phys \in Nat /\ board.mmio.size \in Nat
  BY Fields, Mmio DEF TransInv
<1>4. /\ regions[l].kind \in MemRegion
      /\ regions[l].bus <= x.addr /\ x.addr + x.size <= regions[l].bus + regions[l].size
      /\ Virt(x) = board.mmio.virt + ((regions[l].phys + (x.addr - regions[l].bus)) - board.mmio.phys)
  BY <1>2 DEF Home, Through
<1>5. Virt(x) \in Nat /\ board.mmio.virt <= Virt(x) /\ Virt(x) + x.size <= board.mmio.virt + board.mmio.size
  BY <1>1, VirtOf
<1> DEFINE v == Virt(x)  a == regions[l].phys + ((x.addr - regions[l].bus) + k)
<1> HIDE DEF v
<1>6. board.mmio.virt <= v + k /\ v + k < board.mmio.virt + board.mmio.size
  BY <1>1, <1>3, <1>5 DEF v
<1>7. board.mmio.phys + ((v + k) - board.mmio.virt) = a
  BY <1>1, <1>3, <1>4 DEF v
<1>8. a \in Nat /\ regions[l].phys <= a /\ a < regions[l].phys + regions[l].size
  BY <1>1, <1>3, <1>4
<1> HIDE DEF a
<1>9. pci_phys_to_bus(a, 1, MemRegion) = regions[l].bus + (a - regions[l].phys)
  BY <1>4, <1>8, PhysToBus DEF TransInv
<1>10. regions[l].bus + (a - regions[l].phys) = x.addr + k
  BY <1>1, <1>3 DEF a
<1>11. pci_virt_to_bus(v + k, 1, MemRegion) = pci_phys_to_bus(a, 1, MemRegion)
  BY <1>6, <1>7 DEF pci_virt_to_bus
<1>12. QED
  BY <1>9, <1>10, <1>11 DEF v

\* A region is obtained inside a BAR only.
LEMMA ObtainedOf ==
    ASSUME TransInv, Apart, NEW f, NEW r \in Nat \ {0}, NEW n \in Nat \ {0}, r + n < Wrap,
           LibObtainPCIRegion(f, r, n) # 0
    PROVE  \E x \in Mapped(f) : /\ x.addr <= r /\ r + n <= x.addr + x.size
                                /\ LibObtainPCIRegion(f, r, n) = Virt(x) + (r - x.addr)
<1> DEFINE H == {x \in Mapped(f) : Covers(x, r, n)}  x == First(H)
<1>1. H # {} /\ LibObtainPCIRegion(f, r, n) = (Virt(x) + (r - x.addr)) % Wrap
  BY DEF LibObtainPCIRegion
<1>2. H \in SUBSET bar
  BY DEF Mapped, Cached
<1>3. x \in H
  BY <1>1, <1>2, FirstOf
<1>4. x \in Mapped(f) /\ x \in bar /\ Virt(x) # 0 /\ Covers(x, r, n)
  BY <1>3 DEF Mapped, Cached
<1> HIDE DEF H, x
<1>5. x.addr \in Nat /\ x.size \in Nat
  BY <1>4 DEF TransInv
<1>6. /\ (r + n) % Wrap = r + n /\ (x.addr + x.size) % Wrap <= x.addr + x.size
      /\ (x.addr + x.size) % Wrap \in Nat
  <2>1. r + n \in Nat /\ x.addr + x.size \in Nat /\ Wrap > 0
    BY <1>5
  <2>2. QED
    BY <2>1, Below
<1>7. x.addr <= r /\ r + n <= x.addr + x.size
  BY <1>4, <1>5, <1>6 DEF Covers
<1>8. Virt(x) \in Nat /\ Virt(x) + x.size < Wrap
  BY <1>4, VirtOf
<1>9. (Virt(x) + (r - x.addr)) % Wrap = Virt(x) + (r - x.addr)
  <2>1. Virt(x) + (r - x.addr) \in Nat /\ Virt(x) + (r - x.addr) < Wrap /\ Wrap > 0
    BY <1>5, <1>7, <1>8
  <2>2. QED
    BY <2>1, Below
<1>10. QED
  BY <1>1, <1>4, <1>7, <1>9

\* The three together.
LEMMA RoundSafe == ASSUME TransInv PROVE RoundTrip
<1> SUFFICES ASSUME Apart, NEW f \in Fn
             PROVE  /\ (\A i \in DOMAIN regions : regions[i].kind = "io" => DmaEnd <= regions[i].bus) =>
                          \A i \in Ram68k : \A a \in Cells(i) \ {0} : LibPhysicToLogic(f, LibLogicToPhysic(f, a)) = a
                    /\ \A x \in Mapped(f) : \A k \in 0 .. x.size - 1 : x.addr + x.size < Wrap =>
                           /\ LibLogicToPhysic(f, Virt(x) + k) = x.addr + k
                           /\ LibPhysicToLogic(f, x.addr + k) = Virt(x) + k
                           /\ pci_virt_to_bus(Virt(x) + k, 1, MemRegion) = x.addr + k
                    /\ \A r \in 1 .. Wrap - 1, n \in {1, 2, 4} : LET v == LibObtainPCIRegion(f, r, n) IN
                           r + n < Wrap /\ v # 0 => \E x \in Mapped(f) :
                               /\ x.addr <= r /\ r + n <= x.addr + x.size /\ v = Virt(x) + (r - x.addr)
  BY DEF RoundTrip
<1>1. ASSUME \A i \in DOMAIN regions : regions[i].kind = "io" => DmaEnd <= regions[i].bus,
             NEW i \in Ram68k, NEW a \in Cells(i) \ {0}
      PROVE  LibPhysicToLogic(f, LibLogicToPhysic(f, a)) = a
  <2>1. LibLogicToPhysic(f, a) = a
    BY LogicOfRam
  <2>2. LibPhysicToLogic(f, a) = a
    BY <1>1, PhysicOfRam
  <2>3. QED
    BY <2>1, <2>2
<1>2. ASSUME NEW x \in Mapped(f), NEW k \in 0 .. x.size - 1, x.addr + x.size < Wrap
      PROVE  /\ LibLogicToPhysic(f, Virt(x) + k) = x.addr + k
             /\ LibPhysicToLogic(f, x.addr + k) = Virt(x) + k
             /\ pci_virt_to_bus(Virt(x) + k, 1, MemRegion) = x.addr + k
  <2>1. x \in bar /\ Virt(x) # 0 /\ x.size # 0
    BY DEF Mapped, Cached, TransInv
  <2>2. x.addr + k < Wrap
    BY <1>2, <2>1 DEF TransInv
  <2>3. QED
    BY <1>2, <2>1, <2>2, LogicOfBar, PhysicOfBar, BusOfBar
<1>3. ASSUME NEW r \in 1 .. Wrap - 1, NEW n \in {1, 2, 4}, r + n < Wrap, LibObtainPCIRegion(f, r, n) # 0
      PROVE  \E x \in Mapped(f) : /\ x.addr <= r /\ r + n <= x.addr + x.size
                                  /\ LibObtainPCIRegion(f, r, n) = Virt(x) + (r - x.addr)
  BY <1>3, ObtainedOf
<1>4. QED
  BY <1>1, <1>2, <1>3

-----------------------------------------------------------------------------
(* From the 68k to the device.                                             *)

\* A window register, in Megabytes, decodes exactly a range that is whole.
LEMMA Granular ==
    ASSUME NEW p \in Nat, NEW s \in Nat, NEW c \in Nat, NEW m \in Nat \ {0},
           p % m = 0, s % m = 0, s > 0
    PROVE  /\ (p \div m) * m = p
           /\ p \div m <= c \div m /\ c \div m <= (p + s - 1) \div m <=> p <= c /\ c < p + s
<1> DEFINE q == p \div m  t == s \div m  d == c \div m  l == (p + s - 1) \div m
<1>1. q \in Nat /\ p = q * m
  <2>1. q \in Nat /\ p = q * m + (p % m)
    BY Division
  <2>2. QED
    BY <2>1
<1>2. t \in Nat /\ s = t * m
  <2>1. t \in Nat /\ s = t * m + (s % m)
    BY Division
  <2>2. QED
    BY <2>1
<1>3. d \in Nat /\ c % m \in 0 .. m - 1 /\ c = d * m + (c % m)
  BY Division
<1>4. p + s - 1 \in Nat
  OBVIOUS
<1>5. l \in Nat /\ (p + s - 1) % m \in 0 .. m - 1 /\ p + s - 1 = l * m + ((p + s - 1) % m)
  BY <1>4, Division
<1> HIDE DEF q, t, d, l
<1>6. /\ (q + t) * m = p + s /\ (d + 1) * m = d * m + m /\ (l + 1) * m = l * m + m
      /\ d * m \in Nat /\ l * m \in Nat
  BY <1>1, <1>2, <1>3, <1>5
<1>7. d * m <= c /\ c < (d + 1) * m
  BY <1>3, <1>6
<1>8. q <= d <=> p <= c
  <2>1. q <= d => q * m <= d * m
    BY <1>1, <1>3, Ordered
  <2>2. q * m < (d + 1) * m => q < d + 1
    <3>1. q \in Int /\ d + 1 \in Int
      BY <1>1, <1>3
    <3>2. QED
      BY <3>1, Ordered
  <2>3. ASSUME q <= d PROVE p <= c
    BY <1>1, <1>6, <1>7, <2>1, <2>3
  <2>4. ASSUME p <= c PROVE q <= d
    <3>1. q * m < (d + 1) * m
      BY <1>1, <1>6, <1>7, <2>4
    <3>2. QED
      BY <1>1, <1>3, <2>2, <3>1
  <2>5. QED
    BY <2>3, <2>4
<1>9. d < q + t <=> c < p + s
  <2>1. q + t \in Int /\ d + 1 \in Int /\ d \in Int
    BY <1>1, <1>2, <1>3
  <2>2. d + 1 <= q + t => (d + 1) * m <= (q + t) * m
    BY <2>1, Ordered
  <2>3. d * m < (q + t) * m => d < q + t
    BY <2>1, Ordered
  <2>4. ASSUME d < q + t PROVE c < p + s
    BY <1>6, <1>7, <2>1, <2>2, <2>4
  <2>5. ASSUME c < p + s PROVE d < q + t
    BY <1>6, <1>7, <2>3, <2>5
  <2>6. QED
    BY <2>4, <2>5
<1>10. l = q + t - 1
  <2>1. q + t \in Int /\ l + 1 \in Int /\ l \in Int
    BY <1>1, <1>2, <1>5
  <2>2. l * m < (q + t) * m
    BY <1>5, <1>6
  <2>3. l < q + t
    BY <2>1, <2>2, Ordered
  <2>4. l + 1 < q + t => (l + 2) * m <= (q + t) * m
    <3>1. l + 2 \in Int
      BY <1>5
    <3>2. QED
      BY <2>1, <3>1, Ordered
  <2>5. (l + 2) * m = l * m + m + m
    BY <1>5
  <2>6. ~(l + 1 < q + t)
    BY <1>5, <1>6, <2>4, <2>5
  <2>7. q \in Nat /\ t \in Nat /\ l \in Nat
    BY <1>1, <1>2, <1>5
  <2>8. QED
    BY <2>3, <2>6, <2>7
<1>11. QED
  <2>1. q <= d /\ d <= l <=> p <= c /\ c < p + s
    BY <1>1, <1>2, <1>3, <1>8, <1>9, <1>10
  <2>2. QED
    BY <1>1, <2>1 DEF q, d, l

\* Every range of memory has its window, and every window is of one.
LEMMA WinsOf ==
    ASSUME RegionInv, stage = "ready"
    PROVE  /\ \A i \in DOMAIN win : \E j \in DOMAIN regions :
                 regions[j].kind = "mem" /\ win[i] = OutboundWin(regions[j])
           /\ \A j \in DOMAIN regions : regions[j].kind = "mem" =>
                 \E i \in DOMAIN win : win[i] = OutboundWin(regions[j])
<1> DEFINE I == {j \in DOMAIN regions : regions[j].kind = "mem"}  w == Windowed
<1>1. stage \in Live
  BY DEF Live, Up
<1>2. /\ I \in SUBSET Nat /\ IsFiniteSet(I) /\ w = Entries(regions, I)
      /\ Len(w) \in Nat /\ Len(w) = Cardinality(I)
  BY <1>1, WindowedOf
<1>3. /\ \A k \in 1 .. Cardinality(I) : \E i \in I : Entries(regions, I)[k] = regions[i] /\ Rank(I, i) = k
      /\ \A i \in I : Rank(I, i) \in 1 .. Cardinality(I) /\ Entries(regions, I)[Rank(I, i)] = regions[i]
  BY <1>2, EntriesOf
<1>4. win = [i \in 1 .. Len(w) |-> OutboundWin(w[i])]
  BY DEF RegionInv, Programmed, Up
<1> HIDE DEF w
<1>5. /\ \A k \in 1 .. Len(w) : \E i \in I : w[k] = regions[i]
      /\ \A i \in I : \E k \in 1 .. Len(w) : w[k] = regions[i]
  BY <1>2, <1>3
<1>6. DOMAIN win = 1 .. Len(w) /\ \A k \in 1 .. Len(w) : win[k] = OutboundWin(w[k])
  BY <1>4
<1>7. ASSUME NEW k \in DOMAIN win
      PROVE  \E j \in DOMAIN regions : regions[j].kind = "mem" /\ win[k] = OutboundWin(regions[j])
  <2>1. PICK j \in I : w[k] = regions[j]
    BY <1>5, <1>6
  <2>2. win[k] = OutboundWin(regions[j])
    BY <1>6, <2>1
  <2>3. QED
    BY <2>2
<1>8. ASSUME NEW j \in DOMAIN regions, regions[j].kind = "mem"
      PROVE  \E k \in DOMAIN win : win[k] = OutboundWin(regions[j])
  <2>1. j \in I
    BY <1>8
  <2>2. PICK k \in 1 .. Len(w) : w[k] = regions[j]
    BY <1>5, <2>1
  <2>3. win[k] = OutboundWin(regions[j])
    BY <1>6, <2>2
  <2>4. QED
    BY <1>6, <2>2, <2>3
<1>9. QED
  BY <1>7, <1>8

\* A CPU address in a whole range leaves through its window, and no other.
LEMMA LeavesOf ==
    ASSUME TransInv, RegionInv, stage = "ready",
           \A i \in DOMAIN regions : regions[i].kind = "mem" => Whole(regions[i]),
           NEW q \in DOMAIN regions, regions[q].kind = "mem", NEW c \in Nat,
           regions[q].phys <= c, c < regions[q].phys + regions[q].size
    PROVE  Leaves(c) = {regions[q].bus + (c - regions[q].phys)}
<1> DEFINE W == {j \in DOMAIN win : win[j].base <= c \div Megabyte /\ c \div Megabyte <= win[j].limit}
<1>1. Megabyte \in Nat \ {0}
  BY ProbeAssumption
<1>2. ASSUME NEW j \in DOMAIN regions, regions[j].kind = "mem"
      PROVE  LET o == OutboundWin(regions[j]) IN
             /\ o.base <= c \div Megabyte /\ c \div Megabyte <= o.limit
                   <=> regions[j].phys <= c /\ c < regions[j].phys + regions[j].size
             /\ o.bus = regions[j].bus /\ o.base * Megabyte = regions[j].phys
  <2>1. /\ regions[j].phys \in Nat /\ regions[j].size \in Nat /\ j \notin Ram68k
    BY <1>2, Fields DEF TransInv
  <2>2. regions[j].size > 0 /\ Whole(regions[j])
    BY <1>2, <2>1 DEF TransInv, MapInv
  <2>3. /\ (regions[j].phys \div Megabyte) * Megabyte = regions[j].phys
        /\ regions[j].phys \div Megabyte <= c \div Megabyte
           /\ c \div Megabyte <= (regions[j].phys + regions[j].size - 1) \div Megabyte
              <=> regions[j].phys <= c /\ c < regions[j].phys + regions[j].size
    BY <1>1, <2>1, <2>2, Granular DEF Whole
  <2>4. QED
    BY <2>3 DEF OutboundWin
<1>3. ASSUME NEW i \in W PROVE win[i].bus + (c - win[i].base * Megabyte) = regions[q].bus + (c - regions[q].phys)
  <2>1. PICK j \in DOMAIN regions : regions[j].kind = "mem" /\ win[i] = OutboundWin(regions[j])
    BY WinsOf
  <2>2. regions[j].phys <= c /\ c < regions[j].phys + regions[j].size
    BY <1>2, <2>1
  <2>3. /\ regions[j].phys \in Nat /\ regions[j].size \in Nat /\ j \notin Ram68k
        /\ regions[q].phys \in Nat /\ regions[q].size \in Nat /\ q \notin Ram68k
    BY <2>1, Fields DEF TransInv
  <2>4. Overlap(regions[j].phys, regions[j].size, regions[q].phys, regions[q].size)
    BY <2>2, <2>3 DEF Overlap
  <2>5. j = q
    BY <2>3, <2>4 DEF TransInv, MapInv
  <2>6. win[i].bus = regions[q].bus /\ win[i].base * Megabyte = regions[q].phys
    BY <1>2, <2>1, <2>5
  <2>7. QED
    BY <2>6
<1>4. \E i \in DOMAIN win : i \in W
  <2>1. PICK i \in DOMAIN win : win[i] = OutboundWin(regions[q])
    BY WinsOf
  <2>2. QED
    BY <1>2, <2>1
<1>5. Leaves(c) = {win[i].bus + (c - win[i].base * Megabyte) : i \in W}
  BY DEF Leaves
<1> HIDE DEF W
<1>6. QED
  BY <1>3, <1>4, <1>5

\* One window decodes the address the MMIO window makes, and one BAR is behind it.
LEMMA CpuSafe ==
    ASSUME SoundMaps, RegionInv, TransInv, BarsSeparate, stage = "ready"
    PROVE  CpuReaches
<1> SUFFICES ASSUME SinglePath, Apart,
                    \A i \in DOMAIN regions : regions[i].kind = "mem" => Whole(regions[i]),
                    NEW f \in Fn, NEW x \in Mapped(f), NEW k \in 0 .. x.size - 1, x.pool = "mem"
             PROVE  \E a \in Leaves(Emu68(Virt(x) + k)) :
                       /\ Leaves(Emu68(Virt(x) + k)) = {a} /\ a = x.addr + k /\ Answering(a) = {x}
  BY DEF CpuReaches
<1>1. x \in bar /\ Virt(x) # 0 /\ x.size # 0 /\ k \in Nat /\ k < x.size
  BY DEF Mapped, Cached, TransInv
<1>2. x.addr \in Nat /\ x.size \in Nat /\ Len1(x) = x.size
  BY <1>1, ThroughHome
<1>3. PICK l \in DOMAIN regions : Home(x, l) /\ Through(x, l)
  BY <1>1, ThroughHome
<1>4. /\ regions[l].bus \in Nat /\ regions[l].phys \in Nat /\ regions[l].size \in Nat
      /\ board.mmio.virt \in Nat /\ board.mmio.phys \in Nat /\ board.mmio.size \in Nat
  BY Fields, Mmio DEF TransInv
<1>5. /\ regions[l].kind = "mem"
      /\ regions[l].bus <= x.addr /\ x.addr + x.size <= regions[l].bus + regions[l].size
      /\ Virt(x) = board.mmio.virt + ((regions[l].phys + (x.addr - regions[l].bus)) - board.mmio.phys)
  BY <1>3 DEF Home, Through
<1>6. Virt(x) \in Nat /\ board.mmio.virt <= Virt(x) /\ Virt(x) + x.size <= board.mmio.virt + board.mmio.size
  BY <1>1, <1>2, VirtOf
<1> DEFINE v == Virt(x)  c == regions[l].phys + ((x.addr - regions[l].bus) + k)
<1> HIDE DEF v
<1>7. Emu68(v + k) = c
  <2>1. board.mmio.virt <= v + k /\ v + k < board.mmio.virt + board.mmio.size
    BY <1>1, <1>2, <1>4, <1>6 DEF v
  <2>2. board.mmio.phys + ((v + k) - board.mmio.virt) = c
    BY <1>1, <1>2, <1>4, <1>5 DEF v
  <2>3. QED
    BY <2>1, <2>2 DEF Emu68
<1>8. c \in Nat /\ regions[l].phys <= c /\ c < regions[l].phys + regions[l].size
  BY <1>1, <1>2, <1>4, <1>5
<1>9. regions[l].bus + (c - regions[l].phys) = x.addr + k
  BY <1>1, <1>2, <1>4
<1> HIDE DEF c
<1>10. Leaves(c) = {x.addr + k}
  BY <1>5, <1>8, <1>9, LeavesOf
<1>11. Answering(x.addr + k) = {x}
  <2>1. x \in Answering(x.addr + k)
    BY <1>1, <1>2 DEF Answering, Sized
  <2>2. ASSUME NEW y \in Answering(x.addr + k) PROVE y = x
    <3>1. /\ y \in Sized /\ x \in Sized /\ y.pool # "io" /\ y.addr <= x.addr + k /\ x.addr + k < y.addr + y.size
      BY <1>1 DEF Answering, Sized
    <3>2. y.addr \in Nat /\ y.size \in Nat
      BY <3>1 DEF Sized, TransInv
    <3>3. x.pool \in Space(y.pool)
      BY <3>1 DEF Space
    <3>4. x = y \/ x.addr + x.size <= y.addr \/ y.addr + y.size <= x.addr
      BY <3>1, <3>3 DEF BarsSeparate
    <3>5. QED
      BY <1>1, <1>2, <3>1, <3>2, <3>4
  <2>3. QED
    BY <2>1, <2>2
<1>12. QED
  BY <1>7, <1>10, <1>11 DEF v

-----------------------------------------------------------------------------
(* What a board reports.                                                   *)

\* What a board reports for a BAR with a 68k address: that address, and its size.
LEMMA ReportOf ==
    ASSUME TransInv, SlotInv, NEW f, NEW x \in Mapped(f)
    PROVE  MemoryAddr(f, x.slot) = Virt(x) /\ MemorySize(f, x.slot) = x.size
<1>1. x \in bar /\ x.fn = f /\ Virt(x) # 0 /\ x \in BarOf(f, x.slot)
  BY DEF Mapped, Cached, BarOf
<1>2. \A y \in BarOf(f, x.slot) : y = x
  BY <1>1 DEF BarOf, Cached, SlotInv
<1>3. BarOf(f, x.slot) = {x}
  BY <1>1, <1>2
<1>4. First({x}) = x
  <2>1. x.slot <= x.slot
    BY <1>1 DEF TransInv
  <2>2. QED
    BY <2>1 DEF First
<1>5. First(BarOf(f, x.slot)) = x /\ BarOf(f, x.slot) # {}
  BY <1>3, <1>4
<1>6. MemoryAddr(f, x.slot) = Virt(x)
  BY <1>5 DEF MemoryAddr, BaseAddress
<1>7. BaseSize(f, x.slot) = (Wrap - x.size) % Wrap
  BY <1>5 DEF BaseSize
<1>8. x.size \in Nat /\ x.size < Wrap
  <2>1. x.size \in Nat /\ Virt(x) \in Nat /\ Virt(x) + x.size < Wrap
    BY <1>1, VirtOf DEF TransInv
  <2>2. QED
    BY <2>1
<1>9. (Wrap - x.size) % Wrap = IF x.size = 0 THEN 0 ELSE Wrap - x.size
  <2> DEFINE n == Wrap - x.size
  <2>1. n \in Int /\ -Wrap <= n /\ n < 2 * Wrap /\ Wrap > 0 /\ n > 0
    BY <1>8
  <2> HIDE DEF n
  <2>2. n % Wrap = IF n < 0 THEN n + Wrap ELSE IF n < Wrap THEN n ELSE n - Wrap
    BY <2>1, Wraps
  <2>3. QED
    BY <1>8, <2>2 DEF n
<1>10. MemorySize(f, x.slot) = x.size
  BY <1>7, <1>8, <1>9 DEF MemorySize
<1>11. QED
  BY <1>6, <1>10

\* Of the BARs the library looks at, only x has its addresses.
LEMMA CoversAlone ==
    ASSUME TransInv, SinglePath, BarsSeparate, NEW f, NEW x \in Mapped(f), NEW z \in Mapped(f),
           x.size # 0, NEW n \in Nat, n >= x.size, x.addr + n < Wrap, Covers(z, x.addr, n)
    PROVE  z = x /\ n = x.size
<1>1. /\ x \in bar /\ z \in bar /\ x.addr \in Nat /\ x.size \in Nat /\ z.addr \in Nat /\ z.size \in Nat
      /\ x.pool \in Pools \ {"io"} /\ z.pool \in Pools \ {"io"}
  <2>1. x \in bar /\ z \in bar /\ Virt(x) # 0 /\ Virt(z) # 0
    BY DEF Mapped, Cached
  <2>2. x.pool # "io" /\ z.pool # "io"
    BY <2>1, VirtOf
  <2>3. QED
    BY <2>1, <2>2 DEF TransInv
<1>2. (x.addr + n) % Wrap = x.addr + n
  <2>1. x.addr + n \in Nat /\ Wrap > 0
    BY <1>1
  <2>2. QED
    BY <2>1, Below
<1>3. (z.addr + z.size) % Wrap \in Nat /\ (z.addr + z.size) % Wrap <= z.addr + z.size
  <2>1. z.addr + z.size \in Nat /\ Wrap > 0
    BY <1>1
  <2>2. QED
    BY <2>1, Below
<1>4. z.addr <= x.addr /\ x.addr + n <= z.addr + z.size /\ z.size # 0
  BY <1>1, <1>2, <1>3 DEF Covers
<1>5. x.pool \in Space(z.pool)
  BY <1>1 DEF Space, Pools
<1>6. x = z \/ x.addr + x.size <= z.addr \/ z.addr + z.size <= x.addr
  BY <1>1, <1>4, <1>5 DEF BarsSeparate, Sized
<1>7. QED
  BY <1>1, <1>4, <1>6

\* The region of a BAR is obtained, and one unit more is not.
LEMMA ObtainsOf ==
    ASSUME TransInv, SinglePath, BarsSeparate, NEW f, NEW x \in Mapped(f),
           x.size # 0, x.addr # 0, x.addr + x.size < Wrap - 1
    PROVE  /\ LibObtainPCIRegion(f, x.addr, x.size) = Virt(x)
           /\ LibObtainPCIRegion(f, x.addr, x.size + 1) = 0
<1>1. x \in bar /\ Virt(x) # 0 /\ x.addr \in Nat /\ x.size \in Nat /\ Wrap > 0
  BY DEF Mapped, Cached, TransInv
<1>2. Covers(x, x.addr, x.size)
  BY <1>1 DEF Covers
<1>3. {z \in Mapped(f) : Covers(z, x.addr, x.size)} = {x}
  <2>1. ASSUME NEW z \in Mapped(f), Covers(z, x.addr, x.size) PROVE z = x
    BY <1>1, <2>1, CoversAlone
  <2>2. QED
    BY <1>2, <2>1
<1>4. {z \in Mapped(f) : Covers(z, x.addr, x.size + 1)} = {}
  <2>1. ASSUME NEW z \in Mapped(f), Covers(z, x.addr, x.size + 1) PROVE FALSE
    <3>1. x.size + 1 \in Nat /\ x.size + 1 >= x.size /\ x.addr + (x.size + 1) < Wrap /\ x.size + 1 # x.size
      BY <1>1
    <3>2. QED
      BY <2>1, <3>1, CoversAlone
  <2>2. QED
    BY <2>1
<1>5. First({x}) = x
  <2>1. x.slot <= x.slot
    BY <1>1 DEF TransInv
  <2>2. QED
    BY <2>1 DEF First
<1>6. (Virt(x) + (x.addr - x.addr)) % Wrap = Virt(x)
  <2>1. Virt(x) \in Nat /\ Virt(x) + x.size < Wrap
    BY <1>1, VirtOf
  <2>2. Virt(x) < Wrap /\ Virt(x) + (x.addr - x.addr) = Virt(x)
    BY <1>1, <2>1
  <2>3. QED
    BY <1>1, <2>1, <2>2, Below
<1>7. QED
  BY <1>3, <1>4, <1>5, <1>6 DEF LibObtainPCIRegion

\* Two BARs have no 68k address in common.
LEMMA VirtApart ==
    ASSUME TransInv, SlotInv, SinglePath, BarsSeparate, NEW x \in bar, NEW y \in bar, Virt(x) # 0, Virt(y) # 0,
           x.size # 0, x # y
    PROVE  Virt(x) + x.size <= Virt(y) \/ Virt(y) + y.size <= Virt(x)
<1>1. /\ x.addr \in Nat /\ x.size \in Nat /\ y.addr \in Nat /\ y.size \in Nat
      /\ Virt(x) \in Nat /\ Virt(y) \in Nat /\ Len1(x) = x.size
      /\ x.size <= Len1(x) /\ y.size <= Len1(y) /\ Len1(y) > 0 /\ Len1(y) \in Nat
      /\ x.pool \in Pools \ {"io"} /\ y.pool \in Pools \ {"io"}
  BY VirtOf DEF TransInv, Len1
<1> DEFINE v == Virt(x)  w == Virt(y)
<1> SUFFICES ASSUME w < v + x.size, v < w + y.size PROVE FALSE
  BY <1>1
<1>2. y.addr - x.addr = w - v
  <2>1. CASE v <= w
    <3>1. y.addr + (w - w) = x.addr + (w - v)
      BY <1>1, <2>1, Unshared
    <3>2. QED
      BY <1>1, <3>1
  <2>2. CASE w <= v
    <3>1. y.addr + (v - w) = x.addr + (v - v)
      BY <1>1, <2>2, Unshared
    <3>2. QED
      BY <1>1, <3>1
  <2>3. QED
    BY <1>1, <2>1, <2>2
<1> HIDE DEF v, w
<1>3. y.addr < x.addr + x.size /\ x.addr < y.addr + y.size
  BY <1>1, <1>2 DEF v, w
<1>4. CASE y.size = 0
  <2>1. y.addr = 0
    BY <1>4 DEF SlotInv
  <2>2. QED
    BY <1>1, <1>3, <1>4, <2>1
<1>5. CASE y.size # 0
  <2>1. x.pool \in Space(y.pool)
    BY <1>1 DEF Space, Pools
  <2>2. x.addr + x.size <= y.addr \/ y.addr + y.size <= x.addr
    BY <1>5, <2>1 DEF BarsSeparate, Sized
  <2>3. QED
    BY <1>1, <1>3, <2>2
<1>6. QED
  BY <1>4, <1>5

\* The window of memory a board reports holds every BAR of memory.
LEMMA WindowOf ==
    ASSUME AllocInv, NEW x \in bar, x.pool = "mem", x.size # 0
    PROVE  /\ PCIMemWindowLow <= x.addr
           /\ PCIMemWindowHigh = 0 \/ x.addr + x.size <= PCIMemWindowHigh
<1> DEFINE r == region["mem"]
<1>1. /\ x.addr \in Nat /\ x.size \in Nat /\ Present("mem") /\ "mem" \in Pools
      /\ r.size # 0 /\ r.start <= x.addr /\ x.addr + x.size <= r.start + r.size
  BY DEF AllocInv, BarType, BarsInRegion, Present
<1>2. r.start \in Nat /\ r.size \in Nat /\ r.start + r.size <= Wrap
  BY <1>1, AutoAssumption DEF AllocInv
<1>3. PCIMemWindowLow = r.start /\ PCIMemWindowHigh = (r.start + r.size) % Wrap
  BY <1>1 DEF PCIMemWindowLow, PCIMemWindowHigh
<1>4. (r.start + r.size) % Wrap = IF r.start + r.size < Wrap THEN r.start + r.size ELSE 0
  <2> DEFINE e == r.start + r.size
  <2>1. e \in Int /\ -Wrap <= e /\ e < 2 * Wrap /\ Wrap > 0 /\ e <= Wrap /\ e > 0
    BY <1>1, <1>2
  <2> HIDE DEF e
  <2>2. e % Wrap = IF e < 0 THEN e + Wrap ELSE IF e < Wrap THEN e ELSE e - Wrap
    BY <2>1, Wraps
  <2>3. e % Wrap = IF e < Wrap THEN e ELSE 0
    BY <2>1, <2>2
  <2>4. QED
    BY <2>3 DEF e
<1>5. QED
  BY <1>1, <1>3, <1>4

\* The attributes together.
LEMMA ReportSafe ==
    ASSUME TransInv, SlotInv, BarsSeparate, bar # {} => AllocInv
    PROVE  BarsReported
<1> SUFFICES ASSUME SinglePath, NEW f \in Listable, NEW x \in Mapped(f), x.addr + x.size < Wrap - 1
             PROVE  LET v == MemoryAddr(f, x.slot) n == MemorySize(f, x.slot) a == LibLogicToPhysic(f, v) IN
                    /\ v # 0 /\ n = x.size
                    /\ n # 0 => /\ a # 0 => LibObtainPCIRegion(f, a, n) = v /\ LibObtainPCIRegion(f, a, n + 1) = 0
                                /\ x.pool = "mem" => /\ PCIMemWindowLow <= a
                                                     /\ PCIMemWindowHigh = 0 \/ a + n <= PCIMemWindowHigh
                                /\ \A g \in Listable : \A y \in Mapped(g) :
                                       x = y \/ v + n <= MemoryAddr(g, y.slot)
                                             \/ MemoryAddr(g, y.slot) + MemorySize(g, y.slot) <= v
  BY DEF BarsReported
<1>1. x \in bar /\ Virt(x) # 0 /\ x.addr \in Nat /\ x.size \in Nat /\ x.addr < Wrap
  BY DEF Mapped, Cached, TransInv
<1>2. MemoryAddr(f, x.slot) = Virt(x) /\ MemorySize(f, x.slot) = x.size
  BY ReportOf
<1>3. ASSUME x.size # 0
      PROVE  /\ LibLogicToPhysic(f, Virt(x)) = x.addr
             /\ x.addr # 0 => /\ LibObtainPCIRegion(f, x.addr, x.size) = Virt(x)
                              /\ LibObtainPCIRegion(f, x.addr, x.size + 1) = 0
             /\ x.pool = "mem" => /\ PCIMemWindowLow <= x.addr
                                  /\ PCIMemWindowHigh = 0 \/ x.addr + x.size <= PCIMemWindowHigh
             /\ \A g \in Listable : \A y \in Mapped(g) :
                    x = y \/ Virt(x) + x.size <= MemoryAddr(g, y.slot)
                          \/ MemoryAddr(g, y.slot) + MemorySize(g, y.slot) <= Virt(x)
  <2>1. LibLogicToPhysic(f, Virt(x)) = x.addr
    <3>1. 0 \in 0 .. x.size - 1 /\ x.addr + 0 < Wrap /\ Virt(x) + 0 = Virt(x) /\ x.addr + 0 = x.addr
      <4>1. Virt(x) \in Nat
        BY <1>1, VirtOf
      <4>2. QED
        BY <1>1, <1>3, <4>1
    <3>2. LibLogicToPhysic(f, Virt(x) + 0) = x.addr + 0
      BY <3>1, LogicOfBar
    <3>3. QED
      BY <3>1, <3>2
  <2>2. x.addr # 0 => /\ LibObtainPCIRegion(f, x.addr, x.size) = Virt(x)
                      /\ LibObtainPCIRegion(f, x.addr, x.size + 1) = 0
    BY <1>1, <1>3, ObtainsOf
  <2>3. x.pool = "mem" => /\ PCIMemWindowLow <= x.addr
                          /\ PCIMemWindowHigh = 0 \/ x.addr + x.size <= PCIMemWindowHigh
    BY <1>1, <1>3, WindowOf
  <2>4. ASSUME NEW g \in Listable, NEW y \in Mapped(g), x # y
        PROVE  \/ Virt(x) + x.size <= MemoryAddr(g, y.slot)
               \/ MemoryAddr(g, y.slot) + MemorySize(g, y.slot) <= Virt(x)
    <3>1. y \in bar /\ Virt(y) # 0
      BY DEF Mapped, Cached
    <3>2. MemoryAddr(g, y.slot) = Virt(y) /\ MemorySize(g, y.slot) = y.size
      BY ReportOf
    <3>3. Virt(x) + x.size <= Virt(y) \/ Virt(y) + y.size <= Virt(x)
      BY <1>1, <1>3, <2>4, <3>1, VirtApart
    <3>4. QED
      BY <3>2, <3>3
  <2>5. QED
    BY <2>1, <2>2, <2>3, <2>4
<1>4. QED
  BY <1>1, <1>2, <1>3

-----------------------------------------------------------------------------
(* The theorems.                                                           *)

\* What the probe programs and the scan puts on the bus stays until the last close.
LEMMA Settled == SoundBars => (BoardsSpec => [](RegionInv /\ BarsInv))
<1> SUFFICES ASSUME SoundBars PROVE BoardsSpec => [](RegionInv /\ BarsInv)
  OBVIOUS
<1>1. BoardsInit => BarsInv
  BY DEF BoardsInit, HwInit, Idle, BarsInv
<1>2. Init => AutoInv
  BY AutoInit
<1>3. AutoInv /\ [Next]_vars => AutoInv'
  BY AutoNext
<1>4. RegionInv /\ StageInv /\ [BoardsNext]_boardVars => RegionInv'
  BY BoardsRegion
<1>5. BarsInv /\ RegionsGiven' /\ (Init => AutoInv)' /\ (AutoInv /\ [Next]_vars => AutoInv')
         /\ [BoardsNext]_boardVars => BarsInv'
  BY BoardsBars
<1>6. QED
  BY <1>1, <1>2, <1>3, <1>4, <1>5, StageInit, BoardsStage, RegionInit, RegionGiven, PTL DEF BoardsSpec

\* From the scan until the library is closed the BARs stay where allocation has put them,
\* apart and inside their windows, whatever fails: for any machines whose device trees give
\* the regions that pciauto_config_init selects, and BAR sizes as in PciAllocProofs.
THEOREM BarsStay == SoundBars => (BoardsSpec => [](BarsInRegion /\ BarsSeparate /\ BarsReached))
<1> SUFFICES ASSUME SoundBars PROVE BoardsSpec => [](BarsInRegion /\ BarsSeparate /\ BarsReached)
  OBVIOUS
<1>1. BoardsSpec => [](RegionInv /\ BarsInv)
  BY Settled
<1>2. BarsInv => BarsInRegion /\ BarsSeparate /\ BarsReached
  BY BarsInvSafe
<1>3. QED
  BY <1>1, <1>2, PTL

\* Whenever the library is up, they make the address map what it has to be.
LEMMA ReadySafe ==
    ASSUME SoundBars, SoundMaps, RegionInv, BarsInv
    PROVE  DmaReaches /\ CpuReaches /\ RoundTrip /\ BarsReported
<1>1. CASE stage # "ready"
  BY <1>1 DEF DmaReaches, CpuReaches, RoundTrip, BarsReported, Ready
<1>2. CASE stage = "ready"
  <2>1. TransInv
    BY <1>2, Trans
  <2>2. BarsSeparate
    BY BarsInvSafe
  <2>3. SlotInv /\ (bar # {} => AllocInv)
    BY DEF BarsInv, AutoInv, SlotInv
  <2>4. DmaReaches /\ CpuReaches
    BY <1>2, <2>1, <2>2, DmaSafe, CpuSafe
  <2>5. RoundTrip /\ BarsReported
    BY <2>1, <2>2, <2>3, RoundSafe, ReportSafe
  <2>6. QED
    BY <2>4, <2>5
<1>3. QED
  BY <1>1, <1>2

LEMMA ReadyStays ==
    SoundBars /\ SoundMaps => (BoardsSpec => [](DmaReaches /\ CpuReaches /\ RoundTrip /\ BarsReported))
<1> SUFFICES ASSUME SoundBars, SoundMaps
             PROVE  BoardsSpec => [](DmaReaches /\ CpuReaches /\ RoundTrip /\ BarsReported)
  OBVIOUS
<1>1. BoardsSpec => [](RegionInv /\ BarsInv)
  BY Settled
<1>2. RegionInv /\ BarsInv => DmaReaches /\ CpuReaches /\ RoundTrip /\ BarsReported
  BY ReadySafe
<1>3. QED
  BY <1>1, <1>2, PTL

\* brcm_pcie_probe, pci_get_devtree_regions and LibLogicToPhysic: Fast RAM the library
\* registers has its own address on the bus, no BAR answers there, and the inbound window
\* leads to it: for any map of the machine in which nothing overlaps, whose inbound window
\* starts at 0, with outbound windows behind it.
THEOREM FastRamIsReached == SoundBars /\ SoundMaps => (BoardsSpec => []DmaReaches)
BY ReadyStays, PTL

\* brcm_pcie_set_outbound_win, pci_auto.c and pci_bus_to_virt: a 68k access to a BAR of
\* memory leaves through exactly one window, to that BAR's address, and that BAR alone
\* answers: for any such map with ranges that are whole Megabytes, where the tree is a
\* single path.
THEOREM BarsAnswerTheCpu == SoundBars /\ SoundMaps => (BoardsSpec => []CpuReaches)
BY ReadyStays, PTL

\* pcie_mem.c and pci_bar.c: translating there and back leads to the same address, and a
\* region is obtained at the address its BAR has, for every BAR and all Fast RAM of any
\* such map.
THEOREM TranslationsAgree == SoundBars /\ SoundMaps => (BoardsSpec => []RoundTrip)
BY ReadyStays, PTL

\* pcie_make_pdev and LibGetBoardAttrsA: the address and the size a board reports for a
\* BAR are those of that BAR and no other, and what LibObtainPCIRegion accepts, for any
\* such map, also where a BAR is reached through an address the RAM has on the bus.
THEOREM ReportsAreTrue == SoundBars /\ SoundMaps => (BoardsSpec => []BarsReported)
BY ReadyStays, PTL
=============================================================================
