---------------------------- MODULE PciAllocProofs ----------------------------
(***************************************************************************)
(* Proofs about allocation for every tree and all regions: pci_auto.c puts *)
(* every BAR aligned into its region, no two BARs at one address, and the  *)
(* windows of the bridges around what is behind them.  The argument is     *)
(* about the cursors, bus_lower: they stay in their regions or go over the *)
(* end of the address space once, and move behind what they give away.     *)
(***************************************************************************)
EXTENDS PciAutoProofs

USE AddressAssumption

-----------------------------------------------------------------------------
(* Alignment.                                                              *)

LEMMA Division ==
    ASSUME NEW a \in Nat, NEW b \in Nat \ {0}
    PROVE  /\ a \div b \in Nat /\ a % b \in 0 .. b - 1
           /\ a = (a \div b) * b + (a % b)
OBVIOUS

\* A product decides its remainder.
LEMMA Multiple ==
    ASSUME NEW q \in Nat, NEW b \in Nat \ {0}
    PROVE  q * b \in Nat /\ (q * b) % b = 0
OBVIOUS

LEMMA Wraps ==
    ASSUME NEW x \in Int, -Wrap <= x, x < 2 * Wrap, Wrap > 0
    PROVE  x % Wrap = IF x < 0 THEN x + Wrap ELSE IF x < Wrap THEN x ELSE x - Wrap
OBVIOUS

LEMMA Ordered ==
    ASSUME NEW i \in Int, NEW j \in Int, NEW b \in Nat \ {0}
    PROVE  /\ i <= j => i * b <= j * b
           /\ i * b < j * b => i < j
OBVIOUS

\* AlignUp goes up to the next multiple, or over the end to 0, and past no multiple.
LEMMA Alignment ==
    ASSUME NEW s \in Nat \ {0}, Wrap % s = 0, NEW x \in 0 .. Wrap - 1
    PROVE  /\ AlignUp(x, s) \in 0 .. Wrap - 1 /\ AlignUp(x, s) % s = 0 /\ AlignUp(x, s) + s <= Wrap
           /\ \/ x <= AlignUp(x, s) /\ AlignUp(x, s) < x + s
              \/ AlignUp(x, s) = 0 /\ x > Wrap - s
           /\ \A k \in Nat : x <= k * s /\ k * s < Wrap => x <= AlignUp(x, s) /\ AlignUp(x, s) <= k * s
<1> DEFINE w == Wrap \div s  y == (x - 1) % Wrap  q == y \div s
<1>1. Wrap \in Nat /\ Wrap > 0
  OBVIOUS
<1>2. w \in Nat /\ Wrap = w * s
  BY <1>1, Division
<1>3. y \in Nat /\ y < Wrap /\ y = (IF x = 0 THEN Wrap - 1 ELSE x - 1)
  BY <1>1, Wraps
<1> HIDE DEF w, y
<1>4. q \in Nat /\ q * s <= y /\ y < q * s + s
  <2>1. q \in Nat /\ y % s \in 0 .. s - 1 /\ y = q * s + (y % s)
    BY <1>3, Division
  <2>2. QED
    BY <1>3, <2>1
<1> HIDE DEF q
<1>5. (q + 1) * s = q * s + s /\ q * s \in Nat /\ (w - 1) * s = w * s - s
  BY <1>2, <1>4
<1>6. q + 1 <= w
  BY <1>2, <1>3, <1>4, Ordered
<1>7. q * s + s <= Wrap
  BY <1>2, <1>4, <1>5, <1>6, Ordered
<1>8. AlignUp(x, s) = (q * s + s) % Wrap
  BY DEF AlignUp, q, y
<1>9. AlignUp(x, s) = IF q * s + s = Wrap THEN 0 ELSE q * s + s
  BY <1>1, <1>5, <1>7, <1>8, Wraps
<1>10. CASE q * s + s = Wrap
  <2>1. AlignUp(x, s) = 0 /\ 0 % s = 0
    BY <1>9, <1>10, Multiple
  <2>2. x = 0 \/ x > Wrap - s
    BY <1>3, <1>4, <1>10
  <2>3. s <= Wrap
    BY <1>4, <1>5, <1>7
  <2>4. ASSUME NEW k \in Nat, x <= k * s, k * s < Wrap
        PROVE  x <= AlignUp(x, s) /\ AlignUp(x, s) <= k * s
    <3>1. k < w
      BY <1>2, <2>4, Ordered
    <3>2. k * s <= (w - 1) * s
      BY <1>2, <3>1, Ordered
    <3>3. QED
      BY <1>1, <1>2, <1>5, <2>1, <2>2, <2>4, <3>2
  <2>5. AlignUp(x, s) \in 0 .. Wrap - 1 /\ AlignUp(x, s) % s = 0 /\ AlignUp(x, s) + s <= Wrap
    BY <1>1, <2>1, <2>3
  <2>6. (x <= AlignUp(x, s) /\ AlignUp(x, s) < x + s) \/ (AlignUp(x, s) = 0 /\ x > Wrap - s)
    BY <2>1, <2>2
  <2>7. QED
    BY <2>4, <2>5, <2>6
<1>11. CASE q * s + s # Wrap
  <2>1. AlignUp(x, s) = (q + 1) * s /\ (q + 1) * s < Wrap
    BY <1>5, <1>7, <1>9, <1>11
  <2>2. AlignUp(x, s) % s = 0 /\ AlignUp(x, s) \in Nat
    <3>1. q + 1 \in Nat
      BY <1>4
    <3>2. (q + 1) * s \in Nat /\ ((q + 1) * s) % s = 0
      BY <3>1, Multiple
    <3>3. QED
      BY <2>1, <3>2
  <2>3. AlignUp(x, s) + s <= Wrap
    <3>1. q + 1 < w
      BY <1>2, <1>4, <2>1, Ordered
    <3>2. (q + 2) * s <= w * s /\ (q + 2) * s = (q + 1) * s + s
      BY <1>2, <1>4, <3>1, Ordered
    <3>3. QED
      BY <1>2, <2>1, <3>2
  <2>4. x # 0
    BY <1>3, <1>4, <1>5, <1>7, <1>11
  <2>5. x <= AlignUp(x, s) /\ AlignUp(x, s) < x + s
    BY <1>3, <1>4, <1>5, <2>1, <2>4
  <2>6. ASSUME NEW k \in Nat, x <= k * s PROVE (q + 1) * s <= k * s
    <3>1. q * s < k * s
      BY <1>3, <1>4, <2>4, <2>6
    <3>2. q < k
      BY <1>4, <3>1, Ordered
    <3>3. QED
      BY <1>4, <3>2, Ordered
  <2>7. AlignUp(x, s) \in 0 .. Wrap - 1
    BY <1>1, <2>1, <2>2
  <2>8. QED
    BY <2>1, <2>2, <2>3, <2>5, <2>6, <2>7
<1>12. QED
  BY <1>10, <1>11

-----------------------------------------------------------------------------
(* Allocation from one region.                                             *)

\* Where the cursor of a region is: in the region or behind it, or over the end of the
\* address space, which a region that leaves room behind it keeps it from.
Cursor(p, l) ==
    /\ l \in 0 .. Wrap - 1
    /\ region[p].size # 0 =>
          /\ region[p].start <= l \/ l = 0
          /\ \A k \in 0 .. Wrap : Beyond(region, p, k) /\ k * Granule[p] < Wrap =>
                region[p].start <= l /\ l <= k * Granule[p]

LEMMA RegionType ==
    ASSUME region \in Regions, NEW p \in Pools
    PROVE  /\ region[p].start \in Nat /\ region[p].size \in Nat
           /\ region[p].start + region[p].size <= Wrap
           /\ Granule[p] \in Nat \ {0} /\ MinLower \in Nat /\ Wrap \in Nat
BY AutoAssumption

\* A size that is not 0: the address is in the region and not below the cursor, which has
\* not been over the end, and the cursor moves behind what was allocated.
LEMMA Allocation ==
    ASSUME SoundBars, region \in Regions, NEW p \in Pools, region[p].size # 0, Cursor(p, lower[p]),
           NEW s \in Nat \ {0}, Sound(region, p, s), Fits(p, s)
    PROVE  LET a == AlignUp(lower[p], s) IN
           /\ a \in Nat /\ region[p].start <= a /\ a + s <= region[p].start + region[p].size
           /\ a % s = 0 /\ lower[p] <= a /\ (lower[p] = 0 => region[p].start = 0)
           /\ a + s = Wrap => region[p].start # 0
           /\ Advanced(p, s) = IF a + s = Wrap THEN 0 ELSE a + s
<1> DEFINE a == AlignUp(lower[p], s)  b == region[p].start  z == region[p].size  l == lower[p]
<1>1. /\ b \in Nat /\ z \in Nat /\ z > 0 /\ b + z <= Wrap /\ b < Wrap /\ Wrap \in Nat
      /\ l \in 0 .. Wrap - 1 /\ (b <= l \/ l = 0) /\ Wrap % s = 0
  BY RegionType DEF Cursor, Sound
<1>2. /\ a \in 0 .. Wrap - 1 /\ a % s = 0 /\ a + s <= Wrap
      /\ (l <= a /\ a < l + s) \/ (a = 0 /\ l > Wrap - s)
  BY <1>1, Alignment
<1>3. l = 0 => a <= 0
  <2>1. 0 \in Nat /\ 0 * s = 0 /\ 0 < Wrap
    BY <1>1
  <2>2. \A k \in Nat : l <= k * s /\ k * s < Wrap => l <= a /\ a <= k * s
    BY <1>1, Alignment
  <2>3. QED
    BY <2>1, <2>2
<1>4. (a - b + s) % Wrap <= z
  BY DEF Fits
<1>5. (a + s) % Wrap = IF a + s = Wrap THEN 0 ELSE a + s
  <2>1. a + s \in Int /\ -Wrap <= a + s /\ a + s < 2 * Wrap /\ Wrap > 0
    BY <1>1, <1>2
  <2>2. QED
    BY <1>2, <2>1, Wraps
<1>6. (a - b + s) % Wrap = IF a + s < b THEN a - b + s + Wrap
                           ELSE IF a - b + s < Wrap THEN a - b + s ELSE a - b + s - Wrap
  <2> HIDE DEF a, b
  <2>1. PICK v \in Int : v = a - b + s
    BY <1>1, <1>2
  <2>2. -Wrap <= v /\ v < 2 * Wrap /\ Wrap > 0
    BY <1>1, <1>2, <2>1
  <2>3. v % Wrap = IF v < 0 THEN v + Wrap ELSE IF v < Wrap THEN v ELSE v - Wrap
    BY <2>2, Wraps
  <2>4. v < 0 <=> a + s < b
    BY <1>1, <1>2, <2>1
  <2>5. QED
    BY <1>1, <1>2, <2>1, <2>3, <2>4
<1> HIDE DEF a
<1>7. /\ b <= a /\ a + s <= b + z /\ l <= a /\ (l = 0 => b = 0) /\ (a + s = Wrap => b # 0)
  <2>1. CASE s < b
    <3>1. a # 0
      BY <1>1, <1>2, <1>4, <1>6, <2>1
    <3>2. l # 0 /\ b <= l /\ l <= a
      <4>1. l = 0 => a = 0
        BY <1>1, <1>2, <1>3
      <4>2. QED
        BY <1>1, <1>2, <3>1, <4>1
    <3>3. QED
      BY <1>1, <1>2, <1>4, <1>6, <2>1, <3>1, <3>2
  <2>2. CASE \E k \in 0 .. Wrap : Beyond(region, p, k) /\ k * Granule[p] + 2 * s <= Wrap
    <3>1. PICK k \in 0 .. Wrap : Beyond(region, p, k) /\ k * Granule[p] + 2 * s <= Wrap
      BY <2>2
    <3>2. k * Granule[p] \in Nat /\ k * Granule[p] + 2 * s <= Wrap /\ k * Granule[p] < Wrap
      BY <3>1, RegionType
    <3>3. b <= l /\ l <= k * Granule[p]
      BY <1>1, <3>1, <3>2 DEF Cursor
    <3>4. l <= a /\ a < l + s /\ a + s < Wrap
      BY <1>1, <1>2, <3>2, <3>3
    <3>5. QED
      BY <1>1, <1>2, <1>4, <1>6, <3>3, <3>4
  <2>3. QED
    BY <2>1, <2>2 DEF Sound
<1>8. Advanced(p, s) = (a + s) % Wrap
  BY DEF Advanced, a
<1>9. QED
  BY <1>1, <1>2, <1>5, <1>7, <1>8 DEF a

LEMMA CursorInit ==
    ASSUME SoundBars, region \in Regions, NEW p \in Pools
    PROVE  Cursor(p, pciauto_region_init[p])
<1>1. CASE ~Present(p)
  BY <1>1, RegionType DEF SoundBars, Cursor, pciauto_region_init, Present
<1>2. CASE Present(p)
  <2>1. pciauto_region_init[p] = Lowest(p)
    BY <1>2 DEF pciauto_region_init
  <2>2. /\ region[p].start <= Lowest(p) /\ Lowest(p) \in 0 .. Wrap - 1
        /\ Lowest(p) = region[p].start \/ Lowest(p) = MinLower
    BY <1>2, RegionType DEF SoundBars, Lowest, Present
  <2>3. ASSUME NEW k \in 0 .. Wrap, Beyond(region, p, k) PROVE Lowest(p) <= k * Granule[p]
    <3>1. k * Granule[p] \in Nat
      BY RegionType
    <3>2. QED
      BY <2>2, <2>3, <3>1, RegionType DEF Beyond
  <2>4. QED
    BY <2>1, <2>2, <2>3 DEF Cursor
<1>3. QED
  BY <1>1, <1>2

\* Alignment to the windows keeps the cursor where it is, above or over the end.
LEMMA CursorAligned ==
    ASSUME SoundBars, region \in Regions, NEW p \in Pools, Cursor(p, lower[p])
    PROVE  /\ Cursor(p, Aligned[p])
           /\ lower[p] = 0 => Aligned[p] = 0
           /\ Present(p) => \/ lower[p] <= Aligned[p] /\ Aligned[p] < lower[p] + Granule[p]
                            \/ Aligned[p] = 0 /\ lower[p] > Wrap - Granule[p]
           /\ Present(p) => \A k \in 0 .. Wrap : Beyond(region, p, k) /\ k * Granule[p] < Wrap =>
                               lower[p] <= Aligned[p]
<1>1. CASE ~Present(p)
  BY <1>1, RegionType DEF SoundBars, Cursor, Aligned, Present
<1>2. CASE Present(p)
  <2> DEFINE g == Granule[p]  a == AlignUp(lower[p], g)
  <2>1. Aligned[p] = a
    BY <1>2 DEF Aligned
  <2>2. g \in Nat \ {0} /\ Wrap % g = 0 /\ lower[p] \in 0 .. Wrap - 1 /\ Wrap \in Nat
        /\ region[p].start \in Nat
    BY RegionType DEF SoundBars, Cursor
  <2>3. /\ a \in 0 .. Wrap - 1
        /\ (lower[p] <= a /\ a < lower[p] + g) \/ (a = 0 /\ lower[p] > Wrap - g)
        /\ \A k \in Nat : lower[p] <= k * g /\ k * g < Wrap => lower[p] <= a /\ a <= k * g
    BY <2>2, Alignment
  <2> HIDE DEF a, g
  <2>4. (region[p].start <= a \/ a = 0) /\ (lower[p] = 0 => a = 0)
    <3>1. lower[p] = 0 => a = 0
      <4>1. 0 * g = 0 /\ 0 < Wrap /\ 0 \in Nat
        BY <2>2
      <4>2. lower[p] = 0 => a <= 0
        BY <2>3, <4>1
      <4>3. QED
        BY <2>3, <4>2
    <3>2. region[p].start <= lower[p] \/ lower[p] = 0
      BY <1>2 DEF Cursor, Present
    <3>3. QED
      BY <2>2, <2>3, <3>1, <3>2
  <2>5. ASSUME NEW k \in 0 .. Wrap, Beyond(region, p, k), k * Granule[p] < Wrap
        PROVE  region[p].start <= a /\ a <= k * Granule[p] /\ lower[p] <= a
    <3>1. region[p].start <= lower[p] /\ lower[p] <= k * g
      BY <1>2, <2>5 DEF Cursor, Present, g
    <3>2. lower[p] <= a /\ a <= k * g
      BY <2>2, <2>3, <2>5, <3>1 DEF g
    <3>3. QED
      BY <2>2, <2>3, <3>1, <3>2 DEF g
  <2>6. Cursor(p, a)
    BY <2>3, <2>4, <2>5 DEF Cursor
  <2>7. QED
    BY <1>2, <2>1, <2>3, <2>4, <2>5, <2>6 DEF g
<1>3. QED
  BY <1>1, <1>2

LEMMA CursorAdvanced ==
    ASSUME SoundBars, region \in Regions, NEW p \in Pools, Present(p), Cursor(p, lower[p]),
           NEW s \in Nat, Sound(region, p, s), Fits(p, s)
    PROVE  /\ Cursor(p, Advanced(p, s))
           /\ s = 0 => /\ region[p].start + region[p].size = Wrap /\ region[p].start # 0
                       /\ Advanced(p, s) = 0
<1>1. /\ region[p].start \in Nat /\ region[p].size \in Nat /\ region[p].size # 0
      /\ region[p].start + region[p].size <= Wrap /\ Wrap \in Nat /\ Wrap > 0
  <2>1. /\ region[p].start \in Nat /\ region[p].size \in Nat /\ Wrap \in Nat
        /\ region[p].start + region[p].size <= Wrap
    BY RegionType
  <2>2. region[p].size # 0
    BY DEF Present
  <2>3. QED
    BY <2>1, <2>2
<1>2. CASE s = 0
  <2>1. region[p].start # 0 /\ AlignUp(lower[p], s) = 0
    BY <1>2 DEF Sound, AlignUp
  <2>2. (0 - region[p].start) % Wrap <= region[p].size
    <3>1. (0 - region[p].start + 0) % Wrap <= region[p].size
      BY <1>2, <2>1 DEF Fits
    <3>2. 0 - region[p].start + 0 = 0 - region[p].start
      BY <1>1
    <3>3. QED
      BY <3>1, <3>2
  <2>3. PICK v \in Int : v = 0 - region[p].start /\ v % Wrap <= region[p].size
    BY <1>1, <2>2
  <2>4. v % Wrap = v + Wrap
    <3>1. -Wrap <= v /\ v < 0 /\ v < 2 * Wrap
      BY <1>1, <2>1, <2>3
    <3>2. QED
      BY <1>1, <3>1, Wraps
  <2>5. region[p].start + region[p].size = Wrap
    BY <1>1, <2>3, <2>4
  <2>6. Advanced(p, s) = 0
    <3>1. Advanced(p, s) = (0 + 0) % Wrap
      BY <1>2, <2>1 DEF Advanced
    <3>2. 0 % Wrap = 0
      BY <1>1, Wraps
    <3>3. QED
      BY <3>1, <3>2
  <2>7. ASSUME NEW k \in 0 .. Wrap, Beyond(region, p, k), k * Granule[p] < Wrap PROVE FALSE
    <3>1. k * Granule[p] \in Nat
      BY RegionType
    <3>2. QED
      BY <1>1, <2>5, <2>7, <3>1 DEF Beyond
  <2>8. QED
    BY <1>1, <2>1, <2>5, <2>6, <2>7 DEF Cursor
<1>3. CASE s # 0
  <2> DEFINE a == AlignUp(lower[p], s)
  <2>1. /\ a \in Nat /\ region[p].start <= a /\ a + s <= region[p].start + region[p].size
        /\ a + s = Wrap => region[p].start # 0
        /\ Advanced(p, s) = IF a + s = Wrap THEN 0 ELSE a + s
    BY <1>1, <1>3, Allocation
  <2> HIDE DEF a
  <2>2. ASSUME NEW k \in 0 .. Wrap, Beyond(region, p, k), k * Granule[p] < Wrap
        PROVE  region[p].start <= Advanced(p, s) /\ Advanced(p, s) <= k * Granule[p]
    <3>1. k * Granule[p] \in Nat
      BY RegionType
    <3>2. a + s <= k * Granule[p]
      BY <1>1, <2>1, <2>2, <3>1 DEF Beyond
    <3>3. QED
      BY <1>1, <1>3, <2>1, <2>2, <3>1, <3>2
  <2>3. QED
    BY <1>1, <1>3, <2>1, <2>2 DEF Cursor
<1>4. QED
  BY <1>2, <1>3

-----------------------------------------------------------------------------
(* Every BAR is in its region.                                             *)

BarType(x) ==
    /\ x.fn \in Fn /\ x.pool \in Pools /\ Present(x.pool) /\ x.size \in Nat /\ x.addr \in Nat
    /\ Sound(region, x.pool, x.size)

AllocInv ==
    /\ region \in Regions /\ DOMAIN lower = Pools /\ \A p \in Pools : Cursor(p, lower[p])
    /\ \A x \in bar : BarType(x)
    /\ BarsInRegion
    /\ result = "running" /\ Top.fn # Root => Top.slot # 0

\* The steps that allocate nothing.
LEMMA Keeping ==
    ASSUME SoundBars, AllocInv, UNCHANGED <<hw, region, bar>>,
           lower' \in {lower, pciauto_region_init, Aligned},
           (result = "running" /\ Top.fn # Root => Top.slot # 0)'
    PROVE  AllocInv'
<1>1. region \in Regions /\ region' = region /\ bar' = bar /\ Fn' = Fn
      /\ \A p : Present(p)' = Present(p)
  BY DEF AllocInv, Fn, Present
<1>2. DOMAIN lower' = Pools
  BY DEF AllocInv, pciauto_region_init, Aligned
<1>3. ASSUME NEW p \in Pools PROVE Cursor(p, lower'[p])
  <2>1. Cursor(p, lower[p])
    BY DEF AllocInv
  <2>2. Cursor(p, pciauto_region_init[p]) /\ Cursor(p, Aligned[p])
    BY <1>1, <2>1, CursorInit, CursorAligned
  <2>3. QED
    BY <2>1, <2>2
<1>4. \A p \in Pools : Cursor(p, lower[p])'
  BY <1>1, <1>3 DEF Cursor, Beyond
<1>5. \A x \in bar' : BarType(x)'
  BY <1>1 DEF AllocInv, BarType, Sound, Beyond
<1>6. BarsInRegion'
  BY <1>1 DEF AllocInv, BarsInRegion
<1>7. QED
  BY <1>1, <1>2, <1>4, <1>5, <1>6 DEF AllocInv

\* What is read from the BAR in turn, when it is there.
LEMMA AnswerType ==
    ASSUME SoundBars, RouteInv, AllocInv, SettingUp
    PROVE  /\ Top.fn \in Fn /\ Top.slot \in 1 .. Len(Answers(Top.fn))
           /\ Answer.kind \in Pools =>
                 /\ Answer.size \in Nat /\ PoolOf(Answer) \in Pools
                 /\ \A r \in Regions : r[PoolOf(Answer)].size # 0 => Sound(r, PoolOf(Answer), Answer.size)
<1>1. /\ hw \in Topologies /\ Top \in FrameType /\ Top.fn # Root /\ Top.slot # 0
      /\ Top.slot <= Len(Answers(Top.fn))
  BY TopType DEF SettingUp, RouteInv, Numbers, AllocInv
<1>2. Top.fn \in DOMAIN hw /\ Top.slot \in Nat \ {0}
  BY <1>1 DEF FrameType, Fn
<1>3. /\ Len(Answers(Top.fn)) \in Nat
      /\ \A i \in 1 .. Len(Answers(Top.fn)) : Answers(Top.fn)[i].kind \in Pools =>
            /\ Answers(Top.fn)[i].size \in Nat
            /\ \A r \in Regions, p \in Pools :
                  From(Answers(Top.fn)[i], p) /\ r[p].size # 0 => Sound(r, p, Answers(Top.fn)[i].size)
  BY <1>1, <1>2 DEF SoundBars, Answers
<1>4. Top.slot \in 1 .. Len(Answers(Top.fn))
  BY <1>1, <1>2, <1>3
<1>5. Answer.kind \in Pools => PoolOf(Answer) \in Pools /\ From(Answer, PoolOf(Answer))
  BY DEF PoolOf, From, Pools
<1>6. QED
  BY <1>2, <1>3, <1>4, <1>5 DEF Answer, Fn

\* The BAR a step assigns.
NewBar == [fn |-> Top.fn, slot |-> Top.slot, pool |-> PoolOf(Answer),
           addr |-> AlignUp(lower[PoolOf(Answer)], Answer.size), size |-> Answer.size]

\* Its address is not below the cursor of its region, which moves behind it.
LEMMA Assigned ==
    ASSUME SoundBars, RouteInv, AllocInv, AssignBar
    PROVE  LET x == NewBar p == x.pool IN
           /\ bar' = bar \cup {x} /\ lower' = [lower EXCEPT ![p] = Advanced(p, x.size)]
           /\ x.fn = Top.fn /\ BarType(x) /\ Cursor(p, Advanced(p, x.size))
           /\ x.size = 0 => /\ region[p].start + region[p].size = Wrap /\ region[p].start # 0
                            /\ Advanced(p, x.size) = 0
           /\ x.size # 0 =>
                 /\ region[p].start <= x.addr /\ x.addr + x.size <= region[p].start + region[p].size
                 /\ x.addr % x.size = 0
                 /\ lower[p] <= x.addr /\ (lower[p] = 0 => region[p].start = 0)
                 /\ x.addr + x.size = Wrap => region[p].start # 0
                 /\ Advanced(p, x.size) = IF x.addr + x.size = Wrap THEN 0 ELSE x.addr + x.size
<1> DEFINE x == NewBar  p == PoolOf(Answer)  s == Answer.size
<1>1. SettingUp /\ Answer.kind \in Pools /\ Fits(p, s) /\ region \in Regions
  BY DEF AssignBar, AllocInv
<1>2. /\ bar' = bar \cup {x} /\ lower' = [lower EXCEPT ![p] = Advanced(p, s)]
  BY DEF AssignBar, NewBar
<1>3. Top.fn \in Fn /\ s \in Nat /\ p \in Pools /\ Present(p) /\ Sound(region, p, s)
  <2>1. Present(p) /\ region[p].size # 0
    BY <1>1 DEF Fits, Present
  <2>2. QED
    BY <1>1, <2>1, AnswerType
<1>4. Cursor(p, lower[p])
  BY <1>3 DEF AllocInv
<1>5. /\ Cursor(p, Advanced(p, s))
      /\ s = 0 => /\ region[p].start + region[p].size = Wrap /\ region[p].start # 0
                  /\ Advanced(p, s) = 0
  BY <1>1, <1>3, <1>4, CursorAdvanced
<1>6. x.fn = Top.fn /\ x.pool = p /\ x.size = s /\ x.addr = AlignUp(lower[p], s)
  BY DEF NewBar
<1>7. s # 0 => /\ AlignUp(lower[p], s) \in Nat
               /\ region[p].start <= AlignUp(lower[p], s)
               /\ AlignUp(lower[p], s) + s <= region[p].start + region[p].size
               /\ AlignUp(lower[p], s) % s = 0
               /\ lower[p] <= AlignUp(lower[p], s) /\ (lower[p] = 0 => region[p].start = 0)
               /\ AlignUp(lower[p], s) + s = Wrap => region[p].start # 0
               /\ Advanced(p, s) = IF AlignUp(lower[p], s) + s = Wrap THEN 0 ELSE AlignUp(lower[p], s) + s
  BY <1>1, <1>3, <1>4, Allocation DEF Present
<1>8. AlignUp(lower[p], s) \in Nat
  BY <1>7 DEF AlignUp
<1> HIDE DEF x, p, s
<1>9. BarType(x)
  BY <1>3, <1>6, <1>8 DEF BarType
<1>10. QED
  BY <1>2, <1>5, <1>6, <1>7, <1>9 DEF x, p, s

LEMMA AssignBarAlloc == ASSUME SoundBars, RouteInv, AllocInv, AssignBar PROVE AllocInv'
<1> DEFINE x == NewBar  p == x.pool
<1>1. /\ bar' = bar \cup {x} /\ lower' = [lower EXCEPT ![p] = Advanced(p, x.size)]
      /\ BarType(x) /\ Cursor(p, Advanced(p, x.size))
      /\ x.size = 0 => region[p].start + region[p].size = Wrap
      /\ x.size # 0 =>
            /\ region[p].start <= x.addr /\ x.addr + x.size <= region[p].start + region[p].size
            /\ x.addr % x.size = 0
  BY Assigned
<1>2. /\ UNCHANGED <<hw, region, result>> /\ result = "running" /\ Top.fn # Root
      /\ stack' = [stack EXCEPT ![Len(stack)].slot = @ + SlotsTaken]
  BY DEF AssignBar, SettingUp
<1>3. Fn' = Fn /\ \A q : Present(q)' = Present(q)
  BY <1>2 DEF Fn, Present
<1> HIDE DEF x, p
<1>4. DOMAIN lower' = Pools /\ \A q \in Pools : Cursor(q, lower'[q])
  BY <1>1 DEF AllocInv
<1>5. \A q \in Pools : Cursor(q, lower[q])'
  BY <1>2, <1>4 DEF Cursor, Beyond
<1>6. \A y \in bar' : BarType(y)'
  <2>1. \A y \in bar' : BarType(y)
    BY <1>1 DEF AllocInv
  <2>2. QED
    BY <1>2, <1>3, <2>1 DEF BarType, Sound, Beyond
<1>7. BarsInRegion'
  <2> SUFFICES ASSUME NEW y \in bar'
               PROVE  IF y.size = 0 THEN region[y.pool].start + region[y.pool].size = Wrap
                      ELSE /\ region[y.pool].start <= y.addr
                           /\ y.addr + y.size <= region[y.pool].start + region[y.pool].size
                           /\ y.addr % y.size = 0
    BY <1>2 DEF BarsInRegion
  <2>1. CASE y \in bar
    BY <2>1 DEF AllocInv, BarsInRegion
  <2>2. CASE y = x
    BY <1>1, <2>2 DEF p
  <2>3. QED
    BY <1>1, <2>1, <2>2
<1>8. (result = "running" /\ Top.fn # Root => Top.slot # 0)'
  <2>1. Top \in FrameType /\ stack \in Seq(FrameType) /\ Len(stack) \in 1 .. Len(stack) /\ Len(stack) \in Nat
    BY <1>2, TopType DEF RouteInv, Descent
  <2>2. Top.slot \in Nat
    BY <2>1 DEF FrameType
  <2>3. Top' = [Top EXCEPT !.slot = @ + SlotsTaken]
    BY <1>2, <2>1 DEF Top
  <2>4. QED
    BY <2>1, <2>2, <2>3 DEF FrameType, SlotsTaken
<1>9. QED
  BY <1>2, <1>4, <1>5, <1>6, <1>7, <1>8 DEF AllocInv

\* The frame of the call in progress, once it is replaced.
LEMMA TopReplaced ==
    ASSUME NEW s \in Seq(FrameType), Len(s) \in 1 .. Len(s), NEW t,
           stack' = [s EXCEPT ![Len(s)] = t]
    PROVE  Top' = t
BY DEF Top

LEMMA OtherStepsAlloc ==
    ASSUME SoundBars, RouteInv, AllocInv, Next, ~AssignBar
    PROVE  AllocInv'
<1>1. Descent /\ result = "running"
  BY DEF RouteInv, Next, NextDevice, SkipBar, LeafDone, EnterBridge, LeaveBridge, Finish,
         CreateFails, BindFails, SetUp, SettingUp
<1>2. /\ stack \in Seq(FrameType) /\ Len(stack) \in 1 .. Len(stack) /\ Len(stack) \in Nat
      /\ Top \in FrameType /\ Top = stack[Len(stack)]
  BY <1>1, TopType DEF Descent, Top
<1>3. UNCHANGED <<hw, region, bar>> /\ lower' \in {lower, pciauto_region_init, Aligned}
  BY DEF Next, NextDevice, SkipBar, LeafDone, EnterBridge, LeaveBridge, Finish,
         CreateFails, BindFails, Closed
<1>4. result' = "running" /\ Top'.fn # Root => Top'.slot # 0
  <2>1. CASE NextDevice
    <3>1. PICK f \in Top.todo : stack' = [stack EXCEPT ![Len(stack)].fn = f, ![Len(stack)].slot = 1]
      BY <2>1 DEF NextDevice
    <3>2. stack' = [stack EXCEPT ![Len(stack)] = [Top EXCEPT !.fn = f, !.slot = 1]]
      BY <3>1 DEF Top
    <3>3. Top' = [Top EXCEPT !.fn = f, !.slot = 1]
      BY <1>2, <3>2, TopReplaced
    <3>4. QED
      BY <1>2, <3>3 DEF FrameType
  <2>2. CASE SkipBar
    <3>1. Top' = [Top EXCEPT !.slot = @ + 1]
      BY <1>2, <2>2 DEF SkipBar, Top
    <3>2. Top'.slot = Top.slot + 1 /\ Top.slot \in Nat
      BY <1>2, <3>1 DEF FrameType
    <3>3. QED
      BY <3>2
  <2>3. CASE LeafDone
    <3>1. stack' = [stack EXCEPT ![Len(stack)] = [Top EXCEPT !.todo = @ \ {Top.fn}, !.fn = Root]]
      BY <2>3 DEF LeafDone, Done, Top
    <3>2. Top' = [Top EXCEPT !.todo = @ \ {Top.fn}, !.fn = Root]
      BY <1>2, <3>1, TopReplaced
    <3>3. QED
      BY <1>2, <3>2 DEF FrameType
  <2>4. CASE EnterBridge
    <3>1. stack' = Append(stack, Frame(Top.fn, last + 1))
      BY <2>4 DEF EnterBridge
    <3>2. Top' = Frame(Top.fn, last + 1)
      BY <1>2, <3>1 DEF Top
    <3>3. QED
      BY <3>2 DEF Frame
  <2>5. CASE LeaveBridge
    <3> DEFINE s == SubSeq(stack, 1, Len(stack) - 1)
    <3>1. Len(stack) > 1 /\ Done(s, Reported(Top.bus))
      BY <2>5 DEF LeaveBridge
    <3>2. s \in Seq(FrameType) /\ Len(s) = Len(stack) - 1 /\ Len(s) \in 1 .. Len(s)
          /\ s[Len(s)] \in FrameType
      BY <1>2, <3>1
    <3>3. stack' = [s EXCEPT ![Len(s)] = [s[Len(s)] EXCEPT !.todo = @ \ {s[Len(s)].fn}, !.fn = Root]]
      BY <3>1 DEF Done
    <3> HIDE DEF s
    <3>4. Top' = [s[Len(s)] EXCEPT !.todo = @ \ {s[Len(s)].fn}, !.fn = Root]
      BY <3>2, <3>3, TopReplaced
    <3>5. QED
      BY <3>2, <3>4 DEF FrameType
  <2>6. CASE Finish \/ CreateFails \/ BindFails
    BY <2>6 DEF Finish, CreateFails, BindFails
  <2>7. QED
    BY <2>1, <2>2, <2>3, <2>4, <2>5, <2>6 DEF Next
<1>5. QED
  BY <1>3, <1>4, Keeping

LEMMA InitAlloc == ASSUME SoundBars, Init PROVE AllocInv
<1>1. region \in Regions /\ lower = pciauto_region_init /\ bar = {} /\ stack = <<Frame(Root, 0)>>
  BY DEF Init
<1>2. DOMAIN lower = Pools /\ \A p \in Pools : Cursor(p, lower[p])
  BY <1>1, CursorInit DEF pciauto_region_init
<1>3. Top.fn = Root
  BY <1>1 DEF Top, Frame
<1>4. QED
  BY <1>1, <1>2, <1>3 DEF AllocInv, BarsInRegion

LEMMA NextAlloc == ASSUME SoundBars, RouteInv, AllocInv, [Next]_vars PROVE AllocInv'
<1>1. CASE AssignBar
  BY <1>1, AssignBarAlloc
<1>2. CASE Next /\ ~AssignBar
  BY <1>2, OtherStepsAlloc
<1>3. CASE UNCHANGED vars
  <2>1. AllocInv' = AllocInv
    BY <1>3 DEF vars, AllocInv, Cursor, Beyond, BarType, Sound, Present, Fn, BarsInRegion, Top
  <2>2. QED
    BY <2>1
<1>4. QED
  BY <1>1, <1>2, <1>3

-----------------------------------------------------------------------------
(* Two BARs of an address space are apart, where the tree is a single path.  *)

\* A bridge that is still to be configured is the first thing behind its bus: nothing is
\* assigned, the regions are as they start, and every bridge numbered so far is on the
\* way to it.
PathInv ==
    /\ \A g \in Top.todo : g \in Bridges =>
          bar = {} /\ lower = pciauto_region_init /\ \A h \in Numbered : OnStack(h)
    /\ Top.fn # Root => \A g \in Top.todo : hw[Top.fn].devfn <= hw[g].devfn

\* A BAR ends before the cursor of its region, unless that has been over the end.
Behind(x) == x.addr + x.size <= lower[x.pool] \/ (lower[x.pool] = 0 /\ region[x.pool].start # 0)

Disjoint(x, y) == x.addr + x.size <= y.addr \/ y.addr + y.size <= x.addr

ApartInv ==
    /\ \A x \in Sized : Behind(x)
    /\ \A x, y \in Sized : x = y \/ x.pool # y.pool \/ Disjoint(x, y)

SepInv == SinglePath => (result = "running" => PathInv) /\ ApartInv

\* The buses of the calls in progress, when a bridge is entered and when it is left.
LEMMA Entering ==
    ASSUME RouteInv, EnterBridge
    PROVE  /\ Top' = Frame(Top.fn, last + 1) /\ Numbered' = Numbered \cup {Top.fn}
           /\ Top.fn \notin Numbered /\ Top.fn \in Top.todo
           /\ \A g : OnStack(g)' <=> g = Top.fn \/ OnStack(g)
<1> DEFINE l == Len(stack)  f == Top.fn
<1>1. Descent /\ Passing /\ Numbers /\ OneRoute /\ f \in Bridges
  BY DEF RouteInv, EnterBridge, SetUp
<1>2. l \in Nat /\ l \in 1 .. l /\ Top = stack[l] /\ stack \in Seq(FrameType)
  BY <1>1, TopType DEF Top, Descent
<1>3. /\ f \notin Numbered /\ f # Root /\ hw[f].bus = Top.bus /\ Top.bus \in {Root} \cup Numbered
      /\ \A g \in Numbered : g \in Above(Top.bus) <=> last + 1 <= sub[g]
  BY <1>1, NextNumber
<1>4. Prescan(f, last + 1) /\ hw' = hw /\ stack' = Append(stack, Frame(f, last + 1))
  BY DEF EnterBridge
<1>5. Numbered' = Numbered \cup {f}
  BY <1>1, <1>3, <1>4, Numbering
<1>6. f \in Top.todo
  BY <1>1, <1>2, <1>3 DEF Descent
<1>7. /\ Len(stack') = l + 1 /\ stack'[l + 1] = Frame(f, last + 1)
      /\ \A i \in 1 .. l : stack'[i] = stack[i]
  BY <1>2, <1>4
<1>8. Frame(f, last + 1).bus = f
  BY DEF Frame
<1> HIDE DEF f, l
<1>9. ASSUME NEW g PROVE OnStack(g)' <=> g = f \/ OnStack(g)
  <2>1. OnStack(g)' <=> \E i \in 2 .. l + 1 : g = stack'[i].bus
    BY <1>7 DEF OnStack
  <2>2. OnStack(g) <=> \E i \in 2 .. l : g = stack[i].bus
    BY DEF OnStack, l
  <2>3. \A i \in 2 .. l : stack'[i].bus = stack[i].bus
    BY <1>2, <1>7
  <2>4. stack'[l + 1].bus = f /\ 2 .. l + 1 = (2 .. l) \cup {l + 1}
    BY <1>2, <1>7, <1>8
  <2>5. QED
    BY <2>1, <2>2, <2>3, <2>4
<1>10. Top' = Frame(f, last + 1)
  BY <1>7 DEF Top
<1>11. QED
  BY <1>3, <1>5, <1>6, <1>9, <1>10 DEF f

LEMMA Leaving ==
    ASSUME RouteInv, LeaveBridge
    PROVE  /\ Top.bus \in Numbered /\ OnStack(Top.bus) /\ Numbered' = Numbered
           /\ \A g : OnStack(g)' <=> OnStack(g) /\ g # Top.bus
           /\ Top'.fn = Root /\ Top.bus \notin Top'.todo
           /\ \A g \in Top'.todo : g \in Fn /\ hw[g].bus = hw[Top.bus].bus
<1> DEFINE l == Len(stack)  m == l - 1  b == Top.bus  s == SubSeq(stack, 1, l - 1)
           t == [stack[m] EXCEPT !.todo = @ \ {stack[m].fn}, !.fn = Root]
<1>1. Descent /\ Passing /\ Numbers /\ OneRoute /\ result = "running" /\ l > 1
  BY DEF RouteInv, LeaveBridge
<1>2. /\ l \in Nat /\ m \in Nat /\ m >= 1 /\ m \in 1 .. l /\ m \in 1 .. m /\ l \in 1 .. l
      /\ l \in 2 .. l /\ l = m + 1
      /\ Top = stack[l] /\ stack \in Seq(FrameType) /\ \A i \in 1 .. l : stack[i] \in FrameType
  BY <1>1, TopType DEF Top, Descent
<1>3. b \in Numbered /\ stack[m].fn = b /\ b # Root /\ OnStack(b)
  <2>1. b \in Numbered /\ stack[m].fn = b
    BY <1>1, <1>2 DEF Descent
  <2>2. QED
    BY <1>1, <1>2, <2>1, NoBridgeIsRoot DEF Numbered, OnStack, Numbers
<1>4. /\ s \in Seq(FrameType) /\ Len(s) = m /\ \A i \in 1 .. m : s[i] = stack[i]
  BY <1>2
<1>5. t \in FrameType /\ t.bus = stack[m].bus /\ t.todo = stack[m].todo \ {b} /\ t.fn = Root
  BY <1>2, <1>3 DEF FrameType
<1>6. stack' = [s EXCEPT ![m] = t]
  BY <1>2, <1>4 DEF LeaveBridge, Done
<1>7. /\ b \in stack[m].todo /\ \A g \in stack[m].todo : g \in Fn /\ hw[g].bus = stack[m].bus
  <2>1. stack[m].fn # Root => stack[m].fn \in stack[m].todo
    BY <1>1, <1>2 DEF Descent
  <2>2. \A g \in stack[m].todo : hw[g].bus = stack[m].bus
    BY <1>1, <1>2 DEF Descent
  <2>3. stack[m].todo \subseteq Fn
    BY <1>2 DEF FrameType
  <2>4. QED
    BY <1>3, <2>1, <2>2, <2>3
<1> HIDE DEF t, s, m
<1>8. stack' \in Seq(FrameType) /\ Len(stack') = m /\ stack'[m] = t
      /\ \A i \in 1 .. m : i # m => stack'[i] = stack[i]
  BY <1>2, <1>4, <1>5, <1>6
<1>9. \A i \in 1 .. m : i \in 1 .. l /\ i # l /\ stack'[i].bus = stack[i].bus
  BY <1>2, <1>5, <1>8
<1>10. Numbered' = Numbered
  BY DEF LeaveBridge, Numbered, Bridges, Fn
<1> HIDE DEF b, l
<1>11. ASSUME NEW g PROVE OnStack(g)' <=> OnStack(g) /\ g # b
  <2>1. OnStack(g)' <=> \E i \in 2 .. m : g = stack'[i].bus
    BY <1>8 DEF OnStack
  <2>2. OnStack(g) <=> \E i \in 2 .. l : g = stack[i].bus
    BY DEF OnStack, l
  <2>3. \A i \in 2 .. m : i \in 2 .. l /\ i \in 1 .. m
    BY <1>2
  <2>4. \A i \in 2 .. l : i \in 2 .. m \/ i = l
    BY <1>2
  <2>5. \A i \in 1 .. m : stack[i].bus # stack[l].bus
    BY <1>1, <1>2, <1>9 DEF Descent, l
  <2>6. stack[l].bus = b
    BY <1>2 DEF b
  <2>7. QED
    BY <1>9, <2>1, <2>2, <2>3, <2>4, <2>5, <2>6
<1>12. Top' = t
  BY <1>8 DEF Top
<1>13. QED
  BY <1>3, <1>5, <1>7, <1>10, <1>11, <1>12 DEF b

\* What SinglePath says of the bus being configured: a bridge on it comes first, is the
\* only one and has no BAR.
LEMMA FirstOfBus ==
    ASSUME RouteInv, result = "running", SinglePath, NEW f \in Bridges, NEW g \in Fn,
           hw[g].bus = hw[f].bus, g # f
    PROVE  g \notin Bridges /\ ~(hw[g].devfn <= hw[f].devfn)
<1>1. f \in Fn /\ g \in Fn /\ hw \in Topologies
  BY DEF RouteInv, Numbers, Bridges
<1>2. hw[f].devfn \in 0 .. 255 /\ hw[g].devfn \in 0 .. 255
  BY <1>1, AutoAssumption DEF Fn
<1>3. g \notin Bridges /\ hw[g].devfn > hw[f].devfn
  BY <1>1 DEF SinglePath
<1>4. ~(hw[g].devfn <= hw[f].devfn)
  <2>1. PICK m \in 0 .. 255, n \in 0 .. 255 : m = hw[f].devfn /\ n = hw[g].devfn
    BY <1>2
  <2>2. n > m
    BY <1>3, <2>1
  <2>3. ~(n <= m)
    BY <2>2
  <2>4. QED
    BY <2>1, <2>3
<1>5. QED
  BY <1>3, <1>4

\* A BAR is assigned only when no bridge is left on the bus.
LEMMA BridgesDone ==
    ASSUME SoundBars, RouteInv, AllocInv, PathInv, SinglePath, AssignBar
    PROVE  Top.todo \cap Bridges = {}
<1>1. /\ SettingUp /\ Answer.kind \in Pools /\ result = "running" /\ Descent /\ Top.fn # Root
  BY DEF AssignBar, SettingUp, RouteInv
<1>2. Top \in FrameType /\ Top = stack[Len(stack)] /\ Len(stack) \in 1 .. Len(stack)
  BY <1>1, TopType DEF Top
<1>3. /\ Top.fn \in Top.todo /\ Top.todo \subseteq Fn /\ \A g \in Top.todo : hw[g].bus = Top.bus
  BY <1>1, <1>2 DEF Descent, FrameType
<1>4. Top.fn \notin Bridges
  <2>1. Top.slot \in 1 .. Len(Answers(Top.fn)) /\ Answer = Answers(Top.fn)[Top.slot]
    BY <1>1, AnswerType DEF Answer
  <2>2. Top.fn \in Bridges => Answer.kind = "none"
    BY <2>1 DEF SinglePath
  <2>3. "none" \notin Pools
    BY DEF Pools
  <2>4. QED
    BY <1>1, <2>2, <2>3
<1>5. ASSUME NEW g \in Top.todo, g \in Bridges PROVE FALSE
  <2>1. hw[Top.fn].devfn <= hw[g].devfn
    BY <1>1, <1>5 DEF PathInv
  <2>2. hw[Top.fn].bus = hw[g].bus /\ Top.fn \in Fn /\ Top.fn # g
    BY <1>3, <1>4, <1>5
  <2>3. QED
    BY <1>1, <1>5, <2>1, <2>2, FirstOfBus
<1>6. QED
  BY <1>5

\* The next frame has no more to do, and what is numbered and on the way stays.
LEMMA PathKept ==
    ASSUME PathInv, UNCHANGED <<hw, region, lower, number, bar>>, \A g : OnStack(g)' <=> OnStack(g),
           Top'.todo \subseteq Top.todo,
           Top'.fn # Root => \A g \in Top'.todo : hw[Top'.fn].devfn <= hw[g].devfn
    PROVE  PathInv'
<1>1. Bridges' = Bridges /\ Numbered' = Numbered /\ pciauto_region_init' = pciauto_region_init
  BY DEF Bridges, Fn, Numbered, pciauto_region_init, Present, Lowest
<1>2. QED
  BY <1>1 DEF PathInv

\* Steps that change the frame of the call in progress only.
LEMMA SameCalls ==
    ASSUME Descent, NEW t, stack' = [stack EXCEPT ![Len(stack)] = t], t.bus = Top.bus
    PROVE  Top' = t /\ \A g : OnStack(g)' <=> OnStack(g)
<1> DEFINE l == Len(stack)
<1>1. l \in Nat /\ l \in 1 .. l /\ Top = stack[l] /\ stack \in Seq(FrameType)
  BY TopType DEF Top, Descent
<1>2. Top' = t
  BY <1>1, TopReplaced
<1>3. Len(stack') = l /\ \A i \in 2 .. l : stack'[i].bus = stack[i].bus
  BY <1>1
<1> HIDE DEF l
<1>4. ASSUME NEW g PROVE OnStack(g)' <=> OnStack(g)
  <2>1. OnStack(g)' <=> \E i \in 2 .. l : g = stack'[i].bus
    BY <1>3 DEF OnStack
  <2>2. OnStack(g) <=> \E i \in 2 .. l : g = stack[i].bus
    BY DEF OnStack, l
  <2>3. QED
    BY <1>3, <2>1, <2>2
<1>5. QED
  BY <1>2, <1>4

LEMMA NextPath ==
    ASSUME SoundBars, RouteInv, AllocInv, result = "running" => PathInv, SinglePath, Next,
           result' = "running"
    PROVE  PathInv'
<1>1. Descent /\ result = "running" /\ PathInv
  BY DEF RouteInv, Next, NextDevice, SkipBar, AssignBar, LeafDone, EnterBridge, LeaveBridge,
         Finish, CreateFails, BindFails, SetUp, SettingUp
<1>2. Top \in FrameType
  BY <1>1, TopType
<1>3. CASE NextDevice
  <2>1. PICK f \in Top.todo : /\ \A g \in Top.todo : hw[f].devfn <= hw[g].devfn
                              /\ stack' = [stack EXCEPT ![Len(stack)].fn = f, ![Len(stack)].slot = 1]
    BY <1>3 DEF NextDevice
  <2>2. stack' = [stack EXCEPT ![Len(stack)] = [Top EXCEPT !.fn = f, !.slot = 1]]
    BY <2>1 DEF Top
  <2> DEFINE t == [Top EXCEPT !.fn = f, !.slot = 1]
  <2>3. t.bus = Top.bus /\ t.todo = Top.todo /\ t.fn = f
    BY <1>2 DEF FrameType
  <2> HIDE DEF t
  <2>4. Top' = t /\ \A g : OnStack(g)' <=> OnStack(g)
    BY <1>1, <2>2, <2>3, SameCalls DEF t
  <2>5. UNCHANGED <<hw, region, lower, number, bar>>
    BY <1>3 DEF NextDevice
  <2>6. QED
    BY <1>1, <2>1, <2>3, <2>4, <2>5, PathKept
<1>4. ASSUME NEW k, stack' = [stack EXCEPT ![Len(stack)].slot = k], UNCHANGED <<hw, number>>
      PROVE  /\ Top'.todo = Top.todo /\ Top'.fn = Top.fn /\ \A g : OnStack(g)' <=> OnStack(g)
             /\ Bridges' = Bridges /\ Numbered' = Numbered
  <2> DEFINE t == [Top EXCEPT !.slot = k]
  <2>1. stack' = [stack EXCEPT ![Len(stack)] = t]
    BY <1>4 DEF Top
  <2>2. t.bus = Top.bus /\ t.todo = Top.todo /\ t.fn = Top.fn
    BY <1>2 DEF FrameType
  <2> HIDE DEF t
  <2>3. Top' = t /\ \A g : OnStack(g)' <=> OnStack(g)
    BY <1>1, <2>1, <2>2, SameCalls
  <2>4. QED
    BY <1>4, <2>2, <2>3 DEF Bridges, Fn, Numbered
<1>5. CASE SkipBar
  <2>1. stack' = [stack EXCEPT ![Len(stack)].slot = Top.slot + 1] /\ UNCHANGED <<hw, region, lower, number, bar>>
    BY <1>5 DEF SkipBar, Top
  <2>2. QED
    BY <1>1, <1>4, <2>1, PathKept DEF PathInv
<1>6. CASE AssignBar
  <2>1. /\ stack' = [stack EXCEPT ![Len(stack)].slot = Top.slot + SlotsTaken]
        /\ UNCHANGED <<hw, number>>
    BY <1>6 DEF AssignBar, Top
  <2>2. Top.todo \cap Bridges = {}
    BY <1>1, <1>6, BridgesDone
  <2>3. Top'.todo = Top.todo /\ Top'.fn = Top.fn /\ Bridges' = Bridges
    BY <1>4, <2>1
  <2>4. QED
    BY <1>1, <2>1, <2>2, <2>3 DEF PathInv
<1>7. CASE LeafDone
  <2> DEFINE t == [Top EXCEPT !.todo = @ \ {Top.fn}, !.fn = Root]
  <2>1. stack' = [stack EXCEPT ![Len(stack)] = t] /\ UNCHANGED <<hw, region, lower, number, bar>>
    BY <1>7 DEF LeafDone, Done, Top
  <2>2. t.bus = Top.bus /\ t.todo = Top.todo \ {Top.fn} /\ t.fn = Root
    BY <1>2 DEF FrameType
  <2> HIDE DEF t
  <2>3. Top' = t /\ \A g : OnStack(g)' <=> OnStack(g)
    BY <1>1, <2>1, <2>2, SameCalls
  <2>4. QED
    BY <1>1, <2>1, <2>2, <2>3, PathKept
<1>8. CASE EnterBridge
  <2>1. /\ Top' = Frame(Top.fn, last + 1) /\ Numbered' = Numbered \cup {Top.fn}
        /\ Top.fn \in Top.todo /\ \A g : OnStack(g)' <=> g = Top.fn \/ OnStack(g)
    BY <1>8, Entering
  <2>2. Top.fn \in Bridges /\ UNCHANGED <<hw, bar>>
    BY <1>8 DEF EnterBridge
  <2>3. /\ bar' = {} /\ \A h \in Numbered : OnStack(h)
        /\ lower' = pciauto_region_init /\ pciauto_region_init' = pciauto_region_init
    BY <1>1, <1>8, <2>1, <2>2 DEF PathInv, EnterBridge, pciauto_region_init, Present, Lowest
  <2>4. Top'.fn = Root
    BY <2>1 DEF Frame
  <2>5. QED
    BY <2>1, <2>3, <2>4 DEF PathInv
<1>9. CASE LeaveBridge
  <2>1. /\ Top.bus \in Numbered /\ Top'.fn = Root /\ Top.bus \notin Top'.todo
        /\ \A g \in Top'.todo : g \in Fn /\ hw[g].bus = hw[Top.bus].bus
    BY <1>9, Leaving
  <2>2. hw' = hw /\ Bridges' = Bridges /\ Top.bus \in Bridges
    BY <1>9, <2>1 DEF LeaveBridge, Bridges, Fn, Numbered
  <2>3. \A g \in Top'.todo : g \notin Bridges
    BY <1>1, <2>1, <2>2, FirstOfBus
  <2>4. QED
    BY <2>1, <2>2, <2>3 DEF PathInv
<1>10. CASE Finish \/ CreateFails \/ BindFails
  BY <1>10 DEF Finish, CreateFails, BindFails
<1>11. QED
  BY <1>3, <1>5, <1>6, <1>7, <1>8, <1>9, <1>10 DEF Next

\* Aligning the cursor to the windows does not take it back before a BAR.
LEMMA AlignedBehind ==
    ASSUME SoundBars, AllocInv, NEW x \in Sized, Behind(x)
    PROVE  \/ x.addr + x.size <= Aligned[x.pool]
           \/ Aligned[x.pool] = 0 /\ region[x.pool].start # 0
<1> DEFINE p == x.pool  l == lower[x.pool]  a == Aligned[x.pool]  g == Granule[x.pool]
<1>1. /\ p \in Pools /\ Present(p) /\ x.size \in Nat /\ x.addr \in Nat /\ x.size # 0
      /\ Sound(region, p, x.size) /\ Cursor(p, l) /\ region \in Regions
  BY DEF AllocInv, BarType, Sized
<1>2. /\ Cursor(p, a) /\ l \in 0 .. Wrap - 1 /\ a \in 0 .. Wrap - 1 /\ (l = 0 => a = 0)
      /\ l <= a \/ (a = 0 /\ l > Wrap - g)
      /\ \A k \in 0 .. Wrap : Beyond(region, p, k) /\ k * g < Wrap => l <= a
      /\ g \in Nat \ {0} /\ Wrap \in Nat /\ region[p].start \in Nat
  <2>1. /\ Cursor(p, a) /\ (l = 0 => a = 0)
        /\ l <= a \/ (a = 0 /\ l > Wrap - g)
        /\ \A k \in 0 .. Wrap : Beyond(region, p, k) /\ k * g < Wrap => l <= a
    BY <1>1, CursorAligned
  <2>2. g \in Nat \ {0} /\ Wrap \in Nat /\ region[p].start \in Nat
    BY <1>1, RegionType
  <2>3. QED
    BY <1>1, <2>1, <2>2 DEF Cursor
<1>3. Behind(x) <=> x.addr + x.size <= l \/ (l = 0 /\ region[p].start # 0)
  BY DEF Behind
<1> HIDE DEF l, a, g, p
<1>4. l <= a \/ (a = 0 /\ region[p].start # 0)
  <2>1. CASE region[p].start # 0
    BY <1>2, <2>1
  <2>2. CASE region[p].start = 0
    <3>1. ~(x.size < region[p].start)
      BY <1>1, <2>2
    <3>2. PICK k \in 0 .. Wrap : Beyond(region, p, k) /\ k * g + 2 * x.size <= Wrap
      BY <1>1, <3>1 DEF Sound, g, p
    <3>3. k * g \in Nat /\ k * g < Wrap
      BY <1>1, <1>2, <3>2
    <3>4. QED
      BY <1>2, <3>2, <3>3
  <2>3. QED
    BY <2>1, <2>2
<1>5. x.addr + x.size <= a \/ (a = 0 /\ region[p].start # 0)
  BY <1>1, <1>2, <1>3, <1>4
<1>6. QED
  BY <1>5 DEF a, p

LEMMA AssignBarApart ==
    ASSUME SoundBars, RouteInv, AllocInv, ApartInv, AssignBar
    PROVE  ApartInv'
<1> DEFINE x == NewBar  p == x.pool  l == lower[p]  e == Advanced(p, x.size)
<1>1. /\ bar' = bar \cup {x} /\ lower' = [lower EXCEPT ![p] = e] /\ BarType(x)
      /\ x.size = 0 => region[p].start # 0 /\ e = 0
      /\ x.size # 0 => /\ l <= x.addr /\ (l = 0 => region[p].start = 0)
                       /\ x.addr + x.size = Wrap => region[p].start # 0
                       /\ e = IF x.addr + x.size = Wrap THEN 0 ELSE x.addr + x.size
  BY Assigned
<1>2. region' = region /\ region \in Regions
  BY DEF AssignBar, AllocInv
<1>3. /\ p \in Pools /\ x.size \in Nat /\ x.addr \in Nat /\ l \in 0 .. Wrap - 1 /\ Wrap \in Nat
  <2>1. p \in Pools /\ x.size \in Nat /\ x.addr \in Nat
    BY <1>1 DEF BarType
  <2>2. l \in 0 .. Wrap - 1
    BY <2>1 DEF AllocInv, Cursor
  <2>3. QED
    BY <2>1, <2>2
<1>4. lower'[p] = e /\ \A q \in Pools : q # p => lower'[q] = lower[q]
  BY <1>1, <1>3 DEF AllocInv
<1>5. \A y \in Sized : y.addr \in Nat /\ y.size \in Nat /\ y.pool \in Pools
  BY DEF AllocInv, BarType, Sized
<1>6. \A y \in Sized' : y \in Sized \/ (y = x /\ x.size # 0)
  BY <1>1 DEF Sized
<1> HIDE DEF e, l, p, x
\* The BARs of the pool are before the new one.
<1>7. ASSUME NEW y \in Sized, y.pool = p, x.size # 0
      PROVE  y.addr + y.size <= x.addr
  <2>1. y.addr + y.size <= l \/ (l = 0 /\ region[p].start # 0)
    BY <1>7 DEF ApartInv, Behind, l
  <2>2. QED
    BY <1>1, <1>3, <1>5, <1>7, <2>1
<1>8. ASSUME NEW y \in Sized' PROVE Behind(y)'
  <2> SUFFICES y.addr + y.size <= lower'[y.pool] \/ (lower'[y.pool] = 0 /\ region[y.pool].start # 0)
    BY <1>2 DEF Behind
  <2>1. CASE y \in Sized /\ y.pool # p
    <3>1. lower'[y.pool] = lower[y.pool]
      BY <1>4, <1>5, <2>1
    <3>2. Behind(y)
      BY <2>1 DEF ApartInv
    <3>3. QED
      BY <3>1, <3>2 DEF Behind
  <2>2. CASE y \in Sized /\ y.pool = p /\ x.size # 0
    <3>1. y.addr + y.size <= x.addr
      BY <1>7, <2>2
    <3>2. QED
      BY <1>1, <1>3, <1>4, <1>5, <2>2, <3>1
  <2>3. CASE y \in Sized /\ y.pool = p /\ x.size = 0
    BY <1>1, <1>4, <2>3
  <2>4. CASE y = x /\ x.size # 0
    <3>1. y.pool = p
      BY <2>4 DEF p
    <3>2. QED
      BY <1>1, <1>3, <1>4, <2>4, <3>1
  <2>5. QED
    BY <1>6, <2>1, <2>2, <2>3, <2>4
<1>9. ASSUME NEW y \in Sized', NEW z \in Sized' PROVE y = z \/ y.pool # z.pool \/ Disjoint(y, z)
  <2>1. CASE y \in Sized /\ z \in Sized
    BY <2>1 DEF ApartInv
  <2>2. CASE y \in Sized /\ z = x /\ x.size # 0
    BY <1>7, <2>2 DEF Disjoint, p
  <2>3. CASE z \in Sized /\ y = x /\ x.size # 0
    BY <1>7, <2>3 DEF Disjoint, p
  <2>4. QED
    BY <1>6, <2>1, <2>2, <2>3
<1>10. QED
  BY <1>8, <1>9 DEF ApartInv, Disjoint

LEMMA NextApart ==
    ASSUME SoundBars, RouteInv, AllocInv, PathInv, ApartInv, SinglePath, Next
    PROVE  ApartInv'
<1>1. CASE AssignBar
  BY <1>1, AssignBarApart
<1>2. CASE EnterBridge
  <2>1. Top.fn \in Bridges /\ Top.fn \in Top.todo /\ bar' = bar
    BY <1>2, Entering DEF EnterBridge
  <2>2. bar' = {}
    BY <2>1 DEF PathInv
  <2>3. QED
    BY <2>2 DEF ApartInv, Sized
<1>3. CASE LeaveBridge \/ BindFails
  <2>1. UNCHANGED <<region, bar>> /\ lower' = Aligned
    BY <1>3 DEF LeaveBridge, BindFails, Closed
  <2>2. \A x \in Sized : Behind(x)'
    BY <2>1, AlignedBehind DEF ApartInv, Behind
  <2>3. Sized' = Sized
    BY <2>1 DEF Sized
  <2>4. QED
    BY <2>2, <2>3 DEF ApartInv, Disjoint
<1>4. CASE NextDevice \/ SkipBar \/ LeafDone \/ Finish \/ CreateFails
  <2>1. UNCHANGED <<region, bar, lower>>
    BY <1>4 DEF NextDevice, SkipBar, LeafDone, Finish, CreateFails
  <2>2. QED
    BY <2>1 DEF ApartInv, Sized, Behind, Disjoint
<1>5. QED
  BY <1>1, <1>2, <1>3, <1>4 DEF Next

LEMMA NextSep == ASSUME SoundBars, RouteInv, AllocInv, SepInv, [Next]_vars PROVE SepInv'
<1>1. CASE Next
  <2>1. hw' = hw /\ result = "running"
    BY <1>1 DEF Next, NextDevice, SkipBar, AssignBar, LeafDone, EnterBridge, LeaveBridge,
                Finish, CreateFails, BindFails, SetUp, SettingUp
  <2>2. SinglePath' <=> SinglePath
    BY <2>1 DEF SinglePath, Bridges, Fn, Answers
  <2>3. ASSUME SinglePath PROVE ApartInv' /\ (result' = "running" => PathInv')
    BY <1>1, <2>1, <2>3, NextApart, NextPath DEF SepInv
  <2>4. QED
    BY <2>2, <2>3 DEF SepInv
<1>2. CASE UNCHANGED vars
  <2>1. SepInv' = SepInv
    BY <1>2 DEF vars, SepInv, SinglePath, PathInv, ApartInv, Sized, Behind, Disjoint, OnStack,
                Numbered, Bridges, Fn, Answers, Top, pciauto_region_init, Present, Lowest
  <2>2. QED
    BY <2>1
<1>3. QED
  BY <1>1, <1>2

LEMMA InitSep == ASSUME Init PROVE SepInv
<1>1. /\ bar = {} /\ stack = <<Frame(Root, 0)>> /\ number = [b \in Bus |-> 0]
      /\ lower = pciauto_region_init
  BY DEF Init
<1>2. Top.fn = Root
  BY <1>1 DEF Top, Frame
<1>3. Numbered = {}
  BY <1>1 DEF Numbered, Bus
<1>4. QED
  BY <1>1, <1>2, <1>3 DEF SepInv, PathInv, ApartInv, Sized

\* BARs of one pool are apart as the invariant says, those of two pools of one address
\* space because the regions are.
LEMMA Separate == ASSUME AllocInv, SepInv PROVE BarsSeparate
<1> SUFFICES ASSUME SinglePath, NEW x \in Sized, NEW y \in Sized, x # y, x.pool \in Space(y.pool)
             PROVE  Disjoint(x, y)
  BY DEF BarsSeparate, Disjoint
<1>1. CASE x.pool = y.pool
  BY <1>1 DEF SepInv, ApartInv
<1>2. CASE x.pool # y.pool
  <2>1. /\ x.pool \in {"mem", "prefetch"} /\ y.pool \in {"mem", "prefetch"}
    <3>1. y.pool # "io"
      BY <1>2 DEF Space
    <3>2. x.pool \in {"mem", "prefetch"}
      BY <3>1 DEF Space
    <3>3. y.pool \in Pools
      BY DEF AllocInv, BarType, Sized
    <3>4. QED
      BY <3>1, <3>2, <3>3 DEF Pools
  <2>2. \A z \in {x, y} : /\ region[z.pool].start \in Nat /\ region[z.pool].size \in Nat
                          /\ region[z.pool].size # 0 /\ z.addr \in Nat /\ z.size \in Nat
                          /\ region[z.pool].start <= z.addr
                          /\ z.addr + z.size <= region[z.pool].start + region[z.pool].size
    <3>1. \A z \in Sized : BarType(z) /\ region[z.pool].start <= z.addr
                          /\ z.addr + z.size <= region[z.pool].start + region[z.pool].size
      BY DEF AllocInv, BarsInRegion, Sized
    <3>2. QED
      BY <3>1, RegionType DEF BarType, Present, AllocInv
  <2>3. \/ region[x.pool].start + region[x.pool].size <= region[y.pool].start
        \/ region[y.pool].start + region[y.pool].size <= region[x.pool].start
    <3>1. \/ region["mem"].size = 0 \/ region["prefetch"].size = 0
          \/ region["mem"].start + region["mem"].size <= region["prefetch"].start
          \/ region["prefetch"].start + region["prefetch"].size <= region["mem"].start
      BY AutoAssumption DEF AllocInv
    <3>2. QED
      BY <1>2, <2>1, <2>2, <3>1
  <2>4. QED
    BY <2>2, <2>3 DEF Disjoint
<1>3. QED
  BY <1>1, <1>2

-----------------------------------------------------------------------------
(* Every BAR is in the windows on the way to it and in no other.           *)

\* Where the cursor of a region is, again: not before the first address a BAR is put at,
\* unless it has been over the end and no BAR is assigned from there any more.
Entered(p, l) ==
    Present(p) =>
        \/ Lowest(p) <= l
        \/ /\ l = 0
           /\ \/ region[p].start # 0
              \/ \A k \in 0 .. Wrap : ~(Beyond(region, p, k) /\ k * Granule[p] < Wrap)

\* A window as it is before its bridge is entered, and one that is closed for good.
Unopened(p, g) == base[p][g] = 0 /\ limit[p][g] = Granule[p] % Wrap
Shut(p, g)     == base[p][g] = Wrap - 1 /\ limit[p][g] = Granule[p] % Wrap

\* A window once its bridge is left: behind the BARs below the bridge, and before what
\* is assigned later.
Trimmed(p, g) ==
    LET e == limit[p][g] IN
       /\ Cursor(p, e) /\ Entered(p, e)
       /\ lower[p] = 0 \/ (e # 0 /\ e <= lower[p])
       /\ \A x \in Sized : x.pool = p => IF g \in Above(hw[x.fn].bus) THEN e = 0 \/ x.addr + x.size <= e
                                         ELSE e # 0 /\ e <= x.addr

Windows ==
    \A p \in Pools, g \in Bridges :
        IF g \notin Numbered \/ (~Present(p) /\ p = "mem") THEN Unopened(p, g)
        ELSE IF ~Present(p) THEN Shut(p, g)
        ELSE base[p][g] = Lowest(p) /\ (OnStack(g) \/ Trimmed(p, g))

\* Where the BARs are; while a bridge is being configured, all of them are behind it.
Places ==
    /\ \A p \in Pools : Entered(p, lower[p]) /\ DOMAIN base[p] = Bridges /\ DOMAIN limit[p] = Bridges
    /\ \A x \in bar : /\ hw[x.fn].bus \in {Root} \cup Numbered
                      /\ \A g \in Numbered : OnStack(g) => g \in Above(hw[x.fn].bus)
    /\ \A x \in Sized : Lowest(x.pool) <= x.addr

ReachInv ==
    SinglePath /\ FromBoundary =>
        /\ result \in {"running", "ok"} => Places /\ Windows
        /\ result = "ok" => \A g : ~OnStack(g)

LEMMA EnteredInit == ASSUME region \in Regions, NEW p \in Pools PROVE Entered(p, pciauto_region_init[p])
<1>1. CASE Present(p)
  <2>1. pciauto_region_init[p] = Lowest(p)
    BY <1>1 DEF pciauto_region_init
  <2>2. Lowest(p) \in Nat
    BY RegionType DEF Lowest
  <2>3. QED
    BY <2>1, <2>2 DEF Entered
<1>2. QED
  BY <1>1 DEF Entered

LEMMA EnteredAligned ==
    ASSUME SoundBars, region \in Regions, NEW p \in Pools, Cursor(p, lower[p]), Entered(p, lower[p])
    PROVE  /\ Entered(p, Aligned[p])
           /\ Present(p) => AlignUp(Aligned[p], Granule[p]) = Aligned[p]
<1> SUFFICES ASSUME Present(p)
             PROVE  Entered(p, Aligned[p]) /\ AlignUp(Aligned[p], Granule[p]) = Aligned[p]
  BY DEF Entered
<1> DEFINE g == Granule[p]  a == Aligned[p]
<1>1. /\ a \in 0 .. Wrap - 1 /\ a = AlignUp(lower[p], g) /\ a % g = 0 /\ g \in Nat \ {0} /\ Wrap % g = 0
      /\ lower[p] \in 0 .. Wrap - 1 /\ Wrap \in Nat /\ Lowest(p) \in Nat /\ region[p].start \in Nat
  <2>1. /\ g \in Nat \ {0} /\ Wrap % g = 0 /\ lower[p] \in 0 .. Wrap - 1 /\ a = AlignUp(lower[p], g)
        /\ Wrap \in Nat /\ region[p].start \in Nat /\ MinLower \in Nat
    BY RegionType DEF SoundBars, Cursor, Aligned
  <2>2. a \in 0 .. Wrap - 1 /\ a % g = 0
    BY <2>1, Alignment
  <2>3. QED
    BY <2>1, <2>2 DEF Lowest
<1>2. AlignUp(a, g) = a
  <2>1. PICK k \in Nat : a = k * g
    <3>1. a \in Nat
      BY <1>1
    <3>2. a \div g \in Nat /\ a = (a \div g) * g + (a % g)
      BY <1>1, <3>1, Division
    <3>3. a = (a \div g) * g
      BY <1>1, <3>1, <3>2
    <3>4. QED
      BY <3>2, <3>3
  <2>2. a <= AlignUp(a, g) /\ AlignUp(a, g) <= k * g /\ AlignUp(a, g) \in 0 .. Wrap - 1
    <3> HIDE DEF a, g
    <3>1. a <= k * g /\ k * g < Wrap
      BY <1>1, <2>1
    <3>2. QED
      BY <1>1, <3>1, Alignment
  <2>3. QED
    BY <1>1, <2>1, <2>2
<1>3. /\ lower[p] = 0 => a = 0
      /\ lower[p] <= a \/ a = 0
      /\ \A k \in 0 .. Wrap : Beyond(region, p, k) /\ k * Granule[p] < Wrap => lower[p] <= a
  BY CursorAligned
<1> HIDE DEF a, g
<1>4. Lowest(p) <= a \/ (a = 0 /\ (region[p].start # 0
         \/ \A k \in 0 .. Wrap : ~(Beyond(region, p, k) /\ k * Granule[p] < Wrap)))
  <2>1. CASE Lowest(p) <= lower[p]
    <3>1. CASE lower[p] <= a
      BY <1>1, <2>1, <3>1
    <3>2. CASE ~(lower[p] <= a)
      BY <1>3, <3>2
    <3>3. QED
      BY <3>1, <3>2
  <2>2. CASE ~(Lowest(p) <= lower[p])
    BY <1>3, <2>2 DEF Entered
  <2>3. QED
    BY <2>1, <2>2
<1>5. QED
  BY <1>2, <1>4 DEF Entered, a, g

\* A BAR that has a size is put at the cursor or behind it, not before the first address.
LEMMA EnteredAdvanced ==
    ASSUME SoundBars, RouteInv, AllocInv, AssignBar, Entered(NewBar.pool, lower[NewBar.pool])
    PROVE  LET x == NewBar p == x.pool IN
           /\ Entered(p, Advanced(p, x.size))
           /\ x.size # 0 => /\ Lowest(p) <= lower[p] /\ Lowest(p) <= x.addr /\ lower[p] # 0
<1> DEFINE x == NewBar  p == x.pool  l == lower[p]  e == Advanced(p, x.size)
<1>1. /\ BarType(x)
      /\ x.size = 0 => region[p].start # 0 /\ e = 0
      /\ x.size # 0 => /\ l <= x.addr /\ (l = 0 => region[p].start = 0)
                       /\ x.addr + x.size = Wrap => region[p].start # 0
                       /\ e = IF x.addr + x.size = Wrap THEN 0 ELSE x.addr + x.size
  BY Assigned
<1>2. /\ p \in Pools /\ x.size \in Nat /\ x.addr \in Nat /\ Present(p) /\ Sound(region, p, x.size)
      /\ region \in Regions
  BY <1>1 DEF BarType, AllocInv
<1>3. l \in 0 .. Wrap - 1 /\ Wrap \in Nat /\ region[p].start \in Nat /\ Lowest(p) \in Nat /\ Lowest(p) # 0
  <2>1. l \in 0 .. Wrap - 1
    BY <1>2 DEF AllocInv, Cursor
  <2>2. Wrap \in Nat /\ region[p].start \in Nat
    BY <1>2, RegionType
  <2>3. MinLower \in Nat \ {0}
    BY AutoAssumption
  <2>4. QED
    BY <2>1, <2>2, <2>3 DEF Lowest
<1>4. Entered(p, l)
  OBVIOUS
<1> HIDE DEF e, l, p, x
<1>5. x.size # 0 => Lowest(p) <= l
  <2> SUFFICES ASSUME x.size # 0, ~(Lowest(p) <= l) PROVE FALSE
    OBVIOUS
  <2>1. l = 0 /\ region[p].start = 0
    BY <1>1, <1>2, <1>4 DEF Entered
  <2>2. ~(x.size < region[p].start)
    BY <1>2, <2>1
  <2>3. PICK k \in 0 .. Wrap : Beyond(region, p, k) /\ k * Granule[p] + 2 * x.size <= Wrap
    BY <1>2, <2>2 DEF Sound
  <2>4. k * Granule[p] < Wrap
    <3>1. Granule[p] \in Nat
      BY <1>2, RegionType
    <3>2. k * Granule[p] \in Nat
      BY <3>1
    <3>3. QED
      BY <1>2, <1>3, <2>3, <3>2
  <2>5. QED
    BY <1>2, <1>4, <2>1, <2>3, <2>4 DEF Entered
<1>6. Entered(p, e)
  <2>1. CASE x.size = 0
    BY <1>1, <2>1 DEF Entered
  <2>2. CASE x.size # 0
    BY <1>1, <1>2, <1>3, <1>5, <2>2 DEF Entered
  <2>3. QED
    BY <2>1, <2>2
<1>7. x.size # 0 => Lowest(p) <= l /\ Lowest(p) <= x.addr /\ l # 0
  BY <1>1, <1>2, <1>3, <1>5
<1>8. QED
  BY <1>6, <1>7 DEF e, l, p, x

\* Steps that do not touch the regions, the windows and the BARs.
LEMMA ReachKept ==
    ASSUME Places, Windows, UNCHANGED <<hw, region, lower, base, limit, number, bar>>,
           \A g : OnStack(g)' <=> OnStack(g)
    PROVE  Places' /\ Windows'
<1>1. /\ Bridges' = Bridges /\ Numbered' = Numbered /\ Sized' = Sized /\ \A b : Above(b)' = Above(b)
      /\ \A p : Present(p)' = Present(p) /\ Lowest(p)' = Lowest(p)
      /\ \A p, k : Beyond(region, p, k)' = Beyond(region, p, k)
  BY DEF Bridges, Bus, Fn, Numbered, Sized, Above, Present, Lowest, Beyond
<1>2. \A p, l : Cursor(p, l)' = Cursor(p, l) /\ Entered(p, l)' = Entered(p, l)
  BY <1>1 DEF Cursor, Entered
<1>3. Places'
  BY <1>1, <1>2 DEF Places
<1>4. \A p, g : /\ Unopened(p, g)' = Unopened(p, g) /\ Shut(p, g)' = Shut(p, g)
                /\ Trimmed(p, g)' = Trimmed(p, g)
  BY <1>1, <1>2 DEF Unopened, Shut, Trimmed
<1>5. Windows'
  BY <1>1, <1>4 DEF Windows
<1>6. QED
  BY <1>3, <1>5

\* The bridges above the bus being configured are those that are not left yet.
LEMMA OnTheWay == ASSUME Descent, NEW g PROVE g \in Above(Top.bus) <=> OnStack(g)
<1>1. Top = stack[Len(stack)] /\ Len(stack) \in 1 .. Len(stack)
  BY TopType DEF Top
<1>2. Above(Top.bus) = {stack[j].bus : j \in 2 .. Len(stack)}
  BY <1>1 DEF Descent
<1>3. QED
  BY <1>2 DEF OnStack

LEMMA AssignBarReach ==
    ASSUME SoundBars, RouteInv, AllocInv, Places, Windows, AssignBar
    PROVE  Places' /\ Windows'
<1> DEFINE x == NewBar  p == x.pool  l == lower[p]  e == Advanced(p, x.size)
<1>1. /\ bar' = bar \cup {x} /\ lower' = [lower EXCEPT ![p] = e] /\ BarType(x) /\ x.fn = Top.fn
      /\ x.size = 0 => e = 0
      /\ x.size # 0 => l <= x.addr /\ (e = IF x.addr + x.size = Wrap THEN 0 ELSE x.addr + x.size)
  BY Assigned
<1>2. p \in Pools /\ x.size \in Nat /\ x.addr \in Nat /\ Wrap \in Nat
  BY <1>1 DEF BarType
<1>3. l \in 0 .. Wrap - 1 /\ Entered(p, l)
  BY <1>2 DEF AllocInv, Cursor, Places
<1>4. Entered(p, e) /\ (x.size # 0 => Lowest(p) <= x.addr /\ l # 0)
  BY <1>3, EnteredAdvanced
<1>5. /\ UNCHANGED <<hw, region, base, limit, number, result>> /\ result = "running" /\ Descent
      /\ Top.fn # Root
  BY DEF AssignBar, SettingUp, RouteInv, regVars
<1>6. \A g : OnStack(g)' <=> OnStack(g)
  <2> DEFINE t == [Top EXCEPT !.slot = @ + SlotsTaken]
  <2>1. stack' = [stack EXCEPT ![Len(stack)] = t]
    BY DEF AssignBar, Top
  <2>2. t.bus = Top.bus
    BY <1>5, TopType DEF FrameType
  <2> HIDE DEF t
  <2>3. QED
    BY <1>5, <2>1, <2>2, SameCalls
<1>7. /\ Bridges' = Bridges /\ Numbered' = Numbered /\ \A b : Above(b)' = Above(b)
      /\ \A q : Present(q)' = Present(q) /\ Lowest(q)' = Lowest(q)
      /\ \A q, k : Beyond(region, q, k)' = Beyond(region, q, k)
  BY <1>5 DEF Bridges, Bus, Fn, Numbered, Above, Present, Lowest, Beyond
<1>8. \A q, m : Cursor(q, m)' = Cursor(q, m) /\ Entered(q, m)' = Entered(q, m)
  BY <1>5, <1>7 DEF Cursor, Entered
<1>9. lower'[p] = e /\ \A q \in Pools : q # p => lower'[q] = lower[q]
  BY <1>1, <1>2 DEF AllocInv
<1>10. hw[x.fn].bus = Top.bus /\ Top.bus \in {Root} \cup Numbered
  <2>1. Top.fn \in Top.todo /\ Top.bus \in {Root} \cup Numbered
    BY <1>5, TopType DEF Descent, Top
  <2>2. QED
    BY <1>1, <1>5, <2>1, TopType DEF Descent, Top
<1>11. \A g : g \in Above(hw[x.fn].bus) <=> OnStack(g)
  BY <1>5, <1>10, OnTheWay
<1>12. Sized' = Sized \cup (IF x.size = 0 THEN {} ELSE {x})
  BY <1>1 DEF Sized
<1> HIDE DEF e, l, p, x
<1>13. Places'
  <2>1. \A q \in Pools : Entered(q, lower'[q]) /\ DOMAIN base[q] = Bridges /\ DOMAIN limit[q] = Bridges
    BY <1>4, <1>9 DEF Places
  <2>2. \A y \in bar' : /\ hw[y.fn].bus \in {Root} \cup Numbered
                        /\ \A g \in Numbered : OnStack(g) => g \in Above(hw[y.fn].bus)
    BY <1>1, <1>10, <1>11 DEF Places
  <2>3. \A y \in Sized' : Lowest(y.pool) <= y.addr
    BY <1>4, <1>12 DEF Places, p
  <2>4. \A q \in Pools : Entered(q, lower[q])' /\ (DOMAIN base[q] = Bridges)' /\ (DOMAIN limit[q] = Bridges)'
    BY <1>5, <1>7, <1>8, <2>1
  <2>5. QED
    BY <1>5, <1>6, <1>7, <2>2, <2>3, <2>4 DEF Places
<1>14. ASSUME NEW q \in Pools, NEW g \in Bridges, Trimmed(q, g), ~OnStack(g) PROVE Trimmed(q, g)'
  <2>0. PICK c : c = limit[q][g]
    OBVIOUS
  <2>1. /\ Cursor(q, c) /\ Entered(q, c) /\ (lower[q] = 0 \/ (c # 0 /\ c <= lower[q]))
        /\ \A y \in Sized : y.pool = q => IF g \in Above(hw[y.fn].bus) THEN c = 0 \/ y.addr + y.size <= c
                                          ELSE c # 0 /\ c <= y.addr
    BY <1>14, <2>0 DEF Trimmed
  <2>2. c \in Nat
    <3>1. c \in 0 .. Wrap - 1
      BY <2>1 DEF Cursor
    <3>2. QED
      BY <1>2, <3>1
  <2>3. q = p /\ x.size # 0 => c # 0 /\ c <= x.addr
    BY <1>1, <1>2, <1>3, <1>4, <2>1, <2>2 DEF l
  <2>4. lower'[q] = 0 \/ (c # 0 /\ c <= lower'[q])
    <3>1. CASE q # p
      BY <1>9, <2>1, <3>1
    <3>2. CASE q = p /\ x.size = 0
      BY <1>1, <1>9, <3>2
    <3>3. CASE q = p /\ x.size # 0
      BY <1>1, <1>2, <1>9, <2>2, <2>3, <3>3
    <3>4. QED
      BY <3>1, <3>2, <3>3
  <2>5. ASSUME NEW y \in Sized', y.pool = q
        PROVE  IF g \in Above(hw[y.fn].bus) THEN c = 0 \/ y.addr + y.size <= c ELSE c # 0 /\ c <= y.addr
    <3>1. CASE y \in Sized
      BY <2>1, <2>5, <3>1
    <3>2. CASE y = x /\ x.size # 0
      <4>1. g \notin Above(hw[y.fn].bus) /\ q = p
        BY <1>11, <1>14, <2>5, <3>2 DEF p
      <4>2. QED
        BY <2>3, <3>2, <4>1
    <3>3. QED
      BY <1>12, <2>5, <3>1, <3>2
  <2>6. /\ limit'[q][g] = c /\ Cursor(q, c)' /\ Entered(q, c)'
    <3>1. limit'[q][g] = c
      BY <1>5, <2>0
    <3>2. Cursor(q, c)' = Cursor(q, c) /\ Entered(q, c)' = Entered(q, c)
      BY <1>8
    <3>3. QED
      BY <2>1, <3>1, <3>2
  <2>7. \A y \in Sized' : y.pool = q =>
            IF g \in Above(hw[y.fn].bus)' THEN c = 0 \/ y.addr + y.size <= c ELSE c # 0 /\ c <= y.addr
    BY <1>5, <1>7, <2>5
  <2>8. QED
    BY <2>4, <2>6, <2>7 DEF Trimmed
<1>15. \A q, g : Unopened(q, g)' = Unopened(q, g) /\ Shut(q, g)' = Shut(q, g)
  BY <1>5 DEF Unopened, Shut
<1>16. Windows'
  BY <1>5, <1>6, <1>7, <1>14, <1>15 DEF Windows
<1>17. QED
  BY <1>13, <1>16

\* A bridge is entered before anything is assigned: its windows start where the regions do.
LEMMA EnterBridgeReach ==
    ASSUME SoundBars, RouteInv, AllocInv, PathInv, FromBoundary, Places, Windows, EnterBridge
    PROVE  Places' /\ Windows'
<1> DEFINE f == Top.fn
<1>1. /\ Numbered' = Numbered \cup {f} /\ f \notin Numbered /\ f \in Top.todo /\ f \in Bridges
      /\ \A g : OnStack(g)' <=> g = f \/ OnStack(g)
      /\ UNCHANGED <<hw, region, bar>> /\ Prescan(f, last + 1) /\ lower' = pciauto_region_init
  BY Entering DEF EnterBridge
<1>2. bar = {} /\ lower = pciauto_region_init /\ \A g \in Numbered : OnStack(g)
  BY <1>1 DEF PathInv
<1>3. /\ Bridges' = Bridges
      /\ \A q : Present(q)' = Present(q) /\ Lowest(q)' = Lowest(q)
      /\ \A q, k : Beyond(region, q, k)' = Beyond(region, q, k)
  BY <1>1 DEF Bridges, Fn, Present, Lowest, Beyond
<1>4. \A q, m : Entered(q, m)' = Entered(q, m)
  BY <1>1, <1>3 DEF Entered
<1>5. \A q \in Pools : DOMAIN base[q] = Bridges /\ DOMAIN limit[q] = Bridges /\ region \in Regions
  BY DEF Places, AllocInv
<1>6. ASSUME NEW q \in Pools
      PROVE  /\ DOMAIN base'[q] = Bridges /\ DOMAIN limit'[q] = Bridges
             /\ \A g \in Bridges : g # f => base'[q][g] = base[q][g] /\ limit'[q][g] = limit[q][g]
             /\ base'[q][f] = IF Present(q) THEN Aligned[q] ELSE IF q = "mem" THEN base[q][f] ELSE Wrap - 1
             /\ limit'[q][f] = IF Present(q) \/ q = "mem" THEN limit[q][f] ELSE Granule[q] % Wrap
  <2>1. /\ base'[q] = [base[q] EXCEPT ![f] =
               IF Present(q) THEN Aligned[q] ELSE IF q = "mem" THEN @ ELSE Wrap - 1]
        /\ limit'[q] = [limit[q] EXCEPT ![f] =
               IF Present(q) \/ q = "mem" THEN @ ELSE Granule[q] % Wrap]
    BY <1>1 DEF Prescan
  <2>2. QED
    BY <1>1, <1>5, <2>1
<1>7. ASSUME NEW q \in Pools, Present(q) PROVE Aligned[q] = Lowest(q)
  BY <1>2, <1>7 DEF Aligned, pciauto_region_init, FromBoundary
<1> HIDE DEF f
<1>8. Places'
  <2>1. \A q \in Pools : Entered(q, lower'[q])
    BY <1>1, <1>5, EnteredInit
  <2>2. \A q \in Pools : Entered(q, lower[q])' /\ (DOMAIN base[q] = Bridges)' /\ (DOMAIN limit[q] = Bridges)'
    BY <1>3, <1>4, <1>6, <2>1
  <2>3. QED
    BY <1>1, <1>2, <2>2 DEF Places, Sized
<1>9. ASSUME NEW q \in Pools, NEW g \in Bridges
      PROVE  IF g \notin Numbered' \/ (~Present(q) /\ q = "mem") THEN Unopened(q, g)'
             ELSE IF ~Present(q) THEN Shut(q, g)'
             ELSE base'[q][g] = Lowest(q) /\ OnStack(g)'
  <2>1. CASE g = f
    <3>1. g \in Numbered' /\ OnStack(g)' /\ Unopened(q, g)
      BY <1>1, <2>1 DEF Windows
    <3>2. QED
      BY <1>6, <1>7, <2>1, <3>1 DEF Unopened, Shut
  <2>2. CASE g # f
    <3>1. /\ base'[q][g] = base[q][g] /\ limit'[q][g] = limit[q][g]
          /\ g \in Numbered' <=> g \in Numbered
          /\ OnStack(g)' <=> OnStack(g)
      BY <1>1, <1>6, <2>2
    <3>2. IF g \notin Numbered \/ (~Present(q) /\ q = "mem") THEN Unopened(q, g)
          ELSE IF ~Present(q) THEN Shut(q, g)
          ELSE base[q][g] = Lowest(q) /\ OnStack(g)
      BY <1>2 DEF Windows
    <3>3. QED
      BY <3>1, <3>2 DEF Unopened, Shut
  <2>3. QED
    BY <2>1, <2>2
<1>10. Windows'
  BY <1>3, <1>9 DEF Windows
<1>11. QED
  BY <1>8, <1>10

\* A bridge is left: its windows end where the regions go on.
LEMMA LeaveBridgeReach ==
    ASSUME SoundBars, RouteInv, AllocInv, ApartInv, Places, Windows, LeaveBridge
    PROVE  Places' /\ Windows'
<1> DEFINE b == Top.bus
<1>1. /\ b \in Numbered /\ OnStack(b) /\ Numbered' = Numbered
      /\ \A g : OnStack(g)' <=> OnStack(g) /\ g # b
      /\ UNCHANGED <<hw, region, bar, base>> /\ lower' = Aligned /\ limit' = Limits(b)
  BY Leaving DEF LeaveBridge, Closed
<1>2. /\ Bridges' = Bridges /\ Sized' = Sized /\ \A c : Above(c)' = Above(c)
      /\ \A q : Present(q)' = Present(q) /\ Lowest(q)' = Lowest(q)
      /\ \A q, k : Beyond(region, q, k)' = Beyond(region, q, k)
  BY <1>1 DEF Bridges, Bus, Fn, Sized, Above, Present, Lowest, Beyond
<1>3. \A q, m : Cursor(q, m)' = Cursor(q, m) /\ Entered(q, m)' = Entered(q, m)
  BY <1>1, <1>2 DEF Cursor, Entered
<1>4. region \in Regions /\ b \in Bridges /\ \A q \in Pools : DOMAIN limit[q] = Bridges /\ DOMAIN base[q] = Bridges
  BY <1>1 DEF AllocInv, Places, Numbered
<1>5. ASSUME NEW q \in Pools
      PROVE  /\ Cursor(q, Aligned[q]) /\ Entered(q, Aligned[q]) /\ Aligned[q] \in Nat
             /\ Present(q) => \/ lower[q] <= Aligned[q] /\ lower[q] # 0
                              \/ Aligned[q] = 0
             /\ lower[q] \in Nat
             /\ Present(q) => AlignUp(Aligned[q], Granule[q]) = Aligned[q]
  <2>1. Cursor(q, lower[q]) /\ Entered(q, lower[q])
    BY DEF AllocInv, Places
  <2>2. /\ Cursor(q, Aligned[q]) /\ Entered(q, Aligned[q])
        /\ Present(q) => AlignUp(Aligned[q], Granule[q]) = Aligned[q]
    BY <1>4, <2>1, CursorAligned, EnteredAligned
  <2>3. /\ lower[q] = 0 => Aligned[q] = 0
        /\ Present(q) => lower[q] <= Aligned[q] \/ Aligned[q] = 0
    BY <1>4, <2>1, CursorAligned
  <2>4. Aligned[q] \in 0 .. Wrap - 1 /\ lower[q] \in 0 .. Wrap - 1 /\ Wrap \in Nat
    BY <1>4, <2>1, <2>2, RegionType DEF Cursor
  <2>5. Aligned[q] \in Nat /\ lower[q] \in Nat
    BY <2>4
  <2>6. QED
    BY <2>2, <2>3, <2>5
<1>6. ASSUME NEW q \in Pools
      PROVE  /\ DOMAIN limit'[q] = Bridges
             /\ \A g \in Bridges : g # b => limit'[q][g] = limit[q][g]
             /\ limit'[q][b] = IF Present(q) THEN Aligned[q] ELSE limit[q][b]
  <2>1. limit'[q] = [limit[q] EXCEPT ![b] = IF Present(q) THEN AlignUp(Aligned[q], Granule[q]) ELSE @]
    BY <1>1 DEF Limits, Closed
  <2>2. QED
    BY <1>4, <1>5, <2>1
<1> HIDE DEF b
<1>7. Places'
  <2>1. \A q \in Pools : Entered(q, lower[q])' /\ (DOMAIN base[q] = Bridges)' /\ (DOMAIN limit[q] = Bridges)'
    BY <1>1, <1>2, <1>3, <1>4, <1>5, <1>6
  <2>2. \A y \in bar' : /\ hw'[y.fn].bus \in {Root} \cup Numbered'
                        /\ \A g \in Numbered' : OnStack(g)' => g \in Above(hw[y.fn].bus)'
    BY <1>1, <1>2 DEF Places
  <2>3. \A y \in Sized' : Lowest(y.pool)' <= y.addr
    BY <1>2 DEF Places
  <2>4. QED
    BY <2>1, <2>2, <2>3 DEF Places
<1>8. ASSUME NEW q \in Pools, Present(q), NEW g \in Bridges, NEW e, e = limit'[q][g],
             Cursor(q, e), Entered(q, e), Aligned[q] = 0 \/ (e # 0 /\ e <= Aligned[q]),
             \A y \in Sized : y.pool = q => IF g \in Above(hw[y.fn].bus) THEN e = 0 \/ y.addr + y.size <= e
                                            ELSE e # 0 /\ e <= y.addr
      PROVE  Trimmed(q, g)'
  <2>1. Cursor(q, e)' /\ Entered(q, e)'
    BY <1>3, <1>8
  <2>2. \A y \in Sized' : y.pool = q => IF g \in Above(hw[y.fn].bus)' THEN e = 0 \/ y.addr + y.size <= e
                                            ELSE e # 0 /\ e <= y.addr
    BY <1>1, <1>2, <1>8
  <2>3. lower'[q] = 0 \/ (e # 0 /\ e <= lower'[q])
    BY <1>1, <1>8
  <2>4. QED
    BY <1>8, <2>1, <2>2, <2>3 DEF Trimmed
<1>9. ASSUME NEW q \in Pools, Present(q), NEW g \in Bridges, g = b PROVE Trimmed(q, g)'
  <2>1. PICK e : e = limit'[q][b] /\ e = Aligned[q]
    BY <1>6, <1>9
  <2>2. \A y \in Sized : y.pool = q => b \in Above(hw[y.fn].bus) /\ (e = 0 \/ y.addr + y.size <= e)
    BY <1>1, <2>1, AlignedBehind DEF Places, ApartInv, Sized
  <2>3. Cursor(q, e) /\ Entered(q, e) /\ e \in Nat
    BY <1>5, <2>1
  <2>4. Aligned[q] = 0 \/ (e # 0 /\ e <= Aligned[q])
    BY <2>1, <2>3
  <2>5. \A y \in Sized : y.pool = q => IF g \in Above(hw[y.fn].bus) THEN e = 0 \/ y.addr + y.size <= e
                                        ELSE e # 0 /\ e <= y.addr
    BY <1>9, <2>2
  <2>6. e = limit'[q][g]
    BY <1>9, <2>1
  <2>7. QED
    BY <1>8, <1>9, <2>3, <2>4, <2>5, <2>6
<1>10. ASSUME NEW q \in Pools, Present(q), NEW g \in Bridges, g # b, Trimmed(q, g) PROVE Trimmed(q, g)'
  <2>1. PICK e : e = limit[q][g] /\ e = limit'[q][g]
    BY <1>6, <1>10
  <2>2. /\ Cursor(q, e) /\ Entered(q, e)
        /\ lower[q] = 0 \/ (e # 0 /\ e <= lower[q])
        /\ \A y \in Sized : y.pool = q => IF g \in Above(hw[y.fn].bus) THEN e = 0 \/ y.addr + y.size <= e
                                          ELSE e # 0 /\ e <= y.addr
    BY <1>10, <2>1 DEF Trimmed
  <2>3. e \in Nat
    <3>1. e \in 0 .. Wrap - 1 /\ Wrap \in Nat
      BY <1>4, <2>2, RegionType DEF Cursor
    <3>2. QED
      BY <3>1
  <2>4. Aligned[q] = 0 \/ (e # 0 /\ e <= Aligned[q])
    BY <1>5, <1>10, <2>2, <2>3
  <2>5. QED
    BY <1>8, <1>10, <2>1, <2>2, <2>4
<1>11. ASSUME NEW q \in Pools, NEW g \in Bridges
       PROVE  IF g \notin Numbered \/ (~Present(q) /\ q = "mem") THEN Unopened(q, g)'
              ELSE IF ~Present(q) THEN Shut(q, g)'
              ELSE base'[q][g] = Lowest(q) /\ (OnStack(g)' \/ Trimmed(q, g)')
  <2>1. IF g \notin Numbered \/ (~Present(q) /\ q = "mem") THEN Unopened(q, g)
        ELSE IF ~Present(q) THEN Shut(q, g)
        ELSE base[q][g] = Lowest(q) /\ (OnStack(g) \/ Trimmed(q, g))
    BY DEF Windows
  <2>2. base'[q][g] = base[q][g] /\ (g \notin Numbered \/ ~Present(q) => limit'[q][g] = limit[q][g])
    BY <1>1, <1>6
  <2>3. CASE g \notin Numbered \/ ~Present(q)
    BY <2>1, <2>2, <2>3 DEF Unopened, Shut
  <2>4. CASE g \in Numbered /\ Present(q)
    <3>1. OnStack(g)' \/ Trimmed(q, g)'
      <4>1. CASE g = b
        BY <1>9, <2>4, <4>1
      <4>2. CASE g # b /\ OnStack(g)
        BY <1>1, <4>2
      <4>3. CASE g # b /\ Trimmed(q, g)
        BY <1>10, <2>4, <4>3
      <4>4. QED
        BY <2>1, <2>4, <4>1, <4>2, <4>3
    <3>2. QED
      BY <2>1, <2>2, <2>4, <3>1
  <2>5. QED
    BY <2>3, <2>4
<1>12. Windows'
  BY <1>1, <1>2, <1>11 DEF Windows
<1>13. QED
  BY <1>7, <1>12

LEMMA NextReach ==
    ASSUME SoundBars, RouteInv, AllocInv, SepInv, ReachInv, [Next]_vars
    PROVE  ReachInv'
<1>1. CASE UNCHANGED vars
  <2>1. UNCHANGED <<hw, region, lower, base, limit, number, bar, stack, result>>
    BY <1>1 DEF vars, regVars
  <2>2. /\ \A g : OnStack(g)' <=> OnStack(g)
        /\ (SinglePath /\ FromBoundary)' <=> SinglePath /\ FromBoundary
    BY <2>1 DEF OnStack, SinglePath, Bridges, Fn, Answers, FromBoundary, Present, Lowest
  <2>3. QED
    BY <2>1, <2>2, ReachKept DEF ReachInv
<1>2. CASE Next
  <2>1. UNCHANGED <<hw, region>> /\ result = "running" /\ Descent
    BY <1>2 DEF Next, NextDevice, SkipBar, AssignBar, LeafDone, EnterBridge, LeaveBridge,
                Finish, CreateFails, BindFails, SetUp, SettingUp, RouteInv
  <2>2. (SinglePath /\ FromBoundary)' <=> SinglePath /\ FromBoundary
    BY <2>1 DEF SinglePath, Bridges, Fn, Answers, FromBoundary, Present, Lowest
  <2> SUFFICES ASSUME SinglePath, FromBoundary, result' \in {"running", "ok"}
               PROVE  /\ Places' /\ Windows'
                      /\ result' = "ok" => \A g : ~OnStack(g)'
    BY <2>2 DEF ReachInv
  <2>3. Places /\ Windows /\ PathInv /\ ApartInv
    BY <2>1 DEF ReachInv, SepInv
  <2>4. Top \in FrameType
    BY <2>1, TopType
  <2>5. CASE NextDevice \/ SkipBar \/ LeafDone
    <3>1. UNCHANGED <<hw, region, lower, base, limit, number, bar, result>>
      BY <2>5 DEF NextDevice, SkipBar, LeafDone, regVars
    <3>2. PICK t : stack' = [stack EXCEPT ![Len(stack)] = t] /\ t.bus = Top.bus
      <4>1. CASE NextDevice
        <5>1. PICK f : stack' = [stack EXCEPT ![Len(stack)].fn = f, ![Len(stack)].slot = 1]
          BY <4>1 DEF NextDevice
        <5>2. stack' = [stack EXCEPT ![Len(stack)] = [Top EXCEPT !.fn = f, !.slot = 1]]
          BY <5>1 DEF Top
        <5>3. [Top EXCEPT !.fn = f, !.slot = 1].bus = Top.bus
          BY <2>4 DEF FrameType
        <5>4. QED
          BY <5>2, <5>3
      <4>2. CASE SkipBar
        <5>1. stack' = [stack EXCEPT ![Len(stack)] = [Top EXCEPT !.slot = @ + 1]]
          BY <4>2 DEF SkipBar, Top
        <5>2. [Top EXCEPT !.slot = @ + 1].bus = Top.bus
          BY <2>4 DEF FrameType
        <5>3. QED
          BY <5>1, <5>2
      <4>3. CASE LeafDone
        <5>1. stack' = [stack EXCEPT ![Len(stack)] = [Top EXCEPT !.todo = @ \ {Top.fn}, !.fn = Root]]
          BY <4>3 DEF LeafDone, Done, Top
        <5>2. [Top EXCEPT !.todo = @ \ {Top.fn}, !.fn = Root].bus = Top.bus
          BY <2>4 DEF FrameType
        <5>3. QED
          BY <5>1, <5>2
      <4>4. QED
        BY <2>5, <4>1, <4>2, <4>3
    <3>3. \A g : OnStack(g)' <=> OnStack(g)
      BY <2>1, <3>2, SameCalls
    <3>4. QED
      BY <2>1, <2>3, <3>1, <3>3, ReachKept
  <2>6. CASE AssignBar
    <3>1. result' = "running"
      BY <2>1, <2>6 DEF AssignBar
    <3>2. QED
      BY <2>3, <2>6, <3>1, AssignBarReach
  <2>7. CASE EnterBridge
    <3>1. result' = "running"
      BY <2>1, <2>7 DEF EnterBridge
    <3>2. QED
      BY <2>3, <2>7, <3>1, EnterBridgeReach
  <2>8. CASE LeaveBridge
    <3>1. result' = "running"
      BY <2>1, <2>8 DEF LeaveBridge
    <3>2. QED
      BY <2>3, <2>8, <3>1, LeaveBridgeReach
  <2>9. CASE Finish
    <3>1. UNCHANGED <<hw, region, lower, base, limit, number, bar, stack>> /\ Len(stack) = 1
      BY <2>9 DEF Finish, regVars
    <3>2. \A g : OnStack(g)' <=> OnStack(g)
      BY <3>1 DEF OnStack
    <3>3. \A g : ~OnStack(g)
      BY <3>1 DEF OnStack
    <3>4. QED
      BY <2>3, <3>1, <3>2, <3>3, ReachKept
  <2>10. CASE CreateFails \/ BindFails
    BY <2>10 DEF CreateFails, BindFails
  <2>11. QED
    BY <1>2, <2>5, <2>6, <2>7, <2>8, <2>9, <2>10 DEF Next
<1>3. QED
  BY <1>1, <1>2

LEMMA InitReach == ASSUME Init PROVE ReachInv
<1>1. /\ bar = {} /\ lower = pciauto_region_init /\ number = [b \in Bus |-> 0] /\ result = "running"
      /\ region \in Regions
  BY DEF Init
<1>2. \A q \in Pools : /\ base[q] = [f \in Bridges |-> 0]
                       /\ limit[q] = [f \in Bridges |-> Granule[q] % Wrap]
  BY DEF Init
<1>3. Numbered = {}
  BY <1>1 DEF Numbered, Bus
<1>4. Places
  BY <1>1, <1>2, EnteredInit DEF Places, Sized
<1>5. Windows
  BY <1>2, <1>3 DEF Windows, Unopened
<1>6. QED
  BY <1>1, <1>4, <1>5 DEF ReachInv

\* Behind the first window boundary there is room for a window that was never opened.
LEMMA Boundary ==
    ASSUME SoundBars, region \in Regions, FromBoundary, NEW p \in Pools, Present(p), Lowest(p) < Wrap
    PROVE  \E k \in 0 .. Wrap : /\ Lowest(p) = k * Granule[p] /\ Granule[p] <= Lowest(p)
                                /\ region[p].start <= Lowest(p) /\ MinLower <= Lowest(p)
<1> DEFINE g == Granule[p]  n == Lowest(p)  k == n \div g
<1>1. /\ g \in Nat \ {0} /\ Wrap % g = 0 /\ n \in 0 .. Wrap - 1 /\ n # 0 /\ Wrap \in Nat
      /\ region[p].start <= n /\ MinLower <= n
  <2>1. /\ g \in Nat \ {0} /\ Wrap % g = 0 /\ Wrap \in Nat /\ region[p].start \in Nat
        /\ MinLower \in Nat
    BY RegionType DEF SoundBars
  <2>2. MinLower # 0
    BY AutoAssumption
  <2>3. QED
    BY <2>1, <2>2 DEF Lowest
<1>2. n % g = 0
  <2>1. n = AlignUp(n, g)
    BY DEF FromBoundary
  <2>2. AlignUp(n, g) % g = 0
    BY <1>1, Alignment
  <2>3. QED
    BY <2>1, <2>2
<1> HIDE DEF g, n
<1>3. k \in Nat /\ n = k * g
  <2>1. n \in Nat
    BY <1>1
  <2>2. k \in Nat /\ n = k * g + (n % g)
    BY <1>1, <2>1, Division
  <2>3. n = k * g
    BY <1>1, <1>2, <2>2
  <2>4. QED
    BY <2>2, <2>3
<1> HIDE DEF k
<1>4. 1 <= k
  BY <1>1, <1>3
<1>5. 1 * g <= k * g /\ k * 1 <= k * g
  BY <1>1, <1>3, <1>4, Ordered
<1>6. k \in 0 .. Wrap /\ g <= n
  BY <1>1, <1>3, <1>5
<1>7. QED
  BY <1>1, <1>3, <1>6 DEF g, n

\* A window that is not open, of the region or its twin, is clear of every BAR.
LEMMA NotOpen ==
    ASSUME NEW x, NEW p, NEW g, Unopened(p, g) \/ Shut(p, g), Granule[p] \in 1 .. Wrap - 1, Wrap \in Nat,
           Granule[p] <= x.addr
    PROVE  Outside(x, p, g)
<1>1. Granule[p] % Wrap = Granule[p]
  <2>1. Granule[p] \in Int /\ -Wrap <= Granule[p] /\ Granule[p] < 2 * Wrap /\ Wrap > 0
    OBVIOUS
  <2>2. QED
    BY <2>1, Wraps
<1>2. limit[p][g] = Granule[p] /\ base[p][g] \in {0, Wrap - 1}
  BY <1>1 DEF Unopened, Shut
<1>3. End(p, g) = Granule[p]
  BY <1>2 DEF End
<1>4. QED
  BY <1>3 DEF Outside

LEMMA Reaching ==
    ASSUME SoundBars, RouteInv, AllocInv, ReachInv
    PROVE  BarsReached
<1> SUFFICES ASSUME SinglePath, FromBoundary, result = "ok", NEW x \in Sized, NEW g \in Bridges
             PROVE  IF g \in Above(hw[x.fn].bus) THEN Inside(x, x.pool, g)
                    ELSE \A p \in Space(x.pool) : Outside(x, p, g)
  BY DEF BarsReached, Reached
<1> DEFINE p == x.pool
<1>1. Places /\ Windows /\ ~OnStack(g) /\ region \in Regions
  BY DEF ReachInv, AllocInv
<1>2. /\ p \in Pools /\ Present(p) /\ x.addr \in Nat /\ x.size \in Nat /\ x.size # 0
      /\ region[p].start <= x.addr /\ x.addr + x.size <= region[p].start + region[p].size
  BY DEF AllocInv, BarType, BarsInRegion, Sized
<1>3. \A q \in Pools : /\ region[q].start \in Nat /\ region[q].size \in Nat /\ Granule[q] \in Nat \ {0}
                       /\ region[q].start + region[q].size <= Wrap /\ Wrap \in Nat /\ MinLower \in Nat \ {0}
  BY <1>1, RegionType, AutoAssumption
<1>4. Lowest(p) <= x.addr /\ x.addr + x.size <= Wrap /\ Lowest(p) < Wrap /\ Lowest(p) \in Nat
  <2>1. Lowest(p) <= x.addr
    BY <1>1 DEF Places
  <2>2. Lowest(p) \in Nat
    BY <1>2, <1>3 DEF Lowest
  <2>3. QED
    BY <1>2, <1>3, <2>1, <2>2
<1>5. PICK k \in 0 .. Wrap : /\ Lowest(p) = k * Granule[p] /\ Granule[p] <= Lowest(p)
                             /\ region[p].start <= Lowest(p) /\ MinLower <= Lowest(p)
  BY <1>1, <1>2, <1>4, Boundary
<1>6. CASE g \in Above(hw[x.fn].bus)
  <2>1. g \in Numbered
    <3>1. hw[x.fn].bus \in {Root} \cup Numbered
      BY <1>1 DEF Places, Sized
    <3>2. QED
      BY <1>6, <3>1, AboveNumbered DEF RouteInv, Numbers
  <2>2. base[p][g] = Lowest(p) /\ Trimmed(p, g)
    BY <1>1, <1>2, <2>1 DEF Windows
  <2>3. limit[p][g] = 0 \/ x.addr + x.size <= limit[p][g]
    BY <1>6, <2>2 DEF Trimmed
  <2>4. QED
    BY <1>4, <1>6, <2>2, <2>3 DEF Inside, End
<1>7. CASE g \notin Above(hw[x.fn].bus)
  <2> SUFFICES ASSUME NEW q \in Space(p) PROVE Outside(x, q, g)
    BY <1>7
  <2>1. q \in Pools /\ Granule[q] = Granule[p] /\ (q # p => p \in {"mem", "prefetch"} /\ q \in {"mem", "prefetch"})
    BY <1>2, AutoAssumption DEF Space, Pools
  <2>2. CASE Unopened(q, g) \/ Shut(q, g)
    <3>1. Granule[q] \in 1 .. Wrap - 1 /\ Granule[q] <= x.addr
      BY <1>2, <1>3, <1>4, <1>5, <2>1
    <3>2. QED
      BY <1>3, <2>1, <2>2, <3>1, NotOpen
  <2>3. CASE q = p /\ Trimmed(q, g)
    <3>1. limit[p][g] # 0 /\ limit[p][g] <= x.addr
      BY <1>7, <2>3 DEF Trimmed
    <3>2. QED
      BY <2>3, <3>1 DEF Outside, End
  <2>4. CASE q # p /\ Present(q) /\ base[q][g] = Lowest(q) /\ Trimmed(q, g)
    <3>1. \/ region[p].start + region[p].size <= region[q].start
          \/ region[q].start + region[q].size <= region[p].start
      <4>1. \/ region["mem"].size = 0 \/ region["prefetch"].size = 0
            \/ region["mem"].start + region["mem"].size <= region["prefetch"].start
            \/ region["prefetch"].start + region["prefetch"].size <= region["mem"].start
        BY <1>1, AutoAssumption
      <4>2. QED
        BY <1>2, <2>1, <2>4, <4>1 DEF Present
    <3>2. CASE region[p].start + region[p].size <= region[q].start
      <4>1. region[q].start <= Lowest(q) /\ Lowest(q) \in Nat
        BY <1>3, <2>1 DEF Lowest
      <4>2. x.addr + x.size <= base[q][g]
        BY <1>2, <1>3, <2>1, <2>4, <3>2, <4>1
      <4>3. QED
        BY <4>2 DEF Outside
    <3>3. CASE region[q].start + region[q].size <= region[p].start
      <4>1. Beyond(region, q, k) /\ k * Granule[q] < Wrap
        <5>1. region[q].start + region[q].size <= Lowest(p)
          BY <1>3, <1>4, <1>5, <2>1, <1>2, <3>3
        <5>2. k * Granule[q] = Lowest(p)
          BY <1>5, <2>1
        <5>3. QED
          BY <1>4, <1>5, <5>1, <5>2 DEF Beyond
      <4>2. PICK e : e = limit[q][g]
        OBVIOUS
      <4>3. Cursor(q, e) /\ Entered(q, e)
        BY <2>4, <4>2 DEF Trimmed
      <4>4. region[q].start <= e /\ e <= k * Granule[q] /\ e \in 0 .. Wrap - 1
        BY <2>4, <4>1, <4>3 DEF Cursor, Present
      <4>5. e # 0
        <5>1. CASE Lowest(q) <= e
          BY <1>3, <2>1, <5>1 DEF Lowest
        <5>2. CASE region[q].start # 0
          BY <1>3, <2>1, <4>4, <5>2
        <5>3. QED
          BY <2>4, <4>1, <4>3, <5>1, <5>2 DEF Entered
      <4>6. e <= x.addr
        <5>1. e <= Lowest(p)
          BY <1>5, <2>1, <4>4
        <5>2. QED
          BY <1>2, <1>3, <1>4, <4>4, <5>1
      <4>7. QED
        BY <4>2, <4>5, <4>6 DEF Outside, End
    <3>4. QED
      BY <3>1, <3>2, <3>3
  <2>5. QED
    BY <1>1, <2>1, <2>2, <2>3, <2>4 DEF Windows
<1>8. QED
  BY <1>6, <1>7

-----------------------------------------------------------------------------
(* The registers.                                                          *)

\* Every BAR register of a function is written once, in their order; what is still to be
\* set up has no BARs.  A BAR of 4 GiB is put at 0.
SlotInv ==
    /\ \A x \in bar : x.slot \in Nat /\ x.fn \in Fn /\ (x.size = 0 => x.addr = 0)
    /\ \A x, y \in bar : x.fn = y.fn /\ x.slot = y.slot => x = y
    /\ result = "running" => \A x \in bar :
          /\ hw[x.fn].bus \in {Root} \cup Numbered
          /\ x.fn = Top.fn => x.slot < Top.slot
          /\ \A i \in 1 .. Len(stack) : x.fn \in stack[i].todo => x.fn = stack[i].fn

\* Steps that assign nothing and leave one of the calls on top.
LEMMA SlotMoves ==
    ASSUME SlotInv, result = "running", UNCHANGED <<hw, number, bar>>,
           NEW m \in 1 .. Len(stack), NEW t, m \in 1 .. m, Len(stack') = m, stack'[m] = t,
           \A i \in 1 .. m : i # m => i \in 1 .. Len(stack) /\ stack'[i] = stack[i],
           \A x \in bar : /\ x.fn \in t.todo => x.fn = t.fn
                          /\ x.fn = t.fn => x.slot < t.slot
    PROVE  SlotInv'
<1>1. Fn' = Fn /\ Numbered' = Numbered /\ Top' = t
  BY DEF Fn, Numbered, Bridges, Top
<1>2. ASSUME NEW x \in bar, NEW i \in 1 .. m, x.fn \in stack'[i].todo PROVE x.fn = stack'[i].fn
  BY <1>2 DEF SlotInv
<1>3. \A x \in bar' : /\ hw'[x.fn].bus \in {Root} \cup Numbered'
                      /\ x.fn = Top'.fn => x.slot < Top'.slot
                      /\ \A i \in 1 .. Len(stack') : x.fn \in stack'[i].todo => x.fn = stack'[i].fn
  BY <1>1, <1>2 DEF SlotInv
<1>4. QED
  BY <1>1, <1>3 DEF SlotInv

LEMMA NextSlot == ASSUME RouteInv, SlotInv, [Next]_vars PROVE SlotInv'
<1> DEFINE l == Len(stack)
<1>1. CASE UNCHANGED vars
  BY <1>1 DEF vars, SlotInv, Fn, Numbered, Bridges, Top
<1> SUFFICES ASSUME Next PROVE SlotInv'
  BY <1>1
<1>2. result = "running" /\ hw' = hw /\ Descent /\ Numbers
  BY DEF Next, NextDevice, SkipBar, AssignBar, LeafDone, EnterBridge, LeaveBridge,
         Finish, CreateFails, BindFails, SetUp, SettingUp, RouteInv
<1>3. /\ l \in Nat /\ l \in 1 .. l /\ Top = stack[l] /\ Top \in FrameType
      /\ stack \in Seq(FrameType) /\ \A i \in 1 .. l : stack[i] \in FrameType
      /\ Top.bus \in {Root} \cup Numbered
  BY <1>2, TopType DEF Top, Descent
<1>4. Root \notin Fn
  BY <1>2, AutoAssumption DEF Numbers, Fn, Root
<1>5. /\ \A x \in bar : x.slot \in Nat /\ x.fn \in Fn /\ x.fn # Root
      /\ \A x \in bar : x.fn = Top.fn => x.slot < Top.slot
      /\ \A x \in bar : \A i \in 1 .. l : x.fn \in stack[i].todo => x.fn = stack[i].fn
  BY <1>2, <1>4 DEF SlotInv
<1> HIDE DEF l
<1>6. CASE NextDevice
  <2>1. PICK f \in Top.todo : stack' = [stack EXCEPT ![l].fn = f, ![l].slot = 1]
    BY <1>6 DEF NextDevice, l
  <2>2. Top.fn = Root /\ UNCHANGED <<hw, number, bar>>
    BY <1>6 DEF NextDevice, regVars
  <2> DEFINE t == [Top EXCEPT !.fn = f, !.slot = 1]
  <2>3. stack' = [stack EXCEPT ![l] = t] /\ t.todo = Top.todo /\ t.fn = f
    BY <1>3, <2>1 DEF FrameType
  <2> HIDE DEF t
  <2>4. Len(stack') = l /\ stack'[l] = t /\ \A i \in 1 .. l : i # l => stack'[i] = stack[i]
    BY <1>3, <2>3 DEF l
  <2>5. \A x \in bar : x.fn \notin Top.todo
    BY <1>3, <1>5, <2>2
  <2>6. \A x \in bar : x.fn \notin t.todo /\ x.fn # t.fn
    BY <2>3, <2>5
  <2>7. QED
    BY <1>2, <1>3, <2>2, <2>4, <2>6, SlotMoves DEF l
<1>7. CASE SkipBar
  <2> DEFINE t == [Top EXCEPT !.slot = @ + 1]
  <2>1. UNCHANGED <<hw, number, bar>> /\ stack' = [stack EXCEPT ![l] = t]
    BY <1>3, <1>7 DEF SkipBar, regVars, l
  <2>2. t.todo = Top.todo /\ t.fn = Top.fn /\ t.slot = Top.slot + 1 /\ Top.slot \in Nat
    BY <1>3 DEF FrameType
  <2> HIDE DEF t
  <2>3. Len(stack') = l /\ stack'[l] = t /\ \A i \in 1 .. l : i # l => stack'[i] = stack[i]
    BY <1>3, <2>1 DEF l
  <2>4. \A x \in bar : /\ x.fn \in t.todo => x.fn = t.fn
                       /\ x.fn = t.fn => x.slot < t.slot
    BY <1>3, <1>5, <2>2
  <2>5. QED
    BY <1>2, <1>3, <2>1, <2>3, <2>4, SlotMoves DEF l
<1>8. CASE AssignBar
  <2> DEFINE k == SlotsTaken  t == [Top EXCEPT !.slot = @ + k]
  <2>1. /\ UNCHANGED <<hw, number, result>> /\ stack' = [stack EXCEPT ![l] = t] /\ Top.fn # Root
        /\ bar' = bar \cup {NewBar}
    BY <1>3, <1>8 DEF AssignBar, NewBar, SettingUp, regVars, l
  <2>2. /\ t.todo = Top.todo /\ t.fn = Top.fn /\ t.slot = Top.slot + k /\ Top.slot \in Nat
        /\ k \in Nat /\ k > 0 /\ Top.fn \in Fn /\ NewBar.fn = Top.fn /\ NewBar.slot = Top.slot
    BY <1>3, <2>1 DEF FrameType, NewBar, SlotsTaken
  <2> HIDE DEF t, k
  <2>3. Len(stack') = l /\ stack'[l] = t /\ \A i \in 1 .. l : i # l => stack'[i] = stack[i]
    BY <1>3, <2>1 DEF l
  <2>4. Fn' = Fn /\ Numbered' = Numbered /\ Top' = t
    BY <2>1, <2>3 DEF Fn, Numbered, Bridges, Top
  <2>5. Top.fn \in Top.todo /\ hw[Top.fn].bus = Top.bus
    BY <1>2, <1>3, <2>1 DEF Descent, l
  <2>6. \A i \in 1 .. l : Top.fn \in stack[i].todo => i = l
    BY <1>2, <1>3, <2>5 DEF Descent, l
  <2>7. ASSUME NEW x \in bar'
        PROVE  /\ x.slot \in Nat /\ x.fn \in Fn /\ hw[x.fn].bus \in {Root} \cup Numbered
               /\ x.size = 0 => x.addr = 0
               /\ x.fn = t.fn => x.slot < t.slot
               /\ \A i \in 1 .. l : x.fn \in stack'[i].todo => x.fn = stack'[i].fn
               /\ \A y \in bar' : x.fn = y.fn /\ x.slot = y.slot => x = y
    <3>1. CASE x = NewBar
      <4>1. \A i \in 1 .. l : x.fn \in stack'[i].todo => x.fn = stack'[i].fn
        BY <2>2, <2>3, <2>6, <3>1
      <4>2. \A y \in bar' : x.fn = y.fn /\ x.slot = y.slot => x = y
        BY <1>5, <2>1, <2>2, <3>1
      <4>3. hw[x.fn].bus \in {Root} \cup Numbered /\ x.slot \in Nat /\ x.fn \in Fn /\ x.slot < t.slot
        BY <1>3, <2>2, <2>5, <3>1
      <4>4. x.size = 0 => x.addr = 0
        BY <3>1 DEF NewBar, AlignUp
      <4>5. QED
        BY <2>1, <4>1, <4>2, <4>3, <4>4
    <3>2. CASE x \in bar
      <4>1. x.slot \in Nat /\ x.fn \in Fn /\ hw[x.fn].bus \in {Root} \cup Numbered /\ (x.size = 0 => x.addr = 0)
        BY <1>2, <3>2 DEF SlotInv
      <4>2. x.fn = t.fn => x.slot < t.slot
        BY <1>5, <2>2, <3>2, <4>1
      <4>3. \A i \in 1 .. l : x.fn \in stack'[i].todo => x.fn = stack'[i].fn
        BY <1>3, <1>5, <2>2, <2>3, <3>2
      <4>4. \A y \in bar : x.fn = y.fn /\ x.slot = y.slot => x = y
        BY <3>2 DEF SlotInv
      <4>5. x.fn = NewBar.fn => x.slot # NewBar.slot
        BY <1>5, <2>2, <3>2
      <4>6. QED
        BY <2>1, <4>1, <4>2, <4>3, <4>4, <4>5
    <3>3. QED
      BY <2>1, <3>1, <3>2
  <2>8. QED
    BY <2>1, <2>3, <2>4, <2>7 DEF SlotInv
<1>9. CASE LeafDone
  <2> DEFINE t == [Top EXCEPT !.todo = @ \ {Top.fn}, !.fn = Root]
  <2>1. UNCHANGED <<hw, number, bar>> /\ stack' = [stack EXCEPT ![l] = t]
    BY <1>3, <1>9 DEF LeafDone, Done, regVars, l
  <2>2. t.todo = Top.todo \ {Top.fn} /\ t.fn = Root
    BY <1>3 DEF FrameType
  <2> HIDE DEF t
  <2>3. Len(stack') = l /\ stack'[l] = t /\ \A i \in 1 .. l : i # l => stack'[i] = stack[i]
    BY <1>3, <2>1 DEF l
  <2>4. \A x \in bar : x.fn \notin t.todo /\ x.fn # t.fn
    BY <1>3, <1>5, <2>2
  <2>5. QED
    BY <1>2, <1>3, <2>1, <2>3, <2>4, SlotMoves DEF l
<1>10. CASE EnterBridge
  <2> DEFINE f == Top.fn  n == last + 1  e == Frame(f, n)
  <2>1. Passing /\ f \in Bridges /\ Prescan(f, n) /\ stack' = Append(stack, e) /\ UNCHANGED <<bar, result>>
    BY <1>2, <1>10 DEF RouteInv, EnterBridge, SetUp
  <2>2. f \notin Numbered /\ f # Root
    BY <1>2, <2>1, NextNumber
  <2>3. Fn' = Fn /\ Numbered \subseteq Numbered'
    <3>1. number' = [number EXCEPT ![f] = last + 1] /\ last \in Nat /\ Bridges' = Bridges
      BY <1>2, <2>1 DEF Prescan, Numbers, Bridges, Fn
    <3>2. number \in [Bus -> 0 .. last]
      BY <1>2 DEF Numbers
    <3>3. QED
      BY <1>2, <3>1, <3>2 DEF Numbered, Fn, Bus
  <2>4. e.fn = Root /\ \A g \in e.todo : hw[g].bus = f
    BY DEF Frame, Seen
  <2> HIDE DEF e, f
  <2>5. /\ Len(stack') = l + 1 /\ stack'[l + 1] = e /\ \A i \in 1 .. l : stack'[i] = stack[i]
        /\ 1 .. (l + 1) = (1 .. l) \cup {l + 1}
    BY <1>3, <2>1 DEF l
  <2>6. Top' = e
    BY <2>5 DEF Top
  <2>7. ASSUME NEW x \in bar PROVE x.fn \notin e.todo /\ x.fn # e.fn
    <3>1. hw[x.fn].bus \in {Root} \cup Numbered
      BY <1>2 DEF SlotInv
    <3>2. QED
      BY <1>5, <2>2, <2>4, <3>1
  <2>8. \A x \in bar' : /\ hw'[x.fn].bus \in {Root} \cup Numbered'
                        /\ x.fn # Top'.fn
                        /\ \A i \in 1 .. Len(stack') : x.fn \in stack'[i].todo => x.fn = stack'[i].fn
    <3> SUFFICES ASSUME NEW x \in bar
                 PROVE  /\ hw[x.fn].bus \in {Root} \cup Numbered' /\ x.fn # Top'.fn
                        /\ \A i \in 1 .. (l + 1) : x.fn \in stack'[i].todo => x.fn = stack'[i].fn
      BY <1>2, <2>1, <2>5
    <3>1. hw[x.fn].bus \in {Root} \cup Numbered
      BY <1>2 DEF SlotInv
    <3>2. \A i \in 1 .. l : x.fn \in stack'[i].todo => x.fn = stack'[i].fn
      BY <1>5, <2>5
    <3>3. x.fn \notin stack'[l + 1].todo /\ x.fn # Top'.fn
      BY <2>5, <2>6, <2>7
    <3>4. QED
      BY <2>3, <2>5, <3>1, <3>2, <3>3
  <2>9. QED
    BY <2>1, <2>3, <2>8 DEF SlotInv
<1>11. CASE LeaveBridge
  <2> DEFINE m == l - 1  s == SubSeq(stack, 1, l - 1)
             t == [stack[m] EXCEPT !.todo = @ \ {stack[m].fn}, !.fn = Root]
  <2>1. l > 1 /\ UNCHANGED <<hw, number, bar>>
    BY <1>11 DEF LeaveBridge, l
  <2>2. m \in Nat /\ m >= 1 /\ m \in 1 .. l /\ m \in 1 .. m
    BY <1>3, <2>1
  <2>3. /\ s \in Seq(FrameType) /\ Len(s) = m /\ \A i \in 1 .. m : s[i] = stack[i] /\ i \in 1 .. l
    BY <1>3, <2>2
  <2>4. t.todo = stack[m].todo \ {stack[m].fn} /\ t.fn = Root
    BY <1>3, <2>2 DEF FrameType
  <2>5. stack' = [s EXCEPT ![m] = t]
    BY <1>11, <2>2, <2>3 DEF LeaveBridge, Done, l
  <2> HIDE DEF t, s, m
  <2>6. Len(stack') = m /\ stack'[m] = t /\ \A i \in 1 .. m : i # m => stack'[i] = stack[i]
    BY <2>2, <2>3, <2>5
  <2>7. \A x \in bar : x.fn \notin t.todo /\ x.fn # t.fn
    BY <1>5, <2>2, <2>4
  <2>8. QED
    BY <1>2, <2>1, <2>2, <2>3, <2>6, <2>7, SlotMoves DEF l
<1>12. CASE Finish \/ CreateFails \/ BindFails
  BY <1>2, <1>12 DEF Finish, CreateFails, BindFails, SlotInv, Fn
<1>13. QED
  BY <1>6, <1>7, <1>8, <1>9, <1>10, <1>11, <1>12 DEF Next

-----------------------------------------------------------------------------
(* The theorems.                                                           *)

AutoInv == RouteInv /\ AllocInv /\ SepInv /\ ReachInv /\ SlotInv

LEMMA AutoInit == ASSUME SoundBars, Init PROVE AutoInv
<1>1. RouteInv /\ AllocInv /\ SepInv /\ ReachInv
  BY InitAlloc, InitSep, InitReach, FreshRoute DEF Init, Fresh
<1>2. SlotInv
  BY DEF Init, SlotInv
<1>3. QED
  BY <1>1, <1>2 DEF AutoInv

LEMMA AutoNext == ASSUME SoundBars, AutoInv, [Next]_vars PROVE AutoInv'
BY NextRoute, NextAlloc, NextSep, NextReach, NextSlot DEF AutoInv

LEMMA AutoSafe == ASSUME SoundBars, AutoInv PROVE BarsInRegion /\ BarsSeparate /\ BarsReached
BY Separate, Reaching DEF AutoInv, AllocInv

LEMMA AllocationSafe == SoundBars => (Spec => [](BarsInRegion /\ BarsSeparate /\ BarsReached))
<1> SUFFICES ASSUME SoundBars PROVE Spec => [](BarsInRegion /\ BarsSeparate /\ BarsReached)
  OBVIOUS
<1>1. Init => AutoInv
  BY AutoInit
<1>2. AutoInv /\ [Next]_vars => AutoInv'
  BY AutoNext
<1>3. AutoInv => BarsInRegion /\ BarsSeparate /\ BarsReached
  BY AutoSafe
<1>4. QED
  BY <1>1, <1>2, <1>3, PTL DEF Spec

\* pciauto_region_allocate, for any regions and trees whose BAR sizes fit the address space
\* as SoundBars says: every BAR is aligned and in its region, also where the region ends
\* at the end of the address space and the arithmetic wraps.
THEOREM BarsStayInRegion == SoundBars => (Spec => []BarsInRegion)
BY AllocationSafe, PTL

\* Allocation never goes back to what it has given away, although pciauto_config_init
\* starts the regions again behind every bridge: where the tree is a single path, two BARs
\* of an address space share no address, for any regions and BAR sizes as above.
THEOREM BarsStayApart == SoundBars => (Spec => []BarsSeparate)
BY AllocationSafe, PTL

\* pciauto_prescan_setup_bridge and pciauto_postscan_setup_bridge: where the tree is a
\* single path and a window can start where the first BAR is put, the windows of the
\* bridges above a function contain its BARs and no other window touches them, for any
\* regions and BAR sizes as above.
THEOREM BarsAreReached == SoundBars => (Spec => []BarsReached)
BY AllocationSafe, PTL

=============================================================================
