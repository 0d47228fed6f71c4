---------------------------- MODULE LspciProofs ----------------------------
(***************************************************************************)
(* Theorems about the tree a bring-up leaves and those who read it: the    *)
(* device list, the trained links, the searches, lspci's listing, the      *)
(* interrupt lines and the types, for any machines, trees and device trees.*)
(* The loops of the code are recursive functions here; what a loop does is *)
(* shown at the lowest turn that would do otherwise (CountUp, HasLeast in  *)
(* PciAutoProofs), and along a tree from a function of the set considered  *)
(* whose parent is not in it (TreeOf).                                     *)
(***************************************************************************)
EXTENDS Lspci, PcieBoardsProofs

-----------------------------------------------------------------------------
(* The functions of the tree a scan gets to.                               *)

\* Those that answer on a bus that has a number.
Scanned == {f \in Fn : hw[f].bus \in {Root} \cup Numbered /\ f \in Seen(hw[f].bus, number[hw[f].bus])}

\* The calls in progress configure these, and the BARs are theirs.
ScanInv ==
    /\ \A x \in bar : x.fn \in Scanned /\ x.slot # 0
    /\ result = "running" => \A i \in 1 .. Len(stack) :
          stack[i].todo \subseteq Scanned /\ (stack[i].fn # Root => stack[i].slot # 0)

\* Nothing is configured when the scan starts.
LEMMA ScanFresh ==
    ASSUME Fresh, bar = {}
    PROVE  ScanInv
<1>1. /\ stack = <<Frame(Root, 0)>> /\ Len(stack) = 1 /\ number[Root] = 0
  BY DEF Fresh, Bus
<1>2. Seen(Root, 0) \subseteq Scanned
  BY <1>1 DEF Seen, Scanned
<1>3. stack[1].todo = Seen(Root, 0) /\ stack[1].fn = Root
  BY <1>1 DEF Frame
<1>4. QED
  BY <1>1, <1>2, <1>3 DEF ScanInv

\* A new number makes more functions answer, and is no other bus's.
LEMMA MoreScanned ==
    ASSUME Numbers, NEW f \in Bridges, f \notin Numbered, hw[f].bus \in {Root} \cup Numbered,
           last \in Nat, number' = [number EXCEPT ![f] = last + 1], UNCHANGED hw
    PROVE  Scanned \subseteq Scanned' /\ Seen(f, last + 1) \subseteq Scanned'
<1>1. Fn' = Fn /\ Bridges' = Bridges /\ f # Root
  BY NoBridgeIsRoot DEF Bridges, Fn, Numbers
<1>2. \A b \in Bus : number'[b] = IF b = f THEN last + 1 ELSE number[b]
  BY DEF Numbers
<1>3. f \in Numbered' /\ Numbered \subseteq Numbered'
  BY <1>1, <1>2 DEF Numbered, Bus
<1>4. \A b, n : Seen(b, n)' = Seen(b, n)
  BY <1>1 DEF Seen, Dev
<1>5. \A b \in {Root} \cup Numbered : b \in Bus /\ number'[b] = number[b]
  BY <1>1, <1>2 DEF Numbered, Bus
<1>6. Scanned \subseteq Scanned'
  BY <1>1, <1>3, <1>4, <1>5 DEF Scanned
<1>7. \A g \in Seen(f, last + 1) : g \in Fn /\ hw[g].bus = f
  BY DEF Seen
<1>8. number'[f] = last + 1
  BY <1>2 DEF Bus
<1>9. Seen(f, last + 1) \subseteq Scanned'
  BY <1>1, <1>3, <1>4, <1>7, <1>8 DEF Scanned
<1>10. QED
  BY <1>6, <1>9

\* Every step of the scan configures a function the scan got to.
LEMMA NextScan == ASSUME RouteInv, ScanInv, [Next]_vars PROVE ScanInv'
<1>1. CASE UNCHANGED vars
  BY <1>1 DEF vars, ScanInv, Scanned, Fn, Numbered, Bridges, Seen, Dev
<1> SUFFICES ASSUME Next PROVE ScanInv'
  BY <1>1
<1>2. result = "running" /\ hw' = hw /\ Descent /\ Numbers
  BY DEF Next, NextDevice, SkipBar, AssignBar, LeafDone, EnterBridge, LeaveBridge, Finish,
         CreateFails, BindFails, SettingUp, SetUp, RouteInv
<1> DEFINE l == Len(stack)
<1>3. l \in Nat /\ l \in 1 .. l /\ stack \in Seq(FrameType) /\ Top = stack[l]
  BY <1>2 DEF Descent, Top
<1>4. \A i \in 1 .. l : stack[i] \in FrameType /\ stack[i].todo \subseteq Scanned
  BY <1>2, <1>3 DEF ScanInv
<1>41. \A i \in 1 .. l : stack[i].fn # Root => stack[i].slot # 0
  BY <1>2, <1>3 DEF ScanInv
<1>5. Top.fn # Root => Top.fn \in Top.todo /\ Top.fn \in Scanned /\ Top.fn \notin Numbered
                       /\ hw[Top.fn].bus \in {Root} \cup Numbered
  <2>1. \A f \in Top.todo : f \in Numbered => l < l
    BY <1>2, <1>3 DEF Descent
  <2>2. QED
    BY <1>2, <1>3, <1>4, <2>1 DEF Descent, Scanned
<1>6. ASSUME UNCHANGED number
      PROVE  Scanned' = Scanned /\ \A b, n : Seen(b, n)' = Seen(b, n)
  BY <1>2, <1>6 DEF Scanned, Seen, Fn, Dev, Numbered, Bridges
<1>7. CASE NextDevice \/ SkipBar \/ AssignBar
  <2>1. /\ Scanned' = Scanned
    BY <1>6, <1>7 DEF NextDevice, SkipBar, AssignBar
  <2>2. bar' = bar \/ \E x : bar' = bar \cup {x} /\ x.fn = Top.fn /\ x.slot = Top.slot
    <3>1. CASE AssignBar
      <4>1. PICK x : bar' = bar \cup {x} /\ x = NewBar
        BY <3>1 DEF AssignBar, NewBar
      <4>2. QED
        BY <4>1 DEF NewBar
    <3>2. QED
      BY <1>7, <3>1 DEF NextDevice, SkipBar
  <2>3. bar' # bar => Top.fn \in Scanned /\ Top.slot # 0
    BY <1>3, <1>41, <1>5, <1>7 DEF NextDevice, SkipBar, AssignBar, SettingUp
  <2>4. \E t : stack' = [stack EXCEPT ![l] = t] /\ t.todo = Top.todo /\ t.slot # 0
    <3>1. CASE NextDevice
      <4>1. PICK f : stack' = [stack EXCEPT ![l].fn = f, ![l].slot = 1]
        BY <3>1 DEF NextDevice
      <4>2. stack' = [stack EXCEPT ![l] = [stack[l] EXCEPT !.fn = f, !.slot = 1]]
        BY <1>3, <4>1
      <4>3. /\ [stack[l] EXCEPT !.fn = f, !.slot = 1].todo = stack[l].todo
            /\ [stack[l] EXCEPT !.fn = f, !.slot = 1].slot = 1
        BY <1>3, <1>4 DEF FrameType
      <4> DEFINE t == [stack[l] EXCEPT !.fn = f, !.slot = 1]
      <4>4. stack' = [stack EXCEPT ![l] = t] /\ t.todo = Top.todo /\ t.slot # 0
        BY <1>3, <4>2, <4>3
      <4> HIDE DEF t
      <4>5. QED
        BY <4>4
    <3>2. CASE SkipBar \/ AssignBar
      <4>0. stack[l].slot \in Nat
        BY <1>3, <1>4 DEF FrameType
      <4>01. ASSUME SkipBar PROVE \E n \in Nat \ {0} : stack' = [stack EXCEPT ![l].slot = n]
        <5>1. stack' = [stack EXCEPT ![l].slot = stack[l].slot + 1]
          BY <4>01 DEF SkipBar
        <5>2. stack[l].slot + 1 \in Nat \ {0}
          BY <4>0
        <5>3. QED
          BY <5>1, <5>2
      <4>02. ASSUME AssignBar PROVE \E n \in Nat \ {0} : stack' = [stack EXCEPT ![l].slot = n]
        <5> DEFINE by == SlotsTaken
        <5>1. stack' = [stack EXCEPT ![l].slot = stack[l].slot + by]
          BY <4>02 DEF AssignBar
        <5>2. by \in {1, 2}
          BY DEF SlotsTaken
        <5> HIDE DEF by
        <5>3. stack[l].slot + by \in Nat \ {0}
          BY <4>0, <5>2
        <5>4. QED
          BY <5>1, <5>3
      <4>1. PICK n \in Nat \ {0} : stack' = [stack EXCEPT ![l].slot = n]
        BY <3>2, <4>01, <4>02
      <4>2. stack' = [stack EXCEPT ![l] = [stack[l] EXCEPT !.slot = n]]
        BY <1>3, <4>1
      <4>3. [stack[l] EXCEPT !.slot = n].todo = stack[l].todo /\ [stack[l] EXCEPT !.slot = n].slot = n
        BY <1>3, <1>4 DEF FrameType
      <4>4. QED
        BY <1>3, <4>2, <4>3
    <3>3. QED
      BY <1>7, <3>1, <3>2
  <2>5. PICK t : stack' = [stack EXCEPT ![l] = t] /\ t.todo = Top.todo /\ t.slot # 0
    BY <2>4
  <2>6. Len(stack') = l /\ \A i \in 1 .. l : stack'[i] = IF i = l THEN t ELSE stack[i]
    BY <1>3, <2>5
  <2>7. \A i \in 1 .. Len(stack') : /\ stack'[i].todo \subseteq Scanned
                                    /\ stack'[i].fn # Root => stack'[i].slot # 0
    BY <1>3, <1>4, <1>41, <2>5, <2>6
  <2>8. \A x \in bar' : x.fn \in Scanned /\ x.slot # 0
    BY <2>2, <2>3 DEF ScanInv
  <2>9. QED
    <3>1. \A x \in bar' : x.fn \in Scanned' /\ x.slot # 0
      BY <2>1, <2>8
    <3>2. \A i \in 1 .. Len(stack') : /\ stack'[i].todo \subseteq Scanned'
                                      /\ stack'[i].fn # Root => stack'[i].slot # 0
      BY <2>1, <2>7
    <3> HIDE DEF l
    <3>3. QED
      BY <3>1, <3>2 DEF ScanInv
<1>8. CASE LeafDone \/ LeaveBridge
  <2>1. Scanned' = Scanned /\ bar' = bar
    BY <1>6, <1>8 DEF LeafDone, LeaveBridge
  <2>2. PICK m \in 1 .. l : \E s, n : Done(s, n) /\ Len(s) = m /\ s \in Seq(FrameType) /\ \A i \in 1 .. m : s[i] = stack[i]
    <3>1. CASE LeafDone
      BY <1>3, <3>1 DEF LeafDone
    <3>2. CASE LeaveBridge
      <4>1. l - 1 \in 1 .. l
        BY <1>3, <3>2 DEF LeaveBridge
      <4> DEFINE s == SubSeq(stack, 1, l - 1)
      <4>2. Len(s) = l - 1 /\ s \in Seq(FrameType) /\ \A i \in 1 .. l - 1 : s[i] = stack[i]
        BY <1>3, <4>1
      <4>3. QED
        BY <3>2, <4>1, <4>2 DEF LeaveBridge
    <3>3. QED
      BY <1>8, <3>1, <3>2
  <2>3. PICK s : (\E n : Done(s, n)) /\ Len(s) = m /\ s \in Seq(FrameType) /\ \A i \in 1 .. m : s[i] = stack[i]
    BY <2>2
  <2>4. m \in 1 .. m /\ m \in Nat /\ \A i \in 1 .. m : i \in 1 .. l
    BY <1>3
  <2> DEFINE u == [s[m] EXCEPT !.todo = @ \ {s[m].fn}, !.fn = Root]
  <2>5. stack' = [s EXCEPT ![m] = u]
    BY <2>3, <2>4 DEF Done
  <2>6. u.todo \subseteq stack[m].todo /\ u.fn = Root
    BY <1>4, <2>3, <2>4 DEF FrameType
  <2> HIDE DEF u
  <2>7. Len(stack') = m /\ \A i \in 1 .. m : stack'[i] = IF i = m THEN u ELSE stack[i]
    BY <2>3, <2>4, <2>5
  <2>8. \A i \in 1 .. Len(stack') : /\ stack'[i].todo \subseteq Scanned
                                    /\ stack'[i].fn # Root => stack'[i].slot # 0
    BY <1>4, <1>41, <2>4, <2>6, <2>7
  <2>9. QED
    <3>1. \A x \in bar' : x.fn \in Scanned' /\ x.slot # 0
      BY <2>1 DEF ScanInv
    <3>2. \A i \in 1 .. Len(stack') : /\ stack'[i].todo \subseteq Scanned'
                                      /\ stack'[i].fn # Root => stack'[i].slot # 0
      BY <2>1, <2>8
    <3>3. QED
      BY <3>1, <3>2 DEF ScanInv
<1>9. CASE EnterBridge
  <2> DEFINE f == Top.fn
  <2>1. f \in Bridges /\ Prescan(f, last + 1) /\ stack' = Append(stack, Frame(f, last + 1)) /\ bar' = bar
    BY <1>9 DEF EnterBridge
  <2>2. f # Root
    BY <1>2, <2>1, NoBridgeIsRoot DEF Numbers
  <2>3. Scanned \subseteq Scanned' /\ Seen(f, last + 1) \subseteq Scanned'
    BY <1>2, <1>5, <2>1, <2>2, MoreScanned DEF Prescan, Numbers
  <2>5. Frame(f, last + 1).todo = Seen(f, last + 1) /\ Frame(f, last + 1).fn = Root
    BY DEF Frame
  <2>6. Len(stack') = l + 1 /\ \A i \in 1 .. l + 1 : stack'[i] = IF i = l + 1 THEN Frame(f, last + 1) ELSE stack[i]
    BY <1>3, <2>1
  <2>7. QED
    BY <1>3, <1>4, <1>41, <2>1, <2>3, <2>5, <2>6 DEF ScanInv
<1>10. CASE BindFails
  <2> DEFINE f == Top.fn
  <2>1. f \in Bridges /\ Prescan(f, last + 1) /\ result' = "error" /\ bar' = bar
    BY <1>10 DEF BindFails
  <2>2. f # Root
    BY <1>2, <2>1, NoBridgeIsRoot DEF Numbers
  <2>3. Scanned \subseteq Scanned'
    BY <1>2, <1>5, <2>1, <2>2, MoreScanned DEF Prescan, Numbers
  <2>4. QED
    BY <2>1, <2>3 DEF ScanInv
<1>11. CASE Finish \/ CreateFails
  <2>1. Scanned' = Scanned /\ bar' = bar /\ result' # "running"
    BY <1>6, <1>11 DEF Finish, CreateFails
  <2>2. QED
    BY <2>1 DEF ScanInv
<1>12. QED
  BY <1>7, <1>8, <1>9, <1>10, <1>11 DEF Next

-----------------------------------------------------------------------------
(* The device list.                                                        *)

\* A function is on the root bus or behind a bridge; a place on a bus has one.
LEMMA TreeOf ==
    ASSUME hw \in Topologies
    PROVE  /\ Root \notin Fn
           /\ \A f \in Fn : hw[f].bus \in Bus /\ hw[f].devfn \in 0 .. 255
           /\ \A S \in SUBSET Fn : S # {} => \E f \in S : hw[f].bus \notin S
           /\ \A f, g \in Fn : hw[f].bus = hw[g].bus /\ hw[f].devfn = hw[g].devfn => f = g
<1>1. Tree(hw) /\ DOMAIN hw \subseteq Nat \ {0} /\ \A f \in DOMAIN hw : hw[f].devfn \in 0 .. 255
  BY HardwareAssumption, AutoAssumption
<1>2. QED
  BY <1>1 DEF Tree, Fn, Bus, Bridges, Root

\* What is above a bridge above is above.
LEMMA AboveAbove ==
    ASSUME NEW a, NEW b \in Bridges, NEW c, a \in Above(b), b \in Above(c)
    PROVE  a \in Above(c)
BY DEF Above

\* No bridge is above itself.
LEMMA AboveOneWay ==
    ASSUME hw \in Topologies, NEW f \in Bridges, NEW g \in Bridges, f \in Above(g), g \in Above(f)
    PROVE  f = g
<1> SUFFICES ASSUME f # g PROVE FALSE
  OBVIOUS
<1>1. \A c \in Bridges : c \in Fn /\ hw[c].bus \in Bus /\ Above(c) = {c} \cup Above(hw[c].bus)
  BY TreeOf, AboveStep DEF Bridges
<1> DEFINE S == {c \in Bridges : f \in Above(c) /\ g \in Above(c)}
<1>2. f \in S /\ S \in SUBSET Fn
  BY <1>1
<1>3. ASSUME NEW c \in S PROVE hw[c].bus \in S
  <2>1. f \in Above(c) /\ g \in Above(c) /\ c \in Bridges
    BY <1>3
  <2>2. f \in Above(hw[c].bus) \/ g \in Above(hw[c].bus)
    BY <1>1, <2>1
  <2>3. f \in Above(hw[c].bus) /\ g \in Above(hw[c].bus)
    BY <2>2, AboveAbove
  <2>4. hw[c].bus # Root
    BY <2>3, AboveRoot
  <2>5. QED
    BY <1>1, <2>1, <2>3, <2>4 DEF Bus
<1>4. QED
  BY <1>2, <1>3, TreeOf

\* The numbers 1 to last are the bridges' that have one, each of one bridge.
LEMMA NumbersUnique ==
    ASSUME Numbers, OneRoute
    PROVE  /\ \A f, g \in {Root} \cup Numbered : number[f] = number[g] => f = g
           /\ \A n \in 0 .. last : \E b \in {Root} \cup Numbered : number[b] = n
<1>1. ASSUME NEW f \in Numbered PROVE f \in Above(f) /\ f \in Bridges /\ number[f] \in 1 .. last
  <2>1. f \in Bridges /\ number[f] # 0 /\ f \in Bus /\ f \in Fn
    BY DEF Numbered, Bus, Bridges
  <2>2. hw \in Topologies /\ number[f] \in 0 .. last /\ last \in Nat
    BY <2>1 DEF Numbers
  <2>3. Above(f) = {f} \cup Above(hw[f].bus)
    BY <2>1, <2>2, TreeOf, AboveStep
  <2>4. QED
    BY <2>1, <2>2, <2>3
<1>2. ASSUME NEW f \in Numbered, NEW g \in Numbered, number[f] = number[g] PROVE g \in Above(f)
  <2>1. number[g] # 0 /\ number[f] # 0 /\ f \in Bridges /\ g \in Bridges
    BY DEF Numbered
  <2>2. sec[g] \in 1 .. number[g] /\ number[g] <= sub[g]
    BY <1>1, <2>1 DEF OneRoute
  <2>3. sec[g] \in 1 .. number[f] /\ number[f] <= sub[g]
    BY <1>2, <2>2
  <2>4. QED
    BY <2>1, <2>3 DEF OneRoute
<1>3. \A f, g \in Numbered : number[f] = number[g] => f = g
  <2> SUFFICES ASSUME NEW f \in Numbered, NEW g \in Numbered, number[f] = number[g] PROVE f = g
    OBVIOUS
  <2>1. g \in Above(f) /\ f \in Above(g) /\ f \in Bridges /\ g \in Bridges
    BY <1>1, <1>2
  <2>2. QED
    BY <2>1, AboveOneWay DEF Numbers
<1>4. \A f, g \in {Root} \cup Numbered : number[f] = number[g] => f = g
  BY <1>3 DEF Numbers, Numbered
<1> DEFINE h == [f \in Numbered |-> number[f]]
<1>5. h \in Injection(Numbered, 1 .. last)
  <2>1. h \in [Numbered -> 1 .. last]
    BY <1>1
  <2>2. \A f, g \in Numbered : h[f] = h[g] => f = g
    BY <1>3
  <2>3. QED
    BY <2>1, <2>2 DEF Injection, IsInjective
<1>6. h \in Surjection(Numbered, 1 .. last)
  <2>1. last \in Nat /\ last = Cardinality(Numbered)
    BY DEF Numbers
  <2>2. IsFiniteSet(1 .. last) /\ Cardinality(1 .. last) = last
    BY <2>1, FS_Interval
  <2>3. QED
    BY <1>5, <2>1, <2>2, FS_Injection
<1>7. \A n \in 1 .. last : \E f \in Numbered : h[f] = n
  BY <1>6 DEF Surjection
<1>8. \A n \in 0 .. last : n = 0 \/ n \in 1 .. last
  BY DEF Numbers
<1>9. QED
  BY <1>4, <1>7, <1>8 DEF Numbers

\* s has no entry twice.
Distinct(s) == \A i, j \in DOMAIN s : s[i] = s[j] => i = j

\* Lists without a function in common make a list of the functions of both.
LEMMA Concatenated ==
    ASSUME NEW V, NEW s \in Seq(V), NEW t \in Seq(V), Distinct(s), Distinct(t), ToSet(s) \cap ToSet(t) = {}
    PROVE  s \o t \in Seq(V) /\ ToSet(s \o t) = ToSet(s) \cup ToSet(t) /\ Distinct(s \o t)
<1> DEFINE m == Len(s)  n == Len(t)  u == s \o t
<1>1. /\ m \in Nat /\ n \in Nat /\ DOMAIN s = 1 .. m /\ DOMAIN t = 1 .. n
      /\ u \in Seq(V) /\ Len(u) = m + n /\ DOMAIN u = 1 .. m + n
      /\ \A i \in 1 .. m + n : u[i] = IF i <= m THEN s[i] ELSE t[i - m]
  OBVIOUS
<1> HIDE DEF u, m, n
<1>2. \A i \in 1 .. m + n : \/ i \in 1 .. m /\ u[i] = s[i]
                            \/ i - m \in 1 .. n /\ u[i] = t[i - m] /\ i = (i - m) + m
  BY <1>1
<1>3. (\A i \in 1 .. m : i \in 1 .. m + n /\ u[i] = s[i])
      /\ \A i \in 1 .. n : i + m \in 1 .. m + n /\ u[i + m] = t[i]
  BY <1>1
<1>4. ToSet(u) = ToSet(s) \cup ToSet(t)
  <2>1. /\ ToSet(u) = {u[i] : i \in 1 .. m + n} /\ ToSet(s) = {s[i] : i \in 1 .. m}
        /\ ToSet(t) = {t[i] : i \in 1 .. n}
    BY <1>1 DEF ToSet
  <2>2. ToSet(u) \subseteq ToSet(s) \cup ToSet(t)
    BY <1>2, <2>1
  <2>3. ToSet(s) \subseteq ToSet(u) /\ ToSet(t) \subseteq ToSet(u)
    BY <1>3, <2>1
  <2>4. QED
    BY <2>2, <2>3
<1>5. Distinct(u)
  <2> SUFFICES ASSUME NEW i \in 1 .. m + n, NEW j \in 1 .. m + n, u[i] = u[j] PROVE i = j
    BY <1>1 DEF Distinct
  <2>1. \A k \in 1 .. m : s[k] \in ToSet(s)
    BY <1>1 DEF ToSet
  <2>2. \A k \in 1 .. n : t[k] \in ToSet(t)
    BY <1>1 DEF ToSet
  <2>3. CASE i \in 1 .. m /\ u[i] = s[i] /\ j \in 1 .. m /\ u[j] = s[j]
    BY <1>1, <2>3 DEF Distinct
  <2>4. CASE i - m \in 1 .. n /\ u[i] = t[i - m] /\ j - m \in 1 .. n /\ u[j] = t[j - m]
    <3>1. i - m = j - m
      BY <1>1, <2>4 DEF Distinct
    <3>2. QED
      BY <1>1, <3>1
  <2>5. QED
    BY <1>2, <2>1, <2>2, <2>3, <2>4
<1>6. QED
  BY <1>1, <1>4, <1>5 DEF u

\* What is bound on a bus: everything that answers there, once.
LEMMA OnBusOf ==
    ASSUME Numbers, OneRoute, NEW b \in {Root} \cup Numbered
    PROVE  LET s == OnBus(number[b]) IN
           s \in Seq(Fn) /\ ToSet(s) = Seen(b, number[b]) /\ Distinct(s)
<1> DEFINE n == number[b]
           bus == CHOOSE c \in Bus : number[c] = n /\ (n = 0 => c = Root)
           found == Seen(b, n)
           bound == {hw[f].devfn : f \in found}
           e == [d \in bound |-> CHOOSE f \in found : hw[f].devfn = d]
<1>1. bus = b
  <2>1. b \in Bus /\ number[b] = n /\ (n = 0 => b = Root)
    BY DEF Bus, Numbered
  <2>2. \A c \in Bus : number[c] = n /\ (n = 0 => c = Root) => c \in {Root} \cup Numbered
    BY DEF Bus, Numbered
  <2>3. \A c \in Bus : number[c] = n /\ (n = 0 => c = Root) => c = b
    BY <2>1, <2>2, NumbersUnique
  <2>4. QED
    BY <2>1, <2>3
<1>2. OnBus(n) = Entries(e, bound)
  <2>1. OnBus(n) = Entries([d \in {hw[f].devfn : f \in Seen(bus, n)} |->
                               CHOOSE f \in Seen(bus, n) : hw[f].devfn = d],
                           {hw[f].devfn : f \in Seen(bus, n)})
    BY Zenon DEF OnBus
  <2> HIDE DEF bus
  <2>2. QED
    BY <1>1, <2>1
<1>3. \A f \in found : f \in Fn /\ hw[f].bus = b /\ hw[f].devfn \in 0 .. 255
  BY TreeOf DEF Seen, Numbers
<1>4. \A f \in found : hw[f].devfn \in bound /\ e[hw[f].devfn] = f
  <2>1. ASSUME NEW f \in found PROVE e[hw[f].devfn] = f
    <3>1. \A g \in found : hw[g].devfn = hw[f].devfn => g = f
      BY <1>3, TreeOf DEF Numbers
    <3>2. QED
      BY <3>1
  <2>2. QED
    BY <2>1
<1>5. \A d \in bound : e[d] \in found /\ hw[e[d]].devfn = d
  OBVIOUS
<1>6. bound \in SUBSET Nat /\ IsFiniteSet(bound)
  <2>1. bound \in SUBSET (0 .. 255)
    BY <1>3
  <2>2. IsFiniteSet(0 .. 255)
    <3>1. 0 \in Int /\ 255 \in Int
      OBVIOUS
    <3>2. QED
      BY <3>1, FS_Interval
  <2>3. QED
    BY <2>1, <2>2, FS_Subset
<1> HIDE DEF e, bound, found, n, bus
<1> DEFINE c == Cardinality(bound)  s == Entries(e, bound)
<1>7. /\ c \in Nat /\ DOMAIN s = 1 .. c
      /\ \A k \in 1 .. c : \E d \in bound : s[k] = e[d] /\ Rank(bound, d) = k
      /\ \A d \in bound : Rank(bound, d) \in 1 .. c /\ s[Rank(bound, d)] = e[d]
  BY <1>6, EntriesOf
<1>8. s = [k \in 1 .. c |-> s[k]]
  BY <1>7 DEF Entries
<1> HIDE DEF s, c
<1>9. s \in Seq(Fn)
  <2>1. \A k \in 1 .. c : s[k] \in Fn
    BY <1>3, <1>5, <1>7
  <2>2. s \in [1 .. c -> Fn]
    BY <1>8, <2>1
  <2>3. QED
    BY <1>7, <2>2
<1>10. ToSet(s) = found
  BY <1>4, <1>5, <1>7 DEF ToSet
<1>11. Distinct(s)
  <2> SUFFICES ASSUME NEW i \in 1 .. c, NEW j \in 1 .. c, s[i] = s[j] PROVE i = j
    BY <1>7 DEF Distinct
  <2>1. PICK d \in bound : s[i] = e[d] /\ Rank(bound, d) = i
    BY <1>7
  <2>2. PICK d2 \in bound : s[j] = e[d2] /\ Rank(bound, d2) = j
    BY <1>7
  <2>3. d = d2
    BY <1>5, <2>1, <2>2
  <2>4. QED
    BY <2>1, <2>2, <2>3
<1>12. QED
  BY <1>2, <1>9, <1>10, <1>11 DEF found, s, n

\* What the buses up to n - 1 have.
Upto(n) == {f \in Scanned : number[hw[f].bus] < n}

Appending(g) == g = [n \in 0 .. LastBus + 1 |-> IF n = 0 THEN <<>> ELSE g[n - 1] \o OnBus(n - 1)]

\* pcie_build_dev_list: every function of the tree that the scan got to, once.
LEMMA ListedOf ==
    ASSUME Numbers, OneRoute
    PROVE  Listed \in Seq(Fn) /\ ToSet(Listed) = Scanned /\ Distinct(Listed)
<1> DEFINE m == last + 1
           V == Seq(Fn)
           step == [i \in 1 .. m |-> [s \in V |-> s \o OnBus(i - 1)]]
<1>1. last \in Nat /\ m \in Nat /\ LastBus = last /\ m \in 0 .. m /\ \A n \in 0 .. last : n < m
  BY DEF Numbers, LastBus
<1>2. ASSUME NEW n \in 0 .. last
      PROVE  /\ OnBus(n) \in V /\ Distinct(OnBus(n))
             /\ ToSet(OnBus(n)) = {f \in Scanned : number[hw[f].bus] = n}
  <2>1. PICK b \in {Root} \cup Numbered : number[b] = n
    BY <1>2, NumbersUnique
  <2>2. OnBus(n) \in V /\ ToSet(OnBus(n)) = Seen(b, n) /\ Distinct(OnBus(n))
    BY <2>1, OnBusOf
  <2>3. \A f \in Scanned : number[hw[f].bus] = n => hw[f].bus = b
    BY <2>1, NumbersUnique DEF Scanned
  <2>4. \A f \in Seen(b, n) : f \in Fn /\ hw[f].bus = b
    BY DEF Seen
  <2>5. Seen(b, n) = {f \in Scanned : number[hw[f].bus] = n}
    BY <2>1, <2>3, <2>4 DEF Scanned
  <2>6. QED
    BY <2>2, <2>5
<1>3. ASSUME NEW i \in 1 .. m PROVE i - 1 \in 0 .. last /\ i \in 0 .. m /\ i # 0 /\ i - 1 \in 0 .. m
  BY <1>1
<1>4. step \in [1 .. m -> [V -> V]] /\ <<>> \in V
  BY <1>2, <1>3
<1> HIDE DEF step, V
<1>5. PICK g : Computes(m, V, <<>>, step, g)
  BY <1>1, <1>4, Computed
<1>6. Appending(g)
  <2>1. ASSUME NEW n \in 0 .. m PROVE g[n] = IF n = 0 THEN <<>> ELSE g[n - 1] \o OnBus(n - 1)
    <3>1. CASE n = 0
      BY <1>5, <3>1 DEF Computes
    <3>2. CASE n # 0
      <4>1. n \in 1 .. m /\ n - 1 \in 0 .. m
        BY <1>1, <3>2
      <4>2. g[n] = step[n][g[n - 1]] /\ g[n - 1] \in V
        BY <1>5, <4>1 DEF Computes
      <4>3. QED
        BY <3>2, <4>1, <4>2 DEF step
    <3>3. QED
      BY <3>1, <3>2
  <2>2. g = [n \in 0 .. m |-> g[n]]
    BY <1>5 DEF Computes
  <2>3. QED
    BY <1>1, <2>1, <2>2 DEF Appending
<1> DEFINE below == CHOOSE h : Appending(h)
<1>7. Appending(below)
  BY <1>6, Zenon
<1>8. Listed = below[LastBus + 1]
  BY Zenon DEF Listed, Appending
<1> HIDE DEF below
<1>9. \A n \in 0 .. m : below[n] = IF n = 0 THEN <<>> ELSE below[n - 1] \o OnBus(n - 1)
  BY <1>1, <1>7, Zenon DEF Appending
<1> DEFINE Holds1(n) == below[n] \in V /\ ToSet(below[n]) = Upto(n) /\ Distinct(below[n])
           S == {n \in 0 .. m : Holds1(n)}
<1>10. \A f \in Scanned : number[hw[f].bus] \in 0 .. last
  BY DEF Scanned, Numbers, Numbered, Bus
<1>11. 0 \in S
  <2>1. Upto(0) = {}
    BY <1>10 DEF Upto
  <2>2. ToSet(<<>>) = {} /\ Distinct(<<>>)
    BY DEF ToSet, Distinct
  <2>3. 0 \in 0 .. m
    BY <1>1
  <2>4. below[0] = <<>>
    BY <1>9, <2>3
  <2>5. QED
    BY <1>4, <2>1, <2>2, <2>3, <2>4
<1>12. ASSUME NEW i \in 1 .. m, i - 1 \in S PROVE i \in S
  <2>1. Holds1(i - 1)
    BY <1>12
  <2>2. OnBus(i - 1) \in V /\ Distinct(OnBus(i - 1))
        /\ ToSet(OnBus(i - 1)) = {f \in Scanned : number[hw[f].bus] = i - 1}
    BY <1>2, <1>3
  <2>3. below[i] = below[i - 1] \o OnBus(i - 1)
    BY <1>3, <1>9
  <2>4. ToSet(below[i - 1]) \cap ToSet(OnBus(i - 1)) = {}
    <3>1. \A f \in Upto(i - 1) : number[hw[f].bus] < i - 1 /\ number[hw[f].bus] \in 0 .. last
      BY <1>10 DEF Upto
    <3>2. \A f \in Upto(i - 1) : number[hw[f].bus] # i - 1
      BY <1>3, <3>1
    <3>3. QED
      BY <2>1, <2>2, <3>2
  <2>5. Upto(i) = Upto(i - 1) \cup {f \in Scanned : number[hw[f].bus] = i - 1}
    <3>1. \A f \in Scanned : number[hw[f].bus] < i <=> number[hw[f].bus] < i - 1 \/ number[hw[f].bus] = i - 1
      BY <1>3, <1>10
    <3>2. QED
      BY <3>1 DEF Upto
  <2>6. below[i] \in V /\ ToSet(below[i]) = ToSet(below[i - 1]) \cup ToSet(OnBus(i - 1)) /\ Distinct(below[i])
    BY <2>1, <2>2, <2>3, <2>4, Concatenated DEF V
  <2>7. QED
    BY <1>3, <2>1, <2>2, <2>5, <2>6
<1>13. 0 .. m \subseteq S
  <2> HIDE DEF S
  <2>1. QED
    BY <1>1, <1>11, <1>12, CountUp
<1>14. Holds1(m)
  BY <1>1, <1>13
<1>15. Upto(m) = Scanned
  BY <1>1, <1>10 DEF Upto
<1>16. QED
  BY <1>1, <1>8, <1>14, <1>15 DEF V

\* A list without duplicates is as long as it has members.
LEMMA DistinctCount ==
    ASSUME NEW V, NEW s \in Seq(V), Distinct(s)
    PROVE  IsFiniteSet(ToSet(s)) /\ Cardinality(ToSet(s)) = Len(s)
<1> DEFINE n == Len(s)
<1>1. n \in Nat /\ DOMAIN s = 1 .. n /\ s \in [1 .. n -> ToSet(s)]
  BY DEF ToSet
<1>2. IsFiniteSet(1 .. n) /\ Cardinality(1 .. n) = n
  BY <1>1, FS_Interval
<1>3. s \in Bijection(1 .. n, ToSet(s))
  BY <1>1 DEF Distinct, ToSet, Bijection, Injection, IsInjective, Surjection
<1>4. QED
  BY <1>2, <1>3, FS_Bijection DEF ExistsBijection

-----------------------------------------------------------------------------
(* From the scan to the close.                                             *)

ListStages == {"listed", "ready"}

ListInv ==
    /\ stage \in {"scan"} \cup ListStages => RouteInv /\ ScanInv /\ LinkInv
    /\ stage \in ListStages => devList \in Seq(Fn) /\ ToSet(devList) = Scanned /\ Distinct(devList)
    /\ stage \notin {"scan"} \cup ListStages => active = {}

\* The scan starts so.
Started == Fresh /\ bar = {} /\ active = {} /\ speed = [f \in Fn |-> "preferred"]

LEMMA StartedInv == Started => RouteInv /\ ScanInv /\ LinkInv
BY FreshRoute, ScanFresh, LinkFresh DEF Started, Fresh

\* The list is made when the scan has ended, and stays with the tree until the close.
LEMMA BoardsList ==
    StageInv /\ ListInv /\ (Started => RouteInv /\ ScanInv /\ LinkInv)' /\ [BoardsNext]_boardVars => ListInv'
<1> SUFFICES ASSUME StageInv, ListInv, (Started => RouteInv /\ ScanInv /\ LinkInv)', [BoardsNext]_boardVars
             PROVE  ListInv'
  OBVIOUS
<1>1. CASE StartScan
  <2>1. Started' /\ stage' = "scan"
    BY <1>1 DEF StartScan, Started, Fresh, Step, Fn, Bridges
  <2>2. QED
    BY <1>1, <2>1 DEF ListInv, ListStages
<1>2. CASE Scan
  <2>1. Next /\ stage = "scan" /\ stage' = "scan"
    BY <1>2 DEF Scan, probeVars
  <2>2. RouteInv' /\ ScanInv' /\ LinkInv'
    BY <2>1, NextRoute, NextScan, NextLink DEF ListInv
  <2>3. QED
    BY <2>1, <2>2 DEF ListInv, ListStages
<1>3. CASE BuildDevList
  <2>1. stage = "scan" /\ stage' = "listed" /\ devList' = Listed /\ UNCHANGED vars
    BY <1>3 DEF BuildDevList, Step
  <2>2. RouteInv /\ ScanInv /\ LinkInv
    BY <2>1 DEF ListInv
  <2>3. Listed \in Seq(Fn) /\ ToSet(Listed) = Scanned /\ Distinct(Listed)
    BY <2>2, ListedOf DEF RouteInv
  <2>4. Fn' = Fn /\ Scanned' = Scanned
    BY <2>1 DEF vars, Scanned, Fn, Numbered, Bridges, Seen, Dev
  <2>5. RouteInv' /\ ScanInv' /\ LinkInv'
    BY <2>1, <2>2, NextRoute, NextScan, NextLink
  <2>6. QED
    BY <2>1, <2>3, <2>4, <2>5 DEF ListInv, ListStages, Distinct, ToSet
<1>4. CASE stage' = "down" /\ active' = {}
  BY <1>4 DEF ListInv, ListStages
<1>5. CASE UNCHANGED <<vars, devList>> /\ (stage' = stage \/ (stage = "listed" /\ stage' = "ready")
                                            \/ {stage, stage'} \cap ({"scan"} \cup ListStages) = {})
  <2>1. Fn' = Fn /\ Scanned' = Scanned /\ devList' = devList /\ active' = active
    BY <1>5 DEF vars, Scanned, Fn, Numbered, Bridges, Seen, Dev
  <2>2. RouteInv /\ ScanInv /\ LinkInv => RouteInv' /\ ScanInv' /\ LinkInv'
    BY <1>5, NextRoute, NextScan, NextLink
  <2>3. QED
    BY <1>5, <2>1, <2>2 DEF ListInv, ListStages, Distinct, ToSet
<1>6. CASE Probe
  <2>1. UNCHANGED <<vars, devList>> /\ {stage, stage'} \cap ({"scan"} \cup ListStages) = {}
    BY <1>6 DEF Probe, ProbeNext, Step, ListStages, DevtreeParse, ResetBridge, FindDmaWindow,
       DevtreeRegions, Inbound, MaskAll, ReleasePerst, LinkUp, SetOutboundWin, Finetune, OpenGic400,
       DemuxEnable
  <2>2. QED
    BY <1>5, <2>1
<1>7. CASE ProbeError
  <2>1. UNCHANGED <<vars, devList>> /\ {stage, stage'} \cap ({"scan"} \cup ListStages) = {}
    BY <1>7 DEF ProbeError, ProbeFails, ProbeStages, ListStages
  <2>2. QED
    BY <1>5, <2>1
<1>8. CASE LibOpenStep
  BY <1>1, <1>2, <1>3, <1>4, <1>5, <1>6, <1>7, <1>8 DEF LibOpenStep, MakeDevs, CreatePool, Step,
     GiveUp, SetupFails, Forget
<1>9. CASE Reserve \/ UNCHANGED boardVars
  BY <1>5, <1>9 DEF Reserve, ObtainCard, ReleaseCard, ClearOwner, hwVars, probeVars, boardVars
<1>10. CASE CloseDown
  BY <1>4, <1>10 DEF CloseDown, Shutdown, Forget, Step
<1>11. CASE (BringUp \/ Drive) /\ UNCHANGED <<owner, held, robbed>>
  <2>1. CASE BringUp
    BY <1>5, <2>1 DEF BringUp, Step, ListStages
  <2>2. CASE Drive
    BY <1>5, <2>2 DEF Drive
  <2>3. QED
    BY <1>11, <2>1, <2>2
<1>12. QED
  BY <1>8, <1>9, <1>10, <1>11 DEF BoardsNext

LEMMA ListStays == BoardsSpec => [](StageInv /\ ListInv)
<1>1. BoardsInit => ListInv
  BY DEF BoardsInit, HwInit, Idle, ProbeInit, ListInv, ListStages
<1>2. QED
  BY <1>1, StageInit, BoardsStage, StartedInv, BoardsList, PTL DEF BoardsSpec

\* pciauto_exp_fixup_link inside the library: from the scan to the close a port is left at
\* 2.5 GT/s if and only if its link works there and not at the preferred speed.
THEOREM LinksStayTrained == BoardsSpec => []LinksTrained
<1>1. ListInv => LinksTrained
  BY LinkSafe DEF ListInv, LinksTrained
<1>2. QED
  BY <1>1, ListStays, PTL

\* The functions the scan got to are those that answer on a numbered bus.
LEMMA ListComplete == ListInv => EveryFunctionListed
<1> SUFFICES ASSUME ListInv, stage = "ready" PROVE EveryFunctionListed
  BY DEF EveryFunctionListed, Ready
<1>1. RouteInv /\ devList \in Seq(Fn) /\ ToSet(devList) = Scanned /\ Distinct(devList)
  BY DEF ListInv, ListStages
<1>2. Scanned = {f \in Fn : \E b \in Bus : f \in Seen(b, number[b]) /\ (b = Root \/ number[b] # 0)}
  <2>1. \A f, b : f \in Seen(b, number[b]) => hw[f].bus = b
    BY DEF Seen
  <2>2. \A b : b \in {Root} \cup Numbered <=> b \in Bus /\ (b = Root \/ number[b] # 0)
    BY DEF Bus, Numbered
  <2>3. QED
    BY <2>1, <2>2 DEF Scanned
<1>3. Cardinality(ToSet(devList)) = Len(devList)
  BY <1>1, DistinctCount
<1>4. QED
  BY <1>1, <1>2, <1>3 DEF EveryFunctionListed

\* pcie_build_dev_list appends the buses up to pci_get_bus_max: every function that answers
\* on a numbered bus gets into the list, and once, whatever the tree.
THEOREM ListHasEveryFunction == BoardsSpec => []EveryFunctionListed
BY ListComplete, ListStays, PTL

\* Of every id lspci looks up it prints the first capability that the list leads to, with
\* lists that run in circles too.
THEOREM CapabilitiesArePrinted == BoardsSpec => []CapabilitiesPrinted
<1>1. ListInv => CapabilitiesPrinted
  <2> SUFFICES ASSUME ListInv, stage = "ready",
                      NEW f \in Listable, NEW id \in 1 .. PCI_CAP_ID_MAX, NEW p \in Positions
               PROVE  /\ <<id, p>> \in Dumped(DumpedCaps(f)) <=>
                            hw[f].caps.present /\ LeadsTo(hw[f].caps, hw[f].caps.first, id, p, {AllOnes})
                      /\ <<id, p>> \in Dumped(DumpedExt(f)) <=>
                            /\ hw[f].ext.at[FirstPos] # [id |-> 0, next |-> 0]
                            /\ LeadsTo(hw[f].ext, FirstPos, id, p, {})
    BY DEF CapabilitiesPrinted, Ready
  <2>1. f \in Fn /\ hw \in Topologies /\ p # 0 /\ id # AllOnes
    <3>1. ToSet(devList) = Scanned /\ RouteInv
      BY DEF ListInv, ListStages
    <3>2. QED
      BY <3>1, CapabilityAssumption, LspciAssumption DEF Listable, Scanned, RouteInv, Numbers
  <2>2. ListOK(hw[f].caps) /\ ListOK(hw[f].ext)
    BY <2>1, HardwareAssumption DEF Fn
  <2>4. <<id, p>> \in Dumped(DumpedCaps(f)) <=> FindCapability(hw[f].caps, id) = p
    BY <2>1 DEF Dumped, DumpedCaps
  <2>5. <<id, p>> \in Dumped(DumpedExt(f)) <=> FindExtCapability(hw[f].ext, id) = p
    BY <2>1 DEF Dumped, DumpedExt
  <2>6. QED
    BY <2>1, <2>2, <2>4, <2>5, CapabilityFound, ExtCapabilityFound
<1>2. QED
  BY <1>1, ListStays, PTL

-----------------------------------------------------------------------------
(* Searches.                                                               *)

\* The lowest hit behind the j-th is the next one.
LEMMA NextHit ==
    ASSUME NEW K \in SUBSET (Nat \ {0}), IsFiniteSet(K), NEW i \in Nat, NEW j \in Nat,
           (i = 0 /\ j = 0) \/ (i \in K /\ Rank(K, i) = j)
    PROVE  LET hits == {k \in K : i < k} IN
           /\ j + 1 <= Cardinality(K) => hits # {} /\ Lowest1(hits) \in K /\ Rank(K, Lowest1(hits)) = j + 1
           /\ ~(j + 1 <= Cardinality(K)) => hits = {}
<1> DEFINE c == Cardinality(K)  hits == {k \in K : i < k}
<1>1. /\ c \in Nat /\ K \in SUBSET Nat
      /\ \A k \in K : Rank(K, k) \in 1 .. c
      /\ \A k, l \in K : k < l => Rank(K, k) < Rank(K, l)
      /\ \A n \in 1 .. c : \E k \in K : Rank(K, k) = n
  BY Ranks
<1>2. \A k \in K : i < k => j < Rank(K, k)
  <2>1. CASE i = 0 /\ j = 0
    BY <1>1, <2>1
  <2>2. CASE i \in K /\ Rank(K, i) = j
    BY <1>1, <2>2
  <2>3. QED
    BY <2>1, <2>2
<1>3. \A k \in K : j < Rank(K, k) => i < k
  <2>1. CASE i = 0 /\ j = 0
    BY <1>1, <2>1
  <2>2. CASE i \in K /\ Rank(K, i) = j
    <3> SUFFICES ASSUME NEW k \in K, j < Rank(K, k), ~(i < k) PROVE FALSE
      OBVIOUS
    <3>1. k < i \/ k = i
      BY <1>1
    <3>2. Rank(K, k) \in Nat /\ Rank(K, k) <= j
      BY <1>1, <2>2, <3>1
    <3>3. QED
      BY <3>2
  <2>3. QED
    BY <2>1, <2>2
<1>4. ASSUME ~(j + 1 <= c) PROVE hits = {}
  <2>1. \A k \in K : ~(j < Rank(K, k))
    BY <1>1, <1>4
  <2>2. QED
    BY <1>2, <2>1
<1>5. ASSUME j + 1 <= c PROVE hits # {} /\ Lowest1(hits) \in K /\ Rank(K, Lowest1(hits)) = j + 1
  <2>1. PICK k \in K : Rank(K, k) = j + 1
    BY <1>1, <1>5
  <2>2. k \in hits
    BY <1>3, <2>1
  <2>3. hits \in SUBSET Nat
    BY <1>1
  <2> HIDE DEF hits
  <2>4. Lowest1(hits) \in hits /\ Lowest1(hits) <= k
    BY <2>2, <2>3, LeastNat
  <2> DEFINE l == Lowest1(hits)
  <2>5. l \in K /\ i < l
    BY <2>4 DEF hits
  <2> HIDE DEF l
  <2>6. j < Rank(K, l) /\ Rank(K, l) \in Nat
    BY <1>1, <1>2, <2>5
  <2>7. Rank(K, l) <= j + 1
    <3>0. l \in Nat /\ k \in Nat /\ l <= k
      BY <1>1, <2>1, <2>4, <2>5 DEF l
    <3>1. l < k \/ l = k
      BY <3>0
    <3>2. QED
      BY <1>1, <2>1, <2>5, <3>1
  <2>8. QED
    BY <2>2, <2>5, <2>6, <2>7 DEF l
<1>6. QED
  BY <1>4, <1>5

\* What a loop over a search for M visits.
Visits(M) == Visited(LAMBDA prev : Search(prev, M))
Matching(M) == {i \in DOMAIN devList : devList[i] \in M}

Looping(M, g) ==
    g = [n \in 0 .. Len(devList) |->
            IF n = 0 THEN Search(NoDev, M)
            ELSE LET prev == g[n - 1] IN IF prev = NoDev THEN NoDev ELSE Search(prev, M)]

\* A search goes on where the last one ended.
LEMMA SearchFrom ==
    ASSUME NEW V, devList \in Seq(V), NoDev \notin V, Distinct(devList), NEW M, NEW j \in Nat, NEW prev,
           (prev = NoDev /\ j = 0) \/
           (\E i \in Matching(M) : prev = devList[i] /\ Rank(Matching(M), i) = j)
    PROVE  IF j + 1 <= Cardinality(Matching(M))
           THEN \E i \in Matching(M) : Search(prev, M) = devList[i] /\ Rank(Matching(M), i) = j + 1
           ELSE Search(prev, M) = NoDev
<1> DEFINE n == Len(devList)  K == Matching(M)
<1>1. n \in Nat /\ DOMAIN devList = 1 .. n /\ \A i \in 1 .. n : devList[i] \in V
  OBVIOUS
<1>2. K \in SUBSET (1 .. n) /\ IsFiniteSet(1 .. n)
  BY <1>1, FS_Interval DEF Matching
<1>3. IsFiniteSet(K) /\ K \in SUBSET (Nat \ {0})
  BY <1>2, FS_Subset
<1>4. PICK i \in Nat : /\ (i = 0 /\ j = 0) \/ (i \in K /\ Rank(K, i) = j)
                       /\ After(prev) = i + 1
  <2>1. CASE prev = NoDev /\ j = 0
    BY <2>1 DEF After
  <2>2. CASE \E i \in K : prev = devList[i] /\ Rank(K, i) = j
    <3>1. PICK i \in K : prev = devList[i] /\ Rank(K, i) = j
      BY <2>2
    <3>2. i \in 1 .. n /\ \A k \in 1 .. n : devList[k] = prev => k = i
      BY <1>1, <1>2, <3>1 DEF Distinct
    <3>3. prev # NoDev
      BY <1>1, <3>1, <3>2
    <3>4. (CHOOSE k \in DOMAIN devList : devList[k] = prev) = i
      BY <1>1, <3>1, <3>2
    <3>5. After(prev) = 1 + i /\ i \in Nat
      <4>1. After(prev) = 1 + CHOOSE k \in DOMAIN devList : devList[k] = prev
        BY <3>3, Zenon DEF After
      <4>2. After(prev) = 1 + i
        BY <3>4, <4>1, Zenon
      <4>3. QED
        BY <3>2, <4>2
    <3>6. QED
      BY <3>1, <3>5
  <2>3. QED
    BY <2>1, <2>2
<1> DEFINE hits == {k \in K : i < k}
<1>5. {k \in After(prev) .. n : devList[k] \in M} = hits
  BY <1>1, <1>2, <1>4 DEF Matching
<1>6. Search(prev, M) = IF hits = {} THEN NoDev ELSE devList[Lowest1(hits)]
  BY <1>5 DEF Search
<1>7. /\ j + 1 <= Cardinality(K) => hits # {} /\ Lowest1(hits) \in K /\ Rank(K, Lowest1(hits)) = j + 1
      /\ ~(j + 1 <= Cardinality(K)) => hits = {}
  BY <1>3, <1>4, NextHit
<1> HIDE DEF hits, K
<1>8. QED
  BY <1>6, <1>7 DEF K

\* The search's results are boards of the list.
LEMMA SearchType ==
    ASSUME NEW V, devList \in Seq(V), NEW prev \in {NoDev} \cup ToSet(devList), NEW M
    PROVE  Search(prev, M) \in {NoDev} \cup ToSet(devList)
<1> DEFINE hits == {i \in After(prev) .. Len(devList) : devList[i] \in M}
<1>1. Len(devList) \in Nat /\ DOMAIN devList = 1 .. Len(devList)
  OBVIOUS
<1>2. After(prev) \in Nat /\ After(prev) # 0
  <2>1. CASE prev = NoDev
    BY <2>1 DEF After
  <2>2. CASE prev # NoDev
    <3>1. \E i \in DOMAIN devList : devList[i] = prev
      BY <2>2 DEF ToSet
    <3>2. (CHOOSE i \in DOMAIN devList : devList[i] = prev) \in DOMAIN devList
      BY <3>1
    <3>3. After(prev) = 1 + CHOOSE i \in DOMAIN devList : devList[i] = prev
      BY <2>2, Zenon DEF After
    <3>4. QED
      BY <1>1, <3>2, <3>3
  <2>3. QED
    BY <2>1, <2>2
<1>3. hits \in SUBSET DOMAIN devList /\ hits \in SUBSET Nat
  BY <1>1, <1>2
<1>4. Search(prev, M) = IF hits = {} THEN NoDev ELSE devList[Lowest1(hits)]
  BY DEF Search
<1> HIDE DEF hits
<1>5. hits # {} => Lowest1(hits) \in DOMAIN devList
  BY <1>3, LeastNat
<1>6. QED
  BY <1>4, <1>5 DEF ToSet

\* There is a loop, by CountUp.
LEMMA LoopIs == ASSUME NEW U, devList \in Seq(U), NEW M PROVE \E g : Looping(M, g)
<1> DEFINE n == Len(devList)
           V == {NoDev} \cup ToSet(devList)
           Turn(p) == IF p = NoDev THEN NoDev ELSE Search(p, M)
           step == [i \in 1 .. n |-> [p \in V |-> Turn(p)]]
<1>1. n \in Nat
  OBVIOUS
<1>2. \A p \in V : Turn(p) \in V
  BY SearchType
<1>3. step \in [1 .. n -> [V -> V]]
  BY <1>2
<1>4. Search(NoDev, M) \in V
  BY SearchType
<1> HIDE DEF step, V
<1>5. PICK g : Computes(n, V, Search(NoDev, M), step, g)
  BY <1>1, <1>3, <1>4, Computed
<1>6. ASSUME NEW i \in 0 .. n
      PROVE  g[i] = IF i = 0 THEN Search(NoDev, M)
                    ELSE LET prev == g[i - 1] IN IF prev = NoDev THEN NoDev ELSE Search(prev, M)
  <2>1. CASE i = 0
    BY <1>5, <2>1 DEF Computes
  <2>2. CASE i # 0
    <3>1. i \in 1 .. n /\ i - 1 \in 0 .. n
      BY <1>1, <2>2
    <3>2. g[i] = step[i][g[i - 1]] /\ g[i - 1] \in V
      BY <1>5, <3>1 DEF Computes
    <3>3. QED
      BY <2>2, <3>1, <3>2 DEF step
  <2>3. QED
    BY <2>1, <2>2
<1>7. g = [i \in 0 .. n |-> g[i]]
  BY <1>5 DEF Computes
<1>8. QED
  BY <1>6, <1>7, Zenon DEF Looping

\* An initial segment of the numbers, counted from 1.
LEMMA RankFirst ==
    ASSUME NEW c \in Nat, NEW i \in 0 .. c - 1
    PROVE  Rank(0 .. c - 1, i) = i + 1
<1>1. {j \in 0 .. c - 1 : j <= i} = 0 .. i
  OBVIOUS
<1>2. Cardinality(0 .. i) = i + 1
  <2>1. 0 \in Int /\ i \in Int /\ ~(0 > i) /\ i - 0 + 1 = i + 1
    OBVIOUS
  <2>2. QED
    BY <2>1, FS_Interval
<1>3. QED
  BY <1>1, <1>2 DEF Rank

\* The loop visits the matching boards, once and in their order.
LEMMA VisitsOf ==
    ASSUME NEW V, devList \in Seq(V), NoDev \notin V, Distinct(devList), NEW M
    PROVE  Visits(M) = Entries(devList, Matching(M))
<1> DEFINE n == Len(devList)  K == Matching(M)  c == Cardinality(K)
           nth == CHOOSE g : Looping(M, g)
           I == {i \in DOMAIN nth : nth[i] # NoDev}
<1>1. n \in Nat /\ DOMAIN devList = 1 .. n /\ \A i \in 1 .. n : devList[i] \in V
  OBVIOUS
<1>2. K \in SUBSET (1 .. n) /\ IsFiniteSet(K) /\ K \in SUBSET Nat /\ c \in Nat /\ c <= n
  <2>1. K \in SUBSET (1 .. n)
    BY <1>1 DEF Matching
  <2> HIDE DEF n
  <2>2. IsFiniteSet(1 .. n) /\ Cardinality(1 .. n) = n
    BY <1>1, FS_Interval
  <2>3. QED
    BY <1>1, <2>1, <2>2, FS_Subset, FS_CardinalityType
<1>3. Looping(M, nth)
  BY LoopIs, Zenon
<1>4. Visits(M) = Entries(nth, I)
  BY Zenon DEF Visits, Visited, Kept, Looping
<1> HIDE DEF nth
<1>5. /\ DOMAIN nth = 0 .. n
      /\ nth[0] = Search(NoDev, M)
      /\ \A i \in 1 .. n : nth[i] = IF nth[i - 1] = NoDev THEN NoDev ELSE Search(nth[i - 1], M)
  <2>1. DOMAIN nth = 0 .. n
    BY <1>3, Zenon DEF Looping
  <2>2. \A i \in 0 .. n : nth[i] = IF i = 0 THEN Search(NoDev, M)
            ELSE LET prev == nth[i - 1] IN IF prev = NoDev THEN NoDev ELSE Search(prev, M)
    BY <1>3, Zenon DEF Looping
  <2> HIDE DEF n
  <2>3. 0 \in 0 .. n /\ \A i \in 1 .. n : i \in 0 .. n /\ i # 0
    BY <1>1
  <2>4. QED
    BY <2>1, <2>2, <2>3, Zenon
<1> DEFINE Right(i) == IF i + 1 <= c THEN \E k \in K : nth[i] = devList[k] /\ Rank(K, k) = i + 1
                       ELSE nth[i] = NoDev
           S == {i \in 0 .. n : Right(i)}
<1> HIDE DEF K, c
<1>6. 0 \in S
  <2>1. IF 0 + 1 <= c THEN \E k \in K : Search(NoDev, M) = devList[k] /\ Rank(K, k) = 0 + 1
        ELSE Search(NoDev, M) = NoDev
    BY SearchFrom DEF K, c
  <2>2. QED
    BY <1>1, <1>5, <2>1
<1>7. ASSUME NEW i \in 1 .. n, i - 1 \in S PROVE i \in S
  <2>1. i \in 0 .. n /\ Right(i - 1) /\ i \in Nat /\ (i - 1) + 1 = i
    BY <1>1, <1>7
  <2>2. CASE i <= c
    <3>1. PICK k \in K : nth[i - 1] = devList[k] /\ Rank(K, k) = i
      BY <2>1, <2>2
    <3>2. nth[i - 1] # NoDev
      BY <1>1, <1>2, <3>1
    <3>3. nth[i] = Search(nth[i - 1], M)
      BY <1>5, <3>2
    <3>4. IF i + 1 <= c THEN \E l \in K : Search(nth[i - 1], M) = devList[l] /\ Rank(K, l) = i + 1
          ELSE Search(nth[i - 1], M) = NoDev
      BY <2>1, <3>1, SearchFrom DEF K, c
    <3>5. QED
      BY <2>1, <3>3, <3>4
  <2>3. CASE ~(i <= c)
    <3>1. nth[i - 1] = NoDev
      BY <2>1, <2>3
    <3>2. nth[i] = NoDev
      BY <1>5, <3>1
    <3>3. ~(i + 1 <= c)
      BY <1>2, <2>1, <2>3
    <3>4. QED
      BY <2>1, <3>2, <3>3
  <2>4. QED
    BY <2>2, <2>3
<1>8. 0 .. n \subseteq S
  <2> HIDE DEF S
  <2>1. QED
    BY <1>1, <1>6, <1>7, CountUp
<1>9. \A i \in 0 .. n : Right(i)
  BY <1>8
<1>10. \A i \in 0 .. n : nth[i] # NoDev <=> i + 1 <= c
  BY <1>1, <1>2, <1>9
<1>11. I = 0 .. c - 1
  BY <1>1, <1>2, <1>5, <1>10
<1> HIDE DEF I
<1>12. I \in SUBSET Nat /\ IsFiniteSet(I) /\ Cardinality(I) = c
  <2>1. 0 \in Int /\ c - 1 \in Int /\ (0 > c - 1 <=> c = 0) /\ (c - 1) - 0 + 1 = c
    BY <1>2
  <2>2. IsFiniteSet(0 .. c - 1) /\ Cardinality(0 .. c - 1) = c
    BY <2>1, FS_Interval
  <2>3. QED
    BY <1>2, <1>11, <2>2
<1>13. ASSUME NEW k \in 1 .. c PROVE Entries(nth, I)[k] = Entries(devList, K)[k]
  <2>1. PICK i \in I : Entries(nth, I)[k] = nth[i] /\ Rank(I, i) = k
    <3>1. k \in 1 .. Cardinality(I)
      BY <1>12
    <3>2. QED
      BY <1>12, <3>1, EntriesOf
  <2>2. i \in 0 .. c - 1 /\ Rank(I, i) = i + 1
    BY <1>2, <1>11, <2>1, RankFirst
  <2>3. i + 1 = k /\ i \in 0 .. n /\ i + 1 <= c
    BY <1>1, <1>2, <2>1, <2>2
  <2>4. PICK l \in K : nth[i] = devList[l] /\ Rank(K, l) = k
    BY <1>9, <2>3
  <2>5. Entries(devList, K)[Rank(K, l)] = devList[l]
    BY <1>2, EntriesOf DEF c
  <2>6. QED
    BY <2>1, <2>4, <2>5
<1>14. Entries(nth, I) = [k \in 1 .. c |-> Entries(nth, I)[k]]
  BY <1>12 DEF Entries
<1>15. Entries(devList, K) = [k \in 1 .. c |-> Entries(devList, K)[k]]
  BY DEF Entries, c
<1>16. QED
  BY <1>4, <1>13, <1>14, <1>15 DEF K

\* Where the list holds one board that matches, the loop visits it alone.
LEMMA VisitsOne ==
    ASSUME NEW V, devList \in Seq(V), NoDev \notin V, Distinct(devList), NEW f \in ToSet(devList)
    PROVE  Visits({f}) = <<f>> /\ Search(NoDev, {f}) = f
<1> DEFINE n == Len(devList)  K == Matching({f})
<1>1. n \in Nat /\ DOMAIN devList = 1 .. n
  OBVIOUS
<1>2. PICK i \in 1 .. n : devList[i] = f
  BY <1>1 DEF ToSet
<1>3. K = {i}
  BY <1>1, <1>2 DEF Matching, Distinct
<1> HIDE DEF n, K
<1>4. IsFiniteSet(K) /\ Cardinality(K) = 1 /\ K \in SUBSET Nat
  <2>1. i \in Nat
    BY <1>1
  <2>2. IsFiniteSet({i}) /\ Cardinality({i}) = 1
    BY FS_Singleton
  <2>3. QED
    BY <1>3, <2>1, <2>2
<1>5. Rank(K, i) \in 1 .. Cardinality(K) /\ Entries(devList, K)[Rank(K, i)] = devList[i]
  BY <1>3, <1>4, EntriesOf
<1>6. Rank(K, i) = 1
  BY <1>4, <1>5
<1>7. Entries(devList, K) = [k \in 1 .. 1 |-> Entries(devList, K)[k]]
  BY <1>4 DEF Entries
<1>8. Entries(devList, K) = <<f>>
  <2> DEFINE e == Entries(devList, K)
  <2>1. e[1] = f
    BY <1>2, <1>5, <1>6
  <2>2. e = [k \in 1 .. 1 |-> e[k]]
    BY <1>7
  <2> HIDE DEF e
  <2>3. QED
    BY <2>1, <2>2 DEF e
<1>9. IF 0 + 1 <= Cardinality(K) THEN \E k \in K : Search(NoDev, {f}) = devList[k] /\ Rank(K, k) = 0 + 1
      ELSE Search(NoDev, {f}) = NoDev
  BY SearchFrom DEF K
<1>10. Search(NoDev, {f}) = f
  BY <1>2, <1>3, <1>4, <1>9
<1>11. QED
  BY <1>8, <1>10, VisitsOf DEF K

\* The loop over FindBoardA, for data that fit what is compared of them.
LEMMA BoardsVisited ==
    ASSUME devList \in Seq(Fn), NoDev \notin Fn, Distinct(devList), NEW tags,
           \A tag \in DOMAIN tags : Compared(tag, tags[tag]) = tags[tag]
    PROVE  VisitedBoards(tags) = ListedBoards(tags)
<1> DEFINE M == {f \in Listable : \A tag \in DOMAIN tags : Attribute(f, tag) = tags[tag]}
<1>1. VisitedBoards(tags) = Visits(M)
  <2> DEFINE C == {f \in Listable : \A tag \in DOMAIN tags : Attribute(f, tag) = Compared(tag, tags[tag])}
  <2>1. VisitedBoards(tags) = Visits(C)
    BY DEF VisitedBoards, Visits, LibFindBoardA
  <2>2. C = M
    OBVIOUS
  <2>3. QED
    BY <2>1, <2>2
<1>2. Matching(M) = {i \in DOMAIN devList : \A tag \in DOMAIN tags : Attribute(devList[i], tag) = tags[tag]}
  <2>1. \A i \in DOMAIN devList : devList[i] \in Listable
    BY DEF Listable, ToSet
  <2>2. QED
    BY <2>1 DEF Matching
<1> HIDE DEF M
<1>3. ListedBoards(tags) = Entries(devList, Matching(M))
  BY <1>2 DEF ListedBoards, Kept
<1>4. QED
  BY <1>1, <1>3, VisitsOf

\* A board's own attributes fit what is compared of them.
LEMMA AttributesFit ==
    ASSUME hw \in Topologies, NEW f \in Fn,
           NEW tag \in {"Vendor", "Class", "SubClass", "Interface", "BusNumber", "SlotNumber", "FunctionNumber"}
    PROVE  Compared(tag, Attribute(f, tag)) = Attribute(f, tag)
<1>1. CASE tag = "Vendor"
  <2>1. hw[f].vendor \in Nat /\ hw[f].vendor < 65536
    BY IdentityAssumption DEF Fn
  <2>2. hw[f].vendor % 65536 = hw[f].vendor
    BY <2>1
  <2>3. QED
    BY <1>1, <2>2 DEF Attribute, Compared
<1>2. CASE tag \in {"Class", "SubClass", "Interface"}
  <2>1. hw[f].class \in Int
    BY IdentityAssumption DEF Fn
  <2>2. \A n \in Int : (n % 256) % 256 = n % 256
    OBVIOUS
  <2>3. \E n \in Int : Attribute(f, tag) = n % 256
    <3>1. hw[f].class \div 65536 \in Int /\ hw[f].class \div 256 \in Int
      BY <2>1
    <3>2. QED
      BY <1>2, <2>1, <3>1 DEF Attribute
  <2>4. Compared(tag, Attribute(f, tag)) = Attribute(f, tag) % 256
    BY <1>2 DEF Compared
  <2>5. QED
    BY <2>2, <2>3, <2>4
<1>3. CASE tag \in {"BusNumber", "SlotNumber", "FunctionNumber"}
  BY <1>3 DEF Compared
<1>4. QED
  BY <1>1, <1>2, <1>3

\* A class code is its three bytes.
LEMMA ThreeBytes ==
    ASSUME NEW c \in Nat, c < 16777216, NEW d \in Nat, d < 16777216,
           (c \div 65536) % 256 = (d \div 65536) % 256,
           (c \div 256) % 256 = (d \div 256) % 256, c % 256 = d % 256
    PROVE  c = d
<1>1. ASSUME NEW n \in Nat, n < 16777216
      PROVE  n = 65536 * ((n \div 65536) % 256) + (256 * ((n \div 256) % 256) + (n % 256))
  <2>1. n = 256 * (n \div 256) + (n % 256)
    BY SMT
  <2>2. n \div 256 \in Nat /\ n \div 65536 \in Nat /\ n \div 65536 < 256
    BY <1>1, SMT
  <2>3. n \div 256 = 256 * (n \div 65536) + ((n \div 256) % 256)
    BY SMT
  <2>4. (n \div 65536) % 256 = n \div 65536
    BY <2>2, SMT
  <2>5. QED
    BY <2>1, <2>2, <2>3, <2>4, SMT
<1>2. QED
  BY <1>1, SMT

\* Each search is a loop over the boards that match, in the order of the list.
LEMMA SearchesSafe == ListInv => SearchesComplete
<1> SUFFICES ASSUME ListInv, stage = "ready" PROVE SearchesComplete
  BY DEF SearchesComplete, Ready
<1>1. /\ RouteInv /\ hw \in Topologies /\ devList \in Seq(Fn) /\ ToSet(devList) = Scanned
      /\ Distinct(devList) /\ NoDev \notin Fn /\ Listable = ToSet(devList)
  BY TreeOf DEF ListInv, ListStages, RouteInv, Numbers, NoDev, Listable
<1>2. \A i \in DOMAIN devList : devList[i] \in Listable
  BY DEF Listable, ToSet
<1>3. \A M : Visits(M) = Entries(devList, Matching(M))
  BY <1>1, VisitsOf
<1>0. Listable \subseteq Fn
  BY <1>1 DEF Scanned
<1>4. ASSUME NEW tags \in Filters PROVE VisitedBoards(tags) = ListedBoards(tags)
  <2>1. \A tag \in DOMAIN tags : Compared(tag, tags[tag]) = tags[tag]
    <3>1. CASE tags = [tag \in {} |-> 0]
      BY <3>1
    <3>2. ASSUME NEW tag \in {"Vendor", "Class", "SubClass", "BusNumber", "SlotNumber"}, NEW f \in Listable,
                 tags = [t \in {tag} |-> Attribute(f, tag)]
          PROVE  \A t \in DOMAIN tags : Compared(t, tags[t]) = tags[t]
      <4>1. Compared(tag, Attribute(f, tag)) = Attribute(f, tag)
        BY <1>0, <1>1, AttributesFit
      <4>2. DOMAIN tags = {tag} /\ tags[tag] = Attribute(f, tag)
        BY <3>2
      <4>3. QED
        BY <4>1, <4>2
    <3>3. QED
      BY <3>1, <3>2 DEF Filters
  <2>2. QED
    BY <1>1, <2>1, BoardsVisited
<1>5. ASSUME NEW d PROVE VisitedClass(d) = ListedClass(d)
  <2> DEFINE M == {g \in Listable : hw[g].class = d}
  <2>1. VisitedClass(d) = Visits(M)
    BY DEF VisitedClass, Visits, LibFindClass
  <2>2. Matching(M) = {i \in DOMAIN devList : hw[devList[i]].class = d}
    BY <1>2 DEF Matching
  <2> HIDE DEF M
  <2>3. ListedClass(d) = Entries(devList, Matching(M))
    BY <2>2 DEF ListedClass, Kept
  <2>4. QED
    BY <1>3, <2>1, <2>3
<1>6. ASSUME NEW d PROVE VisitedDevices(d) = ListedDevices(d)
  <2> DEFINE M == {g \in Listable : 65535 \in {65535, hw[g].vendor} /\ d \in {65535, hw[g].device}}
  <2>1. VisitedDevices(d) = Visits(M)
    BY DEF VisitedDevices, Visits, LibFindDevice
  <2>2. Matching(M) = {i \in DOMAIN devList : d \in {65535, hw[devList[i]].device}}
    BY <1>2 DEF Matching
  <2> HIDE DEF M
  <2>3. ListedDevices(d) = Entries(devList, Matching(M))
    BY <2>2 DEF ListedDevices, Kept
  <2>4. QED
    BY <1>3, <2>1, <2>3
<1>7. ASSUME NEW f \in Listable, NEW g \in Listable, number[hw[f].bus] = number[hw[g].bus],
             hw[f].devfn = hw[g].devfn
      PROVE  f = g
  <2>1. /\ f \in Fn /\ g \in Fn /\ hw[f].bus \in {Root} \cup Numbered /\ hw[g].bus \in {Root} \cup Numbered
    BY <1>1 DEF Scanned
  <2>2. hw[f].bus = hw[g].bus
    BY <1>1, <1>7, <2>1, NumbersUnique DEF RouteInv
  <2>3. QED
    BY <1>1, <1>7, <2>1, <2>2, TreeOf
<1>8. ASSUME NEW f \in Listable PROVE LibFindSlot(number[hw[f].bus], hw[f].devfn) = f
  <2>1. {g \in Listable : number[hw[g].bus] = number[hw[f].bus] /\ hw[g].devfn = hw[f].devfn} = {f}
    BY <1>7
  <2>2. LibFindSlot(number[hw[f].bus], hw[f].devfn) = Search(NoDev, {f})
    BY <2>1 DEF LibFindSlot
  <2>3. QED
    BY <1>1, <2>2, VisitsOne
<1>9. ASSUME NEW f \in Listable PROVE VisitedBoards(Place(f)) = <<f>>
  <2> DEFINE M == {g \in Listable : \A tag \in DOMAIN Place(f) : Attribute(g, tag) = Place(f)[tag]}
  <2>1. VisitedBoards(Place(f)) = Visits(M)
    <3> DEFINE C == {g \in Listable : \A tag \in DOMAIN Place(f) : Attribute(g, tag) = Compared(tag, Place(f)[tag])}
    <3>1. VisitedBoards(Place(f)) = Visits(C)
      BY DEF VisitedBoards, Visits, LibFindBoardA
    <3>2. C = M
      BY DEF Place, Compared
    <3>3. QED
      BY <3>1, <3>2
  <2>2. ASSUME NEW g \in M PROVE g = f
    <3>1. \A tag \in {"BusNumber", "SlotNumber", "FunctionNumber"} : Attribute(g, tag) = Attribute(f, tag)
      BY DEF Place
    <3>2. number[hw[g].bus] = number[hw[f].bus] /\ Dev(g) = Dev(f) /\ hw[g].devfn % 8 = hw[f].devfn % 8
      BY <3>1 DEF Attribute
    <3>3. hw[g].devfn \in Nat /\ hw[f].devfn \in Nat
      <4>1. g \in Fn /\ f \in Fn
        BY <1>1 DEF Scanned
      <4> HIDE DEF M
      <4>2. hw[g].devfn \in 0 .. 255 /\ hw[f].devfn \in 0 .. 255
        BY <1>1, <4>1, TreeOf
      <4>3. QED
        BY <4>2
    <3>4. hw[g].devfn = hw[f].devfn
      BY <3>2, <3>3 DEF Dev
    <3>5. QED
      BY <1>7, <3>2, <3>4
  <2>3. f \in M
    BY DEF Place
  <2>4. M = {f}
    BY <2>2, <2>3
  <2> HIDE DEF M
  <2>5. QED
    BY <1>1, <2>1, <2>4, VisitsOne
<1>10. ASSUME NEW f \in Listable PROVE VisitedBoards(Class(f)) = VisitedClass(hw[f].class)
  <2> DEFINE M == {g \in Listable : hw[g].class = hw[f].class}
             Bytes == {"Class", "SubClass", "Interface"}
  <2>1. \A tag \in Bytes : Class(f)[tag] = Attribute(f, tag) /\ Compared(tag, Attribute(f, tag)) = Attribute(f, tag)
    BY <1>0, <1>1, AttributesFit DEF Class
  <2>2. DOMAIN Class(f) = Bytes
    BY DEF Class
  <2>3. ASSUME NEW g \in Listable
        PROVE  (\A tag \in Bytes : Attribute(g, tag) = Attribute(f, tag)) <=> hw[g].class = hw[f].class
    <3>1. hw[g].class \in Nat /\ hw[g].class < 16777216 /\ hw[f].class \in Nat /\ hw[f].class < 16777216
      BY <1>0, <1>1, IdentityAssumption DEF Fn
    <3>2. ASSUME \A tag \in Bytes : Attribute(g, tag) = Attribute(f, tag) PROVE hw[g].class = hw[f].class
      <4>1. /\ (hw[g].class \div 65536) % 256 = (hw[f].class \div 65536) % 256
            /\ (hw[g].class \div 256) % 256 = (hw[f].class \div 256) % 256
            /\ hw[g].class % 256 = hw[f].class % 256
        BY <3>2 DEF Attribute
      <4> DEFINE c == hw[g].class  d == hw[f].class
      <4> HIDE DEF c, d
      <4>2. c \in Nat /\ c < 16777216 /\ d \in Nat /\ d < 16777216
        BY <3>1 DEF c, d
      <4>3. (c \div 65536) % 256 = (d \div 65536) % 256 /\ (c \div 256) % 256 = (d \div 256) % 256 /\ c % 256 = d % 256
        BY <4>1 DEF c, d
      <4>4. c = d
        BY <4>2, <4>3, ThreeBytes
      <4>5. QED
        BY <4>4 DEF c, d
    <3>3. ASSUME hw[g].class = hw[f].class PROVE \A tag \in Bytes : Attribute(g, tag) = Attribute(f, tag)
      BY <3>3 DEF Attribute
    <3>4. QED
      BY <3>2, <3>3
  <2> DEFINE C == {g \in Listable : \A tag \in DOMAIN Class(f) : Attribute(g, tag) = Compared(tag, Class(f)[tag])}
  <2>4. C = M
    BY <2>1, <2>2, <2>3
  <2>5. VisitedBoards(Class(f)) = Visits(C)
    BY DEF VisitedBoards, Visits, LibFindBoardA
  <2>6. VisitedClass(hw[f].class) = Visits(M)
    BY DEF VisitedClass, Visits, LibFindClass
  <2>7. QED
    BY <2>4, <2>5, <2>6
<1>11. QED
  BY <1>4, <1>5, <1>6, <1>8, <1>9, <1>10 DEF SearchesComplete

\* The loops around LibFindDevice, LibFindClass and LibFindBoardA visit the boards that
\* match and no other, in the order of the list; LibFindSlot leads to the board there; and
\* the three bytes of a class find what the whole code does.
THEOREM SearchesAreComplete == BoardsSpec => []SearchesComplete
BY SearchesSafe, ListStays, PTL

-----------------------------------------------------------------------------
(* What lspci lists.                                                       *)

USE AddressAssumption

\* The walk over the boards gets to each of them, once.
LEMMA ListingOf ==
    ASSUME devList \in Seq(Fn), NoDev \notin Fn, Distinct(devList)
    PROVE  Len(Listing) = Cardinality(Listable) /\ ToSet(Listing) = Listable
<1> DEFINE n == Len(devList)  none == [tag \in {} |-> 0]
<1>1. n \in Nat /\ DOMAIN devList = 1 .. n /\ DOMAIN none = {}
      /\ \A tag \in DOMAIN none : Compared(tag, none[tag]) = none[tag]
  OBVIOUS
<1>2. IsFiniteSet(1 .. n) /\ Cardinality(1 .. n) = n /\ 1 .. n \in SUBSET Nat
  BY <1>1, FS_Interval
<1>3. Listing = ListedBoards(none)
  BY <1>1, BoardsVisited DEF Listing
<1>4. ListedBoards(none) = Entries(devList, 1 .. n)
  <2>1. {i \in DOMAIN devList : \A tag \in DOMAIN none : Attribute(devList[i], tag) = none[tag]} = 1 .. n
    BY <1>1
  <2> HIDE DEF none, n
  <2>2. QED
    BY <2>1 DEF ListedBoards, Kept
<1>5. Listing = Entries(devList, 1 .. n)
  BY <1>3, <1>4
<1> HIDE DEF n, none
<1> DEFINE e == Entries(devList, 1 .. n)
<1>6. /\ DOMAIN e = 1 .. n
      /\ \A k \in 1 .. n : \E i \in 1 .. n : e[k] = devList[i]
      /\ \A i \in 1 .. n : \E k \in 1 .. n : e[k] = devList[i]
  <2>0. Cardinality(1 .. n) = n
    BY <1>2
  <2>1. /\ DOMAIN e = 1 .. Cardinality(1 .. n)
        /\ \A k \in 1 .. Cardinality(1 .. n) : \E i \in 1 .. n : e[k] = devList[i] /\ Rank(1 .. n, i) = k
        /\ \A i \in 1 .. n : Rank(1 .. n, i) \in 1 .. Cardinality(1 .. n) /\ e[Rank(1 .. n, i)] = devList[i]
    <3> DEFINE I == 1 .. n
    <3>1. IsFiniteSet(I) /\ I \in SUBSET Nat
      BY <1>2
    <3> HIDE DEF I
    <3>2. /\ DOMAIN Entries(devList, I) = 1 .. Cardinality(I)
          /\ \A k \in 1 .. Cardinality(I) : \E i \in I : Entries(devList, I)[k] = devList[i] /\ Rank(I, i) = k
          /\ \A i \in I : Rank(I, i) \in 1 .. Cardinality(I) /\ Entries(devList, I)[Rank(I, i)] = devList[i]
      BY <3>1, EntriesOf
    <3>3. QED
      BY <3>2, Zenon DEF I
  <2> HIDE DEF e
  <2>2. QED
    BY <2>0, <2>1, Zenon
<1>7. e = [k \in 1 .. n |-> e[k]]
  BY <1>2 DEF Entries
<1> HIDE DEF e
<1>8. ToSet(e) = Listable /\ Len(e) = n
  <2>1. Len(e) = n
    BY <1>1, <1>7
  <2>2. ToSet(e) = {e[k] : k \in 1 .. n}
    BY <1>6 DEF ToSet
  <2>3. Listable = {devList[k] : k \in 1 .. n}
    BY <1>1 DEF ToSet, Listable
  <2>4. QED
    <3>1. ToSet(e) \subseteq Listable
      BY <1>6, <2>2, <2>3
    <3>2. Listable \subseteq ToSet(e)
      BY <1>6, <2>2, <2>3
    <3>3. QED
      BY <2>1, <3>1, <3>2
<1>9. Cardinality(Listable) = n
  BY DistinctCount DEF Listable, n
<1>10. QED
  BY <1>5, <1>8, <1>9 DEF e

\* A size below 4 GiB is printed as it is.
LEMMA Complement ==
    ASSUME NEW s \in Nat, s < Wrap
    PROVE  (Wrap - s) % Wrap = IF s = 0 THEN 0 ELSE Wrap - s
<1> DEFINE n == Wrap - s
<1>1. n \in Int /\ -Wrap <= n /\ n < 2 * Wrap /\ Wrap > 0 /\ n > 0
  OBVIOUS
<1> HIDE DEF n
<1>2. n % Wrap = IF n < 0 THEN n + Wrap ELSE IF n < Wrap THEN n ELSE n - Wrap
  BY <1>1, Wraps
<1>3. QED
  BY <1>2 DEF n

\* The BARs of what was allocated are smaller than the address space.
LEMMA BarSmall == ASSUME Wrap > 0, AllocInv, NEW x \in bar PROVE x.size \in Nat /\ x.size < Wrap
<1>1. x.size \in Nat /\ Sound(region, x.pool, x.size) /\ x.pool \in Pools /\ region \in Regions
  BY DEF AllocInv, BarType
<1>2. region[x.pool].start \in Nat /\ region[x.pool].size \in Nat
      /\ region[x.pool].start + region[x.pool].size <= Wrap /\ Granule[x.pool] \in Nat
  BY <1>1, AutoAssumption
<1>3. CASE x.size = 0
  BY <1>1, <1>3
<1>4. CASE x.size # 0 /\ x.size < region[x.pool].start
  BY <1>1, <1>2, <1>4
<1>5. CASE x.size # 0 /\ \E k \in 0 .. Wrap : k * Granule[x.pool] + 2 * x.size <= Wrap
  <2>1. PICK k \in 0 .. Wrap : k * Granule[x.pool] + 2 * x.size <= Wrap
    BY <1>5
  <2> DEFINE b == k * Granule[x.pool]
  <2>2. b \in Nat
    BY <1>2
  <2>3. b + 2 * x.size <= Wrap
    BY <2>1
  <2> HIDE DEF b
  <2>4. QED
    BY <1>1, <1>5, <2>2, <2>3
<1>6. QED
  BY <1>1, <1>3, <1>4, <1>5 DEF Sound

\* What lspci prints of a register: the address and the size of its BAR, or nothing.
LEMMA PrintedOf ==
    ASSUME Wrap > 0, SlotInv, \A x \in bar : x.size \in Nat /\ x.size < Wrap, NEW f, NEW n \in Nat
    PROVE  \/ BarOf(f, n) = {} /\ MemoryAddr(f, n) = 0 /\ PrintedSize(f, n) = 0
           \/ \E x \in bar : /\ BarOf(f, n) = {x} /\ MemoryAddr(f, n) = Virt(x)
                             /\ PrintedSize(f, n) # 0 <=> x.size # 0
<1>1. CASE BarOf(f, n) = {}
  <2>1. MemoryAddr(f, n) = 0 /\ MemorySize(f, n) = 0
    BY <1>1 DEF MemoryAddr, BaseAddress, MemorySize, BaseSize
  <2>2. (Wrap - 0) % Wrap = 0
    BY Complement
  <2>3. QED
    BY <1>1, <2>1, <2>2 DEF PrintedSize
<1>2. CASE BarOf(f, n) # {}
  <2>1. PICK x \in bar : x \in BarOf(f, n)
    BY <1>2 DEF BarOf, Cached
  <2>2. BarOf(f, n) = {x}
    BY <2>1 DEF BarOf, Cached, SlotInv
  <2>3. First({x}) = x
    <3>1. x.slot <= x.slot
      BY DEF SlotInv
    <3>2. QED
      BY <3>1 DEF First
  <2>4. MemoryAddr(f, n) = Virt(x) /\ BaseSize(f, n) = (Wrap - x.size) % Wrap
    BY <2>2, <2>3 DEF MemoryAddr, BaseAddress, BaseSize
  <2>5. x.size \in Nat /\ x.size < Wrap
    OBVIOUS
  <2>10. BaseSize(f, n) = IF x.size = 0 THEN 0 ELSE Wrap - x.size
    BY <2>4, <2>5, Complement
  <2>6. MemorySize(f, n) = x.size
    BY <2>5, <2>10 DEF MemorySize
  <2>7. PrintedSize(f, n) = IF x.size = 0 THEN 0 ELSE Wrap - x.size
    BY <2>5, <2>6, Complement DEF PrintedSize
  <2>8. PrintedSize(f, n) # 0 <=> x.size # 0
    BY <2>5, <2>7
  <2>9. QED
    BY <2>2, <2>4, <2>8
<1>3. QED
  BY <1>1, <1>2

\* The BARs that are printed.
LEMMA BarsPrinted ==
    ASSUME Wrap > 0, ListInv, stage = "ready", BarsInv, ToSet(Listing) = Listable
    PROVE  UNION {{<<f, n>> : n \in PrintedBars(f)} : f \in ToSet(Listing)} =
               {<<x.fn, x.slot>> : x \in {y \in bar : y.slot <= Len(hw[y.fn].bars)
                                                    /\ (y.size # 0 \/ Virt(y) # 0)}}
<1>1. RouteInv /\ ScanInv /\ hw \in Topologies /\ Listable = Scanned
  BY DEF ListInv, ListStages, RouteInv, Numbers, Listable
<1>2. SlotInv /\ \A x \in bar : x.size \in Nat /\ x.size < Wrap
  <2>1. CASE AutoInv
    BY <2>1, BarSmall DEF AutoInv
  <2>2. CASE bar = {} /\ result = "idle"
    BY <2>2 DEF SlotInv
  <2>3. QED
    BY <2>1, <2>2 DEF BarsInv
<1>3. \A f \in Listable : f \in Fn /\ Len(hw[f].bars) \in Nat
  BY <1>1, LspciAssumption DEF Scanned, Fn
<1> DEFINE X == {y \in bar : y.slot <= Len(hw[y.fn].bars) /\ (y.size # 0 \/ Virt(y) # 0)}
<1>4. ASSUME NEW f \in Listable, NEW n \in PrintedBars(f)
      PROVE  \E x \in X : <<x.fn, x.slot>> = <<f, n>>
  <2>1. n \in Nat /\ n <= Len(hw[f].bars) /\ (MemoryAddr(f, n) # 0 \/ PrintedSize(f, n) # 0)
    BY <1>3 DEF PrintedBars
  <2>2. PICK x \in bar : /\ BarOf(f, n) = {x} /\ MemoryAddr(f, n) = Virt(x)
                         /\ PrintedSize(f, n) # 0 <=> x.size # 0
    BY <1>2, <2>1, PrintedOf
  <2>3. x.fn = f /\ x.slot = n
    <3>1. x \in BarOf(f, n)
      BY <2>2
    <3>2. QED
      BY <3>1 DEF BarOf, Cached
  <2>4. QED
    BY <2>1, <2>2, <2>3
<1>5. ASSUME NEW x \in X PROVE x.fn \in Listable /\ x.slot \in PrintedBars(x.fn)
  <2>1. x \in bar /\ x.slot <= Len(hw[x.fn].bars) /\ (x.size # 0 \/ Virt(x) # 0)
    OBVIOUS
  <2> HIDE DEF X
  <2>2. x.fn \in Listable /\ x.slot # 0 /\ x.slot \in Nat
    BY <1>1, <1>2, <2>1 DEF ScanInv, SlotInv
  <2>3. x.slot \in 1 .. Len(hw[x.fn].bars)
    BY <1>3, <2>1, <2>2
  <2>4. x \in BarOf(x.fn, x.slot)
    BY <2>1 DEF BarOf, Cached
  <2>5. PICK z \in bar : /\ BarOf(x.fn, x.slot) = {z} /\ MemoryAddr(x.fn, x.slot) = Virt(z)
                         /\ PrintedSize(x.fn, x.slot) # 0 <=> z.size # 0
    BY <1>2, <2>2, <2>4, PrintedOf
  <2>6. z = x
    BY <2>4, <2>5
  <2>7. QED
    BY <2>1, <2>2, <2>3, <2>5, <2>6 DEF PrintedBars
<1>6. \A f \in Listable : \A n : n \in PrintedBars(f) <=> \E x \in X : x.fn = f /\ x.slot = n
  <2> HIDE DEF X
  <2>1. QED
    BY <1>4, <1>5
<1> DEFINE Y == UNION {{<<f, n>> : n \in PrintedBars(f)} : f \in Listable}
           Z == {<<x.fn, x.slot>> : x \in X}
<1>7. ASSUME NEW y \in Y PROVE y \in Z
  <2>1. PICK f \in Listable : \E n \in PrintedBars(f) : y = <<f, n>>
    BY DEF Y
  <2>2. PICK n \in PrintedBars(f) : y = <<f, n>>
    BY <2>1
  <2>3. PICK x \in X : <<x.fn, x.slot>> = <<f, n>>
    BY <1>4
  <2>4. QED
    BY <2>2, <2>3
<1>8. ASSUME NEW y \in Z PROVE y \in Y
  <2>1. PICK x \in X : y = <<x.fn, x.slot>>
    BY DEF Z
  <2>2. x.fn \in Listable /\ x.slot \in PrintedBars(x.fn)
    BY <1>5
  <2> HIDE DEF X
  <2>3. QED
    BY <2>1, <2>2
<1>9. Y = Z
  <2> HIDE DEF Y, Z
  <2>1. QED
    BY <1>7, <1>8
<1>10. QED
  BY <1>9

Stepping(ea, g) ==
    g = [i \in 0 .. ea.num |-> IF i = 0 THEN EaFirst ELSE EaNext(ea.at, g[i - 1])]

\* The next entry is behind this one, by its size if it holds what it announces.
LEMMA Forward ==
    ASSUME NEW m, \A i \in 0 .. EaSpan - 1 : m[i].es \in Nat, NEW start \in Nat
    PROVE  /\ EaNext(m, start) \in Nat /\ start < EaNext(m, start)
           /\ Holds(m, start) => EaNext(m, start) = start + Dword(m, start).es + 1
<1>0. \A a, b, c : EntryEnd(a, b, c) = IF c - a < b THEN a + b ELSE c
  BY DEF EntryEnd
<1> DEFINE head == Dword(m, start)  size == head.es + 1
           W == {i \in {1, 2} : Dword(m, start + i).wide}  wide == Cardinality(W)
<1>1. head.es \in Nat
  <2>1. start % EaSpan \in 0 .. EaSpan - 1
    BY LspciAssumption
  <2>2. QED
    BY <2>1 DEF Dword
<1>2. wide \in Nat
  <2>1. IsFiniteSet({1, 2}) /\ W \in SUBSET {1, 2}
    <3>1. {1, 2} = 1 .. 2
      OBVIOUS
    <3>2. IsFiniteSet(1 .. 2)
      <4>1. 1 \in Int /\ 2 \in Int
        OBVIOUS
      <4>2. QED
        BY <4>1, FS_Interval
    <3>3. QED
      BY <3>1, <3>2
  <2> HIDE DEF W
  <2>2. QED
    BY <2>1, FS_Subset, FS_CardinalityType
<1>3. EaNext(m, start) = IF ~head.on THEN start + size ELSE EntryEnd(start, size, start + 3 + wide)
  BY DEF EaNext
<1>4. Holds(m, start) <=> (head.on => head.es >= 2 + wide)
  BY DEF Holds
<1> DEFINE w == wide  es == head.es
<1> HIDE DEF w, W, es
<1>5. w \in Nat /\ es \in Nat
  BY <1>1, <1>2 DEF w, es
<1>6. EntryEnd(start, es + 1, start + 3 + w) =
          IF start + 3 + w - start < es + 1 THEN start + (es + 1) ELSE start + 3 + w
  BY <1>0, <1>5
<1>7. CASE ~head.on
  <2>1. EaNext(m, start) = start + (es + 1)
    BY <1>3, <1>7 DEF es
  <2>2. QED
    BY <1>5, <2>1 DEF es
<1>8. CASE head.on
  <2>1. EaNext(m, start) = IF start + 3 + w - start < es + 1 THEN start + (es + 1) ELSE start + 3 + w
    BY <1>3, <1>6, <1>8 DEF es, w
  <2>2. Holds(m, start) => es >= 2 + w
    BY <1>4, <1>8 DEF es, w
  <2>3. QED
    BY <1>5, <2>1, <2>2 DEF es
<1>9. QED
  BY <1>7, <1>8

\* dump_ea_capability goes forward over its entries, and by their sizes.
LEMMA EntriesForward ==
    ASSUME NEW ea, ea.num \in Nat, \A i \in 0 .. EaSpan - 1 : ea.at[i].es \in Nat,
           NEW i \in 1 .. ea.num - 1
    PROVE  LET at == EaEntries(ea) IN
           at[i] < at[i + 1] /\ (Holds(ea.at, at[i]) => at[i + 1] = at[i] + Dword(ea.at, at[i]).es + 1)
<1> DEFINE n == ea.num
           step == [k \in 1 .. n |-> [s \in Nat |-> EaNext(ea.at, s)]]
<1>1. \A s \in Nat : /\ EaNext(ea.at, s) \in Nat /\ s < EaNext(ea.at, s)
                     /\ Holds(ea.at, s) => EaNext(ea.at, s) = s + Dword(ea.at, s).es + 1
  BY Forward
<1>2. step \in [1 .. n -> [Nat -> Nat]] /\ EaFirst \in Nat
  BY <1>1, LspciAssumption
<1> HIDE DEF step
<1>3. PICK g : Computes(n, Nat, EaFirst, step, g)
  BY <1>2, Computed
<1>4. Stepping(ea, g)
  <2>1. ASSUME NEW k \in 0 .. n PROVE g[k] = IF k = 0 THEN EaFirst ELSE EaNext(ea.at, g[k - 1])
    <3>1. CASE k = 0
      BY <1>3, <3>1 DEF Computes
    <3>2. CASE k # 0
      <4>1. k \in 1 .. n /\ k - 1 \in 0 .. n
        BY <3>2
      <4>2. g[k] = step[k][g[k - 1]] /\ g[k - 1] \in Nat
        BY <1>3, <4>1 DEF Computes
      <4>3. QED
        BY <3>2, <4>1, <4>2 DEF step
    <3>3. QED
      BY <3>1, <3>2
  <2>2. g = [k \in 0 .. n |-> g[k]]
    BY <1>3 DEF Computes
  <2>3. QED
    BY <2>1, <2>2 DEF Stepping
<1> DEFINE at == CHOOSE h : Stepping(ea, h)
<1>5. Stepping(ea, at)
  BY <1>4, Zenon
<1>6. EaEntries(ea) = [k \in 1 .. ea.num |-> at[k - 1]]
  BY Zenon DEF EaEntries, Stepping
<1> HIDE DEF at
<1>7. \A k \in 0 .. n : at[k] = IF k = 0 THEN EaFirst ELSE EaNext(ea.at, at[k - 1])
  BY <1>5, Zenon DEF Stepping
<1> DEFINE S == {k \in 0 .. n : at[k] \in Nat}
<1>8. 0 \in S
  BY <1>2, <1>7
<1>9. ASSUME NEW k \in 1 .. n, k - 1 \in S PROVE k \in S
  <2>1. k # 0 /\ k \in 0 .. n
    OBVIOUS
  <2>2. at[k] = EaNext(ea.at, at[k - 1]) /\ at[k - 1] \in Nat
    BY <1>7, <1>9, <2>1
  <2>3. QED
    BY <1>1, <2>1, <2>2
<1>10. 0 .. n \subseteq S
  <2> HIDE DEF S
  <2>1. QED
    BY <1>8, <1>9, CountUp
<1>11. i \in 0 .. n /\ i # 0 /\ i - 1 \in 0 .. n /\ i \in 1 .. n /\ i + 1 \in 1 .. n /\ (i + 1) - 1 = i
  OBVIOUS
<1>12. at[i] = EaNext(ea.at, at[i - 1]) /\ at[i - 1] \in Nat
  BY <1>7, <1>10, <1>11
<1>13. EaEntries(ea)[i] = at[i - 1] /\ EaEntries(ea)[i + 1] = at[i]
  BY <1>6, <1>11
<1>14. QED
  BY <1>1, <1>12, <1>13

\* main gets to every board once, list_bars prints the assigned BARs, and dump_ea_capability
\* goes forward over its entries: for any machines whose device trees give the regions and
\* any BAR sizes as in PciAllocProofs, and whatever Enhanced Allocation capabilities hold.
THEOREM ListingIsComplete == SoundBars => (BoardsSpec => []ListingComplete)
<1> SUFFICES ASSUME SoundBars PROVE BoardsSpec => []ListingComplete
  OBVIOUS
<1>1. ListInv /\ BarsInv => ListingComplete
  <2> SUFFICES ASSUME ListInv, BarsInv, stage = "ready" PROVE ListingComplete
    BY DEF ListingComplete, Ready
  <2>1. Wrap > 0
    BY AddressAssumption, AutoAssumption DEF SoundBars
  <2>2. /\ RouteInv /\ hw \in Topologies /\ devList \in Seq(Fn) /\ Distinct(devList) /\ NoDev \notin Fn
        /\ Listable = Scanned
    BY TreeOf DEF ListInv, ListStages, RouteInv, Numbers, NoDev, Listable
  <2>3. Len(Listing) = Cardinality(Listable) /\ ToSet(Listing) = Listable
    BY <2>2, ListingOf
  <2>4. UNION {{<<f, n>> : n \in PrintedBars(f)} : f \in ToSet(Listing)} =
            {<<x.fn, x.slot>> : x \in {y \in bar : y.slot <= Len(hw[y.fn].bars)
                                                 /\ (y.size # 0 \/ Virt(y) # 0)}}
    BY <2>1, <2>3, BarsPrinted
  <2>5. ASSUME NEW f \in Listable
        PROVE  hw[f].ea.num \in Nat /\ \A i \in 0 .. EaSpan - 1 : hw[f].ea.at[i].es \in Nat
    <3>1. f \in Fn
      BY <2>2 DEF Scanned
    <3>2. QED
      BY <2>2, <3>1, LspciAssumption DEF Fn
  <2>6. ASSUME NEW f \in Listable, NEW i \in 1 .. hw[f].ea.num - 1
        PROVE  LET ea == hw[f].ea at == EaEntries(ea) IN
               at[i] < at[i + 1] /\ (Holds(ea.at, at[i]) => at[i + 1] = at[i] + Dword(ea.at, at[i]).es + 1)
    BY <2>5, EntriesForward
  <2>7. QED
    BY <2>3, <2>4, <2>6 DEF ListingComplete
<1>2. QED
  BY <1>1, ListStays, Settled, PTL

-----------------------------------------------------------------------------
(* The interrupt lines.                                                    *)

\* The turns of the slots between f and the root port.
Slots(f) == {h \in {f} \cup Above(hw[f].bus) : hw[h].bus # Root}
Turns(f) == UNION {{<<g, k>> : k \in 1 .. Dev(g)} : g \in Slots(f)}
Turned(pin, n) == ((pin - 1 + n) % 4) + 1

\* Turning a pin by some slots and then by some more.
LEMMA Quarter ==
    ASSUME NEW pin \in 1 .. 4, NEW d \in Nat, NEW n \in Nat
    PROVE  /\ Turned(pin, d) \in 1 .. 4 /\ Turned(pin, 0) = pin
           /\ Turned(Turned(pin, d), n) = Turned(pin, n + d)
BY DEF Turned

\* How many turns one more slot makes.
LEMMA PairCount ==
    ASSUME NEW g, NEW d \in Nat
    PROVE  LET P == {<<g, k>> : k \in 1 .. d} IN IsFiniteSet(P) /\ Cardinality(P) = d
<1> DEFINE P == {<<g, k>> : k \in 1 .. d}  h == [k \in 1 .. d |-> <<g, k>>]
<1>1. IsFiniteSet(1 .. d) /\ Cardinality(1 .. d) = d
  BY FS_Interval
<1>2. h \in Bijection(1 .. d, P)
  <2>1. h \in [1 .. d -> P]
    OBVIOUS
  <2>2. \A i, j \in 1 .. d : h[i] = h[j] => i = j
    OBVIOUS
  <2>3. \A p \in P : \E k \in 1 .. d : h[k] = p
    OBVIOUS
  <2> HIDE DEF h, P
  <2>4. QED
    BY <2>1, <2>2, <2>3 DEF Bijection, Injection, IsInjective, Surjection
<1> HIDE DEF h, P
<1>3. ExistsBijection(1 .. d, P)
  BY <1>2 DEF ExistsBijection
<1>4. QED
  BY <1>1, <1>3, FS_Bijection DEF P

\* A slot more on the way turns the pin by its device number.
LEMMA TurnsOf ==
    ASSUME hw \in Topologies, NEW f \in Fn
    PROVE  /\ Dev(f) \in Nat /\ Cardinality(Turns(f)) \in Nat
           /\ hw[f].bus = Root => Cardinality(Turns(f)) = 0
           /\ hw[f].bus # Root => /\ hw[f].bus \in Fn
                                  /\ Cardinality(Turns(f)) = Cardinality(Turns(hw[f].bus)) + Dev(f)
<1>1. /\ Root \notin Fn /\ \A g \in Fn : hw[g].bus \in Bus /\ hw[g].devfn \in 0 .. 255
      /\ \A S \in SUBSET Fn : S # {} => \E g \in S : hw[g].bus \notin S
  BY TreeOf
<1>2. \A g \in Fn : Dev(g) \in 0 .. 31
  <2>1. \A d \in 0 .. 255 : d \div 8 \in 0 .. 31
    OBVIOUS
  <2>2. QED
    BY <1>1, <2>1 DEF Dev
<1>3. IsFiniteSet(Fn)
  BY AutoAssumption DEF Fn
<1>4. ASSUME NEW g \in Fn PROVE IsFiniteSet(Turns(g)) /\ Cardinality(Turns(g)) \in Nat
  <2>1. Slots(g) \subseteq Fn
    BY DEF Slots, Above, Bridges
  <2>2. Turns(g) \subseteq Fn \X (0 .. 31)
    <3>1. \A h \in Slots(g) : h \in Fn /\ Dev(h) \in 0 .. 31
      BY <1>2, <2>1
    <3>2. \A h \in Slots(g) : \A k \in 1 .. Dev(h) : k \in 0 .. 31
      BY <3>1
    <3>3. QED
      BY <3>1, <3>2 DEF Turns
  <2>3. IsFiniteSet(0 .. 31)
    <3>1. 0 \in Int /\ 31 \in Int
      OBVIOUS
    <3>2. QED
      BY <3>1, FS_Interval
  <2>4. IsFiniteSet(Fn \X (0 .. 31))
    BY <1>3, <2>3, FS_Product
  <2>5. QED
    BY <2>2, <2>4, FS_Subset, FS_CardinalityType
<1>5. CASE hw[f].bus = Root
  <2>1. Slots(f) = {}
    BY <1>5, AboveRoot DEF Slots
  <2>2. Turns(f) = {}
    BY <2>1 DEF Turns
  <2>3. QED
    BY <1>2, <1>5, <2>2, FS_EmptySet
<1>6. CASE hw[f].bus # Root
  <2> DEFINE b == hw[f].bus
  <2>1. b \in Bridges /\ b \in Fn /\ hw[b].bus \in Bus
    BY <1>1, <1>6 DEF Bus, Bridges
  <2>2. Above(b) = {b} \cup Above(hw[b].bus)
    BY <2>1, AboveStep
  <2>3. f \notin Above(b)
    <3> SUFFICES ASSUME f \in Above(b) PROVE FALSE
      OBVIOUS
    <3>1. f \in Bridges
      BY DEF Above
    <3>2. Above(f) = {f} \cup Above(b)
      BY <1>1, <3>1, AboveStep
    <3>3. b \in Above(f)
      BY <2>2, <3>2
    <3>4. f = b
      BY <2>1, <3>1, <3>3, AboveOneWay
    <3>5. {f} \in SUBSET Fn /\ hw[f].bus \in {f}
      BY <3>4
    <3>6. QED
      BY <1>1, <3>5
  <2>4. Slots(f) = Slots(b) \cup {f} /\ f \notin Slots(b)
    BY <1>6, <2>2, <2>3 DEF Slots
  <2> DEFINE P == {<<f, k>> : k \in 1 .. Dev(f)}
  <2>5. Turns(f) = Turns(b) \cup P
    BY <2>4 DEF Turns
  <2>6. Turns(b) \cap P = {}
    BY <2>4 DEF Turns
  <2>7. IsFiniteSet(P) /\ Cardinality(P) = Dev(f)
    <3> DEFINE d == Dev(f)
    <3>1. d \in Nat
      BY <1>2
    <3> HIDE DEF d
    <3>2. IsFiniteSet({<<f, k>> : k \in 1 .. d}) /\ Cardinality({<<f, k>> : k \in 1 .. d}) = d
      BY <3>1, PairCount
    <3>3. QED
      BY <3>2 DEF d
  <2>8. IsFiniteSet(Turns(b)) /\ Cardinality(Turns(b)) \in Nat
    BY <1>4, <2>1
  <2> HIDE DEF P, b
  <2>9. Cardinality(Turns(b) \cup P) = Cardinality(Turns(b)) + Cardinality(P) - Cardinality(Turns(b) \cap P)
    BY <2>7, <2>8, FS_Union
  <2>10. Cardinality(Turns(f)) = Cardinality(Turns(b)) + Dev(f)
    <3>1. Dev(f) \in Nat /\ Cardinality(Turns(b) \cap P) = 0
      BY <1>2, <2>6, FS_EmptySet
    <3>2. QED
      BY <2>5, <2>7, <2>8, <2>9, <3>1
  <2>11. QED
    BY <1>2, <1>4, <1>6, <2>1, <2>10 DEF b
<1>7. QED
  BY <1>5, <1>6

\* What pci_assign_irq computes for the pins of a slot.
Routing(r) ==
    r = [g \in Fn |-> [pin \in 1 .. 4 |->
            IF hw[g].bus = Root THEN pin ELSE r[hw[g].bus][Swizzle(g, pin)]]]

\* pci_assign_irq turns a pin once for every slot on the way.
LEMMA RoutedOf ==
    ASSUME hw \in Topologies, NEW f \in Fn, hw[f].pin # 0
    PROVE  LET own == IF hw[f].pin > 4 THEN 1 ELSE hw[f].pin IN
           own \in 1 .. 4 /\ RoutedPin(f) = Turned(own, Cardinality(Turns(f)))
<1> DEFINE own == IF hw[f].pin > 4 THEN 1 ELSE hw[f].pin
           c == [g \in Fn |-> [pin \in 1 .. 4 |-> Turned(pin, Cardinality(Turns(g)))]]
<1>1. own \in 1 .. 4
  BY HardwareAssumption DEF Fn
<1>2. ASSUME NEW g \in Fn, NEW pin \in 1 .. 4
      PROVE  c[g][pin] = IF hw[g].bus = Root THEN pin ELSE c[hw[g].bus][Swizzle(g, pin)]
  <2>1. c[g][pin] = Turned(pin, Cardinality(Turns(g)))
    OBVIOUS
  <2>2. CASE hw[g].bus = Root
    BY <2>1, <2>2, TurnsOf, Quarter
  <2>3. CASE hw[g].bus # Root
    <3> DEFINE b == hw[g].bus  n == Cardinality(Turns(b))
    <3>1. b \in Fn /\ Dev(g) \in Nat /\ Cardinality(Turns(g)) = n + Dev(g)
      BY <2>3, TurnsOf
    <3>2. n \in Nat
      BY <3>1, TurnsOf
    <3>3. Swizzle(g, pin) = Turned(pin, Dev(g))
      BY DEF Swizzle, Turned
    <3> HIDE DEF n, b
    <3>4. Turned(pin, Dev(g)) \in 1 .. 4 /\ Turned(Turned(pin, Dev(g)), n) = Turned(pin, n + Dev(g))
      BY <3>1, <3>2, Quarter
    <3>5. c[b][Swizzle(g, pin)] = Turned(Swizzle(g, pin), n)
      BY <3>1, <3>3, <3>4 DEF n
    <3>6. QED
      BY <2>1, <2>3, <3>1, <3>3, <3>4, <3>5 DEF b
  <2>4. QED
    BY <2>2, <2>3
<1>3. c = [g \in Fn |-> [pin \in 1 .. 4 |-> c[g][pin]]]
  OBVIOUS
<1> HIDE DEF c
<1>4. Routing(c)
  BY <1>2, <1>3 DEF Routing
<1> DEFINE r == CHOOSE h : Routing(h)
<1>5. Routing(r)
  BY <1>4, Zenon
<1>6. RoutedPin(f) = r[f][own]
  BY Zenon DEF RoutedPin, Routing
<1> HIDE DEF r
<1> DEFINE S == {g \in Fn : \E pin \in 1 .. 4 : r[g][pin] # c[g][pin]}
<1>7. ASSUME NEW g \in S PROVE hw[g].bus \in S
  <2>1. PICK pin \in 1 .. 4 : r[g][pin] # c[g][pin]
    OBVIOUS
  <2>2. r[g][pin] = IF hw[g].bus = Root THEN pin ELSE r[hw[g].bus][Swizzle(g, pin)]
    <3>1. g \in Fn
      OBVIOUS
    <3> HIDE DEF S
    <3>2. r[g] = [p \in 1 .. 4 |-> IF hw[g].bus = Root THEN p ELSE r[hw[g].bus][Swizzle(g, p)]]
      BY <1>5, <3>1, Zenon DEF Routing
    <3>3. QED
      BY <3>2, Zenon
  <2>3. c[g][pin] = IF hw[g].bus = Root THEN pin ELSE c[hw[g].bus][Swizzle(g, pin)]
    BY <1>2
  <2>4. hw[g].bus # Root /\ r[hw[g].bus][Swizzle(g, pin)] # c[hw[g].bus][Swizzle(g, pin)]
    BY <2>1, <2>2, <2>3
  <2>5. hw[g].bus \in Fn /\ Dev(g) \in Nat
    BY <2>4, TurnsOf
  <2>6. Swizzle(g, pin) \in 1 .. 4
    <3>1. Swizzle(g, pin) = Turned(pin, Dev(g))
      BY DEF Swizzle, Turned
    <3>2. QED
      BY <2>5, <3>1, Quarter
  <2>7. QED
    BY <2>4, <2>5, <2>6
<1>8. S = {}
  BY <1>7, TreeOf
<1>9. r[f][own] = c[f][own]
  BY <1>1, <1>8
<1>10. c[f][own] = Turned(own, Cardinality(Turns(f)))
  <2> HIDE DEF own
  <2>1. QED
    BY <1>1 DEF c
<1>11. QED
  BY <1>1, <1>6, <1>9, <1>10

\* What is known of the lines behind an entry of interrupt-map.
LinesType == [ended : BOOLEAN, line : [1 .. 4 -> Nat]]
NoLines   == [ended |-> FALSE, line |-> [p \in 1 .. 4 |-> 0]]
Read(s, e) ==
    IF s.ended \/ ~e.usable THEN [s EXCEPT !.ended = TRUE]
    ELSE IF e.pin \in 1 .. 4 /\ e.spi THEN [s EXCEPT !.line[e.pin] = e.number + 32]
    ELSE s

\* An entry leaves lines, and a walk that has ended stays ended.
LEMMA ReadOf ==
    ASSUME NEW s \in LinesType, NEW e \in EntryType
    PROVE  /\ Read(s, e) \in LinesType /\ (Read(s, e).ended <=> s.ended \/ ~e.usable)
           /\ \A p \in 1 .. 4 : Read(s, e).line[p] =
                  IF ~s.ended /\ e.usable /\ e.spi /\ e.pin = p THEN e.number + 32 ELSE s.line[p]
<1>1. s.line \in [1 .. 4 -> Nat] /\ s.ended \in BOOLEAN /\ s = [ended |-> s.ended, line |-> s.line]
  BY DEF LinesType
<1>2. e.pin \in Nat /\ e.number \in Nat /\ e.spi \in BOOLEAN /\ e.usable \in BOOLEAN /\ e.number + 32 \in Nat
  BY DEF EntryType
<1>3. CASE s.ended \/ ~e.usable
  <2>1. Read(s, e) = [ended |-> TRUE, line |-> s.line]
    BY <1>1, <1>3 DEF Read
  <2>2. QED
    BY <1>1, <1>3, <2>1 DEF LinesType
<1>4. CASE ~(s.ended \/ ~e.usable) /\ e.pin \in 1 .. 4 /\ e.spi
  <2>1. Read(s, e) = [ended |-> s.ended, line |-> [s.line EXCEPT ![e.pin] = e.number + 32]]
    BY <1>1, <1>4 DEF Read
  <2>2. QED
    BY <1>1, <1>2, <1>4, <2>1 DEF LinesType
<1>5. CASE ~(s.ended \/ ~e.usable) /\ ~(e.pin \in 1 .. 4 /\ e.spi)
  <2>1. Read(s, e) = s
    BY <1>5 DEF Read
  <2>2. QED
    BY <1>1, <1>2, <1>5, <2>1
<1>6. QED
  BY <1>3, <1>4, <1>5

Rules(m, g) ==
    g = [i \in 0 .. Len(m) |->
            IF i = 0 THEN [ended |-> FALSE, line |-> [p \in 1 .. 4 |-> 0]]
            ELSE IF g[i - 1].ended \/ ~m[i].usable THEN [g[i - 1] EXCEPT !.ended = TRUE]
            ELSE IF m[i].pin \in 1 .. 4 /\ m[i].spi
                 THEN [g[i - 1] EXCEPT !.line[m[i].pin] = m[i].number + 32]
            ELSE g[i - 1]]

\* The entries up to k that are for pin p and read.
Good(m, k, p) == {i \in 1 .. k : m[i].pin = p /\ m[i].spi /\ \A j \in 1 .. i : m[j].usable}

LastOf(m, k, p, n) ==
    \/ Good(m, k, p) = {} /\ n = 0
    \/ \E i \in Good(m, k, p) : (\A j \in Good(m, k, p) : j <= i) /\ n = m[i].number + 32

\* brcm_devtree_parse: the last entry for a pin that the walk reads counts.
LEMMA MappingOf ==
    ASSUME NEW m \in Seq(EntryType)
    PROVE  Mapping(m) \in [1 .. 4 -> Nat] /\ \A p \in 1 .. 4 : LastOf(m, Len(m), p, Mapping(m)[p])
<1> DEFINE n == Len(m)
           step == [k \in 1 .. n |-> [s \in LinesType |-> Read(s, m[k])]]
<1>1. n \in Nat /\ \A k \in 1 .. n : m[k] \in EntryType
  OBVIOUS
<1>2. step \in [1 .. n -> [LinesType -> LinesType]] /\ NoLines \in LinesType
  <2>1. \A k \in 1 .. n : \A s \in LinesType : Read(s, m[k]) \in LinesType
    BY <1>1, ReadOf
  <2>2. NoLines \in LinesType
    BY DEF NoLines, LinesType
  <2>3. QED
    BY <2>1, <2>2
<1> HIDE DEF step
<1>3. PICK g : Computes(n, LinesType, NoLines, step, g)
  BY <1>1, <1>2, Computed
<1>4. Rules(m, g)
  <2>1. ASSUME NEW k \in 0 .. n PROVE g[k] = IF k = 0 THEN NoLines ELSE Read(g[k - 1], m[k])
    <3>1. CASE k = 0
      BY <1>3, <3>1 DEF Computes
    <3>2. CASE k # 0
      <4>1. k \in 1 .. n /\ k - 1 \in 0 .. n
        BY <1>1, <3>2
      <4>2. g[k] = step[k][g[k - 1]] /\ g[k - 1] \in LinesType
        BY <1>3, <4>1 DEF Computes
      <4>3. QED
        BY <3>2, <4>1, <4>2 DEF step
    <3>3. QED
      BY <3>1, <3>2
  <2>2. g = [k \in 0 .. n |-> g[k]]
    BY <1>3 DEF Computes
  <2>3. g = [k \in 0 .. n |-> IF k = 0 THEN NoLines ELSE Read(g[k - 1], m[k])]
    BY <2>1, <2>2
  <2>4. QED
    BY <2>3, Zenon DEF Rules, NoLines, Read
<1> DEFINE after == CHOOSE h : Rules(m, h)
<1>5. Rules(m, after)
  BY <1>4, Zenon
<1>6. Mapping(m) = after[n].line
  BY Zenon DEF Mapping, Rules
<1> HIDE DEF after
<1>7. after = [k \in 0 .. n |-> IF k = 0 THEN NoLines ELSE Read(after[k - 1], m[k])]
  BY <1>5, Zenon DEF Rules, NoLines, Read
<1>8. \A k \in 0 .. n : after[k] = IF k = 0 THEN NoLines ELSE Read(after[k - 1], m[k])
  BY <1>7, Zenon
<1> DEFINE OK(k) == /\ after[k] \in LinesType
                    /\ after[k].ended <=> \E j \in 1 .. k : ~m[j].usable
                    /\ \A p \in 1 .. 4 : LastOf(m, k, p, after[k].line[p])
           S == {k \in 0 .. n : OK(k)}
<1>9. 0 \in S
  <2>1. 0 \in 0 .. n /\ 1 .. 0 = {}
    BY <1>1
  <2>2. after[0] = NoLines
    BY <1>8, <2>1
  <2>3. \A p : Good(m, 0, p) = {}
    BY <2>1 DEF Good
  <2>4. \A p \in 1 .. 4 : LastOf(m, 0, p, after[0].line[p])
    BY <2>2, <2>3 DEF LastOf, NoLines
  <2>5. QED
    BY <1>2, <2>1, <2>2, <2>4 DEF NoLines
<1>10. ASSUME NEW k \in 1 .. n, k - 1 \in S PROVE k \in S
  <2> DEFINE s == after[k - 1]  e == m[k]
  <2>1. k # 0 /\ k \in 0 .. n /\ k - 1 \in Nat /\ k \in Nat /\ OK(k - 1)
    BY <1>1, <1>10
  <2>2. after[k] = Read(s, e) /\ s \in LinesType /\ e \in EntryType
    BY <1>1, <1>8, <2>1
  <2>3. \A j \in 1 .. k : j \in 1 .. k - 1 \/ j = k
    BY <2>1
  <2>31. k \in 1 .. k /\ \A j \in 1 .. k - 1 : j \in 1 .. k /\ j < k
    BY <2>1
  <2>4. s.ended <=> \E j \in 1 .. k - 1 : ~m[j].usable
    BY <2>1
  <2>5. \A p \in 1 .. 4 : LastOf(m, k - 1, p, s.line[p])
    BY <2>1
  <2> HIDE DEF OK, S, s
  <2>6. /\ after[k] \in LinesType /\ (after[k].ended <=> s.ended \/ ~e.usable)
        /\ \A p \in 1 .. 4 : after[k].line[p] =
               IF ~s.ended /\ e.usable /\ e.spi /\ e.pin = p THEN e.number + 32 ELSE s.line[p]
    BY <2>2, ReadOf
  <2>7. after[k].ended <=> \E j \in 1 .. k : ~m[j].usable
    BY <2>3, <2>31, <2>4, <2>6
  <2>8. ASSUME NEW p \in 1 .. 4 PROVE LastOf(m, k, p, after[k].line[p])
    <3>1. k \in Good(m, k, p) <=> ~s.ended /\ e.usable /\ e.spi /\ e.pin = p
      BY <2>3, <2>31, <2>4 DEF Good
    <3>2. \A i : i \in Good(m, k, p) <=> i \in Good(m, k - 1, p) \/ (i = k /\ k \in Good(m, k, p))
      BY <2>3, <2>31 DEF Good
    <3>3. CASE k \in Good(m, k, p)
      <4>1. after[k].line[p] = m[k].number + 32
        BY <2>6, <3>1, <3>3
      <4>2. \A j \in Good(m, k, p) : j <= k
        BY <2>1 DEF Good
      <4>3. QED
        BY <3>3, <4>1, <4>2 DEF LastOf
    <3>4. CASE k \notin Good(m, k, p)
      <4>1. Good(m, k, p) = Good(m, k - 1, p) /\ after[k].line[p] = s.line[p]
        BY <2>6, <3>1, <3>2, <3>4
      <4>2. QED
        BY <2>5, <4>1 DEF LastOf
    <3>5. QED
      BY <3>3, <3>4
  <2>9. OK(k)
    BY <2>6, <2>7, <2>8 DEF OK
  <2>10. QED
    BY <2>1, <2>9 DEF S
<1>11. 0 .. n \subseteq S
  <2> HIDE DEF S
  <2>1. QED
    BY <1>1, <1>9, <1>10, CountUp
<1>12. OK(n)
  BY <1>1, <1>11
<1>13. QED
  BY <1>6, <1>12 DEF LinesType

\* The lines are those of the device tree once it is read.
LineInv ==
    /\ board \in Boards
    /\ lines = IF stage \in {"down", "ctrl"} THEN [p \in 1 .. 4 |-> 0] ELSE Mapping(board.intmap)

\* They are read once and forgotten with the controller.
LEMMA BoardsLines == LineInv /\ StageInv /\ [BoardsNext]_boardVars => LineInv'
<1> SUFFICES ASSUME LineInv, StageInv, [BoardsNext]_boardVars PROVE LineInv'
  OBVIOUS
<1>1. UNCHANGED <<board, lines>> /\ (stage \in {"down", "ctrl"} <=> stage' \in {"down", "ctrl"}) => LineInv'
  BY DEF LineInv
<1>2. CASE Probe
  <2>1. CASE DevtreeParse
    BY <2>1 DEF DevtreeParse, Step, LineInv
  <2>2. CASE ~DevtreeParse
    BY <1>1, <1>2, <2>2 DEF Probe, ProbeNext, Step, ResetBridge, FindDmaWindow, DevtreeRegions, Inbound,
       MaskAll, ReleasePerst, LinkUp, SetOutboundWin, Finetune, OpenGic400, DemuxEnable, ctrlVars
  <2>3. QED
    BY <2>1, <2>2
<1>3. CASE ProbeError \/ SetupFails \/ Shutdown
  BY <1>3 DEF ProbeError, ProbeFails, SetupFails, Shutdown, RemoveController, Step, LineInv
<1>4. CASE BringUp \/ StartScan \/ Scan \/ BuildDevList \/ CreatePool \/ Drive \/ UNCHANGED hwVars
  BY <1>1, <1>4 DEF BringUp, StartScan, Scan, BuildDevList, CreatePool, Drive, Step, hwVars, probeVars, ctrlVars
<1>5. QED
  BY <1>2, <1>3, <1>4 DEF BoardsNext, LibOpenStep, MakeDevs, GiveUp, Reserve, ObtainCard, ReleaseCard,
     ClearOwner, CloseDown, boardVars

LEMMA LinesStay == BoardsSpec => [](LineInv /\ StageInv)
<1>1. BoardsInit => LineInv
  BY DEF BoardsInit, HwInit, ProbeInit, LineInv
<1>2. QED
  BY <1>1, StageInit, BoardsStage, BoardsLines, PTL DEF BoardsSpec

\* pci_assign_irq turns the pin at every slot on the way and takes the line that
\* brcm_devtree_parse leaves for it: the last good one before interrupt-map is given up.
THEOREM InterruptsAreRouted == BoardsSpec => []InterruptRouted
<1>1. ListInv /\ LineInv => InterruptRouted
  <2> SUFFICES ASSUME ListInv, LineInv, stage = "ready", NEW f \in Fn, hw[f].pin # 0
               PROVE  LET slots == {f} \cup Above(hw[f].bus)
                          own   == IF hw[f].pin > 4 THEN 1 ELSE hw[f].pin
                          turns == UNION {{<<g, k>> : k \in 1 .. Dev(g)} : g \in {h \in slots : hw[h].bus # Root}}
                          pin   == ((own - 1 + Cardinality(turns)) % 4) + 1
                          m     == board.intmap
                          good  == {i \in DOMAIN m : m[i].pin = pin /\ m[i].spi /\ \A j \in 1 .. i : m[j].usable}
                      IN GicIrq(f) = IF good = {} THEN 0
                                     ELSE m[CHOOSE i \in good : \A j \in good : j <= i].number + 32
    BY DEF InterruptRouted, Ready
  <2> DEFINE own == IF hw[f].pin > 4 THEN 1 ELSE hw[f].pin
             n == Cardinality(Turns(f))
             pin == Turned(own, n)
             m == board.intmap
             good == {i \in DOMAIN m : m[i].pin = pin /\ m[i].spi /\ \A j \in 1 .. i : m[j].usable}
  <2>1. hw \in Topologies /\ board \in Boards /\ lines = Mapping(m)
    BY DEF ListInv, ListStages, RouteInv, Numbers, LineInv
  <2>2. own \in 1 .. 4 /\ RoutedPin(f) = pin /\ n \in Nat
    BY <2>1, RoutedOf, TurnsOf
  <2> HIDE DEF own, n
  <2>3. pin \in 1 .. 4 /\ pin # 0
    BY <2>2, Quarter
  <2>4. m \in Seq(EntryType)
    BY <2>1, ProbeAssumption DEF BoardOK
  <2> HIDE DEF m, pin
  <2>5. GicIrq(f) = Mapping(m)[pin]
    BY <2>1, <2>2, <2>3 DEF GicIrq
  <2>6. LastOf(m, Len(m), pin, Mapping(m)[pin])
    BY <2>3, <2>4, MappingOf
  <2>7. good = Good(m, Len(m), pin) /\ good \in SUBSET Nat
    BY <2>4 DEF Good
  <2> HIDE DEF good
  <2>8. GicIrq(f) = IF good = {} THEN 0 ELSE m[CHOOSE i \in good : \A j \in good : j <= i].number + 32
    <3>1. CASE good = {}
      BY <2>5, <2>6, <2>7, <3>1 DEF LastOf
    <3>2. CASE good # {}
      <4>1. PICK i \in good : (\A j \in good : j <= i) /\ GicIrq(f) = m[i].number + 32
        BY <2>5, <2>6, <2>7, <3>2 DEF LastOf
      <4>2. \A k \in good : (\A j \in good : j <= k) => k = i
        BY <2>7, <4>1
      <4>3. (CHOOSE k \in good : \A j \in good : j <= k) = i
        BY <4>1, <4>2
      <4>4. QED
        BY <3>2, <4>1, <4>3
    <3>3. QED
      BY <3>1, <3>2
  <2>9. QED
    BY <2>8 DEF good, pin, m, own, n, Turned, Turns, Slots
<1>2. QED
  BY <1>1, ListStays, LinesStay, PTL

-----------------------------------------------------------------------------
(* Types.                                                                  *)

Addr == 0 .. Wrap - 1

\* What the scan leaves, and what the invariants of the scan say nothing of.
ScanType ==
    /\ lower = [p \in Pools |-> lower[p]]
    /\ stack \in Seq(FrameType) /\ Len(stack) > 0
    /\ sub \in [Bridges -> (0 .. last) \cup {255}]
    /\ base \in [Pools -> [Bridges -> Addr]] /\ limit \in [Pools -> [Bridges -> Addr]]
    /\ speed \in [Fn -> {"preferred", "2.5"}] /\ active \subseteq Bridges
    /\ \A x \in bar : x = [fn |-> x.fn, slot |-> x.slot, pool |-> x.pool, addr |-> x.addr, size |-> x.size]
    /\ result \in {"running", "ok", "error"}

\* Alignment stays within 32 bits.
LEMMA AlignedUp == ASSUME Wrap > 0, NEW x \in Int, NEW s \in Nat PROVE AlignUp(x, s) \in Addr
<1>1. CASE s = 0
  BY <1>1 DEF AlignUp, Addr
<1>2. CASE s # 0
  <2> DEFINE y == (x - 1) % Wrap  q == y \div s  z == q * s + s
  <2>1. y \in Nat
    OBVIOUS
  <2> HIDE DEF y
  <2>2. q \in Nat
    BY <1>2, <2>1
  <2> HIDE DEF q
  <2>3. z \in Nat
    BY <2>2
  <2> HIDE DEF z
  <2>4. z % Wrap \in 0 .. Wrap - 1
    BY <2>3
  <2>5. QED
    BY <1>2, <2>4 DEF AlignUp, Addr, y, q, z
<1>3. QED
  BY <1>1, <1>2

\* With the invariants of the scan that is its type.
LEMMA ScanTypeOf == ASSUME SoundBars, AutoInv, ScanType PROVE TypeOK
<1>0. Wrap > 0
  BY AutoAssumption DEF SoundBars
<1>1. RouteInv /\ AllocInv /\ SlotInv /\ Numbers
  BY DEF AutoInv, RouteInv
<1>2. lower \in [Pools -> 0 .. Wrap - 1]
  BY <1>1 DEF ScanType, AllocInv, Cursor
<1>3. sec \in [Bridges -> 0 .. last]
  <2>1. \A f \in Bridges : f \in Bus
    BY DEF Bus
  <2>2. QED
    BY <1>1, <2>1 DEF Numbers
<1>4. ASSUME NEW x \in bar
      PROVE  x \in [fn : Fn, slot : Nat, pool : Pools, addr : 0 .. Wrap - 1, size : 0 .. Wrap - 1]
  <2>1. BarType(x) /\ x.slot \in Nat /\ (x.size = 0 => x.addr = 0)
    BY <1>1 DEF AllocInv, SlotInv
  <2>2. x.size \in 0 .. Wrap - 1
    BY <1>0, <1>1, BarSmall
  <2>3. x.addr \in 0 .. Wrap - 1
    <3>1. CASE x.size = 0
      BY <1>0, <2>1, <3>1
    <3>2. CASE x.size # 0
      <4>1. region[x.pool].start \in Nat /\ region[x.pool].size \in Nat
            /\ region[x.pool].start + region[x.pool].size <= Wrap
        BY <1>1, <2>1, AutoAssumption DEF AllocInv, BarType
      <4>2. x.addr + x.size <= region[x.pool].start + region[x.pool].size
        BY <1>1, <3>2 DEF AllocInv, BarsInRegion
      <4>3. QED
        BY <2>1, <2>2, <3>2, <4>1, <4>2 DEF BarType
    <3>3. QED
      BY <3>1, <3>2
  <2>4. x = [fn |-> x.fn, slot |-> x.slot, pool |-> x.pool, addr |-> x.addr, size |-> x.size]
    BY DEF ScanType
  <2> DEFINE a == x.fn b == x.slot c == x.pool d == x.addr e == x.size
  <2>5. a \in Fn /\ b \in Nat /\ c \in Pools /\ d \in 0 .. Wrap - 1 /\ e \in 0 .. Wrap - 1
    BY <2>1, <2>2, <2>3 DEF BarType
  <2>6. x = [fn |-> a, slot |-> b, pool |-> c, addr |-> d, size |-> e]
    BY <2>4
  <2> HIDE DEF a, b, c, d, e
  <2>7. QED
    BY <2>5, <2>6
<1>5. QED
  BY <1>1, <1>2, <1>3, <1>4 DEF TypeOK, ScanType, Numbers, AllocInv, FrameType, Addr

\* It starts so.
LEMMA InitType == ASSUME SoundBars, Init, AutoInv PROVE ScanType
<1>0. Wrap > 0 /\ 0 \in Addr /\ \A p \in Pools : Granule[p] % Wrap \in Addr
  BY AutoAssumption DEF SoundBars, Addr
<1>1. stack \in Seq(FrameType) /\ Len(stack) > 0
  BY DEF AutoInv, RouteInv, Init, Descent
<1>2. sub = [f \in Bridges |-> 0] /\ 0 \in 0 .. last
  BY DEF Init
<1>3. base \in [Pools -> [Bridges -> Addr]] /\ limit \in [Pools -> [Bridges -> Addr]]
  BY <1>0, <1>2 DEF Init
<1>4. lower = [p \in Pools |-> lower[p]]
  BY DEF Init, pciauto_region_init
<1>5. QED
  BY <1>1, <1>2, <1>3, <1>4 DEF ScanType, Init

\* The registers a bridge is given.
LEMMA PrescanType ==
    ASSUME SoundBars, AutoInv, ScanType, NEW f \in Bridges, Prescan(f, last + 1), hw' = hw
    PROVE  /\ (sub \in [Bridges -> (0 .. last) \cup {255}])'
           /\ (base \in [Pools -> [Bridges -> Addr]])' /\ (limit \in [Pools -> [Bridges -> Addr]])'
           /\ (speed \in [Fn -> {"preferred", "2.5"}])'
<1>0. Wrap > 0
  BY AutoAssumption DEF SoundBars
<1>1. Fn' = Fn /\ Bridges' = Bridges /\ last \in Nat /\ last' = last + 1
  BY DEF Fn, Bridges, Prescan, AutoInv, RouteInv, Numbers
<1>2. \A p \in Pools : /\ Aligned[p] \in Addr /\ Wrap - 1 \in Addr /\ Granule[p] % Wrap \in Addr
  <2>1. \A p \in Pools : Granule[p] \in Nat /\ lower[p] \in Int
    BY AutoAssumption DEF AutoInv, AllocInv, Cursor
  <2>2. \A p \in Pools : AlignUp(lower[p], Granule[p]) \in Addr
    BY <1>0, <2>1, AlignedUp
  <2>3. \A p \in Pools : Granule[p] % Wrap \in Addr
    BY <1>0, <2>1 DEF Addr
  <2>4. 0 \in Addr /\ Wrap - 1 \in Addr
    BY <1>0 DEF Addr
  <2>5. QED
    BY <2>2, <2>3, <2>4 DEF Aligned
<1>3. sub' \in [Bridges -> (0 .. last + 1) \cup {255}]
  <2>1. sub' = [sub EXCEPT ![f] = 255] /\ sub \in [Bridges -> (0 .. last) \cup {255}]
    BY DEF Prescan, ScanType
  <2>2. 0 .. last \subseteq 0 .. last + 1
    BY <1>1
  <2>3. QED
    BY <2>1, <2>2
<1>4. base' \in [Pools -> [Bridges -> Addr]]
  BY <1>2 DEF Prescan, ScanType
<1>5. limit' \in [Pools -> [Bridges -> Addr]]
  BY <1>2 DEF Prescan, ScanType
<1>6. speed' \in [Fn -> {"preferred", "2.5"}]
  <2>1. f \in Fn /\ Speed(hw[f].port) \in {"preferred", "2.5"}
    BY DEF Bridges, Speed
  <2>2. QED
    BY <2>1 DEF Prescan, ScanType
<1>7. QED
  BY <1>1, <1>3, <1>4, <1>5, <1>6 DEF Addr

\* Every step of the scan keeps it.
LEMMA NextType == ASSUME SoundBars, AutoInv, AutoInv', ScanType, [Next]_vars PROVE ScanType'
<1>1. CASE UNCHANGED vars
  BY <1>1 DEF vars, regVars, ScanType, FrameType, Fn, Bridges, Bus
<1> SUFFICES ASSUME Next PROVE ScanType'
  BY <1>1
<1>0. Wrap > 0
  BY AutoAssumption DEF SoundBars
<1>2. hw' = hw /\ result = "running" /\ Descent /\ Numbers
  BY DEF Next, NextDevice, SkipBar, AssignBar, LeafDone, EnterBridge, LeaveBridge, Finish,
         CreateFails, BindFails, SettingUp, SetUp, AutoInv, RouteInv
<1>3. Fn' = Fn /\ Bridges' = Bridges /\ Bus' = Bus /\ FrameType' = FrameType
  BY <1>2 DEF Fn, Bridges, Bus, FrameType
<1>4. (stack \in Seq(FrameType) /\ Len(stack) > 0)'
  <2>1. CASE result' = "running"
    BY <2>1 DEF AutoInv, RouteInv, Descent
  <2>2. CASE result' # "running"
    <3>1. stack' = stack
      BY <1>2, <2>2 DEF Next, NextDevice, SkipBar, AssignBar, LeafDone, EnterBridge, LeaveBridge, Finish,
                        CreateFails, BindFails
    <3>2. QED
      BY <1>3, <3>1 DEF ScanType
  <2>3. QED
    BY <2>1, <2>2
<1>5. (result \in {"running", "ok", "error"})'
  BY <1>2 DEF Next, NextDevice, SkipBar, AssignBar, LeafDone, EnterBridge, LeaveBridge, Finish,
              CreateFails, BindFails
<1>6. (active \subseteq Bridges)'
  BY <1>3 DEF Next, NextDevice, SkipBar, AssignBar, LeafDone, EnterBridge, LeaveBridge, Finish,
              CreateFails, BindFails, ScanType
<1>7. (lower = [p \in Pools |-> lower[p]])'
  <2>1. \/ lower' = lower \/ lower' = pciauto_region_init \/ lower' = Aligned
        \/ \E p, n : lower' = [lower EXCEPT ![p] = n]
    BY DEF Next, NextDevice, SkipBar, AssignBar, LeafDone, EnterBridge, LeaveBridge, Finish,
           CreateFails, BindFails, Closed
  <2>2. QED
    BY <2>1 DEF ScanType, pciauto_region_init, Aligned
<1>8. \A x \in bar' : x = [fn |-> x.fn, slot |-> x.slot, pool |-> x.pool, addr |-> x.addr, size |-> x.size]
  <2>1. bar' = bar \/ \E a, b, c, d, e : bar' = bar \cup {[fn |-> a, slot |-> b, pool |-> c, addr |-> d, size |-> e]}
    <3>1. CASE AssignBar
      <4>1. \E p : bar' = bar \cup {[fn |-> Top.fn, slot |-> Top.slot, pool |-> p,
                                  addr |-> AlignUp(lower[p], Answer.size), size |-> Answer.size]}
        BY <3>1, Zenon DEF AssignBar
      <4>2. QED
        BY <4>1, Zenon
    <3>2. CASE ~AssignBar
      BY <3>2 DEF Next, NextDevice, SkipBar, LeafDone, EnterBridge, LeaveBridge, Finish, CreateFails, BindFails
    <3>3. QED
      BY <3>1, <3>2
  <2>2. QED
    BY <2>1 DEF ScanType
<1>9. /\ (sub \in [Bridges -> (0 .. last) \cup {255}])'
      /\ (base \in [Pools -> [Bridges -> Addr]])' /\ (limit \in [Pools -> [Bridges -> Addr]])'
      /\ (speed \in [Fn -> {"preferred", "2.5"}])'
  <2>1. CASE EnterBridge \/ BindFails
    <3>1. PICK f \in Bridges : Prescan(f, last + 1)
      BY <2>1 DEF EnterBridge, BindFails
    <3>2. QED
      BY <1>2, <3>1, PrescanType
  <2>2. CASE LeaveBridge
    <3>1. last' = last /\ base' = base /\ speed' = speed /\ lastSub \in [Bus -> 0 .. last]
      BY <1>2, <2>2 DEF LeaveBridge, Numbers
    <3>2. limit' = Limits(Top.bus) /\ sub' = [sub EXCEPT ![Top.bus] = lastSub[Top.bus]]
      BY <2>2 DEF LeaveBridge
    <3>3. Top.bus \in Bus
      BY <1>2, TopType DEF FrameType
    <3>4. \A p \in Pools : AlignUp(Aligned[p], Granule[p]) \in Addr
      <4>1. \A p \in Pools : Granule[p] \in Nat /\ lower[p] \in Int
        BY AutoAssumption DEF AutoInv, AllocInv, Cursor
      <4>2. \A p \in Pools : AlignUp(lower[p], Granule[p]) \in Int
        <5>1. \A p \in Pools : AlignUp(lower[p], Granule[p]) \in Addr
          BY <1>0, <4>1, AlignedUp
        <5>2. QED
          BY <5>1 DEF Addr
      <4>3. \A p \in Pools : Aligned[p] \in Int
        BY <4>2 DEF Aligned
      <4>4. QED
        BY <1>0, <4>1, <4>3, AlignedUp
    <3>5. limit' \in [Pools -> [Bridges -> Addr]]
      <4>1. ASSUME NEW p \in Pools
            PROVE  [limit[p] EXCEPT ![Top.bus] = IF Present(p) THEN AlignUp(Aligned[p], Granule[p]) ELSE @]
                       \in [Bridges -> Addr]
        <5>1. limit[p] \in [Bridges -> Addr] /\ AlignUp(Aligned[p], Granule[p]) \in Addr
          BY <3>4 DEF ScanType
        <5>2. QED
          BY <5>1
      <4>2. QED
        BY <3>2, <4>1 DEF Limits, Closed
    <3>6. sub' \in [Bridges -> (0 .. last) \cup {255}]
      BY <3>1, <3>2, <3>3 DEF ScanType
    <3>7. QED
      BY <1>3, <3>1, <3>5, <3>6 DEF ScanType, Addr
  <2>3. CASE UNCHANGED <<last, sub, base, limit, speed>>
    BY <1>3, <2>3 DEF ScanType, Addr
  <2>4. QED
    BY <2>1, <2>2, <2>3 DEF Next, NextDevice, SkipBar, AssignBar, LeafDone, Finish, CreateFails, regVars
<1>10. QED
  BY <1>4, <1>5, <1>6, <1>7, <1>8, <1>9 DEF ScanType

\* The variables of the library itself, besides what RegionInv and StageInv say of them.
ControllerInv ==
    /\ stage \notin {"dma", "regions", "windows", "masked"} \cup Linked \cup Up => dma = NoDma
    /\ bar2.offset \in Addr /\ bar2.size \in 0 .. Wrap
    /\ Len(win) \in Nat /\ Len(win) <= OutWins
    /\ perst \in BOOLEAN /\ masked \in BOOLEAN
    /\ gic400 \in BOOLEAN /\ demux \in BOOLEAN /\ pool \in BOOLEAN

\* The variables of a scan.
Scanning == stage = "scan" => ScanType

\* The inbound window fits the registers of RC_BAR2.
LEMMA InboundsType ==
    ASSUME Wrap > 0, board \in Boards, DmaUsable, dma = DmaWindow(board.dma[1])
    PROVE  /\ dma.phys \in Addr /\ dma.bus \in Addr /\ dma.size \in 0 .. Wrap
           /\ (dma.bus - dma.phys) % Wrap \in Addr /\ InboundSize(dma.size) \in 0 .. Wrap
<1>1. /\ dma.bus = dma.phys /\ dma.phys \in Nat /\ dma.size \in Nat /\ dma.phys + dma.size <= DmaEnd
      /\ DmaEnd <= Wrap /\ DmaEnd \in Nat /\ dma.phys < DmaEnd
  BY RamsOf
<1>2. InboundSize(dma.size) \in Nat /\ InboundSize(dma.size) <= DmaEnd
  <2>1. dma.size <= DmaEnd
    BY <1>1
  <2>2. QED
    BY <1>1, <2>1, Inbounds
<1>3. (dma.bus - dma.phys) % Wrap \in Addr
  <2>1. dma.bus - dma.phys \in Int
    BY <1>1
  <2> DEFINE d == dma.bus - dma.phys
  <2> HIDE DEF d
  <2>2. ASSUME d \in Int PROVE d % Wrap \in 0 .. Wrap - 1
    BY <2>2
  <2>3. QED
    BY <2>1, <2>2 DEF d, Addr
<1>4. QED
  BY <1>1, <1>2, <1>3 DEF Addr

LEMMA Appended ==
    ASSUME NEW n \in Nat, NEW s, s = [i \in 1 .. n |-> s[i]], NEW e
    PROVE  Len(s) = n /\ Len(Append(s, e)) = n + 1
<1> DEFINE S == {s[i] : i \in 1 .. n} \cup {e}
<1>1. s \in Seq(S) /\ e \in S
  OBVIOUS
<1> HIDE DEF S
<1>2. QED
  BY <1>1

\* No step of the library leaves them.
LEMMA BoardsController ==
    ASSUME SoundBars, RegionInv, StageInv, ControllerInv, [BoardsNext]_boardVars
    PROVE  ControllerInv'
<1> USE DEF StageInv, Stages, InReset, Linked, Up, Step, ctrlVars, rcVars, probeVars, hwVars
<1>0. Wrap > 0 /\ OutWins \in Nat
  BY AutoAssumption, ProbeAssumption DEF SoundBars
<1>1. CASE UNCHANGED <<dma, bar2, win, perst, masked, gic400, demux, pool>>
           /\ (stage \in {"dma", "regions", "windows", "masked"} \cup Linked \cup Up
                 => stage' \in {"dma", "regions", "windows", "masked"} \cup Linked \cup Up)
  BY <1>1 DEF ControllerInv, Addr
<1>2. CASE Step("down", "ctrl") /\ UNCHANGED <<dma, bar2, win, perst, masked, gic400, demux, pool>>
  BY <1>2 DEF ControllerInv, Addr
<1>3. CASE Probe
  <2>1. pool' = pool /\ ProbeNext
    BY <1>3 DEF Probe
  <2>2. CASE DevtreeParse
    BY <2>1, <2>2 DEF DevtreeParse, ControllerInv, Addr
  <2>3. CASE ResetBridge
    BY <2>1, <2>3 DEF ResetBridge, ControllerInv, Addr
  <2>4. CASE FindDmaWindow
    BY <2>1, <2>4 DEF FindDmaWindow, ControllerInv, Addr
  <2>5. CASE DevtreeRegions
    BY <2>1, <2>5 DEF DevtreeRegions, ControllerInv, Addr
  <2>6. CASE Inbound
    <3>1. board \in Boards /\ DmaUsable /\ dma = DmaWindow(board.dma[1])
      BY <2>6 DEF Inbound, RegionInv
    <3>2. (dma.bus - dma.phys) % Wrap \in Addr /\ InboundSize(dma.size) \in 0 .. Wrap
      BY <1>0, <3>1, InboundsType
    <3>3. bar2' = [offset |-> (dma.bus - dma.phys) % Wrap, size |-> InboundSize(dma.size)]
      BY <2>6 DEF Inbound
    <3>4. bar2'.offset \in Addr /\ bar2'.size \in 0 .. Wrap
      BY <3>2, <3>3
    <3>5. stage' = "windows" /\ UNCHANGED <<dma, win, perst, masked, gic400, demux, pool>>
      BY <2>1, <2>6 DEF Inbound
    <3>6. QED
      BY <3>4, <3>5 DEF ControllerInv, Addr
  <2>13. CASE MaskAll
    BY <2>1, <2>13 DEF MaskAll, ControllerInv, Addr
  <2>14. CASE ReleasePerst
    BY <2>1, <2>14 DEF ReleasePerst, ControllerInv, Addr
  <2>7. CASE LinkUp
    BY <1>0, <2>1, <2>7 DEF LinkUp, ControllerInv, Addr
  <2>8. CASE SetOutboundWin
    <3>1. /\ stage = "outbound" /\ Len(win) < OutWins
          /\ win' = Append(win, OutboundWin(Windowed[Len(win) + 1]))
          /\ UNCHANGED <<stage, dma, bar2, perst, masked, gic400, demux, pool>>
      <4>1. stage = "outbound" /\ Len(win) < Least(Len(Windowed), OutWins)
        BY <2>8 DEF SetOutboundWin
      <4>2. Len(Windowed) \in Nat
        BY <4>1, WindowedOf DEF Live
      <4>3. QED
        BY <1>0, <2>1, <2>8, <4>1, <4>2 DEF SetOutboundWin, Least, ControllerInv
    <3>2. PICK n \in 0 .. Len(Windowed) : win = Programmed(n)
      BY <3>1 DEF RegionInv
    <3>3. n \in Nat /\ win = [i \in 1 .. n |-> win[i]]
      BY <3>2 DEF Programmed
    <3>4. Len(win) = n /\ Len(win') = n + 1
      BY <3>1, <3>3, Appended
    <3>5. QED
      BY <1>0, <3>1, <3>3, <3>4 DEF ControllerInv, Addr
  <2>9. CASE Finetune
    BY <2>1, <2>9 DEF Finetune, ControllerInv, Addr
  <2>10. CASE OpenGic400
    BY <2>1, <2>10 DEF OpenGic400, ControllerInv, Addr
  <2>11. CASE DemuxEnable
    BY <2>1, <2>11 DEF DemuxEnable, ControllerInv, Addr
  <2>15. QED
    BY <2>1, <2>2, <2>3, <2>4, <2>5, <2>6, <2>7, <2>8, <2>9, <2>10, <2>11, <2>13, <2>14 DEF ProbeNext
<1>4. CASE ProbeError
  BY <1>4 DEF ProbeError, ProbeFails, ControllerInv, Addr
<1>5. CASE SetupFails \/ Shutdown
  BY <1>5 DEF SetupFails, Shutdown, RemoveController, ControllerInv, Addr
<1>6. CASE BringUp
  BY <1>2, <1>6 DEF BringUp
<1>7. CASE StartScan \/ BuildDevList
  BY <1>1, <1>7 DEF StartScan, BuildDevList
<1>8. CASE Scan
  BY <1>1, <1>8 DEF Scan
<1>9. CASE CreatePool
  BY <1>9 DEF CreatePool, ControllerInv, Addr
<1>10. CASE Drive
  BY <1>10 DEF Drive, ControllerInv, Addr
<1>11. CASE UNCHANGED hwVars
  BY <1>1, <1>11
<1>12. QED
  <2>1. Probe \/ ProbeError \/ SetupFails \/ Shutdown \/ BringUp \/ StartScan \/ BuildDevList
          \/ CreatePool \/ Scan \/ Drive \/ UNCHANGED hwVars
    BY DEF BoardsNext, LibOpenStep, MakeDevs, GiveUp, Reserve, ObtainCard, ReleaseCard, ClearOwner,
           CloseDown, boardVars
  <2>2. QED
    BY <1>3, <1>4, <1>5, <1>6, <1>7, <1>8, <1>9, <1>10, <1>11, <2>1

\* A scan starts with its type, and keeps it.
LEMMA BoardsScanning ==
    ASSUME BarsInv, StageInv, Scanning, RegionsGiven', (Init /\ AutoInv => ScanType)', (Init => AutoInv)',
           AutoInv /\ [Next]_vars => AutoInv', AutoInv /\ AutoInv' /\ ScanType /\ [Next]_vars => ScanType',
           [BoardsNext]_boardVars
    PROVE  Scanning'
<1> SUFFICES ASSUME (stage = "scan")' PROVE ScanType'
  BY DEF Scanning
<1>1. CASE StartScan
  <2>1. Init'
    BY <1>1, ScanStarts
  <2>2. QED
    BY <2>1
<1>2. CASE stage = "scan" /\ [Next]_vars
  <2>1. ScanType /\ AutoInv
    BY <1>2 DEF Scanning, ScanType, BarsInv
  <2>2. QED
    BY <1>2, <2>1
<1>3. QED
  <2>1. CASE LibOpenStep
    <3>1. StartScan \/ (stage = "scan" /\ Next)
      BY <2>1 DEF LibOpenStep, Probe, ProbeNext, ProbeError, ProbeFails, MakeDevs, BuildDevList, CreatePool,
         GiveUp, SetupFails, Scan, Step, DevtreeParse, ResetBridge, FindDmaWindow, DevtreeRegions, Inbound,
         MaskAll, ReleasePerst, LinkUp, SetOutboundWin, Finetune, OpenGic400, DemuxEnable
    <3>2. QED
      BY <1>1, <1>2, <3>1
  <2>2. CASE Reserve \/ UNCHANGED boardVars
    BY <2>2, <1>2 DEF Reserve, ObtainCard, ReleaseCard, ClearOwner, hwVars, boardVars, probeVars
  <2>3. CASE CloseDown \/ ((BringUp \/ Drive) /\ UNCHANGED <<owner, held, robbed>>)
    BY <2>3 DEF CloseDown, Shutdown, BringUp, Drive, Step
  <2>4. QED
    BY <2>1, <2>2, <2>3 DEF BoardsNext

\* A region is a range of the device tree that was accepted, or RAM the window reaches.
LEMMA RegionsType ==
    ASSUME RegionInv, stage \in Live, NEW i \in DOMAIN regions
    PROVE  /\ regions[i].kind \in AnyRegion /\ regions[i].size \in 1 .. Wrap
           /\ regions[i].bus \in 0 .. Wrap - 1 /\ regions[i].phys \in 0 .. PhysWrap - 1
<1> DEFINE o == Outbounds(board)
<1>0. PhysWrap \in Nat /\ Wrap <= PhysWrap
  BY ProbeAssumption
<1>1. board \in Boards /\ DmaUsable /\ dma = DmaWindow(board.dma[1]) /\ BoardOK(board)
  BY ProbeAssumption DEF RegionInv, Live
<1>2. /\ regions \in Seq(RegionRecord) /\ Len(o) \in Nat
      /\ \A k \in 1 .. Len(o) : regions[k] = o[k]
      /\ \A k \in DOMAIN regions \ 1 .. Len(o) :
            \E j \in DOMAIN board.memory : Reachable(board.memory[j]) /\ regions[k] = Ram(board.memory[j])
  BY RegionsOf
<1>3. \A k \in 1 .. Len(o) : \E j \in DOMAIN board.ranges :
          Accepted(board.ranges[j]) /\ o[k] = Outbound(board.ranges[j])
  BY <1>1, OutboundsOf
<1> HIDE DEF o
<1>4. CASE i \in 1 .. Len(o)
  <2>1. PICK j \in DOMAIN board.ranges : Accepted(board.ranges[j]) /\ regions[i] = Outbound(board.ranges[j])
    BY <1>2, <1>3, <1>4
  <2>2. board.ranges[j] \in RangeType
    <3>1. board.ranges \in Seq(RangeType)
      BY <1>1 DEF BoardOK
    <3>2. QED
      BY <3>1
  <2> DEFINE r == board.ranges[j]
  <2>3. r \in RangeType /\ Accepted(r) /\ regions[i] = Outbound(r)
    BY <2>1, <2>2
  <2> HIDE DEF r
  <2>4. QED
    BY <1>0, <2>3 DEF Accepted, Outbound, RangeType, AnyRegion
<1>5. CASE i \notin 1 .. Len(o)
  <2>1. PICK j \in DOMAIN board.memory : Reachable(board.memory[j]) /\ regions[i] = Ram(board.memory[j])
    BY <1>2, <1>5
  <2>2. board.memory[j] \in BankType
    <3>1. board.memory \in Seq(BankType)
      BY <1>1 DEF BoardOK
    <3>2. QED
      BY <3>1
  <2> DEFINE m == board.memory[j]
  <2>3. m \in BankType /\ Reachable(m) /\ regions[i] = Ram(m)
    BY <2>1, <2>2
  <2> HIDE DEF m
  <2>4. /\ dma.bus = dma.phys /\ dma.phys \in Nat /\ dma.size \in Nat /\ dma.phys + dma.size <= DmaEnd
        /\ DmaEnd <= Wrap /\ DmaEnd \in Nat
    BY <1>1, RamsOf
  <2>5. m.lower \in Nat /\ m.upper \in Nat /\ m.lower < m.upper /\ m.upper <= Wrap
    BY <2>3, <2>4 DEF Reachable, BankType
  <2>6. m.lower + (dma.bus - dma.phys) = m.lower
    BY <2>4, <2>5
  <2>7. m.lower % Wrap \in 0 .. Wrap - 1
    BY <2>5
  <2>8. QED
    BY <1>0, <2>3, <2>5, <2>6, <2>7 DEF Ram, AnyRegion
<1>6. QED
  BY <1>4, <1>5

\* So is what a failed bring-up leaves behind.
TypedTable ==
    \A i \in DOMAIN regions :
        /\ regions[i].kind \in AnyRegion /\ regions[i].size \in 1 .. Wrap
        /\ regions[i].bus \in 0 .. Wrap - 1 /\ regions[i].phys \in 0 .. PhysWrap - 1

LEMMA BoardsTable ==
    ASSUME TypedTable, StageInv, (stage \in Live => TypedTable)', [BoardsNext]_boardVars
    PROVE  TypedTable'
<1>1. CASE (stage \in Live)'
  BY <1>1
<1>2. CASE regions' = regions \/ regions' = <<>>
  BY <1>2 DEF TypedTable
<1>3. CASE DevtreeRegions
  BY <1>1, <1>3 DEF DevtreeRegions, Step, Live
<1>4. regions' = regions \/ regions' = <<>> \/ DevtreeRegions
  BY DEF BoardsNext, LibOpenStep, MakeDevs, GiveUp, Reserve, ObtainCard, ReleaseCard, ClearOwner,
     CloseDown, boardVars, BringUp, Probe, ProbeError, ProbeFails, ProbeNext, DevtreeParse, ResetBridge,
     FindDmaWindow, Inbound, MaskAll, ReleasePerst, LinkUp, SetOutboundWin, Finetune,
     OpenGic400, DemuxEnable, StartScan, Scan, BuildDevList, CreatePool, Drive, SetupFails, Shutdown,
     RemoveController, ctrlVars, probeVars, hwVars
<1>5. QED
  BY <1>2, <1>3, <1>4

\* Together they are the types.
LEMMA TypesOf ==
    ASSUME SoundBars, StageInv, RegionInv, BarsInv, ListInv, LineInv, ControllerInv, Scanning, TypedTable
    PROVE  HwTypeOK
<1>0. Wrap > 0
  BY AutoAssumption DEF SoundBars
<1>1. stage = "scan" => TypeOK
  <2> SUFFICES ASSUME stage = "scan" PROVE TypeOK
    OBVIOUS
  <2>1. ScanType /\ AutoInv
    BY DEF Scanning, ScanType, BarsInv
  <2>2. QED
    BY <2>1, ScanTypeOf
<1>2. ASSUME NEW i \in DOMAIN regions
      PROVE  /\ regions[i].kind \in AnyRegion /\ regions[i].size \in 1 .. Wrap
             /\ regions[i].bus \in 0 .. Wrap - 1 /\ regions[i].phys \in 0 .. PhysWrap - 1
  BY DEF TypedTable
<1>3. dma.phys \in Addr /\ dma.bus \in Addr /\ dma.size \in 0 .. Wrap
  <2>1. CASE dma = NoDma
    BY <1>0, <2>1 DEF NoDma, Addr
  <2>2. CASE dma # NoDma
    <3>1. board \in Boards /\ DmaUsable /\ dma = DmaWindow(board.dma[1])
      BY <2>2 DEF ControllerInv, RegionInv
    <3>2. QED
      BY <1>0, <3>1, InboundsType
  <2>3. QED
    BY <2>1, <2>2
<1>4. lines \in [1 .. 4 -> Nat]
  <2>1. board.intmap \in Seq(EntryType)
    BY ProbeAssumption DEF LineInv, BoardOK
  <2>2. Mapping(board.intmap) \in [1 .. 4 -> Nat]
    BY <2>1, MappingOf
  <2>3. QED
    BY <2>2 DEF LineInv
<1>5. devList \in Seq(DOMAIN hw)
  <2>1. CASE stage \in ListStages
    <3>1. devList \in Seq(Fn)
      BY <2>1 DEF ListInv
    <3>2. QED
      BY <3>1 DEF Fn
  <2>2. CASE stage \notin ListStages
    <3>1. devList = <<>>
      BY <2>2 DEF StageInv, ListStages
    <3>2. QED
      BY <3>1
  <2>3. QED
    BY <2>1, <2>2
<1>6. QED
  BY <1>1, <1>2, <1>3, <1>4, <1>5 DEF HwTypeOK, ControllerInv, LineInv, Addr, AnyRegion

\* No value of the controller, the scan or the list leaves its type; the windows of
\* brcm_pcie_set_outbound_win are as many as the registers, and RC_BAR2 fits its own: for
\* any machines and BAR sizes as above, over every bring-up, failure and close.
THEOREM TypesStay == SoundBars => (BoardsSpec => []HwTypeOK)
<1> SUFFICES ASSUME SoundBars PROVE BoardsSpec => []HwTypeOK
  OBVIOUS
<1>1. BoardsSpec => [](RegionInv /\ BarsInv)
  BY Settled
<1>2. BoardsInit => ControllerInv /\ Scanning
  <2>1. Wrap > 0 /\ OutWins \in Nat
    BY AutoAssumption, ProbeAssumption DEF SoundBars
  <2>2. SUFFICES ASSUME BoardsInit PROVE ControllerInv /\ Scanning
    OBVIOUS
  <2>3. /\ stage = "down" /\ dma = NoDma /\ bar2 = Disabled /\ win = <<>> /\ perst \in BOOLEAN
        /\ masked \in BOOLEAN /\ gic400 = FALSE /\ demux = FALSE /\ pool = FALSE
    BY <2>2 DEF BoardsInit, HwInit, ProbeInit
  <2>4. bar2.offset \in Addr /\ bar2.size \in 0 .. Wrap
    BY <2>1, <2>3 DEF Disabled, Addr
  <2>5. Len(win) \in Nat /\ Len(win) <= OutWins
    BY <2>1, <2>3
  <2>6. gic400 \in BOOLEAN /\ demux \in BOOLEAN /\ pool \in BOOLEAN
    BY <2>3, Zenon
  <2>7. stage # "scan"
    BY <2>3
  <2>8. QED
    BY <2>3, <2>4, <2>5, <2>6, <2>7, Zenon DEF ControllerInv, Scanning
<1>3. RegionInv /\ StageInv /\ ControllerInv /\ [BoardsNext]_boardVars => ControllerInv'
  BY BoardsController
<1>4. Init => AutoInv
  BY AutoInit
<1>5. AutoInv /\ [Next]_vars => AutoInv'
  BY AutoNext
<1>6. Init /\ AutoInv => ScanType
  BY InitType
<1>7. AutoInv /\ AutoInv' /\ ScanType /\ [Next]_vars => ScanType'
  BY NextType
<1>8. BarsInv /\ StageInv /\ Scanning /\ RegionsGiven' /\ (Init /\ AutoInv => ScanType)' /\ (Init => AutoInv)'
         /\ (AutoInv /\ [Next]_vars => AutoInv')
         /\ (AutoInv /\ AutoInv' /\ ScanType /\ [Next]_vars => ScanType')
         /\ [BoardsNext]_boardVars => Scanning'
  BY BoardsScanning
<1>9. BoardsInit => TypedTable
  BY DEF BoardsInit, HwInit, ProbeInit, TypedTable
<1>10. RegionInv => (stage \in Live => TypedTable)
  BY RegionsType DEF TypedTable
<1>11. TypedTable /\ StageInv /\ (stage \in Live => TypedTable)' /\ [BoardsNext]_boardVars => TypedTable'
  BY BoardsTable
<1>12. StageInv /\ RegionInv /\ BarsInv /\ ListInv /\ LineInv /\ ControllerInv /\ Scanning /\ TypedTable => HwTypeOK
  BY TypesOf
<1>13. QED
  BY <1>1, <1>2, <1>3, <1>4, <1>5, <1>6, <1>7, <1>8, <1>9, <1>10, <1>11, <1>12, ListStays, LinesStay, RegionGiven, PTL
     DEF BoardsSpec
=============================================================================
