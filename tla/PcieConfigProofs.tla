-------------------------- MODULE PcieConfigProofs --------------------------
(***************************************************************************)
(* Proofs about PcieConfig for every set of functions and tasks.  When all *)
(* calls take the semaphore, every access reaches its function and every   *)
(* call is atomic, as ConfigSpace says, whatever the link does.            *)
(***************************************************************************)
EXTENDS PcieConfig, TLAPS

USE CallsAssumption, ConfigAssumption

-----------------------------------------------------------------------------
(* The calls: what they do stays inside the register they are about.       *)

LEMMA CallTypes ==
    ASSUME NEW c \in Call
    PROVE  /\ c.kind \in Kinds /\ c.fn \in Fn /\ c.reg \in Reg
           /\ c.val \subseteq Bits[c.reg]
           /\ c.kind \in {"read", "write"} \/ c.reg = RegOf(c.kind)
           /\ c = [kind |-> c.kind, fn |-> c.fn, reg |-> c.reg, val |-> c.val]
           /\ c # NoCall
BY DEF Call, NoCall

LEMMA BitsTypes == \A r \in Reg : Bits[r] \in Word
BY DEF Bits, Reg, Word, Bit

LEMMA NewType ==
    ASSUME NEW c \in Call, NEW old \in SUBSET Bits[c.reg]
    PROVE  New(c, old) \subseteq Bits[c.reg]
<1>1. c.kind \in {"read", "write"} \/ c.reg = RegOf(c.kind)
  BY CallTypes
<1>2. c.kind \in Locked \cup LockFree /\ c.val \subseteq Bits[c.reg]
  BY CallTypes
<1>3. Bits["command"] = {"master", "intx_disable"} /\ Bits["msg_control"] = {"enable"}
      /\ Bits["devctl"] = {"flr"}
  BY DEF Bits
<1>4. QED
  BY <1>1, <1>2, <1>3 DEF New, RegOf, Locked, LockFree

LEMMA StoredType ==
    ASSUME NEW g, g \in [Fn -> [Reg -> Word]],
           \A f \in Fn, r \in Reg : g[f][r] \subseteq Bits[r],
           NEW f \in Fn, NEW r \in Reg, NEW v \in SUBSET Bits[r]
    PROVE  /\ Stored(g, f, r, v) \in [Fn -> [Reg -> Word]]
           /\ \A e \in Fn, q \in Reg : Stored(g, f, r, v)[e][q] \subseteq Bits[q]
<1>1. v \in Word
  BY BitsTypes DEF Word
<1>2. Reset \in [Reg -> Word] /\ \A q \in Reg : Reset[q] = {}
  BY DEF Reset, Word
<1>3. QED
  BY <1>1, <1>2 DEF Stored

-----------------------------------------------------------------------------
(* Types, and where in its call a task can be.                             *)

Shape(t) ==
    LET k == task[t].call.kind IN
      /\ task[t].pc = "idle" => task[t] = Idle
      /\ task[t].pc # "idle" => task[t].call \in Call
      /\ task[t].sel => task[t].pc \in {"read", "write", "back"}
      /\ task[t].sel => task[t].call.fn \in RootPort \/ index \in Fn
      /\ task[t].pc = "back" => k = "set_master"
      /\ task[t].pc = "write" => Writes(task[t].call, task[t].val)
      /\ task[t].pc = "read" => k \notin {"write", "area"}
      /\ task[t].pc = "area" => k = "area"
TInv == TypeOK /\ \A t \in Task : Shape(t)

TaskState == [pc : Pc, sel : BOOLEAN, call : Call \cup {NoCall}, val : Word]

\* A completed access.
Completed(t, v) ==
    /\ task' \in [Task -> TaskState]
    /\ \A u \in Task \ {t} : task'[u] = task[u]
    /\ task'[t].sel = FALSE
    /\ task'[t].call = task[t].call
    /\ task'[t].val = v
    /\ task[t].pc = "read" => task'[t].pc = AfterRead(task[t].call, v)
    /\ task[t].pc = "write" => task'[t].pc = AfterWrite(task[t].call)
    /\ task[t].pc = "back" => task'[t].pc = "leave"

LEMMA DoneStep ==
    ASSUME TInv, NEW t \in Task, task[t].pc \in {"read", "write", "back"},
           NEW v \in SUBSET Bits[task[t].call.reg], task' = Done(t, v)
    PROVE  Completed(t, v)
<1>1. /\ task \in [Task -> TaskState]
      /\ task[t].call \in Call
  BY DEF TInv, TypeOK, Shape, TaskState
<1>2. v \in Word
  BY <1>1, CallTypes, BitsTypes DEF Word
<1>3. AfterRead(task[t].call, v) \in {"write", "leave"} /\ AfterWrite(task[t].call) \in {"back", "leave"}
  BY DEF AfterRead, AfterWrite
<1>4. PcAfter(t, v) \in Pc
  BY <1>3 DEF PcAfter, Pc
<1>5. QED
  BY <1>1, <1>2, <1>4 DEF Done, PcAfter, TaskState, Completed

LEMMA DoneShape ==
    ASSUME TInv, NEW t \in Task, task[t].pc \in {"read", "write", "back"},
           NEW v \in SUBSET Bits[task[t].call.reg], task' = Done(t, v)
    PROVE  Shape(t)'
<1>1. Completed(t, v)
  BY DoneStep
<1>0. task[t].call \in Call
  BY DEF TInv, Shape
<1>2. CASE task[t].pc = "read"
  BY <1>1, <1>0, <1>2 DEF Shape, Completed, AfterRead, Writes
<1>3. CASE task[t].pc = "write"
  BY <1>1, <1>0, <1>3 DEF Shape, Completed, AfterWrite
<1>4. CASE task[t].pc = "back"
  BY <1>1, <1>0, <1>4 DEF Shape, Completed
<1>5. QED
  BY <1>2, <1>3, <1>4

LEMMA TypeInit == Init => TInv
<1>1. Reset \in [Reg -> Word] /\ \A q \in Reg : Reset[q] = {}
  BY DEF Reset, Word
<1>2. ASSUME Init PROVE TypeOK
  BY <1>1, <1>2 DEF Init, TypeOK, Idle, Pc, Word
<1>3. ASSUME Init, NEW t \in Task PROVE Shape(t)
  BY <1>3 DEF Init, Shape, Idle
<1>4. QED
  BY <1>2, <1>3 DEF TInv

LEMMA ValueType ==
    ASSUME TInv, NEW t \in Task, task[t].pc \in {"read", "write", "back"},
           NEW seen \in SUBSET Bits[task[t].call.reg]
    PROVE  Value(t, seen) \in SUBSET Bits[task[t].call.reg]
<1>1. task[t].call \in Call /\ task[t].val \in SUBSET Bits[task[t].call.reg]
  BY DEF TInv, TypeOK, Shape
<1>2. QED
  BY <1>1, NewType DEF Value

LEMMA TypeStep == TInv /\ [Next]_vars => TInv'
<1> SUFFICES ASSUME TInv, [Next]_vars PROVE TInv'
  OBVIOUS
<1>0. /\ task \in [Task -> TaskState] /\ link \in BOOLEAN
      /\ regs \in [Fn -> [Reg -> Word]]
      /\ \A f \in Fn, r \in Reg : regs[f][r] \subseteq Bits[r]
      /\ index \in Fn \cup {NoFn} /\ holder \in Task \cup {NoTask}
      /\ moved \subseteq Task /\ aborted \in BOOLEAN
      /\ \A t \in Task : Shape(t) /\ task[t].val \subseteq Bits[task[t].call.reg]
  BY DEF TInv, TypeOK, TaskState
<1>1. ASSUME NEW t \in Task, NEW c \in Call, Enter(t, c) PROVE TInv'
  <2>1. /\ \A u \in Task \ {t} : task'[u] = task[u]
        /\ task'[t].pc \in {"read", "write", "area"} /\ task'[t].call = c
        /\ task'[t].val = {} /\ task'[t].sel = FALSE
        /\ c.kind = "write" <=> task'[t].pc = "write"
        /\ c.kind = "area" <=> task'[t].pc = "area"
        /\ task' \in [Task -> TaskState]
        /\ UNCHANGED <<regs, link, index, moved, aborted>> /\ holder' \in Task \cup {NoTask}
    BY <1>0, <1>1 DEF Enter, TaskState, Pc, Word
  <2>2. TypeOK'
    BY <1>0, <2>1 DEF TypeOK, TaskState
  <2>3. Shape(t)'
    BY <2>1 DEF Shape, Writes, IntxKinds
  <2>4. \A u \in Task \ {t} : Shape(u)'
    BY <1>0, <2>1 DEF Shape
  <2>5. QED
    BY <2>2, <2>3, <2>4 DEF TInv
<1>2. ASSUME NEW t \in Task, Select(t) PROVE TInv'
  <2>1. /\ \A u \in Task \ {t} : task'[u] = task[u]
        /\ task'[t].pc = task[t].pc /\ task[t].pc \in {"read", "write", "back"}
        /\ task'[t].call = task[t].call
        /\ task'[t].val = task[t].val /\ task'[t].sel = TRUE
        /\ task' \in [Task -> TaskState]
        /\ UNCHANGED <<regs, link, holder, moved, aborted>>
    BY <1>0, <1>2 DEF Select, TaskState
  <2>2. task[t].call \in Call /\ task[t].call.fn \in Fn
    BY <1>0, <2>1, CallTypes DEF Shape
  <2>3. /\ index' \in Fn \cup {NoFn} /\ (index \in Fn => index' \in Fn)
        /\ task[t].call.fn \in RootPort \/ index' \in Fn
    BY <1>0, <1>2, <2>2 DEF Select
  <2>4. TypeOK'
    BY <1>0, <2>1, <2>3 DEF TypeOK, TaskState
  <2>5. Shape(t)'
    BY <1>0, <2>1, <2>2, <2>3 DEF Shape
  <2>6. \A u \in Task \ {t} : Shape(u)'
    BY <1>0, <2>1, <2>3 DEF Shape
  <2>7. QED
    BY <2>4, <2>5, <2>6 DEF TInv
<1>3. ASSUME NEW t \in Task, Unreachable(t) PROVE TInv'
  <2> DEFINE v == Value(t, Bits[task[t].call.reg])
  <2>1. /\ task[t].pc \in {"read", "write", "back"} /\ task' = Done(t, v)
        /\ UNCHANGED <<regs, link, index, holder, moved, aborted>>
    BY <1>3 DEF Unreachable
  <2>2. v \in SUBSET Bits[task[t].call.reg]
    BY <2>1, ValueType
  <2> HIDE DEF v
  <2>3. /\ task' \in [Task -> TaskState] /\ \A u \in Task \ {t} : task'[u] = task[u]
        /\ task'[t].call = task[t].call /\ task'[t].val = v
    <3>1. Completed(t, v)
      BY <2>1, <2>2, DoneStep
    <3>2. QED
      BY <3>1 DEF Completed
  <2>4. TypeOK'
    BY <1>0, <2>1, <2>2, <2>3 DEF TypeOK, TaskState
  <2>5. Shape(t)'
    BY <2>1, <2>2, DoneShape
  <2>6. \A u \in Task \ {t} : Shape(u)'
    BY <1>0, <2>1, <2>3 DEF Shape
  <2>7. QED
    BY <2>4, <2>5, <2>6 DEF TInv
<1>4. ASSUME NEW t \in Task, Access(t) PROVE TInv'
  <2> DEFINE c == task[t].call
             f == Target(c.fn)
             v == Value(t, regs[f][c.reg])
  <2>1. /\ task[t].sel /\ task' = Done(t, v)
        /\ regs' = IF task[t].pc = "write" THEN Stored(regs, f, c.reg, New(c, task[t].val)) ELSE regs
        /\ UNCHANGED <<link, index, holder, moved, aborted>>
    BY <1>4 DEF Access
  <2>2. task[t].pc \in {"read", "write", "back"}
    BY <1>0, <2>1 DEF Shape
  <2>3. c \in Call /\ c.reg \in Reg /\ f \in Fn
    BY <1>0, <2>1, <2>2, CallTypes DEF Shape, Target
  <2>4. New(c, task[t].val) \in SUBSET Bits[c.reg]
    BY <1>0, <2>3, NewType
  <2>5. v \in SUBSET Bits[c.reg]
    BY <1>0, <2>2, <2>3, ValueType
  <2>6. regs' \in [Fn -> [Reg -> Word]] /\ \A e \in Fn, q \in Reg : regs'[e][q] \subseteq Bits[q]
    <3> HIDE DEF c, f
    <3>1. CASE task[t].pc = "write"
      BY <1>0, <2>1, <2>3, <2>4, <3>1, StoredType
    <3>2. QED
      BY <1>0, <2>1, <3>1
  <2>7. /\ task' \in [Task -> TaskState] /\ \A u \in Task \ {t} : task'[u] = task[u]
        /\ task'[t].call = task[t].call /\ task'[t].val = v
    <3> HIDE DEF v
    <3>1. Completed(t, v)
      BY <2>1, <2>2, <2>5, DoneStep
    <3>2. QED
      BY <3>1 DEF Completed
  <2>8. Shape(t)'
    <3> HIDE DEF v
    <3>1. QED
      BY <2>1, <2>2, <2>5, DoneShape
  <2> HIDE DEF v, f
  <2>9. TypeOK'
    BY <1>0, <2>1, <2>5, <2>6, <2>7 DEF TypeOK, TaskState
  <2>10. \A u \in Task \ {t} : Shape(u)'
    BY <1>0, <2>1, <2>7 DEF Shape
  <2>11. QED
    BY <2>8, <2>9, <2>10 DEF TInv
<1>5. ASSUME NEW t \in Task, Abort(t) PROVE TInv'
  <2>1. aborted' = TRUE /\ UNCHANGED <<regs, link, index, holder, moved, task>>
    BY <1>5 DEF Abort
  <2>2. TypeOK'
    BY <1>0, <2>1 DEF TypeOK, TaskState
  <2>3. \A u \in Task : Shape(u)'
    BY <1>0, <2>1 DEF Shape
  <2>4. QED
    BY <2>2, <2>3 DEF TInv
<1>6. ASSUME NEW t \in Task, SelectArea(t) PROVE TInv'
  <2>1. /\ \A u \in Task \ {t} : task'[u] = task[u]
        /\ task'[t].pc = "leave" /\ task[t].pc = "area" /\ task'[t].call = task[t].call
        /\ task'[t].val = task[t].val /\ task'[t].sel = task[t].sel
        /\ task' \in [Task -> TaskState]
        /\ UNCHANGED <<regs, link, holder, moved, aborted>>
    BY <1>0, <1>6 DEF SelectArea, TaskState, Pc
  <2>2. task[t].call \in Call /\ task[t].call.fn \in Fn
    BY <1>0, <2>1, CallTypes DEF Shape
  <2>3. index' \in Fn \cup {NoFn} /\ (index \in Fn => index' \in Fn)
    BY <1>0, <1>6, <2>2 DEF SelectArea
  <2>4. TypeOK'
    BY <1>0, <2>1, <2>3 DEF TypeOK, TaskState
  <2>5. Shape(t)'
    BY <1>0, <2>1, <2>2 DEF Shape
  <2>6. \A u \in Task \ {t} : Shape(u)'
    BY <1>0, <2>1, <2>3 DEF Shape
  <2>7. QED
    BY <2>4, <2>5, <2>6 DEF TInv
<1>7. ASSUME NEW t \in Task, Leave(t) PROVE TInv'
  <2>1. /\ \A u \in Task \ {t} : task'[u] = task[u]
        /\ task'[t] = Idle /\ task' \in [Task -> TaskState]
        /\ UNCHANGED <<regs, link, index, aborted>> /\ holder' \in Task \cup {NoTask}
        /\ moved' \subseteq Task
    BY <1>0, <1>7 DEF Leave, Idle, TaskState, Pc, Word
  <2>2. TypeOK'
    BY <1>0, <2>1 DEF TypeOK, TaskState, Idle
  <2>3. Shape(t)'
    BY <2>1 DEF Shape, Idle
  <2>4. \A u \in Task \ {t} : Shape(u)'
    BY <1>0, <2>1 DEF Shape
  <2>5. QED
    BY <2>2, <2>3, <2>4 DEF TInv
<1>8. CASE LinkChange
  <2>1. Reset \in [Reg -> Word] /\ \A q \in Reg : Reset[q] = {}
    BY DEF Reset, Word
  <2>2. /\ link' \in BOOLEAN /\ UNCHANGED <<index, holder, aborted, task>>
        /\ moved' \subseteq Task
        /\ regs' \in [Fn -> [Reg -> Word]]
        /\ \A f \in Fn, r \in Reg : regs'[f][r] \subseteq Bits[r]
    BY <1>0, <1>8, <2>1 DEF LinkChange, Dropped
  <2>3. TypeOK'
    BY <1>0, <2>2 DEF TypeOK, TaskState
  <2>4. \A t \in Task : Shape(t)'
    BY <1>0, <2>2 DEF Shape
  <2>5. QED
    BY <2>3, <2>4 DEF TInv
<1>9. CASE UNCHANGED vars
  BY <1>9 DEF TInv, TypeOK, Shape, vars
<1>10. QED
  BY <1>1, <1>2, <1>3, <1>4, <1>5, <1>6, <1>7, <1>8, <1>9 DEF Next, Step

\* Every register keeps to its own bits and every variable to its type, whatever
\* the calls, the link and the interleaving of locked and lock-free accesses.
THEOREM TypeCorrect == Spec => []TypeOK
<1>1. TInv => TypeOK
  BY DEF TInv
<1>2. QED
  BY <1>1, TypeInit, TypeStep, PTL DEF Spec

-----------------------------------------------------------------------------
(* With every call under the semaphore, one task is in a call and the      *)
(* index stays what it selected.                                           *)

LockPart(t) == /\ task[t].pc # "idle" => holder = t
               /\ task[t].sel => Target(task[t].call.fn) = task[t].call.fn
LInv == TInv /\ \A t \in Task : LockPart(t)

\* The other tasks are outside.
LEMMA OneCaller ==
    ASSUME LInv, NEW t \in Task, NEW u \in Task, holder = t, u # t
    PROVE  task[u] = Idle /\ task[u].pc = "idle" /\ task[u].sel = FALSE
<1>1. task[u].pc = "idle"
  BY DEF LInv, LockPart
<1>2. task[u] = Idle
  BY <1>1 DEF LInv, TInv, Shape
<1>3. QED
  BY <1>1, <1>2 DEF Idle

LEMMA LockedStep ==
    ASSUME Kinds \subseteq Locked, LInv, [Next]_vars
    PROVE  LInv'
<1>1. TInv'
  BY TypeStep DEF LInv
<1>2. \A c \in Call : Takes(c)
  BY CallTypes DEF Takes
<1>3. /\ task \in [Task -> TaskState] /\ holder \in Task \cup {NoTask}
      /\ \A t \in Task : Shape(t) /\ LockPart(t)
  BY DEF LInv, TInv, TypeOK, TaskState
<1>4. ASSUME NEW t \in Task, NEW c \in Call, Enter(t, c), NEW u \in Task PROVE LockPart(u)'
  <2>1. /\ holder = NoTask /\ holder' = t
        /\ u # t => task'[u] = task[u] /\ task'[t].sel = FALSE
        /\ u # t => task[u].pc = "idle" /\ task[u].sel = FALSE
    BY <1>2, <1>3, <1>4 DEF Enter, LockPart, Shape, Idle
  <2>2. task'[t].sel = FALSE
    BY <1>3, <1>4 DEF Enter
  <2>3. QED
    BY <2>1, <2>2 DEF LockPart
<1>5. ASSUME NEW t \in Task, task[t].pc # "idle", holder' = holder,
             \A u \in Task \ {t} : task'[u] = task[u],
             task'[t].sel => task'[t].call.fn \in RootPort \/ index' = task'[t].call.fn,
             NEW u \in Task
      PROVE  LockPart(u)'
  <2>1. holder = t
    BY <1>3, <1>5 DEF LockPart
  <2>2. u # t => task'[u].pc = "idle" /\ task'[u].sel = FALSE
    <3>1. u # t => task[u].pc = "idle" /\ task[u].sel = FALSE
      BY <2>1, OneCaller
    <3>2. QED
      BY <1>5, <3>1
  <2>3. CASE u = t
    BY <1>5, <2>1, <2>3 DEF LockPart, Target
  <2>4. CASE u # t
    BY <2>2, <2>4 DEF LockPart
  <2>5. QED
    BY <2>3, <2>4
<1>6. ASSUME NEW t \in Task, Select(t), NEW u \in Task PROVE LockPart(u)'
  <2>1. /\ task[t].pc # "idle" /\ holder' = holder /\ \A w \in Task \ {t} : task'[w] = task[w]
        /\ task'[t].call = task[t].call
    BY <1>3, <1>6 DEF Select, TaskState
  <2>2. task'[t].call.fn \in RootPort \/ index' = task'[t].call.fn
    BY <1>6, <2>1 DEF Select
  <2>3. QED
    BY <1>5, <2>1, <2>2
<1>7. ASSUME NEW t \in Task, Unreachable(t), NEW u \in Task PROVE LockPart(u)'
  BY <1>3, <1>5, <1>7 DEF Unreachable, Done, TaskState
<1>8. ASSUME NEW t \in Task, Access(t), NEW u \in Task PROVE LockPart(u)'
  <2>1. task[t].pc # "idle"
    BY <1>3, <1>8 DEF Access, Shape
  <2>2. holder' = holder /\ task'[t].sel = FALSE /\ \A w \in Task \ {t} : task'[w] = task[w]
    BY <1>3, <1>8 DEF Access, Done, TaskState
  <2>3. QED
    BY <1>5, <2>1, <2>2
<1>10. ASSUME NEW t \in Task, SelectArea(t), NEW u \in Task PROVE LockPart(u)'
  <2>1. /\ task[t].pc # "idle" /\ holder' = holder /\ \A w \in Task \ {t} : task'[w] = task[w]
        /\ task'[t].sel = FALSE
    BY <1>3, <1>10 DEF SelectArea, TaskState, Shape
  <2>2. QED
    BY <1>5, <2>1
<1>11. ASSUME NEW t \in Task, Leave(t), NEW u \in Task PROVE LockPart(u)'
  <2>1. task[t].pc # "idle" /\ task'[t] = Idle /\ \A w \in Task \ {t} : task'[w] = task[w]
    BY <1>3, <1>11 DEF Leave, TaskState
  <2>2. u # t => task[u].pc = "idle" /\ task[u].sel = FALSE
    BY <1>3, <2>1, OneCaller DEF LockPart
  <2>3. QED
    BY <2>1, <2>2 DEF LockPart, Idle
<1>12. ASSUME (\E t \in Task : Abort(t)) \/ LinkChange \/ UNCHANGED vars, NEW u \in Task
       PROVE  LockPart(u)'
  <2>1. UNCHANGED <<index, holder, task>>
    BY <1>12 DEF Abort, LinkChange, vars
  <2>2. QED
    BY <1>3, <2>1 DEF LockPart, Target
<1>13. QED
  BY <1>1, <1>4, <1>6, <1>7, <1>8, <1>10, <1>11, <1>12 DEF Next, Step, LInv

\* A call that holds the semaphore reaches the function it names, however the link
\* moves, as long as no call goes without the semaphore.
THEOREM LockedAccess ==
    ASSUME Kinds \subseteq Locked
    PROVE  Spec => []LockedOnTarget
<1>1. Init => LInv
  BY TypeInit DEF LInv, LockPart, Init, Idle
<1>2. LInv /\ [Next]_vars => LInv'
  BY LockedStep
<1>3. LInv => LockedOnTarget
  BY DEF LInv, LockPart, LockedOnTarget
<1>4. QED
  BY <1>1, <1>2, <1>3, PTL DEF Spec

-----------------------------------------------------------------------------
(* While no link change gets between its accesses, what a call has read is *)
(* still what the register holds when it writes.                           *)

Torn(t) == t \in moved /\ task[t].call.fn \notin RootPort

Fresh(t) ==
    LET c == task[t].call
        old == Seen(regs, link, c.fn, c.reg) IN
      task[t].pc = "write" => Writes(c, old) /\ (c.kind # "write" => task[t].val = old)
AInv == LInv /\ \A t \in Task : Torn(t) \/ Fresh(t)

\* The instance's calls are the module's.
LEMMA SameCalls ==
    /\ Atomic!Bits = Bits
    /\ Atomic!Call = Call /\ Atomic!NoCall = NoCall /\ Atomic!Reset = Reset
    /\ \A l, f : Atomic!Reaches(l, f) = Reaches(l, f)
    /\ \A g, l, f, r : Atomic!Seen(g, l, f, r) = Seen(g, l, f, r)
    /\ \A c, old : Atomic!New(c, old) = New(c, old)
    /\ \A c, old : Atomic!Writes(c, old) = Writes(c, old)
    /\ \A c, old : Atomic!Answer(c, old) = Answer(c, old)
    /\ \A g, l : Atomic!Dropped(g, l) = Dropped(g, l)
    /\ \A g, f, r, v : Atomic!Stored(g, f, r, v) = Stored(g, f, r, v)
<1>1. Atomic!Bits = Bits /\ Atomic!Reg = Reg
  BY DEF Atomic!Bits, Bits, Atomic!Reg, Reg
<1>2. Atomic!Bit = Bit
  BY <1>1 DEF Atomic!Bit, Bit
<1>3. Atomic!Word = Word
  BY <1>2 DEF Atomic!Word, Word
<1>4. \A k : Atomic!RegOf(k) = RegOf(k)
  BY DEF Atomic!RegOf, RegOf
<1>5. Atomic!Call = Call
  BY <1>1, <1>3, <1>4, Zenon DEF Atomic!Call, Call
<1>6. Atomic!NoCall = NoCall
  BY DEF Atomic!NoCall, NoCall
<1>7. Atomic!Reset = Reset
  BY <1>1 DEF Atomic!Reset, Reset
<1>8. \A l, f : Atomic!Reaches(l, f) = Reaches(l, f)
  BY Zenon DEF Atomic!Reaches, Reaches
<1>9. \A g, l, f, r : Atomic!Seen(g, l, f, r) = Seen(g, l, f, r)
  BY <1>1, <1>8, Zenon DEF Atomic!Seen, Seen
<1>10. \A c, old : Atomic!New(c, old) = New(c, old)
  BY Zenon DEF Atomic!New, New
<1>11. \A c, old : Atomic!Writes(c, old) = Writes(c, old)
  BY <1>10, Zenon DEF Atomic!Writes, Writes, Atomic!IntxKinds, IntxKinds
<1>12. \A c, old : Atomic!Answer(c, old) = Answer(c, old)
  BY Zenon DEF Atomic!Answer, Answer
<1>13. \A g, f, r, v : Atomic!Stored(g, f, r, v) = Stored(g, f, r, v)
  BY <1>7, Zenon DEF Atomic!Stored, Stored
<1>14. \A g, l : Atomic!Dropped(g, l) = Dropped(g, l)
  BY <1>7, Zenon DEF Atomic!Dropped, Dropped
<1>15. QED
  BY <1>1, <1>5, <1>6, <1>7, <1>8, <1>9, <1>10, <1>11, <1>12, <1>13, <1>14, Zenon

\* A completed access finds the register as Seen says.
Found(t) == Seen(regs, link, task[t].call.fn, task[t].call.reg)
Accessed(t) ==
    /\ task[t].pc \in {"read", "write", "back"}
    /\ task' = Done(t, Value(t, Found(t))) /\ UNCHANGED <<link, moved>>
    /\ regs' = IF task[t].pc = "write" /\ Reaches(link, task[t].call.fn)
               THEN Stored(regs, task[t].call.fn, task[t].call.reg, New(task[t].call, task[t].val))
               ELSE regs

LEMMA AccessFound ==
    ASSUME LInv, NEW t \in Task, Unreachable(t) \/ Access(t)
    PROVE  Accessed(t)
<1>1. CASE Unreachable(t)
  BY <1>1 DEF Unreachable, Accessed, Found, Seen
<1>2. CASE Access(t)
  <2>1. task[t].sel /\ task[t].pc \in {"read", "write", "back"}
    BY <1>2 DEF Access, LInv, TInv, Shape
  <2>2. Target(task[t].call.fn) = task[t].call.fn
    BY <2>1 DEF LInv, LockPart
  <2>3. Found(t) = regs[task[t].call.fn][task[t].call.reg]
    BY <1>2 DEF Access, Found, Seen
  <2>4. QED
    BY <1>2, <2>1, <2>2, <2>3 DEF Access, Accessed
<1>3. QED
  BY <1>1, <1>2

LEMMA AccessCompletes ==
    ASSUME LInv, NEW t \in Task, Accessed(t)
    PROVE  /\ task[t].call \in Call
           /\ Found(t) \in SUBSET Bits[task[t].call.reg]
           /\ Completed(t, Value(t, Found(t)))
<1>1. /\ regs \in [Fn -> [Reg -> Word]] /\ TInv
      /\ \A f \in Fn, r \in Reg : regs[f][r] \subseteq Bits[r]
      /\ task[t].call \in Call
  BY DEF LInv, TInv, TypeOK, Shape, Accessed
<1>2. task[t].call.fn \in Fn /\ task[t].call.reg \in Reg
  BY <1>1, CallTypes
<1>3. Found(t) \in SUBSET Bits[task[t].call.reg]
  BY <1>1, <1>2 DEF Found, Seen
<1> DEFINE v == Value(t, Found(t))
<1>4. v \in SUBSET Bits[task[t].call.reg]
  <2> HIDE DEF Found
  <2>1. QED
    BY <1>1, <1>3, ValueType DEF Accessed
<1>5. Completed(t, v)
  <2>1. task' = Done(t, v) /\ task[t].pc \in {"read", "write", "back"}
    BY DEF Accessed
  <2> HIDE DEF v
  <2>2. QED
    BY <1>1, <1>4, <2>1, DoneStep
<1>6. QED
  BY <1>1, <1>3, <1>5

LEMMA FreshStep ==
    ASSUME Kinds \subseteq Locked, AInv, [Next]_vars, NEW u \in Task
    PROVE  (Torn(u) \/ Fresh(u))'
<1>1. /\ task \in [Task -> TaskState] /\ holder \in Task \cup {NoTask}
      /\ \A t \in Task : Shape(t) /\ LockPart(t) /\ (Torn(t) \/ Fresh(t))
      /\ LInv
  BY DEF AInv, LInv, TInv, TypeOK, TaskState
<1>2. ASSUME task'[u].pc # "write" PROVE Fresh(u)'
  BY <1>2 DEF Fresh
<1>3. ASSUME NEW t \in Task, holder = t, \A w \in Task \ {t} : task'[w] = task[w], u # t
      PROVE  Fresh(u)'
  <2>1. task[u].pc = "idle"
    BY <1>1, <1>3, OneCaller
  <2>2. QED
    BY <1>2, <1>3, <2>1
<1>4. \A t \in Task : task[t].pc # "idle" => holder = t
  BY <1>1 DEF LockPart
<1>5. ASSUME NEW t \in Task, NEW c \in Call, Enter(t, c) PROVE Fresh(u)'
  <2>1. holder = NoTask
    BY <1>5, CallTypes DEF Enter, Takes
  <2>2. CASE u # t
    <3>1. task'[u] = task[u] /\ task[u].pc = "idle"
      BY <1>1, <1>4, <1>5, <2>1, <2>2 DEF Enter
    <3>2. QED
      BY <1>2, <3>1
  <2>3. CASE u = t
    <3>1. /\ task'[t].pc = "write" => c.kind = "write"
          /\ task'[t].call = c
      BY <1>1, <1>5 DEF Enter
    <3>2. c.kind = "write" => Writes(c, (Seen(regs, link, c.fn, c.reg))')
      BY DEF Writes, IntxKinds
    <3>3. QED
      BY <2>3, <3>1, <3>2 DEF Fresh
  <2>4. QED
    BY <2>2, <2>3
<1>6. ASSUME NEW t \in Task, Select(t) PROVE (Torn(u) \/ Fresh(u))'
  <2>1. /\ task[t].pc \in {"read", "write", "back"}
        /\ \A w \in Task \ {t} : task'[w] = task[w]
        /\ task'[t].pc = task[t].pc /\ task'[t].call = task[t].call /\ task'[t].val = task[t].val
        /\ UNCHANGED <<regs, link, moved>>
    BY <1>1, <1>6 DEF Select, TaskState
  <2>2. holder = t
    BY <1>4, <2>1
  <2>3. (Torn(t) \/ Fresh(t))'
    BY <1>1, <2>1 DEF Torn, Fresh
  <2>4. QED
    BY <1>3, <2>1, <2>2, <2>3
<1>7. ASSUME NEW t \in Task, Unreachable(t) \/ Access(t) PROVE (Torn(u) \/ Fresh(u))'
  <2>1. Accessed(t)
    BY <1>1, <1>7, AccessFound
  <2>2. Completed(t, Value(t, Found(t)))
    BY <1>1, <2>1, AccessCompletes
  <2>3. holder = t
    BY <1>4, <2>1 DEF Accessed
  <2>4. CASE task[t].pc = "read"
    <3>1. /\ task'[t].call = task[t].call /\ task'[t].val = Found(t)
          /\ task'[t].pc = AfterRead(task[t].call, Found(t))
          /\ UNCHANGED <<regs, link>>
      BY <2>1, <2>2, <2>4 DEF Completed, Value, Accessed
    <3>2. Fresh(t)'
      BY <3>1 DEF Fresh, AfterRead, Found
    <3>3. QED
      BY <1>3, <2>2, <2>3, <3>2 DEF Completed
  <2>5. CASE task[t].pc # "read"
    <3>1. task'[t].pc # "write"
      BY <2>1, <2>2, <2>5 DEF Completed, Accessed, AfterWrite
    <3>2. QED
      BY <1>2, <1>3, <2>2, <2>3, <3>1 DEF Completed
  <2>6. QED
    BY <2>4, <2>5
<1>8. ASSUME NEW t \in Task, SelectArea(t) \/ Leave(t) PROVE Fresh(u)'
  <2>1. /\ task[t].pc # "idle" /\ task'[t].pc # "write"
        /\ \A w \in Task \ {t} : task'[w] = task[w]
    <3>1. CASE SelectArea(t)
      BY <1>1, <3>1 DEF SelectArea, TaskState
    <3>2. CASE Leave(t)
      BY <1>1, <3>2 DEF Leave, Idle, TaskState
    <3>3. QED
      BY <1>8, <3>1, <3>2
  <2>2. holder = t
    BY <1>4, <2>1
  <2>3. QED
    BY <1>2, <1>3, <2>1, <2>2
<1>9. ASSUME LinkChange PROVE (Torn(u) \/ Fresh(u))'
  <2>1. /\ task' = task /\ moved' = {t \in Task : task[t].pc # "idle"}
        /\ regs' = Dropped(regs, link) /\ link' = ~link
    BY <1>9 DEF LinkChange
  <2>2. CASE task[u].pc = "idle"
    BY <1>2, <2>1, <2>2
  <2>3. CASE task[u].pc # "idle" /\ task[u].call.fn \notin RootPort
    BY <2>1, <2>3 DEF Torn
  <2>4. CASE task[u].pc # "idle" /\ task[u].call.fn \in RootPort
    <3> DEFINE c == task[u].call
    <3>1. c.fn \in Fn
      BY <2>4
    <3>2. Fresh(u)
      BY <1>1, <2>4 DEF Torn
    <3>3. regs'[c.fn] = regs[c.fn]
      BY <1>1, <2>1, <2>4, <3>1 DEF Dropped, LInv, TInv, TypeOK
    <3>4. Seen(regs', link', c.fn, c.reg) = Seen(regs, link, c.fn, c.reg)
      BY <2>4, <3>3 DEF Seen, Reaches
    <3>5. QED
      BY <2>1, <3>2, <3>4 DEF Fresh
  <2>5. QED
    BY <2>2, <2>3, <2>4
<1>10. ASSUME (\E t \in Task : Abort(t)) \/ UNCHANGED vars PROVE (Torn(u) \/ Fresh(u))'
  <2>1. UNCHANGED <<regs, link, moved, task>>
    BY <1>10 DEF Abort, vars
  <2>2. QED
    BY <1>1, <2>1 DEF Torn, Fresh
<1>11. QED
  BY <1>5, <1>6, <1>7, <1>8, <1>9, <1>10 DEF Next, Step

-----------------------------------------------------------------------------
(* pci_intx keeps to its bit when no call goes without the semaphore.      *)

LEMMA IntxOnly ==
    ASSUME Kinds \subseteq Locked, AInv, [Next]_vars, NEW t \in Task
    PROVE  IntxStep(t)
<1> DEFINE c == task[t].call
<1> SUFFICES ASSUME c.kind \in IntxKinds, t \notin moved, task'[t] # task[t],
                    NEW f \in Fn
             PROVE  /\ regs'[f]["command"] \ {"intx_disable"} = regs[f]["command"] \ {"intx_disable"}
                    /\ f # c.fn => regs'[f] = regs[f]
  BY DEF IntxStep
<1>1. /\ task \in [Task -> TaskState] /\ LInv /\ Shape(t) /\ Fresh(t)
      /\ regs \in [Fn -> [Reg -> Word]]
  BY DEF AInv, LInv, TInv, TypeOK, TaskState, Torn
<1>2. CASE regs' = regs
  BY <1>2
<1>3. CASE Unreachable(t) \/ Access(t)
  <2>1. Accessed(t)
    BY <1>1, <1>3, AccessFound
  <2>2. c \in Call /\ c.reg = "command" /\ c.fn \in Fn
    BY <1>1, <2>1, AccessCompletes, CallTypes DEF IntxKinds, RegOf
  <2>3. CASE task[t].pc = "write" /\ Reaches(link, c.fn)
    <3>1. task[t].val = regs[c.fn]["command"]
      BY <1>1, <2>2, <2>3 DEF Fresh, Seen, IntxKinds
    <3> DEFINE w == New(c, task[t].val)
    <3>2. w \ {"intx_disable"} = regs[c.fn]["command"] \ {"intx_disable"}
      BY <3>1 DEF New, IntxKinds
    <3>3. "flr" \notin w
      <4>1. w \subseteq Bits[c.reg]
        BY <1>1, <2>2, NewType DEF LInv, TInv, TypeOK
      <4>2. QED
        BY <2>2, <4>1 DEF Bits
    <3>4. regs' = Stored(regs, c.fn, "command", w)
      BY <2>1, <2>2, <2>3 DEF Accessed
    <3> HIDE DEF c, w
    <3>5. regs' = [regs EXCEPT ![c.fn] = [@ EXCEPT !["command"] = w]]
      BY <3>3, <3>4 DEF Stored
    <3>6. QED
      BY <1>1, <2>2, <3>2, <3>5 DEF Reg
  <2>4. CASE ~(task[t].pc = "write" /\ Reaches(link, c.fn))
    BY <1>2, <2>1, <2>4 DEF Accessed
  <2>5. QED
    BY <2>3, <2>4
<1>4. ASSUME NEW u \in Task, u # t, Unreachable(u) \/ Access(u) PROVE FALSE
  <2>1. Accessed(u)
    BY <1>1, <1>4, AccessFound
  <2>2. Completed(u, Value(u, Found(u)))
    BY <1>1, <2>1, AccessCompletes
  <2>3. QED
    BY <1>4, <2>2 DEF Completed
<1>5. ASSUME LinkChange PROVE FALSE
  BY <1>5 DEF LinkChange
<1>6. ASSUME NEW u \in Task, Select(u) \/ SelectArea(u) \/ Leave(u) \/ Abort(u)
                             \/ \E d \in Call : Enter(u, d)
      PROVE  regs' = regs
  BY <1>6 DEF Select, SelectArea, Leave, Abort, Enter
<1>7. QED
  BY <1>2, <1>3, <1>4, <1>5, <1>6 DEF Next, Step, vars

LEMMA AtomicInit == Init => AInv
<1>1. Init => LInv
  BY TypeInit DEF LInv, LockPart, Init, Idle
<1>2. Init => \A t \in Task : Fresh(t)
  BY DEF Init, Fresh, Idle
<1>3. QED
  BY <1>1, <1>2 DEF AInv

\* pci_int.c: pci_intx changes INTX_DISABLE of its own function and nothing else as
\* long as every call takes the semaphore and the link does not change within it.
THEOREM IntxKeeps ==
    ASSUME Kinds \subseteq Locked
    PROVE  Spec => IntxKeepsOthers
<1>1. Init => AInv
  BY AtomicInit
<1>2. AInv /\ [Next]_vars => AInv'
  BY LockedStep, FreshStep DEF AInv
<1>3. AInv /\ [Next]_vars => \A t \in Task : IntxStep(t)
  BY IntxOnly
<1>4. QED
  BY <1>1, <1>2, <1>3, PTL DEF Spec, IntxKeepsOthers

-----------------------------------------------------------------------------
(* Each step is a step of ConfigSpace or leaves its variables alone.       *)

LEMMA AbsIdle == Abs(Idle) = Atomic!Idle
BY SameCalls DEF Abs, Idle, Atomic!Idle, Effected

LEMMA AbsUpdate ==
    ASSUME NEW t \in Task, \A w \in Task \ {t} : task'[w] = task[w]
    PROVE  AbsTask' = [AbsTask EXCEPT ![t] = Abs(task'[t])]
<1>1. AbsTask' = [w \in Task |-> Abs(task'[w])]
  BY DEF AbsTask, Abs, Effected
<1>2. \A w \in Task \ {t} : Abs(task'[w]) = Abs(task[w])
  OBVIOUS
<1>3. QED
  BY <1>1, <1>2 DEF AbsTask

LEMMA AbsStutter ==
    ASSUME NEW t \in Task, \A w \in Task \ {t} : task'[w] = task[w],
           Abs(task'[t]) = Abs(task[t])
    PROVE  AbsTask' = AbsTask
<1>1. AbsTask' = [AbsTask EXCEPT ![t] = Abs(task'[t])]
  BY AbsUpdate
<1>2. AbsTask[t] = Abs(task'[t])
  BY DEF AbsTask
<1>3. QED
  BY <1>1, <1>2 DEF AbsTask

\* The access a call takes effect with, having found old.
Effect(t, old) ==
    LET c == task[t].call IN
      /\ task[t].pc # "idle" /\ ~Effected(task[t])
      /\ old \in SUBSET Bits[c.reg] /\ (Torn(t) \/ old = Found(t))
      /\ regs' = IF Writes(c, old) /\ Reaches(link, c.fn)
                 THEN Stored(regs, c.fn, c.reg, New(c, old)) ELSE regs
      /\ UNCHANGED <<link, moved>>
      /\ \A w \in Task \ {t} : task'[w] = task[w]
      /\ Effected(task'[t]) /\ task'[t].call = c
      /\ c.kind = "read" => task'[t].val = old

LEMMA AbsPerform ==
    ASSUME Kinds \subseteq Locked, AInv, NEW t \in Task, NEW old, Effect(t, old)
    PROVE  Atomic!Perform(t)
<1> DEFINE c == task[t].call
<1>1. c \in Call /\ c.kind \in Locked
  BY CallTypes DEF AInv, LInv, TInv, Shape, Effect
<1>2. AbsTask[t] = [pc |-> "asked", call |-> c, ans |-> {}]
  BY DEF AbsTask, Abs, Effect
<1>3. Abs(task'[t]) = [pc |-> "answered", call |-> c, ans |-> Answer(c, old)]
  <2>1. task'[t].pc # "idle" /\ Effected(task'[t]) /\ task'[t].call = c
    BY DEF Effect, Effected
  <2>2. c.kind # "find" /\ (c.kind = "read" => task'[t].val = old)
    BY <1>1 DEF Locked, Effect
  <2> HIDE DEF c
  <2>3. QED
    BY <2>1, <2>2 DEF Abs, Answer
<1>4. AbsTask' = [AbsTask EXCEPT ![t] = Abs(task'[t])]
  BY AbsUpdate DEF Effect
<1>5. AbsTask' = [AbsTask EXCEPT ![t] = [pc |-> "answered", call |-> c, ans |-> Answer(c, old)]]
  BY <1>3, <1>4
<1>6. AbsTask[t].call = c /\ AbsTask[t].pc = "asked"
  BY <1>2
<1>7. Atomic!Torn(t) <=> Torn(t)
  BY <1>6 DEF Atomic!Torn, Torn
<1>8. old \in Atomic!Finds(t, c)
  <2>1. CASE Torn(t)
    BY <1>7, <2>1, SameCalls DEF Atomic!Finds, Effect
  <2>2. CASE ~Torn(t)
    BY <1>7, <2>2, SameCalls DEF Atomic!Finds, Effect, Found
  <2>3. QED
    BY <2>1, <2>2
<1>9. Reaches(link, c.fn) \in Atomic!Arrives(t, c)
  <2>1. link \in BOOLEAN
    BY DEF AInv, LInv, TInv, TypeOK
  <2>2. Reaches(link, c.fn) \in BOOLEAN
    BY <2>1 DEF Reaches
  <2>3. QED
    BY <2>2, SameCalls DEF Atomic!Arrives
<1>10. /\ regs' = IF Writes(c, old) /\ Reaches(link, c.fn)
                 THEN Stored(regs, c.fn, c.reg, New(c, old)) ELSE regs
       /\ UNCHANGED <<link, moved>>
  BY DEF Effect
<1>11. QED
  BY <1>5, <1>6, <1>8, <1>9, <1>10, SameCalls, Zenon DEF Atomic!Perform

LEMMA AtomicStep ==
    ASSUME Kinds \subseteq Locked, AInv, [Next]_vars
    PROVE  [Atomic!Next]_<<regs, link, moved, AbsTask>>
<1> DEFINE absvars == <<regs, link, moved, AbsTask>>
<1>1. /\ task \in [Task -> TaskState] /\ LInv
      /\ \A t \in Task : Shape(t) /\ (Torn(t) \/ Fresh(t))
      /\ \A t \in Task : task[t].val \in SUBSET Bits[task[t].call.reg]
  BY DEF AInv, LInv, TInv, TypeOK, TaskState
<1>2. ASSUME NEW t \in Task, NEW c \in Call, Enter(t, c) PROVE Atomic!Begin(t)
  <2>1. /\ task[t].pc = "idle" /\ UNCHANGED <<regs, link, moved>>
        /\ \A w \in Task \ {t} : task'[w] = task[w]
        /\ task'[t].pc \in {"read", "write", "area"} /\ task'[t].call = c
    BY <1>1, <1>2 DEF Enter
  <2>2. Abs(task'[t]) = [pc |-> "asked", call |-> c, ans |-> {}]
    BY <2>1 DEF Abs, Effected
  <2>3. AbsTask[t].pc = "idle"
    BY <2>1 DEF AbsTask, Abs
  <2>4. AbsTask' = [AbsTask EXCEPT ![t] = Abs(task'[t])]
    BY <2>1, AbsUpdate
  <2>5. QED
    BY <2>1, <2>2, <2>3, <2>4, SameCalls DEF Atomic!Begin
<1>3. ASSUME NEW t \in Task, Select(t) PROVE UNCHANGED absvars
  <2>1. /\ UNCHANGED <<regs, link, moved>> /\ \A w \in Task \ {t} : task'[w] = task[w]
        /\ task'[t].pc = task[t].pc /\ task'[t].call = task[t].call /\ task'[t].val = task[t].val
    BY <1>1, <1>3 DEF Select, TaskState
  <2>2. Abs(task'[t]) = Abs(task[t])
    BY <2>1 DEF Abs, Effected
  <2>3. QED
    BY <2>1, <2>2, AbsStutter
<1>4. ASSUME NEW t \in Task, SelectArea(t) PROVE Atomic!Perform(t)
  <2>1. /\ task[t].pc = "area" /\ \A w \in Task \ {t} : task'[w] = task[w]
        /\ task'[t].pc = "leave" /\ task'[t].call = task[t].call
        /\ UNCHANGED <<regs, link, moved>> /\ task[t].call.kind = "area"
        /\ task[t].call \in Call
    BY <1>1, <1>4 DEF SelectArea, TaskState, Shape
  <2>2. \A old : ~Writes(task[t].call, old)
    BY <2>1 DEF Writes
  <2>3. Found(t) \in SUBSET Bits[task[t].call.reg]
    BY <2>1, CallTypes DEF Found, Seen, AInv, LInv, TInv, TypeOK
  <2>4. Effect(t, Found(t))
    BY <2>1, <2>2, <2>3 DEF Effect, Effected
  <2>5. QED
    BY <2>4, AbsPerform
<1>5. ASSUME NEW t \in Task, Leave(t) PROVE Atomic!End(t)
  <2>1. /\ task[t].pc = "leave" /\ \A w \in Task \ {t} : task'[w] = task[w]
        /\ task'[t] = Idle /\ UNCHANGED <<regs, link>> /\ moved' = moved \ {t}
    BY <1>1, <1>5 DEF Leave
  <2>2. AbsTask[t].pc = "answered"
    BY <2>1 DEF AbsTask, Abs, Effected
  <2>3. AbsTask' = [AbsTask EXCEPT ![t] = Abs(task'[t])]
    BY <2>1, AbsUpdate
  <2>4. QED
    BY <2>1, <2>2, <2>3, AbsIdle DEF Atomic!End
<1>6. ASSUME NEW t \in Task, Unreachable(t) \/ Access(t)
      PROVE  Atomic!Perform(t) \/ UNCHANGED absvars
  <2> DEFINE c   == task[t].call
             old == Found(t)
             v   == Value(t, old)
  <2>1. Accessed(t)
    BY <1>1, <1>6, AccessFound
  <2>2. c \in Call /\ old \in SUBSET Bits[c.reg] /\ Completed(t, v)
    BY <1>1, <2>1, AccessCompletes
  <2>3. /\ \A w \in Task \ {t} : task'[w] = task[w]
        /\ task'[t].call = c /\ task'[t].val = v /\ UNCHANGED <<link, moved>>
    BY <2>1, <2>2 DEF Completed, Accessed
  <2>4. CASE task[t].pc = "read" /\ Writes(c, old)
    <3>1. task'[t].pc = "write" /\ regs' = regs
      BY <2>1, <2>2, <2>4 DEF Completed, AfterRead, Value, Accessed
    <3>2. Abs(task'[t]) = Abs(task[t])
      BY <2>3, <2>4, <3>1 DEF Abs, Effected
    <3>3. QED
      BY <2>3, <3>1, <3>2, AbsStutter
  <2>5. CASE task[t].pc = "read" /\ ~Writes(c, old)
    <3>1. task'[t].pc = "leave" /\ regs' = regs /\ v = old
      BY <2>1, <2>2, <2>5 DEF Completed, AfterRead, Value, Accessed
    <3> HIDE DEF v, old
    <3>2. Effect(t, old)
      BY <2>2, <2>3, <2>5, <3>1 DEF Effect, Effected, old
    <3>3. QED
      BY <3>2, AbsPerform
  <2>6. CASE task[t].pc = "write"
    <3> DEFINE was == IF Torn(t) THEN task[t].val ELSE old
    <3>1. Writes(c, was) /\ New(c, task[t].val) = New(c, was)
      BY <1>1, <2>6 DEF Fresh, New, Shape, Found
    <3>2. was \in SUBSET Bits[c.reg] /\ (Torn(t) \/ was = Found(t))
      BY <1>1, <2>2
    <3>3. task'[t].pc \in {"back", "leave"}
      BY <2>2, <2>6 DEF Completed, AfterWrite
    <3>4. c.kind # "read"
      BY <3>1 DEF Writes
    <3>5. regs' = IF Reaches(link, c.fn) THEN Stored(regs, c.fn, c.reg, New(c, was)) ELSE regs
      BY <2>1, <2>6, <3>1 DEF Accessed
    <3> HIDE DEF was, v
    <3>6. Effect(t, was)
      BY <2>3, <2>6, <3>1, <3>2, <3>3, <3>4, <3>5 DEF Effect, Effected
    <3>7. QED
      BY <3>6, AbsPerform
  <2>7. CASE task[t].pc = "back"
    <3>1. c.kind = "set_master" /\ regs' = regs /\ task'[t].pc = "leave"
      BY <1>1, <2>1, <2>2, <2>7 DEF Shape, Completed, Accessed
    <3>2. Abs(task'[t]) = Abs(task[t])
      BY <2>3, <2>7, <3>1 DEF Abs, Effected
    <3>3. QED
      BY <2>3, <3>1, <3>2, AbsStutter
  <2>8. QED
    BY <2>1, <2>4, <2>5, <2>6, <2>7 DEF Accessed
<1>7. ASSUME LinkChange PROVE Atomic!LinkChange
  <2>1. /\ link' = ~link /\ regs' = Dropped(regs, link) /\ task' = task
        /\ moved' = {t \in Task : task[t].pc # "idle"}
    BY <1>7 DEF LinkChange
  <2>2. AbsTask' = AbsTask
    BY <2>1 DEF AbsTask, Abs, Effected
  <2>3. \A t \in Task : AbsTask[t].pc = "idle" <=> task[t].pc = "idle"
    BY DEF AbsTask, Abs
  <2>4. moved' = {t \in Task : AbsTask[t].pc # "idle"}
    BY <2>1, <2>3
  <2>5. QED
    BY <2>1, <2>2, <2>4, SameCalls DEF Atomic!LinkChange
<1>8. ASSUME (\E t \in Task : Abort(t)) \/ UNCHANGED vars PROVE UNCHANGED absvars
  <2>1. UNCHANGED <<regs, link, moved, task>>
    BY <1>8 DEF Abort, vars
  <2>2. QED
    BY <2>1 DEF AbsTask, Abs, Effected
<1>9. QED
  BY <1>2, <1>3, <1>4, <1>5, <1>6, <1>7, <1>8 DEF Next, Step, Atomic!Next

\* While all calls take the semaphore every call - read-modify-writes included -
\* happens at once, for any functions and tasks; only one that a link change has got
\* into sees an arbitrary value or is dropped.
THEOREM Atomicity ==
    ASSUME Kinds \subseteq Locked
    PROVE  Spec => ImplementsConfigSpace
<1>1. Init => AInv
  BY AtomicInit
<1>2. AInv /\ [Next]_vars => AInv'
  BY LockedStep, FreshStep DEF AInv
<1>3. Init => Atomic!Init
  BY SameCalls, AbsIdle DEF Init, Atomic!Init, AbsTask
<1>4. AInv /\ [Next]_vars => [Atomic!Next]_<<regs, link, moved, AbsTask>>
  BY AtomicStep
<1>5. QED
  BY <1>1, <1>2, <1>3, <1>4, PTL DEF Spec, Atomic!Spec, ImplementsConfigSpace
=============================================================================
