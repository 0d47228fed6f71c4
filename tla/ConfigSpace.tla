----------------------------- MODULE ConfigSpace -----------------------------
(***************************************************************************)
(* What a driver expects of configuration access: each call reads, updates *)
(* or rewrites the register of the function it names in one step, and      *)
(* nothing else.  A function that cannot be reached reads as all ones and  *)
(* ignores writes.  A call that the link changes under may see any value   *)
(* and may be dropped, but it too does its own update to its own register. *)
(* PcieConfig implements this for the calls under the library semaphore.   *)
(***************************************************************************)
EXTENDS ConfigCalls

VARIABLES regs,     \* regs[f][r]: the bits set in register r of function f
          link,     \* the PCIe link is up
          moved,    \* the tasks that have been in their call while the link changed
          task      \* task[t]: the call t has made, and its answer

Idle == [pc |-> "idle", call |-> NoCall, ans |-> {}]

Init ==
    /\ regs = [f \in Fn |-> Reset]
    /\ link \in BOOLEAN
    /\ moved = {}
    /\ task = [t \in Task |-> Idle]

Begin(t) ==
    /\ task[t].pc = "idle"
    /\ UNCHANGED <<regs, link, moved>>
    /\ \E c \in Call : task' = [task EXCEPT ![t] = [pc |-> "asked", call |-> c, ans |-> {}]]

\* The link is of no concern to a function on bus 0.
Torn(t) == t \in moved /\ task[t].call.fn \notin RootPort

\* What the call may find in the register, and whether its write may get there.
Finds(t, c)  == IF Torn(t) THEN SUBSET Bits[c.reg] ELSE {Seen(regs, link, c.fn, c.reg)}
Arrives(t, c) == IF Torn(t) THEN BOOLEAN ELSE {Reaches(link, c.fn)}

\* The whole effect of the call.
Perform(t) ==
    LET c == task[t].call IN
      /\ task[t].pc = "asked"
      /\ \E old \in Finds(t, c), arrives \in Arrives(t, c) :
            /\ regs' = IF Writes(c, old) /\ arrives
                       THEN Stored(regs, c.fn, c.reg, New(c, old)) ELSE regs
            /\ task' = [task EXCEPT ![t] = [pc |-> "answered", call |-> c, ans |-> Answer(c, old)]]
      /\ UNCHANGED <<link, moved>>

End(t) ==
    /\ task[t].pc = "answered"
    /\ task' = [task EXCEPT ![t] = Idle]
    /\ moved' = moved \ {t}
    /\ UNCHANGED <<regs, link>>

LinkChange ==
    /\ link' = ~link
    /\ regs' = Dropped(regs, link)
    /\ moved' = {t \in Task : task[t].pc # "idle"}
    /\ UNCHANGED task

Next == \/ \E t \in Task : Begin(t) \/ Perform(t) \/ End(t)
        \/ LinkChange

Spec == Init /\ [][Next]_<<regs, link, moved, task>>
=============================================================================
