----------------------------- MODULE SharedBus -----------------------------
(***************************************************************************)
(* What bcmpcie.library promises its clients (developer-guide.md, Opening  *)
(* the Library): opens are reference-counted and all of them share one     *)
(* initialised bus, up from the first open to the last close.              *)
(***************************************************************************)
CONSTANT Task

VARIABLES users,    \* the tasks that have the library open
          up        \* the bus is initialised

Init == users = {} /\ up = FALSE

Open(t) ==
    /\ t \notin users
    /\ users' = users \cup {t}
    /\ up' = TRUE

Close(t) ==
    /\ t \in users
    /\ users' = users \ {t}
    /\ up' = (users' # {})

Next == \E t \in Task : Open(t) \/ Close(t)

Spec == Init /\ [][Next]_<<users, up>>
=============================================================================
