------------------------------ MODULE OpenPci ------------------------------
(***************************************************************************)
(* openpci.library (openpci_main.c, openpci_trampolines.S) in front of      *)
(* bcmpcie.library: its first open opens bcmpcie.library, its last close    *)
(* closes it, and its trampolines jump through bcmBase.  Its LibOpen and    *)
(* LibClose run under the Forbid of exec, take no semaphore, and break the  *)
(* Forbid when bcmpcie.library makes them wait.  A task of PcieLibrary      *)
(* stands for one reference to bcmpcie.library: those of Ref are the shim's. *)
(***************************************************************************)
EXTENDS PcieLibrary, FiniteSets

CONSTANTS User,     \* the tasks that open openpci.library, once at a time each
          Ref,      \* the references the shim may come to hold
          None,     \* bcmBase = NULL
          Overlap   \* may an open or close begin while another one waits?

ASSUME ShimAssumption == Ref \subseteq Task /\ None \notin Task /\ Overlap \in BOOLEAN

VARIABLES
    shim,       \* the base of openpci.library: "resident" or "freed"
    shimCnt,    \* its lib_OpenCnt
    shimDelexp, \* its LIBF_DELEXP
    bcmBase,    \* the reference it holds
    user,       \* user[u]: "out", "opening", "open", "call" or "closing"; "lost" holds a
                \* base that has been freed, and what it does with it is undefined
    ref         \* ref[u]: the reference whose open or close u waits for

shimVars == <<shim, shimCnt, shimDelexp, bcmBase, user, ref>>

ShimInit ==
    /\ Init
    /\ shim = "resident" /\ shimCnt = 0 /\ shimDelexp = FALSE /\ bcmBase = None
    /\ user = [u \in User |-> "out"] /\ ref = [u \in User |-> None]

Waits(u) == user[u] \in {"opening", "closing"}
MayEnter == CpuFree /\ (Overlap \/ \A u \in User : ~Waits(u))
At(u, where) == user' = [user EXCEPT ![u] = where]

\* Mutant of NeedsBcm: every open opens bcmpcie.library.
NeedsBcmAlways == TRUE

\* if (!base->bcmBase)
NeedsBcm == bcmBase = None

\* LibOpen, loaded again if need be: up to the call of OpenLibrary, or to its end.
ShimOpen(u) ==
    /\ user[u] = "out" /\ MayEnter
    /\ shim = "freed" => \A w \in User : user[w] \in {"out", "lost"}
    /\ shim' = "resident"
    /\ \/ /\ NeedsBcm
          /\ \E r \in Ref : OpenLibrary(r) /\ ref' = [ref EXCEPT ![u] = r]
          /\ At(u, "opening")
          /\ UNCHANGED <<shimCnt, shimDelexp, bcmBase>>
       \/ /\ ~NeedsBcm
          /\ shimCnt' = shimCnt + 1 /\ shimDelexp' = FALSE /\ At(u, "open")
          /\ UNCHANGED <<vars, bcmBase, ref>>

\* OpenLibrary returns the base of bcmpcie.library; the rest of LibOpen.
Attach(u) ==
    /\ Count(ref[u])
    /\ IF shim = "resident"
       THEN /\ bcmBase' = ref[u] /\ shimCnt' = shimCnt + 1 /\ shimDelexp' = FALSE
            /\ At(u, "open")
       ELSE At(u, "lost") /\ UNCHANGED <<shimCnt, shimDelexp, bcmBase>>
    /\ ref' = [ref EXCEPT ![u] = None] /\ UNCHANGED shim

\* OpenLibrary returns NULL, and so does LibOpen.
Refuse(u) ==
    /\ InitFails(ref[u])
    /\ bcmBase' = IF shim = "resident" THEN None ELSE bcmBase
    /\ At(u, "out") /\ ref' = [ref EXCEPT ![u] = None]
    /\ UNCHANGED <<shim, shimCnt, shimDelexp>>

\* LibClose behind CloseLibrary(bcmBase), cnt being the count it finds then.
Detach(u, cnt) ==
    /\ ref' = [ref EXCEPT ![u] = None]
    /\ IF shim = "resident"
       THEN /\ bcmBase' = None /\ At(u, "out")
            /\ shim' = IF shimDelexp /\ cnt = 0 THEN "freed" ELSE shim
            /\ shimDelexp' = (shimDelexp /\ cnt # 0)
       ELSE At(u, "lost") /\ UNCHANGED <<shim, shimDelexp, bcmBase>>

\* CloseLibrary of the reference in bcmBase; if that one is already being closed, of one
\* more than the shim has, which a free name stands for.
Releases(u) ==
    \/ bcmBase = None /\ Detach(u, 0) /\ UNCHANGED vars
    \/ /\ bcmBase # None /\ pc[bcmBase] = "open" /\ CloseLibrary(bcmBase)
       /\ IF sem = <<>> THEN Detach(u, 0)
          ELSE /\ At(u, "closing") /\ ref' = [ref EXCEPT ![u] = bcmBase]
               /\ UNCHANGED <<shim, shimDelexp, bcmBase>>
    \/ /\ bcmBase # None /\ pc[bcmBase] = "leave"
       /\ \E r \in Ref : /\ pc[r] = "out" /\ pc' = [pc EXCEPT ![r] = "leave"]
                         /\ sem' = Append(sem, r) /\ ref' = [ref EXCEPT ![u] = r]
       /\ At(u, "closing")
       /\ UNCHANGED <<shim, shimDelexp, bcmBase, base, openCnt, delexp, ready, held, opens>>

\* Mutant of LastUser: the reference is given up while one task still has the shim open.
LastUserEarly == shimCnt <= 2

\* lib_OpenCnt == 0, once decremented.
LastUser == shimCnt = 1

\* LibClose.
ShimClose(u) ==
    /\ user[u] = "open" /\ MayEnter
    /\ shimCnt' = shimCnt - 1
    /\ \/ LastUser /\ Releases(u)
       \/ ~LastUser /\ At(u, "out") /\ UNCHANGED <<vars, shim, shimDelexp, bcmBase, ref>>

\* A trampoline, and the return of the function it jumps to.  In such a call the task has
\* nothing of the shim but its place in the queue for bcmpcie.library's semaphore; that
\* place is the reference's here, so two users call one after the other.  Calls that wait
\* behind one another are the direct clients'.
ShimCall(u) ==
    /\ user[u] = "open" /\ bcmBase # None /\ Call(bcmBase)
    /\ At(u, "call") /\ UNCHANGED <<shim, shimCnt, shimDelexp, bcmBase, ref>>

ShimReturn(u) ==
    /\ user[u] = "call" /\ bcmBase # None /\ Return(bcmBase)
    /\ At(u, "open") /\ UNCHANGED <<shim, shimCnt, shimDelexp, bcmBase, ref>>

\* lib_OpenCnt > 0
ShimInUse == shimCnt > 0

\* LibExpunge; it does not look whether a LibOpen or LibClose waits in this base.
ShimExpunge ==
    /\ shim = "resident" /\ \A t \in Task : pc[t] \in Switched \cup Allocating
    /\ IF ShimInUse THEN shimDelexp' = TRUE /\ UNCHANGED <<shim, bcmBase>>
                      ELSE shim' = "freed" /\ shimDelexp' = FALSE /\ bcmBase' = None
    /\ UNCHANGED <<vars, shimCnt, user, ref>>

\* bcmpcie.library goes on for a reference of the shim.
Progresses(u) ==
    \/ user[u] = "opening" /\ (EnterOpen(ref[u]) \/ InitStep(ref[u])) /\ UNCHANGED shimVars
    \/ user[u] = "opening" /\ (Attach(u) \/ Refuse(u))
    \/ user[u] = "closing" /\ EnterClose(ref[u]) /\ Detach(u, shimCnt) /\ UNCHANGED shimCnt
    \/ ShimReturn(u)

\* The clients that open bcmpcie.library themselves.
Direct == /\ \/ \E t \in Task \ Ref : OpenLibrary(t) \/ Call(t) \/ Step(t)
             \/ Expunge
          /\ UNCHANGED shimVars

ShimNext == \/ \E u \in User : ShimOpen(u) \/ ShimClose(u) \/ ShimCall(u) \/ Progresses(u)
            \/ ShimExpunge \/ Direct

ShimSpec == ShimInit /\ [][ShimNext]_<<vars, shimVars>>

\* What PcieLibrary assumes of the library's own steps.
Continues(t) == Step(t) /\ ~CloseLibrary(t) /\ UNCHANGED shimVars
ShimFairSpec == /\ ShimSpec
                /\ \A t \in Task \ Ref : WF_<<vars, shimVars>>(Continues(t))
                /\ \A u \in User : WF_<<vars, shimVars>>(Progresses(u))

-----------------------------------------------------------------------------
(* Properties.                                                             *)

\* openpci_main.c:165-169, "Each naked stub loads bcmBase from offset 38 in the
\* OpenPCIBase (a6) and jumps to the matching LVO in bcmpcie.library": for every task
\* that has openpci.library open, bcmBase is an open bcmpcie.library.
ShimServed ==
    \A u \in User : user[u] \in {"open", "call"} =>
        shim = "resident" /\ bcmBase \in Clients /\ base = "resident"

\* openpci_main.c:118-147: the count is that of the tasks that have the shim open, and it
\* stays in memory for them, however opens, closes and expunges overlap.
ShimCounted ==
    LET using == {u \in User : user[u] \in {"open", "call"}}
    IN shimCnt = Cardinality(using) /\ (using # {} => shim = "resident")

\* When no open or close waits, the count is that of the tasks that have the shim open,
\* and the shim has one reference to bcmpcie.library while there are any, else none: no
\* reference leaks.  An expunge may take the base from under a call that waits.
OneReference ==
    (\A u \in User : user[u] \in {"out", "open", "call"}) =>
        /\ shimCnt = Cardinality({u \in User : user[u] # "out"})
        /\ bcmBase = None <=> shimCnt = 0
        /\ {r \in Ref : pc[r] # "out"} = {bcmBase} \ {None}
=============================================================================
