---------------------------- MODULE LinkTraining ----------------------------
(***************************************************************************)
(* pciauto_exp_fixup_link: the link behind a port is retrained by hand at   *)
(* 2.5 GT/s when training it has not come to an end.  A port is described   *)
(* by what its registers answer: [able, stuck, full, slow], where able says *)
(* that it is a port with a Link Control 2 register and more than one       *)
(* speed, stuck that the link is reported as changed and not active, and    *)
(* full and slow are the values of LNKSTA that the polling loop reads at    *)
(* the preferred speed and at 2.5 GT/s until it ends: [active, training].   *)
(***************************************************************************)
EXTENDS Naturals, Sequences

\* A loop reads LNKSTA at least once and ends at the first sample that is active.
Polled(s) ==
    /\ s \in Seq([active : BOOLEAN, training : BOOLEAN]) /\ s # <<>>
    /\ \A i \in 1 .. Len(s) - 1 : ~s[i].active

\* Mutant of Stable: a link that is quiet in the last sample passes.
StableOnce(s) == s[Len(s)].active \/ ~s[Len(s)].training

\* pciauto_exp_link_stable: ntrcount is the length of the last run without training.
Stable(s) ==
    LET ntrcount[i \in 0 .. Len(s)] ==
            IF i = 0 THEN 0 ELSE IF s[i].training THEN 0 ELSE ntrcount[i - 1] + 1
    IN s[Len(s)].active \/ ntrcount[Len(s)] >= Len(s) \div 2

Broken(port) == port.able /\ port.stuck /\ ~Stable(port.full)

\* The speed pciauto_exp_fixup_link leaves in the port's Target Link Speed.
Speed(port) == IF Broken(port) /\ Stable(port.slow) THEN "2.5" ELSE "preferred"

\* pci_auto.c: the link works if it is active in the end, or if training has shown the
\* completed status continuously throughout the second half of the period.
Works(s) == \/ \E i \in 1 .. Len(s) : s[i].active
            \/ \A i \in Len(s) - Len(s) \div 2 + 1 .. Len(s) : ~s[i].training
=============================================================================
