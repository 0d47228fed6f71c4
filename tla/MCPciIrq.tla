------------------------------ MODULE MCPciIrq ------------------------------
(* Instances of PciIrq for TLC: devices "x" (MSI-X) and "m" (MSI).        *)
EXTENDS PciIrq, TLC

\* Two devices that share the pool and the INTx line.
TwoDev      == {"x", "m"}
TwoMsix     == "x" :> 2 @@ "m" :> 0
TwoMsi      == "x" :> 0 @@ "m" :> 2
TwoMaskable == "x" :> FALSE @@ "m" :> FALSE
TwoMaskOpt  == "x" :> FALSE @@ "m" :> TRUE
OneLine     == {"INTA"}
TwoLine     == "x" :> "INTA" @@ "m" :> "INTA"
TwoNoLine   == "x" :> "no_line" @@ "m" :> "no_line"

Req(lo, hi, fl) == [min |-> lo, max |-> hi, flags |-> fl]
AnyType  == {"MSIX", "MSI", "INTX"}
OneEach  == {Req(1, 1, {"MSIX", "MSI"})}
OneOrBlock == {Req(1, 1, {"MSIX"}), Req(2, 2, {"MSI"})}
RaiseAll == {<<"x", 0>>, <<"m", 0>>}

\* Two devices compete for four slots: requests that fit, fall back and fail.
PoolMsix == "x" :> 3 @@ "m" :> 0
PoolMsi  == "x" :> 1 @@ "m" :> 4
PoolReq  == {Req(0, 9, AnyType), Req(2, 3, {"MSIX", "MSI"}), Req(1, 2, {"MSI"}),
             Req(3, 2, AnyType), Req(1, 1, {"MSIX"}), Req(4, 4, {"MSIX"})}

\* One device with two vectors.
MDev    == {"m"}
MMsix   == "m" :> 0
MMsi    == "m" :> 2
MMask   == "m" :> TRUE
MLine   == "m" :> "INTA"
MTwoOrIntx == {Req(2, 2, {"MSI"}), Req(1, 1, {"INTX"})}
MRaise  == {<<"m", 0>>, <<"m", 1>>}
NoRaise == {}
=============================================================================
