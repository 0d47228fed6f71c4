--------------------------- MODULE MCPcieLibrary ---------------------------
(* OpenPci and PcieLibrary for TLC: the constants are in the configurations. *)
EXTENDS OpenPci
=============================================================================
