---------------------------- MODULE MCPcieConfig ----------------------------
(* Instances of PcieConfig for TLC.                                         *)
EXTENDS PcieConfig, TLC

\* The calls under the semaphore, and those that also run without it.
Serial == {"read", "write", "set_master", "detach", "area"}
IntxAndMaster == {"set_master", "mask", "unmask"}
ReadAndSearch == {"read", "msi_enable", "find", "flr"}
=============================================================================
