--------------------------- MODULE MCPcDiagnostics ---------------------------
(* Instances of PcDiagnostics for TLC. *)
EXTENDS PcDiagnostics

CONSTANTS f, t1, t2, d1
===============================================================================
