--------------------------- MODULE MCStoreInspector ---------------------------
(* Instances, for TLC, of Store with the offline inspector beside the server. *)
EXTENDS StoreInspector

CONSTANTS r1, r2

(* Every operation before the manifest rename may fail, and so may a deletion  *)
(* of the janitor.                                                             *)
PreCommitFaults == (Steps \ PostCommit) \cup {"remove"}
===============================================================================
