------------------------------- MODULE MCStore -------------------------------
(* An instance of Store for TLC, in which every operation of a publish may fail. *)
EXTENDS Store

PublishFaults == Steps
===============================================================================
