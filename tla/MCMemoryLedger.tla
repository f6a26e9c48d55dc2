---------------------------- MODULE MCMemoryLedger ----------------------------
(***************************************************************************)
(* Two sessions whose turns may append at the same time, two facts and a   *)
(* process that dies once.                                                 *)
(***************************************************************************)
EXTENDS MemoryLedger
=============================================================================
