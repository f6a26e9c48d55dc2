--------------------------- MODULE MCIssueLedger ----------------------------
(***************************************************************************)
(* One source that can fail at two stages, one page, one correction, and   *)
(* one process constructed beside the owner.                               *)
(***************************************************************************)
EXTENDS IssueLedger
=============================================================================
