------------------------------ MODULE MCJobQueue -----------------------------
(***************************************************************************)
(* A small instance of JobQueue: one worker handles both kinds, the other  *)
(* only one, as two processes that registered different handlers.          *)
(***************************************************************************)
EXTENDS JobQueue, TLC

CONSTANTS w1, w2, compile, rescan, r1, r2, k1, anything

MCWorker == {w1, w2}
MCKind == {compile, rescan}
MCRegistered == (w1 :> {compile, rescan}) @@ (w2 :> {rescan})
MCResource == {r1, r2}
MCKey == {k1}
MCPayload == {anything}
==============================================================================
