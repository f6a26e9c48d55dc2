---------------------------- MODULE MCGuardedCalls ----------------------------
(***************************************************************************)
(* Tasks that share one limiter, a read-only tool and the tool of one MCP  *)
(* server.                                                                 *)
(***************************************************************************)
EXTENDS GuardedCalls, TLC

CONSTANTS a, b, page, remote

MCCaller == {a, b}
MCBuiltIn == {page}
MCRemote == {remote}
MCSizes == {1, 2, 4}
MCSymmetry == Permutations(MCCaller)
==============================================================================
