--------------------------- MODULE MCSyncPipeline ----------------------------
(***************************************************************************)
(* Small instances of SyncPipeline.  Contents only differ from each other, *)
(* so they are interchangeable; sources are ordered, so they are not.      *)
(***************************************************************************)
EXTENDS SyncPipeline, TLC

CONSTANTS p1, p2, old, new

MCOneProc == {p1}
MCTwoProcs == {p1, p2}
MCRetrier == {p2}
MCContent == {old, new}

MCOneContent == {new}

MCContents == Permutations(MCContent)
MCSymmetry == Permutations(MCContent) \cup Permutations(MCTwoProcs)
==============================================================================
