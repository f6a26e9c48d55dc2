---------------------------- MODULE MCConversation ----------------------------
(***************************************************************************)
(* A window of four messages, which holds a round of tool calls with its   *)
(* results, and a tail of one, so that two turns compact, close and        *)
(* overflow.  A turn ends with its answer or in the middle of its calls;   *)
(* one without calls is the shorter case of the first.                     *)
(***************************************************************************)
EXTENDS Conversation

TurnShapes == {Tooled, Cut}

\* Every list of at most four messages of two turns: what the code computes with a loop
\* is what Conversation says of the places of the list.
Lists == UNION {[1 .. n -> [of : 1 .. 2, role : Range(Tooled)]] : n \in 0 .. 4}

\* the loop of find_first_legal_idx
Scan(acc, m) ==
  IF acc.found THEN acc
  ELSE IF m.role = "user" THEN [acc EXCEPT !.start = acc.at, !.found = TRUE]
  ELSE IF IsTool(m) /\ ~ \E id \in acc.called : Answers(m, id)
       THEN [at |-> acc.at + 1, start |-> acc.at + 1, called |-> {}, found |-> FALSE]
  ELSE [acc EXCEPT !.at = @ + 1, !.called = @ \cup Calls(m)]
Scanned(h) == FoldLeft(Scan, [at |-> 1, start |-> 1, called |-> {}, found |-> FALSE], h).start

\* the loops of _repair_orphan_tool_call and _remove_orphan_tool_result
Rebuilt(h) ==
  LET filler(m) == SelectSeq(<<Placeholder(m, 1), Placeholder(m, 2)>>,
                             LAMBDA p : \E id \in Lost(h) \cap Calls(m) : Answers(p, id))
      filled == FlattenSeq([i \in DOMAIN h |-> <<h[i]>> \o filler(h[i])])
      stays(i) == IsTool(filled[i]) => Called(filled, 1, i)
  IN FlattenSeq([i \in DOMAIN filled |-> IF stays(i) THEN <<filled[i]>> ELSE <<>>])

ASSUME LoopsAsPlaces ==
  \A h \in Lists : /\ FirstLegal(h) = Scanned(h)
                   /\ Listed(h, Standing(h, Filled(h))) = Rebuilt(h)
=============================================================================
