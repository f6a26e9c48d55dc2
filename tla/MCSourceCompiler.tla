--------------------------- MODULE MCSourceCompiler ---------------------------
(***************************************************************************)
(* Three page names and two sources; the wiki is empty, or holds one page, *)
(* or two with the same text.                                              *)
(***************************************************************************)
EXTENDS SourceCompiler

CONSTANTS s1, s2

Old(links) == [links |-> links, related |-> links, sources |-> {s1}]
MCStartWikis ==
  {[pages |-> <<>>, index |-> {}],
   [pages |-> <<Old({})>>, index |-> {1}],
   [pages |-> <<Old({2}), Old({2})>>, index |-> {1, 2}]}
MCLinkSets == {{}, {1}, {2}, {3}}
MCSource == {s1, s2}
==============================================================================
