-------------------------- MODULE MCWikiMaintenance --------------------------
(***************************************************************************)
(* Two pages that name two sources and link to each other, room for a      *)
(* third, and suggestions that merge, split, rewrite and delete.           *)
(***************************************************************************)
EXTENDS WikiMaintenance

CONSTANTS a, b, c, s1, s2, src1, src2

MCStart == {<<"page", a>>, <<"index", a>>, <<"section", a, s1>>, <<"source", a, src1>>,
            <<"link", a, b>>,
            <<"page", b>>, <<"index", b>>, <<"section", b, s2>>, <<"source", b, src2>>}
MCAnswers == {<<[in |-> {a, b}, out |-> {c}], [in |-> {a}, out |-> {a}]>>,
              <<[in |-> {a}, out |-> {a, c}], [in |-> {b}, out |-> {}]>>,
              <<[in |-> {b}, out |-> {}], [in |-> {a, b}, out |-> {a}]>>,
              <<[in |-> {b}, out |-> {c}]>>}
MCCompiled == {<<c, s2, src2>>}
MCTargets == {{a}, {a, b}}
==============================================================================
