--------------------------- MODULE MCDomainRules ---------------------------
(* One app, one domain, two rule ids; p and q match the domain, bad does   *)
(* not compile.                                                            *)
EXTENDS DomainRules

CONSTANTS a, d, p, q, bad

MCMatches == {<<p, d>>, <<q, d>>}

Pair(x, y) == [i \in {0, 1} |-> IF i = 0 THEN x ELSE y]
MCRulesFiles == {<<>>, [i \in {0} |-> p], [i \in {0} |-> bad], Pair(p, q), Pair(bad, p)}

MCRulesPayloads ==
  {[ids |-> ids, fresh |-> fresh] :
     ids \in {<<>>, [i \in {0} |-> q], [i \in {1} |-> p], Pair(q, p)},
     fresh \in {{}, {p}}}

MCPolicyPayloads ==
  {<< {}, {}, {}, {} >>, << {d}, {}, {0}, {} >>, << {}, {d}, {}, {0} >>,
   << {}, {}, {0, 1}, {0} >>, << {}, {}, {1}, {0} >>}
=============================================================================
