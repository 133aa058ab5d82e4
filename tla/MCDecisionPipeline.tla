------------------------- MODULE MCDecisionPipeline -------------------------
(* One mail whose facts may be complete, poor or contradictory, two         *)
(* operators and stores with evidence for both.                             *)
EXTENDS DecisionPipeline

MCNames == {"acme", "pump"}
MCKindOf == [n \in MCNames |-> IF n = "acme" THEN "customer" ELSE "group"]
MCTypes == {"quote", "general"}

Row(how, key, id, user, score) ==
    [how |-> how, key |-> key, id |-> id, user |-> user, score |-> score]

MCSources == {Row("exact", "sender", "m2", "u2", 100),
              Row("rule", "quote", "r1", "u1", 95),
              Row("capability", "pump", "c1", "u1", 99),
              Row("similar", "text", "s1", "u1", 60),
              Row("similar", "broad", "s2", "u2", 70)}

MCCapabilities == {<<"u1", "acme">>, <<"u1", "pump">>, <<"u1", "quote">>, <<"u2", "acme">>}

Found1(names, types, contradictory) ==
    [names |-> names, types |-> types, actions |-> FALSE, contradictory |-> contradictory]

MCGrounded == Found1({"acme"}, {}, FALSE)
MCExtracts == {Found1({"pump"}, {"quote"}, FALSE), Found1({"pump"}, {}, FALSE), Found1({}, {}, TRUE)}

MCPolicies == {[threshold |-> 8200, margin |-> 1500, confidence |-> 78],
               [threshold |-> 5000, margin |-> 0, confidence |-> 78]}
=============================================================================
