------------------------------ MODULE MCAgentLoop -----------------------------
(* Instances of AgentLoop for TLC.  The rows are chosen so that replies    *)
(* file a product, a supplier, a record without ids, or nothing.           *)
EXTENDS AgentLoop

CONSTANTS p1, s1, d1

ARow(p, s, named, d) ==
  [product_id |-> p, supplier_id |-> s, supplier_name |-> named, detail |-> d]

MCReplies == {<<>>,
              <<ARow(p1, s1, TRUE, d1)>>,
              <<ARow(None, None, FALSE, d1)>>}
===============================================================================
