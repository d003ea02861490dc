------------------------------- MODULE MCPlan -------------------------------
(***************************************************************************)
(* Four issues; priority off, and on with the newer pair first.            *)
(***************************************************************************)
EXTENDS PlanCheck

MCIssues == 1 .. 4
MCRanks  == {[n \in MCIssues |-> 0], [n \in MCIssues |-> IF n <= 2 THEN 1 ELSE 0]}
MCOrders == {<<1, 2, 3, 4>>, <<4, 3, 2, 1>>, <<3, 1, 4, 2>>}

=============================================================================
