---------------------------- MODULE MCWorkflowRoute ----------------------------
(* One batch and two routes that differ in nodes and in edges: the route   *)
(* every database starts with, and a draft on which the transport stage    *)
(* has been given to another account and cut off.                          *)
EXTENDS WorkflowRoute, TLC

CONSTANTS b1, template, s1, t1, m1, farmer, driver, carrier, shop, p1

At(n, u, role) == [node |-> n, user |-> u, role |-> role]
Ends == {At(s1, farmer, "supplier"), At(m1, shop, "supermarket")}

Linked == [nodes |-> Ends \cup {At(t1, driver, "logistics")}, edges |-> {<<s1, t1>>, <<t1, m1>>}]
Draft == [nodes |-> Ends \cup {At(t1, carrier, "logistics")}, edges |-> {<<s1, m1>>}]

MCRoutes == {Linked, Draft}
MCLegacy == [role \in Roles |-> IF role = "supermarket" THEN {"face"} ELSE {}]
MCSelections == {{"handwritten"}}
=============================================================================
