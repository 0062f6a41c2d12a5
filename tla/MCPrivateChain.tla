---------------------------- MODULE MCPrivateChain ----------------------------
(* A supplier, a carrier, two warehouses and a supermarket.  The routes:   *)
(* by way of a warehouse; with the same node assigned to the other one;    *)
(* without a warehouse, so that one may be put before a Supermarket that   *)
(* is done; a draft with a stage after the Supermarket; and a draft that   *)
(* is no path.                                                             *)
EXTENDS PrivateChain, TLC

CONSTANTS supplier, carrier, warehouse, depot, shop  \* accounts
CONSTANTS s1, l1, w1, m1                             \* nodes
CONSTANTS stored, moved, direct, draft, broken       \* routes

MCUsers == {supplier, carrier, warehouse, depot, shop}
MCRoleOf == [u \in MCUsers |->
    CASE u = supplier -> "supplier" [] u = carrier -> "logistics"
      [] u = shop -> "supermarket" [] OTHER -> "warehouse"]

At(n, u) == [node |-> n, user |-> u]
MCRoutes == {stored, moved, direct, draft, broken}
MCStagesOf == [r \in MCRoutes |->
    LET S == At(s1, supplier) M == At(m1, shop)
    IN  CASE r = stored -> <<S, At(w1, warehouse), M>>
          [] r = moved -> <<S, At(w1, depot), M>>
          [] r = direct -> <<S, M>>
          [] r = draft -> <<S, M, At(l1, carrier)>>
          [] r = broken -> <<>>]

Workers == Permutations(Threads)
=============================================================================
