------------------------------ MODULE Allocator ------------------------------
(* What conmem::allocate and conmem::deallocate promise their callers: a   *)
(* piece of memory that overlaps no other piece in use, until it is given  *)
(* back.  Where the memory comes from is nobody's business.                *)
EXTENDS Naturals

CONSTANTS Addresses, Sizes

VARIABLE live  \* the pieces in use

Piece == [at : Addresses, size : Sizes]
Bytes(o) == o.at .. o.at + o.size - 1
Overlap(o, p) == Bytes(o) \cap Bytes(p) # {}

Init == live = {}

Allocate(o) ==
    /\ \A p \in live : ~Overlap(o, p)
    /\ live' = live \cup {o}

Deallocate(o) == o \in live /\ live' = live \ {o}

Spec == Init /\ [][\E o \in Piece : Allocate(o) \/ Deallocate(o)]_live
=============================================================================
