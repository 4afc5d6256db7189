--------------------------- MODULE MC_PodAllocator ---------------------------
(* Instances of PodAllocator: two requests, either of two distinct users or *)
(* of one user, and a warm pool of two placeholders.                        *)
EXTENDS PodAllocator, TLC

CONSTANTS u1, u2, r1, r2

MCUsers == {u1, u2}
MCRequests == {r1, r2}
DistinctUserOf == (r1 :> u1) @@ (r2 :> u2)
SameUserOf == [r \in MCRequests |-> u1]
=============================================================================
