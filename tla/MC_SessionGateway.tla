------------------------- MODULE MC_SessionGateway -------------------------
(* Instances of SessionGateway for TLC: one user identifier and two       *)
(* concurrent Proxy calls for it, as a reconnecting browser or two tabs    *)
(* produce.                                                                *)
EXTENDS SessionGateway, TLC

CONSTANTS u1, r1, r2

\* Two calls, one raw noVNC and one Guacamole.
TwoUsers == {u1}
TwoRequests == {r1, r2}
TwoUserOf == [r \in TwoRequests |-> u1]
TwoModeOf == (r1 :> "raw") @@ (r2 :> "guac")
=============================================================================
