--------------------------- MODULE MC_ControlPeer ---------------------------
(* An instance of ControlPeer: one drop of the LFS.X connection, which may *)
(* start two reconnect threads, so three connections are enough; two      *)
(* client sockets attached one after the other.                           *)
EXTENDS ControlPeer, TLC


MCConns == 1..3
MCClients == 1..2
MCOneClient == 1..1
=============================================================================
