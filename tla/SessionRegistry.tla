--------------------------- MODULE SessionRegistry --------------------------
(***************************************************************************)
(* What the gateway's session registry (VncProxy.peer) promises, without  *)
(* goroutines or locks: one slot per user identifier.  A session enters   *)
(* its user's slot only once its connections are set, only into an empty *)
(* slot, and at most once.  A slot is emptied only by the disconnect of a *)
(* closed session of the same user (not necessarily the one in the slot: *)
(* onPeerDisconnect deletes by identifier).                               *)
(***************************************************************************)
CONSTANTS Users, Requests, UserOf, NoPeer

VARIABLES
    slot,       \* user -> the registered session, or NoPeer
    connected,  \* sessions whose connections are set
    admitted,   \* sessions that were ever registered
    closing     \* sessions whose close has begun

vars == <<slot, connected, admitted, closing>>

Init ==
    /\ slot = [u \in Users |-> NoPeer]
    /\ connected = {}
    /\ admitted = {}
    /\ closing = {}

Connect(r) ==
    /\ r \notin connected
    /\ connected' = connected \cup {r}
    /\ UNCHANGED <<slot, admitted, closing>>

Register(r) ==
    /\ r \in connected \ admitted
    /\ slot[UserOf[r]] = NoPeer
    /\ slot' = [slot EXCEPT ![UserOf[r]] = r]
    /\ admitted' = admitted \cup {r}
    /\ UNCHANGED <<connected, closing>>

Close(r) ==
    /\ r \notin closing
    /\ closing' = closing \cup {r}
    /\ UNCHANGED <<slot, connected, admitted>>

Release(r) ==
    /\ r \in closing
    /\ slot' = [slot EXCEPT ![UserOf[r]] = NoPeer]
    /\ UNCHANGED <<connected, admitted, closing>>

Next == \E r \in Requests : Connect(r) \/ Register(r) \/ Close(r) \/ Release(r)

Spec == Init /\ [][Next]_vars

=============================================================================
