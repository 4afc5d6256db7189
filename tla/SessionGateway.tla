--------------------------- MODULE SessionGateway ---------------------------
(***************************************************************************)
(* The controller's VNC session gateway (controller/internal/api/          *)
(* vnc_proxy): VncProxy.Proxy opening one session per request, the peer's *)
(* single teardown primitive peer.Close, the disconnect callback           *)
(* onPeerDisconnect, the registry VncProxy.peer guarded by the read-write  *)
(* mutex peerSync, and the keep-alive ClientMgr (ping.go) that pings the   *)
(* client sockets.                                                         *)
(*                                                                         *)
(* A request is one Proxy call and owns one peer, so a peer is named by    *)
(* its request.  Every call of peer.Close runs on its own goroutine and is *)
(* a "close thread" <<peer, origin>>: "client" is the client WebSocket's   *)
(* OnClose callback (fromWhich 1), "backend" is the nbio engine's OnClose  *)
(* for a raw VNC connection (fromWhich 2) or the guacd pump seeing EOF     *)
(* (fromWhich -1), and "dup" is the call Proxy itself makes when the       *)
(* registry already holds the user (fromWhich 0).                          *)
(***************************************************************************)
EXTENDS Integers, FiniteSets

CONSTANTS
    Users,           \* identifiers (user.Identifier()) that open sessions
    Requests,        \* concurrent Proxy calls; each owns one peer
    UserOf,          \* the user a request is authenticated as
    ModeOf,          \* "raw" (noVNC over TCP 5910) or "guac" (guacd 4822)
    CloseWaitLimit,  \* the 50 of peer.Close's wait-for-ready loop
    NoPeer           \* the empty registry slot / the free lock

ASSUME /\ UserOf \in [Requests -> Users]
       /\ ModeOf \in [Requests -> {"raw", "guac"}]
       /\ CloseWaitLimit \in Nat
       /\ NoPeer \notin Requests

Origins == {"client", "backend", "dup"}
Threads == Requests \X Origins

ProxyStates == {"validate", "upgrade", "alloc", "dialVnc", "lfsx", "dialGuac",
                "setConn", "insert", "handshake", "respond", "dupClose",
                "ok", "fail"}
CloseStates == {"idle", "check", "store", "wait", "teardown", "disconnect",
                "done"}

VARIABLES
    pc,          \* where each Proxy call is
    ready,       \* peer.ready
    closed,      \* peer.closed
    wsOpen,      \* the client VNC WebSocket is open
    backendOpen, \* the TCP connection to VNC or guacd is open
    lfsxOpen,    \* the peer's lfsxPeer exists and is not closed
    pumping,     \* the guacd -> WebSocket pump goroutine runs
    registry,    \* VncProxy.peer: user identifier -> peer
    regLock,     \* the writer holding peerSync, or NoPeer
    cpc,         \* where each close thread is
    waits,       \* the loop counter i of peer.Close's wait for ready
    teardowns,   \* how many close threads got past the closed flag
    released,    \* a teardown reached onDisconnect with the connections set
    kept         \* the client sockets in pingPongMgr.clients

vars == <<pc, ready, closed, wsOpen, backendOpen, lfsxOpen, pumping,
          registry, regLock, cpc, waits, teardowns, released, kept>>

TypeOK ==
    /\ pc \in [Requests -> ProxyStates]
    /\ ready \in [Requests -> BOOLEAN]
    /\ closed \in [Requests -> BOOLEAN]
    /\ wsOpen \in [Requests -> BOOLEAN]
    /\ backendOpen \in [Requests -> BOOLEAN]
    /\ lfsxOpen \in [Requests -> BOOLEAN]
    /\ pumping \in [Requests -> BOOLEAN]
    /\ registry \in [Users -> Requests \cup {NoPeer}]
    /\ regLock \in Requests \cup {NoPeer}
    /\ cpc \in [Threads -> CloseStates]
    /\ waits \in [Threads -> 0..(CloseWaitLimit + 1)]
    /\ teardowns \in [Requests -> 0..Cardinality(Origins)]
    /\ released \in [Requests -> BOOLEAN]
    /\ kept \subseteq Requests

Init ==
    /\ pc = [r \in Requests |-> "validate"]
    /\ ready = [r \in Requests |-> FALSE]
    /\ closed = [r \in Requests |-> FALSE]
    /\ wsOpen = [r \in Requests |-> FALSE]
    /\ backendOpen = [r \in Requests |-> FALSE]
    /\ lfsxOpen = [r \in Requests |-> FALSE]
    /\ pumping = [r \in Requests |-> FALSE]
    /\ registry = [u \in Users |-> NoPeer]
    /\ regLock = NoPeer
    /\ cpc = [t \in Threads |-> "idle"]
    /\ waits = [t \in Threads |-> 0]
    /\ teardowns = [r \in Requests |-> 0]
    /\ released = [r \in Requests |-> FALSE]
    /\ kept = {}

Goto(r, s) == pc' = [pc EXCEPT ![r] = s]

\* ClientMgr.Add and ClientMgr.Delete on the set of kept client sockets
\* (each under cm.mux, so each is one step of its caller).
ClientMgrAdd(c) == kept' = kept \cup {c}
ClientMgrDelete(c) == kept' = kept \ {c}

\* Start the close goroutines of S that have not run yet (each callback
\* fires once per connection).
Spawn(S) == cpc' = [t \in Threads |->
                      IF t \in S /\ cpc[t] = "idle" THEN "check" ELSE cpc[t]]

\* The fromWhich argument each close thread passes to peer.Close.
FromWhich(t) ==
    CASE t[2] = "client" -> 1
      [] t[2] = "dup" -> 0
      [] t[2] = "backend" -> IF ModeOf[t[1]] = "raw" THEN 2 ELSE -1

-----------------------------------------------------------------------------
(* VncProxy.Proxy, one action per step between two blocking calls.         *)

\* validateUserRequest: IsUserConnected under the read lock; 409 if the
\* identifier is registered.
Validate(r) ==
    /\ pc[r] = "validate"
    /\ regLock = NoPeer
    /\ \/ registry[UserOf[r]] = NoPeer /\ Goto(r, "upgrade")
       \/ registry[UserOf[r]] # NoPeer /\ Goto(r, "fail")
    /\ UNCHANGED <<ready, closed, wsOpen, backendOpen, lfsxOpen, pumping,
                   registry, regLock, cpc, waits, teardowns, released>>
    /\ UNCHANGED kept

\* NewPeer, the upgrade to a WebSocket, its deadline, pingPongMgr.Add and the
\* OnClose callback that calls peer.Close(err, 1).
Upgrade(r) ==
    /\ pc[r] = "upgrade"
    /\ \/ /\ Goto(r, "alloc")
          /\ wsOpen' = [wsOpen EXCEPT ![r] = TRUE]
          /\ ClientMgrAdd(r)
       \/ Goto(r, "fail") /\ UNCHANGED <<wsOpen, kept>>
    /\ UNCHANGED <<ready, closed, backendOpen, lfsxOpen, pumping,
                   registry, regLock, cpc, waits, teardowns, released>>

\* getVncAddress (kuber.GetPodByUser, which may time out) and the address
\* parse; an error returns from Proxy with the WebSocket left open.
GetVncAddress(r) ==
    /\ pc[r] = "alloc"
    /\ \/ Goto(r, IF ModeOf[r] = "raw" THEN "dialVnc" ELSE "lfsx")
       \/ Goto(r, "fail")
    /\ UNCHANGED <<ready, closed, wsOpen, backendOpen, lfsxOpen, pumping,
                   registry, regLock, cpc, waits, teardowns, released>>
    /\ UNCHANGED kept

\* A dial of the backend (nbio.DialTimeout and engine.AddConn for VNC,
\* net.Dial for guacd): an open connection, or an error that returns from
\* Proxy.
Dial(r, next) ==
    \/ Goto(r, next) /\ backendOpen' = [backendOpen EXCEPT ![r] = TRUE]
    \/ Goto(r, "fail") /\ UNCHANGED backendOpen

\* connectToVnc and SetSession(peer): from here the engine's OnClose finds
\* the peer.
ConnectToVnc(r) ==
    /\ pc[r] = "dialVnc"
    /\ Dial(r, "lfsx")
    /\ UNCHANGED <<ready, closed, wsOpen, lfsxOpen, pumping,
                   registry, regLock, cpc, waits, teardowns, released>>
    /\ UNCHANGED kept

\* getHTTPProxy, applyVncSettings, NewLfsxPeer and the LfsStartup wait; a
\* failure of the control peer is logged and the call goes on.
NewLfsxPeer(r) ==
    /\ pc[r] = "lfsx"
    /\ \E ok \in BOOLEAN : lfsxOpen' = [lfsxOpen EXCEPT ![r] = ok]
    /\ Goto(r, IF ModeOf[r] = "raw" THEN "setConn" ELSE "dialGuac")
    /\ UNCHANGED <<ready, closed, wsOpen, backendOpen, pumping,
                   registry, regLock, cpc, waits, teardowns, released>>
    /\ UNCHANGED kept

\* connectToGuacamole.
ConnectToGuacamole(r) ==
    /\ pc[r] = "dialGuac"
    /\ Dial(r, "setConn")
    /\ UNCHANGED <<ready, closed, wsOpen, lfsxOpen, pumping,
                   registry, regLock, cpc, waits, teardowns, released>>
    /\ UNCHANGED kept

\* Variant with a slip: SetConnections stores the connections but forgets
\* p.ready.Store(true).
SetConnectionsNoReady(r) ==
    /\ pc[r] = "setConn"
    /\ Goto(r, "insert")
    /\ UNCHANGED <<ready, closed, wsOpen, backendOpen, lfsxOpen, pumping,
                   registry, regLock, cpc, waits, teardowns, released>>
    /\ UNCHANGED kept

\* peer.SetConnections: the connections are stored and ready latches.
SetConnections(r) ==
    /\ pc[r] = "setConn"
    /\ ready' = [ready EXCEPT ![r] = TRUE]
    /\ Goto(r, "insert")
    /\ UNCHANGED <<closed, wsOpen, backendOpen, lfsxOpen, pumping,
                   registry, regLock, cpc, waits, teardowns, released>>
    /\ UNCHANGED kept

\* peerSync.Lock (released by the deferred Unlock when Proxy returns), then
\* insert if absent; on a collision peer.Close(USER_ALREADY_EXISTS, 0) runs
\* on this goroutine while the lock is held.
InsertPeer(r) ==
    /\ pc[r] = "insert"
    /\ regLock = NoPeer
    /\ regLock' = r
    /\ \/ /\ registry[UserOf[r]] = NoPeer
          /\ registry' = [registry EXCEPT ![UserOf[r]] = r]
          /\ Goto(r, IF ModeOf[r] = "guac" THEN "handshake" ELSE "respond")
          /\ UNCHANGED cpc
       \/ /\ registry[UserOf[r]] # NoPeer
          /\ Goto(r, "dupClose")
          /\ Spawn({<<r, "dup">>})
          /\ UNCHANGED registry
    /\ UNCHANGED <<ready, closed, wsOpen, backendOpen, lfsxOpen, pumping,
                   waits, teardowns, released>>
    /\ UNCHANGED kept

\* peer.proxyGuacamole, still under peerSync: the handshake with guacd and,
\* if it succeeds, the pump goroutine.  A failed handshake is only logged.
ProxyGuacamole(r) ==
    /\ pc[r] = "handshake"
    /\ \E ok \in BOOLEAN : pumping' = [pumping EXCEPT ![r] = ok]
    /\ Goto(r, "respond")
    /\ UNCHANGED <<ready, closed, wsOpen, backendOpen, lfsxOpen,
                   registry, regLock, cpc, waits, teardowns, released>>
    /\ UNCHANGED kept

\* Proxy returns nil; the deferred Unlock releases peerSync.
Respond(r) ==
    /\ pc[r] = "respond"
    /\ regLock' = NoPeer
    /\ Goto(r, "ok")
    /\ UNCHANGED <<ready, closed, wsOpen, backendOpen, lfsxOpen, pumping,
                   registry, cpc, waits, teardowns, released>>
    /\ UNCHANGED kept

\* After the inline peer.Close returns, Proxy returns 409 and unlocks.  A
\* guac duplicate's Close panics on the nil target instead: the deferred
\* Unlock runs while the panic unwinds and the router's recovery answers
\* 500, the same release of peerSync and failed return.
DupRespond(r) ==
    /\ pc[r] = "dupClose"
    /\ cpc[<<r, "dup">>] = "done"
    /\ regLock' = NoPeer
    /\ Goto(r, "fail")
    /\ UNCHANGED <<ready, closed, wsOpen, backendOpen, lfsxOpen, pumping,
                   registry, cpc, waits, teardowns, released>>
    /\ UNCHANGED kept

-----------------------------------------------------------------------------
(* Connections ending on their own.                                        *)

\* The client closes the VNC WebSocket (or the keep-alive evicts it): its
\* OnClose calls peer.Close(err, 1).
ClientOnClose(r) ==
    /\ wsOpen[r]
    /\ wsOpen' = [wsOpen EXCEPT ![r] = FALSE]
    /\ Spawn({<<r, "client">>})
    /\ UNCHANGED <<pc, ready, closed, backendOpen, lfsxOpen, pumping,
                   registry, regLock, waits, teardowns, released>>
    /\ UNCHANGED kept

\* The VNC backend drops the raw TCP connection: onEngineClose calls
\* peer.Close(err, 2).
EngineOnClose(r) ==
    /\ ModeOf[r] = "raw"
    /\ backendOpen[r]
    /\ backendOpen' = [backendOpen EXCEPT ![r] = FALSE]
    /\ Spawn({<<r, "backend">>})
    /\ UNCHANGED <<pc, ready, closed, wsOpen, lfsxOpen, pumping,
                   registry, regLock, waits, teardowns, released>>
    /\ UNCHANGED kept

\* guacd closes the stream: the pump's ReadSome returns EOF and calls
\* peer.Close(err, -1).
GuacReadEOF(r) ==
    /\ ModeOf[r] = "guac"
    /\ pumping[r]
    /\ backendOpen[r]
    /\ backendOpen' = [backendOpen EXCEPT ![r] = FALSE]
    /\ pumping' = [pumping EXCEPT ![r] = FALSE]
    /\ Spawn({<<r, "backend">>})
    /\ UNCHANGED <<pc, ready, closed, wsOpen, lfsxOpen,
                   registry, regLock, waits, teardowns, released>>
    /\ UNCHANGED kept

-----------------------------------------------------------------------------
(* peer.Close(err, fromWhich), one action per step of one goroutine.       *)

\* if p.closed.Load() { return }
CloseCheck(t) ==
    /\ cpc[t] = "check"
    /\ \/ closed[t[1]] /\ cpc' = [cpc EXCEPT ![t] = "done"]
       \/ ~closed[t[1]] /\ cpc' = [cpc EXCEPT ![t] = "store"]
    /\ UNCHANGED <<pc, ready, closed, wsOpen, backendOpen, lfsxOpen, pumping,
                   registry, regLock, waits, teardowns, released>>
    /\ UNCHANGED kept

\* else { p.closed.Store(true) }: a separate atomic operation.
CloseStore(t) ==
    /\ cpc[t] = "store"
    /\ closed' = [closed EXCEPT ![t[1]] = TRUE]
    /\ cpc' = [cpc EXCEPT ![t] = "wait"]
    /\ UNCHANGED <<pc, ready, wsOpen, backendOpen, lfsxOpen, pumping,
                   registry, regLock, waits, teardowns, released>>
    /\ UNCHANGED kept

\* Variant with a slip: the wait loop without its "if i > 50 break".
CloseWaitUnbounded(t) ==
    /\ cpc[t] = "wait"
    /\ \/ ready[t[1]] /\ cpc' = [cpc EXCEPT ![t] = "teardown"] /\ UNCHANGED waits
       \/ ~ready[t[1]] /\ waits' = [waits EXCEPT ![t] = @ + 1] /\ UNCHANGED cpc
    /\ UNCHANGED <<pc, ready, closed, wsOpen, backendOpen, lfsxOpen, pumping,
                   registry, regLock, teardowns, released>>
    /\ UNCHANGED kept

\* The wait for ready: sleep 400 ms, give up once i > 50, else i++.
CloseWait(t) ==
    /\ cpc[t] = "wait"
    /\ \/ /\ ready[t[1]]
          /\ cpc' = [cpc EXCEPT ![t] = "teardown"]
          /\ UNCHANGED waits
       \/ /\ ~ready[t[1]]
          /\ waits[t] > CloseWaitLimit
          /\ cpc' = [cpc EXCEPT ![t] = "teardown"]
          /\ UNCHANGED waits
       \/ /\ ~ready[t[1]]
          /\ waits[t] <= CloseWaitLimit
          /\ waits' = [waits EXCEPT ![t] = @ + 1]
          /\ UNCHANGED cpc
    /\ UNCHANGED <<pc, ready, closed, wsOpen, backendOpen, lfsxOpen, pumping,
                   registry, regLock, teardowns, released>>
    /\ UNCHANGED kept

\* Variant with a slip: the target guarded by fromWhich != 1 (copied from
\* the source's guard) instead of != 2.
CloseTeardownWrongGuard(t) ==
    LET p == t[1]
        closeSource == ready[p] /\ FromWhich(t) # 1
        closeTarget == ready[p] /\ FromWhich(t) # 1
    IN
    /\ cpc[t] = "teardown"
    /\ lfsxOpen' = [lfsxOpen EXCEPT ![p] = FALSE]
    /\ wsOpen' = [wsOpen EXCEPT ![p] = @ /\ ~closeSource]
    /\ backendOpen' = [backendOpen EXCEPT ![p] = @ /\ ~closeTarget]
    /\ teardowns' = [teardowns EXCEPT ![p] = @ + 1]
    /\ released' = [released EXCEPT ![p] = @ \/ ready[p]]
    /\ cpc' = [cpc EXCEPT ![t] = "disconnect"]
    /\ UNCHANGED <<pc, ready, closed, pumping, registry, regLock, waits>>
    /\ UNCHANGED kept

\* proxyGuacamole's first statement, p.guacamole.Used = true, runs after the
\* insert (it is the ProxyGuacamole step); Close reads it unsynchronised.
GuacUsed(p) == ModeOf[p] = "guac" /\ pc[p] \in {"respond", "ok"}

\* Close the lfsxPeer if set, the client WebSocket unless fromWhich = 1 and
\* the backend connection unless fromWhich = 2.  source, target and
\* targetGuacamole are non-nil only once SetConnections ran.  Closing a
\* connection fires its own OnClose, which starts that close thread.
\* A guac peer's target is the net.Conn interface holding Proxy's nil
\* *nbio.Conn, so "p.target != nil" holds; until Used is set, line 178
\* calls Close on the nil connection and the goroutine panics: guacd stays
\* open and onDisconnect does not run.
CloseTeardown(t) ==
    LET p == t[1]
        closeSource == ready[p] /\ FromWhich(t) # 1
        closeTarget == ready[p] /\ FromWhich(t) # 2
        nilTarget == closeTarget /\ ModeOf[p] = "guac" /\ ~GuacUsed(p)
        fired == (IF closeSource /\ wsOpen[p] THEN {<<p, "client">>} ELSE {})
                 \cup
                 (IF closeTarget /\ backendOpen[p] /\ ModeOf[p] = "raw"
                  THEN {<<p, "backend">>} ELSE {})
    IN
    /\ cpc[t] = "teardown"
    /\ lfsxOpen' = [lfsxOpen EXCEPT ![p] = FALSE]
    /\ wsOpen' = [wsOpen EXCEPT ![p] = @ /\ ~closeSource]
    /\ teardowns' = [teardowns EXCEPT ![p] = @ + 1]
    /\ \/ /\ ~nilTarget
          /\ backendOpen' = [backendOpen EXCEPT ![p] = @ /\ ~closeTarget]
          /\ released' = [released EXCEPT ![p] = @ \/ ready[p]]
       \/ /\ nilTarget
          /\ UNCHANGED <<backendOpen, released>>
    /\ cpc' = [s \in Threads |->
                 IF s = t THEN (IF nilTarget THEN "done" ELSE "disconnect")
                 ELSE IF s \in fired /\ cpc[s] = "idle" THEN "check"
                 ELSE cpc[s]]
    /\ UNCHANGED <<pc, ready, closed, pumping, registry, regLock, waits>>
    /\ UNCHANGED kept

\* Variant with a slip: the keep-alive entry removed is that of the peer
\* registered for the identifier, like the registry delete below.
OnPeerDisconnectByUser(t) ==
    /\ cpc[t] = "disconnect"
    /\ regLock = NoPeer
    /\ IF registry[UserOf[t[1]]] # NoPeer
       THEN ClientMgrDelete(registry[UserOf[t[1]]]) ELSE UNCHANGED kept
    /\ registry' = [registry EXCEPT ![UserOf[t[1]]] = NoPeer]
    /\ cpc' = [cpc EXCEPT ![t] = "done"]
    /\ UNCHANGED <<pc, ready, closed, wsOpen, backendOpen, lfsxOpen, pumping,
                   regLock, waits, teardowns, released>>

\* p.onDisconnect = VncProxy.onPeerDisconnect: pingPongMgr.Delete(peer.source),
\* a no-op while source is nil (SetConnections not run), then peerSync.Lock
\* and delete(vnc.peer, identifier) whatever peer is there.
OnPeerDisconnect(t) ==
    /\ cpc[t] = "disconnect"
    /\ regLock = NoPeer
    /\ IF ready[t[1]] THEN ClientMgrDelete(t[1]) ELSE UNCHANGED kept
    /\ registry' = [registry EXCEPT ![UserOf[t[1]]] = NoPeer]
    /\ cpc' = [cpc EXCEPT ![t] = "done"]
    /\ UNCHANGED <<pc, ready, closed, wsOpen, backendOpen, lfsxOpen, pumping,
                   regLock, waits, teardowns, released>>

-----------------------------------------------------------------------------
(* ClientMgr (ping.go): the keep-alive sweep started by NewVncProxy.       *)

\* A tick of Run, under cm.mux, writes a ping to every kept socket; the
\* write fails on a closed one and starts a goroutine that calls con.Close()
\* and, only if Close returned an error, cm.Delete(con).  The socket is
\* already closed, so Close has no other effect, and the sweep goroutine
\* and the Close goroutine are one step here.  Whether nbio's Close of a
\* closed connection reports an error is up to the library: when it does
\* not, the step changes nothing and the socket stays kept.
SweepEvict(r) ==
    /\ r \in kept
    /\ ~wsOpen[r]
    /\ ClientMgrDelete(r)
    /\ UNCHANGED <<pc, ready, closed, wsOpen, backendOpen, lfsxOpen, pumping,
                   registry, regLock, cpc, waits, teardowns, released>>

-----------------------------------------------------------------------------

ProxyStep(r) ==
    \/ Validate(r) \/ Upgrade(r) \/ GetVncAddress(r) \/ ConnectToVnc(r)
    \/ NewLfsxPeer(r) \/ ConnectToGuacamole(r) \/ SetConnections(r)
    \/ InsertPeer(r) \/ ProxyGuacamole(r) \/ Respond(r) \/ DupRespond(r)

CloseStep(t) ==
    \/ CloseCheck(t) \/ CloseStore(t) \/ CloseWait(t) \/ CloseTeardown(t)
    \/ OnPeerDisconnect(t)

Next ==
    \/ \E r \in Requests : ProxyStep(r)
    \/ \E r \in Requests : ClientOnClose(r) \/ EngineOnClose(r) \/ GuacReadEOF(r)
    \/ \E t \in Threads : CloseStep(t)
    \/ \E r \in Requests : SweepEvict(r)

Spec == Init /\ [][Next]_vars

\* Every goroutine of the gateway is scheduled (weak fairness); the client
\* and the backend closing are the environment and need not happen.
FairSpec == Spec /\ \A r \in Requests : WF_vars(ProxyStep(r))
                 /\ \A t \in Threads : WF_vars(CloseStep(t))

-----------------------------------------------------------------------------
(* Properties.                                                             *)

\* The registry seen through SessionRegistry: a peer is connected once
\* SetConnections latched ready, closing once its closed flag is stored, and
\* admitted once Proxy got past a successful insert.
Registry == INSTANCE SessionRegistry WITH
    slot <- registry,
    connected <- {r \in Requests : ready[r]},
    admitted <- {r \in Requests : pc[r] \in {"handshake", "respond", "ok"}},
    closing <- {r \in Requests : closed[r]}

\* Proxy, peer.Close and onPeerDisconnect together implement the registry's
\* promise: a session is registered only after SetConnections, only into an
\* empty slot and once, and an entry is removed only by the disconnect of a
\* closed session of the same user.
RegistryRefinement == Registry!Spec

\* A request is live when Proxy returned success and its peer is not closed.
Live(r) == pc[r] = "ok" /\ ~closed[r]

\* The keep-alive of ping.go pings the client socket of every live
\* session while the socket is open: Proxy adds the socket before anything
\* can fail, and onPeerDisconnect deletes the closing peer's own source,
\* although the registry delete next to it goes by user identifier.  A
\* second request of the user that failed does not take the live
\* session's socket off the keep-alive (which would let its 15 s read
\* deadline end the session).
KeepAliveCoversLive == \A r \in Requests : Live(r) /\ wsOpen[r] => r \in kept

\* A close of the peer is under way: a goroutine got past the closed flag
\* and has not finished onPeerDisconnect.
ClosePending(p) ==
    \E o \in Origins : cpc[<<p, o>>] \in {"store", "wait", "teardown", "disconnect"}

\* peer.Close's fromWhich protocol: each origin skips only the side that has
\* already gone, so once a teardown ran through to onDisconnect with the
\* connections set, the client WebSocket, the backend connection and the
\* control peer are all closed.  (A guac teardown that panics on the nil
\* target before Used is set never gets there; it leaves guacd open.)
TeardownReleasesAll ==
    \A p \in Requests :
        released[p] => ~wsOpen[p] /\ ~backendOpen[p] /\ ~lfsxOpen[p]

\* Spec 4.6: no registry entry outlives its session.  A registered peer is
\* either open or being closed (its onPeerDisconnect is still to run).
NoZombieEntry ==
    \A u \in Users :
        registry[u] # NoPeer => ~closed[registry[u]] \/ ClosePending(registry[u])

\* Spec 4.6: an entry is removed only by its own session's disconnect
\* callback, so a live session stays registered (and validateUserRequest
\* keeps refusing a second session of the user, spec 8 law 1).
LiveStaysRegistered ==
    \A r \in Requests : Live(r) => registry[UserOf[r]] = r

\* Spec 8, law 5: Close is idempotent; however often and from wherever it is
\* called, one call per peer gets past the closed flag and tears down.
CloseOnce == \A p \in Requests : teardowns[p] <= 1

\* Spec 4.1 step 9: every Proxy call returns, with success or an error such
\* as USER_ALREADY_EXISTS (409).
RequestsReturn == \A r \in Requests : <>(pc[r] \in {"ok", "fail"})

=============================================================================
