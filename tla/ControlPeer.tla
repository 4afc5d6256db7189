----------------------------- MODULE ControlPeer -----------------------------
(***************************************************************************)
(* The control peer lfsxPeer (controller/internal/api/vnc_proxy/           *)
(* peer_lfsx.go): the bridge between the browser's control WebSocket     *)
(* (source) and the LFS.X WebSocket in the pod (target).                  *)
(*                                                                         *)
(* Every LFS.X connection is a number from Conns, in dial order.  When    *)
(* one closes, the nbio upgrader calls tryToReconnectToLfsx from its      *)
(* close handler (on a close frame) and from OnClose.  Each call, and     *)
(* the goroutine it starts, is a reconnect thread <<conn, callback>>.  A  *)
(* failed connectToLfsxSocket calls tryToReconnectToLfsx again, which is  *)
(* the same thread going round once more.                                 *)
(*                                                                         *)
(* Client sockets are numbered in attach order (ProxyHostWebsocket).      *)
(* lfsxPeer.Close is called from the root peer's Close.                   *)
(***************************************************************************)
EXTENDS Integers, FiniteSets

CONSTANTS
    Conns,         \* LFS.X connections 1..N in dial order
    Clients,       \* client control sockets 1..M in attach order
    DialAttempts,  \* the 13 dials of connectToLfsxSocket's loop
    MaxDrops,      \* how often the LFS.X side may drop a connection
    MaxMsgs,       \* bound on the messages that reach notifyForUpdates
    Nil            \* a nil *websocket.Conn / a free mutex

ASSUME /\ Conns = 1..Cardinality(Conns)
       /\ Clients = 1..Cardinality(Clients)
       /\ DialAttempts \in Nat \ {0}
       /\ Nil \notin Conns \cup Clients

Callbacks == {"handler", "onclose"}
\* peer.Close can run twice (its closed flag is not a compare-and-swap), and
\* each run calls lfsxPeer.Close.
CloseCalls == {"close1", "close2"}
Threads == Conns \X Callbacks
\* OnTargetMessage as a holder of targetSync (a pair, like the threads).
TgtHolder == <<0, "tgtMsg">>

VARIABLES
    target,       \* p.target
    tOpen,        \* which LFS.X connections are open
    dialed,       \* LFS.X connections dialled so far
    drops,        \* LFS.X side closes so far
    tLock,        \* holder of targetSync: a thread, a Close call, or Nil
    sLock,        \* holder of sourceSync: a Close call or Nil
    rpc,          \* where each reconnect thread is
    att,          \* the loop counter i of connectToLfsxSocket
    intentional,  \* p.wasIntentiallyClosed
    ctxDone,      \* p.baseContext is canceled
    closePc,      \* where each lfsxPeer.Close call is
    source,       \* p.source
    cState,       \* each client socket: "none", "open", "closing", "closed"
    latest,       \* the client attached last, or Nil
    spc,          \* OnSourceMessage: "idle", or "write" holding sourceSync
    tpc,          \* OnTargetMessage: "idle", or "write" holding targetSync
    nilWrite,     \* a handler called WriteMessage on a nil connection
    notified,     \* notifier goroutines started by notifyForUpdates
    login         \* the login request: "pending", "sent", "lost", "skipped"

lfsx == <<target, tOpen, dialed, drops, tLock, rpc, att>>
client == <<source, cState, latest>>
msg == <<spc, tpc, nilWrite, notified, login>>
vars == <<lfsx, sLock, intentional, ctxDone, closePc, client, msg>>

TypeOK ==
    /\ target \in Conns \cup {Nil}
    /\ tOpen \in [Conns -> BOOLEAN]
    /\ dialed \in 1..Cardinality(Conns)
    /\ drops \in 0..MaxDrops
    /\ tLock \in Threads \cup {TgtHolder} \cup CloseCalls \cup {Nil}
    /\ sLock \in CloseCalls \cup {"srcMsg", Nil}
    /\ rpc \in [Threads -> {"idle", "check", "nil", "sleep", "lock", "dial", "done"}]
    /\ att \in [Threads -> 0..(DialAttempts - 1)]
    /\ intentional \in BOOLEAN
    /\ ctxDone \in BOOLEAN
    /\ closePc \in [CloseCalls -> {"idle", "lockT", "done"}]
    /\ source \in Clients \cup {Nil}
    /\ cState \in [Clients -> {"none", "open", "closing", "closed"}]
    /\ latest \in Clients \cup {Nil}
    /\ spc \in {"idle", "write"} /\ tpc \in {"idle", "write"}
    /\ nilWrite \in BOOLEAN
    /\ notified \in 0..MaxMsgs
    /\ login \in {"pending", "sent", "lost", "skipped"}

\* NewLfsxPeer returned: connectToLfsxSocket dialled connection 1.
Init ==
    /\ target = 1
    /\ tOpen = [c \in Conns |-> c = 1]
    /\ dialed = 1
    /\ drops = 0
    /\ tLock = Nil
    /\ sLock = Nil
    /\ rpc = [t \in Threads |-> "idle"]
    /\ att = [t \in Threads |-> 0]
    /\ intentional = FALSE
    /\ ctxDone = FALSE
    /\ closePc = [k \in CloseCalls |-> "idle"]
    /\ source = Nil
    /\ cState = [w \in Clients |-> "none"]
    /\ latest = Nil
    /\ spc = "idle" /\ tpc = "idle"
    /\ nilWrite = FALSE
    /\ notified = 0
    /\ login = "pending"

GotoR(t, s) == rpc' = [rpc EXCEPT ![t] = s]

\* The callbacks a closing LFS.X connection fires: OnClose always, the
\* close handler too when a close frame arrived.
Fire(c, graceful) ==
    rpc' = [t \in Threads |->
              IF t[1] = c /\ (t[2] = "onclose" \/ graceful) /\ rpc[t] = "idle"
              THEN "check" ELSE rpc[t]]

-----------------------------------------------------------------------------
(* tryToReconnectToLfsx and its goroutine, one action per step.            *)

\* if p.wasIntentiallyClosed.Load(): do not reconnect.
ReconnectCheck(t) ==
    /\ rpc[t] = "check"
    /\ GotoR(t, IF intentional THEN "done" ELSE "nil")
    /\ UNCHANGED <<target, tOpen, dialed, drops, tLock, att, sLock,
                   intentional, ctxDone, closePc, client>>
    /\ UNCHANGED msg

\* Variant with a slip: the Unlock after p.target = nil is missing.
ReconnectNilKeepLock(t) ==
    /\ rpc[t] = "nil"
    /\ tLock = Nil
    /\ target' = Nil
    /\ tLock' = t
    /\ GotoR(t, "sleep")
    /\ UNCHANGED <<tOpen, dialed, drops, att, sLock,
                   intentional, ctxDone, closePc, client>>
    /\ UNCHANGED msg

\* targetSync.Lock(); p.target = nil; Unlock(); then start the goroutine.
ReconnectNil(t) ==
    /\ rpc[t] = "nil"
    /\ tLock = Nil
    /\ target' = Nil
    /\ GotoR(t, "sleep")
    /\ UNCHANGED <<tOpen, dialed, drops, tLock, att, sLock,
                   intentional, ctxDone, closePc, client>>
    /\ UNCHANGED msg

\* select: 5 s elapse (then connectToLfsxSocket), or the context is done.
ReconnectWake(t) ==
    /\ rpc[t] = "sleep"
    /\ GotoR(t, IF ctxDone THEN "done" ELSE "lock")
    /\ UNCHANGED <<target, tOpen, dialed, drops, tLock, att, sLock,
                   intentional, ctxDone, closePc, client>>
    /\ UNCHANGED msg

\* Variant with a slip: connectToLfsxSocket without its check of the
\* canceled context.
ConnectLockNoCtx(t) ==
    /\ rpc[t] = "lock"
    /\ tLock = Nil
    /\ tLock' = t
    /\ att' = [att EXCEPT ![t] = 0]
    /\ GotoR(t, "dial")
    /\ UNCHANGED <<target, tOpen, dialed, drops, sLock,
                   intentional, ctxDone, closePc, client>>
    /\ UNCHANGED msg

\* connectToLfsxSocket: targetSync.Lock(), held until it returns; a canceled
\* context returns an error at once, and the error makes the goroutine call
\* tryToReconnectToLfsx again.
ConnectLock(t) ==
    /\ rpc[t] = "lock"
    /\ tLock = Nil
    /\ \/ /\ ctxDone
          /\ GotoR(t, "check")
          /\ UNCHANGED <<tLock, att>>
       \/ /\ ~ctxDone
          /\ tLock' = t
          /\ att' = [att EXCEPT ![t] = 0]
          /\ GotoR(t, "dial")
    /\ UNCHANGED <<target, tOpen, dialed, drops, sLock,
                   intentional, ctxDone, closePc, client>>
    /\ UNCHANGED msg

\* A dial succeeds: p.target = con, pingPong.Add, return nil.
DialOk(t) ==
    LET c == dialed + 1 IN
    /\ rpc[t] = "dial"
    /\ tOpen' = [tOpen EXCEPT ![c] = TRUE]
    /\ target' = c
    /\ dialed' = c
    /\ tLock' = Nil
    /\ GotoR(t, "done")
    /\ UNCHANGED <<drops, att, sLock, intentional, ctxDone, closePc, client>>
    /\ UNCHANGED msg

\* Variant with a slip: the loop bound off by one (i <= 13).
DialFailOffByOne(t) ==
    /\ rpc[t] = "dial"
    /\ \/ /\ att[t] < DialAttempts
          /\ att' = [att EXCEPT ![t] = @ + 1]
          /\ UNCHANGED <<tLock, rpc>>
       \/ /\ att[t] = DialAttempts
          /\ tLock' = Nil
          /\ GotoR(t, IF target = Nil THEN "check" ELSE "done")
          /\ UNCHANGED att
    /\ UNCHANGED <<target, tOpen, dialed, drops, sLock,
                   intentional, ctxDone, closePc, client>>
    /\ UNCHANGED msg

\* Variant with a slip: the goroutine logs the failed reconnect and does
\* not call tryToReconnectToLfsx again.
DialFailGiveUp(t) ==
    /\ rpc[t] = "dial"
    /\ \/ /\ att[t] < DialAttempts - 1
          /\ att' = [att EXCEPT ![t] = @ + 1]
          /\ UNCHANGED <<tLock, rpc>>
       \/ /\ att[t] = DialAttempts - 1
          /\ tLock' = Nil
          /\ GotoR(t, "done")
          /\ UNCHANGED att
    /\ UNCHANGED <<target, tOpen, dialed, drops, sLock,
                   intentional, ctxDone, closePc, client>>
    /\ UNCHANGED msg

\* A dial fails: wait 2 s and try again.  (The context cannot be canceled
\* meanwhile: Close needs targetSync.)  After the last attempt, return an
\* error if p.target is nil, which makes the goroutine call
\* tryToReconnectToLfsx again; else return nil.
DialFail(t) ==
    /\ rpc[t] = "dial"
    /\ \/ /\ att[t] < DialAttempts - 1
          /\ att' = [att EXCEPT ![t] = @ + 1]
          /\ UNCHANGED <<tLock, rpc>>
       \/ /\ att[t] = DialAttempts - 1
          /\ tLock' = Nil
          /\ GotoR(t, IF target = Nil THEN "check" ELSE "done")
          /\ UNCHANGED att
    /\ UNCHANGED <<target, tOpen, dialed, drops, sLock,
                   intentional, ctxDone, closePc, client>>
    /\ UNCHANGED msg

\* The LFS.X side closes a connection; a close frame fires the upgrader's
\* close handler as well as OnClose, an abrupt end only OnClose.
LfsxDrop(c) ==
    /\ tOpen[c]
    /\ drops < MaxDrops
    /\ tOpen' = [tOpen EXCEPT ![c] = FALSE]
    /\ drops' = drops + 1
    /\ \E graceful \in BOOLEAN : Fire(c, graceful)
    /\ UNCHANGED <<target, dialed, tLock, att, sLock,
                   intentional, ctxDone, closePc, client>>
    /\ UNCHANGED msg

-----------------------------------------------------------------------------
(* The client side and Close.                                              *)

\* ProxyHostWebsocket: upgrade the next client and set p.source and ready,
\* without sourceSync.
Attach(w) ==
    /\ cState[w] = "none"
    /\ w = IF latest = Nil THEN 1 ELSE latest + 1
    /\ cState' = [cState EXCEPT ![w] = "open"]
    /\ source' = w
    /\ latest' = w
    /\ UNCHANGED <<lfsx, sLock, intentional, ctxDone, closePc>>
    /\ UNCHANGED msg

\* The browser closes a control socket; its OnClose is still to run.
ClientDrop(w) ==
    /\ cState[w] = "open"
    /\ cState' = [cState EXCEPT ![w] = "closing"]
    /\ UNCHANGED <<lfsx, sLock, intentional, ctxDone, closePc, source, latest>>
    /\ UNCHANGED msg

\* The client upgrader's OnClose: pingPong.Delete, then under sourceSync
\* p.source = nil, whichever socket p.source is now.
ClientOnClose(w) ==
    /\ cState[w] = "closing"
    /\ sLock = Nil
    /\ source' = Nil
    /\ cState' = [cState EXCEPT ![w] = "closed"]
    /\ UNCHANGED <<lfsx, sLock, intentional, ctxDone, closePc, latest>>
    /\ UNCHANGED msg

\* lfsxPeer.Close(err, 0), called by the root peer's Close: sourceSync.Lock.
CloseLockS(k) ==
    /\ closePc[k] = "idle"
    /\ sLock = Nil
    /\ sLock' = k
    /\ closePc' = [closePc EXCEPT ![k] = "lockT"]
    /\ UNCHANGED <<lfsx, intentional, ctxDone, client>>
    /\ UNCHANGED msg

\* targetSync.Lock, then (unless already closed) mark it intentional, close
\* p.source and p.target, cancel the context; both mutexes are released.
\* Closing the target fires its OnClose.
CloseBody(k) ==
    /\ closePc[k] = "lockT"
    /\ tLock = Nil
    /\ \/ /\ intentional \/ ctxDone
          /\ UNCHANGED <<target, tOpen, rpc, intentional, ctxDone, cState>>
       \/ /\ ~intentional /\ ~ctxDone
          /\ intentional' = TRUE
          /\ ctxDone' = TRUE
          /\ cState' = IF source # Nil /\ cState[source] = "open"
                       THEN [cState EXCEPT ![source] = "closing"] ELSE cState
          /\ IF target # Nil /\ tOpen[target]
             THEN /\ tOpen' = [tOpen EXCEPT ![target] = FALSE]
                  /\ Fire(target, FALSE)
             ELSE UNCHANGED <<tOpen, rpc>>
          /\ UNCHANGED target
    /\ sLock' = Nil
    /\ closePc' = [closePc EXCEPT ![k] = "done"]
    /\ UNCHANGED <<dialed, drops, tLock, att, source, latest>>
    /\ UNCHANGED msg

-----------------------------------------------------------------------------
(* Messages.  nbio runs a connection's OnMessage handlers one at a time,   *)
(* and OnSourceMessage (OnTargetMessage) holds sourceSync (targetSync)     *)
(* throughout, so one handler per side at a time loses no interleaving of  *)
(* the locked part.  A message that json.Unmarshal rejects returns at once *)
(* without a state change and is left out.  notifyForUpdates starts one    *)
(* goroutine per message for the single observer, Proxy's, registered     *)
(* right after NewLfsxPeer; Proxy receives at most one update and never    *)
(* removes the observer, so all further ones block on the unbuffered      *)
(* channel for ever (notified counts them).  ProxyHostWebsocket's p.ready.Store(true) is the only     *)
(* write of ready, so ready holds once a client attached.                  *)

Ready == latest # Nil

\* OnSourceMessage of an open client socket: sourceSync.Lock, notify, and
\* unless !ready or p.target == nil (read without targetSync) go on to the
\* write, still holding sourceSync.
SrcMsg(w) ==
    /\ cState[w] = "open"
    /\ spc = "idle" /\ sLock = Nil
    /\ notified < MaxMsgs
    /\ notified' = notified + 1
    /\ IF Ready /\ target # Nil
       THEN sLock' = "srcMsg" /\ spc' = "write"
       ELSE UNCHANGED <<sLock, spc>>
    /\ UNCHANGED <<lfsx, intentional, ctxDone, closePc, client, tpc, nilWrite,
                   login>>

\* p.target.WriteMessage reads p.target a second time; then the deferred
\* Unlock.
SrcWrite ==
    /\ spc = "write"
    /\ nilWrite' = (nilWrite \/ target = Nil)
    /\ spc' = "idle" /\ sLock' = Nil
    /\ UNCHANGED <<lfsx, intentional, ctxDone, closePc, client, tpc, notified,
                   login>>

\* OnTargetMessage of an open LFS.X connection (not necessarily p.target):
\* targetSync.Lock, notify, and unless !ready or p.source == nil (read
\* without sourceSync) go on to the write, still holding targetSync.
TgtMsg(c) ==
    /\ tOpen[c]
    /\ tpc = "idle" /\ tLock = Nil
    /\ notified < MaxMsgs
    /\ notified' = notified + 1
    /\ IF Ready /\ source # Nil
       THEN tLock' = TgtHolder /\ tpc' = "write"
       ELSE UNCHANGED <<tLock, tpc>>
    /\ UNCHANGED <<target, tOpen, dialed, drops, rpc, att, sLock, intentional,
                   ctxDone, closePc, client, spc, nilWrite, login>>

\* p.source.WriteMessage reads p.source a second time; then Unlock.
TgtWrite ==
    /\ tpc = "write"
    /\ nilWrite' = (nilWrite \/ source = Nil)
    /\ tpc' = "idle" /\ tLock' = Nil
    /\ UNCHANGED <<target, tOpen, dialed, drops, rpc, att, sLock, intentional,
                   ctxDone, closePc, client, spc, notified, login>>

\* Proxy's goroutine: SendMessageToLFS with the login request, entirely
\* under targetSync.  Skipped once closed or while p.target is nil; a
\* write to a connection the LFS.X side already dropped fails (logged).
SendLogin ==
    /\ login = "pending"
    /\ tLock = Nil
    /\ login' = CASE intentional \/ ctxDone \/ target = Nil -> "skipped"
                  [] tOpen[target]                        -> "sent"
                  [] OTHER                                -> "lost"
    /\ UNCHANGED <<lfsx, sLock, intentional, ctxDone, closePc, client, spc,
                   tpc, nilWrite, notified>>

-----------------------------------------------------------------------------

ThreadStep(t) ==
    \/ ReconnectCheck(t) \/ ReconnectNil(t) \/ ReconnectWake(t)
    \/ ConnectLock(t) \/ DialOk(t) \/ DialFail(t)

Next ==
    \/ \E t \in Threads : ThreadStep(t)
    \/ \E c \in Conns : LfsxDrop(c)
    \/ \E w \in Clients : Attach(w) \/ ClientDrop(w) \/ ClientOnClose(w)
    \/ \E k \in CloseCalls : CloseLockS(k) \/ CloseBody(k)
    \/ \E w \in Clients : SrcMsg(w)
    \/ \E c \in Conns : TgtMsg(c)
    \/ SrcWrite \/ TgtWrite \/ SendLogin

Spec == Init /\ [][Next]_vars

\* Goroutines are scheduled (weak fairness on every step of a reconnect
\* thread, of a client's OnClose and of OnTargetMessage holding
\* targetSync; the properties need no other).  A started Close waits on
\* targetSync, which the reconnect loop and OnTargetMessage take and
\* release; weak fairness on CloseBody is enough because, with finitely
\* many drops and messages, targetSync ends up free for good (sync.Mutex's
\* starvation mode would even give strong fairness).  The pod's LFS.X
\* is assumed to accept a dial that is retried for ever (strong fairness on
\* DialOk); the LFS.X dropping, clients and the root Close are environment.
FairSpec ==
    /\ Spec
    /\ \A t \in Threads : WF_vars(ThreadStep(t)) /\ SF_vars(DialOk(t))
    /\ \A k \in CloseCalls : WF_vars(CloseBody(k))
    /\ WF_vars(TgtWrite)
    /\ \A w \in Clients : WF_vars(ClientOnClose(w))

-----------------------------------------------------------------------------
(* Properties.                                                             *)

Up == target # Nil /\ tOpen[target]

\* Spec 8 law 8: after the pod-side control socket is lost, a new connection
\* is eventually p.target, unless the peer was closed on purpose; the
\* reconnect goroutine keeps retrying through failed connectToLfsxSocket
\* calls.
ReconnectPersists == ~Up ~> (Up \/ intentional)

\* lfsxPeer.Close, once it holds sourceSync, returns: the reconnect loop
\* holds targetSync across its dials and the handlers take it too, but
\* every holder lets it go and the Close gets it.
CloseReturns == \A k \in CloseCalls : closePc[k] = "lockT" ~> closePc[k] = "done"

\* Once Close canceled the context, no new LFS.X connection is opened: a
\* reconnect that was already scheduled finds the context canceled under
\* targetSync.
NoReconnectAfterClose ==
    [][ctxDone => \A c \in Conns : tOpen'[c] => tOpen[c]]_vars

\* Every open LFS.X connection is p.target, the one messages to the LFS.X
\* go over; any other stays open beside it until Close stops the engine.
NoLeakedTarget == \A c \in Conns : tOpen[c] => target = c

\* The client attached last, while its socket is open, is p.source, so
\* LFS.X messages are forwarded to it.
SourceIsLatest == latest # Nil /\ cState[latest] = "open" => source = latest

=============================================================================
