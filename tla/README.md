# TLA+ models of lfsx-web

These TLA+ models cover the concurrent parts of the lfsx-web controller
(`src/lfsx-web-main (1)/lfsx-web/controller`). The controller hands each
authenticated user one Kubernetes pod running LFS.X. It proxies the browser's
VNC stream (raw noVNC, or guacd) and the LFS.X control WebSocket to that pod.
All paths below are relative to that directory.

## The system and how its parts interact

| Part | Source | State | Operations |
|---|---|---|---|
| Session gateway | `internal/api/vnc_proxy/proxy.go`, `peer.go` | `VncProxy.peer` (identifier → peer) under the RWMutex `peerSync`; per peer `ready`, `closed` (atomic.Bool), source WebSocket, VNC/guacd connection, `lfsxPeer` | `Proxy`, `validateUserRequest`, `onPeerDisconnect`, `onEngineClose`, `peer.SetConnections`, `peer.Close`, `peer.proxyGuacamole` |
| Control peer | `internal/api/vnc_proxy/peer_lfsx.go` | client and LFS.X WebSockets under `sourceSync`/`targetSync`, observers | `NewLfsxPeer`, `ProxyHostWebsocket`, `connectToLfsxSocket`, `tryToReconnectToLfsx`, `notifyForUpdates`, `Close` |
| Keep-alive | `internal/api/vnc_proxy/ping.go` | set of client WebSockets under `cm.mux` | `Add`, `Delete`, the ping sweep in `Run` |
| Pod allocator | `internal/kuber/pods.go`, `internal/api/api.go` | placeholder jobs and pods in the API server, each with a resourceVersion | `GetPodByUser`, `createJobForUserAbstract` (claim by PATCH gated on resourceVersion), `CreatePlaceholderJob`, the 60 s cleanup task |
| In-pod companion | `../lfs/internal/...` | the LFS.X process and an idle counter | restart, the idle-user poll |

The companion ends its pod by `os.Exit`: after 10 idle polls once a user
was connected, and at 48 h of uptime while a user is connected or none
ever was. This is how pods reach phase Succeeded, which the allocator has to
live with.

A browser request goes to `Proxy`. `Proxy` first checks that the user has no
session, then upgrades to a WebSocket and asks the allocator for a pod. It
dials VNC or guacd and opens the control peer. It then stores the connections
(`SetConnections`, which sets `ready`) and registers the peer under the
user's identifier. Any of the connections may close at any moment. Each close
callback calls `peer.Close(err, fromWhich)` on its own goroutine. `Close`
waits up to 51 × 400 ms for `ready`, closes every side except the one it came
from, and calls `onPeerDisconnect`, which deletes the registry entry.

## Modules

### SessionGateway (with MC_SessionGateway)

A request is one `Proxy` call and owns one peer, so peers are named by
requests.

- `pc[r]` is the step `Proxy` is at. There is one action per step between two
  blocking calls: `Validate`, `Upgrade`, `GetVncAddress`, `ConnectToVnc`,
  `NewLfsxPeer`, `ConnectToGuacamole`, `SetConnections`, `InsertPeer`,
  `ProxyGuacamole`, `Respond` and `DupRespond`.
  - Every error return goes to `"fail"`.
  - Allocation and dialling are nondeterministic successes or failures.
  - `regLock` is the writer that holds `peerSync`. `Validate`'s read lock and
    `onPeerDisconnect`'s lock are guards on it.
  - `Proxy` holds the lock from `InsertPeer` to its return, as the deferred
    Unlock does.
- A close goroutine is a thread `<<peer, origin>>`:
  - `"client"` is the WebSocket OnClose, fromWhich 1.
  - `"backend"` is the nbio OnClose (fromWhich 2), or the guacd pump at EOF
    (-1).
  - `"dup"` is the inline call on a duplicate registration, fromWhich 0.
- `peer.Close` is split where another goroutine can interleave:
  - `CloseCheck` is the `Load` of the closed flag.
  - `CloseStore` is the `Store`.
  - `CloseWait` is one poll of the wait loop, bounded by `CloseWaitLimit`
    for the code's 50.
  - `CloseTeardown` is all the closes. Closing a socket starts that socket's
    OnClose thread.
  - A guac peer's `target` field is the `net.Conn` interface holding the nil
    `*nbio.Conn` that Proxy passes to `SetConnections`, so `p.target != nil`
    holds. Until `proxyGuacamole` sets `Used` (`GuacUsed`, true from the
    `ProxyGuacamole` step on), line 176 lets such a close through, and
    `Close` on the nil connection panics at line 178.
    - Before the panic, the control peer and the client socket are
      closed. guacd is never closed and `onDisconnect` never runs, so
      `CloseTeardown` ends the goroutine there.
    - The peers this reaches are the guac duplicate and any guac peer
      closed during the insert.
    - Whether nbio recovers a panic in its OnClose callback, or the
      controller exits, is up to the library. The model takes the goroutine
      ending.
  - `OnPeerDisconnect` is the callback.
- The environment actions are `ClientOnClose`, `EngineOnClose` and
  `GuacReadEOF`.
- The keep-alive `ClientMgr` (`ping.go`) is composed in. `kept` is its map
  of client sockets, under `cm.mux`.
  - `Upgrade` includes `pingPongMgr.Add(wsConn)`.
  - `OnPeerDisconnect` includes `pingPongMgr.Delete(peer.source)`. This is a
    no-op while `source` is nil, that is before `SetConnections`.
  - `SweepEvict(r)` is one sweep of `Run` reaching a closed socket, together
    with the goroutine it starts: `con.Close()`, then `Delete` only if
    `Close` returned an error.
  - Both are one step. The socket is already closed, so that `Close` has no
    other effect, and a `Delete` is idempotent.
  - Whether nbio reports an error when closing a closed connection is up to
    the library. When it does not, the step changes nothing.
  - Pings to open sockets and the pong handler's read deadlines are left
    out: they change nothing the model holds.

### SessionRegistry: the registry's promise

`SessionRegistry` is the abstract registry: one slot per user and the sets
`connected`, `admitted` and `closing`. It has four actions:

- `Connect`: a session's connections are set.
- `Register`: a connected session that was never admitted takes its user's
  empty slot.
- `Close`: a session's close begins.
- `Release`: a closing session empties its user's slot. The slot is emptied
  whichever session holds it, because `onPeerDisconnect` deletes by
  identifier. The abstract registry states that behaviour rather than the
  stronger "only the holder releases", which `gateway_stale_delete` shows the
  code breaks.

`SessionGateway` defines `Registry == INSTANCE SessionRegistry WITH ...`
with this mapping:

- `slot` is `registry`.
- `connected` is the set of requests whose `ready` is set.
- `admitted` is the set of requests whose `Proxy` got past a successful
  insert.
- `closing` is the set of requests whose `closed` flag is stored.

`RegistryRefinement == Registry!Spec` is checked as a `PROPERTY`. Every
gateway step is a registry step or leaves all four unchanged:

- `SetConnections` is `Connect`.
- A successful `InsertPeer` is `Register`.
- `CloseStore` is `Close`.
- `OnPeerDisconnect` is `Release`.

### Runs

| Run | Checks | Result |
|---|---|---|
| `gateway_safety` | `TypeOK`; `TeardownReleasesAll` (after a teardown of a ready peer that reaches `onDisconnect`, the client socket, the backend and the control peer are closed); `RegistryRefinement` (the gateway implements `SessionRegistry`: one entry per user, inserted only into an empty slot); `KeepAliveCoversLive` (the open client socket of every live session stays in the keep-alive map, although a failed second request of the user closes and disconnects) | pass, 2,676,321 states, about 70 s |
| `gateway_dup_deadlock` | `RequestsReturn` under weak fairness | violated: a raw duplicate registration self-deadlocks on `peerSync` (a guac duplicate panics in `Close` instead, and the router answers 500) |
| `gateway_zombie` | `NoZombieEntry` | violated: a closed peer is registered after `Close` timed out waiting for ready |
| `gateway_stale_delete` | `LiveStaysRegistered` | violated: a failed request's late close deletes the live session's entry |
| `gateway_close_race` | `CloseOnce` | violated: `Load` then `Store` is not a compare-and-swap |

The bounds are one user and two requests, one raw and one guac. Together they
cover both modes, the duplicate path and both callback kinds. One user is
enough, because every interaction in the gateway is between sessions of the
same identifier. `CloseWaitLimit = 1` keeps the two outcomes of the wait loop,
ready in time and timed out, and it lets the wait span a `Proxy` step.

Deadlock checking is off. The set of requests is finite, so the system
quiesces by design.

Only `gateway_dup_deadlock` uses fairness, `FairSpec`: weak fairness on every
goroutine of the gateway. The Go scheduler runs every runnable goroutine.
Clients and backends closing are environment events, so they get no fairness.

Each property of the passing run has a mutant, a plausible coding slip that
makes it fail:

- `CloseTeardownWrongGuard` copies the source's fromWhich guard to the
  target.
- `CloseWaitUnbounded` drops the `i > 50` break.
- `SetConnectionsNoReady` forgets `p.ready.Store(true)`. The peer is then
  registered without ever being connected, which `SessionRegistry` forbids.
- `OnPeerDisconnectByUser` deletes the keep-alive entry of the peer registered
  for the identifier, as the registry delete next to it does. A failed
  second request then takes the live session's socket off the keep-alive.

Two keep-alive behaviours are not stated as properties:

- A `Proxy` call that fails after the upgrade never sets `peer.source`. Its
  closed socket stays in the map unless nbio's `Close` reports an error, and
  the model reaches that state. Whether it leaks is nbio's behaviour, so it
  is a hazard with a note.
- On the zombie path, the timed-out `Close`'s `onPeerDisconnect` reads
  `peer.source` after `SetConnections` set it. It takes the open socket off
  the keep-alive. This is part of the `gateway_zombie` finding.

### PodAllocator (with MC_PodAllocator)

The cluster is held as job slots `1..MaxJobs`, used in creation order. The
code sorts jobs by creation timestamp, and in the model that order is
ascending slot order. Each slot has:

- `jobOwner`: the job's labels, either `Placeholder` or the user.
- `jobTmpl`: the labels in the job's pod template. The pod gets these, not
  the job's current labels.
- `podOwner` and `podReady`.
- The resourceVersions `jobVer` and `podVer`.

A request is one `GetPodByUser` call, with one action per API call:

- `FindPod`: `findPodForUser`.
- `ListJobs`: List and sort. The request keeps `listed`, `cand` and, in
  `snap`, the versions of the listed jobs only (the List returns nothing
  else).
- `PatchJob`: one PATCH, gated on the listed version.
- `NextRound`: the loop's exit test.
- `ListPod` and `PatchPod`: the pod List and the pod PATCH, followed by
  replenishment.
- `CreateJob` and `WaitReady`: the fallback `createJodForUser`.

`pending` counts the `CreatePlaceholderJob` goroutines; `CreatePlaceholder`
runs one of them. The cluster's controllers are environment actions:

- `StartPod`: the job controller creates the pod and updates the job's status,
  which bumps `jobVer`.
- `PodBecomesReady`: the kubelet reports the pod ready, which bumps `podVer`.
- `PodCompletes`: the pod's companion exits (see above), so the pod goes
  Succeeded (`podDone`) and the job goes Complete. Both versions are bumped,
  and the labels stay.
  - Any started pod can complete, placeholders included: a placeholder's
    companion takes the 48 h exit.
  - No action removes a completed pod. `DeleteCompletedLfsPods`, run every
    60 s by `startTasks`, lists with `FieldSelector: status.phase=completed`.
    That is no pod phase, so the List is always empty. Its loop would also
    delete only pods that already have a `DeletionTimestamp`. It never
    changes the cluster, so it is not an action.

These bumps are why real PATCHes conflict even without a competing
request.

| Run | Checks | Result |
|---|---|---|
| `alloc_claims` | `TypeOK`; `ClaimExclusive` (no job claimed twice, spec law 6); `ClaimsMatchPool` (at the end at least min(K, P) placeholders are claimed, so nobody falls back while one is free); `RequestsReturn` (the claim loop ends) under `FairSpec` | pass, 594,746 states, about 30 s |
| `alloc_stranded_pod` | `NoStrandedPod` | violated: a job claimed before its pod exists, or whose pod changed since the List, leaves a pod nobody can find |
| `alloc_completed_pod` | `NoCompletedPodReturned` (`GetPodByUser` never returns a pod whose companion already ended) | violated: a completed placeholder is claimed, since the claim loop filters on labels only and takes the oldest first; `findPodForUser` likewise returns a completed pod of the user |

The bounds are two requests (two users, or one user for `alloc_completed_pod`).
`Init` chooses the initial pool among 0..`InitPool` placeholders, each of
which may or may not have its pod yet, and the history variable `pool0`
records the choice for `ClaimsMatchPool`. `alloc_claims` takes
`InitPool = 2`, the other two runs take 1. The cases each pool size
reaches:

- An empty pool sends both requests to the fallback job.
- A pool of one gives contention on the PATCH, the relist and the fallback
  of the loser.
- A pool of two is the only size where a conflict on one listed job is
  followed by a successful PATCH of the next job in the same List. It is
  also the only size where replenishment starts one placeholder rather
  than two.

Three requests with a pool of two did not finish within ten minutes.
`MaxJobs = 8` is the most jobs the model can hold: two initial placeholders,
plus, for each request, two replacements or two fallback placeholders and
one job of the user's own. So the model never runs out of slots.

Spec law 6 says the number of claims *equals* min(K, P). Only the lower
bound is a property. Replenishment makes new placeholders while the other
request is still listing, so more than P claims are correct behaviour.

The fairness is weak fairness on each request's goroutine only. The loop's
termination must not depend on the cluster doing anything.

The mutants are:

- `PatchJobBlind`: the PATCH without the resourceVersion, for `TypeOK` and
  `ClaimExclusive`.
- `NextRoundGiveUp`: fall back after one pass of conflicts.
- `NextRoundStale`: retry the old List result.

### ControlPeer (with MC_ControlPeer)

`lfsxPeer` bridges the browser's control WebSocket (the source) to the
LFS.X WebSocket in the pod (the target). LFS.X connections are numbered in
dial order.

- The target side:
  - `target` and `tOpen` are `p.target` and which connections are open.
  - `tLock` is `targetSync`.
  - `att[t]` is the dial loop's counter.
- A reconnect thread `<<conn, callback>>` is started by a closing LFS.X
  connection. The callback is `"onclose"`, or `"handler"`, the close
  handler, which runs too when a close frame arrived (`Fire`).
- `rpc[t]` walks `tryToReconnectToLfsx` and `connectToLfsxSocket`:
  - `ReconnectCheck`: the `wasIntentiallyClosed` test.
  - `ReconnectNil`: `target = nil` under the lock.
  - `ReconnectWake`: the 5 s sleep, or the context being done.
  - `ConnectLock`: the lock and the context check.
  - `DialOk` and `DialFail`: one attempt of the 13. After the last attempt
    the goroutine calls `tryToReconnectToLfsx` again if `target` is nil.
- The client side:
  - `Attach`: `ProxyHostWebsocket` sets `source` without `sourceSync`.
    It also has no check that `Close` already ran. `ProxyLfsxWebsocket`
    (proxy.go:250) reads the peer under the registry RLock and attaches
    after releasing it. So the model reaches a browser socket attached to a
    closed control peer, and nothing ever closes that socket. This is listed
    as a hazard with no property, because every run slot is in use.
  - `ClientDrop`: the browser closes its socket.
  - `ClientOnClose`: the OnClose sets `source = nil`.
- Close: `lfsxPeer.Close` is called by the root peer's `Close`, which can run
  twice (the gateway's `gateway_close_race`). The model has two calls,
  `CloseLockS` and `CloseBody`.
- `LfsxDrop` is the LFS.X side closing. It is bounded by `MaxDrops`.
- Messages. nbio runs a connection's `OnMessage` handlers one at a time, and
  each handler holds its side's mutex throughout, so one handler per side
  loses no interleaving of the locked part.
  - `SrcMsg` is `OnSourceMessage` up to its `!ready || p.target == nil`
    test. `SrcWrite` is the write, which reads `p.target` again.
  - `TgtMsg` and `TgtWrite` are the same for `OnTargetMessage` and
    `p.source`.
  - Each handled message starts a `notifyForUpdates` goroutine for `Proxy`'s
    observer (`notified`, bounded by `MaxMsgs`). `Proxy` reads at most one
    and never removes the observer.
  - `nilWrite` records a write through a connection field that another
    goroutine set to nil between the test and the write.
- `SendLogin` is `SendMessageToLFS` with the login request. It runs
  entirely under `targetSync`.

| Run | Checks | Result |
|---|---|---|
| `ctrl_reconnect` | `TypeOK`; `NoReconnectAfterClose` (once the context is canceled no step opens an LFS.X connection); `ReconnectPersists` (while the peer is not intentionally closed, a lost LFS.X connection is eventually restored); `CloseReturns` (a `Close` that holds `sourceSync` gets `targetSync` and returns, although the dial loop and `OnTargetMessage` hold it for a while) | pass, 86,828 states, about 70 s |
| `ctrl_double_reconnect` | `NoLeakedTarget` (every open LFS.X connection is `p.target`) | violated: a graceful close starts two reconnect loops, and the second overwrites the first one's connection |
| `ctrl_stale_source` | `SourceIsLatest` (the newest attached client, while open, is `p.source`) | violated: the late OnClose of a replaced client sets `source = nil` |

The bounds are three LFS.X connections, `DialAttempts = 2` (the code's 13),
one LFS.X drop and one message (`MaxMsgs = 1`). `ctrl_reconnect` has one
client: with two, the liveness check takes too long. `ctrl_stale_source`
has two clients, which it needs to replace one. Two attempts keep both the retry and
the last-attempt exit. One drop with a graceful close already starts two
threads, and the third connection lets both of them dial.

Fairness (`FairSpec`):

- Weak fairness on every reconnect thread's steps, on a started `Close`,
  on a client's OnClose and on `TgtWrite`. These are goroutines that the
  Go scheduler runs.
- Weak fairness is enough for `CloseBody`, which waits for `targetSync`.
  With finitely many drops and messages, `targetSync` ends up free for good.
  `sync.Mutex`'s starvation mode would justify strong fairness too.
- Strong fairness on `DialOk`. This is the assumption that a pod whose
  LFS.X is up accepts a dial that is retried without end. Without it,
  `ReconnectPersists` fails by dials that fail for ever.
- No fairness for the environment: the LFS.X dropping, clients, and the
  root `Close`.

The mutants are:

- `DialFailOffByOne`: `i <= 13`, for `TypeOK`.
- `ConnectLockNoCtx`: no context check, for `NoReconnectAfterClose`.
- `DialFailGiveUp`: no recursive `tryToReconnectToLfsx` after the last
  attempt, for `ReconnectPersists`.
- `ReconnectNilKeepLock`: the `Unlock` after `p.target = nil` is missing,
  for `CloseReturns`.

`nilWrite` is reachable. For example: a client attaches and drops, an
LFS.X message passes the `p.source` test, the client's OnClose sets
`p.source = nil`, and the write goes through nil. No run checks it: whether
the panic is recovered is up to nbio, which is outside the repository. The
hazard is listed in `PROJECT.json`.

### LfsCompanion

The in-pod companion under `lfs/` is the pod's init process:

- `StartLfs` launches LFS.X and supervises it from a goroutine. When
  LFS.X exits, the goroutine calls `StartLfs` again and copies the new
  struct over its own (`*l = *newL`).
- The HTTP handlers (`/healthz`, `/api/vnc/scale/hard`, `/api/stop`,
  `/api/start`) all use the struct `main` created.
- `StartUserConnectionsCheck` polls `netstat` every 30 s and calls
  `os.Exit`:
  - after more than 10 idle polls since a user was connected;
  - at 48 h of uptime.

Every `StartLfs` call is a generation `g`:

- `cmdOf[g]` is the `Process` field of generation g's struct.
- `proc[c]` is the state of command `c`: `"new"` while `Process` is nil,
  then `"running"`, `"exited"` or `"failed"`.
- `StartProc` is the goroutine's `Run` starting the process.
- `LfsExit` is LFS.X ending by itself.
- `Reap` is the goroutine's restart.
- `Poll` is one poll round. `halted` is `os.Exit`.
  - `Poll` takes whether a VNC client is connected from `UserToggle`,
    not from the command the code runs.
  - That command (vnc.go:139) filters with `grep -E 'ESTABLISHED
    \d{2,}/wayvnc'`. POSIX extended regular expressions have no `\d`, so
    the filter probably never matches, and the poll would then see no user
    at all.
  - The model's free choice of the user's presence covers that outcome
    too. Which one the pod sees depends on the grep build and netstat's
    output, which are outside the repository.

The environment actions are:

- `UserToggle`: a VNC client connects or disconnects.
- `Elapse48`: 48 h of uptime pass.
- `UserLogin`: LFS.X writes `.lfsx-user`.

| Run | Checks | Result |
|---|---|---|
| `companion_stale_handle` | `HandleIsCurrent` (a running LFS.X is the process the handlers reach) | violated: after the second restart, `api.Lfs` still refers to the second, exited process |

`MaxGen = 3` is the fewest generations that show the bug. `NoUserLimit = 2`
stands for the code's 10 idle polls. The poll, the 48 h branch and the
handlers are modelled. Their hazards (the 48 h exit under a connected user,
the nil `Process` before `Start`) are listed in `PROJECT.json`. They have
no run of their own, because the project keeps to twelve runs.

## Plan

The project keeps to twelve runs: three passing, nine violations.

1. **SessionGateway**: done, with the `SessionRegistry` refinement.
2. **PodAllocator**: done, with pod completion. The image-version change of
   `startTasks` was tried and dropped. With two image versions (a job
   label `imageVersion`, the ticker's `lastImageVersion`, `createAtLeastOneJob`)
   the state space grew from 0.35 million to 27 million states. The liveness
   check of `alloc_claims` cannot cover that. It needs a run of its own with
   fewer requests.
3. **ControlPeer**: done.
4. **LfsCompanion**: done as a violation run. A pass run for the idle exit
   needs a run slot.
5. **Keepalive**: composed into `SessionGateway` and checked by
   `gateway_safety`, for the client sockets. The LFS.X sockets that
   `lfsxPeer` adds (`peer_lfsx.go` 141 and 199) and deletes in its close
   handlers are left out: `ctrl_reconnect` already takes about 70 s with
   its liveness checks.

## Not modelled

- VNC byte forwarding (`onEngineMessage` and the peer's pumps), except for
  its effect on the lifecycle. Message contents are abstracted everywhere.
- `DeleteCompletedLfsPods`: it never changes the cluster (see PodAllocator).
- The LFS.X image version: `startTasks`'s ticker and `createAtLeastOneJob`
  (see the Plan). One image version is assumed throughout.
- `RemoveObserver` and `SetClientConnection` have no callers.
- The Guacamole codec, JWT authentication, static files and configuration
  parsing. They are stateless per request or pure conversions with no
  concurrency.
  - One defect was noticed on the way: in production, `login`
    (authentication.go:81-85) writes 400 for a database other than LFS but
    does not return. It goes on to log the user in and set the cookie.
  - The harm is bounded. `AuthenticationMiddleware` (line 56) rejects that
    token with 401 on every later request.
  - It involves no interleaving and no state, so a unit test reaches it
    and no model checks it.
- `ProxyLfsxRequest` and `ProxyHostRequest` (proxy.go:468-496), and the
  `/logout` path through `ProxyHostRequest`:
  - They hold the registry read lock for the whole reverse-proxy round trip.
  - The companion's `/api/stop` writes its answer before `os.Exit`. So the
    round trip ends and the writers in `onPeerDisconnect` wait only for it.
  - These handlers do not change the gateway's state.
  - The reverse proxy has no timeout. A pod whose LFS.X API hangs therefore
    holds the read lock indefinitely. This is listed as a hazard.
- In the companion, `ChangeResoulution` and the soft `/api/vnc/scale`. They
  only run `swaymsg` and keep no state.
