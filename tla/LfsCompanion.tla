---------------------------- MODULE LfsCompanion ----------------------------
(***************************************************************************)
(* The in-pod companion (lfs/): the process that is the pod's init        *)
(* command, launches LFS.X as a child, restarts it when it exits, answers *)
(* the controller's and kubelet's HTTP calls and ends the pod when no     *)
(* user has been connected for a while.                                   *)
(*                                                                         *)
(* Every StartLfs call creates an Lfs struct and an exec.Cmd, numbered    *)
(* 1, 2, ... in call order; struct 1 is the one main hands to every       *)
(* handler.  cmdOf[g] is struct g's Process field, proc[c] the state of   *)
(* Cmd c: "new" (Process still nil), "running", "exited" (Wait returned), *)
(* "failed" (Start failed, Process stays nil).  reaped holds the          *)
(* generations whose supervising goroutine has finished.                  *)
(***************************************************************************)
EXTENDS Naturals

CONSTANTS
    MaxGen,       \* bound on the number of StartLfs calls
    NoUserLimit   \* the idle polls tolerated before exit (10 in the code)

ASSUME MaxGen \in Nat \ {0} /\ NoUserLimit \in Nat

Gens == 1..MaxGen
ProcStates == {"none", "new", "running", "exited", "failed"}

VARIABLES
    cmdOf,        \* Lfs struct g -> the Cmd its Process field points to
    proc,         \* Cmd -> its process state
    reaped,       \* generations whose goroutine returned
    created,      \* number of StartLfs calls so far
    wasConnected, \* VncService.WasConnected
    noUsers,      \* noUsersCount of StartUserConnectionsCheck
    userOn,       \* a VNC client is connected to wayvnc (environment)
    past48,       \* the pod's uptime reached NO_USER_CONNECTION_TIME
    userFile,     \* /home/oracle/.lfsx-user exists (written by LFS.X)
    probe,        \* the last answer of /healthz
    halted        \* os.Exit ran: the pod's init process is gone

lfs == <<cmdOf, proc, reaped, created>>
vars == <<lfs, wasConnected, noUsers, userOn, past48, userFile, probe, halted>>

TypeOK ==
    /\ cmdOf \in [Gens -> Gens \cup {0}]
    /\ proc \in [Gens -> ProcStates]
    /\ reaped \subseteq Gens
    /\ created \in 1..MaxGen
    /\ wasConnected \in BOOLEAN
    /\ noUsers \in 0..NoUserLimit + 1
    /\ userOn \in BOOLEAN /\ past48 \in BOOLEAN /\ userFile \in BOOLEAN
    /\ probe \in {"none", "ok", "dead", "panic"}
    /\ halted \in BOOLEAN

\* main: StartLfs creates struct and Cmd 1; the goroutine has not run yet.
Init ==
    /\ cmdOf = [g \in Gens |-> IF g = 1 THEN 1 ELSE 0]
    /\ proc = [g \in Gens |-> IF g = 1 THEN "new" ELSE "none"]
    /\ reaped = {}
    /\ created = 1
    /\ wasConnected = FALSE
    /\ noUsers = 0
    /\ userOn = FALSE /\ past48 = FALSE /\ userFile = FALSE
    /\ probe = "none"
    /\ halted = FALSE

\* The Cmd the handlers reach through api.Lfs.Process.
ApiCmd == cmdOf[1]

\* cmd.Process is nil until Start succeeded.
HasProcess(c) == proc[c] \in {"running", "exited"}

-----------------------------------------------------------------------------
(* StartLfs's goroutine.                                                   *)

\* lfs.Run: Start, which sets Process, or fails without a process.
StartProc(g) ==
    /\ ~halted
    /\ proc[g] = "new"
    /\ \E ok \in BOOLEAN : proc' = [proc EXCEPT ![g] = IF ok THEN "running"
                                                              ELSE "failed"]
    /\ UNCHANGED <<cmdOf, reaped, created, wasConnected, noUsers, userOn,
                   past48, userFile, probe, halted>>

\* LFS.X exits by itself (the user quits it, or it crashes).  Bounded so
\* that every exit can be followed by its restart.
LfsExit(c) ==
    /\ ~halted
    /\ proc[c] = "running"
    /\ created < MaxGen
    /\ proc' = [proc EXCEPT ![c] = "exited"]
    /\ UNCHANGED <<cmdOf, reaped, created, wasConnected, noUsers, userOn,
                   past48, userFile, probe, halted>>

\* Run returned.  ctx is context.Background(), never canceled, and every
\* exit (status 0, status # 0, a signal: ExitCode() = -1) restarts: a new
\* StartLfs(config) and *l = *newL, which overwrites this goroutine's own
\* struct g.  A failed Start is not an ExitError: no restart.
Reap(g) ==
    /\ ~halted
    /\ g \notin reaped
    /\ \/ /\ proc[g] = "exited"
          /\ LET n == created + 1 IN
             /\ created' = n
             /\ proc' = [proc EXCEPT ![n] = "new"]
             /\ cmdOf' = [cmdOf EXCEPT ![n] = n, ![g] = n]
       \/ /\ proc[g] = "failed"
          /\ UNCHANGED <<cmdOf, proc, created>>
    /\ reaped' = reaped \cup {g}
    /\ UNCHANGED <<wasConnected, noUsers, userOn, past48, userFile, probe,
                   halted>>

-----------------------------------------------------------------------------
(* StartUserConnectionsCheck: one iteration of the 30 s loop.             *)

\* netstat | grep -c exits 0 when a wayvnc connection is ESTABLISHED, 1
\* when none is; a failure to run it is not an ExitError and skips the
\* round.  A round without users after a connection counts; otherwise the
\* count resets, the first connection is remembered, and once the uptime
\* reached 48 h the pod exits.  More than NoUserLimit idle rounds exit.
Poll ==
    /\ ~halted
    /\ \/ UNCHANGED <<wasConnected, noUsers, halted>>
       \/ LET rtc == IF userOn THEN 0 ELSE 1 IN
          IF rtc = 1 /\ wasConnected
          THEN /\ noUsers' = noUsers + 1
               /\ halted' = (noUsers + 1 > NoUserLimit)
               /\ UNCHANGED wasConnected
          ELSE /\ noUsers' = 0
               /\ wasConnected' = (wasConnected \/ rtc = 0)
               /\ halted' = past48
    /\ UNCHANGED <<lfs, userOn, past48, userFile, probe>>

-----------------------------------------------------------------------------
(* HTTP handlers, each reading api.Lfs.Process (a data race with *l = *newL *)
(* in Reap; the read sees the struct before or after the copy).            *)

\* GET /healthz: Process.Signal(0).  A nil Process panics (recovered by
\* the RecoverPanic middleware), a finished process answers an error.
HealthCheck ==
    /\ ~halted
    /\ probe' = CASE ~HasProcess(ApiCmd)      -> "panic"
                  [] proc[ApiCmd] = "running" -> "ok"
                  [] OTHER                    -> "dead"
    /\ UNCHANGED <<lfs, wasConnected, noUsers, userOn, past48, userFile,
                   halted>>

\* POST /api/vnc/scale/hard: refused once .lfsx-user exists; otherwise
\* apply the gsettings and sway scaling and SIGTERM the process group of
\* api.Lfs.Process.  A nil Process panics; a finished one fails the kill.
\* The SIGTERM is bounded like LfsExit.
ChangeScaling ==
    /\ ~halted
    /\ \/ /\ userFile \/ proc[ApiCmd] # "running"
          /\ UNCHANGED proc
       \/ /\ ~userFile
          /\ proc[ApiCmd] = "running"
          /\ created < MaxGen
          /\ proc' = [proc EXCEPT ![ApiCmd] = "exited"]
    /\ UNCHANGED <<cmdOf, reaped, created, wasConnected, noUsers, userOn,
                   past48, userFile, probe, halted>>

\* POST /api/stop: Process.Kill, then os.Exit(0).  With a nil Process the
\* handler panics before os.Exit and the pod keeps running.
Stop ==
    /\ ~halted
    /\ HasProcess(ApiCmd)
    /\ halted' = TRUE
    /\ UNCHANGED <<lfs, wasConnected, noUsers, userOn, past48, userFile,
                   probe>>

\* POST /api/start: WasConnected.Store(true).
StartCheck ==
    /\ ~halted
    /\ wasConnected' = TRUE
    /\ UNCHANGED <<lfs, noUsers, userOn, past48, userFile, probe, halted>>

-----------------------------------------------------------------------------
(* Environment.                                                           *)

UserToggle ==
    /\ ~halted
    /\ userOn' = ~userOn
    /\ UNCHANGED <<lfs, wasConnected, noUsers, past48, userFile, probe, halted>>

Elapse48 ==
    /\ ~halted /\ ~past48
    /\ past48' = TRUE
    /\ UNCHANGED <<lfs, wasConnected, noUsers, userOn, userFile, probe, halted>>

\* A running LFS.X writes .lfsx-user once a user logged in to it.
UserLogin ==
    /\ ~halted /\ ~userFile
    /\ \E c \in Gens : proc[c] = "running"
    /\ userFile' = TRUE
    /\ UNCHANGED <<lfs, wasConnected, noUsers, userOn, past48, probe, halted>>

Next ==
    \/ \E g \in Gens : StartProc(g) \/ LfsExit(g) \/ Reap(g)
    \/ Poll \/ HealthCheck \/ ChangeScaling \/ Stop \/ StartCheck
    \/ UserToggle \/ Elapse48 \/ UserLogin

Spec == Init /\ [][Next]_vars

-----------------------------------------------------------------------------
(* Properties.                                                             *)

\* The restart in StartLfs ("we reassign the pointer") is meant to keep
\* the Lfs value held by the API on the LFS.X that runs: whenever an LFS.X
\* process runs, /healthz, /api/vnc/scale/hard and /api/stop reach it.
HandleIsCurrent == \A c \in Gens : proc[c] = "running" => ApiCmd = c

=============================================================================
