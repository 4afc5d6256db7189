---------------------------- MODULE PodAllocator ----------------------------
(***************************************************************************)
(* The controller's pod allocator (controller/internal/kuber/pods.go):    *)
(* Kuber.GetPodByUser, called by every Proxy and Probe request.  It       *)
(* returns the user's pod if one exists.  Otherwise it claims a warm      *)
(* placeholder job, and then that job's pod, each by a merge PATCH that   *)
(* carries the resourceVersion read by the preceding List, so the API     *)
(* server refuses it if the object changed.  If no placeholder is left it *)
(* creates a job of the user's own.                                       *)
(*                                                                         *)
(* The cluster holds job slots 1..MaxJobs, used in creation order, so     *)
(* "sort oldest first" is ascending slot order.  A job's pod is made by   *)
(* the job controller from the job's template.  Its labels are those the *)
(* job had at creation, whatever the job's labels are later.  Status     *)
(* updates by the job controller and the kubelet bump resourceVersions.  *)
(***************************************************************************)
EXTENDS Integers, FiniteSetsExt

CONSTANTS
    Users,        \* (db, user) identifiers asking for a pod
    Requests,     \* concurrent GetPodByUser calls
    UserOf,       \* the user of a request
    MaxJobs,      \* job slots the cluster can hold in the model
    InitPool,     \* placeholder jobs existing when the requests start
    Placeholder,  \* the owner label of an unclaimed placeholder
    NoJob,        \* no job in a slot / no job claimed
    NoPod         \* the slot's job has no pod (yet)

ASSUME /\ UserOf \in [Requests -> Users]
       /\ InitPool \in 0..MaxJobs
       /\ {Placeholder, NoJob, NoPod} \cap Users = {}

Jobs == 1..MaxJobs
Owners == Users \cup {Placeholder}

VARIABLES
    jobOwner,  \* job labels: Placeholder, a user, or NoJob for a free slot
    jobTmpl,   \* owner in the job's pod template (labels of its pod)
    jobVer,    \* the job's resourceVersion
    podOwner,  \* the pod's labels: Placeholder, a user, or NoPod
    podReady,  \* the pod is Running with ContainersReady
    podDone,   \* the pod's phase is Succeeded: its companion exited
    podVer,    \* the pod's resourceVersion
    pending,   \* CreatePlaceholderJob goroutines not yet run
    pc,        \* where each request is
    listed,    \* the placeholder jobs of the request's last List
    cand,      \* of those, the ones not tried yet
    snap,      \* the job resourceVersions that List returned
    claimed,   \* the job the request's PATCH claimed, or NoJob
    podSnap,   \* the pod resourceVersion the pod List returned
    got,       \* the pod (by its job slot) the request returns, or NoJob
    pool0      \* history: the number of placeholder jobs in Init

cluster == <<pool0, jobOwner, jobTmpl, jobVer, podOwner, podReady, podDone, podVer>>
req == <<pc, listed, cand, snap, claimed, podSnap, got>>
vars == <<cluster, pending, req>>

TypeOK ==
    /\ pool0 \in 0..InitPool
    /\ jobOwner \in [Jobs -> Owners \cup {NoJob}]
    /\ jobTmpl \in [Jobs -> Owners \cup {NoJob}]
    /\ jobVer \in [Jobs -> 0..3]
    /\ podOwner \in [Jobs -> Owners \cup {NoPod}]
    /\ podReady \in [Jobs -> BOOLEAN]
    /\ podDone \in [Jobs -> BOOLEAN]
    /\ podVer \in [Jobs -> 0..3]
    /\ pending \in 0..(3 * Cardinality(Requests))
    /\ pc \in [Requests -> {"find", "list", "patchJob", "listPod", "patchPod",
                            "create", "wait", "ok", "fail"}]
    /\ listed \in [Requests -> SUBSET Jobs]
    /\ cand \in [Requests -> SUBSET Jobs]
    /\ snap \in [Requests -> [Jobs -> 0..3]]
    /\ claimed \in [Requests -> Jobs \cup {NoJob}]
    /\ podSnap \in [Requests -> 0..3]
    /\ got \in [Requests -> Jobs \cup {NoJob}]

\* The pool createAtLeastOneJob and earlier replenishments left: up to
\* InitPool placeholder jobs (none, when every earlier one was claimed),
\* each with its pod not yet started, started, or ready.
Init ==
    /\ pool0 \in 0..InitPool
    /\ jobOwner = [j \in Jobs |-> IF j <= pool0 THEN Placeholder ELSE NoJob]
    /\ jobTmpl = jobOwner
    /\ \E started, ready \in SUBSET (1..pool0) :
          /\ ready \subseteq started
          /\ podOwner = [j \in Jobs |-> IF j \in started THEN Placeholder ELSE NoPod]
          /\ podReady = [j \in Jobs |-> j \in ready]
          /\ jobVer = [j \in Jobs |-> IF j \in started THEN 1 ELSE 0]
          /\ podVer = [j \in Jobs |-> IF j \in ready THEN 1 ELSE 0]
    /\ podDone = [j \in Jobs |-> FALSE]
    /\ pending = 0
    /\ pc = [r \in Requests |-> "find"]
    /\ listed = [r \in Requests |-> {}]
    /\ cand = [r \in Requests |-> {}]
    /\ snap = [r \in Requests |-> [j \in Jobs |-> 0]]
    /\ claimed = [r \in Requests |-> NoJob]
    /\ podSnap = [r \in Requests |-> 0]
    /\ got = [r \in Requests |-> NoJob]

Goto(r, s) == pc' = [pc EXCEPT ![r] = s]

\* The slot the API server stores the next created job in.
FreeSlot == Min({j \in Jobs : jobOwner[j] = NoJob})

-----------------------------------------------------------------------------
(* GetPodByUser and createJobForUserAbstract, one action per API call.     *)

\* findPodForUser: List pods labelled with the user and placeholder=false
\* (no filter on the phase); return the first if there is one.
FindPod(r) ==
    /\ pc[r] = "find"
    /\ \/ \E j \in Jobs : podOwner[j] = UserOf[r] /\ got' = [got EXCEPT ![r] = j]
                          /\ Goto(r, "ok")
       \/ \A j \in Jobs : podOwner[j] # UserOf[r] /\ Goto(r, "list")
                          /\ UNCHANGED got
    /\ UNCHANGED <<cluster, pending, listed, cand, snap, claimed, podSnap>>

\* List the placeholder jobs with their resourceVersions, sorted oldest
\* first.  The List returns only those jobs, and only their versions.
ListJobs(r) ==
    LET L == {j \in Jobs : jobOwner[j] = Placeholder} IN
    /\ pc[r] = "list"
    /\ listed' = [listed EXCEPT ![r] = L]
    /\ cand' = [cand EXCEPT ![r] = L]
    /\ snap' = [snap EXCEPT ![r] = [j \in Jobs |-> IF j \in L THEN jobVer[j] ELSE 0]]
    /\ Goto(r, "patchJob")
    /\ UNCHANGED <<cluster, pending, claimed, podSnap, got>>

\* Variant with a slip: the patch without the resourceVersion (a blind
\* overwrite of the labels).
PatchJobBlind(r) ==
    LET j == Min(cand[r]) IN
    /\ pc[r] = "patchJob"
    /\ cand[r] # {}
    /\ jobOwner' = [jobOwner EXCEPT ![j] = UserOf[r]]
    /\ jobVer' = [jobVer EXCEPT ![j] = @ + 1]
    /\ claimed' = [claimed EXCEPT ![r] = j]
    /\ Goto(r, "listPod")
    /\ UNCHANGED <<pool0, jobTmpl, podOwner, podReady, podDone, podVer, pending,
                   listed, cand, snap, podSnap, got>>

\* The next candidate: PATCH its labels to the user with the listed
\* resourceVersion.  A conflict means the job changed since the List; try
\* the next one.
PatchJob(r) ==
    LET j == Min(cand[r]) IN
    /\ pc[r] = "patchJob"
    /\ cand[r] # {}
    /\ \/ /\ jobVer[j] = snap[r][j]
          /\ jobOwner' = [jobOwner EXCEPT ![j] = UserOf[r]]
          /\ jobVer' = [jobVer EXCEPT ![j] = @ + 1]
          /\ claimed' = [claimed EXCEPT ![r] = j]
          /\ Goto(r, "listPod")
          /\ UNCHANGED cand
       \/ /\ jobVer[j] # snap[r][j]
          /\ cand' = [cand EXCEPT ![r] = @ \ {j}]
          /\ UNCHANGED <<jobOwner, jobVer, claimed, pc>>
    /\ UNCHANGED <<pool0, jobTmpl, podOwner, podReady, podDone, podVer, pending,
                   listed, snap, podSnap, got>>

\* Variant with a slip: give up on the placeholders after one pass in which
\* every PATCH conflicted.
NextRoundGiveUp(r) ==
    /\ pc[r] = "patchJob"
    /\ cand[r] = {}
    /\ Goto(r, "create")
    /\ UNCHANGED <<cluster, pending, listed, cand, snap, claimed, podSnap, got>>

\* Variant with a slip: retry the same List result instead of listing again.
NextRoundStale(r) ==
    /\ pc[r] = "patchJob"
    /\ cand[r] = {}
    /\ \/ listed[r] = {} /\ Goto(r, "create") /\ UNCHANGED cand
       \/ listed[r] # {} /\ cand' = [cand EXCEPT ![r] = listed[r]] /\ UNCHANGED pc
    /\ UNCHANGED <<cluster, pending, listed, snap, claimed, podSnap, got>>

\* Every candidate conflicted: list again, unless the List was empty, in
\* which case leave the loop for a job of the user's own.
NextRound(r) ==
    /\ pc[r] = "patchJob"
    /\ cand[r] = {}
    /\ Goto(r, IF listed[r] = {} THEN "create" ELSE "list")
    /\ UNCHANGED <<cluster, pending, listed, cand, snap, claimed, podSnap, got>>

\* List the claimed job's pod by the placeholder's random user label; an
\* error unless exactly one is found (the job has no pod yet).
ListPod(r) ==
    LET j == claimed[r] IN
    /\ pc[r] = "listPod"
    /\ \/ podOwner[j] = Placeholder /\ podSnap' = [podSnap EXCEPT ![r] = podVer[j]]
          /\ Goto(r, "patchPod")
       \/ podOwner[j] # Placeholder /\ Goto(r, "fail") /\ UNCHANGED podSnap
    /\ UNCHANGED <<cluster, pending, listed, cand, snap, claimed, got>>

\* PATCH the pod's labels with its listed resourceVersion.  On success
\* start one replacement placeholder, two if the List had fewer than two;
\* on a conflict return the error (and start none).
PatchPod(r) ==
    LET j == claimed[r] IN
    /\ pc[r] = "patchPod"
    /\ \/ /\ podVer[j] = podSnap[r]
          /\ podOwner' = [podOwner EXCEPT ![j] = UserOf[r]]
          /\ podVer' = [podVer EXCEPT ![j] = @ + 1]
          /\ pending' = pending + (IF Cardinality(listed[r]) < 2 THEN 2 ELSE 1)
          /\ got' = [got EXCEPT ![r] = j]
          /\ Goto(r, "ok")
       \/ /\ podVer[j] # podSnap[r]
          /\ Goto(r, "fail")
          /\ UNCHANGED <<podOwner, podVer, pending, got>>
    /\ UNCHANGED <<pool0, jobOwner, jobTmpl, jobVer, podReady, podDone,
                   listed, cand, snap, claimed, podSnap>>

\* No placeholder: start two placeholders in the background and create a
\* job from the template rendered for the user (createJodForUser).
CreateJob(r) ==
    LET s == FreeSlot IN
    /\ pc[r] = "create"
    /\ \E j \in Jobs : jobOwner[j] = NoJob
    /\ jobOwner' = [jobOwner EXCEPT ![s] = UserOf[r]]
    /\ jobTmpl' = [jobTmpl EXCEPT ![s] = UserOf[r]]
    /\ pending' = pending + 2
    /\ Goto(r, "wait")
    /\ UNCHANGED <<pool0, jobVer, podOwner, podReady, podDone, podVer,
                   listed, cand, snap, claimed, podSnap, got>>

\* Watch the user's pods until one is Running and ContainersReady, or the
\* 10 s timeout.
WaitReady(r) ==
    /\ pc[r] = "wait"
    /\ \/ \E j \in Jobs : podOwner[j] = UserOf[r] /\ podReady[j]
                          /\ got' = [got EXCEPT ![r] = j] /\ Goto(r, "ok")
       \/ Goto(r, "fail") /\ UNCHANGED got
    /\ UNCHANGED <<cluster, pending, listed, cand, snap, claimed, podSnap>>

-----------------------------------------------------------------------------
(* Background goroutines and the cluster's controllers.                    *)

\* CreatePlaceholderJob: a job whose template carries placeholder labels.
CreatePlaceholder ==
    LET s == FreeSlot IN
    /\ pending > 0
    /\ \E j \in Jobs : jobOwner[j] = NoJob
    /\ jobOwner' = [jobOwner EXCEPT ![s] = Placeholder]
    /\ jobTmpl' = [jobTmpl EXCEPT ![s] = Placeholder]
    /\ pending' = pending - 1
    /\ UNCHANGED <<pool0, jobVer, podOwner, podReady, podDone, podVer, req>>

\* The job controller creates the job's pod from its template and records
\* it in the job's status (a new resourceVersion).
StartPod(j) ==
    /\ jobOwner[j] # NoJob
    /\ podOwner[j] = NoPod
    /\ podOwner' = [podOwner EXCEPT ![j] = jobTmpl[j]]
    /\ jobVer' = [jobVer EXCEPT ![j] = @ + 1]
    /\ UNCHANGED <<pool0, jobOwner, jobTmpl, podReady, podDone, podVer, pending, req>>

\* The kubelet reports the pod Running and ready (a new resourceVersion).
PodBecomesReady(j) ==
    /\ podOwner[j] # NoPod
    /\ ~podReady[j] /\ ~podDone[j]
    /\ podReady' = [podReady EXCEPT ![j] = TRUE]
    /\ podVer' = [podVer EXCEPT ![j] = @ + 1]
    /\ UNCHANGED <<pool0, jobOwner, jobTmpl, jobVer, podOwner, podDone, pending, req>>

\* The companion ends its pod (no user for 10 polls after one connected, or
\* 48 h up while a user is connected or none ever was, which covers every
\* placeholder): the pod goes Succeeded and the job Complete, both new
\* resourceVersions.  Labels stay, so a completed placeholder is still
\* listed as one.  Nothing removes the pod: DeleteCompletedLfsPods selects
\* status.phase=completed, which is no phase, and then deletes only pods
\* already being deleted.
PodCompletes(j) ==
    /\ podOwner[j] # NoPod
    /\ podReady[j]
    /\ podReady' = [podReady EXCEPT ![j] = FALSE]
    /\ podDone' = [podDone EXCEPT ![j] = TRUE]
    /\ podVer' = [podVer EXCEPT ![j] = @ + 1]
    /\ jobVer' = [jobVer EXCEPT ![j] = @ + 1]
    /\ UNCHANGED <<pool0, jobOwner, jobTmpl, podOwner, pending, req>>

RequestStep(r) ==
    \/ FindPod(r) \/ ListJobs(r) \/ PatchJob(r) \/ NextRound(r)
    \/ ListPod(r) \/ PatchPod(r) \/ CreateJob(r) \/ WaitReady(r)

Next ==
    \/ \E r \in Requests : RequestStep(r)
    \/ CreatePlaceholder
    \/ \E j \in Jobs : StartPod(j) \/ PodBecomesReady(j) \/ PodCompletes(j)

Spec == Init /\ [][Next]_vars

\* Each request's goroutine is scheduled (weak fairness; API errors are not
\* modelled, so a List or PATCH returns); whether the cluster starts pods and
\* the background goroutines run is left open.
FairSpec ==
    /\ Spec
    /\ \A r \in Requests : WF_vars(RequestStep(r))

-----------------------------------------------------------------------------
(* Properties.                                                             *)

Done == \A r \in Requests : pc[r] \in {"ok", "fail"}

\* Spec 8 law 6, first half: the resourceVersion-gated PATCH makes a claim
\* exclusive; no two requests claim the same placeholder job.
ClaimExclusive ==
    \A r1, r2 \in Requests :
        r1 # r2 /\ claimed[r1] # NoJob => claimed[r1] # claimed[r2]

\* Spec 8 law 6, second half: with K requests of distinct users and a pool
\* of P placeholders, at least min(K, P) placeholders are claimed; the retry
\* loop does not fall back to a cold job while a placeholder is free, and a
\* conflict on one listed job moves on to the next.
ClaimsMatchPool ==
    Done => Quantify(Requests, LAMBDA r : claimed[r] # NoJob)
              >= Min({Cardinality(Requests), pool0})

\* Every GetPodByUser call returns: the claim loop in createJobForUserAbstract
\* ends however the PATCHes conflict.
RequestsReturn == \A r \in Requests : <>(pc[r] \in {"ok", "fail"})

\* A claimed job's pod carries the user's labels, or is still being patched:
\* a pod is never left labelled as a placeholder of a job that a user owns.
NoStrandedPod ==
    \A j \in Jobs :
        podOwner[j] \notin {NoPod, jobOwner[j]} =>
            \E r \in Requests : claimed[r] = j /\ pc[r] \in {"listPod", "patchPod"}

\* Spec 4.1: Proxy connects the user to "their running pod".  GetPodByUser
\* never returns a pod whose companion already ended, whether it is the
\* user's pod found by findPodForUser or a placeholder just claimed
\* (Proxy would dial a pod that is gone, as would every later request of
\* the user, which findPodForUser hands the same pod).
NoCompletedPodReturned ==
    [][\A r \in Requests :
         pc[r] # "ok" /\ pc'[r] = "ok" => ~podDone[got'[r]]]_vars

=============================================================================
