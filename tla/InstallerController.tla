------------------------ MODULE InstallerController ------------------------
(***************************************************************************)
(* The installer controller: one worker that takes names from a rate       *)
(* limited queue and installs, or uninstalls, the Karmada control plane of  *)
(* each KarmadaDeployment with helm.                                       *)
(*                                                                         *)
(* One action per call that another actor can observe (an API request, a   *)
(* helm operation, a queue method); between two of them users edit and     *)
(* delete objects, the informer catches up and the process may crash.      *)
(* work.kmd is the copy that syncHandler took from the informer; every     *)
(* status the workflow writes is the status of that copy.                  *)
(***************************************************************************)
EXTENDS KmdApi, WorkQueue

CONSTANTS
  MaxRetry,           \* MaxInstallSyncRetry
  MaxConflictRetries  \* attempts of retry.DefaultRetry

VARIABLES
  wq,          \* the work queue
  work,        \* the worker: program counter, key, copy of the object, ...
  release,     \* [Names -> [Namespaces -> the helm release karmada-<name>]]
  nsState      \* [Namespaces -> "absent", "active" or "terminating"]

ctlVars == <<wq, work>>
extVars == <<release, nsState, secrets>>
vars == <<api, watch, cache, born, wq, work, release, nsState, secrets, faults>>

InstallPcs == {"observe", "install", "preflight", "chart", "namespace", "helm",
               "helmWait", "completed", "record", "ready"}
UninstallPcs == {"uninstall", "helmUninstall", "cleanup", "deleteNs"}
Pcs == InstallPcs \cup UninstallPcs \cup
       {"idle", "sync", "finalize", "report", "ok", "failed"}

NoRelease == [status |-> "none", uid |-> 0, images |-> ""]
Releases == [status : {"none", "pending", "deployed", "failed"}, uid : Nat,
             images : Images \cup {""}]

ASSUME InstallerAssumption ==
  /\ NoName \notin Names
  /\ MaxRetry \in Nat /\ MaxConflictRetries \in Nat \ {0} /\ MaxFaults \in Nat

Idle == [pc |-> "idle", key |-> NoName, kmd |-> NoKmd, ns |-> "", tries |-> 0]

TypeOK ==
  /\ ApiTypeOK
  /\ wq \in QueueType(Names, MaxRetry)
  /\ work \in [pc : Pcs, key : Names \cup {NoName}, kmd : Kmds \cup {NoKmd},
               ns : Namespaces \cup {""}, tries : 0..MaxConflictRetries]
  /\ release \in [Names -> [Namespaces -> Releases]]
  /\ nsState \in [Namespaces -> {"absent", "active", "terminating"}]
  /\ secrets \subseteq Names \X Nat
  /\ faults \in 0..MaxFaults

Init ==
  /\ ApiInit
  /\ wq = EmptyQueue(Names)
  /\ work = Idle
  /\ release = [n \in Names |-> [ns \in Namespaces |-> NoRelease]]
  /\ nsState = [ns \in Namespaces |-> "absent"]
  /\ secrets = {}
  /\ faults = MaxFaults

-----------------------------------------------------------------------------
(* Vocabulary of the worker's steps *)

key == work.key
kmd == work.kmd

Goto(pc) == work' = [work EXCEPT !.pc = pc]
GotoWith(pc, obj) == work' = [work EXCEPT !.pc = pc, !.kmd = obj]

\* KarmadaDeploymentProgressing and ...NotReady / ...Ready, as the reason of the
\* single Ready condition.
WithReason(obj, reason) == [obj EXCEPT !.status.ready = reason]
IsIntallModeFailed(obj) == obj.status.ready = "IntallModeFailed"
IsConditionEmpty(obj) == obj.status.ready = ""

\* A failure that the code registers in the status before it returns the error.
Report(reason) == GotoWith("report", WithReason(kmd, reason))

\* SetStatus of the worker's copy returns no error, or it returns one: the
\* object is gone, or the request fails.
StatusSet(status) == SetStatus(key, status) /\ UNCHANGED faults
StatusNotSet ==
  /\ \/ ~Exists(key) /\ UNCHANGED faults
     \/ Fault("api")
  /\ UNCHANGED <<api, watch>>

HasRelease(n) == \E ns \in Namespaces : release[n][ns] # NoRelease

-----------------------------------------------------------------------------
(* The queue and the event handlers *)

\* Mutant: the update handler compares specs only and misses a deletion.
NotifiesSpecOnly(old, new) == old = NoKmd \/ new = NoKmd \/ old.spec # new.spec

\* Mutant: the update handler waits for deletions only.
NotifiesDeletionOnly(old, new) == old = NoKmd \/ new = NoKmd \/ new.deleting

\* AddEvent, UpdateEvent and DeleteEvent: what makes the handler enqueue the key.
Notifies(old, new) ==
  \/ old = NoKmd
  \/ new = NoKmd
  \/ new.deleting
  \/ old.spec # new.spec

InformerEvent(n) ==
  /\ Deliver(n)
  /\ wq' = IF Notifies(cache[n], Head(watch[n])) THEN Add(wq, n) ELSE wq
  /\ UNCHANGED <<work, extVars, faults>>

BackoffElapses(n) ==
  /\ n \in wq.waiting
  /\ wq' = Elapse(wq, n)
  /\ UNCHANGED <<apiVars, work, extVars, faults>>

TakeKey ==
  /\ work.pc = "idle"
  /\ wq.queue # <<>>
  /\ wq' = Get(wq)
  /\ work' = [Idle EXCEPT !.pc = "sync", !.key = Head(wq.queue)]
  /\ UNCHANGED <<apiVars, extVars, faults>>

\* processNext after syncHandler returned: forget the failures, back off, or give up.
Succeed ==
  /\ work.pc = "ok"
  /\ wq' = Done(Forget(wq, key), key)
  /\ work' = Idle
  /\ UNCHANGED <<apiVars, extVars, faults>>

\* Mutant: no limit to the retries.
RetryForever ==
  /\ work.pc = "failed"
  /\ wq' = Done(AddRateLimited(wq, key), key)
  /\ work' = Idle
  /\ UNCHANGED <<apiVars, extVars, faults>>

\* Mutant: the worker loops over a failing key instead of giving it back.
RetryInPlace ==
  /\ work.pc = "failed"
  /\ work' = [Idle EXCEPT !.pc = "sync", !.key = key]
  /\ UNCHANGED <<apiVars, wq, extVars, faults>>

Retry ==
  /\ work.pc = "failed"
  /\ wq.failures[key] < MaxRetry
  /\ wq' = Done(AddRateLimited(wq, key), key)
  /\ work' = Idle
  /\ UNCHANGED <<apiVars, extVars, faults>>

Drop ==
  /\ work.pc = "failed"
  /\ wq.failures[key] >= MaxRetry
  /\ wq' = Done(Forget(wq, key), key)
  /\ work' = Idle
  /\ UNCHANGED <<apiVars, extVars, faults>>

-----------------------------------------------------------------------------
(* syncHandler *)

SyncGone ==
  /\ work.pc = "sync"
  /\ cache[key] = NoKmd
  /\ Goto("ok")
  /\ UNCHANGED <<apiVars, wq, extVars, faults>>

\* Whether to uninstall is decided once, from the copy taken here.
SyncDeleted ==
  LET obj == cache[key]
  IN  /\ work.pc = "sync"
      /\ obj # NoKmd
      /\ obj.deleting
      /\ GotoWith(IF ~IsIntallModeFailed(obj) /\ ~IsConditionEmpty(obj) /\ obj.label = "false"
                  THEN "uninstall" ELSE "finalize", obj)
      /\ UNCHANGED <<apiVars, wq, extVars, faults>>

\* initDefaultValues: the namespace is drawn anew as long as none is stored.
Defaulted(obj, ns) ==
  [obj EXCEPT !.label = IF @ = "" THEN "false" ELSE @,
              !.spec.ns = IF @ = "" THEN ns ELSE @,
              !.spec.images = IF @ = "" THEN DefaultImages ELSE @,
              !.finalizers = @ \cup {InstallerFinalizer}]

\* Only a missing label or finalizer makes initDefaultValues write what it
\* defaulted.  The Update is made from the informer's copy and the object it
\* returns is discarded: the worker keeps the old generation.
IsUpdate(obj) == obj.label = "" \/ InstallerFinalizer \notin obj.finalizers

\* Mutant: the object is written before the drawn namespace is in it.
SyncInstallUnstored ==
  /\ work.pc = "sync"
  /\ cache[key] # NoKmd
  /\ ~cache[key].deleting
  /\ \E ns \in RandomNamespaces[key] :
       LET obj == Defaulted(cache[key], ns)
       IN  /\ GotoWith("observe", obj)
           /\ IF IsUpdate(cache[key])
              THEN Fresh(key) /\ Update(key, [obj EXCEPT !.spec.ns = cache[key].spec.ns])
              ELSE UNCHANGED <<api, watch>>
  /\ UNCHANGED <<cache, born, wq, extVars, faults>>

SyncInstall ==
  /\ work.pc = "sync"
  /\ cache[key] # NoKmd
  /\ ~cache[key].deleting
  /\ \E ns \in RandomNamespaces[key] :
       LET obj == Defaulted(cache[key], ns)
       IN  /\ GotoWith("observe", obj)
           /\ IF IsUpdate(cache[key])
              THEN Fresh(key) /\ Update(key, obj)
              ELSE UNCHANGED <<api, watch>>
  /\ UNCHANGED <<cache, born, wq, extVars, faults>>

\* Mutant: a failed Update is logged and the sync goes on.
SyncInstallAnyway ==
  /\ work.pc = "sync"
  /\ cache[key] # NoKmd
  /\ ~cache[key].deleting
  /\ IsUpdate(cache[key])
  /\ \/ ~Fresh(key) /\ UNCHANGED faults
     \/ Fault("api")
  /\ \E ns \in RandomNamespaces[key] : GotoWith("observe", Defaulted(cache[key], ns))
  /\ UNCHANGED <<apiVars, wq, extVars>>

SyncInstallFails ==
  /\ work.pc = "sync"
  /\ cache[key] # NoKmd
  /\ ~cache[key].deleting
  /\ IsUpdate(cache[key])
  /\ \/ ~Fresh(key) /\ UNCHANGED faults
     \/ Fault("api")
  /\ Goto("failed")
  /\ UNCHANGED <<apiVars, wq, extVars>>

\* One attempt of the loop that removes the finalizer: it reads the informer's
\* copy again, and conflicts when that copy is not current.
NothingToFinalize ==
  /\ work.pc = "finalize"
  /\ cache[key] # NoKmd => InstallerFinalizer \notin cache[key].finalizers
  /\ Goto("ok")
  /\ UNCHANGED <<apiVars, wq, extVars, faults>>

RemoveFinalizer ==
  /\ work.pc = "finalize"
  /\ cache[key] # NoKmd
  /\ InstallerFinalizer \in cache[key].finalizers
  /\ Fresh(key)
  /\ Update(key, [cache[key] EXCEPT !.finalizers = @ \ {InstallerFinalizer}])
  /\ Goto("ok")
  /\ UNCHANGED <<cache, born, wq, extVars, faults>>

RemoveFinalizerFails ==
  /\ work.pc = "finalize"
  /\ cache[key] # NoKmd
  /\ InstallerFinalizer \in cache[key].finalizers
  /\ \/ /\ ~Fresh(key) /\ Exists(key) \* conflict
        /\ UNCHANGED faults
        /\ IF work.tries + 1 < MaxConflictRetries
           THEN work' = [work EXCEPT !.tries = @ + 1]
           ELSE Goto("failed")
     \/ /\ ~Exists(key) \* not found
        /\ UNCHANGED faults
        /\ Goto("failed")
     \/ Fault("api") /\ Goto("failed")
  /\ UNCHANGED <<apiVars, wq, extVars>>

-----------------------------------------------------------------------------
(* InstallerFactory: Sync and SyncWithAction *)

\* Sync ignores the error of this SetStatus.
ObserveGeneration ==
  LET obj == IF kmd.status.obsGen = kmd.gen THEN kmd
             ELSE WithReason([kmd EXCEPT !.status.obsGen = kmd.gen], "Progressing")
  IN  /\ work.pc = "observe"
      /\ IF obj = kmd THEN UNCHANGED <<api, watch, faults>>
         ELSE StatusSet(obj.status) \/ StatusNotSet
      /\ GotoWith("install", obj)
      /\ UNCHANGED <<cache, born, wq, extVars>>

\* GetInstaller knows Helm alone; it reads the credentials of the destination
\* cluster to make the helm client.
NoInstaller ==
  /\ work.pc \in {"install", "uninstall"}
  /\ \/ kmd.spec.mode = "Karmadactl" /\ UNCHANGED faults
     \/ kmd.spec.mode = "Helm" /\ Fault("endpoint")
  /\ Report("IntallModeFailed")
  /\ UNCHANGED <<apiVars, wq, extVars>>

ReportFailure ==
  /\ work.pc = "report"
  /\ StatusSet(kmd.status) \/ StatusNotSet
  /\ Goto("failed")
  /\ UNCHANGED <<cache, born, wq, extVars>>

\* Sync after a successful Install.
RecordReady ==
  LET obj == WithReason(kmd, "Succeeded")
  IN  /\ work.pc = "ready"
      /\ \/ StatusSet(obj.status) /\ GotoWith("ok", obj)
         \/ StatusNotSet /\ Goto("failed")
      /\ UNCHANGED <<cache, born, wq, extVars>>

-----------------------------------------------------------------------------
(* installWorkflow *)

\* Install: a copy whose phase is Completed is not deployed again.
Install ==
  /\ work.pc = "install"
  /\ kmd.spec.mode = "Helm"
  /\ Goto(IF kmd.status.phase = "Completed" THEN "ready" ELSE "preflight")
  /\ UNCHANGED <<apiVars, wq, extVars, faults>>

EnterPhase(from, phase, to) ==
  LET obj == [kmd EXCEPT !.status.phase = phase]
  IN  /\ work.pc = from
      /\ \/ StatusSet(obj.status) /\ GotoWith(to, obj)
         \/ StatusNotSet /\ Goto("failed")
      /\ UNCHANGED <<cache, born, wq, extVars>>

Preflight == EnterPhase("preflight", "Preflight", "chart")

ChartNotFetched ==
  /\ work.pc = "chart"
  /\ Fault("chart")
  /\ Report("HelmChartFailed")
  /\ UNCHANGED <<apiVars, wq, extVars>>

Deploy == EnterPhase("chart", "Deploying", "namespace")

EnsureNamespace ==
  /\ work.pc = "namespace"
  /\ \/ /\ UNCHANGED faults
        /\ nsState' = [nsState EXCEPT ![kmd.spec.ns] = IF @ = "absent" THEN "active" ELSE @]
        /\ Goto("helm")
     \/ /\ Fault("api")
        /\ UNCHANGED nsState
        /\ Goto("failed")
  /\ UNCHANGED <<apiVars, wq, release, secrets>>

ValuesNotComposed ==
  /\ work.pc = "helm"
  /\ Fault("values")
  /\ Report("HelmInitFailed")
  /\ UNCHANGED <<apiVars, wq, extVars>>

\* Mutant: a release that is already there is taken for the one asked for.
InstallTaken ==
  /\ work.pc = "helm"
  /\ release[key][kmd.spec.ns] # NoRelease \/ nsState[kmd.spec.ns] # "active"
  /\ Goto("completed")
  /\ UNCHANGED <<apiVars, wq, extVars, faults>>

\* Mutant: a release that is already there is purged, to install on the retry.
InstallPurges ==
  /\ work.pc = "helm"
  /\ release[key][kmd.spec.ns] # NoRelease \/ nsState[kmd.spec.ns] # "active"
  /\ release' = [release EXCEPT ![key][kmd.spec.ns] = NoRelease]
  /\ Report("HelmReleaseFailed")
  /\ UNCHANGED <<apiVars, wq, nsState, secrets, faults>>

\* Mutant: the refusal is returned without being registered in the status.
InstallRefusedSilently ==
  /\ work.pc = "helm"
  /\ release[key][kmd.spec.ns] # NoRelease \/ nsState[kmd.spec.ns] # "active"
  /\ Goto("failed")
  /\ UNCHANGED <<apiVars, wq, extVars, faults>>

\* UpgradeFromPath always installs: helm refuses a name that has a release in
\* the namespace, whatever its state, and cannot write to a namespace that is
\* going away.
InstallRefused ==
  /\ work.pc = "helm"
  /\ release[key][kmd.spec.ns] # NoRelease \/ nsState[kmd.spec.ns] # "active"
  /\ Report("HelmReleaseFailed")
  /\ UNCHANGED <<apiVars, wq, extVars, faults>>

\* Mutant: the release goes into a namespace that is being deleted.
HelmInstallsAnywhere ==
  /\ work.pc = "helm"
  /\ release[key][kmd.spec.ns] = NoRelease
  /\ release' = [release EXCEPT ![key][kmd.spec.ns] =
                   [status |-> "pending", uid |-> kmd.uid, images |-> kmd.spec.images]]
  /\ Goto("helmWait")
  /\ UNCHANGED <<apiVars, wq, nsState, secrets, faults>>

HelmInstalls ==
  /\ work.pc = "helm"
  /\ release[key][kmd.spec.ns] = NoRelease
  /\ nsState[kmd.spec.ns] = "active"
  /\ release' = [release EXCEPT ![key][kmd.spec.ns] =
                   [status |-> "pending", uid |-> kmd.uid, images |-> kmd.spec.images]]
  /\ Goto("helmWait")
  /\ UNCHANGED <<apiVars, wq, nsState, secrets, faults>>

HelmDeploys ==
  /\ work.pc = "helmWait"
  /\ release[key][kmd.spec.ns] # NoRelease
  /\ release' = [release EXCEPT ![key][kmd.spec.ns].status = "deployed"]
  /\ Goto("completed")
  /\ UNCHANGED <<apiVars, wq, nsState, secrets, faults>>

\* The install is atomic: helm removes the release of one that failed, and
\* leaves it behind as failed when that fails too.
HelmInstallFails ==
  /\ work.pc = "helmWait"
  /\ \/ /\ Fault("helm") \/ (nsState[kmd.spec.ns] # "active" /\ UNCHANGED faults)
        /\ release' = [release EXCEPT ![key][kmd.spec.ns] = NoRelease]
     \/ /\ Fault("purge")
        /\ release[key][kmd.spec.ns] # NoRelease
        /\ release' = [release EXCEPT ![key][kmd.spec.ns].status = "failed"]
  /\ Report("HelmReleaseFailed")
  /\ UNCHANGED <<apiVars, wq, nsState, secrets>>

\* Completed, up to its SetStatus: read the kubeconfig of the release, store it
\* in a secret owned by the object.
StoreKubeconfig ==
  /\ work.pc = "completed"
  /\ release[key][kmd.spec.ns] # NoRelease
  /\ secrets' = secrets \cup {<<key, kmd.uid>>}
  /\ GotoWith("record", [kmd EXCEPT !.status.secret = kmd.uid, !.status.cpr = TRUE,
                                    !.status.phase = "Completed"])
  /\ UNCHANGED <<apiVars, wq, release, nsState, faults>>

KubeconfigNotStored ==
  /\ work.pc = "completed"
  /\ Fault("api") \/ (release[key][kmd.spec.ns] = NoRelease /\ UNCHANGED faults)
  /\ Goto("failed")
  /\ UNCHANGED <<apiVars, wq, extVars>>

Completed == EnterPhase("record", "Completed", "ready")

-----------------------------------------------------------------------------
(* uninstallWorkflow *)

KubeconfigSecret == {<<key, kmd.status.secret>>}

\* Deleting a namespace returns before the namespace is gone.
NamespaceDeleted(ns) ==
  nsState' = IF ns # "" /\ nsState[ns] = "active"
             THEN [nsState EXCEPT ![ns] = "terminating"] ELSE nsState

\* No release under this name: the secret and the namespace of the spec are
\* deleted, and the errors ignored.
UninstallNothing ==
  /\ work.pc = "uninstall"
  /\ kmd.spec.mode = "Helm"
  /\ ~HasRelease(key)
  /\ \/ /\ UNCHANGED faults
        /\ secrets' = secrets \ KubeconfigSecret
        /\ NamespaceDeleted(kmd.spec.ns)
     \/ /\ Fault("api") \* one request fails, or both do
        /\ \/ UNCHANGED secrets /\ NamespaceDeleted(kmd.spec.ns)
           \/ secrets' = secrets \ KubeconfigSecret /\ UNCHANGED nsState
           \/ UNCHANGED <<secrets, nsState>>
  /\ Goto("finalize")
  /\ UNCHANGED <<apiVars, wq, release>>

\* Mutant: a lookup that fails counts as no release.
FindReleaseOrNone ==
  /\ work.pc = "uninstall"
  /\ kmd.spec.mode = "Helm"
  /\ \/ /\ UNCHANGED faults
        /\ \E ns \in Namespaces :
             /\ release[key][ns] # NoRelease
             /\ work' = [work EXCEPT !.pc = "helmUninstall", !.ns = ns]
     \/ Fault("api") /\ Goto("finalize")
  /\ UNCHANGED <<apiVars, wq, extVars>>

\* GetRelease looks the name up in every namespace.
FindRelease ==
  /\ work.pc = "uninstall"
  /\ kmd.spec.mode = "Helm"
  /\ \/ /\ UNCHANGED faults
        /\ \E ns \in Namespaces :
             /\ release[key][ns] # NoRelease
             /\ work' = [work EXCEPT !.pc = "helmUninstall", !.ns = ns]
     \/ Fault("api") /\ Goto("failed")
  /\ UNCHANGED <<apiVars, wq, extVars>>

\* The error of helm is ignored.
HelmUninstall ==
  /\ work.pc = "helmUninstall"
  /\ \/ /\ UNCHANGED faults
        /\ release' = [release EXCEPT ![key][work.ns] = NoRelease]
     \/ Fault("helm") /\ UNCHANGED release
  /\ Goto("cleanup")
  /\ UNCHANGED <<apiVars, wq, nsState, secrets>>

Cleanup ==
  /\ work.pc = "cleanup"
  /\ \/ UNCHANGED faults /\ secrets' = secrets \ KubeconfigSecret
     \/ Fault("api") /\ UNCHANGED secrets
  /\ Goto("deleteNs")
  /\ UNCHANGED <<apiVars, wq, release, nsState>>

\* Not found, or a conflict with a deletion under way, is an error like any other.
DeleteNamespace ==
  /\ work.pc = "deleteNs"
  /\ \/ /\ UNCHANGED faults
        /\ NamespaceDeleted(work.ns)
        /\ Goto(IF nsState[work.ns] = "active" THEN "finalize" ELSE "failed")
     \/ Fault("api") /\ UNCHANGED nsState /\ Goto("failed")
  /\ UNCHANGED <<apiVars, wq, release, secrets>>

-----------------------------------------------------------------------------
(* The process, and the cluster around it *)

\* The process dies and another one takes over: nothing but the objects survives,
\* and a helm operation under way is abandoned.
Restart ==
  /\ Relist
  /\ wq' = EmptyQueue(Names)
  /\ work' = Idle
  /\ UNCHANGED extVars

Crash == Fault("crash") /\ Restart

\* GetInstaller dereferences spec.mode, which is absent when the user gave none.
InstallerPanics ==
  /\ work.pc \in {"install", "uninstall"}
  /\ kmd.spec.mode = ""
  /\ Restart
  /\ UNCHANGED faults

NamespaceGone(ns) ==
  /\ nsState[ns] = "terminating"
  /\ nsState' = [nsState EXCEPT ![ns] = "absent"]
  /\ release' = [n \in Names |-> [release[n] EXCEPT ![ns] = NoRelease]]
  /\ UNCHANGED <<apiVars, ctlVars, secrets, faults>>

\* The garbage collector removes a secret whose owner is gone.
SecretCollected(n, uid) ==
  /\ <<n, uid>> \in secrets
  /\ Exists(n) => api[n].uid # uid
  /\ secrets' = secrets \ {<<n, uid>>}
  /\ UNCHANGED <<apiVars, ctlVars, release, nsState, faults>>

-----------------------------------------------------------------------------
SyncStep ==
  \/ SyncGone \/ SyncDeleted \/ SyncInstall \/ SyncInstallFails
  \/ NothingToFinalize \/ RemoveFinalizer \/ RemoveFinalizerFails
  \/ ObserveGeneration \/ NoInstaller \/ ReportFailure \/ RecordReady

InstallStep ==
  \/ Install \/ Preflight \/ ChartNotFetched \/ Deploy \/ EnsureNamespace
  \/ ValuesNotComposed \/ InstallRefused \/ HelmInstalls \/ HelmDeploys
  \/ HelmInstallFails \/ StoreKubeconfig \/ KubeconfigNotStored \/ Completed

UninstallStep ==
  UninstallNothing \/ FindRelease \/ HelmUninstall \/ Cleanup \/ DeleteNamespace

WorkerStep ==
  \/ TakeKey \/ Succeed \/ Retry \/ Drop
  \/ SyncStep \/ InstallStep \/ UninstallStep

ProcessDies == InstallerPanics \/ Crash

ClusterStep ==
  \/ \E ns \in Namespaces : NamespaceGone(ns)
  \/ \E s \in secrets : SecretCollected(s[1], s[2])

Next ==
  \/ UserStep /\ UNCHANGED <<ctlVars, extVars, faults>>
  \/ \E n \in Names : InformerEvent(n) \/ BackoffElapses(n)
  \/ WorkerStep
  \/ ProcessDies
  \/ ClusterStep

Spec == Init /\ [][Next]_vars

\* The worker goroutine runs, the watch delivers, timers fire and namespaces
\* finish terminating; nothing is assumed of users, failures or crashes.
Fairness ==
  /\ WF_vars(WorkerStep \/ InstallerPanics)
  /\ \A n \in Names : WF_vars(InformerEvent(n)) /\ WF_vars(BackoffElapses(n))
  /\ \A ns \in Namespaces : WF_vars(NamespaceGone(ns))

FairSpec == Spec /\ Fairness
=============================================================================
