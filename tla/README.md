# TLA+ models of karmada-operator

karmada-operator watches cluster scoped `KarmadaDeployment` objects ("kmd"), installs a Karmada
control plane with helm for each of them, keeps a summary of every control plane in the status of
its object, and takes the control plane down again when the object is deleted. This directory
holds TLA+ models of that process, TLC configurations that check them on small instances, and
proofs, checked by TLAPS, that hold for every instance.

Paths below are relative to the root of the repository.

## 1. Inventory

| component | state | operations | talks to |
|---|---|---|---|
| **installer controller** `pkg/controller/installer_controller.go` | one rate limited work queue, one worker | event handlers, `processNext`, `syncHandler`, `initDefaultValues`, the loop that removes the finalizer | informer cache (reads), API server (writes), installer factory |
| **installer factory, conditions** `pkg/installer/installerfactory.go`, `pkg/apis/install/v1alpha1/helpers.go` | none; one Ready condition in the status | `Sync`, `SyncWithAction`, `GetInstaller` | `status.SetStatus`, workflows |
| **helm workflows** `pkg/installer/helm/{install,uninstall,installer}.go` | release, namespace and kubeconfig secret in the destination cluster; phase in the status | `Preflight`, `Deploy`, `Completed`; `Uninstall`, `cleanup` | helm client, destination cluster, `SetStatus` |
| **status writer** `pkg/status/phase.go` | none | `SetStatus`: get by name, replace the whole status, retry on conflict | API server |
| **summary controller** `pkg/controller/summary/summary_controller.go` | a second queue and worker; a map of summary managers by name | event handlers, `syncKmdStatusResource`, `GetSummaryManager`, `removekarmadaDeployment` | the same informer, API server |
| **summary manager** `pkg/controller/summary/summary_manager.go` | a close channel, dynamic informers on the control plane, goroutines in `Run` | `Run`, `worker`, `processNext`, `Shuntdown`; aggregation of nodes, resources, clusters | informer cache, `SetStatus` |
| **informer manager** `.../informermanager/informer_manager.go` | handlers and synced informers behind a lock | `ForResource`, `Start`, `Stop`, `WaitForCacheSync` | control plane API |
| **helm client** `pkg/helm/v3` | helm storage | `UpgradeFromPath`, `Get`, `Uninstall` | destination cluster |
| **chart fetching** `pkg/installer/helm/install.go`, `pkg/helm/v3/pull.go` | chart file and repository indexes on disk | `fetchChart`, `PullWithRepoURL`, `Pull` | chart repositories |
| **helm repositories** `pkg/helm/v3/repository.go` | helm's repository configuration | `RepositoryAdd`, `RepositoryRemove`, ... (no caller) | - |
| **chart values** `pkg/installer/helm/values.go`, `pkg/utils/cluster.go` | none | `Convert_KarmadaDeployment_To_Values`, `SetChartDefaultValues`, `GetKubeMasterIP` | the operator's own cluster (node addresses) |
| **process** `cmd/app/controllermanager.go` | the lease | `Run`, `StartControllers` | starts both controllers over one informer |
| **work queue** `vendor/k8s.io/client-go/util/workqueue` | queue, dirty and processing sets, delayed keys, failures | `Add`, `Get`, `Done`, `AddRateLimited`, `Forget` | - |

Left aside: generated clients, listers, deepcopy; command line and configuration; the operator's own
helm chart and CRD manifests (read for what they settle: the status subresource, the enum of modes,
one worker per controller).

### How they interact, and what is hard

The two controllers never call each other. They meet in four places, and most of what can go wrong
is there:

* **Copies.** Both work on copies from one informer cache. A copy is old as soon as anybody writes,
  the operator included: the worker's own `Update` comes back as an event and queues another sync.
* **The status.** `SetStatus` is not an update of a field. It fetches whatever is stored under the name
  and replaces the whole status with the caller's, and its retry on a conflict hides that something
  was overwritten. The installer and every summary goroutine write that way.
* **Finalizers.** Each controller adds and removes one of its own, with an `Update` from its copy.
* **The process.** A panic of either worker ends both; all progress has to be found again in the
  objects and the cluster. A summary goroutine's panic is one of these too.

A fifth place is the destination cluster itself: objects may name the same namespace, and a deletion
takes the namespace as a whole.

To that come helm operations that fail halfway, namespaces that go on terminating after their
deletion was acknowledged, names that are used again, keys that are given up after a number of
retries with no resync to bring them back, and one worker for all names.

What makes each component correct, in one line each:

* installer: a status never claims what is not there; nothing is installed for an object that could
  vanish unnoticed; one object has one control plane; a live object never loses it; a deletion does
  what was decided before it lets go; everything settles.
* summary: a manager exists only while a finalizer guards its removal; a ready control plane gets
  its summary; a deletion is not held up.
* status writer: what was observed is not unobserved.
* queue: no event is lost while the key is processed.
* a manager's goroutines: sum up only what was listed, stop when told to, end up agreeing with the listers.
* chart fetching: what is there is used, what can be had is had.
* aggregation, values (pure): totals are totals whichever parts clusters report; each module gets what its
  own entries and its group's settings say.

## 2. Modules

```
WorkQueue    KmdApi                          InformerManager   SummaryAggregation    ChartFetch   ChartValues
     \      /     \                               \        /                         \       /
 InstallerController  SummaryController          SummaryManager                   InstallPreflight
        |                 |                          |                                |
 InstallerProperties      |                      MCSummary                       MCPreflight
   |        |     \       |
   |        |      \---- KarmadaOperator
   |        |                 |
   |   InstallerInvariant     |        InstallerInvariant is extended by InstallerEffects, too;
   |      |        \          |        InstallerLifecycle has an INSTANCE of KmdLifecycle,
   |      |         OperatorInvariant  which it implements
   |      |                   |
 InstallerLifecycle           |
   \      |                   |
    MCInstaller ------ MCOperator
```

The proofs are beside them, each module over the one above it:

```
InstallerProofs                EXTENDS InstallerInvariant
  InstallerStepProofs          and InstallerEffects
    InstallerOwnershipProofs   and InstallerLifecycle
    InstallerNoticeProofs
      OperatorProofs           EXTENDS both, and OperatorInvariant
FoldProofs                     EXTENDS FiniteSetsExt
  SummaryManagerProofs         and SummaryManager
  PreflightProofs              and InstallPreflight
```

**WorkQueue** is client-go's rate limited queue as a record (`queue`, `dirty`, `processing`, `waiting`,
`failures`) and one operator for each method, so that a controller can call several in one step:
`Done(Forget(q, k), k)`.

**KmdApi** is what the controllers share: `api` (stored objects), `watch` (versions on their way to the
informer, in order), `cache` (the informer's copies), `born` (creations of each name), `secrets` and
`faults` (a budget). `Update`, `SetStatus`, `Deliver`, `Relist` and the users' actions live here.

**InstallerController** has `wq`, `work` (program counter, key, the copy the sync works on), `release`
(the helm releases of a name, by namespace) and `nsState`. One action stands for each call that somebody
else can observe; between two calls users edit and delete, events arrive and the process may die.

| actions | code |
|---|---|
| `InformerEvent`, `TakeKey`, `Succeed`, `Retry`, `Drop` | event handlers, `processNext` |
| `SyncGone`, `SyncDeleted`, `SyncInstall`, `SyncInstallFails` | `syncHandler`, `initDefaultValues` |
| `NothingToFinalize`, `RemoveFinalizer`, `RemoveFinalizerFails` | one attempt of the finalizer loop |
| `ObserveGeneration`, `NoInstaller`, `ReportFailure`, `RecordReady` | `Sync`, `SyncWithAction`, `GetInstaller` |
| `Install` ... `Completed` | `installWorkflow` |
| `UninstallNothing` ... `DeleteNamespace` | `uninstallWorkflow` |
| `Crash`, `InstallerPanics`, `Restart` | the process and its successor |
| `NamespaceGone`, `SecretCollected` | the cluster (external) |

**InstallerProperties** states what the installer promises; **InstallerInvariant** the inductive invariants of
the proofs (`IInv`, `OwnershipInv`, `NoticeInv`) and two properties of the constants that some theorems need.
**InstallerEffects** states what any step may do to each part of the state: the interface between going
through the actions and arguing about ownership.

**KmdLifecycle** is what a user may rely on, without queues, copies, phases or namespaces: an object is
absent, requested, held by the installer's finalizer or leaving, and a set of incarnations of its name has a
control plane that runs. A deleted object that only somebody else's finalizer keeps, as the summary
controller's may, is absent there: the installer has let go of it. **InstallerLifecycle** maps the stored object, its finalizer and the deployed
releases to that (`StageOf`, `RunningOf`) and restates the abstract specification as `Lifecycle`, which a run
checks: every step of the detailed one is a step of the abstract one or a stutter.

**SummaryController** has `squeue`, `swork`, `managers` (whose kubeconfig the client of a manager has), `loops`
(the goroutines in `Run`) and `load` (the contents of a control plane). `TakeSummaryKey` ... `NoClient` are the
worker's `syncKmdStatusResource`; `LoopStart`, `LoopRead`, `LoopWrite`, `LoopWriteFails` the goroutines.

**KarmadaOperator** composes the two as `StartControllers` does: `SharedInformerEvent` is one delivery to the
handlers of both, `OperatorDies` ends both, and every other step belongs to one of them.
**OperatorInvariant** adds to the installer's invariant what the summary controller relies on (`OperatorInv`),
and to that of ownership what the summary goroutines have in hand (`OperatorOwnershipInv`).

**InformerManager** is the manager of the dynamic informers as a record (`informers`, `handlers`, `done`,
`lock`) with an operator for each method, **SummaryAggregation** the sums of one round as functions of the
listers' contents. **SummaryManager** uses both: its variables are the informer manager, the stores, the
goroutines in `Run` with their program counters (`runs`), how far the shutdown is (`manager`, `relay`),
and the summary in the stored object and in the operator's informer (`status`, `copy`). It looks inside
what SummaryController treats as one manager with a number for its contents.

| actions | code |
|---|---|
| `Registered`, `StartInformers`, `BeginWait`, `AllSynced`, `GiveUp` | `NewSummaryManager`, `Run`, `WaitForCacheSync` |
| `TakeCopy`, `Collect`, `WriteSummary`, `EndRound` | `processNext`, `syncHandler`, `updateKmdStatusSummaryIfNeed`, `worker` |
| `RunAgain`, `Shuntdown`, `Stop`, `Close`, `RelayEnds` | the controller's `StartWithChannel` and `removekarmadaDeployment`; `Shuntdown`, `ContextForChannel` |
| `InformerLists`, `InformerFollows`, `CopyFollows`, `StatusWrittenBack`, `ObjectGoes` | informers (external), the installer's `SetStatus`, the finalizer |

**ChartFetch** is `fetchChart` and the helm client's `PullWithRepoURL`: `StatChart`, `ResolveByName`,
`ResolveByURL`, `Pull`, and what a failure leads to (`PullFailed`), over the chart file, the configured
repositories, the indexes in helm's cache and the servers that answer. **ChartValues** is what `Preflight`
makes of a spec, as functions. **InstallPreflight** runs both, sync after sync, with a process that may
die; `AddressPanics` is the node without an address (cluster.go:75).

**MCInstaller**, **MCOperator**, **MCSummary** and **MCPreflight** hold the values a .cfg cannot write.

Definitions whose comment begins with "Mutant:" are plausible wrong versions of the definition that
follows them. They are not part of any specification; each one shows that some property of a run
notices that mistake.

### Abstractions

* *Versions instead of resourceVersions.* The informer delivers every version in order, so a copy from the
  cache is current exactly when nothing is undelivered (`Fresh`). Reading the cache and the `Update`
  made from it are one step: an attempt made from an older copy fails, and failing has no effect but the
  one modelled, so an attempt can be moved to the moment of its request.
* *SetStatus is one step.* It fetches by name, replaces the whole status and fetches again on a conflict;
  what it finally writes does not depend on what it fetched except for the rest of that object, which it
  leaves alone.
* *The informer's cache and the handlers move together.* The handler runs a moment after the cache
  changes; the key it adds is only used to look the object up again.
* *`images`* stands for every field of the spec other than mode and namespace, and `DefaultImages` for what
  defaulting makes of them.
* *A status* is the observed generation, phase, ControlPlaneReady, the incarnation whose secret secretRef
  names, the reason of the one Ready condition, and a number for the contents the summary sums up.
* *A kubeconfig secret* is identified by name and incarnation, since it is owned by the object.
* *Jobs and RBAC objects* that a clean-up deletes have no state of their own.
* *Failures* come out of a budget and are of named kinds: a request (`api`), unreadable credentials (`endpoint`),
  `chart`, `values`, `helm`, `purge` (helm cannot clean up after a failed install) and `crash`, which also
  stands for panics inside `Completed` (an empty node list, install.go:419). Where two requests in a row ignore their errors
  (uninstall.go:65-66), one failure of the budget fails either or both.
* *In ChartValues* strings are sequences of tokens in which ":" and "/" are tokens, because the properties
  are about where references are cut. imagePullPolicy of a module is in neither CRD that the repository
  ships, so the API server prunes it and the branch at values.go:203 is never taken.
* *In SummaryManager* the listers are read in one step: reading them one after the other gives what one reading
  gives when the informers of those read first lag. The operator's informer goes to the stored status at once, whatever versions
  lie between. The channel of the process (summary_manager.go:134) and the wait for the goroutines when it ends are left out. int32 and quantities have no width; counts of
  nodes and objects stay far below it. Lists that are empty and nil are the same.
* *In ChartFetch* asking the repository for the chart's URL and loading missing indexes are one step, files
  appear as a whole (helm renames them into place), and no configured repository lists the URL of
  the chart. Errors of reading helm's repository file and of making a repository client (pull.go:43-47, 87-90) are left out.
  A restart is that of the container: what it downloaded is gone, helm's configuration is not.
* *A restart* in the installer lists at the moment of the crash. A former leader's helm operation that is still under way
  is not modelled.
* *Summary retries* have no limit in the code and are not counted. The lag of a manager's own informers is folded
  into `load`; a closed goroutine may therefore see later contents than it would, which only adds behaviours.
  A goroutine beyond the places in `Loops` is one that is never scheduled.

## 3. Runs

Bounds: `MaxUid` creations of a name, `MaxGen` up to which users edit a spec, `MaxLag` undelivered versions,
`MaxRetry` (`MaxInstallSyncRetry`, 30 in the code), `MaxConflictRetries` (5 in the code), `MaxFaults`, `MaxLoad`, `Loops`,
`Runs`, `MaxChanges`, `MaxUnits`. Names share the worker and, if users want it so, a namespace; two names
are run for the one and for the other, and elsewhere one name is enough. A lag of 2 is where a copy can be
older than two writes of one sync, the shortest history that installs twice. Two incarnations are what it
takes to confuse incarnations. `MaxRetry` of 1 reaches the back-off and the giving up; 0, where it is used,
only the latter. Two goroutines of a manager are what it takes to write over each other and to queue for the lock; the
four clusters report everything, nothing, or only some parts. Two entries in `modules` are what it takes
to repeat one or to reorder two. Users name a namespace in installer_progress and shared_namespace, elsewhere it is the
drawn default, and of the summaries' core and policy resources none is in the run: they are counted by the same
handler. The two incarnations of operator_safety are too many for the liveness of operator_progress, so
`OperatorOwnershipInv` is checked there with one; the theorem has any number. operator_safety is about finalizers, which
the goroutines do not write: it has no place for one (`Loops`), and can afford a lag of 2, failures and an uninstallation
instead. operator_progress has the goroutine, and keeps the control plane of a deleted object (label "true"). No run uses symmetry. All
set `CHECK_DEADLOCK FALSE`: with bounded users and failures the system really comes to rest.

| run | specification, bounds | properties | what it shows |
|---|---|---|---|
| installer_faults | `Spec`; lag 2; any 2 of 6 kinds of failures; label edits, also during deletion | `TypeOK`, `OwnershipInv`, `Lifecycle`, `UninstallPrecedesRemoval` | under any two failures releases, namespaces, secrets and statuses stay where the invariant of ownership says; the finalizer leaves only at the end of a sync that did what it decided; the installer implements KmdLifecycle |
| installer_edits | `Spec`; lag 2; 2 incarnations; absent and edited modes; 2 default namespaces; 1 crash or unreadable credentials | `NoticeInv`, `EditsNoticed`, `OneInstance`, `CompletedMeansDeployed`, `ControlPlaneKept`, `NothingForgotten` | no edit is lost behind an older copy and no key between informer, queue, worker and back-off, with the inductive invariant behind that; retries, panics, restarts and a name used again do not install unguarded or twice, do not make a status claim an instance that is not there, nor cost a live object its control plane |
| installer_progress | `FairSpec`; lag 2; edits; 1 crash | `DeletionCompletes`, `GenerationObserved`, `EventuallySettled` | deletions and edits are not lost while the worker is busy; every object settles |
| installer_two_names | `FairSpec`; lag 1; 2 names, each with a namespace | `EventuallySettled` | a name that can never be installed does not starve the other |
| operator_safety | `OperatorSpec`; lag 2; 2 incarnations, uninstalled on deletion; 1 crash or failed request | `OperatorTypeOK`, `ManagersGuarded`, `GuardedByFinalizer`, `UninstallPrecedesRemoval` | a manager exists only behind its finalizer, neither controller undoes the other's finalizer although both write from copies, and the installer has uninstalled when its own finalizer leaves, though the summary's may keep the object longer |
| operator_progress | `OperatorFairSpec`; lag 1; contents change once; 1 retry | `OperatorOwnershipInv`, `Lifecycle`, `SummaryPublished`, `SummaryLetsGo` | the invariant of both controllers and of ownership beside the summaries holds; the two controllers together implement KmdLifecycle; a ready control plane is summarized, a ready object's deletion is not held up by the summary |
| summary_manager | `FairSpec`; 2 goroutines; 2 resources; 1 change; 1 failed or overwritten write; shutdown at any time | `TypeOK`, `ListersSynced`, `TotalsExact`, `CloseEndsAll`, `Settles` | nothing is summed up that was not listed, totals are exact, a shutdown ends every goroutine though one holds the lock, and an open manager's summary is right in the end |
| preflight | `Spec`; every configuration of 3 repositories and every set of servers; 1 change or death; 222 specs | `TypeOK`, `CachedSuffices`, `EventuallyFetched`, `ModulesIndependent`, `ImagesDecided`, `JobImagesComplete` | the second scheme helps whichever step the first pull failed at; references with ports arrive whole; no entry disturbs another |

`IInv` is part of `OwnershipInv`, `NoticeInv` and `OperatorOwnershipInv`, and has no entry of its own. `Lifecycle` and
`ControlPlaneKept` are checked with one name, and hold for names with namespaces of their own; shared_namespace is what becomes of them otherwise.

### Where the code disagrees with what it says

Four runs state what a document or comment promises and end in a counterexample. Only shared_namespace has a
failure in it (a chart that cannot be fetched), and does not need it.

| run | property | promise | counterexample |
|---|---|---|---|
| stale_reinstall | `EventuallyInstalled` | docs/keps/karmada-installer.md:32 | The operator's own `Update` queues a second sync. It starts from a copy that predates the first sync's `Completed`, writes the older status back, and helm refuses a name that is in use until the key is dropped. |
| status_overwritten | `ObservedGenerationGrows` | type.go:251 | The summary goroutine writes the status of an older copy over the generation that the installer has just observed. |
| deletion_stuck | `DeletionCompletes` | charts/karmada-operator/README.md:300 | A second sync from an older copy takes ControlPlaneReady back after the summary finalizer was set; the summary worker panics on the nil secretRef; its successor filters the deletion of an object that is not ready, and the finalizer stays for ever. |
| shared_namespace | `ControlPlaneKept` | charts/karmada-operator/README.md:119 | Two objects name one namespace. The second was never installed; its deletion deletes the namespace and the first one's control plane with it. |

Other things seen with TLC on variations of these configurations, kept here as notes because no
document promises otherwise or because a run above already shows the cause:

* An object without a mode is never installed: type.go:54 says "Default is Helm.", nothing defaults it,
  `GetInstaller` dereferences it (installerfactory.go:102) and the process panics on every start. So it
  does for credentials without a secretRef (installer.go:78).
* An edit of a completed object is observed and reported Ready, which helpers.go:55 calls "a successful
  reconciliation", and never deployed (install.go:94).
* A process that dies between helm's success and `Completed` leaves a release whose name is in use
  (`EventuallyInstalled` fails with one crash). `EventuallySettled` holds: the condition says why.
* A deletion while the condition is IntallModeFailed leaves the instance; with a lag of 5 the decision can also
  be taken from a copy that has no condition yet, while the finalizer goes from a newer one.
* A key given up after its retries during a deletion stays Terminating.
* An instance that was kept on purpose is taken down with a later object of the same name.
* A closed goroutine's status of one incarnation can land on the object that was created under the name since. Such
  a status names the secret of the earlier one, so `CompletedMeansDeployed` takes a status for a claim only
  when it names the object's own.
* A user who moves an object to another namespace can get a second instance there: a sync from a copy older than
  Completed puts the old status back and the next one installs. `OneInstance` is checked and proved for users who do not (`NamespaceFixed`).
* A goroutine whose manager was closed during its round's sleep still writes once, since `worker` looks at
  the channel after a round and not before one.
* One configured repository that is unreachable and has no index in the cache makes every fetch by URL fail, though
  the chart's own repository answers (pull.go:72-75). `EventuallyFetched` excludes it in its premise.
* `CleanRepoURL` drops the scheme: a chart fetched over http is used for https, and the other way round.
* A master node that reports no address ends the process at every sync that installs (cluster.go:75).
* A module's image without a tag but with a registry port is cut at the port (values.go:187). `ImagesDecided`
  speaks of references with a tag.
* type.go:196 says of the registry of cfssl and kubectl that its default is "docker.io"; constants.go:15 has
  ghcr.io. type.go:113 says that the default namespace is "karmada-system" and charts README:92 that it is the
  object's name; it is random.
* The totals of `ClusterSummary` count only clusters that have conditions, and the resource totals only
  five names of resources.
* The addresses in the certificate and in the kubeconfig are those of the operator's own cluster, also when the
  destination is another one.
* deploy/crds is older than the chart's CRD: with it the API server prunes status.summary, so a summary is
  never found to be up to date.

### Fairness

`Fairness` asks for weak fairness of the worker as a whole (a goroutine that is never blocked for ever: every
call has a timeout), of deliveries (the watch), of each back-off (a timer) and of the end of a terminating
namespace. `OperatorFairness` adds the summary worker, its back-offs and each goroutine. A goroutine
that waits for its informers counts as one that will have them: the control plane answers. Nothing is assumed of users,
crashes, failures, the garbage collector or the contents of control planes. A panic is a step of the
worker that panics, so fairness makes a process with a bad object die again and again.

In SummaryManager each goroutine, a shutdown that has begun, the relay and the operator's informer are weakly
fair, and nothing is assumed of the control plane: informers may never list, which is why `Settles` has
that as its premise and `CloseEndsAll` has not. In InstallPreflight a fetch that has begun goes on (helm's
requests have timeouts) and syncs that install keep coming; servers and restarts are free.

## 4. Proofs

Assumptions are those of `KmdApi`, `InstallerController`, `SummaryController`, `SummaryManager`, `ChartFetch` and
`InstallPreflight`: finite, non-empty names, namespaces that are strings other than "", a default for every
name, natural bounds, model values that differ from what they are told from, specs that are records of the
fields the CRD has, listers with finitely many objects, and clusters that report counts up to some natural
number of units (`MaxUnits`; a count is never negative). They say nothing about sizes. What a theorem needs
beyond them is in its statement.

| theorem | statement |
|---|---|
| `InstallerProofs!TypeCorrect` | `Spec => []TypeOK` |
| `InstallerProofs!Invariant` | `Spec => []IInv` |
| `InstallerProofs!InstancesGuarded` | `Spec => []GuardedByFinalizer` |
| `InstallerOwnershipProofs!OwnershipInvariant` | `Spec => []OwnershipInv` |
| `InstallerOwnershipProofs!SingleInstance` | `NamespaceFixed`: `Spec => []OneInstance` |
| `InstallerOwnershipProofs!CompletedIsDeployed` | `NamespacesDisjoint`: `Spec => []CompletedMeansDeployed` |
| `InstallerOwnershipProofs!LiveControlPlaneKept` | `NamespacesDisjoint`: `Spec => ControlPlaneKept` |
| `InstallerOwnershipProofs!UninstalledBeforeRemoval` | `Spec => UninstallPrecedesRemoval` |
| `InstallerOwnershipProofs!LifecycleImplemented` | `NamespacesDisjoint`: `Spec => Lifecycle` (implements KmdLifecycle) |
| `InstallerNoticeProofs!NoticeInvariant` | `Spec => []NoticeInv` |
| `InstallerNoticeProofs!NoEditUnnoticed` | `Spec => []EditsNoticed` |
| `InstallerNoticeProofs!NoKeyForgotten` | `Spec => NothingForgotten` |
| `OperatorProofs!OperatorInvariantHolds` | `OperatorSpec => []OperatorInv` |
| `OperatorProofs!OperatorTypeCorrect` | `OperatorSpec => []OperatorTypeOK` |
| `OperatorProofs!ManagersStayGuarded` | `OperatorSpec => []ManagersGuarded` |
| `OperatorProofs!InstancesGuardedTogether` | `OperatorSpec => []GuardedByFinalizer` |
| `OperatorProofs!OperatorOwnershipInvariant` | `OperatorSpec => []OperatorOwnershipInv` |
| `OperatorProofs!SingleInstanceBesideSummaries` | `NamespaceFixed`: `OperatorSpec => []OneInstance` |
| `OperatorProofs!CompletedIsDeployedBesideSummaries` | `NamespacesDisjoint`: `OperatorSpec => []CompletedMeansDeployed` |
| `OperatorProofs!LiveControlPlaneKeptBesideSummaries` | `NamespacesDisjoint`: `OperatorSpec => ControlPlaneKept` |
| `OperatorProofs!UninstalledBeforeRemovalBesideSummaries` | `OperatorSpec => UninstallPrecedesRemoval` |
| `OperatorProofs!OperatorImplementsLifecycle` | `NamespacesDisjoint`: `OperatorSpec => Lifecycle` |
| `OperatorProofs!OperatorNotices` | `OperatorSpec => [](OperatorInv /\ NoticeInv)` |
| `OperatorProofs!NoEditUnnoticedBesideSummaries` | `OperatorSpec => []EditsNoticed` |
| `OperatorProofs!NoKeyForgottenBesideSummaries` | `OperatorSpec => NothingForgotten` |
| `SummaryManagerProofs!ManagerTypeCorrect` | `Spec => []TypeOK` |
| `SummaryManagerProofs!SummariesOfSynced` | `Spec => []ListersSynced` |
| `SummaryManagerProofs!TotalsAreExact` | `Spec => []TotalsExact` |
| `PreflightProofs!PreflightTypeCorrect` | `Spec => []TypeOK` |
| `PreflightProofs!CachedFileSuffices` | `Spec => []CachedSuffices` |
| `PreflightProofs!ModulesAreIndependent` | `Spec => []ModulesIndependent` |
| `PreflightProofs!ImagesAreDecided` | `Spec => []ImagesDecided` |
| `PreflightProofs!JobsHaveImages` | `Spec => []JobImagesComplete` |

The two hypotheses are about users, and each is needed. `NamespaceFixed`: no user moves an object to another
namespace; section 3 notes what happens otherwise. `NamespacesDisjoint`: no two names can be in
one namespace, whether users name it, move there or have it drawn; shared_namespace is the counterexample
without it. Every run that checks one of the properties satisfies its hypothesis. `OwnershipInv` carries
them inside, in front of the parts that need them, so that the rest holds without.

*Types.* Types alone are not inductive: `Update` writes an object made from the informer's copy, so one has
to know that the copy, when it is current, is the stored object. `LastVersion` says so, and
`TypeOK`, `WorkOK` and `LastVersion` together are inductive. `InstallerProofs` begins with what the queue
operators return. One lemma per action keeps the conjuncts apart.

*The guard.* `GuardedByFinalizer` speaks of the stored object, but what the worker does depends on a copy that may
be many versions old. `VersionsOK` states what an old version still tells: one that carries the finalizer
and is not deleted is of an object that still carries it (only the worker removes it, and only from deleted
objects), one that is deleted is of an object that stays deleted or has been replaced by a later incarnation that
the worker has not taken charge of. `WorkerOK` carries that over to the copy in the worker's hands, and `UidsBorn`
keeps incarnations apart. So at `HelmInstalls` the object is held, and at `RemoveFinalizer` no live object of
that incarnation is left. Crashes only forget, restarts only list what is stored.

*From actions to effects.* Ownership relates objects, releases, namespaces, secrets and statuses, and few actions
touch more than two of them. `InstallerStepProofs` goes through the actions once and shows, from `IInv`,
that every step moves each part in one of a few ways (`StepEffects`): an object stays, appears,
disappears or changes; a release stays, starts, ends or goes with its namespace; a status is weaker than one that
is there, or the worker's. Everything after that argues with effects and never opens an action again.

*Ownership.* `OwnershipInv` is `IInv` and
* `StoredIsLast`: the stored object is the last incarnation of its name;
* `WithinReach`: nothing is installed or looked for outside the namespaces of its own name;
* `ReleaseUnderWay`: the release that helm works on is the worker's own, and pending or deployed as the worker thinks;
* `SecretsBorn`: no status names the secret of an incarnation that is still to come. Without it a status of
  today could turn into a false claim of tomorrow's object;
* `FoundReleaseGone`: when the finalizer is about to go after an uninstallation, there was no release, or what was found
  is gone or goes with its namespace. `UninstallPrecedesRemoval` has three parts: that the finalizer leaves at that step of
  the installer and no other (`FinalizerLeavesInTurn`, from the effects on objects), this one at that step
  (`NothingLeft`), and that helm works for an object only while it is `Held`, so never once it was let go (`NothingComesUp`);
* `NamespaceSettled` (if users do not move objects): once the finalizer is stored, so is the namespace. The
  drawn default and the finalizer are in one `Update`, which a stale copy cannot make, so all later copies
  agree on the namespace, and `OneInstance` follows;
* `TerminatingUnowned` and `StatusesJustified` (if names share no namespace): a namespace that goes takes nothing of
  a live object along, and every status in flight that claims a live object's instance is right. `ControlPlaneKept` and
  `CompletedMeansDeployed` follow.

*The refinement.* An object that appears is a `Request`; one that disappears, gets or loses the finalizer or is deleted
makes a `Change` or a stutter; a release that comes to be deployed is of the incarnation that the worker
holds (`Held`), hence an `Install` (or a stutter, if that incarnation ran already); one that goes was
of no object in stage held, hence a `TakeDown`. `OneObject` makes each a step of one name.

*Both controllers.* The installer's invariant is kept by the summary controller because its writes change
one finalizer or a status, and never a uid, the deletion or the other finalizer. Conversely no step of the
installer, its users or the informer takes the summary finalizer or makes a version from nowhere
(`SummaryKept`). `ManagersGuarded` by itself is not inductive: the worker starts a manager from a copy. It
takes that a version with the finalizer that is not deleted is of an object that still has it
(`SummaryVersionsOK`), what the worker relies on between its two steps (`SummaryWorkerOK`), and that a name used
again cannot be reached from such a version, since the object cannot go while it has the finalizer.

*Ownership beside the summaries.* What the installer guarantees alone it guarantees in the composition, too.
The steps of the summary controller have effects of their own (`SummaryEffects`): an object stays,
gets another summary finalizer, gets the status that a goroutine has in hand, or goes with the last finalizer of a
deletion that the installer agreed to. The last is why a deleted object without the installer's finalizer counts as
absent in KmdLifecycle: it goes from "leaving" when the installer lets go, and its disappearance is a stutter.
A status in a goroutine's hand can be much older than anything in the watch; so `OperatorOwnershipInv`
asks of it what `OwnershipInv` asks of versions, that its secret is of no incarnation to come (`LoopsBorn`) and
that it claims nothing that is wrong (`LoopsJustified`). A claim once right stays right as long as the object is live,
since its release and its secret stay; a claim about an earlier incarnation names that one's secret and
says nothing of the stored one. `UninstallPrecedesRemoval` needs of `SummaryEffects` only that no step takes the
installer's finalizer away, object or no object, and that none touches a release (`SummaryLeavesUninstalling`).

*Notices.* `EditsNoticed` and `NothingForgotten` are about keys, and `DeletionCompletes` relies on both. `NoticeInv` says
that every version on its way to the informer, and the informer's copy, either agrees with the stored object in what
the handlers look at (uid, deletion, spec) or is followed by a change that they pass on (`NoticesOK`); that the
worker processes its key alone and a dirty key is in the queue, unless the worker is to put it back with `Done`
(`QueueOK`); and that the worker installs from a live copy, lets go of a deleted one, and ends a sync well only when the
object is settled or comes again (`WorkNoticed`). A step then either publishes versions or moves keys, and
`InstallerNoticeProofs` shows of each that no key which was coming is lost: a delivery turns a notice into a
dirty key, `Get` and `Done` hand it on, a conflict puts it into the back-off, a crash gives way to
a list that enqueues everything. `NothingForgotten` excepts only the failure that exceeds the retries. Beside
the summary controller the same holds, since what it writes differs in nothing the installer's handlers look at, but
for an object that goes, whose deletion they are told of.

*The summary manager.* A goroutine that waits for the sync or goes on found every informer started (`InformersStarted`); an
informer that was started does not become merely created again, and a context that was cancelled
before makes it dead, not synced. So whoever reads has been through a wait that succeeded.

*The chart file.* `CachedSuffices` is about failed fetches only; inductive is that no fetch which pulls or has
failed sees a file (`PullsWithoutFile`): only the pull that ends a fetch makes the file appear.

*Data.* Values are composed by a fold over the spec's entries, totals by folds over the clusters. The
library's induction theorems are about an operator, which none of the provers can instantiate. `FoldProofs` states
induction about a set instead, and derives it from `WFMin`: a set of numbers that lacks one would lack a smallest
one. With it a fold over a sequence is a run of states, each from the one before and one entry (`SequenceFoldRun`), and a sum
over a finite set is the cardinality of the set of units it counts (`SumCounts`). `ModulesIndependent`
then compares two runs, that of all entries and that of the module's own, entry by entry: `AddModule` touches its own
name only. `ImagesDecided` follows the run to the last entry with a reference, and shows for that
one that what is cut at the last ":" and the first "/" is put together again. `TotalsExact` takes that what a cluster
reports is at most `MaxUnits`, so that units can be counted.

*With TLC only:* everything under fairness (`DeletionCompletes`, `GenerationObserved`, `EventuallySettled`,
`SummaryPublished`, `SummaryLetsGo`, `CloseEndsAll`, `Settles`, `EventuallyFetched`), since liveness is out of the prover's
reach. Every invariant and every action property that a passing run checks, and both refinements, are proved.

## 5. Not modelled, and the plan

What would come next is the lease: a process that is paused as a whole may run a helm operation beside its
successor. Without such a pause it cannot, since RunOrDie returns before the lease runs out and the process
ends then.

Helm's repository commands have no caller, and the rest of the helm wrapper neither (rollback, history,
test, dependency update).
Not planned: command line and configuration (no state after start), generated code, manifests, the contents of
kubeconfigs, logging and events.
