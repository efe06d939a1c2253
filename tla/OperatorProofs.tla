--------------------------- MODULE OperatorProofs ---------------------------
(***************************************************************************)
(* The two controllers together.  The summary controller keeps the          *)
(* invariant of the installer, the installer keeps that of the summary      *)
(* controller, and so a manager never outlives the summary finalizer.       *)
(* What the installer guarantees alone, of the control planes it installs   *)
(* and of the edits it is told of, it also guarantees beside the summary    *)
(* controller, whose goroutines write whole statuses and whose finalizer    *)
(* keeps objects longer.                                                    *)
(***************************************************************************)
EXTENDS InstallerOwnershipProofs, InstallerNoticeProofs, OperatorInvariant

\* What the summary controller needs of a step of the installer, of its users or
\* of the informer: no version comes from nowhere, and none loses the finalizer.
SummaryKept ==
  \A n \in Names :
    /\ Versions(n)' \subseteq Versions(n) \cup {api'[n], NoKmd}
    /\ HasSummaryFinalizer(n) => HasSummaryFinalizer(n)'

-----------------------------------------------------------------------------
(* The installer keeps the finalizer of the summary controller *)

LEMMA ApiStaysKept == UNCHANGED apiVars => SummaryKept
BY DEF SummaryKept, apiVars, Versions, HasSummaryFinalizer, Exists

\* An object that goes had the installer's finalizer at most.
LEMMA ObjectsKept ==
  ASSUME ObjectsStep
  PROVE  SummaryKept
<1> SUFFICES ASSUME NEW n \in Names
             PROVE  /\ Versions(n)' \subseteq Versions(n) \cup {api'[n], NoKmd}
                    /\ HasSummaryFinalizer(n) => HasSummaryFinalizer(n)'
  BY DEF SummaryKept
<1>1. Versions(n)' \subseteq Versions(n) \cup {api'[n], NoKmd} BY DEF ObjectsStep
<1>2. Stays(n) \/ Appears(n) \/ Disappears(n) \/ Changes(n) BY DEF ObjectsStep
<1>3. CASE Stays(n) BY <1>1, <1>3 DEF Stays, HasSummaryFinalizer, Exists
<1>4. CASE Appears(n) BY <1>1, <1>4 DEF Appears, HasSummaryFinalizer, Exists
<1>5. CASE Disappears(n)
  <2>1. SummaryFinalizer \notin api[n].finalizers
    BY <1>5 DEF Disappears, SummaryFinalizer, InstallerFinalizer
  <2>2. QED BY <1>1, <2>1 DEF HasSummaryFinalizer
<1>6. CASE Changes(n)
  <2>1. api'[n] # NoKmd BY <1>6, NoKmdIsNone DEF Changes
  <2>2. SummaryFinalizer \in api[n].finalizers => SummaryFinalizer \in api'[n].finalizers
    BY <1>6 DEF Changes, FinalizersChange, SummaryFinalizer, InstallerFinalizer
  <2>3. QED BY <1>1, <2>1, <2>2 DEF HasSummaryFinalizer, Exists
<1>7. QED BY <1>2, <1>3, <1>4, <1>5, <1>6

\* A status is written without the finalizers.
LEMMA StatusKept ==
  ASSUME TypeInv, NEW n \in Names, NEW s \in Statuses, SetStatus(n, s), UNCHANGED cache
  PROVE  SummaryKept
<1>1. /\ api[n] \in Kmds /\ [api[n] EXCEPT !.status = s] \in Kmds
      /\ Write(n, [api[n] EXCEPT !.status = s])
  BY SetStatusOK, TypeParts
<1>2. PICK obj \in Kmds : obj = [api[n] EXCEPT !.status = s] BY <1>1
<1>3. obj.finalizers = api[n].finalizers BY <1>1, <1>2, KmdWithStatus
<1>4. /\ api' = [api EXCEPT ![n] = obj]
      /\ \A m \in Names : m # n => Versions(m)' = Versions(m)
      /\ Versions(n)' \subseteq Versions(n) \cup {obj}
  BY <1>1, <1>2, VersionsWrite
<1>5. api'[n] = obj /\ \A m \in Names : m # n => api'[m] = api[m]
  BY <1>4, TypeParts DEF ApiTypeOK
<1>6. QED BY <1>3, <1>4, <1>5, NoKmdIsNone DEF SummaryKept, HasSummaryFinalizer, Exists

\* The writes of the installer's worker to the status of its copy.
LEMMA RegisterKept ==
  ASSUME TypeInv, work.key \in Names, NEW obj \in Kmds,
         StatusSet(obj.status) \/ StatusNotSet \/ UNCHANGED <<api, watch>>,
         UNCHANGED <<cache, born>>
  PROVE  SummaryKept
<1>1. CASE StatusSet(obj.status)
  <2>1. SetStatus(work.key, obj.status) BY <1>1 DEF StatusSet, key
  <2>2. obj.status \in Statuses BY DEF Kmds
  <2>3. QED BY <2>1, <2>2, StatusKept
<1>2. CASE StatusNotSet \/ UNCHANGED <<api, watch>>
  <2>1. UNCHANGED apiVars BY <1>2 DEF StatusNotSet, apiVars
  <2>2. QED BY <2>1, ApiStaysKept
<1>3. QED BY <1>1, <1>2

LEMMA PhaseKept ==
  ASSUME TypeInv, NEW from \in InstallPcs, NEW phase \in Phases, NEW to, EnterPhase(from, phase, to)
  PROVE  SummaryKept
<1>1. work.pc = from /\ UNCHANGED <<cache, born>> BY DEF EnterPhase
<1>2. work.key \in Names /\ work.kmd \in Kmds BY <1>1, WorkerHas, PcSets
<1>3. PICK obj \in Kmds : obj = [work.kmd EXCEPT !.status.phase = phase]
  BY <1>2, RegisteredType DEF SameBut
<1>4. StatusSet(obj.status) \/ StatusNotSet BY <1>3 DEF EnterPhase, kmd
<1>5. QED BY <1>1, <1>2, <1>4, RegisterKept

\* syncHandler and InstallerFactory.
LEMMA SyncKept ==
  ASSUME TypeInv, WorkerOK, SyncStep
  PROVE  SummaryKept
<1>1. CASE \/ SyncGone \/ SyncDeleted \/ SyncInstallFails \/ NothingToFinalize
           \/ RemoveFinalizerFails \/ NoInstaller
  <2>1. UNCHANGED apiVars
    BY <1>1 DEF SyncGone, SyncDeleted, SyncInstallFails, NothingToFinalize,
                RemoveFinalizerFails, NoInstaller
  <2>2. QED BY <2>1, ApiStaysKept
<1>2. CASE SyncInstall BY <1>2, SyncInstallEffect, ObjectsKept
<1>3. CASE RemoveFinalizer BY <1>3, RemoveFinalizerEffect, ObjectsKept
<1>4. CASE ObserveGeneration
  <2>1. work.pc = "observe" /\ UNCHANGED <<cache, born>> BY <1>4 DEF ObserveGeneration
  <2>2. work.key \in Names /\ work.kmd \in Kmds BY <2>1, WorkerHas DEF InstallPcs
  <2> DEFINE seen == WithReason([work.kmd EXCEPT !.status.obsGen = work.kmd.gen], "Progressing")
  <2>3. seen \in Kmds BY <2>2, RegisteredType DEF SameBut
  <2> HIDE DEF seen
  <2>4. \/ UNCHANGED <<api, watch>>
        \/ StatusSet(work.kmd.status) \/ StatusSet(seen.status) \/ StatusNotSet
    BY <1>4 DEF ObserveGeneration, kmd, seen
  <2>5. QED BY <2>1, <2>2, <2>3, <2>4, RegisterKept
<1>5. CASE ReportFailure
  <2>1. work.pc = "report" /\ UNCHANGED <<cache, born>> /\ (StatusSet(work.kmd.status) \/ StatusNotSet)
    BY <1>5 DEF ReportFailure, kmd
  <2>2. QED BY <2>1, WorkerHas, RegisterKept
<1>6. CASE RecordReady
  <2>1. work.pc = "ready" /\ UNCHANGED <<cache, born>> BY <1>6 DEF RecordReady
  <2>2. work.key \in Names /\ work.kmd \in Kmds BY <2>1, WorkerHas DEF InstallPcs
  <2>3. "Succeeded" \in Reasons BY DEF Reasons
  <2>4. PICK obj \in Kmds : obj = WithReason(work.kmd, "Succeeded")
    BY <2>2, <2>3, RegisteredType DEF SameBut
  <2>5. StatusSet(obj.status) \/ StatusNotSet BY <1>6, <2>4 DEF RecordReady, kmd
  <2>6. QED BY <2>1, <2>2, <2>5, RegisterKept
<1>7. QED BY <1>1, <1>2, <1>3, <1>4, <1>5, <1>6 DEF SyncStep

\* installWorkflow: the phases are written, the rest is helm's.
LEMMA InstallKept ==
  ASSUME TypeInv, InstallStep
  PROVE  SummaryKept
<1>1. CASE Preflight \/ Deploy \/ Completed
  <2>1. {"preflight", "chart", "record"} \subseteq InstallPcs BY DEF InstallPcs
  <2>2. {"Preflight", "Deploying", "Completed"} \subseteq Phases BY DEF Phases
  <2>3. QED BY <1>1, <2>1, <2>2, PhaseKept DEF Preflight, Deploy, Completed
<1>2. CASE ~(Preflight \/ Deploy \/ Completed)
  <2>1. UNCHANGED apiVars
    BY <1>2 DEF InstallStep, Install, ChartNotFetched, EnsureNamespace, ValuesNotComposed,
                InstallRefused, HelmInstalls, HelmDeploys, HelmInstallFails, StoreKubeconfig,
                KubeconfigNotStored
  <2>2. QED BY <2>1, ApiStaysKept
<1>3. QED BY <1>1, <1>2

\* A process that starts lists what is stored.
LEMMA RestartKept ==
  ASSUME TypeInv, Restart
  PROVE  SummaryKept
<1>1. Relist BY DEF Restart
<1>2. UNCHANGED <<api, born>> BY <1>1 DEF Relist
<1>3. \A m \in Names : Versions(m)' \subseteq Versions(m) \cup {NoKmd} BY <1>1, VersionsRelist
<1>4. QED BY <1>2, <1>3 DEF SummaryKept, HasSummaryFinalizer, Exists

\* No step of the installer, of a user, of the informer or of the cluster takes the
\* summary finalizer away.
LEMMA InstallerKeepsFinalizer ==
  ASSUME TypeInv, WorkerOK, [Next]_vars
  PROVE  SummaryKept
<1>1. CASE UserStep
  <2>1. PICK n \in Names : Create(n) \/ EditSpec(n) \/ EditLabel(n) \/ Delete(n)
    BY <1>1 DEF UserStep
  <2>2. QED BY <2>1, UserEffect, ObjectsKept
<1>2. ASSUME NEW n \in Names, InformerEvent(n) PROVE SummaryKept
  <2>1. Deliver(n) BY <1>2 DEF InformerEvent
  <2>2. UNCHANGED api BY <2>1 DEF Deliver
  <2>3. QED BY <2>1, <2>2, VersionsDeliver DEF SummaryKept, HasSummaryFinalizer, Exists
<1>3. CASE SyncStep BY <1>3, SyncKept
<1>4. CASE InstallStep BY <1>4, InstallKept
<1>5. CASE ProcessDies BY <1>5, RestartKept DEF ProcessDies, InstallerPanics, Crash
<1>6. CASE \/ TakeKey \/ Succeed \/ Retry \/ Drop
           \/ \E n \in Names : BackoffElapses(n)
           \/ ClusterStep
           \/ UNCHANGED vars
  <2>1. UNCHANGED apiVars
    BY <1>6 DEF TakeKey, Succeed, Retry, Drop, BackoffElapses, ClusterStep, NamespaceGone,
                SecretCollected, vars, apiVars
  <2>2. QED BY <2>1, ApiStaysKept
<1>7. CASE UninstallStep
  <2>1. UNCHANGED apiVars
    BY <1>7 DEF UninstallStep, UninstallNothing, FindRelease, HelmUninstall, Cleanup, DeleteNamespace
  <2>2. QED BY <2>1, ApiStaysKept
<1>8. QED BY <1>1, <1>2, <1>3, <1>4, <1>5, <1>6, <1>7 DEF Next, WorkerStep

-----------------------------------------------------------------------------
(* Whose kubeconfig a secret holds *)

\* What is held was created.
LEMMA HeldNumber ==
  ASSUME TypeInv, StorageOK, NEW n \in Names, NEW obj \in Kmds, Held(n, obj)
  PROVE  obj.uid \in 0..MaxUid
<1>1. api[n] \in Versions(n) /\ api[n] # NoKmd /\ api[n].uid = obj.uid
  BY StoredIsVersion DEF Held, Exists
<1>2. obj.uid <= born[n] BY <1>1 DEF StorageOK, UidsBorn
<1>3. obj.uid \in Nat BY DEF Kmds
<1>4. born[n] \in 0..MaxUid BY TypeParts DEF ApiTypeOK
<1>5. MaxUid \in Nat BY KmdApiAssumption
<1>6. QED BY <1>2, <1>3, <1>4, <1>5

\* The only secret that is made is that of the incarnation being completed.
LEMMA InstallerSecrets ==
  ASSUME IInv, SecretsNumbered, [Next]_vars
  PROVE  SecretsNumbered'
<1>0. TypeInv /\ StorageOK /\ WorkerOK BY InvParts
<1>1. CASE StoreKubeconfig
  <2>1. work.pc = "completed" /\ secrets' = secrets \cup {<<work.key, work.kmd.uid>>}
    BY <1>1 DEF StoreKubeconfig, key, kmd
  <2>2. /\ work.key \in Names /\ work.kmd \in Kmds
        /\ Held(work.key, work.kmd)
    BY <1>0, <2>1, WorkerHas DEF WorkerOK, InstallPcs
  <2>3. work.kmd.uid \in 0..MaxUid BY <1>0, <2>2, HeldNumber
  <2>4. QED BY <2>1, <2>3 DEF SecretsNumbered
<1>2. CASE ~StoreKubeconfig
  <2>1. secrets' \subseteq secrets
    <3>1. CASE SyncStep
      BY <3>1 DEF SyncStep, SyncGone, SyncDeleted, SyncInstall, SyncInstallFails, NothingToFinalize,
                  RemoveFinalizer, RemoveFinalizerFails, ObserveGeneration, NoInstaller,
                  ReportFailure, RecordReady, extVars
    <3>2. CASE InstallStep
      BY <1>2, <3>2
         DEF InstallStep, Install, Preflight, ChartNotFetched, Deploy, EnsureNamespace,
             ValuesNotComposed, InstallRefused, HelmInstalls, HelmDeploys, HelmInstallFails,
             KubeconfigNotStored, Completed, EnterPhase, extVars
    <3>3. CASE UninstallStep
      BY <3>3 DEF UninstallStep, UninstallNothing, FindRelease, HelmUninstall, Cleanup,
                  DeleteNamespace, extVars
    <3>4. CASE TakeKey \/ Succeed \/ Retry \/ Drop
      BY <3>4 DEF TakeKey, Succeed, Retry, Drop, extVars
    <3>5. CASE ProcessDies BY <3>5 DEF ProcessDies, InstallerPanics, Crash, Restart, extVars
    <3>6. CASE ClusterStep BY <3>6 DEF ClusterStep, NamespaceGone, SecretCollected
    <3>7. CASE \E n \in Names : InformerEvent(n) \/ BackoffElapses(n)
      BY <3>7 DEF InformerEvent, BackoffElapses, extVars
    <3>8. CASE (UserStep /\ UNCHANGED <<ctlVars, extVars, faults>>) \/ UNCHANGED vars
      BY <3>8 DEF extVars, vars
    <3>9. QED BY <3>1, <3>2, <3>3, <3>4, <3>5, <3>6, <3>7, <3>8 DEF Next, WorkerStep
  <2>2. QED BY <2>1 DEF SecretsNumbered
<1>3. QED BY <1>1, <1>2

-----------------------------------------------------------------------------
(* The installer, its users and the cluster keep the invariant *)

LEMMA OperatorParts ==
  OperatorInv <=> /\ TypeInv /\ StorageOK /\ WorkerOK
                  /\ SummaryTypeOK /\ SummaryWorkOK
                  /\ SecretsNumbered /\ SummaryVersionsOK /\ SummaryWorkerOK /\ ManagersGuarded
BY InvParts DEF OperatorInv

LEMMA OperatorPartsNext ==
  ASSUME TypeInv', StorageOK', WorkerOK', SummaryTypeOK', SummaryWorkOK',
         SecretsNumbered', SummaryVersionsOK', SummaryWorkerOK', ManagersGuarded'
  PROVE  OperatorInv'
BY DEF OperatorInv, IInv, TypeInv, StorageOK

\* The guards by the finalizer, when it is kept.
LEMMA KeptGuards ==
  ASSUME SummaryKept, SummaryVersionsOK
  PROVE  SummaryVersionsOK'
<1> SUFFICES ASSUME NEW n \in Names, NEW v \in Versions(n)', v # NoKmd, ~v.deleting,
                    SummaryFinalizer \in v.finalizers
             PROVE  HasSummaryFinalizer(n)'
  BY DEF SummaryVersionsOK
<1>1. CASE v \in Versions(n) BY <1>1 DEF SummaryVersionsOK, SummaryKept
<1>2. CASE v = api'[n] BY <1>2 DEF HasSummaryFinalizer, Exists
<1>3. QED BY <1>1, <1>2 DEF SummaryKept

\* What the worker relies on, while it and the managers stand still.
LEMMA PromiseKept ==
  ASSUME OperatorInv, SummaryKept, UNCHANGED <<swork, managers>>
  PROVE  SummaryWorkerOK'
<1>1. swork' = swork /\ managers' = managers OBVIOUS
<1>2. ASSUME swork.pc = "manager" PROVE HasSummaryFinalizer(swork.key)'
  <2>1. PICK n \in Names : n = swork.key BY <1>2 DEF OperatorInv, SummaryWorkOK
  <2>2. HasSummaryFinalizer(n)'
    BY <1>2, <2>1 DEF OperatorInv, SummaryWorkerOK, SummaryKept
  <2>3. swork'.key = n BY <1>1, <2>1
  <2>4. QED BY <2>2, <2>3 DEF HasSummaryFinalizer, Exists
<1>3. QED BY <1>1, <1>2 DEF OperatorInv, SummaryWorkerOK

\* The part of the summary controller in a step of the installer.
LEMMA BesidesInstaller ==
  ASSUME OperatorInv, [Next]_vars, squeue' \in QueueType(Names, 0),
         UNCHANGED <<swork, managers, loops, load>>
  PROVE  OperatorInv'
<1>1. IInv /\ TypeInv /\ WorkerOK BY OperatorParts, InvParts
<1>2. IInv' BY <1>1, InvNext
<1>3. SummaryKept BY <1>1, InstallerKeepsFinalizer
<1>4. SecretsNumbered' BY <1>1, InstallerSecrets DEF OperatorInv
<1>5. SummaryVersionsOK' BY <1>3, KeptGuards DEF OperatorInv
<1>6. SummaryTypeOK' BY DEF OperatorInv, SummaryTypeOK
<1>7. SummaryWorkOK' BY DEF OperatorInv, SummaryWorkOK
<1>8. SummaryWorkerOK' BY <1>3, PromiseKept
<1>9. ManagersGuarded'
  <2>1. \A n \in Names : managers[n] # 0 => HasSummaryFinalizer(n)
    BY DEF OperatorInv, ManagersGuarded, HasSummaryFinalizer
  <2>2. \A n \in Names : managers[n] # 0 => HasSummaryFinalizer(n)' BY <1>3, <2>1 DEF SummaryKept
  <2>3. QED BY <2>2 DEF ManagersGuarded, HasSummaryFinalizer, Exists
<1>10. QED BY <1>2, <1>4, <1>5, <1>6, <1>7, <1>8, <1>9 DEF OperatorInv

\* An event of the informer that both controllers share.
LEMMA EventInv ==
  ASSUME OperatorInv, NEW n \in Names, SharedInformerEvent(n)
  PROVE  OperatorInv'
<1>1. InformerEvent(n) /\ SummaryHandles(n) BY DEF SharedInformerEvent
<1>2. squeue \in QueueType(Names, 0) BY DEF OperatorInv, SummaryTypeOK
<1>3. squeue' = Add(squeue, n) \/ squeue' = squeue BY <1>1 DEF SummaryHandles
<1>4. squeue' \in QueueType(Names, 0) BY <1>2, <1>3, AddType
<1>5. UNCHANGED <<swork, managers, loops, load>> BY <1>1 DEF SummaryHandles
<1>6. [Next]_vars BY <1>1 DEF Next
<1>7. QED BY <1>4, <1>5, <1>6, BesidesInstaller

\* The managers and their goroutines are gone with the process.
LEMMA DeathInv ==
  ASSUME OperatorInv, OperatorDies
  PROVE  OperatorInv'
<1>1. /\ Restart /\ SummaryRestart
      /\ UNCHANGED faults \/ Fault("crash")
  BY DEF OperatorDies, ProcessDies, InstallerPanics, Crash
<1>2. TypeInv /\ StorageOK /\ WorkerOK BY OperatorParts
<1>3. TypeInv' BY <1>1, <1>2, RestartType
<1>4. StorageOK' /\ WorkerOK' BY <1>1, <1>2, <1>3, GuardRestart
<1>5. SummaryKept BY <1>1, <1>2, RestartKept
<1>6. SummaryVersionsOK' BY <1>5, KeptGuards DEF OperatorInv
<1>7. SecretsNumbered' BY <1>1 DEF OperatorInv, SecretsNumbered, Restart, extVars
<1>8. /\ squeue' = EmptyQueue(Names) /\ swork' = SummaryIdle /\ UNCHANGED load
      /\ managers' = [n \in Names |-> 0]
      /\ loops' = [n \in Names |-> [i \in Loops |-> NoLoop]]
  BY <1>1 DEF SummaryRestart
<1>9. SummaryTypeOK'
  <2>1. squeue' \in QueueType(Names, 0) BY <1>8, EmptyQueueType
  <2>2. SummaryIdle \in [pc : {"idle", "sync", "unfinalize", "manager"}, key : Names \cup {NoName},
                         kmd : Kmds \cup {NoKmd}]
    BY DEF SummaryIdle
  <2>3. NewStatus \in Statuses BY DEF NewStatus, Statuses, Phases, Reasons
  <2>4. NoLoop \in [pc : {"none", "start", "sleep", "write"}, open : BOOLEAN, status : Statuses]
    BY <2>3 DEF NoLoop
  <2>5. MaxUid \in Nat BY KmdApiAssumption
  <2>6. 0 \in 0..MaxUid BY <2>5
  <2>7. QED BY <1>8, <2>1, <2>2, <2>4, <2>6 DEF SummaryTypeOK, OperatorInv
<1>10. SummaryWorkOK' /\ SummaryWorkerOK'
  BY <1>8 DEF SummaryIdle, SummaryWorkOK, SummaryWorkerOK
<1>11. ManagersGuarded' BY <1>8 DEF ManagersGuarded
<1>12. QED BY <1>3, <1>4, <1>6, <1>7, <1>9, <1>10, <1>11, OperatorPartsNext

-----------------------------------------------------------------------------
(* The summary controller keeps the invariant *)

SummaryWorkType == [pc : {"idle", "sync", "unfinalize", "manager"}, key : Names \cup {NoName},
                    kmd : Kmds \cup {NoKmd}]
LoopType == [pc : {"none", "start", "sleep", "write"}, open : BOOLEAN, status : Statuses]

LEMMA SummaryTypes ==
  /\ SummaryTypeOK <=> /\ squeue \in QueueType(Names, 0)
                       /\ swork \in SummaryWorkType
                       /\ managers \in [Names -> 0..MaxUid]
                       /\ loops \in [Names -> [Loops -> LoopType]]
                       /\ load \in [Names -> 1..MaxLoad]
  /\ NoLoop \in LoopType
  /\ SummaryIdle \in SummaryWorkType
<1>1. NewStatus \in Statuses BY DEF NewStatus, Statuses, Phases, Reasons
<1>2. NoLoop \in LoopType BY <1>1 DEF NoLoop, LoopType
<1>3. SummaryIdle \in SummaryWorkType BY DEF SummaryIdle, SummaryWorkType
<1>4. QED BY <1>2, <1>3 DEF SummaryTypeOK, SummaryWorkType, LoopType

LEMMA SummaryTypesNext ==
  ASSUME (squeue \in QueueType(Names, 0))', (swork \in SummaryWorkType)',
         (managers \in [Names -> 0..MaxUid])', (loops \in [Names -> [Loops -> LoopType]])',
         (load \in [Names -> 1..MaxLoad])'
  PROVE  SummaryTypeOK'
BY DEF SummaryTypeOK, SummaryWorkType, LoopType

\* The worker gives its key back, to be retried or not.
LEMMA KeyReturned ==
  ASSUME SummaryTypeOK, swork.key \in Names, Synced \/ SyncFailed
  PROVE  /\ (squeue \in QueueType(Names, 0))' /\ (swork \in SummaryWorkType)'
         /\ SummaryWorkOK' /\ SummaryWorkerOK'
<1>1. squeue \in QueueType(Names, 0) BY SummaryTypes
<1>2. squeue' \in QueueType(Names, 0)
  BY <1>1, ForgetType, AddAfterType, DoneType DEF Synced, SyncFailed
<1>3. swork' = SummaryIdle BY DEF Synced, SyncFailed
<1>4. swork' \in SummaryWorkType BY <1>3, SummaryTypes
<1>5. SummaryWorkOK' /\ SummaryWorkerOK'
  BY <1>3 DEF SummaryIdle, SummaryWorkOK, SummaryWorkerOK
<1>6. QED BY <1>2, <1>4, <1>5

\* A step that writes no object keeps everything but the controller's own state.
LEMMA NothingWritten ==
  ASSUME OperatorInv, UNCHANGED <<apiVars, secrets, installerVars>>, UNCHANGED faults \/ Fault("api")
  PROVE  /\ TypeInv' /\ StorageOK' /\ WorkerOK'
         /\ SecretsNumbered' /\ SummaryVersionsOK'
<1>1. TypeInv /\ StorageOK /\ WorkerOK BY OperatorParts
<1>2. UNCHANGED <<wq, work, release, nsState>> /\ UNCHANGED extVars
  BY DEF installerVars, extVars
<1>3. (faults \in 0..MaxFaults)' BY <1>1, FaultType, TypeParts
<1>4. TypeInv' BY <1>1, <1>2, <1>3, Untouched, TypePartsNext
<1>5. StorageOK' /\ Keeps BY <1>1, <1>2, StillKeeps
<1>6. WorkerOK' BY <1>1, <1>2, <1>5, WorkerStays
<1>7. SummaryVersionsOK' BY ApiStaysKept, KeptGuards DEF OperatorInv
<1>8. SecretsNumbered' BY DEF OperatorInv, SecretsNumbered
<1>9. QED BY <1>4, <1>5, <1>6, <1>7, <1>8

\* Without a change of the managers, their guards stay.
LEMMA GuardsStay ==
  ASSUME OperatorInv, UNCHANGED <<api, managers>>
  PROVE  ManagersGuarded'
BY DEF OperatorInv, ManagersGuarded, Exists

\* Without a step of the worker, what it relies on stays.
LEMMA SummaryWorkStays ==
  ASSUME OperatorInv, UNCHANGED <<api, managers, swork>>
  PROVE  (swork \in SummaryWorkType)' /\ SummaryWorkOK' /\ SummaryWorkerOK'
<1>1. (swork \in SummaryWorkType)' /\ SummaryWorkOK'
  BY SummaryTypes DEF OperatorInv, SummaryWorkOK
<1>2. SummaryWorkerOK' BY DEF OperatorInv, SummaryWorkerOK, HasSummaryFinalizer, Exists
<1>3. QED BY <1>1, <1>2

\* The back-off of a key, and the contents of a control plane.
LEMMA SummaryBackoffInv ==
  ASSUME OperatorInv, UNCHANGED installerVars,
         NEW n \in Names, SummaryBackoffElapses(n) \/ ContentsChange(n)
  PROVE  OperatorInv'
<1>1. UNCHANGED <<apiVars, secrets, faults, swork, managers, loops>>
  BY DEF SummaryBackoffElapses, ContentsChange
<1>2. /\ TypeInv' /\ StorageOK' /\ WorkerOK'
      /\ SecretsNumbered' /\ SummaryVersionsOK'
  BY <1>1, NothingWritten
<1>3. UNCHANGED api BY <1>1 DEF apiVars
<1>4. squeue \in QueueType(Names, 0) /\ load \in [Names -> 1..MaxLoad]
      /\ managers \in [Names -> 0..MaxUid] /\ loops \in [Names -> [Loops -> LoopType]]
  BY SummaryTypes DEF OperatorInv
<1>5. (squeue \in QueueType(Names, 0))'
  <2>1. squeue' = Elapse(squeue, n) \/ squeue' = squeue
    BY DEF SummaryBackoffElapses, ContentsChange
  <2>2. QED BY <1>4, <2>1, ElapseType
<1>6. (load \in [Names -> 1..MaxLoad])'
  <2>1. CASE UNCHANGED load BY <1>4, <2>1
  <2>2. CASE load[n] < MaxLoad /\ load' = [load EXCEPT ![n] = @ + 1]
    <3>1. MaxLoad \in Nat BY SummaryAssumption
    <3>2. load[n] + 1 \in 1..MaxLoad BY <1>4, <2>2, <3>1
    <3>3. QED BY <1>4, <2>2, <3>2
  <2>3. QED BY <2>1, <2>2 DEF SummaryBackoffElapses, ContentsChange
<1>7. SummaryTypeOK' BY <1>1, <1>3, <1>4, <1>5, <1>6, SummaryWorkStays, SummaryTypesNext
<1>8. QED BY <1>1, <1>2, <1>3, <1>7, SummaryWorkStays, GuardsStay, OperatorPartsNext

\* Steps of the worker that give the key back, or take one.
LEMMA SummaryTurnInv ==
  ASSUME OperatorInv, UNCHANGED installerVars,
         \/ TakeSummaryKey \/ SummaryGone \/ SummaryFinalizerKept
         \/ SummaryFinalizerNotSet \/ NoClient
  PROVE  OperatorInv'
<1>1. /\ UNCHANGED <<apiVars, secrets, managers, loops, load>>
      /\ UNCHANGED faults \/ Fault("api")
  BY DEF TakeSummaryKey, SummaryGone, SummaryFinalizerKept, SummaryFinalizerNotSet, NoClient
<1>2. /\ TypeInv' /\ StorageOK' /\ WorkerOK'
      /\ SecretsNumbered' /\ SummaryVersionsOK'
  BY <1>1, NothingWritten
<1>3. ManagersGuarded' BY <1>1, GuardsStay DEF apiVars
<1>4. SummaryTypeOK BY DEF OperatorInv
<1>5. /\ (squeue \in QueueType(Names, 0))' /\ (swork \in SummaryWorkType)'
      /\ SummaryWorkOK' /\ SummaryWorkerOK'
  <2>1. CASE TakeSummaryKey
    <3>1. squeue.queue # <<>> /\ squeue' = Get(squeue)
          /\ swork' = [SummaryIdle EXCEPT !.pc = "sync", !.key = Head(squeue.queue)]
      BY <2>1 DEF TakeSummaryKey
    <3>2. squeue \in QueueType(Names, 0) BY <1>4, SummaryTypes
    <3>3. Head(squeue.queue) \in Names /\ Get(squeue) \in QueueType(Names, 0)
      BY <3>1, <3>2, GetType
    <3>4. /\ swork' \in SummaryWorkType
          /\ swork'.pc = "sync" /\ swork'.key \in Names
      BY <3>1, <3>3 DEF SummaryIdle, SummaryWorkType
    <3>5. QED BY <3>1, <3>3, <3>4 DEF SummaryWorkOK, SummaryWorkerOK
  <2>2. CASE SummaryGone \/ SummaryFinalizerKept \/ SummaryFinalizerNotSet \/ NoClient
    <3>1. swork.pc # "idle" /\ (Synced \/ SyncFailed)
      BY <2>2 DEF SummaryGone, SummaryFinalizerKept, SummaryFinalizerNotSet, NoClient
    <3>2. swork.key \in Names BY <3>1 DEF OperatorInv, SummaryWorkOK
    <3>3. QED BY <1>4, <3>1, <3>2, KeyReturned
  <2>3. QED BY <2>1, <2>2
<1>6. SummaryTypeOK' BY <1>1, <1>4, <1>5, SummaryTypes, SummaryTypesNext
<1>7. QED BY <1>2, <1>3, <1>5, <1>6, OperatorPartsNext

\* removekarmadaDeployment: no manager is left when the finalizer may go.
LEMMA CloseManagerInv ==
  ASSUME OperatorInv, UNCHANGED installerVars, CloseManager
  PROVE  OperatorInv'
<1>1. PICK n \in Names : n = swork.key
  BY DEF CloseManager, OperatorInv, SummaryWorkOK
<1>2. /\ swork.pc = "sync" /\ swork' = [swork EXCEPT !.pc = "unfinalize"]
      /\ managers' = [managers EXCEPT ![n] = 0]
      /\ loops' = [loops EXCEPT ![n] = [j \in Loops |-> [@[j] EXCEPT !.open = FALSE]]]
      /\ UNCHANGED <<apiVars, secrets, faults, squeue, load>>
  BY <1>1 DEF CloseManager
<1>3. /\ TypeInv' /\ StorageOK' /\ WorkerOK'
      /\ SecretsNumbered' /\ SummaryVersionsOK'
  BY <1>2, NothingWritten
<1>4. /\ swork \in SummaryWorkType /\ managers \in [Names -> 0..MaxUid]
      /\ loops \in [Names -> [Loops -> LoopType]]
      /\ squeue \in QueueType(Names, 0) /\ load \in [Names -> 1..MaxLoad]
  BY SummaryTypes DEF OperatorInv
<1>5. managers' \in [Names -> 0..MaxUid] /\ managers'[n] = 0
      /\ \A m \in Names : m # n => managers'[m] = managers[m]
  <2>1. MaxUid \in Nat BY KmdApiAssumption
  <2>2. 0 \in 0..MaxUid BY <2>1
  <2>3. QED BY <1>2, <1>4, <2>2
<1>6. loops' \in [Names -> [Loops -> LoopType]]
  <2>1. \A l \in LoopType : [l EXCEPT !.open = FALSE] \in LoopType BY DEF LoopType
  <2>2. [j \in Loops |-> [loops[n][j] EXCEPT !.open = FALSE]] \in [Loops -> LoopType]
    BY <1>4, <2>1
  <2>3. QED BY <1>2, <1>4, <2>2
<1>7. /\ swork' \in SummaryWorkType
      /\ swork'.pc = "unfinalize" /\ swork'.key = n
  BY <1>1, <1>2, <1>4 DEF SummaryWorkType
<1>8. SummaryTypeOK' BY <1>2, <1>4, <1>5, <1>6, <1>7, SummaryTypesNext
<1>9. SummaryWorkOK' /\ SummaryWorkerOK' BY <1>5, <1>7 DEF SummaryWorkOK, SummaryWorkerOK
<1>10. ManagersGuarded' BY <1>2, <1>5 DEF OperatorInv, ManagersGuarded, Exists, apiVars
<1>11. QED BY <1>3, <1>8, <1>9, <1>10, OperatorPartsNext

\* A goroutine in its place.
LEMMA LoopPlaced ==
  ASSUME loops \in [Names -> [Loops -> LoopType]], NEW n \in Names, NEW i \in Loops, NEW l \in LoopType
  PROVE  [loops EXCEPT ![n][i] = l] \in [Names -> [Loops -> LoopType]]
OBVIOUS

\* GetSummaryManager and Run: a manager is started under the finalizer, with a
\* kubeconfig of an incarnation that was created.
LEMMA StartManagerInv ==
  ASSUME OperatorInv, UNCHANGED installerVars, StartManager
  PROVE  OperatorInv'
<1>1. PICK n \in Names : n = swork.key
  BY DEF StartManager, OperatorInv, SummaryWorkOK
<1>2. /\ swork.pc = "manager" /\ Synced
      /\ \/ UNCHANGED managers
         \/ \E uid : <<n, uid>> \in secrets /\ managers' = [managers EXCEPT ![n] = uid]
      /\ UNCHANGED <<apiVars, secrets, faults, load>>
  BY <1>1 DEF StartManager
<1>3. /\ TypeInv' /\ StorageOK' /\ WorkerOK'
      /\ SecretsNumbered' /\ SummaryVersionsOK'
  BY <1>2, NothingWritten
<1>4. SummaryTypeOK /\ managers \in [Names -> 0..MaxUid]
      /\ loops \in [Names -> [Loops -> LoopType]] /\ load \in [Names -> 1..MaxLoad]
  BY SummaryTypes DEF OperatorInv
<1>5. /\ (squeue \in QueueType(Names, 0))' /\ (swork \in SummaryWorkType)'
      /\ SummaryWorkOK' /\ SummaryWorkerOK'
  BY <1>1, <1>2, <1>4, KeyReturned
<1>6. /\ managers' \in [Names -> 0..MaxUid]
      /\ \A m \in Names : m # n => managers'[m] = managers[m]
  <2>1. CASE UNCHANGED managers BY <1>4, <2>1
  <2>2. ASSUME NEW uid, <<n, uid>> \in secrets, managers' = [managers EXCEPT ![n] = uid]
        PROVE  /\ managers' \in [Names -> 0..MaxUid]
               /\ \A m \in Names : m # n => managers'[m] = managers[m]
    <3>1. <<n, uid>>[2] \in 0..MaxUid BY <2>2 DEF OperatorInv, SecretsNumbered
    <3>2. uid \in 0..MaxUid BY <3>1
    <3>3. QED BY <1>4, <2>2, <3>2
  <2>3. QED BY <1>2, <2>1, <2>2
<1>7. loops' \in [Names -> [Loops -> LoopType]]
  <2>1. CASE UNCHANGED loops BY <1>4, <2>1
  <2>2. CASE \E i \in Loops : loops[n][i].pc = "none"
    <3>1. PICK i \in Loops :
            loops' = [loops EXCEPT ![n][i] = [NoLoop EXCEPT !.pc = "start", !.open = TRUE]]
      BY <1>1, <2>2 DEF StartManager
    <3>2. [NoLoop EXCEPT !.pc = "start", !.open = TRUE] \in LoopType
      BY SummaryTypes DEF LoopType
    <3>3. QED BY <1>4, <3>1, <3>2, LoopPlaced
  <2>3. QED BY <1>1, <2>1, <2>2 DEF StartManager
<1>8. SummaryTypeOK' BY <1>2, <1>4, <1>5, <1>6, <1>7, SummaryTypesNext
<1>9. HasSummaryFinalizer(n) BY <1>1, <1>2 DEF OperatorInv, SummaryWorkerOK
<1>10. ManagersGuarded'
  BY <1>2, <1>6, <1>9 DEF OperatorInv, ManagersGuarded, HasSummaryFinalizer, Exists, apiVars
<1>11. QED BY <1>3, <1>5, <1>8, <1>10, OperatorPartsNext

-----------------------------------------------------------------------------
(* The summary controller writes objects *)

\* A write of the summary controller, to the types of the installer.
LEMMA WrittenType ==
  ASSUME TypeInv, (api \in [Names -> Kmds \cup {NoKmd}])', (watch \in [Names -> Seq(Kmds \cup {NoKmd})])',
         LastVersion', UNCHANGED <<cache, born, secrets, faults, installerVars>>
  PROVE  TypeInv'
<1>1. UNCHANGED <<wq, work, release, nsState>> /\ UNCHANGED extVars
  BY DEF installerVars, extVars
<1>2. ApiTypeOK' BY TypeParts DEF ApiTypeOK
<1>3. QED BY <1>1, <1>2, Untouched, TypePartsNext

LEMMA WrittenSecrets ==
  ASSUME OperatorInv, UNCHANGED secrets
  PROVE  SecretsNumbered'
BY DEF OperatorInv, SecretsNumbered

\* removekarmadaDeployment, once the manager is closed: the stored object loses the
\* summary finalizer, and goes if it was the last one.
LEMMA DropFinalizerInv ==
  ASSUME OperatorInv, UNCHANGED installerVars, DropSummaryFinalizer
  PROVE  OperatorInv'
<1>1. PICK n \in Names : n = swork.key
  BY DEF DropSummaryFinalizer, OperatorInv, SummaryWorkOK
<1>2. /\ swork.pc = "unfinalize" /\ cache[n] # NoKmd /\ cache[n].deleting /\ Fresh(n)
      /\ Update(n, [cache[n] EXCEPT !.finalizers = @ \ {SummaryFinalizer}])
      /\ Synced
      /\ UNCHANGED <<cache, born, secrets, faults, managers, loops, load>>
  BY <1>1 DEF DropSummaryFinalizer, DeletedCopyIsCurrent
<1>3. TypeInv /\ StorageOK /\ WorkerOK BY OperatorParts
<1>4. api[n] = cache[n] /\ Versions(n) = {api[n]} BY <1>2, <1>3, FreshIsStored, FreshVersions
<1>5. api[n] \in Kmds /\ api[n].deleting BY <1>2, <1>3, <1>4, TypeParts DEF ApiTypeOK
<1>6. PICK obj \in Kmds : obj = [cache[n] EXCEPT !.finalizers = @ \ {SummaryFinalizer}]
  BY <1>4, <1>5, FinalizersType
<1>7. obj.uid = api[n].uid /\ obj.deleting /\ obj.finalizers = api[n].finalizers \ {SummaryFinalizer}
  BY <1>4, <1>5, <1>6, FinalizersType
<1>8. ApiTypeOK /\ LastVersion /\ Update(n, obj) BY <1>2, <1>3, <1>6, TypeParts
<1>9. TypeInv' BY <1>2, <1>3, <1>5, <1>8, UpdateOK, WrittenType
<1>10. PICK new \in Kmds \cup {NoKmd} :
         /\ Write(n, new)
         /\ \/ new = NoKmd /\ obj.finalizers = {}
            \/ /\ new \in Kmds /\ new.uid = api[n].uid /\ new.deleting
               /\ new.finalizers = api[n].finalizers \ {SummaryFinalizer}
  <2>1. PICK new \in Kmds \cup {NoKmd} :
          /\ Write(n, new)
          /\ \/ new = NoKmd /\ obj.finalizers = {}
             \/ /\ new \in Kmds /\ new.uid = obj.uid /\ new.deleting = obj.deleting
                /\ new.finalizers = obj.finalizers
    BY <1>2, <1>5, <1>8, UpdateOK
  <2>2. QED BY <1>7, <2>1
<1>11. /\ api'[n] = new /\ \A m \in Names : m # n => api'[m] = api[m]
       /\ Versions(n)' \subseteq {api[n], new}
       /\ \A m \in Names : m # n => Versions(m)' = Versions(m)
  <2>1. /\ api' = [api EXCEPT ![n] = new]
        /\ \A m \in Names : m # n => Versions(m)' = Versions(m)
        /\ Versions(n)' \subseteq Versions(n) \cup {new}
    BY <1>2, <1>3, <1>10, VersionsWrite
  <2>2. QED BY <1>3, <1>4, <2>1, TypeParts DEF ApiTypeOK
<1>12. StorageOK' /\ Keeps
  <2>0. UNCHANGED release BY DEF installerVars
  <2>1. CASE new = NoKmd
    <3>1. InstallerFinalizer \notin api[n].finalizers
      BY <1>7, <1>10, <2>1, NoKmdIsNone DEF InstallerFinalizer, SummaryFinalizer
    <3>2. Keeps
      BY <1>11, <2>1, <3>1 DEF Keeps, Held, Unguarded, Live, Exists
    <3>3. \A v \in Versions(n) : v # NoKmd =>
            /\ ~v.deleting /\ InstallerFinalizer \in v.finalizers => Held(n, v)'
            /\ v.deleting => Outlived(n, v)'
      BY <1>4, <1>5, <1>11, <2>1 DEF Outlived, Exists
    <3>4. \A m \in Names : born'[m] \in Nat /\ born'[m] >= born[m] BY <1>2, <1>3, Numbers
    <3>5. StorageOK'
      BY <1>2, <1>3, <1>9, <1>10, <2>0, <2>1, <3>3, <3>4, WriteKeeps
    <3>6. QED BY <3>2, <3>5
  <2>2. CASE new \in Kmds
    <3>1. /\ new.uid = api[n].uid /\ new.deleting = api[n].deleting
          /\ new.finalizers = api[n].finalizers \ {SummaryFinalizer}
      BY <1>5, <1>10, <2>2, NoKmdIsNone
    <3>2. InstallerFinalizer \in new.finalizers <=> InstallerFinalizer \in api[n].finalizers
      BY <3>1 DEF InstallerFinalizer, SummaryFinalizer
    <3>3. Write(n, new) /\ UNCHANGED <<cache, born, release>> BY <1>2, <1>10, <2>0
    <3>4. QED BY <1>3, <1>5, <1>9, <2>2, <3>1, <3>2, <3>3, IdentityWrite
  <2>3. QED BY <2>1, <2>2
<1>13. WorkerOK' BY <1>3, <1>12, WorkerStays DEF installerVars
<1>14. SummaryTypeOK' /\ SummaryWorkOK' /\ SummaryWorkerOK'
  <2>1. SummaryTypeOK BY DEF OperatorInv
  <2>2. /\ (squeue \in QueueType(Names, 0))' /\ (swork \in SummaryWorkType)'
        /\ SummaryWorkOK' /\ SummaryWorkerOK'
    BY <1>1, <1>2, <2>1, KeyReturned
  <2>3. QED BY <1>2, <2>1, <2>2, SummaryTypes, SummaryTypesNext
<1>15. SummaryVersionsOK'
  <2>1. \A v \in Versions(n)' : v = NoKmd \/ v.deleting BY <1>5, <1>10, <1>11
  <2>2. \A m \in Names : m # n => (HasSummaryFinalizer(m) => HasSummaryFinalizer(m)')
    BY <1>11 DEF HasSummaryFinalizer, Exists
  <2>3. QED BY <1>11, <2>1, <2>2 DEF OperatorInv, SummaryVersionsOK
<1>16. ManagersGuarded'
  <2>1. managers[n] = 0 BY <1>1, <1>2 DEF OperatorInv, SummaryWorkerOK
  <2>2. QED BY <1>2, <1>11, <2>1 DEF OperatorInv, ManagersGuarded, Exists
<1>17. SecretsNumbered' BY <1>2, WrittenSecrets
<1>18. QED BY <1>9, <1>12, <1>13, <1>14, <1>15, <1>16, <1>17, OperatorPartsNext

\* Where the managers and the worker's promise stand after a write that keeps the
\* finalizer.
LEMMA WrittenGuards ==
  ASSUME OperatorInv, SummaryKept, UNCHANGED managers
  PROVE  SummaryVersionsOK' /\ ManagersGuarded'
<1>1. SummaryVersionsOK' BY KeptGuards DEF OperatorInv
<1>2. \A n \in Names : managers[n] # 0 => HasSummaryFinalizer(n)'
  BY DEF OperatorInv, ManagersGuarded, HasSummaryFinalizer, SummaryKept
<1>3. ManagersGuarded' BY <1>2 DEF ManagersGuarded, HasSummaryFinalizer, Exists
<1>4. QED BY <1>1, <1>3

LEMMA FinalizerAdded ==
  ASSUME NEW k \in Kmds
  PROVE  /\ [k EXCEPT !.finalizers = @ \cup {SummaryFinalizer}] \in Kmds
         /\ [k EXCEPT !.finalizers = @ \cup {SummaryFinalizer}].uid = k.uid
         /\ [k EXCEPT !.finalizers = @ \cup {SummaryFinalizer}].deleting = k.deleting
         /\ [k EXCEPT !.finalizers = @ \cup {SummaryFinalizer}].finalizers
              = k.finalizers \cup {SummaryFinalizer}
         /\ [k EXCEPT !.finalizers = @ \cup {SummaryFinalizer}].spec = k.spec
BY DEF Kmds

\* The finalizer is stored, or was when the copy was: it is there when the worker
\* goes on to start the manager.
LEMMA EnsureFinalizerInv ==
  ASSUME OperatorInv, UNCHANGED installerVars, EnsureSummaryFinalizer
  PROVE  OperatorInv'
<1>1. PICK n \in Names : n = swork.key
  BY DEF EnsureSummaryFinalizer, OperatorInv, SummaryWorkOK
<1>2. TypeInv /\ StorageOK /\ WorkerOK BY OperatorParts
<1>3. /\ cache[n] \in Kmds /\ ~cache[n].deleting /\ cache[n] \in Versions(n)
      /\ UNCHANGED <<cache, born, secrets, faults, squeue, managers, loops, load>>
  BY <1>1, <1>2, TypeParts DEF EnsureSummaryFinalizer, ApiTypeOK, Versions
<1>4. PICK obj \in Kmds : obj = [cache[n] EXCEPT !.finalizers = @ \cup {SummaryFinalizer}]
  BY <1>3, FinalizerAdded
<1>5. /\ obj.uid = cache[n].uid /\ obj.deleting = cache[n].deleting /\ ~obj.deleting
      /\ obj.finalizers = cache[n].finalizers \cup {SummaryFinalizer}
  BY <1>3, <1>4, FinalizerAdded
<1>6. /\ swork' = [swork EXCEPT !.pc = "manager", !.kmd = obj]
      /\ \/ SummaryFinalizer \in cache[n].finalizers /\ UNCHANGED <<api, watch>>
         \/ Fresh(n) /\ Update(n, obj)
  BY <1>1, <1>4 DEF EnsureSummaryFinalizer
<1>7. /\ TypeInv' /\ StorageOK' /\ WorkerOK'
      /\ SummaryKept /\ HasSummaryFinalizer(n)'
  <2>1. CASE SummaryFinalizer \in cache[n].finalizers /\ UNCHANGED <<api, watch>>
    <3>1. UNCHANGED apiVars BY <1>3, <2>1 DEF apiVars
    <3>2. TypeInv' /\ StorageOK' /\ WorkerOK' BY <1>3, <3>1, NothingWritten
    <3>3. HasSummaryFinalizer(n)
      BY <1>3, <2>1, NoKmdIsNone DEF OperatorInv, SummaryVersionsOK
    <3>4. SummaryKept BY <3>1, ApiStaysKept
    <3>5. QED BY <3>2, <3>3, <3>4 DEF SummaryKept
  <2>2. CASE Fresh(n) /\ Update(n, obj)
    <3>1. api[n] = cache[n] BY <1>2, <2>2, FreshIsStored
    <3>2. ApiTypeOK /\ LastVersion /\ api[n] \in Kmds BY <1>2, <1>3, <3>1, TypeParts
    <3>3. TypeInv' BY <1>2, <1>3, <2>2, <3>2, UpdateOK, WrittenType
    <3>4. PICK new \in Kmds :
            /\ Write(n, new)
            /\ new.uid = obj.uid /\ new.deleting = obj.deleting /\ new.finalizers = obj.finalizers
      BY <1>3, <1>5, <2>2, <3>2, UpdateOK
    <3>5. /\ new.uid = api[n].uid /\ new.deleting = api[n].deleting
          /\ InstallerFinalizer \in new.finalizers <=> InstallerFinalizer \in api[n].finalizers
          /\ SummaryFinalizer \in new.finalizers
      <4>1. /\ new.uid = api[n].uid /\ new.deleting = api[n].deleting
            /\ new.finalizers = api[n].finalizers \cup {SummaryFinalizer}
        BY <1>3, <1>5, <3>1, <3>4
      <4>2. InstallerFinalizer # SummaryFinalizer BY DEF InstallerFinalizer, SummaryFinalizer
      <4>3. QED BY <4>1, <4>2
    <3>6. UNCHANGED <<cache, born, release>> BY <1>3 DEF installerVars
    <3>7. StorageOK' /\ Keeps BY <1>2, <3>2, <3>3, <3>4, <3>5, <3>6, IdentityWrite
    <3>8. WorkerOK' BY <1>2, <3>7, WorkerStays DEF installerVars
    <3>9. /\ api'[n] = new /\ \A m \in Names : m # n => api'[m] = api[m]
          /\ \A m \in Names : Versions(m)' \subseteq Versions(m) \cup {api'[m]}
      <4>1. /\ api' = [api EXCEPT ![n] = new]
            /\ \A m \in Names : m # n => Versions(m)' = Versions(m)
            /\ Versions(n)' \subseteq Versions(n) \cup {new}
        BY <1>2, <1>3, <3>4, VersionsWrite
      <4>2. api'[n] = new /\ \A m \in Names : m # n => api'[m] = api[m]
        BY <3>2, <4>1 DEF ApiTypeOK
      <4>3. QED BY <4>1, <4>2
    <3>10. HasSummaryFinalizer(n)' BY <3>5, <3>9, NoKmdIsNone DEF HasSummaryFinalizer, Exists
    <3>11. SummaryKept BY <3>9, <3>10 DEF SummaryKept, HasSummaryFinalizer, Exists
    <3>12. QED BY <3>3, <3>7, <3>8, <3>10, <3>11
  <2>3. QED BY <1>6, <2>1, <2>2
<1>8. swork \in SummaryWorkType BY SummaryTypes DEF OperatorInv
<1>9. /\ swork' \in SummaryWorkType
      /\ swork'.pc = "manager" /\ swork'.key = n /\ swork'.kmd \in Kmds
  BY <1>1, <1>6, <1>8 DEF SummaryWorkType
<1>10. SummaryTypeOK' BY <1>3, <1>9, SummaryTypes, SummaryTypesNext DEF OperatorInv
<1>11. SummaryWorkOK' BY <1>9 DEF SummaryWorkOK
<1>12. SummaryWorkerOK'
  BY <1>7, <1>9 DEF SummaryWorkerOK, HasSummaryFinalizer, Exists
<1>13. SummaryVersionsOK' /\ ManagersGuarded' BY <1>3, <1>7, WrittenGuards
<1>14. SecretsNumbered' BY <1>3, WrittenSecrets
<1>15. QED BY <1>7, <1>10, <1>11, <1>12, <1>13, <1>14, OperatorPartsNext

\* The goroutines of a manager write statuses.
LEMMA LoopInv ==
  ASSUME OperatorInv, UNCHANGED installerVars, NEW n \in Names, NEW i \in Loops, LoopStep(n, i)
  PROVE  OperatorInv'
<1>1. TypeInv /\ StorageOK /\ WorkerOK BY OperatorParts
<1>2. /\ squeue \in QueueType(Names, 0) /\ swork \in SummaryWorkType
      /\ managers \in [Names -> 0..MaxUid] /\ load \in [Names -> 1..MaxLoad]
      /\ loops \in [Names -> [Loops -> LoopType]]
  BY SummaryTypes DEF OperatorInv
<1>3. UNCHANGED <<cache, born, secrets, squeue, swork, managers, load>>
  BY DEF LoopStep, LoopStart, LoopRead, LoopWrite, LoopWriteFails, apiVars
<1>4. loops[n][i] \in LoopType BY <1>2
<1>5. loops' \in [Names -> [Loops -> LoopType]]
  <2>1. CASE EndRound(n, i)
    <3>1. PICK l : loops' = [loops EXCEPT ![n][i] = l]
                   /\ (l = NoLoop \/ l = [NoLoop EXCEPT !.pc = "sleep", !.open = TRUE])
      BY <2>1 DEF EndRound
    <3>2. l \in LoopType BY <3>1, SummaryTypes DEF LoopType
    <3>3. QED BY <1>2, <3>1, <3>2, LoopPlaced
  <2>2. CASE loops' = [loops EXCEPT ![n][i].pc = "sleep"]
    <3>1. [loops[n][i] EXCEPT !.pc = "sleep"] \in LoopType BY <1>4 DEF LoopType
    <3>2. loops' = [loops EXCEPT ![n][i] = [loops[n][i] EXCEPT !.pc = "sleep"]] BY <1>2, <2>2
    <3>3. QED BY <1>2, <3>1, <3>2, LoopPlaced
  <2>3. CASE loops' = [loops EXCEPT ![n][i] = NoLoop]
    BY <1>2, <2>3, SummaryTypes, LoopPlaced
  <2>4. CASE cache[n] # NoKmd
             /\ loops' = [loops EXCEPT ![n][i].pc = "write",
                                       ![n][i].status = [cache[n].status EXCEPT !.summary = load[n]]]
    <3>1. cache[n].status \in Statuses BY <1>1, <2>4, TypeParts DEF ApiTypeOK, Kmds
    <3>2. load[n] \in Nat BY <1>2
    <3>3. PICK s \in Statuses : s = [cache[n].status EXCEPT !.summary = load[n]]
      BY <3>1, <3>2 DEF Statuses
    <3>4. [loops[n][i] EXCEPT !.pc = "write", !.status = s] \in LoopType BY <1>4 DEF LoopType
    <3>5. loops' = [loops EXCEPT ![n][i] = [loops[n][i] EXCEPT !.pc = "write", !.status = s]]
      BY <1>2, <2>4, <3>3
    <3>6. QED BY <1>2, <3>4, <3>5, LoopPlaced
  <2>5. QED BY <2>1, <2>2, <2>3, <2>4 DEF LoopStep, LoopStart, LoopRead, LoopWrite, LoopWriteFails
<1>6. /\ TypeInv' /\ StorageOK' /\ WorkerOK' /\ SummaryKept
  <2>1. CASE LoopWrite(n, i)
    <3>1. PICK s \in Statuses : SetStatus(n, s)
      BY <1>4, <2>1 DEF LoopWrite, LoopType
    <3>2. UNCHANGED faults BY <2>1 DEF LoopWrite
    <3>3. ApiTypeOK /\ LastVersion BY <1>1, TypeParts
    <3>4. /\ api[n] \in Kmds /\ Write(n, [api[n] EXCEPT !.status = s])
          /\ TypeInv'
      BY <1>1, <1>3, <3>1, <3>2, <3>3, SetStatusOK, WrittenType
    <3>5. PICK obj \in Kmds : obj = [api[n] EXCEPT !.status = s] BY <3>4, KmdWithStatus
    <3>6. obj.uid = api[n].uid /\ obj.deleting = api[n].deleting /\ obj.finalizers = api[n].finalizers
      BY <3>4, <3>5, KmdWithStatus
    <3>7. Write(n, obj) /\ UNCHANGED <<cache, born, release>>
      BY <1>3, <3>4, <3>5 DEF installerVars
    <3>8. StorageOK' /\ Keeps BY <1>1, <3>4, <3>6, <3>7, IdentityWrite
    <3>9. WorkerOK' BY <1>1, <3>8, WorkerStays DEF installerVars
    <3>10. SummaryKept BY <1>1, <1>3, <3>1, StatusKept
    <3>11. QED BY <3>4, <3>8, <3>9, <3>10
  <2>2. CASE LoopStart(n, i) \/ LoopRead(n, i) \/ LoopWriteFails(n, i)
    <3>1. UNCHANGED <<apiVars, secrets>> /\ (UNCHANGED faults \/ Fault("api"))
      BY <2>2 DEF LoopStart, LoopRead, LoopWriteFails
    <3>2. QED BY <3>1, NothingWritten, ApiStaysKept
  <2>3. QED BY <2>1, <2>2 DEF LoopStep
<1>7. SummaryTypeOK' BY <1>2, <1>3, <1>5, SummaryTypesNext
<1>8. SummaryVersionsOK' /\ ManagersGuarded' BY <1>3, <1>6, WrittenGuards
<1>9. SecretsNumbered' BY <1>3, WrittenSecrets
<1>10. SummaryWorkOK' BY <1>3 DEF OperatorInv, SummaryWorkOK
<1>11. SummaryWorkerOK' BY <1>3, <1>6, PromiseKept
<1>12. QED BY <1>6, <1>7, <1>8, <1>9, <1>10, <1>11, OperatorPartsNext

-----------------------------------------------------------------------------
(* The operator *)

LEMMA OperatorInvInit == OperatorInit => OperatorInv
<1> SUFFICES ASSUME OperatorInit PROVE OperatorInv
  OBVIOUS
<1>1. Init /\ SummaryInit BY DEF OperatorInit
<1>2. IInv BY <1>1, InvInit
<1>3. /\ squeue = EmptyQueue(Names) /\ swork = SummaryIdle
      /\ managers = [n \in Names |-> 0]
      /\ loops = [n \in Names |-> [i \in Loops |-> NoLoop]]
      /\ load = [n \in Names |-> 1]
  BY <1>1 DEF SummaryInit
<1>4. SummaryTypeOK
  <2>1. squeue \in QueueType(Names, 0) BY <1>3, EmptyQueueType
  <2>2. MaxUid \in Nat /\ MaxLoad \in Nat \ {0} BY KmdApiAssumption, SummaryAssumption
  <2>3. 0 \in 0..MaxUid /\ 1 \in 1..MaxLoad BY <2>2
  <2>4. QED BY <1>3, <2>1, <2>3, SummaryTypes
<1>5. SummaryWorkOK /\ SummaryWorkerOK
  BY <1>3 DEF SummaryIdle, SummaryWorkOK, SummaryWorkerOK
<1>6. SecretsNumbered BY <1>1 DEF Init, SecretsNumbered
<1>7. SummaryVersionsOK
  <2>1. \A n \in Names : cache[n] = NoKmd /\ watch[n] = <<>> BY <1>1 DEF Init, ApiInit
  <2>2. \A n \in Names : Versions(n) = {NoKmd} BY <2>1 DEF Versions
  <2>3. QED BY <2>2 DEF SummaryVersionsOK
<1>8. ManagersGuarded BY <1>3 DEF ManagersGuarded
<1>9. QED BY <1>2, <1>4, <1>5, <1>6, <1>7, <1>8 DEF OperatorInv

LEMMA SummaryStepInv ==
  ASSUME OperatorInv, SummaryStep, UNCHANGED installerVars
  PROVE  OperatorInv'
<1>1. CASE SummaryWorkerStep
  BY <1>1, SummaryTurnInv, CloseManagerInv, DropFinalizerInv, EnsureFinalizerInv, StartManagerInv
     DEF SummaryWorkerStep
<1>2. CASE \E n \in Names : SummaryBackoffElapses(n) \/ ContentsChange(n)
  BY <1>2, SummaryBackoffInv
<1>3. CASE \E n \in Names, i \in Loops : LoopStep(n, i)
  BY <1>3, LoopInv
<1>4. QED BY <1>1, <1>2, <1>3 DEF SummaryStep

LEMMA OperatorInvNext == OperatorInv /\ [OperatorNext]_operatorVars => OperatorInv'
<1> SUFFICES ASSUME OperatorInv, [OperatorNext]_operatorVars PROVE OperatorInv'
  OBVIOUS
<1>0. squeue \in QueueType(Names, 0) BY SummaryTypes DEF OperatorInv
<1>1. CASE /\ \/ UserStep /\ UNCHANGED <<ctlVars, extVars, faults>>
              \/ \E n \in Names : BackoffElapses(n)
              \/ WorkerStep \/ ClusterStep
           /\ UNCHANGED summaryVars
  <2>1. [Next]_vars BY <1>1 DEF Next
  <2>2. UNCHANGED <<squeue, swork, managers, loops, load>> BY <1>1 DEF summaryVars
  <2>3. squeue' \in QueueType(Names, 0) BY <1>0, <2>2
  <2>4. QED BY <2>1, <2>2, <2>3, BesidesInstaller
<1>2. CASE \E n \in Names : SharedInformerEvent(n) BY <1>2, EventInv
<1>3. CASE SummaryStep /\ UNCHANGED installerVars BY <1>3, SummaryStepInv
<1>4. CASE OperatorDies BY <1>4, DeathInv
<1>5. CASE UNCHANGED operatorVars
  <2>1. UNCHANGED vars /\ UNCHANGED <<squeue, swork, managers, loops, load>>
    BY <1>5 DEF operatorVars, summaryVars
  <2>2. [Next]_vars BY <2>1
  <2>3. squeue' \in QueueType(Names, 0) BY <1>0, <2>1
  <2>4. QED BY <2>1, <2>2, <2>3, BesidesInstaller
<1>6. QED BY <1>1, <1>2, <1>3, <1>4, <1>5 DEF OperatorNext

\* The inductive invariant of the two controllers holds in every reachable state,
\* whatever they, their users and failures do in between (StartControllers).
THEOREM OperatorInvariantHolds == OperatorSpec => []OperatorInv
<1>1. QED BY OperatorInvInit, OperatorInvNext, PTL DEF OperatorSpec

\* The state of both controllers stays well formed when they run together.
THEOREM OperatorTypeCorrect == OperatorSpec => []OperatorTypeOK
<1>1. OperatorInv => OperatorTypeOK BY DEF OperatorInv, IInv, OperatorTypeOK
<1>2. QED BY <1>1, OperatorInvariantHolds, PTL

\* A manager never outlives the summary finalizer of the stored object, for any
\* number of objects, goroutines, incarnations, conflicts, failures and crashes
\* (GetSummaryManager, removekarmadaDeployment).
THEOREM ManagersStayGuarded == OperatorSpec => []ManagersGuarded
<1>1. OperatorInv => ManagersGuarded BY DEF OperatorInv
<1>2. QED BY <1>1, OperatorInvariantHolds, PTL

\* The summary controller does not undo the installer's finalizer: what the
\* installer keeps alone, it keeps beside the summary controller.
THEOREM InstancesGuardedTogether == OperatorSpec => []GuardedByFinalizer
<1>1. OperatorInv => GuardedByFinalizer BY DEF OperatorInv, IInv
<1>2. QED BY <1>1, OperatorInvariantHolds, PTL

-----------------------------------------------------------------------------
(* What a step of the summary controller may do *)

\* An object stays, goes with the last finalizer of a deletion that the installer
\* has agreed to, or gets another summary finalizer or a goroutine's status.
SummaryObject(n) ==
  \/ api'[n] = api[n]
  \/ /\ api[n] \in Kmds /\ api'[n] = NoKmd
     /\ api[n].deleting /\ InstallerFinalizer \notin api[n].finalizers
  \/ /\ api[n] \in Kmds /\ api'[n] \in Kmds
     /\ api'[n].uid = api[n].uid /\ api'[n].deleting = api[n].deleting
     /\ api'[n].spec = api[n].spec
     /\ InstallerFinalizer \in api'[n].finalizers <=> InstallerFinalizer \in api[n].finalizers
     /\ \/ api'[n].status = api[n].status
        \/ \E i \in Loops : loops[n][i].pc = "write" /\ api'[n].status = loops[n][i].status

SummaryEffects ==
  /\ UNCHANGED <<born, work, release, nsState, secrets>>
  /\ \A n \in Names :
       /\ Versions(n)' \subseteq Versions(n) \cup {api'[n], NoKmd}
       /\ SummaryObject(n)

\* A goroutine goes on with its status, or takes one of a version, with a summary.
LoopsEffects ==
  \A n \in Names, i \in Loops : loops'[n][i].pc = "write" =>
    \/ loops[n][i].pc = "write" /\ loops'[n][i].status = loops[n][i].status
    \/ \E v \in Versions(n) : v # NoKmd /\ Weaker(loops'[n][i].status, v.status)

-----------------------------------------------------------------------------
(* Each step has them *)

LEMMA NoWriteEffects ==
  ASSUME UNCHANGED <<apiVars, work, release, nsState, secrets>>
  PROVE  SummaryEffects
BY DEF SummaryEffects, SummaryObject, apiVars, Versions

LEMMA SummaryWriteEffects ==
  ASSUME TypeInv, NEW n \in Names, NEW obj \in Kmds \cup {NoKmd}, Write(n, obj),
         UNCHANGED <<cache, born, work, release, nsState, secrets>>,
         api'[n] = obj => SummaryObject(n)
  PROVE  SummaryEffects
<1>1. /\ api' = [api EXCEPT ![n] = obj]
      /\ \A m \in Names : m # n => Versions(m)' = Versions(m)
      /\ Versions(n)' \subseteq Versions(n) \cup {obj}
  BY VersionsWrite
<1>2. api'[n] = obj /\ \A m \in Names : m # n => api'[m] = api[m]
  BY <1>1, TypeParts DEF ApiTypeOK
<1>3. \A m \in Names : m # n => SummaryObject(m) BY <1>2 DEF SummaryObject
<1>4. \A m \in Names : Versions(m)' \subseteq Versions(m) \cup {api'[m], NoKmd}
  BY <1>1, <1>2
<1>5. QED BY <1>2, <1>3, <1>4 DEF SummaryEffects

\* An Update of n with obj, which touches nobody else's finalizer.
SummaryUpdate(n, obj) ==
  /\ api[n] \in Kmds /\ Update(n, obj)
  /\ obj.uid = api[n].uid /\ obj.deleting = api[n].deleting /\ obj.spec = api[n].spec
  /\ obj.deleting /\ obj.finalizers = {} =>
       api[n].deleting /\ InstallerFinalizer \notin api[n].finalizers
  /\ InstallerFinalizer \in obj.finalizers <=> InstallerFinalizer \in api[n].finalizers

\* removekarmadaDeployment.
LEMMA DropFinalizerUpdates ==
  ASSUME OperatorInv, DropSummaryFinalizer
  PROVE  \E n \in Names, obj \in Kmds : SummaryUpdate(n, obj)
<1>1. PICK n \in Names : n = swork.key
  BY DEF DropSummaryFinalizer, OperatorInv, SummaryWorkOK
<1>2. /\ cache[n] # NoKmd /\ cache[n].deleting /\ Fresh(n)
      /\ Update(n, [cache[n] EXCEPT !.finalizers = @ \ {SummaryFinalizer}])
  BY <1>1 DEF DropSummaryFinalizer, DeletedCopyIsCurrent
<1>3. TypeInv /\ ApiTypeOK /\ LastVersion BY OperatorParts, TypeParts
<1>4. api[n] = cache[n] BY <1>2, <1>3, FreshIsStored
<1>5. api[n] \in Kmds /\ api[n].deleting BY <1>2, <1>3, <1>4 DEF ApiTypeOK
<1>6. PICK obj \in Kmds :
        /\ obj = [cache[n] EXCEPT !.finalizers = @ \ {SummaryFinalizer}]
        /\ obj = [api[n] EXCEPT !.finalizers = @ \ {SummaryFinalizer}]
  BY <1>4, <1>5, FinalizersType
<1>7. /\ obj.uid = api[n].uid /\ obj.deleting = api[n].deleting /\ obj.spec = api[n].spec
      /\ obj.finalizers = api[n].finalizers \ {SummaryFinalizer}
  BY <1>5, <1>6 DEF Kmds
<1>8. Update(n, obj) BY <1>2, <1>6
<1>9. InstallerFinalizer # SummaryFinalizer BY DEF InstallerFinalizer, SummaryFinalizer
<1>10. SummaryUpdate(n, obj) BY <1>5, <1>7, <1>8, <1>9 DEF SummaryUpdate
<1>11. QED BY <1>10

\* syncKmdStatusResource: the finalizer comes to those of others.
LEMMA EnsureFinalizerUpdates ==
  ASSUME OperatorInv, EnsureSummaryFinalizer
  PROVE  UNCHANGED <<api, watch>> \/ \E n \in Names, obj \in Kmds : SummaryUpdate(n, obj)
<1>1. PICK n \in Names : n = swork.key
  BY DEF EnsureSummaryFinalizer, OperatorInv, SummaryWorkOK
<1>2. TypeInv /\ ApiTypeOK /\ LastVersion BY OperatorParts, TypeParts
<1>3. cache[n] \in Kmds BY <1>1, <1>2 DEF EnsureSummaryFinalizer, ApiTypeOK
<1>4. PICK obj \in Kmds : obj = [cache[n] EXCEPT !.finalizers = @ \cup {SummaryFinalizer}]
  BY <1>3, FinalizerAdded
<1>5. /\ obj.uid = cache[n].uid /\ obj.deleting = cache[n].deleting /\ obj.spec = cache[n].spec
      /\ obj.finalizers = cache[n].finalizers \cup {SummaryFinalizer}
  BY <1>3, <1>4, FinalizerAdded
<1>6. UNCHANGED <<api, watch>> \/ (Fresh(n) /\ Update(n, obj))
  BY <1>1, <1>4 DEF EnsureSummaryFinalizer
<1>7. InstallerFinalizer # SummaryFinalizer BY DEF InstallerFinalizer, SummaryFinalizer
<1>8. ASSUME Fresh(n), Update(n, obj) PROVE SummaryUpdate(n, obj)
  <2>1. api[n] = cache[n] /\ api[n] \in Kmds BY <1>2, <1>3, <1>8, FreshIsStored
  <2>2. QED BY <1>5, <1>7, <1>8, <2>1 DEF SummaryUpdate
<1>9. QED BY <1>6, <1>8

LEMMA FinalizerEffects ==
  ASSUME OperatorInv, UNCHANGED installerVars, DropSummaryFinalizer \/ EnsureSummaryFinalizer
  PROVE  SummaryEffects
<1>1. UNCHANGED <<cache, born, secrets, work, release, nsState>>
  BY DEF DropSummaryFinalizer, EnsureSummaryFinalizer, installerVars
<1>2. CASE UNCHANGED <<api, watch>> BY <1>1, <1>2, NoWriteEffects DEF apiVars
<1>3. ASSUME NEW n \in Names, NEW obj \in Kmds, SummaryUpdate(n, obj) PROVE SummaryEffects
  <2>1. TypeInv BY OperatorParts
  <2>2. PICK new \in Kmds \cup {NoKmd} :
          /\ Write(n, new)
          /\ \/ new = NoKmd /\ obj.deleting /\ obj.finalizers = {}
             \/ /\ new \in Kmds /\ new.uid = obj.uid /\ new.deleting = obj.deleting
                /\ new.finalizers = obj.finalizers
                /\ new.spec = obj.spec /\ new.status = api[n].status
    BY <1>1, <1>3, <2>1, UpdateOK, TypeParts DEF SummaryUpdate
  <2>3. api'[n] = new => SummaryObject(n) BY <1>3, <2>2 DEF SummaryObject, SummaryUpdate
  <2>4. QED BY <1>1, <2>1, <2>2, <2>3, SummaryWriteEffects
<1>4. QED BY <1>2, <1>3, DropFinalizerUpdates, EnsureFinalizerUpdates

\* A goroutine writes the status that it holds, and nothing else.
LEMMA LoopWriteEffects ==
  ASSUME OperatorInv, UNCHANGED installerVars, NEW n \in Names, NEW i \in Loops, LoopWrite(n, i)
  PROVE  SummaryEffects
<1>1. TypeInv /\ ApiTypeOK /\ LastVersion BY OperatorParts, TypeParts
<1>2. loops[n][i] \in LoopType BY SummaryTypes DEF OperatorInv
<1>3. PICK s \in Statuses : s = loops[n][i].status BY <1>2 DEF LoopType
<1>4. /\ loops[n][i].pc = "write" /\ SetStatus(n, s)
      /\ UNCHANGED <<cache, born, secrets, work, release, nsState>>
  BY <1>3 DEF LoopWrite, installerVars
<1>5. api[n] \in Kmds /\ Write(n, [api[n] EXCEPT !.status = s]) BY <1>1, <1>4, SetStatusOK
<1>6. PICK obj \in Kmds : obj = [api[n] EXCEPT !.status = s] BY <1>5, KmdWithStatus
<1>7. /\ obj.uid = api[n].uid /\ obj.deleting = api[n].deleting /\ obj.spec = api[n].spec
      /\ obj.finalizers = api[n].finalizers /\ obj.status = s
  BY <1>5, <1>6, KmdWithStatus
<1>8. api'[n] = obj => SummaryObject(n) BY <1>3, <1>4, <1>5, <1>7 DEF SummaryObject
<1>9. Write(n, obj) BY <1>5, <1>6
<1>10. QED BY <1>1, <1>4, <1>8, <1>9, SummaryWriteEffects

LEMMA SummaryStepEffects ==
  ASSUME OperatorInv, UNCHANGED installerVars, SummaryStep
  PROVE  SummaryEffects
<1>1. UNCHANGED <<work, release, nsState>> BY DEF installerVars
<1>2. CASE \/ TakeSummaryKey \/ SummaryGone \/ CloseManager \/ SummaryFinalizerKept
           \/ SummaryFinalizerNotSet \/ StartManager \/ NoClient
  BY <1>1, <1>2, NoWriteEffects
     DEF TakeSummaryKey, SummaryGone, CloseManager, SummaryFinalizerKept,
         SummaryFinalizerNotSet, StartManager, NoClient
<1>3. CASE DropSummaryFinalizer BY <1>3, FinalizerEffects
<1>4. CASE EnsureSummaryFinalizer BY <1>4, FinalizerEffects
<1>5. CASE \E n \in Names : SummaryBackoffElapses(n) \/ ContentsChange(n)
  BY <1>1, <1>5, NoWriteEffects DEF SummaryBackoffElapses, ContentsChange
<1>6. ASSUME NEW n \in Names, NEW i \in Loops, LoopStep(n, i) PROVE SummaryEffects
  <2>1. CASE LoopWrite(n, i) BY <2>1, LoopWriteEffects
  <2>2. CASE LoopStart(n, i) \/ LoopRead(n, i) \/ LoopWriteFails(n, i)
    BY <1>1, <2>2, NoWriteEffects DEF LoopStart, LoopRead, LoopWriteFails
  <2>3. QED BY <1>6, <2>1, <2>2 DEF LoopStep
<1>7. QED BY <1>2, <1>3, <1>4, <1>5, <1>6 DEF SummaryStep, SummaryWorkerStep

\* A goroutine that is not about to write has no status to speak of.
LEMMA LoopChanges ==
  ASSUME loops \in [Names -> [Loops -> LoopType]],
         NEW n \in Names, NEW i \in Loops, NEW l, loops' = [loops EXCEPT ![n][i] = l],
         l.pc = "write" => \E v \in Versions(n) : v # NoKmd /\ Weaker(l.status, v.status)
  PROVE  LoopsEffects
<1>1. loops'[n][i] = l BY DEF LoopType
<1>2. \A m \in Names, j \in Loops : ~(m = n /\ j = i) => loops'[m][j] = loops[m][j]
  BY DEF LoopType
<1>3. QED BY <1>1, <1>2 DEF LoopsEffects

\* The goroutines take their statuses from the informer.
LEMMA LoopStepEffects ==
  ASSUME OperatorInv, NEW n \in Names, NEW i \in Loops, LoopStep(n, i)
  PROVE  LoopsEffects
<1>1. loops \in [Names -> [Loops -> LoopType]] /\ loops[n][i] \in LoopType
  BY SummaryTypes DEF OperatorInv
<1>2. NoLoop.pc # "write" /\ [NoLoop EXCEPT !.pc = "sleep", !.open = TRUE].pc # "write"
  BY DEF NoLoop
<1>3. CASE EndRound(n, i)
  <2>1. PICK l : loops' = [loops EXCEPT ![n][i] = l]
                 /\ (l = NoLoop \/ l = [NoLoop EXCEPT !.pc = "sleep", !.open = TRUE])
    BY <1>3 DEF EndRound
  <2>2. l.pc # "write" BY <1>2, <2>1
  <2>3. QED BY <1>1, <2>1, <2>2, LoopChanges
<1>4. CASE loops' = [loops EXCEPT ![n][i].pc = "sleep"]
  <2>1. PICK l : l = [loops[n][i] EXCEPT !.pc = "sleep"] OBVIOUS
  <2>2. l.pc = "sleep" BY <1>1, <2>1 DEF LoopType
  <2>3. loops' = [loops EXCEPT ![n][i] = l] BY <1>1, <1>4, <2>1
  <2>4. QED BY <1>1, <2>2, <2>3, LoopChanges
<1>5. CASE loops' = [loops EXCEPT ![n][i] = NoLoop]
  BY <1>1, <1>2, <1>5, LoopChanges
<1>6. CASE cache[n] # NoKmd
           /\ loops' = [loops EXCEPT ![n][i].pc = "write",
                                     ![n][i].status = [cache[n].status EXCEPT !.summary = load[n]]]
  <2>1. cache[n] \in Versions(n) /\ cache[n].status \in Statuses
    BY <1>6, OperatorParts, TypeParts DEF ApiTypeOK, Kmds, Versions
  <2>2. PICK s : s = [cache[n].status EXCEPT !.summary = load[n]] OBVIOUS
  <2>3. Weaker(s, cache[n].status) BY <2>1, <2>2 DEF Weaker, Statuses
  <2>4. PICK l : l = [loops[n][i] EXCEPT !.pc = "write", !.status = s] OBVIOUS
  <2>5. l.status = s BY <1>1, <2>4 DEF LoopType
  <2>6. loops' = [loops EXCEPT ![n][i] = l] BY <1>1, <1>6, <2>2, <2>4
  <2>7. \E v \in Versions(n) : v # NoKmd /\ Weaker(l.status, v.status)
    BY <1>6, <2>1, <2>3, <2>5
  <2>8. QED BY <1>1, <2>6, <2>7, LoopChanges
<1>7. QED BY <1>3, <1>4, <1>5, <1>6
             DEF LoopStep, LoopStart, LoopRead, LoopWrite, LoopWriteFails

\* The worker and the process do not write in a goroutine's name.
LEMMA OtherLoopEffects ==
  ASSUME OperatorInv,
         UNCHANGED loops \/ CloseManager \/ StartManager \/ SummaryRestart
  PROVE  LoopsEffects
<1>1. loops \in [Names -> [Loops -> LoopType]] BY SummaryTypes DEF OperatorInv
<1>2. CASE UNCHANGED loops BY <1>2 DEF LoopsEffects
<1>3. CASE CloseManager
  <2>1. PICK n \in Names : n = swork.key
    BY <1>3 DEF CloseManager, OperatorInv, SummaryWorkOK
  <2>2. loops' = [loops EXCEPT ![n] = [j \in Loops |-> [@[j] EXCEPT !.open = FALSE]]]
    BY <1>3, <2>1 DEF CloseManager
  <2>3. \A j \in Loops : loops'[n][j] = [loops[n][j] EXCEPT !.open = FALSE] BY <1>1, <2>2
  <2>4. ASSUME NEW j \in Loops
        PROVE  loops'[n][j].pc = loops[n][j].pc /\ loops'[n][j].status = loops[n][j].status
    <3>1. loops[n][j] \in LoopType BY <1>1
    <3>2. QED BY <2>3, <3>1 DEF LoopType
  <2>5. \A m \in Names : m # n => loops'[m] = loops[m] BY <1>1, <2>2
  <2>6. QED BY <2>4, <2>5 DEF LoopsEffects
<1>4. CASE StartManager
  <2>1. PICK n \in Names : n = swork.key
    BY <1>4 DEF StartManager, OperatorInv, SummaryWorkOK
  <2>2. CASE UNCHANGED loops BY <2>2 DEF LoopsEffects
  <2>3. CASE \E i \in Loops : loops[n][i].pc = "none"
    <3>1. PICK i \in Loops :
            loops' = [loops EXCEPT ![n][i] = [NoLoop EXCEPT !.pc = "start", !.open = TRUE]]
      BY <1>4, <2>1, <2>3 DEF StartManager
    <3>2. [NoLoop EXCEPT !.pc = "start", !.open = TRUE].pc # "write" BY DEF NoLoop
    <3>3. QED BY <1>1, <3>1, <3>2, LoopChanges
  <2>4. QED BY <1>4, <2>1, <2>2, <2>3 DEF StartManager
<1>5. CASE SummaryRestart
  <2>1. \A n \in Names, i \in Loops : loops'[n][i].pc = "none"
    BY <1>5 DEF SummaryRestart, NoLoop
  <2>2. QED BY <2>1 DEF LoopsEffects
<1>6. QED BY <1>2, <1>3, <1>4, <1>5

\* A step of the operator is one of the installer, as far as ownership goes, or one
\* of the summary controller.
LEMMA StepSplit ==
  ASSUME OperatorInv, OwnershipInv, [OperatorNext]_operatorVars
  PROVE  (Effects \/ SummaryEffects) /\ LoopsEffects
<1>1. CASE [Next]_vars /\ UNCHANGED loops BY <1>1, OwnedEffects, OtherLoopEffects
<1>2. CASE /\ \/ UserStep /\ UNCHANGED <<ctlVars, extVars, faults>>
              \/ \E n \in Names : BackoffElapses(n)
              \/ WorkerStep \/ ClusterStep
           /\ UNCHANGED summaryVars
  BY <1>1, <1>2 DEF Next, summaryVars
<1>3. CASE \E n \in Names : SharedInformerEvent(n)
  BY <1>1, <1>3 DEF Next, SharedInformerEvent, SummaryHandles
<1>4. CASE SummaryStep /\ UNCHANGED installerVars
  <2>1. SummaryEffects BY <1>4, SummaryStepEffects
  <2>2. LoopsEffects
    BY <1>4, LoopStepEffects, OtherLoopEffects
       DEF SummaryStep, SummaryWorkerStep, TakeSummaryKey, SummaryGone, DropSummaryFinalizer,
           SummaryFinalizerKept, EnsureSummaryFinalizer, SummaryFinalizerNotSet, NoClient,
           SummaryBackoffElapses, ContentsChange
  <2>3. QED BY <2>1, <2>2
<1>5. CASE OperatorDies
  <2>1. Restart /\ SummaryRestart BY <1>5 DEF OperatorDies, ProcessDies, InstallerPanics, Crash
  <2>2. QED BY <2>1, OperatorParts, RestartEffect, OtherLoopEffects
<1>6. CASE UNCHANGED operatorVars BY <1>1, <1>6 DEF operatorVars, summaryVars
<1>7. QED BY <1>2, <1>3, <1>4, <1>5, <1>6 DEF OperatorNext

-----------------------------------------------------------------------------
(* Both keep ownership *)

\* The summary controller brings no object back, and none from one incarnation to
\* the next.
LEMMA SameIncarnation ==
  ASSUME SummaryEffects, NEW n \in Names, Exists(n)'
  PROVE  /\ Exists(n) /\ api'[n].uid = api[n].uid /\ api'[n].spec = api[n].spec
         /\ Live(n)' => Live(n)
         /\ InstallerFinalizer \in api'[n].finalizers => InstallerFinalizer \in api[n].finalizers
<1>1. api'[n] # NoKmd /\ SummaryObject(n) BY DEF SummaryEffects, Exists
<1>2. QED BY <1>1, NoKmdIsNone DEF SummaryObject, Exists, Live

\* A version after its step was one, but for the status and the summary finalizer.
LEMMA SummaryVersions ==
  ASSUME TypeInv, SummaryEffects, NEW n \in Names, NEW v \in Versions(n)', v # NoKmd
  PROVE  \E u \in Versions(n) :
           /\ u # NoKmd /\ v.uid = u.uid /\ v.spec = u.spec
           /\ InstallerFinalizer \in v.finalizers => InstallerFinalizer \in u.finalizers
           /\ \/ v.status = u.status
              \/ \E i \in Loops : loops[n][i].pc = "write" /\ v.status = loops[n][i].status
<1>1. v \in Versions(n) \/ v = api'[n] BY DEF SummaryEffects
<1>2. CASE v \in Versions(n) BY <1>2
<1>3. CASE v = api'[n] /\ api'[n] # api[n]
  <2>1. api[n] \in Versions(n) BY StoredIsVersion
  <2>2. SummaryObject(n) BY DEF SummaryEffects
  <2>3. QED BY <1>3, <2>1, <2>2, NoKmdIsNone DEF SummaryObject
<1>4. CASE v = api'[n] /\ api'[n] = api[n] BY <1>4, StoredIsVersion
<1>5. QED BY <1>1, <1>2, <1>3, <1>4

\* What a status claims stays true.
LEMMA SummaryJustified ==
  ASSUME SummaryEffects, NEW n \in Names, NEW st, Justified(n, st)
  PROVE  Justified(n, st)'
<1> SUFFICES ASSUME Live(n)', st.phase = "Completed", st.secret = api'[n].uid PROVE Serves(n)'
  BY DEF Justified
<1>1. Live(n) /\ api'[n].uid = api[n].uid BY SameIncarnation DEF Live
<1>2. Serves(n) BY <1>1 DEF Justified
<1>3. UNCHANGED <<release, secrets>> BY DEF SummaryEffects
<1>4. QED BY <1>1, <1>2, <1>3 DEF Serves, Owns

LEMMA SummaryKeepsOwnership ==
  ASSUME OperatorOwnershipInv, IInv', SummaryEffects
  PROVE  OwnershipInv'
<1>1. /\ TypeInv /\ StoredIsLast /\ WithinReach /\ ReleaseUnderWay /\ SecretsBorn /\ FoundReleaseGone
      /\ LoopsBorn
  BY InvParts DEF OperatorOwnershipInv, OwnershipInv
<1>2. UNCHANGED <<born, work, release, nsState, secrets>> BY DEF SummaryEffects
<1>3. StoredIsLast' BY <1>1, <1>2, SameIncarnation DEF StoredIsLast
<1>4. WithinReach'
  <2>1. \A n \in Names : \A v \in Versions(n)' : v # NoKmd => v.spec.ns \in Reach(n) \cup {""}
    BY <1>1, SummaryVersions DEF WithinReach
  <2>2. QED BY <1>1, <1>2, <2>1 DEF WithinReach, Reach
<1>5. ReleaseUnderWay' BY <1>1, <1>2 DEF ReleaseUnderWay, OwnRelease
<1>6. SecretsBorn'
  <2>1. ASSUME NEW n \in Names, NEW v \in Versions(n)', v # NoKmd
        PROVE  v.status.secret <= born[n]
    BY <1>1, <2>1, SummaryVersions DEF SecretsBorn, LoopsBorn
  <2>2. QED BY <1>1, <1>2, <2>1 DEF SecretsBorn
<1>7. FoundReleaseGone' BY <1>1, <1>2 DEF FoundReleaseGone, HasRelease
<1>8. ASSUME NamespaceFixed, NamespaceSettled PROVE NamespaceSettled'
  <2> SUFFICES ASSUME NEW n \in Names, Exists(n)'
               PROVE  /\ \A v \in Versions(n)' :
                           v # NoKmd /\ v.uid = api'[n].uid /\ InstallerFinalizer \in v.finalizers
                           => v.spec.ns = api'[n].spec.ns /\ v.spec.ns # ""
                      /\ \A ns \in Namespaces : Owns(n, api[n].uid, ns)' => ns = api'[n].spec.ns
                      /\ work'.pc \in InstallPcs /\ work'.key = n =>
                           work'.kmd.spec.ns = api'[n].spec.ns
    BY DEF NamespaceSettled
  <2>1. Exists(n) /\ api'[n].uid = api[n].uid /\ api'[n].spec = api[n].spec BY SameIncarnation
  <2>2. ASSUME NEW v \in Versions(n)', v # NoKmd, v.uid = api'[n].uid,
               InstallerFinalizer \in v.finalizers
        PROVE  v.spec.ns = api'[n].spec.ns /\ v.spec.ns # ""
    <3>1. PICK u \in Versions(n) :
            /\ u # NoKmd /\ v.uid = u.uid /\ v.spec = u.spec
            /\ InstallerFinalizer \in u.finalizers
      BY <1>1, <2>2, SummaryVersions
    <3>2. u.spec.ns = api[n].spec.ns /\ u.spec.ns # ""
      BY <1>8, <2>1, <2>2, <3>1 DEF NamespaceSettled
    <3>3. QED BY <2>1, <3>1, <3>2
  <2>3. QED BY <1>2, <1>8, <2>1, <2>2 DEF NamespaceSettled, Owns
<1>9. ASSUME TerminatingUnowned PROVE TerminatingUnowned'
  BY <1>2, <1>9, SameIncarnation DEF TerminatingUnowned, Live, Owns
<1>10. ASSUME StatusesJustified, LoopsJustified PROVE StatusesJustified'
  <2>1. ASSUME NEW n \in Names, NEW v \in Versions(n)', v # NoKmd
        PROVE  Justified(n, v.status)'
    <3>1. PICK u \in Versions(n) :
            /\ u # NoKmd
            /\ \/ v.status = u.status
               \/ \E i \in Loops : loops[n][i].pc = "write" /\ v.status = loops[n][i].status
      BY <1>1, <2>1, SummaryVersions
    <3>2. CASE v.status = u.status
      <4>1. Justified(n, u.status) BY <1>10, <3>1 DEF StatusesJustified
      <4>2. Justified(n, u.status)' BY <4>1, SummaryJustified
      <4>3. QED BY <3>2, <4>2 DEF Justified
    <3>3. ASSUME NEW i \in Loops, loops[n][i].pc = "write", v.status = loops[n][i].status
          PROVE  Justified(n, v.status)'
      <4>1. PICK st : st = loops[n][i].status OBVIOUS
      <4>2. Justified(n, st) BY <1>10, <3>3, <4>1 DEF LoopsJustified
      <4>3. Justified(n, st)' BY <4>2, SummaryJustified
      <4>4. QED BY <3>3, <4>1, <4>3 DEF Justified
    <3>4. QED BY <3>1, <3>2, <3>3
  <2>2. ASSUME work.pc \in StatusPcs PROVE (Justified(work.key, work.kmd.status))'
    <3>1. PICK n \in Names : n = work.key BY <1>1, <2>2, WorkerHas, PcFacts
    <3>2. PICK st : st = work.kmd.status OBVIOUS
    <3>3. Justified(n, st)'
      BY <1>10, <2>2, <3>1, <3>2, SummaryJustified DEF StatusesJustified
    <3>4. work'.key = n /\ work'.kmd.status = st BY <1>2, <3>1, <3>2
    <3>5. QED BY <3>3, <3>4 DEF Justified, Live, Exists, Serves, Owns
  <2>3. QED BY <1>2, <2>1, <2>2 DEF StatusesJustified
<1>11. (NamespaceFixed => NamespaceSettled)'
  BY <1>8 DEF OperatorOwnershipInv, OwnershipInv, NamespaceFixed
<1>12. (NamespacesDisjoint => TerminatingUnowned /\ StatusesJustified)'
  BY <1>9, <1>10 DEF OperatorOwnershipInv, OwnershipInv, NamespacesDisjoint, Reach
<1>13. QED BY <1>3, <1>4, <1>5, <1>6, <1>7, <1>11, <1>12 DEF OwnershipInv

\* So does a step of either what a goroutine is about to write.
LEMMA LoopsKept ==
  ASSUME OperatorOwnershipInv, Effects \/ SummaryEffects, LoopsEffects
  PROVE  LoopsBorn' /\ (NamespacesDisjoint => LoopsJustified)'
<1>1. /\ TypeInv /\ WorkerOK /\ GuardedByFinalizer /\ WithinReach /\ ReleaseUnderWay
      /\ SecretsBorn /\ LoopsBorn
  BY InvParts DEF OperatorOwnershipInv, OwnershipInv, IInv
<1>2. \A n \in Names : born[n] \in Nat /\ born'[n] \in Nat /\ born[n] <= born'[n]
  <2>1. \A n \in Names : born[n] \in 0..MaxUid BY <1>1, TypeParts DEF ApiTypeOK
  <2>2. CASE Effects
    <3>1. ObjectsStep BY <2>2 DEF Effects
    <3>2. QED BY <1>1, <2>1, <3>1, BornGrows
  <2>3. CASE SummaryEffects BY <2>1, <2>3 DEF SummaryEffects
  <2>4. QED BY <2>2, <2>3
<1>3. ASSUME NEW n \in Names, NEW i \in Loops, loops'[n][i].pc = "write"
      PROVE  \E st : /\ Weaker(loops'[n][i].status, st)
                     /\ st.secret \in Nat /\ st.secret <= born[n]
                     /\ NamespacesDisjoint => Justified(n, st)
  <2>1. CASE loops[n][i].pc = "write" /\ loops'[n][i].status = loops[n][i].status
    <3>1. loops[n][i] \in LoopType BY SummaryTypes DEF OperatorOwnershipInv, OperatorInv
    <3>2. loops[n][i].status.secret \in Nat BY <3>1 DEF LoopType, Statuses
    <3>3. NamespacesDisjoint => Justified(n, loops[n][i].status)
      BY <2>1 DEF OperatorOwnershipInv, LoopsJustified
    <3>4. Weaker(loops'[n][i].status, loops[n][i].status) BY <2>1 DEF Weaker
    <3>5. QED BY <1>1, <2>1, <3>2, <3>3, <3>4 DEF LoopsBorn
  <2>2. ASSUME NEW v \in Versions(n), v # NoKmd, Weaker(loops'[n][i].status, v.status)
        PROVE  /\ v.status.secret \in Nat /\ v.status.secret <= born[n]
               /\ NamespacesDisjoint => Justified(n, v.status)
    <3>1. v.status.secret \in Nat BY <1>1, <2>2, StoredIsVersion DEF Kmds, Statuses
    <3>2. v.status.secret <= born[n] BY <1>1, <2>2 DEF SecretsBorn
    <3>3. NamespacesDisjoint => Justified(n, v.status)
      BY <2>2 DEF OperatorOwnershipInv, OwnershipInv, StatusesJustified
    <3>4. QED BY <3>1, <3>2, <3>3
  <2>3. QED BY <1>3, <2>1, <2>2 DEF LoopsEffects
<1>4. ASSUME NEW n \in Names, NEW i \in Loops, loops'[n][i].pc = "write"
      PROVE  /\ loops'[n][i].status.secret <= born'[n]
             /\ NamespacesDisjoint => Justified(n, loops[n][i].status)'
  <2>1. PICK st : /\ Weaker(loops'[n][i].status, st)
                  /\ st.secret \in Nat /\ st.secret <= born[n]
                  /\ NamespacesDisjoint => Justified(n, st)
    BY <1>3, <1>4
  <2>2. loops'[n][i].status.secret <= born'[n] BY <1>2, <2>1 DEF Weaker
  <2>3. ASSUME NamespacesDisjoint PROVE Justified(n, loops[n][i].status)'
    <3>1. Justified(n, st) BY <2>1, <2>3
    <3>2. CASE Effects
      <4>1. TerminatingUnowned BY <2>3 DEF OperatorOwnershipInv, OwnershipInv
      <4>2. Justified(n, st)' BY <1>1, <2>1, <2>3, <3>1, <3>2, <4>1, JustifiedStays
      <4>3. QED BY <2>1, <4>2 DEF Weaker, Justified
    <3>3. CASE SummaryEffects
      <4>1. Justified(n, st)' BY <3>1, <3>3, SummaryJustified
      <4>2. QED BY <2>1, <4>1 DEF Weaker, Justified
    <3>4. QED BY <3>2, <3>3
  <2>4. QED BY <2>2, <2>3
<1>5. LoopsBorn' BY <1>4 DEF LoopsBorn
<1>6. NamespacesDisjoint => LoopsJustified' BY <1>4 DEF LoopsJustified
<1>7. QED BY <1>5, <1>6 DEF NamespacesDisjoint, Reach

-----------------------------------------------------------------------------
(* OperatorOwnershipInv is inductive *)

LEMMA OperatorOwnershipInit == OperatorInit => OperatorOwnershipInv
<1> SUFFICES ASSUME OperatorInit PROVE OperatorOwnershipInv
  OBVIOUS
<1>1. OperatorInv /\ OwnershipInv BY OperatorInvInit, OwnershipInit DEF OperatorInit
<1>2. \A n \in Names, i \in Loops : loops[n][i].pc # "write"
  BY DEF OperatorInit, SummaryInit, NoLoop
<1>3. QED BY <1>1, <1>2 DEF OperatorOwnershipInv, LoopsBorn, LoopsJustified

LEMMA OperatorOwnershipNext ==
  OperatorOwnershipInv /\ [OperatorNext]_operatorVars => OperatorOwnershipInv'
<1> SUFFICES ASSUME OperatorOwnershipInv, [OperatorNext]_operatorVars
             PROVE  OperatorOwnershipInv'
  OBVIOUS
<1>1. OperatorInv /\ OwnershipInv BY DEF OperatorOwnershipInv
<1>2. OperatorInv' BY <1>1, OperatorInvNext
<1>3. (Effects \/ SummaryEffects) /\ LoopsEffects BY <1>1, StepSplit
<1>4. IInv' BY <1>2 DEF OperatorInv
<1>5. OwnershipInv' BY <1>1, <1>3, <1>4, OwnershipKept, SummaryKeepsOwnership
<1>6. LoopsBorn' /\ (NamespacesDisjoint => LoopsJustified)' BY <1>3, LoopsKept
<1>7. QED BY <1>2, <1>5, <1>6 DEF OperatorOwnershipInv

\* Neither controller, beside the other, loses track of what an incarnation owns:
\* where its release is, what the statuses on their way claim of it, and what an
\* uninstallation found (the invariant behind the theorems below; SetStatus,
\* UpdateStatus and the two finalizers are where the controllers meet).
THEOREM OperatorOwnershipInvariant == OperatorSpec => []OperatorOwnershipInv
BY OperatorOwnershipInit, OperatorOwnershipNext, PTL DEF OperatorSpec

\* One object gets one control plane, in the namespace that is stored in it, unless
\* a user moves the object to another, whatever the summary controller writes.
THEOREM SingleInstanceBesideSummaries ==
  ASSUME NamespaceFixed
  PROVE  OperatorSpec => []OneInstance
<1>1. OperatorOwnershipInv => OneInstance BY OwnsOnce DEF OperatorOwnershipInv
<1>2. QED BY <1>1, OperatorOwnershipInvariant, PTL

\* A live object in phase Completed whose status refers to its own secret is
\* served, although the goroutines of the summary controller write back whole
\* statuses which they read a while ago (manager.go updateKmdStatus).
THEOREM CompletedIsDeployedBesideSummaries ==
  ASSUME NamespacesDisjoint
  PROVE  OperatorSpec => []CompletedMeansDeployed
<1>1. OperatorOwnershipInv => CompletedMeansDeployed
  BY ClaimedIsServed DEF OperatorOwnershipInv
<1>2. QED BY <1>1, OperatorOwnershipInvariant, PTL

\* The deployed control plane of a live object is never taken down, if no two names
\* share a namespace (uninstall.go Uninstall).
THEOREM LiveControlPlaneKeptBesideSummaries ==
  ASSUME NamespacesDisjoint
  PROVE  OperatorSpec => ControlPlaneKept
<1>1. OperatorOwnershipInv /\ [OperatorNext]_operatorVars =>
        [\A n \in Names, ns \in Namespaces :
           Live(n) /\ release[n][ns].status = "deployed" /\ release'[n][ns] = NoRelease
           => ~Owns(n, api[n].uid, ns)]_vars
  <2> SUFFICES ASSUME OperatorOwnershipInv, [OperatorNext]_operatorVars,
                      NEW n \in Names, NEW ns \in Namespaces,
                      Live(n), release[n][ns].status = "deployed", release'[n][ns] = NoRelease,
                      Owns(n, api[n].uid, ns)
               PROVE  FALSE
    OBVIOUS
  <2>1. OwnershipInv /\ (Effects \/ SummaryEffects)
    BY StepSplit DEF OperatorOwnershipInv
  <2>2. CASE Effects BY <2>1, <2>2, DeployedStays DEF Effects
  <2>3. CASE SummaryEffects
    <3>1. NoRelease.status # "deployed" BY DEF NoRelease
    <3>2. QED BY <2>3, <3>1 DEF SummaryEffects
  <2>4. QED BY <2>1, <2>2, <2>3
<1>2. QED BY <1>1, OperatorOwnershipInvariant, PTL DEF OperatorSpec, ControlPlaneKept

\* The summary controller lets no object go in the installer's place, and brings
\* nothing up.
LEMMA SummaryLeavesUninstalling ==
  ASSUME SummaryEffects, NEW n \in Names
  PROVE  /\ ~FinalizerLeaves(n)
         /\ \A ns \in Namespaces : release'[n][ns] = release[n][ns]
<1>1. SummaryObject(n) /\ UNCHANGED release BY DEF SummaryEffects
<1>2. CASE api'[n] = api[n] BY <1>1, <1>2 DEF FinalizerLeaves, Exists
<1>3. CASE InstallerFinalizer \notin api[n].finalizers BY <1>1, <1>3 DEF FinalizerLeaves
<1>4. CASE /\ api'[n] \in Kmds
           /\ InstallerFinalizer \in api'[n].finalizers <=>
              InstallerFinalizer \in api[n].finalizers
  <2>1. api'[n] # NoKmd BY <1>4, NoKmdIsNone
  <2>2. QED BY <1>1, <1>4, <2>1 DEF FinalizerLeaves, Exists
<1>5. QED BY <1>1, <1>2, <1>3, <1>4 DEF SummaryObject

\* Whichever controller keeps an object longer: the installer's finalizer leaves it in
\* the last step of the installer's own sync, when what that sync decided of the
\* control plane is done; no Update of the summary controller, whatever copy it is
\* made from, takes that finalizer along; and while the summary finalizer alone
\* keeps the object, no control plane comes up under its name
\* (uninstall.go Uninstall, summary_controller.go removekarmadaDeployment).
THEOREM UninstalledBeforeRemovalBesideSummaries == OperatorSpec => UninstallPrecedesRemoval
<1>1. OperatorOwnershipInv /\ [OperatorNext]_operatorVars =>
        [\A n \in Names :
           /\ FinalizerLeaves(n) => /\ work.pc = "finalize" /\ key = n
                                    /\ Uninstallable(kmd) => Uninstalled(n)
           /\ LetGo(n) => \A ns \in Namespaces :
                release'[n][ns] \in {release[n][ns], NoRelease}]_vars
  <2>1. ASSUME OperatorOwnershipInv, [OperatorNext]_operatorVars
        PROVE  OwnershipInv /\ (Effects \/ SummaryEffects)
    BY <2>1, StepSplit DEF OperatorOwnershipInv
  <2>2. QED BY <2>1, UninstalledFirst, SummaryLeavesUninstalling
<1>2. QED BY <1>1, OperatorOwnershipInvariant, PTL DEF OperatorSpec, UninstallPrecedesRemoval

-----------------------------------------------------------------------------
(* Both controllers implement KmdLifecycle *)

\* The summary controller leaves the life of every object as it is: an object that
\* it lets go of is out of the installer's hands already.
LEMMA SummaryStutters ==
  ASSUME SummaryEffects
  PROVE  UNCHANGED Life!lifeVars
<1>1. UNCHANGED <<born, release>> BY DEF SummaryEffects
<1>2. \A n \in Names : Running(n)' = Running(n) BY <1>1 DEF Running
<1>3. ASSUME NEW n \in Names PROVE Stage(n)' = Stage(n)
  <2>1. SummaryObject(n) BY DEF SummaryEffects
  <2>2. CASE api'[n] = api[n] BY <2>2 DEF Stage, Exists
  <2>3. CASE /\ api[n] \in Kmds /\ api'[n] = NoKmd
             /\ api[n].deleting /\ InstallerFinalizer \notin api[n].finalizers
    BY <2>3 DEF Stage, Exists
  <2>4. CASE /\ api[n] \in Kmds /\ api'[n] \in Kmds /\ api'[n].deleting = api[n].deleting
             /\ InstallerFinalizer \in api'[n].finalizers <=>
                InstallerFinalizer \in api[n].finalizers
    <3>1. api[n] # NoKmd /\ api'[n] # NoKmd BY <2>4, NoKmdIsNone
    <3>2. QED BY <2>4, <3>1 DEF Stage, Exists
  <2>5. QED BY <2>1, <2>2, <2>3, <2>4 DEF SummaryObject
<1>4. StageOf' = StageOf /\ RunningOf' = RunningOf BY <1>2, <1>3, Maps
<1>5. QED BY <1>1, <1>4 DEF Life!lifeVars

\* The operator implements the life of its objects, if no two names share a
\* namespace: the summary controller, its goroutines and its finalizer add no
\* behaviour to it (syncHandler of both controllers, installWorkflow,
\* uninstallWorkflow).
THEOREM OperatorImplementsLifecycle ==
  ASSUME NamespacesDisjoint
  PROVE  OperatorSpec => Lifecycle
<1>1. OperatorInit => Life!Init BY LifeInit DEF OperatorInit
<1>2. OperatorOwnershipInv /\ [OperatorNext]_operatorVars => [Life!Next]_(Life!lifeVars)
  <2> SUFFICES ASSUME OperatorOwnershipInv, [OperatorNext]_operatorVars
               PROVE  [Life!Next]_(Life!lifeVars)
    OBVIOUS
  <2>1. OperatorInv /\ OwnershipInv /\ (Effects \/ SummaryEffects)
    BY StepSplit DEF OperatorOwnershipInv
  <2>2. TypeInv' BY <2>1, OperatorInvNext, OperatorParts DEF OperatorInv, TypeInv, IInv
  <2>3. CASE Effects BY <2>1, <2>2, <2>3, LifeStep
  <2>4. CASE SummaryEffects BY <2>4, SummaryStutters
  <2>5. QED BY <2>1, <2>3, <2>4
<1>3. QED BY <1>1, <1>2, OperatorOwnershipInvariant, PTL DEF OperatorSpec, Lifecycle, Life!Spec

-----------------------------------------------------------------------------
(* Neither controller loses what the other publishes *)

\* What the summary controller writes is a version of the same incarnation, with
\* the installer's finalizer where it was.
LEMMA SummaryPublishes ==
  ASSUME OperatorInv, UNCHANGED installerVars, SummaryStep
  PROVE  \A n \in Names : Publishes(n) /\ HandsOff(n)
<1>1. TypeInv /\ SummaryEffects BY OperatorParts, SummaryStepEffects
<1>2. \A n \in Names : HandsOff(n)
  BY <1>1, NoKmdIsNone DEF SummaryEffects, SummaryObject, HandsOff
<1>3. CASE \/ TakeSummaryKey \/ SummaryGone \/ CloseManager \/ SummaryFinalizerKept
           \/ SummaryFinalizerNotSet \/ StartManager \/ NoClient
           \/ \E n \in Names : SummaryBackoffElapses(n) \/ ContentsChange(n)
  <2>1. UNCHANGED apiVars
    BY <1>3 DEF TakeSummaryKey, SummaryGone, CloseManager, SummaryFinalizerKept,
                SummaryFinalizerNotSet, StartManager, NoClient, SummaryBackoffElapses,
                ContentsChange, apiVars
  <2>2. QED BY <2>1, StillPublishes
<1>4. CASE DropSummaryFinalizer \/ EnsureSummaryFinalizer
  <2>1. UNCHANGED cache BY <1>4 DEF DropSummaryFinalizer, EnsureSummaryFinalizer
  <2>2. CASE UNCHANGED <<api, watch>> BY <2>1, <2>2, NothingPublished
  <2>3. ASSUME NEW n \in Names, NEW obj \in Kmds, SummaryUpdate(n, obj)
        PROVE  \A m \in Names : Publishes(m)
    BY <1>1, <2>1, <2>3, UpdatePublishes DEF SummaryUpdate
  <2>4. QED BY <1>2, <1>4, <2>2, <2>3, DropFinalizerUpdates, EnsureFinalizerUpdates
<1>5. ASSUME NEW n \in Names, NEW i \in Loops, LoopStep(n, i)
      PROVE  \A m \in Names : Publishes(m)
  <2>1. CASE LoopWrite(n, i)
    <3>1. loops[n][i] \in LoopType BY SummaryTypes DEF OperatorInv
    <3>2. PICK s \in Statuses : s = loops[n][i].status BY <3>1 DEF LoopType
    <3>3. SetStatus(n, s) /\ UNCHANGED cache BY <2>1, <3>2 DEF LoopWrite
    <3>4. api[n] \in Kmds /\ Write(n, [api[n] EXCEPT !.status = s])
      BY <1>1, <3>3, SetStatusOK, TypeParts
    <3>5. PICK obj \in Kmds : obj = [api[n] EXCEPT !.status = s] BY <3>4, KmdWithStatus
    <3>6. obj.uid = api[n].uid /\ obj.deleting = api[n].deleting
      BY <3>4, <3>5, KmdWithStatus
    <3>7. Write(n, obj) BY <3>4, <3>5
    <3>8. QED BY <1>1, <3>3, <3>6, <3>7, PublishWrite
  <2>2. CASE LoopStart(n, i) \/ LoopRead(n, i) \/ LoopWriteFails(n, i)
    <3>1. UNCHANGED apiVars BY <2>2 DEF LoopStart, LoopRead, LoopWriteFails, apiVars
    <3>2. QED BY <3>1, StillPublishes
  <2>3. QED BY <1>5, <2>1, <2>2 DEF LoopStep
<1>6. QED BY <1>2, <1>3, <1>4, <1>5 DEF SummaryStep, SummaryWorkerStep

LEMMA OperatorNoticed ==
  ASSUME OperatorInv, WorkOK', Noticed, [OperatorNext]_operatorVars
  PROVE  Noticed' /\ \A n \in Names : NotForgotten(n)
<1>0. TypeInv /\ WorkerOK BY OperatorParts, InvParts DEF OperatorInv
<1>1. CASE [Next]_vars BY <1>0, <1>1, StepNoticed
<1>2. CASE \/ UserStep /\ UNCHANGED <<ctlVars, extVars, faults>>
           \/ \E n \in Names : SharedInformerEvent(n)
           \/ \E n \in Names : BackoffElapses(n)
           \/ WorkerStep \/ ClusterStep \/ UNCHANGED operatorVars
  BY <1>1, <1>2 DEF Next, SharedInformerEvent, operatorVars
<1>3. CASE SummaryStep /\ UNCHANGED installerVars
  <2>1. UNCHANGED wq /\ Proceeds BY <1>3 DEF installerVars, Proceeds
  <2>2. \A n \in Names : Publishes(n) /\ HandsOff(n) BY <1>3, SummaryPublishes
  <2>3. QED BY <1>0, <2>1, <2>2, ProceedsNoticed
<1>4. CASE OperatorDies
  <2>1. Restart BY <1>4 DEF OperatorDies, ProcessDies, InstallerPanics, Crash
  <2>2. QED BY <1>0, <2>1, RestartNoticed
<1>5. QED BY <1>2, <1>3, <1>4 DEF OperatorNext

LEMMA OperatorNoticeNext ==
  OperatorInv /\ NoticeInv /\ [OperatorNext]_operatorVars =>
    OperatorInv' /\ NoticeInv' /\ \A n \in Names : NotForgotten(n)
<1> SUFFICES ASSUME OperatorInv, NoticeInv, [OperatorNext]_operatorVars
             PROVE  OperatorInv' /\ NoticeInv' /\ \A n \in Names : NotForgotten(n)
  OBVIOUS
<1>1. OperatorInv' BY OperatorInvNext
<1>2. IInv' /\ WorkOK' BY <1>1 DEF OperatorInv, IInv
<1>3. Noticed' /\ \A n \in Names : NotForgotten(n)
  BY <1>2, OperatorNoticed DEF NoticeInv, Noticed
<1>4. QED BY <1>1, <1>2, <1>3 DEF NoticeInv, Noticed

\* Both invariants hold of the two controllers: a version that the summary controller
\* writes is noticed as one of the users is, or differs in nothing that the
\* installer's handlers look at (UpdateEvent, updateKmdStatus).
THEOREM OperatorNotices == OperatorSpec => [](OperatorInv /\ NoticeInv)
<1>1. OperatorInit => OperatorInv /\ NoticeInv BY OperatorInvInit, NoticeInit DEF OperatorInit
<1>2. QED BY <1>1, OperatorNoticeNext, PTL DEF OperatorSpec

\* No edit and no deletion is lost while the installer's worker is busy with an older
\* copy, although the summary controller writes versions of its own in between, some
\* of which the handlers take for no change (UpdateEvent, processNext).
THEOREM NoEditUnnoticedBesideSummaries == OperatorSpec => []EditsNoticed
<1>1. OperatorInv /\ NoticeInv => EditsNoticed BY DEF NoticeInv
<1>2. QED BY OperatorNotices, <1>1, PTL

\* The installer forgets the key of an unsettled object only when a sync of it fails
\* once too often, also when a panic of a summary manager ends the process
\* (processNext, summary_controller.go).
THEOREM NoKeyForgottenBesideSummaries == OperatorSpec => NothingForgotten
<1>1. OperatorInv /\ NoticeInv /\ [OperatorNext]_operatorVars =>
        [\A n \in Names :
           Unsettled(n)' /\ ~Owed(n)' =>
             \/ Unsettled(n) /\ ~Owed(n)
             \/ work.pc = "failed" /\ key = n /\ wq.failures[n] >= MaxRetry]_vars
  BY OperatorNoticeNext DEF NotForgotten
<1>2. QED BY OperatorNotices, <1>1, PTL DEF OperatorSpec, NothingForgotten
=============================================================================
