------------------------- MODULE SummaryController -------------------------
(***************************************************************************)
(* The summary controller: a worker that gives every object whose control   *)
(* plane is ready a summary manager, and the goroutines of the managers,   *)
(* which write a summary of the control plane into the status of the       *)
(* object once a second.                                                   *)
(*                                                                         *)
(* Worker and goroutines act on copies taken from the informer.  The        *)
(* goroutines write them back with status.SetStatus: the whole status.     *)
(***************************************************************************)
EXTENDS KmdApi, WorkQueue

CONSTANTS
  Loops,    \* places for goroutines in SummaryManager.Run, of each name
  MaxLoad   \* bound: times the contents of a control plane change

VARIABLES
  squeue,    \* the work queue of the summary controller
  swork,     \* its worker
  managers,  \* [Names -> uid whose kubeconfig the manager's client has, 0 for no manager]
  loops,     \* [Names -> [Loops -> a goroutine of a manager of that name]]
  load       \* [Names -> contents of the control plane, as the manager's informers have them]

summaryVars == <<squeue, swork, managers, loops, load>>

NoLoop == [pc |-> "none", open |-> FALSE, status |-> NewStatus]
SummaryIdle == [pc |-> "idle", key |-> NoName, kmd |-> NoKmd]

ASSUME SummaryAssumption == MaxLoad \in Nat \ {0} /\ IsFiniteSet(Loops)

SummaryTypeOK ==
  /\ squeue \in QueueType(Names, 0)
  /\ swork \in [pc : {"idle", "sync", "unfinalize", "manager"}, key : Names \cup {NoName},
                kmd : Kmds \cup {NoKmd}]
  /\ managers \in [Names -> 0..MaxUid]
  /\ loops \in [Names -> [Loops -> [pc : {"none", "start", "sleep", "write"},
                                    open : BOOLEAN, status : Statuses]]]
  /\ load \in [Names -> 1..MaxLoad]

SummaryInit ==
  /\ squeue = EmptyQueue(Names)
  /\ swork = SummaryIdle
  /\ managers = [n \in Names |-> 0]
  /\ loops = [n \in Names |-> [i \in Loops |-> NoLoop]]
  /\ load = [n \in Names |-> 1]

-----------------------------------------------------------------------------
(* Event handlers and the queue *)

\* Mutant: the deletion of a ready object is filtered out as well.
NotifiesReadyOnly(old, new) ==
  \/ new = NoKmd
  \/ new.status.cpr /\ (old = NoKmd \/ ~old.status.cpr)

\* AddEvent, UpdateEventfunc and DeleteEvent.
SummaryNotifies(old, new) ==
  \/ new = NoKmd
  \/ /\ new.status.cpr
     /\ \/ old = NoKmd
        \/ ~old.status.cpr
        \/ new.deleting /\ ~old.deleting

\* The part of a delivery that concerns this controller.
SummaryHandles(n) ==
  /\ squeue' = IF SummaryNotifies(cache[n], Head(watch[n])) THEN Add(squeue, n) ELSE squeue
  /\ UNCHANGED <<swork, managers, loops, load>>

SummaryBackoffElapses(n) ==
  /\ n \in squeue.waiting
  /\ squeue' = Elapse(squeue, n)
  /\ UNCHANGED <<apiVars, secrets, faults, swork, managers, loops, load>>

TakeSummaryKey ==
  /\ swork.pc = "idle"
  /\ squeue.queue # <<>>
  /\ squeue' = Get(squeue)
  /\ swork' = [SummaryIdle EXCEPT !.pc = "sync", !.key = Head(squeue.queue)]
  /\ UNCHANGED <<apiVars, secrets, faults, managers, loops, load>>

\* processNextWorkItem after syncKmdStatusResource returned.  There is no limit to
\* the retries, so the failures need no count.
Synced ==
  /\ squeue' = Done(Forget(squeue, swork.key), swork.key)
  /\ swork' = SummaryIdle
SyncFailed ==
  /\ squeue' = Done(AddAfter(squeue, swork.key), swork.key)
  /\ swork' = SummaryIdle

-----------------------------------------------------------------------------
(* syncKmdStatusResource *)

\* The manager of an object that is gone is left alone.
SummaryGone ==
  /\ swork.pc = "sync"
  /\ cache[swork.key] = NoKmd
  /\ Synced
  /\ UNCHANGED <<apiVars, secrets, faults, managers, loops, load>>

\* Mutant: the finalizer goes although the manager still runs.
KeepManager ==
  LET n == swork.key
  IN  /\ swork.pc = "sync"
      /\ cache[n] # NoKmd
      /\ cache[n].deleting
      /\ swork' = [swork EXCEPT !.pc = "unfinalize"]
      /\ UNCHANGED <<apiVars, secrets, faults, squeue, managers, loops, load>>

\* removekarmadaDeployment: Shuntdown closes the manager, whose goroutines see it
\* when they next look.
CloseManager ==
  LET n == swork.key
  IN  /\ swork.pc = "sync"
      /\ cache[n] # NoKmd
      /\ cache[n].deleting
      /\ managers' = [managers EXCEPT ![n] = 0]
      /\ loops' = [loops EXCEPT ![n] = [i \in Loops |-> [@[i] EXCEPT !.open = FALSE]]]
      /\ swork' = [swork EXCEPT !.pc = "unfinalize"]
      /\ UNCHANGED <<apiVars, secrets, faults, squeue, load>>

\* The copy to update is still the stored object.
DeletedCopyIsCurrent(n) == cache[n] # NoKmd /\ cache[n].deleting /\ Fresh(n)

\* Mutant: all finalizers are dropped, not the controller's own.
DropAllFinalizers ==
  LET n == swork.key
  IN  /\ swork.pc = "unfinalize"
      /\ DeletedCopyIsCurrent(n)
      /\ Update(n, [cache[n] EXCEPT !.finalizers = {}])
      /\ Synced
      /\ UNCHANGED <<cache, born, secrets, faults, managers, loops, load>>

DropSummaryFinalizer ==
  LET n == swork.key
  IN  /\ swork.pc = "unfinalize"
      /\ DeletedCopyIsCurrent(n)
      /\ Update(n, [cache[n] EXCEPT !.finalizers = @ \ {SummaryFinalizer}])
      /\ Synced
      /\ UNCHANGED <<cache, born, secrets, faults, managers, loops, load>>

\* A conflict, an object that is gone, or a request that fails.
SummaryFinalizerKept ==
  LET n == swork.key
  IN  /\ swork.pc = "unfinalize"
      /\ \/ ~DeletedCopyIsCurrent(n) /\ UNCHANGED faults
         \/ Fault("api")
      /\ SyncFailed
      /\ UNCHANGED <<apiVars, secrets, managers, loops, load>>

\* Mutant: the finalizer replaces those of other controllers.
SetOnlySummaryFinalizer ==
  LET n == swork.key
      obj == [cache[n] EXCEPT !.finalizers = {SummaryFinalizer}]
  IN  /\ swork.pc = "sync"
      /\ cache[n] # NoKmd
      /\ ~cache[n].deleting
      /\ IF SummaryFinalizer \in cache[n].finalizers
         THEN UNCHANGED <<api, watch>>
         ELSE Fresh(n) /\ Update(n, obj)
      /\ swork' = [swork EXCEPT !.pc = "manager", !.kmd = obj]
      /\ UNCHANGED <<cache, born, secrets, faults, squeue, managers, loops, load>>

\* Mutant: a conflict is taken for the finalizer being there already.
EnsureUnlessConflict ==
  LET n == swork.key
      obj == [cache[n] EXCEPT !.finalizers = @ \cup {SummaryFinalizer}]
  IN  /\ swork.pc = "sync"
      /\ cache[n] # NoKmd
      /\ ~cache[n].deleting
      /\ IF Fresh(n) THEN Update(n, obj) ELSE UNCHANGED <<api, watch>>
      /\ swork' = [swork EXCEPT !.pc = "manager", !.kmd = obj]
      /\ UNCHANGED <<cache, born, secrets, faults, squeue, managers, loops, load>>

\* The finalizer is ensured first; the worker goes on with the object that the
\* Update returns.  The handlers filter by ControlPlaneReady, the sync does not.
EnsureSummaryFinalizer ==
  LET n == swork.key
      obj == [cache[n] EXCEPT !.finalizers = @ \cup {SummaryFinalizer}]
  IN  /\ swork.pc = "sync"
      /\ cache[n] # NoKmd
      /\ ~cache[n].deleting
      /\ IF SummaryFinalizer \in cache[n].finalizers
         THEN UNCHANGED <<api, watch>>
         ELSE Fresh(n) /\ Update(n, obj)
      /\ swork' = [swork EXCEPT !.pc = "manager", !.kmd = obj]
      /\ UNCHANGED <<cache, born, secrets, faults, squeue, managers, loops, load>>

SummaryFinalizerNotSet ==
  LET n == swork.key
  IN  /\ swork.pc = "sync"
      /\ cache[n] # NoKmd
      /\ ~cache[n].deleting
      /\ SummaryFinalizer \notin cache[n].finalizers
      /\ \/ ~Fresh(n) /\ UNCHANGED faults
         \/ Fault("api")
      /\ SyncFailed
      /\ UNCHANGED <<apiVars, secrets, managers, loops, load>>

\* GetSummaryManager, and one more goroutine in its Run.  A goroutine beyond the
\* places of Loops is one that is never scheduled.
StartManager ==
  LET n == swork.key
      uid == swork.kmd.status.secret
  IN  /\ swork.pc = "manager"
      /\ IF managers[n] # 0
         THEN UNCHANGED managers
         ELSE /\ uid # 0 /\ <<n, uid>> \in secrets
              /\ managers' = [managers EXCEPT ![n] = uid]
      /\ IF \A i \in Loops : loops[n][i].pc # "none"
         THEN UNCHANGED loops
         ELSE LET i == CHOOSE i \in Loops : loops[n][i].pc = "none"
              IN  loops' = [loops EXCEPT ![n][i] = [NoLoop EXCEPT !.pc = "start", !.open = TRUE]]
      /\ Synced
      /\ UNCHANGED <<apiVars, secrets, faults, load>>

\* NewDynamicClientFormSecretRef fails.
NoClient ==
  LET n == swork.key
      uid == swork.kmd.status.secret
  IN  /\ swork.pc = "manager"
      /\ managers[n] = 0
      /\ uid # 0
      /\ \/ <<n, uid>> \notin secrets /\ UNCHANGED faults
         \/ Fault("api")
      /\ SyncFailed
      /\ UNCHANGED <<apiVars, secrets, managers, loops, load>>

\* NewDynamicClientFormSecretRef dereferences the secretRef of an object whose
\* control plane is not ready yet.
SummaryPanics ==
  /\ swork.pc = "manager"
  /\ managers[swork.key] = 0
  /\ swork.kmd.status.secret = 0

-----------------------------------------------------------------------------
(* SummaryManager.Run: the goroutines *)

\* Mutant: a goroutine ends after its first round.
EndLoop(n, i) == loops' = [loops EXCEPT ![n][i] = NoLoop]

\* worker looks at the close channel after a round of processNext, not before one.
EndRound(n, i) ==
  loops' = [loops EXCEPT ![n][i] = IF @.open THEN [NoLoop EXCEPT !.pc = "sleep", !.open = TRUE]
                                   ELSE NoLoop]

\* WaitForCacheSync returns false only when the manager is closed before its
\* informers have synced.
LoopStart(n, i) ==
  /\ loops[n][i].pc = "start"
  /\ \/ loops' = [loops EXCEPT ![n][i].pc = "sleep"]
     \/ ~loops[n][i].open /\ loops' = [loops EXCEPT ![n][i] = NoLoop]
  /\ UNCHANGED <<apiVars, secrets, faults, squeue, swork, managers, load>>

\* The copy and the summary are taken together: nothing else reads or writes them
\* before the request.
LoopRead(n, i) ==
  /\ loops[n][i].pc = "sleep"
  /\ IF cache[n] = NoKmd \/ cache[n].status.summary = load[n]
     THEN EndRound(n, i)
     ELSE loops' = [loops EXCEPT ![n][i].pc = "write",
                                 ![n][i].status = [cache[n].status EXCEPT !.summary = load[n]]]
  /\ UNCHANGED <<apiVars, secrets, faults, squeue, swork, managers, load>>

LoopWrite(n, i) ==
  /\ loops[n][i].pc = "write"
  /\ SetStatus(n, loops[n][i].status)
  /\ EndRound(n, i)
  /\ UNCHANGED <<cache, born, secrets, faults, squeue, swork, managers, load>>

LoopWriteFails(n, i) ==
  /\ loops[n][i].pc = "write"
  /\ \/ ~Exists(n) /\ UNCHANGED faults
     \/ Fault("api")
  /\ EndRound(n, i)
  /\ UNCHANGED <<apiVars, secrets, squeue, swork, managers, load>>

ContentsChange(n) ==
  /\ managers[n] # 0
  /\ load[n] < MaxLoad
  /\ load' = [load EXCEPT ![n] = @ + 1]
  /\ UNCHANGED <<apiVars, secrets, faults, squeue, swork, managers, loops>>

\* The managers are gone with the process.
SummaryRestart ==
  /\ squeue' = EmptyQueue(Names)
  /\ swork' = SummaryIdle
  /\ managers' = [n \in Names |-> 0]
  /\ loops' = [n \in Names |-> [i \in Loops |-> NoLoop]]
  /\ UNCHANGED load

-----------------------------------------------------------------------------
SummaryWorkerStep ==
  \/ TakeSummaryKey \/ SummaryGone \/ CloseManager \/ DropSummaryFinalizer
  \/ SummaryFinalizerKept \/ EnsureSummaryFinalizer \/ SummaryFinalizerNotSet
  \/ StartManager \/ NoClient

LoopStep(n, i) ==
  LoopStart(n, i) \/ LoopRead(n, i) \/ LoopWrite(n, i) \/ LoopWriteFails(n, i)

SummaryStep ==
  \/ SummaryWorkerStep
  \/ \E n \in Names : SummaryBackoffElapses(n) \/ ContentsChange(n)
  \/ \E n \in Names, i \in Loops : LoopStep(n, i)
=============================================================================
