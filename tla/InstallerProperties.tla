------------------------ MODULE InstallerProperties ------------------------
(***************************************************************************)
(* What the installer controller promises, of the objects it reconciles    *)
(* and of the control planes it installs for them.                         *)
(***************************************************************************)
EXTENDS InstallerController

\* Incarnation uid of n installed the release in ns.
Owns(n, uid, ns) == release[n][ns] # NoRelease /\ release[n][ns].uid = uid

\* A status never claims more than happened: when a live object in phase Completed
\* refers to its kubeconfig secret, the secret exists and the object's own release
\* is deployed.  Several statuses are in flight at once here: the stored one, the
\* worker's copy and the older ones in the informer, any of which the next SetStatus
\* writes back whole, to whichever incarnation is stored by then: a status that
\* refers to the secret of an earlier one says nothing (install.go Completed,
\* status/phase.go SetStatus).
CompletedMeansDeployed ==
  \A n \in Names :
    Live(n) /\ api[n].status.phase = "Completed" /\ api[n].status.secret = api[n].uid =>
      /\ \E ns \in Namespaces :
           Owns(n, api[n].uid, ns) /\ release[n][ns].status = "deployed"
      /\ <<n, api[n].uid>> \in secrets

\* No release is made for an object that could vanish unnoticed: as long as an
\* object is live, what was installed for it is guarded by the finalizer, from
\* before helm creates the release, whatever stale copy the worker started from
\* (initDefaultValues, the finalizer loop of syncHandler).
GuardedByFinalizer ==
  \A n \in Names : Live(n) =>
    \A ns \in Namespaces : Owns(n, api[n].uid, ns) => InstallerFinalizer \in api[n].finalizers

\* One object gets one control plane: retries, restarts and stale copies never
\* make the same incarnation own releases in two namespaces although the default
\* namespace is drawn at random on every attempt (initDefaultValues).
OneInstance ==
  \A n \in Names : Exists(n) =>
    \A ns1, ns2 \in Namespaces :
      Owns(n, api[n].uid, ns1) /\ Owns(n, api[n].uid, ns2) => ns1 = ns2

\* The control plane of a live object is never taken down: not by a deletion the
\* informer still shows of an earlier incarnation, not by a namespace that goes
\* away, not for another object (uninstall.go Uninstall).
ControlPlaneKept ==
  [][\A n \in Names, ns \in Namespaces :
       Live(n) /\ release[n][ns].status = "deployed" /\ release'[n][ns] = NoRelease
       => ~Owns(n, api[n].uid, ns)]_vars

Uninstallable(obj) ==
  obj.label = "false" /\ ~IsIntallModeFailed(obj) /\ ~IsConditionEmpty(obj)

\* The installer's finalizer leaves the stored object of n: with it, or ahead of it.
FinalizerLeaves(n) ==
  /\ Exists(n) /\ InstallerFinalizer \in api[n].finalizers
  /\ ~(Exists(n)' /\ InstallerFinalizer \in api'[n].finalizers)

\* It has left, and another finalizer keeps the object.
LetGo(n) == Exists(n) /\ api[n].deleting /\ InstallerFinalizer \notin api[n].finalizers

\* Every release installed for the stored object of n is gone, or goes with its
\* namespace, unless helm found the release of an earlier incarnation in another
\* namespace first.
Uninstalled(n) ==
  \A ns \in Namespaces : Owns(n, api[n].uid, ns) =>
    nsState[ns] = "terminating" \/ work.ns \notin {"", ns}

\* No object leaves before what was decided of its control plane is done, and none
\* comes up for it then.  The installer's finalizer goes in the last step of a sync
\* of that key alone: nobody's Update of an older copy takes it along, and when the
\* sync decided, on whatever copy, that the control plane goes too, no failure, retry
\* or crash between helm's uninstall, the deletion of the namespace and that step
\* skips one.  From then on, as long as the summary controller keeps the object, no
\* sync that began earlier installs for it (syncHandler, uninstall.go Uninstall,
\* install.go GetRelease, summary_controller.go removekarmadaDeployment).
UninstallPrecedesRemoval ==
  [][\A n \in Names :
       /\ FinalizerLeaves(n) => /\ work.pc = "finalize" /\ key = n
                                /\ Uninstallable(kmd) => Uninstalled(n)
       /\ LetGo(n) => \A ns \in Namespaces : release'[n][ns] \in {release[n][ns], NoRelease}]_vars

-----------------------------------------------------------------------------
(* What is on its way to the worker *)

\* The versions of n from the one in the informer on, and whether the handler will
\* be told of a difference between two of them later than the i-th.
Seen(n, i) == IF i = 0 THEN cache[n] ELSE watch[n][i]
NoticeAfter(n, i) ==
  \E j \in 1..Len(watch[n]) : i < j /\ Notifies(Seen(n, j - 1), Seen(n, j))

\* Another sync of n than the one under way, if any, will take place.
Coming(n) == NoticeAfter(n, 0) \/ n \in wq.dirty \cup wq.waiting

Queued(q, n) == \E i \in 1..Len(q.queue) : q.queue[i] = n

\* A sync of n will take place or is under way.
Owed(n) ==
  \/ NoticeAfter(n, 0)
  \/ Queued(wq, n) \/ n \in wq.waiting
  \/ work.pc # "idle" /\ key = n

\* The worker's copy has the spec that is stored, but for what it defaulted.
SpecSeen(copy, stored) ==
  /\ copy.mode = stored.mode
  /\ stored.ns \in {"", copy.ns}
  /\ stored.images \in {"", copy.images}

\* No edit and no deletion is lost while the worker is busy with an older copy of
\* the object: up to the end of a sync that goes well, the copy is current in all
\* that matters, or the sync is followed by another (UpdateEvent, processNext).
EditsNoticed ==
  /\ work.pc \in InstallPcs \cup {"ok"}
  /\ kmd # NoKmd /\ ~kmd.deleting
  /\ Exists(key) /\ api[key].uid = kmd.uid
  => (Live(key) /\ SpecSeen(kmd.spec, api[key].spec)) \/ Coming(key)

\* What only the installer can bring on: an object without its finalizer to be
\* taken charge of, or one with it to be let go.
Unsettled(n) ==
  Exists(n) /\ (api[n].deleting <=> InstallerFinalizer \in api[n].finalizers)

\* The key of such an object is never lost between the informer, the queue, the
\* worker and the back-off, across crashes, stale copies and conflicts: only a sync
\* that fails once too often makes the controller forget it (processNext).
NothingForgotten ==
  [][\A n \in Names :
       Unsettled(n)' /\ ~Owed(n)' =>
         \/ Unsettled(n) /\ ~Owed(n)
         \/ work.pc = "failed" /\ key = n /\ wq.failures[n] >= MaxRetry]_vars

-----------------------------------------------------------------------------
\* A deleted object goes away: its key is never lost between the informer, the
\* queue and the back-off, and no conflict with a stale copy blocks it for good.
DeletionCompletes ==
  \A n \in Names : \A uid \in 1..MaxUid :
    (Exists(n) /\ api[n].uid = uid /\ api[n].deleting)
      ~> (~Exists(n) \/ api[n].uid # uid)

\* Every generation of a spec is observed, unless it is superseded: no edit is
\* lost while the worker is busy with an older one, and an older status written
\* late does not stay (InstallerFactory.Sync, UpdateEvent).
GenerationObserved ==
  \A n \in Names : \A uid \in 1..MaxUid : \A gen \in 1..(MaxGen + 1) :
    (Live(n) /\ api[n].uid = uid /\ api[n].gen = gen)
      ~> (~Live(n) \/ api[n].uid # uid \/ api[n].gen # gen \/ api[n].status.obsGen = gen)

Installed(n) == api[n].status.phase = "Completed" /\ api[n].status.ready = "Succeeded"

\* Every object ends up installed and Ready, or with a condition that says why
\* not, or deleted: neither an object that can never be installed nor one whose
\* release is refused keeps the worker from the others (processNext, Sync).
EventuallySettled ==
  \A n \in Names :
    Live(n) ~> \/ ~Live(n)
               \/ api[n].status.ready \in {"IntallModeFailed", "HelmReleaseFailed"}
               \/ Installed(n)

\* An object whose mode is Helm, or left to its default, ends up installed and
\* Ready, or deleted; and an object that cannot be installed does not keep the
\* worker from the others.
EventuallyInstalled ==
  \A n \in Names :
    (Live(n) /\ api[n].spec.mode # "Karmadactl") ~> (~Live(n) \/ Installed(n))
=============================================================================
