------------------------- MODULE InstallerInvariant -------------------------
(***************************************************************************)
(* The inductive invariant behind GuardedByFinalizer and ControlPlaneKept.  *)
(* It relates every version of an object that the informer holds or will    *)
(* receive, and the worker's progress, to the object that is stored.        *)
(***************************************************************************)
EXTENDS InstallerProperties

\* The versions of n that the worker has yet to stop seeing.
Versions(n) == {cache[n]} \cup {watch[n][i] : i \in 1..Len(watch[n])}

\* What a control plane is installed under: the stored object is the same
\* incarnation as obj and has the finalizer.
Held(n, obj) ==
  /\ Exists(n)
  /\ api[n].uid = obj.uid
  /\ InstallerFinalizer \in api[n].finalizers

\* What may have become of an object once it is being deleted.
Outlived(n, obj) ==
  Exists(n) => \/ api[n].uid = obj.uid /\ api[n].deleting
               \/ api[n].uid > obj.uid /\ InstallerFinalizer \notin api[n].finalizers

\* A live object under the name is not one the installer has taken charge of.
Unguarded(n) == Live(n) => InstallerFinalizer \notin api[n].finalizers

\* The worker has a key, and a copy of the object where it uses one.
WorkOK ==
  /\ work.pc # "idle" => work.key \in Names
  /\ work.pc \in InstallPcs \cup UninstallPcs \cup {"report"} => work.kmd \in Kmds

\* The stored object is the last version on its way to the informer.
LastVersion ==
  \A n \in Names :
    api[n] = IF Fresh(n) THEN cache[n] ELSE watch[n][Len(watch[n])]

\* Incarnations are numbered by born.
UidsBorn ==
  \A n \in Names :
    /\ \A v \in Versions(n) : v # NoKmd => v.uid <= born[n]
    /\ \A ns \in Namespaces : release[n][ns].uid <= born[n]

\* However old the version: from one with the finalizer that is not deleted, the
\* object is still held; from a deleted one, it has been deleted.
VersionsOK ==
  \A n \in Names : \A v \in Versions(n) : v # NoKmd =>
    /\ ~v.deleting /\ InstallerFinalizer \in v.finalizers => Held(n, v)
    /\ v.deleting => Outlived(n, v)

\* While the worker installs, the object is held; while it uninstalls or removes
\* the finalizer, a live object under the name is a later one without finalizer.
WorkerOK ==
  /\ work.pc \in InstallPcs => Held(work.key, work.kmd)
  /\ work.pc \in UninstallPcs \cup {"finalize"} => Unguarded(work.key)

IInv ==
  /\ TypeOK
  /\ WorkOK
  /\ LastVersion
  /\ UidsBorn
  /\ VersionsOK
  /\ WorkerOK
  /\ GuardedByFinalizer

-----------------------------------------------------------------------------
(* What an incarnation owns.  IInv says whose release the worker may touch;  *)
(* the rest of the invariant says where it is and what became of it.         *)

\* No user moves an object to another namespace.
NamespaceFixed == "ns" \notin EditableFields

\* The namespaces that an object of the name may be installed in.
Reach(n) == UserNamespaces[n] \cup RandomNamespaces[n]

\* No two names share a namespace.
NamespacesDisjoint == \A m, n \in Names : m # n => Reach(m) \cap Reach(n) = {}

\* Once the finalizer is stored, so is the namespace: every version with the
\* finalizer, every release and the worker's copy agree with the stored object.
NamespaceSettled ==
  \A n \in Names : Exists(n) =>
    /\ \A v \in Versions(n) :
         v # NoKmd /\ v.uid = api[n].uid /\ InstallerFinalizer \in v.finalizers
         => v.spec.ns = api[n].spec.ns /\ v.spec.ns # ""
    /\ \A ns \in Namespaces : Owns(n, api[n].uid, ns) => ns = api[n].spec.ns
    /\ work.pc \in InstallPcs /\ work.key = n => work.kmd.spec.ns = api[n].spec.ns

\* Nothing is installed, or looked for, outside the reach of its name.
WithinReach ==
  /\ \A n \in Names :
       /\ \A v \in Versions(n) : v # NoKmd => v.spec.ns \in Reach(n) \cup {""}
       /\ \A ns \in Namespaces : release[n][ns] # NoRelease => ns \in Reach(n)
  /\ work.pc \in UninstallPcs => work.kmd.spec.ns \in Reach(work.key) \cup {""}
  /\ work.pc \in InstallPcs => work.kmd.spec.ns \in Reach(work.key)
  /\ work.pc \in {"helmUninstall", "cleanup", "deleteNs"} => work.ns \in Reach(work.key)

\* The release that helm works on, if it is still there, is the worker's own, and
\* the copy to be stored says that it is complete.
OwnRelease(status) ==
  LET rel == release[work.key][work.kmd.spec.ns]
  IN  rel # NoRelease => rel.uid = work.kmd.uid /\ rel.status = status

ReleaseUnderWay ==
  /\ work.pc = "helmWait" => OwnRelease("pending")
  /\ work.pc = "completed" => OwnRelease("deployed")
  /\ work.pc = "record" => work.kmd.status.phase = "Completed"

\* A namespace that goes away takes no live object's control plane along.
TerminatingUnowned ==
  \A n \in Names, ns \in Namespaces :
    Live(n) /\ nsState[ns] = "terminating" => ~Owns(n, api[n].uid, ns)

\* The stored incarnation of n runs, and its kubeconfig is in a secret.
Serves(n) ==
  /\ \E ns \in Namespaces : Owns(n, api[n].uid, ns) /\ release[n][ns].status = "deployed"
  /\ <<n, api[n].uid>> \in secrets

\* A status that claims this of the stored incarnation is right.
Justified(n, status) ==
  Live(n) /\ status.phase = "Completed" /\ status.secret = api[n].uid => Serves(n)

StatusPcs == InstallPcs \cup UninstallPcs \cup {"report"}

\* So are all statuses that may yet be written or read, and none names the
\* secret of an incarnation that is yet to come.
StatusesJustified ==
  /\ \A n \in Names : \A v \in Versions(n) : v # NoKmd => Justified(n, v.status)
  /\ work.pc \in StatusPcs => Justified(work.key, work.kmd.status)

SecretsBorn ==
  /\ \A n \in Names : \A v \in Versions(n) : v # NoKmd => v.status.secret <= born[n]
  /\ work.pc \in StatusPcs => work.kmd.status.secret <= born[work.key]

\* When the finalizer is to be removed after an uninstallation, there was no
\* release, or the one that was found is gone or goes with its namespace.
FoundReleaseGone ==
  /\ work.pc \in {"sync", "uninstall"} => work.ns = ""
  /\ work.pc = "uninstall" => Uninstallable(work.kmd)
  /\ work.pc = "finalize" /\ Uninstallable(work.kmd) =>
       IF work.ns = ""
       THEN ~HasRelease(work.key)
       ELSE release[work.key][work.ns] = NoRelease \/ nsState[work.ns] = "terminating"

\* The stored object is the last incarnation of its name.
StoredIsLast == \A n \in Names : Exists(n) => api[n].uid = born[n]

OwnershipInv ==
  /\ IInv
  /\ StoredIsLast
  /\ WithinReach
  /\ ReleaseUnderWay
  /\ SecretsBorn
  /\ FoundReleaseGone
  /\ NamespaceFixed => NamespaceSettled
  /\ NamespacesDisjoint => TerminatingUnowned /\ StatusesJustified

-----------------------------------------------------------------------------
(* What the worker will be told.  A version that differs from the stored one  *)
(* in what the handlers look at is followed by an event that they pass on.    *)

SameToHandlers(v, obj) ==
  \/ v = NoKmd /\ obj = NoKmd
  \/ /\ v # NoKmd /\ obj # NoKmd
     /\ v.uid = obj.uid /\ v.deleting = obj.deleting /\ v.spec = obj.spec

WillTell(n) ==
  \A i \in 0..Len(watch[n]) : SameToHandlers(Seen(n, i), api[n]) \/ NoticeAfter(n, i)

NoticesOK == \A n \in Names : WillTell(n)

\* The worker processes its key alone, and a dirty key is in the queue unless the
\* worker will put it back.
QueueOK ==
  /\ wq.processing = IF work.pc = "idle" THEN {} ELSE {key}
  /\ \A n \in wq.dirty \ wq.processing : Queued(wq, n)

\* The worker installs from a live copy and lets go of a deleted one; when it is
\* done, the object is settled, or comes again.
WorkNoticed ==
  /\ work.pc \in InstallPcs => ~kmd.deleting
  /\ work.pc \in UninstallPcs \cup {"finalize"} =>
       kmd \in Kmds /\ kmd.deleting /\ (Live(key) => Coming(key))
  /\ work.pc = "ok" => (Unsettled(key) => Coming(key))

NoticeInv ==
  /\ IInv
  /\ NoticesOK
  /\ QueueOK
  /\ WorkNoticed
  /\ EditsNoticed
=============================================================================
