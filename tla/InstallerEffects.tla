-------------------------- MODULE InstallerEffects --------------------------
(***************************************************************************)
(* What a step of the installer, of its users or of the cluster may do to   *)
(* each part of the state, whichever action it is: the vocabulary in which  *)
(* the proofs argue about ownership once the actions have been gone through *)
(* (InstallerStepProofs).                                                   *)
(***************************************************************************)
EXTENDS InstallerInvariant

\* A status that claims no more than the other.
Weaker(s, t) == s.secret = t.secret /\ (s.phase = "Completed" => t.phase = "Completed")

\* A user creates an object.
Appears(n) ==
  /\ api[n] = NoKmd /\ api'[n] \in Kmds
  /\ born'[n] = born[n] + 1 /\ api'[n].uid = born'[n]
  /\ api'[n].finalizers = {} /\ ~api'[n].deleting
  /\ api'[n].spec.ns \in Reach(n) \cup {""}
  /\ api'[n].status = NewStatus

\* The installer's worker is about to let n go.
Finalizing(n) == work.pc = "finalize" /\ n = work.key

\* An object goes: with its last finalizer, the installer's, or nobody held it.
Disappears(n) ==
  /\ api[n] \in Kmds /\ api'[n] = NoKmd
  /\ api[n].deleting \/ api[n].finalizers = {}
  /\ api[n].finalizers \subseteq {InstallerFinalizer}
  /\ InstallerFinalizer \in api[n].finalizers => Finalizing(n)
  /\ born'[n] = born[n]

\* What an object's namespace becomes: the one that the worker drew, from the
\* stored object, or where a user moves it.
NamespaceChanges(n) ==
  \/ api'[n].spec.ns = api[n].spec.ns
  \/ /\ api[n].spec.ns = "" /\ api'[n].spec.ns \in RandomNamespaces[n]
     /\ Fresh(n) /\ work.pc = "sync"
  \/ ~NamespaceFixed /\ api'[n].spec.ns \in Reach(n) \cup {""}

FinalizersChange(n) ==
  \/ api'[n].finalizers = api[n].finalizers
  \/ /\ api'[n].finalizers = api[n].finalizers \cup {InstallerFinalizer}
     /\ ~api'[n].deleting /\ api'[n].spec.ns # ""
  \/ /\ api'[n].finalizers = api[n].finalizers \ {InstallerFinalizer}
     /\ api[n].deleting /\ api'[n].finalizers # {} /\ Finalizing(n)

DeletionChanges(n) ==
  \/ api'[n].deleting = api[n].deleting
  \/ /\ ~api[n].deleting /\ api[n].finalizers # {}
     /\ api'[n].finalizers = api[n].finalizers

StatusChanges(n) ==
  \/ api'[n].status = api[n].status
  \/ n = work.key /\ work.pc \in StatusPcs /\ Weaker(api'[n].status, work.kmd.status)

Changes(n) ==
  /\ api[n] \in Kmds /\ api'[n] \in Kmds
  /\ api'[n].uid = api[n].uid /\ born'[n] = born[n]
  /\ NamespaceChanges(n) /\ FinalizersChange(n) /\ DeletionChanges(n) /\ StatusChanges(n)

Stays(n) == api'[n] = api[n] /\ born'[n] = born[n]

ObjectsStep ==
  \A n \in Names :
    /\ Versions(n)' \subseteq Versions(n) \cup {api'[n], NoKmd}
    /\ Stays(n) \/ Appears(n) \/ Disappears(n) \/ Changes(n)

\* At most one object is written.
OneObject == \E n \in Names : \A m \in Names : m = n \/ Stays(m)

-----------------------------------------------------------------------------
\* helm creates the release of the worker's copy, in an active namespace.
ReleaseStarts(n, ns) ==
  /\ work.pc = "helm" /\ n = work.key /\ ns = work.kmd.spec.ns
  /\ release[n][ns] = NoRelease /\ nsState[ns] = "active"
  /\ release'[n][ns].uid = work.kmd.uid /\ release'[n][ns].status = "pending"
  /\ work'.pc = "helmWait"

\* helm ends its installation, one way or the other.
ReleaseEnds(n, ns) ==
  /\ work.pc = "helmWait" /\ n = work.key /\ ns = work.kmd.spec.ns
  /\ release[n][ns] # NoRelease
  /\ release'[n][ns] # NoRelease /\ release'[n][ns].uid = release[n][ns].uid
  /\ \/ release'[n][ns].status = "failed" /\ work'.pc = "report"
     \/ release'[n][ns].status = "deployed" /\ work'.pc = "completed"

\* helm purges or uninstalls a release, or the namespace takes it along.
ReleaseGoes(n, ns) ==
  /\ release'[n][ns] = NoRelease
  /\ \/ /\ work.pc = "helmWait" /\ work'.pc = "report"
        /\ n = work.key /\ ns = work.kmd.spec.ns
     \/ work.pc = "helmUninstall" /\ n = work.key /\ ns = work.ns
     \/ nsState[ns] = "terminating" /\ work' = work

ReleaseStays(n, ns) == release'[n][ns] = release[n][ns]

ReleasesStep ==
  \A n \in Names, ns \in Namespaces :
    \/ ReleaseStays(n, ns)
    \/ ReleaseStarts(n, ns)
    \/ ReleaseEnds(n, ns)
    \/ ReleaseGoes(n, ns)

\* A namespace is ensured, deleted by an uninstallation, or gone with all in it.
NamespacesStep ==
  \A ns \in Namespaces :
    \/ nsState'[ns] = nsState[ns]
    \/ nsState[ns] = "absent" /\ nsState'[ns] = "active"
    \/ /\ nsState[ns] = "active" /\ nsState'[ns] = "terminating"
       /\ \/ work.pc = "uninstall" /\ ~HasRelease(work.key) /\ ns = work.kmd.spec.ns
          \/ work.pc = "deleteNs" /\ ns = work.ns
    \/ /\ nsState'[ns] = "absent" /\ \A n \in Names : release'[n][ns] = NoRelease
       /\ work' = work

\* A secret goes with an uninstallation, or with the owner it had.
SecretsStep ==
  \A n \in Names, uid \in Nat : <<n, uid>> \in secrets =>
    \/ <<n, uid>> \in secrets'
    \/ n = work.key /\ work.pc \in UninstallPcs
    \/ Exists(n) => api[n].uid # uid

-----------------------------------------------------------------------------
\* The worker takes a copy to install from: the stored object, with its defaults
\* stored, or an older version that had the finalizer.
TakesCopy ==
  /\ work.pc = "sync" /\ work'.pc = "observe" /\ work'.key = work.key
  /\ cache[work.key] \in Kmds /\ work'.kmd \in Kmds
  /\ work'.kmd.uid = cache[work.key].uid /\ work'.kmd.status = cache[work.key].status
  /\ \/ work'.kmd.spec.ns = cache[work.key].spec.ns /\ cache[work.key].spec.ns # ""
     \/ cache[work.key].spec.ns = "" /\ work'.kmd.spec.ns \in RandomNamespaces[work.key]
  /\ \/ Fresh(work.key) /\ api'[work.key] \in Kmds /\ api'[work.key].spec.ns = work'.kmd.spec.ns
     \/ UNCHANGED api /\ InstallerFinalizer \in cache[work.key].finalizers /\ ~cache[work.key].deleting

\* It takes a copy of a deleted object.
TakesDeleted ==
  /\ work.pc = "sync" /\ work'.key = work.key /\ work'.ns = work.ns
  /\ work'.kmd = cache[work.key] /\ work'.kmd \in Kmds
  /\ work'.pc = IF Uninstallable(work'.kmd) THEN "uninstall" ELSE "finalize"

\* It goes on installing.
Installs ==
  /\ work.pc \in InstallPcs /\ work'.pc \in InstallPcs
  /\ work'.key = work.key /\ work.kmd \in Kmds /\ work'.kmd \in Kmds
  /\ work'.kmd.uid = work.kmd.uid /\ work'.kmd.spec = work.kmd.spec
  /\ \/ /\ work'.pc \notin {"helmWait", "completed", "record"}
        /\ Weaker(work'.kmd.status, work.kmd.status)
     \/ /\ work.pc = "helm" /\ work'.pc = "helmWait" /\ work'.kmd = work.kmd
        /\ ReleaseStarts(work.key, work.kmd.spec.ns)
     \/ /\ work.pc = "helmWait" /\ work'.pc = "completed" /\ work'.kmd = work.kmd
        /\ ReleaseEnds(work.key, work.kmd.spec.ns)
     \/ /\ work.pc = "completed" /\ work'.pc = "record"
        /\ release[work.key][work.kmd.spec.ns] # NoRelease /\ UNCHANGED release
        /\ work'.kmd.status.phase = "Completed" /\ work'.kmd.status.secret = work.kmd.uid
        /\ <<work.key, work.kmd.uid>> \in secrets'

\* It is about to report a failure.
Reports ==
  /\ work.pc \in InstallPcs \cup UninstallPcs /\ work'.pc = "report"
  /\ work'.key = work.key /\ work'.kmd \in Kmds
  /\ Weaker(work'.kmd.status, work.kmd.status)

\* It goes on uninstalling, with the release it found.
Uninstalls ==
  /\ work.pc \in UninstallPcs /\ work'.pc \in {"helmUninstall", "cleanup", "deleteNs"}
  /\ work'.key = work.key /\ work'.kmd = work.kmd
  /\ \/ work'.ns \in Namespaces /\ release[work.key][work'.ns] # NoRelease
     \/ work.pc # "uninstall" /\ work'.ns = work.ns

\* It has uninstalled: there was nothing, or it deletes the namespace.
HasUninstalled ==
  /\ work'.pc = "finalize"
  /\ work'.key = work.key /\ work'.kmd = work.kmd /\ work'.ns = work.ns
  /\ \/ work.pc = "uninstall" /\ ~HasRelease(work.key) /\ UNCHANGED release
     \/ work.pc = "deleteNs" /\ nsState'[work.ns] = "terminating"

Finalizes ==
  /\ work.pc = "finalize" /\ work'.pc = "finalize"
  /\ work'.key = work.key /\ work'.kmd = work.kmd /\ work'.ns = work.ns
  /\ UNCHANGED <<release, nsState>>

WorkStays == work' = work

WorkStep ==
  \/ WorkStays
  \/ work'.pc \in {"idle", "ok", "failed"}
  \/ work'.pc = "sync" /\ work'.ns = ""
  \/ TakesCopy \/ TakesDeleted
  \/ Installs \/ Reports
  \/ Uninstalls \/ HasUninstalled \/ Finalizes

Effects ==
  /\ ObjectsStep
  /\ OneObject
  /\ UNCHANGED <<api, born>> \/ UNCHANGED release
  /\ ReleasesStep
  /\ NamespacesStep
  /\ SecretsStep
  /\ WorkStep
=============================================================================
