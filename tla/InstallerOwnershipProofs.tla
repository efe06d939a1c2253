---------------------- MODULE InstallerOwnershipProofs ----------------------
(***************************************************************************)
(* OwnershipInv is an invariant: whose release is where, whose secret a     *)
(* status names and what an uninstallation found.  The proofs argue from    *)
(* the effects of a step (StepEffects), never from an action; each part of  *)
(* the invariant has a lemma of its own.  From the invariant follow the     *)
(* properties of ownership, and that each step is one of KmdLifecycle.      *)
(***************************************************************************)
EXTENDS InstallerStepProofs, InstallerLifecycle

-----------------------------------------------------------------------------
(* What a step leaves of an object *)

\* An object that exists after a step has just been created, or is the one that
\* existed, and nobody brings one back that is being deleted.
LEMMA SameObject ==
  ASSUME TypeInv, ObjectsStep, NEW n \in Names, api'[n] # NoKmd
  PROVE  \/ Appears(n)
         \/ /\ api[n] \in Kmds /\ api[n] # NoKmd /\ api'[n].uid = api[n].uid /\ born'[n] = born[n]
            /\ api[n].deleting => api'[n].deleting
            /\ Stays(n) \/ Changes(n)
<1>1. Stays(n) \/ Appears(n) \/ Disappears(n) \/ Changes(n) BY DEF ObjectsStep
<1>2. CASE Appears(n) BY <1>2
<1>3. CASE Disappears(n) BY <1>3 DEF Disappears
<1>4. CASE Stays(n)
  <2>1. api[n] \in Kmds \cup {NoKmd} BY TypeParts DEF ApiTypeOK
  <2>2. QED BY <1>4, <2>1 DEF Stays
<1>5. CASE Changes(n)
  <2>1. api[n] \in Kmds /\ api'[n] \in Kmds /\ api'[n].uid = api[n].uid /\ born'[n] = born[n]
        /\ DeletionChanges(n)
    BY <1>5 DEF Changes
  <2>2. api[n] # NoKmd BY <2>1, NoKmdIsNone
  <2>3. api[n].deleting => api'[n].deleting BY <2>1 DEF DeletionChanges
  <2>4. QED BY <1>5, <2>1, <2>2, <2>3
<1>6. QED BY <1>1, <1>2, <1>3, <1>4, <1>5

\* Names are never numbered down.
LEMMA BornGrows ==
  ASSUME TypeInv, ObjectsStep, NEW n \in Names
  PROVE  born'[n] \in Nat /\ born[n] <= born'[n]
<1>1. born[n] \in Nat BY Numbers
<1>2. Stays(n) \/ Appears(n) \/ Disappears(n) \/ Changes(n) BY DEF ObjectsStep
<1>3. born'[n] = born[n] \/ born'[n] = born[n] + 1
  BY <1>2 DEF Stays, Appears, Disappears, Changes
<1>4. QED BY <1>1, <1>3

\* What a new object owns is yet to come.
LEMMA NewOwnsNothing ==
  ASSUME TypeInv, UidsBorn, NEW n \in Names, Appears(n)
  PROVE  /\ \A v \in Versions(n) : v # NoKmd => v.uid < api'[n].uid
         /\ \A ns \in Namespaces : release[n][ns].uid < api'[n].uid
<1>1. api'[n].uid = born[n] + 1 BY DEF Appears
<1>2. \A v \in Versions(n) : v # NoKmd => v.uid <= born[n] BY DEF UidsBorn
<1>3. \A ns \in Namespaces : release[n][ns].uid <= born[n] BY DEF UidsBorn
<1>4. QED BY <1>1, <1>2, <1>3, Numbers

\* Every version after a step was one, or is stored now.
LEMMA VersionsStep ==
  ASSUME TypeInv, ObjectsStep, NEW n \in Names, NEW v \in Versions(n)', v # NoKmd
  PROVE  v \in Versions(n) \/ (v = api'[n] /\ (Appears(n) \/ Changes(n)))
<1>1. v \in Versions(n) \/ v = api'[n] BY DEF ObjectsStep
<1>2. CASE v = api'[n]
  <2>1. api[n] \in Versions(n) BY StoredIsVersion
  <2>2. QED BY <1>2, <2>1, SameObject DEF Stays
<1>3. QED BY <1>1, <1>2

\* A control plane that a live object owns after a step was just started for it,
\* or the object owned it before.
LEMMA OwnedBefore ==
  ASSUME TypeInv, UidsBorn, ObjectsStep, ReleasesStep,
         UNCHANGED <<api, born>> \/ UNCHANGED release,
         NEW n \in Names, NEW ns \in Namespaces, Exists(n)', Owns(n, api[n].uid, ns)'
  PROVE  \/ ReleaseStarts(n, ns)
         \/ /\ Exists(n) /\ api'[n].uid = api[n].uid /\ Owns(n, api[n].uid, ns)
            /\ api[n].deleting => api'[n].deleting
<1>1. api'[n] # NoKmd /\ release'[n][ns] # NoRelease /\ release'[n][ns].uid = api'[n].uid
  BY DEF Exists, Owns
<1>2. CASE Appears(n)
  <2>1. api'[n] # api[n] BY <1>1, <1>2 DEF Appears
  <2>2. UNCHANGED release BY <2>1
  <2>3. release[n][ns].uid < api'[n].uid BY <1>2, NewOwnsNothing
  <2>4. QED BY <1>1, <2>2, <2>3, Numbers
<1>3. CASE /\ api[n] # NoKmd /\ api'[n].uid = api[n].uid
           /\ api[n].deleting => api'[n].deleting
  <2>1. CASE ReleaseStays(n, ns) BY <1>1, <1>3, <2>1 DEF ReleaseStays, Owns, Exists
  <2>2. CASE ReleaseStarts(n, ns) BY <2>2
  <2>3. CASE ReleaseEnds(n, ns) BY <1>1, <1>3, <2>3 DEF ReleaseEnds, Owns, Exists
  <2>4. CASE ReleaseGoes(n, ns) BY <1>1, <2>4 DEF ReleaseGoes
  <2>5. QED BY <2>1, <2>2, <2>3, <2>4 DEF ReleasesStep
<1>4. QED BY <1>1, <1>2, <1>3, SameObject

\* The program counters that the parts of the invariant tell apart.
LEMMA PcFacts ==
  /\ {"idle", "ok", "failed", "sync", "finalize"} \cap StatusPcs = {}
  /\ {"idle", "ok", "failed", "sync", "finalize", "report"} \cap (InstallPcs \cup UninstallPcs) = {}
  /\ {"observe", "helm", "helmWait", "completed", "record"} \subseteq InstallPcs
  /\ {"uninstall", "helmUninstall", "cleanup", "deleteNs"} = UninstallPcs
  /\ InstallPcs \cap UninstallPcs = {}
  /\ StatusPcs = InstallPcs \cup UninstallPcs \cup {"report"}
BY DEF InstallPcs, UninstallPcs, StatusPcs

-----------------------------------------------------------------------------
(* StoredIsLast: which incarnation is stored *)

LEMMA StoredKept ==
  ASSUME TypeInv, StoredIsLast, ObjectsStep
  PROVE  StoredIsLast'
<1> SUFFICES ASSUME NEW n \in Names, Exists(n)'
             PROVE  api'[n].uid = born'[n]
  BY DEF StoredIsLast
<1>1. api'[n] # NoKmd BY DEF Exists
<1>2. CASE Appears(n) BY <1>2 DEF Appears
<1>3. CASE api[n] # NoKmd /\ api'[n].uid = api[n].uid /\ born'[n] = born[n]
  BY <1>3 DEF StoredIsLast, Exists
<1>4. QED BY <1>1, <1>2, <1>3, SameObject

-----------------------------------------------------------------------------
(* WithinReach: where things are *)

\* An object's namespace is one of those of its name.
LEMMA ReachOfObjects ==
  ASSUME TypeInv, WithinReach, ObjectsStep, NEW n \in Names, NEW v \in Versions(n)', v # NoKmd
  PROVE  v.spec.ns \in Reach(n) \cup {""}
<1>1. CASE v \in Versions(n) BY <1>1 DEF WithinReach
<1>2. CASE v = api'[n] /\ Appears(n) BY <1>2 DEF Appears
<1>3. CASE v = api'[n] /\ Changes(n)
  <2>1. api[n] \in Versions(n) /\ api[n] # NoKmd
    BY <1>3, StoredIsVersion, NoKmdIsNone DEF Changes
  <2>2. api[n].spec.ns \in Reach(n) \cup {""} BY <2>1 DEF WithinReach
  <2>3. RandomNamespaces[n] \subseteq Reach(n) BY DEF Reach
  <2>4. QED BY <1>3, <2>2, <2>3 DEF Changes, NamespaceChanges
<1>4. QED BY <1>1, <1>2, <1>3, VersionsStep

LEMMA ReachKept ==
  ASSUME TypeInv, WithinReach, Effects
  PROVE  WithinReach'
<1>1. ObjectsStep /\ ReleasesStep /\ WorkStep BY DEF Effects
<1>2. \A n \in Names : \A v \in Versions(n)' : v # NoKmd => v.spec.ns \in Reach(n) \cup {""}
  BY <1>1, ReachOfObjects
<1>3. ASSUME NEW n \in Names, NEW ns \in Namespaces, release'[n][ns] # NoRelease
      PROVE  ns \in Reach(n)
  <2>1. CASE ReleaseStays(n, ns) \/ ReleaseEnds(n, ns)
    BY <1>3, <2>1 DEF ReleaseStays, ReleaseEnds, WithinReach
  <2>2. CASE ReleaseStarts(n, ns)
    BY <2>2, PcFacts DEF ReleaseStarts, WithinReach
  <2>3. CASE ReleaseGoes(n, ns) BY <1>3, <2>3 DEF ReleaseGoes
  <2>4. QED BY <1>1, <2>1, <2>2, <2>3 DEF ReleasesStep
<1>4. (work.pc \in UninstallPcs => work.kmd.spec.ns \in Reach(work.key) \cup {""})'
  <2>1. CASE WorkStays \/ Uninstalls BY <2>1 DEF WorkStays, Uninstalls, WithinReach
  <2>2. CASE TakesDeleted
    <3>1. /\ work'.kmd = cache[work.key] /\ work'.kmd \in Kmds /\ work'.key = work.key
          /\ work.key \in Names
      BY <2>2, WorkerHas DEF TakesDeleted
    <3>2. work'.kmd \in Versions(work.key) /\ work'.kmd # NoKmd
      BY <3>1, NoKmdIsNone DEF Versions
    <3>3. QED BY <3>1, <3>2 DEF WithinReach
  <2>3. CASE /\ work'.pc \notin UninstallPcs
    BY <2>3
  <2>4. QED BY <1>1, <2>1, <2>2, <2>3, PcFacts
               DEF WorkStep, TakesCopy, Installs, Reports, HasUninstalled, Finalizes
<1>5. (work.pc \in InstallPcs => work.kmd.spec.ns \in Reach(work.key))'
  <2>1. CASE WorkStays \/ Installs BY <2>1 DEF WorkStays, Installs, WithinReach
  <2>2. CASE TakesCopy
    <3>1. /\ work'.key = work.key /\ cache[work.key] \in Kmds /\ work.key \in Names
          /\ \/ work'.kmd.spec.ns = cache[work.key].spec.ns /\ cache[work.key].spec.ns # ""
             \/ work'.kmd.spec.ns \in RandomNamespaces[work.key]
      BY <2>2, WorkerHas DEF TakesCopy
    <3>2. cache[work.key] \in Versions(work.key) /\ cache[work.key] # NoKmd
      BY <3>1, NoKmdIsNone DEF Versions
    <3>3. cache[work.key].spec.ns \in Reach(work.key) \cup {""}
      BY <3>1, <3>2 DEF WithinReach
    <3>4. QED BY <3>1, <3>3 DEF Reach
  <2>3. CASE work'.pc \notin InstallPcs BY <2>3
  <2>4. QED BY <1>1, <2>1, <2>2, <2>3, PcFacts
               DEF WorkStep, TakesDeleted, Reports, Uninstalls, HasUninstalled, Finalizes
<1>6. (work.pc \in {"helmUninstall", "cleanup", "deleteNs"} => work.ns \in Reach(work.key))'
  <2>1. CASE WorkStays BY <2>1 DEF WorkStays, WithinReach
  <2>2. CASE Uninstalls
    <3>1. work.key \in Names BY <2>2, WorkerHas, PcFacts DEF Uninstalls
    <3>2. QED BY <2>2, <3>1, PcFacts DEF Uninstalls, WithinReach
  <2>3. CASE work'.pc \notin {"helmUninstall", "cleanup", "deleteNs"} BY <2>3
  <2>4. QED BY <1>1, <2>1, <2>2, <2>3, PcFacts
               DEF WorkStep, TakesCopy, TakesDeleted, Installs, Reports, HasUninstalled, Finalizes
<1>7. QED BY <1>2, <1>3, <1>4, <1>5, <1>6 DEF WithinReach, Reach

-----------------------------------------------------------------------------
(* ReleaseUnderWay: what helm works on *)

LEMMA UnderWayKept ==
  ASSUME TypeInv, WithinReach, ReleaseUnderWay, Effects
  PROVE  ReleaseUnderWay'
<1>1. ReleasesStep /\ WorkStep BY DEF Effects
<1>2. work.pc \in InstallPcs =>
        /\ work.key \in Names /\ work.kmd.spec.ns \in Namespaces
  BY WithinNamespaces, WorkerHas, PcFacts
<1>3. CASE WorkStays
  <2>1. work' = work BY <1>3 DEF WorkStays
  <2>2. ASSUME NEW st, work.pc \in {"helmWait", "completed"}, OwnRelease(st) PROVE OwnRelease(st)'
    <3>1. work.key \in Names /\ work.kmd.spec.ns \in Namespaces BY <1>2, <2>2, PcFacts
    <3>2. ReleaseStays(work.key, work.kmd.spec.ns) \/ ReleaseGoes(work.key, work.kmd.spec.ns)
      BY <1>1, <2>1, <2>2, <3>1 DEF ReleasesStep, ReleaseStarts, ReleaseEnds
    <3>3. \/ release'[work.key][work.kmd.spec.ns] = release[work.key][work.kmd.spec.ns]
          \/ release'[work.key][work.kmd.spec.ns] = NoRelease
      BY <3>2 DEF ReleaseStays, ReleaseGoes
    <3>4. QED BY <2>1, <2>2, <3>3 DEF OwnRelease
  <2>3. QED BY <2>1, <2>2 DEF ReleaseUnderWay
<1>4. CASE Installs
  <2>1. /\ work'.key = work.key /\ work'.kmd.spec = work.kmd.spec /\ work'.kmd.uid = work.kmd.uid
    BY <1>4 DEF Installs
  <2>2. ASSUME work'.pc = "helmWait" PROVE OwnRelease("pending")'
    <3>1. ReleaseStarts(work.key, work.kmd.spec.ns) BY <1>4, <2>2 DEF Installs
    <3>2. QED BY <2>1, <3>1 DEF ReleaseStarts, OwnRelease
  <2>3. ASSUME work'.pc = "completed" PROVE OwnRelease("deployed")'
    <3>1. ReleaseEnds(work.key, work.kmd.spec.ns) BY <1>4, <2>3 DEF Installs
    <3>2. work.pc = "helmWait" BY <3>1 DEF ReleaseEnds
    <3>3. OwnRelease("pending") BY <3>2 DEF ReleaseUnderWay
    <3>4. QED BY <2>1, <2>3, <3>1, <3>3 DEF ReleaseEnds, OwnRelease
  <2>4. work'.pc = "record" => work'.kmd.status.phase = "Completed" BY <1>4 DEF Installs
  <2>5. QED BY <2>2, <2>3, <2>4 DEF ReleaseUnderWay
<1>5. CASE work'.pc \notin {"helmWait", "completed", "record"} BY <1>5 DEF ReleaseUnderWay
<1>6. QED BY <1>1, <1>3, <1>4, <1>5, PcFacts
             DEF WorkStep, TakesCopy, TakesDeleted, Reports, Uninstalls, HasUninstalled, Finalizes

-----------------------------------------------------------------------------
(* SecretsBorn: what statuses refer to *)

\* The status of a version after a step is older than the step, or the worker's.
LEMMA VersionStatus ==
  ASSUME TypeInv, ObjectsStep, NEW n \in Names, NEW v \in Versions(n)', v # NoKmd
  PROVE  \/ \E u \in Versions(n) : u # NoKmd /\ v.status = u.status
         \/ v.status = NewStatus
         \/ n = work.key /\ work.pc \in StatusPcs /\ Weaker(v.status, work.kmd.status)
<1>1. CASE v \in Versions(n) BY <1>1
<1>2. CASE v = api'[n] /\ Appears(n) BY <1>2 DEF Appears
<1>3. CASE v = api'[n] /\ Changes(n)
  <2>1. api[n] \in Versions(n) /\ api[n] # NoKmd
    BY <1>3, StoredIsVersion, NoKmdIsNone DEF Changes
  <2>2. QED BY <1>3, <2>1 DEF Changes, StatusChanges
<1>4. QED BY <1>1, <1>2, <1>3, VersionsStep

\* The status of the worker's copy after a step is that of a version, or what it
\* has just achieved, or claims no more than the copy did.
LEMMA CopyStatus ==
  ASSUME TypeInv, WorkStep, work'.pc \in StatusPcs
  PROVE  /\ work'.key = work.key
         /\ \/ /\ work.key \in Names
               /\ \E u \in Versions(work.key) : u # NoKmd /\ work'.kmd.status = u.status
            \/ work.pc \in StatusPcs /\ Weaker(work'.kmd.status, work.kmd.status)
            \/ /\ Installs /\ work.pc = "completed" /\ work'.pc = "record"
               /\ work'.kmd.status.secret = work.kmd.uid
<1>1. CASE WorkStays
  <2>1. work' = work BY <1>1 DEF WorkStays
  <2>2. work.pc \in StatusPcs BY <2>1
  <2>3. QED BY <2>1, <2>2 DEF Weaker
<1>2. CASE TakesCopy \/ TakesDeleted
  <2>1. /\ work.pc = "sync" /\ work'.key = work.key /\ cache[work.key] \in Kmds
        /\ work'.kmd.status = cache[work.key].status
    BY <1>2 DEF TakesCopy, TakesDeleted
  <2>2. work.key \in Names BY <2>1, WorkerHas
  <2>3. cache[work.key] \in Versions(work.key) /\ cache[work.key] # NoKmd
    BY <2>1, NoKmdIsNone DEF Versions
  <2>4. QED BY <2>1, <2>2, <2>3
<1>3. CASE Installs
  <2>1. work'.key = work.key /\ work.pc \in StatusPcs BY <1>3, PcFacts DEF Installs
  <2>2. \/ Weaker(work'.kmd.status, work.kmd.status)
        \/ work'.kmd = work.kmd
        \/ /\ work.pc = "completed" /\ work'.pc = "record"
           /\ work'.kmd.status.secret = work.kmd.uid
    BY <1>3 DEF Installs
  <2>3. Weaker(work.kmd.status, work.kmd.status) BY DEF Weaker
  <2>4. QED BY <1>3, <2>1, <2>2, <2>3
<1>4. CASE Reports \/ Uninstalls
  <2>1. work'.key = work.key /\ work.pc \in StatusPcs BY <1>4, PcFacts DEF Reports, Uninstalls
  <2>2. Weaker(work'.kmd.status, work.kmd.status) \/ work'.kmd = work.kmd
    BY <1>4 DEF Reports, Uninstalls
  <2>3. QED BY <2>1, <2>2 DEF Weaker
<1>5. QED BY <1>1, <1>2, <1>3, <1>4, PcFacts DEF WorkStep, HasUninstalled, Finalizes

\* While it installs, the worker's copy is one of an object that exists.
LEMMA CopyBorn ==
  ASSUME TypeInv, UidsBorn, WorkerOK, work.pc \in InstallPcs
  PROVE  work.key \in Names /\ Held(work.key, work.kmd) /\ work.kmd.uid <= born[work.key]
<1>1. work.key \in Names BY WorkerHas, PcFacts
<1>2. Held(work.key, work.kmd) BY DEF WorkerOK
<1>3. api[work.key] \in Versions(work.key) BY <1>1, StoredIsVersion
<1>4. QED BY <1>1, <1>2, <1>3 DEF Held, Exists, UidsBorn

LEMMA SecretsKept ==
  ASSUME TypeInv, UidsBorn, WorkerOK, SecretsBorn, Effects
  PROVE  SecretsBorn'
<1>1. ObjectsStep /\ WorkStep BY DEF Effects
<1>2. \A n \in Names : \A s \in Nat : s <= born[n] => s <= born'[n]
  <2>1. \A n \in Names : born[n] \in Nat /\ born'[n] \in Nat /\ born[n] <= born'[n]
    BY <1>1, BornGrows, Numbers
  <2>2. QED BY <2>1
<1>3. \A n \in Names : \A u \in Versions(n) : u # NoKmd =>
        u.status.secret \in Nat /\ u.status.secret <= born[n]
  BY StoredIsVersion DEF SecretsBorn, Kmds, Statuses
<1>4. work.pc \in StatusPcs =>
        /\ work.key \in Names
        /\ work.kmd.status.secret \in Nat /\ work.kmd.status.secret <= born[work.key]
  BY WorkerHas, PcFacts DEF SecretsBorn, Kmds, Statuses
<1>5. ASSUME NEW n \in Names, NEW v \in Versions(n)', v # NoKmd
      PROVE  v.status.secret <= born'[n]
  <2>1. CASE \E u \in Versions(n) : u # NoKmd /\ v.status = u.status
    BY <1>2, <1>3, <2>1
  <2>2. CASE v.status = NewStatus
    <3>1. NewStatus.secret = 0 BY DEF NewStatus
    <3>2. born'[n] \in Nat BY <1>1, BornGrows
    <3>3. QED BY <2>2, <3>1, <3>2
  <2>3. CASE n = work.key /\ work.pc \in StatusPcs /\ Weaker(v.status, work.kmd.status)
    BY <1>2, <1>4, <2>3 DEF Weaker
  <2>4. QED BY <1>1, <1>5, <2>1, <2>2, <2>3, VersionStatus
<1>6. ASSUME work'.pc \in StatusPcs PROVE work'.kmd.status.secret <= born'[work'.key]
  <2>1. CASE /\ work.key \in Names
             /\ \E u \in Versions(work.key) : u # NoKmd /\ work'.kmd.status = u.status
    BY <1>1, <1>2, <1>3, <1>6, <2>1, CopyStatus
  <2>2. CASE work.pc \in StatusPcs /\ Weaker(work'.kmd.status, work.kmd.status)
    BY <1>1, <1>2, <1>4, <1>6, <2>2, CopyStatus DEF Weaker
  <2>3. CASE work.pc = "completed" /\ work'.kmd.status.secret = work.kmd.uid
    <3>1. work.key \in Names /\ work.kmd.uid <= born[work.key] BY <2>3, CopyBorn, PcFacts
    <3>2. work.kmd.uid \in Nat BY <2>3, WorkerHas, PcFacts DEF Kmds
    <3>3. QED BY <1>1, <1>2, <1>6, <2>3, <3>1, <3>2, CopyStatus
  <2>4. QED BY <1>1, <1>6, <2>1, <2>2, <2>3, CopyStatus
<1>7. QED BY <1>5, <1>6 DEF SecretsBorn

-----------------------------------------------------------------------------
(* FoundReleaseGone: what an uninstallation found *)

\* A release that is gone stays away, and a namespace that goes away does not come
\* back, as long as the worker does not install.
LEMMA GoneStaysGone ==
  ASSUME ReleasesStep, NamespacesStep, NEW n \in Names, NEW ns \in Namespaces, work.pc # "helm"
  PROVE  /\ release[n][ns] = NoRelease => release'[n][ns] = NoRelease
         /\ nsState[ns] = "terminating" =>
              release'[n][ns] = NoRelease \/ nsState'[ns] = "terminating"
<1>1. release[n][ns] = NoRelease => release'[n][ns] = NoRelease
  BY DEF ReleasesStep, ReleaseStays, ReleaseStarts, ReleaseEnds, ReleaseGoes
<1>2. nsState[ns] = "terminating" =>
        release'[n][ns] = NoRelease \/ nsState'[ns] = "terminating"
  BY DEF NamespacesStep
<1>3. QED BY <1>1, <1>2

LEMMA FoundKept ==
  ASSUME TypeInv, WithinReach, FoundReleaseGone, Effects
  PROVE  FoundReleaseGone'
<1>1. ReleasesStep /\ NamespacesStep /\ WorkStep BY DEF Effects
<1>2. work'.pc \in {"sync", "uninstall"} => work'.ns = ""
  BY <1>1, PcFacts
     DEF FoundReleaseGone, WorkStep, WorkStays, TakesCopy, TakesDeleted, Installs, Reports,
         Uninstalls, HasUninstalled, Finalizes
<1>3. work'.pc = "uninstall" => Uninstallable(work'.kmd)
  BY <1>1, PcFacts
     DEF FoundReleaseGone, WorkStep, WorkStays, TakesCopy, TakesDeleted, Installs, Reports,
         Uninstalls, HasUninstalled, Finalizes
<1>4. ASSUME work'.pc = "finalize", Uninstallable(work'.kmd)
      PROVE  IF work'.ns = "" THEN ~HasRelease(work.key)'
             ELSE \/ release'[work'.key][work'.ns] = NoRelease
                  \/ nsState'[work'.ns] = "terminating"
  <2>1. CASE work.pc = "finalize" /\ work'.key = work.key
             /\ work'.kmd = work.kmd /\ work'.ns = work.ns
    <3>1. work.key \in Names /\ work.pc # "helm" BY <2>1, WorkerHas
    <3>2. work.ns \in Namespaces \cup {""} BY TypeParts DEF WorkType
    <3>3. IF work.ns = "" THEN ~HasRelease(work.key)
          ELSE release[work.key][work.ns] = NoRelease \/ nsState[work.ns] = "terminating"
      BY <1>4, <2>1 DEF FoundReleaseGone
    <3>4. CASE work.ns = ""
      <4>1. \A ns \in Namespaces : release'[work.key][ns] = NoRelease
        BY <1>1, <3>1, <3>3, <3>4, GoneStaysGone DEF HasRelease
      <4>2. QED BY <2>1, <3>4, <4>1 DEF HasRelease
    <3>5. CASE work.ns \in Namespaces /\ work.ns # ""
      BY <1>1, <2>1, <3>1, <3>3, <3>5, GoneStaysGone
    <3>6. QED BY <3>2, <3>4, <3>5
  <2>2. CASE HasUninstalled
    <3>1. CASE work.pc = "uninstall" /\ ~HasRelease(work.key) /\ UNCHANGED release
      <4>1. work'.ns = "" /\ work'.key = work.key
        BY <2>2, <3>1 DEF HasUninstalled, FoundReleaseGone
      <4>2. QED BY <3>1, <4>1 DEF HasRelease
    <3>2. CASE work.pc = "deleteNs" /\ nsState'[work.ns] = "terminating"
      <4>1. work.ns \in Namespaces BY <3>2, WithinNamespaces
      <4>2. work.ns # "" BY <4>1, KmdApiAssumption
      <4>3. QED BY <2>2, <3>2, <4>2 DEF HasUninstalled
    <3>3. QED BY <2>2, <3>1, <3>2 DEF HasUninstalled
  <2>3. CASE TakesDeleted BY <1>4, <2>3 DEF TakesDeleted
  <2>4. QED
    BY <1>1, <1>4, <2>1, <2>2, <2>3, PcFacts
       DEF WorkStep, WorkStays, TakesCopy, Installs, Reports, Uninstalls, Finalizes
<1>5. QED BY <1>2, <1>3, <1>4 DEF FoundReleaseGone, HasRelease

-----------------------------------------------------------------------------
(* NamespaceSettled: one namespace for an object *)

\* The stored namespace of an object that has the finalizer does not change.
LEMMA SettledStays ==
  ASSUME TypeInv, ObjectsStep, NamespaceFixed, NamespaceSettled,
         NEW n \in Names, Exists(n), Exists(n)', api'[n].uid = api[n].uid, Stays(n) \/ Changes(n),
         \/ InstallerFinalizer \in api[n].finalizers
         \/ api[n].spec.ns # ""
  PROVE  api'[n].spec.ns = api[n].spec.ns
<1>1. api[n] \in Versions(n) BY StoredIsVersion
<1>2. InstallerFinalizer \in api[n].finalizers => api[n].spec.ns # ""
  BY <1>1 DEF NamespaceSettled, Exists
<1>3. CASE Changes(n) BY <1>2, <1>3 DEF Changes, NamespaceChanges
<1>4. QED BY <1>3 DEF Stays

LEMMA SettledKept ==
  ASSUME TypeInv, UidsBorn, VersionsOK, WorkerOK, NamespaceFixed, NamespaceSettled, Effects
  PROVE  NamespaceSettled'
<1>1. ObjectsStep /\ ReleasesStep /\ WorkStep /\ (UNCHANGED <<api, born>> \/ UNCHANGED release)
  BY DEF Effects
<1> SUFFICES ASSUME NEW n \in Names, Exists(n)'
             PROVE  /\ \A v \in Versions(n)' :
                         v # NoKmd /\ v.uid = api'[n].uid /\ InstallerFinalizer \in v.finalizers
                         => v.spec.ns = api'[n].spec.ns /\ v.spec.ns # ""
                    /\ \A ns \in Namespaces : Owns(n, api[n].uid, ns)' => ns = api'[n].spec.ns
                    /\ work'.pc \in InstallPcs /\ work'.key = n =>
                         work'.kmd.spec.ns = api'[n].spec.ns
  BY DEF NamespaceSettled
<1>2. api'[n] # NoKmd BY DEF Exists
<1>3. api[n] \in Versions(n) BY StoredIsVersion
<1>4. ASSUME NEW v \in Versions(n)', v # NoKmd, v.uid = api'[n].uid,
             InstallerFinalizer \in v.finalizers
      PROVE  v.spec.ns = api'[n].spec.ns /\ v.spec.ns # ""
  <2>1. CASE v \in Versions(n)
    <3>1. ~Appears(n) BY <1>4, <2>1, NewOwnsNothing, StoredIsVersion DEF Kmds
    <3>2. Exists(n) /\ api'[n].uid = api[n].uid /\ (Stays(n) \/ Changes(n))
      BY <1>1, <1>2, <3>1, SameObject DEF Exists
    <3>3. v.spec.ns = api[n].spec.ns /\ v.spec.ns # ""
      BY <1>4, <2>1, <3>2 DEF NamespaceSettled
    <3>4. QED BY <1>1, <3>2, <3>3, SettledStays
  <2>2. CASE v = api'[n] /\ Appears(n) BY <1>4, <2>2 DEF Appears
  <2>3. CASE v = api'[n] /\ Changes(n)
    <3>1. Exists(n) /\ api'[n].uid = api[n].uid /\ FinalizersChange(n)
      BY <2>3, NoKmdIsNone DEF Changes, Exists
    <3>2. CASE InstallerFinalizer \in api[n].finalizers
      <4>1. api[n].spec.ns # "" BY <1>3, <3>1, <3>2 DEF NamespaceSettled, Exists
      <4>2. QED BY <1>1, <2>3, <3>1, <3>2, <4>1, SettledStays
    <3>3. CASE InstallerFinalizer \notin api[n].finalizers
      BY <1>4, <2>3, <3>1, <3>3 DEF FinalizersChange
    <3>4. QED BY <3>2, <3>3
  <2>4. QED BY <1>1, <1>4, <2>1, <2>2, <2>3, VersionsStep
<1>5. ASSUME NEW ns \in Namespaces, Owns(n, api[n].uid, ns)'
      PROVE  ns = api'[n].spec.ns
  <2>1. CASE ReleaseStarts(n, ns)
    <3>1. n = work.key /\ ns = work.kmd.spec.ns /\ work.pc \in InstallPcs
      BY <2>1, PcFacts DEF ReleaseStarts
    <3>2. Exists(n) BY <3>1 DEF WorkerOK, Held
    <3>3. ns = api[n].spec.ns BY <3>1, <3>2 DEF NamespaceSettled
    <3>4. UNCHANGED api
      <4>1. release'[n][ns] # release[n][ns] BY <1>5, <2>1 DEF ReleaseStarts, Owns
      <4>2. QED BY <1>1, <4>1
    <3>5. QED BY <3>3, <3>4
  <2>2. CASE Exists(n) /\ api'[n].uid = api[n].uid /\ Owns(n, api[n].uid, ns)
    <3>1. ns = api[n].spec.ns BY <2>2 DEF NamespaceSettled
    <3>2. api[n].spec.ns # "" BY <3>1, KmdApiAssumption
    <3>3. ~Appears(n) BY <2>2 DEF Appears, Exists
    <3>4. Stays(n) \/ Changes(n) BY <1>1, <1>2, <3>3, SameObject
    <3>5. QED BY <1>1, <2>2, <3>1, <3>2, <3>4, SettledStays
  <2>3. QED BY <1>1, <1>5, <2>1, <2>2, OwnedBefore
<1>6. ASSUME work'.pc \in InstallPcs, work'.key = n
      PROVE  work'.kmd.spec.ns = api'[n].spec.ns
  <2>1. CASE WorkStays \/ Installs
    <3>1. /\ work.pc \in InstallPcs /\ work.key = n /\ work'.kmd.spec = work.kmd.spec
      BY <1>6, <2>1 DEF WorkStays, Installs
    <3>2. Held(n, work.kmd) BY <3>1 DEF WorkerOK
    <3>3. Exists(n) /\ InstallerFinalizer \in api[n].finalizers BY <3>2 DEF Held
    <3>4. work.kmd.spec.ns = api[n].spec.ns BY <3>1, <3>3 DEF NamespaceSettled
    <3>5. ~Appears(n) BY <3>3 DEF Appears, Exists
    <3>6. (Stays(n) \/ Changes(n)) /\ api'[n].uid = api[n].uid BY <1>1, <1>2, <3>5, SameObject
    <3>7. QED BY <1>1, <3>1, <3>3, <3>4, <3>6, SettledStays
  <2>2. CASE TakesCopy
    <3>1. work.key = n /\ cache[n] \in Kmds /\ cache[n] \in Versions(n)
      BY <1>6, <2>2 DEF TakesCopy, Versions
    <3>2. CASE api'[n].spec.ns = work'.kmd.spec.ns BY <3>2
    <3>3. CASE /\ UNCHANGED api
               /\ InstallerFinalizer \in cache[n].finalizers /\ ~cache[n].deleting
      <4>1. Held(n, cache[n]) BY <3>1, <3>3, NoKmdIsNone DEF VersionsOK
      <4>2. cache[n].spec.ns = api[n].spec.ns /\ cache[n].spec.ns # ""
        BY <3>1, <3>3, <4>1, NoKmdIsNone DEF Held, NamespaceSettled
      <4>3. QED BY <2>2, <3>1, <3>3, <4>2 DEF TakesCopy
    <3>4. QED BY <2>2, <3>1, <3>2, <3>3 DEF TakesCopy
  <2>3. QED
    BY <1>1, <1>6, <2>1, <2>2, PcFacts
       DEF WorkStep, TakesDeleted, Reports, Uninstalls, HasUninstalled, Finalizes
<1>7. QED BY <1>4, <1>5, <1>6

-----------------------------------------------------------------------------
(* Nothing takes a live object's control plane away *)

\* An uninstallation does not concern what a live object owns: not under its own
\* name, where no live object that the installer took charge of is left, and not
\* under another, which has other namespaces.
LEMMA UninstallsElsewhere ==
  ASSUME TypeInv, WorkerOK, GuardedByFinalizer, WithinReach, NamespacesDisjoint,
         work.pc \in UninstallPcs,
         NEW n \in Names, NEW ns \in Namespaces, ns \in Reach(work.key)
  PROVE  ~(Live(n) /\ Owns(n, api[n].uid, ns))
<1> SUFFICES ASSUME Live(n), Owns(n, api[n].uid, ns) PROVE FALSE
  OBVIOUS
<1>1. work.key \in Names BY WorkerHas, PcFacts
<1>2. CASE n = work.key
  <2>1. InstallerFinalizer \in api[n].finalizers BY DEF GuardedByFinalizer
  <2>2. Unguarded(n) BY <1>2 DEF WorkerOK
  <2>3. QED BY <2>1, <2>2 DEF Unguarded
<1>3. CASE n # work.key
  <2>1. ns \in Reach(n) BY DEF WithinReach, Owns
  <2>2. Reach(n) \cap Reach(work.key) = {} BY <1>1, <1>3 DEF NamespacesDisjoint
  <2>3. QED BY <2>1, <2>2
<1>4. QED BY <1>2, <1>3

\* A namespace that starts to go away carries nothing that a live object owns.
LEMMA TerminatingKept ==
  ASSUME TypeInv, UidsBorn, WorkerOK, GuardedByFinalizer, WithinReach, NamespacesDisjoint,
         TerminatingUnowned, Effects
  PROVE  TerminatingUnowned'
<1>1. /\ ObjectsStep /\ ReleasesStep /\ NamespacesStep
      /\ UNCHANGED <<api, born>> \/ UNCHANGED release
  BY DEF Effects
<1> SUFFICES ASSUME NEW n \in Names, NEW ns \in Namespaces, Live(n)', nsState'[ns] = "terminating",
                    Owns(n, api[n].uid, ns)'
             PROVE  FALSE
  BY DEF TerminatingUnowned
<1>2. Exists(n)' /\ ~api'[n].deleting BY DEF Live
<1>3. \/ nsState[ns] = "terminating"
      \/ /\ nsState[ns] = "active"
         /\ \/ work.pc = "uninstall" /\ ns = work.kmd.spec.ns
            \/ work.pc = "deleteNs" /\ ns = work.ns
  BY <1>1 DEF NamespacesStep
<1>4. CASE ReleaseStarts(n, ns)
  BY <1>3, <1>4 DEF ReleaseStarts
<1>5. CASE Live(n) /\ Owns(n, api[n].uid, ns)
  <2>1. CASE nsState[ns] = "terminating" BY <1>5, <2>1 DEF TerminatingUnowned
  <2>2. CASE \/ work.pc = "uninstall" /\ ns = work.kmd.spec.ns
             \/ work.pc = "deleteNs" /\ ns = work.ns
    <3>1. work.pc \in UninstallPcs BY <2>2, PcFacts
    <3>2. ns \in Reach(work.key) BY <2>2, <3>1, KmdApiAssumption DEF WithinReach
    <3>3. QED BY <1>5, <3>1, <3>2, UninstallsElsewhere
  <2>3. QED BY <1>3, <2>1, <2>2
<1>6. QED BY <1>1, <1>2, <1>4, <1>5, OwnedBefore DEF Live

\* A control plane that a live object owns stays, deployed if it was.
LEMMA OwnedStays ==
  ASSUME TypeInv, WorkerOK, GuardedByFinalizer, WithinReach, ReleaseUnderWay, NamespacesDisjoint,
         TerminatingUnowned, ReleasesStep,
         NEW n \in Names, NEW ns \in Namespaces, Live(n), Owns(n, api[n].uid, ns),
         release[n][ns].status = "deployed"
  PROVE  release'[n][ns] = release[n][ns]
<1>1. work.pc = "helmWait" /\ n = work.key /\ ns = work.kmd.spec.ns => FALSE
  <2> SUFFICES ASSUME work.pc = "helmWait", n = work.key, ns = work.kmd.spec.ns PROVE FALSE
    OBVIOUS
  <2>1. OwnRelease("pending") BY DEF ReleaseUnderWay
  <2>2. QED BY <2>1 DEF OwnRelease, Owns
<1>2. ~ReleaseStarts(n, ns) BY DEF ReleaseStarts, Owns
<1>3. ~ReleaseEnds(n, ns) BY <1>1 DEF ReleaseEnds
<1>4. ~ReleaseGoes(n, ns)
  <2> SUFFICES ASSUME ReleaseGoes(n, ns) PROVE FALSE
    OBVIOUS
  <2>1. CASE work.pc = "helmUninstall" /\ ns = work.ns
    <3>1. work.pc \in UninstallPcs /\ ns \in Reach(work.key)
      BY <2>1, PcFacts DEF WithinReach
    <3>2. QED BY <3>1, UninstallsElsewhere
  <2>2. CASE nsState[ns] = "terminating" BY <2>2 DEF TerminatingUnowned
  <2>3. QED BY <1>1, <2>1, <2>2 DEF ReleaseGoes
<1>5. QED BY <1>2, <1>3, <1>4 DEF ReleasesStep, ReleaseStays

-----------------------------------------------------------------------------
(* StatusesJustified: what statuses claim *)

\* A live object that is served stays so while it is live.
LEMMA ServesStays ==
  ASSUME TypeInv, WorkerOK, GuardedByFinalizer, WithinReach, ReleaseUnderWay, NamespacesDisjoint,
         TerminatingUnowned, Effects,
         NEW n \in Names, Live(n), api'[n].uid = api[n].uid, Serves(n)
  PROVE  Serves(n)'
<1>1. ReleasesStep /\ SecretsStep BY DEF Effects
<1>2. PICK ns \in Namespaces : Owns(n, api[n].uid, ns) /\ release[n][ns].status = "deployed"
  BY DEF Serves
<1>3. release'[n][ns] = release[n][ns] BY <1>1, <1>2, OwnedStays
<1>4. (Owns(n, api[n].uid, ns) /\ release[n][ns].status = "deployed")' BY <1>2, <1>3 DEF Owns
<1>5. <<n, api[n].uid>> \in secrets'
  <2>1. api[n].uid \in Nat BY TypeParts DEF ApiTypeOK, Live, Exists, Kmds
  <2>2. <<n, api[n].uid>> \in secrets BY DEF Serves
  <2>3. ~(n = work.key /\ work.pc \in UninstallPcs)
    <3>1. InstallerFinalizer \in api[n].finalizers BY <1>2 DEF GuardedByFinalizer
    <3>2. QED BY <3>1 DEF WorkerOK, Unguarded
  <2>4. QED BY <1>1, <2>1, <2>2, <2>3 DEF SecretsStep, Live
<1>6. QED BY <1>4, <1>5 DEF Serves

\* A status stays justified, unless it is of an incarnation that is yet to come.
LEMMA JustifiedStays ==
  ASSUME TypeInv, WorkerOK, GuardedByFinalizer, WithinReach, ReleaseUnderWay, NamespacesDisjoint,
         TerminatingUnowned, Effects,
         NEW n \in Names, NEW st, st.secret \in Nat, st.secret <= born[n], Justified(n, st)
  PROVE  Justified(n, st)'
<1> SUFFICES ASSUME Live(n)', st.phase = "Completed", st.secret = api'[n].uid PROVE Serves(n)'
  BY DEF Justified
<1>1. ObjectsStep /\ api'[n] # NoKmd /\ ~api'[n].deleting BY DEF Effects, Live, Exists
<1>2. CASE Appears(n)
  <2>1. st.secret = born[n] + 1 BY <1>2 DEF Appears
  <2>2. QED BY <2>1, Numbers
<1>3. CASE api[n] # NoKmd /\ api'[n].uid = api[n].uid /\ (api[n].deleting => api'[n].deleting)
  <2>1. Live(n) BY <1>1, <1>3 DEF Live, Exists
  <2>2. Serves(n) BY <1>3, <2>1 DEF Justified
  <2>3. QED BY <1>3, <2>1, <2>2, ServesStays
<1>4. QED BY <1>1, <1>2, <1>3, SameObject

\* When the kubeconfig is stored, the copy's incarnation is served.
LEMMA JustCompleted ==
  ASSUME TypeInv, WithinReach, ReleaseUnderWay, Installs, work.pc = "completed", work'.pc = "record"
  PROVE  (Justified(work.key, work.kmd.status))'
<1>1. /\ work'.key = work.key /\ work.key \in Names /\ work.kmd.spec.ns \in Namespaces
      /\ release[work.key][work.kmd.spec.ns] # NoRelease /\ UNCHANGED release
      /\ work'.kmd.status.secret = work.kmd.uid /\ <<work.key, work.kmd.uid>> \in secrets'
  BY WorkerHas, WithinNamespaces, PcFacts DEF Installs
<1>2. OwnRelease("deployed") BY DEF ReleaseUnderWay
<1>3. /\ release'[work.key][work.kmd.spec.ns] # NoRelease
      /\ release'[work.key][work.kmd.spec.ns].uid = work.kmd.uid
      /\ release'[work.key][work.kmd.spec.ns].status = "deployed"
  BY <1>1, <1>2 DEF OwnRelease
<1>4. QED BY <1>1, <1>3 DEF Justified, Serves, Owns

LEMMA JustifiedKept ==
  ASSUME TypeInv, WorkerOK, GuardedByFinalizer, WithinReach, ReleaseUnderWay, SecretsBorn,
         NamespacesDisjoint, TerminatingUnowned, StatusesJustified, Effects
  PROVE  StatusesJustified'
<1>1. ObjectsStep /\ WorkStep BY DEF Effects
<1>2. \A n \in Names : \A u \in Versions(n) : u # NoKmd => Justified(n, u.status)'
  <2> SUFFICES ASSUME NEW n \in Names, NEW u \in Versions(n), u # NoKmd
               PROVE  Justified(n, u.status)'
    OBVIOUS
  <2> DEFINE st == u.status
  <2>1. st.secret \in Nat /\ st.secret <= born[n] /\ Justified(n, st)
    BY StoredIsVersion DEF SecretsBorn, StatusesJustified, Kmds, Statuses
  <2> HIDE DEF st
  <2>2. Justified(n, st)' BY <2>1, JustifiedStays
  <2>3. QED BY <2>2 DEF st
<1>3. ASSUME work.pc \in StatusPcs
      PROVE  \E n \in Names, t \in Statuses : n = work.key /\ t = work.kmd.status /\ Justified(n, t)'
  <2>1. PICK n \in Names, t \in Statuses : n = work.key /\ t = work.kmd.status
    BY <1>3, WorkerHas, PcFacts DEF Kmds
  <2>2. t.secret \in Nat /\ t.secret <= born[n] /\ Justified(n, t)
    BY <1>3, <2>1 DEF SecretsBorn, StatusesJustified, Statuses
  <2>3. Justified(n, t)' BY <2>2, JustifiedStays
  <2>4. QED BY <2>1, <2>3
<1>4. \A n, s, t : Weaker(s, t) /\ Justified(n, t)' => Justified(n, s)'
  BY DEF Weaker, Justified
<1>5. ASSUME NEW n \in Names, NEW v \in Versions(n)', v # NoKmd
      PROVE  Justified(n, v.status)'
  <2>1. CASE \E u \in Versions(n) : u # NoKmd /\ v.status = u.status
    BY <1>2, <2>1 DEF Justified
  <2>2. CASE v.status = NewStatus
    <3>1. NewStatus.phase # "Completed" BY DEF NewStatus
    <3>2. QED BY <2>2, <3>1 DEF Justified
  <2>3. CASE n = work.key /\ work.pc \in StatusPcs /\ Weaker(v.status, work.kmd.status)
    BY <1>3, <1>4, <2>3
  <2>4. QED BY <1>1, <1>5, <2>1, <2>2, <2>3, VersionStatus
<1>6. ASSUME work'.pc \in StatusPcs PROVE (Justified(work.key, work.kmd.status))'
  <2>1. work'.key = work.key BY <1>1, <1>6, CopyStatus
  <2>2. ASSUME NEW n \in Names, NEW s, n = work.key, work'.kmd.status = s, Justified(n, s)'
        PROVE  (Justified(work.key, work.kmd.status))'
    BY <2>1, <2>2 DEF Justified, Live, Exists, Serves, Owns
  <2>3. CASE /\ work.key \in Names
             /\ \E u \in Versions(work.key) : u # NoKmd /\ work'.kmd.status = u.status
    <3>1. PICK n \in Names : n = work.key BY <2>3
    <3>2. PICK u \in Versions(n) : u # NoKmd /\ work'.kmd.status = u.status BY <2>3, <3>1
    <3>3. Justified(n, u.status)' BY <1>2, <3>2
    <3>4. QED BY <2>2, <3>1, <3>2, <3>3
  <2>4. CASE work.pc \in StatusPcs /\ Weaker(work'.kmd.status, work.kmd.status)
    <3>1. PICK n \in Names, t \in Statuses :
            n = work.key /\ t = work.kmd.status /\ Justified(n, t)'
      BY <1>3, <2>4
    <3>2. PICK s : s = work'.kmd.status OBVIOUS
    <3>3. Weaker(s, t) BY <2>4, <3>1, <3>2
    <3>4. Justified(n, s)' BY <1>4, <3>1, <3>3
    <3>5. QED BY <2>2, <3>1, <3>2, <3>4
  <2>5. CASE Installs /\ work.pc = "completed" /\ work'.pc = "record" BY <2>5, JustCompleted
  <2>6. QED BY <1>1, <1>6, <2>3, <2>4, <2>5, CopyStatus
<1>7. QED BY <1>5, <1>6 DEF StatusesJustified

-----------------------------------------------------------------------------
\* Nobody owns anything when the operator starts.
LEMMA OwnershipInit == Init => OwnershipInv
<1> SUFFICES ASSUME Init PROVE OwnershipInv
  OBVIOUS
<1>1. IInv /\ TypeInv BY InvInit, InvParts
<1>2. /\ api = [n \in Names |-> NoKmd] /\ watch = [n \in Names |-> <<>>]
      /\ release = [n \in Names |-> [ns \in Namespaces |-> NoRelease]]
      /\ work.pc = "idle"
  BY IdleType DEF Init, ApiInit
<1>3. \A n \in Names : \A v \in Versions(n) : v = NoKmd
  BY <1>1, <1>2, FreshVersions DEF Fresh
<1>4. /\ work.pc \notin InstallPcs \cup UninstallPcs \cup {"finalize", "sync"}
      /\ work.pc \notin StatusPcs
      /\ work.pc \notin {"helmWait", "completed", "record", "uninstall", "helmUninstall",
                         "cleanup", "deleteNs"}
  BY <1>2, PcFacts
<1>5. \A n \in Names : ~Exists(n) /\ ~Live(n) BY <1>2 DEF Exists, Live
<1>6. WithinReach BY <1>2, <1>3, <1>4 DEF WithinReach
<1>7. ReleaseUnderWay BY <1>4 DEF ReleaseUnderWay
<1>8. SecretsBorn BY <1>3, <1>4 DEF SecretsBorn
<1>9. FoundReleaseGone BY <1>4 DEF FoundReleaseGone
<1>10. NamespaceSettled BY <1>5 DEF NamespaceSettled
<1>11. TerminatingUnowned BY <1>5 DEF TerminatingUnowned
<1>12. StatusesJustified BY <1>3, <1>4 DEF StatusesJustified
<1>13. StoredIsLast BY <1>5 DEF StoredIsLast
<1>14. QED BY <1>1, <1>6, <1>7, <1>8, <1>9, <1>10, <1>11, <1>12, <1>13 DEF OwnershipInv

\* A step with the effects of the installer keeps each part.
LEMMA OwnershipKept ==
  ASSUME OwnershipInv, IInv', Effects
  PROVE  OwnershipInv'
<1>1. IInv /\ StoredIsLast /\ WithinReach /\ ReleaseUnderWay /\ SecretsBorn /\ FoundReleaseGone
  BY DEF OwnershipInv
<1>2. TypeInv /\ WorkerOK /\ UidsBorn /\ VersionsOK /\ GuardedByFinalizer
  BY <1>1, InvParts DEF IInv
<1>3. WithinReach' BY <1>1, <1>2, ReachKept
<1>4. ReleaseUnderWay' BY <1>1, <1>2, UnderWayKept
<1>5. SecretsBorn' BY <1>1, <1>2, SecretsKept
<1>6. FoundReleaseGone' BY <1>1, <1>2, FoundKept
<1>7. ASSUME NamespaceFixed PROVE NamespaceSettled'
  BY <1>2, <1>7, SettledKept DEF OwnershipInv
<1>8. ASSUME NamespacesDisjoint PROVE TerminatingUnowned' /\ StatusesJustified'
  BY <1>1, <1>2, <1>8, TerminatingKept, JustifiedKept DEF OwnershipInv
<1>9. (NamespaceFixed => NamespaceSettled)' BY <1>7 DEF NamespaceFixed
<1>10. (NamespacesDisjoint => TerminatingUnowned /\ StatusesJustified)'
  BY <1>8 DEF NamespacesDisjoint, Reach
<1>11. StoredIsLast' BY <1>1, <1>2, StoredKept DEF Effects
<1>12. QED BY <1>3, <1>4, <1>5, <1>6, <1>9, <1>10, <1>11 DEF OwnershipInv

\* Every step of the installer, of its users and of the cluster has such effects.
LEMMA OwnedEffects ==
  ASSUME OwnershipInv, [Next]_vars
  PROVE  Effects
BY StepEffects, InvParts DEF OwnershipInv

LEMMA OwnershipNext == OwnershipInv /\ [Next]_vars => OwnershipInv'
<1> SUFFICES ASSUME OwnershipInv, [Next]_vars PROVE OwnershipInv'
  OBVIOUS
<1>1. IInv' BY InvNext DEF OwnershipInv
<1>2. Effects BY OwnedEffects
<1>3. QED BY <1>1, <1>2, OwnershipKept

\* The invariant of ownership holds of every reachable state.
THEOREM OwnershipInvariant == Spec => []OwnershipInv
BY OwnershipInit, OwnershipNext, PTL DEF Spec

-----------------------------------------------------------------------------
(* What follows from the invariant, whoever keeps it *)

LEMMA OwnsOnce ==
  ASSUME OwnershipInv, NamespaceFixed
  PROVE  OneInstance
<1> SUFFICES ASSUME NEW n \in Names, Exists(n),
                    NEW ns1 \in Namespaces, NEW ns2 \in Namespaces,
                    Owns(n, api[n].uid, ns1), Owns(n, api[n].uid, ns2)
             PROVE  ns1 = ns2
  BY DEF OneInstance
<1>1. NamespaceSettled BY DEF OwnershipInv
<1>2. QED BY <1>1 DEF NamespaceSettled

LEMMA ClaimedIsServed ==
  ASSUME OwnershipInv, NamespacesDisjoint
  PROVE  CompletedMeansDeployed
<1> SUFFICES ASSUME NEW n \in Names, Live(n),
                    api[n].status.phase = "Completed", api[n].status.secret = api[n].uid
             PROVE  Serves(n)
  BY DEF CompletedMeansDeployed, Serves
<1>1. TypeInv /\ StatusesJustified BY InvParts DEF OwnershipInv
<1>2. api[n] \in Versions(n) /\ api[n] # NoKmd BY <1>1, StoredIsVersion DEF Live, Exists
<1>3. Justified(n, api[n].status) BY <1>1, <1>2 DEF StatusesJustified
<1>4. QED BY <1>3 DEF Justified

\* No step of the releases takes the control plane of a live object away.
LEMMA DeployedStays ==
  ASSUME OwnershipInv, NamespacesDisjoint, ReleasesStep,
         NEW n \in Names, NEW ns \in Namespaces,
         Live(n), release[n][ns].status = "deployed", Owns(n, api[n].uid, ns)
  PROVE  release'[n][ns] = release[n][ns] /\ release'[n][ns] # NoRelease
<1>1. /\ TypeInv /\ WorkerOK /\ GuardedByFinalizer
      /\ WithinReach /\ ReleaseUnderWay /\ TerminatingUnowned
  BY InvParts DEF OwnershipInv, IInv
<1>2. release'[n][ns] = release[n][ns] BY <1>1, OwnedStays
<1>3. QED BY <1>2 DEF Owns

\* What the worker knows when it is about to remove the finalizer.
LEMMA NothingLeft ==
  ASSUME OwnershipInv, NEW n \in Names, work.pc = "finalize", key = n, Uninstallable(kmd)
  PROVE  Uninstalled(n)
BY DEF OwnershipInv, FoundReleaseGone, HasRelease, Uninstalled, Owns, key, kmd

\* Only the worker, about to remove the finalizer, lets an object go.
LEMMA FinalizerLeavesInTurn ==
  ASSUME TypeInv, ObjectsStep, NEW n \in Names, FinalizerLeaves(n)
  PROVE  work.pc = "finalize" /\ key = n
<1>1. Stays(n) \/ Appears(n) \/ Disappears(n) \/ Changes(n) BY DEF ObjectsStep
<1>2. CASE Stays(n) BY <1>2 DEF Stays, FinalizerLeaves, Exists
<1>3. CASE Appears(n) BY <1>3 DEF Appears, FinalizerLeaves, Exists
<1>4. CASE Disappears(n) BY <1>4 DEF Disappears, Finalizing, FinalizerLeaves, key
<1>5. CASE Changes(n)
  <2>1. api'[n] # NoKmd BY <1>5, NoKmdIsNone DEF Changes
  <2>2. InstallerFinalizer \notin api'[n].finalizers BY <2>1 DEF FinalizerLeaves, Exists
  <2>3. QED BY <1>5, <2>2 DEF Changes, FinalizersChange, Finalizing, FinalizerLeaves, key
<1>6. QED BY <1>1, <1>2, <1>3, <1>4, <1>5

\* helm works on a release of a name while the object is held only.
LEMMA NothingComesUp ==
  ASSUME WorkerOK, ReleasesStep, NEW n \in Names, LetGo(n), NEW ns \in Namespaces
  PROVE  release'[n][ns] \in {release[n][ns], NoRelease}
<1>1. work.pc \in InstallPcs => n # work.key BY DEF WorkerOK, Held, LetGo
<1>2. work.pc \in {"helm", "helmWait"} => n # work.key BY <1>1, PcFacts
<1>3. QED BY <1>2 DEF ReleasesStep, ReleaseStays, ReleaseStarts, ReleaseEnds, ReleaseGoes

\* Both at a step of the installer, of its users or of the cluster.
LEMMA UninstalledFirst ==
  ASSUME OwnershipInv, Effects, NEW n \in Names
  PROVE  /\ FinalizerLeaves(n) => /\ work.pc = "finalize" /\ key = n
                                  /\ Uninstallable(kmd) => Uninstalled(n)
         /\ LetGo(n) => \A ns \in Namespaces : release'[n][ns] \in {release[n][ns], NoRelease}
<1>1. TypeInv /\ WorkerOK BY InvParts DEF OwnershipInv, IInv
<1>2. ObjectsStep /\ ReleasesStep BY DEF Effects
<1>3. FinalizerLeaves(n) => work.pc = "finalize" /\ key = n BY <1>1, <1>2, FinalizerLeavesInTurn
<1>4. QED BY <1>1, <1>2, <1>3, NothingLeft, NothingComesUp

-----------------------------------------------------------------------------
(* The installer *)

\* One object gets one control plane, in the namespace that is stored in it, unless
\* a user moves the object to another: retries, crashes and stale copies draw no
\* second one (initDefaultValues, UpgradeFromPath).
THEOREM SingleInstance ==
  ASSUME NamespaceFixed
  PROVE  Spec => []OneInstance
BY OwnsOnce, OwnershipInvariant, PTL

\* A live object in phase Completed whose status refers to its own secret is served:
\* its release is deployed and the secret is there.  Two names must not share a
\* namespace, for the uninstallation of one deletes it (install.go Completed,
\* status/phase.go SetStatus).
THEOREM CompletedIsDeployed ==
  ASSUME NamespacesDisjoint
  PROVE  Spec => []CompletedMeansDeployed
BY ClaimedIsServed, OwnershipInvariant, PTL

\* The deployed control plane of a live object is never taken down, whatever copy
\* the worker acts on and wherever it crashes, if no two names share a namespace
\* (uninstall.go Uninstall).
THEOREM LiveControlPlaneKept ==
  ASSUME NamespacesDisjoint
  PROVE  Spec => ControlPlaneKept
<1>1. OwnershipInv /\ [Next]_vars =>
        [\A n \in Names, ns \in Namespaces :
           Live(n) /\ release[n][ns].status = "deployed" /\ release'[n][ns] = NoRelease
           => ~Owns(n, api[n].uid, ns)]_vars
  BY OwnedEffects, DeployedStays DEF Effects
<1>2. QED BY <1>1, OwnershipInvariant, PTL DEF Spec, ControlPlaneKept

\* Only the end of a sync lets an object go, after whatever that sync decided of the
\* control plane is done: every release installed for the object is gone, or goes with
\* its namespace, unless helm found the release of an earlier incarnation first.
\* Nothing comes up under the name of an object that was let go
\* (syncHandler, uninstall.go Uninstall).
THEOREM UninstalledBeforeRemoval == Spec => UninstallPrecedesRemoval
<1>1. OwnershipInv /\ [Next]_vars =>
        [\A n \in Names :
           /\ FinalizerLeaves(n) => /\ work.pc = "finalize" /\ key = n
                                    /\ Uninstallable(kmd) => Uninstalled(n)
           /\ LetGo(n) => \A ns \in Namespaces :
                release'[n][ns] \in {release[n][ns], NoRelease}]_vars
  BY OwnedEffects, UninstalledFirst
<1>2. QED BY <1>1, OwnershipInvariant, PTL DEF Spec, UninstallPrecedesRemoval

-----------------------------------------------------------------------------
(* The installer implements KmdLifecycle: every step is one of the lifecycle, *)
(* or changes nothing in it.  Objects and releases never change in the same   *)
(* step, so the objects account for Request and Change, and the releases for  *)
(* Install and TakeDown.                                                      *)

\* What the maps say, and say next.
LEMMA Maps ==
  /\ StageOf = [n \in Names |-> Stage(n)] /\ StageOf' = [n \in Names |-> Stage(n)']
  /\ RunningOf = [n \in Names |-> Running(n)] /\ RunningOf' = [n \in Names |-> Running(n)']
BY DEF StageOf, RunningOf

\* An object that stays keeps its stage.
LEMMA StageStays ==
  ASSUME NEW n \in Names, Stays(n)
  PROVE  Stage(n)' = Stage(n)
BY DEF Stays, Stage, Exists

\* What becomes of an object.
LEMMA StageMoves ==
  ASSUME TypeInv, ObjectsStep, NEW n \in Names
  PROVE  \/ Stage(n)' = Stage(n) /\ born'[n] = born[n]
         \/ Stage(n) = "absent" /\ Stage(n)' = "requested" /\ born'[n] = born[n] + 1
         \/ /\ born'[n] = born[n]
            /\ \/ Stage(n) = "requested" /\ Stage(n)' \in {"absent", "held"}
               \/ Stage(n) = "held" /\ Stage(n)' = "leaving"
               \/ Stage(n) = "leaving" /\ Stage(n)' = "absent"
<1>1. CASE Stays(n) BY <1>1, StageStays DEF Stays
<1>2. CASE Appears(n)
  <2>1. Stage(n) = "absent" BY <1>2 DEF Appears, Stage, Exists
  <2>2. Stage(n)' = "requested" BY <1>2, NoKmdIsNone DEF Appears, Stage, Exists
  <2>3. QED BY <1>2, <2>1, <2>2 DEF Appears
<1>3. CASE Disappears(n)
  <2>1. /\ api[n] # NoKmd /\ api'[n] = NoKmd /\ born'[n] = born[n]
        /\ api[n].deleting \/ api[n].finalizers = {}
    BY <1>3, NoKmdIsNone DEF Disappears
  <2>2. Stage(n)' = "absent" BY <2>1 DEF Stage, Exists
  <2>3. Stage(n) \in {"absent", "requested", "leaving"} BY <2>1 DEF Stage, Exists
  <2>4. QED BY <2>1, <2>2, <2>3
<1>4. CASE Changes(n)
  <2>1. /\ api[n] # NoKmd /\ api'[n] # NoKmd /\ born'[n] = born[n]
        /\ api[n].deleting \in BOOLEAN /\ api'[n].deleting \in BOOLEAN
        /\ FinalizersChange(n) /\ DeletionChanges(n)
    BY <1>4, NoKmdIsNone DEF Changes, Kmds
  <2> DEFINE kept == InstallerFinalizer \in api[n].finalizers
             keeps == InstallerFinalizer \in api'[n].finalizers
  <2>2. /\ Stage(n) = IF api[n].deleting THEN (IF kept THEN "leaving" ELSE "absent")
                      ELSE (IF kept THEN "held" ELSE "requested")
        /\ Stage(n)' = IF api'[n].deleting THEN (IF keeps THEN "leaving" ELSE "absent")
                       ELSE (IF keeps THEN "held" ELSE "requested")
    BY <2>1 DEF Stage, Exists
  <2>3. \/ keeps <=> kept
        \/ keeps /\ ~api'[n].deleting
        \/ ~keeps /\ api[n].deleting
    BY <2>1 DEF FinalizersChange
  <2>4. \/ api'[n].deleting = api[n].deleting
        \/ ~api[n].deleting /\ (keeps <=> kept)
    BY <2>1 DEF DeletionChanges
  <2> HIDE DEF kept, keeps
  <2>5. QED BY <2>1, <2>2, <2>3, <2>4
<1>5. QED BY <1>1, <1>2, <1>3, <1>4 DEF ObjectsStep

\* A step that leaves the releases alone.
LEMMA ObjectsImplement ==
  ASSUME TypeInv, TypeInv', ObjectsStep, OneObject, UNCHANGED release
  PROVE  [Life!Next]_(Life!lifeVars)
<1>1. RunningOf' = RunningOf BY DEF RunningOf, Running
<1>2. PICK n \in Names : \A m \in Names : m = n \/ Stays(m) BY DEF OneObject
<1>3. \A m \in Names : m # n => Stage(m)' = Stage(m) /\ born'[m] = born[m]
  BY <1>2, StageStays DEF Stays
<1>4. StageOf' = [StageOf EXCEPT ![n] = Stage(n)'] /\ StageOf[n] = Stage(n)
  BY <1>3, Maps
<1>5. born' = [born EXCEPT ![n] = born'[n]]
  <2>1. born \in [Names -> 0..MaxUid] /\ born' \in [Names -> 0..MaxUid]
    BY TypeParts DEF TypeInv, TypeOK, ApiTypeOK
  <2>2. QED BY <1>3, <2>1
<1>6. CASE Stage(n)' = Stage(n) /\ born'[n] = born[n]
  <2>1. StageOf' = StageOf
    <3>1. \A m \in Names : Stage(m)' = Stage(m) BY <1>3, <1>6
    <3>2. QED BY <3>1, Maps
  <2>2. born' = born
    <3>1. born \in [Names -> 0..MaxUid] BY TypeParts DEF ApiTypeOK
    <3>2. QED BY <1>5, <1>6, <3>1
  <2>3. QED BY <1>1, <2>1, <2>2 DEF Life!lifeVars
<1>7. CASE Stage(n) = "absent" /\ Stage(n)' = "requested" /\ born'[n] = born[n] + 1
  <2>1. Life!Request(n) BY <1>1, <1>4, <1>5, <1>7 DEF Life!Request, Life!Move
  <2>2. QED BY <2>1 DEF Life!Next
<1>8. CASE /\ born'[n] = born[n]
           /\ \/ Stage(n) = "requested" /\ Stage(n)' \in {"absent", "held"}
              \/ Stage(n) = "held" /\ Stage(n)' = "leaving"
              \/ Stage(n) = "leaving" /\ Stage(n)' = "absent"
  <2>1. born' = born
    <3>1. born \in [Names -> 0..MaxUid] BY TypeParts DEF ApiTypeOK
    <3>2. QED BY <1>5, <1>8, <3>1
  <2>2. Life!Change(n) BY <1>1, <1>4, <1>8, <2>1 DEF Life!Change, Life!Move
  <2>3. QED BY <2>2 DEF Life!Next
<1>9. QED BY <1>6, <1>7, <1>8, StageMoves

-----------------------------------------------------------------------------
\* When helm ends an installation well, nothing else happens to a release, and the
\* control plane is that of the last incarnation, which the finalizer keeps.
LEMMA DeployImplements ==
  ASSUME TypeInv, StoredIsLast, WorkerOK, WithinReach, ReleaseUnderWay, ReleasesStep,
         UNCHANGED <<api, born>>, NEW n \in Names, NEW ns \in Namespaces,
         ReleaseEnds(n, ns), release'[n][ns].status = "deployed"
  PROVE  Life!Next
<1>1. /\ work.pc = "helmWait" /\ work'.pc = "completed" /\ n = work.key /\ ns = work.kmd.spec.ns
      /\ release[n][ns] # NoRelease /\ release'[n][ns].uid = release[n][ns].uid
  BY DEF ReleaseEnds
<1>2. \A m \in Names, x \in Namespaces : ~(m = n /\ x = ns) => release'[m][x] = release[m][x]
  BY <1>1 DEF ReleasesStep, ReleaseStays, ReleaseStarts, ReleaseEnds, ReleaseGoes
<1>3. Held(n, work.kmd) BY <1>1, PcFacts DEF WorkerOK
<1>4. release[n][ns].uid = work.kmd.uid /\ release[n][ns].status = "pending"
  BY <1>1 DEF ReleaseUnderWay, OwnRelease
<1>5. release[n][ns].uid = born[n] BY <1>3, <1>4 DEF Held, StoredIsLast
<1>6. Running(n)' = Running(n) \cup {born[n]}
  <2>1. Running(n)' \subseteq Running(n) \cup {born[n]} BY <1>1, <1>2, <1>5 DEF Running
  <2>2. born[n] \in Running(n)' BY <1>1, <1>5 DEF Running
  <2>3. Running(n) \subseteq Running(n)'
    <3> SUFFICES ASSUME NEW x \in Namespaces, release[n][x].status = "deployed"
                 PROVE  release[n][x].uid \in Running(n)'
      BY DEF Running
    <3>1. x # ns BY <1>4
    <3>2. release'[n][x] = release[n][x] BY <1>2, <3>1
    <3>3. QED BY <3>2 DEF Running
  <2>4. QED BY <2>1, <2>2, <2>3
<1>7. \A m \in Names : m # n => Running(m)' = Running(m) BY <1>2 DEF Running
<1>8. RunningOf' = [RunningOf EXCEPT ![n] = @ \cup {born[n]}] BY <1>6, <1>7, Maps
<1>9. StageOf' = StageOf /\ born' = born BY DEF StageOf, Stage, Exists
<1>10. StageOf[n] \in {"held", "leaving"} BY <1>3, Maps DEF Held, Stage
<1>11. Life!Install(n) BY <1>8, <1>9, <1>10 DEF Life!Install
<1>12. QED BY <1>11 DEF Life!Next

\* Any other step of the releases takes control planes down, if anything: none that
\* a live object owns.
LEMMA TakeDownImplements ==
  ASSUME TypeInv, StoredIsLast, WorkerOK, GuardedByFinalizer, WithinReach, ReleaseUnderWay,
         NamespacesDisjoint, TerminatingUnowned, ReleasesStep, UNCHANGED <<api, born>>,
         \A n \in Names, ns \in Namespaces :
           ~(ReleaseEnds(n, ns) /\ release'[n][ns].status = "deployed")
  PROVE  Life!Next
<1>a. NoRelease.status # "deployed" BY DEF NoRelease
<1>1. \A n \in Names : Running(n)' \subseteq Running(n)
  <2> SUFFICES ASSUME NEW n \in Names, NEW ns \in Namespaces,
                      release'[n][ns].status = "deployed"
               PROVE  release'[n][ns].uid \in Running(n)
    BY DEF Running
  <2>1. ReleaseStays(n, ns)
    <3>1. ~ReleaseStarts(n, ns) BY DEF ReleaseStarts
    <3>2. ~ReleaseGoes(n, ns) BY <1>a DEF ReleaseGoes
    <3>3. QED BY <3>1, <3>2 DEF ReleasesStep
  <2>2. QED BY <2>1 DEF ReleaseStays, Running
<1>2. ASSUME NEW n \in Names, Stage(n) = "held", born[n] \in Running(n)
      PROVE  born[n] \in Running(n)'
  <2>1. Live(n) /\ api[n].uid = born[n] BY <1>2 DEF Stage, Live, StoredIsLast, Exists
  <2>2. PICK ns \in Namespaces : release[n][ns].status = "deployed" /\ release[n][ns].uid = born[n]
    BY <1>2 DEF Running
  <2>3. release[n][ns] # NoRelease BY <1>a, <2>2
  <2>4. release'[n][ns] = release[n][ns] BY <2>1, <2>2, <2>3, OwnedStays DEF Owns
  <2>5. QED BY <2>2, <2>4 DEF Running
<1>3. RunningOf' \in [Names -> SUBSET UNION {RunningOf[n] : n \in Names}]
  <2>1. \A n \in Names : RunningOf[n] = Running(n) BY Maps
  <2>2. \A n \in Names : RunningOf[n] \subseteq UNION {RunningOf[m] : m \in Names} OBVIOUS
  <2>3. QED BY <1>1, <2>1, <2>2, Maps
<1>4. \A n \in Names :
        /\ RunningOf'[n] \subseteq RunningOf[n]
        /\ StageOf[n] = "held" => RunningOf[n] \cap {born[n]} \subseteq RunningOf'[n]
  BY <1>1, <1>2, Maps
<1>5. StageOf' = StageOf /\ born' = born BY DEF StageOf, Stage, Exists
<1>6. Life!TakeDown BY <1>3, <1>4, <1>5 DEF Life!TakeDown
<1>7. QED BY <1>6 DEF Life!Next

-----------------------------------------------------------------------------
LEMMA LifeInit == Init => Life!Init
<1> SUFFICES ASSUME Init PROVE Life!Init
  OBVIOUS
<1>1. /\ api = [n \in Names |-> NoKmd] /\ born = [n \in Names |-> 0]
      /\ release = [n \in Names |-> [ns \in Namespaces |-> NoRelease]]
  BY DEF Init, ApiInit
<1>2. \A n \in Names : Stage(n) = "absent" BY <1>1 DEF Stage, Exists
<1>3. \A n \in Names : Running(n) = {} BY <1>1 DEF Running, NoRelease
<1>4. QED BY <1>1, <1>2, <1>3, Maps DEF Life!Init

\* A step with the effects of the installer is one of the lifecycle.
LEMMA LifeStep ==
  ASSUME OwnershipInv, NamespacesDisjoint, Effects, TypeInv'
  PROVE  [Life!Next]_(Life!lifeVars)
<1>1. /\ TypeInv /\ WorkerOK /\ GuardedByFinalizer /\ StoredIsLast
      /\ WithinReach /\ ReleaseUnderWay /\ TerminatingUnowned
  BY InvParts DEF OwnershipInv, IInv
<1>2. CASE UNCHANGED release BY <1>1, <1>2, ObjectsImplement DEF Effects
<1>3. CASE UNCHANGED <<api, born>>
  <2>1. CASE \E n \in Names, ns \in Namespaces :
               ReleaseEnds(n, ns) /\ release'[n][ns].status = "deployed"
    BY <1>1, <1>3, <2>1, DeployImplements DEF Effects
  <2>2. CASE \A n \in Names, ns \in Namespaces :
               ~(ReleaseEnds(n, ns) /\ release'[n][ns].status = "deployed")
    BY <1>1, <1>3, <2>2, TakeDownImplements DEF Effects
  <2>3. QED BY <2>1, <2>2
<1>4. QED BY <1>2, <1>3 DEF Effects

\* The installer controller implements the life of its objects, if no two names
\* share a namespace: an object is held before its control plane comes up, leaves
\* the operator's hands only through a deletion, and keeps its control plane while
\* nobody deletes it (syncHandler, installWorkflow, uninstallWorkflow).
THEOREM LifecycleImplemented ==
  ASSUME NamespacesDisjoint
  PROVE  Spec => Lifecycle
<1>1. OwnershipInv /\ [Next]_vars => [Life!Next]_(Life!lifeVars)
  <2> SUFFICES ASSUME OwnershipInv, [Next]_vars PROVE [Life!Next]_(Life!lifeVars)
    OBVIOUS
  <2>1. TypeInv' BY TypeNext, InvParts DEF OwnershipInv
  <2>2. QED BY <2>1, OwnedEffects, LifeStep
<1>2. QED BY <1>1, LifeInit, OwnershipInvariant, PTL DEF Spec, Lifecycle, Life!Spec
=============================================================================
