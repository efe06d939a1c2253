------------------------ MODULE InstallerStepProofs ------------------------
(***************************************************************************)
(* Every step of the installer, its users and the cluster has the effects   *)
(* that InstallerEffects lists: the one place where the proofs about        *)
(* ownership go through the actions.                                       *)
(***************************************************************************)
EXTENDS InstallerProofs, InstallerEffects

\* There is a name.
LEMMA SomeName == \E n \in Names : n \in Names
BY KmdApiAssumption, Zenon

-----------------------------------------------------------------------------
(* Objects *)

\* A step that leaves the objects alone.
LEMMA ObjectsStay ==
  ASSUME UNCHANGED <<api, born>>, \A n \in Names : Versions(n)' \subseteq Versions(n) \cup {NoKmd}
  PROVE  ObjectsStep /\ OneObject
<1>1. \A n \in Names : Stays(n) BY DEF Stays
<1>2. OneObject BY <1>1, SomeName DEF OneObject
<1>3. QED BY <1>1, <1>2 DEF ObjectsStep

LEMMA ApiStays ==
  ASSUME UNCHANGED apiVars
  PROVE  ObjectsStep /\ OneObject
<1>1. UNCHANGED <<api, watch, cache, born>> BY DEF apiVars
<1>2. \A n \in Names : Versions(n)' = Versions(n) BY <1>1 DEF Versions
<1>3. QED BY <1>1, <1>2, ObjectsStay

\* A write of one object.
LEMMA WriteEffect ==
  ASSUME TypeInv, NEW n \in Names, NEW obj \in Kmds \cup {NoKmd}, Write(n, obj), UNCHANGED cache,
         \A m \in Names : m # n => born'[m] = born[m],
         api'[n] = obj => Stays(n) \/ Appears(n) \/ Disappears(n) \/ Changes(n)
  PROVE  ObjectsStep /\ OneObject
<1>1. /\ api' = [api EXCEPT ![n] = obj]
      /\ \A m \in Names : m # n => Versions(m)' = Versions(m)
      /\ Versions(n)' \subseteq Versions(n) \cup {obj}
  BY VersionsWrite
<1>2. api'[n] = obj /\ \A m \in Names : m # n => api'[m] = api[m]
  BY <1>1, TypeParts DEF ApiTypeOK
<1>3. \A m \in Names : m # n => Stays(m) BY <1>2 DEF Stays
<1>4. OneObject BY <1>3 DEF OneObject
<1>5. ObjectsStep
  <2> SUFFICES ASSUME NEW m \in Names
               PROVE  /\ Versions(m)' \subseteq Versions(m) \cup {api'[m], NoKmd}
                      /\ Stays(m) \/ Appears(m) \/ Disappears(m) \/ Changes(m)
    BY DEF ObjectsStep
  <2>1. CASE m = n BY <1>1, <1>2, <2>1
  <2>2. CASE m # n BY <1>1, <1>3, <2>2
  <2>3. QED BY <2>1, <2>2
<1>6. QED BY <1>4, <1>5

\* Users.
LEMMA UserEffect ==
  ASSUME TypeInv, NEW n \in Names, Create(n) \/ EditSpec(n) \/ EditLabel(n) \/ Delete(n)
  PROVE  ObjectsStep /\ OneObject
<1>a. api[n] \in Kmds \cup {NoKmd} BY TypeParts DEF ApiTypeOK
<1>b. /\ UNCHANGED cache
      /\ \A m \in Names : m # n => born'[m] = born[m]
  BY TypeParts DEF Create, EditSpec, EditLabel, Delete, ApiTypeOK
<1>1. CASE Create(n)
  <2>1. PICK spec \in UserSpecs(n), label \in UserLabels :
          Write(n, [uid |-> born[n] + 1, gen |-> 1, deleting |-> FALSE, label |-> label,
                    finalizers |-> {}, spec |-> spec, status |-> NewStatus])
    BY <1>1 DEF Create
  <2> DEFINE obj == [uid |-> born[n] + 1, gen |-> 1, deleting |-> FALSE, label |-> label,
                     finalizers |-> {}, spec |-> spec, status |-> NewStatus]
  <2>2. api[n] = NoKmd /\ born'[n] = born[n] + 1
    BY <1>1, TypeParts DEF Create, Exists, ApiTypeOK
  <2>3. /\ obj.uid = born[n] + 1 /\ obj.finalizers = {} /\ ~obj.deleting
        /\ obj.status = NewStatus /\ obj.spec = spec
    OBVIOUS
  <2>4. obj \in Kmds
    <3>1. spec \in Specs /\ label \in Labels BY KmdApiAssumption DEF UserSpecs, Specs
    <3>2. NewStatus \in Statuses BY DEF NewStatus, Statuses, Phases, Reasons
    <3>3. born[n] + 1 \in Nat BY Numbers
    <3>4. QED BY <3>1, <3>2, <3>3 DEF Kmds
  <2>5. spec.ns \in Reach(n) \cup {""} BY DEF UserSpecs, Reach
  <2> HIDE DEF obj
  <2>6. Write(n, obj) BY <2>1 DEF obj
  <2>7. api'[n] = obj => Appears(n) BY <2>2, <2>3, <2>4, <2>5 DEF Appears
  <2>8. QED BY <1>b, <2>4, <2>6, <2>7, WriteEffect
<1>2. CASE EditSpec(n)
  <2>1. PICK spec \in UserSpecs(n) :
          /\ \A f \in {"mode", "ns", "images"} \ EditableFields : spec[f] = api[n].spec[f]
          /\ Write(n, [api[n] EXCEPT !.spec = spec, !.gen = @ + 1])
    BY <1>2 DEF EditSpec
  <2> DEFINE obj == [api[n] EXCEPT !.spec = spec, !.gen = @ + 1]
  <2>2. api[n] \in Kmds /\ spec \in Specs /\ UNCHANGED born
    BY <1>2, <1>a, KmdApiAssumption DEF EditSpec, Exists, UserSpecs, Specs
  <2>3. /\ obj \in Kmds
        /\ obj.uid = api[n].uid /\ obj.deleting = api[n].deleting
        /\ obj.finalizers = api[n].finalizers /\ obj.status = api[n].status
        /\ obj.spec = spec
    BY <2>2, EditedType DEF Kmds
  <2>4. spec.ns \in Reach(n) \cup {""} BY DEF UserSpecs, Reach
  <2>5. NamespaceFixed => spec.ns = api[n].spec.ns BY <2>1 DEF NamespaceFixed
  <2> HIDE DEF obj
  <2>6. Write(n, obj) BY <2>1 DEF obj
  <2>7. api'[n] = obj => Changes(n)
    BY <2>2, <2>3, <2>4, <2>5
       DEF Changes, NamespaceChanges, FinalizersChange, DeletionChanges, StatusChanges
  <2>8. QED BY <1>b, <2>3, <2>6, <2>7, WriteEffect
<1>3. CASE EditLabel(n)
  <2>1. PICK label \in UserLabels : Write(n, [api[n] EXCEPT !.label = label])
    BY <1>3 DEF EditLabel
  <2> DEFINE obj == [api[n] EXCEPT !.label = label]
  <2>2. api[n] \in Kmds /\ label \in Labels /\ UNCHANGED born
    BY <1>3, <1>a, KmdApiAssumption DEF EditLabel, Exists
  <2>3. /\ obj \in Kmds
        /\ obj.uid = api[n].uid /\ obj.deleting = api[n].deleting
        /\ obj.finalizers = api[n].finalizers /\ obj.status = api[n].status
        /\ obj.spec = api[n].spec
    BY <2>2 DEF Kmds
  <2> HIDE DEF obj
  <2>4. Write(n, obj) BY <2>1 DEF obj
  <2>5. api'[n] = obj => Changes(n)
    BY <2>2, <2>3
       DEF Changes, NamespaceChanges, FinalizersChange, DeletionChanges, StatusChanges
  <2>6. QED BY <1>b, <2>3, <2>4, <2>5, WriteEffect
<1>4. CASE Delete(n) /\ api[n].finalizers = {}
  <2>1. Write(n, NoKmd) /\ UNCHANGED born /\ api[n] \in Kmds
    BY <1>4, <1>a DEF Delete, Live, Exists
  <2>2. api'[n] = NoKmd => Disappears(n) BY <1>4, <2>1 DEF Disappears
  <2>3. QED BY <1>b, <2>1, <2>2, WriteEffect
<1>5. CASE Delete(n) /\ api[n].finalizers # {}
  <2> DEFINE obj == [api[n] EXCEPT !.deleting = TRUE, !.gen = @ + 1]
  <2>1. Write(n, obj) /\ UNCHANGED born /\ api[n] \in Kmds /\ ~api[n].deleting
    BY <1>5, <1>a DEF Delete, Live, Exists
  <2>2. /\ obj \in Kmds /\ obj.uid = api[n].uid
        /\ obj.finalizers = api[n].finalizers /\ obj.status = api[n].status
        /\ obj.spec = api[n].spec
    BY <2>1, MarkedType DEF Kmds
  <2> HIDE DEF obj
  <2>3. api'[n] = obj => Changes(n)
    BY <1>5, <2>1, <2>2
       DEF Changes, NamespaceChanges, FinalizersChange, DeletionChanges, StatusChanges
  <2>4. QED BY <1>b, <2>1, <2>2, <2>3, WriteEffect
<1>6. QED BY <1>1, <1>2, <1>3, <1>4, <1>5

\* A status that the worker sets, or fails to set.
LEMMA StatusEffect ==
  ASSUME TypeInv, NEW s \in Statuses, work.key \in Names, work.pc \in StatusPcs,
         Weaker(s, work.kmd.status),
         StatusSet(s) \/ StatusNotSet \/ UNCHANGED <<api, watch>>, UNCHANGED <<cache, born>>
  PROVE  ObjectsStep /\ OneObject
<1>1. CASE StatusSet(s)
  <2> DEFINE obj == [api[key] EXCEPT !.status = s]
  <2>1. Write(key, obj) /\ api[key] \in Kmds
    BY <1>1, TypeParts DEF StatusSet, SetStatus, Exists, ApiTypeOK, key
  <2>2. /\ obj \in Kmds /\ obj.uid = api[key].uid /\ obj.deleting = api[key].deleting
        /\ obj.finalizers = api[key].finalizers /\ obj.spec = api[key].spec
        /\ obj.status = s
    BY <2>1, KmdWithStatus
  <2> HIDE DEF obj
  <2>3. api'[key] = obj => Changes(key)
    BY <2>1, <2>2
       DEF key, Changes, NamespaceChanges, FinalizersChange, DeletionChanges, StatusChanges
  <2>4. QED BY <2>1, <2>2, <2>3, WriteEffect DEF key
<1>2. CASE UNCHANGED <<api, watch>> BY <1>2, ApiStays DEF apiVars
<1>3. QED BY <1>1, <1>2 DEF StatusNotSet

\* The defaults that the worker stores in the object.
LEMMA SyncInstallEffect ==
  ASSUME TypeInv, SyncInstall
  PROVE  /\ ObjectsStep /\ OneObject
         /\ TakesCopy
<1>0. PICK n \in Names : n = work.key BY WorkerHas DEF SyncInstall
<1>1. PICK ns \in RandomNamespaces[n] :
        /\ GotoWith("observe", Defaulted(cache[n], ns))
        /\ IF IsUpdate(cache[n])
           THEN Fresh(n) /\ Update(n, Defaulted(cache[n], ns))
           ELSE UNCHANGED <<api, watch>>
  BY <1>0 DEF SyncInstall, key
<1>2. /\ cache[n] \in Kmds /\ ~cache[n].deleting /\ work.pc = "sync"
      /\ UNCHANGED <<cache, born>>
  BY <1>0, TypeParts DEF SyncInstall, key, ApiTypeOK
<1>3. PICK obj \in Kmds : obj = Defaulted(cache[n], ns) BY <1>2, DefaultedType
<1>4. /\ obj.uid = cache[n].uid /\ ~obj.deleting
      /\ obj.finalizers = cache[n].finalizers \cup {InstallerFinalizer}
      /\ obj.status = cache[n].status
      /\ obj.spec.ns = IF cache[n].spec.ns = "" THEN ns ELSE cache[n].spec.ns
  <2> DEFINE k == cache[n]
  <2>1. k \in Kmds BY <1>2
  <2> HIDE DEF k
  <2>2. /\ Defaulted(k, ns).uid = k.uid
        /\ Defaulted(k, ns).deleting = k.deleting
        /\ Defaulted(k, ns).finalizers = k.finalizers \cup {InstallerFinalizer}
        /\ Defaulted(k, ns).status = k.status
        /\ Defaulted(k, ns).spec.ns = IF k.spec.ns = "" THEN ns ELSE k.spec.ns
    BY <2>1, DefaultedType
  <2>3. obj = Defaulted(k, ns) BY <1>3 DEF k
  <2>4. k = cache[n] BY DEF k
  <2>5. QED BY <1>2, <2>2, <2>3, <2>4
<1>5. work'.pc = "observe" /\ work'.key = n /\ work'.kmd = obj
  <2>1. "observe" \in Pcs BY DEF Pcs, InstallPcs
  <2>2. QED BY <1>0, <1>1, <1>3, <2>1, TypeParts, GotoWithType
<1>6. ns \in Namespaces /\ ns # ""
  BY KmdApiAssumption
<1>7. CASE IsUpdate(cache[n])
  <2>1. Fresh(n) /\ Update(n, obj) BY <1>1, <1>3, <1>7
  <2>2. api[n] = cache[n] BY <2>1, FreshIsStored
  <2>3. PICK new \in Kmds :
          /\ Write(n, new)
          /\ new.uid = obj.uid /\ ~new.deleting /\ new.finalizers = obj.finalizers
          /\ new.spec = obj.spec /\ new.status = api[n].status
    <3>1. api[n] \in Kmds /\ UNCHANGED cache BY <1>2, <2>2
    <3>2. PICK new \in Kmds \cup {NoKmd} :
            /\ Write(n, new)
            /\ \/ new = NoKmd /\ obj.deleting /\ obj.finalizers = {}
               \/ /\ new \in Kmds /\ new.uid = obj.uid /\ new.deleting = obj.deleting
                  /\ new.finalizers = obj.finalizers
                  /\ new.spec = obj.spec /\ new.status = api[n].status
      BY <2>1, <3>1, UpdateOK, TypeParts
    <3>3. QED BY <1>4, <3>2
  <2>4. obj.spec.ns # "" BY <1>4, <1>6
  <2>5. api'[n] = new => Changes(n)
    <3> SUFFICES ASSUME api'[n] = new PROVE Changes(n)
      OBVIOUS
    <3>1. NamespaceChanges(n) BY <1>2, <1>4, <2>1, <2>2, <2>3 DEF NamespaceChanges
    <3>2. FinalizersChange(n) BY <1>4, <2>2, <2>3, <2>4 DEF FinalizersChange
    <3>3. DeletionChanges(n) BY <1>2, <2>2, <2>3, TypeParts DEF DeletionChanges, Kmds
    <3>4. StatusChanges(n) BY <2>3 DEF StatusChanges
    <3>5. QED BY <1>2, <1>4, <2>2, <2>3, <3>1, <3>2, <3>3, <3>4 DEF Changes
  <2>6. ObjectsStep /\ OneObject BY <1>2, <2>3, <2>5, WriteEffect
  <2>7. api'[n] = new
    <3>1. api' = [api EXCEPT ![n] = new] BY <1>2, <2>3, VersionsWrite
    <3>2. QED BY <3>1, TypeParts DEF ApiTypeOK
  <2>8. TakesCopy BY <1>0, <1>2, <1>4, <1>5, <2>1, <2>3, <2>7 DEF TakesCopy
  <2>9. QED BY <2>6, <2>8
<1>8. CASE ~IsUpdate(cache[n])
  <2>1. UNCHANGED apiVars BY <1>1, <1>2, <1>8 DEF apiVars
  <2>2. UNCHANGED api BY <2>1 DEF apiVars
  <2>3. InstallerFinalizer \in cache[n].finalizers BY <1>8 DEF IsUpdate
  <2>4. TakesCopy BY <1>0, <1>2, <1>4, <1>5, <2>2, <2>3 DEF TakesCopy
  <2>5. QED BY <2>1, <2>4, ApiStays
<1>9. QED BY <1>7, <1>8

\* The finalizer that the worker removes from the object.
LEMMA RemoveFinalizerEffect ==
  ASSUME TypeInv, WorkerOK, RemoveFinalizer
  PROVE  ObjectsStep /\ OneObject
<1>0. PICK n \in Names : n = work.key BY WorkerHas DEF RemoveFinalizer
<1>1. /\ work.pc = "finalize" /\ Fresh(n) /\ cache[n] # NoKmd
      /\ InstallerFinalizer \in cache[n].finalizers
      /\ Update(n, [cache[n] EXCEPT !.finalizers = @ \ {InstallerFinalizer}])
      /\ UNCHANGED <<cache, born>>
  BY <1>0 DEF RemoveFinalizer, key
<1>2. api[n] = cache[n] BY <1>1, FreshIsStored
<1>3. api[n] \in Kmds BY <1>1, <1>2, TypeParts DEF ApiTypeOK
<1>4. api[n].deleting
  BY <1>0, <1>1, <1>2 DEF WorkerOK, Unguarded, Live, Exists
<1>5. PICK obj \in Kmds : obj = [cache[n] EXCEPT !.finalizers = @ \ {InstallerFinalizer}]
  BY <1>2, <1>3, FinalizersType
<1>6. /\ obj.uid = api[n].uid /\ obj.deleting = api[n].deleting /\ obj.spec = api[n].spec
      /\ obj.finalizers = api[n].finalizers \ {InstallerFinalizer}
  BY <1>2, <1>3, <1>5, FinalizersType DEF Kmds
<1>7. PICK new \in Kmds \cup {NoKmd} :
        /\ Write(n, new)
        /\ \/ new = NoKmd /\ obj.finalizers = {}
           \/ /\ new \in Kmds /\ new.uid = obj.uid /\ new.deleting = obj.deleting
              /\ new.finalizers = obj.finalizers /\ new.finalizers # {}
              /\ new.spec = obj.spec /\ new.status = api[n].status
  <2>1. Update(n, obj) BY <1>1, <1>5
  <2>2. PICK new \in Kmds \cup {NoKmd} :
          /\ Write(n, new)
          /\ \/ new = NoKmd /\ obj.deleting /\ obj.finalizers = {}
             \/ /\ new \in Kmds /\ new.uid = obj.uid /\ new.deleting = obj.deleting
                /\ new.finalizers = obj.finalizers /\ ~(obj.deleting /\ obj.finalizers = {})
                /\ new.spec = obj.spec /\ new.status = api[n].status
    BY <1>1, <1>3, <2>1, UpdateOK, TypeParts
  <2>3. QED BY <1>4, <1>6, <2>2
<1>8. api'[n] = new => Disappears(n) \/ Changes(n)
  BY <1>0, <1>1, <1>3, <1>4, <1>6, <1>7
     DEF Finalizing, Disappears, Changes, NamespaceChanges, FinalizersChange, DeletionChanges, StatusChanges
<1>9. QED BY <1>1, <1>7, <1>8, WriteEffect

-----------------------------------------------------------------------------
(* The cluster and the worker *)

\* A step that leaves the releases, the namespaces and the secrets alone.
LEMMA ExtStays ==
  ASSUME UNCHANGED extVars
  PROVE  ReleasesStep /\ NamespacesStep /\ SecretsStep
<1>1. UNCHANGED <<release, nsState, secrets>> BY DEF extVars
<1>2. ReleasesStep BY <1>1 DEF ReleasesStep, ReleaseStays
<1>3. NamespacesStep BY <1>1 DEF NamespacesStep
<1>4. SecretsStep BY <1>1 DEF SecretsStep
<1>5. QED BY <1>2, <1>3, <1>4

\* One that leaves only one of them alone.
LEMMA PartStays ==
  /\ UNCHANGED release => ReleasesStep
  /\ UNCHANGED nsState => NamespacesStep
  /\ UNCHANGED secrets => SecretsStep
BY DEF ReleasesStep, ReleaseStays, NamespacesStep, SecretsStep

\* One release changes.
LEMMA OneRelease ==
  ASSUME TypeInv, NEW n \in Names, NEW ns \in Namespaces, NEW rel,
         release' = [release EXCEPT ![n][ns] = rel]
  PROVE  /\ release'[n][ns] = rel
         /\ \A m \in Names, x \in Namespaces : ~(m = n /\ x = ns) => release'[m][x] = release[m][x]
BY TypeParts DEF ExtTypeOK

\* Nothing changes a release outside the namespaces.
LEMMA NoNamespace ==
  ASSUME TypeInv, NEW n \in Names, NEW ns, ns \notin Namespaces, NEW rel,
         release' = [release EXCEPT ![n][ns] = rel]
  PROVE  release' = release
<1>1. release \in [Names -> [Namespaces -> Releases]] BY TypeParts DEF ExtTypeOK
<1>2. [release[n] EXCEPT ![ns] = rel] = release[n] BY <1>1
<1>3. release' = [release EXCEPT ![n] = [release[n] EXCEPT ![ns] = rel]] OBVIOUS
<1>4. QED BY <1>1, <1>2, <1>3

\* What the workflow registers claims no more than the copy did, or what it has
\* just achieved.
LEMMA Registered ==
  ASSUME NEW k \in Kmds
  PROVE  /\ \A r \in Reasons : Weaker(WithReason(k, r).status, k.status)
         /\ \A ph \in Phases : ph # "Completed" \/ k.status.phase = "Completed" =>
              Weaker([k EXCEPT !.status.phase = ph].status, k.status)
         /\ Weaker(WithReason([k EXCEPT !.status.obsGen = k.gen], "Progressing").status, k.status)
         /\ LET done == [k EXCEPT !.status.secret = k.uid, !.status.cpr = TRUE,
                                  !.status.phase = "Completed"]
            IN  done.status.phase = "Completed" /\ done.status.secret = k.uid
<1>1. k.status \in Statuses /\ k.gen \in Nat BY DEF Kmds
<1>2. \A r \in Reasons : WithReason(k, r).status = [k.status EXCEPT !.ready = r]
  BY DEF WithReason, Kmds
<1>3. \A ph \in Phases : [k EXCEPT !.status.phase = ph].status = [k.status EXCEPT !.phase = ph]
  BY DEF Kmds
<1>4. WithReason([k EXCEPT !.status.obsGen = k.gen], "Progressing").status
        = [k.status EXCEPT !.obsGen = k.gen, !.ready = "Progressing"]
  BY DEF WithReason, Kmds
<1>5. [k EXCEPT !.status.secret = k.uid, !.status.cpr = TRUE, !.status.phase = "Completed"].status
        = [k.status EXCEPT !.secret = k.uid, !.cpr = TRUE, !.phase = "Completed"]
  BY DEF Kmds
<1>6. \A r \in Reasons : Weaker(WithReason(k, r).status, k.status)
  BY <1>1, <1>2 DEF Weaker, Statuses
<1>7. \A ph \in Phases : ph # "Completed" \/ k.status.phase = "Completed" =>
        Weaker([k EXCEPT !.status.phase = ph].status, k.status)
  BY <1>1, <1>3 DEF Weaker, Statuses
<1>8. Weaker(WithReason([k EXCEPT !.status.obsGen = k.gen], "Progressing").status, k.status)
  BY <1>1, <1>4 DEF Weaker, Statuses
<1>9. /\ [k.status EXCEPT !.secret = k.uid, !.cpr = TRUE, !.phase = "Completed"].phase = "Completed"
      /\ [k.status EXCEPT !.secret = k.uid, !.cpr = TRUE, !.phase = "Completed"].secret = k.uid
  BY <1>1 DEF Statuses
<1>10. QED BY <1>5, <1>6, <1>7, <1>8, <1>9

\* Where the worker goes.
LEMMA Goes ==
  ASSUME TypeInv, NEW pc \in Pcs
  PROVE  /\ Goto(pc) => /\ work'.pc = pc /\ work'.key = work.key
                        /\ work'.kmd = work.kmd /\ work'.ns = work.ns
         /\ \A obj \in Kmds : GotoWith(pc, obj) =>
              /\ work'.pc = pc /\ work'.key = work.key
              /\ work'.kmd = obj /\ work'.ns = work.ns
<1>1. work \in WorkType BY TypeParts
<1>2. \A k \in Kmds \cup {NoKmd} :
        LET w == [work EXCEPT !.pc = pc, !.kmd = k]
        IN  w.pc = pc /\ w.key = work.key /\ w.kmd = k /\ w.ns = work.ns
  BY <1>1 DEF WorkType
<1>3. LET w == [work EXCEPT !.pc = pc]
      IN  w.pc = pc /\ w.key = work.key /\ w.kmd = work.kmd /\ w.ns = work.ns
  BY <1>1 DEF WorkType
<1>4. ASSUME NEW obj \in Kmds, GotoWith(pc, obj)
      PROVE  work'.pc = pc /\ work'.key = work.key /\ work'.kmd = obj /\ work'.ns = work.ns
  BY <1>2, <1>4 DEF GotoWith
<1>5. ASSUME Goto(pc)
      PROVE  work'.pc = pc /\ work'.key = work.key /\ work'.kmd = work.kmd /\ work'.ns = work.ns
  BY <1>3, <1>5 DEF Goto
<1>6. QED BY <1>4, <1>5

\* A failure to report.
LEMMA ReportGoes ==
  ASSUME TypeInv, NEW r \in Reasons, Report(r), work.pc \in InstallPcs \cup UninstallPcs
  PROVE  Reports
<1>1. work.kmd \in Kmds BY WorkerHas
<1>2. GotoWith("report", WithReason(work.kmd, r)) BY DEF Report, kmd
<1>3. WithReason(work.kmd, r) \in Kmds BY <1>1, WithReasonType DEF SameBut
<1>4. "report" \in Pcs BY PcSets
<1>5. QED BY <1>1, <1>2, <1>3, <1>4, Goes, Registered DEF Reports

-----------------------------------------------------------------------------
(* The steps *)

\* A step of nobody but the worker, of which only its own move is left to say.
LEMMA WorkerMoves ==
  ASSUME UNCHANGED <<apiVars, extVars>>, WorkStep
  PROVE  Effects
<1>1. UNCHANGED apiVars /\ UNCHANGED extVars OBVIOUS
<1>2. UNCHANGED release BY <1>1 DEF extVars
<1>3. QED BY <1>1, <1>2, ApiStays, ExtStays DEF Effects

\* Users, the informer, timers and the cluster.
LEMMA OthersEffect ==
  ASSUME TypeInv,
         \/ UserStep /\ UNCHANGED <<ctlVars, extVars, faults>>
         \/ \E n \in Names : InformerEvent(n) \/ BackoffElapses(n)
         \/ \E ns \in Namespaces : NamespaceGone(ns)
         \/ \E s \in secrets : SecretCollected(s[1], s[2])
  PROVE  Effects
<1>1. CASE UserStep /\ UNCHANGED <<ctlVars, extVars, faults>>
  <2>1. ObjectsStep /\ OneObject BY <1>1, UserEffect DEF UserStep
  <2>2. WorkStep BY <1>1 DEF ctlVars, WorkStep, WorkStays
  <2>3. UNCHANGED extVars /\ UNCHANGED release BY <1>1 DEF extVars
  <2>4. QED BY <2>1, <2>2, <2>3, ExtStays DEF Effects
<1>2. ASSUME NEW n \in Names, InformerEvent(n) PROVE Effects
  <2>1. Deliver(n) /\ UNCHANGED <<api, born, work, extVars>> BY <1>2 DEF InformerEvent, Deliver
  <2>2. \A m \in Names : Versions(m)' \subseteq Versions(m) BY <2>1, VersionsDeliver
  <2>3. ObjectsStep /\ OneObject BY <2>1, <2>2, ObjectsStay
  <2>4. WorkStep BY <2>1 DEF WorkStep, WorkStays
  <2>5. UNCHANGED extVars /\ UNCHANGED release BY <2>1 DEF extVars
  <2>6. QED BY <2>3, <2>4, <2>5, ExtStays DEF Effects
<1>3. ASSUME NEW n \in Names, BackoffElapses(n) PROVE Effects
  <2>1. UNCHANGED <<apiVars, extVars>> /\ WorkStep BY <1>3 DEF BackoffElapses, WorkStep, WorkStays
  <2>2. QED BY <2>1, WorkerMoves
<1>4. ASSUME NEW ns \in Namespaces, NamespaceGone(ns) PROVE Effects
  <2>1. /\ release' = [n \in Names |-> [release[n] EXCEPT ![ns] = NoRelease]]
        /\ nsState[ns] = "terminating" /\ nsState' = [nsState EXCEPT ![ns] = "absent"]
        /\ UNCHANGED apiVars /\ UNCHANGED <<work, secrets>>
    BY <1>4 DEF NamespaceGone, ctlVars
  <2>2. /\ \A n \in Names : release'[n][ns] = NoRelease
        /\ \A n \in Names, x \in Namespaces : x # ns => release'[n][x] = release[n][x]
        /\ nsState'[ns] = "absent" /\ \A x \in Namespaces : x # ns => nsState'[x] = nsState[x]
    BY <2>1, TypeParts DEF ExtTypeOK
  <2>3. ReleasesStep BY <2>1, <2>2 DEF ReleasesStep, ReleaseStays, ReleaseGoes
  <2>4. NamespacesStep BY <2>1, <2>2 DEF NamespacesStep
  <2>5. WorkStep BY <2>1 DEF WorkStep, WorkStays
  <2>6. UNCHANGED <<api, born>> BY <2>1 DEF apiVars
  <2>7. QED BY <2>1, <2>3, <2>4, <2>5, <2>6, ApiStays, PartStays DEF Effects
<1>5. ASSUME NEW s \in secrets, SecretCollected(s[1], s[2]) PROVE Effects
  <2>1. /\ Exists(s[1]) => api[s[1]].uid # s[2]
        /\ secrets' = secrets \ {<<s[1], s[2]>>}
        /\ UNCHANGED apiVars /\ UNCHANGED <<work, release, nsState>>
    BY <1>5 DEF SecretCollected, ctlVars
  <2>2. SecretsStep
    <3> SUFFICES ASSUME NEW n \in Names, NEW uid \in Nat, <<n, uid>> \in secrets,
                        <<n, uid>> \notin secrets'
                 PROVE  Exists(n) => api[n].uid # uid
      BY DEF SecretsStep
    <3>1. n = s[1] /\ uid = s[2] BY <2>1
    <3>2. QED BY <2>1, <3>1
  <2>3. WorkStep BY <2>1 DEF WorkStep, WorkStays
  <2>4. UNCHANGED <<api, born>> BY <2>1 DEF apiVars
  <2>5. QED BY <2>1, <2>2, <2>3, <2>4, ApiStays, PartStays DEF Effects
<1>6. QED BY <1>1, <1>2, <1>3, <1>4, <1>5

\* Taking a key and giving it back.
LEMMA QueueEffect ==
  ASSUME TypeInv, TakeKey \/ Succeed \/ Retry \/ Drop
  PROVE  Effects
<1>1. UNCHANGED <<apiVars, extVars>> BY DEF TakeKey, Succeed, Retry, Drop
<1>2. \/ work' = Idle
      \/ work' = [Idle EXCEPT !.pc = "sync", !.key = Head(wq.queue)]
  BY DEF TakeKey, Succeed, Retry, Drop
<1>3. \A h : LET w == [Idle EXCEPT !.pc = "sync", !.key = h] IN w.pc = "sync" /\ w.ns = ""
  BY DEF Idle
<1>4. WorkStep BY <1>2, <1>3, IdleType DEF WorkStep
<1>5. QED BY <1>1, <1>4, WorkerMoves

\* A process that starts.
LEMMA RestartEffect ==
  ASSUME TypeInv, Restart
  PROVE  Effects
<1>1. Relist /\ work' = Idle /\ UNCHANGED extVars BY DEF Restart
<1>2. UNCHANGED <<api, born>> BY <1>1 DEF Relist
<1>3. \A m \in Names : Versions(m)' \subseteq Versions(m) \cup {NoKmd} BY <1>1, VersionsRelist
<1>4. WorkStep BY <1>1, IdleType DEF WorkStep
<1>5. QED BY <1>1, <1>2, <1>3, <1>4, ObjectsStay, ExtStays DEF Effects

\* syncHandler.
LEMMA HandlerEffect ==
  ASSUME TypeInv, WorkerOK,
         \/ SyncGone \/ SyncDeleted \/ SyncInstall \/ SyncInstallFails
         \/ NothingToFinalize \/ RemoveFinalizer \/ RemoveFinalizerFails
  PROVE  Effects
<1>1. CASE SyncGone \/ NothingToFinalize \/ SyncInstallFails
  <2>1. Goto("ok") \/ Goto("failed") BY <1>1 DEF SyncGone, NothingToFinalize, SyncInstallFails
  <2>2. UNCHANGED <<apiVars, extVars>>
    BY <1>1 DEF SyncGone, NothingToFinalize, SyncInstallFails
  <2>3. WorkStep BY <2>1, Goes, PcSets DEF WorkStep
  <2>4. QED BY <2>2, <2>3, WorkerMoves
<1>2. CASE SyncDeleted
  <2>0. PICK n \in Names : n = work.key BY <1>2, WorkerHas DEF SyncDeleted
  <2> DEFINE pc == IF Uninstallable(cache[n]) THEN "uninstall" ELSE "finalize"
  <2>1. /\ work.pc = "sync" /\ cache[n] # NoKmd /\ UNCHANGED <<apiVars, extVars>>
        /\ GotoWith(pc, cache[n])
    BY <1>2, <2>0 DEF SyncDeleted, key, Uninstallable
  <2>2. pc \in Pcs BY PcSets
  <2>3. cache[n] \in Kmds BY <2>1, TypeParts DEF ApiTypeOK
  <2>4. /\ work'.pc = pc /\ work'.key = work.key
        /\ work'.kmd = cache[n] /\ work'.ns = work.ns
    <3> HIDE DEF pc
    <3>1. QED BY <2>1, <2>2, <2>3, Goes
  <2>5. TakesDeleted BY <2>0, <2>1, <2>3, <2>4 DEF TakesDeleted
  <2>6. QED BY <2>1, <2>5, WorkerMoves DEF WorkStep
<1>3. CASE SyncInstall
  <2>1. UNCHANGED extVars /\ UNCHANGED release BY <1>3 DEF SyncInstall, extVars
  <2>2. QED BY <1>3, <2>1, SyncInstallEffect, ExtStays DEF Effects, WorkStep
<1>4. CASE RemoveFinalizer
  <2>1. UNCHANGED extVars /\ UNCHANGED release /\ Goto("ok") BY <1>4 DEF RemoveFinalizer, extVars
  <2>2. WorkStep BY <2>1, Goes, PcSets DEF WorkStep
  <2>3. QED BY <1>4, <2>1, <2>2, RemoveFinalizerEffect, ExtStays DEF Effects
<1>5. CASE RemoveFinalizerFails
  <2>1. /\ UNCHANGED <<apiVars, extVars>> /\ work.pc = "finalize"
        /\ Goto("failed") \/ work' = [work EXCEPT !.tries = @ + 1]
    BY <1>5 DEF RemoveFinalizerFails
  <2>2. CASE Goto("failed")
    <3>1. WorkStep BY <2>2, Goes, PcSets DEF WorkStep
    <3>2. QED BY <2>1, <3>1, WorkerMoves
  <2>3. CASE work' = [work EXCEPT !.tries = @ + 1]
    <3>1. /\ work'.pc = "finalize" /\ work'.key = work.key
          /\ work'.kmd = work.kmd /\ work'.ns = work.ns
      BY <2>1, <2>3, TypeParts DEF WorkType
    <3>2. UNCHANGED <<release, nsState>> BY <2>1 DEF extVars
    <3>3. Finalizes BY <2>1, <3>1, <3>2 DEF Finalizes
    <3>4. QED BY <2>1, <3>3, WorkerMoves DEF WorkStep
  <2>4. QED BY <2>1, <2>2, <2>3
<1>6. QED BY <1>1, <1>2, <1>3, <1>4, <1>5

\* A step that registers a status and goes on with the copy, or fails.
LEMMA RegistersEffect ==
  ASSUME TypeInv, work.key \in Names, work.kmd \in Kmds, work.pc \in StatusPcs,
         NEW obj, SameBut(obj, work.kmd), Weaker(obj.status, work.kmd.status),
         StatusSet(obj.status) \/ StatusNotSet \/ UNCHANGED <<api, watch>>,
         NEW pc \in Pcs, GotoWith(pc, obj) \/ Goto("failed"),
         pc \in {"ok", "failed"} \/
           (work.pc \in InstallPcs /\ pc \in InstallPcs \ {"helmWait", "completed", "record"}),
         UNCHANGED <<cache, born>>, UNCHANGED extVars
  PROVE  Effects
<1>1. obj \in Kmds /\ obj.status \in Statuses /\ obj.uid = work.kmd.uid /\ obj.spec = work.kmd.spec
  BY DEF SameBut, Kmds
<1>2. ObjectsStep /\ OneObject BY <1>1, StatusEffect
<1>3. WorkStep
  <2>1. CASE Goto("failed")
    <3>1. work'.pc = "failed" BY <2>1, Goes, PcSets
    <3>2. QED BY <3>1 DEF WorkStep
  <2>2. CASE GotoWith(pc, obj)
    <3>1. work'.pc = pc /\ work'.key = work.key /\ work'.kmd = obj BY <1>1, <2>2, Goes
    <3>2. CASE pc \in {"ok", "failed"} BY <3>1, <3>2 DEF WorkStep
    <3>3. CASE /\ work.pc \in InstallPcs
               /\ pc \in InstallPcs \ {"helmWait", "completed", "record"}
      <4>1. Installs BY <1>1, <3>1, <3>3 DEF Installs
      <4>2. QED BY <4>1 DEF WorkStep
    <3>4. QED BY <3>2, <3>3
  <2>3. QED BY <2>1, <2>2
<1>4. UNCHANGED release BY DEF extVars
<1>5. QED BY <1>2, <1>3, <1>4, ExtStays DEF Effects

\* InstallerFactory.
LEMMA FactoryEffect ==
  ASSUME TypeInv, ObserveGeneration \/ NoInstaller \/ ReportFailure \/ RecordReady
  PROVE  Effects
<1>0. work.key \in Names /\ work.kmd \in Kmds
  BY WorkerHas
     DEF ObserveGeneration, NoInstaller, ReportFailure, RecordReady, InstallPcs, UninstallPcs
<1>a. /\ {"IntallModeFailed", "Succeeded"} \subseteq Reasons
      /\ {"observe", "ready"} \subseteq InstallPcs
      /\ "install" \in InstallPcs \ {"helmWait", "completed", "record"}
      /\ {"install", "uninstall"} \subseteq InstallPcs \cup UninstallPcs
      /\ {"observe", "ready", "report"} \subseteq StatusPcs
  BY DEF Reasons, InstallPcs, UninstallPcs, StatusPcs
<1>1. CASE ObserveGeneration
  <2>1. PICK obj : /\ obj \in {kmd, WithReason([kmd EXCEPT !.status.obsGen = kmd.gen], "Progressing")}
                   /\ IF obj = kmd THEN UNCHANGED <<api, watch, faults>>
                      ELSE StatusSet(obj.status) \/ StatusNotSet
                   /\ GotoWith("install", obj)
                   /\ UNCHANGED <<cache, born>> /\ UNCHANGED extVars
                   /\ work.pc = "observe"
    BY <1>1 DEF ObserveGeneration
  <2>2. SameBut(obj, work.kmd) BY <1>0, <2>1, RegisteredType DEF kmd, SameBut
  <2>3. StatusSet(obj.status) \/ StatusNotSet \/ UNCHANGED <<api, watch>> BY <2>1
  <2>4. Weaker(work.kmd.status, work.kmd.status) BY DEF Weaker
  <2>5. Weaker(obj.status, work.kmd.status) BY <1>0, <2>1, <2>4, Registered DEF kmd
  <2>6. QED BY <1>0, <1>a, <2>1, <2>2, <2>3, <2>5, RegistersEffect, PcSets
<1>2. CASE NoInstaller
  <2>1. /\ Report("IntallModeFailed") /\ UNCHANGED <<apiVars, extVars>>
        /\ work.pc \in {"install", "uninstall"}
    BY <1>2 DEF NoInstaller
  <2>2. Reports BY <1>a, <2>1, ReportGoes
  <2>3. QED BY <2>1, <2>2, WorkerMoves DEF WorkStep
<1>3. CASE ReportFailure
  <2>1. /\ StatusSet(work.kmd.status) \/ StatusNotSet
        /\ Goto("failed") /\ UNCHANGED <<cache, born>> /\ UNCHANGED extVars
        /\ work.pc = "report"
    BY <1>3 DEF ReportFailure, kmd
  <2>2. SameBut(work.kmd, work.kmd) /\ Weaker(work.kmd.status, work.kmd.status)
    BY <1>0 DEF SameBut, Weaker
  <2>3. QED BY <1>0, <1>a, <2>1, <2>2, RegistersEffect, PcSets
<1>4. CASE RecordReady
  <2> DEFINE obj == WithReason(kmd, "Succeeded")
  <2>1. SameBut(obj, work.kmd) BY <1>0, <1>a, WithReasonType DEF kmd
  <2>2. Weaker(obj.status, work.kmd.status) BY <1>0, <1>a, Registered DEF kmd
  <2>3. /\ UNCHANGED <<cache, born>> /\ UNCHANGED extVars /\ work.pc = "ready"
        /\ \/ StatusSet(obj.status) /\ GotoWith("ok", obj)
           \/ StatusNotSet /\ Goto("failed")
    BY <1>4 DEF RecordReady
  <2> HIDE DEF obj
  <2>4. QED BY <1>0, <1>a, <2>1, <2>2, <2>3, RegistersEffect, PcSets
<1>5. QED BY <1>1, <1>2, <1>3, <1>4

\* A phase that the workflow enters: Completed only with a copy that says so.
LEMMA PhaseEffect ==
  ASSUME TypeInv, NEW from \in InstallPcs, NEW phase \in Phases,
         NEW to \in InstallPcs \ {"helmWait", "completed", "record"},
         EnterPhase(from, phase, to),
         phase # "Completed" \/ work.kmd.status.phase = "Completed"
  PROVE  Effects
<1>0. work.pc \in InstallPcs /\ work.key \in Names /\ work.kmd \in Kmds
      /\ work.pc \in StatusPcs
  BY WorkerHas, PcSets DEF EnterPhase, StatusPcs
<1> DEFINE obj == [kmd EXCEPT !.status.phase = phase]
<1>1. SameBut(obj, work.kmd) BY <1>0, RegisteredType DEF kmd
<1>2. Weaker(obj.status, work.kmd.status) BY <1>0, Registered DEF kmd
<1>3. /\ UNCHANGED <<cache, born>> /\ UNCHANGED extVars
      /\ \/ StatusSet(obj.status) /\ GotoWith(to, obj)
         \/ StatusNotSet /\ Goto("failed")
  BY DEF EnterPhase
<1> HIDE DEF obj
<1>4. QED BY <1>0, <1>1, <1>2, <1>3, RegistersEffect, PcSets

\* Where the workflows look is a namespace.
LEMMA WithinNamespaces ==
  ASSUME TypeInv, WithinReach
  PROVE  /\ work.pc \in InstallPcs => work.kmd.spec.ns \in Namespaces
         /\ work.pc \in UninstallPcs => work.kmd.spec.ns \in Namespaces \cup {""}
         /\ work.pc \in {"helmUninstall", "cleanup", "deleteNs"} => work.ns \in Namespaces
<1>1. \A n \in Names : Reach(n) \subseteq Namespaces BY KmdApiAssumption DEF Reach
<1>2. work.pc # "idle" => work.key \in Names BY WorkerHas
<1>3. "idle" \notin InstallPcs \cup UninstallPcs /\ "idle" \notin {"helmUninstall", "cleanup", "deleteNs"}
  BY PcSets
<1>4. work.pc \in InstallPcs \cup UninstallPcs \cup {"helmUninstall", "cleanup", "deleteNs"}
        => Reach(work.key) \subseteq Namespaces
  BY <1>1, <1>2, <1>3
<1>5. QED BY <1>4 DEF WithinReach

\* The release and the namespace of a copy change alone.
LEMMA ReleaseAlone ==
  ASSUME TypeInv, NEW n \in Names, NEW ns \in Namespaces,
         UNCHANGED <<apiVars, nsState, secrets>>, WorkStep,
         \A m \in Names, x \in Namespaces : ~(m = n /\ x = ns) => release'[m][x] = release[m][x],
         \/ ReleaseStays(n, ns) \/ ReleaseStarts(n, ns)
         \/ ReleaseEnds(n, ns) \/ ReleaseGoes(n, ns)
  PROVE  Effects
<1>1. ReleasesStep
  <2> SUFFICES ASSUME NEW m \in Names, NEW x \in Namespaces
               PROVE  \/ ReleaseStays(m, x) \/ ReleaseStarts(m, x)
                      \/ ReleaseEnds(m, x) \/ ReleaseGoes(m, x)
    BY DEF ReleasesStep
  <2>1. CASE m = n /\ x = ns BY <2>1
  <2>2. CASE ~(m = n /\ x = ns) BY <2>2 DEF ReleaseStays
  <2>3. QED BY <2>1, <2>2
<1>2. UNCHANGED apiVars /\ UNCHANGED nsState /\ UNCHANGED secrets OBVIOUS
<1>3. UNCHANGED <<api, born>> BY <1>2 DEF apiVars
<1>4. QED BY <1>1, <1>2, <1>3, ApiStays, PartStays DEF Effects

\* helm at work on the release of the worker's copy.
LEMMA HelmEffect ==
  ASSUME TypeInv, WithinReach, HelmInstalls \/ HelmDeploys \/ HelmInstallFails
  PROVE  Effects
<1>a. {"helm", "helmWait", "completed"} \subseteq InstallPcs /\ "HelmReleaseFailed" \in Reasons
  BY DEF InstallPcs, Reasons
<1>0. /\ work.key \in Names /\ work.kmd \in Kmds /\ work.pc \in {"helm", "helmWait"}
      /\ UNCHANGED <<apiVars, nsState, secrets>>
  BY <1>a, WorkerHas DEF HelmInstalls, HelmDeploys, HelmInstallFails
<1> DEFINE n == work.key
           ns == work.kmd.spec.ns
<1>b. n \in Names /\ ns \in Namespaces BY <1>a, <1>0, WithinNamespaces
<1>c. release \in [Names -> [Namespaces -> Releases]] BY TypeParts DEF ExtTypeOK
<1>1. CASE HelmInstalls
  <2> DEFINE rel == [status |-> "pending", uid |-> work.kmd.uid, images |-> work.kmd.spec.images]
  <2>1. /\ work.pc = "helm" /\ release[n][ns] = NoRelease /\ nsState[ns] = "active"
        /\ release' = [release EXCEPT ![n][ns] = rel] /\ Goto("helmWait")
    BY <1>1 DEF HelmInstalls, key, kmd
  <2>2. rel.uid = work.kmd.uid /\ rel.status = "pending" OBVIOUS
  <2>3. work'.pc = "helmWait" /\ work'.key = n /\ work'.kmd = work.kmd
    BY <1>a, <2>1, Goes, PcSets
  <2> HIDE DEF rel, n, ns
  <2>4. /\ release'[n][ns] = rel
        /\ \A m \in Names, x \in Namespaces : ~(m = n /\ x = ns) => release'[m][x] = release[m][x]
    BY <1>b, <2>1, OneRelease
  <2>5. ReleaseStarts(n, ns) BY <2>1, <2>2, <2>3, <2>4 DEF ReleaseStarts, n, ns
  <2>6. Installs BY <1>0, <1>a, <2>1, <2>3, <2>5 DEF Installs, n, ns
  <2>7. QED BY <1>0, <1>b, <2>4, <2>5, <2>6, ReleaseAlone DEF WorkStep
<1>2. ASSUME release[n][ns] # NoRelease, work.pc = "helmWait",
             NEW st, release' = [release EXCEPT ![n][ns].status = st],
             \/ st = "deployed" /\ Goto("completed")
             \/ st = "failed" /\ Report("HelmReleaseFailed")
      PROVE  Effects
  <2> DEFINE rel == [release[n][ns] EXCEPT !.status = st]
  <2>1. release[n][ns] \in Releases BY <1>b, <1>c
  <2>2. rel.uid = release[n][ns].uid /\ rel.status = st BY <2>1 DEF Releases
  <2>3. rel # NoRelease BY <1>2, <2>2 DEF NoRelease
  <2>4. release' = [release EXCEPT ![n][ns] = rel] BY <1>2
  <2> HIDE DEF rel, n, ns
  <2>5. /\ release'[n][ns] = rel
        /\ \A m \in Names, x \in Namespaces : ~(m = n /\ x = ns) => release'[m][x] = release[m][x]
    BY <1>b, <1>c, <2>4
  <2>6. CASE st = "deployed" /\ Goto("completed")
    <3>1. work'.pc = "completed" /\ work'.key = n /\ work'.kmd = work.kmd
      BY <1>a, <2>6, Goes, PcSets DEF n
    <3>2. ReleaseEnds(n, ns) BY <1>2, <2>2, <2>3, <2>5, <2>6, <3>1 DEF ReleaseEnds, n, ns
    <3>3. Installs BY <1>0, <1>2, <1>a, <3>1, <3>2 DEF Installs, n, ns
    <3>4. QED BY <1>0, <1>b, <2>5, <3>2, <3>3, ReleaseAlone DEF WorkStep
  <2>7. CASE st = "failed" /\ Report("HelmReleaseFailed")
    <3>1. Reports BY <1>0, <1>2, <1>a, <2>7, ReportGoes
    <3>2. work'.pc = "report" BY <3>1 DEF Reports
    <3>3. ReleaseEnds(n, ns) BY <1>2, <2>2, <2>3, <2>5, <2>7, <3>2 DEF ReleaseEnds, n, ns
    <3>4. QED BY <1>0, <1>b, <2>5, <3>1, <3>3, ReleaseAlone DEF WorkStep
  <2>8. QED BY <1>2, <2>6, <2>7
<1>3. ASSUME work.pc = "helmWait", release' = [release EXCEPT ![n][ns] = NoRelease],
             Report("HelmReleaseFailed")
      PROVE  Effects
  <2> HIDE DEF n, ns
  <2>1. /\ release'[n][ns] = NoRelease
        /\ \A m \in Names, x \in Namespaces : ~(m = n /\ x = ns) => release'[m][x] = release[m][x]
    BY <1>b, <1>c, <1>3
  <2>2. Reports BY <1>0, <1>3, <1>a, ReportGoes
  <2>3. work'.pc = "report" BY <2>2 DEF Reports
  <2>4. ReleaseGoes(n, ns) BY <1>3, <2>1, <2>3 DEF ReleaseGoes, n, ns
  <2>5. QED BY <1>0, <1>b, <2>1, <2>2, <2>4, ReleaseAlone DEF WorkStep
<1>4. CASE HelmDeploys
  <2>1. /\ release[n][ns] # NoRelease /\ work.pc = "helmWait" /\ Goto("completed")
        /\ release' = [release EXCEPT ![n][ns].status = "deployed"]
    BY <1>4 DEF HelmDeploys, key, kmd
  <2>2. QED BY <1>2, <2>1
<1>5. CASE HelmInstallFails
  <2>1. /\ work.pc = "helmWait" /\ Report("HelmReleaseFailed")
        /\ \/ release' = [release EXCEPT ![n][ns] = NoRelease]
           \/ /\ release[n][ns] # NoRelease
              /\ release' = [release EXCEPT ![n][ns].status = "failed"]
    BY <1>5 DEF HelmInstallFails, key, kmd
  <2>2. QED BY <1>2, <1>3, <2>1
<1>6. QED BY <1>1, <1>4, <1>5

\* installWorkflow.
LEMMA InstallEffect ==
  ASSUME TypeInv, WithinReach, ReleaseUnderWay, InstallStep
  PROVE  Effects
<1>a. /\ {"preflight", "chart", "record", "install", "namespace", "helm", "completed", "ready"}
           \subseteq InstallPcs
      /\ {"chart", "namespace", "ready", "preflight", "helm"}
           \subseteq InstallPcs \ {"helmWait", "completed", "record"}
      /\ {"Preflight", "Deploying", "Completed"} \subseteq Phases
      /\ {"HelmChartFailed", "HelmInitFailed", "HelmReleaseFailed"} \subseteq Reasons
  BY DEF InstallPcs, Phases, Reasons
<1>1. CASE Install
  <2>1. /\ UNCHANGED <<apiVars, extVars>> /\ work.pc = "install"
        /\ Goto("ready") \/ Goto("preflight")
    BY <1>1 DEF Install
  <2>2. /\ work'.pc \in {"ready", "preflight"}
        /\ work'.key = work.key /\ work'.kmd = work.kmd
    BY <1>a, <2>1, Goes, PcSets
  <2>3. Installs BY <1>a, <2>1, <2>2, WorkerHas DEF Installs, Weaker
  <2>4. QED BY <2>1, <2>3, WorkerMoves DEF WorkStep
<1>2. CASE Preflight \/ Deploy BY <1>2, <1>a, PhaseEffect DEF Preflight, Deploy
<1>3. CASE Completed
  <2>1. work.pc = "record" BY <1>3 DEF Completed, EnterPhase
  <2>2. work.kmd.status.phase = "Completed" BY <2>1 DEF ReleaseUnderWay
  <2>3. QED BY <1>3, <1>a, <2>2, PhaseEffect DEF Completed
<1>4. CASE ChartNotFetched \/ ValuesNotComposed \/ InstallRefused
  <2>1. /\ UNCHANGED <<apiVars, extVars>> /\ work.pc \in InstallPcs
        /\ \E r \in Reasons : Report(r)
    BY <1>4, <1>a DEF ChartNotFetched, ValuesNotComposed, InstallRefused
  <2>2. Reports BY <2>1, ReportGoes
  <2>3. QED BY <2>1, <2>2, WorkerMoves DEF WorkStep
<1>5. CASE KubeconfigNotStored
  <2>1. UNCHANGED <<apiVars, extVars>> /\ Goto("failed") BY <1>5 DEF KubeconfigNotStored
  <2>2. work'.pc = "failed" BY <2>1, Goes, PcSets
  <2>3. QED BY <2>1, <2>2, WorkerMoves DEF WorkStep
<1>6. CASE EnsureNamespace
  <2>1. /\ UNCHANGED apiVars /\ UNCHANGED release /\ UNCHANGED secrets /\ work.pc = "namespace"
        /\ \/ /\ nsState' = [nsState EXCEPT ![work.kmd.spec.ns] =
                               IF @ = "absent" THEN "active" ELSE @]
              /\ Goto("helm")
           \/ UNCHANGED nsState /\ Goto("failed")
    BY <1>6 DEF EnsureNamespace, kmd
  <2>2. NamespacesStep
    <3>1. nsState \in [Namespaces -> {"absent", "active", "terminating"}]
      BY TypeParts DEF ExtTypeOK
    <3>2. CASE nsState' = [nsState EXCEPT ![work.kmd.spec.ns] =
                             IF @ = "absent" THEN "active" ELSE @]
      <4>1. \A ns \in Namespaces : \/ nsState'[ns] = nsState[ns]
                                   \/ nsState[ns] = "absent" /\ nsState'[ns] = "active"
        BY <3>1, <3>2
      <4>2. QED BY <4>1 DEF NamespacesStep
    <3>3. QED BY <2>1, <3>2, PartStays
  <2>3. WorkStep
    <3>1. CASE Goto("failed")
      <4>1. work'.pc = "failed" BY <3>1, Goes, PcSets
      <4>2. QED BY <4>1 DEF WorkStep
    <3>2. CASE Goto("helm")
      <4>1. work'.pc = "helm" /\ work'.key = work.key /\ work'.kmd = work.kmd
        BY <1>a, <3>2, Goes, PcSets
      <4>2. Installs BY <1>a, <2>1, <4>1, WorkerHas DEF Installs, Weaker
      <4>3. QED BY <4>2 DEF WorkStep
    <3>3. QED BY <2>1, <3>1, <3>2
  <2>4. QED BY <2>1, <2>2, <2>3, ApiStays, PartStays DEF Effects
<1>7. CASE StoreKubeconfig
  <2>0. work.key \in Names /\ work.kmd \in Kmds /\ work.pc = "completed"
    BY <1>7, <1>a, WorkerHas DEF StoreKubeconfig
  <2> DEFINE obj == [kmd EXCEPT !.status.secret = kmd.uid, !.status.cpr = TRUE,
                                !.status.phase = "Completed"]
  <2>1. SameBut(obj, work.kmd) BY <2>0, RegisteredType DEF kmd
  <2>2. obj.status.phase = "Completed" /\ obj.status.secret = work.kmd.uid
    BY <2>0, Registered DEF kmd
  <2>3. /\ GotoWith("record", obj) /\ release[work.key][work.kmd.spec.ns] # NoRelease
        /\ secrets' = secrets \cup {<<work.key, work.kmd.uid>>}
        /\ UNCHANGED apiVars /\ UNCHANGED release /\ UNCHANGED nsState
    BY <1>7 DEF StoreKubeconfig, key, kmd
  <2> HIDE DEF obj
  <2>4. obj \in Kmds /\ obj.uid = work.kmd.uid /\ obj.spec = work.kmd.spec
    BY <2>1 DEF SameBut
  <2>5. work'.pc = "record" /\ work'.key = work.key /\ work'.kmd = obj
    BY <1>a, <2>3, <2>4, Goes, PcSets
  <2>6. Installs BY <1>a, <2>0, <2>2, <2>3, <2>4, <2>5 DEF Installs
  <2>7. SecretsStep BY <2>3 DEF SecretsStep
  <2>8. QED BY <2>3, <2>6, <2>7, ApiStays, PartStays DEF Effects, WorkStep
<1>8. QED BY <1>1, <1>2, <1>3, <1>4, <1>5, <1>6, <1>7, HelmEffect DEF InstallStep

\* A namespace that an uninstallation deletes, or fails to.
LEMMA NamespaceDeletedEffect ==
  ASSUME TypeInv, NEW ns \in Namespaces \cup {""},
         NamespaceDeleted(ns) \/ UNCHANGED nsState,
         ns \in Namespaces =>
           \/ work.pc = "uninstall" /\ ~HasRelease(work.key) /\ ns = work.kmd.spec.ns
           \/ work.pc = "deleteNs" /\ ns = work.ns
  PROVE  NamespacesStep
<1>1. nsState \in [Namespaces -> {"absent", "active", "terminating"}]
  BY TypeParts DEF ExtTypeOK
<1>2. CASE NamespaceDeleted(ns) /\ ns \in Namespaces /\ nsState[ns] = "active"
  <2>1. nsState' = [nsState EXCEPT ![ns] = "terminating"]
    BY <1>2, KmdApiAssumption DEF NamespaceDeleted
  <2>2. nsState'[ns] = "terminating" /\ \A x \in Namespaces : x # ns => nsState'[x] = nsState[x]
    BY <1>1, <1>2, <2>1
  <2>3. QED BY <1>2, <2>2 DEF NamespacesStep
<1>3. CASE UNCHANGED nsState BY <1>3, PartStays
<1>4. QED BY <1>2, <1>3 DEF NamespaceDeleted

\* uninstallWorkflow.
LEMMA UninstallEffect ==
  ASSUME TypeInv, WithinReach, UninstallStep
  PROVE  Effects
<1>a. /\ {"uninstall", "helmUninstall", "cleanup", "deleteNs"} \subseteq UninstallPcs
      /\ {"cleanup", "deleteNs"} \subseteq Pcs
  BY DEF Pcs, UninstallPcs
<1>0. /\ work.key \in Names /\ work.kmd \in Kmds /\ work.pc \in UninstallPcs
      /\ UNCHANGED apiVars /\ UNCHANGED <<api, born>>
  BY <1>a, WorkerHas
     DEF UninstallStep, UninstallNothing, FindRelease, HelmUninstall, Cleanup, DeleteNamespace,
         apiVars
<1>b. /\ work.kmd.spec.ns \in Namespaces \cup {""}
      /\ work.pc \in {"helmUninstall", "cleanup", "deleteNs"} => work.ns \in Namespaces
  BY <1>0, WithinNamespaces
<1>s. SecretsStep
  <2>1. UNCHANGED secrets \/ secrets' = secrets \ KubeconfigSecret
    BY DEF UninstallStep, UninstallNothing, FindRelease, HelmUninstall, Cleanup, DeleteNamespace,
           extVars
  <2>2. SUFFICES ASSUME NEW n \in Names, NEW uid \in Nat, <<n, uid>> \in secrets,
                        <<n, uid>> \notin secrets'
                 PROVE  n = work.key
    BY <1>0 DEF SecretsStep
  <2>3. <<n, uid>> \in KubeconfigSecret BY <2>1, <2>2
  <2>4. QED BY <2>3 DEF KubeconfigSecret, key
<1>1. CASE UninstallNothing
  <2>1. /\ work.pc = "uninstall" /\ ~HasRelease(work.key) /\ Goto("finalize") /\ UNCHANGED release
        /\ NamespaceDeleted(work.kmd.spec.ns) \/ UNCHANGED nsState
    BY <1>1 DEF UninstallNothing, key, kmd
  <2>2. NamespacesStep BY <1>b, <2>1, NamespaceDeletedEffect
  <2>3. /\ work'.pc = "finalize" /\ work'.key = work.key
        /\ work'.kmd = work.kmd /\ work'.ns = work.ns
    BY <2>1, Goes, PcSets
  <2>4. HasUninstalled BY <2>1, <2>3 DEF HasUninstalled
  <2>5. QED BY <1>0, <1>s, <2>1, <2>2, <2>4, ApiStays, PartStays DEF Effects, WorkStep
<1>2. CASE FindRelease
  <2>1. /\ UNCHANGED extVars
        /\ \/ \E ns \in Namespaces :
                /\ release[work.key][ns] # NoRelease
                /\ work' = [work EXCEPT !.pc = "helmUninstall", !.ns = ns]
           \/ Goto("failed")
    BY <1>2 DEF FindRelease, key
  <2>2. WorkStep
    <3>1. CASE Goto("failed")
      <4>1. work'.pc = "failed" BY <3>1, Goes, PcSets
      <4>2. QED BY <4>1 DEF WorkStep
    <3>2. ASSUME NEW ns \in Namespaces, release[work.key][ns] # NoRelease,
                 work' = [work EXCEPT !.pc = "helmUninstall", !.ns = ns]
          PROVE  WorkStep
      <4>1. /\ work'.pc = "helmUninstall" /\ work'.key = work.key
            /\ work'.kmd = work.kmd /\ work'.ns = ns
        BY <3>2, TypeParts DEF WorkType
      <4>2. Uninstalls BY <1>0, <3>2, <4>1 DEF Uninstalls
      <4>3. QED BY <4>2 DEF WorkStep
    <3>3. QED BY <2>1, <3>1, <3>2
  <2>3. QED BY <1>0, <2>1, <2>2, WorkerMoves
<1>3. CASE HelmUninstall \/ Cleanup
  <2>1. /\ UNCHANGED nsState
        /\ \/ /\ work.pc = "helmUninstall" /\ Goto("cleanup")
              /\ UNCHANGED release \/ release' = [release EXCEPT ![work.key][work.ns] = NoRelease]
           \/ work.pc = "cleanup" /\ Goto("deleteNs") /\ UNCHANGED release
    BY <1>3 DEF HelmUninstall, Cleanup, key
  <2>2. /\ work'.pc \in {"cleanup", "deleteNs"} /\ work'.key = work.key
        /\ work'.kmd = work.kmd /\ work'.ns = work.ns
    BY <1>a, <2>1, Goes
  <2>3. Uninstalls BY <1>0, <2>1, <2>2 DEF Uninstalls
  <2>4. ReleasesStep
    <3>1. ASSUME work.pc = "helmUninstall",
                 release' = [release EXCEPT ![work.key][work.ns] = NoRelease]
          PROVE  ReleasesStep
      <4>1. \A m \in Names, x \in Namespaces :
              IF m = work.key /\ x = work.ns THEN release'[m][x] = NoRelease
                                             ELSE release'[m][x] = release[m][x]
        BY <1>0, <1>b, <3>1, TypeParts DEF ExtTypeOK
      <4>2. QED BY <3>1, <4>1 DEF ReleasesStep, ReleaseStays, ReleaseGoes
    <3>2. QED BY <2>1, <3>1, PartStays
  <2>5. QED BY <1>0, <1>s, <2>1, <2>3, <2>4, ApiStays, PartStays DEF Effects, WorkStep
<1>4. CASE DeleteNamespace
  <2>1. /\ UNCHANGED release /\ work.pc = "deleteNs"
        /\ \/ /\ NamespaceDeleted(work.ns)
              /\ \/ nsState[work.ns] = "active" /\ Goto("finalize")
                 \/ Goto("failed")
           \/ UNCHANGED nsState /\ Goto("failed")
    BY <1>4 DEF DeleteNamespace
  <2>2. NamespacesStep BY <1>b, <2>1, NamespaceDeletedEffect
  <2>3. WorkStep
    <3>1. CASE Goto("failed")
      <4>1. work'.pc = "failed" BY <3>1, Goes, PcSets
      <4>2. QED BY <4>1 DEF WorkStep
    <3>2. CASE NamespaceDeleted(work.ns) /\ nsState[work.ns] = "active" /\ Goto("finalize")
      <4>1. /\ work'.pc = "finalize" /\ work'.key = work.key
            /\ work'.kmd = work.kmd /\ work'.ns = work.ns
        BY <3>2, Goes, PcSets
      <4>2. nsState'[work.ns] = "terminating"
        <5>1. work.ns \in Namespaces /\ work.ns # "" BY <1>b, <2>1, KmdApiAssumption
        <5>2. nsState' = [nsState EXCEPT ![work.ns] = "terminating"]
          BY <3>2, <5>1 DEF NamespaceDeleted
        <5>3. QED BY <5>1, <5>2, TypeParts DEF ExtTypeOK
      <4>3. HasUninstalled BY <2>1, <4>1, <4>2 DEF HasUninstalled
      <4>4. QED BY <4>3 DEF WorkStep
    <3>3. QED BY <2>1, <3>1, <3>2
  <2>4. QED BY <1>0, <1>s, <2>1, <2>2, <2>3, ApiStays, PartStays DEF Effects
<1>5. QED BY <1>1, <1>2, <1>3, <1>4 DEF UninstallStep

\* Every step, whichever action it is.
LEMMA StepEffects ==
  ASSUME TypeInv, WorkerOK, WithinReach, ReleaseUnderWay, [Next]_vars
  PROVE  Effects
<1>1. CASE UserStep /\ UNCHANGED <<ctlVars, extVars, faults>> BY <1>1, OthersEffect
<1>2. CASE (\E n \in Names : InformerEvent(n) \/ BackoffElapses(n)) \/ ClusterStep
  BY <1>2, OthersEffect DEF ClusterStep
<1>3. CASE WorkerStep
  BY <1>3, QueueEffect, HandlerEffect, FactoryEffect, InstallEffect, UninstallEffect
     DEF WorkerStep, SyncStep
<1>4. CASE ProcessDies BY <1>4, RestartEffect DEF ProcessDies, InstallerPanics, Crash
<1>5. CASE UNCHANGED vars
  <2>1. UNCHANGED <<apiVars, extVars>> /\ WorkStep
    BY <1>5 DEF vars, apiVars, extVars, WorkStep, WorkStays
  <2>2. QED BY <2>1, WorkerMoves
<1>6. QED BY <1>1, <1>2, <1>3, <1>4, <1>5 DEF Next
=============================================================================
