-------------------------- MODULE PreflightProofs --------------------------
(***************************************************************************)
(* Once there is a chart file every fetch ends well, and the values say    *)
(* what the spec says, for any repositories, servers, specs and nodes.     *)
(* The entries of a spec are folded in one after the other; what a module  *)
(* gets is shown by induction over the list (FoldProofs).                  *)
(***************************************************************************)
EXTENDS InstallPreflight, FoldProofs, SequenceTheorems

\* A fetch that pulls, or has failed, found no file and has not made one: the file
\* only appears with the pull that ends the fetch.
PullsWithoutFile == fetch.pc \in {"resolve", "download", "failed"} => chartFile # "file"

\* The fetch is a record whose program counter is one of fetchChart's, and what is at
\* the chart's path is one of the outcomes of os.Stat.
FetchRecord ==
  /\ fetch \in [pc : {"idle", "stat", "resolve", "download", "fetched", "failed"},
                scheme : Schemes, entry : BOOLEAN, second : BOOLEAN]
  /\ chartFile \in {"absent", "file", "directory"}

FileInv == FetchRecord /\ PullsWithoutFile

LEMMA InitFile == Init => FileInv
BY ChartFetchAssumption DEF Init, FetchInit, NoFetch, FileInv, FetchRecord, PullsWithoutFile, Schemes

\* A pull that fails leaves the file as it is, and the fetch in a step that has none.
LEMMA FailedPull ==
  ASSUME FileInv, PullFailed, UNCHANGED chartFile, fetch.pc \in {"resolve", "download"}
  PROVE  FileInv'
<1>1. chartFile' # "file"
  BY DEF FileInv, PullsWithoutFile
<1>2. CASE fetch.second
  <2>1. fetch' = [fetch EXCEPT !.pc = "failed"]
    BY <1>2 DEF PullFailed, FetchGoto
  <2> QED BY <1>1, <2>1 DEF FileInv, FetchRecord, PullsWithoutFile
<1>3. CASE ~fetch.second
  <2>1. PICK s \in Schemes :
          fetch' = [pc |-> "resolve", scheme |-> s, entry |-> FALSE, second |-> TRUE]
    BY <1>3 DEF PullFailed
  <2> QED BY <1>1, <2>1 DEF FileInv, FetchRecord, PullsWithoutFile
<1> QED BY <1>2, <1>3

LEMMA FetchFile == FileInv /\ FetchStep => FileInv'
<1> SUFFICES ASSUME FileInv, FetchStep PROVE FileInv'
  OBVIOUS
<1> USE DEF FileInv, FetchRecord, PullsWithoutFile, FetchGoto
<1>1. CASE BeginFetch
  BY <1>1 DEF BeginFetch
<1>2. CASE StatChart
  <2>1. CASE chartFile = "file"
    BY <1>2, <2>1 DEF StatChart
  <2>2. CASE chartFile = "directory"
    BY <1>2, <2>2 DEF StatChart
  <2>3. CASE chartFile = "absent"
    BY <1>2, <2>3 DEF StatChart
  <2> QED BY <2>1, <2>2, <2>3
<1>3. CASE ResolveByName
  BY <1>3 DEF ResolveByName
<1>4. CASE ResolveByURL
  <2>1. CASE fetch.scheme \in up
    BY <1>4, <2>1 DEF ResolveByURL
  <2>2. CASE fetch.scheme \notin up
    <3>1. PullFailed /\ UNCHANGED chartFile /\ fetch.pc = "resolve"
      BY <1>4, <2>2 DEF ResolveByURL
    <3> QED BY <3>1, FailedPull
  <2> QED BY <2>1, <2>2
<1>5. CASE Pull
  <2>1. CASE chartFile' = "file" /\ FetchGoto("fetched")
    BY <1>5, <2>1 DEF Pull
  <2>2. CASE UNCHANGED chartFile /\ PullFailed
    <3>1. fetch.pc = "download"
      BY <1>5 DEF Pull
    <3> QED BY <2>2, <3>1, FailedPull
  <2> QED BY <1>5, <2>1, <2>2 DEF Pull
<1> QED BY <1>1, <1>2, <1>3, <1>4, <1>5 DEF FetchStep

\* A restart and the next sync begin with no fetch under way.
LEMMA NoFetchFile ==
  ASSUME fetch' = NoFetch, chartFile' \in {"absent", "file", "directory"}
  PROVE  FileInv'
BY ChartFetchAssumption DEF NoFetch, FileInv, FetchRecord, PullsWithoutFile, Schemes

LEMMA StepFile == FileInv /\ [Next]_preflightVars => FileInv'
<1> SUFFICES ASSUME FileInv, [Next]_preflightVars PROVE FileInv'
  OBVIOUS
<1>1. CASE Fetch
  BY <1>1, FetchFile DEF Fetch
<1>2. CASE ComposeValues
  BY <1>2 DEF ComposeValues, fetchVars, FileInv, FetchRecord, PullsWithoutFile
<1>3. CASE AddressPanics
  BY <1>3, NoFetchFile DEF AddressPanics, NewContainer
<1>4. CASE SyncAgain
  BY <1>4, NoFetchFile DEF SyncAgain, NextSync, FileInv, FetchRecord
<1>5. CASE OperatorDies
  BY <1>5, NoFetchFile DEF OperatorDies, NewContainer
<1>6. CASE ServerFails
  BY <1>6 DEF ServerFails, ServerChanges, FileInv, FetchRecord, PullsWithoutFile
<1>7. CASE UNCHANGED preflightVars
  BY <1>7 DEF preflightVars, fetchVars, FileInv, FetchRecord, PullsWithoutFile
<1> QED BY <1>1, <1>2, <1>3, <1>4, <1>5, <1>6, <1>7 DEF Next

\* However servers come and go, whatever is configured and cached, and however often
\* the operator is restarted: a fetch that finds the file does not fail (fetchChart).
THEOREM CachedFileSuffices == Spec => []CachedSuffices
<1>1. FileInv => CachedSuffices
  BY DEF FileInv, PullsWithoutFile, CachedSuffices
<1> QED BY <1>1, InitFile, StepFile, PTL DEF Spec

-----------------------------------------------------------------------------
(* Types: an index is only there for a repository that is configured, only a fetch *)
(* by name has an entry, and there are values only of a fetch that ended well.      *)

LEMMA FetchTypes == FetchTypeOK /\ FetchStep => FetchTypeOK'
<1> SUFFICES ASSUME FetchTypeOK, FetchStep PROVE FetchTypeOK'
  OBVIOUS
<1> USE DEF FetchTypeOK, FetchGoto
<1>1. ASSUME PullFailed, UNCHANGED <<repos, up, changes>>, indexes' \in SUBSET repos,
             chartFile' = chartFile
      PROVE  FetchTypeOK'
  <2>1. CASE fetch.second
    BY <1>1, <2>1 DEF PullFailed
  <2>2. CASE ~fetch.second
    <3>1. PICK s \in Schemes \ {fetch.scheme} :
            fetch' = [pc |-> "resolve", scheme |-> s, entry |-> FALSE, second |-> TRUE]
      BY <1>1, <2>2 DEF PullFailed
    <3>2. fetch.scheme = RepoScheme
      BY <2>2
    <3>3. QED BY <1>1, <3>1, <3>2
  <2>3. QED BY <2>1, <2>2
<1>2. CASE BeginFetch
  BY <1>2 DEF BeginFetch
<1>3. CASE StatChart
  <2>1. PICK pc \in {"fetched", "failed", "resolve"} : FetchGoto(pc)
    BY <1>3 DEF StatChart
  <2>2. QED BY <1>3, <2>1 DEF StatChart
<1>4. CASE ResolveByName
  BY <1>4 DEF ResolveByName
<1>5. CASE ResolveByURL
  <2>1. CASE fetch.scheme \in up
    BY <1>5, <2>1 DEF ResolveByURL
  <2>2. CASE fetch.scheme \notin up
    BY <1>1, <1>5, <2>2 DEF ResolveByURL
  <2>3. QED BY <2>1, <2>2
<1>6. CASE Pull
  <2>1. CASE chartFile' = "file" /\ FetchGoto("fetched")
    BY <1>6, <2>1 DEF Pull
  <2>2. CASE UNCHANGED chartFile /\ PullFailed
    BY <1>1, <1>6, <2>2 DEF Pull
  <2>3. QED BY <1>6, <2>1, <2>2 DEF Pull
<1>7. QED BY <1>2, <1>3, <1>4, <1>5, <1>6 DEF FetchStep

LEMMA NoFetchTypes ==
  ASSUME FetchTypeOK, fetch' = NoFetch, chartFile' \in {"absent", "file", "directory"},
         UNCHANGED <<repos, up>>, indexes' \in SUBSET repos, changes' \in 0..MaxChanges
  PROVE  FetchTypeOK'
BY ChartFetchAssumption DEF FetchTypeOK, NoFetch, Schemes

\* Once the fetch has ended well, no step of it is enabled.
LEMMA FetchedStays == fetch.pc = "fetched" => ~FetchStep
BY DEF FetchStep, BeginFetch, StatChart, ResolveByName, ResolveByURL, Pull

LEMMA TypeStep == TypeOK /\ [Next]_preflightVars => TypeOK'
<1> SUFFICES ASSUME TypeOK, [Next]_preflightVars PROVE TypeOK'
  OBVIOUS
<1>1. FetchTypeOK
  BY DEF TypeOK
<1>2. CASE Fetch
  BY <1>1, <1>2, FetchTypes, FetchedStays DEF Fetch, TypeOK
<1>3. CASE ComposeValues
  <2>1. fetch.pc = "fetched" /\ UNCHANGED fetchVars
    BY <1>3 DEF ComposeValues
  <2>2. FetchTypeOK' /\ fetch'.pc = "fetched"
    BY <1>1, <2>1 DEF fetchVars, FetchTypeOK
  <2>3. PICK spec \in ChartSpecs, masters \in NodeLists, controlPlane \in NodeLists :
          /\ <<>> \notin Masters(masters, controlPlane)
          /\ chartSpec' = spec
          /\ values' = SetChartDefaultValues(Convert(spec),
                                             FirstAddresses(Masters(masters, controlPlane)))
    BY <1>3 DEF ComposeValues
  <2>4. values' # NoValues /\ chartSpec' # NoValues
    BY <2>3, PreflightAssumption DEF Masters
  <2>5. DOMAIN values'.modules = ModuleNames
    BY <2>3 DEF SetChartDefaultValues
  <2>6. QED BY <2>2, <2>3, <2>4, <2>5 DEF TypeOK
<1>4. CASE AddressPanics
  <2>1. FetchTypeOK'
    BY <1>1, <1>4, NoFetchTypes DEF AddressPanics, NewContainer, FetchTypeOK
  <2>2. values' = NoValues /\ chartSpec' = NoValues
    BY <1>4 DEF AddressPanics, TypeOK
  <2>3. QED BY <2>1, <2>2 DEF TypeOK
<1>5. CASE SyncAgain
  <2>1. FetchTypeOK'
    BY <1>1, <1>5, NoFetchTypes DEF SyncAgain, NextSync, FetchTypeOK
  <2>2. QED BY <1>5, <2>1 DEF SyncAgain, TypeOK
<1>6. CASE OperatorDies
  <2>1. FetchTypeOK'
    BY <1>1, <1>6, NoFetchTypes, ChartFetchAssumption DEF OperatorDies, NewContainer, FetchTypeOK
  <2>2. QED BY <1>6, <2>1 DEF OperatorDies, TypeOK
<1>7. CASE ServerFails
  <2>1. PICK s \in Servers : up' = SymDiff(up, {s})
    BY <1>7 DEF ServerFails, ServerChanges
  <2>2. up' \subseteq Servers
    BY <1>1, <2>1 DEF FetchTypeOK, SymDiff
  <2>3. UNCHANGED <<fetch, chartFile, repos, indexes>>
    BY <1>7 DEF ServerFails, ServerChanges
  <2>4. changes' \in 0..MaxChanges
    BY <1>1, <1>7, ChartFetchAssumption DEF ServerFails, ServerChanges, FetchTypeOK
  <2>5. FetchTypeOK'
    BY <1>1, <2>2, <2>3, <2>4 DEF FetchTypeOK
  <2>6. QED BY <1>7, <2>3, <2>5 DEF ServerFails, TypeOK
<1>8. CASE UNCHANGED preflightVars
  BY <1>8 DEF preflightVars, fetchVars, TypeOK, FetchTypeOK
<1>9. QED BY <1>2, <1>3, <1>4, <1>5, <1>6, <1>7, <1>8 DEF Next

\* Helm's configuration, its cache, the fetch and the values agree in every state
\* (fetchChart, Preflight).
THEOREM PreflightTypeCorrect == Spec => []TypeOK
<1>1. Init => TypeOK
  BY ChartFetchAssumption
  DEF Init, FetchInit, TypeOK, FetchTypeOK, NoFetch, Schemes
<1>2. QED BY <1>1, TypeStep, PTL DEF Spec

-----------------------------------------------------------------------------
(* Values: what the folds over the entries of a spec compute *)

\* The modules that entries can make of others.
Modules(images, entries) ==
  [ModuleNames ->
     [replicas : {<<>>} \cup {entries[i].replicas : i \in DOMAIN entries},
      image : {GlobalImage(images, m) : m \in ModuleNames}
                \cup {ParseImage(entries[i].image) : i \in DOMAIN entries},
      hostNetwork : {""}, serviceType : {""}]]

Globals(images) == [m \in ModuleNames |-> [NoModule EXCEPT !.image = GlobalImage(images, m)]]

LEMMA GlobalsType ==
  ASSUME NEW images, NEW entries
  PROVE  Globals(images) \in Modules(images, entries)
<1> SUFFICES ASSUME NEW m \in ModuleNames
             PROVE  [NoModule EXCEPT !.image = GlobalImage(images, m)] \in
                      [replicas : {<<>>} \cup {entries[i].replicas : i \in DOMAIN entries},
                       image : {GlobalImage(images, j) : j \in ModuleNames}
                                 \cup {ParseImage(entries[i].image) : i \in DOMAIN entries},
                       hostNetwork : {""}, serviceType : {""}]
  BY DEF Globals, Modules
<1>1. QED BY DEF NoModule

\* What an entry makes of its module.
Given(m, entry) ==
  [m EXCEPT !.replicas = IF entry.name = "etcd" /\ entry.replicas = <<>> THEN m.replicas
                         ELSE entry.replicas,
            !.image = IF entry.image = <<>> THEN m.image ELSE ParseImage(entry.image)]

LEMMA AddModuleType ==
  ASSUME NEW images, NEW entries, NEW mods \in Modules(images, entries), NEW i \in DOMAIN entries
  PROVE  /\ AddModule(mods, entries[i]) \in Modules(images, entries)
         /\ \A m \in ModuleNames : m # entries[i].name => AddModule(mods, entries[i])[m] = mods[m]
         /\ \A m \in ModuleNames : m = entries[i].name =>
              AddModule(mods, entries[i])[m] =
                Given(mods[m], entries[i])
<1> DEFINE Rep == {<<>>} \cup {entries[j].replicas : j \in DOMAIN entries}
           Img == {GlobalImage(images, m) : m \in ModuleNames}
                    \cup {ParseImage(entries[j].image) : j \in DOMAIN entries}
<1>1. PICK e : e = entries[i] OBVIOUS
<1>2. e.replicas \in Rep /\ ParseImage(e.image) \in Img BY <1>1
<1>3. mods \in [ModuleNames -> [replicas : Rep, image : Img, hostNetwork : {""}, serviceType : {""}]]
  BY DEF Modules
<1>4. PICK new : new = AddModule(mods, e) OBVIOUS
<1> HIDE DEF Rep, Img
<1>5. /\ DOMAIN new = ModuleNames
      /\ \A m \in ModuleNames : m # e.name => new[m] = mods[m]
      /\ \A m \in ModuleNames : m = e.name =>
           new[m] = Given(mods[m], e)
  BY <1>3, <1>4 DEF AddModule, Given
<1>6. ASSUME NEW m \in ModuleNames
      PROVE  new[m] \in [replicas : Rep, image : Img, hostNetwork : {""}, serviceType : {""}]
  <2>1. CASE m # e.name BY <1>3, <1>5, <2>1
  <2>2. CASE m = e.name
    <3>1. new[m] = Given(mods[m], e) BY <1>5, <2>2
    <3>2. QED BY <1>2, <1>3, <3>1 DEF Given
  <2>3. QED BY <2>1, <2>2
<1>7. new \in [ModuleNames -> [replicas : Rep, image : Img, hostNetwork : {""}, serviceType : {""}]]
  <2>1. new = [m \in ModuleNames |-> new[m]] BY <1>4, <1>5 DEF AddModule
  <2>2. QED BY <1>6, <2>1
<1>8. new \in Modules(images, entries) BY <1>7 DEF Modules, Rep, Img
<1>9. QED BY <1>1, <1>4, <1>5, <1>8

-----------------------------------------------------------------------------
\* The fold over the entries goes through a run of modules, one entry at a time.
Run(run, images, entries) ==
  /\ \A k \in 0..Len(entries) : run[k] \in Modules(images, entries)
  /\ run[0] = Globals(images)
  /\ \A k \in 1..Len(entries) : run[k] = AddModule(run[k - 1], entries[k])

Folded(images, entries) == FoldLeft(AddModule, Globals(images), entries)

LEMMA FoldRuns ==
  ASSUME NEW images, NEW entries, Len(entries) \in Nat, DOMAIN entries = 1..Len(entries)
  PROVE  \E run : Run(run, images, entries) /\ Folded(images, entries) = run[Len(entries)]
<1>1. PICK n \in Nat : n = Len(entries) OBVIOUS
<1>2. PICK V : V = Modules(images, entries) OBVIOUS
<1>3. PICK base \in V : base = Globals(images) BY <1>2, GlobalsType
<1>4. PICK op : op = [p \in V \X (1..n) |-> AddModule(p[1], entries[p[2]])] OBVIOUS
<1>5. op \in [V \X (1..n) -> V]
  <2>1. \A v \in V, i \in 1..n : AddModule(v, entries[i]) \in V
    BY <1>1, <1>2, AddModuleType
  <2>2. QED BY <1>4, <2>1
<1>6. PICK f : /\ Folded(images, entries) = f[1..n]
               /\ f = CHOOSE g : g = [s \in SUBSET (1..n) |->
                        IF s = {} THEN base ELSE AddModule(g[s \ {Max(s)}], entries[Max(s)])]
  <2>1. DOMAIN entries = 1..n BY <1>1
  <2>2. Folded(images, entries) =
          (CHOOSE g : g = [s \in SUBSET (DOMAIN entries) |->
             IF s = {} THEN Globals(images)
             ELSE AddModule(g[s \ {Max(s)}], entries[Max(s)])])[DOMAIN entries]
    BY DEF Folded, FoldLeft, MapThenFoldSet
  <2>3. Folded(images, entries) =
          (CHOOSE g : g = [s \in SUBSET (1..n) |->
             IF s = {} THEN base ELSE AddModule(g[s \ {Max(s)}], entries[Max(s)])])[1..n]
    BY <1>3, <2>1, <2>2, Zenon
  <2>4. QED BY <2>3
<1>7. \E g : g = [s \in SUBSET (1..n) |->
                IF s = {} THEN base ELSE AddModule(g[s \ {Max(s)}], entries[Max(s)])]
  <2>1. PICK g : SequenceFold(g, n, V, op, base) BY <1>5, SequenceFoldExists
  <2>2. g = [s \in SUBSET (1..n) |->
               IF s = {} THEN base ELSE AddModule(g[s \ {Max(s)}], entries[Max(s)])]
    BY <1>4, <2>1 DEF SequenceFold
  <2>3. QED BY <2>2
<1>8. f = [s \in SUBSET (1..n) |->
             IF s = {} THEN base ELSE AddModule(f[s \ {Max(s)}], entries[Max(s)])]
  BY <1>6, <1>7
<1>9. \A s \in SUBSET (1..n) : s # {} /\ f[s \ {Max(s)}] \in V =>
        f[s] = op[<<f[s \ {Max(s)}], Max(s)>>]
  <2> SUFFICES ASSUME NEW s \in SUBSET (1..n), s # {}, f[s \ {Max(s)}] \in V
               PROVE  f[s] = op[<<f[s \ {Max(s)}], Max(s)>>]
    OBVIOUS
  <2>1. f[s] = AddModule(f[s \ {Max(s)}], entries[Max(s)]) BY <1>8
  <2>2. Max(s) \in 1..n BY MaxIn
  <2>3. QED BY <1>4, <2>1, <2>2
<1>10. Unfolds(f, n, V, op, base)
  <2>1. f[{}] = base BY <1>8
  <2>2. QED BY <1>9, <2>1 DEF Unfolds
<1>11. Goes(f, n, V, op, base)
  <2>1. n \in Nat /\ base \in V BY <1>1, <1>3
  <2>2. QED BY <1>5, <1>10, <2>1, SequenceFoldRun, Zenon
<1>12. PICK run : /\ run \in [0..n -> V]
                  /\ run[0] = base
                  /\ \A k \in 1..n : run[k] = op[<<run[k - 1], k>>]
                  /\ f[1..n] = run[n]
  BY <1>11 DEF Goes, IsRun
<1>13. ASSUME NEW k \in 1..n PROVE run[k] = AddModule(run[k - 1], entries[k])
  <2>1. k - 1 \in 0..n OBVIOUS
  <2>2. PICK v \in V : v = run[k - 1] BY <1>12, <2>1
  <2>3. run[k] = op[<<v, k>>] BY <1>12, <2>2
  <2>4. QED BY <1>4, <2>2, <2>3
<1>14. QED BY <1>1, <1>2, <1>3, <1>6, <1>12, <1>13 DEF Run

-----------------------------------------------------------------------------
(* There are values only of a spec. *)

Composed ==
  values # NoValues =>
    /\ chartSpec \in ChartSpecs
    /\ \E hosts : values = SetChartDefaultValues(Convert(chartSpec), hosts)

LEMMA ComposedStep == Composed /\ [Next]_preflightVars => Composed'
<1> SUFFICES ASSUME Composed, [Next]_preflightVars PROVE Composed'
  OBVIOUS
<1>1. CASE ComposeValues
  <2>1. PICK spec \in ChartSpecs, masters \in NodeLists, controlPlane \in NodeLists :
          /\ chartSpec' = spec
          /\ values' = SetChartDefaultValues(Convert(spec),
                                             FirstAddresses(Masters(masters, controlPlane)))
    BY <1>1 DEF ComposeValues
  <2>2. \E hosts : values' = SetChartDefaultValues(Convert(chartSpec'), hosts) BY <2>1
  <2>3. QED BY <2>1, <2>2 DEF Composed
<1>2. CASE UNCHANGED <<chartSpec, values>> BY <1>2 DEF Composed
<1>3. CASE values' = NoValues BY <1>3 DEF Composed
<1>4. QED
  BY <1>1, <1>2, <1>3
  DEF Next, Fetch, AddressPanics, SyncAgain, OperatorDies, ServerFails, preflightVars

LEMMA AlwaysComposed == Spec => []Composed
<1>1. Init => Composed BY DEF Init, Composed
<1>2. QED BY <1>1, ComposedStep, PTL DEF Spec

-----------------------------------------------------------------------------
(* The jobs' images *)

LEMMA SpecShape ==
  ASSUME NEW spec \in ChartSpecs
  PROVE  /\ spec.images \in ImageSettings
         /\ spec.modules \in Seq(ModuleEntries)
         /\ Len(spec.modules) \in Nat
         /\ DOMAIN spec.modules = 1..Len(spec.modules)
<1>1. spec \in [images : ImageSettings, modules : Seq(ModuleEntries), serviceType : STRING]
  BY PreflightAssumption
<1>2. QED BY <1>1

LEMMA ConvertIs ==
  ASSUME NEW spec
  PROVE  Convert(spec) = [Folded(spec.images, spec.modules)
                            EXCEPT !["apiServer"].serviceType = spec.serviceType]
BY DEF Convert, Folded, Globals

\* Every image is put together from a registry, a repository and a tag.
LEMMA ImageParts ==
  ASSUME NEW images, NEW entries, NEW mods \in Modules(images, entries), NEW m \in ModuleNames
  PROVE  \E registry, repository, tag : mods[m].image = Image(registry, repository, tag)
<1>1. \/ \E j \in ModuleNames : mods[m].image = GlobalImage(images, j)
      \/ \E i \in DOMAIN entries : mods[m].image = ParseImage(entries[i].image)
  BY DEF Modules
<1>2. ASSUME NEW j \in ModuleNames
      PROVE  \E registry, repository, tag : GlobalImage(images, j) = Image(registry, repository, tag)
  <2>1. CASE j \in Karmada BY <2>1 DEF GlobalImage
  <2>2. CASE j = "etcd" BY <2>2 DEF GlobalImage, Karmada
  <2>3. CASE j \in Kubernates \ {"etcd"} BY <2>3 DEF GlobalImage, Karmada, Kubernates
  <2>4. CASE j \in DockerIo BY <2>4 DEF GlobalImage, Karmada, Kubernates, DockerIo
  <2>5. QED BY <2>1, <2>2, <2>3, <2>4 DEF ModuleNames
<1>3. ASSUME NEW ref
      PROVE  \E registry, repository, tag : ParseImage(ref) = Image(registry, repository, tag)
  BY DEF ParseImage
<1>4. QED BY <1>1, <1>2, <1>3

Whole(image) == image.registry # <<>> /\ image.repository # <<>> /\ image.tag # <<>>

LEMMA JobImageFilled ==
  ASSUME NEW registry, NEW repository, NEW tag, NEW m \in DockerIo
  PROVE  Whole(JobImage(Image(registry, repository, tag), JobDefaults[m]))
<1>1. Whole(JobDefaults[m])
  <2>1. CASE m = "kubectl" BY <2>1 DEF JobDefaults, Image, Whole
  <2>2. CASE m = "cfssl" BY <2>2 DEF JobDefaults, Image, Whole
  <2>3. QED BY <2>1, <2>2 DEF DockerIo
<1>2. QED BY <1>1 DEF JobImage, Image, Whole

LEMMA JobImagesOf ==
  ASSUME NEW spec \in ChartSpecs, NEW hosts, NEW m \in DockerIo
  PROVE  Whole(SetChartDefaultValues(Convert(spec), hosts).modules[m].image)
<1>1. PICK mods : mods = Folded(spec.images, spec.modules) OBVIOUS
<1>2. mods \in Modules(spec.images, spec.modules)
  <2>1. PICK run : /\ Run(run, spec.images, spec.modules)
                   /\ mods = run[Len(spec.modules)]
    BY <1>1, SpecShape, FoldRuns
  <2>2. QED BY <2>1, SpecShape DEF Run
<1>3. m \in ModuleNames /\ m # "apiServer" BY DEF ModuleNames, DockerIo
<1>4. Convert(spec)[m] = mods[m]
  <2>1. DOMAIN mods = ModuleNames BY <1>2 DEF Modules
  <2>2. QED BY <1>1, <1>3, <2>1, ConvertIs
<1>5. PICK registry, repository, tag : mods[m].image = Image(registry, repository, tag)
  BY <1>2, <1>3, ImageParts
<1>6. PICK image : image = JobImage(mods[m].image, JobDefaults[m]) OBVIOUS
<1>7. SetChartDefaultValues(Convert(spec), hosts).modules[m] = [mods[m] EXCEPT !.image = image]
  <2>1. SetChartDefaultValues(Convert(spec), hosts).modules[m] = ModuleDefaults(mods[m], m)
    BY <1>3, <1>4 DEF SetChartDefaultValues
  <2>2. ModuleDefaults(mods[m], m) = [mods[m] EXCEPT !.image = image]
    <3>1. PICK module : module = mods[m] OBVIOUS
    <3>2. m # "apiServer" /\ m \in DockerIo /\ m \notin Karmada BY DEF DockerIo, Karmada
    <3>3. ModuleDefaults(module, m) =
            [module EXCEPT !.image = JobImage(module.image, JobDefaults[m])]
      BY <3>2 DEF ModuleDefaults
    <3>4. QED BY <1>6, <3>1, <3>3
  <2>3. QED BY <2>1, <2>2
<1>8. SetChartDefaultValues(Convert(spec), hosts).modules[m].image = image
  <2>1. "image" \in DOMAIN mods[m] BY <1>2, <1>3 DEF Modules
  <2>2. QED BY <1>7, <2>1
<1>9. QED BY <1>5, <1>6, <1>8, JobImageFilled

\* Whatever spec.images and the entries settle for kubectl and cfssl, of any spec: the
\* jobs of the chart have a whole image (SetChartDefaultValues).
THEOREM JobsHaveImages == Spec => []JobImagesComplete
<1>1. Composed => JobImagesComplete
  <2> SUFFICES ASSUME Composed, values # NoValues, NEW m \in DockerIo
               PROVE  <<>> \notin {values.modules[m].image.registry,
                                   values.modules[m].image.repository,
                                   values.modules[m].image.tag}
    BY DEF JobImagesComplete
  <2>1. PICK hosts : values = SetChartDefaultValues(Convert(chartSpec), hosts) BY DEF Composed
  <2>2. chartSpec \in ChartSpecs BY DEF Composed
  <2>3. Whole(values.modules[m].image)
    <3>1. PICK spec \in ChartSpecs : spec = chartSpec BY <2>2
    <3>2. Whole(SetChartDefaultValues(Convert(spec), hosts).modules[m].image) BY JobImagesOf
    <3>3. QED BY <2>1, <3>1, <3>2
  <2>4. QED BY <2>3 DEF Whole
<1>2. QED BY <1>1, AlwaysComposed, PTL

-----------------------------------------------------------------------------
(* The entries of a module, and what the fold makes of them alone *)

TakeOwn(own, entry, m) == IF entry.name = m THEN Append(own, entry) ELSE own

\* The entries of m among the first ones of a spec, by their number.
OwnRun(run, entries, m) ==
  /\ \A k \in 0..Len(entries) : run[k] \in Seq(ModuleEntries)
  /\ run[0] = <<>>
  /\ \A k \in 1..Len(entries) : run[k] = TakeOwn(run[k - 1], entries[k], m)

LEMMA OwnRuns ==
  ASSUME NEW spec \in ChartSpecs, NEW m
  PROVE  \E run : OwnRun(run, spec.modules, m) /\ Own(spec, m) = run[Len(spec.modules)]
<1>1. PICK entries \in Seq(ModuleEntries) : entries = spec.modules BY SpecShape
<1>2. PICK n \in Nat : n = Len(entries) BY <1>1
<1>3. DOMAIN entries = 1..n BY <1>1, <1>2
<1>4. PICK V : V = Seq(ModuleEntries) OBVIOUS
<1>5. PICK base \in V : base = <<>>
  <2>1. <<>> \in Seq(ModuleEntries) OBVIOUS
  <2>2. QED BY <1>4, <2>1
<1>6. PICK op : op = [p \in V \X (1..n) |-> TakeOwn(p[1], entries[p[2]], m)] OBVIOUS
<1>7. op \in [V \X (1..n) -> V]
  <2>1. ASSUME NEW own \in Seq(ModuleEntries), NEW i \in 1..n
        PROVE  TakeOwn(own, entries[i], m) \in Seq(ModuleEntries)
    <3>1. entries[i] \in ModuleEntries BY <1>1, <1>2, <1>3
    <3>2. QED BY <3>1 DEF TakeOwn
  <2>2. QED BY <1>4, <1>6, <2>1
<1>8. PICK f : /\ Own(spec, m) = f[1..n]
               /\ f = CHOOSE g : g = [s \in SUBSET (1..n) |->
                        IF s = {} THEN base
                        ELSE TakeOwn(g[s \ {Max(s)}], entries[Max(s)], m)]
  <2>1. Own(spec, m) =
          (CHOOSE g : g = [s \in SUBSET (DOMAIN entries) |->
             IF s = {} THEN <<>>
             ELSE TakeOwn(g[s \ {Max(s)}], entries[Max(s)], m)])[DOMAIN entries]
    BY <1>1 DEF Own, FoldLeft, MapThenFoldSet, TakeOwn
  <2>2. Own(spec, m) =
          (CHOOSE g : g = [s \in SUBSET (1..n) |->
             IF s = {} THEN base
             ELSE TakeOwn(g[s \ {Max(s)}], entries[Max(s)], m)])[1..n]
    BY <1>3, <1>5, <2>1, Zenon
  <2>3. QED BY <2>2
<1>9. \E g : g = [s \in SUBSET (1..n) |->
                IF s = {} THEN base ELSE TakeOwn(g[s \ {Max(s)}], entries[Max(s)], m)]
  <2>1. PICK g : SequenceFold(g, n, V, op, base) BY <1>2, <1>5, <1>7, SequenceFoldExists
  <2>2. g = [s \in SUBSET (1..n) |->
               IF s = {} THEN base ELSE TakeOwn(g[s \ {Max(s)}], entries[Max(s)], m)]
    BY <1>6, <2>1 DEF SequenceFold
  <2>3. QED BY <2>2
<1>10. f = [s \in SUBSET (1..n) |->
              IF s = {} THEN base ELSE TakeOwn(f[s \ {Max(s)}], entries[Max(s)], m)]
  BY <1>8, <1>9
<1>11. Unfolds(f, n, V, op, base)
  <2>1. f[{}] = base BY <1>10
  <2>2. ASSUME NEW s \in SUBSET (1..n), s # {}, f[s \ {Max(s)}] \in V
        PROVE  f[s] = op[<<f[s \ {Max(s)}], Max(s)>>]
    <3>1. f[s] = TakeOwn(f[s \ {Max(s)}], entries[Max(s)], m) BY <1>10, <2>2
    <3>2. Max(s) \in 1..n BY <1>2, <2>2, MaxIn
    <3>3. QED BY <1>6, <2>2, <3>1, <3>2
  <2>3. QED BY <2>1, <2>2 DEF Unfolds
<1>12. Goes(f, n, V, op, base)
  <2>1. n \in Nat /\ base \in V BY <1>2, <1>5
  <2>2. QED BY <1>7, <1>11, <2>1, SequenceFoldRun, Zenon
<1>13. PICK run : /\ run \in [0..n -> V]
                  /\ run[0] = base
                  /\ \A k \in 1..n : run[k] = op[<<run[k - 1], k>>]
                  /\ f[1..n] = run[n]
  BY <1>12 DEF Goes, IsRun
<1>14. ASSUME NEW k \in 1..n PROVE run[k] = TakeOwn(run[k - 1], entries[k], m)
  <2>1. k - 1 \in 0..n BY <1>2
  <2>2. PICK v \in V : v = run[k - 1] BY <1>13, <2>1
  <2>3. run[k] = op[<<v, k>>] BY <1>13, <2>2
  <2>4. QED BY <1>6, <2>2, <2>3
<1>15. OwnRun(run, entries, m)
  BY <1>2, <1>4, <1>5, <1>13, <1>14 DEF OwnRun
<1>16. QED BY <1>1, <1>2, <1>8, <1>13, <1>15

\* Two runs that are given the same entries agree.
LEMMA RunsAgree ==
  ASSUME NEW images, NEW s \in Seq(ModuleEntries), NEW e \in ModuleEntries, NEW r, NEW q,
         Run(r, images, s), Run(q, images, Append(s, e))
  PROVE  r[Len(s)] = q[Len(s)]
<1> DEFINE Same == {k \in 0..Len(s) : r[k] = q[k]}
<1>1. PICK n \in Nat : n = Len(s) OBVIOUS
<1>2. Len(Append(s, e)) = n + 1 /\ \A k \in 1..n : Append(s, e)[k] = s[k] BY <1>1
<1>3. 0 \in Same BY <1>1 DEF Run
<1>4. ASSUME NEW k \in 1..n, k - 1 \in Same PROVE k \in Same
  <2>1. r[k - 1] = q[k - 1] BY <1>4
  <2>2. k \in 1..Len(Append(s, e)) BY <1>2
  <2>3. r[k] = AddModule(r[k - 1], s[k]) BY <1>1 DEF Run
  <2>4. q[k] = AddModule(q[k - 1], Append(s, e)[k]) BY <2>2 DEF Run
  <2>5. r[k] = q[k] BY <1>2, <2>1, <2>3, <2>4
  <2>6. k \in 0..Len(s) BY <1>1
  <2>7. QED BY <2>5, <2>6
<1>5. \A k \in 0..n : k \in Same
  <2> HIDE DEF Same
  <2>1. QED BY <1>3, <1>4, RangeSet
<1>6. n \in Same BY <1>5
<1>7. QED BY <1>1, <1>6

LEMMA EntriesShape ==
  ASSUME NEW s \in Seq(ModuleEntries)
  PROVE  Len(s) \in Nat /\ DOMAIN s = 1..Len(s)
OBVIOUS

LEMMA FoldAppend ==
  ASSUME NEW images, NEW s \in Seq(ModuleEntries), NEW e \in ModuleEntries
  PROVE  Folded(images, Append(s, e)) = AddModule(Folded(images, s), e)
<1>1. PICK se \in Seq(ModuleEntries) : se = Append(s, e)
  <2>1. Append(s, e) \in Seq(ModuleEntries) OBVIOUS
  <2>2. QED BY <2>1
<1>2. PICK n \in Nat : n = Len(s) OBVIOUS
<1>3. Len(se) = n + 1 /\ se[n + 1] = e BY <1>1, <1>2
<1>4. PICK r : Run(r, images, s) /\ Folded(images, s) = r[n]
  BY <1>2, EntriesShape, FoldRuns
<1>5. PICK q : Run(q, images, se) /\ Folded(images, se) = q[n + 1]
  BY <1>3, EntriesShape, FoldRuns
<1>6. r[n] = q[n] BY <1>1, <1>2, <1>4, <1>5, RunsAgree
<1>7. n + 1 \in 1..Len(se) /\ (n + 1) - 1 = n BY <1>3
<1>8. q[n + 1] = AddModule(q[n], se[n + 1])
  <2>1. q[n + 1] = AddModule(q[(n + 1) - 1], se[n + 1]) BY <1>5, <1>7 DEF Run
  <2>2. QED BY <1>7, <2>1
<1>9. QED BY <1>1, <1>3, <1>4, <1>5, <1>6, <1>8

LEMMA FoldEmpty ==
  ASSUME NEW images
  PROVE  Folded(images, <<>>) = Globals(images)
<1>1. PICK s \in Seq(ModuleEntries) : s = <<>> /\ Len(s) = 0
  <2>1. <<>> \in Seq(ModuleEntries) /\ Len(<<>>) = 0 OBVIOUS
  <2>2. QED BY <2>1
<1>2. PICK r : Run(r, images, s) /\ Folded(images, s) = r[0]
  BY <1>1, EntriesShape, FoldRuns
<1>3. QED BY <1>1, <1>2 DEF Run

\* An entry of another module leaves m as it is; what one of m makes of it depends
\* on m alone.
LEMMA AddModuleOfOne ==
  ASSUME NEW images, NEW s, NEW mods \in Modules(images, s), NEW i \in DOMAIN s,
         NEW m \in ModuleNames
  PROVE  AddModule(mods, s[i])[m] = IF s[i].name = m THEN Given(mods[m], s[i]) ELSE mods[m]
<1>1. CASE s[i].name = m BY <1>1, AddModuleType
<1>2. CASE s[i].name # m BY <1>2, AddModuleType
<1>3. QED BY <1>1, <1>2

\* What the fold makes of m is what it makes of it of the entries of m alone.
LEMMA FoldOfOwn ==
  ASSUME NEW spec \in ChartSpecs, NEW m \in ModuleNames
  PROVE  Folded(spec.images, spec.modules)[m] = Folded(spec.images, Own(spec, m))[m]
<1>1. PICK images : images = spec.images OBVIOUS
<1>2. PICK entries \in Seq(ModuleEntries) : entries = spec.modules BY SpecShape
<1>3. PICK n \in Nat : n = Len(entries) BY <1>2
<1>4. DOMAIN entries = 1..n BY <1>2, <1>3
<1>5. PICK r : Run(r, images, entries) /\ Folded(images, entries) = r[n]
  BY <1>2, <1>3, EntriesShape, FoldRuns
<1>6. PICK own : OwnRun(own, entries, m) /\ Own(spec, m) = own[n]
  BY <1>2, <1>3, OwnRuns
<1> DEFINE Alone == {k \in 0..n : r[k][m] = Folded(images, own[k])[m]}
<1>7. 0 \in Alone
  <2>1. r[0] = Globals(images) /\ own[0] = <<>> BY <1>5, <1>6 DEF Run, OwnRun
  <2>2. 0 \in 0..n OBVIOUS
  <2>3. QED BY <2>1, <2>2, FoldEmpty
<1>8. ASSUME NEW k \in 1..n, k - 1 \in Alone PROVE k \in Alone
  <2>1. r[k - 1][m] = Folded(images, own[k - 1])[m] BY <1>8
  <2>2. k - 1 \in 0..n /\ k \in 0..n BY <1>3
  <2>3. PICK mods \in Modules(images, entries) : mods = r[k - 1]
    BY <1>3, <1>5, <2>2 DEF Run
  <2>4. PICK s \in Seq(ModuleEntries) : s = own[k - 1] BY <1>3, <1>6, <2>2 DEF OwnRun
  <2>5. PICK e \in ModuleEntries : e = entries[k] BY <1>2, <1>3
  <2>6. r[k] = AddModule(mods, entries[k]) BY <1>3, <1>5, <2>3 DEF Run
  <2>7. own[k] = TakeOwn(s, e, m) BY <1>3, <1>6, <2>4, <2>5 DEF OwnRun
  <2>8. r[k][m] = IF e.name = m THEN Given(mods[m], e) ELSE mods[m]
    <3>1. k \in DOMAIN entries BY <1>4
    <3>2. AddModule(mods, entries[k])[m] =
            IF entries[k].name = m THEN Given(mods[m], entries[k]) ELSE mods[m]
      BY <3>1, AddModuleOfOne
    <3>3. QED BY <2>5, <2>6, <3>2
  <2>9. CASE e.name # m BY <2>1, <2>2, <2>3, <2>4, <2>7, <2>8, <2>9 DEF TakeOwn
  <2>10. CASE e.name = m
    <3>1. own[k] = Append(s, e) BY <2>7, <2>10 DEF TakeOwn
    <3>2. Folded(images, own[k]) = AddModule(Folded(images, s), e) BY <3>1, FoldAppend
    <3>3. PICK se \in Seq(ModuleEntries) : se = Append(s, e)
      <4>1. Append(s, e) \in Seq(ModuleEntries) OBVIOUS
      <4>2. QED BY <4>1
    <3>4. PICK i \in DOMAIN se : se[i] = e
      <4>1. Len(s) + 1 \in DOMAIN se /\ se[Len(s) + 1] = e BY <3>3
      <4>2. QED BY <4>1
    <3>5. PICK q : Run(q, images, s) /\ Folded(images, s) = q[Len(s)]
      BY EntriesShape, FoldRuns
    <3>6. Folded(images, s) \in Modules(images, se)
      <4>1. Folded(images, s) \in Modules(images, s) BY <3>5, EntriesShape DEF Run
      <4>2. \A j \in DOMAIN s : j \in DOMAIN se /\ se[j] = s[j] BY <3>3
      <4>3. Modules(images, s) \subseteq Modules(images, se)
        <5>1. /\ {s[j].replicas : j \in DOMAIN s} \subseteq {se[j].replicas : j \in DOMAIN se}
              /\ {ParseImage(s[j].image) : j \in DOMAIN s} \subseteq
                   {ParseImage(se[j].image) : j \in DOMAIN se}
          BY <4>2
        <5>2. QED BY <5>1 DEF Modules
      <4>4. QED BY <4>1, <4>3
    <3>7. AddModule(Folded(images, s), se[i])[m] = Given(Folded(images, s)[m], se[i])
      BY <2>10, <3>4, <3>6, AddModuleOfOne
    <3>8. r[k][m] = Folded(images, own[k])[m]
      BY <2>1, <2>3, <2>4, <2>8, <2>10, <3>2, <3>4, <3>7
    <3>9. QED BY <2>2, <3>8
  <2>11. QED BY <2>9, <2>10
<1>9. \A k \in 0..n : k \in Alone
  <2> HIDE DEF Alone
  <2>1. QED BY <1>7, <1>8, RangeSet
<1>10. n \in Alone BY <1>9
<1>11. QED BY <1>1, <1>2, <1>5, <1>6, <1>10

\* The service type is that of the API server; then the defaults.
Completed(module, name, serviceType) ==
  ModuleDefaults(IF name = "apiServer" THEN [module EXCEPT !.serviceType = serviceType]
                 ELSE module, name)

\* What the chart is given for m is what the fold makes of m, completed.
LEMMA ValuesOfModule ==
  ASSUME NEW spec, NEW mods, NEW hosts, NEW m \in ModuleNames,
         mods = Folded(spec.images, spec.modules), DOMAIN mods = ModuleNames
  PROVE  SetChartDefaultValues(Convert(spec), hosts).modules[m] =
           Completed(mods[m], m, spec.serviceType)
<1>1. Convert(spec) = [mods EXCEPT !["apiServer"].serviceType = spec.serviceType] BY ConvertIs
<1>2. Convert(spec)[m] = IF m = "apiServer"
                         THEN [mods[m] EXCEPT !.serviceType = spec.serviceType] ELSE mods[m]
  BY <1>1
<1>3. QED BY <1>2 DEF SetChartDefaultValues, Completed

LEMMA FoldDomain ==
  ASSUME NEW images, NEW s \in Seq(ModuleEntries)
  PROVE  DOMAIN Folded(images, s) = ModuleNames
<1>1. PICK q : Run(q, images, s) /\ Folded(images, s) = q[Len(s)] BY EntriesShape, FoldRuns
<1>2. q[Len(s)] \in Modules(images, s) BY <1>1, EntriesShape DEF Run
<1>3. QED BY <1>1, <1>2 DEF Modules

\* Whatever the entries of the other modules, and wherever they stand among those of m,
\* of any spec: what the chart is given for m is what it would be given for it of the
\* entries of m alone (Convert_KarmadaDeployment_To_Values).
THEOREM ModulesAreIndependent == Spec => []ModulesIndependent
<1>1. Composed => ModulesIndependent
  <2> SUFFICES ASSUME Composed, values # NoValues, NEW m \in ModuleNames
               PROVE  values.modules[m] =
                        SetChartDefaultValues(
                          Convert([chartSpec EXCEPT !.modules = Own(chartSpec, m)]), {}).modules[m]
    BY DEF ModulesIndependent
  <2>1. PICK hosts : values = SetChartDefaultValues(Convert(chartSpec), hosts) BY DEF Composed
  <2>2. PICK spec \in ChartSpecs : spec = chartSpec BY DEF Composed
  <2>3. PICK alone : alone = [spec EXCEPT !.modules = Own(spec, m)] OBVIOUS
  <2>4. spec \in [images : ImageSettings, modules : Seq(ModuleEntries), serviceType : STRING]
    BY PreflightAssumption
  <2>5. /\ alone.images = spec.images /\ alone.serviceType = spec.serviceType
        /\ alone.modules = Own(spec, m)
    BY <2>3, <2>4
  <2>6. Own(spec, m) \in Seq(ModuleEntries)
    <3>1. PICK run : OwnRun(run, spec.modules, m) /\ Own(spec, m) = run[Len(spec.modules)]
      BY OwnRuns
    <3>2. QED BY <3>1, SpecShape DEF OwnRun
  <2>7. PICK mods : mods = Folded(spec.images, spec.modules) OBVIOUS
  <2>8. PICK mine : mine = Folded(alone.images, alone.modules) OBVIOUS
  <2>9. DOMAIN mods = ModuleNames /\ DOMAIN mine = ModuleNames
    BY <2>4, <2>5, <2>6, <2>7, <2>8, FoldDomain
  <2>10. mods[m] = mine[m] BY <2>5, <2>7, <2>8, FoldOfOwn
  <2>11. SetChartDefaultValues(Convert(spec), hosts).modules[m] =
           Completed(mods[m], m, spec.serviceType)
    BY <2>7, <2>9, ValuesOfModule
  <2>12. SetChartDefaultValues(Convert(alone), {}).modules[m] =
           Completed(mine[m], m, alone.serviceType)
    BY <2>8, <2>9, ValuesOfModule
  <2>13. QED BY <2>1, <2>2, <2>3, <2>5, <2>10, <2>11, <2>12
<1>2. QED BY <1>1, AlwaysComposed, PTL

-----------------------------------------------------------------------------
(* References: what is cut is put together again *)

\* A part of a prefix is that part of the whole.
LEMMA PartOfPrefix ==
  ASSUME NEW S, NEW s \in Seq(S), NEW k \in 0..Len(s), NEW a \in 1..(k + 1), NEW b \in (a - 1)..k
  PROVE  SubSeq(SubSeq(s, 1, k), a, b) = SubSeq(s, a, b)
<1>1. Len(s) \in Nat /\ k \in Nat /\ a \in Nat /\ b \in Nat OBVIOUS
<1>2. CASE b < a BY <1>1, <1>2, SubSeqEmpty
<1>3. CASE a <= b
  <2>1. 1 \in 1..Len(s) /\ k \in 1..Len(s) /\ a \in 1..(k - 1 + 1) /\ b \in 1..(k - 1 + 1)
    BY <1>1, <1>3
  <2>2. SubSeq(SubSeq(s, 1, k), a, b) = SubSeq(s, 1 + a - 1, 1 + b - 1)
    BY <2>1, SubSeqOfSubSeq
  <2>3. 1 + a - 1 = a /\ 1 + b - 1 = b BY <1>1
  <2>4. QED BY <2>2, <2>3
<1>4. QED BY <1>1, <1>2, <1>3

LEMMA PrefixShape ==
  ASSUME NEW S, NEW s \in Seq(S), NEW k \in 0..Len(s)
  PROVE  /\ SubSeq(s, 1, k) \in Seq(S) /\ Len(SubSeq(s, 1, k)) = k
         /\ \A i \in 1..k : SubSeq(s, 1, k)[i] = s[i]
<1>1. Len(s) \in Nat /\ k \in Int /\ 1 \in Int /\ \A i \in 1..k : s[i] \in S OBVIOUS
<1>2. /\ SubSeq(s, 1, k) \in Seq(S)
      /\ Len(SubSeq(s, 1, k)) = IF 1 <= k THEN k - 1 + 1 ELSE 0
      /\ \A i \in 1..(k - 1 + 1) : SubSeq(s, 1, k)[i] = s[1 + i - 1]
  BY <1>1, SubSeqProperties
<1>3. QED BY <1>1, <1>2

\* The separator at k, and the part up to l, after what precedes them.
LEMMA JoinAt ==
  ASSUME NEW S, NEW s \in Seq(S), NEW k \in 1..Len(s), NEW l \in k..Len(s)
  PROVE  (SubSeq(s, 1, k - 1) \o <<s[k]>>) \o SubSeq(s, k + 1, l) = SubSeq(s, 1, l)
<1>1. Len(s) \in Nat /\ k \in Nat /\ l \in Nat OBVIOUS
<1>2. 1 \in 1..Len(s) /\ k \in 1..Len(s) /\ 1 \in 1..(Len(s) + 1) /\ k \in (1 - 1)..Len(s)
  BY <1>1
<1>3. SubSeq(s, 1, k - 1) \o <<s[k]>> = SubSeq(s, 1, k) BY <1>2, SubSeqRecursiveSecond
<1>4. SubSeq(s, 1, k) \o SubSeq(s, k + 1, l) = SubSeq(s, 1, l) BY <1>2, ConcatAdjacentSubSeq
<1>5. QED BY <1>3, <1>4

\* The last and the first position of t, without the operators on tests that the
\* community modules define them with.
LastOf(s, t) ==
  LET I == {i \in 1..Len(s) : s[i] = t}
  IN  IF I # {} THEN Max(I) ELSE 0

FirstOf(s, t) ==
  LET I == {i \in 1..Len(s) : s[i] = t}
  IN  IF I # {} THEN Min(I) ELSE 0

LEMMA LastPosition ==
  ASSUME NEW S, NEW s \in Seq(S), NEW t
  PROVE  LastOf(s, t) = 0 \/ (LastOf(s, t) \in 1..Len(s) /\ s[LastOf(s, t)] = t)
<1> DEFINE I == {i \in 1..Len(s) : s[i] = t}
<1>1. LastOf(s, t) = IF I # {} THEN Max(I) ELSE 0 BY DEF LastOf
<1>2. I # {} => Max(I) \in I
  <2>1. Len(s) \in Nat /\ I \in SUBSET (1..Len(s)) OBVIOUS
  <2> HIDE DEF I
  <2>2. QED BY <2>1, MaxIn
<1>3. QED BY <1>1, <1>2

LEMMA FirstPosition ==
  ASSUME NEW S, NEW s \in Seq(S), NEW t
  PROVE  FirstOf(s, t) = 0 \/ (FirstOf(s, t) \in 1..Len(s) /\ s[FirstOf(s, t)] = t)
<1> DEFINE I == {i \in 1..Len(s) : s[i] = t}
<1>1. FirstOf(s, t) = IF I # {} THEN Min(I) ELSE 0 BY DEF FirstOf
<1>2. I # {} => Min(I) \in I
  <2>1. Len(s) \in Nat /\ I \in SUBSET (1..Len(s)) OBVIOUS
  <2> HIDE DEF I
  <2>2. QED BY <2>1, MinIn
<1>3. QED BY <1>1, <1>2

\* A reference with a tag survives the cuts at ":" and "/", and its tag is only a tag.
LEMMA ReferenceSurvives ==
  ASSUME NEW S, NEW ref \in Seq(S), Tagged(ref)
  PROVE  Reference(ParseImage(ref)) = ref /\ ~Contains(ParseImage(ref).tag, "/")
<1>1. PICK n \in Nat : n = Len(ref) OBVIOUS
<1>2. PICK c : c = LastOf(ref, ":") OBVIOUS
<1>3. 1 < c /\ c < n /\ ref[1] # "/" /\ \A i \in c..n : ref[i] # "/"
  BY <1>1, <1>2 DEF Tagged, LastOf, SelectLastInSeq
<1>4. c \in 2..(n - 1) /\ ref[c] = ":"
  <2>1. c = 0 \/ (c \in 1..n /\ ref[c] = ":") BY <1>1, <1>2, LastPosition
  <2>2. QED BY <1>1, <1>3, <2>1
<1>5. PICK path : path = SubSeq(ref, 1, c - 1) OBVIOUS
<1>6. path \in Seq(S) /\ Len(path) = c - 1 /\ \A i \in 1..(c - 1) : path[i] = ref[i]
  <2>1. c - 1 \in 0..Len(ref) BY <1>1, <1>4
  <2>2. QED BY <1>5, <2>1, PrefixShape
<1>7. PICK tag : tag = SubSeq(ref, c + 1, n) OBVIOUS
<1>8. /\ tag \in Seq(S) /\ Len(tag) = n - c
      /\ \A i \in 1..(n - c) : tag[i] = ref[c + i]
  <2>1. c + 1 \in Int /\ n \in Int /\ \A i \in (c + 1)..n : ref[i] \in S BY <1>1, <1>4
  <2>2. /\ tag \in Seq(S)
        /\ Len(tag) = IF c + 1 <= n THEN n - (c + 1) + 1 ELSE 0
        /\ \A i \in 1..(n - (c + 1) + 1) : tag[i] = ref[(c + 1) + i - 1]
    BY <1>7, <2>1, SubSeqProperties
  <2>3. \A i \in 1..(n - c) : (c + 1) + i - 1 = c + i BY <1>1, <1>4
  <2>4. n - (c + 1) + 1 = n - c BY <1>1, <1>4
  <2>5. QED BY <1>1, <1>4, <2>2, <2>3, <2>4
<1>9. tag # <<>> BY <1>1, <1>4, <1>8
<1>10. ~Contains(tag, "/")
  <2> SUFFICES ASSUME NEW i \in 1..Len(tag), tag[i] = "/" PROVE FALSE
    BY DEF Contains
  <2>1. tag[i] = ref[c + i] /\ c + i \in c..n BY <1>1, <1>4, <1>8
  <2>2. QED BY <1>3, <2>1
<1>11. PICK slash : slash = FirstOf(path, "/") OBVIOUS
<1>12. slash = 0 \/ (slash \in 2..(c - 1) /\ ref[slash] = "/")
  <2>1. slash = 0 \/ (slash \in 1..Len(path) /\ path[slash] = "/") BY <1>6, <1>11, FirstPosition
  <2>2. QED BY <1>3, <1>4, <1>6, <2>1
<1>13. PICK image :
         /\ image = ParseImage(ref)
         /\ image = IF slash > 0
                    THEN Image(SubSeq(path, 1, slash - 1), SubSeq(path, slash + 1, Len(path)), tag)
                    ELSE Image(<<>>, path, tag)
  <2>1. ParseImage(ref) =
          IF slash > 0
          THEN Image(SubSeq(path, 1, slash - 1), SubSeq(path, slash + 1, Len(path)), tag)
          ELSE Image(<<>>, path, tag)
    BY <1>1, <1>2, <1>3, <1>5, <1>7, <1>11
    DEF ParseImage, LastOf, FirstOf, SelectLastInSeq, SelectInSeq
  <2>2. QED BY <2>1
<1>14. (path \o <<":">>) \o tag = ref
  <2>1. c \in 1..Len(ref) /\ n \in c..Len(ref) BY <1>1, <1>4
  <2>2. (path \o <<ref[c]>>) \o tag = SubSeq(ref, 1, n) BY <1>5, <1>7, <2>1, JoinAt
  <2>3. SubSeq(ref, 1, n) = ref BY <1>1, SubSeqFull
  <2>4. QED BY <1>4, <2>2, <2>3
<1>15. CASE slash = 0
  <2>1. image = Image(<<>>, path, tag) BY <1>13, <1>15
  <2>2. image.tag = tag /\ Reference(image) = (((<<>> \o <<>>) \o path) \o <<":">>) \o tag
    <3>1. image.registry = <<>> /\ image.repository = path /\ image.tag = tag BY <2>1 DEF Image
    <3>2. QED BY <1>9, <3>1 DEF Reference
  <2>3. (<<>> \o <<>>) \o path = path BY <1>6
  <2>4. QED BY <1>10, <1>13, <1>14, <2>2, <2>3
<1>16. CASE slash \in 2..(c - 1) /\ ref[slash] = "/"
  <2>1. PICK registry : registry = SubSeq(path, 1, slash - 1) OBVIOUS
  <2>2. PICK repository : repository = SubSeq(path, slash + 1, Len(path)) OBVIOUS
  <2>3. image = Image(registry, repository, tag) BY <1>4, <1>13, <1>16, <2>1, <2>2
  <2>4. /\ registry = SubSeq(ref, 1, slash - 1)
        /\ repository = SubSeq(ref, slash + 1, c - 1)
    <3>1. /\ c - 1 \in 0..Len(ref) /\ 1 \in 1..((c - 1) + 1)
          /\ slash - 1 \in (1 - 1)..(c - 1) /\ slash + 1 \in 1..((c - 1) + 1)
          /\ c - 1 \in ((slash + 1) - 1)..(c - 1)
      BY <1>1, <1>4, <1>16
    <3>2. SubSeq(SubSeq(ref, 1, c - 1), 1, slash - 1) = SubSeq(ref, 1, slash - 1)
      BY <3>1, PartOfPrefix
    <3>3. SubSeq(SubSeq(ref, 1, c - 1), slash + 1, c - 1) = SubSeq(ref, slash + 1, c - 1)
      BY <3>1, PartOfPrefix
    <3>4. QED BY <1>5, <1>6, <2>1, <2>2, <3>2, <3>3
  <2>5. registry # <<>>
    <3>1. slash - 1 \in 0..Len(ref) /\ slash - 1 > 0 BY <1>1, <1>4, <1>16
    <3>2. Len(registry) = slash - 1 BY <2>4, <3>1, PrefixShape
    <3>3. QED BY <3>1, <3>2
  <2>6. /\ image.tag = tag
        /\ Reference(image) = (((registry \o <<"/">>) \o repository) \o <<":">>) \o tag
    <3>1. image.registry = registry /\ image.repository = repository /\ image.tag = tag
      BY <2>3 DEF Image
    <3>2. QED BY <1>9, <2>5, <3>1 DEF Reference
  <2>7. (registry \o <<"/">>) \o repository = path
    <3>1. slash \in 1..Len(ref) /\ c - 1 \in slash..Len(ref) BY <1>1, <1>4, <1>16
    <3>2. (SubSeq(ref, 1, slash - 1) \o <<ref[slash]>>) \o SubSeq(ref, slash + 1, c - 1) =
            SubSeq(ref, 1, c - 1)
      BY <3>1, JoinAt
    <3>3. QED BY <1>5, <1>16, <2>4, <3>2
  <2>8. QED BY <1>10, <1>13, <1>14, <2>6, <2>7
<1>17. QED BY <1>12, <1>15, <1>16

-----------------------------------------------------------------------------
(* The image of a module *)

\* The entries of m with a reference among the first k.
GivenUpTo(entries, m, k) == {i \in 1..k : entries[i].name = m /\ entries[i].image # <<>>}

ImageUpTo(images, entries, m, k) ==
  IF GivenUpTo(entries, m, k) = {} THEN GlobalImage(images, m)
  ELSE ParseImage(entries[Max(GivenUpTo(entries, m, k))].image)

LEMMA ImageStep ==
  ASSUME NEW images, NEW entries, NEW m, NEW n \in Nat, NEW k \in 1..n
  PROVE  ImageUpTo(images, entries, m, k) =
           IF entries[k].name = m /\ entries[k].image # <<>> THEN ParseImage(entries[k].image)
           ELSE ImageUpTo(images, entries, m, k - 1)
<1>1. PICK now : now = GivenUpTo(entries, m, k) OBVIOUS
<1>2. PICK past : past = GivenUpTo(entries, m, k - 1) OBVIOUS
<1>3. CASE entries[k].name = m /\ entries[k].image # <<>>
  <2>1. k \in now /\ now \in SUBSET (1..n) /\ now # {} BY <1>1, <1>3 DEF GivenUpTo
  <2>2. Max(now) \in now /\ Max(now) >= k BY <2>1, MaxIn
  <2>3. Max(now) = k BY <1>1, <2>2 DEF GivenUpTo
  <2>4. QED BY <1>1, <1>3, <2>1, <2>3 DEF ImageUpTo
<1>4. CASE ~(entries[k].name = m /\ entries[k].image # <<>>)
  <2>1. now = past BY <1>1, <1>2, <1>4 DEF GivenUpTo
  <2>2. QED BY <1>1, <1>2, <1>4, <2>1 DEF ImageUpTo
<1>5. QED BY <1>3, <1>4

LEMMA ImageOfModule ==
  ASSUME NEW images, NEW entries \in Seq(ModuleEntries), NEW m \in ModuleNames
  PROVE  Folded(images, entries)[m].image = ImageUpTo(images, entries, m, Len(entries))
<1>1. PICK n \in Nat : n = Len(entries) OBVIOUS
<1>2. DOMAIN entries = 1..n BY <1>1
<1>3. PICK r : Run(r, images, entries) /\ Folded(images, entries) = r[n]
  BY <1>1, EntriesShape, FoldRuns
<1> DEFINE Decided == {k \in 0..n : r[k][m].image = ImageUpTo(images, entries, m, k)}
<1>4. 0 \in Decided
  <2>1. r[0] = Globals(images) BY <1>3 DEF Run
  <2>2. r[0][m].image = GlobalImage(images, m)
    <3>1. r[0][m] = [NoModule EXCEPT !.image = GlobalImage(images, m)] BY <2>1 DEF Globals
    <3>2. "image" \in DOMAIN NoModule BY DEF NoModule
    <3>3. QED BY <3>1, <3>2
  <2>3. GivenUpTo(entries, m, 0) = {} BY DEF GivenUpTo
  <2>4. 0 \in 0..n OBVIOUS
  <2>5. QED BY <2>2, <2>3, <2>4 DEF ImageUpTo
<1>5. ASSUME NEW k \in 1..n, k - 1 \in Decided PROVE k \in Decided
  <2>1. PICK before : before = ImageUpTo(images, entries, m, k - 1) OBVIOUS
  <2>2. r[k - 1][m].image = before BY <1>5, <2>1
  <2>3. k - 1 \in 0..n /\ k \in 0..n /\ k \in DOMAIN entries BY <1>1, <1>2
  <2>4. PICK mods \in Modules(images, entries) : mods = r[k - 1] BY <1>1, <1>3, <2>3 DEF Run
  <2>5. r[k] = AddModule(mods, entries[k]) BY <1>1, <1>3, <2>4 DEF Run
  <2>6. PICK e : e = entries[k] OBVIOUS
  <2>7. r[k][m] = IF e.name = m THEN Given(mods[m], e) ELSE mods[m]
    BY <2>3, <2>5, <2>6, AddModuleOfOne
  <2>8. Given(mods[m], e).image = IF e.image = <<>> THEN before ELSE ParseImage(e.image)
    <3>1. mods[m].image = before BY <2>2, <2>4
    <3>2. "image" \in DOMAIN mods[m] BY DEF Modules
    <3>3. QED BY <3>1, <3>2 DEF Given
  <2>9. r[k][m].image = IF e.name = m /\ e.image # <<>> THEN ParseImage(e.image) ELSE before
    <3>1. mods[m].image = before BY <2>2, <2>4
    <3>2. QED BY <2>7, <2>8, <3>1
  <2>10. ImageUpTo(images, entries, m, k) =
           IF e.name = m /\ e.image # <<>> THEN ParseImage(e.image) ELSE before
    <3>1. ImageUpTo(images, entries, m, k) =
            IF entries[k].name = m /\ entries[k].image # <<>> THEN ParseImage(entries[k].image)
            ELSE ImageUpTo(images, entries, m, k - 1)
      BY ImageStep
    <3>2. QED BY <2>1, <2>6, <3>1
  <2>11. QED BY <2>3, <2>9, <2>10
<1>6. \A k \in 0..n : k \in Decided
  <2> HIDE DEF Decided
  <2>1. QED BY <1>4, <1>5, RangeSet
<1>7. n \in Decided BY <1>6
<1>8. QED BY <1>1, <1>3, <1>7

\* The defaults leave the image of a module as it is, but for the jobs', of which
\* there are no entries.
LEMMA ImageKept ==
  ASSUME NEW images, NEW entries, NEW mods \in Modules(images, entries),
         NEW m \in ModuleNames \ DockerIo, NEW serviceType
  PROVE  LET kept == Completed(mods[m], m, serviceType).image
         IN  /\ kept.registry = mods[m].image.registry
             /\ kept.repository = mods[m].image.repository
             /\ kept.tag = mods[m].image.tag
<1>1. PICK module : module = mods[m] OBVIOUS
<1>2. PICK image : image = module.image OBVIOUS
<1>3. module = [replicas |-> module.replicas, image |-> image,
                hostNetwork |-> module.hostNetwork, serviceType |-> module.serviceType]
  BY <1>1, <1>2 DEF Modules
<1>4. PICK registry, repository, tag : image = Image(registry, repository, tag)
  BY <1>1, <1>2, ImageParts
<1>5. CASE m = "apiServer"
  <2>1. PICK served : served = [module EXCEPT !.serviceType = serviceType] OBVIOUS
  <2>2. served.image = image /\ "image" \in DOMAIN served BY <1>3, <2>1
  <2>3. ModuleDefaults(served, m) = [served EXCEPT !.hostNetwork = "false"]
    BY <1>5 DEF ModuleDefaults, DockerIo, Karmada
  <2>4. ModuleDefaults(served, m).image = image BY <2>2, <2>3
  <2>5. QED BY <1>1, <1>2, <1>5, <2>1, <2>4 DEF Completed
<1>6. CASE m \in Karmada
  <2>1. m # "apiServer" /\ m \notin DockerIo BY <1>6 DEF Karmada
  <2>2. PICK pulled : pulled = [image EXCEPT !.pullPolicy = "IfNotPresent"] OBVIOUS
  <2>3. ModuleDefaults(module, m) = [module EXCEPT !.image = pulled]
    BY <1>2, <1>6, <2>1, <2>2 DEF ModuleDefaults
  <2>4. ModuleDefaults(module, m).image = pulled BY <1>3, <2>3
  <2>5. /\ pulled.registry = image.registry /\ pulled.repository = image.repository
        /\ pulled.tag = image.tag
    BY <1>4, <2>2 DEF Image
  <2>6. QED BY <1>1, <1>2, <2>1, <2>4, <2>5 DEF Completed
<1>7. CASE m # "apiServer" /\ m \notin Karmada
  <2>1. ModuleDefaults(module, m) = module BY <1>7 DEF ModuleDefaults
  <2>2. QED BY <1>1, <1>2, <1>7, <2>1 DEF Completed
<1>8. QED BY <1>5, <1>6, <1>7

LEMMA EtcdGlobal ==
  ASSUME NEW images
  PROVE  GlobalImage(images, "etcd").tag = <<>>
<1>1. "etcd" \notin Karmada /\ "etcd" \notin Kubernates \ {"etcd"} /\ "etcd" \notin DockerIo
  BY DEF Karmada, DockerIo
<1>2. GlobalImage(images, "etcd") = Image(images.kubeRegistry, <<>>, <<>>)
  BY <1>1 DEF GlobalImage
<1>3. PICK image, registry :
        image = GlobalImage(images, "etcd") /\ registry = images.kubeRegistry
  OBVIOUS
<1>4. image = Image(registry, <<>>, <<>>) BY <1>2, <1>3
<1>5. image.tag = <<>> BY <1>4 DEF Image
<1>6. QED BY <1>3, <1>5

\* Whatever is given in spec.images and by however many entries, of any spec: a module
\* has the image of its last entry with a reference, with its tag, and etcd without a
\* reference has no tag (Convert_KarmadaDeployment_To_Values).
THEOREM ImagesAreDecided == Spec => []ImagesDecided
<1>1. Composed => ImagesDecided
  <2> SUFFICES ASSUME Composed, values # NoValues, NEW m \in ModuleNames,
                      NEW given, NEW ref, NEW image,
                      given = {i \in DOMAIN chartSpec.modules :
                        chartSpec.modules[i].name = m /\ chartSpec.modules[i].image # <<>>},
                      ref = chartSpec.modules[Max(given)].image,
                      image = values.modules[m].image
               PROVE  IF given = {} THEN m = "etcd" => image.tag = <<>>
                      ELSE Tagged(ref) => Reference(image) = ref /\ ~Contains(image.tag, "/")
    BY DEF ImagesDecided
  <2>1. PICK hosts : values = SetChartDefaultValues(Convert(chartSpec), hosts) BY DEF Composed
  <2>2. PICK spec \in ChartSpecs : spec = chartSpec BY DEF Composed
  <2>3. PICK images : images = spec.images OBVIOUS
  <2>4. PICK entries \in Seq(ModuleEntries) : entries = spec.modules BY SpecShape
  <2>5. PICK n \in Nat : n = Len(entries) OBVIOUS
  <2>6. DOMAIN entries = 1..n BY <2>5
  <2>7. given = GivenUpTo(entries, m, n) BY <2>2, <2>4, <2>6 DEF GivenUpTo
  <2>8. PICK mods \in Modules(images, entries) : mods = Folded(images, entries)
    <3>1. PICK r : Run(r, images, entries) /\ Folded(images, entries) = r[Len(entries)]
      BY EntriesShape, FoldRuns
    <3>2. QED BY <3>1, EntriesShape DEF Run
  <2>9. mods[m].image = ImageUpTo(images, entries, m, n) BY <2>5, <2>8, ImageOfModule
  <2>10. given # {} => /\ Max(given) \in given
                       /\ entries[Max(given)].name = m /\ ref \in Seq(Tokens)
    <3> SUFFICES ASSUME given # {}
                 PROVE  /\ Max(given) \in given
                        /\ entries[Max(given)].name = m /\ ref \in Seq(Tokens)
      OBVIOUS
    <3>1. given \in SUBSET (1..n) BY <2>7 DEF GivenUpTo
    <3>2. PICK i \in 1..n : i = Max(given) /\ i \in given BY <3>1, MaxIn
    <3>3. entries[i].name = m BY <2>7, <3>2 DEF GivenUpTo
    <3>4. entries[i] \in ModuleEntries BY <2>5, <2>6, <3>2
    <3>5. ref \in Seq(Tokens) BY <2>2, <2>4, <3>2, <3>4 DEF ModuleEntries
    <3>6. QED BY <3>2, <3>3, <3>5
  <2>11. CASE m \in DockerIo
    <3>1. given = {}
      <4> SUFFICES ASSUME NEW i \in given PROVE FALSE
        OBVIOUS
      <4>1. i \in 1..n /\ entries[i].name = m BY <2>7 DEF GivenUpTo
      <4>2. entries[i] \in ModuleEntries BY <2>5, <2>6, <4>1
      <4>3. QED BY <2>11, <4>1, <4>2 DEF ModuleEntries
    <3>2. m # "etcd" BY <2>11 DEF DockerIo
    <3>3. QED BY <3>1, <3>2
  <2>12. CASE m \notin DockerIo
    <3>1. DOMAIN mods = ModuleNames BY DEF Modules
    <3>2. PICK default : default = Completed(mods[m], m, spec.serviceType) OBVIOUS
    <3>3. image = default.image
      <4>1. mods = Folded(spec.images, spec.modules) BY <2>3, <2>4, <2>8
      <4>2. SetChartDefaultValues(Convert(spec), hosts).modules[m] =
              Completed(mods[m], m, spec.serviceType)
        BY <3>1, <4>1, ValuesOfModule
      <4>3. QED BY <2>1, <2>2, <3>2, <4>2
    <3>4. /\ image.registry = mods[m].image.registry
          /\ image.repository = mods[m].image.repository
          /\ image.tag = mods[m].image.tag
      <4>1. m \in ModuleNames \ DockerIo BY <2>12
      <4>2. /\ Completed(mods[m], m, spec.serviceType).image.registry = mods[m].image.registry
            /\ Completed(mods[m], m, spec.serviceType).image.repository = mods[m].image.repository
            /\ Completed(mods[m], m, spec.serviceType).image.tag = mods[m].image.tag
        BY <4>1, ImageKept
      <4>3. QED BY <3>2, <3>3, <4>2
    <3>5. CASE given = {}
      <4>1. mods[m].image = GlobalImage(images, m) BY <2>7, <2>9, <3>5 DEF ImageUpTo
      <4>2. m = "etcd" => mods[m].image.tag = <<>> BY <4>1, EtcdGlobal
      <4>3. QED BY <3>4, <3>5, <4>2
    <3>6. CASE given # {}
      <4>1. PICK parsed : parsed = ParseImage(ref) OBVIOUS
      <4>2. mods[m].image = parsed
        BY <2>2, <2>4, <2>7, <2>9, <3>6, <4>1 DEF ImageUpTo
      <4>3. Reference(image) = Reference(parsed) /\ image.tag = parsed.tag
        BY <3>4, <4>2 DEF Reference
      <4>4. Tagged(ref) => Reference(parsed) = ref /\ ~Contains(parsed.tag, "/")
        BY <2>10, <3>6, <4>1, ReferenceSurvives
      <4>5. QED BY <3>6, <4>3, <4>4
    <3>7. QED BY <3>5, <3>6
  <2>13. QED BY <2>11, <2>12
<1>2. QED BY <1>1, AlwaysComposed, PTL
=============================================================================
