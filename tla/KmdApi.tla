------------------------------- MODULE KmdApi -------------------------------
(***************************************************************************)
(* The API server that the controllers of the operator share:              *)
(* KarmadaDeployment objects as it stores them and as the shared informer  *)
(* sees them, the kubeconfig secrets, and the failures of requests.        *)
(*                                                                         *)
(* A resourceVersion is not represented: the informer delivers every       *)
(* version in order, so a copy taken from its cache is current exactly     *)
(* when nothing is left to deliver, and an Update made from that copy      *)
(* conflicts otherwise.                                                    *)
(***************************************************************************)
EXTENDS Naturals, Sequences, FiniteSets

CONSTANTS
  Names,             \* names of KarmadaDeployments (cluster scoped: key = name)
  Namespaces,        \* namespaces of the destination cluster
  UserNamespaces,    \* [Names -> SUBSET Namespaces]: those a user may ask for
  RandomNamespaces,  \* [Names -> SUBSET Namespaces]: those rand.String may yield
  Images,            \* every other field of a spec, as one value
  DefaultImages,     \* the value that defaulting gives to those fields
  Modes,             \* install modes users write, "" being an absent mode
  UserLabels,        \* values users give the cascading-deletion label, "" being no label
  EditableFields,    \* what users change: "mode", "ns", "images", "label", "lateLabel"
  NoKmd,             \* no such object
  NoName,            \* no key
  FaultKinds,        \* what may fail: "api", "endpoint", "chart", "values", "helm", "purge", "crash"
  MaxFaults,         \* bound: how many failures of these kinds happen
  MaxUid,            \* bound: times a name is created
  MaxGen,            \* bound: generation up to which users edit a spec
  MaxLag             \* bound: versions written and not yet delivered

VARIABLES
  api,     \* [Names -> the stored object or NoKmd]
  watch,   \* [Names -> versions on their way to the informer, oldest first]
  cache,   \* [Names -> the informer's copy]
  born,    \* [Names -> how many times the name was created; the last uid]
  secrets, \* <<name, uid>>: a kubeconfig secret made for that incarnation
  faults   \* failures left

apiVars == <<api, watch, cache, born>>

InstallerFinalizer == "installer"
SummaryFinalizer == "summary"
Labels == {"", "false", "true"}
Phases == {"", "Preflight", "Deploying", "Completed"}
Reasons == {"", "Progressing", "IntallModeFailed", "HelmChartFailed",
            "HelmInitFailed", "HelmReleaseFailed", "Succeeded"}

Specs == [mode : Modes, ns : Namespaces \cup {""}, images : Images \cup {""}]
\* "ready" is the reason of the Ready condition, "" when there are no conditions;
\* "secret" is the uid whose kubeconfig secret secretRef names and "summary" the
\* contents of the control plane that it sums up, both 0 for nil.
Statuses == [obsGen : Nat, phase : Phases, cpr : BOOLEAN, secret : Nat, ready : Reasons,
             summary : Nat]
Kmds == [uid : Nat, gen : Nat, deleting : BOOLEAN, label : Labels,
         finalizers : SUBSET {InstallerFinalizer, SummaryFinalizer},
         spec : Specs, status : Statuses]

ASSUME KmdApiAssumption ==
  /\ IsFiniteSet(Names) /\ Names # {}
  /\ "" \notin Namespaces
  /\ UserNamespaces \in [Names -> SUBSET Namespaces]
  /\ RandomNamespaces \in [Names -> (SUBSET Namespaces) \ {{}}]
  /\ DefaultImages \in Images /\ "" \notin Images
  /\ Modes \subseteq {"", "Helm", "Karmadactl"}
  /\ UserLabels \subseteq Labels
  /\ NoKmd \notin Kmds
  /\ MaxUid \in Nat /\ MaxGen \in Nat /\ MaxLag \in Nat \ {0}

NewStatus == [obsGen |-> 0, phase |-> "", cpr |-> FALSE, secret |-> 0, ready |-> "",
              summary |-> 0]

Exists(n) == api[n] # NoKmd
Live(n) == Exists(n) /\ ~api[n].deleting
Fresh(n) == watch[n] = <<>>

Fault(kind) == kind \in FaultKinds /\ faults > 0 /\ faults' = faults - 1

-----------------------------------------------------------------------------
(* Writes.  One that changes nothing is no write; one that changes the      *)
(* object makes a version.  At most MaxLag versions are undelivered: a      *)
(* writer waits for the informer beyond that.                               *)

Write(n, obj) ==
  IF obj = api[n]
  THEN UNCHANGED <<api, watch>>
  ELSE /\ Len(watch[n]) < MaxLag
       /\ api' = [api EXCEPT ![n] = obj]
       /\ watch' = [watch EXCEPT ![n] = Append(@, obj)]

\* Update through the main resource: the status is not written, a changed
\* spec starts a generation, and an object that is being deleted goes away
\* with its last finalizer.
Update(n, obj) ==
  IF obj.deleting /\ obj.finalizers = {}
  THEN Write(n, NoKmd)
  ELSE Write(n, [obj EXCEPT !.status = api[n].status,
                            !.gen = IF obj.spec # api[n].spec THEN api[n].gen + 1 ELSE @])

\* status.SetStatus gets the object BY NAME and replaces its whole status; the
\* retry on a conflict gets it again, so the status written is the caller's
\* whatever happened to the object in between, and to whichever incarnation.
SetStatus(n, status) ==
  /\ Exists(n)
  /\ Write(n, [api[n] EXCEPT !.status = status])

-----------------------------------------------------------------------------
(* Users *)

UserSpecs(n) == [mode : Modes, ns : UserNamespaces[n] \cup {""}, images : Images \cup {""}]

Create(n) ==
  /\ ~Exists(n)
  /\ born[n] < MaxUid
  /\ \E spec \in UserSpecs(n), label \in UserLabels :
       Write(n, [uid |-> born[n] + 1, gen |-> 1, deleting |-> FALSE, label |-> label,
                 finalizers |-> {}, spec |-> spec, status |-> NewStatus])
  /\ born' = [born EXCEPT ![n] = @ + 1]
  /\ UNCHANGED cache

EditSpec(n) ==
  /\ Exists(n)
  /\ api[n].gen < MaxGen
  /\ \E spec \in UserSpecs(n) :
       /\ spec # api[n].spec
       /\ \A f \in {"mode", "ns", "images"} \ EditableFields : spec[f] = api[n].spec[f]
       /\ Write(n, [api[n] EXCEPT !.spec = spec, !.gen = @ + 1])
  /\ UNCHANGED <<cache, born>>

EditLabel(n) ==
  /\ Exists(n)
  /\ (IF api[n].deleting THEN "lateLabel" ELSE "label") \in EditableFields
  /\ \E label \in UserLabels \ {api[n].label} : Write(n, [api[n] EXCEPT !.label = label])
  /\ UNCHANGED <<cache, born>>

\* Deletion only marks an object that has finalizers.
Delete(n) ==
  /\ Live(n)
  /\ IF api[n].finalizers = {}
     THEN Write(n, NoKmd)
     ELSE Write(n, [api[n] EXCEPT !.deleting = TRUE, !.gen = @ + 1])
  /\ UNCHANGED <<cache, born>>

UserStep == \E n \in Names : Create(n) \/ EditSpec(n) \/ EditLabel(n) \/ Delete(n)

-----------------------------------------------------------------------------
(* The informer *)

ApiInit ==
  /\ api = [n \in Names |-> NoKmd]
  /\ watch = [n \in Names |-> <<>>]
  /\ cache = [n \in Names |-> NoKmd]
  /\ born = [n \in Names |-> 0]

Deliver(n) ==
  /\ ~Fresh(n)
  /\ cache' = [cache EXCEPT ![n] = Head(watch[n])]
  /\ watch' = [watch EXCEPT ![n] = Tail(@)]
  /\ UNCHANGED <<api, born>>

\* A process that starts lists what exists, each object as an addition.
Relist ==
  /\ cache' = [n \in Names |-> NoKmd]
  /\ watch' = [n \in Names |-> IF Exists(n) THEN <<api[n]>> ELSE <<>>]
  /\ UNCHANGED <<api, born>>

ApiTypeOK ==
  /\ api \in [Names -> Kmds \cup {NoKmd}]
  /\ watch \in [Names -> Seq(Kmds \cup {NoKmd})]
  /\ cache \in [Names -> Kmds \cup {NoKmd}]
  /\ born \in [Names -> 0..MaxUid]
=============================================================================
