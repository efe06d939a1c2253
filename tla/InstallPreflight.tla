-------------------------- MODULE InstallPreflight --------------------------
(***************************************************************************)
(* Preflight of the install workflow, again and again: each sync that      *)
(* installs makes a new workflow, which fetches the chart and composes the *)
(* values.  InstallerController models what comes of it for the object     *)
(* (ChartNotFetched); here is what is done.                                *)
(***************************************************************************)
EXTENDS ChartFetch, ChartValues

CONSTANTS
  Tokens,      \* what names, registries, tags and references are made of
  ChartSpecs,  \* the parts of specs that values are made of
  NodeLists,   \* sets of nodes; a node is the sequence of its addresses
  NoValues     \* no values composed

VARIABLES
  chartSpec,  \* the spec that values were composed of
  values      \* values of the workflow

\* The names of entries are an enum, to which the jobs' modules do not belong.
ModuleEntries ==
  [name : ModuleNames \ DockerIo, replicas : Seq(Nat), image : Seq(Tokens)]
ImageSettings ==
  [karmadaRegistry : Seq(Tokens), karmadaVersion : Seq(Tokens), kubeRegistry : Seq(Tokens),
   kubeVersion : Seq(Tokens), dockerIoRegistry : Seq(Tokens)]

\* NoValues is told from specs, and from what is composed of them.
ASSUME PreflightAssumption ==
  /\ ChartSpecs \subseteq [images : ImageSettings, modules : Seq(ModuleEntries),
                            serviceType : STRING]
  /\ NoValues \notin ChartSpecs
  /\ \A spec \in ChartSpecs, nodes \in NodeLists :
       <<>> \notin nodes =>
         SetChartDefaultValues(Convert(spec), FirstAddresses(nodes)) # NoValues

preflightVars == <<fetchVars, chartSpec, values>>

TypeOK ==
  /\ FetchTypeOK
  /\ chartSpec \in ChartSpecs \cup {NoValues}
  /\ (values = NoValues) = (chartSpec = NoValues)
  /\ values # NoValues =>
       /\ fetch.pc = "fetched"
       /\ DOMAIN values.modules = ModuleNames

Init ==
  /\ FetchInit
  /\ chartSpec = NoValues
  /\ values = NoValues

Fetch == FetchStep /\ UNCHANGED <<chartSpec, values>>

\* The certificate is for the nodes' addresses, or for none when the nodes cannot
\* be listed: values are composed all the same.
ComposeValues ==
  /\ fetch.pc = "fetched"
  /\ values = NoValues
  /\ \E spec \in ChartSpecs, masters, controlPlane \in NodeLists :
       LET nodes == Masters(masters, controlPlane)
       IN  /\ <<>> \notin nodes
           /\ chartSpec' = spec
           /\ values' = SetChartDefaultValues(Convert(spec), FirstAddresses(nodes))
  /\ UNCHANGED fetchVars

\* A node without an address: Addresses[0] panics, and takes the process down.
AddressPanics ==
  /\ fetch.pc = "fetched"
  /\ values = NoValues
  /\ \E masters, controlPlane \in NodeLists : <<>> \in Masters(masters, controlPlane)
  /\ NewContainer
  /\ UNCHANGED <<changes, chartSpec, values>>

\* The workflow goes on to Deploy, or has failed; another sync makes another one.
SyncAgain ==
  /\ fetch.pc = "failed" \/ values # NoValues
  /\ NextSync
  /\ chartSpec' = NoValues
  /\ values' = NoValues

\* The process dies of something else.
OperatorDies ==
  /\ changes > 0
  /\ changes' = changes - 1
  /\ NewContainer
  /\ chartSpec' = NoValues
  /\ values' = NoValues

ServerFails == ServerChanges /\ UNCHANGED <<chartSpec, values>>

Next == Fetch \/ ComposeValues \/ AddressPanics \/ SyncAgain \/ OperatorDies \/ ServerFails

\* Helm's pulls end, with a timeout if need be, and syncs that install go on.
Fairness == WF_preflightVars(Fetch) /\ WF_preflightVars(ComposeValues) /\ WF_preflightVars(SyncAgain)

Spec == Init /\ [][Next]_preflightVars /\ Fairness

\* The entries of m, in their order.
Own(spec, m) ==
  FoldLeft(LAMBDA own, entry : IF entry.name = m THEN Append(own, entry) ELSE own,
           <<>>, spec.modules)

\* What the chart is given for a module depends on that module's entries alone:
\* entries of others, and their order among them, change nothing, although images
\* and replicas travel through maps by name and through fields of their own for
\* etcd (Convert_KarmadaDeployment_To_Values).
ModulesIndependent ==
  values # NoValues =>
    \A m \in ModuleNames :
      LET alone == [chartSpec EXCEPT !.modules = Own(chartSpec, m)]
      IN  values.modules[m] = SetChartDefaultValues(Convert(alone), {}).modules[m]

\* A reference with a tag, and a name to be tagged.
Tagged(ref) ==
  LET colon == SelectLastInSeq(ref, LAMBDA t : t = ":")
  IN  /\ 1 < colon /\ colon < Len(ref)
      /\ ref[1] # "/"
      /\ \A i \in colon..Len(ref) : ref[i] # "/"

Reference(image) ==
  image.registry \o (IF image.registry = <<>> THEN <<>> ELSE <<"/">>)
    \o image.repository \o (IF image.tag = <<>> THEN <<>> ELSE <<":">>) \o image.tag

\* The image of a module is that of its last entry with a reference, whole, whatever
\* the registry and version of its group are: when the reference has a tag, what the
\* chart puts together again from registry, repository and tag is that reference,
\* with or without a registry and a port in it, and the tag is only a tag.  Without a
\* reference, etcd has no tag: its version is not that of kubernetes
\* (Convert_KarmadaDeployment_To_Values).
ImagesDecided ==
  values # NoValues =>
    \A m \in ModuleNames :
      LET given == {i \in DOMAIN chartSpec.modules :
                      chartSpec.modules[i].name = m /\ chartSpec.modules[i].image # <<>>}
          ref == chartSpec.modules[Max(given)].image
          image == values.modules[m].image
      IN  IF given = {} THEN m = "etcd" => image.tag = <<>>
          ELSE Tagged(ref) => Reference(image) = ref /\ ~Contains(image.tag, "/")

\* The jobs of the chart always have an image to run: whichever of registry,
\* repository and tag the spec settles for kubectl and cfssl, the rest is filled in
\* (SetChartDefaultValues).
JobImagesComplete ==
  values # NoValues =>
    \A m \in DockerIo :
      LET image == values.modules[m].image
      IN  <<>> \notin {image.registry, image.repository, image.tag}
=============================================================================
