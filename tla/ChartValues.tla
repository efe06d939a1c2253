---------------------------- MODULE ChartValues ----------------------------
(***************************************************************************)
(* The values that Preflight gives to the chart, as a pure function of the *)
(* spec: Convert_KarmadaDeployment_To_Values and SetChartDefaultValues.    *)
(*                                                                         *)
(* A name, registry, tag or image reference is a sequence of tokens, in    *)
(* which the separators ":" and "/" are tokens, and <<>> is the empty       *)
(* string.  Numbers of replicas are <<>> (not given) or <<n>>.  A module   *)
(* that the code leaves out of its map is one without values here, and     *)
(* etcd.internal is the module "etcd": the chart renders both alike.       *)
(* The storage of etcd and the list of components are handed on as they    *)
(* are, and left out.                                                      *)
(* imagePullPolicy of a module is not in the CRD that the chart installs,  *)
(* so the API server removes it and line 203 never sees one.               *)
(***************************************************************************)
EXTENDS SequencesExt

Kubernates == {"apiServer", "kubeControllerManager", "etcd"}
Karmada == {"schedulerEstimator", "descheduler", "search", "scheduler", "webhook",
            "controllerManager", "agent", "aggregatedApiServer"}
DockerIo == {"cfssl", "kubectl"}
ModuleNames == Kubernates \cup Karmada \cup DockerIo

Image(registry, repository, tag) ==
  [registry |-> registry, repository |-> repository, tag |-> tag, pullPolicy |-> ""]
NoImage == Image(<<>>, <<>>, <<>>)
NoModule == [replicas |-> <<>>, image |-> NoImage, hostNetwork |-> "", serviceType |-> ""]

\* The image that spec.images gives to a module, from the settings of its group.
GlobalImage(images, name) ==
  CASE name \in Karmada -> Image(images.karmadaRegistry, <<>>, images.karmadaVersion)
    [] name = "etcd" -> Image(images.kubeRegistry, <<>>, <<>>)
    [] name \in Kubernates \ {"etcd"} -> Image(images.kubeRegistry, <<>>, images.kubeVersion)
    [] name \in DockerIo -> Image(images.dockerIoRegistry, <<>>, <<>>)

\* Mutant: a reference is cut at its first ":".
ParseImageAtFirst(ref) ==
  LET colon == SelectInSeq(ref, LAMBDA t : t = ":")
      path == IF colon > 1 THEN SubSeq(ref, 1, colon - 1) ELSE ref
      slash == SelectInSeq(path, LAMBDA t : t = "/")
  IN  Image(SubSeq(path, 1, slash - 1), SubSeq(path, slash + 1, Len(path)),
            IF colon > 1 THEN SubSeq(ref, colon + 1, Len(ref)) ELSE <<>>)

\* A reference is cut at its last ":" and what precedes it at its first "/".
ParseImage(ref) ==
  LET colon == SelectLastInSeq(ref, LAMBDA t : t = ":")
      path == IF colon > 1 THEN SubSeq(ref, 1, colon - 1) ELSE ref
      tag == IF colon > 1 THEN SubSeq(ref, colon + 1, Len(ref)) ELSE <<>>
      slash == SelectInSeq(path, LAMBDA t : t = "/")
  IN  IF slash > 0
      THEN Image(SubSeq(path, 1, slash - 1), SubSeq(path, slash + 1, Len(path)), tag)
      ELSE Image(<<>>, path, tag)

\* Mutant: replicas of any module are those of etcd as well.
EtcdLikeAny(modules, entry) ==
  LET m == modules[entry.name]
  IN  [modules EXCEPT
        !["etcd"].replicas = IF entry.replicas # <<>> THEN entry.replicas ELSE @,
        ![entry.name].replicas = entry.replicas,
        ![entry.name].image = IF entry.image = <<>> THEN m.image ELSE ParseImage(entry.image)]

\* One entry of controlPlane.modules: its reference replaces the image whole, and
\* its replicas those of an earlier entry even when it gives none, but for etcd.
AddModule(modules, entry) ==
  LET m == modules[entry.name]
      replicas == IF entry.name = "etcd" /\ entry.replicas = <<>> THEN m.replicas
                  ELSE entry.replicas
      image == IF entry.image = <<>> THEN m.image ELSE ParseImage(entry.image)
  IN  [modules EXCEPT ![entry.name] = [m EXCEPT !.replicas = replicas, !.image = image]]

Convert(spec) ==
  LET globals == [m \in ModuleNames |-> [NoModule EXCEPT !.image = GlobalImage(spec.images, m)]]
  IN  [FoldLeft(AddModule, globals, spec.modules)
         EXCEPT !["apiServer"].serviceType = spec.serviceType]

\* Mutant: only a job image that is missing altogether is filled in.
JobImageOrDefault(image, default) ==
  [(IF image = NoImage THEN default ELSE image) EXCEPT !.pullPolicy = "IfNotPresent"]

JobImage(image, default) ==
  [registry |-> IF image.registry = <<>> THEN default.registry ELSE image.registry,
   repository |-> IF image.repository = <<>> THEN default.repository ELSE image.repository,
   tag |-> IF image.tag = <<>> THEN default.tag ELSE image.tag,
   pullPolicy |-> "IfNotPresent"]

JobDefaults == [kubectl |-> Image(<<"ghcr.io">>, <<"daocloud", "/", "kubectl">>, <<"v1.25.3">>),
                cfssl |-> Image(<<"ghcr.io">>, <<"daocloud", "/", "cfssl">>, <<"v1.6.3">>)]

\* The certificate's hosts: those of the namespace, and the masters' addresses.
InternalHosts == {"kubernetes.default.svc", "etcd", "namespace", "localhost"}

ModuleDefaults(module, name) ==
  CASE name = "apiServer" -> [module EXCEPT !.hostNetwork = "false"]
    [] name \in DockerIo ->
         [module EXCEPT !.image = JobImage(module.image, JobDefaults[name])]
    [] name \in Karmada -> [module EXCEPT !.image.pullPolicy = "IfNotPresent"]
    [] OTHER -> module

SetChartDefaultValues(modules, externalHosts) ==
  [modules |-> [m \in ModuleNames |-> ModuleDefaults(modules[m], m)],
   hosts |-> InternalHosts \cup externalHosts]

\* GetKubeMasterIP: the first address of every node labelled master or, without
\* such a node, of every node labelled control-plane.
Masters(masters, controlPlane) == IF masters = {} THEN controlPlane ELSE masters
FirstAddresses(nodes) == {node[1] : node \in nodes}
=============================================================================
