------------------------- MODULE SummaryAggregation -------------------------
(***************************************************************************)
(* What a round of the summary manager makes of the contents of its        *)
(* listers.  A lister's contents are a function from the names of objects  *)
(* to objects, of which only what is summed up is kept:                    *)
(*                                                                         *)
(*   cluster     [nodes, resources, conditions] of its status; a part that *)
(*               is not reported yet, nil in the code, is <<>>             *)
(*   deployment  [conditions]                                              *)
(*   any other   nothing but its name                                      *)
(*                                                                         *)
(* The numbers are int32 in the code; counts of nodes and objects stay far *)
(* below that width.  Quantities have no width.                            *)
(***************************************************************************)
EXTENDS FiniteSetsExt, Sequences

CONSTANTS
  CoreResources, PolicyResources,  \* resources of which only the objects are counted
  ResourceNames,                   \* the resources of member clusters that are summed up
  NoSummary                        \* a part of a summary that is nil

Lists == {"allocatable", "allocating", "allocated"}
ClusterGvr == "clusters"
DeploymentGvr == "deployments"
Resources == CoreResources \cup PolicyResources \cup {ClusterGvr, DeploymentGvr}

Size(objs) == Cardinality(DOMAIN objs)
Reporting(objs, part) == {o \in DOMAIN objs : objs[o][part] # <<>>}

\* checkClusterReady, checkDeploymentReady: some condition of the type is True.
IsTrue(conditions, type) ==
  \E i \in DOMAIN conditions : conditions[i].type = type /\ conditions[i].status = "True"

ReadyNum(objs, type) == Cardinality({o \in DOMAIN objs : IsTrue(objs[o].conditions, type)})

\* Mutant: the ready nodes of one cluster are added to those of the others' total.
aggregateReadyTwice(clusters) ==
  LET known == Reporting(clusters, "nodes")
      ready == SumFunction([c \in known |-> clusters[c].nodes.ready])
  IN  [totalNum |-> SumFunction([c \in known |-> clusters[c].nodes.total]) + ready,
       readyNum |-> ready,
       clusterNodeSummary |-> [c \in known |-> clusters[c].nodes]]

aggregateNodeSummary(clusters) ==
  LET known == Reporting(clusters, "nodes")
  IN  [totalNum |-> SumFunction([c \in known |-> clusters[c].nodes.total]),
       readyNum |-> SumFunction([c \in known |-> clusters[c].nodes.ready]),
       clusterNodeSummary |-> [c \in known |-> clusters[c].nodes]]

\* A quantity that a list does not mention counts as zero.
Quantity(list, name) == IF name \in DOMAIN list THEN list[name] ELSE 0

\* calculateResourceList, over all clusters: other names are not summed up.
calculateResourceList(clusters, known, l) ==
  [name \in ResourceNames |->
     SumFunction([c \in known |-> Quantity(clusters[c].resources[l], name)])]

\* Without a cluster that reports, the lists stay nil.
aggregateResourceSummary(clusters) ==
  LET known == Reporting(clusters, "resources")
  IN  [totals |-> IF known = {} THEN NoSummary
                  ELSE [l \in Lists |-> calculateResourceList(clusters, known, l)],
       clusterResource |-> [c \in known |-> clusters[c].resources]]

\* Only a cluster that has conditions counts.
aggregateClusterSummary(clusters) ==
  LET known == Reporting(clusters, "conditions")
  IN  [totalNum |-> Cardinality(known),
       readyNum |-> ReadyNum(clusters, "Ready"),
       clusterConditions |-> [c \in known |-> clusters[c].conditions]]

clusterSyncHandler(clusters) ==
  IF clusters = <<>> THEN NoSummary
  ELSE [nodeSummary |-> aggregateNodeSummary(clusters),
        resourceSummary |-> aggregateResourceSummary(clusters),
        clusterSummary |-> aggregateClusterSummary(clusters)]

workLoadsSyncHandler(deployments) ==
  [totalNum |-> Size(deployments), readyNum |-> ReadyNum(deployments, "Available")]

\* syncHandler, from the contents of every lister.
Summary(stores) ==
  [resourceTotalNum |-> [r \in CoreResources |-> Size(stores[r])],
   policyTotalNum |-> [r \in PolicyResources |-> Size(stores[r])],
   members |-> clusterSyncHandler(stores[ClusterGvr]),
   workLoadSummary |-> workLoadsSyncHandler(stores[DeploymentGvr])]
=============================================================================
