---------------------------- MODULE MCPreflight ----------------------------
(***************************************************************************)
(* Instances of Preflight for TLC: what specs and nodes there are.         *)
(***************************************************************************)
EXTENDS InstallPreflight

Parts == {"r", "5000", "p", "etcd", "3.5", "v1.4", "v1.25", ":", "/"}

NoImages == [karmadaRegistry |-> <<>>, karmadaVersion |-> <<"v1.4">>,
             kubeRegistry |-> <<>>, kubeVersion |-> <<>>, dockerIoRegistry |-> <<>>]
AllImages == [karmadaRegistry |-> <<"r">>, karmadaVersion |-> <<"v1.4">>,
              kubeRegistry |-> <<"r">>, kubeVersion |-> <<"v1.25">>, dockerIoRegistry |-> <<"r">>]

\* No reference, one without a registry, one with a port and a tag, and one with a
\* port and no tag.
References == {<<>>, <<"etcd", ":", "3.5">>, <<"r", ":", "5000", "/", "p", "/", "etcd", ":", "3.5">>,
               <<"r", ":", "5000", "/", "etcd">>}
Entry(name) ==
  [name : {name}, replicas : {<<>>}, image : References]
    \cup [name : {name}, replicas : {<<2>>}, image : {<<>>}]
Entries == Entry("etcd") \cup Entry("scheduler")

Specs == [images : {NoImages, AllImages}, modules : SeqOf(Entries, 2), serviceType : {"NodePort"}]

\* No node, one with two addresses, one that has not reported any yet.
Nodes == {{}, {<<"ip1", "ip2">>}, {<<>>}}
=============================================================================
