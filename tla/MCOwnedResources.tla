-------------------------- MODULE MCOwnedResources --------------------------
(* An instance of OwnedResources for TLC: a cluster and its nodepools.       *)
EXTENDS OwnedResources, TLC

CONSTANTS cluster, workers

MCNodePools == {workers}
MCOwners == {cluster, workers}
MCNobody == {}

Line(field, value, top) == [field |-> field, value |-> value, top |-> top]

\* Two resources of the clusters' chart, and a Certificate with its issuer.
MCTemplates == << << Line("apiVersion", "v1", TRUE),
                     Line("kind", "Namespace", TRUE) >>,
                  << Line("apiVersion", "hypershift.openshift.io/v1beta1", TRUE),
                     Line("kind", "HostedCluster", TRUE) >> >>
MCNested    == << << Line("apiVersion", "cert-manager.io/v1", TRUE),
                     Line("kind", "Certificate", TRUE),
                     Line("kind", "ClusterIssuer", FALSE) >> >>

\* The second template is one for nodepools and does not render for clusters.
MCRendered == {x \in Objects : x.owner = workers \/ x.resource = 1}

\* Handlers differ in nothing; only the runs without fairness use this.
Interchangeable == Permutations(Handlers)
=============================================================================
