------------------------ MODULE MCVersionedResource ------------------------
(* Instances of VersionedResource for TLC.                                   *)
EXTENDS VersionedResource, TLC

\* Every deployment runs one of the callbacks.
MCControllerOf ==
  CHOOSE f \in [Workers -> Controllers] : \A c \in Controllers : \E w \in Workers : f[w] = c

\* Deployments with one callback each differ in nothing: they are exchanged with it.
\* Only a run without fairness uses this.
Interchangeable ==
  {[v \in Workers \cup Controllers |->
      IF v \in Workers THEN p[v]
      ELSE MCControllerOf[p[CHOOSE w \in Workers : MCControllerOf[w] = v]]]
     : p \in Permutations(Workers)}
=============================================================================
