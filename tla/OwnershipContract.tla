------------------------- MODULE OwnershipContract -------------------------
(***************************************************************************)
(* What the controller promises about the resources it updates in place    *)
(* (resource_manager.go, getOrUpdateInPlaceResource, deleteAllResources):  *)
(* a resource is made for a cluster or a nodepool, from a spec that this   *)
(* owner really had, and is removed only with its owner.  Nothing is made  *)
(* for an owner that is gone, except by those at work on it when it went.  *)
(***************************************************************************)
EXTENDS Integers

CONSTANTS Cluster, Owners, Objects, MaxGen

VARIABLES
  spec,     \* per owner: its generation
  deleted,  \* owners that were deleted
  object,   \* per object: {} or the generation it was made for; 0 if others wrote it,
            \* or its negative if they wrote where nobody looks
  late      \* owners that may still be written for although they are gone

vars == <<spec, deleted, object, late>>

Gone(o) == o \in deleted \/ Cluster \in deleted

Init ==
  /\ spec = [o \in Owners |-> 1]
  /\ deleted = {}
  /\ object = [x \in Objects |-> {}]
  /\ late = {}

UpdateSpec(o) ==
  /\ ~Gone(o)
  /\ spec[o] < MaxGen
  /\ spec' = [spec EXCEPT ![o] = @ + 1]
  /\ UNCHANGED <<deleted, object, late>>

\* A nodepool goes with its cluster.
Delete(o) ==
  /\ ~Gone(o)
  /\ deleted' = deleted \cup {o}
  /\ \E S \in SUBSET {p \in Owners : o \in {p, Cluster}} : late' = late \cup S
  /\ UNCHANGED <<spec, object>>

\* From a spec that was read earlier, so not always from the newest one.
Write(x, g) ==
  /\ Gone(x.owner) => x.owner \in late
  /\ object' = [object EXCEPT ![x] = {g}]
  /\ UNCHANGED <<spec, deleted, late>>

\* Others change a resource but do not make one.
Drift(x) ==
  /\ \E g \in object[x], a \in -MaxGen .. 0 :
       a \in {0, g, -g} /\ object' = [object EXCEPT ![x] = {a}]
  /\ UNCHANGED <<spec, deleted, late>>

Remove(x) ==
  /\ Gone(x.owner)
  /\ object' = [object EXCEPT ![x] = {}]
  /\ UNCHANGED <<spec, deleted, late>>

Next ==
  \/ \E o \in Owners : UpdateSpec(o) \/ Delete(o)
  \/ \E x \in Objects :
       \/ \E g \in 1 .. spec[x.owner] : Write(x, g)
       \/ Drift(x)
       \/ Remove(x)

Spec == Init /\ [][Next]_vars
=============================================================================
