-------------------------- MODULE VersionedHistory --------------------------
(***************************************************************************)
(* VersionedResource with a history variable, the last Job created, which  *)
(* never feeds back into the protocol, and its refinement of               *)
(* VersionedContract.                                                      *)
(***************************************************************************)
EXTENDS VersionedResource

VARIABLE last   \* generation and creation time of the last Job created

hvars == <<vars, last>>

Created == {j \in jobs' : \A k \in jobs : Name(k) # Name(j)}

HInit == Init /\ last = [gen |-> 0, created |-> 0]

HNext ==
  /\ Next
  /\ last' \in IF Created = {} THEN {last}
               ELSE {[gen |-> j.gen, created |-> j.created] : j \in Created}

HSpec == HInit /\ [][HNext]_hvars

-----------------------------------------------------------------------------
Contract == INSTANCE VersionedContract WITH
  slot <- {[gen |-> j.gen, done |-> j.done] : j \in jobs}

\* With its deliveries one at a time and no failed call, the controller keeps
\* the contract of the versioned strategy, also when the process crashes between
\* any two calls and when a call runs into the deadline.
ImplementsContract == Contract!Spec
=============================================================================
