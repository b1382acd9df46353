------------------------- MODULE VersionedContract -------------------------
(***************************************************************************)
(* What updateStrategy "versioned" promises for one cluster (DESIGN.md,    *)
(* "Key Principles for Versioned Strategy" and src/internal/crd/types.go,  *)
(* ResourceManagement): a slot that holds at most one resource, is emptied *)
(* only of a completed or an outdated resource, and is filled for a newer  *)
(* generation, or again for the same one when the interval has elapsed.    *)
(***************************************************************************)
EXTENDS Integers

CONSTANTS MaxGen, VersionInterval, NewGenerationOnly

VARIABLES
  gen,    \* the cluster's generation
  now,    \* the clock
  slot,   \* {} or the resource
  last    \* generation and creation time of the last resource created

vars == <<gen, now, slot, last>>

Init ==
  /\ gen = 1
  /\ now = 0
  /\ slot = {}
  /\ last = [gen |-> 0, created |-> 0]

NewGeneration == gen < MaxGen /\ gen' = gen + 1 /\ UNCHANGED <<now, slot, last>>

Tick == now' = now + 1 /\ UNCHANGED <<gen, slot, last>>

\* "New versions are only created if this interval has elapsed since the last
\* version, unless generation changes."
Due(g) ==
  \/ g > last.gen
  \/ g = last.gen /\ ~NewGenerationOnly /\ now - last.created >= VersionInterval

Create(g) ==
  /\ slot = {}
  /\ Due(g)
  /\ last' = [gen |-> g, created |-> now]
  /\ slot' = {[gen |-> g, done |-> FALSE]}
  /\ UNCHANGED <<gen, now>>

Complete ==
  /\ \E r \in slot : slot' = {[r EXCEPT !.done = TRUE]}
  /\ UNCHANGED <<gen, now, last>>

Clear ==
  /\ \E r \in slot : r.done \/ r.gen < gen
  /\ slot' = {}
  /\ UNCHANGED <<gen, now, last>>

Next ==
  \/ NewGeneration
  \/ Tick
  \/ \E g \in 1 .. gen : Create(g)
  \/ Complete
  \/ Clear

Spec == Init /\ [][Next]_vars
=============================================================================
