------------------------------- MODULE ToyGrid -------------------------------
(***************************************************************************)
(* What a grid of toy-based limits promises its user, whatever files,      *)
(* archives, status entries and processes it is made of: toys are thrown   *)
(* for a point only while it needs them, one batch of cycles at a time,    *)
(* always with seeds that were not used, and toys that were thrown stay.   *)
(***************************************************************************)
EXTENDS Integers, FiniteSets

CONSTANTS
  Points, Seeds,   \* grid points and random seeds
  MaxCycles,       \* bound on the batch of one invocation
  Sufficient       \* <<p, n>>: n units of toys are enough for the point p

VARIABLES
  toys,            \* files <<p, s>> that hold the toys of the seed s for p
  pending          \* files commissioned and not delivered

gridVars == <<toys, pending>>

Of(p, F) == {f \in F : f[1] = p}

Init == toys = {} /\ pending = {}

\* One invocation orders a batch of new seeds for p, on what p has just then.
Commission(p) ==
  /\ UNCHANGED toys
  /\ pending \subseteq pending' /\ pending' # pending
  /\ pending' \ pending \subseteq ({p} \X Seeds) \ toys
  /\ Cardinality(pending' \ pending) <= MaxCycles
  /\ Of(p, pending) = {}
  /\ <<p, Cardinality(Of(p, toys))>> \notin Sufficient

Deliver(f) ==
  /\ f \in pending
  /\ toys' = toys \cup {f} /\ pending' = pending \ {f}

\* Dry runs, exceptions, kills and combine runs without a result.
Withdraw ==
  /\ UNCHANGED toys
  /\ pending' \subseteq pending

Next ==
  \/ Withdraw
  \/ \E p \in Points : Commission(p)
  \/ \E f \in pending : Deliver(f)

Spec == Init /\ [][Next]_gridVars
=============================================================================
