------------------------- MODULE MCSyncCoordinator -------------------------
(***************************************************************************)
(* The coordinator on small instances: the limits its runs give it, and    *)
(* the constants whose members are interchangeable.                        *)
(***************************************************************************)
EXTENDS CoordinatorProperties, TLC

OnePolicy == {[limit |-> 2, maxFile |-> 0, retention |-> 1]}

\* A tightened limit and a shortened retention arrive with one update.
TwoPolicies == {[limit |-> 3, maxFile |-> 2, retention |-> 1],
                [limit |-> 2, maxFile |-> 0, retention |-> 0]}

Symmetry == Permutations(Blob) \cup Permutations(Entry) \cup Permutations(Session)
              \cup Permutations(Repairer) \cup Permutations(MutationId)
=============================================================================
