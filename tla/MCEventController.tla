------------------------- MODULE MCEventController -------------------------
(* EventController on small sets.                                           *)
EXTENDS EventController

\* UUIDs are compared for equality only.
Symmetry == Permutations(Sid)

\* One second, and the negative number that means "never".
MCSeconds == {-1, 1}
=============================================================================
