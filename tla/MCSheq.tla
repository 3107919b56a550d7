--------------------------------- MODULE MCSheq --------------------------------
(* The instances of Sheq that TLC checks. *)
EXTENDS Sheq, TLC

\* Requests are interchangeable.
Symmetry == Permutations(Requests)
=============================================================================
