--------------------------- MODULE MCPersonaRefine ---------------------------
(* Instances of PersonaRefine for TLC. *)
EXTENDS PersonaRefine, TLC

Symmetry == Permutations(Turns)
=============================================================================
