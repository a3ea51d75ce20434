------------------------ MODULE MCPersonaGeneration ------------------------
(* PersonaGeneration on small instances: the runs give Runs and Requests as model values. *)
EXTENDS PersonaGeneration, TLC

\* Deliveries are interchangeable: no constant, fairness condition or property that is
\* checked with this symmetry names one of them.
RunSymmetry == Permutations(Runs)
=============================================================================
