--------------------------- MODULE MCPersonaStream ---------------------------
(* PersonaStream on small instances. *)
EXTENDS PersonaStream
=============================================================================
