--------------------------- MODULE MCRateLimit ---------------------------
(* TLC instance of RateLimit: model values for the sessions. *)
EXTENDS RateLimit, TLC

CONSTANTS a, b, c

MCSessions == {a, b, c}

Symmetry == Permutations(MCSessions)
==========================================================================
