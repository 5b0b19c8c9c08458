--------------------------- MODULE MCTokenExchange ---------------------------
(* TokenExchange for TLC. *)
EXTENDS TokenExchange, TLC

\* Nothing tells two keys, two handlers or two claims apart.
Symmetry == Permutations(Kid) \cup Permutations(Handler) \cup Permutations(Claim)
=============================================================================
