----------------------------- MODULE MCKeyRing -----------------------------
(* Small instances of KeyRing for TLC. *)
EXTENDS KeyRing, TLC

\* Identifiers are interchangeable: nothing orders them but the instants in
\* their entries.
KidSymmetry == Permutations(Kid)
=============================================================================
