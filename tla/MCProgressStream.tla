--------------------------- MODULE MCProgressStream ---------------------------
(* Small instances of ProgressStream.                                      *)
EXTENDS ProgressStream, TLC

Symmetry == Permutations(Clients)
=============================================================================
