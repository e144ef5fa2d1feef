-------------------------- MODULE MCStreamRegistry --------------------------
(* StreamRegistry for TLC.                                                 *)
EXTENDS StreamRegistry, TLC

\* Callers are interchangeable, and so are stream names.
Symmetry == Permutations(Callers) \cup Permutations(Streams)

=============================================================================
