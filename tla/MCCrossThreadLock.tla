-------------------------- MODULE MCCrossThreadLock --------------------------
(* CrossThreadLock on a fixed number of sections, for TLC.                 *)
EXTENDS CrossThreadLock, TLC

\* Sections are interchangeable: no action and no safety property names one.
Symmetry == Permutations(Sections)
=============================================================================
