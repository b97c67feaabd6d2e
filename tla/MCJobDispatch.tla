---------------------------- MODULE MCJobDispatch ----------------------------
(* Model-checking instances of JobDispatch. *)
EXTENDS JobDispatch, TLC

\* The dispatchers are interchangeable.
Symmetry == Permutations(Dispatchers)
===============================================================================
