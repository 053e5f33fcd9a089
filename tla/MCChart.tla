------------------------------ MODULE MCChart ------------------------------
(***************************************************************************)
(* Instances of Chart for TLC: readings on both sides of either limit, in  *)
(* the fields that are compared first and in those that come last.         *)
(***************************************************************************)
EXTENDS Chart, TLC

MCReadings ==
  {<<3, 12, 0, 0>>, <<14, 3, 0, 0>>, <<12, 3, -5, 30>>, <<0, 20, 30, -8>>}

\* Heap blocks are interchangeable.
NodeSymmetry == Permutations(Node)
============================================================================
