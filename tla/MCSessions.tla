------------------------------ MODULE MCSessions ------------------------------
(* Sessions for TLC: requests are interchangeable, and no property here is a  *)
(* temporal one.                                                              *)
EXTENDS Sessions, TLC

Symmetry == Permutations(Requests)
=============================================================================
