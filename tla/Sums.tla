---------------------------------- MODULE Sums ----------------------------------
(***************************************************************************)
(* The sum of the values of a function, as the share registers of the      *)
(* contracts are added up by their properties.                             *)
(***************************************************************************)
EXTENDS Integers, FiniteSetsExt

Total(f, S) == MapThenSumSet(LAMBDA x : f[x], S)
=============================================================================
