-------------------------------- MODULE NoValue --------------------------------
(***************************************************************************)
(* What is not there: a column that is NULL, a field that is undefined, a  *)
(* row that was not found.                                                 *)
(***************************************************************************)
CONSTANT Null
================================================================================
