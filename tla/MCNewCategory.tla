---------------------------- MODULE MCNewCategory ----------------------------
(***************************************************************************)
(* The second category's pipeline itself, in the database of either mode.  *)
(***************************************************************************)
EXTENDS NewCategory

=============================================================================
