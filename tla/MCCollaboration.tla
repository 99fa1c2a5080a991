---------------------------- MODULE MCCollaboration ----------------------------
(***************************************************************************)
(* Three events against windows of two, and two messages of the room       *)
(* against batches of one, so that both are overtaken.                     *)
(***************************************************************************)
EXTENDS Collaboration
===============================================================================
