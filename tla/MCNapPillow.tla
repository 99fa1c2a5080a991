----------------------------- MODULE MCNapPillow -----------------------------
(***************************************************************************)
(* The nap pillow pipeline itself, with every artifact, task and edge.     *)
(***************************************************************************)
EXTENDS NapPillow

=============================================================================
