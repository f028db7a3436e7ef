------------------------------ MODULE MCSuspend ------------------------------
(* Instances of Suspend for TLC. *)
EXTENDS Suspend
=============================================================================
