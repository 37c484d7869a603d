--------------------------- MODULE MCChassisSystem ---------------------------
(* Small instances of ChassisSystem for TLC. *)
EXTENDS ChassisSystem, MCChassisControl
=============================================================================
