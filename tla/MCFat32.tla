------------------------------ MODULE MCFat32 ------------------------------
(* Instances of Fat32 for TLC. *)
EXTENDS Fat32

CONSTANTS a, b, x

MCEntries == 2 .. 3
(* Nothing is promised after a defect: the operation that met it is        *)
(* followed to its end, or to the reboot, and no other one is begun.       *)
UntilDefect == defect = "none" \/ op # Idle
=============================================================================
