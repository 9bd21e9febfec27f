---------------------------- MODULE MCHikClient ----------------------------
(* HikClient on three cameras and two SDK threads.                         *)
EXTENDS HikClient

CONSTANTS d1, d2, d3   \* model values

MCDevices == <<d1, d2, d3>>

=============================================================================
