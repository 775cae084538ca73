------------------------ MODULE MCHourlyRecompute --------------------------
(* An instance of HourlyRecompute for TLC. *)
EXTENDS HourlyRecompute, TLC
=============================================================================
