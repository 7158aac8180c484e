---------------------------- MODULE MC_Telemetry ----------------------------
(***************************************************************************)
(* Telemetry for TLC: the board starts polling a battery, on the right     *)
(* pins or not; the two wirings are interchangeable, and no property is    *)
(* temporal.                                                               *)
(***************************************************************************)
EXTENDS Telemetry, TLC

StoredPolling == [enabled : {TRUE}, sim : {FALSE}, pins : Pins]
Symmetry == Permutations(Pins)
=============================================================================
