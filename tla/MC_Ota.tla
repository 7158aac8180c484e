------------------------------- MODULE MC_Ota -------------------------------
(* A small instance of OtaLifecycle for model checking. *)
EXTENDS OtaLifecycle

CONSTANTS v1, v2, v3

MCVersions == {v1, v2, v3}
MCBroken == {v2}
=============================================================================
