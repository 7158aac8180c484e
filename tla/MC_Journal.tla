----------------------------- MODULE MC_Journal -----------------------------
(* A small instance of EventJournal for model checking. *)
EXTENDS EventJournal, TLC

CONSTANTS p1, p2

MCProducers == {p1, p2}
MCCalls == (0 :> 5) @@ (1 :> 2)
ProducerSymmetry == Permutations(MCProducers)
=============================================================================
