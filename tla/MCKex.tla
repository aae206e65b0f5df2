------------------------------- MODULE MCKex --------------------------------
(***************************************************************************)
(* Instances of Kex: strict kex with guesses, as Dropbear is built, and an *)
(* exchange with neither.                                                  *)
(***************************************************************************)
EXTENDS Kex
MCModes == {[follows |-> TRUE, strict |-> TRUE], [follows |-> FALSE, strict |-> FALSE]}
=============================================================================
