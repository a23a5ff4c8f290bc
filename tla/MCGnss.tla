-------------------------------- MODULE MCGnss --------------------------------
(* Gnss on a small instance. *)
EXTENDS Gnss
=============================================================================
