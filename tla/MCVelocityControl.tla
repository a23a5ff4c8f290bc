-------------------------- MODULE MCVelocityControl --------------------------
(* VelocityControl on small instances. *)
EXTENDS VelocityControl

\* Stop, drive speed, and a request over the limit.
MCRequests == {<<0, 0>>, <<50, 0>>, <<2000, 0>>}
MCExact == {0}
=============================================================================
