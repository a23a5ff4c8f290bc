----------------------------- MODULE MCDriveChain -----------------------------
(* DriveChain on small instances. *)
EXTENDS DriveChain

\* Stop, ahead, and a request over the limit.
MCRequests == {<<0, 0>>, <<1, 0>>, <<9, 0>>}
=============================================================================
