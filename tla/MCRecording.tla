----------------------------- MODULE MCRecording -----------------------------
(* Recording on small instances. *)
EXTENDS Recording

CONSTANTS s1, s2, c1, c2, d1, d2
MCSessions == {s1, s2}
MCClients == {c1, c2}
MCDirs == {d1, d2}
=============================================================================
