----------------------------- MODULE MCRobotBase -----------------------------
(* RobotBase on small instances. *)
EXTENDS RobotBase

\* Stop, ahead, and a turn on the spot.
MCCommands == {<<0, 0>>, <<1, 1>>, <<-1, 1>>}
=============================================================================
