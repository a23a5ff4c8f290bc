------------------------------ MODULE Kinematics ------------------------------
(* Differential drive, as the dashboard and the keyboard node compute it. *)
EXTENDS Integers

CONSTANT SpeedMax  \* speed_max of the chassis

Clamp(n) == IF n > SpeedMax THEN SpeedMax ELSE IF n < -SpeedMax THEN -SpeedMax ELSE n

\* A twist turned left makes the right wheel the faster one.
TwistToWheelSpeeds(linear, angular) == <<Clamp(linear - angular), Clamp(linear + angular)>>
=============================================================================
