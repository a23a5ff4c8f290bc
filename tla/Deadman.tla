-------------------------------- MODULE Deadman --------------------------------
(***************************************************************************)
(* What every deadman of the system promises: an actuator is driven only    *)
(* by recent commands.  The components that hold an actuator on behalf of a *)
(* client that may fall silent (the velocity publisher, the serial node of  *)
(* the base, a held jog button) are shown to implement this module.         *)
(***************************************************************************)
EXTENDS Naturals

CONSTANTS
  Fresh,  \* oldest command an actuator may still be started by
  Bound   \* oldest command an actuator may still be moving by

VARIABLES
  moving,  \* whether the actuator was last told to move
  age      \* age of the last command, saturating at Bound + 1

Init == ~moving /\ age \in 0..(Bound + 1)

Command == age' = 0 /\ UNCHANGED moving
Move == age <= Fresh /\ moving' = TRUE /\ UNCHANGED age
Halt == moving' = FALSE /\ UNCHANGED age

\* Time stands still rather than let a moving actuator outlive its command.
Elapse ==
  /\ moving => age < Bound
  /\ age' = IF age > Bound THEN age ELSE age + 1
  /\ UNCHANGED moving

Next == Command \/ Move \/ Halt \/ Elapse

Spec == Init /\ [][Next]_<<moving, age>>
=============================================================================
