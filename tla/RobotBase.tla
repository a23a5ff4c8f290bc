------------------------------- MODULE RobotBase -------------------------------
(***************************************************************************)
(* robot_base_node: the ROS callback that stores wheel speeds and the loop  *)
(* thread that writes them to the chassis over the serial port, with its    *)
(* own deadman, the reopening of a lost port, and the node's shutdown.  The *)
(* two threads share speed_l, speed_r and last_cmd without a lock, so each  *)
(* assignment and each read is a step.                                      *)
(***************************************************************************)
EXTENDS Integers

CONSTANTS
  Commands,    \* speed pairs published on speed_cmd
  CmdTimeout,  \* CMD_TIMEOUT in ticks
  LoopSlack,   \* most ticks a pass of the loop takes while the port is open
  BadLimit,    \* BAD_READ_LIMIT
  MaxSkew,     \* most the wall clock is set back between two messages
  Faults       \* what may go wrong: "port", "clock", "shutdown"

Stop == <<0, 0>>
SilenceCap == CmdTimeout + 2 * LoopSlack + MaxSkew + 1

ASSUME RobotBaseAssumption ==
  /\ Commands \subseteq Int \X Int
  /\ CmdTimeout \in Nat /\ LoopSlack \in Nat \ {0} /\ BadLimit \in Nat \ {0}
  /\ MaxSkew \in Nat
  /\ Faults \subseteq {"port", "clock", "shutdown"}

VARIABLES
  speedL, speedR,  \* speed_l, speed_r
  age,             \* wall-clock age of last_cmd, negative once the clock was set back
  cb, msg,         \* progress of the callback and the message it stores
  loop,            \* progress of the loop thread
  argL, argR,      \* arguments of the write_speed_frame call being evaluated
  loopAge,         \* ticks since the loop last looked at the deadman
  bad,             \* _bad_reads
  open,            \* whether the serial port is open
  main,            \* progress of the main thread: spinning, destroy_node
  frame,           \* last speeds the chassis received
  silence,         \* history: ticks since the last message arrived
  last,            \* history: last message stored completely
  outage,          \* history: the last write failed, or the port did after it
  skew             \* history: how far the clock was set back since last_cmd was stamped

cmdVars  == <<speedL, speedR, age, cb, msg, silence, last, skew>>
loopVars == <<loop, argL, argR, loopAge, bad>>
vars == <<cmdVars, loopVars, open, main, frame, outage>>

Deciding == {"zeroL", "zeroR", "argL", "argR", "send"}
LoopStage == {"top", "check", "sensors", "dead"} \cup Deciding

TypeOK ==
  /\ speedL \in Int /\ speedR \in Int /\ argL \in Int /\ argR \in Int
  /\ age \in -skew..SilenceCap /\ silence \in 0..SilenceCap
  /\ cb \in {"idle", "left", "right"} /\ msg \in Int \X Int
  /\ loop \in LoopStage /\ loopAge \in 0..LoopSlack /\ bad \in 0..BadLimit
  /\ open \in BOOLEAN /\ outage \in BOOLEAN /\ skew \in 0..MaxSkew
  /\ main \in {"spin", "stopping", "stopped", "done"}
  /\ frame \in Int \X Int /\ last \in Int \X Int

Init ==
  /\ speedL = 0 /\ speedR = 0 /\ age = 0 /\ silence = 0
  /\ cb = "idle" /\ msg = Stop /\ last = Stop
  /\ loop = "top" /\ argL = 0 /\ argR = 0 /\ loopAge = 0 /\ bad = 0
  /\ open \in {TRUE, "port" \notin Faults}
  /\ main = "spin" /\ frame = Stop
  /\ outage = ~open /\ skew = 0

-----------------------------------------------------------------------------
(* _speed_cb, run by the executor of the main thread *)

\* A message arrives and its left speed is stored.
StoreLeft(m) ==
  /\ main = "spin" /\ cb = "idle"
  /\ speedL' = m[1] /\ msg' = m /\ cb' = "left" /\ silence' = 0
  /\ UNCHANGED <<speedR, age, last, skew, loopVars, open, main, frame, outage>>

\* Variant: a truth test on the speed, which ignores zero.
StoreRightTruthy ==
  /\ main = "spin" /\ cb = "left"
  /\ speedR' = (IF msg[2] = 0 THEN speedR ELSE msg[2]) /\ cb' = "right"
  /\ UNCHANGED <<speedL, msg, age, silence, last, skew, loopVars, open, main,
                 frame, outage>>

StoreRight ==
  /\ main = "spin" /\ cb = "left"
  /\ speedR' = msg[2] /\ cb' = "right"
  /\ UNCHANGED <<speedL, msg, age, silence, last, skew, loopVars, open, main,
                 frame, outage>>

StampCommand ==
  /\ main = "spin" /\ cb = "right"
  /\ age' = 0 /\ cb' = "idle" /\ last' = msg /\ msg' = Stop /\ skew' = 0
  /\ UNCHANGED <<speedL, speedR, silence, loopVars, open, main, frame, outage>>

-----------------------------------------------------------------------------
(* _loop *)

\* The while condition.
LoopTop ==
  /\ loop = "top"
  /\ \/ main # "spin" /\ loop' = "dead"
     \/ main = "spin" /\ open /\ loop' = "check"
  /\ UNCHANGED <<cmdVars, argL, argR, loopAge, bad, open, main, frame, outage>>

\* Variant: the pass goes on to write once the port is open.
OpenPortAndWrite ==
  /\ loop = "top" /\ main = "spin" /\ ~open
  /\ open' = TRUE /\ bad' = 0 /\ loop' = "argL"
  /\ UNCHANGED <<cmdVars, argL, argR, loopAge, main, frame, outage>>

\* With no port one is opened and the pass ends there; an attempt that fails
\* changes nothing.
OpenPort ==
  /\ loop = "top" /\ main = "spin" /\ ~open
  /\ open' = TRUE /\ bad' = 0
  /\ UNCHANGED <<cmdVars, loop, argL, argR, loopAge, main, frame, outage>>

\* Variant: no deadman.
CheckNothing ==
  /\ loop = "check" /\ loop' = "argL" /\ loopAge' = 0
  /\ UNCHANGED <<cmdVars, argL, argR, bad, open, main, frame, outage>>

\* Variant: a deadman one tick late.
CheckDeadmanLate ==
  /\ loop = "check"
  /\ loop' = IF age > CmdTimeout + 1 THEN "zeroL" ELSE "argL"
  /\ loopAge' = 0
  /\ UNCHANGED <<cmdVars, argL, argR, bad, open, main, frame, outage>>

\* The deadman.
CheckDeadman ==
  /\ loop = "check"
  /\ loop' = IF age > CmdTimeout THEN "zeroL" ELSE "argL"
  /\ loopAge' = 0
  /\ UNCHANGED <<cmdVars, argL, argR, bad, open, main, frame, outage>>

ZeroLeft ==
  /\ loop = "zeroL" /\ speedL' = 0 /\ loop' = "zeroR"
  /\ UNCHANGED <<speedR, age, cb, msg, silence, last, skew, argL, argR, loopAge,
                 bad, open, main, frame, outage>>

ZeroRight ==
  /\ loop = "zeroR" /\ speedR' = 0 /\ loop' = "argL"
  /\ UNCHANGED <<speedL, age, cb, msg, silence, last, skew, argL, argR, loopAge,
                 bad, open, main, frame, outage>>

\* The arguments of write_speed_frame are read one after the other.
ReadLeft ==
  /\ loop = "argL" /\ argL' = speedL /\ loop' = "argR"
  /\ UNCHANGED <<cmdVars, argR, loopAge, bad, open, main, frame, outage>>

ReadRight ==
  /\ loop = "argR" /\ argR' = speedR /\ loop' = "send"
  /\ UNCHANGED <<cmdVars, argL, loopAge, bad, open, main, frame, outage>>

\* Serial write; on a port closed by destroy_node it raises.
Send ==
  /\ loop = "send" /\ open
  /\ frame' = <<argL, argR>> /\ outage' = FALSE
  /\ argL' = 0 /\ argR' = 0 /\ loop' = "sensors"
  /\ UNCHANGED <<cmdVars, loopAge, bad, open, main>>

\* The chassis does not take the frame, and its acknowledgement is bad: the pass
\* goes on all the same.
SendUntaken ==
  /\ "port" \in Faults /\ loop = "send" /\ open
  /\ outage' = TRUE
  /\ argL' = 0 /\ argR' = 0 /\ loop' = "sensors"
  /\ UNCHANGED <<cmdVars, loopAge, bad, open, main, frame>>

\* Any other exception ends the pass and keeps the port.
OtherError ==
  /\ "port" \in Faults /\ loop \in {"send", "sensors"} /\ open
  /\ outage' = (outage \/ loop = "send")
  /\ argL' = 0 /\ argR' = 0 /\ loop' = "top"
  /\ UNCHANGED <<cmdVars, loopAge, bad, open, main, frame>>

\* A SerialException drops the port, whether it came before or after the write.
PortError ==
  /\ loop \in {"send", "sensors"}
  /\ "port" \in Faults \/ ~open
  /\ open' = FALSE /\ outage' = TRUE
  /\ argL' = 0 /\ argR' = 0 /\ loop' = "top"
  /\ UNCHANGED <<cmdVars, loopAge, bad, main, frame>>

\* Sensor block: good, ...
GoodRead ==
  /\ loop = "sensors" /\ open
  /\ loop' = "top" /\ bad' = 0
  /\ UNCHANGED <<cmdVars, argL, argR, loopAge, open, main, frame, outage>>

BadRead ==
  /\ "port" \in Faults /\ loop = "sensors" /\ open /\ bad + 1 < BadLimit
  /\ loop' = "top" /\ bad' = bad + 1
  /\ UNCHANGED <<cmdVars, argL, argR, loopAge, open, main, frame, outage>>

\* ... or bad once too often, which drops the port.
LastBadRead ==
  /\ "port" \in Faults /\ loop = "sensors" /\ open /\ bad + 1 >= BadLimit
  /\ loop' = "top" /\ bad' = BadLimit
  /\ open' = FALSE /\ outage' = TRUE
  /\ UNCHANGED <<cmdVars, argL, argR, loopAge, main, frame>>

LoopStep ==
  \/ LoopTop \/ OpenPort \/ CheckDeadman \/ ZeroLeft \/ ZeroRight \/ ReadLeft \/ ReadRight
  \/ Send \/ SendUntaken \/ OtherError \/ PortError
  \/ GoodRead \/ BadRead \/ LastBadRead

-----------------------------------------------------------------------------
(* destroy_node, run by the main thread once spinning has been interrupted *)

Interrupt ==
  /\ "shutdown" \in Faults /\ main = "spin"
  /\ main' = "stopping"
  /\ UNCHANGED <<cmdVars, loopVars, open, frame, outage>>

\* The stop frame, if there is a port; an exception is swallowed.
StopFrame ==
  /\ main = "stopping"
  /\ main' = "stopped"
  /\ \/ open /\ frame' = Stop
     \/ (~open \/ "port" \in Faults) /\ UNCHANGED frame
  /\ UNCHANGED <<cmdVars, loopVars, open, outage>>

ClosePort ==
  /\ main = "stopped"
  /\ main' = "done" /\ open' = FALSE
  /\ UNCHANGED <<cmdVars, loopVars, frame, outage>>

-----------------------------------------------------------------------------
(* Time *)

\* A callback takes no time worth a tick, and the loop keeps its period as long
\* as the port answers.
Tick ==
  /\ cb = "idle" \/ main # "spin"
  /\ open /\ loop # "dead" => loopAge < LoopSlack
  /\ age' = IF age < SilenceCap THEN age + 1 ELSE age
  /\ silence' = IF silence < SilenceCap THEN silence + 1 ELSE silence
  /\ loopAge' = IF loopAge < LoopSlack THEN loopAge + 1 ELSE loopAge
  /\ UNCHANGED <<speedL, speedR, cb, msg, last, skew, loop, argL, argR, bad,
                 open, main, frame, outage>>

\* time.time() is the wall clock: it may be set back, and last_cmd is then in the
\* future.
ClockSetBack(k) ==
  /\ "clock" \in Faults /\ skew + k <= MaxSkew
  /\ age' = age - k /\ skew' = skew + k
  /\ UNCHANGED <<speedL, speedR, cb, msg, silence, last, loopVars, open, main,
                 frame, outage>>

Next ==
  \/ \E m \in Commands : StoreLeft(m)
  \/ StoreRight \/ StampCommand
  \/ LoopStep
  \/ Interrupt \/ StopFrame \/ ClosePort
  \/ Tick
  \/ \E k \in 1..MaxSkew : ClockSetBack(k)

\* The threads of the node run and time passes.
Fairness == WF_vars(StoreRight \/ StampCommand) /\ WF_vars(LoopStep) /\ WF_vars(Tick)

Spec == Init /\ [][Next]_vars
FairSpec == Spec /\ Fairness

-----------------------------------------------------------------------------
(* Properties *)

\* The node promises something about the chassis while its writes are taken and it is
\* not being shut down.
Trusted == ~outage /\ main = "spin"

\* The deadman of the base: whatever pair of speeds the two threads came up
\* with, the chassis was not last told to move by an old message.
DeadmanBound ==
  frame # Stop /\ Trusted => silence <= CmdTimeout + 2 * LoopSlack + skew

\* No stale command is ever written, be it the first frame after an outage of the
\* port, the same speeds as before, or a frame the chassis will not take: speeds
\* that move the chassis are written on a message no older than the deadman.  What
\* the clock was set back is the most they may be older.
NoReplay ==
  [][loop = "send" /\ loop' = "sensors" /\ <<argL, argR>> # Stop
       => silence <= CmdTimeout + LoopSlack + skew]_vars

\* A stop message stored completely is in force on both wheels, even when the
\* deadman was zeroing them at the time.
StopIsStored == cb = "idle" /\ last = Stop => speedL = 0 /\ speedR = 0

\* Why: a callback in progress has left each speed as its message has it, or
\* the deadman has made it zero since.
StoredInv ==
  /\ cb = "left" => speedL \in {0, msg[1]}
  /\ cb = "right" => speedL \in {0, msg[1]} /\ speedR \in {0, msg[2]}
  /\ StopIsStored

\* A message in force for two passes of the loop has replaced every earlier one
\* on the wire, each wheel by itself: the loop may pair the wheels of two
\* messages for a pass, and a race with the deadman may leave a wheel standing.
CommandsArrive ==
  cb = "idle" /\ silence > 2 * LoopSlack /\ age <= CmdTimeout /\ Trusted
    => frame[1] \in {0, last[1]} /\ frame[2] \in {0, last[2]}

\* If messages stop coming, the chassis is stopped for good, unless its writes keep
\* failing or the node is shut down.
QuietStops == []<>(silence = 0) \/ []<>~Trusted \/ <>[](frame = Stop)

\* Why both bounds hold: speeds that are not zero, in the shared variables or
\* on their way to the port, are as fresh as the pass that is using them.
Recent == silence <= CmdTimeout + skew + loopAge
DeadmanInv ==
  /\ main = "spin" /\ cb # "idle" => silence = 0
  /\ main = "spin" => loop # "dead" /\ (~outage => open)
  /\ silence <= age + skew
  /\ open =>
       /\ loop = "zeroR" /\ speedL # 0 => Recent
       /\ loop \in {"argL", "argR", "send"} /\ (speedL # 0 \/ speedR # 0) => Recent
       /\ loop \in {"argR", "send"} /\ argL # 0 => Recent
       /\ loop = "send" /\ argR # 0 => Recent
  /\ frame # Stop /\ Trusted =>
       IF loop \in Deciding THEN silence <= CmdTimeout + LoopSlack + skew + loopAge
       ELSE Recent

\* The node implements the same deadman as the dashboard, with its own timeout
\* and latency, and a clock set back in both bounds: a failed write and a shutdown
\* count as a halt, and nothing but a fresh message ends it.
D == INSTANCE Deadman WITH
       moving <- frame # Stop /\ Trusted, age <- silence,
       Fresh <- CmdTimeout + LoopSlack + MaxSkew,
       Bound <- CmdTimeout + 2 * LoopSlack + MaxSkew
ImplementsDeadman == D!Spec
=============================================================================
