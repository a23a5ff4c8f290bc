---------------------------- MODULE VelocityControl ----------------------------
(***************************************************************************)
(* The commanded velocity of the dashboard: the shared VelocityState, the   *)
(* HTTP request threads that write it (/api/cmd_vel), the server-side       *)
(* fixed-distance drives (drive_distance, run by /api/fwd2m and by the      *)
(* battery test) and the 20 Hz thread that publishes it to the base.        *)
(*                                                                          *)
(* Speeds are integers in hundredths of m/s, distances are encoder pulses,  *)
(* time is counted in ticks.  A timestamp is represented by its age, which  *)
(* saturates just above every threshold the code compares it with, so no    *)
(* clock has to be bounded.                                                 *)
(***************************************************************************)
EXTENDS Integers, FiniteSets

CONSTANTS
  Drives,          \* threads that may run drive_distance
  Cancellable,     \* the drives called with a cancel predicate (battery test)
  Requests,        \* bodies <<linear_x, angular_z>> posted to /api/cmd_vel
  MaxLin, MaxAng,  \* limits of the active chassis
  DriveSpeeds,     \* speeds asked of a drive
  MinSpeed,        \* 0.05 m/s, the least cruise speed of a drive
  MaxInput,        \* MAX_LIN_INPUT, the greatest one
  Crawl,           \* FWD_SLOW_SPEED
  Tol,             \* 0.01 m/s, tolerance of the override check
  Target,          \* target distance in pulses
  SlowZone,        \* final pulses driven at Crawl
  MaxPulse,        \* bound on the robot's position, for model checking only
  MaxStep,         \* most pulses the robot moves in a tick, commanded or not
  Glitches,        \* errors a reported encoder count may carry (0 is one)
  MaxGlitch,       \* the greatest of them
  Timeout,         \* VelocityState.timeout
  StaleAfter,      \* age at which drive_distance refuses the encoder
  Deadline,        \* ticks a drive may last
  PubSlack,        \* most ticks between two wake-ups of the publish thread
  DriveSlack,      \* most ticks between two refreshes by a running drive
  PublishMayFail   \* whether publish_velocity may raise

None == <<>>
Stop == <<0, 0>>
AgeCap == Timeout + 2 * PubSlack + 1

ASSUME SpeedAssumption ==
  /\ MinSpeed \in Int /\ Crawl \in Int /\ Tol \in Nat /\ MaxInput \in Int
  /\ MaxLin \in Int /\ MaxAng \in Int
  /\ Tol < MinSpeed /\ Tol < Crawl /\ MinSpeed <= MaxInput
  /\ DriveSpeeds \subseteq Int
  /\ Requests \subseteq Int \X Int

ASSUME TimeAssumption ==
  /\ Timeout \in Nat /\ StaleAfter \in Nat /\ Deadline \in Nat
  /\ PubSlack \in Nat \ {0} /\ DriveSlack \in Nat

ASSUME OdometryAssumption ==
  /\ Target \in Int /\ SlowZone \in Int /\ MaxPulse \in Nat
  /\ MaxStep \in Nat /\ MaxGlitch \in Nat /\ Glitches \subseteq -MaxGlitch..MaxGlitch

ASSUME DriveAssumption ==
  /\ Cancellable \subseteq Drives
  /\ "operator" \notin Drives
  /\ PublishMayFail \in BOOLEAN

VARIABLES
  lin, ang, active,  \* VelocityState
  age,               \* ticks since vel.last, up to AgeCap
  pub,               \* what the publish thread is about to publish, or None
  pubAge,            \* ticks since the publish thread last consumed
  wire,              \* last message handed to the ROS publisher
  lost,              \* history: the latest stop was lost by a publish error
  pos,               \* true position of the robot
  odom, odomAge,     \* last reported encoder count and its age
  pc,                \* where each drive is
  job,               \* what it was asked: sign, cruise speed, first snapshot
  cmd, next,         \* cmd_speed and the speed planned for the next refresh
  seen,              \* distance computed at its last snapshot, and history: the
                     \* furthest the robot truly was from where the drive began
  left, since,       \* ticks to its deadline, ticks since its last refresh
  result,            \* what it returns
  writer             \* history: who wrote lin last

velVars  == <<lin, ang, active, age, writer>>
pubVars  == <<pub, pubAge, wire, lost>>
odomVars == <<pos, odom, odomAge>>
drvVars  == <<pc, job, cmd, next, seen, left, since, result>>
vars == <<velVars, pubVars, odomVars, drvVars>>

Abs(x) == IF x < 0 THEN -x ELSE x
Least(x, y) == IF x < y THEN x ELSE y
Most(x, y) == IF x < y THEN y ELSE x

\* Where a drive is: checking its deadline ("top"), past its 20 ms sleep
\* ("sample"), about to take the velocity lock ("write"), in `finally`.
Running == {"top", "sample", "write"}
Stage == {"idle", "arm", "finish", "returned"} \cup Running
Result == {"none", "encoder", "aborted", "incomplete", "done"}

Job == [sign : {1, -1}, speed : Int, start : Int, origin : Int]
NoJob == [sign |-> 1, speed |-> 0, start |-> 0, origin |-> 0]
Distance == [traveled : Int, reach : Nat]
Nowhere == [traveled |-> 0, reach |-> 0]

TypeOK ==
  /\ lin \in Int /\ ang \in Int /\ active \in BOOLEAN
  /\ age \in 0..AgeCap
  /\ pub \in {None} \cup (Int \X Int) /\ wire \in Int \X Int
  /\ pubAge \in 0..PubSlack
  /\ lost \in BOOLEAN
  /\ pos \in Int /\ odom \in Int /\ odomAge \in 0..(StaleAfter + 1)
  /\ writer \in Drives \cup {"operator"}
  /\ pc \in [Drives -> Stage] /\ job \in [Drives -> Job]
  /\ cmd \in [Drives -> Int] /\ next \in [Drives -> Int]
  /\ seen \in [Drives -> Distance]
  /\ left \in [Drives -> 0..Deadline] /\ since \in [Drives -> 0..DriveSlack]
  /\ result \in [Drives -> Result]

Init ==
  /\ lin = 0 /\ ang = 0 /\ active = FALSE /\ age = AgeCap
  /\ pub = None /\ pubAge = 0 /\ wire = Stop /\ lost = FALSE
  /\ pos = 0 /\ odom = 0 /\ odomAge = StaleAfter + 1
  /\ pc = [d \in Drives |-> "idle"] /\ job = [d \in Drives |-> NoJob]
  /\ cmd = [d \in Drives |-> 0] /\ next = [d \in Drives |-> 0]
  /\ seen = [d \in Drives |-> Nowhere]
  /\ left = [d \in Drives |-> 0] /\ since = [d \in Drives |-> 0]
  /\ result = [d \in Drives |-> "none"]
  /\ writer = "operator"

-----------------------------------------------------------------------------
(* VelocityState and its HTTP writers *)

SetCommand(l, a, who) ==
  /\ lin' = l /\ ang' = a /\ active' = TRUE /\ age' = 0
  /\ writer' = who

\* POST /api/cmd_vel; a request beyond the chassis limits changes nothing.
CmdVel(l, a) ==
  /\ Abs(l) <= MaxLin /\ Abs(a) <= MaxAng
  /\ SetCommand(l, a, "operator")
  /\ UNCHANGED <<pubVars, odomVars, drvVars>>

-----------------------------------------------------------------------------
(* The publish thread: consume_for_publish under the lock, publish outside *)

ConsumeIdle == ~active /\ UNCHANGED <<pub, active>>

\* Variant: the command is published once more when it expires.
ConsumeExpiredMoving ==
  active /\ age > Timeout /\ active' = FALSE /\ pub' = <<lin, ang>>

ConsumeExpired ==
  /\ active /\ age > Timeout
  /\ active' = FALSE /\ pub' = Stop

\* Variant: an expired command may be taken for a live one.
ConsumeLiveLate == active /\ active' = (lin # 0 \/ ang # 0) /\ pub' = <<lin, ang>>

ConsumeLive ==
  /\ active /\ age <= Timeout
  /\ active' = (lin # 0 \/ ang # 0)
  /\ pub' = <<lin, ang>>

Consume ==
  /\ pub = None
  /\ ConsumeIdle \/ ConsumeExpired \/ ConsumeLive
  /\ pubAge' = 0
  /\ UNCHANGED <<lin, ang, age, writer, wire, lost, odomVars, drvVars>>

Publish ==
  /\ pub # None
  /\ wire' = pub /\ pub' = None /\ lost' = FALSE
  /\ UNCHANGED <<velVars, pubAge, odomVars, drvVars>>

\* publish_velocity raised: the error is logged and the value is dropped.
PublishFail ==
  /\ PublishMayFail /\ pub # None
  /\ pub' = None /\ lost' = (lost \/ pub = Stop)
  /\ UNCHANGED <<velVars, pubAge, wire, odomVars, drvVars>>

-----------------------------------------------------------------------------
(* Wheel encoder messages and the passage of time *)

\* A report of the encoder; the count in it may be wrong.
OdomUpdate(glitch) ==
  /\ odom' = pos + glitch
  /\ odomAge' = 0
  /\ UNCHANGED <<velVars, pubVars, pos, drvVars>>

\* The robot moves with time, whatever it was told last and whether or not the
\* encoder reports.
Move(step) ==
  /\ pos + step \in -MaxPulse..MaxPulse
  /\ pos' = pos + step
  /\ seen' = [d \in Drives |-> IF pc[d] \in {"idle", "returned"} THEN seen[d] ELSE
       [seen[d] EXCEPT !.reach = Most(@, job[d].sign * (pos' - job[d].origin))]]

Tick ==
  /\ \E step \in -MaxStep..MaxStep : Move(step)
  /\ pubAge < PubSlack
  /\ \A d \in Drives : pc[d] # "idle" => since[d] < DriveSlack
  /\ age' = Least(age + 1, AgeCap)
  /\ pubAge' = pubAge + 1
  /\ odomAge' = Least(odomAge + 1, StaleAfter + 1)
  /\ since' = [d \in Drives |-> IF pc[d] = "idle" THEN 0 ELSE since[d] + 1]
  /\ left' = [d \in Drives |-> Most(left[d] - 1, 0)]
  /\ UNCHANGED <<lin, ang, active, writer, pub, wire, lost, odom,
                 pc, job, cmd, next, result>>

-----------------------------------------------------------------------------
(* drive_distance *)

ClampSpeed(s) == Most(MinSpeed, Least(MaxInput, Abs(s)))

\* auto_drive.plan_speed; None once the target is reached.
PlanSpeed(traveled, cruise) ==
  IF traveled >= Target THEN None
  ELSE IF Target - traveled <= SlowZone THEN <<Crawl>> ELSE <<cruise>>

\* Variant: a stale encoder is taken.
BeginStale(d, sign, s) ==
  /\ pc[d] = "idle"
  /\ pc' = [pc EXCEPT ![d] = "arm"]
  /\ job' = [job EXCEPT ![d] = [sign |-> sign, speed |-> ClampSpeed(s),
                               start |-> odom, origin |-> pos]]
  /\ UNCHANGED <<velVars, pubVars, odomVars, cmd, next, seen, left, since, result>>

\* Snapshot of the encoder; a stale or absent one refuses the drive.
Begin(d, sign, s) ==
  /\ pc[d] = "idle"
  /\ \/ /\ odomAge > StaleAfter
        /\ pc' = [pc EXCEPT ![d] = "returned"]
        /\ result' = [result EXCEPT ![d] = "encoder"]
        /\ UNCHANGED job
     \/ /\ odomAge <= StaleAfter
        /\ pc' = [pc EXCEPT ![d] = "arm"]
        /\ job' = [job EXCEPT ![d] = [sign |-> sign, speed |-> ClampSpeed(s),
                                     start |-> odom, origin |-> pos]]
        /\ UNCHANGED result
  /\ UNCHANGED <<velVars, pubVars, odomVars, cmd, next, seen, left, since>>

\* The first set_command; the deadline runs from here.
Arm(d) ==
  /\ pc[d] = "arm"
  /\ LET speed == job[d].sign * job[d].speed IN
       /\ SetCommand(speed, 0, d)
       /\ cmd' = [cmd EXCEPT ![d] = speed]
  /\ pc' = [pc EXCEPT ![d] = "top"]
  /\ left' = [left EXCEPT ![d] = Deadline]
  /\ since' = [since EXCEPT ![d] = 0]
  /\ UNCHANGED <<pubVars, odomVars, job, next, seen, result>>

\* Variant: the loop has no deadline.
TopForever(d) ==
  /\ pc[d] = "top" /\ pc' = [pc EXCEPT ![d] = "sample"]
  /\ UNCHANGED <<velVars, pubVars, odomVars, job, cmd, next, seen, left, since,
                 result>>

\* The loop condition, then the 20 ms sleep.
Top(d) ==
  /\ pc[d] = "top"
  /\ pc' = [pc EXCEPT ![d] = IF left[d] > 0 THEN "sample" ELSE "finish"]
  /\ UNCHANGED <<velVars, pubVars, odomVars, job, cmd, next, seen, left, since,
                 result>>

Abort(d) ==
  /\ pc' = [pc EXCEPT ![d] = "finish"]
  /\ result' = [result EXCEPT ![d] = "aborted"]
  /\ UNCHANGED <<velVars, pubVars, odomVars, job, cmd, next, seen, left, since>>

\* The cancel predicate answered True.
Cancelled(d) == d \in Cancellable /\ pc[d] = "sample" /\ Abort(d)

\* Odometry snapshot and the speed it calls for.
Sample(d) ==
  /\ pc[d] = "sample"
  /\ LET traveled == job[d].sign * (odom - job[d].start)
         plan == PlanSpeed(traveled, job[d].speed)
     IN /\ seen' = [seen EXCEPT ![d].traveled = traveled]
        /\ \/ plan = None /\ pc' = [pc EXCEPT ![d] = "finish"] /\ UNCHANGED next
           \/ /\ plan # None /\ pc' = [pc EXCEPT ![d] = "write"]
              /\ next' = [next EXCEPT ![d] = job[d].sign * plan[1]]
  /\ UNCHANGED <<velVars, pubVars, odomVars, job, cmd, left, since, result>>

\* Variant: no override check.
OverriddenNever(d) == FALSE

Overridden(d) == Abs(lin - cmd[d]) > Tol

\* Variant: the speed is refreshed and the deadman is not.
RefreshSpeedOnly(d) ==
  /\ pc[d] = "write" /\ ~Overridden(d)
  /\ lin' = next[d] /\ writer' = d
  /\ cmd' = [cmd EXCEPT ![d] = next[d]]
  /\ pc' = [pc EXCEPT ![d] = "top"]
  /\ since' = [since EXCEPT ![d] = 0]
  /\ UNCHANGED <<ang, active, age, pubVars, odomVars, job, next, seen, left, result>>

\* Under the lock: not overridden, so refresh the speed and the deadman.
Refresh(d) ==
  /\ pc[d] = "write" /\ ~Overridden(d)
  /\ lin' = next[d] /\ age' = 0 /\ writer' = d
  /\ cmd' = [cmd EXCEPT ![d] = next[d]]
  /\ pc' = [pc EXCEPT ![d] = "top"]
  /\ since' = [since EXCEPT ![d] = 0]
  /\ UNCHANGED <<ang, active, pubVars, odomVars, job, next, seen, left, result>>

GiveUp(d) == pc[d] = "write" /\ Overridden(d) /\ Abort(d)

\* `finally`: one stop; then the outcome is computed.
Outcome(d) ==
  IF result[d] = "aborted" THEN "aborted"
  ELSE IF seen[d].traveled >= Target THEN "done" ELSE "incomplete"

\* Variant: an aborted drive does not stop the robot.
FinishAborted(d) ==
  /\ pc[d] = "finish"
  /\ IF result[d] = "aborted" THEN UNCHANGED velVars ELSE SetCommand(0, 0, d)
  /\ pc' = [pc EXCEPT ![d] = "returned"]
  /\ result' = [result EXCEPT ![d] = Outcome(d)]
  /\ UNCHANGED <<pubVars, odomVars, job, cmd, next, seen, left, since>>

Finish(d) ==
  /\ pc[d] = "finish"
  /\ SetCommand(0, 0, d)
  /\ pc' = [pc EXCEPT ![d] = "returned"]
  /\ result' = [result EXCEPT ![d] = Outcome(d)]
  /\ UNCHANGED <<pubVars, odomVars, job, cmd, next, seen, left, since>>

\* The caller has the result; the locals of the call are gone.
Return(d) ==
  /\ pc[d] = "returned"
  /\ pc' = [pc EXCEPT ![d] = "idle"]
  /\ job' = [job EXCEPT ![d] = NoJob]
  /\ cmd' = [cmd EXCEPT ![d] = 0] /\ next' = [next EXCEPT ![d] = 0]
  /\ seen' = [seen EXCEPT ![d] = Nowhere]
  /\ left' = [left EXCEPT ![d] = 0] /\ since' = [since EXCEPT ![d] = 0]
  /\ result' = [result EXCEPT ![d] = "none"]
  /\ UNCHANGED <<velVars, pubVars, odomVars>>

DriveStep(d) ==
  \/ Arm(d) \/ Top(d) \/ Cancelled(d) \/ Sample(d)
  \/ Refresh(d) \/ GiveUp(d) \/ Finish(d) \/ Return(d)

Next ==
  \/ \E r \in Requests : CmdVel(r[1], r[2])
  \/ Consume \/ Publish \/ PublishFail
  \/ \E g \in Glitches : OdomUpdate(g)
  \/ Tick
  \/ \E d \in Drives, sign \in {1, -1}, s \in DriveSpeeds : Begin(d, sign, s)
  \/ \E d \in Drives : DriveStep(d)

\* The publish and drive threads are never starved, and time passes; nothing
\* obliges an operator, a drive request or an encoder message to come.
Fairness ==
  /\ WF_vars(Consume) /\ WF_vars(Publish \/ PublishFail) /\ WF_vars(Tick)
  /\ \A d \in Drives : WF_vars(DriveStep(d))

Spec == Init /\ [][Next]_vars
FairSpec == Spec /\ Fairness

-----------------------------------------------------------------------------
(* Properties *)

\* When VelocityState idles the base has been told to stop, unless that very
\* publish failed: consume_for_publish goes inactive only with a stop in hand.
IdleMeansStopped ==
  ~active /\ ~lost => IF pub = None THEN wire = Stop ELSE pub = Stop

\* The deadman: a movement command older than the timeout and two periods of
\* the publish thread is no longer what the base was last told.
DeadmanBound ==
  wire # Stop /\ ~lost => age <= Timeout + 2 * PubSlack

\* Why the bound holds: what is pending or published was consumed while it was
\* fresh, so its age is what the publish thread has let pass since, and an
\* expired command is consumed as a stop within one more period.
DeadmanInv ==
  /\ IdleMeansStopped
  /\ ~active /\ pub # None => pub = Stop
  /\ pub # None /\ pub # Stop => age <= Timeout + pubAge
  /\ wire # Stop /\ ~lost =>
       IF pub = Stop THEN age <= Timeout + PubSlack + pubAge
       ELSE age <= Timeout + pubAge

\* A stop in force is never turned back into motion by a drive that was
\* running when it came: only the first command of a drive, or an operator,
\* starts the robot again.
StopHolds ==
  [][\A d \in Drives : pc[d] \in Running /\ pc'[d] # pc[d]
        /\ lin = 0 /\ ang = 0 => lin' = 0 /\ ang' = 0]_vars

\* A drive whose own command is in force keeps the publish thread awake.
DriveKeepsAlive ==
  \A d \in Drives : pc[d] \in Running /\ writer = d => active

\* Why both hold: no drive writes a speed the override check would take for
\* standing still, ...
CommandInv ==
  \A d \in Drives :
    /\ pc[d] \in {"arm"} \cup Running => job[d].speed > Tol
    /\ pc[d] \in Running => Abs(cmd[d]) > Tol
    /\ pc[d] = "write" => Abs(next[d]) > Tol

\* ... and while a drive runs no command is older than its last refresh.
LiveInv ==
  \A d \in Drives : pc[d] \in Running =>
    /\ age <= since[d]
    /\ lin # 0 => active
    /\ writer = d => lin = cmd[d]

\* How far the encoder may be from the robot when a drive accepts it.
Slip == StaleAfter * MaxStep + MaxGlitch

\* A drive that reports it is done has had the robot as far as it was asked, in
\* the direction asked, from where it stood when the drive began, short of what
\* it may have moved since the snapshot the drive started from and of the errors
\* of the first and the last count.
DoneIsReal ==
  \A d \in Drives : result[d] = "done" => seen[d].reach >= Target - Slip - MaxGlitch

\* Why it holds: what a drive computes is ahead of the robot by no more.
OdometryInv ==
  /\ odomAge <= StaleAfter => Abs(pos - odom) <= odomAge * MaxStep + MaxGlitch
  /\ \A d \in Drives :
       /\ Abs(job[d].start - job[d].origin) <= Slip
       /\ pc[d] \in {"arm"} \cup Running =>
            /\ job[d].sign * (pos - job[d].origin) <= seen[d].reach
            /\ job[d].sign * (odom - job[d].start) <= seen[d].reach + Slip + MaxGlitch
       /\ seen[d].traveled <= seen[d].reach + Slip + MaxGlitch
       /\ result[d] = "done" => pc[d] = "returned" /\ seen[d].traveled >= Target

\* No orphan motion: a velocity a drive wrote is in force only while that
\* drive is still running, or about to write the stop of its `finally`.
NoOrphanMotion ==
  writer \in Drives /\ lin # 0 => pc[writer] \in Running \cup {"finish"}

\* Every drive ends: target, override, cancellation or deadline.
DriveEnds ==
  \A d \in Drives : pc[d] # "idle" ~> pc[d] = "idle"

\* The component implements the deadman its documentation promises, with the
\* latencies of its threads in the bounds; a stop that was lost counts as one.
D == INSTANCE Deadman WITH
       moving <- wire # Stop /\ ~lost, age <- age,
       Fresh <- Timeout + PubSlack, Bound <- Timeout + 2 * PubSlack
ImplementsDeadman == D!Spec
=============================================================================
