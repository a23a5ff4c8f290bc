------------------------- MODULE VelocityControlProofs -------------------------
(***************************************************************************)
(* Theorems about VelocityControl for every value of its constants.         *)
(***************************************************************************)
EXTENDS VelocityControl, TLAPS

\* The constants that bound the types are numbers.
LEMMA ConstantTypes ==
  /\ AgeCap \in Nat /\ Timeout \in Nat /\ PubSlack \in Nat \ {0}
  /\ StaleAfter \in Nat /\ Deadline \in Nat /\ DriveSlack \in Nat
  /\ Target \in Int /\ Crawl \in Int /\ SlowZone \in Int
  /\ MinSpeed \in Int /\ MaxInput \in Int /\ Tol \in Nat /\ MaxPulse \in Nat
  /\ MaxStep \in Nat /\ MaxGlitch \in Nat /\ Glitches \subseteq -MaxGlitch..MaxGlitch
BY SpeedAssumption, TimeAssumption, OdometryAssumption DEF AgeCap

\* The sign of a drive only flips the number it multiplies.
LEMMA SignTimes ==
  ASSUME NEW s \in {1, -1}, NEW x \in Int
  PROVE  /\ s * x \in Int
         /\ s = 1 => s * x = x
         /\ s = -1 => s * x = -x
<1>1. CASE s = 1
  BY <1>1
<1>2. CASE s = -1
  BY <1>2
<1> QED
  BY <1>1, <1>2

\* A drive never cruises below MinSpeed.
LEMMA ClampSpeedBound ==
  ASSUME NEW s \in Int
  PROVE  ClampSpeed(s) \in Int /\ ClampSpeed(s) >= MinSpeed
BY ConstantTypes DEF ClampSpeed, Abs, Least, Most

\* plan_speed asks for the cruise speed, for the crawl, or for the end.
LEMMA PlanSpeedRange ==
  ASSUME NEW t \in Int, NEW c \in Int
  PROVE  /\ PlanSpeed(t, c) \in {None, <<Crawl>>, <<c>>}
         /\ PlanSpeed(t, c) # None => PlanSpeed(t, c)[1] \in {Crawl, c}
         /\ PlanSpeed(t, c) = None <=> t >= Target
BY ConstantTypes DEF PlanSpeed, None

-----------------------------------------------------------------------------
(* Type correctness *)

LEMMA TypeInit == Init => TypeOK
<1> SUFFICES ASSUME Init PROVE TypeOK
  OBVIOUS
<1>1. pub \in {None} \cup (Int \X Int) /\ wire \in Int \X Int
  BY DEF Init, Stop
<1>2. /\ age \in 0..AgeCap /\ pubAge \in 0..PubSlack
      /\ odomAge \in 0..(StaleAfter + 1)
  BY ConstantTypes DEF Init
<1>3. /\ job \in [Drives -> Job] /\ seen \in [Drives -> Distance]
      /\ pc \in [Drives -> Stage] /\ result \in [Drives -> Result]
  BY DEF Init, NoJob, Job, Nowhere, Distance, Stage, Result
<1>4. /\ left \in [Drives -> 0..Deadline] /\ since \in [Drives -> 0..DriveSlack]
      /\ cmd \in [Drives -> Int] /\ next \in [Drives -> Int]
  BY ConstantTypes DEF Init
<1>5. /\ lin \in Int /\ ang \in Int /\ pos \in Int /\ odom \in Int
      /\ writer \in Drives \cup {"operator"}
  BY DEF Init
<1>6. active \in BOOLEAN /\ lost \in BOOLEAN
  BY DEF Init
<1> QED
  BY <1>1, <1>2, <1>3, <1>4, <1>5, <1>6 DEF TypeOK

\* The signed speed a drive starts with, and the one it plans, are integers.
LEMMA DriveSpeedType ==
  ASSUME TypeOK, NEW d \in Drives, NEW v \in Int
  PROVE  /\ job[d].sign * v \in Int
         /\ job[d].sign * job[d].speed \in Int
BY SignTimes DEF TypeOK, Job

LEMMA DriveStepType ==
  ASSUME TypeOK, NEW d \in Drives, DriveStep(d)
  PROVE  TypeOK'
<1> USE ConstantTypes
<1>1. CASE Arm(d)
  <2>1. lin' \in Int /\ cmd' \in [Drives -> Int]
    BY <1>1, DriveSpeedType DEF Arm, SetCommand, TypeOK
  <2> QED
    BY <1>1, <2>1 DEF Arm, SetCommand, TypeOK, Stage, Running, pubVars, odomVars
<1>2. CASE Top(d)
  BY <1>2 DEF Top, TypeOK, Stage, Running, velVars, pubVars, odomVars
<1>3. CASE Cancelled(d) \/ GiveUp(d)
  BY <1>3 DEF Cancelled, GiveUp, Abort, TypeOK, Stage, Running, Result,
              velVars, pubVars, odomVars
<1>4. CASE Sample(d)
  <2> DEFINE t == job[d].sign * (odom - job[d].start)
  <2>1. t \in Int
    BY SignTimes DEF TypeOK, Job
  <2>2. seen' = [seen EXCEPT ![d].traveled = t]
    BY <1>4 DEF Sample
  <2>3. seen' \in [Drives -> Distance]
    <3> HIDE DEF t
    <3> QED
      BY <2>1, <2>2 DEF TypeOK, Distance
  <2>4. next' \in [Drives -> Int] /\ pc' \in [Drives -> Stage]
    <3> DEFINE plan == PlanSpeed(t, job[d].speed)
    <3>1. plan # None => plan[1] \in Int
      BY <2>1, PlanSpeedRange DEF TypeOK, Job
    <3>2. \/ UNCHANGED next
          \/ plan # None /\ next' = [next EXCEPT ![d] = job[d].sign * plan[1]]
      BY <1>4 DEF Sample
    <3>3. pc' \in [Drives -> Stage]
      BY <1>4 DEF Sample, TypeOK, Stage, Running
    <3> HIDE DEF plan
    <3> QED
      BY <3>1, <3>2, <3>3, DriveSpeedType DEF TypeOK
  <2> QED
    BY <1>4, <2>3, <2>4 DEF Sample, TypeOK, velVars, pubVars, odomVars
<1>5. CASE Refresh(d)
  BY <1>5 DEF Refresh, TypeOK, Stage, Running, pubVars, odomVars
<1>6. CASE Finish(d)
  BY <1>6 DEF Finish, Outcome, SetCommand, TypeOK, Stage, Running, Result,
              pubVars, odomVars
<1>7. CASE Return(d)
  <2>1. NoJob \in Job /\ Nowhere \in Distance
    BY DEF NoJob, Job, Nowhere, Distance
  <2> QED
    BY <1>7, <2>1 DEF Return, TypeOK, Stage, Result, velVars, pubVars, odomVars
<1> QED
  BY <1>1, <1>2, <1>3, <1>4, <1>5, <1>6, <1>7 DEF DriveStep

\* Moving, the robot keeps its position and every drive's reach of their types.
LEMMA MoveType ==
  ASSUME TypeOK, NEW step \in Int, Move(step)
  PROVE  seen' \in [Drives -> Distance] /\ pos' \in Int
<1>1. pos' \in Int
  BY DEF Move, TypeOK
<1>2. ASSUME NEW d \in Drives
      PROVE  job[d].sign * (pos' - job[d].origin) \in Int
  BY <1>1, SignTimes DEF TypeOK, Job
<1>3. ASSUME NEW d \in Drives
      PROVE  [seen[d] EXCEPT !.reach = Most(@, job[d].sign * (pos' - job[d].origin))]
               \in Distance
  <2> DEFINE r == Most(seen[d].reach, job[d].sign * (pos' - job[d].origin))
  <2>1. r \in Nat
    BY <1>2 DEF Most, TypeOK, Distance
  <2> HIDE DEF r
  <2>2. [seen[d] EXCEPT !.reach = r] \in Distance
    BY <2>1 DEF TypeOK, Distance
  <2> QED
    BY <2>2 DEF r
<1> QED
  BY <1>1, <1>3 DEF Move, TypeOK

LEMMA TypeNext == TypeOK /\ [Next]_vars => TypeOK'
<1> SUFFICES ASSUME TypeOK, [Next]_vars PROVE TypeOK'
  OBVIOUS
<1> USE ConstantTypes
<1>1. ASSUME NEW r \in Requests, CmdVel(r[1], r[2]) PROVE TypeOK'
  BY <1>1, SpeedAssumption
     DEF CmdVel, SetCommand, TypeOK, pubVars, odomVars, drvVars
<1>2. CASE Consume
  <2>1. pub' \in {None} \cup (Int \X Int)
    BY <1>2 DEF Consume, ConsumeIdle, ConsumeExpired, ConsumeLive, TypeOK, Stop
  <2>2. active' \in BOOLEAN
    BY <1>2, Zenon DEF Consume, ConsumeIdle, ConsumeExpired, ConsumeLive, TypeOK
  <2> QED
    BY <1>2, <2>1, <2>2 DEF Consume, TypeOK, odomVars, drvVars
<1>3. CASE Publish
  BY <1>3 DEF Publish, TypeOK, odomVars, velVars, drvVars
<1>4. CASE PublishFail
  BY <1>4 DEF PublishFail, TypeOK, odomVars, velVars, drvVars
<1>5. ASSUME NEW g \in Glitches, OdomUpdate(g)
      PROVE TypeOK'
  BY <1>5, OdometryAssumption
     DEF OdomUpdate, TypeOK, velVars, pubVars, drvVars
<1>6. CASE Tick
  <2>1. since' \in [Drives -> 0..DriveSlack] /\ left' \in [Drives -> 0..Deadline]
    BY <1>6 DEF Tick, TypeOK, Most
  <2>2. /\ age' \in 0..AgeCap /\ odomAge' \in 0..(StaleAfter + 1)
        /\ pubAge' \in 0..PubSlack
    BY <1>6 DEF Tick, TypeOK, Least
  <2>3. seen' \in [Drives -> Distance] /\ pos' \in Int
    BY <1>6, MoveType DEF Tick
  <2> QED
    BY <1>6, <2>1, <2>2, <2>3 DEF Tick, TypeOK
<1>7. ASSUME NEW d \in Drives, NEW sign \in {1, -1}, NEW s \in DriveSpeeds,
             Begin(d, sign, s)
      PROVE TypeOK'
  <2>1. ClampSpeed(s) \in Int
    BY ClampSpeedBound, SpeedAssumption
  <2>2. job' \in [Drives -> Job]
    BY <1>7, <2>1 DEF Begin, TypeOK, Job
  <2> QED
    BY <1>7, <2>2 DEF Begin, TypeOK, Stage, Running, Result, velVars, pubVars,
                      odomVars
<1>8. ASSUME NEW d \in Drives, DriveStep(d) PROVE TypeOK'
  BY <1>8, DriveStepType
<1>9. CASE UNCHANGED vars
  BY <1>9 DEF TypeOK, vars, velVars, pubVars, odomVars, drvVars
<1> QED
  BY <1>1, <1>2, <1>3, <1>4, <1>5, <1>6, <1>7, <1>8, <1>9 DEF Next

\* Every variable keeps its type, whatever the threads do.
THEOREM TypeCorrect == Spec => []TypeOK
BY TypeInit, TypeNext, PTL DEF Spec
-----------------------------------------------------------------------------
(* The deadman *)

LEMMA DeadmanInit == Init => DeadmanInv
BY DEF Init, DeadmanInv, IdleMeansStopped, None, Stop

LEMMA DeadmanNext == TypeOK /\ DeadmanInv /\ [Next]_vars => DeadmanInv'
<1> SUFFICES ASSUME TypeOK, DeadmanInv, [Next]_vars PROVE DeadmanInv'
  OBVIOUS
<1> USE ConstantTypes
<1>1. CASE Consume
  <2>1. CASE ConsumeIdle
    BY <1>1, <2>1 DEF Consume, ConsumeIdle, TypeOK, DeadmanInv, IdleMeansStopped,
                      None, Stop
  <2>2. CASE ConsumeExpired
    BY <1>1, <2>2 DEF Consume, ConsumeExpired, TypeOK, DeadmanInv,
                      IdleMeansStopped, None, Stop
  <2>3. CASE ConsumeLive
    <3>1. ~active' => pub' = Stop
      BY <2>3, Zenon DEF ConsumeLive, Stop
    <3>2. pub' # None
      BY <2>3 DEF ConsumeLive, None
    <3>3. age' \in Nat /\ age' <= Timeout /\ pubAge' = 0
      BY <1>1, <2>3 DEF Consume, ConsumeLive, TypeOK
    <3> QED
      BY <3>1, <3>2, <3>3 DEF TypeOK, DeadmanInv, IdleMeansStopped
  <2> QED
    BY <1>1, <2>1, <2>2, <2>3 DEF Consume
<1>2. CASE Publish
  BY <1>2 DEF Publish, velVars, TypeOK, DeadmanInv, IdleMeansStopped, None, Stop
<1>3. CASE PublishFail
  <2>1. ~lost' => ~lost /\ pub # Stop
    BY <1>3, Zenon DEF PublishFail
  <2>2. UNCHANGED <<active, age, pubAge, wire>> /\ pub # None /\ pub' = None
    BY <1>3 DEF PublishFail, velVars
  <2>3. None # Stop
    BY DEF None, Stop
  <2>4. CASE lost'
    BY <2>2, <2>3, <2>4 DEF DeadmanInv, IdleMeansStopped
  <2>5. CASE ~lost'
    BY <2>1, <2>2, <2>3, <2>5 DEF DeadmanInv, IdleMeansStopped
  <2> QED
    BY <2>4, <2>5
<1>4. CASE Tick
  BY <1>4 DEF Tick, Least, TypeOK, DeadmanInv, IdleMeansStopped
<1>5. ASSUME UNCHANGED pubVars,
             \/ UNCHANGED <<active, age>>
             \/ age' = 0 /\ (active' \/ active' = active)
      PROVE DeadmanInv'
  BY <1>5 DEF pubVars, TypeOK, DeadmanInv, IdleMeansStopped
<1>6. \/ Consume \/ Publish \/ PublishFail \/ Tick
      \/ /\ UNCHANGED pubVars
         /\ \/ UNCHANGED <<active, age>>
            \/ age' = 0 /\ (active' \/ active' = active)
  BY DEF Next, vars, CmdVel, SetCommand, OdomUpdate, Begin, DriveStep, Arm, Top,
         Cancelled, GiveUp, Abort, Sample, Refresh, Finish, Return, velVars
<1> QED
  BY <1>1, <1>2, <1>3, <1>4, <1>5, <1>6

\* The inductive invariant behind the deadman holds always.
THEOREM DeadmanInvariant == Spec => []DeadmanInv
BY DeadmanInit, DeadmanNext, TypeCorrect, PTL DEF Spec

\* An idle VelocityState has told the base to stop, unless that publish failed.
THEOREM IdleIsStopped == Spec => []IdleMeansStopped
BY DeadmanInvariant, PTL DEF DeadmanInv

\* The latency of the dashboard's deadman: timeout plus two publish periods.
THEOREM DeadmanHolds == Spec => []DeadmanBound
<1>1. TypeOK /\ DeadmanInv => DeadmanBound
  BY ConstantTypes DEF TypeOK, DeadmanInv, DeadmanBound
<1> QED
  BY <1>1, TypeCorrect, DeadmanInvariant, PTL
-----------------------------------------------------------------------------
(* The drives *)

\* A number and its opposite are equally far from zero.
LEMMA AbsFacts ==
  ASSUME NEW x \in Int
  PROVE  Abs(x) \in Nat /\ Abs(-x) = Abs(x) /\ (Abs(x) > Tol => x # 0)
BY ConstantTypes DEF Abs

\* Signing a speed above the tolerance keeps it above the tolerance.
LEMMA SignedSpeed ==
  ASSUME TypeOK, NEW d \in Drives, NEW v \in Int, v > Tol
  PROVE  Abs(job[d].sign * v) > Tol
<1>1. job[d].sign \in {1, -1}
  BY DEF TypeOK, Job
<1>2. job[d].sign * v = v \/ job[d].sign * v = -v
  BY <1>1, SignTimes
<1>3. Abs(v) > Tol /\ Abs(-v) > Tol
  BY ConstantTypes DEF Abs
<1> QED
  BY <1>2, <1>3

LEMMA CommandInit == Init => CommandInv
BY DEF Init, CommandInv, Running

LEMMA CommandNext == TypeOK /\ CommandInv /\ [Next]_vars => CommandInv'
<1> SUFFICES ASSUME TypeOK, CommandInv, [Next]_vars, NEW e \in Drives
             PROVE  /\ pc'[e] \in {"arm"} \cup Running => job'[e].speed > Tol
                    /\ pc'[e] \in Running => Abs(cmd'[e]) > Tol
                    /\ pc'[e] = "write" => Abs(next'[e]) > Tol
  BY DEF CommandInv
<1>1. ASSUME UNCHANGED <<pc, job, cmd, next>>
      PROVE  /\ pc'[e] \in {"arm"} \cup Running => job'[e].speed > Tol
             /\ pc'[e] \in Running => Abs(cmd'[e]) > Tol
             /\ pc'[e] = "write" => Abs(next'[e]) > Tol
  BY <1>1 DEF CommandInv
<1>2. ASSUME NEW d \in Drives, NEW sign \in {1, -1}, NEW s \in DriveSpeeds,
             Begin(d, sign, s)
      PROVE  /\ pc'[e] \in {"arm"} \cup Running => job'[e].speed > Tol
             /\ pc'[e] \in Running => Abs(cmd'[e]) > Tol
             /\ pc'[e] = "write" => Abs(next'[e]) > Tol
  <2>1. ClampSpeed(s) > Tol
    BY ClampSpeedBound, ConstantTypes, SpeedAssumption
  <2> QED
    BY <1>2, <2>1 DEF Begin, CommandInv, TypeOK, Running
<1>3. ASSUME NEW d \in Drives, DriveStep(d)
      PROVE  /\ pc'[e] \in {"arm"} \cup Running => job'[e].speed > Tol
             /\ pc'[e] \in Running => Abs(cmd'[e]) > Tol
             /\ pc'[e] = "write" => Abs(next'[e]) > Tol
  <2>1. CASE Arm(d)
    <3>1. pc[d] = "arm" => Abs(job[d].sign * job[d].speed) > Tol
      BY SignedSpeed DEF CommandInv, TypeOK, Job
    <3> QED
      BY <2>1, <3>1 DEF Arm, CommandInv, TypeOK, Running
  <2>2. CASE Sample(d)
    <3> DEFINE plan == PlanSpeed(job[d].sign * (odom - job[d].start), job[d].speed)
    <3>1. job[d].sign * (odom - job[d].start) \in Int
      BY SignTimes DEF TypeOK, Job
    <3>2. plan # None => plan[1] \in Int /\ plan[1] > Tol
      BY <2>2, <3>1, PlanSpeedRange, ConstantTypes, SpeedAssumption
         DEF Sample, CommandInv, TypeOK, Job, Running
    <3>3. plan # None => Abs(job[d].sign * plan[1]) > Tol
      BY <3>2, SignedSpeed
    <3>4. \/ pc' = [pc EXCEPT ![d] = "finish"] /\ UNCHANGED next
          \/ /\ plan # None /\ pc' = [pc EXCEPT ![d] = "write"]
             /\ next' = [next EXCEPT ![d] = job[d].sign * plan[1]]
      BY <2>2 DEF Sample
    <3>5. pc[d] = "sample" /\ UNCHANGED <<job, cmd>>
      BY <2>2 DEF Sample
    <3> HIDE DEF plan
    <3> QED
      BY <3>3, <3>4, <3>5 DEF CommandInv, TypeOK, Running
  <2>3. CASE Refresh(d)
    BY <2>3 DEF Refresh, CommandInv, TypeOK, Running
  <2>4. CASE Top(d)
    BY <2>4 DEF Top, CommandInv, TypeOK, Running
  <2>5. CASE Cancelled(d) \/ GiveUp(d) \/ Finish(d)
    BY <2>5 DEF Cancelled, GiveUp, Abort, Finish, CommandInv, TypeOK, Running
  <2>6. CASE Return(d)
    BY <2>6 DEF Return, CommandInv, TypeOK, Running
  <2> QED
    BY <1>3, <2>1, <2>2, <2>3, <2>4, <2>5, <2>6 DEF DriveStep
<1>4. \/ UNCHANGED <<pc, job, cmd, next>>
      \/ \E d \in Drives, sign \in {1, -1}, s \in DriveSpeeds : Begin(d, sign, s)
      \/ \E d \in Drives : DriveStep(d)
  BY DEF Next, vars, drvVars, CmdVel, Consume, Publish, PublishFail, OdomUpdate,
         Tick
<1> QED
  BY <1>1, <1>2, <1>3, <1>4

\* Drives never command a speed that reads as standing still.
THEOREM CommandInvariant == Spec => []CommandInv
BY CommandInit, CommandNext, TypeCorrect, PTL DEF Spec

\* A stop in force is never undone by a drive already running.
THEOREM StopIsKept == Spec => StopHolds
<1> DEFINE A == \A d \in Drives : pc[d] \in Running /\ pc'[d] # pc[d]
                  /\ lin = 0 /\ ang = 0 => lin' = 0 /\ ang' = 0
<1>1. TypeOK /\ CommandInv /\ [Next]_vars => [A]_vars
  <2> SUFFICES ASSUME TypeOK, CommandInv, [Next]_vars, NEW d \in Drives,
                      pc[d] \in Running, pc'[d] # pc[d], lin = 0, ang = 0
               PROVE  lin' = 0 /\ ang' = 0
    OBVIOUS
  <2>1. ~(UNCHANGED pc)
    OBVIOUS
  <2>2. \/ \E e \in Drives, sign \in {1, -1}, s \in DriveSpeeds : Begin(e, sign, s)
        \/ \E e \in Drives : DriveStep(e)
    BY <2>1 DEF Next, vars, drvVars, CmdVel, Consume, Publish, PublishFail,
                OdomUpdate, Tick
  <2>3. CASE \E e \in Drives, sign \in {1, -1}, s \in DriveSpeeds : Begin(e, sign, s)
    BY <2>3 DEF Begin, velVars
  <2>4. ASSUME NEW e \in Drives, DriveStep(e) PROVE lin' = 0 /\ ang' = 0
    <3>1. CASE Arm(e)
      BY <3>1 DEF Arm, TypeOK, Running
    <3>2. CASE Refresh(e)
      <4>1. Abs(cmd[e]) > Tol
        BY <3>2 DEF Refresh, CommandInv, Running
      <4>2. Abs(lin - cmd[e]) = Abs(cmd[e])
        BY DEF TypeOK, Abs
      <4> QED
        BY <3>2, <4>1, <4>2, ConstantTypes DEF Refresh, Overridden, TypeOK, Abs
    <3>3. CASE Finish(e)
      BY <3>3 DEF Finish, SetCommand
    <3>4. CASE Top(e) \/ Cancelled(e) \/ Sample(e) \/ GiveUp(e) \/ Return(e)
      BY <3>4 DEF Top, Cancelled, Sample, GiveUp, Return, Abort, velVars
    <3> QED
      BY <2>4, <3>1, <3>2, <3>3, <3>4 DEF DriveStep
  <2> QED
    BY <2>2, <2>3, <2>4
<1> QED
  BY <1>1, TypeCorrect, CommandInvariant, PTL DEF Spec, StopHolds
-----------------------------------------------------------------------------
(* A running drive keeps the deadman alive *)

LEMMA LiveInit == Init => LiveInv
BY DEF Init, LiveInv, Running

LEMMA LiveNext ==
  ASSUME DriveSlack <= Timeout
  PROVE  TypeOK /\ CommandInv /\ LiveInv /\ [Next]_vars => LiveInv'
<1> SUFFICES ASSUME TypeOK, CommandInv, LiveInv, [Next]_vars,
                    NEW e \in Drives, pc'[e] \in Running
             PROVE  /\ age' <= since'[e]
                    /\ lin' # 0 => active'
                    /\ writer' = e => lin' = cmd'[e]
  BY DEF LiveInv
<1> USE ConstantTypes
<1> DEFINE Goal == /\ age' <= since'[e]
                   /\ lin' # 0 => active'
                   /\ writer' = e => lin' = cmd'[e]
<1>1. ASSUME NEW r \in Requests, CmdVel(r[1], r[2]) PROVE Goal
  BY <1>1, DriveAssumption DEF CmdVel, SetCommand, drvVars, TypeOK
<1>2. CASE Consume
  <2>1. pc[e] \in Running /\ age <= Timeout
    BY <1>2 DEF Consume, drvVars, LiveInv, TypeOK
  <2>2. lin # 0 => active'
    <3>1. CASE ConsumeIdle
      BY <2>1, <3>1 DEF ConsumeIdle, LiveInv
    <3>2. CASE ConsumeExpired
      BY <2>1, <3>2 DEF ConsumeExpired, TypeOK
    <3>3. CASE ConsumeLive
      BY <3>3, Zenon DEF ConsumeLive
    <3> QED
      BY <1>2, <3>1, <3>2, <3>3 DEF Consume
  <2> QED
    BY <1>2, <2>1, <2>2 DEF Consume, drvVars, LiveInv
<1>3. CASE Publish \/ PublishFail \/ UNCHANGED vars
  BY <1>3 DEF Publish, PublishFail, vars, velVars, drvVars, LiveInv
<1>4. ASSUME NEW g \in Glitches, OdomUpdate(g)
      PROVE Goal
  BY <1>4 DEF OdomUpdate, velVars, drvVars, LiveInv
<1>5. CASE Tick
  <2>1. pc[e] \in Running /\ pc[e] # "idle"
    BY <1>5 DEF Tick, Running
  <2>2. since'[e] = since[e] + 1 /\ age' \in Int /\ age' <= age + 1
    BY <1>5, <2>1 DEF Tick, TypeOK, Least
  <2>3. age <= since[e] /\ age \in Int /\ since[e] \in Int
    BY <2>1 DEF LiveInv, TypeOK
  <2>4. UNCHANGED <<lin, active, writer, cmd>>
    BY <1>5 DEF Tick
  <2> QED
    BY <2>1, <2>2, <2>3, <2>4 DEF LiveInv
<1>6. ASSUME NEW d \in Drives, NEW sign \in {1, -1}, NEW s \in DriveSpeeds,
             Begin(d, sign, s)
      PROVE Goal
  BY <1>6 DEF Begin, velVars, LiveInv, TypeOK, Running
<1>7. ASSUME NEW d \in Drives, DriveStep(d) PROVE Goal
  <2>1. CASE Arm(d)
    BY <2>1 DEF Arm, SetCommand, LiveInv, TypeOK, Running
  <2>2. CASE Refresh(d)
    <3>1. Abs(cmd[d]) > Tol
      BY <2>2 DEF Refresh, CommandInv, Running
    <3>2. lin # 0
      BY <2>2, <3>1 DEF Refresh, Overridden, TypeOK, Abs
    <3>3. active
      BY <2>2, <3>2 DEF Refresh, LiveInv, Running
    <3> QED
      BY <2>2, <3>3 DEF Refresh, LiveInv, TypeOK, Running
  <2>3. CASE Finish(d)
    BY <2>3 DEF Finish, SetCommand, LiveInv, TypeOK, Running
  <2>4. CASE Top(d) \/ Cancelled(d) \/ Sample(d) \/ GiveUp(d) \/ Return(d)
    BY <2>4 DEF Top, Cancelled, Sample, GiveUp, Return, Abort, velVars, LiveInv,
                TypeOK, Running
  <2> QED
    BY <1>7, <2>1, <2>2, <2>3, <2>4 DEF DriveStep
<1> QED
  BY <1>1, <1>2, <1>3, <1>4, <1>5, <1>6, <1>7 DEF Next

\* A drive loop that is never delayed past the deadman keeps its command alive.
THEOREM DriveStaysAlive ==
  ASSUME DriveSlack <= Timeout
  PROVE  Spec => []DriveKeepsAlive
<1>1. TypeOK /\ CommandInv /\ LiveInv => DriveKeepsAlive
  BY AbsFacts DEF TypeOK, CommandInv, LiveInv, DriveKeepsAlive
<1>2. Init => LiveInv
  BY LiveInit
<1>3. TypeOK /\ CommandInv /\ LiveInv /\ [Next]_vars => LiveInv'
  BY LiveNext
<1> QED
  BY <1>1, <1>2, <1>3, TypeCorrect, CommandInvariant, PTL DEF Spec

-----------------------------------------------------------------------------
(* What a drive reports and leaves behind *)

LEMMA SlipTypes == Slip \in Nat /\ StaleAfter * MaxStep \in Nat
BY ConstantTypes DEF Slip

\* What the robot moves in n ticks is at most what it moves in StaleAfter.
LEMMA StepsBound ==
  ASSUME NEW n \in 0..StaleAfter
  PROVE  /\ n * MaxStep \in Nat /\ n * MaxStep <= StaleAfter * MaxStep
         /\ (n + 1) * MaxStep = n * MaxStep + MaxStep
<1>1. \A a, b, m \in Nat : a <= b => a * m \in Nat /\ a * m <= b * m
  OBVIOUS
<1>2. \A a, m \in Nat : (a + 1) * m = a * m + m
  OBVIOUS
<1> QED
  BY <1>1, <1>2, ConstantTypes

\* The distance a drive computes, against the one its robot has covered.
LEMMA SignedDistance ==
  ASSUME NEW s \in {1, -1}, NEW p \in Int, NEW o \in Int, NEW n \in Int, NEW t \in Int,
         NEW e \in Nat, NEW f \in Nat, Abs(p - n) <= e, Abs(o - t) <= f
  PROVE  /\ s * (p - o) \in Int /\ s * (n - t) \in Int
         /\ s * (n - t) <= s * (p - o) + e + f
<1>1. CASE s = 1
  BY <1>1 DEF Abs
<1>2. CASE s = -1
  BY <1>2 DEF Abs
<1> QED
  BY <1>1, <1>2

\* What OdometryInv says of one drive.
DriveOdometry(d) ==
  /\ Abs(job[d].start - job[d].origin) <= Slip
  /\ pc[d] \in {"arm"} \cup Running =>
       /\ job[d].sign * (pos - job[d].origin) <= seen[d].reach
       /\ job[d].sign * (odom - job[d].start) <= seen[d].reach + Slip + MaxGlitch
  /\ seen[d].traveled <= seen[d].reach + Slip + MaxGlitch
  /\ result[d] = "done" => pc[d] = "returned" /\ seen[d].traveled >= Target

LEMMA OdometryInit == Init => OdometryInv
<1> SUFFICES ASSUME Init PROVE OdometryInv
  OBVIOUS
<1>1. Abs(0 - 0) = 0
  BY DEF Abs
<1> QED
  BY <1>1, SlipTypes, ConstantTypes DEF Init, OdometryInv, NoJob, Nowhere, Running

LEMMA OdometryReport ==
  ASSUME TypeOK, OdometryInv, NEW g \in Glitches, OdomUpdate(g)
  PROVE  OdometryInv'
<1>1. /\ odom' = pos + g /\ odomAge' = 0 /\ g \in Int /\ Abs(pos - odom') <= MaxGlitch
      /\ UNCHANGED <<pos, pc, job, seen, result>>
  BY ConstantTypes DEF OdomUpdate, drvVars, Abs, TypeOK
<1>2. ASSUME NEW d \in Drives PROVE DriveOdometry(d)'
  <2>1. DriveOdometry(d)
    BY DEF OdometryInv, DriveOdometry
  <2>2. Abs(job[d].origin - job[d].start) <= Slip
    BY <2>1 DEF DriveOdometry, TypeOK, Job, Abs
  <2>3. job[d].sign * (odom' - job[d].start)
          <= job[d].sign * (pos - job[d].origin) + MaxGlitch + Slip
    <3>1. /\ job[d].sign \in {1, -1} /\ job[d].origin \in Int /\ job[d].start \in Int
          /\ pos \in Int /\ odom' \in Int
      BY <1>1 DEF TypeOK, Job
    <3> QED
      BY <1>1, <2>2, <3>1, SignedDistance, SlipTypes, ConstantTypes
  <2>4. /\ job[d].sign * (odom' - job[d].start) \in Int
        /\ job[d].sign * (pos - job[d].origin) \in Int
    BY <1>1, SignTimes DEF TypeOK, Job
  <2>5. seen[d].reach \in Nat
    BY DEF TypeOK, Distance
  <2> QED
    BY <1>1, <2>1, <2>3, <2>4, <2>5, SlipTypes, ConstantTypes DEF DriveOdometry
<1>3. 0 * MaxStep = 0
  BY ConstantTypes
<1> QED
  BY <1>1, <1>2, <1>3, ConstantTypes DEF OdometryInv, DriveOdometry

LEMMA OdometryTick ==
  ASSUME TypeOK, OdometryInv, Tick
  PROVE  OdometryInv'
<1> PICK step \in -MaxStep..MaxStep : Move(step)
  BY DEF Tick
<1>1. /\ pos' = pos + step /\ step \in Int /\ pos \in Int /\ odom \in Int
      /\ odomAge' = Least(odomAge + 1, StaleAfter + 1)
      /\ UNCHANGED <<odom, pc, job, result>>
  BY ConstantTypes DEF Tick, Move, TypeOK
<1>2. odomAge' <= StaleAfter => Abs(pos' - odom') <= odomAge' * MaxStep + MaxGlitch
  <2> SUFFICES ASSUME odomAge' <= StaleAfter
               PROVE  Abs(pos' - odom') <= odomAge' * MaxStep + MaxGlitch
    OBVIOUS
  <2>1. odomAge \in 0..StaleAfter /\ odomAge' = odomAge + 1
    BY <1>1, ConstantTypes DEF Least, TypeOK
  <2>2. Abs(pos - odom) <= odomAge * MaxStep + MaxGlitch
    BY <2>1 DEF OdometryInv
  <2>3. odomAge' * MaxStep = odomAge * MaxStep + MaxStep /\ odomAge * MaxStep \in Nat
    BY <2>1, StepsBound
  <2> DEFINE m == odomAge * MaxStep
  <2>4. Abs(pos + step - odom) <= m + MaxStep + MaxGlitch
    <3> m \in Nat /\ Abs(pos - odom) <= m + MaxGlitch
      BY <2>2, <2>3
    <3> HIDE DEF m
    <3> QED
      BY <1>1, ConstantTypes DEF Abs
  <2> QED
    BY <1>1, <2>3, <2>4
<1>3. ASSUME NEW d \in Drives PROVE DriveOdometry(d)'
  <2> DEFINE q == job[d].sign * (pos' - job[d].origin)
  <2>1. DriveOdometry(d)
    BY DEF OdometryInv, DriveOdometry
  <2>2. q \in Int /\ job[d].sign * (odom - job[d].start) \in Int
    BY <1>1, SignTimes DEF TypeOK, Job
  <2>3. seen'[d].reach >= seen[d].reach /\ seen'[d].traveled = seen[d].traveled
        /\ (pc[d] \notin {"idle", "returned"} => q <= seen'[d].reach)
    <3> DEFINE r == Most(seen[d].reach, q)
    <3>1. seen'[d] = IF pc[d] \in {"idle", "returned"} THEN seen[d]
                     ELSE [seen[d] EXCEPT !.reach = r]
      BY DEF Move
    <3>2. seen[d].reach \in Nat /\ seen[d] \in Distance
      BY DEF TypeOK, Distance
    <3> HIDE DEF q
    <3>3. r \in Int /\ r >= q /\ r >= seen[d].reach
      BY <2>2, <3>2 DEF Most
    <3> HIDE DEF r
    <3> QED
      BY <3>1, <3>2, <3>3 DEF Distance
  <2>4. seen'[d].reach \in Nat /\ seen[d].reach \in Nat /\ seen[d].traveled \in Int
    BY MoveType DEF TypeOK, Distance
  <2> HIDE DEF q
  <2>5. pc[d] \in {"arm"} \cup Running => pc[d] \notin {"idle", "returned"}
    BY DEF Running
  <2>6. /\ pc'[d] = pc[d] /\ job'[d] = job[d] /\ odom' = odom /\ result'[d] = result[d]
    BY <1>1
  <2> QED
    BY <2>1, <2>2, <2>3, <2>4, <2>5, <2>6, SlipTypes, ConstantTypes
       DEF DriveOdometry, q
<1> QED
  BY <1>2, <1>3 DEF OdometryInv, DriveOdometry

LEMMA OdometryNext == TypeOK /\ OdometryInv /\ [Next]_vars => OdometryInv'
<1> SUFFICES ASSUME TypeOK, OdometryInv, [Next]_vars PROVE OdometryInv'
  OBVIOUS
<1> USE ConstantTypes, SlipTypes
<1>1. CASE UNCHANGED <<odomVars, pc, job, seen, result>>
  BY <1>1 DEF odomVars, OdometryInv
<1>2. ASSUME NEW g \in Glitches, OdomUpdate(g)
      PROVE OdometryInv'
  BY <1>2, OdometryReport
<1>3. ASSUME NEW d \in Drives, NEW sign \in {1, -1}, NEW s \in DriveSpeeds,
             Begin(d, sign, s)
      PROVE OdometryInv'
  <2>1. UNCHANGED <<odomVars, seen>> /\ pc[d] = "idle"
    BY <1>3 DEF Begin
  <2>2. CASE odomAge > StaleAfter
    <3>1. UNCHANGED job /\ pc' = [pc EXCEPT ![d] = "returned"]
          /\ result' = [result EXCEPT ![d] = "encoder"]
      BY <1>3, <2>2 DEF Begin, TypeOK
    <3> QED
      BY <2>1, <3>1 DEF odomVars, OdometryInv, TypeOK, Running
  <2>3. CASE odomAge <= StaleAfter
    <3>1. /\ UNCHANGED result /\ pc' = [pc EXCEPT ![d] = "arm"]
          /\ job' = [job EXCEPT ![d] = [sign |-> sign, speed |-> ClampSpeed(s),
                                       start |-> odom, origin |-> pos]]
      BY <1>3, <2>3 DEF Begin, TypeOK
    <3>2. Abs(odom - pos) <= Slip
      <4>1. odomAge \in 0..StaleAfter /\ Abs(pos - odom) <= odomAge * MaxStep + MaxGlitch
        BY <2>3 DEF OdometryInv, TypeOK
      <4>2. Abs(odom - pos) = Abs(pos - odom) /\ Abs(pos - odom) \in Nat
        BY DEF Abs, TypeOK
      <4>3. odomAge * MaxStep <= StaleAfter * MaxStep /\ odomAge * MaxStep \in Nat
        BY <4>1, StepsBound
      <4> DEFINE m == odomAge * MaxStep
                 n == StaleAfter * MaxStep
      <4>4. m <= n /\ m \in Nat /\ n \in Nat /\ Abs(pos - odom) <= m + MaxGlitch
            /\ Slip = n + MaxGlitch
        BY <4>1, <4>3 DEF Slip
      <4> HIDE DEF m, n
      <4> QED
        BY <4>2, <4>4
    <3>3. \A v \in Int : sign * (v - v) = 0
      BY SignTimes
    <3>4. ASSUME NEW e \in Drives PROVE DriveOdometry(e)'
      <4>1. DriveOdometry(e) /\ seen[e].reach \in Nat
        BY DEF OdometryInv, DriveOdometry, TypeOK, Distance
      <4>2. CASE e = d
        <5>1. job'[e].sign = sign /\ job'[e].start = odom /\ job'[e].origin = pos
              /\ pc'[e] = "arm"
          BY <3>1, <4>2 DEF TypeOK
        <5>2. sign * (pos - pos) = 0 /\ sign * (odom - odom) = 0
          BY <3>3 DEF TypeOK
        <5>3. result[e] # "done"
          BY <2>1, <4>1, <4>2 DEF DriveOdometry
        <5> QED
          BY <2>1, <3>1, <3>2, <4>1, <5>1, <5>2, <5>3 DEF DriveOdometry, odomVars
      <4>3. CASE e # d
        BY <2>1, <3>1, <4>1, <4>3 DEF DriveOdometry, odomVars, TypeOK
      <4> QED
        BY <4>2, <4>3
    <3> QED
      BY <2>1, <3>4 DEF OdometryInv, DriveOdometry, odomVars
  <2> QED
    BY <2>2, <2>3 DEF TypeOK
<1>4. ASSUME NEW d \in Drives, DriveStep(d) PROVE OdometryInv'
  <2>1. CASE Cancelled(d) \/ GiveUp(d)
    BY <2>1 DEF Cancelled, GiveUp, Abort, odomVars, OdometryInv, TypeOK, Running
  <2>2. CASE Sample(d)
    <3> DEFINE t == job[d].sign * (odom - job[d].start)
    <3>1. seen' = [seen EXCEPT ![d].traveled = t]
      BY <2>2 DEF Sample
    <3>2. pc[d] = "sample" /\ UNCHANGED <<odomVars, job, result>>
      BY <2>2 DEF Sample
    <3>3. result[d] # "done" /\ t <= seen[d].reach + Slip + MaxGlitch
      BY <3>2 DEF OdometryInv, Running
    <3>4. pc' = [pc EXCEPT ![d] = "finish"] \/ pc' = [pc EXCEPT ![d] = "write"]
      BY <2>2 DEF Sample
    <3> HIDE DEF t
    <3>5. ASSUME NEW e \in Drives
          PROVE  /\ seen'[e].reach = seen[e].reach
                 /\ seen'[e].traveled = IF e = d THEN t ELSE seen[e].traveled
      BY <3>1 DEF TypeOK, Distance
    <3> QED
      BY <3>2, <3>3, <3>4, <3>5 DEF odomVars, OdometryInv, TypeOK, Running
  <2>3. CASE Finish(d)
    BY <2>3 DEF Finish, Outcome, odomVars, OdometryInv, TypeOK, Running
  <2>4. CASE Return(d)
    <3>1. Abs(0 - 0) = 0
      BY DEF Abs
    <3> QED
      BY <2>4, <3>1 DEF Return, NoJob, Nowhere, odomVars, OdometryInv, TypeOK, Running
  <2>5. CASE Arm(d) \/ Top(d) \/ Refresh(d)
    BY <2>5 DEF Arm, Top, Refresh, odomVars, OdometryInv, TypeOK, Running
  <2> QED
    BY <1>4, <2>1, <2>2, <2>3, <2>4, <2>5 DEF DriveStep
<1>5. \/ UNCHANGED <<odomVars, pc, job, seen, result>>
      \/ \E g \in Glitches : OdomUpdate(g)
      \/ \E d \in Drives, sign \in {1, -1}, s \in DriveSpeeds : Begin(d, sign, s)
      \/ \E d \in Drives : DriveStep(d)
      \/ Tick
  BY DEF Next, vars, drvVars, CmdVel, Consume, Publish, PublishFail
<1>6. CASE Tick
  BY <1>6, OdometryTick
<1> QED
  BY <1>1, <1>2, <1>3, <1>4, <1>5, <1>6

\* A drive that reports success has had the robot where it was asked to go, however
\* the robot moved between the reports, up to the age and the error of a report.
THEOREM DoneIsTrue == Spec => []DoneIsReal
<1>1. Init => OdometryInv
  BY OdometryInit
<1>2. TypeOK /\ OdometryInv /\ [Next]_vars => OdometryInv'
  BY OdometryNext
<1>3. TypeOK /\ OdometryInv => DoneIsReal
  BY SlipTypes, ConstantTypes DEF OdometryInv, DoneIsReal, TypeOK, Distance
<1> QED
  BY <1>1, <1>2, <1>3, TypeCorrect, PTL DEF Spec

\* No velocity outlives the drive that wrote it.
THEOREM NoOrphans == Spec => []NoOrphanMotion
<1>1. Init => NoOrphanMotion
  BY DEF Init, NoOrphanMotion
<1>2. TypeOK /\ NoOrphanMotion /\ [Next]_vars => NoOrphanMotion'
  <2> SUFFICES ASSUME TypeOK, NoOrphanMotion, [Next]_vars PROVE NoOrphanMotion'
    OBVIOUS
  <2>1. CASE UNCHANGED <<lin, writer, pc>>
    BY <2>1 DEF NoOrphanMotion
  <2>2. ASSUME NEW r \in Requests, CmdVel(r[1], r[2]) PROVE NoOrphanMotion'
    BY <2>2, DriveAssumption DEF CmdVel, SetCommand, NoOrphanMotion
  <2>3. ASSUME NEW d \in Drives, NEW sign \in {1, -1}, NEW s \in DriveSpeeds,
               Begin(d, sign, s)
        PROVE NoOrphanMotion'
    BY <2>3 DEF Begin, velVars, NoOrphanMotion, TypeOK, Running
  <2>4. ASSUME NEW d \in Drives, DriveStep(d) PROVE NoOrphanMotion'
    <3>1. CASE Arm(d) \/ Refresh(d) \/ Finish(d)
      BY <3>1 DEF Arm, Refresh, Finish, SetCommand, NoOrphanMotion, TypeOK, Running
    <3>2. CASE Top(d) \/ Cancelled(d) \/ Sample(d) \/ GiveUp(d) \/ Return(d)
      BY <3>2 DEF Top, Cancelled, Sample, GiveUp, Return, Abort, velVars,
                  NoOrphanMotion, TypeOK, Running
    <3> QED
      BY <2>4, <3>1, <3>2 DEF DriveStep
  <2>5. \/ UNCHANGED <<lin, writer, pc>>
        \/ \E r \in Requests : CmdVel(r[1], r[2])
        \/ \E d \in Drives, sign \in {1, -1}, s \in DriveSpeeds : Begin(d, sign, s)
        \/ \E d \in Drives : DriveStep(d)
    BY DEF Next, vars, velVars, drvVars, Consume, Publish, PublishFail,
           OdomUpdate, Tick
  <2> QED
    BY <2>1, <2>2, <2>3, <2>4, <2>5
<1> QED
  BY <1>1, <1>2, TypeCorrect, PTL DEF Spec

-----------------------------------------------------------------------------
(* The refinement of Deadman *)

\* Whatever publishes fail, VelocityControl is a deadman.
THEOREM IsDeadman == Spec => ImplementsDeadman
<1> USE ConstantTypes
<1> DEFINE moving == wire # Stop /\ ~lost
<1>1. Init => D!Init
  BY DEF Init, D!Init, AgeCap
<1>2. TypeOK /\ DeadmanInv /\ [Next]_vars => [D!Next]_<<moving, age>>
  <2> SUFFICES ASSUME TypeOK, DeadmanInv, [Next]_vars
               PROVE  D!Next \/ UNCHANGED <<moving, age>>
    OBVIOUS
  <2>1. CASE Publish
    <3>1. CASE pub = Stop
      BY <2>1, <3>1 DEF Publish, velVars, D!Next, D!Halt
    <3>2. CASE pub # Stop
      BY <2>1, <3>2 DEF Publish, velVars, D!Next, D!Move, TypeOK, DeadmanInv
    <3> QED
      BY <3>1, <3>2
  <2>2. CASE PublishFail
    <3>1. UNCHANGED <<wire, age>> /\ (lost => lost')
      BY <2>2, Zenon DEF PublishFail, velVars
    <3>2. CASE moving'
      BY <3>1, <3>2
    <3>3. CASE ~moving'
      BY <3>1, <3>3 DEF D!Next, D!Halt
    <3> QED
      BY <3>2, <3>3
  <2>3. CASE Tick
    <3>1. moving => age < Timeout + 2 * PubSlack
      BY <2>3 DEF Tick, TypeOK, DeadmanInv
    <3>2. age' = IF age > Timeout + 2 * PubSlack THEN age ELSE age + 1
      BY <2>3 DEF Tick, Least, AgeCap, TypeOK
    <3> QED
      BY <2>3, <3>1, <3>2 DEF Tick, D!Next, D!Elapse
  <2>4. CASE age' = 0 /\ UNCHANGED <<wire, lost>>
    BY <2>4 DEF D!Next, D!Command
  <2>5. \/ Publish \/ PublishFail \/ Tick \/ UNCHANGED <<wire, lost, age>>
        \/ age' = 0 /\ UNCHANGED <<wire, lost>>
    BY DEF Next, vars, velVars, pubVars, CmdVel, SetCommand, Consume, OdomUpdate,
           Begin, DriveStep, Arm, Top, Cancelled, GiveUp, Abort, Sample, Refresh,
           Finish, Return
  <2> QED
    BY <2>1, <2>2, <2>3, <2>4, <2>5
<1> QED
  BY <1>1, <1>2, TypeCorrect, DeadmanInvariant, PTL
     DEF Spec, ImplementsDeadman, D!Spec
=============================================================================
