------------------------------- MODULE Feedback -------------------------------
(***************************************************************************)
(* What the chassis reports: the way from a velocity command to wheel speeds, *)
(* from the wheels to the encoder registers and through the bus node to the   *)
(* two readers of the counts, the mileage of the dashboard and the dead       *)
(* reckoning of odom_calculation; and from the pack voltage to the gauge of   *)
(* the dashboard.  The pose is kept in its own frame: the distance along the  *)
(* path and the turn; sines and cosines are left out.  The bus node does not  *)
(* verify the CRC of an answer, so a garbled one counts as a reading.         *)
(***************************************************************************)
EXTENDS Kinematics, FiniteSets

CONSTANTS
  Setups,      \* topics of the chassis configurations: "wheel_odom", "battery" or both
  Twists,      \* commands <<linear_x, angular_z>>, in pulses per tick
  Modulus,     \* 2^32: how many values a register pair has
  Bases,       \* what the encoders may have counted when the node starts
  Garbled,     \* register pairs <<left, right>> of garbled answers
  MaxDelta, ReconnectGap,  \* of OdometryAccumulator, in pulses and ticks
  DeadTicks,   \* ticks in which one pulse is below WHEEL_VEL_DEADZONE or YAW_RATE_DEADZONE
  Scale,       \* a common multiple of the intervals between two messages
  Volts,       \* readings of the pack and garbage
  Honest,      \* those that are the true voltage
  WindowS, RecomputeS, MinValid, MaxValid,  \* of MedianVoltageFilter
  MaxPath, MaxReads  \* bounds, for model checking only

\* A register pair holds a count modulo its width; the node takes it for signed.
Register(n) == n % Modulus
SignExtend(raw) == IF raw < Modulus \div 2 THEN raw ELSE raw - Modulus

ASSUME FeedbackAssumption ==
  /\ Setups \subseteq SUBSET {"wheel_odom", "battery"} /\ Twists \subseteq Int \X Int
  /\ {SpeedMax, MaxDelta, ReconnectGap, DeadTicks, MaxPath, MaxReads} \subseteq Nat
  /\ {RecomputeS, MinValid, MaxValid} \subseteq Nat /\ {Modulus, Scale, WindowS} \subseteq Nat \ {0}
  /\ Volts \subseteq Nat /\ 0 \in Volts /\ Honest \subseteq Volts
  /\ \A v \in Honest : MinValid < v /\ v < MaxValid
  \* What a chassis covers before it passes for reconnected does not wrap a
  \* counter, and what it covers between messages in time is no outlier.
  /\ MaxDelta + SpeedMax * ReconnectGap < Modulus
  /\ SpeedMax * DeadTicks < MaxDelta /\ DeadTicks <= ReconnectGap
  /\ \A n \in 1..(ReconnectGap + 1) : Scale % n = 0
  /\ Bases \subseteq Nat /\ Garbled \subseteq (0..(Modulus - 1)) \X (0..(Modulus - 1))

VARIABLES
  topics,   \* what this chassis reports, fixed at start
  speed,    \* the wheel speeds in force
  wheels,   \* pulses of each wheel since the start or since power up
  base,     \* what the encoders had counted then
  off,      \* whether the chassis is without power
  acc,      \* OdometryAccumulator; last is the age of last_update
  odom,     \* OdomCalculation; ages of last_time and _last_pulse_time
  win,      \* the window of the filter: age and voltage of the readings it keeps
  smoothed, smoothedAt,  \* smoothed and the age of smoothed_at
  path,     \* history: pulses travelled since mileage was last zero
  origin,   \* history: the wheels at the first reading
  clean,    \* history: no garbled answer, wrap, late message or loss of power so far
  stood,    \* history: whether the chassis stood in the first interval of odom
  reads,    \* history: number of readings
  tainted,  \* history: the last reading was garbled, or power was lost after it
  wrong     \* history: differences to or from such readings since mileage was last zero

chassis == <<speed, wheels, base, off>>
odometry == <<acc, odom, path, origin, clean, stood, tainted, wrong>>
gauge == <<win, smoothed, smoothedAt, reads>>
feedbackVars == <<topics, chassis, odometry, gauge>>

Unset == <<>>
Never == -1
Late == ReconnectGap + 1  \* at which ages stop being counted
Forgotten == IF WindowS > RecomputeS THEN WindowS ELSE RecomputeS

Pulses == -MaxPath..MaxPath
Counts == -Modulus..Modulus
Wheel == Pulses \X Pulses
Reading == {Unset} \cup (Counts \X Counts)
Accumulator == [mileage : Nat, last : Never..Late, prev : Reading]
Pose == [last : Reading, since : 0..Late, dt : 0..Late, along : Int, turn : Int]
FeedbackTypeOK ==
  /\ topics \in Setups /\ speed \in (-SpeedMax..SpeedMax) \X (-SpeedMax..SpeedMax)
  /\ wheels \in Wheel /\ base \in Bases \cup {0} /\ off \in BOOLEAN
  /\ acc \in Accumulator /\ odom \in Pose
  /\ DOMAIN win \subseteq 1..reads
  /\ win \in [DOMAIN win -> [age : 0..WindowS, v : Volts \ {0}]]
  /\ smoothed \in Volts /\ smoothedAt \in 0..Forgotten
  /\ path \in Nat /\ origin \in {Unset} \cup Wheel
  /\ clean \in BOOLEAN /\ stood \in {"waiting", "stood", "moved"} /\ reads \in 0..MaxReads
  /\ tainted \in BOOLEAN /\ wrong \in Nat

FeedbackInit ==
  /\ topics \in Setups /\ speed = <<0, 0>> /\ wheels = <<0, 0>>
  /\ base \in IF "wheel_odom" \in topics THEN Bases ELSE {0}
  /\ off = FALSE
  /\ acc = [mileage |-> 0, last |-> Never, prev |-> Unset]
  /\ odom = [last |-> Unset, since |-> 0, dt |-> 0, along |-> 0, turn |-> 0]
  /\ win = <<>> /\ smoothed = 0
  /\ smoothedAt \in IF "battery" \in topics THEN 0..Forgotten ELSE {Forgotten}
  /\ path = 0 /\ origin = Unset /\ clean = TRUE /\ stood = "waiting"
  /\ reads = 0 /\ tainted = FALSE /\ wrong = 0

AbsOf(n) == IF n < 0 THEN -n ELSE n
Sum2(w) == w[1] + w[2]
Counted(w) == <<base + w[1], base + w[2]>>
Minus(v, w) == <<v[1] - w[1], v[2] - w[2]>>

-----------------------------------------------------------------------------
(* Commands and wheels *)

Command(t) ==
  /\ "wheel_odom" \in topics /\ ~off
  /\ speed' = TwistToWheelSpeeds(t[1], t[2])
  /\ UNCHANGED <<topics, wheels, base, off, odometry, gauge>>

-----------------------------------------------------------------------------
(* The bus node *)

ParseSensorRegs(regs) == <<SignExtend(regs[1]), SignExtend(regs[2])>>

-----------------------------------------------------------------------------
(* OdometryAccumulator.update: mileage counts half pulses *)

Reconnected == acc.last > ReconnectGap

\* Variant: only the left wheel is looked at.
PlausibleLeft(d) == AbsOf(d[1]) < MaxDelta
Plausible(d) == AbsOf(d[1]) < MaxDelta /\ AbsOf(d[2]) < MaxDelta

Travelled(d) == AbsOf(Sum2(d))

Accumulate(counts) ==
  LET prev == IF Reconnected THEN Unset ELSE acc.prev
      d == Minus(counts, prev)
  IN acc' = [mileage |-> (IF Reconnected THEN 0 ELSE acc.mileage)
                           + IF prev # Unset /\ Plausible(d) THEN Travelled(d) ELSE 0,
             last |-> 0, prev |-> counts]

-----------------------------------------------------------------------------
(* OdomCalculation *)

DeadZone(n, dt) == IF AbsOf(n) * DeadTicks < dt THEN 0 ELSE n

\* Variant: the time of the call is not noted.
UpdateOdomUntimed(d, dt) ==
  [odom EXCEPT !.along = @ + (Scale * Sum2(d) * odom.since) \div dt,
               !.turn = @ + (Scale * DeadZone(d[2] - d[1], dt) * odom.since) \div dt]

\* update_odom: the velocity of each wheel over the time since the last call, and
\* the turn, which has a dead zone of its own.
UpdateOdom(d, dt) ==
  [odom EXCEPT !.along = @ + (Scale * Sum2(d) * odom.since) \div dt,
               !.turn = @ + (Scale * DeadZone(d[2] - d[1], dt) * odom.since) \div dt,
               !.since = 0]

\* The first message is kept, one that comes too soon after it is ignored.
OnPulses(counts) ==
  odom' =
    IF odom.last = Unset THEN [odom EXCEPT !.last = counts, !.dt = 0]
    ELSE IF odom.dt = 0 THEN odom
    ELSE LET d == Minus(counts, odom.last) IN
         [UpdateOdom(<<DeadZone(d[1], odom.dt), DeadZone(d[2], odom.dt)>>, odom.dt)
            EXCEPT !.last = counts, !.dt = 0]

-----------------------------------------------------------------------------
(* One answer with counts, and what is remembered of it *)

ReadCounts(counts, garbled) ==
  /\ "wheel_odom" \in topics /\ ~off /\ reads < MaxReads /\ reads' = reads + 1
  /\ Accumulate(counts) /\ OnPulses(counts)
  /\ origin' = IF origin = Unset THEN wheels ELSE origin
  /\ path' = IF Reconnected \/ origin = Unset THEN 0 ELSE path
  /\ wrong' = IF Reconnected \/ origin = Unset THEN 0
              ELSE IF garbled \/ tainted THEN wrong + 1 ELSE wrong
  /\ tainted' = garbled
  /\ stood' = IF stood # "waiting" \/ odom.last = Unset \/ odom.dt = 0 THEN stood
              ELSE IF counts = odom.last THEN "stood" ELSE "moved"
  /\ UNCHANGED <<topics, chassis, win, smoothed, smoothedAt>>

ReadEncoders ==
  LET counts == ParseSensorRegs(<<Register(base + wheels[1]), Register(base + wheels[2])>>) IN
    /\ ReadCounts(counts, FALSE)
    /\ clean' = (clean /\ counts = Counted(wheels) /\ ~Reconnected /\ odom.dt <= DeadTicks)

Garble ==
  \E regs \in Garbled : ReadCounts(ParseSensorRegs(regs), TRUE) /\ clean' = FALSE

-----------------------------------------------------------------------------
(* MedianVoltageFilter.add *)

IsValid(v) == MinValid < v /\ v < MaxValid

\* Variant: the highest.
MedianOfTop(w, valid) ==
  CHOOSE v \in {w[i].v : i \in valid} : \A i \in valid : w[i].v <= v

\* The element in the middle of the sorted list, the upper of two.
Median(w, valid) ==
  CHOOSE v \in {w[i].v : i \in valid} :
    LET middle == Cardinality(valid) \div 2 IN
      /\ Cardinality({i \in valid : w[i].v < v}) <= middle
      /\ middle < Cardinality({i \in valid : w[i].v <= v})

\* A reading is known by its number.
Window(v) ==
  LET new == IF v > 0 THEN {reads + 1} ELSE {}
  IN [i \in {j \in DOMAIN win : win[j].age < WindowS} \cup new |->
        IF i \in new THEN [age |-> 0, v |-> v] ELSE win[i]]

AddReading(v) ==
  /\ "battery" \in topics /\ ~off /\ reads < MaxReads /\ reads' = reads + 1
  /\ win' = Window(v)
  /\ LET valid == {i \in DOMAIN win' : IsValid(win'[i].v)} IN
       IF smoothedAt >= RecomputeS /\ valid # {}
       THEN smoothed' = Median(win', valid) /\ smoothedAt' = 0
       ELSE UNCHANGED <<smoothed, smoothedAt>>
  /\ UNCHANGED <<topics, chassis, odometry>>

-----------------------------------------------------------------------------
(* Power and time *)

PowerOff == ~off /\ off' = TRUE /\ UNCHANGED <<topics, speed, wheels, base, odometry, gauge>>

\* The chassis may be back before the gap that stands for it has passed; its
\* encoders begin at zero.
PowerOn ==
  /\ off /\ off' = FALSE /\ wheels' = <<0, 0>> /\ base' = 0
  /\ speed' = <<0, 0>> /\ clean' = FALSE /\ tainted' = TRUE
  /\ UNCHANGED <<topics, acc, odom, path, origin, stood, wrong, gauge>>

AgeTo(n, most) == IF n < most THEN n + 1 ELSE n
Older1(n) == AgeTo(n, Late)

\* The wheels turn at the speeds in force.
Roll ==
  IF off THEN UNCHANGED <<wheels, path>>
  ELSE /\ wheels' = <<wheels[1] + speed[1], wheels[2] + speed[2]>> /\ wheels' \in Wheel
       /\ path' = path + AbsOf(Sum2(speed)) /\ path' <= 2 * MaxPath

Elapse ==
  /\ Roll
  /\ acc' = [acc EXCEPT !.last = IF @ = Never THEN Never ELSE Older1(@)]
  /\ odom' = [odom EXCEPT !.since = Older1(@), !.dt = Older1(@)]
  /\ win' = [i \in DOMAIN win |-> [win[i] EXCEPT !.age = AgeTo(@, WindowS)]]
  /\ smoothedAt' = AgeTo(smoothedAt, Forgotten)
  /\ UNCHANGED <<topics, speed, base, off, origin, clean, stood, tainted, wrong, smoothed,
                 reads>>

FeedbackNext ==
  \/ \E t \in Twists : Command(t)
  \/ ReadEncoders \/ Garble \/ PowerOff \/ PowerOn \/ Elapse
  \/ \E v \in Volts : AddReading(v)

FeedbackSpec == FeedbackInit /\ [][FeedbackNext]_feedbackVars

-----------------------------------------------------------------------------
(* Properties *)

\* Mileage is never more than the way travelled since it was last zero, however
\* counters wrap, but for less than max_delta for each difference to or from a
\* garbled answer or over a loss of power; and never less than the distance from
\* there if none of this happened.
MileageIsTravelled ==
  /\ acc.mileage <= path + wrong * 2 * (MaxDelta - 1)
  /\ clean /\ origin # Unset => AbsOf(Sum2(Minus(acc.prev, Counted(origin)))) <= acc.mileage

\* Dead reckoning follows the wheels, as long as messages come in time and the
\* chassis did not move before the second of them, whose interval is measured
\* from the start of the node.
PoseFollows ==
  clean /\ stood # "moved" /\ odom.last # Unset =>
    LET d == Minus(odom.last, Counted(origin)) IN
      odom.along = Scale * Sum2(d) /\ odom.turn = Scale * (d[2] - d[1])

\* The gauge shows a voltage between two true ones of the window as long as most
\* of the plausible readings in it are true.
ShowsTypical ==
  smoothedAt # 0 /\ smoothedAt' = 0 =>
    LET valid == {i \in DOMAIN win' : IsValid(win'[i].v)}
        honest == {i \in valid : win'[i].v \in Honest}
    IN 2 * Cardinality(honest) > Cardinality(valid) =>
         \E i, j \in honest : win'[i].v <= smoothed' /\ smoothed' <= win'[j].v

GaugeIsTypical == [][ShowsTypical]_feedbackVars
=============================================================================
