------------------------------ MODULE DriveChain ------------------------------
(***************************************************************************)
(* The way of a command from an operator to the wheels: the velocity path   *)
(* of the dashboard, the ROS topic of the wheel speeds, and the serial node *)
(* of the chassis.  Each end has a deadman of its own; here they are in     *)
(* series, and what the operator is promised is the sum.                    *)
(*                                                                          *)
(* No drive runs and the encoder is silent; a drive is one more writer of   *)
(* the velocity, see VelocityControl.                                       *)
(***************************************************************************)
EXTENDS Kinematics, Sequences

CONSTANTS
  Requests, MaxLin, MaxAng, Timeout, PubSlack, PublishMayFail,  \* of the dashboard
  CmdTimeout, LoopSlack, BadLimit, MaxSkew, Faults,             \* of the node
  QueueDepth,  \* how many messages wait for a subscriber
  NetSlack     \* most ticks a message waits

ASSUME ChainAssumption ==
  /\ SpeedMax \in Nat /\ Requests \subseteq Int \X Int
  /\ Timeout \in Nat /\ PubSlack \in Nat \ {0}
  /\ CmdTimeout \in Nat /\ LoopSlack \in Nat \ {0} /\ MaxSkew \in Nat
  /\ QueueDepth \in Nat \ {0} /\ NetSlack \in Nat
  /\ PubSlack <= CmdTimeout

VARIABLES
  lin, ang, active, age, writer, pub, pubAge, wire, lost,  \* of the dashboard
  speedL, speedR, nodeAge, cb, msg, silence, last, skew, \* of the node
  loop, argL, argR, loopAge, bad, open, main, frame, outage,
  topic,  \* the messages on their way: wheel speeds and ticks since they were sent
  asked   \* history: ticks since the last command of the operator

dashboard == <<lin, ang, active, age, writer, pub, pubAge, wire, lost>>
node == <<speedL, speedR, nodeAge, cb, msg, silence, last, skew, loop, argL, argR,
          loopAge, bad, open, main, frame, outage>>
chainVars == <<dashboard, node, topic, asked>>

V == INSTANCE VelocityControl WITH
       Drives <- {}, Cancellable <- {}, DriveSpeeds <- {}, MinSpeed <- 1, MaxInput <- 1,
       Crawl <- 1, Tol <- 0, Target <- 0, SlowZone <- 0, MaxPulse <- 0, MaxStep <- 0,
       Glitches <- {0}, MaxGlitch <- 0, StaleAfter <- 0, Deadline <- 0, DriveSlack <- 0,
       pos <- 0, odom <- 0, odomAge <- 1, pc <- <<>>, job <- <<>>, cmd <- <<>>,
       next <- <<>>, seen <- <<>>, left <- <<>>, since <- <<>>, result <- <<>>
B == INSTANCE RobotBase WITH age <- nodeAge, Commands <- {}

Stop == <<0, 0>>

\* The oldest command the wheels may be started by, and may still be turning by.
Fresh == Timeout + PubSlack + NetSlack + CmdTimeout + LoopSlack + MaxSkew
Bound == Fresh + LoopSlack

Init == V!Init /\ B!Init /\ topic = <<>> /\ asked = Bound + 1

Aged(n) == IF n > Bound THEN n ELSE n + 1

-----------------------------------------------------------------------------
(* The dashboard *)

CmdVel ==
  /\ \E r \in Requests : V!CmdVel(r[1], r[2])
  /\ asked' = 0
  /\ UNCHANGED <<node, topic>>

Consume == (V!Consume \/ V!PublishFail) /\ UNCHANGED <<node, topic, asked>>

\* A full queue drops its oldest message.
Queued(m) == Append(IF Len(topic) = QueueDepth THEN Tail(topic) ELSE topic, m)

\* publish_velocity: the twist becomes the speeds of the wheels.
Publish ==
  /\ V!Publish
  /\ topic' = Queued([speeds |-> TwistToWheelSpeeds(pub[1], pub[2]), age |-> 0])
  /\ UNCHANGED <<node, asked>>

-----------------------------------------------------------------------------
(* The node *)

Deliver ==
  /\ topic # <<>> /\ B!StoreLeft(Head(topic).speeds) /\ topic' = Tail(topic)
  /\ UNCHANGED <<dashboard, asked>>

NodeStep ==
  /\ B!StoreRight \/ B!StampCommand \/ B!LoopStep
     \/ B!Interrupt \/ B!StopFrame \/ B!ClosePort
     \/ \E k \in 1..MaxSkew : B!ClockSetBack(k)
  /\ UNCHANGED <<dashboard, topic, asked>>

-----------------------------------------------------------------------------
(* Both run by one time *)

Tick ==
  /\ main = "spin" => \A i \in DOMAIN topic : topic[i].age < NetSlack
  /\ V!Tick /\ B!Tick
  /\ topic' = [i \in DOMAIN topic |->
                [topic[i] EXCEPT !.age = IF @ < NetSlack THEN @ + 1 ELSE @]]
  /\ asked' = Aged(asked)

Next == CmdVel \/ Consume \/ Publish \/ Deliver \/ NodeStep \/ Tick

Spec == Init /\ [][Next]_chainVars

-----------------------------------------------------------------------------
(* Properties *)

\* From the operator to the wheels the two deadmen in series are one: even if the
\* stop of the dashboard is lost, the wheels do not outlive the last command by
\* more than both timeouts and the latencies between them.
D == INSTANCE Deadman WITH moving <- frame # Stop /\ B!Trusted, age <- asked
ImplementsDeadman == D!Spec

\* A stop the operator asked for reaches the wheels within the latencies alone,
\* whatever older commands were being consumed, published, queued or written,
\* unless its publish failed.
StopArrives ==
  /\ lin = 0 /\ ang = 0 /\ ~lost /\ B!Trusted
  /\ asked > 2 * PubSlack + NetSlack + 2 * LoopSlack
  => frame = Stop
=============================================================================
