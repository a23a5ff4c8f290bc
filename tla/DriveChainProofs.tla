--------------------------- MODULE DriveChainProofs ---------------------------
(***************************************************************************)
(* Theorems about DriveChain for every value of its constants: the two        *)
(* deadmen in series are one, and a stop arrives.                             *)
(***************************************************************************)
EXTENDS DriveChain, TLAPS

Message == [speeds : Int \X Int, age : 0..NetSlack]

Typed ==
  /\ lin \in Int /\ ang \in Int /\ pub \in {V!None} \cup (Int \X Int)
  /\ pubAge \in 0..PubSlack /\ nodeAge \in -skew..B!SilenceCap /\ loopAge \in 0..LoopSlack
  /\ skew \in 0..MaxSkew /\ topic \in Seq(Message) /\ asked \in 0..(Bound + 1)

\* No drive runs: the deadman of the dashboard measures the operator's silence.
Operated == age = IF asked < V!AgeCap THEN asked ELSE V!AgeCap

LEMMA Types ==
  /\ SpeedMax \in Nat /\ Timeout \in Nat /\ PubSlack \in Nat \ {0} /\ CmdTimeout \in Nat
  /\ LoopSlack \in Nat \ {0} /\ NetSlack \in Nat /\ PubSlack <= CmdTimeout
  /\ Fresh \in Nat /\ Bound \in Nat /\ V!AgeCap \in Nat /\ V!AgeCap <= Bound
  /\ B!SilenceCap \in Nat /\ MaxSkew \in Nat
BY ChainAssumption DEF Fresh, Bound, V!AgeCap, B!SilenceCap

-----------------------------------------------------------------------------
(* The queue *)

\* The last message of the topic.
Newest == IF topic # <<>> THEN topic[Len(topic)].speeds
          ELSE IF cb # "idle" THEN msg ELSE last

LEMMA WheelTypes ==
  ASSUME NEW l \in Int, NEW a \in Int
  PROVE  /\ TwistToWheelSpeeds(l, a) \in Int \X Int
         /\ l = 0 /\ a = 0 => TwistToWheelSpeeds(l, a) = Stop
BY Types DEF TwistToWheelSpeeds, Clamp, Stop

\* What is queued is the newest; nothing else is new.
LEMMA QueuedLast ==
  ASSUME NEW m \in Message, topic \in Seq(Message)
  PROVE  /\ Queued(m) \in Seq(Message) /\ Queued(m) # <<>>
         /\ Queued(m)[Len(Queued(m))] = m
         /\ \A i \in DOMAIN Queued(m) :
              Queued(m)[i] = m \/ \E j \in DOMAIN topic : Queued(m)[i] = topic[j]
<1> DEFINE rest == IF Len(topic) = QueueDepth THEN Tail(topic) ELSE topic
<1>1. /\ rest \in Seq(Message)
      /\ \A i \in DOMAIN rest : \E j \in DOMAIN topic : rest[i] = topic[j]
  <2>1. CASE Len(topic) = QueueDepth
    <3>1. topic # <<>>
      BY <2>1, ChainAssumption
    <3>2. Tail(topic) \in Seq(Message) /\ Len(Tail(topic)) = Len(topic) - 1
      BY <3>1
    <3>3. \A i \in 1..Len(Tail(topic)) : i + 1 \in 1..Len(topic) /\ Tail(topic)[i] = topic[i + 1]
      BY <3>1, <3>2
    <3> QED
      BY <2>1, <3>2, <3>3
  <2>2. CASE Len(topic) # QueueDepth
    BY <2>2
  <2> QED
    BY <2>1, <2>2
<1>2. Queued(m) = Append(rest, m)
  BY DEF Queued
<1> HIDE DEF rest
<1>3. /\ Append(rest, m) \in Seq(Message) /\ Len(Append(rest, m)) = Len(rest) + 1
      /\ \A i \in 1..Len(rest) : Append(rest, m)[i] = rest[i]
      /\ Append(rest, m)[Len(rest) + 1] = m
  BY <1>1
<1>4. \A i \in 1..(Len(rest) + 1) : i \in 1..Len(rest) \/ i = Len(rest) + 1
  BY <1>1
<1> QED
  BY <1>1, <1>2, <1>3, <1>4

-----------------------------------------------------------------------------
(* No motion outlives both deadmen *)

\* Oldest command a message may bring to the wheels, moving or not.
Brought == Timeout + PubSlack + NetSlack
Brings(n) == asked <= Brought + n

\* What the dashboard is about to publish was consumed while it was fresh; only a
\* stop may be one period older.
DashboardInv ==
  /\ active => asked <= Timeout + pubAge
  /\ pub # V!None => asked <= Timeout + PubSlack + pubAge
  /\ pub \notin {V!None, Stop} => asked <= Timeout + pubAge

\* What is on its way has aged since by the wait alone.
TopicInv ==
  main = "spin" =>
    \A i \in DOMAIN topic :
      /\ asked <= Timeout + 2 * PubSlack + topic[i].age
      /\ topic[i].speeds # Stop => asked <= Timeout + PubSlack + topic[i].age

\* The callback takes no time; what it has stored is of its message, or zeroed.
CallbackInv ==
  /\ main = "spin" /\ cb # "idle" =>
       Brings(PubSlack) /\ (msg # Stop => Brings(0))
  /\ cb = "left" => speedL \in {0, msg[1]}
  /\ cb = "right" => speedL \in {0, msg[1]} /\ speedR \in {0, msg[2]}
  /\ cb = "idle" /\ last = Stop => speedL = 0 /\ speedR = 0

PortInv == main = "spin" => loop # "dead" /\ (loop # "top" \/ ~outage => open)

\* Speeds in force are as fresh as the stamp; once a pass has found the stamp fresh,
\* what it takes and sends is as fresh as the pass.
WheelsInv ==
  main = "spin" =>
    /\ speedL # 0 \/ speedR # 0 => Brings(nodeAge + skew)
    /\ \/ loop = "zeroR" /\ speedL # 0
       \/ loop \in {"argL", "argR", "send"} /\ (speedL # 0 \/ speedR # 0)
       \/ loop \in {"argR", "send"} /\ argL # 0
       \/ loop = "send" /\ argR # 0
       => Brings(CmdTimeout + skew + loopAge)
    /\ frame # Stop /\ ~outage =>
         IF loop \in B!Deciding THEN Brings(CmdTimeout + LoopSlack + skew + loopAge)
         ELSE Brings(CmdTimeout + skew + loopAge)

ChainInv ==
  /\ Typed /\ Operated /\ DashboardInv /\ TopicInv
  /\ CallbackInv /\ PortInv /\ WheelsInv

-----------------------------------------------------------------------------
(* A stop arrives *)

Stopping == lin = 0 /\ ang = 0

\* Oldest stop that may still be on its way.
OnItsWay == 2 * PubSlack + NetSlack

\* The dashboard has sent the stop, or is about to.
SentInv ==
  /\ ~active /\ ~lost => IF pub = V!None THEN wire = Stop ELSE pub = Stop
  /\ ~active /\ pub # V!None => pub = Stop
  /\ wire = Stop => Newest = Stop
  /\ Stopping /\ active => asked <= pubAge
  /\ Stopping /\ pub # V!None => asked <= PubSlack + pubAge

\* It has passed the topic and the callback.
PassedInv ==
  main = "spin" /\ Stopping =>
    /\ \A i \in DOMAIN topic : asked <= 2 * PubSlack + topic[i].age
    /\ cb # "idle" => asked <= OnItsWay

\* A pass that began after that sends a stop, and the chassis has it a pass later.
TakenInv ==
  main = "spin" /\ Stopping /\ ~lost =>
    /\ loop \in {"argR", "send"} /\ asked > OnItsWay + loopAge => argL = 0
    /\ loop = "send" /\ asked > OnItsWay + loopAge => argR = 0
    /\ loop \notin B!Deciding /\ ~outage /\ asked > OnItsWay + loopAge => frame = Stop
    /\ ~outage /\ asked > OnItsWay + loopAge + LoopSlack => frame = Stop

StopInv == SentInv /\ PassedInv /\ TakenInv

-----------------------------------------------------------------------------
(* Types *)

LEMMA TypedInit == Init => Typed /\ Operated
BY Types DEF Init, V!Init, B!Init, Typed, Operated, V!None

LEMMA TopicTick ==
  ASSUME Typed, Tick
  PROVE  topic' \in Seq(Message)
<1> USE Types
<1>1. \A i \in 1..Len(topic) :
        [topic[i] EXCEPT !.age = IF @ < NetSlack THEN @ + 1 ELSE @] \in Message
  <2> SUFFICES ASSUME NEW m \in Message
               PROVE  [m EXCEPT !.age = IF @ < NetSlack THEN @ + 1 ELSE @] \in Message
    <3>1. \A i \in 1..Len(topic) : topic[i] \in Message
      BY SMTT(30) DEF Typed
    <3> QED
      BY <3>1
  <2>1. (IF m.age < NetSlack THEN m.age + 1 ELSE m.age) \in 0..NetSlack
    BY DEF Message
  <2> QED
    BY <2>1 DEF Message
<1>2. DOMAIN topic = 1..Len(topic) /\ Len(topic) \in Nat
  BY DEF Typed
<1> QED
  BY <1>1, <1>2 DEF Tick

LEMMA TypedTick ==
  ASSUME Typed, Operated, Tick
  PROVE  Typed' /\ Operated'
<1> USE Types
<1>1. pubAge' \in 0..PubSlack /\ lin' \in Int /\ ang' \in Int /\ pub' = pub
  <2>1. V!Tick
    BY DEF Tick
  <2>2. pubAge < PubSlack /\ pubAge' = pubAge + 1 /\ UNCHANGED <<lin, ang, pub>>
    BY <2>1 DEF V!Tick
  <2> QED
    BY <2>2 DEF Typed
<1>2. nodeAge' \in -skew'..B!SilenceCap /\ skew' \in 0..MaxSkew /\ loopAge' \in 0..LoopSlack
  <2>1. /\ nodeAge' = IF nodeAge < B!SilenceCap THEN nodeAge + 1 ELSE nodeAge
        /\ loopAge' = IF loopAge < LoopSlack THEN loopAge + 1 ELSE loopAge
        /\ skew' = skew
    BY DEF Tick, B!Tick
  <2> QED
    BY <2>1 DEF Typed
<1>3. asked' \in 0..(Bound + 1)
  BY SMTT(30) DEF Typed, Tick, Aged
<1>4. topic' \in Seq(Message)
  BY TopicTick
<1>5. age' = V!Least(age + 1, V!AgeCap)
  BY DEF Tick, V!Tick
<1>6. Operated'
  <2>1. asked' = Aged(asked)
    BY DEF Tick
  <2>2. V!AgeCap' = V!AgeCap
    BY DEF V!AgeCap
  <2> QED
    BY <1>5, <2>1, <2>2 DEF Typed, Operated, Aged, V!Least
<1> QED
  BY <1>1, <1>2, <1>3, <1>4, <1>6 DEF Typed

LEMMA TypedNext == Typed /\ Operated /\ [Next]_chainVars => Typed' /\ Operated'
<1> SUFFICES ASSUME Typed, Operated, [Next]_chainVars PROVE Typed' /\ Operated'
  OBVIOUS
<1> USE Types
<1>1. CASE CmdVel
  <2>1. PICK r \in Requests : V!CmdVel(r[1], r[2])
    BY <1>1 DEF CmdVel
  <2>2. r[1] \in Int /\ r[2] \in Int
    BY ChainAssumption
  <2> QED
    BY <1>1, <2>1, <2>2 DEF CmdVel, V!CmdVel, V!SetCommand, V!pubVars, node, Typed, Operated
<1>2. CASE Consume
  <2>1. pub' \in {V!None} \cup (Int \X Int) /\ pubAge' \in 0..PubSlack
    BY <1>2 DEF Consume, V!Consume, V!ConsumeIdle, V!ConsumeExpired, V!ConsumeLive,
                V!PublishFail, V!Stop, Typed
  <2>2. UNCHANGED <<lin, ang, age>>
    BY <1>2 DEF Consume, V!Consume, V!PublishFail, V!velVars
  <2> QED
    BY <1>2, <2>1, <2>2 DEF Consume, node, Typed, Operated
<1>3. CASE Publish
  <2>1. pub' = V!None /\ UNCHANGED <<lin, ang, age, pubAge, node, asked>>
    BY <1>3 DEF Publish, V!Publish, V!velVars
  <2>2. topic' \in Seq(Message)
    <3>1. pub[1] \in Int /\ pub[2] \in Int
      BY <1>3 DEF Publish, V!Publish, Typed
    <3>2. [speeds |-> TwistToWheelSpeeds(pub[1], pub[2]), age |-> 0] \in Message
      <4>1. 0 \in 0..NetSlack
        OBVIOUS
      <4>2. TwistToWheelSpeeds(pub[1], pub[2]) \in Int \X Int
        BY <3>1, WheelTypes
      <4> QED
        BY <4>1, <4>2 DEF Message
    <3> QED
      BY <1>3, <3>2, QueuedLast DEF Publish, Typed
  <2> QED
    BY <2>1, <2>2 DEF node, Typed, Operated
<1>4. CASE Deliver
  <2>1. topic' \in Seq(Message)
    BY <1>4 DEF Deliver, Typed
  <2> QED
    BY <1>4, <2>1 DEF Deliver, B!StoreLeft, B!loopVars, dashboard, Typed, Operated
<1>5. CASE NodeStep
  <2>1. nodeAge' \in -skew'..B!SilenceCap /\ skew' \in 0..MaxSkew
    BY <1>5 DEF NodeStep, B!StoreRight, B!StampCommand, B!LoopStep, B!LoopTop,
       B!OpenPort, B!CheckDeadman, B!ZeroLeft, B!ZeroRight, B!ReadLeft, B!ReadRight,
       B!Send, B!SendUntaken, B!OtherError, B!PortError, B!GoodRead, B!BadRead,
       B!LastBadRead, B!Interrupt, B!StopFrame, B!ClosePort, B!ClockSetBack, B!cmdVars, Typed
  <2>2. loopAge' \in 0..LoopSlack
    BY <1>5 DEF NodeStep, B!StoreRight, B!StampCommand, B!LoopStep, B!LoopTop,
       B!OpenPort, B!CheckDeadman, B!ZeroLeft, B!ZeroRight, B!ReadLeft, B!ReadRight,
       B!Send, B!SendUntaken, B!OtherError, B!PortError, B!GoodRead, B!BadRead,
       B!LastBadRead, B!Interrupt, B!StopFrame, B!ClosePort, B!ClockSetBack, B!loopVars, Typed
  <2> QED
    BY <1>5, <2>1, <2>2 DEF NodeStep, dashboard, Typed, Operated
<1>6. CASE Tick
  BY <1>6, TypedTick
<1>7. CASE UNCHANGED chainVars
  BY <1>7 DEF chainVars, dashboard, node, Typed, Operated
<1> QED
  BY <1>1, <1>2, <1>3, <1>4, <1>5, <1>6, <1>7 DEF Next

-----------------------------------------------------------------------------
(* The inductive invariant of the deadmen *)

LEMMA AskedTick ==
  ASSUME Typed, Tick
  PROVE  asked' <= asked + 1 /\ asked' >= asked /\ (asked <= Bound => asked' = asked + 1)
<1>1. asked' = Aged(asked)
  BY DEF Tick
<1> QED
  BY <1>1, Types DEF Aged, Typed

LEMMA DashboardNext == Typed /\ Operated /\ DashboardInv /\ [Next]_chainVars => DashboardInv'
<1> SUFFICES ASSUME Typed, Operated, DashboardInv, [Next]_chainVars PROVE DashboardInv'
  OBVIOUS
<1> USE Types
<1>0. asked \in Int /\ pubAge \in Nat
  BY DEF Typed
<1>1. CASE CmdVel
  <2>1. asked' = 0 /\ pubAge' = pubAge
    BY <1>1 DEF CmdVel, V!CmdVel, V!pubVars
  <2> QED
    BY <1>0, <2>1 DEF DashboardInv
<1>2. CASE Consume
  <2>0. asked' = asked
    BY <1>2 DEF Consume
  <2>1. CASE V!PublishFail
    BY <2>0, <2>1 DEF V!PublishFail, V!velVars, DashboardInv
  <2>2. CASE V!Consume
    <3>1. pub = V!None /\ pubAge' = 0 /\ pubAge <= PubSlack
      BY <2>2 DEF V!Consume, Typed
    <3>2. CASE V!ConsumeIdle
      BY <1>0, <2>0, <3>1, <3>2 DEF V!ConsumeIdle, DashboardInv
    <3>3. CASE V!ConsumeExpired
      BY <1>0, <2>0, <3>1, <3>3 DEF V!ConsumeExpired, DashboardInv, V!Stop, Stop
    <3>4. CASE V!ConsumeLive
      <4>1. asked <= Timeout
        BY <1>0, <3>4 DEF V!ConsumeLive, Operated, V!AgeCap
      <4> QED
        BY <1>0, <2>0, <3>1, <4>1 DEF DashboardInv
    <3> QED
      BY <2>2, <3>2, <3>3, <3>4 DEF V!Consume
  <2> QED
    BY <1>2, <2>1, <2>2 DEF Consume
<1>3. CASE Publish
  BY <1>3 DEF Publish, V!Publish, V!velVars, DashboardInv
<1>4. CASE Tick
  <2>1. UNCHANGED <<active, pub>> /\ pubAge' = pubAge + 1
    BY <1>4 DEF Tick, V!Tick
  <2>2. asked' <= asked + 1 /\ asked' \in Int
    BY <1>4, AskedTick, TypedNext DEF Typed
  <2> QED
    BY <1>0, <2>1, <2>2 DEF DashboardInv
<1>5. CASE Deliver \/ NodeStep \/ UNCHANGED chainVars
  BY <1>5 DEF Deliver, NodeStep, chainVars, dashboard, DashboardInv
<1> QED
  BY <1>1, <1>2, <1>3, <1>4, <1>5 DEF Next

\* What one step leaves on the topic: what was there, one more message, or all of it
\* a tick older.
LEMMA TopicStep ==
  ASSUME Typed, [Next]_chainVars
  PROVE  \/ /\ \A i \in DOMAIN topic' : \E j \in DOMAIN topic : topic'[i] = topic[j]
            /\ UNCHANGED asked \/ asked' = 0
         \/ /\ Publish
            /\ \A i \in DOMAIN topic' :
                 \/ \E j \in DOMAIN topic : topic'[i] = topic[j]
                 \/ /\ topic'[i].age = 0 /\ pub # V!None
                    /\ pub = Stop => topic'[i].speeds = Stop
         \/ /\ Tick /\ DOMAIN topic' = DOMAIN topic
            /\ \A i \in DOMAIN topic :
                 /\ topic'[i].speeds = topic[i].speeds
                 /\ main = "spin" => topic'[i].age = topic[i].age + 1
<1>1. CASE CmdVel \/ Consume \/ NodeStep \/ UNCHANGED chainVars
  BY <1>1 DEF CmdVel, Consume, NodeStep, chainVars
<1>2. CASE Publish
  <2> DEFINE m == [speeds |-> TwistToWheelSpeeds(pub[1], pub[2]), age |-> 0]
  <2>1. pub # V!None /\ topic' = Queued(m)
    BY <1>2 DEF Publish, V!Publish
  <2>2. pub[1] \in Int /\ pub[2] \in Int
    BY <2>1 DEF Typed
  <2>3. m \in Message /\ (pub = Stop => m.speeds = Stop)
    <3>1. 0 \in 0..NetSlack
      BY Types
    <3>2. TwistToWheelSpeeds(pub[1], pub[2]) \in Int \X Int
      BY <2>2, WheelTypes
    <3>3. pub = Stop => TwistToWheelSpeeds(pub[1], pub[2]) = Stop
      BY <2>2, WheelTypes DEF Stop
    <3> QED
      BY <3>1, <3>2, <3>3 DEF Message
  <2>4. m.age = 0
    OBVIOUS
  <2> HIDE DEF m
  <2>5. \A i \in DOMAIN topic' : topic'[i] = m \/ \E j \in DOMAIN topic : topic'[i] = topic[j]
    BY <2>1, <2>3, QueuedLast DEF Typed
  <2> QED
    BY <1>2, <2>1, <2>3, <2>4, <2>5
<1>3. CASE Deliver
  <2>1. topic # <<>> /\ topic' = Tail(topic) /\ UNCHANGED asked
    BY <1>3 DEF Deliver
  <2>2. topic \in Seq(Message)
    BY DEF Typed
  <2>3. \A i \in 1..Len(topic') : i + 1 \in 1..Len(topic) /\ topic'[i] = topic[i + 1]
    BY <2>1, <2>2
  <2> QED
    BY <2>1, <2>2, <2>3
<1>4. CASE Tick
  <2>1. topic' = [i \in DOMAIN topic |->
                    [topic[i] EXCEPT !.age = IF @ < NetSlack THEN @ + 1 ELSE @]]
    BY <1>4 DEF Tick
  <2>2. main = "spin" => \A i \in DOMAIN topic : topic[i].age < NetSlack
    BY <1>4 DEF Tick
  <2>3. \A i \in DOMAIN topic : topic[i] \in Message
    BY DEF Typed
  <2>4. \A m \in Message :
          /\ [m EXCEPT !.age = IF @ < NetSlack THEN @ + 1 ELSE @].speeds = m.speeds
          /\ m.age < NetSlack =>
               [m EXCEPT !.age = IF @ < NetSlack THEN @ + 1 ELSE @].age = m.age + 1
    BY DEF Message
  <2> QED
    BY <1>4, <2>1, <2>2, <2>3, <2>4
<1> QED
  BY <1>1, <1>2, <1>3, <1>4 DEF Next

\* A node that has been interrupted does not spin again.
LEMMA Spinning == [Next]_chainVars /\ main' = "spin" => main = "spin"
BY DEF Next, CmdVel, Consume, Publish, Deliver, NodeStep, Tick, chainVars, node,
       B!StoreLeft, B!StoreRight, B!StampCommand, B!LoopStep, B!LoopTop, B!OpenPort,
       B!CheckDeadman, B!ZeroLeft, B!ZeroRight, B!ReadLeft, B!ReadRight, B!Send,
       B!SendUntaken, B!OtherError, B!PortError, B!GoodRead, B!BadRead,
         B!LastBadRead, B!Interrupt, B!StopFrame,
       B!ClosePort, B!ClockSetBack, B!Tick

\* The ages on the topic are numbers.
LEMMA TopicAges ==
  ASSUME Typed
  PROVE  asked \in Nat /\ pubAge \in 0..PubSlack
         /\ \A i \in DOMAIN topic : topic[i].age \in 0..NetSlack
<1>1. \A i \in DOMAIN topic : topic[i] \in Message
  BY DEF Typed
<1> QED
  BY <1>1, Types DEF Typed, Message

LEMMA TopicNext == Typed /\ Operated /\ DashboardInv /\ TopicInv /\ [Next]_chainVars => TopicInv'
<1> SUFFICES ASSUME Typed, Operated, DashboardInv, TopicInv, [Next]_chainVars, main' = "spin",
                    NEW i \in DOMAIN topic'
             PROVE  /\ asked' <= Timeout + 2 * PubSlack + topic'[i].age
                    /\ topic'[i].speeds # Stop => asked' <= Timeout + PubSlack + topic'[i].age
  BY DEF TopicInv
<1> USE Types
<1>0. main = "spin"
  BY Spinning
<1>1. asked \in Nat /\ pubAge \in 0..PubSlack
      /\ \A j \in DOMAIN topic : topic[j].age \in 0..NetSlack
  BY TopicAges
<1>2. CASE UNCHANGED asked /\ \E j \in DOMAIN topic : topic'[i] = topic[j]
  BY <1>0, <1>2 DEF TopicInv
<1>3. CASE asked' = 0 /\ \E j \in DOMAIN topic : topic'[i] = topic[j]
  BY <1>1, <1>3
<1>4. CASE Publish /\ topic'[i].age = 0 /\ pub # V!None /\ (pub = Stop => topic'[i].speeds = Stop)
  <2>1. asked' = asked
    BY <1>4 DEF Publish
  <2> QED
    BY <1>1, <1>4, <2>1 DEF DashboardInv
<1>5. CASE /\ Tick /\ i \in DOMAIN topic
           /\ topic'[i].speeds = topic[i].speeds /\ topic'[i].age = topic[i].age + 1
  <2>1. asked' <= asked + 1 /\ asked' \in Nat
    BY <1>5, AskedTick, TypedNext, Types DEF Typed
  <2> QED
    BY <1>0, <1>1, <1>5, <2>1 DEF TopicInv
<1>6. Publish => asked' = asked
  BY DEF Publish
<1> QED
  BY <1>0, <1>2, <1>3, <1>4, <1>5, <1>6, TopicStep

\* Whoever runs, time aside, the last command gets no older.
LEMMA AskedStep ==
  [Next]_chainVars => Tick \/ asked' = asked \/ asked' = 0
BY DEF Next, CmdVel, Consume, Publish, Deliver, NodeStep, chainVars

LEMMA CallbackNext ==
  Typed /\ Operated /\ TopicInv /\ CallbackInv /\ [Next]_chainVars => CallbackInv'
<1> SUFFICES ASSUME Typed, Operated, TopicInv, CallbackInv, [Next]_chainVars
             PROVE  CallbackInv'
  OBVIOUS
<1> USE Types DEF Brings, Brought
<1>0. asked \in Nat
  BY TopicAges
<1>1. CASE Deliver
  <2> DEFINE m == Head(topic)
  <2>1. topic # <<>> /\ B!StoreLeft(m.speeds) /\ UNCHANGED <<asked, main>>
    BY <1>1 DEF Deliver, B!StoreLeft
  <2>2. 1 \in DOMAIN topic /\ m = topic[1]
    BY <2>1 DEF Typed
  <2>3. m.age \in 0..NetSlack
    BY <2>2, TopicAges
  <2>4. main = "spin"
    BY <2>1 DEF B!StoreLeft
  <2>5. /\ asked <= Timeout + 2 * PubSlack + m.age
        /\ m.speeds # Stop => asked <= Timeout + PubSlack + m.age
    BY <2>2, <2>4 DEF TopicInv
  <2> HIDE DEF m
  <2> QED
    BY <1>0, <2>1, <2>3, <2>5 DEF B!StoreLeft, CallbackInv
<1>2. CASE NodeStep
  <2>0. asked' = asked
    BY <1>2 DEF NodeStep
  <2>1. CASE B!StoreRight
    BY <2>0, <2>1 DEF B!StoreRight, CallbackInv, Stop
  <2>2. CASE B!StampCommand
    BY <2>0, <2>2 DEF B!StampCommand, CallbackInv, Stop
  <2>3. CASE B!ZeroLeft
    BY <2>0, <2>3 DEF B!ZeroLeft, CallbackInv
  <2>4. CASE B!ZeroRight
    BY <2>0, <2>4 DEF B!ZeroRight, CallbackInv
  <2>5. CASE UNCHANGED <<speedL, speedR, cb, msg, last>>
    <3>1. main' = "spin" => main = "spin"
      BY Spinning
    <3> QED
      BY <2>0, <2>5, <3>1 DEF CallbackInv
  <2> QED
    BY <1>2, <2>1, <2>2, <2>3, <2>4, <2>5
       DEF NodeStep, B!LoopStep, B!LoopTop, B!OpenPort, B!CheckDeadman, B!ReadLeft,
           B!ReadRight, B!Send, B!SendUntaken, B!OtherError, B!PortError, B!GoodRead,
           B!BadRead, B!LastBadRead,
           B!Interrupt, B!StopFrame, B!ClosePort, B!ClockSetBack, B!cmdVars
<1>3. CASE Tick
  <2>1. cb = "idle" \/ main # "spin"
    BY <1>3 DEF Tick, B!Tick
  <2>2. UNCHANGED <<speedL, speedR, cb, msg, last, main>>
    BY <1>3 DEF Tick, B!Tick
  <2> QED
    BY <2>1, <2>2 DEF CallbackInv
<1>4. CASE CmdVel \/ Consume \/ Publish \/ UNCHANGED chainVars
  <2>1. UNCHANGED node
    BY <1>4 DEF CmdVel, Consume, Publish, chainVars
  <2>2. asked' = asked \/ asked' = 0
    BY <1>4 DEF CmdVel, Consume, Publish, chainVars
  <2> QED
    BY <1>0, <2>1, <2>2 DEF node, CallbackInv
<1> QED
  BY <1>1, <1>2, <1>3, <1>4 DEF Next

LEMMA PortNext == PortInv /\ [Next]_chainVars => PortInv'
BY DEF PortInv, Next, CmdVel, Consume, Publish, Deliver, NodeStep, Tick, chainVars, node,
       B!StoreLeft, B!StoreRight, B!StampCommand, B!LoopStep, B!LoopTop, B!OpenPort,
       B!CheckDeadman, B!ZeroLeft, B!ZeroRight, B!ReadLeft, B!ReadRight, B!Send,
       B!SendUntaken, B!OtherError, B!PortError, B!GoodRead, B!BadRead,
         B!LastBadRead, B!Interrupt, B!StopFrame,
       B!ClosePort, B!ClockSetBack, B!Tick, B!loopVars

LEMMA WheelsNext ==
  Typed /\ Operated /\ CallbackInv /\ TopicInv /\ PortInv /\ WheelsInv /\ [Next]_chainVars
    => WheelsInv'
<1> SUFFICES ASSUME Typed, Operated, CallbackInv, TopicInv, PortInv, WheelsInv,
                    [Next]_chainVars, main' = "spin"
             PROVE  WheelsInv'
  BY DEF WheelsInv
<1> USE Types DEF Brings, Brought
<1>0. main = "spin" /\ (loop # "top" \/ ~outage => open)
  BY Spinning DEF PortInv
<1>a. /\ asked \in Nat /\ loopAge \in 0..LoopSlack
      /\ nodeAge \in -skew..B!SilenceCap /\ skew \in 0..MaxSkew
  BY TopicAges DEF Typed
<1>c. CallbackInv'
  BY CallbackNext
<1>1. CASE Deliver
  <2>1. /\ main = "spin" /\ cb' = "left" /\ asked' = asked
        /\ UNCHANGED <<speedR, nodeAge, skew, loop, argL, argR, loopAge, outage, frame>>
    BY <1>1 DEF Deliver, B!StoreLeft, B!loopVars
  <2>2. speedL' # 0 => asked <= Brought
    BY <1>0, <1>c, <2>1 DEF CallbackInv, Stop, Deliver, B!StoreLeft
  <2> QED
    BY <1>0, <1>a, <2>1, <2>2 DEF WheelsInv
<1>2. CASE NodeStep
  <2>0. asked' = asked
    BY <1>2 DEF NodeStep
  <2>1. CASE B!StoreRight
    BY <1>0, <1>a, <2>0, <2>1 DEF B!StoreRight, B!loopVars, CallbackInv, WheelsInv, Stop
  <2>2. CASE B!StampCommand
    <3>1. /\ cb = "right" /\ nodeAge' = 0 /\ skew' = 0
          /\ UNCHANGED <<speedL, speedR, loop, argL, argR, loopAge, outage, frame, open>>
      BY <2>2 DEF B!StampCommand, B!loopVars
    <3>2. asked <= Brought + PubSlack /\ (speedL # 0 \/ speedR # 0 => asked <= Brought)
      BY <1>0, <3>1 DEF CallbackInv, Stop
    <3> QED
      BY <1>a, <2>0, <3>1, <3>2 DEF WheelsInv
  <2>3. CASE B!LoopTop \/ B!OpenPort
    BY <1>0, <1>a, <2>0, <2>3 DEF B!LoopTop, B!OpenPort, B!cmdVars, WheelsInv, B!Deciding
  <2>4. CASE B!CheckDeadman
    BY <1>0, <1>a, <2>0, <2>4 DEF B!CheckDeadman, B!cmdVars, WheelsInv, B!Deciding
  <2>5. CASE B!ZeroLeft \/ B!ZeroRight
    BY <1>0, <1>a, <2>0, <2>5 DEF B!ZeroLeft, B!ZeroRight, WheelsInv, B!Deciding
  <2>6. CASE B!ReadLeft \/ B!ReadRight
    BY <1>0, <1>a, <2>0, <2>6 DEF B!ReadLeft, B!ReadRight, B!cmdVars, WheelsInv, B!Deciding
  <2>7. CASE B!Send
    BY <1>0, <1>a, <2>0, <2>7 DEF B!Send, B!cmdVars, WheelsInv, B!Deciding, Stop
  <2>8. CASE B!SendUntaken \/ B!OtherError \/ B!PortError \/ B!LastBadRead
    BY <1>0, <1>a, <2>0, <2>8 DEF B!SendUntaken, B!OtherError, B!PortError,
       B!LastBadRead, B!cmdVars, WheelsInv, B!Deciding
  <2>9. CASE B!GoodRead \/ B!BadRead
    BY <1>0, <1>a, <2>0, <2>9 DEF B!GoodRead, B!BadRead, B!cmdVars, WheelsInv, B!Deciding
  <2>10. CASE B!Interrupt \/ B!StopFrame \/ B!ClosePort
    BY <2>10 DEF B!Interrupt, B!StopFrame, B!ClosePort
  <2>11. ASSUME NEW k \in 1..MaxSkew, B!ClockSetBack(k) PROVE WheelsInv'
    BY <1>0, <1>a, <2>0, <2>11 DEF B!ClockSetBack, B!loopVars, WheelsInv
  <2> QED
    BY <1>2, <2>1, <2>2, <2>3, <2>4, <2>5, <2>6, <2>7, <2>8, <2>9, <2>10, <2>11
       DEF NodeStep, B!LoopStep
<1>3. CASE Tick
  <2>1. /\ open => loopAge < LoopSlack
        /\ nodeAge' = IF nodeAge < B!SilenceCap THEN nodeAge + 1 ELSE nodeAge
        /\ loopAge' = IF loopAge < LoopSlack THEN loopAge + 1 ELSE loopAge
        /\ UNCHANGED <<speedL, speedR, skew, loop, argL, argR, main, frame, outage>>
    BY <1>0, <1>3 DEF Tick, B!Tick, PortInv
  <2>2. asked' <= asked + 1 /\ asked' \in Nat
    BY <1>3, AskedTick, TypedNext DEF Typed
  <2>3. nodeAge = B!SilenceCap => asked' <= Brought + nodeAge' + skew'
    <3>1. asked' <= Bound + 1
      BY <1>3, TypedTick DEF Typed
    <3> QED
      BY <1>a, <2>1, <2>2, <3>1 DEF Bound, Fresh, B!SilenceCap
  <2>4. speedL' # 0 \/ speedR' # 0 => asked' <= Brought + nodeAge' + skew'
    BY <1>0, <1>a, <2>1, <2>2, <2>3 DEF WheelsInv
  <2> QED
    BY <1>0, <1>a, <2>1, <2>2, <2>4 DEF WheelsInv, B!Deciding
<1>4. CASE CmdVel \/ Consume \/ Publish \/ UNCHANGED chainVars
  <2>1. UNCHANGED node
    BY <1>4 DEF CmdVel, Consume, Publish, chainVars
  <2>2. asked' = asked \/ asked' = 0
    BY <1>4 DEF CmdVel, Consume, Publish, chainVars
  <2> QED
    BY <1>0, <1>a, <2>1, <2>2 DEF node, WheelsInv
<1> QED
  BY <1>1, <1>2, <1>3, <1>4 DEF Next

LEMMA ChainInit == Init => ChainInv
BY TypedInit, Types
   DEF Init, V!Init, B!Init, ChainInv, DashboardInv, TopicInv, CallbackInv, PortInv,
       WheelsInv, V!None, Stop, B!Stop

LEMMA ChainNext == ChainInv /\ [Next]_chainVars => ChainInv'
BY TypedNext, DashboardNext, TopicNext, CallbackNext, PortNext, WheelsNext DEF ChainInv

\* The inductive invariant of the deadmen in series.
THEOREM ChainInvariant == Spec => []ChainInv
BY ChainInit, ChainNext, PTL DEF Spec

-----------------------------------------------------------------------------
(* The refinement of Deadman *)

\* Only a frame the chassis takes lets the wheels count as moving.
LEMMA StartsMoving ==
  ASSUME [Next]_chainVars, ~(frame # Stop /\ B!Trusted), frame' # Stop /\ B!Trusted'
  PROVE  UNCHANGED asked /\ B!Send
<1>1. CASE UNCHANGED <<frame, outage, main>>
  BY <1>1 DEF B!Trusted
<1>2. CASE NodeStep /\ B!Send
  BY <1>2 DEF NodeStep
<1>3. CASE outage' = TRUE \/ main' # "spin"
  BY <1>3 DEF B!Trusted
<1>4. CASE B!OtherError
  BY <1>4, Zenon DEF B!OtherError, B!Trusted
<1>5. \/ UNCHANGED <<frame, outage, main>>
      \/ NodeStep /\ B!Send
      \/ B!OtherError
      \/ outage' = TRUE \/ main' # "spin"
  BY DEF Next, CmdVel, Consume, Publish, Deliver, NodeStep, Tick, chainVars, node,
         B!StoreLeft, B!StoreRight, B!StampCommand, B!LoopStep, B!LoopTop, B!OpenPort,
         B!CheckDeadman, B!ZeroLeft, B!ZeroRight, B!ReadLeft, B!ReadRight,
         B!SendUntaken, B!PortError, B!GoodRead, B!BadRead, B!LastBadRead,
         B!Interrupt, B!StopFrame, B!ClosePort, B!ClockSetBack, B!Tick, B!cmdVars,
         B!loopVars
<1> QED
  BY <1>1, <1>2, <1>3, <1>4, <1>5

\* From the operator to the wheels the chain is one deadman, with the timeouts and the
\* latencies of both added up, and whatever publishes fail.
THEOREM ChainIsDeadman == Spec => ImplementsDeadman
<1> DEFINE moving == frame # Stop /\ B!Trusted
<1>1. Init => D!Init
  BY Types DEF Init, B!Init, D!Init, Stop, B!Stop
<1>2. ChainInv /\ [Next]_chainVars => [D!Next]_<<moving, asked>>
  <2> SUFFICES ASSUME ChainInv, [Next]_chainVars
               PROVE  D!Next \/ UNCHANGED <<moving, asked>>
    OBVIOUS
  <2> USE Types DEF Brings, Brought, Fresh, Bound
  <2>0. asked \in Nat /\ loopAge \in 0..LoopSlack /\ skew \in 0..MaxSkew
    BY TopicAges DEF ChainInv, Typed
  <2>1. CASE Tick
    <3>1. moving => open /\ loop # "dead" /\ asked <= Brought + CmdTimeout + LoopSlack + MaxSkew + loopAge
      BY <2>0 DEF ChainInv, PortInv, WheelsInv, B!Trusted
    <3>2. open /\ loop # "dead" => loopAge < LoopSlack
      BY <2>1 DEF Tick, B!Tick
    <3>3. UNCHANGED moving
      BY <2>1 DEF Tick, B!Tick, B!Trusted
    <3>4. asked' = IF asked > Bound THEN asked ELSE asked + 1
      BY <2>1 DEF Tick, Aged
    <3> QED
      BY <2>0, <3>1, <3>2, <3>3, <3>4 DEF D!Next, D!Elapse
  <2>2. CASE CmdVel
    <3>1. asked' = 0 /\ UNCHANGED moving
      BY <2>2 DEF CmdVel, node, B!Trusted
    <3> QED
      BY <3>1 DEF D!Next, D!Command
  <2>3. CASE asked' = asked /\ ~moving'
    BY <2>3 DEF D!Next, D!Halt
  <2>4. CASE asked' = asked /\ moving' /\ moving
    BY <2>4
  <2>5. CASE asked' = asked /\ moving' /\ ~moving
    <3>2. CASE B!Send
      <4>1. loop = "send" /\ main = "spin" /\ (argL # 0 \/ argR # 0)
        BY <2>5, <3>2 DEF B!Send, B!cmdVars, B!Trusted, Stop
      <4>2. asked <= Brought + CmdTimeout + MaxSkew + loopAge
        <5>1. WheelsInv
          BY DEF ChainInv
        <5>2. CASE argL # 0
          BY <2>0, <4>1, <5>1, <5>2 DEF WheelsInv
        <5>3. CASE argR # 0
          BY <2>0, <4>1, <5>1, <5>3 DEF WheelsInv
        <5> QED
          BY <4>1, <5>2, <5>3
      <4> QED
        BY <2>0, <2>5, <4>2 DEF D!Next, D!Move
    <3> QED
      BY <2>5, <3>2, StartsMoving
  <2>6. Tick \/ CmdVel \/ asked' = asked
    BY DEF Next, Consume, Publish, Deliver, NodeStep, chainVars
  <2> QED
    BY <2>1, <2>2, <2>3, <2>4, <2>5, <2>6
<1> QED
  BY <1>1, <1>2, ChainInvariant, PTL DEF Spec, ImplementsDeadman, D!Spec

-----------------------------------------------------------------------------
(* The stop on its way *)

\* The newest message, when a step leaves it as it was.
LEMMA NewestKept ==
  ASSUME UNCHANGED <<topic, cb, msg, last>>
  PROVE  Newest' = Newest
BY DEF Newest

\* Time changes no message.
LEMMA SpeedsKept ==
  ASSUME Typed, Tick
  PROVE  /\ topic' = <<>> <=> topic = <<>>
         /\ topic # <<>> => topic'[Len(topic')].speeds = topic[Len(topic)].speeds
<1>1. topic' = [i \in DOMAIN topic |->
                  [topic[i] EXCEPT !.age = IF @ < NetSlack THEN @ + 1 ELSE @]]
  BY DEF Tick
<1>2. topic \in Seq(Message) /\ DOMAIN topic = 1..Len(topic) /\ Len(topic) \in Nat
  BY DEF Typed
<1>3. topic' \in Seq(Message)
  BY TopicTick
<1>4. Len(topic') = Len(topic)
  BY <1>1, <1>2, <1>3
<1>5. \A m \in Message :
        [m EXCEPT !.age = IF @ < NetSlack THEN @ + 1 ELSE @].speeds = m.speeds
  BY DEF Message
<1>6. topic # <<>> => Len(topic) \in 1..Len(topic) /\ topic[Len(topic)] \in Message
  BY <1>2
<1>7. topic = <<>> <=> Len(topic) = 0
  BY <1>2
<1>8. topic' = <<>> <=> Len(topic') = 0
  BY <1>3
<1> QED
  BY <1>1, <1>2, <1>4, <1>5, <1>6, <1>7, <1>8

LEMMA SentNext == Typed /\ CallbackInv /\ SentInv /\ [Next]_chainVars => SentInv'
<1> SUFFICES ASSUME Typed, SentInv, [Next]_chainVars PROVE SentInv'
  OBVIOUS
<1> USE Types DEF Stopping
<1>0. asked \in Nat /\ pubAge \in 0..PubSlack
  BY TopicAges
<1>1. CASE CmdVel
  <2>1. asked' = 0 /\ active' = TRUE /\ UNCHANGED <<wire, pub, pubAge, lost>>
    BY <1>1 DEF CmdVel, V!CmdVel, V!SetCommand, V!pubVars
  <2>2. Newest' = Newest
    BY <1>1, NewestKept DEF CmdVel, node
  <2> QED
    BY <1>0, <2>1, <2>2 DEF SentInv
<1>2. CASE Consume
  <2>0. asked' = asked /\ Newest' = Newest /\ UNCHANGED <<lin, ang>>
    BY <1>2, NewestKept DEF Consume, node, V!Consume, V!PublishFail, V!velVars
  <2>1. CASE V!PublishFail
    <3>1. /\ pub' = V!None /\ pub # V!None /\ UNCHANGED <<active, wire, pubAge>>
          /\ ~lost' => ~lost /\ pub # Stop
      BY <2>1 DEF V!PublishFail, V!velVars, V!Stop, Stop
    <3>2. ~active /\ ~lost' => wire = Stop
      BY <3>1 DEF SentInv
    <3> QED
      BY <2>0, <3>1, <3>2 DEF SentInv
  <2>2. CASE V!Consume
    <3>1. pub = V!None /\ pubAge' = 0 /\ UNCHANGED <<wire, lost>>
      BY <2>2 DEF V!Consume
    <3>2. CASE V!ConsumeIdle
      BY <1>0, <2>0, <3>1, <3>2 DEF V!ConsumeIdle, SentInv
    <3>3. CASE V!ConsumeExpired
      <4>1. active /\ active' = FALSE /\ pub' = Stop /\ Stop # V!None
        BY <3>3 DEF V!ConsumeExpired, V!Stop, Stop, V!None
      <4> QED
        BY <1>0, <2>0, <3>1, <4>1 DEF SentInv
    <3>4. CASE V!ConsumeLive
      <4>1. active /\ (~active' => pub' = Stop) /\ Stop # V!None /\ pub' # V!None
        BY <3>4 DEF V!ConsumeLive, Stop, V!None
      <4>2. Stopping => ~active'
        BY <3>4 DEF V!ConsumeLive
      <4> QED
        BY <1>0, <2>0, <3>1, <4>1, <4>2 DEF SentInv
    <3> QED
      BY <2>2, <3>2, <3>3, <3>4 DEF V!Consume
  <2> QED
    BY <1>2, <2>1, <2>2 DEF Consume
<1>3. CASE Publish
  <2> DEFINE m == [speeds |-> TwistToWheelSpeeds(pub[1], pub[2]), age |-> 0]
  <2>1. /\ pub # V!None /\ wire' = pub /\ pub' = V!None /\ topic' = Queued(m)
        /\ UNCHANGED <<asked, lin, ang, active, pubAge>>
    BY <1>3 DEF Publish, V!Publish, V!velVars
  <2>2. pub[1] \in Int /\ pub[2] \in Int
    BY <2>1 DEF Typed
  <2>3. m \in Message /\ m.speeds = TwistToWheelSpeeds(pub[1], pub[2])
    <3>1. 0 \in 0..NetSlack
      OBVIOUS
    <3>2. TwistToWheelSpeeds(pub[1], pub[2]) \in Int \X Int
      BY <2>2, WheelTypes
    <3> QED
      BY <3>1, <3>2 DEF Message
  <2>4. wire' = Stop => m.speeds = Stop
    BY <2>1, <2>2, <2>3, WheelTypes DEF Stop
  <2> HIDE DEF m
  <2>5. topic' # <<>> /\ topic'[Len(topic')] = m
    BY <2>1, <2>3, QueuedLast DEF Typed
  <2>6. Newest' = m.speeds
    BY <2>5 DEF Newest
  <2>7. ~active => pub = Stop
    BY <2>1 DEF SentInv
  <2> QED
    BY <2>1, <2>4, <2>6, <2>7 DEF SentInv
<1>4. CASE Deliver
  <2>1. UNCHANGED <<dashboard, asked>>
    BY <1>4 DEF Deliver
  <2>2. /\ topic # <<>> /\ topic' = Tail(topic)
        /\ cb' = "left" /\ msg' = Head(topic).speeds
    BY <1>4 DEF Deliver, B!StoreLeft
  <2>3. Newest' = Newest
    <3>0. topic \in Seq(Message) /\ Len(topic) \in Nat
      BY DEF Typed
    <3>1. CASE Len(topic) = 1
      <4>1. topic' = <<>> /\ Head(topic) = topic[Len(topic)]
        BY <2>2, <3>0, <3>1
      <4> QED
        BY <2>2, <4>1 DEF Newest
    <3>2. CASE Len(topic) > 1
      <4>1. topic' \in Seq(Message) /\ Len(topic') = Len(topic) - 1
        BY <2>2, <3>0
      <4>2. \A i \in 1..Len(topic') : topic'[i] = topic[i + 1]
        BY <2>2, <3>0, <4>1
      <4>3. Len(topic') \in 1..Len(topic') /\ Len(topic') + 1 = Len(topic)
        BY <3>0, <3>2, <4>1
      <4>4. topic'[Len(topic')] = topic[Len(topic)] /\ topic' # <<>>
        BY <4>1, <4>2, <4>3
      <4> QED
        BY <2>2, <4>4 DEF Newest
    <3>3. Len(topic) # 0
      BY <2>2, <3>0
    <3>4. Len(topic) = 1 \/ Len(topic) > 1
      <4>1. \A n \in Nat : n # 0 => n = 1 \/ n > 1
        OBVIOUS
      <4> QED
        BY <3>0, <3>3, <4>1, Zenon
    <3> QED
      BY <3>1, <3>2, <3>4
  <2> QED
    BY <2>1, <2>3 DEF dashboard, SentInv
<1>5. CASE NodeStep
  <2>1. UNCHANGED <<dashboard, topic, asked>>
    BY <1>5 DEF NodeStep
  <2>2. Newest' = Newest
    <3>1. CASE B!StampCommand
      BY <2>1, <3>1 DEF B!StampCommand, Newest
    <3>2. CASE B!StoreRight
      BY <2>1, <3>2 DEF B!StoreRight, Newest
    <3>3. CASE UNCHANGED <<cb, msg, last>>
      BY <2>1, <3>3, NewestKept
    <3> QED
      BY <1>5, <3>1, <3>2, <3>3
         DEF NodeStep, B!LoopStep, B!LoopTop, B!OpenPort, B!CheckDeadman, B!ZeroLeft,
             B!ZeroRight, B!ReadLeft, B!ReadRight, B!Send, B!SendUntaken,
             B!OtherError, B!PortError, B!GoodRead, B!BadRead, B!LastBadRead, B!Interrupt, B!StopFrame, B!ClosePort,
             B!ClockSetBack, B!cmdVars
  <2> QED
    BY <2>1, <2>2 DEF dashboard, SentInv
<1>6. CASE Tick
  <2>1. UNCHANGED <<lin, ang, active, pub, wire, lost>> /\ pubAge' = pubAge + 1
    BY <1>6 DEF Tick, V!Tick
  <2>2. asked' <= asked + 1 /\ asked' \in Int
    BY <1>6, AskedTick, TypedTick, <1>0 DEF Tick, Aged
  <2>3. Newest' = Newest
    <3>1. UNCHANGED <<cb, msg, last>>
      BY <1>6 DEF Tick, B!Tick
    <3> QED
      BY <1>6, <3>1, SpeedsKept DEF Newest
  <2> QED
    BY <1>0, <2>1, <2>2, <2>3 DEF SentInv
<1>7. CASE UNCHANGED chainVars
  <2>1. Newest' = Newest
    BY <1>7, NewestKept DEF chainVars, node
  <2> QED
    BY <1>7, <2>1 DEF chainVars, dashboard, SentInv
<1> QED
  BY <1>1, <1>2, <1>3, <1>4, <1>5, <1>6, <1>7 DEF Next

\* Only a command changes what the operator wants.
LEMMA StoppingKept == [Next]_chainVars => asked' = 0 \/ UNCHANGED <<lin, ang>>
BY DEF Next, CmdVel, Consume, V!Consume, V!PublishFail, V!velVars, Publish, V!Publish,
       Deliver, NodeStep, Tick, V!Tick, dashboard, chainVars

LEMMA PassedNext ==
  ChainInv /\ SentInv /\ PassedInv /\ [Next]_chainVars => PassedInv'
<1> SUFFICES ASSUME ChainInv, SentInv, PassedInv, [Next]_chainVars, main' = "spin", Stopping'
             PROVE  /\ \A i \in DOMAIN topic' : asked' <= 2 * PubSlack + topic'[i].age
                    /\ cb' # "idle" => asked' <= OnItsWay
  BY DEF PassedInv, OnItsWay
<1> USE Types DEF OnItsWay
<1>0. /\ main = "spin" /\ asked \in Nat /\ pubAge \in 0..PubSlack
      /\ \A j \in DOMAIN topic : topic[j].age \in 0..NetSlack
  BY Spinning, TopicAges DEF ChainInv
<1>1. asked' \in Nat /\ \A j \in DOMAIN topic' : topic'[j].age \in 0..NetSlack
  <2>1. asked' \in Nat /\ \A j \in DOMAIN topic' : topic'[j] \in Message
    BY ChainNext DEF ChainInv, Typed
  <2> QED
    BY <2>1 DEF Message
<1>2. CASE asked' = 0
  BY <1>1, <1>2
<1>3. CASE UNCHANGED <<lin, ang>>
  <2>0. Stopping
    BY <1>3 DEF Stopping
  <2>1. ASSUME NEW i \in DOMAIN topic'
        PROVE  asked' <= 2 * PubSlack + topic'[i].age
    <3>1. CASE UNCHANGED asked /\ \E j \in DOMAIN topic : topic'[i] = topic[j]
      BY <1>0, <2>0, <3>1 DEF PassedInv
    <3>2. CASE asked' = 0
      BY <1>2, <2>1, <3>2
    <3>3. CASE Publish /\ topic'[i].age = 0 /\ pub # V!None
      <4>1. asked' = asked /\ asked <= PubSlack + pubAge
        BY <2>0, <3>3 DEF Publish, SentInv
      <4> QED
        BY <1>0, <3>3, <4>1
    <3>4. CASE Tick /\ i \in DOMAIN topic /\ topic'[i].age = topic[i].age + 1
      <4>1. asked' <= asked + 1
        BY <3>4, AskedTick DEF ChainInv
      <4>2. asked <= 2 * PubSlack + topic[i].age
        BY <1>0, <2>0, <3>4 DEF PassedInv
      <4> QED
        BY <1>0, <1>1, <3>4, <4>1, <4>2
    <3>5. Publish => asked' = asked
      BY DEF Publish
    <3> QED
      BY <1>0, <3>1, <3>2, <3>3, <3>4, <3>5, <2>1, TopicStep DEF ChainInv
  <2>2. cb' # "idle" => asked' <= OnItsWay
    <3>1. CASE Deliver
      <4>1. topic # <<>> /\ asked' = asked
        BY <3>1 DEF Deliver
      <4>2. 1 \in DOMAIN topic
        BY <4>1 DEF ChainInv, Typed
      <4>3. asked <= 2 * PubSlack + topic[1].age
        BY <1>0, <2>0, <4>2 DEF PassedInv
      <4> QED
        BY <1>0, <4>1, <4>2, <4>3
    <3>2. CASE Tick
      BY <1>0, <3>2 DEF Tick, B!Tick
    <3>3. CASE asked' = asked /\ (cb' # "idle" => cb # "idle")
      BY <1>0, <2>0, <3>3 DEF PassedInv
    <3>4. CASE asked' = 0
      BY <1>2, <3>4
    <3>5. Deliver \/ Tick \/ asked' = 0 \/ (asked' = asked /\ (cb' # "idle" => cb # "idle"))
      <4>1. ~Deliver /\ ~Tick => (cb' # "idle" => cb # "idle")
        BY DEF Next, CmdVel, Consume, Publish, NodeStep, chainVars, node,
           B!StoreRight, B!StampCommand, B!LoopStep, B!LoopTop, B!OpenPort,
           B!CheckDeadman, B!ZeroLeft, B!ZeroRight, B!ReadLeft, B!ReadRight, B!Send,
           B!SendUntaken, B!OtherError, B!PortError, B!GoodRead, B!BadRead,
         B!LastBadRead, B!Interrupt, B!StopFrame,
           B!ClosePort, B!ClockSetBack, B!cmdVars
      <4> QED
        BY <4>1, AskedStep
    <3> QED
      BY <3>1, <3>2, <3>3, <3>4, <3>5
  <2> QED
    BY <2>1, <2>2
<1> QED
  BY <1>2, <1>3, StoppingKept

\* Once every latency of the way has passed, both shared speeds are zero.
LEMMA Settled ==
  ASSUME ChainInv, SentInv, PassedInv, main = "spin", Stopping, ~lost, asked > OnItsWay
  PROVE  speedL = 0 /\ speedR = 0
<1> USE Types DEF OnItsWay
<1>0. /\ asked \in Nat /\ pubAge \in 0..PubSlack
      /\ \A j \in DOMAIN topic : topic[j].age \in 0..NetSlack
  BY TopicAges DEF ChainInv
<1>1. ~active
  BY <1>0 DEF SentInv
<1>2. pub = V!None
  BY <1>0 DEF SentInv
<1>3. Newest = Stop
  BY <1>1, <1>2 DEF SentInv
<1>4. topic = <<>>
  <2>1. topic # <<>> => 1 \in DOMAIN topic
    BY DEF ChainInv, Typed
  <2>2. 1 \notin DOMAIN topic
    BY <1>0 DEF PassedInv
  <2> QED
    BY <2>1, <2>2
<1>5. cb = "idle"
  BY <1>0 DEF PassedInv
<1>6. last = Stop
  BY <1>3, <1>4, <1>5 DEF Newest
<1> QED
  BY <1>5, <1>6 DEF ChainInv, CallbackInv

LEMMA TakenNext ==
  ChainInv /\ SentInv /\ PassedInv /\ TakenInv /\ [Next]_chainVars => TakenInv'
<1> SUFFICES ASSUME ChainInv, SentInv, PassedInv, TakenInv, [Next]_chainVars,
                    main' = "spin", Stopping', ~lost'
             PROVE  TakenInv'
  BY DEF TakenInv
<1> USE Types
<1>0. /\ main = "spin" /\ asked \in Nat /\ loopAge \in 0..LoopSlack /\ OnItsWay \in Nat
      /\ pubAge \in 0..PubSlack /\ (loop # "top" \/ ~outage => open) /\ loop # "dead"
  <2>1. main = "spin"
    BY Spinning
  <2>2. asked \in Nat /\ pubAge \in 0..PubSlack /\ loopAge \in 0..LoopSlack
    BY TopicAges DEF ChainInv, Typed
  <2>3. (loop # "top" \/ ~outage => open) /\ loop # "dead"
    BY <2>1 DEF ChainInv, PortInv
  <2> QED
    BY <2>1, <2>2, <2>3 DEF OnItsWay
<1>1. asked' \in Nat /\ loopAge' \in 0..LoopSlack
  BY ChainNext DEF ChainInv, Typed
<1>e. CASE asked' <= OnItsWay
  <2>1. OnItsWay' = OnItsWay
    BY DEF OnItsWay
  <2>2. ~(asked' > OnItsWay + loopAge') /\ ~(asked' > OnItsWay + loopAge' + LoopSlack)
    <3>1. loopAge' \in Nat /\ asked' \in Nat /\ OnItsWay \in Nat /\ LoopSlack \in Nat
      BY <1>0, <1>1
    <3>2. \A a, b, c, d \in Nat : a <= b => ~(a > b + c) /\ ~(a > b + c + d)
      OBVIOUS
    <3> QED
      BY <3>1, <3>2, <1>e, Zenon
  <2> QED
    BY <2>1, <2>2 DEF TakenInv
<1>2. CASE asked' = 0
  BY <1>0, <1>2, <1>e
<1>3. CASE Publish
  <2>1. asked' = asked /\ pub # V!None /\ UNCHANGED <<lin, ang>>
    BY <1>3 DEF Publish, V!Publish, V!velVars
  <2>2. asked <= PubSlack + pubAge
    BY <2>1 DEF SentInv, Stopping
  <2>3. asked' <= OnItsWay
    BY <1>0, <2>1, <2>2 DEF OnItsWay
  <2> QED
    BY <1>e, <2>3
<1>4. CASE asked' # 0 /\ ~Publish
  <2>0. Stopping
    BY <1>4, StoppingKept DEF Stopping
  <2>1. ~lost
    BY <1>4 DEF Next, CmdVel, Consume, V!Consume, V!PublishFail, Deliver, NodeStep, Tick,
                V!Tick, dashboard, chainVars
  <2>2. asked > OnItsWay => speedL = 0 /\ speedR = 0
    BY <1>0, <2>0, <2>1, Settled
  <2>3. CASE UNCHANGED <<loop, argL, argR, loopAge, frame, outage, asked>>
    BY <1>0, <2>0, <2>1, <2>3 DEF TakenInv
  <2>4. CASE NodeStep
    <3>0. asked' = asked
      BY <2>4 DEF NodeStep
    <3>1. CASE B!StoreRight \/ B!StampCommand \/ B!ZeroLeft \/ B!ZeroRight
      BY <1>0, <2>0, <2>1, <3>0, <3>1 DEF B!StoreRight, B!StampCommand, B!ZeroLeft,
         B!ZeroRight, B!loopVars, B!Deciding, TakenInv
    <3>2. CASE B!LoopTop \/ B!OpenPort \/ B!CheckDeadman
      BY <1>0, <2>0, <2>1, <3>0, <3>2 DEF B!LoopTop, B!OpenPort, B!CheckDeadman,
         B!Deciding, TakenInv
    <3>3. CASE B!ReadLeft \/ B!ReadRight
      BY <1>0, <2>0, <2>1, <2>2, <3>0, <3>3 DEF B!ReadLeft, B!ReadRight, B!Deciding, TakenInv
    <3>4. CASE B!Send
      BY <1>0, <2>0, <2>1, <3>0, <3>4 DEF B!Send, B!Deciding, TakenInv, Stop
    <3>5. CASE \/ B!SendUntaken \/ B!OtherError \/ B!PortError
               \/ B!GoodRead \/ B!BadRead \/ B!LastBadRead
      BY <1>0, <2>0, <2>1, <3>0, <3>5 DEF B!SendUntaken, B!OtherError,
         B!PortError, B!GoodRead, B!BadRead, B!LastBadRead, B!Deciding, TakenInv
    <3>6. CASE B!Interrupt \/ B!StopFrame \/ B!ClosePort
      BY <3>6 DEF B!Interrupt, B!StopFrame, B!ClosePort
    <3>7. ASSUME NEW k \in 1..MaxSkew, B!ClockSetBack(k) PROVE TakenInv'
      BY <1>0, <2>0, <2>1, <3>0, <3>7 DEF B!ClockSetBack, B!loopVars, TakenInv
    <3> QED
      BY <2>4, <3>1, <3>2, <3>3, <3>4, <3>5, <3>6, <3>7 DEF NodeStep, B!LoopStep
  <2>5. CASE Tick
    <3>1. /\ open => loopAge < LoopSlack
          /\ loopAge' = IF loopAge < LoopSlack THEN loopAge + 1 ELSE loopAge
          /\ UNCHANGED <<loop, argL, argR, frame, outage>>
      BY <1>0, <2>5 DEF Tick, B!Tick
    <3>2. asked' <= asked + 1
      BY <2>5, AskedTick DEF ChainInv
    <3> QED
      BY <1>0, <1>1, <2>0, <2>1, <3>1, <3>2 DEF TakenInv, B!Deciding
  <2> QED
    BY <1>4, <2>3, <2>4, <2>5
       DEF Next, CmdVel, Consume, Deliver, B!StoreLeft, B!loopVars, node, chainVars
<1> QED
  BY <1>2, <1>3, <1>4

\* A stop the operator asked for is on the wheels within the latencies alone, whatever
\* older commands are still consumed, published, queued or written behind it, whatever
\* the port did before, and however the callback, the deadman and the loop interleave.
THEOREM StopsArrive == Spec => []StopArrives
<1>1. Init => StopInv
  BY Types DEF Init, V!Init, B!Init, StopInv, SentInv, PassedInv, TakenInv, Newest, V!None,
     Stop, B!Stop, V!Stop, Stopping, OnItsWay
<1>2. ChainInv /\ StopInv /\ [Next]_chainVars => StopInv'
  BY SentNext, PassedNext, TakenNext DEF StopInv, ChainInv
<1>3. ChainInv /\ StopInv => StopArrives
  <2> SUFFICES ASSUME ChainInv, TakenInv, Stopping, ~lost, B!Trusted,
                      asked > 2 * PubSlack + NetSlack + 2 * LoopSlack
               PROVE  frame = Stop
    BY DEF StopArrives, StopInv, Stopping
  <2>1. asked \in Nat /\ loopAge \in 0..LoopSlack
    BY TopicAges DEF ChainInv, Typed
  <2>2. asked > OnItsWay + loopAge + LoopSlack
    BY <2>1, Types DEF OnItsWay
  <2> QED
    BY <2>2 DEF TakenInv, B!Trusted
<1> QED
  BY <1>1, <1>2, <1>3, ChainInvariant, PTL DEF Spec
=============================================================================
