---------------------------- MODULE RobotBaseProofs ----------------------------
(***************************************************************************)
(* Theorems about RobotBase for every value of its constants.               *)
(***************************************************************************)
EXTENDS RobotBase, TLAPS

\* The caps of the ages are natural numbers.
LEMMA CapTypes ==
  /\ CmdTimeout \in Nat /\ LoopSlack \in Nat \ {0} /\ BadLimit \in Nat \ {0}
  /\ SilenceCap \in Nat /\ MaxSkew \in Nat
BY RobotBaseAssumption DEF SilenceCap

-----------------------------------------------------------------------------
(* Type correctness *)

LEMMA TypeInit == Init => TypeOK
<1> SUFFICES ASSUME Init PROVE TypeOK
  OBVIOUS
<1>1. open \in BOOLEAN /\ outage \in BOOLEAN
  BY Zenon DEF Init
<1> QED
  BY <1>1, CapTypes DEF Init, TypeOK, Stop, LoopStage

LEMMA TypeNext == TypeOK /\ [Next]_vars => TypeOK'
<1> SUFFICES ASSUME TypeOK, [Next]_vars PROVE TypeOK'
  OBVIOUS
<1> USE CapTypes
<1>1. ASSUME NEW m \in Commands, StoreLeft(m) PROVE TypeOK'
  BY <1>1, RobotBaseAssumption DEF StoreLeft, TypeOK, loopVars
<1>2. CASE StoreRight \/ StampCommand
  BY <1>2 DEF StoreRight, StampCommand, TypeOK, loopVars, Stop
<1>3. CASE LoopTop
  BY <1>3 DEF LoopTop, TypeOK, cmdVars, LoopStage
<1>10. CASE OpenPort
  BY <1>10 DEF OpenPort, TypeOK, cmdVars
<1>4. CASE CheckDeadman \/ ZeroLeft \/ ZeroRight \/ ReadLeft \/ ReadRight
  BY <1>4 DEF CheckDeadman, ZeroLeft, ZeroRight, ReadLeft, ReadRight, TypeOK,
              cmdVars, LoopStage, Deciding
<1>5. CASE Send \/ SendUntaken \/ OtherError \/ PortError
  <2>1. open' \in BOOLEAN /\ outage' \in BOOLEAN
    BY <1>5, Zenon DEF Send, SendUntaken, OtherError, PortError, TypeOK
  <2>2. loop' \in LoopStage /\ frame' \in Int \X Int
    BY <1>5 DEF Send, SendUntaken, OtherError, PortError, TypeOK, LoopStage
  <2> QED
    BY <1>5, <2>1, <2>2 DEF Send, SendUntaken, OtherError, PortError, TypeOK, cmdVars
<1>6. CASE GoodRead \/ BadRead
  BY <1>6 DEF GoodRead, BadRead, TypeOK, cmdVars, LoopStage
<1>11. CASE LastBadRead
  <2>1. open' \in BOOLEAN /\ outage' \in BOOLEAN
    BY <1>11, Zenon DEF LastBadRead
  <2>2. bad' \in 0..BadLimit /\ loop' \in LoopStage
    BY <1>11 DEF LastBadRead, TypeOK, LoopStage
  <2> QED
    BY <1>11, <2>1, <2>2 DEF LastBadRead, TypeOK, cmdVars
<1>7. CASE Interrupt \/ StopFrame \/ ClosePort
  <2>1. open' \in BOOLEAN
    BY <1>7, Zenon DEF Interrupt, StopFrame, ClosePort, TypeOK
  <2>2. frame' \in Int \X Int
    BY <1>7 DEF Interrupt, StopFrame, ClosePort, TypeOK, Stop
  <2> QED
    BY <1>7, <2>1, <2>2
       DEF Interrupt, StopFrame, ClosePort, TypeOK, cmdVars, loopVars
<1>8. CASE Tick
  BY <1>8 DEF Tick, TypeOK
<1>12. ASSUME NEW k \in 1..MaxSkew, ClockSetBack(k) PROVE TypeOK'
  <2>1. age' \in -skew'..SilenceCap /\ skew' \in 0..MaxSkew
    BY <1>12 DEF ClockSetBack, TypeOK
  <2> QED
    BY <1>12, <2>1 DEF ClockSetBack, TypeOK, loopVars
<1>9. CASE UNCHANGED vars
  BY <1>9 DEF vars, cmdVars, loopVars, TypeOK
<1> QED
  BY <1>1, <1>2, <1>3, <1>4, <1>5, <1>6, <1>7, <1>8, <1>9, <1>10, <1>11,
     <1>12 DEF Next, LoopStep

\* Every variable keeps its type.
THEOREM TypeCorrect == Spec => []TypeOK
BY TypeInit, TypeNext, PTL DEF Spec

-----------------------------------------------------------------------------
(* The deadman *)

LEMMA DeadmanInit == Init => DeadmanInv
<1> SUFFICES ASSUME Init PROVE DeadmanInv
  OBVIOUS
<1>1. ~outage => open
  BY Zenon DEF Init
<1> QED
  BY <1>1 DEF Init, DeadmanInv

LEMMA DeadmanNext == TypeOK /\ DeadmanInv /\ [Next]_vars => DeadmanInv'
<1> SUFFICES ASSUME TypeOK, DeadmanInv, [Next]_vars PROVE DeadmanInv'
  OBVIOUS
<1> USE CapTypes DEF Recent, Trusted
<1>1. ASSUME NEW m \in Commands, StoreLeft(m) PROVE DeadmanInv'
  BY <1>1 DEF StoreLeft, loopVars, TypeOK, DeadmanInv
<1>2. CASE StoreRight
  BY <1>2 DEF StoreRight, loopVars, TypeOK, DeadmanInv
<1>3. CASE StampCommand
  BY <1>3 DEF StampCommand, loopVars, TypeOK, DeadmanInv
<1>4. CASE LoopTop \/ OpenPort
  BY <1>4 DEF LoopTop, OpenPort, cmdVars, TypeOK, DeadmanInv, Deciding
<1>5. CASE CheckDeadman
  BY <1>5 DEF CheckDeadman, cmdVars, TypeOK, DeadmanInv, Deciding
<1>6. CASE ZeroLeft
  BY <1>6 DEF ZeroLeft, TypeOK, DeadmanInv, Deciding
<1>7. CASE ZeroRight
  BY <1>7 DEF ZeroRight, TypeOK, DeadmanInv, Deciding
<1>8. CASE ReadLeft \/ ReadRight
  BY <1>8 DEF ReadLeft, ReadRight, cmdVars, TypeOK, DeadmanInv, Deciding
<1>9. CASE Send
  BY <1>9 DEF Send, cmdVars, TypeOK, DeadmanInv, Deciding, Stop
<1>10. CASE SendUntaken \/ OtherError \/ PortError
  BY <1>10 DEF SendUntaken, OtherError, PortError, cmdVars, TypeOK, DeadmanInv, Deciding
<1>11. CASE GoodRead \/ BadRead \/ LastBadRead
  BY <1>11 DEF GoodRead, BadRead, LastBadRead, cmdVars, TypeOK, DeadmanInv,
               Deciding
<1>12. CASE Interrupt \/ StopFrame \/ ClosePort
  BY <1>12 DEF Interrupt, StopFrame, ClosePort, cmdVars, loopVars, TypeOK,
               DeadmanInv
<1>13. CASE Tick
  BY <1>13 DEF Tick, SilenceCap, TypeOK, DeadmanInv, Deciding
<1>15. ASSUME NEW k \in 1..MaxSkew, ClockSetBack(k) PROVE DeadmanInv'
  BY <1>15 DEF ClockSetBack, loopVars, TypeOK, DeadmanInv
<1>14. CASE UNCHANGED vars
  BY <1>14 DEF vars, cmdVars, loopVars, DeadmanInv
<1> QED
  BY <1>1, <1>2, <1>3, <1>4, <1>5, <1>6, <1>7, <1>8, <1>9, <1>10, <1>11, <1>12,
     <1>13, <1>14, <1>15 DEF Next, LoopStep

\* The inductive invariant behind the base's deadman.
THEOREM DeadmanInvariant == Spec => []DeadmanInv
BY DeadmanInit, DeadmanNext, TypeCorrect, PTL DEF Spec

\* Port failures or not, the chassis does not keep moving on an old message.
THEOREM DeadmanHolds == Spec => []DeadmanBound
<1>1. TypeOK /\ DeadmanInv => DeadmanBound
  BY CapTypes DEF TypeOK, DeadmanInv, DeadmanBound, Trusted, Recent
<1> QED
  BY <1>1, DeadmanInvariant, TypeCorrect, PTL

\* No speed older than the deadman is ever written, whatever fails and however the
\* clock is set back.
THEOREM NothingReplayed == Spec => NoReplay
<1> DEFINE A == loop = "send" /\ loop' = "sensors" /\ <<argL, argR>> # Stop
                  => silence <= CmdTimeout + LoopSlack + skew
<1>1. TypeOK /\ DeadmanInv /\ [Next]_vars => [A]_vars
  <2> SUFFICES ASSUME TypeOK, DeadmanInv, [Next]_vars,
                      loop = "send", loop' = "sensors", <<argL, argR>> # Stop
               PROVE  silence <= CmdTimeout + LoopSlack + skew
    OBVIOUS
  <2>1. Send \/ SendUntaken
    BY DEF Next, LoopStep, StoreLeft, StoreRight, StampCommand, LoopTop, OpenPort,
           CheckDeadman, ZeroLeft, ZeroRight, ReadLeft, ReadRight, OtherError,
           PortError, GoodRead, BadRead, LastBadRead, Interrupt, StopFrame,
           ClosePort, Tick, ClockSetBack, vars, loopVars
  <2>2. (argL # 0 \/ argR # 0) /\ open
    BY <2>1 DEF Send, SendUntaken, Stop
  <2> QED
    BY <2>2, CapTypes DEF DeadmanInv, Recent, TypeOK
<1> QED
  BY <1>1, DeadmanInvariant, TypeCorrect, PTL DEF Spec, NoReplay

-----------------------------------------------------------------------------
(* A stop is stored on both wheels *)

LEMMA StoredNext == TypeOK /\ StoredInv /\ [Next]_vars => StoredInv'
<1> SUFFICES ASSUME TypeOK, StoredInv, [Next]_vars PROVE StoredInv'
  OBVIOUS
<1> USE DEF StopIsStored, Stop
<1>1. ASSUME NEW m \in Commands, StoreLeft(m) PROVE StoredInv'
  BY <1>1 DEF StoreLeft, TypeOK, StoredInv
<1>2. CASE StoreRight
  BY <1>2 DEF StoreRight, TypeOK, StoredInv
<1>3. CASE StampCommand
  BY <1>3 DEF StampCommand, TypeOK, StoredInv
<1>4. CASE ZeroLeft \/ ZeroRight
  BY <1>4 DEF ZeroLeft, ZeroRight, TypeOK, StoredInv
<1>5. CASE UNCHANGED <<speedL, speedR, cb, msg, last>>
  BY <1>5 DEF StoredInv
<1> QED
  BY <1>1, <1>2, <1>3, <1>4, <1>5
     DEF Next, LoopStep, LoopTop, OpenPort, CheckDeadman, ReadLeft, ReadRight,
         Send, SendUntaken, OtherError, PortError, GoodRead, BadRead, LastBadRead,
         Interrupt, StopFrame, ClosePort, Tick, ClockSetBack, vars, cmdVars

\* A stop message that was stored completely leaves both speeds at zero,
\* whatever the deadman was doing meanwhile and whatever fails.
THEOREM StopsAreStored == Spec => []StopIsStored
<1>1. Init => StoredInv
  BY DEF Init, StoredInv, StopIsStored, Stop
<1>2. StoredInv => StopIsStored
  BY DEF StoredInv
<1> QED
  BY <1>1, <1>2, StoredNext, TypeCorrect, PTL DEF Spec

-----------------------------------------------------------------------------
(* Commands arrive *)

\* What a pass of the loop takes and sends is of the last message if the pass began
\* after it was stored; what the chassis has is, if the pass before did.  Each wheel
\* may have been zeroed instead.
Good(l, r) == l \in {0, last[1]} /\ r \in {0, last[2]}
ArriveInv ==
  /\ cb = "left" => speedL \in {0, msg[1]}
  /\ cb = "right" => speedL \in {0, msg[1]} /\ speedR \in {0, msg[2]}
  /\ cb = "idle" => Good(speedL, speedR)
  /\ cb = "idle" /\ main = "spin" /\ open /\ silence > loopAge =>
       /\ loop \in {"argR", "send"} => argL \in {0, last[1]}
       /\ loop = "send" => argR \in {0, last[2]}
  /\ cb = "idle" /\ Trusted =>
       /\ silence > loopAge /\ loop \notin Deciding => Good(frame[1], frame[2])
       /\ silence > loopAge + LoopSlack => Good(frame[1], frame[2])

LEMMA ArriveInit == Init => ArriveInv
BY CapTypes DEF Init, ArriveInv, Good, Stop

LEMMA ArriveNext == TypeOK /\ DeadmanInv /\ ArriveInv /\ [Next]_vars => ArriveInv'
<1> SUFFICES ASSUME TypeOK, DeadmanInv, ArriveInv, [Next]_vars PROVE ArriveInv'
  OBVIOUS
<1> USE CapTypes DEF Good, Trusted, cmdVars, loopVars
<1>1. ASSUME NEW m \in Commands, StoreLeft(m) PROVE ArriveInv'
  BY <1>1 DEF StoreLeft, TypeOK, ArriveInv
<1>2. CASE StoreRight
  BY <1>2 DEF StoreRight, TypeOK, ArriveInv
<1>3. CASE StampCommand
  BY <1>3 DEF StampCommand, TypeOK, DeadmanInv, ArriveInv
<1>4. CASE LoopTop
  BY <1>4 DEF LoopTop, TypeOK, ArriveInv, Deciding
<1>5. CASE OpenPort
  BY <1>5 DEF OpenPort, TypeOK, DeadmanInv, ArriveInv, Deciding
<1>6. CASE CheckDeadman
  BY <1>6 DEF CheckDeadman, TypeOK, ArriveInv, Deciding
<1>7. CASE ZeroLeft \/ ZeroRight
  BY <1>7 DEF ZeroLeft, ZeroRight, TypeOK, ArriveInv, Deciding
<1>8. CASE ReadLeft \/ ReadRight
  BY <1>8 DEF ReadLeft, ReadRight, TypeOK, ArriveInv, Deciding
<1>9. CASE Send
  BY <1>9 DEF Send, TypeOK, ArriveInv, Deciding
<1>10. CASE SendUntaken \/ OtherError \/ PortError \/ LastBadRead
  BY <1>10 DEF SendUntaken, OtherError, PortError, LastBadRead, TypeOK, ArriveInv, Deciding
<1>11. CASE GoodRead \/ BadRead
  BY <1>11 DEF GoodRead, BadRead, TypeOK, ArriveInv, Deciding
<1>12. CASE Interrupt \/ StopFrame \/ ClosePort
  BY <1>12 DEF Interrupt, StopFrame, ClosePort, TypeOK, ArriveInv
<1>13. CASE Tick
  BY <1>13 DEF Tick, SilenceCap, TypeOK, DeadmanInv, ArriveInv, Deciding
<1>14. ASSUME NEW k \in 1..MaxSkew, ClockSetBack(k) PROVE ArriveInv'
  BY <1>14 DEF ClockSetBack, TypeOK, ArriveInv
<1>15. CASE UNCHANGED vars
  BY <1>15 DEF vars, ArriveInv
<1> QED
  BY <1>1, <1>2, <1>3, <1>4, <1>5, <1>6, <1>7, <1>8, <1>9, <1>10, <1>11, <1>12,
     <1>13, <1>14, <1>15 DEF Next, LoopStep

\* A message in force for two passes of the loop has replaced every earlier one on
\* the wire, however the two threads and the deadman interleave and whatever failed
\* before.
THEOREM MessagesArrive == Spec => []CommandsArrive
<1>1. TypeOK /\ ArriveInv => CommandsArrive
  BY CapTypes DEF TypeOK, ArriveInv, CommandsArrive, Good
<1> QED
  BY <1>1, ArriveInit, ArriveNext, DeadmanInvariant, TypeCorrect, PTL DEF Spec

-----------------------------------------------------------------------------
(* The refinement of Deadman *)

\* A node that was not trusted comes to be so by a frame the chassis takes.
LEMMA TrustRegained == [Next]_vars /\ ~Trusted /\ Trusted' => Send
<1> SUFFICES ASSUME [Next]_vars, ~Trusted, Trusted'
             PROVE  Send
  OBVIOUS
<1>1. CASE UNCHANGED <<outage, main>>
  BY <1>1 DEF Trusted
<1>2. CASE OtherError
  BY <1>2, Zenon DEF OtherError, Trusted
<1>3. CASE outage' = TRUE \/ main' # "spin"
  BY <1>3 DEF Trusted
<1>4. \/ UNCHANGED <<outage, main>> \/ Send \/ OtherError
      \/ outage' = TRUE \/ main' # "spin"
  BY DEF Next, LoopStep, StoreLeft, StoreRight, StampCommand, LoopTop, OpenPort,
         CheckDeadman, ZeroLeft, ZeroRight, ReadLeft, ReadRight, SendUntaken, PortError,
         GoodRead, BadRead, LastBadRead, Interrupt, StopFrame, ClosePort, Tick,
         ClockSetBack, vars, cmdVars, loopVars
<1> QED
  BY <1>1, <1>2, <1>3, <1>4

\* The node is a deadman.
THEOREM IsDeadman == Spec => ImplementsDeadman
<1> USE CapTypes
<1> DEFINE moving == frame # Stop /\ Trusted
<1>1. Init => D!Init
  BY DEF Init, D!Init, SilenceCap
<1>2. TypeOK /\ DeadmanInv /\ [Next]_vars => [D!Next]_<<moving, silence>>
  <2> SUFFICES ASSUME TypeOK, DeadmanInv, [Next]_vars
               PROVE  D!Next \/ UNCHANGED <<moving, silence>>
    OBVIOUS
  <2>1. CASE Send
    <3>1. CASE ~moving'
      BY <2>1, <3>1 DEF Send, cmdVars, D!Next, D!Halt
    <3>2. CASE moving'
      <4>1. argL # 0 \/ argR # 0
        BY <2>1, <3>2 DEF Send, Stop
      <4>2. silence <= CmdTimeout + LoopSlack + MaxSkew
        BY <2>1, <4>1 DEF Send, DeadmanInv, Recent, TypeOK
      <4> QED
        BY <2>1, <3>2, <4>2 DEF Send, cmdVars, D!Next, D!Move
    <3> QED
      BY <3>1, <3>2
  <2>2. CASE Tick
    <3>1. moving => silence < CmdTimeout + 2 * LoopSlack + MaxSkew
      <4>1. moving => loopAge < LoopSlack
        BY <2>2 DEF Tick, DeadmanInv, Trusted
      <4> QED
        BY <4>1 DEF DeadmanInv, Trusted, Recent, TypeOK
    <3>2. silence' = IF silence > CmdTimeout + 2 * LoopSlack + MaxSkew THEN silence
                     ELSE silence + 1
      BY <2>2 DEF Tick, TypeOK, SilenceCap
    <3>3. UNCHANGED moving
      BY <2>2 DEF Tick, Trusted
    <3> QED
      BY <3>1, <3>2, <3>3 DEF D!Next, D!Elapse
  <2>3. CASE silence' = 0 /\ UNCHANGED <<frame, outage, main>>
    BY <2>3 DEF D!Next, D!Command, Trusted
  <2>4. CASE UNCHANGED silence /\ ~moving'
    BY <2>4 DEF D!Next, D!Halt
  <2>5. CASE UNCHANGED silence /\ moving' /\ ~Send
    <3>1. CASE moving
      BY <2>5, <3>1
    <3>2. CASE ~moving /\ ~Trusted
      BY <2>5, <3>2, TrustRegained
    <3>3. CASE frame = Stop
      BY <2>5, <3>3
         DEF Next, LoopStep, StoreLeft, StoreRight, StampCommand, LoopTop, OpenPort,
             CheckDeadman, ZeroLeft, ZeroRight, ReadLeft, ReadRight, SendUntaken,
             OtherError, PortError, GoodRead, BadRead, LastBadRead, Interrupt,
             StopFrame, ClosePort, Tick, ClockSetBack, vars
    <3> QED
      BY <3>1, <3>2, <3>3
  <2>6. \/ UNCHANGED silence \/ Tick
        \/ silence' = 0 /\ UNCHANGED <<frame, outage, main>>
    BY DEF Next, LoopStep, StoreLeft, StoreRight, StampCommand, LoopTop, OpenPort,
           CheckDeadman, ZeroLeft, ZeroRight, ReadLeft, ReadRight, Send, SendUntaken,
           OtherError, PortError, GoodRead, BadRead, LastBadRead, Interrupt, StopFrame,
           ClosePort, ClockSetBack, vars, cmdVars
  <2> QED
    BY <2>1, <2>2, <2>3, <2>4, <2>5, <2>6
<1> QED
  BY <1>1, <1>2, DeadmanInvariant, TypeCorrect, PTL
     DEF Spec, ImplementsDeadman, D!Spec
=============================================================================
