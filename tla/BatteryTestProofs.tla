--------------------------- MODULE BatteryTestProofs ---------------------------
(***************************************************************************)
(* Theorems about BatteryTest, for any workers, actuator cycles and clients  *)
(* that start and stop the test.                                             *)
(***************************************************************************)
EXTENDS BatteryTest, TLAPS

Ending == {"finally", "clear", "last"}

-----------------------------------------------------------------------------
(* The inductive invariants *)

\* Only the worker started last can be alive, and not even that one once a client
\* has waited for it.  Workers that clients wait for have been born.
Sequential ==
  /\ \A w \in Workers : wpc[w] = Unborn => thread # w /\ \A c \in Clients : prev[c] # w
  /\ Without({"expire", "overtaken"}) =>
       /\ \A w \in Workers : Alive(w) => w = thread
       /\ \A c \in Clients : cpc[c] = "start" /\ prev[c] = thread =>
            \A w \in Workers : ~Alive(w)

\* An actuator that is not at home is the one the worker waits for, unless the run
\* is ending, and it has left home when the worker has seen it do so.
Planting ==
  Without({"plc", "expire", "busy", "overtaken"}) =>
    /\ \A i \in Implements, w \in Workers : machine[i] # "home" /\ Alive(w) =>
         wpc[w] \in Ending \/ (wpc[w] = "poll" /\ implement[w] = i)
    /\ \A w \in Workers : wpc[w] = "poll" /\ leftHome[w] =>
         machine[implement[w]] # "requested"

\* From the report that the AMR is parked to the next leg only the movement-state
\* thread may say otherwise, and it then has another word to say.
Parked ==
  Without({"plc", "expire", "overtaken"}) /\ known = "still" /\ ~report =>
    \A w \in Workers : wpc[w] \in {"settle", "pulse", "poll", "planted"} => ~amr

-----------------------------------------------------------------------------
(* Type correctness *)

LEMMA Names ==
  /\ "none" \notin Workers /\ "stop" \notin Workers /\ "operator" \notin Workers
  /\ Starters \subseteq Clients /\ MaxLegs \in Nat
BY BatteryTestAssumption

LEMMA HappensType == ASSUME TypeOK, NEW h \in Mishap \cup {"offline", "slow"}, Happens(h)
                     PROVE  mishaps' \subseteq Mishap
<1>1. CASE h \in {"offline", "slow"}
  BY <1>1 DEF Happens, TypeOK, Mishap
<1>2. CASE h \in Mishap
  BY <1>2 DEF Happens, TypeOK, Mishap
<1> QED
  BY <1>1, <1>2

\* TypeOK alone is not inductive: that a pair is counted with its second leg keeps
\* the pairs within their bound.
Typed == TypeOK /\ cycles = backward

LEMMA TypedInit == Init => Typed
<1> SUFFICES ASSUME Init PROVE Typed
  OBVIOUS
<1>1. wpc \in [Workers -> Stage] /\ leg \in [Workers -> {"forward", "backward"}]
  BY DEF Init, Stage, Unborn
<1>2. implement \in [Workers -> Implements] /\ leftHome \in [Workers -> BOOLEAN]
  BY DEF Init, Implements
<1>3. outcome \in [Workers -> {"none", "done", "aborted", "error", "incomplete"}]
  BY DEF Init
<1>4. /\ cpc \in [Clients -> {"idle", "join", "start", "halt", "clear"}]
      /\ prev \in [Clients -> Workers \cup {"none"}]
  BY DEF Init
<1>5. machine \in [Implements -> {"home", "requested", "down"}]
  BY DEF Init
<1>6. /\ mishaps \subseteq Mishap /\ vel \in Workers \cup {"stop", "operator"}
      /\ running \in BOOLEAN /\ cancel \in BOOLEAN /\ thread \in Workers \cup {"none"}
  BY DEF Init
<1>7. /\ forward \in 0..MaxLegs /\ backward \in 0..MaxLegs /\ cycles \in 0..MaxLegs
      /\ cycles = backward
  BY Names DEF Init
<1>8. amr \in BOOLEAN /\ known \in {"none", "moving", "still"} /\ report \in BOOLEAN
  BY DEF Init
<1> QED
  BY <1>1, <1>2, <1>3, <1>4, <1>5, <1>6, <1>7, <1>8 DEF Typed, TypeOK

LEMMA TypedNext == Typed /\ [Next]_vars => Typed'
<1> SUFFICES ASSUME Typed, [Next]_vars PROVE Typed'
  OBVIOUS
<1> USE Names DEF flags, counts, worker, calls, client, plc, state, AsPlanned, Goto, Typed
<1>1. ASSUME NEW c \in Clients, Call(c) PROVE Typed'
  <2>1. CASE Start(c)
    BY <2>1 DEF Start, TypeOK
  <2>2. CASE Join(c)
    <3>1. mishaps' \subseteq Mishap
      BY <2>2, HappensType DEF Join, TypeOK, Mishap
    <3> QED
      BY <2>2, <3>1 DEF Join, TypeOK
  <2>3. CASE Launch(c)
    <3>1. CASE running /\ UNCHANGED <<mishaps, flags, counts, worker>>
      BY <2>3, <3>1 DEF Launch, TypeOK
    <3>2. CASE ~running
      <4>1. PICK w \in Workers : thread' = w /\ wpc' = [wpc EXCEPT ![w] = "while"]
        BY <2>3, <3>2 DEF Launch
      <4>2. mishaps' \subseteq mishaps \cup {"busy", "overtaken"}
        BY <2>3, <3>2 DEF Launch
      <4>3. mishaps' \subseteq Mishap
        BY <4>2 DEF TypeOK, Mishap
      <4>4. wpc' \in [Workers -> Stage] /\ cpc' \in [Clients -> {"idle", "join", "start", "halt", "clear"}]
        BY <2>3, <4>1 DEF Launch, TypeOK, Stage
      <4>5. /\ running' = TRUE /\ cancel' = FALSE
            /\ forward' = 0 /\ backward' = 0 /\ cycles' = 0
            /\ prev' = [prev EXCEPT ![c] = "none"]
            /\ UNCHANGED <<leg, implement, leftHome, outcome, vel, plc, state>>
        BY <2>3, <3>2 DEF Launch
      <4>6. /\ running' \in BOOLEAN /\ cancel' \in BOOLEAN /\ thread' \in Workers \cup {"none"}
        BY <4>1, <4>5
      <4>7. 0 \in 0..MaxLegs
        BY Names
      <4>8. /\ forward' \in 0..MaxLegs /\ backward' \in 0..MaxLegs
             /\ cycles' \in 0..MaxLegs /\ cycles' = backward'
        BY <4>5, <4>7
      <4>9. UNCHANGED <<leg, implement, leftHome, outcome, vel, machine, amr, known, report>>
        BY <4>5
      <4>10. /\ leg' \in [Workers -> {"forward", "backward"}]
            /\ implement' \in [Workers -> Implements] /\ leftHome' \in [Workers -> BOOLEAN]
            /\ outcome' \in [Workers -> {"none", "done", "aborted", "error", "incomplete"}]
            /\ prev' \in [Clients -> Workers \cup {"none"}]
        BY <4>5, <4>9 DEF TypeOK
      <4>11. /\ vel' \in Workers \cup {"stop", "operator"}
            /\ machine' \in [Implements -> {"home", "requested", "down"}] /\ amr' \in BOOLEAN
            /\ known' \in {"none", "moving", "still"} /\ report' \in BOOLEAN
        BY <4>9 DEF TypeOK
      <4> QED
        BY <4>3, <4>4, <4>6, <4>8, <4>10, <4>11 DEF TypeOK
    <3> QED
      BY <2>3, <3>1, <3>2 DEF Launch
  <2>4. CASE StopFlags(c)
    BY <2>4 DEF StopFlags, TypeOK
  <2>5. CASE StopVelocity(c)
    BY <2>5 DEF StopVelocity, TypeOK
  <2>6. CASE StopPlc(c)
    BY <2>6 DEF StopPlc, TypeOK
  <2> QED
    BY <1>1, <2>1, <2>2, <2>3, <2>4, <2>5, <2>6 DEF Call
<1>2. ASSUME NEW w \in Workers, Work(w) PROVE Typed'
  <2> USE DEF Stage, Implements, Locals
  <2>1. CASE While(w) \/ Check(w) \/ Settle(w) \/ Finally(w) \/ Clear(w)
    BY <2>1 DEF While, Check, Settle, Finally, Clear, Proceed, TypeOK
  <2>2. CASE Leg(w)
    <3>1. mishaps' \subseteq Mishap
      BY <2>2, HappensType DEF Leg, TypeOK
    <3> QED
      BY <2>2, <3>1 DEF Leg, TypeOK
  <2>3. CASE DriveBegin(w) \/ DriveArm(w) \/ DriveStop(w)
    BY <2>3 DEF DriveBegin, DriveArm, DriveStop, TypeOK
  <2>4. CASE DriveEnd(w)
    <3>1. mishaps' \subseteq Mishap
      BY <2>4, HappensType DEF DriveEnd, TypeOK, Mishap
    <3> QED
      BY <2>4, <3>1 DEF DriveEnd, TypeOK
  <2>5. CASE AfterLeg(w)
    <3>1. /\ forward' \in 0..MaxLegs /\ backward' \in 0..MaxLegs
          /\ cycles' = backward'
      BY <2>5 DEF AfterLeg, Count, TypeOK
    <3> QED
      BY <2>5, <3>1 DEF AfterLeg, TypeOK
  <2>6. CASE Park(w) \/ Pulse(w) \/ Poll(w)
    <3>1. mishaps' \subseteq Mishap
      BY <2>6, HappensType DEF Park, Pulse, Poll, TypeOK
    <3>2. CASE Park(w)
      BY <3>1, <3>2 DEF Park, TypeOK
    <3>3. CASE Pulse(w)
      <4>1. machine' \in [Implements -> {"home", "requested", "down"}]
        BY <3>3 DEF Pulse, TypeOK
      <4> QED
        BY <3>1, <3>3, <4>1 DEF Pulse, TypeOK
    <3>4. CASE Poll(w)
      BY <3>1, <3>4, ZenonT(30) DEF Poll, TypeOK
    <3> QED
      BY <2>6, <3>2, <3>3, <3>4
  <2>7. CASE Planted(w)
    BY <2>7 DEF Planted, Proceed, TypeOK
  <2>8. CASE Last(w)
    BY <2>8 DEF Last, Dead, TypeOK
  <2> QED
    BY <1>2, <2>1, <2>2, <2>3, <2>4, <2>5, <2>6, <2>7, <2>8 DEF Work
<1>3. CASE Sample
  BY <1>3 DEF Sample, Moving, TypeOK
<1>4. CASE WriteState
  <2>1. mishaps' \subseteq Mishap
    BY <1>4, HappensType DEF WriteState, TypeOK
  <2> QED
    BY <1>4, <2>1 DEF WriteState, TypeOK
<1>5. CASE Operator
  BY <1>5 DEF Operator, TypeOK
<1>6. ASSUME NEW i \in Implements, MachineLeaves(i) \/ MachineReturns(i) \/ Manual(i)
      PROVE  Typed'
  BY <1>6 DEF MachineLeaves, MachineReturns, Manual, Mishap, TypeOK
<1>7. CASE UNCHANGED vars
  BY <1>7 DEF vars, TypeOK
<1> QED
  BY <1>1, <1>2, <1>3, <1>4, <1>5, <1>6, <1>7 DEF Next

\* Every variable keeps its type, the counters their bound.
THEOREM TypeCorrect == Spec => []TypeOK
<1> QED
  BY TypedInit, TypedNext, PTL DEF Spec, Typed

-----------------------------------------------------------------------------
(* What the steps have in common *)

\* What has gone wrong is not forgotten.
LEMMA Remembered == [Next]_vars => mishaps \subseteq mishaps'
<1> SUFFICES ASSUME [Next]_vars PROVE mishaps \subseteq mishaps'
  OBVIOUS
<1> USE DEF client, calls, Happens, AsPlanned
<1>1. ASSUME NEW c \in Clients, Call(c) PROVE mishaps \subseteq mishaps'
  BY <1>1 DEF Call, Start, Join, Launch, StopFlags, StopVelocity, StopPlc
<1>2. ASSUME NEW w \in Workers, Work(w) PROVE mishaps \subseteq mishaps'
  BY <1>2 DEF Work, While, Leg, DriveBegin, DriveArm, DriveEnd, DriveStop, AfterLeg, Check,
              Park, Settle, Pulse, Poll, Planted, Finally, Clear, Last
<1>3. CASE Sample \/ WriteState \/ Operator
  BY <1>3 DEF Sample, WriteState, Operator
<1>4. ASSUME NEW i \in Implements, MachineLeaves(i) \/ MachineReturns(i) \/ Manual(i)
      PROVE  mishaps \subseteq mishaps'
  BY <1>4 DEF MachineLeaves, MachineReturns, Manual
<1>5. CASE UNCHANGED vars
  BY <1>5 DEF vars
<1> QED
  BY <1>1, <1>2, <1>3, <1>4, <1>5 DEF Next

COROLLARY StillWithout ==
  ASSUME NEW hs, [Next]_vars, Without(hs)' PROVE Without(hs)
BY Remembered DEF Without

\* A step of a worker leaves the clients and the other workers alone; a run that
\* ends goes on ending.
LEMMA WorkFrame ==
  ASSUME TypeOK, NEW w \in Workers, Work(w)
  PROVE  /\ Alive(w) /\ wpc'[w] # Unborn
         /\ wpc[w] \in Ending => wpc'[w] \in Ending \cup {Dead}
         /\ \A v \in Workers : v # w => wpc'[v] = wpc[v]
         /\ UNCHANGED <<cpc, prev, thread, cancel, known, report>>
         /\ running' = running \/ (running' = FALSE /\ wpc'[w] = Dead)
<1> USE DEF Goto, flags, state, client, calls, Alive, Unborn, Dead, Ending, TypeOK
<1>1. CASE While(w) \/ Check(w) \/ Settle(w) \/ Planted(w)
  BY <1>1 DEF While, Check, Settle, Planted, Proceed
<1>2. CASE Leg(w) \/ DriveBegin(w) \/ DriveArm(w) \/ DriveEnd(w) \/ DriveStop(w)
  BY <1>2 DEF Leg, DriveBegin, DriveArm, DriveEnd, DriveStop
<1>3. CASE AfterLeg(w) \/ Park(w) \/ Pulse(w) \/ Poll(w)
  BY <1>3 DEF AfterLeg, Park, Pulse, Poll
<1>4. CASE Finally(w) \/ Clear(w) \/ Last(w)
  BY <1>4 DEF Finally, Clear, Last
<1> QED
  BY <1>1, <1>2, <1>3, <1>4 DEF Work

\* The steps of the others leave workers and clients alone.
Outside == Sample \/ WriteState \/ Operator
             \/ \E i \in Implements : MachineLeaves(i) \/ MachineReturns(i) \/ Manual(i)

LEMMA OutsideFrame == Outside => UNCHANGED <<flags, worker, calls>>
BY DEF Outside, Sample, WriteState, Operator, MachineLeaves, MachineReturns, Manual, client

\* The run that is launched is that of a worker that was not yet born.
LEMMA LaunchFrame ==
  ASSUME TypeOK, NEW c \in Clients, Launch(c), ~running
  PROVE  \E w \in Workers :
           /\ wpc[w] = Unborn /\ thread' = w /\ wpc' = [wpc EXCEPT ![w] = "while"]
           /\ running' = TRUE /\ cancel' = FALSE
<1>1. PICK v \in Workers : wpc[v] = Unborn
  BY DEF Launch
<1> DEFINE w == CHOOSE u \in Workers : wpc[u] = Unborn
<1>2. w \in Workers /\ wpc[w] = Unborn
  BY <1>1
<1>3. thread' = w /\ wpc' = [wpc EXCEPT ![w] = "while"] /\ running' = TRUE /\ cancel' = FALSE
  BY DEF Launch, Goto
<1> QED
  BY <1>2, <1>3

-----------------------------------------------------------------------------
(* One worker *)

LEMMA SequentialInit == Init => Sequential
BY Names DEF Init, Sequential, Alive, Unborn, Dead

LEMMA SequentialNext ==
  ASSUME TypeOK, Sequential, [Next]_vars PROVE Sequential'
<1> USE DEF flags, worker, calls, client
<1>1. ASSUME NEW c \in Clients, Start(c) PROVE Sequential'
  BY <1>1, StillWithout DEF Start, Sequential, Alive, TypeOK
<1>2. ASSUME NEW c \in Clients, Join(c) PROVE Sequential'
  <2>1. ASSUME Without({"expire", "overtaken"})', prev[c] = thread
        PROVE  \A w \in Workers : ~Alive(w)
    <3>1. \A w \in Workers : Alive(w) => w = prev[c]
      BY <2>1, StillWithout DEF Sequential
    <3>2. ~Happens("expire")
      BY <2>1 DEF Happens, Without
    <3> QED
      BY <1>2, <3>1, <3>2, Names DEF Join
  <2> QED
    BY <1>2, <2>1, StillWithout DEF Join, Sequential, Alive, TypeOK
<1>3. ASSUME NEW c \in Clients, Launch(c) PROVE Sequential'
  <2>1. CASE running
    BY <1>3, <2>1, Names DEF Launch, Sequential, Alive, Without, TypeOK
  <2>2. CASE ~running
    <3>1. PICK w \in Workers :
            wpc[w] = Unborn /\ thread' = w /\ wpc' = [wpc EXCEPT ![w] = "while"]
      BY <1>3, <2>2, LaunchFrame
    <3>2. /\ cpc[c] = "start" /\ cpc' = [cpc EXCEPT ![c] = "idle"]
          /\ prev' = [prev EXCEPT ![c] = "none"]
      BY <1>3 DEF Launch
    <3>3. \A v \in Workers : wpc'[v] = Unborn => thread' # v /\ \A d \in Clients : prev'[d] # v
      BY <3>1, <3>2, Names DEF Sequential, Unborn, TypeOK
    <3>4. ASSUME Without({"expire", "overtaken"})', NEW v \in Workers, Alive(v)' PROVE v = w
      <4>1. prev[c] = thread
        BY <1>3, <2>2, <3>4 DEF Launch, Without
      <4> QED
        BY <3>1, <3>2, <3>4, <4>1, StillWithout DEF Sequential, Alive, TypeOK
    <3>5. \A d \in Clients : ~(cpc'[d] = "start" /\ prev'[d] = thread')
      BY <3>1, <3>2 DEF Sequential, TypeOK
    <3> QED
      BY <3>1, <3>3, <3>4, <3>5 DEF Sequential
  <2> QED
    BY <2>1, <2>2
<1>4. ASSUME NEW c \in Clients, StopFlags(c) \/ StopVelocity(c) \/ StopPlc(c)
      PROVE  Sequential'
  BY <1>4, StillWithout DEF StopFlags, StopVelocity, StopPlc, Sequential, Alive, TypeOK
<1>5. ASSUME NEW w \in Workers, Work(w) PROVE Sequential'
  <2>1. /\ Alive(w) /\ wpc'[w] # Unborn /\ UNCHANGED <<cpc, prev, thread>>
        /\ \A v \in Workers \ {w} : wpc'[v] = wpc[v]
    BY <1>5, WorkFrame
  <2>2. Without({"expire", "overtaken"})' => Without({"expire", "overtaken"})
    BY StillWithout
  <2> QED
    BY <2>1, <2>2 DEF Sequential, Alive
<1>6. CASE Outside \/ UNCHANGED vars
  BY <1>6, OutsideFrame, StillWithout DEF vars, Sequential, Alive
<1> QED
  BY <1>1, <1>2, <1>3, <1>4, <1>5, <1>6 DEF Next, Call, Outside

LEMMA StatusNext ==
  ASSUME TypeOK, Sequential, StatusIsTrue, [Next]_vars PROVE StatusIsTrue'
<1> USE DEF flags, worker, calls, client, StatusIsTrue, Ending
<1>1. ASSUME NEW c \in Clients, Start(c) \/ Join(c) \/ StopVelocity(c) \/ StopPlc(c)
      PROVE  StatusIsTrue'
  BY <1>1, StillWithout DEF Start, Join, StopVelocity, StopPlc, Alive
<1>2. ASSUME NEW c \in Clients, Launch(c) PROVE StatusIsTrue'
  BY <1>2, LaunchFrame, StillWithout DEF Launch, Alive
<1>3. ASSUME NEW c \in Clients, StopFlags(c) PROVE StatusIsTrue'
  BY <1>3 DEF StopFlags
<1>4. ASSUME NEW w \in Workers, Work(w) PROVE StatusIsTrue'
  <2> SUFFICES ASSUME ~running', Without({"expire", "overtaken"})', NEW v \in Workers, Alive(v)'
               PROVE  cancel' \/ wpc'[v] \in Ending
    OBVIOUS
  <2>1. Without({"expire", "overtaken"})
    BY StillWithout
  <2>2. v = w /\ ~running
    BY <1>4, <2>1, WorkFrame DEF Sequential, Alive
  <2>3. cancel \/ wpc[w] \in Ending
    BY <1>4, <2>1, <2>2, WorkFrame
  <2> QED
    BY <1>4, <2>2, <2>3, WorkFrame DEF Alive
<1>5. CASE Outside \/ UNCHANGED vars
  BY <1>5, OutsideFrame, StillWithout DEF vars, Alive
<1> QED
  BY <1>1, <1>2, <1>3, <1>4, <1>5 DEF Next, Call, Outside

\* At most one worker lives at a time, whatever starts and stops of any number of
\* clients interleave, as long as no join gives up and no start is overtaken.
THEOREM OneWorkerHolds == Spec => []OneWorker
<1>1. Typed /\ Sequential /\ [Next]_vars => Typed' /\ Sequential'
  BY TypedNext, SequentialNext DEF Typed
<1>2. Sequential => OneWorker
  BY DEF Sequential, OneWorker
<1> QED
  BY <1>1, <1>2, TypedInit, SequentialInit, PTL DEF Spec

\* While the status says that the test is not running, no worker is left that has
\* not been told to end.
THEOREM StatusHolds == Spec => []StatusIsTrue
<1>1. Init => StatusIsTrue
  BY DEF Init, StatusIsTrue, Alive
<1>2. Typed /\ Sequential /\ [Next]_vars => Typed' /\ Sequential'
  BY TypedNext, SequentialNext DEF Typed
<1>3. Typed /\ Sequential /\ StatusIsTrue /\ [Next]_vars => StatusIsTrue'
  BY StatusNext DEF Typed
<1> QED
  BY <1>1, <1>2, <1>3, TypedInit, SequentialInit, PTL DEF Spec

-----------------------------------------------------------------------------
(* No orphan motion *)

LEMMA OrphansInit == Init => NoOrphanMotion
BY Names DEF Init, NoOrphanMotion

LEMMA OrphansNext ==
  ASSUME TypeOK, NoOrphanMotion, [Next]_vars PROVE NoOrphanMotion'
<1> USE Names DEF flags, worker, calls, client, NoOrphanMotion
<1>1. ASSUME NEW c \in Clients, Call(c) PROVE NoOrphanMotion'
  <2>1. CASE Start(c) \/ Join(c) \/ StopFlags(c) \/ StopVelocity(c) \/ StopPlc(c)
    BY <2>1 DEF Start, Join, StopFlags, StopVelocity, StopPlc
  <2>2. CASE Launch(c)
    BY <2>2, LaunchFrame DEF Launch, Unborn, TypeOK
  <2> QED
    BY <1>1, <2>1, <2>2 DEF Call
<1>2. ASSUME NEW w \in Workers, Work(w) PROVE NoOrphanMotion'
  <2> USE DEF Goto, TypeOK
  <2>1. CASE DriveArm(w)
    BY <2>1 DEF DriveArm
  <2>2. CASE DriveEnd(w)
    BY <2>2 DEF DriveEnd
  <2>3. CASE DriveStop(w) \/ Finally(w)
    BY <2>3 DEF DriveStop, Finally
  <2>4. CASE \/ While(w) \/ Leg(w) \/ DriveBegin(w) \/ AfterLeg(w) \/ Check(w) \/ Park(w)
             \/ Settle(w) \/ Pulse(w) \/ Poll(w) \/ Planted(w) \/ Clear(w) \/ Last(w)
    <3>1. wpc[w] \notin {"drive", "end"} /\ vel' = vel
      BY <2>4 DEF While, Leg, DriveBegin, AfterLeg, Check, Park, Settle, Pulse, Poll, Planted,
                  Clear, Last
    <3> QED
      BY <1>2, <3>1, WorkFrame, ZenonT(30)
  <2> QED
    BY <1>2, <2>1, <2>2, <2>3, <2>4 DEF Work
<1>3. CASE Operator
  BY <1>3 DEF Operator
<1>4. CASE \/ Sample \/ WriteState \/ UNCHANGED vars
           \/ \E i \in Implements : MachineLeaves(i) \/ MachineReturns(i) \/ Manual(i)
  BY <1>4 DEF Sample, WriteState, MachineLeaves, MachineReturns, Manual, vars
<1> QED
  BY <1>1, <1>2, <1>3, <1>4 DEF Next

\* A velocity that a worker gave is in force only while that worker is in its
\* drive, however many clients start the test and however many workers live.
THEOREM NoOrphans == Spec => []NoOrphanMotion
<1>1. Typed /\ NoOrphanMotion /\ [Next]_vars => NoOrphanMotion'
  BY OrphansNext DEF Typed
<1> QED
  BY <1>1, TypedInit, TypedNext, OrphansInit, PTL DEF Spec

-----------------------------------------------------------------------------
(* Driving and planting *)

LEMMA PlantingInit == Init => Planting
BY DEF Init, Planting, Alive, Implements, Unborn

LEMMA PlantingNext ==
  ASSUME TypeOK, Sequential, Planting, [Next]_vars PROVE Planting'
<1> USE DEF flags, worker, calls, client, plc
<1> SUFFICES ASSUME Without({"plc", "expire", "busy", "overtaken"})'
             PROVE  /\ \A i \in Implements, w \in Workers :
                         machine'[i] # "home" /\ Alive(w)' =>
                           wpc'[w] \in Ending \/ (wpc'[w] = "poll" /\ implement'[w] = i)
                    /\ \A w \in Workers : wpc'[w] = "poll" /\ leftHome'[w] =>
                         machine'[implement'[w]] # "requested"
  BY DEF Planting
<1>1. Without({"plc", "expire", "busy", "overtaken"}) /\ Without({"expire", "overtaken"})
  BY StillWithout DEF Without
<1>2. /\ \A i \in Implements, w \in Workers : machine[i] # "home" /\ Alive(w) =>
           wpc[w] \in Ending \/ (wpc[w] = "poll" /\ implement[w] = i)
      /\ \A w \in Workers : wpc[w] = "poll" /\ leftHome[w] =>
           machine[implement[w]] # "requested"
  BY <1>1 DEF Planting
<1>3. ASSUME NEW c \in Clients, Call(c), ~(Launch(c) /\ ~running)
      PROVE  UNCHANGED <<worker, machine>>
  BY <1>3 DEF Call, Start, Join, Launch, StopFlags, StopVelocity, StopPlc
<1>4. ASSUME NEW c \in Clients, Launch(c), ~running PROVE Planting'
  <2>1. \A i \in Implements : machine'[i] = "home"
    BY <1>4 DEF Launch, Without
  <2>2. PICK w \in Workers : wpc[w] = Unborn /\ wpc' = [wpc EXCEPT ![w] = "while"]
    BY <1>4, LaunchFrame
  <2>3. UNCHANGED <<machine, implement, leftHome>>
    BY <1>4 DEF Launch
  <2> QED
    BY <1>2, <2>1, <2>2, <2>3 DEF Planting, TypeOK
<1>5. ASSUME NEW w \in Workers, Work(w) PROVE Planting'
  <2>1. /\ Alive(w) /\ \A v \in Workers \ {w} : ~Alive(v)
        /\ \A v \in Workers \ {w} : wpc'[v] = wpc[v]
    BY <1>1, <1>5, WorkFrame DEF Sequential
  <2>2. \A v \in Workers \ {w} : ~Alive(v)' /\ wpc'[v] # "poll"
    BY <2>1 DEF Alive, Unborn, Dead
  <2>3. wpc[w] \notin Ending /\ wpc[w] # "poll" => \A i \in Implements : machine[i] = "home"
    BY <1>2, <2>1
  <2>4. CASE Pulse(w)
    <3>1. /\ wpc' = [wpc EXCEPT ![w] = "poll"] /\ leftHome' = [leftHome EXCEPT ![w] = FALSE]
          /\ implement' = implement
          /\ machine' = [machine EXCEPT ![implement[w]] =
                           IF machine[implement[w]] = "home" THEN "requested" ELSE @]
      BY <2>4 DEF Pulse, Happens, Without, Goto
    <3>2. \A i \in Implements : machine[i] = "home"
      BY <2>3, <2>4 DEF Pulse, Ending
    <3>3. wpc'[w] = "poll" /\ ~leftHome'[w] /\ implement'[w] = implement[w]
      BY <3>1 DEF TypeOK
    <3>4. \A i \in Implements : machine'[i] # "home" => i = implement[w]
      BY <3>1, <3>2 DEF TypeOK
    <3> QED
      BY <2>2, <3>3, <3>4 DEF Planting
  <2>5. CASE Poll(w)
    <3>1. wpc[w] = "poll" /\ UNCHANGED <<machine, implement>>
      BY <2>5 DEF Poll
    <3>2. CASE Goto(w, "finally")
      BY <2>2, <3>1, <3>2 DEF Goto, Ending, Planting, TypeOK
    <3>3. CASE /\ ~ClearOfGround(implement[w])
               /\ leftHome' = [leftHome EXCEPT ![w] = TRUE] /\ UNCHANGED wpc
      BY <1>2, <2>1, <2>2, <3>1, <3>3 DEF ClearOfGround, Planting, Alive
    <3>4. CASE ClearOfGround(implement[w]) /\ leftHome[w] /\ Goto(w, "planted")
      <4>1. machine[implement[w]] = "home"
        BY <1>2, <3>1, <3>4 DEF ClearOfGround, TypeOK
      <4>2. \A i \in Implements : machine[i] = "home"
        BY <1>2, <2>1, <3>1, <4>1 DEF Ending
      <4> QED
        BY <2>2, <3>1, <3>4, <4>2 DEF Goto, Planting, TypeOK
    <3> QED
      BY <2>5, <3>2, <3>3, <3>4 DEF Poll, Happens, Without
  <2>6. CASE ~Pulse(w) /\ ~Poll(w)
    <3>1. machine' = machine /\ wpc[w] # "poll" /\ wpc'[w] # "poll"
      BY <1>5, <2>6 DEF Work, While, Leg, DriveBegin, DriveArm, DriveEnd, DriveStop, AfterLeg,
                        Check, Park, Settle, Planted, Finally, Clear, Last, Goto, Proceed,
                        Dead, TypeOK
    <3>2. wpc[w] \in Ending => wpc'[w] \in Ending \cup {Dead}
      BY <1>5, WorkFrame
    <3> QED
      BY <2>2, <2>3, <3>1, <3>2 DEF Planting, Alive
  <2> QED
    BY <2>4, <2>5, <2>6
<1>6. CASE Sample \/ WriteState \/ Operator \/ UNCHANGED vars
  BY <1>2, <1>6 DEF Sample, WriteState, Operator, vars, Alive
<1>7. ASSUME NEW i \in Implements, MachineLeaves(i) \/ MachineReturns(i)
      PROVE  UNCHANGED worker /\ machine[i] # "home"
             /\ machine' = [machine EXCEPT ![i] = machine'[i]]
             /\ machine'[i] # "requested"
  BY <1>7 DEF MachineLeaves, MachineReturns, TypeOK
<1>8. ASSUME NEW c \in Clients, Call(c) PROVE Planting'
  BY <1>2, <1>3, <1>4, <1>8 DEF Planting, Alive
<1>9. ASSUME NEW i \in Implements, MachineLeaves(i) \/ MachineReturns(i) PROVE Planting'
  BY <1>2, <1>7, <1>9 DEF Planting, Alive, TypeOK
<1>10. ASSUME NEW i \in Implements, Manual(i) PROVE FALSE
  BY <1>10 DEF Manual, Without
<1> QED
  BY <1>5, <1>6, <1>8, <1>9, <1>10 DEF Next, Planting

\* The test drives the robot only while no actuator is working, as long as each
\* run finds its actuators at home and they finish while the test waits for them.
THEOREM NoOverlapHolds == Spec => []NoOverlapAsPlanned
<1> DEFINE IInv == Typed /\ Sequential /\ NoOrphanMotion /\ Planting
<1>1. Init => IInv
  BY TypedInit, SequentialInit, OrphansInit, PlantingInit
<1>2. IInv /\ [Next]_vars => IInv'
  BY TypedNext, SequentialNext, OrphansNext, PlantingNext DEF Typed
<1>3. IInv => NoOverlapAsPlanned
  <2> SUFFICES ASSUME IInv, Without(Mishap \ {"incomplete"}), vel \in Workers,
                      NEW i \in Implements
               PROVE  machine[i] # "down"
    BY DEF NoOverlapAsPlanned, NoOverlap
  <2>1. Without({"plc", "expire", "busy", "overtaken"})
    BY DEF Without, Mishap
  <2>2. wpc[vel] \in {"drive", "end"}
    BY DEF NoOrphanMotion
  <2>3. Alive(vel) /\ wpc[vel] \notin Ending /\ wpc[vel] # "poll"
    BY <2>2 DEF Alive, Unborn, Dead, Ending
  <2> QED
    BY <2>1, <2>3 DEF Planting
<1> QED
  BY <1>1, <1>2, <1>3, PTL DEF Spec

-----------------------------------------------------------------------------
(* Parked while planting *)

LEMMA ParkedInit == Init => Parked
BY DEF Init, Parked

LEMMA ParkedNext ==
  ASSUME TypeOK, Sequential, Parked, [Next]_vars PROVE Parked'
<1> USE DEF flags, worker, calls, client, plc, state
<1> DEFINE Planter == {"settle", "pulse", "poll", "planted"}
<1> SUFFICES ASSUME Without({"plc", "expire", "overtaken"})', known' = "still", ~report',
                    NEW v \in Workers, wpc'[v] \in Planter
             PROVE  ~amr'
  BY DEF Parked
<1>1. Without({"plc", "expire", "overtaken"}) /\ Without({"expire", "overtaken"})
  BY StillWithout DEF Without
<1>2. ASSUME known = "still", ~report, wpc[v] \in Planter PROVE ~amr
  BY <1>1, <1>2 DEF Parked
<1>3. ASSUME NEW c \in Clients, Call(c) PROVE ~amr'
  <2>1. UNCHANGED <<amr, known, report>>
    BY <1>3 DEF Call, Start, Join, Launch, StopFlags, StopVelocity, StopPlc
  <2>2. CASE Launch(c) /\ ~running
    BY <1>2, <2>1, <2>2, LaunchFrame DEF TypeOK
  <2>3. CASE ~(Launch(c) /\ ~running)
    <3>1. UNCHANGED worker
      BY <1>3, <2>3 DEF Call, Start, Join, Launch, StopFlags, StopVelocity, StopPlc
    <3> QED
      BY <1>2, <2>1, <3>1
  <2> QED
    BY <2>2, <2>3
<1>4. ASSUME NEW w \in Workers, Work(w) PROVE ~amr'
  <2>1. v = w /\ UNCHANGED <<known, report>>
    BY <1>1, <1>4, WorkFrame DEF Sequential, Alive, Unborn, Dead
  <2>2. CASE Park(w)
    BY <2>2 DEF Park, Happens, Without
  <2>3. CASE ~Park(w)
    <3>1. wpc[w] \in Planter /\ amr' = amr
      BY <1>4, <2>1, <2>3
         DEF Work, While, Leg, DriveBegin, DriveArm, DriveEnd, DriveStop, AfterLeg, Check,
             Settle, Pulse, Poll, Planted, Finally, Clear, Last, Goto, Proceed, Dead, TypeOK
    <3> QED
      BY <1>2, <2>1, <3>1
  <2> QED
    BY <2>2, <2>3
<1>5. CASE Sample
  BY <1>5 DEF Sample
<1>6. CASE WriteState
  BY <1>6 DEF WriteState, Happens, Without
<1>7. CASE \/ Operator \/ UNCHANGED vars
           \/ \E i \in Implements : MachineLeaves(i) \/ MachineReturns(i) \/ Manual(i)
  BY <1>2, <1>7 DEF Operator, MachineLeaves, MachineReturns, Manual, vars
<1> QED
  BY <1>3, <1>4, <1>5, <1>6, <1>7 DEF Next

\* With the amr-state thread up to date, an actuator is started only while the PLC
\* is told that the AMR is stationary.
THEOREM ParkedHolds == Spec => ParkedWhilePlanting
<1> DEFINE IInv == Typed /\ Sequential /\ Parked
<1>1. Init => IInv
  BY TypedInit, SequentialInit, ParkedInit
<1>2. IInv /\ [Next]_vars => IInv'
  BY TypedNext, SequentialNext, ParkedNext DEF Typed
<1>3. IInv => \A w \in Workers : wpc[w] = "pulse" /\ wpc'[w] = "poll" /\ vel = "stop"
        /\ ~report /\ known = "still" /\ Without({"plc", "expire", "overtaken"}) => ~amr
  BY DEF Parked
<1> QED
  BY <1>1, <1>2, <1>3, PTL DEF Spec, ParkedWhilePlanting

=============================================================================
