------------------------------ MODULE BatteryTest ------------------------------
(***************************************************************************)
(* The battery drain test: HTTP threads that start and stop it, the worker  *)
(* thread that alternates two-metre drives with auger and planter cycles,   *)
(* and the thread that reports the movement state to the PLC.  A drive is   *)
(* reduced here to what the test sees of drive_distance, and a PLC request  *)
(* to its effect; VelocityControl and PlcClient have their detail.  The     *)
(* phase shown by the status and the counters of actuator cycles are left   *)
(* out.                                                                     *)
(***************************************************************************)
EXTENDS Naturals

CONSTANTS
  Workers,   \* worker threads, one per run of the test
  Clients,   \* HTTP threads that call stop
  Starters,  \* the clients that call start as well
  Allowed,   \* what may happen besides the plain cycle, see Happening
  MaxLegs    \* bound on the counters, for model checking only

\* "stop": stop is called; "operator": another velocity command is given;
\* "error": a drive is refused; "incomplete": a drive hits its deadline;
\* "offline": the PLC is unreachable; "slow": an actuator takes longer than the
\* test waits; "manual": an actuator is started by its button; "empty": the battery
\* reaches the cutoff; "expire": join(timeout=3) gives up.
Happening == {"stop", "operator", "error", "incomplete", "offline", "slow", "manual",
              "empty", "expire"}

ASSUME BatteryTestAssumption ==
  /\ Allowed \subseteq Happening /\ Starters \subseteq Clients
  /\ Workers \cap {"none", "stop", "operator"} = {}
  /\ MaxLegs \in Nat

VARIABLES
  running, cancel,  \* running, _cancel
  thread,           \* the worker last started, "none" at first
  forward, backward, cycles,  \* counters of completed legs and pairs
  wpc,              \* where each worker is
  leg,              \* the leg each worker is in: "forward" or "backward"
  implement,        \* the actuator it is running
  leftHome,         \* left_home of its _run_plant
  outcome,          \* what its drive returned
  cpc, prev,        \* where each client is, and the worker it joins
  mishaps,          \* history: what has gone wrong so far
  vel,              \* who gave the velocity in force, or "stop"
  machine,          \* each actuator: home, requested or down
  amr,              \* the movement state word of the PLC: is the AMR moving
  known, report     \* the amr-state thread: moving_prev, and the write it is at

flags  == <<running, cancel, thread>>
counts == <<forward, backward, cycles>>
worker == <<wpc, leg, implement, leftHome, outcome>>
calls  == <<cpc, prev>>
client == <<calls, mishaps>>
plc    == <<machine, amr>>
state  == <<known, report>>
vars == <<flags, counts, worker, client, vel, plc, state>>

Implements == {"auger", "planter"}
Unborn == "unborn"
Dead == "dead"
Stage == {Unborn, "while", "leg", "begin", "arm", "drive", "end", "after", "check", "park",
          "settle", "pulse", "poll", "planted", "finally", "clear", "last", Dead}

\* A PLC or actuator that fails, an actuator that works for nobody's run ("busy"), and
\* a start between whose looks another run was launched ("overtaken") are remembered:
\* some promises are made only without them.
Mishap == {"incomplete", "plc", "expire", "busy", "overtaken"}

TypeOK ==
  /\ running \in BOOLEAN /\ cancel \in BOOLEAN /\ thread \in Workers \cup {"none"}
  /\ forward \in 0..MaxLegs /\ backward \in 0..MaxLegs /\ cycles \in 0..MaxLegs
  /\ wpc \in [Workers -> Stage] /\ leg \in [Workers -> {"forward", "backward"}]
  /\ implement \in [Workers -> Implements] /\ leftHome \in [Workers -> BOOLEAN]
  /\ outcome \in [Workers -> {"none", "done", "aborted", "error", "incomplete"}]
  /\ cpc \in [Clients -> {"idle", "join", "start", "halt", "clear"}]
  /\ prev \in [Clients -> Workers \cup {"none"}]
  /\ mishaps \subseteq Mishap
  /\ vel \in Workers \cup {"stop", "operator"}
  /\ machine \in [Implements -> {"home", "requested", "down"}] /\ amr \in BOOLEAN
  /\ known \in {"none", "moving", "still"} /\ report \in BOOLEAN

Init ==
  /\ running = FALSE /\ cancel = FALSE /\ thread = "none"
  /\ forward = 0 /\ backward = 0 /\ cycles = 0
  /\ wpc = [w \in Workers |-> Unborn] /\ leg = [w \in Workers |-> "forward"]
  /\ implement = [w \in Workers |-> "auger"]
  /\ leftHome = [w \in Workers |-> FALSE] /\ outcome = [w \in Workers |-> "none"]
  /\ cpc = [c \in Clients |-> "idle"] /\ prev = [c \in Clients |-> "none"]
  /\ mishaps = {}
  /\ vel = "stop" /\ machine = [i \in Implements |-> "home"] /\ amr = FALSE
  /\ known = "none" /\ report = FALSE

Happens(h) ==
  /\ h \in Allowed
  /\ mishaps' = mishaps \cup {IF h \in {"offline", "slow"} THEN "plc" ELSE h}
AsPlanned == UNCHANGED mishaps

Alive(w) == wpc[w] \notin {Unborn, Dead}
Goto(w, stage) == wpc' = [wpc EXCEPT ![w] = stage]

-----------------------------------------------------------------------------
(* start, stop *)

\* First look: already running, or a last worker to join.
Start(c) ==
  /\ c \in Starters /\ cpc[c] = "idle" /\ ~running
  /\ cpc' = [cpc EXCEPT ![c] = "join"] /\ prev' = [prev EXCEPT ![c] = thread]
  /\ UNCHANGED <<mishaps, flags, counts, worker, vel, plc, state>>

\* Variant: the last worker is not joined.
JoinNot(c) ==
  /\ cpc[c] = "join" /\ cpc' = [cpc EXCEPT ![c] = "start"]
  /\ UNCHANGED <<prev, mishaps, flags, counts, worker, vel, plc, state>>

Join(c) ==
  /\ cpc[c] = "join"
  /\ \/ prev[c] = "none" /\ AsPlanned
     \/ prev[c] # "none" /\ ~Alive(prev[c]) /\ AsPlanned
     \/ prev[c] # "none" /\ Alive(prev[c]) /\ Happens("expire")
  /\ cpc' = [cpc EXCEPT ![c] = "start"]
  /\ UNCHANGED <<prev, flags, counts, worker, vel, plc, state>>

\* Second look, and a new run unless one is running: that the last worker may no
\* longer be the one that was joined is not looked at.
Launch(c) ==
  /\ cpc[c] = "start"
  /\ cpc' = [cpc EXCEPT ![c] = "idle"] /\ prev' = [prev EXCEPT ![c] = "none"]
  /\ \/ running /\ UNCHANGED <<mishaps, flags, counts, worker>>
     \/ /\ ~running
        /\ running' = TRUE /\ cancel' = FALSE
        /\ mishaps' = mishaps
             \cup {m \in {"busy"} : \E i \in Implements : machine[i] # "home"}
             \cup {m \in {"overtaken"} : prev[c] # thread}
        /\ forward' = 0 /\ backward' = 0 /\ cycles' = 0
        /\ \E w \in Workers : wpc[w] = Unborn
        /\ LET w == CHOOSE v \in Workers : wpc[v] = Unborn IN
             thread' = w /\ Goto(w, "while")
        /\ UNCHANGED <<leg, implement, leftHome, outcome>>
  /\ UNCHANGED <<vel, plc, state>>

\* Variant: the worker is not told to end.
StopStatusOnly(c) ==
  /\ "stop" \in Allowed /\ cpc[c] = "idle"
  /\ running' = FALSE
  /\ cpc' = [cpc EXCEPT ![c] = "halt"]
  /\ UNCHANGED <<cancel, thread, counts, worker, prev, mishaps, vel, plc, state>>

StopFlags(c) ==
  /\ "stop" \in Allowed /\ cpc[c] = "idle"
  /\ cancel' = TRUE /\ running' = FALSE
  /\ cpc' = [cpc EXCEPT ![c] = "halt"]
  /\ UNCHANGED <<thread, counts, worker, prev, mishaps, vel, plc, state>>

StopVelocity(c) ==
  /\ cpc[c] = "halt"
  /\ vel' = "stop" /\ cpc' = [cpc EXCEPT ![c] = "clear"]
  /\ UNCHANGED <<flags, counts, worker, prev, mishaps, plc, state>>

\* _clear_plc writes zero to words that pulses have left at zero.
StopPlc(c) ==
  /\ cpc[c] = "clear"
  /\ cpc' = [cpc EXCEPT ![c] = "idle"]
  /\ UNCHANGED <<flags, counts, worker, prev, mishaps, vel, plc, state>>

-----------------------------------------------------------------------------
(* _run *)

Locals == <<leg, implement, leftHome, outcome>>

\* One of the places where the run ends when it was cancelled or the battery is
\* empty, and goes on otherwise.
Proceed(w, stage) ==
  \/ ~cancel /\ Goto(w, stage)
  \/ (cancel \/ "empty" \in Allowed) /\ Goto(w, "finally")

While(w) ==
  /\ wpc[w] = "while" /\ Proceed(w, "leg")
  /\ leg' = [leg EXCEPT ![w] = "forward"]
  /\ UNCHANGED <<flags, counts, implement, leftHome, outcome, client, vel, plc, state>>

\* _leg: report the AMR moving, if the PLC can be reached.
Leg(w) ==
  /\ wpc[w] = "leg" /\ Goto(w, "begin")
  /\ \/ amr' = TRUE /\ AsPlanned
     \/ UNCHANGED amr /\ Happens("offline")
  /\ outcome' = [outcome EXCEPT ![w] = "none"]
  /\ UNCHANGED <<flags, counts, leg, implement, leftHome, calls, vel, machine, state>>

\* drive_distance: refused without an encoder, ...
DriveBegin(w) ==
  /\ wpc[w] = "begin"
  /\ \/ Goto(w, "arm") /\ UNCHANGED outcome
     \/ /\ "error" \in Allowed
        /\ Goto(w, "after") /\ outcome' = [outcome EXCEPT ![w] = "error"]
  /\ UNCHANGED <<flags, counts, leg, implement, leftHome, client, vel, plc, state>>

\* ... it sets the robot moving, ...
DriveArm(w) ==
  /\ wpc[w] = "arm"
  /\ vel' = w /\ Goto(w, "drive")
  /\ UNCHANGED <<flags, counts, leg, implement, leftHome, outcome, client, plc, state>>

\* ... until it is cancelled or overridden, or has come to its end, ...
DriveEnd(w) ==
  /\ wpc[w] = "drive" /\ Goto(w, "end")
  /\ \/ (cancel \/ vel # w) /\ outcome' = [outcome EXCEPT ![w] = "aborted"] /\ AsPlanned
     \/ outcome' = [outcome EXCEPT ![w] = "done"] /\ AsPlanned
     \/ outcome' = [outcome EXCEPT ![w] = "incomplete"] /\ Happens("incomplete")
  /\ UNCHANGED <<flags, counts, leg, implement, leftHome, calls, vel, plc, state>>

\* Variant: only a drive that is done stops the robot.
DriveStopIfDone(w) ==
  /\ wpc[w] = "end" /\ Goto(w, "after")
  /\ vel' = IF outcome[w] = "done" THEN "stop" ELSE vel
  /\ UNCHANGED <<flags, counts, leg, implement, leftHome, outcome, client, plc, state>>

\* ... and stops it.
DriveStop(w) ==
  /\ wpc[w] = "end" /\ vel' = "stop" /\ Goto(w, "after")
  /\ UNCHANGED <<flags, counts, leg, implement, leftHome, outcome, client, plc, state>>

\* The leg counts if it is done; a failed one ends the run.
Count(w) ==
  \/ outcome[w] # "done" /\ UNCHANGED counts
  \/ /\ outcome[w] = "done" /\ leg[w] = "forward" /\ forward < MaxLegs
     /\ forward' = forward + 1 /\ UNCHANGED <<backward, cycles>>
  \/ /\ outcome[w] = "done" /\ leg[w] = "backward" /\ backward < MaxLegs
     /\ backward' = backward + 1 /\ cycles' = cycles + 1 /\ UNCHANGED forward

AfterLeg(w) ==
  /\ wpc[w] = "after"
  /\ \/ /\ cancel \/ outcome[w] \in {"error", "aborted"}
        /\ Goto(w, "finally") /\ UNCHANGED counts
     \/ /\ ~cancel /\ outcome[w] \in {"done", "incomplete"}
        /\ Count(w) /\ Goto(w, "check")
  /\ UNCHANGED <<flags, leg, implement, leftHome, outcome, client, vel, plc, state>>

Check(w) ==
  /\ wpc[w] = "check" /\ Proceed(w, "park")
  /\ UNCHANGED Locals
  /\ UNCHANGED <<flags, counts, client, vel, plc, state>>

\* Variant: the AMR is not reported parked.
ParkSilently(w) ==
  /\ wpc[w] = "park" /\ Goto(w, "settle")
  /\ implement' = [implement EXCEPT ![w] = "auger"]
  /\ UNCHANGED <<flags, counts, leg, leftHome, outcome, client, vel, plc, state>>

\* _plant_all: report the AMR parked, if the PLC can be reached, ...
Park(w) ==
  /\ wpc[w] = "park" /\ Goto(w, "settle")
  /\ \/ amr' = FALSE /\ AsPlanned
     \/ UNCHANGED amr /\ Happens("offline")
  /\ implement' = [implement EXCEPT ![w] = "auger"]
  /\ UNCHANGED <<flags, counts, leg, leftHome, outcome, calls, vel, machine, state>>

\* ... let the chassis settle, ...
Settle(w) ==
  /\ wpc[w] = "settle" /\ Proceed(w, "pulse")
  /\ UNCHANGED Locals
  /\ UNCHANGED <<flags, counts, client, vel, plc, state>>

\* ... then run each actuator: _run_plant sends the start pulse; an actuator
\* that is already working ignores it.
Pulse(w) ==
  /\ wpc[w] = "pulse"
  /\ leftHome' = [leftHome EXCEPT ![w] = FALSE]
  /\ \/ /\ Goto(w, "poll")
        /\ machine' = [machine EXCEPT ![implement[w]] =
                         IF machine[implement[w]] = "home" THEN "requested" ELSE @]
        /\ AsPlanned
     \/ Goto(w, "planted") /\ UNCHANGED machine /\ Happens("offline")
  /\ UNCHANGED <<flags, counts, leg, implement, outcome, calls, vel, amr, state>>

ClearOfGround(i) == machine[i] # "down"

\* Variant: an actuator at rest is taken for one that is done.
PollResting(w) ==
  /\ wpc[w] = "poll"
  /\ \/ cancel /\ Goto(w, "finally") /\ AsPlanned
     \/ ~cancel /\ Goto(w, "planted") /\ Happens("offline")
     \/ ~cancel /\ ClearOfGround(implement[w]) /\ Goto(w, "planted") /\ AsPlanned
     \/ Goto(w, "planted") /\ Happens("slow")
  /\ UNCHANGED <<flags, counts, Locals, calls, vel, plc, state>>

\* Variant: the loop does not look at the cancel flag.
PollUncancelled(w) ==
  /\ wpc[w] = "poll"
  /\ \/ Goto(w, "planted") /\ UNCHANGED leftHome
        /\ (Happens("offline") \/ Happens("slow"))
     \/ /\ ~ClearOfGround(implement[w])
        /\ leftHome' = [leftHome EXCEPT ![w] = TRUE] /\ UNCHANGED wpc /\ AsPlanned
     \/ /\ ClearOfGround(implement[w]) /\ leftHome[w]
        /\ Goto(w, "planted") /\ UNCHANGED leftHome /\ AsPlanned
  /\ UNCHANGED <<flags, counts, leg, implement, outcome, calls, vel, plc, state>>

\* One pass of its loop: cancelled, unreachable, working, done or too late.
Poll(w) ==
  /\ wpc[w] = "poll"
  /\ \/ cancel /\ Goto(w, "finally") /\ UNCHANGED leftHome /\ AsPlanned
     \/ ~cancel /\ Goto(w, "planted") /\ UNCHANGED leftHome /\ Happens("offline")
     \/ /\ ~cancel /\ ~ClearOfGround(implement[w])
        /\ leftHome' = [leftHome EXCEPT ![w] = TRUE] /\ UNCHANGED wpc /\ AsPlanned
     \/ /\ ~cancel /\ ClearOfGround(implement[w]) /\ leftHome[w]
        /\ Goto(w, "planted") /\ UNCHANGED leftHome /\ AsPlanned
     \/ Goto(w, "planted") /\ UNCHANGED leftHome /\ Happens("slow")
  /\ UNCHANGED <<flags, counts, leg, implement, outcome, calls, vel, plc, state>>

\* The planter after the auger, the other leg after the planter.
Planted(w) ==
  /\ wpc[w] = "planted"
  /\ \/ /\ implement[w] = "auger" /\ Proceed(w, "pulse")
        /\ implement' = [implement EXCEPT ![w] = "planter"] /\ UNCHANGED leg
     \/ /\ implement[w] = "planter" /\ leg[w] = "forward" /\ Proceed(w, "leg")
        /\ leg' = [leg EXCEPT ![w] = "backward"] /\ UNCHANGED implement
     \/ /\ implement[w] = "planter" /\ leg[w] = "backward"
        /\ Goto(w, IF cancel THEN "finally" ELSE "while")
        /\ UNCHANGED <<leg, implement>>
  /\ UNCHANGED <<flags, counts, leftHome, outcome, client, vel, plc, state>>

\* finally: the robot is stopped, the command words are cleared, ...
Finally(w) ==
  /\ wpc[w] = "finally" /\ vel' = "stop" /\ Goto(w, "clear")
  /\ UNCHANGED Locals
  /\ UNCHANGED <<flags, counts, client, plc, state>>

Clear(w) ==
  /\ wpc[w] = "clear" /\ Goto(w, "last")
  /\ UNCHANGED Locals
  /\ UNCHANGED <<flags, counts, client, vel, plc, state>>

\* ... and the test is no longer running; the locals of the run are gone.
Last(w) ==
  /\ wpc[w] = "last" /\ running' = FALSE /\ Goto(w, Dead)
  /\ leg' = [leg EXCEPT ![w] = "forward"]
  /\ implement' = [implement EXCEPT ![w] = "auger"]
  /\ leftHome' = [leftHome EXCEPT ![w] = FALSE]
  /\ outcome' = [outcome EXCEPT ![w] = "none"]
  /\ UNCHANGED <<cancel, thread, counts, client, vel, plc, state>>

Work(w) ==
  \/ While(w) \/ Leg(w) \/ DriveBegin(w) \/ DriveArm(w) \/ DriveEnd(w)
  \/ DriveStop(w) \/ AfterLeg(w) \/ Check(w) \/ Park(w) \/ Settle(w) \/ Pulse(w) \/ Poll(w)
  \/ Planted(w) \/ Finally(w) \/ Clear(w) \/ Last(w)

-----------------------------------------------------------------------------
(* The amr-state thread, the actuators and the operator *)

Moving == IF vel = "stop" THEN "still" ELSE "moving"

\* A change of the movement state is noted, ...
Sample ==
  /\ ~report /\ Moving # known
  /\ known' = Moving /\ report' = TRUE
  /\ UNCHANGED <<flags, counts, worker, client, vel, plc>>

\* ... then written; a write that fails is not tried again.
WriteState ==
  /\ report /\ report' = FALSE
  /\ \/ amr' = (known = "moving") /\ AsPlanned
     \/ UNCHANGED amr /\ Happens("offline")
  /\ UNCHANGED <<flags, counts, worker, calls, vel, machine, known>>

\* The auger or planter goes through its cycle.
MachineLeaves(i) ==
  /\ machine[i] = "requested" /\ machine' = [machine EXCEPT ![i] = "down"]
  /\ UNCHANGED <<flags, counts, worker, client, vel, amr, state>>

MachineReturns(i) ==
  /\ machine[i] = "down" /\ machine' = [machine EXCEPT ![i] = "home"]
  /\ UNCHANGED <<flags, counts, worker, client, vel, amr, state>>

\* One of the manual buttons, in the middle of a run or not.
Manual(i) ==
  /\ "manual" \in Allowed /\ machine[i] = "home"
  /\ machine' = [machine EXCEPT ![i] = "requested"] /\ mishaps' = mishaps \cup {"busy"}
  /\ UNCHANGED <<flags, counts, worker, calls, vel, amr, state>>

Operator ==
  /\ "operator" \in Allowed /\ vel' \in {"operator", "stop"}
  /\ UNCHANGED <<flags, counts, worker, client, plc, state>>

Call(c) ==
  \/ Start(c) \/ Join(c) \/ Launch(c)
  \/ StopFlags(c) \/ StopVelocity(c) \/ StopPlc(c)

Next ==
  \/ \E c \in Clients : Call(c)
  \/ \E w \in Workers : Work(w)
  \/ Sample \/ WriteState \/ Operator
  \/ \E i \in Implements : MachineLeaves(i) \/ MachineReturns(i) \/ Manual(i)

\* Workers and the amr-state thread run; clients and actuators owe nothing, and no
\* progress is to depend on a mishap, a timeout or an unreachable PLC.
Fairness ==
  /\ \A w \in Workers : WF_vars(Work(w) /\ AsPlanned)
  /\ WF_vars(Sample) /\ WF_vars(WriteState)

Spec == Init /\ [][Next]_vars
FairSpec == Spec /\ Fairness

-----------------------------------------------------------------------------
(* Properties *)

Without(hs) == mishaps \cap hs = {}

\* At most one worker lives at a time, whatever starts and stops of several clients
\* interleave, as long as no join gives up and no start is overtaken: another start and
\* a stop fit between the looks of one that waits.
OneWorker ==
  Without({"expire", "overtaken"}) => \A v, w \in Workers : Alive(v) /\ Alive(w) => v = w

\* The status tells the truth: when it says the test is not running, no worker
\* is left that has not been told to end.
StatusIsTrue ==
  ~running /\ Without({"expire", "overtaken"}) => \A w \in Workers :
    Alive(w) => cancel \/ wpc[w] \in {"finally", "clear", "last"}

\* No orphan motion: a velocity that a worker gave is in force only while that
\* worker is in its drive, even when two workers live at once.
NoOrphanMotion == vel \in Workers => wpc[vel] \in {"drive", "end"}

\* The robot is driven by the test only while no actuator is working.
NoOverlap == vel \in Workers => \A i \in Implements : machine[i] # "down"

\* ... which holds as long as each run finds its actuators at home and they
\* finish while the test waits for them.
NoOverlapAsPlanned == Without(Mishap \ {"incomplete"}) => NoOverlap

\* With nobody else driving and the amr-state thread up to date, actuators are
\* started while the PLC is told that the AMR is stationary.
ParkedWhilePlanting ==
  [][\A w \in Workers : wpc[w] = "pulse" /\ wpc'[w] = "poll" /\ vel = "stop"
       /\ ~report /\ known = "still" /\ Without({"plc", "expire", "overtaken"}) => ~amr]_vars

\* A stop ends every worker, and with it whatever it was driving or waiting for,
\* without the help of an actuator or of a timeout.
StopEnds == cancel ~> (\A w \in Workers : ~Alive(w)) \/ ~cancel
=============================================================================
