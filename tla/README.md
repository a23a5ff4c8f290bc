# Verification of the AgroBot dashboard

TLA+ models of the AgroBot dashboard and of the chassis node it drives, model-checked
with TLC on small instances, with theorems checked by TLAPS for every value of the
constants. Everything is translated from the code; paths below are relative to the
root of the repository (`dashboard/serve.py` is `src/dashboard/serve.py` in
`PROJECT.json`).

The robot is dangerous in two ways: it drives, and it moves actuators through a PLC.
Whoever asks for motion (a browser, a test worker, a ROS message) may fall silent, be
overtaken by another thread or be cut off by a failed request, so almost everything
that matters here is a *deadman*, or a flag two threads read in the wrong order. That is
what the models are about.

## 1. Inventory

| Component | State | Operations | Interacts with |
|---|---|---|---|
| Velocity command path (`agrobot_dashboard/services/telemetry.py` `VelocityState`, `dashboard/serve.py` `_serve_cmd_vel`, `_vel_loop`) | `linear_x, angular_z, last, active` under a lock | set_command, consume_for_publish, publish | HTTP threads, drives, battery test, ROS |
| Fixed-distance drive (`dashboard/serve.py` `drive_distance`, `agrobot_dashboard/domain/auto_drive.py`) | locals of the call: start count, deadline, `cmd_speed` | begin, refresh, abort, final stop | VelocityState, OdometryState, battery test |
| Chassis serial node (`src/avatar_robot_base/avatar_robot_base/robot_base_node.py`) | `speed_l, speed_r, last_cmd`, port, bad-read count | ROS callback, 20 Hz loop, reopening, destroy_node | ROS, chassis |
| PLC client (`dashboard/plc_client.py`) | connection, cooldown, `_jog`; the words of the PLC | jog, jog_deadman, pushbuttons, start words, both, reads | HTTP threads, jog deadman thread, battery test, PLC |
| PLC server threads (`dashboard/serve_plc.py`) | `moving_prev` | jog deadman loop, movement state writer | PLC client, VelocityState |
| Battery drain test (`dashboard/serve_battery.py`) | `running, _cancel, _thread`, counters | start, stop, the worker | drives, PLC client, VelocityState |
| Event log (`agrobot_dashboard/services/events.py`, `_pollEvents` in `dashboard/index.html`) | ring of 500, debounce times; `_logLastTs` of the browser | log_event, events_since, poll | every thread, browser |
| Video recording (`agrobot_dashboard/services/recording.py`, `RecordingState`) | `active, dir`; segment index and writers of each loop | start, stop, segment loop | HTTP threads, cameras |
| PLC relay and link log (`dashboard/serve.py`) | last link state | forward, note a transition | PLC client, event log |
| Settings (`telemetry.py`, `dashboard/serve.py`) | one dict under a lock | validated update | HTTP threads |
| Odometry, kinematics, battery filter (`agrobot_dashboard/domain/`), wiring in `dashboard/chassis.py` | mileage and last counts; a window of voltages | update, add, twist to wheel speeds | chassis node, telemetry, drives |
| Dead reckoning (`odom_calculation.py`) | pose, last counts, two times | pulses, integration | chassis node |
| Cameras and detection (`adapters/cameras.py`, `services/detection.py`, `FeedState`, `DetectionState`) | frames, status, one mailbox per opening, last detections, the shared model | capture loops, detection workers, requests for detections | browser, recording |
| GNSS reader (`scripts/gnss_rtu608bt_read.py`, `_serve_gnss`) | receiver state, throttles, a coordinates file | read a sentence, rewrite the file, reconnect; `/api/gnss` | receiver, dashboard |
| Cloud push, chassis configuration files, path and keyboard nodes, browser pages | | | |

Hard behaviours, and what must be true in spite of them:

- **Velocity path and drives.** Three kinds of threads write one velocity; the publish
  thread consumes under the lock and publishes outside it. An idle dashboard must have
  told the base to stop; no command may outlive the deadman; a drive must keep its own
  command alive, give way, end, and leave nothing moving.
- **Chassis node.** Callback and loop share two speeds and a timestamp with no lock; the
  port may vanish and come back; the deadman uses the wall clock. No message may move
  the chassis for longer than the deadman, not even across an outage, and a stop must
  never be mixed away.
- **PLC client.** Every operation is several requests, each of which may be refused or
  fail, perhaps after the PLC has acted. Whatever fails, a moving axis must be watched by
  the deadman, only one may move, a button may not stay latched, and a success must be true.
- **Battery test.** Starts and stops from several clients, a join that may give up, a
  worker that looks at a flag between long waits. One worker at a time; driving and
  planting exclude each other; a stop ends it.
- **Operator to wheels.** Velocities are consumed, published, queued, stored and written by threads that know nothing of each other. The
  latencies and the two deadmen on the way must add up to a stop.
- **Event log.** Timestamps outside the lock, polls that overlap. No flood, nothing missed.
- **Cameras.** Every opening of a ZED makes a mailbox and a worker nobody ends; cameras vanish,
  SDK calls raise, the shared model may fail to load. A camera that stays must be connected in the
  end, and a worker of an earlier opening must not go on publishing.
- **GNSS.** Two processes share a file that one of them rewrites and may be killed over. The dashboard
  must never read half of it, nor show a silent receiver or an old position as a live one.
- **Feedback.** Counts come through a line that garbles them, counters that wrap and a chassis that may be
  switched off. Mileage may not be invented, the pose must follow the wheels, the gauge must not jump.
- **Recording.** A flag that does not say which session it is for, a thread started after
  the lock is released. Only the segment in progress is at risk; a stop ends the session.

`PROJECT.json` lists every component with its status, and every hazard at its line.

## 2. Modules

| Module | Models | Built on |
|---|---|---|
| `Deadman` | abstract specification: an actuator is moved only by recent commands | |
| `VelocityControl` | VelocityState, `/api/cmd_vel`, publish thread, `drive_distance` | implements `Deadman` |
| `VelocityControlProofs` | theorems about it | `VelocityControl`, TLAPS |
| `RobotBase` | the chassis serial node | implements `Deadman` |
| `RobotBaseProofs` | theorems about it | `RobotBase`, TLAPS |
| `PlcClient` | Modbus client, jog deadman thread, the words of the PLC | implements `Deadman` |
| `PlcClientProofs` | theorems about it | `PlcClient`, TLAPS |
| `BatteryTest` | the test, its worker, movement state thread, actuators | |
| `BatteryTestProofs` | theorems about it | `BatteryTest`, TLAPS |
| `EventLog` | log_event, ring, browser poll | |
| `EventLogProofs` | theorems about it | `EventLog`, TLAPS |
| `Recording` | RecordingState and the segment loops | |
| `Cameras` | capture threads, detection workers and their mailboxes, clients of detections | |
| `VideoProofs` | theorems about the two users of the cameras | `Recording`, `Cameras`, TLAPS |
| `Gnss` | the reader process, its file, `/api/gnss` | |
| `Kinematics` | a twist as wheel speeds, within the limits of the chassis | |
| `Feedback` | counts, mileage, dead reckoning, battery filter | `Kinematics` |
| `SensorProofs` | theorems about what the dashboard shows of its sensors | `Gnss`, `Feedback`, TLAPS |
| `DriveChain` | the composition of the dashboard, the speed topic and the node | instances of `VelocityControl` and `RobotBase`, `Kinematics`; implements `Deadman` |
| `DriveChainProofs` | theorems about it | `DriveChain`, TLAPS |
| `MC*` | sets of requests, threads and words for TLC | the module of that name |

`VideoProofs` and `SensorProofs` extend two components each, so the definitions of `Cameras` and of `Feedback` that every module
has (`Init`, `Next`, `Spec`, `vars`, `TypeOK`) carry the name of their module there.

Operators preceded by "Variant:" are a plausible wrong form of the operation that follows
them (a missing guard, a swapped order). No specification uses them; with one in the
place of the operation, the run named in `PROJECT.json` finds the property it is paired
with violated. They document what each property is able to notice.

### How state and actions correspond to the code

**VelocityControl.** `lin, ang, active` are the fields of VelocityState and `age` is
`monotonic() - last`, counted in ticks. Every lock region is one action: `CmdVel`,
`ConsumeIdle/Expired/Live` (the three returns of `consume_for_publish`), `Arm`,
`Refresh`/`GiveUp` (the override check and the refresh share a lock region in
`drive_distance`), `Finish` (its `finally`). What the publish thread holds between
consuming and publishing is `pub`; `Publish` and `PublishFail` end it, the latter for an
exception that is logged and dropped. The stages of a drive are the places between which other
threads may act: the 20 ms sleep, the sample, the lock. The robot moves with time (`Move`), whether it was told to or not, and
`OdomUpdate` is an encoder message, which reports where it is at that moment and may be off by `MaxGlitch`; between two messages the
snapshot a drive uses is out of date. History variables: `writer` (who wrote the velocity), `seen[d]` (where the robot was when
the drive began, and how far it has been since), `lost` (the last stop was lost by a publish error).

**RobotBase.** Nothing is locked in the node, so each assignment of the callback
(`StoreLeft`, `StoreRight`, `StampCommand`) and each read or write of the loop
(`CheckDeadman`, `ZeroLeft`, `ZeroRight`, `ReadLeft`, `ReadRight`, `Send`) is a step of its
own. `SendUntaken` is a frame that is written and not acknowledged, so that the chassis keeps the one before; `PortError`, `OtherError`
(any exception but that of the port, which keeps it open), `GoodRead`, `BadRead`, `LastBadRead` and `OpenPort` are the error paths of
the loop; `Interrupt`, `StopFrame` (which may fail, the exception being swallowed) and `ClosePort` are the shutdown. `frame` is what the
chassis was last sent and took. `ClockSetBack` sets the wall clock back, by `MaxSkew` in all at most. Histories: `silence` (time since the
last message, whatever the wall clock says), `last`, `outage`, `skew` (how far the clock was set back since that message).

**PlcClient.** `_op` holds one lock from connecting to replying. What an operation does
on the wire is a script (`JogStart`, `JogStop`, `JogDeadmanTick`, `Press`, `AmrSet`,
`AmrPulse`, `Both`) whose instructions are executed one by one (`Connect`, `WriteDone`,
`WriteRefused`, `HoldOrRead`, `ReadRefused`, `Arm`, `Disarm`), because each request may be answered by an
exception response (`WriteRefused`, `ReadRefused`) or end in a transport exception (`Exception`), before or
after the PLC acted. Reads are scripts too: `Status` for the four operations that read bits and words one by
one, `Poll` for `amr_poll` and `ping`, `Screen` for `read_hmi_screen`, which does not run under `_op`: it catches the
exception itself, passes over what it has not read, and drops the socket at the end (`ScreenException`, `Reset`).
A screen is three reads. `AmrSet` is a write of the three words of the handshake, with any value it accepts: the start words (1 or 0) and
the movement state (2 moving, 1 stationary, 0). `Peek` is the look `jog_deadman` takes without the lock. A word is 0
or holds the bit its last writer set. Histories: `asked`; `unsure`, the words whose last
request failed; `dead`, that the socket has raised.

**BatteryTest.** `start` has two looks with a join between them (`Start`, `Join`, `Launch`);
`stop` is the flags, the velocity and the PLC words (`StopFlags`, `StopVelocity`, `StopPlc`).
The worker follows `_run`, `_leg`, `_plant_all` and `_run_plant` with one action between two
places where it can be interrupted or cancelled. `drive_distance` is reduced to its arming,
its end and its final stop; its detail is in `VelocityControl`. `Sample` and `WriteState` are
the movement state thread of `serve_plc.py`. The actuators are external:
`MachineLeaves` and `MachineReturns`. `Manual` is one of the manual buttons of the page (`/api/amr/write`), which start an actuator whatever the
test does. A write of the movement state may fail (`"offline"`), which nobody repeats. The constant `Allowed` names what may happen besides
the plain cycle, and the history `mishaps` remembers what did.

**EventLog.** `Report` reads the clock before the lock, `Suppress`/`Admit` are the
check-then-set under it, `Stamp` takes the timestamp outside it and `AppendEntry` puts the
entry into the ring. The browser's poll is `Send`, `Answer`, `Receive` or `Lose`; two
polls can be under way, for one is sent every 3 s and may take 4 s. Histories: `newest`, `shown`,
`disordered` (events stamped no later than one that was in the ring before them).

**Recording.** `Start` and `Stop` are the lock regions of the HTTP handlers, `Spawn` the start of
the thread after the lock is released. The loop is `Import`, `ReadDir`, `Abort`, `Top`, `Roll`,
`Write`, `Last`. Front and rear feeds are one; a file is `partial` until its writer is released, and `mixed` while two writers have it open. The name of a
directory is a time of one second's resolution that the request brings along, and an existing directory is taken (`exist_ok`), so `Start` picks any
directory; a writer empties the file it opens.

**Cameras.** One capture thread per feed, with the four sources a feed can have: a ZED through its SDK, the
OpenCV fallback of the front, the webcam of the rear, none. `OpenZed`, `Load`, `Grab`, `Put`, `Signal`, `LoseZed`, `Drop`,
`Close` follow the two SDK loops, which are the same but for names; `OpenPlain` and `LosePlain` are those of the other
two. A *session* is one call of the SDK loop: it makes a mailbox, an event and a worker of its own, and `work[f][s]` holds
the three. `Clear`, `Take`, `Infer`, `Inferred`, `Publish` are the worker, between whose steps anything may happen; the
inference lock is the guard of `Infer`. `Ask`, `Stream`, `Disconnect`, `Expire` are the clients behind `wanted()`. A picture that
the display throttle skips changes nothing and is no step. `Raise` is an exception in a capture loop: the callers of the SDK loops catch it and go on,
the loops of the webcam and of OpenCV have nobody who does, so their thread is `"dead"`. History: `late`, the results a session published after it had ended.

**Gnss.** `Launch` to `Retry` are `main` with its doubling pause; `Receive` is one sentence: parsing, the choice between a
position and a heartbeat, the throttle. `WriteCoords` opens the temporary file, which is torn until `CloseTmp`, and either may fail; `Rename` is `os.replace`. `Kill` ends
the process between any two of them. The device file is resolved once, at `Launch`; a receiver that comes back under another one (`"elsewhere"`) is not
found until the reader is started again. The state of the receiver is kept across losses of the line, as in the code. `ServeGnss` is
the answer of the dashboard, an operator, because it may be asked for in any state; it compares wall clocks, and `ClockSetBack` makes a payload
look younger than it is. Histories: how long ago a GGA, a position and any sentence came, and how far the clock was set back since a payload was written.

**Feedback.** `Command` is the velocity publisher, `ReadEncoders` an answer of the chassis whose counts go through the registers
(`Register`, `SignExtend`) to both of their readers, `Accumulate` and `OnPulses`; `Garble` is an answer with wrong bytes, which the node
does not notice because it does not check the CRC: any two counts. `AddReading` is the battery filter, whose last recomputation may have
been at any time when the node starts (`smoothed_at` is 0.0, and the monotonic clock may be young): its window maps the number of a reading to its age and voltage, and its
`Median` is the element in the middle, defined by how many readings lie below it and not above it. `PowerOff` and `PowerOn` are the chassis, which may be back at any time with counters at zero, `Roll` its
wheels. The pose is kept in the frame of the robot, as distance along the path and turn, in which integration is exact in
integers. Histories: the way travelled, the first reading, whether anything was garbled, and the number of differences between a true and a wrong count (`wrong`).

**DriveChain.** The variables of `VelocityControl` (without drives) and of `RobotBase` side by side, and `topic` between them:
`Publish` converts the twist and sends it, a full queue drops its oldest message (`Queued`), `Deliver` is the executor of the
node handing a message to `_speed_cb`, whose other two assignments stay steps of their own. Both ends run by one `Tick`. An
operator may post anything at any time. History: `asked`, the time since the last command.

## 3. What the runs show

All runs are on instances small enough for TLC to visit every state.

| Run | Shows | States |
|---|---|---|
| `VelocityControl_drive` | one drive of a robot that moves between the reports of its encoder, an operator, publishes that may fail: `IdleMeansStopped`, `DriveKeepsAlive`, `NoOrphanMotion`, `DoneIsReal`, `StopHolds`, refinement of `Deadman`, and under fairness `DriveEnds` | 1.4 M |
| `RobotBase_node` | all threads, port failures, untaken frames, clock set back, shutdown: `CommandsArrive`, `NoReplay`, refinement of `Deadman`, `QuietStops` | 2.8 M |
| `PlcClient_requests` | any mix of requests by any clients, with lost requests, failed connects and refused requests, every value of the words of the handshake: `JogIsArmed`, `SuccessIsReal`, `NeverLatched`, `NoDeadSocket`, refinement of `Deadman` | 3.3 M |
| `BatteryTest_control` | start and stop by two clients, joins that give up, an operator, manual buttons, refused drives: `OneWorker`, `StatusIsTrue`, `NoOrphanMotion` | 7.1 M |
| `BatteryTest_cycle` | the whole cycle with an empty battery, slow actuators, incomplete legs and an offline PLC: `NoOverlapAsPlanned`, `ParkedWhilePlanting`, `StopEnds` | 1.0 M |
| `EventLog_log` | two reporters, two polls, a ring of two: `NoFlood`, `NothingMissed` | 0.15 M |
| `Recording_session` | two clients, two sessions of three segments in one directory or two: `OnlyLastAtRisk`, `FinalStays`, `StopFinalizes` | 39 k |
| `Cameras_feeds` | each source alone with two outages or exceptions, and the OpenCV feed beside a ZED: `CamerasTypeOK`, `FewLateResults`, `Recovers`, `LiveResults` | 0.3 M |
| `Gnss_file` | three faults (outages, kills, failed writes, a clock set back) at any step: `NeverCorrupted`, `ConnectedIsHeard`, `FixedIsRecent`, `ComesBack` | 2.2 M |
| `DriveChain_commands` | an operator, publishes and a port that may fail, a clock set back, from the request to the wheels: `StopArrives`, refinement of `Deadman` | 4.6 M |
| `Feedback_readings` | a chassis that reports wheels, and one that reports its pack: `MileageIsTravelled`, `PoseFollows`, `GaugeIsTypical` | 14.5 M |
| `PlcClient_unwatched` | a disagreement, see section 6 | |

Every module of a component also has a type invariant, and it is proved (section 4); the run of `Cameras` checks its own as well.

### Bounds, and why they are enough

- *Time* is in ticks and every age saturates one above the largest threshold the code
  compares it with, so the clock of most models is unbounded. Timeouts of one tick (three in `RobotBase`,
  so that a message can be in force for two passes and not be expired) keep every comparison
  on both of its sides. Slacks of one tick let each periodic thread be early or late by
  a whole period relative to the others.
- *Threads*: two of a kind wherever they compete (drives, workers, reporters, polls,
  sessions, recording clients), one where the code has one. Clients of the PLC need no
  identity: a request carries all that its thread knows. The battery test has two calling
  clients in `BatteryTest_control`, either of which may start and stop it; its legs are not counted there (`MaxLegs = 0`), and the
  cycle in `BatteryTest_cycle` has one client. What happens besides is split the same way.
- *Distance*: a target of two pulses between a robot's place one pulse behind the origin and one pulse ahead of it, in both directions, so
  that a drive may begin with a snapshot that is a pulse out of date and the property still asks for a pulse. A count is exact in the run (`Glitches = {0}`);
  the proofs cover wrong counts, any target, any speeds and any number of drives.
- *Words of the PLC*: two axes, one more than can be held at a time, and the two start
  words; the word of the movement state takes all its values, written and pulsed. Writes to it and to the auger's word may be
  refused, and requests to any word may be lost. The panel words of the machine and the robot arm, whose buttons run the script of the
  axis buttons and then read, are left to the proofs (`PanelWords` is empty), and so are the operations whose requests are part of another script here (`amrSet`, `start`, `stop`, `status`).
- *Counters*: one counted leg each way, which is a whole cycle and the beginning of the next; three
  events against a ring of two for one to be dropped; segments 0 to 2.
- *Cameras*: a row of two failures ends a session, so that one failure does not; two troubles make three
  sessions, so that a worker can be two openings behind. Two feeds share the model and the inference lock without troubles.
- *Gnss*: a position may be written in every tick, a heartbeat in every second, the file is old after four; a receiver sends
  a GGA at least every other tick. The freshness limit must cover a heartbeat and a cycle (`GnssAssumption`). Three
  faults are enough to lose a line, set the clock back and kill the reader in one behaviour; a clock is set back by one tick.
- *DriveChain*: a queue of one message, so that it overflows when the publisher is early and the node late by a tick each; a node deadman of two
  ticks, so that a stop may arrive as a message or as an expiry. The published speeds are stop, the limit ahead, and a request over the limit.
- *Feedback*: counters of five bits that start next to their wrap, four readings, two pulses either way. Of the garbled
  answers one is near the true counts, within `max_delta`, and one is not in one wheel; two in a row, and a loss of power that is over before the reconnect gap, occur. The filter has
  readings that are true, plausible but wrong at either end, impossible, and zero. `FeedbackAssumption` asks that what the chassis
  covers in the reconnect gap does not wrap a counter (5 s of driving against 2^32 pulses) and that what it covers between two messages in
  time (`DeadTicks`, the interval in which a single pulse is still outside the dead zones: 0.21 s or 0.66 s, by the chassis) is less
  than `max_delta`: at 0.5 m/s (`dashboard/serve.py:74`) that is under 600 pulses against 3000. Of a garbled answer nothing is assumed
  but that it fits the registers. `MaxPath` and `MaxReads` are for TLC; the theorems hold for any.

### Fairness

Weak fairness only, and only of threads of the program and of time: the publish and drive
threads, the callback once a message has arrived and the loop of the node, the worker and the
movement state thread, the recording loops and the spawning of one that was started, the capture threads and each detection worker, and the steps
of the GNSS reader with its clock. They are
daemon threads with a bounded sleep and no lock held across a wait, so they run. Nothing obliges
a browser, an operator, an actuator, an encoder, a camera, a receiver or the PLC to do anything. `Recovers` and `ComesBack` are
about a camera and a receiver that stay plugged in, the one read by a thread that no exception has ended, the other under the device file the reader knows; `LiveResults` is about one feed that is watched, for the inference lock is
not fair between two. In `BatteryTest` the fairness of the
worker covers only steps without a mishap, so that `StopEnds` does not hold merely because a wait times out.

## 4. What is proved

Eight modules of proofs hold for all values of the constants that satisfy the named assumptions of the modules (speeds
are integers, times naturals, slacks positive, the tolerance of the override check is below every drive speed, the
freshness limit covers a heartbeat and a cycle, there are finitely many reporters, the node waits for longer than the
dashboard's publish thread may be late). They state every safety invariant and every action property that a passing
run checks. A condition that is more than that is in the statement of its theorem.

| Theorem | Property | Inductive invariant |
|---|---|---|
| `VelocityControlProofs!TypeCorrect` | `TypeOK` | itself |
| `IdleIsStopped`, `DeadmanHolds` | `IdleMeansStopped`, `DeadmanBound` | `DeadmanInv` |
| `StopIsKept` | `StopHolds` | `CommandInv` |
| `DriveStaysAlive` | `DriveKeepsAlive`, if `DriveSlack <= Timeout` | `LiveInv` with `CommandInv` |
| `DoneIsTrue` | `DoneIsReal` | `OdometryInv` |
| `NoOrphans` | `NoOrphanMotion` | itself |
| `IsDeadman` | `ImplementsDeadman` | `DeadmanInv` |
| `RobotBaseProofs!TypeCorrect` | `TypeOK` | itself |
| `DeadmanHolds`, `NothingReplayed` | `DeadmanBound`, `NoReplay` | `DeadmanInv` |
| `StopsAreStored` | `StopIsStored` | `StoredInv` |
| `MessagesArrive` | `CommandsArrive` | `ArriveInv` |
| `IsDeadman` | `ImplementsDeadman` | `DeadmanInv` |
| `PlcClientProofs!TypeCorrect` | `TypeOK` | itself with `Scripted` |
| `SocketIsLive` | `NoDeadSocket` | `Breaking` with `Typed` |
| `NothingUnwatched` | `JogIsArmed`, if `"late" \notin Faults` and no axis refuses | `Guarded` with `Typed` |
| `NothingLatched` | `NeverLatched` | `Unlatched` with `Typed` |
| `SuccessHolds` | `SuccessIsReal` | `Honest` with `Typed` |
| `IsDeadman` | `ImplementsDeadman` | `HoldInv` with `Typed` |
| `BatteryTestProofs!TypeCorrect` | `TypeOK` | `Typed` |
| `OneWorkerHolds` | `OneWorker` | `Sequential` with `Typed` |
| `StatusHolds` | `StatusIsTrue` | itself with `Sequential` |
| `NoOrphans` | `NoOrphanMotion` | itself with `Typed` |
| `NoOverlapHolds` | `NoOverlapAsPlanned` | `Planting` with `Sequential` |
| `ParkedHolds` | `ParkedWhilePlanting` | `Parked` with `Sequential` |
| `SensorProofs!TypeCorrect` | `TypeOK` | itself |
| `NeverTorn` | `NeverCorrupted` | `Whole` |
| `SilenceShows` | `ConnectedIsHeard` | `Heard` |
| `FixedMeansRecent` | `FixedIsRecent` | `Recent` |
| `FeedbackTypeCorrect` | `FeedbackTypeOK` | itself |
| `MileageHolds` | `MileageIsTravelled` | `Ahead` and `Behind` with `Started` |
| `PoseHolds` | `PoseFollows` | `Posed` with `Started` |
| `GaugeShowsTypical` | `GaugeIsTypical` | `FeedbackTypeOK` |
| `VideoProofs!TypeCorrect` | `TypeOK` | `Typed` |
| `CrashLosesLast` | `OnlyLastAtRisk` | itself with `Typed` and `Ordered` |
| `FinalsStay` | `FinalStays` | `Finished` with `Typed` and `Ordered` |
| `CamerasTypeCorrect` | `CamerasTypeOK` | `CamerasTyped` |
| `FewLate` | `FewLateResults` | `AllCounted` with `CamerasTyped` |
| `EventLogProofs!TypeCorrect` | `TypeOK` | `Typed` |
| `NoneMissed` | `NothingMissed` | `UpToDate` |
| `NeverFlooded` | `NoFlood` | `FloodInv` with `Typed` |
| `DriveChainProofs!ChainIsDeadman` | `ImplementsDeadman` | `ChainInv` |
| `StopsArrive` | `StopArrives` | `StopInv` with `ChainInv` |

*The deadman of the dashboard.* `DeadmanBound` is not inductive: when the publish thread
consumes a command, the bound on what is on the wire depends on when it last consumed.
`DeadmanInv` adds that clock: what is pending was at most `Timeout` old when it was consumed,
so it is now at most `Timeout + pubAge`; what is on the wire is one period older if a stop is
pending. As the thread is late by at most `PubSlack`, the bound `Timeout + 2 * PubSlack` follows. The
refinement maps a lost stop to a halt: the abstract actuator is told to stop and the real one is not,
which is why `DriveChain` measures what is left, the deadman of the node.

*Stops are kept.* The override check sees a velocity that differs by more than `Tol`; it
protects a stop only because no drive ever commands a speed within `Tol` of zero. That is
`CommandInv`, which rests on the clamp (`MinSpeed > Tol`), the crawl speed and `plan_speed`.

*What done means.* A drive computes its distance from a snapshot and the last report, and the robot moves on between them. `OdometryInv` says that a
report is off by no more than the error of a count and what the robot can move in its age, and that the difference a drive has computed is ahead
of the farthest place the robot has been by no more than `Slip` and the error of one more count: `Slip` for the snapshot it started from, whose age is
checked, and the error for the count that ended it, whose age is not, but which the robot was at when it was taken.

*The chassis node.* Any speed that is not zero, in the shared variables, in the arguments of the
call being evaluated or on the wire, is as fresh as the pass that uses it: `DeadmanInv` states that
for every place a speed can be in at every stage of the loop. A message that arrives in the
middle of a pass can only make things fresher. The promises hold while the port is up
and the node is not shutting down (`Trusted`), later by as much as the clock was set back, and the refinement shows
that nothing but a fresh message restores them. `NoReplay` needs no trust: whatever went before, speeds that are written have passed the deadman in the same pass. That a message arrives (`ArriveInv`) is said pass by pass: what a pass that began after
the message has read is the message or zero, so what it sends is, and a pass later the chassis has it.

*The PLC client.* Between operations an axis moves only if the deadman watches it, but in the middle of a jog that is
false: the bit is written before the deadman is armed. `Guarded` therefore speaks of what is left of the script. `Scripted` says it has
one of six shapes: *plain*, with nothing that sets a jog bit or touches the deadman, or what is left of a jog or of a stop. For each shape
`Guarded` says what holds now (before the bit is set, only that axis can be moving; before a disarming, it is not). The two assumptions
are where the argument breaks in the code: a late answer or a refusal leaves the script between the write and its arming
(`PlcClient_unwatched`, and section 7).

That a held jog is a deadman needs neither assumption, because the refinement counts a word in doubt as stopped: the same stages hold of those
words (`Sure`), and the lemmas about them are stated for any view of the words, so that both theorems use them. `HoldInv` adds the ages. An
operation that starts a jog has the lock since the operator's last word (`Paced`), so it arms the deadman within `OpSlack` of it; a jog that moves is no
older than that and its own age, and once it has expired the deadman thread is on its way to the lock or holds it (`Timely`); in the cooldown
of a failed connect every axis is in doubt (`Cut`), so an operation that is turned away changes nothing.

*Buttons and replies* need no assumption, for the properties already set aside the words in doubt. A script is *careful* if each write that could
latch a button is followed by a hold and by the release of that word; a word that is set is a jog, in doubt, or about to be released
(`Unlatched`). An operation *owes* each of its words a value and *pays* either with a write to come that nothing but a failure can skip, or with
the word as it is (`Honest`); a script that has run out owes nothing more, so what it reports is true. Both follow a script
to its end one instruction at a time, through the exits by refusal and exception.

*The battery test.* `Sequential` says that only the worker started last can be alive, that whoever joins waits for that one, and
that nobody is alive when a starter launches. With several starters the third fails in one way: while one of them waits, another launches and its test is
stopped, so that the first one launches beside that worker. The history `mishaps` notes this at the launch that overtakes (`"overtaken"`), and `Sequential`
is about the behaviours before; that no other interleaving of any number of starters and stops breaks it is what the theorems say, and that this one does is
the observation in section 7. `Planting` says where a worker
must be while an actuator is away from home; `Parked` that between reporting the AMR still and starting an actuator nobody but the
movement-state thread may say otherwise. `NoOrphanMotion` needs none of this: it is about one worker at a time.

*The GNSS file.* `Whole` adds to `NeverCorrupted` the types of the file and of the temporary file: what is renamed is a whole payload.
Ages here are true ones, and each payload
carries how far the clock was set back since it was written. `Heard` says that no payload is younger than the last sentence, because one is built in the step that parsed it and is renamed before time
passes. `Recent` relates the age of a position to the age of the payload it is in, for the file and for the temporary file; a payload that is
built now is covered because a fix in the state, unless it is `unsure`, came with the last GGA or before it, and that is at most a cycle ago
while the reader is reading.

*Recording.* That the only file at risk is the current one rests on how sessions are born: `Ordered` says that no two clients hold the same
session and that a session being spawned has no loop yet, so a loop is never started twice; and that a loop has a writer only in the stages
that can release it. That a finalized file stays rests on segments that only grow: `Finished` names for each final file a loop that is past it, and the only loop
in a directory does not come back.

*Cameras.* The number of results a session has published after its end is not bounded by itself: `Counted` adds those it may still publish, one for a
picture the worker has taken and one for a picture in the mailbox, and the sum is at most two once the session is over, for nobody puts pictures
into its mailbox any more. A session to come has an empty mailbox and a worker that has published nothing. `CamerasTyped` bounds the sessions of a ZED by the troubles so
far, for only trouble ends one.

*Mileage.* `MileageIsTravelled` says nothing of how old the last count is, and whether a difference of two readings is the way between them depends on
that. `Ahead` keeps the place `w` where the wheels were last read: they are no farther from it than time allows, so the difference has not wrapped
if it is plausible (`TrueDifference`: two numbers that differ by a multiple of the width and are closer than it are equal), and mileage and what the wheels have rolled since
stay within the path. A reading that was garbled, or the first after a loss of power, makes two differences that say nothing of the way (`tainted` tells whether the
last reading was one): each adds less than `max_delta` for each wheel, or nothing, and `wrong` counts them. The lower bound is `Behind`: in a
clean history readings are true, the way between two of them is below `max_delta`, and the mileage grows by at least what the distance does.
`Started` says that both readers hear the first message together.

*The pose* is exact because each term is: over a short interval no dead zone applies (`NoDeadZone`), the clock of the integration is that of the
difference (`Posed`), and then the division undoes the multiplication (`PoseStep`). The second message is the exception, its clock having
started with the node; it adds nothing if the chassis stood.

*The gauge.* That there is a median is a lemma of its own (`MedianIsMiddle`): of the voltages below or at which more than half of the readings
lie there is a least one, by the well-foundedness of proper inclusion on finite sets. Less than half of the readings lie above the median and at most half
below it, so if most are true, neither side can hold all true ones (`MajorityAround`).

*The event log.* `NothingMissed` speaks of what the browser has seen, and answers in flight were computed from older rings.
`UpToDate` says it of every answer under way: an event that came in order and lies between the time the poll was sent with and
the newest event of the answer is in the answer; and an event no newer than the browser's time has been shown. Receiving an answer
then moves the browser's time to the newest event it brings, and nothing between is lost. `NoFlood` counts in the ring, and the ring lags
behind the debounce: `FloodInv` counts the events of a key that are in the ring or admitted and on the way to it, and bounds them by the windows that have passed up
to the last admission. Clocks read before the lock only make an admission later.

*Operator to wheels.* The two deadmen do not simply add up, because each measures the age of something else. `ChainInv` gives every
message, wherever it is (held by the publish thread, queued, in the callback, in the shared speeds, in the arguments of a frame, on the wheels), the bound
on `asked`, the time since the operator's last word, that its path allows. Messages that move are one publish period younger than the stop that ends
them, and that the node's timeout covers that period is an assumption the bound needs. For a stop the argument is about order rather
than age: the newest message there is (`Newest`) is what the dashboard last published, so once every latency has passed nothing is on its way
(`PassedInv`), the node's last message is the stop, and two passes of the loop put it on the wheels (`TakenInv`).

*Only model-checked*: all liveness (`DriveEnds`, `QuietStops`, `StopEnds`, `StopFinalizes`, `Recovers`, `LiveResults`, `ComesBack`),
which depends on fairness and so on ENABLED, outside what the prover handles. `JogBound` is not a theorem: the code does not keep it (section 6).

## 5. What is not modelled

- Numbers that only pass through: frame layout, CRC, register map and decoding, NMEA number formats, sines and cosines. Data
  tables (the registers, HMI screens and fault texts of `plc_client.py`) and HTML make up most of the lines of the repository that no definition stands for.
- The HTTP relay of the PLC with its link log, settings, cloud push, path and keyboard nodes, pages other than the event poll,
  the rear camera from a ROS topic, the T3 variant of the odometry. `PROJECT.json` gives the reason for each.
- A write to the PLC that fails after it has acted, in `BatteryTest`: there a failed write of the movement state has no effect, and the start pulses
  fail as a whole. The scripts behind them, request by request, are in `PlcClient`.
- The tables of the pages: a button or a key is the request it sends. A clock that is set forward expires everything sooner and is no action of its own.
- How far a video file that two writers have open is readable: it is `mixed`, and no property says more of it.
- Memory model: Python assignments are atomic and ordered under the interpreter lock, as the
  models assume.
- The deadman inside the chassis, if it has one: it is not in the repository.

## 6. A disagreement found

The run checks one property, which is what the quoted line says, and TLC finds it violated.

- `PlcClient_unwatched` (`dashboard/plc_client.py:1340`): if the answer to the write that starts a jog is
  lost after the PLC acted, the exception skips the arming, so the axis moves and no deadman
  watches it, against `dashboard/plc_client.py:341` "a held jog auto-clears if not refreshed within this".

## 7. Further observations

Behaviours of the models, and of the code, that the properties above exclude by a condition, some of them against a comment that
is quoted here. They have no run of their own.

- A turn posted at the linear speed of a drive does not end it (`dashboard/serve.py:188`); the final stop of an
  overridden drive replaces the command that overrode it (`:195`); a refresh that is late by more than the
  timeout does not re-activate the publish thread (`:192`; `DriveStaysAlive` assumes it is not); the age of the
  encoder is checked only before a drive (`:176`) and one wrong count ends it as done (`:179`): `DoneIsReal` has to allow for the greatest error of a count,
  and with a CRC that nobody checks that may be any.
- `consume_for_publish` goes inactive before the stop is published, so a publish that raises loses the only stop of the dashboard
  (`serve.py:1157`; the condition `~lost`), and "if the browser goes silent, the robot stops" (`README.md:662`) is left to the node. The wheels then run on for
  both timeouts, 0.5 s and 1.5 s, besides the latencies; that is the bound of `DriveChain`, and TLC finds it exceeded when it is one tick
  tighter. A chassis of the `ros_twist` kind (`chassis.py:157`) has only what its own base does.
- A refresh that overtakes the stop of its button sets the bit again (`plc_combined.html:1467`), and the axis moves until the deadman finds it.
- A frame may pair the wheels of two messages for one pass (`robot_base_node.py:134`), and a wall clock set back
  prolongs an old message by as much (`:125`; the term `skew` of the bounds).
- A refused release of the previous axis does not prevent the next jog (`plc_client.py:1338`); a start pulse whose second
  write fails stays latched (`:1580`); a pushbutton whose release is refused reports success (`:1168`). These are the
  exclusions by `unsure`, and the reason why no word of an axis refuses requests in the runs.
- `read_hmi_screen` answers `connected` true after a transport error in the middle (`plc_client.py:1463`), where its docstring
  says False when the PLC is unreachable; the status operations report a refused read as FALSE or 0 and success (`:1213`).
- A stop of the battery test does not wait for an actuator that is working and a start does not look at it, so the first
  leg of the next run may drive during its cycle (`serve_battery.py:109`; `NoOverlapAsPlanned` is about runs without a stop). Nor does it know of the manual
  buttons of its page, which start an actuator during a leg (`serve_battery.py:374`).
- When the join of a start gives up, the `finally` of the old run ends the status of the new one (`serve_battery.py:105`), although
  the join is there so that "its `finally` can't clobber the new run" (`:103`). It needs no timeout: a start has read the worker to join before it waits (`:101`), so if
  another client starts the test and stops it meanwhile, it launches beside the worker of that client (`"overtaken"`). An actuator that takes longer than the
  test waits for it is given up while it works, and the next leg drives, although driving and planting are to have "no overlap" (`:217`, `:23`; `NoOverlapAsPlanned`
  is about actuators that come back in time). An actuator can be started just after a stop
  (`:191`); a pair counts although its forward leg was incomplete (`:281`). The freshness behind `_battery_empty` (`:141`) is
  that of any reading, also of one the filter has thrown away.
- An event stamped first may enter the ring second and be passed over by the browser (`events.py:42`; the condition
  `disordered`); overlapping polls show events twice (`index.html:2969`); a debounced event right after boot is
  suppressed (`events.py:38`); a loss of the PLC link may be logged after the restoration, or be debounced away (`serve.py:698`, not modelled).
- The flag of a recording does not say which session it is for (`recording.py:71`): a loop that has not looked at it between a stop and
  a new start goes on, and one whose session was stopped before it read its directory joins the next session's directory, or ends
  that session when it finds none (`:43`, `:49`). `OnlyLastAtRisk` and `StopFinalizes` allow both. That loop, or a session begun
  in the second of the one before (`serve.py:947`), opens segment 000 of a directory that has one, so a file that was finalized is emptied (`recording.py:101`), against
  the promise that a crash loses at most the segment in progress (`:9`; the condition `Together` of `FinalStays`), and two writers may have one file open.
- An exception in the capture loop of the webcam or of OpenCV ends its thread for good, and nothing restarts it (`cameras.py:141`, `:626`); those of the
  SDK loops are caught (`:724`).
- Every reopening of a ZED leaves a worker thread behind (`cameras.py:280`), which may publish the picture it works on and the one in its
  mailbox after the feed has gone, two results, not more. Boxes stay drawn when no more results come. `/api/camera/status` looks at the age of the last frame,
  `/api/zed/status` does not.
- The node does not verify the CRC of an answer (`robot_base_node.py:147`): a garbled count within `max_delta` of the true one is
  counted as mileage, twice (`domain/odometry.py:46`), and so is the difference of two garbled counts that are close to each other. A chassis that is
  off for less than the reconnect gap and whose counters were within `max_delta` of zero has that counted as way. These are the terms `wrong` of `MileageIsTravelled`.
- A chassis that is silent for less than the reconnect gap of 5 s, but for longer than it takes to cover `max_delta`, loses the way it covered
  meanwhile: the difference passes for an outlier (`domain/odometry.py:46`; `clean`, for the lower bound of `MileageIsTravelled`).
- The first interval of the dead reckoning is measured from the start of the node (`odom_calculation.py:61`), so motion before the
  second message is scaled wrongly, which the measured interval is there to prevent (`:103`; the condition `stood` of `PoseFollows`); the dead zones lose slow motion that is spread over a long gap (`:114`; `clean`).
- One plausible but wrong first reading of the pack is shown for ten seconds (`domain/battery.py:43`; `GaugeIsTypical` asks for a majority).
- State that outlives a silence of the receiver is written with a new `ts` at the first sentence after it (`gnss_rtu608bt_read.py:290`), and a GGA with
  a fix and no position renews the old position (`:98`); both are the condition `unsure` of `FixedIsRecent`. A clock
  that is set back makes a payload look fresh for as long again (`dashboard/serve.py:352`; the terms `back`), and a receiver that comes back under another
  device file is not found (`gnss_rtu608bt_read.py:277`).

## 8. Where to go on

- The link log of `serve.py` as a reporter of `EventLog`; the hold-to-jog of `plc_combined.html` as a client of `PlcClient`.
