-------------------------------- MODULE Cameras --------------------------------
(***************************************************************************)
(* The capture threads of the two cameras and their detection workers.  A    *)
(* capture thread opens its camera, grabs pictures and reopens a camera it    *)
(* has lost.  Every opening of a ZED is a session: a call of _capture_loop,   *)
(* with a mailbox for one picture, an event and a worker thread of its own,   *)
(* none of which is told when the session ends.  A picture that the display   *)
(* throttle skips leaves no trace and is not a step.                          *)
(***************************************************************************)
EXTENDS Naturals

CONSTANTS
  Feeds,       \* front and rear
  Setups,      \* the sources the feeds may have, as functions from Feeds
  Streamed,    \* feeds whose detections clients ask for
  LostLimit,   \* ZED_GRAB_LOST_LIMIT
  MaxTroubles, \* bound on outages and exceptions under each setup, for model checking only
  MaxSession   \* as many sessions as so many troubles can make

\* A ZED through its SDK, a ZED through OpenCV (front, if pyzed is missing), a
\* USB webcam (rear), nothing.
Sources == {"sdk", "cv", "webcam", "none"}

ASSUME CamerasAssumption ==
  /\ Setups \subseteq [Feeds -> Sources] /\ Streamed \subseteq Feeds
  /\ LostLimit \in Nat \ {0} /\ MaxTroubles \in [Setups -> Nat]
  /\ MaxSession \in Nat \ {0} /\ \A src \in Setups : MaxTroubles[src] < MaxSession

Openings == 1..MaxSession

VARIABLES
  source,    \* where each feed comes from, fixed at start
  phase,     \* where its capture thread is
  ready,     \* environment: whether the camera would deliver a picture
  held,      \* whether a handle of the camera is open
  lost,      \* grabs that failed in a row
  connected, \* FeedState.connected
  session,   \* the latest session
  yolo,      \* YOLO_MODEL_OBJ is not None
  sees,      \* yolo of the latest session is not None
  work,      \* mailbox, event and worker of every session
  streaming, \* whether a client streams detections
  wanted,    \* DetectionState.wanted()
  result,    \* the session whose result DetectionState holds, 0 for none
  late,      \* history: results published by sessions that had ended, up to 3
  troubles   \* history: number of outages and exceptions

capture == <<phase, held, lost, connected, session, yolo, sees>>
detection == <<work, result, late>>
clients == <<streaming, wanted>>
camerasVars == <<source, ready, troubles, capture, detection, clients>>

NoWorker == [at |-> "none", frame |-> FALSE, event |-> FALSE]
Worker == [at : {"none", "wait", "take", "lock", "infer", "publish"},
           frame : BOOLEAN, event : BOOLEAN]

CamerasTypeOK ==
  /\ source \in Setups
  /\ phase \in [Feeds -> {"off", "load", "open", "grab", "signal", "lost", "close", "dead"}]
  /\ lost \in [Feeds -> 0..LostLimit] /\ session \in [Feeds -> 0..MaxSession]
  /\ {ready, held, connected, sees, streaming, wanted} \subseteq [Feeds -> BOOLEAN]
  /\ yolo \in BOOLEAN /\ troubles \in 0..MaxTroubles[source]
  /\ work \in [Feeds -> [Openings -> Worker]]
  /\ result \in [Feeds -> 0..MaxSession]
  /\ late \in [Feeds -> [Openings -> 0..3]]

CamerasInit ==
  /\ source \in Setups
  /\ phase = [f \in Feeds |-> CASE source[f] = "none" -> "off"
                             [] source[f] = "cv" -> "load"
                             [] OTHER -> "open"]
  /\ ready \in [Feeds -> BOOLEAN] /\ \A f \in Feeds : source[f] = "none" => ~ready[f]
  /\ held = [f \in Feeds |-> FALSE]
  /\ lost = [f \in Feeds |-> 0] /\ connected = [f \in Feeds |-> FALSE]
  /\ session = [f \in Feeds |-> IF source[f] = "cv" THEN 1 ELSE 0]
  /\ yolo = FALSE /\ sees = [f \in Feeds |-> FALSE]
  /\ work = [f \in Feeds |-> [s \in Openings |-> NoWorker]]
  /\ streaming = [f \in Feeds |-> FALSE] /\ wanted = [f \in Feeds |-> FALSE]
  /\ result = [f \in Feeds |-> 0]
  /\ late = [f \in Feeds |-> [s \in Openings |-> 0]]
  /\ troubles = 0

Enter(f, stage) == phase' = [phase EXCEPT ![f] = stage]
Hold(f, b) == held' = [held EXCEPT ![f] = b]
SetStatus(f, b) == connected' = [connected EXCEPT ![f] = b]
Ended(f, s) ==
  s # session[f] \/ phase[f] = "dead" \/ (source[f] = "sdk" /\ phase[f] \in {"open", "lost", "close"})

-----------------------------------------------------------------------------
(* The capture thread of a feed *)

\* A camera can be opened if it is there and no handle of it is left open; an
\* attempt that fails changes nothing and is made again.  A ZED begins a session.
OpenZed(f) ==
  /\ source[f] = "sdk" /\ phase[f] = "open" /\ ready[f] /\ ~held[f]
  /\ Hold(f, TRUE) /\ session' = [session EXCEPT ![f] = @ + 1] /\ Enter(f, "load")
  /\ UNCHANGED <<lost, connected, yolo, sees, work>>

\* The OpenCV feed is connected at once, the webcam with its first picture.
OpenPlain(f) ==
  /\ source[f] # "sdk" /\ phase[f] = "open" /\ ready[f] /\ ~held[f]
  /\ Hold(f, TRUE) /\ SetStatus(f, source[f] = "cv") /\ Enter(f, "grab")
  /\ UNCHANGED <<lost, session, yolo, sees, work>>

\* The shared model is loaded by the first session that comes here, and by the
\* next one if that failed.
GetSharedYolo(ok) == (yolo => ok) /\ yolo' = ok

\* A session without the model starts no worker.
Load(f) ==
  /\ phase[f] = "load"
  /\ \E ok \in BOOLEAN :
       /\ GetSharedYolo(ok) /\ sees' = [sees EXCEPT ![f] = ok]
       /\ work' = IF ok THEN [work EXCEPT ![f][session[f]].at = "wait"] ELSE work
  /\ lost' = [lost EXCEPT ![f] = 0]
  /\ Enter(f, IF source[f] = "cv" THEN "open" ELSE "grab")
  /\ UNCHANGED <<held, connected, session>>

Pictured(f) ==
  /\ phase[f] = "grab" /\ ready[f]
  /\ lost' = [lost EXCEPT ![f] = 0] /\ SetStatus(f, TRUE)
  /\ UNCHANGED <<held, session, yolo, sees>>

Grab(f) == Pictured(f) /\ UNCHANGED <<phase, work>>

\* Variant: pictures go to the mailbox of the first session.
PutFirst(f) ==
  /\ Pictured(f) /\ sees[f] /\ wanted[f] /\ Enter(f, "signal")
  /\ work' = [work EXCEPT ![f][1].frame = TRUE, ![f][1].event = TRUE]

\* If detections are wanted a picture is put in the mailbox, over an older one,
\* and then the event is set.
Put(f) ==
  /\ Pictured(f) /\ sees[f] /\ wanted[f] /\ Enter(f, "signal")
  /\ work' = [work EXCEPT ![f][session[f]].frame = TRUE]

Signal(f) ==
  /\ phase[f] = "signal" /\ Enter(f, "grab")
  /\ work' = [work EXCEPT ![f][session[f]].event = TRUE]
  /\ UNCHANGED <<held, lost, connected, session, yolo, sees>>

GrabFails(f) == phase[f] = "grab" /\ ~ready[f] /\ SetStatus(f, FALSE)

\* Variant: one failure too many is waited for.
LoseZedLate(f) ==
  /\ GrabFails(f) /\ source[f] = "sdk"
  /\ lost' = [lost EXCEPT ![f] = @ + 1]
  /\ Enter(f, IF lost[f] + 1 > LostLimit THEN "lost" ELSE "grab")
  /\ UNCHANGED <<held, session, yolo, sees, work>>

\* The last of a row of failures ends the session of a ZED.
LoseZed(f) ==
  /\ GrabFails(f) /\ source[f] = "sdk"
  /\ lost' = [lost EXCEPT ![f] = @ + 1]
  /\ Enter(f, IF lost[f] + 1 >= LostLimit THEN "lost" ELSE "grab")
  /\ UNCHANGED <<held, session, yolo, sees, work>>

\* The others are released at the first.
LosePlain(f) ==
  /\ GrabFails(f) /\ source[f] # "sdk"
  /\ Hold(f, FALSE) /\ Enter(f, "open")
  /\ UNCHANGED <<lost, session, yolo, sees, work>>

\* However a session ended, its feed is not connected.
Drop(f) ==
  /\ phase[f] = "lost" /\ Enter(f, "close") /\ SetStatus(f, FALSE)
  /\ UNCHANGED <<held, lost, session, yolo, sees, work>>

\* Variant: the handle is not closed.
CloseForgotten(f) ==
  /\ phase[f] = "close" /\ Enter(f, "open")
  /\ UNCHANGED <<held, lost, connected, session, yolo, sees, work>>

Close(f) ==
  /\ phase[f] = "close" /\ Enter(f, "open") /\ Hold(f, FALSE)
  /\ UNCHANGED <<lost, connected, session, yolo, sees, work>>

Capture(f) ==
  /\ \/ OpenZed(f) \/ OpenPlain(f) \/ Load(f) \/ Grab(f) \/ Put(f) \/ Signal(f)
     \/ LoseZed(f) \/ LosePlain(f) \/ Drop(f) \/ Close(f)
  /\ UNCHANGED <<source, ready, troubles, result, late, clients>>

-----------------------------------------------------------------------------
(* The worker of session s of feed f *)

Worked(f, s, w) == work' = [work EXCEPT ![f][s] = w]
Advance(f, s, from, to) ==
  work[f][s].at = from /\ Worked(f, s, [work[f][s] EXCEPT !.at = to])

Clear(f, s) ==
  /\ work[f][s].at = "wait" /\ work[f][s].event
  /\ Worked(f, s, [work[f][s] EXCEPT !.at = "take", !.event = FALSE])
  /\ UNCHANGED <<result, late>>

Take(f, s) ==
  /\ work[f][s].at = "take"
  /\ Worked(f, s, [work[f][s] EXCEPT !.at = IF work[f][s].frame THEN "lock" ELSE "wait",
                                     !.frame = FALSE])
  /\ UNCHANGED <<result, late>>

\* YOLO_INFER_LOCK: one inference at a time.
Infer(f, s) ==
  /\ \A g \in Feeds, t \in Openings : work[g][t].at # "infer"
  /\ Advance(f, s, "lock", "infer") /\ UNCHANGED <<result, late>>

Inferred(f, s) == Advance(f, s, "infer", "publish") /\ UNCHANGED <<result, late>>

\* It is published whether or not the session is over.
Published(f, s) ==
  /\ result' = [result EXCEPT ![f] = s]
  /\ late' = IF Ended(f, s) /\ late[f][s] < 3
             THEN [late EXCEPT ![f][s] = @ + 1] ELSE late

Publish(f, s) == Advance(f, s, "publish", "wait") /\ Published(f, s)

Work(f, s) ==
  /\ Clear(f, s) \/ Take(f, s) \/ Infer(f, s) \/ Inferred(f, s) \/ Publish(f, s)
  /\ UNCHANGED <<source, ready, troubles, capture, clients>>

-----------------------------------------------------------------------------
(* Clients, cameras and exceptions *)

\* A request for detections marks them wanted for 3 s, a stream as long as it lasts.
Ask(f) == f \in Streamed /\ wanted' = [wanted EXCEPT ![f] = TRUE] /\ UNCHANGED streaming
Stream(f) ==
  /\ f \in Streamed /\ ~streaming[f]
  /\ streaming' = [streaming EXCEPT ![f] = TRUE] /\ wanted' = [wanted EXCEPT ![f] = TRUE]
Disconnect(f) == streaming[f] /\ streaming' = [streaming EXCEPT ![f] = FALSE] /\ UNCHANGED wanted
Expire(f) == ~streaming[f] /\ wanted' = [wanted EXCEPT ![f] = FALSE] /\ UNCHANGED streaming
Client(f) ==
  /\ source[f] # "none"
  /\ Ask(f) \/ Stream(f) \/ Disconnect(f) \/ Expire(f)
  /\ UNCHANGED <<source, ready, troubles, capture, detection>>

Trouble == troubles < MaxTroubles[source] /\ troubles' = troubles + 1

\* A camera is unplugged or hangs, and comes back.
Unplug(f) == Trouble /\ ready[f] /\ ready' = [ready EXCEPT ![f] = FALSE]
             /\ UNCHANGED <<source, capture, detection, clients>>
Plug(f) == source[f] # "none" /\ ~ready[f] /\ ready' = [ready EXCEPT ![f] = TRUE]
           /\ UNCHANGED <<source, troubles, capture, detection, clients>>

\* A capture loop raises.  That ends the session of a ZED, and the thread of any
\* other camera for good.
Raise(f) ==
  /\ Trouble
  /\ \/ source[f] = "sdk" /\ phase[f] = "grab" /\ Enter(f, "lost")
     \/ source[f] # "sdk" /\ phase[f] \in {"open", "grab"} /\ Enter(f, "dead")
  /\ UNCHANGED <<source, ready, held, lost, connected, session, yolo, sees,
                 detection, clients>>

\* An inference raises, which is logged.
InferRaises(f, s) ==
  /\ Trouble /\ Advance(f, s, "infer", "wait")
  /\ UNCHANGED <<source, ready, capture, result, late, clients>>

CamerasNext ==
  \E f \in Feeds :
    \/ Capture(f) \/ Client(f) \/ Unplug(f) \/ Plug(f) \/ Raise(f)
    \/ \E s \in Openings : Work(f, s) \/ InferRaises(f, s)

CamerasSpec == CamerasInit /\ [][CamerasNext]_camerasVars

\* The threads run; clients, cameras and exceptions come or do not.
CamerasFairness ==
  \A f \in Feeds : /\ WF_camerasVars(Capture(f))
                   /\ \A s \in Openings : WF_camerasVars(Work(f, s))
CamerasFairSpec == CamerasSpec /\ CamerasFairness

-----------------------------------------------------------------------------
(* Properties *)

\* Nobody stops the worker of a session that has ended, but it publishes no more
\* than the picture it works on and the one in its mailbox.
FewLateResults == \A f \in Feeds, s \in Openings : late[f][s] <= 2

\* A camera that stays plugged in is connected again in the end, unless its
\* thread has died of an exception, which that of a ZED never does.
Recovers ==
  \A f \in Feeds : <>[]ready[f] =>
    <>[](connected[f] \/ (source[f] # "sdk" /\ phase[f] = "dead"))

\* A client that keeps watching, alone, while the capture thread lives, ends up
\* with the results of the session under way and no others, however slowly the
\* workers of older ones retire.
LiveResults ==
  \A f \in Feeds :
    <>[](ready[f] /\ sees[f] /\ phase[f] # "dead" /\ streaming[f] /\ \A g \in Feeds \ {f} : ~wanted[g])
      => <>[](result[f] = session[f])
=============================================================================
