------------------------------- MODULE VideoProofs -------------------------------
(***************************************************************************)
(* Theorems about the two users of the cameras, for every number of sessions, *)
(* clients, feeds and failures.  Recording: only the file a live loop has     *)
(* open is ever at risk.  Cameras: the worker of a session that has ended      *)
(* publishes at most two more results.                                        *)
(***************************************************************************)
EXTENDS Recording, Cameras, TLAPS

-----------------------------------------------------------------------------
(* Recording *)

\* The bound of the segment index is a natural number.
LEMMA Bound == Segments \in Nat
BY RecordingAssumption

-----------------------------------------------------------------------------
(* Type correctness *)

\* An active recording has a directory, so that a stop has a session to end.
Typed == TypeOK /\ (active => dir \in Dirs)

LEMMA TypedInit == Init => Typed
<1> SUFFICES ASSUME Init PROVE Typed
  OBVIOUS
<1>1. at \in [Sessions -> Stage] /\ writing \in [Sessions -> BOOLEAN]
  BY DEF Init, Stage
<1>2. spawning \in [Clients -> Sessions \cup {None}] /\ into \in [Sessions -> Dirs \cup {None}]
  BY DEF Init
<1>3. segment \in [Sessions -> 0..Segments] /\ files \in [File -> {"absent", "partial", "mixed", "final"}]
  BY Bound DEF Init
<1> QED
  BY <1>1, <1>2, <1>3 DEF Init, TypeOK, Typed

LEMMA ReleaseType ==
  ASSUME TypeOK, NEW s \in Sessions, Release(s)
  PROVE  /\ writing' \in [Sessions -> BOOLEAN]
         /\ files' \in [File -> {"absent", "partial", "mixed", "final"}]
<1>1. writing' \in [Sessions -> BOOLEAN]
  BY DEF Release, TypeOK
<1>2. files' \in [File -> {"absent", "partial", "mixed", "final"}]
  <2>1. CASE writing[s]
    BY <2>1 DEF Release, TypeOK
  <2>2. CASE ~writing[s]
    BY <2>2 DEF Release, TypeOK
  <2> QED
    BY <2>1, <2>2
<1> QED
  BY <1>1, <1>2

LEMMA TypedNext == Typed /\ [Next]_vars => Typed'
<1> SUFFICES ASSUME Typed, [Next]_vars PROVE Typed'
  OBVIOUS
<1> USE Bound DEF Stage, Typed
<1>1. ASSUME NEW c \in Clients, NEW s \in Sessions, Start(c, s) PROVE Typed'
  BY <1>1 DEF Start, loops, TypeOK
<1>2. ASSUME NEW c \in Clients, Spawn(c) PROVE Typed'
  BY <1>2 DEF Spawn, Go, TypeOK
<1>3. ASSUME NEW c \in Clients, Stop(c) PROVE Typed'
  BY <1>3 DEF Stop, loops, TypeOK
<1>4. ASSUME NEW s \in Sessions, Import(s) \/ ReadDir(s) \/ Abort(s) \/ Top(s)
      PROVE  Typed'
  <2>1. active' \in BOOLEAN
    BY <1>4, Zenon DEF Import, ReadDir, Abort, Top, TypeOK
  <2> QED
    BY <1>4, <2>1 DEF Import, ReadDir, Abort, Top, Go, TypeOK
<1>5. ASSUME NEW s \in Sessions, Roll(s) PROVE Typed'
  <2>1. /\ writing' \in [Sessions -> BOOLEAN]
        /\ files' \in [File -> {"absent", "partial", "mixed", "final"}]
    BY <1>5, ReleaseType DEF Roll, TypeOK
  <2>2. segment' \in [Sessions -> 0..Segments] /\ at' \in [Sessions -> Stage]
    BY <1>5 DEF Roll, Go, TypeOK
  <2> QED
    BY <1>5, <2>1, <2>2 DEF Roll, TypeOK
<1>6. ASSUME NEW s \in Sessions, Write(s) PROVE Typed'
  BY <1>6 DEF Write, Go, TypeOK
<1>7. ASSUME NEW s \in Sessions, Last(s) PROVE Typed'
  BY <1>7, ReleaseType DEF Last, Go, TypeOK
<1>8. CASE UNCHANGED vars
  BY <1>8 DEF vars, TypeOK
<1> QED
  BY <1>1, <1>2, <1>3, <1>4, <1>5, <1>6, <1>7, <1>8 DEF Next, Loop

\* Every variable keeps its type.
THEOREM TypeCorrect == Spec => []TypeOK
<1>1. Typed => TypeOK
  BY DEF Typed
<1> QED
  BY TypedInit, TypedNext, <1>1, PTL DEF Spec

-----------------------------------------------------------------------------
(* What is at risk *)

\* A session is spawned once, by the client that started it, and its loop has a
\* writer only while it goes round.
Ordered ==
  /\ \A c \in Clients : spawning[c] # None => at[spawning[c]] = "unborn"
  /\ \A c, d \in Clients : c # d /\ spawning[c] # None => spawning[c] # spawning[d]
  /\ \A s \in Sessions : writing[s] => at[s] \in {"top", "roll", "write", "release"}

LEMMA OrderedInit == Init => Ordered
BY DEF Init, Ordered

LEMMA OrderedNext == Typed /\ Ordered /\ [Next]_vars => Ordered'
<1> SUFFICES ASSUME TypeOK, Ordered, [Next]_vars PROVE Ordered'
  BY DEF Typed
<1>1. ASSUME NEW c \in Clients, NEW s \in Sessions, Start(c, s) PROVE Ordered'
  BY <1>1 DEF Start, New, loops, TypeOK, Ordered
<1>2. ASSUME NEW c \in Clients, Spawn(c) PROVE Ordered'
  <2>1. spawning[c] \in Sessions /\ at[spawning[c]] = "unborn"
    BY <1>2 DEF Spawn, TypeOK, Ordered
  <2>2. /\ at' = [at EXCEPT ![spawning[c]] = "import"] /\ writing' = writing
        /\ spawning' = [spawning EXCEPT ![c] = None]
    BY <1>2 DEF Spawn, Go
  <2> QED
    BY <2>1, <2>2 DEF TypeOK, Ordered
<1>3. ASSUME NEW c \in Clients, Stop(c) PROVE Ordered'
  BY <1>3 DEF Stop, loops, Ordered
<1>4. ASSUME NEW s \in Sessions, Import(s) \/ ReadDir(s) \/ Abort(s) \/ Top(s)
      PROVE  Ordered'
  BY <1>4 DEF Import, ReadDir, Abort, Top, Go, TypeOK, Ordered
<1>5. ASSUME NEW s \in Sessions, Roll(s) \/ Write(s) \/ Last(s) PROVE Ordered'
  BY <1>5 DEF Roll, Write, Last, Release, Go, TypeOK, Ordered
<1>6. CASE UNCHANGED vars
  BY <1>6 DEF vars, Ordered
<1> QED
  BY <1>1, <1>2, <1>3, <1>4, <1>5, <1>6 DEF Next, Loop

\* A release makes the file of the loop final, and no file loses its writer
\* otherwise.
LEMMA ReleaseKeeps ==
  ASSUME TypeOK, Ordered, OnlyLastAtRisk, NEW s \in Sessions, Release(s),
         into' = into, \A q \in Sessions \ {s} : segment'[q] = segment[q] /\ at'[q] = at[q]
  PROVE  OnlyLastAtRisk'
<1> USE DEF Current
<1> SUFFICES ASSUME NEW f \in File, files'[f] = "partial"
             PROVE  \E q \in Sessions : (writing[q] /\ Alive(q) /\ f = Current(q))'
  BY DEF OnlyLastAtRisk
<1>1. files[f] = "partial" /\ ~(writing[s] /\ f = Current(s))
  BY DEF Release, TypeOK, Current
<1>2. PICK q \in Sessions : writing[q] /\ Alive(q) /\ f = Current(q)
  BY <1>1 DEF OnlyLastAtRisk
<1>3. q # s
  BY <1>1, <1>2
<1>4. writing'[q] = writing[q]
  BY <1>3 DEF Release, TypeOK
<1> QED
  BY <1>2, <1>3, <1>4 DEF Alive

LEMMA RiskNext == Typed /\ Ordered /\ OnlyLastAtRisk /\ [Next]_vars => OnlyLastAtRisk'
<1> SUFFICES ASSUME TypeOK, Ordered, OnlyLastAtRisk, [Next]_vars PROVE OnlyLastAtRisk'
  BY DEF Typed
<1> USE DEF Current
<1>1. ASSUME NEW c \in Clients, NEW s \in Sessions, Start(c, s) PROVE OnlyLastAtRisk'
  BY <1>1 DEF Start, loops, OnlyLastAtRisk, Alive
<1>8. ASSUME NEW c \in Clients, Stop(c) PROVE OnlyLastAtRisk'
  BY <1>8 DEF Stop, loops, OnlyLastAtRisk, Alive
<1>2. ASSUME NEW c \in Clients, Spawn(c) PROVE OnlyLastAtRisk'
  <2>1. /\ at' = [at EXCEPT ![spawning[c]] = "import"]
        /\ UNCHANGED <<into, segment, writing, files>>
    BY <1>2 DEF Spawn, Go
  <2>2. \A q \in Sessions : Alive(q) => Alive(q)'
    BY <2>1 DEF Alive, TypeOK
  <2> QED
    BY <2>1, <2>2 DEF OnlyLastAtRisk
<1>3. ASSUME NEW s \in Sessions, Import(s) \/ ReadDir(s) \/ Abort(s) \/ Top(s)
      PROVE  OnlyLastAtRisk'
  <2>1. UNCHANGED <<segment, writing, files>>
    BY <1>3 DEF Import, ReadDir, Abort, Top
  <2>2. \A q \in Sessions : writing[q] /\ Alive(q) => Alive(q)' /\ into'[q] = into[q]
    BY <1>3 DEF Import, ReadDir, Abort, Top, Go, Alive, TypeOK, Ordered
  <2> QED
    BY <2>1, <2>2 DEF OnlyLastAtRisk
<1>4. ASSUME NEW s \in Sessions, Roll(s) PROVE OnlyLastAtRisk'
  <2>1. into' = into /\ at' = [at EXCEPT ![s] = "write"]
    BY <1>4 DEF Roll, Go
  <2>2. CASE UNCHANGED <<segment, writing, files>>
    BY <2>1, <2>2 DEF OnlyLastAtRisk, Alive, TypeOK
  <2>3. CASE Release(s) /\ segment' = [segment EXCEPT ![s] = segment[s] + 1]
    BY <2>1, <2>3, ReleaseKeeps DEF TypeOK
  <2> QED
    BY <1>4, <2>2, <2>3 DEF Roll
<1>5. ASSUME NEW s \in Sessions, Write(s) PROVE OnlyLastAtRisk'
  <2>1. into' = into /\ segment' = segment /\ at' = [at EXCEPT ![s] = "top"]
    BY <1>5 DEF Write, Go
  <2>2. \A q \in Sessions : Alive(q) => Alive(q)'
    BY <2>1 DEF Alive, TypeOK
  <2>3. CASE UNCHANGED <<writing, files>>
    BY <2>1, <2>2, <2>3 DEF OnlyLastAtRisk
  <2>4. CASE /\ writing' = [writing EXCEPT ![s] = TRUE]
             /\ files' = [files EXCEPT ![Current(s)] =
                  IF Shared(s) \/ (writing[s] /\ @ = "mixed") THEN "mixed" ELSE "partial"]
    <3> SUFFICES ASSUME NEW f \in File, files'[f] = "partial"
                 PROVE  \E q \in Sessions :
                          (writing[q] /\ Alive(q) /\ f = Current(q))'
      BY DEF OnlyLastAtRisk
    <3>1. CASE f = Current(s)
      <4>1. writing'[s] /\ Alive(s)'
        BY <2>1, <2>4 DEF Alive, TypeOK
      <4> QED
        BY <2>1, <3>1, <4>1
    <3>2. CASE f # Current(s)
      <4>1. files[f] = "partial"
        BY <2>4, <3>2 DEF TypeOK
      <4>2. PICK q \in Sessions : writing[q] /\ Alive(q) /\ f = Current(q)
        BY <4>1 DEF OnlyLastAtRisk
      <4>3. writing'[q]
        BY <2>4, <4>2 DEF TypeOK
      <4> QED
        BY <2>1, <2>2, <4>2, <4>3
    <3> QED
      BY <3>1, <3>2
  <2> QED
    BY <1>5, <2>3, <2>4 DEF Write
<1>6. ASSUME NEW s \in Sessions, Last(s) PROVE OnlyLastAtRisk'
  BY <1>6, ReleaseKeeps DEF Last, Go, TypeOK
<1>7. CASE UNCHANGED vars
  BY <1>7 DEF vars, OnlyLastAtRisk, Alive
<1> QED
  BY <1>1, <1>2, <1>3, <1>4, <1>5, <1>6, <1>7, <1>8 DEF Next, Loop

\* A crash at any moment loses at most the files that live loops have open as
\* their current ones.
THEOREM CrashLosesLast == Spec => []OnlyLastAtRisk
<1>1. Init => OnlyLastAtRisk
  BY DEF Init, OnlyLastAtRisk
<1> QED
  BY TypedInit, TypedNext, OrderedInit, OrderedNext, RiskNext, <1>1, PTL DEF Spec

\* A file that is final was written by a loop that is past it, and a loop that has
\* not begun to write is in its first segment.
Passed(s, f) ==
  into[s] = f[1] /\ (f[2] < segment[s] \/ (f[2] = segment[s] /\ at[s] = "dead"))
Finished ==
  /\ \A s \in Sessions : at[s] \in {"unborn", "import", "dir"} => segment[s] = 0
  /\ \A f \in File : files[f] = "final" => \E s \in Sessions : Passed(s, f)

LEMMA FinishedInit == Init => Finished
BY DEF Init, Finished

\* No step but the end of a segment makes a file final.
LEMMA StillFinal ==
  ASSUME TypeOK, NEW f \in File, files'[f] = "final", files[f] # "final", [Next]_vars
  PROVE  \E s \in Sessions : (Roll(s) \/ Last(s)) /\ Release(s) /\ writing[s] /\ f = Current(s)
<1>1. ASSUME NEW s \in Sessions, Roll(s) \/ Last(s)
      PROVE  Release(s) /\ writing[s] /\ f = Current(s)
  BY <1>1 DEF Roll, Last, Release, Current, TypeOK
<1>2. ASSUME NEW s \in Sessions, Write(s) PROVE FALSE
  BY <1>2 DEF Write, TypeOK
<1> QED
  BY <1>1, <1>2, Zenon DEF Next, Loop, Start, Spawn, Stop, Import, ReadDir, Abort, Top, loops, vars

LEMMA FinishedNext == Typed /\ Ordered /\ Finished /\ [Next]_vars => Finished'
<1> SUFFICES ASSUME TypeOK, TypeOK', Ordered, Finished, [Next]_vars PROVE Finished'
  BY TypedNext DEF Typed
<1> USE Bound
\* A loop that is past a file stays so.
<1>1. ASSUME NEW s \in Sessions, NEW f \in File, Passed(s, f) PROVE Passed(s, f)'
  <2> DEFINE Kept == /\ into'[s] = into[s] /\ segment'[s] >= segment[s]
                     /\ segment'[s] = segment[s] /\ at[s] = "dead" => at'[s] = "dead"
  <2>0. f[2] \in Nat /\ segment[s] \in Nat /\ segment'[s] \in Nat
    BY DEF File, TypeOK
  <2>1. at[s] \notin {"unborn", "import", "dir"}
    BY <1>1 DEF Passed, Finished, File, TypeOK
  <2>2. ASSUME NEW c \in Clients, Spawn(c)
        PROVE  into' = into /\ segment' = segment /\ at'[s] = at[s]
    BY <2>1, <2>2 DEF Spawn, Go, Ordered, TypeOK
  <2>3. ASSUME NEW t \in Sessions, Loop(t) PROVE Kept
    BY <2>1, <2>3 DEF Loop, Import, ReadDir, Abort, Top, Roll, Write, Last, Go, TypeOK
  <2>4. Kept
    BY <2>0, <2>2, <2>3 DEF Next, Start, Stop, loops, vars, TypeOK
  <2> QED
    BY <1>1, <2>0, <2>4 DEF Passed
<1>2. ASSUME NEW s \in Sessions, at'[s] \in {"unborn", "import", "dir"} PROVE segment'[s] = 0
  <2>1. ASSUME NEW c \in Clients, Spawn(c) PROVE segment'[s] = 0
    BY <1>2, <2>1 DEF Spawn, Go, Ordered, Finished, TypeOK
  <2>2. ASSUME NEW t \in Sessions, Loop(t) PROVE segment'[s] = 0
    BY <1>2, <2>2
    DEF Loop, Import, ReadDir, Abort, Top, Roll, Write, Last, Go, Finished, TypeOK
  <2> QED
    BY <1>2, <2>1, <2>2 DEF Next, Start, Stop, loops, vars, Finished
<1>3. ASSUME NEW f \in File, files'[f] = "final" PROVE \E s \in Sessions : Passed(s, f)'
  <2>1. CASE files[f] = "final"
    BY <1>1, <2>1 DEF Finished
  <2>2. CASE files[f] # "final"
    <3>1. PICK s \in Sessions : (Roll(s) \/ Last(s)) /\ Release(s) /\ writing[s] /\ f = Current(s)
      BY <1>3, <2>2, StillFinal
    <3>2. f[1] = into[s] /\ f[2] = segment[s]
      BY <3>1 DEF Current
    <3>3. into' = into /\ (segment'[s] > segment[s] \/ (segment' = segment /\ at'[s] = "dead"))
      BY <1>3, <2>2, <3>1 DEF Roll, Last, Release, Go, TypeOK
    <3> QED
      BY <3>2, <3>3 DEF Passed
  <2> QED
    BY <2>1, <2>2
<1> QED
  BY <1>2, <1>3 DEF Finished

\* A finalized segment is opened anew only where two loops write into one directory.
THEOREM FinalsStay == Spec => FinalStays
<1>1. ASSUME Typed, Ordered, Finished, [Next]_vars, NEW f \in File, files[f] = "final",
             ~Together(f[1])
      PROVE  files'[f] = "final"
  <2>1. PICK s \in Sessions : Passed(s, f)
    BY <1>1 DEF Finished
  <2>2. ASSUME NEW t \in Sessions, Write(t) PROVE files'[f] = "final"
    <3>1. SUFFICES ASSUME f = Current(t) PROVE FALSE
      BY <1>1, <2>2 DEF Write, Typed, TypeOK
    <3>2. t = s
      BY <1>1, <2>1, <3>1 DEF Together, Passed, Current
    <3>3. f[2] = segment[s] /\ segment[s] \in Nat /\ at[s] = "write"
      BY <1>1, <2>2, <3>1, <3>2, Bound DEF Current, Write, Typed, TypeOK
    <3> QED
      BY <2>1, <3>3 DEF Passed
  <2>3. ASSUME NEW t \in Sessions, Roll(t) \/ Last(t) PROVE files'[f] = "final"
    BY <1>1, <2>3 DEF Roll, Last, Release, Typed, TypeOK
  <2> QED
    BY <1>1, <2>2, <2>3, Zenon
    DEF Next, Loop, Start, Spawn, Stop, Import, ReadDir, Abort, Top, loops, vars
<1>2. Typed /\ Ordered /\ Finished /\ [Next]_vars
        => [\A f \in File : files[f] = "final" /\ ~Together(f[1]) => files'[f] = "final"]_vars
  BY <1>1
<1> QED
  BY <1>2, TypedInit, OrderedInit, FinishedInit, TypedNext, OrderedNext, FinishedNext, PTL
  DEF Spec, FinalStays

-----------------------------------------------------------------------------
(* Cameras: types *)

\* A session of a ZED has begun with an attempt that succeeded, and every one
\* before it was ended by trouble; the other sources have at most one session,
\* and only a ZED counts failures.
SessionOf(f) ==
  /\ source[f] = "sdk" =>
       /\ phase[f] \in {"load", "grab", "signal"} => session[f] > 0
       /\ session[f] <= troubles + IF phase[f] \in {"load", "grab", "signal"} /\ ready[f]
                                   THEN 1 ELSE 0
  /\ source[f] = "cv" => session[f] = 1
  /\ source[f] \in {"webcam", "none"} => sees[f] = FALSE /\ phase[f] \notin {"load", "signal"}
  /\ source[f] # "sdk" => lost[f] = 0

CamerasTyped ==
  /\ CamerasTypeOK
  /\ \A f \in Feeds : SessionOf(f) /\ (phase[f] \in {"grab", "signal"} => lost[f] < LostLimit)

\* The bounds of the model hold every session.
LEMMA CamerasTypes ==
  /\ LostLimit \in Nat \ {0} /\ MaxSession \in Nat \ {0}
  /\ \A src \in Setups : src \in [Feeds -> Sources] /\ MaxTroubles[src] \in Nat
                          /\ MaxTroubles[src] < MaxSession
BY CamerasAssumption

LEMMA CamerasTypedInit == CamerasInit => CamerasTyped
<1> SUFFICES ASSUME CamerasInit PROVE CamerasTyped
  OBVIOUS
<1> USE CamerasTypes
<1>1. source \in [Feeds -> Sources] /\ MaxTroubles[source] \in Nat
  BY DEF CamerasInit
<1>2. NoWorker \in Worker
  BY DEF NoWorker, Worker
<1>3. work \in [Feeds -> [Openings -> Worker]] /\ late \in [Feeds -> [Openings -> 0..3]]
  BY <1>2 DEF CamerasInit
<1>4. {ready, held, connected, sees, streaming, wanted} \subseteq [Feeds -> BOOLEAN]
  BY DEF CamerasInit
<1>5. phase \in [Feeds -> {"off", "load", "open", "grab", "signal", "lost", "close", "dead"}]
  BY <1>1 DEF CamerasInit, Sources
<1>6. session \in [Feeds -> 0..MaxSession] /\ lost \in [Feeds -> 0..LostLimit]
  BY DEF CamerasInit
<1>7. CamerasTypeOK
  <2>1. source \in Setups /\ yolo \in BOOLEAN /\ troubles \in 0..MaxTroubles[source]
    <3>1. source \in Setups /\ yolo = FALSE /\ troubles = 0
      BY Zenon DEF CamerasInit
    <3>2. 0 \in 0..MaxTroubles[source]
      BY <1>1
    <3> QED
      BY <3>1, <3>2, Zenon
  <2>2. result \in [Feeds -> 0..MaxSession]
    BY DEF CamerasInit
  <2> QED
    BY <1>3, <1>4, <1>5, <1>6, <2>1, <2>2, Zenon DEF CamerasTypeOK
<1>8. ASSUME NEW f \in Feeds
      PROVE  SessionOf(f) /\ phase[f] \notin {"grab", "signal"}
  BY <1>1 DEF CamerasInit, SessionOf, Sources
<1> QED
  BY <1>7, <1>8 DEF CamerasTyped

\* What a step of a capture thread does to the worker of its session.
LEMMA WorkType ==
  ASSUME work \in [Feeds -> [Openings -> Worker]],
         NEW f \in Feeds, NEW s \in Openings, NEW w \in Worker
  PROVE  [work EXCEPT ![f][s] = w] \in [Feeds -> [Openings -> Worker]]
OBVIOUS

\* The steps of capture threads keep the types of what they write.
LEMMA CaptureTypes ==
  ASSUME CamerasTyped, NEW f \in Feeds, Capture(f)
  PROVE  CamerasTyped'
<1> DEFINE Steady == UNCHANGED <<source, ready, troubles, result, late, streaming, wanted>>
           Phases == {"off", "load", "open", "grab", "signal", "lost", "close", "dead"}
           Flags == [Feeds -> BOOLEAN]
<1>1. Steady
  BY DEF Capture, clients
<1>2. /\ source \in Setups /\ source[f] \in Sources /\ troubles \in Nat
      /\ troubles < MaxSession /\ MaxSession \in Nat /\ LostLimit \in Nat \ {0}
  BY CamerasTypes DEF CamerasTyped, CamerasTypeOK
<1>3. /\ ready \in Flags /\ held \in Flags /\ connected \in Flags /\ sees \in Flags
      /\ yolo \in BOOLEAN
  BY Zenon DEF CamerasTyped, CamerasTypeOK
<1>11. phase \in [Feeds -> Phases] /\ lost \in [Feeds -> 0..LostLimit]
  BY DEF CamerasTyped, CamerasTypeOK
<1>12. session \in [Feeds -> 0..MaxSession]
  BY DEF CamerasTyped, CamerasTypeOK
<1>13. work \in [Feeds -> [Openings -> Worker]]
  BY DEF CamerasTyped, CamerasTypeOK
<1>4. SessionOf(f) /\ (phase[f] \in {"grab", "signal"} => lost[f] < LostLimit)
  BY DEF CamerasTyped
<1>5. /\ held' \in Flags /\ connected' \in Flags /\ sees' \in Flags /\ yolo' \in BOOLEAN
  <2>1. CASE Load(f)
    <3>1. PICK ok \in BOOLEAN : yolo' = ok /\ sees' = [sees EXCEPT ![f] = ok]
      BY <2>1, Zenon DEF Load, GetSharedYolo
    <3> QED
      BY <1>3, <2>1, <3>1 DEF Load
  <2>2. CASE ~Load(f)
    <3>1. UNCHANGED <<sees, yolo>>
      BY <2>2 DEF Capture, OpenZed, OpenPlain, Grab, Put, Signal, Pictured,
                  LoseZed, LosePlain, Drop, Close
    <3>2. held' = held \/ \E b \in BOOLEAN : held' = [held EXCEPT ![f] = b]
      BY <2>2 DEF Capture, OpenZed, OpenPlain, Grab, Put, Signal, Pictured,
                  LoseZed, LosePlain, Drop, Close, Hold
    <3>3. connected' = connected \/ \E b \in BOOLEAN : connected' = [connected EXCEPT ![f] = b]
      BY <2>2 DEF Capture, OpenZed, OpenPlain, Grab, Put, Signal, Pictured,
                  LoseZed, LosePlain, GrabFails, Drop, Close, SetStatus
    <3> QED
      BY <1>3, <3>1, <3>2, <3>3
  <2> QED
    BY <2>1, <2>2
<1>6. /\ phase' \in [Feeds -> Phases] /\ lost' \in [Feeds -> 0..LostLimit]
      /\ \A g \in Feeds \ {f} : phase'[g] = phase[g] /\ lost'[g] = lost[g]
      /\ phase'[f] \in {"grab", "signal"} => lost'[f] < LostLimit
  <2>1. CASE OpenZed(f)
    BY <1>2, <1>11, <1>4, <2>1 DEF OpenZed, Enter
  <2>2. CASE OpenPlain(f)
    <3>1. lost[f] = 0
      BY <1>4, <2>2 DEF OpenPlain, SessionOf
    <3> QED
      BY <1>2, <1>11, <2>2, <3>1 DEF OpenPlain, Enter
  <2>3. CASE Load(f)
    BY <1>2, <1>11, <2>3 DEF Load, Enter
  <2>4. CASE Grab(f) \/ Put(f)
    <3>1. lost' = [lost EXCEPT ![f] = 0]
      BY <2>4 DEF Grab, Put, Pictured
    <3>2. phase' = phase \/ phase' = [phase EXCEPT ![f] = "signal"]
      BY <2>4 DEF Grab, Put, Enter
    <3> QED
      BY <1>2, <1>11, <3>1, <3>2
  <2>5. CASE Signal(f)
    BY <1>2, <1>11, <1>4, <2>5 DEF Signal, Enter
  <2>6. CASE LoseZed(f)
    <3>1. lost[f] + 1 \in 0..LostLimit
      BY <1>2, <1>11, <1>4, <2>6 DEF LoseZed, GrabFails
    <3> QED
      BY <1>2, <1>11, <2>6, <3>1 DEF LoseZed, Enter
  <2>7. CASE LosePlain(f) \/ Drop(f) \/ Close(f)
    BY <1>2, <1>11, <2>7 DEF LosePlain, Drop, Close, Enter
  <2> QED
    BY <2>1, <2>2, <2>3, <2>4, <2>5, <2>6, <2>7 DEF Capture
<1>7. /\ session' \in [Feeds -> 0..MaxSession]
      /\ \A g \in Feeds \ {f} : session'[g] = session[g] /\ sees'[g] = sees[g]
      /\ SessionOf(f)'
  <2>1. CASE OpenZed(f)
    BY <1>1, <1>2, <1>3, <1>11, <1>12, <1>4, <2>1 DEF OpenZed, Enter, SessionOf
  <2>2. CASE OpenPlain(f) \/ Load(f) \/ Grab(f) \/ Put(f) \/ Signal(f)
    BY <1>1, <1>2, <1>3, <1>11, <1>12, <1>4, <2>2 DEF OpenPlain, Load, Grab, Put, Signal, Pictured,
       Enter, SessionOf, Sources
  <2>3. CASE LoseZed(f) \/ LosePlain(f) \/ Drop(f) \/ Close(f)
    BY <1>1, <1>2, <1>3, <1>11, <1>12, <1>4, <2>3 DEF LoseZed, LosePlain, GrabFails, Drop, Close,
       Enter, SessionOf
  <2> QED
    BY <2>1, <2>2, <2>3 DEF Capture
<1>8. work' \in [Feeds -> [Openings -> Worker]]
  <2>1. CASE Load(f) \/ Put(f) \/ Signal(f)
    <3>1. session[f] \in Openings
      <4>1. phase[f] \in {"load", "signal"} \/ sees[f] # FALSE
        BY <1>3, <2>1 DEF Load, Put, Signal
      <4>2. phase[f] \in {"load", "grab", "signal"}
        BY <2>1 DEF Load, Put, Signal, Pictured
      <4>3. session[f] > 0
        <5>1. source[f] \in {"sdk", "cv"}
          BY <1>2, <1>4, <4>1 DEF SessionOf, Sources
        <5> QED
          BY <1>4, <4>2, <5>1 DEF SessionOf
      <4> QED
        BY <1>2, <1>12, <4>3 DEF Openings
    <3> DEFINE w == work[f][session[f]]
    <3>2. w \in Worker
      BY <1>13, <3>1
    <3>3. /\ [w EXCEPT !.at = "wait"] \in Worker /\ [w EXCEPT !.frame = TRUE] \in Worker
          /\ [w EXCEPT !.event = TRUE] \in Worker
      BY <3>2 DEF Worker
    <3>4. \/ work' = work
          \/ work' = [work EXCEPT ![f][session[f]] = [w EXCEPT !.at = "wait"]]
          \/ work' = [work EXCEPT ![f][session[f]] = [w EXCEPT !.frame = TRUE]]
          \/ work' = [work EXCEPT ![f][session[f]] = [w EXCEPT !.event = TRUE]]
      <4>1. CASE Load(f)
        BY <1>13, <4>1 DEF Load
      <4>2. CASE Put(f) \/ Signal(f)
        BY <1>13, <4>2 DEF Put, Signal
      <4> QED
        BY <2>1, <4>1, <4>2
    <3> QED
      <4>1. ASSUME NEW v \in Worker, work' = [work EXCEPT ![f][session[f]] = v]
            PROVE  work' \in [Feeds -> [Openings -> Worker]]
        BY <1>13, <3>1, <4>1, WorkType
      <4> HIDE DEF w
      <4> QED
        BY <1>13, <3>3, <3>4, <4>1, Zenon
  <2>2. CASE ~(Load(f) \/ Put(f) \/ Signal(f))
    BY <1>13, <2>2 DEF Capture, OpenZed, OpenPlain, Grab, LoseZed, LosePlain, Drop, Close
  <2> QED
    BY <2>1, <2>2
<1>9. CamerasTypeOK'
  <2>1. streaming \in Flags /\ wanted \in Flags
    BY DEF CamerasTyped, CamerasTypeOK
  <2>2. {ready, held, connected, sees, streaming, wanted}' \subseteq Flags
    BY <1>1, <1>3, <1>5, <2>1, Zenon
  <2>3. result' \in [Feeds -> 0..MaxSession] /\ late' \in [Feeds -> [Openings -> 0..3]]
    BY <1>1 DEF CamerasTyped, CamerasTypeOK
  <2>4. source' \in Setups /\ troubles' \in 0..MaxTroubles[source']
    BY <1>1 DEF CamerasTyped, CamerasTypeOK
  <2> QED
    BY <1>5, <1>6, <1>7, <1>8, <2>2, <2>3, <2>4, Zenon DEF CamerasTypeOK
<1>10. ASSUME NEW g \in Feeds \ {f}
       PROVE  SessionOf(g)' /\ (phase'[g] \in {"grab", "signal"} => lost'[g] < LostLimit)
  <2>1. SessionOf(g) /\ (phase[g] \in {"grab", "signal"} => lost[g] < LostLimit)
    BY DEF CamerasTyped
  <2> QED
    BY <1>1, <1>6, <1>7, <2>1 DEF SessionOf
<1> QED
  BY <1>6, <1>7, <1>9, <1>10 DEF CamerasTyped

\* A step of a worker: its next state, and no change outside of the detection.
LEMMA WorkerStep ==
  ASSUME CamerasTyped, NEW f \in Feeds, NEW s \in Openings,
         Work(f, s) \/ InferRaises(f, s)
  PROVE  /\ UNCHANGED <<source, ready, phase, held, lost, connected, session, yolo, sees,
                       streaming, wanted>>
         /\ work[f][s] # NoWorker
         /\ \E w \in Worker : work' = [work EXCEPT ![f][s] = w]
         /\ (result' = result /\ late' = late) \/ Published(f, s)
<1> DEFINE v == work[f][s]
<1>1. v \in Worker
  BY DEF CamerasTyped, CamerasTypeOK
<1>2. UNCHANGED <<source, ready, phase, held, lost, connected, session, yolo, sees,
                  streaming, wanted>>
  BY DEF Work, InferRaises, capture, clients
<1>3. /\ v # NoWorker
      /\ \E w \in Worker : work' = [work EXCEPT ![f][s] = w]
  <2>1. CASE Clear(f, s) \/ Take(f, s)
    <3>1. v.at \in {"wait", "take"} /\ v # NoWorker
      BY <2>1 DEF Clear, Take, NoWorker
    <3>2. \E t \in {"wait", "take", "lock"} :
            \/ work' = [work EXCEPT ![f][s] = [v EXCEPT !.at = t, !.event = FALSE]]
            \/ work' = [work EXCEPT ![f][s] = [v EXCEPT !.at = t, !.frame = FALSE]]
      BY <1>1, <2>1 DEF Clear, Take, Worked, Worker
    <3>3. \A t \in {"wait", "take", "lock"} :
            /\ [v EXCEPT !.at = t, !.event = FALSE] \in Worker
            /\ [v EXCEPT !.at = t, !.frame = FALSE] \in Worker
      BY <1>1 DEF Worker
    <3> QED
      BY <3>1, <3>2, <3>3
  <2>2. CASE Infer(f, s) \/ Inferred(f, s) \/ Publish(f, s) \/ InferRaises(f, s)
    <3>1. PICK t \in {"infer", "publish", "wait"} :
            v.at \in {"lock", "infer", "publish"} /\ work' = [work EXCEPT ![f][s] = [v EXCEPT !.at = t]]
      BY <2>2 DEF Infer, Inferred, Publish, InferRaises, Advance, Worked
    <3>2. [v EXCEPT !.at = t] \in Worker
      BY <1>1 DEF Worker
    <3>3. v # NoWorker
      BY <3>1 DEF NoWorker
    <3> QED
      BY <3>1, <3>2, <3>3
  <2> QED
    BY <2>1, <2>2 DEF Work
<1>4. (result' = result /\ late' = late) \/ Published(f, s)
  BY DEF Work, InferRaises, Clear, Take, Infer, Inferred, Publish
<1> QED
  BY <1>2, <1>3, <1>4

\* The clients and the cameras touch neither threads nor workers.
LEMMA OutsideStep ==
  ASSUME CamerasTyped, NEW f \in Feeds,
         Client(f) \/ Unplug(f) \/ Plug(f) \/ Raise(f)
  PROVE  CamerasTyped' /\ UNCHANGED <<source, session, sees, work, result, late>>
<1> DEFINE Flags == [Feeds -> BOOLEAN]
           Phases == {"off", "load", "open", "grab", "signal", "lost", "close", "dead"}
<1>1. UNCHANGED <<source, session, sees, work, result, late, held, lost, connected, yolo>>
  BY DEF Client, Unplug, Plug, Raise, capture, detection
<1>2. /\ ready \in Flags /\ held \in Flags /\ connected \in Flags /\ sees \in Flags
      /\ streaming \in Flags /\ wanted \in Flags
  BY Zenon DEF CamerasTyped, CamerasTypeOK
<1>3. troubles \in 0..MaxTroubles[source] /\ MaxTroubles[source] \in Nat
      /\ phase \in [Feeds -> Phases] /\ session \in [Feeds -> 0..MaxSession]
  BY CamerasTypes DEF CamerasTyped, CamerasTypeOK
<1>4. SUFFICES /\ ready' \in Flags /\ streaming' \in Flags /\ wanted' \in Flags
               /\ phase' \in [Feeds -> Phases] /\ troubles' \in 0..MaxTroubles[source]
               /\ \A g \in Feeds : SessionOf(g)' /\ phase'[g] \in {phase[g], "lost", "dead"}
  <2>1. {ready, held, connected, sees, streaming, wanted}' \subseteq Flags
    BY <1>1, <1>2, <1>4, Zenon
  <2>2. CamerasTypeOK'
    BY <1>1, <1>4, <2>1, Zenon DEF CamerasTyped, CamerasTypeOK
  <2> QED
    BY <1>1, <1>4, <2>2 DEF CamerasTyped
<1>5. \A g \in Feeds : SessionOf(g)
  BY DEF CamerasTyped
<1>6. CASE Client(f)
  <2>1. UNCHANGED <<ready, phase, troubles>>
    BY <1>6 DEF Client, capture
  <2>2. streaming' = streaming \/ \E b \in BOOLEAN : streaming' = [streaming EXCEPT ![f] = b]
    BY <1>6 DEF Client, Ask, Stream, Disconnect, Expire
  <2>3. wanted' = wanted \/ \E b \in BOOLEAN : wanted' = [wanted EXCEPT ![f] = b]
    BY <1>6 DEF Client, Ask, Stream, Disconnect, Expire
  <2>4. streaming' \in Flags /\ wanted' \in Flags
    BY <1>2, <2>2, <2>3
  <2>5. \A g \in Feeds : SessionOf(g)'
    BY <1>1, <1>5, <2>1 DEF SessionOf
  <2> QED
    BY <1>2, <1>3, <2>1, <2>4, <2>5
<1>7. CASE Unplug(f)
  <2>1. ready' = [ready EXCEPT ![f] = FALSE] /\ ready[f] = TRUE
        /\ UNCHANGED <<phase, streaming, wanted>>
    BY <1>2, <1>7 DEF Unplug, capture, clients
  <2>2. troubles' = troubles + 1 /\ troubles' \in 0..MaxTroubles[source]
    BY <1>3, <1>7 DEF Unplug, Trouble
  <2>3. \A g \in Feeds : SessionOf(g)'
    BY <1>1, <1>2, <1>3, <1>5, <2>1, <2>2 DEF SessionOf
  <2> QED
    BY <1>2, <1>3, <2>1, <2>2, <2>3
<1>8. CASE Plug(f)
  <2>1. ready' = [ready EXCEPT ![f] = TRUE] /\ UNCHANGED <<phase, streaming, wanted, troubles>>
    BY <1>8 DEF Plug, capture, clients
  <2>2. \A g \in Feeds : SessionOf(g)'
    BY <1>1, <1>2, <1>3, <1>5, <2>1 DEF SessionOf
  <2> QED
    BY <1>2, <1>3, <2>1, <2>2
<1>9. CASE Raise(f)
  <2>1. /\ \/ phase' = [phase EXCEPT ![f] = "lost"] /\ phase[f] = "grab" /\ source[f] = "sdk"
           \/ phase' = [phase EXCEPT ![f] = "dead"] /\ source[f] # "sdk"
        /\ UNCHANGED <<ready, streaming, wanted>>
    BY <1>9 DEF Raise, Enter, clients
  <2>2. troubles' = troubles + 1 /\ troubles' \in 0..MaxTroubles[source]
    BY <1>3, <1>9 DEF Raise, Trouble
  <2>3. \A g \in Feeds : SessionOf(g)'
    BY <1>1, <1>2, <1>3, <1>5, <2>1, <2>2 DEF SessionOf
  <2> QED
    BY <1>2, <1>3, <2>1, <2>2, <2>3
<1> QED
  BY <1>6, <1>7, <1>8, <1>9

LEMMA CamerasTypedNext == CamerasTyped /\ [CamerasNext]_camerasVars => CamerasTyped'
<1> SUFFICES ASSUME CamerasTyped, [CamerasNext]_camerasVars PROVE CamerasTyped'
  OBVIOUS
<1>1. ASSUME NEW f \in Feeds, NEW s \in Openings, Work(f, s) \/ InferRaises(f, s)
      PROVE  CamerasTyped'
  <2>1. UNCHANGED <<source, ready, phase, held, lost, connected, session, yolo, sees,
                    streaming, wanted>>
    BY <1>1, WorkerStep
  <2>2. PICK w \in Worker : work' = [work EXCEPT ![f][s] = w]
    BY <1>1, WorkerStep
  <2>3. work' \in [Feeds -> [Openings -> Worker]]
    BY <2>2, WorkType DEF CamerasTyped, CamerasTypeOK
  <2>4. /\ result' \in [Feeds -> 0..MaxSession]
        /\ late' \in [Feeds -> [Openings -> 0..3]]
    <3>1. result \in [Feeds -> 0..MaxSession] /\ late \in [Feeds -> [Openings -> 0..3]]
      BY DEF CamerasTyped, CamerasTypeOK
    <3>2. CASE result' = result /\ late' = late
      BY <3>1, <3>2
    <3>3. CASE Published(f, s)
      <4>1. late' = late \/ (late[f][s] < 3 /\ late' = [late EXCEPT ![f][s] = late[f][s] + 1])
        BY <3>1, <3>3 DEF Published
      <4>2. result' = [result EXCEPT ![f] = s]
        BY <3>3 DEF Published
      <4>3. s \in 0..MaxSession
        BY CamerasTypes DEF Openings
      <4> QED
        BY <3>1, <4>1, <4>2, <4>3
    <3> QED
      BY <1>1, <3>2, <3>3, WorkerStep
  <2>5. troubles' \in 0..MaxTroubles[source] /\ troubles <= troubles'
    BY <1>1, CamerasTypes DEF Work, InferRaises, Trouble, CamerasTyped, CamerasTypeOK
  <2>6. CamerasTypeOK'
    <3>1. {ready, held, connected, sees, streaming, wanted}' \subseteq [Feeds -> BOOLEAN]
      BY <2>1, Zenon DEF CamerasTyped, CamerasTypeOK
    <3> QED
      BY <2>1, <2>3, <2>4, <2>5, <3>1, Zenon DEF CamerasTyped, CamerasTypeOK
  <2>7. \A g \in Feeds : SessionOf(g)'
    <3>1. troubles \in Nat /\ troubles' \in Nat /\ session \in [Feeds -> 0..MaxSession]
      BY <2>5, CamerasTypes DEF CamerasTyped, CamerasTypeOK
    <3> QED
      BY <2>1, <2>5, <3>1 DEF CamerasTyped, SessionOf
  <2> QED
    BY <2>1, <2>6, <2>7 DEF CamerasTyped
<1>2. CASE UNCHANGED camerasVars
  <2>1. UNCHANGED <<source, ready, phase, held, lost, connected, session, yolo, sees,
                    streaming, wanted, work, result, late, troubles>>
    BY <1>2 DEF camerasVars, capture, detection, clients
  <2> QED
    BY <2>1, Zenon DEF CamerasTyped, CamerasTypeOK, SessionOf
<1> QED
  BY <1>1, <1>2, CaptureTypes, OutsideStep DEF CamerasNext

\* Cameras: every variable keeps its type.  No session is one too many, and a
\* row of failures is never longer than the one that ends a session.
THEOREM CamerasTypeCorrect == CamerasSpec => []CamerasTypeOK
<1>1. CamerasTyped => CamerasTypeOK
  BY DEF CamerasTyped
<1> QED
  BY CamerasTypedInit, CamerasTypedNext, <1>1, PTL DEF CamerasSpec

-----------------------------------------------------------------------------
(* Cameras: what the worker of a session that has ended may still publish *)

\* The pictures a worker has still to publish: one in its mailbox and the one it
\* works on.
Pending(w) == (IF w.frame THEN 1 ELSE 0) + (IF w.at \in {"lock", "infer", "publish"} THEN 1 ELSE 0)

\* A session to come has no worker, one under way has published nothing late, and
\* from then on each late result is one of the pictures that were pending.
Counted(f, s) ==
  /\ s > session[f] => work[f][s] = NoWorker /\ late[f][s] = 0
  /\ ~Ended(f, s) => late[f][s] = 0
  /\ late[f][s] + Pending(work[f][s]) <= 2

AllCounted == \A f \in Feeds, s \in Openings : Counted(f, s)

LEMMA CountedInit == CamerasInit => AllCounted
BY DEF CamerasInit, AllCounted, Counted, Pending, NoWorker, Openings

LEMMA PendingTwo == ASSUME NEW w \in Worker PROVE Pending(w) \in 0..2
BY DEF Pending, Worker

LEMMA CountedTypes ==
  ASSUME CamerasTyped
  PROVE  /\ session \in [Feeds -> Nat] /\ late \in [Feeds -> [Openings -> Nat]]
         /\ work \in [Feeds -> [Openings -> Worker]] /\ Openings \subseteq Nat
<1>1. session \in [Feeds -> 0..MaxSession] /\ late \in [Feeds -> [Openings -> 0..3]]
  BY DEF CamerasTyped, CamerasTypeOK
<1>2. work \in [Feeds -> [Openings -> Worker]] /\ Openings \subseteq Nat
  BY CamerasTypes DEF CamerasTyped, CamerasTypeOK, Openings
<1> QED
  BY <1>1, <1>2

\* A picture reaches a mailbox only while its session is under way, and a session
\* that has ended stays so.
LEMMA CaptureCounted ==
  ASSUME CamerasTyped, AllCounted, NEW f \in Feeds, Capture(f)
  PROVE  AllCounted'
<1>1. UNCHANGED <<source, late>>
  BY DEF Capture
<1>2. /\ phase \in [Feeds -> {"off", "load", "open", "grab", "signal", "lost", "close", "dead"}]
      /\ source \in [Feeds -> Sources]
  BY CamerasTypes DEF CamerasTyped, CamerasTypeOK
<1>3. /\ \A g \in Feeds \ {f} : phase'[g] = phase[g]
      /\ phase[f] \in {"lost", "close"} => phase'[f] \in {"close", "open"}
      /\ phase[f] = "open" /\ source[f] = "sdk" => OpenZed(f)
      /\ phase[f] # "dead"
  BY <1>2 DEF Capture, OpenZed, OpenPlain, Load, Grab, Put, Signal, Pictured,
     LoseZed, LosePlain, GrabFails, Drop, Close, Enter
<1>4. session' = session \/ (OpenZed(f) /\ session' = [session EXCEPT ![f] = session[f] + 1])
  BY DEF Capture, OpenZed, OpenPlain, Load, Grab, Put, Signal, Pictured,
     LoseZed, LosePlain, Drop, Close
<1>5. \A g \in Feeds, s \in Openings :
        (g # f \/ s # session[f]) => work'[g][s] = work[g][s]
  <2>1. CASE Load(f) \/ Put(f) \/ Signal(f)
    <3>1. work' = work \/ \E w : work' = [work EXCEPT ![f][session[f]] = w]
      BY <2>1 DEF Load, Put, Signal
    <3> QED
      BY <3>1, CountedTypes
  <2>2. CASE ~(Load(f) \/ Put(f) \/ Signal(f))
    <3>1. work' = work
      BY <2>2 DEF Capture, OpenZed, OpenPlain, Grab, LoseZed, LosePlain, Drop, Close
    <3> QED
      BY <3>1
  <2> QED
    BY <2>1, <2>2
<1>6. work' = work \/ ~Ended(f, session[f])
  BY DEF Capture, OpenZed, OpenPlain, Load, Grab, Put, Signal, Pictured,
     LoseZed, LosePlain, Drop, Close, Ended
<1>7. work' \in [Feeds -> [Openings -> Worker]]
  BY CaptureTypes, CountedTypes DEF CamerasTyped, CamerasTypeOK
<1> SUFFICES ASSUME NEW g \in Feeds, NEW s \in Openings PROVE Counted(g, s)'
  BY DEF AllCounted
<1>8. Counted(g, s) /\ (g = f => Counted(f, s))
  BY DEF AllCounted
<1>9. session'[g] >= session[g] /\ (session'[g] # session[g] => g = f /\ session'[f] = session[f] + 1)
  BY <1>4, CountedTypes
<1>10. s > session'[g] => work'[g][s] = NoWorker /\ late'[g][s] = 0
  BY <1>1, <1>5, <1>8, <1>9, CountedTypes DEF Counted
<1>11. ~Ended(g, s)' => late'[g][s] = 0
  <2>1. CASE session'[g] = session[g]
    <3>1. g = f => ~OpenZed(f)
      <4> SUFFICES ASSUME g = f, OpenZed(f) PROVE FALSE
        OBVIOUS
      <4>1. session' = [session EXCEPT ![f] = session[f] + 1]
        BY DEF OpenZed
      <4> QED
        BY <2>1, <4>1, CountedTypes
    <3>2. source'[g] = source[g] /\ session'[g] = session[g]
      BY <1>1, <2>1
    <3>3. source[g] = "sdk" /\ phase[g] \in {"open", "lost", "close"}
          => phase'[g] \in {"open", "lost", "close"}
      <4>1. CASE g = f
        BY <1>3, <3>1, <4>1
      <4>2. CASE g # f
        BY <1>3, <4>2
      <4> QED
        BY <4>1, <4>2
    <3>4. ~Ended(g, s)' => ~Ended(g, s)
      BY <1>3, <3>2, <3>3 DEF Ended
    <3> QED
      BY <1>1, <1>8, <3>4 DEF Counted
  <2>2. CASE session'[g] # session[g]
    <3>1. ~Ended(g, s)' => s > session[g]
      BY <1>9, <2>2, CountedTypes DEF Ended
    <3> QED
      BY <1>1, <1>8, <3>1 DEF Counted
  <2> QED
    BY <2>1, <2>2
<1>12. late'[g][s] + Pending(work'[g][s]) <= 2
  <2>1. CASE work'[g][s] = work[g][s]
    BY <1>1, <1>8, <2>1 DEF Counted
  <2>2. CASE work'[g][s] # work[g][s]
    <3>1. ~Ended(g, s)
      BY <1>5, <1>6, <2>2
    <3>2. late'[g][s] = 0 /\ Pending(work'[g][s]) \in 0..2
      BY <1>1, <1>7, <1>8, <3>1, PendingTwo DEF Counted
    <3> QED
      BY <3>2
  <2> QED
    BY <2>1, <2>2
<1> QED
  BY <1>10, <1>11, <1>12 DEF Counted

\* A worker publishes at most what was pending.
LEMMA WorkerCounted ==
  ASSUME CamerasTyped, AllCounted, NEW f \in Feeds, NEW s \in Openings,
         Work(f, s) \/ InferRaises(f, s)
  PROVE  AllCounted'
<1> DEFINE v == work[f][s]
           w == work'[f][s]
<1>1. /\ UNCHANGED <<source, phase, session>> /\ v # NoWorker
      /\ \E x \in Worker : work' = [work EXCEPT ![f][s] = x]
      /\ (late' = late) \/ Published(f, s)
  BY WorkerStep
<1>2. \A g \in Feeds, t \in Openings : (g # f \/ t # s) => work'[g][t] = work[g][t]
  BY <1>1, CountedTypes
<1>3. v \in Worker /\ w \in Worker /\ Counted(f, s) /\ late[f][s] \in Nat
      /\ s \in Nat /\ session[f] \in Nat
  BY <1>1, CountedTypes DEF AllCounted
<1>4. s <= session[f]
  BY <1>1, <1>3 DEF Counted
<1>5. \/ late' = late /\ Pending(w) <= Pending(v)
      \/ Published(f, s) /\ Pending(w) + 1 <= Pending(v)
  <2>1. CASE Publish(f, s)
    <3>1. v.at = "publish" /\ w = [v EXCEPT !.at = "wait"] /\ Published(f, s)
      BY <1>3, <2>1, CountedTypes DEF Publish, Advance, Worked
    <3> QED
      BY <1>3, <3>1 DEF Pending, Worker
  <2>2. CASE Clear(f, s)
    <3>1. w = [v EXCEPT !.at = "take", !.event = FALSE] /\ late' = late
      BY <1>3, <2>2, CountedTypes DEF Clear, Worked
    <3> QED
      BY <1>3, <3>1 DEF Pending, Worker
  <2>3. CASE Take(f, s)
    <3>1. /\ w = [v EXCEPT !.at = IF v.frame THEN "lock" ELSE "wait", !.frame = FALSE]
          /\ v.at = "take" /\ late' = late
      BY <1>3, <2>3, CountedTypes DEF Take, Worked
    <3> QED
      BY <1>3, <3>1 DEF Pending, Worker
  <2>4. CASE Infer(f, s) \/ Inferred(f, s) \/ InferRaises(f, s)
    <3>1. PICK to \in {"infer", "publish", "wait"} :
            /\ work' = [work EXCEPT ![f][s] = [v EXCEPT !.at = to]]
            /\ v.at \in {"lock", "infer"} /\ late' = late
      BY <2>4 DEF Infer, Inferred, InferRaises, Advance, Worked
    <3>2. w = [v EXCEPT !.at = to]
      BY <3>1, CountedTypes
    <3> QED
      BY <1>3, <3>1, <3>2 DEF Pending, Worker
  <2> QED
    BY <2>1, <2>2, <2>3, <2>4 DEF Work
<1>6. \A g \in Feeds, t \in Openings : Ended(g, t)' = Ended(g, t)
  BY <1>1 DEF Ended
<1>7. \A g \in Feeds, t \in Openings : (g # f \/ t # s) => late'[g][t] = late[g][t]
  BY <1>1, CountedTypes DEF Published
<1>8. Counted(f, s)'
  <2>1. Pending(v) \in 0..2 /\ Pending(w) \in 0..2
    BY <1>3, PendingTwo
  <2>2. CASE late' = late /\ Pending(w) <= Pending(v)
    BY <1>1, <1>3, <1>4, <1>6, <2>1, <2>2 DEF Counted
  <2>3. CASE Published(f, s) /\ Pending(w) + 1 <= Pending(v)
    <3>1. late'[f][s] = late[f][s] \/ (Ended(f, s) /\ late'[f][s] = late[f][s] + 1)
      BY <2>3, CountedTypes DEF Published
    <3> QED
      BY <1>1, <1>3, <1>4, <1>6, <2>1, <2>3, <3>1 DEF Counted
  <2> QED
    BY <1>5, <2>2, <2>3
<1> SUFFICES ASSUME NEW g \in Feeds, NEW t \in Openings, g # f \/ t # s
             PROVE  Counted(g, t)'
  BY <1>8 DEF AllCounted
<1>9. Counted(g, t)
  BY DEF AllCounted
<1> QED
  BY <1>1, <1>2, <1>6, <1>7, <1>9 DEF Counted

LEMMA CountedNext == CamerasTyped /\ AllCounted /\ [CamerasNext]_camerasVars => AllCounted'
<1> SUFFICES ASSUME CamerasTyped, AllCounted, [CamerasNext]_camerasVars PROVE AllCounted'
  OBVIOUS
<1>1. ASSUME NEW f \in Feeds, Client(f) \/ Unplug(f) \/ Plug(f) \/ Raise(f)
      PROVE  AllCounted'
  <2>1. UNCHANGED <<source, session, work, late>>
    BY <1>1, OutsideStep
  <2>2. \/ phase' = phase \/ phase' = [phase EXCEPT ![f] = "dead"]
        \/ phase' = [phase EXCEPT ![f] = "lost"] /\ phase[f] = "grab"
    BY <1>1 DEF Client, Unplug, Plug, Raise, Enter, capture
  <2>3. phase \in [Feeds -> {"off", "load", "open", "grab", "signal", "lost", "close", "dead"}]
    BY DEF CamerasTyped, CamerasTypeOK
  <2>4. \A g \in Feeds, s \in Openings : ~Ended(g, s)' => ~Ended(g, s)
    BY <2>1, <2>2, <2>3 DEF Ended
  <2> QED
    BY <2>1, <2>4 DEF AllCounted, Counted
<1>2. CASE UNCHANGED camerasVars
  <2>1. UNCHANGED <<source, phase, session, work, late>>
    BY <1>2 DEF camerasVars, capture, detection
  <2> QED
    BY <2>1 DEF AllCounted, Counted, Ended
<1> QED
  BY <1>1, <1>2, CaptureCounted, WorkerCounted DEF CamerasNext

\* Cameras: the worker of a session that has ended publishes at most two more
\* results, though nobody stops it.
THEOREM FewLate == CamerasSpec => []FewLateResults
<1>1. CamerasTyped /\ AllCounted => FewLateResults
  <2> SUFFICES ASSUME CamerasTyped, AllCounted, NEW f \in Feeds, NEW s \in Openings
               PROVE  late[f][s] <= 2
    BY DEF FewLateResults
  <2>1. Pending(work[f][s]) \in 0..2 /\ late[f][s] \in Nat
    BY CountedTypes, PendingTwo
  <2> QED
    BY <2>1 DEF AllCounted, Counted
<1> QED
  BY CamerasTypedInit, CamerasTypedNext, CountedInit, CountedNext, <1>1, PTL DEF CamerasSpec
=============================================================================
