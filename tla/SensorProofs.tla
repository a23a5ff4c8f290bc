----------------------------- MODULE SensorProofs -----------------------------
(***************************************************************************)
(* Theorems about what the dashboard shows of its sensors, for every value of *)
(* the constants.  The GNSS reader: what is said of its file is true whatever *)
(* the periods, the delays and the faults.  Odometry: the mileage is that of  *)
(* the wheels whatever wraps, garbled answers and losses of power add no more *)
(* than a bound; the pose is that of the wheels.  The battery filter: garbage *)
(* in a minority does not move the gauge.                                     *)
(***************************************************************************)
EXTENDS Gnss, Feedback, FiniteSetTheorems, WellFoundedInduction, TLAPS

-----------------------------------------------------------------------------
(* The GNSS reader *)

\* The constants are natural numbers, and the caps are above the limits.
LEMMA Constants ==
  /\ FixEvery \in Nat /\ BeatEvery \in Nat /\ Cycle \in Nat /\ FreshLimit \in Nat
  /\ MinDelay \in Nat /\ MaxDelay \in Nat /\ Faults \in Nat /\ MaxBack \in Nat /\ MinDelay <= MaxDelay
  /\ Old \in Nat /\ Due \in Nat /\ Old = FreshLimit + Cycle + MaxBack + 1
BY GnssAssumption DEF Old, Due

\* A payload is neither the absence of a file nor a torn one.
LEMMA PayloadIsReadable == NoFile \notin Payload /\ Torn \notin Payload
<1>1. \A p \in Payload : p.kind \in {"position", "heartbeat"}
  BY DEF Payload
<1>2. NoFile.kind = "none" /\ Torn.kind = "torn"
  BY DEF NoFile, Torn
<1> QED
  BY <1>1, <1>2

\* An age that grows stays below its cap.
LEMMA OlderType == ASSUME NEW most \in Nat, NEW n \in 0..most PROVE Older(n, most) \in 0..most
BY DEF Older

-----------------------------------------------------------------------------
(* Type correctness *)

LEMMA TypeInit == Init => TypeOK
<1> SUFFICES ASSUME Init PROVE TypeOK
  OBVIOUS
<1>1. {hasPos, unsure} \subseteq BOOLEAN
  <2>1. hasPos = FALSE /\ unsure = TRUE
    BY Zenon DEF Init
  <2> QED
    BY <2>1, Zenon
<1> QED
  BY <1>1, Constants DEF Init, TypeOK

\* What a sentence does to the state of the receiver.
LEMMA ParseType ==
  ASSUME TypeOK, NEW s \in Sentences, Parse(s)
  PROVE  /\ {hasPos', unsure'} \subseteq BOOLEAN /\ {fix', liveFix'} \subseteq 0..1
         /\ gga' \in 0..Cycle /\ {pos', heard'} \subseteq 0..Old
<1> USE Constants
<1>1. CASE s \in [gga : {TRUE}, fix : 0..1, pos : BOOLEAN]
  <2>1. s.gga = TRUE /\ s.fix \in 0..1 /\ s.pos \in BOOLEAN
    BY <1>1
  <2>2. ParseGga(s) /\ heard' = 0
    BY <2>1 DEF Parse
  <2>3. {hasPos', unsure'} \subseteq BOOLEAN
    <3>1. hasPos' \in BOOLEAN /\ unsure' \in BOOLEAN
      BY <2>2, Zenon DEF ParseGga
    <3> QED
      BY <3>1, Zenon
  <2>4. {fix', liveFix'} \subseteq 0..1 /\ {pos', heard'} \subseteq 0..Old
    <3>1. fix \in 0..1 /\ pos \in 0..Old
      BY DEF TypeOK
    <3>2. fix' \in {s.fix, fix} /\ liveFix' = s.fix /\ pos' \in {0, pos}
      BY <2>2, Zenon DEF ParseGga
    <3> QED
      BY <2>1, <2>2, <3>1, <3>2
  <2>5. gga' \in 0..Cycle
    BY <2>2 DEF ParseGga
  <2> QED
    BY <2>3, <2>4, <2>5
<1>2. CASE s \in [gga : {FALSE}]
  <2>1. s.gga = FALSE
    BY <1>2
  <2> QED
    BY <2>1 DEF Parse, TypeOK
<1> QED
  BY <1>1, <1>2 DEF Sentences

\* A clock that is set back changes nothing else of a payload.
LEMMA BackPayload ==
  ASSUME NEW p \in Payload, NEW k \in 1..MaxBack
  PROVE  /\ SetBack(p, k) \in Payload /\ SetBack(p, k).kind = p.kind
         /\ SetBack(p, k).unsure = p.unsure /\ SetBack(p, k).age = p.age
         /\ SetBack(p, k).pos = p.pos
<1> DEFINE b == IF p.back + k < MaxBack THEN p.back + k ELSE MaxBack
<1>1. b \in 0..MaxBack
  BY Constants DEF Payload
<1>2. SetBack(p, k) = [p EXCEPT !.back = b]
  BY DEF SetBack
<1> HIDE DEF b
<1> QED
  BY <1>1, <1>2 DEF Payload

LEMMA TypeNext == TypeOK /\ [Next]_vars => TypeOK'
<1> SUFFICES ASSUME TypeOK, [Next]_vars PROVE TypeOK'
  OBVIOUS
<1> USE Constants
<1>1. CASE Launch \/ Open \/ OpenFails \/ Retry \/ LineFails
  <2>1. {hasPos, unsure}' \subseteq BOOLEAN
    BY <1>1, Zenon DEF Launch, Open, OpenFails, Retry, LineFails, ages, TypeOK
  <2> QED
    BY <1>1, <2>1 DEF Launch, Open, OpenFails, Retry, LineFails, ages, TypeOK
<1>2. ASSUME NEW s \in Sentences, Receive(s) PROVE TypeOK'
  <2>1. Parse(s) /\ link' = link /\ delay' = delay /\ wait' = wait
    BY <1>2 DEF Receive
  <2>2. /\ {hasPos', unsure'} \subseteq BOOLEAN /\ {fix', liveFix'} \subseteq 0..1
        /\ gga' \in 0..Cycle /\ {pos', heard'} \subseteq 0..Old
    BY <2>1, ParseType
  <2>3. HasFix \in BOOLEAN
    BY Zenon DEF HasFix
  <2>4. BuildPayload(HasFix) \in Payload
    <3>1. fix' \in 0..1 /\ liveFix' \in 0..1 /\ pos' \in 0..Old /\ unsure' \in BOOLEAN
      BY <2>2, Zenon
    <3> QED
      BY <3>1, <2>3 DEF BuildPayload, Payload
  <2>5. /\ at' \in {"read", "write"} /\ written' \in 0..Due /\ faults' \in 0..Faults
        /\ tmp' \in {NoFile, Torn} \cup Payload /\ pending' \in {NoFile} \cup Payload
        /\ file' = file
    BY <1>2, <2>4 DEF Receive, WriteCoords, TypeOK
  <2>6. {hasPos, unsure}' \subseteq BOOLEAN
    BY <2>1, <2>2, Zenon DEF TypeOK
  <2> QED
    BY <2>1, <2>2, <2>5, <2>6 DEF TypeOK
<1>3. CASE Ignore \/ UNCHANGED vars
  <2>1. UNCHANGED vars
    BY <1>3 DEF Ignore
  <2> QED
    BY <2>1 DEF vars, reader, ages, TypeOK
<1>4. CASE CloseTmp \/ Rename
  BY <1>4 DEF CloseTmp, Rename, ages, TypeOK
<1>5. CASE Kill
  BY <1>5 DEF Kill, Fault, ages, TypeOK
<1>6. CASE Unplug \/ Plug
  <2>1. {hasPos, unsure}' \subseteq BOOLEAN
    BY <1>6, Zenon DEF Unplug, Plug, reader, TypeOK
  <2> QED
    BY <1>6, <2>1 DEF Unplug, Plug, Fault, reader, ages, TypeOK
<1>7. CASE Tick
  <2>1. file' \in {NoFile, Torn} \cup Payload
    BY <1>7, OlderType DEF Tick, Aged, Payload, TypeOK
  <2>2. written' \in 0..Due /\ gga' \in 0..Cycle /\ pos' \in 0..Old /\ heard' \in 0..Old
    BY <1>7, OlderType DEF Tick, TypeOK
  <2> QED
    BY <1>7, <2>1, <2>2 DEF Tick, TypeOK
<1>8. ASSUME NEW k \in 1..MaxBack, ClockSetBack(k) PROVE TypeOK'
  <2>1. /\ file' \in {NoFile, Torn} \cup Payload /\ tmp' \in {NoFile, Torn} \cup Payload
        /\ pending' \in {NoFile} \cup Payload
    BY <1>8, BackPayload DEF ClockSetBack, SetBack, TypeOK
  <2> QED
    BY <1>8, <2>1 DEF ClockSetBack, Fault, ages, TypeOK
<1> QED
  BY <1>1, <1>2, <1>3, <1>4, <1>5, <1>6, <1>7, <1>8 DEF Next, Read

\* Every variable keeps its type.
THEOREM TypeCorrect == Spec => []TypeOK
BY TypeInit, TypeNext, PTL DEF Spec

-----------------------------------------------------------------------------
(* What the dashboard answers *)

\* The file is absent or a whole payload, and so is the one it is replaced by.
Whole ==
  /\ TypeOK /\ file # Torn /\ (at = "rename" => tmp \in Payload)
  /\ (at = "write" => pending \in Payload)

LEMMA WholeInit == Init => Whole
BY TypeInit DEF Init, Whole, NoFile, Torn

LEMMA AgedPayload ==
  ASSUME NEW p \in Payload
  PROVE  /\ Aged(p) \in Payload /\ Aged(p).kind = p.kind /\ Aged(p).fix = p.fix
         /\ Aged(p).unsure = p.unsure
         /\ Aged(p).age = Older(p.age, Old) /\ Aged(p).pos = Older(p.pos, Old)
<1>1. Aged(p) = [p EXCEPT !.age = Older(@, Old), !.pos = Older(@, Old)]
  BY PayloadIsReadable DEF Aged
<1>2. Older(p.age, Old) \in 0..Old /\ Older(p.pos, Old) \in 0..Old
  BY Constants, OlderType DEF Payload
<1> QED
  BY <1>1, <1>2 DEF Payload

LEMMA WholeNext == Whole /\ [Next]_vars => Whole'
<1> SUFFICES ASSUME Whole, [Next]_vars PROVE /\ file' # Torn /\ (at' = "rename" => tmp' \in Payload)
                                                      /\ (at' = "write" => pending' \in Payload)
  BY TypeNext DEF Whole
<1>1. CASE CloseTmp \/ Rename
  BY <1>1, PayloadIsReadable DEF CloseTmp, Rename, Whole
<1>2. CASE Tick
  <2>1. /\ file' = Aged(file) /\ file \in {NoFile} \cup Payload
        /\ at' \notin {"write", "rename"}
    BY <1>2 DEF Tick, Whole, TypeOK
  <2>2. CASE file = NoFile
    BY <2>1, <2>2 DEF Aged, NoFile, Torn
  <2>3. CASE file \in Payload
    BY <2>1, <2>3, AgedPayload, PayloadIsReadable
  <2> QED
    BY <2>1, <2>2, <2>3
<1>3. CASE Launch \/ Open \/ OpenFails \/ Retry \/ LineFails \/ Kill \/ Unplug \/ Plug
  BY <1>3 DEF Launch, Open, OpenFails, Retry, LineFails, Kill, Unplug, Plug, reader, Whole
<1>4. CASE Ignore \/ UNCHANGED vars
  BY <1>4 DEF Ignore, vars, reader, Whole
<1>5. CASE Read
  <2>1. PICK s \in Sentences : Receive(s)
    BY <1>5 DEF Read
  <2>2. TypeOK' /\ file' = file /\ at' # "rename"
    BY <2>1, TypeNext DEF Whole, Next, Read, Receive, WriteCoords
  <2>3. at' = "write" => pending' # NoFile
    <3>1. at' = "write" => pending' = BuildPayload(HasFix)
      BY <2>1 DEF Receive, WriteCoords
    <3>2. BuildPayload(HasFix) # NoFile
      <4>1. BuildPayload(HasFix).kind # "none" /\ NoFile.kind = "none"
        BY DEF BuildPayload, NoFile
      <4> QED
        BY <4>1
    <3> QED
      BY <3>1, <3>2
  <2> QED
    BY <2>2, <2>3 DEF Whole, TypeOK
<1>6. ASSUME NEW k \in 1..MaxBack, ClockSetBack(k)
      PROVE  /\ file' # Torn /\ (at' = "rename" => tmp' \in Payload)
             /\ (at' = "write" => pending' \in Payload)
  <2>1. file' # Torn
    BY <1>6, BackPayload, PayloadIsReadable DEF ClockSetBack, SetBack, Whole, TypeOK
  <2> QED
    BY <1>6, <2>1, BackPayload DEF ClockSetBack, Whole
<1> QED
  BY <1>1, <1>2, <1>3, <1>4, <1>5, <1>6 DEF Next

\* What it says of a payload.
LEMMA Answers ==
  ASSUME Whole
  PROVE  /\ ServeGnss.code # 503
         /\ ServeGnss.code = 200 /\ ServeGnss.state # "disconnected"
              => file \in Payload /\ file.age < FreshLimit + file.back
         /\ ServeGnss.code = 200 /\ ServeGnss.state = "fixed" => file.kind = "position"
<1>1. CASE file = NoFile
  <2>1. ServeGnss = [code |-> 404]
    BY <1>1, Zenon DEF ServeGnss, NoFile, Torn
  <2> QED
    BY <2>1
<1>2. CASE file \in Payload
  <2>1. file # NoFile /\ file # Torn
    BY <1>2, PayloadIsReadable
  <2>2. file.age \in Nat /\ FreshLimit \in Nat /\ file.back \in Nat
    BY <1>2, Constants DEF Payload
  <2>3. /\ ServeGnss.code = 200
        /\ ServeGnss.state = IF file.age - file.back >= FreshLimit THEN "disconnected"
                             ELSE IF file.kind = "position" /\ file.fix = 1 THEN "fixed"
                             ELSE "no_signal"
    BY <2>1 DEF ServeGnss
  <2> QED
    BY <1>2, <2>2, <2>3
<1> QED
  BY <1>1, <1>2 DEF Whole, TypeOK

\* The dashboard never reads half a payload: the file is only ever replaced.
THEOREM NeverTorn == Spec => []NeverCorrupted
<1>1. Whole => NeverCorrupted
  BY Answers DEF NeverCorrupted
<1> QED
  BY WholeInit, WholeNext, <1>1, PTL DEF Spec

-----------------------------------------------------------------------------
(* A silent receiver *)

\* The last sentence is no older than a payload, and just parsed while one is
\* being written.
Heard ==
  /\ file \in Payload => heard <= file.age
  /\ at \in {"write", "rename"} => heard = 0

LEMMA HeardNext == Whole /\ Heard /\ [Next]_vars => Heard'
<1> SUFFICES ASSUME Whole, Heard, [Next]_vars PROVE Heard'
  OBVIOUS
<1>1. TypeOK
  BY DEF Whole
<1>2. heard \in 0..Old /\ Old \in Nat
  BY <1>1, Constants DEF TypeOK
<1>3. \A p \in Payload : 0 <= p.age /\ p.age \in Nat
  BY Constants DEF Payload
<1>4. CASE Launch \/ Open \/ OpenFails \/ Retry \/ LineFails \/ Kill
  BY <1>4 DEF Launch, Open, OpenFails, Retry, LineFails, Kill, ages, Heard
<1>5. CASE Read
  BY <1>5, <1>3 DEF Read, Receive, Parse, WriteCoords, Heard
<1>6. CASE CloseTmp \/ Rename
  BY <1>6, <1>3 DEF CloseTmp, Rename, ages, Heard
<1>7. CASE Tick
  <2>1. at' \notin {"write", "rename"} /\ heard' = Older(heard, Old) /\ file' = Aged(file)
    BY <1>7 DEF Tick
  <2>2. CASE file \in Payload
    <3>1. file'.age = Older(file.age, Old) /\ heard <= file.age /\ file.age \in 0..Old
      BY <2>1, <2>2, AgedPayload DEF Heard, Payload
    <3>2. Older(heard, Old) <= Older(file.age, Old)
      BY <3>1, <1>2 DEF Older
    <3> QED
      BY <2>1, <3>1, <3>2 DEF Heard
  <2>3. CASE file \notin Payload
    <3>1. file' = NoFile
      BY <2>1, <2>3, <1>1 DEF Aged, Whole, TypeOK
    <3> QED
      BY <2>1, <3>1, PayloadIsReadable DEF Heard
  <2> QED
    BY <2>2, <2>3
<1>8. CASE Unplug \/ Plug \/ Ignore \/ UNCHANGED vars
  BY <1>8 DEF Unplug, Plug, Ignore, vars, reader, ages, Heard
<1>9. ASSUME NEW k \in 1..MaxBack, ClockSetBack(k) PROVE Heard'
  <2>1. file' \in Payload => file \in Payload /\ file'.age = file.age
    BY <1>9, BackPayload DEF ClockSetBack, SetBack
  <2> QED
    BY <1>9, <2>1 DEF ClockSetBack, ages, Heard
<1> QED
  BY <1>4, <1>5, <1>6, <1>7, <1>8, <1>9 DEF Next

\* A receiver that has fallen silent is not shown as connected for longer than
\* the limit, and as much as the clock was set back since, however often it is
\* unplugged and the reader started again.
THEOREM SilenceShows == Spec => []ConnectedIsHeard
<1>1. Init => Heard
  BY PayloadIsReadable DEF Init, Heard
<1>2. Whole /\ Heard => ConnectedIsHeard
  <2> SUFFICES ASSUME Whole, Heard, ServeGnss.code = 200, ServeGnss.state # "disconnected"
               PROVE  heard < FreshLimit + file.back
    BY DEF ConnectedIsHeard
  <2>1. file \in Payload /\ file.age < FreshLimit + file.back /\ heard <= file.age
    BY Answers DEF Heard
  <2>2. heard \in Nat /\ file.age \in Nat /\ FreshLimit \in Nat /\ file.back \in Nat
    BY <2>1, Constants DEF Whole, TypeOK, Payload
  <2> QED
    BY <2>1, <2>2
<1> QED
  BY WholeInit, WholeNext, HeardNext, <1>1, <1>2, PTL DEF Spec

-----------------------------------------------------------------------------
(* The age of a fix *)

\* The position of a payload is at most one cycle older than its ts, unless it
\* is one of the exceptions.
RecentIn(p) == p \in Payload /\ p.kind = "position" /\ ~p.unsure => p.pos <= p.age + Cycle

\* As long as the reader has heard the receiver without a break, the position is
\* of the last GGA that had a fix.
Recent ==
  /\ link # "there" => unsure
  /\ at \in {"probe", "pause"} => unsure \/ liveFix = 0
  /\ at # "down" /\ ~unsure /\ liveFix = 1 => pos <= gga
  /\ RecentIn(file) /\ RecentIn(tmp) /\ RecentIn(pending)

LEMMA RecentReceive ==
  ASSUME Whole, Recent, NEW s \in Sentences, Receive(s)
  PROVE  Recent'
<1>1. TypeOK /\ at = "read" /\ link = "there" /\ Parse(s) /\ link' = link /\ file' = file
  BY DEF Receive, Whole, WriteCoords
<1>2. gga' \in 0..Cycle /\ pos' \in 0..Old /\ liveFix' \in 0..1
  BY <1>1, ParseType
<1>3. ~unsure' /\ liveFix' = 1 => pos' <= gga'
  <2>1. CASE s \in [gga : {TRUE}, fix : 0..1, pos : BOOLEAN]
    <3>1. s.gga = TRUE
      BY <2>1
    <3>2. ParseGga(s)
      BY <1>1, <3>1 DEF Parse
    <3>3. ~unsure' /\ liveFix' = 1 => s.pos
      BY <3>2, Zenon DEF ParseGga
    <3>4. s.pos => pos' = 0
      BY <3>2, Zenon DEF ParseGga
    <3> QED
      BY <3>2, <3>3, <3>4, <1>2 DEF ParseGga
  <2>2. CASE s \in [gga : {FALSE}]
    <3>1. s.gga = FALSE
      BY <2>2
    <3>2. UNCHANGED <<liveFix, gga, pos, unsure>>
      BY <1>1, <3>1 DEF Parse
    <3>3. ~unsure /\ liveFix = 1 => pos <= gga
      BY <1>1 DEF Recent
    <3> QED
      BY <3>2, <3>3
  <2> QED
    BY <2>1, <2>2 DEF Sentences
<1>4. RecentIn(BuildPayload(HasFix))
  <2> DEFINE p == BuildPayload(HasFix)
  <2>1. p.kind = "position" => HasFix
    BY DEF BuildPayload
  <2>2. p.age = 0 /\ p.pos = pos' /\ p.unsure = unsure'
    BY DEF BuildPayload
  <2>3. HasFix => liveFix' = 1
    BY DEF HasFix
  <2>4. p.kind = "position" /\ ~p.unsure => pos' <= gga'
    BY <2>1, <2>2, <2>3, <1>3
  <2> QED
    BY <2>2, <2>4, <1>2, Constants DEF RecentIn
<1>5. /\ at' \in {"read", "write"} /\ (tmp' = tmp \/ tmp' = Torn)
      /\ pending' = pending \/ pending' = BuildPayload(HasFix)
  BY <1>1 DEF Receive, WriteCoords
<1>6. RecentIn(file)' /\ RecentIn(tmp)' /\ RecentIn(pending)'
  BY <1>1, <1>4, <1>5, PayloadIsReadable DEF Recent, RecentIn
<1> QED
  BY <1>1, <1>3, <1>5, <1>6 DEF Recent

LEMMA RecentNext == Whole /\ Recent /\ [Next]_vars => Recent'
<1> SUFFICES ASSUME Whole, Recent, [Next]_vars PROVE Recent'
  OBVIOUS
<1>1. TypeOK
  BY DEF Whole
<1>2. CASE Launch \/ Open \/ OpenFails \/ Retry \/ LineFails
  BY <1>2 DEF Launch, Open, OpenFails, Retry, LineFails, ages, Recent, RecentIn
<1>3. CASE Read
  BY <1>3, RecentReceive DEF Read
<1>4. CASE Kill \/ CloseTmp \/ Rename
  BY <1>4, PayloadIsReadable DEF Kill, CloseTmp, Rename, ages, Recent, RecentIn
<1>5. CASE Unplug \/ Plug
  BY <1>5 DEF Unplug, Plug, reader, ages, Recent, RecentIn
<1>6. CASE Tick
  <2>1. RecentIn(file)'
    <3>1. CASE file \in Payload
      <4>1. /\ file'.kind = file.kind /\ file'.unsure = file.unsure
            /\ file'.age = Older(file.age, Old) /\ file'.pos = Older(file.pos, Old)
        BY <1>6, <3>1, AgedPayload DEF Tick
      <4>2. file.age \in 0..Old /\ file.pos \in 0..Old /\ Old \in Nat /\ Cycle \in Nat
        BY <3>1, Constants DEF Payload
      <4>3. file.pos <= file.age + Cycle
              => Older(file.pos, Old) <= Older(file.age, Old) + Cycle
        BY <4>2 DEF Older
      <4> QED
        BY <3>1, <4>1, <4>3 DEF Recent, RecentIn
    <3>2. CASE file \notin Payload
      <4>1. file' = NoFile
        BY <1>6, <3>2, <1>1 DEF Tick, Aged, Whole, TypeOK
      <4> QED
        BY <4>1, PayloadIsReadable DEF RecentIn
    <3> QED
      BY <3>1, <3>2
  <2>2. at # "down" /\ ~unsure /\ liveFix = 1 => pos' <= gga'
    <3> SUFFICES ASSUME at # "down", ~unsure, liveFix = 1 PROVE pos' <= gga'
      OBVIOUS
    <3>1. at = "read" /\ link = "there" /\ pos <= gga
      BY <1>1, <1>6 DEF Tick, Recent, TypeOK
    <3>2. gga < Cycle /\ gga' = Older(gga, Cycle) /\ pos' = Older(pos, Old)
      BY <1>6, <3>1 DEF Tick
    <3>3. gga \in 0..Cycle /\ pos \in 0..Old /\ Cycle \in Nat /\ Old \in Nat
      BY <1>1, Constants DEF TypeOK
    <3> QED
      BY <3>1, <3>2, <3>3 DEF Older
  <2> QED
    BY <1>6, <2>1, <2>2 DEF Tick, Recent, RecentIn
<1>7. CASE Ignore \/ UNCHANGED vars
  BY <1>7 DEF Ignore, vars, reader, ages, Recent, RecentIn
<1>8. ASSUME NEW k \in 1..MaxBack, ClockSetBack(k) PROVE Recent'
  <2>1. ASSUME NEW p, RecentIn(p) PROVE RecentIn(SetBack(p, k))
    <3>1. CASE p \in Payload
      BY <2>1, <3>1, BackPayload DEF RecentIn
    <3>2. CASE p \notin Payload
      BY <3>2 DEF RecentIn, SetBack
    <3> QED
      BY <3>1, <3>2
  <2>2. RecentIn(file)' /\ RecentIn(tmp)' /\ RecentIn(pending)'
    BY <1>8, <2>1 DEF ClockSetBack, Recent, RecentIn
  <2> QED
    BY <1>8, <2>2 DEF ClockSetBack, ages, Recent
<1> QED
  BY <1>2, <1>3, <1>4, <1>5, <1>6, <1>7, <1>8 DEF Next

\* A position shown as fixed is no older than the limit, one cycle and as much as
\* the clock was set back since, but for the two exceptions of the code.
THEOREM FixedMeansRecent == Spec => []FixedIsRecent
<1>1. Init => Recent
  BY PayloadIsReadable DEF Init, Recent, RecentIn
<1>2. Whole /\ Recent => FixedIsRecent
  <2> SUFFICES ASSUME Whole, Recent, ServeGnss.code = 200, ServeGnss.state = "fixed",
                      ~file.unsure
               PROVE  file.pos < FreshLimit + Cycle + file.back
    BY DEF FixedIsRecent
  <2>1. file \in Payload /\ file.age < FreshLimit + file.back /\ file.kind = "position"
    BY Answers
  <2>2. file.pos <= file.age + Cycle
    BY <2>1 DEF Recent, RecentIn
  <2>3. file.pos \in Nat /\ file.age \in Nat /\ FreshLimit \in Nat /\ Cycle \in Nat
        /\ file.back \in Nat
    BY <2>1, Constants DEF Payload
  <2> QED
    BY <2>1, <2>2, <2>3
<1> QED
  BY WholeInit, WholeNext, RecentNext, <1>1, <1>2, PTL DEF Spec

-----------------------------------------------------------------------------
(* The chassis: numbers and types *)

\* The constants of Feedback are natural numbers; what is divided by is not zero.
LEMMA Numbers ==
  /\ SpeedMax \in Nat /\ MaxDelta \in Nat /\ ReconnectGap \in Nat /\ DeadTicks \in Nat
  /\ MaxPath \in Nat /\ MaxReads \in Nat /\ RecomputeS \in Nat /\ MinValid \in Nat
  /\ MaxValid \in Nat /\ Modulus \in Nat \ {0} /\ Scale \in Nat \ {0} /\ WindowS \in Nat \ {0}
  /\ Volts \subseteq Nat /\ 0 \in Volts /\ Bases \subseteq Nat
  /\ Late = ReconnectGap + 1 /\ Late \in Nat
BY FeedbackAssumption DEF Late

\* A count and its reading differ by a multiple of the width.
LEMMA Wraps ==
  ASSUME NEW n \in Int
  PROVE  /\ SignExtend(Register(n)) \in Counts
         /\ \E k \in Int : SignExtend(Register(n)) = n - Modulus * k
<1>1. Modulus \in Nat /\ Modulus > 0
  BY Numbers
<1> DEFINE r == n % Modulus
           q == n \div Modulus
<1>2. r \in 0..(Modulus - 1) /\ q \in Int /\ r = n - Modulus * q
  BY <1>1
<1>3. q + 1 \in Int /\ Modulus * (q + 1) = Modulus * q + Modulus
  BY <1>1, <1>2
<1>4. SignExtend(Register(n)) \in {r, r - Modulus}
  BY DEF SignExtend, Register
<1> HIDE DEF r, q
<1>5. r \in Counts /\ r - Modulus \in Counts
  BY <1>1, <1>2 DEF Counts
<1>6. r - Modulus = n - Modulus * (q + 1)
  BY <1>1, <1>2, <1>3
<1> QED
  BY <1>2, <1>3, <1>4, <1>5, <1>6

\* No multiple of the width but zero is closer to zero than the width.
LEMMA NoMultiple ==
  ASSUME NEW k \in Int, -Modulus < Modulus * k, Modulus * k < Modulus
  PROVE  k = 0
<1>1. Modulus \in Nat /\ Modulus > 0
  BY Numbers
<1>2. CASE k >= 1
  BY <1>1, <1>2
<1>3. CASE k <= -1
  BY <1>1, <1>3
<1> QED
  BY <1>2, <1>3

\* Division undoes a multiplication, and a pair is never the absence of one.
LEMMA Divides == ASSUME NEW a \in Int, NEW b \in Nat \ {0} PROVE (a * b) \div b = a
OBVIOUS

LEMMA NotUnset == ASSUME NEW a, NEW b PROVE <<a, b>> # Unset
BY DEF Unset

\* An age that grows stays below its cap.
LEMMA AgeToType == ASSUME NEW most \in Nat, NEW n \in 0..most PROVE AgeTo(n, most) \in 0..most
BY DEF AgeTo

\* The counts of two readings are integers, and so is what lies between them.
LEMMA CountsAreInts == ASSUME NEW c \in Counts \X Counts PROVE c[1] \in Int /\ c[2] \in Int
<1>1. Counts \subseteq Int
  BY Numbers DEF Counts
<1> QED
  BY <1>1

\* Differences of counts and the way they stand for are numbers.
LEMMA MinusType ==
  ASSUME NEW v \in Counts \X Counts, NEW w \in Counts \X Counts
  PROVE  Minus(v, w)[1] \in Int /\ Minus(v, w)[2] \in Int
BY CountsAreInts DEF Minus

LEMMA TravelledType ==
  ASSUME NEW d, d[1] \in Int, d[2] \in Int
  PROVE  Travelled(d) \in Nat
BY DEF Travelled, Sum2, AbsOf

\* The initial state has its type.
LEMMA FeedbackTypeInit == FeedbackInit => FeedbackTypeOK
<1> SUFFICES ASSUME FeedbackInit PROVE FeedbackTypeOK
  OBVIOUS
<1> USE Numbers
<1>1. wheels \in Wheel
  BY DEF FeedbackInit, Wheel, Pulses
<1>2. base \in Bases \cup {0}
  BY DEF FeedbackInit
<1>3. acc \in Accumulator /\ odom \in Pose
  BY DEF FeedbackInit, Accumulator, Pose, Reading, Never
<1>4. DOMAIN win = {} /\ win \in [DOMAIN win -> [age : 0..WindowS, v : Volts \ {0}]]
  BY DEF FeedbackInit
<1>5. smoothed \in Volts /\ smoothedAt \in 0..Forgotten
  BY DEF FeedbackInit, Forgotten
<1>6. /\ clean \in BOOLEAN /\ stood \in {"waiting", "stood", "moved"}
      /\ off \in BOOLEAN /\ tainted \in BOOLEAN
  BY Zenon DEF FeedbackInit
<1>7. wrong \in Nat /\ path \in Nat /\ origin \in {Unset} \cup Wheel /\ reads \in 0..MaxReads
  BY DEF FeedbackInit
<1>8. topics \in Setups /\ speed \in (-SpeedMax..SpeedMax) \X (-SpeedMax..SpeedMax)
  BY DEF FeedbackInit
<1> QED
  BY <1>1, <1>2, <1>3, <1>4, <1>5, <1>6, <1>7, <1>8, Zenon DEF FeedbackTypeOK

\* The two readers of the counts keep their types, whatever the counts.
LEMMA AccumulateType ==
  ASSUME acc \in Accumulator, NEW counts \in Counts \X Counts, Accumulate(counts)
  PROVE  acc' \in Accumulator /\ acc'.prev = counts /\ acc'.last = 0
<1> DEFINE prev == IF Reconnected THEN Unset ELSE acc.prev
           m == (IF Reconnected THEN 0 ELSE acc.mileage)
                  + IF prev # Unset /\ Plausible(Minus(counts, prev))
                    THEN Travelled(Minus(counts, prev)) ELSE 0
<1>1. acc' = [mileage |-> m, last |-> 0, prev |-> counts]
  BY Zenon DEF Accumulate
<1>2. acc.prev \in {Unset} \cup (Counts \X Counts) /\ acc.mileage \in Nat
  BY DEF Accumulator, Reading
<1>3. prev # Unset => prev \in Counts \X Counts
  BY <1>2
<1> HIDE DEF prev
<1>4. prev # Unset => Travelled(Minus(counts, prev)) \in Nat
  BY <1>3, MinusType, TravelledType
<1>5. m \in Nat
  BY <1>2, <1>4
<1> HIDE DEF m
<1> QED
  BY <1>1, <1>5, Numbers DEF Accumulator, Reading, Never

LEMMA OnPulsesType ==
  ASSUME odom \in Pose, NEW counts \in Counts \X Counts, OnPulses(counts)
  PROVE  odom' \in Pose
<1>1. Counts \subseteq Int /\ 0 \in 0..Late
  BY Numbers DEF Counts
<1>2. odom.last \in {Unset} \cup (Counts \X Counts) /\ odom.dt \in 0..Late
      /\ odom.since \in 0..Late /\ odom.along \in Int /\ odom.turn \in Int
  BY DEF Pose, Reading
<1>3. counts \in Reading
  BY DEF Reading
<1>4. CASE odom.last = Unset \/ odom.dt = 0
  BY <1>1, <1>3, <1>4 DEF OnPulses, Pose
<1>5. CASE odom.last # Unset /\ odom.dt # 0
  <2> DEFINE d == Minus(counts, odom.last)
             e == <<DeadZone(d[1], odom.dt), DeadZone(d[2], odom.dt)>>
             o == UpdateOdom(e, odom.dt)
  <2>1. odom' = [o EXCEPT !.last = counts, !.dt = 0]
    BY <1>5, Zenon DEF OnPulses
  <2>2. d[1] \in Int /\ d[2] \in Int
    BY <1>2, <1>5, MinusType
  <2>3. e[1] \in Int /\ e[2] \in Int /\ DeadZone(e[2] - e[1], odom.dt) \in Int
    BY <2>2 DEF DeadZone
  <2> HIDE DEF d, e
  <2>4. \A a \in Int : (Scale * a * odom.since) \div odom.dt \in Int
    BY <1>2, <1>5, Numbers
  <2>5. Sum2(e) \in Int
    BY <2>3 DEF Sum2
  <2>6. o \in Pose
    <3> DEFINE a == odom.along + ((Scale * Sum2(e) * odom.since) \div odom.dt)
               t == odom.turn + ((Scale * DeadZone(e[2] - e[1], odom.dt) * odom.since) \div odom.dt)
    <3>1. o = [odom EXCEPT !.along = a, !.turn = t, !.since = 0]
      BY DEF UpdateOdom
    <3>2. a \in Int /\ t \in Int
      BY <1>2, <2>3, <2>4, <2>5
    <3> HIDE DEF a, t, o
    <3> QED
      BY <1>1, <3>1, <3>2 DEF Pose
  <2> HIDE DEF o
  <2> QED
    BY <1>1, <1>3, <2>1, <2>6 DEF Pose
<1> QED
  BY <1>4, <1>5

\* What the node reads when the wheels stand at w.
Pair(w) == ParseSensorRegs(<<Register(base + w[1]), Register(base + w[2])>>)

\* The positions of the wheels are integers, and what is read of them are counts.
LEMMA WheelType == ASSUME NEW w \in Wheel PROVE w[1] \in Pulses /\ w[2] \in Pulses /\ Pulses \subseteq Int
BY Numbers DEF Wheel, Pulses

LEMMA PairType ==
  ASSUME FeedbackTypeOK, NEW w \in Wheel
  PROVE  Pair(w) \in Counts \X Counts
<1>1. base + w[1] \in Int /\ base + w[2] \in Int
  BY WheelType, Numbers DEF FeedbackTypeOK
<1> QED
  BY <1>1, Wraps DEF Pair, ParseSensorRegs

\* A garbled answer is read as counts, too.
LEMMA GarbledType == ASSUME NEW g \in Garbled PROVE ParseSensorRegs(g) \in Counts \X Counts
<1>1. g[1] \in 0..(Modulus - 1) /\ g[2] \in 0..(Modulus - 1)
  BY FeedbackAssumption
<1> QED
  BY <1>1, Numbers DEF ParseSensorRegs, SignExtend, Counts

\* One answer with counts keeps the types.
LEMMA ReadCountsType ==
  ASSUME FeedbackTypeOK, NEW counts \in Counts \X Counts, NEW g \in BOOLEAN,
         ReadCounts(counts, g), clean' \in BOOLEAN
  PROVE  FeedbackTypeOK'
<1>1. UNCHANGED <<topics, speed, wheels, base, off, win, smoothed, smoothedAt>>
  BY DEF ReadCounts, chassis
<1>2. acc' \in Accumulator
  BY AccumulateType DEF ReadCounts, FeedbackTypeOK
<1>3. odom' \in Pose
  BY OnPulsesType DEF ReadCounts, FeedbackTypeOK
<1>4. path' \in Nat /\ origin' \in {Unset} \cup Wheel /\ wrong' \in Nat /\ tainted' \in BOOLEAN
  BY DEF ReadCounts, FeedbackTypeOK
<1>5. stood' \in {"waiting", "stood", "moved"}
  BY DEF ReadCounts, FeedbackTypeOK
<1>6. reads' \in 0..MaxReads /\ 1..reads \subseteq 1..reads'
  BY Numbers DEF ReadCounts, FeedbackTypeOK
<1>7. DOMAIN win \subseteq 1..reads'
  BY <1>6, Zenon DEF FeedbackTypeOK
<1> QED
  BY <1>1, <1>2, <1>3, <1>4, <1>5, <1>6, <1>7, Zenon DEF FeedbackTypeOK

\* The window holds readings with a number, an age and a voltage.
LEMMA WindowType ==
  ASSUME FeedbackTypeOK, NEW v \in Volts, reads < MaxReads
  PROVE  /\ DOMAIN Window(v) \subseteq 1..(reads + 1)
         /\ Window(v) \in [DOMAIN Window(v) -> [age : 0..WindowS, v : Volts \ {0}]]
<1> DEFINE new == IF v > 0 THEN {reads + 1} ELSE {}
           kept == {j \in DOMAIN win : win[j].age < WindowS}
           R == [age : 0..WindowS, v : Volts \ {0}]
<1>1. Window(v) = [i \in kept \cup new |-> IF i \in new THEN [age |-> 0, v |-> v] ELSE win[i]]
  BY DEF Window
<1>2. kept \cup new \subseteq 1..(reads + 1)
  BY Numbers DEF FeedbackTypeOK
<1>3. \A i \in kept : win[i] \in R
  BY DEF FeedbackTypeOK
<1>4. v > 0 => [age |-> 0, v |-> v] \in R
  BY Numbers
<1>5. \A i \in kept \cup new : (IF i \in new THEN [age |-> 0, v |-> v] ELSE win[i]) \in R
  BY <1>3, <1>4
<1> HIDE DEF kept, new, R
<1>6. DOMAIN Window(v) = kept \cup new /\ Window(v) \in [kept \cup new -> R]
  BY <1>1, <1>5
<1> QED
  BY <1>2, <1>6 DEF R

-----------------------------------------------------------------------------
(* The median *)

\* The readings of a window that are no higher than v, and those that are lower.
UpTo(w, valid, v) == {i \in valid : w[i].v <= v}
Below(w, valid, v) == {i \in valid : w[i].v < v}

\* Every set of natural numbers with a member has a least one.
LEMMA Least ==
  ASSUME NEW U, U \subseteq Nat, U # {}
  PROVE  \E m \in U : \A v \in U : m <= v
<1> DEFINE T == {0..v : v \in U}
<1>1. T \subseteq FiniteSubsetsOf(Nat)
  <2>1. \A v \in U : IsFiniteSet(0..v) /\ 0..v \subseteq Nat
    BY FS_Interval
  <2> QED
    BY <2>1 DEF FiniteSubsetsOf
<1>2. PICK x \in T : \A y \in T : <<y, x>> \notin StrictSubsetOrdering(Nat)
  <2>1. T # {}
    OBVIOUS
  <2>2. IsWellFoundedOn(StrictSubsetOrdering(Nat), FiniteSubsetsOf(Nat))
    BY FS_StrictSubsetOrderingWellFounded
  <2> HIDE DEF T
  <2> QED
    BY <1>1, <2>1, <2>2, WFMin
<1>3. PICK m \in U : x = 0..m
  BY <1>2
<1>4. ASSUME NEW v \in U, v < m PROVE FALSE
  <2>1. 0..v \subseteq 0..m /\ 0..v # 0..m /\ 0..v \subseteq Nat /\ 0..m \subseteq Nat
    <3>1. m \in 0..m /\ m \notin 0..v
      BY <1>4
    <3>2. 0..v \subseteq 0..m
      BY <1>4
    <3> QED
      BY <3>1, <3>2
  <2>2. <<0..v, 0..m>> \in StrictSubsetOrdering(Nat)
    BY <2>1 DEF StrictSubsetOrdering
  <2> QED
    BY <1>2, <1>3, <2>2
<1> QED
  BY <1>4

\* The list has an element in the middle: no more than half of it is smaller,
\* and more than half is not greater.
LEMMA MedianIsMiddle ==
  ASSUME NEW w, NEW valid, IsFiniteSet(valid), valid # {},
         \A i \in valid : w[i].v \in Nat /\ IsValid(w[i].v)
  PROVE  /\ \E i \in valid : Median(w, valid) = w[i].v
         /\ Cardinality(Below(w, valid, Median(w, valid))) <= Cardinality(valid) \div 2
         /\ Cardinality(valid) \div 2 < Cardinality(UpTo(w, valid, Median(w, valid)))
<1> DEFINE n == Cardinality(valid) \div 2
           U == {v \in Nat : n < Cardinality(UpTo(w, valid, v))}
<1>1. Cardinality(valid) \in Nat /\ Cardinality(valid) # 0
  BY FS_CardinalityType, FS_EmptySet
<1>2. n \in Nat /\ n < Cardinality(valid)
  BY <1>1
<1>3. \A v \in Nat : UpTo(w, valid, v) \subseteq valid /\ Below(w, valid, v) \subseteq valid
  BY DEF UpTo, Below
<1>4. MaxValid \in U
  <2>1. UpTo(w, valid, MaxValid) = valid
    BY Numbers DEF UpTo, IsValid
  <2> QED
    BY <1>2, <2>1, Numbers
<1>5. PICK m \in U : \A v \in U : m <= v
  BY <1>4, Least
<1> HIDE DEF n
<1>6. m \in Nat /\ n < Cardinality(UpTo(w, valid, m))
  OBVIOUS
<1>7. Cardinality(Below(w, valid, m)) <= n
  <2>1. CASE m = 0
    <3>1. Below(w, valid, m) = {}
      BY <2>1 DEF Below
    <3> QED
      BY <1>2, <3>1, FS_EmptySet
  <2>2. CASE m # 0
    <3>1. m - 1 \in Nat /\ m - 1 \notin U
      BY <1>5, <1>6, <2>2
    <3>2. Below(w, valid, m) = UpTo(w, valid, m - 1)
      BY <1>6, <3>1 DEF Below, UpTo
    <3>3. Cardinality(Below(w, valid, m)) \in Nat
      BY <1>3, <1>6, FS_Subset, FS_CardinalityType
    <3> QED
      BY <1>2, <3>1, <3>2, <3>3
  <2> QED
    BY <2>1, <2>2
<1>8. m \in {w[i].v : i \in valid}
  <2> SUFFICES ASSUME m \notin {w[i].v : i \in valid} PROVE FALSE
    OBVIOUS
  <2>1. UpTo(w, valid, m) = Below(w, valid, m)
    BY <1>6 DEF UpTo, Below
  <2>2. Cardinality(Below(w, valid, m)) \in Nat
    BY <1>3, <1>6, FS_Subset, FS_CardinalityType
  <2> QED
    BY <1>2, <1>6, <1>7, <2>1, <2>2
<1> DEFINE Middle(v) == Cardinality(Below(w, valid, v)) <= n /\ n < Cardinality(UpTo(w, valid, v))
<1>9. Median(w, valid) = CHOOSE v \in {w[i].v : i \in valid} : Middle(v)
  BY DEF Median, Below, UpTo, n
<1>10. Middle(m)
  BY <1>6, <1>7
<1> HIDE DEF Middle
<1>11. Median(w, valid) \in {w[i].v : i \in valid} /\ Middle(Median(w, valid))
  BY <1>8, <1>9, <1>10, Zenon
<1> QED
  BY <1>11 DEF Middle, n

\* A set of readings is finite.
LEMMA FiniteWindow ==
  ASSUME NEW D, NEW n \in Nat, D \subseteq 1..n, NEW S, S \subseteq D
  PROVE  IsFiniteSet(S)
<1>1. IsFiniteSet(1..n)
  BY FS_Interval
<1>2. S \in SUBSET (1..n)
  OBVIOUS
<1> QED
  BY <1>1, <1>2, FS_Subset

\* Every step keeps the types, one action at a time.
LEMMA FeedbackTypeNext == FeedbackTypeOK /\ [FeedbackNext]_feedbackVars => FeedbackTypeOK'
<1> SUFFICES ASSUME FeedbackTypeOK, [FeedbackNext]_feedbackVars PROVE FeedbackTypeOK'
  OBVIOUS
<1>1. ASSUME NEW t \in Twists, Command(t) PROVE FeedbackTypeOK'
  <2>1. speed' \in (-SpeedMax..SpeedMax) \X (-SpeedMax..SpeedMax)
    <3>1. t[1] \in Int /\ t[2] \in Int
      BY FeedbackAssumption
    <3> QED
      BY <1>1, <3>1, Numbers DEF Command, TwistToWheelSpeeds, Clamp
  <2>2. UNCHANGED <<topics, wheels, base, off, odometry, gauge>>
    BY <1>1 DEF Command
  <2> QED
    BY <2>1, <2>2, Zenon DEF FeedbackTypeOK, odometry, gauge
<1>2. ASSUME ReadEncoders PROVE FeedbackTypeOK'
  <2>1. Pair(wheels) \in Counts \X Counts
    BY PairType DEF FeedbackTypeOK
  <2>2. ReadCounts(Pair(wheels), FALSE) /\ clean' \in BOOLEAN
    BY <1>2, Zenon DEF ReadEncoders, Pair
  <2> QED
    BY <2>1, <2>2, ReadCountsType
<1>3. ASSUME Garble PROVE FeedbackTypeOK'
  BY <1>3, GarbledType, ReadCountsType DEF Garble
<1>4. ASSUME PowerOff PROVE FeedbackTypeOK'
  BY <1>4, Zenon DEF PowerOff, FeedbackTypeOK, odometry, gauge
<1>5. ASSUME PowerOn PROVE FeedbackTypeOK'
  <2>1. /\ wheels' \in Wheel /\ base' \in Bases \cup {0}
        /\ speed' \in (-SpeedMax..SpeedMax) \X (-SpeedMax..SpeedMax) /\ clean' = FALSE
        /\ off' = FALSE /\ tainted' = TRUE
    BY <1>5, Numbers DEF PowerOn, Wheel, Pulses
  <2> QED
    BY <1>5, <2>1, Zenon DEF PowerOn, FeedbackTypeOK, gauge
<1>6. ASSUME Elapse PROVE FeedbackTypeOK'
  <2>1. wheels' \in Wheel /\ path' \in Nat
    <3>1. speed[1] \in Int /\ speed[2] \in Int /\ path \in Nat
      BY Numbers DEF FeedbackTypeOK
    <3>2. AbsOf(Sum2(speed)) \in Nat
      BY <3>1 DEF AbsOf, Sum2
    <3> QED
      BY <1>6, <3>1, <3>2 DEF Elapse, Roll, FeedbackTypeOK
  <2>3. acc' \in Accumulator /\ odom' \in Pose
    <3>1. acc \in Accumulator /\ odom \in Pose
      BY DEF FeedbackTypeOK
    <3>2. \A n \in 0..Late : Older1(n) \in 0..Late
      BY AgeToType, Numbers DEF Older1
    <3>3. acc.last # Never => acc.last \in 0..Late
      BY <3>1, Numbers DEF Accumulator, Never
    <3>4. CASE acc.last = Never
      BY <1>6, <3>1, <3>2, <3>4 DEF Elapse, Accumulator, Pose
    <3>5. CASE acc.last # Never
      <4>1. acc' = [acc EXCEPT !.last = Older1(acc.last)]
        BY <1>6, <3>5 DEF Elapse
      <4>2. Older1(acc.last) \in Never..Late
        BY <3>2, <3>3, <3>5, Numbers DEF Never
      <4>3. odom' = [odom EXCEPT !.since = Older1(odom.since), !.dt = Older1(odom.dt)]
        BY <1>6 DEF Elapse
      <4> QED
        BY <3>1, <3>2, <4>1, <4>2, <4>3 DEF Accumulator, Pose
    <3> QED
      BY <3>4, <3>5
  <2>4. DOMAIN win' = DOMAIN win
        /\ win' \in [DOMAIN win -> [age : 0..WindowS, v : Volts \ {0}]]
    <3> DEFINE R == [age : 0..WindowS, v : Volts \ {0}]
    <3>1. win \in [DOMAIN win -> R]
      BY DEF FeedbackTypeOK
    <3>2. \A r \in R : [r EXCEPT !.age = AgeTo(r.age, WindowS)] \in R
      BY AgeToType, Numbers
    <3>3. win' = [i \in DOMAIN win |-> [win[i] EXCEPT !.age = AgeTo(win[i].age, WindowS)]]
      BY <1>6 DEF Elapse
    <3> HIDE DEF R
    <3>4. win' \in [DOMAIN win -> R]
      BY <3>1, <3>2, <3>3
    <3> QED
      BY <3>4 DEF R
  <2>5. smoothedAt' \in 0..Forgotten
    BY <1>6, AgeToType, Numbers DEF Elapse, FeedbackTypeOK, Forgotten
  <2> QED
    BY <1>6, <2>1, <2>3, <2>4, <2>5, Zenon DEF Elapse, FeedbackTypeOK
<1>7. ASSUME NEW v \in Volts, AddReading(v) PROVE FeedbackTypeOK'
  <2>1. reads' = reads + 1 /\ reads < MaxReads /\ win' = Window(v)
    BY <1>7 DEF AddReading
  <2>2. /\ DOMAIN win' \subseteq 1..reads' /\ win' \in [DOMAIN win' -> [age : 0..WindowS, v : Volts \ {0}]]
    BY <2>1, WindowType
  <2>3. reads' \in 0..MaxReads
    BY <2>1, Numbers DEF FeedbackTypeOK
  <2>4. smoothed' \in Volts /\ smoothedAt' \in 0..Forgotten
    <3>1. smoothed \in Volts /\ smoothedAt \in 0..Forgotten
      BY DEF FeedbackTypeOK
    <3> DEFINE valid == {i \in DOMAIN win' : IsValid(win'[i].v)}
    <3>2. valid # {} => Median(win', valid) \in Volts
      <4>1. IsFiniteSet(valid)
        <5>1. reads' \in Nat /\ DOMAIN win' \subseteq 1..reads' /\ valid \subseteq DOMAIN win'
          BY <2>2, <2>3, Numbers
        <5> QED
          BY <5>1, FiniteWindow, Zenon
      <4>2. \A i \in valid : win'[i].v \in Volts /\ win'[i].v \in Nat /\ IsValid(win'[i].v)
        <5>1. \A i \in DOMAIN win' : win'[i] \in [age : 0..WindowS, v : Volts \ {0}]
          BY <2>2
        <5>2. \A i \in DOMAIN win' : win'[i].v \in Volts
          BY <5>1
        <5> QED
          BY <5>2, Numbers
      <4> HIDE DEF valid
      <4>3. valid # {} => \E i \in valid : Median(win', valid) = win'[i].v
        BY <4>1, <4>2, MedianIsMiddle, Zenon
      <4> QED
        BY <4>2, <4>3
    <3>3. 0 \in 0..Forgotten
      BY Numbers DEF Forgotten
    <3>4. \/ UNCHANGED <<smoothed, smoothedAt>>
          \/ valid # {} /\ smoothed' = Median(win', valid) /\ smoothedAt' = 0
      BY <1>7, Zenon DEF AddReading
    <3> QED
      BY <3>1, <3>2, <3>3, <3>4, Zenon
  <2> QED
    BY <1>7, <2>2, <2>3, <2>4, Zenon DEF AddReading, FeedbackTypeOK, chassis, odometry
<1>8. CASE UNCHANGED feedbackVars
  BY <1>8, Zenon DEF feedbackVars, chassis, odometry, gauge, FeedbackTypeOK
<1> QED
  BY <1>1, <1>2, <1>3, <1>4, <1>5, <1>6, <1>7, <1>8 DEF FeedbackNext

\* Every variable of Feedback keeps its type; with the median of a window there is
\* always one of its readings.
THEOREM FeedbackTypeCorrect == FeedbackSpec => []FeedbackTypeOK
BY FeedbackTypeInit, FeedbackTypeNext, PTL DEF FeedbackSpec

-----------------------------------------------------------------------------
(* The gauge *)

\* Two parts of a set without a common element are no larger than the set.
LEMMA Disjoint ==
  ASSUME NEW S, IsFiniteSet(S), NEW A \in SUBSET S, NEW B \in SUBSET S, A \cap B = {}
  PROVE  /\ Cardinality(A) \in Nat /\ Cardinality(B) \in Nat /\ Cardinality(S) \in Nat
         /\ Cardinality(A) + Cardinality(B) <= Cardinality(S)
<1>1. IsFiniteSet(A) /\ IsFiniteSet(B) /\ IsFiniteSet(A \cup B)
  BY FS_Subset, FS_Union
<1>2. Cardinality(A) \in Nat /\ Cardinality(B) \in Nat /\ Cardinality(S) \in Nat
  BY <1>1, FS_CardinalityType
<1>3. Cardinality(A \cup B) = Cardinality(A) + Cardinality(B) - 0
  BY <1>1, FS_Union, FS_EmptySet
<1>4. Cardinality(A \cup B) <= Cardinality(S)
  <2>1. A \cup B \in SUBSET S
    OBVIOUS
  <2> QED
    BY <2>1, FS_Subset
<1> QED
  BY <1>2, <1>3, <1>4

\* More than half of a list lies neither all above its middle nor all below it.
LEMMA MajorityAround ==
  ASSUME NEW w, NEW valid, IsFiniteSet(valid), NEW honest \in SUBSET valid,
         \A i \in valid : w[i].v \in Nat /\ IsValid(w[i].v),
         2 * Cardinality(honest) > Cardinality(valid)
  PROVE  \E i, j \in honest : w[i].v <= Median(w, valid) /\ Median(w, valid) <= w[j].v
<1> DEFINE m == Median(w, valid)
           c == Cardinality(valid)
           h == Cardinality(honest)
<1>1. c \in Nat /\ h \in Nat
  BY FS_Subset, FS_CardinalityType
<1>2. valid # {}
  BY <1>1, FS_EmptySet
<1>3. /\ m \in Nat /\ Cardinality(Below(w, valid, m)) <= c \div 2
      /\ c \div 2 < Cardinality(UpTo(w, valid, m))
  BY <1>2, MedianIsMiddle
<1>4. UpTo(w, valid, m) \in SUBSET valid /\ Below(w, valid, m) \in SUBSET valid
  BY DEF UpTo, Below
<1> HIDE DEF m
<1>5. \E i \in honest : w[i].v <= m
  <2> SUFFICES ASSUME \A i \in honest : ~(w[i].v <= m) PROVE FALSE
    OBVIOUS
  <2>1. honest \cap UpTo(w, valid, m) = {}
    BY DEF UpTo
  <2>2. h + Cardinality(UpTo(w, valid, m)) <= c /\ Cardinality(UpTo(w, valid, m)) \in Nat
    BY <1>4, <2>1, Disjoint
  <2> QED
    BY <1>1, <1>3, <2>2
<1>6. \E j \in honest : m <= w[j].v
  <2> SUFFICES ASSUME \A j \in honest : ~(m <= w[j].v) PROVE FALSE
    OBVIOUS
  <2>1. honest \in SUBSET Below(w, valid, m)
    BY <1>3 DEF Below
  <2>2. IsFiniteSet(Below(w, valid, m))
    BY <1>4, FS_Subset
  <2>3. h <= Cardinality(Below(w, valid, m)) /\ Cardinality(Below(w, valid, m)) \in Nat
    BY <2>1, <2>2, FS_Subset, FS_CardinalityType
  <2> QED
    BY <1>1, <1>3, <2>3
<1> QED
  BY <1>5, <1>6 DEF m

\* The gauge shows a voltage between two true ones of the window as long as most
\* of the plausible readings in it are true, for any window and any garbage.
THEOREM GaugeShowsTypical == FeedbackSpec => GaugeIsTypical
<1> DEFINE Valid == {i \in DOMAIN win' : IsValid(win'[i].v)}
           Honests == {i \in Valid : win'[i].v \in Honest}
<1>1. FeedbackTypeOK /\ FeedbackTypeOK' /\ [FeedbackNext]_feedbackVars => [ShowsTypical]_feedbackVars
  <2> SUFFICES ASSUME FeedbackTypeOK, FeedbackTypeOK', FeedbackNext, smoothedAt # 0, smoothedAt' = 0,
                      2 * Cardinality(Honests) > Cardinality(Valid)
               PROVE  \E i, j \in Honests : win'[i].v <= smoothed' /\ smoothed' <= win'[j].v
    BY Zenon DEF ShowsTypical
  <2>1. smoothedAt \in Nat /\ Forgotten \in Nat /\ Forgotten > 0
    BY Numbers DEF FeedbackTypeOK, Forgotten
  <2>2. ~Elapse
    BY <2>1 DEF Elapse, AgeTo
  <2>3. smoothedAt' # smoothedAt
    OBVIOUS
  <2>4. PICK v \in Volts : AddReading(v)
    BY <2>2, <2>3 DEF FeedbackNext, Command, ReadEncoders, Garble, ReadCounts, PowerOff, PowerOn, gauge
  <2>5. smoothed' = Median(win', Valid)
    BY <2>3, <2>4, Zenon DEF AddReading
  <2>6. IsFiniteSet(Valid)
    <3>1. reads' \in Nat /\ DOMAIN win' \subseteq 1..reads' /\ Valid \subseteq DOMAIN win'
      BY Numbers DEF FeedbackTypeOK
    <3> QED
      BY <3>1, FiniteWindow, Zenon
  <2>7. \A i \in Valid : win'[i].v \in Nat /\ IsValid(win'[i].v)
    <3>1. \A i \in DOMAIN win' : win'[i] \in [age : 0..WindowS, v : Volts \ {0}]
      BY DEF FeedbackTypeOK
    <3>2. \A i \in DOMAIN win' : win'[i].v \in Volts
      BY <3>1
    <3> QED
      BY <3>2, Numbers
  <2>8. Honests \in SUBSET Valid
    OBVIOUS
  <2> HIDE DEF Valid, Honests
  <2> QED
    BY <2>5, <2>6, <2>7, <2>8, MajorityAround, Zenon
<1> QED
  BY FeedbackTypeInit, FeedbackTypeNext, <1>1, PTL DEF FeedbackSpec, GaugeIsTypical

-----------------------------------------------------------------------------
(* Mileage *)

\* The difference of two readings is that of the counts if it is plausible and
\* the counts are closer than the width.
LEMMA Unwraps ==
  ASSUME NEW x \in Int, NEW y \in Int, AbsOf(x - y) <= SpeedMax * ReconnectGap,
         AbsOf(SignExtend(Register(x)) - SignExtend(Register(y))) < MaxDelta
  PROVE  SignExtend(Register(x)) - SignExtend(Register(y)) = x - y
<1>1. PICK k \in Int : SignExtend(Register(x)) = x - Modulus * k
  BY Wraps
<1>2. PICK l \in Int : SignExtend(Register(y)) = y - Modulus * l
  BY Wraps
<1> DEFINE p == Modulus * k
           q == Modulus * l
           r == SpeedMax * ReconnectGap
<1>3. p \in Int /\ q \in Int /\ r \in Int /\ MaxDelta + r < Modulus /\ Modulus \in Nat /\ MaxDelta \in Nat
  BY Numbers, FeedbackAssumption
<1>4. Modulus * (k - l) = p - q /\ k - l \in Int
  BY Numbers
<1> HIDE DEF p, q, r
<1>5. -Modulus < p - q /\ p - q < Modulus
  BY <1>1, <1>2, <1>3 DEF AbsOf, p, q, r
<1>6. p - q = 0
  <2>1. k - l = 0
    BY <1>4, <1>5, NoMultiple
  <2> QED
    BY <1>4, <2>1, Numbers
<1> QED
  BY <1>1, <1>2, <1>3, <1>6 DEF p, q

\* Until there is a first reading there is no mileage and no pose; from then on
\* both readers have heard it.
Started ==
  /\ origin = Unset =>
       /\ acc.last = Never /\ acc.mileage = 0 /\ acc.prev = Unset /\ odom.last = Unset
       /\ stood = "waiting" /\ odom.along = 0 /\ odom.turn = 0
  /\ origin # Unset =>
       /\ acc.last # Never /\ odom.dt = acc.last
       /\ acc.prev # Unset /\ odom.last # Unset

\* Nothing has been read at the start.
LEMMA StartedInit == FeedbackInit => Started
BY DEF FeedbackInit, Started

\* What a message does to the clocks and the last counts of the dead reckoning.
LEMMA OdomTimes ==
  ASSUME odom \in Pose, NEW counts \in Counts \X Counts, OnPulses(counts)
  PROVE  /\ odom'.dt = 0 /\ odom'.last # Unset
         /\ odom.last = Unset =>
              odom'.along = odom.along /\ odom'.turn = odom.turn /\ odom'.last = counts
         /\ odom.last # Unset /\ odom.dt = 0 => odom' = odom
         /\ odom.last # Unset /\ odom.dt # 0 => odom'.last = counts /\ odom'.since = 0
<1>1. counts # Unset
  <2>1. counts = <<counts[1], counts[2]>>
    OBVIOUS
  <2> QED
    BY <2>1, NotUnset
<1>2. CASE odom.last = Unset
  BY <1>1, <1>2 DEF OnPulses, Pose
<1>3. CASE odom.last # Unset /\ odom.dt = 0
  BY <1>3 DEF OnPulses, Pose
<1>4. CASE odom.last # Unset /\ odom.dt # 0
  <2> DEFINE d == Minus(counts, odom.last)
             o == UpdateOdom(<<DeadZone(d[1], odom.dt), DeadZone(d[2], odom.dt)>>, odom.dt)
  <2>1. odom' = [o EXCEPT !.last = counts, !.dt = 0]
    BY <1>4, Zenon DEF OnPulses
  <2>2. o.since = 0 /\ DOMAIN o = {"last", "since", "dt", "along", "turn"}
    BY DEF UpdateOdom, Pose
  <2> HIDE DEF o
  <2> QED
    BY <1>1, <1>4, <2>1, <2>2
<1> QED
  BY <1>2, <1>3, <1>4

\* What a reading does to the mileage and the way travelled.
LEMMA ReadingStep ==
  ASSUME FeedbackTypeOK, Started, NEW counts \in Counts \X Counts, NEW g \in BOOLEAN,
         ReadCounts(counts, g)
  PROVE  /\ acc'.last = 0 /\ acc'.prev = counts /\ origin' # Unset /\ tainted' = g
         /\ UNCHANGED <<wheels, base>>
         /\ Reconnected \/ origin = Unset => acc'.mileage = 0 /\ path' = 0 /\ wrong' = 0
         /\ ~Reconnected /\ origin # Unset =>
              /\ path' = path /\ acc.prev \in Counts \X Counts
              /\ wrong' = IF g \/ tainted THEN wrong + 1 ELSE wrong
              /\ acc'.mileage = acc.mileage + IF Plausible(Minus(counts, acc.prev))
                                              THEN Travelled(Minus(counts, acc.prev)) ELSE 0
<1>1. acc'.last = 0 /\ acc'.prev = counts
  BY AccumulateType DEF ReadCounts, FeedbackTypeOK
<1>2. wheels = <<wheels[1], wheels[2]>>
  BY DEF FeedbackTypeOK, Wheel
<1>3. origin' # Unset
  BY <1>2, NotUnset DEF ReadCounts
<1>4. UNCHANGED <<wheels, base>> /\ tainted' = g
  BY DEF ReadCounts, chassis
<1>5. Accumulate(counts) /\ acc \in Accumulator
  BY DEF ReadCounts, FeedbackTypeOK
<1>6. Reconnected \/ origin = Unset => acc'.mileage = 0 /\ path' = 0 /\ wrong' = 0
  BY <1>5, Numbers DEF Accumulate, Reconnected, Started, Never, ReadCounts
<1>7. ~Reconnected /\ origin # Unset => path' = path /\ acc.prev # Unset
        /\ wrong' = (IF g \/ tainted THEN wrong + 1 ELSE wrong)
        /\ acc'.mileage = acc.mileage + IF Plausible(Minus(counts, acc.prev))
                                        THEN Travelled(Minus(counts, acc.prev)) ELSE 0
  BY <1>5 DEF Accumulate, Started, ReadCounts
<1> QED
  BY <1>1, <1>3, <1>4, <1>5, <1>6, <1>7 DEF Accumulator, Reading

\* With a reading both readers have started.
LEMMA StartedReading ==
  ASSUME FeedbackTypeOK, Started, NEW counts \in Counts \X Counts, NEW g \in BOOLEAN,
         ReadCounts(counts, g)
  PROVE  Started'
<1>1. /\ acc'.last = 0 /\ acc'.prev = counts /\ origin' # Unset
  BY ReadingStep
<1>2. odom'.dt = 0 /\ odom'.last # Unset
  BY OdomTimes DEF ReadCounts, FeedbackTypeOK
<1>3. counts # Unset
  <2>1. counts = <<counts[1], counts[2]>>
    OBVIOUS
  <2> QED
    BY <2>1, NotUnset
<1> QED
  BY <1>1, <1>2, <1>3 DEF Started, Never

\* How time passes for the accumulator.
LEMMA AccAges ==
  ASSUME FeedbackTypeOK, Started, Elapse
  PROVE  /\ acc'.mileage = acc.mileage /\ acc'.prev = acc.prev
         /\ acc'.last \in Never..Late
         /\ origin = Unset => acc'.last = Never
         /\ origin # Unset =>
              /\ acc.last \in 0..Late /\ acc'.last = AgeTo(acc.last, Late)
              /\ odom'.dt = acc'.last
         /\ odom'.last = odom.last /\ odom'.along = odom.along /\ odom'.turn = odom.turn
         /\ odom.since = odom.dt => odom'.since = odom'.dt
<1>1. acc \in Accumulator /\ odom \in Pose
  BY DEF FeedbackTypeOK
<1>2. /\ acc' = [acc EXCEPT !.last = IF acc.last = Never THEN Never ELSE Older1(acc.last)]
      /\ odom' = [odom EXCEPT !.since = Older1(odom.since), !.dt = Older1(odom.dt)]
  BY DEF Elapse
<1>3. acc.last \in Never..Late /\ (acc.last # Never => acc.last \in 0..Late)
  BY <1>1, Numbers DEF Accumulator, Never
<1>4. acc.last # Never => AgeTo(acc.last, Late) \in 0..Late
  BY <1>3, AgeToType, Numbers
<1> QED
  BY <1>1, <1>2, <1>3, <1>4, Numbers DEF Accumulator, Pose, Older1, Started, Never

\* Every step keeps the relation of the readers to the first reading.
LEMMA StartedNext == FeedbackTypeOK /\ Started /\ [FeedbackNext]_feedbackVars => Started'
<1> SUFFICES ASSUME FeedbackTypeOK, Started, [FeedbackNext]_feedbackVars PROVE Started'
  OBVIOUS
<1>1. ASSUME ReadEncoders PROVE Started'
  BY <1>1, StartedReading, PairType DEF ReadEncoders, Pair, FeedbackTypeOK
<1>2. ASSUME Garble PROVE Started'
  BY <1>2, StartedReading, GarbledType DEF Garble
<1>3. ASSUME PowerOn PROVE Started'
  BY <1>3 DEF PowerOn, Started
<1>4. ASSUME Elapse PROVE Started'
  <2>1. UNCHANGED <<origin, stood>>
    BY <1>4 DEF Elapse
  <2>2. origin # Unset => acc'.last # Never
    BY <1>4, AccAges, Numbers DEF AgeTo, Never
  <2> QED
    BY <1>4, <2>1, <2>2, AccAges DEF Started
<1>5. CASE UNCHANGED odometry
  BY <1>5 DEF odometry, Started
<1> QED
  BY <1>1, <1>2, <1>3, <1>4, <1>5
     DEF FeedbackNext, Command, AddReading, PowerOff, feedbackVars

\* The wheels are no farther from w than speed and time allow.
Near(w) ==
  /\ AbsOf(wheels[1] - w[1]) <= SpeedMax * acc.last
  /\ AbsOf(wheels[2] - w[2]) <= SpeedMax * acc.last

\* What the differences to or from wrong readings may have added.
Slack == wrong * 2 * (MaxDelta - 1)

\* Mileage is behind by what the wheels have travelled since the last reading if
\* that was a true one.
Ahead ==
  /\ acc.mileage <= path + Slack
  /\ origin # Unset /\ acc.last <= ReconnectGap /\ ~tainted =>
       \E w \in Wheel : /\ acc.prev = Pair(w) /\ Near(w)
                        /\ acc.mileage + AbsOf(Sum2(Minus(wheels, w))) <= path + Slack

\* Each of them may add less than max_delta for each wheel.
LEMMA Slacks ==
  ASSUME wrong \in Nat
  PROVE  /\ Slack \in Nat /\ 2 * (MaxDelta - 1) \in Nat
         /\ wrong' = 0 => Slack' = 0
         /\ wrong' = wrong => Slack' = Slack
         /\ wrong' = wrong + 1 => Slack' = Slack + 2 * (MaxDelta - 1)
<1>1. MaxDelta - 1 \in Nat
  <2>1. SpeedMax * DeadTicks \in Nat /\ SpeedMax * DeadTicks < MaxDelta
    BY Numbers, FeedbackAssumption
  <2> QED
    BY <2>1, Numbers
<1>2. \A n \in Nat : n * 2 * (MaxDelta - 1) \in Nat
  BY <1>1
<1>3. \A n \in Nat : (n + 1) * 2 * (MaxDelta - 1) = n * 2 * (MaxDelta - 1) + 2 * (MaxDelta - 1)
  BY <1>1
<1>4. 0 * 2 * (MaxDelta - 1) = 0 /\ 2 * (MaxDelta - 1) \in Nat
  BY <1>1
<1> QED
  BY <1>2, <1>3, <1>4 DEF Slack

\* At the start there is neither mileage nor way.
LEMMA AheadInit == FeedbackInit => Ahead
<1> SUFFICES ASSUME FeedbackInit PROVE Ahead
  OBVIOUS
<1>1. wrong = 0 /\ acc.mileage = 0 /\ path = 0 /\ origin = Unset
  BY DEF FeedbackInit
<1> QED
  BY <1>1, Slacks DEF Ahead

\* Between two true readings close in time a plausible difference is the way of
\* the wheels.
LEMMA TrueDifference ==
  ASSUME FeedbackTypeOK, NEW w \in Wheel, Near(w), acc.last \in 0..ReconnectGap,
         Plausible(Minus(Pair(wheels), Pair(w)))
  PROVE  Minus(Pair(wheels), Pair(w)) = Minus(wheels, w)
<1>1. /\ w[1] \in Int /\ w[2] \in Int /\ wheels[1] \in Int /\ wheels[2] \in Int /\ base \in Int
  BY WheelType, Numbers DEF FeedbackTypeOK
<1>2. SpeedMax * acc.last <= SpeedMax * ReconnectGap
  BY Numbers
<1>3. ASSUME NEW x \in Int, NEW y \in Int, AbsOf(x - y) <= SpeedMax * acc.last,
             AbsOf(SignExtend(Register(base + x)) - SignExtend(Register(base + y))) < MaxDelta
      PROVE  SignExtend(Register(base + x)) - SignExtend(Register(base + y)) = x - y
  <2>1. base + x \in Int /\ base + y \in Int /\ (base + x) - (base + y) = x - y
    BY <1>1
  <2>2. AbsOf(x - y) \in Int /\ SpeedMax * acc.last \in Int /\ SpeedMax * ReconnectGap \in Int
    BY Numbers DEF AbsOf
  <2>3. AbsOf(x - y) <= SpeedMax * ReconnectGap
    BY <1>2, <1>3, <2>2
  <2> QED
    BY <1>3, <2>1, <2>3, Unwraps
<1>4. /\ Pair(wheels) = <<SignExtend(Register(base + wheels[1])), SignExtend(Register(base + wheels[2]))>>
      /\ Pair(w) = <<SignExtend(Register(base + w[1])), SignExtend(Register(base + w[2]))>>
  BY DEF Pair, ParseSensorRegs
<1>5. Pair(wheels)[1] - Pair(w)[1] = wheels[1] - w[1]
  BY <1>1, <1>3, <1>4 DEF Near, Plausible, Minus
<1>6. Pair(wheels)[2] - Pair(w)[2] = wheels[2] - w[2]
  BY <1>1, <1>3, <1>4 DEF Near, Plausible, Minus
<1> QED
  BY <1>5, <1>6 DEF Minus

\* A plausible difference adds less than max_delta for each wheel.
LEMMA PlausibleBound ==
  ASSUME NEW d, d[1] \in Int, d[2] \in Int, Plausible(d)
  PROVE  Travelled(d) \in Nat /\ Travelled(d) <= 2 * (MaxDelta - 1)
BY Numbers DEF Plausible, Travelled, Sum2, AbsOf

\* The mileage after a reading is no more than the way and what wrong readings may
\* have added: either it did not grow, or the difference was the way of the wheels,
\* or it is one more that counts as wrong.
LEMMA ReadingAhead ==
  ASSUME FeedbackTypeOK, Started, Ahead, NEW counts \in Counts \X Counts, NEW g \in BOOLEAN,
         ReadCounts(counts, g), ~g => counts = Pair(wheels)
  PROVE  acc'.mileage <= path' + Slack'
<1>1. acc.mileage \in Nat /\ path \in Nat /\ acc.last \in Never..Late /\ wrong \in Nat
  BY DEF FeedbackTypeOK, Accumulator
<1>2. CASE Reconnected \/ origin = Unset
  <2>1. acc'.mileage = 0 /\ path' = 0 /\ wrong' = 0
    BY <1>2, ReadingStep
  <2> QED
    BY <1>1, <2>1, Slacks
<1>3. CASE ~Reconnected /\ origin # Unset
  <2> DEFINE d == Minus(counts, acc.prev)
  <2>1. /\ path' = path /\ acc'.mileage = acc.mileage + IF Plausible(d) THEN Travelled(d) ELSE 0
        /\ acc.prev \in Counts \X Counts /\ wrong' = IF g \/ tainted THEN wrong + 1 ELSE wrong
    BY <1>3, ReadingStep
  <2>2. acc.last \in 0..ReconnectGap
    BY <1>1, <1>3, Numbers DEF Reconnected, Started, Never
  <2>3. Plausible(d) => Travelled(d) \in Nat /\ Travelled(d) <= 2 * (MaxDelta - 1)
    BY <2>1, MinusType, PlausibleBound
  <2>4. CASE g \/ tainted
    <3>1. Slack' = Slack + 2 * (MaxDelta - 1) /\ Slack \in Nat /\ 2 * (MaxDelta - 1) \in Nat
      BY <1>1, <2>1, <2>4, Slacks
    <3>2. acc.mileage <= path + Slack
      BY DEF Ahead
    <3> DEFINE m == 2 * (MaxDelta - 1)
               a == IF Plausible(d) THEN Travelled(d) ELSE 0
    <3>3. a \in Nat /\ a <= m /\ m \in Int
      <4>1. m \in Nat
        BY <3>1
      <4> QED
        BY <2>3, <4>1
    <3>4. acc'.mileage = acc.mileage + a /\ path' = path /\ Slack' = Slack + m /\ Slack \in Nat
      BY <2>1, <3>1
    <3> HIDE DEF d, m, a
    <3> QED
      BY <1>1, <3>2, <3>3, <3>4
  <2>5. CASE ~(g \/ tainted)
    <3>1. Slack' = Slack /\ Slack \in Nat
      BY <1>1, <2>1, <2>5, Slacks
    <3>2. PICK w \in Wheel : /\ acc.prev = Pair(w) /\ Near(w)
                             /\ acc.mileage + AbsOf(Sum2(Minus(wheels, w))) <= path + Slack
      BY <1>3, <2>2, <2>5, Numbers DEF Ahead
    <3>3. Plausible(d) => d = Minus(wheels, w)
      BY <2>2, <2>5, <3>2, TrueDifference
    <3>4. Plausible(d) => acc.mileage + Travelled(d) <= path + Slack
      BY <3>2, <3>3 DEF Travelled
    <3>5. acc.mileage <= path + Slack
      BY DEF Ahead
    <3> HIDE DEF d
    <3> QED
      BY <1>1, <2>1, <2>3, <3>1, <3>4, <3>5
  <2> QED
    BY <2>4, <2>5
<1> QED
  BY <1>2, <1>3

\* In a tick the wheels get no farther from where they were read than time allows.
LEMMA NearElapse ==
  ASSUME FeedbackTypeOK, Started, Elapse, origin # Unset, acc'.last <= ReconnectGap,
         NEW w \in Wheel, Near(w)
  PROVE  Near(w)'
<1>1. acc.last \in 0..Late /\ acc'.last = acc.last + 1
  BY AccAges, Numbers DEF AgeTo
<1>2. SpeedMax * acc'.last = SpeedMax * acc.last + SpeedMax /\ SpeedMax * acc.last \in Nat
  BY <1>1, Numbers
<1>3. /\ wheels[1] \in Int /\ wheels[2] \in Int /\ speed[1] \in -SpeedMax..SpeedMax
      /\ speed[2] \in -SpeedMax..SpeedMax /\ w[1] \in Int /\ w[2] \in Int
  BY WheelType DEF FeedbackTypeOK
<1>4. wheels' = wheels \/ wheels' = <<wheels[1] + speed[1], wheels[2] + speed[2]>>
  BY DEF Elapse, Roll
<1>5. AbsOf(wheels'[1] - w[1]) <= SpeedMax * acc.last + SpeedMax
  BY <1>2, <1>3, <1>4, Numbers DEF AbsOf, Near
<1>6. AbsOf(wheels'[2] - w[2]) <= SpeedMax * acc.last + SpeedMax
  BY <1>2, <1>3, <1>4, Numbers DEF AbsOf, Near
<1> QED
  BY <1>2, <1>5, <1>6 DEF Near

\* No step lets the mileage get ahead of the way.
LEMMA AheadNext == FeedbackTypeOK /\ Started /\ Ahead /\ [FeedbackNext]_feedbackVars => Ahead'
<1> SUFFICES ASSUME FeedbackTypeOK, Started, Ahead, [FeedbackNext]_feedbackVars PROVE Ahead'
  OBVIOUS
<1>1. ASSUME ReadEncoders PROVE Ahead'
  <2>1. wheels \in Wheel /\ Pair(wheels) \in Counts \X Counts
    BY PairType DEF FeedbackTypeOK
  <2>2. ReadCounts(Pair(wheels), FALSE)
    BY <1>1 DEF ReadEncoders, Pair
  <2>3. acc'.mileage <= path' + Slack'
    BY <2>1, <2>2, ReadingAhead
  <2>4. /\ acc'.last = 0 /\ acc'.prev = Pair(wheels) /\ UNCHANGED <<wheels, base>>
        /\ acc'.mileage \in Nat
    BY <2>1, <2>2, <1>1, FeedbackTypeNext, ReadingStep DEF FeedbackNext, FeedbackTypeOK, Accumulator
  <2>5. Pair(wheels)' = Pair(wheels)
    BY <2>4 DEF Pair
  <2>6. wheels[1] \in Int /\ wheels[2] \in Int
    BY <2>1, WheelType
  <2>7. Near(wheels)' /\ AbsOf(Sum2(Minus(wheels, wheels)))' = 0
    BY <2>4, <2>6, Numbers DEF Near, AbsOf, Sum2, Minus
  <2>8. (\E w \in Wheel : /\ acc.prev = Pair(w) /\ Near(w)
                          /\ acc.mileage + AbsOf(Sum2(Minus(wheels, w))) <= path + Slack)'
    BY <2>1, <2>3, <2>4, <2>5, <2>7
  <2> QED
    BY <2>3, <2>8 DEF Ahead
<1>2. ASSUME Garble PROVE Ahead'
  <2>1. PICK g \in Garbled : ReadCounts(ParseSensorRegs(g), TRUE)
    BY <1>2 DEF Garble
  <2>2. acc'.mileage <= path' + Slack' /\ tainted' = TRUE
    BY <2>1, GarbledType, ReadingAhead, ReadingStep
  <2> QED
    BY <2>2 DEF Ahead
<1>3. ASSUME PowerOn PROVE Ahead'
  BY <1>3 DEF PowerOn, Ahead, Slack
<1>4. ASSUME Elapse PROVE Ahead'
  <2>1. /\ acc'.mileage = acc.mileage /\ acc'.prev = acc.prev
        /\ UNCHANGED <<base, origin, tainted, wrong>>
    BY <1>4, AccAges DEF Elapse
  <2>2. acc.mileage \in Nat /\ path \in Nat /\ path' \in Nat /\ wheels \in Wheel /\ wheels' \in Wheel
        /\ speed \in (-SpeedMax..SpeedMax) \X (-SpeedMax..SpeedMax) /\ wrong \in Nat
    BY <1>4, FeedbackTypeNext DEF FeedbackNext, FeedbackTypeOK, Accumulator
  <2>3. /\ wheels[1] \in Int /\ wheels[2] \in Int /\ speed[1] \in -SpeedMax..SpeedMax
        /\ speed[2] \in -SpeedMax..SpeedMax
    BY <2>2, WheelType
  <2>4. \/ wheels' = wheels /\ path' = path
        \/ /\ wheels' = <<wheels[1] + speed[1], wheels[2] + speed[2]>>
           /\ path' = path + AbsOf(Sum2(speed))
    BY <1>4 DEF Elapse, Roll
  <2>5. Slack' = Slack /\ Slack \in Nat
    BY <2>1, <2>2, Slacks
  <2>6. acc'.mileage <= path' + Slack'
    <3>1. path <= path'
      BY <2>2, <2>3, <2>4, Numbers DEF AbsOf, Sum2
    <3> QED
      BY <2>1, <2>2, <2>5, <3>1 DEF Ahead
  <2>7. ASSUME origin # Unset, acc'.last <= ReconnectGap, ~tainted
        PROVE  (\E w \in Wheel : /\ acc.prev = Pair(w) /\ Near(w)
                                 /\ acc.mileage + AbsOf(Sum2(Minus(wheels, w))) <= path + Slack)'
    <3>1. acc.last <= ReconnectGap
      BY <1>4, <2>7, AccAges, Numbers DEF AgeTo
    <3>2. PICK w \in Wheel : /\ acc.prev = Pair(w) /\ Near(w)
                             /\ acc.mileage + AbsOf(Sum2(Minus(wheels, w))) <= path + Slack
      BY <2>7, <3>1 DEF Ahead
    <3>3. w[1] \in Int /\ w[2] \in Int
      BY WheelType
    <3>4. Near(w)'
      BY <1>4, <2>7, <3>2, NearElapse
    <3>5. acc.mileage + AbsOf(Sum2(Minus(wheels', w))) <= path' + Slack
      BY <2>2, <2>3, <2>4, <2>5, <3>2, <3>3, Numbers DEF AbsOf, Sum2, Minus
    <3>6. Pair(w)' = Pair(w)
      BY <2>1 DEF Pair
    <3> QED
      BY <2>1, <2>5, <3>2, <3>4, <3>5, <3>6
  <2> QED
    BY <2>1, <2>6, <2>7 DEF Ahead
<1>5. CASE UNCHANGED <<wheels, base, odometry>>
  BY <1>5 DEF odometry, Ahead, Near, Pair, Slack
<1> QED
  BY <1>1, <1>2, <1>3, <1>4, <1>5
     DEF FeedbackNext, Command, AddReading, PowerOff, chassis, feedbackVars

\* As long as nothing has gone wrong, the readers agree on the last count, it is
\* that of the wheels, and the mileage is no less than the distance.
Behind ==
  clean /\ origin # Unset =>
    /\ odom.last = acc.prev
    /\ \E w \in Wheel : /\ acc.prev = Counted(w) /\ (acc.last <= ReconnectGap => Near(w))
                        /\ AbsOf(Sum2(Minus(w, origin))) <= acc.mileage

\* At the start nothing has been read.
LEMMA BehindInit == FeedbackInit => Behind
BY DEF FeedbackInit, Behind

\* What is known of a reading that leaves the history clean.
LEMMA CleanReading ==
  ASSUME FeedbackTypeOK, Started, ReadEncoders, clean'
  PROVE  /\ clean /\ Pair(wheels) = Counted(wheels) /\ ReadCounts(Counted(wheels), FALSE)
         /\ Counted(wheels) \in Counts \X Counts /\ wheels \in Wheel
         /\ ~Reconnected /\ odom.dt <= DeadTicks
<1>1. /\ clean /\ Pair(wheels) = Counted(wheels) /\ ReadCounts(Pair(wheels), FALSE)
      /\ ~Reconnected /\ odom.dt <= DeadTicks
  BY DEF ReadEncoders, Pair
<1>2. wheels \in Wheel /\ Pair(wheels) \in Counts \X Counts
  BY PairType DEF FeedbackTypeOK
<1> QED
  BY <1>1, <1>2

\* A clean reading adds at least what the distance grows by.
LEMMA BehindReading ==
  ASSUME FeedbackTypeOK, Started, Behind, ReadEncoders, clean'
  PROVE  Behind'
<1> DEFINE counts == Counted(wheels)
<1>1. /\ clean /\ ReadCounts(counts, FALSE) /\ counts \in Counts \X Counts /\ wheels \in Wheel
      /\ ~Reconnected /\ odom.dt <= DeadTicks
  BY CleanReading
<1>2. /\ acc'.last = 0 /\ acc'.prev = counts /\ UNCHANGED <<wheels, base>>
  BY <1>1, ReadingStep
<1>3. wheels[1] \in Int /\ wheels[2] \in Int /\ acc.mileage \in Nat /\ odom \in Pose
      /\ base \in Int
  BY <1>1, WheelType, Numbers DEF FeedbackTypeOK, Accumulator
<1>4. Counted(wheels)' = counts
  BY <1>2 DEF Counted
<1>5. Near(wheels)'
  BY <1>2, <1>3, Numbers DEF Near, AbsOf
<1>6. odom'.last = counts /\ AbsOf(Sum2(Minus(wheels, origin'))) <= acc'.mileage
  <2>1. CASE origin = Unset
    <3>1. origin' = wheels /\ odom'.last = counts /\ acc'.mileage = 0
      BY <1>1, <1>3, <2>1, OdomTimes, ReadingStep DEF ReadCounts, Started
    <3> QED
      BY <1>3, <3>1 DEF AbsOf, Sum2, Minus
  <2>2. CASE origin # Unset
    <3>1. PICK w \in Wheel : /\ acc.prev = Counted(w) /\ (acc.last <= ReconnectGap => Near(w))
                             /\ AbsOf(Sum2(Minus(w, origin))) <= acc.mileage
      BY <1>1, <2>2 DEF Behind
    <3>2. w[1] \in Int /\ w[2] \in Int /\ origin[1] \in Int /\ origin[2] \in Int
      BY <2>2, WheelType DEF FeedbackTypeOK
    <3>3. acc.last = odom.dt /\ odom.dt \in 0..DeadTicks /\ odom.last = acc.prev
      BY <1>1, <1>3, <2>2 DEF Started, Behind, Pose
    <3>4. Near(w) /\ SpeedMax * acc.last < MaxDelta /\ SpeedMax * acc.last \in Nat
      <4>1. acc.last <= ReconnectGap
        BY <3>3, FeedbackAssumption, Numbers
      <4>2. SpeedMax * acc.last <= SpeedMax * DeadTicks /\ SpeedMax * acc.last \in Nat
        BY <3>3, Numbers
      <4>3. SpeedMax * DeadTicks < MaxDelta /\ SpeedMax * DeadTicks \in Nat
        BY FeedbackAssumption, Numbers
      <4> QED
        BY <3>1, <4>1, <4>2, <4>3, Numbers
    <3>5. AbsOf(wheels[1] - w[1]) < MaxDelta /\ AbsOf(wheels[2] - w[2]) < MaxDelta
      BY <1>3, <3>2, <3>4, Numbers DEF Near, AbsOf
    <3>6. Minus(counts, acc.prev) = Minus(wheels, w)
      BY <1>3, <3>1, <3>2 DEF Minus, Counted
    <3>7. acc'.mileage = acc.mileage + AbsOf(Sum2(Minus(wheels, w)))
      BY <1>1, <2>2, <3>5, <3>6, ReadingStep DEF Plausible, Travelled, Minus
    <3>8. AbsOf(Sum2(Minus(wheels, origin))) <= acc'.mileage
      BY <1>3, <3>1, <3>2, <3>7 DEF AbsOf, Sum2, Minus
    <3>9. origin' = origin
      BY <1>1, <2>2 DEF ReadCounts
    <3>10. odom'.last = counts
      <4>1. CASE odom.dt = 0
        <5>1. SpeedMax * acc.last = 0
          BY <3>3, <4>1, Numbers
        <5>2. wheels[1] = w[1] /\ wheels[2] = w[2]
          BY <1>3, <3>2, <3>4, <5>1 DEF Near, AbsOf
        <5>3. odom' = odom
          BY <1>1, <1>3, <2>2, <4>1, OdomTimes DEF ReadCounts, Started
        <5> QED
          BY <3>1, <3>3, <5>2, <5>3 DEF Counted
      <4>2. CASE odom.dt # 0
        BY <1>1, <1>3, <2>2, <4>2, OdomTimes DEF ReadCounts, Started
      <4> QED
        BY <4>1, <4>2
    <3> QED
      BY <3>8, <3>9, <3>10
  <2> QED
    BY <2>1, <2>2
<1> HIDE DEF counts
<1>7. (\E w \in Wheel : /\ acc.prev = Counted(w) /\ (acc.last <= ReconnectGap => Near(w))
                        /\ AbsOf(Sum2(Minus(w, origin))) <= acc.mileage)'
  BY <1>1, <1>2, <1>4, <1>5, <1>6
<1> QED
  BY <1>2, <1>6, <1>7 DEF Behind

\* No step of a clean history lets the mileage fall behind the distance.
LEMMA BehindNext == FeedbackTypeOK /\ Started /\ Behind /\ [FeedbackNext]_feedbackVars => Behind'
<1> SUFFICES ASSUME FeedbackTypeOK, Started, Behind, [FeedbackNext]_feedbackVars PROVE Behind'
  OBVIOUS
<1>1. CASE ~clean'
  BY <1>1 DEF Behind
<1>2. ASSUME Elapse PROVE Behind'
  <2>1. /\ acc'.mileage = acc.mileage /\ acc'.prev = acc.prev /\ odom'.last = odom.last
        /\ UNCHANGED <<base, origin, clean>>
    BY <1>2, AccAges DEF Elapse
  <2>2. \A w \in Wheel : Counted(w)' = Counted(w)
    BY <2>1 DEF Counted
  <2>3. origin # Unset /\ acc'.last <= ReconnectGap => acc.last <= ReconnectGap
    BY <1>2, AccAges, Numbers DEF AgeTo
  <2> SUFFICES ASSUME clean, origin # Unset
               PROVE  (\E w \in Wheel : /\ acc.prev = Counted(w)
                         /\ (acc.last <= ReconnectGap => Near(w))
                         /\ AbsOf(Sum2(Minus(w, origin))) <= acc.mileage)'
    BY <2>1 DEF Behind
  <2>4. PICK w \in Wheel : /\ acc.prev = Counted(w) /\ (acc.last <= ReconnectGap => Near(w))
                           /\ AbsOf(Sum2(Minus(w, origin))) <= acc.mileage
    BY DEF Behind
  <2>5. acc'.last <= ReconnectGap => Near(w)'
    BY <1>2, <2>3, <2>4, NearElapse
  <2> QED
    BY <2>1, <2>2, <2>4, <2>5
<1>3. CASE UNCHANGED <<wheels, base, odometry>>
  BY <1>3 DEF odometry, Behind, Near, Counted
<1>4. ASSUME ReadEncoders PROVE Behind'
  BY <1>1, <1>4, BehindReading
<1>5. ASSUME Garble \/ PowerOn PROVE Behind'
  BY <1>1, <1>5 DEF Garble, PowerOn
<1> QED
  BY <1>2, <1>3, <1>4, <1>5
     DEF FeedbackNext, Command, AddReading, PowerOff, chassis, feedbackVars

\* Mileage is never more than the way travelled since it was last zero and a bound
\* for each wrong difference, and never less than the distance from there if
\* nothing has gone wrong.
THEOREM MileageHolds == FeedbackSpec => []MileageIsTravelled
<1>1. FeedbackTypeOK /\ Ahead /\ Behind => MileageIsTravelled
  <2> SUFFICES ASSUME FeedbackTypeOK, Ahead, Behind, clean, origin # Unset
               PROVE  AbsOf(Sum2(Minus(acc.prev, Counted(origin)))) <= acc.mileage
    BY DEF MileageIsTravelled, Ahead, Slack
  <2>1. PICK w \in Wheel : acc.prev = Counted(w) /\ AbsOf(Sum2(Minus(w, origin))) <= acc.mileage
    BY DEF Behind
  <2>2. /\ w[1] \in Int /\ w[2] \in Int /\ origin[1] \in Int /\ origin[2] \in Int /\ base \in Int
    BY WheelType, Numbers DEF FeedbackTypeOK
  <2>3. Sum2(Minus(acc.prev, Counted(origin))) = Sum2(Minus(w, origin))
    BY <2>1, <2>2 DEF Sum2, Minus, Counted
  <2> QED
    BY <2>1, <2>3
<1> QED
  BY FeedbackTypeInit, FeedbackTypeNext, StartedInit, StartedNext, AheadInit, AheadNext,
     BehindInit, BehindNext, <1>1, PTL DEF FeedbackSpec

-----------------------------------------------------------------------------
(* Dead reckoning *)

\* The pose begins at zero and, with the first interval behind it, its clocks agree.
Posed ==
  /\ stood = "stood" => odom.since = odom.dt
  /\ stood = "waiting" =>
       odom.along = 0 /\ odom.turn = 0 /\ (clean /\ origin # Unset => odom.last = Counted(origin))
  /\ PoseFollows

\* At the start the pose is zero.
LEMMA PosedInit == FeedbackInit => Posed
BY DEF FeedbackInit, Posed, PoseFollows

\* Over a short interval no difference falls into a dead zone.
LEMMA NoDeadZone ==
  ASSUME NEW n \in Int, NEW dt \in Nat, dt <= DeadTicks
  PROVE  DeadZone(n, dt) = n
<1>1. CASE n = 0
  BY <1>1 DEF DeadZone
<1>2. CASE n # 0
  <2>1. AbsOf(n) \in Nat /\ AbsOf(n) >= 1
    BY <1>2 DEF AbsOf
  <2>2. AbsOf(n) * DeadTicks >= DeadTicks
    BY <2>1, Numbers
  <2>3. AbsOf(n) * DeadTicks \in Nat
    BY <2>1, Numbers
  <2> QED
    BY <2>2, <2>3, Numbers DEF DeadZone
<1> QED
  BY <1>1, <1>2

\* What a difference of the counts adds to the pose: the way and the turn of the
\* wheels if the clocks agree and the interval is short, nothing if there is none.
LEMMA PoseStep ==
  ASSUME odom \in Pose, NEW counts \in Counts \X Counts, OnPulses(counts),
         odom.last # Unset, odom.dt # 0,
         \/ odom.since = odom.dt /\ odom.dt <= DeadTicks
         \/ counts = odom.last
  PROVE  LET d == Minus(counts, odom.last) IN
           /\ odom'.along = odom.along + Scale * Sum2(d)
           /\ odom'.turn = odom.turn + Scale * (d[2] - d[1])
<1> DEFINE d == Minus(counts, odom.last)
           e == <<DeadZone(d[1], odom.dt), DeadZone(d[2], odom.dt)>>
           a == (Scale * Sum2(e) * odom.since) \div odom.dt
           t == (Scale * DeadZone(e[2] - e[1], odom.dt) * odom.since) \div odom.dt
<1>1. /\ odom.last \in Counts \X Counts /\ odom.dt \in Nat \ {0} /\ odom.since \in Nat
      /\ odom.along \in Int /\ odom.turn \in Int
  BY Numbers DEF Pose, Reading
<1>2. d[1] \in Int /\ d[2] \in Int
  BY <1>1, MinusType
<1>3. odom'.along = odom.along + a /\ odom'.turn = odom.turn + t
  <2> DEFINE o == UpdateOdom(e, odom.dt)
  <2>1. odom' = [o EXCEPT !.last = counts, !.dt = 0]
    BY Zenon DEF OnPulses
  <2>2. o = [odom EXCEPT !.along = odom.along + a, !.turn = odom.turn + t, !.since = 0]
    BY DEF UpdateOdom
  <2>3. DOMAIN odom = {"last", "since", "dt", "along", "turn"}
    BY DEF Pose
  <2> HIDE DEF o, a, t
  <2> QED
    BY <2>1, <2>2, <2>3
<1>4. CASE odom.since = odom.dt /\ odom.dt <= DeadTicks
  <2>1. e = <<d[1], d[2]>> /\ DeadZone(d[2] - d[1], odom.dt) = d[2] - d[1]
    BY <1>1, <1>2, <1>4, NoDeadZone
  <2>2. Sum2(e) = Sum2(d) /\ DeadZone(e[2] - e[1], odom.dt) = d[2] - d[1] /\ Sum2(d) \in Int
    BY <1>2, <2>1 DEF Sum2
  <2>3. \A n \in Int : (Scale * n * odom.since) \div odom.dt = Scale * n
    <3> SUFFICES ASSUME NEW n \in Int
                 PROVE  (Scale * n * odom.since) \div odom.dt = Scale * n
      OBVIOUS
    <3>1. Scale * n \in Int
      BY Numbers
    <3> QED
      BY <1>1, <1>4, <3>1, Divides
  <2>4. a = Scale * Sum2(d) /\ t = Scale * (d[2] - d[1])
    BY <1>2, <2>2, <2>3
  <2> HIDE DEF d, a, t
  <2> QED
    BY <1>3, <2>4 DEF d
<1>5. CASE counts = odom.last
  <2>1. d[1] = 0 /\ d[2] = 0
    BY <1>1, <1>5, CountsAreInts DEF Minus
  <2>2. DeadZone(0, odom.dt) = 0
    BY DEF DeadZone
  <2>3. Sum2(e) = 0 /\ DeadZone(e[2] - e[1], odom.dt) = 0 /\ Sum2(d) = 0 /\ d[2] - d[1] = 0
    BY <2>1, <2>2 DEF Sum2
  <2>4. (Scale * 0 * odom.since) \div odom.dt = 0 /\ Scale * 0 = 0
    BY <1>1, Numbers
  <2>5. a = 0 /\ t = 0
    BY <2>3, <2>4
  <2> HIDE DEF d, a, t
  <2> QED
    BY <1>1, <1>3, <2>3, <2>4, <2>5 DEF d
<1> QED
  BY <1>4, <1>5

\* A clean reading moves the pose by what the wheels have moved.
LEMMA PosedReading ==
  ASSUME FeedbackTypeOK, Started, Posed, NEW counts \in Counts \X Counts, NEW g \in BOOLEAN,
         ReadCounts(counts, g),
         clean' => clean /\ counts = Counted(wheels) /\ odom.dt <= DeadTicks
  PROVE  Posed'
<1>1. odom \in Pose /\ OnPulses(counts) /\ UNCHANGED <<wheels, base>> /\ origin' # Unset
  BY ReadingStep DEF FeedbackTypeOK, ReadCounts
<1>2. odom'.dt = 0
  BY <1>1, OdomTimes
<1>3. wheels[1] \in Int /\ wheels[2] \in Int /\ base \in Int
  BY WheelType, Numbers DEF FeedbackTypeOK
<1>4. CASE origin = Unset
  <2>1. /\ stood' = "waiting" /\ origin' = wheels /\ odom'.last = counts
        /\ odom'.along = 0 /\ odom'.turn = 0
    BY <1>1, <1>4, OdomTimes DEF ReadCounts, Started
  <2>2. Counted(origin)' = <<base + wheels[1], base + wheels[2]>> /\ Counted(wheels) = Counted(origin)'
    BY <1>1, <2>1 DEF Counted
  <2>3. clean' => odom'.last = Counted(origin)'
    BY <2>1, <2>2
  <2> DEFINE c == <<base + wheels[1], base + wheels[2]>>
             d == Minus(c, c)
  <2>4. Sum2(d) = 0 /\ d[2] - d[1] = 0 /\ Scale * 0 = 0
    BY <1>3, Numbers DEF Minus, Sum2
  <2>5. PoseFollows'
    BY <2>1, <2>2, <2>3, <2>4 DEF PoseFollows
  <2> QED
    BY <2>1, <2>3, <2>5 DEF Posed
<1>5. CASE origin # Unset /\ odom.dt = 0
  <2>1. odom' = odom /\ stood' = stood /\ origin' = origin /\ odom.last # Unset
    BY <1>1, <1>5, OdomTimes DEF ReadCounts, Started
  <2> QED
    BY <1>1, <1>5, <2>1 DEF Posed, PoseFollows, Counted
<1>6. CASE origin # Unset /\ odom.dt # 0
  <2>1. /\ origin' = origin /\ odom.last # Unset /\ odom'.last = counts /\ odom'.since = 0
        /\ odom.last \in Counts \X Counts
    BY <1>1, <1>6, OdomTimes DEF ReadCounts, Started, Pose, Reading
  <2>2. stood' = IF stood # "waiting" THEN stood ELSE IF counts = odom.last THEN "stood" ELSE "moved"
    BY <1>6, <2>1 DEF ReadCounts
  <2>3. Counted(origin)' = Counted(origin)
    BY <1>1, <2>1 DEF Counted
  <2>4. ASSUME clean', stood' # "moved"
        PROVE  LET d == Minus(odom'.last, Counted(origin)) IN
                 odom'.along = Scale * Sum2(d) /\ odom'.turn = Scale * (d[2] - d[1])
    <3> DEFINE c == Minus(odom.last, Counted(origin))
               d == Minus(counts, odom.last)
               e == Minus(counts, Counted(origin))
    <3>1. odom.along = Scale * Sum2(c) /\ odom.turn = Scale * (c[2] - c[1])
      BY <2>1, <2>2, <2>4 DEF Posed, PoseFollows
    <3>2. odom'.along = odom.along + Scale * Sum2(d) /\ odom'.turn = odom.turn + Scale * (d[2] - d[1])
      <4>1. (odom.since = odom.dt /\ odom.dt <= DeadTicks) \/ counts = odom.last
        BY <2>2, <2>4 DEF Posed, FeedbackTypeOK
      <4> QED
        BY <1>1, <1>6, <2>1, <4>1, PoseStep
    <3>3. /\ counts[1] \in Int /\ counts[2] \in Int /\ odom.last[1] \in Int /\ odom.last[2] \in Int
          /\ Counted(origin)[1] \in Int /\ Counted(origin)[2] \in Int
      <4>1. origin[1] \in Int /\ origin[2] \in Int
        BY <1>6, WheelType DEF FeedbackTypeOK
      <4> QED
        BY <1>3, <2>1, <4>1, CountsAreInts DEF Counted
    <3>4. /\ Sum2(c) \in Int /\ Sum2(d) \in Int /\ Sum2(e) = Sum2(c) + Sum2(d)
          /\ c[2] - c[1] \in Int /\ d[2] - d[1] \in Int
          /\ e[2] - e[1] = (c[2] - c[1]) + (d[2] - d[1])
      BY <3>3 DEF Sum2, Minus
    <3> HIDE DEF c, d
    <3>5. \A m, n \in Int : Scale * (m + n) = Scale * m + Scale * n
      BY Numbers
    <3>6. odom'.along = Scale * Sum2(e) /\ odom'.turn = Scale * (e[2] - e[1])
      BY <3>1, <3>2, <3>4, <3>5
    <3> QED
      BY <2>1, <3>6
  <2>5. stood' # "waiting"
    BY <2>2
  <2> QED
    BY <1>2, <2>1, <2>3, <2>4, <2>5 DEF Posed, PoseFollows
<1> QED
  BY <1>4, <1>5, <1>6

\* Every step keeps the pose on the wheels.
LEMMA PosedNext == FeedbackTypeOK /\ Started /\ Posed /\ [FeedbackNext]_feedbackVars => Posed'
<1> SUFFICES ASSUME FeedbackTypeOK, Started, Posed, [FeedbackNext]_feedbackVars PROVE Posed'
  OBVIOUS
<1>1. ASSUME ReadEncoders PROVE Posed'
  <2>1. Pair(wheels) \in Counts \X Counts /\ ReadCounts(Pair(wheels), FALSE)
    BY <1>1, PairType DEF ReadEncoders, Pair, FeedbackTypeOK
  <2>2. clean' => clean /\ Pair(wheels) = Counted(wheels) /\ odom.dt <= DeadTicks
    BY <1>1 DEF ReadEncoders, Pair
  <2> QED
    BY <2>1, <2>2, PosedReading
<1>2. ASSUME Garble PROVE Posed'
  BY <1>2, GarbledType, PosedReading DEF Garble
<1>3. ASSUME PowerOn PROVE Posed'
  BY <1>3 DEF PowerOn, Posed, PoseFollows
<1>4. ASSUME Elapse PROVE Posed'
  <2>1. /\ odom'.last = odom.last /\ odom'.along = odom.along /\ odom'.turn = odom.turn
        /\ odom.since = odom.dt => odom'.since = odom'.dt
        /\ UNCHANGED <<base, origin, clean, stood>>
    BY <1>4, AccAges DEF Elapse
  <2> QED
    BY <2>1 DEF Posed, PoseFollows, Counted
<1>5. CASE UNCHANGED <<wheels, base, odometry>>
  BY <1>5 DEF odometry, Posed, PoseFollows, Counted
<1> QED
  BY <1>1, <1>2, <1>3, <1>4, <1>5
     DEF FeedbackNext, Command, AddReading, PowerOff, chassis, feedbackVars

\* Dead reckoning follows the wheels as long as messages come in time and the
\* chassis did not move in the first interval.
THEOREM PoseHolds == FeedbackSpec => []PoseFollows
<1>1. Posed => PoseFollows
  BY DEF Posed
<1> QED
  BY FeedbackTypeInit, FeedbackTypeNext, StartedInit, StartedNext, PosedInit, PosedNext, <1>1,
     PTL DEF FeedbackSpec
=============================================================================
