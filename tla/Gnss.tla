--------------------------------- MODULE Gnss ---------------------------------
(***************************************************************************)
(* The GNSS reader, a process of its own that turns the sentences of the      *)
(* receiver into a file, and the dashboard that answers /api/gnss from that   *)
(* file.  The reader keeps its state across losses of the serial line, writes *)
(* at most as often as its throttles allow, and replaces the file by renaming *)
(* a temporary one; it may be killed at any step.  Whatever the dashboard may *)
(* say of the file is said of every state, for it may be asked at any time.   *)
(***************************************************************************)
EXTENDS Naturals

CONSTANTS
  FixEvery,   \* least ticks between two positions written
  BeatEvery,  \* least ticks between a write and a heartbeat
  FreshLimit, \* age in ticks at which the dashboard takes the file for old
  Cycle,      \* most ticks between two GGA sentences of a receiver
  MinDelay, MaxDelay, \* least and greatest pause between two attempts to connect
  MaxBack,    \* bound on how far the clock is set back, and
  Faults      \* on outages, kills, failed writes and settings of the clock, for model checking only

ASSUME GnssAssumption ==
  /\ {FixEvery, BeatEvery, Cycle, MinDelay, MaxDelay, MaxBack, Faults} \subseteq Nat
  /\ FixEvery <= BeatEvery /\ BeatEvery + Cycle <= FreshLimit /\ MinDelay <= MaxDelay
  /\ MinDelay > 0 /\ Cycle > 0 /\ FreshLimit \in Nat

Old == FreshLimit + Cycle + MaxBack + 1  \* at which ages stop being counted
Due == BeatEvery               \* at which the time since a write does

VARIABLES
  link,    \* environment: whether the receiver sends, and under the device file
           \* that the reader has resolved at its start or another one
  at,      \* where the reader is
  hasPos,  \* state["lat"] is there
  fix,     \* state["fix"], of the last GGA that had a position
  liveFix, \* state["live_fix"], of the last GGA
  written, \* ticks since last_write
  delay, wait, \* retry_delay, and what is left of the pause
  pending, \* what is being written to
  tmp,     \* the temporary file
  file,    \* COORDS_FILE: its payload and the age of its ts
  gga, pos, heard, \* history: ticks since a GGA, a GGA with a position, any sentence
  unsure,  \* history: no GGA since the receiver was last silent, or the last one
           \* had a fix but no position
  faults   \* history: number of faults

reader == <<at, hasPos, fix, liveFix, written, delay, wait, pending, tmp>>
ages == <<gga, pos, heard>>
vars == <<link, reader, file, ages, unsure, faults>>

\* A payload: a position or a heartbeat, its fix, how old position and ts are by
\* now, and by how much the clock was set back since the ts was taken from it.
NoFile == [kind |-> "none"]
Torn == [kind |-> "torn"]
Payload == [kind : {"position", "heartbeat"}, fix : 0..1, pos : 0..Old, age : 0..Old,
            back : 0..MaxBack, unsure : BOOLEAN]

TypeOK ==
  /\ at \in {"down", "probe", "read", "write", "rename", "pause"}
  /\ link \in {"gone", "there", "elsewhere"} /\ {hasPos, unsure} \subseteq BOOLEAN /\ {fix, liveFix} \subseteq 0..1
  /\ written \in 0..Due /\ delay \in MinDelay..MaxDelay /\ wait \in 0..MaxDelay
  /\ pending \in {NoFile} \cup Payload /\ tmp \in {NoFile, Torn} \cup Payload
  /\ file \in {NoFile, Torn} \cup Payload
  /\ gga \in 0..Cycle /\ {pos, heard} \subseteq 0..Old /\ faults \in 0..Faults

Init ==
  /\ link \in {"gone", "there"} /\ at = "down" /\ hasPos = FALSE /\ fix = 0 /\ liveFix = 0
  /\ written = Due /\ delay = MinDelay /\ wait = 0
  /\ pending = NoFile /\ tmp = NoFile /\ file = NoFile
  /\ gga = 0 /\ pos = Old /\ heard = Old /\ unsure = TRUE /\ faults = 0

-----------------------------------------------------------------------------
(* The reader *)

\* The launcher starts it if the device is there, and it resolves it now.
Launch ==
  /\ at = "down" /\ link # "gone" /\ at' = "probe" /\ link' = "there"
  /\ hasPos' = FALSE /\ fix' = 0 /\ liveFix' = 0 /\ delay' = MinDelay /\ wait' = 0
  /\ UNCHANGED <<written, pending, tmp, file, ages, unsure, faults>>

\* Both throttles begin anew, the state of the receiver does not.
Open ==
  /\ at = "probe" /\ link = "there" /\ at' = "read"
  /\ delay' = MinDelay /\ written' = Due /\ gga' = 0
  /\ UNCHANGED <<link, hasPos, fix, liveFix, wait, pending, tmp, file, pos, heard, unsure, faults>>

OpenFails ==
  /\ at = "probe" /\ link # "there" /\ at' = "pause"
  /\ wait' = delay /\ delay' = IF 2 * delay > MaxDelay THEN MaxDelay ELSE 2 * delay
  /\ UNCHANGED <<link, hasPos, fix, liveFix, written, pending, tmp, file, ages, unsure, faults>>

\* Variant: the greatest pause is the last.
RetryFew ==
  /\ at = "pause" /\ wait = 0 /\ delay < MaxDelay /\ at' = "probe"
  /\ UNCHANGED <<link, hasPos, fix, liveFix, written, delay, wait, pending, tmp, file, ages,
                 unsure, faults>>

Retry ==
  /\ at = "pause" /\ wait = 0 /\ at' = "probe"
  /\ UNCHANGED <<link, hasPos, fix, liveFix, written, delay, wait, pending, tmp, file, ages,
                 unsure, faults>>

\* What the receiver may say: a GGA with or without a fix and a position, and
\* any other sentence.
Sentences == [gga : {TRUE}, fix : 0..1, pos : BOOLEAN] \cup [gga : {FALSE}]

\* parse_gngga gives nothing, its fix included, if there is no position; the
\* live fix is taken all the same.
ParseGga(s) ==
  /\ liveFix' = s.fix
  /\ hasPos' = (hasPos \/ s.pos) /\ fix' = IF s.pos THEN s.fix ELSE fix
  /\ gga' = 0 /\ pos' = IF s.pos THEN 0 ELSE pos
  /\ unsure' = (s.fix = 1 /\ ~s.pos)

Parse(s) ==
  /\ heard' = 0
  /\ IF s.gga THEN ParseGga(s) ELSE UNCHANGED <<hasPos, fix, liveFix, gga, pos, unsure>>

\* Variant: the fix of the last position is looked at.
HasFixOfPosition == fix' = 1 /\ hasPos'

HasFix == liveFix' = 1 /\ hasPos'

\* What the state after this sentence is worth.
BuildPayload(hasFix) ==
  [kind |-> IF hasFix THEN "position" ELSE "heartbeat",
   fix |-> IF hasFix THEN fix' ELSE liveFix', pos |-> pos', age |-> 0, back |-> 0, unsure |-> unsure']

WriteDue(hasFix) == written >= IF hasFix THEN FixEvery ELSE BeatEvery

\* The temporary file is emptied and then written.
WriteCoords(payload) ==
  pending' = payload /\ tmp' = Torn /\ at' = "write" /\ UNCHANGED file

\* One sentence.  A failure to write is swallowed, and waits for the next turn.
Receive(s) ==
  /\ at = "read" /\ link = "there" /\ Parse(s)
  /\ \/ WriteDue(HasFix) /\ WriteCoords(BuildPayload(HasFix))
        /\ written' = 0 /\ UNCHANGED faults
     \/ /\ WriteDue(HasFix) /\ faults < Faults /\ faults' = faults + 1
        /\ written' = 0 /\ tmp' = Torn /\ UNCHANGED <<at, pending, file>>
     \/ ~WriteDue(HasFix) /\ UNCHANGED <<at, written, pending, tmp, file, faults>>
  /\ UNCHANGED <<link, delay, wait>>

\* Variant: a heartbeat is written although nothing has been heard.
IgnoreAndBeat ==
  /\ at = "read" /\ written >= BeatEvery /\ at' = "write" /\ written' = 0 /\ tmp' = Torn
  /\ pending' = [kind |-> "heartbeat", fix |-> liveFix, pos |-> pos, age |-> 0, back |-> 0,
                 unsure |-> unsure]
  /\ UNCHANGED <<link, hasPos, fix, liveFix, delay, wait, file, ages, unsure, faults>>

\* A read that times out, or a line that is no sentence or has a bad checksum.
Ignore == at = "read" /\ UNCHANGED vars

\* Variant: the file is renamed before it is closed.
RenameOpen ==
  /\ at = "write" /\ at' = "read" /\ file' = tmp /\ tmp' = NoFile /\ pending' = NoFile
  /\ UNCHANGED <<link, hasPos, fix, liveFix, written, delay, wait, ages, unsure, faults>>

CloseTmp ==
  /\ at = "write" /\ at' = "rename" /\ tmp' = pending /\ pending' = NoFile
  /\ UNCHANGED <<link, hasPos, fix, liveFix, written, delay, wait, file, ages, unsure, faults>>

Rename ==
  /\ at = "rename" /\ at' = "read" /\ file' = tmp /\ tmp' = NoFile
  /\ UNCHANGED <<link, hasPos, fix, liveFix, written, delay, wait, pending, ages, unsure,
                 faults>>

\* The line reports an error: it is closed and, after a pause, opened again.
LineFails ==
  /\ at = "read" /\ link # "there" /\ at' = "pause" /\ wait' = delay
  /\ UNCHANGED <<link, hasPos, fix, liveFix, written, delay, pending, tmp, file, ages, unsure, faults>>

-----------------------------------------------------------------------------
(* The receiver, the operator, time *)

Fault == faults < Faults /\ faults' = faults + 1

\* What a dead reader leaves of the temporary file is overwritten before it is
\* renamed, and taken for torn.
Kill ==
  /\ Fault /\ at # "down" /\ at' = "down" /\ pending' = NoFile /\ tmp' = Torn
  /\ UNCHANGED <<link, hasPos, fix, liveFix, written, delay, wait, file, ages, unsure>>

\* It is unplugged or falls silent, and comes back under the same file or another.
Unplug ==
  /\ Fault /\ link # "gone" /\ link' = "gone" /\ unsure' = TRUE
  /\ UNCHANGED <<reader, file, ages>>
Plug ==
  /\ link = "gone" /\ link' \in {"there", "elsewhere"}
  /\ UNCHANGED <<reader, file, ages, unsure, faults>>

SetBack(payload, k) ==
  IF payload \in Payload THEN [payload EXCEPT !.back = IF @ + k < MaxBack THEN @ + k ELSE MaxBack]
  ELSE payload

\* The wall clock, from which every ts comes, is set back.
ClockSetBack(k) ==
  /\ Fault /\ file' = SetBack(file, k) /\ tmp' = SetBack(tmp, k)
  /\ pending' = SetBack(pending, k)
  /\ UNCHANGED <<link, at, hasPos, fix, liveFix, written, delay, wait, ages, unsure>>

Older(n, most) == IF n < most THEN n + 1 ELSE n
Aged(payload) ==
  IF payload \in {NoFile, Torn} THEN payload
  ELSE [payload EXCEPT !.age = Older(@, Old), !.pos = Older(@, Old)]

\* A step of the reader takes no time but for its pauses, and a receiver that
\* is read sends a GGA in every cycle.
Tick ==
  /\ at \notin {"probe", "write", "rename"} /\ (at = "pause" => wait > 0)
  /\ at = "read" /\ link = "there" => gga < Cycle
  /\ wait' = IF wait > 0 THEN wait - 1 ELSE 0
  /\ written' = Older(written, Due)
  /\ gga' = Older(gga, Cycle) /\ pos' = Older(pos, Old) /\ heard' = Older(heard, Old)
  /\ file' = Aged(file)
  /\ UNCHANGED <<link, at, hasPos, fix, liveFix, delay, pending, tmp, unsure, faults>>

Read == \E s \in Sentences : Receive(s)
Next ==
  \/ Launch \/ Open \/ OpenFails \/ Retry \/ Read \/ Ignore \/ CloseTmp \/ Rename
  \/ LineFails \/ Kill \/ Unplug \/ Plug \/ Tick \/ \E k \in 1..MaxBack : ClockSetBack(k)

Spec == Init /\ [][Next]_vars

\* The reader runs, time passes; nobody must launch it or plug the receiver in.
Fairness ==
  /\ WF_vars(Open \/ OpenFails \/ Retry \/ Read \/ CloseTmp \/ Rename \/ LineFails)
  /\ WF_vars(Tick)
FairSpec == Spec /\ Fairness

-----------------------------------------------------------------------------
(* What /api/gnss answers, and properties *)

ServeGnss ==
  CASE file = NoFile -> [code |-> 404]
    [] file = Torn -> [code |-> 503]
    [] OTHER ->
         [code |-> 200,
          state |-> IF file.age - file.back >= FreshLimit THEN "disconnected"
                    ELSE IF file.kind = "position" /\ file.fix = 1 THEN "fixed"
                    ELSE "no_signal"]

\* The dashboard never reads half a payload, wherever the reader is killed.
NeverCorrupted == ServeGnss.code # 503

\* A receiver that has fallen silent is not shown as connected for longer than
\* the limit, and as much as the clock was set back since, however often it is
\* unplugged and the reader started again.
ConnectedIsHeard ==
  ServeGnss.code = 200 /\ ServeGnss.state # "disconnected"
    => heard < FreshLimit + file.back

\* A position shown as fixed is no older than the limit, one cycle, and as much
\* as the clock was set back since.  The two
\* exceptions are those of the code: state that outlives a silence is written,
\* with a new ts, at the first sentence after it, and a GGA that has a fix but no
\* position renews the position before it.
FixedIsRecent ==
  ServeGnss.code = 200 /\ ServeGnss.state = "fixed" /\ ~file.unsure
    => file.pos < FreshLimit + Cycle + file.back

\* The dashboard finds a receiver that stays plugged in, under the device file
\* that the reader knows, after any losses of the line and failed writes, unless
\* the reader has been killed.
ComesBack ==
  <>[](link = "there" /\ at # "down") => <>[](ServeGnss.code = 200 /\ ServeGnss.state # "disconnected")
=============================================================================
