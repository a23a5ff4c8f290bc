------------------------------- MODULE PlcClient -------------------------------
(***************************************************************************)
(* PlcClient: one Modbus connection to the PLC shared by the HTTP threads   *)
(* and the jog deadman thread, serialised by one lock.  An operation holds  *)
(* the lock from connecting to replying; what it does on the wire is a      *)
(* script of instructions, one per request, hold or assignment, because any *)
(* request may be refused by the PLC or end in a transport exception.       *)
(*                                                                          *)
(* A word the dashboard writes is 0, or has the one bit its last writer set: *)
(* a jog, a pushbutton (of the same word, for an axis), or a start request. *)
(* The words amr_write writes may have other values, which count as 2.      *)
(***************************************************************************)
EXTENDS Integers, Sequences

CONSTANTS
  AxisWords,    \* pushbutton words of the axes, jog buttons included
  PanelWords,   \* pushbutton words of the machine and the robot arm
  AugerWord, PlanterWord,  \* AUGER_AMR_WORD and PLANTER_AMR_WORD
  MovingWord,   \* the movement state of the AMR, %MW5112
  Kinds,        \* operations clients ask for
  Refusing,     \* words whose requests the PLC may answer with an exception response
  Faults,       \* how a request may be lost: "drop" before, "late" after the PLC saw it
  JogDeadman,   \* _JOG_DEADMAN
  Cooldown,     \* _CONNECT_COOLDOWN
  OpSlack,      \* most ticks an operation holds the lock
  CheckSlack    \* most ticks between two checks of an armed jog

StartWords == {AugerWord, PlanterWord}
AmrWritable == StartWords \cup {MovingWord}
Words == AxisWords \cup PanelWords \cup AmrWritable
JogBit == 1     \* in a start word the request, in the movement state Stationary
ButtonBit == 2
Fresh == OpSlack
Bound == OpSlack + JogDeadman + CheckSlack + OpSlack + 1

ASSUME PlcAssumption ==
  /\ AxisWords \cap (PanelWords \cup AmrWritable) = {} /\ PanelWords \cap AmrWritable = {}
  /\ AugerWord # PlanterWord /\ MovingWord \notin StartWords
  /\ Refusing \subseteq Words /\ Faults \subseteq {"drop", "late"}
  /\ JogDeadman \in Nat /\ Cooldown \in Nat
  /\ OpSlack \in Nat \ {0} /\ CheckSlack \in Nat \ {0}

VARIABLES
  sock,      \* whether _client is a live connection
  retry,     \* ticks left of the cooldown after a failed connect
  jog,       \* _jog: the held word and the ticks since it was armed, or NoJog
  holder,    \* the operation that holds the lock and what is left of it
  peeked,    \* the deadman thread saw a jog and waits for the lock
  word,      \* the words of the PLC
  reply,     \* the last reply, until the clock or the next operation moves on
  busy,      \* ticks the lock has been held
  checked,   \* ticks since the deadman thread last had the lock, or saw no jog
  asked,     \* history: ticks since the last start or refresh got the lock
  unsure,    \* history: buttons whose last request failed, or all while unreachable
  dead       \* history: the socket has raised an exception since it was opened

vars == <<sock, retry, jog, holder, peeked, word, reply, busy, checked, asked,
          unsure, dead>>
clocks == <<busy, checked, asked>>

Kind == {"jogStart", "jogStop", "deadman", "press", "machine", "amrPulse", "amrSet",
         "amrMoving", "amrClear", "start", "stop", "startBoth", "stopBoth", "status", "poll", "screen"}
Op == [kind : Kind, word : Words]

\* The words an operation may be asked for: what the tables of buttons and of
\* commands allow, and the words amr_write may write.
ButtonWords == AxisWords \cup PanelWords
CommandWords == PanelWords
Targets(kind) ==
  CASE kind \in {"jogStart", "jogStop"} -> AxisWords
    [] kind = "press" -> ButtonWords
    [] kind = "machine" -> CommandWords
    [] kind \in {"amrPulse", "amrSet", "amrMoving", "amrClear"} -> AmrWritable
    [] kind \in {"start", "stop"} -> StartWords
    [] OTHER -> {AugerWord}

Deadman == [kind |-> "deadman", word |-> AugerWord]

\* One request that writes a word.  A refusal counts against the success of the
\* operation or not, and skips the given number of instructions.
Write(w, v, counts, skip) ==
  [do |-> "write", word |-> w, val |-> v, counts |-> counts, skip |-> skip]
\* One request that reads, of which the same holds.
Read(w, counts, skip) ==
  [do |-> "read", word |-> w, val |-> 0, counts |-> counts, skip |-> skip]
Other(do, w) == [do |-> do, word |-> w, val |-> 0, counts |-> FALSE, skip |-> 0]
Instruction ==
  [do : {"connect", "write", "hold", "read", "arm", "disarm", "reset"}, word : Words,
   val : 0..2, counts : BOOLEAN, skip : 0..2]

NoJog == <<>>
NoOp == <<>>
NoReply == <<>>
Armed(w) == jog # NoJog /\ jog.word = w
Lapsed == jog # NoJog /\ jog.age > JogDeadman

TypeOK ==
  /\ sock \in BOOLEAN /\ peeked \in BOOLEAN
  /\ retry \in 0..Cooldown
  /\ jog \in {NoJog} \cup [word : AxisWords, age : 0..(JogDeadman + 1)]
  /\ holder \in {NoOp} \cup [op : Op, ok : BOOLEAN, todo : Seq(Instruction)]
  /\ word \in [Words -> 0..2]
  /\ reply \in {NoReply} \cup [op : Op, success : BOOLEAN]
  /\ busy \in 0..OpSlack /\ checked \in 0..CheckSlack /\ asked \in 0..(Bound + 1)
  /\ unsure \subseteq ButtonWords /\ dead \in BOOLEAN

Init ==
  /\ sock = FALSE /\ retry = 0 /\ jog = NoJog /\ holder = NoOp /\ peeked = FALSE
  /\ word = [w \in Words |-> 0] /\ reply = NoReply
  /\ busy = 0 /\ checked = 0 /\ asked = Bound + 1 /\ unsure = {}
  /\ dead = FALSE

-----------------------------------------------------------------------------
(* What each operation does once it has the lock and a connection *)

\* jog(start | refresh): drop the bit of another axis, set the bit, arm.
JogStart(w) ==
  (IF jog # NoJog /\ jog.word # w THEN <<Write(jog.word, 0, FALSE, 0)>> ELSE <<>>)
    \o <<Write(w, JogBit, TRUE, 0), Other("arm", w)>>

\* Variant: the deadman is disarmed before the bit is dropped.
JogStopEarly(w) == <<Other("disarm", w), Write(w, 0, FALSE, 0)>>

JogStop(w) == <<Write(w, 0, FALSE, 0), Other("disarm", w)>>

\* Variant: the jog is forgotten and its bit stays.
JogDeadmanForgets == IF Lapsed THEN <<Other("disarm", jog.word)>> ELSE <<>>

\* jog_deadman, which looks at the jog again now that it has the lock.
JogDeadmanTick ==
  IF Lapsed THEN <<Write(jog.word, 0, FALSE, 0), Other("disarm", jog.word)>>
  ELSE <<>>

\* Variant: the button is not released.
PressHeld(w) == <<Write(w, ButtonBit, TRUE, 0)>>

\* _pulse and _pulse_word: the answer to the release does not count.  In the
\* word of an axis the button takes the place of a jog, which stays armed.
Press(w) ==
  <<Write(w, ButtonBit, TRUE, 2), Other("hold", w), Write(w, 0, FALSE, 0)>>

\* amr_write, amr_set_moving: set a word, or pulse it, and read it back.
AmrSet(w, v) == <<Write(w, v, TRUE, 0), Read(w, FALSE, 0)>>
\* Variant: the answer to the release does not count.
AmrPulseLoose(w) ==
  <<Write(w, 1, TRUE, 2), Other("hold", w), Write(w, 0, FALSE, 0), Read(w, FALSE, 0)>>

AmrPulse(w) ==
  <<Write(w, 1, TRUE, 2), Other("hold", w), Write(w, 0, TRUE, 0), Read(w, FALSE, 0)>>

\* control_both: the second word is written whatever became of the first.
Both(v) == <<Write(AugerWord, v, TRUE, 0), Write(PlanterWord, v, TRUE, 0)>>

\* _machine_status and its like: bits and words one by one, and one that is
\* refused is reported as FALSE or 0.
MachineStatus(w) == <<Read(w, FALSE, 0), Read(w, FALSE, 0)>>

\* get_machine_status, get_sequence_detail, get_auger_motor_status, get_banner.
Status(w) == MachineStatus(w)

\* machine_command, control_robot: the pushbuttons of the machine and the robot
\* arm read the status back, those of the axes do not.
Command(w) == Press(w) \o MachineStatus(w)

\* amr_poll, and ping: the one request decides.
Poll(w) == <<Read(w, TRUE, 0)>>

\* _read_hmi_words: a block longer than a request is read in two, and a refusal
\* of the first is one of the block.
ReadBlock(w) == <<Read(w, TRUE, 1), Read(w, TRUE, 0)>>

\* read_hmi_screen: the blocks of the screen, then its single words.  A refusal
\* leaves rows without a value, which counts here as no success.
Screen(w) == ReadBlock(w) \o <<Read(w, TRUE, 0)>>

Script(op) ==
  CASE op.kind = "jogStart"  -> JogStart(op.word)
    [] op.kind = "jogStop"   -> JogStop(op.word)
    [] op.kind = "deadman"   -> JogDeadmanTick
    [] op.kind = "press"     -> Press(op.word)
    [] op.kind = "machine"   -> Command(op.word)
    [] op.kind = "amrPulse"  -> AmrPulse(op.word)
    [] op.kind = "amrSet"    -> AmrSet(op.word, 1)
    [] op.kind = "amrMoving" -> AmrSet(op.word, 2)
    [] op.kind = "amrClear"  -> AmrSet(op.word, 0)
    [] op.kind = "start"     -> <<Write(op.word, 1, TRUE, 0)>>
    [] op.kind = "stop"      -> <<Write(op.word, 0, TRUE, 0)>>
    [] op.kind = "startBoth" -> Both(1)
    [] op.kind = "stopBoth"  -> Both(0)
    [] op.kind = "status"    -> Status(op.word)
    [] op.kind = "poll"      -> Poll(op.word)
    [] op.kind = "screen"    -> Screen(op.word)

-----------------------------------------------------------------------------
(* _op: the lock, the connection, the reply *)

Reply(op, success) == reply' = [op |-> op, success |-> success]

\* The lock is taken.  Without a connection one is attempted, unless the last
\* attempt failed too recently: then the reply is "unreachable" at once.
Acquire(op) ==
  /\ holder = NoOp
  /\ busy' = 0
  /\ asked' = IF op.kind = "jogStart" THEN 0 ELSE asked
  /\ \/ /\ ~sock /\ retry > 0
        /\ Reply(op, FALSE) /\ unsure' = ButtonWords
        /\ UNCHANGED holder
     \/ /\ sock \/ retry = 0
        /\ holder' = [op |-> op, ok |-> TRUE,
                      todo |-> IF sock THEN Script(op) ELSE <<Other("connect", op.word)>>]
        /\ reply' = NoReply /\ UNCHANGED unsure
  /\ UNCHANGED <<sock, retry, jog, word, dead>>

\* A request of a client.
Request(op) ==
  /\ op.kind \in Kinds /\ op.word \in Targets(op.kind)
  /\ Acquire(op)
  /\ UNCHANGED <<peeked, checked>>

\* The deadman thread wakes up, and looks at the jog before it takes the lock.
Peek ==
  /\ ~peeked
  /\ peeked' = (jog # NoJog)
  /\ checked' = IF jog = NoJog THEN 0 ELSE checked
  /\ UNCHANGED <<sock, retry, jog, holder, word, reply, busy, asked, unsure,
                 dead>>

DeadmanAcquire ==
  /\ peeked /\ Acquire(Deadman)
  /\ peeked' = FALSE /\ checked' = 0

Doing(do) == holder # NoOp /\ holder.todo # <<>> /\ Head(holder.todo).do = do
Now == Head(holder.todo)
Doubted == {Now.word} \cap ButtonWords

\* The script goes on after skipping n of its instructions.
GoOn(ok, n) ==
  holder' = [holder EXCEPT !.ok = ok,
                           !.todo = SubSeq(holder.todo, n + 2, Len(holder.todo))]

Connect ==
  /\ Doing("connect")
  /\ sock' = TRUE /\ retry' = 0 /\ dead' = FALSE
  /\ holder' = [holder EXCEPT !.todo = Script(holder.op)]
  /\ UNCHANGED <<jog, peeked, word, reply, clocks, unsure>>

ConnectFail ==
  /\ Doing("connect") /\ "drop" \in Faults
  /\ retry' = Cooldown
  /\ Reply(holder.op, FALSE) /\ holder' = NoOp /\ unsure' = ButtonWords
  /\ UNCHANGED <<sock, jog, peeked, word, clocks, dead>>

\* A write the PLC carries out and acknowledges.
WriteDone ==
  /\ Doing("write")
  /\ word' = [word EXCEPT ![Now.word] = Now.val] /\ unsure' = unsure \ {Now.word}
  /\ GoOn(holder.ok, 0)
  /\ UNCHANGED <<sock, retry, jog, peeked, reply, clocks, dead>>

\* A write the PLC answers with an exception response.
WriteRefused ==
  /\ Doing("write") /\ Now.word \in Refusing
  /\ GoOn(holder.ok /\ ~Now.counts, Now.skip) /\ unsure' = unsure \cup Doubted
  /\ UNCHANGED <<sock, retry, jog, peeked, word, reply, clocks, dead>>

\* A read that is answered, and the 100 ms of a pulse, change nothing.
HoldOrRead ==
  /\ Doing("hold") \/ Doing("read")
  /\ GoOn(holder.ok, 0)
  /\ UNCHANGED <<sock, retry, jog, peeked, word, reply, clocks, unsure, dead>>

\* A read the PLC answers with an exception response.
ReadRefused ==
  /\ Doing("read") /\ Now.word \in Refusing
  /\ GoOn(holder.ok /\ ~Now.counts, Now.skip)
  /\ UNCHANGED <<sock, retry, jog, peeked, word, reply, clocks, unsure, dead>>

\* A transport exception, before the PLC saw the request or after it carried it
\* out: the socket is dropped and the operation replies that it failed.
Exception ==
  /\ Doing("write") \/ (Doing("read") /\ holder.op.kind # "screen")
  /\ \/ "drop" \in Faults /\ UNCHANGED word
     \/ /\ "late" \in Faults /\ Doing("write")
        /\ word' = [word EXCEPT ![Now.word] = Now.val]
  /\ sock' = FALSE /\ retry' = 0
  /\ unsure' = IF Doing("write") THEN unsure \cup Doubted ELSE unsure
  /\ Reply(holder.op, FALSE) /\ holder' = NoOp
  /\ dead' = TRUE
  /\ UNCHANGED <<jog, peeked, clocks>>

\* Variant: the screen goes on without its values and keeps the socket.
ScreenExceptionKept ==
  /\ Doing("read") /\ holder.op.kind = "screen" /\ "drop" \in Faults
  /\ dead' = TRUE
  /\ holder' = [holder EXCEPT !.ok = FALSE, !.todo = <<>>]
  /\ UNCHANGED <<sock, retry, jog, peeked, word, reply, clocks, unsure>>

\* A screen catches the exception: the rows that are left get no value, and when
\* it has passed them all it drops the socket.
ScreenException ==
  /\ Doing("read") /\ holder.op.kind = "screen" /\ "drop" \in Faults
  /\ dead' = TRUE
  /\ holder' = [holder EXCEPT !.ok = FALSE,
                              !.todo = <<Other("reset", holder.op.word)>>]
  /\ UNCHANGED <<sock, retry, jog, peeked, word, reply, clocks, unsure>>

Reset ==
  /\ Doing("reset")
  /\ sock' = FALSE /\ retry' = 0 /\ GoOn(holder.ok, 0)
  /\ UNCHANGED <<jog, peeked, word, reply, clocks, unsure, dead>>

Arm ==
  /\ Doing("arm")
  /\ jog' = [word |-> Now.word, age |-> 0]
  /\ GoOn(holder.ok, 0)
  /\ UNCHANGED <<sock, retry, peeked, word, reply, clocks, unsure, dead>>

Disarm ==
  /\ Doing("disarm")
  /\ jog' = IF Armed(Now.word) THEN NoJog ELSE jog
  /\ GoOn(holder.ok, 0)
  /\ UNCHANGED <<sock, retry, peeked, word, reply, clocks, unsure, dead>>

Release ==
  /\ holder # NoOp /\ holder.todo = <<>>
  /\ Reply(holder.op, holder.ok) /\ holder' = NoOp
  /\ UNCHANGED <<sock, retry, jog, peeked, word, clocks, unsure, dead>>

\* The lock is held for a bounded time, and the deadman thread gets it in time.
Tick ==
  /\ holder # NoOp => busy < OpSlack
  /\ jog # NoJog => checked < CheckSlack
  /\ busy' = IF holder # NoOp THEN busy + 1 ELSE 0
  /\ checked' = IF jog # NoJog THEN checked + 1 ELSE 0
  /\ asked' = IF asked > Bound THEN asked ELSE asked + 1
  /\ retry' = IF retry > 0 THEN retry - 1 ELSE 0
  /\ jog' = IF jog = NoJog \/ Lapsed THEN jog ELSE [jog EXCEPT !.age = jog.age + 1]
  /\ reply' = NoReply
  /\ UNCHANGED <<sock, holder, peeked, word, unsure, dead>>

Step ==
  \/ Connect \/ ConnectFail \/ WriteDone \/ WriteRefused \/ HoldOrRead \/ ReadRefused
  \/ Exception \/ ScreenException \/ Reset \/ Arm \/ Disarm \/ Release

Next ==
  \/ \E op \in Op : Request(op)
  \/ Peek \/ DeadmanAcquire \/ Step \/ Tick

Spec == Init /\ [][Next]_vars

-----------------------------------------------------------------------------
(* Properties *)

\* While the lock is free every axis that is moving is the one the deadman will
\* stop, so no lost request leaves a jog nobody watches.
JogIsArmed ==
  holder = NoOp => \A w \in AxisWords : word[w] = JogBit => Armed(w)

\* A held jog clears itself if it is not refreshed.
JogBound == (\E w \in AxisWords : word[w] = JogBit) => asked <= Bound

\* A reply that claims success tells the truth about the words and the deadman,
\* except that some operations ignore the answer to the release of a button.
Effect(op) ==
  CASE op.kind = "jogStart" -> word[op.word] = JogBit /\ Armed(op.word)
    [] op.kind \in {"press", "machine", "amrPulse", "amrClear", "stop", "jogStop"} -> word[op.word] = 0
    [] op.kind \in {"start", "amrSet"} -> word[op.word] = 1
    [] op.kind = "amrMoving" -> word[op.word] = 2
    [] op.kind = "startBoth" -> word[AugerWord] = 1 /\ word[PlanterWord] = 1
    [] op.kind = "stopBoth" -> word[AugerWord] = 0 /\ word[PlanterWord] = 0
    [] OTHER -> TRUE
Loose(op) == op.kind \in {"press", "machine", "jogStop"} /\ op.word \in unsure
SuccessIsReal ==
  holder = NoOp /\ reply # NoReply /\ reply.success /\ ~Loose(reply.op)
    => Effect(reply.op)

\* A pushbutton never stays latched unless its release failed: what is set
\* between operations is a jog.
NeverLatched ==
  holder = NoOp =>
    \A w \in (AxisWords \cup PanelWords) \ unsure :
      word[w] # 0 => w \in AxisWords /\ word[w] = JogBit

\* A connection that has broken is never kept for the next operation, so every
\* operation finds a live connection or opens one.
NoDeadSocket == holder = NoOp /\ sock => ~dead

\* As far as its requests get through, a held jog is a deadman: the failure of
\* the last request to an axis, or of the connection, counts as a halt.
D == INSTANCE Deadman WITH
       moving <- \E w \in AxisWords \ unsure : word[w] = JogBit, age <- asked
ImplementsDeadman == D!Spec
=============================================================================
