--------------------------- MODULE PlcClientProofs ---------------------------
(***************************************************************************)
(* Theorems about PlcClient for any words, limits and slacks.  They rest on  *)
(* what can be left of a script: only a jog writes the jog bit, and it arms   *)
(* the deadman next; only a stop and the deadman disarm, and write 0 before;  *)
(* a button is released two requests after it is set; and the last write of   *)
(* an operation is skipped only if the operation fails.  That a held jog is a *)
(* deadman adds ages: of the operator's word, of the jog, of the lock.        *)
(***************************************************************************)
EXTENDS PlcClient, SequenceTheorems, TLAPS

Operation == [op : Op, ok : BOOLEAN, todo : Seq(Instruction)]

\* An instruction that moves no axis and does not touch the deadman.
Harmless(i) ==
  /\ i.do \in {"connect", "write", "hold", "read", "reset"}
  /\ i.do = "write" => i.word \notin AxisWords \/ i.val # JogBit
Plain(t) == \A k \in 1..Len(t) : Harmless(t[k])

\* The other scripts, and what is left of them: a jog that takes the place of
\* another, a jog, and the end of one.
Switching(t, v, w) ==
  /\ Len(t) = 3 /\ t[1] = Write(v, 0, FALSE, 0)
  /\ t[2] = Write(w, JogBit, TRUE, 0) /\ t[3] = Other("arm", w)
Setting(t, w) == Len(t) = 2 /\ t[1] = Write(w, JogBit, TRUE, 0) /\ t[2] = Other("arm", w)
Arming(t, w) == Len(t) = 1 /\ t[1] = Other("arm", w)
Clearing(t, w) == Len(t) = 2 /\ t[1] = Write(w, 0, FALSE, 0) /\ t[2] = Other("disarm", w)
Disarming(t, w) == Len(t) = 1 /\ t[1] = Other("disarm", w)

Shaped(t) ==
  \/ Plain(t)
  \/ \E w \in AxisWords :
       \/ \E v \in AxisWords : Switching(t, v, w)
       \/ Setting(t, w) \/ Arming(t, w) \/ Clearing(t, w) \/ Disarming(t, w)

\* No jog is started.
Calm(t) == Plain(t) \/ \E w \in AxisWords : Clearing(t, w) \/ Disarming(t, w)

\* Held(j, w): the deadman j watches w.  Begins(t, j): a whole script.
Held(j, w) == j # NoJog /\ j.word = w
Begins(t, j) ==
  \/ Plain(t)
  \/ \E w \in AxisWords :
       \/ \E v \in AxisWords : Held(j, v) /\ Switching(t, v, w)
       \/ (j = NoJog \/ Held(j, w)) /\ Setting(t, w)
       \/ Clearing(t, w)

Scripted ==
  holder # NoOp =>
    /\ holder.op.word \in Targets(holder.op.kind)
    /\ Shaped(holder.todo)

LEMMA Limits ==
  /\ JogDeadman \in Nat /\ Cooldown \in Nat /\ OpSlack \in Nat \ {0}
  /\ CheckSlack \in Nat \ {0} /\ Bound \in Nat
BY PlcAssumption DEF Bound

LEMMA Apart ==
  /\ AxisWords \subseteq Words /\ PanelWords \subseteq Words /\ AmrWritable \subseteq Words
  /\ AxisWords \cap PanelWords = {} /\ AxisWords \cap AmrWritable = {} /\ StartWords \subseteq AmrWritable
  /\ AugerWord \in StartWords /\ PlanterWord \in StartWords
  /\ AugerWord \in AmrWritable /\ PlanterWord \in AmrWritable
  /\ \A k \in Kind : Targets(k) \subseteq Words
BY PlcAssumption DEF Words, StartWords, Targets, ButtonWords, CommandWords, AmrWritable, Kind

LEMMA Busy ==
  ASSUME NEW h \in Operation
  PROVE  h # NoOp
<1>1. DOMAIN h = {"op", "ok", "todo"}
  BY DEF Operation
<1>2. DOMAIN NoOp = 1..0
  BY DEF NoOp
<1>3. 1..0 = {}
  OBVIOUS
<1> QED
  BY <1>1, <1>2, <1>3

LEMMA One ==
  ASSUME NEW a \in Instruction
  PROVE  <<a>> \in Seq(Instruction) /\ (Harmless(a) => Plain(<<a>>))
BY DEF Plain
LEMMA Two ==
  ASSUME NEW a \in Instruction, NEW b \in Instruction
  PROVE  <<a, b>> \in Seq(Instruction) /\ (Harmless(a) /\ Harmless(b) => Plain(<<a, b>>))
BY DEF Plain
LEMMA Three ==
  ASSUME NEW a \in Instruction, NEW b \in Instruction, NEW c \in Instruction
  PROVE  /\ <<a, b, c>> \in Seq(Instruction)
         /\ Harmless(a) /\ Harmless(b) /\ Harmless(c) => Plain(<<a, b, c>>)
BY DEF Plain
LEMMA Four ==
  ASSUME NEW a \in Instruction, NEW b \in Instruction, NEW c \in Instruction,
         NEW d \in Instruction
  PROVE  /\ <<a, b, c, d>> \in Seq(Instruction)
         /\ Harmless(a) /\ Harmless(b) /\ Harmless(c) /\ Harmless(d)
              => Plain(<<a, b, c, d>>)
BY DEF Plain
LEMMA Joined ==
  ASSUME NEW s \in Seq(Instruction), NEW t \in Seq(Instruction), Plain(s), Plain(t)
  PROVE  s \o t \in Seq(Instruction) /\ Plain(s \o t)
<1>1. \A k \in 1..Len(s) + Len(t) : Harmless((s \o t)[k])
  <2> TAKE k \in 1..Len(s) + Len(t)
  <2>1. CASE k <= Len(s)
    BY <2>1, ConcatProperties DEF Plain
  <2>2. CASE k > Len(s)
    <3>1. k - Len(s) \in 1..Len(t)
      BY <2>2
    <3> QED
      BY <2>2, <3>1, ConcatProperties DEF Plain
  <2> QED
    BY <2>1, <2>2
<1> QED
  BY <1>1, ConcatProperties DEF Plain

-----------------------------------------------------------------------------
(* Scripts *)

LEMMA PulseType ==
  ASSUME NEW w \in Words
  PROVE  Press(w) \in Seq(Instruction) /\ Plain(Press(w))
<1> DEFINE a == Write(w, ButtonBit, TRUE, 2)
           b == Other("hold", w)
           c == Write(w, 0, FALSE, 0)
<1>1. a \in Instruction /\ b \in Instruction /\ c \in Instruction
  BY DEF Write, Other, Instruction, ButtonBit
<1>2. Harmless(a) /\ Harmless(b) /\ Harmless(c)
  BY DEF Write, Other, Harmless, ButtonBit, JogBit
<1> QED
  BY <1>1, <1>2, Three DEF Press

LEMMA StatusType ==
  ASSUME NEW w \in Words
  PROVE  MachineStatus(w) \in Seq(Instruction) /\ Plain(MachineStatus(w))
<1>1. Read(w, FALSE, 0) \in Instruction /\ Harmless(Read(w, FALSE, 0))
  BY DEF Read, Instruction, Harmless
<1> QED
  BY <1>1, Two DEF MachineStatus

\* A word that is not that of an axis may be written any value.
LEMMA StartType ==
  ASSUME NEW w \in AmrWritable, NEW v \in 0..2
  PROVE  /\ <<Write(w, v, TRUE, 0)>> \in Seq(Instruction) /\ Plain(<<Write(w, v, TRUE, 0)>>)
         /\ AmrSet(w, v) \in Seq(Instruction) /\ Plain(AmrSet(w, v))
         /\ AmrPulse(w) \in Seq(Instruction) /\ Plain(AmrPulse(w))
         /\ Both(v) \in Seq(Instruction) /\ Plain(Both(v))
<1> DEFINE a(x, y, n) == Write(x, y, TRUE, n)
           b == Read(w, FALSE, 0)
           c == Other("hold", w)
<1>1. /\ \A x \in AmrWritable, y \in 0..2, n \in 0..2 : a(x, y, n) \in Instruction
      /\ b \in Instruction /\ c \in Instruction
  BY Apart DEF Write, Read, Other, Instruction
<1>2. /\ \A x \in AmrWritable, y \in 0..2, n \in 0..2 : Harmless(a(x, y, n))
      /\ Harmless(b) /\ Harmless(c)
  BY Apart DEF Write, Read, Other, Harmless
<1> HIDE DEF a, b, c
<1>3. <<a(w, v, 0)>> \in Seq(Instruction) /\ Plain(<<a(w, v, 0)>>)
  BY <1>1, <1>2, One
<1>4. <<a(w, v, 0), b>> \in Seq(Instruction) /\ Plain(<<a(w, v, 0), b>>)
  BY <1>1, <1>2, Two
<1>5. /\ <<a(w, 1, 2), c, a(w, 0, 0), b>> \in Seq(Instruction)
      /\ Plain(<<a(w, 1, 2), c, a(w, 0, 0), b>>)
  BY <1>1, <1>2, Four
<1>6. /\ <<a(AugerWord, v, 0), a(PlanterWord, v, 0)>> \in Seq(Instruction)
      /\ Plain(<<a(AugerWord, v, 0), a(PlanterWord, v, 0)>>)
  BY <1>1, <1>2, Two, Apart
<1> QED
  BY <1>3, <1>4, <1>5, <1>6 DEF AmrSet, AmrPulse, Both, a, b, c

LEMMA ReadType ==
  ASSUME NEW w \in Words
  PROVE  /\ Poll(w) \in Seq(Instruction) /\ Plain(Poll(w))
         /\ Screen(w) \in Seq(Instruction) /\ Plain(Screen(w))
<1> DEFINE a == Read(w, TRUE, 0)
           b == Read(w, TRUE, 1)
<1>1. a \in Instruction /\ b \in Instruction /\ Harmless(a) /\ Harmless(b)
  BY DEF Read, Instruction, Harmless
<1>2. <<a>> \in Seq(Instruction) /\ Plain(<<a>>)
  BY <1>1, One
<1>3. <<b, a>> \in Seq(Instruction) /\ Plain(<<b, a>>)
  BY <1>1, Two
<1> QED
  BY <1>2, <1>3, Joined DEF Poll, Screen, ReadBlock

LEMMA StopType ==
  ASSUME NEW w \in AxisWords
  PROVE  JogStop(w) \in Seq(Instruction) /\ Clearing(JogStop(w), w)
<1>1. Write(w, 0, FALSE, 0) \in Instruction /\ Other("disarm", w) \in Instruction
  BY Apart DEF Write, Other, Instruction
<1> QED
  BY <1>1, Two DEF JogStop, Clearing

\* A jog drops the jog that is held, if it is of another axis.
LEMMA JogType ==
  ASSUME NEW w \in AxisWords, jog # NoJog => jog.word \in AxisWords
  PROVE  /\ JogStart(w) \in Seq(Instruction)
         /\ \/ jog # NoJog /\ jog.word # w /\ Switching(JogStart(w), jog.word, w)
            \/ (jog = NoJog \/ jog.word = w) /\ Setting(JogStart(w), w)
<1> DEFINE b == Write(w, JogBit, TRUE, 0)
           c == Other("arm", w)
<1>1. b \in Instruction /\ c \in Instruction
  BY Apart DEF Write, Other, Instruction, JogBit
<1>2. CASE jog # NoJog /\ jog.word # w
  <2> DEFINE a == Write(jog.word, 0, FALSE, 0)
  <2>1. a \in Instruction
    BY <1>2, Apart DEF Write, Instruction
  <2>2. JogStart(w) = <<a>> \o <<b, c>>
    BY <1>2 DEF JogStart
  <2> HIDE DEF a, b, c
  <2>3. <<a>> \in Seq(Instruction) /\ <<b, c>> \in Seq(Instruction)
    BY <1>1, <2>1, One, Two
  <2>4. /\ JogStart(w) \in Seq(Instruction) /\ Len(JogStart(w)) = 3
        /\ JogStart(w)[1] = a /\ JogStart(w)[2] = b /\ JogStart(w)[3] = c
    BY <2>2, <2>3, ConcatProperties
  <2>5. Switching(JogStart(w), jog.word, w)
    BY <2>4 DEF Switching, a, b, c
  <2> QED
    BY <1>2, <2>4, <2>5
<1>3. CASE jog = NoJog \/ jog.word = w
  <2>1. JogStart(w) = <<>> \o <<b, c>>
    BY <1>3 DEF JogStart
  <2> HIDE DEF b, c
  <2>2. <<b, c>> \in Seq(Instruction)
    BY <1>1, Two
  <2>3. JogStart(w) = <<b, c>>
    BY <2>1, <2>2, ConcatEmptySeq
  <2>4. /\ JogStart(w) \in Seq(Instruction) /\ Len(JogStart(w)) = 2
        /\ JogStart(w)[1] = b /\ JogStart(w)[2] = c
    BY <2>2, <2>3
  <2>5. Setting(JogStart(w), w)
    BY <2>4 DEF Setting, b, c
  <2> QED
    BY <1>3, <2>4, <2>5
<1> QED
  BY <1>2, <1>3

\* What an operation does once it is connected.
LEMMA ScriptType ==
  ASSUME NEW op \in Op, op.word \in Targets(op.kind), jog # NoJog => jog.word \in AxisWords
  PROVE  /\ Script(op) \in Seq(Instruction) /\ Begins(Script(op), jog)
         /\ op.kind # "jogStart" => Calm(Script(op))
<1>0. op.word \in Words
  BY Apart DEF Op
<1>1. CASE op.kind = "jogStart"
  <2>1. Script(op) = JogStart(op.word) /\ op.word \in AxisWords
    BY <1>1 DEF Script, Targets
  <2> QED
    BY <1>1, <2>1, JogType DEF Begins, Held
<1>2. CASE op.kind = "jogStop"
  <2>1. Script(op) = JogStop(op.word) /\ op.word \in AxisWords
    BY <1>2 DEF Script, Targets
  <2> QED
    BY <2>1, StopType DEF Begins, Calm, Held
<1>3. CASE op.kind = "deadman"
  <2>1. Script(op) = JogDeadmanTick
    BY <1>3 DEF Script
  <2>2. CASE Lapsed
    BY <2>1, <2>2, StopType DEF JogDeadmanTick, Lapsed, JogStop, Begins, Calm
  <2>3. CASE ~Lapsed
    BY <2>1, <2>3 DEF JogDeadmanTick, Begins, Calm, Plain
  <2> QED
    BY <2>2, <2>3
<1>4. CASE op.kind \in {"press", "machine"}
  <2>1. Script(op) = Press(op.word) \/ Script(op) = Press(op.word) \o MachineStatus(op.word)
    BY <1>4 DEF Script, Command
  <2> QED
    BY <1>0, <2>1, PulseType, StatusType, Joined DEF Begins, Calm, Held
<1>5. CASE op.kind \in {"amrPulse", "amrSet", "amrMoving", "amrClear", "start", "stop"}
  <2>1. op.word \in AmrWritable
    BY <1>5 DEF Targets, AmrWritable
  <2>2. \/ Script(op) = AmrPulse(op.word) \/ Script(op) = AmrSet(op.word, 1)
        \/ Script(op) = AmrSet(op.word, 2) \/ Script(op) = AmrSet(op.word, 0)
        \/ Script(op) = <<Write(op.word, 1, TRUE, 0)>>
        \/ Script(op) = <<Write(op.word, 0, TRUE, 0)>>
    BY <1>5 DEF Script
  <2>3. Script(op) \in Seq(Instruction) /\ Plain(Script(op))
    <3>1. 0 \in 0..2 /\ 1 \in 0..2 /\ 2 \in 0..2
      OBVIOUS
    <3> QED
      BY <2>1, <2>2, <3>1, StartType
  <2> QED
    BY <2>3, <1>5 DEF Begins, Calm
<1>6. CASE op.kind \in {"startBoth", "stopBoth"}
  <2>1. Script(op) = Both(1) \/ Script(op) = Both(0)
    BY <1>6 DEF Script
  <2>2. 0 \in 0..2 /\ 1 \in 0..2
    OBVIOUS
  <2>3. Script(op) \in Seq(Instruction) /\ Plain(Script(op))
    BY <2>1, <2>2, StartType, Apart
  <2> QED
    BY <2>3 DEF Begins, Calm
<1>7. CASE op.kind \in {"status", "poll", "screen"}
  <2>1. Script(op) \in {MachineStatus(op.word), Poll(op.word), Screen(op.word)}
    BY <1>7 DEF Script, Status
  <2> QED
    BY <1>0, <2>1, StatusType, ReadType DEF Begins, Calm, Held
<1> QED
  BY <1>1, <1>2, <1>3, <1>4, <1>5, <1>6, <1>7 DEF Op, Kind

-----------------------------------------------------------------------------
(* Going on *)

\* The rest of a script is what is left after one instruction and those skipped.
LEMMA Rest ==
  ASSUME holder \in Operation, NEW ok \in BOOLEAN, NEW n \in Nat,
         holder.todo # <<>>, GoOn(ok, n)
  PROVE  /\ holder' \in Operation /\ holder'.op = holder.op /\ holder'.ok = ok
         /\ Len(holder'.todo) = IF n + 2 <= Len(holder.todo)
                                THEN Len(holder.todo) - n - 1 ELSE 0
         /\ \A k \in 1..Len(holder'.todo) : holder'.todo[k] = holder.todo[k + n + 1]
<1> DEFINE t == holder.todo
           r == SubSeq(t, n + 2, Len(t))
<1>1. t \in Seq(Instruction) /\ Len(t) \in Nat
  BY DEF Operation
<1>2. \A i \in (n + 2)..Len(t) : t[i] \in Instruction
  BY <1>1, ElementOfSeq
<1>3. /\ r \in Seq(Instruction)
      /\ Len(r) = IF n + 2 <= Len(t) THEN Len(t) - (n + 2) + 1 ELSE 0
      /\ \A i \in 1..(Len(t) - (n + 2) + 1) : r[i] = t[(n + 2) + i - 1]
  BY <1>1, <1>2, SubSeqProperties
<1>4. holder' = [holder EXCEPT !.ok = ok, !.todo = r]
  BY DEF GoOn
<1> HIDE DEF r
<1>5. holder' \in Operation /\ holder'.op = holder.op /\ holder'.ok = ok /\ holder'.todo = r
  BY <1>3, <1>4 DEF Operation
<1> QED
  BY <1>1, <1>3, <1>5

LEMMA HeadIsFirst ==
  ASSUME holder \in Operation, holder.todo # <<>>
  PROVE  /\ Now = holder.todo[1] /\ Now \in Instruction
         /\ Len(holder.todo) \in Nat /\ Len(holder.todo) >= 1
<1>1. holder.todo \in Seq(Instruction)
  BY DEF Operation
<1> QED
  BY <1>1, HeadTailProperties, EmptySeq DEF Now

\* What is left of each shape.
LEMMA NextShape ==
  ASSUME holder \in Operation, NEW ok \in BOOLEAN, holder.todo # <<>>, GoOn(ok, 0),
         NEW v \in AxisWords, NEW w \in AxisWords
  PROVE  /\ Switching(holder.todo, v, w) => Setting(holder'.todo, w)
         /\ Setting(holder.todo, w) => Arming(holder'.todo, w)
         /\ Clearing(holder.todo, w) => Disarming(holder'.todo, w)
         /\ Arming(holder.todo, w) \/ Disarming(holder.todo, w) => Plain(holder'.todo)
<1> DEFINE t == holder.todo
           r == holder'.todo
<1>1. Len(r) = Len(t) - 1 /\ \A k \in 1..(Len(t) - 1) : r[k] = t[k + 1]
  BY Rest, HeadIsFirst
<1> HIDE DEF t, r
<1>2. ASSUME Switching(t, v, w)
      PROVE  Setting(r, w)
  <2>1. Len(t) = 3
    BY <1>2 DEF Switching
  <2>2. 1 \in 1..(Len(t) - 1) /\ 2 \in 1..(Len(t) - 1)
    BY <2>1
  <2>3. Len(r) = 2 /\ r[1] = t[2] /\ r[2] = t[3]
    BY <1>1, <2>1, <2>2
  <2> QED
    BY <1>2, <2>3 DEF Switching, Setting
<1>3. ASSUME Setting(t, w)
      PROVE  Arming(r, w)
  <2>1. Len(r) = 1 /\ r[1] = t[2]
    BY <1>1, <1>3 DEF Setting
  <2> QED
    BY <1>3, <2>1 DEF Arming, Setting
<1>4. ASSUME Clearing(t, w)
      PROVE  Disarming(r, w)
  <2>1. Len(r) = 1 /\ r[1] = t[2]
    BY <1>1, <1>4 DEF Clearing
  <2> QED
    BY <1>4, <2>1 DEF Clearing, Disarming
<1>5. ASSUME Arming(t, w) \/ Disarming(t, w)
      PROVE  Plain(r)
  <2>1. Len(r) = 0
    BY <1>1, <1>5 DEF Arming, Disarming
  <2> QED
    BY <2>1 DEF Plain
<1> QED
  BY <1>2, <1>3, <1>4, <1>5 DEF t, r

LEMMA PlainGoes ==
  ASSUME holder \in Operation, NEW ok \in BOOLEAN, NEW n \in Nat, holder.todo # <<>>,
         GoOn(ok, n), Plain(holder.todo)
  PROVE  Plain(holder'.todo)
<1>1. \A k \in 1..Len(holder'.todo) : k + n + 1 \in 1..Len(holder.todo)
  BY Rest, HeadIsFirst
<1> QED
  BY <1>1, Rest DEF Plain

\* What is left of a script has one of the shapes again.
LEMMA ShapedGoes ==
  ASSUME holder \in Operation, NEW ok \in BOOLEAN, NEW n \in Nat, holder.todo # <<>>,
         GoOn(ok, n), Shaped(holder.todo), n = 0 \/ Plain(holder.todo)
  PROVE  Shaped(holder'.todo)
<1>1. CASE Plain(holder.todo)
  BY <1>1, PlainGoes DEF Shaped
<1>2. CASE n = 0
  BY <1>1, <1>2, NextShape DEF Shaped
<1> QED
  BY <1>1, <1>2

\* Only plain scripts skip, and only the others touch the deadman, of an axis.
LEMMA FirstOfShape ==
  ASSUME holder \in Operation, holder.todo # <<>>, Shaped(holder.todo)
  PROVE  /\ Now.do \in {"arm", "disarm"} => Now.word \in AxisWords /\ ~Plain(holder.todo)
         /\ Now.skip = 0 \/ Plain(holder.todo)
<1>1. 1 \in 1..Len(holder.todo) /\ Now = holder.todo[1]
  BY HeadIsFirst
<1>2. CASE Plain(holder.todo)
  BY <1>1, <1>2 DEF Plain, Harmless
<1>3. ASSUME NEW w \in AxisWords, NEW v \in AxisWords,
             \/ Switching(holder.todo, v, w) \/ Setting(holder.todo, w)
             \/ Clearing(holder.todo, w)
      PROVE  Now.do = "write" /\ Now.skip = 0
  BY <1>1, <1>3 DEF Switching, Setting, Clearing, Write
<1>4. ASSUME NEW w \in AxisWords, Arming(holder.todo, w) \/ Disarming(holder.todo, w)
      PROVE  Now.do \in {"arm", "disarm"} /\ Now.skip = 0 /\ Now.word = w
  BY <1>1, <1>4 DEF Arming, Disarming, Other
<1>5. Plain(holder.todo) => Now.do \notin {"arm", "disarm"}
  BY <1>1 DEF Plain, Harmless
<1> QED
  BY <1>2, <1>3, <1>4, <1>5 DEF Shaped

-----------------------------------------------------------------------------
(* The types of the state, and the shapes of what is left of a script *)

Typed == TypeOK /\ Scripted

LEMMA Acquired ==
  ASSUME Typed, NEW op \in Op, op.word \in Targets(op.kind), Acquire(op)
  PROVE  /\ holder' \in {NoOp} \cup Operation /\ Scripted'
         /\ reply' \in {NoReply} \cup [op : Op, success : BOOLEAN]
         /\ unsure' \subseteq ButtonWords
         /\ busy' \in 0..OpSlack /\ asked' \in 0..(Bound + 1)
<1>1. busy' \in 0..OpSlack
  BY Limits DEF Acquire
<1>5. asked' \in 0..(Bound + 1)
  BY Limits DEF Acquire, Typed, TypeOK
<1>6. unsure' \subseteq ButtonWords
  BY DEF Acquire, Typed, TypeOK
<1>3. reply' \in {NoReply} \cup [op : Op, success : BOOLEAN]
  <2>1. reply' = NoReply \/ reply' = [op |-> op, success |-> FALSE]
    BY DEF Acquire, Reply
  <2>2. [op |-> op, success |-> FALSE] \in [op : Op, success : BOOLEAN]
    OBVIOUS
  <2> QED
    BY <2>1, <2>2
<1>2. ASSUME holder' # NoOp
      PROVE  holder' \in Operation /\ holder'.op = op /\ Shaped(holder'.todo)
  <2>1. jog # NoJog => jog.word \in AxisWords
    BY DEF Typed, TypeOK
  <2>2. Other("connect", op.word) \in Instruction /\ Harmless(Other("connect", op.word))
    BY Apart DEF Op, Other, Instruction, Harmless
  <2> DEFINE todo == IF sock THEN Script(op) ELSE <<Other("connect", op.word)>>
  <2>3. todo \in Seq(Instruction) /\ Shaped(todo)
    BY <2>1, <2>2, One, ScriptType DEF Shaped, Begins
  <2>4. holder' = [op |-> op, ok |-> TRUE, todo |-> todo]
    BY <1>2 DEF Acquire
  <2> HIDE DEF todo
  <2> QED
    BY <2>3, <2>4 DEF Operation
<1>4. holder' = NoOp \/ holder' # NoOp
  OBVIOUS
<1> QED
  BY <1>1, <1>2, <1>3, <1>4, <1>5, <1>6 DEF Scripted

LEMMA Gone ==
  ASSUME Typed, NEW ok \in BOOLEAN, NEW n \in 0..2, holder # NoOp, holder.todo # <<>>,
         GoOn(ok, n), n = 0 \/ Plain(holder.todo)
  PROVE  holder' \in Operation /\ Scripted'
<1>1. holder \in Operation /\ Shaped(holder.todo) /\ holder.op.word \in Targets(holder.op.kind)
  BY DEF Typed, TypeOK, Operation, Scripted
<1>2. holder' \in Operation /\ holder'.op = holder.op
  BY <1>1, Rest
<1>3. Shaped(holder'.todo)
  BY <1>1, ShapedGoes
<1> QED
  BY <1>1, <1>2, <1>3 DEF Scripted

LEMMA Started ==
  ASSUME Init
  PROVE  Typed
<1>1. word \in [Words -> 0..2]
  BY DEF Init
<1>2. /\ retry \in 0..Cooldown /\ busy \in 0..OpSlack /\ checked \in 0..CheckSlack
      /\ asked \in 0..(Bound + 1)
  BY Limits DEF Init
<1>3. Scripted
  BY DEF Init, Scripted
<1> QED
  BY <1>1, <1>2, <1>3 DEF Init, Typed, TypeOK

\* An operation goes on with an instruction of the model, of one of the shapes.
LEMMA First ==
  ASSUME Typed, NEW do, Doing(do)
  PROVE  /\ holder # NoOp /\ holder.todo # <<>> /\ Now \in Instruction /\ Now.do = do
         /\ holder.op \in Op /\ holder.ok \in BOOLEAN
         /\ do \in {"arm", "disarm"} => Now.word \in AxisWords /\ ~Plain(holder.todo)
         /\ Now.skip = 0 \/ Plain(holder.todo)
<1>1. holder \in Operation /\ Shaped(holder.todo) /\ holder.todo # <<>> /\ holder # NoOp
  BY DEF Typed, TypeOK, Operation, Scripted, Doing
<1>2. Now.do = do
  BY DEF Doing, Now
<1> QED
  BY <1>1, <1>2, HeadIsFirst, FirstOfShape DEF Operation

\* A screen whose read raised an exception has only the socket left to drop.
LEMMA ScreenGone ==
  ASSUME Typed, ScreenException
  PROVE  /\ holder' \in Operation /\ holder'.op = holder.op
         /\ holder'.todo = <<Other("reset", holder.op.word)>>
         /\ Plain(<<Other("reset", holder.op.word)>>)
<1> DEFINE todo == <<Other("reset", holder.op.word)>>
<1>1. holder \in Operation /\ holder.op \in Op
  BY DEF ScreenException, Doing, Typed, TypeOK, Operation
<1>2. Other("reset", holder.op.word) \in Instruction
  BY <1>1 DEF Op, Other, Instruction
<1>3. Harmless(Other("reset", holder.op.word))
  BY DEF Other, Harmless
<1>4. todo \in Seq(Instruction) /\ Plain(todo)
  BY <1>2, <1>3, One
<1> HIDE DEF todo
<1>5. holder' \in Operation /\ holder'.op = holder.op /\ holder'.todo = todo
  BY <1>1, <1>4 DEF ScreenException, Operation, todo
<1> QED
  BY <1>4, <1>5 DEF todo

LEMMA TypedStep ==
  ASSUME Typed, Step
  PROVE  Typed'
<1> USE DEF Typed
<1>w. ASSUME Doing("write") \/ Doing("read") \/ Doing("hold")
      PROVE  /\ holder # NoOp /\ holder.todo # <<>> /\ Now \in Instruction
             /\ holder.op \in Op /\ holder.ok \in BOOLEAN
             /\ Now.word \in Words /\ Now.val \in 0..2 /\ Now.counts \in BOOLEAN
             /\ Now.skip \in 0..2 /\ (Now.skip = 0 \/ Plain(holder.todo))
  <2>1. /\ holder # NoOp /\ holder.todo # <<>> /\ Now \in Instruction
        /\ holder.op \in Op /\ holder.ok \in BOOLEAN
        /\ Now.skip = 0 \/ Plain(holder.todo)
    BY <1>w, First
  <2> QED
    BY <2>1 DEF Instruction
<1>1. CASE Connect
  <2>1. jog # NoJog => jog.word \in AxisWords
    BY DEF TypeOK
  <2>2. holder.op \in Op /\ holder \in Operation /\ holder.op.word \in Targets(holder.op.kind)
    BY <1>1 DEF Connect, Doing, TypeOK, Operation, Scripted
  <2>3. Script(holder.op) \in Seq(Instruction) /\ Shaped(Script(holder.op))
    BY <2>1, <2>2, ScriptType DEF Shaped, Begins
  <2>4. holder' \in Operation /\ holder'.op = holder.op /\ holder'.todo = Script(holder.op)
    BY <1>1, <2>2, <2>3 DEF Connect, Operation
  <2>5. Scripted'
    BY <2>2, <2>3, <2>4 DEF Scripted
  <2>6. retry' \in 0..Cooldown
    BY <1>1, Limits DEF Connect
  <2>7. TypeOK'
    BY <1>1, <2>4, <2>6 DEF Connect, TypeOK, clocks, Operation
  <2> QED
    BY <2>5, <2>7
<1>2. CASE ConnectFail
  <2>1. reply' \in [op : Op, success : BOOLEAN]
    BY <1>2, First DEF ConnectFail, Reply
  <2>2. Scripted'
    BY <1>2 DEF ConnectFail, Scripted
  <2> QED
    BY <1>2, <2>1, <2>2, Limits DEF ConnectFail, TypeOK, clocks
<1>3. CASE WriteDone
  <2>1. holder' \in Operation /\ Scripted'
    BY <1>3, <1>w, Gone DEF WriteDone
  <2>2. word' \in [Words -> 0..2]
    BY <1>3, <1>w DEF WriteDone, TypeOK
  <2> QED
    BY <1>3, <2>1, <2>2 DEF WriteDone, TypeOK, clocks, Operation
<1>4. CASE WriteRefused
  <2>1. holder' \in Operation /\ Scripted'
    BY <1>4, <1>w, Gone DEF WriteRefused
  <2> QED
    BY <1>4, <2>1 DEF WriteRefused, TypeOK, clocks, Operation, Doubted
<1>5. CASE HoldOrRead
  <2>1. holder' \in Operation /\ Scripted'
    BY <1>5, <1>w, Gone DEF HoldOrRead
  <2> QED
    BY <1>5, <2>1 DEF HoldOrRead, TypeOK, clocks, Operation
<1>6. CASE ReadRefused
  <2>1. holder' \in Operation /\ Scripted'
    BY <1>6, <1>w, Gone DEF ReadRefused
  <2> QED
    BY <1>6, <2>1 DEF ReadRefused, TypeOK, clocks, Operation
<1>7. CASE Exception
  <2>1. reply' \in [op : Op, success : BOOLEAN]
    BY <1>7, <1>w DEF Exception, Reply
  <2>2. word' \in [Words -> 0..2]
    BY <1>7, <1>w DEF Exception, TypeOK
  <2>3. Scripted'
    BY <1>7 DEF Exception, Scripted
  <2>4. retry' \in 0..Cooldown /\ unsure' \subseteq ButtonWords
    BY <1>7, Limits DEF Exception, TypeOK, Doubted
  <2> QED
    BY <1>7, <2>1, <2>2, <2>3, <2>4 DEF Exception, TypeOK, clocks
<1>8. CASE ScreenException
  <2> DEFINE todo == <<Other("reset", holder.op.word)>>
  <2>1. holder' \in Operation /\ holder'.op = holder.op /\ holder'.todo = todo /\ Plain(todo)
    BY <1>8, ScreenGone
  <2>2. holder.op.word \in Targets(holder.op.kind)
    BY <1>8 DEF ScreenException, Doing, Scripted
  <2> HIDE DEF todo
  <2>3. Scripted'
    BY <2>1, <2>2 DEF Scripted, Shaped
  <2> QED
    BY <1>8, <2>1, <2>3 DEF ScreenException, TypeOK, clocks, Operation
<1>9. CASE Reset
  <2>1. holder' \in Operation /\ Scripted'
    BY <1>9, First, Gone DEF Reset
  <2>2. retry' \in 0..Cooldown
    BY <1>9, Limits DEF Reset
  <2> QED
    BY <1>9, <2>1, <2>2 DEF Reset, TypeOK, clocks, Operation
<1>10. CASE Arm
  <2>1. holder' \in Operation /\ Scripted'
    BY <1>10, First, Gone DEF Arm
  <2>2. jog' \in [word : AxisWords, age : 0..(JogDeadman + 1)]
    BY <1>10, First, Limits DEF Arm
  <2> QED
    BY <1>10, <2>1, <2>2 DEF Arm, TypeOK, clocks, Operation
<1>11. CASE Disarm
  <2>1. holder' \in Operation /\ Scripted'
    BY <1>11, First, Gone DEF Disarm
  <2> QED
    BY <1>11, <2>1 DEF Disarm, TypeOK, clocks, Operation
<1>12. CASE Release
  <2>1. reply' \in [op : Op, success : BOOLEAN]
    BY <1>12 DEF Release, Reply, TypeOK
  <2>2. Scripted'
    BY <1>12 DEF Release, Scripted
  <2> QED
    BY <1>12, <2>1, <2>2 DEF Release, TypeOK, clocks
<1> QED
  BY <1>1, <1>2, <1>3, <1>4, <1>5, <1>6, <1>7, <1>8, <1>9, <1>10, <1>11, <1>12 DEF Step

LEMMA TypedNext ==
  ASSUME Typed, [Next]_vars
  PROVE  Typed'
<1> USE DEF Typed
<1>1. ASSUME NEW op \in Op, Request(op)
      PROVE  Typed'
  <2>1. op.word \in Targets(op.kind) /\ Acquire(op)
    BY <1>1 DEF Request
  <2> QED
    BY <1>1, <2>1, Acquired DEF Request, Acquire, TypeOK, Operation
<1>2. CASE Peek
  <2>1. Scripted'
    BY <1>2 DEF Peek, Scripted
  <2> QED
    BY <1>2, <2>1, Limits DEF Peek, TypeOK
<1>3. CASE DeadmanAcquire
  <2>1. Deadman \in Op /\ Deadman.word \in Targets(Deadman.kind)
    BY Apart DEF Deadman, Op, Kind, Targets
  <2>2. checked' \in 0..CheckSlack
    BY <1>3, Limits DEF DeadmanAcquire
  <2> QED
    BY <1>3, <2>1, <2>2, Acquired DEF DeadmanAcquire, Acquire, TypeOK, Operation
<1>4. CASE Step
  BY <1>4, TypedStep
<1>5. CASE Tick
  <2>1. Scripted'
    BY <1>5 DEF Tick, Scripted
  <2>2. jog' \in {NoJog} \cup [word : AxisWords, age : 0..(JogDeadman + 1)]
    BY <1>5, Limits DEF Tick, TypeOK, Lapsed
  <2>3. busy' \in 0..OpSlack /\ checked' \in 0..CheckSlack
    BY <1>5, Limits, SMTT(30) DEF Tick, TypeOK
  <2>4. asked' \in 0..(Bound + 1)
    BY <1>5, Limits DEF Tick, TypeOK
  <2>5. retry' \in 0..Cooldown
    BY <1>5, Limits DEF Tick, TypeOK
  <2> QED
    BY <1>5, <2>1, <2>2, <2>3, <2>4, <2>5 DEF Tick, TypeOK
<1>6. CASE UNCHANGED vars
  BY <1>6 DEF vars, clocks, TypeOK, Scripted
<1> QED
  BY <1>1, <1>2, <1>3, <1>4, <1>5, <1>6 DEF Next

\* The state keeps its types.
THEOREM TypeCorrect == Spec => []TypeOK
<1>1. Typed => TypeOK
  BY DEF Typed
<1> QED
  BY <1>1, Started, TypedNext, PTL DEF Spec

-----------------------------------------------------------------------------
(* The connection *)

\* While a socket that has broken is still open, its operation is about to drop it.
Breaking == sock /\ dead => holder # NoOp /\ Doing("reset")

\* The socket of an idle client has never raised an exception: a broken one is
\* dropped by the operation that found it broken.
THEOREM SocketIsLive == Spec => []NoDeadSocket
<1>1. Init => Typed /\ Breaking
  BY Started DEF Init, Breaking
<1>2. ASSUME Typed, Breaking, [Next]_vars
      PROVE  Typed' /\ Breaking'
  <2>1. Typed'
    BY <1>2, TypedNext
  <2>2. ASSUME ~(sock /\ dead)
        PROVE  Breaking'
    <3>1. CASE ScreenException
      <4> DEFINE todo == <<Other("reset", holder.op.word)>>
      <4>1. holder' # NoOp /\ holder'.todo = todo
        BY <1>2, <3>1, ScreenGone, Busy
      <4>2. todo # <<>> /\ Head(todo).do = "reset"
        BY DEF Other
      <4> HIDE DEF todo
      <4> QED
        BY <4>1, <4>2 DEF Breaking, Doing
    <3>2. CASE ~ScreenException
      <4>1. ~(sock' /\ dead')
        BY <1>2, <2>2, <3>2 DEF Next, Step, Request, Peek, DeadmanAcquire, Acquire, Tick,
           Connect, ConnectFail, WriteDone, WriteRefused, HoldOrRead, ReadRefused,
           Exception, Reset, Arm, Disarm, Release, vars
      <4> QED
        BY <4>1 DEF Breaking
    <3> QED
      BY <3>1, <3>2
  <2>3. ASSUME sock /\ dead
        PROVE  Breaking'
    <3>1. holder # NoOp /\ Doing("reset")
      BY <1>2, <2>3 DEF Breaking
    <3>2. Reset \/ UNCHANGED <<holder, sock, dead>>
      BY <1>2, <3>1 DEF Next, Step, Request, Peek, DeadmanAcquire, Acquire, Tick,
         Connect, ConnectFail, WriteDone, WriteRefused, HoldOrRead, ReadRefused,
         Exception, ScreenException, Reset, Arm, Disarm, Release, vars, Doing
    <3> QED
      BY <1>2, <3>1, <3>2 DEF Breaking, Doing, Reset
  <2> QED
    BY <2>1, <2>2, <2>3
<1>3. Breaking => NoDeadSocket
  BY DEF Breaking, NoDeadSocket
<1> QED
  BY <1>1, <1>2, <1>3, PTL DEF Spec

-----------------------------------------------------------------------------
(* The deadman *)

\* What moves under the words m is what the deadman j watches; it is w at most.
Watched(j, m) == \A w \in AxisWords : m[w] = JogBit => Held(j, w)
Only(w, m) == \A x \in AxisWords : m[x] = JogBit => x = w

\* What holds while t is left of a script.
Stage(t, j, m) ==
  \/ Plain(t) /\ Watched(j, m)
  \/ \E w \in AxisWords :
       \/ \E v \in AxisWords : Switching(t, v, w) /\ Watched(j, m) /\ Held(j, v)
       \/ Setting(t, w) /\ Watched(j, m) /\ Only(w, m)
       \/ Arming(t, w) /\ Only(w, m)
       \/ Clearing(t, w) /\ Watched(j, m)
       \/ Disarming(t, w) /\ Watched(j, m) /\ m[w] # JogBit

\* What holds while the operation h, if any, holds the lock.
Safe(h, j, m) == IF h = NoOp THEN Watched(j, m) ELSE Stage(h.todo, j, m)
Guarded == Safe(holder, jog, word)

\* A stage depends on the words that move and the word that is watched alone.
LEMMA SameStage ==
  ASSUME NEW j, NEW k, NEW m, \A w \in AxisWords : Held(j, w) <=> Held(k, w)
  PROVE  /\ Watched(j, m) => Watched(k, m)
         /\ \A t : Stage(t, j, m) => Stage(t, k, m)
<1>1. Watched(j, m) => Watched(k, m)
  BY DEF Watched
<1> QED
  BY <1>1 DEF Stage

\* A stage lasts while nothing starts.
Less(l, m) == \A w \in AxisWords : m[w] = JogBit => l[w] = JogBit
LEMMA Lasts ==
  ASSUME NEW l, NEW m, Less(l, m), NEW h, NEW j, Safe(h, j, l)
  PROVE  Safe(h, j, m)
<1>1. Watched(j, l) => Watched(j, m)
  BY DEF Watched, Less
<1>2. \A w : Only(w, l) => Only(w, m)
  BY DEF Only, Less
<1> QED
  BY <1>1, <1>2 DEF Safe, Stage, Less

\* A script begins in its first stage.
LEMMA Begun ==
  ASSUME NEW t, NEW j, NEW m, Watched(j, m), Begins(t, j)
  PROVE  Stage(t, j, m)
<1>1. \A w \in AxisWords : j = NoJog \/ Held(j, w) => Only(w, m)
  BY DEF Watched, Only, Held
<1> QED
  BY <1>1 DEF Begins, Stage

\* What comes first in each stage.
LEMMA Firsts ==
  ASSUME holder \in Operation, holder.todo # <<>>, NEW v \in AxisWords, NEW w \in AxisWords
  PROVE  /\ Switching(holder.todo, v, w) => Now.do = "write" /\ Now.word = v /\ Now.val = 0
         /\ Setting(holder.todo, w) => Now.do = "write" /\ Now.word = w /\ Now.val = JogBit
         /\ Clearing(holder.todo, w) => Now.do = "write" /\ Now.word = w /\ Now.val = 0
         /\ Arming(holder.todo, w) => Now.do = "arm" /\ Now.word = w
         /\ Disarming(holder.todo, w) => Now.do = "disarm" /\ Now.word = w
         /\ Plain(holder.todo) => Harmless(Now)
<1>1. 1 \in 1..Len(holder.todo) /\ Now = holder.todo[1]
  BY HeadIsFirst
<1>2. Switching(holder.todo, v, w) => Now.do = "write" /\ Now.word = v /\ Now.val = 0
  BY <1>1 DEF Switching, Write
<1>3. Setting(holder.todo, w) => Now.do = "write" /\ Now.word = w /\ Now.val = JogBit
  BY <1>1 DEF Setting, Write
<1>4. Clearing(holder.todo, w) => Now.do = "write" /\ Now.word = w /\ Now.val = 0
  BY <1>1 DEF Clearing, Write
<1>5. /\ Arming(holder.todo, w) => Now.do = "arm" /\ Now.word = w
      /\ Disarming(holder.todo, w) => Now.do = "disarm" /\ Now.word = w
  BY <1>1 DEF Arming, Disarming, Other
<1>6. Plain(holder.todo) => Harmless(Now)
  BY <1>1 DEF Plain
<1> QED
  BY <1>2, <1>3, <1>4, <1>5, <1>6

\* A write leads to the next stage, if it is not known to have failed.
LEMMA WriteStage ==
  ASSUME Typed, Doing("write"), NEW ok \in BOOLEAN, NEW n \in 0..2, GoOn(ok, n),
         n = 0 \/ Plain(holder.todo),
         NEW l, Stage(holder.todo, jog, l),
         NEW m, \A x \in AxisWords : m[x] = JogBit =>
                  IF x = Now.word THEN Now.val = JogBit ELSE l[x] = JogBit
  PROVE  Stage(holder'.todo, jog, m)
<1>0. /\ holder \in Operation /\ holder.todo # <<>>
      /\ Now.do = "write" /\ Now.word \in Words
  BY First DEF Typed, TypeOK, Operation, Instruction, Doing
<1>m. Now.val = 0 /\ Now.word \in AxisWords => m[Now.word] # JogBit
  BY DEF JogBit
<1>1. CASE Plain(holder.todo) /\ Watched(jog, l)
  <2>1. Plain(holder'.todo)
    BY <1>0, <1>1, PlainGoes
  <2>2. Now.word \notin AxisWords \/ Now.val # JogBit
    BY <1>0, <1>1, Firsts DEF Harmless
  <2>3. Now.word \in AxisWords => m[Now.word] # JogBit
    BY <2>2 DEF JogBit
  <2>4. Watched(jog, m)
    BY <1>1, <2>3 DEF Watched
  <2> QED
    BY <2>1, <2>4 DEF Stage
<1>n. CASE n = 0
  <2>2. ASSUME NEW w \in AxisWords, NEW v \in AxisWords,
               Switching(holder.todo, v, w), Watched(jog, l), Held(jog, v)
        PROVE  Stage(holder'.todo, jog, m)
    <3>1. Setting(holder'.todo, w)
      BY <1>0, <1>n, <2>2, NextShape
    <3>2. Now.word = v /\ Now.val = 0
      BY <1>0, <2>2, Firsts
    <3>3. \A x \in AxisWords : m[x] # JogBit
      BY <1>m, <2>2, <3>2 DEF Watched, Held
    <3> QED
      BY <3>1, <3>3 DEF Stage, Watched, Only
  <2>3. ASSUME NEW w \in AxisWords, Setting(holder.todo, w), Only(w, l)
        PROVE  Stage(holder'.todo, jog, m)
    <3>1. Arming(holder'.todo, w)
      BY <1>0, <1>n, <2>3, NextShape
    <3>2. Now.word = w
      BY <1>0, <2>3, Firsts
    <3>3. Only(w, m)
      BY <2>3, <3>2 DEF Only
    <3> QED
      BY <3>1, <3>3 DEF Stage
  <2>4. ASSUME NEW w \in AxisWords, Clearing(holder.todo, w), Watched(jog, l)
        PROVE  Stage(holder'.todo, jog, m)
    <3>1. Disarming(holder'.todo, w)
      BY <1>0, <1>n, <2>4, NextShape
    <3>2. Now.word = w /\ Now.val = 0
      BY <1>0, <2>4, Firsts
    <3>3. Watched(jog, m) /\ m[w] # JogBit
      BY <1>m, <2>4, <3>2 DEF Watched
    <3> QED
      BY <3>1, <3>3 DEF Stage
  <2>5. ASSUME NEW w \in AxisWords
        PROVE  ~Arming(holder.todo, w) /\ ~Disarming(holder.todo, w)
    BY <1>0, <2>5, Firsts
  <2> QED
    BY <1>1, <2>2, <2>3, <2>4, <2>5 DEF Stage
<1> QED
  BY <1>0, <1>1, <1>n, Firsts DEF Stage

\* What the first instruction says of the stage.
LEMMA StageOf ==
  ASSUME Typed, NEW m, Safe(holder, jog, m), NEW do, Doing(do)
  PROVE  /\ Stage(holder.todo, jog, m)
         /\ do \in {"connect", "read", "hold", "reset"} => Plain(holder.todo)
         /\ do = "write" /\ Now.word \notin AxisWords => Plain(holder.todo)
         /\ do \in {"connect", "read", "hold", "reset", "write"} => Watched(jog, m)
         /\ do = "arm" =>
              \E w \in AxisWords : Arming(holder.todo, w) /\ Only(w, m) /\ Now.word = w
         /\ do = "disarm" =>
              \E w \in AxisWords : /\ Disarming(holder.todo, w) /\ Watched(jog, m)
                                   /\ m[w] # JogBit /\ Now.word = w
<1>1. holder \in Operation /\ holder # NoOp /\ holder.todo # <<>> /\ Now.do = do
  BY First DEF Typed, TypeOK, Operation
<1>2. Stage(holder.todo, jog, m)
  BY <1>1 DEF Safe
<1>3. CASE Plain(holder.todo) /\ Watched(jog, m)
  <2>1. do \notin {"arm", "disarm"}
    BY <1>1, <1>3, First
  <2> QED
    BY <1>2, <1>3, <2>1
<1>4. ASSUME NEW w \in AxisWords, NEW v \in AxisWords, Watched(jog, m),
             \/ Switching(holder.todo, v, w) \/ Setting(holder.todo, w)
             \/ Clearing(holder.todo, w)
      PROVE  do = "write" /\ Now.word \in AxisWords
  BY <1>1, <1>4, Firsts
<1>5. ASSUME NEW w \in AxisWords, Arming(holder.todo, w)
      PROVE  do = "arm" /\ Now.word = w
  BY <1>1, <1>5, Firsts
<1>6. ASSUME NEW w \in AxisWords, Disarming(holder.todo, w)
      PROVE  do = "disarm" /\ Now.word = w
  BY <1>1, <1>6, Firsts
<1> QED
  BY <1>2, <1>3, <1>4, <1>5, <1>6 DEF Stage

LEMMA JogBusy ==
  ASSUME NEW j \in [word : AxisWords, age : 0..(JogDeadman + 1)]
  PROVE  j # NoJog
<1>1. DOMAIN j = {"word", "age"}
  OBVIOUS
<1>2. DOMAIN NoJog = 1..0
  BY DEF NoJog
<1>3. 1..0 = {}
  OBVIOUS
<1> QED
  BY <1>1, <1>2, <1>3

LEMMA SafeAcquire ==
  ASSUME Typed, NEW m, Safe(holder, jog, m), NEW op \in Op, op.word \in Targets(op.kind), Acquire(op)
  PROVE  Safe(holder', jog', m)
<1>1. Watched(jog, m) /\ jog' = jog
  BY DEF Acquire, Safe
<1>2. ASSUME holder' # NoOp
      PROVE  Begins(holder'.todo, jog)
  <2>1. jog # NoJog => jog.word \in AxisWords
    BY DEF Typed, TypeOK
  <2>2. Other("connect", op.word) \in Instruction /\ Harmless(Other("connect", op.word))
    BY Apart DEF Op, Other, Instruction, Harmless
  <2> DEFINE todo == IF sock THEN Script(op) ELSE <<Other("connect", op.word)>>
  <2>3. Begins(todo, jog)
    BY <2>1, <2>2, One, ScriptType DEF Begins
  <2>4. holder' = [op |-> op, ok |-> TRUE, todo |-> todo]
    BY <1>2 DEF Acquire
  <2> HIDE DEF todo
  <2> QED
    BY <2>3, <2>4
<1>3. holder' # NoOp => Stage(holder'.todo, jog, m)
  BY <1>1, <1>2, Begun
<1> QED
  BY <1>1, <1>3 DEF Safe

LEMMA SafeStep ==
  ASSUME Typed, Step, NEW l, Safe(holder, jog, l),
         NEW m, \A x \in AxisWords : m[x] = JogBit =>
                  IF x = Now.word /\ (WriteDone \/ WriteRefused)
                  THEN Now.val = JogBit ELSE l[x] = JogBit
  PROVE  Safe(holder', jog', m)
<1>1. CASE WriteDone
  <2>1. holder.ok \in BOOLEAN /\ holder # NoOp /\ holder.todo # <<>> /\ 0 \in 0..2
    BY <1>1, First DEF WriteDone
  <2>2. holder' # NoOp
    BY <1>1, <2>1, Gone, Busy DEF WriteDone
  <2>3. Stage(holder.todo, jog, l)
    BY <1>1, StageOf DEF WriteDone
  <2>4. \A x \in AxisWords : m[x] = JogBit =>
          IF x = Now.word THEN Now.val = JogBit ELSE l[x] = JogBit
    BY <1>1
  <2>5. Doing("write") /\ GoOn(holder.ok, 0) /\ jog' = jog
    BY <1>1 DEF WriteDone
  <2>6. Stage(holder'.todo, jog', m)
    BY <2>1, <2>3, <2>4, <2>5, WriteStage
  <2> QED
    BY <2>2, <2>6 DEF Safe
<1>2. CASE WriteRefused
  <2>1. /\ holder # NoOp /\ holder.todo # <<>> /\ Now \in Instruction /\ holder.ok \in BOOLEAN
        /\ Now.skip = 0 \/ Plain(holder.todo)
    BY <1>2, First DEF WriteRefused
  <2>2. Now.skip \in 0..2 /\ (holder.ok /\ ~Now.counts) \in BOOLEAN
    BY <2>1 DEF Instruction
  <2>3. Doing("write") /\ GoOn(holder.ok /\ ~Now.counts, Now.skip) /\ jog' = jog
    BY <1>2 DEF WriteRefused
  <2>4. holder' # NoOp
    BY <2>1, <2>2, <2>3, Gone, Busy
  <2>5. Stage(holder.todo, jog, l)
    BY <2>3, StageOf
  <2>6. \A x \in AxisWords : m[x] = JogBit =>
          IF x = Now.word THEN Now.val = JogBit ELSE l[x] = JogBit
    BY <1>2
  <2>7. Stage(holder'.todo, jog', m)
    BY <2>1, <2>2, <2>3, <2>5, <2>6, WriteStage
  <2> QED
    BY <2>4, <2>7 DEF Safe
<1>3. ASSUME ~WriteDone, ~WriteRefused
      PROVE  Safe(holder', jog', m)
  <2>0. Safe(holder, jog, m)
    BY <1>3, Lasts DEF Less
  <2>p. ASSUME NEW n \in 0..2, NEW ok \in BOOLEAN, holder # NoOp, holder.todo # <<>>,
               GoOn(ok, n), Plain(holder.todo), Watched(jog', m)
        PROVE  Safe(holder', jog', m)
    <3>1. holder \in Operation
      BY <2>p DEF Typed, TypeOK, Operation
    <3>2. Plain(holder'.todo)
      BY <2>p, <3>1, PlainGoes
    <3>3. holder' # NoOp
      BY <2>p, <3>1, Gone, Busy
    <3> QED
      BY <2>p, <3>2, <3>3 DEF Safe, Stage
  <2>1. CASE Connect
    <3>1. Watched(jog, m)
      BY <2>0, <2>1, StageOf DEF Connect
    <3>2. jog # NoJog => jog.word \in AxisWords
      BY DEF Typed, TypeOK
    <3>3. /\ holder \in Operation /\ holder.op \in Op
          /\ holder.op.word \in Targets(holder.op.kind)
      BY <2>1 DEF Connect, Doing, Typed, TypeOK, Operation, Scripted
    <3>4. Script(holder.op) \in Seq(Instruction) /\ Begins(Script(holder.op), jog)
      BY <3>2, <3>3, ScriptType
    <3>5. holder' \in Operation /\ holder'.todo = Script(holder.op)
      BY <2>1, <3>3, <3>4 DEF Connect, Operation
    <3>6. Stage(holder'.todo, jog, m) /\ holder' # NoOp
      BY <3>1, <3>4, <3>5, Begun, Busy
    <3> QED
      BY <2>1, <3>6 DEF Connect, Safe
  <2>2. CASE ConnectFail
    BY <2>0, <2>2, StageOf DEF ConnectFail, Safe
  <2>3. CASE HoldOrRead
    <3>1. holder # NoOp /\ holder.todo # <<>> /\ holder.ok \in BOOLEAN
      BY <2>3, First DEF HoldOrRead
    <3>2. Plain(holder.todo) /\ Watched(jog', m)
      BY <2>0, <2>3, StageOf DEF HoldOrRead
    <3> QED
      BY <2>3, <2>p, <3>1, <3>2 DEF HoldOrRead
  <2>4. CASE ReadRefused
    <3>1. /\ holder # NoOp /\ holder.todo # <<>> /\ Now \in Instruction
          /\ holder.ok \in BOOLEAN
      BY <2>4, First DEF ReadRefused
    <3>2. Now.skip \in 0..2 /\ (holder.ok /\ ~Now.counts) \in BOOLEAN
      BY <3>1 DEF Instruction
    <3>3. Plain(holder.todo) /\ Watched(jog', m)
      BY <2>0, <2>4, StageOf DEF ReadRefused
    <3> QED
      BY <2>4, <2>p, <3>1, <3>2, <3>3 DEF ReadRefused
  <2>5. CASE Exception
    <3>1. Watched(jog, m)
      BY <2>0, <2>5, StageOf DEF Exception
    <3> QED
      BY <2>5, <3>1 DEF Exception, Safe
  <2>6. CASE ScreenException
    <3>1. Watched(jog', m)
      BY <2>0, <2>6, StageOf DEF ScreenException
    <3>2. holder' # NoOp /\ Plain(holder'.todo)
      BY <2>6, ScreenGone, Busy
    <3> QED
      BY <3>1, <3>2 DEF Safe, Stage
  <2>7. CASE Reset
    <3>1. holder # NoOp /\ holder.todo # <<>> /\ holder.ok \in BOOLEAN
      BY <2>7, First DEF Reset
    <3>2. Plain(holder.todo) /\ Watched(jog', m)
      BY <2>0, <2>7, StageOf DEF Reset
    <3> QED
      BY <2>7, <2>p, <3>1, <3>2 DEF Reset
  <2>8. CASE Arm
    <3>1. holder \in Operation /\ holder # NoOp /\ holder.todo # <<>> /\ holder.ok \in BOOLEAN
      BY <2>8, First DEF Arm, Typed, TypeOK, Operation
    <3>2. PICK w \in AxisWords : Arming(holder.todo, w) /\ Only(w, m) /\ Now.word = w
      BY <2>0, <2>8, StageOf DEF Arm
    <3>3. jog' \in [word : AxisWords, age : 0..(JogDeadman + 1)] /\ jog'.word = w
      BY <2>8, <3>2, Limits DEF Arm
    <3>4. Watched(jog', m)
      BY <3>2, <3>3, JogBusy DEF Watched, Only, Held
    <3>5. Plain(holder'.todo)
      BY <2>8, <3>1, <3>2, NextShape DEF Arm
    <3>6. holder' # NoOp
      BY <2>8, <3>1, Gone, Busy DEF Arm
    <3> QED
      BY <3>4, <3>5, <3>6 DEF Safe, Stage
  <2>9. CASE Disarm
    <3>1. holder \in Operation /\ holder # NoOp /\ holder.todo # <<>> /\ holder.ok \in BOOLEAN
      BY <2>9, First DEF Disarm, Typed, TypeOK, Operation
    <3>2. PICK w \in AxisWords : /\ Disarming(holder.todo, w) /\ Watched(jog, m)
                                 /\ m[w] # JogBit /\ Now.word = w
      BY <2>0, <2>9, StageOf DEF Disarm
    <3>3. Watched(jog', m)
      BY <2>9, <3>2 DEF Disarm, Watched, Held, Armed
    <3>4. Plain(holder'.todo)
      BY <2>9, <3>1, <3>2, NextShape DEF Disarm
    <3>5. holder' # NoOp
      BY <2>9, <3>1, Gone, Busy DEF Disarm
    <3> QED
      BY <3>3, <3>4, <3>5 DEF Safe, Stage
  <2>10. CASE Release
    <3>1. Watched(jog, m)
      BY <2>0, <2>10 DEF Release, Safe, Stage, Switching, Setting, Arming, Clearing, Disarming
    <3> QED
      BY <2>10, <3>1 DEF Release, Safe
  <2> QED
    BY <1>3, <2>1, <2>2, <2>3, <2>4, <2>5, <2>6, <2>7, <2>8, <2>9, <2>10 DEF Step
<1> QED
  BY <1>1, <1>2, <1>3

LEMMA HeldTick ==
  ASSUME Typed, Tick
  PROVE  \A w \in AxisWords : Held(jog, w) <=> Held(jog', w)
<1>1. jog' = jog \/ (jog # NoJog /\ jog' = [jog EXCEPT !.age = jog.age + 1])
  BY DEF Tick
<1>2. CASE jog # NoJog /\ jog' # jog
  <2>1. jog \in [word : AxisWords, age : 0..(JogDeadman + 1)] /\ jog'.word = jog.word
    BY <1>1, <1>2 DEF Typed, TypeOK
  <2>2. jog.age \in 0..JogDeadman
    BY <1>2, <2>1, Limits DEF Tick, Lapsed
  <2>3. jog' \in [word : AxisWords, age : 0..(JogDeadman + 1)]
    BY <1>1, <1>2, <2>1, <2>2, Limits
  <2> QED
    BY <1>2, <2>1, <2>3, JogBusy DEF Held
<1> QED
  BY <1>1, <1>2

\* The clock and the looks of the deadman thread change no stage.
LEMMA SafeOther ==
  ASSUME Typed, NEW l, Safe(holder, jog, l), NEW m, Less(l, m), [Next]_vars, ~Step
  PROVE  Safe(holder', jog', m)
<1>0. Safe(holder, jog, m)
  BY Lasts
<1>1. ASSUME NEW op \in Op, Request(op)
      PROVE  Safe(holder', jog', m)
  BY <1>0, <1>1, SafeAcquire DEF Request
<1>2. CASE Peek
  BY <1>0, <1>2 DEF Peek
<1>3. CASE DeadmanAcquire
  <2>1. Deadman \in Op /\ Deadman.word \in Targets(Deadman.kind)
    BY Apart DEF Deadman, Op, Kind, Targets
  <2> QED
    BY <1>0, <1>3, <2>1, SafeAcquire DEF DeadmanAcquire
<1>4. CASE Tick
  <2>1. \A w \in AxisWords : Held(jog, w) <=> Held(jog', w)
    BY <1>4, HeldTick
  <2>2. UNCHANGED holder
    BY <1>4 DEF Tick
  <2> QED
    BY <1>0, <2>1, <2>2, SameStage DEF Safe
<1>5. CASE UNCHANGED vars
  BY <1>0, <1>5 DEF vars
<1> QED
  BY <1>1, <1>2, <1>3, <1>4, <1>5 DEF Next

LEMMA GuardedNext ==
  ASSUME Typed, Guarded, [Next]_vars, "late" \notin Faults, AxisWords \cap Refusing = {}
  PROVE  Guarded'
<1>1. CASE Step
  <2> SUFFICES ASSUME NEW x \in AxisWords, word'[x] = JogBit
               PROVE  IF x = Now.word /\ (WriteDone \/ WriteRefused)
                      THEN Now.val = JogBit ELSE word[x] = JogBit
    BY <1>1, SafeStep DEF Guarded
  <2>1. ASSUME x = Now.word, WriteDone
        PROVE  Now.val = JogBit
    BY <2>1, Apart DEF WriteDone, Typed, TypeOK
  <2>2. ~(x = Now.word /\ WriteRefused)
    BY DEF WriteRefused
  <2>3. ASSUME ~(x = Now.word /\ WriteDone)
        PROVE  word[x] = JogBit
    <3>1. CASE WriteDone
      BY <2>3, <3>1, Apart DEF WriteDone, Typed, TypeOK
    <3>2. CASE ~WriteDone
      BY <1>1, <3>2 DEF Step, Connect, ConnectFail, WriteRefused, HoldOrRead, ReadRefused,
         Exception, ScreenException, Reset, Arm, Disarm, Release
    <3> QED
      BY <3>1, <3>2
  <2> QED
    BY <2>1, <2>2, <2>3
<1>2. CASE ~Step
  <2>1. word' = word
    BY <1>2 DEF Next, Request, Peek, DeadmanAcquire, Acquire, Tick, vars
  <2> QED
    BY <1>2, <2>1, SafeOther DEF Guarded, Less
<1> QED
  BY <1>1, <1>2

\* No axis moves unwatched while the lock is free, whatever requests get lost on
\* their way to a PLC that refuses none of the axes.
THEOREM NothingUnwatched ==
  ASSUME "late" \notin Faults, AxisWords \cap Refusing = {}
  PROVE  Spec => []JogIsArmed
<1>1. Init => Typed /\ Guarded
  <2>1. ASSUME Init
        PROVE  \A w \in AxisWords : word[w] # JogBit
    BY <2>1, Apart DEF Init, JogBit
  <2> QED
    BY <2>1, Started DEF Init, Guarded, Safe, Watched
<1>2. Typed /\ Guarded /\ [Next]_vars => Typed' /\ Guarded'
  BY TypedNext, GuardedNext
<1>3. Guarded => JogIsArmed
  BY DEF Guarded, Safe, Watched, Held, Armed, JogIsArmed
<1> QED
  BY <1>1, <1>2, <1>3, PTL DEF Spec
-----------------------------------------------------------------------------
(* A pushbutton is not left latched *)

\* A script that sets a button releases it in the request after the next, with
\* nothing that can fail in between.
Latching(i) ==
  i.do = "write" /\ i.word \in ButtonWords /\ i.val # 0
    /\ ~(i.word \in AxisWords /\ i.val = JogBit)
Releases(i, w) == i.do = "write" /\ i.word = w /\ i.val = 0
Releasing(t, w) ==
  \/ Len(t) >= 1 /\ Releases(t[1], w)
  \/ Len(t) >= 2 /\ t[1].do = "hold" /\ Releases(t[2], w)
Careful(t) ==
  \A k \in 1..Len(t) : Latching(t[k]) =>
    k + 2 <= Len(t) /\ t[k + 1].do = "hold" /\ Releases(t[k + 2], t[k].word)

\* What is set is a jog, in doubt, or about to be released.
Jogging(w) == w \in AxisWords /\ word[w] = JogBit
Unlatched ==
  /\ holder # NoOp => Careful(holder.todo)
  /\ \A w \in ButtonWords \ unsure : word[w] # 0 =>
       Jogging(w) \/ (holder # NoOp /\ Releasing(holder.todo, w))

\* Scripts that read, in parts or at the end.
Reading == {i \in Instruction : i.do = "read"}

LEMMA ReadsOnly ==
  ASSUME NEW w \in Words
  PROVE  MachineStatus(w) \in Seq(Reading) /\ Poll(w) \in Seq(Reading)
           /\ Screen(w) \in Seq(Reading)
<1> DEFINE a == Read(w, TRUE, 0)
           b == Read(w, TRUE, 1)
           c == Read(w, FALSE, 0)
<1>1. a \in Reading /\ b \in Reading /\ c \in Reading
  BY DEF Reading, Read, Instruction
<1> HIDE DEF a, b, c
<1>2. <<a>> \in Seq(Reading) /\ <<b, a>> \in Seq(Reading) /\ <<c, c>> \in Seq(Reading)
  BY <1>1
<1>3. <<b, a>> \o <<a>> \in Seq(Reading)
  BY <1>2, ConcatProperties
<1> QED
  BY <1>2, <1>3 DEF MachineStatus, Poll, Screen, ReadBlock, a, b, c

LEMMA ReadAt ==
  ASSUME NEW r \in Seq(Reading), NEW k \in 1..Len(r)
  PROVE  r[k].do = "read"
<1>1. r[k] \in Reading
  BY ElementOfSeq
<1> QED
  BY <1>1 DEF Reading

LEMMA CarefulThenReads ==
  ASSUME NEW s \in Seq(Instruction), NEW r \in Seq(Reading), Careful(s)
  PROVE  Careful(s \o r)
<1>1. r \in Seq(Instruction)
  BY DEF Reading
<1>2. /\ Len(s \o r) = Len(s) + Len(r) /\ Len(s) \in Nat /\ Len(r) \in Nat
      /\ \A k \in 1..(Len(s) + Len(r)) :
           (s \o r)[k] = IF k <= Len(s) THEN s[k] ELSE r[k - Len(s)]
  BY <1>1, ConcatProperties
<1> SUFFICES ASSUME NEW k \in 1..(Len(s) + Len(r)), Latching((s \o r)[k])
             PROVE  /\ k + 2 <= Len(s) + Len(r) /\ (s \o r)[k + 1].do = "hold"
                    /\ Releases((s \o r)[k + 2], (s \o r)[k].word)
  BY <1>2 DEF Careful
<1>3. k <= Len(s)
  <2>1. k > Len(s) => (s \o r)[k].do = "read"
    BY <1>2, ReadAt
  <2> QED
    BY <1>2, <2>1 DEF Latching
<1>4. k \in 1..Len(s) /\ (s \o r)[k] = s[k]
  BY <1>2, <1>3
<1>5. k + 2 <= Len(s) /\ s[k + 1].do = "hold" /\ Releases(s[k + 2], s[k].word)
  BY <1>4 DEF Careful
<1>6. (s \o r)[k + 1] = s[k + 1] /\ (s \o r)[k + 2] = s[k + 2]
  BY <1>2, <1>5
<1> QED
  BY <1>2, <1>4, <1>5, <1>6

LEMMA CarefulPress ==
  ASSUME NEW w \in Words
  PROVE  Careful(Press(w)) /\ Careful(Press(w) \o MachineStatus(w))
<1> DEFINE a == Write(w, ButtonBit, TRUE, 2)
           b == Other("hold", w)
           c == Write(w, 0, FALSE, 0)
<1>1. a.word = w /\ b.do = "hold" /\ ~Latching(b) /\ ~Latching(c) /\ Releases(c, w)
  BY DEF Write, Other, Latching, Releases
<1> HIDE DEF a, b, c
<1>2. Careful(<<a, b, c>>)
  BY <1>1 DEF Careful
<1>3. Press(w) = <<a, b, c>>
  BY DEF Press, a, b, c
<1> QED
  BY <1>2, <1>3, PulseType, ReadsOnly, CarefulThenReads

\* The words of the start requests are no buttons.
LEMMA CarefulStart ==
  ASSUME NEW w \in AmrWritable, NEW v \in 0..2
  PROVE  /\ Careful(AmrPulse(w)) /\ Careful(AmrSet(w, v))
         /\ Careful(<<Write(w, v, TRUE, 0)>>) /\ Careful(Both(v))
<1> DEFINE a(x, y, n) == Write(x, y, TRUE, n)
           b == Read(w, FALSE, 0)
           c == Other("hold", w)
<1>1. \A x \in AmrWritable : \A y, n : ~Latching(a(x, y, n))
  BY PlcAssumption DEF Latching, Write, ButtonWords
<1>2. ~Latching(b) /\ ~Latching(c) /\ AugerWord \in AmrWritable /\ PlanterWord \in AmrWritable
  BY Apart DEF Latching, Read, Other
<1> HIDE DEF a, b, c
<1>3. Careful(<<a(w, 1, 2), c, a(w, 0, 0), b>>)
  BY <1>1, <1>2 DEF Careful
<1>4. Careful(<<a(w, v, 0), b>>) /\ Careful(<<a(w, v, 0)>>)
  BY <1>1, <1>2 DEF Careful
<1>5. Careful(<<a(AugerWord, v, 0), a(PlanterWord, v, 0)>>)
  BY <1>1, <1>2 DEF Careful
<1> QED
  BY <1>3, <1>4, <1>5 DEF AmrPulse, AmrSet, Both, a, b, c

LEMMA CarefulScript ==
  ASSUME NEW op \in Op, op.word \in Targets(op.kind), jog # NoJog => jog.word \in AxisWords
  PROVE  Careful(Script(op))
<1>0. op.word \in Words
  BY Apart DEF Op
<1>1. CASE op.kind = "jogStart"
  <2>1. Script(op) = JogStart(op.word) /\ op.word \in AxisWords
    BY <1>1 DEF Script, Targets
  <2>2. \/ Switching(JogStart(op.word), jog.word, op.word)
        \/ Setting(JogStart(op.word), op.word)
    BY <2>1, JogType
  <2> QED
    BY <2>1, <2>2 DEF Careful, Latching, Switching, Setting, Write, Other, JogBit
<1>2. CASE op.kind = "jogStop"
  <2>1. Script(op) = JogStop(op.word) /\ op.word \in AxisWords
    BY <1>2 DEF Script, Targets
  <2>2. Clearing(JogStop(op.word), op.word)
    BY <2>1, StopType
  <2> QED
    BY <2>1, <2>2 DEF Careful, Latching, Clearing, Write, Other
<1>3. CASE op.kind = "deadman"
  <2>1. Script(op) = IF Lapsed THEN JogStop(jog.word) ELSE <<>>
    BY <1>3 DEF Script, JogDeadmanTick, JogStop
  <2>2. Lapsed => Clearing(JogStop(jog.word), jog.word)
    BY StopType DEF Lapsed
  <2> QED
    BY <2>1, <2>2 DEF Careful, Latching, Clearing, Write, Other
<1>4. CASE op.kind \in {"press", "machine"}
  <2>1. Script(op) = Press(op.word) \/ Script(op) = Press(op.word) \o MachineStatus(op.word)
    BY <1>4 DEF Script, Command
  <2> QED
    BY <1>0, <2>1, CarefulPress
<1>5. CASE op.kind \in {"amrPulse", "amrSet", "amrMoving", "amrClear", "start", "stop", "startBoth", "stopBoth"}
  <2>1. op.kind \notin {"startBoth", "stopBoth"} => op.word \in AmrWritable
    BY <1>5 DEF Targets, AmrWritable
  <2>2. \E x \in AmrWritable, v \in 0..2 :
          Script(op) \in {AmrPulse(x), AmrSet(x, v), <<Write(x, v, TRUE, 0)>>, Both(v)}
    <3>1. \/ Script(op) \in {Both(0), Both(1)}
          \/ /\ op.word \in AmrWritable
             /\ Script(op) \in {AmrPulse(op.word), AmrSet(op.word, 0), AmrSet(op.word, 1),
                  AmrSet(op.word, 2), <<Write(op.word, 0, TRUE, 0)>>, <<Write(op.word, 1, TRUE, 0)>>}
      BY <1>5, <2>1 DEF Script
    <3>2. 0 \in 0..2 /\ 1 \in 0..2 /\ 2 \in 0..2
      OBVIOUS
    <3> QED
      BY <3>1, <3>2, Apart
  <2> QED
    BY <2>2, CarefulStart
<1>6. CASE op.kind \in {"status", "poll", "screen"}
  <2>1. Script(op) \in {MachineStatus(op.word), Poll(op.word), Screen(op.word)}
    BY <1>6 DEF Script, Status
  <2>2. Script(op) \in Seq(Reading)
    BY <1>0, <2>1, ReadsOnly
  <2> QED
    BY <2>2, ReadAt DEF Careful, Latching
<1> QED
  BY <1>1, <1>2, <1>3, <1>4, <1>5, <1>6 DEF Op, Kind

\* How an operation goes on.
LEMMA Goes ==
  ASSUME Typed, Step
  PROVE  \/ holder' = NoOp
         \/ /\ Doing("connect") /\ holder' \in Operation /\ holder'.todo = Script(holder.op)
            /\ holder'.op = holder.op /\ holder.op \in Op
            /\ holder.op.word \in Targets(holder.op.kind)
         \/ /\ holder' \in Operation /\ holder'.op = holder.op /\ holder.op.kind = "screen"
            /\ holder'.todo = <<Other("reset", holder.op.word)>>
         \/ \E ok \in BOOLEAN, n \in 0..2 :
              holder \in Operation /\ holder.todo # <<>> /\ GoOn(ok, n)
<1>1. CASE Connect
  <2>1. holder \in Operation /\ holder.op \in Op /\ holder.op.word \in Targets(holder.op.kind)
    BY <1>1 DEF Connect, Doing, Typed, TypeOK, Operation, Scripted
  <2>2. Script(holder.op) \in Seq(Instruction)
    BY <2>1, ScriptType DEF Typed, TypeOK
  <2> QED
    BY <1>1, <2>1, <2>2 DEF Connect, Operation
<1>2. CASE ConnectFail \/ Exception \/ Release
  BY <1>2 DEF ConnectFail, Exception, Release
<1>3. CASE ScreenException
  BY <1>3, ScreenGone DEF ScreenException
<1>4. ASSUME NEW do, Doing(do)
      PROVE  /\ holder \in Operation /\ holder.todo # <<>> /\ holder.ok \in BOOLEAN
             /\ Now.skip \in 0..2 /\ (holder.ok /\ ~Now.counts) \in BOOLEAN
  <2>1. holder \in Operation /\ holder.todo # <<>> /\ Now \in Instruction
    BY <1>4, First DEF Typed, TypeOK, Operation
  <2> QED
    BY <2>1 DEF Operation, Instruction
<1>5. CASE WriteDone \/ HoldOrRead \/ Reset \/ Arm \/ Disarm
  BY <1>4, <1>5 DEF WriteDone, HoldOrRead, Reset, Arm, Disarm
<1>6. CASE WriteRefused \/ ReadRefused
  BY <1>4, <1>6 DEF WriteRefused, ReadRefused
<1> QED
  BY <1>1, <1>2, <1>3, <1>5, <1>6 DEF Step

LEMMA CarefulGoes ==
  ASSUME holder \in Operation, NEW ok \in BOOLEAN, NEW n \in Nat, holder.todo # <<>>,
         GoOn(ok, n), Careful(holder.todo)
  PROVE  Careful(holder'.todo)
<1> DEFINE t == holder.todo
           r == holder'.todo
<1>1. /\ Len(t) \in Nat
      /\ Len(r) = IF n + 2 <= Len(t) THEN Len(t) - n - 1 ELSE 0
      /\ \A k \in 1..Len(r) : r[k] = t[k + n + 1]
  BY Rest, HeadIsFirst
<1>2. \A k \in 1..Len(t) : Latching(t[k]) =>
        k + 2 <= Len(t) /\ t[k + 1].do = "hold" /\ Releases(t[k + 2], t[k].word)
  BY DEF Careful
<1> HIDE DEF t, r
<1> SUFFICES ASSUME NEW k \in 1..Len(r), Latching(r[k])
             PROVE  k + 2 <= Len(r) /\ r[k + 1].do = "hold" /\ Releases(r[k + 2], r[k].word)
  BY DEF Careful, r
<1> DEFINE j == k + n + 1
<1>3. j \in 1..Len(t) /\ r[k] = t[j]
  BY <1>1
<1>4. j + 2 <= Len(t) /\ t[j + 1].do = "hold" /\ Releases(t[j + 2], t[j].word)
  BY <1>2, <1>3
<1>5. Len(r) = Len(t) - n - 1
  BY <1>1
<1>6. k + 1 \in 1..Len(r) /\ k + 2 \in 1..Len(r) /\ k + 2 <= Len(r)
  BY <1>1, <1>4, <1>5
<1>7. r[k + 1] = t[(k + 1) + n + 1] /\ r[k + 2] = t[(k + 2) + n + 1]
  BY <1>1, <1>6
<1>8. (k + 1) + n + 1 = j + 1 /\ (k + 2) + n + 1 = j + 2
  OBVIOUS
<1> QED
  BY <1>3, <1>4, <1>6, <1>7, <1>8

LEMMA CarefulStep ==
  ASSUME Typed, Step, holder # NoOp => Careful(holder.todo), holder' # NoOp
  PROVE  Careful(holder'.todo)
<1>1. ASSUME holder'.todo = <<Other("reset", holder.op.word)>> PROVE Careful(holder'.todo)
  <2>1. ~Latching(Other("reset", holder.op.word))
    BY DEF Other, Latching
  <2> QED
    BY <1>1, <2>1 DEF Careful
<1>2. ASSUME holder \in Operation, holder.todo # <<>>, NEW ok \in BOOLEAN, NEW n \in 0..2,
             GoOn(ok, n)
      PROVE  Careful(holder'.todo)
  BY <1>2, CarefulGoes, Busy
<1>3. ASSUME holder.op \in Op, holder.op.word \in Targets(holder.op.kind)
      PROVE  Careful(Script(holder.op))
  BY <1>3, CarefulScript DEF Typed, TypeOK
<1> QED
  BY <1>1, <1>2, <1>3, Goes

\* A release that is due comes next, or after the hold; one that is begun is due.
LEMMA ReleaseFollows ==
  ASSUME holder \in Operation, NEW ok \in BOOLEAN, holder.todo # <<>>, NEW w,
         Releasing(holder.todo, w)
  PROVE  /\ Now.do = "hold" \/ Releases(Now, w)
         /\ Now.do = "hold" /\ GoOn(ok, 0) => Releasing(holder'.todo, w)
<1>1. Now = holder.todo[1] /\ Len(holder.todo) \in Nat
  BY HeadIsFirst
<1>2. ASSUME Now.do = "hold", GoOn(ok, 0) PROVE Releasing(holder'.todo, w)
  <2>1. Len(holder.todo) >= 2 /\ Releases(holder.todo[2], w)
    BY <1>1, <1>2 DEF Releasing, Releases
  <2>2. Len(holder'.todo) = Len(holder.todo) - 1 /\ 1 \in 1..Len(holder'.todo)
    BY <1>1, <1>2, <2>1, Rest
  <2>3. holder'.todo[1] = holder.todo[2]
    BY <1>2, <2>2, Rest
  <2> QED
    BY <1>1, <2>1, <2>2, <2>3 DEF Releasing
<1> QED
  BY <1>1, <1>2 DEF Releasing

LEMMA LatchFollows ==
  ASSUME holder \in Operation, NEW ok \in BOOLEAN, holder.todo # <<>>,
         Careful(holder.todo), Latching(Now), GoOn(ok, 0)
  PROVE  Releasing(holder'.todo, Now.word)
<1>1. Now = holder.todo[1] /\ Len(holder.todo) \in Nat /\ 1 \in 1..Len(holder.todo)
  BY HeadIsFirst
<1>2. /\ 3 <= Len(holder.todo) /\ holder.todo[2].do = "hold"
      /\ Releases(holder.todo[3], Now.word)
  BY <1>1 DEF Careful
<1>3. /\ Len(holder'.todo) = Len(holder.todo) - 1
      /\ holder'.todo[1] = holder.todo[2] /\ holder'.todo[2] = holder.todo[3]
  BY <1>1, <1>2, Rest
<1> QED
  BY <1>1, <1>2, <1>3 DEF Releasing

LEMMA UnlatchedStep ==
  ASSUME Typed, Unlatched, Step PROVE Unlatched'
<1> SUFFICES ASSUME NEW w \in ButtonWords \ unsure', word'[w] # 0, ~Jogging(w)'
             PROVE  holder' # NoOp /\ Releasing(holder'.todo, w)
  BY CarefulStep DEF Unlatched
<1>1. ASSUME word[w] # 0, ~Jogging(w), w \notin unsure
      PROVE  holder # NoOp /\ Releasing(holder.todo, w)
  BY <1>1 DEF Unlatched
<1>2. ASSUME NEW do, Doing(do)
      PROVE  /\ holder \in Operation /\ holder.todo # <<>> /\ holder.ok \in BOOLEAN
             /\ Now.do = do /\ Careful(holder.todo)
             /\ Now.word \in Words /\ Now.val \in 0..2 /\ Now.skip \in 0..2
  <2>1. holder \in Operation /\ holder.todo # <<>> /\ Now \in Instruction /\ Now.do = do
        /\ holder # NoOp
    BY <1>2, First DEF Typed, TypeOK, Operation
  <2> QED
    BY <2>1 DEF Operation, Instruction, Unlatched
<1>3. CASE HoldOrRead
  <2>1. holder # NoOp /\ Releasing(holder.todo, w)
    BY <1>1, <1>3 DEF HoldOrRead, Jogging
  <2>2. Now.do = "hold" /\ Releasing(holder'.todo, w)
    BY <1>2, <1>3, <2>1, ReleaseFollows DEF HoldOrRead, Releases
  <2>3. holder' # NoOp
    BY <1>2, <1>3, Rest, Busy DEF HoldOrRead
  <2> QED
    BY <2>2, <2>3
<1>4. CASE WriteDone
  <2>1. w \in Words /\ word' = [word EXCEPT ![Now.word] = Now.val]
    BY <1>4, Apart DEF WriteDone, ButtonWords
  <2>2. holder' # NoOp
    BY <1>2, <1>4, Rest, Busy DEF WriteDone
  <2>3. CASE w = Now.word
    <3>1. Latching(Now)
      BY <1>2, <1>4, <2>1, <2>3 DEF WriteDone, Latching, Jogging, Typed, TypeOK
    <3> QED
      BY <1>2, <1>4, <2>2, <2>3, <3>1, LatchFollows DEF WriteDone
  <2>4. CASE w # Now.word
    <3>1. holder # NoOp /\ Releasing(holder.todo, w)
      BY <1>1, <1>4, <2>1, <2>4 DEF WriteDone, Jogging, Typed, TypeOK
    <3> QED
      BY <1>2, <1>4, <2>4, <3>1, ReleaseFollows DEF WriteDone, Releases
  <2> QED
    BY <2>3, <2>4
<1>5. CASE WriteRefused \/ (Exception /\ Doing("write"))
  <2>1. w # Now.word /\ w \notin unsure
    BY <1>5 DEF WriteRefused, Exception, Doubted
  <2>2. word'[w] = word[w]
    BY <1>2, <1>5, <2>1, Apart DEF WriteRefused, Exception, ButtonWords, Typed, TypeOK
  <2>3. Releasing(holder.todo, w)
    BY <1>1, <2>1, <2>2 DEF Jogging
  <2> QED
    BY <1>2, <1>5, <2>1, <2>3, ReleaseFollows DEF WriteRefused, Exception, Releases
<1>6. CASE ConnectFail
  BY <1>6 DEF ConnectFail
<1>7. CASE Release
  <2>1. Releasing(holder.todo, w)
    BY <1>1, <1>7 DEF Release, Jogging
  <2> QED
    BY <1>7, <2>1 DEF Release, Releasing
<1>8. CASE \/ Connect \/ ReadRefused \/ ScreenException \/ Reset \/ Arm \/ Disarm
           \/ Exception /\ Doing("read")
  <2>1. Releasing(holder.todo, w)
    BY <1>1, <1>8 DEF Connect, ReadRefused, ScreenException, Reset, Arm, Disarm, Exception,
                      Jogging, Doing
  <2>2. \E do \in {"connect", "read", "reset", "arm", "disarm"} : Doing(do)
    BY <1>8 DEF Connect, ReadRefused, ScreenException, Reset, Arm, Disarm
  <2> QED
    BY <1>2, <2>1, <2>2, ReleaseFollows DEF Releases
<1> QED
  BY <1>3, <1>4, <1>5, <1>6, <1>7, <1>8 DEF Step, Exception

LEMMA UnlatchedAcquire ==
  ASSUME Typed, Unlatched, NEW op \in Op, op.word \in Targets(op.kind), Acquire(op)
  PROVE  Unlatched'
<1>1. ASSUME holder' # NoOp PROVE Careful(holder'.todo)
  <2>1. Careful(Script(op))
    BY CarefulScript DEF Typed, TypeOK
  <2>2. Careful(<<Other("connect", op.word)>>)
    <3>1. ~Latching(Other("connect", op.word))
      BY DEF Latching, Other
    <3> QED
      BY <3>1 DEF Careful
  <2> DEFINE todo == IF sock THEN Script(op) ELSE <<Other("connect", op.word)>>
  <2>3. holder' = [op |-> op, ok |-> TRUE, todo |-> todo] /\ Careful(todo)
    BY <1>1, <2>1, <2>2 DEF Acquire
  <2> HIDE DEF todo
  <2> QED
    BY <2>3
<1>2. holder = NoOp /\ word' = word /\ (unsure' = unsure \/ unsure' = ButtonWords)
  BY DEF Acquire
<1> QED
  BY <1>1, <1>2 DEF Unlatched, Jogging

LEMMA UnlatchedNext ==
  ASSUME Typed, Unlatched, [Next]_vars PROVE Unlatched'
<1>1. ASSUME NEW op \in Op, Request(op) PROVE Unlatched'
  BY <1>1, UnlatchedAcquire DEF Request
<1>2. CASE DeadmanAcquire
  <2>1. Deadman \in Op /\ Deadman.word \in Targets(Deadman.kind)
    BY Apart DEF Deadman, Op, Kind, Targets
  <2> QED
    BY <1>2, <2>1, UnlatchedAcquire DEF DeadmanAcquire
<1>3. CASE Step
  BY <1>3, UnlatchedStep
<1>4. CASE Peek \/ Tick \/ UNCHANGED vars
  BY <1>4 DEF Peek, Tick, vars, Unlatched, Jogging
<1> QED
  BY <1>1, <1>2, <1>3, <1>4 DEF Next

\* A pushbutton stays set only if its release failed, whatever requests are lost or
\* refused: what is set between operations is a jog.
THEOREM NothingLatched == Spec => []NeverLatched
<1>1. Init => Typed /\ Unlatched
  <2>1. ASSUME Init PROVE \A w \in ButtonWords : word[w] = 0
    BY <2>1, Apart DEF Init, ButtonWords
  <2> QED
    BY <2>1, Started DEF Init, Unlatched
<1>2. Typed /\ Unlatched /\ [Next]_vars => Typed' /\ Unlatched'
  BY TypedNext, UnlatchedNext
<1>3. Unlatched => NeverLatched
  BY DEF Unlatched, NeverLatched, Jogging, ButtonWords
<1> QED
  BY <1>1, <1>2, <1>3, PTL DEF Spec

-----------------------------------------------------------------------------
(* A reply that claims success *)

\* What an operation that succeeds leaves in which word; Lax: the last answer to it
\* does not count.
Owes(op, w, v) ==
  \/ op.kind \in {"press", "machine", "amrPulse", "amrClear", "stop", "jogStop"} /\ w = op.word /\ v = 0
  \/ op.kind \in {"start", "amrSet"} /\ w = op.word /\ v = 1
  \/ op.kind = "amrMoving" /\ w = op.word /\ v = 2
  \/ op.kind = "startBoth" /\ w \in StartWords /\ v = 1
  \/ op.kind = "stopBoth" /\ w \in StartWords /\ v = 0
Lax(op) == op.kind \in {"press", "machine", "jogStop"}

Writes(i, w) == i.do = "write" /\ i.word = w
Spares(t, w) == \A k \in 1..Len(t) : ~Writes(t[k], w)

\* The script t will leave v in w: its last write there does, and is not skipped
\* unless the operation fails.
Leaves(t, w, v, lax) ==
  \E k \in 1..Len(t) :
    /\ Writes(t[k], w) /\ t[k].val = v /\ (lax \/ t[k].counts)
    /\ \A i \in (k + 1)..Len(t) : ~Writes(t[i], w)
    /\ \A i \in 1..(k - 1) : t[i].counts \/ t[i].skip = 0

Pending(t) == Len(t) = 1 /\ t[1].do = "connect"
Pays(w, v, lax) ==
  \/ Leaves(holder.todo, w, v, lax)
  \/ Spares(holder.todo, w) /\ (word[w] = v \/ (lax /\ w \in unsure))

\* The stages of a jog that may succeed.
Jogs(w) ==
  \/ Setting(holder.todo, w) \/ \E v \in AxisWords : Switching(holder.todo, v, w)
  \/ Arming(holder.todo, w) /\ word[w] = JogBit
  \/ holder.todo = <<>> /\ word[w] = JogBit /\ Armed(w)

Honest ==
  holder # NoOp /\ holder.ok /\ ~Pending(holder.todo) =>
    /\ \A w \in Words, v \in 0..2 : Owes(holder.op, w, v) => Pays(w, v, Lax(holder.op))
    /\ holder.op.kind = "jogStart" => Jogs(holder.op.word)

LEMMA LeavesThenReads ==
  ASSUME NEW s \in Seq(Instruction), NEW r \in Seq(Reading), NEW w, NEW v, NEW lax,
         Leaves(s, w, v, lax)
  PROVE  Leaves(s \o r, w, v, lax)
<1>1. r \in Seq(Instruction)
  BY DEF Reading
<1>2. /\ Len(s \o r) = Len(s) + Len(r) /\ Len(s) \in Nat /\ Len(r) \in Nat
      /\ \A k \in 1..(Len(s) + Len(r)) :
           (s \o r)[k] = IF k <= Len(s) THEN s[k] ELSE r[k - Len(s)]
  BY <1>1, ConcatProperties
<1>3. PICK k \in 1..Len(s) :
        /\ Writes(s[k], w) /\ s[k].val = v /\ (lax \/ s[k].counts)
        /\ \A i \in (k + 1)..Len(s) : ~Writes(s[i], w)
        /\ \A i \in 1..(k - 1) : s[i].counts \/ s[i].skip = 0
  BY DEF Leaves
<1>4. k \in 1..Len(s \o r) /\ (s \o r)[k] = s[k]
  BY <1>2
<1>5. ASSUME NEW i \in (k + 1)..Len(s \o r) PROVE ~Writes((s \o r)[i], w)
  <2>1. CASE i <= Len(s)
    <3>1. i \in (k + 1)..Len(s) /\ (s \o r)[i] = s[i]
      BY <1>2, <2>1
    <3> QED
      BY <1>3, <3>1
  <2>2. CASE i > Len(s)
    <3>1. i - Len(s) \in 1..Len(r) /\ (s \o r)[i] = r[i - Len(s)]
      BY <1>2, <2>2
    <3> QED
      BY <3>1, ReadAt DEF Writes
  <2> QED
    BY <1>2, <2>1, <2>2
<1>6. ASSUME NEW i \in 1..(k - 1) PROVE (s \o r)[i].counts \/ (s \o r)[i].skip = 0
  <2>1. i \in 1..(Len(s) + Len(r)) /\ i <= Len(s)
    BY <1>2
  <2> QED
    BY <1>2, <1>3, <2>1
<1> QED
  BY <1>3, <1>4, <1>5, <1>6 DEF Leaves

\* Every script leaves what the operation owes.
LEMMA PressLeaves ==
  ASSUME NEW w \in Words
  PROVE  Leaves(Press(w), w, 0, TRUE) /\ Leaves(Press(w) \o MachineStatus(w), w, 0, TRUE)
<1> DEFINE a == Write(w, ButtonBit, TRUE, 2)
           b == Other("hold", w)
           c == Write(w, 0, FALSE, 0)
<1>1. a.counts /\ b.skip = 0 /\ Writes(c, w) /\ c.val = 0
  BY DEF Write, Other, Writes
<1> HIDE DEF a, b, c
<1>2. Leaves(<<a, b, c>>, w, 0, TRUE)
  <2> DEFINE t == <<a, b, c>>
  <2>1. Len(t) = 3 /\ t[1] = a /\ t[2] = b /\ t[3] = c
    OBVIOUS
  <2> HIDE DEF t
  <2>2. 3 \in 1..Len(t) /\ \A i \in 1..(3 - 1) : t[i].counts \/ t[i].skip = 0
    BY <1>1, <2>1
  <2>3. \A i \in (3 + 1)..Len(t) : ~Writes(t[i], w)
    BY <2>1
  <2>4. Leaves(t, w, 0, TRUE)
    BY <1>1, <2>1, <2>2, <2>3 DEF Leaves
  <2> QED
    BY <2>4 DEF t
<1>3. Press(w) = <<a, b, c>>
  BY DEF Press, a, b, c
<1> QED
  BY <1>2, <1>3, PulseType, ReadsOnly, LeavesThenReads

LEMMA StopLeaves ==
  ASSUME NEW w \in AxisWords
  PROVE  Leaves(JogStop(w), w, 0, TRUE)
<1>1. Clearing(JogStop(w), w)
  BY StopType
<1> QED
  BY <1>1 DEF Leaves, Clearing, Writes, Write, Other

LEMMA StartLeaves ==
  ASSUME NEW w \in AmrWritable, NEW v \in 0..2
  PROVE  /\ Leaves(<<Write(w, v, TRUE, 0)>>, w, v, FALSE)
         /\ Leaves(AmrSet(w, v), w, v, FALSE) /\ Leaves(AmrPulse(w), w, 0, FALSE)
<1> DEFINE a == Write(w, v, TRUE, 0)
           b == Read(w, FALSE, 0)
           c == Other("hold", w)
           d == Write(w, 1, TRUE, 2)
           e == Write(w, 0, TRUE, 0)
<1>1. /\ Writes(a, w) /\ a.val = v /\ a.counts /\ Writes(e, w) /\ e.val = 0 /\ e.counts
      /\ ~Writes(b, w) /\ d.counts /\ c.skip = 0
  BY DEF Write, Read, Other, Writes
<1> HIDE DEF a, b, c, d, e
<1>2. Leaves(<<a>>, w, v, FALSE)
  BY <1>1 DEF Leaves
<1>3. Leaves(<<a, b>>, w, v, FALSE)
  BY <1>1 DEF Leaves
<1>4. Leaves(<<d, c, e, b>>, w, 0, FALSE)
  <2> DEFINE t == <<d, c, e, b>>
  <2>1. Len(t) = 4 /\ t[1] = d /\ t[2] = c /\ t[3] = e /\ t[4] = b
    OBVIOUS
  <2> HIDE DEF t
  <2>2. 3 \in 1..Len(t) /\ \A i \in 1..(3 - 1) : t[i].counts \/ t[i].skip = 0
    BY <1>1, <2>1
  <2>3. \A i \in (3 + 1)..Len(t) : ~Writes(t[i], w)
    BY <1>1, <2>1
  <2>4. Leaves(t, w, 0, FALSE)
    BY <1>1, <2>1, <2>2, <2>3 DEF Leaves
  <2> QED
    BY <2>4 DEF t
<1> QED
  BY <1>2, <1>3, <1>4 DEF AmrSet, AmrPulse, a, b, c, d, e

LEMMA BothLeave ==
  ASSUME NEW w \in StartWords, NEW v \in 0..2
  PROVE  Leaves(Both(v), w, v, FALSE)
<1> DEFINE a == Write(AugerWord, v, TRUE, 0)
           b == Write(PlanterWord, v, TRUE, 0)
<1>1. /\ Writes(a, AugerWord) /\ a.val = v /\ a.counts /\ a.skip = 0
      /\ Writes(b, PlanterWord) /\ b.val = v /\ b.counts /\ ~Writes(b, AugerWord)
  BY PlcAssumption DEF Write, Writes
<1> HIDE DEF a, b
<1>2. Leaves(<<a, b>>, AugerWord, v, FALSE) /\ Leaves(<<a, b>>, PlanterWord, v, FALSE)
  BY <1>1 DEF Leaves
<1> QED
  BY <1>2 DEF Both, StartWords, a, b

LEMMA ScriptLeaves ==
  ASSUME NEW op \in Op, op.word \in Targets(op.kind), NEW w \in Words, NEW v \in 0..2,
         Owes(op, w, v)
  PROVE  Leaves(Script(op), w, v, Lax(op))
<1>1. CASE op.kind \in {"press", "machine"}
  <2>1. Script(op) = Press(w) \/ Script(op) = Press(w) \o MachineStatus(w)
    BY <1>1 DEF Script, Command, Owes
  <2> QED
    BY <1>1, <2>1, PressLeaves DEF Owes, Lax
<1>2. CASE op.kind = "jogStop"
  <2>1. Script(op) = JogStop(w) /\ w \in AxisWords /\ v = 0
    BY <1>2 DEF Script, Owes, Targets
  <2> QED
    BY <1>2, <2>1, StopLeaves DEF Lax
<1>3. CASE op.kind \in {"amrPulse", "amrSet", "amrMoving", "amrClear", "start", "stop"}
  <2>1. w \in AmrWritable /\ w = op.word /\ Lax(op) = FALSE
    BY <1>3 DEF Targets, AmrWritable, Owes, Lax
  <2>2. \/ Script(op) = AmrPulse(w) /\ v = 0
        \/ Script(op) = AmrSet(w, v) \/ Script(op) = <<Write(w, v, TRUE, 0)>>
    BY <1>3, <2>1 DEF Script, Owes
  <2> QED
    BY <2>1, <2>2, StartLeaves
<1>4. CASE op.kind \in {"startBoth", "stopBoth"}
  <2>1. w \in StartWords /\ Lax(op) = FALSE
    BY <1>4 DEF Owes, Lax
  <2>2. Script(op) = Both(v)
    BY <1>4 DEF Script, Owes
  <2> QED
    BY <2>1, <2>2, BothLeave
<1> QED
  BY <1>1, <1>2, <1>3, <1>4 DEF Owes

\* What is left of a script leaves the same, unless the step was the write itself.
LEMMA SparesGoes ==
  ASSUME holder \in Operation, NEW ok \in BOOLEAN, NEW n \in Nat, holder.todo # <<>>,
         GoOn(ok, n), NEW w, Spares(holder.todo, w)
  PROVE  Spares(holder'.todo, w) /\ ~Writes(Now, w)
<1>1. \A k \in 1..Len(holder'.todo) : k + n + 1 \in 1..Len(holder.todo)
  BY Rest, HeadIsFirst
<1>2. 1 \in 1..Len(holder.todo) /\ Now = holder.todo[1]
  BY HeadIsFirst
<1> QED
  BY <1>1, <1>2, Rest DEF Spares

LEMMA LeavesGoes ==
  ASSUME holder \in Operation, NEW ok \in BOOLEAN, NEW n \in Nat, holder.todo # <<>>,
         GoOn(ok, n), NEW w, NEW v, NEW lax, Leaves(holder.todo, w, v, lax)
  PROVE  \/ /\ Writes(Now, w) /\ Now.val = v /\ (lax \/ Now.counts)
            /\ Spares(holder'.todo, w)
         \/ (Now.counts \/ Now.skip = 0) /\ (n = 0 => Leaves(holder'.todo, w, v, lax))
<1> DEFINE t == holder.todo
           r == holder'.todo
<1>1. /\ Len(t) \in Nat /\ Now = t[1]
      /\ Len(r) = IF n + 2 <= Len(t) THEN Len(t) - n - 1 ELSE 0
      /\ \A k \in 1..Len(r) : r[k] = t[k + n + 1]
  BY Rest, HeadIsFirst
<1>2. PICK k \in 1..Len(t) :
        /\ Writes(t[k], w) /\ t[k].val = v /\ (lax \/ t[k].counts)
        /\ \A i \in (k + 1)..Len(t) : ~Writes(t[i], w)
        /\ \A i \in 1..(k - 1) : t[i].counts \/ t[i].skip = 0
  BY DEF Leaves
<1> HIDE DEF t, r
<1>3. CASE k = 1
  <2>1. \A i \in 1..Len(r) : i + n + 1 \in (k + 1)..Len(t)
    BY <1>1, <1>3
  <2>2. Spares(r, w)
    BY <1>1, <1>2, <2>1 DEF Spares
  <2> QED
    BY <1>1, <1>2, <1>3, <2>2 DEF r
<1>4. CASE k > 1
  <2>1. Now.counts \/ Now.skip = 0
    BY <1>1, <1>2, <1>4
  <2>2. ASSUME n = 0 PROVE Leaves(r, w, v, lax)
    <3>1. Len(r) = Len(t) - 1 /\ \A i \in 1..Len(r) : r[i] = t[i + 1]
      BY <1>1, <1>4, <2>2
    <3> DEFINE j == k - 1
    <3>2. j \in 1..Len(r) /\ r[j] = t[k]
      BY <1>1, <1>4, <3>1
    <3>3. ASSUME NEW i \in (j + 1)..Len(r) PROVE ~Writes(r[i], w)
      <4>1. i \in 1..Len(r) /\ i + 1 \in (k + 1)..Len(t)
        BY <1>1, <1>4, <3>1
      <4> QED
        BY <1>2, <3>1, <4>1
    <3>4. ASSUME NEW i \in 1..(j - 1) PROVE r[i].counts \/ r[i].skip = 0
      <4>1. i \in 1..Len(r) /\ i + 1 \in 1..(k - 1)
        BY <1>1, <1>4, <3>1
      <4> QED
        BY <1>2, <3>1, <4>1
    <3> QED
      BY <1>2, <3>2, <3>3, <3>4 DEF Leaves
  <2> QED
    BY <2>1, <2>2 DEF r
<1> QED
  BY <1>3, <1>4

\* A step pays if it does what its instruction says, or fails where failure is laxly
\* ignored and remembered.
LEMMA PaysGoes ==
  ASSUME holder \in Operation, holder.todo # <<>>, NEW ok \in BOOLEAN, NEW n \in 0..2,
         GoOn(ok, n), Now.skip \in 0..2, NEW w, NEW v, NEW lax, Pays(w, v, lax),
         Writes(Now, w) => word'[w] = Now.val \/ (~Now.counts /\ (lax => w \in unsure')),
         ~Writes(Now, w) => word'[w] = word[w] /\ (w \in unsure => w \in unsure'),
         n = 0 \/ (n = Now.skip /\ ~Now.counts)
  PROVE  \/ Leaves(holder'.todo, w, v, lax)
         \/ Spares(holder'.todo, w) /\ (word'[w] = v \/ (lax /\ w \in unsure'))
<1>1. CASE Leaves(holder.todo, w, v, lax)
  BY <1>1, LeavesGoes
<1>2. CASE Spares(holder.todo, w) /\ (word[w] = v \/ (lax /\ w \in unsure))
  BY <1>2, SparesGoes
<1> QED
  BY <1>1, <1>2 DEF Pays

\* What comes first in a jog that may succeed.
LEMMA JogFirst ==
  ASSUME holder \in Operation, holder.todo # <<>>, NEW w \in AxisWords, Jogs(w)
  PROVE  \/ \E v \in AxisWords : Switching(holder.todo, v, w) /\ Now = Write(v, 0, FALSE, 0)
         \/ Setting(holder.todo, w) /\ Now = Write(w, JogBit, TRUE, 0)
         \/ Arming(holder.todo, w) /\ word[w] = JogBit /\ Now = Other("arm", w)
<1>1. Now = holder.todo[1]
  BY HeadIsFirst
<1> QED
  BY <1>1 DEF Jogs, Switching, Setting, Arming

LEMMA HonestConnect ==
  ASSUME Typed, Connect PROVE Honest'
<1>1. holder \in Operation /\ holder.op \in Op /\ holder.op.word \in Targets(holder.op.kind)
  BY DEF Connect, Doing, Typed, TypeOK, Operation, Scripted
<1>2. jog # NoJog => jog.word \in AxisWords
  BY DEF Typed, TypeOK
<1>3. holder'.op = holder.op /\ holder'.todo = Script(holder.op)
  BY <1>1 DEF Connect, Operation
<1>4. \A w \in Words, v \in 0..2 :
        Owes(holder.op, w, v) => Leaves(Script(holder.op), w, v, Lax(holder.op))
  BY <1>1, ScriptLeaves
<1>5. ASSUME holder.op.kind = "jogStart"
      PROVE  \/ Setting(Script(holder.op), holder.op.word)
             \/ \E v \in AxisWords : Switching(Script(holder.op), v, holder.op.word)
  <2>1. Script(holder.op) = JogStart(holder.op.word) /\ holder.op.word \in AxisWords
    BY <1>1, <1>5 DEF Script, Targets
  <2> QED
    BY <1>2, <2>1, JogType
<1> QED
  BY <1>3, <1>4, <1>5 DEF Honest, Pays, Jogs

LEMMA HonestStep ==
  ASSUME Typed, Honest, Step PROVE Honest'
<1>1. CASE Connect
  BY <1>1, HonestConnect
<1>2. CASE ConnectFail \/ Exception \/ Release
  BY <1>2 DEF ConnectFail, Exception, Release, Honest
<1>3. CASE ScreenException
  <2>1. holder \in Operation
    BY <1>3 DEF ScreenException, Doing, Typed, TypeOK, Operation
  <2>2. ~holder'.ok
    BY <1>3, <2>1 DEF ScreenException, Operation
  <2> QED
    BY <2>2 DEF Honest
<1>4. ASSUME NEW do, Doing(do), do # "connect", NEW ok \in BOOLEAN, NEW n \in 0..2,
             GoOn(ok, n), ok => holder.ok, n = 0 \/ (n = Now.skip /\ (ok => ~Now.counts)),
             \A w \in Words : Writes(Now, w) =>
               \/ word'[w] = Now.val
               \/ (ok => ~Now.counts) /\ (w \in ButtonWords => w \in unsure'),
             \A w \in Words : ~Writes(Now, w) =>
               word'[w] = word[w] /\ (w \in unsure => w \in unsure'),
             do = "arm" => jog' = [word |-> Now.word, age |-> 0]
      PROVE  Honest'
  <2>1. /\ holder \in Operation /\ holder # NoOp /\ holder.todo # <<>>
        /\ Now \in Instruction /\ Now.do = do
    BY <1>4, First DEF Typed, TypeOK, Operation
  <2>2. ~Pending(holder.todo) /\ Now.skip \in 0..2
    BY <1>4, <2>1, HeadIsFirst DEF Pending, Instruction
  <2>3. holder' \in Operation /\ holder'.op = holder.op /\ holder'.ok = ok
    BY <1>4, <2>1, Rest
  <2> SUFFICES ASSUME ok
               PROVE  /\ \A w \in Words, v \in 0..2 : Owes(holder.op, w, v) =>
                           \/ Leaves(holder'.todo, w, v, Lax(holder.op))
                           \/ /\ Spares(holder'.todo, w)
                              /\ word'[w] = v \/ (Lax(holder.op) /\ w \in unsure')
                      /\ holder.op.kind = "jogStart" => Jogs(holder.op.word)'
    BY <2>3 DEF Honest, Pays
  <2>4. /\ \A w \in Words, v \in 0..2 :
             Owes(holder.op, w, v) => Pays(w, v, Lax(holder.op))
        /\ holder.op.kind = "jogStart" => Jogs(holder.op.word)
    BY <1>4, <2>1, <2>2 DEF Honest
  <2>5. holder.op.word \in Targets(holder.op.kind)
    BY <2>1 DEF Typed, Scripted
  <2>6. ASSUME NEW w \in Words, NEW v \in 0..2, Owes(holder.op, w, v)
        PROVE  \/ Leaves(holder'.todo, w, v, Lax(holder.op))
               \/ /\ Spares(holder'.todo, w)
                  /\ word'[w] = v \/ (Lax(holder.op) /\ w \in unsure')
    <3>1. Lax(holder.op) => w \in ButtonWords
      BY <2>5, <2>6 DEF Lax, Owes, Targets, ButtonWords, CommandWords
    <3>2. Pays(w, v, Lax(holder.op))
      BY <2>4, <2>6
    <3> DEFINE lax == Lax(holder.op)
    <3>3. lax => w \in ButtonWords
      BY <3>1
    <3>4. Pays(w, v, lax)
      BY <3>2
    <3> HIDE DEF lax
    <3>5. Writes(Now, w) => word'[w] = Now.val \/ (~Now.counts /\ (lax => w \in unsure'))
      BY <1>4, <3>3
    <3>6. ~Writes(Now, w) => word'[w] = word[w] /\ (w \in unsure => w \in unsure')
      BY <1>4
    <3>7. \/ Leaves(holder'.todo, w, v, lax)
          \/ Spares(holder'.todo, w) /\ (word'[w] = v \/ (lax /\ w \in unsure'))
      BY <1>4, <2>1, <2>2, <3>4, <3>5, <3>6, PaysGoes
    <3> QED
      BY <3>7 DEF lax
  <2>7. ASSUME holder.op.kind = "jogStart" PROVE Jogs(holder.op.word)'
    <3> DEFINE w == holder.op.word
    <3>1. w \in AxisWords /\ Jogs(w)
      BY <2>4, <2>5, <2>7 DEF Targets
    <3> HIDE DEF w
    <3>2. ASSUME NEW v \in AxisWords, Switching(holder.todo, v, w), Now = Write(v, 0, FALSE, 0)
          PROVE  Setting(holder'.todo, w)
      <4>1. n = 0
        BY <1>4, <3>2 DEF Write
      <4> QED
        BY <1>4, <2>1, <3>1, <3>2, <4>1, NextShape
    <3>3. ASSUME Setting(holder.todo, w), Now = Write(w, JogBit, TRUE, 0)
          PROVE  Arming(holder'.todo, w) /\ word'[w] = JogBit
      <4>1. n = 0 /\ Writes(Now, w) /\ Now.val = JogBit /\ Now.counts
        BY <1>4, <3>3 DEF Write, Writes
      <4>2. word'[w] = JogBit
        BY <1>4, <3>1, <4>1, Apart
      <4> QED
        BY <1>4, <2>1, <3>1, <3>3, <4>1, <4>2, NextShape
    <3>4. ASSUME Arming(holder.todo, w), word[w] = JogBit, Now = Other("arm", w)
          PROVE  holder'.todo = <<>> /\ word'[w] = JogBit /\ jog'.word = w /\ jog' # NoJog
      <4>1. do = "arm" /\ Now.word = w /\ ~Writes(Now, w) /\ n = 0
        BY <1>4, <2>1, <3>4 DEF Other, Writes
      <4>2. Len(holder.todo) = 1
        BY <3>4 DEF Arming
      <4>3. Len(holder'.todo) = 0
        <5>1. n \in Nat /\ ~(n + 2 <= Len(holder.todo))
          BY <4>1, <4>2
        <5> QED
          BY <1>4, <2>1, <5>1, Rest
      <4>4. holder'.todo = <<>>
        BY <2>3, <4>3, EmptySeq DEF Operation
      <4>5. jog' \in [word : AxisWords, age : 0..(JogDeadman + 1)]
        BY <1>4, <3>1, <4>1, Limits
      <4> QED
        BY <1>4, <3>1, <3>4, <4>1, <4>4, <4>5, Apart, JogBusy
    <3>5. \/ Setting(holder'.todo, w)
          \/ Arming(holder'.todo, w) /\ word'[w] = JogBit
          \/ holder'.todo = <<>> /\ word'[w] = JogBit /\ jog'.word = w /\ jog' # NoJog
      <4>1. \/ \E v \in AxisWords :
                 Switching(holder.todo, v, w) /\ Now = Write(v, 0, FALSE, 0)
            \/ Setting(holder.todo, w) /\ Now = Write(w, JogBit, TRUE, 0)
            \/ Arming(holder.todo, w) /\ word[w] = JogBit /\ Now = Other("arm", w)
        BY <2>1, <3>1, JogFirst
      <4> QED
        BY <3>2, <3>3, <3>4, <4>1
    <3> QED
      BY <2>3, <3>5 DEF Jogs, Armed, w
  <2> QED
    BY <2>6, <2>7
<1>5. CASE WriteDone
  <2>1. Doing("write") /\ GoOn(holder.ok, 0) /\ holder.ok \in BOOLEAN /\ Now.do = "write"
    BY <1>5, First DEF WriteDone
  <2>2. \A w \in Words : Writes(Now, w) => word'[w] = Now.val
    BY <1>5 DEF WriteDone, Writes, Typed, TypeOK
  <2>3. \A w \in Words : ~Writes(Now, w) =>
          word'[w] = word[w] /\ (w \in unsure => w \in unsure')
    BY <1>5, <2>1 DEF WriteDone, Writes, Typed, TypeOK
  <2> QED
    BY <1>4, <2>1, <2>2, <2>3
<1>6. CASE WriteRefused
  <2> DEFINE ok == holder.ok /\ ~Now.counts
  <2>1. /\ Doing("write") /\ GoOn(ok, Now.skip) /\ holder.ok \in BOOLEAN
        /\ Now.do = "write" /\ Now \in Instruction
    BY <1>6, First DEF WriteRefused
  <2>2. ok \in BOOLEAN /\ Now.skip \in 0..2 /\ (ok => holder.ok) /\ (ok => ~Now.counts)
    BY <2>1 DEF Instruction
  <2>3. \A w \in Words : Writes(Now, w) => (w \in ButtonWords => w \in unsure')
    BY <1>6 DEF WriteRefused, Writes, Doubted
  <2>4. word' = word /\ unsure \subseteq unsure'
    BY <1>6 DEF WriteRefused
  <2> HIDE DEF ok
  <2> QED
    BY <1>4, <2>1, <2>2, <2>3, <2>4
<1>7. CASE ReadRefused
  <2> DEFINE ok == holder.ok /\ ~Now.counts
  <2>1. /\ Doing("read") /\ GoOn(ok, Now.skip) /\ holder.ok \in BOOLEAN
        /\ Now.do = "read" /\ Now \in Instruction
    BY <1>7, First DEF ReadRefused
  <2>2. ok \in BOOLEAN /\ Now.skip \in 0..2 /\ (ok => holder.ok) /\ (ok => ~Now.counts)
    BY <2>1 DEF Instruction
  <2>3. word' = word /\ unsure' = unsure /\ \A w : ~Writes(Now, w)
    BY <1>7, <2>1 DEF ReadRefused, Writes
  <2> HIDE DEF ok
  <2> QED
    BY <1>4, <2>1, <2>2, <2>3
<1>8. CASE HoldOrRead \/ Reset \/ Arm \/ Disarm
  <2>1. PICK do \in {"hold", "read", "reset", "arm", "disarm"} :
          /\ Doing(do) /\ GoOn(holder.ok, 0)
          /\ do = "arm" => jog' = [word |-> Now.word, age |-> 0]
    <3>1. Doing("arm") => ~HoldOrRead /\ ~Reset /\ ~Disarm
      BY DEF HoldOrRead, Reset, Disarm, Doing
    <3> QED
      BY <1>8, <3>1 DEF HoldOrRead, Reset, Arm, Disarm
  <2>2. holder.ok \in BOOLEAN /\ Now.do = do
    BY <2>1, First
  <2>3. word' = word /\ unsure' = unsure /\ \A w : ~Writes(Now, w)
    BY <1>8, <2>2 DEF HoldOrRead, Reset, Arm, Disarm, Writes
  <2> QED
    BY <1>4, <2>1, <2>2, <2>3
<1> QED
  BY <1>1, <1>2, <1>3, <1>5, <1>6, <1>7, <1>8 DEF Step

LEMMA HonestAcquire ==
  ASSUME Typed, NEW op \in Op, op.word \in Targets(op.kind), Acquire(op)
  PROVE  Honest'
<1>1. ASSUME holder' # NoOp, ~sock PROVE Pending(holder'.todo)
  <2> DEFINE todo == <<Other("connect", op.word)>>
  <2>1. holder' = [op |-> op, ok |-> TRUE, todo |-> todo]
    BY <1>1 DEF Acquire
  <2>2. Pending(todo)
    BY DEF Pending, Other
  <2> HIDE DEF todo
  <2> QED
    BY <2>1, <2>2
<1>2. ASSUME holder' # NoOp, sock PROVE holder'.op = op /\ holder'.todo = Script(op)
  BY <1>2 DEF Acquire
<1>3. \A w \in Words, v \in 0..2 :
        Owes(op, w, v) => Leaves(Script(op), w, v, Lax(op))
  BY ScriptLeaves
<1>4. ASSUME op.kind = "jogStart"
      PROVE  \/ Setting(Script(op), op.word)
             \/ \E v \in AxisWords : Switching(Script(op), v, op.word)
  <2>1. Script(op) = JogStart(op.word) /\ op.word \in AxisWords
    BY <1>4 DEF Script, Targets
  <2> QED
    BY <2>1, JogType DEF Typed, TypeOK
<1> QED
  BY <1>1, <1>2, <1>3, <1>4 DEF Honest, Pays, Jogs

LEMMA HonestNext ==
  ASSUME Typed, Honest, [Next]_vars PROVE Honest'
<1>1. ASSUME NEW op \in Op, Request(op) PROVE Honest'
  BY <1>1, HonestAcquire DEF Request
<1>2. CASE DeadmanAcquire
  <2>1. Deadman \in Op /\ Deadman.word \in Targets(Deadman.kind)
    BY Apart DEF Deadman, Op, Kind, Targets
  <2> QED
    BY <1>2, <2>1, HonestAcquire DEF DeadmanAcquire
<1>3. CASE Step
  BY <1>3, HonestStep
<1>4. CASE Peek \/ UNCHANGED vars
  BY <1>4 DEF Peek, vars, Honest, Pays, Jogs, Armed
<1>5. CASE Tick
  <2>1. UNCHANGED <<holder, word, unsure>>
    BY <1>5 DEF Tick
  <2>2. ASSUME NEW w, Armed(w) PROVE Armed(w)'
    <3>1. jog \in [word : AxisWords, age : 0..(JogDeadman + 1)] /\ jog # NoJog
      BY <2>2 DEF Typed, TypeOK, Armed
    <3>2. jog' \in [word : AxisWords, age : 0..(JogDeadman + 1)] /\ jog'.word = jog.word
      BY <1>5, <3>1, Limits DEF Tick, Lapsed
    <3> QED
      BY <2>2, <3>2, JogBusy DEF Armed
  <2> QED
    BY <2>1, <2>2 DEF Honest, Pays, Jogs
<1> QED
  BY <1>1, <1>2, <1>3, <1>4, <1>5 DEF Next

\* An operation that is over has paid what it owes.
LEMMA Paid ==
  ASSUME Typed, Honest, Release, holder.ok, ~Loose(holder.op)
  PROVE  Effect(holder.op)
<1>1. holder # NoOp /\ holder.todo = <<>> /\ ~Pending(holder.todo)
  BY DEF Release, Pending
<1>2. holder.op \in Op /\ holder.op.word \in Targets(holder.op.kind)
  BY <1>1 DEF Typed, TypeOK, Scripted
<1>3. ASSUME NEW w \in Words, NEW v \in 0..2, Owes(holder.op, w, v) PROVE word[w] = v
  <2>1. word[w] = v \/ (Lax(holder.op) /\ w \in unsure)
    BY <1>1, <1>3 DEF Honest, Pays, Leaves
  <2>2. Lax(holder.op) => w = holder.op.word
    BY <1>3 DEF Lax, Owes
  <2> QED
    BY <2>1, <2>2 DEF Loose, Lax
<1>4. holder.op.kind = "jogStart" => word[holder.op.word] = JogBit /\ Armed(holder.op.word)
  BY <1>1 DEF Honest, Jogs, Setting, Switching, Arming
<1>5. holder.op.word \in Words
  BY <1>2 DEF Op
<1>6. AugerWord \in Words /\ PlanterWord \in Words
        /\ AugerWord \in StartWords /\ PlanterWord \in StartWords
  BY Apart
<1> QED
  BY <1>3, <1>4, <1>5, <1>6 DEF Effect, Owes

\* A reply that claims success tells the truth about the words of the PLC and the
\* deadman, whatever requests are lost or refused: only the operations known to
\* ignore the answer to the release of a button may claim it when that is in doubt.
THEOREM SuccessHolds == Spec => []SuccessIsReal
<1>1. Init => Typed /\ Honest /\ SuccessIsReal
  BY Started DEF Init, Honest, SuccessIsReal
<1>2. Typed /\ Honest /\ SuccessIsReal /\ [Next]_vars => Typed' /\ Honest' /\ SuccessIsReal'
  <2> SUFFICES ASSUME Typed, Honest, SuccessIsReal, [Next]_vars PROVE SuccessIsReal'
    BY TypedNext, HonestNext
  <2>1. CASE Release
    <3>1. /\ reply' = [op |-> holder.op, success |-> holder.ok]
          /\ UNCHANGED <<word, jog, unsure>>
      BY <2>1 DEF Release, Reply
    <3>2. holder.ok /\ ~Loose(holder.op) => Effect(holder.op)
      BY <2>1, Paid
    <3> QED
      BY <3>1, <3>2 DEF SuccessIsReal, Effect, Loose, Armed
  <2>2. CASE ConnectFail \/ Exception
    BY <2>2 DEF ConnectFail, Exception, Reply, SuccessIsReal
  <2>3. CASE DeadmanAcquire \/ \E op \in Op : Request(op)
    BY <2>3 DEF DeadmanAcquire, Request, Acquire, Reply, SuccessIsReal
  <2>4. CASE Peek \/ UNCHANGED vars
    BY <2>4 DEF Peek, vars, SuccessIsReal, Effect, Loose, Armed
  <2>5. CASE Tick
    BY <2>5 DEF Tick, SuccessIsReal
  <2>6. CASE Step /\ ~Release /\ ~ConnectFail /\ ~Exception
    <3>1. ASSUME NEW do, Doing(do)
          PROVE  /\ holder \in Operation /\ holder.todo # <<>> /\ holder.ok \in BOOLEAN
                 /\ Now.skip \in 0..2 /\ (holder.ok /\ ~Now.counts) \in BOOLEAN
      <4>1. holder \in Operation /\ holder.todo # <<>> /\ Now \in Instruction
        BY <3>1, First DEF Typed, TypeOK, Operation
      <4> QED
        BY <4>1 DEF Operation, Instruction
    <3>2. holder' # NoOp
      <4>1. CASE Connect \/ ScreenException
        <5>1. holder \in Operation
          BY <4>1 DEF Connect, ScreenException, Doing, Typed, TypeOK, Operation
        <5>2. DOMAIN holder = {"op", "ok", "todo"} /\ DOMAIN holder' = DOMAIN holder
          BY <4>1, <5>1 DEF Connect, ScreenException, Operation
        <5>3. DOMAIN NoOp = 1..0 /\ 1..0 = {}
          BY DEF NoOp
        <5> QED
          BY <5>2, <5>3
      <4>2. CASE WriteDone \/ HoldOrRead \/ Reset \/ Arm \/ Disarm
        <5>1. \E do : Doing(do) /\ GoOn(holder.ok, 0)
          BY <4>2 DEF WriteDone, HoldOrRead, Reset, Arm, Disarm
        <5> QED
          BY <3>1, <5>1, Rest, Busy
      <4>3. CASE WriteRefused \/ ReadRefused
        <5> DEFINE ok == holder.ok /\ ~Now.counts
        <5>1. \E do : Doing(do) /\ GoOn(ok, Now.skip)
          BY <4>3 DEF WriteRefused, ReadRefused
        <5>2. ok \in BOOLEAN /\ Now.skip \in Nat /\ holder \in Operation /\ holder.todo # <<>>
          BY <3>1, <5>1
        <5> HIDE DEF ok
        <5> QED
          BY <5>1, <5>2, Rest, Busy
      <4> QED
        BY <2>6, <4>1, <4>2, <4>3 DEF Step
    <3> QED
      BY <3>2 DEF SuccessIsReal
  <2> QED
    BY <2>1, <2>2, <2>3, <2>4, <2>5, <2>6 DEF Next
<1> QED
  BY <1>1, <1>2, PTL DEF Spec

-----------------------------------------------------------------------------
(* A held jog is a deadman *)

\* The words as far as they are known: one in doubt counts as stopped.
Sure == [w \in Words |-> IF w \in unsure THEN 0 ELSE word[w]]

\* The lock was taken by a jog at the operator's last word; nothing else starts one.
Paced ==
  holder # NoOp =>
    IF holder.op.kind = "jogStart" THEN asked <= busy ELSE Calm(holder.todo)

\* The deadman thread has the lock and is going to clear w.
Ending(w) ==
  /\ holder # NoOp /\ holder.op.kind = "deadman"
  /\ Doing("connect") \/ Clearing(holder.todo, w)

\* A jog that moves was armed in time, and after its expiry the deadman thread is
\* on its way to the lock, or has it.
Expiry == Fresh + JogDeadman + 1
Due(w) ==
  IF Lapsed THEN \/ asked <= Expiry + checked
                 \/ Ending(w) /\ asked <= Expiry + CheckSlack + busy
  ELSE asked <= Fresh + jog.age
Timely == \A w \in AxisWords : Held(jog, w) /\ Sure[w] = JogBit => Due(w)

\* In the cooldown of a failed connect every word of an axis is in doubt.
Cut == ~sock /\ retry > 0 => holder = NoOp /\ unsure = ButtonWords

HoldInv == Safe(holder, jog, Sure) /\ Paced /\ Timely /\ Cut

LEMMA SureIs ==
  ASSUME NEW w \in AxisWords
  PROVE  /\ Sure[w] = JogBit <=> w \notin unsure /\ word[w] = JogBit
         /\ Sure'[w] = JogBit <=> w \notin unsure' /\ word'[w] = JogBit
BY Apart DEF Sure, JogBit

\* An axis is known to move if it was, or after a write that was answered.
LEMMA SureStep ==
  ASSUME Typed, Step, NEW w \in AxisWords, Sure'[w] = JogBit
  PROVE  IF w = Now.word /\ (WriteDone \/ WriteRefused)
         THEN WriteDone /\ Now.val = JogBit ELSE Sure[w] = JogBit
<1>1. w \notin unsure' /\ word'[w] = JogBit /\ w \in ButtonWords
  BY SureIs DEF ButtonWords
<1>2. ~(w = Now.word /\ WriteRefused)
  BY <1>1 DEF WriteRefused, Doubted
<1>3. ASSUME w = Now.word, WriteDone
      PROVE  Now.val = JogBit
  BY <1>1, <1>3, Apart DEF WriteDone, Typed, TypeOK
<1>4. ASSUME ~(w = Now.word /\ WriteDone)
      PROVE  w \notin unsure /\ word[w] = JogBit
  <2>1. CASE WriteDone
    BY <1>1, <1>4, <2>1, Apart DEF WriteDone, Typed, TypeOK
  <2>2. CASE Exception
    <3>1. CASE Doing("write") /\ w = Now.word
      BY <1>1, <2>2, <3>1 DEF Exception, Doubted
    <3>2. CASE ~(Doing("write") /\ w = Now.word)
      BY <1>1, <2>2, <3>2, Apart DEF Exception, Typed, TypeOK
    <3> QED
      BY <3>1, <3>2
  <2>3. CASE ~WriteDone /\ ~Exception
    BY <1>1, <2>3 DEF Step, Connect, ConnectFail, WriteRefused, HoldOrRead, ReadRefused,
       ScreenException, Reset, Arm, Disarm, Release
  <2> QED
    BY <2>1, <2>2, <2>3
<1> QED
  BY <1>2, <1>3, <1>4, SureIs

LEMMA SureOther ==
  ASSUME [Next]_vars, ~Step
  PROVE  Less(Sure, Sure') /\ (unsure' = unsure => UNCHANGED Sure)
<1>1. word' = word /\ (unsure' = unsure \/ unsure' = ButtonWords)
  BY DEF Next, Request, Peek, DeadmanAcquire, Acquire, Tick, vars
<1>2. \A w \in AxisWords : w \in ButtonWords
  BY DEF ButtonWords
<1> QED
  BY <1>1, <1>2, SureIs DEF Less, Sure

LEMMA SureSafe ==
  ASSUME Typed, Safe(holder, jog, Sure), [Next]_vars
  PROVE  Safe(holder, jog, Sure)'
<1>1. CASE Step
  BY <1>1, SureStep, SafeStep
<1>2. CASE ~Step
  BY <1>2, SureOther, SafeOther
<1> QED
  BY <1>1, <1>2

LEMMA CalmGoes ==
  ASSUME holder \in Operation, NEW ok \in BOOLEAN, NEW n \in Nat, holder.todo # <<>>,
         GoOn(ok, n), Calm(holder.todo), n = 0 \/ Plain(holder.todo)
  PROVE  Calm(holder'.todo)
<1>1. CASE Plain(holder.todo)
  BY <1>1, PlainGoes DEF Calm
<1>2. CASE n = 0
  BY <1>1, <1>2, NextShape DEF Calm
<1> QED
  BY <1>1, <1>2

\* What starts a jog or arms the deadman is not calm.
LEMMA NotCalm ==
  ASSUME holder \in Operation, holder.todo # <<>>, Calm(holder.todo)
  PROVE  /\ Now.do # "arm" /\ \A w \in AxisWords : ~Arming(holder.todo, w)
         /\ ~(Now.do = "write" /\ Now.word \in AxisWords /\ Now.val = JogBit)
<1>1. ASSUME Plain(holder.todo)
      PROVE  Harmless(Now)
  BY <1>1, HeadIsFirst DEF Plain
<1>2. ASSUME NEW v \in AxisWords, Clearing(holder.todo, v) \/ Disarming(holder.todo, v)
      PROVE  Now.do = "disarm" \/ (Now.do = "write" /\ Now.val = 0)
  BY <1>2, Firsts
<1>3. /\ Now.do # "arm"
      /\ ~(Now.do = "write" /\ Now.word \in AxisWords /\ Now.val = JogBit)
  BY <1>1, <1>2 DEF Calm, Harmless, JogBit
<1> QED
  BY <1>3, Firsts

-----------------------------------------------------------------------------
LEMMA PacedAcquire ==
  ASSUME Typed, NEW op \in Op, op.word \in Targets(op.kind), Acquire(op)
  PROVE  Paced'
<1> SUFFICES ASSUME holder' # NoOp
             PROVE  /\ holder'.op = op
                    /\ IF op.kind = "jogStart" THEN asked' <= busy' ELSE Calm(holder'.todo)
  BY DEF Paced
<1>1. jog # NoJog => jog.word \in AxisWords
  BY DEF Typed, TypeOK
<1>2. Other("connect", op.word) \in Instruction /\ Harmless(Other("connect", op.word))
  BY Apart DEF Op, Other, Instruction, Harmless
<1> DEFINE todo == IF sock THEN Script(op) ELSE <<Other("connect", op.word)>>
<1>3. op.kind # "jogStart" => Calm(todo)
  BY <1>1, <1>2, One, ScriptType DEF Calm
<1>4. holder' = [op |-> op, ok |-> TRUE, todo |-> todo]
  BY DEF Acquire
<1> HIDE DEF todo
<1>5. holder'.todo = todo /\ holder'.op = op
  BY <1>4
<1>6. op.kind = "jogStart" => asked' = 0 /\ busy' = 0
  BY DEF Acquire
<1> QED
  BY <1>3, <1>5, <1>6

LEMMA PacedStep ==
  ASSUME Typed, Paced, Step
  PROVE  Paced'
<1>0. UNCHANGED <<asked, busy>>
  BY DEF Step, Connect, ConnectFail, WriteDone, WriteRefused, HoldOrRead, ReadRefused,
     Exception, ScreenException, Reset, Arm, Disarm, Release, clocks
<1>g. ASSUME NEW ok \in BOOLEAN, NEW n \in 0..2, holder # NoOp, holder.todo # <<>>,
             GoOn(ok, n), n = 0 \/ Plain(holder.todo)
      PROVE  Paced'
  <2>1. holder \in Operation
    BY <1>g DEF Typed, TypeOK, Operation
  <2>2. holder'.op = holder.op
    BY <1>g, <2>1, Rest
  <2>3. Calm(holder.todo) => Calm(holder'.todo)
    BY <1>g, <2>1, CalmGoes
  <2> QED
    BY <1>0, <1>g, <2>2, <2>3 DEF Paced
<1>1. CASE Connect
  <2>1. jog # NoJog => jog.word \in AxisWords
    BY DEF Typed, TypeOK
  <2>2. /\ holder \in Operation /\ holder # NoOp /\ holder.op \in Op
        /\ holder.op.word \in Targets(holder.op.kind)
    BY <1>1 DEF Connect, Doing, Typed, TypeOK, Operation, Scripted
  <2>3. holder'.op = holder.op /\ holder'.todo = Script(holder.op)
    BY <1>1, <2>2 DEF Connect, Operation
  <2>4. holder.op.kind # "jogStart" => Calm(Script(holder.op))
    BY <2>1, <2>2, ScriptType
  <2> QED
    BY <1>0, <2>2, <2>3, <2>4 DEF Paced
<1>2. CASE ConnectFail \/ Exception \/ Release
  BY <1>2 DEF ConnectFail, Exception, Release, Paced
<1>3. CASE ScreenException
  <2>1. holder'.op = holder.op /\ holder # NoOp /\ Plain(holder'.todo)
    BY <1>3, ScreenGone DEF ScreenException, Doing
  <2> QED
    BY <1>0, <2>1 DEF Paced, Calm
<1>4. CASE WriteDone \/ HoldOrRead \/ Reset \/ Arm \/ Disarm
  <2>1. PICK do : Doing(do)
    BY <1>4 DEF WriteDone, HoldOrRead, Reset, Arm, Disarm
  <2>2. GoOn(holder.ok, 0)
    BY <1>4 DEF WriteDone, HoldOrRead, Reset, Arm, Disarm
  <2> QED
    BY <1>g, <2>1, <2>2, First
<1>5. CASE WriteRefused \/ ReadRefused
  <2>1. PICK do : Doing(do)
    BY <1>5 DEF WriteRefused, ReadRefused
  <2>2. GoOn(holder.ok /\ ~Now.counts, Now.skip)
    BY <1>5 DEF WriteRefused, ReadRefused
  <2>3. /\ holder # NoOp /\ holder.todo # <<>> /\ Now \in Instruction /\ holder.ok \in BOOLEAN
        /\ Now.skip = 0 \/ Plain(holder.todo)
    BY <2>1, First
  <2>4. Now.skip \in 0..2 /\ (holder.ok /\ ~Now.counts) \in BOOLEAN
    BY <2>3 DEF Instruction
  <2> QED
    BY <1>g, <2>2, <2>3, <2>4
<1> QED
  BY <1>1, <1>2, <1>3, <1>4, <1>5 DEF Step

LEMMA PacedNext ==
  ASSUME Typed, Paced, [Next]_vars
  PROVE  Paced'
<1>1. ASSUME NEW op \in Op, Request(op)
      PROVE  Paced'
  BY <1>1, PacedAcquire DEF Request
<1>2. CASE DeadmanAcquire
  <2>1. Deadman \in Op /\ Deadman.word \in Targets(Deadman.kind)
    BY Apart DEF Deadman, Op, Kind, Targets
  <2> QED
    BY <1>2, <2>1, PacedAcquire DEF DeadmanAcquire
<1>3. CASE Step
  BY <1>3, PacedStep
<1>4. CASE Tick
  <2>1. asked' <= asked + 1 /\ asked \in Nat /\ asked' \in Nat /\ busy \in Nat
    BY <1>4, Limits DEF Tick, Typed, TypeOK
  <2>2. UNCHANGED holder /\ (holder # NoOp => busy' = busy + 1)
    BY <1>4 DEF Tick
  <2> QED
    BY <2>1, <2>2 DEF Paced
<1>5. CASE Peek \/ UNCHANGED vars
  BY <1>5 DEF Peek, vars, clocks, Paced
<1> QED
  BY <1>1, <1>2, <1>3, <1>4, <1>5 DEF Next

LEMMA CutNext ==
  ASSUME Cut, [Next]_vars
  PROVE  Cut'
<1>1. CASE Step
  <2>1. CASE retry' = 0
    BY <2>1 DEF Cut
  <2>3. CASE ConnectFail
    BY <2>3 DEF ConnectFail, Cut
  <2>2. CASE UNCHANGED <<sock, retry>> /\ holder # NoOp
    BY <2>2 DEF Cut
  <2> QED
    BY <1>1, <2>1, <2>2, <2>3 DEF Step, Connect, WriteDone, WriteRefused, HoldOrRead,
       ReadRefused, Exception, ScreenException, Reset, Arm, Disarm, Release, Doing
<1>2. CASE Tick
  <2>1. retry' > 0 => retry > 0
    BY <1>2 DEF Tick
  <2> QED
    BY <1>2, <2>1 DEF Tick, Cut
<1>3. CASE Peek \/ DeadmanAcquire \/ UNCHANGED vars \/ \E op \in Op : Request(op)
  <2>1. UNCHANGED <<sock, retry>>
        /\ \/ UNCHANGED <<holder, unsure>> \/ sock \/ retry = 0
           \/ holder' = NoOp /\ unsure' = ButtonWords
    BY <1>3 DEF Peek, DeadmanAcquire, Request, Acquire, vars
  <2> QED
    BY <2>1 DEF Cut
<1> QED
  BY <1>1, <1>2, <1>3 DEF Next

-----------------------------------------------------------------------------
LEMMA Deadlines ==
  /\ Expiry = OpSlack + JogDeadman + 1 /\ Fresh = OpSlack
  /\ Bound = Expiry + CheckSlack + OpSlack /\ Expiry \in Nat
BY Limits DEF Expiry, Fresh, Bound

LEMMA Ages ==
  ASSUME Typed, NEW w, Held(jog, w)
  PROVE  jog # NoJog /\ jog.word = w /\ w \in AxisWords /\ jog.age \in 0..(JogDeadman + 1)
BY DEF Typed, TypeOK, Held

\* The script of the deadman thread clears the jog that has expired.
LEMMA Clears ==
  ASSUME Typed, NEW op \in Op, op.kind = "deadman", Lapsed
  PROVE  Clearing(Script(op), jog.word)
<1>1. jog.word \in AxisWords
  BY DEF Lapsed, Typed, TypeOK
<1>2. Script(op) = JogStop(jog.word)
  BY DEF Script, JogDeadmanTick, JogStop
<1> QED
  BY <1>1, <1>2, StopType

\* A jog has been started at the operator's last word.
LEMMA AskedNow ==
  ASSUME Typed, Paced, NEW do, Doing(do),
         Now.do = "arm" \/ (Now.do = "write" /\ Now.word \in AxisWords /\ Now.val = JogBit)
  PROVE  asked <= Fresh
<1>1. holder \in Operation /\ holder # NoOp /\ holder.todo # <<>>
  BY First DEF Typed, TypeOK, Operation
<1>2. asked <= busy
  BY <1>1, NotCalm DEF Paced
<1>3. busy \in 0..OpSlack /\ asked \in Nat
  BY Limits DEF Typed, TypeOK
<1> QED
  BY <1>2, <1>3, Deadlines, Limits

LEMMA TimelyAcquire ==
  ASSUME Typed, Timely, NEW op \in Op, Acquire(op), checked' = checked \/ op = Deadman
  PROVE  Timely'
<1> SUFFICES ASSUME NEW w \in AxisWords, Held(jog, w), Sure'[w] = JogBit
             PROVE  Due(w)'
  BY DEF Timely, Acquire
<1>1. holder = NoOp /\ jog' = jog /\ (Lapsed <=> Lapsed')
  BY DEF Acquire, Lapsed
<1>2. unsure' # ButtonWords
  BY SureIs DEF ButtonWords
<1>3. UNCHANGED <<word, unsure, sock>> /\ busy' = 0
  BY <1>2 DEF Acquire
<1>4. Due(w)
  BY <1>3, SureIs DEF Timely
<1>5. Lapsed => asked <= Expiry + checked
  BY <1>1, <1>4 DEF Due, Ending
<1>6. asked' = 0 \/ asked' = asked
  BY DEF Acquire
<1>7. /\ asked \in Nat /\ checked \in 0..CheckSlack /\ jog.age \in 0..(JogDeadman + 1)
      /\ Expiry \in Nat /\ Fresh \in Nat /\ CheckSlack \in Nat
  BY Ages, Limits, Deadlines DEF Typed, TypeOK
<1>8. CASE ~Lapsed
  BY <1>1, <1>4, <1>6, <1>7, <1>8 DEF Due
<1>9. CASE Lapsed /\ checked' = checked
  BY <1>1, <1>5, <1>6, <1>7, <1>9 DEF Due
<1>10. CASE Lapsed /\ op = Deadman
  <2> DEFINE todo == IF sock THEN Script(op) ELSE <<Other("connect", op.word)>>
  <2>1. holder' = [op |-> op, ok |-> TRUE, todo |-> todo] /\ op.kind = "deadman"
    BY <1>2, <1>10 DEF Acquire, Deadman
  <2>2. sock => Clearing(todo, w)
    BY <1>10, <2>1, Clears, Ages
  <2>3. ~sock => todo # <<>> /\ Head(todo).do = "connect"
    BY DEF Other
  <2> HIDE DEF todo
  <2>4. holder' # NoOp /\ holder'.op = op /\ holder'.todo = todo
    <3>1. DOMAIN holder' = {"op", "ok", "todo"} /\ DOMAIN NoOp = 1..0 /\ 1..0 = {}
      BY <2>1 DEF NoOp
    <3> QED
      BY <2>1, <3>1
  <2>5. Ending(w)'
    BY <2>1, <2>2, <2>3, <2>4 DEF Ending, Doing
  <2>6. asked' <= Expiry + CheckSlack + busy'
    BY <1>3, <1>5, <1>6, <1>7, <1>10
  <2> QED
    BY <1>1, <1>10, <2>5, <2>6 DEF Due
<1> QED
  BY <1>8, <1>9, <1>10

LEMMA TimelyStep ==
  ASSUME Typed, Paced, Timely, Step
  PROVE  Timely'
<1> SUFFICES ASSUME NEW w \in AxisWords, Held(jog', w), Sure'[w] = JogBit
             PROVE  Due(w)'
  BY DEF Timely
<1>0. UNCHANGED <<asked, busy, checked>>
  BY DEF Step, Connect, ConnectFail, WriteDone, WriteRefused, HoldOrRead, ReadRefused,
     Exception, ScreenException, Reset, Arm, Disarm, Release, clocks
<1>t. /\ asked \in Nat /\ checked \in 0..CheckSlack /\ busy \in 0..OpSlack
      /\ Expiry \in Nat /\ Fresh \in Nat /\ CheckSlack \in Nat /\ Fresh <= Expiry
  BY Limits, Deadlines DEF Typed, TypeOK
<1>1. CASE Arm
  <2>1. asked <= Fresh
    BY <1>1, First, AskedNow DEF Arm
  <2>2. jog'.age = 0
    BY <1>1 DEF Arm
  <2>3. ~Lapsed'
    BY <2>2, Limits DEF Lapsed
  <2> QED
    BY <1>0, <1>t, <2>1, <2>2, <2>3 DEF Due
<1>2. CASE ~Arm
  <2>1. jog' = jog
    BY <1>2 DEF Step, Connect, ConnectFail, WriteDone, WriteRefused, HoldOrRead, ReadRefused,
       Exception, ScreenException, Reset, Disarm, Release, Held
  <2>2. /\ Held(jog, w) /\ (Lapsed <=> Lapsed')
        /\ jog.age \in 0..(JogDeadman + 1) /\ jog.word = w
    BY <2>1, Ages DEF Lapsed
  <2>3. CASE w = Now.word /\ (WriteDone \/ WriteRefused)
    <3>1. WriteDone /\ Now.val = JogBit
      BY <2>3, SureStep
    <3>2. asked <= Fresh
      BY <2>3, <3>1, First, AskedNow DEF WriteDone
    <3> QED
      BY <1>0, <1>t, <2>1, <2>2, <3>2 DEF Due
  <2>4. CASE ~(w = Now.word /\ (WriteDone \/ WriteRefused))
    <3>1. Due(w)
      BY <2>2, <2>4, SureStep DEF Timely
    <3>2. CASE ~(Lapsed /\ Ending(w))
      BY <1>0, <2>1, <2>2, <3>1, <3>2 DEF Due
    <3>3. CASE Lapsed /\ Ending(w)
      <4>1. Ending(w)'
        <5>1. CASE Doing("connect")
          <6>1. Connect
            <7>1. ~ConnectFail
              BY SureIs DEF ConnectFail, ButtonWords
            <7> QED
              BY <5>1, <7>1 DEF Step, WriteDone, WriteRefused, HoldOrRead, ReadRefused,
                 Exception, ScreenException, Reset, Arm, Disarm, Release, Doing
          <6>2. holder \in Operation /\ holder.op \in Op
                  /\ holder.op.word \in Targets(holder.op.kind) /\ holder.op.kind = "deadman"
            BY <3>3, <5>1 DEF Ending, Doing, Typed, TypeOK, Operation, Scripted
          <6>3. Script(holder.op) \in Seq(Instruction)
            BY <2>2, <6>2, ScriptType
          <6>4. holder' \in Operation /\ holder'.op = holder.op
                  /\ holder'.todo = Script(holder.op)
            BY <6>1, <6>2, <6>3 DEF Connect, Operation
          <6>5. holder' # NoOp
            BY <6>4, Busy
          <6> QED
            BY <2>2, <3>3, <6>2, <6>4, <6>5, Clears DEF Ending
        <5>2. CASE Clearing(holder.todo, w)
          <6>1. holder \in Operation /\ holder.todo # <<>>
            BY <3>3, <5>2 DEF Ending, Typed, TypeOK, Operation, Clearing
          <6>2. Now.do = "write" /\ Now.word = w
            BY <5>2, <6>1, Firsts
          <6>3. Exception
            BY <1>2, <2>4, <6>1, <6>2 DEF Step, Connect, ConnectFail, HoldOrRead, ReadRefused,
               ScreenException, Reset, Disarm, Release, Doing, Now
          <6>4. w \in unsure'
            BY <6>2, <6>3 DEF Exception, Doing, Doubted, ButtonWords, Now
          <6> QED
            BY <6>4, SureIs
        <5> QED
          BY <3>3, <5>1, <5>2 DEF Ending
      <4> QED
        BY <1>0, <2>1, <2>2, <3>1, <4>1 DEF Due
    <3> QED
      BY <3>2, <3>3
  <2> QED
    BY <2>3, <2>4
<1> QED
  BY <1>1, <1>2

LEMMA TimelyTick ==
  ASSUME Typed, Timely, Tick
  PROVE  Timely'
<1> SUFFICES ASSUME NEW w \in AxisWords, Held(jog', w), Sure'[w] = JogBit
             PROVE  Due(w)'
  BY DEF Timely
<1>1. Held(jog, w) /\ UNCHANGED <<word, unsure, holder>>
  BY HeldTick DEF Tick
<1>2. Due(w)
  BY <1>1, SureIs DEF Timely
<1>3. jog # NoJog /\ jog.age \in 0..(JogDeadman + 1)
  BY <1>1, Ages
<1>4. /\ asked \in Nat /\ asked' <= asked + 1 /\ asked' \in Nat
      /\ checked \in Nat /\ checked' = checked + 1
      /\ busy \in Nat /\ (holder # NoOp => busy' = busy + 1)
      /\ Expiry \in Nat /\ Fresh \in Nat /\ JogDeadman \in Nat /\ CheckSlack \in Nat
      /\ Expiry = Fresh + JogDeadman + 1
  <2>1. asked \in 0..(Bound + 1) /\ checked \in 0..CheckSlack /\ busy \in 0..OpSlack
    BY DEF Typed, TypeOK
  <2>2. /\ asked' = IF asked > Bound THEN asked ELSE asked + 1
        /\ checked' = checked + 1 /\ (holder # NoOp => busy' = busy + 1)
    BY <1>3 DEF Tick
  <2> QED
    BY <2>1, <2>2, Limits, Deadlines
<1>5. CASE Lapsed
  <2>1. jog' = jog /\ Lapsed' /\ (Ending(w) <=> Ending(w)')
    BY <1>1, <1>5 DEF Tick, Lapsed, Ending, Doing
  <2>2. CASE asked <= Expiry + checked
    BY <1>4, <2>1, <2>2 DEF Due
  <2>3. CASE Ending(w) /\ asked <= Expiry + CheckSlack + busy
    BY <1>4, <2>1, <2>3 DEF Due, Ending
  <2> QED
    BY <1>2, <1>5, <2>2, <2>3 DEF Due
<1>6. CASE ~Lapsed
  <2>1. jog.age \in 0..JogDeadman /\ asked <= Fresh + jog.age
    BY <1>2, <1>3, <1>4, <1>6 DEF Due, Lapsed
  <2>2. /\ jog' = [jog EXCEPT !.age = jog.age + 1]
        /\ jog \in [word : AxisWords, age : 0..(JogDeadman + 1)]
    BY <1>3, <1>6 DEF Tick, Typed, TypeOK
  <2>3. jog'.age = jog.age + 1
    BY <2>2
  <2>4. asked' <= Fresh + jog'.age /\ jog'.age <= JogDeadman + 1
    BY <1>4, <2>1, <2>3
  <2>5. asked' <= Expiry + checked'
    BY <1>4, <2>1, <2>3, <2>4
  <2> QED
    BY <2>4, <2>5 DEF Due
<1> QED
  BY <1>5, <1>6

LEMMA TimelyNext ==
  ASSUME Typed, Paced, Timely, [Next]_vars
  PROVE  Timely'
<1>1. ASSUME NEW op \in Op, Request(op)
      PROVE  Timely'
  BY <1>1, TimelyAcquire DEF Request
<1>2. CASE DeadmanAcquire
  <2>1. Deadman \in Op
    BY Apart DEF Deadman, Op, Kind
  <2> QED
    BY <1>2, <2>1, TimelyAcquire DEF DeadmanAcquire
<1>3. CASE Step
  BY <1>3, TimelyStep
<1>4. CASE Tick
  BY <1>4, TimelyTick
<1>5. CASE Peek \/ UNCHANGED vars
  <2>1. UNCHANGED <<jog, holder, asked, busy, Sure>>
    BY <1>5 DEF Peek, vars, clocks, Sure
  <2>2. jog # NoJog => checked' = checked
    BY <1>5 DEF Peek, vars, clocks
  <2> QED
    BY <2>1, <2>2 DEF Timely, Due, Ending, Lapsed, Doing, Held
<1> QED
  BY <1>1, <1>2, <1>3, <1>4, <1>5 DEF Next

\* What moves is watched, unless its jog is just being started.
LEMMA InTime ==
  ASSUME Typed, HoldInv, Tick, NEW w \in AxisWords, Sure[w] = JogBit
  PROVE  asked < Bound
<1>t. /\ asked \in Nat /\ checked \in Nat /\ busy \in Nat
      /\ JogDeadman \in Nat /\ OpSlack \in Nat \ {0} /\ CheckSlack \in Nat \ {0}
      /\ (holder # NoOp => busy < OpSlack) /\ (jog # NoJog => checked < CheckSlack)
  BY Limits DEF Tick, Typed, TypeOK
<1>1. CASE Held(jog, w)
  <2>1. Due(w)
    BY <1>1 DEF HoldInv, Timely
  <2>2. jog # NoJog /\ jog.age \in 0..(JogDeadman + 1)
    BY <1>1, Ages
  <2>3. CASE Lapsed
    BY <1>t, <2>1, <2>2, <2>3, Deadlines DEF Due, Ending
  <2>4. CASE ~Lapsed
    BY <1>t, <2>1, <2>2, <2>4, Deadlines DEF Due, Lapsed
  <2> QED
    BY <2>3, <2>4
<1>2. CASE ~Held(jog, w)
  <2>1. holder # NoOp /\ Stage(holder.todo, jog, Sure)
    BY <1>2 DEF HoldInv, Safe, Watched
  <2>2. PICK v \in AxisWords : Arming(holder.todo, v)
    BY <1>2, <2>1 DEF Stage, Watched
  <2>3. holder \in Operation /\ holder.todo # <<>>
    BY <2>1, <2>2 DEF Arming, Typed, TypeOK, Operation
  <2>4. asked <= busy
    BY <2>1, <2>2, <2>3, NotCalm DEF HoldInv, Paced
  <2> QED
    BY <1>t, <2>1, <2>4, Deadlines
<1> QED
  BY <1>1, <1>2

\* As far as its requests get through, a held jog is a deadman, whatever is lost,
\* late or refused: it is started at the operator's word, and stopped before its
\* timeout and the waits for the lock have passed.
THEOREM IsDeadman == Spec => ImplementsDeadman
<1> DEFINE moving == \E w \in AxisWords \ unsure : word[w] = JogBit
<1>1. Init => Typed /\ HoldInv
  <2> SUFFICES ASSUME Init PROVE Typed /\ HoldInv
    OBVIOUS
  <2>1. \A w \in AxisWords : Sure[w] # JogBit
    BY SureIs, Apart DEF Init, JogBit
  <2>2. Safe(holder, jog, Sure) /\ Timely
    BY <2>1 DEF Init, Safe, Watched, Timely
  <2>3. Paced /\ Cut
    BY DEF Init, Paced, Cut
  <2> QED
    BY <2>2, <2>3, Started DEF HoldInv
<1>2. Typed /\ HoldInv /\ [Next]_vars => Typed' /\ HoldInv'
  BY TypedNext, SureSafe, PacedNext, TimelyNext, CutNext DEF HoldInv
<1>3. Init => D!Init
  <2>1. Init => ~moving
    BY Apart DEF Init, JogBit
  <2> QED
    BY <2>1, Limits DEF Init, D!Init
<1>4. Typed /\ HoldInv /\ [Next]_vars => [D!Next]_<<moving, asked>>
  <2> SUFFICES ASSUME Typed, HoldInv, [Next]_vars
               PROVE  D!Next \/ UNCHANGED <<moving, asked>>
    OBVIOUS
  <2>1. CASE Tick
    <3>1. UNCHANGED moving
      BY <2>1 DEF Tick
    <3>2. moving => asked < Bound
      BY <2>1, InTime, SureIs
    <3>3. asked' = IF asked > Bound THEN asked ELSE asked + 1
      BY <2>1 DEF Tick
    <3> QED
      BY <3>1, <3>2, <3>3 DEF D!Next, D!Elapse
  <2>2. CASE Step
    <3>1. asked' = asked
      BY <2>2 DEF Step, Connect, ConnectFail, WriteDone, WriteRefused, HoldOrRead, ReadRefused,
         Exception, ScreenException, Reset, Arm, Disarm, Release, clocks
    <3>2. CASE moving' /\ ~moving
      <4>1. PICK w \in AxisWords : Sure'[w] = JogBit
        BY <3>2, SureIs
      <4>2. Sure[w] # JogBit
        BY <3>2, SureIs
      <4>3. WriteDone /\ Now.val = JogBit /\ Now.word \in AxisWords
        BY <2>2, <4>1, <4>2, SureStep
      <4>4. asked <= Fresh
        BY <4>3, First, AskedNow DEF WriteDone, HoldInv
      <4> QED
        BY <3>1, <3>2, <4>4 DEF D!Next, D!Move
    <3>3. CASE ~moving'
      BY <3>1, <3>3 DEF D!Next, D!Halt
    <3>4. CASE moving' /\ moving
      BY <3>1, <3>4
    <3> QED
      BY <3>2, <3>3, <3>4
  <2>3. CASE DeadmanAcquire \/ \E op \in Op : Request(op)
    <3>1. PICK op \in Op \cup {Deadman} : Acquire(op)
      BY <2>3 DEF DeadmanAcquire, Request
    <3>2. UNCHANGED <<word, unsure>>
      BY <3>1 DEF Acquire, HoldInv, Cut
    <3>3. asked' = 0 \/ asked' = asked
      BY <3>1 DEF Acquire
    <3> QED
      BY <3>2, <3>3 DEF D!Next, D!Command
  <2>4. CASE Peek \/ UNCHANGED vars
    BY <2>4 DEF Peek, vars, clocks
  <2> QED
    BY <2>1, <2>2, <2>3, <2>4 DEF Next
<1> QED
  BY <1>1, <1>2, <1>3, <1>4, PTL DEF Spec, ImplementsDeadman, D!Spec
=============================================================================
