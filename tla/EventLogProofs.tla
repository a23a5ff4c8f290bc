----------------------------- MODULE EventLogProofs -----------------------------
(***************************************************************************)
(* Theorems about EventLog for every value of its constants: the ring keeps  *)
(* its size, the browser misses nothing and the debounce lets no flood in.   *)
(***************************************************************************)
EXTENDS EventLog, SequenceTheorems, FiniteSetTheorems, WellFoundedInduction, TLAPS

\* The bounds are natural numbers.
LEMMA Bounds ==
  /\ Window \in Nat \ {0} /\ RingSize \in Nat \ {0} /\ Boot \in Nat /\ MaxTime \in Nat
  /\ MaxEvents \in Nat /\ Boot + MaxTime \in Nat /\ IsFiniteSet(Reporters)
BY EventLogAssumption

LEMMA Below == ASSUME NEW x \in Nat, NEW y \in Nat, y < x PROVE <<y, x>> \in OpToRel(<, Nat)
BY DEF OpToRel

\* A nonempty set of clock readings has a greatest element.
LEMMA GreatestTime ==
  ASSUME NEW S, S \subseteq Time, S # {}
  PROVE  \E t \in S : \A u \in S : u <= t
<1> DEFINE End == Boot + MaxTime
           T == {n \in Nat : End - n \in S}
<1>1. End \in Nat /\ Time = 0..End
  BY Bounds DEF Time
<1>2. \A t \in S : t \in Nat /\ End - t \in T
  BY <1>1
<1>3. T \subseteq Nat /\ T # {}
  BY <1>2
<1> HIDE DEF T
<1>4. \E x \in T : \A y \in T : ~(<<y, x>> \in OpToRel(<, Nat))
  BY <1>3, NatLessThanWellFounded, WFMin, Zenon
<1>5. PICK x \in T : \A y \in T : ~(<<y, x>> \in OpToRel(<, Nat))
  BY <1>4, Zenon
<1>6. x \in Nat /\ \A y \in T : y \in Nat
  BY <1>3
<1>7. ASSUME NEW y \in T PROVE ~(y < x)
  BY <1>5, <1>6, Below, Zenon
<1>8. End - x \in S
  BY DEF T
<1>9. ASSUME NEW u \in S PROVE u <= End - x
  BY <1>1, <1>2, <1>6, <1>7
<1> QED
  BY <1>8, <1>9

\* The newest timestamp is a clock reading, no older than what the browser had
\* and than any entry it was sent.
LEMMA NewestIs ==
  ASSUME TypeOK, NEW got \in SUBSET Entry
  PROVE  /\ Newest(got) \in Time /\ Newest(got) >= lastTs
         /\ \A e \in got : Newest(got) >= e.ts
<1> DEFINE S == {e.ts : e \in got} \cup {lastTs}
<1>1. S \subseteq Time /\ S # {} /\ lastTs \in Time /\ Time \subseteq Nat
  BY Bounds DEF TypeOK, Entry, Time
<1>2. PICK t \in S : \A u \in S : u <= t
  BY <1>1, GreatestTime
<1>3. t >= lastTs /\ \A e \in got : t >= e.ts
  BY <1>1, <1>2
<1>4. /\ Newest(got) \in S /\ Newest(got) >= lastTs /\ \A e \in got : Newest(got) >= e.ts
  BY <1>3, Zenon DEF Newest
<1> QED
  BY <1>1, <1>4

\* The ring takes one more entry and stays within its size.
LEMMA PushType ==
  ASSUME log \in Seq(Entry), Len(log) <= RingSize, NEW entry \in Entry
  PROVE  Push(entry) \in Seq(Entry) /\ Len(Push(entry)) <= RingSize
<1> DEFINE longer == Append(log, entry)
           first == IF Len(longer) > RingSize THEN 2 ELSE 1
<1>1. longer \in Seq(Entry) /\ Len(longer) = Len(log) + 1 /\ Len(log) \in Nat
  BY AppendProperties
<1>2. first \in 1..Len(longer) + 1 /\ Len(longer) \in Nat
  BY <1>1, Bounds
<1>3. SubSeq(longer, first, Len(longer)) \in Seq(Entry)
  BY <1>1, <1>2, SubSeqProperties
<1>4. Len(SubSeq(longer, first, Len(longer)))
        = IF first <= Len(longer) THEN Len(longer) - first + 1 ELSE 0
  BY <1>1, <1>2 DEF first
<1>5. Push(entry) = SubSeq(longer, first, Len(longer))
  BY DEF Push
<1> QED
  BY <1>1, <1>3, <1>4, <1>5, Bounds

-----------------------------------------------------------------------------
(* Type correctness *)

\* There is room for the events that have been reported and not appended.
Typed == TypeOK /\ serial + Cardinality(Under) <= MaxEvents

LEMMA TypedInit == Init => Typed
<1> SUFFICES ASSUME Init PROVE Typed
  OBVIOUS
<1> USE Bounds
<1>1. Under = {} /\ Cardinality(Under) = 0
  <2>1. Under = {}
    BY DEF Init, Under
  <2> QED
    BY <2>1, FS_EmptySet
<1>2. now \in Time /\ 0 \in Time
  BY DEF Init, Time
<1>3. debounce \in [Keys -> Time] /\ at \in [Reporters -> {"idle", "check", "stamp", "append"}]
  BY <1>2 DEF Init
<1>4. event \in [Reporters -> [key : Key, time : Time]]
  BY <1>2 DEF Init, NoEvent, Key
<1>5. poll \in [Polls -> [state : {"idle", "sent", "answered"}, since : Time,
                         got : SUBSET Entry]]
  BY <1>2 DEF Init, NoPoll
<1>6. log \in Seq(Entry) /\ Len(log) <= RingSize
  BY DEF Init
<1> QED
  BY <1>1, <1>2, <1>3, <1>4, <1>5, <1>6 DEF Init, Typed, TypeOK

\* A reporter that begins takes one place, one that ends gives it back.
LEMMA UnderFinite == IsFiniteSet(Under) /\ Cardinality(Under) \in Nat
<1>1. Under \subseteq Reporters
  BY DEF Under
<1>2. IsFiniteSet(Under)
  BY <1>1, Bounds, FS_Subset
<1> QED
  BY <1>2, FS_CardinalityType

LEMMA UnderGoes ==
  ASSUME TypeOK, NEW r \in Reporters, NEW stage \in {"check", "stamp", "append"}, Go(r, stage)
  PROVE  /\ at[r] # "idle" => Under' = Under
         /\ at[r] = "idle" => Cardinality(Under)' = Cardinality(Under) + 1
<1>1. Under' = Under \cup {r}
  BY DEF Under, Go, TypeOK
<1>2. at[r] # "idle" <=> r \in Under
  BY DEF Under
<1> QED
  BY <1>1, <1>2, UnderFinite, FS_AddElement

LEMMA UnderEnds ==
  ASSUME TypeOK, NEW r \in Reporters, at[r] # "idle", Go(r, "idle")
  PROVE  Cardinality(Under)' = Cardinality(Under) - 1
<1>1. Under' = Under \ {r} /\ r \in Under
  BY DEF Under, Go, TypeOK
<1> QED
  BY <1>1, UnderFinite, FS_RemoveElement

LEMMA TypedReport ==
  ASSUME Typed, NEW r \in Reporters,
         (\E k \in Key : Report(r, k)) \/ Suppress(r) \/ Admit(r) \/ Stamp(r)
  PROVE  Typed'
<1> USE Bounds
<1>1. TypeOK
  BY DEF Typed
<1>2. CASE \E k \in Key : Report(r, k)
  <2>1. PICK k \in Key : Report(r, k)
    BY <1>2
  <2>2. PICK stage \in {"check", "stamp", "append"} : Go(r, stage)
    BY <2>1 DEF Report
  <2>3. Cardinality(Under)' = Cardinality(Under) + 1 /\ serial' = serial
    BY <1>1, <2>1, <2>2, UnderGoes DEF Report
  <2>4. serial' + Cardinality(Under)' <= MaxEvents
    BY <1>1, <2>1, <2>3, UnderFinite DEF Report, TypeOK
  <2>5. TypeOK'
    BY <1>1, <2>1 DEF Report, Go, Hold, TypeOK, browsing
  <2> QED
    BY <2>4, <2>5 DEF Typed
<1>3. CASE Suppress(r)
  <2>1. Cardinality(Under)' = Cardinality(Under) - 1 /\ serial' = serial
    BY <1>1, <1>3, UnderEnds DEF Suppress
  <2>2. NoEvent \in [key : Key, time : Time]
    BY DEF NoEvent, Key, Time
  <2>3. TypeOK'
    BY <1>1, <1>3, <2>2 DEF Suppress, Go, TypeOK, browsing
  <2> QED
    BY <2>1, <2>3, UnderFinite DEF Typed, TypeOK
<1>4. CASE Admit(r)
  <2>1. Under' = Under
    BY <1>1, <1>4, UnderGoes DEF Admit
  <2>2. event[r].time \in Time
    BY <1>1 DEF TypeOK
  <2>3. TypeOK'
    BY <1>1, <1>4, <2>2 DEF Admit, Go, TypeOK, browsing
  <2> QED
    BY <1>4, <2>1, <2>3 DEF Typed, Admit
<1>5. CASE Stamp(r)
  <2>1. Under' = Under
    BY <1>1, <1>5, UnderGoes DEF Stamp
  <2>2. event[r].key \in Key
    BY <1>1 DEF TypeOK
  <2>3. TypeOK'
    BY <1>1, <1>5, <2>2 DEF Stamp, Go, Hold, TypeOK, browsing
  <2> QED
    BY <1>5, <2>1, <2>3 DEF Typed, Stamp
<1> QED
  BY <1>2, <1>3, <1>4, <1>5

LEMMA AppendType ==
  ASSUME Typed, NEW r \in Reporters, AppendEntry(r)
  PROVE  /\ [id |-> serial', key |-> event[r].key, ts |-> event[r].time] \in Entry
         /\ serial' \in 1..MaxEvents /\ Typed'
<1> USE Bounds
<1>1. TypeOK /\ r \in Under
  BY DEF Typed, AppendEntry, Under
<1>2. Cardinality(Under)' = Cardinality(Under) - 1 /\ serial' = serial + 1
  BY <1>1, UnderEnds DEF AppendEntry
<1>3. Cardinality(Under) > 0
  BY <1>1, UnderFinite, FS_EmptySet
<1>4. serial' \in 1..MaxEvents /\ serial' + Cardinality(Under)' <= MaxEvents
  BY <1>1, <1>2, <1>3, UnderFinite DEF Typed, TypeOK
<1>5. event[r].key \in Key /\ event[r].time \in Time
  BY <1>1 DEF TypeOK
<1>6. [id |-> serial', key |-> event[r].key, ts |-> event[r].time] \in Entry
  BY <1>4, <1>5 DEF Entry
<1>7. log' \in Seq(Entry) /\ Len(log') <= RingSize
  BY <1>1, <1>6, PushType DEF AppendEntry, TypeOK
<1>8. NoEvent \in [key : Key, time : Time]
  BY DEF NoEvent, Key, Time
<1>9. newest' \in Time /\ disordered' \subseteq 1..MaxEvents
  BY <1>1, <1>4, <1>5 DEF AppendEntry, TypeOK
<1>10. /\ at' \in [Reporters -> {"idle", "check", "stamp", "append"}]
       /\ event' \in [Reporters -> [key : Key, time : Time]]
  BY <1>1, <1>8 DEF AppendEntry, Go, TypeOK
<1>11. TypeOK'
  BY <1>1, <1>4, <1>7, <1>9, <1>10 DEF AppendEntry, TypeOK, browsing
<1> QED
  BY <1>4, <1>6, <1>11 DEF Typed

LEMMA TypedPoll ==
  ASSUME TypeOK, NEW p \in Polls, Send(p) \/ Answer(p) \/ Receive(p) \/ Lose(p)
  PROVE  TypeOK'
<1> USE Bounds
<1>1. NoPoll \in [state : {"idle", "sent", "answered"}, since : Time, got : SUBSET Entry]
  BY DEF NoPoll, Time
<1>2. CASE Send(p)
  <2>1. [NoPoll EXCEPT !.state = "sent", !.since = lastTs]
          \in [state : {"idle", "sent", "answered"}, since : Time, got : SUBSET Entry]
    BY DEF NoPoll, TypeOK
  <2> QED
    BY <1>2, <2>1 DEF Send, TypeOK, reporting
<1>3. CASE Answer(p)
  <2>1. {e \in Entries : e.ts > poll[p].since} \subseteq Entry
    BY DEF Entries, TypeOK
  <2>2. poll' \in [Polls -> [state : {"idle", "sent", "answered"}, since : Time,
                             got : SUBSET Entry]]
    <3> DEFINE got == {e \in Entries : e.ts > poll[p].since}
    <3>1. poll' = [poll EXCEPT ![p].state = "answered", ![p].got = got]
      BY <1>3 DEF Answer
    <3>2. got \in SUBSET Entry
      BY <2>1
    <3> HIDE DEF got
    <3>3. poll' = [poll EXCEPT ![p] = [poll[p] EXCEPT !.state = "answered", !.got = got]]
      BY <3>1
    <3>4. [poll[p] EXCEPT !.state = "answered", !.got = got]
            \in [state : {"idle", "sent", "answered"}, since : Time, got : SUBSET Entry]
      BY <3>2 DEF TypeOK
    <3> QED
      BY <3>3, <3>4 DEF TypeOK
  <2> QED
    BY <1>3, <2>2 DEF Answer, TypeOK, reporting
<1>4. CASE Receive(p)
  <2>1. poll[p].got \in SUBSET Entry
    BY DEF TypeOK
  <2>2. Newest(poll[p].got) \in Time
    BY <2>1, NewestIs
  <2>3. shown' \subseteq 1..MaxEvents
    BY <1>4, <2>1, ZenonT(30) DEF Receive, TypeOK, Entry
  <2> QED
    BY <1>1, <1>4, <2>2, <2>3 DEF Receive, TypeOK, reporting
<1>5. CASE Lose(p)
  BY <1>1, <1>5 DEF Lose, TypeOK, reporting
<1> QED
  BY <1>2, <1>3, <1>4, <1>5

LEMMA TypedNext == Typed /\ [Next]_vars => Typed'
<1> SUFFICES ASSUME Typed, [Next]_vars PROVE Typed'
  OBVIOUS
<1>1. TypeOK
  BY DEF Typed
<1>2. ASSUME NEW r \in Reporters, AppendEntry(r) PROVE Typed'
  BY <1>2, AppendType
<1>3. ASSUME NEW p \in Polls, Send(p) \/ Answer(p) \/ Receive(p) \/ Lose(p) PROVE Typed'
  <2>1. TypeOK'
    BY <1>1, <1>3, TypedPoll
  <2>2. UNCHANGED <<serial, at>>
    BY <1>3 DEF Send, Answer, Receive, Lose, reporting
  <2> QED
    BY <2>1, <2>2 DEF Typed, Under
<1>4. CASE Tick
  <2>1. now' \in Time
    BY <1>1, <1>4, Bounds DEF Tick, TypeOK, Time
  <2> QED
    BY <1>1, <1>4, <2>1 DEF Tick, Typed, TypeOK, Under, reporting, browsing
<1>5. CASE UNCHANGED vars
  BY <1>1, <1>5 DEF vars, Typed, TypeOK, Under, reporting, browsing
<1> QED
  BY <1>2, <1>3, <1>4, <1>5, TypedReport DEF Next

\* Every variable keeps its type: the ring never outgrows its size.
THEOREM TypeCorrect == Spec => []TypeOK
<1>1. Typed => TypeOK
  BY DEF Typed
<1> QED
  BY TypedInit, TypedNext, <1>1, PTL DEF Spec

-----------------------------------------------------------------------------
(* What the browser has *)

InOrder(e) == e.id \notin disordered

\* The browser is behind the ring and its polls are behind the browser; it has
\* everything up to its newest timestamp, and an answer has everything between
\* the question and its own newest.
UpToDate ==
  /\ lastTs <= newest
  /\ \A e \in Entries : e.ts <= newest /\ e.id <= serial
  /\ \A p \in Polls : poll[p].since <= lastTs /\ \A g \in poll[p].got : g.ts <= newest
  /\ \A e \in Entries : InOrder(e) /\ e.ts <= lastTs => e.id \in shown
  /\ \A p \in Polls : \A e \in Entries : \A g \in poll[p].got :
       InOrder(e) /\ poll[p].since < e.ts /\ e.ts <= g.ts => e \in poll[p].got

LEMMA UpToDateInit == Init => UpToDate
<1> SUFFICES ASSUME Init PROVE UpToDate
  OBVIOUS
<1>1. Entries = {}
  BY DEF Init, Entries
<1> QED
  BY <1>1 DEF Init, UpToDate, NoPoll

\* The entries after an append are those before it and the new one.
LEMMA PushAdds ==
  ASSUME TypeOK, NEW entry \in Entry, log' = Push(entry)
  PROVE  Entries' \subseteq Entries \cup {entry}
<1> DEFINE longer == Append(log, entry)
           first == IF Len(longer) > RingSize THEN 2 ELSE 1
<1>1. log \in Seq(Entry) /\ Len(log) \in Nat
  BY DEF TypeOK
<1>2. /\ Len(longer) = Len(log) + 1 /\ longer \in Seq(Entry)
      /\ \A i \in 1..Len(log) : longer[i] = log[i]
      /\ longer[Len(log) + 1] = entry
  BY <1>1, AppendProperties
<1>3. \A i \in 1..Len(longer) : longer[i] \in Entries \cup {entry}
  BY <1>1, <1>2 DEF Entries
<1>4. first \in {1, 2} /\ log' = SubSeq(longer, first, Len(longer))
  BY DEF Push
<1>5. \A i \in DOMAIN log' : log'[i] \in Entries \cup {entry}
  BY <1>1, <1>2, <1>3, <1>4
<1> QED
  BY <1>5 DEF Entries

\* Entries have natural timestamps and numbers.
LEMMA EntryTypes ==
  /\ Time \subseteq Nat /\ \A e \in Entry : e.ts \in Nat /\ e.id \in Nat
  /\ TypeOK => Entries \subseteq Entry
<1>1. Time \subseteq Nat
  BY Bounds DEF Time
<1>2. ASSUME NEW e \in Entry PROVE e.ts \in Nat /\ e.id \in Nat
  <2>1. e.ts \in Time /\ e.id \in 1..MaxEvents
    BY DEF Entry
  <2>2. e.ts \in Nat
    BY <1>1, <2>1, Zenon
  <2>3. e.id \in Nat
    BY <2>1
  <2> QED
    BY <2>2, <2>3
<1>3. TypeOK => Entries \subseteq Entry
  BY DEF TypeOK, Entries
<1> QED
  BY <1>1, <1>2, <1>3

LEMMA UpToDateAppend ==
  ASSUME Typed, UpToDate, NEW r \in Reporters, AppendEntry(r)
  PROVE  UpToDate'
<1>0. PICK new \in Entry :
        new = [id |-> serial', key |-> event[r].key, ts |-> event[r].time]
  BY AppendType
<1>1. TypeOK /\ serial' \in Nat /\ serial \in Nat /\ serial' = serial + 1
  BY Bounds DEF Typed, TypeOK, AppendEntry
<1>2. log' = Push(new) /\ UNCHANGED <<poll, lastTs, shown>>
  BY <1>0 DEF AppendEntry, browsing
<1>3. Entries' \subseteq Entries \cup {new}
  BY <1>1, <1>2, PushAdds
<1>4. new.id = serial' /\ new.ts = event[r].time
  BY <1>0
<1>5. /\ newest \in Nat /\ lastTs \in Nat /\ event[r].time \in Nat
      /\ newest' = IF event[r].time > newest THEN event[r].time ELSE newest
      /\ newest' \in Nat
  <2>1. newest \in Time /\ lastTs \in Time /\ event[r].time \in Time
    BY <1>1 DEF TypeOK
  <2> QED
    BY <2>1, EntryTypes DEF AppendEntry
<1>6. disordered' = disordered \cup {i \in {serial'} : event[r].time <= newest}
  BY DEF AppendEntry
<1>7. new.id \notin disordered' => new.ts > newest
  BY <1>4, <1>5, <1>6
<1>8. \A e \in Entries : e.id \notin disordered' => InOrder(e)
  BY <1>6 DEF InOrder
<1>9. Entries \subseteq Entry /\ \A e \in Entries : e.ts \in Nat /\ e.id \in Nat
  BY <1>1, EntryTypes
<1>10. \A p \in Polls : /\ poll[p].since \in Nat /\ poll[p].got \subseteq Entry
                        /\ \A g \in poll[p].got : g.ts \in Nat
  BY <1>1, EntryTypes DEF TypeOK
<1>11. lastTs' <= newest'
  BY <1>2, <1>5 DEF UpToDate
<1>12. \A e \in Entries' : e.ts <= newest' /\ e.id <= serial'
  BY <1>1, <1>3, <1>4, <1>5, <1>9 DEF UpToDate
<1>13. \A p \in Polls : /\ poll'[p].since <= lastTs'
                        /\ \A g \in poll'[p].got : g.ts <= newest'
  BY <1>2, <1>5, <1>10 DEF UpToDate
<1>14. ASSUME NEW e \in Entries', e.id \notin disordered', e.ts <= lastTs' PROVE e.id \in shown'
  <2>1. CASE e \in Entries
    BY <1>2, <1>8, <1>14, <2>1 DEF UpToDate
  <2>2. CASE e = new
    <3>1. new.ts > newest /\ new.ts <= lastTs /\ lastTs <= newest
      BY <1>2, <1>7, <1>14, <2>2 DEF UpToDate
    <3> QED
      BY <3>1, <1>4, <1>5
  <2> QED
    BY <1>3, <2>1, <2>2
<1>15. ASSUME NEW p \in Polls, NEW e \in Entries', NEW g \in poll'[p].got,
              e.id \notin disordered', poll'[p].since < e.ts, e.ts <= g.ts
       PROVE  e \in poll'[p].got
  <2>1. CASE e \in Entries
    BY <1>2, <1>8, <1>15, <2>1 DEF UpToDate
  <2>2. CASE e = new
    <3>1. new.ts > newest /\ new.ts <= g.ts /\ g.ts <= newest /\ g.ts \in Nat
      BY <1>2, <1>7, <1>10, <1>15, <2>2 DEF UpToDate
    <3> QED
      BY <3>1, <1>4, <1>5
  <2> QED
    BY <1>3, <2>1, <2>2
<1> QED
  BY <1>11, <1>12, <1>13, <1>14, <1>15 DEF UpToDate, InOrder

LEMMA UpToDateReceive ==
  ASSUME TypeOK, UpToDate, NEW p \in Polls, Receive(p)
  PROVE  UpToDate'
<1> DEFINE got == poll[p].got
<1>1. got \in SUBSET Entry /\ lastTs \in Nat /\ newest \in Nat /\ Time \subseteq Nat
  BY Bounds DEF TypeOK, Time
<1>2. /\ lastTs' = Newest(got) /\ Newest(got) \in Nat /\ Newest(got) >= lastTs
      /\ Newest(got) = lastTs \/ \E g \in got : Newest(got) = g.ts
  <2>1. Newest(got) \in {e.ts : e \in got} \cup {lastTs}
    <3> DEFINE S == {e.ts : e \in got} \cup {lastTs}
    <3>1. S \subseteq Time /\ S # {} /\ S \subseteq Nat
      BY <1>1, ZenonT(30) DEF TypeOK, Entry
    <3>2. PICK t \in S : \A u \in S : u <= t
      BY <3>1, GreatestTime
    <3>3. t >= lastTs /\ \A e \in got : t >= e.ts
      BY <3>1, <3>2, <1>1
    <3> QED
      BY <3>3, Zenon DEF Newest
  <2> QED
    BY <2>1, <1>1, NewestIs DEF Receive
<1>3. /\ poll' = [poll EXCEPT ![p] = NoPoll] /\ shown' = shown \cup {e.id : e \in got}
      /\ Entries' = Entries /\ UNCHANGED <<newest, serial, disordered>>
  BY DEF Receive, reporting, Entries
<1>4. lastTs' <= newest'
  BY <1>1, <1>2, <1>3 DEF UpToDate
<1>5. ASSUME NEW q \in Polls
      PROVE  /\ poll'[q].since <= lastTs' /\ poll'[q].got \subseteq poll[q].got
             /\ q # p => poll'[q] = poll[q]
             /\ q = p => poll'[q].got = {}
  BY <1>1, <1>2, <1>3, Bounds DEF UpToDate, TypeOK, NoPoll, Time
<1>6. ASSUME NEW e \in Entries, InOrder(e), e.ts <= lastTs' PROVE e.id \in shown'
  <2>1. e.ts \in Nat /\ poll[p].since \in Nat /\ poll[p].since <= lastTs
    BY EntryTypes DEF TypeOK, UpToDate
  <2>2. CASE e.ts <= lastTs
    BY <1>3, <1>6, <2>2 DEF UpToDate
  <2>3. CASE ~(e.ts <= lastTs)
    <3>1. PICK g \in got : lastTs' = g.ts
      BY <1>1, <1>2, <1>6, <2>1, <2>3
    <3>2. e \in got
      BY <1>1, <1>6, <2>1, <2>3, <3>1 DEF UpToDate
    <3> QED
      BY <1>3, <3>2
  <2> QED
    BY <2>2, <2>3
<1> QED
  BY <1>3, <1>4, <1>5, <1>6 DEF UpToDate, InOrder

LEMMA UpToDateNext == Typed /\ UpToDate /\ [Next]_vars => UpToDate'
<1> SUFFICES ASSUME TypeOK, Typed, UpToDate, [Next]_vars PROVE UpToDate'
  BY DEF Typed
<1>1. ASSUME NEW r \in Reporters, NEW k \in Key, Report(r, k) PROVE UpToDate'
  BY <1>1 DEF Report, UpToDate, Entries, InOrder, browsing
<1>2. ASSUME NEW r \in Reporters, Suppress(r) \/ Admit(r) \/ Stamp(r) PROVE UpToDate'
  BY <1>2 DEF Suppress, Admit, Stamp, UpToDate, Entries, InOrder, browsing
<1>3. ASSUME NEW p \in Polls, Send(p) PROVE UpToDate'
  <2>1. /\ Entries' = Entries /\ UNCHANGED <<newest, serial, disordered, lastTs, shown>>
        /\ poll' = [poll EXCEPT ![p] = [NoPoll EXCEPT !.state = "sent", !.since = lastTs]]
    BY <1>3 DEF Send, reporting, Entries
  <2>2. ASSUME NEW q \in Polls
        PROVE  /\ q # p => poll'[q] = poll[q]
               /\ q = p => poll'[q].since = lastTs /\ poll'[q].got = {}
    BY <2>1 DEF TypeOK, NoPoll
  <2>3. lastTs <= lastTs
    BY Bounds DEF TypeOK, Time
  <2> QED
    BY <2>1, <2>2, <2>3 DEF UpToDate, InOrder
<1>4. ASSUME NEW p \in Polls, Answer(p) PROVE UpToDate'
  <2>1. /\ Entries' = Entries /\ UNCHANGED <<newest, serial, disordered, lastTs, shown>>
        /\ poll' = [poll EXCEPT ![p].state = "answered",
                                ![p].got = {e \in Entries : e.ts > poll[p].since}]
    BY <1>4 DEF Answer, reporting, Entries
  <2>2. ASSUME NEW q \in Polls
        PROVE  /\ q # p => poll'[q] = poll[q]
               /\ poll'[q].since = poll[q].since
               /\ q = p => poll'[q].got = {e \in Entries : e.ts > poll[q].since}
    BY <2>1 DEF TypeOK
  <2>3. \A e \in Entries : e.ts \in Nat /\ poll[p].since \in Nat
    BY EntryTypes DEF TypeOK
  <2> QED
    BY <2>1, <2>2, <2>3 DEF UpToDate, InOrder
<1>5. ASSUME NEW p \in Polls, Lose(p) PROVE UpToDate'
  <2>1. /\ Entries' = Entries /\ UNCHANGED <<newest, serial, disordered, lastTs, shown>>
        /\ poll' = [poll EXCEPT ![p] = NoPoll]
    BY <1>5 DEF Lose, reporting, Entries
  <2>2. ASSUME NEW q \in Polls
        PROVE  /\ q # p => poll'[q] = poll[q]
               /\ q = p => poll'[q].since = 0 /\ poll'[q].got = {}
    BY <2>1 DEF TypeOK, NoPoll
  <2>3. 0 <= lastTs
    BY Bounds DEF TypeOK, Time
  <2> QED
    BY <2>1, <2>2, <2>3 DEF UpToDate, InOrder
<1>6. CASE Tick \/ UNCHANGED vars
  BY <1>6 DEF Tick, vars, reporting, browsing, UpToDate, Entries, InOrder
<1> QED
  BY <1>1, <1>2, <1>3, <1>4, <1>5, <1>6, UpToDateAppend, UpToDateReceive DEF Next

\* However polls overlap, fail and overtake each other, the next poll of the
\* browser asks for every event in the ring that it has not got, but for those
\* that entered the ring behind a newer one.
THEOREM NoneMissed == Spec => []NothingMissed
<1>1. Typed /\ UpToDate => NothingMissed
  <2> SUFFICES ASSUME TypeOK, UpToDate, NEW e \in Entries, e.ts < lastTs,
                      e.id \notin disordered
               PROVE  e.id \in shown
    BY DEF NothingMissed, Typed
  <2>1. e.ts \in Nat /\ lastTs \in Nat
    BY EntryTypes DEF TypeOK
  <2> QED
    BY <2>1 DEF UpToDate, InOrder
<1> QED
  BY TypedInit, TypedNext, UpToDateInit, UpToDateNext, <1>1, PTL DEF Spec

-----------------------------------------------------------------------------
(* No flood *)

\* The entries of a key in the ring, and the reporters that have been admitted with
\* it and have not appended yet.
Logged(k) == {i \in DOMAIN log : log[i].key = k}
Pending(k) == {r \in Reporters : at[r] \in {"stamp", "append"} /\ event[r].key = k}
Admitted(k) == Cardinality(Logged(k)) + Cardinality(Pending(k))

Passed(time) == (time - Boot) \div Window

\* A key is admitted when a window has passed since it was last, so the times of its
\* admissions are a window apart and the last of them is noted.
FloodInv ==
  /\ Boot <= now
  /\ \A r \in Reporters : at[r] # "idle" => Boot <= event[r].time /\ event[r].time <= now
  /\ \A k \in Keys :
       /\ debounce[k] <= now
       /\ Admitted(k) # 0 => Boot <= debounce[k] /\ Admitted(k) <= 1 + Passed(debounce[k])

\* Windows that have passed.
LEMMA Quotients ==
  ASSUME NEW a \in Nat, NEW b \in Nat, NEW w \in Nat \ {0}, a <= b
  PROVE  /\ a \div w \in Nat /\ b \div w \in Nat /\ a \div w <= b \div w
         /\ a + w <= b => a \div w + 1 <= b \div w
<1>1. a \div w \in Nat
  OBVIOUS
<1>2. b \div w \in Nat
  OBVIOUS
<1>3. a \div w <= b \div w
  OBVIOUS
<1>4. ASSUME a + w <= b PROVE a \div w + 1 <= b \div w
  BY <1>4
<1> QED
  BY <1>1, <1>2, <1>3, <1>4

LEMMA Windows ==
  ASSUME NEW s \in Nat, NEW t \in Nat, Boot <= s, s <= t
  PROVE  /\ Passed(s) \in Nat /\ Passed(t) \in Nat /\ Passed(s) <= Passed(t)
         /\ t - s >= Window => Passed(s) + 1 <= Passed(t)
<1>1. Window \in Nat \ {0} /\ Boot \in Nat
  BY Bounds
<1>2. /\ s - Boot \in Nat /\ t - Boot \in Nat /\ s - Boot <= t - Boot
      /\ t - s >= Window => (s - Boot) + Window <= t - Boot
  BY <1>1
<1> QED
  BY <1>1, <1>2, Quotients DEF Passed

LEMMA CountsType ==
  ASSUME TypeOK, NEW k
  PROVE  /\ IsFiniteSet(Logged(k)) /\ IsFiniteSet(Pending(k))
         /\ Cardinality(Logged(k)) \in Nat /\ Cardinality(Pending(k)) \in Nat
         /\ Admitted(k) \in Nat
<1>1. DOMAIN log = 1..Len(log) /\ Len(log) \in Nat
  BY DEF TypeOK
<1>2. Logged(k) \subseteq 1..Len(log) /\ IsFiniteSet(1..Len(log))
  BY <1>1, FS_Interval DEF Logged
<1>3. Pending(k) \subseteq Reporters
  BY DEF Pending
<1>4. IsFiniteSet(Logged(k)) /\ IsFiniteSet(Pending(k))
  BY <1>2, <1>3, Bounds, FS_Subset
<1>5. Cardinality(Logged(k)) \in Nat /\ Cardinality(Pending(k)) \in Nat
  BY <1>4, FS_CardinalityType
<1> QED
  BY <1>4, <1>5 DEF Admitted

LEMMA CountsAfter ==
  ASSUME TypeOK', NEW k
  PROVE  /\ Cardinality(Logged(k))' \in Nat /\ Cardinality(Pending(k))' \in Nat
         /\ Admitted(k)' \in Nat
<1>1. DOMAIN log' = 1..Len(log') /\ Len(log') \in Nat
  BY DEF TypeOK
<1>2. Logged(k)' \subseteq 1..Len(log') /\ IsFiniteSet(1..Len(log'))
  BY <1>1, FS_Interval DEF Logged
<1>3. Pending(k)' \subseteq Reporters
  BY DEF Pending
<1>4. IsFiniteSet(Logged(k)') /\ IsFiniteSet(Pending(k)')
  BY <1>2, <1>3, Bounds, FS_Subset
<1>5. Cardinality(Logged(k)') \in Nat /\ Cardinality(Pending(k)') \in Nat
  BY <1>4, FS_CardinalityType
<1> QED
  BY <1>5 DEF Admitted

\* An append adds at most the new entry to those of its key, and none to the others.
LEMMA PushLogs ==
  ASSUME TypeOK, TypeOK', NEW k, NEW entry \in Entry, log' = Push(entry)
  PROVE  Cardinality(Logged(k))' <= Cardinality(Logged(k)) + (IF entry.key = k THEN 1 ELSE 0)
<1> DEFINE longer == Append(log, entry)
           drop == IF Len(longer) > RingSize THEN 1 ELSE 0
           Grown == {i \in 1..Len(log) + 1 : longer[i].key = k}
<1>1. log \in Seq(Entry) /\ Len(log) \in Nat /\ DOMAIN log = 1..Len(log)
  BY DEF TypeOK
<1>2. /\ longer \in Seq(Entry) /\ Len(longer) = Len(log) + 1
      /\ \A i \in 1..Len(log) : longer[i] = log[i]
      /\ longer[Len(log) + 1] = entry
  BY <1>1, AppendProperties
<1>3. Grown = Logged(k) \cup (IF entry.key = k THEN {Len(log) + 1} ELSE {})
  <2>1. \A i \in 1..Len(log) + 1 : i \in 1..Len(log) \/ i = Len(log) + 1
    BY <1>1
  <2>2. \A i \in 1..Len(log) : i \in 1..Len(log) + 1
    BY <1>1
  <2>3. Len(log) + 1 \in 1..Len(log) + 1 /\ Len(log) + 1 \notin 1..Len(log)
    BY <1>1
  <2>4. Logged(k) = {i \in 1..Len(log) : log[i].key = k}
    BY <1>1 DEF Logged
  <2> HIDE DEF longer
  <2> QED
    BY <1>2, <2>1, <2>2, <2>3, <2>4
<1>4. /\ IsFiniteSet(Grown)
      /\ Cardinality(Grown) <= Cardinality(Logged(k)) + (IF entry.key = k THEN 1 ELSE 0)
  <2>1. IsFiniteSet(Logged(k)) /\ Cardinality(Logged(k)) \in Nat
    BY CountsType
  <2> HIDE DEF Grown
  <2>2. CASE entry.key = k
    <3>1. Grown = Logged(k) \cup {Len(log) + 1}
      BY <1>3, <2>2
    <3>2. /\ IsFiniteSet(Grown)
          /\ Cardinality(Grown) = IF Len(log) + 1 \in Logged(k) THEN Cardinality(Logged(k))
                                  ELSE Cardinality(Logged(k)) + 1
      BY <2>1, <3>1, FS_AddElement
    <3> QED
      BY <2>1, <2>2, <3>2
  <2>3. CASE entry.key # k
    <3>1. Grown = Logged(k)
      BY <1>3, <2>3
    <3> QED
      BY <2>1, <2>3, <3>1
  <2> QED
    BY <2>2, <2>3
<1>5. /\ drop \in {0, 1} /\ Len(log') = Len(longer) - drop /\ log' \in Seq(Entry)
      /\ \A i \in 1..Len(log') : log'[i] = longer[i + drop]
  <2>1. Len(longer) \in Nat \ {0} /\ RingSize \in Nat \ {0}
    BY <1>1, <1>2, Bounds
  <2>2. log' = SubSeq(longer, drop + 1, Len(longer))
    BY DEF Push
  <2>3. drop + 1 \in 1..Len(longer) + 1 /\ drop \in {0, 1} /\ Len(longer) \in Nat
    BY <2>1
  <2> HIDE DEF longer, drop
  <2>4. Len(log') = Len(longer) - drop
    BY <2>2, <2>3, <1>2, SubSeqProperties
  <2>5. \A i \in 1..Len(log') : log'[i] = longer[i + drop]
    BY <2>2, <2>3, <1>2, SubSeqProperties
  <2> QED
    BY <2>3, <2>4, <2>5 DEF TypeOK
<1> HIDE DEF longer, drop
<1>6. Logged(k)' = {i \in 1..Len(log') : log'[i].key = k}
  BY <1>5 DEF Logged
<1> DEFINE shift == [i \in Logged(k)' |-> i + drop]
<1>7. shift \in Injection(Logged(k)', Grown)
  <2>1. ASSUME NEW i \in Logged(k)' PROVE i \in Int /\ i + drop \in Grown
    <3>1. i \in 1..Len(log') /\ log'[i].key = k
      BY <1>6
    <3>2. i + drop \in 1..Len(log) + 1
      BY <1>1, <1>2, <1>5, <3>1
    <3> QED
      BY <1>5, <3>1, <3>2
  <2> HIDE DEF Grown
  <2>2. shift \in [Logged(k)' -> Grown]
    BY <2>1
  <2>3. \A i, j \in Logged(k)' : shift[i] = shift[j] => i = j
    BY <1>5, <2>1
  <2> QED
    BY <2>2, <2>3 DEF Injection, IsInjective
<1>8. Cardinality(Logged(k)') <= Cardinality(Grown)
  BY <1>4, <1>7, FS_Injection
<1>9. Cardinality(Logged(k)') \in Nat /\ Cardinality(Grown) \in Nat
  <2>1. IsFiniteSet(Logged(k)') /\ IsFiniteSet(Grown)
    BY <1>4, <1>7, FS_Injection
  <2> QED
    BY <2>1, FS_CardinalityType
<1>10. Cardinality(Logged(k))' = Cardinality(Logged(k)')
  OBVIOUS
<1> HIDE DEF Grown
<1> QED
  BY <1>4, <1>8, <1>9, <1>10, CountsType

\* Who is on the way to the ring: an admission adds one, an append takes it away.
LEMMA PendingStep ==
  ASSUME TypeOK, NEW r \in Reporters, NEW k \in Keys
  PROVE  /\ (\E key \in Key : Report(r, key)) \/ Suppress(r) \/ Stamp(r)
              => Pending(k)' = Pending(k)
         /\ Admit(r) => Cardinality(Pending(k))'
              = Cardinality(Pending(k)) + (IF event[r].key = k THEN 1 ELSE 0)
         /\ AppendEntry(r) => Cardinality(Pending(k))'
              = Cardinality(Pending(k)) - (IF event[r].key = k THEN 1 ELSE 0)
<1>0. k # NoKey
  BY EventLogAssumption
<1>1. ASSUME NEW key \in Key, Report(r, key) PROVE Pending(k)' = Pending(k)
  BY <1>0, <1>1 DEF Report, Go, Hold, Pending, TypeOK
<1>2. ASSUME Suppress(r) PROVE Pending(k)' = Pending(k)
  BY <1>2 DEF Suppress, Go, Pending, TypeOK
<1>3. ASSUME Stamp(r) PROVE Pending(k)' = Pending(k)
  BY <1>3 DEF Stamp, Go, Hold, Pending, TypeOK
<1>4. ASSUME Admit(r)
      PROVE  Cardinality(Pending(k))'
               = Cardinality(Pending(k)) + (IF event[r].key = k THEN 1 ELSE 0)
  <2>1. Pending(k)' = Pending(k) \cup (IF event[r].key = k THEN {r} ELSE {}) /\ r \notin Pending(k)
    BY <1>4 DEF Admit, Go, Pending, TypeOK
  <2>2. CASE event[r].key = k
    <3>1. Pending(k)' = Pending(k) \cup {r}
      BY <2>1, <2>2
    <3>2. Cardinality(Pending(k))' = Cardinality(Pending(k)) + 1
      BY <2>1, <3>1, CountsType, FS_AddElement
    <3> QED
      BY <2>2, <3>2
  <2>3. CASE event[r].key # k
    <3>1. Pending(k)' = Pending(k)
      BY <2>1, <2>3
    <3> QED
      BY <2>3, <3>1, CountsType
  <2> QED
    BY <2>2, <2>3
<1>5. ASSUME AppendEntry(r)
      PROVE  Cardinality(Pending(k))'
               = Cardinality(Pending(k)) - (IF event[r].key = k THEN 1 ELSE 0)
  <2>1. Pending(k)' = Pending(k) \ {r} /\ (r \in Pending(k) <=> event[r].key = k)
    BY <1>5 DEF AppendEntry, Go, Pending, TypeOK
  <2>2. CASE event[r].key = k
    <3>1. Cardinality(Pending(k))' = Cardinality(Pending(k)) - 1
      BY <2>1, <2>2, CountsType, FS_RemoveElement, ZenonT(30)
    <3> QED
      BY <2>2, <3>1
  <2>3. CASE event[r].key # k
    <3>1. Pending(k)' = Pending(k)
      BY <2>1, <2>3
    <3> QED
      BY <2>3, <3>1, CountsType
  <2> QED
    BY <2>2, <2>3
<1> QED
  BY <1>1, <1>2, <1>3, <1>4, <1>5

\* Clock readings are natural numbers.
LEMMA Readings ==
  ASSUME TypeOK
  PROVE  /\ now \in Nat /\ Boot \in Nat /\ \A k \in Keys : debounce[k] \in Nat
         /\ \A r \in Reporters : event[r].time \in Nat
<1>1. /\ now \in Time /\ \A k \in Keys : debounce[k] \in Time
      /\ \A r \in Reporters : event[r].time \in Time
  BY DEF TypeOK
<1> QED
  BY <1>1, EntryTypes, Bounds

LEMMA FloodAdmit ==
  ASSUME Typed, Typed', FloodInv, NEW r \in Reporters, Admit(r)
  PROVE  FloodInv'
<1> DEFINE t == event[r].time
<1>0. TypeOK /\ TypeOK'
  BY DEF Typed
<1>1. /\ Boot <= t /\ t <= now /\ t \in Nat /\ UNCHANGED <<event, log, now>>
      /\ at[r] = "check" /\ at' = [at EXCEPT ![r] = "stamp"]
  BY <1>0, Readings DEF Admit, Go, browsing, FloodInv
<1>2. Boot <= now' /\ \A q \in Reporters :
        at'[q] # "idle" => Boot <= event'[q].time /\ event'[q].time <= now'
  BY <1>0, <1>1 DEF FloodInv, TypeOK
<1>3. ASSUME NEW k \in Keys
      PROVE  /\ debounce'[k] <= now'
             /\ Admitted(k)' # 0 =>
                  Boot <= debounce'[k] /\ Admitted(k)' <= 1 + Passed(debounce'[k])
  <2>1. Logged(k)' = Logged(k) /\ Admitted(k) \in Nat /\ debounce[k] \in Nat /\ debounce[k] <= now
    BY <1>0, <1>1, CountsType, Readings DEF Logged, FloodInv
  <2>2. CASE event[r].key = k
    <3>1. debounce'[k] = t /\ t - debounce[k] >= Window
      BY <1>0, <1>1, <2>1, <2>2, Bounds DEF Admit, TooSoon, TypeOK
    <3>2. Admitted(k)' = Admitted(k) + 1
      BY <1>0, <2>1, <2>2, PendingStep, CountsType DEF Admitted
    <3>3. CASE Admitted(k) = 0
      <4>1. Passed(t) \in Nat
        BY <1>1, Windows
      <4> QED
        BY <1>1, <3>1, <3>2, <3>3, <4>1
    <3>4. CASE Admitted(k) # 0
      <4>1. Boot <= debounce[k] /\ Admitted(k) <= 1 + Passed(debounce[k])
        BY <3>4 DEF FloodInv
      <4>2. debounce[k] <= t
        BY <1>1, <2>1, <3>1, Bounds
      <4>3. Passed(debounce[k]) \in Nat /\ Passed(t) \in Nat /\ Passed(debounce[k]) + 1 <= Passed(t)
        BY <1>1, <2>1, <3>1, <4>1, <4>2, Windows
      <4> QED
        BY <1>1, <2>1, <3>1, <3>2, <4>1, <4>3
    <3> QED
      BY <3>3, <3>4
  <2>3. CASE event[r].key # k
    <3>1. debounce'[k] = debounce[k]
      BY <1>0, <2>3 DEF Admit, TypeOK
    <3>2. Admitted(k)' = Admitted(k)
      BY <1>0, <2>1, <2>3, PendingStep, CountsType DEF Admitted
    <3> QED
      BY <1>1, <2>1, <3>1, <3>2 DEF FloodInv, Passed
  <2> QED
    BY <2>2, <2>3
<1> QED
  BY <1>2, <1>3 DEF FloodInv

LEMMA FloodAppend ==
  ASSUME Typed, Typed', FloodInv, NEW r \in Reporters, AppendEntry(r)
  PROVE  FloodInv'
<1>0. TypeOK /\ TypeOK'
  BY DEF Typed
<1>1. PICK new \in Entry :
        new = [id |-> serial', key |-> event[r].key, ts |-> event[r].time]
  BY AppendType
<1>2. log' = Push(new) /\ new.key = event[r].key /\ UNCHANGED <<now, debounce>>
  BY <1>1 DEF AppendEntry
<1>3. Boot <= now' /\ \A q \in Reporters :
        at'[q] # "idle" => Boot <= event'[q].time /\ event'[q].time <= now'
  BY <1>0, <1>2 DEF AppendEntry, Go, FloodInv, TypeOK
<1>4. ASSUME NEW k \in Keys
      PROVE  Admitted(k)' <= Admitted(k) /\ Admitted(k)' \in Nat /\ Admitted(k) \in Nat
  <2> DEFINE one == IF event[r].key = k THEN 1 ELSE 0
  <2>1. Cardinality(Logged(k))' <= Cardinality(Logged(k)) + one
    BY <1>0, <1>2, PushLogs
  <2>2. Cardinality(Pending(k))' = Cardinality(Pending(k)) - one
    BY <1>0, PendingStep
  <2>3. /\ Cardinality(Logged(k)) \in Nat /\ Cardinality(Pending(k)) \in Nat
        /\ Admitted(k) \in Nat
    BY <1>0, CountsType
  <2>4. /\ Cardinality(Logged(k))' \in Nat /\ Cardinality(Pending(k))' \in Nat
        /\ Admitted(k)' \in Nat
    BY <1>0, CountsAfter
  <2>5. one \in Nat
    OBVIOUS
  <2> HIDE DEF one
  <2> QED
    BY <2>1, <2>2, <2>3, <2>4, <2>5 DEF Admitted
<1>5. \A k \in Keys : debounce[k] \in Nat
  BY <1>0, Readings
<1>6. ASSUME NEW k \in Keys
      PROVE  /\ debounce'[k] <= now'
             /\ Admitted(k)' # 0 =>
                  Boot <= debounce'[k] /\ Admitted(k)' <= 1 + Passed(debounce'[k])
  <2>1. CASE Admitted(k) = 0
    BY <1>2, <1>4, <2>1 DEF FloodInv
  <2>2. CASE Admitted(k) # 0
    <3>1. Boot <= debounce[k] /\ Admitted(k) <= 1 + Passed(debounce[k]) /\ debounce[k] <= now
      BY <2>2 DEF FloodInv
    <3>2. Passed(debounce[k]) \in Nat
      BY <1>5, <3>1, Windows
    <3>3. Admitted(k)' <= 1 + Passed(debounce[k])
      BY <1>4, <3>1, <3>2
    <3> QED
      BY <1>2, <3>1, <3>3
  <2> QED
    BY <2>1, <2>2
<1> QED
  BY <1>3, <1>6 DEF FloodInv

LEMMA FloodNext == Typed /\ FloodInv /\ [Next]_vars => FloodInv'
<1> SUFFICES ASSUME Typed, FloodInv, [Next]_vars PROVE FloodInv'
  OBVIOUS
<1>0. Typed' /\ TypeOK
  BY TypedNext DEF Typed
<1>7. now \in Nat /\ Boot \in Nat /\ (\A k \in Keys : debounce[k] \in Nat)
      /\ \A r \in Reporters : event[r].time \in Nat
  BY <1>0, Readings
<1>8. Boot <= now /\ now <= now
  BY <1>7 DEF FloodInv
<1>1. ASSUME NEW r \in Reporters,
             (\E key \in Key : Report(r, key)) \/ Suppress(r) \/ Stamp(r)
      PROVE  FloodInv'
  <2>1. UNCHANGED <<now, debounce, log>>
    BY <1>1 DEF Report, Suppress, Stamp
  <2>2. \A k \in Keys : Admitted(k)' = Admitted(k)
    BY <1>0, <1>1, <2>1, PendingStep DEF Admitted, Logged
  <2>3. \A q \in Reporters : at'[q] # "idle" => Boot <= event'[q].time /\ event'[q].time <= now'
    BY <1>0, <1>1, <1>8, <2>1 DEF Report, Suppress, Stamp, Go, Hold, FloodInv, TypeOK
  <2> QED
    BY <2>1, <2>2, <2>3 DEF FloodInv, Passed
<1>2. CASE Tick
  <2>1. now' = now + 1 /\ UNCHANGED <<at, event, log, debounce>>
    BY <1>2 DEF Tick, reporting
  <2>2. \A k \in Keys : Admitted(k)' = Admitted(k)
    BY <2>1 DEF Admitted, Logged, Pending
  <2> QED
    BY <1>7, <2>1, <2>2 DEF FloodInv, Passed
<1>3. CASE UNCHANGED <<now, at, event, log, debounce>>
  <2>1. \A k \in Keys : Admitted(k)' = Admitted(k)
    BY <1>3 DEF Admitted, Logged, Pending
  <2> QED
    BY <1>3, <2>1 DEF FloodInv, Passed
<1>4. ASSUME NEW p \in Polls, Send(p) \/ Answer(p) \/ Receive(p) \/ Lose(p)
      PROVE  UNCHANGED <<now, at, event, log, debounce>>
  BY <1>4 DEF Send, Answer, Receive, Lose, reporting
<1>5. CASE UNCHANGED vars
  BY <1>3, <1>5 DEF vars, reporting
<1>6. ASSUME NEW r \in Reporters, Admit(r) \/ AppendEntry(r) PROVE FloodInv'
  BY <1>0, <1>6, FloodAdmit, FloodAppend
<1> QED
  BY <1>1, <1>2, <1>3, <1>4, <1>5, <1>6 DEF Next

\* However many threads report it and whenever they read the clock, read what was
\* emitted last and append, a debounced event is in the ring at most once per window.
THEOREM NeverFlooded == Spec => []NoFlood
<1>1. Init => FloodInv
  <2> SUFFICES ASSUME Init PROVE FloodInv
    OBVIOUS
  <2>1. \A k : Logged(k) = {} /\ Pending(k) = {}
    BY DEF Init, Logged, Pending
  <2>2. \A k : Admitted(k) = 0
    BY <2>1, FS_EmptySet DEF Admitted
  <2> QED
    BY <2>2, Bounds DEF Init, FloodInv
<1>2. Typed /\ FloodInv => NoFlood
  <2> SUFFICES ASSUME TypeOK, FloodInv, NEW k \in Keys
               PROVE  Cardinality(Logged(k)) <= 1 + Passed(now)
    BY DEF NoFlood, Typed, Logged, Passed
  <2>1. /\ Cardinality(Logged(k)) \in Nat /\ Cardinality(Pending(k)) \in Nat
        /\ Admitted(k) = Cardinality(Logged(k)) + Cardinality(Pending(k))
    BY CountsType DEF Admitted
  <2>2. now \in Nat /\ Boot <= now /\ now <= now /\ debounce[k] \in Nat /\ debounce[k] <= now
    BY Readings DEF FloodInv
  <2>3. Passed(now) \in Nat
    BY <2>2, Windows
  <2>4. CASE Admitted(k) = 0
    BY <2>1, <2>3, <2>4
  <2>5. CASE Admitted(k) # 0
    <3>1. Boot <= debounce[k] /\ Admitted(k) <= 1 + Passed(debounce[k])
      BY <2>5 DEF FloodInv
    <3>2. Passed(debounce[k]) \in Nat /\ Passed(debounce[k]) <= Passed(now)
      BY <2>2, <3>1, Windows
    <3> QED
      BY <2>1, <2>3, <3>1, <3>2
  <2> QED
    BY <2>4, <2>5
<1> QED
  BY <1>1, <1>2, FloodNext, TypedInit, TypedNext, PTL DEF Spec
=============================================================================
