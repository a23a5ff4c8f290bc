------------------------------- MODULE EventLog -------------------------------
(***************************************************************************)
(* The event log: log_event, called by any thread, the ring buffer it fills, *)
(* and the browser that polls /api/events for what is newer than the newest  *)
(* entry it has.  One clock stands for the monotonic one of the debounce and *)
(* the wall clock of the timestamps; it counts from the boot of the machine. *)
(***************************************************************************)
EXTENDS Integers, Sequences, FiniteSets

CONSTANTS
  Reporters,  \* threads that may be in log_event
  Keys,       \* debounce keys; NoKey is an event that is not debounced
  Window,     \* _debounce_s
  RingSize,   \* maxlen of the buffer
  Polls,      \* polls the browser may have under way at once
  Boot,       \* uptime of the machine when the dashboard starts
  MaxTime,    \* bound on the clock, for model checking only
  MaxEvents   \* bound on the number of events, for model checking only

NoKey == "none"

ASSUME EventLogAssumption ==
  /\ NoKey \notin Keys /\ Window \in Nat \ {0} /\ RingSize \in Nat \ {0}
  /\ Boot \in Nat /\ MaxTime \in Nat /\ MaxEvents \in Nat /\ IsFiniteSet(Reporters)

VARIABLES
  now,       \* the clock
  debounce,  \* _event_debounce: time of the last emission, 0 by default
  at, event, \* where each reporter is; the key, clock reading and ts it holds
  log,       \* _event_log
  serial,    \* history: number of events appended
  newest,    \* history: the newest timestamp that has entered the ring
  poll,      \* each poll: idle, sent with `since`, or answered with entries
  lastTs,    \* _logLastTs of the browser
  shown,     \* history: the events the browser got
  disordered \* history: the events that entered the ring and were not its newest

reporting == <<debounce, at, event, log, serial, newest, disordered>>
browsing == <<poll, lastTs, shown>>
vars == <<now, reporting, browsing>>

Key == Keys \cup {NoKey}
Time == 0..(Boot + MaxTime)
Entry == [id : 1..MaxEvents, key : Key, ts : Time]
NoEvent == [key |-> NoKey, time |-> 0]
NoPoll == [state |-> "idle", since |-> 0, got |-> {}]

TypeOK ==
  /\ now \in Time /\ lastTs \in Time /\ newest \in Time /\ serial \in 0..MaxEvents
  /\ debounce \in [Keys -> Time]
  /\ at \in [Reporters -> {"idle", "check", "stamp", "append"}]
  /\ event \in [Reporters -> [key : Key, time : Time]]
  /\ log \in Seq(Entry) /\ Len(log) <= RingSize
  /\ poll \in [Polls -> [state : {"idle", "sent", "answered"}, since : Time,
                        got : SUBSET Entry]]
  /\ shown \subseteq 1..MaxEvents /\ disordered \subseteq 1..MaxEvents

Init ==
  /\ now = Boot /\ debounce = [k \in Keys |-> 0]
  /\ at = [r \in Reporters |-> "idle"] /\ event = [r \in Reporters |-> NoEvent]
  /\ log = <<>> /\ serial = 0 /\ newest = 0 /\ disordered = {}
  /\ poll = [p \in Polls |-> NoPoll] /\ lastTs = 0 /\ shown = {}

Under == {r \in Reporters : at[r] # "idle"}
Hold(r, key, time) == event' = [event EXCEPT ![r] = [key |-> key, time |-> time]]
Go(r, stage) == at' = [at EXCEPT ![r] = stage]

-----------------------------------------------------------------------------
(* log_event *)

\* A debounced event reads the clock before it takes the lock.
Report(r, key) ==
  /\ at[r] = "idle" /\ serial + Cardinality(Under) < MaxEvents
  /\ Go(r, IF key = NoKey THEN "stamp" ELSE "check")
  /\ Hold(r, key, now)
  /\ UNCHANGED <<now, debounce, log, serial, newest, disordered, browsing>>

TooSoon(r) == event[r].time - debounce[event[r].key] < Window

Suppress(r) ==
  /\ at[r] = "check" /\ TooSoon(r)
  /\ Go(r, "idle") /\ event' = [event EXCEPT ![r] = NoEvent]
  /\ UNCHANGED <<now, debounce, log, serial, newest, disordered, browsing>>

\* Variant: the time of the emission is not noted.
AdmitUnnoted(r) ==
  /\ at[r] = "check" /\ ~TooSoon(r) /\ Go(r, "stamp")
  /\ UNCHANGED <<now, debounce, event, log, serial, newest, disordered, browsing>>

Admit(r) ==
  /\ at[r] = "check" /\ ~TooSoon(r)
  /\ debounce' = [debounce EXCEPT ![event[r].key] = event[r].time]
  /\ Go(r, "stamp")
  /\ UNCHANGED <<now, event, log, serial, newest, disordered, browsing>>

\* The entry gets its timestamp outside the lock; the clock is fine enough for
\* no two of them to be equal.
Stamped ==
  {log[i].ts : i \in DOMAIN log}
    \cup {event[r].time : r \in {q \in Reporters : at[q] = "append"}}

Stamp(r) ==
  /\ at[r] = "stamp" /\ now \notin Stamped
  /\ Go(r, "append") /\ Hold(r, event[r].key, now)
  /\ UNCHANGED <<now, debounce, log, serial, newest, disordered, browsing>>

\* It enters the ring under the lock.
Push(entry) ==
  LET longer == Append(log, entry)
  IN SubSeq(longer, IF Len(longer) > RingSize THEN 2 ELSE 1, Len(longer))

Entries == {log[i] : i \in DOMAIN log}

AppendEntry(r) ==
  /\ at[r] = "append" /\ Go(r, "idle") /\ event' = [event EXCEPT ![r] = NoEvent]
  /\ serial' = serial + 1
  /\ log' = Push([id |-> serial', key |-> event[r].key, ts |-> event[r].time])
  /\ disordered' = disordered \cup {i \in {serial'} : event[r].time <= newest}
  /\ newest' = IF event[r].time > newest THEN event[r].time ELSE newest
  /\ UNCHANGED <<now, debounce, browsing>>

-----------------------------------------------------------------------------
(* _pollEvents of the browser, events_since of the server *)

\* Every 3 s, whether the previous poll has been answered or not.
Send(p) ==
  /\ poll[p].state = "idle"
  /\ poll' = [poll EXCEPT ![p] = [NoPoll EXCEPT !.state = "sent", !.since = lastTs]]
  /\ UNCHANGED <<now, reporting, lastTs, shown>>

Answer(p) ==
  /\ poll[p].state = "sent"
  /\ poll' = [poll EXCEPT ![p].state = "answered",
                          ![p].got = {e \in Entries : e.ts > poll[p].since}]
  /\ UNCHANGED <<now, reporting, lastTs, shown>>

\* Variant: the browser notes the time of the answer.
NewestNow(got) == IF got = {} THEN lastTs ELSE now

\* The newest timestamp among what the browser has and what it was sent.
Newest(got) ==
  CHOOSE t \in {e.ts : e \in got} \cup {lastTs} :
    t >= lastTs /\ \A e \in got : t >= e.ts

Receive(p) ==
  /\ poll[p].state = "answered"
  /\ lastTs' = Newest(poll[p].got)
  /\ shown' = shown \cup {e.id : e \in poll[p].got}
  /\ poll' = [poll EXCEPT ![p] = NoPoll]
  /\ UNCHANGED <<now, reporting>>

\* A poll fails or takes longer than 4 s: the next one asks again.
Lose(p) ==
  /\ poll[p].state # "idle" /\ poll' = [poll EXCEPT ![p] = NoPoll]
  /\ UNCHANGED <<now, reporting, lastTs, shown>>

Tick == now < Boot + MaxTime /\ now' = now + 1 /\ UNCHANGED <<reporting, browsing>>

Next ==
  \/ \E r \in Reporters : \/ \E k \in Key : Report(r, k)
                          \/ Suppress(r) \/ Admit(r) \/ Stamp(r) \/ AppendEntry(r)
  \/ \E p \in Polls : Send(p) \/ Answer(p) \/ Receive(p) \/ Lose(p)
  \/ Tick

Spec == Init /\ [][Next]_vars

-----------------------------------------------------------------------------
(* Properties *)

\* However many threads report it, a permanent fault does not flood the log: a
\* debounced event is logged at most once per window.
NoFlood ==
  \A k \in Keys :
    Cardinality({i \in DOMAIN log : log[i].key = k}) <= 1 + (now - Boot) \div Window

\* Whatever polls overlap, fail and come back out of order, no event that is
\* older than the newest the browser has is missing from it, for the next poll
\* would not ask for it; but one that entered the ring behind a newer one, for
\* its timestamp was taken outside the lock, may be.
NothingMissed ==
  \A e \in Entries : e.ts < lastTs /\ e.id \notin disordered => e.id \in shown
=============================================================================
