------------------------------- MODULE Recording -------------------------------
(***************************************************************************)
(* Video recording: RecordingState, the HTTP threads that start and stop a   *)
(* session, and the recording_loop thread each start spawns, which writes    *)
(* the two feeds to segment files in a directory named after the second of    *)
(* the start, which a session before may have used.  The feeds are one, and  *)
(* a file is finalized when its writer is released.                          *)
(***************************************************************************)
EXTENDS Naturals

CONSTANTS
  Sessions,   \* sessions, each with a thread of its own
  Dirs,       \* directories
  Clients,    \* HTTP threads
  Segments,   \* bound on the segment index, for model checking only
  MayFail     \* whether cv2 may be missing

ASSUME RecordingAssumption == Segments \in Nat /\ MayFail \in BOOLEAN

VARIABLES
  active, dir,   \* RecordingState; dir is a directory or "none"
  spawning,      \* the session each client has started and not spawned yet
  at,            \* where the loop of each session is
  into,          \* rec_dir of each loop
  segment,       \* seg_index of each loop
  writing,       \* whether each loop has a writer
  files          \* the segment files; "mixed": two writers have had it open at once

vars == <<active, dir, spawning, at, into, segment, writing, files>>

None == "none"
File == Dirs \X (0..Segments)
Stage == {"unborn", "import", "dir", "abort", "top", "roll", "write", "release", "dead"}

TypeOK ==
  /\ active \in BOOLEAN /\ dir \in Dirs \cup {None}
  /\ spawning \in [Clients -> Sessions \cup {None}]
  /\ at \in [Sessions -> Stage] /\ into \in [Sessions -> Dirs \cup {None}]
  /\ segment \in [Sessions -> 0..Segments] /\ writing \in [Sessions -> BOOLEAN]
  /\ files \in [File -> {"absent", "partial", "mixed", "final"}]

Init ==
  /\ active = FALSE /\ dir = None /\ spawning = [c \in Clients |-> None]
  /\ at = [s \in Sessions |-> "unborn"] /\ into = [s \in Sessions |-> None]
  /\ segment = [s \in Sessions |-> 0] /\ writing = [s \in Sessions |-> FALSE]
  /\ files = [f \in File |-> "absent"]

Go(s, stage) == at' = [at EXCEPT ![s] = stage]
loops == <<at, into, segment, writing, files>>

-----------------------------------------------------------------------------
(* /api/record/start and /api/record/stop *)

New(s) == at[s] = "unborn" /\ \A c \in Clients : spawning[c] # s

\* Under the lock, unless a session is active already.  The second comes from the
\* browser, or from the wall clock, and a directory that exists will do.
Start(c, s) ==
  /\ spawning[c] = None /\ ~active /\ New(s)
  /\ active' = TRUE /\ dir' \in Dirs
  /\ spawning' = [spawning EXCEPT ![c] = s]
  /\ UNCHANGED loops

\* The thread is started after the lock is released.
Spawn(c) ==
  /\ spawning[c] # None
  /\ Go(spawning[c], "import") /\ spawning' = [spawning EXCEPT ![c] = None]
  /\ UNCHANGED <<active, dir, into, segment, writing, files>>

Stop(c) ==
  /\ spawning[c] = None /\ active
  /\ active' = FALSE /\ dir' = None
  /\ UNCHANGED <<spawning, loops>>

-----------------------------------------------------------------------------
(* recording_loop *)

Import(s) ==
  /\ at[s] = "import"
  /\ Go(s, "dir") \/ (MayFail /\ Go(s, "abort"))
  /\ UNCHANGED <<active, dir, spawning, into, segment, writing, files>>

ReadDir(s) ==
  /\ at[s] = "dir"
  /\ into' = [into EXCEPT ![s] = dir] /\ Go(s, IF dir = None THEN "abort" ELSE "top")
  /\ UNCHANGED <<active, dir, spawning, segment, writing, files>>

\* A loop that cannot run ends the recording.
Abort(s) ==
  /\ at[s] = "abort" /\ active' = FALSE /\ Go(s, "dead")
  /\ UNCHANGED <<dir, spawning, into, segment, writing, files>>

\* Variant: the loop does not look at the flag.
TopForever(s) ==
  /\ at[s] = "top" /\ Go(s, "roll")
  /\ UNCHANGED <<active, dir, spawning, into, segment, writing, files>>

Top(s) ==
  /\ at[s] = "top" /\ Go(s, IF active THEN "roll" ELSE "release")
  /\ UNCHANGED <<active, dir, spawning, into, segment, writing, files>>

Current(s) == <<into[s], segment[s]>>

Release(s) ==
  /\ writing' = [writing EXCEPT ![s] = FALSE]
  /\ files' = IF writing[s] /\ files[Current(s)] = "partial"
              THEN [files EXCEPT ![Current(s)] = "final"] ELSE files

\* Variant: the next segment begins and the last one is not released.
RollOpen(s) ==
  /\ at[s] = "roll" /\ Go(s, "write")
  /\ \/ UNCHANGED segment
     \/ segment[s] < Segments /\ segment' = [segment EXCEPT ![s] = segment[s] + 1]
  /\ UNCHANGED <<active, dir, spawning, into, writing, files>>

\* Variant: the next segment begins under the name of the last.
RollSame(s) ==
  /\ at[s] = "roll" /\ Go(s, "write")
  /\ UNCHANGED <<writing, files>> \/ Release(s)
  /\ UNCHANGED <<active, dir, spawning, into, segment>>

\* Every SEGMENT_SECONDS the file is finalized and the next segment begins.
Roll(s) ==
  /\ at[s] = "roll" /\ Go(s, "write")
  /\ \/ UNCHANGED <<segment, writing, files>>
     \/ segment[s] < Segments /\ Release(s)
        /\ segment' = [segment EXCEPT ![s] = segment[s] + 1]
  /\ UNCHANGED <<active, dir, spawning, into>>

Shared(s) == \E t \in Sessions \ {s} : writing[t] /\ Current(t) = Current(s)

\* A frame, if there is one; the first of a segment opens its file, and empties
\* it if it exists.
Write(s) ==
  /\ at[s] = "write" /\ Go(s, "top")
  /\ \/ UNCHANGED <<writing, files>>
     \/ /\ writing' = [writing EXCEPT ![s] = TRUE]
        /\ files' = [files EXCEPT ![Current(s)] =
             IF Shared(s) \/ (writing[s] /\ @ = "mixed") THEN "mixed" ELSE "partial"]
  /\ UNCHANGED <<active, dir, spawning, into, segment>>

Last(s) ==
  /\ at[s] = "release" /\ Release(s) /\ Go(s, "dead")
  /\ UNCHANGED <<active, dir, spawning, into, segment>>

Loop(s) ==
  Import(s) \/ ReadDir(s) \/ Abort(s) \/ Top(s) \/ Roll(s) \/ Write(s) \/ Last(s)

Next ==
  \/ \E c \in Clients : Spawn(c) \/ Stop(c) \/ \E s \in Sessions : Start(c, s)
  \/ \E s \in Sessions : Loop(s)

\* Threads run; nobody is obliged to start or stop a recording.
Fairness ==
  /\ \A c \in Clients : WF_vars(Spawn(c))
  /\ \A s \in Sessions : WF_vars(Loop(s))

Spec == Init /\ [][Next]_vars
FairSpec == Spec /\ Fairness

-----------------------------------------------------------------------------
(* Properties *)

Alive(s) == at[s] \notin {"unborn", "dead"}

\* A crash loses at most the segment in progress: whenever a file is not
\* finalized, and never was the file of two writers, a live loop has it open as
\* its current one.
OnlyLastAtRisk ==
  \A f \in File : files[f] = "partial" =>
    \E s \in Sessions : writing[s] /\ Alive(s) /\ f = Current(s)

\* A recording that stays stopped ends its loops, and with them its files are
\* final.
StopFinalizes ==
  ~active ~> active \/ \A s \in Sessions : ~Alive(s) /\ \A f \in File : files[f] # "partial"

\* What was recorded until a segment rolls over survives: nothing opens a file
\* anew that is final, unless a second loop writes into the directory, one that
\* has read it late or whose session was started in the same second.
Together(d) == \E s, t \in Sessions : s # t /\ into[s] = d /\ into[t] = d
FinalStays ==
  [][\A f \in File : files[f] = "final" /\ ~Together(f[1]) => files'[f] = "final"]_vars
=============================================================================
