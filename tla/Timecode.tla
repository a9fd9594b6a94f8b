------------------------------ MODULE Timecode ------------------------------
(***************************************************************************)
(* Cues launched by timecode in one Session (internal/timecode): a source  *)
(* whose frames are observed by one worker, the health of the source, the  *)
(* bindings it crosses, and the Cue engine that they ask.                  *)
(*                                                                         *)
(* Time is counted in frames.  The source of a Session is sealed in its    *)
(* snapshot, so identity and rate never change; no caller in src/ reports  *)
(* drift or marks a discontinuity.  Of the states of a Monitor only        *)
(* HEALTHY matters to a binding.  The monitor's last sample and            *)
(* runtimeState.previous are always the same sample.                       *)
(***************************************************************************)
EXTENDS Integers, Sequences, FiniteSets

CONSTANTS
  Bindings,     \* enabled bindings of the snapshot, sorted by their frame:
                \* [cue, target, expiry], how late it may still fire
  LastCue,      \* number of enabled Cues of the snapshot, in its order
  Kinds,        \* kinds of source
  Modes,        \* Session types
  JumpTolerance,\* HealthConfig.JumpToleranceFrames
  MaxFrame,     \* bound: the last frame
  MaxSeek,      \* bound: seeks of an external source
  MaxGo,        \* bound: operator GO and JUMP
  MaxRestart    \* bound: restarts of the Hub

ASSUME TimecodeAssumption ==
  /\ LastCue \in Nat /\ MaxFrame \in Nat /\ JumpTolerance \in Nat
  /\ Bindings \in Seq([cue : 1..LastCue, target : Nat, expiry : Nat])

VARIABLES
  kind,      \* source.kind of the snapshot
  mode,      \* type of the Session
  clock,     \* frames since the Session started
  source,    \* the frame an external source shows
  cuerow,    \* the Session row: status and current Cue
  rows,      \* who launched the Cues with a RUNNING row
  commands,  \* ids in command_records
  heard,     \* runtimeState: the last sample
  fired,     \* Scheduler.fired
  due,       \* decisions FIRE of the last sample that were not acted on yet
  cursor,    \* the current Cue of the Session row that the worker read
  worker,    \* where the worker is
  launches,  \* history of the Cues launched by a binding
  bounds     \* seeks, GOs and restarts so far

timecodeVars ==
  <<kind, mode, clock, source, cuerow, rows, commands, heard, fired, due, cursor,
    worker, launches, bounds>>
sealed == <<kind, mode>>
memory == <<heard, fired, due, cursor, worker>>

BindingIds == 1..Len(Bindings)
NoSample == [frame |-> -1, at |-> -1]
Samples == [frame : 0..MaxFrame, at : 0..MaxFrame] \cup {NoSample}

Count(what) == bounds' = [bounds EXCEPT ![what] = @ + 1]

TimecodeInit ==
  /\ kind \in Kinds /\ mode \in Modes
  /\ clock = 0 /\ source = 0
  /\ cuerow = [status |-> "ACTIVE", current |-> 0]
  /\ rows = {} /\ commands = {}
  /\ heard = NoSample /\ fired = {} /\ due = {} /\ cursor = 0
  /\ worker = "none"
  /\ launches = <<>>
  /\ bounds = [seek |-> 0, go |-> 0, restart |-> 0]

-----------------------------------------------------------------------------
(* The world: time, the source, the operator.                              *)

Pass ==
  /\ clock < MaxFrame
  /\ clock' = clock + 1
  /\ source' = IF source < MaxFrame THEN source + 1 ELSE source
  /\ UNCHANGED <<sealed, cuerow, rows, commands, memory, launches, bounds>>

\* An external source is moved; INTERNAL counts from the Session's start.
Seek ==
  /\ kind # "INTERNAL" /\ bounds.seek < MaxSeek
  /\ source' \in (0..MaxFrame) \ {source}
  /\ Count("seek")
  /\ UNCHANGED <<sealed, clock, cuerow, rows, commands, memory, launches>>

\* A GO or a JUMP of the operator, whose Cues overlap only one another.
OperatorGo ==
  /\ bounds.go < MaxGo
  /\ cuerow.status = "ACTIVE" /\ rows \subseteq {"operator"}
  /\ \E c \in 1..LastCue : cuerow' = [cuerow EXCEPT !.current = c]
  /\ rows' = rows \cup {"operator"}
  /\ Count("go")
  /\ UNCHANGED <<sealed, clock, source, commands, memory, launches>>

OperatorCueEnds ==
  /\ "operator" \in rows
  /\ rows' = rows \ {"operator"}
  /\ UNCHANGED <<sealed, clock, source, cuerow, commands, memory, launches, bounds>>

\* StopSession waits for the operator's Cues only.
CompleteSession ==
  /\ cuerow.status = "ACTIVE" /\ "operator" \notin rows
  /\ cuerow' = [cuerow EXCEPT !.status = "COMPLETED"]
  /\ UNCHANGED <<sealed, clock, source, rows, commands, memory, launches, bounds>>

-----------------------------------------------------------------------------
(* The worker: Supervisor.runInternal, or MTCInput.consume.                *)

\* A worker is started for an active Session; the state map keeps what an
\* earlier worker of this process has seen.
StartWorker ==
  /\ worker = "none" /\ cuerow.status = "ACTIVE"
  /\ worker' = "ready"
  /\ UNCHANGED <<sealed, clock, source, cuerow, rows, commands, heard, fired, due,
                 cursor, launches, bounds>>

\* The INTERNAL worker looks before every poll, MTC input now and then.
LeaveSession ==
  /\ worker = "ready" /\ cuerow.status # "ACTIVE"
  /\ worker' = "none"
  /\ UNCHANGED <<sealed, clock, source, cuerow, rows, commands, heard, fired, due,
                 cursor, launches, bounds>>

\* cancelInactive: the context is done, so the row of a Cue that runs stays.
CancelWorker ==
  /\ kind = "INTERNAL" /\ worker # "none" /\ cuerow.status # "ACTIVE"
  /\ worker' = "none" /\ due' = {}
  /\ UNCHANGED <<sealed, clock, source, cuerow, rows, commands, heard, fired, cursor,
                 launches, bounds>>

Now == [frame |-> IF kind = "INTERNAL" THEN clock ELSE source, at |-> clock]

Distance(a, b) == IF a < b THEN b - a ELSE a - b

\* Monitor.Observe: the frames moved on as the time did.
Healthy(sample) ==
  heard = NoSample
    \/ /\ sample.frame >= heard.frame
       /\ Distance(sample.frame - heard.frame, sample.at - heard.at) <= JumpTolerance

Crossed(b, sample) ==
  /\ heard.frame < Bindings[b].target /\ Bindings[b].target <= sample.frame
  /\ sample.frame <= Bindings[b].target + Bindings[b].expiry

\* Faulty variant: the identity of a command tells one crossing from another.
CommandOfCrossing(b, sample) == <<b, sample.at>>

\* The project, snapshot, Session and source are those of the Session.
CommandOf(b, sample) == <<b, Bindings[b].target>>

\* Scheduler.Evaluate, after observeNormalized and PollInternal or IngestFrame.
ObserveSample ==
  LET on == heard # NoSample /\ Healthy(Now)
      Fires(b) == on /\ Crossed(b, Now) /\ CommandOf(b, Now) \notin fired
  IN  /\ worker = "ready"
      /\ kind = "INTERNAL" => cuerow.status = "ACTIVE"
      /\ heard' = Now
      /\ fired' = fired \cup {CommandOf(b, Now) : b \in {c \in BindingIds : Fires(c)}}
      /\ due' = {b \in BindingIds : Fires(b)}
      /\ cursor' = cuerow.current
      /\ worker' = IF due' = {} THEN "ready" ELSE "judge"
      /\ UNCHANGED <<sealed, clock, source, cuerow, rows, commands, launches, bounds>>

\* Decisions are acted on in the order of the bindings.
First(b) == b \in due /\ \A c \in due : b <= c

\* On to the next decision of the sample, with the Session row read again.
Proceed(b) ==
  /\ due' = due \ {b}
  /\ worker' = IF due' = {} THEN "ready" ELSE "judge"

\* A binding whose Cue is not the next one is inhibited; a command that has a
\* record was asked before; else the record is reserved.
Trigger(b) ==
  /\ worker = "judge" /\ First(b)
  /\ \/ /\ Bindings[b].cue # cursor + 1
        /\ Proceed(b)
        /\ UNCHANGED <<commands, cursor>>
     \/ /\ Bindings[b].cue = cursor + 1 /\ CommandOf(b, heard) \in commands
        /\ Proceed(b)
        /\ cursor' = cuerow.current
        /\ UNCHANGED commands
     \/ /\ Bindings[b].cue = cursor + 1 /\ CommandOf(b, heard) \notin commands
        /\ commands' = commands \cup {CommandOf(b, heard)}
        /\ worker' = "launch"
        /\ UNCHANGED <<due, cursor>>
  /\ UNCHANGED <<sealed, clock, source, cuerow, rows, heard, fired, launches, bounds>>

\* Engine.executeReserved, up to the release of the advancement lock.  A Session
\* without a current Cue is a command that expects nothing.
Launch(b) ==
  LET selected == /\ cuerow.status = "ACTIVE" /\ rows = {}
                  /\ cursor \in {0, cuerow.current}
  IN  /\ worker = "launch" /\ First(b)
      /\ IF selected
         THEN /\ cuerow' = [cuerow EXCEPT !.current = Bindings[b].cue]
              /\ rows' = {"timecode"}
              /\ launches' = Append(launches,
                   [binding |-> b, after |-> cuerow.current, read |-> cursor])
              /\ worker' = "running"
              /\ UNCHANGED <<due, cursor>>
         ELSE /\ Proceed(b)
              /\ cursor' = cuerow.current
              /\ UNCHANGED <<cuerow, rows, launches>>
      /\ UNCHANGED <<sealed, clock, source, commands, heard, fired, bounds>>

EndCue(b) ==
  /\ worker = "running" /\ First(b)
  /\ rows' = rows \ {"timecode"}
  /\ Proceed(b)
  /\ cursor' = cuerow.current
  /\ UNCHANGED <<sealed, clock, source, cuerow, commands, heard, fired, launches, bounds>>

\* The Hub dies and comes back: ReconcileInterruptedRuntimeForHub preserves a
\* rehearsal with INTERNAL timecode in which nothing runs.
RestartTimecode ==
  /\ bounds.restart < MaxRestart
  /\ IF cuerow.status = "ACTIVE" /\ ~(kind = "INTERNAL" /\ mode = "REHEARSAL" /\ rows = {})
     THEN cuerow' = [cuerow EXCEPT !.status = "ABORTED"] /\ rows' = {}
     ELSE UNCHANGED <<cuerow, rows>>
  /\ heard' = NoSample /\ fired' = {} /\ due' = {} /\ cursor' = 0 /\ worker' = "none"
  /\ Count("restart")
  /\ UNCHANGED <<sealed, clock, source, commands, launches>>

TimecodeNext ==
  \/ Pass \/ Seek \/ OperatorGo \/ OperatorCueEnds \/ CompleteSession
  \/ StartWorker \/ LeaveSession \/ CancelWorker
  \/ ObserveSample
  \/ \E b \in BindingIds : Trigger(b) \/ Launch(b) \/ EndCue(b)
  \/ RestartTimecode

TimecodeSpec == TimecodeInit /\ [][TimecodeNext]_timecodeVars

-----------------------------------------------------------------------------

TimecodeTypeOK ==
  /\ kind \in Kinds /\ mode \in Modes
  /\ clock \in 0..MaxFrame /\ source \in 0..MaxFrame
  /\ cuerow \in [status : {"ACTIVE", "COMPLETED", "ABORTED"}, current : 0..LastCue]
  /\ rows \subseteq {"operator", "timecode"}
  /\ heard \in Samples
  /\ due \subseteq BindingIds /\ cursor \in 0..LastCue
  /\ worker \in {"none", "ready", "judge", "launch", "running"}
  /\ worker \in {"judge", "launch", "running"} => due # {}
  /\ \A i \in DOMAIN launches : launches[i].binding \in BindingIds

(* A binding launches its Cue once in a Session, and as the Cue after the   *)
(* current one: through seeks back over its frame, an operator who goes and *)
(* jumps meanwhile, several bindings crossed by one sample, new workers and *)
(* restarts (Scheduler.Evaluate, observeNormalized, Engine.selectCue).  A   *)
(* worker that read no current Cue names none, and is not checked.          *)
BindingLaunchesOnce ==
  \A i, j \in DOMAIN launches :
    /\ launches[i].binding = launches[j].binding => i = j
    /\ launches[i].read # 0 => Bindings[launches[i].binding].cue = launches[i].after + 1
=============================================================================
