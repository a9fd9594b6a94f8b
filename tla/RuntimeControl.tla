--------------------------- MODULE RuntimeControl ---------------------------
(***************************************************************************)
(* Runtime control of one Session: the operator's GO, STOP, Session exit   *)
(* and Emergency Blackout (internal/runtimecontrol/service.go), the engine *)
(* that runs a Cue (internal/cueengine/engine.go, group.go), their durable *)
(* rows (internal/store/runtime.go) and what a restart does to them        *)
(* (store/runtime_recovery.go).                                            *)
(*                                                                         *)
(* A thread is a goroutine that handles one request.  A step is what it    *)
(* does between two points at which another goroutine can be seen: one     *)
(* database statement, or one critical section of Service.mu.  The active  *)
(* run of a request is named by its thread.                                *)
(*                                                                         *)
(* Timecode bindings run Cues on an engine of their own (App.CueEngine):   *)
(* the kind "timecode", with its own advanceMu and outside the runs that   *)
(* RuntimeControl tracks.                                                  *)
(***************************************************************************)
EXTENDS Integers, Sequences, FiniteSets

CONSTANTS
  Threads,     \* handler goroutines
  NoThread,    \* nobody
  Requests,    \* request ids: command id, idempotency key and correlation id
  Ask,         \* the kind of command each of them is, however often it is sent
  NoRequest,   \* no request
  NumCues,     \* bound: the enabled top-level Cues of the snapshot
  Jumps,       \* bound: the Cues a GO may name as RequestedNextCueID
  Actions,     \* bound: sequential Actions of a Cue
  Mode,        \* Session type: "SHOW" or "REHEARSAL" (INTERNAL timecode)
  MayDisconnect, \* bound: whether the client of a GO may go away
  MayCrash     \* bound: whether the Hub process may die

GoKinds == {"go", "timecode"}
StopKinds == {"stopCue", "stopSession", "forceStop", "blackout", "clear"}

\* In snapshot order.
Cues == 1..NumCues

ASSUME RuntimeControlAssumption ==
  /\ NoThread \notin Threads
  /\ NoRequest \notin Requests
  /\ NumCues \in Nat
  /\ Jumps \subseteq Cues
  /\ Actions \in Nat \ {0}
  /\ Ask \in [Requests -> GoKinds \cup StopKinds]
  /\ Mode \in {"SHOW", "REHEARSAL"}
  /\ MayDisconnect \in BOOLEAN
  /\ MayCrash \in BOOLEAN

VARIABLES
  session,    \* sessions row and its runtime_safety_state
  executions, \* cue_executions, in the order of insertion
  records,    \* command_records: status per request id
  stopping,   \* Service.stopping
  active,     \* Service.active: the threads whose run is registered
  stopped,    \* stoppableExecutor.stopped
  advance,    \* Engine.advanceMu of the two engines: its holder
  op,         \* what every thread is doing
  output      \* the managed outputs: "live", or "dark" by a blackout

rows == <<session, executions, records>>
volatile == <<stopping, active, stopped, advance>>
vars == <<rows, volatile, op, output>>

-----------------------------------------------------------------------------
(* The state of a handler.                                                 *)

Terminal == {"REJECTED", "COMPLETED", "FAILED", "TIMED_OUT", "CANCELLED"}

\* expect: ExpectedCurrentCueID, -1 when absent.  want: RequestedNextCueID, 0
\* when absent.  status: the Session status a
\* stop request read first.  saw: the latch a clear read.  waits: runs still to
\* terminate.  targets: requests of the runs in the snapshot.  holds: it set
\* stopping.  cut: the run's delay stop.  gone: the request context is done.
Idle == [pc |-> "idle", kind |-> "none", req |-> NoRequest, expect |-> -1, want |-> 0,
         status |-> "ACTIVE", saw |-> NoRequest, cue |-> 0, exec |-> 0,
         left |-> 0, result |-> "COMPLETED", waits |-> {}, targets |-> {},
         holds |-> FALSE, confirmed |-> FALSE, cut |-> FALSE, gone |-> FALSE]

Begin(r, pc) == [Idle EXCEPT !.kind = Ask[r], !.req = r, !.pc = pc]

Become(t, new) == op' = [op EXCEPT ![t] = new]
Goto(t, pc) == Become(t, [op[t] EXCEPT !.pc = pc])
Conclude(t, pc, result) == Become(t, [op[t] EXCEPT !.pc = pc, !.result = result])

Automatic(t) == op[t].kind = "timecode"
Engine(t) == IF Automatic(t) THEN "automation" ELSE "operator"

Running == {i \in DOMAIN executions : executions[i].result = "RUNNING"}

\* selectCue without a requested Cue: the first enabled one after the current.
NextCue == session.current + 1
Choice(t) == IF op[t].want = 0 THEN NextCue ELSE op[t].want

\* The trigger session_foundation_advance_progress: only the Cue launched last
\* moves the current Cue when it ends.
Progress(i, result) ==
  IF result \in {"COMPLETED", "FAILED", "TIMED_OUT"} /\ i = Len(executions)
  THEN executions[i].cue ELSE session.current

-----------------------------------------------------------------------------
(* GO: Service.Go up to the engine.                                        *)

\* GetSession and the blackout read; a latched Session is refused here.
RequestGo(t, r) ==
  /\ Ask[r] = "go" /\ op[t].pc = "idle"
  /\ session.latch = NoRequest
  /\ \E e \in {-1, session.current}, c \in {0} \cup Jumps :
       Become(t, [Begin(r, "admit") EXCEPT !.expect = e, !.want = c])
  /\ UNCHANGED <<rows, volatile, output>>

\* A timecode binding fires: its Cue is the next enabled one of the Session it
\* has just read, and is named in the payload.
RequestTimecode(t, r) ==
  /\ Ask[r] = "timecode" /\ op[t].pc = "idle"
  /\ NextCue \in Cues
  /\ Become(t, [Begin(r, "reserve") EXCEPT !.want = NextCue,
                   !.expect = IF session.current = 0 THEN -1 ELSE session.current])
  /\ UNCHANGED <<rows, volatile, output>>

\* Faulty variant: admission does not look at stopping.
AdmittedUnfenced(t) ==
  /\ active = {} => ~op[t].gone /\ Running = {}
  /\ \A u \in active : op[u].req # op[t].req

\* The checks made under Service.mu.
Admitted(t) ==
  /\ ~stopping
  /\ active = {} => ~op[t].gone /\ Running = {}
  /\ \A u \in active : op[u].req # op[t].req

Admit(t) ==
  /\ op[t].pc = "admit"
  /\ IF Admitted(t)
     THEN active' = active \cup {t} /\ Goto(t, "reserve")
     ELSE UNCHANGED active /\ Become(t, Idle)
  /\ UNCHANGED <<rows, stopping, stopped, advance, output>>

-----------------------------------------------------------------------------
(* The engine: ExecuteCueGo.                                               *)

\* The deferred calls of Go: executor.clear, then the run is removed and its
\* done channel closed, which everybody who waits for it sees.
Leave(t) ==
  /\ stopped' = IF Automatic(t) THEN stopped ELSE stopped \ {op[t].req}
  /\ active' = active \ {t}
  /\ op' = [u \in Threads |->
              IF u = t THEN Idle ELSE [op[u] EXCEPT !.waits = @ \ {t}]]

\* Faulty variant: a command found ACCEPTED is taken for one to be resumed.
ReserveReplays(t) ==
  /\ op[t].pc = "reserve"
  /\ IF op[t].gone \/ records[op[t].req] \in Terminal
     THEN Leave(t) /\ UNCHANGED records
     ELSE /\ records' = [records EXCEPT ![op[t].req] = "ACCEPTED"]
          /\ Goto(t, "select") /\ UNCHANGED <<stopped, active>>
  /\ UNCHANGED <<session, executions, stopping, advance, output>>

\* FindCommandRecord and ReserveCommand: a known command is not run again.
Reserve(t) ==
  /\ op[t].pc = "reserve"
  /\ IF op[t].gone \/ records[op[t].req] # "none"
     THEN Leave(t) /\ UNCHANGED records
     ELSE /\ records' = [records EXCEPT ![op[t].req] = "ACCEPTED"]
          /\ Goto(t, "select") /\ UNCHANGED <<stopped, active>>
  /\ UNCHANGED <<session, executions, stopping, advance, output>>

\* Faulty variant: the end of the Cue list is not noticed.
SelectableUnbounded(t) ==
  /\ ~op[t].gone /\ session.status = "ACTIVE"
  /\ Automatic(t) => Running = {}
  /\ op[t].expect \in {-1, session.current}

\* What executeReserved checks before it launches.
Selectable(t) ==
  /\ ~op[t].gone /\ session.status = "ACTIVE"
  /\ Automatic(t) => Running = {}
  /\ op[t].expect \in {-1, session.current}
  /\ Choice(t) \in Cues

\* Faulty variant: the Cue is selected before advanceMu is taken.
SelectCueUnlocked(t) ==
  /\ op[t].pc = "select"
  /\ IF Selectable(t)
     THEN Become(t, [op[t] EXCEPT !.pc = "launch", !.cue = Choice(t)])
     ELSE Conclude(t, "finish", "REJECTED")
  /\ UNCHANGED <<rows, volatile, output>>

\* advanceMu is taken; a refusal gives it back at once.
SelectCue(t) ==
  /\ op[t].pc = "select" /\ advance[Engine(t)] = NoThread
  /\ IF Selectable(t)
     THEN /\ advance' = [advance EXCEPT ![Engine(t)] = t]
          /\ Become(t, [op[t] EXCEPT !.pc = "launch", !.cue = Choice(t)])
     ELSE Conclude(t, "finish", "REJECTED") /\ UNCHANGED advance
  /\ UNCHANGED <<rows, stopping, active, stopped, output>>

Unlock(t) == advance' = [advance EXCEPT ![Engine(t)] = NoThread]

\* Faulty variant: a failed insert leaves advanceMu locked.
LaunchCueKeepsLock(t) ==
  /\ op[t].pc = "launch"
  /\ IF op[t].gone
     THEN /\ Conclude(t, "finish", "FAILED") /\ UNCHANGED executions
     ELSE /\ executions' = Append(executions, [cue |-> op[t].cue, by |-> op[t].req,
                                               result |-> "RUNNING"])
          /\ Become(t, [op[t] EXCEPT !.pc = "advance", !.exec = Len(executions) + 1])
  /\ UNCHANGED <<session, records, volatile, output>>

\* CreateCueExecution.
LaunchCue(t) ==
  /\ op[t].pc = "launch"
  /\ IF op[t].gone
     THEN /\ Unlock(t) /\ Conclude(t, "finish", "FAILED") /\ UNCHANGED executions
     ELSE /\ executions' = Append(executions, [cue |-> op[t].cue, by |-> op[t].req,
                                               result |-> "RUNNING"])
          /\ Become(t, [op[t] EXCEPT !.pc = "advance", !.exec = Len(executions) + 1])
          /\ UNCHANGED advance
  /\ UNCHANGED <<session, records, stopping, active, stopped, output>>

\* The started event and SetSessionCurrentCue.  When the context is done the
\* row cannot even be marked FAILED.
AdvanceCue(t) ==
  LET i == op[t].exec
  IN /\ op[t].pc = "advance"
     /\ Unlock(t)
     /\ \/ /\ op[t].gone
           /\ Conclude(t, "finish", "FAILED") /\ UNCHANGED <<session, executions>>
        \/ /\ ~op[t].gone /\ session.status # "ACTIVE"
           /\ executions' = [executions EXCEPT ![i].result = "FAILED"]
           /\ session' = [session EXCEPT !.current = Progress(i, "FAILED")]
           /\ Conclude(t, "finish", "FAILED")
        \/ /\ ~op[t].gone /\ session.status = "ACTIVE"
           /\ session' = [session EXCEPT !.current = op[t].cue]
           /\ Become(t, [op[t] EXCEPT !.pc = "delay", !.left = Actions])
           /\ UNCHANGED executions
     /\ UNCHANGED <<records, stopping, active, stopped, output>>

-----------------------------------------------------------------------------
(* The engine: executeCueGroup, executeActions, startAction and            *)
(* stoppableExecutor.Execute, with one Cue of Actions sequential Actions.  *)

\* The end of the Cue's delay, or STOP or the client cutting it short.
StartBranch(t) ==
  /\ op[t].pc = "delay"
  /\ IF op[t].cut \/ op[t].gone
     THEN Conclude(t, "finishCue", "CANCELLED")
     ELSE Goto(t, "dispatch")
  /\ UNCHANGED <<rows, volatile, output>>

\* The Action's outcome is fatal for the Cue, or its error policy goes on.
ActionDone(t, result) ==
  \/ result # "COMPLETED" /\ Conclude(t, "finishCue", result)
  \/ Become(t, [op[t] EXCEPT !.left = @ - 1,
                             !.pc = IF op[t].left > 1 THEN "dispatch" ELSE "finishCue"])

\* CreateActionExecution, then the registration with the executor, which calls
\* no adapter once its request is stopped.
Dispatch(t) ==
  /\ op[t].pc = "dispatch"
  /\ IF op[t].gone THEN Conclude(t, "finishCue", "FAILED")
     ELSE IF ~Automatic(t) /\ op[t].req \in stopped THEN ActionDone(t, "CANCELLED")
     ELSE Goto(t, "acting")
  /\ UNCHANGED <<rows, volatile, output>>

Interrupted(t) == op[t].gone \/ (~Automatic(t) /\ op[t].req \in stopped)

\* The adapter returns.  It has driven its output, unless it noticed in time
\* that its context was cancelled.
ActionEnds(t) ==
  /\ op[t].pc = "acting"
  /\ \E result \in {"COMPLETED", "FAILED"} \cup (IF Interrupted(t) THEN {"CANCELLED"} ELSE {}) :
       IF op[t].gone THEN Conclude(t, "finishCue", "FAILED") ELSE ActionDone(t, result)
  /\ output' \in {output, "live"}
  /\ UNCHANGED <<rows, volatile>>

\* FinishCueExecution with its trigger: no row is written for a client that left.
FinishCue(t) ==
  LET i == op[t].exec
  IN /\ op[t].pc = "finishCue"
     /\ IF op[t].gone
        THEN Conclude(t, "finish", "FAILED") /\ UNCHANGED <<session, executions>>
        ELSE /\ executions' = [executions EXCEPT ![i].result = op[t].result]
             /\ session' = [session EXCEPT !.current = Progress(i, op[t].result)]
             /\ Goto(t, "finish")
     /\ UNCHANGED <<records, volatile, output>>

Recorded(t) ==
  IF op[t].gone THEN records
  ELSE [records EXCEPT ![op[t].req] = op[t].result]

\* FinishCommand and the return from Go.
FinishCommand(t) ==
  /\ op[t].pc = "finish"
  /\ records' = Recorded(t)
  /\ Leave(t)
  /\ UNCHANGED <<session, executions, stopping, advance, output>>

-----------------------------------------------------------------------------
(* StopCue, StopSession, ForceStopSession and EmergencyBlackout.           *)

\* GetSession.
RequestStop(t, r) ==
  /\ Ask[r] \in StopKinds /\ op[t].pc = "idle"
  /\ Become(t, [Begin(r, "reserveStop") EXCEPT !.status = session.status])
  /\ UNCHANGED <<rows, volatile, output>>

\* reserve, and the check of the Session as it was read.
ReserveStop(t) ==
  /\ op[t].pc = "reserveStop"
  /\ IF op[t].gone \/ records[op[t].req] # "none"
     THEN Become(t, Idle) /\ UNCHANGED records
     ELSE /\ records' = [records EXCEPT ![op[t].req] = "ACCEPTED"]
          /\ IF op[t].status # "ACTIVE" THEN Conclude(t, "finishStop", "REJECTED")
             ELSE Goto(t, IF op[t].kind = "clear" THEN "readLatch" ELSE "fence")
  /\ UNCHANGED <<session, executions, volatile, output>>

\* Only a latched blackout can be cleared.
ReadLatch(t) ==
  /\ op[t].pc = "readLatch"
  /\ IF op[t].gone THEN Conclude(t, "finishStop", "FAILED")
     ELSE IF session.latch = NoRequest THEN Conclude(t, "finishStop", "REJECTED")
     ELSE Become(t, [op[t] EXCEPT !.pc = "applyClear", !.saw = session.latch])
  /\ UNCHANGED <<rows, volatile, output>>

\* beginStoppingCues.
Fence(t) ==
  /\ op[t].pc = "fence"
  /\ IF stopping
     THEN Conclude(t, "finishStop", "REJECTED") /\ UNCHANGED stopping
     ELSE /\ stopping' = TRUE
          /\ Become(t, [op[t] EXCEPT !.holds = TRUE,
                !.pc = IF op[t].kind = "blackout" THEN "latch" ELSE "snapshot"])
  /\ UNCHANGED <<rows, active, stopped, advance, output>>

\* SetSessionManagedOutputBlackout(true).
Latch(t) ==
  /\ op[t].pc = "latch"
  /\ IF op[t].gone \/ session.status # "ACTIVE"
     THEN Conclude(t, "finishStop", "FAILED") /\ UNCHANGED session
     ELSE session' = [session EXCEPT !.latch = op[t].req] /\ Goto(t, "snapshot")
  /\ UNCHANGED <<executions, records, volatile, output>>

\* activeRunsForSession.
Snapshot(t) ==
  /\ op[t].pc = "snapshot"
  /\ IF op[t].kind = "stopCue" /\ active = {}
     THEN Conclude(t, "finishStop", "REJECTED")
     ELSE Become(t, [op[t] EXCEPT !.pc = "interrupt", !.waits = active,
                                  !.targets = {op[u].req : u \in active}])
  /\ UNCHANGED <<rows, volatile, output>>

\* interruptCueRuns: a run that has left meanwhile is not interrupted, but the
\* executor remembers its request.
Interrupt(t) ==
  /\ op[t].pc = "interrupt"
  /\ stopped' = stopped \cup op[t].targets
  /\ op' = [u \in Threads |->
              IF u = t THEN [op[u] EXCEPT !.pc = "wait"]
              ELSE IF u \in op[t].waits THEN [op[u] EXCEPT !.cut = TRUE]
              ELSE op[u]]
  /\ UNCHANGED <<rows, stopping, active, advance, output>>

\* Every run of the snapshot has closed its done channel.
StopConfirmed(t) ==
  /\ op[t].pc = "wait" /\ op[t].waits = {}
  /\ \E pc \in {"finishStop", "endSession", "safety"} :
       /\ pc = "finishStop" <=> op[t].kind = "stopCue"
       /\ pc = "endSession" <=> op[t].kind = "forceStop"
       /\ Become(t, [op[t] EXCEPT !.confirmed = TRUE, !.pc = pc])
  /\ UNCHANGED <<rows, volatile, output>>

\* Faulty variant: a Session is ended although its Cues did not stop.
StopTimesOutEndsSession(t) ==
  /\ op[t].pc = "wait" /\ op[t].targets # {}
  /\ \/ op[t].kind = "stopCue" /\ Conclude(t, "finishStop", "TIMED_OUT")
     \/ op[t].kind \in {"stopSession", "forceStop"} /\ Goto(t, "endSession")
     \/ op[t].kind = "blackout" /\ Goto(t, "safety")
  /\ UNCHANGED <<rows, volatile, output>>

\* Faulty variant: STOP waits for the runs without a bound.
StopWaitsForever(t) ==
  /\ op[t].pc = "wait" /\ op[t].gone
  /\ Conclude(t, "finishStop", "CANCELLED")
  /\ UNCHANGED <<rows, volatile, output>>

\* The bounded wait, or the stop's own client, ends first.  select may prefer
\* the timer to a done channel that is closed as well.
StopTimesOut(t) ==
  /\ op[t].pc = "wait" /\ op[t].targets # {}
  /\ \/ /\ op[t].kind = "stopCue"
        /\ Conclude(t, "finishStop", IF op[t].gone THEN "CANCELLED" ELSE "TIMED_OUT")
     \/ op[t].kind = "stopSession" /\ Conclude(t, "finishStop", "FAILED")
     \/ op[t].kind = "forceStop" /\ Goto(t, "endSession")
     \/ op[t].kind = "blackout" /\ Goto(t, "safety")
  /\ UNCHANGED <<rows, volatile, output>>

\* Faulty variant: a blackout counts as complete although Cues still run.
SafetyUnconfirmed(t) ==
  /\ op[t].pc = "safety"
  /\ \/ /\ output' = "dark"
        /\ IF op[t].kind = "stopSession" THEN Goto(t, "endSession")
           ELSE Conclude(t, "finishStop", "COMPLETED")
     \/ /\ output' \in {output, "dark"}
        /\ Conclude(t, "finishStop", "FAILED")
  /\ UNCHANGED <<rows, volatile>>

\* stopSafety or emergencySafety: the managed outputs are driven dark, or some
\* of them could not be.
Safety(t) ==
  /\ op[t].pc = "safety"
  /\ \/ /\ output' = "dark"
        /\ IF op[t].kind = "stopSession" THEN Goto(t, "endSession")
           ELSE Conclude(t, "finishStop",
                         IF op[t].confirmed THEN "COMPLETED" ELSE "FAILED")
     \/ /\ output' \in {output, "dark"}
        /\ Conclude(t, "finishStop", "FAILED")
  /\ UNCHANGED <<rows, volatile>>

\* emergencySafety with enabled = false.
ApplyClear(t) ==
  /\ op[t].pc = "applyClear"
  /\ output' \in {output, "live"}
  /\ Goto(t, "unlatch") \/ Conclude(t, "finishStop", "FAILED")
  /\ UNCHANGED <<rows, volatile>>

\* SetSessionManagedOutputBlackout(false).
Unlatch(t) ==
  /\ op[t].pc = "unlatch"
  /\ IF op[t].gone \/ session.status # "ACTIVE"
     THEN Conclude(t, "finishStop", "FAILED") /\ UNCHANGED session
     ELSE /\ session' = [session EXCEPT !.latch = NoRequest]
          /\ Conclude(t, "finishStop", "COMPLETED")
  /\ UNCHANGED <<executions, records, volatile, output>>

\* EndSessionLifecycle; a forced exit does so without its client's context.
EndSession(t) ==
  /\ op[t].pc = "endSession"
  /\ IF op[t].kind = "stopSession" /\ op[t].gone
     THEN Conclude(t, "finishStop", "FAILED") /\ UNCHANGED session
     ELSE IF session.status # "ACTIVE"
     THEN Conclude(t, "finishStop", "REJECTED") /\ UNCHANGED session
     ELSE /\ session' = [session EXCEPT !.status =
                IF op[t].kind = "forceStop" THEN "ABORTED" ELSE "COMPLETED"]
          /\ Conclude(t, "finishStop", "COMPLETED")
  /\ UNCHANGED <<executions, records, volatile, output>>

\* FinishCommand, then the deferred endStoppingCues of whoever set stopping.
FinishStop(t) ==
  /\ op[t].pc = "finishStop"
  /\ records' = Recorded(t)
  /\ stopping' = (stopping /\ ~op[t].holds)
  /\ Become(t, Idle)
  /\ UNCHANGED <<session, executions, active, stopped, advance, output>>

-----------------------------------------------------------------------------
(* The environment.                                                        *)

\* The client closes its connection: the request context is done.
Disconnect(t) ==
  /\ MayDisconnect /\ op[t].pc # "idle" /\ ~op[t].gone
  /\ ~Automatic(t)
  /\ Become(t, [op[t] EXCEPT !.gone = TRUE])
  /\ UNCHANGED <<rows, volatile, output>>

\* The Hub dies and restarts; ReconcileInterruptedRuntimeForHub closes what was
\* running and keeps a clean Rehearsal.
Restart ==
  /\ MayCrash
  /\ IF session.status = "ACTIVE" /\ (Mode = "SHOW" \/ Running # {})
     THEN /\ session' = [session EXCEPT !.status = "ABORTED"]
          /\ executions' = [i \in DOMAIN executions |->
               IF i \in Running THEN [executions[i] EXCEPT !.result = "CANCELLED"]
               ELSE executions[i]]
     ELSE UNCHANGED <<session, executions>>
  /\ stopping' = FALSE /\ active' = {} /\ stopped' = {}
  /\ advance' = [e \in {"operator", "automation"} |-> NoThread]
  /\ op' = [t \in Threads |-> Idle]
  /\ UNCHANGED <<records, output>>

-----------------------------------------------------------------------------
Init ==
  /\ session = [status |-> "ACTIVE", current |-> 0, latch |-> NoRequest]
  /\ executions = << >>
  /\ records = [r \in Requests |-> "none"]
  /\ stopping = FALSE /\ active = {} /\ stopped = {}
  /\ advance = [e \in {"operator", "automation"} |-> NoThread]
  /\ op = [t \in Threads |-> Idle]
  /\ output = "live"

\* The launch of a Cue, which advanceMu covers.
Launching(t) == LaunchCue(t) \/ AdvanceCue(t)

GoStep(t) ==
  \/ Admit(t) \/ Reserve(t) \/ SelectCue(t) \/ Launching(t)
  \/ StartBranch(t) \/ Dispatch(t) \/ ActionEnds(t) \/ FinishCue(t)
  \/ FinishCommand(t)

StopStep(t) ==
  \/ ReserveStop(t) \/ ReadLatch(t) \/ Fence(t) \/ Latch(t) \/ Snapshot(t)
  \/ Interrupt(t) \/ StopConfirmed(t) \/ StopTimesOut(t) \/ Safety(t)
  \/ ApplyClear(t) \/ Unlatch(t) \/ EndSession(t) \/ FinishStop(t)

Next ==
  \/ \E t \in Threads :
       \/ \E r \in Requests : RequestGo(t, r) \/ RequestTimecode(t, r) \/ RequestStop(t, r)
       \/ GoStep(t) \/ StopStep(t) \/ Disconnect(t)
  \/ Restart

Spec == Init /\ [][Next]_vars

\* Go runs every goroutine that can run, and the wait of a STOP is bounded.
\* An Action, and whoever waits for one, need never end.
FairSpec ==
  /\ Spec
  /\ \A t \in Threads : WF_vars(Launching(t)) /\ WF_vars(StopStep(t))

-----------------------------------------------------------------------------
(* What the runs check.                                                    *)

Engaged == {"launch", "advance", "delay", "dispatch", "acting", "finishCue"}

Phases == {"idle", "admit", "reserve", "select", "finish", "reserveStop",
  "readLatch", "fence", "latch", "snapshot", "interrupt", "wait", "safety",
  "applyClear", "unlatch", "endSession", "finishStop"} \cup Engaged

Executions == [cue : Cues, by : Requests,
               result : {"RUNNING", "COMPLETED", "FAILED", "CANCELLED"}]

Handlers ==
  [pc : Phases, kind : GoKinds \cup StopKinds \cup {"none"},
   req : Requests \cup {NoRequest}, expect : {-1, 0} \cup Cues,
   want : {0} \cup Cues, status : {"ACTIVE", "COMPLETED", "ABORTED"},
   saw : Requests \cup {NoRequest}, cue : {0} \cup Cues, exec : Nat,
   left : 0..Actions, result : Terminal, waits : SUBSET Threads,
   targets : SUBSET Requests, holds : BOOLEAN, confirmed : BOOLEAN,
   cut : BOOLEAN, gone : BOOLEAN]

\* Every row and every handler field stays in its domain; in particular the
\* current Cue is one of the snapshot (Service and Engine, all operations).
TypeOK ==
  /\ session \in [status : {"ACTIVE", "COMPLETED", "ABORTED"},
                  current : {0} \cup Cues, latch : Requests \cup {NoRequest}]
  /\ executions \in Seq(Executions)
  /\ records \in [Requests -> {"none", "ACCEPTED"} \cup Terminal]
  /\ stopping \in BOOLEAN
  /\ active \subseteq Threads
  /\ stopped \subseteq Requests
  /\ advance \in [{"operator", "automation"} -> Threads \cup {NoThread}]
  /\ op \in [Threads -> Handlers]
  /\ output \in {"live", "dark"}

\* A STOP, exit or blackout that has confirmed the end of the Cues it snapshot
\* has confirmed the end of all of them: while it holds the fence of
\* beginStoppingCues no GO is running, whenever that GO was admitted.
StopIsConfirmed ==
  \A t \in Threads : op[t].holds /\ op[t].confirmed => active = {}

\* A Session that StopSession has completed has no operator Cue between its
\* launch and its last row: no Action is dispatched after the exit.
NothingActsAfterExit ==
  session.status = "COMPLETED" =>
    \A t \in Threads : op[t].kind = "go" => op[t].pc \notin Engaged

\* A Cue about to be launched is still the one its GO was given: the next one of
\* the Session, unless asked for by name, and after the Cue the operator saw; and
\* whenever no launch is under way the current Cue is the one launched last.  So
\* overlapping GO requests never launch the same next Cue, and the end of an older
\* Cue never takes the Session back (Engine.advanceMu, executeReserved and the
\* trigger session_foundation_advance_progress).
CuesRunInOrder ==
  /\ \A t \in Threads : op[t].pc = "launch" =>
       /\ op[t].want = 0 => op[t].cue = NextCue
       /\ op[t].expect \in {-1, session.current}
  /\ advance["operator"] = NoThread /\ executions # << >> =>
       session.current = executions[Len(executions)].cue

\* A command is executed at most once, over duplicates, retries, clients that
\* left and restarts (ReserveCommand; no replay on restart).
OneExecutionPerRequest ==
  \A i, j \in DOMAIN executions : executions[i].by = executions[j].by => i = j

\* A blackout that reports success leaves the outputs dark and no Cue that could
\* light them again, at the time it reports (EmergencyBlackout).
BlackoutIsDark ==
  \A t \in Threads :
    op[t].kind = "blackout" /\ op[t].pc = "finishStop" /\ op[t].result = "COMPLETED"
      => output = "dark" /\ active = {}

\* The fence set by a STOP is lifted again, whatever the Cues and the stop's own
\* client do (defer endStoppingCues and the bounded wait).
StoppingEnds == stopping ~> ~stopping

\* advanceMu is given back on every path out of a launch (executeReserved).
AdvanceIsReleased ==
  \A e \in {"operator", "automation"} : advance[e] # NoThread ~> advance[e] = NoThread

-----------------------------------------------------------------------------
(* What comments of the source say, and other runs refute.                 *)

\* "A GO which passed the earlier blackout read must still be fenced"
\* (EmergencyBlackout): no GO is admitted once the latch is set.
NoAdmissionUnderBlackout ==
  [][\A t \in Threads : t \in active' \ active => session.latch = NoRequest]_vars

\* activeRunsForSession "snapshots every active Cue execution. STOP and session
\* shutdown target all of them": a confirmed STOP has stopped every Cue.
StopReachesEveryCue ==
  \A t \in Threads : op[t].holds /\ op[t].confirmed =>
    \A u \in Threads : op[u].pc \notin Engaged
=============================================================================
