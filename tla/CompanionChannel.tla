-------------------------- MODULE CompanionChannel --------------------------
(***************************************************************************)
(* The runtime channel of one Companion: RuntimeChannel of the Hub         *)
(* (internal/companionchannel/runtime.go) and the session of the Companion *)
(* itself (companion/macos, CompanionSession.swift, ExecutionGuard.swift). *)
(* An execution has an id, may be asked for more than once, and must not   *)
(* happen more than once.                                                  *)
(*                                                                         *)
(* A step is one critical section of RuntimeChannel.mu, one message, or    *)
(* one thing that the Companion does.  An entry of the executions map is  *)
(* named by the call of Execute that created it.  close() waits for        *)
(* removeConnection in every goroutine, and is one step with it.           *)
(***************************************************************************)
EXTENDS Integers, Sequences, FiniteSets

CONSTANTS
  Executions,  \* execution ids
  Callers,     \* calls of Execute
  Asks,        \* the execution that each call asks for
  Nobody,      \* no caller, and no execution
  Window,      \* maxRuntimeExecutions
  MaxWire      \* bound: the sockets that the Companion opens

ASSUME ChannelAssumption ==
  /\ Nobody \notin Callers \cup Executions
  /\ Asks \in [Callers -> Executions]
  /\ Window \in Nat \ {0} /\ MaxWire \in Nat

VARIABLES
  call,       \* every call of Execute: its step, socket, entry and answer
  entry,      \* the entry that a call has created
  held,       \* executions: the entry of every id
  order,      \* executionOrder
  here,       \* connections: the Companion's current socket
  ended,      \* the sockets that are closed
  serving,    \* serveConnection of every socket, and the socket it displaced
  present,    \* readiness in the database is not OFFLINE
  last,       \* the last socket
  line,       \* the socket that the Companion has
  inbox,      \* what was sent to it
  results,    \* what it has sent, and the Hub has not read
  working,    \* the execution that it is at, and the socket that it came from
  terminal,   \* ExecutionGuard: the ids that it has ended
  executed,   \* history: how often each execution was begun
  forgotten,  \* history: executions whose entry the Hub has lost
  relaunched, \* history: the Companion has lost its guard
  bootWire    \* history: the last socket when the Hub was started

channelVars ==
  <<call, entry, held, order, here, ended, serving, present, last, line, inbox,
    results, working, terminal, executed, forgotten, relaunched, bootWire>>

Wires == 1..MaxWire
Outcomes == {"COMPLETED", "FAILED", "TIMED_OUT", "CANCELLED"}

NoCall == [step |-> "idle", wire |-> 0, follows |-> Nobody, answer |-> "none"]
NoEntry == [wire |-> 0, result |-> "none"]
NotWorking == [execution |-> Nobody, wire |-> 0]

ChannelInit ==
  /\ call = [c \in Callers |-> NoCall]
  /\ entry = [c \in Callers |-> NoEntry]
  /\ held = [e \in Executions |-> Nobody]
  /\ order = <<>>
  /\ here = 0 /\ last = 0 /\ line = 0 /\ bootWire = 0
  /\ ended = {}
  /\ serving = [g \in Wires |-> [step |-> "none", displaced |-> 0]]
  /\ present = FALSE
  /\ inbox = <<>>
  /\ results = [g \in Wires |-> <<>>]
  /\ working = NotWorking
  /\ terminal = {} /\ forgotten = {}
  /\ executed = [e \in Executions |-> 0]
  /\ relaunched = FALSE

-----------------------------------------------------------------------------

\* finish: the first result of the entry that holds the id is its last.
Finished(entries, e, result) ==
  IF held[e] = Nobody \/ entries[held[e]].result # "none" THEN entries
  ELSE [entries EXCEPT ![held[e]].result = result]

Verdict(entries, e, result) ==
  IF held[e] = Nobody THEN result ELSE entries[held[e]].result

\* removeConnection: whatever waits for the socket is FAILED.
Interrupted(g) ==
  [c \in Callers |->
     IF entry[c].wire = g /\ entry[c].result = "none" /\ held[Asks[c]] = c
     THEN [entry[c] EXCEPT !.result = "FAILED"] ELSE entry[c]]

\* Faulty variant: an old socket takes the presence of the new one with it.
ShutTellsOffline(g) ==
  /\ ended' = ended \cup {g}
  /\ here' = IF here = g THEN 0 ELSE here
  /\ present' = FALSE
  /\ results' = [results EXCEPT ![g] = <<>>]

Shut(g) ==
  /\ ended' = ended \cup {g}
  /\ here' = IF here = g THEN 0 ELSE here
  /\ present' = (present /\ here # g)
  /\ results' = [results EXCEPT ![g] = <<>>]

Answered(c, answer) ==
  call' = [call EXCEPT ![c].step = "done", ![c].wire = 0, ![c].answer = answer]

\* The oldest entry makes room when it is complete, and nothing does when it
\* is not.
Prunable == Len(order) = Window /\ entry[held[Head(order)]].result # "none"

Execute(c) ==
  LET e == Asks[c]
      room == Len(order) < Window \/ Prunable
      kept == IF Prunable THEN Tail(order) ELSE order
      gone == IF Prunable THEN {Head(order)} ELSE {}
  IN  /\ call[c].step = "idle"
      /\ \/ /\ held[e] # Nobody
            /\ call' = [call EXCEPT ![c].step = "joined", ![c].follows = held[e]]
            /\ UNCHANGED <<entry, held, order, forgotten>>
         \/ /\ held[e] = Nobody /\ ~room
            /\ Answered(c, "FAILED")
            /\ UNCHANGED <<entry, held, order, forgotten>>
         \/ /\ held[e] = Nobody /\ room
            /\ held' = [x \in Executions |-> IF x = e THEN c ELSE IF x \in gone THEN Nobody ELSE held[x]]
            /\ order' = Append(kept, e)
            /\ entry' = [entry EXCEPT ![c] = [wire |-> here, result |-> "none"]]
            /\ call' = [call EXCEPT ![c].step = "begun", ![c].wire = here, ![c].follows = c]
            /\ forgotten' = forgotten \cup gone
      /\ UNCHANGED <<here, ended, serving, present, last, line, inbox, results, working,
                     terminal, executed, relaunched, bootWire>>

\* No socket; or the session is revoked, or the message cannot be sent.
Refuse(c) ==
  LET e == Asks[c]
      g == call[c].wire
      entries == IF g = 0 THEN entry ELSE Interrupted(g)
  IN  /\ call[c].step = "begun"
      /\ IF g = 0 THEN UNCHANGED <<here, ended, present, results>> ELSE Shut(g)
      /\ entry' = Finished(entries, e, "FAILED")
      /\ Answered(c, Verdict(entry', e, "FAILED"))
      /\ UNCHANGED <<held, order, serving, last, line, inbox, working,
                     terminal, executed, forgotten, relaunched, bootWire>>

SendExecution(c) ==
  /\ call[c].step = "begun"
  /\ call[c].wire \notin {0} \cup ended
  /\ inbox' = IF call[c].wire = line THEN Append(inbox, Asks[c]) ELSE inbox
  /\ call' = [call EXCEPT ![c].step = "waiting"]
  /\ UNCHANGED <<entry, held, order, here, ended, serving, present, last, line, results,
                 working, terminal, executed, forgotten, relaunched, bootWire>>

ReturnResult(c) ==
  /\ call[c].step \in {"waiting", "joined"}
  /\ entry[call[c].follows].result # "none"
  /\ Answered(c, entry[call[c].follows].result)
  /\ UNCHANGED <<entry, held, order, here, ended, serving, present, last, line, inbox,
                 results, working, terminal, executed, forgotten, relaunched, bootWire>>

\* The context of the call or its timer: the socket is closed, then the entry
\* is finished.
GiveUp(c, outcome) ==
  LET e == Asks[c]
      g == call[c].wire
  IN  /\ call[c].step = "waiting"
      /\ outcome \in {"CANCELLED", "TIMED_OUT"}
      /\ Shut(g)
      /\ entry' = Finished(Interrupted(g), e, outcome)
      /\ call' = [call EXCEPT ![c].step = "done", ![c].wire = 0,
                              ![c].answer = Verdict(entry', e, outcome)]
      /\ UNCHANGED <<held, order, serving, last, line, inbox, working,
                     terminal, executed, forgotten, relaunched, bootWire>>

\* waitForRuntimeExecution, whose context has ended.
StopFollowing(c) ==
  /\ call[c].step = "joined"
  /\ Answered(c, "CANCELLED")
  /\ UNCHANGED <<entry, held, order, here, ended, serving, present, last, line, inbox,
                 results, working, terminal, executed, forgotten, relaunched, bootWire>>

-----------------------------------------------------------------------------
\* The sockets.

\* acceptHello: the report and the registration are one critical section.
AcceptHello ==
  LET g == last + 1
  IN  /\ line = 0 /\ g \in Wires /\ working = NotWorking
      /\ last' = g /\ line' = g /\ here' = g
      /\ present' = TRUE
      /\ serving' = [serving EXCEPT ![g] = [step |-> "accepted", displaced |-> here]]
      /\ UNCHANGED <<call, entry, held, order, ended, inbox, results, working,
                     terminal, executed, forgotten, relaunched, bootWire>>

CloseDisplaced(g) ==
  LET old == serving[g].displaced
  IN  /\ serving[g].step = "accepted"
      /\ serving' = [serving EXCEPT ![g] = [step |-> "reading", displaced |-> 0]]
      /\ IF old = 0 THEN UNCHANGED <<entry, here, ended, present, results>>
         ELSE Shut(old) /\ entry' = Interrupted(old)
      /\ UNCHANGED <<call, held, order, last, line, inbox, working,
                     terminal, executed, forgotten, relaunched, bootWire>>

\* A result counts for an entry that was sent on the same socket.
AcceptResult(g) ==
  LET e == Head(results[g]).execution
  IN  /\ serving[g].step = "reading" /\ g \notin ended
      /\ results[g] # <<>>
      /\ results' = [results EXCEPT ![g] = Tail(@)]
      /\ entry' = IF held[e] # Nobody /\ entry[held[e]].wire = g
                   THEN Finished(entry, e, Head(results[g]).outcome) ELSE entry
      /\ UNCHANGED <<call, held, order, here, ended, serving, present, last, line, inbox,
                     working, terminal, executed, forgotten, relaunched, bootWire>>

\* The socket fails, is closed by the Hub, or brings a hello although it is not
\* the current one.
EndConnection(g) ==
  /\ serving[g].step = "reading"
  /\ g \in ended \/ here # g \/ (line # g /\ results[g] = <<>>)
  /\ serving' = [serving EXCEPT ![g].step = "over"]
  /\ Shut(g)
  /\ entry' = Interrupted(g)
  /\ UNCHANGED <<call, held, order, last, line, inbox, working,
                 terminal, executed, forgotten, relaunched, bootWire>>

\* The Hub dies and starts again; the row of the Companion is as it was.
RestartHubChannel ==
  /\ last < MaxWire
  /\ call' = [c \in Callers |-> IF call[c].step = "idle" THEN call[c]
                                ELSE [call[c] EXCEPT !.step = "done", !.wire = 0, !.follows = Nobody]]
  /\ forgotten' = forgotten \cup {e \in Executions : held[e] # Nobody}
  /\ entry' = [c \in Callers |-> NoEntry]
  /\ held' = [e \in Executions |-> Nobody]
  /\ order' = <<>>
  /\ here' = 0 /\ bootWire' = last
  /\ ended' = 1..last
  /\ serving' = [g \in Wires |-> [step |-> IF g <= last THEN "over" ELSE "none", displaced |-> 0]]
  /\ results' = [g \in Wires |-> <<>>]
  /\ UNCHANGED <<present, last, line, inbox, working, terminal, executed, relaunched>>

-----------------------------------------------------------------------------
\* The Companion: one request at a time, and its answer before the next.

Reply(g, e, outcome) ==
  results' = IF g = line /\ g \notin ended
             THEN [results EXCEPT ![g] = Append(@, [execution |-> e, outcome |-> outcome])]
             ELSE results

\* Faulty variant: the guard is not asked.
TakeUnguarded ==
  LET e == Head(inbox)
  IN  /\ inbox # <<>> /\ working = NotWorking
      /\ inbox' = Tail(inbox)
      /\ working' = [execution |-> e, wire |-> line]
      /\ executed' = [executed EXCEPT ![e] = @ + 1]
      /\ UNCHANGED <<call, entry, held, order, here, ended, serving, present, last, line,
                     results, terminal, forgotten, relaunched, bootWire>>

\* Anything in the request that does not fit rejects it, and is terminal too.
TakeExecution ==
  LET e == Head(inbox)
  IN  /\ inbox # <<>> /\ working = NotWorking
      /\ inbox' = Tail(inbox)
      /\ \/ /\ e \in terminal
            /\ Reply(line, e, "FAILED")
            /\ UNCHANGED <<working, terminal, executed>>
         \/ /\ e \notin terminal
            /\ Reply(line, e, "FAILED") /\ terminal' = terminal \cup {e}
            /\ UNCHANGED <<working, executed>>
         \/ /\ e \notin terminal
            /\ working' = [execution |-> e, wire |-> line]
            /\ executed' = [executed EXCEPT ![e] = @ + 1]
            /\ UNCHANGED <<results, terminal>>
      /\ UNCHANGED <<call, entry, held, order, here, ended, serving, present, last, line,
                     forgotten, relaunched, bootWire>>

\* TIMED_OUT is as FAILED.
EndExecution ==
  /\ working # NotWorking
  /\ \E outcome \in {"COMPLETED", "FAILED"} :
       Reply(working.wire, working.execution, outcome)
  /\ terminal' = terminal \cup {working.execution}
  /\ working' = NotWorking
  /\ UNCHANGED <<call, entry, held, order, here, ended, serving, present, last, line, inbox,
                 executed, forgotten, relaunched, bootWire>>

LoseLine ==
  /\ line # 0 /\ last < MaxWire
  /\ line' = 0 /\ inbox' = <<>>
  /\ UNCHANGED <<call, entry, held, order, here, ended, serving, present, last, results,
                 working, terminal, executed, forgotten, relaunched, bootWire>>

Relaunch ==
  /\ last < MaxWire
  /\ line' = 0 /\ inbox' = <<>>
  /\ working' = NotWorking
  /\ terminal' = {} /\ relaunched' = TRUE
  /\ UNCHANGED <<call, entry, held, order, here, ended, serving, present, last, results,
                 executed, forgotten, bootWire>>

Calling(c) ==
  \/ Execute(c) \/ Refuse(c) \/ SendExecution(c) \/ ReturnResult(c) \/ StopFollowing(c)
  \/ \E outcome \in Outcomes : GiveUp(c, outcome)

ChannelNext ==
  \/ \E c \in Callers : Calling(c)
  \/ AcceptHello
  \/ \E g \in Wires : CloseDisplaced(g) \/ AcceptResult(g) \/ EndConnection(g)
  \/ RestartHubChannel
  \/ TakeExecution \/ EndExecution \/ LoseLine \/ Relaunch

ChannelSpec == ChannelInit /\ [][ChannelNext]_channelVars

-----------------------------------------------------------------------------

ChannelTypeOK ==
  /\ call \in [Callers -> [step : {"idle", "begun", "waiting", "joined", "done"},
                           wire : 0..MaxWire, follows : Callers \cup {Nobody},
                           answer : Outcomes \cup {"none"}]]
  /\ entry \in [Callers -> [wire : 0..MaxWire, result : Outcomes \cup {"none"}]]
  /\ held \in [Executions -> Callers \cup {Nobody}]
  /\ here \in 0..last /\ line \in 0..last /\ last \in 0..MaxWire
  /\ present \in BOOLEAN

(* An execution is begun a second time only when both sides have lost what   *)
(* they knew of the first: the entry that was pruned or went with the Hub,  *)
(* and the Companion's guard (Execute, pruneExecutionsLocked, markTerminal). *)
ExecutedOnce ==
  \A e \in Executions : executed[e] <= 1 \/ (e \in forgotten /\ relaunched)

(* The database calls a Companion present exactly while a socket of it is    *)
(* current, whatever the order in which an old socket ends and a new one is  *)
(* accepted.  A Hub that was restarted still shows what it showed before,    *)
(* until the Companion is back (acceptHello, removeConnection).              *)
PresenceIsTrue == present <=> here # 0 \/ (present /\ last = bootWire)

(* Calls that shared an entry have one verdict, except for a call that did  *)
(* not wait for it, and one that gave up after the entry was pruned         *)
(* (finish, waitForRuntimeExecution).                                        *)
OneVerdict ==
  \A c, d \in Callers :
    call[c].step = "done" /\ call[d].step = "done" /\ call[c].follows = call[d].follows
      /\ call[c].follows # Nobody =>
    \/ call[c].answer = call[d].answer
    \/ "CANCELLED" \in {call[c].answer, call[d].answer}
    \/ Asks[c] \in forgotten

(* One execution and one verdict for those who asked for it, as above.       *)
ExecutionHasOneOutcome == ExecutedOnce /\ OneVerdict

=============================================================================
