------------------------ MODULE RuntimeControl_proofs -----------------------
(* Proofs about RuntimeControl, for any number of handlers, requests, Cues   *)
(* and Actions.                                                              *)
EXTENDS RuntimeControl, TLAPS

-----------------------------------------------------------------------------
(* Types.                                                                    *)

Launched == {"advance", "delay", "dispatch", "acting", "finishCue"}

\* What a handler's fields mean at each of its phases.
Placed(o) ==
  /\ o.pc # "idle" => o.req \in Requests
  /\ o.pc = "admit" => o.kind = "go"
  /\ o.pc \in {"launch", "advance"} => o.cue \in Cues
  /\ o.pc \in Launched => o.exec \in DOMAIN executions
  /\ o.pc \in {"delay", "dispatch", "acting"} => o.left > 0
  /\ o.pc \in {"admit", "reserve", "select", "launch", "advance", "delay",
               "dispatch", "acting"} => o.result = "COMPLETED"
  /\ o.pc = "finishCue" => o.result \in {"COMPLETED", "FAILED", "CANCELLED"}

\* Service.active holds the operator's runs, from admission to the last row.
GoPhases == {"reserve", "select", "finish"} \cup Engaged

Registered(t) == t \in active <=> op[t].kind = "go" /\ op[t].pc \in GoPhases

TypeInv ==
  /\ TypeOK
  /\ \A t \in Threads : Placed(op[t]) /\ Registered(t)

LEMMA IdleHandler == Idle \in Handlers /\ Idle.pc = "idle" /\ ~Idle.holds /\ ~Idle.confirmed
                     /\ Idle.result = "COMPLETED" /\ Idle.waits = {}
  BY RuntimeControlAssumption DEF Idle, Handlers, Phases, Engaged, GoKinds, StopKinds,
     Cues, Terminal

LEMMA TypeInit == Init => TypeInv
  <1> SUFFICES ASSUME Init PROVE TypeInv
    OBVIOUS
  <1>1. TypeOK
    <2>1. /\ executions \in Seq(Executions)
          /\ records \in [Requests -> {"none", "ACCEPTED"} \cup Terminal]
      BY DEF Init
    <2>2. session \in [status : {"ACTIVE", "COMPLETED", "ABORTED"},
                       current : {0} \cup Cues, latch : Requests \cup {NoRequest}]
      BY DEF Init
    <2> QED
      BY IdleHandler, <2>1, <2>2 DEF Init, TypeOK
  <1>2. \A t \in Threads : Placed(op[t]) /\ Registered(t)
    BY IdleHandler DEF Init, Placed, Launched, Registered, GoPhases, Engaged
  <1> QED
    BY <1>1, <1>2 DEF Init, TypeInv


-----------------------------------------------------------------------------
(* What the record updates of the actions do to a handler, field by field.   *)

\* The fields of a handler that no other handler writes.
Like(new, old) ==
  /\ new.pc = old.pc /\ new.kind = old.kind /\ new.req = old.req
  /\ new.cue = old.cue /\ new.exec = old.exec /\ new.left = old.left
  /\ new.result = old.result /\ new.holds = old.holds
  /\ new.confirmed = old.confirmed

\* Only t moves, apart from what it writes into the others' waits and cut.
Only(t) ==
  /\ op' \in [Threads -> Handlers]
  /\ \A u \in Threads \ {t} : Like(op'[u], op[u])

\* t goes on with the request that it has, and leaves the others alone.
Moved(t) ==
  /\ Only(t)
  /\ \A u \in Threads \ {t} : op'[u].waits = op[u].waits
  /\ op'[t].kind = op[t].kind /\ op'[t].req = op[t].req

SameRun(t) == /\ op'[t].cue = op[t].cue /\ op'[t].exec = op[t].exec
              /\ op'[t].left = op[t].left

SameStop(t) == /\ op'[t].waits = op[t].waits /\ op'[t].holds = op[t].holds
               /\ op'[t].confirmed = op[t].confirmed

SameResult(t) == op'[t].result = op[t].result

Typed == op \in [Threads -> Handlers]

LEMMA Moves ==
  ASSUME Typed, NEW t \in Threads, NEW s \in Handlers, Become(t, s)
  PROVE  /\ Only(t)
         /\ op'[t] = s
         /\ \A u \in Threads \ {t} : op'[u].waits = op[u].waits
  BY DEF Typed, Become, Only, Like

LEMMA GotoEffect ==
  ASSUME Typed, NEW t \in Threads, NEW p \in Phases, Goto(t, p)
  PROVE  Moved(t) /\ SameRun(t) /\ SameStop(t) /\ SameResult(t) /\ op'[t].pc = p
  <1>1. PICK o \in Handlers : o = op[t]
    BY DEF Typed
  <1>2. PICK s : s = [o EXCEPT !.pc = p]
    OBVIOUS
  <1>3. /\ s \in Handlers /\ s.pc = p /\ s.result = o.result
        /\ s.kind = o.kind /\ s.req = o.req
        /\ s.cue = o.cue /\ s.exec = o.exec /\ s.left = o.left
        /\ s.waits = o.waits /\ s.holds = o.holds /\ s.confirmed = o.confirmed
    BY <1>2 DEF Handlers
  <1>4. Become(t, s)
    BY <1>1, <1>2 DEF Goto
  <1> QED
    BY <1>1, <1>3, <1>4, Moves DEF Typed, Moved, SameRun, SameStop, SameResult

LEMMA ConcludeEffect ==
  ASSUME Typed, NEW t \in Threads, NEW p \in Phases, NEW r \in Terminal, Conclude(t, p, r)
  PROVE  Moved(t) /\ SameRun(t) /\ SameStop(t) /\ op'[t].pc = p /\ op'[t].result = r
  <1>1. PICK o \in Handlers : o = op[t]
    BY DEF Typed
  <1>2. PICK s : s = [o EXCEPT !.pc = p, !.result = r]
    OBVIOUS
  <1>3. /\ s \in Handlers /\ s.pc = p /\ s.result = r
        /\ s.kind = o.kind /\ s.req = o.req
        /\ s.cue = o.cue /\ s.exec = o.exec /\ s.left = o.left
        /\ s.waits = o.waits /\ s.holds = o.holds /\ s.confirmed = o.confirmed
    BY <1>2 DEF Handlers
  <1>4. Become(t, s)
    BY <1>1, <1>2 DEF Conclude
  <1> QED
    BY <1>1, <1>3, <1>4, Moves DEF Typed, Moved, SameRun, SameStop

LEMMA LaunchingEffect ==
  ASSUME Typed, NEW t \in Threads, NEW c \in Cues,
         Become(t, [op[t] EXCEPT !.pc = "launch", !.cue = c])
  PROVE   /\ Moved(t)
          /\ op'[t].exec = op[t].exec
          /\ op'[t].left = op[t].left
          /\ SameStop(t)
          /\ SameResult(t)
          /\ op'[t].pc = "launch"
          /\ op'[t].cue = c
  <1>1. PICK o \in Handlers : o = op[t]
    BY DEF Typed
  <1>2. PICK s : s = [o EXCEPT !.pc = "launch", !.cue = c]
    OBVIOUS
  <1>3. /\ s \in Handlers /\ s.pc = "launch" /\ s.cue = c
        /\ s.kind = o.kind /\ s.req = o.req /\ s.exec = o.exec
        /\ s.left = o.left /\ s.result = o.result /\ s.waits = o.waits
        /\ s.holds = o.holds /\ s.confirmed = o.confirmed
    BY <1>2 DEF Handlers, Phases, Engaged
  <1>4. Become(t, s)
    BY <1>1, <1>2
  <1> QED
    BY <1>1, <1>3, <1>4, Moves DEF Typed, Moved, SameStop, SameResult

LEMMA LaunchedEffect ==
  ASSUME Typed, NEW t \in Threads, NEW n \in Nat,
         Become(t, [op[t] EXCEPT !.pc = "advance", !.exec = n])
  PROVE   /\ Moved(t)
          /\ op'[t].cue = op[t].cue
          /\ op'[t].left = op[t].left
          /\ SameStop(t)
          /\ SameResult(t)
          /\ op'[t].pc = "advance"
          /\ op'[t].exec = n
  <1>1. PICK o \in Handlers : o = op[t]
    BY DEF Typed
  <1>2. PICK s : s = [o EXCEPT !.pc = "advance", !.exec = n]
    OBVIOUS
  <1>3. /\ s \in Handlers /\ s.pc = "advance" /\ s.exec = n
        /\ s.kind = o.kind /\ s.req = o.req /\ s.cue = o.cue
        /\ s.left = o.left /\ s.result = o.result /\ s.waits = o.waits
        /\ s.holds = o.holds /\ s.confirmed = o.confirmed
    BY <1>2 DEF Handlers, Phases, Engaged
  <1>4. Become(t, s)
    BY <1>1, <1>2
  <1> QED
    BY <1>1, <1>3, <1>4, Moves DEF Typed, Moved, SameStop, SameResult

LEMMA AdvancedEffect ==
  ASSUME Typed, NEW t \in Threads, NEW n \in 0..Actions,
         Become(t, [op[t] EXCEPT !.pc = "delay", !.left = n])
  PROVE   /\ Moved(t)
          /\ op'[t].cue = op[t].cue
          /\ op'[t].exec = op[t].exec
          /\ SameStop(t)
          /\ SameResult(t)
          /\ op'[t].pc = "delay"
          /\ op'[t].left = n
  <1>1. PICK o \in Handlers : o = op[t]
    BY DEF Typed
  <1>2. PICK s : s = [o EXCEPT !.pc = "delay", !.left = n]
    OBVIOUS
  <1>3. /\ s \in Handlers /\ s.pc = "delay" /\ s.left = n
        /\ s.kind = o.kind /\ s.req = o.req /\ s.cue = o.cue
        /\ s.exec = o.exec /\ s.result = o.result /\ s.waits = o.waits
        /\ s.holds = o.holds /\ s.confirmed = o.confirmed
    BY <1>2 DEF Handlers, Phases, Engaged
  <1>4. Become(t, s)
    BY <1>1, <1>2
  <1> QED
    BY <1>1, <1>3, <1>4, Moves DEF Typed, Moved, SameStop, SameResult

LEMMA ActionEffect ==
  ASSUME Typed, NEW t \in Threads, NEW n \in 0..Actions, NEW p \in Phases,
         Become(t, [op[t] EXCEPT !.left = n, !.pc = p])
  PROVE   /\ Moved(t)
          /\ op'[t].cue = op[t].cue
          /\ op'[t].exec = op[t].exec
          /\ SameStop(t)
          /\ SameResult(t)
          /\ op'[t].left = n
          /\ op'[t].pc = p
  <1>1. PICK o \in Handlers : o = op[t]
    BY DEF Typed
  <1>2. PICK s : s = [o EXCEPT !.left = n, !.pc = p]
    OBVIOUS
  <1>3. /\ s \in Handlers /\ s.left = n /\ s.pc = p
        /\ s.kind = o.kind /\ s.req = o.req /\ s.cue = o.cue
        /\ s.exec = o.exec /\ s.result = o.result /\ s.waits = o.waits
        /\ s.holds = o.holds /\ s.confirmed = o.confirmed
    BY <1>2 DEF Handlers, Phases, Engaged
  <1>4. Become(t, s)
    BY <1>1, <1>2
  <1> QED
    BY <1>1, <1>3, <1>4, Moves DEF Typed, Moved, SameStop, SameResult

LEMMA ReadEffect ==
  ASSUME Typed, NEW t \in Threads, NEW l \in Requests,
         Become(t, [op[t] EXCEPT !.pc = "applyClear", !.saw = l])
  PROVE   /\ Moved(t)
          /\ SameRun(t)
          /\ SameStop(t)
          /\ SameResult(t)
          /\ op'[t].pc = "applyClear"
  <1>1. PICK o \in Handlers : o = op[t]
    BY DEF Typed
  <1>2. PICK s : s = [o EXCEPT !.pc = "applyClear", !.saw = l]
    OBVIOUS
  <1>3. /\ s \in Handlers /\ s.pc = "applyClear" /\ s.kind = o.kind
        /\ s.req = o.req /\ s.cue = o.cue /\ s.exec = o.exec
        /\ s.left = o.left /\ s.result = o.result /\ s.waits = o.waits
        /\ s.holds = o.holds /\ s.confirmed = o.confirmed
    BY <1>2 DEF Handlers, Phases, Engaged
  <1>4. Become(t, s)
    BY <1>1, <1>2
  <1> QED
    BY <1>1, <1>3, <1>4, Moves DEF Typed, Moved, SameRun, SameStop, SameResult

LEMMA FenceEffect ==
  ASSUME Typed, NEW t \in Threads, NEW p \in Phases,
         Become(t, [op[t] EXCEPT !.holds = TRUE, !.pc = p])
  PROVE   /\ Moved(t)
          /\ SameRun(t)
          /\ op'[t].waits = op[t].waits
          /\ op'[t].confirmed = op[t].confirmed
          /\ SameResult(t)
          /\ op'[t].holds = TRUE
          /\ op'[t].pc = p
  <1>1. PICK o \in Handlers : o = op[t]
    BY DEF Typed
  <1>2. PICK s : s = [o EXCEPT !.holds = TRUE, !.pc = p]
    OBVIOUS
  <1>3. /\ s \in Handlers /\ s.holds = TRUE /\ s.pc = p
        /\ s.kind = o.kind /\ s.req = o.req /\ s.cue = o.cue
        /\ s.exec = o.exec /\ s.left = o.left /\ s.result = o.result
        /\ s.waits = o.waits /\ s.confirmed = o.confirmed
    BY <1>2 DEF Handlers
  <1>4. Become(t, s)
    BY <1>1, <1>2
  <1> QED
    BY <1>1, <1>3, <1>4, Moves DEF Typed, Moved, SameRun, SameResult

LEMMA SnapshotEffect ==
  ASSUME Typed, NEW t \in Threads, NEW W \in SUBSET Threads, NEW T \in SUBSET Requests,
         Become(t, [op[t] EXCEPT !.pc = "interrupt", !.waits = W, !.targets = T])
  PROVE   /\ Moved(t)
          /\ SameRun(t)
          /\ op'[t].holds = op[t].holds
          /\ op'[t].confirmed = op[t].confirmed
          /\ SameResult(t)
          /\ op'[t].pc = "interrupt"
          /\ op'[t].waits = W
  <1>1. PICK o \in Handlers : o = op[t]
    BY DEF Typed
  <1>2. PICK s : s = [o EXCEPT !.pc = "interrupt", !.waits = W, !.targets = T]
    OBVIOUS
  <1>3. /\ s \in Handlers /\ s.pc = "interrupt" /\ s.waits = W
        /\ s.kind = o.kind /\ s.req = o.req /\ s.cue = o.cue
        /\ s.exec = o.exec /\ s.left = o.left /\ s.result = o.result
        /\ s.holds = o.holds /\ s.confirmed = o.confirmed
    BY <1>2 DEF Handlers, Phases, Engaged
  <1>4. Become(t, s)
    BY <1>1, <1>2
  <1> QED
    BY <1>1, <1>3, <1>4, Moves DEF Typed, Moved, SameRun, SameResult

LEMMA ConfirmEffect ==
  ASSUME Typed, NEW t \in Threads, NEW p \in Phases,
         Become(t, [op[t] EXCEPT !.confirmed = TRUE, !.pc = p])
  PROVE   /\ Moved(t)
          /\ SameRun(t)
          /\ op'[t].waits = op[t].waits
          /\ op'[t].holds = op[t].holds
          /\ SameResult(t)
          /\ op'[t].confirmed = TRUE
          /\ op'[t].pc = p
  <1>1. PICK o \in Handlers : o = op[t]
    BY DEF Typed
  <1>2. PICK s : s = [o EXCEPT !.confirmed = TRUE, !.pc = p]
    OBVIOUS
  <1>3. /\ s \in Handlers /\ s.confirmed = TRUE /\ s.pc = p
        /\ s.kind = o.kind /\ s.req = o.req /\ s.cue = o.cue
        /\ s.exec = o.exec /\ s.left = o.left /\ s.result = o.result
        /\ s.waits = o.waits /\ s.holds = o.holds
    BY <1>2 DEF Handlers
  <1>4. Become(t, s)
    BY <1>1, <1>2
  <1> QED
    BY <1>1, <1>3, <1>4, Moves DEF Typed, Moved, SameRun, SameResult

LEMMA GoneEffect ==
  ASSUME Typed, NEW t \in Threads,
         Become(t, [op[t] EXCEPT !.gone = TRUE])
  PROVE   /\ Moved(t)
          /\ SameRun(t)
          /\ SameStop(t)
          /\ SameResult(t)
          /\ op'[t].pc = op[t].pc
  <1>1. PICK o \in Handlers : o = op[t]
    BY DEF Typed
  <1>2. PICK s : s = [o EXCEPT !.gone = TRUE]
    OBVIOUS
  <1>3. /\ s \in Handlers /\ s.kind = o.kind /\ s.req = o.req
        /\ s.cue = o.cue /\ s.exec = o.exec /\ s.left = o.left
        /\ s.result = o.result /\ s.waits = o.waits /\ s.holds = o.holds
        /\ s.confirmed = o.confirmed /\ s.pc = o.pc
    BY <1>2 DEF Handlers
  <1>4. Become(t, s)
    BY <1>1, <1>2
  <1> QED
    BY <1>1, <1>3, <1>4, Moves DEF Typed, Moved, SameRun, SameStop, SameResult

\* A run that leaves is forgotten by everybody who waits for it.
LEMMA LeaveEffect ==
  ASSUME Typed, NEW t \in Threads, Leave(t)
  PROVE  /\ Only(t)
         /\ op'[t] = Idle
         /\ \A u \in Threads \ {t} : op'[u].waits = op[u].waits \ {t}
         /\ active' = active \ {t}
  <1>1. \A u \in Threads \ {t} : op'[u] = [op[u] EXCEPT !.waits = @ \ {t}]
    BY DEF Leave
  <1>2. ASSUME NEW o \in Handlers, NEW s, s = [o EXCEPT !.waits = @ \ {t}]
        PROVE  s \in Handlers /\ Like(s, o) /\ s.waits = o.waits \ {t}
    BY <1>2 DEF Handlers, Like
  <1>3. \A u \in Threads \ {t} : /\ op'[u] \in Handlers /\ Like(op'[u], op[u])
                                 /\ op'[u].waits = op[u].waits \ {t}
    BY <1>1, <1>2 DEF Typed
  <1> QED
    BY <1>3, IdleHandler DEF Leave, Only

LEMMA InterruptEffect ==
  ASSUME Typed, NEW t \in Threads, Interrupt(t)
  PROVE  /\ Moved(t) /\ SameRun(t) /\ SameStop(t) /\ SameResult(t)
         /\ op'[t].pc = "wait"
  <1>1. ASSUME NEW o \in Handlers, NEW s, s = [o EXCEPT !.pc = "wait"]
        PROVE  /\ s \in Handlers /\ s.pc = "wait" /\ s.result = o.result
               /\ s.kind = o.kind /\ s.req = o.req
               /\ s.cue = o.cue /\ s.exec = o.exec /\ s.left = o.left
               /\ s.waits = o.waits /\ s.holds = o.holds /\ s.confirmed = o.confirmed
    BY <1>1 DEF Handlers, Phases
  <1>2. ASSUME NEW o \in Handlers, NEW s, s = [o EXCEPT !.cut = TRUE]
        PROVE  s \in Handlers /\ Like(s, o) /\ s.waits = o.waits
    BY <1>2 DEF Handlers, Like
  <1>3. \A u \in Threads \ {t} : /\ op'[u] \in Handlers /\ Like(op'[u], op[u])
                                 /\ op'[u].waits = op[u].waits
    BY <1>2 DEF Typed, Interrupt, Like
  <1>4. op'[t] = [op[t] EXCEPT !.pc = "wait"]
    BY DEF Interrupt
  <1>5. /\ op'[t] \in Handlers /\ op'[t].pc = "wait" /\ SameRun(t) /\ SameStop(t)
        /\ SameResult(t) /\ op'[t].kind = op[t].kind /\ op'[t].req = op[t].req
    BY <1>1, <1>4 DEF Typed, SameRun, SameStop, SameResult
  <1>6. op' \in [Threads -> Handlers]
    BY <1>3, <1>5 DEF Interrupt
  <1> QED
    BY <1>3, <1>5, <1>6 DEF Moved, Only

LEMMA BeginFacts ==
  ASSUME NEW r \in Requests, NEW p \in Phases
  PROVE  /\ Begin(r, p) \in Handlers /\ Begin(r, p).pc = p /\ Begin(r, p).req = r
         /\ Begin(r, p).kind = Ask[r] /\ Begin(r, p).result = "COMPLETED"
         /\ ~Begin(r, p).holds /\ ~Begin(r, p).confirmed
  <1>1. PICK s : s = [Idle EXCEPT !.kind = Ask[r], !.req = r, !.pc = p]
    OBVIOUS
  <1>2. Ask[r] \in GoKinds \cup StopKinds
    BY RuntimeControlAssumption
  <1>3. /\ s \in Handlers /\ s.pc = p /\ s.req = r /\ s.kind = Ask[r]
        /\ s.result = "COMPLETED" /\ ~s.holds /\ ~s.confirmed
    BY <1>1, <1>2, IdleHandler DEF Handlers
  <1> QED
    BY <1>1, <1>3 DEF Begin

\* A new request replaces whatever the handler did before.
Begun(t, r, p) ==
  /\ Only(t)
  /\ \A u \in Threads \ {t} : op'[u].waits = op[u].waits
  /\ op'[t].pc = p /\ op'[t].req = r /\ op'[t].kind = Ask[r]
  /\ op'[t].result = "COMPLETED" /\ ~op'[t].holds /\ ~op'[t].confirmed

LEMMA GoEffect ==
  ASSUME Typed, session.current \in {0} \cup Cues, NEW t \in Threads, NEW r \in Requests,
         RequestGo(t, r)
  PROVE  Begun(t, r, "admit")
  <1>1. PICK e \in {-1, session.current}, c \in {0} \cup Jumps :
          Become(t, [Begin(r, "admit") EXCEPT !.expect = e, !.want = c])
    BY DEF RequestGo
  <1>2. PICK b \in Handlers : b = Begin(r, "admit")
    BY BeginFacts DEF Phases
  <1>3. PICK s : s = [b EXCEPT !.expect = e, !.want = c]
    OBVIOUS
  <1>4. c \in {0} \cup Cues /\ e \in {-1, 0} \cup Cues
    BY RuntimeControlAssumption
  <1>5. /\ s \in Handlers /\ s.pc = b.pc /\ s.req = b.req /\ s.kind = b.kind
        /\ s.result = b.result /\ s.holds = b.holds /\ s.confirmed = b.confirmed
    BY <1>3, <1>4 DEF Handlers
  <1>6. Become(t, s)
    BY <1>1, <1>2, <1>3
  <1> QED
    BY <1>2, <1>5, <1>6, Moves, BeginFacts DEF Begun, Phases

LEMMA TimecodeEffect ==
  ASSUME Typed, session.current \in {0} \cup Cues, NEW t \in Threads, NEW r \in Requests,
         RequestTimecode(t, r)
  PROVE  Begun(t, r, "reserve")
  <1>1. PICK e : e = IF session.current = 0 THEN -1 ELSE session.current
    OBVIOUS
  <1>2. PICK b \in Handlers : b = Begin(r, "reserve")
    BY BeginFacts DEF Phases
  <1>3. PICK s : s = [b EXCEPT !.want = NextCue, !.expect = e]
    OBVIOUS
  <1>4. NextCue \in Cues /\ e \in {-1, 0} \cup Cues
    BY <1>1 DEF RequestTimecode
  <1>5. /\ s \in Handlers /\ s.pc = b.pc /\ s.req = b.req /\ s.kind = b.kind
        /\ s.result = b.result /\ s.holds = b.holds /\ s.confirmed = b.confirmed
    BY <1>3, <1>4 DEF Handlers
  <1>6. Become(t, s)
    BY <1>1, <1>2, <1>3 DEF RequestTimecode
  <1> QED
    BY <1>2, <1>5, <1>6, Moves, BeginFacts DEF Begun, Phases

LEMMA StopEffect ==
  ASSUME Typed, session.status \in {"ACTIVE", "COMPLETED", "ABORTED"},
         NEW t \in Threads, NEW r \in Requests, RequestStop(t, r)
  PROVE  Begun(t, r, "reserveStop")
  <1>1. PICK b \in Handlers : b = Begin(r, "reserveStop")
    BY BeginFacts DEF Phases
  <1>2. PICK s : s = [b EXCEPT !.status = session.status]
    OBVIOUS
  <1>3. /\ s \in Handlers /\ s.pc = b.pc /\ s.req = b.req /\ s.kind = b.kind
        /\ s.result = b.result /\ s.holds = b.holds /\ s.confirmed = b.confirmed
    BY <1>2 DEF Handlers
  <1>4. Become(t, s)
    BY <1>1, <1>2 DEF RequestStop
  <1> QED
    BY <1>1, <1>3, <1>4, Moves, BeginFacts DEF Begun, Phases

\* A row that ends keeps the command that launched it.
LEMMA EndedRow ==
  ASSUME executions \in Seq(Executions), NEW i \in DOMAIN executions,
         NEW r \in {"COMPLETED", "FAILED", "CANCELLED"},
         executions' = [executions EXCEPT ![i].result = r]
  PROVE  /\ executions' \in Seq(Executions)
         /\ DOMAIN executions' = DOMAIN executions
         /\ \A j \in DOMAIN executions : executions'[j].by = executions[j].by
  <1>1. ASSUME NEW o \in Executions, NEW s, s = [o EXCEPT !.result = r]
        PROVE  s \in Executions /\ s.by = o.by
    BY <1>1 DEF Executions
  <1>2. PICK o \in Executions : o = executions[i]
    OBVIOUS
  <1>3. PICK s : s = [o EXCEPT !.result = r]
    OBVIOUS
  <1>4. executions' = [executions EXCEPT ![i] = s]
    BY <1>2, <1>3
  <1> QED
    BY <1>1, <1>2, <1>3, <1>4

LEMMA LaunchedRow ==
  ASSUME executions \in Seq(Executions), NEW c \in Cues, NEW r \in Requests,
         executions' = Append(executions, [cue |-> c, by |-> r, result |-> "RUNNING"])
  PROVE  /\ executions' \in Seq(Executions)
         /\ DOMAIN executions' = DOMAIN executions \cup {Len(executions) + 1}
         /\ Len(executions) + 1 \in Nat
         /\ \A j \in DOMAIN executions : executions'[j] = executions[j]
         /\ executions'[Len(executions) + 1].by = r
  BY DEF Executions

LEMMA RestartedRows ==
  ASSUME executions \in Seq(Executions), Restart
  PROVE  /\ executions' \in Seq(Executions)
         /\ DOMAIN executions' = DOMAIN executions
         /\ \A j \in DOMAIN executions : executions'[j].by = executions[j].by
  <1>1. CASE executions' = executions
    BY <1>1
  <1>2. CASE executions' = [i \in DOMAIN executions |->
               IF i \in Running THEN [executions[i] EXCEPT !.result = "CANCELLED"]
               ELSE executions[i]]
    <2>1. ASSUME NEW o \in Executions, NEW s, s = [o EXCEPT !.result = "CANCELLED"]
          PROVE  s \in Executions /\ s.by = o.by
      BY <2>1 DEF Executions
    <2>2. \A i \in DOMAIN executions : executions'[i] \in Executions
                                       /\ executions'[i].by = executions[i].by
      BY <1>2, <2>1
    <2> QED
      BY <1>2, <2>2
  <1> QED
    BY <1>1, <1>2 DEF Restart

-----------------------------------------------------------------------------
(* TypeOK is preserved.                                                      *)

RowsOK ==
  /\ session \in [status : {"ACTIVE", "COMPLETED", "ABORTED"},
                  current : {0} \cup Cues, latch : Requests \cup {NoRequest}]
  /\ executions \in Seq(Executions)
  /\ records \in [Requests -> {"none", "ACCEPTED"} \cup Terminal]
  /\ stopping \in BOOLEAN
  /\ active \subseteq Threads
  /\ stopped \subseteq Requests
  /\ advance \in [{"operator", "automation"} -> Threads \cup {NoThread}]
  /\ output \in {"live", "dark"}

LEMMA TypeParts == TypeOK <=> RowsOK /\ Typed
  BY DEF TypeOK, RowsOK, Typed

\* It is enough to look at the rows and at the handler that moves.
LEMMA TypeMoves ==
  ASSUME TypeInv, NEW t \in Threads, Only(t), RowsOK', Placed(op[t])', Registered(t)',
         DOMAIN executions \subseteq DOMAIN executions',
         active' \ {t} = active \ {t}
  PROVE  TypeInv'
  <1>1. Typed'
    BY DEF Only, Typed
  <1>2. \A u \in Threads \ {t} : Placed(op[u])'
    BY DEF TypeInv, Only, Like, Placed
  <1>3. \A u \in Threads \ {t} : Registered(u)'
    BY DEF TypeInv, Only, Like, Registered
  <1>4. TypeOK'
    BY <1>1, TypeParts DEF TypeOK, RowsOK, Typed
  <1> QED
    BY <1>2, <1>3, <1>4 DEF TypeInv

\* A handler goes on with its request, as a GO or as something else.
LEMMA TypeContinues ==
  ASSUME TypeInv, NEW t \in Threads, Moved(t), RowsOK', Placed(op[t])',
         DOMAIN executions \subseteq DOMAIN executions', active' = active,
         op[t].pc \in GoPhases <=> op'[t].pc \in GoPhases
  PROVE  TypeInv'
  BY TypeMoves DEF TypeInv, Registered, Moved

\* A run leaves, or a request that never ran ends.
LEMMA TypeEnds ==
  ASSUME TypeInv, NEW t \in Threads, Only(t), RowsOK', op'[t] = Idle,
         executions' = executions, active' = active \ {t}
  PROVE  TypeInv'
  BY TypeMoves, IdleHandler
  DEF Placed, Launched, Registered, GoPhases, Engaged

LEMMA TypeRequest ==
  ASSUME TypeInv, NEW t \in Threads, NEW r \in Requests,
         RequestGo(t, r) \/ RequestTimecode(t, r) \/ RequestStop(t, r)
  PROVE  TypeInv'
  <1>1. Typed /\ RowsOK
    BY TypeParts DEF TypeInv
  <1>2. PICK p \in {"admit", "reserve", "reserveStop"} :
          /\ Begun(t, r, p)
          /\ p = "reserve" => Ask[r] # "go"
          /\ p = "admit" => Ask[r] = "go"
    BY <1>1, GoEffect, TimecodeEffect, StopEffect
    DEF RowsOK, RequestTimecode, RequestGo
  <1>3. UNCHANGED <<rows, volatile, output>> /\ op[t].pc = "idle"
    BY DEF RequestGo, RequestTimecode, RequestStop
  <1>4. RowsOK' /\ executions' = executions /\ active' = active
    BY <1>1, <1>3 DEF RowsOK, rows, volatile
  <1>5. Placed(op[t])'
    BY <1>2 DEF Begun, Placed, Launched
  <1>6. Registered(t)'
    BY <1>2, <1>3, <1>4 DEF Begun, TypeInv, Registered, GoPhases, Engaged
  <1> QED
    BY <1>2, <1>4, <1>5, <1>6, TypeMoves DEF Begun

LEMMA TypeAdmit ==
  ASSUME TypeInv, NEW t \in Threads, Admit(t)
  PROVE  TypeInv'
  <1>1. /\ Typed /\ RowsOK /\ Placed(op[t]) /\ op[t] \in Handlers
        /\ Registered(t) /\ op[t].pc = "admit"
    BY TypeParts DEF TypeInv, Typed, Admit
  <1>2. CASE Goto(t, "reserve") /\ active' = active \cup {t}
    <2>1. Moved(t) /\ SameResult(t) /\ op'[t].pc = "reserve"
      BY <1>1, <1>2, GotoEffect DEF Phases
    <2>2. RowsOK' /\ executions' = executions
      BY <1>1, <1>2 DEF Admit, RowsOK, rows
    <2>3. Placed(op[t])'
      BY <1>1, <2>1 DEF Placed, Launched, Moved, SameResult
    <2>4. Registered(t)'
      BY <1>1, <1>2, <2>1 DEF Registered, Moved, Placed, GoPhases
    <2> QED
      BY <1>2, <2>1, <2>2, <2>3, <2>4, TypeMoves DEF Moved
  <1>3. CASE Become(t, Idle) /\ UNCHANGED active
    <2>1. Only(t) /\ op'[t] = Idle
      BY <1>1, <1>3, Moves, IdleHandler
    <2>2. RowsOK' /\ executions' = executions
      BY <1>1, <1>3 DEF Admit, RowsOK, rows
    <2>3. t \notin active
      BY <1>1 DEF Registered, GoPhases, Engaged
    <2> QED
      BY <1>3, <2>1, <2>2, <2>3, TypeEnds
  <1> QED
    BY <1>2, <1>3 DEF Admit

LEMMA TypeReserve ==
  ASSUME TypeInv, NEW t \in Threads, Reserve(t)
  PROVE  TypeInv'
  <1>1. /\ Typed /\ RowsOK /\ Placed(op[t]) /\ op[t].pc = "reserve"
    BY TypeParts DEF TypeInv, Reserve
  <1>2. CASE Leave(t) /\ UNCHANGED records
    <2>1. Only(t) /\ op'[t] = Idle /\ active' = active \ {t}
      BY <1>1, <1>2, LeaveEffect
    <2>2. RowsOK' /\ executions' = executions
      BY <1>1, <1>2 DEF Reserve, Leave, RowsOK
    <2> QED
      BY <2>1, <2>2, TypeEnds
  <1>3. CASE /\ records' = [records EXCEPT ![op[t].req] = "ACCEPTED"]
             /\ Goto(t, "select") /\ UNCHANGED <<stopped, active>>
    <2>1. Moved(t) /\ SameResult(t) /\ op'[t].pc = "select"
      BY <1>1, <1>3, GotoEffect DEF Phases
    <2>2. RowsOK' /\ executions' = executions /\ active' = active
      BY <1>1, <1>3 DEF Reserve, RowsOK
    <2>3. Placed(op[t])'
      BY <1>1, <2>1 DEF Placed, Launched, Moved, SameResult
    <2> QED
      BY <1>1, <2>1, <2>2, <2>3, TypeContinues DEF GoPhases
  <1> QED
    BY <1>2, <1>3 DEF Reserve

LEMMA TypeSelect ==
  ASSUME TypeInv, NEW t \in Threads, SelectCue(t)
  PROVE  TypeInv'
  <1>1. /\ Typed /\ RowsOK /\ Placed(op[t]) /\ op[t].pc = "select"
    BY TypeParts DEF TypeInv, SelectCue
  <1>2. RowsOK' /\ executions' = executions /\ active' = active
    BY <1>1 DEF SelectCue, RowsOK, rows, Engine
  <1>3. CASE Conclude(t, "finish", "REJECTED")
    <2>1. Moved(t) /\ op'[t].pc = "finish"
      BY <1>1, <1>3, ConcludeEffect DEF Phases, Terminal
    <2>2. Placed(op[t])'
      BY <1>1, <2>1 DEF Placed, Launched, Moved
    <2> QED
      BY <1>1, <1>2, <2>1, <2>2, TypeContinues DEF GoPhases
  <1>4. CASE /\ Choice(t) \in Cues
             /\ Become(t, [op[t] EXCEPT !.pc = "launch", !.cue = Choice(t)])
    <2>1. /\ Moved(t) /\ SameResult(t) /\ op'[t].pc = "launch"
          /\ op'[t].cue = Choice(t)
      BY <1>1, <1>4, LaunchingEffect
    <2>2. Placed(op[t])'
      BY <1>1, <1>4, <2>1 DEF Placed, Launched, Moved, SameResult
    <2> QED
      BY <1>1, <1>2, <2>1, <2>2, TypeContinues DEF GoPhases, Engaged
  <1> QED
    BY <1>3, <1>4 DEF SelectCue, Selectable

LEMMA TypeLaunch ==
  ASSUME TypeInv, NEW t \in Threads, LaunchCue(t)
  PROVE  TypeInv'
  <1>1. /\ Typed /\ RowsOK /\ Placed(op[t]) /\ op[t].pc = "launch"
    BY TypeParts DEF TypeInv, LaunchCue
  <1>2. CASE Conclude(t, "finish", "FAILED") /\ Unlock(t) /\ UNCHANGED executions
    <2>1. Moved(t) /\ op'[t].pc = "finish"
      BY <1>1, <1>2, ConcludeEffect DEF Phases, Terminal
    <2>2. RowsOK' /\ active' = active
      BY <1>1, <1>2 DEF LaunchCue, RowsOK, Unlock
    <2>3. Placed(op[t])'
      BY <1>1, <2>1 DEF Placed, Launched, Moved
    <2> QED
      BY <1>1, <1>2, <2>1, <2>2, <2>3, TypeContinues DEF GoPhases, Engaged
  <1>3. CASE /\ executions' = Append(executions, [cue |-> op[t].cue, by |-> op[t].req,
                                                  result |-> "RUNNING"])
             /\ Become(t, [op[t] EXCEPT !.pc = "advance", !.exec = Len(executions) + 1])
             /\ UNCHANGED advance
    <2>1. op[t].cue \in Cues /\ op[t].req \in Requests
      BY <1>1 DEF Placed
    <2>2. /\ executions' \in Seq(Executions) /\ Len(executions) + 1 \in Nat
          /\ DOMAIN executions' = DOMAIN executions \cup {Len(executions) + 1}
      BY <1>1, <1>3, <2>1, LaunchedRow DEF RowsOK
    <2>3. /\ Moved(t) /\ SameResult(t) /\ op'[t].pc = "advance"
          /\ op'[t].exec = Len(executions) + 1 /\ op'[t].cue = op[t].cue
      BY <1>1, <1>3, <2>2, LaunchedEffect
    <2>4. RowsOK' /\ active' = active
      BY <1>1, <1>3, <2>2 DEF LaunchCue, RowsOK
    <2>5. Placed(op[t])'
      BY <1>1, <2>1, <2>2, <2>3 DEF Placed, Launched, Moved, SameResult
    <2> QED
      BY <1>1, <2>2, <2>3, <2>4, <2>5, TypeContinues DEF GoPhases, Engaged
  <1> QED
    BY <1>2, <1>3 DEF LaunchCue

\* The trigger keeps the current Cue among those of the snapshot.
LEMMA ProgressType ==
  ASSUME RowsOK, NEW i \in DOMAIN executions, NEW r
  PROVE  Progress(i, r) \in {0} \cup Cues
  <1>1. executions[i].cue \in Cues
    <2>1. executions[i] \in Executions
      BY DEF RowsOK
    <2> QED
      BY <2>1 DEF Executions
  <1>2. session.current \in {0} \cup Cues
    BY DEF RowsOK
  <1> QED
    BY <1>1, <1>2 DEF Progress

LEMMA TypeAdvance ==
  ASSUME TypeInv, NEW t \in Threads, AdvanceCue(t)
  PROVE  TypeInv'
  <1>1. /\ Typed /\ RowsOK /\ Placed(op[t]) /\ op[t].pc = "advance"
        /\ op[t].exec \in DOMAIN executions /\ op[t].cue \in Cues
    BY TypeParts DEF TypeInv, AdvanceCue, Placed, Launched
  <1>2. advance' \in [{"operator", "automation"} -> Threads \cup {NoThread}]
    BY <1>1 DEF AdvanceCue, Unlock, RowsOK
  <1>3. CASE Conclude(t, "finish", "FAILED") /\ UNCHANGED <<session, executions>>
    <2>1. Moved(t) /\ op'[t].pc = "finish"
      BY <1>1, <1>3, ConcludeEffect DEF Phases, Terminal
    <2>2. RowsOK' /\ active' = active
      BY <1>1, <1>2, <1>3 DEF AdvanceCue, RowsOK
    <2>3. Placed(op[t])'
      BY <1>1, <2>1 DEF Placed, Launched, Moved
    <2> QED
      BY <1>1, <1>3, <2>1, <2>2, <2>3, TypeContinues DEF GoPhases, Engaged
  <1>4. CASE /\ executions' = [executions EXCEPT ![op[t].exec].result = "FAILED"]
             /\ session' = [session EXCEPT !.current = Progress(op[t].exec, "FAILED")]
             /\ Conclude(t, "finish", "FAILED")
    <2>1. Moved(t) /\ op'[t].pc = "finish"
      BY <1>1, <1>4, ConcludeEffect DEF Phases, Terminal
    <2>2. executions' \in Seq(Executions) /\ DOMAIN executions' = DOMAIN executions
      BY <1>1, <1>4, EndedRow DEF RowsOK
    <2>3. RowsOK' /\ active' = active
      BY <1>1, <1>2, <1>4, <2>2, ProgressType DEF AdvanceCue, RowsOK
    <2>4. Placed(op[t])'
      BY <1>1, <2>1 DEF Placed, Launched, Moved
    <2> QED
      BY <1>1, <2>1, <2>2, <2>3, <2>4, TypeContinues DEF GoPhases, Engaged
  <1>5. CASE /\ session' = [session EXCEPT !.current = op[t].cue]
             /\ Become(t, [op[t] EXCEPT !.pc = "delay", !.left = Actions])
             /\ UNCHANGED executions
    <2>1. Actions \in 0..Actions /\ Actions > 0
      BY RuntimeControlAssumption
    <2>2. /\ Moved(t) /\ SameResult(t) /\ op'[t].pc = "delay"
          /\ op'[t].exec = op[t].exec /\ op'[t].left = Actions
      BY <1>1, <1>5, <2>1, AdvancedEffect
    <2>3. RowsOK' /\ active' = active
      BY <1>1, <1>2, <1>5 DEF AdvanceCue, RowsOK
    <2>4. Placed(op[t])'
      BY <1>1, <1>5, <2>1, <2>2 DEF Placed, Launched, Moved, SameResult
    <2> QED
      BY <1>1, <1>5, <2>2, <2>3, <2>4, TypeContinues DEF GoPhases, Engaged
  <1> QED
    BY <1>3, <1>4, <1>5 DEF AdvanceCue

\* The Actions of a Cue and its end: no row is inserted, no run leaves.
LEMMA TypeCue ==
  ASSUME TypeInv, NEW t \in Threads,
         StartBranch(t) \/ Dispatch(t) \/ ActionEnds(t) \/ FinishCue(t)
  PROVE  TypeInv'
  <1>1. /\ Typed /\ RowsOK /\ Placed(op[t]) /\ op[t].left \in 0..Actions
        /\ op[t].pc \in {"delay", "dispatch", "acting", "finishCue"}
        /\ op[t].exec \in DOMAIN executions /\ op[t].req \in Requests
    BY TypeParts
    DEF TypeInv, Typed, Handlers, Placed, Launched, StartBranch, Dispatch, ActionEnds, FinishCue
  <1>2. ASSUME Moved(t), op'[t].exec = op[t].exec, RowsOK',
               DOMAIN executions' = DOMAIN executions, active' = active,
               \/ op'[t].pc = "finish"
               \/ op'[t].pc \in {"dispatch", "acting"} /\ op'[t].left > 0 /\ SameResult(t)
                  /\ op[t].pc # "finishCue"
               \/ op'[t].pc = "finishCue" /\ op'[t].result \in {"COMPLETED", "FAILED", "CANCELLED"}
        PROVE  TypeInv'
    <2>1. Placed(op[t])'
      BY <1>1, <1>2 DEF Moved, Placed, Launched, SameResult
    <2> QED
      BY <1>1, <1>2, <2>1, TypeContinues DEF GoPhases, Engaged
  <1>3. ASSUME ActionDone(t, "COMPLETED") \/ ActionDone(t, "FAILED") \/ ActionDone(t, "CANCELLED"),
               op[t].pc \in {"dispatch", "acting"}
        PROVE  /\ Moved(t) /\ op'[t].exec = op[t].exec
               /\ \/ op'[t].pc = "dispatch" /\ op'[t].left > 0 /\ SameResult(t)
                  \/ /\ op'[t].pc = "finishCue"
                     /\ op'[t].result \in {"COMPLETED", "FAILED", "CANCELLED"}
    <2>1. CASE \E r \in {"FAILED", "CANCELLED"} : Conclude(t, "finishCue", r)
      BY <1>1, <2>1, ConcludeEffect DEF Phases, Engaged, Terminal, SameRun
    <2>2. CASE Become(t, [op[t] EXCEPT !.left = @ - 1,
                            !.pc = IF op[t].left > 1 THEN "dispatch" ELSE "finishCue"])
      <3>1. PICK p \in Phases : p = IF op[t].left > 1 THEN "dispatch" ELSE "finishCue"
        BY DEF Phases, Engaged
      <3>2. PICK n \in 0..Actions : n = op[t].left - 1
        BY <1>1, <1>3, RuntimeControlAssumption DEF Placed
      <3>3. Become(t, [op[t] EXCEPT !.left = n, !.pc = p])
        BY <2>2, <3>1, <3>2
      <3>4. /\ Moved(t) /\ op'[t].exec = op[t].exec /\ SameResult(t)
            /\ op'[t].left = n /\ op'[t].pc = p
        BY <1>1, <3>3, ActionEffect
      <3>5. op[t].result = "COMPLETED"
        BY <1>1, <1>3 DEF Placed
      <3> QED
        BY <1>1, <3>1, <3>2, <3>4, <3>5 DEF SameResult
    <2> QED
      BY <1>3, <2>1, <2>2 DEF ActionDone
  <1>4. ASSUME StartBranch(t) PROVE TypeInv'
    <2>1. RowsOK' /\ executions' = executions /\ active' = active
      BY <1>1, <1>4 DEF StartBranch, RowsOK, rows, volatile
    <2>2. CASE Goto(t, "dispatch")
      <3>1. op[t].left > 0 /\ op[t].pc = "delay"
        BY <1>1, <1>4 DEF StartBranch, Placed
      <3> QED
        BY <1>1, <1>2, <2>1, <2>2, <3>1, GotoEffect DEF Phases, Engaged, SameRun
    <2>3. CASE Conclude(t, "finishCue", "CANCELLED")
      BY <1>1, <1>2, <2>1, <2>3, ConcludeEffect DEF Phases, Engaged, Terminal, SameRun
    <2> QED
      BY <1>4, <2>2, <2>3 DEF StartBranch
  <1>5. ASSUME Dispatch(t) PROVE TypeInv'
    <2>1. RowsOK' /\ executions' = executions /\ active' = active /\ op[t].pc = "dispatch"
      BY <1>1, <1>5 DEF Dispatch, RowsOK, rows, volatile
    <2>2. CASE Goto(t, "acting")
      BY <1>1, <1>2, <2>1, <2>2, GotoEffect DEF Phases, Engaged, SameRun, Placed
    <2>3. CASE Conclude(t, "finishCue", "FAILED")
      BY <1>1, <1>2, <2>1, <2>3, ConcludeEffect DEF Phases, Engaged, Terminal, SameRun
    <2>4. CASE ActionDone(t, "CANCELLED")
      BY <1>2, <1>3, <2>1, <2>4
    <2> QED
      BY <1>5, <2>2, <2>3, <2>4 DEF Dispatch
  <1>6. ASSUME ActionEnds(t) PROVE TypeInv'
    <2>1. RowsOK' /\ executions' = executions /\ active' = active /\ op[t].pc = "acting"
      BY <1>1, <1>6 DEF ActionEnds, RowsOK, rows, volatile
    <2>2. CASE Conclude(t, "finishCue", "FAILED")
      BY <1>1, <1>2, <2>1, <2>2, ConcludeEffect DEF Phases, Engaged, Terminal, SameRun
    <2>3. CASE \E r \in {"COMPLETED", "FAILED", "CANCELLED"} : ActionDone(t, r)
      BY <1>2, <1>3, <2>1, <2>3
    <2> QED
      BY <1>6, <2>2, <2>3 DEF ActionEnds
  <1>7. ASSUME FinishCue(t) PROVE TypeInv'
    <2>1. active' = active /\ op[t].pc = "finishCue"
      BY <1>7 DEF FinishCue, volatile
    <2>2. CASE Conclude(t, "finish", "FAILED") /\ UNCHANGED <<session, executions>>
      <3>1. RowsOK'
        BY <1>1, <1>7, <2>2 DEF FinishCue, RowsOK, volatile
      <3> QED
        BY <1>1, <1>2, <2>1, <2>2, <3>1, ConcludeEffect DEF Phases, Terminal, SameRun
    <2>3. CASE /\ executions' = [executions EXCEPT ![op[t].exec].result = op[t].result]
               /\ session' = [session EXCEPT !.current = Progress(op[t].exec, op[t].result)]
               /\ Goto(t, "finish")
      <3>1. executions' \in Seq(Executions) /\ DOMAIN executions' = DOMAIN executions
        BY <1>1, <2>1, <2>3, EndedRow DEF RowsOK, Placed
      <3>2. RowsOK'
        BY <1>1, <1>7, <2>3, <3>1, ProgressType DEF FinishCue, RowsOK, volatile
      <3> QED
        BY <1>1, <1>2, <2>1, <2>3, <3>1, <3>2, GotoEffect DEF Phases, SameRun
    <2> QED
      BY <1>7, <2>2, <2>3 DEF FinishCue
  <1> QED
    BY <1>4, <1>5, <1>6, <1>7

LEMMA RecordedType ==
  ASSUME TypeInv, NEW t \in Threads
  PROVE  Recorded(t) \in [Requests -> {"none", "ACCEPTED"} \cup Terminal]
  <1>1. op[t].result \in Terminal
    BY DEF TypeInv, TypeOK, Handlers
  <1>2. records \in [Requests -> {"none", "ACCEPTED"} \cup Terminal]
    BY DEF TypeInv, TypeOK
  <1> QED
    BY <1>1, <1>2 DEF Recorded

LEMMA TypeFinishCommand ==
  ASSUME TypeInv, NEW t \in Threads, FinishCommand(t)
  PROVE  TypeInv'
  <1>1. Typed /\ RowsOK /\ Placed(op[t]) /\ op[t].pc = "finish"
    BY TypeParts DEF TypeInv, FinishCommand
  <1>2. Only(t) /\ op'[t] = Idle /\ active' = active \ {t}
    BY <1>1, LeaveEffect DEF FinishCommand
  <1>3. RowsOK' /\ executions' = executions
    BY <1>1, RecordedType DEF FinishCommand, Leave, RowsOK
  <1> QED
    BY <1>2, <1>3, TypeEnds

\* The phases of STOP, exit, blackout and its clear.
StopPhases == {"reserveStop", "readLatch", "fence", "latch", "snapshot", "interrupt",
               "wait", "safety", "applyClear", "unlatch", "endSession", "finishStop"}

LEMMA TypeStopContinues ==
  ASSUME TypeInv, NEW t \in Threads, Moved(t), RowsOK',
         executions' = executions, active' = active,
         op[t].pc \in StopPhases, op'[t].pc \in StopPhases
  PROVE  TypeInv'
  <1>1. Placed(op[t])'
    BY DEF TypeInv, Moved, Placed, StopPhases, Launched
  <1> QED
    BY <1>1, TypeContinues DEF StopPhases, GoPhases, Engaged

LEMMA StopPhasesArePhases == StopPhases \subseteq Phases
  BY DEF StopPhases, Phases

LEMMA ActiveRequests ==
  ASSUME TypeInv
  PROVE  {op[u].req : u \in active} \subseteq Requests
  BY DEF TypeInv, TypeOK, Registered, GoPhases, Engaged, Placed

\* Every step of a stop moves its handler from one of its phases to another,
\* or ends it.
LEMMA StopMoves ==
  ASSUME TypeInv, NEW t \in Threads, StopStep(t)
  PROVE  \/ Moved(t) /\ op[t].pc \in StopPhases /\ op'[t].pc \in StopPhases
         \/ Become(t, Idle) /\ op[t].pc \in {"reserveStop", "finishStop"}
  <1>1. Typed
    BY TypeParts DEF TypeInv
  <1>2. ASSUME NEW p \in StopPhases, Goto(t, p)
        PROVE  Moved(t) /\ op'[t].pc = p
    BY <1>1, <1>2, GotoEffect, StopPhasesArePhases
  <1>3. ASSUME NEW p \in StopPhases, NEW r \in Terminal, Conclude(t, p, r)
        PROVE  Moved(t) /\ op'[t].pc = p
    BY <1>1, <1>3, ConcludeEffect, StopPhasesArePhases
  <1> USE DEF StopPhases, Terminal
  <1>4. CASE FinishStop(t)
    BY <1>4 DEF FinishStop
  <1>5. CASE ReserveStop(t)
    BY <1>2, <1>3, <1>5 DEF ReserveStop
  <1>6. CASE ReadLatch(t)
    BY <1>1, <1>2, <1>3, <1>6, ReadEffect DEF ReadLatch, TypeInv, TypeOK
  <1>7. CASE Fence(t)
    BY <1>1, <1>3, <1>7, FenceEffect DEF Fence, Phases
  <1>8. CASE Latch(t)
    BY <1>2, <1>3, <1>8 DEF Latch
  <1>9. CASE Snapshot(t)
    <2>1. active \in SUBSET Threads /\ {op[u].req : u \in active} \in SUBSET Requests
      BY ActiveRequests DEF TypeInv, TypeOK
    <2> QED
      BY <1>1, <1>3, <1>9, <2>1, SnapshotEffect DEF Snapshot
  <1>10. CASE Interrupt(t)
    BY <1>1, <1>10, InterruptEffect DEF Interrupt
  <1>11. CASE StopConfirmed(t)
    BY <1>1, <1>11, ConfirmEffect DEF StopConfirmed, Phases
  <1>12. CASE StopTimesOut(t)
    BY <1>2, <1>3, <1>12 DEF StopTimesOut
  <1>13. CASE Safety(t)
    BY <1>2, <1>3, <1>13 DEF Safety
  <1>14. CASE ApplyClear(t)
    BY <1>2, <1>3, <1>14 DEF ApplyClear
  <1>15. CASE Unlatch(t)
    BY <1>2, <1>3, <1>15 DEF Unlatch
  <1>16. CASE EndSession(t)
    BY <1>2, <1>3, <1>16 DEF EndSession
  <1> QED
    BY <1>4, <1>5, <1>6, <1>7, <1>8, <1>9, <1>10, <1>11, <1>12, <1>13, <1>14, <1>15,
       <1>16
    DEF StopStep

LEMMA StopRows ==
  ASSUME TypeInv, NEW t \in Threads, StopStep(t)
  PROVE  RowsOK' /\ executions' = executions /\ active' = active
  <1>1. RowsOK /\ Typed /\ (op[t].pc # "idle" => op[t].req \in Requests)
    BY TypeParts DEF TypeInv, Placed
  <1> USE <1>1 DEF rows, volatile
  <1>2. CASE ReserveStop(t)
    BY <1>2 DEF ReserveStop, RowsOK
  <1>3. CASE ReadLatch(t) \/ StopConfirmed(t) \/ StopTimesOut(t)
    BY <1>3 DEF ReadLatch, StopConfirmed, StopTimesOut, RowsOK
  <1>4. CASE Fence(t)
    BY <1>4 DEF Fence, RowsOK
  <1>5. CASE Latch(t)
    BY <1>5 DEF Latch, RowsOK
  <1>6. CASE Snapshot(t)
    BY <1>6 DEF Snapshot, RowsOK
  <1>7. CASE Interrupt(t)
    <2>1. op[t].targets \subseteq Requests
      BY DEF Typed, Handlers
    <2> QED
      BY <1>7, <2>1 DEF Interrupt, RowsOK
  <1>8. CASE Safety(t) \/ ApplyClear(t)
    BY <1>8 DEF Safety, ApplyClear, RowsOK
  <1>9. CASE Unlatch(t)
    BY <1>9 DEF Unlatch, RowsOK
  <1>10. CASE EndSession(t)
    BY <1>10 DEF EndSession, RowsOK
  <1>11. CASE FinishStop(t)
    BY <1>11, RecordedType DEF FinishStop, RowsOK
  <1> QED
    BY <1>2, <1>3, <1>4, <1>5, <1>6, <1>7, <1>8, <1>9, <1>10, <1>11 DEF StopStep

\* A stop that ends, or is refused at once, has never been a run.
LEMMA TypeStop ==
  ASSUME TypeInv, NEW t \in Threads, StopStep(t)
  PROVE  TypeInv'
  <1>1. RowsOK' /\ executions' = executions /\ active' = active
    BY StopRows
  <1>2. CASE Become(t, Idle) /\ op[t].pc \in {"reserveStop", "finishStop"}
    <2>1. Only(t) /\ op'[t] = Idle
      BY <1>2, Moves, IdleHandler, TypeParts DEF TypeInv
    <2>2. t \notin active
      BY <1>2 DEF TypeInv, Registered, GoPhases, Engaged
    <2> QED
      BY <1>1, <2>1, <2>2, TypeEnds
  <1>3. CASE Moved(t) /\ op[t].pc \in StopPhases /\ op'[t].pc \in StopPhases
    BY <1>1, <1>3, TypeStopContinues
  <1> QED
    BY <1>2, <1>3, StopMoves

LEMMA TypeDisconnect ==
  ASSUME TypeInv, NEW t \in Threads, Disconnect(t)
  PROVE  TypeInv'
  <1>1. Typed /\ RowsOK /\ Placed(op[t])
    BY TypeParts DEF TypeInv
  <1>2. Moved(t) /\ SameRun(t) /\ SameResult(t) /\ op'[t].pc = op[t].pc
    BY <1>1, GoneEffect DEF Disconnect
  <1>3. RowsOK' /\ executions' = executions /\ active' = active
    BY <1>1 DEF Disconnect, RowsOK, rows, volatile
  <1>4. Placed(op[t])'
    BY <1>1, <1>2, <1>3 DEF Placed, Moved, SameRun, SameResult
  <1> QED
    BY <1>2, <1>3, <1>4, TypeContinues

LEMMA TypeRestart ==
  ASSUME TypeInv, Restart
  PROVE  TypeInv'
  <1>1. RowsOK
    BY TypeParts DEF TypeInv
  <1>2. executions' \in Seq(Executions)
    BY <1>1, RestartedRows DEF RowsOK
  <1>3. RowsOK'
    BY <1>1, <1>2 DEF Restart, RowsOK
  <1>4. Typed' /\ \A t \in Threads : op'[t] = Idle
    BY IdleHandler DEF Restart, Typed
  <1>5. \A t \in Threads : Placed(op[t])' /\ Registered(t)'
    BY <1>4, IdleHandler DEF Restart, Placed, Launched, Registered, GoPhases, Engaged
  <1>6. TypeOK'
    BY <1>3, <1>4 DEF TypeOK, RowsOK, Typed
  <1> QED
    BY <1>5, <1>6 DEF TypeInv

LEMMA TypeStep == TypeInv /\ [Next]_vars => TypeInv'
  <1> SUFFICES ASSUME TypeInv, [Next]_vars PROVE TypeInv'
    OBVIOUS
  <1>1. CASE UNCHANGED vars
    BY <1>1 DEF vars, rows, volatile, TypeInv, TypeOK, Placed, Registered
  <1>2. ASSUME NEW t \in Threads, GoStep(t) PROVE TypeInv'
    BY <1>2, TypeAdmit, TypeReserve, TypeSelect, TypeLaunch, TypeAdvance, TypeCue,
       TypeFinishCommand DEF GoStep, Launching
  <1> QED
    BY <1>1, <1>2, TypeRequest, TypeStop, TypeDisconnect, TypeRestart DEF Next

\* Every row and every handler stays in its domain, and Service.active holds
\* exactly the operator's runs between admission and last row (all operations).
THEOREM TypeCorrect == Spec => [](TypeOK /\ \A t \in Threads : Registered(t))
  <1>1. TypeInv => TypeOK /\ \A t \in Threads : Registered(t)
    BY DEF TypeInv
  <1> QED
    BY <1>1, TypeInit, TypeStep, PTL DEF Spec

-----------------------------------------------------------------------------
(* The fence.  A stop that holds it is the only one; since then nobody was   *)
(* admitted, so the runs it still waits for are all the runs there are.      *)

Exiting(t) == op[t].kind = "stopSession" /\ op[t].pc \in {"safety", "endSession"}

FenceOK(t) ==
  /\ op[t].holds => stopping /\ op[t].pc \in StopPhases
  /\ op[t].holds /\ op[t].pc \in {"interrupt", "wait"} => active \subseteq op[t].waits
  /\ op[t].pc \in {"latch", "snapshot", "interrupt", "wait"} => op[t].holds
  /\ op[t].confirmed => op[t].pc \in {"safety", "endSession", "finishStop"}
  /\ op[t].holds /\ op[t].confirmed => active = {}
  /\ Exiting(t) => op[t].holds /\ op[t].confirmed

FenceInv ==
  /\ \A t \in Threads : FenceOK(t)
  /\ \A t, u \in Threads : op[t].holds /\ op[u].holds => t = u

LEMMA FenceInit == Init => FenceInv
  BY IdleHandler DEF Init, FenceInv, FenceOK, Exiting

\* The others keep their part while no run is added and every run that leaves
\* leaves their waits as well.
LEMMA FenceMoves ==
  ASSUME FenceInv, NEW t \in Threads, Only(t), FenceOK(t)',
         op'[t].holds => op[t].holds, stopping' = stopping,
         \/ active' = active /\ \A u \in Threads \ {t} : op'[u].waits = op[u].waits
         \/ active' = active \ {t} /\ \A u \in Threads \ {t} : op'[u].waits = op[u].waits \ {t}
  PROVE  FenceInv'
  <1>1. ASSUME NEW u \in Threads \ {t} PROVE FenceOK(u)'
    <2>1. FenceOK(u) /\ Like(op'[u], op[u])
      BY DEF FenceInv, Only
    <2> QED
      BY <2>1 DEF FenceOK, Exiting, Like
  <1>2. \A u \in Threads : op'[u].holds => op[u].holds
    BY DEF Only, Like
  <1> QED
    BY <1>1, <1>2 DEF FenceInv

\* A handler that does not hold the fence and does not take it.
LEMMA FenceOutside ==
  ASSUME TypeInv, FenceInv, NEW t \in Threads, Only(t), stopping' = stopping,
         ~op'[t].holds, ~op'[t].confirmed,
         op'[t].pc \in GoPhases \cup {"idle", "admit", "reserveStop"},
         \/ active' = active /\ \A u \in Threads \ {t} : op'[u].waits = op[u].waits
         \/ active' = active \ {t} /\ \A u \in Threads \ {t} : op'[u].waits = op[u].waits \ {t}
  PROVE  FenceInv'
  <1>1. FenceOK(t)'
    BY DEF FenceOK, Exiting, GoPhases, Engaged
  <1> QED
    BY <1>1, FenceMoves

LEMMA FenceRequest ==
  ASSUME TypeInv, FenceInv, NEW t \in Threads, NEW r \in Requests,
         RequestGo(t, r) \/ RequestTimecode(t, r) \/ RequestStop(t, r)
  PROVE  FenceInv'
  <1>1. Typed /\ RowsOK
    BY TypeParts DEF TypeInv
  <1>2. PICK p \in {"admit", "reserve", "reserveStop"} : Begun(t, r, p)
    BY <1>1, GoEffect, TimecodeEffect, StopEffect DEF RowsOK
  <1>3. stopping' = stopping /\ active' = active
    BY DEF RequestGo, RequestTimecode, RequestStop, volatile
  <1> QED
    BY <1>2, <1>3, FenceOutside DEF Begun, GoPhases

\* A GO moves, leaves, or is admitted when nobody stops.
LEMMA GoMoves ==
  ASSUME TypeInv, NEW t \in Threads, GoStep(t)
  PROVE  /\ op[t].pc \in GoPhases \cup {"admit"} /\ stopping' = stopping
         /\ \/ /\ Moved(t) /\ SameStop(t) /\ op'[t].pc \in GoPhases
               /\ active' = active \/ (~stopping /\ active' = active \cup {t})
            \/ Become(t, Idle) /\ active' = active
            \/ Leave(t)
  <1>1. Typed /\ Placed(op[t]) /\ op[t].left \in 0..Actions
    BY TypeParts DEF TypeInv, Typed, Handlers
  <1>2. ASSUME NEW p \in GoPhases, Goto(t, p)
        PROVE  Moved(t) /\ SameStop(t) /\ op'[t].pc = p
    BY <1>1, <1>2, GotoEffect DEF GoPhases, Phases
  <1>3. ASSUME NEW p \in GoPhases, NEW r \in Terminal, Conclude(t, p, r)
        PROVE  Moved(t) /\ SameStop(t) /\ op'[t].pc = p
    BY <1>1, <1>3, ConcludeEffect DEF GoPhases, Phases
  <1>4. ASSUME NEW r \in Terminal, ActionDone(t, r), op[t].pc \in {"dispatch", "acting"}
        PROVE  Moved(t) /\ SameStop(t) /\ op'[t].pc \in GoPhases
    <2>1. CASE Conclude(t, "finishCue", r)
      BY <1>3, <2>1 DEF GoPhases, Engaged
    <2>2. CASE Become(t, [op[t] EXCEPT !.left = @ - 1,
                            !.pc = IF op[t].left > 1 THEN "dispatch" ELSE "finishCue"])
      <3>1. PICK p \in Phases : p = IF op[t].left > 1 THEN "dispatch" ELSE "finishCue"
        BY DEF Phases, Engaged
      <3>2. PICK n \in 0..Actions : n = op[t].left - 1
        BY <1>1, <1>4, RuntimeControlAssumption DEF Placed
      <3>3. Become(t, [op[t] EXCEPT !.left = n, !.pc = p])
        BY <2>2, <3>1, <3>2
      <3>4. Moved(t) /\ SameStop(t) /\ op'[t].pc = p
        BY <1>1, <3>3, ActionEffect
      <3> QED
        BY <3>1, <3>4 DEF GoPhases, Engaged
    <2> QED
      BY <1>4, <2>1, <2>2 DEF ActionDone
  <1> USE DEF GoPhases, Engaged, Terminal
  <1>5. CASE Admit(t)
    BY <1>2, <1>5 DEF Admit, Admitted
  <1>6. CASE Reserve(t)
    BY <1>2, <1>6 DEF Reserve
  <1>7. CASE SelectCue(t)
    BY <1>1, <1>3, <1>7, LaunchingEffect DEF SelectCue, Selectable
  <1>8. CASE LaunchCue(t)
    <2>1. Len(executions) + 1 \in Nat
      BY DEF TypeInv, TypeOK
    <2> QED
      BY <1>1, <1>3, <1>8, <2>1, LaunchedEffect DEF LaunchCue
  <1>9. CASE AdvanceCue(t)
    <2>1. Actions \in 0..Actions
      BY RuntimeControlAssumption
    <2> QED
      BY <1>1, <1>3, <1>9, <2>1, AdvancedEffect DEF AdvanceCue
  <1>10. CASE StartBranch(t)
    BY <1>2, <1>3, <1>10 DEF StartBranch, volatile
  <1>11. CASE Dispatch(t)
    BY <1>2, <1>3, <1>4, <1>11 DEF Dispatch, volatile
  <1>12. CASE ActionEnds(t)
    BY <1>3, <1>4, <1>12 DEF ActionEnds, volatile
  <1>13. CASE FinishCue(t)
    BY <1>2, <1>3, <1>13 DEF FinishCue, volatile
  <1>14. CASE FinishCommand(t)
    BY <1>14 DEF FinishCommand
  <1> QED
    BY <1>5, <1>6, <1>7, <1>8, <1>9, <1>10, <1>11, <1>12, <1>13, <1>14
    DEF GoStep, Launching

LEMMA FenceGo ==
  ASSUME TypeInv, FenceInv, NEW t \in Threads, GoStep(t)
  PROVE  FenceInv'
  <1>1. Typed
    BY TypeParts DEF TypeInv
  <1>2. /\ op[t].pc \in GoPhases \cup {"admit"} /\ stopping' = stopping
        /\ ~op[t].holds /\ ~op[t].confirmed
    BY GoMoves DEF FenceInv, FenceOK, GoPhases, Engaged, StopPhases
  <1>3. CASE Moved(t) /\ SameStop(t) /\ op'[t].pc \in GoPhases /\ active' = active
    BY <1>2, <1>3, FenceOutside DEF Moved, SameStop
  <1>4. CASE Become(t, Idle) /\ active' = active
    BY <1>1, <1>2, <1>4, Moves, IdleHandler, FenceOutside
  <1>5. CASE Leave(t)
    BY <1>1, <1>2, <1>5, LeaveEffect, IdleHandler, FenceOutside
  <1>6. CASE Moved(t) /\ SameStop(t) /\ op'[t].pc \in GoPhases /\ ~stopping
    <2>1. \A u \in Threads : ~op[u].holds
      BY <1>6 DEF FenceInv, FenceOK
    <2>2. \A u \in Threads : ~op'[u].holds
      BY <1>6, <2>1 DEF Moved, Only, Like, SameStop
    <2>3. FenceOK(t)'
      BY <1>2, <1>6, <2>2 DEF FenceOK, Exiting, SameStop, GoPhases, Engaged
    <2>4. ASSUME NEW u \in Threads \ {t} PROVE FenceOK(u)'
      <3>1. FenceOK(u) /\ Like(op'[u], op[u])
        BY <1>6 DEF FenceInv, Moved, Only
      <3> QED
        BY <2>1, <3>1 DEF FenceOK, Exiting, Like
    <2> QED
      BY <2>2, <2>3, <2>4 DEF FenceInv
  <1> QED
    BY <1>3, <1>4, <1>5, <1>6, GoMoves

\* A stop that goes on without touching the fence.
LEMMA FenceKeeps ==
  ASSUME TypeInv, FenceInv, NEW t \in Threads, Moved(t), SameStop(t),
         stopping' = stopping, active' = active,
         op[t].pc \in StopPhases, op'[t].pc \in StopPhases,
         op'[t].pc \in {"interrupt", "wait"} => op[t].pc \in {"interrupt", "wait"},
         op'[t].pc \in {"latch", "snapshot"} => op[t].holds,
         op[t].pc \in {"safety", "endSession", "finishStop"} =>
           op'[t].pc \in {"safety", "endSession", "finishStop"},
         Exiting(t)' => op[t].holds /\ op[t].confirmed
  PROVE  FenceInv'
  <1>1. FenceOK(t)'
    BY DEF FenceInv, FenceOK, Exiting, SameStop, Moved
  <1> QED
    BY <1>1, FenceMoves DEF Moved, SameStop

LEMMA FenceStop ==
  ASSUME TypeInv, FenceInv, NEW t \in Threads, StopStep(t)
  PROVE  FenceInv'
  <1>1. /\ Typed /\ FenceOK(t) /\ active \in SUBSET Threads
        /\ {op[u].req : u \in active} \in SUBSET Requests
    BY TypeParts, ActiveRequests DEF TypeInv, TypeOK, FenceInv
  <1>2. active' = active
    BY StopRows
  <1>3. ASSUME NEW p \in StopPhases, Goto(t, p)
        PROVE  Moved(t) /\ SameStop(t) /\ op'[t].pc = p
    BY <1>1, <1>3, GotoEffect, StopPhasesArePhases
  <1>4. ASSUME NEW p \in StopPhases, NEW r \in Terminal, Conclude(t, p, r)
        PROVE  Moved(t) /\ SameStop(t) /\ op'[t].pc = p
    BY <1>1, <1>4, ConcludeEffect, StopPhasesArePhases
  <1> USE DEF StopPhases, Terminal
  <1>5. CASE ReserveStop(t)
    <2>1. CASE Become(t, Idle)
      BY <1>1, <1>2, <1>5, <2>1, Moves, IdleHandler, FenceOutside
      DEF ReserveStop, volatile
    <2>2. CASE Goto(t, "readLatch") \/ Goto(t, "fence") \/ Conclude(t, "finishStop", "REJECTED")
      BY <1>2, <1>3, <1>4, <1>5, <2>2, FenceKeeps DEF ReserveStop, volatile, Exiting
    <2> QED
      BY <1>5, <2>1, <2>2 DEF ReserveStop
  <1>6. CASE ReadLatch(t)
    <2>1. CASE \E r \in {"FAILED", "REJECTED"} : Conclude(t, "finishStop", r)
      BY <1>2, <1>4, <1>6, <2>1, FenceKeeps DEF ReadLatch, volatile, Exiting
    <2>2. CASE /\ session.latch \in Requests
               /\ Become(t, [op[t] EXCEPT !.pc = "applyClear", !.saw = session.latch])
      <3>1. Moved(t) /\ SameStop(t) /\ op'[t].pc = "applyClear"
        BY <1>1, <2>2, ReadEffect
      <3> QED
        BY <1>2, <1>6, <3>1, FenceKeeps DEF ReadLatch, volatile, Exiting
    <2> QED
      BY <1>6, <2>1, <2>2 DEF ReadLatch, TypeInv, TypeOK
  <1>7. CASE Fence(t)
    <2>1. CASE stopping
      BY <1>2, <1>4, <1>7, <2>1, FenceKeeps DEF Fence, Exiting
    <2>2. CASE ~stopping
      <3>1. PICK p \in {"latch", "snapshot"} :
              Become(t, [op[t] EXCEPT !.holds = TRUE, !.pc = p])
        BY <1>7, <2>2 DEF Fence
      <3>2. /\ Moved(t) /\ op'[t].holds /\ op'[t].pc = p
            /\ op'[t].confirmed = op[t].confirmed
        BY <1>1, <3>1, FenceEffect DEF Phases
      <3>3. stopping' /\ op[t].pc = "fence"
        BY <1>7, <2>2 DEF Fence
      <3>4. \A u \in Threads : ~op[u].holds
        BY <2>2 DEF FenceInv, FenceOK
      <3>5. FenceOK(t)'
        BY <1>1, <3>2, <3>3 DEF FenceOK, Exiting
      <3>6. ASSUME NEW u \in Threads \ {t} PROVE FenceOK(u)' /\ ~op'[u].holds
        <4>1. FenceOK(u) /\ Like(op'[u], op[u])
          BY <3>2 DEF FenceInv, Moved, Only
        <4> QED
          BY <3>4, <4>1 DEF FenceOK, Exiting, Like
      <3> QED
        BY <3>5, <3>6 DEF FenceInv
    <2> QED
      BY <2>1, <2>2
  <1>8. CASE Latch(t)
    BY <1>1, <1>2, <1>3, <1>4, <1>8, FenceKeeps DEF Latch, FenceOK, volatile, Exiting
  <1>9. CASE Snapshot(t)
    <2>1. stopping' = stopping /\ op[t].pc = "snapshot" /\ op[t].holds
      BY <1>1, <1>9 DEF Snapshot, FenceOK, volatile
    <2>2. CASE Conclude(t, "finishStop", "REJECTED")
      BY <1>2, <1>4, <2>1, <2>2, FenceKeeps DEF Exiting
    <2>3. CASE Become(t, [op[t] EXCEPT !.pc = "interrupt", !.waits = active,
                                       !.targets = {op[u].req : u \in active}])
      <3>1. /\ Moved(t) /\ op'[t].pc = "interrupt" /\ op'[t].waits = active
            /\ op'[t].holds = op[t].holds /\ op'[t].confirmed = op[t].confirmed
        BY <1>1, <2>3, SnapshotEffect
      <3>2. FenceOK(t)'
        BY <1>1, <1>2, <2>1, <3>1 DEF FenceOK, Exiting
      <3> QED
        BY <1>2, <2>1, <3>1, <3>2, FenceMoves DEF Moved
    <2> QED
      BY <1>9, <2>2, <2>3 DEF Snapshot
  <1>10. CASE Interrupt(t)
    BY <1>1, <1>2, <1>10, InterruptEffect, FenceKeeps DEF Interrupt, FenceOK, Exiting
  <1>11. CASE StopConfirmed(t)
    <2>1. /\ stopping' = stopping /\ op[t].pc = "wait" /\ op[t].holds /\ op[t].waits = {}
          /\ active = {}
      BY <1>1, <1>11 DEF StopConfirmed, FenceOK, volatile
    <2>2. PICK p \in {"finishStop", "endSession", "safety"} :
            Become(t, [op[t] EXCEPT !.confirmed = TRUE, !.pc = p])
      BY <1>11 DEF StopConfirmed
    <2>3. /\ Moved(t) /\ op'[t].pc = p /\ op'[t].confirmed /\ op'[t].holds = op[t].holds
      BY <1>1, <2>2, ConfirmEffect DEF Phases
    <2>4. FenceOK(t)'
      BY <1>1, <1>2, <2>1, <2>3 DEF FenceOK, Exiting
    <2> QED
      BY <1>2, <2>1, <2>3, <2>4, FenceMoves DEF Moved
  <1>12. CASE StopTimesOut(t)
    BY <1>2, <1>3, <1>4, <1>12, FenceKeeps DEF StopTimesOut, volatile, Exiting, Moved
  <1>13. CASE Safety(t)
    BY <1>1, <1>2, <1>3, <1>4, <1>13, FenceKeeps DEF Safety, FenceOK, volatile,
       Exiting, Moved
  <1>14. CASE ApplyClear(t)
    BY <1>2, <1>3, <1>4, <1>14, FenceKeeps DEF ApplyClear, volatile, Exiting
  <1>15. CASE Unlatch(t)
    BY <1>2, <1>4, <1>15, FenceKeeps DEF Unlatch, volatile, Exiting
  <1>16. CASE EndSession(t)
    BY <1>2, <1>4, <1>16, FenceKeeps DEF EndSession, volatile, Exiting
  <1>17. CASE FinishStop(t)
    <2>1. Only(t) /\ op'[t] = Idle /\ \A u \in Threads \ {t} : op'[u].waits = op[u].waits
      BY <1>1, <1>17, Moves, IdleHandler DEF FinishStop
    <2>2. CASE ~op[t].holds
      BY <1>2, <1>17, <2>1, <2>2, IdleHandler, FenceOutside
      DEF FinishStop, TypeInv, TypeOK
    <2>3. CASE op[t].holds
      <3>1. ASSUME NEW u \in Threads \ {t} PROVE FenceOK(u)' /\ ~op'[u].holds
        <4>1. FenceOK(u) /\ Like(op'[u], op[u]) /\ ~op[u].holds
          BY <2>1, <2>3 DEF FenceInv, Only
        <4> QED
          BY <4>1 DEF FenceOK, Exiting, Like
      <3>2. FenceOK(t)' /\ ~op'[t].holds
        BY <2>1, IdleHandler DEF FenceOK, Exiting
      <3> QED
        BY <3>1, <3>2 DEF FenceInv
    <2> QED
      BY <2>2, <2>3
  <1> QED
    BY <1>5, <1>6, <1>7, <1>8, <1>9, <1>10, <1>11, <1>12, <1>13, <1>14, <1>15, <1>16,
       <1>17 DEF StopStep

LEMMA FenceStep == TypeInv /\ FenceInv /\ [Next]_vars => FenceInv'
  <1> SUFFICES ASSUME TypeInv, FenceInv, [Next]_vars PROVE FenceInv'
    OBVIOUS
  <1>1. CASE UNCHANGED vars
    BY <1>1 DEF vars, rows, volatile, FenceInv, FenceOK, Exiting
  <1>2. ASSUME NEW t \in Threads, Disconnect(t) PROVE FenceInv'
    <2>1. /\ Moved(t) /\ SameStop(t) /\ op'[t].pc = op[t].pc
          /\ stopping' = stopping /\ active' = active
      BY <1>2, GoneEffect, TypeParts DEF TypeInv, Disconnect, volatile
    <2>2. FenceOK(t)'
      BY <2>1 DEF FenceInv, FenceOK, Exiting, Moved, SameStop
    <2> QED
      BY <2>1, <2>2, FenceMoves DEF Moved, SameStop
  <1>3. CASE Restart
    BY <1>3, IdleHandler DEF Restart, FenceInv, FenceOK, Exiting
  <1> QED
    BY <1>1, <1>2, <1>3, FenceRequest, FenceGo, FenceStop DEF Next

\* When a STOP, an exit or a blackout has seen the end of the Cues it snapshot,
\* no GO is running, whenever it was admitted (beginStoppingCues, Go, stopCues).
THEOREM ConfirmedStop == Spec => []StopIsConfirmed
  <1>1. TypeInv /\ FenceInv => StopIsConfirmed
    BY DEF FenceInv, FenceOK, StopIsConfirmed
  <1> QED
    BY <1>1, TypeInit, TypeStep, FenceInit, FenceStep, PTL DEF Spec

-----------------------------------------------------------------------------
(* The exit.  Only a StopSession completes a Session, it has confirmed its   *)
(* stop by then, and a Cue is launched only for an ACTIVE Session.           *)

ExitInv ==
  /\ NothingActsAfterExit
  /\ \A t \in Threads : op[t].pc = "endSession" => op[t].kind \in {"stopSession", "forceStop"}

LEMMA ExitInit == Init => ExitInv
  BY IdleHandler DEF Init, ExitInv, NothingActsAfterExit

\* The status of the Session is written by its end and by a restart only.
LEMMA StatusMoves ==
  ASSUME TypeInv, NEW t \in Threads, GoStep(t) \/ StopStep(t), ~EndSession(t)
  PROVE  session'.status = session.status
  <1>1. RowsOK
    BY TypeParts DEF TypeInv
  <1> USE <1>1 DEF RowsOK, rows, volatile
  <1>2. CASE AdvanceCue(t)
    BY <1>2 DEF AdvanceCue
  <1>3. CASE FinishCue(t)
    BY <1>3 DEF FinishCue
  <1>4. CASE Latch(t) \/ Unlatch(t)
    BY <1>4 DEF Latch, Unlatch
  <1>5. CASE Admit(t) \/ Reserve(t) \/ SelectCue(t) \/ LaunchCue(t) \/ StartBranch(t)
             \/ Dispatch(t) \/ ActionEnds(t) \/ FinishCommand(t)
    BY <1>5 DEF Admit, Reserve, SelectCue, LaunchCue, StartBranch, Dispatch, ActionEnds,
      FinishCommand
  <1>6. CASE ReserveStop(t) \/ ReadLatch(t) \/ Fence(t) \/ Snapshot(t) \/ Interrupt(t)
             \/ StopConfirmed(t) \/ StopTimesOut(t) \/ Safety(t) \/ ApplyClear(t)
             \/ FinishStop(t)
    BY <1>6 DEF ReserveStop, ReadLatch, Fence, Snapshot, Interrupt, StopConfirmed,
      StopTimesOut, Safety, ApplyClear, FinishStop
  <1> QED
    BY <1>2, <1>3, <1>4, <1>5, <1>6 DEF GoStep, StopStep, Launching

\* Nobody but a GO of an ACTIVE Session comes to launch a Cue.
LEMMA EngagedMoves ==
  ASSUME TypeInv, NEW t \in Threads, GoStep(t), op'[t].pc \in Engaged,
         op[t].pc \notin Engaged
  PROVE  session.status = "ACTIVE" /\ op'[t].kind = op[t].kind
  <1>1. Typed
    BY TypeParts DEF TypeInv
  <1>2. CASE SelectCue(t)
    <2>1. CASE Conclude(t, "finish", "REJECTED")
      BY <1>1, <2>1, ConcludeEffect DEF Phases, Terminal, Engaged
    <2>2. CASE Selectable(t)
                /\ Become(t, [op[t] EXCEPT !.pc = "launch", !.cue = Choice(t)])
      BY <1>1, <2>2, LaunchingEffect DEF Selectable, Moved
    <2> QED
      BY <1>2, <2>1, <2>2 DEF SelectCue
  <1>3. CASE Admit(t)
    BY <1>1, <1>3, GotoEffect, Moves, IdleHandler DEF Admit, Phases, Engaged
  <1>4. CASE Reserve(t)
    BY <1>1, <1>4, GotoEffect, LeaveEffect, IdleHandler DEF Reserve, Phases, Engaged
  <1>5. CASE FinishCommand(t)
    BY <1>1, <1>5, LeaveEffect, IdleHandler DEF FinishCommand, Engaged
  <1>6. CASE LaunchCue(t) \/ AdvanceCue(t) \/ StartBranch(t) \/ Dispatch(t)
             \/ ActionEnds(t) \/ FinishCue(t)
    BY <1>6 DEF LaunchCue, AdvanceCue, StartBranch, Dispatch, ActionEnds, FinishCue,
       Engaged
  <1> QED
    BY <1>2, <1>3, <1>4, <1>5, <1>6 DEF GoStep, Launching

\* The end of a Session is reached by its two exits only.
LEMMA EndMoves ==
  ASSUME TypeInv, NEW t \in Threads, StopStep(t), op'[t].pc = "endSession"
  PROVE  op'[t].kind = op[t].kind /\ op[t].kind \in {"stopSession", "forceStop"}
  <1>1. Typed
    BY TypeParts DEF TypeInv
  <1>2. CASE Become(t, Idle) \/ \E r \in Terminal : Conclude(t, "finishStop", r)
    BY <1>1, <1>2, Moves, IdleHandler, ConcludeEffect DEF Phases
  <1>3. CASE \E p \in Phases \ {"endSession"} : Goto(t, p)
    BY <1>1, <1>3, GotoEffect
  <1> USE <1>1, <1>2, <1>3 DEF Phases, Terminal
  <1>4. CASE ReserveStop(t)
    BY <1>4 DEF ReserveStop
  <1>5. CASE ReadLatch(t)
    BY <1>5, ReadEffect DEF ReadLatch, TypeInv, TypeOK
  <1>6. CASE Fence(t)
    BY <1>6, FenceEffect DEF Fence
  <1>7. CASE Latch(t)
    BY <1>7 DEF Latch
  <1>8. CASE Snapshot(t)
    <2>1. active \in SUBSET Threads /\ {op[u].req : u \in active} \in SUBSET Requests
      BY ActiveRequests DEF TypeInv, TypeOK
    <2> QED
      BY <1>8, <2>1, SnapshotEffect DEF Snapshot
  <1>9. CASE Interrupt(t)
    BY <1>9, InterruptEffect
  <1>10. CASE StopConfirmed(t)
    BY <1>10, ConfirmEffect DEF StopConfirmed, Moved
  <1>11. CASE StopTimesOut(t)
    BY <1>11, GotoEffect DEF StopTimesOut, Moved
  <1>12. CASE Safety(t)
    BY <1>12, GotoEffect DEF Safety, Moved
  <1>13. CASE ApplyClear(t)
    BY <1>13 DEF ApplyClear
  <1>14. CASE Unlatch(t) \/ EndSession(t) \/ FinishStop(t)
    BY <1>14 DEF Unlatch, EndSession, FinishStop
  <1> QED
    BY <1>4, <1>5, <1>6, <1>7, <1>8, <1>9, <1>10, <1>11, <1>12, <1>13, <1>14 DEF StopStep

\* A step of one handler leaves the others as they are.
LEMMA StepOnly ==
  ASSUME TypeInv, NEW t \in Threads, GoStep(t) \/ StopStep(t)
  PROVE  Only(t)
  <1>1. Typed
    BY TypeParts DEF TypeInv
  <1> QED
    BY <1>1, GoMoves, StopMoves, Moves, IdleHandler, LeaveEffect DEF Moved

LEMMA ExitStep == TypeInv /\ FenceInv /\ ExitInv /\ [Next]_vars => ExitInv'
  <1> SUFFICES ASSUME TypeInv, FenceInv, ExitInv, [Next]_vars PROVE ExitInv'
    OBVIOUS
  <1>1. Typed /\ RowsOK
    BY TypeParts DEF TypeInv
  <1>2. CASE UNCHANGED vars
    BY <1>2 DEF vars, rows, ExitInv, NothingActsAfterExit
  <1>3. ASSUME NEW t \in Threads, NEW r \in Requests,
               RequestGo(t, r) \/ RequestTimecode(t, r) \/ RequestStop(t, r)
        PROVE  ExitInv'
    <2>1. PICK p \in {"admit", "reserve", "reserveStop"} : Begun(t, r, p)
      BY <1>1, <1>3, GoEffect, TimecodeEffect, StopEffect DEF RowsOK
    <2>2. session' = session
      BY <1>3 DEF RequestGo, RequestTimecode, RequestStop, rows
    <2> QED
      BY <2>1, <2>2 DEF Begun, Only, Like, ExitInv, NothingActsAfterExit, Engaged
  <1>4. ASSUME NEW t \in Threads, GoStep(t)
        PROVE  ExitInv'
    <2>1. Only(t) /\ session'.status = session.status
      BY <1>4, StepOnly, StatusMoves, GoMoves DEF EndSession, GoPhases, Engaged
    <2>2. \/ op'[t].pc \in GoPhases /\ op'[t].kind = op[t].kind
          \/ op'[t].pc = "idle"
      BY <1>1, <1>4, GoMoves, Moves, IdleHandler, LeaveEffect DEF Moved
    <2>3. op'[t].pc \in Engaged => op[t].pc \in Engaged \/ session.status = "ACTIVE"
      BY <1>4, EngagedMoves
    <2> QED
      BY <2>1, <2>2, <2>3
      DEF Only, Like, ExitInv, NothingActsAfterExit, GoPhases, Engaged
  <1>5. ASSUME NEW t \in Threads, StopStep(t)
        PROVE  ExitInv'
    <2>1. Only(t)
      BY <1>5, StepOnly
    <2>2. op'[t].pc \notin Engaged
      BY <1>1, <1>5, StopMoves, Moves, IdleHandler DEF StopPhases, Engaged
    <2>3. op'[t].pc = "endSession" => op'[t].kind \in {"stopSession", "forceStop"}
      BY <1>5, EndMoves
    <2>4. session'.status = "COMPLETED" =>
            session.status = "COMPLETED" \/ active = {}
      <3>1. CASE EndSession(t)
        <4>1. op[t].kind \in {"stopSession", "forceStop"} /\ op[t].pc = "endSession"
          BY <3>1 DEF EndSession, ExitInv
        <4>2. op[t].kind = "stopSession" => active = {}
          BY <4>1 DEF FenceInv, FenceOK, Exiting
        <4> QED
          BY <1>1, <3>1, <4>1, <4>2 DEF EndSession, RowsOK
      <3> QED
        BY <1>5, <3>1, StatusMoves
    <2>5. active = {} => \A u \in Threads : op[u].kind = "go" => op[u].pc \notin Engaged
      BY DEF TypeInv, Registered, GoPhases
    <2> QED
      BY <2>1, <2>2, <2>3, <2>4, <2>5 DEF Only, Like, ExitInv, NothingActsAfterExit
  <1>6. ASSUME NEW t \in Threads, Disconnect(t)
        PROVE  ExitInv'
    <2>1. Moved(t) /\ op'[t].pc = op[t].pc /\ session' = session
      BY <1>1, <1>6, GoneEffect DEF Disconnect, rows
    <2> QED
      BY <2>1 DEF Moved, Only, Like, ExitInv, NothingActsAfterExit
  <1>7. CASE Restart
    BY <1>7, IdleHandler DEF Restart, ExitInv, NothingActsAfterExit, Engaged
  <1> QED
    BY <1>2, <1>3, <1>4, <1>5, <1>6, <1>7 DEF Next

\* A Session that StopSession has completed runs no operator Cue, and never will
\* again (StopSession, executeReserved).
THEOREM SilentAfterExit == Spec => []NothingActsAfterExit
  <1>1. ExitInv => NothingActsAfterExit
    BY DEF ExitInv
  <1> QED
    BY <1>1, TypeInit, TypeStep, FenceInit, FenceStep, ExitInit, ExitStep, PTL DEF Spec

-----------------------------------------------------------------------------
(* Single execution.  Whoever has reserved a request and not launched yet is *)
(* alone in that, and no Cue was launched for the request.                   *)

Claims(t) == op[t].pc \in {"select", "launch"}

LaunchedFor(r) == \E i \in DOMAIN executions : executions[i].by = r

ClaimInv ==
  /\ \A r \in Requests : LaunchedFor(r) => records[r] # "none"
  /\ \A t \in Threads : Claims(t) => records[op[t].req] # "none" /\ ~LaunchedFor(op[t].req)
  /\ \A t, u \in Threads : Claims(t) /\ Claims(u) /\ op[t].req = op[u].req => t = u
  /\ OneExecutionPerRequest

LEMMA ClaimInit == Init => ClaimInv
  BY IdleHandler DEF Init, ClaimInv, Claims, LaunchedFor, OneExecutionPerRequest

\* No row is inserted and nobody else claims.
LEMMA ClaimMoves ==
  ASSUME TypeInv, ClaimInv, NEW t \in Threads, Only(t),
         \A r \in Requests : records[r] # "none" => records'[r] # "none",
         DOMAIN executions' = DOMAIN executions,
         \A i \in DOMAIN executions : executions'[i].by = executions[i].by,
         Claims(t)' => Claims(t) /\ op'[t].req = op[t].req
  PROVE  ClaimInv'
  <1>1. \A r : LaunchedFor(r)' <=> LaunchedFor(r)
    BY DEF LaunchedFor
  <1>2. \A u \in Threads : Claims(u)' => Claims(u) /\ op'[u].req = op[u].req
    BY DEF Only, Like, Claims
  <1>3. \A u \in Threads : Claims(u) => op[u].req \in Requests
    BY DEF Claims, TypeInv, Placed
  <1>4. OneExecutionPerRequest'
    BY DEF ClaimInv, OneExecutionPerRequest
  <1> QED
    BY <1>1, <1>2, <1>3, <1>4 DEF ClaimInv

\* A command that is known stays known.
LEMMA RecordsStay ==
  ASSUME TypeInv, NEW t \in Threads, GoStep(t) \/ StopStep(t)
  PROVE  \A r \in Requests : records[r] # "none" => records'[r] # "none"
  <1>1. records \in [Requests -> {"none", "ACCEPTED"} \cup Terminal] /\ op[t].result \in Terminal
    BY DEF TypeInv, TypeOK, Handlers
  <1> USE <1>1 DEF rows, Terminal
  <1>2. CASE Reserve(t) \/ ReserveStop(t)
    BY <1>2 DEF Reserve, ReserveStop
  <1>3. CASE FinishCommand(t) \/ FinishStop(t)
    BY <1>3 DEF FinishCommand, FinishStop, Recorded
  <1>4. CASE Admit(t) \/ SelectCue(t) \/ LaunchCue(t) \/ AdvanceCue(t) \/ StartBranch(t)
             \/ Dispatch(t) \/ ActionEnds(t) \/ FinishCue(t)
    BY <1>4 DEF Admit, SelectCue, LaunchCue, AdvanceCue, StartBranch, Dispatch,
       ActionEnds,
      FinishCue
  <1>5. CASE ReadLatch(t) \/ Fence(t) \/ Latch(t) \/ Snapshot(t) \/ Interrupt(t)
             \/ StopConfirmed(t) \/ StopTimesOut(t) \/ Safety(t) \/ ApplyClear(t)
             \/ Unlatch(t) \/ EndSession(t)
    BY <1>5 DEF ReadLatch, Fence, Latch, Snapshot, Interrupt, StopConfirmed, StopTimesOut,
      Safety, ApplyClear, Unlatch, EndSession
  <1> QED
    BY <1>2, <1>3, <1>4, <1>5 DEF GoStep, StopStep, Launching

\* A claim is made by the reservation of a command that was not known.
LEMMA ClaimReserve ==
  ASSUME TypeInv, ClaimInv, NEW t \in Threads, Reserve(t)
  PROVE  ClaimInv'
  <1>1. /\ Typed /\ op[t].pc = "reserve" /\ op[t].req \in Requests /\ executions' = executions
        /\ records \in [Requests -> {"none", "ACCEPTED"} \cup Terminal]
    BY TypeParts DEF TypeInv, Placed, Reserve, TypeOK
  <1>2. \A r \in Requests : records[r] # "none" => records'[r] # "none"
    BY RecordsStay DEF GoStep
  <1>3. CASE Leave(t)
    <2>1. Only(t) /\ op'[t] = Idle
      BY <1>1, <1>3, LeaveEffect
    <2> QED
      BY <1>1, <1>2, <2>1, IdleHandler, ClaimMoves DEF Claims
  <1>4. CASE /\ records[op[t].req] = "none"
             /\ records' = [records EXCEPT ![op[t].req] = "ACCEPTED"]
             /\ Goto(t, "select")
    <2>1. Moved(t) /\ op'[t].pc = "select"
      BY <1>1, <1>4, GotoEffect DEF Phases
    <2>2. \A r : LaunchedFor(r)' <=> LaunchedFor(r)
      BY <1>1 DEF LaunchedFor
    <2>3. records'[op[t].req] # "none" /\ ~LaunchedFor(op[t].req)
      BY <1>1, <1>4 DEF ClaimInv
    <2>4. ASSUME NEW u \in Threads \ {t}, Claims(u)'
          PROVE  /\ Claims(u) /\ op'[u].req = op[u].req
                 /\ op[u].req \in Requests /\ op[u].req # op[t].req
      <3>1. Claims(u) /\ op'[u].req = op[u].req
        BY <2>1, <2>4 DEF Moved, Only, Like, Claims
      <3> QED
        BY <1>4, <3>1 DEF ClaimInv, Claims, TypeInv, Placed
    <2>5. \A r \in Requests : LaunchedFor(r)' => records'[r] # "none"
      BY <1>2, <2>2 DEF ClaimInv
    <2>6. ASSUME NEW u \in Threads, Claims(u)'
          PROVE  records'[op'[u].req] # "none" /\ ~LaunchedFor(op[u].req)'
      BY <1>2, <2>1, <2>2, <2>3, <2>4, <2>6 DEF ClaimInv, Moved
    <2>7. ASSUME NEW u \in Threads, NEW v \in Threads, Claims(u)', Claims(v)',
                 op'[u].req = op'[v].req
          PROVE  u = v
      <3>1. op'[t].req = op[t].req
        BY <2>1 DEF Moved
      <3>2. CASE u = t \/ v = t
        BY <2>4, <2>7, <3>1, <3>2
      <3>3. CASE u # t /\ v # t
        BY <2>4, <2>7, <3>3 DEF ClaimInv
      <3> QED
        BY <3>2, <3>3
    <2>8. OneExecutionPerRequest'
      BY <1>1 DEF ClaimInv, OneExecutionPerRequest
    <2> QED
      BY <2>5, <2>6, <2>7, <2>8 DEF ClaimInv
  <1> QED
    BY <1>3, <1>4 DEF Reserve

\* A launch uses the claim up.
LEMMA ClaimLaunch ==
  ASSUME TypeInv, ClaimInv, NEW t \in Threads, LaunchCue(t)
  PROVE  ClaimInv'
  <1>1. /\ Typed /\ RowsOK /\ Claims(t) /\ op[t].req \in Requests /\ op[t].cue \in Cues
        /\ records' = records
    BY TypeParts DEF TypeInv, Placed, LaunchCue, Claims
  <1>2. CASE Conclude(t, "finish", "FAILED") /\ UNCHANGED executions
    <2>1. Moved(t) /\ op'[t].pc = "finish"
      BY <1>1, <1>2, ConcludeEffect DEF Phases, Terminal
    <2> QED
      BY <1>1, <1>2, <2>1, ClaimMoves DEF Moved, Claims
  <1>3. CASE /\ executions' = Append(executions, [cue |-> op[t].cue, by |-> op[t].req,
                                                  result |-> "RUNNING"])
             /\ Become(t, [op[t] EXCEPT !.pc = "advance", !.exec = Len(executions) + 1])
    <2>1. /\ DOMAIN executions' = DOMAIN executions \cup {Len(executions) + 1}
          /\ \A j \in DOMAIN executions : executions'[j] = executions[j]
          /\ executions'[Len(executions) + 1].by = op[t].req
          /\ Len(executions) + 1 \in Nat
      BY <1>1, <1>3, LaunchedRow DEF RowsOK
    <2>2. Moved(t) /\ op'[t].pc = "advance"
      BY <1>1, <1>3, <2>1, LaunchedEffect
    <2>3. \A r : LaunchedFor(r)' <=> LaunchedFor(r) \/ r = op[t].req
      BY <2>1 DEF LaunchedFor
    <2>4. ASSUME NEW u \in Threads, Claims(u)'
          PROVE  u # t /\ Claims(u) /\ op'[u].req = op[u].req /\ op[u].req # op[t].req
      <3>1. u # t
        BY <2>2, <2>4 DEF Claims
      <3>2. Claims(u) /\ op'[u].req = op[u].req
        BY <2>2, <2>4, <3>1 DEF Moved, Only, Like, Claims
      <3> QED
        BY <1>1, <3>1, <3>2 DEF ClaimInv
    <2>5. OneExecutionPerRequest'
      <3>1. ~LaunchedFor(op[t].req) /\ OneExecutionPerRequest
        BY <1>1 DEF ClaimInv
      <3> QED
        BY <2>1, <3>1 DEF OneExecutionPerRequest, LaunchedFor
    <2> QED
      BY <1>1, <2>3, <2>4, <2>5 DEF ClaimInv
  <1> QED
    BY <1>2, <1>3 DEF LaunchCue

\* Nothing else leads to the selection or to the launch of a Cue.
LEMMA SelectedMoves ==
  ASSUME TypeInv, NEW t \in Threads, GoStep(t),
         ~Reserve(t), ~LaunchCue(t), ~SelectCue(t)
  PROVE  op'[t].pc \notin {"select", "launch"}
  <1>1. Typed
    BY TypeParts DEF TypeInv
  <1>2. ASSUME NEW p \in Phases \ {"select", "launch"}, NEW r \in Terminal,
               Goto(t, p) \/ Conclude(t, p, r)
        PROVE  op'[t].pc \notin {"select", "launch"}
    BY <1>1, <1>2, GotoEffect, ConcludeEffect
  <1>3. ASSUME Become(t, Idle) \/ Leave(t)
        PROVE  op'[t].pc \notin {"select", "launch"}
    BY <1>1, <1>3, Moves, LeaveEffect, IdleHandler
  <1>4. ASSUME NEW r \in Terminal, ActionDone(t, r), op[t].pc \in {"dispatch", "acting"}
        PROVE  op'[t].pc \notin {"select", "launch"}
    <2>1. CASE Conclude(t, "finishCue", r)
      BY <1>2, <2>1 DEF Phases, Engaged
    <2>2. CASE Become(t, [op[t] EXCEPT !.left = @ - 1,
                            !.pc = IF op[t].left > 1 THEN "dispatch" ELSE "finishCue"])
      <3>1. PICK p \in Phases : p = IF op[t].left > 1 THEN "dispatch" ELSE "finishCue"
        BY DEF Phases, Engaged
      <3>2. PICK n \in 0..Actions : n = op[t].left - 1
        BY <1>1, <1>4, RuntimeControlAssumption DEF TypeInv, Placed, Typed, Handlers
      <3>3. Become(t, [op[t] EXCEPT !.left = n, !.pc = p])
        BY <2>2, <3>1, <3>2
      <3>4. op'[t].pc = p
        BY <1>1, <3>3, ActionEffect
      <3> QED
        BY <3>1, <3>4
    <2> QED
      BY <1>4, <2>1, <2>2 DEF ActionDone
  <1>5. CASE AdvanceCue(t)
    <2>1. Actions \in 0..Actions
      BY RuntimeControlAssumption
    <2> QED
      BY <1>1, <1>2, <1>5, <2>1, AdvancedEffect DEF AdvanceCue, Phases, Terminal
  <1> USE DEF Phases, Engaged, Terminal
  <1>6. CASE Admit(t)
    BY <1>2, <1>3, <1>6 DEF Admit
  <1>7. CASE StartBranch(t)
    BY <1>2, <1>7 DEF StartBranch
  <1>8. CASE Dispatch(t)
    BY <1>2, <1>4, <1>8 DEF Dispatch
  <1>9. CASE ActionEnds(t)
    BY <1>2, <1>4, <1>9 DEF ActionEnds
  <1>10. CASE FinishCue(t)
    BY <1>2, <1>10 DEF FinishCue
  <1>11. CASE FinishCommand(t)
    BY <1>3, <1>11 DEF FinishCommand
  <1> QED
    BY <1>5, <1>6, <1>7, <1>8, <1>9, <1>10, <1>11 DEF GoStep, Launching

\* Every other step leaves the list of rows and the claims alone.
LEMMA ClaimGo ==
  ASSUME TypeInv, ClaimInv, NEW t \in Threads, GoStep(t), ~Reserve(t), ~LaunchCue(t)
  PROVE  ClaimInv'
  <1>1. Typed /\ RowsOK /\ Placed(op[t]) /\ Only(t)
    BY TypeParts, StepOnly DEF TypeInv
  <1>2. /\ DOMAIN executions' = DOMAIN executions
        /\ \A i \in DOMAIN executions : executions'[i].by = executions[i].by
    <2>1. CASE AdvanceCue(t)
      <3>1. op[t].exec \in DOMAIN executions
        BY <1>1, <2>1 DEF AdvanceCue, Placed, Launched
      <3> QED
        BY <1>1, <2>1, <3>1, EndedRow DEF AdvanceCue, RowsOK
    <2>2. CASE FinishCue(t)
      <3>1. /\ op[t].exec \in DOMAIN executions
            /\ op[t].result \in {"COMPLETED", "FAILED", "CANCELLED"}
        BY <1>1, <2>2 DEF FinishCue, Placed, Launched
      <3> QED
        BY <1>1, <2>2, <3>1, EndedRow DEF FinishCue, RowsOK
    <2>3. CASE executions' = executions
      BY <2>3
    <2> QED
      BY <2>1, <2>2, <2>3
      DEF GoStep, Launching, Admit, SelectCue, StartBranch, Dispatch, ActionEnds,
        FinishCommand, rows
  <1>3. Claims(t)' => Claims(t) /\ op'[t].req = op[t].req
    <2>1. CASE SelectCue(t)
      BY <1>1, <2>1, GoMoves, Moves, IdleHandler, LeaveEffect
      DEF SelectCue, Claims, GoStep, Moved
    <2>2. CASE ~SelectCue(t)
      BY <2>2, SelectedMoves DEF Claims
    <2> QED
      BY <2>1, <2>2
  <1> QED
    BY <1>1, <1>2, <1>3, RecordsStay, ClaimMoves

LEMMA ClaimStep == TypeInv /\ ClaimInv /\ [Next]_vars => ClaimInv'
  <1> SUFFICES ASSUME TypeInv, ClaimInv, [Next]_vars PROVE ClaimInv'
    OBVIOUS
  <1>1. Typed /\ RowsOK
    BY TypeParts DEF TypeInv
  <1>2. CASE UNCHANGED vars
    BY <1>2 DEF vars, rows, ClaimInv, Claims, LaunchedFor, OneExecutionPerRequest
  <1>3. ASSUME NEW t \in Threads, NEW r \in Requests,
               RequestGo(t, r) \/ RequestTimecode(t, r) \/ RequestStop(t, r)
        PROVE  ClaimInv'
    <2>1. PICK p \in {"admit", "reserve", "reserveStop"} : Begun(t, r, p)
      BY <1>1, <1>3, GoEffect, TimecodeEffect, StopEffect DEF RowsOK
    <2>2. records' = records /\ executions' = executions
      BY <1>3 DEF RequestGo, RequestTimecode, RequestStop, rows
    <2> QED
      BY <2>1, <2>2, ClaimMoves DEF Begun, Claims
  <1>4. ASSUME NEW t \in Threads, StopStep(t)
        PROVE  ClaimInv'
    <2>1. ~Claims(t)'
      BY <1>1, <1>4, StopMoves, Moves, IdleHandler DEF StopPhases, Claims
    <2>2. executions' = executions
      BY <1>4, StopRows
    <2> QED
      BY <1>4, <2>1, <2>2, StepOnly, RecordsStay, ClaimMoves
  <1>5. ASSUME NEW t \in Threads, Disconnect(t)
        PROVE  ClaimInv'
    <2>1. Moved(t) /\ op'[t].pc = op[t].pc
      BY <1>1, <1>5, GoneEffect DEF Disconnect
    <2>2. records' = records /\ executions' = executions
      BY <1>5 DEF Disconnect, rows
    <2> QED
      BY <2>1, <2>2, ClaimMoves DEF Moved, Claims
  <1>6. CASE Restart
    <2>1. /\ DOMAIN executions' = DOMAIN executions
          /\ \A i \in DOMAIN executions : executions'[i].by = executions[i].by
      BY <1>1, <1>6, RestartedRows DEF RowsOK
    <2>2. records' = records /\ \A t \in Threads : ~Claims(t)'
      BY <1>6, IdleHandler DEF Restart, Claims
    <2> QED
      BY <2>1, <2>2 DEF ClaimInv, LaunchedFor, OneExecutionPerRequest
  <1> QED
    BY <1>2, <1>3, <1>4, <1>5, <1>6, ClaimReserve, ClaimLaunch, ClaimGo DEF Next

\* However often a command is sent, by whom, and whatever the Hub's restarts,
\* it launches one Cue at most (ReserveCommand; restarts replay nothing).
THEOREM SingleExecution == Spec => []OneExecutionPerRequest
  <1>1. ClaimInv => OneExecutionPerRequest
    BY DEF ClaimInv
  <1> QED
    BY <1>1, TypeInit, TypeStep, ClaimInit, ClaimStep, PTL DEF Spec

-----------------------------------------------------------------------------
(* The blackout.  The Cues of timecode are not among the runs that a stop    *)
(* snapshots, and a clear takes no fence; without the two, a blackout that   *)
(* has confirmed its stop and driven the outputs dark keeps the fence until  *)
(* its row is written, and nobody is left who could light them.              *)

OperatorOnly == \A r \in Requests : Ask[r] \notin {"timecode", "clear"}

DarkOK(t) ==
  /\ op[t].kind \notin {"timecode", "clear"}
  /\ op[t].pc \in GoPhases => op[t].kind = "go"
  /\ op[t].pc \notin {"readLatch", "applyClear", "unlatch"}
  /\ op[t].pc = "safety" => op[t].holds
  /\ op[t].kind = "blackout" /\ op[t].pc = "finishStop" /\ op[t].result = "COMPLETED" =>
       output = "dark" /\ op[t].holds /\ op[t].confirmed

DarkInv == \A t \in Threads : DarkOK(t)

LEMMA IdleIsDark ==
  ASSUME NEW t, op[t] = Idle
  PROVE  DarkOK(t)
  BY DEF Idle, DarkOK, GoPhases, Engaged

LEMMA DarkInit == Init => DarkInv
  BY IdleIsDark DEF Init, DarkInv

\* Only an operator's run could light what a blackout has darkened.
LEMMA DarkMoves ==
  ASSUME FenceInv, DarkInv, NEW t \in Threads, Only(t), DarkOK(t)',
         output' \in {output, "dark"} \/ t \in active
  PROVE  DarkInv'
  <1>1. ASSUME NEW u \in Threads \ {t} PROVE DarkOK(u)'
    <2>1. DarkOK(u) /\ FenceOK(u) /\ Like(op'[u], op[u])
      BY DEF DarkInv, FenceInv, Only
    <2> QED
      BY <2>1 DEF DarkOK, FenceOK, Like
  <1> QED
    BY <1>1 DEF DarkInv

LEMMA DarkGo ==
  ASSUME TypeInv, FenceInv, DarkInv, NEW t \in Threads, GoStep(t)
  PROVE  DarkInv'
  <1>1. Only(t) /\ op[t].kind = "go"
    BY StepOnly, GoMoves DEF DarkInv, DarkOK, TypeInv, Placed
  <1>2. \/ op'[t].pc \in GoPhases /\ op'[t].kind = "go"
        \/ op'[t] = Idle
    BY <1>1, GoMoves, Moves, IdleHandler, LeaveEffect, TypeParts DEF Moved, TypeInv
  <1>3. DarkOK(t)'
    <2>1. CASE op'[t] = Idle
      BY <2>1 DEF Idle, DarkOK, GoPhases, Engaged
    <2> QED
      BY <1>2, <2>1 DEF DarkOK, GoPhases, Engaged
  <1>4. output' = output \/ t \in active
    <2>1. CASE ActionEnds(t)
      BY <1>1, <2>1 DEF ActionEnds, TypeInv, Registered, GoPhases, Engaged
    <2> QED
      BY <2>1 DEF GoStep, Launching, Admit, Reserve, SelectCue, LaunchCue, AdvanceCue,
        StartBranch, Dispatch, FinishCue, FinishCommand
  <1> QED
    BY <1>1, <1>3, <1>4, DarkMoves

LEMMA DarkStop ==
  ASSUME TypeInv, FenceInv, ExitInv, DarkInv, NEW t \in Threads, StopStep(t)
  PROVE  DarkInv'
  <1>1. Typed /\ FenceOK(t) /\ DarkOK(t) /\ Only(t)
    BY StepOnly, TypeParts DEF TypeInv, FenceInv, DarkInv
  <1>2. ASSUME op'[t] = Idle PROVE DarkOK(t)'
    BY <1>2 DEF Idle, DarkOK, GoPhases, Engaged
  <1>3. ASSUME Become(t, Idle) PROVE DarkOK(t)'
    BY <1>1, <1>2, <1>3, Moves, IdleHandler
  <1>4. ASSUME NEW p \in {"fence", "latch", "snapshot", "endSession"}, Goto(t, p)
        PROVE  DarkOK(t)'
    BY <1>1, <1>4, GotoEffect DEF DarkOK, Moved, Phases, GoPhases, Engaged
  <1>5. ASSUME Goto(t, "safety"), op[t].holds
        PROVE  DarkOK(t)'
    BY <1>1, <1>5, GotoEffect DEF DarkOK, Moved, SameStop, Phases, GoPhases, Engaged
  <1>6. ASSUME NEW r \in Terminal, Conclude(t, "finishStop", r),
               r = "COMPLETED" /\ op[t].kind = "blackout" =>
                 output' = "dark" /\ op[t].holds /\ op[t].confirmed
        PROVE  DarkOK(t)'
    BY <1>1, <1>6, ConcludeEffect DEF DarkOK, Moved, SameStop, Phases, GoPhases, Engaged
  <1> USE DEF Terminal
  <1>7. output' \in {output, "dark"}
    BY <1>1 DEF StopStep, ReserveStop, ReadLatch, Fence, Latch, Snapshot, Interrupt,
      StopConfirmed, StopTimesOut, Safety, ApplyClear, Unlatch, EndSession, FinishStop, DarkOK
  <1>8. ASSUME ReserveStop(t) PROVE DarkOK(t)'
    BY <1>1, <1>3, <1>4, <1>6, <1>8 DEF ReserveStop, DarkOK
  <1>9. ASSUME ReadLatch(t) \/ ApplyClear(t) \/ Unlatch(t) PROVE DarkOK(t)'
    BY <1>1, <1>9 DEF ReadLatch, ApplyClear, Unlatch, DarkOK
  <1>10. ASSUME Fence(t) PROVE DarkOK(t)'
    <2>1. CASE Conclude(t, "finishStop", "REJECTED")
      BY <1>6, <2>1
    <2>2. CASE \E p \in {"latch", "snapshot"} : Become(t, [op[t] EXCEPT !.holds = TRUE, !.pc = p])
      BY <1>1, <2>2, FenceEffect DEF DarkOK, Moved, Phases, GoPhases, Engaged
    <2> QED
      BY <1>10, <2>1, <2>2 DEF Fence
  <1>11. ASSUME Latch(t) PROVE DarkOK(t)'
    BY <1>4, <1>6, <1>11 DEF Latch
  <1>12. ASSUME Snapshot(t) PROVE DarkOK(t)'
    <2>1. CASE Conclude(t, "finishStop", "REJECTED")
      BY <1>6, <2>1
    <2>2. CASE Become(t, [op[t] EXCEPT !.pc = "interrupt", !.waits = active,
                                       !.targets = {op[u].req : u \in active}])
      <3>1. active \in SUBSET Threads /\ {op[u].req : u \in active} \in SUBSET Requests
        BY ActiveRequests DEF TypeInv, TypeOK
      <3>2. Moved(t) /\ op'[t].pc = "interrupt"
        BY <1>1, <2>2, <3>1, SnapshotEffect
      <3> QED
        BY <1>1, <3>2 DEF DarkOK, Moved, GoPhases, Engaged
    <2> QED
      BY <1>12, <2>1, <2>2 DEF Snapshot
  <1>13. ASSUME Interrupt(t) PROVE DarkOK(t)'
    BY <1>1, <1>13, InterruptEffect DEF DarkOK, Moved, GoPhases, Engaged
  <1>14. ASSUME StopConfirmed(t) PROVE DarkOK(t)'
    <2>1. PICK p \in {"finishStop", "endSession", "safety"} :
            /\ p = "finishStop" <=> op[t].kind = "stopCue"
            /\ Become(t, [op[t] EXCEPT !.confirmed = TRUE, !.pc = p])
      BY <1>14 DEF StopConfirmed
    <2>2. Moved(t) /\ op'[t].pc = p /\ op'[t].holds = op[t].holds
      BY <1>1, <2>1, ConfirmEffect DEF Phases
    <2> QED
      BY <1>1, <1>14, <2>1, <2>2 DEF StopConfirmed, FenceOK, DarkOK, Moved, GoPhases,
         Engaged
  <1>15. ASSUME StopTimesOut(t) PROVE DarkOK(t)'
    BY <1>1, <1>4, <1>5, <1>6, <1>15 DEF StopTimesOut, FenceOK
  <1>16. ASSUME Safety(t) PROVE DarkOK(t)'
    BY <1>1, <1>4, <1>6, <1>16 DEF Safety, DarkOK
  <1>17. ASSUME EndSession(t) PROVE DarkOK(t)'
    <2>1. op[t].kind # "blackout"
      BY <1>17 DEF EndSession, ExitInv
    <2> QED
      BY <1>6, <1>17, <2>1 DEF EndSession
  <1>18. ASSUME FinishStop(t) PROVE DarkOK(t)'
    BY <1>3, <1>18 DEF FinishStop
  <1>19. DarkOK(t)'
    BY <1>8, <1>9, <1>10, <1>11, <1>12, <1>13, <1>14, <1>15, <1>16, <1>17, <1>18 DEF
       StopStep
  <1> QED
    BY <1>1, <1>7, <1>19, DarkMoves

LEMMA DarkStep ==
  ASSUME OperatorOnly, TypeInv, FenceInv, ExitInv, DarkInv, [Next]_vars
  PROVE  DarkInv'
  <1>1. Typed /\ RowsOK
    BY TypeParts DEF TypeInv
  <1>2. CASE UNCHANGED vars
    BY <1>2 DEF vars, DarkInv, DarkOK
  <1>3. ASSUME NEW t \in Threads, NEW r \in Requests,
               RequestGo(t, r) \/ RequestTimecode(t, r) \/ RequestStop(t, r)
        PROVE  DarkInv'
    <2>1. Begun(t, r, "admit") \/ Begun(t, r, "reserveStop")
      BY <1>1, <1>3, GoEffect, StopEffect DEF RowsOK, OperatorOnly, RequestTimecode
    <2>2. output' = output
      BY <1>3 DEF RequestGo, RequestTimecode, RequestStop
    <2>3. DarkOK(t)'
      BY <2>1 DEF Begun, OperatorOnly, DarkOK, GoPhases, Engaged
    <2> QED
      BY <2>1, <2>2, <2>3, DarkMoves DEF Begun
  <1>4. ASSUME NEW t \in Threads, Disconnect(t)
        PROVE  DarkInv'
    <2>1. /\ Moved(t) /\ SameStop(t) /\ SameResult(t) /\ op'[t].pc = op[t].pc
          /\ output' = output
      BY <1>1, <1>4, GoneEffect DEF Disconnect
    <2>2. DarkOK(t)'
      BY <2>1 DEF DarkInv, DarkOK, Moved, SameStop, SameResult
    <2> QED
      BY <2>1, <2>2, DarkMoves DEF Moved
  <1>5. CASE Restart
    <2>1. ASSUME NEW t \in Threads PROVE DarkOK(t)'
      BY <1>5 DEF Restart, Idle, DarkOK, GoPhases, Engaged
    <2> QED
      BY <2>1 DEF DarkInv
  <1> QED
    BY <1>2, <1>3, <1>4, <1>5, DarkGo, DarkStop DEF Next

\* While neither timecode nor a clear interferes, an Emergency Blackout that
\* reports success has left the outputs dark and no Cue running, over clients that
\* leave and restarts (EmergencyBlackout, beginStoppingCues).
THEOREM BlackoutDark ==
  ASSUME OperatorOnly
  PROVE  Spec => []BlackoutIsDark
  <1>1. FenceInv /\ DarkInv => BlackoutIsDark
    BY DEF FenceInv, FenceOK, DarkInv, DarkOK, BlackoutIsDark
  <1> QED
    BY <1>1, TypeInit, TypeStep, FenceInit, FenceStep, ExitInit, ExitStep, DarkInit,
       DarkStep,
       PTL DEF Spec

-----------------------------------------------------------------------------
(* The order of the Cues.  advanceMu covers a launch from the selection to   *)
(* the advance of the Session, and nobody but its holder moves the current   *)
(* Cue: a Cue that ends moves it only if it was launched last, and then the  *)
(* Session is at that Cue already.                                           *)

OperatorEngine == \A r \in Requests : Ask[r] # "timecode"

OrderOK(t) ==
  /\ op[t].kind # "timecode"
  /\ op[t].pc \in {"launch", "advance"} <=> advance["operator"] = t
  /\ op[t].pc = "launch" =>
       /\ op[t].want = 0 => op[t].cue = NextCue
       /\ op[t].expect \in {-1, session.current}
  /\ op[t].pc = "advance" =>
       op[t].exec = Len(executions) /\ executions[op[t].exec].cue = op[t].cue
  /\ op[t].pc \in {"delay", "dispatch", "acting", "finishCue"} /\ op[t].exec = Len(executions) =>
       session.current = executions[op[t].exec].cue

OrderInv == \A t \in Threads : OrderOK(t)

(* When no client leaves, every launch is followed by its advance.           *)
LastOK ==
  /\ \A t \in Threads : ~op[t].gone
  /\ executions # << >> /\ (\A t \in Threads : op[t].pc # "advance") =>
       session.current = executions[Len(executions)].cue

\* The fields of a handler that tell what its GO was asked for, and its client.
Kept(new, old) == new.want = old.want /\ new.expect = old.expect /\ new.gone = old.gone

LEMMA KeptFields ==
  ASSUME NEW o \in Handlers, NEW p, NEW x, NEW y
  PROVE  /\ Kept([o EXCEPT !.pc = p], o)
         /\ Kept([o EXCEPT !.pc = p, !.result = x], o)
         /\ Kept([o EXCEPT !.pc = p, !.cue = x], o)
         /\ Kept([o EXCEPT !.pc = p, !.exec = x], o)
         /\ Kept([o EXCEPT !.pc = p, !.left = x], o)
         /\ Kept([o EXCEPT !.left = x, !.pc = p], o)
         /\ Kept([o EXCEPT !.pc = p, !.saw = x], o)
         /\ Kept([o EXCEPT !.holds = x, !.pc = p], o)
         /\ Kept([o EXCEPT !.pc = p, !.waits = x, !.targets = y], o)
         /\ Kept([o EXCEPT !.confirmed = x, !.pc = p], o)
         /\ Kept([o EXCEPT !.waits = x], o)
         /\ Kept([o EXCEPT !.cut = x], o)
  BY DEF Handlers, Kept

\* No step but a request and a disconnection writes them.
LEMMA StepKept ==
  ASSUME TypeInv, NEW t \in Threads, GoStep(t) \/ StopStep(t), NEW u \in Threads
  PROVE  Kept(op'[u], op[u]) \/ (u = t /\ op'[u] = Idle)
  <1>1. op \in [Threads -> Handlers]
    BY DEF TypeInv, TypeOK
  <1>2. PICK o \in Handlers : o = op[u]
    BY <1>1
  <1>3. Kept(o, o)
    BY DEF Kept
  <1>4. ASSUME NEW p, Goto(t, p) PROVE Kept(op'[u], op[u])
    BY <1>1, <1>2, <1>3, <1>4, KeptFields DEF Goto, Become
  <1>5. ASSUME NEW p, NEW r, Conclude(t, p, r) PROVE Kept(op'[u], op[u])
    BY <1>1, <1>2, <1>3, <1>5, KeptFields DEF Conclude, Become
  <1>6. ASSUME Become(t, Idle) PROVE Kept(op'[u], op[u]) \/ (u = t /\ op'[u] = Idle)
    BY <1>1, <1>2, <1>3, <1>6 DEF Become
  <1>7. ASSUME Leave(t) PROVE Kept(op'[u], op[u]) \/ (u = t /\ op'[u] = Idle)
    BY <1>1, <1>2, <1>3, <1>7, KeptFields DEF Leave
  <1>8. ASSUME NEW r, ActionDone(t, r) PROVE Kept(op'[u], op[u])
    <2>1. CASE Conclude(t, "finishCue", r)
      BY <1>5, <2>1
    <2>2. CASE Become(t, [op[t] EXCEPT !.left = @ - 1,
                            !.pc = IF op[t].left > 1 THEN "dispatch" ELSE "finishCue"])
      <3>1. PICK p : p = IF op[t].left > 1 THEN "dispatch" ELSE "finishCue"
        OBVIOUS
      <3>2. PICK n : n = op[t].left - 1
        OBVIOUS
      <3>3. Become(t, [op[t] EXCEPT !.left = n, !.pc = p])
        BY <2>2, <3>1, <3>2
      <3> QED
        BY <1>1, <1>2, <1>3, <3>3, KeptFields DEF Become
    <2> QED
      BY <1>8, <2>1, <2>2 DEF ActionDone
  <1>9. ASSUME NEW s, Become(t, s), Kept(s, op[t]) PROVE Kept(op'[u], op[u])
    BY <1>1, <1>2, <1>3, <1>9 DEF Become
  <1>10. CASE SelectCue(t) \/ LaunchCue(t) \/ AdvanceCue(t)
    <2>1. op[t] \in Handlers
      BY <1>1
    <2>2. \A p, x : /\ Kept([op[t] EXCEPT !.pc = p, !.cue = x], op[t])
                    /\ Kept([op[t] EXCEPT !.pc = p, !.exec = x], op[t])
                    /\ Kept([op[t] EXCEPT !.pc = p, !.left = x], op[t])
      BY <2>1, KeptFields
    <2> QED
      BY <1>5, <1>9, <1>10, <2>2 DEF SelectCue, LaunchCue, AdvanceCue
  <1>14. CASE ReadLatch(t) \/ Fence(t) \/ Snapshot(t) \/ StopConfirmed(t)
    <2>1. op[t] \in Handlers
      BY <1>1
    <2>2. \A p, x, y : /\ Kept([op[t] EXCEPT !.pc = p, !.saw = x], op[t])
                       /\ Kept([op[t] EXCEPT !.holds = x, !.pc = p], op[t])
                       /\ Kept([op[t] EXCEPT !.pc = p, !.waits = x, !.targets = y], op[t])
                       /\ Kept([op[t] EXCEPT !.confirmed = x, !.pc = p], op[t])
      BY <2>1, KeptFields
    <2> QED
      BY <1>5, <1>9, <1>14, <2>2 DEF ReadLatch, Fence, Snapshot, StopConfirmed
  <1>11. CASE Interrupt(t)
    BY <1>1, <1>2, <1>3, <1>11, KeptFields DEF Interrupt
  <1>12. CASE Admit(t) \/ Reserve(t) \/ StartBranch(t) \/ Dispatch(t) \/ ActionEnds(t)
              \/ FinishCue(t) \/ FinishCommand(t)
    BY <1>4, <1>5, <1>6, <1>7, <1>8, <1>12
    DEF Admit, Reserve, StartBranch, Dispatch, ActionEnds, FinishCue, FinishCommand
  <1>13. CASE ReserveStop(t) \/ Latch(t) \/ StopTimesOut(t) \/ Safety(t) \/ ApplyClear(t)
              \/ Unlatch(t) \/ EndSession(t) \/ FinishStop(t)
    BY <1>4, <1>5, <1>6, <1>13
    DEF ReserveStop, Latch, StopTimesOut, Safety, ApplyClear, Unlatch, EndSession, FinishStop
  <1> QED
    BY <1>10, <1>11, <1>12, <1>13, <1>14 DEF GoStep, StopStep, Launching

LEMMA OrderInit == Init => OrderInv /\ LastOK
  BY RuntimeControlAssumption DEF Init, Idle, OrderInv, OrderOK, LastOK

\* What keeps the others in order while t moves.
LEMMA OrderMoves ==
  ASSUME TypeInv, OrderInv, NEW t \in Threads, Only(t), OrderOK(t)',
         \A u \in Threads \ {t} : Kept(op'[u], op[u]),
         \A u \in Threads \ {t} : advance'["operator"] = u <=> advance["operator"] = u,
         \A j \in DOMAIN executions : executions'[j].cue = executions[j].cue,
         \/ Len(executions') = Len(executions)
         \/ op[t].pc = "launch" /\ Len(executions') = Len(executions) + 1,
         \/ session'.current = session.current
         \/ /\ op[t].pc = "advance" /\ Len(executions') = Len(executions)
            /\ session'.current = executions[Len(executions)].cue
  PROVE  OrderInv'
  <1>1. ASSUME NEW u \in Threads \ {t} PROVE OrderOK(u)'
    <2>1. OrderOK(u) /\ OrderOK(t) /\ Placed(op[u]) /\ Like(op'[u], op[u]) /\ Kept(op'[u], op[u])
      BY DEF OrderInv, TypeInv, Only
    <2>2. /\ executions \in Seq(Executions)
          /\ op[u].pc \in Launched => op[u].exec \in 1..Len(executions)
      BY <2>1 DEF TypeInv, TypeOK, Placed
    <2>3. ~(op[u].pc \in {"launch", "advance"} /\ op[t].pc \in {"launch", "advance"})
      BY <2>1 DEF OrderOK
    <2>4. op'[u].kind # "timecode"
          /\ (op'[u].pc \in {"launch", "advance"} <=> advance'["operator"] = u)
      BY <2>1 DEF OrderOK, Like
    <2>5. op'[u].pc = "launch" =>
            /\ op'[u].want = 0 => op'[u].cue = NextCue'
            /\ op'[u].expect \in {-1, session'.current}
      BY <2>1, <2>3 DEF OrderOK, Like, Kept, NextCue
    <2>6. op'[u].pc = "advance" =>
            op'[u].exec = Len(executions') /\ executions'[op'[u].exec].cue = op'[u].cue
      BY <2>1, <2>2, <2>3 DEF OrderOK, Like, Launched
    <2>7. op'[u].pc \in {"delay", "dispatch", "acting", "finishCue"}
          /\ op'[u].exec = Len(executions') =>
            session'.current = executions'[op'[u].exec].cue
      BY <2>1, <2>2 DEF OrderOK, Like, Launched
    <2> QED
      BY <2>4, <2>5, <2>6, <2>7 DEF OrderOK
  <1> QED
    BY <1>1 DEF OrderInv

\* A row that ends names the Cue that it did.
LEMMA EndedCue ==
  ASSUME executions \in Seq(Executions), NEW i \in DOMAIN executions, NEW r,
         executions' = [executions EXCEPT ![i].result = r]
  PROVE  /\ Len(executions') = Len(executions)
         /\ \A j \in DOMAIN executions : executions'[j].cue = executions[j].cue
  <1>1. ASSUME NEW o \in Executions, NEW s, s = [o EXCEPT !.result = r]
        PROVE  s.cue = o.cue
    BY <1>1 DEF Executions
  <1>2. PICK o \in Executions : o = executions[i]
    OBVIOUS
  <1>3. PICK s : s = [o EXCEPT !.result = r]
    OBVIOUS
  <1>4. executions' = [executions EXCEPT ![i] = s]
    BY <1>2, <1>3
  <1> QED
    BY <1>1, <1>2, <1>3, <1>4

LEMMA OrderSelect ==
  ASSUME TypeInv, OrderInv, NEW t \in Threads, SelectCue(t)
  PROVE  OrderInv'
  <1>1. /\ Typed /\ RowsOK /\ Only(t) /\ OrderOK(t)
        /\ \A u \in Threads \ {t} : Kept(op'[u], op[u])
    BY TypeParts, StepOnly, StepKept DEF TypeInv, OrderInv, GoStep
  <1>2. executions' = executions /\ session' = session /\ op[t].pc = "select"
    BY DEF SelectCue, rows
  <1>3. Engine(t) = "operator"
    BY <1>1 DEF OrderOK, Engine, Automatic
  <1>4. CASE Conclude(t, "finish", "REJECTED") /\ advance' = advance
    <2>1. Moved(t) /\ op'[t].pc = "finish"
      BY <1>1, <1>4, ConcludeEffect DEF Phases, Terminal
    <2>2. OrderOK(t)'
      BY <1>1, <1>2, <1>4, <2>1 DEF OrderOK, Moved
    <2> QED
      BY <1>1, <1>2, <1>4, <2>2, OrderMoves
  <1>5. CASE /\ Selectable(t) /\ advance' = [advance EXCEPT ![Engine(t)] = t]
             /\ advance[Engine(t)] = NoThread
             /\ Become(t, [op[t] EXCEPT !.pc = "launch", !.cue = Choice(t)])
    <2>1. Moved(t) /\ op'[t].pc = "launch" /\ op'[t].cue = Choice(t)
      BY <1>1, <1>5, LaunchingEffect DEF Selectable
    <2>2. Kept(op'[t], op[t])
      BY <1>1, <1>5, KeptFields DEF Typed, Become
    <2>3. /\ advance'["operator"] = t /\ advance["operator"] = NoThread
          /\ \A u \in Threads : u # NoThread
      BY <1>1, <1>3, <1>5, RuntimeControlAssumption DEF RowsOK
    <2>4. OrderOK(t)'
      BY <1>1, <1>2, <1>5, <2>1, <2>2, <2>3 DEF OrderOK, Moved, Kept, Selectable,
         Choice, NextCue
    <2> QED
      BY <1>1, <1>2, <2>3, <2>4, OrderMoves
  <1> QED
    BY <1>4, <1>5 DEF SelectCue

LEMMA OrderLaunch ==
  ASSUME TypeInv, OrderInv, NEW t \in Threads, LaunchCue(t)
  PROVE  /\ OrderInv'
         /\ op[t].gone => session' = session /\ executions' = executions
         /\ ~op[t].gone => op'[t].pc = "advance"
  <1>1. /\ Typed /\ RowsOK /\ Only(t) /\ OrderOK(t) /\ op[t].req \in Requests /\ op[t].cue \in Cues
        /\ \A u \in Threads \ {t} : Kept(op'[u], op[u])
    BY TypeParts, StepOnly, StepKept DEF TypeInv, OrderInv, GoStep, Launching,
       LaunchCue, Placed
  <1>2. session' = session /\ op[t].pc = "launch" /\ advance["operator"] = t
    BY <1>1 DEF LaunchCue, OrderOK
  <1>3. Engine(t) = "operator"
    BY <1>1 DEF OrderOK, Engine, Automatic
  <1>4. CASE op[t].gone
    <2>1. Conclude(t, "finish", "FAILED") /\ Unlock(t) /\ executions' = executions
      BY <1>4 DEF LaunchCue
    <2>2. Moved(t) /\ op'[t].pc = "finish"
      BY <1>1, <2>1, ConcludeEffect DEF Phases, Terminal
    <2>3. advance'["operator"] = NoThread /\ \A u \in Threads : u # NoThread
      BY <1>1, <1>3, <2>1, RuntimeControlAssumption DEF RowsOK, Unlock
    <2>4. OrderOK(t)'
      BY <1>1, <2>2, <2>3 DEF OrderOK, Moved
    <2> QED
      BY <1>1, <1>2, <1>4, <2>1, <2>3, <2>4, OrderMoves
  <1>5. CASE ~op[t].gone
    <2>1. /\ executions' = Append(executions, [cue |-> op[t].cue, by |-> op[t].req,
                                               result |-> "RUNNING"])
          /\ Become(t, [op[t] EXCEPT !.pc = "advance", !.exec = Len(executions) + 1])
          /\ advance' = advance
      BY <1>5 DEF LaunchCue
    <2>2. /\ Len(executions') = Len(executions) + 1 /\ Len(executions) + 1 \in Nat
          /\ \A j \in DOMAIN executions : executions'[j].cue = executions[j].cue
          /\ executions'[Len(executions) + 1].cue = op[t].cue
      BY <1>1, <2>1 DEF RowsOK
    <2>3. /\ Moved(t) /\ op'[t].pc = "advance" /\ op'[t].exec = Len(executions) + 1
          /\ op'[t].cue = op[t].cue
      BY <1>1, <2>1, <2>2, LaunchedEffect
    <2>4. OrderOK(t)'
      BY <1>1, <1>2, <2>1, <2>2, <2>3 DEF OrderOK, Moved
    <2> QED
      BY <1>1, <1>2, <1>5, <2>1, <2>2, <2>3, <2>4, OrderMoves
  <1> QED
    BY <1>4, <1>5

LEMMA OrderAdvance ==
  ASSUME TypeInv, OrderInv, NEW t \in Threads, AdvanceCue(t)
  PROVE  /\ OrderInv' /\ op'[t].pc # "advance"
         /\ ~op[t].gone => /\ Len(executions') = Len(executions)
                           /\ session'.current = executions'[Len(executions)].cue
  <1> DEFINE i == op[t].exec
  <1>1. /\ Typed /\ RowsOK /\ Only(t) /\ OrderOK(t) /\ Placed(op[t])
        /\ \A u \in Threads \ {t} : Kept(op'[u], op[u])
    BY TypeParts, StepOnly, StepKept DEF TypeInv, OrderInv, GoStep, Launching
  <1>2. /\ op[t].pc = "advance" /\ advance["operator"] = t
        /\ i = Len(executions) /\ i \in DOMAIN executions /\ executions[i].cue = op[t].cue
    BY <1>1 DEF AdvanceCue, OrderOK, Placed, Launched
  <1>3. Engine(t) = "operator"
    BY <1>1 DEF OrderOK, Engine, Automatic
  <1>4. advance'["operator"] = NoThread /\ \A u \in Threads : u # NoThread
    BY <1>1, <1>3, RuntimeControlAssumption DEF RowsOK, AdvanceCue, Unlock
  <1>5. CASE op[t].gone
    <2>1. Conclude(t, "finish", "FAILED") /\ session' = session /\ executions' = executions
      BY <1>5 DEF AdvanceCue
    <2>2. Moved(t) /\ op'[t].pc = "finish"
      BY <1>1, <2>1, ConcludeEffect DEF Phases, Terminal
    <2>3. OrderOK(t)'
      BY <1>1, <1>4, <2>2 DEF OrderOK, Moved
    <2> QED
      BY <1>1, <1>2, <1>4, <1>5, <2>1, <2>2, <2>3, OrderMoves
  <1>6. CASE ~op[t].gone /\ session.status # "ACTIVE"
    <2>1. /\ executions' = [executions EXCEPT ![i].result = "FAILED"]
          /\ session' = [session EXCEPT !.current = Progress(i, "FAILED")]
          /\ Conclude(t, "finish", "FAILED")
      BY <1>6 DEF AdvanceCue
    <2>2. Moved(t) /\ op'[t].pc = "finish"
      BY <1>1, <2>1, ConcludeEffect DEF Phases, Terminal
    <2>3. /\ Len(executions') = Len(executions)
          /\ \A j \in DOMAIN executions : executions'[j].cue = executions[j].cue
      BY <1>1, <1>2, <2>1, EndedCue DEF RowsOK
    <2>4. session'.current = executions[i].cue
      BY <1>1, <1>2, <2>1 DEF RowsOK, Progress
    <2>5. OrderOK(t)'
      BY <1>1, <1>4, <2>2 DEF OrderOK, Moved
    <2> QED
      BY <1>1, <1>2, <1>4, <2>2, <2>3, <2>4, <2>5, OrderMoves
  <1>7. CASE ~op[t].gone /\ session.status = "ACTIVE"
    <2>1. /\ session' = [session EXCEPT !.current = op[t].cue]
          /\ Become(t, [op[t] EXCEPT !.pc = "delay", !.left = Actions])
          /\ executions' = executions
      BY <1>7 DEF AdvanceCue
    <2>2. Moved(t) /\ op'[t].pc = "delay" /\ op'[t].exec = op[t].exec
      <3>1. Actions \in 0..Actions
        BY RuntimeControlAssumption
      <3> QED
        BY <1>1, <2>1, <3>1, AdvancedEffect
    <2>3. session'.current = executions[i].cue
      BY <1>1, <1>2, <2>1 DEF RowsOK
    <2>4. OrderOK(t)'
      BY <1>1, <1>2, <1>4, <2>1, <2>2, <2>3 DEF OrderOK, Moved
    <2> QED
      BY <1>1, <1>2, <1>4, <2>1, <2>2, <2>3, <2>4, OrderMoves
  <1> QED
    BY <1>5, <1>6, <1>7

\* What every other step of a handler does to the list and to the Session.
LEMMA CurrentMoves ==
  ASSUME TypeInv, OrderInv, NEW t \in Threads, GoStep(t) \/ StopStep(t),
         ~SelectCue(t), ~LaunchCue(t), ~AdvanceCue(t)
  PROVE  /\ advance' = advance /\ session'.current = session.current
         /\ Len(executions') = Len(executions)
         /\ \A j \in DOMAIN executions : executions'[j].cue = executions[j].cue
  <1>1. RowsOK /\ OrderOK(t) /\ Placed(op[t])
    BY TypeParts DEF TypeInv, OrderInv
  <1>2. CASE FinishCue(t)
    <2> DEFINE i == op[t].exec
    <2>1. i \in DOMAIN executions /\ op[t].pc = "finishCue" /\ advance' = advance
      BY <1>1, <1>2 DEF FinishCue, Placed, Launched, volatile
    <2>2. CASE executions' = executions /\ session' = session
      BY <2>1, <2>2
    <2>3. CASE /\ executions' = [executions EXCEPT ![i].result = op[t].result]
               /\ session' = [session EXCEPT !.current = Progress(i, op[t].result)]
      <3>1. Progress(i, op[t].result) = session.current
        BY <1>1, <2>1 DEF OrderOK, Progress
      <3>2. session'.current = session.current
        BY <1>1, <2>3, <3>1 DEF RowsOK
      <3> QED
        BY <1>1, <2>1, <2>3, <3>2, EndedCue DEF RowsOK
    <2> QED
      BY <1>2, <2>2, <2>3 DEF FinishCue
  <1>3. CASE Latch(t) \/ Unlatch(t) \/ EndSession(t)
    BY <1>1, <1>3 DEF Latch, Unlatch, EndSession, RowsOK, volatile
  <1>4. CASE Admit(t) \/ Reserve(t) \/ StartBranch(t) \/ Dispatch(t) \/ ActionEnds(t)
             \/ FinishCommand(t)
    BY <1>4 DEF Admit, Reserve, StartBranch, Dispatch, ActionEnds, FinishCommand,
       rows, volatile
  <1>5. CASE ReserveStop(t) \/ ReadLatch(t) \/ Fence(t) \/ Snapshot(t) \/ Interrupt(t)
             \/ StopConfirmed(t) \/ StopTimesOut(t) \/ Safety(t) \/ ApplyClear(t)
             \/ FinishStop(t)
    BY <1>5 DEF ReserveStop, ReadLatch, Fence, Snapshot, Interrupt, StopConfirmed,
      StopTimesOut, Safety, ApplyClear, FinishStop, rows, volatile
  <1> QED
    BY <1>2, <1>3, <1>4, <1>5 DEF GoStep, StopStep, Launching

\* A run that is under way goes on with its row, and nothing else begins one.
LEMMA RunMoves ==
  ASSUME TypeInv, NEW t \in Threads, GoStep(t) \/ StopStep(t),
         ~SelectCue(t), ~LaunchCue(t), ~AdvanceCue(t)
  PROVE  /\ op[t].pc \notin {"launch", "advance"} /\ op'[t].pc \notin {"launch", "advance"}
         /\ op'[t].kind \in {op[t].kind, "none"}
         /\ op'[t].pc \in {"delay", "dispatch", "acting", "finishCue"} =>
              /\ op[t].pc \in {"delay", "dispatch", "acting", "finishCue"}
              /\ op'[t].exec = op[t].exec
  <1> DEFINE Good == /\ op'[t].pc \notin {"launch", "advance"}
                     /\ op'[t].kind \in {op[t].kind, "none"}
                     /\ op'[t].pc \in {"delay", "dispatch", "acting", "finishCue"} =>
                          /\ op[t].pc \in {"delay", "dispatch", "acting", "finishCue"}
                          /\ op'[t].exec = op[t].exec
  <1>1. Typed /\ Placed(op[t])
    BY TypeParts DEF TypeInv
  <1>2. op[t].pc \notin {"launch", "advance"}
    BY DEF GoStep, StopStep, Launching, Admit, Reserve, StartBranch, Dispatch, ActionEnds,
      FinishCue, FinishCommand, ReserveStop, ReadLatch, Fence, Latch, Snapshot, Interrupt,
      StopConfirmed, StopTimesOut, Safety, ApplyClear, Unlatch, EndSession, FinishStop
  <1>3. ASSUME op'[t] = Idle PROVE Good
    BY <1>3 DEF Idle
  <1>4. CASE StopStep(t)
    <2>1. CASE Moved(t) /\ op'[t].pc \in StopPhases
      BY <1>2, <2>1 DEF Moved, StopPhases
    <2>2. CASE Become(t, Idle)
      BY <1>1, <1>2, <1>3, <2>2, Moves, IdleHandler
    <2> QED
      BY <1>4, <2>1, <2>2, StopMoves
  <1>5. CASE Admit(t) \/ Reserve(t) \/ FinishCommand(t)
    <2>1. CASE Goto(t, "reserve") \/ Goto(t, "select")
      BY <1>1, <1>2, <2>1, GotoEffect DEF Phases, Moved
    <2>2. CASE Become(t, Idle) \/ Leave(t)
      BY <1>1, <1>2, <1>3, <2>2, Moves, LeaveEffect, IdleHandler
    <2> QED
      BY <1>5, <2>1, <2>2 DEF Admit, Reserve, FinishCommand
  <1>6. CASE StartBranch(t) \/ Dispatch(t) \/ ActionEnds(t) \/ FinishCue(t)
    <2>1. op[t].pc \in {"delay", "dispatch", "acting", "finishCue"} /\ op[t].left \in 0..Actions
      BY <1>1, <1>6 DEF StartBranch, Dispatch, ActionEnds, FinishCue, Typed, Handlers
    <2>2. ASSUME NEW p \in {"dispatch", "acting", "finish"}, Goto(t, p) PROVE Good
      BY <1>1, <2>1, <2>2, GotoEffect DEF Phases, Engaged, Moved, SameRun
    <2>3. ASSUME NEW p \in {"finishCue", "finish"}, NEW r \in Terminal, Conclude(t, p, r) PROVE Good
      BY <1>1, <2>1, <2>3, ConcludeEffect DEF Phases, Engaged, Moved, SameRun
    <2>4. ASSUME NEW r \in Terminal, ActionDone(t, r), op[t].pc \in {"dispatch", "acting"}
          PROVE  Good
      <3>1. CASE Conclude(t, "finishCue", r)
        BY <2>3, <3>1
      <3>2. CASE Become(t, [op[t] EXCEPT !.left = @ - 1,
                              !.pc = IF op[t].left > 1 THEN "dispatch" ELSE "finishCue"])
        <4>1. PICK p \in {"dispatch", "finishCue"} :
                p = IF op[t].left > 1 THEN "dispatch" ELSE "finishCue"
          OBVIOUS
        <4>2. PICK n \in 0..Actions : n = op[t].left - 1
          BY <1>1, <2>1, <2>4, RuntimeControlAssumption DEF Placed
        <4>3. Become(t, [op[t] EXCEPT !.left = n, !.pc = p]) /\ p \in Phases
          BY <3>2, <4>1, <4>2 DEF Phases, Engaged
        <4>4. Moved(t) /\ op'[t].exec = op[t].exec /\ op'[t].pc = p
          BY <1>1, <4>3, ActionEffect
        <4> QED
          BY <2>1, <4>1, <4>4 DEF Moved
      <3> QED
        BY <2>4, <3>1, <3>2 DEF ActionDone
    <2> USE DEF Terminal
    <2>5. CASE StartBranch(t)
      BY <1>2, <2>2, <2>3, <2>5 DEF StartBranch
    <2>6. CASE Dispatch(t)
      BY <1>2, <2>2, <2>3, <2>4, <2>6 DEF Dispatch
    <2>7. CASE ActionEnds(t)
      BY <1>2, <2>3, <2>4, <2>7 DEF ActionEnds
    <2>8. CASE FinishCue(t)
      BY <1>2, <2>2, <2>3, <2>8 DEF FinishCue
    <2> QED
      BY <1>6, <2>5, <2>6, <2>7, <2>8
  <1> QED
    BY <1>4, <1>5, <1>6 DEF GoStep, Launching

LEMMA OrderOther ==
  ASSUME TypeInv, OrderInv, NEW t \in Threads, GoStep(t) \/ StopStep(t),
         ~SelectCue(t), ~LaunchCue(t), ~AdvanceCue(t)
  PROVE  OrderInv'
  <1>1. Only(t) /\ OrderOK(t) /\ Placed(op[t]) /\ \A u \in Threads \ {t} : Kept(op'[u], op[u])
    BY StepOnly, StepKept DEF TypeInv, OrderInv
  <1>2. op[t].pc \in Launched => op[t].exec \in DOMAIN executions
    BY <1>1 DEF Placed
  <1>3. OrderOK(t)'
    BY <1>1, <1>2, CurrentMoves, RunMoves DEF OrderOK, Launched
  <1> QED
    BY <1>1, <1>3, CurrentMoves, OrderMoves

LEMMA OrderStep ==
  ASSUME OperatorEngine, TypeInv, OrderInv, [Next]_vars
  PROVE  OrderInv'
  <1>1. Typed /\ RowsOK
    BY TypeParts DEF TypeInv
  <1>2. CASE UNCHANGED vars
    BY <1>2 DEF vars, rows, volatile, OrderInv, OrderOK, NextCue
  <1>3. ASSUME NEW t \in Threads, NEW r \in Requests,
               RequestGo(t, r) \/ RequestTimecode(t, r) \/ RequestStop(t, r)
        PROVE  OrderInv'
    <2>1. Begun(t, r, "admit") \/ Begun(t, r, "reserveStop")
      BY <1>1, <1>3, GoEffect, StopEffect DEF RowsOK, OperatorEngine, RequestTimecode
    <2>2. /\ UNCHANGED <<rows, volatile>> /\ op[t].pc = "idle"
          /\ \A u \in Threads \ {t} : op'[u] = op[u]
      BY <1>1, <1>3 DEF RequestGo, RequestTimecode, RequestStop, Become, Typed
    <2>3. OrderOK(t)'
      BY <2>1, <2>2 DEF Begun, OperatorEngine, OrderInv, OrderOK, volatile
    <2> QED
      BY <2>1, <2>2, <2>3, OrderMoves DEF Begun, rows, volatile, Kept
  <1>4. ASSUME NEW t \in Threads, Disconnect(t)
        PROVE  OrderInv'
    <2>1. /\ Moved(t) /\ SameRun(t) /\ op'[t].pc = op[t].pc
          /\ UNCHANGED <<rows, volatile>>
      BY <1>1, <1>4, GoneEffect DEF Disconnect
    <2>2. ASSUME NEW o \in Handlers PROVE LET s == [o EXCEPT !.gone = TRUE]
                                          IN  s.want = o.want /\ s.expect = o.expect
      BY DEF Handlers
    <2>3. /\ op'[t].want = op[t].want /\ op'[t].expect = op[t].expect
          /\ \A u \in Threads \ {t} : op'[u] = op[u]
      BY <1>1, <1>4, <2>2 DEF Disconnect, Become, Typed
    <2>4. OrderOK(t)'
      BY <2>1, <2>3 DEF OrderInv, OrderOK, Moved, SameRun, NextCue, rows, volatile
    <2> QED
      BY <2>1, <2>3, <2>4, OrderMoves DEF Moved, Kept, rows, volatile
  <1>5. CASE Restart
    <2>1. ASSUME NEW t \in Threads PROVE OrderOK(t)'
      BY <1>5, RuntimeControlAssumption DEF Restart, Idle, OrderOK
    <2> QED
      BY <2>1 DEF OrderInv
  <1> QED
    BY <1>2, <1>3, <1>4, <1>5, OrderSelect, OrderLaunch, OrderAdvance, OrderOther
    DEF Next

LEMMA LastStep ==
  ASSUME ~MayDisconnect, ~MayCrash, TypeInv, OrderInv, LastOK, [Next]_vars
  PROVE  LastOK'
  <1>1. Typed /\ RowsOK
    BY TypeParts DEF TypeInv
  <1>2. CASE UNCHANGED vars
    BY <1>2 DEF vars, rows, LastOK
  <1>3. ASSUME NEW t \in Threads, NEW r \in Requests,
               RequestGo(t, r) \/ RequestTimecode(t, r) \/ RequestStop(t, r)
        PROVE  LastOK'
    <2>1. /\ UNCHANGED rows /\ op[t].pc = "idle"
          /\ \A u \in Threads \ {t} : op'[u] = op[u]
      BY <1>1, <1>3 DEF RequestGo, RequestTimecode, RequestStop, Become, Typed
    <2>2. ~op'[t].gone
      BY <1>1, <1>3 DEF RequestGo, RequestTimecode, RequestStop, Become, Typed, Begin,
         Idle
    <2> QED
      BY <2>1, <2>2 DEF LastOK, rows
  <1>4. ASSUME NEW t \in Threads, GoStep(t) \/ StopStep(t)
        PROVE  LastOK'
    <2>1. \A u \in Threads : ~op'[u].gone
      BY <1>4, StepKept DEF LastOK, Kept, Idle
    <2>2. Only(t) /\ executions \in Seq(Executions)
      BY <1>1, <1>4, StepOnly DEF RowsOK
    <2>3. CASE SelectCue(t)
      <3>1. session' = session /\ executions' = executions /\ op[t].pc = "select"
        BY <2>3 DEF SelectCue, rows
      <3> QED
        BY <2>1, <2>2, <3>1 DEF LastOK, Only, Like
    <2>4. CASE LaunchCue(t)
      BY <2>1, <2>4, OrderLaunch DEF LastOK
    <2>5. CASE AdvanceCue(t)
      BY <2>1, <2>5, OrderAdvance DEF LastOK
    <2>6. CASE ~SelectCue(t) /\ ~LaunchCue(t) /\ ~AdvanceCue(t)
      <3>1. /\ session'.current = session.current
            /\ Len(executions') = Len(executions)
            /\ \A j \in DOMAIN executions : executions'[j].cue = executions[j].cue
            /\ op[t].pc # "advance" /\ op'[t].pc # "advance"
        BY <1>4, <2>6, CurrentMoves, RunMoves
      <3>2. (\A u \in Threads : op'[u].pc # "advance") => \A u \in Threads : op[u].pc # "advance"
        BY <2>2, <3>1 DEF Only, Like
      <3>3. executions' # << >> => executions # << >> /\ Len(executions) \in DOMAIN executions
        BY <2>2, <3>1
      <3> QED
        BY <2>1, <3>1, <3>2, <3>3 DEF LastOK
    <2> QED
      BY <2>3, <2>4, <2>5, <2>6
  <1> QED
    BY <1>2, <1>3, <1>4 DEF Next, Disconnect, Restart

\* A Cue about to be launched is still the next one, or the one asked for by name,
\* after the Cue that its operator saw.
LaunchIsDue ==
  \A t \in Threads : op[t].pc = "launch" =>
    /\ op[t].want = 0 => op[t].cue = NextCue
    /\ op[t].expect \in {-1, session.current}

\* While timecode launches nothing, overlapping GO requests never launch the same
\* next Cue, whoever leaves and however often the Hub restarts (advanceMu,
\* executeReserved).
THEOREM LaunchDue ==
  ASSUME OperatorEngine
  PROVE  Spec => []LaunchIsDue
  <1>1. OrderInv => LaunchIsDue
    BY DEF OrderInv, OrderOK, LaunchIsDue
  <1> QED
    BY <1>1, TypeInit, TypeStep, OrderInit, OrderStep, PTL DEF Spec

\* If no client leaves in the middle of a launch either, and the Hub stays up, the
\* current Cue is the one launched last whenever no launch is under way: the end of
\* an older Cue never takes the Session back (session_foundation_advance_progress).
THEOREM CuesInOrder ==
  ASSUME OperatorEngine, ~MayDisconnect, ~MayCrash
  PROVE  Spec => []CuesRunInOrder
  <1>1. OrderInv /\ LastOK => CuesRunInOrder
    BY RuntimeControlAssumption DEF OrderInv, OrderOK, LastOK, CuesRunInOrder
  <1> QED
    BY <1>1, TypeInit, TypeStep, OrderInit, OrderStep, LastStep, PTL DEF Spec
=============================================================================
