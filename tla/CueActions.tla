------------------------------ MODULE CueActions ------------------------------
(***************************************************************************)
(* One launched Cue (internal/cueengine: group.go, executeActions,         *)
(* startAction, runAction; internal/cuegroup): the Cue and the Cues linked *)
(* to it run at once, each in a goroutine of its own that starts its       *)
(* Actions in order, some without waiting for the one before.              *)
(*                                                                         *)
(* Events are left out; a write that fails is a fault.  RuntimeControl has *)
(* the launches and the stops of Cues, each a sequence of Actions, and the *)
(* client that leaves.                                                     *)
(***************************************************************************)
EXTENDS Integers, Sequences, FiniteSets, Relation

CONSTANTS
  ShowCues,    \* of the Runtime Snapshot
  CueOn,       \* Cue -> it is enabled
  RootCue,     \* the Cue that is launched
  Linking,     \* links a revision may have: functions from Cues to sets of them
  Actions,     \* Cue -> sequence of [mode, strict]: strict fails the Cue
  MaxErrors    \* bound: writes that fail

ASSUME CueAssumption ==
  /\ RootCue \in ShowCues /\ CueOn \in [ShowCues -> BOOLEAN]
  /\ Linking \subseteq [ShowCues -> SUBSET ShowCues]
  /\ \A c \in ShowCues : Actions[c] \in
       Seq([mode : {"SEQUENTIAL", "PARALLEL", "PARALLEL_BARRIER"}, strict : BOOLEAN])
  /\ MaxErrors \in Nat

VARIABLES
  group,     \* the Cues that run
  branch,    \* Cue of the group -> its goroutine
  acts,      \* Cue -> Action -> its execution
  stop,      \* STOP reached the Cue
  gathered,  \* branches whose result was read
  outcome,   \* the Cue execution: "RUNNING" or its result
  failedAt,  \* the group has returned an error
  errors

cueVars == <<group, branch, acts, stop, gathered, outcome, failedAt, errors>>

Results == {"COMPLETED", "CANCELLED", "TIMED_OUT", "FAILED"}
Rank(r) == CASE r = "COMPLETED" -> 0 [] r = "CANCELLED" -> 1 [] r = "TIMED_OUT" -> 2
             [] r = "FAILED" -> 3

\* The Cues that hang on c, at any depth.
Links(f) == [x, y \in ShowCues |-> y \in f[x]]
Below(f, c) == {d \in ShowCues : TransitiveClosure(Links(f), ShowCues)[c, d]}

\* What a published revision may link: enabled Cues, of one parent each, with
\* no cycle.
Validate(f) ==
  /\ \A c \in ShowCues : f[c] # {} => CueOn[c]
  /\ \A c \in ShowCues : \A d \in f[c] : CueOn[d] /\ \A p \in ShowCues : d \in f[p] => p = c
  /\ \A c \in ShowCues : c \notin Below(f, c)

\* What may run with the launched Cue.
Groups == {{RootCue} \cup Below(f, RootCue) : f \in {f \in Linking : Validate(f)}}

NoExecution == [pc |-> "none", result |-> "COMPLETED", fatal |-> FALSE, failed |-> FALSE]
NoBranch == [pc |-> "delay", next |-> 1, pending |-> <<>>, final |-> "COMPLETED",
             after |-> "COMPLETED", result |-> "COMPLETED", failed |-> FALSE]

CueInit ==
  /\ group \in Groups
  /\ branch = [c \in ShowCues |-> NoBranch]
  /\ acts = [c \in ShowCues |-> [i \in DOMAIN Actions[c] |-> NoExecution]]
  /\ stop = FALSE /\ gathered = {} /\ outcome = "RUNNING" /\ failedAt = FALSE /\ errors = 0

\* Of the branches, only the one of c moves.
Moves(c, b) == branch' = [branch EXCEPT ![c] = b]
Ended(b, r) == [b EXCEPT !.pc = "ended", !.result = r]
Broken(b) == [b EXCEPT !.pc = "ended", !.result = "FAILED", !.failed = TRUE]
WriteFails == errors < MaxErrors /\ errors' = errors + 1

-----------------------------------------------------------------------------
(* A branch.                                                               *)

\* The start delay is over, if there is one; a STOP in it, or at the start, ends
\* the branch.
BeginBranch(c) ==
  /\ c \in group /\ branch[c].pc = "delay"
  /\ Moves(c, IF stop THEN Ended(branch[c], "CANCELLED") ELSE [branch[c] EXCEPT !.pc = "next"])
  /\ UNCHANGED <<group, acts, stop, gathered, outcome, failedAt, errors>>

Reached(c) == Actions[c][branch[c].next]

\* The execution's row is written and the executor called.
StartAction(c) ==
  LET b == branch[c] IN
  /\ b.pc = "next" /\ b.next <= Len(Actions[c])
  /\ acts' = [acts EXCEPT ![c][b.next].pc = "running"]
  /\ Moves(c, IF Reached(c).mode = "SEQUENTIAL" THEN [b EXCEPT !.pc = "await"]
              ELSE [b EXCEPT !.pending = Append(@, b.next), !.next = @ + 1,
                             !.pc = IF Reached(c).mode = "PARALLEL" THEN "next" ELSE "drain"])
  /\ UNCHANGED <<group, stop, gathered, outcome, failedAt, errors>>

\* The row, or its event, is not written; or the mode is unknown, which is told
\* only when the Action is reached.  The branch leaves what it has started.
StartFails(c) ==
  /\ branch[c].pc = "next" /\ branch[c].next <= Len(Actions[c]) /\ WriteFails
  /\ Moves(c, Broken(branch[c]))
  /\ UNCHANGED <<group, acts, stop, gathered, outcome, failedAt>>

\* The outcome of a sequential Action: a fatal one ends the branch, after the
\* Actions it has running.
ReadSequential(c) ==
  LET b == branch[c]
      e == acts[c][b.next]
  IN  /\ b.pc = "await" /\ e.pc = "done"
      /\ Moves(c, IF e.failed THEN Broken(b)
                  ELSE IF e.fatal THEN [b EXCEPT !.pc = "drain", !.after = e.result]
                  ELSE [b EXCEPT !.pc = "next", !.next = @ + 1])
      /\ UNCHANGED <<group, acts, stop, gathered, outcome, failedAt, errors>>

\* Faulty variant: the branch ends with its last Action, whatever still runs.
EndActionsAtOnce(c) ==
  /\ branch[c].pc = "next" /\ branch[c].next > Len(Actions[c])
  /\ Moves(c, Ended(branch[c], "COMPLETED"))
  /\ UNCHANGED <<group, acts, stop, gathered, outcome, failedAt, errors>>

EndActions(c) ==
  /\ branch[c].pc = "next" /\ branch[c].next > Len(Actions[c])
  /\ Moves(c, [branch[c] EXCEPT !.pc = "drain", !.next = @ + 1])
  /\ UNCHANGED <<group, acts, stop, gathered, outcome, failedAt, errors>>

\* waitPending reads the outcomes in the order of the starts, and an error ends
\* it; the first fatal result is kept.
ReadPending(c) ==
  LET b == branch[c]
      e == acts[c][Head(b.pending)]
  IN  /\ b.pc = "drain" /\ b.pending # <<>> /\ e.pc = "done"
      /\ Moves(c, IF e.failed THEN Broken(b)
                  ELSE [b EXCEPT !.pending = Tail(@),
                                 !.final = IF e.fatal /\ @ = "COMPLETED" THEN e.result ELSE @])
      /\ UNCHANGED <<group, acts, stop, gathered, outcome, failedAt, errors>>

\* A barrier that nothing failed is passed; any other wait was the last.
Drained(c) ==
  LET b == branch[c] IN
  /\ b.pc = "drain" /\ b.pending = <<>>
  /\ Moves(c, IF b.after # "COMPLETED" THEN Ended(b, b.after)
              ELSE IF b.final # "COMPLETED" \/ b.next > Len(Actions[c]) + 1
              THEN Ended(b, b.final)
              ELSE [b EXCEPT !.pc = "next"])
  /\ UNCHANGED <<group, acts, stop, gathered, outcome, failedAt, errors>>

-----------------------------------------------------------------------------
(* An Action.                                                              *)

\* The executor answers; after STOP it cancels what it holds.
Answer(c, i, r) ==
  /\ acts[c][i].pc = "running" /\ (r = "CANCELLED" => stop)
  /\ acts' = [acts EXCEPT ![c][i] =
       [pc |-> "done", result |-> r, failed |-> FALSE,
        fatal |-> r = "CANCELLED" \/ (r # "COMPLETED" /\ Actions[c][i].strict)]]
  /\ UNCHANGED <<group, branch, stop, gathered, outcome, failedAt, errors>>

\* Its result is not written, or its error policy is unknown.
AnswerFails(c, i) ==
  /\ acts[c][i].pc = "running" /\ WriteFails
  /\ acts' = [acts EXCEPT ![c][i] =
       [pc |-> "done", result |-> "FAILED", fatal |-> TRUE, failed |-> TRUE]]
  /\ UNCHANGED <<group, branch, stop, gathered, outcome, failedAt>>

-----------------------------------------------------------------------------
(* The Cue.                                                                *)

\* The branches' results are read as they come; an error ends the Cue at once,
\* and the last one ends it with the worst of them.
Gather(c) ==
  /\ c \in group \ gathered /\ branch[c].pc = "ended" /\ outcome = "RUNNING"
  /\ gathered' = gathered \cup {c}
  /\ failedAt' = branch[c].failed
  /\ outcome' = IF branch[c].failed THEN "FAILED"
                ELSE IF gathered' # group THEN "RUNNING"
                ELSE CHOOSE r \in {branch[d].result : d \in group} :
                       \A d \in group : Rank(branch[d].result) <= Rank(r)
  /\ UNCHANGED <<group, branch, acts, stop, errors>>

\* STOP reaches the Cue while RuntimeControl follows it.
StopGroup ==
  /\ outcome = "RUNNING" /\ ~stop
  /\ stop' = TRUE
  /\ UNCHANGED <<group, branch, acts, gathered, outcome, failedAt, errors>>

CueNext ==
  \/ \E c \in ShowCues :
       \/ BeginBranch(c) \/ StartAction(c) \/ StartFails(c) \/ ReadSequential(c)
       \/ EndActions(c) \/ ReadPending(c) \/ Drained(c) \/ Gather(c)
       \/ \E i \in DOMAIN Actions[c] :
            AnswerFails(c, i) \/ \E r \in Results : Answer(c, i, r)
  \/ StopGroup

CueSpec == CueInit /\ [][CueNext]_cueVars

-----------------------------------------------------------------------------

CueTypeOK ==
  /\ \A c \in ShowCues : branch[c].pc \in {"delay", "next", "await", "drain", "ended"}
  /\ \A c \in ShowCues : \A i \in DOMAIN Actions[c] : acts[c][i].pc \in {"none", "running", "done"}
  /\ outcome \in Results \cup {"RUNNING"} /\ gathered \subseteq group

Launched(c) == {i \in DOMAIN Actions[c] : acts[c][i].pc # "none"}
Fatal(c, i) == acts[c][i].pc = "done" /\ acts[c][i].fatal

(* A Cue that has ended, other than by an error of its own, has nothing      *)
(* running, and its result is what its Actions did: COMPLETED if each of     *)
(* them was started and none failed that fails its Cue, and otherwise the    *)
(* result of one that does or of a STOP.  And no Action starts before those  *)
(* that it waits for, or after one of them has failed its Cue (executeCue-   *)
(* group, executeActions, waitPending).                                      *)
CueEndsWhole ==
  /\ outcome # "RUNNING" /\ ~failedAt =>
       /\ \A c \in group : \A i \in Launched(c) : acts[c][i].pc = "done"
       /\ outcome = "COMPLETED" =>
            \A c \in group : Launched(c) = DOMAIN Actions[c] /\ \A i \in Launched(c) : ~Fatal(c, i)
       /\ outcome # "COMPLETED" =>
            stop \/ \E c \in group : \E i \in Launched(c) :
                      Fatal(c, i) /\ acts[c][i].result = outcome
  /\ \A c \in ShowCues : \A i \in Launched(c) : \A j \in 1..(i - 1) :
       /\ Actions[c][j].mode = "SEQUENTIAL" => acts[c][j].pc = "done" /\ ~Fatal(c, j)
       /\ Actions[c][j].mode = "PARALLEL_BARRIER" =>
            \A k \in 1..j : acts[c][k].pc = "done" /\ ~Fatal(c, k)
=============================================================================
