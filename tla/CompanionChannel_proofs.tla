----------------------- MODULE CompanionChannel_proofs -----------------------
(***************************************************************************)
(* Proofs about CompanionChannel, for any number of executions, calls and  *)
(* sockets, and whatever the calls ask for.                                *)
(***************************************************************************)
EXTENDS CompanionChannel, TLAPS

Results == Outcomes \cup {"none"}
Message == [execution : Executions, outcome : Outcomes]

CallRow == [step : {"idle", "begun", "waiting", "joined", "done"},
            wire : 0..MaxWire, follows : Callers \cup {Nobody}, answer : Results]
EntryRow == [wire : 0..MaxWire, result : Results]

CallTyped == call \in [Callers -> CallRow]
EntryTyped == entry \in [Callers -> EntryRow]
HeldTyped ==
  /\ held \in [Executions -> Callers \cup {Nobody}]
  /\ order \in Seq(Executions)
  /\ forgotten \subseteq Executions
WiresTyped ==
  /\ here \in 0..last /\ line \in 0..last /\ last \in 0..MaxWire
  /\ present \in BOOLEAN
  /\ serving \in [Wires -> [step : {"none", "accepted", "reading", "over"}, displaced : 0..MaxWire]]
MessagesTyped == inbox \in Seq(Executions) /\ results \in [Wires -> Seq(Message)]
CompanionTyped ==
  /\ working \in {NotWorking} \cup [execution : Executions, wire : 0..MaxWire]
  /\ executed \in [Executions -> Nat]

(* Who follows an entry follows one for what it asks for itself, and the   *)
(* call that created an entry follows it.                                  *)
CallsOK ==
  \A c \in Callers :
    /\ call[c].step = "idle" => call[c].follows = Nobody
    /\ call[c].step \in {"begun", "waiting"} => call[c].follows = c
    /\ call[c].step = "joined" => call[c].follows # Nobody
    /\ call[c].follows # Nobody =>
         call[call[c].follows].follows = call[c].follows /\ Asks[call[c].follows] = Asks[c]

(* The entry that holds an id is one for it, and as long as the Hub has not *)
(* forgotten the id, all who asked for it follow that entry.                *)
HeldOK ==
  /\ \A e \in Executions : held[e] # Nobody =>
       Asks[held[e]] = e /\ call[held[e]].follows = held[e]
  /\ \A c \in Callers : call[c].follows # Nobody /\ Asks[c] \notin forgotten =>
       held[Asks[c]] = call[c].follows

(* What is asked for is asked for once, before it is executed, by the call  *)
(* that created the entry, until the Hub has forgotten the id.              *)
Asked(e) == \E i \in DOMAIN inbox : inbox[i] = e
Fresh(e) == executed[e] = 0 /\ ~Asked(e)
AskedOnce ==
  \A e \in Executions \ forgotten :
    /\ held[e] = Nobody => Fresh(e)
    /\ \A c \in Callers : call[c].step = "begun" /\ Asks[c] = e => Fresh(e)
    /\ executed[e] = 0 \/ (executed[e] = 1 /\ ~Asked(e))
    /\ \A i, j \in DOMAIN inbox : inbox[i] = e /\ inbox[j] = e => i = j

(* The guard of a Companion that was not relaunched knows what it began.    *)
GuardOK ==
  ~relaunched => \A e \in Executions :
    executed[e] = 0 \/ (executed[e] = 1 /\ (e \in terminal \/ working.execution = e))

(* A call that is done has the verdict of its entry.                        *)
AnswersOK ==
  \A c \in Callers : call[c].step = "done" /\ call[c].follows # Nobody =>
    \/ call[c].answer = "CANCELLED"
    \/ Asks[c] \in forgotten
    \/ call[c].answer # "none" /\ entry[call[c].follows].result = call[c].answer

Typed ==
  CallTyped /\ EntryTyped /\ HeldTyped /\ WiresTyped /\ MessagesTyped /\ CompanionTyped

ChannelInv ==
  /\ Typed
  /\ CallsOK /\ HeldOK /\ AskedOnce /\ GuardOK /\ AnswersOK
  /\ PresenceIsTrue

-----------------------------------------------------------------------------
(* The operators of the channel.                                           *)

LEMMA AnsweredCalls ==
  ASSUME CallTyped, NEW c \in Callers, NEW answer \in Results, Answered(c, answer)
  PROVE  /\ CallTyped'
         /\ call'[c].step = "done" /\ call'[c].answer = answer
         /\ \A d \in Callers : call'[d].follows = call[d].follows
         /\ \A d \in Callers \ {c} : call'[d] = call[d]
<1> DEFINE row == [step |-> "done", wire |-> 0, follows |-> call[c].follows, answer |-> answer]
<1>1. call[c] \in CallRow
  BY DEF CallTyped
<1>2. row \in CallRow
  BY <1>1, ChannelAssumption DEF CallRow
<1>3. call' = [call EXCEPT ![c] = row]
  <2>1. call'[c] = row /\ \A d \in Callers \ {c} : call'[d] = call[d]
    BY DEF CallTyped, CallRow, Answered
  <2>2. call' \in [Callers -> {call'[d] : d \in Callers}]
    BY DEF CallTyped, Answered
  <2> QED
    BY <2>1, <2>2 DEF CallTyped
<1> QED
  BY <1>2, <1>3 DEF CallTyped

LEMMA InterruptedEntries ==
  ASSUME EntryTyped, NEW g
  PROVE  /\ Interrupted(g) \in [Callers -> EntryRow]
         /\ \A c \in Callers : entry[c].result # "none" => Interrupted(g)[c] = entry[c]
  BY DEF EntryTyped, EntryRow, Results, Outcomes, Interrupted

LEMMA FinishedEntries ==
  ASSUME HeldTyped, NEW entries \in [Callers -> EntryRow],
         NEW e \in Executions, NEW result \in Outcomes
  PROVE  /\ Finished(entries, e, result) \in [Callers -> EntryRow]
         /\ \A c \in Callers :
              entries[c].result # "none" => Finished(entries, e, result)[c] = entries[c]
         /\ held[e] # Nobody => Finished(entries, e, result)[held[e]].result # "none"
  BY DEF HeldTyped, EntryRow, Results, Outcomes, Finished

LEMMA VerdictTyped ==
  ASSUME HeldTyped, NEW entries \in [Callers -> EntryRow],
         NEW e \in Executions, NEW result \in Outcomes
  PROVE  Verdict(entries, e, result) \in Results
  BY DEF HeldTyped, EntryRow, Results, Verdict

LEMMA ReplyTyped ==
  ASSUME MessagesTyped, NEW g \in 0..MaxWire, NEW e \in Executions, NEW outcome \in Outcomes,
         Reply(g, e, outcome)
  PROVE  (results \in [Wires -> Seq(Message)])'
<1>1. [execution |-> e, outcome |-> outcome] \in Message
  BY DEF Message
<1>2. ASSUME NEW wire \in Wires
      PROVE  Append(results[wire], [execution |-> e, outcome |-> outcome]) \in Seq(Message)
  BY <1>1 DEF MessagesTyped
<1> QED
  BY <1>2 DEF MessagesTyped, Reply

LEMMA ShutTyped ==
  ASSUME WiresTyped, MessagesTyped, NEW g, Shut(g)
  PROVE  /\ here' \in 0..last /\ present' \in BOOLEAN
         /\ (results \in [Wires -> Seq(Message)])'
<1>1. here' \in 0..last
  BY DEF WiresTyped, Shut
<1>2. present' \in BOOLEAN
  BY DEF Shut
<1>3. (results \in [Wires -> Seq(Message)])'
  <2>1. <<>> \in Seq(Message)
    OBVIOUS
  <2> QED
    BY <2>1 DEF MessagesTyped, Shut
<1> QED
  BY <1>1, <1>2, <1>3

(* A call of Execute joins an entry, finds no room, or creates an entry, for *)
(* which some are forgotten.                                               *)
LEMMA ExecuteMoves ==
  ASSUME ChannelInv, NEW c \in Callers, Execute(c)
  PROVE  /\ CallTyped' /\ call[c].step = "idle" /\ Asks[c] \in Executions
         /\ \A d \in Callers \ {c} : call'[d] = call[d]
         /\ \/ /\ call'[c].step = "joined" /\ call'[c].follows = held[Asks[c]]
               /\ held[Asks[c]] \in Callers
               /\ UNCHANGED <<entry, held, order, forgotten>>
            \/ /\ call'[c].step = "done" /\ call'[c].follows = Nobody
               /\ UNCHANGED <<entry, held, order, forgotten>>
            \/ \E gone \in SUBSET Executions :
                 /\ call'[c].step = "begun" /\ call'[c].follows = c
                 /\ held[Asks[c]] = Nobody
                 /\ held' = [x \in Executions |-> IF x = Asks[c] THEN c
                                               ELSE IF x \in gone THEN Nobody ELSE held[x]]
                 /\ forgotten' = forgotten \cup gone
                 /\ order' \in Seq(Executions)
                 /\ entry' = [entry EXCEPT ![c] = [wire |-> here, result |-> "none"]]
<1>1. /\ call[c] \in CallRow /\ call[c].step = "idle" /\ Asks[c] \in Executions
      /\ held[Asks[c]] \in Callers \cup {Nobody} /\ here \in 0..MaxWire
      /\ call[c].follows = Nobody
  BY ChannelAssumption DEF ChannelInv, Typed, CallTyped, HeldTyped, WiresTyped, CallsOK,
     Execute
<1>2. CASE /\ held[Asks[c]] # Nobody
           /\ call' = [call EXCEPT ![c].step = "joined", ![c].follows = held[Asks[c]]]
           /\ UNCHANGED <<entry, held, order, forgotten>>
  <2> DEFINE row == [step |-> "joined", wire |-> call[c].wire, follows |-> held[Asks[c]],
                     answer |-> call[c].answer]
  <2>1. row \in CallRow
    BY <1>1 DEF CallRow
  <2>2. call'[c] = row /\ \A d \in Callers \ {c} : call'[d] = call[d]
    BY <1>2 DEF ChannelInv, Typed, CallTyped, CallRow
  <2>3. call' \in [Callers -> {call'[d] : d \in Callers}]
    BY <1>2 DEF ChannelInv, Typed, CallTyped
  <2>4. CallTyped'
    BY <2>1, <2>2, <2>3 DEF ChannelInv, Typed, CallTyped
  <2>5. call'[c].step = "joined" /\ call'[c].follows = held[Asks[c]]
    BY <2>2
  <2>6. held[Asks[c]] \in Callers
    BY <1>1, <1>2
  <2> QED
    BY <1>1, <1>2, <2>2, <2>4, <2>5
<1>3. CASE /\ Answered(c, "FAILED")
           /\ UNCHANGED <<entry, held, order, forgotten>>
  <2>1. "FAILED" \in Results
    BY DEF Results, Outcomes
  <2> QED
    BY <1>1, <1>3, <2>1, AnsweredCalls DEF ChannelInv, Typed
<1>4. ASSUME NEW kept \in Seq(Executions), NEW gone \in SUBSET Executions,
             held[Asks[c]] = Nobody,
             held' = [x \in Executions |-> IF x = Asks[c] THEN c
                                          ELSE IF x \in gone THEN Nobody ELSE held[x]],
             order' = Append(kept, Asks[c]),
             entry' = [entry EXCEPT ![c] = [wire |-> here, result |-> "none"]],
             call' = [call EXCEPT ![c].step = "begun", ![c].wire = here, ![c].follows = c],
             forgotten' = forgotten \cup gone
      PROVE  /\ CallTyped' /\ \A d \in Callers \ {c} : call'[d] = call[d]
             /\ call'[c].step = "begun" /\ call'[c].follows = c
             /\ order' \in Seq(Executions)
  <2> DEFINE row == [step |-> "begun", wire |-> here, follows |-> c, answer |-> call[c].answer]
  <2>1. row \in CallRow
    BY <1>1 DEF CallRow
  <2>2. call'[c] = row /\ \A d \in Callers \ {c} : call'[d] = call[d]
    BY <1>1, <1>4 DEF ChannelInv, Typed, CallTyped, CallRow
  <2>3. call' \in [Callers -> {call'[d] : d \in Callers}]
    BY <1>4 DEF ChannelInv, Typed, CallTyped
  <2>4. CallTyped'
    BY <2>1, <2>2, <2>3 DEF ChannelInv, Typed, CallTyped
  <2>5. order' \in Seq(Executions)
    BY <1>1, <1>4
  <2> QED
    BY <2>2, <2>4, <2>5
<1>5. order \in Seq(Executions)
  BY DEF ChannelInv, Typed, HeldTyped
<1>6. CASE Prunable
  <2>1. Tail(order) \in Seq(Executions) /\ {Head(order)} \in SUBSET Executions
    <3>1. order # <<>>
      BY <1>6, ChannelAssumption DEF Prunable
    <3> QED
      BY <1>5, <3>1
  <2>2. CASE /\ held[Asks[c]] = Nobody
             /\ held' = [x \in Executions |-> IF x = Asks[c] THEN c
                                          ELSE IF x \in {Head(order)} THEN Nobody ELSE held[x]]
             /\ order' = Append(Tail(order), Asks[c])
             /\ entry' = [entry EXCEPT ![c] = [wire |-> here, result |-> "none"]]
             /\ call' = [call EXCEPT ![c].step = "begun", ![c].wire = here, ![c].follows = c]
             /\ forgotten' = forgotten \cup {Head(order)}
    BY <1>1, <1>4, <2>1, <2>2
  <2> QED
    BY <1>2, <1>6, <2>2 DEF Execute
<1>7. CASE ~Prunable
  <2>1. CASE /\ held[Asks[c]] = Nobody
             /\ held' = [x \in Executions |-> IF x = Asks[c] THEN c
                                          ELSE IF x \in {} THEN Nobody ELSE held[x]]
             /\ order' = Append(order, Asks[c])
             /\ entry' = [entry EXCEPT ![c] = [wire |-> here, result |-> "none"]]
             /\ call' = [call EXCEPT ![c].step = "begun", ![c].wire = here, ![c].follows = c]
             /\ forgotten' = forgotten \cup {}
    <3>1. {} \in SUBSET Executions
      OBVIOUS
    <3>2. \A x : x \notin {}
      OBVIOUS
    <3> QED
      BY <1>1, <1>4, <1>5, <2>1, <3>1
  <2> QED
    BY <1>2, <1>3, <1>7, <2>1 DEF Execute
<1> QED
  BY <1>6, <1>7

-----------------------------------------------------------------------------
(* The calls.                                                              *)

LEMMA ExecuteKeepsInv ==
  ASSUME ChannelInv, NEW c \in Callers, Execute(c)
  PROVE  ChannelInv'
<1>1. CallTyped'
  BY ExecuteMoves
<1>2. EntryTyped'
  <2>1. [wire |-> here, result |-> "none"] \in EntryRow
    BY ChannelAssumption DEF ChannelInv, Typed, WiresTyped, EntryRow, Results
  <2> QED
    BY <2>1, ExecuteMoves DEF ChannelInv, Typed, EntryTyped
<1>3. HeldTyped'
  BY ExecuteMoves DEF ChannelInv, Typed, HeldTyped
<1>4. CallsOK'
  <2>1. call[c].follows = Nobody /\ \A d \in Callers : call[d].follows # c
    BY ExecuteMoves, ChannelAssumption DEF ChannelInv, CallsOK
  <2>2. held[Asks[c]] \in Callers => /\ held[Asks[c]] # c /\ Asks[held[Asks[c]]] = Asks[c]
                                     /\ call[held[Asks[c]]].follows = held[Asks[c]]
    BY <2>1, ChannelAssumption DEF ChannelInv, HeldOK
  <2>3. ASSUME NEW d \in Callers \ {c}, call[d].follows # Nobody
        PROVE  call[d].follows \in Callers \ {c}
    BY <2>1, <2>3 DEF ChannelInv, Typed, CallTyped, CallRow
  <2>4. \A d \in Callers \ {c} :
          /\ call'[d].step = "idle" => call'[d].follows = Nobody
          /\ call'[d].step \in {"begun", "waiting"} => call'[d].follows = d
          /\ call'[d].step = "joined" => call'[d].follows # Nobody
          /\ call'[d].follows # Nobody =>
               /\ call'[call'[d].follows].follows = call'[d].follows
               /\ Asks[call'[d].follows] = Asks[d]
    BY <2>3, ExecuteMoves DEF ChannelInv, CallsOK
  <2>5. /\ call'[c].step = "idle" => call'[c].follows = Nobody
        /\ call'[c].step \in {"begun", "waiting"} => call'[c].follows = c
        /\ call'[c].step = "joined" => call'[c].follows # Nobody
        /\ call'[c].follows # Nobody =>
             call'[call'[c].follows].follows = call'[c].follows /\ Asks[call'[c].follows] = Asks[c]
    BY <2>2, ExecuteMoves, ChannelAssumption
  <2> QED
    BY <2>4, <2>5 DEF CallsOK
<1>5. HeldOK'
  BY ExecuteMoves, ChannelAssumption DEF ChannelInv, Typed, CallsOK, HeldOK, HeldTyped
<1>6. AskedOnce'
  <2>1. UNCHANGED <<executed, inbox>>
    BY DEF Execute
  <2>2. \A e \in Executions : Fresh(e)' <=> Fresh(e)
    BY <2>1 DEF Fresh, Asked
  <2>3. \A e \in Executions : Asked(e)' <=> Asked(e)
    BY <2>1 DEF Asked
  <2> QED
    BY <2>1, <2>2, <2>3, ExecuteMoves, ChannelAssumption DEF ChannelInv, AskedOnce
<1>7. AnswersOK'
  <2>1. call[c].follows = Nobody /\ \A d \in Callers : call[d].follows # c
    BY ExecuteMoves, ChannelAssumption DEF ChannelInv, CallsOK
  <2>2. \A d \in Callers \ {c} : entry'[d] = entry[d]
    BY ExecuteMoves DEF ChannelInv, Typed, EntryTyped
  <2>3. forgotten \subseteq forgotten'
    BY ExecuteMoves
  <2>4. call'[c].step = "done" => call'[c].follows = Nobody
    BY ExecuteMoves
  <2>5. \A d \in Callers \ {c} : call[d].follows # Nobody => call[d].follows \in Callers \ {c}
    BY <2>1 DEF ChannelInv, Typed, CallTyped, CallRow
  <2> QED
    BY <2>2, <2>5, ExecuteMoves DEF ChannelInv, AnswersOK
<1> QED
  BY <1>1, <1>2, <1>3, <1>4, <1>5, <1>6, <1>7 DEF ChannelInv, Typed, WiresTyped,
     MessagesTyped, CompanionTyped, GuardOK, PresenceIsTrue, Execute

LEMMA RefuseKeepsInv ==
  ASSUME ChannelInv, NEW c \in Callers, Refuse(c)
  PROVE  ChannelInv'
<1>1. CallTyped'
  <2>1. (IF call[c].wire = 0 THEN entry ELSE Interrupted(call[c].wire)) \in [Callers -> EntryRow]
    BY InterruptedEntries DEF ChannelInv, Typed, EntryTyped
  <2>2. Asks[c] \in Executions /\ "FAILED" \in Outcomes
    BY ChannelAssumption DEF Outcomes
  <2>3. entry' \in [Callers -> EntryRow]
    BY <2>1, <2>2, FinishedEntries DEF ChannelInv, Typed, Refuse
  <2>4. Verdict(entry', Asks[c], "FAILED") \in Results
    BY <2>2, <2>3, VerdictTyped DEF ChannelInv, Typed
  <2> QED
    BY <2>4, AnsweredCalls DEF ChannelInv, Typed, Refuse
<1>2. EntryTyped'
  <2>1. (IF call[c].wire = 0 THEN entry ELSE Interrupted(call[c].wire)) \in [Callers -> EntryRow]
    BY InterruptedEntries DEF ChannelInv, Typed, EntryTyped
  <2>2. Asks[c] \in Executions /\ "FAILED" \in Outcomes
    BY ChannelAssumption DEF Outcomes
  <2> QED
    BY <2>1, <2>2, FinishedEntries DEF ChannelInv, Typed, EntryTyped, Refuse
<1>3. WiresTyped'
  BY ShutTyped DEF ChannelInv, Typed, WiresTyped, Refuse
<1>4. MessagesTyped'
  BY ShutTyped DEF ChannelInv, Typed, MessagesTyped, Refuse
<1>5. CallsOK'
  BY DEF ChannelInv, Typed, CallsOK, CallTyped, CallRow, Answered, Refuse
<1>6. HeldOK'
  BY DEF ChannelInv, Typed, HeldOK, CallTyped, HeldTyped, Answered, Refuse
<1>7. AskedOnce'
  BY DEF ChannelInv, Typed, AskedOnce, Fresh, Asked, CallTyped, Answered, Refuse
<1>8. AnswersOK'
  <2> DEFINE entries == (IF call[c].wire = 0 THEN entry ELSE Interrupted(call[c].wire))
  <2>1. Asks[c] \in Executions /\ "FAILED" \in Outcomes
    BY ChannelAssumption DEF Outcomes
  <2>2. /\ entries \in [Callers -> EntryRow]
        /\ \A d \in Callers : entry[d].result # "none" => entries[d] = entry[d]
    BY InterruptedEntries DEF ChannelInv, Typed, EntryTyped
  <2>3. entry' = Finished(entries, Asks[c], "FAILED")
    BY DEF Refuse
  <2> HIDE DEF entries
  <2>4. /\ \A d \in Callers : entry[d].result # "none" => entry'[d] = entry[d]
        /\ held[Asks[c]] # Nobody => entry'[held[Asks[c]]].result # "none"
    BY <2>1, <2>2, <2>3, FinishedEntries DEF ChannelInv, Typed
  <2>5. Answered(c, Verdict(entry', Asks[c], "FAILED")) /\ forgotten' = forgotten
    BY DEF Refuse
  <2>6. Verdict(entry', Asks[c], "FAILED") \in Results
    <3>1. entry' \in [Callers -> EntryRow]
      BY <2>1, <2>2, <2>3, FinishedEntries DEF ChannelInv, Typed
    <3> QED
      BY <2>1, <3>1, VerdictTyped DEF ChannelInv, Typed
  <2>7. /\ call'[c].step = "done" /\ call'[c].follows = c
        /\ call'[c].answer = Verdict(entry', Asks[c], "FAILED")
        /\ \A d \in Callers \ {c} : call'[d] = call[d]
    BY <2>6, AnsweredCalls DEF ChannelInv, Typed, CallsOK, Refuse
  <2>8. Asks[c] \in forgotten \/ held[Asks[c]] = c
    BY ChannelAssumption DEF ChannelInv, HeldOK, CallsOK, Refuse
  <2>11. \A d \in Callers : call[d].follows # Nobody => call[d].follows \in Callers
    BY DEF ChannelInv, Typed, CallTyped, CallRow
  <2>9. CASE held[Asks[c]] = c
    <3>1. Verdict(entry', Asks[c], "FAILED") = entry'[c].result /\ entry'[c].result # "none"
      BY <2>4, <2>9, ChannelAssumption DEF Verdict
    <3> QED
      BY <2>4, <2>5, <2>7, <2>11, <3>1 DEF ChannelInv, AnswersOK
  <2>10. CASE Asks[c] \in forgotten
    BY <2>4, <2>5, <2>7, <2>10, <2>11 DEF ChannelInv, AnswersOK
  <2> QED
    BY <2>8, <2>9, <2>10
<1>9. PresenceIsTrue'
  BY DEF ChannelInv, PresenceIsTrue, Shut, Refuse
<1> QED
  BY <1>1, <1>2, <1>3, <1>4, <1>5, <1>6, <1>7, <1>8, <1>9 DEF ChannelInv, Typed,
     HeldTyped, CompanionTyped, GuardOK, Refuse

LEMMA SendExecutionKeepsInv ==
  ASSUME ChannelInv, NEW c \in Callers, SendExecution(c)
  PROVE  ChannelInv'
<1>1. CallTyped'
  <2>1. call[c] \in CallRow /\ [call[c] EXCEPT !.step = "waiting"] \in CallRow
    BY DEF ChannelInv, Typed, CallTyped, CallRow
  <2> QED
    BY <2>1 DEF ChannelInv, Typed, CallTyped, SendExecution
<1>2. MessagesTyped'
  BY ChannelAssumption DEF ChannelInv, Typed, MessagesTyped, SendExecution
<1>3. CallsOK'
  BY DEF ChannelInv, CallsOK, SendExecution
<1>4. HeldOK'
  BY DEF ChannelInv, HeldOK, SendExecution
<1>5. AskedOnce'
  <2> DEFINE e == Asks[c]
  <2>1. inbox \in Seq(Executions) /\ e \in Executions
    BY ChannelAssumption DEF ChannelInv, Typed, MessagesTyped
  <2>2. \/ inbox' = inbox
        \/ /\ DOMAIN inbox' = 1..(Len(inbox) + 1) /\ inbox'[Len(inbox) + 1] = e
           /\ \A i \in 1..Len(inbox) : inbox'[i] = inbox[i]
    BY DEF SendExecution
  <2>3. UNCHANGED <<held, executed, forgotten>>
    BY DEF SendExecution
  <2>4. /\ call'[c].step = "waiting"
        /\ \A d \in Callers \ {c} : call'[d] = call[d]
    BY DEF ChannelInv, Typed, CallTyped, SendExecution
  <2>5. e \notin forgotten => Fresh(e) /\ held[e] # Nobody /\ held[e] = c
    BY ChannelAssumption DEF ChannelInv, AskedOnce, HeldOK, CallsOK, SendExecution
  <2>6. \A d \in Callers \ {c} : Asks[d] = e /\ e \notin forgotten => call[d].step # "begun"
    BY <2>5, ChannelAssumption DEF ChannelInv, CallsOK, HeldOK
  <2> HIDE DEF e
  <2>7. DOMAIN inbox = 1..Len(inbox) /\ Len(inbox) \in Nat
    BY <2>1
  <2>8. \A x \in Executions \ {e} : Asked(x)' => Asked(x)
    BY <2>2 DEF Asked
  <2>9. ASSUME NEW x \in Executions \ forgotten
        PROVE  \A i, j \in DOMAIN inbox' : inbox'[i] = x /\ inbox'[j] = x => i = j
    <3>1. \A i, j \in DOMAIN inbox : inbox[i] = x /\ inbox[j] = x => i = j
      BY DEF ChannelInv, AskedOnce
    <3>2. x = e => \A i \in DOMAIN inbox : inbox[i] # x
      BY <2>5 DEF Fresh, Asked
    <3> QED
      BY <2>2, <3>1, <3>2
  <2>10. ASSUME NEW x \in Executions \ forgotten
         PROVE  /\ executed'[x] = 0 \/ (executed'[x] = 1 /\ ~Asked(x)')
                /\ x # e /\ Fresh(x) => Fresh(x)'
    BY <2>3, <2>5, <2>8 DEF ChannelInv, AskedOnce, Fresh
  <2> QED
    BY <2>3, <2>4, <2>5, <2>6, <2>9, <2>10 DEF ChannelInv, AskedOnce
<1>6. AnswersOK'
  BY DEF ChannelInv, AnswersOK, SendExecution
<1> QED
  BY <1>1, <1>2, <1>3, <1>4, <1>5, <1>6 DEF ChannelInv, Typed, EntryTyped, HeldTyped,
     WiresTyped, CompanionTyped, GuardOK, PresenceIsTrue, SendExecution

LEMMA ReturnResultKeepsInv ==
  ASSUME ChannelInv, NEW c \in Callers, ReturnResult(c)
  PROVE  ChannelInv'
<1>1. CallTyped'
  <2>1. entry[call[c].follows].result \in Results
    BY DEF ChannelInv, Typed, CallsOK, CallTyped, CallRow, EntryTyped, EntryRow,
       ReturnResult
  <2> QED
    BY <2>1, AnsweredCalls DEF ChannelInv, Typed, ReturnResult
<1>2. CallsOK'
  BY DEF ChannelInv, Typed, CallsOK, CallTyped, CallRow, Answered, ReturnResult
<1>3. HeldOK'
  BY DEF ChannelInv, Typed, HeldOK, CallTyped, HeldTyped, Answered, ReturnResult
<1>4. AskedOnce'
  BY DEF ChannelInv, Typed, AskedOnce, Fresh, Asked, CallTyped, Answered, ReturnResult
<1>5. AnswersOK'
  BY DEF ChannelInv, Typed, AnswersOK, CallTyped, Answered, ReturnResult
<1> QED
  BY <1>1, <1>2, <1>3, <1>4, <1>5 DEF ChannelInv, Typed, EntryTyped, HeldTyped,
     WiresTyped, MessagesTyped, CompanionTyped, GuardOK, PresenceIsTrue, ReturnResult

LEMMA GiveUpKeepsInv ==
  ASSUME ChannelInv, NEW c \in Callers, NEW outcome \in Outcomes, GiveUp(c, outcome)
  PROVE  ChannelInv'
<1>1. CallTyped'
  <2>1. Asks[c] \in Executions /\ outcome \in Outcomes
    BY ChannelAssumption
  <2>2. Interrupted(call[c].wire) \in [Callers -> EntryRow]
    BY InterruptedEntries DEF ChannelInv, Typed
  <2>3. entry' \in [Callers -> EntryRow]
    BY <2>1, <2>2, FinishedEntries DEF ChannelInv, Typed, GiveUp
  <2>4. Verdict(entry', Asks[c], outcome) \in Results
    BY <2>1, <2>3, VerdictTyped DEF ChannelInv, Typed
  <2> QED
    BY <2>4, AnsweredCalls DEF ChannelInv, Typed, GiveUp, Answered
<1>2. EntryTyped'
  <2>1. Asks[c] \in Executions /\ outcome \in Outcomes
    BY ChannelAssumption
  <2>2. Interrupted(call[c].wire) \in [Callers -> EntryRow]
    BY InterruptedEntries DEF ChannelInv, Typed
  <2> QED
    BY <2>1, <2>2, FinishedEntries DEF ChannelInv, Typed, EntryTyped, GiveUp
<1>3. WiresTyped'
  BY ShutTyped DEF ChannelInv, Typed, WiresTyped, GiveUp
<1>4. MessagesTyped'
  BY ShutTyped DEF ChannelInv, Typed, MessagesTyped, GiveUp
<1>5. CallsOK'
  BY DEF ChannelInv, Typed, CallsOK, CallTyped, CallRow, GiveUp
<1>6. HeldOK'
  BY DEF ChannelInv, Typed, HeldOK, CallTyped, HeldTyped, GiveUp
<1>7. AskedOnce'
  BY DEF ChannelInv, Typed, AskedOnce, Fresh, Asked, CallTyped, GiveUp
<1>8. AnswersOK'
  <2> DEFINE entries == Interrupted(call[c].wire)
  <2>1. Asks[c] \in Executions /\ outcome \in Outcomes
    BY ChannelAssumption
  <2>2. /\ entries \in [Callers -> EntryRow]
        /\ \A d \in Callers : entry[d].result # "none" => entries[d] = entry[d]
    BY InterruptedEntries DEF ChannelInv, Typed
  <2>3. entry' = Finished(entries, Asks[c], outcome)
    BY DEF GiveUp
  <2> HIDE DEF entries
  <2>4. /\ \A d \in Callers : entry[d].result # "none" => entry'[d] = entry[d]
        /\ held[Asks[c]] # Nobody => entry'[held[Asks[c]]].result # "none"
    BY <2>1, <2>2, <2>3, FinishedEntries DEF ChannelInv, Typed
  <2>5. Answered(c, Verdict(entry', Asks[c], outcome)) /\ forgotten' = forgotten
    BY DEF GiveUp, Answered
  <2>6. Verdict(entry', Asks[c], outcome) \in Results
    <3>1. entry' \in [Callers -> EntryRow]
      BY <2>1, <2>2, <2>3, FinishedEntries DEF ChannelInv, Typed
    <3> QED
      BY <2>1, <3>1, VerdictTyped DEF ChannelInv, Typed
  <2>7. /\ call'[c].step = "done" /\ call'[c].follows = c
        /\ call'[c].answer = Verdict(entry', Asks[c], outcome)
        /\ \A d \in Callers \ {c} : call'[d] = call[d]
    BY <2>5, <2>6, AnsweredCalls DEF ChannelInv, Typed, CallsOK, GiveUp
  <2>8. Asks[c] \in forgotten \/ held[Asks[c]] = c
    BY ChannelAssumption DEF ChannelInv, HeldOK, CallsOK, GiveUp
  <2>11. \A d \in Callers : call[d].follows # Nobody => call[d].follows \in Callers
    BY DEF ChannelInv, Typed, CallTyped, CallRow
  <2>9. CASE held[Asks[c]] = c
    <3>1. Verdict(entry', Asks[c], outcome) = entry'[c].result /\ entry'[c].result # "none"
      BY <2>4, <2>9, ChannelAssumption DEF Verdict
    <3> QED
      BY <2>4, <2>5, <2>7, <2>11, <3>1 DEF ChannelInv, AnswersOK
  <2>10. CASE Asks[c] \in forgotten
    BY <2>4, <2>5, <2>7, <2>10, <2>11 DEF ChannelInv, AnswersOK
  <2> QED
    BY <2>8, <2>9, <2>10
<1>9. PresenceIsTrue'
  BY DEF ChannelInv, PresenceIsTrue, Shut, GiveUp
<1> QED
  BY <1>1, <1>2, <1>3, <1>4, <1>5, <1>6, <1>7, <1>8, <1>9 DEF ChannelInv, Typed,
     HeldTyped, CompanionTyped, GuardOK, GiveUp

LEMMA StopFollowingKeepsInv ==
  ASSUME ChannelInv, NEW c \in Callers, StopFollowing(c)
  PROVE  ChannelInv'
<1>1. CallTyped'
  BY AnsweredCalls DEF ChannelInv, Typed, StopFollowing, Results, Outcomes
<1>2. CallsOK'
  BY DEF ChannelInv, Typed, CallsOK, CallTyped, CallRow, Answered, StopFollowing
<1>3. HeldOK'
  BY DEF ChannelInv, Typed, HeldOK, CallTyped, HeldTyped, Answered, StopFollowing
<1>4. AskedOnce'
  BY DEF ChannelInv, Typed, AskedOnce, Fresh, Asked, CallTyped, Answered, StopFollowing
<1>5. AnswersOK'
  BY DEF ChannelInv, Typed, AnswersOK, CallTyped, Answered, StopFollowing
<1> QED
  BY <1>1, <1>2, <1>3, <1>4, <1>5 DEF ChannelInv, Typed, EntryTyped, HeldTyped,
     WiresTyped, MessagesTyped, CompanionTyped, GuardOK, PresenceIsTrue, StopFollowing

-----------------------------------------------------------------------------
(* The sockets.                                                            *)

LEMMA AcceptHelloKeepsInv ==
  ASSUME ChannelInv, AcceptHello
  PROVE  ChannelInv'
<1>1. WiresTyped'
  BY ChannelAssumption DEF ChannelInv, Typed, WiresTyped, Wires, AcceptHello
<1>2. PresenceIsTrue'
  BY DEF PresenceIsTrue, Wires, AcceptHello
<1> QED
  BY <1>1, <1>2 DEF ChannelInv, Typed, CallTyped, EntryTyped, HeldTyped, MessagesTyped,
     CompanionTyped, CallsOK, HeldOK, AskedOnce, GuardOK, AnswersOK, Fresh, Asked,
     AcceptHello

LEMMA CloseDisplacedKeepsInv ==
  ASSUME ChannelInv, NEW g \in Wires, CloseDisplaced(g)
  PROVE  ChannelInv'
<1>1. EntryTyped'
  BY InterruptedEntries DEF ChannelInv, Typed, EntryTyped, CloseDisplaced
<1>2. WiresTyped'
  <2>1. [step |-> "reading", displaced |-> 0]
          \in [step : {"none", "accepted", "reading", "over"}, displaced : 0..MaxWire]
    BY ChannelAssumption
  <2>2. (serving \in [Wires -> [step : {"none", "accepted", "reading", "over"},
                               displaced : 0..MaxWire]])'
    BY <2>1 DEF ChannelInv, Typed, WiresTyped, CloseDisplaced
  <2> QED
    BY <2>2, ShutTyped DEF ChannelInv, Typed, WiresTyped, CloseDisplaced
<1>3. MessagesTyped'
  BY ShutTyped DEF ChannelInv, Typed, MessagesTyped, CloseDisplaced
<1>4. AnswersOK'
  BY DEF ChannelInv, Typed, AnswersOK, CallTyped, CallRow, Interrupted, CloseDisplaced
<1>5. PresenceIsTrue'
  BY DEF ChannelInv, PresenceIsTrue, Shut, CloseDisplaced
<1> QED
  BY <1>1, <1>2, <1>3, <1>4, <1>5 DEF ChannelInv, Typed, CallTyped, HeldTyped,
     CompanionTyped, CallsOK, HeldOK, AskedOnce, GuardOK, Fresh, Asked, CloseDisplaced

LEMMA AcceptResultKeepsInv ==
  ASSUME ChannelInv, NEW g \in Wires, AcceptResult(g)
  PROVE  ChannelInv'
<1>1. EntryTyped'
  <2>1. Head(results[g]) \in Message
    BY DEF ChannelInv, Typed, MessagesTyped, AcceptResult
  <2>2. Head(results[g]).execution \in Executions /\ Head(results[g]).outcome \in Outcomes
    BY <2>1 DEF Message
  <2> QED
    BY <2>2, FinishedEntries DEF ChannelInv, Typed, EntryTyped, AcceptResult
<1>2. MessagesTyped'
  BY DEF ChannelInv, Typed, MessagesTyped, AcceptResult
<1>3. AnswersOK'
  BY ChannelAssumption DEF ChannelInv, Typed, AnswersOK, CallsOK, HeldOK, CallTyped,
     CallRow, EntryTyped, EntryRow, HeldTyped, Answered, Finished, Interrupted,
     Verdict, AcceptResult
<1> QED
  BY <1>1, <1>2, <1>3 DEF ChannelInv, Typed, CallTyped, HeldTyped, WiresTyped,
     CompanionTyped, CallsOK, HeldOK, AskedOnce, GuardOK, PresenceIsTrue, Fresh, Asked,
     AcceptResult

LEMMA EndConnectionKeepsInv ==
  ASSUME ChannelInv, NEW g \in Wires, EndConnection(g)
  PROVE  ChannelInv'
<1>1. EntryTyped'
  BY InterruptedEntries DEF ChannelInv, Typed, EntryTyped, EndConnection
<1>2. WiresTyped'
  BY ChannelAssumption DEF ChannelInv, Typed, WiresTyped, Wires, Shut, EndConnection
<1>3. MessagesTyped'
  BY ShutTyped DEF ChannelInv, Typed, MessagesTyped, EndConnection
<1>4. AnswersOK'
  BY DEF ChannelInv, Typed, AnswersOK, CallTyped, CallRow, Interrupted, EndConnection
<1>5. PresenceIsTrue'
  BY DEF ChannelInv, PresenceIsTrue, Shut, EndConnection
<1> QED
  BY <1>1, <1>2, <1>3, <1>4, <1>5 DEF ChannelInv, Typed, CallTyped, HeldTyped,
     CompanionTyped, CallsOK, HeldOK, AskedOnce, GuardOK, Fresh, Asked, EndConnection

LEMMA RestartHubChannelKeepsInv ==
  ASSUME ChannelInv, RestartHubChannel
  PROVE  ChannelInv'
<1>1. CallTyped'
  <2>1. ASSUME NEW c \in Callers
        PROVE  [call[c] EXCEPT !.step = "done", !.wire = 0, !.follows = Nobody] \in CallRow
    <3>1. call[c] \in CallRow
      BY DEF ChannelInv, Typed, CallTyped
    <3>2. \A row \in CallRow : [row EXCEPT !.step = "done"] \in CallRow
      BY DEF CallRow
    <3>3. \A row \in CallRow : [row EXCEPT !.wire = 0] \in CallRow
      BY ChannelAssumption DEF CallRow
    <3>4. \A row \in CallRow : [row EXCEPT !.follows = Nobody] \in CallRow
      BY DEF CallRow
    <3> QED
      BY <3>1, <3>2, <3>3, <3>4
  <2> QED
    BY <2>1 DEF ChannelInv, Typed, CallTyped, RestartHubChannel
<1>2. EntryTyped'
  <2>1. NoEntry \in EntryRow
    BY ChannelAssumption DEF NoEntry, EntryRow, Results
  <2> QED
    BY <2>1 DEF EntryTyped, RestartHubChannel
<1>3. HeldTyped'
  <2>1. <<>> \in Seq(Executions)
    OBVIOUS
  <2>2. (held \in [Executions -> Callers \cup {Nobody}])'
    BY DEF RestartHubChannel
  <2> QED
    BY <2>1, <2>2 DEF ChannelInv, Typed, HeldTyped, RestartHubChannel
<1>4. WiresTyped'
  <2>1. ASSUME NEW g \in Wires
        PROVE  [step |-> IF g <= last THEN "over" ELSE "none", displaced |-> 0]
                 \in [step : {"none", "accepted", "reading", "over"}, displaced : 0..MaxWire]
    BY ChannelAssumption
  <2>2. (serving \in [Wires -> [step : {"none", "accepted", "reading", "over"},
                               displaced : 0..MaxWire]])'
    BY <2>1 DEF RestartHubChannel
  <2>3. here' \in 0..last' /\ line' \in 0..last' /\ last' \in 0..MaxWire /\ present' \in BOOLEAN
    <3>1. here' = 0 /\ last' = last /\ line' = line /\ present' = present
      BY DEF RestartHubChannel
    <3>2. line \in 0..last /\ last \in 0..MaxWire /\ present \in BOOLEAN
      BY DEF ChannelInv, Typed, WiresTyped
    <3> QED
      BY <3>1, <3>2
  <2> QED
    BY <2>2, <2>3 DEF WiresTyped
<1>5. MessagesTyped'
  <2>1. <<>> \in Seq(Message)
    OBVIOUS
  <2> QED
    BY <2>1 DEF ChannelInv, Typed, MessagesTyped, RestartHubChannel
<1>6. CallsOK'
  <2>1. \A c \in Callers : call'[c].follows = Nobody /\ call'[c].step \in {"idle", "done"}
    BY DEF ChannelInv, Typed, CallTyped, CallRow, CallsOK, RestartHubChannel
  <2> QED
    BY <2>1 DEF CallsOK
<1>7. HeldOK'
  <2>1. \A c \in Callers : call'[c].follows = Nobody /\ call'[c].step \in {"idle", "done"}
    BY DEF ChannelInv, Typed, CallTyped, CallRow, CallsOK, RestartHubChannel
  <2> QED
    BY <2>1 DEF HeldOK, RestartHubChannel
<1>8. AskedOnce'
  BY ChannelAssumption DEF ChannelInv, Typed, AskedOnce, Fresh, Asked, HeldOK,
     CallsOK, CallTyped, CallRow, HeldTyped, MessagesTyped, CompanionTyped, Answered,
     RestartHubChannel
<1>9. AnswersOK'
  <2>1. \A c \in Callers : call'[c].follows = Nobody /\ call'[c].step \in {"idle", "done"}
    BY DEF ChannelInv, Typed, CallTyped, CallRow, CallsOK, RestartHubChannel
  <2> QED
    BY <2>1 DEF AnswersOK
<1>10. PresenceIsTrue'
  BY ChannelAssumption DEF ChannelInv, Typed, PresenceIsTrue, WiresTyped, Wires, Shut,
     RestartHubChannel
<1> QED
  BY <1>1, <1>2, <1>3, <1>4, <1>5, <1>6, <1>7, <1>8, <1>9, <1>10 DEF ChannelInv,
     Typed, CompanionTyped, GuardOK, RestartHubChannel

-----------------------------------------------------------------------------
(* The Companion.                                                          *)

LEMMA TakeExecutionKeepsInv ==
  ASSUME ChannelInv, TakeExecution
  PROVE  ChannelInv'
<1>1. MessagesTyped'
  <2>1. Head(inbox) \in Executions /\ Tail(inbox) \in Seq(Executions)
    BY DEF ChannelInv, Typed, MessagesTyped, TakeExecution
  <2>2. line \in 0..MaxWire /\ "FAILED" \in Outcomes
    BY ChannelAssumption DEF ChannelInv, Typed, WiresTyped, Outcomes
  <2>3. (results \in [Wires -> Seq(Message)])'
    BY <2>2, ReplyTyped DEF ChannelInv, Typed, MessagesTyped, TakeExecution
  <2> QED
    BY <2>1, <2>3 DEF MessagesTyped, TakeExecution
<1>2. CompanionTyped'
  BY ChannelAssumption DEF ChannelInv, Typed, CompanionTyped, MessagesTyped,
     WiresTyped, NotWorking, TakeExecution
<1>3. AskedOnce'
  <2> DEFINE e == Head(inbox)
  <2>1. inbox \in Seq(Executions) /\ inbox # <<>> /\ inbox' = Tail(inbox)
    BY DEF ChannelInv, Typed, MessagesTyped, TakeExecution
  <2>2. e = inbox[1] /\ e \in Executions /\ 1 \in DOMAIN inbox
    BY <2>1
  <2>3. \A i \in DOMAIN inbox' :
          i + 1 \in DOMAIN inbox /\ inbox'[i] = inbox[i + 1] /\ i + 1 # 1 /\ i \in Nat
    BY <2>1
  <2>4. UNCHANGED <<held, call, forgotten>>
    BY DEF TakeExecution
  <2>5. \A x \in Executions \ {e} : executed'[x] = executed[x]
    BY DEF ChannelInv, Typed, CompanionTyped, TakeExecution
  <2>6. executed'[e] = executed[e] \/ executed'[e] = executed[e] + 1
    BY DEF ChannelInv, Typed, CompanionTyped, TakeExecution
  <2> HIDE DEF e
  <2>7. \A x \in Executions : Asked(x)' => Asked(x)
    BY <2>3 DEF Asked
  <2>8. Asked(e)
    BY <2>2 DEF Asked
  <2>9. ASSUME NEW x \in Executions \ forgotten
        PROVE  /\ x = e => ~Asked(x)'
               /\ \A i, j \in DOMAIN inbox' : inbox'[i] = x /\ inbox'[j] = x => i = j
    <3>1. \A i, j \in DOMAIN inbox : inbox[i] = x /\ inbox[j] = x => i = j
      BY DEF ChannelInv, AskedOnce
    <3>2. x = e => ~Asked(x)'
      BY <2>2, <2>3, <3>1 DEF Asked
    <3>3. ASSUME NEW i \in DOMAIN inbox', NEW j \in DOMAIN inbox', inbox'[i] = x, inbox'[j] = x
          PROVE  i = j
      <4>1. i + 1 = j + 1
        BY <2>3, <3>1, <3>3
      <4> QED
        BY <2>3, <4>1
    <3> QED
      BY <3>2, <3>3
  <2>10. \A x \in Executions \ forgotten : executed[x] = 0 \/ (executed[x] = 1 /\ ~Asked(x))
    BY DEF ChannelInv, AskedOnce
  <2>11. \A x \in Executions \ forgotten : x # e => (Fresh(x) => Fresh(x)')
    BY <2>5, <2>7 DEF Fresh
  <2>12. ~Fresh(e)
    BY <2>8 DEF Fresh
  <2>13. ASSUME NEW x \in Executions \ forgotten
         PROVE  executed'[x] = 0 \/ (executed'[x] = 1 /\ ~Asked(x)')
    BY <2>5, <2>6, <2>7, <2>8, <2>9, <2>10
  <2> QED
    BY <2>4, <2>9, <2>11, <2>12, <2>13 DEF ChannelInv, AskedOnce
<1>4. GuardOK'
  BY ChannelAssumption DEF ChannelInv, Typed, GuardOK, CompanionTyped, NotWorking,
     TakeExecution
<1> QED
  BY <1>1, <1>2, <1>3, <1>4 DEF ChannelInv, Typed, CallTyped, EntryTyped, HeldTyped,
     WiresTyped, CallsOK, HeldOK, AnswersOK, PresenceIsTrue, TakeExecution

LEMMA EndExecutionKeepsInv ==
  ASSUME ChannelInv, EndExecution
  PROVE  ChannelInv'
<1>1. MessagesTyped'
  <2>1. working.execution \in Executions /\ working.wire \in 0..MaxWire
    BY DEF ChannelInv, Typed, CompanionTyped, EndExecution
  <2>2. (results \in [Wires -> Seq(Message)])'
    BY <2>1, ReplyTyped DEF ChannelInv, Typed, Outcomes, EndExecution
  <2> QED
    BY <2>2 DEF ChannelInv, Typed, MessagesTyped, EndExecution
<1>2. CompanionTyped'
  BY DEF ChannelInv, Typed, CompanionTyped, EndExecution
<1>3. GuardOK'
  BY DEF ChannelInv, GuardOK, EndExecution
<1> QED
  BY <1>1, <1>2, <1>3 DEF ChannelInv, Typed, CallTyped, EntryTyped, HeldTyped,
     WiresTyped, CallsOK, HeldOK, AskedOnce, AnswersOK, PresenceIsTrue, Fresh, Asked,
     EndExecution

LEMMA LoseLineKeepsInv ==
  ASSUME ChannelInv, LoseLine
  PROVE  ChannelInv'
<1>1. WiresTyped'
  BY DEF ChannelInv, Typed, WiresTyped, LoseLine
<1>2. MessagesTyped'
  BY DEF ChannelInv, Typed, MessagesTyped, LoseLine
<1>3. AskedOnce'
  BY DEF ChannelInv, AskedOnce, Fresh, Asked, LoseLine
<1> QED
  BY <1>1, <1>2, <1>3 DEF ChannelInv, Typed, CallTyped, EntryTyped, HeldTyped,
     CompanionTyped, CallsOK, HeldOK, GuardOK, AnswersOK, PresenceIsTrue, LoseLine

LEMMA RelaunchKeepsInv ==
  ASSUME ChannelInv, Relaunch
  PROVE  ChannelInv'
<1>1. WiresTyped'
  BY DEF ChannelInv, Typed, WiresTyped, Relaunch
<1>2. MessagesTyped'
  BY DEF ChannelInv, Typed, MessagesTyped, Relaunch
<1>3. CompanionTyped'
  BY DEF ChannelInv, Typed, CompanionTyped, Relaunch
<1>4. AskedOnce'
  BY DEF ChannelInv, AskedOnce, Fresh, Asked, Relaunch
<1>5. GuardOK'
  BY DEF GuardOK, Relaunch
<1> QED
  BY <1>1, <1>2, <1>3, <1>4, <1>5 DEF ChannelInv, Typed, CallTyped, EntryTyped,
     HeldTyped, CallsOK, HeldOK, AnswersOK, PresenceIsTrue, Relaunch

-----------------------------------------------------------------------------
(* The specification.                                                      *)

LEMMA ChannelInvInitially == ChannelInit => ChannelInv
<1> SUFFICES ASSUME ChannelInit PROVE ChannelInv
  OBVIOUS
<1>1. NoCall \in CallRow /\ NoEntry \in EntryRow
  BY ChannelAssumption DEF NoCall, NoEntry, CallRow, EntryRow, Results
<1>2. CallTyped /\ EntryTyped
  BY <1>1 DEF ChannelInit, CallTyped, EntryTyped
<1>3. HeldTyped /\ CompanionTyped
  BY DEF ChannelInit, HeldTyped, CompanionTyped
<1>4. WiresTyped
  <2>1. [step |-> "none", displaced |-> 0]
          \in [step : {"none", "accepted", "reading", "over"}, displaced : 0..MaxWire]
    BY ChannelAssumption
  <2>2. serving \in [Wires -> [step : {"none", "accepted", "reading", "over"},
                              displaced : 0..MaxWire]]
    BY <2>1 DEF ChannelInit
  <2>3. here = 0 /\ line = 0 /\ last = 0
    BY DEF ChannelInit
  <2>4. present \in BOOLEAN
    BY DEF ChannelInit
  <2> QED
    BY <2>2, <2>3, <2>4, ChannelAssumption DEF WiresTyped
<1>5. MessagesTyped
  <2>1. <<>> \in Seq(Message) /\ <<>> \in Seq(Executions)
    OBVIOUS
  <2> QED
    BY DEF ChannelInit, MessagesTyped
<1>6. CallsOK /\ HeldOK /\ AnswersOK
  BY DEF ChannelInit, NoCall, CallsOK, HeldOK, AnswersOK
<1>7. AskedOnce /\ GuardOK /\ PresenceIsTrue
  BY DEF ChannelInit, AskedOnce, Fresh, Asked, GuardOK, PresenceIsTrue
<1> QED
  BY <1>2, <1>3, <1>4, <1>5, <1>6, <1>7 DEF ChannelInv, Typed

LEMMA ChannelInvStep == ChannelInv /\ [ChannelNext]_channelVars => ChannelInv'
<1> SUFFICES ASSUME ChannelInv, [ChannelNext]_channelVars PROVE ChannelInv'
  OBVIOUS
<1>1. ASSUME NEW c \in Callers, Calling(c) PROVE ChannelInv'
  BY <1>1, ExecuteKeepsInv, RefuseKeepsInv, SendExecutionKeepsInv, ReturnResultKeepsInv,
     StopFollowingKeepsInv, GiveUpKeepsInv DEF Calling
<1>2. ASSUME NEW g \in Wires, CloseDisplaced(g) \/ AcceptResult(g) \/ EndConnection(g)
      PROVE  ChannelInv'
  BY <1>2, CloseDisplacedKeepsInv, AcceptResultKeepsInv, EndConnectionKeepsInv
<1>3. CASE AcceptHello \/ RestartHubChannel
  BY <1>3, AcceptHelloKeepsInv, RestartHubChannelKeepsInv
<1>4. CASE TakeExecution \/ EndExecution \/ LoseLine \/ Relaunch
  BY <1>4, TakeExecutionKeepsInv, EndExecutionKeepsInv, LoseLineKeepsInv,
     RelaunchKeepsInv
<1>5. CASE UNCHANGED channelVars
  BY <1>5 DEF channelVars, ChannelInv, Typed, CallTyped, EntryTyped, HeldTyped,
     WiresTyped, MessagesTyped, CompanionTyped, CallsOK, HeldOK, AskedOnce, Fresh,
     Asked, GuardOK, AnswersOK, PresenceIsTrue
<1> QED
  BY <1>1, <1>2, <1>3, <1>4, <1>5 DEF ChannelNext

(* Every reachable state of the channel satisfies the invariant.           *)
THEOREM ChannelInvariant == ChannelSpec => []ChannelInv
  BY ChannelInvInitially, ChannelInvStep, PTL DEF ChannelSpec

(* The fields of the channel stay in their ranges.                         *)
THEOREM ChannelTypes == ChannelSpec => []ChannelTypeOK
<1>1. ChannelInv => ChannelTypeOK
  BY DEF ChannelInv, Typed, CallTyped, CallRow, EntryTyped, EntryRow, HeldTyped,
     WiresTyped, Results, ChannelTypeOK
<1> QED
  BY <1>1, ChannelInvariant, PTL

(* What a call of Execute asks for is begun once, unless both sides have    *)
(* forgotten it, and those who shared its entry have one verdict (Execute,  *)
(* finish, markTerminal).                                                   *)
THEOREM OneOutcome == ChannelSpec => []ExecutionHasOneOutcome
<1> SUFFICES ASSUME ChannelInv PROVE ExecutionHasOneOutcome
  BY ChannelInvariant, PTL
<1>1. ExecutedOnce
  <2>1. ASSUME NEW e \in Executions, e \notin forgotten
        PROVE  executed[e] <= 1
    BY <2>1 DEF ChannelInv, AskedOnce
  <2>2. ASSUME NEW e \in Executions, ~relaunched
        PROVE  executed[e] <= 1
    BY <2>2 DEF ChannelInv, GuardOK
  <2> QED
    BY <2>1, <2>2 DEF ExecutedOnce
<1>2. OneVerdict
  BY DEF ChannelInv, CallsOK, AnswersOK, OneVerdict
<1> QED
  BY <1>1, <1>2 DEF ExecutionHasOneOutcome

(* The database calls the Companion present exactly while a socket of it is *)
(* current, whichever socket ends first (acceptHello, removeConnection).    *)
THEOREM PresenceTrue == ChannelSpec => []PresenceIsTrue
<1>1. ChannelInv => PresenceIsTrue
  BY DEF ChannelInv
<1> QED
  BY <1>1, ChannelInvariant, PTL
=============================================================================
