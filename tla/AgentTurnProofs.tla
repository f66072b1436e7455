-------------------------- MODULE AgentTurnProofs --------------------------
(***************************************************************************)
(* Proofs about AgentTurn, for any kinds of calls, modes, rules, numbers   *)
(* of turns, steps and calls and any capacity of the event channel: types, *)
(* the authority that each run of a tool has, what a front end knows when  *)
(* a turn is over, and the history that the provider is sent.              *)
(***************************************************************************)
EXTENDS AgentTurn, CompactProofs, FunctionTheorems

(* Where a call is in hand, and from where on it is known to be a tool's.  *)
AtCall == {"call", "execute", "gate", "quiet_gate", "resolve", "record", "run", "running",
           "ask", "result"}
Judging == {"gate", "quiet_gate", "resolve", "record", "run", "running", "ask"}

(* The response's calls: how many, and that each has an id of its own.     *)
CallsKnown ==
  /\ Len(calls) <= MaxCalls
  /\ \A i \in 1..Len(calls) : calls[i].id < nextId
  /\ \A i, j \in 1..Len(calls) : calls[i].id = calls[j].id => i = j
  /\ pc \in Judging => Current.kind # BadCall
  /\ pc \in {"idle", "compact", "summarize", "stream", "forward", "call", "execute", "finish"}
       => ~retry
  /\ pc = "ask" => retry

(* The prompt is about the call in hand, and so is the user's answer,      *)
(* which is one that the prompt offers.                                    *)
PromptKnown ==
  /\ prompt # NoPrompt => pc = "gate" /\ prompt = [id |-> Current.id, retry |-> retry]
  /\ answer # NoAnswer =>
       /\ prompt # NoPrompt
       /\ [id |-> Current.id, retry |-> retry, decision |-> answer] \in answers
       /\ retry => answer \notin {"approve", "always"}
       /\ answer = "always" => Current.kind.rule \in granted
       /\ answer = "unsandboxed" => Confinement(Current.kind, Enforced) = "enforced"

(* Authorized's first part: what a call of this id and kind may run on.    *)
MayRun(r) ==
  \/ Answered(r, FALSE, {"approve", "always", "unsandboxed"})
  \/ r.kind.risk = "read"
  \/ ApprovalMode = "full" /\ r.kind.risk \notin {"destructive", "opaque"}
  \/ /\ ApprovalMode = "auto" /\ r.kind.risk = "write"
     /\ Confinement(r.kind, Enforced) # "off"
  \/ /\ ApprovalMode = "auto" /\ r.kind.risk \in {"write", "outside"}
     /\ r.kind.rule \in granted
     /\ r.kind.network => Confinement(r.kind, Enforced) # "enforced"

ThisRun == [id |-> Current.id, kind |-> Current.kind, retry |-> retry, free |-> Unsandboxed]
FirstRun == [id |-> Current.id, kind |-> Current.kind, retry |-> FALSE, free |-> FALSE]

(* The verdict on the call in hand: the gate's is the user's answer to     *)
(* this attempt, any other approval is the policy's; a second attempt runs *)
(* only outside the sandbox, after a first one that the sandbox blocked.   *)
VerdictKnown ==
  pc \in {"resolve", "record", "run", "running"} =>
    /\ verdict.decision # "deny" /\ verdict.source = "gate" =>
         [id |-> Current.id, retry |-> retry, decision |-> verdict.decision] \in answers
    /\ verdict.decision # "deny" /\ ~retry => MayRun(Current)
    /\ verdict.decision = "always" => Current.kind.rule \in granted
    /\ pc \in {"run", "running"} => verdict.decision # "deny"
    /\ pc \in {"run", "running"} /\ retry => Unsandboxed

RunKnown ==
  /\ pc = "running" => ThisRun \in runs
  /\ retry /\ pc \in Judging =>
       FirstRun \in runs /\ Confinement(Current.kind, Enforced) = "enforced"

Authority == TypeOK /\ CallsKnown /\ PromptKnown /\ VerdictKnown /\ RunKnown /\ Authorized

-----------------------------------------------------------------------------
(* The prompt, and the calls, that a receiver who has read all events must *)
(* still show.                                                             *)
PromptDue == IF pc \in {"gate", "resolve"} THEN Current.id ELSE 0
CallsDue == IF pc \in AtCall \ {"call"} THEN {Current.id} ELSE {}

TellsPrompt(e) == e.type \in {"pending", "resolved"}
TellsEnd(e, id) == e.type = "finished" /\ e.id = id

(* The last word about the prompt that was sent or received is right.      *)
PromptTold(sent, shown, due) ==
  /\ (\A i \in 1..Len(sent) : ~TellsPrompt(sent[i])) => shown = due
  /\ \A i \in 1..Len(sent) :
       TellsPrompt(sent[i]) /\ (\A j \in (i + 1)..Len(sent) : ~TellsPrompt(sent[j]))
         => due = IF sent[i].type = "pending" THEN sent[i].id ELSE 0

(* A call whose start was sent or received is in hand, or its end was sent *)
(* after that.                                                             *)
CallsTold(sent, shown, due) ==
  /\ \A id \in shown : (\A j \in 1..Len(sent) : ~TellsEnd(sent[j], id)) => id \in due
  /\ \A i \in 1..Len(sent) :
       sent[i].type = "started"
         /\ (\A j \in (i + 1)..Len(sent) : ~TellsEnd(sent[j], sent[i].id))
         => sent[i].id \in due

PromptFed == PromptTold(events, feed.prompt, PromptDue)
CallsFed == CallsTold(events, feed.running, CallsDue)

Fed == listening => PromptFed /\ CallsFed

-----------------------------------------------------------------------------
(* Reports of a call that were sent: received, or still on their way.      *)
Count(s, x) == Cardinality({i \in 1..Len(s) : s[i] = x})
Reports == [id \in 1..MaxIds |-> Count(feed.approvals, id) + Count(events, Event("approval", id))]

(* What ApprovalsReported says once all is received, at any time.          *)
RunsReported ==
  \A id \in 1..MaxIds :
    /\ Reports[id] <= 2
    /\ \A r \in runs : r.id = id => Reports[id] = 2 \/ (Reports[id] = 1 /\ ~r.retry)
    /\ Reports[id] = 2 =>
         \E r \in runs : r.id = id /\ ~r.free /\ Confinement(r.kind, Enforced) = "enforced"

(* No report about a call that was not judged yet, one of a first attempt  *)
(* and one more of a second.                                               *)
ReportsDue ==
  /\ \A id \in nextId..MaxIds : Reports[id] = 0
  /\ pc \in {"summarize", "stream", "forward"} =>
       \A j \in 1..Len(calls) : Reports[calls[j].id] = 0
  /\ pc \in AtCall => \A j \in (index + 1)..Len(calls) : Reports[calls[j].id] = 0
  /\ pc \in {"call", "execute"} => Reports[Current.id] = 0
  /\ pc \in {"gate", "quiet_gate", "resolve", "record", "ask"} =>
       Reports[Current.id] = IF retry THEN 1 ELSE 0
  /\ pc \in {"run", "running"} => Reports[Current.id] = IF retry THEN 2 ELSE 1

Reported == listening => RunsReported /\ ReportsDue
-----------------------------------------------------------------------------
(* TypeOK in parts.                                                        *)
EventOf == [type : {"text"} \cup Outcome, id : {0}] \cup
             [type : {"started", "pending", "resolved", "approval", "finished"}, id : 1..MaxIds]
FeedOf == [prompt : 0..MaxIds, running : SUBSET (1..MaxIds), approvals : Seq(1..MaxIds),
           over : BOOLEAN]

ControlType ==
  /\ pc \in {"idle", "compact", "summarize", "stream", "forward", "call", "execute", "gate",
             "quiet_gate", "resolve", "record", "run", "running", "ask", "result", "finish"}
  /\ cancelled \in BOOLEAN /\ step \in 0..MaxSteps /\ outcome \in Outcome
  /\ text \in BOOLEAN /\ retry \in BOOLEAN
  /\ verdict \in [decision : Decision, source : Source]
  /\ listening \in BOOLEAN /\ turns \in 0..MaxTurns
CallsType ==
  /\ calls \in Seq([id : 1..MaxIds, kind : Kinds]) /\ nextId \in 1..(MaxIds + 1)
  /\ index \in 1..(MaxCalls + 1)
  /\ pc \in AtCall => index <= Len(calls)
GateType ==
  /\ prompt \in [id : 1..MaxIds, retry : BOOLEAN] \cup {NoPrompt}
  /\ answer \in Decision \cup {NoAnswer}
  /\ answers \subseteq [id : 1..MaxIds, retry : BOOLEAN, decision : Decision]
  /\ rules \subseteq granted /\ granted \subseteq Rules
  /\ runs \subseteq [id : 1..MaxIds, kind : Kind, retry : BOOLEAN, free : BOOLEAN]
EventsType == events \in Seq(EventOf) /\ Len(events) <= Capacity
FeedType == feed \in FeedOf
MessagesType == messages \in Seq(Message)

LEMMA TypeParts ==
  TypeOK <=> /\ ControlType /\ CallsType /\ GateType
             /\ EventsType /\ FeedType /\ MessagesType
BY DEF TypeOK, ControlType, CallsType, GateType, EventsType, FeedType, MessagesType, EventOf,
       FeedOf, AtCall

(* The call in hand is one of the response's.                              *)
LEMMA CurrentType ==
  ASSUME CallsType, pc \in AtCall
  PROVE  /\ Current \in [id : 1..MaxIds, kind : Kinds]
         /\ index \in 1..Len(calls)
<1>1. index \in 1..Len(calls)
  BY DEF CallsType
<1>2. QED
  BY <1>1, ElementOfSeq DEF CallsType, Current

LEMMA SendType ==
  ASSUME EventsType, NEW e \in EventOf, Send(e)
  PROVE  EventsType'
BY TurnAssumption DEF TurnAssumption, EventsType, Send

LEMMA MessagesChange ==
  ASSUME [Next]_vars
  PROVE  \/ UNCHANGED messages
         \/ StartTurn \/ SummaryArrives \/ StreamDone \/ StreamCancelled \/ StreamFails
         \/ CallFinished
         \/ \E mask, summarize \in BOOLEAN : CompactHistory(mask, summarize)
BY DEF Next, TaskStep, Provider, Tool, User, FrontEnd, vars, loop, response, call, gate,
       receiver, NoSummary, StreamText, TextForwarded, StreamCall, CallSkipped, CallStarted,
       Refused, AutoApproved, AskRefused, AskOpens, GateShows, UserAnswers, GateDecides,
       GateResolved, RecordDecision, RecordRetry, RunStarts, RunEnds, RunBlocked, RunCancelled,
       Finish, Cancel, Receive, Hangup
(* The bounds are numbers.                                                 *)
LEMMA Bounds ==
  /\ MaxSteps \in Nat /\ 1 <= MaxSteps
  /\ MaxCalls \in Nat /\ MaxTurns \in Nat /\ MaxIds \in Nat /\ Capacity \in Nat
BY TurnAssumption DEF TurnAssumption

(* Whom the policy may name, and on what grounds.                          *)
LEMMA AutoApprovalGrounds ==
  ASSUME NEW kind \in Kind, NEW known, NEW source \in AutoApproval(kind, ApprovalMode, Enforced, known)
  PROVE  /\ source \in {"mode", "rule"}
         /\ \/ kind.risk = "read"
            \/ ApprovalMode = "full" /\ kind.risk \notin {"destructive", "opaque"}
            \/ /\ ApprovalMode = "auto" /\ kind.risk = "write"
               /\ Confinement(kind, Enforced) # "off"
            \/ /\ ApprovalMode = "auto" /\ kind.risk \in {"write", "outside"}
               /\ kind.rule \in known
               /\ kind.network => Confinement(kind, Enforced) # "enforced"
<1>1. kind.risk \in Risk /\ ApprovalMode \in Mode
  BY TurnAssumption DEF TurnAssumption, Kind
<1>2. CASE kind.risk \in {"destructive", "opaque"}
  BY <1>2 DEF AutoApproval
<1>3. CASE kind.risk = "read"
  BY <1>3 DEF AutoApproval
<1>4. CASE kind.risk \in {"write", "outside", "network"} /\ ApprovalMode = "read_only"
  BY <1>4 DEF AutoApproval
<1>5. CASE kind.risk \in {"write", "outside", "network"} /\ ApprovalMode = "full"
  BY <1>5 DEF AutoApproval
<1>6. CASE kind.risk \in {"write", "outside", "network"} /\ ApprovalMode = "auto"
  BY <1>6 DEF AutoApproval, MatchesRule, NetworkGrant
<1> QED
  BY <1>1, <1>2, <1>3, <1>4, <1>5, <1>6 DEF Risk, Mode

LEMMA CurrentKind ==
  ASSUME CallsType, pc \in AtCall, Current.kind # BadCall
  PROVE  Current.kind \in Kind
BY CurrentType, TurnAssumption DEF TurnAssumption

LEMMA ControlStep ==
  ASSUME TypeOK, [Next]_vars
  PROVE  ControlType'
<1> USE Bounds DEF ControlType, Verdict, NoVerdict, Outcome
<1>0. ControlType
  BY TypeParts
<1>1. CASE User
  <2>1. CASE StartTurn
    <3>1. step' \in 0..MaxSteps
      BY <1>0, <2>1 DEF StartTurn
    <3>2. turns' \in 0..MaxTurns
      BY <1>0, <2>1 DEF StartTurn
    <3>3. pc' = "compact" /\ cancelled' = FALSE /\ listening' = TRUE /\ UNCHANGED <<outcome, text, retry, verdict>>
      BY <1>0, <2>1 DEF StartTurn, response, call
    <3> QED
      BY <1>0, <3>1, <3>2, <3>3
  <2>2. CASE Cancel
    BY <1>0, <2>2 DEF Cancel, loop, response, call, gate, receiver
  <2>3. ASSUME NEW decision \in Decision, UserAnswers(decision) PROVE ControlType'
    BY <1>0, <2>3 DEF UserAnswers, loop, response, call, gate, receiver
  <2> QED
    BY <1>1, <2>1, <2>2, <2>3 DEF User
<1>2. CASE Provider
  BY <1>0, <1>2 DEF Provider, SummaryArrives, NoSummary, StreamText, StreamDone, StreamFails,
     StreamCall, loop, response, call, gate, receiver
<1>3. CASE Tool
  BY <1>0, <1>3 DEF Tool, RunEnds, RunBlocked, loop, response, call, gate, receiver
<1>5. CASE FrontEnd
  BY <1>0, <1>5 DEF FrontEnd, Receive, Hangup, loop, response, call, gate, receiver
<1>6. CASE UNCHANGED vars
  BY <1>0, <1>6 DEF vars, loop, response, call, gate, receiver
<1>4. CASE TaskStep
  <2>1. ASSUME NEW mask \in BOOLEAN, NEW summarize \in BOOLEAN, CompactHistory(mask, summarize)
        PROVE  ControlType'
    BY <1>0, <2>1 DEF CompactHistory, response, call, gate, receiver
  <2>2. CASE TextForwarded \/ StreamCancelled \/ CallSkipped \/ CallStarted \/ Refused
    BY <1>0, <2>2 DEF TextForwarded, StreamCancelled, CallSkipped, CallStarted, Refused, loop, response, call, gate, receiver
  <2>3. CASE AutoApproved
    <3>1. PICK source \in AutoApproval(Current.kind, ApprovalMode, Enforced, rules) :
            verdict' = Verdict("approve", source)
      BY <2>3 DEF AutoApproved
    <3>2. source \in Source
      BY <2>3, <3>1, AutoApprovalGrounds, CurrentKind, TypeParts DEF AutoApproved, Source, AtCall
    <3> QED
      BY <1>0, <2>3, <3>1, <3>2 DEF AutoApproved, Decision, loop, response, call, gate, receiver
  <2>7. CASE AskRefused
    BY <1>0, <2>7 DEF AskRefused, Decision, Source, loop, response, call, gate, receiver
  <2>8. CASE AskOpens
    BY <1>0, <2>8 DEF AskOpens, loop, response, call, gate, receiver
  <2>4. CASE GateShows \/ GateResolved \/ RecordDecision \/ RecordRetry
    BY <1>0, <2>4 DEF GateShows, GateResolved, RecordDecision, RecordRetry, loop, response, call, gate, receiver
  <2>5. CASE GateDecides
    <3>1. answer = NoAnswer \/ answer \in Decision
      BY DEF TypeOK
    <3> QED
      BY <1>0, <2>5, <3>1 DEF GateDecides, Decision, Source, loop, response, call, gate, receiver
  <2>6. CASE RunStarts \/ RunCancelled \/ Finish
    BY <1>0, <2>6 DEF RunStarts, RunCancelled, Finish, loop, response, call, gate, receiver
  <2>9. CASE CallFinished
    <3>1. step' \in 0..MaxSteps
      BY <1>0, <2>9 DEF CallFinished
    <3>2. verdict' \in [decision : Decision, source : Source] /\ retry' \in BOOLEAN
      BY <1>0, <2>9 DEF CallFinished, Decision, Source
    <3>3. pc' \in {"call", "finish", "compact"} /\ outcome' \in Outcome
          /\ UNCHANGED <<text, cancelled, listening, turns>>
      BY <1>0, <2>9 DEF CallFinished, response, receiver
    <3> QED
      BY <1>0, <3>1, <3>2, <3>3
  <2> QED
    BY <1>4, <2>1, <2>2, <2>3, <2>4, <2>5, <2>6, <2>7, <2>8, <2>9 DEF TaskStep
<1> QED
  BY <1>1, <1>2, <1>3, <1>4, <1>5, <1>6 DEF Next
(* Only a new response, a new call and the end of one change the calls.    *)
LEMMA CallsChange ==
  ASSUME [Next]_vars
  PROVE  \/ UNCHANGED <<calls, index, nextId>> /\ (pc' \in AtCall => pc \in AtCall)
         \/ StreamDone \/ CallFinished
         \/ \E kind \in Kinds : StreamCall(kind)
         \/ \E mask, summarize \in BOOLEAN : CompactHistory(mask, summarize)
BY DEF Next, TaskStep, Provider, Tool, User, FrontEnd, vars, loop, response, call, gate,
       receiver, StartTurn, SummaryArrives, NoSummary, StreamText, TextForwarded, CallSkipped,
       CallStarted, StreamCancelled, StreamFails,
       Refused, AutoApproved, MustAsk, AskRefused, AskOpens, GateShows, UserAnswers, GateDecides,
       GateResolved, RecordDecision, RecordRetry, RunStarts, RunEnds, RunBlocked, RunCancelled,
       Finish, Cancel, Receive, Hangup, AtCall

LEMMA CallsStep ==
  ASSUME TypeOK, CallsKnown, [Next]_vars
  PROVE  CallsType'
<1> USE Bounds DEF AtCall
<1>0. ControlType /\ CallsType /\ CallsKnown
  BY TypeParts
<1>1. CASE UNCHANGED <<calls, index, nextId>> /\ (pc' \in AtCall => pc \in AtCall)
  BY <1>0, <1>1 DEF CallsType
<1>2. CASE StreamDone
  <2>1. /\ UNCHANGED <<calls, nextId>> /\ index' = 1
        /\ pc' \in AtCall => calls # <<>>
    BY <1>2 DEF StreamDone, response
  <2>2. pc' \in AtCall => 1 <= Len(calls)
    BY <1>0, <2>1 DEF CallsType
  <2>3. QED
    BY <1>0, <2>1, <2>2 DEF CallsType
<1>3. CASE CallFinished
  <2>1. /\ UNCHANGED <<calls, nextId>> /\ index' = index + 1 /\ index <= Len(calls)
        /\ pc' \in AtCall => index < Len(calls)
    BY <1>0, <1>3 DEF CallFinished, response, CallsType
  <2>2. QED
    BY <1>0, <2>1 DEF CallsType, CallsKnown
<1>4. ASSUME NEW kind \in Kinds, StreamCall(kind) PROVE CallsType'
  <2>1. /\ calls' = Append(calls, [id |-> nextId, kind |-> kind]) /\ nextId' = nextId + 1
        /\ nextId <= MaxIds /\ UNCHANGED <<index, pc>> /\ pc \notin AtCall
    BY <1>4 DEF StreamCall, call
  <2>2. [id |-> nextId, kind |-> kind] \in [id : 1..MaxIds, kind : Kinds]
    BY <1>0, <2>1 DEF CallsType
  <2>3. calls' \in Seq([id : 1..MaxIds, kind : Kinds])
    BY <1>0, <2>1, <2>2 DEF CallsType
  <2>4. QED
    BY <1>0, <2>1, <2>3 DEF CallsType
<1>5. ASSUME NEW mask \in BOOLEAN, NEW summarize \in BOOLEAN, CompactHistory(mask, summarize)
      PROVE  CallsType'
  BY <1>0, <1>5 DEF CompactHistory, CallsType, call
<1> QED
  BY <1>1, <1>2, <1>3, <1>4, <1>5, CallsChange
(* Which of its steps a call goes through.                                 *)
LEMMA JudgedStep ==
  ASSUME TypeOK, CallsKnown, [Next]_vars
  PROVE  /\ (pc \in Judging => Current.kind # BadCall)'
         /\ (pc \in {"idle", "compact", "summarize", "stream", "forward", "call", "execute",
                     "finish"} => ~retry)'
         /\ (pc = "ask" => retry)'
<1> USE DEF CallsKnown, Judging, Current
<1>1. CASE User
  BY <1>1 DEF User, StartTurn, Cancel, UserAnswers, response, call
<1>2. CASE Provider
  <2>1. CASE StreamDone
    BY <2>1 DEF StreamDone, response
  <2>2. ASSUME NEW kind \in Kinds, StreamCall(kind)
        PROVE  UNCHANGED <<pc, retry>> /\ pc = "stream"
    BY <2>2 DEF StreamCall, call
  <2> QED
    BY <1>2, <2>1, <2>2 DEF Provider, SummaryArrives, NoSummary, StreamText, StreamFails, response, call
<1>3. CASE Tool
  BY <1>3 DEF Tool, RunEnds, RunBlocked, response, call
<1>4. CASE FrontEnd \/ UNCHANGED vars
  BY <1>4 DEF FrontEnd, Receive, Hangup, response, call, vars
<1>5. CASE TaskStep
  <2>1. ASSUME NEW mask \in BOOLEAN, NEW summarize \in BOOLEAN, CompactHistory(mask, summarize)
        PROVE  ~retry' /\ pc' \in {"summarize", "stream"}
    BY <2>1 DEF CompactHistory, call
  <2>2. CASE TextForwarded \/ StreamCancelled \/ CallSkipped \/ CallStarted \/ Refused \/ Finish
    BY <2>2 DEF TextForwarded, StreamCancelled, CallSkipped, CallStarted, Refused, Finish, response, call
  <2>3. CASE AutoApproved \/ AskRefused \/ AskOpens
    BY <2>3 DEF AutoApproved, AskRefused, AskOpens, MustAsk, response, call
  <2>4. CASE GateShows \/ GateDecides \/ GateResolved \/ RecordDecision \/ RecordRetry
    BY <2>4 DEF GateShows, GateDecides, GateResolved, RecordDecision, RecordRetry, response, call
  <2>5. CASE RunStarts \/ RunCancelled
    BY <2>5 DEF RunStarts, RunCancelled, response, call
  <2>6. CASE CallFinished
    BY <2>6 DEF CallFinished
  <2> QED
    BY <1>5, <2>1, <2>2, <2>3, <2>4, <2>5, <2>6 DEF TaskStep
<1> QED
  BY <1>1, <1>2, <1>3, <1>4, <1>5 DEF Next

LEMMA CallsKnownStep ==
  ASSUME TypeOK, CallsKnown, [Next]_vars
  PROVE  CallsKnown'
<1> DEFINE K(cs, n) == /\ Len(cs) <= MaxCalls
                       /\ \A i \in 1..Len(cs) : cs[i].id < n
                       /\ \A i, j \in 1..Len(cs) : cs[i].id = cs[j].id => i = j
<1>0. CallsType /\ K(calls, nextId)
  BY TypeParts DEF CallsKnown
<1>2. ASSUME NEW kind \in Kinds, StreamCall(kind) PROVE K(calls', nextId')
  <2>1. /\ calls' = Append(calls, [id |-> nextId, kind |-> kind]) /\ nextId' = nextId + 1
        /\ Len(calls) < MaxCalls
    BY <1>2 DEF StreamCall
  <2>2. /\ Len(calls') = Len(calls) + 1
        /\ \A i \in 1..Len(calls) : calls'[i] = calls[i]
        /\ calls'[Len(calls) + 1].id = nextId
    BY <1>0, <2>1 DEF CallsType
  <2>3. Len(calls) \in Nat /\ nextId \in Nat
    BY <1>0 DEF CallsType
  <2>4. ASSUME NEW i \in 1..Len(calls')
        PROVE  \/ i \in 1..Len(calls) /\ calls'[i] = calls[i] /\ calls'[i].id < nextId
               \/ i = Len(calls) + 1 /\ calls'[i].id = nextId
    BY <1>0, <2>2, <2>3
  <2>5. \A i \in 1..Len(calls') : calls'[i].id < nextId'
    <3> TAKE i \in 1..Len(calls')
    <3>1. CASE i \in 1..Len(calls) /\ calls'[i] = calls[i]
      <4>1. calls[i].id \in Nat
        <5>1. calls[i] \in [id : 1..MaxIds, kind : Kinds]
          BY <1>0, <3>1, ElementOfSeq DEF CallsType
        <5> QED
          BY <5>1, Bounds
      <4> QED
        BY <1>0, <2>1, <2>3, <3>1, <4>1
    <3> QED
      BY <2>1, <2>3, <2>4, <3>1
  <2>6. \A i, j \in 1..Len(calls') : calls'[i].id = calls'[j].id => i = j
    <3> TAKE i, j \in 1..Len(calls')
    <3> QED
      BY <1>0, <2>3, <2>4
  <2>7. Len(calls') <= MaxCalls
    BY <1>0, <2>1, <2>2, <2>3, Bounds
  <2> QED
    BY <2>5, <2>6, <2>7
<1>3. ASSUME NEW mask \in BOOLEAN, NEW summarize \in BOOLEAN, CompactHistory(mask, summarize)
      PROVE  K(calls', nextId')
  <2>1. calls' = <<>>
    BY <1>3 DEF CompactHistory
  <2> QED
    BY <2>1, Bounds
<1>4. K(calls', nextId')
  <2> HIDE DEF K
  <2>1. calls' = calls /\ nextId' = nextId => K(calls', nextId')
    BY <1>0
  <2> QED
    BY <1>2, <1>3, <2>1, CallsChange DEF StreamDone, CallFinished, response
<1> QED
  BY <1>4, JudgedStep DEF CallsKnown
-----------------------------------------------------------------------------
(* Only the gate's actions change the prompt and its answers, and only an  *)
(* answer grants a rule.                                                   *)
LEMMA GateChange ==
  ASSUME [Next]_vars
  PROVE  \/ UNCHANGED <<prompt, answer, answers, granted>>
              /\ (pc = "gate" => pc' = "gate" /\ UNCHANGED <<calls, index, retry>>)
         \/ StartTurn \/ GateShows \/ GateDecides
         \/ \E decision \in Decision : UserAnswers(decision)
BY DEF Next, TaskStep, Provider, Tool, User, FrontEnd, vars, loop, response, call, gate,
       receiver, CompactHistory, SummaryArrives, NoSummary, StreamText, TextForwarded, CallSkipped,
       CallStarted, StreamCancelled, StreamFails, StreamDone, StreamCall,
       Refused, AutoApproved, MustAsk, AskRefused, AskOpens,
       GateResolved, RecordDecision, RecordRetry, RunStarts, RunEnds, RunBlocked, RunCancelled,
       CallFinished, Finish, Cancel, Receive, Hangup

LEMMA PromptStep ==
  ASSUME TypeOK, CallsKnown, PromptKnown, [Next]_vars
  PROVE  PromptKnown'
<1>1. CASE /\ UNCHANGED <<prompt, answer, answers, granted>>
           /\ pc = "gate" => pc' = "gate" /\ UNCHANGED <<calls, index, retry>>
  BY <1>1 DEF PromptKnown, Current
<1>2. CASE StartTurn
  BY <1>2 DEF StartTurn, PromptKnown
<1>3. CASE GateShows
  BY <1>3 DEF GateShows, PromptKnown, Current, call, response
<1>4. CASE GateDecides
  BY <1>4 DEF GateDecides, PromptKnown
<1>5. ASSUME NEW decision \in Decision, UserAnswers(decision) PROVE PromptKnown'
  <2>1. /\ UNCHANGED <<pc, calls, index, retry, prompt>> /\ answer' = decision
        /\ prompt # NoPrompt /\ Offered(decision)
        /\ answers' = answers \cup
             {[id |-> prompt.id, retry |-> prompt.retry, decision |-> decision]}
        /\ granted' = IF decision = "always" THEN granted \cup {Current.kind.rule} ELSE granted
    BY <1>5 DEF UserAnswers, response, call
  <2>2. pc = "gate" /\ prompt = [id |-> Current.id, retry |-> retry]
    BY <2>1 DEF PromptKnown
  <2>3. /\ retry => decision \notin {"approve", "always"}
        /\ decision = "unsandboxed" => Confinement(Current.kind, Enforced) = "enforced"
    BY <2>1, <2>2 DEF Offered
  <2> QED
    BY <2>1, <2>2, <2>3 DEF PromptKnown, Current
<1> QED
  BY <1>1, <1>2, <1>3, <1>4, <1>5, GateChange
-----------------------------------------------------------------------------
(* A verdict comes from the policy or the gate, and stands until its call  *)
(* is over.                                                                *)
LEMMA VerdictChange ==
  ASSUME PromptKnown, [Next]_vars
  PROVE  \/ pc' \notin {"resolve", "record", "run", "running"}
         \/ pc' = pc /\ UNCHANGED <<verdict, retry, calls, index, answers, granted>>
         \/ AutoApproved \/ AskRefused \/ GateDecides
         \/ GateResolved \/ RecordDecision \/ RecordRetry \/ RunStarts
BY DEF PromptKnown, Next, TaskStep, Provider, Tool, User, FrontEnd, vars, loop, response, call, gate,
       receiver, StartTurn, CompactHistory, SummaryArrives, NoSummary, StreamText, TextForwarded,
       CallSkipped, CallStarted, StreamCancelled, StreamFails, StreamDone, StreamCall,
       Refused, AskOpens, GateShows, UserAnswers, RunEnds, RunBlocked, RunCancelled,
       CallFinished, Finish, Cancel, Receive, Hangup

LEMMA VerdictStep ==
  ASSUME TypeOK, CallsKnown, PromptKnown, VerdictKnown, [Next]_vars
  PROVE  VerdictKnown'
<1> USE DEF Current
<1>0. ControlType /\ CallsType /\ GateType
  BY TypeParts
<1>1. CASE pc' \notin {"resolve", "record", "run", "running"}
  BY <1>1 DEF VerdictKnown
<1>2. CASE pc' = pc /\ UNCHANGED <<verdict, retry, calls, index, answers, granted>>
  BY <1>2 DEF VerdictKnown, MayRun, Answered, Unsandboxed
<1>3. CASE AutoApproved
  <2>1. PICK source \in AutoApproval(Current.kind, ApprovalMode, Enforced, rules) :
          verdict' = Verdict("approve", source)
    BY <1>3 DEF AutoApproved
  <2>2. Current.kind \in Kind
    BY <1>0, <1>3, CurrentKind DEF AutoApproved, AtCall
  <2>3. source \in {"mode", "rule"} /\ MayRun(Current)
    BY <1>0, <2>1, <2>2, AutoApprovalGrounds DEF MayRun, GateType
  <2>4. pc' = "record" /\ ~retry /\ UNCHANGED <<retry, calls, index, answers, granted>>
    BY <1>3 DEF AutoApproved, CallsKnown, response, gate
  <2>5. MayRun(Current)'
    BY <2>3, <2>4 DEF MayRun, Answered
  <2> QED
    BY <2>1, <2>3, <2>4, <2>5 DEF VerdictKnown, Verdict
<1>4. CASE AskRefused
  BY <1>4 DEF AskRefused, VerdictKnown, Verdict
<1>5. CASE GateDecides
  <2>1. /\ pc' \in {"resolve", "record"} /\ UNCHANGED <<retry, calls, index, answers, granted>>
        /\ \/ verdict'.decision = "deny"
           \/ answer # NoAnswer /\ verdict' = Verdict(answer, "gate")
    BY <1>5 DEF GateDecides, response, Verdict
  <2>2. CASE answer # NoAnswer /\ verdict' = Verdict(answer, "gate")
    <3>1. /\ [id |-> Current.id, retry |-> retry, decision |-> answer] \in answers
          /\ retry => answer \notin {"approve", "always"}
          /\ answer = "always" => Current.kind.rule \in granted
          /\ answer \in Decision
      BY <1>0, <2>2 DEF PromptKnown, GateType
    <3>2. answer # "deny" /\ ~retry => MayRun(Current)
      BY <3>1 DEF MayRun, Answered, Decision
    <3> QED
      BY <2>1, <2>2, <3>1, <3>2 DEF VerdictKnown, Verdict, MayRun, Answered
  <2> QED
    BY <2>1, <2>2 DEF VerdictKnown
<1>6. CASE GateResolved \/ RecordDecision
  <2>1. /\ UNCHANGED <<verdict, retry, calls, index, answers, granted>>
        /\ pc \in {"resolve", "record"} /\ pc' \in {"record", "run", "result"}
        /\ pc' = "run" => verdict.decision # "deny" /\ ~retry
    BY <1>6 DEF GateResolved, RecordDecision, response, call, gate
  <2> QED
    BY <2>1 DEF VerdictKnown, MayRun, Answered
<1>7. CASE RecordRetry
  <2>1. /\ UNCHANGED <<verdict, retry, calls, index, answers, granted>>
        /\ pc = "record" /\ retry /\ pc' \in {"run", "result"}
        /\ pc' = "run" => Unsandboxed
    BY <1>7 DEF RecordRetry, response, call, gate
  <2> QED
    BY <2>1 DEF VerdictKnown, MayRun, Answered, Unsandboxed
<1>8. CASE RunStarts
  <2>1. /\ UNCHANGED <<verdict, retry, calls, index, answers, granted>>
        /\ pc = "run" /\ pc' = "running"
    BY <1>8 DEF RunStarts, response, call, gate
  <2> QED
    BY <2>1 DEF VerdictKnown, MayRun, Answered, Unsandboxed
<1> QED
  BY <1>1, <1>2, <1>3, <1>4, <1>5, <1>6, <1>7, <1>8, VerdictChange
-----------------------------------------------------------------------------
(* What was answered, granted and run stays, but for the next turn.        *)
LEMMA GateGrows ==
  ASSUME [Next]_vars
  PROVE  \/ UNCHANGED <<prompt, answer, answers, rules, granted, runs>>
         \/ StartTurn \/ GateShows \/ GateDecides \/ RecordDecision \/ RunStarts
         \/ \E decision \in Decision : UserAnswers(decision)
BY DEF Next, TaskStep, Provider, Tool, User, FrontEnd, vars, loop, response, call, gate,
       receiver, CompactHistory, SummaryArrives, NoSummary, StreamText, TextForwarded, CallSkipped,
       CallStarted, StreamCancelled, StreamFails, StreamDone, StreamCall,
       Refused, AutoApproved, AskRefused, AskOpens, GateResolved, RecordRetry, RunEnds, RunBlocked,
       RunCancelled, CallFinished, Finish, Cancel, Receive, Hangup

LEMMA GateStep ==
  ASSUME TypeOK, CallsKnown, PromptKnown, VerdictKnown, [Next]_vars
  PROVE  GateType'
<1> USE Bounds DEF GateType
<1>0. ControlType /\ CallsType /\ GateType
  BY TypeParts
<1>a. pc \in AtCall => Current.id \in 1..MaxIds
  BY <1>0, CurrentType
<1>b. pc \in Judging => Current.kind \in Kind
  BY <1>0, CurrentKind DEF CallsKnown, Judging, AtCall
<1>1. CASE UNCHANGED <<prompt, answer, answers, rules, granted, runs>>
  BY <1>0, <1>1
<1>2. CASE StartTurn
  BY <1>0, <1>2 DEF StartTurn
<1>3. CASE GateShows
  BY <1>0, <1>a, <1>3 DEF GateShows, AtCall, ControlType
<1>4. CASE GateDecides
  BY <1>0, <1>4 DEF GateDecides
<1>5. ASSUME NEW decision \in Decision, UserAnswers(decision) PROVE GateType'
  <2>1. /\ UNCHANGED <<prompt, rules, runs>> /\ answer' = decision /\ prompt # NoPrompt
        /\ answers' = answers \cup
             {[id |-> prompt.id, retry |-> prompt.retry, decision |-> decision]}
    BY <1>5 DEF UserAnswers
  <2>2. [id |-> prompt.id, retry |-> prompt.retry, decision |-> decision]
          \in [id : 1..MaxIds, retry : BOOLEAN, decision : Decision]
    BY <1>0, <2>1
  <2>3. granted \subseteq granted' /\ granted' \subseteq Rules
    <3>1. CASE decision = "always"
      <4>1. Current.kind.rule # NoRule
        BY <1>5, <3>1 DEF UserAnswers, Offered, AllowRule
      <4>2. Current.kind \in Kind
        BY <1>b, <2>1 DEF PromptKnown, Judging
      <4>3. Current.kind.rule \in Rules
        BY <4>1, <4>2 DEF Kind
      <4> QED
        BY <1>0, <1>5, <3>1, <4>3 DEF UserAnswers
    <3>2. CASE decision # "always"
      BY <1>0, <1>5, <3>2 DEF UserAnswers
    <3> QED
      BY <3>1, <3>2
  <2> QED
    BY <1>0, <2>1, <2>2, <2>3
<1>6. CASE RecordDecision
  <2>1. /\ UNCHANGED <<prompt, answer, answers, granted, runs>> /\ pc = "record"
        /\ rules' = IF verdict.decision = "always"
                    THEN Remembered(rules, Current.kind, ApprovalMode, Enforced) ELSE rules
    BY <1>6 DEF RecordDecision, gate
  <2>2. rules' \subseteq granted
    BY <1>0, <2>1 DEF VerdictKnown, Remembered, AllowRule
  <2> QED
    BY <1>0, <2>1, <2>2
<1>7. CASE RunStarts
  <2>1. /\ UNCHANGED <<prompt, answer, answers, rules, granted>> /\ pc = "run"
        /\ runs' = runs \cup {ThisRun}
    BY <1>7 DEF RunStarts, gate, ThisRun
  <2>2. ThisRun \in [id : 1..MaxIds, kind : Kind, retry : BOOLEAN, free : BOOLEAN]
    BY <1>0, <1>a, <1>b, <2>1 DEF ThisRun, Unsandboxed, ControlType, AtCall, Judging
  <2> QED
    BY <1>0, <2>1, <2>2
<1> QED
  BY <1>1, <1>2, <1>3, <1>4, <1>5, <1>6, <1>7, GateGrows

(* A second attempt begins when the sandbox blocked the first one.         *)
LEMMA RetryChange ==
  ASSUME CallsKnown, [Next]_vars, pc' \in Judging, retry'
  PROVE  RunBlocked \/ (pc \in Judging /\ UNCHANGED <<retry, calls, index>>)
BY DEF CallsKnown, Judging, Next, TaskStep, Provider, Tool, User, FrontEnd, vars, loop, response,
       call, gate, receiver, StartTurn, CompactHistory, SummaryArrives, NoSummary, StreamText,
       TextForwarded, CallSkipped, MustAsk,
       CallStarted, StreamCancelled, StreamFails, StreamDone, StreamCall, GateShows, GateDecides,
       UserAnswers, RecordDecision, RunStarts,
       Refused, AutoApproved, AskRefused, AskOpens, GateResolved, RecordRetry, RunEnds,
       RunCancelled, CallFinished, Finish, Cancel, Receive, Hangup

LEMMA RunKnownStep ==
  ASSUME TypeOK, CallsKnown, PromptKnown, VerdictKnown, RunKnown, [Next]_vars
  PROVE  RunKnown'
<1>1. runs \subseteq runs' \/ pc' = "compact"
  BY GateGrows DEF StartTurn, GateShows, GateDecides, RecordDecision, RunStarts, UserAnswers
<1>2. ASSUME pc' = "running" PROVE (ThisRun \in runs)'
  <2>1. CASE pc = "running" /\ UNCHANGED <<verdict, retry, calls, index>>
    BY <1>1, <1>2, <2>1 DEF RunKnown, ThisRun, Current, Unsandboxed
  <2>2. CASE RunStarts
    BY <2>2 DEF RunStarts, ThisRun, Current, Unsandboxed, response, call
  <2> QED
    BY <1>2, <2>1, <2>2, VerdictChange DEF AutoApproved, AskRefused, GateDecides,
       GateResolved, RecordDecision, RecordRetry
<1>3. ASSUME pc' \in Judging, retry'
      PROVE  (FirstRun \in runs)' /\ (Confinement(Current.kind, Enforced) = "enforced")'
  <2>1. CASE RunBlocked
    <3>1. /\ pc = "running" /\ UNCHANGED <<calls, index, runs>> /\ ~Unsandboxed
          /\ Confinement(Current.kind, Enforced) = "enforced"
      BY <2>1 DEF RunBlocked, response
    <3>2. ~retry /\ ThisRun = FirstRun
      BY <3>1, TypeParts DEF VerdictKnown, ThisRun, FirstRun, ControlType, Unsandboxed
    <3> QED
      BY <3>1, <3>2 DEF RunKnown, FirstRun, Current
  <2>2. CASE pc \in Judging /\ UNCHANGED <<retry, calls, index>>
    BY <1>1, <1>3, <2>2 DEF RunKnown, FirstRun, Current, Judging
  <2> QED
    BY <1>3, <2>1, <2>2, RetryChange
<1> QED
  BY <1>2, <1>3 DEF RunKnown

(* A run that starts has the authority it needs, and what gave it lasts.   *)
LEMMA AuthorizedStep ==
  ASSUME TypeOK, CallsKnown, PromptKnown, VerdictKnown, RunKnown, Authorized, [Next]_vars
  PROVE  Authorized'
<1> USE DEF Authorized, Answered
<1>1. CASE UNCHANGED <<runs, granted, answers>>
  BY <1>1
<1>2. CASE StartTurn
  BY <1>2 DEF StartTurn
<1>3. ASSUME NEW decision \in Decision, UserAnswers(decision) PROVE Authorized'
  <2>1. answers \subseteq answers' /\ granted \subseteq granted' /\ runs' = runs
    BY <1>3 DEF UserAnswers
  <2> QED
    BY <2>1
<1>4. CASE RunStarts
  <2>1. /\ UNCHANGED <<answers, granted>> /\ pc = "run"
        /\ runs' = runs \cup {ThisRun}
    BY <1>4 DEF RunStarts, gate, ThisRun
  <2>2. ControlType
    BY TypeParts
  <2>3. ThisRun.free => Answered(ThisRun, ThisRun.retry, {"unsandboxed"})
    BY <2>1 DEF ThisRun, Unsandboxed, VerdictKnown
  <2>4. CASE ~retry
    <3>1. MayRun(Current)
      BY <2>1, <2>4 DEF VerdictKnown
    <3> QED
      BY <2>1, <2>3, <2>4, <3>1 DEF MayRun, ThisRun
  <2>5. CASE retry
    <3>1. FirstRun \in runs /\ ThisRun.free
      BY <2>1, <2>5 DEF RunKnown, VerdictKnown, Judging, ThisRun
    <3>2. MayRun(Current)
      BY <3>1 DEF MayRun, FirstRun
    <3>3. /\ ThisRun.id = FirstRun.id /\ ~FirstRun.retry /\ ~FirstRun.free
          /\ ThisRun.id = Current.id /\ ThisRun.kind = Current.kind
      BY DEF ThisRun, FirstRun
    <3>4. MayRun(ThisRun)
      BY <3>2, <3>3 DEF MayRun
    <3>5. \A r \in runs' : MayRun(r)
      BY <2>1, <3>4 DEF MayRun
    <3>6. \A r \in runs' : r.free => Answered(r, r.retry, {"unsandboxed"})
      BY <2>1, <2>3
    <3>7. \A r \in runs' : r.retry =>
            r.free /\ \E first \in runs' : first.id = r.id /\ ~first.retry /\ ~first.free
      BY <2>1, <3>1, <3>3
    <3> QED
      BY <2>1, <3>5, <3>6, <3>7 DEF MayRun
  <2> QED
    BY <2>2, <2>4, <2>5 DEF ControlType
<1> QED
  BY <1>1, <1>2, <1>3, <1>4, GateGrows DEF GateShows, GateDecides, RecordDecision, gate
-----------------------------------------------------------------------------
LEMMA EventsChange ==
  ASSUME [Next]_vars
  PROVE  \/ UNCHANGED events
         \/ TextForwarded \/ CallStarted \/ AskOpens \/ GateResolved
         \/ RecordDecision \/ RecordRetry \/ CallFinished \/ Finish
         \/ Receive \/ Hangup
BY DEF Next, TaskStep, Provider, Tool, User, FrontEnd, vars, StartTurn, CompactHistory,
       SummaryArrives, NoSummary, StreamText, StreamCall, StreamDone, StreamCancelled, StreamFails,
       CallSkipped, Refused, AutoApproved, AskRefused, GateShows, UserAnswers, GateDecides,
       RunStarts, RunEnds, RunBlocked, RunCancelled, Cancel

LEMMA EventsStep ==
  ASSUME TypeOK, [Next]_vars
  PROVE  EventsType'
<1>0. ControlType /\ CallsType /\ EventsType
  BY TypeParts
<1>1. CASE UNCHANGED events
  BY <1>0, <1>1 DEF EventsType
<1>2. ASSUME NEW type \in {"started", "pending", "resolved", "approval", "finished"},
             pc \in AtCall, Send(Event(type, Current.id))
      PROVE  EventsType'
  <2>1. Current.id \in 1..MaxIds
    BY <1>0, <1>2, CurrentType, Bounds
  <2>2. Event(type, Current.id) \in EventOf
    BY <2>1 DEF Event, EventOf
  <2> QED
    BY <1>0, <1>2, <2>2, SendType
<1>3. ASSUME NEW type \in {"text"} \cup Outcome, Send(Event(type, 0))
      PROVE  EventsType'
  <2>1. Event(type, 0) \in EventOf
    BY Bounds DEF Event, EventOf
  <2> QED
    BY <1>0, <1>3, <2>1, SendType
<1>4. CASE TextForwarded \/ Finish
  BY <1>0, <1>3, <1>4 DEF TextForwarded, Finish, ControlType
<1>5. CASE CallStarted \/ GateResolved \/ RecordDecision \/ RecordRetry \/ CallFinished
  BY <1>2, <1>5 DEF CallStarted, GateResolved, RecordDecision, RecordRetry, CallFinished, AtCall
<1>6. CASE AskOpens
  BY <1>1, <1>2, <1>6 DEF AskOpens, MustAsk, AtCall
<1>7. CASE Receive \/ Hangup
  <2>1. CASE Receive
    BY <1>0, <2>1, HeadTailProperties, Bounds DEF Receive, EventsType
  <2>2. CASE Hangup
    BY <1>0, <2>2, Bounds DEF Hangup, EventsType
  <2> QED
    BY <1>7, <2>1, <2>2
<1> QED
  BY <1>1, <1>4, <1>5, <1>6, <1>7, EventsChange
(* What each event tells the receiver.                                     *)
LEMMA ReceivedIs ==
  ASSUME NEW f \in FeedOf, NEW e \in EventOf
  PROVE  LET g == Received(f, e)
         IN /\ g \in FeedOf
            /\ g.prompt = IF e.type = "pending" THEN e.id
                          ELSE IF e.type = "resolved" THEN 0 ELSE f.prompt
            /\ g.running = IF e.type = "started" THEN f.running \cup {e.id}
                           ELSE IF e.type = "finished" THEN f.running \ {e.id} ELSE f.running
            /\ g.approvals = IF e.type = "approval" THEN Append(f.approvals, e.id)
                             ELSE f.approvals
<1> USE Bounds DEF FeedOf
<1>1. CASE e.type = "started"
  <2>1. e.id \in 1..MaxIds /\ Received(f, e) = [f EXCEPT !.running = f.running \cup {e.id}]
    BY <1>1 DEF EventOf, Outcome, Received
  <2> QED
    BY <1>1, <2>1
<1>2. CASE e.type = "pending"
  <2>1. e.id \in 1..MaxIds /\ Received(f, e) = [f EXCEPT !.prompt = e.id]
    BY <1>2 DEF EventOf, Outcome, Received
  <2> QED
    BY <1>2, <2>1
<1>3. CASE e.type = "resolved"
  <2>1. Received(f, e) = [f EXCEPT !.prompt = 0]
    BY <1>3 DEF Received, Outcome
  <2> QED
    BY <1>3, <2>1
<1>4. CASE e.type = "approval"
  <2>1. e.id \in 1..MaxIds /\ Received(f, e) = [f EXCEPT !.approvals = Append(f.approvals, e.id)]
    BY <1>4 DEF EventOf, Outcome, Received
  <2>2. Append(f.approvals, e.id) \in Seq(1..MaxIds)
    BY <2>1
  <2> QED
    BY <1>4, <2>1, <2>2
<1>5. CASE e.type = "finished"
  <2>1. Received(f, e) = [f EXCEPT !.running = f.running \ {e.id}]
    BY <1>5 DEF Received, Outcome
  <2> QED
    BY <1>5, <2>1
<1>6. CASE e.type \in {"text"} \cup Outcome
  <2>1. Received(f, e) = f \/ Received(f, e) = [f EXCEPT !.over = TRUE]
    BY <1>6 DEF Received, Outcome
  <2> QED
    BY <1>6, <2>1 DEF Outcome
<1> QED
  BY <1>1, <1>2, <1>3, <1>4, <1>5, <1>6 DEF EventOf

LEMMA FeedChange ==
  ASSUME [Next]_vars
  PROVE  UNCHANGED feed \/ StartTurn \/ Receive
BY DEF Next, TaskStep, Provider, Tool, User, FrontEnd, vars, receiver, CompactHistory,
       SummaryArrives, NoSummary, StreamText, TextForwarded, StreamCall, StreamDone,
       StreamCancelled, StreamFails, CallSkipped, CallStarted, Refused, AutoApproved, AskRefused,
       AskOpens, GateShows, UserAnswers, GateDecides, GateResolved, RecordDecision, RecordRetry,
       CallFinished, Finish, RunStarts, RunEnds, RunBlocked, RunCancelled, Cancel, Hangup

LEMMA FeedStep ==
  ASSUME TypeOK, [Next]_vars
  PROVE  FeedType'
<1>0. EventsType /\ FeedType
  BY TypeParts
<1>1. CASE UNCHANGED feed
  BY <1>0, <1>1 DEF FeedType
<1>2. CASE StartTurn
  BY <1>2, Bounds DEF StartTurn, NewFeed, FeedType, FeedOf
<1>3. CASE Receive
  <2>1. Head(events) \in EventOf /\ feed' = Received(feed, Head(events))
    BY <1>0, <1>3, HeadTailProperties DEF EventsType, Receive
  <2> QED
    BY <1>0, <2>1, ReceivedIs DEF FeedType
<1> QED
  BY <1>1, <1>2, <1>3, FeedChange

-----------------------------------------------------------------------------
LEMMA MessagesStep ==
  ASSUME TypeOK, [Next]_vars
  PROVE  MessagesType'
<1>0. ControlType /\ CallsType /\ MessagesType
  BY TypeParts
<1>1. CASE UNCHANGED messages
  BY <1>0, <1>1 DEF MessagesType
<1>2. ASSUME NEW m \in Message, messages' = Append(messages, m) PROVE MessagesType'
  BY <1>0, <1>2 DEF MessagesType
<1>3. ASSUME NEW role \in Role, NEW ids \in Seq(Nat), NEW id \in Nat
      PROVE  Msg(role, ids, id) \in Message
  BY DEF Msg, Message
<1>e. ASSUME NEW role \in Role PROVE Msg(role, <<>>, 0) \in Message
  BY <1>3, EmptySeq
<1>4. Ids(calls) \in Seq(Nat)
  <2>1. \A i \in 1..Len(calls) : calls[i] \in [id : 1..MaxIds, kind : Kinds]
    BY <1>0, ElementOfSeq DEF CallsType
  <2>2. \A i \in 1..Len(calls) : calls[i].id \in Nat
    BY <2>1, Bounds
  <2>3. Len(calls) \in Nat /\ DOMAIN calls = 1..Len(calls)
    BY <1>0, LenProperties DEF CallsType
  <2> QED
    BY <2>2, <2>3 DEF Ids
<1>5. CASE StartTurn
  BY <1>2, <1>e, <1>5 DEF StartTurn, Role
<1>6. CASE SummaryArrives
  <2>1. KeepTurns \in Nat /\ Msg("summary", <<>>, 0) \in Message
    BY <1>e, TurnAssumption DEF TurnAssumption, Role
  <2> QED
    BY <1>0, <1>6, <2>1, SummarizedType DEF SummaryArrives, MessagesType
<1>7. CASE StreamDone
  BY <1>1, <1>2, <1>3, <1>4, <1>7 DEF StreamDone, Role
<1>8. CASE StreamCancelled \/ StreamFails
  BY <1>1, <1>2, <1>e, <1>8 DEF StreamCancelled, StreamFails, KeepPartialText, Role
<1>9. CASE CallFinished
  <2>1. Current.id \in Nat
    BY <1>0, <1>9, CurrentType, Bounds DEF CallFinished, AtCall
  <2>2. Msg("tool", <<>>, Current.id) \in Message
    BY <1>3, <2>1, EmptySeq DEF Role
  <2> QED
    BY <1>2, <1>9, <2>2 DEF CallFinished
<1>10. ASSUME NEW mask \in BOOLEAN, NEW summarize \in BOOLEAN, CompactHistory(mask, summarize)
       PROVE  MessagesType'
  <2>1. \A m \in Message : [m EXCEPT !.role = "stub"] \in Message
    BY DEF Message, Role
  <2> QED
    BY <1>0, <1>10, <2>1, MaskTypeOf DEF CompactHistory, MessagesType
<1> QED
  BY <1>1, <1>5, <1>6, <1>7, <1>8, <1>9, <1>10, MessagesChange

-----------------------------------------------------------------------------
LEMMA InitAuthority == Init => Authority
<1> SUFFICES ASSUME Init PROVE Authority
  OBVIOUS
<1> USE Bounds DEF Init
<1>1. ControlType
  <2>1. verdict \in [decision : Decision, source : Source] /\ outcome \in Outcome
    BY DEF NoVerdict, Verdict, Decision, Source, Outcome
  <2>2. step \in 0..MaxSteps /\ turns \in 0..MaxTurns
    OBVIOUS
  <2> QED
    BY <2>1, <2>2 DEF ControlType
<1>2. CallsType /\ EventsType /\ FeedType
  BY DEF CallsType, AtCall, EventsType, FeedType, FeedOf, NewFeed
<1>3. GateType
  BY TurnAssumption DEF GateType, TurnAssumption
<1>4. MessagesType
  <2>1. SystemPrompt \in Message
    BY DEF SystemPrompt, Msg, Message, Role
  <2> QED
    BY <2>1 DEF MessagesType
<1>5. CallsKnown /\ PromptKnown /\ VerdictKnown /\ RunKnown /\ Authorized
  BY DEF CallsKnown, PromptKnown, VerdictKnown, RunKnown, Authorized, Judging
<1> QED
  BY <1>1, <1>2, <1>3, <1>4, <1>5, TypeParts DEF Authority

LEMMA AuthorityStep == Authority /\ [Next]_vars => Authority'
<1> SUFFICES ASSUME Authority, [Next]_vars PROVE Authority'
  OBVIOUS
<1> USE DEF Authority
<1>1. (ControlType /\ CallsType /\ GateType)'
  BY ControlStep, CallsStep, GateStep
<1>2. (EventsType /\ FeedType /\ MessagesType)'
  BY EventsStep, FeedStep, MessagesStep
<1>3. TypeOK'
  BY <1>1, <1>2 DEF TypeOK, ControlType, CallsType, GateType, EventsType, FeedType, MessagesType,
     EventOf, FeedOf, AtCall
<1>4. (CallsKnown /\ PromptKnown /\ VerdictKnown /\ RunKnown /\ Authorized)'
  BY CallsKnownStep, PromptStep, VerdictStep, RunKnownStep, AuthorizedStep
<1> QED
  BY <1>3, <1>4

(* Every variable of a turn keeps to its type, whatever the provider, the  *)
(* user and the machine do and wherever the turn is cancelled (run_turn).  *)
THEOREM TurnTypeCorrect == Spec => []TypeOK
<1>1. Authority => TypeOK
  BY DEF Authority
<1> QED
  BY InitAuthority, AuthorityStep, <1>1, PTL DEF Spec

(* No tool runs without the authority for it: the mode's, a rule's, or the *)
(* user's yes to that very call, and outside its sandbox only on a yes to  *)
(* that (execute in exec.rs); for any calls, rules and interleaving.       *)
THEOREM AuthorizedAlways == Spec => []Authorized
<1>1. Authority => Authorized
  BY DEF Authority
<1> QED
  BY InitAuthority, AuthorityStep, <1>1, PTL DEF Spec
-----------------------------------------------------------------------------
(* What an event that is sent, or received, changes in the last word.      *)
LEMMA PromptTellsMore ==
  ASSUME NEW sent \in Seq(EventOf), NEW e \in EventOf, NEW shown, NEW due,
         PromptTold(sent, shown, due)
  PROVE  PromptTold(Append(sent, e), shown,
                    IF TellsPrompt(e) THEN IF e.type = "pending" THEN e.id ELSE 0 ELSE due)
<1> DEFINE new == Append(sent, e)
<1>1. /\ Len(sent) \in Nat /\ Len(new) = Len(sent) + 1 /\ new[Len(sent) + 1] = e
      /\ \A i \in 1..Len(sent) : new[i] = sent[i]
  OBVIOUS
<1> HIDE DEF new
<1>2. CASE TellsPrompt(e)
  <2>1. ~(\A i \in 1..Len(new) : ~TellsPrompt(new[i]))
    BY <1>1, <1>2
  <2>2. ASSUME NEW i \in 1..Len(new), \A j \in (i + 1)..Len(new) : ~TellsPrompt(new[j])
        PROVE  new[i] = e
    <3>1. ~(Len(sent) + 1 \in (i + 1)..Len(new))
      BY <1>1, <1>2, <2>2
    <3> QED
      BY <1>1, <3>1
  <2> QED
    BY <1>2, <2>1, <2>2 DEF PromptTold, new
<1>3. CASE ~TellsPrompt(e)
  <2>1. ASSUME \A i \in 1..Len(new) : ~TellsPrompt(new[i])
        PROVE  shown = due
    <3>1. \A i \in 1..Len(sent) : ~TellsPrompt(sent[i])
      BY <1>1, <2>1
    <3> QED
      BY <3>1 DEF PromptTold
  <2>2. ASSUME NEW i \in 1..Len(new), TellsPrompt(new[i]),
               \A j \in (i + 1)..Len(new) : ~TellsPrompt(new[j])
        PROVE  due = IF new[i].type = "pending" THEN new[i].id ELSE 0
    <3>1. i \in 1..Len(sent) /\ new[i] = sent[i]
      BY <1>1, <1>3, <2>2
    <3>2. \A j \in (i + 1)..Len(sent) : ~TellsPrompt(sent[j])
      BY <1>1, <2>2, <3>1
    <3> QED
      BY <2>2, <3>1, <3>2 DEF PromptTold
  <2> QED
    BY <1>3, <2>1, <2>2 DEF PromptTold, new
<1> QED
  BY <1>2, <1>3

LEMMA PromptTellsLess ==
  ASSUME NEW sent \in Seq(EventOf), sent # <<>>, NEW f \in FeedOf, NEW due,
         PromptTold(sent, f.prompt, due)
  PROVE  PromptTold(Tail(sent), Received(f, Head(sent)).prompt, due)
<1> DEFINE e == Head(sent)
           new == Tail(sent)
<1>1. /\ Len(sent) \in Nat /\ Len(sent) >= 1 /\ Len(new) = Len(sent) - 1 /\ e = sent[1]
      /\ \A i \in 1..Len(new) : new[i] = sent[i + 1]
      /\ e \in EventOf
  BY HeadTailProperties
<1>2. Received(f, e).prompt = IF e.type = "pending" THEN e.id
                              ELSE IF e.type = "resolved" THEN 0 ELSE f.prompt
  BY <1>1, ReceivedIs
<1> HIDE DEF e, new
<1>3. ASSUME \A i \in 1..Len(new) : ~TellsPrompt(new[i])
      PROVE  Received(f, e).prompt = due
  <2>1. ASSUME NEW j \in 2..Len(sent) PROVE ~TellsPrompt(sent[j])
    <3>1. j - 1 \in 1..Len(new) /\ sent[j] = new[j - 1]
      BY <1>1
    <3> QED
      BY <1>3, <3>1
  <2>2. CASE TellsPrompt(e)
    <3>1. 1 \in 1..Len(sent) /\ \A j \in (1 + 1)..Len(sent) : ~TellsPrompt(sent[j])
      BY <1>1, <2>1
    <3> QED
      BY <1>1, <1>2, <2>2, <3>1 DEF PromptTold, TellsPrompt
  <2>3. CASE ~TellsPrompt(e)
    <3>1. \A j \in 1..Len(sent) : ~TellsPrompt(sent[j])
      BY <1>1, <2>1, <2>3
    <3> QED
      BY <1>2, <2>3, <3>1 DEF PromptTold, TellsPrompt
  <2> QED
    BY <2>2, <2>3
<1>4. ASSUME NEW i \in 1..Len(new), TellsPrompt(new[i]),
             \A j \in (i + 1)..Len(new) : ~TellsPrompt(new[j])
      PROVE  due = IF new[i].type = "pending" THEN new[i].id ELSE 0
  <2>1. i + 1 \in 1..Len(sent) /\ new[i] = sent[i + 1]
    BY <1>1
  <2>2. ASSUME NEW j \in (i + 1 + 1)..Len(sent) PROVE ~TellsPrompt(sent[j])
    <3>1. j - 1 \in (i + 1)..Len(new) /\ sent[j] = new[j - 1]
      BY <1>1
    <3> QED
      BY <1>4, <3>1
  <2> QED
    BY <1>4, <2>1, <2>2 DEF PromptTold
<1> QED
  BY <1>3, <1>4 DEF PromptTold, e, new
LEMMA CallsTellMore ==
  ASSUME NEW sent \in Seq(EventOf), NEW e \in EventOf, NEW shown, NEW due,
         CallsTold(sent, shown, due)
  PROVE  CallsTold(Append(sent, e), shown,
                   IF e.type = "started" THEN due \cup {e.id}
                   ELSE IF e.type = "finished" THEN due \ {e.id} ELSE due)
<1> DEFINE new == Append(sent, e)
           now == IF e.type = "started" THEN due \cup {e.id}
                  ELSE IF e.type = "finished" THEN due \ {e.id} ELSE due
<1>1. /\ Len(sent) \in Nat /\ Len(new) = Len(sent) + 1 /\ new[Len(sent) + 1] = e
      /\ \A i \in 1..Len(sent) : new[i] = sent[i]
  OBVIOUS
<1>2. ASSUME NEW id \in due, ~TellsEnd(e, id) PROVE id \in now
  BY <1>2 DEF TellsEnd
<1>e. e.type = "started" => e.id \in now
  OBVIOUS
<1> HIDE DEF new, now
<1>3. ASSUME NEW id \in shown, \A j \in 1..Len(new) : ~TellsEnd(new[j], id)
      PROVE  id \in now
  <2>1. \A j \in 1..Len(sent) : ~TellsEnd(sent[j], id)
    BY <1>1, <1>3
  <2>2. ~TellsEnd(e, id)
    BY <1>1, <1>3
  <2> QED
    BY <1>2, <2>1, <2>2 DEF CallsTold
<1>4. ASSUME NEW i \in 1..Len(new), new[i].type = "started",
             \A j \in (i + 1)..Len(new) : ~TellsEnd(new[j], new[i].id)
      PROVE  new[i].id \in now
  <2>1. CASE i = Len(sent) + 1
    BY <1>1, <1>4, <1>e, <2>1
  <2>2. CASE i \in 1..Len(sent)
    <3>1. \A j \in (i + 1)..Len(sent) : ~TellsEnd(sent[j], sent[i].id)
      BY <1>1, <1>4, <2>2
    <3>2. sent[i].id \in due
      BY <1>1, <1>4, <2>2, <3>1 DEF CallsTold
    <3>3. ~TellsEnd(e, sent[i].id)
      BY <1>1, <1>4, <2>2
    <3> QED
      BY <1>1, <1>2, <2>2, <3>2, <3>3
  <2> QED
    BY <1>1, <2>1, <2>2
<1> QED
  BY <1>3, <1>4 DEF CallsTold, new, now

LEMMA CallsTellLess ==
  ASSUME NEW sent \in Seq(EventOf), sent # <<>>, NEW f \in FeedOf, NEW due,
         CallsTold(sent, f.running, due)
  PROVE  CallsTold(Tail(sent), Received(f, Head(sent)).running, due)
<1> DEFINE e == Head(sent)
           new == Tail(sent)
<1>1. /\ Len(sent) \in Nat /\ Len(sent) >= 1 /\ Len(new) = Len(sent) - 1 /\ e = sent[1]
      /\ \A i \in 1..Len(new) : new[i] = sent[i + 1]
      /\ e \in EventOf
  BY HeadTailProperties
<1>2. Received(f, e).running = IF e.type = "started" THEN f.running \cup {e.id}
                               ELSE IF e.type = "finished" THEN f.running \ {e.id}
                               ELSE f.running
  BY <1>1, ReceivedIs
<1> HIDE DEF e, new
<1>3. ASSUME NEW id, NEW i \in 0..Len(new), \A j \in (i + 1)..Len(new) : ~TellsEnd(new[j], id)
      PROVE  \A j \in (i + 2)..Len(sent) : ~TellsEnd(sent[j], id)
  <2> TAKE j \in (i + 2)..Len(sent)
  <2>1. j - 1 \in (i + 1)..Len(new) /\ sent[j] = new[j - 1]
    BY <1>1
  <2> QED
    BY <1>3, <2>1
<1>4. ASSUME NEW id \in Received(f, e).running, \A j \in 1..Len(new) : ~TellsEnd(new[j], id)
      PROVE  id \in due
  <2>1. \A j \in 2..Len(sent) : ~TellsEnd(sent[j], id)
    <3>1. 0 \in 0..Len(new) /\ 0 + 1 = 1 /\ 0 + 2 = 2
      BY <1>1
    <3> QED
      BY <1>3, <1>4, <3>1
  <2>2. CASE e.type = "started" /\ id = e.id
    <3>1. 1 \in 1..Len(sent) /\ sent[1].type = "started" /\ sent[1].id = id
          /\ \A j \in (1 + 1)..Len(sent) : ~TellsEnd(sent[j], sent[1].id)
      BY <1>1, <2>1, <2>2
    <3> QED
      BY <3>1 DEF CallsTold
  <2>3. CASE ~(e.type = "started" /\ id = e.id)
    <3>1. id \in f.running /\ ~TellsEnd(e, id)
      BY <1>2, <1>4, <2>3 DEF TellsEnd
    <3>2. \A j \in 1..Len(sent) : ~TellsEnd(sent[j], id)
      BY <1>1, <2>1, <3>1
    <3> QED
      BY <3>1, <3>2 DEF CallsTold
  <2> QED
    BY <2>2, <2>3
<1>5. ASSUME NEW i \in 1..Len(new), new[i].type = "started",
             \A j \in (i + 1)..Len(new) : ~TellsEnd(new[j], new[i].id)
      PROVE  new[i].id \in due
  <2>1. i + 1 \in 1..Len(sent) /\ new[i] = sent[i + 1] /\ i \in 0..Len(new) /\ i + 2 = (i + 1) + 1
    BY <1>1
  <2>2. \A j \in (i + 1 + 1)..Len(sent) : ~TellsEnd(sent[j], new[i].id)
    BY <1>3, <1>5, <2>1
  <2> QED
    BY <1>5, <2>1, <2>2 DEF CallsTold
<1> QED
  BY <1>4, <1>5 DEF CallsTold, e, new

(* What a receiver must still show changes with an event, unless the turn  *)
(* starts or nobody receives.                                              *)
LEMMA DueChange ==
  ASSUME CallsKnown, CallsType, [Next]_vars
  PROVE  \/ /\ UNCHANGED <<events, feed, listening>>
            /\ PromptDue' = PromptDue /\ CallsDue \subseteq CallsDue'
         \/ StartTurn \/ TextForwarded \/ CallStarted \/ AskOpens \/ GateResolved
         \/ RecordDecision \/ RecordRetry \/ CallFinished \/ Finish
         \/ Receive \/ Hangup
<1>1. ASSUME \/ UNCHANGED <<pc, calls, index>>
             \/ pc \notin AtCall /\ pc' \notin AtCall \ {"call"}
             \/ /\ pc \in AtCall /\ UNCHANGED <<calls, index>>
                /\ pc \in {"gate", "resolve"} <=> pc' \in {"gate", "resolve"}
                /\ pc' \in AtCall \ {"call"}
      PROVE  PromptDue' = PromptDue /\ CallsDue \subseteq CallsDue'
  BY <1>1 DEF PromptDue, CallsDue, Current, AtCall
<1> USE DEF response, call, receiver, AtCall
<1>2. CASE User
  BY <1>1, <1>2 DEF User, Cancel, UserAnswers
<1>3. CASE Provider \/ Tool
  BY <1>1, <1>3 DEF Provider, Tool, SummaryArrives, NoSummary, StreamText, StreamCall, StreamDone,
     StreamFails, RunEnds, RunBlocked
<1>4. CASE FrontEnd \/ UNCHANGED vars
  BY <1>1, <1>4 DEF FrontEnd, vars
<1>5. CASE TaskStep
  BY <1>1, <1>5 DEF TaskStep, CompactHistory, StreamCancelled, CallSkipped, Refused, AutoApproved,
     AskRefused, MustAsk, GateShows, GateDecides, RunStarts, RunCancelled
<1> QED
  BY <1>2, <1>3, <1>4, <1>5 DEF Next
LEMMA FedStep ==
  ASSUME Authority, Fed, [Next]_vars
  PROVE  Fed'
<1> SUFFICES ASSUME listening' PROVE (PromptFed /\ CallsFed)'
  BY DEF Fed
<1>0. TypeOK /\ CallsKnown /\ ControlType /\ CallsType /\ EventsType /\ FeedType
  BY TypeParts DEF Authority
<1> USE DEF PromptFed, CallsFed
<1>1. CASE StartTurn
  BY <1>1 DEF StartTurn, NewFeed, PromptTold, CallsTold, PromptDue, CallsDue
<1>2. CASE Hangup
  BY <1>2 DEF Hangup
<1> DEFINE Kept == listening /\ PromptFed /\ CallsFed
<1>3. ASSUME UNCHANGED listening PROVE Kept
  BY <1>3 DEF Fed
<1>4. CASE /\ UNCHANGED <<events, feed, listening>>
           /\ PromptDue' = PromptDue /\ CallsDue \subseteq CallsDue'
  BY <1>3, <1>4 DEF CallsTold
<1>5. ASSUME NEW e \in EventOf, Kept, UNCHANGED feed, Send(e),
             PromptDue' = IF TellsPrompt(e) THEN IF e.type = "pending" THEN e.id ELSE 0
                          ELSE PromptDue,
             CallsDue' = IF e.type = "started" THEN CallsDue \cup {e.id}
                         ELSE IF e.type = "finished" THEN CallsDue \ {e.id} ELSE CallsDue
      PROVE  (PromptFed /\ CallsFed)'
  <2>1. events' = Append(events, e) /\ events \in Seq(EventOf)
    BY <1>0, <1>5 DEF Send, EventsType
  <2>2. PromptFed'
    BY <1>5, <2>1, PromptTellsMore
  <2>3. CallsFed'
    BY <1>5, <2>1, CallsTellMore
  <2> QED
    BY <2>2, <2>3
<1>6. ASSUME NEW type \in {"started", "pending", "resolved", "approval", "finished"}, pc \in AtCall
      PROVE  /\ Event(type, Current.id) \in EventOf
             /\ Event(type, Current.id).type = type /\ Event(type, Current.id).id = Current.id
  BY <1>0, <1>6, CurrentType DEF Event, EventOf
<1>7. CASE TextForwarded \/ Finish
  <2>1. PICK type \in {"text"} \cup Outcome : Send(Event(type, 0))
    BY <1>0, <1>7 DEF TextForwarded, Finish, ControlType
  <2>2. Event(type, 0) \in EventOf /\ Event(type, 0).type = type
    BY DEF Event, EventOf
  <2>3. UNCHANGED <<listening, feed>> /\ PromptDue' = PromptDue /\ CallsDue' = CallsDue
    BY <1>7 DEF TextForwarded, Finish, receiver, PromptDue, CallsDue, AtCall
  <2> QED
    BY <1>3, <1>5, <2>1, <2>2, <2>3 DEF TellsPrompt, Outcome
<1>8. CASE CallStarted
  <2>1. /\ Send(Event("started", Current.id)) /\ UNCHANGED <<listening, feed>>
        /\ pc \in AtCall /\ PromptDue' = PromptDue /\ CallsDue' = {Current.id} /\ CallsDue = {}
    BY <1>8 DEF CallStarted, response, call, receiver, PromptDue, CallsDue, AtCall, Current
  <2> QED
    BY <1>3, <1>5, <1>6, <2>1 DEF TellsPrompt
<1>9. CASE AskOpens
  <2>1. /\ pc \in {"execute", "ask"} /\ UNCHANGED <<listening, feed>>
        /\ PromptDue = 0 /\ CallsDue' = CallsDue
        /\ \/ Send(Event("pending", Current.id)) /\ PromptDue' = Current.id
           \/ UNCHANGED events /\ PromptDue' = 0
    BY <1>9 DEF AskOpens, MustAsk, response, call, receiver, PromptDue, CallsDue, AtCall, Current
  <2> QED
    BY <1>3, <1>5, <1>6, <2>1 DEF TellsPrompt, AtCall
<1>10. CASE GateResolved
  <2>1. /\ Send(Event("resolved", Current.id)) /\ UNCHANGED <<listening, feed>>
        /\ pc \in AtCall /\ PromptDue' = 0 /\ CallsDue' = CallsDue
    BY <1>10 DEF GateResolved, response, call, receiver, PromptDue, CallsDue, AtCall, Current
  <2> QED
    BY <1>3, <1>5, <1>6, <2>1 DEF TellsPrompt
<1>11. CASE RecordDecision \/ RecordRetry
  <2>1. /\ Send(Event("approval", Current.id)) /\ UNCHANGED <<listening, feed>>
        /\ pc \in AtCall /\ PromptDue' = PromptDue /\ CallsDue' = CallsDue
    BY <1>11 DEF RecordDecision, RecordRetry, response, call, receiver, PromptDue, CallsDue,
       AtCall, Current
  <2> QED
    BY <1>3, <1>5, <1>6, <2>1 DEF TellsPrompt
<1>12. CASE CallFinished
  <2>1. /\ Send(Event("finished", Current.id)) /\ UNCHANGED <<listening, feed>>
        /\ pc \in AtCall /\ PromptDue' = PromptDue /\ CallsDue' = {} /\ CallsDue = {Current.id}
    BY <1>12 DEF CallFinished, receiver, PromptDue, CallsDue, AtCall, Current
  <2> QED
    BY <1>3, <1>5, <1>6, <2>1 DEF TellsPrompt
<1>13. CASE Receive
  <2>1. /\ events # <<>> /\ feed' = Received(feed, Head(events)) /\ events' = Tail(events)
        /\ UNCHANGED listening /\ PromptDue' = PromptDue /\ CallsDue' = CallsDue
    BY <1>13 DEF Receive, response, call, PromptDue, CallsDue, Current
  <2>2. PromptFed'
    BY <1>0, <1>3, <2>1, PromptTellsLess DEF EventsType, FeedType
  <2>3. CallsFed'
    BY <1>0, <1>3, <2>1, CallsTellLess DEF EventsType, FeedType
  <2> QED
    BY <2>2, <2>3
<1> QED
  BY <1>0, <1>1, <1>2, <1>4, <1>7, <1>8, <1>9, <1>10, <1>11, <1>12, <1>13, DueChange

LEMMA FedSettled == TypeOK /\ Fed => FeedSettled
<1> SUFFICES ASSUME TypeOK, Fed, pc = "idle", listening, events = <<>>
             PROVE  feed.prompt = 0 /\ feed.running = {}
  BY DEF FeedSettled
<1>1. Len(events) = 0
  OBVIOUS
<1> QED
  BY <1>1 DEF Fed, PromptFed, CallsFed, PromptTold, CallsTold, PromptDue, CallsDue, AtCall
-----------------------------------------------------------------------------
(* How often a value occurs in a sequence.                                 *)
LEMMA CountType ==
  ASSUME NEW S, NEW s \in Seq(S), NEW x
  PROVE  /\ IsFiniteSet({i \in 1..Len(s) : s[i] = x})
         /\ Count(s, x) \in Nat
<1>1. IsFiniteSet(1..Len(s))
  BY FS_Interval, LenProperties
<1>2. IsFiniteSet({i \in 1..Len(s) : s[i] = x})
  BY <1>1, FS_Subset
<1> QED
  BY <1>2, FS_CardinalityType DEF Count

LEMMA CountAppend ==
  ASSUME NEW S, NEW s \in Seq(S), NEW e \in S, NEW x
  PROVE  /\ e = x => Count(Append(s, e), x) = Count(s, x) + 1
         /\ e # x => Count(Append(s, e), x) = Count(s, x)
<1> DEFINE new == Append(s, e)
           A == {i \in 1..Len(s) : s[i] = x}
           B == {i \in 1..Len(new) : new[i] = x}
<1>1. /\ Len(s) \in Nat /\ Len(new) = Len(s) + 1 /\ new[Len(s) + 1] = e
      /\ \A i \in 1..Len(s) : new[i] = s[i]
  OBVIOUS
<1> HIDE DEF new
<1>2. IsFiniteSet(A)
  BY CountType
<1>e. Len(s) + 1 \notin A
  BY <1>1
<1>3. B = IF e = x THEN A \cup {Len(s) + 1} ELSE A
  BY <1>1
<1> HIDE DEF A, B
<1>4. Cardinality(A \cup {Len(s) + 1}) = Cardinality(A) + 1
  BY <1>2, <1>e, FS_AddElement
<1> QED
  BY <1>3, <1>4 DEF Count, A, B, new

LEMMA CountTail ==
  ASSUME NEW S, NEW s \in Seq(S), s # <<>>, NEW x
  PROVE  Count(s, x) = IF Head(s) = x THEN Count(Tail(s), x) + 1 ELSE Count(Tail(s), x)
<1> DEFINE new == Tail(s)
           A == {i \in 1..Len(new) : new[i] = x}
           B == {i \in 2..Len(s) : s[i] = x}
           C == {i \in 1..Len(s) : s[i] = x}
           f == [i \in A |-> i + 1]
<1>1. /\ Len(s) \in Nat /\ Len(s) >= 1 /\ Len(new) = Len(s) - 1 /\ Head(s) = s[1]
      /\ \A i \in 1..Len(new) : new[i] = s[i + 1]
      /\ new \in Seq(S)
  BY HeadTailProperties
<1> HIDE DEF new
<1>2. f \in Bijection(A, B)
  <2>1. \A i \in A : f[i] = i + 1 /\ i + 1 \in B
    BY <1>1
  <2>2. \A j \in B : j - 1 \in A /\ f[j - 1] = j
    BY <1>1
  <2>3. \A i, k \in A : f[i] = f[k] => i = k
    BY <1>1
  <2>4. f \in [A -> B]
    BY <2>1
  <2> HIDE DEF f, A, B
  <2>5. \A j \in B : \E i \in A : f[i] = j
    BY <2>2
  <2> QED
    BY <2>3, <2>4, <2>5, Fun_IsBij
<1>3. IsFiniteSet(A)
  BY <1>1, CountType
<1>4. C = IF Head(s) = x THEN B \cup {1} ELSE B
  BY <1>1
<1>5. 1 \notin B
  OBVIOUS
<1> HIDE DEF f, A, B, C
<1>6. IsFiniteSet(B) /\ Cardinality(B) = Cardinality(A)
  BY <1>2, <1>3, FS_Bijection DEF ExistsBijection
<1>7. Cardinality(B \cup {1}) = Cardinality(B) + 1
  BY <1>5, <1>6, FS_AddElement
<1> QED
  BY <1>4, <1>6, <1>7 DEF Count, A, C, new

LEMMA ReportsType ==
  ASSUME EventsType, FeedType
  PROVE  Reports \in [1..MaxIds -> Nat]
<1>1. ASSUME NEW id \in 1..MaxIds
      PROVE  Count(feed.approvals, id) \in Nat /\ Count(events, Event("approval", id)) \in Nat
  BY CountType DEF EventsType, FeedType, FeedOf
<1> QED
  BY <1>1 DEF Reports

(* What is sent counts at once, and counts no more when it is received.    *)
LEMMA ReportsOfSend ==
  ASSUME EventsType, FeedType, UNCHANGED feed, NEW e \in EventOf, events' = Append(events, e)
  PROVE  Reports' = IF e.type = "approval" THEN [Reports EXCEPT ![e.id] = @ + 1] ELSE Reports
<1>1. ASSUME NEW id \in 1..MaxIds
      PROVE  Count(events', Event("approval", id)) =
               IF e = Event("approval", id) THEN Count(events, Event("approval", id)) + 1
               ELSE Count(events, Event("approval", id))
  <2>1. Event("approval", id) \in EventOf
    BY DEF Event, EventOf
  <2> QED
    BY CountAppend DEF EventsType
<1>2. ASSUME NEW id \in 1..MaxIds
      PROVE  e = Event("approval", id) <=> e.type = "approval" /\ e.id = id
  BY DEF Event, EventOf
<1>3. ASSUME NEW id \in 1..MaxIds
      PROVE  Count(feed.approvals, id) \in Nat /\ Count(events, Event("approval", id)) \in Nat
  BY CountType DEF EventsType, FeedType, FeedOf
<1>4. e.type = "approval" => e.id \in 1..MaxIds
  BY DEF EventOf, Outcome
<1>5. CASE e.type = "approval"
  <2>1. ASSUME NEW id \in 1..MaxIds
        PROVE  Reports'[id] = [Reports EXCEPT ![e.id] = @ + 1][id]
    <3>1. Reports[id] = Count(feed.approvals, id) + Count(events, Event("approval", id))
      BY DEF Reports
    <3>2. Reports'[id] = Count(feed.approvals, id) + Count(events', Event("approval", id))
      BY DEF Reports
    <3>3. Reports'[id] = IF e.id = id THEN Reports[id] + 1 ELSE Reports[id]
      BY <1>1, <1>2, <1>3, <1>5, <3>1, <3>2
    <3> QED
      BY <1>4, <1>5, <3>3, ReportsType
  <2>2. DOMAIN Reports' = 1..MaxIds /\ Reports' = [id \in 1..MaxIds |-> Reports'[id]]
    BY DEF Reports
  <2>3. [Reports EXCEPT ![e.id] = @ + 1]
          = [id \in 1..MaxIds |-> [Reports EXCEPT ![e.id] = @ + 1][id]]
    BY DEF Reports
  <2> QED
    BY <1>5, <2>1, <2>2, <2>3
<1>6. CASE e.type # "approval"
  BY <1>1, <1>2, <1>6 DEF Reports
<1> QED
  BY <1>5, <1>6

LEMMA ReportsOfReceive ==
  ASSUME EventsType, FeedType, Receive
  PROVE  Reports' = Reports
<1>1. /\ events # <<>> /\ events' = Tail(events) /\ Head(events) \in EventOf
      /\ feed' = Received(feed, Head(events))
  BY HeadTailProperties DEF Receive, EventsType
<1>2. feed'.approvals = IF Head(events).type = "approval"
                        THEN Append(feed.approvals, Head(events).id) ELSE feed.approvals
  BY <1>1, ReceivedIs DEF FeedType
<1>3. ASSUME NEW id \in 1..MaxIds
      PROVE  Count(feed'.approvals, id) + Count(events', Event("approval", id))
               = Count(feed.approvals, id) + Count(events, Event("approval", id))
  <2> DEFINE told == Head(events) = Event("approval", id)
  <2>1. told <=> Head(events).type = "approval" /\ Head(events).id = id
    BY <1>1 DEF Event, EventOf
  <2>2. Head(events).type = "approval" => Head(events).id \in 1..MaxIds
    BY <1>1 DEF EventOf, Outcome
  <2>3. feed.approvals \in Seq(1..MaxIds) /\ events \in Seq(EventOf) /\ Tail(events) \in Seq(EventOf)
    BY <1>1, HeadTailProperties DEF FeedType, FeedOf, EventsType
  <2>4. Count(feed'.approvals, id) =
          IF told THEN Count(feed.approvals, id) + 1 ELSE Count(feed.approvals, id)
    <3>1. CASE Head(events).type = "approval"
      <4>1. feed.approvals \in Seq(1..MaxIds) /\ Head(events).id \in 1..MaxIds
        BY <2>2, <2>3, <3>1
      <4>2. LET count == Count(Append(feed.approvals, Head(events).id), id)
            IN  /\ Head(events).id = id => count = Count(feed.approvals, id) + 1
                /\ Head(events).id # id => count = Count(feed.approvals, id)
        BY <4>1, CountAppend
      <4> QED
        BY <1>2, <2>1, <3>1, <4>2
    <3>2. CASE Head(events).type # "approval"
      BY <1>2, <2>1, <3>2
    <3> QED
      BY <3>1, <3>2
  <2>5. Count(events, Event("approval", id)) =
          IF told THEN Count(events', Event("approval", id)) + 1
          ELSE Count(events', Event("approval", id))
    BY <1>1, <2>3, CountTail
  <2>6. Count(feed.approvals, id) \in Nat /\ Count(events', Event("approval", id)) \in Nat
    BY <1>1, <2>3, CountType
  <2> HIDE DEF told
  <2> QED
    BY <2>4, <2>5, <2>6
<1> QED
  BY <1>3 DEF Reports

LEMMA ReportsChange ==
  ASSUME Authority, listening', [Next]_vars
  PROVE  \/ StartTurn /\ \A id \in 1..MaxIds : Reports'[id] = 0
         \/ /\ RecordDecision \/ RecordRetry
            /\ listening /\ Reports' = [Reports EXCEPT ![Current.id] = @ + 1]
         \/ listening /\ Reports' = Reports /\ ~StartTurn /\ ~RecordDecision /\ ~RecordRetry
<1>0. TypeOK /\ ControlType /\ CallsType /\ EventsType /\ FeedType
  BY TypeParts DEF Authority
<1>1. CASE StartTurn
  <2>1. feed'.approvals = <<>> /\ events' = <<>>
    BY <1>1 DEF StartTurn, NewFeed
  <2>2. ASSUME NEW x PROVE Count(<<>>, x) = 0
    <3>1. {i \in 1..Len(<<>>) : <<>>[i] = x} = {}
      OBVIOUS
    <3> QED
      BY <3>1, FS_EmptySet DEF Count
  <2>3. ASSUME NEW id \in 1..MaxIds PROVE Reports'[id] = 0
    <3>1. Reports'[id] = Count(feed'.approvals, id) + Count(events', Event("approval", id))
      BY DEF Reports
    <3>2. Count(feed'.approvals, id) = 0 /\ Count(events', Event("approval", id)) = 0
      BY <2>1, <2>2
    <3> QED
      BY <3>1, <3>2
  <2> QED
    BY <1>1, <2>3
<1>2. CASE ~StartTurn
  <2>1. listening
    BY <1>2 DEF Next, TaskStep, Provider, Tool, User, FrontEnd, vars, receiver, CompactHistory,
       SummaryArrives, NoSummary, StreamText, TextForwarded, StreamCall, StreamDone,
       StreamCancelled, StreamFails, CallSkipped, CallStarted, Refused, AutoApproved, AskRefused,
       AskOpens, GateShows, UserAnswers, GateDecides, GateResolved, RecordDecision, RecordRetry,
       CallFinished, Finish, RunStarts, RunEnds, RunBlocked, RunCancelled, Cancel, Receive, Hangup
  <2>2. ASSUME NEW type \in {"started", "pending", "resolved", "approval", "finished"},
               pc \in AtCall, Send(Event(type, Current.id)), UNCHANGED feed
        PROVE  Reports' = IF type = "approval" THEN [Reports EXCEPT ![Current.id] = @ + 1]
                          ELSE Reports
    <3>1. Event(type, Current.id) \in EventOf
      BY <1>0, <2>2, CurrentType DEF Event, EventOf
    <3>2. events' = Append(events, Event(type, Current.id))
      BY <2>1, <2>2 DEF Send
    <3>3. Event(type, Current.id).type = type /\ Event(type, Current.id).id = Current.id
      BY DEF Event
    <3>4. LET e == Event(type, Current.id)
          IN  Reports' = IF e.type = "approval" THEN [Reports EXCEPT ![e.id] = @ + 1] ELSE Reports
      BY <1>0, <2>2, <3>1, <3>2, ReportsOfSend
    <3> QED
      BY <3>3, <3>4
  <2>3. CASE TextForwarded \/ Finish
    <3>1. PICK type \in {"text"} \cup Outcome : Send(Event(type, 0))
      BY <1>0, <2>3 DEF TextForwarded, Finish, ControlType
    <3>2. Event(type, 0) \in EventOf /\ Event(type, 0).type # "approval"
      BY DEF Event, EventOf, Outcome
    <3>3. events' = Append(events, Event(type, 0)) /\ UNCHANGED feed
      BY <2>1, <2>3, <3>1 DEF Send, TextForwarded, Finish, receiver
    <3>4. Reports' = Reports
      BY <1>0, <3>2, <3>3, ReportsOfSend
    <3>5. ~RecordDecision /\ ~RecordRetry
      BY <2>3 DEF TextForwarded, Finish, RecordDecision, RecordRetry
    <3> QED
      BY <1>2, <2>1, <3>4, <3>5
  <2>4. CASE CallStarted \/ GateResolved \/ CallFinished
    <3>1. /\ pc \in AtCall /\ UNCHANGED feed /\ ~RecordDecision /\ ~RecordRetry
          /\ \E type \in {"started", "resolved", "finished"} : Send(Event(type, Current.id))
      BY <2>4 DEF CallStarted, GateResolved, CallFinished, AtCall, receiver, RecordDecision,
         RecordRetry
    <3> QED
      BY <1>2, <2>1, <2>2, <3>1
  <2>5. CASE AskOpens
    <3>1. /\ pc \in AtCall /\ UNCHANGED feed /\ ~RecordDecision /\ ~RecordRetry
          /\ UNCHANGED events \/ Send(Event("pending", Current.id))
      BY <2>5 DEF AskOpens, MustAsk, AtCall, receiver, RecordDecision, RecordRetry
    <3>2. CASE UNCHANGED events
      BY <1>2, <2>1, <3>1, <3>2 DEF Reports
    <3> QED
      BY <1>2, <2>1, <2>2, <3>1, <3>2
  <2>6. CASE RecordDecision \/ RecordRetry
    <3>1. pc \in AtCall /\ UNCHANGED feed /\ Send(Event("approval", Current.id))
      BY <2>6 DEF AtCall, receiver, RecordDecision, RecordRetry
    <3> QED
      BY <2>1, <2>2, <2>6, <3>1
  <2>7. CASE Receive
    <3>1. ~RecordDecision /\ ~RecordRetry
      BY <2>7 DEF Receive, RecordDecision, RecordRetry
    <3> QED
      BY <1>0, <1>2, <2>1, <2>7, <3>1, ReportsOfReceive
  <2>8. CASE Hangup
    BY <2>8 DEF Hangup
  <2>9. CASE UNCHANGED <<events, feed>> /\ ~RecordDecision /\ ~RecordRetry
    BY <1>2, <2>1, <2>9 DEF Reports
  <2> QED
    BY <1>2, <2>3, <2>4, <2>5, <2>6, <2>7, <2>8, <2>9, EventsChange, FeedChange
<1> QED
  BY <1>1, <1>2

(* What the reports say about the call in hand, whatever else changes.     *)
LEMMA ReportsDueStep ==
  ASSUME Authority, ReportsDue, Reports' = Reports, ~StartTurn, ~RecordDecision, ~RecordRetry,
         [Next]_vars
  PROVE  ReportsDue'
<1>0. /\ TypeOK /\ CallsKnown /\ ControlType /\ CallsType /\ VerdictKnown
      /\ index \in Nat /\ Len(calls) \in Nat /\ nextId \in Nat
  BY TypeParts DEF Authority, CallsType
<1> USE DEF AtCall, Current
<1>1. CASE UNCHANGED <<pc, calls, index, nextId, retry>>
  BY <1>1 DEF ReportsDue
<1>2. CASE CallFinished
  <2>1. /\ UNCHANGED <<calls, nextId>> /\ index' = index + 1 /\ pc = "result"
        /\ \/ pc' = "call" /\ index < Len(calls)
           \/ pc' \in {"finish", "compact"}
    BY <1>2 DEF CallFinished, response
  <2>2. \A j \in (index + 1)..Len(calls) : Reports[calls[j].id] = 0
    BY <2>1 DEF ReportsDue
  <2>3. \A id \in nextId..MaxIds : Reports[id] = 0
    BY DEF ReportsDue
  <2>4. pc' = "call" => Reports[calls[index + 1].id] = 0
    BY <1>0, <2>1, <2>2
  <2>5. \A j \in (index + 1 + 1)..Len(calls) : Reports[calls[j].id] = 0
    BY <1>0, <2>2
  <2> QED
    BY <2>1, <2>3, <2>4, <2>5 DEF ReportsDue
<1>3. CASE StreamDone
  <2>1. /\ UNCHANGED <<calls, nextId>> /\ index' = 1 /\ pc = "stream"
        /\ \/ pc' = "call" /\ calls # <<>>
           \/ pc' = "finish"
    BY <1>3 DEF StreamDone, response
  <2>2. \A j \in 1..Len(calls) : Reports[calls[j].id] = 0
    BY <2>1 DEF ReportsDue
  <2>3. \A id \in nextId..MaxIds : Reports[id] = 0
    BY DEF ReportsDue
  <2>4. calls # <<>> => 1 \in 1..Len(calls)
    BY <1>0, EmptySeq DEF CallsType
  <2>5. \A j \in (1 + 1)..Len(calls) : Reports[calls[j].id] = 0
    BY <1>0, <2>2
  <2> QED
    BY <2>1, <2>2, <2>3, <2>4, <2>5 DEF ReportsDue
<1>4. ASSUME NEW kind \in Kinds, StreamCall(kind) PROVE ReportsDue'
  <2>1. /\ calls' = Append(calls, [id |-> nextId, kind |-> kind]) /\ nextId' = nextId + 1
        /\ nextId <= MaxIds /\ pc' = "stream" /\ pc = "stream"
    BY <1>4 DEF StreamCall
  <2>2. \A j \in 1..Len(calls) : Reports[calls[j].id] = 0
    BY <2>1 DEF ReportsDue
  <2>3. \A id \in nextId..MaxIds : Reports[id] = 0
    BY DEF ReportsDue
  <2>4. ASSUME NEW j \in 1..Len(calls') PROVE Reports[calls'[j].id] = 0
    <3>1. \/ j \in 1..Len(calls) /\ calls'[j] = calls[j]
          \/ calls'[j].id = nextId
      BY <1>0, <2>1 DEF CallsType
    <3>2. nextId \in nextId..MaxIds
      BY <1>0, <2>1, Bounds
    <3> QED
      BY <2>2, <2>3, <3>1, <3>2
  <2>5. \A id \in nextId'..MaxIds : Reports[id] = 0
    BY <1>0, <2>1, <2>3, Bounds
  <2> QED
    BY <2>1, <2>4, <2>5 DEF ReportsDue
<1>5. ASSUME NEW mask \in BOOLEAN, NEW summarize \in BOOLEAN, CompactHistory(mask, summarize)
      PROVE  ReportsDue'
  <2>1. calls' = <<>> /\ UNCHANGED nextId /\ pc' \in {"summarize", "stream"}
    BY <1>5 DEF CompactHistory
  <2>2. \A j \in 1..Len(calls') : FALSE
    BY <2>1
  <2>3. \A id \in nextId..MaxIds : Reports[id] = 0
    BY DEF ReportsDue
  <2> QED
    BY <2>1, <2>2, <2>3 DEF ReportsDue
<1> DEFINE Same == UNCHANGED <<calls, index, nextId, retry>>
<1>6. CASE SummaryArrives \/ NoSummary \/ StreamText \/ TextForwarded \/ StreamCancelled
             \/ StreamFails \/ CallSkipped \/ CallStarted \/ Refused \/ Finish
  <2>1. /\ Same
        /\ \/ pc \in {"summarize", "stream", "forward"} /\ pc' \in {"stream", "forward"}
           \/ pc' \in {"finish", "idle"}
           \/ pc \in {"call", "execute"} /\ pc' \in {"execute", "result"}
    BY <1>6 DEF SummaryArrives, NoSummary, StreamText, TextForwarded, StreamCancelled, StreamFails,
       CallSkipped, CallStarted, Refused, Finish, response, call
  <2> QED
    BY <2>1 DEF ReportsDue
<1>7. CASE AutoApproved \/ AskRefused \/ AskOpens \/ GateDecides \/ GateResolved
  <2>1. /\ Same
        /\ \/ pc = "execute" /\ ~retry
           \/ pc = "ask" /\ retry
           \/ pc \in {"gate", "quiet_gate", "resolve"}
        /\ pc' \in {"gate", "quiet_gate", "resolve", "record"}
    BY <1>0, <1>7 DEF AutoApproved, AskRefused, AskOpens, MustAsk, GateDecides, GateResolved,
       CallsKnown, response, call
  <2> QED
    BY <2>1 DEF ReportsDue
<1>8. CASE RunStarts \/ RunEnds \/ RunCancelled
  <2>1. Same /\ pc \in {"run", "running"} /\ pc' \in {"running", "result"}
    BY <1>8 DEF RunStarts, RunEnds, RunCancelled, response, call
  <2> QED
    BY <2>1 DEF ReportsDue
<1>9. CASE RunBlocked
  <2>1. /\ UNCHANGED <<calls, index, nextId>> /\ pc = "running" /\ pc' = "ask"
        /\ ~retry /\ retry'
    BY <1>0, <1>9 DEF RunBlocked, response, VerdictKnown
  <2> QED
    BY <2>1 DEF ReportsDue
<1> HIDE DEF AtCall, Current
<1>10. CASE Cancel \/ FrontEnd \/ UNCHANGED vars \/ GateShows
            \/ \E decision \in Decision : UserAnswers(decision)
  BY <1>1, <1>10 DEF Cancel, FrontEnd, Receive, Hangup, vars, GateShows, UserAnswers, response, call
<1> QED
  BY <1>2, <1>3, <1>4, <1>5, <1>6, <1>7, <1>8, <1>9, <1>10
     DEF Next, TaskStep, Provider, Tool, User

LEMMA RunsReportedStep ==
  ASSUME Authority, ReportsDue, RunsReported, Reports' = Reports, ~StartTurn, [Next]_vars
  PROVE  RunsReported'
<1>1. CASE runs' = runs
  BY <1>1 DEF RunsReported
<1>2. CASE RunStarts
  <2>1. pc = "run" /\ runs' = runs \cup {ThisRun}
    BY <1>2 DEF RunStarts, ThisRun
  <2>2. Reports[ThisRun.id] = IF ThisRun.retry THEN 2 ELSE 1
    BY <2>1 DEF ReportsDue, ThisRun
  <2> QED
    BY <2>1, <2>2, TypeParts DEF RunsReported, ThisRun, Authority, ControlType
<1> QED
  BY <1>1, <1>2, GateGrows DEF GateShows, GateDecides, RecordDecision, UserAnswers

(* A decision is reported: the first on its call, or the one after that    *)
(* about a call whose first run the sandbox blocked.                       *)
LEMMA DecisionReported ==
  ASSUME Authority, ReportsDue, RunsReported, RecordDecision \/ RecordRetry,
         Reports' = [Reports EXCEPT ![Current.id] = @ + 1]
  PROVE  RunsReported' /\ ReportsDue'
<1>0. /\ TypeOK /\ CallsKnown /\ ControlType /\ CallsType
      /\ index \in Nat /\ Len(calls) \in Nat /\ Reports \in [1..MaxIds -> Nat]
  BY TypeParts, ReportsType DEF Authority, CallsType
<1>1. /\ pc = "record" /\ pc' \in {"run", "result"}
      /\ UNCHANGED <<calls, index, nextId, retry, runs>>
  BY DEF RecordDecision, RecordRetry, response, call
<1>2. Current.id \in 1..MaxIds /\ index \in 1..Len(calls) /\ Current.id < nextId
  BY <1>0, <1>1, CurrentType DEF AtCall, CallsKnown, Current
<1>3. Reports[Current.id] = IF retry THEN 1 ELSE 0
  BY <1>1 DEF ReportsDue
<1>4. /\ Reports'[Current.id] = IF retry THEN 2 ELSE 1
      /\ \A id \in (1..MaxIds) \ {Current.id} : Reports'[id] = Reports[id]
  BY <1>0, <1>2, <1>3
<1>5. ReportsDue'
  <2>1. ASSUME NEW id \in nextId..MaxIds PROVE Reports'[id] = 0
    <3>1. id \in (1..MaxIds) \ {Current.id}
      BY <1>0, <1>2 DEF CallsType
    <3> QED
      BY <1>4, <3>1 DEF ReportsDue
  <2>2. ASSUME NEW j \in (index + 1)..Len(calls) PROVE Reports'[calls[j].id] = 0
    <3>1. j \in 1..Len(calls) /\ j # index
      BY <1>0, <1>2
    <3>2. calls[j].id # Current.id
      BY <1>0, <1>2, <3>1 DEF CallsKnown, Current
    <3>3. calls[j].id \in 1..MaxIds
      <4>1. calls[j] \in [id : 1..MaxIds, kind : Kinds]
        BY <1>0, <3>1, ElementOfSeq DEF CallsType
      <4> QED
        BY <4>1
    <3>4. Reports[calls[j].id] = 0
      BY <1>1 DEF ReportsDue, AtCall
    <3> QED
      BY <1>4, <3>2, <3>3, <3>4
  <2> QED
    BY <1>1, <1>4, <2>1, <2>2 DEF ReportsDue, Current
<1>6. RunsReported'
  <2>1. CASE retry
    <3>1. FirstRun \in runs /\ Confinement(Current.kind, Enforced) = "enforced"
      BY <1>1, <2>1 DEF Authority, RunKnown, Judging
    <3>2. /\ FirstRun.id = Current.id /\ ~FirstRun.free
          /\ Confinement(FirstRun.kind, Enforced) = "enforced"
      BY <3>1 DEF FirstRun
    <3> QED
      BY <1>1, <1>4, <2>1, <3>1, <3>2 DEF RunsReported
  <2>2. CASE ~retry
    <3>1. \A r \in runs : r.id # Current.id
      BY <1>2, <1>3, <2>2 DEF RunsReported
    <3> QED
      BY <1>1, <1>4, <2>2, <3>1 DEF RunsReported
  <2> QED
    BY <2>1, <2>2
<1> QED
  BY <1>5, <1>6

LEMMA ReportedStep ==
  ASSUME Authority, Reported, [Next]_vars
  PROVE  Reported'
<1> SUFFICES ASSUME listening' PROVE (RunsReported /\ ReportsDue)'
  BY DEF Reported
<1>1. CASE StartTurn /\ \A id \in 1..MaxIds : Reports'[id] = 0
  <2>1. runs' = {} /\ pc' = "compact" /\ UNCHANGED nextId
    BY <1>1 DEF StartTurn, response
  <2>2. nextId \in 1..(MaxIds + 1)
    BY DEF Authority, TypeOK
  <2>3. \A id \in nextId..MaxIds : id \in 1..MaxIds
    BY <2>2, Bounds
  <2>4. ReportsDue'
    BY <1>1, <2>1, <2>3 DEF ReportsDue, AtCall
  <2>5. RunsReported'
    BY <1>1, <2>1 DEF RunsReported
  <2> QED
    BY <2>4, <2>5
<1>2. CASE /\ RecordDecision \/ RecordRetry
           /\ listening /\ Reports' = [Reports EXCEPT ![Current.id] = @ + 1]
  BY <1>2, DecisionReported DEF Reported
<1>3. CASE listening /\ Reports' = Reports /\ ~StartTurn /\ ~RecordDecision /\ ~RecordRetry
  BY <1>3, ReportsDueStep, RunsReportedStep DEF Reported
<1> QED
  BY <1>1, <1>2, <1>3, ReportsChange

LEMMA AllReported == Authority /\ Reported => ApprovalsReported
<1> SUFFICES ASSUME Authority, Reported, listening, events = <<>>, NEW id \in 1..MaxIds
             PROVE  /\ Approvals(id) <= 2
                    /\ \A r \in runs : r.id = id =>
                         Approvals(id) = 2 \/ (Approvals(id) = 1 /\ ~r.retry)
                    /\ Approvals(id) = 2 =>
                         \E r \in runs : r.id = id /\ ~r.free
                                         /\ Confinement(r.kind, Enforced) = "enforced"
  BY DEF ApprovalsReported
<1>1. feed.approvals \in Seq(1..MaxIds)
  BY TypeParts DEF Authority, FeedType, FeedOf
<1>2. Approvals(id) = Count(feed.approvals, id)
  BY <1>1, LenProperties DEF Approvals, Count
<1>3. Count(events, Event("approval", id)) = 0
  <2>1. {i \in 1..Len(events) : events[i] = Event("approval", id)} = {}
    OBVIOUS
  <2> QED
    BY <2>1, FS_EmptySet DEF Count
<1>4. Count(feed.approvals, id) \in Nat
  BY <1>1, CountType
<1>5. Reports[id] = Count(feed.approvals, id) + Count(events, Event("approval", id))
  BY DEF Reports
<1>6. Reports[id] = Approvals(id)
  BY <1>2, <1>3, <1>4, <1>5
<1> QED
  BY <1>6 DEF Reported, RunsReported

LEMMA InitFeed == Init => Fed /\ Reported
<1> SUFFICES ASSUME Init PROVE Fed /\ Reported
  OBVIOUS
<1> USE Bounds DEF Init, NewFeed
<1>1. Fed
  BY DEF Fed, PromptFed, CallsFed, PromptTold, CallsTold, PromptDue, CallsDue, AtCall
<1>2. ASSUME NEW x PROVE Count(<<>>, x) = 0
  <2>1. {i \in 1..Len(<<>>) : <<>>[i] = x} = {}
    OBVIOUS
  <2> QED
    BY <2>1, FS_EmptySet DEF Count
<1>3. ASSUME NEW id \in 1..MaxIds PROVE Reports[id] = 0
  <2>1. Reports[id] = Count(feed.approvals, id) + Count(events, Event("approval", id))
    BY DEF Reports
  <2>2. feed.approvals = <<>> /\ events = <<>>
    OBVIOUS
  <2> QED
    BY <1>2, <2>1, <2>2
<1>4. Reported
  BY <1>3 DEF Reported, RunsReported, ReportsDue, AtCall
<1> QED
  BY <1>1, <1>4

(* The receiver of all of a turn's events is left with no open prompt, no  *)
(* running call and the approvals that the runs call for (execute,         *)
(* ask_gate): for any calls, modes and rules, any capacity of the channel  *)
(* and any interleaving of the turn with the user, the tool, cancellations *)
(* and provider errors.                                                    *)
THEOREM FeedCompleteAlways == Spec => []FeedComplete
<1> DEFINE Inv == Authority /\ Fed /\ Reported
<1>1. Init => Inv
  BY InitAuthority, InitFeed
<1>2. Inv /\ [Next]_vars => Inv'
  BY AuthorityStep, FedStep, ReportedStep
<1>3. Inv => FeedComplete
  BY FedSettled, AllReported DEF FeedComplete, Authority
<1> QED
  BY <1>1, <1>2, <1>3, PTL DEF Spec
-----------------------------------------------------------------------------
(* A turn's history stays one that providers accept: whatever is           *)
(* cancelled, fails or is compacted, every call of an assistant message is *)
(* followed by its results, and every result follows its call.             *)

CallsOf(m) == IF m.role = "assistant" THEN m.calls ELSE <<>>

(* HistoryWellFormed's parts, for one position of any list of messages.    *)
Closed(msgs, i) ==
  /\ i + Len(CallsOf(msgs[i])) <= Len(msgs)
  /\ \A k \in 1..Len(CallsOf(msgs[i])) :
       IsResult(msgs[i + k]) /\ msgs[i + k].id = CallsOf(msgs[i])[k]
Owned(msgs, i) ==
  IsResult(msgs[i]) => \E j \in 1..(i - 1) : i - j <= Len(CallsOf(msgs[j]))

(* All calls have their results but those of the message at position open. *)
Balanced(msgs, open) ==
  \A i \in 1..Len(msgs) : (i # open => Closed(msgs, i)) /\ Owned(msgs, i)

(* The message of the calls in hand, and what was answered of them so far. *)
AskedAt == Len(messages) - (index - 1)
Answering ==
  /\ AskedAt >= 1
  /\ messages[AskedAt].role = "assistant" /\ messages[AskedAt].calls = Ids(calls)
  /\ \A k \in 1..(index - 1) :
       IsResult(messages[AskedAt + k]) /\ messages[AskedAt + k].id = Ids(calls)[k]

HistoryKnown ==
  /\ pc \in AtCall => Answering /\ Balanced(messages, AskedAt)
  /\ pc \notin AtCall => Balanced(messages, 0)
-----------------------------------------------------------------------------
LEMMA CallsOfType ==
  ASSUME NEW m \in Message
  PROVE  CallsOf(m) \in Seq(Nat) /\ Len(CallsOf(m)) \in Nat
<1>1. CallsOf(m) \in Seq(Nat)
  BY EmptySeq DEF CallsOf, Message
<1> QED
  BY <1>1

(* What was settled stays so when the list grows.                          *)
LEMMA SettledStays ==
  ASSUME NEW msgs \in Seq(Message), NEW new \in Seq(Message), Len(msgs) <= Len(new),
         \A i \in 1..Len(msgs) : new[i] = msgs[i], NEW i \in 1..Len(msgs)
  PROVE  /\ Closed(msgs, i) => Closed(new, i)
         /\ Owned(msgs, i) => Owned(new, i)
<1>1. Len(msgs) \in Nat /\ Len(new) \in Nat /\ new[i] = msgs[i] /\ msgs[i] \in Message
  BY ElementOfSeq
<1>2. PICK n \in Nat : n = Len(CallsOf(msgs[i]))
  BY <1>1, CallsOfType
<1>3. ASSUME Closed(msgs, i) PROVE Closed(new, i)
  <2>1. i + n <= Len(msgs)
    BY <1>2, <1>3 DEF Closed
  <2>2. ASSUME NEW k \in 1..n PROVE new[i + k] = msgs[i + k]
    <3>1. i + k \in 1..Len(msgs)
      BY <1>1, <1>2, <2>1
    <3> QED
      BY <3>1
  <2>3. i + n <= Len(new)
    BY <1>1, <2>1
  <2> QED
    BY <1>1, <1>2, <1>3, <2>2, <2>3 DEF Closed
<1>4. ASSUME Owned(msgs, i) PROVE Owned(new, i)
  <2>1. \A j \in 1..(i - 1) : new[j] = msgs[j]
    BY <1>1
  <2> QED
    BY <1>1, <1>4, <2>1 DEF Owned
<1> QED
  BY <1>3, <1>4

(* A message that asks for nothing and answers nothing may come next.      *)
LEMMA BalancedPlain ==
  ASSUME NEW msgs \in Seq(Message), Balanced(msgs, 0), NEW m \in Message,
         ~IsResult(m), CallsOf(m) = <<>>
  PROVE  Balanced(Append(msgs, m), 0)
<1> DEFINE new == Append(msgs, m)
<1>1. /\ Len(msgs) \in Nat /\ Len(new) = Len(msgs) + 1 /\ new[Len(msgs) + 1] = m
      /\ \A i \in 1..Len(msgs) : new[i] = msgs[i]
      /\ new \in Seq(Message)
  OBVIOUS
<1> HIDE DEF new
<1>2. ASSUME NEW i \in 1..Len(msgs) PROVE Closed(new, i) /\ Owned(new, i)
  <2>1. Closed(msgs, i) /\ Owned(msgs, i)
    BY <1>1 DEF Balanced
  <2>2. Len(msgs) <= Len(new)
    BY <1>1
  <2> QED
    BY <1>1, <2>1, <2>2, SettledStays
<1>3. Closed(new, Len(msgs) + 1) /\ Owned(new, Len(msgs) + 1)
  BY <1>1 DEF Closed, Owned
<1>4. Balanced(new, 0)
  BY <1>1, <1>2, <1>3 DEF Balanced
<1> QED
  BY <1>4 DEF new

(* A message with calls comes next: its results are still to come.         *)
LEMMA BalancedAsk ==
  ASSUME NEW msgs \in Seq(Message), Balanced(msgs, 0), NEW m \in Message, ~IsResult(m)
  PROVE  Balanced(Append(msgs, m), Len(msgs) + 1)
<1> DEFINE new == Append(msgs, m)
<1>1. /\ Len(msgs) \in Nat /\ Len(new) = Len(msgs) + 1 /\ new[Len(msgs) + 1] = m
      /\ \A i \in 1..Len(msgs) : new[i] = msgs[i]
      /\ new \in Seq(Message)
  OBVIOUS
<1> HIDE DEF new
<1>2. ASSUME NEW i \in 1..Len(msgs) PROVE Closed(new, i) /\ Owned(new, i)
  <2>1. Closed(msgs, i) /\ Owned(msgs, i)
    BY <1>1 DEF Balanced
  <2>2. Len(msgs) <= Len(new)
    BY <1>1
  <2> QED
    BY <1>1, <2>1, <2>2, SettledStays
<1>3. Owned(new, Len(msgs) + 1)
  BY <1>1 DEF Owned
<1>4. Balanced(new, Len(msgs) + 1)
  BY <1>1, <1>2, <1>3 DEF Balanced
<1> QED
  BY <1>4 DEF new

LEMMA UpToNext == \A n \in Nat : \A i \in 1..(n + 1) : i \in 1..n \/ i = n + 1
OBVIOUS

(* The next result of the open message comes: it is owned, and when it is  *)
(* the last one the message is closed.                                     *)
LEMMA BalancedAnswer ==
  ASSUME NEW msgs \in Seq(Message), NEW open \in 1..Len(msgs), Balanced(msgs, open),
         NEW m \in Message, m.role = "tool",
         Len(msgs) - open < Len(CallsOf(msgs[open])),
         m.id = CallsOf(msgs[open])[Len(msgs) - open + 1],
         \A k \in 1..(Len(msgs) - open) :
           IsResult(msgs[open + k]) /\ msgs[open + k].id = CallsOf(msgs[open])[k]
  PROVE  LET new == Append(msgs, m)
         IN /\ Balanced(new, open)
            /\ Len(msgs) + 1 - open = Len(CallsOf(msgs[open])) => Balanced(new, 0)
            /\ new[open] = msgs[open]
            /\ \A k \in 1..(Len(msgs) + 1 - open) :
                 IsResult(new[open + k]) /\ new[open + k].id = CallsOf(new[open])[k]
<1> DEFINE new == Append(msgs, m)
<1>1. /\ Len(msgs) \in Nat /\ Len(new) = Len(msgs) + 1 /\ new[Len(msgs) + 1] = m
      /\ \A i \in 1..Len(msgs) : new[i] = msgs[i]
      /\ new \in Seq(Message)
  OBVIOUS
<1> HIDE DEF new
<1>2. ASSUME NEW i \in 1..Len(msgs) PROVE (i # open => Closed(new, i)) /\ Owned(new, i)
  <2>1. (i # open => Closed(msgs, i)) /\ Owned(msgs, i)
    BY <1>1 DEF Balanced
  <2>2. Len(msgs) <= Len(new)
    BY <1>1
  <2> QED
    BY <1>1, <2>1, <2>2, SettledStays
<1>3. new[open] = msgs[open]
  BY <1>1
<1>4. PICK n \in Nat : n = Len(CallsOf(msgs[open]))
  BY CallsOfType, ElementOfSeq
<1>5. Closed(new, Len(msgs) + 1)
  <2>1. CallsOf(m) = <<>>
    BY DEF CallsOf
  <2> QED
    BY <1>1, <2>1 DEF Closed
<1>6. Owned(new, Len(msgs) + 1)
  <2>1. open \in 1..(Len(msgs) + 1 - 1) /\ Len(msgs) + 1 - open <= n
    BY <1>1, <1>4
  <2> QED
    BY <1>3, <1>4, <2>1 DEF Owned
<1>7. ASSUME NEW k \in 1..(Len(msgs) + 1 - open)
      PROVE  IsResult(new[open + k]) /\ new[open + k].id = CallsOf(new[open])[k]
  <2>1. CASE k = Len(msgs) + 1 - open
    <3>1. open + k = Len(msgs) + 1 /\ k = Len(msgs) - open + 1
      BY <1>1, <2>1
    <3> QED
      BY <1>1, <1>3, <3>1 DEF IsResult
  <2>2. CASE k # Len(msgs) + 1 - open
    <3>1. k \in 1..(Len(msgs) - open)
      BY <1>1, <2>2
    <3>2. open + k \in 1..Len(msgs)
      BY <1>1, <3>1
    <3> QED
      BY <1>1, <1>3, <3>1, <3>2
  <2> QED
    BY <2>1, <2>2
<1>8. ASSUME Len(msgs) + 1 - open = n PROVE Closed(new, open)
  <2>1. open + n <= Len(new)
    BY <1>1, <1>8
  <2> QED
    BY <1>3, <1>4, <1>7, <1>8, <2>1 DEF Closed
<1>9. \A i \in 1..Len(new) : (i # open => Closed(new, i)) /\ Owned(new, i)
  <2> TAKE i \in 1..Len(new)
  <2>1. Len(msgs) \in Nat /\ i \in 1..(Len(msgs) + 1)
    BY <1>1
  <2>2. i \in 1..Len(msgs) \/ i = Len(msgs) + 1
    BY <2>1, UpToNext
  <2> QED
    BY <1>2, <1>5, <1>6, <2>2
<1>10. Len(msgs) + 1 - open = n => Balanced(new, 0)
  BY <1>8, <1>9 DEF Balanced
<1> QED
  BY <1>3, <1>4, <1>7, <1>9, <1>10 DEF Balanced, new
-----------------------------------------------------------------------------
(* Masking changes no call, and no result but its text.                    *)
LEMMA BalancedSame ==
  ASSUME NEW msgs \in Seq(Message), NEW new \in Seq(Message), Len(new) = Len(msgs),
         \A i \in 1..Len(msgs) :
           CallsOf(new[i]) = CallsOf(msgs[i]) /\ new[i].id = msgs[i].id
             /\ (IsResult(new[i]) <=> IsResult(msgs[i])),
         Balanced(msgs, 0)
  PROVE  Balanced(new, 0)
<1>1. ASSUME NEW i \in 1..Len(msgs) PROVE Closed(new, i) /\ Owned(new, i)
  <2>1. /\ Closed(msgs, i) /\ Owned(msgs, i) /\ i # 0
        /\ CallsOf(new[i]) = CallsOf(msgs[i]) /\ Len(msgs) \in Nat
    BY DEF Balanced
  <2>2. PICK n \in Nat : n = Len(CallsOf(msgs[i]))
    BY CallsOfType, ElementOfSeq
  <2>3. ASSUME NEW k \in 1..n
        PROVE  IsResult(new[i + k]) /\ new[i + k].id = CallsOf(new[i])[k]
    <3>1. i + k \in 1..Len(msgs) /\ k \in 1..Len(CallsOf(msgs[i]))
      BY <2>1, <2>2 DEF Closed
    <3> QED
      BY <2>1, <3>1 DEF Closed
  <2>4. Closed(new, i)
    BY <2>1, <2>2, <2>3 DEF Closed
  <2>5. \A j \in 1..(i - 1) : CallsOf(new[j]) = CallsOf(msgs[j])
    BY <2>1
  <2>6. Owned(new, i)
    BY <2>1, <2>5 DEF Owned
  <2> QED
    BY <2>4, <2>6
<1> QED
  BY <1>1 DEF Balanced

LEMMA BalancedMask ==
  ASSUME NEW msgs \in Seq(Message), NEW end, Balanced(msgs, 0)
  PROVE  Balanced(MaskToolOutputs(msgs, end), 0)
<1> DEFINE new == MaskToolOutputs(msgs, end)
<1>1. \A m \in Message : [m EXCEPT !.role = "stub"] \in Message
  BY DEF Message, Role
<1>2. new \in Seq(Message) /\ Len(new) = Len(msgs)
  BY <1>1, MaskTypeOf
<1>3. ASSUME NEW i \in 1..Len(msgs)
      PROVE  CallsOf(new[i]) = CallsOf(msgs[i]) /\ new[i].id = msgs[i].id
               /\ (IsResult(new[i]) <=> IsResult(msgs[i]))
  <2>1. i \in DOMAIN msgs /\ msgs[i] \in Message
    BY LenProperties, ElementOfSeq
  <2>2. \/ new[i] = msgs[i]
        \/ new[i] = [msgs[i] EXCEPT !.role = "stub"] /\ msgs[i].role = "tool"
    BY <2>1 DEF MaskToolOutputs
  <2> HIDE DEF new
  <2> QED
    BY <2>1, <2>2 DEF Message, CallsOf, IsResult
<1> HIDE DEF new
<1>4. Balanced(new, 0)
  BY <1>2, <1>3, BalancedSame
<1> QED
  BY <1>4 DEF new

(* Dropping the messages before one that answers nothing, for others that  *)
(* ask for nothing and answer nothing, separates no result from its call.  *)
LEMMA BalancedCut ==
  ASSUME NEW msgs \in Seq(Message), Balanced(msgs, 0),
         NEW front \in Seq(Message),
         \A i \in 1..Len(front) : ~IsResult(front[i]) /\ CallsOf(front[i]) = <<>>,
         NEW e \in 1..Len(msgs) + 1, e <= Len(msgs) => ~IsResult(msgs[e])
  PROVE  Balanced(front \o SubSeq(msgs, e, Len(msgs)), 0)
<1> DEFINE rest == SubSeq(msgs, e, Len(msgs))
           new == front \o rest
           n == Len(front)
<1>1. /\ rest \in Seq(Message) /\ Len(rest) = Len(msgs) - e + 1
      /\ \A i \in 1..Len(rest) : rest[i] = msgs[e + i - 1]
  BY SuffixProperties
<1> HIDE DEF rest
<1>2. /\ new \in Seq(Message) /\ Len(new) = n + Len(rest)
      /\ \A i \in 1..(n + Len(rest)) : new[i] = IF i <= n THEN front[i] ELSE rest[i - n]
  BY <1>1, ConcatProperties
<1>3. n \in Nat /\ Len(rest) \in Nat /\ Len(msgs) \in Nat /\ e \in Nat
  BY <1>1
<1> HIDE DEF new, n
<1>4. ASSUME NEW i \in 1..n PROVE Closed(new, i) /\ Owned(new, i)
  <2>1. new[i] = front[i] /\ i \in 1..Len(front) /\ i <= Len(new)
    BY <1>2, <1>3 DEF n
  <2> QED
    BY <2>1, <1>2, <1>3 DEF Closed, Owned
<1>5. ASSUME NEW j \in 1..Len(rest)
      PROVE  new[n + j] = msgs[e + j - 1] /\ e + j - 1 \in 1..Len(msgs)
  <2>1. n + j \in 1..(n + Len(rest)) /\ ~(n + j <= n) /\ (n + j) - n = j
    BY <1>3
  <2>2. e + j - 1 \in 1..Len(msgs)
    BY <1>1, <1>3
  <2> QED
    BY <1>1, <1>2, <2>1, <2>2
<1>6. ASSUME NEW j \in 1..Len(rest) PROVE Closed(new, n + j) /\ Owned(new, n + j)
  <2>1. PICK i \in 1..Len(msgs) : i = e + j - 1 /\ new[n + j] = msgs[i]
    BY <1>5
  <2>2. Closed(msgs, i) /\ Owned(msgs, i)
    <3>1. i # 0
      BY <1>3, <2>1
    <3> QED
      BY <3>1 DEF Balanced
  <2>3. PICK c \in Nat : c = Len(CallsOf(msgs[i]))
    BY CallsOfType, ElementOfSeq
  <2>4. i + c <= Len(msgs)
    BY <2>2, <2>3 DEF Closed
  <2>5. ASSUME NEW k \in 1..c PROVE new[n + j + k] = msgs[i + k]
    <3>1. j + k \in 1..Len(rest) /\ e + (j + k) - 1 = i + k /\ n + (j + k) = n + j + k
      BY <1>1, <1>3, <2>1, <2>3, <2>4
    <3> QED
      BY <1>5, <3>1
  <2>6. n + j + c <= Len(new)
    BY <1>1, <1>2, <1>3, <2>1, <2>4
  <2>7. Closed(new, n + j)
    BY <2>1, <2>2, <2>3, <2>5, <2>6 DEF Closed
  <2>8. ASSUME IsResult(msgs[i])
        PROVE  Owned(new, n + j)
    <3>1. PICK a \in 1..(i - 1) : i - a <= Len(CallsOf(msgs[a]))
      BY <2>2, <2>8 DEF Owned
    <3>2. a \in 1..Len(msgs)
      BY <1>3, <2>1
    <3>3. e <= a
      <4> SUFFICES ASSUME a < e PROVE FALSE
        BY <1>3
      <4>1. Closed(msgs, a)
        BY <1>3, <3>2 DEF Balanced
      <4>2. Len(CallsOf(msgs[a])) \in Nat
        BY <3>2, CallsOfType, ElementOfSeq
      <4>3. e - a \in 1..Len(CallsOf(msgs[a])) /\ a + (e - a) = e
        BY <1>3, <2>1, <3>1, <4>2
      <4>4. IsResult(msgs[e])
        BY <4>1, <4>3 DEF Closed
      <4> QED
        BY <1>3, <2>1, <4>4
    <3>4. PICK b \in 1..Len(rest) : e + b - 1 = a /\ b < j
      <4>1. a - e + 1 \in 1..Len(rest) /\ e + (a - e + 1) - 1 = a /\ a - e + 1 < j
        BY <1>1, <1>3, <2>1, <3>2, <3>3
      <4> QED
        BY <4>1
    <3>5. new[n + b] = msgs[a]
      BY <1>5, <3>4
    <3>6. \E a1 \in 1..((n + j) - 1) : (n + j) - a1 <= Len(CallsOf(new[a1]))
      <4>1. n + b \in 1..((n + j) - 1) /\ (n + j) - (n + b) = i - a
        BY <1>3, <2>1, <3>4
      <4>2. (n + j) - (n + b) <= Len(CallsOf(new[n + b]))
        BY <3>1, <3>5, <4>1
      <4> QED
        BY <4>1, <4>2, Zenon
    <3> QED
      BY <3>6, Zenon DEF Owned
  <2>9. Owned(new, n + j)
    <3>1. ~IsResult(msgs[i]) => Owned(new, n + j)
      BY <2>1 DEF Owned
    <3> QED
      BY <2>8, <3>1
  <2> QED
    BY <2>7, <2>9
<1>7. ASSUME NEW i \in 1..Len(new) PROVE Closed(new, i) /\ Owned(new, i)
  <2>1. CASE i <= n
    <3>1. i \in 1..n
      BY <1>2, <1>3, <2>1
    <3> QED
      BY <1>4, <3>1
  <2>2. CASE i > n
    <3>1. i - n \in 1..Len(rest) /\ n + (i - n) = i
      BY <1>2, <1>3, <2>2
    <3> QED
      BY <1>6, <3>1
  <2> QED
    BY <1>2, <1>3, <2>1, <2>2
<1>8. Balanced(new, 0)
  BY <1>7 DEF Balanced
<1> QED
  BY <1>8 DEF new, rest

(* The recent turns start with a user message, if there are any.           *)
LEMMA RecentStartIsUser ==
  ASSUME NEW msgs \in Seq(Message), NEW keep \in Nat
  PROVE  \/ RecentStart(msgs, keep) = Len(msgs) + 1
         \/ RecentStart(msgs, keep) \in UserPositions(msgs)
<1> DEFINE users == UserPositions(msgs)
           recent == {i \in users : Cardinality({j \in users : j >= i}) <= keep}
<1>1. recent \subseteq users /\ users \subseteq Nat
  BY DEF UserPositions
<1>2. RecentStart(msgs, keep) = IF recent = {} THEN Len(msgs) + 1
                                ELSE CHOOSE i \in recent : \A j \in recent : i <= j
  BY DEF RecentStart
<1> HIDE DEF recent, users
<1>3. recent # {} => \E i \in recent : \A j \in recent : i <= j
  <2>1. recent \subseteq Nat
    BY <1>1
  <2> QED
    BY <2>1, LeastNat
<1>4. recent # {} => RecentStart(msgs, keep) \in users
  BY <1>1, <1>2, <1>3
<1> QED
  BY <1>2, <1>4 DEF users

(* So a summary starts no kept stretch with a result.                      *)
LEMMA BalancedSummary ==
  ASSUME NEW msgs \in Seq(Message), NEW keep \in Nat, Balanced(msgs, 0),
         NEW summary \in Message, summary.role = "summary"
  PROVE  Balanced(Summarized(msgs, keep, summary), 0)
<1> DEFINE n == PinnedLen(msgs)
           e == SummaryEnd(msgs, keep)
           head == SubSeq(msgs, 1, n)
           front == head \o <<summary>>
<1>1. Len(msgs) \in Nat /\ n \in 0..Len(msgs) /\ \A i \in 1..Len(msgs) : msgs[i] \in Message
  BY PinnedLenInRange, LenProperties, ElementOfSeq
<1>2. \A i \in 1..n : Pinned(msgs[i])
  <2> DEFINE Q(m) == /\ \A i \in 1..m : Pinned(msgs[i])
                     /\ m < Len(msgs) => ~Pinned(msgs[m + 1])
  <2>1. PinnedLen(msgs) = CHOOSE m \in 0..Len(msgs) : Q(m)
    BY DEF PinnedLen
  <2>2. \E m \in 0..Len(msgs) : Q(m)
    BY PinnedExists
  <2> HIDE DEF Q
  <2>3. Q(PinnedLen(msgs))
    BY <2>1, <2>2
  <2> QED
    BY <2>3 DEF Q
<1>3. e \in 1..Len(msgs) + 1 /\ (e <= Len(msgs) => ~IsResult(msgs[e]))
  <2>1. \/ RecentStart(msgs, keep) = Len(msgs) + 1
        \/ RecentStart(msgs, keep) \in UserPositions(msgs)
    BY RecentStartIsUser
  <2>2. RecentStart(msgs, keep) > n
    <3>1. CASE RecentStart(msgs, keep) = Len(msgs) + 1
      BY <1>1, <3>1
    <3>2. CASE RecentStart(msgs, keep) \in UserPositions(msgs)
      <4>1. PICK i \in 1..Len(msgs) : i = RecentStart(msgs, keep) /\ msgs[i].role = "user"
        BY <3>2 DEF UserPositions
      <4>2. ~(i <= n)
        BY <1>1, <1>2, <4>1 DEF Pinned
      <4> QED
        BY <1>1, <4>1, <4>2
    <3> QED
      BY <2>1, <3>1, <3>2
  <2>3. e = RecentStart(msgs, keep)
    BY <2>2 DEF SummaryEnd
  <2> QED
    BY <1>1, <2>1, <2>3 DEF UserPositions, IsResult
<1> HIDE DEF n, e
<1>4. /\ head \in Seq(Message) /\ Len(head) = n
      /\ \A i \in 1..n : head[i] = msgs[i]
  BY <1>1, SubSeqProperties
<1> HIDE DEF head
<1>5. /\ front \in Seq(Message) /\ Len(front) = n + 1
      /\ \A i \in 1..(n + 1) : front[i] = IF i <= n THEN head[i] ELSE summary
  <2>1. <<summary>> \in Seq(Message) /\ Len(<<summary>>) = 1 /\ <<summary>>[1] = summary
    OBVIOUS
  <2> QED
    BY <1>4, <2>1, ConcatProperties
<1> HIDE DEF front
<1>6. ASSUME NEW i \in 1..Len(front)
      PROVE  ~IsResult(front[i]) /\ CallsOf(front[i]) = <<>>
  <2>1. front[i].role \in {"system", "summary"}
    <3>1. CASE i <= n
      <4>1. i \in 1..n
        BY <1>1, <1>5, <3>1
      <4> QED
        BY <1>2, <1>4, <1>5, <3>1, <4>1 DEF Pinned
    <3>2. CASE ~(i <= n)
      BY <1>5, <3>2
    <3> QED
      BY <3>1, <3>2
  <2> QED
    BY <2>1 DEF IsResult, CallsOf
<1>7. Summarized(msgs, keep, summary) = front \o SubSeq(msgs, e, Len(msgs))
  BY DEF Summarized, front, head, n, e
<1> QED
  BY <1>3, <1>5, <1>6, <1>7, BalancedCut
-----------------------------------------------------------------------------
(* Calls are in hand from a response with calls to the end of the last one.*)
LEMMA HandlingChange ==
  ASSUME [Next]_vars
  PROVE  \/ pc \in AtCall <=> pc' \in AtCall
         \/ StreamDone \/ CallFinished
BY DEF Next, TaskStep, Provider, Tool, User, FrontEnd, vars, StartTurn, CompactHistory,
       SummaryArrives, NoSummary, StreamText, TextForwarded, StreamCall, StreamCancelled,
       StreamFails, CallSkipped, CallStarted, Refused, AutoApproved, MustAsk, AskRefused, AskOpens,
       GateShows, UserAnswers, GateDecides, GateResolved, RecordDecision, RecordRetry, RunStarts,
       RunEnds, RunBlocked, RunCancelled, Finish, Cancel, Receive, Hangup, AtCall

LEMMA IdsType ==
  ASSUME CallsType
  PROVE  /\ Ids(calls) \in Seq(Nat) /\ Len(Ids(calls)) = Len(calls)
         /\ \A k \in 1..Len(calls) : Ids(calls)[k] = calls[k].id
<1>1. \A i \in 1..Len(calls) : calls[i] \in [id : 1..MaxIds, kind : Kinds]
  BY ElementOfSeq DEF CallsType
<1>2. \A i \in 1..Len(calls) : calls[i].id \in Nat
  BY <1>1, Bounds
<1>3. Len(calls) \in Nat /\ DOMAIN calls = 1..Len(calls)
  BY LenProperties DEF CallsType
<1> QED
  BY <1>2, <1>3 DEF Ids

LEMMA AnswerStep ==
  ASSUME Authority, HistoryKnown, CallFinished
  PROVE  HistoryKnown'
<1>0. /\ CallsType /\ messages \in Seq(Message)
      /\ pc \in AtCall /\ index \in 1..Len(calls) /\ Len(calls) \in Nat
  <2>1. CallsType /\ messages \in Seq(Message) /\ pc \in AtCall
    BY TypeParts DEF Authority, MessagesType, CallFinished, AtCall
  <2> QED
    BY <2>1, CurrentType DEF CallsType
<1> DEFINE m == Msg("tool", <<>>, Current.id)
           new == Append(messages, m)
           open == AskedAt
<1>1. Answering /\ Balanced(messages, open)
  BY <1>0 DEF HistoryKnown
<1>2. Len(messages) \in Nat /\ open = Len(messages) - (index - 1) /\ open \in 1..Len(messages)
  BY <1>0, <1>1 DEF Answering, AskedAt
<1>3. /\ CallsOf(messages[open]) = Ids(calls)
      /\ \A k \in 1..(index - 1) :
           IsResult(messages[open + k]) /\ messages[open + k].id = Ids(calls)[k]
  BY <1>1 DEF Answering, CallsOf
<1>4. m \in Message /\ m.role = "tool" /\ m.id = Ids(calls)[index]
  <2>1. Current.id \in Nat
    BY <1>0, CurrentType, Bounds
  <2>2. Ids(calls)[index] = Current.id
    BY <1>0, IdsType DEF Current
  <2> QED
    BY <2>1, <2>2, EmptySeq DEF Msg, Message, Role
<1>5. /\ messages' = new /\ UNCHANGED calls /\ index' = index + 1
      /\ \/ pc' \in AtCall
         \/ pc' \notin AtCall /\ index = Len(calls)
  BY <1>0 DEF CallFinished, response, AtCall
<1>6. Len(new) = Len(messages) + 1
  BY <1>0, <1>4
<1>7. Len(Ids(calls)) = Len(calls)
  BY <1>0, IdsType
<1> HIDE DEF m, open
<1>8. /\ Balanced(new, open)
      /\ Len(messages) + 1 - open = Len(CallsOf(messages[open])) => Balanced(new, 0)
      /\ new[open] = messages[open]
      /\ \A k \in 1..(Len(messages) + 1 - open) :
           IsResult(new[open + k]) /\ new[open + k].id = CallsOf(new[open])[k]
  <2>1. /\ Len(messages) - open = index - 1
        /\ Len(messages) - open < Len(CallsOf(messages[open]))
        /\ Len(messages) - open + 1 = index
    BY <1>0, <1>2, <1>3, <1>7
  <2>2. m.id = CallsOf(messages[open])[Len(messages) - open + 1]
    BY <1>3, <1>4, <2>1
  <2>3. \A k \in 1..(Len(messages) - open) :
          IsResult(messages[open + k]) /\ messages[open + k].id = CallsOf(messages[open])[k]
    BY <1>3, <2>1
  <2> QED
    BY <1>0, <1>1, <1>2, <1>4, <2>1, <2>2, <2>3, BalancedAnswer
<1> HIDE DEF new
<1>9. CASE pc' \in AtCall
  <2>1. AskedAt' = open /\ index' - 1 = Len(messages) + 1 - open
    BY <1>0, <1>2, <1>5, <1>6 DEF AskedAt
  <2>2. messages'[open].role = "assistant" /\ messages'[open].calls = Ids(calls)
    BY <1>1, <1>5, <1>8 DEF Answering, open
  <2>3. \A k \in 1..(index' - 1) :
          IsResult(messages'[open + k]) /\ messages'[open + k].id = Ids(calls)[k]
    BY <1>3, <1>5, <1>8, <2>1
  <2>4. Ids(calls)' = Ids(calls)
    BY <1>5 DEF Ids
  <2>5. Answering'
    BY <1>2, <2>1, <2>2, <2>3, <2>4 DEF Answering
  <2> QED
    BY <1>5, <1>8, <1>9, <2>1, <2>5 DEF HistoryKnown
<1>10. CASE pc' \notin AtCall
  <2>1. Len(messages) + 1 - open = Len(CallsOf(messages[open]))
    BY <1>0, <1>2, <1>3, <1>5, <1>7, <1>10
  <2> QED
    BY <1>5, <1>8, <1>10, <2>1 DEF HistoryKnown
<1> QED
  BY <1>9, <1>10

LEMMA HistoryStep ==
  ASSUME Authority, HistoryKnown, [Next]_vars
  PROVE  HistoryKnown'
<1>0. CallsType /\ messages \in Seq(Message)
  BY TypeParts DEF Authority, MessagesType
<1>1. ASSUME NEW role \in {"user", "assistant"}
      PROVE  LET m == Msg(role, <<>>, 0)
             IN  m \in Message /\ ~IsResult(m) /\ CallsOf(m) = <<>>
  BY EmptySeq DEF Msg, Message, Role, IsResult, CallsOf
<1>2. CASE UNCHANGED messages /\ ~StreamDone /\ ~CallFinished
  <2>1. pc \in AtCall <=> pc' \in AtCall
    BY <1>2, HandlingChange
  <2>2. pc' \in AtCall => UNCHANGED <<calls, index>>
    BY <1>2, CallsChange DEF StreamCall, CompactHistory, AtCall
  <2>3. CASE pc' \in AtCall
    BY <1>2, <2>1, <2>2, <2>3 DEF HistoryKnown, Answering, AskedAt
  <2>4. CASE pc' \notin AtCall
    BY <1>2, <2>1, <2>4 DEF HistoryKnown
  <2> QED
    BY <2>3, <2>4
<1>3. CASE StartTurn
  <2>1. pc \notin AtCall /\ pc' \notin AtCall /\ messages' = Append(messages, Msg("user", <<>>, 0))
    BY <1>3 DEF StartTurn, AtCall
  <2> QED
    BY <1>0, <1>1, <2>1, BalancedPlain DEF HistoryKnown
<1>4. CASE StreamCancelled \/ StreamFails
  <2>1. /\ pc \notin AtCall /\ pc' \notin AtCall
        /\ \/ UNCHANGED messages
           \/ messages' = Append(messages, Msg("assistant", <<>>, 0))
    BY <1>4 DEF StreamCancelled, StreamFails, KeepPartialText, AtCall
  <2>2. CASE UNCHANGED messages
    BY <2>1, <2>2 DEF HistoryKnown
  <2>3. CASE messages' = Append(messages, Msg("assistant", <<>>, 0))
    BY <1>0, <1>1, <2>1, <2>3, BalancedPlain DEF HistoryKnown
  <2> QED
    BY <2>1, <2>2, <2>3
<1>5. CASE SummaryArrives
  <2> DEFINE m == Msg("summary", <<>>, 0)
  <2>1. pc \notin AtCall /\ pc' \notin AtCall /\ messages' = Summarized(messages, KeepTurns, m)
    BY <1>5 DEF SummaryArrives, AtCall
  <2>2. m \in Message /\ m.role = "summary" /\ KeepTurns \in Nat
    BY EmptySeq, TurnAssumption DEF Msg, Message, Role, TurnAssumption
  <2> HIDE DEF m
  <2> QED
    BY <1>0, <2>1, <2>2, BalancedSummary DEF HistoryKnown
<1>6. ASSUME NEW mask \in BOOLEAN, NEW summarize \in BOOLEAN, CompactHistory(mask, summarize)
      PROVE  HistoryKnown'
  <2>1. /\ pc \notin AtCall /\ pc' \notin AtCall
        /\ \/ UNCHANGED messages
           \/ messages' = MaskToolOutputs(messages, RecentStart(messages, KeepTurns))
    BY <1>6 DEF CompactHistory, AtCall
  <2>2. CASE UNCHANGED messages
    BY <2>1, <2>2 DEF HistoryKnown
  <2>3. CASE messages' = MaskToolOutputs(messages, RecentStart(messages, KeepTurns))
    BY <1>0, <2>1, <2>3, BalancedMask DEF HistoryKnown
  <2> QED
    BY <2>1, <2>2, <2>3
<1>7. CASE StreamDone
  <2> DEFINE m == Msg("assistant", Ids(calls), 0)
  <2>1. /\ pc \notin AtCall /\ UNCHANGED calls /\ index' = 1
        /\ \/ pc' \notin AtCall /\ calls = <<>>
           \/ pc' \in AtCall /\ calls # <<>>
        /\ messages' = IF text \/ calls # <<>> THEN Append(messages, m) ELSE messages
    BY <1>7 DEF StreamDone, AtCall, response
  <2>2. Ids(calls) \in Seq(Nat) /\ Len(Ids(calls)) = Len(calls)
    BY <1>0, IdsType
  <2>3. m \in Message /\ ~IsResult(m) /\ m.role = "assistant" /\ m.calls = Ids(calls)
    BY <2>2 DEF Msg, Message, Role, IsResult
  <2>4. Balanced(messages, 0)
    BY <2>1 DEF HistoryKnown
  <2> HIDE DEF m
  <2>5. CASE calls = <<>>
    <3>1. CallsOf(m) = <<>>
      <4>1. Len(Ids(calls)) = 0
        BY <2>2, <2>5
      <4> QED
        BY <2>2, <2>3, <4>1, EmptySeq DEF CallsOf
    <3>2. Balanced(Append(messages, m), 0)
      BY <1>0, <2>3, <2>4, <3>1, BalancedPlain
    <3> QED
      BY <2>1, <2>4, <2>5, <3>2 DEF HistoryKnown
  <2>6. CASE calls # <<>>
    <3>1. messages' = Append(messages, m) /\ Balanced(messages', Len(messages) + 1)
      BY <1>0, <2>1, <2>3, <2>4, <2>6, BalancedAsk
    <3>2. /\ Len(messages) \in Nat /\ Len(messages') = Len(messages) + 1
          /\ messages'[Len(messages) + 1] = m
      BY <1>0, <2>3, <3>1
    <3>3. AskedAt' = Len(messages) + 1
      BY <2>1, <3>2 DEF AskedAt
    <3>4. Ids(calls)' = Ids(calls)
      BY <2>1 DEF Ids
    <3>5. Answering'
      BY <2>1, <2>3, <3>2, <3>3, <3>4 DEF Answering
    <3> QED
      BY <2>1, <2>6, <3>1, <3>3, <3>5 DEF HistoryKnown
  <2> QED
    BY <2>5, <2>6
<1>8. CASE CallFinished
  BY <1>8, AnswerStep
<1> QED
  BY <1>2, <1>3, <1>4, <1>5, <1>6, <1>7, <1>8, MessagesChange

LEMMA InitHistory == Init => HistoryKnown
<1> SUFFICES ASSUME Init PROVE HistoryKnown
  OBVIOUS
<1>1. pc \notin AtCall /\ messages = <<SystemPrompt>>
  BY DEF Init, AtCall
<1>2. Len(messages) = 1 /\ messages[1].role = "system"
  BY <1>1 DEF SystemPrompt, Msg
<1>3. Closed(messages, 1) /\ Owned(messages, 1)
  <2>1. CallsOf(messages[1]) = <<>> /\ ~IsResult(messages[1])
    BY <1>2 DEF CallsOf, IsResult
  <2> QED
    BY <1>2, <2>1 DEF Closed, Owned
<1> QED
  BY <1>1, <1>2, <1>3 DEF HistoryKnown, Balanced

LEMMA BalancedIsWellFormed == HistoryKnown => HistoryWellFormed
<1> SUFFICES ASSUME HistoryKnown, pc \in {"idle", "summarize", "stream", "finish"},
                    NEW i \in 1..Len(messages)
             PROVE  LET ids == CallsAt(i) IN
                    /\ i + Len(ids) <= Len(messages)
                    /\ \A k \in 1..Len(ids) :
                         IsResult(messages[i + k]) /\ messages[i + k].id = ids[k]
                    /\ IsResult(messages[i]) =>
                         \E j \in 1..(i - 1) : i - j <= Len(CallsAt(j))
  BY DEF HistoryWellFormed
<1>1. Balanced(messages, 0)
  BY DEF HistoryKnown, AtCall
<1>2. i # 0
  OBVIOUS
<1>3. Closed(messages, i) /\ Owned(messages, i)
  BY <1>1, <1>2 DEF Balanced
<1>4. \A j : CallsAt(j) = CallsOf(messages[j])
  BY DEF CallsAt, CallsOf
<1> QED
  BY <1>3, <1>4 DEF Closed, Owned

(* Whenever a request may be sent or the session saved, every call has its *)
(* results and every result its call (run_turn, stream_step, compact_with):*)
(* through cancellations, provider errors, masking and summaries, for any  *)
(* number of turns, steps and calls.                                       *)
THEOREM HistoryWellFormedAlways == Spec => []HistoryWellFormed
<1> DEFINE Inv == Authority /\ HistoryKnown
<1>1. Init => Inv
  BY InitAuthority, InitHistory
<1>2. Inv /\ [Next]_vars => Inv'
  BY AuthorityStep, HistoryStep
<1>3. Inv => HistoryWellFormed
  BY BalancedIsWellFormed
<1> QED
  BY <1>1, <1>2, <1>3, PTL DEF Spec
=============================================================================
