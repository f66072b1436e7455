----------------------------- MODULE AgentTurn -----------------------------
(***************************************************************************)
(* A chat's turns in rozu-core with a model provider: the turn loop        *)
(* (agent.rs turn, agent/stream.rs, agent/compaction.rs) and the execution *)
(* of each tool call (exec.rs) as one task, and everything it waits for:   *)
(* the provider's stream, the user at the approval gate, the running tool, *)
(* the cancellation token and the bounded channel of events.               *)
(*                                                                         *)
(* Every action ends at an await.  The selects are biased towards the      *)
(* cancellation, so a step that they guard needs ~cancelled; a send on the *)
(* channel is not guarded and waits for room even after a cancellation.    *)
(*                                                                         *)
(* Abstractions.                                                           *)
(*  - Of texts only their presence is kept, of a tool's output only        *)
(*    whether the sandbox blocked the run; one TextDelta stands for any    *)
(*    number of text and usage events.                                     *)
(*  - The model may call any kind of Kinds, or send a call that is refused *)
(*    before the approval step (BadCall: unknown tool, invalid arguments). *)
(*  - Call ids are unique.                                                 *)
(***************************************************************************)
EXTENDS Compact, ApprovalPolicy

CONSTANTS
  Kinds,        \* kinds of tool calls the model may make
  BadCall,      \* a call to an unknown tool, or with invalid arguments
  ApprovalMode, \* the session's approval mode
  Enforced,     \* whether there is an OS sandbox
  AsksUser,     \* ApprovalGate::asks_user: FALSE when nobody watches
  StoredRules,  \* the project's "always allow" rules at the start
  KeepTurns,    \* MemoryPolicy::keep_turns
  MaxSteps,     \* AgentConfig::max_steps
  MaxCalls,     \* bound on the calls of one response
  MaxTurns,     \* bound on turns
  MaxIds,       \* bound on calls ever made
  Capacity,     \* of the event channel
  NoPrompt, NoAnswer

Decision == {"approve", "always", "unsandboxed", "deny"}
Source == {"mode", "rule", "gate", "cancelled", "policy"}
Outcome == {"completed", "cancelled", "max_steps"}

(* At least one response is asked for ("max_steps must be 1 to 200").      *)
ASSUME TurnAssumption ==
  /\ Kinds \subseteq Kind \cup {BadCall} /\ BadCall \notin Kind
  /\ StoredRules \subseteq Rules /\ NoRule \notin Rules
  /\ ApprovalMode \in Mode /\ Enforced \in BOOLEAN /\ AsksUser \in BOOLEAN
  /\ MaxSteps \in Nat \ {0} /\ KeepTurns \in Nat /\ Capacity \in Nat
  /\ MaxCalls \in Nat /\ MaxTurns \in Nat /\ MaxIds \in Nat
  /\ NoPrompt \notin [id : Nat, retry : BOOLEAN] /\ NoAnswer \notin Decision

VARIABLES
  pc,        \* where the turn's task is
  cancelled, \* the turn's CancellationToken
  messages,  \* Session::messages
  step,      \* model responses asked for in this turn
  outcome,   \* of the turn that is finishing
  text,      \* whether this response has text so far (StepOutput)
  calls,     \* the calls of this response: [id, kind] (StepOutput)
  index,     \* position of the call being handled
  verdict,   \* its decision and who made it
  retry,     \* whether the sandbox blocked it and the gate is asked again
  prompt,    \* the request the gate shows to the user, or NoPrompt
  answer,    \* the user's answer to it, or NoAnswer
  rules,     \* the policy's "always allow" rules
  events,    \* the channel: sent and not yet received
  listening, \* whether the receiver still exists
  feed,      \* what the receiver knows, see Received
  nextId,    \* identity of the next call
  turns,     \* turns started (bound only)
  answers,   \* history: the user's answers in this turn
  granted,   \* history: rules stored at the start or granted by the user
  runs       \* history: every start of a tool in this turn

loop == <<messages, step, outcome>>
response == <<text, calls, nextId>>
call == <<index, verdict, retry>>
gate == <<prompt, answer, answers, granted>>
receiver == <<listening, feed, turns>>
vars == <<pc, cancelled, loop, response, call, gate, rules, events, receiver, runs>>

Message == [role : Role, calls : Seq(Nat), id : Nat]
Msg(role, ids, id) == [role |-> role, calls |-> ids, id |-> id]

(* The pinned system prompt at the head of every session.                  *)
SystemPrompt == Msg("system", <<>>, 0)

Ids(cs) == [i \in DOMAIN cs |-> cs[i].id]
Current == calls[index]
Verdict(decision, source) == [decision |-> decision, source |-> source]
NoVerdict == Verdict("deny", "policy")

(***************************************************************************)
(* The event channel.  A send waits for room, or is lost at once when the  *)
(* receiver is gone.  A front end derives from the events the open prompt, *)
(* the running calls, the reported approvals and the turn's end.           *)
(***************************************************************************)
Event(type, id) == [type |-> type, id |-> id]

Send(e) ==
  /\ listening => Len(events) < Capacity
  /\ events' = IF listening THEN Append(events, e) ELSE events

NewFeed == [prompt |-> 0, running |-> {}, approvals |-> <<>>, over |-> FALSE]

Received(f, e) ==
  CASE e.type = "started"  -> [f EXCEPT !.running = f.running \cup {e.id}]
    [] e.type = "pending"  -> [f EXCEPT !.prompt = e.id]
    [] e.type = "resolved" -> [f EXCEPT !.prompt = 0]
    [] e.type = "approval" -> [f EXCEPT !.approvals = Append(f.approvals, e.id)]
    [] e.type = "finished" -> [f EXCEPT !.running = f.running \ {e.id}]
    [] e.type \in Outcome  -> [f EXCEPT !.over = TRUE]
    [] OTHER -> f

Init ==
  /\ pc = "idle" /\ cancelled = FALSE
  /\ messages = <<SystemPrompt>> /\ step = 0 /\ outcome = "completed"
  /\ text = FALSE /\ calls = <<>> /\ nextId = 1
  /\ index = 1 /\ verdict = NoVerdict /\ retry = FALSE
  /\ prompt = NoPrompt /\ answer = NoAnswer /\ answers = {} /\ granted = StoredRules
  /\ rules = StoredRules
  /\ events = <<>> /\ listening = TRUE /\ feed = NewFeed /\ turns = 0
  /\ runs = {}

-----------------------------------------------------------------------------
(* run_turn: a fresh token and a fresh channel.  The caller drains the     *)
(* last turn's events before it starts the next one.                       *)
StartTurn ==
  /\ pc = "idle" /\ turns < MaxTurns /\ events = <<>>
  /\ messages' = Append(messages, Msg("user", <<>>, 0))
  /\ step' = 1
  /\ cancelled' = FALSE
  /\ turns' = turns + 1 /\ listening' = TRUE /\ feed' = NewFeed
  /\ answers' = {} /\ runs' = {}
  /\ pc' = "compact"
  /\ UNCHANGED <<outcome, response, call, prompt, answer, granted, rules, events>>

(* compact_with: the thresholds decide whether old tool outputs are masked *)
(* and whether older turns are then summarized.                            *)
CompactHistory(mask, summarize) ==
  /\ pc = "compact"
  /\ messages' = IF mask THEN MaskToolOutputs(messages, RecentStart(messages, KeepTurns))
                 ELSE messages
  /\ text' = FALSE /\ calls' = <<>>
  /\ pc' = IF summarize /\ CanSummarize(messages, KeepTurns) THEN "summarize" ELSE "stream"
  /\ UNCHANGED <<cancelled, step, outcome, nextId, call, gate, rules, events, receiver, runs>>

SummaryArrives ==
  /\ pc = "summarize" /\ ~cancelled
  /\ messages' = Summarized(messages, KeepTurns, Msg("summary", <<>>, 0))
  /\ pc' = "stream"
  /\ UNCHANGED <<cancelled, step, outcome, response, call, gate, rules, events, receiver, runs>>

(* The summary's request was cancelled, failed or came back empty: the     *)
(* turn goes on without it.                                                *)
NoSummary ==
  /\ pc = "summarize"
  /\ pc' = "stream"
  /\ UNCHANGED <<cancelled, loop, response, call, gate, rules, events, receiver, runs>>

-----------------------------------------------------------------------------
(* stream_step, one event of the response at a time.                       *)
StreamText ==
  /\ pc = "stream" /\ ~cancelled /\ ~text
  /\ text' = TRUE
  /\ pc' = "forward"
  /\ UNCHANGED <<cancelled, loop, calls, nextId, call, gate, rules, events, receiver, runs>>

TextForwarded ==
  /\ pc = "forward"
  /\ Send(Event("text", 0))
  /\ pc' = "stream"
  /\ UNCHANGED <<cancelled, loop, response, call, gate, rules, receiver, runs>>

StreamCall(kind) ==
  /\ pc = "stream" /\ ~cancelled
  /\ Len(calls) < MaxCalls /\ nextId <= MaxIds
  /\ calls' = Append(calls, [id |-> nextId, kind |-> kind])
  /\ nextId' = nextId + 1
  /\ UNCHANGED <<pc, cancelled, loop, text, call, gate, rules, events, receiver, runs>>

(* The response is complete: the assistant's message, then its calls.      *)
StreamDone ==
  /\ pc = "stream" /\ ~cancelled
  /\ messages' = IF text \/ calls # <<>> THEN Append(messages, Msg("assistant", Ids(calls), 0))
                 ELSE messages
  /\ index' = 1
  /\ IF calls = <<>> THEN pc' = "finish" /\ outcome' = "completed"
     ELSE pc' = "call" /\ UNCHANGED outcome
  /\ UNCHANGED <<cancelled, step, response, verdict, retry, gate, rules, events, receiver, runs>>

(* Variant: the calls of the cut-off response are kept as well.            *)
KeepPartialCalls ==
  messages' = IF text \/ calls # <<>> THEN Append(messages, Msg("assistant", Ids(calls), 0))
              ELSE messages

KeepPartialText ==
  messages' = IF text THEN Append(messages, Msg("assistant", <<>>, 0)) ELSE messages

StreamCancelled ==
  /\ pc = "stream" /\ cancelled
  /\ KeepPartialText
  /\ pc' = "finish" /\ outcome' = "cancelled"
  /\ UNCHANGED <<cancelled, step, response, call, gate, rules, events, receiver, runs>>

(* A provider error ends the turn with Err: no TurnFinished event.         *)
StreamFails ==
  /\ pc = "stream" /\ ~cancelled
  /\ KeepPartialText
  /\ pc' = "idle"
  /\ UNCHANGED <<cancelled, step, outcome, response, call, gate, rules, events, receiver, runs>>

-----------------------------------------------------------------------------
(* One call.  After a cancellation the remaining calls only get an error.  *)
CallSkipped ==
  /\ pc = "call" /\ cancelled
  /\ pc' = "result"
  /\ UNCHANGED <<cancelled, loop, response, call, gate, rules, events, receiver, runs>>

CallStarted ==
  /\ pc = "call" /\ ~cancelled
  /\ Send(Event("started", Current.id))
  /\ pc' = "execute"
  /\ UNCHANGED <<cancelled, loop, response, call, gate, rules, receiver, runs>>

(* execute: lookup, arguments and validation, then the policy's decision   *)
(* or a question to the gate.                                              *)
Refused ==
  /\ pc = "execute" /\ Current.kind = BadCall
  /\ pc' = "result"
  /\ UNCHANGED <<cancelled, loop, response, call, gate, rules, events, receiver, runs>>

AutoApproved ==
  /\ pc = "execute" /\ Current.kind # BadCall
  /\ \E source \in AutoApproval(Current.kind, ApprovalMode, Enforced, rules) :
       verdict' = Verdict("approve", source)
  /\ pc' = "record"
  /\ UNCHANGED <<cancelled, loop, response, index, retry, gate, rules, events, receiver, runs>>

(* decide's question, or the one about a run that the sandbox blocked.     *)
MustAsk ==
  \/ /\ pc = "execute" /\ Current.kind # BadCall
     /\ AutoApproval(Current.kind, ApprovalMode, Enforced, rules) = {}
  \/ pc = "ask"

(* ask_gate: nobody is asked about a preview of more than 2 MiB.           *)
AskRefused ==
  /\ MustAsk /\ Current.kind.huge
  /\ verdict' = Verdict("deny", "policy")
  /\ pc' = "record"
  /\ UNCHANGED <<cancelled, loop, response, index, retry, gate, rules, events, receiver, runs>>

(* With a person at the gate the prompt is announced first.                *)
AskOpens ==
  /\ MustAsk /\ ~Current.kind.huge
  /\ IF AsksUser /\ ~cancelled THEN Send(Event("pending", Current.id)) /\ pc' = "gate"
     ELSE UNCHANGED events /\ pc' = "quiet_gate"
  /\ UNCHANGED <<cancelled, loop, response, call, gate, rules, receiver, runs>>

(* The gate shows the request to the user, unless the turn is cancelled.   *)
GateShows ==
  /\ pc = "gate" /\ ~cancelled /\ prompt = NoPrompt
  /\ prompt' = [id |-> Current.id, retry |-> retry]
  /\ UNCHANGED <<pc, cancelled, loop, response, call, answer, answers, granted, rules, events,
                 receiver, runs>>

(* ApprovalOptions: what both front ends' prompts offer besides "deny".    *)
Offered(decision) ==
  CASE decision = "deny" -> TRUE
    [] decision = "approve" -> ~prompt.retry
    [] decision = "always" ->
         /\ ~prompt.retry /\ AllowRule(Current.kind, ApprovalMode) # NoRule
         /\ ~NetworkGrant(Current.kind, Enforced)
    [] decision = "unsandboxed" -> Confinement(Current.kind, Enforced) = "enforced"

UserAnswers(decision) ==
  /\ prompt # NoPrompt /\ answer = NoAnswer
  /\ Offered(decision)
  /\ answer' = decision
  /\ answers' = answers \cup {[id |-> prompt.id, retry |-> prompt.retry, decision |-> decision]}
  /\ granted' = IF decision = "always" THEN granted \cup {Current.kind.rule} ELSE granted
  /\ UNCHANGED <<pc, cancelled, loop, response, call, prompt, rules, events, receiver, runs>>

(* Variant: the select waits for the gate alone once the user sees it.     *)
GateDecidesAlone ==
  /\ pc \in {"gate", "quiet_gate"}
  /\ \/ cancelled /\ prompt = NoPrompt /\ verdict' = Verdict("deny", "cancelled")
     \/ ~cancelled /\ pc = "quiet_gate" /\ verdict' = Verdict("deny", "gate")
     \/ answer # NoAnswer /\ verdict' = Verdict(answer, "gate")
  /\ prompt' = NoPrompt /\ answer' = NoAnswer
  /\ pc' = IF pc = "gate" THEN "resolve" ELSE "record"
  /\ UNCHANGED <<cancelled, loop, response, index, retry, answers, granted, rules, events,
                 receiver, runs>>

(* A gate with nobody behind it (ReadOnlyGate) denies at once.             *)
GateDecides ==
  /\ pc \in {"gate", "quiet_gate"}
  /\ \/ cancelled /\ verdict' = Verdict("deny", "cancelled")
     \/ ~cancelled /\ pc = "quiet_gate" /\ verdict' = Verdict("deny", "gate")
     \/ ~cancelled /\ answer # NoAnswer /\ verdict' = Verdict(answer, "gate")
  /\ prompt' = NoPrompt /\ answer' = NoAnswer
  /\ pc' = IF pc = "gate" THEN "resolve" ELSE "record"
  /\ UNCHANGED <<cancelled, loop, response, index, retry, answers, granted, rules, events,
                 receiver, runs>>

(* Variant: the prompt's end is reported only when the user answered.      *)
ResolvedIfAnswered ==
  /\ pc = "resolve"
  /\ IF verdict.source = "gate" THEN Send(Event("resolved", Current.id)) ELSE UNCHANGED events
  /\ pc' = "record"
  /\ UNCHANGED <<cancelled, loop, response, call, gate, rules, receiver, runs>>

GateResolved ==
  /\ pc = "resolve"
  /\ Send(Event("resolved", Current.id))
  /\ pc' = "record"
  /\ UNCHANGED <<cancelled, loop, response, call, gate, rules, receiver, runs>>

(* Only the user may lift the sandbox, where there is one.                 *)
Unsandboxed ==
  /\ verdict.decision = "unsandboxed" /\ verdict.source = "gate"
  /\ Confinement(Current.kind, Enforced) = "enforced"

(* The decision's event, then what it means: "always allow" adds its rule. *)
RecordDecision ==
  /\ pc = "record" /\ ~retry
  /\ Send(Event("approval", Current.id))
  /\ rules' = IF verdict.decision = "always"
              THEN Remembered(rules, Current.kind, ApprovalMode, Enforced) ELSE rules
  /\ pc' = IF verdict.decision = "deny" THEN "result" ELSE "run"
  /\ UNCHANGED <<cancelled, loop, response, call, gate, receiver, runs>>

(* Variant: a rerun's decision is not reported.                            *)
RetryUnreported ==
  /\ pc = "record" /\ retry
  /\ pc' = IF Unsandboxed THEN "run" ELSE "result"
  /\ UNCHANGED <<cancelled, loop, response, call, gate, rules, events, receiver, runs>>

(* A rerun needs the unsandboxed approval, else the first output stands.   *)
RecordRetry ==
  /\ pc = "record" /\ retry
  /\ Send(Event("approval", Current.id))
  /\ pc' = IF Unsandboxed THEN "run" ELSE "result"
  /\ UNCHANGED <<cancelled, loop, response, call, gate, rules, receiver, runs>>

-----------------------------------------------------------------------------
(* run: the tool, its timeout and the cancellation race.                   *)
RunStarts ==
  /\ pc = "run" /\ ~cancelled
  /\ runs' = runs \cup {[id |-> Current.id, kind |-> Current.kind, retry |-> retry,
                         free |-> Unsandboxed]}
  /\ pc' = "running"
  /\ UNCHANGED <<cancelled, loop, response, call, gate, rules, events, receiver>>

(* The tool ends or times out.                                             *)
RunEnds ==
  /\ pc = "running" /\ ~cancelled
  /\ pc' = "result"
  /\ UNCHANGED <<cancelled, loop, response, call, gate, rules, events, receiver, runs>>

(* The sandbox blocked a run that it confined: the escape is offered once. *)
RunBlocked ==
  /\ pc = "running" /\ ~cancelled
  /\ Confinement(Current.kind, Enforced) = "enforced" /\ ~Unsandboxed
  /\ retry' = TRUE
  /\ pc' = "ask"
  /\ UNCHANGED <<cancelled, loop, response, index, verdict, gate, rules, events, receiver, runs>>

RunCancelled ==
  /\ pc \in {"run", "running"} /\ cancelled
  /\ pc' = "result"
  /\ UNCHANGED <<cancelled, loop, response, call, gate, rules, events, receiver, runs>>

(* Variant: off by one, the loop goes on past the last call.               *)
CallFinishedOneMore ==
  /\ pc = "result"
  /\ Send(Event("finished", Current.id))
  /\ messages' = Append(messages, Msg("tool", <<>>, Current.id))
  /\ index' = index + 1 /\ verdict' = NoVerdict /\ retry' = FALSE
  /\ pc' = IF index <= Len(calls) THEN "call" ELSE "finish"
  /\ UNCHANGED <<cancelled, step, outcome, response, gate, rules, receiver, runs>>

(* The call's result: its event, its message, then the next call or step.  *)
CallFinished ==
  /\ pc = "result"
  /\ Send(Event("finished", Current.id))
  /\ messages' = Append(messages, Msg("tool", <<>>, Current.id))
  /\ index' = index + 1 /\ verdict' = NoVerdict /\ retry' = FALSE
  /\ IF index < Len(calls) THEN pc' = "call" /\ UNCHANGED <<step, outcome>>
     ELSE IF cancelled THEN pc' = "finish" /\ outcome' = "cancelled" /\ UNCHANGED step
     ELSE IF step = MaxSteps THEN pc' = "finish" /\ outcome' = "max_steps" /\ UNCHANGED step
     ELSE pc' = "compact" /\ step' = step + 1 /\ UNCHANGED outcome
  /\ UNCHANGED <<cancelled, response, gate, rules, receiver, runs>>

Finish ==
  /\ pc = "finish"
  /\ Send(Event(outcome, 0))
  /\ pc' = "idle"
  /\ UNCHANGED <<cancelled, loop, response, call, gate, rules, receiver, runs>>

-----------------------------------------------------------------------------
(* The user interrupts the turn; the front end takes an event, or goes.    *)
Cancel ==
  /\ pc # "idle" /\ ~cancelled
  /\ cancelled' = TRUE
  /\ UNCHANGED <<pc, loop, response, call, gate, rules, events, receiver, runs>>

Receive ==
  /\ events # <<>>
  /\ feed' = Received(feed, Head(events))
  /\ events' = Tail(events)
  /\ UNCHANGED <<pc, cancelled, loop, response, call, gate, rules, listening, turns, runs>>

Hangup ==
  /\ pc # "idle" /\ listening
  /\ listening' = FALSE
  /\ events' = <<>>
  /\ UNCHANGED <<pc, cancelled, loop, response, call, gate, rules, feed, turns, runs>>

(* What the task does by itself, without the provider, the tool or a user. *)
TaskStep ==
  \/ \E mask, summarize \in BOOLEAN : CompactHistory(mask, summarize)
  \/ TextForwarded
  \/ StreamCancelled
  \/ CallSkipped \/ CallStarted \/ Refused \/ AutoApproved \/ AskRefused \/ AskOpens
  \/ GateShows \/ GateDecides \/ GateResolved \/ RecordDecision \/ RecordRetry
  \/ RunStarts \/ RunCancelled
  \/ CallFinished
  \/ Finish

Provider ==
  \/ SummaryArrives \/ NoSummary
  \/ StreamText \/ StreamDone \/ StreamFails
  \/ \E kind \in Kinds : StreamCall(kind)

Tool == RunEnds \/ RunBlocked

User ==
  \/ StartTurn
  \/ Cancel
  \/ \E decision \in Decision : UserAnswers(decision)

FrontEnd == Receive \/ Hangup

Next == TaskStep \/ Provider \/ Tool \/ User \/ FrontEnd

Spec == Init /\ [][Next]_vars

(* The runtime polls a task that can go on, the front end drains its       *)
(* channel, and a cancelled summary request ends.  Nothing is assumed of   *)
(* the provider, the tool or the user.                                     *)
Fairness ==
  /\ WF_vars(TaskStep)
  /\ WF_vars(Receive)
  /\ WF_vars(cancelled /\ NoSummary)

FairSpec == Spec /\ Fairness

-----------------------------------------------------------------------------
TypeOK ==
  /\ pc \in {"idle", "compact", "summarize", "stream", "forward", "call", "execute", "gate",
             "quiet_gate", "resolve", "record", "run", "running", "ask", "result", "finish"}
  /\ cancelled \in BOOLEAN
  /\ messages \in Seq(Message) /\ step \in 0..MaxSteps /\ outcome \in Outcome
  /\ text \in BOOLEAN /\ calls \in Seq([id : 1..MaxIds, kind : Kinds])
  /\ nextId \in 1..(MaxIds + 1)
  /\ index \in 1..(MaxCalls + 1)
  /\ pc \in {"call", "execute", "gate", "quiet_gate", "resolve", "record", "run", "running",
             "ask", "result"} => index <= Len(calls)
  /\ verdict \in [decision : Decision, source : Source] /\ retry \in BOOLEAN
  /\ prompt \in [id : 1..MaxIds, retry : BOOLEAN] \cup {NoPrompt}
  /\ answer \in Decision \cup {NoAnswer}
  /\ answers \subseteq [id : 1..MaxIds, retry : BOOLEAN, decision : Decision]
  /\ rules \subseteq granted /\ granted \subseteq Rules
  /\ events \in Seq([type : {"text"} \cup Outcome, id : {0}] \cup
                    [type : {"started", "pending", "resolved", "approval", "finished"},
                     id : 1..MaxIds])
  /\ Len(events) <= Capacity
  /\ listening \in BOOLEAN /\ turns \in 0..MaxTurns
  /\ feed \in [prompt : 0..MaxIds, running : SUBSET (1..MaxIds), approvals : Seq(1..MaxIds),
               over : BOOLEAN]
  /\ runs \subseteq [id : 1..MaxIds, kind : Kind, retry : BOOLEAN, free : BOOLEAN]

IsResult(m) == m.role \in {"tool", "stub"}

(* The ids of the calls a message at position i leaves to be answered.     *)
CallsAt(i) == IF messages[i].role = "assistant" THEN messages[i].calls ELSE <<>>

(* Whenever a request may be sent or the session saved, every call of an   *)
(* assistant message is followed by exactly its results, in order, and     *)
(* there is no result without its call: "every tool call in the session    *)
(* still gets a result" (run_turn), through cancellations, provider errors *)
(* and compactions.  Providers refuse a history that breaks this.          *)
HistoryWellFormed ==
  pc \in {"idle", "summarize", "stream", "finish"} =>
    \A i \in 1..Len(messages) :
      LET ids == CallsAt(i) IN
      /\ i + Len(ids) <= Len(messages)
      /\ \A k \in 1..Len(ids) : IsResult(messages[i + k]) /\ messages[i + k].id = ids[k]
      /\ IsResult(messages[i]) =>
           \E j \in 1..(i - 1) : i - j <= Len(CallsAt(j))

Answered(r, retried, decisions) ==
  \E a \in answers : a.id = r.id /\ a.retry = retried /\ a.decision \in decisions

(* A tool runs only when it may: reads always; other calls by the mode's   *)
(* documented allowance, by a rule that was stored at the start or granted *)
(* by the user, or by the user's approval of this very call.  Destructive  *)
(* and opaque calls need the user, and a run outside the sandbox needs the *)
(* user's "unsandboxed" answer to this very attempt (approval.rs, exec.rs).*)
Authorized ==
  \A r \in runs :
    /\ \/ Answered(r, FALSE, {"approve", "always", "unsandboxed"})
       \/ r.kind.risk = "read"
       \/ ApprovalMode = "full" /\ r.kind.risk \notin {"destructive", "opaque"}
       \/ /\ ApprovalMode = "auto" /\ r.kind.risk = "write"
          /\ Confinement(r.kind, Enforced) # "off"
       \/ /\ ApprovalMode = "auto" /\ r.kind.risk \in {"write", "outside"}
          /\ r.kind.rule \in granted
          /\ r.kind.network => Confinement(r.kind, Enforced) # "enforced"
    /\ r.free => Answered(r, r.retry, {"unsandboxed"})
    /\ r.retry => r.free /\ \E first \in runs : first.id = r.id /\ ~first.retry /\ ~first.free

(* Once a turn is over and its events were received, nothing is left open: *)
(* every prompt that was announced is resolved and every call that started *)
(* is finished, after a cancellation or a provider error too.  A front end *)
(* has no other source for closing its cards.                              *)
FeedSettled ==
  pc = "idle" /\ listening /\ events = <<>> => feed.prompt = 0 /\ feed.running = {}

Approvals(id) == Cardinality({i \in DOMAIN feed.approvals : feed.approvals[i] = id})

(* The audit trail a watching front end gets: when the turn is over, each  *)
(* call that ran was reported as approved once, and twice if and only if   *)
(* the sandbox blocked its first run and the gate was asked again          *)
(* (execute: "exactly one Approval ... plus one more ...").                *)
ApprovalsReported ==
  pc = "idle" /\ listening /\ events = <<>> =>
    \A id \in 1..MaxIds :
      /\ Approvals(id) <= 2
      /\ \A r \in runs : r.id = id => Approvals(id) = 2 \/ (Approvals(id) = 1 /\ ~r.retry)
      /\ Approvals(id) = 2 =>
           \E r \in runs : r.id = id /\ ~r.free /\ Confinement(r.kind, Enforced) = "enforced"

(* Both: what the receiver of a whole turn's events is left with.          *)
FeedComplete == FeedSettled /\ ApprovalsReported

(* A cancelled turn ends, whatever the provider, the tool and the user at  *)
(* the prompt do, as long as the front end drains its events.              *)
CancelEndsTurn == cancelled /\ pc # "idle" ~> pc = "idle"

(* After a cancellation no front end keeps showing a prompt that nobody    *)
(* waits for any more (ask_gate reports the prompt's end on every path).   *)
CancelClosesPrompt == cancelled /\ feed.prompt # 0 ~> feed.prompt = 0 \/ ~listening
=============================================================================
