------------------------------ MODULE AppChat ------------------------------
(***************************************************************************)
(* One conversation of the desktop app (rozu-app): the window's thread     *)
(* (app.rs Thread, feed.rs), the chat's worker (backend.rs ChatTask), the  *)
(* gate that asks the user, and deleting the chat while a turn runs.       *)
(*                                                                         *)
(* The worker and the relay of its events are one task (tokio::join!), so  *)
(* whenever the turn waits for something outside rozu (the user, a         *)
(* command) the relay has emptied the channel of events.  The gate's       *)
(* questions do not pass through that channel: they go straight into the   *)
(* updates.                                                                *)
(*                                                                         *)
(* Abstractions.                                                           *)
(*  - A turn is the order of its events (AgentTurn models the loop); every *)
(*    asked call has a sandbox that can block it.                          *)
(*  - Nobody answers a prompt before the poll that opened it has ended.    *)
(*  - Call ids are unique in a chat.  Texts and titles are left out.       *)
(***************************************************************************)
EXTENDS ActivityTracker, Sequences

CONSTANTS
  MaxPrompts, \* bound on the prompts sent
  MaxCalls    \* bound on the tool calls of all turns

ASSUME AppChatAssumption == MaxPrompts \in Nat /\ MaxCalls \in Nat

VARIABLES
  open,      \* the window still has the thread
  chat,      \* Thread::chat: "none", "live", "forgetting" (in forget's task), "dropped"
  token,     \* Chat::cancel: the newest prompt's token (prompt n has token n)
  cancelled, \* the cancelled tokens
  queue,     \* prompts sent to the worker: [n, selection]
  items,     \* Feed::items, the cards: [ask, call, answer, clicked]
  steps,     \* Feed::items, the calls whose step is not done
  running,   \* Feed::running
  tracker,   \* Feed::tracker
  pending,   \* Thread::pending: [call, ask] whose answer can be sent
  updates,   \* run and gate to the window
  events,    \* the turn's events to the relay
  listening, \* the window holds the receiver of updates
  reply,     \* of each ask: "open", the decision sent, or "dropped"
  worker,    \* where the chat's task is
  n,         \* the prompt of its turn
  selection, \* ChatTask::selection
  call,      \* the call being handled, whether its sandbox retry is asked, and
             \* whether the response has text so far
  failed,    \* the turn's result is an error
  writer,    \* the worker saves the chat
  disk       \* the chat's saved history: "none", "saved" or "deleted"

window == <<open, chat, token, cancelled, pending>>
feed == <<items, steps, running, tracker>>
channels == <<queue, updates, events, listening, reply>>
task == <<n, selection, call, failed>>
vars == <<window, feed, channels, worker, task, writer, disk>>

Selections == {"chosen", "other"}
Event(type, id, outcome) == [type |-> type, id |-> id, outcome |-> outcome, tool |-> "running"]
AskUpdate(ask, id) == [type |-> "ask", ask |-> ask, id |-> id]
Failed == Event("failed", 0, "error")
TurnEnds == {"completed", "max_steps", "cancelled"}
NoCall == [id |-> 0, retry |-> FALSE, said |-> FALSE]
TurnCancelled == n \in cancelled
Asked == Len(reply)              \* the gate's latest question

Init ==
  /\ open = TRUE /\ chat = "none" /\ token = 0 /\ cancelled = {} /\ pending = {}
  /\ items = <<>> /\ steps = {} /\ running = FALSE /\ tracker = NewTracker
  /\ queue = <<>> /\ updates = <<>> /\ events = <<>> /\ listening = FALSE /\ reply = <<>>
  /\ worker = "none" /\ n = 0 /\ selection = "chosen" /\ call = NoCall /\ failed = FALSE
  /\ writer = FALSE /\ disk = "none"

-----------------------------------------------------------------------------
(* The window.  Its handlers run one at a time on the UI thread.           *)

(* Feed::send: a thinking step (its label only) and the running mark.      *)
FeedSends ==
  /\ running' = TRUE
  /\ tracker' = Applied(tracker, Event("text", 0, "ok"))

(* Feed::end_turn: open steps are interrupted, open cards expire.          *)
FeedEnds ==
  /\ running' = FALSE /\ steps' = {}
  /\ items' = [i \in DOMAIN items |->
       IF items[i].answer = "none" THEN [items[i] EXCEPT !.answer = "expired"] ELSE items[i]]

(* start: the first prompt opens the chat, its saved file and its worker.  *)
StartChat(saves) ==
  /\ chat = "none"
  /\ chat' = "live" /\ listening' = TRUE /\ worker' = "idle"
  /\ writer' = saves /\ disk' = IF saves THEN "saved" ELSE disk

(* Variant: a prompt can be sent while a turn runs.                        *)
SendPromptAnyTime(choice) ==
  /\ open /\ token < MaxPrompts
  /\ \/ \E saves \in BOOLEAN : StartChat(saves)
     \/ chat = "live" /\ UNCHANGED <<chat, listening, worker, writer, disk>>
  /\ token' = token + 1
  /\ queue' = Append(queue, [n |-> token + 1, selection |-> choice])
  /\ FeedSends
  /\ UNCHANGED <<open, cancelled, pending, items, steps, updates, events, reply, task>>

(* Rozu::send and Chat::send: a prompt with a token of its own.            *)
SendPrompt(choice) ==
  /\ open /\ ~running /\ token < MaxPrompts
  /\ \/ \E saves \in BOOLEAN : StartChat(saves)
     \/ chat = "live" /\ UNCHANGED <<chat, listening, worker, writer, disk>>
  /\ token' = token + 1
  /\ queue' = Append(queue, [n |-> token + 1, selection |-> choice])
  /\ FeedSends
  /\ UNCHANGED <<open, cancelled, pending, items, steps, updates, events, reply, task>>

(* The agent cannot be built: the thread only shows why.                   *)
StartFails ==
  /\ open /\ ~running /\ chat = "none" /\ token < MaxPrompts
  /\ token' = token + 1
  /\ FeedEnds
  /\ tracker' = Applied(tracker, Failed)
  /\ UNCHANGED <<open, chat, cancelled, pending, channels, worker, task, writer, disk>>

(* The token that Stop and closing the chat cancel.                        *)
CancelNewest == cancelled' = cancelled \cup {token}

Stop ==
  /\ open /\ chat = "live" /\ token \notin cancelled
  /\ CancelNewest
  /\ UNCHANGED <<open, chat, token, pending, feed, channels, worker, task, writer, disk>>

Dropped(asks) ==
  [a \in DOMAIN reply |-> IF a \in asks /\ reply[a] = "open" THEN "dropped" ELSE reply[a]]

(* Rozu::answer: the card's buttons are there while it has no answer.      *)
Answer(i, decision) ==
  /\ open /\ items[i].answer = "none"
  /\ items' = [items EXCEPT ![i].answer = decision, ![i].clicked = TRUE]
  /\ LET mine == {p \in pending : p.call = items[i].call} IN
     /\ pending' = pending \ mine
     /\ reply' = [a \in DOMAIN reply |->
          IF reply[a] = "open" /\ \E p \in mine : p.ask = a THEN decision ELSE reply[a]]
  /\ UNCHANGED <<open, chat, token, cancelled, steps, running, tracker, queue, updates, events,
                 listening, worker, task, writer, disk>>

Label(outcome) ==
  CASE outcome = "approved" -> "allowed" [] outcome = "denied" -> "denied"
    [] OTHER -> "expired"

(* Feed::apply, for the cards and the steps.                               *)
FeedApplies(u) ==
  /\ tracker' = Applied(tracker, u)
  /\ CASE u.type = "started" ->
            steps' = steps \cup {u.id} /\ UNCHANGED <<items, running>>
       [] u.type = "finished" ->
            steps' = steps \ {u.id} /\ UNCHANGED <<items, running>>
       [] u.type = "resolved" ->
            /\ items' = [i \in DOMAIN items |->
                 IF items[i].call = u.id /\ items[i].answer = "none"
                 THEN [items[i] EXCEPT !.answer = Label(u.outcome)] ELSE items[i]]
            /\ UNCHANGED <<steps, running>>
       [] u.type \in TurnEnds \cup {"failed"} -> FeedEnds
       [] OTHER -> UNCHANGED <<items, steps, running>>

(* Variant: a new prompt of a call also forgets the call's earlier senders *)
(* when its announcement arrives.                                          *)
RemovedWhenAsked(u) ==
  CASE u.type \in {"pending", "resolved"} -> {p \in pending : p.call = u.id}
    [] u.type \in TurnEnds \cup {"failed"} -> pending
    [] OTHER -> {}

(* The asks whose senders an update removes from Thread::pending.          *)
Removed(u) ==
  CASE u.type = "resolved" -> {p \in pending : p.call = u.id}
    [] u.type \in TurnEnds \cup {"failed"} -> pending
    [] OTHER -> {}

(* Rozu::update: the window takes one update.                              *)
Deliver ==
  /\ open /\ updates # <<>>
  /\ LET u == Head(updates) IN
     IF u.type = "ask" THEN
       /\ LET old == {p \in pending : p.call = u.id} IN
          /\ pending' = (pending \ old) \cup {[call |-> u.id, ask |-> u.ask]}
          /\ reply' = Dropped({p.ask : p \in old})
       /\ items' = Append(items, [ask |-> u.ask, call |-> u.id, answer |-> "none",
                                  clicked |-> FALSE])
       /\ UNCHANGED <<steps, running, tracker>>
     ELSE
       /\ pending' = pending \ Removed(u)
       /\ reply' = Dropped({p.ask : p \in Removed(u)})
       /\ FeedApplies(u)
  /\ updates' = Tail(updates)
  /\ UNCHANGED <<open, chat, token, cancelled, queue, events, listening, worker, task, writer, disk>>

(* delete: the thread goes, and with it the answers' senders and the       *)
(* receiver of the updates.  Its chat is dropped at once, or handed to     *)
(* forget's task.                                                          *)
Delete(forget) ==
  /\ open /\ chat # "none"
  /\ open' = FALSE
  /\ pending' = {} /\ updates' = <<>> /\ listening' = FALSE
  /\ reply' = Dropped(DOMAIN reply)
  /\ IF forget THEN chat' = "forgetting" /\ UNCHANGED cancelled
     ELSE chat' = "dropped" /\ CancelNewest
  /\ UNCHANGED <<token, feed, queue, events, worker, task, writer, disk>>

-----------------------------------------------------------------------------
(* Variant: closing the chat waits for its turn without cancelling it.     *)
ForgetClosesQuietly ==
  /\ chat = "forgetting"
  /\ chat' = "closing"
  /\ UNCHANGED <<open, token, cancelled, pending, feed, channels, worker, task, writer, disk>>

(* forget's task: close the chat, wait for its worker, delete the history. *)
ForgetCloses ==
  /\ chat = "forgetting"
  /\ chat' = "closing"
  /\ CancelNewest
  /\ UNCHANGED <<open, token, pending, feed, channels, worker, task, writer, disk>>

(* Variant: the history is deleted without waiting for the worker.         *)
ForgetDeletesAtOnce ==
  /\ chat = "closing"
  /\ chat' = "dropped" /\ disk' = "deleted"
  /\ UNCHANGED <<open, token, cancelled, pending, feed, channels, worker, task, writer>>

ForgetDeletes ==
  /\ chat = "closing" /\ worker = "closed"
  /\ chat' = "dropped" /\ disk' = "deleted"
  /\ UNCHANGED <<open, token, cancelled, pending, feed, channels, worker, task, writer>>

-----------------------------------------------------------------------------
(* ChatTask::run.                                                          *)
Emit(es) == events' = events \o es

Update(us) == updates' = IF listening THEN updates \o us ELSE updates

(* A prompt is taken.  Another selection builds its agent first; saving    *)
(* the choice may fail, and then the chat is no longer saved.              *)
TakePrompt ==
  /\ worker = "idle" /\ queue # <<>>
  /\ n' = Head(queue).n /\ selection' = Head(queue).selection
  /\ IF selection' = selection THEN UNCHANGED writer ELSE writer' \in {writer, FALSE}
  /\ queue' = Tail(queue)
  /\ worker' = "model" /\ call' = [call EXCEPT !.retry = FALSE, !.said = FALSE] /\ failed' = FALSE
  /\ UNCHANGED <<window, feed, updates, events, listening, reply, disk>>

(* The other selection's agent cannot be built: the old one stays.         *)
BuildFails ==
  /\ worker = "idle" /\ queue # <<>> /\ Head(queue).selection # selection
  /\ queue' = Tail(queue)
  /\ Update(<<Failed>>)
  /\ UNCHANGED <<window, feed, events, listening, reply, worker, task, writer, disk>>

TurnStep == UNCHANGED <<window, feed, queue, listening, n, selection, writer, disk>>

(* The model answers: text, a call, its end (completed or the step limit), *)
(* or the provider fails.                                                  *)
ModelTexts ==
  /\ worker = "model" /\ ~TurnCancelled /\ ~call.said
  /\ call' = [call EXCEPT !.said = TRUE]
  /\ Emit(<<Event("text", 0, "ok")>>)
  /\ UNCHANGED <<worker, failed, updates, reply>> /\ TurnStep

ModelCalls ==
  /\ worker = "model" /\ ~TurnCancelled /\ call.id < MaxCalls
  /\ call' = [id |-> call.id + 1, retry |-> FALSE, said |-> FALSE]
  /\ Emit(<<Event("started", call'.id, "ok")>>)
  /\ worker' = "call"
  /\ UNCHANGED <<failed, updates, reply>> /\ TurnStep

TurnEnd(outcome) ==
  /\ worker = "model"
  /\ TurnCancelled <=> outcome = "cancelled"
  /\ Emit(<<Event(outcome, 0, "ok")>>)
  /\ worker' = "drain"
  /\ UNCHANGED <<call, failed, updates, reply>> /\ TurnStep

ProviderFails ==
  /\ worker = "model" /\ ~TurnCancelled
  /\ failed' = TRUE /\ worker' = "drain"
  /\ UNCHANGED <<call, updates, events, reply>> /\ TurnStep

(* execute: approved by the mode or a rule, or the gate must ask.  A       *)
(* cancelled turn asks nobody: the call is denied.                         *)
CallApproved ==
  /\ worker = "call" /\ ~TurnCancelled
  /\ Emit(<<Event("approval", call.id, "approved")>>)
  /\ worker' = "tool"
  /\ UNCHANGED <<call, failed, updates, reply>> /\ TurnStep

CallCancelled ==
  /\ worker = "call" /\ TurnCancelled
  /\ Emit(<<Event("approval", call.id, "denied"), Event("finished", call.id, "error")>>)
  /\ worker' = "model"
  /\ UNCHANGED <<call, failed, updates, reply>> /\ TurnStep

AskAnnounced ==
  /\ worker = "call" /\ ~TurnCancelled
  /\ Emit(<<Event("pending", call.id, "ok")>>)
  /\ worker' = "gate"
  /\ UNCHANGED <<call, failed, updates, reply>> /\ TurnStep

(* Gate::decide: the question and its one-shot go straight to the window.  *)
GateAsks ==
  /\ worker = "gate" /\ ~TurnCancelled
  /\ reply' = Append(reply, IF listening THEN "open" ELSE "dropped")
  /\ Update(<<AskUpdate(Len(reply) + 1, call.id)>>)
  /\ worker' = "asking"
  /\ UNCHANGED <<call, failed, events>> /\ TurnStep

(* What follows a decision: its two events, then the tool, or its result.  *)
Decided(outcome, approved) ==
  /\ Emit(<<Event("resolved", call.id, outcome),
             Event("approval", call.id, IF approved THEN "approved" ELSE "denied")>>
           \o IF approved THEN <<>> ELSE <<Event("finished", call.id, "error")>>)
  /\ worker' = IF approved THEN "tool" ELSE "model"
  /\ UNCHANGED <<call, failed, updates, reply>> /\ TurnStep

(* A dropped sender reads as a denial.                                     *)
AnswerArrives ==
  /\ worker = "asking" /\ ~TurnCancelled /\ reply[Asked] # "open" /\ events = <<>>
  /\ LET yes == reply[Asked] = "allowed" IN Decided(IF yes THEN "approved" ELSE "denied", yes)

(* Variant: an open question ignores the cancelled turn.                   *)
AskCancelledUnasked ==
  /\ worker = "gate" /\ TurnCancelled
  /\ Decided("expired", FALSE)

AskCancelled ==
  /\ worker \in {"gate", "asking"} /\ TurnCancelled
  /\ Decided("expired", FALSE)

ToolEnds ==
  /\ worker = "tool"
  /\ \E outcome \in {"ok", "error"} :
       /\ TurnCancelled => outcome = "error"
       /\ Emit(<<Event("finished", call.id, outcome)>>)
  /\ worker' = "model"
  /\ UNCHANGED <<call, failed, updates, reply>> /\ TurnStep

(* Variant: the retry is asked about before the window heard the answer.   *)
ToolBlockedUndrained ==
  /\ worker = "tool" /\ ~call.retry /\ ~TurnCancelled
  /\ call' = [call EXCEPT !.retry = TRUE]
  /\ Emit(<<Event("pending", call.id, "ok")>>)
  /\ worker' = "gate"
  /\ UNCHANGED <<failed, updates, reply>> /\ TurnStep

(* The sandbox blocked the command: the same call is asked about again.    *)
ToolBlocked ==
  /\ worker = "tool" /\ ~call.retry /\ ~TurnCancelled /\ events = <<>>
  /\ call' = [call EXCEPT !.retry = TRUE]
  /\ Emit(<<Event("pending", call.id, "ok")>>)
  /\ worker' = "gate"
  /\ UNCHANGED <<failed, updates, reply>> /\ TurnStep

(* The relay: when the window is gone, it cancels the turn.                *)
Relay ==
  /\ events # <<>>
  /\ Update(<<Head(events)>>)
  /\ events' = Tail(events)
  /\ cancelled' = IF listening THEN cancelled ELSE cancelled \cup {n}
  /\ UNCHANGED <<open, chat, token, pending, feed, queue, listening, reply, worker, task, writer, disk>>

(* Variant: the failure overtakes the events that are still in the relay.  *)
TurnSavedUndrained ==
  /\ worker = "drain"
  /\ disk' = IF writer THEN "saved" ELSE disk
  /\ writer' \in {writer, FALSE}
  /\ IF failed THEN Update(<<Failed>>) ELSE UNCHANGED updates
  /\ worker' = "idle"
  /\ UNCHANGED <<window, feed, queue, events, listening, reply, task>>

(* The turn is drained and saved (a failed save stops saving), and only    *)
(* then its failure is reported.                                           *)
TurnSaved ==
  /\ worker = "drain" /\ events = <<>>
  /\ disk' = IF writer THEN "saved" ELSE disk
  /\ writer' \in {writer, FALSE}
  /\ IF failed THEN Update(<<Failed>>) ELSE UNCHANGED updates
  /\ worker' = "idle"
  /\ UNCHANGED <<window, feed, queue, events, listening, reply, task>>

WorkerCloses ==
  /\ worker = "idle" /\ queue = <<>> /\ chat \in {"closing", "dropped"}
  /\ worker' = "closed"
  /\ UNCHANGED <<window, feed, channels, task, writer, disk>>

-----------------------------------------------------------------------------
Window ==
  \/ \E choice \in Selections : SendPrompt(choice)
  \/ StartFails
  \/ Stop
  \/ \E i \in DOMAIN items, decision \in {"allowed", "denied"} : Answer(i, decision)
  \/ Deliver
  \/ \E forget \in BOOLEAN : Delete(forget)

Provider ==
  \/ ModelTexts \/ ModelCalls \/ ProviderFails
  \/ \E outcome \in {"completed", "max_steps"} : TurnEnd(outcome)

(* What the task does without the provider, the tool or the user.          *)
TaskStep ==
  \/ TakePrompt \/ BuildFails
  \/ TurnEnd("cancelled")
  \/ CallApproved \/ CallCancelled \/ AskAnnounced
  \/ GateAsks \/ AnswerArrives \/ AskCancelled
  \/ worker = "tool" /\ TurnCancelled /\ ToolEnds
  \/ TurnSaved \/ WorkerCloses

Next ==
  \/ Window \/ Provider \/ TaskStep \/ Relay
  \/ ToolEnds \/ ToolBlocked
  \/ ForgetCloses \/ ForgetDeletes

Spec == Init /\ [][Next]_vars

(* The UI thread empties the updates and the runtime polls its tasks; a    *)
(* provider, a tool and a user may take for ever.                          *)
Fairness ==
  /\ WF_vars(TaskStep) /\ WF_vars(Relay) /\ WF_vars(Deliver)
  /\ WF_vars(ForgetCloses) /\ WF_vars(ForgetDeletes)

FairSpec == Spec /\ Fairness

-----------------------------------------------------------------------------
(* The prompt that a turn waits on can be answered: its card is open and   *)
(* holds the sender, or is on its way to the window.  Only stopping the    *)
(* turn or closing the chat takes a question back (app.rs update, answer). *)
WaitedPromptAnswerable ==
  worker = "asking" /\ ~TurnCancelled /\ open =>
    \/ reply[Asked] \in {"allowed", "denied"}
    \/ \E i \in DOMAIN updates : updates[i].type = "ask" /\ updates[i].ask = Asked
    \/ /\ \E p \in pending : p.ask = Asked
       /\ \E i \in DOMAIN items : items[i].ask = Asked /\ items[i].answer = "none"

(* A card reads "Allowed" only because the user clicked that very card:    *)
(* the resolution of a call's first prompt, which carries the same call id *)
(* as its sandbox retry, never settles the retry's card (app.rs:529).      *)
CardTruthful == \A i \in DOMAIN items : items[i].answer = "allowed" => items[i].clicked

(* When the worker has nothing left and the window took every update, the  *)
(* thread shows no turn: the orb works on nothing, no step or card is open *)
(* and no answer can be sent; while a prompt waits or a tool runs, the orb *)
(* shows that (feed.rs, events.rs).                                        *)
ShownIsTrue ==
  open /\ updates = <<>> /\ events = <<>> =>
    /\ worker \in {"gate", "asking"} <=> IsWaiting(tracker)
    /\ worker = "tool" => tracker.current = Activity("running", "Tool", call.id)
    /\ worker = "idle" /\ queue = <<>> =>
         /\ tracker.current # Idle => tracker.current.state \in {"done", "error"}
         /\ ~running /\ steps = {} /\ pending = {}
         /\ \A i \in DOMAIN items : items[i].answer # "none"

(* Stop, deleting and closing cancel the newest prompt's token only: that  *)
(* is the token of whatever turn runs or waits (backend.rs:66).            *)
StopReachesTurn ==
  /\ worker \notin {"none", "idle", "drain", "closed"} => n = token
  /\ \A i \in DOMAIN queue : queue[i].n = token

(* What a thread shows of its turns, and that a stop reaches the one it    *)
(* shows: prompts, cards, feed, orb, token.                                *)
ThreadShowsTurn == WaitedPromptAnswerable /\ CardTruthful /\ ShownIsTrue /\ StopReachesTurn

(* Nothing brings a deleted history back, not even the turn that ran while *)
(* it was deleted (backend.rs forget).                                     *)
DeletedStaysDeleted == [][disk = "deleted" => disk' = "deleted"]_vars

(* A stopped turn stops, whatever the provider, the tool and the prompts   *)
(* do, and the window shows it.                                            *)
StopStops ==
  open /\ running /\ token \in cancelled ~> ~running \/ ~open

(* Deleting a chat ends: its turn is cancelled and its history goes.       *)
ForgetEnds == chat = "forgetting" ~> disk = "deleted"
=============================================================================
