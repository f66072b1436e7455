------------------------------ MODULE CodexCli ------------------------------
(***************************************************************************)
(* The Codex app-server as rozu's provider (rozu-cli-providers             *)
(* codex/mod.rs, codex/protocol.rs Mapper): one thread for the chat, and   *)
(* turns are appended to it.  Codex's requests are in CliApprovals.        *)
(*                                                                         *)
(* interrupt is not here: the agent drops the stream at the token and so   *)
(* never polls the branch that would call it.                              *)
(***************************************************************************)
EXTENDS VendorTurn

VARIABLES
  thread, \* whether State::mapper is set: a thread was started
  pending \* State::pending: notifications read while waiting for a response

vars == <<session, phase, model, known, token, told, cli, gap, thread, pending>>

Init == InitTurn /\ thread = FALSE /\ pending = <<>>

(* has_thread: whether the thread has the chat is not looked at.           *)
HasThread == cli # NoCli /\ thread

(* stream: start ends the old process and spawns another.                  *)
Begin(m) ==
  /\ Opened(m)
  /\ known' = HasThread
  /\ IF HasThread THEN phase' = "sending" /\ UNCHANGED <<cli, thread, pending, gap>>
     ELSE /\ phase' = "starting" /\ cli' = {NewCli}
          /\ thread' = FALSE /\ pending' = <<>> /\ gap' = {}

(* The process is killed and the turn fails: the binary is missing, the    *)
(* handshake is refused or late, the login or the confirmed sandbox is not *)
(* what is needed.                                                         *)
Fails ==
  /\ cli' = NoCli /\ thread' = FALSE
  /\ Closed

SpawnFails(m) ==
  /\ ~HasThread /\ Opened(m)
  /\ cli' = NoCli /\ thread' = FALSE /\ pending' = <<>> /\ gap' = {}
  /\ UNCHANGED <<phase, known>>

StartFails ==
  /\ phase = "starting" /\ ~token
  /\ Fails
  /\ UNCHANGED <<model, gap, pending>>

Started ==
  /\ phase = "starting" /\ ~token /\ ~Dead(The(cli))
  /\ phase' = "sending" /\ thread' = TRUE
  /\ UNCHANGED <<session, model, known, token, told, cli, gap, pending>>

(* turn/start is written; Codex accepts it or refuses it.                  *)
Send ==
  /\ phase = "sending" /\ ~token
  /\ phase' = "waiting"
  /\ \E p \in cli :
       \/ Dead(p) /\ UNCHANGED cli
       \/ ~Dead(p) /\ cli' = {Sent(Prompted(p), "started", Turn)}
       \/ ~Dead(p) /\ cli' = {Sent(p, "refused", Turn)}
  /\ UNCHANGED <<session, model, known, token, told, gap, thread, pending>>

(* call: a late response is skipped, notifications are kept for the turn.  *)
Await ==
  /\ phase = "waiting" /\ ~token /\ Unread # <<>>
  /\ LET line == Head(Unread) IN
     \/ /\ line.kind = "started" /\ line.turn = Turn
        /\ phase' = "streaming" /\ cli' = {Rest(The(cli))}
        /\ UNCHANGED <<session, known, token, told, thread, pending>>
     \/ /\ line \in {[kind |-> "refused", turn |-> Turn], [kind |-> "eof", turn |-> 0]}
        /\ Fails /\ UNCHANGED pending
     \/ /\ line.kind \in {"started", "refused"} /\ line.turn # Turn
        /\ cli' = {Rest(The(cli))}
        /\ UNCHANGED <<session, phase, known, token, told, thread, pending>>
     \/ /\ line.kind \in {"text", "done", "failed", "logged_out"}
        /\ pending' = Append(pending, line) /\ cli' = {Rest(The(cli))}
        /\ UNCHANGED <<session, phase, known, token, told, thread>>
  /\ UNCHANGED <<model, gap>>

(* open_stream drops the provider's future.  Before the thread is there    *)
(* the next turn starts over; after it, no TurnGuard exists yet, and the   *)
(* process and the thread stay, with the turn perhaps running.             *)
StopOpening ==
  /\ phase \in {"starting", "sending", "waiting"} /\ token
  /\ \/ UNCHANGED cli
     \/ phase = "sending" /\ ~Dead(The(cli)) /\ cli' = {Sent(Prompted(The(cli)), "started", Turn)}
  /\ gap' = gap \cup {"stopped_early"}
  /\ Closed
  /\ UNCHANGED <<model, thread, pending>>

(* Variant: a dropped turn keeps the process.                              *)
GuardDroppedKeeping(keep, p) ==
  cli' = p /\ UNCHANGED <<thread, pending>>

(* TurnGuard's Drop.                                                       *)
GuardDropped(keep, p) ==
  IF keep THEN cli' = p /\ UNCHANGED <<thread, pending>>
  ELSE cli' = NoCli /\ thread' = FALSE /\ pending' = <<>>

(* Mapper::map: a turn's completion is not compared with the turn that was *)
(* started.                                                                *)
IsCompletion(line) == line.kind \in {"done", "failed", "logged_out"}

(* classify_turn_error: the thread is good unless Codex is logged out.     *)
StaysUsable(line) == line.kind # "logged_out"

(* handle: late responses are skipped.                                     *)
IsSkipped(line) == line.kind \in {"started", "refused"}

(* One message, a kept one first.                                          *)
Read ==
  /\ phase = "streaming" /\ ~token
  /\ \/ pending # <<>> \/ Unread # <<>>
  /\ LET line == Head(pending \o Unread)
         left == IF pending # <<>> THEN cli ELSE {Rest(The(cli))}
         kept == IF pending # <<>> THEN Tail(pending) ELSE pending
     IN
     \/ /\ line.kind = "text" \/ IsSkipped(line)
        /\ told' = IF line.kind = "text" THEN Append(told, line.turn) ELSE told
        /\ cli' = left /\ pending' = kept
        /\ UNCHANGED <<session, phase, known, token, thread>>
     \/ /\ IsCompletion(line) /\ StaysUsable(line)
        /\ cli' = left /\ pending' = kept /\ Closed /\ UNCHANGED thread
     \/ /\ (IsCompletion(line) /\ ~StaysUsable(line)) \/ line.kind = "eof"
        /\ GuardDropped(FALSE, left) /\ Closed
  /\ UNCHANGED <<model, gap>>

(* A line that is too long ends the turn and the process.                  *)
ReadFails ==
  /\ ~token /\ Unread # <<>>
  /\ \/ phase = "waiting" /\ Fails /\ UNCHANGED pending
     \/ phase = "streaming" /\ pending = <<>> /\ GuardDropped(FALSE, cli) /\ Closed
  /\ UNCHANGED <<model, gap>>

(* next_event: the stream is dropped unpolled.                             *)
StopStreaming ==
  /\ phase = "streaming" /\ token
  /\ GuardDropped(FALSE, cli) /\ Closed
  /\ UNCHANGED <<model, gap>>

Next ==
  \/ \E m \in Models : Begin(m) \/ SpawnFails(m)
  \/ OtherModel /\ UNCHANGED <<phase, model, known, token, told, cli, thread, pending>>
  \/ Stop /\ UNCHANGED <<session, phase, model, known, told, cli, gap, thread, pending>>
  \/ CliMoves /\ UNCHANGED <<thread, pending>>
  \/ StartFails \/ Started \/ Send \/ Await \/ StopOpening \/ Read \/ ReadFails \/ StopStreaming

Progress == Started \/ StartFails \/ Send \/ Await \/ StopOpening \/ Read \/ StopStreaming

Fairness == WF_vars(Progress)

Spec == Init /\ [][Next]_vars /\ Fairness

(* The app-server a turn is sent to knows the chat.                        *)
KnowsChat == KnowsTheChat

(* Only two things make Codex's thread differ from the chat: a turn        *)
(* answered by another model in between, and a stop before turn/start was  *)
(* answered.  Failures, exits and every other stop do not.                 *)
KnowsChatButForGaps == gap = {} => KnowsTheChat

(* Likewise a turn reports only what was said in answer to it, unless one  *)
(* was stopped before turn/start was answered.                             *)
AnswersPromptButForGaps == "stopped_early" \notin gap => AnswersThePrompt

(* "the newest user message, preceded by the earlier conversation when the *)
(* CLI hasn't seen it (a fresh session after talking to another model ...)"*)
(* (cli-providers turn.rs:5): a turn another model answered is something   *)
(* the thread hasn't seen.                                                 *)
KnowsChatAfterOtherModel == "stopped_early" \notin gap => KnowsTheChat

StopEndsTurn == StopEnds
=============================================================================
