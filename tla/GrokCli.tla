------------------------------ MODULE GrokCli ------------------------------
(***************************************************************************)
(* Grok Build as rozu's provider (rozu-cli-providers grok/mod.rs): one     *)
(* process per model, and in it one ACP session (context epoch) after      *)
(* another; cli is the current session and what the process wrote about it *)
(* (updates of an older session are told apart by its id).                 *)
(*                                                                         *)
(* cancel_turn is not here: the agent drops the stream at the token and so *)
(* never polls the branch that would call it.                              *)
(***************************************************************************)
EXTENDS VendorTurn

CONSTANT MaxRotations \* bound on the calls of rotate_epoch

VARIABLES
  started, \* State::model: what the process was started with
  opened,  \* State::mapper: whether the process has a session
  rotate,  \* State::rotate: a new session was asked for
  rotated  \* counts the calls of rotate_epoch

vars == <<session, phase, model, known, token, told, cli, gap, started, opened, rotate, rotated>>

Init == InitTurn /\ started = model /\ opened = FALSE /\ rotate = FALSE /\ rotated = 0

(* rotate_epoch: rozu rewrote the history.  Nothing in the program calls   *)
(* it; the tests do.                                                       *)
RotateEpoch ==
  /\ phase = "idle" /\ rotated < MaxRotations
  /\ rotated' = rotated + 1
  /\ rotate' = (rotate \/ opened)
  /\ UNCHANGED <<session, phase, model, known, token, told, cli, gap, started, opened>>

Fresh == ~opened \/ rotate

Serves(m) == cli # NoCli /\ started = m

(* stream: start ends the process unless it was started with this model    *)
(* (a handshake that was cut off leaves no model).                         *)
Begin(m) ==
  /\ Opened(m)
  /\ known' = ~Fresh
  /\ IF Serves(m)
     THEN /\ phase' = IF Fresh THEN "opening" ELSE "sending"
          /\ UNCHANGED <<cli, opened, started, gap>>
     ELSE /\ phase' = "starting" /\ cli' = {NewCli} /\ opened' = FALSE
          /\ started' = "none" /\ gap' = {}
  /\ UNCHANGED <<rotate, rotated>>

SpawnFails(m) ==
  /\ ~Serves(m) /\ Opened(m)
  /\ cli' = NoCli /\ opened' = FALSE /\ started' = "none" /\ gap' = {}
  /\ UNCHANGED <<phase, known, rotate, rotated>>

Started ==
  /\ phase = "starting" /\ ~token /\ ~Dead(The(cli))
  /\ phase' = "opening" /\ started' = model /\ known' = FALSE
  /\ UNCHANGED <<session, model, token, told, cli, gap, opened, rotate, rotated>>

(* Refused, logged out, late or dead, in the handshake or in session/new.  *)
OpeningFails(loggedOut) ==
  /\ phase \in {"starting", "opening"} /\ ~token
  /\ cli' = NoCli /\ opened' = FALSE
  /\ rotate' = (rotate /\ ~(phase = "opening" /\ loggedOut))
  /\ Closed
  /\ UNCHANGED <<model, gap, started, rotated>>

(* open_session: what the process wrote meanwhile is dropped (call).       *)
SessionOpened ==
  /\ phase = "opening" /\ ~token /\ ~Dead(The(cli))
  /\ phase' = "sending" /\ known' = FALSE
  /\ cli' = {NewCli} /\ opened' = TRUE /\ rotate' = FALSE /\ gap' = {}
  /\ UNCHANGED <<session, model, token, told, started, rotated>>

Send ==
  /\ phase = "sending" /\ ~token
  /\ phase' = "streaming" /\ cli' = {Prompted(The(cli))}
  /\ UNCHANGED <<session, model, known, token, told, gap, started, opened, rotate, rotated>>

SendFails ==
  /\ phase = "sending" /\ ~token /\ Dead(The(cli))
  /\ cli' = NoCli /\ opened' = FALSE
  /\ Closed
  /\ UNCHANGED <<model, gap, started, rotate, rotated>>

(* open_stream drops the provider's future, before any TurnGuard: a        *)
(* rotation already taken is lost, and the prompt may have been written.   *)
StopOpening ==
  /\ phase \in {"starting", "opening", "sending"} /\ token
  /\ \/ UNCHANGED cli
     \/ phase = "sending" /\ cli' = {Prompted(The(cli))}
  /\ rotate' = (rotate /\ phase # "opening")
  /\ gap' = gap \cup {"stopped_early"}
  /\ Closed
  /\ UNCHANGED <<model, started, opened, rotated>>

(* Variant: a turn that did not finish keeps the process.                  *)
TurnEndsKeeping(keep) ==
  /\ cli' = IF Unread = <<>> THEN cli ELSE {Rest(The(cli))}
  /\ UNCHANGED opened
  /\ Closed

(* keep_process and TurnGuard's Drop.                                      *)
TurnEnds(keep) ==
  /\ IF keep THEN cli' = {Rest(The(cli))} /\ UNCHANGED opened
     ELSE cli' = NoCli /\ opened' = FALSE
  /\ Closed

(* handle: the response to this turn's prompt, or the end of the output.   *)
IsEnd(line) == line.kind # "text" /\ line.turn \in {0, Turn}

(* prompt_ended: the process stays unless Grok is logged out.              *)
StaysUsable(line) == line.kind \in {"done", "failed"}

(* One message: updates of the current session, and the prompt's end.      *)
Read ==
  /\ phase = "streaming" /\ ~token /\ Unread # <<>>
  /\ LET line == Head(Unread) IN
     \/ /\ ~IsEnd(line) /\ cli' = {Rest(The(cli))}
        /\ told' = IF line.kind = "text" THEN Append(told, line.turn) ELSE told
        /\ UNCHANGED <<session, phase, known, token, opened>>
     \/ IsEnd(line) /\ TurnEnds(StaysUsable(line))
  /\ UNCHANGED <<model, gap, started, rotate, rotated>>

ReadFails ==
  /\ phase = "streaming" /\ ~token /\ Unread # <<>>
  /\ TurnEnds(FALSE)
  /\ UNCHANGED <<model, gap, started, rotate, rotated>>

(* next_event: the stream is dropped unpolled.                             *)
StopStreaming ==
  /\ phase = "streaming" /\ token
  /\ TurnEnds(FALSE)
  /\ UNCHANGED <<model, gap, started, rotate, rotated>>

Next ==
  \/ \E m \in Models : Begin(m) \/ SpawnFails(m)
  \/ RotateEpoch
  \/ /\ OtherModel
     /\ UNCHANGED <<phase, model, known, token, told, cli, started, opened, rotate, rotated>>
  \/ /\ Stop
     /\ UNCHANGED <<session, phase, model, known, told, cli, gap, started, opened, rotate, rotated>>
  \/ CliMoves /\ UNCHANGED <<started, opened, rotate, rotated>>
  \/ Started \/ SessionOpened \/ Send \/ SendFails \/ StopOpening \/ Read \/ ReadFails
  \/ StopStreaming
  \/ \E out \in BOOLEAN : OpeningFails(out)

Progress ==
  Started \/ SessionOpened \/ Send \/ SendFails \/ StopOpening \/ Read \/ StopStreaming

Fairness == WF_vars(Progress)

Spec == Init /\ [][Next]_vars /\ Fairness

(* A session knows the chat of the turn sent to it, unless another model   *)
(* answered in between or a turn was stopped before its prompt was sent.   *)
KnowsChatButForGaps == gap = {} => KnowsTheChat

(* A turn reports only what was said in answer to it, unless an earlier    *)
(* one was stopped while its prompt was being written.                     *)
AnswersPromptButForGaps == "stopped_early" \notin gap => AnswersThePrompt

StopEndsTurn == StopEnds
=============================================================================
