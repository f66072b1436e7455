----------------------------- MODULE ClaudeCli -----------------------------
(***************************************************************************)
(* The Claude CLI as rozu's provider (rozu-cli-providers claude/mod.rs):   *)
(* one process is kept between turns as long as its conversation is the    *)
(* chat's; otherwise the next turn starts another and sends it the chat.   *)
(***************************************************************************)
EXTENDS VendorTurn

VARIABLES
  started, \* State::model: the model the process was started with
  history  \* State::history: the chat as the process knows it

vars == <<session, phase, model, known, token, told, cli, gap, started, history>>

Init == InitTurn /\ started = model /\ history = <<>>

(* Variant: a process of the right model is taken to know the chat.        *)
HasHistoryByModel(m) == cli # NoCli /\ started = m

(* has_history.                                                            *)
HasHistory(m) == cli # NoCli /\ started = m /\ session = history

(* stream, up to the write: spawn ends the old process.  known compares    *)
(* the messages before the new one.                                        *)
Begin(m) ==
  /\ Opened(m)
  /\ phase' = "sending" /\ known' = HasHistory(m)
  /\ IF HasHistory(m) THEN UNCHANGED <<cli, started, history, gap>>
     ELSE cli' = {NewCli} /\ started' = m /\ history' = <<>> /\ gap' = {}

(* The binary cannot be run.                                               *)
SpawnFails(m) ==
  /\ ~HasHistory(m) /\ Opened(m)
  /\ cli' = NoCli /\ history' = <<>> /\ gap' = {}
  /\ UNCHANGED <<phase, known, started>>

Send ==
  /\ phase = "sending" /\ ~token
  /\ phase' = "streaming" /\ cli' = {Prompted(The(cli))}
  /\ UNCHANGED <<session, model, known, token, told, gap, started, history>>

SendFails ==
  /\ phase = "sending" /\ ~token /\ Dead(The(cli))
  /\ cli' = NoCli /\ history' = <<>>
  /\ Closed
  /\ UNCHANGED <<model, gap, started>>

(* open_stream drops the provider's future: the process stays, and may     *)
(* have been given the message.                                            *)
StopOpening ==
  /\ phase = "sending" /\ token
  /\ \/ UNCHANGED cli
     \/ cli' = {Prompted(The(cli))}
  /\ gap' = gap \cup {"stopped_early"}
  /\ Closed
  /\ UNCHANGED <<model, started, history>>

(* Variant: a turn that is dropped leaves the process as if it had ended.  *)
TurnEndsKeeping(keep) ==
  /\ history' = session \o [i \in 1 .. Len(told) |-> <<"assistant", told[i]>>]
  /\ cli' = IF Unread = <<>> THEN cli ELSE {Rest(The(cli))}
  /\ Closed

(* keep_process, and TurnGuard's Drop: the process is killed unless the    *)
(* turn finished.                                                          *)
TurnEnds(keep) ==
  /\ IF keep
     THEN /\ history' = session \o [i \in 1 .. Len(told) |-> <<"assistant", told[i]>>]
          /\ cli' = {Rest(The(cli))}
     ELSE UNCHANGED history /\ cli' = NoCli
  /\ Closed

(* Mapper::map: the line is the turn's result.                             *)
IsResult(line) == line.kind \in {"done", "failed", "logged_out"}

(* classify_error: every error but "logged_out" leaves the process usable. *)
StaysUsable(line) == line.kind # "logged_out"

(* One line: text, the turn's result, or the end of the output.            *)
Read ==
  /\ phase = "streaming" /\ ~token /\ Unread # <<>>
  /\ LET line == Head(Unread) IN
     \/ /\ line.kind = "text"
        /\ told' = Append(told, line.turn) /\ cli' = {Rest(The(cli))}
        /\ UNCHANGED <<session, phase, known, token, history>>
     \/ IsResult(line) /\ TurnEnds(StaysUsable(line))
     \/ line.kind = "eof" /\ TurnEnds(FALSE)
  /\ UNCHANGED <<model, gap, started>>

(* A line that is too long ends the turn and the process.                  *)
ReadFails ==
  /\ phase = "streaming" /\ ~token /\ Unread # <<>>
  /\ TurnEnds(FALSE)
  /\ UNCHANGED <<model, gap, started>>

(* Variant: the stream is polled before the token, so a silent CLI holds   *)
(* the turn.                                                               *)
StopStreamingAfterLine ==
  /\ phase = "streaming" /\ token /\ Unread # <<>>
  /\ TurnEnds(FALSE)
  /\ UNCHANGED <<model, gap, started>>

(* next_event: the stream is dropped.                                      *)
StopStreaming ==
  /\ phase = "streaming" /\ token
  /\ TurnEnds(FALSE)
  /\ UNCHANGED <<model, gap, started>>

Next ==
  \/ \E m \in Models : Begin(m) \/ SpawnFails(m)
  \/ OtherModel /\ UNCHANGED <<phase, model, known, token, told, cli, started, history>>
  \/ Stop /\ UNCHANGED <<session, phase, model, known, told, cli, gap, started, history>>
  \/ CliMoves /\ UNCHANGED <<started, history>>
  \/ Send \/ SendFails \/ StopOpening \/ Read \/ ReadFails \/ StopStreaming

Progress == Send \/ SendFails \/ StopOpening \/ Read \/ StopStreaming

(* rozu's side is scheduled; nothing is assumed of the user or the CLI.    *)
Fairness == WF_vars(Progress)

Spec == Init /\ [][Next]_vars /\ Fairness

(* However turns were stopped, failed or answered by other models, the     *)
(* process a turn is sent to knows exactly the chat (has_history).         *)
KnowsChat == KnowsTheChat

(* A turn reports only what was said in answer to it, never the rest of a  *)
(* turn stopped earlier.                                                   *)
AnswersPrompt == AnswersThePrompt

(* Stop ends the turn even when the CLI says nothing.                      *)
StopEndsTurn == StopEnds
=============================================================================
