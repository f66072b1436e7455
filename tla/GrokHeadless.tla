---------------------------- MODULE GrokHeadless ----------------------------
(***************************************************************************)
(* Grok Build run once for every turn (rozu-cli-providers                  *)
(* grok/headless.rs): the session id of a run's end is resumed by the next *)
(* run, which is then sent the newest message only.                        *)
(*                                                                         *)
(* What Grok keeps of a run that was killed or failed is its own affair    *)
(* (external): its session may have the turn, in part, or not.             *)
(***************************************************************************)
EXTENDS VendorTurn

VARIABLES
  resume, \* whether GrokHeadless::session is set
  saved   \* the conversation Grok has saved under that id

vars == <<session, phase, model, known, token, told, cli, gap, resume, saved>>

Init == InitTurn /\ resume = FALSE /\ saved = <<>>

(* Variant: every run but the first is taken to know the chat.             *)
ResumesLater == Turn > 0
(* session.is_some().                                                      *)
Resumes == resume

(* stream: the message goes with the arguments.                            *)
Begin(m) ==
  /\ Opened(m)
  /\ known' = Resumes /\ phase' = "streaming"
  /\ LET chat == session' IN
     cli' = {[knows |-> IF Resumes THEN Append(saved, Last(chat)) ELSE chat,
              busy |-> {Turn + 1}, out |-> <<>>]}
  /\ UNCHANGED <<gap, resume, saved>>

SpawnFails(m) ==
  /\ Opened(m)
  /\ gap' = IF resume THEN gap \cup {"failed_run"} ELSE gap
  /\ UNCHANGED <<phase, known, cli, resume, saved>>

(* The process goes with its turn; after an end its session is resumed.    *)
RunEnds ==
  /\ cli' = NoCli /\ Closed
  /\ resume' = TRUE /\ saved' = The(cli).knows
  /\ gap' = IF known THEN gap ELSE {}

RunFails ==
  /\ cli' = NoCli /\ Closed
  /\ saved' \in IF resume THEN {saved, The(cli).knows} ELSE {saved}
  /\ gap' = IF resume THEN gap \cup {"failed_run"} ELSE gap
  /\ UNCHANGED resume

(* map_event: the run's end tells its session, also when it was cancelled. *)
TellsSession(line) == line.kind = "done"

(* One event, an error, or the end of the output.                          *)
Read ==
  /\ phase = "streaming" /\ ~token /\ Unread # <<>>
  /\ LET line == Head(Unread) IN
     \/ /\ line.kind = "text"
        /\ told' = Append(told, line.turn) /\ cli' = {Rest(The(cli))}
        /\ UNCHANGED <<session, phase, known, token, gap, resume, saved>>
     \/ TellsSession(line) /\ RunEnds
     \/ line.kind \in {"failed", "logged_out", "eof"} /\ RunFails
  /\ UNCHANGED model

(* A line that is too long.                                                *)
ReadFails ==
  phase = "streaming" /\ ~token /\ Unread # <<>> /\ RunFails /\ UNCHANGED model

StopStreaming ==
  phase = "streaming" /\ token /\ RunFails /\ UNCHANGED model

Next ==
  \/ \E m \in Models : Begin(m) \/ SpawnFails(m)
  \/ /\ phase = "idle" /\ Turn < MaxTurns
     /\ session' = session \o << <<"user", Turn + 1>>, <<"assistant", Turn + 1>> >>
     /\ gap' = IF resume THEN gap \cup {"other_model"} ELSE gap
     /\ UNCHANGED <<phase, model, known, token, told, cli, resume, saved>>
  \/ Stop /\ UNCHANGED <<session, phase, model, known, told, cli, gap, resume, saved>>
  \/ CliMoves /\ UNCHANGED <<resume, saved>>
  \/ Read \/ ReadFails \/ StopStreaming

Progress == Read \/ StopStreaming

Fairness == WF_vars(Progress)

Spec == Init /\ [][Next]_vars /\ Fairness

(* A run knows the chat, unless after the first one that ended another     *)
(* model answered or a run failed (stream: the text is the newest message  *)
(* alone once there is an id, whatever that session has seen).             *)
KnowsChatButForGaps == gap = {} => KnowsTheChat

(* A turn reports only what was said in answer to it.                      *)
AnswersPrompt == AnswersThePrompt

StopEndsTurn == StopEnds
=============================================================================
