----------------------------- MODULE VendorTurn -----------------------------
(***************************************************************************)
(* A turn of rozu answered by a vendor's CLI (rozu-core agent/stream.rs    *)
(* backend_turn, the factory's one provider per chat, cli-providers        *)
(* turn.rs): what ClaudeCli, CodexCli and GrokCli share.                   *)
(*                                                                         *)
(* A message is <<role, n>>: the user's n-th message, or what was said in  *)
(* answer to it.  What a CLI says is one piece of text per prompt.  The    *)
(* CLI's own conversation, which rozu never sees, is kept in cli.knows; it *)
(* is what the properties compare with the chat.                           *)
(***************************************************************************)
EXTENDS Integers, Sequences, FiniteSets, SequencesExt

CONSTANTS
  Models,   \* models of this CLI
  MaxTurns, \* bound on the turns of the chat
  MaxUnread \* bound on the lines the CLI is ahead of rozu

VARIABLES
  session, \* the chat's messages without the system message (Session::messages)
  phase,   \* "idle", "starting" (the CLI's handshake), "sending", "streaming"
  model,   \* req.model of the turn
  known,   \* whether only the newest message is sent (has_history, has_thread)
  token,   \* the turn's cancellation token
  told,    \* StepOutput.text: the pieces of text reported in this turn
  cli,     \* {} or {the process}: [knows, busy, out]
  gap      \* a ghost: how the CLI may have missed part of the chat

NoCli == {}

(* A process that has seen nothing and does nothing.                       *)
NewCli == [knows |-> <<>>, busy |-> {}, out |-> <<>>]

The(process) == CHOOSE p \in process : TRUE

Sent(p, kind, n) == [p EXCEPT !.out = Append(@, [kind |-> kind, turn |-> n])]

Dead(p) == \E i \in 1 .. Len(p.out) : p.out[i].kind = "eof"

Turn == Cardinality({i \in 1 .. Len(session) : session[i][1] = "user"})

InitTurn ==
  /\ session = <<>> /\ phase = "idle" /\ model \in Models /\ known = FALSE
  /\ token = FALSE /\ told = <<>> /\ cli = NoCli /\ gap = {}

(* The user's message begins a turn with this CLI's model m.               *)
Opened(m) ==
  /\ phase = "idle" /\ Turn < MaxTurns
  /\ session' = Append(session, <<"user", Turn + 1>>)
  /\ model' = m /\ UNCHANGED <<token, told>>

(* keep_partial_text, however the turn ends.                               *)
Closed ==
  /\ phase' = "idle" /\ token' = FALSE /\ known' = FALSE /\ told' = <<>>
  /\ session' = session \o [i \in 1 .. Len(told) |-> <<"assistant", told[i]>>]

(* turn_text: the newest message, after the chat so far unless the CLI     *)
(* knows it.                                                               *)
Prompted(p) ==
  [p EXCEPT !.knows = IF known THEN @ \o <<Last(session)>> ELSE @ \o session,
            !.busy = IF Dead(p) THEN @ ELSE @ \cup {Turn}]

(* Another provider of the chat answers a turn (/model); the CLI's session *)
(* is kept for later (AgentFactory).                                       *)
OtherModel ==
  /\ phase = "idle" /\ Turn < MaxTurns
  /\ session' = session \o << <<"user", Turn + 1>>, <<"assistant", Turn + 1>> >>
  /\ gap' = IF cli = NoCli THEN gap ELSE gap \cup {"other_model"}

(* Ctrl-C or Stop.                                                         *)
Stop == phase # "idle" /\ ~token /\ token' = TRUE

(* The CLI, for each prompt it has not ended: it says something, ends the  *)
(* prompt, or dies.                                                        *)
CliSays ==
  \E p \in cli : \E n \in p.busy :
    /\ <<"assistant", n>> \notin ToSet(p.knows) /\ Len(p.out) < MaxUnread
    /\ cli' = {[Sent(p, "text", n) EXCEPT !.knows = Append(@, <<"assistant", n>>)]}

CliEnds ==
  \E p \in cli : \E n \in p.busy : \E kind \in {"done", "failed", "logged_out"} :
    Len(p.out) < MaxUnread /\ cli' = {[Sent(p, kind, n) EXCEPT !.busy = @ \ {n}]}

CliDies ==
  \E p \in cli :
    /\ ~Dead(p)
    /\ cli' = {[Sent(p, "eof", 0) EXCEPT !.busy = {}]}

CliMoves ==
  /\ CliSays \/ CliEnds \/ CliDies
  /\ UNCHANGED <<session, phase, model, known, token, told, gap>>

(* What the CLI wrote and rozu has not read.                               *)
Unread == IF cli = NoCli THEN <<>> ELSE The(cli).out

Rest(p) == [p EXCEPT !.out = Tail(@)]

(* While a turn streams, the CLI's conversation is the chat, everything    *)
(* before the prompt, once, and the prompt; and then what it said to it.   *)
KnowsTheChat ==
  phase = "streaming" /\ cli # NoCli =>
    The(cli).knows \in {session, Append(session, <<"assistant", Turn>>)}

(* What is reported in a turn was said in answer to its prompt.            *)
AnswersThePrompt == phase = "streaming" => \A i \in 1 .. Len(told) : told[i] = Turn

(* The user's Stop ends the turn, whatever the CLI does.                   *)
StopEnds == token /\ phase # "idle" ~> phase = "idle"
=============================================================================
