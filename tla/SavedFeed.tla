------------------------------ MODULE SavedFeed ------------------------------
(***************************************************************************)
(* A chat's thread in the desktop app, built twice: live from the turn's   *)
(* events, and from the saved messages when the chat is opened again       *)
(* (rozu-app feed.rs; the events and messages as agent.rs and              *)
(* agent/stream.rs make them).                                             *)
(*                                                                         *)
(* Abstractions:                                                           *)
(*  - The relay applies a turn's events in order (AppChat has the channel, *)
(*    the approval cards and the orb), so an event is applied as it is     *)
(*    sent.                                                                *)
(*  - A piece of text is "a", or "_" for white space.  A call's id is its  *)
(*    place in its response, for servers that number the calls of each     *)
(*    response anew.                                                       *)
(*  - The session is the sequence of its messages' parts.  Compaction,     *)
(*    which removes old turns and masks old outputs, is left out.          *)
(*  - A call that never started because the turn was cancelled has the     *)
(*    result "skipped", to tell it from a failure; the app shows both as   *)
(*    failed, with the output's first line.                                *)
(***************************************************************************)
EXTENDS Naturals, Sequences, SequencesExt

CONSTANTS MaxTurns, MaxSteps, MaxCalls, MaxPieces,
          MaxParts  \* bounds the calls of a chat, by its parts

VARIABLES
  pc,         \* "idle", "stream", "call", "running" or "opened"
  by,         \* who runs the turn's tools: "rozu", or the vendor's "cli"
  cancelled,
  step,       \* the turn's step
  text,       \* the step's text so far
  calls,      \* the number of calls in the step's response
  index,      \* the call at hand
  saved,      \* the session's parts
  items,      \* the thread
  thinking,   \* the place of the open "Thinking" step in items, or 0
  before,     \* just after the chat was opened again: the thread it showed before
  turns

feed == <<items, thinking>>
vars == <<pc, by, cancelled, step, text, calls, index, saved, items, thinking, before, turns>>

Part(type, id, said, result) == [type |-> type, id |-> id, said |-> said, result |-> result]
Item(type, id, said, done, runner) ==
  [type |-> type, id |-> id, said |-> said, done |-> done, by |-> runner]
UserItem == Item("user", 0, <<>>, "", "")
TextItem(said) == Item("text", 0, said, "", "")
NoteItem == Item("note", 0, <<>>, "", "")
StepItem(id, runner) == Item("step", id, <<>>, "", runner)
ThinkingItem == Item("step", 0, <<>>, "", "")

Init ==
  /\ pc = "idle" /\ by = "rozu" /\ cancelled = FALSE
  /\ step = 0 /\ text = <<>> /\ calls = 0 /\ index = 0
  /\ saved = <<>> /\ items = <<>> /\ thinking = 0 /\ before = <<>> /\ turns = 0

-----------------------------------------------------------------------------
(* The thread of a saved chat.  Texts without a step between them are one  *)
(* item; a result finishes the latest step of its id.                      *)
LastIsText(shown) == shown # <<>> /\ Last(shown).type = "text"
Said(shown, said) ==
  IF LastIsText(shown) THEN Front(shown) \o <<TextItem(Last(shown).said \o said)>>
  ELSE Append(shown, TextItem(said))

(* Variant: the first step of the id.                                      *)
StepOfFirst(shown, id) ==
  SelectInSeq(shown, LAMBDA i : i.type = "step" /\ i.id = id)

StepOf(shown, id) ==
  SelectLastInSeq(shown, LAMBDA i : i.type = "step" /\ i.id = id)

Finished(shown, place, result) ==
  IF place = 0 THEN shown ELSE [shown EXCEPT ![place].done = result]

Blank(said) == \A i \in DOMAIN said : said[i] = "_"

Shown(shown, part) ==
  CASE part.type = "user" -> Append(shown, UserItem)
    [] part.type = "text" -> IF Blank(part.said) THEN shown ELSE Said(shown, part.said)
    [] part.type = "call" -> Append(shown, StepItem(part.id, "rozu"))
    [] part.type = "result" -> Finished(shown, StepOf(shown, part.id), part.result)

(* end_turn: what is still open was interrupted.                           *)
Ended(shown) ==
  [i \in DOMAIN shown |-> IF shown[i].type = "step" /\ shown[i].done = ""
                          THEN [shown[i] EXCEPT !.done = "interrupted"] ELSE shown[i]]

FromSession(parts) == Ended(FoldLeft(Shown, <<>>, parts))

(* The live thread: apply, for the events a turn sends.                    *)
ThinkingEnded ==
  IF thinking = 0 THEN items ELSE [items EXCEPT ![thinking].done = "thought"]

(* Variant: a result finishes any step of its id.                          *)
OpenStepAny(id) == StepOfFirst(items, id)

OpenStep(id) ==
  SelectLastInSeq(items, LAMBDA i : i.type = "step" /\ i.id = id /\ i.done = "")

ApplyText(piece) == items' = Said(ThinkingEnded, <<piece>>) /\ thinking' = 0
ApplyStarted(id) == items' = Append(ThinkingEnded, StepItem(id, by)) /\ thinking' = 0
ApplyFinished(id, result) == items' = Finished(items, OpenStep(id), result) /\ UNCHANGED thinking

(* end_turn, and the note of a turn that did not just complete.            *)
ApplyEnd(how) ==
  /\ items' = Ended(ThinkingEnded) \o (IF how = "completed" THEN <<>> ELSE <<NoteItem>>)
  /\ thinking' = 0

-----------------------------------------------------------------------------
(* send and the start of the turn; the model of the chat may be another    *)
(* than the last turn's.                                                   *)
StartTurn(runner) ==
  /\ pc \in {"idle", "opened"} /\ turns < MaxTurns
  /\ turns' = turns + 1 /\ by' = runner /\ cancelled' = FALSE
  /\ step' = 1 /\ text' = <<>> /\ calls' = 0
  /\ saved' = Append(saved, Part("user", 0, <<>>, ""))
  /\ items' = items \o <<UserItem, ThinkingItem>>
  /\ thinking' = Len(items) + 2
  /\ pc' = "stream" /\ before' = <<>>
  /\ UNCHANGED index

TextDelta(piece) ==
  /\ pc = "stream" /\ ~cancelled /\ Len(text) < MaxPieces
  /\ text' = Append(text, piece)
  /\ ApplyText(piece)
  /\ UNCHANGED <<pc, by, cancelled, step, calls, index, saved, before, turns>>

(* A vendor's CLI reports the calls it runs; they are not saved.           *)
CliStarts(id) ==
  /\ pc = "stream" /\ ~cancelled /\ by = "cli" /\ id = calls + 1
  /\ calls' = id
  /\ ApplyStarted(id)
  /\ UNCHANGED <<pc, by, cancelled, step, text, index, saved, before, turns>>

CliFinishes(id, result) ==
  /\ pc = "stream" /\ ~cancelled /\ by = "cli" /\ id <= calls
  /\ ApplyFinished(id, result)
  /\ UNCHANGED <<pc, by, cancelled, step, text, calls, index, saved, before, turns>>

(* Variant: only whole responses are kept.                                 *)
PartialDropped == <<>>

(* keep_partial_text, of a response cut off and of a vendor's turn.        *)
PartialText == IF text = <<>> THEN <<>> ELSE <<Part("text", 0, text, "")>>

StreamStops ==
  /\ pc = "stream"
  /\ saved' = saved \o PartialText
  /\ \/ cancelled /\ ApplyEnd("cancelled")
     \/ ~cancelled /\ ApplyEnd("failed")
     \/ ~cancelled /\ by = "cli" /\ ApplyEnd("completed")
  /\ pc' = "idle"
  /\ UNCHANGED <<by, cancelled, step, text, calls, index, before, turns>>

(* A whole response of a model provider, with n calls.                     *)
StreamDone(n) ==
  /\ pc = "stream" /\ ~cancelled /\ by = "rozu"
  /\ Len(saved) + 2 * n <= MaxParts
  /\ calls' = n /\ index' = 1
  /\ saved' = saved \o PartialText \o [i \in 1..n |-> Part("call", i, <<>>, "")]
  /\ IF n = 0 THEN pc' = "idle" /\ ApplyEnd("completed")
     ELSE pc' = "call" /\ UNCHANGED feed
  /\ UNCHANGED <<by, cancelled, step, text, before, turns>>

(* What follows the last call: the next step, or the end of the turn.      *)
AfterCall(shown) ==
  IF index < calls
  THEN /\ index' = index + 1 /\ pc' = "call" /\ items' = shown
       /\ UNCHANGED <<step, text, thinking>>
  ELSE IF cancelled \/ step = MaxSteps
  THEN /\ pc' = "idle" /\ items' = Append(Ended(shown), NoteItem)
       /\ UNCHANGED <<index, step, text, thinking>>
  ELSE /\ pc' = "stream" /\ step' = step + 1 /\ text' = <<>> /\ items' = shown
       /\ UNCHANGED <<index, thinking>>

CallStarts ==
  /\ pc = "call" /\ ~cancelled
  /\ ApplyStarted(index)
  /\ pc' = "running"
  /\ UNCHANGED <<by, cancelled, step, text, calls, index, saved, before, turns>>

CallEnds(result) ==
  /\ pc = "running"
  /\ saved' = Append(saved, Part("result", index, <<>>, result))
  /\ AfterCall(Finished(items, OpenStep(index), result))
  /\ UNCHANGED <<by, cancelled, calls, before, turns>>

(* Its ToolCallFinished has no step to finish, nor has ThinkingEnded       *)
(* anything to end when other calls ran before.                            *)
CallSkipped ==
  /\ pc = "call" /\ cancelled
  /\ saved' = Append(saved, Part("result", index, <<>>, "skipped"))
  /\ IF index = calls THEN ApplyEnd("cancelled") /\ pc' = "idle" /\ UNCHANGED index
     ELSE ApplyFinished(index, "skipped") /\ index' = index + 1 /\ UNCHANGED pc
  /\ UNCHANGED <<by, cancelled, step, text, calls, before, turns>>

Cancel ==
  /\ pc \in {"stream", "call", "running"} /\ ~cancelled
  /\ cancelled' = TRUE
  /\ UNCHANGED <<pc, by, step, text, calls, index, saved, feed, before, turns>>

(* The chat is opened from the list, in a window that did not show it.     *)
Open ==
  /\ pc = "idle" /\ saved # <<>>
  /\ before' = items
  /\ items' = FromSession(saved) /\ thinking' = 0
  /\ pc' = "opened"
  /\ UNCHANGED <<by, cancelled, step, text, calls, index, saved, turns>>

Results == {"ok", "error"}

Next ==
  \/ \E runner \in {"rozu", "cli"} : StartTurn(runner)
  \/ \E piece \in {"a", "_"} : TextDelta(piece)
  \/ \E id \in 1..MaxCalls :
       CliStarts(id) \/ \E result \in Results : CliFinishes(id, result)
  \/ \E n \in 0..MaxCalls : StreamDone(n)
  \/ \E result \in Results : CallEnds(result)
  \/ StreamStops \/ CallStarts \/ CallSkipped \/ Cancel \/ Open

-----------------------------------------------------------------------------
(* A thread without what only one of the two shows: the "Thinking" step,   *)
(* the notes, a vendor's own calls, the calls that a cancelled turn never  *)
(* started, and where white space is.                                      *)
Common(shown) ==
  LET Atoms(i) == IF i.type = "text" THEN SelectSeq(i.said, LAMBDA p : p # "_")
                  ELSE <<[type |-> i.type, id |-> i.id, done |-> i.done]>>
      kept == SelectSeq(shown, LAMBDA i :
                \/ i.type \in {"user", "text"}
                \/ i.type = "step" /\ i.by = "rozu" /\ i.done # "skipped")
  IN FlattenSeq([n \in DOMAIN kept |-> Atoms(kept[n])])

(* A chat that is opened again shows what it showed when it was live: the  *)
(* same messages, words and steps in the same order, with each step's own  *)
(* result, whatever ended the turns; and no step is left running.          *)
(* (from_session against apply; the test                                   *)
(* live_and_reloaded_tools_keep_the_same_results has one finished chat.)   *)
OpensAsShown ==
  /\ pc = "opened" => Common(items) = Common(before)
  /\ pc \in {"idle", "opened"} =>
       \A i \in DOMAIN items : items[i].type = "step" => items[i].done # ""
=============================================================================
