------------------------------ MODULE SavedTurns ------------------------------
(***************************************************************************)
(* A chat's turns and the saved chat: the session is synced after every    *)
(* turn (chat.rs turn and save), rozu may die at any moment, also between  *)
(* the appends of one sync, or a write may fail, and the chat is resumed   *)
(* from what was saved.  And what the HTTP providers make of its messages. *)
(*                                                                         *)
(* A torn line is trimmed when the chat is opened (SessionStore): what is  *)
(* saved is whole records.  Left out: the index, the usage record, and who *)
(* else opens the chat.                                                    *)
(***************************************************************************)
EXTENDS AgentTurn, SequencesExt

VARIABLES
  saved,   \* messages a resume reads
  writer,  \* chat()'s Option<SessionWriter>
  syncing, \* the messages of a sync that has begun are not all appended
  resumed  \* "no", or how the chat was left: "clean", or "cut" within a sync

savedVars == <<saved, writer, syncing, resumed>>

SavedInit == Init /\ saved = <<>> /\ writer = TRUE /\ syncing = FALSE /\ resumed = "no"

(* Variant: a compaction that leaves no fewer messages goes unnoticed.     *)
CompactedIfShorter == Len(messages) < Len(saved)
(* The history is not the one that was saved and more: it was compacted.   *)
Compacted == ~IsPrefix(saved, messages)
Unsynced == Compacted \/ Len(saved) < Len(messages)

(* A turn starts when the last one was saved, or saving was given up.  The *)
(* receiver of the events stays.                                           *)
TurnStep ==
  /\ TaskStep \/ Provider \/ Tool \/ User \/ Receive
  /\ turns' # turns => ~writer \/ ~Unsynced \/ turns = 0
  /\ UNCHANGED savedVars

(* sync: a checkpoint after a compaction, else message by message.         *)
Sync ==
  /\ pc = "idle" /\ writer /\ Unsynced /\ turns > 0
  /\ saved' = IF Compacted THEN messages ELSE Append(saved, messages[Len(saved) + 1])
  /\ syncing' = (Len(saved') < Len(messages))
  /\ UNCHANGED <<vars, writer, resumed>>

(* "could not save the chat, so it won't be resumable".                    *)
SaveFails ==
  /\ pc = "idle" /\ writer /\ Unsynced /\ turns > 0
  /\ writer' = FALSE
  /\ UNCHANGED <<vars, saved, syncing, resumed>>

(* rozu dies, or quits; the chat is resumed.                               *)
DieAndResume ==
  /\ resumed = "no" /\ resumed' = IF syncing THEN "cut" ELSE "clean"
  /\ writer' = TRUE /\ syncing' = FALSE /\ UNCHANGED saved
  /\ messages' = SetSystem(saved, <<SystemPrompt>>)
  /\ pc' = "idle" /\ cancelled' = FALSE /\ step' = 0 /\ outcome' = "completed"
  /\ text' = FALSE /\ calls' = <<>> /\ UNCHANGED nextId
  /\ index' = 1 /\ verdict' = NoVerdict /\ retry' = FALSE
  /\ prompt' = NoPrompt /\ answer' = NoAnswer /\ answers' = {}
  /\ granted' = StoredRules /\ rules' = StoredRules
  /\ events' = <<>> /\ listening' = TRUE /\ feed' = NewFeed /\ UNCHANGED turns
  /\ runs' = {}

SavedNext == TurnStep \/ Sync \/ SaveFails \/ DieAndResume

SavedSpec == SavedInit /\ [][SavedNext]_<<vars, savedVars>>

-----------------------------------------------------------------------------
(* How the HTTP providers write the session into a request: request_body   *)
(* of rozu-providers/src/anthropic.rs (Messages API) and of openai.rs      *)
(* (Responses API, also xAI's).  An assistant message without calls has    *)
(* text, "summary" is a system message and "stub" a tool result.  Left     *)
(* out: tools, limits, the text itself, arguments (broken ones are sent as *)
(* {}) and Anthropic's cache marks.                                        *)
Text == [type |-> "text", id |-> 0]
Call(id) == [type |-> "call", id |-> id]
Result(id) == [type |-> "result", id |-> id]

IsSystem(m) == m.role \in {"system", "summary"}
IsToolResult(m) == m.role \in {"tool", "stub"}

(* content_block, of each part of a message.                               *)
ContentBlocks(m) ==
  IF IsToolResult(m) THEN <<Result(m.id)>>
  ELSE IF m.calls = <<>> THEN <<Text>>
  ELSE [k \in DOMAIN m.calls |-> Call(m.calls[k])]

ApiRole(m) == IF m.role = "assistant" THEN "assistant" ELSE "user"

-----------------------------------------------------------------------------
(* Variant: every message becomes one of its own.                          *)
AddUnmerged(body, m) == Append(body, [role |-> ApiRole(m), content |-> ContentBlocks(m)])
(* A message extends the last one when it has the same role.               *)
AddMessage(body, m) ==
  IF body # <<>> /\ Last(body).role = ApiRole(m)
  THEN Append(Front(body), [Last(body) EXCEPT !.content = @ \o ContentBlocks(m)])
  ELSE Append(body, [role |-> ApiRole(m), content |-> ContentBlocks(m)])

(* Anthropic's messages: the system's are sent apart.                      *)
AnthropicMessages(history) ==
  FoldLeft(LAMBDA body, m : AddMessage(body, m), <<>>,
           SelectSeq(history, LAMBDA m : ~IsSystem(m)))

(* OpenAI's input: one item for each part, in order.                       *)
OpenAiInput(history) ==
  FoldLeft(LAMBDA input, m : input \o ContentBlocks(m), <<>>, history)

-----------------------------------------------------------------------------
(* What the services accept (external).  Anthropic: a user's message comes *)
(* first, the roles alternate, and every call of a message is answered at  *)
(* the head of the next one, which answers nothing else.                   *)
OfType(blocks, type) == SelectSeq(blocks, LAMBDA b : b.type = type)
BlockIds(blocks) == {b.id : b \in ToSet(blocks)}

AnthropicAccepts(body) ==
  /\ body # <<>> /\ body[1].role = "user" /\ OfType(body[1].content, "result") = <<>>
  /\ \A i \in 2..Len(body) :
       LET asked   == OfType(body[i - 1].content, "call")
           results == OfType(body[i].content, "result")
       IN /\ body[i].role # body[i - 1].role
          /\ BlockIds(results) = BlockIds(asked) /\ Len(results) = Len(asked)
          /\ \A k \in 1..Len(results) : body[i].content[k].type = "result"
  /\ OfType(Last(body).content, "call") = <<>>

(* OpenAI: one output for each call, after it.                             *)
OpenAiAccepts(input) ==
  /\ \A i \in DOMAIN input : input[i].type = "call" =>
       Cardinality({j \in DOMAIN input : input[j] = Result(input[i].id)}) = 1
  /\ \A j \in DOMAIN input : input[j].type = "result" =>
       \E i \in 1..(j - 1) : input[i] = Call(input[j].id)

Accepted(history) ==
  AnthropicAccepts(AnthropicMessages(history)) /\ OpenAiAccepts(OpenAiInput(history))

-----------------------------------------------------------------------------
(* A chat that was left between two syncs, however its turns ended, is one *)
(* whose next request the services accept: results with their calls, and   *)
(* summaries with the turns they stand for.                                *)
ResumedAccepted == resumed # "cut" /\ pc = "stream" => Accepted(messages)

(* ... and so is one left at any other moment: "Resuming a crash-          *)
(* interrupted log trims only its invalid final record before appending    *)
(* new turns" (docs/architecture.md), and "every tool call in the session  *)
(* still gets a result" (agent.rs run_turn).                               *)
RequestAfterResume == pc = "stream" => Accepted(messages)
=============================================================================
