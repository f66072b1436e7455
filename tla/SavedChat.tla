----------------------------- MODULE SavedChat -----------------------------
(***************************************************************************)
(* What a saved chat promises its user, whatever processes come and go.    *)
(* "saved" is the conversation that reopening the chat would show, "chat"  *)
(* the conversation of the process that is saving it.  What is saved only  *)
(* ever grows into a longer part of that conversation, or, after earlier   *)
(* messages were rewritten (a compaction), becomes the whole of it.        *)
(***************************************************************************)
EXTENDS Sequences, SequencesExt

CONSTANTS Message, NoChat

VARIABLES saved, chat, rewritten

vars == <<saved, chat, rewritten>>

TypeOK ==
  /\ saved \in Seq(Message)
  /\ chat \in Seq(Message) \cup {NoChat}
  /\ rewritten \in BOOLEAN

Init == saved = <<>> /\ chat = NoChat /\ rewritten = FALSE

(* Reopening shows what was saved.                                         *)
Open == chat = NoChat /\ chat' = saved /\ rewritten' = FALSE /\ UNCHANGED saved

Say ==
  /\ chat # NoChat
  /\ chat' \in Seq(Message)
  /\ Len(chat') = Len(chat) + 1 /\ IsPrefix(chat, chat')
  /\ UNCHANGED <<saved, rewritten>>

Rewrite ==
  /\ chat # NoChat
  /\ chat' \in Seq(Message)
  /\ rewritten' = TRUE
  /\ UNCHANGED saved

Grow == ~rewritten /\ IsPrefix(saved, saved') /\ IsPrefix(saved', chat)

Save ==
  /\ chat # NoChat
  /\ Grow \/ (rewritten /\ saved' = chat)
  /\ rewritten' = FALSE
  /\ UNCHANGED chat

(* The process closes the chat, dies, or gives up saving, perhaps in the   *)
(* middle of a save.                                                       *)
Close ==
  /\ chat # NoChat
  /\ saved' = saved \/ Grow \/ (rewritten /\ saved' = chat)
  /\ chat' = NoChat
  /\ rewritten' = FALSE

Next == Open \/ Say \/ Rewrite \/ Save \/ Close

Spec == Init /\ [][Next]_vars
=============================================================================
