----------------------------- MODULE ProjectMemory -----------------------------
(***************************************************************************)
(* The pinned notes of a workspace (rozu-store/src/memory.rs): chats in    *)
(* several rozu processes append notes, someone edits the file, and every  *)
(* pin is followed by a load of what goes into the prompt.                 *)
(*                                                                         *)
(* The file is the sequence of its bytes.  A note is told by its bytes:    *)
(* "a", or the two of a longer character, after "-" and before its end of  *)
(* line.  The other memory files are read the same way; left out are the   *)
(* directory handles (FileWrites models their like) and empty notes.       *)
(***************************************************************************)
EXTENDS Naturals, Sequences, SequencesExt

CONSTANTS
  Chats,    \* rozu processes
  Limit,    \* MAX_MEMORY_BYTES
  MaxEdits  \* bound on edits by hand

VARIABLES
  file,    \* bytes of .rozu/pinned.md
  pc,      \* of each chat: "idle", "checked", "pinned", "told" or "refused"
  note,    \* the note it pins
  prompt,  \* [text, cut, error]: what its last load gave
  raced,   \* history: two pins overlapped
  edits    \* so far

vars == <<file, pc, note, prompt, raced, edits>>

BlankPrompt == [text |-> <<>>, cut |-> FALSE, error |-> FALSE]
Chars == {<<"a">>, <<"c3", "a9">>}
Notes == Chars \cup {a \o b : a \in Chars, b \in Chars}
Line(n) == <<"-">> \o n \o <<"nl">>

(* from_utf8: where the text is valid up to, and whether it only breaks    *)
(* off there.                                                              *)
Valid(bytes) ==
  \A i \in DOMAIN bytes :
    /\ bytes[i] = "c3" => i < Len(bytes) /\ bytes[i + 1] = "a9"
    /\ bytes[i] = "a9" => i > 1 /\ bytes[i - 1] = "c3"
BreaksOff(bytes) == ~Valid(bytes) /\ Last(bytes) = "c3" /\ Valid(Front(bytes))

(* read_memory: at most the limit, and a character the cut broke is        *)
(* dropped.                                                                *)
ReadMemory(bytes) ==
  LET cut  == Len(bytes) > Limit
      kept == IF cut THEN SubSeq(bytes, 1, Limit) ELSE bytes
  IN IF Valid(kept) THEN [text |-> kept, cut |-> cut, error |-> FALSE]
     ELSE IF cut /\ BreaksOff(kept) THEN [text |-> Front(kept), cut |-> TRUE, error |-> FALSE]
     ELSE [BlankPrompt EXCEPT !.error = TRUE]

Init ==
  /\ file = <<>> /\ pc = [c \in Chats |-> "idle"] /\ note = [c \in Chats |-> <<>>]
  /\ prompt = [c \in Chats |-> BlankPrompt] /\ raced = FALSE /\ edits = 0

(* Variant: the limit is on what is there already.                         *)
FitsWithout(n) == Len(file) <= Limit
Fits(n) == Len(file) + Len(Line(n)) <= Limit

(* pin: the length is looked at, then the note is appended.                *)
Check(c, n) ==
  /\ pc[c] \in {"idle", "told", "refused"}
  /\ pc' = [pc EXCEPT ![c] = IF Fits(n) THEN "checked" ELSE "refused"]
  /\ note' = [note EXCEPT ![c] = n]
  /\ raced' = (raced \/ (Fits(n) /\ \E d \in Chats \ {c} : pc[d] = "checked"))
  /\ UNCHANGED <<file, prompt, edits>>

Pin(c) ==
  /\ pc[c] = "checked" /\ pc' = [pc EXCEPT ![c] = "pinned"]
  /\ file' = file \o Line(note[c])
  /\ UNCHANGED <<note, prompt, raced, edits>>

(* chat.rs: the memory is loaded again after a pin.                        *)
Load(c) ==
  /\ pc[c] = "pinned" /\ pc' = [pc EXCEPT ![c] = "told"]
  /\ prompt' = [prompt EXCEPT ![c] = ReadMemory(file)]
  /\ UNCHANGED <<file, note, raced, edits>>

(* The file is edited by hand, also while a chat is pinning.               *)
Edit(bytes) ==
  /\ edits < MaxEdits /\ file' = bytes /\ edits' = edits + 1
  /\ UNCHANGED <<pc, note, prompt, raced>>

Next ==
  \/ \E c \in Chats : (\E n \in Notes : Check(c, n)) \/ Pin(c) \/ Load(c)
  \/ \E bytes \in {<<>>, <<"c3", "nl">>, <<"a9">>} : Edit(bytes)

Spec == Init /\ [][Next]_vars

-----------------------------------------------------------------------------
IsIn(part, text) ==
  \E i \in 0..(Len(text) - Len(part)) : SubSeq(text, i + 1, i + Len(part)) = part

(* What a chat is told of the pinned notes is never broken text and never  *)
(* silently less than what is pinned: its own note is there unless the     *)
(* prompt says it was cut, the file was edited or it is not text; and a    *)
(* prompt is only cut after two chats pinned at once (pin, read_memory).   *)
PinnedIsTold ==
  \A c \in Chats :
    /\ Valid(prompt[c].text) /\ Len(prompt[c].text) <= Limit
    /\ prompt[c].cut => raced \/ edits > 0
    /\ pc[c] = "told" /\ edits = 0 => prompt[c].cut \/ IsIn(Line(note[c]), prompt[c].text)
=============================================================================
