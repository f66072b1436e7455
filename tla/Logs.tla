--------------------------------- MODULE Logs ---------------------------------
(***************************************************************************)
(* What rozu writes to its log file (telemetry.rs RedactingWriter) and to  *)
(* the approval log (audit.rs): whatever looks like a provider's API key   *)
(* is masked, in log events that are formatted piece by piece, and in      *)
(* previews that are cut to a length.                                      *)
(*                                                                         *)
(* Texts are sequences of characters: "w" of a word, " " any that ends     *)
(* one, "P" a key's prefix (sk-, sk-ant-, xai-), "s" of a key, "R" the     *)
(* mask.  Keys are words of their own.  Every event has its own writer.    *)
(* Left out: where the logs are, their encoding, and the other fields of   *)
(* an approval's line.                                                     *)
(***************************************************************************)
EXTENDS Naturals, Sequences, SequencesExt

CONSTANTS
  KeyChars,  \* characters that make a key (16)
  MaxText,   \* MAX_TEXT_CHARS
  MaxTokens  \* bound on the tokens of an event or preview

VARIABLES
  todo,  \* what is not yet formatted of the event
  event, \* the event, or <<>>
  buf,   \* of its RedactingWriter
  log,   \* the pieces in the files, in order
  whole  \* history: events and previews that ended, as they were

vars == <<todo, event, buf, log, whole>>

Key == <<"P">> \o [i \in 1..KeyChars |-> "s"]
Word(c) == c \in {"w", "P", "s"}

(* KEY_PATTERN: where a key starts, and what belongs to it.                *)
KeyAt(text, i) ==
  /\ text[i] = "P" /\ (i = 1 \/ ~Word(text[i - 1]))
  /\ i + KeyChars <= Len(text) /\ \A j \in i + 1 .. i + KeyChars : Word(text[j])
Masked(text, j) == \E i \in 1..(j - 1) : KeyAt(text, i) /\ \A k \in i..j : Word(text[k])

(* redact: the key's characters after its prefix become one mask.          *)
Redact(text) ==
  FlattenSeq([j \in DOMAIN text |->
    IF ~Masked(text, j) THEN <<text[j]>> ELSE IF KeyAt(text, j - 1) THEN <<"R">> ELSE <<>>])

Cut(text) == IF Len(text) <= MaxText THEN text ELSE Append(SubSeq(text, 1, MaxText), "...")

(* Variant: the text is cut first.                                         *)
CleanTextCutFirst(text) == Redact(Cut(text))
CleanText(text) == Cut(Redact(text))

Tokens == UNION {[1..n -> {<<"w">>, <<" ">>, Key}] : n \in 1..MaxTokens}
Texts == {FlattenSeq(t) : t \in {s \in Tokens : \A i \in 2..Len(s) :
                                   Key \in {s[i], s[i - 1]} => <<" ">> \in {s[i], s[i - 1]}}}

Init == todo = <<>> /\ event = <<>> /\ buf = <<>> /\ log = <<>> /\ whole = <<>>

(* An event's own writer.                                                  *)
MakeWriter(text) ==
  /\ event = <<>> /\ log = <<>>
  /\ event' = text /\ todo' = text
  /\ UNCHANGED <<buf, log, whole>>

Write(n) ==
  /\ n <= Len(todo)
  /\ buf' = buf \o SubSeq(todo, 1, n) /\ todo' = SubSeq(todo, n + 1, Len(todo))
  /\ UNCHANGED <<event, log, whole>>

(* Dropped at the event's end, the writer writes what it has; the file     *)
(* may take only a part.                                                   *)
DropWriter(short) ==
  /\ event # <<>> /\ todo = <<>>
  /\ LET text == Redact(buf)
     IN log' = Append(log, IF short THEN Front(text) ELSE text)
  /\ whole' = Append(whole, IF short THEN <<"short">> ELSE event)
  /\ event' = <<>> /\ buf' = <<>>
  /\ UNCHANGED todo

(* record_for: one line, with the preview.                                 *)
RecordFor(text) ==
  /\ event = <<>> /\ log = <<>>
  /\ log' = Append(log, CleanText(text)) /\ whole' = Append(whole, <<"cut">> \o text)
  /\ UNCHANGED <<todo, event, buf>>

Next ==
  \/ \E text \in Texts : MakeWriter(text) \/ RecordFor(text)
  \/ \E n \in 1..2 : Write(n)
  \/ \E short \in BOOLEAN : DropWriter(short)

Spec == Init /\ [][Next]_vars

-----------------------------------------------------------------------------
(* "A key split across several write calls is still caught": no character  *)
(* of a key is ever in a log, however the event was written and wherever   *)
(* a preview was cut, and whoever reads the log has the rest of the text.  *)
NoKeyLogged ==
  \A i \in DOMAIN log :
    /\ "s" \notin ToSet(log[i])
    /\ whole[i][1] \in {"short", "cut"} \/ SelectSeq(log[i], LAMBDA c : c \in {"w", " ", "P"})
         = SelectSeq(whole[i], LAMBDA c : c \in {"w", " ", "P"})
=============================================================================
