-------------------------------- MODULE Reading --------------------------------
(***************************************************************************)
(* The answers of read_file and grep (rozu-tools/src/fs.rs) and what the   *)
(* executor keeps of a long answer (truncate.rs).                          *)
(*                                                                         *)
(* A text is the sequence of its characters: "a" (what grep looks for),    *)
(* "e" (two bytes long), "nul" and "nl".  The files are given in the order *)
(* of the walk, external like the pattern; hidden and ignored files, links *)
(* (Confined, FileWrites) and the cancellation of a search are left out.   *)
(***************************************************************************)
EXTENDS Naturals, Sequences, FiniteSets, SequencesExt

CONSTANTS
  MaxLength,    \* bound on the characters of all files
  MaxFileBytes, \* MAX_FILE_BYTES
  Sniff,        \* BINARY_SNIFF_BYTES
  LineChars     \* MAX_GREP_LINE_CHARS

VARIABLE files \* the texts of two files

Width(c) == IF c = "e" THEN 2 ELSE 1
Bytes(text) == FoldLeft(LAMBDA n, c : n + Width(c), 0, text)

(* str::lines (external).                                                  *)
Lines(text) ==
  LET read == FoldLeft(LAMBDA acc, c :
                IF c = "nl" THEN [done |-> Append(acc.done, acc.rest), rest |-> <<>>]
                ELSE [acc EXCEPT !.rest = Append(@, c)],
                [done |-> <<>>, rest |-> <<>>], text)
  IN IF read.rest = <<>> THEN read.done ELSE Append(read.done, read.rest)

(* A NUL within the first bytes.                                           *)
IsBinary(text) == \E i \in DOMAIN text : text[i] = "nul" /\ Bytes(SubSeq(text, 1, i)) <= Sniff
Opens(text) == Bytes(text) <= MaxFileBytes /\ ~IsBinary(text)

Row(n, line) == [n |-> n, line |-> line]
Error == <<Row(0, <<>>)>>

(* Variant: take(end) after skip(start - 1).                               *)
RangeAfterSkip(lines, start, end) ==
  [i \in 1 .. (IF end < Len(lines) + 1 - start THEN end ELSE Len(lines) + 1 - start) |->
     Row(start - 1 + i, lines[start - 1 + i])]
(* The lines asked for, each with its number.                              *)
LineRange(lines, start, end) ==
  [i \in 1 .. end + 1 - start |-> Row(start - 1 + i, lines[start - 1 + i])]

(* read_file and number_lines; 0 stands for a bound that is not given.     *)
ReadFile(text, start, end) ==
  LET lines == Lines(text)
      first == IF start = 0 THEN 1 ELSE start
      last  == IF end = 0 \/ end > Len(lines) THEN Len(lines) ELSE end
  IN IF ~Opens(text) THEN Error
     ELSE IF lines = <<>> THEN <<>>
     ELSE IF first > Len(lines) \/ first > last THEN Error
     ELSE LineRange(lines, first, last)

-----------------------------------------------------------------------------
(* The lines of a file that match, with their place.                       *)
Matches(f, text) ==
  LET lines == Lines(text)
      at    == SelectSeq([n \in DOMAIN lines |-> n], LAMBDA n : "a" \in ToSet(lines[n]))
  IN IF ~Opens(text) THEN <<>>
     ELSE [i \in DOMAIN at |->
             [file |-> f, n |-> at[i],
              line |-> SubSeq(lines[at[i]], 1, IF Len(lines[at[i]]) < LineChars
                                               THEN Len(lines[at[i]]) ELSE LineChars)]]

(* search: up to the limit, and it says so when it is met.                 *)
Search(texts, limit) ==
  LET all == FlattenSeq([f \in DOMAIN texts |-> Matches(f, texts[f])])
  IN [hits |-> IF Len(all) < limit THEN all ELSE SubSeq(all, 1, limit),
      stopped |-> Len(all) >= limit]

-----------------------------------------------------------------------------
(* A byte index is a boundary when the characters before it are that long. *)
Boundary(text, index) == \E i \in 0..Len(text) : Bytes(SubSeq(text, 1, i)) = index
FloorCharBoundary(text, index) ==
  IF Boundary(text, index) THEN index ELSE index - 1
CeilCharBoundary(text, index) ==
  IF Boundary(text, index) THEN index ELSE index + 1

(* The characters before a boundary.                                       *)
Upto(text, index) == Len(SelectSeq([i \in DOMAIN text |-> Bytes(SubSeq(text, 1, i))],
                                   LAMBDA b : b <= index))

(* truncate_head_tail.                                                     *)
TruncateHeadTail(text, max) ==
  LET half == max \div 2
      head == FloorCharBoundary(text, half)
      tail == CeilCharBoundary(text, Bytes(text) - half)
  IN IF Bytes(text) <= max THEN [head |-> text, omitted |-> 0, tail |-> <<>>]
     ELSE [head |-> SubSeq(text, 1, Upto(text, head)), omitted |-> tail - head,
           tail |-> SubSeq(text, Upto(text, tail) + 1, Len(text))]

-----------------------------------------------------------------------------
Init == files = <<<<>>, <<>>>>

Size == Len(files[1]) + Len(files[2])
Write(f, c) == Size < MaxLength /\ files' = [files EXCEPT ![f] = Append(@, c)]

Next == \E f \in {1, 2}, c \in {"a", "e", "nul", "nl"} : Write(f, c)

Spec == Init /\ [][Next]_files

-----------------------------------------------------------------------------
ShownAs(hit, rows) == Len(rows) = 1 /\ rows[1].n = hit.n /\ IsPrefix(hit.line, rows[1].line)
IsHit(hits, f, row) == \E k \in DOMAIN hits : hits[k].file = f /\ hits[k].n = row.n
Agrees(found) ==
  /\ \A hit \in ToSet(found.hits) : ShownAs(hit, ReadFile(files[hit.file], hit.n, hit.n))
  /\ found.stopped \/ \A f \in 1..2 : \A row \in ToSet(ReadFile(files[f], 0, 0)) :
       "a" \in ToSet(row.line) => IsHit(found.hits, f, row)
(* What grep finds read_file shows under the same number, and what grep    *)
(* does not find is not there, unless it says that it stopped.             *)
GrepAgrees == \A limit \in 1..2 : Agrees(Search(files, limit))

(* A file read in two parts is the file read at once.                      *)
PartsAreTheWhole ==
  \A f \in 1..2 : LET whole == ReadFile(files[f], 0, 0) IN
    whole # Error => \A k \in 1..(Len(whole) - 1) :
      whole = ReadFile(files[f], 1, k) \o ReadFile(files[f], k + 1, 0)

(* A long answer keeps its head and tail in whole characters, and the      *)
(* marker between them tells the number of bytes that are missing.         *)
CutIsTold ==
  \A f \in 1..2, max \in 0..4 :
    LET kept == TruncateHeadTail(files[f], max) IN
    /\ IsPrefix(kept.head, files[f]) /\ IsSuffix(kept.tail, files[f])
    /\ Bytes(kept.head) + kept.omitted + Bytes(kept.tail) = Bytes(files[f])
    /\ Bytes(kept.head) + Bytes(kept.tail) <= max

AnswersAreTrue == GrepAgrees /\ PartsAreTheWhole /\ CutIsTold
=============================================================================
