------------------------------ MODULE Patches ------------------------------
(***************************************************************************)
(* The edits of apply_patch (rozu-tools patch.rs, write.rs ApplyPatch):    *)
(* a unified diff and search/replace edits, applied to what the file is by *)
(* then.                                                                   *)
(*                                                                         *)
(* A text is a sequence of lines.  A script is how the file was meant to   *)
(* change, line by line: kept, removed or added; the diff a correct tool   *)
(* makes of it (external: GNU diff, with Context lines around a change) is *)
(* applied to the file, which may have got lines in front meanwhile.  Left *)
(* out: limits on sizes and work, line endings, the final newline, several *)
(* edits in a call and replace_all.                                        *)
(***************************************************************************)
EXTENDS Integers, Sequences, FiniteSets, SequencesExt, FiniteSetsExt

CONSTANTS
  Lines,    \* what a line can be
  MaxSteps, \* bound: lines of a script
  MaxDrift, \* bound: lines that came in front
  MaxContext

VARIABLES
  script,  \* the intended change: records [op, line], op in {"keep", "remove", "add"}
  context, \* lines of context in the diff
  drift    \* lines now in front of the file

Op == [op : {"keep", "remove", "add"}, line : Lines]

Init == script = <<>> /\ context \in 0 .. MaxContext /\ drift = <<>>
Next ==
  \/ /\ Len(script) < MaxSteps /\ drift = <<>>
     /\ \E o \in Op : script' = Append(script, o)
     /\ UNCHANGED <<context, drift>>
  \/ /\ Len(drift) < MaxDrift
     /\ \E x \in Lines : drift' = Append(drift, x)
     /\ UNCHANGED <<script, context>>
Spec == Init /\ [][Next]_<<script, context, drift>>

LinesOf(steps, ops) ==
  LET some == SelectSeq(steps, LAMBDA o : o.op \in ops) IN [i \in 1 .. Len(some) |-> some[i].line]
OldText(steps) == LinesOf(steps, {"keep", "remove"})
NewText(steps) == LinesOf(steps, {"keep", "add"})

-----------------------------------------------------------------------------
(* The diff.                                                               *)
Near(i) == \E j \in 1 .. Len(script) :
             script[j].op # "keep" /\ i - j <= context /\ j - i <= context
(* Hunk boundaries: maximal runs of lines near a change.                   *)
Firsts == {i \in 1 .. Len(script) : Near(i) /\ ~(i > 1 /\ Near(i - 1))}
RunEnd(i) == Max({j \in i .. Len(script) : \A k \in i .. j : Near(k)})

(* A hunk starts at its first old line, or, when it has none, at the line  *)
(* it comes after (diff's format).                                         *)
HunkOf(i) ==
  LET steps == SubSeq(script, i, RunEnd(i))
      before == Len(OldText(SubSeq(script, 1, i - 1)))
  IN [start |-> IF OldText(steps) = <<>> THEN before ELSE before + 1,
      old |-> OldText(steps), new |-> NewText(steps)]

Diff ==
  LET order == SetToSortSeq(Firsts, <) IN [k \in 1 .. Len(order) |-> HunkOf(order[k])]

-----------------------------------------------------------------------------
(* apply_unified_diff.  Positions count from 0, as in the code.            *)
BlockMatches(text, at, block) ==
  \A k \in 1 .. Len(block) : text[at + k] = block[k]

Distance(i, j) == IF i > j THEN i - j ELSE j - i

(* find_block: where the header says, or else the nearest place after the  *)
(* hunks before it; {} when there is none.                                 *)
FindBlock(text, block, from, expected) ==
  LET places == {i \in from .. Len(text) - Len(block) : BlockMatches(text, i, block)}
  IN IF expected \in places THEN {expected}
     ELSE {i \in places : \A j \in places :
             \/ Distance(i, expected) < Distance(j, expected)
             \/ Distance(i, expected) = Distance(j, expected) /\ i <= j}

(* Variant: a hunk is looked for anywhere, also before the hunk before it. *)
FindAnywhere(state, hunk, expected) == FindBlock(state.text, hunk.old, 0, expected)
(* A hunk that removes nothing goes where its header says.                 *)
Find(state, hunk, expected) ==
  IF hunk.old = <<>> THEN {IF expected < Len(state.text) THEN expected ELSE Len(state.text)}
  ELSE FindBlock(state.text, hunk.old, state.from, expected)

Splice(text, at, n, new) == SubSeq(text, 1, at) \o new \o SubSeq(text, at + n + 1, Len(text))

ApplyHunk(state, hunk) ==
  LET start == (IF hunk.start = 0 THEN 0 ELSE hunk.start - 1) + state.offset
      found == Find(state, hunk, IF start < 0 THEN 0 ELSE start)
  IN IF state.failed \/ found = {} THEN [state EXCEPT !.failed = TRUE]
     ELSE LET at == CHOOSE i \in found : TRUE
          IN [text |-> Splice(state.text, at, Len(hunk.old), hunk.new),
              from |-> at + Len(hunk.new),
              offset |-> state.offset + Len(hunk.new) - Len(hunk.old),
              failed |-> FALSE]

(* A diff without hunks is refused.                                        *)
ApplyUnifiedDiff(text, hunks) ==
  FoldLeft(ApplyHunk, [text |-> text, from |-> 0, offset |-> 0, failed |-> hunks = <<>>], hunks)

-----------------------------------------------------------------------------
(* apply_search_replace, for one edit of whole lines.                      *)
Places(text, old) == {i \in 0 .. Len(text) - Len(old) : BlockMatches(text, i, old)}

(* match_indices: from the left, each after the end of the one before, so  *)
(* that of two places that overlap only the first is seen.                 *)
Occurrences(text, old) ==
  FoldLeft(LAMBDA seen, i : IF seen # <<>> /\ i < Last(seen) + Len(old) THEN seen
                            ELSE Append(seen, i),
           <<>>, SetToSortSeq(Places(text, old), <))

SearchReplace(text, old, new) ==
  LET at == Occurrences(text, old)
  IN IF old = <<>> \/ Len(at) # 1 THEN [text |-> text, failed |-> TRUE]
     ELSE [text |-> Splice(text, at[1], Len(old), new), failed |-> FALSE]

-----------------------------------------------------------------------------
Inserts == \E i \in Firsts : HunkOf(i).old = <<>> /\ HunkOf(i).start > 0

(* A diff of the file as it is makes it the file it was meant to become,   *)
(* whatever lines repeat in it and however little context it has.          *)
DiffGivesTarget ==
  drift = <<>> /\ Diff # <<>> /\ ~Inserts =>
    LET r == ApplyUnifiedDiff(OldText(script), Diff)
    IN ~r.failed /\ r.text = NewText(script)

(* The same with the hunks that have no line of context and remove none    *)
(* ("Pure insertion: trust the header", patch.rs:287).                     *)
InsertionTrustsHeader ==
  drift = <<>> /\ Diff # <<>> =>
    ApplyUnifiedDiff(OldText(script), Diff).text = NewText(script)

(* When lines came in front meanwhile, a diff whose blocks are each in the *)
(* file once either changes those blocks and nothing else, or nothing.     *)
DriftedDiffIsTheSame ==
  LET file == drift \o OldText(script)
      unique == \A i \in Firsts : Cardinality(Places(file, HunkOf(i).old)) = 1
                                    /\ HunkOf(i).old # <<>>
      r == ApplyUnifiedDiff(file, Diff)
  IN unique => r.failed \/ r.text = drift \o NewText(script)

(* One edit of a script with one change, which is the text of one place,   *)
(* is that change.                                                         *)
EditIsTheChange ==
  LET file == drift \o OldText(script) IN
  \A i \in Firsts :
    /\ Firsts = {i} /\ HunkOf(i).old # <<>>
    /\ Cardinality(Places(file, HunkOf(i).old)) = 1
    => LET r == SearchReplace(file, HunkOf(i).old, HunkOf(i).new)
       IN ~r.failed /\ r.text = drift \o NewText(script)

(* The same of an edit that goes through. Not a property of the code: an   *)
(* old text at two places that overlap counts once (patch.rs:100).         *)
AppliedEditIsTheChange ==
  LET file == drift \o OldText(script) IN
  \A i \in Firsts : Firsts = {i} =>
    LET r == SearchReplace(file, HunkOf(i).old, HunkOf(i).new)
    IN r.failed \/ r.text = drift \o NewText(script)

(* Whichever way a change is written, it makes the change or fails whole   *)
(* (but for texts that overlap).                                           *)
PatchIsTheChange == DiffGivesTarget /\ DriftedDiffIsTheSame /\ EditIsTheChange
=============================================================================
