------------------------------- MODULE EvalRuns -------------------------------
(***************************************************************************)
(* `rozu eval memory` (rozu-cli/src/eval/memory.rs): every scenario,       *)
(* condition and seed is run once and its row appended to the out file; a  *)
(* run that was rate limited, failed or killed is continued by --resume.   *)
(*                                                                         *)
(* A line of the file is the sequence of the pieces written on it: one row *)
(* is a valid line, anything else is skipped by its readers.  writeln      *)
(* writes the row and its newline apart.  Left out: what is measured, the  *)
(* waiting between runs, the summary on the terminal.                      *)
(***************************************************************************)
EXTENDS Naturals, Sequences, FiniteSets, SequencesExt

CONSTANTS
  Keys,      \* (scenario, condition, seed), in the order they are run
  MaxFaults  \* bound on runs killed, or whose row could not be written

VARIABLES
  lines,  \* of the out file, the last one not yet ended
  exists, \* the file
  pc,     \* "off", "next", "running", "row", "newline"
  done,   \* finished_runs
  at,     \* key in turn
  row,    \* of the run that ended: [key, status]
  over,   \* the last run went through every key
  faults  \* so far

vars == <<lines, exists, pc, done, at, row, over, faults>>

Row == [key : ToSet(Keys), status : {"ended", "rate_limited"}]
Torn == [key |-> Keys[1], status |-> "torn"]

(* Lines that parse as a row.                                              *)
Rows == {line[1] : line \in {l \in ToSet(lines) : Len(l) = 1 /\ l[1] # Torn}}

(* Variant: a rate-limited run counts as finished.                         *)
FinishedAny == {r.key : r \in Rows}
FinishedRuns == {r.key : r \in {q \in Rows : q.status # "rate_limited"}}

Init ==
  /\ lines = <<<<>>>> /\ exists = FALSE /\ pc = "off" /\ done = {} /\ at = 1
  /\ row = Torn /\ over = FALSE /\ faults = 0

(* Without --resume the file must not exist yet.                           *)
Start(resume) ==
  /\ pc = "off" /\ (resume \/ ~exists)
  /\ done' = IF resume THEN FinishedRuns ELSE {}
  /\ exists' = TRUE /\ pc' = "next" /\ at' = 1 /\ over' = FALSE
  /\ UNCHANGED <<lines, row, faults>>

Skip ==
  /\ pc = "next" /\ at <= Len(Keys) /\ Keys[at] \in done /\ at' = at + 1
  /\ UNCHANGED <<lines, exists, pc, done, row, over, faults>>

Begin ==
  /\ pc = "next" /\ at <= Len(Keys) /\ Keys[at] \notin done /\ pc' = "running"
  /\ UNCHANGED <<lines, exists, done, at, row, over, faults>>

(* run_one: a provider's error is a row; anything else that fails (the     *)
(* workspace, the agent) ends the command.  "ended" is ok or failed.       *)
RunOne(status) ==
  /\ pc = "running" /\ row' = [key |-> Keys[at], status |-> status] /\ pc' = "row"
  /\ UNCHANGED <<lines, exists, done, at, over, faults>>
CannotRun ==
  /\ pc = "running" /\ pc' = "off"
  /\ UNCHANGED <<lines, exists, done, at, row, over, faults>>

Put(piece) == [lines EXCEPT ![Len(lines)] = Append(@, piece)]

(* writeln: the row.  A rate limit stops the command after the newline.    *)
WriteRow ==
  /\ pc = "row" /\ lines' = Put(row) /\ pc' = "newline"
  /\ UNCHANGED <<exists, done, at, row, over, faults>>
EndLine ==
  /\ pc = "newline" /\ lines' = Append(lines, <<>>)
  /\ pc' = IF row.status = "rate_limited" THEN "off" ELSE "next"
  /\ at' = at + 1
  /\ UNCHANGED <<exists, done, row, over, faults>>

Finish ==
  /\ pc = "next" /\ at > Len(Keys) /\ pc' = "off" /\ over' = TRUE
  /\ UNCHANGED <<lines, exists, done, at, row, faults>>

(* The command is killed, or a write fails: the row in part, or whole.     *)
Die(torn) ==
  /\ pc # "off" /\ faults < MaxFaults /\ (torn => pc = "row")
  /\ lines' = IF torn THEN Put(Torn) ELSE lines
  /\ pc' = "off" /\ faults' = faults + 1
  /\ UNCHANGED <<exists, done, at, row, over>>

(* The bound on the file, for rate limits met again and again.             *)
FewLines == Len(lines) <= Len(Keys) + 2

Next ==
  /\ \/ \E resume \in BOOLEAN : Start(resume)
     \/ Skip \/ Begin \/ \E s \in {"ended", "rate_limited"} : RunOne(s)
     \/ CannotRun \/ WriteRow \/ EndLine \/ Finish
     \/ \E torn \in BOOLEAN : Die(torn)
  /\ FewLines'

Spec == Init /\ [][Next]_vars

-----------------------------------------------------------------------------
(* "Skip runs already in --out (rate-limited ones run again)": however     *)
(* often the command was stopped and resumed, no key has two finished      *)
(* rows, and once it has gone through the keys each of them has one, but   *)
(* for those on a line that a death left without its newline (two at most: *)
(* its own row and the next one); they are run when it is resumed again.   *)
Missing == ToSet(Keys) \ {r.key : r \in {q \in Rows : q.status = "ended"}}
RunsOnce ==
  /\ \A i, j \in DOMAIN lines : i # j /\ Len(lines[i]) = 1 /\ Len(lines[j]) = 1 =>
       \/ lines[i][1].key # lines[j][1].key
       \/ {lines[i][1].status, lines[j][1].status} \cap {"rate_limited", "torn"} # {}
  /\ pc = "off" /\ over => Cardinality(Missing) <= 2 * faults

-----------------------------------------------------------------------------
(* Why it does.  A line counts for its key as long as it is all that is on *)
(* it; no two lines count for one key, since a run begins only for a key   *)
(* that no line counts for.                                                *)
Counts(line) == Len(line) = 1 /\ line[1].status = "ended"
Counted == {lines[i][1].key : i \in {j \in DOMAIN lines : Counts(lines[j])}}
Unended == lines[Len(lines)] # <<>>
Before == {Keys[j] : j \in 1 .. (at - 1)}

EvalTypes ==
  /\ lines \in Seq(Seq(Row \cup {Torn})) /\ lines # <<>>
  /\ pc \in {"off", "next", "running", "row", "newline"} /\ over \in BOOLEAN
  /\ at \in Nat \ {0} /\ faults \in Nat
  /\ pc \in {"running", "row", "newline"} => at <= Len(Keys) /\ Keys[at] \notin done
  /\ pc \in {"row", "newline"} => row \in Row /\ row.key = Keys[at]
  /\ pc # "off" => exists /\ ~over
  /\ ~exists => lines = <<<<>>>>

EachOnce ==
  \A i, j \in DOMAIN lines :
    i # j /\ Counts(lines[i]) /\ Counts(lines[j]) => lines[i][1].key # lines[j][1].key
CountedOnce ==
  /\ EachOnce
  /\ pc \in {"next", "running", "row"} => Counted \subseteq done \cup Before
  /\ pc = "newline" => Counted \subseteq done \cup Before \cup {Keys[at]}

(* What this run has done or skipped counts, but for two keys: a line that *)
(* a death left without its newline takes the next row with it.            *)
Passed ==
  done \cup Before \cup (IF pc = "newline" /\ row.status = "ended" THEN {Keys[at]} ELSE {})
Lost(keys) ==
  /\ \E a, b \in ToSet(Keys) : keys \subseteq Counted \cup {a, b}
  /\ faults = 0 \/ (pc \in {"next", "running", "row"} /\ Unended) => keys \subseteq Counted
LittleLost ==
  /\ pc # "newline" /\ Unended => faults > 0
  /\ pc # "off" => Lost(Passed)
  /\ pc = "off" /\ over => Lost(ToSet(Keys))

EvalInv == EvalTypes /\ CountedOnce /\ LittleLost
=============================================================================
