------------------------------ MODULE Compact ------------------------------
(***************************************************************************)
(* The message-list algorithms of context compaction                       *)
(* (rozu-core/src/compact.rs) as pure operators.  A message is a record    *)
(* with at least a "role"; a summary is a system message that starts with  *)
(* the summary header and is given a role of its own here.  Positions are  *)
(* 1-based: RecentStart is the position of the first kept message, one     *)
(* past the end when there is nothing to keep.                             *)
(***************************************************************************)
EXTENDS Integers, Sequences, FiniteSets

Role == {"system", "summary", "user", "assistant", "tool", "stub"}

(* A leading system message that is not a summary: system prompt or memory. *)
Pinned(m) == m.role = "system"

PinnedLen(msgs) ==
  CHOOSE n \in 0..Len(msgs) :
    /\ \A i \in 1..n : Pinned(msgs[i])
    /\ n < Len(msgs) => ~Pinned(msgs[n + 1])

(* What the pinned prefix leaves: the conversation proper. *)
Conversation(msgs) == SubSeq(msgs, PinnedLen(msgs) + 1, Len(msgs))

UserPositions(msgs) == {i \in 1..Len(msgs) : msgs[i].role = "user"}

(* The keep-th last user message, the first one when there are fewer, and  *)
(* the end of the list when there is none at all (or keep is 0).           *)
RecentStart(msgs, keep) ==
  LET users  == UserPositions(msgs)
      recent == {i \in users : Cardinality({j \in users : j >= i}) <= keep}
  IN  IF recent = {} THEN Len(msgs) + 1
      ELSE CHOOSE i \in recent : \A j \in recent : i <= j

(* mask_tool_outputs: long tool outputs before the recent turns become     *)
(* stubs.  A "tool" message stands for one long enough to be masked.       *)
MaskToolOutputs(msgs, end) ==
  [i \in DOMAIN msgs |->
     IF i < end /\ msgs[i].role = "tool" THEN [msgs[i] EXCEPT !.role = "stub"]
     ELSE msgs[i]]

(* Variant: off by one, the first recent user message is summarized too.   *)
SummaryEndTooFar(msgs, keep) ==
  IF RecentStart(msgs, keep) <= Len(msgs) THEN RecentStart(msgs, keep) + 1
  ELSE Len(msgs) + 1

(* Agent::summarize: the messages between the pinned prefix and the recent *)
(* turns, if there are at least two, are replaced by one summary.          *)
SummaryEnd(msgs, keep) ==
  IF RecentStart(msgs, keep) > PinnedLen(msgs) THEN RecentStart(msgs, keep)
  ELSE PinnedLen(msgs) + 1

CanSummarize(msgs, keep) == SummaryEnd(msgs, keep) - (PinnedLen(msgs) + 1) >= 2

Summarized(msgs, keep, summary) ==
  SubSeq(msgs, 1, PinnedLen(msgs))
    \o <<summary>> \o SubSeq(msgs, SummaryEnd(msgs, keep), Len(msgs))

(* context.rs set_system: a new prompt and memory replace the old prefix.  *)
SetSystem(msgs, prompt) == prompt \o Conversation(msgs)
============================================================================
