---------------------------- MODULE StreamMappers ----------------------------
(***************************************************************************)
(* What the chat hears of a vendor's turn (rozu-cli-providers: Mapper of   *)
(* claude, codex and grok/protocol.rs).  The CLIs say most things twice:   *)
(* text piece by piece and then whole, a call when it begins and again     *)
(* when its message or its item is complete; lines of a sub-agent or of    *)
(* another thread come in between.  A mapper lives as long as its session, *)
(* over several turns.                                                     *)
(*                                                                         *)
(* An item is a text of Pieces pieces or a call; "foreign" ones belong to  *)
(* a sub-agent, another thread or another session.  The vendor's order     *)
(* (external): one message at a time streams; a text comes in pieces, all  *)
(* of them or none before it comes whole; Grok may repeat its updates.     *)
(* Codex names the items of each turn afresh.  Tokens are one counter.     *)
(***************************************************************************)
EXTENDS Naturals, FiniteSets

CONSTANTS
  Items,    \* the items of a turn
  Pieces,   \* pieces of a text
  MaxTurns, \* bound: turns of the session
  MaxTotal  \* bound: tokens of the session

VARIABLES
  cli,      \* "claude", "codex", "grok"
  kind,     \* of each item: "text", "call", "foreign"
  said, at, \* the vendor: pieces said; "new", "open", "whole" (a call's message), "over"
  current,  \* Mapper::current_message, 0 before the first message_start
  streamed, started, finished, \* the mapper's sets
  text, calls, results, \* of each item: pieces, announcements, results the chat heard
  turn, total,          \* the turn; the vendor's running token total
  latest, baseline,     \* Mapper::latest (0: None) and baseline
  reported              \* tokens the chat heard of, in all

vendor == <<cli, kind>>
heard == <<text, calls, results>>
tokens == <<total, latest, baseline, reported>>
vars == <<vendor, said, at, current, streamed, started, finished, heard, turn, tokens>>

None0 == [i \in Items |-> 0]

Init ==
  /\ cli \in {"claude", "codex", "grok"}
  /\ kind \in [Items -> {"text", "call", "foreign"}]
  /\ said = None0 /\ at = [i \in Items |-> "new"]
  /\ current = 0 /\ streamed = {} /\ started = {} /\ finished = {}
  /\ text = None0 /\ calls = None0 /\ results = None0
  /\ turn = 1 /\ total = 0 /\ latest = 0 /\ baseline = 0 /\ reported = 0

(* Variant: the lines of a sub-agent, or of another thread, count.         *)
OursAll(i) == TRUE
(* parent_tool_use_id, threadId, sessionId: such a line is ignored.        *)
Ours(i) == kind[i] # "foreign"

Counted(f, i, n) == [f EXCEPT ![i] = @ + n]

-----------------------------------------------------------------------------
(* Text.                                                                   *)
(* message_start; an item of the other CLIs opens without a line of its    *)
(* own.  A sub-agent's message may stream in the middle of another.        *)
Opens(i) ==
  /\ kind[i] # "call" /\ at[i] = "new"
  /\ kind[i] = "text" => ~\E j \in Items : kind[j] = "text" /\ at[j] = "open"
  /\ at' = [at EXCEPT ![i] = "open"]
  /\ current' = IF cli = "claude" /\ Ours(i) THEN i ELSE current
  /\ UNCHANGED <<vendor, said, streamed, started, finished, heard, turn, tokens>>

(* text_delta, agentMessage/delta, agent_message_chunk.  Claude's mapper   *)
(* notes the current message as streamed (mark_streamed), Codex's the item;*)
(* Grok never repeats a text.                                              *)
Piece(i) ==
  /\ at[i] = "open" /\ kind[i] # "call" /\ said[i] < Pieces
  /\ said' = [said EXCEPT ![i] = @ + 1]
  /\ IF Ours(i)
     THEN /\ text' = Counted(text, i, 1)
          /\ streamed' = CASE cli = "claude" -> streamed \cup ({current} \ {0})
                           [] cli = "codex" -> streamed \cup {i}
                           [] OTHER -> streamed
     ELSE UNCHANGED <<text, streamed>>
  /\ UNCHANGED <<vendor, at, current, started, finished, calls, results, turn, tokens>>

(* The whole text (assistant, item/completed): what the pieces gave is not *)
(* repeated.  Grok's text is over with its last piece.                     *)
Whole(i) ==
  /\ at[i] = "open" /\ kind[i] # "call"
  /\ said[i] \in IF cli = "grok" THEN {Pieces} ELSE {0, Pieces}
  /\ at' = [at EXCEPT ![i] = "over"]
  /\ text' = IF cli # "grok" /\ Ours(i) /\ i \notin streamed
             THEN Counted(text, i, Pieces) ELSE text
  /\ UNCHANGED <<vendor, said, current, streamed, started, finished, calls, results, turn, tokens>>

-----------------------------------------------------------------------------
(* Calls.                                                                  *)
(* content_block_start, item/started, a first tool_call: announced.  Only  *)
(* Grok's mapper asks whether it was already, and only Grok's may come     *)
(* again.                                                                  *)
Begins(i) ==
  /\ kind[i] = "call" /\ (at[i] = "new" \/ (cli = "grok" /\ at[i] # "new"))
  /\ at' = [at EXCEPT ![i] = IF @ = "new" THEN "open" ELSE @]
  /\ calls' = IF cli = "grok" /\ i \in started THEN calls ELSE Counted(calls, i, 1)
  /\ started' = started \cup {i}
  /\ UNCHANGED <<vendor, said, current, streamed, finished, text, results, turn, tokens>>

(* The message of the call, of Claude: announced unless it streamed.       *)
Message(i) ==
  /\ cli = "claude" /\ kind[i] = "call" /\ at[i] \in {"new", "open"}
  /\ at' = [at EXCEPT ![i] = "whole"]
  /\ calls' = IF i \in started THEN calls ELSE Counted(calls, i, 1)
  /\ started' = started \cup {i}
  /\ UNCHANGED <<vendor, said, current, streamed, finished, text, results, turn, tokens>>

(* The result: a user line of Claude, item/completed, an update with a     *)
(* final status, which Grok may repeat.  A call that is new is announced   *)
(* first.                                                                  *)
Ends(i) ==
  /\ kind[i] = "call"
  /\ CASE cli = "claude" -> at[i] = "whole"
       [] cli = "codex" -> at[i] \in {"new", "open"}
       [] OTHER -> TRUE
  /\ at' = [at EXCEPT ![i] = "over"]
  /\ calls' = IF cli # "claude" /\ i \notin started THEN Counted(calls, i, 1) ELSE calls
  /\ results' = IF cli = "grok" /\ i \in finished THEN results ELSE Counted(results, i, 1)
  /\ started' = IF cli = "claude" THEN started ELSE started \cup {i}
  /\ finished' = IF cli = "grok" THEN finished \cup {i} ELSE finished
  /\ UNCHANGED <<vendor, said, current, streamed, text, turn, tokens>>

-----------------------------------------------------------------------------
(* Tokens and turns.                                                       *)
(* thread/tokenUsage/updated, with the thread's running total; the others  *)
(* report a turn's own tokens at its end.                                  *)
Uses ==
  /\ total < MaxTotal
  /\ total' = total + 1
  /\ latest' = IF cli = "codex" THEN total + 1 ELSE latest
  /\ UNCHANGED <<vendor, said, at, current, streamed, started, finished, heard, turn,
                 baseline, reported>>

(* Variant: the totals are not carried from turn to turn.                  *)
UsageOfTotal == IF latest = 0 THEN 0 ELSE latest
(* turn/completed, however the turn ended: what came since the last one    *)
(* (usage_delta).                                                          *)
UsageOfTurn == IF latest = 0 THEN 0 ELSE latest - baseline

(* Variant: the sets are kept for the next turn.                           *)
StartTurnKeeping ==
  /\ UNCHANGED <<streamed, started>>
  /\ said' = None0 /\ at' = [i \in Items |-> "new"]
  /\ text' = None0 /\ calls' = None0 /\ results' = None0
(* Codex forgets the items of the turn (start_turn); the others' ids do    *)
(* not come again.                                                         *)
StartTurn ==
  IF cli = "codex"
  THEN /\ streamed' = {} /\ started' = {}
       /\ said' = None0 /\ at' = [i \in Items |-> "new"]
       /\ text' = None0 /\ calls' = None0 /\ results' = None0
  ELSE UNCHANGED <<streamed, started, said, at, heard>>

(* A turn ends when its items are complete (or were never said).           *)
EndTurn ==
  /\ \A i \in Items : at[i] \in {"new", "over"}
  /\ turn < MaxTurns /\ turn' = turn + 1
  /\ reported' = IF cli = "codex" THEN reported + UsageOfTurn ELSE total
  /\ baseline' = IF cli = "codex" /\ latest # 0 THEN latest ELSE baseline
  /\ StartTurn
  /\ UNCHANGED <<vendor, current, finished, total, latest>>

Next ==
  \/ \E i \in Items : Opens(i) \/ Piece(i) \/ Whole(i) \/ Begins(i) \/ Message(i) \/ Ends(i)
  \/ Uses \/ EndTurn

Spec == Init /\ [][Next]_vars

(* The chat hears every piece of the CLI's own text exactly once, and      *)
(* nothing of a sub-agent's or another thread's (Mapper::map).             *)
TextOnce ==
  \A i \in Items :
    text[i] = IF kind[i] # "text" THEN 0
              ELSE IF at[i] = "over" THEN Pieces ELSE said[i]

(* A call is announced once, as soon as it is known, and its result is     *)
(* heard once, after it.                                                   *)
CallsOnce ==
  \A i \in Items :
    /\ calls[i] = IF kind[i] = "call" /\ at[i] # "new" THEN 1 ELSE 0
    /\ results[i] = IF kind[i] = "call" /\ at[i] = "over" THEN 1 ELSE 0

(* No token is reported in two turns.                                      *)
TokensOnce == reported <= total

-----------------------------------------------------------------------------
(* Why it does: the types; that the mapper has noted a text as streamed    *)
(* exactly if pieces of it came, also Claude's, which notes the current    *)
(* message; that it has noted a call, and Grok's result, exactly if it     *)
(* came; and that Codex's turns so far made up the baseline.               *)
StreamTypes ==
  /\ cli \in {"claude", "codex", "grok"} /\ kind \in [Items -> {"text", "call", "foreign"}]
  /\ said \in [Items -> Nat] /\ at \in [Items -> {"new", "open", "whole", "over"}]
  /\ text \in [Items -> Nat] /\ calls \in [Items -> Nat] /\ results \in [Items -> Nat]
  /\ total \in Nat /\ latest \in Nat /\ baseline \in Nat /\ reported \in Nat

TextsNoted ==
  \A i \in Items :
    /\ at[i] = "new" => said[i] = 0
    /\ kind[i] = "text" /\ at[i] = "open" /\ cli = "claude" => current = i
    /\ kind[i] = "text" /\ at[i] \in {"new", "open"} /\ cli # "grok" =>
         (i \in streamed) = (said[i] > 0)

CallsNoted ==
  \A i \in Items :
    kind[i] = "call" =>
      /\ (i \in started) = (at[i] # "new")
      /\ cli = "grok" => (i \in finished) = (at[i] = "over")

TokensNoted ==
  IF cli = "codex" THEN reported = baseline /\ baseline <= latest /\ latest <= total
  ELSE reported <= total

StreamInv ==
  StreamTypes /\ TextsNoted /\ TextOnce /\ CallsNoted /\ CallsOnce /\ TokensNoted
=============================================================================
