-------------------------------- MODULE Pill --------------------------------
(***************************************************************************)
(* The activity pill over the events of a turn: the tracker folds them and *)
(* the debouncer paces what is shown (rozu-activity debounce.rs, composed  *)
(* as in replay.rs).  The calls of a turn may overlap, as they do when a   *)
(* vendor CLI calls rozu's tools over MCP.                                 *)
(*                                                                         *)
(* Time is counted in ticks; the host polls the debouncer at its deadline. *)
(* A decision names the call as its asker does: rozu's own loop uses the   *)
(* model's id of the call, rozu mcp-serve an id of its own (server.rs      *)
(* call_id), which no started call has.                                    *)
(***************************************************************************)
EXTENDS ActivityTracker

CONSTANTS
  Calls,    \* the tool calls of the turn, numbers from 1
  MinDwell, \* MIN_DWELL in ticks
  MaxTime   \* bound on the ticks

VARIABLES
  asker,    \* who decides: "loop" (rozu's own) or "mcp" (rozu mcp-serve)
  phase,    \* of each call: "new", "started", "asked", "yes" or "no" (answered),
             \* "allowed", "denied" (the decision is recorded), "finished"
  orb,      \* the tracker
  pill,     \* Debouncer: what is shown, since when, and {} or {the change held back}
  now,
  up        \* for how long the shown state has been up, whatever pill.since says

vars == <<asker, phase, orb, pill, now, up>>

Init ==
  /\ asker \in {"loop", "mcp"}
  /\ phase = [c \in Calls |-> "new"]
  /\ orb = NewTracker
  /\ pill = [shown |-> Idle, since |-> 0, queued |-> {}]
  /\ now = 0 /\ up = 0

-----------------------------------------------------------------------------
(* Debouncer.                                                              *)
Urgent == {"waiting", "done", "error", "offline"}

SameState(a, b) == a # Idle /\ b # Idle /\ a.state = b.state

ShowsAtOnce(p, next) ==
  \/ next = Idle \/ p.shown = Idle
  \/ SameState(p.shown, next)
  \/ next.state \in Urgent

(* Variant: a new label of the shown state forgets when the state began.   *)
ShowNowForgetsSince(p, next) ==
  [shown |-> next, since |-> IF SameState(p.shown, next) THEN 0 ELSE now, queued |-> {}]

ShowNow(p, next) ==
  [shown |-> next, since |-> IF SameState(p.shown, next) THEN p.since ELSE now, queued |-> {}]

(* Variant: an offer of what is shown leaves an older change held back.    *)
OfferKeepsQueued(p, next) ==
  IF next = p.shown THEN p
  ELSE IF ShowsAtOnce(p, next) \/ now - p.since >= MinDwell THEN ShowNow(p, next)
  ELSE [p EXCEPT !.queued = {next}]

Offer(p, next) ==
  IF next = p.shown THEN [p EXCEPT !.queued = {}]
  ELSE IF ShowsAtOnce(p, next) \/ now - p.since >= MinDwell THEN ShowNow(p, next)
  ELSE [p EXCEPT !.queued = {next}]

Due == pill.queued # {} /\ now >= pill.since + MinDwell

Observed(p) == IF p.shown = pill.shown \/ SameState(p.shown, pill.shown) THEN up ELSE 0

(* poll, at the deadline.                                                  *)
Poll ==
  /\ Due
  /\ pill' = ShowNow(pill, CHOOSE next \in pill.queued : TRUE)
  /\ up' = Observed(pill')
  /\ UNCHANGED <<asker, phase, orb, now>>

Tick ==
  /\ ~Due /\ now < MaxTime
  /\ now' = now + 1 /\ up' = up + 1
  /\ UNCHANGED <<asker, phase, orb, pill>>

(* One event: the tracker, then the debouncer (replay.rs).                 *)
Apply(e) ==
  /\ ~Due
  /\ orb' = Applied(orb, e)
  /\ pill' = Offer(pill, orb'.current)
  /\ up' = Observed(pill')
  /\ UNCHANGED <<asker, now>>

-----------------------------------------------------------------------------
(* The turn's events.                                                      *)
Event(type, id, outcome, tool) == [type |-> type, id |-> id, outcome |-> outcome, tool |-> tool]

(* The id by which a decision names its call.                              *)
DecisionId(c) == IF asker = "loop" THEN c ELSE -c

CallMoves(c, from, to) == phase[c] \in from /\ phase' = [phase EXCEPT ![c] = to]

Text == Apply(Event("text", 0, "ok", "unknown")) /\ UNCHANGED phase

Started(c, tool) ==
  CallMoves(c, {"new"}, "started") /\ Apply(Event("started", c, "ok", tool))

Asked(c) ==
  CallMoves(c, {"started"}, "asked") /\ Apply(Event("pending", DecisionId(c), "ok", "unknown"))

Resolved(c, answer) ==
  /\ CallMoves(c, {"asked"}, IF answer = "approved" THEN "yes" ELSE "no")
  /\ Apply(Event("resolved", DecisionId(c), answer, "unknown"))

(* The decision's record, of an answer or of a rule or the mode.           *)
Decided(c, decision) ==
  /\ phase[c] # "started" => phase[c] = IF decision = "approved" THEN "yes" ELSE "no"
  /\ CallMoves(c, {"started", "yes", "no"}, IF decision = "approved" THEN "allowed" ELSE "denied")
  /\ Apply(Event("approval", DecisionId(c), decision, "unknown"))

Finished(c, outcome) ==
  /\ phase[c] = "denied" => outcome = "error"
  /\ CallMoves(c, {"started", "allowed", "denied"}, "finished")
  /\ Apply(Event("finished", c, outcome, "unknown"))

(* The end of the turn; the next one may announce the same calls.          *)
Ended(type, outcome) ==
  /\ phase' = [c \in Calls |-> "new"]
  /\ Apply(Event(type, 0, outcome, "unknown"))

Ends == {<<"completed", "ok">>, <<"max_steps", "ok">>, <<"cancelled", "ok">>,
         <<"failed", "error">>, <<"failed", "offline">>}

Next ==
  \/ Tick \/ Poll \/ Text
  \/ \E c \in Calls :
       \/ \E tool \in {"reading", "editing", "unknown"} : Started(c, tool)
       \/ Asked(c)
       \/ \E answer \in {"approved", "denied", "expired"} : Resolved(c, answer)
       \/ \E decision \in {"approved", "denied"} : Decided(c, decision)
       \/ \E outcome \in {"ok", "error"} : Finished(c, outcome)
  \/ \E end \in Ends : Ended(end[1], end[2])

Spec == Init /\ [][Next]_vars

-----------------------------------------------------------------------------
(* While any call waits for the user the pill says so, at once: calls that *)
(* overlap with the prompt do not hide it and the dwell never holds it     *)
(* back (debounce.rs rule 1).  The tracker waits for no other reason.      *)
PromptShown ==
  LET asked == \E c \in Calls : phase[c] = "asked" IN
  /\ asked <=> IsWaiting(orb)
  /\ asked => pill.shown # Idle /\ pill.shown.state = "waiting"

(* What the tracker says is shown, or held back and due within the dwell:  *)
(* the pill never stays on an activity that is over (debounce.rs rule 3).  *)
PillCatchesUp ==
  \/ pill.shown = orb.current /\ pill.queued = {}
  \/ pill.queued = {orb.current} /\ now <= pill.since + MinDwell

(* A working state stays up for the dwell before another working state     *)
(* replaces it, however many changes were offered and whether they come by *)
(* the offer or by the poll.                                               *)
NoFlicker ==
  [][LET before == pill.shown  after == pill'.shown IN
       before # Idle /\ after # Idle /\ ~SameState(before, after) /\ after.state \notin Urgent
         => up >= MinDwell]_vars
=============================================================================
