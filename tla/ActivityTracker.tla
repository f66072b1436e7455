-------------------------- MODULE ActivityTracker --------------------------
(***************************************************************************)
(* rozu-activity: how the events of a turn fold into the one activity that *)
(* a chat's orb shows (events.rs ActivityTracker).  Pure operators on a    *)
(* record; the desktop app keeps one tracker per chat (AppChat), and the   *)
(* pill paces what a tracker shows (Pill).                                 *)
(*                                                                         *)
(* An activity is its state, its label's text and what it names: the call  *)
(* that it is about (0 for none), or the number of files written.  Of a    *)
(* tool only the state of its name is kept (tool_state), "unknown" for a   *)
(* name without one.                                                       *)
(***************************************************************************)
EXTENDS Integers, FiniteSets

CONSTANT Idle   \* no activity: no turn yet, or the turn was cancelled

(* ActivityState, and the text of an activity's label.                     *)
ActivityStates ==
  {"thinking", "reading", "searching", "editing", "running", "waiting", "done", "error", "offline"}
Labels == {"Thinking", "Tool", "Waiting for approval", "Tool failed", "Done", "Step limit reached",
           "Offline", "Request failed"}
Activities == [state : ActivityStates, label : Labels, about : Int]

(* None is not an activity.                                                *)
ASSUME IdleAssumption == Idle \notin Activities

ToolStates == {"reading", "searching", "editing", "running", "unknown"}

Activity(state, label, about) == [state |-> state, label |-> label, about |-> about]

Thinking == Activity("thinking", "Thinking", 0)

(* tool_state and tool_label: an unknown tool only shows as thinking.      *)
ToolActivity(e) ==
  IF e.tool = "unknown" THEN Thinking ELSE Activity(e.tool, "Tool", e.id)

NewTracker ==
  [current |-> Idle, tool |-> Idle, before_wait |-> Idle,
   pending |-> {}, denied |-> {}, files |-> {}]

IsWaiting(t) == t.current # Idle /\ t.current.state = "waiting"

(* end_turn: whatever the turn left open is gone.                          *)
EndTurn(t) ==
  [t EXCEPT !.tool = Idle, !.before_wait = Idle,
            !.pending = {}, !.denied = {}, !.files = {}]

(* close_prompt: the last open prompt gives way to the running tool, else  *)
(* to what it replaced.                                                    *)
ClosePrompt(t, id) ==
  LET left == t.pending \ {id} IN
  IF id \notin t.pending \/ left # {} \/ ~IsWaiting(t) THEN [t EXCEPT !.pending = left]
  ELSE [t EXCEPT !.pending = left, !.before_wait = Idle,
                 !.current = IF t.tool # Idle THEN t.tool
                             ELSE IF t.before_wait # Idle THEN t.before_wait
                             ELSE Thinking]

(* Variant: a denial is not remembered.                                    *)
DeniedForgotten(t, id, deny) == t

Denied(t, id, deny) == IF deny THEN [t EXCEPT !.denied = @ \cup {id}] ELSE t

(* Variant: the turn's progress hides an open prompt.                      *)
ShowOverPrompt(t, activity) == [t EXCEPT !.current = activity]

(* While a prompt is open the turn's progress is only remembered.          *)
Show(t, activity) ==
  IF t.pending # {} THEN [t EXCEPT !.before_wait = activity]
  ELSE [t EXCEPT !.current = activity]

(* apply, one case per event.                                              *)
Applied(t, e) ==
  CASE e.type = "text" ->
         IF t.current # Idle /\ t.current.state = "thinking" THEN t ELSE Show(t, Thinking)
    [] e.type = "started" ->
         Show([t EXCEPT !.tool = ToolActivity(e),
                        !.files = IF e.tool = "editing" THEN @ \cup {e.id} ELSE @],
              ToolActivity(e))
    [] e.type = "pending" ->
         [t EXCEPT !.pending = @ \cup {e.id},
                   !.before_wait = IF IsWaiting(t) THEN @ ELSE t.current,
                   !.current = Activity("waiting", "Waiting for approval",
                                        IF t.tool # Idle THEN t.tool.about ELSE e.id)]
    [] e.type = "resolved" -> ClosePrompt(Denied(t, e.id, e.outcome = "denied"), e.id)
    [] e.type = "approval" -> ClosePrompt(Denied(t, e.id, e.outcome = "denied"), e.id)
    [] e.type = "finished" ->
         Show([t EXCEPT !.tool = Idle,
                        !.denied = IF e.outcome = "error" THEN @ \ {e.id} ELSE @],
              IF e.outcome = "error" /\ e.id \notin t.denied THEN Activity("error", "Tool failed", e.id)
              ELSE Thinking)
    [] e.type = "completed" ->
         [EndTurn(t) EXCEPT !.current = Activity("done", "Done", Cardinality(t.files))]
    [] e.type = "max_steps" ->
         [EndTurn(t) EXCEPT !.current = Activity("error", "Step limit reached", 0)]
    [] e.type = "cancelled" -> [EndTurn(t) EXCEPT !.current = Idle]
    [] e.type = "failed" ->
         [EndTurn(t) EXCEPT !.current = IF e.outcome = "offline" THEN Activity("offline", "Offline", 0)
                                        ELSE Activity("error", "Request failed", 0)]
    [] OTHER -> t
=============================================================================
