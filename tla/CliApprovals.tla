---------------------------- MODULE CliApprovals ----------------------------
(***************************************************************************)
(* What rozu answers when a vendor's CLI asks for permission: Codex        *)
(* (rozu-cli-providers codex/approvals.rs), Grok (grok/permissions.rs) and *)
(* Claude (rozu-mcp claude.rs, server.rs approve).                         *)
(*                                                                         *)
(* A request is a record of what decides the answer.  "place" is where a   *)
(* path leads: inside the workspace, outside, or to its protected          *)
(* directory; the risk of a command is the classifier's (CommandRisk) and  *)
(* its wrapping is in ShellWords.  Grok's requests are also answered while  *)
(* a turn is cancelled, without the user.                                  *)
(***************************************************************************)
EXTENDS ApprovalPolicy, Sequences, Integers

VARIABLES
  ask,    \* the request
  mode,   \* the approval mode
  user,   \* what the user answers if asked, or "cancelled": the turn is
  answer  \* {} or {what rozu answered}

vars == <<ask, mode, user, answer>>

Place == {"inside", "outside", "protected"}
Answers == {"approve", "always", "unsandboxed", "deny", "cancelled"}

(* One change of a patch; a move has a second path.                        *)
Change == [path : Place, move : Place \cup {"none"}, deletes : BOOLEAN]

(* The legacy request names no host.                                       *)
CodexCommand ==
  {r \in [by : {"codex"}, what : {"command"}, legacy : BOOLEAN, named : BOOLEAN, risk : Risk,
          cwd : {"inside", "outside"}, reason : BOOLEAN, host : BOOLEAN,
          rule : Rules \cup {NoRule}, huge : BOOLEAN] : r.legacy => ~r.host}

CodexPatch ==
  [by : {"codex"}, what : {"patch"}, legacy : BOOLEAN,
   changes : {{}} \cup {{c} : c \in Change} \cup
             {{c, [path |-> "inside", move |-> "none", deletes |-> FALSE]} : c \in Change},
   grant : BOOLEAN, huge : BOOLEAN]

CodexOther ==
  [by : {"codex"}, what : {"permissions"}, network : BOOLEAN, writes : BOOLEAN] \cup
  [by : {"codex"}, what : {"elicitation"}, server : {"rozu", "other"}, form : BOOLEAN,
   empty : BOOLEAN, approval : BOOLEAN, tool : {"registered", "unknown"}] \cup
  [by : {"codex"}, what : {"dynamic_tool", "auth_tokens", "unknown"}]

(* How a Grok request names what it is for: use_tool with the tool it      *)
(* would call, or with none but announced before, or a tool's own name.    *)
GrokRequest ==
  [by : {"grok"}, what : {"permission"},
   name : {"use_tool", "rozu_name", "other_name"},
   target : {"registered", "unknown", "not_rozus", "none"},
   announced : {"registered", "unknown", "not_rozus", "none"},
   options : SUBSET {"allow_once", "allow_always", "reject_once"}] \cup
  [by : {"grok"}, what : {"unknown"}]

ClaudeRequest ==
  [by : {"claude"}, what : {"rozu_tool", "shell", "network", "unknown"}] \cup
  [by : {"claude"}, what : {"read"}, place : {"inside", "outside"}] \cup
  [by : {"claude"}, what : {"write"}, place : Place \cup {"none"}]

Requests == CodexCommand \cup CodexPatch \cup CodexOther \cup GrokRequest \cup ClaudeRequest

-----------------------------------------------------------------------------
(* Decisions.  A decision says who made it and what it was.                *)
Order == <<"read", "write", "outside", "network", "opaque", "destructive">>

Rank(risk) == CHOOSE i \in 1 .. Len(Order) : Order[i] = risk
RiskMax(risks) == CHOOSE r \in risks : \A s \in risks : Rank(s) <= Rank(r)

Made(decision, source) == [decision |-> decision, source |-> source]

(* ask_gate: a preview that cannot be shown whole is refused.              *)
AskGate(huge) ==
  IF huge THEN Made("deny", "policy")
  ELSE IF user = "cancelled" THEN Made("deny", "cancelled") ELSE Made(user, "gate")

(* OneTimeGate: "u" is the one-time approval it is for Codex's own.        *)
OneTime(d) == IF d.decision = "unsandboxed" THEN Made("approve", d.source) ELSE d

(* ask_user: whatever the mode; "always" stores nothing.                   *)
AskUser(huge) ==
  LET d == AskGate(huge) IN IF d.decision = "always" THEN Made("approve", d.source) ELSE d

(* decide; the kind is what the policy sees of the request.                *)
Decide(kind, enforced, rules) ==
  IF AutoApproval(kind, mode, enforced, rules) # {}
  THEN Made("approve", CHOOSE s \in AutoApproval(kind, mode, enforced, rules) : TRUE)
  ELSE AskGate(kind.huge)

Approves(d) == d.decision # "deny"

(* The answer and the log entry that go with a decision.                   *)
Reply(yes, no, d) ==
  [reply |-> IF Approves(d) THEN yes ELSE no, log |-> d]

Denied(no) == Reply("", no, Made("deny", "policy"))

Delegated(yes) == Reply(yes, "", Made("approve", "delegated"))

-----------------------------------------------------------------------------
(* Codex.                                                                  *)
(* decision_reply.                                                         *)
Accept(legacy) == IF legacy THEN "approved" ELSE "accept"
Decline(legacy, d) ==
  IF d.source = "cancelled" THEN IF legacy THEN "abort" ELSE "cancel"
  ELSE IF legacy THEN "denied" ELSE "decline"

Decided(legacy, d) == Reply(Accept(legacy), Decline(legacy, d), d)

CommandRiskOf(r) ==
  RiskMax({r.risk} \cup (IF r.host THEN {"network"} ELSE {}) \cup
          (IF r.cwd = "outside" THEN {"outside"} ELSE {}))

(* Variant: a reason Codex gives does not make the request an escalation.  *)
EscalatesIgnoringReason(r) == r.host \/ r.cwd = "outside"

(* An escalation goes to the user whatever the mode says.                  *)
Escalates(r) == r.host \/ r.cwd = "outside" \/ r.reason

CommandAnswer(r) ==
  IF ~r.named THEN Decided(r.legacy, Made("deny", "policy"))
  ELSE IF Escalates(r) THEN Decided(r.legacy, OneTime(AskUser(r.huge)))
  ELSE Decided(r.legacy, OneTime(Decide(
         [risk |-> CommandRiskOf(r), sandboxed |-> TRUE, network |-> r.host,
          rule |-> r.rule, huge |-> r.huge], TRUE, Rules)))

(* Variant: only the path a file is moved from is looked at.               *)
PathsFromOnly(c) == {c.path}

Paths(c) == {c.path} \cup ({c.move} \ {"none"})

(* Every path of every change; the root it asks for is never granted.      *)
PatchAnswer(r) ==
  LET paths == UNION {Paths(c) : c \in r.changes}
      risk == RiskMax({"write"} \cup (IF "outside" \in paths \/ r.grant THEN {"outside"} ELSE {})
                      \cup (IF \E c \in r.changes : c.deletes THEN {"destructive"} ELSE {}))
  IN IF r.changes = {} \/ "protected" \in paths THEN Decided(r.legacy, Made("deny", "policy"))
     ELSE IF r.grant THEN Decided(r.legacy, OneTime(AskUser(r.huge)))
     ELSE Decided(r.legacy, OneTime(Decide(
            [risk |-> risk, sandboxed |-> FALSE, network |-> FALSE, rule |-> NoRule,
             huge |-> r.huge], TRUE, Rules)))

(* More permissions for this turn are never granted without the user.      *)
PermissionsAnswer(r) == Reply("granted_for_turn", "none_granted", OneTime(AskUser(FALSE)))

(* rozu_tool_approval: only the prompt for one of rozu's own tools, whose  *)
(* call rozu mcp-serve decides when it runs.                               *)
ElicitationAnswer(r) ==
  IF r.server = "rozu" /\ r.form /\ r.empty /\ r.approval /\ r.tool = "registered"
  THEN Delegated("accept") ELSE Denied("decline")

CodexAnswer(r) ==
  CASE r.what = "command" -> CommandAnswer(r)
    [] r.what = "patch" -> PatchAnswer(r)
    [] r.what = "permissions" -> PermissionsAnswer(r)
    [] r.what = "elicitation" -> ElicitationAnswer(r)
    [] r.what \in {"dynamic_tool", "auth_tokens", "unknown"} -> Denied("error")

-----------------------------------------------------------------------------
(* Grok.                                                                   *)
(* target: the tool a request is for.                                      *)
GrokTarget(r) ==
  CASE r.name = "other_name" -> "not_rozus"
    [] r.name = "rozu_name" -> r.target
    [] r.name = "use_tool" /\ r.target # "none" -> r.target
    [] r.name = "use_tool" /\ r.target = "none" -> r.announced

(* Variant: the session-wide option is taken when there is no other.       *)
GrokAnswerForSession(r) ==
  IF r.what = "unknown" THEN Denied("error")
  ELSE LET no == IF user = "cancelled" \/ "reject_once" \notin r.options
                 THEN "cancelled" ELSE "reject_once"
       IN IF user = "cancelled" THEN Reply("", no, Made("deny", "cancelled"))
          ELSE IF GrokTarget(r) # "registered" \/ r.options \cap {"allow_once", "allow_always"} = {}
          THEN Denied(no)
          ELSE Delegated(IF "allow_once" \in r.options THEN "allow_once" ELSE "allow_always")

GrokAnswer(r) ==
  IF r.what = "unknown" THEN Denied("error")
  ELSE LET no == IF user = "cancelled" \/ "reject_once" \notin r.options
                 THEN "cancelled" ELSE "reject_once"
       IN IF user = "cancelled" THEN Reply("", no, Made("deny", "cancelled"))
          ELSE IF GrokTarget(r) # "registered" \/ "allow_once" \notin r.options
          THEN Denied(no) ELSE Delegated("allow_once")

-----------------------------------------------------------------------------
(* Claude, for tools of its own; rozu's tools are decided, and logged,     *)
(* when they run.                                                          *)
ClaudeDecided(d) == Reply("allow", "deny", d)

Builtin(risk, network) ==
  [risk |-> risk, sandboxed |-> TRUE, network |-> network, rule |-> NoRule, huge |-> FALSE]

ClaudeAnswer(r) ==
  CASE r.what = "rozu_tool" -> Delegated("allow")
    [] r.what = "read" /\ r.place = "inside" ->
         ClaudeDecided(Decide(Builtin("read", FALSE), FALSE, Rules))
    [] r.what = "read" /\ r.place = "outside" -> ClaudeDecided(AskGate(FALSE))
    [] r.what = "write" /\ r.place \in {"inside", "outside"} ->
         ClaudeDecided(Decide(Builtin(IF r.place = "inside" THEN "write" ELSE "outside", FALSE),
                              FALSE, Rules))
    [] r.what = "network" -> ClaudeDecided(Decide(Builtin("network", TRUE), FALSE, Rules))
    [] OTHER -> Denied("deny")

-----------------------------------------------------------------------------
Init ==
  /\ ask \in Requests /\ mode \in Mode /\ user \in Answers
  /\ answer = {}

Respond ==
  /\ answer = {}
  /\ answer' = {CASE ask.by = "codex" -> CodexAnswer(ask)
                  [] ask.by = "grok" -> GrokAnswer(ask)
                  [] ask.by = "claude" -> ClaudeAnswer(ask)}
  /\ UNCHANGED <<ask, mode, user>>

Next == Respond

Spec == Init /\ [][Next]_vars

(* Whatever makes a Codex request more than the sandboxed call of its risk *)
(* class (a host, a directory outside, a reason, a root, permissions) is   *)
(* answered yes only if the user said so, in every mode.                   *)
EscalationsAsked ==
  \A a \in answer :
    /\ ask.by = "codex"
    /\ \/ ask.what = "command" /\ (ask.host \/ ask.reason \/ ask.cwd = "outside")
       \/ ask.what = "patch" /\ ask.grant
       \/ ask.what = "permissions"
    /\ Approves(a.log)
    => user \in {"approve", "always", "unsandboxed"}

(* No mode, rule or user lets a CLI write the protected directory with a   *)
(* tool of its own, by whichever of a change's paths.                      *)
ProtectedRefused ==
  \A a \in answer :
    \/ ask.what = "patch" /\ \E c \in ask.changes : "protected" \in {c.path, c.move}
    \/ ask.what = "write" /\ ask.place = "protected"
    => a.log.decision = "deny"

(* What was not decided by the policy or the user runs only through rozu's *)
(* own server, which decides it then; and what is said to the CLI holds    *)
(* for this one call.                                                      *)
DelegatedToServer ==
  \A a \in answer :
    /\ a.log.source = "delegated" =>
         \/ ask.what = "rozu_tool"
         \/ ask.what = "elicitation" /\ ask.tool = "registered" /\ ask.server = "rozu"
         \/ ask.what = "permission" /\ GrokTarget(ask) = "registered"
    /\ a.reply # "allow_always"
-----------------------------------------------------------------------------
(* Why it does: an answer that says yes to more than the sandboxed call of *)
(* its class was decided by the user, and no decision is marked as         *)
(* delegated but those of Delegated.                                       *)
Deciders == {"mode", "rule", "gate", "policy", "cancelled"}
Fits(a) ==
  /\ /\ ask.by = "codex" /\ Approves(a.log)
     /\ \/ ask.what = "command" /\ (ask.host \/ ask.reason \/ ask.cwd = "outside")
        \/ ask.what = "patch" /\ ask.grant
        \/ ask.what = "permissions"
     => user \in {"approve", "always", "unsandboxed"}
  /\ \/ ask.what = "patch" /\ \E c \in ask.changes : "protected" \in {c.path, c.move}
     \/ ask.what = "write" /\ ask.place = "protected"
     => a.log.decision = "deny"
  /\ a.log.source = "delegated" =>
       \/ ask.what = "rozu_tool"
       \/ ask.what = "elicitation" /\ ask.tool = "registered" /\ ask.server = "rozu"
       \/ ask.what = "permission" /\ GrokTarget(ask) = "registered"
  /\ a.reply # "allow_always"

AnswersFit ==
  /\ ask \in Requests /\ mode \in Mode /\ user \in Answers
  /\ \A a \in answer : Fits(a)
=============================================================================
