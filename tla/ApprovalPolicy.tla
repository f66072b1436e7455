--------------------------- MODULE ApprovalPolicy ---------------------------
(***************************************************************************)
(* The approval policy of rozu-core/src/approval.rs as operators: which    *)
(* calls run without asking, under which confinement, and what an "always  *)
(* allow" answer stores.                                                   *)
(*                                                                         *)
(* A kind describes a tool call as the policy sees it: its risk class,     *)
(* whether the tool runs under the OS sandbox, whether it wants the        *)
(* network, the rule that covers it (NoRule if the tool offers none), and  *)
(* whether its preview exceeds 2 MiB.                                      *)
(***************************************************************************)
EXTENDS FiniteSets

CONSTANTS NoRule, Rules

Mode == {"read_only", "auto", "full"}
Risk == {"read", "write", "outside", "network", "destructive", "opaque"}
Sandbox == {"enforced", "off", "in_process"}

Kind == [risk : Risk, sandboxed : BOOLEAN, network : BOOLEAN,
         rule : Rules \cup {NoRule}, huge : BOOLEAN]

(* confinement: sandboxed tools run under the OS sandbox in every mode,    *)
(* where there is one.                                                     *)
Confinement(kind, enforced) ==
  IF ~kind.sandboxed THEN "in_process" ELSE IF enforced THEN "enforced" ELSE "off"

(* allow_rule: what "always allow" would store for this call.              *)
AllowRule(kind, mode) ==
  IF kind.risk \in {"destructive", "opaque", "network"} \/ mode = "read_only"
  THEN NoRule ELSE kind.rule

(* A network grant (only under a sandbox) never uses or makes rules.       *)
NetworkGrant(kind, enforced) == kind.network /\ Confinement(kind, enforced) = "enforced"

(* Variant: a rule also covers the call when it gets network access.       *)
MatchesRuleOnly(kind, enforced, rules) == kind.risk # "network" /\ kind.rule \in rules

MatchesRule(kind, enforced, rules) ==
  kind.risk # "network" /\ ~NetworkGrant(kind, enforced) /\ kind.rule \in rules

(* Variant: auto mode trusts workspace writes that nothing confines.       *)
AutoApprovalUnconfined(kind, mode, enforced, rules) ==
  IF kind.risk = "read" \/ (kind.risk = "write" /\ mode # "read_only") THEN {"mode"} ELSE {}

(* Variant: the rules are asked before the mode.                           *)
AutoApprovalRulesFirst(kind, mode, enforced, rules) ==
  IF MatchesRule(kind, enforced, rules) THEN {"rule"}
  ELSE IF kind.risk = "read" \/ mode = "full" THEN {"mode"} ELSE {}

(* auto_approval: who approves the call without asking, as a set of at     *)
(* most one.  Destructive and opaque calls are always asked about.         *)
AutoApproval(kind, mode, enforced, rules) ==
  CASE kind.risk \in {"destructive", "opaque"} -> {}
    [] kind.risk = "read" -> {"mode"}
    [] kind.risk \in {"write", "outside", "network"} ->
         CASE mode = "read_only" -> {}
           [] mode = "full" -> {"mode"}
           [] mode = "auto" ->
                IF kind.risk = "write" /\ Confinement(kind, enforced) # "off" THEN {"mode"}
                ELSE IF MatchesRule(kind, enforced, rules) THEN {"rule"} ELSE {}

(* remember: the rules after an "always allow" answer.                     *)
Remembered(rules, kind, mode, enforced) ==
  IF AllowRule(kind, mode) = NoRule \/ NetworkGrant(kind, enforced) THEN rules
  ELSE rules \cup {AllowRule(kind, mode)}
=============================================================================
