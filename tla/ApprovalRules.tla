--------------------------- MODULE ApprovalRules ---------------------------
(***************************************************************************)
(* A project's "always allow" rules on disk (ApprovalRules and             *)
(* ApprovalPolicy in rozu-core/src/approval.rs), shared by the processes   *)
(* that work on the project: each rozu chat, each chat of the desktop app  *)
(* and each rozu mcp-serve loads them once and keeps a copy of its own.    *)
(*                                                                         *)
(* A rule stands for the calls it covers; only calls that an "always"      *)
(* answer may cover are modelled (the others store nothing, see            *)
(* ApprovalPolicy).  A policy's lock is held from the change to the end of *)
(* the save, so a process saves one rule at a time.                        *)
(***************************************************************************)
EXTENDS Naturals

CONSTANTS
  Procs,     \* processes that work on the project
  Rules,     \* rules that can be granted
  NoCall,    \* no call is being decided
  MaxFaults  \* bound on failed saves

ASSUME RulesAssumption == NoCall \notin Rules /\ MaxFaults \in Nat

VARIABLES
  stored,  \* the rules in the file; empty when there is none
  policy,  \* the rules of each process's ApprovalPolicy
  temp,    \* what each process wrote to its temporary file
  pc,      \* "out", "ready", "asking" or "saving"
  call,    \* the rule that covers the call each process is deciding
  ran,     \* history: calls that ran, [rule, by]
  granted, \* history: rules the user answered "always" to
  kept,    \* history: rules whose save succeeded
  shared,  \* history: two processes worked on the project at once
  faults   \* saves that failed (bound only)

vars == <<stored, policy, temp, pc, call, ran, granted, kept, shared, faults>>

Init ==
  /\ stored = {} /\ granted = {} /\ kept = {} /\ ran = {} /\ faults = 0
  /\ shared = FALSE
  /\ policy = [p \in Procs |-> {}] /\ temp = [p \in Procs |-> {}]
  /\ call = [p \in Procs |-> NoCall]
  /\ pc = [p \in Procs |-> "out"]

Goto(p, label) == pc' = [pc EXCEPT ![p] = label]

(* ApprovalPolicy::for_project loads the rules once.                       *)
Open(p) ==
  /\ pc[p] = "out"
  /\ policy' = [policy EXCEPT ![p] = stored]
  /\ shared' = (shared \/ \E q \in Procs : pc[q] # "out")
  /\ Goto(p, "ready")
  /\ UNCHANGED <<stored, temp, call, ran, granted, kept, faults>>

(* auto_approval: a covered call runs, another one is asked about.         *)
Covered(p, rule) ==
  /\ pc[p] = "ready" /\ rule \in policy[p]
  /\ ran' = ran \cup {[rule |-> rule, by |-> "rule"]}
  /\ UNCHANGED <<stored, policy, temp, pc, call, granted, kept, shared, faults>>

(* Variant: the request is asked about without the rule it offers.         *)
AskedWithoutRule(p, rule) ==
  /\ pc[p] = "ready" /\ rule \notin policy[p]
  /\ Goto(p, "asking")
  /\ UNCHANGED <<stored, policy, temp, call, ran, granted, kept, shared, faults>>

Asked(p, rule) ==
  /\ pc[p] = "ready" /\ rule \notin policy[p]
  /\ call' = [call EXCEPT ![p] = rule]
  /\ Goto(p, "asking")
  /\ UNCHANGED <<stored, policy, temp, ran, granted, kept, shared, faults>>

(* Variant: every approval is remembered.                                  *)
AnsweredOnceKept(p, approved) ==
  /\ pc[p] = "asking"
  /\ ran' = IF approved THEN ran \cup {[rule |-> call[p], by |-> "user"]} ELSE ran
  /\ policy' = IF approved THEN [policy EXCEPT ![p] = policy[p] \cup {call[p]}] ELSE policy
  /\ call' = [call EXCEPT ![p] = NoCall]
  /\ Goto(p, "ready")
  /\ UNCHANGED <<stored, temp, granted, kept, shared, faults>>

AnsweredOnce(p, approved) ==
  /\ pc[p] = "asking"
  /\ ran' = IF approved THEN ran \cup {[rule |-> call[p], by |-> "user"]} ELSE ran
  /\ call' = [call EXCEPT ![p] = NoCall]
  /\ Goto(p, "ready")
  /\ UNCHANGED <<stored, policy, temp, granted, kept, shared, faults>>

(* Variant: remember adds the rule, and save truncates the file itself.    *)
RememberInPlace(p) ==
  /\ pc[p] = "asking"
  /\ granted' = granted \cup {call[p]}
  /\ policy' = [policy EXCEPT ![p] = policy[p] \cup {call[p]}]
  /\ temp' = [temp EXCEPT ![p] = policy[p] \cup {call[p]}]
  /\ stored' = {}
  /\ Goto(p, "saving")
  /\ UNCHANGED <<call, ran, kept, shared, faults>>

(* "Always": remember adds the rule to the process's own list, and save    *)
(* writes that list to a temporary file ...                                *)
Remember(p) ==
  /\ pc[p] = "asking"
  /\ granted' = granted \cup {call[p]}
  /\ policy' = [policy EXCEPT ![p] = policy[p] \cup {call[p]}]
  /\ temp' = [temp EXCEPT ![p] = policy[p] \cup {call[p]}]
  /\ Goto(p, "saving")
  /\ UNCHANGED <<stored, call, ran, kept, shared, faults>>

Saved(p) ==
  /\ ran' = ran \cup {[rule |-> call[p], by |-> "user"]}
  /\ call' = [call EXCEPT ![p] = NoCall]
  /\ Goto(p, "ready")

(* ... which then replaces the file.                                       *)
Persist(p) ==
  /\ pc[p] = "saving"
  /\ stored' = temp[p]
  /\ kept' = kept \cup {call[p]}
  /\ Saved(p)
  /\ UNCHANGED <<policy, temp, granted, shared, faults>>

(* A failed save is only logged: the rule holds in this process.           *)
SaveFails(p) ==
  /\ pc[p] = "saving" /\ faults < MaxFaults
  /\ faults' = faults + 1
  /\ Saved(p)
  /\ UNCHANGED <<stored, policy, temp, granted, kept, shared>>

(* The process ends, or dies at any point.                                 *)
Leave(p) ==
  /\ pc[p] # "out"
  /\ policy' = [policy EXCEPT ![p] = {}] /\ temp' = [temp EXCEPT ![p] = {}]
  /\ call' = [call EXCEPT ![p] = NoCall]
  /\ Goto(p, "out")
  /\ UNCHANGED <<stored, ran, granted, kept, shared, faults>>

Next ==
  \E p \in Procs :
    \/ Open(p) \/ Remember(p) \/ Persist(p) \/ SaveFails(p) \/ Leave(p)
    \/ \E rule \in Rules : Covered(p, rule) \/ Asked(p, rule)
    \/ \E approved \in BOOLEAN : AnsweredOnce(p, approved)

Spec == Init /\ [][Next]_vars

TypeOK ==
  /\ stored \subseteq Rules /\ granted \subseteq Rules /\ kept \subseteq Rules
  /\ policy \in [Procs -> SUBSET Rules] /\ temp \in [Procs -> SUBSET Rules]
  /\ call \in [Procs -> Rules \cup {NoCall}]
  /\ pc \in [Procs -> {"out", "ready", "asking", "saving"}]
  /\ ran \subseteq [rule : Rules, by : {"rule", "user"}]
  /\ shared \in BOOLEAN /\ faults \in 0..MaxFaults

(* Only what the user once answered "always" to ever runs unasked, however *)
(* the processes' loads, saves, failed saves and deaths interleave.        *)
OnlyGranted ==
  /\ \A r \in ran : r.by = "rule" => r.rule \in granted
  /\ stored \subseteq granted /\ \A p \in Procs : policy[p] \subseteq granted

(* Decision::AlwaysAllowPrefix: "auto-approve calls covered by allow_rule  *)
(* in this project from now on".  A rule whose save succeeded stays in the *)
(* file that every later process loads.                                    *)
FromNowOn == kept \subseteq stored

(* So it is, through failed saves and deaths at any point, as long as no   *)
(* two processes ever worked on the project at the same time.              *)
FromNowOnUnshared == ~shared => FromNowOn
-----------------------------------------------------------------------------
(* Why only granted rules run: what a process is about to write was        *)
(* granted and is its own, and a process that asks or saves has a call.    *)
Known ==
  /\ \A p \in Procs : temp[p] \subseteq granted
  /\ \A p \in Procs : pc[p] \in {"asking", "saving"} => call[p] \in Rules
  /\ \A p \in Procs : pc[p] = "saving" => call[p] \in temp[p]
  /\ \A p \in Procs : temp[p] \subseteq policy[p] /\ (pc[p] = "out" => temp[p] = {})

Safe == TypeOK /\ OnlyGranted /\ Known

(* As long as the processes come one after another, what the one at work   *)
(* has loaded and what it is about to write hold everything that was saved.*)
Alone ==
  ~shared =>
    /\ kept \subseteq stored
    /\ \A p, q \in Procs : pc[p] # "out" /\ pc[q] # "out" => p = q
    /\ \A p \in Procs : pc[p] # "out" => stored \subseteq policy[p]
    /\ \A p \in Procs : pc[p] = "saving" => stored \subseteq temp[p]
=============================================================================
