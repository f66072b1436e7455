------------------------------- MODULE Confined -------------------------------
(***************************************************************************)
(* What one shell call may write: the outside paths resolved and shown     *)
(* when it is put to the user (ApprovalPolicy::confinement), the policy    *)
(* and the Seatbelt profile made from them when it runs (sandbox.rs), and  *)
(* the writes of the command, while others move a symbolic link.           *)
(*                                                                         *)
(* A path is the sequence of its components.  Seatbelt, external, looks at *)
(* real paths and applies the last rule that matches.  Left out: calls     *)
(* that run outside the sandbox (AgentTurn) and the network, which is one  *)
(* more rule of the profile.                                               *)
(***************************************************************************)
EXTENDS Naturals, Sequences, FiniteSets, SequencesExt

CONSTANTS
  Targets,   \* where the link may point
  Named,     \* sets of outside paths a call may name, as written
  Writes     \* paths the command may write, as written

VARIABLES
  link,    \* target of the link at Link
  phase,   \* "idle", "asked", "running"
  request, \* ApprovalRequest: [extra_writes, outside_unknown]
  granted, \* ExecPermissions::extra_writable of the call that runs
  written  \* real paths it wrote

vars == <<link, phase, request, granted, written>>

Root == <<"u", "w">>
Home == <<"u">>
Temp == <<"t", "session">>
Dev == <<"dev">>
ProtectedDir == Append(Root, ".rozu")
Link == <<"o", "link">>
Etc == <<"etc">>

Under(path, dir) == IsPrefix(dir, path)

(* canonicalize: the link, and macOS's /etc.                               *)
Real(path) ==
  IF Under(path, Link) THEN link \o SubSeq(path, Len(Link) + 1, Len(path))
  ELSE IF Under(path, Etc) THEN <<"private">> \o path ELSE path

(* Variant: only the resolved path is looked at.                           *)
TooBroadResolved(path, resolved) == Len(resolved) <= 1 \/ Under(Home, resolved)
(* too_broad_to_grant, of the path as written and as resolved: /, a top    *)
(* directory, the home directory or one above it.                          *)
TooBroad(path, resolved) == \E p \in {path, resolved} : Len(p) <= 1 \/ Under(Home, p)

NoRequest == [extra_writes |-> {}, outside_unknown |-> FALSE]

(* confinement.                                                            *)
Confinement(paths, unknown) ==
  LET broad == {p \in paths : TooBroad(p, Real(p))}
  IN [extra_writes |-> {Real(p) : p \in paths \ broad},
      outside_unknown |-> unknown \/ broad # {}]

(* SandboxPolicy::for_workspace.                                           *)
ForWorkspace(extra) ==
  [writable_roots |-> {Root, Temp, Dev} \cup extra, read_only_subpaths |-> {ProtectedDir}]

(* Variant: the read-only paths come first.                                *)
SeatbeltReadOnlyFirst(policy) ==
  <<[allow |-> FALSE, paths |-> {<<>>}], [allow |-> FALSE, paths |-> policy.read_only_subpaths],
    [allow |-> TRUE, paths |-> policy.writable_roots]>>
SeatbeltProfile(policy) ==
  <<[allow |-> FALSE, paths |-> {<<>>}], [allow |-> TRUE, paths |-> policy.writable_roots],
    [allow |-> FALSE, paths |-> policy.read_only_subpaths]>>

Matches(rule, path) == \E p \in rule.paths : Under(path, p)
MayWrite(profile, path) ==
  \E i \in DOMAIN profile :
    /\ profile[i].allow /\ Matches(profile[i], path)
    /\ \A j \in DOMAIN profile : Matches(profile[j], path) => j <= i

-----------------------------------------------------------------------------
Init ==
  /\ link \in Targets /\ phase = "idle" /\ request = NoRequest
  /\ granted = {} /\ written = {}

Ask(paths, unknown) ==
  /\ phase = "idle" /\ phase' = "asked" /\ request' = Confinement(paths, unknown)
  /\ UNCHANGED <<link, granted, written>>

Approve ==
  /\ phase = "asked" /\ phase' = "running"
  /\ granted' = request.extra_writes
  /\ UNCHANGED <<link, request, written>>

(* The command writes, or is refused.                                      *)
Write(path) ==
  /\ phase = "running" /\ MayWrite(SeatbeltProfile(ForWorkspace(granted)), Real(path))
  /\ written' = written \cup {Real(path)}
  /\ UNCHANGED <<link, phase, request, granted>>

(* The user refuses the call, or the command ends.                         *)
End ==
  /\ phase # "idle" /\ phase' = "idle"
  /\ request' = NoRequest /\ granted' = {} /\ written' = {}
  /\ UNCHANGED link

(* Someone points the link elsewhere.                                      *)
Relink(target) ==
  /\ target # link /\ link' = target
  /\ UNCHANGED <<phase, request, granted, written>>

Next ==
  \/ \E paths \in Named, unknown \in BOOLEAN : Ask(paths, unknown)
  \/ Approve \/ \E path \in Writes : Write(path) \/ End
  \/ \E target \in Targets : Relink(target)

Spec == Init /\ [][Next]_vars

-----------------------------------------------------------------------------
(* An approved command writes in the workspace but for rozu's settings, in *)
(* the session's temp dir, to devices, and under the outside paths shown   *)
(* with its request (real ones, wherever a link leads by then); nothing    *)
(* shown opens a top directory or the home directory as a whole.           *)
Whole == {<<>>, <<"o">>, Home, Etc, Append(<<"private">>, "etc")}
WritesAsShown ==
  /\ request.extra_writes \cap Whole = {}
  /\ \A path \in written :
       /\ ~Under(path, ProtectedDir)
       /\ \E dir \in {Root, Temp, Dev} \cup request.extra_writes : Under(path, dir)
-----------------------------------------------------------------------------
(* Why it does: what a call that runs was granted is what was shown, and   *)
(* only a call that runs has written.                                      *)
GrantedAsShown ==
  /\ link \in Targets /\ WritesAsShown
  /\ phase = "running" => granted = request.extra_writes
  /\ phase # "running" => written = {}
=============================================================================
