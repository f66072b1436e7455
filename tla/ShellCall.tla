----------------------------- MODULE ShellCall -----------------------------
(***************************************************************************)
(* One call of the shell tool (rozu-tools shell.rs call, Capture) under    *)
(* the agent's own timeout and cancellation (rozu-core exec.rs run).       *)
(*                                                                         *)
(* The command is a tree of processes of its process group, some of which  *)
(* may leave the group (setsid); each holds the two output pipes open      *)
(* until it ends or closes them.  Output is counted in chunks of a pipe.   *)
(* Time is counted in seconds; rozu's own steps take no time, so the clock *)
(* moves only when none of them is due.  What the output says and the      *)
(* sandbox are left out, process ids are not reused.                       *)
(***************************************************************************)
EXTENDS Naturals, FiniteSets

CONSTANTS
  Children,   \* processes the command may start
  Timeout,    \* ShellArgs::timeout
  DrainGrace, \* DRAIN_GRACE
  Slack,      \* what Shell::timeout adds for the agent's timeout
  Half,       \* Capture::HALF, in chunks
  MaxChunks   \* bound: chunks written to a pipe

VARIABLES
  procs,    \* of the leader "sh" and each child: "none", "group", "dead"; "escaped", "left"
  holds,    \* of each process: the pipes it holds open
  written, unread,  \* of each pipe: chunks written, and those in the pipe
  head, tail, omitted, \* Capture of each pipe: head and tail as first and number of chunks
  reader,   \* of each pipe: "reading" or "ended"
  phase,    \* "running", "draining" "returned", "dropped"
  ending,   \* "exited", "timed out", "cancelled"
  drain,    \* the readers not waited for yet
  token,    \* the turn's token
  now, since \* the clock, and when this reader's wait began

output == <<written, unread, head, tail, omitted, reader>>
call == <<phase, ending, drain, since>>
vars == <<procs, holds, output, call, token, now>>

Pipes == {"stdout", "stderr"}
All == Children \cup {"sh"}
Alive(p) == procs[p] \in {"group", "escaped"}
Holders(s) == {p \in All : Alive(p) /\ s \in holds[p]}

Init ==
  /\ procs = [p \in All |-> IF p = "sh" THEN "group" ELSE "none"]
  /\ holds = [p \in All |-> IF p = "sh" THEN Pipes ELSE {}]
  /\ written = [s \in Pipes |-> 0] /\ unread = [s \in Pipes |-> 0]
  /\ head = [s \in Pipes |-> 0] /\ tail = [s \in Pipes |-> 0]
  /\ omitted = [s \in Pipes |-> 0]
  /\ reader = [s \in Pipes |-> "reading"]
  /\ phase = "running" /\ ending = "none" /\ drain = Pipes /\ token = FALSE
  /\ now = 0 /\ since = 0

-----------------------------------------------------------------------------
(* The command.                                                            *)
Fork(p, q) ==
  /\ Alive(p) /\ procs[q] = "none"
  /\ procs' = [procs EXCEPT ![q] = procs[p]]
  /\ holds' = [holds EXCEPT ![q] = holds[p]]
  /\ UNCHANGED <<output, call, token, now>>

Escape(p) ==
  /\ p # "sh" /\ procs[p] = "group"
  /\ procs' = [procs EXCEPT ![p] = "escaped"]
  /\ UNCHANGED <<holds, output, call, token, now>>

CloseOutput(p) ==
  /\ Alive(p) /\ holds[p] # {} /\ holds' = [holds EXCEPT ![p] = {}]
  /\ UNCHANGED <<procs, output, call, token, now>>

Exit(p) ==
  /\ Alive(p) /\ procs' = [procs EXCEPT ![p] = IF @ = "group" THEN "dead" ELSE "left"]
  /\ UNCHANGED <<holds, output, call, token, now>>

Write(p, s) ==
  /\ Alive(p) /\ s \in holds[p] /\ written[s] < MaxChunks /\ unread[s] < 2
  /\ written' = [written EXCEPT ![s] = @ + 1] /\ unread' = [unread EXCEPT ![s] = @ + 1]
  /\ UNCHANGED <<procs, holds, head, tail, omitted, reader, call, token, now>>

-----------------------------------------------------------------------------
(* The readers.                                                            *)
(* Capture::push: the head first, then the tail, whose oldest is omitted.  *)
Push(s) ==
  IF head[s] < Half
  THEN head' = [head EXCEPT ![s] = @ + 1] /\ UNCHANGED <<tail, omitted>>
  ELSE /\ tail' = [tail EXCEPT ![s] = IF @ < Half THEN @ + 1 ELSE @]
       /\ omitted' = [omitted EXCEPT ![s] = IF tail[s] < Half THEN @ ELSE @ + 1]
       /\ UNCHANGED head

ReadChunk(s) ==
  /\ reader[s] = "reading" /\ unread[s] > 0
  /\ unread' = [unread EXCEPT ![s] = @ - 1]
  /\ Push(s)
  /\ UNCHANGED <<procs, holds, written, reader, call, token, now>>

ReadEnd(s) ==
  /\ reader[s] = "reading" /\ unread[s] = 0 /\ Holders(s) = {}
  /\ reader' = [reader EXCEPT ![s] = "ended"]
  /\ UNCHANGED <<procs, holds, written, unread, head, tail, omitted, call, token, now>>

-----------------------------------------------------------------------------
(* The call.                                                               *)
(* Variant: only the shell itself is killed.                               *)
KillShell == procs' = [procs EXCEPT !["sh"] = "dead"]
(* ProcessGroup::kill.                                                     *)
KillGroup == procs' = [p \in All |-> IF procs[p] = "group" THEN "dead" ELSE procs[p]]

Ended(how) ==
  /\ phase' = "draining" /\ ending' = how /\ since' = now
  /\ KillGroup
  /\ UNCHANGED <<holds, output, drain, token, now>>

(* Exited, TimedOut.  (The turn's token is exec.rs's to look at first.)    *)
CommandExits ==
  phase = "running" /\ ~token /\ procs["sh"] = "dead" /\ now < Timeout /\ Ended("exited")
TimesOut == phase = "running" /\ ~token /\ now >= Timeout /\ Ended("timed out")

(* The readers are waited for one after the other, each for DRAIN_GRACE.   *)
Next1 == IF "stdout" \in drain THEN "stdout" ELSE "stderr"
(* Variant: a pipe is waited for until it closes.                          *)
GraceEndless == FALSE
(* DRAIN_GRACE is over.                                                    *)
GraceOver == now - since >= DrainGrace

Drained ==
  /\ phase = "draining" /\ drain # {} /\ ~token
  /\ reader[Next1] = "ended" \/ GraceOver
  /\ drain' = drain \ {Next1} /\ since' = now
  /\ UNCHANGED <<procs, holds, output, phase, ending, token, now>>

Returns ==
  /\ phase = "draining" /\ drain = {} /\ ~token
  /\ phase' = "returned"
  /\ UNCHANGED <<procs, holds, output, ending, drain, since, token, now>>

(* exec.rs run: the turn's token, or the agent's timeout, drops the call,  *)
(* and with it the group.                                                  *)
Deadline == Timeout + DrainGrace + Slack
Dropped(how) ==
  /\ phase \in {"running", "draining"}
  /\ phase' = "dropped" /\ ending' = how
  /\ KillGroup
  /\ UNCHANGED <<holds, output, drain, since, token, now>>
CallCancelled == token /\ Dropped("cancelled")
CallTimesOut == ~token /\ now >= Deadline /\ Dropped("agent timed out")

Cancel ==
  /\ ~token /\ phase \in {"running", "draining"} /\ token' = TRUE
  /\ UNCHANGED <<procs, holds, output, call, now>>

(* One of the call's own steps can be taken.                               *)
Due ==
  \/ token \/ now >= Deadline
  \/ phase = "running" /\ (procs["sh"] = "dead" \/ now >= Timeout)
  \/ phase = "draining" /\ (drain = {} \/ reader[Next1] = "ended" \/ GraceOver)
Tick ==
  /\ phase \in {"running", "draining"} /\ ~Due
  /\ \A s \in Pipes : reader[s] = "reading" => unread[s] = 0 /\ Holders(s) # {}
  /\ now' = now + 1
  /\ UNCHANGED <<procs, holds, output, call, token>>

Next ==
  \/ \E p \in All : Escape(p) \/ CloseOutput(p) \/ Exit(p)
                    \/ (\E q \in Children : Fork(p, q)) \/ (\E s \in Pipes : Write(p, s))
  \/ \E s \in Pipes : ReadChunk(s) \/ ReadEnd(s)
  \/ CommandExits \/ TimesOut \/ Drained \/ Returns \/ CallCancelled \/ CallTimesOut \/ Cancel
  \/ Tick

Spec == Init /\ [][Next]_vars

-----------------------------------------------------------------------------
(* However a call ends, none of its group still runs.                      *)
GroupIsGone == phase \in {"returned", "dropped"} => \A p \in All : procs[p] # "group"

(* The tool's own timeout, which reports partial output, comes before the  *)
(* agent's, also when escaped processes hold both pipes (Shell::timeout).  *)
OwnTimeoutFirst == ending # "agent timed out"

NoneEscaped == \A p \in All : procs[p] \notin {"escaped", "left"}

(* A command that nothing escaped from is reported with its first and last *)
(* output and the number of what is left out between them.                 *)
OutputAccounted ==
  phase = "returned" /\ NoneEscaped =>
    \A s \in Pipes : head[s] + tail[s] + omitted[s] = written[s]

-----------------------------------------------------------------------------
(* Why it does.  The types; and once the command exited, timed out or was  *)
(* dropped, nothing runs in its group, nor ever will again.                *)
CallTypes ==
  /\ procs \in [All -> {"none", "group", "dead", "escaped", "left"}]
  /\ holds \in [All -> SUBSET Pipes] /\ drain \in {Pipes, {"stderr"}, {}}
  /\ written \in [Pipes -> Nat] /\ unread \in [Pipes -> Nat]
  /\ head \in [Pipes -> Nat] /\ tail \in [Pipes -> Nat] /\ omitted \in [Pipes -> Nat]
  /\ reader \in [Pipes -> {"reading", "ended"}]
  /\ phase \in {"running", "draining", "returned", "dropped"} /\ token \in BOOLEAN
  /\ now \in Nat /\ since \in Nat
GroupKilled == phase # "running" => \A p \in All : procs[p] # "group"

(* Each chunk is in the pipe or was counted, and a reader ends only when   *)
(* its pipe is empty and nobody can write to it.                           *)
Counted ==
  \A s \in Pipes :
    /\ head[s] + tail[s] + omitted[s] + unread[s] = written[s]
    /\ reader[s] = "ended" => unread[s] = 0 /\ Holders(s) = {}

(* The call is never late: each of its waits ends in time, and both        *)
(* together before the agent's timeout.                                    *)
InTime ==
  /\ phase = "running" => now <= Timeout /\ drain = Pipes
  /\ phase = "draining" => since <= now /\ now <= since + DrainGrace
  /\ phase = "draining" /\ drain = Pipes => since <= Timeout
  /\ phase = "draining" /\ drain = {"stderr"} => since <= Timeout + DrainGrace
  /\ phase = "draining" /\ drain = {} => now <= Timeout + DrainGrace + DrainGrace
  /\ phase = "returned" => drain = {}

(* While nobody is left to hold a pipe no time passes, so a reader is      *)
(* waited for until it ended.                                              *)
HeardOut ==
  phase \in {"draining", "returned"} /\ NoneEscaped =>
    /\ phase = "draining" => now = since
    /\ \A s \in Pipes \ drain : reader[s] = "ended"

CallInv == CallTypes /\ GroupKilled /\ Counted /\ InTime /\ HeardOut /\ OwnTimeoutFirst

-----------------------------------------------------------------------------
(* What holds of a call that is over.                                      *)
CallIsOver == GroupIsGone /\ OwnTimeoutFirst /\ OutputAccounted
=============================================================================
