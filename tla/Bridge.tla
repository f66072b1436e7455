------------------------------- MODULE Bridge -------------------------------
(***************************************************************************)
(* The calls of rozu's tools that a vendor's CLI makes: rozu mcp-serve     *)
(* (rozu-mcp server.rs) runs them and asks the chat's process about them   *)
(* over a socket (bridge.rs SocketGate, ApprovalBridge), on a connection   *)
(* of its own for every message.                                           *)
(*                                                                         *)
(* The CLI and its server can be killed at any point (a stopped turn); the *)
(* next turn starts another, whose calls are numbered from 1 again.  A     *)
(* call is <<server, n>>; "mcp-n" is what is known of it in the chat.      *)
(***************************************************************************)
EXTENDS Integers, Sequences, FiniteSets, SequencesExt

CONSTANTS
  Servers, \* servers started one after the other, numbers from 1
  Calls    \* numbers of a server's calls, from 1

VARIABLES
  server,  \* the running mcp-serve, or 0
  call,    \* of each call, in its server: "new", "asking", "yes", "no" (answered),
             \* "ran", "refused", "killed"
  conn,    \* its question, in the chat's process: "none", "sent", "asked", "closed"
  gate,    \* what the user answers: "open", "yes", "no"
  reply,   \* what the bridge wrote back: "none", "yes", "no"
  seen,    \* what the chat was last told of it: "nothing", "pending", "resolved", "expired"
  listens, \* whether the chat's process (its socket) is there
  asks     \* ApprovalGate::asks_user of the chat's gate

vars == <<server, call, conn, gate, reply, seen, listens, asks>>

All == Servers \X Calls

Init ==
  /\ server = 0
  /\ call = [c \in All |-> "new"]
  /\ conn = [c \in All |-> "none"]
  /\ gate = [c \in All |-> "open"]
  /\ reply = [c \in All |-> "none"]
  /\ seen = [c \in All |-> "nothing"] /\ listens = TRUE /\ asks \in BOOLEAN

(* Prompts are reported only by a gate that asks the user.                 *)
Told(kind, c) == seen' = IF asks THEN [seen EXCEPT ![c] = kind] ELSE seen

-----------------------------------------------------------------------------
(* The CLI.                                                                *)
Start ==
  /\ server = 0 /\ listens
  /\ \E s \in Servers :
       /\ \A c \in All : c[1] >= s => call[c] = "new"
       /\ \A c \in All : c[1] < s => call[c] # "new"
       /\ server' = s
  /\ UNCHANGED <<call, conn, gate, reply, seen, listens, asks>>

(* Killed with its CLI: its calls end where they are.                      *)
Kill ==
  /\ server # 0
  /\ call' = [c \in All |-> IF c[1] = server /\ call[c] \notin {"ran", "refused"}
                            THEN "killed" ELSE call[c]]
  /\ server' = 0
  /\ UNCHANGED <<conn, gate, reply, seen, listens, asks>>

(* The chat's process ends; its socket is removed (Drop).                  *)
Quit ==
  /\ listens /\ listens' = FALSE
  /\ conn' = [c \in All |-> IF conn[c] = "none" THEN "none" ELSE "closed"]
  /\ UNCHANGED <<server, call, gate, reply, seen, asks>>

-----------------------------------------------------------------------------
(* rozu mcp-serve.                                                         *)
(* A call that needs the user: the question goes out on a new connection,  *)
(* or is refused at once when there is no one to ask (SocketGate::decide). *)
Ask(c) ==
  /\ c[1] = server /\ call[c] = "new"
  /\ IF listens
     THEN /\ call' = [call EXCEPT ![c] = "asking"]
          /\ conn' = [conn EXCEPT ![c] = "sent"]
     ELSE call' = [call EXCEPT ![c] = "no"] /\ UNCHANGED conn
  /\ UNCHANGED <<server, gate, reply, seen, listens, asks>>

(* Variant: a connection that is lost counts as no objection.              *)
HearTrusting(c) ==
  /\ c[1] = server /\ call[c] = "asking"
  /\ \/ reply[c] # "none" /\ call' = [call EXCEPT ![c] = reply[c]]
     \/ reply[c] = "none" /\ conn[c] = "closed" /\ call' = [call EXCEPT ![c] = "yes"]
  /\ UNCHANGED <<server, conn, gate, reply, seen, listens, asks>>

(* The answer; without one (rozu is gone, the message is unreadable) the   *)
(* call is refused.                                                        *)
Hear(c) ==
  /\ c[1] = server /\ call[c] = "asking"
  /\ \/ reply[c] # "none" /\ call' = [call EXCEPT ![c] = reply[c]]
     \/ reply[c] = "none" /\ conn[c] = "closed" /\ call' = [call EXCEPT ![c] = "no"]
  /\ UNCHANGED <<server, conn, gate, reply, seen, listens, asks>>

(* execute, after the decision.                                            *)
Run(c) ==
  /\ c[1] = server /\ call[c] \in {"yes", "no"}
  /\ call' = [call EXCEPT ![c] = IF call[c] = "yes" THEN "ran" ELSE "refused"]
  /\ UNCHANGED <<server, conn, gate, reply, seen, listens, asks>>

-----------------------------------------------------------------------------
(* The bridge, one task for each connection (serve_connection).            *)
Accept(c) ==
  /\ conn[c] = "sent" /\ listens
  /\ conn' = [conn EXCEPT ![c] = "asked"]
  /\ Told("pending", c)
  /\ UNCHANGED <<server, call, gate, reply, listens, asks>>

(* The user, while the question is shown.                                  *)
Decide(c) ==
  /\ conn[c] = "asked" /\ gate[c] = "open"
  /\ \E a \in {"yes", "no"} : gate' = [gate EXCEPT ![c] = a]
  /\ UNCHANGED <<server, call, conn, reply, seen, listens, asks>>

(* The decision is reported before it is written back.                     *)
Answer(c) ==
  /\ conn[c] = "asked" /\ gate[c] # "open" /\ listens
  /\ conn' = [conn EXCEPT ![c] = "closed"]
  /\ reply' = [reply EXCEPT ![c] = gate[c]]
  /\ Told("resolved", c)
  /\ UNCHANGED <<server, call, gate, listens, asks>>

(* Variant: a question whose server is gone is dropped silently.           *)
HangUpSilently(c) ==
  /\ conn[c] = "asked" /\ call[c] = "killed"
  /\ conn' = [conn EXCEPT ![c] = "closed"]
  /\ UNCHANGED <<server, call, gate, reply, seen, listens, asks>>

(* The server hung up: the question is withdrawn and reported as expired.  *)
(* (The select is not biased: with an answer there too either may win.)    *)
HangUp(c) ==
  /\ conn[c] = "asked" /\ call[c] = "killed"
  /\ conn' = [conn EXCEPT ![c] = "closed"]
  /\ Told("expired", c)
  /\ UNCHANGED <<server, call, gate, reply, listens, asks>>

Next ==
  \/ Start \/ Kill \/ Quit
  \/ \E c \in All : \/ Ask(c) \/ Hear(c) \/ Run(c)
                    \/ Accept(c) \/ Decide(c) \/ Answer(c) \/ HangUp(c)

(* The tasks of the bridge and the server are scheduled; the user need not *)
(* answer.                                                                 *)
Fairness ==
  \A c \in All :
    WF_vars(Accept(c)) /\ WF_vars(Answer(c)) /\ WF_vars(HangUp(c)) /\ WF_vars(Hear(c))

Spec == Init /\ [][Next]_vars /\ Fairness

(* A call runs only on the user's yes to that very call: not on an answer  *)
(* that never arrived, and not on one given to an earlier server's call of *)
(* the same number.                                                        *)
RunsOnYes == \A c \in All : call[c] = "ran" => gate[c] = "yes" /\ reply[c] = "yes"

(* A reported question is closed for the reader: resolved, or expired when *)
(* its server is killed, unless the user still has it before them.         *)
QuestionClosed ==
  \A c \in All :
    seen[c] = "pending"
      ~> seen[c] # "pending" \/ (gate[c] = "open" /\ call[c] = "asking") \/ ~listens

-----------------------------------------------------------------------------
(* What was written back is what the user answered, once; and whoever may  *)
(* run, or ran, was written a yes.                                         *)
Asking ==
  /\ call \in [All -> {"new", "asking", "yes", "no", "ran", "refused", "killed"}]
  /\ gate \in [All -> {"open", "yes", "no"}] /\ reply \in [All -> {"none", "yes", "no"}]
  /\ \A c \in All : reply[c] # "none" => gate[c] = reply[c]
  /\ \A c \in All : call[c] \in {"yes", "ran"} => reply[c] = "yes"
=============================================================================
