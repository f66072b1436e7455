------------------------------ MODULE McpServe ------------------------------
(***************************************************************************)
(* `rozu mcp-serve`: the MCP server a vendor CLI starts, on its standard   *)
(* input and output (rozu-mcp server.rs; rozu-cli mcp_serve.rs).  Every    *)
(* line is handled by a task of its own, answers go through an unbounded   *)
(* queue to one writer task, and the end of the input ends the server once *)
(* the tasks are done.                                                     *)
(*                                                                         *)
(* A line is known by its place in the input and by what kind it is:       *)
(*   call      a tools/call of a tool the server has, with arguments it    *)
(*             accepts, or of the approve tool for a tool that is not      *)
(*             rozu's: a decision is made, recorded and, if it allows, run *)
(*   refused   every other tools/call, which is answered at once           *)
(*   list      initialize, ping, tools/list, and any unknown method        *)
(*   garbled   not JSON, or JSON that is no message                        *)
(*   note      a notification                                              *)
(*   stray     a response, though the server sends no requests             *)
(*   blank     nothing but spaces                                          *)
(* What a decision is made of is in CliApprovals and Bridge; what an       *)
(* answer says is left out.                                                *)
(***************************************************************************)
EXTENDS Naturals, Sequences, FiniteSets

CONSTANTS MaxLines,  \* lines the client sends
          Unread     \* stands for the line that could not be read

Kinds == {"call", "refused", "list", "garbled", "note", "stray", "blank"}

(* Lines that get an answer: handle_line returns a message for them.       *)
Requests == {"call", "refused", "list", "garbled"}

VARIABLES
  kinds,    \* the kinds of the lines read
  phase,    \* per line: "handed" to its task, "deciding", "running", "ran", "done"
  record,   \* per line, the records of its decisions: [made, left (on its channel)]
  input,    \* "open" or "ended"
  queue,    \* answers not yet written (tx to rx), as the lines they answer
  writer,   \* "writing", "failed", or "ended" with all its senders gone
  written,  \* answers the client has
  returned  \* what serve returned: "", "ok" or "error"

vars == <<kinds, phase, record, input, queue, writer, written, returned>>

Init ==
  /\ kinds = <<>> /\ phase = <<>> /\ record = <<>>
  /\ input = "open" /\ queue = <<>> /\ writer = "writing"
  /\ written = <<>> /\ returned = ""

(* tx.send: with the writer gone the answer is dropped without a word.     *)
Answer(i) == queue' = IF writer = "writing" THEN Append(queue, i) ELSE queue

(* A line is read and, unless it is blank, given to a task of its own.     *)
ReadLine(k) ==
  /\ input = "open" /\ Len(kinds) < MaxLines
  /\ kinds' = Append(kinds, k)
  /\ phase' = Append(phase, IF k = "blank" THEN "done" ELSE "handed")
  /\ record' = Append(record, [made |-> 0, left |-> 0])
  /\ UNCHANGED <<input, queue, writer, written, returned>>

(* A line too long, or a failed read: answered, and the session is over.   *)
ReadFails ==
  /\ input = "open" /\ input' = "ended"
  /\ Answer(Unread)
  /\ UNCHANGED <<kinds, phase, record, writer, written, returned>>

EndOfInput ==
  /\ input = "open" /\ input' = "ended"
  /\ UNCHANGED <<kinds, phase, record, queue, writer, written, returned>>

(* handle_line and request, but for a call of a tool.                      *)
HandleLine(i) ==
  /\ phase[i] = "handed" /\ kinds[i] # "call"
  /\ phase' = [phase EXCEPT ![i] = "done"]
  /\ IF kinds[i] \in Requests THEN Answer(i) ELSE UNCHANGED queue
  /\ UNCHANGED <<kinds, record, input, writer, written, returned>>

BeginCall(i) ==
  /\ phase[i] = "handed" /\ kinds[i] = "call"
  /\ phase' = [phase EXCEPT ![i] = "deciding"]
  /\ UNCHANGED <<kinds, record, input, queue, writer, written, returned>>

(* The decision, which leaves its record on the call's own channel; only a *)
(* call it allows is run.                                                  *)
Decide(i) ==
  /\ phase[i] = "deciding"
  /\ \E next \in {"running", "ran"} : phase' = [phase EXCEPT ![i] = next]
  /\ record' = [record EXCEPT ![i] = [made |-> @.made + 1, left |-> @.left + 1]]
  /\ UNCHANGED <<kinds, input, queue, writer, written, returned>>

(* A call its sandbox blocked is decided once more.                        *)
ToolEnds(i) ==
  /\ phase[i] = "running"
  /\ \E next \in {"ran"} \cup (IF record[i].made = 1 THEN {"deciding"} ELSE {}) :
       phase' = [phase EXCEPT ![i] = next]
  /\ UNCHANGED <<kinds, record, input, queue, writer, written, returned>>

(* forward_records, beside the running call: best effort, each on a fresh  *)
(* connection to the parent, which may be beyond reach.                    *)
ForwardRecord(i) ==
  /\ record[i].left > 0
  /\ record' = [record EXCEPT ![i].left = @ - 1]
  /\ UNCHANGED <<kinds, phase, input, queue, writer, written, returned>>

(* Variant: the call is answered when it ends, the record later.           *)
JoinedRunOnly(i) == phase[i] = "ran"

(* The join of the call and of forward_records.                            *)
Joined(i) == phase[i] = "ran" /\ record[i].left = 0

AnswerCall(i) ==
  /\ Joined(i)
  /\ phase' = [phase EXCEPT ![i] = "done"]
  /\ Answer(i)
  /\ UNCHANGED <<kinds, record, input, writer, written, returned>>

(* The writer, and the client that no longer reads.                        *)
WriteAnswer ==
  /\ writer = "writing" /\ queue # <<>>
  /\ written' = Append(written, Head(queue))
  /\ queue' = Tail(queue)
  /\ UNCHANGED <<kinds, phase, record, input, writer, returned>>

WriteFails ==
  /\ writer = "writing" /\ queue # <<>>
  /\ writer' = "failed" /\ queue' = <<>>
  /\ UNCHANGED <<kinds, phase, record, input, written, returned>>

(* Variant: dropping the tasks at the end of the input.                    *)
TasksDropped == TRUE

(* serve, after its loop: every task is waited for, and with them the last *)
(* senders of the queue go, so the writer ends when it has written all.    *)
TasksDone == \A i \in DOMAIN phase : phase[i] = "done"

WriterEnds ==
  /\ input = "ended" /\ TasksDone /\ writer = "writing" /\ queue = <<>>
  /\ writer' = "ended"
  /\ UNCHANGED <<kinds, phase, record, input, queue, written, returned>>

Return ==
  /\ input = "ended" /\ TasksDone /\ returned = ""
  /\ \/ writer = "ended" /\ returned' = "ok"
     \/ writer = "failed" /\ returned' = "error"
  /\ UNCHANGED <<kinds, phase, record, input, queue, writer, written>>

Next ==
  \/ \E k \in Kinds : ReadLine(k)
  \/ ReadFails \/ EndOfInput
  \/ \E i \in DOMAIN kinds :
       \/ HandleLine(i) \/ BeginCall(i) \/ Decide(i) \/ ToolEnds(i)
       \/ ForwardRecord(i) \/ AnswerCall(i)
  \/ WriteAnswer \/ WriteFails \/ WriterEnds \/ Return

-----------------------------------------------------------------------------
Answers == written \o queue
Times(i) == Cardinality({j \in DOMAIN Answers : Answers[j] = i})

(* However the tasks overlap, a request is answered once and nothing else  *)
(* is; a server that ends well has answered all it read, also when the     *)
(* input ended while calls were still being decided; and the parent was    *)
(* told of a decision (or was beyond reach) before the CLI hears what came *)
(* of it (serve, call, approve).                                           *)
AnsweredAsAsked ==
  /\ \A i \in DOMAIN kinds :
       /\ Times(i) <= (IF kinds[i] \in Requests THEN 1 ELSE 0)
       /\ (returned = "ok" /\ kinds[i] \in Requests) => Times(i) = 1
       /\ (kinds[i] = "call" /\ Times(i) > 0) => record[i].made > 0 /\ record[i].left = 0
  /\ Times(Unread) <= 1
-----------------------------------------------------------------------------
(* Why they are.  The types; and what each state of a line means for the   *)
(* decisions of its call, and the end of the writer for all lines.         *)
ServeTypes ==
  /\ kinds \in Seq(Kinds) /\ Len(phase) = Len(kinds) /\ Len(record) = Len(kinds)
  /\ phase \in Seq({"handed", "deciding", "running", "ran", "done"})
  /\ record \in Seq([made : Nat, left : Nat])
  /\ input \in {"open", "ended"} /\ writer \in {"writing", "failed", "ended"}
  /\ queue \in Seq(Nat \cup {Unread}) /\ written \in Seq(Nat \cup {Unread})
LineStates ==
  /\ \A i \in DOMAIN kinds :
       /\ phase[i] \in {"deciding", "running", "ran"} => kinds[i] = "call"
       /\ phase[i] \in {"running", "ran"} => record[i].made > 0
       /\ kinds[i] = "call" /\ phase[i] = "done" => record[i].made > 0 /\ record[i].left = 0
  /\ writer = "ended" => input = "ended" /\ TasksDone
  /\ returned = "ok" => writer = "ended" /\ TasksDone

(* No answer is there twice, each is one to a request whose task is done,  *)
(* or to what could not be read; and until the writer fails, what is done  *)
(* has its answer.                                                         *)
OneEach ==
  /\ \A j, k \in DOMAIN Answers : Answers[j] = Answers[k] => j = k
  /\ \A j \in DOMAIN Answers :
       \/ Answers[j] = Unread /\ input = "ended"
       \/ Answers[j] \in DOMAIN kinds /\ kinds[Answers[j]] \in Requests /\ phase[Answers[j]] = "done"
AllAnswered ==
  writer # "failed" => \A i \in DOMAIN kinds :
    kinds[i] \in Requests /\ phase[i] = "done" => \E j \in DOMAIN Answers : Answers[j] = i

Served == ServeTypes /\ LineStates /\ OneEach /\ AllAnswered
=============================================================================
