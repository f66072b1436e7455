---------------------------- MODULE SessionStore ----------------------------
(***************************************************************************)
(* One saved chat of rozu-store: its append-only record file, the flock on *)
(* it, its row in the SQLite index, and the processes (rozu chat, the      *)
(* desktop app) that create, resume, extend, compact, save, list and       *)
(* delete it.  A process may die at any point.                             *)
(*                                                                         *)
(* Abstractions.                                                           *)
(*  - Every reader replays the file from its first line, so the complete   *)
(*    lines are kept as what replaying them yields ("good"); the tail is   *)
(*    the only line that may be incomplete.                                *)
(*  - The chat's id is unique, so its file is created once; a deleted file *)
(*    lives on as an unlinked inode while a process has it open.           *)
(*  - Writes reach the disk in order (no loss of power between them).      *)
(***************************************************************************)
EXTENDS Compact

CONSTANTS
  Procs,          \* processes that may open the chat
  Apps,           \* those that are the desktop app; the others are rozu chat
  PromptLens,     \* lengths set_system's prompt can have: 1, or 2 with memory
  Models,         \* model choices
  FaultPoints,    \* where an append may fail: "create", "sync", "cli_model", "app_model"
  KeepTurns,      \* MemoryPolicy::keep_turns
  MaxMessages,    \* bound on messages ever added to the chat
  MaxCompactions, \* bound on compactions of one session
  MaxFaults,      \* bound on failed or interrupted appends
  NoProc, NoRow, NoSession, NoWriter, NoChat, NoTail, Torn, BadLine

ASSUME StoreAssumption ==
  /\ NoProc \notin Procs /\ Models # {}
  /\ Apps \subseteq Procs
  /\ PromptLens \subseteq Nat \ {0}
  /\ KeepTurns \in Nat /\ MaxMessages \in Nat /\ MaxCompactions \in Nat
  /\ MaxFaults \in Nat

VARIABLES
  file,     \* [good, tail, corrupt]: the inode's lines, see AppendTo
  entry,    \* directory entry: "absent", "linked", "unlinked"
  lock,     \* the process that holds the exclusive flock, or NoProc
  row,      \* the index row, or NoRow
  pc,       \* where each process is
  session,  \* rozu_core::Session of each process, or NoSession
  writer,   \* SessionWriter of each process, or NoWriter
  cursor,   \* messages written so far by the sync in progress
  nextId,   \* identity of the next message (history only)
  faults    \* appends failed or interrupted so far (bound only)

vars == <<file, entry, lock, row, pc, session, writer, cursor, nextId, faults>>

Message == [role : Role, id : Nat]

(***************************************************************************)
(* The record log (session/log.rs).                                        *)
(***************************************************************************)
NoContent == [header |-> FALSE, messages |-> <<>>, checkpoints |-> 0,
              usage |-> 0, model |-> CHOOSE m \in Models : TRUE]

Record ==
  [type : {"meta", "model"}, model : Models]
    \cup [type : {"message"}, message : Message]
    \cup [type : {"checkpoint"}, messages : Seq(Message)]
    \cup [type : {"usage"}, usage : Nat]

Session == [messages : Seq(Message), compactions : Nat, usage : Nat]
SessionWriter == [written : Nat, compactions : Nat, usage : Nat, model : Models]

Content == [header : BOOLEAN, messages : Seq(Message), checkpoints : Nat,
            usage : Nat, model : Models]
File == [good : Content, tail : Record \cup {NoTail, Torn, BadLine}, corrupt : BOOLEAN]
IndexRow == [model : Models, title : Nat, messages : Nat]

(* The values that stand for "none" are not one of the real ones.          *)
ASSUME NoneAssumption ==
  /\ NoSession \notin Session /\ NoWriter \notin SessionWriter
  /\ NoChat \notin Seq(Message)
  /\ {NoTail, Torn, BadLine} \cap Record = {}
  /\ NoTail # Torn /\ NoTail # BadLine /\ Torn # BadLine

(* One iteration of replay's match: the effect of a record.                *)
Replayed(c, r) ==
  CASE r.type = "meta"       -> [c EXCEPT !.header = TRUE, !.model = r.model]
    [] r.type = "message"    -> [c EXCEPT !.messages = Append(@, r.message)]
    [] r.type = "checkpoint" -> [c EXCEPT !.messages = r.messages,
                                          !.checkpoints = @ + 1]
    [] r.type = "usage"      -> [c EXCEPT !.usage = r.usage]
    [] r.type = "model"      -> [c EXCEPT !.model = IF c.header THEN r.model ELSE @]

(* An unterminated final record counts; an invalid final line does not.    *)
Loaded(f) == IF f.tail \in {NoTail, Torn, BadLine} THEN f.good
             ELSE Replayed(f.good, f.tail)

Readable(f) == ~f.corrupt /\ Loaded(f).header

(* SessionWriter::append: one line.  After an unterminated line the two    *)
(* make one invalid line; once another line follows that, replay fails.    *)
AppendTo(f, r) ==
  CASE f.tail = NoTail  -> [f EXCEPT !.good = Replayed(@, r)]
    [] f.tail = BadLine -> [f EXCEPT !.corrupt = TRUE]
    [] OTHER            -> [f EXCEPT !.tail = BadLine]

(* What a failed or interrupted append can leave: nothing of the line, a   *)
(* part of it, or all of it but the newline.                               *)
CutAppends(f, r) ==
  CASE f.tail = NoTail  -> {f, [f EXCEPT !.tail = Torn], [f EXCEPT !.tail = r]}
    [] f.tail = BadLine -> {f, [f EXCEPT !.corrupt = TRUE]}
    [] OTHER            -> {f, [f EXCEPT !.tail = Torn]}

(* Variant: resume does not cut an invalid tail off.                       *)
RepairedNot(f) == IF f.tail \in {Torn, BadLine} THEN f
                  ELSE [f EXCEPT !.good = Loaded(f), !.tail = NoTail]

(* resume drops the invalid tail, or terminates an unterminated record.    *)
Repaired(f) == [f EXCEPT !.good = Loaded(f), !.tail = NoTail]

(* Variant: the message count as the list's length less the prompt.        *)
RowOfUnderflow(model, msgs) ==
  [model |-> model, title |-> 0, messages |-> Len(msgs) - 1]

(***************************************************************************)
(* The index row (session/index.rs upsert): model, first user message and  *)
(* the number of messages that are not system messages.                    *)
(***************************************************************************)
RowOf(model, msgs) ==
  [model    |-> model,
   title    |-> IF UserPositions(msgs) = {} THEN 0
                ELSE msgs[CHOOSE i \in UserPositions(msgs) :
                            \A j \in UserPositions(msgs) : i <= j].id,
   messages |-> Cardinality({i \in 1..Len(msgs) :
                              msgs[i].role \notin {"system", "summary"}})]

Prompt(n) == [i \in 1..n |-> [role |-> "system", id |-> i]]

(***************************************************************************)
(* Processes.  "out" holds nothing; create goes through "meta" and "row",  *)
(* resume through "open" and "resumed"; "chat" is between operations; sync *)
(* goes through "messages", "usage" and "upsert"; delete through "delete", *)
(* "unlink" and "unlist".                                                  *)
(***************************************************************************)
Syncing == {"messages", "usage", "upsert"}
Chatting == {"chat"} \cup Syncing

Goto(p, label) == pc' = [pc EXCEPT ![p] = label]
Release(p) == lock' = IF lock = p THEN NoProc ELSE lock
SetSession(p, s) == session' = [session EXCEPT ![p] = s]
SetWriter(p, w) == writer' = [writer EXCEPT ![p] = w]

HasWriter(p) == writer[p] # NoWriter

(* Variant: only a shorter list makes sync rewrite.                        *)
RewritesIfShorter(p) == Len(session[p].messages) < writer[p].written

(* sync rewrites the whole history when the writer saw fewer compactions   *)
(* than the session, or the session has become shorter.                    *)
Rewrites(p) ==
  \/ session[p].compactions # writer[p].compactions
  \/ Len(session[p].messages) < writer[p].written

(* The record the append in progress is writing, as a set of at most one.  *)
Pending(p) ==
  CASE pc[p] = "meta" -> {[type |-> "meta", model |-> writer[p].model]}
    [] pc[p] = "messages" /\ Rewrites(p) ->
         {[type |-> "checkpoint", messages |-> session[p].messages]}
    [] pc[p] = "messages" /\ ~Rewrites(p) /\ cursor[p] < Len(session[p].messages) ->
         {[type |-> "message", message |-> session[p].messages[cursor[p] + 1]]}
    [] pc[p] = "usage" /\ session[p].usage # writer[p].usage ->
         {[type |-> "usage", usage |-> session[p].usage]}
    [] OTHER -> {}

SetCursor(p, n) == cursor' = [cursor EXCEPT ![p] = n]

(* A writer or handle is dropped: the flock goes with it.                  *)
LeaveTo(p, label) ==
  /\ Release(p)
  /\ SetWriter(p, NoWriter)
  /\ SetCursor(p, 0)
  /\ Goto(p, label)

MayFail(point) == point \in FaultPoints /\ faults < MaxFaults

-----------------------------------------------------------------------------
(* Variant: create indexes the chat before its header is written.          *)
CreateRowFirst(p, m) ==
  /\ pc[p] = "out" /\ entry = "absent" /\ lock = NoProc
  /\ entry' = "linked"
  /\ lock' = p
  /\ SetSession(p, [messages |-> <<>>, compactions |-> 0, usage |-> 0])
  /\ SetWriter(p, [written |-> 0, compactions |-> 0, usage |-> 0, model |-> m])
  /\ row' = RowOf(m, <<>>)
  /\ Goto(p, "meta")
  /\ UNCHANGED <<file, cursor, nextId, faults>>

(* SessionStore::create: create_new and lock_writer ...                    *)
Create(p, m) ==
  /\ pc[p] = "out" /\ entry = "absent" /\ lock = NoProc
  /\ entry' = "linked"
  /\ lock' = p
  /\ SetSession(p, [messages |-> <<>>, compactions |-> 0, usage |-> 0])
  /\ SetWriter(p, [written |-> 0, compactions |-> 0, usage |-> 0, model |-> m])
  /\ Goto(p, "meta")
  /\ UNCHANGED <<file, row, cursor, nextId, faults>>

(* ... then the header line ...                                            *)
CreateMeta(p) ==
  /\ pc[p] = "meta"
  /\ \E r \in Pending(p) : file' = AppendTo(file, r)
  /\ Goto(p, "row")
  /\ UNCHANGED <<entry, lock, row, session, writer, cursor, nextId, faults>>

(* ... then the index row of an empty session.  The caller goes on with    *)
(* set_system.                                                             *)
CreateRow(p, n) ==
  /\ pc[p] = "row"
  /\ row' = RowOf(writer[p].model, <<>>)
  /\ SetSession(p, [session[p] EXCEPT !.messages = SetSystem(@, Prompt(n))])
  /\ Goto(p, "chat")
  /\ UNCHANGED <<file, entry, lock, writer, cursor, nextId, faults>>

(* A failed create drops the writer; the chat goes on unsaved.             *)
CreateFails(p, n) ==
  /\ pc[p] \in {"meta", "row"} /\ MayFail("create")
  /\ \/ \E r \in Pending(p) : file' \in CutAppends(file, r)
     \/ Pending(p) = {} /\ UNCHANGED file
  /\ SetSession(p, [session[p] EXCEPT !.messages = SetSystem(@, Prompt(n))])
  /\ LeaveTo(p, "chat")
  /\ faults' = faults + 1
  /\ UNCHANGED <<entry, row, nextId>>

(* SessionStore::resume opens the file; its id comes from the index or     *)
(* from a list read earlier, so the header is there.                       *)
ResumeOpen(p) ==
  /\ pc[p] = "out" /\ entry = "linked" /\ Loaded(file).header
  /\ Goto(p, "open")
  /\ UNCHANGED <<file, entry, lock, row, session, writer, cursor, nextId, faults>>

(* lock_writer fails at once when the chat is in use; so does replay on a  *)
(* corrupt file.                                                           *)
ResumeFails(p) ==
  /\ pc[p] = "open"
  /\ lock # NoProc \/ ~Readable(file)
  /\ Goto(p, "out")
  /\ UNCHANGED <<file, entry, lock, row, session, writer, cursor, nextId, faults>>

(* Variant: resume hands out a writer without the flock.                   *)
ResumeReadUnlocked(p) ==
  LET c == Loaded(file)
  IN  /\ pc[p] = "open" /\ Readable(file)
      /\ SetSession(p, [messages |-> c.messages, compactions |-> c.checkpoints,
                        usage |-> c.usage])
      /\ SetWriter(p, [written |-> Len(c.messages), compactions |-> c.checkpoints,
                       usage |-> c.usage, model |-> c.model])
      /\ Goto(p, "resumed")
      /\ UNCHANGED <<file, entry, lock, row, cursor, nextId, faults>>

(* Under the lock: replay, trim or terminate the tail, hand out the writer.*)
ResumeRead(p) ==
  LET c == Loaded(file)
  IN  /\ pc[p] = "open" /\ lock = NoProc /\ Readable(file)
      /\ lock' = p
      /\ file' = Repaired(file)
      /\ SetSession(p, [messages |-> c.messages, compactions |-> c.checkpoints,
                        usage |-> c.usage])
      /\ SetWriter(p, [written |-> Len(c.messages), compactions |-> c.checkpoints,
                       usage |-> c.usage, model |-> c.model])
      /\ Goto(p, "resumed")
      /\ UNCHANGED <<entry, row, cursor, nextId, faults>>

(* The app records its model choice when it continues a chat (Backend::    *)
(* start), the CLI does not; both then renew the system prompt.            *)
StartChat(p, m, n) ==
  /\ pc[p] = "resumed"
  /\ SetSession(p, [session[p] EXCEPT !.messages = SetSystem(@, Prompt(n))])
  /\ \/ /\ p \in Apps
        /\ file' = AppendTo(file, [type |-> "model", model |-> m])
        /\ SetWriter(p, [writer[p] EXCEPT !.model = m])
     \/ p \notin Apps /\ m = writer[p].model /\ UNCHANGED <<file, writer>>
  /\ Goto(p, "chat")
  /\ UNCHANGED <<entry, lock, row, cursor, nextId, faults>>

StartFails(p, m) ==
  /\ pc[p] = "resumed" /\ p \in Apps /\ MayFail("app_model")
  /\ file' \in CutAppends(file, [type |-> "model", model |-> m])
  /\ SetSession(p, NoSession)
  /\ LeaveTo(p, "out")
  /\ faults' = faults + 1
  /\ UNCHANGED <<entry, row, nextId>>

-----------------------------------------------------------------------------
(* What a turn does to the session: messages are appended, and a reply     *)
(* adds to the usage.  A conversation starts with a user message.          *)
AddMessage(p, role) ==
  /\ pc[p] = "chat" /\ nextId <= MaxMessages
  /\ role \in {"user", "assistant", "tool"}
  /\ role # "user" => Conversation(session[p].messages) # <<>>
  /\ SetSession(p, [session[p] EXCEPT
       !.messages = Append(session[p].messages, [role |-> role, id |-> nextId]),
       !.usage = session[p].usage + (IF role = "assistant" THEN 1 ELSE 0)])
  /\ nextId' = nextId + 1
  /\ UNCHANGED <<file, entry, lock, row, pc, writer, cursor, faults>>

(* Agent::compact_with: mask, summarize, or both; counted once.  The       *)
(* context estimate, part of the usage totals, changes with it.            *)
Masked(msgs, mask) ==
  IF mask THEN MaskToolOutputs(msgs, RecentStart(msgs, KeepTurns)) ELSE msgs

Compacted(msgs, mask, summarize, id) ==
  LET masked == Masked(msgs, mask)
  IN  IF summarize /\ CanSummarize(masked, KeepTurns)
      THEN Summarized(masked, KeepTurns, [role |-> "summary", id |-> id])
      ELSE masked

CompactChat(p, mask, summarize) ==
  LET done == Compacted(session[p].messages, mask, summarize, nextId)
  IN  /\ pc[p] = "chat" /\ session[p].compactions < MaxCompactions
      /\ done # session[p].messages
      /\ SetSession(p, [session[p] EXCEPT !.messages = done,
                                          !.compactions = session[p].compactions + 1,
                                          !.usage = session[p].usage + 1])
      /\ UNCHANGED <<file, entry, lock, row, pc, writer, cursor, nextId, faults>>

(* /pin in the CLI: the memory is read again and the prefix replaced.      *)
Pin(p, n) ==
  /\ pc[p] = "chat" /\ p \notin Apps
  /\ SetSession(p, [session[p] EXCEPT !.messages = SetSystem(@, Prompt(n))])
  /\ UNCHANGED <<file, entry, lock, row, pc, writer, cursor, nextId, faults>>

(* SessionWriter::set_model: /model in the CLI, a new selection in the app.*)
SetModel(p, m) ==
  /\ pc[p] = "chat" /\ HasWriter(p)
  /\ file' = AppendTo(file, [type |-> "model", model |-> m])
  /\ SetWriter(p, [writer[p] EXCEPT !.model = m])
  /\ UNCHANGED <<entry, lock, row, pc, session, cursor, nextId, faults>>

(* When that append fails the app drops the writer; the CLI only warns.    *)
SetModelFails(p, m) ==
  /\ pc[p] = "chat" /\ HasWriter(p)
  /\ file' \in CutAppends(file, [type |-> "model", model |-> m])
  /\ \/ p \in Apps /\ MayFail("app_model") /\ LeaveTo(p, "chat")
     \/ /\ p \notin Apps /\ MayFail("cli_model")
        /\ SetWriter(p, [writer[p] EXCEPT !.model = m])
        /\ UNCHANGED <<lock, pc, cursor>>
  /\ faults' = faults + 1
  /\ UNCHANGED <<entry, row, session, nextId>>

-----------------------------------------------------------------------------
(* SessionWriter::sync, one append at a time.                              *)
SyncBegin(p) ==
  /\ pc[p] = "chat" /\ HasWriter(p)
  /\ SetCursor(p, writer[p].written)
  /\ Goto(p, "messages")
  /\ UNCHANGED <<file, entry, lock, row, session, writer, nextId, faults>>

SyncCheckpoint(p) ==
  /\ pc[p] = "messages" /\ Rewrites(p)
  /\ \E r \in Pending(p) : file' = AppendTo(file, r)
  /\ SetWriter(p, [writer[p] EXCEPT !.compactions = session[p].compactions,
                                    !.written = Len(session[p].messages)])
  /\ SetCursor(p, 0)
  /\ Goto(p, "usage")
  /\ UNCHANGED <<entry, lock, row, session, nextId, faults>>

SyncMessage(p) ==
  /\ pc[p] = "messages" /\ ~Rewrites(p)
  /\ \E r \in Pending(p) : file' = AppendTo(file, r)
  /\ SetCursor(p, cursor[p] + 1)
  /\ UNCHANGED <<entry, lock, row, pc, session, writer, nextId, faults>>

SyncMessagesDone(p) ==
  /\ pc[p] = "messages" /\ Pending(p) = {}
  /\ SetWriter(p, [writer[p] EXCEPT !.written = Len(session[p].messages)])
  /\ SetCursor(p, 0)
  /\ Goto(p, "usage")
  /\ UNCHANGED <<file, entry, lock, row, session, nextId, faults>>

SyncUsage(p) ==
  /\ pc[p] = "usage"
  /\ \/ \E r \in Pending(p) : file' = AppendTo(file, r)
     \/ Pending(p) = {} /\ UNCHANGED file
  /\ SetWriter(p, [writer[p] EXCEPT !.usage = session[p].usage])
  /\ Goto(p, "upsert")
  /\ UNCHANGED <<entry, lock, row, session, cursor, nextId, faults>>

SyncRow(p) ==
  /\ pc[p] = "upsert"
  /\ row' = RowOf(writer[p].model, session[p].messages)
  /\ Goto(p, "chat")
  /\ UNCHANGED <<file, entry, lock, session, writer, cursor, nextId, faults>>

(* Variant: the writer is kept after a failed sync, to try again.          *)
SyncFailsAndRetries(p) ==
  /\ pc[p] \in Syncing /\ MayFail("sync")
  /\ \/ \E r \in Pending(p) : file' \in CutAppends(file, r)
     \/ Pending(p) = {} /\ UNCHANGED file
  /\ SetCursor(p, 0)
  /\ Goto(p, "chat")
  /\ faults' = faults + 1
  /\ UNCHANGED <<entry, lock, row, session, writer, nextId>>

(* Both hosts drop the writer when sync fails: the chat goes on unsaved.   *)
SyncFails(p) ==
  /\ pc[p] \in Syncing /\ MayFail("sync")
  /\ \/ \E r \in Pending(p) : file' \in CutAppends(file, r)
     \/ Pending(p) = {} /\ UNCHANGED file
  /\ LeaveTo(p, "chat")
  /\ faults' = faults + 1
  /\ UNCHANGED <<entry, row, session, nextId>>

(* The chat is closed, or the process dies: between two steps of whatever  *)
(* it was doing, or in the middle of an append.                            *)
Leave(p) ==
  /\ pc[p] # "out"
  /\ SetSession(p, NoSession)
  /\ LeaveTo(p, "out")
  /\ \/ UNCHANGED <<file, faults>>
     \/ /\ faults < MaxFaults
        /\ \E r \in Pending(p) : file' \in CutAppends(file, r)
        /\ faults' = faults + 1
  /\ UNCHANGED <<entry, row, nextId>>

-----------------------------------------------------------------------------
(* SessionStore::delete: open, lock, unlink, drop the row, release.        *)
DeleteOpen(p) ==
  /\ pc[p] = "out" /\ entry # "absent"
  /\ Goto(p, IF entry = "linked" THEN "delete" ELSE "unlist")
  /\ UNCHANGED <<file, entry, lock, row, session, writer, cursor, nextId, faults>>

DeleteLock(p) ==
  /\ pc[p] = "delete"
  /\ IF lock = NoProc THEN lock' = p /\ Goto(p, "unlink")
     ELSE UNCHANGED lock /\ Goto(p, "out")
  /\ UNCHANGED <<file, entry, row, session, writer, cursor, nextId, faults>>

(* remove_file fails when another deletion got there first.                *)
DeleteUnlink(p) ==
  /\ pc[p] = "unlink"
  /\ IF entry = "linked" THEN entry' = "unlinked" /\ Goto(p, "unlist") /\ UNCHANGED lock
     ELSE UNCHANGED entry /\ Goto(p, "out") /\ Release(p)
  /\ UNCHANGED <<file, row, session, writer, cursor, nextId, faults>>

DeleteRow(p) ==
  /\ pc[p] = "unlist"
  /\ row' = NoRow
  /\ Release(p)
  /\ Goto(p, "out")
  /\ UNCHANGED <<file, entry, session, writer, cursor, nextId, faults>>

(* SessionStore::open on a missing index: reindex, in one SQL transaction. *)
Reindex(p) ==
  /\ pc[p] = "out"
  /\ row' = IF entry = "linked" /\ Readable(file)
            THEN RowOf(Loaded(file).model, Loaded(file).messages) ELSE NoRow
  /\ UNCHANGED <<file, entry, lock, pc, session, writer, cursor, nextId, faults>>

-----------------------------------------------------------------------------
Init ==
  /\ file = [good |-> NoContent, tail |-> NoTail, corrupt |-> FALSE]
  /\ entry = "absent"
  /\ lock = NoProc
  /\ row = NoRow
  /\ pc = [p \in Procs |-> "out"]
  /\ session = [p \in Procs |-> NoSession]
  /\ writer = [p \in Procs |-> NoWriter]
  /\ cursor = [p \in Procs |-> 0]
  /\ nextId = 1
  /\ faults = 0

Next ==
  \E p \in Procs :
    \/ \E m \in Models : Create(p, m) \/ StartFails(p, m) \/ SetModel(p, m)
                           \/ SetModelFails(p, m)
    \/ \E m \in Models, n \in PromptLens : StartChat(p, m, n)
    \/ \E n \in PromptLens : CreateRow(p, n) \/ CreateFails(p, n) \/ Pin(p, n)
    \/ \E role \in Role : AddMessage(p, role)
    \/ \E mask, summarize \in BOOLEAN : CompactChat(p, mask, summarize)
    \/ CreateMeta(p) \/ ResumeOpen(p) \/ ResumeFails(p) \/ ResumeRead(p)
    \/ SyncBegin(p) \/ SyncCheckpoint(p) \/ SyncMessage(p) \/ SyncMessagesDone(p)
    \/ SyncUsage(p) \/ SyncRow(p) \/ SyncFails(p)
    \/ Leave(p) \/ Reindex(p)
    \/ DeleteOpen(p) \/ DeleteLock(p) \/ DeleteUnlink(p) \/ DeleteRow(p)

Spec == Init /\ [][Next]_vars

(***************************************************************************)
(* Properties.                                                             *)
(***************************************************************************)
(* The type of every variable.  Sequences of messages stay within what     *)
(* MaxMessages, the prompts and one summary allow.                         *)
TypeOK ==
  /\ file \in File
  /\ entry \in {"absent", "linked", "unlinked"}
  /\ lock \in Procs \cup {NoProc}
  /\ row \in IndexRow \cup {NoRow}
  /\ pc \in [Procs -> {"out", "meta", "row", "open", "resumed", "delete", "unlink",
                       "unlist"} \cup Chatting]
  /\ session \in [Procs -> Session \cup {NoSession}]
  /\ writer \in [Procs -> SessionWriter \cup {NoWriter}]
  /\ cursor \in [Procs -> Nat]
  /\ nextId \in Nat /\ faults \in Nat

(* No two processes can save the chat at once, however their opening,      *)
(* closing, crashing and deleting interleave (lock_writer).                *)
OneWriter == \A p, q \in Procs : HasWriter(p) /\ HasWriter(q) => p = q

(* When a sync has appended its last record, replaying the file gives      *)
(* exactly the session's conversation, usage and model ("Writes whatever   *)
(* `session` gained since the last sync", SessionWriter::sync): no message *)
(* is missing, written twice or out of place.                              *)
SyncedMeansSaved ==
  \A p \in Procs : pc[p] = "upsert" =>
    /\ Readable(file)
    /\ Conversation(Loaded(file).messages) = Conversation(session[p].messages)
    /\ Loaded(file).usage = session[p].usage
    /\ Loaded(file).model = writer[p].model

(* Whatever was interrupted, at most the final line is invalid: replay     *)
(* never meets an invalid record in the middle of the file.                *)
OnlyTailInvalid == ~file.corrupt

(* A chat that the index lists with messages can be reopened, and has      *)
(* some: the row is never written ahead of the records it counts.          *)
ListedIsResumable ==
  row # NoRow /\ entry = "linked" =>
    /\ Readable(file)
    /\ row.messages > 0 =>
         \E i \in 1..Len(Loaded(file).messages) :
           Loaded(file).messages[i].role \notin {"system", "summary"}

(* Compaction never touches the pinned prefix, nor any stretch at the end  *)
(* that starts with a user message and holds at most KeepTurns of them.    *)
IsSuffixFrom(i, old, new) ==
  LET len == Len(old) - i + 1
  IN  len <= Len(new) /\ SubSeq(new, Len(new) - len + 1, Len(new)) = SubSeq(old, i, Len(old))

CompactionKeeps(old, new) ==
  /\ SubSeq(new, 1, PinnedLen(new)) = SubSeq(old, 1, PinnedLen(old))
  /\ \A i \in UserPositions(old) :
       Cardinality({j \in UserPositions(old) : j >= i}) <= KeepTurns
         => IsSuffixFrom(i, old, new)

RecentTurnsKept ==
  [][\A p \in Procs :
       session[p] # NoSession /\ session'[p] # NoSession
         /\ session'[p].compactions > session[p].compactions
       => CompactionKeeps(session[p].messages, session'[p].messages)]_vars

(***************************************************************************)
(* The store implements SavedChat: what reopening the chat would show, and *)
(* the conversation of the process that is saving it.                      *)
(***************************************************************************)
Savers == {p \in Procs : HasWriter(p) /\ pc[p] \in Chatting \cup {"resumed"}}

SavedConversation == Conversation(Loaded(file).messages)
OpenConversation ==
  IF Savers = {} THEN NoChat
  ELSE Conversation(session[CHOOSE p \in Savers : TRUE].messages)
EarlierRewritten == \E p \in Savers : Rewrites(p)

Promise == INSTANCE SavedChat WITH
  saved <- SavedConversation, chat <- OpenConversation, rewritten <- EarlierRewritten

(* Nothing saved is lost, reordered or duplicated by a crash, a failed     *)
(* save, a reopening or another process: every step of the store is a step *)
(* of SavedChat.                                                           *)
KeepsPromise == Promise!Spec
=============================================================================
