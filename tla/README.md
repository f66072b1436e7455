# Rozu, modelled in TLA+

This directory models the behaviour of rozu, a coding agent with a terminal
front end (`rozu chat`), a desktop app and an MCP server. The modules follow
the Rust code under `src/crates/`; paths below are relative to `src/crates/`.
`PROJECT.json` maps every definition to the source lines it stands for.

Contents: [the system](#the-system), [the plan](#the-plan),
[modules and code](#modules-and-code), [runs](#runs), [fairness](#fairness),
[proofs](#proofs), [what is only model-checked](#only-model-checked),
[disagreements found](#disagreements-found),
[abstractions](#abstractions-and-what-is-not-modelled), [how to run](#how-to-run).

## The system

A *host* process (`rozu chat` or the app) keeps a `Session` (the message
history) and an `Agent`. A user message starts a *turn*: an async task that
sends the history to a model, streams the answer, runs the tool calls in it one
after another and repeats until the model makes no calls. Or the turn is given
to a vendor's CLI (Claude, Codex, Grok), which runs its own loop and calls back
for rozu's tools and for permission. Calls that the approval mode does not
allow ask the user through an `ApprovalGate`. The turn reports everything as
`AgentEvent`s on a bounded channel. Between turns the host compacts the history
when it is too long and appends what is new to the chat's file in the session
store.

| Component | State | Operations | Talks to | Hard behaviour | Correct when |
|---|---|---|---|---|---|
| Saved chats: `rozu-store/src/session*` | the JSONL file, its flock, the SQLite row, `SessionWriter{written, compactions, usage, model}` | create, resume, sync, set_model, delete, list, search, reindex | hosts (calls), other processes (file, lock, index) | a death or failed write inside any append; two processes; rewrite or append decided from counters | one writer; a finished sync saved the session exactly; nothing saved is lost, repeated or reordered; what is listed reopens, and is what its id names |
| Compaction: `rozu-core/src/compact.rs`, `agent/compaction.rs` | the message list | mask tool outputs, summarize and splice, set_system | turn loop, hosts, store (through `compactions`) | cuts between calls and results, off-by-one at the kept turns | prefix and recent turns kept, calls keep their results |
| Turn loop: `rozu-core/src/agent.rs`, `agent/stream.rs` | session, step, streamed text and calls, cancel token | run_turn, stream_step, backend_turn, cancel | provider, tools, gate, event channel | cancellation at every await, provider errors mid-stream, a full channel | every request is one the services accept; a cancelled turn ends |
| Execution and approval: `rozu-core/src/exec.rs` | the call's decision, its source, the retry | execute, decide, ask_gate, ask_user, run | tools, gate, policy | answer races cancellation; sandbox-blocked runs offered again | nothing runs without authority; every prompt closes; approvals reported once |
| Approval policy: `rozu-core/src/approval.rs` | mode, in-memory rules | auto_approval, matching_rule, confinement, remember | exec, sandbox | rules against network and missing sandbox; links that move after the answer | only documented allowances; written where it was shown |
| Always-allow file: `rozu-core/src/approval.rs` | file of rules, each process's list | for_project, remember, save | other processes (file) | read-modify-write without reading again | granted rules only; a saved rule stays |
| Command risk: `rozu-tools/src/command_risk*` | - | classify, rule, covers | policy, Codex approvals | a lexer beside the shell's | no write outside passes for a read; a rule covers its own command and no other |
| Interrupts: `rozu-cli/src/interrupt.rs`, `approve.rs` | press count, `turn_active`, current token, terminal mode, SIGINT and Notify | begin_turn, end_turn, signal handler, async task, tty reader | chat loop (atomics, mutex), turn (token) | four threads, two atomics and a mutex; merged signals and wake-ups | first press cancels, second exits; one turn per press |
| `rozu chat` loop: `rozu-cli/src/chat.rs` | session, writer, queue of typed lines | turns, slash commands, save | all above | type-ahead, a save cut short | see the components it drives |
| App backend: `rozu-app/src/backend.rs` | one task per chat, channels, tokens | start, send, cancel, close, forget, search | store, turn, chat view | tokens replaced while an earlier turn runs; deleting a busy chat | stop reaches the turn the user sees; deleted stays deleted |
| App chat view and window: `rozu-app/src/app.rs`, `app/search.rs`, `feed.rs` | feed items, pending cards, drafts, threads, pages, the search | apply updates, open, send, answer, delete, search | backend (one queue, two producers) | a late resolution and the retry share a request id; answers to older searches | a waiting prompt can be answered; a reopened chat shows what the live one showed; drafts stay |
| MCP server and bridge: `rozu-mcp/src` | in-flight calls, socket questions | serve, call, approve, ask | vendor CLIs, the chat's gate | hang-up while the user is asked; input that ends while calls run | each request answered once; a call runs only on the yes to that call |
| Vendor CLI backends: `rozu-cli-providers/src` | child process, the history it knows, queued decisions | start turn, reuse or respawn, permission answers, map a stream | turn loop (backend_turn), gate | reuse after cancelled, failed or compacted turns; text said twice | the child knows the session's history; each thing said is shown once |
| HTTP providers and retry: `rozu-providers/src` | SSE buffer, attempts, delay | request, retry, decode | turn loop | interleaved calls, broken streams, cancellation during a delay | one end, whole calls, bounded attempts |
| Choice of model: `rozu-runtime/src/factory.rs`, `rozu-providers/src/registry.rs` | the cached vendor sessions, selection | resolve, set_effort, pin, reopen | hosts, providers | a cached session built for an old choice | who answers is who was chosen, also after reopening |
| Tools: `rozu-tools/src` | workspace files, child process | write, patch, read, grep, shell | exec | links and directories moved by others, process groups and pipes | all or nothing, inside; calls end; answers are true |
| Terminal: `rozu-pty`, `rozu-cli/src/term.rs` | PTY buffers, reader, subscribers | spawn, write, resize, kill, wait | `rozu term` | ends in any order, full buffers | every byte seen; the terminal returns |
| Activity pill: `rozu-activity/src` | tracker, held-back state | apply, poll | event feed | overlapping calls, a held state shown after a newer one | what waits for the user is shown; the last state is shown |
| Memory, keys, logs, evaluation | files, the keychain | pin, load; set, remove; record; run, resume | hosts | limits checked before the append; keys cut in pieces; a death between row and newline | told what was pinned; no key logged; each run once |
| Prompts' wording, drawing, animation, menus | - | - | hosts | little | - |

`PROJECT.json` lists every component with its status and 40 hazards at the
lines where they bite; a hazard without a property says why.

## The plan

Order, most important first; *done* is what this directory holds now.

1. *Done.* `Compact` → `SessionStore` → `SavedChat` (abstract) with proofs:
   losing a conversation is the worst thing this program can do.
2. *Done.* `ApprovalPolicy` → `AgentTurn`: the loop that runs tools.
3. *Done.* `ApprovalRules` with proofs; `Interrupts`.
4. *Done.* The desktop app: `AppChat`, `AppWindow`, `ActivityTracker`, `Pill`,
   and the reopened chat, `SavedFeed`.
5. *Done.* The MCP server, `McpServe`, and its `Bridge`.
6. *Done.* The vendor CLIs: `VendorTurn` with `ClaudeCli`, `CodexCli`,
   `GrokCli`, `GrokHeadless`; their permission requests, `CliApprovals`, and
   their streams, `StreamMappers`.
7. *Done.* `SavedTurns`: histories over deaths and resumes against what the
   services accept.
8. *Done.* The tools and providers: `CommandRisk`, `ShellWords`, `Patches`,
   `FileWrites`, `Reading`, `ShellCall`, `Confined`, `Http`, `ModelChoice`;
   `Pty`; `ProjectMemory`, `ChatLookup`, `ApiKeys`, `Logs`, `EvalRuns`.
9. *Left.* The index file's own life (a death between creating it and the first
   rebuild, `rozu-store/src/session.rs:83`); the contents of typed-ahead lines
   at an approval prompt (`rozu-cli/src/approve.rs:339`); a `Bridge` with the
   chat's gate behind it, as an implementation of one abstract "ask once, answer
   once".
10. *Done.* Proofs of what `store` checks, the refinement included; of the turn's
    `HistoryWellFormed`, `Authorized` and `FeedComplete`; of the rules' file;
    of `Bridge`'s `RunsOnYes`, `Interrupts`' `OneTurnPerPress` and `Pty`'s
    `SeesEveryByte`; of the vendor CLIs' `VendorFollowsChat`: all safety
    properties that `turns` checks. Of the app's safety properties, all that `app`
    checks. Of the parts of `tools`: the turn on each machine, the requests of
    vendor CLIs, their streams, a shell call and what it writes, an evaluation,
    the choice of a model and of a key, the provider requests, the MCP server and the writes of files.
11. *Left.* Proofs: the folds behind `HistoryAccepted`, `CommandsUnderstood`,
    `TextsAreTrue` and `NoKeyLogged`; they would need an induction over
    sequences.

## Modules and code

```
store:   Compact <- SessionStore
             ^          ^  |  SessionStoreProofs, CompactProofs
             |             SavedChat (INSTANCE: the abstract promise)
tools:   ApprovalPolicy, Compact <- AgentTurn <- SavedTurns
                                        ^ AgentTurnProofs
         ApprovalPolicy <- CliApprovals
         ToolParts: ApprovalRules, CliApprovals, StreamMappers, ShellCall, Confined,
           EvalRuns, ModelChoice, ApiKeys, McpServe,
           Http, FileWrites, each with its proofs
         MCTools: ToolParts, AgentTurnProofs (for two machines), SavedTurns,
           ShellWords, CommandRisk, Patches, Reading, SavedFeed,
           ChatLookup, ProjectMemory, Logs; theorems of the whole
turns:   VendorTurn <- ClaudeCli, CodexCli, GrokCli, GrokHeadless
         MCTurns: those four, Interrupts (with its proofs), Bridge, Pty, AgentTurn
           <- MCTurnsProofs
app:     ActivityTracker <- AppChat
         ActivityTracker <- Pill
         MCApp: AppChat, Pill, AppWindow <- MCAppProofs
```

The three MC modules with several parts check each part alone: `part` is chosen
in `Init`, and a behaviour moves that part and leaves the others at their start.
The parts do not share state; each models what it sees of the others. `MCTools`
keeps the variables of all its parts in the same places, `v1` to `v25`, since
one part moves at a time. A property of such a run names the property of each
part it stands for.

### Saved chats and the turn

**Compact** - operators on message lists: `pinned_len`, `recent_start`,
`mask_tool_outputs`, the summary splice, `set_system`. A message is its role and
an identity. "stub" is a masked tool result, "summary" the message
`compact_with` inserts after the pinned prefix. A summary is a system message
to a provider but not pinned.

**SessionStore** - one chat, any number of processes. The file is kept as what
replaying its complete lines yields (`good`) and its `tail`, the only line that
may lack its newline: nothing, a whole record, a fragment (`Torn`) or two
records run together (`BadLine`). `AppendTo`, `CutAppends`, `Loaded` and
`Repaired` are `append`, what an interrupted append leaves, `replay`, and the
truncation at the start of `resume`. Each append, lock, unlink and index
operation is an action: `Create`/`CreateMeta`/`CreateRow`,
`ResumeOpen`/`ResumeRead`, `StartChat` (set_system, the app's model record),
`AddMessage`, `CompactChat`, `Pin`, `SetModel`, `SyncBegin`/`SyncCheckpoint`/
`SyncMessage`/`SyncMessagesDone`/`SyncUsage`/`SyncRow`,
`DeleteOpen`/`DeleteLock`/`DeleteUnlink`/`DeleteRow`, `Reindex`, and the failing
form of each append. `Leave` is an exit or a death, at every program counter; a
death inside an append leaves any of `CutAppends`. The two hosts differ where
the code does: the app gives up its writer when a record cannot be saved,
`rozu chat` keeps it after a failed model switch.

**SavedChat** - the abstract promise: a saved conversation and, while somebody
has the chat open, that conversation. Saving can only extend what is saved
towards what is open, or replace it when earlier messages were rewritten by a
compaction; closing or dying leaves the saved conversation as it is. The
mapping takes `saved` from replaying the file, `chat` from the session of
the process that can save, and `rewritten` from the writer's counter.

**ApprovalPolicy** - `auto_approval`, `matching_rule`, `confinement`,
`allow_rule`, the options of a prompt and `remember`, as operators on the kind
of a call (its risk, whether the sandbox can confine it, whether it wants the
network, the rule that names it).

**AgentTurn** - one session's turns with a model provider. `pc` is the await
the task is at; `Cancel` can come at any of them. The front end's view of the
events (`feed`) is kept to state what it can know. The gate is the front end's
half of a prompt: it shows it (`GateShows`), the user answers, or it decides
alone when the turn is cancelled or there is nobody to ask. The channel holds
`Capacity` events and `Send` waits for room, or is dropped once the front
end has hung up, as in `send` of `exec.rs` and `agent.rs`.

**SavedTurns** - `AgentTurn` over the writer of `SessionStore` (as records):
syncs after each turn, a death or failed write between two records, resume; and
how Anthropic's and OpenAI's `request_body` write the session into a request,
and which requests the services accept: roles that alternate where they must,
results next to their calls.

**ApprovalRules** - the always-allow file of a project and the processes that
load it once, add to their own list and write the whole list back through a
temporary file and a rename. **Interrupts** - the chat loop, the signal handler,
the async task and the tty reader, each atomic access or lock section a step: the
press count, `turn_active`, the current token, terminal mode, the pending SIGINT
(one at most), the stored wake-up (one at most) and the terminal's input.

### Vendor CLIs and MCP

**VendorTurn** - what the CLIs share: a session of user messages and answers,
`turn_text`, the token, what the CLI really knows (`cli.knows`, which rozu never
sees) and the ghost `gap`, the ways a CLI may have missed a part that the
providers do not know of. **ClaudeCli** - `has_history`, the process respawned
when it is false, the guard that drops it with a stopped stream. **CodexCli** -
one thread for the chat, `pending` interrupts, stale lines of stopped turns.
**GrokCli** - sessions in one process per model and their rotation.
**GrokHeadless** - one run per turn and the session id it resumes.

**StreamMappers** - the three `Mapper`s against a vendor who says text in pieces
and whole, calls twice, and mixes in foreign lines; usage of a turn out of
running totals. **CliApprovals** - the answers to Codex's, Grok's and Claude's
permission requests, and when the user must be asked. **ShellWords** -
`unwrap_shell` and `join_argv` against the shell's quoting.

**Bridge** - a call of an MCP server asks the chat over a connection; server and
CLI can be killed, the user may never answer. **McpServe** - the server's loop,
tasks, queue and writer, over lines of every kind and their end.

### Providers, tools, files

**Http** - `send_with_retry` and the decoding of both APIs' events.
**ModelChoice** - `resolve`, the hosts' choices, the factory's cached sessions,
the saved strings. **ApiKeys** - keychain, environment and `rozu auth`.

**CommandRisk** - `split_segments`, `tokenize`, classification, rule and covers,
with the shell (`Sh...`) as reference. **Patches** - `apply_unified_diff` and
edits against GNU diff. **FileWrites** - resolving, opening by directory handles,
checks, temporary file and rename, each system call a step. **Reading** -
`read_file`, `grep`, truncation. **ShellCall** - process group, pipes, timeout,
drain. **Confined** - outside paths as shown, and Seatbelt's rules as run.
**Pty** - program, heirs, reader, wait thread, subscribers and `rozu term`.

**ProjectMemory** - pins and loads of the memory file, in bytes.
**ChatLookup** - resolving prefixes, listing and searching rows.
**Logs** - masking of keys in pieces and previews. **EvalRuns** - rows and
`--resume` of the memory evaluation.

### The desktop app

**ActivityTracker** - events folded into one activity, as operators. **Pill** -
the debouncer over it, with overlapping calls and a clock. **AppChat** - one
conversation: the thread, the worker, the relay, the gate, and `forget`.
**AppWindow** - pages, drafts, projects, threads, the folder dialog, search and
deletion. **SavedFeed** - the thread shown live and the one rebuilt from the
saved messages.

A definition called "Variant" in a module is a plausible mistake kept next to
the operation it is a mistake of; none is used by a specification. Swapping it
in makes TLC report the property it is listed with in `PROJECT.json`, which
shows that the property depends on that piece of code.

## Runs

Deadlock checking is off where the bounded system legitimately stops (all
messages said, all turns taken, the process gone), and on for `rules_lost`.

| Run | Expect | Shows | Distinct states |
|---|---|---|---|
| `store` | pass | the saved chat: `TypeOK`, `OneWriter`, `SyncedMeansSaved`, `OnlyTailInvalid`, `ListedIsResumable`, `RecentTurnsKept`, and `KeepsPromise`: the store implements `SavedChat` | 542,237 |
| `tools` | pass | what a turn stands on, sixteen properties below | 1,719,175 |
| `turns` | pass | turns that fail, are stopped or interrupted: `HistoryWellFormed`, `Authorized`, `FeedComplete`, `VendorFollowsChat`, `RunsOnYes`, `OneTurnPerPress`, `SeesEveryByte`, and liveness: `CancelEndsTurn`, `CancelClosesPrompt`, `StopsEnd`, `TermReturns` | 136,308 |
| `app` | pass | the desktop app: `ThreadShowsTurn`, `PillShowsCalls`, `WindowKeepsChats`, the action properties `DeletedStaysDeleted` and `PillNoFlicker`, and `RequestsEnd` (liveness) | 596,364 |
| `store_memory_change` | violation | `SyncedMeansSaved` when the prefix changes length | - |
| `store_cli_model` | violation | `SyncedMeansSaved` when a failed model switch keeps the writer | - |
| `rules_lost` | violation | `FromNowOn`: a rule once kept is in the file from then on | - |
| `interrupts_paste` | violation | `SecondPressExits` | - |
| `codex_switch` | violation | `KnowsChatAfterOtherModel`: a Codex turn after another provider's | - |
| `patch_insert` | violation | `InsertionTrustsHeader`: a hunk without old lines | - |
| `model_slash` | violation | `SavedChatOpens`: a saved model whose id has a slash | - |
| `resume_torn` | violation | `RequestAfterResume`: a chat whose last save was cut short | - |

What the properties of `tools`, `turns` and `app` say:

- `HistoryWellFormed` - whenever a request or a save may see the history, each
  call in it has its result and each result its call, whatever was interrupted,
  failed or compacted before. `HistoryAccepted` - every request of the loop is one
  that Anthropic and OpenAI accept, also after a chat was left between two saves
  and resumed. `Authorized` - a call runs only with the authority of the mode,
  a rule or an answer to that call. `FeedComplete` - when the turn is over, no
  step of the feed is open and every approval was reported once.
  `CallsAccountedFor` is both for the turns of `tools`, in auto mode.
  `CliAsksTheUser` - the vendor CLIs' own requests are answered only by what
  the mode allows or the user said, and never with more than was asked.
- `SaidOnce` - text, calls and tokens of a vendor's stream are reported once.
  `VendorFollowsChat` - what the CLI's conversation holds is the chat's history,
  but for the gaps listed under [disagreements](#disagreements-found), and an
  answer is one to the prompt of its turn. `RunsOnYes` - the MCP server runs a
  call on the yes given to that very call. `OneTurnPerPress` - a press of
  Ctrl-C is counted once and cancels one turn at most. `StopsEnd` - a stopped turn
  of a vendor's CLI, a question whose asker is gone and a turn that was
  interrupted at the terminal end.
- `CommandsUnderstood` - rozu's words of a line are the shell's; nothing the shell
  would do ranks above the risk rozu found unless that is "opaque", which asks; and
  stored rules let only commands through that begin with their words.
- `EditsAreWhole`, `WritesStayInside`, `WritesAsShown` - a file is the old text or the
  whole new one; a write goes to a directory that was in the workspace while the call
  ran, or that others put beneath one that was, although directories and links move; a
  command writes where the prompt said. `CallIsOver` - after a shell call, no process of its
  group lives and what it printed is there or counted as omitted.
- `AnswerOnce`, `ModelAsChosen`, `SavedChatOpens` - providers and MCP requests end
  once, in order, with whole calls; the model that answers is the one chosen.
- `TextsAreTrue`, `NoKeyLogged`, `RunsOnce` - a patch that applies makes the change it
  was made from; grep, read_file and truncation agree
  and count what they left out; a pinned note is told to the model; a
  reopened chat shows what the live one did; a chat is found by its id; no part
  of a key is logged; an evaluation row is neither lost nor repeated.
- `ThreadShowsTurn`, `PillShowsCalls`, `WindowKeepsChats` - what waits for the user
  can be answered and what is shown is what happens; drafts, threads and
  results belong to what is open.

Bounds, and the case each one is there for:

- `store`: a CLI and an app process (two are what a conflict over the lock needs),
  a prompt of 2, 2 models, 3 messages, 1 kept turn, 1 compaction: an old turn and a
  kept one, so that a compaction can mask, summarize or find nothing to do, before
  or after a first save, and a resume can follow. One failed or cut append at
  any append, with deaths anywhere (not bounded), reaches every tail: whole, torn,
  unterminated and, through `cli_model`, two records in one line.
- `tools`, the turn: watched under a sandbox in auto mode (refused, outside and
  network calls, 1 turn, 2 steps, 2 calls), bare on a machine without one and with
  a stored rule (workspace writes, outside and destructive calls, 2 turns), and
  saved (3 turns of 1 call: one before, one during and one after a cut save). Two
  calls in a response make one before, during and after a cancellation; the
  channel holds 1 event, so that every send can block.
- `tools`, rules: a chat and its mcp-serve, 2 rules, 1 failed save or death: the
  smallest lost update (violated in `rules_lost`).
- `tools`, commands: words of 5 characters (an escape within quotes within a
  wrapper), and lines of 4 fragments out of 18: a program, an argument, a quote or
  separator and its counterpart; scripts nested once more than allowed.
- `tools`, files: 4 script steps over 3 distinct lines with drift and context of 1
  make repeated lines a hunk can be misplaced to; 2 moves put a directory or link
  in and out of place; texts of 4 characters cross every limit (which are 2 to 4).
- `tools`, others: a shell call with 1 child that outlives it; 2 calls of 2 pieces
  interleaved and 2 retries of a request; 2 items of 2 pieces over 3 turns of a
  stream; 2 MCP lines; 2 evaluation keys and 2 faults; 2 chats, a limit of 5 bytes
  and 1 foreign edit of the memory file; 2 turns of 2 steps with 2 calls each, 5
  saved parts; 3 ids in 2 folders; 2 providers' keys.
- `turns`: three turns of a chat (a gap, a turn after it, and one after that), a CLI
  2 lines ahead of rozu (1 for Codex and Grok's ACP), 2 models for Claude, 1 rotation, 2 servers with 1 call each, 1 agent turn of 2
  calls that all ask (read_only, where a stored rule must not answer either), 2 turns at a terminal with 3 presses (one is
  after the double press), a program in a terminal with 2 chunks through room
  for 1, and 1 typed chunk.
- `app`: 2 prompts with 1 call, stop and deletion at any point; 2 overlapping calls
  under the pill with a dwell of 2 in 3 ticks; 1 project, 2 sessions, 2 threads
  and 2 inputs, so that an answer can come for the one that is no longer open.

## Fairness

`SessionStore`, `ApprovalRules` and every part of `MCTools` state safety only and
assume none.

`AgentTurn`: the runtime polls a task that can go on (`WF(TaskStep)`), the front end
drains its channel (`WF(Receive)`: both hosts do so in a loop while the turn
runs), and a summary request whose turn was cancelled ends (it selects on the
token). *Nothing* is assumed of the provider, the tool or the user: the
cancellation branch of every `select` is a step of the task itself.

`Interrupts`: every thread runs, and a turn whose token was cancelled ends, which
is what `CancelEndsTurn` shows of the turn. The user need not type, and a turn that
is not cancelled need not end.

Vendor CLIs: `Progress` is rozu's side of a turn only (reading what is there,
noticing the token and the end of the process). The CLI may hang for ever:
`StopsEnd` says that a *stopped* turn ends.

`Bridge`: for every call, that the chat accepts a connection, writes the answer the
user gave, notices a hang-up, and that the server hears what was written. The user
need not answer. `Pty`: the reader, the wait thread, the typing thread and
`rozu term` run; the program and its heirs need not write or end. `AppChat`: the
conversation's task, the relay, the window's queue, and the two halves of `forget`
run; the user need not do anything.

In `MCTurns` one part moves in a behaviour, so a weak fairness condition there
joins one process of each part: while a part moves it is that part's own.

## Proofs

Checked by TLAPS for every value of the constants, from the assumptions of the
modules: `StoreAssumption`, `TurnAssumption`, `RulesAssumption`,
`AppChatAssumption` and `PillAssumption` give the constants their kinds, and
`NoneAssumption`, `IdleAssumption` and `WindowAssumption` say that a value that
stands for "none" is not a real one (the last also that the bound on threads has
room for the chats that are saved at the start, of which there are finitely many).
`ToolParts` assumes of its constants that a shell call waits for its pipes for
less than the turn gives it beyond its own timeout (`shell.rs:32`, `shell.rs:179`);
that paths, models and typed keys are sequences; that a line which could not be
read is none of the lines (`UnreadAssumption`); that the bounds of a request are
naturals (`HttpAssumption`); and that `/private`, where macOS
keeps `/etc`, is reached through `/etc` only: neither the link that others move
leads there, nor does a command name `/private/etc` (`too_broad_to_grant` counts
components, `sandbox.rs:99`, so it would grant that directory as a whole).
TLC evaluates them all in the runs. Each invariant below was first checked by TLC
as an invariant of the runs' instances (`ThreadInv` on 3,991,398 states with two
calls a turn; the pill's and the window's on the 596,364 states of `app`). A step lemma has one case per action; the temporal steps are
propositional (`PTL`).

### Saved chats: `SessionStoreProofs`, `CompactProofs`

- `TypeCorrect`. Lists of messages are unbounded sequences here, so this carries
  the lemmas on replay, masks, summaries and `set_system` (`CompactProofs`, which
  the turn's proofs use too).
- `OneWriterAlways`. `OneWriter` is not inductive: it does not say why a second
  process cannot get a writer. `Owned` adds that whoever has a writer holds the
  lock, at which steps a process has one, and at which it has a session; a
  process gets a writer only together with the free lock.
- `RecentTurnsAreKept`: no step of any process compacts away the prefix or the
  turns to be kept, for every `KeepTurns`.
- `SyncedMeansSavedAlways` and `OnlyTailInvalidAlways`, for a prefix of one
  length (`PromptLens = {k}`) and hosts that give up their writer when a record
  cannot be saved (`"cli_model" \notin FaultPoints`). Both provisos are
  necessary: `store_memory_change` and `store_cli_model` are what happens
  without them. `SyncedMeansSaved` speaks only of the end of a sync, so the
  invariant `SavedInv` relates the file, the writer's counters, the cursor and
  the session at *every* step: the file holds `written` messages, and while
  no compaction waits to be written they are the session's first `written`
  (apart from the prefix's text); during a sync the first `cursor`; usage and
  model are what the writer recorded; and whoever has a writer faces a file
  without a tail. A failed append takes the writer away, which is
  why the tail it leaves never meets a writer again before `Repaired`.
- `ImplementsSavedChat`, under the same provisos: `Spec => KeepsPromise`, the
  refinement of `SavedChat`. Every action is first shown to be a step of one kind
  (`StepOf`: nothing that the mapping sees moves, a writer is taken or
  dropped, a message is added, the session compacted, the saved part extended
  or written anew); each kind then is a step of `SavedChat` or a stutter.
- `ListedIsResumableAlways`, under the same provisos and `KeepTurns # 0`. A row
  is written with a title only when a user message was saved; `Spoken` says that a
  session beyond its prefix opens with one, and `RowFits` that the row says
  of the file what replaying it yields. With `KeepTurns = 0` a compaction may
  leave no user message, and TLC finds a listed chat without one; the program
  keeps 3 (`keep_turns` of `MemoryPolicy`).

### The turn: `AgentTurnProofs`

For any calls, rules, modes, capacities and numbers of turns, steps and calls.

- `TurnTypeCorrect` and `AuthorizedAlways`, from `Authority`: what the task holds
  in its hands at each await. The open prompt is about the call and the attempt in
  progress, and its answer is one that it offers (`PromptKnown`); an approval is
  the answer to that prompt, or what the mode or a rule allows (`VerdictKnown`); and
  a second attempt follows a first one that ran in the sandbox (`RunKnown`).
- `FeedCompleteAlways`. `FeedComplete` speaks of the end, after the last event was
  taken. `Fed` says at every step what the front end will show once the
  events in the channel are taken: exactly the prompt that the task waits at, and
  no call but the one it is at. `Reported` counts the reports, received or on their
  way: none of a call that was not judged yet, one of a first attempt and one more
  of a second.
- `HistoryWellFormedAlways`. `HistoryKnown` says of the times in between that the
  last response's calls are answered up to the one the task is at, and everything
  before is in balance; a compaction happens only when all is in balance, and
  the lemmas on masks and splices show that it cuts between turns.

### Rules, questions, presses, output: `ToolParts`, `Interrupts`, `MCTurnsProofs`

`ToolParts` has the rules' proofs, `Interrupts` its own, and `MCTurnsProofs` is about
the parts of `MCTurns`.

- `OnlyGrantedAlways`, from `Safe`: what a process has loaded, is about to
  write or has stored was granted by the user. `FromNowOnUnsharedAlways`, from
  `Alone`: while at most one process has been at work at a time, its list, and
  the one it is about to write, include all that was kept.
- `RunsOnYesInTurns`, from `Bridge`'s `Asking`: what is written on a call's connection is what
  its gate decided, and the server goes on, or has run the call, only on a yes
  that was written there.
- `OneTurnPerPressAlways`, from `Counted`: presses counted and presses not yet
  noticed are together no more than the presses made; and so are turns
  cancelled, threads on their way to cancel one, the stored wake-up and presses not
  yet noticed. The two sums are needed because a press that is noticed leaves
  the last and enters one of the others.
- `OneTurnPerPressInTurns`: the same of `MCTurns`, whose other parts leave the
  keys' variables alone, as they do the questions'.
- `SeesEveryByteAlways`, from `Pty`'s `Passing`: the numbers that were told, that of the
  chunk the reader holds and those of the terminal's output are one rising
  sequence (`Ordered`), although a program's death may drop output that nobody
  read; and each subscription has exactly the positions told since it was made,
  a closed one too, which is closed only after the reader ended (`Subscribed`).

### The vendors' CLIs: `MCTurnsProofs`

`VendorFollowsChatAlways`, for any number of turns, models and rotations and
however far a CLI is ahead of what rozu reads.

rozu never sees what a CLI knows; it sees a process, its lines, and what it sent
itself. So the proof relates the two at every await. `Conversing` is what all four
share: one process at most, and nothing told but in a turn that streams. `Quiet`
is a process that was sent nothing since it last answered; it may have died.
`Primed` says that what it is about to be sent, the prompt alone or the whole
conversation, leaves it knowing the chat. While a turn streams, its lines are the
answer, an end and the end of the output, in this order, none of an earlier
turn (`InOrder`), and the CLI knows the chat without the answer, or with an
answer that was told or is the one text among its lines (`Knowing`). A line that
is read moves the answer from the lines to what was told; a step of the CLI moves
it from nowhere to the lines; anything else leaves the process as it is.

Then per provider, when that holds:

- `ClaudeKnows`, always: between turns, if the recorded history is the session,
  the process is quiet and knows it; the guard that drops the process with a
  stopped stream is what makes it quiet.
- `CodexKnows`: while the thread exists and no turn was stopped before the CLI
  had accepted it, no line is pending between turns, and what follows the answer
  to `turn/start` is in order (`Awaited`). What it knows is the chat only while
  `gap` is empty.
- `GrokKnows`: the same with sessions, whose rotation starts an empty one.
- `HeadlessKnows`: each run starts from what its saved session knows, or from
  nothing, and is then sent all.

### The app's conversation: `MCAppProofs`

For any number of prompts and calls.

- `DeletedForGood`: `Spec => DeletedStaysDeleted`. `Leaving` says that a chat on
  its way out belongs to no thread, and that its worker has closed and the chat is
  gone once the history is deleted, so nobody is left to write it again.
- `ThreadShowsTurnAlways`. What the window shows and what the worker does are two
  queues apart, so the property does not survive a step by itself. `ThreadInv`
  adds: the types and who is alive; that turns follow one after the other, a
  turn's end being the last thing in the queues (`OneTurn`); that stop reaches the
  turn that runs (`StopReachesTurn`); that the feed as it *will be*, once the
  window has taken the updates and then the events, fits the place the worker
  is at (`OrbFits`, with `Becomes`, `Works` and `Rests`); and that the question the
  worker waits on is on its way to the window, open there, or answered
  (`CardsFit`), while a "yes" that is reported never settles a card that is still
  open, which is what a late resolution next to a retry with the same call
  could do.

### The app's pill and window: `MCAppProofs`

Of `MCSpec`: each part's invariant is inductive under the part's own steps, and
the other parts leave its variables alone.

- `PillShowsCallsAlways` and `PillNeverFlickers`, for any calls, however their
  events overlap, any dwell and both ways of naming a call. `Prompted`: the
  tracker's open prompts are those of the calls that were asked and not answered;
  it waits exactly while there is one, and what it would fall back to is never
  waiting (`Tracks`, kept by every event). `Paced`: what is urgent is shown, what is
  held back is what the tracker says, and its dwell runs.
- `WindowKeepsChatsAlways`, for any projects, saved chats and models.
  `OpenThreads`: ids and chats tell threads apart, each thread is in a folder of
  the list and its chat was saved there; without the folders a project that is
  added again could open a chat twice. `Drafting`: the composer and the drafts
  together hold at each place what was typed there, and `Switch` moves it without
  a loss (`Switches`). `Searching`: while the search page is open its request is
  for the query and the list of projects as they are, and what a task has read, or
  the page shows, includes all that is wanted; chats are saved only by steps that
  leave the page. `RemoveProject` takes the folder out of the list by its place
  (`RemoveAt`), since it is there once (`Listing`).

### What a turn stands on: `ToolParts`, `MCTools`

`ToolParts` has for each of its parts an invariant that is inductive under the
part's steps; the theorems are `MCTools`', whose steps move one part and leave the
others where they are (`PartsApart`).

- `CallsAccountedForAlways`: the turn's lemmas (`AgentTurnProofs`) for the machine
  with a sandbox and the one without; `WatchedFits` and `BareFits` show that those
  instances meet the turn's assumption.
- `CliAsksTheUserAlways`, from `AnswersFit`: whatever the request, mode, rules and
  answer, an answer that gives more than a sandboxed call of its class was the
  user's. The proof follows an answer through its three layers (what the CLI asks,
  the call rozu makes of it, what `ask_user` or `decide` says of that call).
- `SaidOnceAlways`, from `StreamInv`: what was shown of the message that streams is
  what came of it so far, so that a whole message after its pieces adds what is
  left, no more; and the tokens counted so far and those of the turn in hand are
  the last total.
- `CallIsOverAlways`, from `CallInv`: each chunk is in a pipe or was counted, no
  process of the group runs once the call stopped running, a reader has ended only
  with its pipe empty and unheld, and each wait ends in time, which needs the
  assumption on the grace above.
- `WritesAsShownAlways`, from `GrantedAsShown`: what a call that runs was granted is
  what its request showed, and the profile's last word on a path (`MayWrite`) is
  that grant's.
- `RunsOnceAlways`, from `EvalInv`: no two lines count for one key, since a run
  begins only for a key that no line counts for; and of the keys that the run has
  passed all are counted for but two, which a torn line took.
- `ModelAsChosenAlways`, from `ChoiceKept` and `KeysKept`: the sessions the factory
  keeps of a CLI that takes an effort are of its effort, and that is the selected
  one whenever an agent is built; what is saved is what `resolve` gave, and
  `resolve` gives it again; what the keychain has is trimmed, and what was last
  said of a key holds until something that it depends on changes. That a trimmed
  text stays as it is needs the first and last of some places to exist, which
  follows from the order of the numbers (`LeastOf`).
- `AnswerOnceAlways`, from `Served` and `HttpKept`. Of the MCP server: no answer is
  in the queue or on the wire twice, each is to a request whose task is done, and
  until the writer fails what is done has its answer. Of a provider's answer: what
  the stream gave of each call is at every moment what the server told of it
  (`Told`, picked from the stream by `Selects`), and what the decoder knows of the
  call follows from what was sent (`Knows`), so that a call that ends with its
  arguments is given them only if no delta was; tokens and the reason it stopped
  are those sent (`Counts`). Of the requests before it: as many as attempts, and a
  wait under way is as long as the policy or the server's `Retry-After` says
  (`Attempts`).
- `EditsAreWholeAlways`, from `NotYet`: until the call is over the file has none of the
  new text, and what is about to be renamed is whole.
- `WritesStayInsideAlways`, from `StillInside`. What the tool has opened was in the
  workspace, and so was all beneath it (`OpenedWithin`), so that the next directory,
  which `openat` finds in the last one, was too. Unless others moved one of them, each
  opened directory is in the one before it (`Descends`), so what is above the last
  are those that the check compares; and until others move something, what the last
  check said holds (`Checked`). The theorem is for any number of moves by others.
  `Reached` counts what others put beneath a directory of the workspace as within,
  since a directory that was moved out while it is open can be given another one
  (four moves; the run's two do not reach it): openat then finds that one, and no
  check of the code would notice.

## Only model-checked

- Liveness (`CancelEndsTurn`, `CancelClosesPrompt`, `StopsEnd`, `TermReturns`,
  `RequestsEnd`): the prover handles neither fairness nor ENABLED.
- Of `tools`: `HistoryAccepted`, `CommandsUnderstood`, `TextsAreTrue`,
  `NoKeyLogged`. They compare what is computed
  by folds and recursive functions over texts, paths, messages and events with
  what should come out, for every text: that is induction over data.


## Disagreements found

1. `rozu-runtime/src/context.rs:56` (`store_memory_change`): `set_system`
   changes the prefix's length while `SessionWriter.written` is an index into
   the list. After the project memory comes or goes, the next sync skips a
   message or saves one twice.
2. `rozu-cli/src/chat.rs:243` (`store_cli_model`): after a failed save of
   a model switch `rozu chat` keeps its writer; the next record is appended to
   the fragment and cannot be read back. The app drops its writer.
3. `rozu-core/src/approval.rs:589` (`rules_lost`): `remember` writes the
   process's own list over the file, so of two processes the later one drops
   the other's rule, "in this project from now on" notwithstanding.
4. `rozu-cli/src/interrupt.rs:62` (`interrupts_paste`): with a line typed
   ahead, the second Ctrl-C of a paste can reach the next turn, whose count
   starts again, and rozu does not exit; `src/docs/cli.md:58-59` says a second
   press always does.
5. `rozu-cli-providers/src/codex/mod.rs:663` (`codex_switch`): a Codex thread
   that exists is taken to know the chat, also after a turn that another
   provider's model answered; `turn.rs:5-7` says the earlier conversation comes
   first then. Only Claude's backend compares histories; `GrokCli` and
   `GrokHeadless` have the same gap.
6. `rozu-tools/src/patch.rs:281` (`patch_insert`): a hunk without old lines is
   inserted one line before the place its header names.
7. `rozu-cli/src/chat.rs:139`, `rozu-app/src/app.rs:119` (`model_slash`): a saved
   model whose id has a slash of its own is split again when the chat is opened,
   which then fails.
8. `rozu-store/src/session.rs:405` (`resume_torn`): a save cut between two records
   leaves calls without results, and every later request of the resumed chat is
   refused.

Met while modelling, each without a run of its own, since no quoted line says
otherwise, or what differs is wording:

- `VendorTurn`'s `gap` lists what a CLI may have missed without rozu knowing:
  another provider's turn (5 above); a turn stopped before the CLI had accepted
  it, whose late lines meet the next turn (`stopped_early`); a headless run that
  failed after its session was resumed (`failed_run`). The properties
  `...ButForGaps` are about all other behaviours. That a cancelled Codex or Grok
  turn is interrupted by `cancel` (`codex/mod.rs:18`, `grok/mod.rs:23`) never
  happens through the agent, which drops the stream.
- The pill names an MCP call `mcp-N` from one counter per server
  (`rozu-mcp/src/server.rs:292`) and joins events by that name
  (`rozu-activity/src/events.rs:236`), so two servers' calls can share one.
- Subscribing to a terminal after its program ended never ends (`rozu-pty`);
  `SeesEveryByte` is about subscribers that were there.
- `default_provider` answers with OpenAI when only a key of another provider is
  set. `resolve` of a prefix counts empty chats and those of other folders.
- An edit's `old` "must occur exactly once" (`rozu-tools/src/patch.rs:75`), but
  `match_indices` (line 100) counts only places that do not overlap: an `old` at
  two overlapping places is replaced at the first, without an error.
  `AppliedEditIsTheChange` of `Patches` states the stronger promise and TLC
  violates it with the constants of `patch_insert.cfg`.
- grep cuts a hit after 300 characters without saying so.
- A live feed has no step for calls skipped after a cancellation, while a reopened
  one shows them as failed; steps of CLI-backed turns are not saved at all.
- A program that leaves its process group (`setsid`) outlives its shell call, as
  `rozu-tools/src/shell.rs:4-6` says.

## Abstractions and what is not modelled

- Texts, names, outputs and their wording; a message is its role and identity.
  Token thresholds are a free choice (compaction may happen or not).
- `SessionStore`: a sync may come at any point of a chat, more often than the
  hosts call it. Usage grows with messages and summaries only (a failed turn
  that reported usage is not a case of its own). Writes reach the disk in order:
  no loss of power between two of them. A chat's id is unique.
- `AgentTurn`: ids of calls are unique; the risk of a command is an input. The
  provider is an environment that streams text and calls, stops, or fails; a tool
  ends, times out or is blocked. `Hangup` is the receiver of `run_turn` being
  dropped.
- `Interrupts`: SIGINT and Notify are merged while one is pending, as the
  system and tokio do; sequentially consistent atomics, as in the code. Lines
  typed ahead have no contents, so which one answers a prompt is left open.
- Vendor CLIs: what a CLI does with its conversation is an environment that keeps
  to its protocol, and may die, hang or be slow.
- `CommandRisk`: one program, option or operand stands for each class of the
  tables; descriptors (`2>`), input redirections, pip and the directory listing of
  tools are left out. The shell is the POSIX one, without arithmetic, here
  documents and aliases.
- `Confined`: Seatbelt's rules; the Linux sandbox's probe and profile texts are
  inputs.
- Not modelled: drawing, layout, text editing and animation (no state that a
  property could be about); the index file's creation (`session.rs:83`) needs a
  module of its own; the replay provider, scripted evaluations and recorded
  sessions are test doubles or run once, in sequence; the sign-in commands of
  the vendors are only started; the lists of models are network reads; prompts'
  wording and slash-command parsing.

## How to run

```
tlc -workers 2 -config store.cfg SessionStore.tla
tlc -workers 2 -config tools.cfg MCTools.tla
tlc -workers 2 -config turns.cfg MCTurns.tla
tlc -workers 2 -config app.cfg MCApp.tla
for m in CompactProofs SessionStoreProofs AgentTurnProofs MCAppProofs \
         Interrupts MCTurnsProofs ToolParts MCTools
do tlapm $m.tla; done
```

The four passing runs take two to four minutes each with two workers.
`PROJECT.json` names the module and configuration of every run.
