-------------------------------- MODULE Pty --------------------------------
(***************************************************************************)
(* A program in a terminal (rozu-pty) and `rozu term`, which passes it on  *)
(* to this one (rozu-cli term.rs): the program, what it leaves behind, the *)
(* PTY's two buffers, the reader and the wait thread, a thread that types, *)
(* and the main loop.                                                      *)
(*                                                                         *)
(* Output comes in chunks, numbered; a chunk with a query makes the screen *)
(* answer by writing to the program.  The screen's lock is held while a    *)
(* chunk is parsed, the writer's while something is written.  Output that  *)
(* nobody read may be lost when the program is gone (Linux).  The cells,   *)
(* the cursor and the 64 KiB of a read are left out.                       *)
(***************************************************************************)
EXTENDS Naturals, Sequences

CONSTANTS
  Room,      \* chunks each of the PTY's buffers holds
  MaxChunks, \* bound: chunks of output
  MaxTyped,  \* bound: chunks typed
  Later      \* subscriptions made later

VARIABLES
  program, heirs, \* "runs" or "gone"; a process it started holds the terminal too
  status,         \* ExitState: the wait thread has told the exit
  killed,
  input, output,  \* the PTY's buffers: a number of chunks; chunks [n, query]
  chunks, typed,  \* written by the program, and by the typing thread
  reader, chunk,  \* "reads", "parses", "answers", "replies", "tells", "ended"; the chunk
  typing,         \* the typing thread: "idle", "writes", "ended"
  subs,           \* of each subscription: "none", "open", "closed"
  got, since,     \* what each received; the chunks told before it
  told,           \* chunks told, in order
  term            \* main loop: "loops", "resizes", "waits", "done"

pty == <<input, output, chunks, typed>>
heard == <<subs, got, since, told>>
vars == <<program, heirs, status, killed, pty, reader, chunk, typing, heard, term>>

Term == 0 \* rozu term's own subscription
Subs == {Term} \cup Later
Gone == program = "gone" /\ ~heirs
ScreenLocked == reader \in {"parses", "answers", "replies"}
WriterLocked == reader = "replies" \/ typing = "writes"

(* Variant: the session is spawned first and subscribed to then.           *)
OpenedAfter(s) == "none"
(* spawn_subscribed: the first subscription is there before the reader.    *)
Opened(s) == IF s = Term THEN "open" ELSE "none"

Init ==
  /\ program = "runs" /\ heirs = FALSE /\ status = FALSE /\ killed = FALSE
  /\ input = 0 /\ output = <<>> /\ chunks = 0 /\ typed = 0
  /\ reader = "reads" /\ chunk = {} /\ typing = "idle" /\ term = "loops"
  /\ subs = [s \in Subs |-> Opened(s)]
  /\ got = [s \in Subs |-> <<>>] /\ since = [s \in Subs |-> 0] /\ told = <<>>

-----------------------------------------------------------------------------
(* The program, and what it leaves behind.                                 *)
Write(query) ==
  /\ ~Gone /\ chunks < MaxChunks /\ Len(output) < Room
  /\ chunks' = chunks + 1 /\ output' = Append(output, [n |-> chunks + 1, query |-> query])
  /\ UNCHANGED <<program, heirs, status, killed, input, typed, reader, chunk, typing, heard, term>>

ReadInput ==
  /\ ~Gone /\ input > 0 /\ input' = input - 1
  /\ UNCHANGED <<program, heirs, status, killed, output, chunks, typed, reader, chunk, typing,
                 heard, term>>

Fork ==
  /\ program = "runs" /\ ~killed /\ ~heirs /\ heirs' = TRUE
  /\ UNCHANGED <<program, status, killed, pty, reader, chunk, typing, heard, term>>

Exit ==
  /\ program = "runs" /\ program' = "gone"
  /\ UNCHANGED <<heirs, status, killed, pty, reader, chunk, typing, heard, term>>

HeirsExit ==
  /\ heirs /\ heirs' = FALSE
  /\ UNCHANGED <<program, status, killed, pty, reader, chunk, typing, heard, term>>

LoseOutput ==
  /\ Gone /\ output # <<>> /\ output' = <<>>
  /\ UNCHANGED <<program, heirs, status, killed, input, chunks, typed, reader, chunk, typing,
                 heard, term>>

(* kill: nothing to do once the exit is known.                             *)
Kill ==
  /\ ~killed /\ killed' = TRUE
  /\ program' = IF status THEN program ELSE "gone"
  /\ UNCHANGED <<heirs, status, pty, reader, chunk, typing, heard, term>>

Waited ==
  /\ program = "gone" /\ ~status /\ status' = TRUE
  /\ UNCHANGED <<program, heirs, killed, pty, reader, chunk, typing, heard, term>>

-----------------------------------------------------------------------------
(* The reader thread.                                                      *)
Read ==
  /\ reader = "reads" /\ output # <<>>
  /\ reader' = "parses" /\ chunk' = {Head(output)} /\ output' = Tail(output)
  /\ UNCHANGED <<program, heirs, status, killed, input, chunks, typed, typing, heard, term>>

(* parser.advance: a query's answer goes through the writer's lock.        *)
Parse ==
  /\ reader = "parses"
  /\ reader' = IF \E c \in chunk : c.query THEN "answers" ELSE "tells"
  /\ UNCHANGED <<program, heirs, status, killed, pty, chunk, typing, heard, term>>

Answer ==
  /\ reader = "answers" /\ ~WriterLocked /\ reader' = "replies"
  /\ UNCHANGED <<program, heirs, status, killed, pty, chunk, typing, heard, term>>

(* write_all: until there is room, or nobody is left to read.              *)
Reply ==
  /\ reader = "replies" /\ (input < Room \/ Gone) /\ reader' = "tells"
  /\ input' = IF Gone THEN input ELSE input + 1
  /\ UNCHANGED <<program, heirs, status, killed, output, chunks, typed, chunk, typing, heard, term>>

Tell ==
  /\ reader = "tells" /\ reader' = "reads" /\ chunk' = {}
  /\ told' = Append(told, (CHOOSE c \in chunk : TRUE).n)
  /\ got' = [s \in Subs |-> IF subs[s] = "open" THEN Append(got[s], Len(told) + 1) ELSE got[s]]
  /\ UNCHANGED <<program, heirs, status, killed, pty, typing, subs, since, term>>

(* Variant: the session keeps its own handle of the program's side.        *)
SlaveKept == FALSE
(* Only the program, and what it started, keep the slave side open.        *)
EndOfOutput == Gone /\ output = <<>>

ReadEnd ==
  /\ reader = "reads" /\ EndOfOutput
  /\ reader' = "ended"
  /\ subs' = [s \in Subs |-> IF subs[s] = "open" THEN "closed" ELSE subs[s]]
  /\ UNCHANGED <<program, heirs, status, killed, pty, chunk, typing, got, since, told, term>>

(* subscribe: output from now on.                                          *)
Subscribe(s) ==
  /\ subs[s] = "none" /\ subs' = [subs EXCEPT ![s] = "open"]
  /\ since' = [since EXCEPT ![s] = Len(told)]
  /\ UNCHANGED <<program, heirs, status, killed, pty, reader, chunk, typing, got, told, term>>

-----------------------------------------------------------------------------
(* rozu term: keystrokes go to the program,                                *)
Type ==
  /\ typing = "idle" /\ typed < MaxTyped /\ ~WriterLocked
  /\ typing' = "writes" /\ typed' = typed + 1
  /\ UNCHANGED <<program, heirs, status, killed, input, output, chunks, reader, chunk, heard, term>>

Typed ==
  /\ typing = "writes" /\ (input < Room \/ Gone)
  /\ typing' = IF Gone THEN "ended" ELSE "idle"
  /\ input' = IF Gone THEN input ELSE input + 1
  /\ UNCHANGED <<program, heirs, status, killed, output, chunks, typed, reader, chunk, heard, term>>

(* output comes back, and size changes are passed on between chunks.       *)
Resize ==
  /\ term = "loops" /\ subs[Term] = "open" /\ term' = "resizes"
  /\ UNCHANGED <<program, heirs, status, killed, pty, reader, chunk, typing, heard>>

Resized ==
  /\ term = "resizes" /\ ~ScreenLocked /\ term' = "loops"
  /\ UNCHANGED <<program, heirs, status, killed, pty, reader, chunk, typing, heard>>

Disconnected ==
  /\ term = "loops" /\ subs[Term] = "closed" /\ term' = "waits"
  /\ UNCHANGED <<program, heirs, status, killed, pty, reader, chunk, typing, heard>>

(* wait_timeout: the exit's code, or after two seconds none.               *)
Leave ==
  /\ term = "waits" /\ term' = "done"
  /\ UNCHANGED <<program, heirs, status, killed, pty, reader, chunk, typing, heard>>

ReaderSteps == Read \/ Parse \/ Answer \/ Reply \/ Tell \/ ReadEnd
TermSteps == Resized \/ Disconnected \/ Leave

Next ==
  \/ \E query \in BOOLEAN : Write(query)
  \/ ReadInput \/ Fork \/ Exit \/ HeirsExit \/ LoseOutput \/ Kill \/ Waited
  \/ ReaderSteps \/ Type \/ Typed \/ Resize \/ TermSteps
  \/ \E s \in Subs : Subscribe(s)

(* The threads run; nothing is asked of the program or of its heirs.       *)
Fairness == WF_vars(ReaderSteps) /\ WF_vars(Waited) /\ WF_vars(Typed) /\ WF_vars(TermSteps)

Spec == Init /\ [][Next]_vars /\ Fairness

-----------------------------------------------------------------------------
(* A subscription sees every chunk from its own time on, in the order the  *)
(* screen took them; the first one sees the output from its first byte     *)
(* (spawn_subscribed).                                                     *)
SeesEveryByte ==
  /\ since[Term] = 0
  /\ \A s \in Subs : subs[s] # "none" => got[s] = [i \in 1 .. Len(told) - since[s] |-> since[s] + i]
  /\ \A i \in 1 .. Len(told) : i > 1 => told[i] > told[i - 1]

(* Once the program and what it started are gone, every thread ends, even  *)
(* one caught writing to a program that no longer reads, and rozu term     *)
(* comes back ("Exit the shell to return", term.rs:5).                     *)
TermReturns == Gone ~> (reader = "ended" /\ typing # "writes" /\ term = "done" /\ status)

(* Every subscription ends with the program's output ("The channel closes  *)
(* when the program's output ends", lib.rs).                               *)
ClosedAtEnd == reader = "ended" => \A s \in Subs : subs[s] # "open"
=============================================================================
