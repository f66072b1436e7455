------------------------------ MODULE MCTurns ------------------------------
(***************************************************************************)
(* Turns that fail and turns that are stopped, for TLC: the agent's turn   *)
(* (AgentTurn) in a read-only session, Ctrl-C at the terminal (Interrupts),*)
(* the turn as each vendor's CLI answers it (ClaudeCli, CodexCli, GrokCli, *)
(* GrokHeadless) and the questions rozu's MCP server asks during it        *)
(* (Bridge).  They meet in the turn's token, which AgentTurn cancels, the  *)
(* terminal cancels and the providers look at.  A program in a terminal    *)
(* (Pty) ends by itself or is killed.  A behaviour moves one part and      *)
(* leaves the others at their start.                                       *)
(***************************************************************************)
EXTENDS AgentTurn, SequencesExt

CONSTANTS
  Models, VendorTurns, MaxUnread, MaxRotations,   \* VendorTurn
  OneModel, OneUnread,                            \* the same, for two of the CLIs
  Servers, Calls, r1,
  Tty, KeyTurns, MaxPresses,          \* Interrupts
  Room, MaxChunks, MaxTyped, Later    \* Pty

VARIABLES
  part,                              \* the part that moves
  session, phase, model, known, token, told, cli, gap,   \* VendorTurn
  started, history,                  \* ClaudeCli, GrokCli
  thread, pending,                   \* CodexCli
  opened, rotate, rotated,           \* GrokCli
  resume, saved,                     \* GrokHeadless
  server, asked, conn, decided, reply, seen, listens, asks,  \* Bridge
  at, turn, current, presses, active, raw, stopped, input, lines, sigint, woken, actor, noted,
  exited, typed, pressed, read,      \* Interrupts
  program, heirs, status, killed, ptyInput, output, chunks, ptyTyped, reader, chunk, typing,
  subs, got, since, ptyTold, term    \* Pty

vendorVars == <<session, phase, model, known, token, told, cli, gap>>
ownVars == <<started, history, thread, pending, opened, rotate, rotated, resume, saved>>
bridgeVars == <<server, asked, conn, decided, reply, seen, listens, asks>>
keyVars == <<at, turn, current, presses, active, raw, stopped, input, lines, sigint, woken,
             actor, noted, exited, typed, pressed, read>>
ptyVars == <<program, heirs, status, killed, ptyInput, output, chunks, ptyTyped, reader, chunk,
             typing, subs, got, since, ptyTold, term>>
all == <<part, vendorVars, ownVars, bridgeVars, vars, keyVars, ptyVars>>

(* A command that writes outside and a patch too long to be shown.         *)
Outside == [risk |-> "outside", sandboxed |-> TRUE, network |-> FALSE, rule |-> r1, huge |-> FALSE]
Patch == [risk |-> "write", sandboxed |-> FALSE, network |-> FALSE, rule |-> NoRule, huge |-> TRUE]
MCKinds == {Outside, Patch}

Cl == INSTANCE ClaudeCli WITH MaxTurns <- VendorTurns
Co == INSTANCE CodexCli WITH MaxTurns <- VendorTurns, Models <- OneModel,
        MaxUnread <- OneUnread
Gr == INSTANCE GrokCli WITH MaxTurns <- VendorTurns, MaxUnread <- OneUnread
He == INSTANCE GrokHeadless WITH MaxTurns <- VendorTurns, Models <- OneModel
Br == INSTANCE Bridge WITH call <- asked, gate <- decided
Ke == INSTANCE Interrupts WITH pc <- at, cancelled <- stopped, MaxTurns <- KeyTurns
Pt == INSTANCE Pty WITH input <- ptyInput, typed <- ptyTyped, told <- ptyTold

MCInit ==
  /\ Cl!Init /\ Co!Init /\ Gr!Init /\ He!Init /\ Br!Init /\ Init /\ Ke!Init
  /\ Pt!Init
  /\ part \in {"claude", "codex", "grok", "headless", "bridge", "agent", "keys", "pty"}
  /\ part # "bridge" => asks

(* A step of one part.                                                     *)
Others(own) == UNCHANGED <<part, bridgeVars, vars, keyVars, ptyVars, own>>
Claude(A) ==
  part = "claude" /\ A /\ Others(<<thread, pending, opened, rotate, rotated, resume, saved>>)
Codex(A) ==
  part = "codex" /\ A /\ Others(<<started, history, opened, rotate, rotated, resume, saved>>)
Grok(A) == part = "grok" /\ A /\ Others(<<history, thread, pending, resume, saved>>)
Headless(A) ==
  part = "headless" /\ A /\ Others(<<started, history, thread, pending, opened, rotate, rotated>>)
Questions(A) ==
  part = "bridge" /\ A /\ UNCHANGED <<part, vendorVars, ownVars, vars, keyVars, ptyVars>>
Agent(A) ==
  part = "agent" /\ A /\ UNCHANGED <<part, vendorVars, ownVars, bridgeVars, keyVars, ptyVars>>
Keys(A) ==
  part = "keys" /\ A /\ UNCHANGED <<part, vendorVars, ownVars, bridgeVars, vars, ptyVars>>
Terminal(A) ==
  part = "pty" /\ A /\ UNCHANGED <<part, vendorVars, ownVars, bridgeVars, vars, keyVars>>

MCNext ==
  \/ Claude(Cl!Next) \/ Codex(Co!Next) \/ Grok(Gr!Next) \/ Headless(He!Next)
  \/ Questions(Br!Next) \/ Agent(Next) \/ Keys(Ke!Next)
  \/ Terminal(Pt!Next)

(* The parts' own fairness, each while it moves: one process of each part  *)
(* in a conjunct.                                                          *)
MCFairness ==
  /\ WF_all(\/ Claude(Cl!Progress) \/ Codex(Co!Progress) \/ Grok(Gr!Progress)
            \/ Headless(He!Progress) \/ Agent(TaskStep) \/ Keys(Ke!ChatLoop)
            \/ Terminal(Pt!ReaderSteps))
  /\ WF_all(Agent(Receive) \/ Keys(Ke!Signals) \/ Terminal(Pt!Waited))
  /\ WF_all(Agent(cancelled /\ NoSummary) \/ Keys(Ke!Task) \/ Terminal(Pt!Typed))
  /\ WF_all(Keys(Ke!Reader) \/ Terminal(Pt!TermSteps))
  /\ WF_all(Keys(turn \in stopped /\ Ke!TurnEnds))
  /\ \A c \in Servers \X Calls :
       WF_all(Questions(Br!Accept(c) \/ Br!Answer(c) \/ Br!HangUp(c) \/ Br!Hear(c)))

MCSpec == MCInit /\ [][MCNext]_all /\ MCFairness

(* What a CLI knows of the chat, and what a turn reports of its words      *)
(* (KnowsChat and AnswersPrompt of each provider).                         *)
VendorFollowsChat ==
  /\ part = "claude" => Cl!KnowsChat /\ Cl!AnswersPrompt
  /\ part = "codex" => Co!KnowsChatButForGaps /\ Co!AnswersPromptButForGaps
  /\ part = "grok" => Gr!KnowsChatButForGaps /\ Gr!AnswersPromptButForGaps
  /\ part = "headless" => He!KnowsChatButForGaps /\ He!AnswersPrompt

(* The other parts' own.                                                   *)
RunsOnYes == Br!RunsOnYes
OneTurnPerPress == Ke!OneTurnPerPress

(* What is stopped ends, whoever stops it: a vendor's turn that the user   *)
(* cancelled, a question whose asker is gone, and a turn at the terminal   *)
(* after a press.                                                          *)
StopsEnd == Cl!StopEndsTurn /\ Br!QuestionClosed /\ Ke!PressEndsTurn

SeesEveryByte == Pt!SeesEveryByte
TermReturns == Pt!TermReturns
=============================================================================
