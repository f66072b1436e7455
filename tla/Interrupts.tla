----------------------------- MODULE Interrupts -----------------------------
(***************************************************************************)
(* Ctrl-C in rozu chat (rozu-cli/src/interrupt.rs): the chat loop, which   *)
(* begins and ends turns, the raw SIGINT handler, the async task that      *)
(* wakes up after a SIGINT, and the stdin reader, which sees Ctrl-C as a   *)
(* byte while a turn runs on a terminal.  Each atomic operation and each   *)
(* use of the lock is a step.                                              *)
(*                                                                         *)
(* SIGINTs are not queued: one is pending or none.  The reader takes lines *)
(* and Ctrl-C bytes in the order they were typed; a line typed while a     *)
(* turn runs waits for the next turn.                                      *)
(***************************************************************************)
EXTENDS Integers, Sequences, FiniteSets, FiniteSetTheorems, TLAPS

CONSTANTS
  Tty,       \* whether stdin is a terminal
  MaxTurns,  \* bound on lines typed, each of which starts a turn
  MaxPresses \* bound on Ctrl-C presses

VARIABLES
  pc,        \* the chat loop: "prompt", "reset", "activate", "raw", "turn", "end", "clear"
  turn,      \* number of the turn, of the last one at the prompt
  current,   \* the turn whose token is in Interrupts::current, or 0
  presses,   \* PressState::presses
  active,    \* PressState::turn_active
  raw,       \* the terminal's turn mode is on: Ctrl-C is a byte
  cancelled, \* turns whose token is cancelled
  input,     \* typed and not yet read: 0 is a line, k a Ctrl-C typed in turn k
  lines,     \* lines read and not yet taken by the chat loop
  sigint,    \* a SIGINT is pending
  woken,     \* the signal stream has a wake-up for the async task
  actor,     \* "handler", "task", "reader": what each is doing
  noted,     \* what each took: its press count, or the turn to cancel
  exited,    \* _exit(130)
  typed,     \* lines typed (bound only)
  pressed,   \* Ctrl-C presses made (bound only)
  read       \* history: Ctrl-C bytes handled, by the turn they were typed in

chat == <<pc, turn, current, raw>>
keys == <<input, lines, typed, pressed, read>>
vars == <<chat, presses, active, cancelled, keys, sigint, woken, actor, noted, exited>>

Actors == {"handler", "task", "reader"}
Turn == 1..MaxTurns

Does(a, what) == actor' = [actor EXCEPT ![a] = what]
Notes(a, n) == noted' = [noted EXCEPT ![a] = n]

Init ==
  /\ pc = "prompt" /\ turn = 0 /\ current = 0 /\ raw = FALSE
  /\ presses = 0 /\ active = FALSE
  /\ cancelled = {} /\ input = <<>> /\ lines = 0 /\ typed = 0 /\ pressed = 0
  /\ read = [k \in Turn |-> 0]
  /\ sigint = FALSE /\ woken = FALSE /\ exited = FALSE
  /\ actor = [a \in Actors |-> "idle"] /\ noted = [a \in Actors |-> 0]

-----------------------------------------------------------------------------
(* The user.                                                               *)
TypeLine ==
  /\ ~exited /\ typed < MaxTurns
  /\ typed' = typed + 1
  /\ input' = Append(input, 0)
  /\ UNCHANGED <<chat, presses, active, cancelled, lines, pressed, read, sigint, woken, actor,
                 noted, exited>>

CtrlC ==
  /\ ~exited /\ pressed < MaxPresses
  /\ pressed' = pressed + 1
  /\ IF raw THEN input' = Append(input, turn) /\ UNCHANGED sigint
     ELSE sigint' = TRUE /\ UNCHANGED input
  /\ UNCHANGED <<chat, presses, active, cancelled, lines, typed, read, woken, actor, noted, exited>>

-----------------------------------------------------------------------------
(* Variant: the token is published only when the turn is active.           *)
BeginUnpublished ==
  /\ ~exited /\ pc = "prompt" /\ lines > 0
  /\ lines' = lines - 1
  /\ turn' = turn + 1
  /\ pc' = "reset"
  /\ UNCHANGED <<current, raw, presses, active, cancelled, input, typed, pressed, read, sigint,
                 woken, actor, noted, exited>>

(* Variant: the line that starts the turn stays in the queue.              *)
BeginPeeks ==
  /\ ~exited /\ pc = "prompt" /\ lines > 0
  /\ turn' = turn + 1 /\ current' = turn + 1
  /\ pc' = "reset"
  /\ UNCHANGED <<raw, presses, active, cancelled, keys, sigint, woken, actor, noted, exited>>

(* begin_turn: a token, the count, the flag, the terminal.                 *)
BeginTurn ==
  /\ ~exited /\ pc = "prompt" /\ lines > 0
  /\ lines' = lines - 1
  /\ turn' = turn + 1 /\ current' = turn + 1
  /\ pc' = "reset"
  /\ UNCHANGED <<raw, presses, active, cancelled, input, typed, pressed, read, sigint, woken,
                 actor, noted, exited>>

ResetCount ==
  /\ ~exited /\ pc = "reset"
  /\ presses' = 0
  /\ pc' = "activate"
  /\ UNCHANGED <<turn, current, raw, active, cancelled, keys, sigint, woken, actor, noted, exited>>

Activate ==
  /\ ~exited /\ pc = "activate"
  /\ active' = TRUE
  /\ pc' = "raw"
  /\ UNCHANGED <<turn, current, raw, presses, cancelled, keys, sigint, woken, actor, noted, exited>>

EnterTurnMode ==
  /\ ~exited /\ pc = "raw"
  /\ raw' = Tty
  /\ pc' = "turn"
  /\ UNCHANGED <<turn, current, presses, active, cancelled, keys, sigint, woken, actor, noted, exited>>

(* end_turn: the terminal, the flag, the token.                            *)
TurnEnds ==
  /\ ~exited /\ pc = "turn"
  /\ raw' = FALSE
  /\ pc' = "end"
  /\ UNCHANGED <<turn, current, presses, active, cancelled, keys, sigint, woken, actor, noted, exited>>

Deactivate ==
  /\ ~exited /\ pc = "end"
  /\ active' = FALSE
  /\ pc' = "clear"
  /\ UNCHANGED <<turn, current, raw, presses, cancelled, keys, sigint, woken, actor, noted, exited>>

ClearToken ==
  /\ ~exited /\ pc = "clear"
  /\ current' = 0
  /\ pc' = "prompt"
  /\ UNCHANGED <<turn, raw, presses, active, cancelled, keys, sigint, woken, actor, noted, exited>>

-----------------------------------------------------------------------------
(* PressState::press: count, then look at the flag.  Exit is the outcome   *)
(* unless this is the first press of an active turn.                       *)
Count(a) ==
  /\ presses' = presses + 1
  /\ Notes(a, presses + 1)
  /\ Does(a, "look")

MeansExit(a) == ~active \/ noted[a] # 1

(* The SIGINT handler, and the wake-up that the signal leaves.             *)
SignalCount ==
  /\ ~exited /\ sigint /\ actor["handler"] = "idle"
  /\ sigint' = FALSE
  /\ Count("handler")
  /\ UNCHANGED <<chat, active, cancelled, keys, woken, exited>>

SignalLook ==
  /\ ~exited /\ actor["handler"] = "look"
  /\ IF MeansExit("handler") THEN exited' = TRUE /\ UNCHANGED woken
     ELSE woken' = TRUE /\ UNCHANGED exited
  /\ Does("handler", "idle") /\ Notes("handler", 0)
  /\ UNCHANGED <<chat, presses, active, cancelled, keys, sigint>>

(* cancel_current: take the token under the lock, then cancel it.          *)
Take(a) ==
  /\ Notes(a, current)
  /\ Does(a, "cancel")

CancelTaken(a) ==
  /\ ~exited /\ actor[a] = "cancel"
  /\ cancelled' = cancelled \cup ({noted[a]} \ {0})
  /\ Does(a, "idle") /\ Notes(a, 0)
  /\ UNCHANGED <<chat, presses, active, keys, sigint, woken, exited>>

(* Variant: the wake-up is not consumed.                                   *)
TaskWakesAgain ==
  /\ ~exited /\ woken /\ actor["task"] = "idle"
  /\ Take("task")
  /\ UNCHANGED <<chat, presses, active, cancelled, keys, sigint, woken, exited>>

TaskWakes ==
  /\ ~exited /\ woken /\ actor["task"] = "idle"
  /\ woken' = FALSE
  /\ Take("task")
  /\ UNCHANGED <<chat, presses, active, cancelled, keys, sigint, exited>>

(* The stdin reader: lines go to the chat loop, Ctrl-C bytes to tty_press. *)
ReadLine ==
  /\ ~exited /\ actor["reader"] = "idle" /\ input # <<>> /\ Head(input) = 0
  /\ input' = Tail(input)
  /\ lines' = lines + 1
  /\ UNCHANGED <<chat, presses, active, cancelled, typed, pressed, read, sigint, woken, actor,
                 noted, exited>>

ReadKey ==
  /\ ~exited /\ actor["reader"] = "idle" /\ input # <<>> /\ Head(input) # 0
  /\ input' = Tail(input)
  /\ read' = [read EXCEPT ![Head(input)] = read[Head(input)] + 1]
  /\ Count("reader")
  /\ UNCHANGED <<chat, active, cancelled, lines, typed, pressed, sigint, woken, exited>>

ReaderLook ==
  /\ ~exited /\ actor["reader"] = "look"
  /\ IF MeansExit("reader") THEN exited' = TRUE /\ Does("reader", "idle") /\ Notes("reader", 0)
     ELSE UNCHANGED <<exited, noted>> /\ Does("reader", "take")
  /\ UNCHANGED <<chat, presses, active, cancelled, keys, sigint, woken>>

ReaderTakes ==
  /\ ~exited /\ actor["reader"] = "take"
  /\ Take("reader")
  /\ UNCHANGED <<chat, presses, active, cancelled, keys, sigint, woken, exited>>

-----------------------------------------------------------------------------
ChatLoop == BeginTurn \/ ResetCount \/ Activate \/ EnterTurnMode \/ Deactivate \/ ClearToken
Signals == SignalCount \/ SignalLook
Task == TaskWakes \/ CancelTaken("task")
Reader == ReadLine \/ ReadKey \/ ReaderLook \/ ReaderTakes \/ CancelTaken("reader")

Next == TypeLine \/ CtrlC \/ ChatLoop \/ TurnEnds \/ Signals \/ Task \/ Reader

Spec == Init /\ [][Next]_vars

(* Every thread goes on, and a cancelled turn ends (AgentTurn's            *)
(* CancelEndsTurn).  The user need not type, nor an uncancelled turn end.  *)
FairSpec ==
  /\ Spec
  /\ WF_vars(ChatLoop) /\ WF_vars(Signals) /\ WF_vars(Task) /\ WF_vars(Reader)
  /\ WF_vars(turn \in cancelled /\ TurnEnds)

TypeOK ==
  /\ pc \in {"prompt", "reset", "activate", "raw", "turn", "end", "clear"}
  /\ turn \in 0..MaxTurns /\ current \in 0..MaxTurns
  /\ presses \in 0..MaxPresses /\ pressed \in 0..MaxPresses
  /\ active \in BOOLEAN /\ raw \in BOOLEAN /\ cancelled \subseteq Turn
  /\ input \in Seq(0..MaxTurns) /\ lines \in 0..MaxTurns /\ typed \in 0..MaxTurns
  /\ sigint \in BOOLEAN /\ woken \in BOOLEAN /\ exited \in BOOLEAN
  /\ actor \in [Actors -> {"idle", "look", "take", "cancel"}]
  /\ noted \in [Actors -> Nat] /\ read \in [Turn -> 0..MaxPresses]

(* A press counts once and cancels one turn at most, whatever the handler, *)
(* the task, the reader and the chat loop are in the middle of.            *)
OneTurnPerPress == presses <= pressed /\ Cardinality(cancelled) <= pressed

(* A press counted while a turn is active ends that turn, or the process:  *)
(* "the first Ctrl-C during a turn cancels the turn; a second one ...      *)
(* exits" (interrupt.rs), even when the turn would never end by itself.    *)
PressEndsTurn == active /\ presses > 0 ~> ~active \/ exited

(* docs/cli.md: during a turn "each press counts, even two in one paste,   *)
(* so a second press always exits".                                        *)
SecondPressExits ==
  \A k \in Turn : read[k] >= 2 /\ actor["reader"] = "idle" => exited

-----------------------------------------------------------------------------
(* Proof that a press cancels one turn at most, for any number of turns    *)
(* and presses.                                                            *)

(* The Ctrl-C bytes that nobody has read yet.                              *)
Unread(typedKeys) == {i \in 1..Len(typedKeys) : typedKeys[i] # 0}

LEMMA UnreadFinite ==
  ASSUME NEW s \in Seq(Nat)
  PROVE  IsFiniteSet(Unread(s)) /\ Cardinality(Unread(s)) \in Nat
<1>1. IsFiniteSet(1..Len(s))
  BY FS_Interval
<1> QED
  BY <1>1, FS_Subset, FS_CardinalityType DEF Unread

(* Typing a key adds one at most; a line adds none.                        *)
LEMMA UnreadAppend ==
  ASSUME NEW s \in Seq(Nat), NEW k \in Nat
  PROVE  /\ Cardinality(Unread(Append(s, k))) \in
              {Cardinality(Unread(s)), Cardinality(Unread(s)) + 1}
         /\ k = 0 => Unread(Append(s, k)) = Unread(s)
<1>1. Unread(Append(s, k)) = IF k = 0 THEN Unread(s) ELSE Unread(s) \cup {Len(s) + 1}
  <2>1. /\ Len(Append(s, k)) = Len(s) + 1 /\ Append(s, k)[Len(s) + 1] = k
        /\ \A i \in 1..Len(s) : Append(s, k)[i] = s[i]
        /\ 1..(Len(s) + 1) = (1..Len(s)) \cup {Len(s) + 1}
    OBVIOUS
  <2> QED
    BY <2>1 DEF Unread
<1>2. Cardinality(Unread(s) \cup {Len(s) + 1}) \in
        {Cardinality(Unread(s)), Cardinality(Unread(s)) + 1}
  <2>1. IsFiniteSet(Unread(s)) /\ Cardinality(Unread(s)) \in Nat
    BY UnreadFinite
  <2>2. Cardinality(Unread(s) \cup {Len(s) + 1}) =
          IF Len(s) + 1 \in Unread(s) THEN Cardinality(Unread(s)) ELSE Cardinality(Unread(s)) + 1
    BY <2>1, FS_AddElement
  <2> QED
    BY <2>1, <2>2
<1> QED
  BY <1>1, <1>2, UnreadFinite

(* Reading a Ctrl-C takes one away; reading a line takes none.             *)
LEMMA UnreadTail ==
  ASSUME NEW s \in Seq(Nat), s # <<>>
  PROVE  Cardinality(Unread(Tail(s))) =
           IF Head(s) = 0 THEN Cardinality(Unread(s)) ELSE Cardinality(Unread(s)) - 1
<1> DEFINE t == Tail(s)
           later == Unread(s) \ {1}
           shift == [i \in later |-> i - 1]
<1>1. /\ t \in Seq(Nat) /\ Len(s) \in Nat \ {0} /\ Len(t) = Len(s) - 1 /\ Head(s) = s[1]
      /\ \A i \in 1..Len(t) : t[i] = s[i + 1]
  OBVIOUS
<1> HIDE DEF t
<1>2. shift \in Bijection(later, Unread(t))
  <2>1. shift \in [later -> Unread(t)]
    BY <1>1 DEF Unread
  <2>2. \A i, j \in later : shift[i] = shift[j] => i = j
    BY <1>1 DEF Unread
  <2>3. ASSUME NEW j \in Unread(t) PROVE \E i \in later : shift[i] = j
    <3>1. j + 1 \in later /\ (j + 1) - 1 = j
      BY <1>1 DEF Unread
    <3> QED
      BY <3>1
  <2> QED
    BY <2>1, <2>2, <2>3 DEF Bijection, Injection, Surjection, IsInjective
<1>3. IsFiniteSet(Unread(s)) /\ IsFiniteSet(later) /\ Cardinality(Unread(s)) \in Nat
  BY UnreadFinite, FS_Subset
<1>4. Cardinality(later) = Cardinality(Unread(t))
  BY <1>2, <1>3, FS_Bijection DEF ExistsBijection
<1>5. 1 \in Unread(s) <=> Head(s) # 0
  BY <1>1 DEF Unread
<1>6. Cardinality(later) =
        IF 1 \in Unread(s) THEN Cardinality(Unread(s)) - 1 ELSE Cardinality(Unread(s))
  BY <1>3, FS_RemoveElement
<1>7. Cardinality(later) \in Nat
  BY <1>3, FS_CardinalityType
<1> QED
  BY <1>3, <1>4, <1>5, <1>6, <1>7 DEF t

One(holds) == IF holds THEN 1 ELSE 0

(* Where a press that may still cancel a turn can be: typed, pending as a  *)
(* signal, in the handler, left as a wake-up, or with whoever took it.     *)
Waiting == Cardinality(Unread(input)) + One(sigint)
UnderWay ==
  One(actor["handler"] # "idle") + One(woken) + One(actor["task"] # "idle")
    + One(actor["reader"] # "idle")

Counted ==
  /\ turn \in Nat /\ presses \in Nat /\ pressed \in Nat /\ input \in Seq(Nat)
  /\ sigint \in BOOLEAN /\ woken \in BOOLEAN
  /\ actor \in [Actors -> {"idle", "look", "take", "cancel"}]
  /\ IsFiniteSet(cancelled)
  /\ presses + Waiting <= pressed
  /\ Cardinality(cancelled) + UnderWay + Waiting <= pressed

LEMMA CountedTypes ==
  ASSUME Counted
  PROVE  /\ Cardinality(Unread(input)) \in Nat /\ Cardinality(cancelled) \in Nat
         /\ \A holds \in BOOLEAN : One(holds) \in {0, 1}
  BY UnreadFinite, FS_CardinalityType DEF Counted, One

LEMMA InitCounted == Init => Counted
<1> SUFFICES ASSUME Init PROVE Counted
  OBVIOUS
<1>1. Unread(input) = {} /\ cancelled = {} /\ input \in Seq(Nat)
  BY DEF Init, Unread
<1>2. Cardinality(Unread(input)) = 0 /\ Cardinality(cancelled) = 0 /\ IsFiniteSet(cancelled)
  BY <1>1, FS_EmptySet
<1>3. actor = [a \in Actors |-> "idle"] /\ ~woken /\ ~sigint
  BY DEF Init
<1>4. UnderWay = 0 /\ Waiting = 0
  BY <1>2, <1>3 DEF UnderWay, Waiting, One, Actors
<1>5. turn = 0 /\ presses = 0 /\ pressed = 0 /\ sigint \in BOOLEAN /\ woken \in BOOLEAN
  BY DEF Init
<1> QED
  BY <1>1, <1>2, <1>3, <1>4, <1>5 DEF Counted

(* What an actor does next, seen by all three.                             *)
LEMMA DoesOne ==
  ASSUME Counted, NEW a \in Actors, NEW what \in {"idle", "look", "take", "cancel"},
         Does(a, what)
  PROVE  /\ actor' \in [Actors -> {"idle", "look", "take", "cancel"}]
         /\ actor'[a] = what /\ \A b \in Actors \ {a} : actor'[b] = actor[b]
  BY DEF Counted, Does

LEMMA CountedStep == Counted /\ [Next]_vars => Counted'
<1> SUFFICES ASSUME Counted, [Next]_vars PROVE Counted'
  OBVIOUS
<1> DEFINE left == Cardinality(Unread(input))
           done == Cardinality(cancelled)
           signal == One(sigint)
           woke == One(woken)
           handles == One(actor["handler"] # "idle")
           cancels == One(actor["task"] # "idle")
           reads == One(actor["reader"] # "idle")
<1>n. left \in Nat /\ done \in Nat /\ presses \in Nat /\ pressed \in Nat
  BY CountedTypes DEF Counted
<1>0. /\ turn \in Nat /\ input \in Seq(Nat)
      /\ sigint \in BOOLEAN /\ woken \in BOOLEAN
      /\ actor \in [Actors -> {"idle", "look", "take", "cancel"}]
      /\ IsFiniteSet(cancelled)
  BY CountedTypes DEF Counted
<1>a. /\ presses + (left + signal) <= pressed
      /\ done + (handles + woke + cancels + reads) + (left + signal) <= pressed
  BY DEF Counted, Waiting, UnderWay
<1>b. /\ "handler" \in Actors /\ "task" \in Actors /\ "reader" \in Actors
      /\ "task" # "handler" /\ "reader" # "handler" /\ "task" # "reader"
  BY DEF Actors
<1>c. /\ sigint' = sigint => signal' = signal
      /\ sigint' = TRUE => signal' = 1
      /\ sigint' = FALSE => signal' = 0
      /\ woken' = woken => woke' = woke
      /\ woken' = TRUE => woke' = 1
      /\ woken' = FALSE => woke' = 0
      /\ sigint = TRUE => signal = 1
      /\ woken = TRUE => woke = 1
      /\ actor'["handler"] = actor["handler"] => handles' = handles
      /\ actor'["handler"] # "idle" => handles' = 1
      /\ actor'["handler"] = "idle" => handles' = 0
      /\ actor["handler"] # "idle" => handles = 1
      /\ actor["handler"] = "idle" => handles = 0
      /\ actor'["task"] = actor["task"] => cancels' = cancels
      /\ actor'["task"] # "idle" => cancels' = 1
      /\ actor'["task"] = "idle" => cancels' = 0
      /\ actor["task"] # "idle" => cancels = 1
      /\ actor["task"] = "idle" => cancels = 0
      /\ actor'["reader"] = actor["reader"] => reads' = reads
      /\ actor'["reader"] # "idle" => reads' = 1
      /\ actor'["reader"] = "idle" => reads' = 0
      /\ actor["reader"] # "idle" => reads = 1
      /\ actor["reader"] = "idle" => reads = 0
      /\ signal \in {0, 1} /\ woke \in {0, 1} /\ handles \in {0, 1} /\ cancels \in {0, 1} /\ reads \in {0, 1}
  BY DEF One
<1>t. /\ signal \in Nat /\ woke \in Nat /\ handles \in Nat /\ cancels \in Nat /\ reads \in Nat
  BY DEF One
<1>s. UNCHANGED input => left' = left
  OBVIOUS
<1>d. UNCHANGED cancelled => done' = done
  OBVIOUS
<1> DEFINE typed1 ==
        /\ turn' \in Nat /\ presses' \in Nat /\ pressed' \in Nat /\ input' \in Seq(Nat)
        /\ sigint' \in BOOLEAN /\ woken' \in BOOLEAN
        /\ actor' \in [Actors -> {"idle", "look", "take", "cancel"}]
        /\ IsFiniteSet(cancelled')
      sums ==
        /\ presses' + (left' + signal') <= pressed'
        /\ done' + (handles' + woke' + cancels' + reads') + (left' + signal') <= pressed'
<1>e. SUFFICES typed1 /\ sums
  BY DEF Counted, Waiting, UnderWay
<1> HIDE DEF left, done, signal, woke, handles, cancels, reads, sums
<1>1. CASE TypeLine
  <2>1. /\ input' = Append(input, 0)
        /\ UNCHANGED <<turn, presses, pressed, sigint, woken, actor, cancelled>>
    BY <1>n, <1>0, <1>b, <1>1 DEF TypeLine, chat
  <2>2. Unread(input') = Unread(input) /\ input' \in Seq(Nat)
    BY <1>n, <1>0, <1>b, <2>1, UnreadAppend
  <2>3. left' = left
    BY <1>n, <1>0, <1>b, <2>2 DEF left
  <2>4. sums
    BY <1>n, <1>a, <1>t, <1>c, <1>d, <2>1, <2>3 DEF sums
  <2> QED
    BY <1>n, <1>0, <2>1, <2>2, <2>4
<1>2. CASE CtrlC
  <2>1. CASE raw
    <3>1. /\ input' = Append(input, turn) /\ pressed' = pressed + 1
          /\ UNCHANGED <<turn, presses, sigint, woken, actor, cancelled>>
      BY <1>n, <1>0, <1>b, <1>2, <2>1 DEF CtrlC, chat
    <3>2. input' \in Seq(Nat)
      BY <1>0, <3>1
    <3>3. left' \in Nat /\ (left' = left \/ left' = left + 1)
      BY <1>n, <1>0, <1>b, <3>1, UnreadAppend DEF left
    <3>4. signal' = signal /\ woke' = woke /\ handles' = handles /\ cancels' = cancels /\ reads' = reads
      BY <1>0, <1>b, <1>t, <1>c, <3>1
    <3>5. sums
      <4>1. CASE left' = left
        BY <1>n, <1>a, <1>t, <1>d, <3>1, <3>4, <4>1 DEF sums
      <4>2. CASE left' = left + 1
        BY <1>n, <1>a, <1>t, <1>d, <3>1, <3>4, <4>2 DEF sums
      <4> QED
        BY <3>3, <4>1, <4>2
    <3> QED
      BY <1>n, <1>0, <3>1, <3>2, <3>5
  <2>2. CASE ~raw
    <3>1. /\ pressed' = pressed + 1 /\ sigint' = TRUE
          /\ UNCHANGED <<turn, presses, input, woken, actor, cancelled>>
      BY <1>n, <1>0, <1>b, <1>2, <2>2 DEF CtrlC, chat
    <3>2. signal' = 1 /\ woke' = woke /\ handles' = handles /\ cancels' = cancels /\ reads' = reads
      BY <1>0, <1>b, <1>t, <1>c, <3>1
    <3>3. sums
      BY <1>n, <1>a, <1>t, <1>d, <1>s, <3>1, <3>2 DEF sums
    <3> QED
      BY <1>n, <1>0, <3>1, <3>3
  <2> QED
    BY <1>n, <1>0, <2>1, <2>2
<1>3. CASE ChatLoop \/ TurnEnds
  <2>1. /\ turn' \in Nat /\ presses' \in {0, presses}
        /\ UNCHANGED <<pressed, input, sigint, woken, actor, cancelled>>
    BY <1>n, <1>0, <1>b, <1>3 DEF ChatLoop, BeginTurn, ResetCount, Activate, EnterTurnMode, TurnEnds, Deactivate,
                ClearToken, keys
  <2>2. signal' = signal /\ woke' = woke /\ handles' = handles /\ cancels' = cancels /\ reads' = reads
    BY <1>0, <1>b, <1>t, <1>c, <2>1
  <2>3. sums
    <3>1. CASE presses' = 0
      <4>1. left + signal <= pressed
        BY <1>n, <1>a, <1>t
      <4> QED
        BY <1>n, <1>a, <1>t, <1>d, <1>s, <2>1, <2>2, <3>1, <4>1 DEF sums
    <3>2. CASE presses' = presses
      BY <1>n, <1>a, <1>t, <1>d, <1>s, <2>1, <2>2, <3>2 DEF sums
    <3> QED
      BY <2>1, <3>1, <3>2
  <2> QED
    BY <1>n, <1>0, <2>1, <2>3
<1>4. CASE SignalCount
  <2>1. /\ sigint /\ sigint' = FALSE /\ presses' = presses + 1
        /\ UNCHANGED <<turn, pressed, input, woken, cancelled>>
        /\ actor["handler"] = "idle" /\ Does("handler", "look")
    BY <1>n, <1>0, <1>b, <1>4 DEF SignalCount, Count, chat, keys
  <2>2. /\ actor' \in [Actors -> {"idle", "look", "take", "cancel"}]
        /\ actor'["handler"] = "look" /\ \A b \in Actors \ {"handler"} : actor'[b] = actor[b]
    BY <1>n, <1>0, <1>b, <2>1, DoesOne
  <2>3. /\ signal = 1 /\ signal' = 0 /\ woke' = woke
        /\ handles = 0 /\ handles' = 1 /\ cancels' = cancels /\ reads' = reads
    BY <1>0, <1>b, <1>t, <1>c, <2>1, <2>2
  <2>4. sums
    BY <1>n, <1>a, <1>t, <1>d, <1>s, <2>1, <2>3 DEF sums
  <2>5. presses' \in Nat
    BY <1>n, <2>1
  <2> QED
    BY <1>n, <1>0, <2>1, <2>2, <2>4, <2>5
<1>5. CASE SignalLook
  <2>1. /\ woken' \in {woken, TRUE} /\ actor["handler"] = "look" /\ Does("handler", "idle")
        /\ UNCHANGED <<turn, pressed, presses, sigint, input, cancelled>>
    BY <1>n, <1>0, <1>b, <1>5 DEF SignalLook, chat, keys
  <2>2. /\ actor' \in [Actors -> {"idle", "look", "take", "cancel"}]
        /\ actor'["handler"] = "idle" /\ \A b \in Actors \ {"handler"} : actor'[b] = actor[b]
    BY <1>n, <1>0, <1>b, <2>1, DoesOne
  <2>3. /\ signal' = signal /\ woke' \in {woke, 1}
        /\ handles = 1 /\ handles' = 0 /\ cancels' = cancels /\ reads' = reads
    BY <1>0, <1>b, <1>t, <1>c, <2>1, <2>2
  <2>4. sums
    <3>1. CASE woke' = 1 /\ woke = 0
      BY <1>n, <1>a, <1>t, <1>d, <1>s, <2>1, <2>3, <3>1 DEF sums
    <3>2. CASE woke' = woke
      BY <1>n, <1>a, <1>t, <1>d, <1>s, <2>1, <2>3, <3>2 DEF sums
    <3> QED
      BY <1>c, <2>3, <3>1, <3>2
  <2> QED
    BY <1>n, <1>0, <2>1, <2>2, <2>4
<1>6. CASE TaskWakes
  <2>1. /\ woken /\ woken' = FALSE /\ actor["task"] = "idle" /\ Does("task", "cancel")
        /\ UNCHANGED <<turn, pressed, presses, sigint, input, cancelled>>
    BY <1>n, <1>0, <1>b, <1>6 DEF TaskWakes, Take, chat, keys
  <2>2. /\ actor' \in [Actors -> {"idle", "look", "take", "cancel"}]
        /\ actor'["task"] = "cancel" /\ \A b \in Actors \ {"task"} : actor'[b] = actor[b]
    BY <1>n, <1>0, <1>b, <2>1, DoesOne
  <2>3. /\ signal' = signal /\ woke = 1 /\ woke' = 0
        /\ handles' = handles /\ cancels = 0 /\ cancels' = 1 /\ reads' = reads
    BY <1>0, <1>b, <1>t, <1>c, <2>1, <2>2
  <2>4. sums
    BY <1>n, <1>a, <1>t, <1>d, <1>s, <2>1, <2>3 DEF sums
  <2> QED
    BY <1>n, <1>0, <2>1, <2>2, <2>4
<1>7. CASE \E a \in {"task", "reader"} : CancelTaken(a)
  <2> PICK a \in {"task", "reader"} : CancelTaken(a)
    BY <1>n, <1>0, <1>b, <1>7
  <2>1. IsFiniteSet(cancelled') /\ done' \in {done, done + 1}
    <3>1. cancelled' = cancelled \/ cancelled' = cancelled \cup {noted[a]}
      BY <1>n, <1>0, <1>b DEF CancelTaken
    <3>2. CASE cancelled' = cancelled \cup {noted[a]}
      <4>1. /\ IsFiniteSet(cancelled')
            /\ done' = IF noted[a] \in cancelled THEN done ELSE done + 1
        BY <1>n, <1>0, <1>b, <3>2, FS_AddElement DEF done
      <4> QED
        BY <1>n, <1>0, <4>1
    <3> QED
      BY <1>n, <1>0, <1>d, <3>1, <3>2
  <2>2. /\ actor[a] = "cancel" /\ Does(a, "idle") /\ a \in Actors
        /\ UNCHANGED <<turn, pressed, presses, sigint, input, woken>>
    BY <1>n, <1>0, <1>b DEF CancelTaken, chat, keys
  <2>3. /\ actor' \in [Actors -> {"idle", "look", "take", "cancel"}]
        /\ actor'[a] = "idle" /\ \A b \in Actors \ {a} : actor'[b] = actor[b]
    BY <1>n, <1>0, <1>b, <2>2, DoesOne
  <2>4. /\ signal' = signal /\ woke' = woke /\ handles' = handles
        /\ \/ cancels = 1 /\ cancels' = 0 /\ reads' = reads
           \/ cancels' = cancels /\ reads = 1 /\ reads' = 0
    <3>1. CASE a = "task"
      BY <1>0, <1>b, <1>t, <1>c, <2>2, <2>3, <3>1
    <3>2. CASE a = "reader"
      BY <1>0, <1>b, <1>t, <1>c, <2>2, <2>3, <3>2
    <3> QED
      BY <1>n, <1>0, <3>1, <3>2
  <2>5. sums
    BY <1>n, <1>a, <1>t, <1>s, <2>1, <2>2, <2>4 DEF sums
  <2> QED
    BY <1>n, <1>0, <2>1, <2>2, <2>3, <2>5
<1>8. CASE ReadLine
  <2>1. /\ input # <<>> /\ Head(input) = 0 /\ input' = Tail(input)
        /\ UNCHANGED <<turn, pressed, presses, sigint, woken, actor, cancelled>>
    BY <1>n, <1>0, <1>b, <1>8 DEF ReadLine, chat
  <2>2. input' \in Seq(Nat)
    BY <1>n, <1>0, <1>b, <2>1
  <2>3. left' \in Nat
    BY <1>n, <1>0, <1>b, <2>2, UnreadFinite DEF left
  <2>4. left' = left
    BY <1>0, <2>1, UnreadTail DEF left
  <2>5. signal' = signal /\ woke' = woke /\ handles' = handles /\ cancels' = cancels /\ reads' = reads
    BY <1>0, <1>b, <1>t, <1>c, <2>1
  <2>6. sums
    BY <1>n, <1>a, <1>t, <1>d, <2>1, <2>3, <2>4, <2>5 DEF sums
  <2> QED
    BY <1>n, <1>0, <2>1, <2>2, <2>6
<1>9. CASE ReadKey
  <2>1. /\ input # <<>> /\ Head(input) # 0 /\ input' = Tail(input)
        /\ actor["reader"] = "idle" /\ Does("reader", "look") /\ presses' = presses + 1
        /\ UNCHANGED <<turn, pressed, sigint, woken, cancelled>>
    BY <1>n, <1>0, <1>b, <1>9 DEF ReadKey, Count, chat
  <2>2. input' \in Seq(Nat)
    BY <1>n, <1>0, <1>b, <2>1
  <2>3. left' \in Nat
    BY <1>n, <1>0, <1>b, <2>2, UnreadFinite DEF left
  <2>4. left' = left - 1
    BY <1>0, <2>1, UnreadTail DEF left
  <2>5. /\ actor' \in [Actors -> {"idle", "look", "take", "cancel"}]
        /\ actor'["reader"] = "look" /\ \A b \in Actors \ {"reader"} : actor'[b] = actor[b]
    BY <1>n, <1>0, <1>b, <2>1, DoesOne
  <2>6. /\ signal' = signal /\ woke' = woke
        /\ handles' = handles /\ cancels' = cancels /\ reads = 0 /\ reads' = 1
    BY <1>0, <1>b, <1>t, <1>c, <2>1, <2>5
  <2>7. sums
    BY <1>n, <1>a, <1>t, <1>d, <2>1, <2>3, <2>4, <2>6 DEF sums
  <2> QED
    BY <1>n, <1>0, <2>1, <2>2, <2>5, <2>7
<1>10. CASE ReaderLook \/ ReaderTakes
  <2>1. /\ actor["reader"] # "idle"
        /\ \E what \in {"idle", "take", "cancel"} : Does("reader", what)
        /\ UNCHANGED <<turn, pressed, presses, sigint, woken, input, cancelled>>
    BY <1>n, <1>0, <1>b, <1>10 DEF ReaderLook, ReaderTakes, Take, chat, keys
  <2>2. /\ actor' \in [Actors -> {"idle", "look", "take", "cancel"}]
        /\ \A b \in Actors \ {"reader"} : actor'[b] = actor[b]
    BY <1>n, <1>0, <1>b, <2>1, DoesOne
  <2>3. /\ signal' = signal /\ woke' = woke
        /\ handles' = handles /\ cancels' = cancels /\ reads = 1 /\ reads' \in {0, 1}
    BY <1>0, <1>b, <1>t, <1>c, <2>1, <2>2
  <2>4. sums
    <3>1. CASE reads' = 0
      BY <1>n, <1>a, <1>t, <1>d, <1>s, <2>1, <2>3, <3>1 DEF sums
    <3>2. CASE reads' = 1
      BY <1>n, <1>a, <1>t, <1>d, <1>s, <2>1, <2>3, <3>2 DEF sums
    <3> QED
      BY <2>3, <3>1, <3>2
  <2> QED
    BY <1>n, <1>0, <2>1, <2>2, <2>4
<1>11. CASE UNCHANGED vars
  <2>1. UNCHANGED <<turn, pressed, presses, sigint, woken, input, actor, cancelled>>
    BY <1>n, <1>0, <1>b, <1>11 DEF vars, chat, keys
  <2>2. signal' = signal /\ woke' = woke /\ handles' = handles /\ cancels' = cancels /\ reads' = reads
    BY <1>0, <1>b, <1>t, <1>c, <2>1
  <2>3. sums
    BY <1>n, <1>a, <1>t, <1>d, <1>s, <2>1, <2>2 DEF sums
  <2> QED
    BY <1>n, <1>0, <2>1, <2>3
<1> QED
  BY <1>1, <1>2, <1>3, <1>4, <1>5, <1>6, <1>7, <1>8, <1>9, <1>10, <1>11
  DEF Next, Signals, Task, Reader

(* A press counts once and cancels one turn at most (press, cancel_current *)
(* in interrupt.rs), whatever the handler, the task, the reader and the    *)
(* chat loop are in the middle of: for any number of turns and presses.    *)
THEOREM OneTurnPerPressAlways == Spec => []OneTurnPerPress
<1>1. Counted => OneTurnPerPress
  BY CountedTypes DEF Counted, OneTurnPerPress, Waiting, UnderWay, One
<1> QED
  BY InitCounted, CountedStep, <1>1, PTL DEF Spec
=============================================================================
