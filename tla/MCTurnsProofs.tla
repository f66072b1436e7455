---------------------------- MODULE MCTurnsProofs ----------------------------
(***************************************************************************)
(* Proofs about the parts of MCTurns that stand beside the agent's turn,   *)
(* for the behaviours of MCTurns: a step of another part leaves a part's   *)
(* variables as they are.  Interrupts proves its own invariant.            *)
(***************************************************************************)
EXTENDS MCTurns, SequenceTheorems, FiniteSetTheorems, TLAPS

-----------------------------------------------------------------------------
(* No call of a vendor's CLI runs unasked (Bridge).                        *)
LEMMA InitAsking == Br!Init => Br!Asking
  BY DEF Br!Init, Br!Asking, Br!All

LEMMA AskingStep == Br!Asking /\ [Br!Next]_(Br!vars) => Br!Asking'
<1> SUFFICES ASSUME Br!Asking, [Br!Next]_(Br!vars) PROVE Br!Asking'
  OBVIOUS
<1> USE DEF Br!Asking
<1>1. CASE Br!Start \/ Br!Quit
  BY <1>1 DEF Br!Start, Br!Quit
<1>2. CASE Br!Kill
  BY <1>2 DEF Br!Kill
<1>3. ASSUME NEW c \in Br!All, Br!Ask(c) PROVE Br!Asking'
  BY <1>3 DEF Br!Ask
<1>4. ASSUME NEW c \in Br!All, Br!Hear(c) PROVE Br!Asking'
  BY <1>4 DEF Br!Hear
<1>5. ASSUME NEW c \in Br!All, Br!Run(c) PROVE Br!Asking'
  BY <1>5 DEF Br!Run
<1>6. ASSUME NEW c \in Br!All, Br!Accept(c) \/ Br!HangUp(c) PROVE Br!Asking'
  BY <1>6 DEF Br!Accept, Br!HangUp
<1>7. ASSUME NEW c \in Br!All, Br!Decide(c) PROVE Br!Asking'
  BY <1>7 DEF Br!Decide
<1>8. ASSUME NEW c \in Br!All, Br!Answer(c) PROVE Br!Asking'
  BY <1>8 DEF Br!Answer
<1>9. CASE UNCHANGED Br!vars
  BY <1>9 DEF Br!vars
<1> QED
  BY <1>1, <1>2, <1>3, <1>4, <1>5, <1>6, <1>7, <1>8, <1>9 DEF Br!Next

LEMMA BridgeSteps == [MCNext]_all => [Br!Next]_(Br!vars)
<1> USE DEF Br!vars, bridgeVars
<1>1. CASE Questions(Br!Next)
  BY <1>1 DEF Questions
<1>2. CASE Claude(Cl!Next) \/ Codex(Co!Next) \/ Grok(Gr!Next) \/ Headless(He!Next)
  BY <1>2 DEF Claude, Codex, Grok, Headless, Others
<1>3. CASE Agent(Next) \/ Keys(Ke!Next) \/ Terminal(Pt!Next)
  BY <1>3 DEF Agent, Keys, Terminal
<1>4. CASE UNCHANGED all
  BY <1>4 DEF all
<1> QED
  BY <1>1, <1>2, <1>3, <1>4 DEF MCNext

(* A call of a vendor's CLI that needs the user runs only on a yes to that *)
(* very call (bridge.rs), for any servers and calls.                       *)
THEOREM RunsOnYesInTurns == MCSpec => []RunsOnYes
<1>1. MCInit => Br!Asking
  BY InitAsking DEF MCInit
<1>2. Br!Asking /\ [MCNext]_all => Br!Asking'
  BY BridgeSteps, AskingStep
<1>3. Br!Asking => RunsOnYes
  BY DEF RunsOnYes, Br!RunsOnYes, Br!Asking
<1> QED
  BY <1>1, <1>2, <1>3, PTL DEF MCSpec

LEMMA KeysSteps == [MCNext]_all => [Ke!Next]_(Ke!vars)
<1> USE DEF Ke!vars, Ke!chat, Ke!keys, keyVars
<1>1. CASE Keys(Ke!Next)
  BY <1>1 DEF Keys
<1>2. CASE Claude(Cl!Next) \/ Codex(Co!Next) \/ Grok(Gr!Next) \/ Headless(He!Next)
  BY <1>2 DEF Claude, Codex, Grok, Headless, Others
<1>3. CASE Questions(Br!Next) \/ Agent(Next) \/ Terminal(Pt!Next)
  BY <1>3 DEF Questions, Agent, Terminal
<1>4. CASE UNCHANGED all
  BY <1>4 DEF all
<1> QED
  BY <1>1, <1>2, <1>3, <1>4 DEF MCNext

(* A press counts once and cancels one turn at most (interrupt.rs), for    *)
(* any number of presses.                                                  *)
THEOREM OneTurnPerPressInTurns == MCSpec => []OneTurnPerPress
<1>1. MCInit => Ke!Counted
  BY Ke!InitCounted DEF MCInit
<1>2. Ke!Counted /\ [MCNext]_all => Ke!Counted'
  BY KeysSteps, Ke!CountedStep
<1>3. Ke!Counted => OneTurnPerPress
  BY Ke!CountedTypes DEF OneTurnPerPress, Ke!OneTurnPerPress, Ke!Counted, Ke!Waiting,
     Ke!UnderWay, Ke!One
<1> QED
  BY <1>1, <1>2, <1>3, PTL DEF MCSpec

-----------------------------------------------------------------------------
(* A program's output (Pty).                                               *)

Chunks == [n : Nat, query : BOOLEAN]

Streams ==
  /\ chunks \in Nat /\ output \in Seq(Chunks) /\ ptyTold \in Seq(Nat)
  /\ IF reader \in {"reads", "ended"} THEN chunk = {} ELSE \E c \in chunk : c \in Chunks /\ chunk = {c}

(* What was told, what the reader has and what it will read, in order.     *)
Ordered ==
  /\ \A i \in 1..Len(ptyTold) :
       /\ ptyTold[i] <= chunks /\ (i > 1 => ptyTold[i] > ptyTold[i - 1])
       /\ \A c \in chunk : ptyTold[i] < c.n
       /\ \A j \in 1..Len(output) : ptyTold[i] < output[j].n
  /\ \A c \in chunk : c.n <= chunks /\ \A j \in 1..Len(output) : c.n < output[j].n
  /\ \A i \in 1..Len(output) :
       output[i].n <= chunks /\ \A j \in 1..(i - 1) : output[j].n < output[i].n

(* Each subscription has what was told since it was made.                  *)
HasFrom(g, from, to) == g = [i \in 1 .. to - from |-> from + i]
Subscribed ==
  /\ subs \in [Pt!Subs -> {"none", "open", "closed"}] /\ since \in [Pt!Subs -> Nat]
  /\ DOMAIN got = Pt!Subs /\ subs[Pt!Term] # "none" /\ since[Pt!Term] = 0
  /\ \A s \in Pt!Subs :
       /\ since[s] <= Len(ptyTold)
       /\ subs[s] = "none" => got[s] = <<>>
       /\ subs[s] = "closed" => reader = "ended"
       /\ subs[s] # "none" => HasFrom(got[s], since[s], Len(ptyTold))
Passing == Streams /\ Ordered /\ Subscribed

LEMMA ReceivesNone == \A k \in Nat : HasFrom(<<>>, k, k)
<1> TAKE k \in Nat
<1>1. 1 .. k - k = {}
  OBVIOUS
<1> QED
  BY <1>1 DEF HasFrom

LEMMA ReceivesNext ==
  ASSUME NEW g, NEW from \in Nat, NEW to \in Nat, from <= to, HasFrom(g, from, to)
  PROVE  HasFrom(Append(g, to + 1), from, to + 1)
<1> DEFINE k == to - from
           f == [i \in 1 .. to + 1 - from |-> from + i]
<1>1. k \in Nat /\ to + 1 - from = k + 1 /\ from + (k + 1) = to + 1
  OBVIOUS
<1>2. g = [i \in 1..k |-> from + i] /\ f = [i \in 1..(k + 1) |-> from + i]
  BY <1>1 DEF HasFrom
<1> HIDE DEF k, f
<1>3. g \in Seq(Nat) /\ Len(g) = k /\ f \in Seq(Nat) /\ Len(f) = k + 1
  BY <1>1, <1>2
<1>4. \A i \in 1..k : g[i] = from + i
  BY <1>2
<1>5. Append(g, to + 1) \in Seq(Nat) /\ Len(Append(g, to + 1)) = k + 1
  BY <1>3
<1>6. \A i \in 1..(k + 1) : Append(g, to + 1)[i] = f[i]
  BY <1>1, <1>2, <1>3, <1>4
<1>7. Append(g, to + 1) = f
  BY <1>3, <1>5, <1>6, SeqEqual
<1> QED
  BY <1>7 DEF HasFrom, f

LEMMA InitPassing == Pt!Init => Passing
<1> SUFFICES ASSUME Pt!Init PROVE Passing
  OBVIOUS
<1>1. /\ chunks = 0 /\ output = <<>> /\ ptyTold = <<>> /\ reader = "reads" /\ chunk = {}
      /\ Len(output) = 0 /\ Len(ptyTold) = 0
  BY DEF Pt!Init
<1>2. Streams /\ Ordered
  BY <1>1 DEF Streams, Ordered
<1>3. \A s \in Pt!Subs : Pt!Opened(s) \in {"none", "open"}
  BY DEF Pt!Opened
<1>4. Pt!Term \in Pt!Subs /\ Pt!Opened(Pt!Term) = "open"
  BY DEF Pt!Subs, Pt!Opened
<1>5. HasFrom(<<>>, 0, 0)
  BY ReceivesNone
<1>6. Subscribed
  BY <1>1, <1>3, <1>4, <1>5 DEF Pt!Init, Subscribed
<1> QED
  BY <1>2, <1>6 DEF Passing

(* The program writes a chunk, or what it wrote is lost.                   *)
LEMMA WritesChunk ==
  ASSUME Passing, NEW query \in BOOLEAN, Pt!Write(query)
  PROVE  Passing'
<1> DEFINE new == [n |-> chunks + 1, query |-> query]
           L == Len(output)
<1>1. /\ chunks' = chunks + 1 /\ output' = Append(output, new)
      /\ UNCHANGED <<reader, chunk, subs, got, since, ptyTold>>
  BY DEF Pt!Write, Pt!heard
<1>2. chunks \in Nat /\ output \in Seq(Chunks) /\ L \in Nat /\ new \in Chunks
  BY DEF Passing, Streams, Chunks
<1> HIDE DEF new, L
<1>3. /\ output' \in Seq(Chunks) /\ Len(output') = L + 1
      /\ \A i \in 1..L : output'[i] = output[i]
      /\ output'[L + 1] = new
  BY <1>1, <1>2 DEF L
<1>4. new.n = chunks + 1
  BY DEF new
<1>5. \A i \in 1..Len(output') : i \in 1..L \/ i = L + 1
  BY <1>2, <1>3
<1>6. Streams'
  BY <1>1, <1>2, <1>3 DEF Passing, Streams
<1>7. ASSUME NEW j \in 1..L PROVE output[j].n \in Nat /\ output[j].n <= chunks
  <2>1. output[j] \in Chunks
    BY <1>2, ElementOfSeq DEF L
  <2> QED
    BY <2>1 DEF Passing, Ordered, L, Chunks
<1>8. \A i \in 1..Len(ptyTold) : ptyTold[i] \in Nat
  BY DEF Passing, Streams
<1>9. \A c \in chunk : c.n \in Nat
  BY DEF Passing, Streams, Chunks
<1>10. Ordered'
  <2>1. ASSUME NEW i \in 1..Len(ptyTold)
        PROVE  /\ ptyTold[i] <= chunks' /\ (i > 1 => ptyTold[i] > ptyTold[i - 1])
               /\ \A c \in chunk : ptyTold[i] < c.n
               /\ \A j \in 1..Len(output') : ptyTold[i] < output'[j].n
    BY <1>1, <1>2, <1>3, <1>4, <1>5, <1>8 DEF Passing, Ordered, L
  <2>2. ASSUME NEW c \in chunk
        PROVE  c.n <= chunks' /\ \A j \in 1..Len(output') : c.n < output'[j].n
    BY <1>1, <1>2, <1>3, <1>4, <1>5, <1>9 DEF Passing, Ordered, L
  <2>3. ASSUME NEW i \in 1..Len(output')
        PROVE  output'[i].n <= chunks' /\ \A j \in 1..(i - 1) : output'[j].n < output'[i].n
    <3>1. CASE i \in 1..L
      <4>1. \A j \in 1..(i - 1) : j \in 1..L
        BY <1>2, <3>1
      <4>2. output[i].n <= chunks /\ \A j \in 1..(i - 1) : output[j].n < output[i].n
        BY <3>1 DEF Passing, Ordered, L
      <4> QED
        BY <1>1, <1>2, <1>3, <1>7, <3>1, <4>1, <4>2
    <3>2. CASE i = L + 1
      <4>1. \A j \in 1..(i - 1) : j \in 1..L
        BY <1>2, <3>2
      <4> QED
        BY <1>1, <1>2, <1>3, <1>4, <1>7, <3>2, <4>1
    <3> QED
      BY <1>5, <3>1, <3>2
  <2> QED
    BY <1>1, <2>1, <2>2, <2>3 DEF Ordered
<1>11. Subscribed'
  BY <1>1 DEF Passing, Subscribed
<1> QED
  BY <1>6, <1>10, <1>11 DEF Passing

LEMMA LosesChunks ==
  ASSUME Passing, Pt!LoseOutput
  PROVE  Passing'
<1>1. output' = <<>> /\ UNCHANGED <<chunks, reader, chunk, subs, got, since, ptyTold>>
  BY DEF Pt!LoseOutput, Pt!heard
<1>2. output' \in Seq(Chunks) /\ Len(output') = 0
  BY <1>1
<1>3. Streams'
  BY <1>1, <1>2 DEF Passing, Streams
<1>4. Ordered'
  BY <1>1, <1>2 DEF Passing, Ordered
<1>5. Subscribed'
  BY <1>1 DEF Passing, Subscribed
<1> QED
  BY <1>3, <1>4, <1>5 DEF Passing

(* The reader takes the first chunk,                                       *)
LEMMA ReadsChunk ==
  ASSUME Passing, Pt!Read
  PROVE  Passing'
<1> DEFINE first == Head(output)
           rest == Tail(output)
           L == Len(output)
<1>1. /\ reader = "reads" /\ output # <<>> /\ reader' = "parses" /\ chunk' = {first}
      /\ output' = rest /\ UNCHANGED <<chunks, subs, got, since, ptyTold>>
  BY DEF Pt!Read, Pt!heard
<1>2. output \in Seq(Chunks) /\ L \in Nat \ {0}
  BY <1>1, EmptySeq DEF Passing, Streams
<1>3. /\ first \in Chunks /\ rest \in Seq(Chunks) /\ Len(rest) = L - 1
      /\ \A i \in 1..Len(rest) : rest[i] = output[i + 1]
  BY <1>1, <1>2, HeadTailProperties
<1>4. first = output[1]
  BY <1>2
<1> HIDE DEF first, rest, L
<1>5. \A i \in 1..Len(output') : i + 1 \in 1..L /\ 1 \in 1..((i + 1) - 1)
                                /\ \A j \in 1..(i - 1) : j \in 1..Len(output') /\ j + 1 \in 1..((i + 1) - 1)
  BY <1>1, <1>2, <1>3
<1>6. 1 \in 1..L
  BY <1>2
<1>7. Streams'
  BY <1>1, <1>3 DEF Passing, Streams
<1>8. Ordered'
  <2>1. ASSUME NEW i \in 1..Len(ptyTold)
        PROVE  /\ ptyTold[i] <= chunks /\ (i > 1 => ptyTold[i] > ptyTold[i - 1])
               /\ ptyTold[i] < first.n
               /\ \A j \in 1..Len(output') : ptyTold[i] < output'[j].n
    BY <1>1, <1>3, <1>4, <1>5, <1>6 DEF Passing, Ordered, L
  <2>2. first.n <= chunks /\ \A j \in 1..Len(output') : first.n < output'[j].n
    BY <1>1, <1>3, <1>4, <1>5, <1>6 DEF Passing, Ordered, L
  <2>3. ASSUME NEW i \in 1..Len(output')
        PROVE  output'[i].n <= chunks /\ \A j \in 1..(i - 1) : output'[j].n < output'[i].n
    <3>1. /\ output[i + 1].n <= chunks
          /\ \A j \in 1..((i + 1) - 1) : output[j].n < output[i + 1].n
      BY <1>5 DEF Passing, Ordered, L
    <3>2. \A j \in 1..(i - 1) : output'[j] = output[j + 1] /\ output[j + 1].n < output[i + 1].n
      BY <1>1, <1>3, <1>5, <3>1
    <3> QED
      BY <1>1, <1>3, <3>1, <3>2
  <2> QED
    BY <1>1, <2>1, <2>2, <2>3 DEF Ordered
<1>9. Subscribed'
  BY <1>1 DEF Passing, Subscribed
<1> QED
  BY <1>7, <1>8, <1>9 DEF Passing

(* and when it is parsed and answered, passes it on.                       *)
LEMMA TellsChunk ==
  ASSUME Passing, Pt!Tell
  PROVE  Passing'
<1> DEFINE L == Len(ptyTold)
<1>1. PICK c \in Chunks : chunk = {c}
  BY DEF Passing, Streams, Pt!Tell
<1>2. /\ reader = "tells" /\ reader' = "reads" /\ chunk' = {} /\ ptyTold' = Append(ptyTold, c.n)
      /\ got' = [s \in Pt!Subs |-> IF subs[s] = "open" THEN Append(got[s], L + 1) ELSE got[s]]
      /\ UNCHANGED <<chunks, output, subs, since>>
  <2>1. (CHOOSE d \in chunk : TRUE) = c
    BY <1>1
  <2> QED
    BY <2>1 DEF Pt!Tell, Pt!pty
<1>3. ptyTold \in Seq(Nat) /\ L \in Nat /\ c.n \in Nat
  BY <1>1 DEF Passing, Streams, Chunks
<1> HIDE DEF L
<1>4. /\ ptyTold' \in Seq(Nat) /\ Len(ptyTold') = L + 1
      /\ \A i \in 1..L : ptyTold'[i] = ptyTold[i]
      /\ ptyTold'[L + 1] = c.n
  BY <1>2, <1>3 DEF L
<1>5. Streams'
  BY <1>2, <1>4 DEF Passing, Streams
<1>6. Ordered'
  <2>1. ASSUME NEW i \in 1..Len(ptyTold')
        PROVE  /\ ptyTold'[i] <= chunks /\ (i > 1 => ptyTold'[i] > ptyTold'[i - 1])
               /\ \A j \in 1..Len(output) : ptyTold'[i] < output[j].n
    <3>1. CASE i \in 1..L
      <4>1. i > 1 => i - 1 \in 1..L
        BY <1>3, <3>1
      <4> QED
        BY <1>4, <3>1, <4>1 DEF Passing, Ordered, L
    <3>2. CASE i = L + 1
      <4>1. i > 1 => i - 1 \in 1..L /\ ptyTold'[i - 1] = ptyTold[i - 1]
        BY <1>3, <1>4, <3>2
      <4>2. c \in chunk
        BY <1>1
      <4>3. \A k \in 1..L : ptyTold[k] < c.n /\ ptyTold[k] \in Nat
        BY <1>3, <4>2 DEF Passing, Ordered, L
      <4>4. c.n <= chunks /\ \A j \in 1..Len(output) : c.n < output[j].n
        BY <4>2 DEF Passing, Ordered
      <4>5. i > 1 => ptyTold'[i] > ptyTold'[i - 1]
        BY <1>3, <1>4, <3>2, <4>1, <4>3
      <4> QED
        BY <1>4, <3>2, <4>4, <4>5
    <3> QED
      BY <1>3, <1>4, <3>1, <3>2
  <2>2. \A i \in 1..Len(output) :
          output[i].n <= chunks /\ \A j \in 1..(i - 1) : output[j].n < output[i].n
    BY DEF Passing, Ordered
  <2> QED
    BY <1>2, <2>1, <2>2 DEF Ordered
<1>7. Subscribed'
  <2>1. ASSUME NEW s \in Pt!Subs
        PROVE  /\ since[s] <= L + 1
               /\ subs[s] = "none" => got'[s] = <<>>
               /\ subs[s] # "closed"
               /\ subs[s] # "none" => HasFrom(got'[s], since[s], L + 1)
    <3>1. since[s] \in Nat /\ since[s] <= L
      BY DEF Passing, Subscribed, L
    <3>2. subs[s] \in {"none", "open"}
      BY <1>2 DEF Passing, Subscribed
    <3>3. subs[s] = "open" => HasFrom(got[s], since[s], L)
      BY DEF Passing, Subscribed, L
    <3>4. subs[s] = "open" => HasFrom(Append(got[s], L + 1), since[s], L + 1)
      BY <1>3, <3>1, <3>3, ReceivesNext
    <3>5. got'[s] = IF subs[s] = "open" THEN Append(got[s], L + 1) ELSE got[s]
      BY <1>2
    <3>6. subs[s] = "none" => got[s] = <<>>
      BY DEF Passing, Subscribed
    <3> QED
      BY <1>3, <3>1, <3>2, <3>4, <3>5, <3>6
  <2>2. DOMAIN got' = Pt!Subs
    BY <1>2
  <2> QED
    BY <1>2, <1>4, <2>1, <2>2 DEF Passing, Subscribed
<1> QED
  BY <1>5, <1>6, <1>7 DEF Passing

LEMMA PassesOn ==
  ASSUME Passing, [Pt!Next]_(Pt!vars)
  PROVE  Passing'
<1> USE DEF Pt!pty, Pt!heard
<1>1. ASSUME NEW query \in BOOLEAN, Pt!Write(query) PROVE Passing'
  BY <1>1, WritesChunk
<1>2. CASE Pt!LoseOutput
  BY <1>2, LosesChunks
<1>3. CASE Pt!Read
  BY <1>3, ReadsChunk
<1>4. CASE Pt!Tell
  BY <1>4, TellsChunk
<1>5. ASSUME UNCHANGED <<chunks, output, ptyTold, reader, chunk, subs, got, since>> PROVE Passing'
  BY <1>5 DEF Passing, Streams, Ordered, Subscribed
<1>6. CASE Pt!ReadInput \/ Pt!Fork \/ Pt!Exit \/ Pt!HeirsExit \/ Pt!Kill \/ Pt!Waited
  BY <1>5, <1>6 DEF Pt!ReadInput, Pt!Fork, Pt!Exit, Pt!HeirsExit, Pt!Kill, Pt!Waited
<1>7. CASE Pt!Type \/ Pt!Typed \/ Pt!Resize \/ Pt!TermSteps \/ UNCHANGED Pt!vars
  BY <1>5, <1>7 DEF Pt!Type, Pt!Typed, Pt!Resize, Pt!TermSteps, Pt!Resized, Pt!Disconnected,
                    Pt!Leave, Pt!vars
<1>8. CASE Pt!Parse \/ Pt!Answer \/ Pt!Reply
  <2>1. /\ UNCHANGED <<chunks, output, ptyTold, chunk, subs, got, since>>
        /\ reader \notin {"reads", "ended"} /\ reader' \notin {"reads", "ended"}
    BY <1>8 DEF Pt!Parse, Pt!Answer, Pt!Reply
  <2>2. Streams'
    BY <2>1 DEF Passing, Streams
  <2>3. Ordered'
    BY <2>1 DEF Passing, Ordered
  <2>4. Subscribed'
    BY <2>1 DEF Passing, Subscribed
  <2> QED
    BY <2>2, <2>3, <2>4 DEF Passing
<1>9. CASE Pt!ReadEnd
  <2>1. /\ UNCHANGED <<chunks, output, ptyTold, chunk, got, since>>
        /\ reader = "reads" /\ reader' = "ended"
        /\ subs' = [s \in Pt!Subs |-> IF subs[s] = "open" THEN "closed" ELSE subs[s]]
    BY <1>9 DEF Pt!ReadEnd
  <2>2. Streams'
    BY <2>1 DEF Passing, Streams
  <2>3. Ordered'
    BY <2>1 DEF Passing, Ordered
  <2>4. Pt!Term \in Pt!Subs
    BY DEF Pt!Subs
  <2>5. Subscribed'
    BY <2>1, <2>4 DEF Passing, Subscribed
  <2> QED
    BY <2>2, <2>3, <2>5 DEF Passing
<1>10. ASSUME NEW s \in Pt!Subs, Pt!Subscribe(s) PROVE Passing'
  <2>1. /\ UNCHANGED <<chunks, output, ptyTold, reader, chunk, got>>
        /\ subs[s] = "none" /\ subs' = [subs EXCEPT ![s] = "open"]
        /\ since' = [since EXCEPT ![s] = Len(ptyTold)]
    BY <1>10 DEF Pt!Subscribe
  <2>2. Streams'
    BY <2>1 DEF Passing, Streams
  <2>3. Ordered'
    BY <2>1 DEF Passing, Ordered
  <2>4. Len(ptyTold) \in Nat
    BY DEF Passing, Streams
  <2>5. HasFrom(got[s], Len(ptyTold), Len(ptyTold))
    BY <2>1, <2>4, ReceivesNone DEF Passing, Subscribed
  <2>6. s # Pt!Term
    BY <2>1 DEF Passing, Subscribed
  <2>7. ASSUME NEW u \in Pt!Subs
        PROVE  /\ since'[u] <= Len(ptyTold)
               /\ subs'[u] = "none" => got[u] = <<>>
               /\ subs'[u] = "closed" => reader = "ended"
               /\ subs'[u] # "none" => HasFrom(got[u], since'[u], Len(ptyTold))
    <3>1. CASE u = s
      BY <2>1, <2>4, <2>5, <3>1 DEF Passing, Subscribed
    <3>2. CASE u # s
      BY <2>1, <3>2 DEF Passing, Subscribed
    <3> QED
      BY <3>1, <3>2
  <2>8. Subscribed'
    BY <2>1, <2>4, <2>6, <2>7 DEF Passing, Subscribed
  <2> QED
    BY <2>2, <2>3, <2>8 DEF Passing
<1> QED
  BY <1>1, <1>2, <1>3, <1>4, <1>6, <1>7, <1>8, <1>9, <1>10 DEF Pt!Next, Pt!ReaderSteps

LEMMA PtySteps == [MCNext]_all => [Pt!Next]_(Pt!vars)
<1> USE DEF Pt!vars, Pt!pty, Pt!heard, ptyVars
<1>1. CASE Terminal(Pt!Next)
  BY <1>1 DEF Terminal
<1>2. CASE Claude(Cl!Next) \/ Codex(Co!Next) \/ Grok(Gr!Next) \/ Headless(He!Next)
  BY <1>2 DEF Claude, Codex, Grok, Headless, Others
<1>3. CASE Questions(Br!Next) \/ Agent(Next) \/ Keys(Ke!Next)
  BY <1>3 DEF Questions, Agent, Keys
<1>4. CASE UNCHANGED all
  BY <1>4 DEF all
<1> QED
  BY <1>1, <1>2, <1>3, <1>4 DEF MCNext

(* Every subscription has all that was told since it was made, in the order*)
(* the program wrote it, and the first has it from the first byte          *)
(* (rozu-pty spawn_subscribed, subscribe): for any output, buffers and     *)
(* later subscriptions.                                                    *)
THEOREM SeesEveryByteAlways == MCSpec => []SeesEveryByte
<1>1. MCInit => Passing
  BY InitPassing DEF MCInit
<1>2. Passing /\ [MCNext]_all => Passing'
  BY PtySteps, PassesOn
<1>3. Passing => SeesEveryByte
  <2> SUFFICES ASSUME Passing PROVE Pt!SeesEveryByte
    BY DEF SeesEveryByte
  <2>1. since[Pt!Term] = 0
    BY DEF Passing, Subscribed
  <2>2. \A s \in Pt!Subs :
          subs[s] # "none" => got[s] = [i \in 1 .. Len(ptyTold) - since[s] |-> since[s] + i]
    BY DEF Passing, Subscribed, HasFrom
  <2>3. \A i \in 1..Len(ptyTold) : i > 1 => ptyTold[i] > ptyTold[i - 1]
    BY DEF Passing, Ordered
  <2> QED
    BY <2>1, <2>2, <2>3 DEF Pt!SeesEveryByte
<1> QED
  BY <1>1, <1>2, <1>3, PTL DEF MCSpec

-----------------------------------------------------------------------------
(* A chat that a vendor's CLI answers.                                     *)

Turn == Cl!Turn
Utterance == {"user", "assistant"} \X Nat
Endings == {"done", "failed", "logged_out"}
Line == [kind : Endings \cup {"text", "eof", "started", "refused"}, turn : Nat]
Process == [knows : Seq(Utterance), busy : SUBSET Nat, out : Seq(Line)]
Eof == [kind |-> "eof", turn |-> 0]
Answer == <<"assistant", Turn>>

Conversing ==
  /\ session \in Seq(Utterance) /\ told \in Seq(Nat) /\ known \in BOOLEAN
  /\ phase # "streaming" => told = <<>>
  /\ phase # "idle" => session # <<>> /\ cli # {}
  /\ cli \subseteq Process /\ \A p, q \in cli : p = q

(* A process that was not sent anything, but may have died.                *)
Quiet(p) == p.busy = {} /\ p.out \in {<<>>, <<Eof>>}

(* The turn's text, its end, and the end of the output, in this order.     *)
InOrder(p) ==
  /\ p.busy \subseteq {Turn}
  /\ \A i \in 1 .. Len(p.out) :
       /\ p.out[i] = Eof \/ p.out[i] \in [kind : Endings \cup {"text"}, turn : {Turn}]
       /\ p.out[i].kind # "text" =>
            p.busy = {} /\ \A j \in (i + 1) .. Len(p.out) : p.out[j] = Eof
       /\ p.out[i] = Eof => i = Len(p.out)

(* It knows the chat, and its answer is told, or on its way, or neither.   *)
Texts(p) == {i \in 1 .. Len(p.out) : p.out[i].kind = "text"}
Knowing(p) ==
  \/ p.knows = session /\ told = <<>> /\ Texts(p) = {}
  \/ p.knows = Append(session, Answer) /\ told = <<Turn>> /\ Texts(p) = {}
  \/ /\ p.knows = Append(session, Answer) /\ told = <<>>
     /\ \E i \in 1 .. Len(p.out) : Texts(p) = {i}

(* What it is sent makes it know the chat.                                 *)
Primed(p) == IF known THEN p.knows \o <<Last(session)>> = session ELSE p.knows = <<>>

ClaudeKnows ==
  /\ Conversing /\ phase \in {"idle", "sending", "streaming"}
  /\ history \in Seq(Utterance) /\ Len(history) <= Len(session)
  /\ phase = "sending" => Len(history) < Len(session)
  /\ \A p \in cli :
       /\ phase = "idle" /\ history = session => Quiet(p) /\ p.knows = session
       /\ phase = "sending" => Quiet(p) /\ Primed(p)
       /\ phase = "streaming" => InOrder(p) /\ Knowing(p)

(* What follows the answer that turn/start waits for.                      *)
Awaited(p) ==
  /\ p.out # <<>>
  /\ \/ p.busy = {} /\ p.out[1] = Eof
     \/ p.busy = {} /\ p.out[1] = [kind |-> "refused", turn |-> Turn]
     \/ /\ p.out[1] = [kind |-> "started", turn |-> Turn]
        /\ InOrder(Cl!Rest(p)) /\ (gap = {} => Knowing(Cl!Rest(p)))

CodexKnows ==
  /\ Conversing /\ phase \in {"idle", "starting", "sending", "waiting", "streaming"}
  /\ pending \in Seq(Line) /\ thread \in BOOLEAN
  /\ phase = "starting" => gap = {}
  /\ "stopped_early" \notin gap => Cl!AnswersThePrompt /\ \A p \in cli :
       /\ phase = "starting" => pending = <<>> /\ ~known /\ Quiet(p) /\ p.knows = <<>>
       /\ phase = "idle" /\ thread =>
            pending = <<>> /\ Quiet(p) /\ (gap = {} => p.knows = session)
       /\ phase = "sending" => pending = <<>> /\ Quiet(p) /\ (gap = {} => Primed(p))
       /\ phase = "waiting" => pending = <<>> /\ Awaited(p)
       /\ phase = "streaming" => pending = <<>> /\ InOrder(p) /\ (gap = {} => Knowing(p))

GrokKnows ==
  /\ Conversing /\ phase \in {"idle", "starting", "opening", "sending", "streaming"}
  /\ "stopped_early" \notin gap => Cl!AnswersThePrompt /\ \A p \in cli :
       /\ phase = "idle" /\ opened => Quiet(p) /\ (gap = {} => p.knows = session)
       /\ phase = "sending" => Quiet(p) /\ (gap = {} => Primed(p))
       /\ phase = "streaming" => InOrder(p) /\ (gap = {} => Knowing(p))

HeadlessKnows ==
  /\ Conversing /\ phase \in {"idle", "streaming"}
  /\ saved \in Seq(Utterance) /\ resume \in BOOLEAN /\ Cl!AnswersThePrompt
  /\ phase = "idle" => cli = {} /\ (resume /\ gap = {} => saved = session)
  /\ phase = "streaming" => known = resume
  /\ \A p \in cli : InOrder(p) /\ (gap = {} \/ ~known => Knowing(p))

VendorInv ==
  /\ part = "claude" => ClaudeKnows
  /\ part = "codex" => CodexKnows
  /\ part = "grok" => GrokKnows
  /\ part = "headless" => HeadlessKnows
-----------------------------------------------------------------------------
Said == [i \in 1 .. Len(told) |-> <<"assistant", told[i]>>]

LEMMA EndingsAre ==
  ASSUME NEW line, line.kind \in Endings
  PROVE  line.kind # "text" /\ line # Eof
  BY DEF Endings, Eof

LEMMA OnlyOne == \A p : Cl!The({p}) = p /\ Co!The({p}) = p /\ Gr!The({p}) = p /\ He!The({p}) = p
  BY DEF Cl!The, Co!The, Gr!The, He!The

Users(s) == {i \in 1 .. Len(s) : s[i][1] = "user"}

LEMMA UsersFinite == \A s : Len(s) \in Nat => IsFiniteSet(Users(s)) /\ Cardinality(Users(s)) \in Nat
<1> SUFFICES ASSUME NEW s, Len(s) \in Nat
             PROVE  IsFiniteSet(Users(s)) /\ Cardinality(Users(s)) \in Nat
  OBVIOUS
<1>1. IsFiniteSet(1 .. Len(s))
  BY FS_Interval
<1>2. Users(s) \in SUBSET (1 .. Len(s))
  BY DEF Users
<1>3. IsFiniteSet(Users(s))
  BY <1>1, <1>2, FS_Subset
<1> QED
  BY <1>3, FS_CardinalityType

LEMMA TurnIs == Turn = Cardinality(Users(session)) /\ (session \in Seq(Utterance) => Turn \in Nat)
<1>1. Turn = Cardinality(Users(session))
  BY DEF Turn, Cl!Turn, Users, Cardinality, Cl!Cardinality
<1>2. session \in Seq(Utterance) => Len(session) \in Nat
  OBVIOUS
<1> QED
  BY <1>1, <1>2, UsersFinite

LEMMA NextTurn ==
  ASSUME session \in Seq(Utterance), session' = Append(session, <<"user", Turn + 1>>)
  PROVE  Turn' = Turn + 1 /\ session' \in Seq(Utterance) /\ Last(session)' = <<"user", Turn + 1>>
<1>1. Turn \in Nat /\ Turn = Cardinality(Users(session))
  BY TurnIs
<1>2. Turn' = Cardinality(Users(session'))
  BY DEF Turn, Cl!Turn, Users, Cardinality, Cl!Cardinality
<1>3. <<"user", Turn + 1>> \in Utterance
  BY <1>1 DEF Utterance
<1>4. session' \in Seq(Utterance) /\ Len(session') = Len(session) + 1
      /\ session'[Len(session) + 1] = <<"user", Turn + 1>>
      /\ \A i \in 1 .. Len(session) : session'[i] = session[i]
  BY <1>3
<1>5. Users(session') = Users(session) \cup {Len(session) + 1}
  BY <1>4 DEF Users
<1>6. Len(session) + 1 \notin Users(session)
  BY DEF Users
<1>7. IsFiniteSet(Users(session))
  BY UsersFinite
<1>8. Cardinality(Users(session')) = Cardinality(Users(session)) + 1
  BY <1>5, <1>6, <1>7, FS_AddElement
<1> QED
  BY <1>1, <1>2, <1>4, <1>8 DEF Last

LEMMA SameTurn == session' = session => Turn' = Turn
  BY DEF Turn, Cl!Turn

(* A step of a CLI that has p: it says, ends or dies.                      *)
Moved(p, q) ==
  \/ \E n \in p.busy :
       /\ <<"assistant", n>> \notin ToSet(p.knows)
       /\ q = [knows |-> Append(p.knows, <<"assistant", n>>), busy |-> p.busy,
               out |-> Append(p.out, [kind |-> "text", turn |-> n])]
  \/ \E n \in p.busy, kind \in Endings :
       q = [knows |-> p.knows, busy |-> p.busy \ {n},
            out |-> Append(p.out, [kind |-> kind, turn |-> n])]
  \/ /\ \A i \in 1 .. Len(p.out) : p.out[i].kind # "eof"
     /\ q = [knows |-> p.knows, busy |-> {}, out |-> Append(p.out, Eof)]

LEMMA ProcessExcept ==
  ASSUME NEW p \in Process, NEW x
  PROVE  /\ [p EXCEPT !.out = x] = [knows |-> p.knows, busy |-> p.busy, out |-> x]
         /\ [p EXCEPT !.busy = x] = [knows |-> p.knows, busy |-> x, out |-> p.out]
         /\ [p EXCEPT !.knows = x] = [knows |-> x, busy |-> p.busy, out |-> p.out]
<1>1. PICK a, b, c : p = [knows |-> a, busy |-> b, out |-> c]
  BY DEF Process
<1> QED
  BY <1>1

(* What CliMoves is, in each of the four modules.                          *)
Sent(p, kind, n) == [p EXCEPT !.out = Append(@, [kind |-> kind, turn |-> n])]
Dead(p) == \E i \in 1 .. Len(p.out) : p.out[i].kind = "eof"
Says(p) ==
  \E n \in p.busy :
    /\ <<"assistant", n>> \notin ToSet(p.knows)
    /\ cli' = {[Sent(p, "text", n) EXCEPT !.knows = Append(@, <<"assistant", n>>)]}
Ends(p) == \E n \in p.busy, kind \in Endings : cli' = {[Sent(p, kind, n) EXCEPT !.busy = @ \ {n}]}
Dies(p) == ~Dead(p) /\ cli' = {[Sent(p, "eof", 0) EXCEPT !.busy = {}]}
CliMove(p) == Says(p) \/ Ends(p) \/ Dies(p)

LEMMA ClaudeMoves == ASSUME NEW p, cli = {p}, Cl!CliMoves PROVE CliMove(p)
<1>1. \A q, k, n : Cl!Sent(q, k, n) = Sent(q, k, n)
  BY DEF Cl!Sent, Sent
<1>2. Cl!Dead(p) <=> Dead(p)
  BY DEF Cl!Dead, Dead
<1>3. \A t : Cl!ToSet(t) = ToSet(t)
  BY DEF Cl!ToSet, ToSet
<1>6. ASSUME Cl!CliSays PROVE Says(p)
  <2>1. PICK n \in p.busy :
          /\ <<"assistant", n>> \notin Cl!ToSet(p.knows)
          /\ cli' = {[Cl!Sent(p, "text", n) EXCEPT !.knows = Append(@, <<"assistant", n>>)]}
    BY <1>6 DEF Cl!CliSays
  <2> QED
    BY <1>1, <1>3, <2>1 DEF Says
<1>4. Cl!CliEnds => Ends(p)
  BY <1>1 DEF Cl!CliEnds, Ends, Endings
<1>5. Cl!CliDies => Dies(p)
  BY <1>1, <1>2 DEF Cl!CliDies, Dies
<1> QED
  BY <1>4, <1>5, <1>6 DEF Cl!CliMoves, CliMove

LEMMA CodexMoves == ASSUME NEW p, cli = {p}, Co!CliMoves PROVE CliMove(p)
<1>1. \A q, k, n : Co!Sent(q, k, n) = Sent(q, k, n)
  BY DEF Co!Sent, Sent
<1>2. Co!Dead(p) <=> Dead(p)
  BY DEF Co!Dead, Dead
<1>3. \A t : Co!ToSet(t) = ToSet(t)
  BY DEF Co!ToSet, ToSet
<1>6. ASSUME Co!CliSays PROVE Says(p)
  <2>1. PICK n \in p.busy :
          /\ <<"assistant", n>> \notin Co!ToSet(p.knows)
          /\ cli' = {[Co!Sent(p, "text", n) EXCEPT !.knows = Append(@, <<"assistant", n>>)]}
    BY <1>6 DEF Co!CliSays
  <2> QED
    BY <1>1, <1>3, <2>1 DEF Says
<1>4. Co!CliEnds => Ends(p)
  BY <1>1 DEF Co!CliEnds, Ends, Endings
<1>5. Co!CliDies => Dies(p)
  BY <1>1, <1>2 DEF Co!CliDies, Dies
<1> QED
  BY <1>4, <1>5, <1>6 DEF Co!CliMoves, CliMove

LEMMA GrokMoves == ASSUME NEW p, cli = {p}, Gr!CliMoves PROVE CliMove(p)
<1>1. \A q, k, n : Gr!Sent(q, k, n) = Sent(q, k, n)
  BY DEF Gr!Sent, Sent
<1>2. Gr!Dead(p) <=> Dead(p)
  BY DEF Gr!Dead, Dead
<1>3. \A t : Gr!ToSet(t) = ToSet(t)
  BY DEF Gr!ToSet, ToSet
<1>6. ASSUME Gr!CliSays PROVE Says(p)
  <2>1. PICK n \in p.busy :
          /\ <<"assistant", n>> \notin Gr!ToSet(p.knows)
          /\ cli' = {[Gr!Sent(p, "text", n) EXCEPT !.knows = Append(@, <<"assistant", n>>)]}
    BY <1>6 DEF Gr!CliSays
  <2> QED
    BY <1>1, <1>3, <2>1 DEF Says
<1>4. Gr!CliEnds => Ends(p)
  BY <1>1 DEF Gr!CliEnds, Ends, Endings
<1>5. Gr!CliDies => Dies(p)
  BY <1>1, <1>2 DEF Gr!CliDies, Dies
<1> QED
  BY <1>4, <1>5, <1>6 DEF Gr!CliMoves, CliMove

LEMMA HeadlessMoves == ASSUME NEW p, cli = {p}, He!CliMoves PROVE CliMove(p)
<1>1. \A q, k, n : He!Sent(q, k, n) = Sent(q, k, n)
  BY DEF He!Sent, Sent
<1>2. He!Dead(p) <=> Dead(p)
  BY DEF He!Dead, Dead
<1>3. \A t : He!ToSet(t) = ToSet(t)
  BY DEF He!ToSet, ToSet
<1>6. ASSUME He!CliSays PROVE Says(p)
  <2>1. PICK n \in p.busy :
          /\ <<"assistant", n>> \notin He!ToSet(p.knows)
          /\ cli' = {[He!Sent(p, "text", n) EXCEPT !.knows = Append(@, <<"assistant", n>>)]}
    BY <1>6 DEF He!CliSays
  <2> QED
    BY <1>1, <1>3, <2>1 DEF Says
<1>4. He!CliEnds => Ends(p)
  BY <1>1 DEF He!CliEnds, Ends, Endings
<1>5. He!CliDies => Dies(p)
  BY <1>1, <1>2 DEF He!CliDies, Dies
<1> QED
  BY <1>4, <1>5, <1>6 DEF He!CliMoves, CliMove

LEMMA MoveOne ==
  ASSUME NEW p \in Process, CliMove(p)
  PROVE  \E q : cli' = {q} /\ Moved(p, q)
<1> DEFINE After(k, n) == Append(p.out, [kind |-> k, turn |-> n])
<1>1. ASSUME NEW k, NEW n
      PROVE  Sent(p, k, n) = [knows |-> p.knows, busy |-> p.busy, out |-> After(k, n)]
  BY ProcessExcept DEF Sent
<1>2. CASE Says(p)
  <2>1. PICK n \in p.busy :
          /\ <<"assistant", n>> \notin ToSet(p.knows)
          /\ cli' = {[Sent(p, "text", n) EXCEPT !.knows = Append(@, <<"assistant", n>>)]}
    BY <1>2 DEF Says
  <2> HIDE DEF After
  <2>2. Sent(p, "text", n).knows = p.knows
    BY <1>1
  <2> DEFINE more == Append(p.knows, <<"assistant", n>>)
  <2>3. cli' = {[Sent(p, "text", n) EXCEPT !.knows = more]}
    BY <2>1, <2>2
  <2> HIDE DEF more
  <2>4. [Sent(p, "text", n) EXCEPT !.knows = more]
        = [knows |-> more, busy |-> p.busy, out |-> After("text", n)]
    BY <1>1
  <2> QED
    BY <2>1, <2>3, <2>4 DEF Moved, After, more
<1>3. CASE Ends(p)
  <2>1. PICK n \in p.busy, kind \in Endings :
          cli' = {[Sent(p, kind, n) EXCEPT !.busy = @ \ {n}]}
    BY <1>3 DEF Ends
  <2> HIDE DEF After
  <2>2. [Sent(p, kind, n) EXCEPT !.busy = @ \ {n}]
        = [knows |-> p.knows, busy |-> p.busy \ {n}, out |-> After(kind, n)]
    BY <1>1
  <2> QED
    BY <2>1, <2>2 DEF Moved, After
<1>4. CASE Dies(p)
  <2>1. ~Dead(p) /\ cli' = {[Sent(p, "eof", 0) EXCEPT !.busy = {}]}
    BY <1>4 DEF Dies
  <2> HIDE DEF After
  <2>2. [Sent(p, "eof", 0) EXCEPT !.busy = {}]
        = [knows |-> p.knows, busy |-> {}, out |-> After("eof", 0)]
    BY <1>1
  <2> QED
    BY <2>1, <2>2 DEF Moved, Dead, Eof, After
<1> QED
  BY <1>2, <1>3, <1>4 DEF CliMove
LEMMA MovedKeeps ==
  ASSUME Conversing, NEW p \in Process, NEW q, Moved(p, q)
  PROVE  /\ q \in Process
         /\ Quiet(p) => Quiet(q) /\ q.knows = p.knows
         /\ InOrder(p) => InOrder(q)
         /\ InOrder(p) /\ Knowing(p) => Knowing(q)
<1> DEFINE size == Len(p.out)
<1>1. p.knows \in Seq(Utterance) /\ p.busy \in SUBSET Nat /\ p.out \in Seq(Line) /\ size \in Nat
  BY DEF Process
<1>2. Turn \in Nat /\ session \in Seq(Utterance)
  BY TurnIs DEF Conversing
<1>3. CASE \E n \in p.busy :
             /\ <<"assistant", n>> \notin ToSet(p.knows)
             /\ q = [knows |-> Append(p.knows, <<"assistant", n>>), busy |-> p.busy,
                     out |-> Append(p.out, [kind |-> "text", turn |-> n])]
  <2>1. PICK n \in p.busy :
             /\ <<"assistant", n>> \notin ToSet(p.knows)
             /\ q = [knows |-> Append(p.knows, <<"assistant", n>>), busy |-> p.busy,
                     out |-> Append(p.out, [kind |-> "text", turn |-> n])]
    BY <1>3
  <2> DEFINE line == [kind |-> "text", turn |-> n]
  <2>2. line \in Line /\ <<"assistant", n>> \in Utterance
    BY <1>1 DEF Line, Utterance
  <2>3. q.knows = Append(p.knows, <<"assistant", n>>) /\ q.busy = p.busy /\ q.out = Append(p.out, line)
    BY <2>1
  <2>4. q.knows \in Seq(Utterance) /\ q.out \in Seq(Line)
    BY <1>1, <2>2, <2>3
  <2>5. q \in Process
    BY <1>1, <2>1, <2>3, <2>4 DEF Process
  <2>6. Len(q.out) = size + 1 /\ q.out[size + 1] = line /\ \A i \in 1 .. size : q.out[i] = p.out[i]
    BY <1>1, <2>2, <2>3
  <2>7. ~Quiet(p)
    BY DEF Quiet
  <2>8. ASSUME InOrder(p) PROVE InOrder(q) /\ n = Turn /\ Texts(q) = Texts(p) \cup {size + 1}
    <3>1. n = Turn /\ p.busy \subseteq {Turn} /\ p.busy # {}
      BY <2>8 DEF InOrder
    <3>2. \A i \in 1 .. size : p.out[i].kind = "text"
      BY <2>8, <3>1 DEF InOrder
    <3>3. line.kind = "text" /\ line \in [kind : Endings \cup {"text"}, turn : {Turn}] /\ line # Eof
      BY <3>1 DEF Eof
    <3>4. \A i \in 1 .. size + 1 : q.out[i].kind = "text" /\ q.out[i] # Eof
      BY <1>1, <2>6, <3>2, <3>3 DEF Eof
    <3>5. \A i \in 1 .. size : p.out[i] \in [kind : Endings \cup {"text"}, turn : {Turn}]
      BY <2>8, <3>2 DEF InOrder, Eof
    <3>6. \A i \in 1 .. size + 1 : q.out[i] \in [kind : Endings \cup {"text"}, turn : {Turn}]
      <4>1. \A i \in 1 .. size + 1 : i = size + 1 \/ i \in 1 .. size
        BY <1>1
      <4>2. q.out[size + 1] \in [kind : Endings \cup {"text"}, turn : {Turn}]
        BY <2>6, <3>3
      <4>3. \A i \in 1 .. size : q.out[i] \in [kind : Endings \cup {"text"}, turn : {Turn}]
        BY <2>6, <3>5
      <4> QED
        BY <4>1, <4>2, <4>3
    <3>7. InOrder(q)
      BY <2>3, <2>6, <3>1, <3>4, <3>6 DEF InOrder
    <3>8. Texts(q) = Texts(p) \cup {size + 1}
      BY <1>1, <2>6, <3>2, <3>4 DEF Texts
    <3> QED
      BY <3>1, <3>7, <3>8
  <2>9. ASSUME InOrder(p), Knowing(p) PROVE Knowing(q)
    <3>1. n = Turn /\ Answer \notin ToSet(p.knows)
      BY <2>1, <2>8, <2>9 DEF Answer
    <3>2. p.knows # Append(session, Answer)
      <4>1. Answer \in Utterance
        BY <1>2 DEF Answer, Utterance
      <4>2. Append(session, Answer)[Len(session) + 1] = Answer
            /\ Len(session) + 1 \in DOMAIN Append(session, Answer)
        BY <1>2, <4>1
      <4> QED
        BY <3>1, <4>2 DEF ToSet
    <3>3. p.knows = session /\ told = <<>> /\ Texts(p) = {}
      BY <2>9, <3>2 DEF Knowing
    <3>4. q.knows = Append(session, Answer) /\ Texts(q) = {size + 1}
      BY <2>3, <2>8, <2>9, <3>1, <3>3 DEF Answer
    <3>5. \E i \in 1 .. Len(q.out) : Texts(q) = {i}
      <4>1. size + 1 \in 1 .. Len(q.out)
        BY <1>1, <2>6
      <4> QED
        BY <3>4, <4>1
    <3> QED
      BY <3>3, <3>4, <3>5 DEF Knowing
  <2> QED
    BY <2>5, <2>7, <2>8, <2>9
<1>4. ASSUME NEW line \in Line, line.kind # "text", q.out = Append(p.out, line),
             q.knows = p.knows, q.busy \subseteq p.busy, q.busy \in SUBSET Nat,
             q = [knows |-> q.knows, busy |-> q.busy, out |-> q.out],
             q.busy = {} \/ ~InOrder(p),
             \/ line = Eof /\ q.busy = {} /\ \A i \in 1 .. size : p.out[i].kind # "eof"
             \/ /\ p.busy # {}
                /\ InOrder(p) => line \in [kind : Endings, turn : {Turn}]
      PROVE  /\ q \in Process
             /\ Quiet(p) => Quiet(q) /\ q.knows = p.knows
             /\ InOrder(p) => InOrder(q)
             /\ InOrder(p) /\ Knowing(p) => Knowing(q)
  <2>1. q.out \in Seq(Line) /\ Len(q.out) = size + 1 /\ q.out[size + 1] = line
        /\ \A i \in 1 .. size : q.out[i] = p.out[i]
    BY <1>1, <1>4
  <2>2. q \in Process
    BY <1>1, <1>4, <2>1 DEF Process
  <2>3. ASSUME Quiet(p) PROVE Quiet(q)
    <3>1. p.busy = {} /\ line = Eof /\ q.busy = {}
      BY <1>4, <2>3 DEF Quiet
    <3>2. p.out # <<Eof>>
      BY <1>4, <3>1 DEF Eof
    <3>3. p.out = <<>>
      BY <2>3, <3>2 DEF Quiet
    <3> QED
      BY <1>4, <3>1, <3>3 DEF Quiet
  <2>4. ASSUME InOrder(p) PROVE InOrder(q)
    <3>1. q.busy = {}
      BY <1>4, <2>4
    <3>2. line = Eof \/ line \in [kind : Endings \cup {"text"}, turn : {Turn}]
      BY <1>4, <2>4
    <3>3. \A i \in 1 .. size : p.out[i] # Eof
      <4>1. CASE p.busy # {}
        BY <2>4, <4>1 DEF InOrder, Eof
      <4>2. CASE p.busy = {}
        BY <1>4, <4>2 DEF Eof
      <4> QED
        BY <4>1, <4>2
    <3>4. \A i \in 1 .. size : p.out[i].kind # "text" =>
            (\A j \in (i + 1) .. size : p.out[j] = Eof) /\ line = Eof
      BY <1>4, <2>4 DEF InOrder
    <3>5. ASSUME NEW i \in 1 .. Len(q.out)
          PROVE  /\ q.out[i] = Eof \/ q.out[i] \in [kind : Endings \cup {"text"}, turn : {Turn}]
                 /\ q.out[i].kind # "text" =>
                      q.busy = {} /\ \A j \in (i + 1) .. Len(q.out) : q.out[j] = Eof
                 /\ q.out[i] = Eof => i = Len(q.out)
      <4>1. CASE i = size + 1
        BY <1>1, <2>1, <3>1, <3>2, <4>1
      <4>2. CASE i \in 1 .. size
        <5>1. q.out[i] = p.out[i] /\ q.out[i] # Eof
          BY <2>1, <3>3, <4>2
        <5>2. q.out[i] \in [kind : Endings \cup {"text"}, turn : {Turn}]
          BY <2>4, <4>2, <5>1 DEF InOrder
        <5>3. ASSUME q.out[i].kind # "text", NEW j \in (i + 1) .. Len(q.out) PROVE q.out[j] = Eof
          <6>1. CASE j = size + 1
            BY <2>1, <3>4, <4>2, <5>1, <5>3, <6>1
          <6>2. CASE j \in (i + 1) .. size
            <7>1. j \in 1 .. size /\ q.out[j] = p.out[j]
              BY <1>1, <2>1, <4>2, <6>2
            <7>2. p.out[i].kind # "text"
              BY <5>1, <5>3
            <7> QED
              BY <3>4, <4>2, <6>2, <7>1, <7>2
          <6> QED
            BY <1>1, <2>1, <4>2, <6>1, <6>2
        <5> QED
          BY <3>1, <5>1, <5>2, <5>3
      <4> QED
        BY <1>1, <2>1, <4>1, <4>2
    <3> QED
      BY <3>1, <3>5 DEF InOrder
  <2>5. Texts(q) = Texts(p)
    BY <1>1, <1>4, <2>1 DEF Texts
  <2>6. Knowing(p) => Knowing(q)
    <3>1. \A i \in 1 .. size : i \in 1 .. Len(q.out)
      BY <1>1, <2>1
    <3> QED
      BY <1>4, <2>5, <3>1 DEF Knowing
  <2> QED
    BY <1>4, <2>2, <2>3, <2>4, <2>6
<1>5. CASE \E n \in p.busy, kind \in Endings :
             q = [knows |-> p.knows, busy |-> p.busy \ {n},
                  out |-> Append(p.out, [kind |-> kind, turn |-> n])]
  <2>1. PICK n \in p.busy, kind \in Endings :
             q = [knows |-> p.knows, busy |-> p.busy \ {n},
                  out |-> Append(p.out, [kind |-> kind, turn |-> n])]
    BY <1>5
  <2> DEFINE line == [kind |-> kind, turn |-> n]
  <2>2. line \in Line /\ line.kind # "text" /\ line.kind \in Endings /\ line.turn = n
    BY <1>1 DEF Line, Endings
  <2>3. q.knows = p.knows /\ q.busy = p.busy \ {n} /\ q.out = Append(p.out, line)
        /\ q = [knows |-> q.knows, busy |-> q.busy, out |-> q.out]
    BY <2>1
  <2>4. InOrder(p) => q.busy = {} /\ n = Turn
    BY <2>3 DEF InOrder
  <2>5. InOrder(p) => line \in [kind : Endings, turn : {Turn}]
    BY <2>4
  <2>6. p.busy # {} /\ q.busy \subseteq p.busy /\ q.busy \in SUBSET Nat
    BY <1>1, <2>3
  <2> HIDE DEF line
  <2> QED
    BY <1>4, <2>2, <2>3, <2>4, <2>5, <2>6
<1>6. CASE /\ \A i \in 1 .. Len(p.out) : p.out[i].kind # "eof"
           /\ q = [knows |-> p.knows, busy |-> {}, out |-> Append(p.out, Eof)]
  <2>1. Eof \in Line /\ Eof.kind # "text"
    BY DEF Eof, Line
  <2>2. q.knows = p.knows /\ q.busy = {} /\ q.out = Append(p.out, Eof)
        /\ q = [knows |-> q.knows, busy |-> q.busy, out |-> q.out]
    BY <1>6
  <2> QED
    BY <1>4, <1>6, <2>1, <2>2
<1> QED
  BY <1>3, <1>5, <1>6 DEF Moved

(* What is left once a line is read.                                       *)
LEMMA RestIs ==
  ASSUME NEW p \in Process, p.out # <<>>
  PROVE  /\ Cl!Rest(p) \in Process /\ Head(p.out) \in Line /\ Head(p.out) = p.out[1]
         /\ Cl!Rest(p).knows = p.knows /\ Cl!Rest(p).busy = p.busy
         /\ Cl!Rest(p).out = Tail(p.out) /\ Len(Tail(p.out)) = Len(p.out) - 1
         /\ \A i \in 1 .. Len(Tail(p.out)) : Tail(p.out)[i] = p.out[i + 1]
<1>1. p.knows \in Seq(Utterance) /\ p.busy \in SUBSET Nat /\ p.out \in Seq(Line)
  BY DEF Process
<1> DEFINE t == Tail(p.out)
<1>2. t \in Seq(Line) /\ Head(p.out) \in Line /\ Head(p.out) = p.out[1]
      /\ Len(t) = Len(p.out) - 1 /\ \A i \in 1 .. Len(t) : t[i] = p.out[i + 1]
  BY <1>1
<1>3. Cl!Rest(p) = [p EXCEPT !.out = t]
  BY DEF Cl!Rest
<1> HIDE DEF t
<1>4. Cl!Rest(p) = [knows |-> p.knows, busy |-> p.busy, out |-> t]
  BY <1>3, ProcessExcept
<1>5. Cl!Rest(p) \in Process /\ Cl!Rest(p).knows = p.knows /\ Cl!Rest(p).busy = p.busy
      /\ Cl!Rest(p).out = t
  BY <1>1, <1>2, <1>4 DEF Process
<1> QED
  BY <1>2, <1>5 DEF t

LEMMA ReadsText ==
  ASSUME Conversing, NEW p \in Process, p.out # <<>>, InOrder(p), Head(p.out).kind = "text"
  PROVE  /\ Head(p.out).turn = Turn /\ InOrder(Cl!Rest(p))
         /\ Knowing(p) => told = <<>> /\ p.knows = Append(session, Answer) /\ Texts(Cl!Rest(p)) = {}
<1> DEFINE r == Cl!Rest(p)
<1>1. r.knows = p.knows /\ r.busy = p.busy /\ Head(p.out) = p.out[1] /\ p.out \in Seq(Line)
      /\ Len(p.out) \in Nat \ {0} /\ Len(r.out) = Len(p.out) - 1
      /\ \A i \in 1 .. Len(r.out) : r.out[i] = p.out[i + 1]
  <2>1. p.out \in Seq(Line)
    BY DEF Process
  <2>2. Len(p.out) \in Nat \ {0}
    BY <2>1, EmptySeq
  <2> HIDE DEF r
  <2>3. r \in Process /\ r.knows = p.knows /\ r.busy = p.busy /\ r.out = Tail(p.out)
    BY RestIs DEF r
  <2>4. /\ Head(p.out) = p.out[1] /\ Len(Tail(p.out)) = Len(p.out) - 1
        /\ \A i \in 1 .. Len(Tail(p.out)) : Tail(p.out)[i] = p.out[i + 1]
    BY RestIs
  <2> QED
    BY <2>1, <2>2, <2>3, <2>4
<1>2. Head(p.out).turn = Turn
  <2>1. p.out[1] # Eof
    BY <1>1 DEF Eof
  <2> QED
    BY <1>1, <2>1 DEF InOrder
<1> HIDE DEF r
<1>3. InOrder(r)
  <2>1. ASSUME NEW i \in 1 .. Len(r.out)
        PROVE  /\ r.out[i] = Eof \/ r.out[i] \in [kind : Endings \cup {"text"}, turn : {Turn}]
               /\ r.out[i].kind # "text" =>
                    r.busy = {} /\ \A j \in (i + 1) .. Len(r.out) : r.out[j] = Eof
               /\ r.out[i] = Eof => i = Len(r.out)
    <3>1. i + 1 \in 1 .. Len(p.out) /\ r.out[i] = p.out[i + 1]
      BY <1>1
    <3>2. \A j \in (i + 1) .. Len(r.out) : j + 1 \in (i + 1 + 1) .. Len(p.out) /\ r.out[j] = p.out[j + 1]
      BY <1>1
    <3>3. p.out[i + 1] = Eof \/ p.out[i + 1] \in [kind : Endings \cup {"text"}, turn : {Turn}]
      BY <3>1 DEF InOrder
    <3>4. p.out[i + 1].kind # "text" =>
            p.busy = {} /\ \A j \in (i + 1 + 1) .. Len(p.out) : p.out[j] = Eof
      BY <3>1 DEF InOrder
    <3>5. p.out[i + 1] = Eof => i + 1 = Len(p.out)
      BY <3>1 DEF InOrder
    <3>6. r.out[i].kind # "text" =>
            r.busy = {} /\ \A j \in (i + 1) .. Len(r.out) : r.out[j] = Eof
      BY <1>1, <3>1, <3>2, <3>4
    <3>7. r.out[i] = Eof => i = Len(r.out)
      BY <1>1, <3>1, <3>5
    <3> QED
      BY <3>1, <3>3, <3>6, <3>7
  <2> QED
    BY <1>1, <2>1 DEF InOrder
<1>4. ASSUME Knowing(p)
      PROVE  told = <<>> /\ p.knows = Append(session, Answer) /\ Texts(r) = {}
  <2>1. 1 \in Texts(p)
    BY <1>1 DEF Texts
  <2>2. told = <<>> /\ p.knows = Append(session, Answer) /\ Texts(p) = {1}
    BY <1>4, <2>1 DEF Knowing
  <2>3. \A i \in 1 .. Len(r.out) : i + 1 \in 1 .. Len(p.out) /\ i + 1 # 1
    BY <1>1
  <2> QED
    BY <1>1, <2>2, <2>3 DEF Texts
<1> QED
  BY <1>2, <1>3, <1>4 DEF r

LEMMA ReadsEnd ==
  ASSUME Conversing, NEW p \in Process, p.out # <<>>, InOrder(p), Head(p.out).kind \in Endings
  PROVE  /\ Quiet(Cl!Rest(p)) /\ Head(p.out).turn = Turn
         /\ Knowing(p) => p.knows = session \o Said
<1> DEFINE r == Cl!Rest(p)
<1>1. r.knows = p.knows /\ r.busy = p.busy /\ Head(p.out) = p.out[1] /\ p.out \in Seq(Line)
      /\ Len(p.out) \in Nat \ {0} /\ Len(r.out) = Len(p.out) - 1 /\ r \in Process
      /\ \A i \in 1 .. Len(r.out) : r.out[i] = p.out[i + 1]
  <2>1. p.out \in Seq(Line)
    BY DEF Process
  <2>2. Len(p.out) \in Nat \ {0}
    BY <2>1, EmptySeq
  <2> HIDE DEF r
  <2>3. r \in Process /\ r.knows = p.knows /\ r.busy = p.busy /\ r.out = Tail(p.out)
    BY RestIs DEF r
  <2>4. /\ Head(p.out) = p.out[1] /\ Len(Tail(p.out)) = Len(p.out) - 1
        /\ \A i \in 1 .. Len(Tail(p.out)) : Tail(p.out)[i] = p.out[i + 1]
    BY RestIs
  <2> QED
    BY <2>1, <2>2, <2>3, <2>4
<1>2. p.out[1].kind # "text" /\ p.out[1] # Eof
  <2>1. Head(p.out) = p.out[1]
    BY <1>1
  <2> HIDE DEF r
  <2>2. p.out[1].kind \in Endings
    BY <2>1
  <2> QED
    BY <2>2, EndingsAre
<1>3. p.busy = {} /\ (\A j \in 2 .. Len(p.out) : p.out[j] = Eof) /\ p.out[1].turn = Turn
  BY <1>1, <1>2 DEF InOrder
<1> DEFINE n == Len(p.out)
<1>4. Len(p.out) \in {1, 2} /\ Len(r.out) = Len(p.out) - 1
  <2>1. n \in Nat \ {0} /\ Len(r.out) = n - 1
    BY <1>1
  <2> HIDE DEF n, r
  <2>2. n > 2 => 2 \in 2 .. n /\ 2 \in 1 .. n /\ n # 2
    BY <2>1
  <2>3. ~(n > 2)
    BY <1>3, <2>2 DEF InOrder, n
  <2>4. n \in {1, 2}
    BY <2>1, <2>3
  <2> QED
    BY <2>1, <2>4 DEF n
<1> HIDE DEF r
<1>5. r.out = <<>> \/ r.out = <<Eof>>
  <2>1. r.out \in Seq(Line)
    BY <1>1 DEF Process
  <2>2. CASE Len(r.out) = 0
    BY <2>1, <2>2, EmptySeq
  <2>3. CASE Len(r.out) = 1
    <3>1. r.out[1] = Eof
      BY <1>1, <1>3, <1>4, <2>3
    <3> QED
      BY <2>1, <2>3, <3>1
  <2>4. Len(r.out) = 0 \/ Len(r.out) = 1
    BY <1>4
  <2> QED
    BY <2>2, <2>3, <2>4
<1>6. Quiet(r)
  BY <1>1, <1>3, <1>5 DEF Quiet
<1>7. ASSUME Knowing(p) PROVE p.knows = session \o Said
  <2>1. Texts(p) = {}
    <3>1. ASSUME NEW i \in 1 .. Len(p.out) PROVE p.out[i].kind # "text"
      <4>1. i = 1 \/ i \in 2 .. Len(p.out)
        OBVIOUS
      <4> QED
        BY <1>2, <1>3, <4>1 DEF Eof
    <3> QED
      BY <3>1 DEF Texts
  <2>2. session \in Seq(Utterance) /\ Turn \in Nat /\ Answer \in Utterance
    BY TurnIs DEF Conversing, Answer, Utterance
  <2>3. CASE p.knows = session /\ told = <<>>
    <3>1. Said = <<>>
      BY <2>3 DEF Said
    <3> QED
      BY <2>2, <2>3, <3>1
  <2>4. CASE p.knows = Append(session, Answer) /\ told = <<Turn>>
    <3>1. Said = <<Answer>>
      BY <2>4 DEF Said, Answer
    <3> QED
      BY <2>2, <2>4, <3>1
  <2> QED
    BY <1>7, <2>1, <2>3, <2>4 DEF Knowing
<1> QED
  BY <1>1, <1>3, <1>6, <1>7 DEF r

(* What a process is once it was sent the prompt.                          *)
LEMMA PromptedIs ==
  ASSUME Conversing, session # <<>>, NEW p \in Process
  PROVE  /\ Cl!Prompted(p) \in Process /\ Cl!Prompted(p).out = p.out
         /\ Cl!Prompted(p).knows = p.knows \o IF known THEN <<Last(session)>> ELSE session
         /\ Cl!Prompted(p).busy = p.busy \cup IF Cl!Dead(p) THEN {} ELSE {Turn}
<1> DEFINE k == p.knows \o IF known THEN <<Last(session)>> ELSE session
           b == p.busy \cup IF Cl!Dead(p) THEN {} ELSE {Turn}
<1>1. session \in Seq(Utterance) /\ Turn \in Nat /\ <<Last(session)>> \in Seq(Utterance)
  <2>1. session \in Seq(Utterance) /\ Turn \in Nat
    BY TurnIs DEF Conversing
  <2>2. session[Len(session)] \in Utterance
    BY <2>1
  <2> QED
    BY <2>1, <2>2 DEF Last
<1>2. p.knows \in Seq(Utterance) /\ p.busy \in SUBSET Nat /\ p.out \in Seq(Line)
  BY DEF Process
<1>3. k \in Seq(Utterance) /\ b \in SUBSET Nat
  BY <1>1, <1>2
<1>4. Cl!Prompted(p) = [[p EXCEPT !.knows = k] EXCEPT !.busy = b]
  <2>1. k = IF known THEN p.knows \o <<Last(session)>> ELSE p.knows \o session
    OBVIOUS
  <2>2. b = IF Cl!Dead(p) THEN p.busy ELSE p.busy \cup {Turn}
    OBVIOUS
  <2> HIDE DEF k, b
  <2> QED
    BY <2>1, <2>2 DEF Cl!Prompted, Last, Cl!Last, Turn
<1> HIDE DEF k, b
<1>5. [p EXCEPT !.knows = k] = [knows |-> k, busy |-> p.busy, out |-> p.out]
  BY ProcessExcept
<1>6. Cl!Prompted(p) = [knows |-> k, busy |-> b, out |-> p.out]
  BY <1>4, <1>5
<1>7. /\ Cl!Prompted(p).knows = k /\ Cl!Prompted(p).busy = b /\ Cl!Prompted(p).out = p.out
      /\ Cl!Prompted(p) \in Process
  BY <1>2, <1>3, <1>6 DEF Process
<1> QED
  BY <1>7 DEF k, b

LEMMA Prompting ==
  ASSUME Conversing, session # <<>>, told = <<>>, NEW p \in Process, Quiet(p)
  PROVE  /\ InOrder(Cl!Prompted(p)) /\ (Primed(p) => Knowing(Cl!Prompted(p)))
<1>1. PICK q : q = Cl!Prompted(p)
  OBVIOUS
<1>2. p.busy = {} /\ (p.out = <<>> \/ p.out = <<Eof>>)
  BY DEF Quiet
<1>3. q.out = p.out /\ q.busy \subseteq {Turn} /\ (p.out = <<Eof>> => q.busy = {})
  <2>1. p.out = <<Eof>> => Cl!Dead(p)
    BY DEF Cl!Dead, Eof
  <2> QED
    BY <1>1, <1>2, <2>1, PromptedIs
<1>4. Primed(p) => q.knows = session
  <2>1. session \in Seq(Utterance)
    BY DEF Conversing
  <2>2. <<>> \o session = session
    BY <2>1
  <2> QED
    BY <1>1, <2>2, PromptedIs DEF Primed
<1>5. InOrder(q)
  <2>1. CASE p.out = <<>>
    <3>1. Len(q.out) = 0
      BY <1>3, <2>1
    <3> QED
      BY <1>3, <3>1 DEF InOrder
  <2>2. CASE p.out = <<Eof>>
    <3>1. Len(q.out) = 1 /\ q.out[1] = Eof /\ q.busy = {}
      BY <1>3, <2>2
    <3> QED
      BY <3>1 DEF InOrder
  <2> QED
    BY <1>2, <2>1, <2>2
<1>6. Texts(q) = {}
  BY <1>2, <1>3 DEF Texts, Eof
<1> QED
  BY <1>1, <1>4, <1>5, <1>6 DEF Knowing

LEMMA Closing ==
  ASSUME Conversing, Cl!Closed
  PROVE  /\ phase' = "idle" /\ told' = <<>> /\ known' = FALSE /\ token' = FALSE
         /\ session' = session \o Said /\ session' \in Seq(Utterance)
         /\ Len(session') >= Len(session) /\ (told = <<>> => session' = session)
<1>1. session' = session \o Said /\ phase' = "idle" /\ told' = <<>> /\ known' = FALSE /\ token' = FALSE
  BY DEF Cl!Closed, Said
<1>2. session \in Seq(Utterance) /\ told \in Seq(Nat)
  BY DEF Conversing
<1>3. Said \in Seq(Utterance)
  BY <1>2 DEF Said, Utterance
<1>4. told = <<>> => Said = <<>>
  BY DEF Said
<1> QED
  BY <1>1, <1>2, <1>3, <1>4

LEMMA One == ASSUME Conversing, cli # {} PROVE \E p \in Process : cli = {p}
  BY DEF Conversing

LEMMA Still ==
  ASSUME session' = session, told' = told, known' = known
  PROVE  \A q : /\ InOrder(q)' <=> InOrder(q)
                /\ Knowing(q)' <=> Knowing(q)
                /\ Primed(q)' <=> Primed(q)
<1> USE SameTurn
<1>1. \A q : InOrder(q)' <=> InOrder(q)
  BY DEF InOrder
<1>2. Answer' = Answer /\ Last(session)' = Last(session)
  BY DEF Answer, Last
<1>3. \A q : Texts(q)' = Texts(q)
  BY DEF Texts
<1>4. \A q : Knowing(q)' <=> Knowing(q)
  BY <1>2, <1>3 DEF Knowing
<1>5. \A q : Primed(q)' <=> Primed(q)
  BY <1>2 DEF Primed
<1> QED
  BY <1>1, <1>4, <1>5

LEMMA NewIs == Cl!NewCli \in Process /\ Quiet(Cl!NewCli) /\ Cl!NewCli.knows = <<>>
  BY DEF Cl!NewCli, Process, Quiet

LEMMA Opening ==
  ASSUME Conversing, phase = "idle", session' = Append(session, <<"user", Turn + 1>>),
         told' = told, known' \in BOOLEAN, phase' # "idle" => cli' # {},
         cli' \subseteq Process /\ \A p, q \in cli' : p = q
  PROVE  /\ Conversing' /\ told' = <<>> /\ session' \in Seq(Utterance)
         /\ Len(session') = Len(session) + 1 /\ Last(session)' = <<"user", Turn + 1>>
<1>1. session \in Seq(Utterance) /\ told \in Seq(Nat) /\ told = <<>>
  BY DEF Conversing
<1>2. session' \in Seq(Utterance) /\ Last(session)' = <<"user", Turn + 1>>
  BY <1>1, NextTurn
<1>3. Len(session') = Len(session) + 1 /\ session' # <<>>
  BY <1>1
<1> QED
  BY <1>1, <1>2, <1>3 DEF Conversing

LEMMA Ended ==
  ASSUME Conversing, Cl!Closed, cli' \subseteq Process /\ \A p, q \in cli' : p = q
  PROVE  Conversing'
<1>1. told' \in Seq(Nat) /\ known' \in BOOLEAN
  BY Closing
<1> QED
  BY <1>1, Closing DEF Conversing

LEMMA Elsewhere ==
  ASSUME Conversing, phase = "idle",
         session' = session \o << <<"user", Turn + 1>>, <<"assistant", Turn + 1>> >>,
         UNCHANGED <<phase, known, told, cli>>
  PROVE  Conversing' /\ session' \in Seq(Utterance) /\ Len(session') = Len(session) + 2
<1>1. session \in Seq(Utterance) /\ Turn \in Nat
  BY TurnIs DEF Conversing
<1>2. << <<"user", Turn + 1>>, <<"assistant", Turn + 1>> >> \in Seq(Utterance)
  BY <1>1 DEF Utterance
<1>3. session' \in Seq(Utterance) /\ Len(session') = Len(session) + 2
  BY <1>1, <1>2
<1> QED
  BY <1>3 DEF Conversing

LEMMA CliMoved ==
  ASSUME Conversing, NEW p \in Process, cli = {p}, CliMove(p),
         UNCHANGED <<session, phase, known, told>>
  PROVE  Conversing' /\ \E q \in Process : cli' = {q} /\ Moved(p, q)
<1>1. PICK q : cli' = {q} /\ Moved(p, q)
  BY MoveOne
<1>2. q \in Process
  BY <1>1, MovedKeeps
<1> QED
  BY <1>1, <1>2 DEF Conversing

LEMMA ReadText ==
  ASSUME Conversing, phase = "streaming", NEW p \in Process, cli = {p}, p.out # <<>>,
         told' = Append(told, Head(p.out).turn), cli' = {Cl!Rest(p)},
         Head(p.out).kind = "text",
         UNCHANGED <<session, phase, known>>
  PROVE  /\ Conversing' /\ Cl!Rest(p) \in Process
         /\ InOrder(p) => InOrder(Cl!Rest(p))'
         /\ InOrder(p) /\ Knowing(p) => Knowing(Cl!Rest(p))'
<1>1. Cl!Rest(p) \in Process /\ Head(p.out) \in Line /\ Cl!Rest(p).knows = p.knows
  BY RestIs
<1>2. Head(p.out).turn \in Nat /\ told \in Seq(Nat)
  BY <1>1 DEF Line, Conversing
<1>3. told' \in Seq(Nat)
  BY <1>2
<1>4. Conversing'
  BY <1>1, <1>3 DEF Conversing
<1> DEFINE r == Cl!Rest(p)
<1>5. InOrder(p) => InOrder(r) /\ Head(p.out).turn = Turn
  BY ReadsText
<1>6. InOrder(p) /\ Knowing(p) => told = <<>> /\ p.knows = Append(session, Answer) /\ Texts(r) = {}
  BY ReadsText
<1>10. r.knows = p.knows
  BY <1>1
<1> HIDE DEF r
<1>7. InOrder(r) => InOrder(r)'
  BY SameTurn DEF InOrder
<1>8. Texts(r)' = Texts(r) /\ Answer' = Answer
  BY SameTurn DEF Texts, Answer
<1>9. ASSUME InOrder(p), Knowing(p) PROVE Knowing(r)'
  <2>1. told' = <<Turn>>
    BY <1>5, <1>6, <1>9
  <2> QED
    BY <1>6, <1>8, <1>9, <1>10, <2>1, SameTurn DEF Knowing
<1> QED
  BY <1>1, <1>4, <1>5, <1>7, <1>9 DEF r

(* and it was said in this turn.                                           *)
LEMMA StillAnswers ==
  ASSUME Conversing, phase = "streaming", NEW p \in Process, p.out # <<>>, InOrder(p),
         Head(p.out).kind = "text", told' = Append(told, Head(p.out).turn), session' = session,
         Cl!AnswersThePrompt
  PROVE  Cl!AnswersThePrompt'
<1>1. Head(p.out).turn = Turn /\ Turn' = Turn /\ Turn \in Nat
  BY ReadsText, SameTurn, TurnIs DEF Conversing
<1>2. \A i \in 1 .. Len(told) : told[i] = Turn
  BY DEF Cl!AnswersThePrompt, Turn
<1>3. told \in Seq(Nat)
  BY DEF Conversing
<1>4. \A i \in 1 .. Len(told') : told'[i] = Turn
  BY <1>1, <1>2, <1>3
<1> QED
  BY <1>1, <1>4 DEF Cl!AnswersThePrompt, Turn

(* Claude.                                                                 *)
LEMMA TheOne == ASSUME NEW p, cli = {p} PROVE Cl!The(cli) = p /\ Cl!Unread = p.out
  BY OnlyOne DEF Cl!Unread, Cl!NoCli

LEMMA InitConversing ==
  Cl!InitTurn => Conversing /\ session = <<>> /\ phase = "idle" /\ cli = {} /\ gap = {}
<1> SUFFICES ASSUME Cl!InitTurn
             PROVE  Conversing /\ session = <<>> /\ phase = "idle" /\ cli = {} /\ gap = {}
  OBVIOUS
<1>1. session = <<>> /\ phase = "idle" /\ cli = {} /\ gap = {} /\ told = <<>> /\ known = FALSE
  BY DEF Cl!InitTurn, Cl!NoCli
<1>2. session \in Seq(Utterance)
  BY <1>1
<1>3. told \in Seq(Nat)
  BY <1>1
<1>4. phase # "streaming" => told = <<>>
  BY <1>1
<1>5. cli \subseteq Process /\ \A p, q \in cli : p = q
  BY <1>1
<1> QED
  BY <1>1, <1>2, <1>3, <1>4, <1>5 DEF Conversing

LEMMA ClaudeInit == Cl!Init => ClaudeKnows
<1> SUFFICES ASSUME Cl!Init PROVE ClaudeKnows
  OBVIOUS
<1>1. Conversing /\ session = <<>> /\ phase = "idle" /\ cli = {} /\ history = <<>>
  BY InitConversing DEF Cl!Init
<1>2. history \in Seq(Utterance) /\ Len(history) <= Len(session)
  BY <1>1
<1> QED
  BY <1>1, <1>2 DEF ClaudeKnows

LEMMA ClaudeBegin ==
  ASSUME ClaudeKnows, NEW m, Cl!Begin(m) \/ Cl!SpawnFails(m)
  PROVE  ClaudeKnows'
<1>1. Conversing /\ phase = "idle" /\ session' = Append(session, <<"user", Turn + 1>>) /\ told' = told
      /\ known \in BOOLEAN
  BY DEF ClaudeKnows, Conversing, Cl!Begin, Cl!SpawnFails, Cl!Opened, Turn
<1>2. CASE Cl!Begin(m) /\ Cl!HasHistory(m)
  <2>1. cli # {} /\ session = history /\ cli' = cli /\ history' = history
        /\ known' = TRUE /\ phase' = "sending"
    BY <1>2 DEF Cl!Begin, Cl!HasHistory, Cl!NoCli
  <2>2. /\ Conversing' /\ Len(session') = Len(session) + 1
        /\ Last(session)' = <<"user", Turn + 1>>
    BY <1>1, <2>1, Opening DEF Conversing
  <2>3. ASSUME NEW p \in cli PROVE Quiet(p) /\ Primed(p)'
    <3>1. Quiet(p) /\ p.knows = session
      BY <1>1, <2>1 DEF ClaudeKnows
    <3>2. <<Last(session)'>> = << <<"user", Turn + 1>> >>
      BY <2>2
    <3>3. session' = session \o << <<"user", Turn + 1>> >>
      <4>1. session \in Seq(Utterance) /\ Turn \in Nat
        BY <1>1, TurnIs DEF Conversing
      <4>2. <<"user", Turn + 1>> \in Utterance
        BY <4>1 DEF Utterance
      <4> QED
        BY <1>1, <4>1, <4>2, AppendIsConcat
    <3> QED
      BY <2>1, <3>1, <3>2, <3>3 DEF Primed
  <2>4. Len(session) \in Nat
    BY <1>1 DEF Conversing
  <2> QED
    BY <2>1, <2>2, <2>3, <2>4 DEF ClaudeKnows
<1>3. CASE Cl!Begin(m) /\ ~Cl!HasHistory(m)
  <2>1. cli' = {Cl!NewCli} /\ history' = <<>> /\ known' = FALSE /\ phase' = "sending"
    <3>1. Cl!HasHistory(m) \in BOOLEAN
      BY DEF Cl!HasHistory
    <3> QED
      BY <1>3, <3>1 DEF Cl!Begin
  <2>2. Conversing' /\ Len(session') = Len(session) + 1 /\ Len(session) \in Nat
    <3>1. cli' \subseteq Process /\ (\A a, b \in cli' : a = b) /\ cli' # {} /\ known' \in BOOLEAN
      BY <2>1, NewIs
    <3>2. Len(session) \in Nat
      BY <1>1 DEF Conversing
    <3> QED
      BY <1>1, <3>1, <3>2, Opening
  <2>3. Primed(Cl!NewCli)'
    BY <2>1, NewIs DEF Primed
  <2>4. history' \in Seq(Utterance) /\ Len(history') = 0
    BY <2>1
  <2> QED
    BY <2>1, <2>2, <2>3, <2>4, NewIs DEF ClaudeKnows
<1>4. CASE Cl!SpawnFails(m)
  <2>1. cli' = {} /\ history' = <<>> /\ known' = known /\ phase' = "idle"
    BY <1>1, <1>4 DEF Cl!SpawnFails, Cl!NoCli
  <2>2. Conversing' /\ Len(session') = Len(session) + 1 /\ Len(session) \in Nat
    BY <1>1, <2>1, Opening DEF Conversing
  <2>4. history' \in Seq(Utterance) /\ Len(history') = 0
    BY <2>1
  <2> QED
    BY <2>1, <2>2, <2>4 DEF ClaudeKnows
<1> QED
  BY <1>2, <1>3, <1>4

LEMMA ClaudeSend == ClaudeKnows /\ Cl!Send => ClaudeKnows'
<1> SUFFICES ASSUME ClaudeKnows, Cl!Send PROVE ClaudeKnows'
  OBVIOUS
<1>1. Conversing /\ phase = "sending" /\ phase' = "streaming" /\ cli' = {Cl!Prompted(Cl!The(cli))}
      /\ UNCHANGED <<session, known, told, history>>
  BY DEF ClaudeKnows, Cl!Send
<1>2. PICK p \in Process : cli = {p}
  BY <1>1, One DEF Conversing
<1>3. PICK q : q = Cl!Prompted(p)
  OBVIOUS
<1>4. cli' = {q}
  BY <1>1, <1>2, <1>3, TheOne
<1>5. Quiet(p) /\ Primed(p)
  BY <1>1, <1>2 DEF ClaudeKnows
<1>6. q \in Process /\ InOrder(q) /\ Knowing(q)
  BY <1>1, <1>3, <1>5, PromptedIs, Prompting DEF Conversing
<1>7. InOrder(q)' /\ Knowing(q)'
  BY <1>1, <1>6, Still
<1>8. Conversing'
  BY <1>1, <1>4, <1>6 DEF Conversing
<1>9. history' \in Seq(Utterance) /\ Len(history') <= Len(session')
  BY <1>1 DEF ClaudeKnows
<1> QED
  BY <1>1, <1>4, <1>7, <1>8, <1>9 DEF ClaudeKnows

LEMMA ClaudeGone ==
  ASSUME ClaudeKnows, phase # "idle", Cl!Closed, cli' = {}, history' \in {history, <<>>}
  PROVE  ClaudeKnows'
<1>1. Conversing' /\ phase' = "idle" /\ Len(session') >= Len(session) /\ session' \in Seq(Utterance)
  BY Ended, Closing DEF ClaudeKnows
<1>2. history' \in Seq(Utterance) /\ Len(history') <= Len(session)
  <2>1. history \in Seq(Utterance) /\ Len(history) <= Len(session) /\ session \in Seq(Utterance)
    BY DEF ClaudeKnows, Conversing
  <2>2. <<>> \in Seq(Utterance) /\ Len(<<>>) = 0 /\ 0 <= Len(session)
    BY <2>1
  <2> QED
    BY <2>1, <2>2
<1>3. Len(history') <= Len(session')
  BY <1>1, <1>2 DEF ClaudeKnows, Conversing
<1> QED
  BY <1>1, <1>2, <1>3 DEF ClaudeKnows

LEMMA ClaudeStopOpening == ClaudeKnows /\ Cl!StopOpening => ClaudeKnows'
<1> SUFFICES ASSUME ClaudeKnows, Cl!StopOpening PROVE ClaudeKnows'
  OBVIOUS
<1>1. Conversing /\ phase = "sending" /\ Cl!Closed /\ history' = history
      /\ (cli' = cli \/ cli' = {Cl!Prompted(Cl!The(cli))})
  BY DEF ClaudeKnows, Cl!StopOpening
<1>2. PICK p \in Process : cli = {p}
  BY <1>1, One DEF Conversing
<1>4. Cl!Prompted(p) \in Process
  BY <1>1, PromptedIs DEF Conversing
<1>5. cli' \subseteq Process /\ \A a, b \in cli' : a = b
  BY <1>1, <1>2, <1>4, TheOne
<1>6. Conversing' /\ phase' = "idle" /\ Len(session') >= Len(session) /\ session' \in Seq(Utterance)
  BY <1>1, <1>5, Ended, Closing
<1>7. history' \in Seq(Utterance) /\ Len(history') < Len(session')
  BY <1>1, <1>6 DEF ClaudeKnows, Conversing
<1>8. history' # session' /\ Len(history') <= Len(session')
  BY <1>6, <1>7
<1> QED
  BY <1>6, <1>7, <1>8 DEF ClaudeKnows

LEMMA ClaudeRead == ClaudeKnows /\ Cl!Read => ClaudeKnows'
<1> SUFFICES ASSUME ClaudeKnows, Cl!Read PROVE ClaudeKnows'
  OBVIOUS
<1>1. Conversing /\ phase = "streaming" /\ Cl!Unread # <<>>
  BY DEF ClaudeKnows, Cl!Read
<1>2. PICK p \in Process : cli = {p}
  BY <1>1, One DEF Conversing
<1>3. Cl!The(cli) = p /\ Cl!Unread = p.out /\ p.out # <<>> /\ InOrder(p) /\ Knowing(p)
  BY <1>1, <1>2, TheOne DEF ClaudeKnows
<1> DEFINE line == Head(p.out)
           r == Cl!Rest(p)
<1>4. r \in Process /\ r.knows = p.knows
  BY <1>3, RestIs
<1>5. CASE line.kind = "text" /\ told' = Append(told, line.turn) /\ cli' = {r}
           /\ UNCHANGED <<session, phase, known, token, history>>
  <2>1. Conversing' /\ InOrder(r)' /\ Knowing(r)'
    BY <1>1, <1>2, <1>3, <1>5, ReadText
  <2> HIDE DEF r
  <2> QED
    BY <1>1, <1>5, <2>1 DEF ClaudeKnows
<1>6. CASE Cl!IsResult(line) /\ Cl!StaysUsable(line) /\ Cl!TurnEnds(TRUE)
  <2>1. line.kind \in Endings
    BY <1>6 DEF Cl!IsResult, Endings
  <2>2. Quiet(r) /\ p.knows = session \o Said
    BY <1>1, <1>3, <2>1, ReadsEnd
  <2>3. history' = session \o Said /\ cli' = {r} /\ Cl!Closed
    BY <1>3, <1>6 DEF Cl!TurnEnds, Said
  <2>4. /\ phase' = "idle" /\ session' = session \o Said /\ session' \in Seq(Utterance)
        /\ Conversing'
    BY <1>1, <1>4, <2>3, Closing, Ended
  <2>5. Len(history') <= Len(session')
    BY <2>3, <2>4
  <2> HIDE DEF r
  <2> QED
    BY <1>4, <2>2, <2>3, <2>4, <2>5 DEF ClaudeKnows
<1>7. CASE Cl!TurnEnds(FALSE)
  BY <1>1, <1>7, ClaudeGone DEF Cl!TurnEnds, Cl!NoCli
<1>8. \/ line.kind = "text" /\ told' = Append(told, line.turn) /\ cli' = {r}
         /\ UNCHANGED <<session, phase, known, token, history>>
      \/ Cl!IsResult(line) /\ Cl!TurnEnds(Cl!StaysUsable(line))
      \/ Cl!TurnEnds(FALSE)
  BY <1>3 DEF Cl!Read
<1>9. Cl!StaysUsable(line) \in BOOLEAN
  BY DEF Cl!StaysUsable
<1> HIDE DEF line, r
<1>10. CASE Cl!IsResult(line) /\ Cl!TurnEnds(Cl!StaysUsable(line))
  <2>1. CASE Cl!StaysUsable(line)
    <3>1. Cl!StaysUsable(line) = TRUE
      BY <1>9, <2>1
    <3> QED
      BY <1>6, <1>10, <2>1, <3>1
  <2>2. CASE ~Cl!StaysUsable(line)
    <3>1. Cl!StaysUsable(line) = FALSE
      BY <1>9, <2>2
    <3> QED
      BY <1>7, <1>10, <3>1
  <2> QED
    BY <2>1, <2>2
<1> QED
  BY <1>5, <1>7, <1>8, <1>10

LEMMA ClaudeEnds ==
  ASSUME ClaudeKnows, Cl!ReadFails \/ Cl!StopStreaming \/ Cl!SendFails
  PROVE  ClaudeKnows'
<1>1. CASE Cl!ReadFails \/ Cl!StopStreaming
  BY <1>1, ClaudeGone DEF Cl!ReadFails, Cl!StopStreaming, Cl!TurnEnds, Cl!NoCli
<1>2. CASE Cl!SendFails
  BY <1>2, ClaudeGone DEF Cl!SendFails, Cl!NoCli
<1> QED
  BY <1>1, <1>2

LEMMA ClaudeOther ==
  ASSUME ClaudeKnows, Cl!OtherModel, UNCHANGED <<phase, known, told, cli, history>>
  PROVE  ClaudeKnows'
<1>1. Conversing /\ phase = "idle"
      /\ session' = session \o << <<"user", Turn + 1>>, <<"assistant", Turn + 1>> >>
  BY DEF ClaudeKnows, Cl!OtherModel, Turn
<1>2. Conversing' /\ session' \in Seq(Utterance) /\ Len(session') = Len(session) + 2
  BY <1>1, Elsewhere
<1>3. session \in Seq(Utterance) /\ history \in Seq(Utterance) /\ Len(history) <= Len(session)
  BY DEF ClaudeKnows, Conversing
<1>4. Len(history) < Len(session') /\ history # session'
  BY <1>2, <1>3
<1> QED
  BY <1>1, <1>2, <1>3, <1>4 DEF ClaudeKnows

LEMMA ClaudeStill ==
  ASSUME ClaudeKnows, UNCHANGED <<session, phase, known, told, cli, history>>
  PROVE  ClaudeKnows'
  BY Still DEF ClaudeKnows, Conversing

LEMMA ClaudeCliMoves ==
  ASSUME ClaudeKnows, Cl!CliMoves, history' = history
  PROVE  ClaudeKnows'
<1>1. Conversing /\ UNCHANGED <<session, phase, known, told>> /\ cli # {}
  BY DEF ClaudeKnows, Cl!CliMoves, Cl!CliSays, Cl!CliEnds, Cl!CliDies
<1>2. PICK p \in Process : cli = {p}
  BY <1>1, One
<1>3. CliMove(p)
  BY <1>2, ClaudeMoves
<1>4. Conversing' /\ \E q \in Process : cli' = {q} /\ Moved(p, q)
  BY <1>1, <1>2, <1>3, CliMoved
<1>5. PICK q \in Process : cli' = {q} /\ Moved(p, q)
  BY <1>4
<1>6. /\ Quiet(p) => Quiet(q) /\ q.knows = p.knows
      /\ InOrder(p) => InOrder(q)
      /\ InOrder(p) /\ Knowing(p) => Knowing(q)
  BY <1>1, <1>5, MovedKeeps
<1>7. (InOrder(q)' <=> InOrder(q)) /\ (Knowing(q)' <=> Knowing(q)) /\ (Primed(q)' <=> Primed(q))
  BY <1>1, Still
<1>8. phase = "idle" /\ history = session => Quiet(p) /\ p.knows = session
  BY <1>2 DEF ClaudeKnows
<1>9. phase = "sending" => Quiet(p) /\ Primed(p)
  BY <1>2 DEF ClaudeKnows
<1>10. phase = "streaming" => InOrder(p) /\ Knowing(p)
  BY <1>2 DEF ClaudeKnows
<1>11. Quiet(p) /\ Primed(p) => Primed(q)
  BY <1>6 DEF Primed
<1>12. /\ phase' = "idle" /\ history' = session' => Quiet(q) /\ q.knows = session'
       /\ phase' = "sending" => Quiet(q) /\ Primed(q)'
       /\ phase' = "streaming" => InOrder(q)' /\ Knowing(q)'
  BY <1>1, <1>6, <1>7, <1>8, <1>9, <1>10, <1>11
<1> QED
  BY <1>1, <1>4, <1>5, <1>12 DEF ClaudeKnows

LEMMA ClaudeStep == ClaudeKnows /\ [Cl!Next]_(Cl!vars) => ClaudeKnows'
<1> SUFFICES ASSUME ClaudeKnows, [Cl!Next]_(Cl!vars) PROVE ClaudeKnows'
  OBVIOUS
<1>1. ASSUME NEW m \in Models, Cl!Begin(m) \/ Cl!SpawnFails(m) PROVE ClaudeKnows'
  BY <1>1, ClaudeBegin
<1>2. CASE Cl!OtherModel
           /\ UNCHANGED <<phase, model, known, token, told, cli, started, history>>
  BY <1>2, ClaudeOther
<1>3. CASE Cl!Stop /\ UNCHANGED <<session, phase, model, known, told, cli, gap, started, history>>
  BY <1>3, ClaudeStill
<1>4. CASE Cl!CliMoves /\ UNCHANGED <<started, history>>
  BY <1>4, ClaudeCliMoves
<1>5. CASE Cl!Send
  BY <1>5, ClaudeSend
<1>6. CASE Cl!StopOpening
  BY <1>6, ClaudeStopOpening
<1>7. CASE Cl!Read
  BY <1>7, ClaudeRead
<1>8. CASE Cl!ReadFails \/ Cl!StopStreaming \/ Cl!SendFails
  BY <1>8, ClaudeEnds
<1>9. CASE UNCHANGED Cl!vars
  BY <1>9, ClaudeStill DEF Cl!vars
<1> QED
  BY <1>1, <1>2, <1>3, <1>4, <1>5, <1>6, <1>7, <1>8, <1>9 DEF Cl!Next

(* Grok, one run for each turn.                                            *)
LEMMA HeadlessSame ==
  /\ He!Closed <=> Cl!Closed
  /\ He!Turn = Turn
  /\ \A p : He!Rest(p) = Cl!Rest(p) /\ (cli = {p} => He!The(cli) = p /\ He!Unread = p.out)
<1>1. He!Turn = Turn
  BY DEF He!Turn, Turn, Cl!Turn, He!Cardinality, Cl!Cardinality
<1>2. He!Closed <=> Cl!Closed
  BY DEF He!Closed, Cl!Closed
<1>3. \A p : He!Rest(p) = Cl!Rest(p) /\ (cli = {p} => He!The(cli) = p /\ He!Unread = p.out)
  BY OnlyOne DEF He!Rest, Cl!Rest, He!Unread, He!NoCli
<1> QED
  BY <1>1, <1>2, <1>3

LEMMA HeadlessInit == He!Init /\ Cl!InitTurn => HeadlessKnows
<1> SUFFICES ASSUME He!Init, Cl!InitTurn PROVE HeadlessKnows
  OBVIOUS
<1>1. Conversing /\ session = <<>> /\ phase = "idle" /\ cli = {} /\ resume = FALSE /\ saved = <<>>
  BY InitConversing DEF He!Init
<1>2. saved \in Seq(Utterance)
  BY <1>1
<1> QED
  BY <1>1, <1>2 DEF HeadlessKnows, Cl!AnswersThePrompt

LEMMA HeadlessBegin ==
  ASSUME HeadlessKnows, NEW m, He!Begin(m)
  PROVE  HeadlessKnows'
<1>1. /\ Conversing /\ phase = "idle" /\ session' = Append(session, <<"user", Turn + 1>>)
      /\ told' = told /\ cli = {} /\ (resume /\ gap = {} => saved = session)
      /\ saved \in Seq(Utterance) /\ resume \in BOOLEAN
  BY HeadlessSame DEF HeadlessKnows, He!Begin, He!Opened
<1> DEFINE k == IF resume THEN Append(saved, Last(session)') ELSE session'
<1>2. /\ phase' = "streaming" /\ known' = resume /\ UNCHANGED <<gap, resume, saved>>
      /\ cli' = {[knows |-> k, busy |-> {Turn + 1}, out |-> <<>>]}
  <2>1. He!Last(session') = Last(session)'
    BY DEF He!Last, Last
  <2> QED
    BY <2>1, HeadlessSame DEF He!Begin, He!Resumes
<1>3. session \in Seq(Utterance) /\ Turn \in Nat /\ told = <<>>
  BY <1>1, TurnIs DEF Conversing
<1>4. Turn' = Turn + 1 /\ session' \in Seq(Utterance) /\ Last(session)' = <<"user", Turn + 1>>
  BY <1>1, <1>3, NextTurn
<1>5. k \in Seq(Utterance) /\ (gap = {} \/ ~resume => k = session')
  <2>1. <<"user", Turn + 1>> \in Utterance
    BY <1>3 DEF Utterance
  <2>2. Append(saved, Last(session)') \in Seq(Utterance)
    <3>1. \A s \in Seq(Utterance), x \in Utterance : Append(s, x) \in Seq(Utterance)
      OBVIOUS
    <3> QED
      BY <1>1, <1>4, <2>1, <3>1
  <2>3. saved = session => Append(saved, Last(session)') = session'
    BY <1>1, <1>4
  <2> QED
    BY <1>1, <1>4, <2>2, <2>3
<1> HIDE DEF k
<1>6. PICK q : q = [knows |-> k, busy |-> {Turn + 1}, out |-> <<>>]
  OBVIOUS
<1>7. q.knows = k /\ q.busy = {Turn'} /\ q.out = <<>> /\ cli' = {q}
  BY <1>2, <1>4, <1>6
<1>8. q \in Process
  <2>1. {Turn + 1} \in SUBSET Nat /\ <<>> \in Seq(Line)
    BY <1>3
  <2> QED
    BY <1>5, <1>6, <2>1 DEF Process
<1>9. Conversing'
  BY <1>1, <1>2, <1>7, <1>8, Opening
<1>10. InOrder(q)'
  <2>1. Len(q.out) = 0
    BY <1>7
  <2> QED
    BY <1>7, <2>1 DEF InOrder
<1>11. gap = {} \/ ~resume => Knowing(q)'
  <2>1. Len(q.out) = 0
    BY <1>7
  <2>2. Texts(q)' = {}
    BY <2>1 DEF Texts
  <2> QED
    BY <1>1, <1>3, <1>5, <1>7, <2>2 DEF Knowing
<1>12. Cl!AnswersThePrompt'
  <2>1. Len(told') = 0
    BY <1>1, <1>3
  <2> QED
    BY <2>1 DEF Cl!AnswersThePrompt
<1> QED
  BY <1>1, <1>2, <1>7, <1>9, <1>10, <1>11, <1>12 DEF HeadlessKnows

LEMMA HeadlessSpawnFails ==
  ASSUME HeadlessKnows, NEW m, He!SpawnFails(m)
  PROVE  HeadlessKnows'
<1>1. /\ Conversing /\ phase = "idle" /\ session' = Append(session, <<"user", Turn + 1>>)
      /\ UNCHANGED <<phase, told, known, cli, resume, saved>>
      /\ (resume => gap' # {}) /\ cli = {} /\ known \in BOOLEAN
  BY HeadlessSame DEF HeadlessKnows, Conversing, He!SpawnFails, He!Opened
<1>2. Conversing'
  BY <1>1, Opening
<1> QED
  BY <1>1, <1>2 DEF HeadlessKnows, Cl!AnswersThePrompt

LEMMA HeadlessFails ==
  ASSUME HeadlessKnows, phase = "streaming", He!RunFails
  PROVE  HeadlessKnows'
<1>1. Conversing /\ Cl!Closed /\ cli' = {} /\ resume' = resume /\ (resume => gap' # {})
      /\ saved' \in {saved, He!The(cli).knows}
  BY HeadlessSame DEF HeadlessKnows, He!RunFails, He!NoCli
<1>2. PICK p \in Process : cli = {p}
  BY <1>1, One DEF Conversing
<1>3. saved' \in Seq(Utterance)
  BY <1>1, <1>2, HeadlessSame DEF HeadlessKnows, Process
<1>4. Conversing' /\ phase' = "idle"
  BY <1>1, Ended, Closing
<1> QED
  BY <1>1, <1>3, <1>4 DEF HeadlessKnows, Cl!AnswersThePrompt

LEMMA HeadlessRead == HeadlessKnows /\ He!Read => HeadlessKnows'
<1> SUFFICES ASSUME HeadlessKnows, He!Read PROVE HeadlessKnows'
  OBVIOUS
<1>1. Conversing /\ phase = "streaming" /\ He!Unread # <<>> /\ known = resume
  BY DEF HeadlessKnows, He!Read
<1>2. PICK p \in Process : cli = {p}
  BY <1>1, One DEF Conversing
<1>3. He!The(cli) = p /\ He!Unread = p.out /\ p.out # <<>> /\ InOrder(p)
      /\ (gap = {} \/ ~known => Knowing(p)) /\ He!Rest(p) = Cl!Rest(p)
  BY <1>1, <1>2, HeadlessSame DEF HeadlessKnows
<1> DEFINE line == Head(p.out)
           r == Cl!Rest(p)
<1>4. CASE line.kind = "text" /\ told' = Append(told, line.turn) /\ cli' = {r}
           /\ UNCHANGED <<session, phase, known, token, gap, resume, saved>>
  <2>1. Conversing' /\ InOrder(r)' /\ (Knowing(p) => Knowing(r)')
    BY <1>1, <1>2, <1>3, <1>4, ReadText
  <2>2. Cl!AnswersThePrompt'
    BY <1>1, <1>3, <1>4, StillAnswers DEF HeadlessKnows
  <2> HIDE DEF r
  <2> QED
    BY <1>1, <1>3, <1>4, <2>1, <2>2 DEF HeadlessKnows
<1>5. CASE line.kind = "done" /\ He!RunEnds
  <2>1. line.kind \in Endings
    BY <1>5 DEF Endings
  <2>2. Knowing(p) => p.knows = session \o Said
    BY <1>1, <1>3, <2>1, ReadsEnd
  <2>3. /\ Cl!Closed /\ cli' = {} /\ resume' = TRUE /\ saved' = p.knows
        /\ gap' = IF known THEN gap ELSE {}
    BY <1>3, <1>5, HeadlessSame DEF He!RunEnds, He!NoCli
  <2>4. Conversing' /\ phase' = "idle" /\ session' = session \o Said
    BY <1>1, <2>3, Ended, Closing
  <2>5. gap' = {} => saved' = session'
    BY <1>3, <2>2, <2>3, <2>4
  <2>6. saved' \in Seq(Utterance)
    BY <2>3 DEF Process
  <2> QED
    BY <2>3, <2>4, <2>5, <2>6 DEF HeadlessKnows, Cl!AnswersThePrompt
<1>6. CASE He!RunFails
  BY <1>1, <1>6, HeadlessFails
<1> QED
  BY <1>3, <1>4, <1>5, <1>6 DEF He!Read, He!TellsSession

LEMMA HeadlessStill ==
  ASSUME HeadlessKnows, UNCHANGED <<session, phase, known, told, cli, gap, resume, saved>>
  PROVE  HeadlessKnows'
<1>1. Cl!AnswersThePrompt'
  BY DEF HeadlessKnows, Cl!AnswersThePrompt, Cl!Turn
<1> QED
  BY <1>1, Still DEF HeadlessKnows, Conversing

LEMMA HeadlessCliMoves ==
  ASSUME HeadlessKnows, He!CliMoves, UNCHANGED <<resume, saved>>
  PROVE  HeadlessKnows'
<1>1. Conversing /\ UNCHANGED <<session, phase, known, told, gap>> /\ cli # {}
  BY DEF HeadlessKnows, He!CliMoves, He!CliSays, He!CliEnds, He!CliDies
<1>2. PICK p \in Process : cli = {p}
  BY <1>1, One
<1>3. CliMove(p)
  BY <1>2, HeadlessMoves
<1>4. Conversing' /\ \E q \in Process : cli' = {q} /\ Moved(p, q)
  BY <1>1, <1>2, <1>3, CliMoved
<1>5. PICK q \in Process : cli' = {q} /\ Moved(p, q)
  BY <1>4
<1>6. InOrder(q) /\ (gap = {} \/ ~known => Knowing(q))
  BY <1>1, <1>2, <1>5, MovedKeeps DEF HeadlessKnows
<1>7. (InOrder(q)' <=> InOrder(q)) /\ (Knowing(q)' <=> Knowing(q))
  BY <1>1, Still
<1>8. Cl!AnswersThePrompt'
  BY <1>1 DEF HeadlessKnows, Cl!AnswersThePrompt, Cl!Turn
<1> QED
  BY <1>1, <1>2, <1>4, <1>5, <1>6, <1>7, <1>8 DEF HeadlessKnows

LEMMA HeadlessStep == HeadlessKnows /\ [He!Next]_(He!vars) => HeadlessKnows'
<1> SUFFICES ASSUME HeadlessKnows, [He!Next]_(He!vars) PROVE HeadlessKnows'
  OBVIOUS
<1>1. ASSUME NEW m \in OneModel, He!Begin(m) \/ He!SpawnFails(m) PROVE HeadlessKnows'
  BY <1>1, HeadlessBegin, HeadlessSpawnFails
<1>2. CASE /\ phase = "idle" /\ He!Turn < VendorTurns
           /\ session' = session \o << <<"user", He!Turn + 1>>, <<"assistant", He!Turn + 1>> >>
           /\ gap' = IF resume THEN gap \cup {"other_model"} ELSE gap
           /\ UNCHANGED <<phase, model, known, token, told, cli, resume, saved>>
  <2>1. He!Turn = Turn
    BY HeadlessSame
  <2>2. /\ phase = "idle" /\ (resume => gap' # {})
        /\ session' = session \o << <<"user", Turn + 1>>, <<"assistant", Turn + 1>> >>
        /\ UNCHANGED <<phase, known, told, cli, resume, saved>>
    BY <1>2, <2>1
  <2>3. Conversing'
    BY <2>2, Elsewhere DEF HeadlessKnows
  <2> QED
    BY <2>2, <2>3 DEF HeadlessKnows, Cl!AnswersThePrompt
<1>3. CASE He!Stop /\ UNCHANGED <<session, phase, model, known, told, cli, gap, resume, saved>>
  BY <1>3, HeadlessStill
<1>4. CASE He!CliMoves /\ UNCHANGED <<resume, saved>>
  BY <1>4, HeadlessCliMoves
<1>5. CASE He!Read
  BY <1>5, HeadlessRead
<1>6. CASE He!ReadFails \/ He!StopStreaming
  BY <1>6, HeadlessFails DEF He!ReadFails, He!StopStreaming
<1>7. CASE UNCHANGED He!vars
  BY <1>7, HeadlessStill DEF He!vars
<1> QED
  BY <1>1, <1>2, <1>3, <1>4, <1>5, <1>6, <1>7 DEF He!Next

(* Grok.                                                                   *)
LEMMA GrokSame ==
  /\ Gr!Closed <=> Cl!Closed
  /\ Gr!Turn = Turn
  /\ Gr!NewCli = Cl!NewCli
  /\ \A p : Gr!Rest(p) = Cl!Rest(p) /\ Gr!Prompted(p) = Cl!Prompted(p)
  /\ \A p : cli = {p} => Gr!The(cli) = p /\ Gr!Unread = p.out
<1>1. Gr!Turn = Cl!Turn /\ Gr!Turn = Turn
  BY DEF Gr!Turn, Turn, Cl!Turn, Gr!Cardinality, Cl!Cardinality
<1>2. Gr!Closed <=> Cl!Closed
  BY DEF Gr!Closed, Cl!Closed
<1>3. \A p : cli = {p} => Gr!The(cli) = p /\ Gr!Unread = p.out
  BY OnlyOne DEF Gr!Unread, Gr!NoCli
<1>4. \A p : (Gr!Dead(p) <=> Cl!Dead(p)) /\ Gr!Last(session) = Cl!Last(session)
  BY DEF Gr!Dead, Cl!Dead, Gr!Last, Cl!Last
<1>5. \A p : Gr!Prompted(p) = Cl!Prompted(p)
  BY <1>1, <1>4 DEF Gr!Prompted, Cl!Prompted
<1>6. Gr!NewCli = Cl!NewCli /\ \A p : Gr!Rest(p) = Cl!Rest(p)
  BY DEF Gr!NewCli, Cl!NewCli, Gr!Rest, Cl!Rest
<1> QED
  BY <1>1, <1>2, <1>3, <1>5, <1>6

LEMMA GrokInit == Gr!Init /\ Cl!InitTurn => GrokKnows
  BY InitConversing DEF GrokKnows, Cl!AnswersThePrompt

(* The CLI is gone, or what follows starts another session.                *)
LEMMA GrokGone ==
  ASSUME Conversing', phase' = "idle", cli' = {}
  PROVE  GrokKnows'
<1>1. Cl!AnswersThePrompt'
  BY DEF Cl!AnswersThePrompt
<1> QED
  BY <1>1 DEF GrokKnows

LEMMA GrokEnds ==
  ASSUME GrokKnows, Cl!Closed, cli' = {}
  PROVE  GrokKnows'
<1>1. Conversing
  BY DEF GrokKnows
<1>2. Conversing' /\ phase' = "idle"
  BY <1>1, Ended, Closing
<1> QED
  BY <1>2, GrokGone

LEMMA AppendUser ==
  ASSUME Conversing, session' = Append(session, <<"user", Turn + 1>>),
         Last(session)' = <<"user", Turn + 1>>
  PROVE  session' = session \o <<Last(session)'>>
<1>1. session \in Seq(Utterance) /\ Turn \in Nat
  BY TurnIs DEF Conversing
<1>2. <<"user", Turn + 1>> \in Utterance
  BY <1>1 DEF Utterance
<1> QED
  BY <1>1, <1>2, AppendIsConcat

LEMMA GrokBegin ==
  ASSUME GrokKnows, NEW m, Gr!Begin(m)
  PROVE  GrokKnows'
<1>1. /\ Conversing /\ phase = "idle" /\ session' = Append(session, <<"user", Turn + 1>>)
      /\ told' = told /\ known' = ~Gr!Fresh
  BY GrokSame DEF GrokKnows, Gr!Begin, Gr!Opened
<1>2. CASE Gr!Serves(m) /\ ~Gr!Fresh
  <2>1. phase' = "sending" /\ UNCHANGED <<cli, opened, gap>> /\ known' = TRUE /\ cli # {} /\ opened
    BY <1>1, <1>2 DEF Gr!Begin, Gr!Fresh, Gr!Serves, Gr!NoCli
  <2>2. Conversing' /\ Last(session)' = <<"user", Turn + 1>>
    BY <1>1, <2>1, Opening DEF Conversing
  <2>3. session' = session \o <<Last(session)'>>
    BY <1>1, <2>2, AppendUser
  <2>4. \A p \in cli : p.knows = session => Primed(p)'
    BY <2>1, <2>3 DEF Primed
  <2>5. Cl!AnswersThePrompt'
    BY <2>1 DEF Cl!AnswersThePrompt
  <2> QED
    BY <1>1, <2>1, <2>2, <2>4, <2>5 DEF GrokKnows
<1>3. CASE Gr!Serves(m) /\ Gr!Fresh
  <2>1. phase' = "opening" /\ cli' = cli /\ known' \in BOOLEAN /\ cli # {}
    BY <1>1, <1>3 DEF Gr!Begin, Gr!Serves, Gr!NoCli
  <2>2. Conversing'
    BY <1>1, <2>1, Opening DEF Conversing
  <2>3. Cl!AnswersThePrompt'
    BY <2>1 DEF Cl!AnswersThePrompt
  <2> QED
    BY <2>1, <2>2, <2>3 DEF GrokKnows
<1>4. CASE ~Gr!Serves(m)
  <2>1. phase' = "starting" /\ cli' = {Cl!NewCli} /\ known' \in BOOLEAN
    BY <1>1, <1>4, GrokSame DEF Gr!Begin
  <2>2. cli' \subseteq Process /\ (\A a, b \in cli' : a = b) /\ cli' # {}
    BY <2>1, NewIs
  <2>3. Conversing'
    BY <1>1, <2>1, <2>2, Opening
  <2>4. Cl!AnswersThePrompt'
    BY <2>1 DEF Cl!AnswersThePrompt
  <2> QED
    BY <2>1, <2>3, <2>4 DEF GrokKnows
<1> QED
  BY <1>2, <1>3, <1>4

LEMMA GrokSpawnFails ==
  ASSUME GrokKnows, NEW m, Gr!SpawnFails(m)
  PROVE  GrokKnows'
<1>1. /\ Conversing /\ phase = "idle" /\ session' = Append(session, <<"user", Turn + 1>>)
      /\ told' = told /\ cli' = {} /\ phase' = "idle" /\ known' \in BOOLEAN
  BY GrokSame DEF GrokKnows, Conversing, Gr!SpawnFails, Gr!Opened, Gr!NoCli
<1>2. Conversing'
  BY <1>1, Opening
<1> QED
  BY <1>1, <1>2, GrokGone

LEMMA GrokStarted == GrokKnows /\ Gr!Started => GrokKnows'
<1> SUFFICES ASSUME GrokKnows, Gr!Started PROVE GrokKnows'
  OBVIOUS
<1>1. Conversing /\ phase = "starting" /\ phase' = "opening" /\ known' = FALSE
      /\ UNCHANGED <<session, told, cli>>
  BY DEF GrokKnows, Gr!Started
<1>2. Conversing'
  BY <1>1 DEF Conversing
<1> QED
  BY <1>1, <1>2 DEF GrokKnows, Cl!AnswersThePrompt

LEMMA GrokOpened == GrokKnows /\ Gr!SessionOpened => GrokKnows'
<1> SUFFICES ASSUME GrokKnows, Gr!SessionOpened PROVE GrokKnows'
  OBVIOUS
<1>1. Conversing /\ phase = "opening" /\ phase' = "sending" /\ known' = FALSE
      /\ UNCHANGED <<session, told>> /\ cli' = {Cl!NewCli}
  BY GrokSame DEF GrokKnows, Gr!SessionOpened
<1>2. Conversing'
  BY <1>1, NewIs DEF Conversing
<1>3. Primed(Cl!NewCli)'
  BY <1>1, NewIs DEF Primed
<1> QED
  BY <1>1, <1>2, <1>3, NewIs DEF GrokKnows, Cl!AnswersThePrompt

LEMMA GrokSend == GrokKnows /\ Gr!Send => GrokKnows'
<1> SUFFICES ASSUME GrokKnows, Gr!Send PROVE GrokKnows'
  OBVIOUS
<1>1. Conversing /\ phase = "sending" /\ phase' = "streaming" /\ told = <<>> /\ session # <<>>
      /\ UNCHANGED <<session, known, told, gap>> /\ cli' = {Cl!Prompted(Gr!The(cli))}
  BY GrokSame DEF GrokKnows, Conversing, Gr!Send
<1>2. PICK p \in Process : cli = {p}
  BY <1>1, One DEF Conversing
<1>3. PICK q : q = Cl!Prompted(p)
  OBVIOUS
<1>4. cli' = {q} /\ q \in Process
  BY <1>1, <1>2, <1>3, GrokSame, PromptedIs
<1>5. "stopped_early" \notin gap => Quiet(p) /\ (gap = {} => Primed(p))
  BY <1>1, <1>2 DEF GrokKnows
<1>6. "stopped_early" \notin gap => InOrder(q) /\ (gap = {} => Knowing(q))
  BY <1>1, <1>3, <1>5, Prompting
<1>7. (InOrder(q)' <=> InOrder(q)) /\ (Knowing(q)' <=> Knowing(q))
  BY <1>1, Still
<1>8. Conversing'
  BY <1>1, <1>4 DEF Conversing
<1>9. Cl!AnswersThePrompt'
  <2>1. Len(told') = 0
    BY <1>1
  <2> QED
    BY <2>1 DEF Cl!AnswersThePrompt
<1> QED
  BY <1>1, <1>4, <1>6, <1>7, <1>8, <1>9 DEF GrokKnows

LEMMA GrokStopOpening == GrokKnows /\ Gr!StopOpening => GrokKnows'
<1> SUFFICES ASSUME GrokKnows, Gr!StopOpening PROVE GrokKnows'
  OBVIOUS
<1>1. /\ Conversing /\ phase # "idle" /\ Cl!Closed /\ "stopped_early" \in gap'
      /\ (cli' = cli \/ cli' = {Cl!Prompted(Gr!The(cli))})
  BY GrokSame DEF GrokKnows, Gr!StopOpening
<1>2. PICK p \in Process : cli = {p}
  BY <1>1, One DEF Conversing
<1>3. Cl!Prompted(p) \in Process
  BY <1>1, PromptedIs DEF Conversing
<1>4. cli' \subseteq Process /\ \A a, b \in cli' : a = b
  BY <1>1, <1>2, <1>3, GrokSame
<1>5. Conversing' /\ phase' = "idle"
  BY <1>1, <1>4, Ended, Closing
<1> QED
  BY <1>1, <1>5 DEF GrokKnows

LEMMA GrokRead == GrokKnows /\ Gr!Read => GrokKnows'
<1> SUFFICES ASSUME GrokKnows, Gr!Read PROVE GrokKnows'
  OBVIOUS
<1>1. Conversing /\ phase = "streaming" /\ Gr!Unread # <<>> /\ gap' = gap
  BY DEF GrokKnows, Gr!Read
<1>2. PICK p \in Process : cli = {p}
  BY <1>1, One DEF Conversing
<1>3. /\ Gr!The(cli) = p /\ Gr!Unread = p.out /\ p.out # <<>> /\ Gr!Rest(p) = Cl!Rest(p)
      /\ "stopped_early" \notin gap =>
           InOrder(p) /\ (gap = {} => Knowing(p)) /\ Cl!AnswersThePrompt
  BY <1>1, <1>2, GrokSame DEF GrokKnows
<1> DEFINE line == Head(p.out)
           r == Cl!Rest(p)
<1>4. r \in Process /\ r.knows = p.knows /\ line \in Line /\ line = p.out[1] /\ p.out \in Seq(Line)
  BY <1>3, RestIs DEF Process
<1>5. CASE /\ ~Gr!IsEnd(line) /\ cli' = {r}
           /\ told' = IF line.kind = "text" THEN Append(told, line.turn) ELSE told
           /\ UNCHANGED <<session, phase, known, token, opened>>
  <2>1. CASE line.kind = "text"
    <3>1. told' = Append(told, line.turn)
      BY <1>5, <2>1
    <3>2. Conversing' /\ (InOrder(p) => InOrder(r)') /\ (InOrder(p) /\ Knowing(p) => Knowing(r)')
      BY <1>1, <1>2, <1>3, <1>5, <2>1, <3>1, ReadText
    <3>3. InOrder(p) /\ Cl!AnswersThePrompt => Cl!AnswersThePrompt'
      BY <1>1, <1>3, <1>5, <2>1, <3>1, StillAnswers
    <3> HIDE DEF r
    <3> QED
      BY <1>1, <1>3, <1>5, <3>2, <3>3 DEF GrokKnows
  <2>2. CASE line.kind # "text"
    <3>1. told' = told
      BY <1>5, <2>2
    <3>2. "stopped_early" \in gap
      <4>1. SUFFICES ASSUME InOrder(p) PROVE FALSE
        BY <1>3
      <4>2. p.out[1].turn \in {0, Turn}
        <5>1. Len(p.out) \in Nat \ {0}
          BY <1>3, <1>4, EmptySeq
        <5> QED
          BY <4>1, <5>1 DEF InOrder, Eof
      <4> QED
        BY <1>4, <1>5, <2>2, <4>2, GrokSame DEF Gr!IsEnd
    <3> HIDE DEF r
    <3>3. Conversing'
      BY <1>1, <1>4, <1>5, <3>1 DEF Conversing
    <3> QED
      BY <1>1, <1>5, <3>2, <3>3 DEF GrokKnows
  <2> QED
    BY <2>1, <2>2
<1>6. CASE Gr!StaysUsable(line) /\ Gr!TurnEnds(TRUE)
  <2>1. line.kind \in Endings
    BY <1>6 DEF Gr!StaysUsable, Endings
  <2>2. InOrder(p) => Quiet(r) /\ (Knowing(p) => p.knows = session \o Said)
    BY <1>1, <1>3, <2>1, ReadsEnd
  <2>3. cli' = {r} /\ Cl!Closed /\ opened' = opened
    BY <1>3, <1>6, GrokSame DEF Gr!TurnEnds
  <2>4. phase' = "idle" /\ session' = session \o Said /\ Conversing'
    BY <1>1, <1>4, <2>3, Closing, Ended
  <2> HIDE DEF r
  <2> QED
    BY <1>1, <1>3, <1>4, <2>2, <2>3, <2>4 DEF GrokKnows, Cl!AnswersThePrompt
<1>7. CASE Gr!TurnEnds(FALSE)
  BY <1>7, GrokSame, GrokEnds DEF Gr!TurnEnds, Gr!NoCli
<1>8. \/ /\ ~Gr!IsEnd(line) /\ cli' = {r}
         /\ told' = IF line.kind = "text" THEN Append(told, line.turn) ELSE told
         /\ UNCHANGED <<session, phase, known, token, opened>>
      \/ Gr!TurnEnds(Gr!StaysUsable(line))
  BY <1>3 DEF Gr!Read
<1>9. Gr!StaysUsable(line) \in BOOLEAN
  BY DEF Gr!StaysUsable
<1> HIDE DEF line, r
<1>10. CASE Gr!TurnEnds(Gr!StaysUsable(line))
  <2>1. CASE Gr!StaysUsable(line)
    <3>1. Gr!StaysUsable(line) = TRUE
      BY <1>9, <2>1
    <3> QED
      BY <1>6, <1>10, <2>1, <3>1
  <2>2. CASE ~Gr!StaysUsable(line)
    <3>1. Gr!StaysUsable(line) = FALSE
      BY <1>9, <2>2
    <3> QED
      BY <1>7, <1>10, <3>1
  <2> QED
    BY <2>1, <2>2
<1> QED
  BY <1>5, <1>8, <1>10

LEMMA GrokFails ==
  ASSUME GrokKnows,
         \/ Gr!ReadFails \/ Gr!StopStreaming \/ Gr!SendFails
         \/ \E out \in BOOLEAN : Gr!OpeningFails(out)
  PROVE  GrokKnows'
  BY GrokEnds, GrokSame DEF Gr!ReadFails, Gr!StopStreaming, Gr!SendFails, Gr!OpeningFails,
     Gr!TurnEnds, Gr!NoCli

LEMMA GrokOther ==
  ASSUME GrokKnows, Gr!OtherModel, UNCHANGED <<phase, known, told, cli, opened>>
  PROVE  GrokKnows'
<1>1. /\ Conversing /\ phase = "idle"
      /\ session' = session \o << <<"user", Turn + 1>>, <<"assistant", Turn + 1>> >>
      /\ gap \subseteq gap' /\ (cli # {} => gap' # {})
  BY GrokSame DEF GrokKnows, Gr!OtherModel, Gr!NoCli
<1>2. Conversing'
  BY <1>1, Elsewhere
<1> QED
  BY <1>1, <1>2 DEF GrokKnows, Cl!AnswersThePrompt

LEMMA GrokStill ==
  ASSUME GrokKnows, UNCHANGED <<session, phase, known, told, cli, gap, opened>>
  PROVE  GrokKnows'
<1>1. Cl!AnswersThePrompt => Cl!AnswersThePrompt'
  BY DEF Cl!AnswersThePrompt, Cl!Turn
<1> QED
  BY <1>1, Still DEF GrokKnows, Conversing

LEMMA GrokCliMoves ==
  ASSUME GrokKnows, Gr!CliMoves, opened' = opened
  PROVE  GrokKnows'
<1>1. Conversing /\ UNCHANGED <<session, phase, known, told, gap>> /\ cli # {}
  BY DEF GrokKnows, Gr!CliMoves, Gr!CliSays, Gr!CliEnds, Gr!CliDies
<1>2. PICK p \in Process : cli = {p}
  BY <1>1, One
<1>3. CliMove(p)
  BY <1>2, GrokMoves
<1>4. Conversing' /\ \E q \in Process : cli' = {q} /\ Moved(p, q)
  BY <1>1, <1>2, <1>3, CliMoved
<1>5. PICK q \in Process : cli' = {q} /\ Moved(p, q)
  BY <1>4
<1>6. /\ Quiet(p) => Quiet(q) /\ q.knows = p.knows
      /\ InOrder(p) => InOrder(q)
      /\ InOrder(p) /\ Knowing(p) => Knowing(q)
  BY <1>1, <1>5, MovedKeeps
<1>7. (InOrder(q)' <=> InOrder(q)) /\ (Knowing(q)' <=> Knowing(q)) /\ (Primed(q)' <=> Primed(q))
  BY <1>1, Still
<1>8. Cl!AnswersThePrompt => Cl!AnswersThePrompt'
  BY <1>1 DEF Cl!AnswersThePrompt, Cl!Turn
<1>9. Quiet(p) /\ Primed(p) => Primed(q)
  BY <1>6 DEF Primed
<1>10. ASSUME "stopped_early" \notin gap
       PROVE  /\ phase = "idle" /\ opened => Quiet(p) /\ (gap = {} => p.knows = session)
              /\ phase = "sending" => Quiet(p) /\ (gap = {} => Primed(p))
              /\ phase = "streaming" => InOrder(p) /\ (gap = {} => Knowing(p))
              /\ Cl!AnswersThePrompt
  BY <1>2, <1>10 DEF GrokKnows
<1>11. ASSUME "stopped_early" \notin gap
       PROVE  /\ phase' = "idle" /\ opened' => Quiet(q) /\ (gap' = {} => q.knows = session')
              /\ phase' = "sending" => Quiet(q) /\ (gap' = {} => Primed(q)')
              /\ phase' = "streaming" => InOrder(q)' /\ (gap' = {} => Knowing(q)')
              /\ Cl!AnswersThePrompt'
  BY <1>1, <1>6, <1>7, <1>8, <1>9, <1>10, <1>11
<1>12. phase' \in {"idle", "starting", "opening", "sending", "streaming"}
  BY <1>1 DEF GrokKnows
<1> QED
  BY <1>1, <1>4, <1>5, <1>11, <1>12 DEF GrokKnows

LEMMA GrokStep == GrokKnows /\ [Gr!Next]_(Gr!vars) => GrokKnows'
<1> SUFFICES ASSUME GrokKnows, [Gr!Next]_(Gr!vars) PROVE GrokKnows'
  OBVIOUS
<1>1. ASSUME NEW m \in Models, Gr!Begin(m) \/ Gr!SpawnFails(m) PROVE GrokKnows'
  BY <1>1, GrokBegin, GrokSpawnFails
<1>2. CASE Gr!RotateEpoch
  BY <1>2, GrokStill DEF Gr!RotateEpoch
<1>3. CASE /\ Gr!OtherModel
           /\ UNCHANGED <<phase, model, known, token, told, cli, started, opened, rotate, rotated>>
  BY <1>3, GrokOther
<1>4. CASE /\ Gr!Stop
           /\ UNCHANGED <<session, phase, model, known, told, cli, gap, started, opened, rotate,
                          rotated>>
  BY <1>4, GrokStill
<1>5. CASE Gr!CliMoves /\ UNCHANGED <<started, opened, rotate, rotated>>
  BY <1>5, GrokCliMoves
<1>6. CASE Gr!Started \/ Gr!SessionOpened
  BY <1>6, GrokStarted, GrokOpened
<1>7. CASE Gr!Send \/ Gr!StopOpening
  BY <1>7, GrokSend, GrokStopOpening
<1>8. CASE Gr!Read
  BY <1>8, GrokRead
<1>9. CASE Gr!ReadFails \/ Gr!StopStreaming \/ Gr!SendFails \/ \E out \in BOOLEAN : Gr!OpeningFails(out)
  BY <1>9, GrokFails
<1>10. CASE UNCHANGED Gr!vars
  BY <1>10, GrokStill DEF Gr!vars
<1> QED
  BY <1>1, <1>2, <1>3, <1>4, <1>5, <1>6, <1>7, <1>8, <1>9, <1>10 DEF Gr!Next

(* Codex.                                                                  *)
LEMMA CodexSame ==
  /\ Co!Closed <=> Cl!Closed
  /\ Co!Turn = Turn
  /\ Co!NewCli = Cl!NewCli
  /\ \A p : /\ Co!Rest(p) = Cl!Rest(p) /\ Co!Prompted(p) = Cl!Prompted(p)
            /\ Co!Dead(p) <=> Dead(p)
  /\ \A p, k, n : Co!Sent(p, k, n) = Sent(p, k, n)
  /\ \A p : cli = {p} => Co!The(cli) = p /\ Co!Unread = p.out
<1>1. Co!Turn = Cl!Turn /\ Co!Turn = Turn
  BY DEF Co!Turn, Turn, Cl!Turn, Co!Cardinality, Cl!Cardinality
<1>2. Co!Closed <=> Cl!Closed
  BY DEF Co!Closed, Cl!Closed
<1>3. \A p : cli = {p} => Co!The(cli) = p /\ Co!Unread = p.out
  BY OnlyOne DEF Co!Unread, Co!NoCli
<1>4. \A p : (Co!Dead(p) <=> Cl!Dead(p)) /\ (Co!Dead(p) <=> Dead(p))
  BY DEF Co!Dead, Cl!Dead, Dead
<1>5. Co!Last(session) = Cl!Last(session)
  BY DEF Co!Last, Cl!Last
<1>6. \A p : Co!Prompted(p) = Cl!Prompted(p)
  BY <1>1, <1>4, <1>5 DEF Co!Prompted, Cl!Prompted
<1>7. Co!NewCli = Cl!NewCli /\ \A p : Co!Rest(p) = Cl!Rest(p)
  BY DEF Co!NewCli, Cl!NewCli, Co!Rest, Cl!Rest
<1>8. \A p, k, n : Co!Sent(p, k, n) = Sent(p, k, n)
  BY DEF Co!Sent, Sent
<1> QED
  BY <1>1, <1>2, <1>3, <1>4, <1>6, <1>7, <1>8

LEMMA CodexInit == Co!Init /\ Cl!InitTurn => CodexKnows
<1> SUFFICES ASSUME Co!Init, Cl!InitTurn PROVE CodexKnows
  OBVIOUS
<1>1. Conversing /\ phase = "idle" /\ cli = {} /\ gap = {} /\ thread = FALSE /\ pending = <<>>
  BY InitConversing DEF Co!Init
<1>2. pending \in Seq(Line)
  BY <1>1
<1> QED
  BY <1>1, <1>2 DEF CodexKnows, Cl!AnswersThePrompt

LEMMA CodexGone ==
  ASSUME Conversing', phase' = "idle", cli' = {}, pending' \in Seq(Line), thread' \in BOOLEAN
  PROVE  CodexKnows'
<1>1. Cl!AnswersThePrompt'
  BY DEF Cl!AnswersThePrompt
<1> QED
  BY <1>1 DEF CodexKnows

LEMMA AppendsFirst == \A x : Append(<<>>, x) = <<x>>
  OBVIOUS

LEMMA NoLines == <<>> \in Seq(Line)
  OBVIOUS

LEMMA CodexEnds ==
  ASSUME CodexKnows, Cl!Closed, cli' = {}, thread' = FALSE, pending' \in {pending, <<>>}
  PROVE  CodexKnows'
<1>1. Conversing /\ pending' \in Seq(Line)
  BY NoLines DEF CodexKnows
<1>2. Conversing' /\ phase' = "idle"
  BY <1>1, Ended, Closing
<1> QED
  BY <1>1, <1>2, CodexGone

LEMMA CodexBegin ==
  ASSUME CodexKnows, NEW m, Co!Begin(m)
  PROVE  CodexKnows'
<1>1. /\ Conversing /\ phase = "idle" /\ session' = Append(session, <<"user", Turn + 1>>)
      /\ told' = told /\ known' = Co!HasThread /\ pending \in Seq(Line) /\ thread \in BOOLEAN
  BY CodexSame DEF CodexKnows, Co!Begin, Co!Opened
<1>2. CASE Co!HasThread
  <2>1. /\ phase' = "sending" /\ UNCHANGED <<cli, thread, pending, gap>> /\ known' = TRUE
        /\ cli # {} /\ thread
    BY <1>1, <1>2 DEF Co!Begin, Co!HasThread, Co!NoCli
  <2>2. Conversing' /\ Last(session)' = <<"user", Turn + 1>>
    BY <1>1, <2>1, Opening DEF Conversing
  <2>3. session' = session \o <<Last(session)'>>
    BY <1>1, <2>2, AppendUser
  <2>4. \A p \in cli : p.knows = session => Primed(p)'
    BY <2>1, <2>3 DEF Primed
  <2>5. Cl!AnswersThePrompt'
    BY <2>1 DEF Cl!AnswersThePrompt
  <2> QED
    BY <1>1, <2>1, <2>2, <2>4, <2>5 DEF CodexKnows
<1>3. CASE ~Co!HasThread
  <2>1. /\ phase' = "starting" /\ cli' = {Cl!NewCli} /\ known' = FALSE /\ thread' = FALSE
        /\ pending' = <<>> /\ gap' = {}
    BY <1>1, <1>3, CodexSame DEF Co!Begin, Co!HasThread
  <2>2. cli' \subseteq Process /\ (\A a, b \in cli' : a = b) /\ cli' # {}
    BY <2>1, NewIs
  <2>3. Conversing'
    BY <1>1, <2>1, <2>2, Opening
  <2>4. Cl!AnswersThePrompt'
    BY <2>1 DEF Cl!AnswersThePrompt
  <2>5. pending' \in Seq(Line)
    BY <2>1, NoLines
  <2> QED
    BY <2>1, <2>3, <2>4, <2>5, NewIs DEF CodexKnows
<1> QED
  BY <1>2, <1>3

LEMMA CodexSpawnFails ==
  ASSUME CodexKnows, NEW m, Co!SpawnFails(m)
  PROVE  CodexKnows'
<1>1. /\ Conversing /\ phase = "idle" /\ session' = Append(session, <<"user", Turn + 1>>)
      /\ told' = told /\ cli' = {} /\ phase' = "idle" /\ known' \in BOOLEAN
      /\ thread' = FALSE /\ pending' = <<>>
  BY CodexSame DEF CodexKnows, Conversing, Co!SpawnFails, Co!Opened, Co!NoCli
<1>2. Conversing'
  BY <1>1, Opening
<1>3. pending' \in Seq(Line)
  BY <1>1, NoLines
<1> QED
  BY <1>1, <1>2, <1>3, CodexGone

LEMMA CodexStarted == CodexKnows /\ Co!Started => CodexKnows'
<1> SUFFICES ASSUME CodexKnows, Co!Started PROVE CodexKnows'
  OBVIOUS
<1>1. /\ Conversing /\ phase = "starting" /\ phase' = "sending" /\ thread' = TRUE
      /\ UNCHANGED <<session, told, known, cli, gap, pending>> /\ pending \in Seq(Line)
  BY DEF CodexKnows, Co!Started
<1>2. Conversing'
  BY <1>1 DEF Conversing
<1>3. \A p : ~known /\ p.knows = <<>> => Primed(p)'
  BY <1>1 DEF Primed
<1> QED
  BY <1>1, <1>2, <1>3 DEF CodexKnows, Cl!AnswersThePrompt

(* A process after its answer to turn/start.                               *)
LEMMA Answers ==
  ASSUME NEW p \in Process, NEW kind \in {"started", "refused"}, Turn \in Nat
  PROVE  /\ Sent(p, kind, Turn) \in Process
         /\ Sent(p, kind, Turn).knows = p.knows /\ Sent(p, kind, Turn).busy = p.busy
         /\ Sent(p, kind, Turn).out = Append(p.out, [kind |-> kind, turn |-> Turn])
<1> DEFINE o == Append(p.out, [kind |-> kind, turn |-> Turn])
<1>1. [kind |-> kind, turn |-> Turn] \in Line
  BY DEF Line
<1>2. o \in Seq(Line) /\ p.knows \in Seq(Utterance) /\ p.busy \in SUBSET Nat
  BY <1>1 DEF Process
<1> HIDE DEF o
<1>3. Sent(p, kind, Turn) = [knows |-> p.knows, busy |-> p.busy, out |-> o]
  BY ProcessExcept DEF Sent, o
<1>4. /\ Sent(p, kind, Turn).knows = p.knows /\ Sent(p, kind, Turn).busy = p.busy
      /\ Sent(p, kind, Turn).out = o /\ Sent(p, kind, Turn) \in Process
  BY <1>2, <1>3 DEF Process
<1> QED
  BY <1>4 DEF o

LEMMA StillAwaited ==
  ASSUME session' = session, told' = told, known' = known, gap' = gap
  PROVE  \A p : Awaited(p) => Awaited(p)'
<1> SUFFICES ASSUME NEW p, Awaited(p) PROVE Awaited(p)'
  OBVIOUS
<1>1. PICK r : r = Cl!Rest(p)
  OBVIOUS
<1>2. (InOrder(r)' <=> InOrder(r)) /\ (Knowing(r)' <=> Knowing(r))
  BY Still
<1> QED
  BY <1>1, <1>2, SameTurn DEF Awaited

LEMMA CodexSend == CodexKnows /\ Co!Send => CodexKnows'
<1> SUFFICES ASSUME CodexKnows, Co!Send PROVE CodexKnows'
  OBVIOUS
<1>1. /\ Conversing /\ phase = "sending" /\ phase' = "waiting" /\ told = <<>> /\ session # <<>>
      /\ UNCHANGED <<session, known, told, gap, thread, pending>>
      /\ pending \in Seq(Line) /\ thread \in BOOLEAN
  BY DEF CodexKnows, Conversing, Co!Send
<1>2. PICK p \in Process : cli = {p}
  BY <1>1, One DEF Conversing
<1>3. "stopped_early" \notin gap =>
        pending = <<>> /\ Quiet(p) /\ (gap = {} => Primed(p))
  BY <1>1, <1>2 DEF CodexKnows
<1>4. \/ Dead(p) /\ cli' = {p}
      \/ ~Dead(p) /\ cli' = {Sent(Cl!Prompted(p), "started", Turn)}
      \/ ~Dead(p) /\ cli' = {Sent(p, "refused", Turn)}
  BY <1>2, CodexSame DEF Co!Send
<1>5. Turn \in Nat
  BY <1>1, TurnIs DEF Conversing
<1>6. \E q \in Process : cli' = {q} /\ (Quiet(p) /\ (gap = {} => Primed(p)) => Awaited(q))
  <2>2. ~Dead(p) /\ Quiet(p) => p.out = <<>>
    BY DEF Quiet, Dead, Eof
  <2>3. CASE Dead(p) /\ cli' = {p}
    <3>1. Quiet(p) => Awaited(p)
      BY <2>3 DEF Quiet, Dead, Awaited
    <3> QED
      BY <2>3, <3>1
  <2>4. CASE ~Dead(p) /\ cli' = {Sent(Cl!Prompted(p), "started", Turn)}
    <3>1. PICK a : a = Cl!Prompted(p)
      OBVIOUS
    <3>2. a \in Process /\ a.out = p.out
      BY <1>1, <3>1, PromptedIs
    <3>3. PICK q : q = Sent(a, "started", Turn)
      OBVIOUS
    <3>4. /\ q \in Process /\ q.knows = a.knows /\ q.busy = a.busy
          /\ q.out = Append(a.out, [kind |-> "started", turn |-> Turn])
      BY <1>5, <3>2, <3>3, Answers
    <3>5. ASSUME Quiet(p), gap = {} => Primed(p) PROVE Awaited(q)
      <4>1. InOrder(a) /\ (gap = {} => Knowing(a))
        BY <1>1, <3>1, <3>5, Prompting
      <4>2. a.out = <<>> /\ q.out = << [kind |-> "started", turn |-> Turn] >>
        BY <2>2, <2>4, <3>2, <3>4, <3>5, AppendsFirst
      <4>3. q.out # <<>> /\ q.out[1] = [kind |-> "started", turn |-> Turn] /\ Tail(q.out) = <<>>
        BY <4>2
      <4>4. PICK r : r = Cl!Rest(q)
        OBVIOUS
      <4>5. r.knows = a.knows /\ r.busy = a.busy /\ r.out = a.out
        BY <3>4, <4>2, <4>3, <4>4, RestIs
      <4>6. InOrder(r) /\ (gap = {} => Knowing(r))
        BY <4>1, <4>5 DEF InOrder, Knowing, Texts
      <4> QED
        BY <4>3, <4>4, <4>6 DEF Awaited
    <3> QED
      BY <2>4, <3>1, <3>3, <3>4, <3>5
  <2>5. CASE ~Dead(p) /\ cli' = {Sent(p, "refused", Turn)}
    <3>1. PICK q : q = Sent(p, "refused", Turn)
      OBVIOUS
    <3>2. /\ q \in Process /\ q.knows = p.knows /\ q.busy = p.busy
          /\ q.out = Append(p.out, [kind |-> "refused", turn |-> Turn])
      BY <1>5, <3>1, Answers
    <3>3. ASSUME Quiet(p) PROVE Awaited(q)
      <4>1. q.out = << [kind |-> "refused", turn |-> Turn] >>
        BY <2>2, <2>5, <3>2, <3>3, AppendsFirst
      <4>2. q.out # <<>> /\ q.out[1] = [kind |-> "refused", turn |-> Turn]
        BY <4>1
      <4> QED
        BY <3>2, <3>3, <4>2 DEF Awaited, Quiet
    <3> QED
      BY <2>5, <3>1, <3>2, <3>3
  <2> QED
    BY <1>4, <2>3, <2>4, <2>5
<1>7. PICK q \in Process :
        /\ cli' = {q}
        /\ Quiet(p) /\ (gap = {} => Primed(p)) => Awaited(q)
  BY <1>6
<1>8. Conversing'
  BY <1>1, <1>7 DEF Conversing
<1>9. "stopped_early" \notin gap => pending' = <<>> /\ Awaited(q)'
  BY <1>1, <1>3, <1>7, StillAwaited
<1>10. Cl!AnswersThePrompt'
  BY <1>1 DEF Cl!AnswersThePrompt
<1> QED
  BY <1>1, <1>7, <1>8, <1>9, <1>10 DEF CodexKnows

LEMMA CodexAwait == CodexKnows /\ Co!Await => CodexKnows'
<1> SUFFICES ASSUME CodexKnows, Co!Await PROVE CodexKnows'
  OBVIOUS
<1>1. /\ Conversing /\ phase = "waiting" /\ Co!Unread # <<>> /\ gap' = gap
      /\ pending \in Seq(Line) /\ thread \in BOOLEAN
  BY DEF CodexKnows, Co!Await
<1>2. PICK p \in Process : cli = {p}
  BY <1>1, One DEF Conversing
<1>3. /\ Co!The(cli) = p /\ Co!Unread = p.out /\ p.out # <<>>
      /\ Co!Rest(p) = Cl!Rest(p) /\ Co!Turn = Turn
  BY <1>1, <1>2, CodexSame
<1>4. "stopped_early" \notin gap => pending = <<>> /\ Awaited(p)
  BY <1>1, <1>2 DEF CodexKnows
<1>5. PICK line : line = Head(p.out)
  OBVIOUS
<1>6. PICK r : r = Cl!Rest(p)
  OBVIOUS
<1>7. r \in Process /\ line \in Line /\ line = p.out[1]
  BY <1>3, <1>5, <1>6, RestIs
<1>8. \/ /\ line.kind = "started" /\ line.turn = Turn
         /\ phase' = "streaming" /\ cli' = {r}
         /\ UNCHANGED <<session, known, token, told, thread, pending>>
      \/ Co!Fails /\ UNCHANGED pending
      \/ /\ line.kind \in {"started", "refused"} /\ line.turn # Turn /\ cli' = {r}
         /\ UNCHANGED <<session, phase, known, token, told, thread, pending>>
      \/ /\ line.kind \in Endings \cup {"text"} /\ pending' = Append(pending, line) /\ cli' = {r}
         /\ UNCHANGED <<session, phase, known, token, told, thread>>
  BY <1>3, <1>5, <1>6 DEF Co!Await, Endings
<1>9. CASE /\ line.kind = "started" /\ line.turn = Turn
           /\ phase' = "streaming" /\ cli' = {r}
           /\ UNCHANGED <<session, known, token, told, thread, pending>>
  <2>1. Awaited(p) => InOrder(r) /\ (gap = {} => Knowing(r))
    BY <1>6, <1>7, <1>9 DEF Awaited, Eof
  <2>2. (InOrder(r)' <=> InOrder(r)) /\ (Knowing(r)' <=> Knowing(r))
    BY <1>9, Still
  <2>3. Conversing'
    BY <1>1, <1>7, <1>9 DEF Conversing
  <2>4. Cl!AnswersThePrompt'
    <3>1. Len(told') = 0
      BY <1>1, <1>9 DEF Conversing
    <3> QED
      BY <3>1 DEF Cl!AnswersThePrompt
  <2> QED
    BY <1>1, <1>4, <1>9, <2>1, <2>2, <2>3, <2>4 DEF CodexKnows
<1>10. CASE Co!Fails /\ UNCHANGED pending
  BY <1>10, CodexEnds, CodexSame DEF Co!Fails, Co!NoCli
<1>11. ASSUME cli' = {r}, UNCHANGED <<session, phase, known, told, thread>>,
              pending' \in Seq(Line), "stopped_early" \in gap
       PROVE  CodexKnows'
  <2>1. Conversing'
    BY <1>1, <1>7, <1>11 DEF Conversing
  <2> QED
    BY <1>1, <1>11, <2>1 DEF CodexKnows
<1>12. CASE /\ line.kind \in {"started", "refused"} /\ line.turn # Turn /\ cli' = {r}
            /\ UNCHANGED <<session, phase, known, token, told, thread, pending>>
  <2>1. ~Awaited(p)
    BY <1>7, <1>12 DEF Awaited, Eof
  <2> QED
    BY <1>1, <1>4, <1>11, <1>12, <2>1
<1>13. CASE /\ line.kind \in Endings \cup {"text"} /\ pending' = Append(pending, line) /\ cli' = {r}
            /\ UNCHANGED <<session, phase, known, token, told, thread>>
  <2>1. ~Awaited(p)
    BY <1>7, <1>13 DEF Awaited, Eof, Endings
  <2>2. pending' \in Seq(Line)
    BY <1>1, <1>7, <1>13
  <2> QED
    BY <1>4, <1>11, <1>13, <2>1, <2>2
<1> QED
  BY <1>8, <1>9, <1>10, <1>12, <1>13

LEMMA CodexStopOpening == CodexKnows /\ Co!StopOpening => CodexKnows'
<1> SUFFICES ASSUME CodexKnows, Co!StopOpening PROVE CodexKnows'
  OBVIOUS
<1>1. /\ Conversing /\ phase # "idle" /\ Cl!Closed /\ "stopped_early" \in gap'
      /\ (cli' = cli \/ cli' = {Sent(Cl!Prompted(Co!The(cli)), "started", Turn)})
      /\ pending' \in Seq(Line) /\ thread' \in BOOLEAN
  BY CodexSame DEF CodexKnows, Co!StopOpening
<1>2. PICK p \in Process : cli = {p}
  BY <1>1, One DEF Conversing
<1>3. PICK a : a = Cl!Prompted(p)
  OBVIOUS
<1>4. a \in Process /\ Turn \in Nat
  BY <1>1, <1>3, PromptedIs, TurnIs DEF Conversing
<1>5. Sent(a, "started", Turn) \in Process
  BY <1>4, Answers
<1>6. cli' = cli \/ cli' = {Sent(a, "started", Turn)}
  BY <1>1, <1>2, <1>3, CodexSame
<1>7. cli' \subseteq Process /\ \A x, y \in cli' : x = y
  BY <1>2, <1>5, <1>6
<1>8. Conversing' /\ phase' = "idle"
  BY <1>1, <1>7, Ended, Closing
<1> QED
  BY <1>1, <1>8 DEF CodexKnows

LEMMA CodexRead == CodexKnows /\ Co!Read => CodexKnows'
<1> SUFFICES ASSUME CodexKnows, Co!Read PROVE CodexKnows'
  OBVIOUS
<1>1. /\ Conversing /\ phase = "streaming" /\ gap' = gap
      /\ pending \in Seq(Line) /\ thread \in BOOLEAN
      /\ pending # <<>> \/ Co!Unread # <<>>
  BY DEF CodexKnows, Co!Read
<1>2. PICK p \in Process : cli = {p}
  BY <1>1, One DEF Conversing
<1>3. /\ Co!The(cli) = p /\ Co!Unread = p.out /\ Co!Rest(p) = Cl!Rest(p)
      /\ "stopped_early" \notin gap =>
           pending = <<>> /\ InOrder(p) /\ (gap = {} => Knowing(p)) /\ Cl!AnswersThePrompt
  BY <1>1, <1>2, CodexSame DEF CodexKnows
<1>4. PICK line : line = Head(pending \o p.out)
  OBVIOUS
<1>5. PICK left : left = IF pending # <<>> THEN cli ELSE {Cl!Rest(p)}
  OBVIOUS
<1>6. PICK kept : kept = IF pending # <<>> THEN Tail(pending) ELSE pending
  OBVIOUS
<1>7. p.out \in Seq(Line) /\ (pending = <<>> => p.out # <<>> /\ line = Head(p.out))
  <2>1. p.out \in Seq(Line)
    BY DEF Process
  <2>2. <<>> \o p.out = p.out
    BY <2>1
  <2> QED
    BY <1>1, <1>3, <1>4, <2>1, <2>2
<1>8. line \in Line
  <2>1. pending \o p.out \in Seq(Line) /\ pending \o p.out # <<>>
    <3>1. pending \o p.out \in Seq(Line) /\ Len(pending \o p.out) = Len(pending) + Len(p.out)
          /\ Len(pending) \in Nat /\ Len(p.out) \in Nat
      BY <1>1, <1>7
    <3>2. Len(pending) # 0 \/ Len(p.out) # 0
      BY <1>1, <1>3, <1>7, EmptySeq
    <3>3. Len(pending \o p.out) # 0
      BY <3>1, <3>2
    <3> QED
      BY <3>1, <3>3, EmptySeq
  <2> QED
    BY <1>4, <2>1, HeadTailProperties
<1>9. /\ kept \in Seq(Line) /\ left \subseteq Process /\ left # {} /\ \A x, y \in left : x = y
      /\ pending = <<>> => kept = <<>> /\ left = {Cl!Rest(p)} /\ Cl!Rest(p) \in Process
  <2>1. pending # <<>> => Tail(pending) \in Seq(Line)
    BY <1>1
  <2>2. pending = <<>> => Cl!Rest(p) \in Process
    BY <1>7, RestIs
  <2> QED
    BY <1>1, <1>2, <1>5, <1>6, <2>1, <2>2
<1>10. \/ /\ line.kind = "text" \/ Co!IsSkipped(line)
          /\ told' = IF line.kind = "text" THEN Append(told, line.turn) ELSE told
          /\ cli' = left /\ pending' = kept
          /\ UNCHANGED <<session, phase, known, token, thread>>
       \/ /\ Co!IsCompletion(line) /\ cli' = left /\ pending' = kept /\ Cl!Closed
          /\ UNCHANGED thread
       \/ Co!GuardDropped(FALSE, left) /\ Cl!Closed
  BY <1>2, <1>3, <1>4, <1>5, <1>6, CodexSame DEF Co!Read
<1>11. PICK r : r = Cl!Rest(p)
  OBVIOUS
<1>12. CASE /\ line.kind = "text" \/ Co!IsSkipped(line)
            /\ told' = IF line.kind = "text" THEN Append(told, line.turn) ELSE told
            /\ cli' = left /\ pending' = kept
            /\ UNCHANGED <<session, phase, known, token, thread>>
  <2>1. Conversing'
    <3>1. told \in Seq(Nat) /\ line.turn \in Nat
      BY <1>1, <1>8 DEF Conversing, Line
    <3>2. told' \in Seq(Nat)
      BY <1>12, <3>1
    <3> QED
      BY <1>1, <1>9, <1>12, <3>2 DEF Conversing
  <2>2. ASSUME "stopped_early" \notin gap
        PROVE  /\ pending' = <<>> /\ cli' = {r} /\ Cl!AnswersThePrompt'
               /\ InOrder(r)' /\ (gap = {} => Knowing(r)')
    <3>1. pending = <<>> /\ p.out # <<>> /\ line = Head(p.out) /\ InOrder(p)
      BY <1>3, <1>7, <2>2
    <3>2. line.kind = "text"
      <4>1. line = p.out[1] /\ Len(p.out) \in Nat \ {0}
        BY <1>7, <3>1, RestIs, EmptySeq
      <4>2. line.kind \in Endings \cup {"text", "eof"}
        BY <3>1, <4>1 DEF InOrder, Eof
      <4> QED
        BY <1>12, <4>2 DEF Co!IsSkipped, Endings
    <3>3. told' = Append(told, Head(p.out).turn) /\ cli' = {r}
      BY <1>9, <1>11, <1>12, <3>1, <3>2
    <3>4. (InOrder(p) => InOrder(r)') /\ (InOrder(p) /\ Knowing(p) => Knowing(r)')
      BY <1>1, <1>2, <1>11, <1>12, <3>1, <3>2, <3>3, ReadText
    <3>5. Cl!AnswersThePrompt'
      BY <1>1, <1>3, <1>12, <2>2, <3>1, <3>2, <3>3, StillAnswers
    <3> QED
      BY <1>3, <1>9, <1>12, <2>2, <3>1, <3>3, <3>4, <3>5
  <2> QED
    BY <1>1, <1>9, <1>12, <2>1, <2>2 DEF CodexKnows
<1>13. CASE /\ Co!IsCompletion(line) /\ cli' = left /\ pending' = kept /\ Cl!Closed
            /\ UNCHANGED thread
  <2>1. Conversing' /\ phase' = "idle" /\ session' = session \o Said
    BY <1>1, <1>9, <1>13, Ended, Closing
  <2>2. ASSUME "stopped_early" \notin gap
        PROVE  /\ pending' = <<>> /\ cli' = {r} /\ Quiet(r) /\ (gap = {} => r.knows = session')
    <3>1. pending = <<>> /\ p.out # <<>> /\ line = Head(p.out) /\ InOrder(p)
      BY <1>3, <1>7, <2>2
    <3>2. Quiet(r) /\ (Knowing(p) => p.knows = session \o Said)
      BY <1>1, <1>11, <1>13, <3>1, ReadsEnd DEF Co!IsCompletion, Endings
    <3>3. r.knows = p.knows
      BY <1>11, <3>1, RestIs
    <3> QED
      BY <1>3, <1>9, <1>11, <1>13, <2>1, <2>2, <3>1, <3>2, <3>3
  <2> QED
    BY <1>1, <1>9, <1>13, <2>1, <2>2 DEF CodexKnows, Cl!AnswersThePrompt
<1>14. CASE Co!GuardDropped(FALSE, left) /\ Cl!Closed
  BY <1>14, CodexEnds DEF Co!GuardDropped, Co!NoCli
<1> QED
  BY <1>10, <1>12, <1>13, <1>14

LEMMA CodexFails ==
  ASSUME CodexKnows, Co!StartFails \/ Co!ReadFails \/ Co!StopStreaming
  PROVE  CodexKnows'
  BY CodexEnds, CodexSame DEF Co!StartFails, Co!ReadFails, Co!StopStreaming, Co!Fails,
     Co!GuardDropped, Co!NoCli

LEMMA CodexOther ==
  ASSUME CodexKnows, Co!OtherModel, UNCHANGED <<phase, known, told, cli, thread, pending>>
  PROVE  CodexKnows'
<1>1. /\ Conversing /\ phase = "idle"
      /\ session' = session \o << <<"user", Turn + 1>>, <<"assistant", Turn + 1>> >>
      /\ gap \subseteq gap' /\ (cli # {} => gap' # {})
  BY CodexSame DEF CodexKnows, Co!OtherModel, Co!NoCli
<1>2. Conversing'
  BY <1>1, Elsewhere
<1> QED
  BY <1>1, <1>2 DEF CodexKnows, Cl!AnswersThePrompt

LEMMA CodexStill ==
  ASSUME CodexKnows, UNCHANGED <<session, phase, known, told, cli, gap, thread, pending>>
  PROVE  CodexKnows'
<1>1. Cl!AnswersThePrompt => Cl!AnswersThePrompt'
  BY DEF Cl!AnswersThePrompt, Cl!Turn
<1> QED
  BY <1>1, Still, StillAwaited DEF CodexKnows, Conversing

(* A CLI's step while its answer to turn/start is unread.                  *)
LEMMA MovedAwaited ==
  ASSUME Conversing, NEW p \in Process, NEW q \in Process, Moved(p, q), Awaited(p)
  PROVE  Awaited(q)
<1>1. PICK a : a = Cl!Rest(p)
  OBVIOUS
<1>2. PICK b : b = Cl!Rest(q)
  OBVIOUS
<1>3. p.out \in Seq(Line) /\ q.out \in Seq(Line) /\ p.out # <<>>
  BY DEF Process, Awaited
<1>4. /\ a \in Process /\ a.knows = p.knows /\ a.busy = p.busy /\ a.out = Tail(p.out)
      /\ Len(a.out) = Len(p.out) - 1 /\ \A i \in 1 .. Len(a.out) : a.out[i] = p.out[i + 1]
  <2>1. a \in Process /\ a.knows = p.knows /\ a.busy = p.busy /\ a.out = Tail(p.out)
    BY <1>1, <1>3, RestIs
  <2>2. /\ Len(Tail(p.out)) = Len(p.out) - 1
        /\ \A i \in 1 .. Len(Tail(p.out)) : Tail(p.out)[i] = p.out[i + 1]
    BY <1>3, RestIs
  <2> QED
    BY <2>1, <2>2
<1>5. ASSUME NEW line \in Line, q.out = Append(p.out, line)
      PROVE  /\ q.out # <<>> /\ q.out[1] = p.out[1]
             /\ b = [knows |-> q.knows, busy |-> q.busy, out |-> Append(a.out, line)]
  <2>1. Len(p.out) \in Nat \ {0}
    BY <1>3, EmptySeq
  <2>2. q.out # <<>> /\ q.out[1] = p.out[1]
    BY <1>3, <1>5, <2>1
  <2>3. Tail(q.out) = Append(a.out, line)
    BY <1>3, <1>4, <1>5, <2>1
  <2>4. b = [q EXCEPT !.out = Append(a.out, line)]
    BY <1>2, <2>3 DEF Cl!Rest
  <2> DEFINE o == Append(a.out, line)
  <2>5. b = [q EXCEPT !.out = o]
    BY <2>4
  <2> HIDE DEF o
  <2>6. b = [knows |-> q.knows, busy |-> q.busy, out |-> o]
    BY <2>5, ProcessExcept
  <2> QED
    BY <2>2, <2>6 DEF o
<1>6. /\ q.busy \subseteq p.busy
      /\ \E line \in Line : q.out = Append(p.out, line)
      /\ Moved(a, b)
  <2>1. CASE \E n \in p.busy :
               /\ <<"assistant", n>> \notin ToSet(p.knows)
               /\ q = [knows |-> Append(p.knows, <<"assistant", n>>), busy |-> p.busy,
                       out |-> Append(p.out, [kind |-> "text", turn |-> n])]
    <3>1. PICK n \in p.busy :
               /\ <<"assistant", n>> \notin ToSet(p.knows)
               /\ q = [knows |-> Append(p.knows, <<"assistant", n>>), busy |-> p.busy,
                       out |-> Append(p.out, [kind |-> "text", turn |-> n])]
      BY <2>1
    <3>2. PICK line : line = [kind |-> "text", turn |-> n]
      OBVIOUS
    <3>3. line \in Line
      BY <3>2 DEF Line, Process
    <3>4. PICK k : k = Append(p.knows, <<"assistant", n>>)
      OBVIOUS
    <3>5. PICK o : o = Append(p.out, line)
      OBVIOUS
    <3>6. q = [knows |-> k, busy |-> p.busy, out |-> o]
      BY <3>1, <3>2, <3>4, <3>5
    <3>7. q.knows = k /\ q.busy = p.busy /\ q.out = o
      BY <3>6
    <3>8. b = [knows |-> k, busy |-> p.busy, out |-> Append(a.out, line)]
      BY <1>5, <3>3, <3>5, <3>7
    <3>9. Moved(a, b)
      BY <1>4, <3>1, <3>2, <3>4, <3>8 DEF Moved
    <3> QED
      BY <3>3, <3>5, <3>7, <3>9
  <2>2. CASE \E n \in p.busy, kind \in Endings :
               q = [knows |-> p.knows, busy |-> p.busy \ {n},
                    out |-> Append(p.out, [kind |-> kind, turn |-> n])]
    <3>1. PICK n \in p.busy, kind \in Endings :
               q = [knows |-> p.knows, busy |-> p.busy \ {n},
                    out |-> Append(p.out, [kind |-> kind, turn |-> n])]
      BY <2>2
    <3>2. PICK line : line = [kind |-> kind, turn |-> n]
      OBVIOUS
    <3>3. line \in Line
      BY <3>2 DEF Line, Process
    <3>4. PICK s : s = p.busy \ {n}
      OBVIOUS
    <3>5. PICK o : o = Append(p.out, line)
      OBVIOUS
    <3>6. q = [knows |-> p.knows, busy |-> s, out |-> o]
      BY <3>1, <3>2, <3>4, <3>5
    <3>7. q.knows = p.knows /\ q.busy = s /\ q.out = o
      BY <3>6
    <3>8. b = [knows |-> p.knows, busy |-> s, out |-> Append(a.out, line)]
      BY <1>5, <3>3, <3>5, <3>7
    <3>9. Moved(a, b)
      BY <1>4, <3>1, <3>2, <3>4, <3>8 DEF Moved
    <3> QED
      BY <3>3, <3>4, <3>5, <3>7, <3>9
  <2>3. CASE /\ \A i \in 1 .. Len(p.out) : p.out[i].kind # "eof"
             /\ q = [knows |-> p.knows, busy |-> {}, out |-> Append(p.out, Eof)]
    <3>1. Eof \in Line
      BY DEF Eof, Line
    <3>2. PICK o : o = Append(p.out, Eof)
      OBVIOUS
    <3>3. q = [knows |-> p.knows, busy |-> {}, out |-> o]
      BY <2>3, <3>2
    <3>4. q.knows = p.knows /\ q.busy = {} /\ q.out = o
      BY <3>3
    <3>5. b = [knows |-> p.knows, busy |-> {}, out |-> Append(a.out, Eof)]
      BY <1>5, <3>1, <3>2, <3>4
    <3>6. \A i \in 1 .. Len(a.out) : a.out[i].kind # "eof"
      <4>1. Len(p.out) \in Nat
        BY <1>3
      <4>2. \A i \in 1 .. Len(a.out) : i + 1 \in 1 .. Len(p.out)
        BY <1>4, <4>1
      <4> QED
        BY <1>4, <2>3, <4>2
    <3>7. Moved(a, b)
      BY <1>4, <3>5, <3>6 DEF Moved
    <3> QED
      BY <3>1, <3>2, <3>4, <3>7
  <2> QED
    BY <2>1, <2>2, <2>3 DEF Moved
<1>7. q.out # <<>> /\ q.out[1] = p.out[1]
  BY <1>5, <1>6
<1>8. (InOrder(a) => InOrder(b)) /\ (InOrder(a) /\ Knowing(a) => Knowing(b))
  BY <1>4, <1>6, MovedKeeps
<1> QED
  BY <1>1, <1>2, <1>6, <1>7, <1>8 DEF Awaited

LEMMA CodexCliMoves ==
  ASSUME CodexKnows, Co!CliMoves, UNCHANGED <<thread, pending>>
  PROVE  CodexKnows'
<1>1. Conversing /\ UNCHANGED <<session, phase, known, told, gap>> /\ cli # {}
  BY DEF CodexKnows, Co!CliMoves, Co!CliSays, Co!CliEnds, Co!CliDies
<1>2. PICK p \in Process : cli = {p}
  BY <1>1, One
<1>3. CliMove(p)
  BY <1>2, CodexMoves
<1>4. Conversing' /\ \E q \in Process : cli' = {q} /\ Moved(p, q)
  BY <1>1, <1>2, <1>3, CliMoved
<1>5. PICK q \in Process : cli' = {q} /\ Moved(p, q)
  BY <1>4
<1>6. /\ Quiet(p) => Quiet(q) /\ q.knows = p.knows
      /\ InOrder(p) => InOrder(q)
      /\ InOrder(p) /\ Knowing(p) => Knowing(q)
  BY <1>1, <1>5, MovedKeeps
<1>7. (InOrder(q)' <=> InOrder(q)) /\ (Knowing(q)' <=> Knowing(q)) /\ (Primed(q)' <=> Primed(q))
  BY <1>1, Still
<1>8. Cl!AnswersThePrompt => Cl!AnswersThePrompt'
  BY <1>1 DEF Cl!AnswersThePrompt, Cl!Turn
<1>9. Quiet(p) /\ Primed(p) => Primed(q)
  BY <1>6 DEF Primed
<1>10. Awaited(p) => Awaited(q)'
  BY <1>1, <1>5, MovedAwaited, StillAwaited
<1>11. ASSUME "stopped_early" \notin gap
       PROVE  /\ phase = "starting" => pending = <<>> /\ ~known /\ Quiet(p) /\ p.knows = <<>>
              /\ phase = "idle" /\ thread =>
                   pending = <<>> /\ Quiet(p) /\ (gap = {} => p.knows = session)
              /\ phase = "sending" => pending = <<>> /\ Quiet(p) /\ (gap = {} => Primed(p))
              /\ phase = "waiting" => pending = <<>> /\ Awaited(p)
              /\ phase = "streaming" => pending = <<>> /\ InOrder(p) /\ (gap = {} => Knowing(p))
              /\ Cl!AnswersThePrompt
  BY <1>2, <1>11 DEF CodexKnows
<1>12. ASSUME "stopped_early" \notin gap
       PROVE  /\ phase' = "starting" =>
                   pending' = <<>> /\ ~known' /\ Quiet(q) /\ q.knows = <<>>
              /\ phase' = "idle" /\ thread' =>
                   pending' = <<>> /\ Quiet(q) /\ (gap' = {} => q.knows = session')
              /\ phase' = "sending" =>
                   pending' = <<>> /\ Quiet(q) /\ (gap' = {} => Primed(q)')
              /\ phase' = "waiting" => pending' = <<>> /\ Awaited(q)'
              /\ phase' = "streaming" =>
                   pending' = <<>> /\ InOrder(q)' /\ (gap' = {} => Knowing(q)')
              /\ Cl!AnswersThePrompt'
  <2>1. phase' = phase /\ known' = known /\ gap' = gap /\ session' = session
        /\ pending' = pending /\ thread' = thread
    BY <1>1
  <2>2. phase = "starting" => pending = <<>> /\ ~known /\ Quiet(q) /\ q.knows = <<>>
    BY <1>6, <1>11, <1>12
  <2>3. phase = "idle" /\ thread =>
          pending = <<>> /\ Quiet(q) /\ (gap = {} => q.knows = session)
    BY <1>6, <1>11, <1>12
  <2>4. phase = "sending" => pending = <<>> /\ Quiet(q) /\ (gap = {} => Primed(q)')
    BY <1>6, <1>7, <1>9, <1>11, <1>12
  <2>5. phase = "waiting" => pending = <<>> /\ Awaited(q)'
    BY <1>10, <1>11, <1>12
  <2>6. phase = "streaming" => pending = <<>> /\ InOrder(q)' /\ (gap = {} => Knowing(q)')
    BY <1>6, <1>7, <1>11, <1>12
  <2>7. Cl!AnswersThePrompt'
    BY <1>8, <1>11, <1>12
  <2> QED
    BY <2>1, <2>2, <2>3, <2>4, <2>5, <2>6, <2>7
<1>13. /\ phase' \in {"idle", "starting", "sending", "waiting", "streaming"}
       /\ pending' \in Seq(Line) /\ thread' \in BOOLEAN /\ (phase' = "starting" => gap' = {})
  BY <1>1 DEF CodexKnows
<1> QED
  BY <1>1, <1>4, <1>5, <1>12, <1>13 DEF CodexKnows

LEMMA CodexStep == CodexKnows /\ [Co!Next]_(Co!vars) => CodexKnows'
<1> SUFFICES ASSUME CodexKnows, [Co!Next]_(Co!vars) PROVE CodexKnows'
  OBVIOUS
<1>1. ASSUME NEW m \in OneModel, Co!Begin(m) \/ Co!SpawnFails(m) PROVE CodexKnows'
  BY <1>1, CodexBegin, CodexSpawnFails
<1>2. CASE /\ Co!OtherModel
           /\ UNCHANGED <<phase, model, known, token, told, cli, thread, pending>>
  BY <1>2, CodexOther
<1>3. CASE /\ Co!Stop
           /\ UNCHANGED <<session, phase, model, known, told, cli, gap, thread, pending>>
  BY <1>3, CodexStill
<1>4. CASE Co!CliMoves /\ UNCHANGED <<thread, pending>>
  BY <1>4, CodexCliMoves
<1>5. CASE Co!Started \/ Co!Send
  BY <1>5, CodexStarted, CodexSend
<1>6. CASE Co!Await \/ Co!StopOpening
  BY <1>6, CodexAwait, CodexStopOpening
<1>7. CASE Co!Read
  BY <1>7, CodexRead
<1>8. CASE Co!StartFails \/ Co!ReadFails \/ Co!StopStreaming
  BY <1>8, CodexFails
<1>9. CASE UNCHANGED Co!vars
  BY <1>9, CodexStill DEF Co!vars
<1> QED
  BY <1>1, <1>2, <1>3, <1>4, <1>5, <1>6, <1>7, <1>8, <1>9 DEF Co!Next
-----------------------------------------------------------------------------
LEMMA VendorInit == MCInit => VendorInv
<1> SUFFICES ASSUME MCInit PROVE VendorInv
  OBVIOUS
<1>1. Cl!Init /\ Co!Init /\ Gr!Init /\ He!Init /\ Cl!InitTurn
  BY DEF MCInit, Cl!Init
<1> QED
  BY <1>1, ClaudeInit, CodexInit, GrokInit, HeadlessInit DEF VendorInv

LEMMA VendorStep == VendorInv /\ [MCNext]_all => VendorInv'
<1> SUFFICES ASSUME VendorInv, [MCNext]_all PROVE VendorInv'
  OBVIOUS
<1> USE DEF VendorInv
<1>1. CASE Claude(Cl!Next)
  BY <1>1, ClaudeStep DEF Claude, Others
<1>2. CASE Codex(Co!Next)
  BY <1>2, CodexStep DEF Codex, Others
<1>3. CASE Grok(Gr!Next)
  BY <1>3, GrokStep DEF Grok, Others
<1>4. CASE Headless(He!Next)
  BY <1>4, HeadlessStep DEF Headless, Others
<1>5. CASE part' = part /\ UNCHANGED <<vendorVars, ownVars>>
  <2>1. UNCHANGED Cl!vars /\ UNCHANGED Co!vars /\ UNCHANGED Gr!vars /\ UNCHANGED He!vars
    BY <1>5 DEF vendorVars, ownVars, Cl!vars, Co!vars, Gr!vars, He!vars
  <2> QED
    BY <1>5, <2>1, ClaudeStep, CodexStep, GrokStep, HeadlessStep
<1>6. CASE Questions(Br!Next) \/ Agent(Next) \/ Keys(Ke!Next) \/ Terminal(Pt!Next)
  <2>1. part' = part /\ UNCHANGED <<vendorVars, ownVars>>
    BY <1>6 DEF Questions, Agent, Keys, Terminal
  <2> QED
    BY <1>5, <2>1
<1>7. CASE UNCHANGED all
  BY <1>5, <1>7 DEF all
<1> QED
  BY <1>1, <1>2, <1>3, <1>4, <1>6, <1>7 DEF MCNext

(* What is known of the process is known of the chat.                      *)
LEMMA KnowingKnows ==
  ASSUME NEW p, cli = {p}, Knowing(p)
  PROVE  /\ Cl!KnowsTheChat /\ Co!KnowsTheChat /\ Gr!KnowsTheChat /\ He!KnowsTheChat
<1>1. p.knows \in {session, Append(session, Answer)}
  BY DEF Knowing
<1>2. Co!Turn = Turn /\ Gr!Turn = Turn /\ He!Turn = Turn
  BY CodexSame, GrokSame, HeadlessSame
<1> QED
  BY <1>1, <1>2, OnlyOne DEF Cl!KnowsTheChat, Co!KnowsTheChat, Gr!KnowsTheChat,
     He!KnowsTheChat, Answer, Turn

LEMMA AnswersSame ==
  /\ Co!AnswersThePrompt <=> Cl!AnswersThePrompt
  /\ Gr!AnswersThePrompt <=> Cl!AnswersThePrompt
  /\ He!AnswersThePrompt <=> Cl!AnswersThePrompt
<1>1. Co!Turn = Cl!Turn /\ Gr!Turn = Cl!Turn /\ He!Turn = Cl!Turn
  BY CodexSame, GrokSame, HeadlessSame DEF Turn
<1> QED
  BY <1>1 DEF Co!AnswersThePrompt, Cl!AnswersThePrompt, Gr!AnswersThePrompt, He!AnswersThePrompt

LEMMA VendorFollows == VendorInv => VendorFollowsChat
<1> SUFFICES ASSUME VendorInv PROVE VendorFollowsChat
  OBVIOUS
<1> USE DEF VendorInv
<1>1. ASSUME Conversing, phase = "streaming" PROVE \E p \in Process : cli = {p}
  BY <1>1, One DEF Conversing
<1>2. ASSUME part = "claude" PROVE Cl!KnowsChat /\ Cl!AnswersPrompt
  <2>1. CASE phase # "streaming"
    BY <2>1 DEF Cl!KnowsChat, Cl!KnowsTheChat, Cl!AnswersPrompt, Cl!AnswersThePrompt
  <2>2. CASE phase = "streaming"
    <3>1. PICK p \in Process : cli = {p}
      BY <1>1, <1>2, <2>2 DEF ClaudeKnows
    <3>2. Knowing(p)
      BY <1>2, <2>2, <3>1 DEF ClaudeKnows
    <3>3. \A i \in 1 .. Len(told) : told[i] = Turn
      <4>1. told = <<>> \/ told = <<Turn>>
        BY <3>2 DEF Knowing
      <4>2. told = <<>> => Len(told) = 0
        OBVIOUS
      <4>3. told = <<Turn>> => Len(told) = 1 /\ told[1] = Turn
        OBVIOUS
      <4> QED
        BY <4>1, <4>2, <4>3
    <3> QED
      BY <3>1, <3>2, <3>3, KnowingKnows
      DEF Cl!KnowsChat, Cl!AnswersPrompt, Cl!AnswersThePrompt, Turn
  <2> QED
    BY <2>1, <2>2
<1>3. ASSUME part = "codex" PROVE Co!KnowsChatButForGaps /\ Co!AnswersPromptButForGaps
  <2>1. gap = {} => Co!KnowsTheChat
    <3>1. SUFFICES ASSUME gap = {}, phase = "streaming" PROVE Co!KnowsTheChat
      BY DEF Co!KnowsTheChat
    <3>2. PICK p \in Process : cli = {p}
      BY <1>1, <1>3, <3>1 DEF CodexKnows
    <3> QED
      BY <1>3, <3>1, <3>2, KnowingKnows DEF CodexKnows
  <2>2. "stopped_early" \notin gap => Co!AnswersThePrompt
    BY <1>3, AnswersSame DEF CodexKnows
  <2> QED
    BY <2>1, <2>2 DEF Co!KnowsChatButForGaps, Co!AnswersPromptButForGaps
<1>4. ASSUME part = "grok" PROVE Gr!KnowsChatButForGaps /\ Gr!AnswersPromptButForGaps
  <2>1. gap = {} => Gr!KnowsTheChat
    <3>1. SUFFICES ASSUME gap = {}, phase = "streaming" PROVE Gr!KnowsTheChat
      BY DEF Gr!KnowsTheChat
    <3>2. PICK p \in Process : cli = {p}
      BY <1>1, <1>4, <3>1 DEF GrokKnows
    <3> QED
      BY <1>4, <3>1, <3>2, KnowingKnows DEF GrokKnows
  <2>2. "stopped_early" \notin gap => Gr!AnswersThePrompt
    BY <1>4, AnswersSame DEF GrokKnows
  <2> QED
    BY <2>1, <2>2 DEF Gr!KnowsChatButForGaps, Gr!AnswersPromptButForGaps
<1>5. ASSUME part = "headless" PROVE He!KnowsChatButForGaps /\ He!AnswersPrompt
  <2>1. gap = {} => He!KnowsTheChat
    <3>1. SUFFICES ASSUME gap = {}, phase = "streaming" PROVE He!KnowsTheChat
      BY DEF He!KnowsTheChat
    <3>2. PICK p \in Process : cli = {p}
      BY <1>1, <1>5, <3>1 DEF HeadlessKnows
    <3> QED
      BY <1>5, <3>1, <3>2, KnowingKnows DEF HeadlessKnows
  <2>2. He!AnswersThePrompt
    BY <1>5, AnswersSame DEF HeadlessKnows
  <2> QED
    BY <2>1, <2>2 DEF He!KnowsChatButForGaps, He!AnswersPrompt
<1> QED
  BY <1>2, <1>3, <1>4, <1>5 DEF VendorFollowsChat

(* However turns were stopped, failed or answered by other models, a       *)
(* vendor's CLI follows the chat, for any number of turns and models and   *)
(* however far it is ahead of rozu.                                        *)
THEOREM VendorFollowsChatAlways == MCSpec => []VendorFollowsChat
<1>1. MCInit => VendorInv
  BY VendorInit
<1>2. VendorInv /\ [MCNext]_all => VendorInv'
  BY VendorStep
<1>3. VendorInv => VendorFollowsChat
  BY VendorFollows
<1> QED
  BY <1>1, <1>2, <1>3, PTL DEF MCSpec
=============================================================================
