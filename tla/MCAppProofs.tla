---------------------------- MODULE MCAppProofs ----------------------------
(***************************************************************************)
(* Proofs about the app: the conversation of AppChat, for any number of    *)
(* prompts and calls, and the parts of MCApp that stand beside it, the     *)
(* activity pill, for any calls that overlap and any dwell, and the        *)
(* window, for any projects, chats and models.  The invariant of each is   *)
(* inductive under its own steps, and the other parts leave its variables  *)
(* alone.                                                                  *)
(***************************************************************************)
EXTENDS MCApp, TLAPS, FiniteSetTheorems, SequenceTheorems

(* The actions of one kind, for the proofs' case splits.                   *)
TurnRuns ==
  \/ ModelTexts \/ ModelCalls \/ ProviderFails
  \/ \E outcome \in {"completed", "max_steps", "cancelled"} : TurnEnd(outcome)
  \/ CallApproved \/ CallCancelled \/ AskAnnounced
  \/ GateAsks \/ AnswerArrives \/ AskCancelled \/ ToolEnds \/ ToolBlocked

-----------------------------------------------------------------------------
(* Deleting a chat.                                                        *)

(* A chat on its way out belongs to no thread, and once its history is     *)
(* deleted its worker has closed and the chat is gone.                     *)
Leaving ==
  /\ chat \in {"forgetting", "closing", "dropped"} => ~open
  /\ disk = "deleted" => chat = "dropped" /\ worker = "closed"

LEMMA InitLeaving == Init => Leaving
  BY DEF Init, Leaving

LEMMA TurnKeepsDisk == TurnRuns => UNCHANGED <<open, chat, disk, writer>> /\ worker # "closed"
  BY DEF TurnRuns, ModelTexts, ModelCalls, ProviderFails, TurnEnd, CallApproved, CallCancelled,
     AskAnnounced, GateAsks, AnswerArrives, AskCancelled, ToolEnds, ToolBlocked, Decided, TurnStep,
     window

LEMMA LeavingStep ==
  ASSUME Leaving, [Next]_vars
  PROVE  Leaving' /\ (disk = "deleted" => disk' = "deleted")
<1> USE DEF Leaving
<1>1. ASSUME NEW wanted \in Selections, SendPrompt(wanted)
      PROVE  Leaving' /\ (disk = "deleted" => disk' = "deleted")
  BY <1>1 DEF SendPrompt, StartChat
<1>2. CASE \/ StartFails \/ Stop \/ Deliver
          \/ \E i \in DOMAIN items, d \in {"allowed", "denied"} : Answer(i, d)
  BY <1>2 DEF StartFails, Stop, Deliver, Answer
<1>3. ASSUME NEW forget \in BOOLEAN, Delete(forget)
      PROVE  Leaving' /\ (disk = "deleted" => disk' = "deleted")
  BY <1>3 DEF Delete
<1>4. CASE ForgetCloses \/ ForgetDeletes
  BY <1>4 DEF ForgetCloses, ForgetDeletes
<1>5. CASE TurnRuns
  BY <1>5, TurnKeepsDisk
<1>6. CASE TakePrompt \/ BuildFails \/ TurnSaved \/ WorkerCloses
  <2>1. worker # "closed" /\ UNCHANGED <<open, chat>> /\ disk' \in {disk, "saved"}
    BY <1>6 DEF TakePrompt, BuildFails, TurnSaved, WorkerCloses, window
  <2> QED
    BY <2>1
<1>8. CASE Relay
  BY <1>8 DEF Relay
<1>7. CASE UNCHANGED vars
  BY <1>7 DEF vars, window
<1> QED
  BY <1>1, <1>2, <1>3, <1>4, <1>5, <1>6, <1>7, <1>8 DEF Next, Window, Provider, TaskStep, TurnRuns

(* Nothing brings a deleted history back (forget in backend.rs), not even  *)
(* the turn that ran while it was deleted.                                 *)
THEOREM DeletedForGood == Spec => DeletedStaysDeleted
<1>1. Leaving /\ [Next]_vars => [disk = "deleted" => disk' = "deleted"]_vars
  BY LeavingStep
<1>2. Leaving /\ [Next]_vars => Leaving'
  BY LeavingStep
<1> QED
  BY InitLeaving, <1>1, <1>2, PTL DEF Spec, DeletedStaysDeleted
-----------------------------------------------------------------------------
(* What a thread shows.                                                    *)

Told == [type : {"text", "started", "pending", "resolved", "approval", "finished", "completed",
                 "max_steps", "cancelled", "failed"},
         id : Nat, outcome : {"ok", "error", "approved", "denied", "expired"}, tool : {"running"}]
AskTold == [type : {"ask"}, ask : Nat, id : Nat]
Prompt == [n : Nat, selection : Selections]
Replies == {"open", "allowed", "denied", "dropped"}
Card == [ask : Nat, call : Nat, answer : {"none", "allowed", "denied", "expired"},
         clicked : BOOLEAN]

ChatTypes ==
  /\ open \in BOOLEAN /\ running \in BOOLEAN /\ listening \in BOOLEAN /\ failed \in BOOLEAN
  /\ chat \in {"none", "live", "forgetting", "closing", "dropped"}
  /\ worker \in {"none", "idle", "model", "call", "gate", "asking", "tool", "drain", "closed"}
  /\ token \in Nat /\ n \in Nat /\ queue \in Seq(Prompt)
  /\ items \in Seq(Card) /\ pending \subseteq [call : Nat, ask : Nat]
  /\ updates \in Seq(Told \cup AskTold) /\ events \in Seq(Told)
  /\ reply \in Seq(Replies)
  /\ call \in [id : Nat, retry : BOOLEAN, said : BOOLEAN]

(* A thread without a chat, one that is gone, and a turn that failed.      *)
Lives ==
  /\ chat = "none" => /\ worker = "none" /\ queue = <<>> /\ updates = <<>> /\ events = <<>>
                      /\ pending = {} /\ items = <<>>
  /\ open /\ chat # "none" => listening
  /\ chat \in {"forgetting", "closing", "dropped"} \/ worker = "closed" => ~open
  /\ failed => worker \in {"idle", "drain", "closed"}

Quiet == updates = <<>> /\ events = <<>>
IsEnd(u) == u.type \in TurnEnds \cup {"failed"}

(* No turn runs but for what its relay or the window has still to hear.    *)
Over == worker \in {"none", "idle"} \/ (worker = "drain" /\ ~failed)

(* A prompt, its turn and the turn's end follow each other: a prompt is    *)
(* sent when the window took the last turn's end, and an end is the last   *)
(* that is told of a turn.                                                 *)
OneTurn ==
  open =>
    /\ ~running => /\ Quiet /\ Over /\ queue = <<>> /\ pending = {} /\ steps = {}
                   /\ \A i \in DOMAIN items : items[i].answer # "none"
    /\ queue # <<>> => Quiet /\ Over /\ running /\ Len(queue) = 1
    /\ \A i \in DOMAIN updates :
         IsEnd(updates[i]) => i = Len(updates) /\ events = <<>> /\ Over /\ queue = <<>>
    /\ \A i \in DOMAIN events : IsEnd(events[i]) => i = Len(events) /\ Over /\ queue = <<>>

(* The feed once the window takes an update, as far as the orb goes.       *)
Takes(f, u) ==
  IF u.type = "ask" THEN f
  ELSE [tracker |-> Applied(f.tracker, u), running |-> IF IsEnd(u) THEN FALSE ELSE f.running]

(* A feed becomes another by a list of updates.                            *)
Becomes(f, us, g) ==
  \E feeds : /\ feeds[0] = f /\ feeds[Len(us)] = g
             /\ \A i \in DOMAIN us : feeds[i] = Takes(feeds[i - 1], us[i])

(* What the orb must come to show.                                         *)
Tool(id) == Activity("running", "Tool", id)
Orb(t, where, id) ==
  /\ DOMAIN t = {"current", "tool", "before_wait", "pending", "denied", "files"}
  /\ t.pending = IF where \in {"gate", "asking"} THEN {id} ELSE {}
  /\ t.tool = IF where \in {"call", "gate", "asking", "tool"} THEN Tool(id) ELSE Idle
  /\ where \in {"gate", "asking"} => t.current = Activity("waiting", "Waiting for approval", id)
  /\ where \in {"call", "tool"} => t.current = Tool(id)
  /\ where \notin {"gate", "asking"} => ~IsWaiting(t)
Works(f, where, id) == f.running = TRUE /\ Orb(f.tracker, where, id)
Rests(f) ==
  /\ f.running = FALSE /\ Orb(f.tracker, "idle", 0)
  /\ f.tracker.current = Idle \/ f.tracker.current.state \in {"done", "error"}

Shown == [tracker |-> tracker, running |-> running]
OrbFits ==
  open => \E f, g : /\ Becomes(Shown, updates, f) /\ Becomes(f, events, g)
                    /\ IF Over /\ queue = <<>> THEN Rests(g) ELSE Works(g, worker, call.id)

(* No card of a call is open or on its way.                                *)
Settled(id) == \A i \in DOMAIN items : items[i].call = id => items[i].answer # "none"
NoCard(id) ==
  Settled(id) /\ \A i \in DOMAIN updates : updates[i].type = "ask" => updates[i].id # id

(* What the relay has still to hear.  A yes settles no card: it was        *)
(* clicked already, and the card of the call's sandbox retry comes later.  *)
Resolves(u, id) == u.type = "resolved" /\ u.id = id
Yes(u) == u.type = "resolved" /\ u.outcome = "approved"
Silent(us, id) == \A i \in DOMAIN us : ~Resolves(us[i], id)
Heard(es, max) ==
  \A i \in DOMAIN es : es[i].id <= max /\ (Yes(es[i]) => NoCard(es[i].id))

(* What the window has still to take.                                      *)
Taken(us, max, asks) ==
  \A i \in DOMAIN us :
    /\ us[i].id <= max /\ (us[i].type = "ask" => us[i].ask <= asks)
    /\ Yes(us[i]) => /\ Settled(us[i].id)
                     /\ \A j \in DOMAIN us : us[j].type = "ask" /\ us[j].id = us[i].id => i < j

(* The question the turn waits for, while it is on its way, while its card *)
(* is open and when it was answered.                                       *)
Ours(u) == u.type = "ask" /\ (u.id = call.id \/ u.ask = Asked)
OnItsWay ==
  /\ reply[Asked] = "open" /\ \A p \in pending : p.ask # Asked
  /\ Settled(call.id)
  /\ \E j \in DOMAIN updates :
       /\ updates[j] = AskUpdate(Asked, call.id)
       /\ \A i \in DOMAIN updates :
            (Ours(updates[i]) => i = j) /\ (Resolves(updates[i], call.id) => i < j)
  /\ Silent(events, call.id)
Open ==
  /\ reply[Asked] = "open" /\ [call |-> call.id, ask |-> Asked] \in pending
  /\ \A p \in pending : p.ask = Asked => p.call = call.id
  /\ \E k \in DOMAIN items :
       /\ items[k].ask = Asked /\ items[k].call = call.id /\ items[k].answer = "none"
       /\ \A i \in DOMAIN items : items[i].call = call.id /\ items[i].answer = "none" => i = k
  /\ \A i \in DOMAIN updates : ~Ours(updates[i])
  /\ Silent(updates, call.id) /\ Silent(events, call.id)
Answered == reply[Asked] \in {"allowed", "denied"} /\ NoCard(call.id)
TurnWaits == OnItsWay \/ Open \/ Answered

Numbered ==
  /\ \A p \in pending : p.ask <= Asked
  /\ \A i \in DOMAIN items : items[i].call <= call.id

CardsFit ==
  /\ CardTruthful
  /\ open =>
       /\ Numbered /\ Heard(events, call.id) /\ Taken(updates, call.id, Asked)
       /\ worker \in {"call", "gate", "tool"} => NoCard(call.id)
       /\ worker \in {"call", "gate"} => Silent(events, call.id)
       /\ worker = "asking" => Asked # 0
       /\ worker = "asking" /\ ~TurnCancelled => TurnWaits

-----------------------------------------------------------------------------
LEMMA InitTypes == Init => ChatTypes /\ Lives /\ OneTurn /\ StopReachesTurn
<1>1. Init => ChatTypes
  <2> SUFFICES ASSUME Init PROVE ChatTypes
    OBVIOUS
  <2>1. queue \in Seq(Prompt) /\ items \in Seq(Card) /\ updates \in Seq(Told \cup AskTold)
        /\ events \in Seq(Told) /\ reply \in Seq(Replies)
    BY DEF Init
  <2>2. call \in [id : Nat, retry : BOOLEAN, said : BOOLEAN] /\ pending = {}
    BY DEF Init, NoCall
  <2> QED
    BY <2>1, <2>2 DEF Init, ChatTypes
<1>2. Init => Lives /\ StopReachesTurn
  BY DEF Init, Lives, StopReachesTurn
<1>3. Init => OneTurn
  BY DEF Init, OneTurn, Quiet, Over
<1> QED
  BY <1>1, <1>2, <1>3

LEMMA EventTold ==
  ASSUME NEW type \in {"text", "started", "pending", "resolved", "approval", "finished",
                       "completed", "max_steps", "cancelled", "failed"},
         NEW id \in Nat, NEW outcome \in {"ok", "error", "approved", "denied", "expired"}
  PROVE  Event(type, id, outcome) \in Told
  BY DEF Event, Told

(* What a sequence of one, two or three events adds to another.            *)
LEMMA Emits ==
  ASSUME NEW S, NEW s \in Seq(S), NEW a \in S
  PROVE  s \o <<a>> = Append(s, a) /\ Append(s, a) \in Seq(S)
  OBVIOUS

LEMMA EmitsMore ==
  ASSUME NEW S, NEW s \in Seq(S), NEW a \in S, NEW b \in S, NEW c \in S
  PROVE  /\ s \o <<a, b>> = Append(Append(s, a), b)
         /\ s \o (<<a, b>> \o <<>>) = Append(Append(s, a), b)
         /\ s \o (<<a, b>> \o <<c>>) = Append(Append(Append(s, a), b), c)
         /\ Append(Append(s, a), b) \in Seq(S) /\ Append(Append(Append(s, a), b), c) \in Seq(S)
  OBVIOUS

(* What holds of each place of a sequence that is computed place by place. *)
LEMMA PlaceByPlace ==
  ASSUME NEW S, NEW T, NEW s \in Seq(S), NEW f, f = [i \in DOMAIN s |-> f[i]],
         \A i \in DOMAIN s : f[i] \in T
  PROVE  f \in Seq(T) /\ Len(f) = Len(s) /\ DOMAIN f = DOMAIN s
<1>1. DOMAIN s = 1..Len(s) /\ Len(s) \in Nat
  OBVIOUS
<1>2. f \in [1..Len(s) -> T]
  BY <1>1
<1> QED
  BY <1>1, <1>2

LEMMA DroppedReplies ==
  ASSUME reply \in Seq(Replies), NEW asks
  PROVE  /\ Dropped(asks) \in Seq(Replies) /\ Len(Dropped(asks)) = Len(reply)
         /\ \A a \in DOMAIN reply :
              Dropped(asks)[a] = IF a \in asks /\ reply[a] = "open" THEN "dropped" ELSE reply[a]
<1>1. \A a \in DOMAIN reply : reply[a] \in Replies
  OBVIOUS
<1>2. \A a \in DOMAIN reply : Dropped(asks)[a] \in Replies
  BY <1>1 DEF Dropped, Replies
<1>3. Dropped(asks) = [a \in DOMAIN reply |-> Dropped(asks)[a]]
  BY DEF Dropped
<1>4. Dropped(asks) \in Seq(Replies) /\ Len(Dropped(asks)) = Len(reply)
  BY <1>2, <1>3, PlaceByPlace
<1> QED
  BY <1>4 DEF Dropped

(* What the cards are after an answer, a resolution and an end.            *)
LEMMA AnsweredCards ==
  ASSUME items \in Seq(Card), NEW i \in DOMAIN items, NEW d \in {"allowed", "denied"}
  PROVE  [items EXCEPT ![i].answer = d, ![i].clicked = TRUE] \in Seq(Card)
<1> DEFINE f == [items EXCEPT ![i].answer = d, ![i].clicked = TRUE]
<1>1. \A k \in DOMAIN items : items[k] \in Card
  OBVIOUS
<1>2. f = [k \in DOMAIN items |-> f[k]]
  OBVIOUS
<1>3. f[i] = [ask |-> items[i].ask, call |-> items[i].call, answer |-> d, clicked |-> TRUE]
  BY <1>1 DEF Card
<1>4. \A k \in DOMAIN items : k # i => f[k] = items[k]
  OBVIOUS
<1>5. \A k \in DOMAIN items : f[k] \in Card
  BY <1>1, <1>3, <1>4 DEF Card
<1> HIDE DEF f
<1>6. f \in Seq(Card)
  BY <1>2, <1>5, PlaceByPlace
<1> QED
  BY <1>6 DEF f

LEMMA ClosedCards ==
  ASSUME items \in Seq(Card), NEW id, NEW d \in {"allowed", "denied", "expired"}
  PROVE  /\ [i \in DOMAIN items |->
               IF items[i].call = id /\ items[i].answer = "none"
               THEN [items[i] EXCEPT !.answer = d] ELSE items[i]] \in Seq(Card)
         /\ [i \in DOMAIN items |->
               IF items[i].answer = "none" THEN [items[i] EXCEPT !.answer = d] ELSE items[i]]
            \in Seq(Card)
<1>1. \A k \in DOMAIN items : items[k] \in Card
  OBVIOUS
<1>2. \A k \in DOMAIN items : [items[k] EXCEPT !.answer = d] \in Card
  BY <1>1 DEF Card
<1> QED
  BY <1>1, <1>2, PlaceByPlace

LEMMA Emitted ==
  ASSUME NEW us \in Seq(Told), NEW type \in {"text", "started", "pending", "resolved", "approval",
                       "finished", "completed", "max_steps", "cancelled", "failed"},
         NEW id \in Nat, NEW outcome \in {"ok", "error", "approved", "denied", "expired"}
  PROVE  us \o <<Event(type, id, outcome)>> \in Seq(Told)
  BY EventTold, Emits


LEMMA Resolution ==
  ASSUME NEW u, FeedApplies(u), u.type = "resolved"
  PROVE  items' = [i \in DOMAIN items |->
                     IF items[i].call = u.id /\ items[i].answer = "none"
                     THEN [items[i] EXCEPT !.answer = Label(u.outcome)] ELSE items[i]]
  BY DEF FeedApplies, TurnEnds

LEMMA TypesStep == ChatTypes /\ [Next]_vars => ChatTypes'
<1> SUFFICES ASSUME ChatTypes, [Next]_vars PROVE ChatTypes'
  OBVIOUS
<1>t. /\ queue \in Seq(Prompt) /\ items \in Seq(Card) /\ updates \in Seq(Told \cup AskTold)
      /\ events \in Seq(Told) /\ reply \in Seq(Replies) /\ call.id \in Nat /\ token \in Nat
      /\ pending \subseteq [call : Nat, ask : Nat]
  BY DEF ChatTypes
<1>u. call = [id |-> call.id, retry |-> call.retry, said |-> call.said]
      /\ call.retry \in BOOLEAN /\ call.said \in BOOLEAN
  BY DEF ChatTypes
<1>1. ASSUME NEW wanted \in Selections, SendPrompt(wanted) PROVE ChatTypes'
  <2>1. [n |-> token + 1, selection |-> wanted] \in Prompt
    BY <1>t DEF Prompt
  <2>2. queue' \in Seq(Prompt)
    BY <1>1, <1>t, <2>1 DEF SendPrompt
  <2>3. \/ listening' = TRUE /\ chat' = "live" /\ worker' = "idle"
        \/ UNCHANGED <<listening, chat, worker>>
    BY <1>1 DEF SendPrompt, StartChat
  <2>4. token' \in Nat /\ running' = TRUE
        /\ UNCHANGED <<open, failed, n, items, pending, updates, events, reply, call>>
    BY <1>1, <1>t DEF SendPrompt, FeedSends, task
  <2> QED
    BY <2>2, <2>3, <2>4 DEF ChatTypes
<1>2. CASE StartFails
  <2>1. items' \in Seq(Card)
    BY <1>2, <1>t, ClosedCards DEF StartFails, FeedEnds
  <2> QED
    <3>0. running' = FALSE
      BY <1>2 DEF StartFails, FeedEnds
    <3>1. running' \in BOOLEAN
      BY <3>0
    <3>3. token' \in Nat
      BY <1>2, <1>t DEF StartFails
    <3>2. UNCHANGED <<open, chat, pending, queue, updates, events, listening, reply, worker, n,
                      failed, call>>
      BY <1>2 DEF StartFails, channels, task
    <3> QED
      BY <1>t, <2>1, <3>1, <3>2, <3>3 DEF ChatTypes
<1>3. CASE Stop \/ ForgetCloses \/ ForgetDeletes \/ UNCHANGED vars
  BY <1>3 DEF Stop, ForgetCloses, ForgetDeletes, CancelNewest, ChatTypes, channels, task, feed, window, vars
<1>4. ASSUME NEW i \in DOMAIN items, NEW d \in {"allowed", "denied"}, Answer(i, d) PROVE ChatTypes'
  <2>1. items' \in Seq(Card) /\ pending' \subseteq [call : Nat, ask : Nat]
    BY <1>4, <1>t, AnsweredCards DEF Answer
  <2>2. \A a \in DOMAIN reply : reply[a] \in Replies
    BY <1>t
  <2>3. reply' = [a \in DOMAIN reply |-> reply'[a]] /\ \A a \in DOMAIN reply : reply'[a] \in Replies
    BY <1>4, <2>2 DEF Answer, Replies
  <2>4. reply' \in Seq(Replies)
    BY <1>t, <2>3, PlaceByPlace
  <2> QED
    BY <1>4, <2>1, <2>4 DEF Answer, ChatTypes, task
<1>5. CASE Deliver
  <2> DEFINE u == Head(updates)
  <2>1. u \in Told \cup AskTold /\ updates' \in Seq(Told \cup AskTold)
    BY <1>5, <1>t DEF Deliver
  <2>2. CASE u.type = "ask"
    <3>1. u \in AskTold
      BY <2>1, <2>2 DEF Told, AskTold
    <3>2. [ask |-> u.ask, call |-> u.id, answer |-> "none", clicked |-> FALSE] \in Card
          /\ [call |-> u.id, ask |-> u.ask] \in [call : Nat, ask : Nat]
      BY <3>1 DEF Card, AskTold
    <3>3. items' \in Seq(Card) /\ pending' \subseteq [call : Nat, ask : Nat]
      <4>1. items' = Append(items, [ask |-> u.ask, call |-> u.id, answer |-> "none", clicked |-> FALSE])
            /\ pending' \subseteq pending \cup {[call |-> u.id, ask |-> u.ask]}
        BY <1>5, <2>2 DEF Deliver
      <4> HIDE DEF u
      <4> QED
        BY <4>1, <1>t, <3>2
    <3>4. reply' \in Seq(Replies)
      BY <1>5, <1>t, <2>2, DroppedReplies DEF Deliver
    <3> QED
      BY <1>5, <2>1, <2>2, <3>3, <3>4 DEF Deliver, ChatTypes, task
  <2>3. CASE u.type # "ask"
    <3>1. items' = items \/ FeedEnds \/ u.type = "resolved"
      BY <1>5, <2>3 DEF Deliver, FeedApplies
    <3>2. items' \in Seq(Card)
      <4>1. CASE items' = items
        BY <4>1, <1>t
      <4>2. CASE FeedEnds
        BY <4>2, <1>t, ClosedCards DEF FeedEnds
      <4>3. CASE u.type = "resolved"
        <5>1. Label(u.outcome) \in {"allowed", "denied", "expired"}
          BY DEF Label
        <5>2. items' = [i \in DOMAIN items |->
                 IF items[i].call = u.id /\ items[i].answer = "none"
                 THEN [items[i] EXCEPT !.answer = Label(u.outcome)] ELSE items[i]]
          BY <1>5, <2>3, <4>3, Resolution DEF Deliver
        <5> HIDE DEF u
        <5> QED
          BY <5>1, <5>2, <1>t, ClosedCards
      <4> QED
        BY <3>1, <4>1, <4>2, <4>3
    <3>3. running' \in BOOLEAN
      BY <1>5, <2>3 DEF Deliver, ChatTypes, FeedApplies, FeedEnds
    <3>4. pending' \subseteq [call : Nat, ask : Nat] /\ reply' \in Seq(Replies)
      BY <1>5, <1>t, <2>3, DroppedReplies DEF Deliver
    <3> QED
      BY <1>5, <2>1, <2>3, <3>2, <3>3, <3>4 DEF Deliver, ChatTypes, task
  <2> QED
    BY <2>2, <2>3
<1>6. ASSUME NEW forget \in BOOLEAN, Delete(forget) PROVE ChatTypes'
  <2>1. reply' \in Seq(Replies) /\ updates' \in Seq(Told \cup AskTold) /\ pending' = {}
        /\ chat' \in {"forgetting", "dropped"}
    BY <1>6, <1>t, DroppedReplies DEF Delete
  <2> QED
    BY <1>6, <2>1 DEF Delete, ChatTypes, feed, task
<1>7. CASE TakePrompt
  <2>1. Head(queue) \in Prompt /\ Tail(queue) \in Seq(Prompt)
    BY <1>7, <1>t DEF TakePrompt
  <2>2. call' \in [id : Nat, retry : BOOLEAN, said : BOOLEAN]
    BY <1>7, <1>t, <1>u DEF TakePrompt
  <2>3. n' \in Nat /\ queue' \in Seq(Prompt)
    BY <1>7, <2>1 DEF TakePrompt, Prompt
  <2> QED
    BY <1>7, <2>2, <2>3 DEF TakePrompt, ChatTypes, window, feed
<1>e. /\ Failed \in Told \cup AskTold
      /\ \A us \in Seq(Told \cup AskTold) : us \o <<Failed>> \in Seq(Told \cup AskTold)
  <2>1. Failed \in Told \cup AskTold
    BY EventTold DEF Failed
  <2> QED
    BY <2>1, Emits
<1>8. CASE BuildFails
  <2>0. queue # <<>>
    BY <1>8 DEF BuildFails
  <2>1. Tail(queue) \in Seq(Prompt)
    BY <1>t, <2>0
  <2>2. updates' \in Seq(Told \cup AskTold)
    BY <1>8, <1>e, <1>t DEF BuildFails, Update
  <2> QED
    BY <1>8, <2>1, <2>2 DEF BuildFails, ChatTypes, window, feed, task
<1>9. CASE TurnSaved
  <2>2. updates' \in Seq(Told \cup AskTold)
    BY <1>9, <1>e, <1>t DEF TurnSaved, Update
  <2> QED
    BY <1>9, <2>2 DEF TurnSaved, ChatTypes, window, feed, task
<1>10. CASE WorkerCloses
  BY <1>10 DEF WorkerCloses, ChatTypes, window, feed, channels, task
<1>11. CASE Relay
  <2>1. Head(events) \in Told \cup AskTold /\ Tail(events) \in Seq(Told)
    BY <1>11, <1>t DEF Relay
  <2>2. updates' \in Seq(Told \cup AskTold)
    BY <1>11, <1>t, <2>1, Emits DEF Relay, Update
  <2> QED
    BY <1>11, <2>1, <2>2 DEF Relay, ChatTypes, feed, task
<1>12. CASE GateAsks
  <2>1. AskUpdate(Len(reply) + 1, call.id) \in Told \cup AskTold
    BY <1>t DEF AskUpdate, AskTold
  <2>2. updates' \in Seq(Told \cup AskTold)
    BY <1>12, <1>t, <2>1, Emits DEF GateAsks, Update
  <2>3. reply' \in Seq(Replies)
    BY <1>12, <1>t DEF GateAsks, Replies
  <2> QED
    BY <1>12, <2>2, <2>3 DEF GateAsks, ChatTypes, TurnStep, window, feed
<1>13. CASE ModelTexts \/ ModelCalls \/ ProviderFails \/ \E o \in TurnEnds : TurnEnd(o)
  <2>1. call' \in [id : Nat, retry : BOOLEAN, said : BOOLEAN] /\ failed' \in BOOLEAN
    <3>1. CASE ModelTexts \/ ProviderFails \/ \E o \in TurnEnds : TurnEnd(o)
      <4>1. call' = call \/ call' = [id |-> call.id, retry |-> call.retry, said |-> TRUE]
        BY <3>1, <1>u DEF ModelTexts, ProviderFails, TurnEnd
      <4>2. failed' \in BOOLEAN
        BY <3>1 DEF ChatTypes, ModelTexts, ProviderFails, TurnEnd
      <4>3. [id |-> call.id, retry |-> call.retry, said |-> TRUE]
              \in [id : Nat, retry : BOOLEAN, said : BOOLEAN]
        BY <1>t, <1>u
      <4> QED
        BY <4>1, <4>2, <4>3 DEF ChatTypes
    <3>2. CASE ModelCalls
      BY <3>2, <1>t DEF ModelCalls, ChatTypes
    <3> QED
      BY <1>13, <3>1, <3>2
  <2>2. events' \in Seq(Told)
    <3>1. CASE ModelTexts
      BY <3>1, <1>t, Emitted DEF ModelTexts, Emit
    <3>2. CASE ModelCalls
      <4>1. call'.id \in Nat
        BY <2>1
      <4> QED
        BY <3>2, <4>1, <1>t, Emitted DEF ModelCalls, Emit
    <3>3. ASSUME NEW o \in TurnEnds, TurnEnd(o) PROVE events' \in Seq(Told)
      BY <3>3, <1>t, Emitted DEF TurnEnd, Emit, TurnEnds
    <3> QED
      BY <1>13, <1>t, <3>1, <3>2, <3>3 DEF ProviderFails
  <2>3. worker' \in {"model", "call", "drain"} /\ UNCHANGED <<updates, reply>> /\ TurnStep
    BY <1>13 DEF ModelTexts, ModelCalls, ProviderFails, TurnEnd
  <2> QED
    BY <2>1, <2>2, <2>3 DEF ChatTypes, TurnStep, window, feed
<1>14. CASE CallApproved \/ CallCancelled \/ AskAnnounced \/ ToolEnds \/ ToolBlocked
  <2>1. events' \in Seq(Told)
    <3>1. CASE CallApproved \/ AskAnnounced \/ ToolBlocked
      BY <3>1, <1>t, Emitted DEF CallApproved, AskAnnounced, ToolBlocked, Emit
    <3>2. CASE ToolEnds
      BY <3>2, <1>t, Emitted DEF ToolEnds, Emit
    <3>3. CASE CallCancelled
      <4> DEFINE a == Event("approval", call.id, "denied")
                 b == Event("finished", call.id, "error")
      <4>1. a \in Told /\ b \in Told /\ events' = events \o <<a, b>>
        BY <3>3, <1>t, EventTold DEF CallCancelled, Emit
      <4> HIDE DEF a, b
      <4> QED
        BY <4>1, <1>t, EmitsMore
    <3> QED
      BY <1>14, <3>1, <3>2, <3>3
  <2>2. call' \in [id : Nat, retry : BOOLEAN, said : BOOLEAN]
    <3>1. call' = call \/ call' = [id |-> call.id, retry |-> TRUE, said |-> call.said]
      BY <1>14, <1>u DEF CallApproved, CallCancelled, AskAnnounced, ToolEnds, ToolBlocked
    <3>2. [id |-> call.id, retry |-> TRUE, said |-> call.said]
            \in [id : Nat, retry : BOOLEAN, said : BOOLEAN]
      BY <1>t, <1>u
    <3> QED
      BY <3>1, <3>2 DEF ChatTypes
  <2>3. worker' \in {"model", "gate", "tool"} /\ UNCHANGED <<updates, reply, failed>> /\ TurnStep
    BY <1>14 DEF CallApproved, CallCancelled, AskAnnounced, ToolEnds, ToolBlocked
  <2> QED
    BY <2>1, <2>2, <2>3 DEF ChatTypes, TurnStep, window, feed
<1>15. ASSUME NEW o \in {"approved", "denied", "expired"}, NEW yes \in BOOLEAN, Decided(o, yes)
       PROVE  ChatTypes'
  <2>1. events' \in Seq(Told)
    <3> DEFINE a == Event("resolved", call.id, o)
               b == Event("approval", call.id, IF yes THEN "approved" ELSE "denied")
               c == Event("finished", call.id, "error")
    <3>1. a \in Told /\ b \in Told /\ c \in Told
      BY <1>t, EventTold
    <3>2. events' = events \o (<<a, b>> \o <<>>) \/ events' = events \o (<<a, b>> \o <<c>>)
      BY <1>15 DEF Decided, Emit
    <3> HIDE DEF a, b, c
    <3>3. /\ events \o (<<a, b>> \o <<>>) \in Seq(Told)
          /\ events \o (<<a, b>> \o <<c>>) \in Seq(Told)
      BY <3>1, <1>t, EmitsMore
    <3> QED
      BY <3>2, <3>3
  <2> QED
    BY <1>15, <2>1 DEF ChatTypes, Decided, TurnStep, window, feed
<1>16. CASE AnswerArrives \/ AskCancelled
  BY <1>15, <1>16 DEF AnswerArrives, AskCancelled
<1> QED
  BY <1>1, <1>2, <1>3, <1>4, <1>5, <1>6, <1>7, <1>8, <1>9, <1>10, <1>11, <1>12, <1>13, <1>14, <1>16
  DEF Next, Window, Provider, TaskStep, TurnEnds

LEMMA LivesStep == ChatTypes /\ Lives /\ [Next]_vars => Lives'
<1> SUFFICES ASSUME ChatTypes, Lives, [Next]_vars PROVE Lives'
  OBVIOUS
<1> USE DEF Lives
<1>1. ASSUME NEW wanted \in Selections, SendPrompt(wanted) PROVE Lives'
  BY <1>1 DEF SendPrompt, StartChat, task
<1>2. CASE StartFails
  <2>1. items' = <<>>
    BY <1>2 DEF StartFails, FeedEnds
  <2>2. UNCHANGED <<open, chat, pending, queue, updates, events, listening, worker, failed>>
    BY <1>2 DEF StartFails, channels, task
  <2> QED
    BY <2>1, <2>2
<1>3. CASE Stop \/ ForgetCloses \/ UNCHANGED vars
  BY <1>3 DEF Stop, ForgetCloses, channels, feed, window, task, vars
<1>4. CASE ForgetDeletes
  BY <1>4 DEF ForgetDeletes, channels, feed, task
<1>5. ASSUME NEW i \in DOMAIN items, NEW d \in {"allowed", "denied"}, Answer(i, d) PROVE Lives'
  <2>1. UNCHANGED <<open, chat, queue, updates, events, listening, worker, failed>> /\ chat # "none"
    BY <1>5 DEF Answer, task
  <2> QED
    BY <2>1
<1>6. CASE Deliver
  BY <1>6 DEF Deliver, task
<1>7. ASSUME NEW forget \in BOOLEAN, Delete(forget) PROVE Lives'
  BY <1>7 DEF Delete, task
<1>8. CASE TakePrompt \/ BuildFails \/ TurnSaved
  <2>1. chat # "none" /\ worker # "closed" /\ worker' \in {"idle", "model"}
        /\ UNCHANGED <<open, chat, listening>> /\ (worker' = "model" => failed' = FALSE)
    BY <1>8 DEF TakePrompt, BuildFails, TurnSaved, window, feed
  <2> QED
    BY <2>1
<1>9. CASE WorkerCloses
  BY <1>9 DEF WorkerCloses, window, feed, channels, task
<1>10. CASE Relay
  BY <1>10 DEF Relay, task
<1>11. CASE TurnRuns
  <2>1. worker \notin {"none", "idle", "drain", "closed"} /\ worker' # "closed"
        /\ UNCHANGED <<open, chat, listening>> /\ (failed' = failed \/ worker' = "drain")
    BY <1>11 DEF TurnRuns, ModelTexts, ModelCalls, ProviderFails, TurnEnd, CallApproved,
       CallCancelled, AskAnnounced, GateAsks, AnswerArrives, AskCancelled, ToolEnds, ToolBlocked,
       Decided, TurnStep, window
  <2> QED
    BY <2>1
<1> QED
  BY <1>1, <1>2, <1>3, <1>4, <1>5, <1>6, <1>7, <1>8, <1>9, <1>10, <1>11
  DEF Next, Window, Provider, TaskStep, TurnRuns

-----------------------------------------------------------------------------
(* One turn after the other.                                               *)
NoEnds(us) == \A i \in DOMAIN us : ~IsEnd(us[i])

LEMMA NoEndsMore ==
  ASSUME NEW S, NEW us \in Seq(S), NoEnds(us), NEW a \in S, ~IsEnd(a)
  PROVE  NoEnds(Append(us, a))
  BY DEF NoEnds

LEMMA EndsAfter ==
  ASSUME NEW S, NEW us \in Seq(S), NoEnds(us), NEW a \in S
  PROVE  \A i \in DOMAIN Append(us, a) :
           IsEnd(Append(us, a)[i]) => i = Len(Append(us, a)) /\ IsEnd(a)
<1>1. \A i \in DOMAIN Append(us, a) : i \in DOMAIN us \/ (i = Len(us) + 1 /\ Append(us, a)[i] = a)
  OBVIOUS
<1>2. \A i \in DOMAIN us : Append(us, a)[i] = us[i] /\ ~IsEnd(us[i])
  BY DEF NoEnds
<1>3. Len(Append(us, a)) = Len(us) + 1
  OBVIOUS
<1> QED
  BY <1>1, <1>2, <1>3

LEMMA EventFields ==
  ASSUME NEW type, NEW id, NEW outcome
  PROVE  /\ Event(type, id, outcome).type = type /\ Event(type, id, outcome).id = id
         /\ Event(type, id, outcome).outcome = outcome /\ Event(type, id, outcome).tool = "running"
  BY DEF Event

(* The events of a step of a turn but its end and its question.            *)
LEMMA TurnTells ==
  ASSUME ChatTypes
  PROVE  /\ ModelTexts => events' = Append(events, Event("text", 0, "ok"))
         /\ ModelCalls => events' = Append(events, Event("started", call.id + 1, "ok"))
         /\ CallApproved => events' = Append(events, Event("approval", call.id, "approved"))
         /\ CallCancelled =>
              events' = Append(Append(events, Event("approval", call.id, "denied")),
                               Event("finished", call.id, "error"))
         /\ AskAnnounced \/ ToolBlocked => events' = Append(events, Event("pending", call.id, "ok"))
         /\ ToolEnds => \E o \in {"ok", "error"} :
                          events' = Append(events, Event("finished", call.id, o))
         /\ \A o \in TurnEnds : TurnEnd(o) => events' = Append(events, Event(o, 0, "ok"))
<1>1. call.id \in Nat /\ events \in Seq(Told)
  BY DEF ChatTypes
<1>2. \A e \in Told : events \o <<e>> = Append(events, e)
  BY <1>1, Emits
<1>3. ModelTexts => events' = Append(events, Event("text", 0, "ok"))
  BY <1>2, EventTold DEF ModelTexts, Emit
<1>4. ModelCalls => events' = Append(events, Event("started", call.id + 1, "ok"))
  BY <1>1, <1>2, EventTold DEF ModelCalls, Emit
<1>5. /\ CallApproved => events' = Append(events, Event("approval", call.id, "approved"))
      /\ AskAnnounced \/ ToolBlocked => events' = Append(events, Event("pending", call.id, "ok"))
  BY <1>1, <1>2, EventTold DEF CallApproved, AskAnnounced, ToolBlocked, Emit
<1>6. CallCancelled =>
        events' = Append(Append(events, Event("approval", call.id, "denied")),
                         Event("finished", call.id, "error"))
  <2> DEFINE a == Event("approval", call.id, "denied")
             b == Event("finished", call.id, "error")
  <2>1. a \in Told /\ b \in Told /\ (CallCancelled => events' = events \o <<a, b>>)
    BY <1>1, EventTold DEF CallCancelled, Emit
  <2> HIDE DEF a, b
  <2>2. events \o <<a, b>> = Append(Append(events, a), b)
    BY <1>1, <2>1, EmitsMore
  <2>3. CallCancelled => events' = Append(Append(events, a), b)
    BY <2>1, <2>2
  <2> QED
    BY <2>3 DEF a, b
<1>7. ToolEnds => \E o \in {"ok", "error"} :
                    events' = Append(events, Event("finished", call.id, o))
  BY <1>1, <1>2, EventTold DEF ToolEnds, Emit
<1>8. \A o \in TurnEnds : TurnEnd(o) => events' = Append(events, Event(o, 0, "ok"))
  BY <1>1, <1>2, EventTold DEF TurnEnd, Emit, TurnEnds
<1> QED
  BY <1>3, <1>4, <1>5, <1>6, <1>7, <1>8

(* And of a decision.                                                      *)
LEMMA DecisionTells ==
  ASSUME ChatTypes, NEW o \in {"approved", "denied", "expired"}, NEW yes \in BOOLEAN,
         Decided(o, yes)
  PROVE  \/ /\ yes /\ worker' = "tool"
            /\ events' = Append(Append(events, Event("resolved", call.id, o)),
                                Event("approval", call.id, "approved"))
         \/ /\ ~yes /\ worker' = "model"
            /\ events' = Append(Append(Append(events, Event("resolved", call.id, o)),
                                       Event("approval", call.id, "denied")),
                                Event("finished", call.id, "error"))
<1> DEFINE a == Event("resolved", call.id, o)
           b == Event("approval", call.id, IF yes THEN "approved" ELSE "denied")
           c == Event("finished", call.id, "error")
<1>1. a \in Told /\ b \in Told /\ c \in Told /\ events \in Seq(Told)
  BY EventTold DEF ChatTypes
<1>2. /\ yes => worker' = "tool" /\ events' = events \o (<<a, b>> \o <<>>)
      /\ ~yes => worker' = "model" /\ events' = events \o (<<a, b>> \o <<c>>)
  BY DEF Decided, Emit
<1> HIDE DEF a, b, c
<1>3. /\ events \o (<<a, b>> \o <<>>) = Append(Append(events, a), b)
      /\ events \o (<<a, b>> \o <<c>>) = Append(Append(Append(events, a), b), c)
  BY <1>1, EmitsMore
<1> QED
  BY <1>2, <1>3 DEF a, b, c

(* A turn tells its end last.                                              *)
LEMMA EndsLast ==
  ASSUME ChatTypes, Lives, TurnRuns, NoEnds(updates), NoEnds(events)
  PROVE  /\ TurnStep /\ ~Over /\ worker \notin {"none", "idle", "closed"} /\ NoEnds(updates')
         /\ worker' \notin {"none", "idle", "closed"}
         /\ \/ ~Over' /\ NoEnds(events')
            \/ /\ Over' /\ updates' = updates
               /\ \A i \in DOMAIN events' : IsEnd(events'[i]) => i = Len(events')
<1>t. call.id \in Nat /\ events \in Seq(Told) /\ updates \in Seq(Told \cup AskTold) /\ Len(reply) \in Nat
  BY DEF ChatTypes
<1>e. \A type \in {"text", "started", "pending", "resolved", "approval", "finished"}, id \in Nat,
        outcome \in {"ok", "error", "approved", "denied", "expired"} :
        Event(type, id, outcome) \in Told /\ ~IsEnd(Event(type, id, outcome))
  BY EventTold, EventFields DEF IsEnd, TurnEnds
<1>m. \A us \in Seq(Told), a \in Told : NoEnds(us) /\ ~IsEnd(a) => Append(us, a) \in Seq(Told) /\ NoEnds(Append(us, a))
  BY NoEndsMore, Emits
<1>1. CASE ModelTexts \/ ModelCalls \/ CallApproved \/ AskAnnounced \/ ToolBlocked \/ ToolEnds
  <2>1. \E a \in Told : ~IsEnd(a) /\ events' = Append(events, a)
    <3>1. CASE ModelTexts \/ ModelCalls
      BY <3>1, <1>t, <1>e, TurnTells
    <3>2. CASE CallApproved \/ AskAnnounced \/ ToolBlocked
      BY <3>2, <1>t, <1>e, TurnTells
    <3>3. CASE ToolEnds
      BY <3>3, <1>t, <1>e, TurnTells
    <3> QED
      BY <1>1, <3>1, <3>2, <3>3
  <2>3. NoEnds(events')
    BY <1>t, <1>m, <2>1
  <2>2. worker' \in {"model", "call", "tool", "gate"} /\ updates' = updates /\ TurnStep
        /\ worker \in {"model", "call", "tool"}
    BY <1>1 DEF ModelTexts, ModelCalls, CallApproved, AskAnnounced, ToolBlocked, ToolEnds
  <2> QED
    BY <2>2, <2>3 DEF Over
<1>2. CASE CallCancelled
  <2>1. NoEnds(events')
    BY <1>2, <1>t, <1>e, <1>m, TurnTells
  <2>2. worker' = "model" /\ worker = "call" /\ updates' = updates /\ TurnStep
    BY <1>2 DEF CallCancelled
  <2> QED
    BY <2>1, <2>2 DEF Over
<1>3. CASE ProviderFails
  BY <1>3 DEF ProviderFails, Over
<1>4. CASE GateAsks
  <2>1. AskUpdate(Len(reply) + 1, call.id) \in Told \cup AskTold
    BY <1>t DEF AskUpdate, AskTold
  <2>2. ~IsEnd(AskUpdate(Len(reply) + 1, call.id))
    BY DEF AskUpdate, IsEnd, TurnEnds
  <2>3. updates' = updates \/ updates' = Append(updates, AskUpdate(Len(reply) + 1, call.id))
    BY <1>4, <1>t, <2>1, Emits DEF GateAsks, Update
  <2>4. NoEnds(updates')
    BY <1>t, <2>1, <2>2, <2>3, NoEndsMore
  <2> QED
    BY <1>4, <2>4 DEF GateAsks, Over
<1>5. ASSUME NEW o \in {"approved", "denied", "expired"}, NEW yes \in BOOLEAN, Decided(o, yes),
             worker \in {"gate", "asking"}
      PROVE  /\ NoEnds(events') /\ worker' \in {"tool", "model"} /\ updates' = updates
             /\ TurnStep
  <2>1. NoEnds(events')
    BY <1>5, <1>t, <1>e, <1>m, DecisionTells
  <2> QED
    BY <1>5, <2>1, DecisionTells DEF Decided
<1>6. CASE AnswerArrives \/ AskCancelled
  <2>1. /\ NoEnds(events') /\ worker' \in {"tool", "model"} /\ updates' = updates
        /\ TurnStep /\ worker \in {"gate", "asking"}
    BY <1>5, <1>6 DEF AnswerArrives, AskCancelled
  <2> QED
    BY <2>1 DEF Over
<1>7. ASSUME NEW o \in TurnEnds, TurnEnd(o)
      PROVE  /\ \A i \in DOMAIN events' : IsEnd(events'[i]) => i = Len(events')
             /\ worker = "model" /\ worker' = "drain" /\ failed' = failed /\ updates' = updates /\ TurnStep
  <2>1. Event(o, 0, "ok") \in Told
    BY EventTold DEF TurnEnds
  <2>2. events' = Append(events, Event(o, 0, "ok"))
    BY <1>7, TurnTells
  <2>3. \A i \in DOMAIN events' : IsEnd(events'[i]) => i = Len(events')
    BY <1>t, <2>1, <2>2 DEF NoEnds
  <2> QED
    BY <1>7, <2>3 DEF TurnEnd
<1> QED
  BY <1>1, <1>2, <1>3, <1>4, <1>6, <1>7 DEF TurnRuns, Over, TurnEnds, Lives

LEMMA EmptyTails ==
  ASSUME NEW S, NEW us \in Seq(S), us # <<>>
  PROVE  /\ Tail(us) \in Seq(S) /\ Len(Tail(us)) = Len(us) - 1 /\ Head(us) = us[1]
         /\ DOMAIN Tail(us) = 1..(Len(us) - 1) /\ DOMAIN us = 1..Len(us) /\ Len(us) \in Nat \ {0}
         /\ \A i \in DOMAIN Tail(us) : Tail(us)[i] = us[i + 1] /\ i + 1 \in DOMAIN us
  OBVIOUS

LEMMA OneTurnStep == ChatTypes /\ Lives /\ OneTurn /\ StopReachesTurn /\ [Next]_vars
                       => OneTurn' /\ StopReachesTurn'
<1> SUFFICES ASSUME ChatTypes, Lives, OneTurn, StopReachesTurn, [Next]_vars
             PROVE  OneTurn' /\ StopReachesTurn'
  OBVIOUS
<1>t. /\ queue \in Seq(Prompt) /\ items \in Seq(Card) /\ updates \in Seq(Told \cup AskTold)
      /\ events \in Seq(Told) /\ token \in Nat
  BY DEF ChatTypes
<1>1. ASSUME NEW wanted \in Selections, SendPrompt(wanted) PROVE OneTurn' /\ StopReachesTurn'
  <2>1. Quiet /\ Over /\ queue = <<>>
    BY <1>1 DEF SendPrompt, OneTurn
  <2>2. queue' = <<[n |-> token + 1, selection |-> wanted]>> /\ token' = token + 1
    BY <1>1, <2>1 DEF SendPrompt
  <2>3. Quiet' /\ Over' /\ running' = TRUE /\ failed' = failed
    BY <1>1, <2>1 DEF SendPrompt, StartChat, FeedSends, Quiet, Over, task
  <2>4. Len(queue') = 1 /\ queue' # <<>> /\ \A i \in DOMAIN queue' : queue'[i].n = token'
    BY <2>2
  <2>5. OneTurn'
    BY <2>3, <2>4 DEF OneTurn, Quiet
  <2>6. worker' \in {"none", "idle", "drain"}
    BY <2>3 DEF Over
  <2> QED
    BY <2>4, <2>5, <2>6 DEF StopReachesTurn
<1>2. CASE StartFails
  <2>1. items = <<>> /\ items' = <<>>
    BY <1>2 DEF StartFails, FeedEnds, Lives
  <2>2. running' = FALSE /\ steps' = {} /\ UNCHANGED <<pending, queue, updates, events, worker, failed, n>>
    BY <1>2 DEF StartFails, FeedEnds, channels, task
  <2>3. pending = {} /\ queue = <<>> /\ updates = <<>> /\ events = <<>> /\ worker = "none"
    BY <1>2 DEF StartFails, Lives
  <2> QED
    BY <2>1, <2>2, <2>3 DEF OneTurn, StopReachesTurn, Quiet, Over
<1>3. CASE Stop \/ ForgetCloses \/ ForgetDeletes \/ UNCHANGED vars
  <2>1. UNCHANGED <<open, token, running, pending, steps, items, queue, updates, events, worker, failed, n>>
    BY <1>3 DEF Stop, ForgetCloses, ForgetDeletes, channels, feed, window, task, vars
  <2> QED
    BY <2>1 DEF OneTurn, StopReachesTurn, Quiet, Over
<1>4. ASSUME NEW i \in DOMAIN items, NEW d \in {"allowed", "denied"}, Answer(i, d)
      PROVE  OneTurn' /\ StopReachesTurn'
  <2>1. running = TRUE
    BY <1>4 DEF Answer, OneTurn, ChatTypes
  <2>2. UNCHANGED <<open, token, running, steps, queue, updates, events, worker, failed, n>>
    BY <1>4 DEF Answer, task
  <2> QED
    BY <2>1, <2>2 DEF OneTurn, StopReachesTurn, Quiet, Over
<1>5. CASE Deliver
  <2> DEFINE u == Head(updates)
  <2>1. /\ open /\ updates # <<>> /\ updates' = Tail(updates) /\ running = TRUE
        /\ UNCHANGED <<open, token, queue, events, worker, failed, n>>
    BY <1>5 DEF Deliver, task, OneTurn, Quiet, ChatTypes
  <2>2. queue = <<>>
    BY <2>1 DEF OneTurn, Quiet
  <2>3. StopReachesTurn'
    BY <2>1 DEF StopReachesTurn
  <2>4. \A i \in DOMAIN updates' :
          IsEnd(updates'[i]) => i = Len(updates') /\ events = <<>> /\ Over
    BY <1>t, <2>1, EmptyTails DEF OneTurn
  <2>5. CASE IsEnd(u)
    <3>1. u.type # "ask" /\ u.type \in TurnEnds \cup {"failed"} /\ u.type # "resolved" 
          /\ u.type # "started" /\ u.type # "finished"
      BY <2>5 DEF IsEnd, TurnEnds
    <3>2. FeedEnds /\ pending' = {}
      BY <1>5, <3>1 DEF Deliver, FeedApplies, Removed
    <3>3. Len(updates) = 1 /\ events = <<>> /\ Over
      <4>1. u = updates[1] /\ 1 \in DOMAIN updates
        BY <1>t, <2>1, EmptyTails
      <4> QED
        BY <2>1, <2>5, <4>1 DEF OneTurn
    <3>4. updates' = <<>>
      BY <1>t, <2>1, <3>3
    <3>5. running' = FALSE /\ steps' = {} /\ \A i \in DOMAIN items' : items'[i].answer # "none"
      <4>1. running' = FALSE /\ steps' = {}
        BY <3>2 DEF FeedEnds
      <4>2. DOMAIN items' = DOMAIN items /\ \A i \in DOMAIN items :
               items'[i] = IF items[i].answer = "none" THEN [items[i] EXCEPT !.answer = "expired"] ELSE items[i]
        BY <3>2 DEF FeedEnds
      <4>3. \A i \in DOMAIN items : items[i] \in Card
        BY <1>t
      <4> QED
        BY <4>1, <4>2, <4>3 DEF Card
    <3> QED
      BY <2>1, <2>2, <2>3, <3>2, <3>3, <3>4, <3>5 DEF OneTurn, Quiet, Over
  <2>6. CASE ~IsEnd(u)
    <3>1. running' = TRUE
      BY <1>5, <2>1, <2>6 DEF Deliver, FeedApplies, IsEnd, TurnEnds
    <3> QED
      BY <2>1, <2>2, <2>3, <2>4, <3>1 DEF OneTurn, Over
  <2> QED
    BY <2>5, <2>6
<1>6. ASSUME NEW forget \in BOOLEAN, Delete(forget) PROVE OneTurn' /\ StopReachesTurn'
  BY <1>6 DEF Delete, OneTurn, StopReachesTurn, task
<1>7. CASE TakePrompt
  <2>1. Head(queue).n = token /\ n' = token /\ token' = token
    BY <1>7, <1>t DEF TakePrompt, StopReachesTurn, window
  <2>2. \A i \in DOMAIN queue' : queue'[i].n = token
    BY <1>7, <1>t, EmptyTails DEF TakePrompt, StopReachesTurn
  <2>3. StopReachesTurn'
    BY <2>1, <2>2 DEF StopReachesTurn
  <2>4. open => Quiet /\ running /\ queue' = <<>>
    BY <1>7, <1>t DEF TakePrompt, OneTurn
  <2>5. open => Quiet' /\ running'
    BY <1>7, <2>4 DEF TakePrompt, Quiet, feed
  <2>6. open' = open
    BY <1>7 DEF TakePrompt, window
  <2> QED
    BY <2>3, <2>4, <2>5, <2>6 DEF OneTurn, Quiet
<1>8. CASE BuildFails
  <2>1. \A i \in DOMAIN queue' : queue'[i].n = token
    BY <1>8, <1>t, EmptyTails DEF BuildFails, StopReachesTurn
  <2>2. StopReachesTurn'
    BY <1>8, <2>1 DEF BuildFails, StopReachesTurn, window, task
  <2>3. UNCHANGED <<open, running, events, worker, failed>>
    BY <1>8 DEF BuildFails, window, feed, task
  <2>4. ASSUME open PROVE OneTurn'
    <3>1. Quiet /\ running /\ Over /\ queue' = <<>>
      BY <1>8, <1>t, <2>4 DEF BuildFails, OneTurn
    <3>2. updates' = <<Failed>> \/ updates' = <<>>
      BY <1>8, <3>1 DEF BuildFails, Update, Quiet
    <3>3. \A i \in DOMAIN updates' : i = Len(updates')
      <4> DEFINE e == Failed
      <4>1. updates' = <<e>> \/ updates' = <<>>
        BY <3>2
      <4> HIDE DEF e
      <4>2. CASE updates' = <<e>>
        BY <4>2
      <4>3. CASE updates' = <<>>
        BY <4>3
      <4> QED
        BY <4>1, <4>2, <4>3
    <3>4. events' = <<>> /\ running' = running /\ Over'
      BY <2>3, <3>1 DEF Quiet, Over
    <3> QED
      BY <3>1, <3>3, <3>4 DEF OneTurn
  <2> QED
    BY <2>2, <2>3, <2>4 DEF OneTurn
<1>9. CASE TurnSaved
  <2>1. /\ UNCHANGED <<open, token, running, events, queue, failed, n>> /\ worker = "drain"
        /\ worker' = "idle" /\ events = <<>> /\ UNCHANGED <<steps, items, pending>>
    BY <1>9 DEF TurnSaved, window, feed, task
  <2>2. StopReachesTurn'
    BY <2>1 DEF StopReachesTurn
  <2>3. CASE failed /\ open
    <3>1. running /\ queue = <<>> /\ NoEnds(updates)
      BY <2>1, <2>3 DEF OneTurn, Over, NoEnds
    <3>2. updates' = updates \/ updates' = Append(updates, Failed)
      <4>1. Failed \in Told \cup AskTold
        BY EventTold DEF Failed
      <4> QED
        BY <1>9, <1>t, <2>3, <4>1, Emits DEF TurnSaved, Update
    <3>3. \A i \in DOMAIN updates' : IsEnd(updates'[i]) => i = Len(updates')
      <4>1. Failed \in Told \cup AskTold
        BY EventTold DEF Failed
      <4>2. NoEnds(updates')
            \/ \A i \in DOMAIN updates' : IsEnd(updates'[i]) => i = Len(updates')
        BY <1>t, <3>1, <3>2, <4>1, EndsAfter
      <4> QED
        BY <4>2 DEF NoEnds
    <3> QED
      BY <2>1, <2>2, <3>1, <3>3 DEF OneTurn, Over
  <2>4. CASE ~failed
    <3>1. updates' = updates
      BY <1>9, <2>4 DEF TurnSaved
    <3> QED
      BY <2>1, <2>2, <2>4, <3>1 DEF OneTurn, Over, Quiet
  <2> QED
    BY <2>1, <2>2, <2>3, <2>4 DEF OneTurn
<1>10. CASE WorkerCloses
  BY <1>10 DEF WorkerCloses, window, feed, channels, task, OneTurn, StopReachesTurn, Quiet, Over, Lives
<1>11. CASE Relay
  <2>1. /\ UNCHANGED <<open, token, running, queue, failed, n, worker, steps, items, pending, listening>>
        /\ events # <<>> /\ events' = Tail(events)
    BY <1>11 DEF Relay, feed, task
  <2>2. StopReachesTurn'
    BY <2>1 DEF StopReachesTurn
  <2>3. CASE open
    <3>1. running /\ queue = <<>>
      BY <2>1, <2>3 DEF OneTurn, Quiet
    <3>2. Head(events) \in Told \cup AskTold
      BY <1>t, <2>1
    <3>3. updates' = Append(updates, Head(events)) \/ updates' = updates
      BY <1>11, <1>t, <3>2, Emits DEF Relay, Update
    <3>4. NoEnds(updates)
      BY <2>1, <2>3 DEF OneTurn, NoEnds
    <3>5. \A i \in DOMAIN events' : IsEnd(events'[i]) => i = Len(events') /\ Over
      BY <1>t, <2>1, <2>3, EmptyTails DEF OneTurn
    <3>6. IsEnd(Head(events)) => events' = <<>> /\ Over
      <4>1. IsEnd(events[1]) => Len(events) = 1 /\ Over
        <5>1. 1 \in DOMAIN events
          BY <1>t, <2>1, EmptyTails
        <5> QED
          BY <2>3, <5>1 DEF OneTurn
      <4> QED
        BY <4>1, <1>t, <2>1, EmptyTails
    <3>7. \A i \in DOMAIN updates' : IsEnd(updates'[i]) => i = Len(updates') /\ events' = <<>> /\ Over
      <4>1. CASE updates' = updates
        BY <3>4, <4>1 DEF NoEnds
      <4>2. CASE updates' = Append(updates, Head(events))
        BY <1>t, <3>2, <3>4, <3>6, <4>2, EndsAfter
      <4> QED
        BY <3>3, <4>1, <4>2
    <3> QED
      BY <2>1, <2>2, <3>1, <3>5, <3>7 DEF OneTurn, Over
  <2> QED
    BY <2>1, <2>2, <2>3 DEF OneTurn
<1>12. CASE TurnRuns
  <2>1. /\ TurnStep /\ worker \notin {"none", "idle", "drain", "closed"}
        /\ worker' \notin {"none", "idle", "closed"} 
    BY <1>12 DEF TurnRuns, ModelTexts, ModelCalls, ProviderFails, TurnEnd, CallApproved,
       CallCancelled, AskAnnounced, GateAsks, AnswerArrives, AskCancelled, ToolEnds, ToolBlocked,
       Decided
  <2>2. UNCHANGED <<open, token, running, queue, n, steps, items, pending>>
    BY <2>1 DEF TurnStep, window, feed
  <2>3. StopReachesTurn'
    BY <2>1, <2>2 DEF StopReachesTurn
  <2>4. CASE open
    <3>1. running /\ queue = <<>> /\ NoEnds(updates) /\ NoEnds(events)
      BY <2>1, <2>4 DEF OneTurn, Over, NoEnds
    <3>2. /\ NoEnds(updates')
          /\ \/ ~Over' /\ NoEnds(events')
             \/ /\ Over'
                /\ \A i \in DOMAIN events' : IsEnd(events'[i]) => i = Len(events')
      BY <1>12, <3>1, EndsLast
    <3> QED
      BY <2>2, <2>3, <3>1, <3>2 DEF OneTurn, NoEnds
  <2> QED
    BY <2>2, <2>3, <2>4 DEF OneTurn
<1> QED
  BY <1>1, <1>2, <1>3, <1>4, <1>5, <1>6, <1>7, <1>8, <1>9, <1>10, <1>11, <1>12
  DEF Next, Window, Provider, TaskStep, TurnRuns

-----------------------------------------------------------------------------
(* What the orb comes to show.                                             *)

LEMMA NothingTaken ==
  ASSUME NEW f
  PROVE  Becomes(f, <<>>, f) /\ \A g : Becomes(f, <<>>, g) => g = f
<1>1. Becomes(f, <<>>, f)
  <2> DEFINE feeds == [k \in {0} |-> f]
  <2>1. feeds[0] = f /\ Len(<<>>) = 0 /\ DOMAIN <<>> = {}
    OBVIOUS
  <2> HIDE DEF feeds
  <2> QED
    BY <2>1 DEF Becomes
<1>2. \A g : Becomes(f, <<>>, g) => g = f
  BY DEF Becomes
<1> QED
  BY <1>1, <1>2

LEMMA LastTaken ==
  ASSUME NEW S, NEW us \in Seq(S), NEW a \in S, NEW f, NEW g, Becomes(f, us, g)
  PROVE  Becomes(f, Append(us, a), Takes(g, a))
<1>1. PICK feeds : /\ feeds[0] = f /\ feeds[Len(us)] = g
                   /\ \A i \in DOMAIN us : feeds[i] = Takes(feeds[i - 1], us[i])
  BY DEF Becomes
<1> DEFINE more == [k \in 0..(Len(us) + 1) |-> IF k = Len(us) + 1 THEN Takes(g, a) ELSE feeds[k]]
           vs == Append(us, a)
<1>2. /\ Len(vs) = Len(us) + 1 /\ Len(us) \in Nat /\ DOMAIN vs = 1..(Len(us) + 1)
      /\ DOMAIN us = 1..Len(us) /\ vs[Len(us) + 1] = a /\ \A i \in 1..Len(us) : vs[i] = us[i]
  OBVIOUS
<1>3. more[0] = f /\ more[Len(vs)] = Takes(g, a) /\ \A k \in 0..Len(us) : more[k] = feeds[k]
  BY <1>1, <1>2
<1> HIDE DEF more, vs
<1>3a. more[Len(us) + 1] = Takes(g, a) /\ more[Len(us)] = g
  <2>1. Len(us) \in 0..Len(us)
    BY <1>2
  <2>2. more[Len(us)] = feeds[Len(us)]
    BY <1>3, <2>1
  <2>3. more[Len(us) + 1] = more[Len(vs)]
    BY <1>2
  <2> QED
    BY <1>1, <1>3, <2>2, <2>3
<1>4. ASSUME NEW i \in DOMAIN vs PROVE more[i] = Takes(more[i - 1], vs[i])
  <2>1. CASE i = Len(us) + 1
    <3>1. i - 1 = Len(us)
      BY <2>1, <1>2
    <3> QED
      BY <1>2, <1>3a, <2>1, <3>1
  <2>2. CASE i \in 1..Len(us)
    <3>1. i \in 0..Len(us) /\ i - 1 \in 0..Len(us) /\ i \in DOMAIN us
      BY <2>2, <1>2
    <3> QED
      BY <1>1, <1>2, <1>3, <2>2, <3>1
  <2> QED
    BY <1>2, <2>1, <2>2
<1>5. Becomes(f, vs, Takes(g, a))
  BY <1>3, <1>4 DEF Becomes
<1> QED
  BY <1>5 DEF vs

LEMMA FirstTaken ==
  ASSUME NEW S, NEW us \in Seq(S), us # <<>>, NEW f, NEW g, Becomes(f, us, g)
  PROVE  Becomes(Takes(f, Head(us)), Tail(us), g)
<1>1. PICK feeds : /\ feeds[0] = f /\ feeds[Len(us)] = g
                   /\ \A i \in DOMAIN us : feeds[i] = Takes(feeds[i - 1], us[i])
  BY DEF Becomes
<1> DEFINE rest == [k \in 0..(Len(us) - 1) |-> feeds[k + 1]]
           vs == Tail(us)
<1>2. /\ Len(vs) = Len(us) - 1 /\ Len(us) \in Nat \ {0} /\ DOMAIN vs = 1..(Len(us) - 1)
      /\ DOMAIN us = 1..Len(us) /\ Head(us) = us[1]
      /\ \A i \in DOMAIN vs : vs[i] = us[i + 1] /\ i + 1 \in DOMAIN us
  BY EmptyTails
<1>3. \A k \in 0..(Len(us) - 1) : rest[k] = feeds[k + 1]
  OBVIOUS
<1> HIDE DEF rest, vs
<1>4. rest[0] = Takes(f, Head(us))
  <2>1. 0 \in 0..(Len(us) - 1) /\ 1 \in DOMAIN us /\ 1 - 1 = 0 /\ 0 + 1 = 1
    BY <1>2
  <2>2. feeds[1] = Takes(feeds[0], us[1])
    BY <1>1, <2>1
  <2> QED
    BY <1>1, <1>2, <1>3, <2>1, <2>2
<1>5. rest[Len(vs)] = g
  <2>1. Len(us) - 1 \in 0..(Len(us) - 1) /\ Len(us) - 1 + 1 = Len(us)
    BY <1>2
  <2> QED
    BY <1>1, <1>2, <1>3, <2>1
<1>6. ASSUME NEW i \in DOMAIN vs PROVE rest[i] = Takes(rest[i - 1], vs[i])
  <2>1. i \in 0..(Len(us) - 1) /\ i - 1 \in 0..(Len(us) - 1) /\ i - 1 + 1 = i /\ i + 1 - 1 = i
    BY <1>2
  <2>2. rest[i] = feeds[i + 1] /\ rest[i - 1] = feeds[i]
    BY <1>3, <2>1
  <2>3. feeds[i + 1] = Takes(feeds[i], us[i + 1])
    BY <1>1, <1>2, <2>1
  <2> QED
    BY <1>2, <2>2, <2>3
<1>7. Becomes(Takes(f, Head(us)), vs, g)
  BY <1>4, <1>5, <1>6 DEF Becomes
<1> QED
  BY <1>7 DEF vs

(* How each event moves the orb on.                                        *)
LEMMA ToolShown ==
  ASSUME NEW id \in Nat
  PROVE  /\ Tool(id) # Idle /\ Tool(id).about = id /\ Tool(id).state = "running"
         /\ Thinking # Idle /\ Thinking.state = "thinking"
         /\ Activity("waiting", "Waiting for approval", id) # Idle
<1>1. /\ Activity("running", "Tool", id) \in Activities
      /\ Activity("thinking", "Thinking", 0) \in Activities
      /\ Activity("waiting", "Waiting for approval", id) \in Activities
  BY DEF Activity, Activities, ActivityStates, Labels
<1>2. Activity("running", "Tool", id).about = id /\ Activity("running", "Tool", id).state = "running"
      /\ Activity("thinking", "Thinking", 0).state = "thinking"
  BY DEF Activity
<1> QED
  BY <1>1, <1>2, IdleAssumption DEF Tool, Thinking

LEMMA OrbTexts ==
  ASSUME NEW t, NEW id \in Nat, NEW where \in {"none", "idle", "drain", "model"},
         Orb(t, where, id)
  PROVE  Orb(Applied(t, Event("text", 0, "ok")), "model", id)
<1> DEFINE e == Event("text", 0, "ok")
<1>1. e.type = "text"
  BY DEF Event
<1>2. DOMAIN t = {"current", "tool", "before_wait", "pending", "denied", "files"}
      /\ t.pending = {} /\ t.tool = Idle /\ ~IsWaiting(t)
  BY DEF Orb
<1> HIDE DEF e
<1>3. Applied(t, e) = t \/ Applied(t, e) = [t EXCEPT !.current = Thinking]
  BY <1>1, <1>2 DEF Applied, Show
<1>4. /\ DOMAIN Applied(t, e) = DOMAIN t /\ Applied(t, e).pending = {}
      /\ Applied(t, e).tool = Idle /\ ~IsWaiting(Applied(t, e))
  BY <1>2, <1>3 DEF IsWaiting, Thinking, Activity
<1> QED
  BY <1>2, <1>4 DEF Orb, e

LEMMA OrbStarts ==
  ASSUME NEW t, NEW id \in Nat, Orb(t, "model", id)
  PROVE  Orb(Applied(t, Event("started", id + 1, "ok")), "call", id + 1)
<1> DEFINE e == Event("started", id + 1, "ok")
<1>1. e.type = "started" /\ e.id = id + 1 /\ e.tool = "running" /\ id + 1 \in Nat
  BY DEF Event
<1>2. DOMAIN t = {"current", "tool", "before_wait", "pending", "denied", "files"} /\ t.pending = {}
  BY DEF Orb
<1>3. ToolActivity(e) = Tool(id + 1)
  BY <1>1 DEF ToolActivity, Tool
<1> HIDE DEF e
<1> DEFINE x == Tool(id + 1)
<1>5. x # Idle /\ x.state = "running"
  BY <1>1, ToolShown
<1>6. x = Tool(id + 1)
  OBVIOUS
<1> HIDE DEF x
<1>4. Applied(t, e) = [t EXCEPT !.tool = x, !.files = @, !.current = x]
  BY <1>1, <1>2, <1>3, <1>6 DEF Applied, Show
<1>7. /\ DOMAIN Applied(t, e) = DOMAIN t /\ Applied(t, e).pending = {}
      /\ Applied(t, e).tool = x /\ Applied(t, e).current = x
  BY <1>2, <1>4
<1>8. ~IsWaiting(Applied(t, e))
  BY <1>5, <1>7 DEF IsWaiting
<1> QED
  BY <1>2, <1>6, <1>7, <1>8 DEF Orb, e

(* A prompt opens over the tool it is for.                                 *)
LEMMA OrbAsks ==
  ASSUME NEW t, NEW id \in Nat, NEW where \in {"call", "tool"}, Orb(t, where, id)
  PROVE  Orb(Applied(t, Event("pending", id, "ok")), "gate", id)
<1> DEFINE e == Event("pending", id, "ok")
<1>1. e.type = "pending" /\ e.id = id
  BY DEF Event
<1>2. DOMAIN t = {"current", "tool", "before_wait", "pending", "denied", "files"} /\ t.pending = {}
      /\ t.tool = Tool(id) /\ Tool(id) # Idle /\ Tool(id).about = id
  BY ToolShown DEF Orb
<1> HIDE DEF e
<1> DEFINE x == Activity("waiting", "Waiting for approval", id)
<1>3. IF t.tool # Idle THEN t.tool.about = id ELSE e.id = id
  BY <1>1, <1>2
<1>4. x = Activity("waiting", "Waiting for approval", IF t.tool # Idle THEN t.tool.about ELSE e.id)
  BY <1>1, <1>2
<1> HIDE DEF x
<1>5. Applied(t, e) = [t EXCEPT !.pending = @ \cup {e.id},
                   !.before_wait = IF IsWaiting(t) THEN @ ELSE t.current,
                   !.current = x]
  BY <1>1, <1>4 DEF Applied
<1>6. /\ DOMAIN Applied(t, e) = DOMAIN t /\ Applied(t, e).pending = {id}
      /\ Applied(t, e).tool = Tool(id) /\ Applied(t, e).current = x
  BY <1>1, <1>2, <1>5
<1> QED
  BY <1>2, <1>6 DEF Orb, e, x

(* The prompt is settled and the tool shows again.                         *)
LEMMA OrbResolves ==
  ASSUME NEW t, NEW id \in Nat, NEW where \in {"gate", "asking"}, Orb(t, where, id),
         NEW outcome
  PROVE  Orb(Applied(t, Event("resolved", id, outcome)), "tool", id)
<1> DEFINE e == Event("resolved", id, outcome)
           u == Denied(t, id, outcome = "denied")
<1>1. e.type = "resolved" /\ e.id = id /\ e.outcome = outcome
  BY DEF Event
<1> HIDE DEF e
<1>2. /\ DOMAIN t = {"current", "tool", "before_wait", "pending", "denied", "files"}
      /\ t.pending = {id} /\ t.tool = Tool(id) /\ Tool(id) # Idle /\ Tool(id).state = "running"
      /\ t.current = Activity("waiting", "Waiting for approval", id)
  BY ToolShown DEF Orb
<1>2a. IsWaiting(t)
  <2>1. Activity("waiting", "Waiting for approval", id).state = "waiting"
    BY DEF Activity
  <2> QED
    BY <1>2, <2>1, ToolShown DEF IsWaiting
<1>3. /\ DOMAIN u = DOMAIN t /\ u.pending = {id} /\ u.tool = Tool(id) /\ u.current = t.current
  BY <1>2 DEF Denied
<1>4. IsWaiting(u)
  BY <1>2a, <1>3 DEF IsWaiting
<1>5. Applied(t, e) = ClosePrompt(u, id)
  BY <1>1 DEF Applied
<1> HIDE DEF u
<1>6. Applied(t, e) = [u EXCEPT !.pending = {}, !.before_wait = Idle, !.current = Tool(id)]
  BY <1>2, <1>3, <1>4, <1>5 DEF ClosePrompt
<1>7. /\ DOMAIN Applied(t, e) = DOMAIN t /\ Applied(t, e).pending = {}
      /\ Applied(t, e).tool = Tool(id) /\ Applied(t, e).current = Tool(id)
  BY <1>2, <1>3, <1>6
<1>8. ~IsWaiting(Applied(t, e))
  BY <1>2, <1>7 DEF IsWaiting
<1> QED
  BY <1>2, <1>7, <1>8 DEF Orb, e

LEMMA OrbDecides ==
  ASSUME NEW t, NEW id \in Nat, NEW where \in {"call", "tool"}, Orb(t, where, id),
         NEW outcome
  PROVE  Orb(Applied(t, Event("approval", id, outcome)), "tool", id)
<1> DEFINE e == Event("approval", id, outcome)
           u == Denied(t, id, outcome = "denied")
<1>1. e.type = "approval" /\ e.id = id /\ e.outcome = outcome
  BY DEF Event
<1> HIDE DEF e
<1>2. /\ DOMAIN t = {"current", "tool", "before_wait", "pending", "denied", "files"}
      /\ t.pending = {} /\ t.tool = Tool(id) /\ t.current = Tool(id) /\ ~IsWaiting(t)
  BY DEF Orb
<1>3. /\ DOMAIN u = DOMAIN t /\ u.pending = {} /\ u.tool = Tool(id) /\ u.current = t.current
  BY <1>2 DEF Denied
<1>5. Applied(t, e) = ClosePrompt(u, id)
  BY <1>1 DEF Applied
<1> HIDE DEF u
<1>6. Applied(t, e) = [u EXCEPT !.pending = u.pending \ {id}]
  BY <1>3, <1>5 DEF ClosePrompt
<1>7. /\ DOMAIN Applied(t, e) = DOMAIN t /\ Applied(t, e).pending = {}
      /\ Applied(t, e).tool = Tool(id) /\ Applied(t, e).current = Tool(id)
  BY <1>2, <1>3, <1>6
<1>8. ~IsWaiting(Applied(t, e))
  BY <1>2, <1>7 DEF IsWaiting
<1> QED
  BY <1>2, <1>7, <1>8 DEF Orb, e

LEMMA OrbFinishes ==
  ASSUME NEW t, NEW id \in Nat, NEW where \in {"call", "tool"}, Orb(t, where, id),
         NEW outcome
  PROVE  Orb(Applied(t, Event("finished", id, outcome)), "model", id)
<1> DEFINE e == Event("finished", id, outcome)
           x == IF e.outcome = "error" /\ e.id \notin t.denied THEN Activity("error", "Tool failed", e.id)
                ELSE Thinking
<1>1. e.type = "finished" /\ e.id = id
  BY DEF Event
<1> HIDE DEF e
<1>2. /\ DOMAIN t = {"current", "tool", "before_wait", "pending", "denied", "files"} /\ t.pending = {}
  BY DEF Orb
<1>3. x.state # "waiting"
  BY <1>1 DEF Activity, Thinking
<1>4. \E d : Applied(t, e) = [t EXCEPT !.tool = Idle, !.denied = d, !.current = x]
  <2> DEFINE d == IF e.outcome = "error" THEN t.denied \ {e.id} ELSE t.denied
  <2>1. [t EXCEPT !.tool = Idle, !.denied = IF e.outcome = "error" THEN @ \ {e.id} ELSE @]
          = [t EXCEPT !.tool = Idle, !.denied = d]
    BY <1>2
  <2>2. Applied(t, e) = Show([t EXCEPT !.tool = Idle, !.denied = d], x)
    BY <1>1, <2>1 DEF Applied
  <2> HIDE DEF d, x
  <2>3. Applied(t, e) = [t EXCEPT !.tool = Idle, !.denied = d, !.current = x]
    BY <1>2, <2>2 DEF Show
  <2> QED
    BY <2>3
<1> HIDE DEF x
<1>7. /\ DOMAIN Applied(t, e) = DOMAIN t /\ Applied(t, e).pending = {}
      /\ Applied(t, e).tool = Idle /\ Applied(t, e).current = x
  BY <1>2, <1>4
<1>8. ~IsWaiting(Applied(t, e))
  BY <1>3, <1>7 DEF IsWaiting
<1> QED
  BY <1>2, <1>7, <1>8 DEF Orb, e

(* A turn's end clears the orb, whatever it showed.                        *)
LEMMA OrbEnds ==
  ASSUME NEW t, NEW id, NEW where, Orb(t, where, id),
         NEW type \in TurnEnds \cup {"failed"}, NEW outcome \in {"ok", "error"}
  PROVE  Rests([tracker |-> Applied(t, Event(type, 0, outcome)), running |-> FALSE])
<1> DEFINE e == Event(type, 0, outcome)
<1>1. e.type = type /\ e.outcome = outcome
  BY DEF Event
<1> HIDE DEF e
<1>2. DOMAIN t = {"current", "tool", "before_wait", "pending", "denied", "files"}
  BY DEF Orb
<1>3. \E x : /\ Applied(t, e) = [EndTurn(t) EXCEPT !.current = x]
             /\ x = Idle \/ x.state \in {"done", "error"}
  <2>1. /\ \A c : Activity("done", "Done", c).state = "done"
        /\ Activity("error", "Step limit reached", 0).state = "error"
        /\ Activity("error", "Request failed", 0).state = "error"
    BY DEF Activity
  <2>2. CASE type = "completed"
    BY <1>1, <2>1, <2>2 DEF Applied
  <2>3. CASE type = "max_steps"
    BY <1>1, <2>1, <2>3 DEF Applied
  <2>4. CASE type = "cancelled"
    BY <1>1, <2>4 DEF Applied
  <2>5. CASE type = "failed"
    BY <1>1, <2>1, <2>5 DEF Applied
  <2> QED
    BY <2>2, <2>3, <2>4, <2>5 DEF TurnEnds
<1>4. PICK x : /\ Applied(t, e) = [EndTurn(t) EXCEPT !.current = x]
               /\ x = Idle \/ x.state \in {"done", "error"}
  BY <1>3
<1>5. /\ DOMAIN Applied(t, e) = DOMAIN t /\ Applied(t, e).pending = {}
      /\ Applied(t, e).tool = Idle /\ Applied(t, e).current = x
  BY <1>2, <1>4 DEF EndTurn
<1>6. ~IsWaiting(Applied(t, e))
  BY <1>4, <1>5 DEF IsWaiting
<1> QED
  BY <1>2, <1>4, <1>5, <1>6 DEF Orb, Rests, e

(* What an event that is told makes of the feed that is to come.           *)
LEMMA TellsOn ==
  ASSUME NEW es \in Seq(Told), NEW f, NEW g, Becomes(f, es, g), NEW e \in Told
  PROVE  /\ Append(es, e) \in Seq(Told)
         /\ g.running = TRUE /\ ~IsEnd(e) =>
              Becomes(f, Append(es, e), [tracker |-> Applied(g.tracker, e), running |-> TRUE])
         /\ IsEnd(e) => Becomes(f, Append(es, e), [tracker |-> Applied(g.tracker, e), running |-> FALSE])
<1>1. e.type # "ask"
  BY DEF Told
<1>2. Becomes(f, Append(es, e), Takes(g, e)) /\ Append(es, e) \in Seq(Told)
  BY LastTaken
<1>3. CASE IsEnd(e)
  BY <1>1, <1>2, <1>3 DEF Takes
<1>4. CASE ~IsEnd(e)
  BY <1>1, <1>2, <1>4 DEF Takes
<1> QED
  BY <1>2, <1>3, <1>4

LEMMA TurnFits ==
  ASSUME ChatTypes, Lives, TurnRuns, ~GateAsks, NEW f, NEW g, Becomes(f, events, g),
         Works(g, worker, call.id)
  PROVE  \E h : Becomes(f, events', h) /\ IF Over' THEN Rests(h) ELSE Works(h, worker', call'.id)
<1>t. call.id \in Nat /\ events \in Seq(Told) /\ call.id + 1 \in Nat
  BY DEF ChatTypes
<1>e. \A type \in {"text", "started", "pending", "resolved", "approval", "finished"}, id \in Nat,
        outcome \in {"ok", "error", "approved", "denied", "expired"} :
        Event(type, id, outcome) \in Told /\ ~IsEnd(Event(type, id, outcome))
  BY EventTold, EventFields DEF IsEnd, TurnEnds
<1>f. g.running = TRUE /\ Orb(g.tracker, worker, call.id)
  BY DEF Works
<1>1. CASE ModelTexts
  <2>1. worker = "model" /\ worker' = "model" /\ call'.id = call.id /\ ~Over'
    BY <1>1 DEF ModelTexts, Over, ChatTypes
  <2> DEFINE e == Event("text", 0, "ok")
             h == [tracker |-> Applied(g.tracker, e), running |-> TRUE]
  <2>2. Becomes(f, events', h)
    <3>1. e \in Told /\ ~IsEnd(e) /\ events' = Append(events, e)
      BY <1>1, <1>t, <1>e, TurnTells
    <3> HIDE DEF e
    <3> QED
      BY <1>t, <1>f, <3>1, TellsOn
  <2>3. Orb(h.tracker, "model", call.id)
    BY <1>t, <1>f, <2>1, OrbTexts
  <2> QED
    BY <2>1, <2>2, <2>3 DEF Works
<1>2. CASE ModelCalls
  <2>1. worker = "model" /\ worker' = "call" /\ call'.id = call.id + 1 /\ ~Over'
    BY <1>2 DEF ModelCalls, Over
  <2> DEFINE e == Event("started", call.id + 1, "ok")
             h == [tracker |-> Applied(g.tracker, e), running |-> TRUE]
  <2>2. Becomes(f, events', h)
    <3>1. e \in Told /\ ~IsEnd(e) /\ events' = Append(events, e)
      BY <1>2, <1>t, <1>e, TurnTells
    <3> HIDE DEF e
    <3> QED
      BY <1>t, <1>f, <3>1, TellsOn
  <2>3. Orb(h.tracker, "call", call.id + 1)
    BY <1>t, <1>f, <2>1, OrbStarts
  <2> QED
    BY <2>1, <2>2, <2>3 DEF Works
<1>3. CASE CallApproved
  <2>1. worker = "call" /\ worker' = "tool" /\ call'.id = call.id /\ ~Over'
    BY <1>3 DEF CallApproved, Over
  <2> DEFINE e == Event("approval", call.id, "approved")
             h == [tracker |-> Applied(g.tracker, e), running |-> TRUE]
  <2>2. Becomes(f, events', h)
    <3>1. e \in Told /\ ~IsEnd(e) /\ events' = Append(events, e)
      BY <1>3, <1>t, <1>e, TurnTells
    <3> HIDE DEF e
    <3> QED
      BY <1>t, <1>f, <3>1, TellsOn
  <2>3. Orb(h.tracker, "tool", call.id)
    BY <1>t, <1>f, <2>1, OrbDecides
  <2> QED
    BY <2>1, <2>2, <2>3 DEF Works
<1>4. CASE AskAnnounced \/ ToolBlocked
  <2>1. worker \in {"call", "tool"} /\ worker' = "gate" /\ call'.id = call.id /\ ~Over'
    BY <1>4 DEF AskAnnounced, ToolBlocked, Over, ChatTypes
  <2> DEFINE e == Event("pending", call.id, "ok")
             h == [tracker |-> Applied(g.tracker, e), running |-> TRUE]
  <2>2. Becomes(f, events', h)
    <3>1. e \in Told /\ ~IsEnd(e) /\ events' = Append(events, e)
      BY <1>4, <1>t, <1>e, TurnTells
    <3> HIDE DEF e
    <3> QED
      BY <1>t, <1>f, <3>1, TellsOn
  <2>3. Orb(h.tracker, "gate", call.id)
    BY <1>t, <1>f, <2>1, OrbAsks
  <2> QED
    BY <2>1, <2>2, <2>3 DEF Works
<1>5. CASE ToolEnds
  <2>1. worker = "tool" /\ worker' = "model" /\ call'.id = call.id /\ ~Over'
    BY <1>5 DEF ToolEnds, Over
  <2>2. PICK o \in {"ok", "error"} : events' = Append(events, Event("finished", call.id, o))
    BY <1>5, TurnTells
  <2> DEFINE e == Event("finished", call.id, o)
             h == [tracker |-> Applied(g.tracker, e), running |-> TRUE]
  <2>3. Becomes(f, events', h)
    BY <1>t, <1>e, <1>f, <2>2, TellsOn
  <2>4. Orb(h.tracker, "model", call.id)
    BY <1>t, <1>f, <2>1, OrbFinishes
  <2> QED
    BY <2>1, <2>3, <2>4 DEF Works
<1>6. CASE CallCancelled
  <2>1. worker = "call" /\ worker' = "model" /\ call'.id = call.id /\ ~Over'
    BY <1>6 DEF CallCancelled, Over
  <2> DEFINE a == Event("approval", call.id, "denied")
             b == Event("finished", call.id, "error")
             h == [tracker |-> Applied(g.tracker, a), running |-> TRUE]
             k == [tracker |-> Applied(h.tracker, b), running |-> TRUE]
  <2>2. Becomes(f, Append(events, a), h) /\ Append(events, a) \in Seq(Told)
    BY <1>t, <1>e, <1>f, TellsOn
  <2>3. Orb(h.tracker, "tool", call.id) /\ h.running = TRUE
    BY <1>t, <1>f, <2>1, OrbDecides
  <2>5. Orb(k.tracker, "model", call.id)
    BY <1>t, <2>3, OrbFinishes
  <2> HIDE DEF a, h
  <2>4. Becomes(f, Append(Append(events, a), b), k)
    BY <1>t, <1>e, <2>2, <2>3, TellsOn
  <2>6. Becomes(f, events', k)
    BY <1>6, <2>4, TurnTells DEF a
  <2> QED
    BY <2>1, <2>5, <2>6 DEF Works
<1>7. ASSUME NEW o \in {"approved", "denied", "expired"}, NEW yes \in BOOLEAN, Decided(o, yes),
             worker \in {"gate", "asking"}
      PROVE  \E h : Becomes(f, events', h) /\ IF Over' THEN Rests(h) ELSE Works(h, worker', call'.id)
  <2>1. worker' \in {"tool", "model"} /\ ~Over' /\ call' = call
    BY <1>7 DEF Decided, Over
  <2> DEFINE a == Event("resolved", call.id, o)
             b == Event("approval", call.id, IF yes THEN "approved" ELSE "denied")
             c == Event("finished", call.id, "error")
             h == [tracker |-> Applied(g.tracker, a), running |-> TRUE]
             k == [tracker |-> Applied(h.tracker, b), running |-> TRUE]
             l == [tracker |-> Applied(k.tracker, c), running |-> TRUE]
  <2>2. Becomes(f, Append(events, a), h) /\ Append(events, a) \in Seq(Told)
    BY <1>t, <1>e, <1>f, TellsOn
  <2>3. Orb(h.tracker, "tool", call.id) /\ h.running = TRUE
    BY <1>t, <1>f, <1>7, OrbResolves
  <2>4. Orb(k.tracker, "tool", call.id) /\ k.running = TRUE
    BY <1>t, <2>3, OrbDecides
  <2>5. Orb(l.tracker, "model", call.id) /\ l.running = TRUE
    BY <1>t, <2>4, OrbFinishes
  <2>d. \/ yes /\ worker' = "tool" /\ events' = Append(Append(events, a), b)
        \/ ~yes /\ worker' = "model" /\ events' = Append(Append(Append(events, a), b), c)
    BY <1>7, DecisionTells
  <2> HIDE DEF a, h
  <2>6. Becomes(f, Append(Append(events, a), b), k) /\ Append(Append(events, a), b) \in Seq(Told)
    BY <1>t, <1>e, <2>2, <2>3, TellsOn
  <2> HIDE DEF b, k
  <2>7. Becomes(f, Append(Append(Append(events, a), b), c), l)
    BY <1>t, <1>e, <2>4, <2>6, TellsOn
  <2> HIDE DEF c, l
  <2>8. CASE yes
    BY <2>1, <2>4, <2>6, <2>8, <2>d DEF Works
  <2>9. CASE ~yes
    BY <2>1, <2>5, <2>7, <2>9, <2>d DEF Works
  <2> QED
    BY <2>8, <2>9
<1>8. CASE AnswerArrives \/ AskCancelled
  BY <1>7, <1>8 DEF AnswerArrives, AskCancelled
<1>9. ASSUME NEW o \in TurnEnds, TurnEnd(o)
      PROVE  \E h : Becomes(f, events', h) /\ IF Over' THEN Rests(h) ELSE Works(h, worker', call'.id)
  <2>1. worker = "model" /\ worker' = "drain" /\ call' = call /\ Over' /\ Over' \in BOOLEAN
    BY <1>9 DEF TurnEnd, Over, Lives
  <2> DEFINE e == Event(o, 0, "ok")
             h == [tracker |-> Applied(g.tracker, e), running |-> FALSE]
  <2>e. e \in Told /\ IsEnd(e)
    BY EventTold, EventFields DEF TurnEnds, IsEnd
  <2>2. Becomes(f, events', h)
    BY <1>9, <1>t, <1>f, <2>e, TurnTells, TellsOn
  <2>3. Rests(h)
    BY <1>t, <1>f, <2>1, OrbEnds
  <2> QED
    BY <2>1, <2>2, <2>3 DEF Works
<1>10. CASE ProviderFails
  <2>1. worker = "model" /\ worker' = "drain" /\ failed' = TRUE /\ call' = call /\ events' = events
        /\ ~Over'
    BY <1>10 DEF ProviderFails, Over
  <2>2. Orb(g.tracker, "drain", call.id)
    BY <1>f, <2>1 DEF Orb
  <2> QED
    BY <1>f, <2>1, <2>2 DEF Works
<1> QED
  BY <1>1, <1>2, <1>3, <1>4, <1>5, <1>6, <1>8, <1>9, <1>10 DEF TurnRuns, TurnEnds

LEMMA OrbFitsStep ==
  ASSUME ChatTypes, Lives, OneTurn, OrbFits, [Next]_vars
  PROVE  OrbFits'
<1>t. /\ queue \in Seq(Prompt) /\ updates \in Seq(Told \cup AskTold) /\ events \in Seq(Told)
      /\ call.id \in Nat /\ Len(reply) \in Nat
  BY DEF ChatTypes
<1>e. Failed \in Told /\ IsEnd(Failed) /\ Failed \in Told \cup AskTold
  BY EventTold, EventFields DEF Failed, IsEnd
<1>0. open' => open
  BY DEF Next, Window, Provider, TaskStep, vars, window, SendPrompt, StartFails, Stop, Answer,
     Deliver, Delete, TakePrompt, BuildFails, ModelTexts, ModelCalls, ProviderFails, TurnEnd,
     CallApproved, CallCancelled, AskAnnounced, GateAsks, AnswerArrives, AskCancelled, ToolEnds,
     ToolBlocked, Decided, TurnStep, Relay, TurnSaved, WorkerCloses, ForgetCloses, ForgetDeletes
<1> SUFFICES ASSUME open, open' PROVE OrbFits'
  BY <1>0 DEF OrbFits
<1>p. PICK f, g : /\ Becomes(Shown, updates, f) /\ Becomes(f, events, g)
                  /\ IF Over /\ queue = <<>> THEN Rests(g) ELSE Works(g, worker, call.id)
  BY DEF OrbFits
<1>q. Quiet => f = Shown /\ g = Shown
  <2> SUFFICES ASSUME Quiet PROVE f = Shown /\ g = f
    OBVIOUS
  <2>1. Becomes(Shown, <<>>, f) /\ Becomes(f, <<>>, g)
    BY <1>p DEF Quiet
  <2> QED
    BY <2>1, NothingTaken
<1>s. /\ Quiet' /\ (IF Over' /\ queue' = <<>> THEN Rests(Shown') ELSE Works(Shown', worker', call'.id))
           => OrbFits'
  <2>1. Becomes(Shown', <<>>, Shown')
    BY NothingTaken
  <2> QED
    BY <2>1 DEF OrbFits, Quiet
<1>r. UNCHANGED <<tracker, running>> => Shown' = Shown
  BY DEF Shown
<1>1. ASSUME NEW wanted \in Selections, SendPrompt(wanted) PROVE OrbFits'
  <2>1. Quiet /\ Over /\ queue = <<>>
    BY <1>1 DEF SendPrompt, OneTurn
  <2>2. Quiet' /\ queue' # <<>> /\ running' = TRUE /\ call' = call
        /\ tracker' = Applied(tracker, Event("text", 0, "ok"))
    BY <1>1, <1>t, <2>1 DEF SendPrompt, FeedSends, Quiet, task
  <2>3. worker' \in {"none", "idle", "drain"}
    BY <1>1, <2>1 DEF SendPrompt, StartChat, Over
  <2>4. Orb(tracker, "idle", 0)
    BY <1>p, <1>q, <2>1 DEF Rests, Shown
  <2>5. Orb(tracker', "model", 0)
    BY <2>2, <2>4, OrbTexts
  <2>6. Orb(tracker', worker', call'.id)
    BY <2>3, <2>5 DEF Orb
  <2> QED
    BY <1>s, <2>2, <2>6 DEF Works, Shown
<1>2. CASE StartFails
  <2>1. /\ chat = "none" /\ UNCHANGED <<worker, queue, updates, events>> /\ running' = FALSE
        /\ tracker' = Applied(tracker, Failed)
    BY <1>2 DEF StartFails, channels, FeedEnds
  <2>2. Quiet /\ Over /\ queue = <<>> /\ worker = "none"
    BY <2>1 DEF Lives, Quiet, Over
  <2>3. Orb(tracker, "idle", 0)
    BY <1>p, <1>q, <2>2 DEF Rests, Shown
  <2>4. Rests([tracker |-> Applied(tracker, Failed), running |-> FALSE])
    BY <2>3, OrbEnds DEF Failed
  <2> QED
    BY <1>s, <2>1, <2>2, <2>4 DEF Shown, Over, Quiet
<1>3. CASE UNCHANGED <<tracker, running, updates, events, worker, queue, call, failed>>
  BY <1>3, <1>p, <1>r DEF OrbFits, Over
<1>4. CASE Stop \/ ForgetCloses \/ ForgetDeletes \/ UNCHANGED vars
  BY <1>3, <1>4 DEF Stop, ForgetCloses, ForgetDeletes, channels, feed, task, window, vars
<1>5. ASSUME NEW i \in DOMAIN items, NEW d \in {"allowed", "denied"}, Answer(i, d) PROVE OrbFits'
  BY <1>3, <1>5 DEF Answer, task
<1>6. CASE Deliver
  <2> DEFINE u == Head(updates)
  <2>1. /\ updates # <<>> /\ updates' = Tail(updates) /\ running = TRUE
        /\ UNCHANGED <<events, worker, queue, call, failed>>
    BY <1>6 DEF Deliver, task, OneTurn, Quiet, ChatTypes
  <2>2. Becomes(Takes(Shown, u), updates', f)
    BY <1>t, <1>p, <2>1, FirstTaken
  <2>3. Shown' = Takes(Shown, u)
    <3>1. CASE u.type = "ask"
      BY <1>6, <1>r, <3>1 DEF Deliver, Takes
    <3>2. CASE u.type # "ask"
      <4>1. tracker' = Applied(tracker, u) /\ running' = IF IsEnd(u) THEN FALSE ELSE running
        BY <1>6, <3>2 DEF Deliver, FeedApplies, FeedEnds, IsEnd, TurnEnds
      <4> QED
        BY <3>2, <4>1 DEF Takes, Shown
    <3> QED
      BY <3>1, <3>2
  <2> QED
    BY <1>p, <2>1, <2>2, <2>3 DEF OrbFits, Over
<1>7. ASSUME NEW forget \in BOOLEAN, Delete(forget) PROVE OrbFits'
  BY <1>7 DEF Delete
<1>8. CASE TakePrompt
  <2>1. /\ worker = "idle" /\ worker' = "model" /\ queue # <<>> /\ ~Over'
        /\ UNCHANGED <<tracker, running, updates, events>>
    BY <1>8 DEF TakePrompt, feed, Over
  <2>2. call'.id = call.id
    BY <1>8 DEF TakePrompt, ChatTypes
  <2>3. Works(g, worker', call'.id)
    BY <1>p, <2>1, <2>2 DEF Works, Orb
  <2> QED
    BY <1>p, <1>r, <2>1, <2>3 DEF OrbFits
<1>9. CASE BuildFails
  <2>1. /\ worker = "idle" /\ queue # <<>> /\ UNCHANGED <<tracker, running, events, worker, failed, listening>>
    BY <1>9 DEF BuildFails, feed, task
  <2>2. Quiet /\ listening /\ Len(queue) = 1
    BY <2>1 DEF OneTurn, Lives
  <2>3. queue' = <<>> /\ Over'
    BY <1>9, <1>t, <2>1, <2>2 DEF BuildFails, Over
  <2>4. Works(Shown, "idle", call.id)
    BY <1>p, <1>q, <2>1, <2>2
  <2>5. updates' = Append(<<>>, Failed) /\ events' = <<>>
    <3>1. <<>> \in Seq(Told)
      OBVIOUS
    <3>2. updates' = <<>> \o <<Failed>>
      BY <1>9, <2>2 DEF BuildFails, Update, Quiet
    <3> QED
      BY <1>e, <2>1, <2>2, <3>1, <3>2, Emits DEF Quiet
  <2>6. <<>> \in Seq(Told) /\ Becomes(Shown, <<>>, Shown)
    BY NothingTaken
  <2> DEFINE h == [tracker |-> Applied(Shown.tracker, Failed), running |-> FALSE]
  <2>7. Becomes(Shown, updates', h)
    BY <1>e, <2>5, <2>6, TellsOn
  <2>8. Rests(h)
    BY <2>4, OrbEnds DEF Works, Failed
  <2>9. Becomes(h, <<>>, h)
    BY NothingTaken
  <2> QED
    BY <1>r, <2>1, <2>3, <2>5, <2>7, <2>8, <2>9 DEF OrbFits
<1>10. CASE TurnSaved
  <2>1. /\ worker = "drain" /\ worker' = "idle" /\ events = <<>> /\ Over'
        /\ UNCHANGED <<tracker, running, queue, events, call>>
    BY <1>10 DEF TurnSaved, feed, task, Over
  <2>2. CASE ~failed
    <3>1. updates' = updates /\ Over
      BY <1>10, <2>1, <2>2 DEF TurnSaved, Over
    <3>2. Works(g, worker, call.id) => Works(g, worker', call'.id)
      BY <2>1 DEF Works, Orb
    <3> QED
      BY <1>p, <1>r, <2>1, <3>1, <3>2 DEF OrbFits
  <2>3. CASE failed
    <3>1. ~Over /\ queue = <<>> /\ listening
      BY <2>1, <2>3 DEF Over, OneTurn, Lives
    <3>2. Works(f, "drain", call.id)
      <4>1. g = f
        BY <1>p, <2>1, NothingTaken
      <4> QED
        BY <1>p, <2>1, <3>1, <4>1
    <3>3. updates' = Append(updates, Failed)
      BY <1>10, <1>t, <1>e, <2>3, <3>1, Emits DEF TurnSaved, Update
    <3> DEFINE h == [tracker |-> Applied(f.tracker, Failed), running |-> FALSE]
    <3>4. Becomes(Shown, updates', h)
      <4>1. Becomes(Shown, Append(updates, Failed), Takes(f, Failed))
        BY <1>t, <1>e, <1>p, LastTaken
      <4>2. Takes(f, Failed) = h
        <5>1. Failed.type # "ask"
          BY EventFields DEF Failed
        <5> QED
          BY <1>e, <5>1 DEF Takes
      <4> QED
        BY <3>3, <4>1, <4>2
    <3>5. Rests(h)
      BY <3>2, OrbEnds DEF Works, Failed
    <3>6. Becomes(h, <<>>, h)
      BY NothingTaken
    <3> QED
      BY <1>r, <2>1, <3>1, <3>4, <3>5, <3>6 DEF OrbFits
  <2> QED
    BY <2>2, <2>3
<1>11. CASE WorkerCloses
  BY <1>11 DEF WorkerCloses, Lives
<1>12. CASE Relay
  <2>1. /\ UNCHANGED <<tracker, running, queue, worker, call, failed>>
        /\ events # <<>> /\ events' = Tail(events) /\ listening
    BY <1>12 DEF Relay, feed, task, Lives
  <2>2. Head(events) \in Told /\ Head(events) \in Told \cup AskTold
    BY <1>t, <2>1
  <2>3. updates' = Append(updates, Head(events))
    BY <1>12, <1>t, <2>1, <2>2, Emits DEF Relay, Update
  <2>4. Becomes(Takes(f, Head(events)), events', g)
    BY <1>t, <1>p, <2>1, FirstTaken
  <2>5. Becomes(Shown, updates', Takes(f, Head(events)))
    BY <1>t, <1>p, <2>2, <2>3, LastTaken
  <2> QED
    BY <1>p, <1>r, <2>1, <2>4, <2>5 DEF OrbFits, Over
<1>13. CASE GateAsks
  <2> DEFINE u == AskUpdate(Len(reply) + 1, call.id)
  <2>1. /\ worker = "gate" /\ worker' = "asking" /\ UNCHANGED <<call, events, tracker, running>>
        /\ ~Over /\ ~Over'
    BY <1>13 DEF GateAsks, TurnStep, feed, Over
  <2>2. u \in Told \cup AskTold /\ u.type = "ask"
    BY <1>t DEF AskUpdate, AskTold
  <2>3. listening
    BY <2>1 DEF Lives
  <2>4. updates' = Append(updates, u)
    BY <1>13, <1>t, <2>2, <2>3, Emits DEF GateAsks, Update
  <2>5. Becomes(Shown, updates', f)
    <3>1. Takes(f, u) = f
      BY <2>2 DEF Takes
    <3> HIDE DEF u
    <3> QED
      BY <1>t, <1>p, <2>2, <2>4, <3>1, LastTaken
  <2>6. Works(g, worker', call'.id)
    BY <1>p, <2>1 DEF Works, Orb
  <2> QED
    BY <1>p, <1>r, <2>1, <2>5, <2>6 DEF OrbFits
<1>14. CASE TurnRuns /\ ~GateAsks
  <2>1. TurnStep /\ updates' = updates /\ worker \notin {"none", "idle", "drain", "closed"}
    BY <1>14 DEF TurnRuns, ModelTexts, ModelCalls, ProviderFails, TurnEnd, CallApproved,
       CallCancelled, AskAnnounced, AnswerArrives, AskCancelled, ToolEnds, ToolBlocked, Decided
  <2>2. UNCHANGED <<queue, tracker, running>> /\ ~Over
    BY <2>1 DEF TurnStep, feed, Over
  <2>3. queue' = <<>>
    BY <2>2 DEF OneTurn
  <2>4. \E h : Becomes(f, events', h) /\ IF Over' THEN Rests(h) ELSE Works(h, worker', call'.id)
    BY <1>p, <1>14, <2>2, TurnFits
  <2> QED
    BY <1>p, <1>r, <2>1, <2>2, <2>3, <2>4 DEF OrbFits
<1> QED
  BY <1>1, <1>2, <1>4, <1>5, <1>6, <1>7, <1>8, <1>9, <1>10, <1>11, <1>12, <1>13, <1>14
  DEF Next, Window, Provider, TaskStep, TurnRuns

-----------------------------------------------------------------------------
(* The cards of a thread.                                                  *)

LEMMA Appended ==
  ASSUME NEW S, NEW us \in Seq(S), NEW a \in S
  PROVE  /\ Len(Append(us, a)) = Len(us) + 1 /\ Len(us) + 1 \in DOMAIN Append(us, a)
         /\ Len(us) \in Nat /\ Append(us, a)[Len(us) + 1] = a
         /\ \A i \in DOMAIN us : i \in DOMAIN Append(us, a) /\ Append(us, a)[i] = us[i]
                                 /\ i \in Nat /\ i < Len(us) + 1
         /\ \A i \in DOMAIN Append(us, a) : i \in DOMAIN us \/ i = Len(us) + 1
  OBVIOUS

LEMMA HeardMore ==
  ASSUME NEW es \in Seq(Told), NEW max \in Nat, Heard(es, max),
         NEW e \in Told, e.id <= max, Yes(e) => NoCard(e.id)
  PROVE  Heard(Append(es, e), max)
  BY Appended DEF Heard

LEMMA SilentMore ==
  ASSUME NEW S, NEW us \in Seq(S), NEW id, Silent(us, id), NEW e \in S, ~Resolves(e, id)
  PROVE  Silent(Append(us, e), id)
  BY Appended DEF Silent

LEMMA CardsTold ==
  ASSUME ChatTypes, CardsFit, open, TurnRuns, ~GateAsks
  PROVE  CardsFit'
<1>t. call.id \in Nat /\ events \in Seq(Told) /\ call.id + 1 \in Nat
  BY DEF ChatTypes
<1>c. /\ Numbered /\ Heard(events, call.id) /\ Taken(updates, call.id, Asked) /\ CardTruthful
      /\ worker \in {"call", "gate", "tool"} => NoCard(call.id)
      /\ worker \in {"call", "gate"} => Silent(events, call.id)
      /\ worker = "asking" /\ ~TurnCancelled => TurnWaits
  BY DEF CardsFit
<1>e. \A type \in {"text", "started", "pending", "approval", "finished", "completed", "max_steps",
                    "cancelled"}, id \in Nat, outcome \in {"ok", "error", "approved", "denied"} :
        /\ Event(type, id, outcome) \in Told /\ Event(type, id, outcome).id = id
        /\ Event(type, id, outcome).type # "resolved"
  BY EventTold, EventFields
<1>n. \A e : e.type # "resolved" => ~Yes(e) /\ \A x : ~Resolves(e, x)
  BY DEF Yes, Resolves
<1>m. \A es \in Seq(Told), max \in Nat, e \in Told :
        Heard(es, max) /\ e.id <= max /\ ~Yes(e) => Heard(Append(es, e), max) /\ Append(es, e) \in Seq(Told)
  BY HeardMore, Emits
<1>i. /\ \A i \in DOMAIN items : items[i].call \in Nat
      /\ \A i \in DOMAIN events : events[i].id \in Nat
  <2>1. /\ \A i \in DOMAIN items : items[i] \in Card
        /\ \A i \in DOMAIN events : events[i] \in Told
    BY DEF ChatTypes
  <2> QED
    BY <2>1 DEF Card, Told
<1>h. ASSUME NEW e \in Told, ~Yes(e), e.id <= call.id, events' = Append(events, e)
      PROVE  Heard(events', call.id)
  BY <1>c, <1>h, <1>m, <1>t
<1>s. TurnStep /\ UNCHANGED <<updates, reply>>
  BY DEF TurnRuns, ModelTexts, ModelCalls, ProviderFails, TurnEnd, CallApproved, CallCancelled,
     AskAnnounced, AnswerArrives, AskCancelled, ToolEnds, ToolBlocked, Decided
<1>u. UNCHANGED <<open, items, pending, updates, reply>>
  BY <1>s DEF TurnStep, window, feed
<1>q. ASSUME Heard(events', call'.id), call'.id \in Nat, call.id <= call'.id, worker' # "asking",
             worker' \in {"call", "gate", "tool"} => NoCard(call'.id),
             worker' \in {"call", "gate"} => Silent(events', call'.id)
      PROVE  CardsFit'
  <2>1. Heard(events, call.id)' /\ (worker \in {"call", "gate", "tool"} => NoCard(call.id))'
    BY <1>q, <1>u DEF Heard, NoCard, Settled
  <2>2. Taken(updates, call.id, Asked)'
    <3>1. \A i \in DOMAIN updates : updates[i].id \in Nat
      BY DEF ChatTypes, Told, AskTold
    <3> QED
      BY <1>c, <1>q, <1>t, <1>u, <3>1 DEF Taken, Settled, Asked
  <2>3. Numbered'
    BY <1>c, <1>i, <1>q, <1>t, <1>u DEF Numbered, Asked
  <2>4. CardTruthful'
    BY <1>c, <1>u DEF CardTruthful
  <2>5. (worker \in {"call", "gate"} => Silent(events, call.id))'
    BY <1>q
  <2> QED
    BY <1>q, <2>1, <2>2, <2>3, <2>4, <2>5 DEF CardsFit
<1>1. CASE ModelTexts
  <2>1. worker' = "model" /\ call'.id = call.id
    BY <1>1 DEF ModelTexts, ChatTypes
  <2> DEFINE e == Event("text", 0, "ok")
  <2>e. e \in Told /\ e.id <= call.id /\ ~Yes(e) /\ ~Resolves(e, call.id) /\ events' = Append(events, e)
    BY <1>1, <1>t, <1>e, <1>n, TurnTells
  <2> HIDE DEF e
  <2>2. Heard(events', call.id)
    BY <1>h, <2>e
  <2> QED
    BY <1>q, <1>t, <2>1, <2>2
<1>2. CASE ModelCalls
  <2>1. worker' = "call" /\ call'.id = call.id + 1
    BY <1>2 DEF ModelCalls
  <2>2. \A i \in DOMAIN events : events[i].id \in Nat /\ events[i].id <= call.id
    BY <1>c, <1>i DEF Heard
  <2>3. Heard(events, call.id + 1) /\ Silent(events, call.id + 1)
    BY <1>c, <1>t, <2>2 DEF Heard, Silent, Resolves
  <2> DEFINE e == Event("started", call.id + 1, "ok")
  <2>e. /\ e \in Told /\ e.id <= call.id + 1 /\ ~Yes(e) /\ ~Resolves(e, call.id + 1)
        /\ events' = Append(events, e)
    <3>1. e \in Told /\ e.id = call.id + 1 /\ e.type # "resolved"
      BY <1>t, <1>e
    <3>2. events' = Append(events, e)
      BY <1>2, TurnTells
    <3> HIDE DEF e
    <3> QED
      BY <1>t, <1>n, <3>1, <3>2
  <2> HIDE DEF e
  <2>4. Heard(events', call.id + 1)
    BY <1>t, <1>m, <2>3, <2>e
  <2>5. Silent(events', call.id + 1)
    BY <1>t, <2>3, <2>e, SilentMore
  <2>6. NoCard(call.id + 1)
    <3>1. \A i \in DOMAIN items : items[i].call \in Nat /\ items[i].call <= call.id
      BY <1>c, <1>i DEF Numbered
    <3>2. \A i \in DOMAIN updates : updates[i].id \in Nat /\ updates[i].id <= call.id
      BY <1>c DEF ChatTypes, Told, AskTold, Taken
    <3> QED
      BY <1>t, <3>1, <3>2 DEF NoCard, Settled
  <2> QED
    BY <1>q, <1>t, <2>1, <2>4, <2>5, <2>6
<1>3. CASE CallApproved
  <2>1. worker' = "tool" /\ worker = "call" /\ call' = call
    BY <1>3 DEF CallApproved
  <2> DEFINE e == Event("approval", call.id, "approved")
  <2>e. e \in Told /\ e.id <= call.id /\ ~Yes(e) /\ ~Resolves(e, call.id) /\ events' = Append(events, e)
    <3>1. e \in Told /\ e.id = call.id /\ e.type # "resolved"
      BY <1>t, <1>e
    <3>2. events' = Append(events, e)
      BY <1>3, TurnTells
    <3> HIDE DEF e
    <3> QED
      BY <1>t, <1>n, <3>1, <3>2
  <2> HIDE DEF e
  <2>2. Heard(events', call.id)
    BY <1>h, <2>e
  <2> QED
    BY <1>c, <1>q, <1>t, <2>1, <2>2
<1>4. CASE AskAnnounced \/ ToolBlocked
  <2>1. worker' = "gate" /\ worker \in {"call", "tool"} /\ call'.id = call.id
    BY <1>4 DEF AskAnnounced, ToolBlocked, ChatTypes
  <2> DEFINE e == Event("pending", call.id, "ok")
  <2>e. e \in Told /\ e.id <= call.id /\ ~Yes(e) /\ ~Resolves(e, call.id) /\ events' = Append(events, e)
    <3>1. e \in Told /\ e.id = call.id /\ e.type # "resolved"
      BY <1>t, <1>e
    <3>2. events' = Append(events, e)
      BY <1>4, TurnTells
    <3> HIDE DEF e
    <3> QED
      BY <1>t, <1>n, <3>1, <3>2
  <2> HIDE DEF e
  <2>2. Heard(events', call.id)
    BY <1>h, <2>e
  <2>3. Silent(events, call.id)
    BY <1>4, <1>c DEF AskAnnounced, ToolBlocked, Silent
  <2>4. Silent(events', call.id)
    BY <1>t, <2>3, <2>e, SilentMore
  <2> QED
    BY <1>c, <1>q, <1>t, <2>1, <2>2, <2>4
<1>5. CASE ToolEnds
  <2>1. worker' = "model" /\ call' = call
    BY <1>5 DEF ToolEnds
  <2>2. PICK o \in {"ok", "error"} : events' = Append(events, Event("finished", call.id, o))
    BY <1>5, TurnTells
  <2> DEFINE e == Event("finished", call.id, o)
  <2>e. e \in Told /\ e.id <= call.id /\ ~Yes(e) /\ events' = Append(events, e)
    BY <1>t, <1>e, <1>n, <2>2
  <2> HIDE DEF e
  <2>3. Heard(events', call.id)
    BY <1>h, <2>e
  <2> QED
    BY <1>q, <1>t, <2>1, <2>3
<1>6. CASE CallCancelled
  <2>1. worker' = "model" /\ call' = call
    BY <1>6 DEF CallCancelled
  <2> DEFINE a == Event("approval", call.id, "denied")
             b == Event("finished", call.id, "error")
  <2>a. a \in Told /\ a.id <= call.id /\ ~Yes(a) /\ events' = Append(Append(events, a), b)
    <3>1. a \in Told /\ a.id = call.id /\ a.type # "resolved"
      BY <1>t, <1>e
    <3>2. events' = Append(Append(events, a), b)
      BY <1>6, TurnTells
    <3> HIDE DEF a, b
    <3> QED
      BY <1>t, <1>n, <3>1, <3>2
  <2>b. b \in Told /\ b.id <= call.id /\ ~Yes(b)
    BY <1>t, <1>e, <1>n
  <2> HIDE DEF a, b
  <2>2. Heard(events', call.id)
    BY <1>t, <1>c, <1>m, <2>a, <2>b
  <2> QED
    BY <1>q, <1>t, <2>1, <2>2
<1>7. ASSUME NEW o \in {"approved", "denied", "expired"}, NEW yes \in BOOLEAN, Decided(o, yes),
             o = "approved" \/ yes => NoCard(call.id)
      PROVE  CardsFit'
  <2>1. worker' \in {"model", "tool"} /\ (worker' = "tool" => yes) /\ call' = call
    BY <1>7, DecisionTells DEF Decided
  <2> DEFINE a == Event("resolved", call.id, o)
  <2>2. a \in Told /\ a.id = call.id /\ (Yes(a) => o = "approved")
    BY <1>t, EventTold, EventFields DEF Yes
  <2>d. \/ events' = Append(Append(events, a), Event("approval", call.id, "approved"))
        \/ events' = Append(Append(Append(events, a), Event("approval", call.id, "denied")),
                            Event("finished", call.id, "error"))
    BY <1>7, DecisionTells
  <2> DEFINE b == Event("approval", call.id, "approved")
             c == Event("approval", call.id, "denied")
             d == Event("finished", call.id, "error")
  <2>b. /\ b \in Told /\ b.id <= call.id /\ ~Yes(b)
        /\ c \in Told /\ c.id <= call.id /\ ~Yes(c)
        /\ d \in Told /\ d.id <= call.id /\ ~Yes(d)
    BY <1>t, <1>e, <1>n
  <2> HIDE DEF a, b, c, d
  <2>3. Heard(Append(events, a), call.id) /\ Append(events, a) \in Seq(Told)
    BY <1>7, <1>t, <1>c, <2>2, HeardMore, Emits
  <2>5. Heard(Append(Append(events, a), b), call.id)
    BY <1>t, <1>m, <2>b, <2>3
  <2>6. Heard(Append(Append(events, a), c), call.id) /\ Append(Append(events, a), c) \in Seq(Told)
    BY <1>t, <1>m, <2>b, <2>3
  <2>7. Heard(Append(Append(Append(events, a), c), d), call.id)
    BY <1>t, <1>m, <2>b, <2>6
  <2>4. Heard(events', call.id)
    BY <2>5, <2>7, <2>d DEF b, c, d
  <2> QED
    BY <1>7, <1>q, <1>t, <2>1, <2>4
<1>8. CASE AskCancelled
  BY <1>7, <1>8 DEF AskCancelled
<1>9. CASE AnswerArrives
  <2>1. Answered
    BY <1>9, <1>c DEF AnswerArrives, TurnWaits, OnItsWay, Open
  <2> QED
    BY <1>7, <1>9, <2>1 DEF AnswerArrives, Answered
<1>10. ASSUME NEW o \in TurnEnds, TurnEnd(o) PROVE CardsFit'
  <2>1. worker' = "drain" /\ call' = call
    BY <1>10 DEF TurnEnd
  <2> DEFINE e == Event(o, 0, "ok")
  <2>e. e \in Told /\ e.id <= call.id /\ ~Yes(e) /\ events' = Append(events, e)
    <3>1. e \in Told /\ e.id = 0 /\ e.type # "resolved"
      BY <1>t, <1>e DEF TurnEnds
    <3>2. events' = Append(events, e)
      BY <1>10, TurnTells
    <3> HIDE DEF e
    <3> QED
      BY <1>t, <1>n, <3>1, <3>2
  <2> HIDE DEF e
  <2>2. Heard(events', call.id)
    BY <1>h, <2>e
  <2> QED
    BY <1>q, <1>t, <2>1, <2>2
<1>11. CASE ProviderFails
  <2>1. worker' = "drain" /\ call' = call /\ events' = events
    BY <1>11 DEF ProviderFails
  <2> QED
    BY <1>c, <1>q, <1>t, <2>1
<1> QED
  BY <1>1, <1>2, <1>3, <1>4, <1>5, <1>6, <1>8, <1>9, <1>10, <1>11 DEF TurnRuns, TurnEnds

(* The gate's question goes behind everything the window has still to take.*)
LEMMA CardsAsked ==
  ASSUME ChatTypes, Lives, CardsFit, open, GateAsks
  PROVE  CardsFit'
<1> DEFINE u == AskUpdate(Len(reply) + 1, call.id)
<1>t. /\ updates \in Seq(Told \cup AskTold) /\ call.id \in Nat /\ Asked \in Nat /\ reply \in Seq(Replies)
  BY DEF ChatTypes, Asked
<1>i. /\ \A i \in DOMAIN updates : updates[i] \in Told \cup AskTold
      /\ \A p \in pending : p.ask \in Nat
  BY DEF ChatTypes
<1>1. /\ worker = "gate" /\ worker' = "asking" /\ UNCHANGED <<open, items, pending, call, events>>
      /\ listening
  BY DEF GateAsks, TurnStep, window, feed, Lives
<1>2. u \in Told \cup AskTold /\ u.type = "ask" /\ u.id = call.id /\ u.ask = Asked + 1
      /\ u = AskUpdate(Asked + 1, call.id)
  BY <1>t DEF AskUpdate, AskTold, Asked
<1>3. updates' = Append(updates, u)
  BY <1>1, <1>2, <1>t, Emits DEF GateAsks, Update
<1>4. reply' = Append(reply, "open") /\ Asked' = Asked + 1 /\ reply'[Asked + 1] = "open"
  BY <1>1, <1>t DEF GateAsks, Asked, Replies
<1> HIDE DEF u
<1>c. /\ Numbered /\ Heard(events, call.id) /\ Taken(updates, call.id, Asked) /\ CardTruthful
      /\ NoCard(call.id) /\ Silent(events, call.id)
  BY <1>1 DEF CardsFit
<1>a. /\ Len(updates) + 1 \in DOMAIN updates' /\ updates'[Len(updates) + 1] = u /\ Len(updates) \in Nat
      /\ \A i \in DOMAIN updates : i \in DOMAIN updates' /\ updates'[i] = updates[i]
                                   /\ i \in Nat /\ i < Len(updates) + 1
      /\ \A i \in DOMAIN updates' : i \in DOMAIN updates \/ i = Len(updates) + 1
  BY <1>t, <1>2, <1>3, Appended
<1>5. Numbered'
  BY <1>c, <1>i, <1>1, <1>t, <1>4 DEF Numbered
<1>6. Heard(events, call.id)'
  <2>1. \A i \in DOMAIN events : Yes(events[i]) => events[i].id # call.id
    BY <1>c DEF Silent, Resolves, Yes
  <2>2. \A id : id # call.id /\ NoCard(id) => NoCard(id)'
    BY <1>a, <1>1, <1>2 DEF NoCard, Settled
  <2> QED
    BY <1>c, <1>1, <2>1, <2>2 DEF Heard
<1>7. Taken(updates, call.id, Asked)'
  <2>1. ASSUME NEW i \in DOMAIN updates'
        PROVE  updates'[i].id <= call.id /\ (updates'[i].type = "ask" => updates'[i].ask <= Asked + 1)
    <3>1. CASE i = Len(updates) + 1
      BY <1>2, <1>a, <1>t, <3>1
    <3>2. CASE i \in DOMAIN updates
      <4>1. updates[i].type = "ask" => updates[i].ask \in Nat
        BY <1>i, <3>2 DEF Told, AskTold
      <4> QED
        BY <1>a, <1>c, <1>t, <3>2, <4>1 DEF Taken
    <3> QED
      BY <1>a, <3>1, <3>2
  <2>2. ASSUME NEW i \in DOMAIN updates', Yes(updates'[i])
        PROVE  /\ Settled(updates'[i].id)
               /\ \A j \in DOMAIN updates' :
                    updates'[j].type = "ask" /\ updates'[j].id = updates'[i].id => i < j
    <3>1. i \in DOMAIN updates /\ updates'[i] = updates[i]
      BY <1>2, <1>a, <2>2 DEF Yes
    <3> QED
      BY <1>a, <1>c, <2>2, <3>1 DEF Taken
  <2> QED
    BY <1>1, <1>4, <2>1, <2>2 DEF Taken, Settled
<1>8. OnItsWay'
  <2> DEFINE j == Len(updates) + 1
  <2>1. \A p \in pending : p.ask # Asked + 1
    BY <1>c, <1>i, <1>t DEF Numbered
  <2>2. ASSUME NEW i \in DOMAIN updates PROVE ~(updates[i].type = "ask" /\ (updates[i].id = call.id \/ updates[i].ask = Asked + 1))
    <3>1. updates[i].type = "ask" => updates[i].ask \in Nat /\ updates[i].ask <= Asked /\ updates[i].id # call.id
      BY <1>i, <1>c DEF Told, AskTold, Taken, NoCard
    <3> QED
      BY <1>t, <3>1
  <2>3. \A i \in DOMAIN updates' :
          (updates'[i].type = "ask" /\ (updates'[i].id = call.id \/ updates'[i].ask = Asked + 1)) => i = j
    BY <1>a, <2>2
  <2>4. \A i \in DOMAIN updates' : Resolves(updates'[i], call.id) => i < j
    BY <1>a, <1>2 DEF Resolves
  <2>5. j \in DOMAIN updates' /\ updates'[j] = AskUpdate(Asked', call'.id)
    BY <1>a, <1>1, <1>2, <1>4
  <2>6. Settled(call.id)' /\ Silent(events, call.id)'
    BY <1>c, <1>1 DEF NoCard, Settled, Silent
  <2> HIDE DEF j
  <2> QED
    BY <1>1, <1>4, <2>1, <2>4, <2>5, <2>6, <2>3 DEF OnItsWay, Ours
<1>9. CardTruthful'
  BY <1>c, <1>1 DEF CardTruthful
<1>10. Asked' # 0
  BY <1>4, <1>t
<1> QED
  BY <1>1, <1>5, <1>6, <1>7, <1>8, <1>9, <1>10 DEF CardsFit, TurnWaits

(* The relay hands the turn's events on.                                   *)
LEMMA CardsRelayed ==
  ASSUME ChatTypes, Lives, CardsFit, open, Relay
  PROVE  CardsFit'
<1> DEFINE u == Head(events)
<1>t. /\ updates \in Seq(Told \cup AskTold) /\ events \in Seq(Told) /\ call.id \in Nat
  BY DEF ChatTypes
<1>1. /\ UNCHANGED <<open, items, pending, call, reply, worker, n>> /\ listening
      /\ events # <<>> /\ events' = Tail(events) /\ cancelled' = cancelled
  BY DEF Relay, feed, task, Lives
<1>2. /\ u \in Told /\ u \in Told \cup AskTold /\ u.type # "ask" /\ u = events[1] /\ 1 \in DOMAIN events
      /\ \A i \in DOMAIN events' : i + 1 \in DOMAIN events /\ events'[i] = events[i + 1]
  <2>1. u \in Told /\ u = events[1] /\ 1 \in DOMAIN events
    BY <1>t, <1>1, EmptyTails
  <2>2. \A i \in DOMAIN events' : i + 1 \in DOMAIN events /\ events'[i] = events[i + 1]
    BY <1>t, <1>1, EmptyTails
  <2> QED
    BY <2>1, <2>2 DEF Told
<1>3. updates' = Append(updates, u)
  BY <1>1, <1>2, <1>t, Emits DEF Relay, Update
<1> HIDE DEF u
<1>c. /\ Numbered /\ Heard(events, call.id) /\ Taken(updates, call.id, Asked) /\ CardTruthful
      /\ worker \in {"call", "gate", "tool"} => NoCard(call.id)
      /\ worker \in {"call", "gate"} => Silent(events, call.id)
      /\ worker = "asking" => Asked # 0
      /\ worker = "asking" /\ ~TurnCancelled => TurnWaits
  BY DEF CardsFit
<1>a. /\ \A i \in DOMAIN updates : i \in DOMAIN updates' /\ updates'[i] = updates[i]
                                   /\ i \in Nat /\ i < Len(updates) + 1
      /\ \A i \in DOMAIN updates' : i \in DOMAIN updates \/ (i = Len(updates) + 1 /\ updates'[i] = u)
  BY <1>t, <1>2, <1>3, Appended
<1>4. \A id : NoCard(id) => NoCard(id)'
  BY <1>a, <1>1, <1>2 DEF NoCard, Settled
<1>5. \A id : Silent(events, id) => Silent(events, id)' /\ ~Resolves(u, id)
  BY <1>2 DEF Silent
<1>6. Numbered' /\ CardTruthful' /\ Heard(events, call.id)'
  BY <1>c, <1>1, <1>2, <1>4 DEF Numbered, CardTruthful, Asked, Heard
<1>7. Taken(updates, call.id, Asked)'
  <2>1. ASSUME NEW i \in DOMAIN updates'
        PROVE  updates'[i].id <= call.id /\ (updates'[i].type = "ask" => updates'[i].ask <= Asked)
    BY <1>2, <1>a, <1>c DEF Taken, Heard
  <2>2. ASSUME NEW i \in DOMAIN updates', Yes(updates'[i])
        PROVE  /\ Settled(updates'[i].id)
               /\ \A j \in DOMAIN updates' :
                    updates'[j].type = "ask" /\ updates'[j].id = updates'[i].id => i < j
    <3>1. CASE i \in DOMAIN updates
      BY <1>2, <1>a, <1>c, <2>2, <3>1 DEF Taken
    <3>2. CASE updates'[i] = u
      <4>1. NoCard(u.id)
        BY <1>2, <1>c, <2>2, <3>2 DEF Heard
      <4> QED
        BY <1>2, <1>a, <3>2, <4>1 DEF NoCard
    <3> QED
      BY <1>a, <3>1, <3>2
  <2> QED
    BY <1>1, <2>1, <2>2 DEF Taken, Settled, Asked
<1>8. ASSUME worker = "asking", ~TurnCancelled, OnItsWay PROVE TurnWaits'
  <2>1. PICK j \in DOMAIN updates :
          /\ updates[j] = AskUpdate(Asked, call.id)
          /\ \A i \in DOMAIN updates :
               (Ours(updates[i]) => i = j) /\ (Resolves(updates[i], call.id) => i < j)
    BY <1>8 DEF OnItsWay
  <2>2. j \in DOMAIN updates' /\ updates'[j] = AskUpdate(Asked, call.id)
        /\ \A i \in DOMAIN updates' :
             (Ours(updates'[i]) => i = j) /\ (Resolves(updates'[i], call.id) => i < j)
    <3>1. ~Ours(u) /\ ~Resolves(u, call.id)
      BY <1>2, <1>5, <1>8 DEF OnItsWay, Ours
    <3> QED
      BY <1>a, <2>1, <3>1
  <2>3. OnItsWay'
    BY <1>1, <1>5, <1>8, <2>2 DEF OnItsWay, Asked, Settled, Ours
  <2> QED
    BY <2>3 DEF TurnWaits
<1>9. ASSUME worker = "asking", ~TurnCancelled, Open PROVE TurnWaits'
  <2>1. ~Ours(u) /\ ~Resolves(u, call.id)
    BY <1>2, <1>5, <1>9 DEF Open, Ours
  <2>2. \A i \in DOMAIN updates' : ~Ours(updates'[i]) /\ ~Resolves(updates'[i], call.id)
    BY <1>9, <1>a, <2>1 DEF Open, Silent
  <2>3. (\A i \in DOMAIN updates : ~Ours(updates[i]))' /\ Silent(updates, call.id)'
    BY <1>1, <2>2 DEF Ours, Silent, Asked
  <2>4. Silent(events, call.id)'
    BY <1>1, <1>5, <1>9 DEF Open
  <2>5. Open'
    BY <1>1, <1>9, <2>3, <2>4 DEF Open, Asked
  <2> QED
    BY <2>5 DEF TurnWaits
<1>10. ASSUME worker = "asking", ~TurnCancelled, Answered PROVE TurnWaits'
  <2>1. Answered'
    BY <1>1, <1>4, <1>10 DEF Answered, Asked
  <2> QED
    BY <2>1 DEF TurnWaits
<1>11. (worker = "asking" /\ ~TurnCancelled => TurnWaits)'
  BY <1>c, <1>1, <1>8, <1>9, <1>10 DEF TurnWaits, TurnCancelled
<1>12. (worker \in {"call", "gate", "tool"} => NoCard(call.id))'
  BY <1>c, <1>1, <1>4
<1>13. (worker \in {"call", "gate"} => Silent(events, call.id))'
  BY <1>c, <1>1, <1>5
<1> QED
  BY <1>c, <1>1, <1>6, <1>7, <1>11, <1>12, <1>13 DEF CardsFit, Asked

(* A step that is about none of it.                                        *)
LEMMA CardsKept ==
  ASSUME CardsFit, open' => open, UNCHANGED <<items, pending, updates, events, reply>>,
         call'.id = call.id, worker' \notin {"call", "gate", "tool", "asking"}
  PROVE  CardsFit'
  BY DEF CardsFit, CardTruthful, Numbered, Heard, Taken, NoCard, Settled, Asked

(* The failure that is told after a turn.                                  *)
LEMMA CardsFail ==
  ASSUME ChatTypes, CardsFit, open, UNCHANGED <<open, items, pending, events, reply, call>>,
         updates' \in {updates, Append(updates, Failed)},
         worker' \notin {"call", "gate", "tool", "asking"}
  PROVE  CardsFit'
<1>t. updates \in Seq(Told \cup AskTold) /\ call.id \in Nat
  BY DEF ChatTypes
<1>1. Failed \in Told \cup AskTold /\ Failed.type = "failed" /\ Failed.id = 0
  BY EventTold, EventFields DEF Failed
<1>2. CASE updates' = updates
  BY <1>2, CardsKept
<1>3. CASE updates' = Append(updates, Failed)
  <2>c. /\ Numbered /\ Heard(events, call.id) /\ Taken(updates, call.id, Asked) /\ CardTruthful
    BY DEF CardsFit
  <2>a. /\ \A i \in DOMAIN updates : i \in DOMAIN updates' /\ updates'[i] = updates[i]
                                     /\ i \in Nat /\ i < Len(updates) + 1
        /\ \A i \in DOMAIN updates' : i \in DOMAIN updates \/ (i = Len(updates) + 1 /\ updates'[i] = Failed)
    BY <1>t, <1>1, <1>3, Appended
  <2>1. \A id : NoCard(id) => NoCard(id)'
    BY <2>a, <1>1 DEF NoCard, Settled
  <2>2. Numbered' /\ CardTruthful' /\ Heard(events, call.id)'
    BY <2>c, <1>1, <2>1 DEF Numbered, CardTruthful, Asked, Heard
  <2>3. ASSUME NEW i \in DOMAIN updates'
        PROVE  updates'[i].id <= call.id /\ (updates'[i].type = "ask" => updates'[i].ask <= Asked)
    BY <1>1, <1>t, <2>a, <2>c DEF Taken
  <2>4. ASSUME NEW i \in DOMAIN updates', Yes(updates'[i])
        PROVE  /\ Settled(updates'[i].id)
               /\ \A j \in DOMAIN updates' :
                    updates'[j].type = "ask" /\ updates'[j].id = updates'[i].id => i < j
    BY <1>1, <2>a, <2>c, <2>4 DEF Taken, Yes
  <2>5. Taken(updates, call.id, Asked)'
    BY <2>3, <2>4 DEF Taken, Settled, Asked
  <2> QED
    BY <2>2, <2>5 DEF CardsFit
<1> QED
  BY <1>2, <1>3

(* The user answers a card.                                                *)
LEMMA CardsAnswered ==
  ASSUME ChatTypes, CardsFit, NEW i \in DOMAIN items, NEW d \in {"allowed", "denied"}, Answer(i, d)
  PROVE  CardsFit'
<1>1. /\ open /\ UNCHANGED <<open, updates, events, worker, cancelled, n, call>>
      /\ items[i].answer = "none"
      /\ items' = [items EXCEPT ![i].answer = d, ![i].clicked = TRUE]
      /\ pending' = pending \ {p \in pending : p.call = items[i].call}
      /\ reply' = [a \in DOMAIN reply |->
           IF reply[a] = "open" /\ \E p \in {p \in pending : p.call = items[i].call} : p.ask = a
           THEN d ELSE reply[a]]
  BY DEF Answer, task
<1>t. reply \in Seq(Replies) /\ Asked \in Nat
  BY DEF ChatTypes, Asked
<1>c. /\ Numbered /\ Heard(events, call.id) /\ Taken(updates, call.id, Asked) /\ CardTruthful
      /\ worker \in {"call", "gate", "tool"} => NoCard(call.id)
      /\ worker \in {"call", "gate"} => Silent(events, call.id)
      /\ worker = "asking" => Asked # 0
      /\ worker = "asking" /\ ~TurnCancelled => TurnWaits
  BY <1>1 DEF CardsFit
<1>2. /\ DOMAIN items' = DOMAIN items
      /\ \A k \in DOMAIN items : k # i => items'[k] = items[k]
      /\ items'[i].call = items[i].call /\ items'[i].answer = d /\ items'[i].clicked = TRUE
      /\ items'[i].ask = items[i].ask
  <2>1. \A k \in DOMAIN items : items[k] \in Card
    BY DEF ChatTypes
  <2> QED
    BY <1>1, <2>1 DEF Card
<1>3. /\ Asked' = Asked /\ DOMAIN reply' = DOMAIN reply
      /\ \A a \in DOMAIN reply :
           reply'[a] = IF reply[a] = "open" /\ \E p \in pending : p.call = items[i].call /\ p.ask = a
                       THEN d ELSE reply[a]
  <2>1. reply' = [a \in DOMAIN reply |-> reply'[a]] /\ DOMAIN reply = 1..Len(reply) /\ Len(reply) \in Nat
    BY <1>1, <1>t
  <2>2. Len(reply') = Len(reply)
    BY <2>1
  <2> QED
    BY <1>1, <2>1, <2>2 DEF Asked
<1>4. \A id : Settled(id) => Settled(id)'
  BY <1>2 DEF Settled
<1>5. \A id : NoCard(id) => NoCard(id)'
  BY <1>1, <1>4 DEF NoCard
<1>6. Numbered' /\ CardTruthful' /\ Heard(events, call.id)' /\ Taken(updates, call.id, Asked)'
  <2>1. Numbered'
    BY <1>1, <1>2, <1>3, <1>c DEF Numbered
  <2>2. CardTruthful'
    BY <1>2, <1>c DEF CardTruthful
  <2>3. Heard(events, call.id)'
    BY <1>1, <1>5, <1>c DEF Heard
  <2>4. Taken(updates, call.id, Asked)'
    BY <1>1, <1>3, <1>4, <1>c DEF Taken
  <2> QED
    BY <2>1, <2>2, <2>3, <2>4
<1>7. ASSUME worker = "asking", ~TurnCancelled PROVE TurnWaits'
  <2>0. Asked \in DOMAIN reply
    BY <1>7, <1>c, <1>t DEF Asked
  <2>1. CASE OnItsWay
    <3>1. reply'[Asked] = "open"
      BY <1>3, <2>0, <2>1 DEF OnItsWay
    <3>2. \A p \in pending' : p.ask # Asked
      BY <1>1, <2>1 DEF OnItsWay
    <3>3. OnItsWay'
      BY <1>1, <1>3, <1>4, <2>1, <3>1, <3>2 DEF OnItsWay, Silent, Ours
    <3> QED
      BY <3>3 DEF TurnWaits
  <2>2. CASE Open /\ items[i].call = call.id
    <3>1. reply'[Asked] = d
      <4>1. [call |-> call.id, ask |-> Asked] \in pending
        BY <2>2 DEF Open
      <4>2. \E p \in pending : p.call = items[i].call /\ p.ask = Asked
        BY <2>2, <4>1
      <4> QED
        BY <1>3, <2>0, <2>2, <4>2 DEF Open
    <3>2. Settled(call.id)'
      BY <1>1, <1>2, <2>2 DEF Open, Settled
    <3>3. \A j \in DOMAIN updates : updates[j].type = "ask" => updates[j].id # call.id
      BY <2>2 DEF Open, Ours
    <3>4. Answered'
      BY <1>1, <1>3, <3>1, <3>2, <3>3 DEF Answered, NoCard
    <3> QED
      BY <3>4 DEF TurnWaits
  <2>3. CASE Open /\ items[i].call # call.id
    <3>1. reply'[Asked] = "open"
      BY <1>3, <2>0, <2>3 DEF Open
    <3>2. [call |-> call.id, ask |-> Asked] \in pending'
      BY <1>1, <2>3 DEF Open
    <3>3. PICK k \in DOMAIN items :
            /\ items[k].ask = Asked /\ items[k].call = call.id /\ items[k].answer = "none"
            /\ \A m \in DOMAIN items : items[m].call = call.id /\ items[m].answer = "none" => m = k
      BY <2>3 DEF Open
    <3>4. /\ items'[k].ask = Asked /\ items'[k].call = call.id /\ items'[k].answer = "none"
          /\ \A m \in DOMAIN items' : items'[m].call = call.id /\ items'[m].answer = "none" => m = k
      BY <1>2, <2>3, <3>3
    <3>5. \A p \in pending' : p.ask = Asked => p.call = call.id
      BY <1>1, <2>3 DEF Open
    <3>6. (\A j \in DOMAIN updates : ~Ours(updates[j]))' /\ Silent(updates, call.id)' /\ Silent(events, call.id)'
      BY <1>1, <1>3, <2>3 DEF Open, Ours, Silent
    <3>7. Open'
      BY <1>1, <1>2, <1>3, <3>1, <3>2, <3>3, <3>4, <3>5, <3>6 DEF Open
    <3> QED
      BY <3>7 DEF TurnWaits
  <2>4. CASE Answered
    <3>1. Answered'
      BY <1>1, <1>3, <1>5, <2>0, <2>4 DEF Answered
    <3> QED
      BY <3>1 DEF TurnWaits
  <2> QED
    BY <1>7, <1>c, <2>1, <2>2, <2>3, <2>4 DEF TurnWaits
<1>8. (worker = "asking" /\ ~TurnCancelled => TurnWaits)'
  BY <1>1, <1>7 DEF TurnCancelled
<1>9. (worker \in {"call", "gate", "tool"} => NoCard(call.id))' /\ (worker \in {"call", "gate"} => Silent(events, call.id))'
  BY <1>1, <1>5, <1>c DEF Silent
<1> QED
  BY <1>1, <1>3, <1>c, <1>6, <1>8, <1>9 DEF CardsFit

(* The window takes a question: its card opens.                            *)
LEMMA CardsOpened ==
  ASSUME ChatTypes, CardsFit, Deliver, Head(updates).type = "ask"
  PROVE  CardsFit'
<1> DEFINE u == Head(updates)
           card == [ask |-> u.ask, call |-> u.id, answer |-> "none", clicked |-> FALSE]
           old == {p \in pending : p.call = u.id}
<1>1. /\ open /\ updates # <<>> /\ updates' = Tail(updates)
      /\ UNCHANGED <<open, events, worker, cancelled, n, call>>
      /\ pending' = (pending \ old) \cup {[call |-> u.id, ask |-> u.ask]}
      /\ reply' = Dropped({p.ask : p \in old})
      /\ items' = Append(items, card)
  BY DEF Deliver, task
<1>t. reply \in Seq(Replies) /\ Asked \in Nat /\ updates \in Seq(Told \cup AskTold) /\ items \in Seq(Card)
  BY DEF ChatTypes, Asked
<1>u. /\ u \in AskTold /\ u.type = "ask" /\ u = updates[1] /\ 1 \in DOMAIN updates
      /\ DOMAIN updates = 1..Len(updates) /\ Len(updates) \in Nat
      /\ \A i \in DOMAIN updates' : i + 1 \in DOMAIN updates /\ updates'[i] = updates[i + 1] /\ i \in Nat
      /\ \A i \in DOMAIN updates : i = 1 \/ (i - 1 \in DOMAIN updates' /\ updates'[i - 1] = updates[i])
  <2>1. /\ u = updates[1] /\ 1 \in DOMAIN updates
        /\ DOMAIN updates = 1..Len(updates) /\ Len(updates) \in Nat
        /\ DOMAIN updates' = 1..(Len(updates) - 1)
        /\ \A i \in DOMAIN updates' : updates'[i] = updates[i + 1]
    BY <1>1, <1>t, EmptyTails
  <2>2. updates[1] \in Told \cup AskTold
    BY <1>t, <2>1
  <2>3. u \in AskTold /\ u.type = "ask"
    BY <2>1, <2>2 DEF Told, AskTold
  <2> HIDE DEF u
  <2>4. \A i \in DOMAIN updates : i = 1 \/ (i - 1 \in DOMAIN updates' /\ i - 1 + 1 = i)
    BY <2>1
  <2> QED
    BY <2>1, <2>3, <2>4
<1>k. /\ card \in Card /\ card.call = u.id /\ card.ask = u.ask /\ card.answer = "none"
  BY <1>u DEF Card, AskTold
<1> HIDE DEF u, card
<1>c. /\ Numbered /\ Heard(events, call.id) /\ Taken(updates, call.id, Asked) /\ CardTruthful
      /\ worker \in {"call", "gate", "tool"} => NoCard(call.id)
      /\ worker \in {"call", "gate"} => Silent(events, call.id)
      /\ worker = "asking" => Asked # 0
      /\ worker = "asking" /\ ~TurnCancelled => TurnWaits
  BY <1>1 DEF CardsFit
<1>2. /\ \A k \in DOMAIN items : k \in DOMAIN items' /\ items'[k] = items[k]
      /\ \A k \in DOMAIN items' : k \in DOMAIN items \/ (k = Len(items) + 1 /\ items'[k] = card)
      /\ Len(items) + 1 \in DOMAIN items' /\ items'[Len(items) + 1] = card
  BY <1>1, <1>k, <1>t, Appended
<1>3. /\ Asked' = Asked /\ DOMAIN reply' = DOMAIN reply
      /\ \A a \in DOMAIN reply :
           reply'[a] = IF a \in {p.ask : p \in old} /\ reply[a] = "open" THEN "dropped" ELSE reply[a]
  <2>1. Dropped({p.ask : p \in old}) \in Seq(Replies)
        /\ Len(Dropped({p.ask : p \in old})) = Len(reply)
        /\ DOMAIN Dropped({p.ask : p \in old}) = DOMAIN reply
    BY <1>t, DroppedReplies DEF Dropped
  <2> HIDE DEF old
  <2> QED
    BY <1>1, <1>t, <2>1, DroppedReplies DEF Asked
<1>4. u.id <= call.id /\ u.ask <= Asked
  BY <1>c, <1>u DEF Taken
<1>5. \A id : id # u.id /\ Settled(id) => Settled(id)'
  BY <1>2, <1>k DEF Settled
<1>6. \A id : NoCard(id) => NoCard(id)'
  <2>1. \A id : NoCard(id) => id # u.id
    BY <1>u DEF NoCard
  <2> QED
    BY <1>5, <1>u, <2>1 DEF NoCard
<1>7. Numbered'
  <2>1. \A p \in pending' : p \in pending \/ p.ask = u.ask
    BY <1>1
  <2>2. \A k \in DOMAIN items' : items'[k].call <= call.id
    BY <1>2, <1>4, <1>c, <1>k DEF Numbered
  <2> QED
    BY <1>1, <1>3, <1>4, <1>c, <2>1, <2>2 DEF Numbered
<1>8. CardTruthful'
  BY <1>2, <1>c, <1>k DEF CardTruthful
<1>9. Heard(events, call.id)'
  BY <1>1, <1>6, <1>c DEF Heard
<1>10. Taken(updates, call.id, Asked)'
  <2>1. ASSUME NEW i \in DOMAIN updates'
        PROVE  updates'[i].id <= call.id /\ (updates'[i].type = "ask" => updates'[i].ask <= Asked)
    BY <1>c, <1>u DEF Taken
  <2>2. ASSUME NEW i \in DOMAIN updates', Yes(updates'[i])
        PROVE  /\ \A k \in DOMAIN items' : items'[k].call = updates'[i].id => items'[k].answer # "none"
               /\ \A j \in DOMAIN updates' :
                    updates'[j].type = "ask" /\ updates'[j].id = updates'[i].id => i < j
    <3>1. i + 1 \in DOMAIN updates /\ updates'[i] = updates[i + 1] /\ i \in Nat
      BY <1>u
    <3>2. /\ Settled(updates[i + 1].id)
          /\ \A j \in DOMAIN updates :
               updates[j].type = "ask" /\ updates[j].id = updates[i + 1].id => i + 1 < j
      BY <1>c, <2>2, <3>1 DEF Taken
    <3>3. u.id # updates[i + 1].id
      BY <1>u, <3>1, <3>2
    <3>4. \A j \in DOMAIN updates' :
            updates'[j].type = "ask" /\ updates'[j].id = updates'[i].id => i + 1 < j + 1 /\ j \in Nat
      BY <1>u, <3>1, <3>2
    <3>5. \A id : id # u.id /\ Settled(id) =>
            \A k \in DOMAIN items' : items'[k].call = id => items'[k].answer # "none"
      BY <1>5 DEF Settled
    <3> QED
      BY <3>1, <3>2, <3>3, <3>4, <3>5
  <2> QED
    BY <1>1, <1>3, <2>1, <2>2 DEF Taken, Settled
<1>11. ASSUME worker = "asking", ~TurnCancelled PROVE TurnWaits'
  <2>0. Asked \in DOMAIN reply
    BY <1>11, <1>c, <1>t DEF Asked
  <2>1. CASE Answered
    <3>1. reply'[Asked] = reply[Asked]
      BY <1>3, <2>0, <2>1 DEF Answered
    <3>2. Answered'
      BY <1>1, <1>3, <1>6, <2>1, <3>1 DEF Answered
    <3> QED
      BY <3>2 DEF TurnWaits
  <2>2. CASE Open
    <3>1. u.id # call.id /\ u.ask # Asked
      BY <1>u, <2>2 DEF Open, Ours
    <3>2. Asked \notin {p.ask : p \in old}
      BY <2>2, <3>1 DEF Open
    <3>3. reply'[Asked] = "open"
      BY <1>3, <2>0, <2>2, <3>2 DEF Open
    <3>4. [call |-> call.id, ask |-> Asked] \in pending' /\ \A p \in pending' : p.ask = Asked => p.call = call.id
      BY <1>1, <2>2, <3>1 DEF Open
    <3>5. PICK k \in DOMAIN items :
            /\ items[k].ask = Asked /\ items[k].call = call.id /\ items[k].answer = "none"
            /\ \A m \in DOMAIN items : items[m].call = call.id /\ items[m].answer = "none" => m = k
      BY <2>2 DEF Open
    <3>6. /\ k \in DOMAIN items'
          /\ items'[k].ask = Asked /\ items'[k].call = call.id /\ items'[k].answer = "none"
          /\ \A m \in DOMAIN items' : items'[m].call = call.id /\ items'[m].answer = "none" => m = k
      BY <1>2, <1>k, <3>1, <3>5
    <3>7. \A i \in DOMAIN updates' : ~Ours(updates'[i]) /\ ~Resolves(updates'[i], call.id)
      BY <1>u, <2>2 DEF Open, Silent
    <3>8. (\A i \in DOMAIN updates : ~Ours(updates[i]))' /\ Silent(updates, call.id)' /\ Silent(events, call.id)'
      BY <1>1, <1>3, <2>2, <3>7 DEF Open, Ours, Silent
    <3>9. Open'
      BY <1>1, <1>3, <3>3, <3>4, <3>6, <3>8 DEF Open
    <3> QED
      BY <3>9 DEF TurnWaits
  <2>3. ASSUME OnItsWay PROVE TurnWaits'
    <3>1. PICK j \in DOMAIN updates :
            /\ updates[j] = AskUpdate(Asked, call.id)
            /\ \A i \in DOMAIN updates :
                 (Ours(updates[i]) => i = j) /\ (Resolves(updates[i], call.id) => i < j)
      BY <2>3 DEF OnItsWay
    <3>2. Asked \notin {p.ask : p \in old} /\ reply'[Asked] = "open"
      BY <1>3, <2>0, <2>3 DEF OnItsWay
    <3>3. Silent(events, call.id)'
      BY <1>1, <2>3 DEF OnItsWay, Silent
    <3>4. CASE j = 1
      <4>1. u = AskUpdate(Asked, call.id) /\ u.id = call.id /\ u.ask = Asked
        BY <1>u, <3>1, <3>4 DEF AskUpdate
      <4>2. [call |-> call.id, ask |-> Asked] \in pending' /\ \A p \in pending' : p.ask = Asked => p.call = call.id
        BY <1>1, <2>3, <4>1 DEF OnItsWay
      <4>3. /\ \A m \in DOMAIN items : items[m].call = call.id => items[m].answer # "none"
        BY <2>3 DEF OnItsWay, Settled
      <4>4. \A m \in DOMAIN items' : items'[m].call = call.id /\ items'[m].answer = "none" => m = Len(items) + 1
        BY <1>2, <4>3
      <4>5. \A i \in DOMAIN updates' : ~Ours(updates'[i]) /\ ~Resolves(updates'[i], call.id)
        <5>1. ASSUME NEW i \in DOMAIN updates' PROVE ~Ours(updates[i + 1]) /\ ~Resolves(updates[i + 1], call.id)
          <6>1. i + 1 \in DOMAIN updates /\ i \in Nat
            BY <1>u
          <6>2. i + 1 # 1 /\ ~(i + 1 < 1)
            <7>1. i \in 1..(Len(updates) - 1)
              BY <1>1, <1>t, EmptyTails
            <7> QED
              BY <7>1, <1>u
          <6> QED
            BY <3>1, <3>4, <6>1, <6>2
        <5> QED
          BY <1>u, <5>1
      <4>6. (\A i \in DOMAIN updates : ~Ours(updates[i]))' /\ Silent(updates, call.id)'
        BY <1>1, <1>3, <4>5 DEF Ours, Silent
      <4>7. Len(items) + 1 \in DOMAIN items' /\ items'[Len(items) + 1].ask = Asked
            /\ items'[Len(items) + 1].call = call.id /\ items'[Len(items) + 1].answer = "none"
        BY <1>2, <1>k, <4>1
      <4>8. Open'
        BY <1>1, <1>3, <3>2, <3>3, <4>2, <4>4, <4>6, <4>7 DEF Open
      <4> QED
        BY <4>8 DEF TurnWaits
    <3>5. CASE j # 1
      <4>1. u.id # call.id /\ u.ask # Asked
        BY <1>u, <3>1, <3>5 DEF Ours
      <4>2. \A p \in pending' : p.ask # Asked
        BY <1>1, <2>3, <4>1 DEF OnItsWay
      <4>3. Settled(call.id)'
        BY <1>1, <1>5, <2>3, <4>1 DEF OnItsWay
      <4> DEFINE jj == j - 1
      <4>4. jj \in DOMAIN updates' /\ updates'[jj] = AskUpdate(Asked, call.id) /\ jj \in Nat /\ jj + 1 = j
        BY <1>u, <3>1, <3>5
      <4>5. ASSUME NEW i \in DOMAIN updates'
            PROVE  (Ours(updates'[i]) => i = jj) /\ (Resolves(updates'[i], call.id) => i < jj)
        <5>1. /\ i + 1 \in DOMAIN updates /\ updates'[i] = updates[i + 1] /\ i \in Nat
              /\ (Ours(updates[i + 1]) => i + 1 = jj + 1) /\ (Resolves(updates[i + 1], call.id) => i + 1 < jj + 1)
          BY <1>u, <3>1, <4>4
        <5> HIDE DEF jj
        <5> QED
          BY <4>4, <5>1
      <4> HIDE DEF jj
      <4>6. OnItsWay'
        BY <1>1, <1>3, <3>2, <3>3, <4>2, <4>3, <4>4, <4>5 DEF OnItsWay, Ours
      <4> QED
        BY <4>6 DEF TurnWaits
    <3> QED
      BY <3>4, <3>5
  <2> QED
    BY <1>11, <1>c, <2>1, <2>2, <2>3 DEF TurnWaits
<1>12. (worker = "asking" /\ ~TurnCancelled => TurnWaits)'
  BY <1>1, <1>11 DEF TurnCancelled
<1>13. (worker \in {"call", "gate", "tool"} => NoCard(call.id))' /\ (worker \in {"call", "gate"} => Silent(events, call.id))'
  BY <1>1, <1>6, <1>c DEF Silent
<1> QED
  BY <1>1, <1>3, <1>c, <1>7, <1>8, <1>9, <1>10, <1>12, <1>13 DEF CardsFit

(* The window takes an event of the turn: a resolution settles its call's  *)
(* cards, an end settles all.                                              *)
LEMMA CardsSettled ==
  ASSUME ChatTypes, OneTurn, CardsFit, Deliver, Head(updates).type # "ask"
  PROVE  CardsFit'
<1> DEFINE u == Head(updates)
           asks == {p.ask : p \in Removed(u)}
<1>1. /\ open /\ updates # <<>> /\ updates' = Tail(updates) /\ FeedApplies(u)
      /\ UNCHANGED <<open, events, worker, cancelled, n, call>>
      /\ pending' = pending \ Removed(u) /\ reply' = Dropped(asks)
  BY DEF Deliver, task
<1>t. reply \in Seq(Replies) /\ Asked \in Nat /\ updates \in Seq(Told \cup AskTold) /\ items \in Seq(Card)
  BY DEF ChatTypes, Asked
<1>u. /\ u.type # "ask" /\ u = updates[1] /\ 1 \in DOMAIN updates
      /\ \A i \in DOMAIN updates' : i + 1 \in DOMAIN updates /\ updates'[i] = updates[i + 1] /\ i \in Nat
      /\ \A i \in DOMAIN updates :
           i = 1 \/ (i - 1 \in DOMAIN updates' /\ updates'[i - 1] = updates[i] /\ i - 1 \in Nat /\ i \in Nat)
  <2>1. /\ u = updates[1] /\ 1 \in DOMAIN updates
        /\ DOMAIN updates = 1..Len(updates) /\ Len(updates) \in Nat
        /\ DOMAIN updates' = 1..(Len(updates) - 1)
        /\ \A i \in DOMAIN updates' : updates'[i] = updates[i + 1]
    BY <1>1, <1>t, EmptyTails
  <2> HIDE DEF u
  <2>4. \A i \in DOMAIN updates : i = 1 \/ (i - 1 \in DOMAIN updates' /\ i - 1 + 1 = i)
    BY <2>1
  <2> QED
    BY <2>1, <2>4 DEF u
<1>e. IsEnd(u) => worker \notin {"call", "gate", "tool", "asking"}
  BY <1>1, <1>u DEF OneTurn, Over
<1>i. /\ DOMAIN items' = DOMAIN items
      /\ \A k \in DOMAIN items :
           \/ items'[k] = items[k]
           \/ /\ items[k].answer = "none" /\ items'[k].answer \in {"allowed", "denied", "expired"}
              /\ items'[k].call = items[k].call /\ items'[k].ask = items[k].ask
              /\ items'[k].clicked = items[k].clicked
              /\ \/ IsEnd(u) /\ items'[k].answer = "expired"
                 \/ u.type = "resolved" /\ items[k].call = u.id /\ items'[k].answer = Label(u.outcome)
  <2>1. \A k \in DOMAIN items : items[k] \in Card
    BY <1>t
  <2>2. CASE items' = items
    BY <2>2
  <2>3. CASE IsEnd(u)
    <3>1. FeedEnds
      BY <1>1, <2>3 DEF FeedApplies, IsEnd, TurnEnds
    <3> HIDE DEF u
    <3> QED
      BY <2>1, <2>3, <3>1 DEF FeedEnds, Card
  <2>4. CASE u.type = "resolved"
    <3>1. items' = [i \in DOMAIN items |->
                     IF items[i].call = u.id /\ items[i].answer = "none"
                     THEN [items[i] EXCEPT !.answer = Label(u.outcome)] ELSE items[i]]
      BY <1>1, <2>4, Resolution
    <3>2. Label(u.outcome) \in {"allowed", "denied", "expired"}
      BY DEF Label
    <3> HIDE DEF u
    <3> QED
      BY <2>1, <2>4, <3>1, <3>2 DEF Card
  <2> QED
    BY <1>1, <2>2, <2>3, <2>4 DEF FeedApplies, IsEnd
<1>p. Removed(u) \subseteq pending
      /\ (IsEnd(u) \/ \A p \in Removed(u) : p.call = u.id /\ Resolves(u, p.call))
  BY DEF Removed, IsEnd, Resolves, TurnEnds
<1>3. /\ Asked' = Asked /\ DOMAIN reply' = DOMAIN reply
      /\ \A a \in DOMAIN reply :
           reply'[a] = IF a \in asks /\ reply[a] = "open" THEN "dropped" ELSE reply[a]
  <2>1. Dropped(asks) \in Seq(Replies) /\ Len(Dropped(asks)) = Len(reply)
        /\ DOMAIN Dropped(asks) = DOMAIN reply
    BY <1>t, DroppedReplies DEF Dropped
  <2> HIDE DEF asks
  <2> QED
    BY <1>1, <1>t, <2>1, DroppedReplies DEF Asked
<1> HIDE DEF u
<1>c. /\ Numbered /\ Heard(events, call.id) /\ Taken(updates, call.id, Asked) /\ CardTruthful
      /\ worker \in {"call", "gate", "tool"} => NoCard(call.id)
      /\ worker \in {"call", "gate"} => Silent(events, call.id)
      /\ worker = "asking" => Asked # 0
      /\ worker = "asking" /\ ~TurnCancelled => TurnWaits
  BY <1>1 DEF CardsFit
<1>4. \A id : Settled(id) => \A k \in DOMAIN items' : items'[k].call = id => items'[k].answer # "none"
  BY <1>i DEF Settled
<1>5. \A id : NoCard(id) => NoCard(id)'
  BY <1>4, <1>u DEF NoCard, Settled
<1>7. Numbered'
  BY <1>1, <1>3, <1>c, <1>i DEF Numbered
<1>8. CardTruthful'
  <2>1. ASSUME NEW k \in DOMAIN items, items'[k].answer = "allowed" PROVE items'[k].clicked
    <3>1. CASE items'[k] = items[k]
      BY <1>c, <2>1, <3>1 DEF CardTruthful
    <3>2. CASE items'[k] # items[k]
      <4>1. /\ u.type = "resolved" /\ items[k].call = u.id /\ Label(u.outcome) = "allowed"
            /\ items[k].answer = "none"
        BY <1>i, <2>1, <3>2
      <4>2. Yes(u)
        BY <4>1 DEF Label, Yes
      <4>3. Settled(u.id)
        BY <1>c, <1>u, <4>2 DEF Taken
      <4> QED
        BY <4>1, <4>3 DEF Settled
    <3> QED
      BY <3>1, <3>2
  <2> QED
    BY <1>i, <2>1 DEF CardTruthful
<1>9. Heard(events, call.id)'
  BY <1>1, <1>5, <1>c DEF Heard
<1>10. Taken(updates, call.id, Asked)'
  <2>1. ASSUME NEW i \in DOMAIN updates'
        PROVE  updates'[i].id <= call.id /\ (updates'[i].type = "ask" => updates'[i].ask <= Asked)
    BY <1>c, <1>u DEF Taken
  <2>2. ASSUME NEW i \in DOMAIN updates', Yes(updates'[i])
        PROVE  /\ \A k \in DOMAIN items' : items'[k].call = updates'[i].id => items'[k].answer # "none"
               /\ \A j \in DOMAIN updates' :
                    updates'[j].type = "ask" /\ updates'[j].id = updates'[i].id => i < j
    <3>1. i + 1 \in DOMAIN updates /\ updates'[i] = updates[i + 1] /\ i \in Nat
      BY <1>u
    <3>2. /\ Settled(updates[i + 1].id)
          /\ \A j \in DOMAIN updates :
               updates[j].type = "ask" /\ updates[j].id = updates[i + 1].id => i + 1 < j
      BY <1>c, <2>2, <3>1 DEF Taken
    <3>4. \A j \in DOMAIN updates' :
            updates'[j].type = "ask" /\ updates'[j].id = updates'[i].id => i + 1 < j + 1 /\ j \in Nat
      BY <1>u, <3>1, <3>2
    <3> QED
      BY <1>4, <3>1, <3>2, <3>4
  <2> QED
    BY <1>1, <1>3, <2>1, <2>2 DEF Taken, Settled
<1>11. ASSUME worker = "asking", ~TurnCancelled PROVE TurnWaits'
  <2>0. Asked \in DOMAIN reply /\ ~IsEnd(u)
    BY <1>11, <1>c, <1>e, <1>t DEF Asked
  <2>1. CASE Answered
    <3>1. reply'[Asked] = reply[Asked]
      BY <1>3, <2>0, <2>1 DEF Answered
    <3>2. Answered'
      BY <1>1, <1>3, <1>5, <2>1, <3>1 DEF Answered
    <3> QED
      BY <3>2 DEF TurnWaits
  <2>2. CASE Open
    <3>1. ~Resolves(u, call.id)
      BY <1>u, <2>2 DEF Open, Silent
    <3>2. Asked \notin asks /\ [call |-> call.id, ask |-> Asked] \notin Removed(u)
      BY <1>p, <2>0, <2>2, <3>1 DEF Open
    <3>3. reply'[Asked] = "open"
      BY <1>3, <2>0, <2>2, <3>2 DEF Open
    <3>4. [call |-> call.id, ask |-> Asked] \in pending' /\ \A p \in pending' : p.ask = Asked => p.call = call.id
      BY <1>1, <2>2, <3>2 DEF Open
    <3>5. PICK k \in DOMAIN items :
            /\ items[k].ask = Asked /\ items[k].call = call.id /\ items[k].answer = "none"
            /\ \A m \in DOMAIN items : items[m].call = call.id /\ items[m].answer = "none" => m = k
      BY <2>2 DEF Open
    <3>6. /\ k \in DOMAIN items' /\ items'[k] = items[k]
          /\ \A m \in DOMAIN items' : items'[m].call = call.id /\ items'[m].answer = "none" => m = k
      BY <1>i, <2>0, <3>1, <3>5 DEF Resolves
    <3>7. \A i \in DOMAIN updates' : ~Ours(updates'[i]) /\ ~Resolves(updates'[i], call.id)
      BY <1>u, <2>2 DEF Open, Silent
    <3>8. (\A i \in DOMAIN updates : ~Ours(updates[i]))' /\ Silent(updates, call.id)' /\ Silent(events, call.id)'
      BY <1>1, <1>3, <2>2, <3>7 DEF Open, Ours, Silent
    <3>9. Open'
      BY <1>1, <1>3, <3>3, <3>4, <3>5, <3>6, <3>8 DEF Open
    <3> QED
      BY <3>9 DEF TurnWaits
  <2>3. CASE OnItsWay
    <3>1. PICK j \in DOMAIN updates :
            /\ updates[j] = AskUpdate(Asked, call.id)
            /\ \A i \in DOMAIN updates :
                 (Ours(updates[i]) => i = j) /\ (Resolves(updates[i], call.id) => i < j)
      BY <2>3 DEF OnItsWay
    <3>2. Asked \notin asks /\ reply'[Asked] = "open"
      BY <1>3, <1>p, <2>0, <2>3 DEF OnItsWay
    <3>3. Silent(events, call.id)'
      BY <1>1, <2>3 DEF OnItsWay, Silent
    <3>4. j # 1
      BY <1>u, <3>1 DEF AskUpdate
    <3> DEFINE jj == j - 1
    <3>5. jj \in DOMAIN updates' /\ updates'[jj] = AskUpdate(Asked, call.id) /\ jj \in Nat /\ jj + 1 = j
      BY <1>u, <3>1, <3>4
    <3>6. ASSUME NEW i \in DOMAIN updates'
          PROVE  (Ours(updates'[i]) => i = jj) /\ (Resolves(updates'[i], call.id) => i < jj)
      <4>1. /\ i + 1 \in DOMAIN updates /\ updates'[i] = updates[i + 1] /\ i \in Nat
            /\ (Ours(updates[i + 1]) => i + 1 = jj + 1) /\ (Resolves(updates[i + 1], call.id) => i + 1 < jj + 1)
        BY <1>u, <3>1, <3>5
      <4> HIDE DEF jj
      <4> QED
        BY <3>5, <4>1
    <3> HIDE DEF jj
    <3>7. Settled(call.id)' /\ \A p \in pending' : p.ask # Asked
      BY <1>1, <1>4, <2>3 DEF OnItsWay, Settled
    <3>8. OnItsWay'
      BY <1>1, <1>3, <3>2, <3>3, <3>5, <3>6, <3>7 DEF OnItsWay, Ours
    <3> QED
      BY <3>8 DEF TurnWaits
  <2> QED
    BY <1>11, <1>c, <2>1, <2>2, <2>3 DEF TurnWaits
<1>12. (worker = "asking" /\ ~TurnCancelled => TurnWaits)'
  BY <1>1, <1>11 DEF TurnCancelled
<1>13. (worker \in {"call", "gate", "tool"} => NoCard(call.id))' /\ (worker \in {"call", "gate"} => Silent(events, call.id))'
  BY <1>1, <1>5, <1>c DEF Silent
<1> QED
  BY <1>1, <1>3, <1>c, <1>7, <1>8, <1>9, <1>10, <1>12, <1>13 DEF CardsFit

LEMMA CardsFitStep ==
  ASSUME ChatTypes, Lives, OneTurn, CardsFit, [Next]_vars
  PROVE  CardsFit'
<1>t. /\ updates \in Seq(Told \cup AskTold) /\ Failed \in Told \cup AskTold
  BY EventTold DEF ChatTypes, Failed
<1>1. ASSUME NEW wanted \in Selections, SendPrompt(wanted) PROVE CardsFit'
  <2>1. Over /\ worker' \in {"none", "idle", "drain"}
    BY <1>1 DEF SendPrompt, StartChat, OneTurn, Over
  <2>2. UNCHANGED <<open, items, pending, updates, events, reply, call>>
    BY <1>1 DEF SendPrompt, task
  <2> QED
    BY <2>1, <2>2, CardsKept
<1>2. CASE StartFails
  <2>1. items = <<>> /\ items' = <<>> /\ worker = "none"
    BY <1>2 DEF StartFails, FeedEnds, Lives
  <2>2. UNCHANGED <<open, items, pending, updates, events, reply, call, worker>>
    BY <1>2, <2>1 DEF StartFails, channels, task
  <2> QED
    BY <2>1, <2>2, CardsKept
<1>3. ASSUME UNCHANGED <<open, items, pending, updates, events, reply, call, worker>>,
             ~TurnCancelled' => ~TurnCancelled
      PROVE  CardsFit'
  BY <1>3 DEF CardsFit, CardTruthful, Numbered, Heard, Taken, NoCard, Settled, Asked, Silent, TurnWaits,
     OnItsWay, Open, Answered, Ours
<1>4. CASE Stop \/ ForgetCloses \/ ForgetDeletes \/ UNCHANGED vars
  <2>1. UNCHANGED <<open, items, pending, updates, events, reply, call, worker, n>>
        /\ cancelled \subseteq cancelled'
    BY <1>4 DEF Stop, ForgetCloses, ForgetDeletes, CancelNewest, channels, feed, task, window, vars
  <2> QED
    BY <1>3, <2>1 DEF TurnCancelled
<1>5. ASSUME NEW i \in DOMAIN items, NEW d \in {"allowed", "denied"}, Answer(i, d) PROVE CardsFit'
  BY <1>5, CardsAnswered
<1>6. CASE Deliver
  BY <1>6, CardsOpened, CardsSettled
<1>7. ASSUME NEW forget \in BOOLEAN, Delete(forget) PROVE CardsFit'
  BY <1>7 DEF Delete, CardsFit, CardTruthful, feed
<1>8. CASE ~open
  <2>1. ~\E wanted \in Selections : SendPrompt(wanted)
    BY <1>8 DEF SendPrompt
  <2>2. /\ ~StartFails /\ ~Stop /\ ~Deliver /\ ~\E forget \in BOOLEAN : Delete(forget)
        /\ ~\E i \in DOMAIN items, d \in {"allowed", "denied"} : Answer(i, d)
    BY <1>8 DEF StartFails, Stop, Answer, Deliver, Delete
  <2>3. CASE TurnRuns
    <3>1. TurnStep
      BY <2>3 DEF TurnRuns, ModelTexts, ModelCalls, ProviderFails, TurnEnd, CallApproved, CallCancelled,
         AskAnnounced, GateAsks, AnswerArrives, AskCancelled, ToolEnds, ToolBlocked, Decided
    <3> QED
      BY <1>8, <3>1 DEF TurnStep, window, feed, CardsFit, CardTruthful
  <2>4. CASE TakePrompt \/ BuildFails \/ Relay \/ TurnSaved \/ WorkerCloses \/ ForgetCloses
             \/ ForgetDeletes \/ UNCHANGED vars
    <3>1. open' = open /\ items' = items
      BY <2>4 DEF TakePrompt, BuildFails, Relay, TurnSaved, WorkerCloses, ForgetCloses, ForgetDeletes,
         vars, window, feed
    <3> QED
      BY <1>8, <3>1 DEF CardsFit, CardTruthful
  <2> QED
    BY <2>1, <2>2, <2>3, <2>4 DEF Next, Window, Provider, TaskStep, TurnRuns
<1>9. CASE TakePrompt
  <2>1. worker' = "model" /\ UNCHANGED <<open, items, pending, updates, events, reply>>
    BY <1>9 DEF TakePrompt, window, feed
  <2>2. call'.id = call.id
    BY <1>9 DEF TakePrompt, ChatTypes
  <2> QED
    BY <2>1, <2>2, CardsKept
<1>10. CASE (BuildFails \/ TurnSaved) /\ open
  <2>1. worker' = "idle" /\ UNCHANGED <<open, items, pending, events, reply, call>>
    BY <1>10 DEF BuildFails, TurnSaved, window, feed, task
  <2>2. updates' \in {updates, Append(updates, Failed)}
    BY <1>10, <1>t, Emits DEF BuildFails, TurnSaved, Update
  <2> QED
    BY <1>10, <2>1, <2>2, CardsFail
<1>11. CASE WorkerCloses
  <2>1. worker' = "closed" /\ UNCHANGED <<open, items, pending, updates, events, reply, call>>
    BY <1>11 DEF WorkerCloses, window, feed, channels, task
  <2> QED
    BY <2>1, CardsKept
<1>12. CASE Relay /\ open
  BY <1>12, CardsRelayed
<1>13. CASE TurnRuns /\ open
  BY <1>13, CardsAsked, CardsTold
<1> QED
  BY <1>1, <1>2, <1>4, <1>5, <1>6, <1>7, <1>8, <1>9, <1>10, <1>11, <1>12, <1>13
  DEF Next, Window, Provider, TaskStep, TurnRuns

-----------------------------------------------------------------------------
(* What a thread shows, always.                                            *)
ThreadInv ==
  ChatTypes /\ Lives /\ OneTurn /\ OrbFits /\ CardsFit /\ StopReachesTurn

LEMMA InitThread == Init => ThreadInv
<1> SUFFICES ASSUME Init PROVE OrbFits /\ CardsFit
  BY InitTypes DEF ThreadInv
<1>1. CardsFit
  BY DEF Init, CardsFit, CardTruthful, Numbered, Heard, Taken
<1>2. Orb(NewTracker, "idle", 0) /\ NewTracker.current = Idle
  BY DEF Orb, NewTracker, IsWaiting
<1>3. Rests(Shown)
  BY <1>2 DEF Init, Shown, Rests
<1>4. Becomes(Shown, updates, Shown) /\ Becomes(Shown, events, Shown)
  BY NothingTaken DEF Init
<1>5. Over /\ queue = <<>>
  BY DEF Init, Over
<1> QED
  BY <1>1, <1>3, <1>4, <1>5 DEF OrbFits

LEMMA ThreadStep == ThreadInv /\ [Next]_vars => ThreadInv'
<1> SUFFICES ASSUME ThreadInv, [Next]_vars PROVE ThreadInv'
  OBVIOUS
<1>1. ChatTypes' /\ Lives' /\ OneTurn' /\ StopReachesTurn'
  BY TypesStep, LivesStep, OneTurnStep DEF ThreadInv
<1>2. OrbFits'
  BY OrbFitsStep DEF ThreadInv
<1>3. CardsFit'
  BY CardsFitStep DEF ThreadInv
<1> QED
  BY <1>1, <1>2, <1>3 DEF ThreadInv

LEMMA ThreadShows == ThreadInv => ThreadShowsTurn
<1> SUFFICES ASSUME ThreadInv PROVE WaitedPromptAnswerable /\ ShownIsTrue
  BY DEF ThreadInv, ThreadShowsTurn, CardsFit
<1>1. WaitedPromptAnswerable
  <2> SUFFICES ASSUME worker = "asking", ~TurnCancelled, open
               PROVE  \/ reply[Asked] \in {"allowed", "denied"}
                      \/ \E i \in DOMAIN updates : updates[i].type = "ask" /\ updates[i].ask = Asked
                      \/ /\ \E p \in pending : p.ask = Asked
                         /\ \E i \in DOMAIN items : items[i].ask = Asked /\ items[i].answer = "none"
    BY DEF WaitedPromptAnswerable
  <2>1. TurnWaits
    BY DEF ThreadInv, CardsFit
  <2>2. CASE OnItsWay
    BY <2>2 DEF OnItsWay, AskUpdate
  <2>3. CASE Open
    <3>1. [call |-> call.id, ask |-> Asked] \in pending
      BY <2>3 DEF Open
    <3>2. \E p \in pending : p.ask = Asked
      BY <3>1
    <3> QED
      BY <2>3, <3>2 DEF Open
  <2> QED
    BY <2>1, <2>2, <2>3 DEF TurnWaits, Answered
<1>2. ASSUME open, updates = <<>>, events = <<>>
      PROVE  /\ worker \in {"gate", "asking"} <=> IsWaiting(tracker)
             /\ worker = "tool" => tracker.current = Activity("running", "Tool", call.id)
             /\ worker = "idle" /\ queue = <<>> =>
                  /\ tracker.current # Idle => tracker.current.state \in {"done", "error"}
                  /\ ~running /\ steps = {} /\ pending = {}
                  /\ \A i \in DOMAIN items : items[i].answer # "none"
  <2>1. PICK f, g : /\ Becomes(Shown, <<>>, f) /\ Becomes(f, <<>>, g)
                    /\ IF Over /\ queue = <<>> THEN Rests(g) ELSE Works(g, worker, call.id)
    BY <1>2 DEF ThreadInv, OrbFits
  <2>2. g = Shown
    BY <2>1, NothingTaken
  <2>3. CASE Over /\ queue = <<>>
    <3>1. /\ running = FALSE /\ Orb(tracker, "idle", 0)
          /\ tracker.current = Idle \/ tracker.current.state \in {"done", "error"}
      BY <2>1, <2>2, <2>3 DEF Rests, Shown
    <3>2. steps = {} /\ pending = {} /\ \A i \in DOMAIN items : items[i].answer # "none"
      BY <1>2, <3>1 DEF ThreadInv, OneTurn
    <3>3. ~IsWaiting(tracker) /\ worker \in {"none", "idle", "drain"}
      BY <2>3, <3>1 DEF Orb, Over
    <3> QED
      BY <3>1, <3>2, <3>3
  <2>4. CASE ~(Over /\ queue = <<>>)
    <3>1. Orb(tracker, worker, call.id)
      BY <2>1, <2>2, <2>4 DEF Works, Shown
    <3>2. worker \in {"gate", "asking"} => IsWaiting(tracker)
      <4>1. call.id \in Nat
        BY DEF ThreadInv, ChatTypes
      <4>2. Activity("waiting", "Waiting for approval", call.id).state = "waiting"
        BY DEF Activity
      <4> QED
        BY <3>1, <4>1, <4>2, ToolShown DEF Orb, IsWaiting
    <3>3. ~(worker = "idle" /\ queue = <<>>)
      BY <2>4 DEF Over
    <3> QED
      BY <3>1, <3>2, <3>3 DEF Orb, Tool
  <2> QED
    BY <2>3, <2>4
<1> QED
  BY <1>1, <1>2 DEF ShownIsTrue

(* What a thread shows is true of its turns, and the answers and the stop  *)
(* it offers reach them (app.rs, feed.rs, backend.rs).                     *)
THEOREM ThreadShowsTurnAlways == Spec => []ThreadShowsTurn
<1> QED
  BY InitThread, ThreadStep, ThreadShows, PTL DEF Spec

-----------------------------------------------------------------------------
(* The tracker, whatever order the calls' events come in.                  *)

Waits(a) == a # Idle /\ a.state = "waiting"

(* A tracker waits exactly while a prompt is open, and what a closed       *)
(* prompt would give way to does not wait.                                 *)
Tracks(t) ==
  /\ DOMAIN t = {"current", "tool", "before_wait", "pending", "denied", "files"}
  /\ Waits(t.current) <=> t.pending # {}
  /\ ~Waits(t.tool) /\ ~Waits(t.before_wait)
  /\ t.tool # Idle => t.tool.about \in Int

LEMMA WaitsIsWaiting == \A t : P!IsWaiting(t) <=> Waits(t.current)
  BY DEF P!IsWaiting, Waits

LEMMA ActivityWaits ==
  ASSUME NEW state, NEW label, NEW about, state # "waiting"
  PROVE  ~Waits(P!Activity(state, label, about))
  BY DEF P!Activity, Waits

LEMMA WaitingWaits ==
  ASSUME NEW id \in Int
  PROVE  Waits(P!Activity("waiting", "Waiting for approval", id))
<1>1. [state |-> "waiting", label |-> "Waiting for approval", about |-> id] \in Activities
  BY DEF Activities, ActivityStates, Labels
<1> QED
  BY <1>1, IdleAssumption DEF P!Activity, Waits

LEMMA ShowTracks ==
  ASSUME NEW t, Tracks(t), NEW a, ~Waits(a)
  PROVE  Tracks(P!Show(t, a)) /\ P!Show(t, a).pending = t.pending
<1>1. CASE t.pending # {}
  BY <1>1 DEF P!Show, Tracks
<1>2. CASE t.pending = {}
  BY <1>2 DEF P!Show, Tracks
<1> QED
  BY <1>1, <1>2

LEMMA CloseTracks ==
  ASSUME NEW t, Tracks(t), NEW id
  PROVE  Tracks(P!ClosePrompt(t, id)) /\ P!ClosePrompt(t, id).pending = t.pending \ {id}
<1>0. Waits(t.current) <=> P!IsWaiting(t)
  BY WaitsIsWaiting
<1>1. CASE id \notin t.pending \/ t.pending \ {id} # {}
  BY <1>1 DEF P!ClosePrompt, Tracks
<1>2. CASE id \in t.pending /\ t.pending \ {id} = {}
  <2>1. ~Waits(P!Thinking)
    BY ActivityWaits DEF P!Thinking
  <2>2. P!IsWaiting(t)
    BY <1>0, <1>2 DEF Tracks
  <2> DEFINE next == IF t.tool # Idle THEN t.tool
                     ELSE IF t.before_wait # Idle THEN t.before_wait ELSE P!Thinking
  <2>3. ~Waits(next)
    BY <2>1 DEF Tracks
  <2>4. P!ClosePrompt(t, id) = [t EXCEPT !.pending = t.pending \ {id}, !.before_wait = Idle,
                                         !.current = next]
    BY <1>2, <2>2 DEF P!ClosePrompt
  <2> HIDE DEF next
  <2>5. ~Waits(Idle)
    BY DEF Waits
  <2> QED
    BY <1>2, <2>3, <2>4, <2>5 DEF Tracks
<1> QED
  BY <1>1, <1>2

LEMMA DeniedTracks ==
  ASSUME NEW t, Tracks(t), NEW id, NEW deny \in BOOLEAN
  PROVE  Tracks(P!Denied(t, id, deny)) /\ P!Denied(t, id, deny).pending = t.pending
  BY DEF P!Denied, Tracks

(* What the events of one kind do to a tracker and its open prompts.       *)
LEMMA Progressed ==
  ASSUME NEW t, Tracks(t), NEW id \in Int, NEW outcome \in {"ok", "error"},
         NEW tool \in {"reading", "editing", "unknown"}, NEW type \in {"text", "started", "finished"}
  PROVE  LET u == P!Applied(t, P!Event(type, id, outcome, tool)) IN
         Tracks(u) /\ u.pending = t.pending
<1> DEFINE e == P!Event(type, id, outcome, tool)
<1>e. e.type = type /\ e.id = id /\ e.outcome = outcome /\ e.tool = tool
  BY DEF P!Event
<1> HIDE DEF e
<1>0. ~Waits(P!Thinking)
  BY ActivityWaits DEF P!Thinking
<1>1. CASE type = "text"
  <2>1. P!Applied(t, e) = IF t.current # Idle /\ t.current.state = "thinking" THEN t
                          ELSE P!Show(t, P!Thinking)
    BY <1>1, <1>e DEF P!Applied
  <2> QED
    BY <2>1, <1>0, ShowTracks DEF e
<1>2. CASE type = "started"
  <2> DEFINE u == [t EXCEPT !.tool = P!ToolActivity(e),
                            !.files = IF e.tool = "editing" THEN @ \cup {e.id} ELSE @]
  <2>1. P!Applied(t, e) = P!Show(u, P!ToolActivity(e))
    BY <1>2, <1>e DEF P!Applied
  <2>2. ~Waits(P!ToolActivity(e)) /\ P!ToolActivity(e).about \in Int
    BY <1>0, <1>e, ActivityWaits DEF P!ToolActivity, P!Activity, P!Thinking
  <2>3. Tracks(u) /\ u.pending = t.pending
    BY <2>2 DEF Tracks
  <2> HIDE DEF u
  <2> QED
    BY <2>1, <2>2, <2>3, ShowTracks DEF e
<1>3. CASE type = "finished"
  <2> DEFINE u == [t EXCEPT !.tool = Idle,
                            !.denied = IF e.outcome = "error" THEN @ \ {e.id} ELSE @]
             a == IF e.outcome = "error" /\ e.id \notin t.denied
                  THEN P!Activity("error", "Tool failed", e.id) ELSE P!Thinking
  <2>1. P!Applied(t, e) = P!Show(u, a)
    BY <1>3, <1>e DEF P!Applied
  <2>2. ~Waits(a)
    BY <1>0, ActivityWaits
  <2>3. Tracks(u) /\ u.pending = t.pending
    BY DEF Tracks, Waits
  <2> HIDE DEF u, a
  <2> QED
    BY <2>1, <2>2, <2>3, ShowTracks DEF e
<1> QED
  BY <1>1, <1>2, <1>3

LEMMA PromptOpened ==
  ASSUME NEW t, Tracks(t), NEW id \in Int
  PROVE  LET u == P!Applied(t, P!Event("pending", id, "ok", "unknown")) IN
         Tracks(u) /\ u.pending = t.pending \cup {id}
<1> DEFINE e == P!Event("pending", id, "ok", "unknown")
           a == P!Activity("waiting", "Waiting for approval",
                           IF t.tool # Idle THEN t.tool.about ELSE id)
           before == IF P!IsWaiting(t) THEN t.before_wait ELSE t.current
<1>e. e.type = "pending" /\ e.id = id
  BY DEF P!Event
<1>1. P!Applied(t, e) = [t EXCEPT !.pending = @ \cup {id}, !.before_wait = before, !.current = a]
  BY <1>e DEF P!Applied
<1>2. ~Waits(before)
  BY WaitsIsWaiting DEF Tracks
<1>3. Waits(a)
  BY WaitingWaits DEF Tracks
<1> HIDE DEF a, before, e
<1>4. Tracks(P!Applied(t, e)) /\ P!Applied(t, e).pending = t.pending \cup {id}
  BY <1>1, <1>2, <1>3 DEF Tracks
<1> QED
  BY <1>4 DEF e

LEMMA Closed ==
  ASSUME NEW t, Tracks(t), NEW id \in Int, NEW outcome, NEW type \in {"resolved", "approval"}
  PROVE  LET u == P!Applied(t, P!Event(type, id, outcome, "unknown")) IN
         Tracks(u) /\ u.pending = t.pending \ {id}
<1> DEFINE e == P!Event(type, id, outcome, "unknown")
           d == P!Denied(t, id, outcome = "denied")
<1>e. e.type = type /\ e.id = id /\ e.outcome = outcome
  BY DEF P!Event
<1>1. P!Applied(t, e) = P!ClosePrompt(d, id)
  BY <1>e DEF P!Applied
<1>2. Tracks(d) /\ d.pending = t.pending
  BY DeniedTracks
<1> HIDE DEF d, e
<1>3. Tracks(P!Applied(t, e)) /\ P!Applied(t, e).pending = t.pending \ {id}
  BY <1>1, <1>2, CloseTracks
<1> QED
  BY <1>3 DEF e

LEMMA TurnOver ==
  ASSUME NEW t, Tracks(t), NEW end \in P!Ends
  PROVE  LET u == P!Applied(t, P!Event(end[1], 0, end[2], "unknown")) IN
         Tracks(u) /\ u.pending = {}
<1> DEFINE e == P!Event(end[1], 0, end[2], "unknown")
           v == P!EndTurn(t)
<1>e. e.type = end[1] /\ e.outcome = end[2]
  BY DEF P!Event
<1>1. /\ DOMAIN v = DOMAIN t /\ v.tool = Idle /\ v.before_wait = Idle /\ v.pending = {}
  BY DEF P!EndTurn, Tracks
<1>2. ~Waits(Idle)
  BY DEF Waits
<1>3. \E a : ~Waits(a) /\ P!Applied(t, e) = [v EXCEPT !.current = a]
  <2>1. CASE end[1] = "completed"
    BY <2>1, <1>e, ActivityWaits DEF P!Applied
  <2>2. CASE end[1] = "max_steps"
    BY <2>2, <1>e, ActivityWaits DEF P!Applied
  <2>3. CASE end[1] = "cancelled"
    BY <2>3, <1>e, <1>2 DEF P!Applied
  <2>4. CASE end[1] = "failed"
    BY <2>4, <1>e, ActivityWaits DEF P!Applied
  <2> QED
    BY <2>1, <2>2, <2>3, <2>4 DEF P!Ends
<1> HIDE DEF v, e
<1>4. Tracks(P!Applied(t, e)) /\ P!Applied(t, e).pending = {}
  BY <1>1, <1>2, <1>3 DEF Tracks
<1> QED
  BY <1>4 DEF e

-----------------------------------------------------------------------------
(* The prompts that calls have open, by the ids of their decisions.        *)
OpenPrompts == {P!DecisionId(c) : c \in {d \in Calls : phase[d] = "asked"}}

Prompted ==
  /\ asker \in {"loop", "mcp"}
  /\ phase \in [Calls -> {"new", "started", "asked", "yes", "no", "allowed", "denied", "finished"}]
  /\ Tracks(orb) /\ orb.pending = OpenPrompts

(* The debouncer's clock is what the user saw, and a prompt is never held  *)
(* back.                                                                   *)
Clocked ==
  /\ DOMAIN pill = {"shown", "since", "queued"}
  /\ now \in Int /\ pill.since \in Int /\ up = now - pill.since
Paced == Clocked /\ P!PillCatchesUp /\ (pill.queued # {} => ~Waits(orb.current) /\ orb.current # pill.shown)

(* What the debouncer does with an activity.                               *)
Working(q) ==
  /\ pill.shown # Idle /\ q.shown # Idle /\ ~P!SameState(pill.shown, q.shown)
  /\ q.shown.state \notin P!Urgent

LEMMA Shows ==
  ASSUME Clocked, NEW next, next # pill.shown
  PROVE  LET q == P!ShowNow(pill, next) IN
         /\ DOMAIN q = {"shown", "since", "queued"} /\ q.since \in Int
         /\ q.shown = next /\ q.queued = {}
         /\ P!Observed(q) = now - q.since
<1> DEFINE q == P!ShowNow(pill, next)
<1>1. /\ DOMAIN q = {"shown", "since", "queued"} /\ q.shown = next /\ q.queued = {}
      /\ q.since = IF P!SameState(pill.shown, next) THEN pill.since ELSE now
  BY DEF P!ShowNow
<1>2. P!SameState(pill.shown, next) <=> P!SameState(next, pill.shown)
  BY DEF P!SameState
<1> HIDE DEF q
<1>3. q.since \in Int /\ P!Observed(q) = now - q.since
  <2>1. CASE P!SameState(pill.shown, next)
    BY <1>1, <1>2, <2>1 DEF Clocked, P!Observed
  <2>2. CASE ~P!SameState(pill.shown, next)
    <3>1. P!Observed(q) = 0
      BY <1>1, <1>2, <2>2 DEF P!Observed
    <3> QED
      BY <1>1, <2>2, <3>1 DEF Clocked
  <2> QED
    BY <2>1, <2>2
<1> QED
  BY <1>1, <1>3 DEF q

LEMMA Offers ==
  ASSUME Clocked, NEW next
  PROVE  LET q == P!Offer(pill, next) IN
         /\ DOMAIN q = {"shown", "since", "queued"} /\ q.since \in Int
         /\ \/ q.shown = next /\ q.queued = {}
            \/ /\ q.queued = {next} /\ now <= q.since + MinDwell
               /\ ~Waits(next) /\ next # q.shown
         /\ P!Observed(q) = now - q.since
         /\ Working(q) => up >= MinDwell
<1> DEFINE q == P!Offer(pill, next)
<1>m. MinDwell \in Int
  BY PillAssumption
<1>1. CASE next = pill.shown
  <2>1. q = [pill EXCEPT !.queued = {}]
    BY <1>1 DEF P!Offer
  <2> HIDE DEF q
  <2>2. /\ DOMAIN q = {"shown", "since", "queued"} /\ q.since = pill.since
        /\ q.shown = pill.shown /\ q.queued = {}
    BY <2>1 DEF Clocked
  <2>3. P!Observed(q) = up
    BY <2>2 DEF P!Observed
  <2>4. ~Working(q)
    BY <2>2 DEF Working, P!SameState
  <2> QED
    BY <1>1, <2>2, <2>3, <2>4 DEF Clocked, q
<1>2. CASE next # pill.shown /\ (P!ShowsAtOnce(pill, next) \/ now - pill.since >= MinDwell)
  <2>1. q = P!ShowNow(pill, next)
    BY <1>2 DEF P!Offer
  <2> HIDE DEF q
  <2>2. /\ DOMAIN q = {"shown", "since", "queued"} /\ q.since \in Int
        /\ q.shown = next /\ q.queued = {} /\ P!Observed(q) = now - q.since
    BY <1>2, <2>1, Shows
  <2>3. Working(q) => ~P!ShowsAtOnce(pill, next)
    BY <2>2 DEF Working, P!ShowsAtOnce
  <2> QED
    BY <1>2, <2>2, <2>3 DEF Clocked, q
<1>3. CASE next # pill.shown /\ ~P!ShowsAtOnce(pill, next) /\ ~(now - pill.since >= MinDwell)
  <2>1. q = [pill EXCEPT !.queued = {next}]
    BY <1>3 DEF P!Offer
  <2> HIDE DEF q
  <2>2. /\ DOMAIN q = {"shown", "since", "queued"} /\ q.since = pill.since
        /\ q.shown = pill.shown /\ q.queued = {next}
    BY <2>1 DEF Clocked
  <2>3. P!Observed(q) = up
    BY <2>2 DEF P!Observed
  <2>4. ~Working(q)
    BY <2>2 DEF Working, P!SameState
  <2>5. ~Waits(next)
    BY <1>3 DEF Waits, P!ShowsAtOnce, P!Urgent
  <2>6. now <= q.since + MinDwell
    BY <1>3, <1>m, <2>2 DEF Clocked
  <2> QED
    BY <1>3, <2>2, <2>3, <2>4, <2>5, <2>6 DEF Clocked, q
<1> QED
  BY <1>1, <1>2, <1>3

LEMMA InitPill == P!Init => Prompted /\ Paced
<1> SUFFICES ASSUME P!Init PROVE Prompted /\ Paced
  OBVIOUS
<1> USE DEF P!Init, P!NewTracker
<1>1. Tracks(orb) /\ ~Waits(orb.current) /\ orb.current = Idle
  BY DEF Tracks, Waits
<1>2. OpenPrompts = {}
  BY DEF OpenPrompts
<1>3. Prompted
  BY <1>1, <1>2 DEF Prompted
<1>4. Clocked
  BY DEF Clocked
<1> QED
  BY <1>1, <1>3, <1>4 DEF Paced, P!PillCatchesUp

(* The last part of NoFlicker: the state shown was up for the dwell.       *)
Dwells == Working(pill') => up >= MinDwell

LEMMA ApplyPaces ==
  ASSUME Paced, NEW e, P!Apply(e)
  PROVE  Paced' /\ Dwells
<1>1. /\ orb' = P!Applied(orb, e) /\ pill' = P!Offer(pill, orb'.current)
      /\ up' = P!Observed(pill') /\ now' = now
  BY DEF P!Apply
<1>2. /\ DOMAIN pill' = {"shown", "since", "queued"} /\ pill'.since \in Int
      /\ \/ pill'.shown = orb'.current /\ pill'.queued = {}
         \/ /\ pill'.queued = {orb'.current} /\ now <= pill'.since + MinDwell
            /\ ~Waits(orb'.current) /\ orb'.current # pill'.shown
      /\ P!Observed(pill') = now - pill'.since
      /\ Working(pill') => up >= MinDwell
  BY <1>1, Offers DEF Paced
<1> QED
  BY <1>1, <1>2 DEF Paced, Clocked, P!PillCatchesUp, Dwells

LEMMA PollPaces ==
  ASSUME Paced, P!Poll
  PROVE  Paced' /\ Dwells
<1>1. /\ pill.queued = {orb.current} /\ now >= pill.since + MinDwell
      /\ ~Waits(orb.current) /\ orb.current # pill.shown
      /\ orb' = orb /\ now' = now /\ up' = P!Observed(pill')
  BY DEF P!Poll, P!Due, Paced, P!PillCatchesUp
<1>2. pill' = P!ShowNow(pill, orb.current)
  BY <1>1 DEF P!Poll
<1>m. MinDwell \in Int
  BY PillAssumption
<1>3. up >= MinDwell
  BY <1>1, <1>m DEF Paced, Clocked
<1>4. /\ DOMAIN pill' = {"shown", "since", "queued"} /\ pill'.since \in Int
      /\ pill'.shown = orb.current /\ pill'.queued = {} /\ P!Observed(pill') = now - pill'.since
  BY <1>1, <1>2, Shows DEF Paced
<1> QED
  BY <1>1, <1>3, <1>4 DEF Paced, Clocked, P!PillCatchesUp, Dwells

(* A call is known by the id of its decision.                              *)
LEMMA DecisionIds ==
  /\ \A c \in Calls : P!DecisionId(c) \in Int
  /\ \A c, d \in Calls : P!DecisionId(c) = P!DecisionId(d) => c = d
  BY PillAssumption DEF P!DecisionId

(* A call's move, seen from the prompts.                                   *)
LEMMA Moves ==
  ASSUME Prompted, NEW c \in Calls, NEW from, NEW to, P!CallMoves(c, from, to), asker' = asker,
         to \in {"started", "asked", "yes", "no", "allowed", "denied", "finished"}
  PROVE  /\ phase' \in [Calls -> {"new", "started", "asked", "yes", "no", "allowed", "denied",
                                  "finished"}]
         /\ OpenPrompts' = IF to = "asked" THEN OpenPrompts \cup {P!DecisionId(c)}
                           ELSE OpenPrompts \ {P!DecisionId(c)}
         /\ phase[c] # "asked" => P!DecisionId(c) \notin OpenPrompts
<1>1. phase' = [phase EXCEPT ![c] = to]
  BY DEF P!CallMoves
<1>2. \A d \in Calls : P!DecisionId(d)' = P!DecisionId(d)
  BY DEF P!DecisionId
<1>3. \A d \in Calls : phase'[d] = IF d = c THEN to ELSE phase[d]
  BY <1>1 DEF Prompted
<1>4. OpenPrompts' = {P!DecisionId(d) : d \in {b \in Calls : phase'[b] = "asked"}}
  BY <1>2 DEF OpenPrompts
<1>5. OpenPrompts' = IF to = "asked" THEN OpenPrompts \cup {P!DecisionId(c)}
                     ELSE OpenPrompts \ {P!DecisionId(c)}
  <2>1. ASSUME NEW x
        PROVE  x \in OpenPrompts' <=> \E d \in Calls : x = P!DecisionId(d)
                                        /\ (IF d = c THEN to ELSE phase[d]) = "asked"
    BY <1>3, <1>4
  <2>2. ASSUME NEW x
        PROVE  x \in OpenPrompts <=> \E d \in Calls : x = P!DecisionId(d) /\ phase[d] = "asked"
    BY DEF OpenPrompts
  <2>3. CASE to = "asked"
    BY <2>1, <2>2, <2>3, DecisionIds
  <2>4. CASE to # "asked"
    BY <2>1, <2>2, <2>4, DecisionIds
  <2> QED
    BY <2>3, <2>4
<1>6. phase[c] # "asked" => P!DecisionId(c) \notin OpenPrompts
  BY DecisionIds DEF OpenPrompts
<1> QED
  BY <1>1, <1>5, <1>6 DEF Prompted

LEMMA PillStep ==
  ASSUME Prompted, Paced, [P!Next]_(P!vars)
  PROVE  Prompted' /\ Paced' /\ (Dwells \/ UNCHANGED pill)
<1>m. MinDwell \in Int
  BY PillAssumption
<1>1. CASE P!Tick
  <2>1. /\ now' = now + 1 /\ up' = up + 1 /\ UNCHANGED <<asker, phase, orb, pill>>
        /\ ~(pill.queued # {} /\ now >= pill.since + MinDwell)
    BY <1>1 DEF P!Tick, P!Due
  <2>2. Prompted'
    BY <2>1 DEF Prompted, OpenPrompts, P!DecisionId
  <2>3. Paced'
    BY <1>m, <2>1 DEF Paced, Clocked, P!PillCatchesUp
  <2> QED
    BY <2>1, <2>2, <2>3
<1>2. CASE P!Poll
  <2>1. Prompted'
    BY <1>2 DEF P!Poll, Prompted, OpenPrompts, P!DecisionId
  <2> QED
    BY <1>2, <2>1, PollPaces
<1>3. ASSUME NEW e, P!Apply(e) PROVE Paced' /\ Dwells /\ asker' = asker /\ orb' = P!Applied(orb, e)
  BY <1>3, ApplyPaces DEF P!Apply
<1>4. CASE P!Text
  <2>1. P!Apply(P!Event("text", 0, "ok", "unknown")) /\ phase' = phase
    BY <1>4 DEF P!Text
  <2>2. Tracks(orb') /\ orb'.pending = orb.pending
    <3>1. /\ 0 \in Int /\ "ok" \in {"ok", "error"} /\ "unknown" \in {"reading", "editing", "unknown"}
          /\ "text" \in {"text", "started", "finished"} /\ Tracks(orb)
      BY PillAssumption DEF Prompted
    <3>2. LET u == P!Applied(orb, P!Event("text", 0, "ok", "unknown")) IN
          Tracks(u) /\ u.pending = orb.pending
      BY <3>1, Progressed
    <3> QED
      BY <1>3, <2>1, <3>2
  <2>3. OpenPrompts' = OpenPrompts
    BY <1>3, <2>1 DEF OpenPrompts, P!DecisionId
  <2> QED
    BY <1>3, <2>1, <2>2, <2>3 DEF Prompted
<1>5. ASSUME NEW c \in Calls, NEW tool \in {"reading", "editing", "unknown"}, P!Started(c, tool)
      PROVE  Prompted' /\ Paced' /\ Dwells
  <2>1. /\ P!CallMoves(c, {"new"}, "started") /\ phase[c] # "asked"
        /\ P!Apply(P!Event("started", c, "ok", tool))
    BY <1>5 DEF P!Started, P!CallMoves
  <2>2. Tracks(orb') /\ orb'.pending = orb.pending
    <3>1. /\ c \in Int /\ "ok" \in {"ok", "error"} /\ tool \in {"reading", "editing", "unknown"}
          /\ "started" \in {"text", "started", "finished"} /\ Tracks(orb)
      BY PillAssumption DEF Prompted
    <3>2. LET u == P!Applied(orb, P!Event("started", c, "ok", tool)) IN
          Tracks(u) /\ u.pending = orb.pending
      BY <3>1, Progressed
    <3> QED
      BY <1>3, <2>1, <3>2
  <2> QED
    BY <1>3, <2>1, <2>2, Moves DEF Prompted
<1>6. ASSUME NEW c \in Calls, P!Asked(c) PROVE Prompted' /\ Paced' /\ Dwells
  <2>1. /\ P!CallMoves(c, {"started"}, "asked")
        /\ P!Apply(P!Event("pending", P!DecisionId(c), "ok", "unknown"))
    BY <1>6 DEF P!Asked
  <2>2. Tracks(orb') /\ orb'.pending = orb.pending \cup {P!DecisionId(c)}
    BY <1>3, <2>1, PromptOpened, DecisionIds DEF Prompted
  <2> QED
    BY <1>3, <2>1, <2>2, Moves DEF Prompted
<1>7. ASSUME NEW c \in Calls, NEW answer, P!Resolved(c, answer)
      PROVE  Prompted' /\ Paced' /\ Dwells
  <2>1. /\ P!CallMoves(c, {"asked"}, IF answer = "approved" THEN "yes" ELSE "no")
        /\ P!Apply(P!Event("resolved", P!DecisionId(c), answer, "unknown"))
    BY <1>7 DEF P!Resolved
  <2>2. Tracks(orb') /\ orb'.pending = orb.pending \ {P!DecisionId(c)}
    BY <1>3, <2>1, Closed, DecisionIds DEF Prompted
  <2> QED
    BY <1>3, <2>1, <2>2, Moves DEF Prompted
<1>8. ASSUME NEW c \in Calls, NEW decision, P!Decided(c, decision)
      PROVE  Prompted' /\ Paced' /\ Dwells
  <2>1. /\ P!CallMoves(c, {"started", "yes", "no"}, IF decision = "approved" THEN "allowed"
                                                    ELSE "denied")
        /\ P!Apply(P!Event("approval", P!DecisionId(c), decision, "unknown"))
    BY <1>8 DEF P!Decided
  <2>2. Tracks(orb') /\ orb'.pending = orb.pending \ {P!DecisionId(c)}
    BY <1>3, <2>1, Closed, DecisionIds DEF Prompted
  <2> QED
    BY <1>3, <2>1, <2>2, Moves DEF Prompted
<1>9. ASSUME NEW c \in Calls, NEW outcome \in {"ok", "error"}, P!Finished(c, outcome)
      PROVE  Prompted' /\ Paced' /\ Dwells
  <2>1. /\ P!CallMoves(c, {"started", "allowed", "denied"}, "finished") /\ phase[c] # "asked"
        /\ P!Apply(P!Event("finished", c, outcome, "unknown"))
    BY <1>9 DEF P!Finished, P!CallMoves
  <2>2. Tracks(orb') /\ orb'.pending = orb.pending
    <3>1. /\ c \in Int /\ outcome \in {"ok", "error"} /\ "unknown" \in {"reading", "editing", "unknown"}
          /\ "finished" \in {"text", "started", "finished"} /\ Tracks(orb)
      BY PillAssumption DEF Prompted
    <3>2. LET u == P!Applied(orb, P!Event("finished", c, outcome, "unknown")) IN
          Tracks(u) /\ u.pending = orb.pending
      BY <3>1, Progressed
    <3> QED
      BY <1>3, <2>1, <3>2
  <2> QED
    BY <1>3, <2>1, <2>2, Moves DEF Prompted
<1>10. ASSUME NEW end \in P!Ends, P!Ended(end[1], end[2]) PROVE Prompted' /\ Paced' /\ Dwells
  <2>1. /\ phase' = [c \in Calls |-> "new"]
        /\ P!Apply(P!Event(end[1], 0, end[2], "unknown"))
    BY <1>10 DEF P!Ended
  <2>2. Tracks(orb') /\ orb'.pending = {}
    BY <1>3, <2>1, TurnOver DEF Prompted
  <2>3. OpenPrompts' = {}
    BY <2>1 DEF OpenPrompts
  <2> QED
    BY <1>3, <2>1, <2>2, <2>3 DEF Prompted
<1>11. CASE UNCHANGED P!vars
  <2>1. UNCHANGED <<asker, phase, orb, pill, now, up>>
    BY <1>11 DEF P!vars
  <2> QED
    BY <2>1 DEF Prompted, OpenPrompts, P!DecisionId, Paced, Clocked, P!PillCatchesUp
<1> QED
  BY <1>1, <1>2, <1>4, <1>5, <1>6, <1>7, <1>8, <1>9, <1>10, <1>11 DEF P!Next

LEMMA PillShows == Prompted /\ Paced => PillShowsCalls
<1> SUFFICES ASSUME Prompted, Paced PROVE P!PromptShown /\ P!PillCatchesUp
  BY DEF PillShowsCalls
<1>1. (\E c \in Calls : phase[c] = "asked") <=> Waits(orb.current)
  <2>1. (\E c \in Calls : phase[c] = "asked") <=> OpenPrompts # {}
    BY DEF OpenPrompts
  <2> QED
    BY <2>1 DEF Prompted, Tracks
<1>2. Waits(orb.current) => pill.shown = orb.current
  BY DEF Paced, P!PillCatchesUp
<1>3. P!PromptShown
  BY <1>1, <1>2, WaitsIsWaiting DEF P!PromptShown, Waits
<1> QED
  BY <1>3 DEF Paced

(* What the conversation and the window do leaves the pill alone.          *)
LEMMA PillSteps == [MCNext]_<<part, vars, pillVars, windowVars>> => [P!Next]_(P!vars)
  BY DEF MCNext, pillVars, P!vars

(* The pill says that a call waits for the user as long as one does, and   *)
(* at once; and what it shows is what the tracker says, or is so within    *)
(* the dwell: for any calls, however their events overlap, named by the    *)
(* model's ids or by rozu mcp-serve's (events.rs, debounce.rs rules 1, 3). *)
THEOREM PillShowsCallsAlways == MCSpec => []PillShowsCalls
<1>1. MCInit => Prompted /\ Paced
  BY InitPill DEF MCInit
<1>2. (Prompted /\ Paced) /\ [MCNext]_<<part, vars, pillVars, windowVars>> => (Prompted /\ Paced)'
  BY PillSteps, PillStep
<1> QED
  BY <1>1, <1>2, PillShows, PTL DEF MCSpec

(* A working state stays up for the dwell before another replaces it,      *)
(* whatever was offered in between (debounce.rs rule 3).                   *)
THEOREM PillNeverFlickers == MCSpec => PillNoFlicker
<1>1. MCInit => Prompted /\ Paced
  BY InitPill DEF MCInit
<1>2. (Prompted /\ Paced) /\ [MCNext]_<<part, vars, pillVars, windowVars>> => (Prompted /\ Paced)'
  BY PillSteps, PillStep
<1>3. ASSUME Prompted, Paced, [MCNext]_<<part, vars, pillVars, windowVars>>
      PROVE  [LET before == pill.shown  after == pill'.shown IN
                before # Idle /\ after # Idle /\ ~P!SameState(before, after)
                  /\ after.state \notin P!Urgent => up >= MinDwell]_(P!vars)
  <2>1. Dwells \/ UNCHANGED pill
    BY <1>3, PillSteps, PillStep
  <2>2. UNCHANGED pill => pill.shown = Idle \/ P!SameState(pill.shown, pill'.shown)
    BY DEF P!SameState
  <2> QED
    BY <2>1, <2>2 DEF Dwells, Working
<1> QED
  BY <1>1, <1>2, <1>3, PTL DEF MCSpec, PillNoFlicker, P!NoFlicker

-----------------------------------------------------------------------------
(* The window's threads.                                                   *)

(* Each thread has an id and a folder of roots, and no chat has two.       *)
Rows(ts, top, roots, of) ==
  /\ \A t \in ts :
       /\ DOMAIN t = {"id", "root", "session", "live", "choice"}
       /\ t.id \in 1..top /\ t.root \in roots
       /\ t.session # NoSession => t.session \in Sessions /\ of[t.session] = t.root
  /\ \A t, u \in ts : t.id = u.id \/ (t.session = u.session /\ t.session # NoSession) => t = u

Disk ==
  /\ folder \in [Sessions -> Projects \cup {NoProject}] /\ onDisk \subseteq Sessions
  /\ \A s \in onDisk : folder[s] # NoProject
Listing ==
  /\ projects \in Seq(Projects) /\ project \in W!Roots \cup {NoProject}
  /\ \A i, j \in DOMAIN projects : projects[i] = projects[j] => i = j
OpenThreads == Disk /\ Listing /\ made \in 0..MaxThreads /\ Rows(threads, made, W!Roots, folder)

(* Where the user is.                                                      *)
OnPage ==
  /\ page.at \in {"home", "setup", "customize", "search", "thread"}
  /\ page = IF page.at = "thread" THEN W!ThreadPage(page.id) ELSE W!Page(page.at)
  /\ page.at = "thread" => page.id \in 1..made

LEMMA SessionRows ==
  ASSUME NEW S \in SUBSET Sessions
  PROVE  /\ W!SetToSeq(S) \in [1..Cardinality(S) -> S] /\ Cardinality(S) \in Nat
         /\ DOMAIN W!SetToSeq(S) = 1..Cardinality(S)
         /\ \A i, j \in 1..Cardinality(S) : W!SetToSeq(S)[i] = W!SetToSeq(S)[j] => i = j
         /\ Cardinality(S) <= Cardinality(Sessions)
<1>1. IsFiniteSet(S) /\ Cardinality(S) <= Cardinality(Sessions)
  BY FS_Subset, WindowAssumption
<1>2. ExistsBijection(1..Cardinality(S), S) /\ Cardinality(S) \in Nat
  BY <1>1, FS_CardinalityType
<1>3. PICK f \in [1..Cardinality(S) -> S] : IsInjective(f)
  BY <1>2 DEF ExistsBijection, Bijection, Injection
<1>4. W!IsInjective(f)
  BY <1>3 DEF W!IsInjective, IsInjective
<1>5. W!Cardinality(S) = Cardinality(S)
  BY DEF W!Cardinality, Cardinality
<1>6. W!SetToSeq(S) \in [1..Cardinality(S) -> S] /\ W!IsInjective(W!SetToSeq(S))
  BY <1>4, <1>5 DEF W!SetToSeq
<1>7. DOMAIN W!SetToSeq(S) = 1..Cardinality(S)
  BY <1>6
<1> QED
  BY <1>1, <1>2, <1>6, <1>7 DEF W!IsInjective

(* The chats that a folder has when it is opened.                          *)
LEMMA SavedRows ==
  ASSUME Disk, NEW root, NEW first \in Nat, NEW m
  PROVE  LET S == {s \in onDisk : folder[s] = root}
             T == W!SavedThreads(root, first, m)
         IN  /\ Cardinality(T) = Cardinality(S) /\ Cardinality(T) \in Nat
             /\ Cardinality(T) <= Cardinality(Sessions)
             /\ \A t \in T :
                  /\ DOMAIN t = {"id", "root", "session", "live", "choice"}
                  /\ t.id \in first + 1 .. first + Cardinality(T) /\ t.root = root
                  /\ t.session \in S /\ t.choice = m
             /\ \A t, u \in T : t.id = u.id \/ t.session = u.session => t = u
<1> DEFINE S == {s \in onDisk : folder[s] = root}
           T == W!SavedThreads(root, first, m)
           rows == W!SetToSeq(S)
           N == 1..Cardinality(S)
           new == [i \in N |-> W!NewThread(first + i, root, rows[i], m)]
<1>1. S \in SUBSET Sessions
  BY DEF Disk
<1>2. /\ rows \in [N -> S] /\ Cardinality(S) \in Nat /\ DOMAIN rows = N
      /\ \A i, j \in N : rows[i] = rows[j] => i = j
      /\ Cardinality(S) <= Cardinality(Sessions)
  BY <1>1, SessionRows
<1> HIDE DEF rows, S
<1>3. T = {W!NewThread(first + i, root, rows[i], m) : i \in N}
  BY <1>2 DEF W!SavedThreads, rows, S
<1>4. /\ new \in [N -> T] /\ \A t \in T : \E i \in N : t = new[i]
  BY <1>3
<1>5. \A i \in N : /\ DOMAIN new[i] = {"id", "root", "session", "live", "choice"}
                   /\ new[i].id = first + i /\ new[i].root = root /\ new[i].session = rows[i]
                   /\ new[i].choice = m
  BY DEF W!NewThread
<1> HIDE DEF T, new, N
<1>6. \A i, j \in N : new[i] = new[j] => i = j
  BY <1>2, <1>5
<1>7. ExistsBijection(N, T)
  <2>1. new \in Injection(N, T)
    BY <1>4, <1>6 DEF Injection, IsInjective
  <2>2. new \in Surjection(N, T)
    BY <1>4 DEF Surjection
  <2> QED
    BY <2>1, <2>2 DEF ExistsBijection, Bijection
<1>8. IsFiniteSet(N) /\ Cardinality(N) = Cardinality(S)
  BY <1>2, FS_Interval DEF N
<1>9. Cardinality(T) = Cardinality(S)
  BY <1>7, <1>8, FS_Bijection
<1>10. ASSUME NEW t \in T
       PROVE  /\ DOMAIN t = {"id", "root", "session", "live", "choice"}
              /\ t.id \in first + 1 .. first + Cardinality(T) /\ t.root = root
              /\ t.session \in S /\ t.choice = m
  <2>1. PICK i \in N : t = new[i]
    BY <1>4
  <2>2. rows[i] \in S /\ first + i \in first + 1 .. first + Cardinality(S)
    BY <1>2 DEF N
  <2> QED
    BY <1>5, <1>9, <2>1, <2>2
<1>11. \A t, u \in T : t.id = u.id \/ t.session = u.session => t = u
  BY <1>2, <1>4, <1>5 DEF N
<1> QED
  BY <1>2, <1>9, <1>10, <1>11 DEF S, T

(* A thread that starts its worker keeps its place and its model.          *)
LEMMA StartsRows ==
  ASSUME NEW ts, NEW top, NEW roots \in SUBSET Projects, Rows(ts, top, roots, folder), Disk,
         NEW t \in ts, W!Starts(ts, t)
  PROVE  /\ Rows(threads', top, roots, folder') /\ Disk'
         /\ \A u \in threads' : \E v \in ts : u.id = v.id /\ u.choice = v.choice
         /\ \E u \in threads' : u.id = t.id
<1> USE WindowAssumption
<1>1. CASE threads' = ts /\ UNCHANGED <<folder, onDisk>>
  BY <1>1 DEF Disk
<1>2. CASE /\ threads' = (ts \ {t}) \cup {[t EXCEPT !.live = TRUE]}
           /\ UNCHANGED <<folder, onDisk>>
  <2> DEFINE u == [t EXCEPT !.live = TRUE]
  <2>1. /\ DOMAIN u = {"id", "root", "session", "live", "choice"} /\ u.id = t.id
        /\ u.root = t.root /\ u.session = t.session /\ u.choice = t.choice
    BY DEF Rows
  <2> HIDE DEF u
  <2>2. threads' = (ts \ {t}) \cup {u} /\ UNCHANGED <<folder, onDisk>>
    BY <1>2 DEF u
  <2>3. Rows(threads', top, roots, folder)
    BY <2>1, <2>2 DEF Rows
  <2> QED
    BY <2>1, <2>2, <2>3 DEF Disk
<1>3. ASSUME NEW s \in Sessions, t.session = NoSession, folder[s] = NoProject,
             threads' = (ts \ {t}) \cup {[t EXCEPT !.live = TRUE, !.session = s]},
             folder' = [folder EXCEPT ![s] = t.root], onDisk' \in {onDisk, onDisk \cup {s}}
      PROVE  /\ Rows(threads', top, roots, folder') /\ Disk'
             /\ \A u \in threads' : \E v \in ts : u.id = v.id /\ u.choice = v.choice
             /\ \E u \in threads' : u.id = t.id
  <2> DEFINE u == [t EXCEPT !.live = TRUE, !.session = s]
  <2>1. /\ DOMAIN u = {"id", "root", "session", "live", "choice"} /\ u.id = t.id
        /\ u.root = t.root /\ u.session = s /\ u.choice = t.choice
    BY DEF Rows
  <2> HIDE DEF u
  <2>2. threads' = (ts \ {t}) \cup {u}
    BY <1>3 DEF u
  <2>3. t.root \in roots /\ t.root \in Projects /\ t.root # NoProject
    BY DEF Rows
  <2>4. \A v \in ts : v.session # s /\ (v.session # NoSession => folder'[v.session] = v.root)
    BY <1>3 DEF Rows, Disk
  <2>5. folder'[s] = t.root
    BY <1>3 DEF Disk
  <2>6. ASSUME NEW v \in threads'
        PROVE  /\ DOMAIN v = {"id", "root", "session", "live", "choice"}
               /\ v.id \in 1..top /\ v.root \in roots
               /\ v.session # NoSession => v.session \in Sessions /\ folder'[v.session] = v.root
    <3>1. CASE v = u
      BY <3>1, <2>1, <2>3, <2>5 DEF Rows
    <3>2. CASE v \in ts
      BY <3>2, <2>4 DEF Rows
    <3> QED
      BY <2>2, <3>1, <3>2
  <2>7. \A v, w \in threads' :
          v.id = w.id \/ (v.session = w.session /\ v.session # NoSession) => v = w
    BY <2>1, <2>2, <2>4 DEF Rows
  <2>8. Disk'
    BY <1>3, <2>3 DEF Disk
  <2> QED
    BY <2>1, <2>2, <2>6, <2>7, <2>8 DEF Rows
<1> QED
  BY <1>1, <1>2, <1>3 DEF W!Starts

LEMMA InitThreads == W!Init => OpenThreads /\ OnPage
<1> SUFFICES ASSUME W!Init PROVE OpenThreads /\ OnPage
  OBVIOUS
<1> USE WindowAssumption
<1>1. Disk
  BY DEF W!Init, Disk
<1>2. Listing
  <2>1. CASE projects = <<>>
    <3>1. project = NoProject
      BY <2>1 DEF W!Init, W!LastOf
    <3>2. projects \in Seq(Projects) /\ DOMAIN projects = {}
      BY <2>1
    <3> QED
      BY <3>1, <3>2 DEF Listing
  <2>2. ASSUME NEW p \in Projects, projects = <<p>> PROVE Listing
    <3>1. project = p
      BY <2>2 DEF W!Init, W!LastOf, W!Last
    <3>2. W!Roots = {p}
      BY <2>2 DEF W!Roots, W!ToSet
    <3> QED
      BY <2>2, <3>1, <3>2 DEF Listing
  <2> QED
    BY <2>1, <2>2 DEF W!Init
<1>3. made \in 0..MaxThreads /\ Rows(threads, made, W!Roots, folder)
  <2>1. made = Cardinality(threads)
    <3>1. W!Cardinality(threads) = Cardinality(threads)
      BY DEF W!Cardinality, Cardinality
    <3> QED
      BY <3>1 DEF W!Init
  <2>2. CASE projects = <<>>
    <3>1. threads = {} /\ made = 0
      BY <2>1, <2>2, FS_EmptySet DEF W!Init
    <3> QED
      BY <3>1 DEF Rows
  <2>3. CASE projects # <<>>
    <3>1. threads = W!SavedThreads(project, 0, default)
      BY <2>3 DEF W!Init
    <3>2. project \in W!Roots
      <4>1. PICK p \in Projects : projects = <<p>>
        BY <2>3 DEF W!Init
      <4>2. project = p
        BY <4>1 DEF W!Init, W!LastOf, W!Last
      <4> QED
        BY <4>1, <4>2 DEF W!Roots, W!ToSet
    <3>3. /\ Cardinality(threads) \in Nat /\ Cardinality(threads) <= Cardinality(Sessions)
          /\ \A t \in threads :
               /\ DOMAIN t = {"id", "root", "session", "live", "choice"}
               /\ t.id \in 0 + 1 .. 0 + Cardinality(threads) /\ t.root = project
               /\ t.session \in {s \in onDisk : folder[s] = project}
          /\ \A t, u \in threads : t.id = u.id \/ t.session = u.session => t = u
      BY <1>1, <3>1, SavedRows
    <3>4. Cardinality(Sessions) \in Nat
      BY FS_CardinalityType
    <3> QED
      BY <1>1, <2>1, <3>2, <3>3, <3>4 DEF Rows, Disk
  <2> QED
    BY <2>2, <2>3
<1>4. OnPage
  BY DEF W!Init, OnPage, W!Home, W!Page
<1> QED
  BY <1>1, <1>2, <1>3, <1>4 DEF OpenThreads

(* A thread of its own for a new chat.                                     *)
LEMMA NewRow ==
  ASSUME NEW ts, NEW top \in Nat, NEW roots, Rows(ts, top, roots, folder), NEW id \in Nat, top < id,
         NEW root \in roots, NEW session, NEW m,
         session = NoSession \/ (/\ session \in Sessions /\ folder[session] = root
                                /\ \A t \in ts : t.session # session)
  PROVE  Rows(ts \cup {W!NewThread(id, root, session, m)}, id, roots, folder)
<1> DEFINE new == W!NewThread(id, root, session, m)
<1>1. /\ DOMAIN new = {"id", "root", "session", "live", "choice"} /\ new.id = id
      /\ new.root = root /\ new.session = session
  BY DEF W!NewThread
<1> HIDE DEF new
<1>2. \A t \in ts : t.id \in 1..id /\ t.id # id
  BY DEF Rows
<1>3. Rows(ts \cup {new}, id, roots, folder)
  BY <1>1, <1>2 DEF Rows
<1> QED
  BY <1>3 DEF new

LEMMA MoreRows ==
  ASSUME NEW ts, NEW top, NEW roots, Rows(ts, top, roots, folder),
         NEW us, NEW more, \A t \in us : t \in ts, roots \subseteq more
  PROVE  Rows(us, top, more, folder)
  BY DEF Rows

(* The threads that a step leaves alone or only closes.                    *)
LEMMA ThreadsStay ==
  ASSUME OpenThreads, UNCHANGED <<folder, projects, project, made>>,
         onDisk' \subseteq onDisk, threads' \subseteq threads
  PROVE  OpenThreads'
<1>1. Disk' /\ Listing'
  BY DEF OpenThreads, Disk, Listing, W!Roots
<1>2. Rows(threads', made, W!Roots, folder)
  BY DEF OpenThreads, Rows
<1> QED
  BY <1>1, <1>2 DEF OpenThreads, W!Roots

LEMMA WithoutOne ==
  ASSUME NEW S, NEW s \in Seq(S), NEW k \in 1..Len(s)
  PROVE  /\ W!RemoveAt(s, k) \in Seq(S) /\ Len(W!RemoveAt(s, k)) = Len(s) - 1
         /\ \A i \in 1..(Len(s) - 1) : W!RemoveAt(s, k)[i] = s[IF i < k THEN i ELSE i + 1]
<1> DEFINE before == SubSeq(s, 1, k - 1)
           after == SubSeq(s, k + 1, Len(s))
           L == Len(s)
<1>1. /\ L \in Nat /\ k \in Int /\ 1 <= k /\ k <= L /\ k - 1 \in Int /\ k + 1 \in Int
      /\ \A i \in 1..L : s[i] \in S
  BY LenProperties, ElementOfSeq
<1> HIDE DEF L
<1>2. /\ before \in Seq(S) /\ Len(before) = k - 1
      /\ \A i \in 1..(k - 1) : before[i] = s[i]
  <2>1. \A i \in 1..(k - 1) : s[i] \in S
    BY <1>1
  <2>2. /\ before \in Seq(S) /\ Len(before) = IF 1 <= k - 1 THEN (k - 1) - 1 + 1 ELSE 0
        /\ \A i \in 1..((k - 1) - 1 + 1) : before[i] = s[1 + i - 1]
    BY <1>1, <2>1, SubSeqProperties
  <2> HIDE DEF before
  <2> QED
    BY <1>1, <2>2
<1>3. /\ after \in Seq(S) /\ Len(after) = L - k
      /\ \A i \in 1..(L - k) : after[i] = s[k + i]
  <2>1. \A i \in (k + 1)..L : s[i] \in S
    BY <1>1
  <2>2. /\ after \in Seq(S) /\ Len(after) = IF k + 1 <= L THEN L - (k + 1) + 1 ELSE 0
        /\ \A i \in 1..(L - (k + 1) + 1) : after[i] = s[(k + 1) + i - 1]
    BY <1>1, <2>1, SubSeqProperties DEF L
  <2> HIDE DEF after
  <2>3. \A i \in 1..(L - k) : (k + 1) + i - 1 = k + i /\ i \in 1..(L - (k + 1) + 1)
    BY <1>1
  <2> QED
    BY <1>1, <2>2, <2>3
<1>4. W!RemoveAt(s, k) = before \o after
  BY DEF W!RemoveAt
<1> HIDE DEF before, after
<1>5. /\ before \o after \in Seq(S) /\ Len(before \o after) = (k - 1) + (L - k)
      /\ \A i \in 1..((k - 1) + (L - k)) :
           (before \o after)[i] = IF i <= k - 1 THEN before[i] ELSE after[i - (k - 1)]
  <2>1. /\ before \o after \in Seq(S) /\ Len(before \o after) = Len(before) + Len(after)
        /\ \A i \in 1..(Len(before) + Len(after)) :
             (before \o after)[i] = IF i <= Len(before) THEN before[i] ELSE after[i - Len(before)]
    BY <1>2, <1>3, ConcatProperties
  <2> QED
    BY <1>2, <1>3, <2>1
<1>6. ASSUME NEW i \in 1..(L - 1)
      PROVE  (before \o after)[i] = s[IF i < k THEN i ELSE i + 1]
  <2>1. (before \o after)[i] = IF i <= k - 1 THEN before[i] ELSE after[i - (k - 1)]
    BY <1>1, <1>5
  <2>2. CASE i < k
    BY <1>1, <1>2, <2>1, <2>2
  <2>3. CASE ~(i < k)
    <3>1. i - (k - 1) \in 1..(L - k) /\ k + (i - (k - 1)) = i + 1 /\ ~(i <= k - 1)
      BY <1>1, <2>3
    <3>2. after[i - (k - 1)] = s[k + (i - (k - 1))]
      BY <1>3, <3>1
    <3> QED
      BY <2>1, <2>3, <3>1, <3>2
  <2> QED
    BY <2>2, <2>3
<1>7. Len(before \o after) = L - 1
  BY <1>1, <1>5
<1> QED
  BY <1>4, <1>5, <1>6, <1>7 DEF L

LEMMA ListRemoved ==
  ASSUME Listing, NEW root \in W!Roots,
         projects' = W!RemoveAt(projects, CHOOSE i \in DOMAIN projects : projects[i] = root),
         project' = IF project = root THEN W!LastOf(projects') ELSE project
  PROVE  Listing' /\ W!Roots' = W!Roots \ {root}
<1> DEFINE k == CHOOSE i \in DOMAIN projects : projects[i] = root
           L == Len(projects)
<1>1. k \in DOMAIN projects /\ projects[k] = root
  BY DEF W!Roots, W!ToSet
<1>2. projects' = W!RemoveAt(projects, k)
  OBVIOUS
<1> HIDE DEF k
<1>3. projects \in Seq(Projects) /\ L \in Nat /\ DOMAIN projects = 1..L
  BY LenProperties DEF Listing
<1>k. k \in Int /\ 1 <= k /\ k <= L
  BY <1>1, <1>3
<1>4. /\ projects' \in Seq(Projects) /\ Len(projects') = L - 1
      /\ \A i \in 1..(L - 1) : projects'[i] = projects[IF i < k THEN i ELSE i + 1]
  <2>1. k \in 1..Len(projects) /\ projects \in Seq(Projects)
    BY <1>1, <1>3
  <2>2. /\ W!RemoveAt(projects, k) \in Seq(Projects)
        /\ Len(W!RemoveAt(projects, k)) = Len(projects) - 1
        /\ \A i \in 1..(Len(projects) - 1) :
             W!RemoveAt(projects, k)[i] = projects[IF i < k THEN i ELSE i + 1]
    BY <2>1, WithoutOne
  <2> QED
    BY <1>2, <2>2
<1>d. DOMAIN projects' = 1..(L - 1)
  BY <1>4, LenProperties
<1> HIDE DEF L
<1>5. ASSUME NEW i \in DOMAIN projects', NEW j \in DOMAIN projects', projects'[i] = projects'[j]
      PROVE  i = j
  <2> DEFINE a == IF i < k THEN i ELSE i + 1
             b == IF j < k THEN j ELSE j + 1
  <2>1. a \in DOMAIN projects /\ b \in DOMAIN projects /\ i \in Int /\ j \in Int
    BY <1>3, <1>d, <1>k
  <2>2. projects[a] = projects[b]
    BY <1>4, <1>5, <1>d
  <2>3. a = b
    BY <2>1, <2>2 DEF Listing
  <2> QED
    BY <1>k, <2>1, <2>3
<1>6. W!Roots' = W!Roots \ {root}
  <2>1. ASSUME NEW i \in DOMAIN projects' PROVE projects'[i] \in W!Roots \ {root}
    <3> DEFINE a == IF i < k THEN i ELSE i + 1
    <3>1. a \in DOMAIN projects /\ a # k
      BY <1>3, <1>d, <1>k
    <3>2. projects'[i] = projects[a]
      BY <1>4, <1>d
    <3> HIDE DEF a
    <3>3. projects[a] # root
      BY <1>1, <3>1 DEF Listing
    <3> QED
      BY <3>1, <3>2, <3>3 DEF W!Roots, W!ToSet
  <2>2. ASSUME NEW i \in DOMAIN projects, projects[i] # root
        PROVE  \E j \in DOMAIN projects' : projects'[j] = projects[i]
    <3>1. i # k /\ i \in 1..L
      BY <1>1, <1>3, <2>2
    <3>2. CASE i < k
      <4>1. i \in DOMAIN projects' /\ i \in 1..(L - 1)
        BY <1>3, <1>d, <1>k, <3>1, <3>2
      <4>2. projects'[i] = projects[i]
        BY <1>4, <3>2, <4>1
      <4> QED
        BY <4>1, <4>2
    <3>3. CASE i > k
      <4>1. i - 1 \in DOMAIN projects' /\ ~(i - 1 < k) /\ (i - 1) + 1 = i
        BY <1>3, <1>d, <1>k, <3>1, <3>3
      <4>2. projects'[i - 1] = projects[i]
        BY <1>4, <1>d, <4>1
      <4> QED
        BY <4>1, <4>2
    <3> QED
      <4>1. i < k \/ i > k
        BY <1>3, <1>k, <3>1
      <4> QED
        BY <3>2, <3>3, <4>1
  <2>3. ASSUME NEW x PROVE x \in W!Roots' <=> \E i \in DOMAIN projects' : x = projects'[i]
    BY DEF W!Roots, W!ToSet
  <2>4. ASSUME NEW x PROVE x \in W!Roots <=> \E i \in DOMAIN projects : x = projects[i]
    BY DEF W!Roots, W!ToSet
  <2> QED
    BY <2>1, <2>2, <2>3, <2>4
<1>7. project' \in W!Roots' \cup {NoProject}
  <2>1. CASE project # root
    BY <1>6, <2>1 DEF Listing
  <2>2. CASE project = root /\ projects' = <<>>
    BY <2>2 DEF W!LastOf
  <2>3. CASE project = root /\ projects' # <<>>
    <3>1. project' = projects'[Len(projects')]
      BY <2>3 DEF W!LastOf, W!Last
    <3>2. Len(projects') \in DOMAIN projects'
      BY <1>4, <2>3, EmptySeq, LenProperties
    <3> QED
      BY <3>1, <3>2 DEF W!Roots, W!ToSet
  <2> QED
    BY <2>1, <2>2, <2>3
<1> QED
  BY <1>4, <1>5, <1>6, <1>7 DEF Listing

LEMMA ListAdded ==
  ASSUME Listing, NEW root \in Projects,
         projects' = IF root \notin W!Roots THEN Append(projects, root) ELSE projects,
         project' = root
  PROVE  Listing' /\ W!Roots' = W!Roots \cup {root}
<1>3. projects \in Seq(Projects) /\ Len(projects) \in Nat /\ DOMAIN projects = 1..Len(projects)
  BY DEF Listing
<1>1. CASE root \in W!Roots
  BY <1>1 DEF Listing, W!Roots, W!ToSet
<1>2. CASE root \notin W!Roots
  <2>1. /\ projects' \in Seq(Projects) /\ DOMAIN projects' = 1..(Len(projects) + 1)
        /\ \A i \in 1..Len(projects) : projects'[i] = projects[i]
        /\ projects'[Len(projects) + 1] = root
    BY <1>2, <1>3
  <2>2. W!Roots' = W!Roots \cup {root}
    BY <1>3, <2>1 DEF W!Roots, W!ToSet
  <2>3. \A i \in 1..Len(projects) : projects[i] # root
    BY <1>2, <1>3 DEF W!Roots, W!ToSet
  <2> QED
    BY <1>3, <2>1, <2>2, <2>3 DEF Listing
<1> QED
  BY <1>1, <1>2

LEMMA PageStays ==
  ASSUME OnPage, made \in Nat, made' \in Nat, made <= made', page' = page
  PROVE  OnPage'
  BY DEF OnPage, W!ThreadPage, W!Page

LEMMA PageOpens ==
  ASSUME NEW to, page' = to,
         \/ to \in {W!Page("home"), W!Page("setup"), W!Page("customize"), W!Page("search")}
         \/ \E id \in 1..made' : to = W!ThreadPage(id)
  PROVE  OnPage'
  BY DEF OnPage, W!ThreadPage, W!Page

(* The steps that make no thread and change no folder.                     *)
Browses ==
  \/ \E at \in {"home", "setup", "customize"} : W!Visit(W!Page(at))
  \/ \E t \in threads : W!Visit(W!ThreadPage(t.id)) \/ W!Delete(t)
  \/ \E text \in W!Texts : W!Type(text)
  \/ W!FinishSetup \/ \E message \in W!Texts \cup {""} : W!AskFolder(message)
  \/ W!DialogCancelled \/ W!OpenSearch
  \/ \E q \in W!Queries : W!TypeQuery(q)
  \/ \E s \in Sessions : W!WorkerCloses(s)
  \/ W!SearchReads \/ W!SearchAnswers
  \/ \E f \in forgets : W!Forget(f)

LEMMA BrowsesThreads ==
  ASSUME OpenThreads, OnPage, Browses
  PROVE  OpenThreads' /\ OnPage'
<1> USE DEF W!place, W!searching, W!store, W!settings
<1>1. /\ UNCHANGED <<folder, projects, project, made>>
      /\ onDisk' \subseteq onDisk /\ threads' \subseteq threads
  <2>1. CASE \E at \in {"home", "setup", "customize"} : W!Visit(W!Page(at))
    BY <2>1 DEF W!Visit
  <2>2. CASE \E t \in threads : W!Visit(W!ThreadPage(t.id))
    BY <2>2 DEF W!Visit
  <2>3. CASE \E t \in threads : W!Delete(t)
    BY <2>3 DEF W!Delete
  <2>4. CASE \E text \in W!Texts : W!Type(text)
    BY <2>4 DEF W!Type
  <2>5. CASE W!FinishSetup \/ W!DialogCancelled \/ W!OpenSearch
    BY <2>5 DEF W!FinishSetup, W!DialogCancelled, W!OpenSearch
  <2>6. CASE \E message \in W!Texts \cup {""} : W!AskFolder(message)
    BY <2>6 DEF W!AskFolder
  <2>7. CASE \E q \in W!Queries : W!TypeQuery(q)
    BY <2>7 DEF W!TypeQuery
  <2>8. CASE \E s \in Sessions : W!WorkerCloses(s)
    BY <2>8 DEF W!WorkerCloses
  <2>9. CASE W!SearchReads \/ W!SearchAnswers
    BY <2>9 DEF W!SearchReads, W!SearchAnswers
  <2>10. CASE \E f \in forgets : W!Forget(f)
    BY <2>10 DEF W!Forget
  <2> QED
    BY <2>1, <2>2, <2>3, <2>4, <2>5, <2>6, <2>7, <2>8, <2>9, <2>10 DEF Browses
<1>2. OpenThreads'
  BY <1>1, ThreadsStay
<1>m. made \in Nat /\ made' = made
  BY <1>1, WindowAssumption DEF OpenThreads
<1>3. OnPage'
  <2>0. \A t \in threads : t.id \in 1..made'
    BY <1>m DEF OpenThreads, Rows
  <2>1. CASE page' = page
    BY <1>m, <2>1, PageStays
  <2>2. CASE \E at \in {"home", "setup", "customize"} : W!Visit(W!Page(at))
    BY <2>2, PageOpens DEF W!Visit, W!Opened
  <2>3. CASE \E t \in threads : W!Visit(W!ThreadPage(t.id))
    BY <2>0, <2>3, PageOpens DEF W!Visit, W!Opened
  <2>4. CASE W!FinishSetup \/ W!OpenSearch
    BY <2>4, PageOpens DEF W!FinishSetup, W!OpenSearch, W!Opened, W!Home
  <2>5. ASSUME NEW t \in threads, W!Delete(t) PROVE OnPage'
    <3>1. page' = page \/ page' = W!Page("home")
      BY <2>5 DEF W!Delete, W!Opened, W!Home
    <3> QED
      BY <2>1, <3>1, PageOpens
  <2>6. ASSUME NEW text, W!Type(text) PROVE page' = page
    BY <2>6 DEF W!Type
  <2>7. ASSUME NEW message, W!AskFolder(message) PROVE page' = page
    BY <2>7 DEF W!AskFolder
  <2>8. ASSUME NEW q, W!TypeQuery(q) PROVE page' = page
    BY <2>8 DEF W!TypeQuery
  <2>9. ASSUME NEW x, W!WorkerCloses(x) \/ W!Forget(x) PROVE page' = page
    BY <2>9 DEF W!WorkerCloses, W!Forget
  <2>10. W!DialogCancelled \/ W!SearchReads \/ W!SearchAnswers => page' = page
    BY DEF W!DialogCancelled, W!SearchReads, W!SearchAnswers
  <2> QED
    BY <2>1, <2>2, <2>3, <2>4, <2>5, <2>6, <2>7, <2>8, <2>9, <2>10 DEF Browses
<1> QED
  BY <1>2, <1>3

(* A new thread that starts its worker.                                    *)
LEMMA StartsAdded ==
  ASSUME NEW ts, NEW top \in Nat, NEW roots \in SUBSET Projects, Rows(ts, top, roots, folder), Disk,
         NEW id \in Nat, top < id, NEW root \in roots, NEW m,
         LET t == W!NewThread(id, root, NoSession, m) IN W!Starts(ts \cup {t}, t)
  PROVE  Rows(threads', id, roots, folder') /\ Disk'
<1> DEFINE t == W!NewThread(id, root, NoSession, m)
           us == ts \cup {t}
<1>1. Rows(us, id, roots, folder)
  BY NewRow
<1>2. t \in us /\ W!Starts(us, t)
  OBVIOUS
<1> HIDE DEF us, t
<1> QED
  BY <1>1, <1>2, StartsRows

LEMMA ChooseThreads ==
  ASSUME OpenThreads, OnPage, NEW m, W!Choose(m)
  PROVE  OpenThreads' /\ OnPage'
<1>1. /\ UNCHANGED <<folder, projects, project, made, onDisk, page>>
      /\ threads' = {IF page = W!ThreadPage(t.id) THEN [t EXCEPT !.choice = m] ELSE t : t \in threads}
  BY DEF W!Choose, W!store
<1>2. \A u \in threads' : \E t \in threads :
        /\ DOMAIN u = DOMAIN t /\ u.id = t.id /\ u.root = t.root /\ u.session = t.session
        /\ u = IF page = W!ThreadPage(t.id) THEN [t EXCEPT !.choice = m] ELSE t
  BY <1>1 DEF OpenThreads, Rows
<1>3. Rows(threads', made, W!Roots, folder)
  BY <1>2 DEF OpenThreads, Rows
<1>4. OpenThreads'
  BY <1>1, <1>3 DEF OpenThreads, Disk, Listing, W!Roots
<1>5. OnPage'
  BY <1>1 DEF OnPage, W!ThreadPage, W!Page
<1> QED
  BY <1>4, <1>5

LEMMA SendThreads ==
  ASSUME OpenThreads, OnPage, W!Send
  PROVE  OpenThreads' /\ OnPage'
<1> USE WindowAssumption
<1>1. UNCHANGED <<projects, project>> /\ Listing' /\ W!Roots' = W!Roots
  BY DEF W!Send, W!settings, OpenThreads, Listing, W!Roots
<1>2. W!Roots \in SUBSET Projects /\ made \in Nat
  BY DEF OpenThreads, Listing, W!Roots, W!ToSet
<1>3. CASE /\ page = W!Home /\ project # NoProject
           /\ W!NewChat(threads, made + 1, project, choice, [editor EXCEPT !.text = ""])
  <2>1. /\ made' = made + 1 /\ made' <= MaxThreads /\ page' = W!ThreadPage(made + 1)
        /\ LET t == W!NewThread(made + 1, project, NoSession, choice)
           IN  W!Starts(threads \cup {t}, t)
    BY <1>3 DEF W!NewChat, W!Opened
  <2>2. Rows(threads', made + 1, W!Roots, folder') /\ Disk'
    <3>1. project \in W!Roots
      <4>1. project \in W!Roots \cup {NoProject} /\ project # NoProject
        BY <1>3 DEF OpenThreads, Listing
      <4> QED
        BY <4>1
    <3>2. made + 1 \in Nat /\ made < made + 1
      BY <1>2
    <3> QED
      BY <1>2, <2>1, <3>1, <3>2, StartsAdded DEF OpenThreads
  <2>3. OpenThreads'
    BY <1>1, <1>2, <2>1, <2>2 DEF OpenThreads
  <2>4. OnPage'
    <3>1. made + 1 \in 1..made'
      BY <1>2, <2>1
    <3> QED
      BY <2>1, <3>1, PageOpens
  <2> QED
    BY <2>3, <2>4
<1>4. ASSUME NEW t \in threads, W!Starts(threads, t), W!Opened(page), UNCHANGED made
      PROVE  OpenThreads' /\ OnPage'
  <2>1. Rows(threads', made, W!Roots, folder') /\ Disk'
    BY <1>2, <1>4, StartsRows DEF OpenThreads
  <2>2. OpenThreads'
    BY <1>1, <1>4, <2>1 DEF OpenThreads
  <2>3. OnPage'
    BY <1>2, <1>4, PageStays DEF W!Opened
  <2> QED
    BY <2>2, <2>3
<1> QED
  BY <1>3, <1>4 DEF W!Send

LEMMA OpenRowThreads ==
  ASSUME OpenThreads, OnPage, NEW s \in Sessions, W!OpenRow(s)
  PROVE  OpenThreads' /\ OnPage'
<1> USE WindowAssumption
<1>1. /\ UNCHANGED <<projects, project, folder, onDisk>> /\ Listing' /\ W!Roots' = W!Roots /\ Disk'
      /\ folder[s] \in W!Roots
  BY DEF W!OpenRow, W!settings, W!store, OpenThreads, Listing, W!Roots, Disk
<1>2. made \in Nat
  BY DEF OpenThreads
<1>3. ASSUME NEW t \in threads, UNCHANGED <<threads, made>>, W!Opened(W!ThreadPage(t.id))
      PROVE  OpenThreads' /\ OnPage'
  <2>1. t.id \in 1..made'
    BY <1>3 DEF OpenThreads, Rows
  <2> QED
    BY <1>1, <1>3, <2>1, PageOpens DEF OpenThreads, W!Opened
<1>4. CASE /\ \A t \in threads : t.session # s
           /\ made < MaxThreads /\ made' = made + 1
           /\ threads' = threads \cup {W!NewThread(made + 1, folder[s], s, default)}
           /\ W!Opened(W!ThreadPage(made + 1))
  <2>1. Rows(threads', made + 1, W!Roots, folder)
    <3>1. made + 1 \in Nat /\ made < made + 1 /\ \A t \in threads : t.session # s
      BY <1>2, <1>4
    <3>2. Rows(threads \cup {W!NewThread(made + 1, folder[s], s, default)}, made + 1, W!Roots, folder)
      BY <1>1, <1>2, <3>1, NewRow DEF OpenThreads
    <3> QED
      BY <1>4, <3>2
  <2>2. OpenThreads'
    BY <1>1, <1>2, <1>4, <2>1 DEF OpenThreads
  <2>3. made + 1 \in 1..made'
    BY <1>2, <1>4
  <2>4. OnPage'
    BY <1>4, <2>3, PageOpens DEF W!Opened
  <2> QED
    BY <2>2, <2>4
<1> QED
  BY <1>3, <1>4 DEF W!OpenRow

LEMMA RemovedThreads ==
  ASSUME OpenThreads, OnPage, NEW root \in Projects, W!RemoveProject(root)
  PROVE  OpenThreads' /\ OnPage' /\ threads' \subseteq threads /\ W!Roots' = W!Roots \ {root}
<1> USE WindowAssumption
<1>1. /\ projects' = W!RemoveAt(projects, CHOOSE i \in DOMAIN projects : projects[i] = root)
      /\ project' = IF project = root THEN W!LastOf(projects') ELSE project
      /\ root \in W!Roots /\ UNCHANGED <<folder, onDisk, made>>
      /\ threads' = threads \ {t \in threads : t.root = root}
  BY DEF W!RemoveProject
<1>2. Listing' /\ W!Roots' = W!Roots \ {root}
  BY <1>1, ListRemoved DEF OpenThreads
<1>3. Rows(threads', made, W!Roots \ {root}, folder)
  BY <1>1 DEF OpenThreads, Rows
<1>4. OpenThreads'
  BY <1>1, <1>2, <1>3 DEF OpenThreads, Disk
<1>5. page' = page \/ page' = W!Page("home")
  BY DEF W!RemoveProject, W!Opened, W!Home
<1>6. OnPage'
  <2>1. made \in Nat
    BY DEF OpenThreads
  <2> QED
    BY <1>1, <1>5, <2>1, PageStays, PageOpens
<1> QED
  BY <1>1, <1>2, <1>4, <1>6

LEMMA FolderRows ==
  ASSUME OpenThreads, NEW root \in Projects,
         NEW saved, saved = IF root \notin W!Roots THEN W!SavedThreads(root, made, default) ELSE {}
  PROVE  /\ Cardinality(saved) \in Nat
         /\ Rows(threads \cup saved, made + Cardinality(saved), W!Roots \cup {root}, folder)
<1> USE WindowAssumption
<1>0. made \in Nat /\ Disk /\ Rows(threads, made, W!Roots, folder)
  BY DEF OpenThreads
<1>1. CASE root \in W!Roots
  <2>1. saved = {} /\ Cardinality(saved) = 0
    BY <1>1, FS_EmptySet
  <2>2. W!Roots \cup {root} = W!Roots
    BY <1>1
  <2>3. threads \cup saved = threads
    BY <2>1
  <2>4. made + Cardinality(saved) = made
    BY <1>0, <2>1
  <2>5. Rows(threads \cup saved, made + Cardinality(saved), W!Roots \cup {root}, folder)
    BY <1>0, <2>2, <2>3, <2>4, Zenon
  <2> QED
    BY <2>1, <2>5
<1>2. CASE root \notin W!Roots
  <2> DEFINE many == Cardinality(saved)
  <2>1. /\ many \in Nat
        /\ \A t \in saved :
             /\ DOMAIN t = {"id", "root", "session", "live", "choice"}
             /\ t.id \in made + 1 .. made + many /\ t.root = root
             /\ t.session \in {s \in onDisk : folder[s] = root}
        /\ \A t, u \in saved : t.id = u.id \/ t.session = u.session => t = u
    <3>1. saved = W!SavedThreads(root, made, default)
      BY <1>2
    <3> QED
      BY <1>0, <3>1, SavedRows
  <2> HIDE DEF many
  <2>2. ASSUME NEW t \in threads, NEW u \in saved
        PROVE  t.id # u.id /\ ~(t.session = u.session /\ t.session # NoSession)
    <3>1. t.id \in 1..made /\ t.root # root /\ (t.session # NoSession => folder[t.session] = t.root)
      BY <1>0, <1>2 DEF Rows
    <3>2. u.id \in made + 1 .. made + many /\ folder[u.session] = root
      BY <2>1
    <3> QED
      BY <1>0, <2>1, <3>1, <3>2
  <2>3. ASSUME NEW t \in threads \cup saved
        PROVE  /\ DOMAIN t = {"id", "root", "session", "live", "choice"}
               /\ t.id \in 1..(made + many) /\ t.root \in W!Roots \cup {root}
               /\ t.session # NoSession => t.session \in Sessions /\ folder[t.session] = t.root
    <3>1. CASE t \in threads
      BY <1>0, <2>1, <3>1 DEF Rows
    <3>2. CASE t \in saved
      BY <1>0, <2>1, <3>2 DEF Disk
    <3> QED
      BY <3>1, <3>2
  <2>4. ASSUME NEW t \in threads \cup saved, NEW u \in threads \cup saved,
               t.id = u.id \/ (t.session = u.session /\ t.session # NoSession)
        PROVE  t = u
    <3>1. CASE t \in threads /\ u \in threads
      BY <1>0, <2>4, <3>1 DEF Rows
    <3>2. CASE t \in saved /\ u \in saved
      BY <2>1, <2>4, <3>2
    <3>3. CASE t \in saved /\ u \in threads
      BY <2>2, <2>4, <3>3
    <3>4. CASE t \in threads /\ u \in saved
      BY <2>2, <2>4, <3>4
    <3> QED
      BY <3>1, <3>2, <3>3, <3>4
  <2> QED
    BY <2>1, <2>3, <2>4 DEF Rows, many
<1> QED
  BY <1>1, <1>2

LEMMA PickedThreads ==
  ASSUME OpenThreads, OnPage, NEW root \in Projects, NEW message, W!FolderPicked(root, message)
  PROVE  OpenThreads' /\ OnPage'
<1> USE WindowAssumption
<1> DEFINE saved == IF root \notin W!Roots THEN W!SavedThreads(root, made, default) ELSE {}
           many == Cardinality(saved)
           home == page.at # "setup" \/ message # ""
           ed == IF home THEN W!Switch(editor, W!ProjectKey(root)) ELSE editor
<1>1. many \in Nat /\ Rows(threads \cup saved, made + many, W!Roots \cup {root}, folder)
  BY FolderRows
<1>2. W!Cardinality(saved) = many
  BY DEF W!Cardinality, Cardinality
<1>3. /\ projects' = IF root \notin W!Roots THEN Append(projects, root) ELSE projects
      /\ project' = root
      /\ made + many <= MaxThreads
  BY <1>2 DEF W!FolderPicked
<1>4. Listing' /\ W!Roots' = W!Roots \cup {root}
  BY <1>3, ListAdded DEF OpenThreads
<1>5. made \in Nat /\ made + many \in Nat /\ W!Roots \cup {root} \in SUBSET Projects /\ Disk
  BY <1>1 DEF OpenThreads, Listing, W!Roots, W!ToSet
<1>6. CASE message # ""
  <2>1. W!NewChat(threads \cup saved, made + many + 1, root, default,
                  W!Discard(ed, W!ProjectKey(NoProject), message))
    BY <1>2, <1>6 DEF W!FolderPicked
  <2> HIDE DEF saved, many, ed
  <2>2. /\ made' = made + many + 1 /\ made' <= MaxThreads /\ page' = W!ThreadPage(made + many + 1)
        /\ LET t == W!NewThread(made + many + 1, root, NoSession, default)
           IN  W!Starts((threads \cup saved) \cup {t}, t)
    BY <2>1 DEF W!NewChat, W!Opened
  <2>3. made + many + 1 \in Nat /\ made + many < made + many + 1 /\ root \in W!Roots \cup {root}
    BY <1>5
  <2>4. Rows(threads', made + many + 1, W!Roots \cup {root}, folder') /\ Disk'
    BY <1>1, <1>5, <2>2, <2>3, StartsAdded
  <2>5. OpenThreads'
    BY <1>4, <2>2, <2>3, <2>4 DEF OpenThreads
  <2>6. made + many + 1 \in 1..made'
    BY <2>2, <2>3, <1>5
  <2> QED
    BY <2>2, <2>5, <2>6, PageOpens
<1>7. CASE message = ""
  <2>1. /\ threads' = threads \cup saved /\ made' = made + many /\ UNCHANGED <<folder, onDisk>>
        /\ page' = page \/ page' = W!Page("home")
    BY <1>2, <1>7 DEF W!FolderPicked, W!Opened, W!Home
  <2> HIDE DEF saved, many
  <2>2. OpenThreads'
    BY <1>1, <1>3, <1>4, <1>5, <2>1 DEF OpenThreads, Disk
  <2>3. made' \in Nat /\ made <= made'
    BY <1>1, <1>5, <2>1
  <2> QED
    BY <1>5, <2>1, <2>2, <2>3, PageStays, PageOpens
<1> QED
  BY <1>6, <1>7

LEMMA ThreadsStep ==
  ASSUME OpenThreads, OnPage, [W!Next]_(W!vars)
  PROVE  OpenThreads' /\ OnPage'
<1>1. CASE Browses
  BY <1>1, BrowsesThreads
<1>2. CASE \E m \in Models : W!Choose(m)
  BY <1>2, ChooseThreads
<1>3. CASE W!Send
  BY <1>3, SendThreads
<1>4. CASE \E s \in Sessions : W!OpenRow(s)
  BY <1>4, OpenRowThreads
<1>5. CASE \E root \in Projects : W!RemoveProject(root)
  BY <1>5, RemovedThreads
<1>6. CASE \E root \in Projects, message \in dialog : W!FolderPicked(root, message)
  BY <1>6, PickedThreads
<1>7. CASE UNCHANGED W!vars
  <2>1. UNCHANGED <<threads, made, folder, onDisk, projects, project, page>>
    BY <1>7 DEF W!vars, W!place, W!store, W!settings
  <2> QED
    BY <2>1 DEF OpenThreads, OnPage, Disk, Listing, W!Roots, W!ThreadPage, W!Page
<1> QED
  BY <1>1, <1>2, <1>3, <1>4, <1>5, <1>6, <1>7 DEF W!Next, Browses

-----------------------------------------------------------------------------
(* Drafts.                                                                 *)

(* The composer and the drafts stand for a text at each place.             *)
Draft(ed, key) == IF key = ed.active THEN ed.text ELSE ed.saved[key]
Composer(ed) ==
  /\ DOMAIN ed = {"text", "active", "saved"} /\ ed.active \in W!Keys /\ DOMAIN ed.saved = W!Keys
Drafting ==
  /\ Composer(editor) /\ DOMAIN typed = W!Keys
  /\ W!HasComposer => editor.active = W!KeyOf(page, project)
  /\ \A key \in W!Keys : typed[key] = Draft(editor, key)

LEMMA Places ==
  /\ W!NoKey \notin W!Keys
  /\ \A p \in Projects \cup {NoProject} : W!ProjectKey(p) \in W!Keys
  /\ \A i \in 1..MaxThreads : W!ThreadKey(i) \in W!Keys
  /\ \A p, q \in Projects \cup {NoProject} : W!ProjectKey(p) = W!ProjectKey(q) => p = q
<1> USE WindowAssumption
<1>1. \A p, q : W!ProjectKey(p) = W!ProjectKey(q) => p = q
  <2>1. \A p : W!ProjectKey(p).project = p
    BY DEF W!ProjectKey
  <2> QED
    BY <2>1
<1>2. W!NoKey.id = MaxThreads + 1
  BY DEF W!NoKey, W!ThreadKey
<1>3. \A p : W!ProjectKey(p).id = 0
  BY DEF W!ProjectKey
<1>4. \A i : W!ThreadKey(i).id = i
  BY DEF W!ThreadKey
<1>5. MaxThreads + 1 # 0 /\ MaxThreads + 1 \notin 1..MaxThreads
  OBVIOUS
<1>6. W!NoKey \notin W!Keys
  BY <1>2, <1>3, <1>4, <1>5 DEF W!Keys
<1> QED
  BY <1>1, <1>6 DEF W!Keys

LEMMA Switches ==
  ASSUME NEW ed, Composer(ed), NEW key \in W!Keys \cup {W!NoKey}
  PROVE  LET new == W!Switch(ed, key) IN
         /\ Composer(new) /\ new.active = IF key = W!NoKey THEN ed.active ELSE key
         /\ \A k \in W!Keys : Draft(new, k) = Draft(ed, k)
<1>1. CASE key = W!NoKey \/ key = ed.active
  BY <1>1, Places DEF W!Switch, Composer
<1>2. CASE key # W!NoKey /\ key # ed.active
  <2> DEFINE left == [ed.saved EXCEPT ![ed.active] = ed.text, ![key] = ""]
             new == [text |-> ed.saved[key], active |-> key, saved |-> left]
  <2>1. W!Switch(ed, key) = new
    BY <1>2 DEF W!Switch
  <2>2. /\ DOMAIN left = W!Keys /\ key \in W!Keys
        /\ \A k \in W!Keys : left[k] = IF k = key THEN ""
                                       ELSE IF k = ed.active THEN ed.text ELSE ed.saved[k]
    BY <1>2 DEF Composer
  <2> HIDE DEF left
  <2>3. /\ DOMAIN new = {"text", "active", "saved"} /\ new.text = ed.saved[key]
        /\ new.active = key /\ new.saved = left
    OBVIOUS
  <2> HIDE DEF new
  <2>4. Composer(new) /\ \A k \in W!Keys : Draft(new, k) = Draft(ed, k)
    BY <1>2, <2>2, <2>3 DEF Composer, Draft
  <2> QED
    BY <1>2, <2>1, <2>3, <2>4
<1> QED
  BY <1>1, <1>2

(* A text sent, or lost, at a place.                                       *)
LEMMA Texted ==
  ASSUME NEW ed, Composer(ed), NEW text
  PROVE  LET new == [ed EXCEPT !.text = text] IN
         /\ Composer(new) /\ new.active = ed.active
         /\ \A k \in W!Keys : Draft(new, k) = IF k = ed.active THEN text ELSE Draft(ed, k)
  BY DEF Composer, Draft

LEMMA Discarded ==
  ASSUME NEW ed, Composer(ed), NEW key \in W!Keys, NEW text, ed.active # key, NEW k \in W!Keys
  PROVE  LET new == W!Discard(ed, key, text) IN
         /\ Composer(new) /\ new.active = ed.active
         /\ k = key /\ Draft(ed, k) = text => Draft(new, k) = ""
         /\ k # key \/ Draft(ed, k) # text => Draft(new, k) = Draft(ed, k)
<1>1. CASE ed.saved[key] # text
  BY <1>1 DEF W!Discard, Draft
<1>2. CASE ed.saved[key] = text
  <2> DEFINE new == [ed EXCEPT !.saved[key] = ""]
  <2>1. /\ DOMAIN new = {"text", "active", "saved"} /\ new.text = ed.text
        /\ new.active = ed.active /\ DOMAIN new.saved = W!Keys
        /\ new.saved[k] = IF k = key THEN "" ELSE ed.saved[k]
    BY DEF Composer
  <2>2. W!Discard(ed, key, text) = new
    BY <1>2 DEF W!Discard
  <2> HIDE DEF new
  <2> QED
    BY <1>2, <2>1, <2>2 DEF Composer, Draft
<1> QED
  BY <1>1, <1>2

LEMMA ProjectInList == OpenThreads => project \in Projects \cup {NoProject}
  BY DEF OpenThreads, Listing, W!Roots, W!ToSet

LEMMA InitDrafts == W!Init => Drafting
<1> SUFFICES ASSUME W!Init PROVE Drafting
  OBVIOUS
<1>1. project \in Projects \cup {NoProject}
  BY InitThreads, ProjectInList
<1>2. W!ProjectKey(project) \in W!Keys /\ W!KeyOf(page, project) = W!ProjectKey(project)
  BY <1>1, Places DEF W!Init, W!KeyOf, W!Home, W!Page
<1>3. /\ editor = [text |-> "", active |-> W!ProjectKey(project), saved |-> [k \in W!Keys |-> ""]]
      /\ typed = [k \in W!Keys |-> ""]
  BY DEF W!Init
<1> QED
  BY <1>2, <1>3 DEF Drafting, Composer, Draft

(* A place is opened, and the texts stay where they are.                   *)
LEMMA DraftsOpen ==
  ASSUME Drafting, NEW ed, Composer(ed), NEW to, NEW root,
         DOMAIN typed' = W!Keys, \A k \in W!Keys : typed'[k] = Draft(ed, k),
         W!KeyOf(to, root) \in W!Keys \cup {W!NoKey}, page' = to, root = project',
         editor' = W!Switch(ed, W!KeyOf(to, root)),
         to.at \in {"home", "thread"} => W!KeyOf(to, root) # W!NoKey
  PROVE  Drafting'
<1> DEFINE key == W!KeyOf(to, root)
<1>1. /\ Composer(editor') /\ editor'.active = IF key = W!NoKey THEN ed.active ELSE key
      /\ \A k \in W!Keys : Draft(editor', k) = Draft(ed, k)
  BY Switches
<1>2. W!HasComposer' => to.at \in {"home", "thread"}
  BY DEF W!HasComposer
<1>3. W!KeyOf(page', project') = key
  OBVIOUS
<1> QED
  BY <1>1, <1>2, <1>3 DEF Drafting, Composer, Draft, W!KeyOf, W!HasComposer, W!ProjectKey, W!ThreadKey, W!NoKey

LEMMA DraftsStay ==
  ASSUME Drafting, UNCHANGED <<editor, typed>>,
         \/ UNCHANGED <<page, project>>
         \/ page'.at \notin {"home", "thread"}
         \/ page' = page /\ page.at # "home"
  PROVE  Drafting'
  BY DEF Drafting, Composer, Draft, W!HasComposer, W!KeyOf, W!NoKey, W!ThreadKey

LEMMA KeysOf ==
  /\ \A root : W!KeyOf(W!Page("home"), root) = W!ProjectKey(root)
  /\ \A id, root : W!KeyOf(W!ThreadPage(id), root) = W!ThreadKey(id)
  /\ \A at \in {"setup", "customize", "search"} : \A root : W!KeyOf(W!Page(at), root) = W!NoKey
  /\ W!Home = W!Page("home")
  BY DEF W!KeyOf, W!Page, W!ThreadPage, W!Home

(* A page with a composer is opened.                                       *)
LEMMA HomeOpens ==
  ASSUME Drafting, OpenThreads', NEW ed, Composer(ed), page' = W!Page("home"),
         editor' = W!Switch(ed, W!ProjectKey(project')),
         DOMAIN typed' = W!Keys, \A k \in W!Keys : typed'[k] = Draft(ed, k)
  PROVE  Drafting'
<1>1. project' \in Projects \cup {NoProject}
  BY DEF OpenThreads, Listing, W!Roots, W!ToSet
<1>2. W!KeyOf(page', project') \in W!Keys /\ W!KeyOf(page', project') # W!NoKey
  BY <1>1, KeysOf, Places
<1>3. editor' = W!Switch(ed, W!KeyOf(page', project'))
  BY KeysOf
<1> QED
  BY <1>2, <1>3, DraftsOpen

LEMMA ThreadOpens ==
  ASSUME Drafting, OpenThreads', NEW ed, Composer(ed), NEW id \in 1..made',
         page' = W!ThreadPage(id), editor' = W!Switch(ed, W!ThreadKey(id)),
         DOMAIN typed' = W!Keys, \A k \in W!Keys : typed'[k] = Draft(ed, k)
  PROVE  Drafting'
<1>1. id \in 1..MaxThreads
  BY WindowAssumption DEF OpenThreads
<1>2. W!KeyOf(page', project') \in W!Keys /\ W!KeyOf(page', project') # W!NoKey
  BY <1>1, KeysOf, Places
<1>3. editor' = W!Switch(ed, W!KeyOf(page', project'))
  BY KeysOf
<1> QED
  BY <1>2, <1>3, DraftsOpen

(* The steps of Browses, and the others that leave the drafts alone.       *)
LEMMA BrowsesDrafts ==
  ASSUME Drafting, OpenThreads, OpenThreads', OnPage, Browses
  PROVE  Drafting'
<1> USE DEF W!place, W!searching, W!store, W!settings
<1>k. DOMAIN typed = W!Keys /\ \A k \in W!Keys : typed[k] = Draft(editor, k)
  BY DEF Drafting
<1>c. Composer(editor)
  BY DEF Drafting
<1>1. ASSUME NEW at \in {"home", "setup", "customize"}, W!Visit(W!Page(at)) PROVE Drafting'
  <2>1. /\ page' = W!Page(at) /\ editor' = W!Switch(editor, W!KeyOf(W!Page(at), project))
        /\ UNCHANGED <<typed, project>>
    BY <1>1 DEF W!Visit, W!Opened
  <2>2. CASE at = "home"
    BY <1>k, <1>c, <2>1, <2>2, HomeOpens, KeysOf
  <2>3. CASE at # "home"
    <3>1. editor' = editor
      BY <2>1, <2>3, KeysOf DEF W!Switch
    <3>2. page'.at \notin {"home", "thread"}
      BY <2>1, <2>3 DEF W!Page
    <3> QED
      BY <2>1, <3>1, <3>2, DraftsStay
  <2> QED
    BY <2>2, <2>3
<1>2. ASSUME NEW t \in threads, W!Visit(W!ThreadPage(t.id)) PROVE Drafting'
  <2>1. /\ page' = W!ThreadPage(t.id) /\ editor' = W!Switch(editor, W!ThreadKey(t.id))
        /\ UNCHANGED <<typed, made>>
    BY <1>2, KeysOf DEF W!Visit, W!Opened
  <2>2. t.id \in 1..made'
    BY <2>1 DEF OpenThreads, Rows
  <2> QED
    BY <1>k, <1>c, <2>1, <2>2, ThreadOpens
<1>3. ASSUME NEW t \in threads, W!Delete(t) PROVE Drafting'
  <2>1. UNCHANGED <<typed, project>>
    BY <1>3 DEF W!Delete
  <2>2. CASE page = W!ThreadPage(t.id)
    <3>1. page' = W!Page("home") /\ editor' = W!Switch(editor, W!ProjectKey(project))
      BY <1>3, <2>2, KeysOf DEF W!Delete, W!Opened
    <3> QED
      BY <1>k, <1>c, <2>1, <3>1, HomeOpens
  <2>3. CASE page # W!ThreadPage(t.id)
    <3>1. UNCHANGED <<page, editor>>
      BY <1>3, <2>3 DEF W!Delete
    <3> QED
      BY <2>1, <3>1, DraftsStay
  <2> QED
    BY <2>2, <2>3
<1>4. ASSUME NEW text, W!Type(text) PROVE Drafting'
  <2>1. /\ W!HasComposer /\ editor' = [editor EXCEPT !.text = text]
        /\ typed' = [typed EXCEPT ![editor.active] = text] /\ UNCHANGED <<page, project>>
    BY <1>4 DEF W!Type, Drafting
  <2>2. /\ Composer(editor') /\ editor'.active = editor.active
        /\ \A k \in W!Keys : Draft(editor', k) = IF k = editor.active THEN text
                                                   ELSE Draft(editor, k)
    BY <1>c, <2>1, Texted
  <2>3. editor.active = W!KeyOf(page, project)
    BY <2>1 DEF Drafting
  <2>4. \A k \in W!Keys : typed'[k] = IF k = editor.active THEN text ELSE typed[k]
    BY <1>k, <2>1
  <2>5. \A k \in W!Keys : typed'[k] = Draft(editor', k)
    BY <1>k, <2>2, <2>4
  <2>6. DOMAIN typed' = W!Keys
    BY <1>k, <2>1
  <2>7. editor'.active = W!KeyOf(page', project')
    BY <2>1, <2>2, <2>3 DEF W!KeyOf, W!ProjectKey, W!ThreadKey, W!NoKey
  <2> QED
    BY <2>2, <2>5, <2>6, <2>7 DEF Drafting, Composer, Draft
<1>5. CASE W!FinishSetup
  <2>1. /\ page' = W!Page("home") /\ editor' = W!Switch(editor, W!ProjectKey(project))
        /\ UNCHANGED <<typed, project>>
    BY <1>5, KeysOf DEF W!FinishSetup, W!Opened
  <2> QED
    BY <1>k, <1>c, <2>1, HomeOpens
<1>6. CASE W!OpenSearch
  BY <1>6, DraftsStay DEF W!OpenSearch, W!Opened, W!Page
<1>7. ASSUME UNCHANGED <<page, project, editor, typed>> PROVE Drafting'
  BY <1>7, DraftsStay
<1>8. ASSUME NEW x, \/ W!AskFolder(x) \/ W!TypeQuery(x) \/ W!WorkerCloses(x) \/ W!Forget(x)
      PROVE  UNCHANGED <<page, project, editor, typed>>
  BY <1>8 DEF W!AskFolder, W!TypeQuery, W!WorkerCloses, W!Forget
<1>9. CASE W!DialogCancelled \/ W!SearchReads \/ W!SearchAnswers
  <2>1. UNCHANGED <<page, project, editor, typed>>
    BY <1>9 DEF W!DialogCancelled, W!SearchReads, W!SearchAnswers
  <2> QED
    BY <1>7, <2>1
<1> QED
  BY <1>1, <1>2, <1>3, <1>4, <1>5, <1>6, <1>7, <1>8, <1>9 DEF Browses

LEMMA SendDrafts ==
  ASSUME Drafting, OpenThreads, OpenThreads', OnPage, W!Send
  PROVE  Drafting'
<1> DEFINE ed == [editor EXCEPT !.text = ""]
<1>1. W!HasComposer /\ editor.active = W!KeyOf(page, project)
  <2>1. page = W!Home \/ \E t \in threads : page = W!ThreadPage(t.id)
    BY DEF W!Send
  <2>2. W!HasComposer
    BY <2>1 DEF W!HasComposer, W!Home, W!Page, W!ThreadPage
  <2> QED
    BY <2>2 DEF Drafting
<1>2. /\ Composer(ed) /\ ed.active = editor.active
      /\ \A k \in W!Keys : Draft(ed, k) = IF k = editor.active THEN "" ELSE Draft(editor, k)
  <2>1. Composer(editor)
    BY DEF Drafting
  <2> QED
    BY <2>1, Texted
<1>3. typed' = [typed EXCEPT ![editor.active] = ""] /\ UNCHANGED <<project>>
  BY <1>1 DEF W!Send, W!settings
<1>4. DOMAIN typed' = W!Keys /\ \A k \in W!Keys : typed'[k] = Draft(ed, k)
  BY <1>2, <1>3 DEF Drafting
<1>5. CASE W!NewChat(threads, made + 1, project, choice, ed)
  <2>1. /\ made' = made + 1 /\ page' = W!ThreadPage(made + 1)
        /\ editor' = W!Switch(ed, W!ThreadKey(made + 1))
    BY <1>5 DEF W!NewChat, W!Opened
  <2>2. made + 1 \in 1..made'
    <3>1. made \in Nat
      BY WindowAssumption DEF OpenThreads
    <3>2. made' = made + 1
      BY <2>1
    <3> QED
      BY <3>1, <3>2
  <2> HIDE DEF ed
  <2> QED
    BY <1>2, <1>4, <2>1, <2>2, ThreadOpens
<1>6. CASE page' = page /\ editor' = ed
  <2>1. editor'.active = W!KeyOf(page', project')
    BY <1>1, <1>2, <1>3, <1>6
  <2> HIDE DEF ed
  <2> QED
    BY <1>2, <1>4, <1>6, <2>1 DEF Drafting, Composer, Draft
<1> QED
  BY <1>5, <1>6 DEF W!Send, W!Opened

LEMMA OpenRowDrafts ==
  ASSUME Drafting, OpenThreads, OpenThreads', OnPage, NEW s \in Sessions, W!OpenRow(s)
  PROVE  Drafting'
<1>1. Composer(editor) /\ DOMAIN typed' = W!Keys /\ \A k \in W!Keys : typed'[k] = Draft(editor, k)
  BY DEF Drafting, W!OpenRow
<1>2. PICK id : /\ page' = W!ThreadPage(id) /\ editor' = W!Switch(editor, W!ThreadKey(id))
                /\ \/ UNCHANGED made /\ \E t \in threads : id = t.id
                   \/ made' = made + 1 /\ id = made + 1
  BY DEF W!OpenRow, W!Opened
<1>3. id \in 1..made'
  <2>1. made \in Nat /\ \A t \in threads : t.id \in 1..made
    BY WindowAssumption DEF OpenThreads, Rows
  <2> QED
    BY <1>2, <2>1
<1> QED
  BY <1>1, <1>2, <1>3, ThreadOpens

LEMMA RemoveDrafts ==
  ASSUME Drafting, OpenThreads, OpenThreads', OnPage, NEW root \in Projects, W!RemoveProject(root)
  PROVE  Drafting'
<1> DEFINE closed == \E t \in threads : t.root = root /\ page = W!ThreadPage(t.id)
           ed == IF closed THEN W!Switch(editor, W!ProjectKey(project)) ELSE editor
           home == closed \/ (page = W!Home /\ project = root)
<1>1. /\ UNCHANGED typed
      /\ IF home THEN W!Opened(W!Home) ELSE UNCHANGED <<page, choice>>
      /\ editor' = IF home THEN W!Switch(ed, W!ProjectKey(project')) ELSE ed
      /\ project # root => project' = project
  <2>1. closed <=> \E t \in {u \in threads : u.root = root} : page = W!ThreadPage(t.id)
    OBVIOUS
  <2> QED
    BY <2>1 DEF W!RemoveProject
<1>2. Composer(editor) /\ DOMAIN typed = W!Keys /\ \A k \in W!Keys : typed[k] = Draft(editor, k)
  BY DEF Drafting
<1>3. Composer(ed) /\ \A k \in W!Keys : Draft(ed, k) = Draft(editor, k)
  <2>1. W!ProjectKey(project) \in W!Keys \cup {W!NoKey}
    BY ProjectInList, Places
  <2> QED
    BY <1>2, <2>1, Switches
<1>4. DOMAIN typed' = W!Keys /\ \A k \in W!Keys : typed'[k] = Draft(ed, k)
  BY <1>1, <1>2, <1>3
<1>5. CASE home
  <2>1. page' = W!Page("home") /\ editor' = W!Switch(ed, W!ProjectKey(project'))
    BY <1>1, <1>5, KeysOf DEF W!Opened
  <2> HIDE DEF ed, home
  <2> QED
    BY <1>3, <1>4, <2>1, HomeOpens
<1>6. CASE ~home
  <2>1. page' = page /\ editor' = editor
    BY <1>1, <1>6
  <2>2. page.at = "home" => page = W!Home
    BY DEF OnPage, W!Home, W!Page
  <2>3. project' = project \/ page.at # "home"
    BY <1>1, <1>6, <2>2
  <2> QED
    BY <1>1, <2>1, <2>3, DraftsStay
<1> QED
  BY <1>5, <1>6

LEMMA PickedDrafts ==
  ASSUME Drafting, OpenThreads, OpenThreads', OnPage, NEW root \in Projects, NEW message,
         W!FolderPicked(root, message)
  PROVE  Drafting'
<1> USE WindowAssumption
<1> DEFINE saved == IF root \notin W!Roots THEN W!SavedThreads(root, made, default) ELSE {}
           many == W!Cardinality(saved)
           home == page.at # "setup" \/ message # ""
           ed == IF home THEN W!Switch(editor, W!ProjectKey(root)) ELSE editor
           none == W!ProjectKey(NoProject)
<1>1. Composer(editor) /\ DOMAIN typed = W!Keys /\ \A k \in W!Keys : typed[k] = Draft(editor, k)
  BY DEF Drafting
<1>2. /\ project' = root /\ W!ProjectKey(root) \in W!Keys /\ W!ProjectKey(root) # W!NoKey
      /\ none \in W!Keys /\ none # W!ProjectKey(root)
  BY Places DEF W!FolderPicked
<1>3. /\ Composer(W!Switch(editor, W!ProjectKey(root)))
      /\ W!Switch(editor, W!ProjectKey(root)).active = W!ProjectKey(root)
      /\ \A k \in W!Keys : Draft(W!Switch(editor, W!ProjectKey(root)), k) = Draft(editor, k)
  BY <1>1, <1>2, Switches
<1>4. CASE message # ""
  <2>1. /\ W!NewChat(threads \cup saved, made + many + 1, root, default, W!Discard(ed, none, message))
        /\ typed' = [k \in W!Keys |-> IF k = none /\ typed[k] = message THEN "" ELSE typed[k]]
    BY <1>4 DEF W!FolderPicked
  <2>2. ed = W!Switch(editor, W!ProjectKey(root))
    BY <1>4
  <2> DEFINE rest == W!Discard(ed, none, message)
  <2>3. Composer(ed) /\ ed.active # none
    BY <1>2, <1>3, <2>2
  <2> HIDE DEF ed, none, saved, many
  <2>4. /\ Composer(rest)
        /\ Draft(ed, none) = message => Draft(rest, none) = ""
        /\ \A k \in W!Keys : k # none \/ Draft(ed, k) # message => Draft(rest, k) = Draft(ed, k)
    <3>1. none \in W!Keys
      BY <1>2
    <3>2. Composer(ed)
      BY <2>3
    <3>3. ed.active # none
      BY <2>3
    <3>4. Composer(rest)
      BY <3>1, <3>2, <3>3, Discarded
    <3>5. Draft(ed, none) = message => Draft(rest, none) = ""
      BY <3>1, <3>2, <3>3, Discarded
    <3>6. ASSUME NEW k \in W!Keys, k # none \/ Draft(ed, k) # message
          PROVE  Draft(rest, k) = Draft(ed, k)
      BY <3>1, <3>2, <3>3, <3>6, Discarded
    <3> QED
      BY <3>4, <3>5, <3>6
  <2>5. /\ made' = made + many + 1 /\ page' = W!ThreadPage(made + many + 1)
        /\ editor' = W!Switch(rest, W!ThreadKey(made + many + 1))
    BY <2>1 DEF W!NewChat, W!Opened
  <2>6. DOMAIN typed' = W!Keys /\ \A k \in W!Keys : typed'[k] = Draft(rest, k)
    BY <1>1, <1>3, <2>1, <2>2, <2>4
  <2>7. made' \in 1..made'
    <3>1. page'.id = made'
      BY <2>5 DEF W!ThreadPage
    <3>2. OnPage' /\ page'.at = "thread"
      BY <2>5, PickedThreads DEF W!ThreadPage
    <3> QED
      BY <3>1, <3>2 DEF OnPage
  <2>8. page' = W!ThreadPage(made') /\ editor' = W!Switch(rest, W!ThreadKey(made'))
    BY <2>5
  <2> HIDE DEF rest
  <2> QED
    BY <2>4, <2>6, <2>7, <2>8, ThreadOpens
<1>5. CASE message = "" /\ home
  <2>1. /\ page' = W!Page("home") /\ editor' = W!Switch(editor, W!ProjectKey(project'))
        /\ UNCHANGED typed
    BY <1>2, <1>5, KeysOf DEF W!FolderPicked, W!Opened
  <2> QED
    BY <1>1, <2>1, HomeOpens
<1>6. CASE message = "" /\ ~home
  <2>1. UNCHANGED <<page, editor, typed>> /\ page'.at \notin {"home", "thread"}
    BY <1>6 DEF W!FolderPicked
  <2> QED
    BY <2>1, DraftsStay
<1> QED
  BY <1>4, <1>5, <1>6

LEMMA DraftsStep ==
  ASSUME Drafting, OpenThreads, OpenThreads', OnPage, [W!Next]_(W!vars)
  PROVE  Drafting'
<1>1. CASE Browses
  BY <1>1, BrowsesDrafts
<1>2. ASSUME NEW m, W!Choose(m) PROVE Drafting'
  BY <1>2, DraftsStay DEF W!Choose
<1>3. CASE W!Send
  BY <1>3, SendDrafts
<1>4. CASE \E s \in Sessions : W!OpenRow(s)
  BY <1>4, OpenRowDrafts
<1>5. CASE \E root \in Projects : W!RemoveProject(root)
  BY <1>5, RemoveDrafts
<1>6. CASE \E root \in Projects, message \in dialog : W!FolderPicked(root, message)
  BY <1>6, PickedDrafts
<1>7. CASE UNCHANGED W!vars
  BY <1>7, DraftsStay DEF W!vars, W!place, W!settings
<1> QED
  BY <1>1, <1>2, <1>3, <1>4, <1>5, <1>6, <1>7 DEF W!Next, Browses

-----------------------------------------------------------------------------
(* The model of the page.                                                  *)

LEMMA OpensItsModel ==
  ASSUME OpenThreads', NEW to, W!Opened(to)
  PROVE  W!ModelOfPage'
<1>1. page' = W!Home => choice' = default'
  <2>1. W!Home.at = "home"
    BY DEF W!Home, W!Page
  <2> QED
    BY <2>1 DEF W!Opened
<1>2. ASSUME NEW t \in threads', page' = W!ThreadPage(t.id) PROVE choice' = t.choice
  <2>1. to.at = "thread" /\ to.id = t.id
    BY <1>2 DEF W!Opened, W!ThreadPage
  <2>2. choice' = (CHOOSE u \in threads' : u.id = t.id).choice
    BY <2>1 DEF W!Opened
  <2>3. \A u \in threads' : u.id = t.id => u = t
    BY DEF OpenThreads, Rows
  <2>4. (CHOOSE u \in threads' : u.id = t.id) = t
    BY <2>3
  <2> QED
    BY <2>2, <2>4
<1>3. W!Home' = W!Home /\ \A t : W!ThreadPage(t.id)' = W!ThreadPage(t.id)
  BY DEF W!Home, W!Page, W!ThreadPage
<1> QED
  BY <1>1, <1>2 DEF W!ModelOfPage, W!Home, W!Page, W!ThreadPage

LEMMA KeepsItsModel ==
  ASSUME W!ModelOfPage, UNCHANGED <<page, choice, default>>, threads' \subseteq threads
  PROVE  W!ModelOfPage'
  BY DEF W!ModelOfPage, W!Home, W!Page, W!ThreadPage

LEMMA BrowsesModel ==
  ASSUME W!ModelOfPage, OpenThreads', Browses
  PROVE  W!ModelOfPage'
<1> USE DEF W!place, W!searching, W!store, W!settings
<1>1. ASSUME \E to : W!Opened(to) PROVE W!ModelOfPage'
  BY <1>1, OpensItsModel
<1>2. ASSUME UNCHANGED <<page, choice, default>>, threads' \subseteq threads PROVE W!ModelOfPage'
  BY <1>2, KeepsItsModel
<1>3. ASSUME NEW to, W!Visit(to) PROVE W!Opened(to)
  BY <1>3 DEF W!Visit
<1>4. ASSUME NEW t, W!Delete(t)
      PROVE  W!Opened(W!Home) \/ (UNCHANGED <<page, choice, default>> /\ threads' \subseteq threads)
  BY <1>4 DEF W!Delete
<1>5. W!FinishSetup => W!Opened(W!Home)
  BY DEF W!FinishSetup
<1>6. W!OpenSearch => W!Opened(W!Page("search"))
  BY DEF W!OpenSearch
<1>7. ASSUME NEW x, \/ W!AskFolder(x) \/ W!TypeQuery(x) \/ W!WorkerCloses(x) \/ W!Forget(x) \/ W!Type(x)
                    \/ W!DialogCancelled \/ W!SearchReads \/ W!SearchAnswers
      PROVE  UNCHANGED <<page, choice, default>> /\ threads' \subseteq threads
  BY <1>7 DEF W!AskFolder, W!TypeQuery, W!WorkerCloses, W!Forget, W!Type, W!DialogCancelled,
              W!SearchReads, W!SearchAnswers
<1> QED
  BY <1>1, <1>2, <1>3, <1>4, <1>5, <1>6, <1>7 DEF Browses

LEMMA ModelStep ==
  ASSUME W!ModelOfPage, OpenThreads, OpenThreads', OnPage, [W!Next]_(W!vars)
  PROVE  W!ModelOfPage'
<1>1. CASE Browses
  BY <1>1, BrowsesModel
<1>2. ASSUME NEW m \in Models, W!Choose(m) PROVE W!ModelOfPage'
  <2>1. /\ choice' = m /\ default' = m /\ page' = page
        /\ threads' = {IF page = W!ThreadPage(t.id) THEN [t EXCEPT !.choice = m] ELSE t : t \in threads}
    BY <1>2 DEF W!Choose
  <2>2. ASSUME NEW u \in threads', page = W!ThreadPage(u.id) PROVE u.choice = m
    <3>1. PICK t \in threads : u = IF page = W!ThreadPage(t.id) THEN [t EXCEPT !.choice = m] ELSE t
      BY <2>1
    <3>2. DOMAIN t = {"id", "root", "session", "live", "choice"}
      BY DEF OpenThreads, Rows
    <3> QED
      BY <2>2, <3>1, <3>2
  <2> QED
    BY <2>1, <2>2 DEF W!ModelOfPage, W!Home, W!Page, W!ThreadPage
<1>3. CASE W!Send
  BY <1>3, OpensItsModel DEF W!Send, W!NewChat
<1>4. ASSUME NEW s, W!OpenRow(s) PROVE W!ModelOfPage'
  BY <1>4, OpensItsModel DEF W!OpenRow
<1>5. ASSUME NEW root \in Projects, W!RemoveProject(root) PROVE W!ModelOfPage'
  <2>1. W!Opened(W!Home) \/ (UNCHANGED <<page, choice, default>> /\ threads' \subseteq threads)
    BY <1>5 DEF W!RemoveProject
  <2> QED
    BY <2>1, OpensItsModel, KeepsItsModel
<1>6. ASSUME NEW root \in Projects, NEW message, W!FolderPicked(root, message) PROVE W!ModelOfPage'
  <2>1. \/ \E to : W!Opened(to)
        \/ page' = page /\ page.at = "setup"
    BY <1>6 DEF W!FolderPicked, W!NewChat
  <2>2. CASE page' = page /\ page.at = "setup"
    BY <2>2 DEF W!ModelOfPage, W!Home, W!Page, W!ThreadPage
  <2> QED
    BY <2>1, <2>2, OpensItsModel
<1>7. CASE UNCHANGED W!vars
  BY <1>7, KeepsItsModel DEF W!vars, W!place, W!settings
<1> QED
  BY <1>1, <1>2, <1>3, <1>4, <1>5, <1>6, <1>7 DEF W!Next, Browses

-----------------------------------------------------------------------------
(* Searching.                                                              *)

(* The saved chats that a search for the query should list.                *)
Wanted == {s \in onDisk \cap W!Matching(query) : folder[s] \in W!Roots} \ forgotten
Task(k) ==
  /\ DOMAIN k = {"stage", "query", "roots", "generation", "rows"}
  /\ k.query = query /\ k.roots = projects
  /\ k.stage \in {"delay", "read"} /\ (k.stage = "read" => Wanted \subseteq k.rows)
Searching ==
  page.at = "search" =>
    /\ DOMAIN search = {"requested", "rows", "loading", "generation"}
    /\ search.requested = <<query, projects>>
    /\ search.rows \cap forgotten = {} /\ (~search.loading => Wanted \subseteq search.rows)
    /\ \A k \in lookup : Task(k)

LEMMA SearchTells == OpenThreads /\ Searching => W!SearchTruthful
<1> SUFFICES ASSUME OpenThreads, Searching, page.at = "search", ~search.loading
             PROVE  LET listed == {s \in search.rows : folder[s] \in W!Roots} IN
                    /\ listed \cap forgotten = {}
                    /\ (onDisk \cap W!Matching(query)) \ forgotten
                         \subseteq listed \cup {s \in Sessions : folder[s] \notin W!Roots}
  BY DEF W!SearchTruthful
<1>1. search.rows \cap forgotten = {} /\ Wanted \subseteq search.rows /\ onDisk \subseteq Sessions
  BY DEF Searching, OpenThreads, Disk
<1> QED
  BY <1>1 DEF Wanted

(* A new request, for what the box and the list of projects now say.       *)
LEMMA SearchesAnew ==
  ASSUME NEW requested, requested # <<query', projects'>>, W!Search(query', projects', requested),
         projects' \in Seq(Projects)
  PROVE  Searching'
<1>1. /\ search' = [requested |-> <<query', projects'>>, rows |-> {}, loading |-> projects' # <<>>,
                    generation |-> search.generation + 1]
      /\ lookup' = IF projects' = <<>> THEN {}
                   ELSE {[stage |-> "delay", query |-> query', roots |-> projects',
                          generation |-> search.generation + 1, rows |-> {}]}
  BY DEF W!Search
<1>2. /\ DOMAIN search' = {"requested", "rows", "loading", "generation"}
      /\ search'.requested = <<query', projects'>> /\ search'.rows = {}
      /\ search'.loading = (projects' # <<>>)
  BY <1>1
<1>3. projects' = <<>> => Wanted' = {}
  <2>1. projects' = <<>> => W!Roots' = {}
    BY DEF W!Roots, W!ToSet
  <2> QED
    BY <2>1 DEF Wanted
<1>4. \A k \in lookup' : Task(k)'
  <2>1. ASSUME NEW k \in lookup'
        PROVE  /\ DOMAIN k = {"stage", "query", "roots", "generation", "rows"}
               /\ k.query = query' /\ k.roots = projects' /\ k.stage = "delay"
    BY <1>1
  <2> QED
    BY <2>1 DEF Task
<1> QED
  BY <1>2, <1>3, <1>4 DEF Searching

(* What shrinks while a search is shown: the saved chats, by what is       *)
(* forgotten.                                                              *)
LEMMA SearchStays ==
  ASSUME Searching, UNCHANGED <<page, query, search, lookup, folder, projects>>,
         onDisk' \subseteq onDisk, forgotten' = forgotten
  PROVE  Searching'
<1>1. Wanted' \subseteq Wanted
  BY DEF Wanted, W!Roots, W!ToSet, W!Matching
<1>2. \A k : Task(k) => Task(k)'
  BY <1>1 DEF Task
<1> QED
  BY <1>1, <1>2 DEF Searching

LEMMA DeleteSearches ==
  ASSUME Searching, NEW t \in threads, W!Delete(t)
  PROVE  Searching'
<1>1. UNCHANGED <<query, lookup, folder, onDisk, projects>>
  BY DEF W!Delete, W!settings
<1>2. CASE page'.at # "search"
  BY <1>2 DEF Searching
<1>3. CASE page' = page
  <2>1. CASE t.session = NoSession
    <3>1. UNCHANGED <<forgotten, search>>
      BY <2>1 DEF W!Delete
    <3> QED
      BY <1>1, <1>3, <3>1, SearchStays
  <2>2. CASE t.session # NoSession
    <3>1. /\ forgotten' = forgotten \cup {t.session}
          /\ search' = [search EXCEPT !.rows = @ \ {t.session}]
      BY <2>2 DEF W!Delete
    <3>2. Wanted' = Wanted \ {t.session}
      BY <1>1, <3>1 DEF Wanted, W!Roots, W!ToSet, W!Matching
    <3>3. \A k : Task(k) => Task(k)'
      BY <1>1, <3>2 DEF Task
    <3>4. ASSUME page.at = "search"
          PROVE  /\ DOMAIN search' = {"requested", "rows", "loading", "generation"}
                 /\ search'.requested = search.requested
                 /\ search'.loading = search.loading
                 /\ search'.rows = search.rows \ {t.session}
      BY <3>1, <3>4 DEF Searching
    <3> QED
      BY <1>1, <1>3, <3>1, <3>2, <3>3, <3>4 DEF Searching
  <2> QED
    BY <2>1, <2>2
<1> QED
  <2>1. page' = page \/ page' = W!Home
    BY DEF W!Delete, W!Opened
  <2>2. W!Home.at = "home"
    BY DEF W!Home, W!Page
  <2> QED
    BY <1>2, <1>3, <2>1, <2>2

LEMMA Answers ==
  ASSUME Searching, OpenThreads, W!SearchReads \/ W!SearchAnswers
  PROVE  Searching'
<1> USE DEF W!place, W!store, W!settings
<1>1. UNCHANGED <<page, query, folder, onDisk, projects, forgotten>>
  BY DEF W!SearchReads, W!SearchAnswers
<1> SUFFICES ASSUME page.at = "search" PROVE Searching'
  BY <1>1 DEF Searching
<1>2. Wanted' = Wanted /\ \A k : Task(k) <=> Task(k)'
  BY <1>1 DEF Wanted, W!Roots, W!ToSet, W!Matching, Task
<1>3. ASSUME NEW k \in lookup, k.stage = "delay", search' = search,
             lookup' = {[k EXCEPT !.stage = "read",
               !.rows = {s \in onDisk \cap W!Matching(k.query) : folder[s] \in W!ToSet(k.roots)}]}
      PROVE  Searching'
  <2> DEFINE rows == {s \in onDisk \cap W!Matching(k.query) : folder[s] \in W!ToSet(k.roots)}
             new == [k EXCEPT !.stage = "read", !.rows = rows]
  <2>1. Task(k)
    BY DEF Searching
  <2>2. Wanted \subseteq rows
    BY <2>1 DEF Task, Wanted, W!Roots
  <2> HIDE DEF rows
  <2>3. Task(new)
    BY <2>1, <2>2 DEF Task
  <2>4. lookup' = {new}
    BY <1>3 DEF rows
  <2> HIDE DEF new
  <2> QED
    BY <1>1, <1>2, <1>3, <2>3, <2>4 DEF Searching
<1>4. ASSUME lookup' = {}, UNCHANGED search PROVE Searching'
  BY <1>1, <1>2, <1>4 DEF Searching
<1>5. ASSUME W!Search(query, projects, <<>>) PROVE Searching'
  <2>1. <<>> # <<query', projects'>>
    OBVIOUS
  <2>2. projects' \in Seq(Projects)
    BY <1>1 DEF OpenThreads, Listing
  <2>3. W!Search(query', projects', <<>>)
    BY <1>1, <1>5
  <2> QED
    BY <2>1, <2>2, <2>3, SearchesAnew
<1>6. ASSUME NEW k \in lookup, k.stage = "read", lookup' = {},
             search' = [search EXCEPT !.loading = FALSE, !.rows = W!Rows(k.rows)]
      PROVE  Searching'
  <2>1. Task(k) /\ Wanted \subseteq k.rows
    BY <1>6 DEF Searching, Task
  <2>2. /\ DOMAIN search' = {"requested", "rows", "loading", "generation"}
        /\ search'.requested = search.requested /\ search'.rows = k.rows \ forgotten
    BY <1>6 DEF Searching, W!Rows
  <2>3. Wanted \subseteq k.rows \ forgotten
    BY <2>1 DEF Wanted
  <2> QED
    BY <1>1, <1>2, <1>6, <2>2, <2>3 DEF Searching
<1>7. CASE W!SearchReads
  BY <1>3, <1>7 DEF W!SearchReads
<1>8. CASE W!SearchAnswers
  <2>1. PICK k \in lookup :
          /\ k.stage = "read"
          /\ IF k.generation # search.generation THEN lookup' = {} /\ UNCHANGED search
             ELSE IF k.roots # projects THEN
               IF page.at = "search" THEN W!Search(query, projects, <<>>)
               ELSE lookup' = {} /\ search' = [search EXCEPT !.requested = <<>>]
             ELSE lookup' = {} /\ search' = [search EXCEPT !.loading = FALSE, !.rows = W!Rows(k.rows)]
    BY <1>8 DEF W!SearchAnswers
  <2>2. CASE lookup' = {} /\ UNCHANGED search
    BY <1>4, <2>2
  <2>3. CASE W!Search(query, projects, <<>>)
    BY <1>5, <2>3
  <2>4. CASE lookup' = {} /\ search' = [search EXCEPT !.loading = FALSE, !.rows = W!Rows(k.rows)]
    BY <1>6, <2>1, <2>4
  <2> QED
    BY <2>1, <2>2, <2>3, <2>4
<1> QED
  BY <1>7, <1>8

LEMMA SearchesStep ==
  ASSUME Searching, OpenThreads, OpenThreads', OnPage, [W!Next]_(W!vars)
  PROVE  Searching'
<1> USE DEF W!place, W!searching, W!store, W!settings
<1>0. projects \in Seq(Projects) /\ projects' \in Seq(Projects)
  BY DEF OpenThreads, Listing
<1>1. CASE page'.at # "search"
  BY <1>1 DEF Searching
<1>2. \A t : W!ThreadPage(t).at = "thread" /\ W!Home.at = "home"
  BY DEF W!ThreadPage, W!Home, W!Page
<1>3. ASSUME NEW at \in {"home", "setup", "customize"}, W!Visit(W!Page(at)) PROVE page'.at # "search"
  BY <1>3 DEF W!Visit, W!Opened, W!Page
<1>4. ASSUME NEW id, W!Visit(W!ThreadPage(id)) PROVE page'.at # "search"
  BY <1>2, <1>4 DEF W!Visit, W!Opened
<1>5. ASSUME NEW t \in threads, W!Delete(t) PROVE Searching'
  BY <1>5, DeleteSearches
<1>6. ASSUME NEW text, W!Type(text) PROVE page'.at # "search"
  BY <1>6 DEF W!Type, W!HasComposer
<1>7. ASSUME NEW m, W!Choose(m) PROVE page'.at # "search"
  BY <1>7 DEF W!Choose
<1>8. CASE W!Send \/ W!FinishSetup
  BY <1>1, <1>2, <1>8 DEF W!Send, W!FinishSetup, W!NewChat, W!Opened
<1>9. ASSUME NEW x, W!AskFolder(x) \/ W!DialogCancelled \/ W!WorkerCloses(x) \/ W!Forget(x)
      PROVE  Searching'
  <2>1. /\ UNCHANGED <<page, query, search, lookup, folder, projects, forgotten>>
        /\ onDisk' \subseteq onDisk
    BY <1>9 DEF W!AskFolder, W!DialogCancelled, W!WorkerCloses, W!Forget
  <2> QED
    BY <2>1, SearchStays
<1>10. ASSUME NEW root, NEW message, W!FolderPicked(root, message) PROVE page'.at # "search"
  BY <1>2, <1>10 DEF W!FolderPicked, W!NewChat, W!Opened
<1>11. ASSUME NEW root \in Projects, W!RemoveProject(root) PROVE Searching'
  <2>1. CASE page.at # "search"
    <3>1. page'.at # "search"
      BY <1>2, <1>11, <2>1 DEF W!RemoveProject, W!Opened
    <3> QED
      BY <1>1, <3>1
  <2>2. CASE page.at = "search"
    <3>1. UNCHANGED query /\ W!Search(query, projects', search.requested)
      BY <1>11, <2>2 DEF W!RemoveProject
    <3>2. search.requested = <<query, projects>>
      BY <2>2 DEF Searching
    <3>3. projects' # projects
      <4>1. root \in W!Roots /\ root \notin W!Roots'
        BY <1>11, RemovedThreads DEF W!RemoveProject
      <4> QED
        BY <4>1 DEF W!Roots
    <3>4. search.requested # <<query', projects'>>
      BY <3>1, <3>2, <3>3
    <3>5. W!Search(query', projects', search.requested)
      BY <3>1
    <3> QED
      BY <1>0, <3>4, <3>5, SearchesAnew
  <2> QED
    BY <2>1, <2>2
<1>12. CASE W!OpenSearch
  <2>1. UNCHANGED <<query, projects>> /\ W!Search(query, projects, <<>>)
    BY <1>12 DEF W!OpenSearch
  <2>2. <<>> # <<query', projects'>>
    OBVIOUS
  <2>3. W!Search(query', projects', <<>>)
    BY <2>1
  <2> QED
    BY <1>0, <2>2, <2>3, SearchesAnew
<1>13. ASSUME NEW q, W!TypeQuery(q) PROVE Searching'
  <2>1. /\ page.at = "search" /\ q # query /\ query' = q /\ UNCHANGED projects
        /\ W!Search(q, projects, search.requested)
    BY <1>13 DEF W!TypeQuery
  <2>2. search.requested = <<query, projects>>
    BY <2>1 DEF Searching
  <2>3. search.requested # <<query', projects'>>
    BY <2>1, <2>2
  <2>4. W!Search(query', projects', search.requested)
    BY <2>1
  <2> QED
    BY <1>0, <2>3, <2>4, SearchesAnew
<1>14. ASSUME NEW s, W!OpenRow(s) PROVE page'.at # "search"
  BY <1>2, <1>14 DEF W!OpenRow, W!Opened
<1>15. CASE W!SearchReads \/ W!SearchAnswers
  BY <1>15, Answers
<1>16. CASE UNCHANGED W!vars
  <2>1. UNCHANGED <<page, query, search, lookup, folder, projects, forgotten, onDisk>>
    BY <1>16 DEF W!vars
  <2> QED
    BY <2>1, SearchStays
<1> QED
  BY <1>1, <1>3, <1>4, <1>5, <1>6, <1>7, <1>8, <1>9, <1>10, <1>11, <1>12, <1>13, <1>14, <1>15,
     <1>16 DEF W!Next

-----------------------------------------------------------------------------
(* The window.                                                             *)
WindowInv == OpenThreads /\ OnPage /\ Drafting /\ W!ModelOfPage /\ Searching

LEMMA InitWindow == W!Init => WindowInv
<1> SUFFICES ASSUME W!Init PROVE WindowInv
  OBVIOUS
<1>1. page = W!Home /\ choice = default
  BY DEF W!Init
<1>2. W!ModelOfPage /\ Searching
  BY <1>1 DEF W!ModelOfPage, Searching, W!Home, W!Page, W!ThreadPage
<1> QED
  BY <1>2, InitThreads, InitDrafts DEF WindowInv

LEMMA WindowStep == WindowInv /\ [W!Next]_(W!vars) => WindowInv'
<1> SUFFICES ASSUME WindowInv, [W!Next]_(W!vars) PROVE WindowInv'
  OBVIOUS
<1>1. OpenThreads' /\ OnPage'
  BY ThreadsStep DEF WindowInv
<1>2. Drafting' /\ W!ModelOfPage' /\ Searching'
  BY <1>1, DraftsStep, ModelStep, SearchesStep DEF WindowInv
<1> QED
  BY <1>1, <1>2 DEF WindowInv

LEMMA WindowKeeps == WindowInv => WindowKeepsChats
<1> SUFFICES ASSUME WindowInv PROVE WindowKeepsChats
  OBVIOUS
<1>1. W!DraftsKept
  BY DEF WindowInv, Drafting, Draft, W!DraftsKept
<1>2. W!SessionOpenOnce
  BY DEF WindowInv, OpenThreads, Rows, W!SessionOpenOnce
<1>3. W!SearchTruthful
  BY SearchTells DEF WindowInv
<1> QED
  BY <1>1, <1>2, <1>3 DEF WindowInv, WindowKeepsChats

(* What the conversation and the pill do leaves the window alone.          *)
LEMMA WindowSteps == [MCNext]_<<part, vars, pillVars, windowVars>> => [W!Next]_(W!vars)
  BY DEF MCNext, windowVars, W!vars, W!place, W!searching, W!store, W!settings

(* Whatever is typed, sent, searched, opened, added, removed or deleted, in*)
(* any order: a text stays at its place until it is sent, a page has its   *)
(* own model, no chat is open twice, and a finished search lists what it   *)
(* should: for any projects, chats and models (app.rs, app/search.rs).     *)
THEOREM WindowKeepsChatsAlways == MCSpec => []WindowKeepsChats
<1>1. MCInit => WindowInv
  BY InitWindow DEF MCInit
<1>2. WindowInv /\ [MCNext]_<<part, vars, pillVars, windowVars>> => WindowInv'
  BY WindowSteps, WindowStep
<1> QED
  BY <1>1, <1>2, WindowKeeps, PTL DEF MCSpec
=============================================================================
