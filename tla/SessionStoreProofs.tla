------------------------- MODULE SessionStoreProofs -------------------------
(***************************************************************************)
(* Proofs about SessionStore, for every value of its constants: what its   *)
(* variables are, what a compaction keeps, and, with every step of the     *)
(* processes that share a chat, whoever dies where, that the file and the  *)
(* index row keep the promise of SavedChat and that a chat which the index *)
(* lists can be resumed.                                                   *)
(***************************************************************************)
EXTENDS SessionStore, CompactProofs

LEMMA RecordCases ==
  ASSUME NEW r \in Record
  PROVE  \/ r.type = "meta" /\ r.model \in Models
         \/ r.type = "model" /\ r.model \in Models
         \/ r.type = "message" /\ r.message \in Message
         \/ r.type = "checkpoint" /\ r.messages \in Seq(Message)
         \/ r.type = "usage" /\ r.usage \in Nat
BY DEF Record

LEMMA ReplayedType ==
  ASSUME NEW c \in Content, NEW r \in Record
  PROVE  Replayed(c, r) \in Content
<1>1. c.messages \in Seq(Message) /\ c.checkpoints + 1 \in Nat
  BY DEF Content
<1>2. CASE r.type = "message" /\ r.message \in Message
  <2>1. Append(c.messages, r.message) \in Seq(Message)
    BY <1>1, <1>2, AppendProperties
  <2>2. QED
    BY <1>2, <2>1 DEF Replayed, Content
<1>3. QED
  BY <1>1, <1>2, RecordCases DEF Replayed, Content

LEMMA LoadedType ==
  ASSUME NEW f \in File
  PROVE  Loaded(f) \in Content
BY ReplayedType DEF Loaded, File

LEMMA AppendToType ==
  ASSUME NEW f \in File, NEW r \in Record
  PROVE  AppendTo(f, r) \in File
<1>1. Replayed(f.good, r) \in Content
  BY ReplayedType DEF File
<1>2. QED
  BY <1>1 DEF AppendTo, File

LEMMA CutAppendsType ==
  ASSUME NEW f \in File, NEW r \in Record, NEW g \in CutAppends(f, r)
  PROVE  g \in File
BY DEF CutAppends, File

LEMMA RepairedType ==
  ASSUME NEW f \in File
  PROVE  Repaired(f) \in File
BY LoadedType DEF Repaired, File

(* The first user message exists, and lists are finite.                    *)
LEMMA RowType ==
  ASSUME NEW model \in Models, NEW msgs \in Seq(Message)
  PROVE  RowOf(model, msgs) \in IndexRow
<1> DEFINE counted == {i \in 1..Len(msgs) : msgs[i].role \notin {"system", "summary"}}
<1>1. Len(msgs) \in Nat /\ \A i \in 1..Len(msgs) : msgs[i] \in Message
  BY LenProperties, ElementOfSeq
<1>2. Cardinality(counted) \in Nat
  <2>1. IsFiniteSet(1..Len(msgs))
    BY <1>1, FS_Interval
  <2>2. IsFiniteSet(counted)
    BY <2>1, FS_Subset
  <2>3. QED
    BY <2>2, FS_CardinalityType
<1>3. CASE UserPositions(msgs) = {}
  BY <1>2, <1>3 DEF RowOf, IndexRow
<1>4. CASE UserPositions(msgs) # {}
  <2>1. UserPositions(msgs) \subseteq 1..Len(msgs) /\ UserPositions(msgs) \subseteq Nat
    BY DEF UserPositions
  <2>2. \E i \in UserPositions(msgs) : \A j \in UserPositions(msgs) : i <= j
    BY <1>4, <2>1, LeastNat
  <2> DEFINE first == CHOOSE i \in UserPositions(msgs) : \A j \in UserPositions(msgs) : i <= j
  <2>3. first \in 1..Len(msgs)
    BY <2>1, <2>2
  <2>4. msgs[first].id \in Nat
    BY <1>1, <2>3 DEF Message
  <2>5. QED
    BY <1>2, <1>4, <2>4 DEF RowOf, IndexRow
<1>5. QED
  BY <1>3, <1>4

LEMMA PromptType ==
  ASSUME NEW n \in PromptLens
  PROVE  /\ n \in Nat /\ Prompt(n) \in Seq(Message) /\ Len(Prompt(n)) = n
         /\ \A i \in 1..n : Pinned(Prompt(n)[i])
<1>1. n \in Nat
  BY StoreAssumption
<1>2. Prompt(n) \in [1..n -> Message]
  BY <1>1 DEF Prompt, Message, Role
<1>3. Prompt(n) \in Seq(Message) /\ Len(Prompt(n)) = n
  BY <1>1, <1>2, LenProperties, IsASeq
<1>4. QED
  BY <1>1, <1>3 DEF Prompt, Pinned

LEMMA SessionUpdate ==
  ASSUME NEW s \in Session, NEW msgs \in Seq(Message), NEW c \in Nat, NEW u \in Nat
  PROVE  [s EXCEPT !.messages = msgs, !.compactions = c, !.usage = u] \in Session
BY DEF Session

LEMMA CompactedType ==
  ASSUME NEW msgs \in Seq(Message), NEW mask \in BOOLEAN, NEW summarize \in BOOLEAN,
         NEW id \in Nat
  PROVE  Compacted(msgs, mask, summarize, id) \in Seq(Message)
<1>1. Masked(msgs, mask) \in Seq(Message)
  BY MaskType DEF Masked, Message
<1>2. [role |-> "summary", id |-> id] \in Message /\ KeepTurns \in Nat
  BY StoreAssumption DEF Message, Role
<1>3. QED
  BY <1>1, <1>2, SummarizedType DEF Compacted

-----------------------------------------------------------------------------
(* Who owns what at each step: a writer comes with the lock, and only a    *)
(* process that is creating, resuming or chatting has a session.           *)
Opened == {"meta", "row", "resumed"}
Owned ==
  \A p \in Procs :
    /\ HasWriter(p) => lock = p /\ pc[p] \in Opened \cup Chatting
    /\ pc[p] \in Opened \cup Syncing => HasWriter(p)
    /\ pc[p] \in Opened \cup Chatting => session[p] # NoSession
    /\ pc[p] \notin Opened \cup Chatting => session[p] = NoSession

LEMMA PendingType ==
  ASSUME TypeOK, Owned, NEW p \in Procs, NEW r \in Pending(p)
  PROVE  r \in Record
<1>1. pc[p] \in {"meta", "messages", "usage"}
  BY DEF Pending
<1>2. writer[p] \in SessionWriter /\ session[p] \in Session
  BY <1>1 DEF Owned, TypeOK, Opened, Chatting, Syncing, HasWriter
<1>3. CASE pc[p] = "meta"
  BY <1>2, <1>3 DEF Pending, Record, SessionWriter
<1>4. CASE pc[p] = "usage"
  BY <1>2, <1>4 DEF Pending, Record, Session
<1>5. CASE pc[p] = "messages" /\ Rewrites(p)
  BY <1>2, <1>5 DEF Pending, Record, Session
<1>6. CASE pc[p] = "messages" /\ ~Rewrites(p)
  <2>1. session[p].messages \in Seq(Message) /\ cursor[p] \in Nat
    BY <1>2 DEF Session, TypeOK
  <2>2. /\ cursor[p] < Len(session[p].messages)
        /\ r = [type |-> "message", message |-> session[p].messages[cursor[p] + 1]]
    BY <1>6 DEF Pending
  <2>3. cursor[p] + 1 \in 1..Len(session[p].messages)
    BY <2>1, <2>2, LenProperties
  <2>4. session[p].messages[cursor[p] + 1] \in Message
    BY <2>1, <2>3, ElementOfSeq
  <2>5. QED
    BY <2>2, <2>4 DEF Record
<1>7. QED
  BY <1>1, <1>3, <1>4, <1>5, <1>6

LEMMA InitTyped == Init => TypeOK /\ Owned
<1> SUFFICES ASSUME Init PROVE TypeOK /\ Owned
  OBVIOUS
<1>1. NoContent \in Content
  <2>1. (CHOOSE m \in Models : TRUE) \in Models
    BY StoreAssumption
  <2>2. << >> \in Seq(Message)
    BY EmptySeq
  <2>3. QED
    BY <2>1, <2>2 DEF NoContent, Content
<1>2. TypeOK
  BY <1>1 DEF Init, TypeOK, File, Chatting, Syncing
<1>3. Owned
  BY DEF Init, Owned, HasWriter, Opened, Chatting, Syncing
<1>4. QED
  BY <1>2, <1>3

(* Every value an action stores has its type, and ownership is passed on.  *)
LEMMA TypedStep ==
  ASSUME TypeOK, Owned, Next
  PROVE  TypeOK' /\ Owned'
<1> USE DEF Goto, SetSession, SetWriter, SetCursor, Release
<1>0. PICK p \in Procs : 
        \/ \E m \in Models : Create(p, m) \/ StartFails(p, m) \/ SetModel(p, m)
                              \/ SetModelFails(p, m)
        \/ \E m \in Models, n \in PromptLens : StartChat(p, m, n)
        \/ \E n \in PromptLens : CreateRow(p, n) \/ CreateFails(p, n) \/ Pin(p, n)
        \/ \E role \in Role : AddMessage(p, role)
        \/ \E mask, summarize \in BOOLEAN : CompactChat(p, mask, summarize)
        \/ CreateMeta(p) \/ ResumeOpen(p) \/ ResumeFails(p) \/ ResumeRead(p)
        \/ SyncBegin(p) \/ SyncCheckpoint(p) \/ SyncMessage(p) \/ SyncMessagesDone(p)
        \/ SyncUsage(p) \/ SyncRow(p) \/ SyncFails(p)
        \/ Leave(p) \/ Reindex(p)
        \/ DeleteOpen(p) \/ DeleteLock(p) \/ DeleteUnlink(p) \/ DeleteRow(p)
  BY DEF Next
<1>w. pc[p] \in Opened \cup Syncing => writer[p] \in SessionWriter
  BY DEF TypeOK, Owned, HasWriter
<1>s. pc[p] \in Opened \cup Chatting => session[p] \in Session
  BY DEF TypeOK, Owned
<1>v. HasWriter(p) => writer[p] \in SessionWriter
  BY DEF TypeOK, HasWriter
<1>1. ASSUME NEW m \in Models, Create(p, m) PROVE TypeOK' /\ Owned'
  <2>1. << >> \in Seq(Message)
    BY EmptySeq
  <2>2. [messages |-> <<>>, compactions |-> 0, usage |-> 0] \in Session
    BY <2>1 DEF Session
  <2>3. [written |-> 0, compactions |-> 0, usage |-> 0, model |-> m] \in SessionWriter
    BY DEF SessionWriter
  <2>4. TypeOK'
    BY <1>1, <2>2, <2>3 DEF Create, TypeOK, Chatting, Syncing
  <2>5. Owned'
    BY <1>1, <2>2, <2>3, StoreAssumption, NoneAssumption
    DEF Create, TypeOK,
        Owned, HasWriter, Opened, Chatting, Syncing
  <2>6. QED
    BY <2>4, <2>5
<1>2. ASSUME NEW m \in Models, StartFails(p, m) PROVE TypeOK' /\ Owned'
  <2>1. [type |-> "model", model |-> m] \in Record
    BY DEF Record
  <2>2. file' \in File
    BY <1>2, <2>1, CutAppendsType DEF StartFails, TypeOK
  <2>3. TypeOK'
    BY <1>2, <2>2 DEF StartFails, TypeOK, LeaveTo, Chatting, Syncing
  <2>4. Owned'
    BY <1>2, <2>2, <1>w, <1>s, <1>v, NoneAssumption
    DEF StartFails, TypeOK, LeaveTo,
        Owned, HasWriter, Opened, Chatting, Syncing
  <2>5. QED
    BY <2>3, <2>4
<1>3. ASSUME NEW m \in Models, SetModel(p, m) PROVE TypeOK' /\ Owned'
  <2>1. [type |-> "model", model |-> m] \in Record
    BY DEF Record
  <2>2. file' \in File
    BY <1>3, <2>1, AppendToType DEF SetModel, TypeOK
  <2>3. [writer[p] EXCEPT !.model = m] \in SessionWriter
    BY <1>3, <1>v DEF SetModel, SessionWriter
  <2>4. TypeOK'
    BY <1>3, <2>2, <2>3 DEF SetModel, TypeOK
  <2>5. Owned'
    BY <1>3, <2>2, <2>3, <1>w, <1>s, <1>v, NoneAssumption
    DEF SetModel, TypeOK,
        Owned, HasWriter, Opened, Chatting, Syncing
  <2>6. QED
    BY <2>4, <2>5
<1>4. ASSUME NEW m \in Models, SetModelFails(p, m) PROVE TypeOK' /\ Owned'
  <2>1. [type |-> "model", model |-> m] \in Record
    BY DEF Record
  <2>2. file' \in File
    BY <1>4, <2>1, CutAppendsType DEF SetModelFails, TypeOK
  <2>3. [writer[p] EXCEPT !.model = m] \in SessionWriter
    BY <1>4, <1>v DEF SetModelFails, SessionWriter
  <2>4. writer' \in [Procs -> SessionWriter \cup {NoWriter}]
    BY <1>4, <2>3 DEF SetModelFails, TypeOK, LeaveTo
  <2>5. TypeOK'
    BY <1>4, <2>2, <2>4 DEF SetModelFails, TypeOK, LeaveTo, Chatting, Syncing
  <2>6. Owned'
    BY <1>4, <2>2, <2>4, <1>w, <1>s, <1>v, NoneAssumption
    DEF SetModelFails, TypeOK, LeaveTo,
        Owned, HasWriter, Opened, Chatting, Syncing
  <2>7. QED
    BY <2>5, <2>6
<1>5. ASSUME NEW m \in Models, NEW n \in PromptLens, StartChat(p, m, n) PROVE TypeOK' /\ Owned'
  <2>1. [type |-> "model", model |-> m] \in Record
    BY DEF Record
  <2>2. file' \in File
    BY <1>5, <2>1, AppendToType DEF StartChat, TypeOK
  <2>3. pc[p] = "resumed" /\ session[p] \in Session /\ writer[p] \in SessionWriter
    BY <1>5, <1>w, <1>s DEF StartChat, Opened
  <2>4. SetSystem(session[p].messages, Prompt(n)) \in Seq(Message)
    BY <2>3, PromptType, SetSystemType DEF Session
  <2>5. [session[p] EXCEPT !.messages = SetSystem(@, Prompt(n))] \in Session
    BY <2>3, <2>4 DEF Session
  <2>6. [writer[p] EXCEPT !.model = m] \in SessionWriter
    BY <2>3 DEF SessionWriter
  <2>7. writer' \in [Procs -> SessionWriter \cup {NoWriter}]
    BY <1>5, <2>6 DEF StartChat, TypeOK
  <2>8. TypeOK'
    BY <1>5, <2>2, <2>5, <2>7 DEF StartChat, TypeOK, Chatting
  <2>9. pc' = [pc EXCEPT ![p] = "chat"] /\ lock' = lock /\ session'[p] # NoSession
    BY <1>5, <2>3, <2>5, NoneAssumption DEF StartChat, TypeOK
  <2>10. \A q \in Procs \ {p} : session'[q] = session[q] /\ writer'[q] = writer[q]
    BY <1>5 DEF StartChat, TypeOK
  <2>11. lock = p
    BY <2>3, NoneAssumption DEF Owned, HasWriter
  <2>12. Owned'
    BY <2>3, <2>9, <2>10, <2>11 DEF TypeOK, Owned, HasWriter, Opened, Chatting, Syncing
  <2>13. QED
    BY <2>8, <2>12
<1>6. ASSUME NEW n \in PromptLens, CreateRow(p, n) \/ CreateFails(p, n) \/ Pin(p, n)
      PROVE  TypeOK' /\ Owned'
  <2>1. session[p] \in Session
    BY <1>6, <1>s DEF CreateRow, CreateFails, Pin, Opened, Chatting
  <2>2. SetSystem(session[p].messages, Prompt(n)) \in Seq(Message)
    BY <2>1, PromptType, SetSystemType DEF Session
  <2>3. [session[p] EXCEPT !.messages = SetSystem(@, Prompt(n))] \in Session
    BY <2>1, <2>2 DEF Session
  <2>4. CASE CreateRow(p, n)
    <3>1. << >> \in Seq(Message) /\ writer[p].model \in Models
      BY <2>4, <1>w, EmptySeq DEF CreateRow, Opened, SessionWriter
    <3>2. row' \in IndexRow
      BY <2>4, <3>1, RowType DEF CreateRow
    <3>3. TypeOK'
      BY <2>4, <2>3, <3>2 DEF CreateRow, TypeOK, Chatting
    <3>4. Owned'
      BY <2>4, <2>3, <3>2, <1>w, <1>s, <1>v, NoneAssumption
      DEF CreateRow, TypeOK,
          Owned, HasWriter, Opened, Chatting, Syncing
    <3>5. QED
      BY <3>3, <3>4
  <2>5. CASE CreateFails(p, n)
    <3>1. file' \in File
      BY <2>5, PendingType, CutAppendsType DEF CreateFails, TypeOK
    <3>2. TypeOK'
      BY <2>5, <2>3, <3>1 DEF CreateFails, TypeOK, LeaveTo, Chatting
    <3>3. Owned'
      BY <2>5, <2>3, <3>1, <1>w, <1>s, <1>v, NoneAssumption
      DEF CreateFails, TypeOK, LeaveTo,
          Owned, HasWriter, Opened, Chatting, Syncing
    <3>4. QED
      BY <3>2, <3>3
  <2>6. CASE Pin(p, n)
    <3>1. TypeOK'
      BY <2>6, <2>3 DEF Pin, TypeOK
    <3>2. Owned'
      BY <2>6, <2>3, <1>w, <1>s, <1>v, NoneAssumption
      DEF Pin, TypeOK,
          Owned, HasWriter, Opened, Chatting, Syncing
    <3>3. QED
      BY <3>1, <3>2
  <2>7. QED
    BY <1>6, <2>4, <2>5, <2>6
<1>7. ASSUME NEW role \in Role, AddMessage(p, role) PROVE TypeOK' /\ Owned'
  <2>1. session[p] \in Session /\ nextId \in Nat /\ nextId + 1 \in Nat
    BY <1>7, <1>s DEF AddMessage, Chatting, TypeOK
  <2>2. Append(session[p].messages, [role |-> role, id |-> nextId]) \in Seq(Message)
    BY <2>1, AppendProperties DEF Session, Message
  <2> DEFINE u == session[p].usage + (IF role = "assistant" THEN 1 ELSE 0)
  <2>3. u \in Nat
    BY <2>1 DEF Session
  <2> HIDE DEF u
  <2>4. [session[p] EXCEPT !.messages = Append(session[p].messages, [role |-> role, id |-> nextId]),
           !.usage = u] \in Session
    BY <2>1, <2>2, <2>3 DEF Session
  <2>5. TypeOK'
    BY <1>7, <2>1, <2>4 DEF AddMessage, TypeOK, u
  <2>6. Owned'
    BY <1>7, <2>1, <2>4, <1>w, <1>s, <1>v, NoneAssumption
    DEF AddMessage, TypeOK, u,
        Owned, HasWriter, Opened, Chatting, Syncing
  <2>7. QED
    BY <2>5, <2>6
<1>8. ASSUME NEW mask \in BOOLEAN, NEW summarize \in BOOLEAN, CompactChat(p, mask, summarize)
      PROVE  TypeOK' /\ Owned'
  <2> DEFINE done == Compacted(session[p].messages, mask, summarize, nextId)
  <2>1. session[p] \in Session /\ nextId \in Nat
    BY <1>8, <1>s DEF CompactChat, Chatting, TypeOK
  <2>2. done \in Seq(Message)
    BY <2>1, CompactedType DEF Session
  <2> HIDE DEF done
  <2> DEFINE s == [session[p] EXCEPT !.messages = done,
                                     !.compactions = session[p].compactions + 1,
                                     !.usage = session[p].usage + 1]
  <2>3. s \in Session
    <3>1. session[p].compactions + 1 \in Nat /\ session[p].usage + 1 \in Nat
      BY <2>1 DEF Session
    <3>2. QED
      BY <2>1, <2>2, <3>1, SessionUpdate
  <2> HIDE DEF s
  <2>4. session' = [session EXCEPT ![p] = s]
    BY <1>8 DEF CompactChat, done, s
  <2>5. session' \in [Procs -> Session \cup {NoSession}]
    BY <2>3, <2>4 DEF TypeOK
  <2>6. TypeOK'
    BY <1>8, <2>5 DEF CompactChat, TypeOK
  <2>7. Owned'
    BY <1>8, <2>3, <2>4, NoneAssumption
    DEF CompactChat, TypeOK,
        Owned, HasWriter, Opened, Chatting, Syncing
  <2>8. QED
    BY <2>6, <2>7
<1>9. ASSUME CreateMeta(p) PROVE TypeOK' /\ Owned'
  <2>1. file' \in File
    BY <1>9, PendingType, AppendToType DEF CreateMeta, TypeOK
  <2>2. TypeOK'
    BY <1>9, <2>1 DEF CreateMeta, TypeOK
  <2>3. Owned'
    BY <1>9, <2>1, <1>w, <1>s, <1>v, NoneAssumption
    DEF CreateMeta, TypeOK,
        Owned, HasWriter, Opened, Chatting, Syncing
  <2>4. QED
    BY <2>2, <2>3
<1>10. ASSUME ResumeOpen(p) \/ ResumeFails(p) PROVE TypeOK' /\ Owned'
  <2>1. TypeOK'
    BY <1>10 DEF ResumeOpen, ResumeFails, TypeOK
  <2>2. Owned'
    BY <1>10, <1>w, <1>s, <1>v, NoneAssumption
    DEF ResumeOpen, ResumeFails, TypeOK,
        Owned, HasWriter, Opened, Chatting, Syncing
  <2>3. QED
    BY <2>1, <2>2
<1>11. ASSUME ResumeRead(p) PROVE TypeOK' /\ Owned'
  <2>1. file' \in File /\ Loaded(file) \in Content
    BY <1>11, RepairedType, LoadedType DEF ResumeRead, TypeOK
  <2>2. Len(Loaded(file).messages) \in Nat
    BY <2>1, LenProperties DEF Content
  <2>3. /\ [messages |-> Loaded(file).messages, compactions |-> Loaded(file).checkpoints,
             usage |-> Loaded(file).usage] \in Session
        /\ [written |-> Len(Loaded(file).messages), compactions |-> Loaded(file).checkpoints,
             usage |-> Loaded(file).usage, model |-> Loaded(file).model] \in SessionWriter
    BY <2>1, <2>2 DEF Content, Session, SessionWriter
  <2>4. TypeOK'
    BY <1>11, <2>1, <2>3 DEF ResumeRead, TypeOK
  <2>5. Owned'
    BY <1>11, <2>1, <2>3, StoreAssumption, NoneAssumption
    DEF ResumeRead, TypeOK,
        Owned, HasWriter, Opened, Chatting, Syncing
  <2>6. QED
    BY <2>4, <2>5
<1>12. ASSUME SyncBegin(p) PROVE TypeOK' /\ Owned'
  <2>1. writer[p].written \in Nat
    BY <1>12, <1>v DEF SyncBegin, SessionWriter
  <2>2. TypeOK'
    BY <1>12, <2>1 DEF SyncBegin, TypeOK, Chatting, Syncing
  <2>3. Owned'
    BY <1>12, <2>1, <1>w, <1>s, <1>v, NoneAssumption
    DEF SyncBegin, TypeOK,
        Owned, HasWriter, Opened, Chatting, Syncing
  <2>4. QED
    BY <2>2, <2>3
<1>13. ASSUME SyncCheckpoint(p) PROVE TypeOK' /\ Owned'
  <2>1. file' \in File
    BY <1>13, PendingType, AppendToType DEF SyncCheckpoint, TypeOK
  <2>2. writer[p] \in SessionWriter /\ session[p] \in Session
    BY <1>13, <1>w, <1>s DEF SyncCheckpoint, Chatting, Syncing
  <2>3. Len(session[p].messages) \in Nat
    BY <2>2, LenProperties DEF Session
  <2>4. [writer[p] EXCEPT !.compactions = session[p].compactions,
                          !.written = Len(session[p].messages)] \in SessionWriter
    BY <2>2, <2>3 DEF Session, SessionWriter
  <2>5. TypeOK'
    BY <1>13, <2>1, <2>4 DEF SyncCheckpoint, TypeOK, Chatting, Syncing
  <2>6. Owned'
    BY <1>13, <2>1, <2>4, <1>w, <1>s, <1>v, NoneAssumption
    DEF SyncCheckpoint, TypeOK,
        Owned, HasWriter, Opened, Chatting, Syncing
  <2>7. QED
    BY <2>5, <2>6
<1>14. ASSUME SyncMessage(p) PROVE TypeOK' /\ Owned'
  <2>1. file' \in File
    BY <1>14, PendingType, AppendToType DEF SyncMessage, TypeOK
  <2>2. TypeOK'
    BY <1>14, <2>1 DEF SyncMessage, TypeOK
  <2>3. Owned'
    BY <1>14, <2>1, <1>w, <1>s, <1>v, NoneAssumption
    DEF SyncMessage, TypeOK,
        Owned, HasWriter, Opened, Chatting, Syncing
  <2>4. QED
    BY <2>2, <2>3
<1>15. ASSUME SyncMessagesDone(p) PROVE TypeOK' /\ Owned'
  <2>1. writer[p] \in SessionWriter /\ session[p] \in Session
    BY <1>15, <1>w, <1>s DEF SyncMessagesDone, Chatting, Syncing
  <2>2. Len(session[p].messages) \in Nat
    BY <2>1, LenProperties DEF Session
  <2>3. [writer[p] EXCEPT !.written = Len(session[p].messages)] \in SessionWriter
    BY <2>1, <2>2 DEF SessionWriter
  <2>4. TypeOK'
    BY <1>15, <2>3 DEF SyncMessagesDone, TypeOK, Chatting, Syncing
  <2>5. Owned'
    BY <1>15, <2>3, <1>w, <1>s, <1>v, NoneAssumption
    DEF SyncMessagesDone, TypeOK,
        Owned, HasWriter, Opened, Chatting, Syncing
  <2>6. QED
    BY <2>4, <2>5
<1>16. ASSUME SyncUsage(p) PROVE TypeOK' /\ Owned'
  <2>1. file' \in File
    BY <1>16, PendingType, AppendToType DEF SyncUsage, TypeOK
  <2>2. writer[p] \in SessionWriter /\ session[p] \in Session
    BY <1>16, <1>w, <1>s DEF SyncUsage, Chatting, Syncing
  <2>3. [writer[p] EXCEPT !.usage = session[p].usage] \in SessionWriter
    BY <2>2 DEF Session, SessionWriter
  <2>4. TypeOK'
    BY <1>16, <2>1, <2>3 DEF SyncUsage, TypeOK, Chatting, Syncing
  <2>5. Owned'
    BY <1>16, <2>1, <2>3, <1>w, <1>s, <1>v, NoneAssumption
    DEF SyncUsage, TypeOK,
        Owned, HasWriter, Opened, Chatting, Syncing
  <2>6. QED
    BY <2>4, <2>5
<1>17. ASSUME SyncRow(p) PROVE TypeOK' /\ Owned'
  <2>1. writer[p].model \in Models /\ session[p].messages \in Seq(Message)
    BY <1>17, <1>w, <1>s DEF SyncRow, Chatting, Syncing, Session, SessionWriter
  <2>2. row' \in IndexRow
    BY <1>17, <2>1, RowType DEF SyncRow
  <2>3. TypeOK'
    BY <1>17, <2>2 DEF SyncRow, TypeOK, Chatting
  <2>4. Owned'
    BY <1>17, <2>2, <1>w, <1>s, <1>v, NoneAssumption
    DEF SyncRow, TypeOK,
        Owned, HasWriter, Opened, Chatting, Syncing
  <2>5. QED
    BY <2>3, <2>4
<1>18. ASSUME SyncFails(p) PROVE TypeOK' /\ Owned'
  <2>1. file' \in File
    BY <1>18, PendingType, CutAppendsType DEF SyncFails, TypeOK
  <2>2. TypeOK'
    BY <1>18, <2>1 DEF SyncFails, TypeOK, LeaveTo, Chatting
  <2>3. Owned'
    BY <1>18, <2>1, <1>w, <1>s, <1>v, NoneAssumption
    DEF SyncFails, TypeOK, LeaveTo,
        Owned, HasWriter, Opened, Chatting, Syncing
  <2>4. QED
    BY <2>2, <2>3
<1>19. ASSUME Leave(p) PROVE TypeOK' /\ Owned'
  <2>1. file' \in File
    BY <1>19, PendingType, CutAppendsType DEF Leave, TypeOK
  <2>2. TypeOK'
    BY <1>19, <2>1 DEF Leave, TypeOK, LeaveTo
  <2>3. Owned'
    BY <1>19, <2>1, <1>w, <1>s, <1>v, NoneAssumption
    DEF Leave, TypeOK, LeaveTo,
        Owned, HasWriter, Opened, Chatting, Syncing
  <2>4. QED
    BY <2>2, <2>3
<1>20. ASSUME Reindex(p) PROVE TypeOK' /\ Owned'
  <2>1. RowOf(Loaded(file).model, Loaded(file).messages) \in IndexRow
    BY LoadedType, RowType DEF TypeOK, Content
  <2>2. TypeOK'
    BY <1>20, <2>1 DEF Reindex, TypeOK
  <2>3. Owned'
    BY <1>20, <2>1, <1>w, <1>s, <1>v, NoneAssumption
    DEF Reindex, TypeOK,
        Owned, HasWriter, Opened, Chatting, Syncing
  <2>4. QED
    BY <2>2, <2>3
<1>21. ASSUME DeleteOpen(p) \/ DeleteLock(p) \/ DeleteUnlink(p) \/ DeleteRow(p) PROVE TypeOK' /\ Owned'
  <2>1. TypeOK'
    BY <1>21 DEF DeleteOpen, DeleteLock, DeleteUnlink, DeleteRow, TypeOK
  <2>2. Owned'
    BY <1>21, StoreAssumption
    DEF DeleteOpen, DeleteLock, DeleteUnlink, DeleteRow, TypeOK,
        Owned, HasWriter, Opened, Chatting, Syncing
  <2>3. QED
    BY <2>1, <2>2
<1>22. QED
  BY <1>0, <1>1, <1>2, <1>3, <1>4, <1>5, <1>6, <1>7, <1>8, <1>9, <1>10, <1>11, <1>12,
     <1>13, <1>14, <1>15, <1>16, <1>17, <1>18, <1>19, <1>20, <1>21

(* Every reachable state is well typed, and a writer always comes with the *)
(* lock: the invariant that the theorems below start from.                 *)
LEMMA TypedAlways == Spec => [](TypeOK /\ Owned)
<1>1. TypeOK /\ Owned /\ UNCHANGED vars => TypeOK' /\ Owned'
  BY DEF vars, TypeOK, Owned, HasWriter
<1>2. QED
  BY InitTyped, TypedStep, <1>1, PTL DEF Spec

(* Variables keep their types: the record file, the index row, and each    *)
(* process's session and writer (session.rs, index.rs).                    *)
THEOREM TypeCorrect == Spec => []TypeOK
BY TypedAlways, PTL

(* At most one process at a time can append to the chat's file, whatever   *)
(* processes there are and wherever they stop (lock_writer, session.rs).   *)
THEOREM OneWriterAlways == Spec => []OneWriter
<1>1. Owned => OneWriter
  BY DEF Owned, OneWriter
<1>2. QED
  BY <1>1, TypedAlways, PTL

-----------------------------------------------------------------------------
(* The writer of p describes the file: "Fits" says how the file's content  *)
(* relates to the session and the writer of the process p that has it.     *)
(* The prompt is k messages long throughout.                               *)
WrittenNow(p) ==
  IF pc[p] = "messages" /\ writer[p].compactions = session[p].compactions
  THEN cursor[p] ELSE writer[p].written

HeaderFits(p) ==
  /\ file.tail = NoTail
  /\ pc[p] # "meta" => file.good.header /\ file.good.model = writer[p].model
  /\ file.good.usage = writer[p].usage

SessionFits(p, k) ==
  /\ pc[p] \in Chatting =>
       PinnedUpTo(session[p].messages, k) /\ k <= Len(session[p].messages)
  /\ pc[p] \in {"meta", "row"} => session[p].messages = << >> /\ writer[p].written = 0
  /\ pc[p] = "resumed" => session[p].messages = file.good.messages
  /\ pc[p] \in {"meta", "row", "resumed", "usage", "upsert"} =>
       /\ writer[p].compactions = session[p].compactions
       /\ writer[p].written = Len(session[p].messages)
  /\ pc[p] = "upsert" => writer[p].usage = session[p].usage

(* Until a compaction, what is written is what the session starts with,    *)
(* except that the prompt may have another text.                           *)
MessagesFit(p, k) ==
  /\ Len(file.good.messages) = WrittenNow(p)
  /\ writer[p].compactions <= session[p].compactions
  /\ writer[p].compactions = session[p].compactions =>
       /\ writer[p].written <= Len(session[p].messages)
       /\ WrittenNow(p) <= Len(session[p].messages)
       /\ \A i \in k+1..WrittenNow(p) : file.good.messages[i] = session[p].messages[i]

Fits(p, k) == HeaderFits(p) /\ SessionFits(p, k) /\ MessagesFit(p, k)

FileFits(k) ==
  /\ ~file.corrupt
  /\ PinnedUpTo(Loaded(file).messages, k)
  /\ entry = "absent" => file.good = NoContent /\ file.tail = NoTail

SavedInv(k) ==
  /\ FileFits(k)
  /\ \A p \in Procs : pc[p] # "out" => entry # "absent"
  /\ \A p \in Procs : HasWriter(p) => Fits(p, k)

LEMMA AppendPinned ==
  ASSUME NEW S, NEW msgs \in Seq(S), NEW e \in S, NEW k \in Nat, PinnedUpTo(msgs, k),
         Pinned(e) <=> Len(msgs) + 1 <= k
  PROVE  PinnedUpTo(Append(msgs, e), k)
<1>1. Len(msgs) \in Nat
  BY LenProperties
<1>2. /\ Len(Append(msgs, e)) = Len(msgs) + 1
      /\ Append(msgs, e)[Len(msgs) + 1] = e
      /\ \A i \in 1..Len(msgs) : Append(msgs, e)[i] = msgs[i]
  BY AppendProperties
<1>3. ASSUME NEW i \in 1..Len(Append(msgs, e))
      PROVE  Pinned(Append(msgs, e)[i]) <=> i <= k
  <2>1. CASE i = Len(msgs) + 1
    BY <1>2, <2>1
  <2>2. CASE i # Len(msgs) + 1
    <3>1. i \in 1..Len(msgs)
      BY <1>1, <1>2, <2>2
    <3>2. QED
      BY <1>2, <3>1 DEF PinnedUpTo
  <2>3. QED
    BY <2>1, <2>2
<1>4. QED
  BY <1>3 DEF PinnedUpTo

(* An append to a file that ends in a newline, complete or cut short.      *)
LEMMA AppendFacts ==
  ASSUME NEW f \in File, f.tail = NoTail, NEW r \in Record
  PROVE  LET g == AppendTo(f, r)
         IN  /\ g.good = Replayed(f.good, r) /\ g.tail = NoTail /\ g.corrupt = f.corrupt
             /\ Loaded(f) = f.good /\ Loaded(g) = Replayed(f.good, r)
<1>1. AppendTo(f, r) = [f EXCEPT !.good = Replayed(@, r)]
  BY NoneAssumption DEF AppendTo
<1>2. QED
  BY <1>1 DEF Loaded, File

LEMMA CutFacts ==
  ASSUME NEW f \in File, f.tail = NoTail, NEW r \in Record, NEW g \in CutAppends(f, r)
  PROVE  g.corrupt = f.corrupt /\ Loaded(g) \in {f.good, Replayed(f.good, r)}
<1>1. g \in {f, [f EXCEPT !.tail = Torn], [f EXCEPT !.tail = r]}
  BY NoneAssumption DEF CutAppends
<1>2. r \notin {NoTail, Torn, BadLine}
  BY NoneAssumption
<1>3. QED
  BY <1>1, <1>2 DEF Loaded, File

LEMMA ReplayedMessages ==
  ASSUME NEW c \in Content, NEW r \in Record
  PROVE  /\ r.type = "message" => Replayed(c, r) = [c EXCEPT !.messages = Append(c.messages, r.message)]
         /\ r.type = "checkpoint" => Replayed(c, r).messages = r.messages
         /\ r.type \in {"meta", "model", "usage"} => Replayed(c, r).messages = c.messages
BY DEF Replayed, Content

(* What a process writes keeps the prompt at the head of the file.         *)
LEMMA PendingPinned ==
  ASSUME TypeOK, Owned, NEW k \in Nat, SavedInv(k),
         NEW p \in Procs, HasWriter(p), NEW r \in Pending(p)
  PROVE  PinnedUpTo(Replayed(file.good, r).messages, k)
<1>1. r \in Record /\ file.good \in Content /\ file \in File
  BY PendingType DEF TypeOK, File
<1>2. PinnedUpTo(file.good.messages, k)
  BY <1>1 DEF SavedInv, Fits, HeaderFits, FileFits, Loaded
<1>3. CASE r.type \in {"meta", "model", "usage"}
  BY <1>1, <1>2, <1>3, ReplayedMessages
<1>4. CASE r.type = "checkpoint"
  <2>1. pc[p] = "messages" /\ r.messages = session[p].messages
    BY <1>4 DEF Pending
  <2>2. QED
    BY <1>1, <1>4, <2>1, ReplayedMessages DEF SavedInv, Fits, SessionFits, Chatting, Syncing
<1>5. CASE r.type = "message"
  <2>1. /\ pc[p] = "messages" /\ ~Rewrites(p) /\ cursor[p] < Len(session[p].messages)
        /\ r.message = session[p].messages[cursor[p] + 1]
    BY <1>5 DEF Pending
  <2>2. /\ file.good.messages \in Seq(Message) /\ session[p].messages \in Seq(Message)
        /\ cursor[p] \in Nat
    BY <1>1, <2>1 DEF Content, TypeOK, Owned, Session, Chatting, Syncing
  <2>3. Len(file.good.messages) = cursor[p]
    BY <2>1 DEF SavedInv, Fits, MessagesFit, WrittenNow, Rewrites
  <2>4. cursor[p] + 1 \in 1..Len(session[p].messages)
    BY <2>1, <2>2, LenProperties
  <2>5. r.message \in Message /\ (Pinned(r.message) <=> cursor[p] + 1 <= k)
    <3>1. PinnedUpTo(session[p].messages, k)
      BY <2>1 DEF SavedInv, Fits, SessionFits, Chatting, Syncing
    <3>2. QED
      BY <2>1, <2>2, <2>4, <3>1, ElementOfSeq DEF PinnedUpTo
  <2>6. PinnedUpTo(Append(file.good.messages, r.message), k)
    BY <1>2, <2>2, <2>3, <2>5, AppendPinned
  <2>7. Replayed(file.good, r).messages = Append(file.good.messages, r.message)
    BY <1>1, <1>5, ReplayedMessages DEF Content
  <2>8. QED
    BY <2>6, <2>7
<1>6. QED
  BY <1>1, <1>3, <1>4, <1>5, RecordCases

LEMMA FileFitsAppend ==
  ASSUME TypeOK, Owned, NEW k \in Nat, SavedInv(k), NEW p \in Procs, HasWriter(p),
         NEW r \in Record, PinnedUpTo(Replayed(file.good, r).messages, k),
         file' = AppendTo(file, r), entry' = entry
  PROVE  FileFits(k)'
<1>1. file.tail = NoTail /\ ~file.corrupt /\ entry # "absent"
  BY DEF SavedInv, FileFits, Fits, HeaderFits, Owned, Opened, Chatting, Syncing
<1>2. ~file'.corrupt /\ Loaded(file') = Replayed(file.good, r)
  BY <1>1, AppendFacts DEF TypeOK
<1>3. QED
  BY <1>1, <1>2 DEF FileFits

LEMMA FileFitsCut ==
  ASSUME TypeOK, Owned, NEW k \in Nat, SavedInv(k), NEW p \in Procs, HasWriter(p),
         NEW r \in Record, PinnedUpTo(Replayed(file.good, r).messages, k),
         file' \in CutAppends(file, r), entry' = entry
  PROVE  FileFits(k)'
<1>1. file.tail = NoTail /\ ~file.corrupt /\ entry # "absent" /\ Loaded(file) = file.good
  BY DEF SavedInv, FileFits, Fits, HeaderFits, Owned, Opened, Chatting, Syncing, Loaded
<1>2. ~file'.corrupt /\ Loaded(file') \in {file.good, Replayed(file.good, r)}
  BY <1>1, CutFacts DEF TypeOK
<1>3. PinnedUpTo(file.good.messages, k)
  BY <1>1 DEF SavedInv, FileFits
<1>4. QED
  BY <1>1, <1>2, <1>3 DEF FileFits

(* p is the only process that moves.                                       *)
OnlyMoves(p) ==
  \A q \in Procs \ {p} :
    /\ pc'[q] = pc[q] /\ session'[q] = session[q]
    /\ writer'[q] = writer[q] /\ cursor'[q] = cursor[q]

(* Another process's writer still fits: p cannot have changed its file.    *)
LEMMA Assemble ==
  ASSUME TypeOK, Owned, NEW k \in Nat, SavedInv(k), NEW p \in Procs, OnlyMoves(p),
         file' = file \/ lock \in {p, NoProc},
         FileFits(k)', pc'[p] # "out" => entry' # "absent",
         entry' = "absent" => entry = "absent", HasWriter(p)' => Fits(p, k)'
  PROVE  SavedInv(k)'
<1>1. ASSUME NEW q \in Procs, HasWriter(q)'
      PROVE  Fits(q, k)'
  <2>1. CASE q = p
    BY <1>1, <2>1
  <2>2. CASE q # p
    <3>1. /\ pc'[q] = pc[q] /\ session'[q] = session[q]
          /\ writer'[q] = writer[q] /\ cursor'[q] = cursor[q]
      BY <2>2 DEF OnlyMoves
    <3>2. HasWriter(q)
      BY <1>1, <3>1 DEF HasWriter
    <3>3. file' = file
      BY <2>2, <3>2, StoreAssumption DEF Owned
    <3>4. Fits(q, k)
      BY <3>2 DEF SavedInv
    <3>5. HeaderFits(q)'
      BY <3>1, <3>3, <3>4 DEF Fits, HeaderFits
    <3>6. SessionFits(q, k)'
      BY <3>1, <3>3, <3>4 DEF Fits, SessionFits
    <3>7. MessagesFit(q, k)'
      BY <3>1, <3>3, <3>4 DEF Fits, MessagesFit, WrittenNow
    <3>8. QED
      BY <3>5, <3>6, <3>7 DEF Fits
  <2>3. QED
    BY <2>1, <2>2
<1>2. \A q \in Procs : pc'[q] # "out" => entry' # "absent"
  BY DEF SavedInv, OnlyMoves
<1>3. QED
  BY <1>1, <1>2 DEF SavedInv

(* A session's new prompt has the old one's length.                        *)
LEMMA RenewPrompt ==
  ASSUME NEW k \in PromptLens, NEW msgs \in Seq(Message), PinnedUpTo(msgs, k)
  PROVE  LET new == SetSystem(msgs, Prompt(k))
         IN  /\ new \in Seq(Message) /\ PinnedUpTo(new, k)
             /\ k <= Len(new) /\ Len(msgs) <= Len(new)
             /\ \A i \in k+1..Len(msgs) : new[i] = msgs[i]
<1>1. k \in Nat /\ Len(msgs) \in Nat
  BY PromptType, LenProperties
<1>2. /\ SetSystem(msgs, Prompt(k)) \in Seq(Message)
      /\ Len(SetSystem(msgs, Prompt(k))) = IF k <= Len(msgs) THEN Len(msgs) ELSE k
      /\ PinnedUpTo(SetSystem(msgs, Prompt(k)), k)
      /\ \A i \in k+1..Len(msgs) : SetSystem(msgs, Prompt(k))[i] = msgs[i]
  BY <1>1, PromptType, SetSystemKeepsRest
<1>3. QED
  BY <1>1, <1>2

LEMMA CompactedFits ==
  ASSUME NEW msgs \in Seq(Message), NEW mask \in BOOLEAN, NEW summarize \in BOOLEAN,
         NEW id \in Nat, NEW k \in Nat, PinnedUpTo(msgs, k), k <= Len(msgs)
  PROVE  LET new == Compacted(msgs, mask, summarize, id)
         IN  PinnedUpTo(new, k) /\ k <= Len(new)
<1> DEFINE masked == Masked(msgs, mask)
           summary == [role |-> "summary", id |-> id]
<1>1. masked \in Seq(Message) /\ PinnedUpTo(masked, k) /\ Len(masked) = Len(msgs)
  BY MaskType, MaskKeepsPinned DEF Masked, Message
<1>2. summary \in Message /\ ~Pinned(summary) /\ KeepTurns \in Nat
  BY StoreAssumption DEF Message, Role, Pinned
<1>3. Compacted(msgs, mask, summarize, id) \in {masked, Summarized(masked, KeepTurns, summary)}
  BY DEF Compacted
<1> HIDE DEF masked, summary
<1>4. k <= Len(masked)
  BY <1>1
<1>5. /\ PinnedUpTo(Summarized(masked, KeepTurns, summary), k)
      /\ Summarized(masked, KeepTurns, summary) \in Seq(Message)
      /\ Len(Summarized(masked, KeepTurns, summary)) > k
  BY <1>1, <1>2, <1>4, SummarizeKeepsPinned
<1>6. Len(Summarized(masked, KeepTurns, summary)) \in Nat
  BY <1>5, LenProperties
<1>7. k <= Len(Summarized(masked, KeepTurns, summary))
  BY <1>5, <1>6
<1>8. QED
  BY <1>1, <1>3, <1>4, <1>5, <1>7

(* Dropping the writer, whatever was cut short, leaves a file that fits.   *)
LEMMA DropWriter ==
  ASSUME TypeOK, Owned, NEW k \in Nat, SavedInv(k), NEW p \in Procs, OnlyMoves(p),
         ~HasWriter(p)', entry' = entry, entry # "absent",
         file' = file \/ \E r \in Pending(p) : file' \in CutAppends(file, r)
  PROVE  SavedInv(k)'
<1>1. CASE file' = file
  <2>1. FileFits(k)'
    BY <1>1 DEF SavedInv, FileFits
  <2>2. QED
    BY <1>1, <2>1, Assemble
<1>2. CASE \E r \in Pending(p) : file' \in CutAppends(file, r)
  <2>1. PICK r \in Pending(p) : file' \in CutAppends(file, r)
    BY <1>2
  <2>2. HasWriter(p) /\ lock = p
    BY <2>1 DEF Pending, Owned, Opened, Syncing
  <2>3. r \in Record /\ PinnedUpTo(Replayed(file.good, r).messages, k)
    BY <2>2, PendingType, PendingPinned
  <2>4. FileFits(k)'
    BY <2>1, <2>2, <2>3, FileFitsCut
  <2>5. QED
    BY <2>2, <2>4, Assemble
<1>3. QED
  BY <1>1, <1>2

(* A change of the conversation itself leaves the file and the writer.     *)
LEMMA ChatChanges ==
  ASSUME TypeOK, Owned, NEW k \in Nat, SavedInv(k), NEW p \in Procs, OnlyMoves(p),
         entry' = entry, file' = file, writer' = writer, cursor' = cursor, pc' = pc,
         pc[p] = "chat",
         HasWriter(p) =>
           /\ PinnedUpTo(session'[p].messages, k) /\ k <= Len(session'[p].messages)
           /\ writer[p].compactions <= session'[p].compactions
           /\ writer[p].compactions = session'[p].compactions =>
                 /\ writer[p].compactions = session[p].compactions
                 /\ writer[p].written <= Len(session'[p].messages)
                 /\ \A i \in k+1..writer[p].written :
                      session'[p].messages[i] = session[p].messages[i]
  PROVE  SavedInv(k)'
<1>1. FileFits(k)'
  BY DEF SavedInv, FileFits
<1>2. ASSUME HasWriter(p)
      PROVE  Fits(p, k)'
  <2>1. Fits(p, k)
    BY <1>2 DEF SavedInv
  <2>2. HeaderFits(p)'
    BY <2>1 DEF Fits, HeaderFits
  <2>3. SessionFits(p, k)'
    BY <1>2, <2>1 DEF Fits, SessionFits
  <2>4. MessagesFit(p, k)'
    BY <1>2, <2>1 DEF Fits, MessagesFit, WrittenNow
  <2>5. QED
    BY <2>2, <2>3, <2>4 DEF Fits
<1>3. entry # "absent"
  BY DEF SavedInv
<1>4. HasWriter(p)' => HasWriter(p)
  BY DEF HasWriter
<1>5. QED
  BY <1>1, <1>2, <1>3, <1>4, Assemble

-----------------------------------------------------------------------------
(* One step of a process, by what it does to the file.                     *)
LEMMA SavedStep ==
  ASSUME TypeOK, Owned, TypeOK', Owned', Next,
         NEW k \in Nat, PromptLens = {k}, "cli_model" \notin FaultPoints, SavedInv(k)
  PROVE  SavedInv(k)'
<1> USE DEF Goto, SetSession, SetWriter, SetCursor, Release
<1>0. PICK p \in Procs : 
        \/ \E m \in Models : Create(p, m) \/ StartFails(p, m) \/ SetModel(p, m)
                              \/ SetModelFails(p, m)
        \/ \E m \in Models, n \in PromptLens : StartChat(p, m, n)
        \/ \E n \in PromptLens : CreateRow(p, n) \/ CreateFails(p, n) \/ Pin(p, n)
        \/ \E role \in Role : AddMessage(p, role)
        \/ \E mask, summarize \in BOOLEAN : CompactChat(p, mask, summarize)
        \/ CreateMeta(p) \/ ResumeOpen(p) \/ ResumeFails(p) \/ ResumeRead(p)
        \/ SyncBegin(p) \/ SyncCheckpoint(p) \/ SyncMessage(p) \/ SyncMessagesDone(p)
        \/ SyncUsage(p) \/ SyncRow(p) \/ SyncFails(p)
        \/ Leave(p) \/ Reindex(p)
        \/ DeleteOpen(p) \/ DeleteLock(p) \/ DeleteUnlink(p) \/ DeleteRow(p)
  BY DEF Next
<1>o. entry # "absent" \/ pc[p] = "out"
  BY DEF SavedInv
<1>f. FileFits(k)
  BY DEF SavedInv
<1>w. HasWriter(p) => /\ Fits(p, k) /\ writer[p] \in SessionWriter /\ session[p] \in Session
                      /\ lock = p /\ entry # "absent" /\ file.tail = NoTail
                      /\ pc[p] \in Opened \cup Chatting
  BY DEF SavedInv, TypeOK, Owned, HasWriter, Opened, Chatting, Syncing, Fits, HeaderFits
<1>1. ASSUME NEW m \in Models, Create(p, m) PROVE SavedInv(k)'
  <2>1. FileFits(k)'
    BY <1>1, <1>f DEF Create, FileFits
  <2>2. file.good = NoContent /\ file.tail = NoTail
    BY <1>1, <1>f DEF Create, FileFits
  <2>3. /\ session'[p] = [messages |-> <<>>, compactions |-> 0, usage |-> 0]
        /\ writer'[p] = [written |-> 0, compactions |-> 0, usage |-> 0, model |-> m]
        /\ pc'[p] = "meta" /\ file' = file
    BY <1>1 DEF Create, TypeOK
  <2>4. HeaderFits(p)'
    BY <2>2, <2>3 DEF HeaderFits, NoContent
  <2>5. Len(<< >>) = 0
    BY EmptySeq
  <2>6. SessionFits(p, k)'
    BY <2>3, <2>5 DEF SessionFits, Chatting, Syncing
  <2>7. MessagesFit(p, k)'
    BY <2>2, <2>3, <2>5 DEF MessagesFit, WrittenNow, NoContent
  <2>8. OnlyMoves(p)
    BY <1>1 DEF Create, OnlyMoves, TypeOK
  <2>9. QED
    BY <1>1, <2>1, <2>3, <2>4, <2>6, <2>7, <2>8, Assemble DEF Create, Fits
<1>2. ASSUME NEW m \in Models, StartFails(p, m) PROVE SavedInv(k)'
  <2>1. HasWriter(p)
    BY <1>2 DEF StartFails, Owned, Opened
  <2>2. [type |-> "model", model |-> m] \in Record /\ file.good \in Content
    BY DEF Record, TypeOK, File
  <2>3. PinnedUpTo(Replayed(file.good, [type |-> "model", model |-> m]).messages, k)
    BY <1>f, <1>w, <2>1, <2>2, ReplayedMessages DEF FileFits, Loaded
  <2>4. FileFits(k)'
    BY <1>2, <2>1, <2>2, <2>3, FileFitsCut DEF StartFails
  <2>5. ~HasWriter(p)' /\ OnlyMoves(p) /\ pc'[p] = "out" /\ entry' = entry
    BY <1>2 DEF StartFails, LeaveTo, HasWriter, OnlyMoves, TypeOK
  <2>6. QED
    BY <1>w, <2>1, <2>4, <2>5, Assemble
<1>3. ASSUME NEW m \in Models, SetModel(p, m) PROVE SavedInv(k)'
  <2>1. HasWriter(p) /\ pc[p] = "chat"
    BY <1>3 DEF SetModel
  <2>2. [type |-> "model", model |-> m] \in Record /\ file.good \in Content
    BY DEF Record, TypeOK, File
  <2>3. PinnedUpTo(Replayed(file.good, [type |-> "model", model |-> m]).messages, k)
    BY <1>f, <1>w, <2>1, <2>2, ReplayedMessages DEF FileFits, Loaded
  <2>4. FileFits(k)'
    BY <1>3, <2>1, <2>2, <2>3, FileFitsAppend DEF SetModel
  <2>5. OnlyMoves(p) /\ entry' = entry /\ pc'[p] = "chat" /\ session'[p] = session[p]
    BY <1>3 DEF SetModel, OnlyMoves, TypeOK
  <2>6. writer'[p] = [writer[p] EXCEPT !.model = m]
    BY <1>3 DEF SetModel, TypeOK
  <2>7. file'.good = Replayed(file.good, [type |-> "model", model |-> m]) /\ file'.tail = NoTail
    BY <1>3, <1>w, <2>1, <2>2, AppendFacts DEF SetModel, TypeOK
  <2>8. file.good.header
    BY <1>w, <2>1 DEF Fits, HeaderFits
  <2>9. file'.good = [file.good EXCEPT !.model = m]
    BY <2>2, <2>7, <2>8 DEF Replayed, Content
  <2>10. Fits(p, k)
    BY <1>w, <2>1
  <2>11. HeaderFits(p)'
    BY <1>w, <2>1, <2>2, <2>6, <2>7, <2>8, <2>9, <2>10 DEF Fits, HeaderFits, Content, SessionWriter
  <2>12. SessionFits(p, k)'
    BY <2>1, <2>5, <2>10 DEF Fits, SessionFits, Chatting, Syncing
  <2>13. MessagesFit(p, k)'
    BY <1>w, <2>1, <2>2, <2>5, <2>6, <2>9, <2>10 DEF Fits, MessagesFit, WrittenNow, Content, SessionWriter
  <2>14. QED
    BY <1>w, <2>1, <2>4, <2>5, <2>11, <2>12, <2>13, Assemble DEF Fits
<1>4. ASSUME NEW m \in Models, SetModelFails(p, m) PROVE SavedInv(k)'
  <2>1. HasWriter(p)
    BY <1>4 DEF SetModelFails
  <2>2. [type |-> "model", model |-> m] \in Record /\ file.good \in Content
    BY DEF Record, TypeOK, File
  <2>3. PinnedUpTo(Replayed(file.good, [type |-> "model", model |-> m]).messages, k)
    BY <1>f, <1>w, <2>1, <2>2, ReplayedMessages DEF FileFits, Loaded
  <2>4. FileFits(k)'
    BY <1>4, <2>1, <2>2, <2>3, FileFitsCut DEF SetModelFails
  <2>5. ~HasWriter(p)' /\ OnlyMoves(p) /\ entry' = entry
    BY <1>4 DEF SetModelFails, MayFail, LeaveTo, HasWriter, OnlyMoves, TypeOK
  <2>6. QED
    BY <1>w, <2>1, <2>4, <2>5, Assemble
<1>5. ASSUME NEW m \in Models, NEW n \in PromptLens, StartChat(p, m, n) PROVE SavedInv(k)'
  <2> DEFINE r == [type |-> "model", model |-> m]
             new == SetSystem(session[p].messages, Prompt(k))
  <2>1. HasWriter(p) /\ pc[p] = "resumed" /\ n = k
    BY <1>5 DEF StartChat, Owned, Opened
  <2>2. r \in Record /\ file.good \in Content /\ session[p].messages \in Seq(Message)
    BY <1>w, <2>1 DEF Record, TypeOK, File, Session
  <2>3. Fits(p, k) /\ session[p].messages = file.good.messages /\ file.good.header
    BY <1>w, <2>1 DEF Fits, SessionFits, HeaderFits
  <2>4. PinnedUpTo(file.good.messages, k)
    BY <1>f, <1>w, <2>1 DEF FileFits, Loaded
  <2>5. /\ PinnedUpTo(new, k) /\ k <= Len(new) /\ Len(session[p].messages) <= Len(new)
        /\ \A i \in k+1..Len(session[p].messages) : new[i] = session[p].messages[i]
    BY <2>2, <2>3, <2>4, RenewPrompt
  <2>6. /\ OnlyMoves(p) /\ entry' = entry /\ pc'[p] = "chat"
        /\ session'[p] = [session[p] EXCEPT !.messages = new]
    BY <1>5, <2>1 DEF StartChat, OnlyMoves, TypeOK
  <2> HIDE DEF new
  <2>7. session'[p].messages = new /\ session'[p].compactions = session[p].compactions
    BY <1>w, <2>1, <2>6 DEF Session
  <2>8. \/ file' = AppendTo(file, r) /\ writer'[p] = [writer[p] EXCEPT !.model = m]
        \/ file' = file /\ writer'[p] = writer[p]
    BY <1>5 DEF StartChat, TypeOK
  <2>9. PinnedUpTo(Replayed(file.good, r).messages, k)
    BY <2>2, <2>4, ReplayedMessages
  <2>10. FileFits(k)'
    BY <1>f, <1>w, <2>1, <2>2, <2>6, <2>8, <2>9, FileFitsAppend DEF FileFits
  <2>11. /\ file'.good.messages = file.good.messages /\ file'.good.usage = file.good.usage
         /\ file'.good.header /\ file'.tail = NoTail
         /\ file'.good.model = writer'[p].model
    <3>1. CASE file' = AppendTo(file, r) /\ writer'[p] = [writer[p] EXCEPT !.model = m]
      <4>1. file'.good = Replayed(file.good, r) /\ file'.tail = NoTail
        BY <1>w, <2>1, <2>2, <3>1, AppendFacts DEF TypeOK
      <4>2. file'.good = [file.good EXCEPT !.model = m]
        BY <2>2, <2>3, <4>1 DEF Replayed, Content
      <4>3. QED
        BY <1>w, <2>1, <2>2, <2>3, <3>1, <4>1, <4>2 DEF Content, SessionWriter
    <3>2. CASE file' = file /\ writer'[p] = writer[p]
      BY <1>w, <2>1, <2>3, <3>2 DEF Fits, HeaderFits
    <3>3. QED
      BY <2>8, <3>1, <3>2
  <2>12. /\ writer'[p].written = writer[p].written /\ writer'[p].usage = writer[p].usage
         /\ writer'[p].compactions = writer[p].compactions
    BY <1>w, <2>1, <2>8 DEF SessionWriter
  <2>13. HeaderFits(p)'
    BY <2>3, <2>11, <2>12 DEF Fits, HeaderFits
  <2>14. SessionFits(p, k)'
    BY <2>5, <2>6, <2>7 DEF SessionFits, Chatting, Syncing
  <2>15. MessagesFit(p, k)'
    <3>1. /\ writer[p].compactions = session[p].compactions
          /\ writer[p].written = Len(session[p].messages)
          /\ Len(file.good.messages) = writer[p].written
          /\ writer[p].compactions <= session[p].compactions
      BY <2>1, <2>3 DEF Fits, SessionFits, MessagesFit, WrittenNow
    <3>2. WrittenNow(p)' = writer[p].written
      BY <2>6, <2>12 DEF WrittenNow
    <3>3. QED
      BY <2>3, <2>5, <2>7, <2>11, <2>12, <3>1, <3>2 DEF MessagesFit
  <2>16. QED
    BY <1>w, <2>1, <2>6, <2>10, <2>13, <2>14, <2>15, Assemble DEF Fits
<1>6. ASSUME NEW n \in PromptLens, CreateRow(p, n) PROVE SavedInv(k)'
  <2> DEFINE new == SetSystem(session[p].messages, Prompt(k))
  <2>1. HasWriter(p) /\ pc[p] = "row" /\ n = k
    BY <1>6 DEF CreateRow, Owned, Opened
  <2>2. Fits(p, k) /\ session[p].messages = << >> /\ session[p].messages \in Seq(Message)
    BY <1>w, <2>1 DEF Fits, SessionFits, Session
  <2>3. PinnedUpTo(session[p].messages, k)
    BY <2>2, EmptySeq DEF PinnedUpTo
  <2>4. PinnedUpTo(new, k) /\ k <= Len(new) /\ Len(session[p].messages) <= Len(new)
    BY <2>2, <2>3, RenewPrompt
  <2>5. /\ OnlyMoves(p) /\ entry' = entry /\ pc'[p] = "chat" /\ file' = file
        /\ session'[p] = [session[p] EXCEPT !.messages = new] /\ writer'[p] = writer[p]
    BY <1>6, <2>1 DEF CreateRow, OnlyMoves, TypeOK
  <2> HIDE DEF new
  <2>6. session'[p].messages = new /\ session'[p].compactions = session[p].compactions
    BY <1>w, <2>1, <2>5 DEF Session
  <2>7. HeaderFits(p)'
    BY <2>1, <2>2, <2>5 DEF Fits, HeaderFits
  <2>8. SessionFits(p, k)'
    BY <2>4, <2>5, <2>6 DEF SessionFits, Chatting, Syncing
  <2>9. MessagesFit(p, k)'
    <3>1. /\ writer[p].compactions = session[p].compactions /\ writer[p].written = 0
          /\ Len(file.good.messages) = 0 /\ Len(new) >= 0
          /\ writer[p].compactions <= session[p].compactions
      BY <2>1, <2>2, <2>4, EmptySeq DEF Fits, SessionFits, MessagesFit, WrittenNow
    <3>2. WrittenNow(p)' = 0
      BY <2>5, <3>1 DEF WrittenNow
    <3>3. k \in Nat
      OBVIOUS
    <3>4. QED
      BY <2>5, <2>6, <3>1, <3>2, <3>3 DEF MessagesFit
  <2>10. FileFits(k)'
    BY <1>f, <2>5 DEF FileFits
  <2>11. QED
    BY <1>w, <2>1, <2>5, <2>7, <2>8, <2>9, <2>10, Assemble DEF Fits
<1>7. ASSUME NEW n \in PromptLens, CreateFails(p, n) PROVE SavedInv(k)'
  <2>1. OnlyMoves(p) /\ ~HasWriter(p)' /\ entry' = entry /\ entry # "absent"
    BY <1>7, <1>o DEF CreateFails, LeaveTo, HasWriter, OnlyMoves, TypeOK
  <2>2. file' = file \/ \E r \in Pending(p) : file' \in CutAppends(file, r)
    BY <1>7 DEF CreateFails
  <2>3. QED
    BY <2>1, <2>2, DropWriter
<1>8. ASSUME NEW n \in PromptLens, Pin(p, n) PROVE SavedInv(k)'
  <2> DEFINE new == SetSystem(session[p].messages, Prompt(k))
  <2>1. /\ pc[p] = "chat" /\ n = k /\ OnlyMoves(p) /\ file' = file /\ entry' = entry
        /\ writer' = writer /\ cursor' = cursor /\ pc' = pc
        /\ session'[p] = [session[p] EXCEPT !.messages = new]
    BY <1>8 DEF Pin, OnlyMoves, TypeOK
  <2>2. ASSUME HasWriter(p)
        PROVE  /\ PinnedUpTo(session'[p].messages, k) /\ k <= Len(session'[p].messages)
               /\ session'[p].compactions = session[p].compactions
               /\ writer[p].compactions <= session[p].compactions
               /\ writer[p].compactions = session[p].compactions =>
                     /\ writer[p].written <= Len(session'[p].messages)
                     /\ \A i \in k+1..writer[p].written :
                          session'[p].messages[i] = session[p].messages[i]
    <3>1. session[p].messages \in Seq(Message) /\ PinnedUpTo(session[p].messages, k)
      BY <1>w, <2>1, <2>2 DEF Fits, SessionFits, Session, Chatting
    <3>2. /\ PinnedUpTo(new, k) /\ k <= Len(new) /\ Len(session[p].messages) <= Len(new)
          /\ \A i \in k+1..Len(session[p].messages) : new[i] = session[p].messages[i]
          /\ new \in Seq(Message)
      BY <3>1, RenewPrompt
    <3> HIDE DEF new
    <3>3. session'[p].messages = new /\ session'[p].compactions = session[p].compactions
      BY <1>w, <2>1, <2>2 DEF Session
    <3>4. /\ writer[p].compactions <= session[p].compactions
          /\ writer[p].compactions = session[p].compactions =>
                writer[p].written <= Len(session[p].messages)
      BY <1>w, <2>2 DEF Fits, MessagesFit
    <3>5. Len(session[p].messages) \in Nat /\ Len(new) \in Nat /\ writer[p].written \in Nat
      BY <1>w, <2>2, <3>1, <3>2, LenProperties DEF SessionWriter
    <3>6. QED
      BY <3>2, <3>3, <3>4, <3>5
  <2> HIDE DEF new
  <2>3. QED
    BY <2>1, <2>2, ChatChanges
<1>9. ASSUME NEW role \in Role, AddMessage(p, role) PROVE SavedInv(k)'
  <2> DEFINE e == [role |-> role, id |-> nextId]
             new == Append(session[p].messages, e)
  <2>1. /\ pc[p] = "chat" /\ OnlyMoves(p) /\ file' = file /\ entry' = entry
        /\ writer' = writer /\ cursor' = cursor /\ pc' = pc /\ role \in {"user", "assistant", "tool"}
    BY <1>9 DEF AddMessage, OnlyMoves, TypeOK
  <2>2. session[p] \in Session /\ nextId \in Nat
    BY <2>1 DEF TypeOK, Owned, Chatting
  <2>3. session'[p].messages = new /\ session'[p].compactions = session[p].compactions
    BY <1>9, <2>2 DEF AddMessage, TypeOK, Session
  <2>4. ASSUME HasWriter(p)
        PROVE  /\ PinnedUpTo(session'[p].messages, k) /\ k <= Len(session'[p].messages)
               /\ writer[p].compactions <= session[p].compactions
               /\ writer[p].compactions = session[p].compactions =>
                     /\ writer[p].written <= Len(session'[p].messages)
                     /\ \A i \in k+1..writer[p].written :
                          session'[p].messages[i] = session[p].messages[i]
    <3>1. /\ PinnedUpTo(session[p].messages, k) /\ k <= Len(session[p].messages)
          /\ writer[p].compactions <= session[p].compactions
          /\ writer[p].compactions = session[p].compactions =>
                writer[p].written <= Len(session[p].messages)
      BY <1>w, <2>1, <2>4 DEF Fits, SessionFits, MessagesFit, Chatting
    <3>2. /\ session[p].messages \in Seq(Message) /\ Len(session[p].messages) \in Nat
          /\ writer[p].written \in Nat /\ k \in Nat
      BY <1>w, <2>2, <2>4, LenProperties DEF Session, SessionWriter
    <3>3. e \in Message /\ ~Pinned(e)
      BY <2>1, <2>2 DEF Message, Pinned
    <3> HIDE DEF e
    <3>4. /\ Len(new) = Len(session[p].messages) + 1
          /\ \A i \in 1..Len(session[p].messages) : new[i] = session[p].messages[i]
      BY <3>2, <3>3, AppendProperties
    <3>5. ~(Len(session[p].messages) + 1 <= k)
      BY <3>1, <3>2
    <3>6. PinnedUpTo(new, k)
      BY <3>1, <3>2, <3>3, <3>5, AppendPinned
    <3> HIDE DEF new
    <3>7. k <= Len(new) /\ k >= 0
      BY <3>1, <3>2, <3>4
    <3>8. QED
      BY <2>3, <3>1, <3>2, <3>4, <3>6, <3>7
  <2> HIDE DEF new
  <2>5. QED
    BY <2>1, <2>3, <2>4, ChatChanges
<1>10. ASSUME NEW mask \in BOOLEAN, NEW summarize \in BOOLEAN, CompactChat(p, mask, summarize)
       PROVE  SavedInv(k)'
  <2> DEFINE new == Compacted(session[p].messages, mask, summarize, nextId)
  <2>1. /\ pc[p] = "chat" /\ OnlyMoves(p) /\ file' = file /\ entry' = entry
        /\ writer' = writer /\ cursor' = cursor /\ pc' = pc
    BY <1>10 DEF CompactChat, OnlyMoves, TypeOK
  <2>2. session[p] \in Session /\ nextId \in Nat
    BY <2>1 DEF TypeOK, Owned, Chatting
  <2>3. session'[p].messages = new /\ session'[p].compactions = session[p].compactions + 1
    BY <1>10, <2>2 DEF CompactChat, TypeOK, Session
  <2>4. ASSUME HasWriter(p)
        PROVE  /\ PinnedUpTo(new, k) /\ k <= Len(new)
               /\ writer[p].compactions <= session[p].compactions + 1
               /\ writer[p].compactions # session[p].compactions + 1
    <3>1. /\ PinnedUpTo(session[p].messages, k) /\ k <= Len(session[p].messages)
          /\ writer[p].compactions <= session[p].compactions
      BY <1>w, <2>1, <2>4 DEF Fits, SessionFits, MessagesFit, Chatting
    <3>2. session[p].messages \in Seq(Message)
      BY <2>2 DEF Session
    <3>3. PinnedUpTo(new, k) /\ k <= Len(new)
      BY <2>2, <3>1, <3>2, CompactedFits
    <3>4. writer[p].compactions \in Nat /\ session[p].compactions \in Nat
      BY <1>w, <2>2, <2>4 DEF Session, SessionWriter
    <3> HIDE DEF new
    <3>5. QED
      BY <3>1, <3>3, <3>4
  <2> HIDE DEF new
  <2>5. QED
    BY <2>1, <2>3, <2>4, ChatChanges
<1>11. ASSUME CreateMeta(p) PROVE SavedInv(k)'
  <2> DEFINE r == [type |-> "meta", model |-> writer[p].model]
  <2>1. /\ pc[p] = "meta" /\ HasWriter(p) /\ OnlyMoves(p) /\ entry' = entry
        /\ pc'[p] = "row" /\ session' = session /\ writer' = writer
    BY <1>11 DEF CreateMeta, OnlyMoves, TypeOK, Owned, Opened
  <2>2. file' = AppendTo(file, r) /\ r \in Pending(p)
    BY <1>11, <2>1 DEF CreateMeta, Pending
  <2>3. r \in Record /\ file.good \in Content /\ PinnedUpTo(Replayed(file.good, r).messages, k)
    BY <2>1, <2>2, PendingType, PendingPinned DEF TypeOK, File
  <2>4. FileFits(k)'
    BY <2>1, <2>2, <2>3, FileFitsAppend
  <2>5. file'.good = Replayed(file.good, r) /\ file'.tail = NoTail
    BY <1>w, <2>1, <2>2, <2>3, AppendFacts DEF TypeOK
  <2>6. file'.good = [file.good EXCEPT !.header = TRUE, !.model = writer[p].model]
    BY <2>5 DEF Replayed
  <2>7. HeaderFits(p)'
    BY <1>w, <2>1, <2>3, <2>5, <2>6 DEF Fits, HeaderFits, Content
  <2>8. SessionFits(p, k)'
    BY <1>w, <2>1 DEF Fits, SessionFits, Chatting, Syncing
  <2>9. MessagesFit(p, k)'
    BY <1>w, <2>1, <2>3, <2>6 DEF Fits, MessagesFit, WrittenNow, Content
  <2>10. QED
    BY <1>w, <2>1, <2>4, <2>7, <2>8, <2>9, Assemble DEF Fits
<1>12. ASSUME ResumeOpen(p) \/ ResumeFails(p) \/ Reindex(p) PROVE SavedInv(k)'
  <2>1. /\ OnlyMoves(p) /\ file' = file /\ entry' = entry /\ writer' = writer
        /\ pc'[p] # "out" => entry # "absent"
    BY <1>12 DEF ResumeOpen, ResumeFails, Reindex, OnlyMoves, TypeOK
  <2>2. ~HasWriter(p)
    BY <1>12 DEF ResumeOpen, ResumeFails, Reindex, Owned, Opened, Chatting, Syncing
  <2>3. FileFits(k)'
    BY <1>f, <2>1 DEF FileFits
  <2>4. QED
    BY <2>1, <2>2, <2>3, Assemble DEF HasWriter
<1>13. ASSUME DeleteOpen(p) \/ DeleteLock(p) \/ DeleteUnlink(p) \/ DeleteRow(p) PROVE SavedInv(k)'
  <2>1. /\ OnlyMoves(p) /\ file' = file /\ writer' = writer
        /\ pc'[p] # "out" => entry' # "absent"
        /\ entry' = "absent" => entry = "absent"
    BY <1>13, <1>o DEF DeleteOpen, DeleteLock, DeleteUnlink, DeleteRow, OnlyMoves, TypeOK
  <2>2. ~HasWriter(p)
    BY <1>13 DEF DeleteOpen, DeleteLock, DeleteUnlink, DeleteRow, Owned, Opened, Chatting, Syncing
  <2>3. FileFits(k)'
    BY <1>f, <2>1 DEF FileFits
  <2>4. QED
    BY <2>1, <2>2, <2>3, Assemble DEF HasWriter
<1>14. ASSUME ResumeRead(p) PROVE SavedInv(k)'
  <2> DEFINE c == Loaded(file)
  <2>1. /\ pc[p] = "open" /\ lock = NoProc /\ ~file.corrupt /\ c.header
        /\ OnlyMoves(p) /\ entry' = entry /\ file' = [file EXCEPT !.good = c, !.tail = NoTail]
        /\ pc'[p] = "resumed"
        /\ session'[p] = [messages |-> c.messages, compactions |-> c.checkpoints,
                          usage |-> c.usage]
        /\ writer'[p] = [written |-> Len(c.messages), compactions |-> c.checkpoints,
                         usage |-> c.usage, model |-> c.model]
    BY <1>14 DEF ResumeRead, Readable, Repaired, OnlyMoves, TypeOK
  <2>2. entry # "absent" /\ c \in Content
    BY <1>o, <2>1, LoadedType DEF TypeOK
  <2> HIDE DEF c
  <2>3. file'.good = c /\ file'.tail = NoTail /\ file'.corrupt = file.corrupt
    BY <2>1 DEF TypeOK, File
  <2>4. FileFits(k)'
    BY <1>f, <2>1, <2>2, <2>3 DEF FileFits, Loaded, c
  <2>5. HeaderFits(p)'
    BY <2>1, <2>3 DEF HeaderFits
  <2>6. SessionFits(p, k)'
    BY <2>1, <2>3 DEF SessionFits, Chatting, Syncing
  <2>7. MessagesFit(p, k)'
    <3>1. WrittenNow(p)' = Len(c.messages)
      BY <2>1 DEF WrittenNow
    <3>2. Len(c.messages) \in Nat /\ c.checkpoints \in Nat
      BY <2>2, LenProperties DEF Content
    <3>3. QED
      BY <2>1, <2>3, <3>1, <3>2 DEF MessagesFit
  <2>8. QED
    BY <2>1, <2>2, <2>4, <2>5, <2>6, <2>7, Assemble DEF Fits
<1>15. ASSUME SyncBegin(p) PROVE SavedInv(k)'
  <2>1. /\ pc[p] = "chat" /\ HasWriter(p) /\ OnlyMoves(p) /\ entry' = entry /\ file' = file
        /\ session' = session /\ writer' = writer /\ pc'[p] = "messages"
        /\ cursor'[p] = writer[p].written
    BY <1>15 DEF SyncBegin, OnlyMoves, TypeOK
  <2>2. FileFits(k)'
    BY <1>f, <2>1 DEF FileFits
  <2>3. HeaderFits(p)'
    BY <1>w, <2>1 DEF Fits, HeaderFits
  <2>4. SessionFits(p, k)'
    BY <1>w, <2>1 DEF Fits, SessionFits, Chatting, Syncing
  <2>5. MessagesFit(p, k)'
    BY <1>w, <2>1 DEF Fits, MessagesFit, WrittenNow
  <2>6. QED
    BY <1>w, <2>1, <2>2, <2>3, <2>4, <2>5, Assemble DEF Fits
<1>16. ASSUME SyncCheckpoint(p) PROVE SavedInv(k)'
  <2> DEFINE r == [type |-> "checkpoint", messages |-> session[p].messages]
  <2>1. /\ pc[p] = "messages" /\ Rewrites(p) /\ HasWriter(p) /\ OnlyMoves(p) /\ entry' = entry
        /\ session' = session /\ pc'[p] = "usage"
        /\ writer'[p] = [writer[p] EXCEPT !.compactions = session[p].compactions,
                                          !.written = Len(session[p].messages)]
    BY <1>16 DEF SyncCheckpoint, OnlyMoves, TypeOK, Owned, Syncing
  <2>2. file' = AppendTo(file, r) /\ r \in Pending(p)
    BY <1>16, <2>1 DEF SyncCheckpoint, Pending
  <2>3. r \in Record /\ file.good \in Content /\ PinnedUpTo(Replayed(file.good, r).messages, k)
    BY <2>1, <2>2, PendingType, PendingPinned DEF TypeOK, File
  <2>4. FileFits(k)'
    BY <2>1, <2>2, <2>3, FileFitsAppend
  <2>5. file'.good = Replayed(file.good, r) /\ file'.tail = NoTail
    BY <1>w, <2>1, <2>2, <2>3, AppendFacts DEF TypeOK
  <2>6. file'.good = [file.good EXCEPT !.messages = session[p].messages,
                                       !.checkpoints = @ + 1]
    BY <2>5 DEF Replayed
  <2>7. /\ file'.good.messages = session[p].messages /\ file'.good.usage = file.good.usage
        /\ file'.good.header = file.good.header /\ file'.good.model = file.good.model
    BY <2>3, <2>6 DEF Content
  <2>8. /\ writer'[p].compactions = session[p].compactions
        /\ writer'[p].written = Len(session[p].messages)
        /\ writer'[p].usage = writer[p].usage /\ writer'[p].model = writer[p].model
    BY <1>w, <2>1 DEF SessionWriter
  <2>9. HeaderFits(p)'
    BY <1>w, <2>1, <2>5, <2>7, <2>8 DEF Fits, HeaderFits
  <2>10. SessionFits(p, k)'
    BY <1>w, <2>1, <2>8 DEF Fits, SessionFits, Chatting, Syncing
  <2>11. MessagesFit(p, k)'
    <3>1. session[p].compactions \in Nat /\ Len(session[p].messages) \in Nat
      BY <1>w, <2>1, LenProperties DEF Session
    <3>2. WrittenNow(p)' = Len(session[p].messages)
      BY <2>1, <2>8 DEF WrittenNow
    <3>3. QED
      BY <2>1, <2>7, <2>8, <3>1, <3>2 DEF MessagesFit
  <2>12. QED
    BY <1>w, <2>1, <2>4, <2>9, <2>10, <2>11, Assemble DEF Fits
<1>17. ASSUME SyncMessage(p) PROVE SavedInv(k)'
  <2> DEFINE e == session[p].messages[cursor[p] + 1]
             r == [type |-> "message", message |-> e]
             new == Append(file.good.messages, e)
  <2>1. /\ pc[p] = "messages" /\ ~Rewrites(p) /\ HasWriter(p) /\ OnlyMoves(p) /\ entry' = entry
        /\ session' = session /\ writer' = writer /\ pc' = pc /\ cursor'[p] = cursor[p] + 1
    BY <1>17 DEF SyncMessage, OnlyMoves, TypeOK, Owned, Syncing
  <2>2. file' = AppendTo(file, r) /\ r \in Pending(p) /\ cursor[p] < Len(session[p].messages)
    BY <1>17, <2>1 DEF SyncMessage, Pending
  <2>3. r \in Record /\ file.good \in Content /\ PinnedUpTo(Replayed(file.good, r).messages, k)
    BY <2>1, <2>2, PendingType, PendingPinned DEF TypeOK, File
  <2>4. FileFits(k)'
    BY <2>1, <2>2, <2>3, FileFitsAppend
  <2>5. file'.good = Replayed(file.good, r) /\ file'.tail = NoTail
    BY <1>w, <2>1, <2>2, <2>3, AppendFacts DEF TypeOK
  <2>6. Replayed(file.good, r) = [file.good EXCEPT !.messages = new]
    BY <2>3, ReplayedMessages
  <2>7. e \in Message
    <3>1. session[p].messages \in Seq(Message) /\ cursor[p] \in Nat
      BY <1>w, <2>1 DEF Session, TypeOK
    <3>2. cursor[p] + 1 \in 1..Len(session[p].messages)
      BY <2>2, <3>1, LenProperties
    <3>3. QED
      BY <3>1, <3>2, ElementOfSeq
  <2> HIDE DEF new, r
  <2>8. /\ file'.good.messages = new /\ file'.good.usage = file.good.usage
        /\ file'.good.header = file.good.header /\ file'.good.model = file.good.model
    BY <2>3, <2>5, <2>6 DEF Content
  <2>9. HeaderFits(p)'
    BY <1>w, <2>1, <2>5, <2>8 DEF Fits, HeaderFits
  <2>10. SessionFits(p, k)'
    BY <1>w, <2>1 DEF Fits, SessionFits, Chatting, Syncing
  <2>11. /\ writer[p].compactions = session[p].compactions
         /\ writer[p].written <= Len(session[p].messages)
         /\ Len(file.good.messages) = cursor[p]
         /\ \A i \in k+1..cursor[p] : file.good.messages[i] = session[p].messages[i]
    BY <1>w, <2>1 DEF Rewrites, Fits, MessagesFit, WrittenNow
  <2>12. /\ Len(new) = cursor[p] + 1 /\ new[cursor[p] + 1] = e
         /\ \A i \in 1..cursor[p] : new[i] = file.good.messages[i]
    <3>1. file.good.messages \in Seq(Message)
      BY <2>3 DEF Content
    <3>2. /\ Len(Append(file.good.messages, e)) = Len(file.good.messages) + 1
          /\ Append(file.good.messages, e)[Len(file.good.messages) + 1] = e
          /\ \A i \in 1..Len(file.good.messages) :
               Append(file.good.messages, e)[i] = file.good.messages[i]
      BY <2>7, <3>1, AppendProperties
    <3>3. QED
      BY <2>11, <3>2 DEF new
  <2>13. cursor[p] \in Nat /\ Len(session[p].messages) \in Nat /\ k \in Nat
    BY <1>w, <2>1, LenProperties, StoreAssumption DEF Session, TypeOK
  <2>14. ASSUME NEW i \in k+1..cursor[p] + 1
         PROVE  new[i] = session[p].messages[i]
    <3>1. CASE i = cursor[p] + 1
      BY <2>12, <3>1
    <3>2. CASE i # cursor[p] + 1
      <4>1. i \in k+1..cursor[p] /\ i \in 1..cursor[p]
        BY <2>13, <3>2
      <4>2. QED
        BY <2>11, <2>12, <4>1
    <3>3. QED
      BY <3>1, <3>2
  <2>15. cursor[p] + 1 <= Len(session[p].messages)
    BY <2>2, <2>13
  <2>16. WrittenNow(p)' = cursor[p] + 1
    BY <2>1, <2>11 DEF WrittenNow
  <2> HIDE DEF e
  <2>17. MessagesFit(p, k)'
    <3>1. session[p].compactions \in Nat
      BY <1>w, <2>1 DEF Session
    <3>2. QED
      BY <2>1, <2>8, <2>11, <2>12, <2>14, <2>15, <2>16, <3>1 DEF MessagesFit
  <2>18. QED
    BY <1>w, <2>1, <2>4, <2>9, <2>10, <2>17, Assemble DEF Fits
<1>18. ASSUME SyncMessagesDone(p) PROVE SavedInv(k)'
  <2>1. /\ pc[p] = "messages" /\ Pending(p) = {} /\ HasWriter(p) /\ OnlyMoves(p)
        /\ entry' = entry /\ file' = file /\ session' = session /\ pc'[p] = "usage"
        /\ writer'[p] = [writer[p] EXCEPT !.written = Len(session[p].messages)]
    BY <1>18 DEF SyncMessagesDone, OnlyMoves, TypeOK, Owned, Syncing
  <2>2. /\ ~Rewrites(p) /\ ~(cursor[p] < Len(session[p].messages))
    BY <2>1 DEF Pending
  <2>3. /\ writer[p].compactions = session[p].compactions
        /\ Len(file.good.messages) = cursor[p] /\ cursor[p] <= Len(session[p].messages)
        /\ \A i \in k+1..cursor[p] : file.good.messages[i] = session[p].messages[i]
    BY <1>w, <2>1, <2>2 DEF Rewrites, Fits, MessagesFit, WrittenNow
  <2>4. /\ cursor[p] \in Nat /\ Len(session[p].messages) \in Nat
        /\ session[p].compactions \in Nat
    BY <1>w, <2>1, LenProperties DEF Session, TypeOK
  <2>5. cursor[p] = Len(session[p].messages)
    BY <2>2, <2>3, <2>4
  <2>6. /\ writer'[p].compactions = session[p].compactions
        /\ writer'[p].written = Len(session[p].messages)
        /\ writer'[p].usage = writer[p].usage /\ writer'[p].model = writer[p].model
    BY <1>w, <2>1, <2>3 DEF SessionWriter
  <2>7. HeaderFits(p)'
    BY <1>w, <2>1, <2>6 DEF Fits, HeaderFits
  <2>8. SessionFits(p, k)'
    BY <1>w, <2>1, <2>6 DEF Fits, SessionFits, Chatting, Syncing
  <2>9. MessagesFit(p, k)'
    <3>1. WrittenNow(p)' = Len(session[p].messages)
      BY <2>1, <2>6 DEF WrittenNow
    <3>2. QED
      BY <2>1, <2>3, <2>4, <2>5, <2>6, <3>1 DEF MessagesFit
  <2>10. FileFits(k)'
    BY <1>f, <2>1 DEF FileFits
  <2>11. QED
    BY <1>w, <2>1, <2>7, <2>8, <2>9, <2>10, Assemble DEF Fits
<1>19. ASSUME SyncUsage(p) PROVE SavedInv(k)'
  <2>1. /\ pc[p] = "usage" /\ HasWriter(p) /\ OnlyMoves(p) /\ entry' = entry
        /\ session' = session /\ pc'[p] = "upsert"
        /\ writer'[p] = [writer[p] EXCEPT !.usage = session[p].usage]
    BY <1>19 DEF SyncUsage, OnlyMoves, TypeOK, Owned, Syncing
  <2>2. /\ FileFits(k)' /\ file'.tail = NoTail /\ file'.good.usage = session[p].usage
        /\ file'.good.messages = file.good.messages
        /\ file'.good.header = file.good.header /\ file'.good.model = file.good.model
    <3>1. CASE \E r \in Pending(p) : file' = AppendTo(file, r)
      <4>1. PICK r \in Pending(p) : file' = AppendTo(file, r)
        BY <3>1
      <4>2. r = [type |-> "usage", usage |-> session[p].usage]
        BY <2>1 DEF Pending
      <4>3. r \in Record /\ file.good \in Content /\ PinnedUpTo(Replayed(file.good, r).messages, k)
        BY <2>1, PendingType, PendingPinned DEF TypeOK, File
      <4>4. FileFits(k)'
        BY <2>1, <4>1, <4>3, FileFitsAppend
      <4>5. file'.good = Replayed(file.good, r) /\ file'.tail = NoTail
        BY <1>w, <2>1, <4>1, <4>3, AppendFacts DEF TypeOK
      <4>6. file'.good = [file.good EXCEPT !.usage = session[p].usage]
        BY <4>2, <4>5 DEF Replayed
      <4>7. QED
        BY <4>3, <4>4, <4>5, <4>6 DEF Content
    <3>2. CASE Pending(p) = {} /\ UNCHANGED file
      <4>1. session[p].usage = writer[p].usage
        BY <2>1, <3>2 DEF Pending
      <4>2. QED
        BY <1>f, <1>w, <2>1, <3>2, <4>1 DEF FileFits, Fits, HeaderFits
    <3>3. QED
      BY <1>19, <3>1, <3>2 DEF SyncUsage
  <2>3. /\ writer'[p].compactions = writer[p].compactions
        /\ writer'[p].written = writer[p].written
        /\ writer'[p].usage = session[p].usage /\ writer'[p].model = writer[p].model
    BY <1>w, <2>1 DEF SessionWriter
  <2>4. HeaderFits(p)'
    BY <1>w, <2>1, <2>2, <2>3 DEF Fits, HeaderFits
  <2>5. SessionFits(p, k)'
    BY <1>w, <2>1, <2>3 DEF Fits, SessionFits, Chatting, Syncing
  <2>6. MessagesFit(p, k)'
    BY <1>w, <2>1, <2>2, <2>3 DEF Fits, MessagesFit, WrittenNow
  <2>7. QED
    BY <1>w, <2>1, <2>2, <2>4, <2>5, <2>6, Assemble DEF Fits
<1>20. ASSUME SyncRow(p) PROVE SavedInv(k)'
  <2>1. /\ pc[p] = "upsert" /\ HasWriter(p) /\ OnlyMoves(p) /\ entry' = entry /\ file' = file
        /\ session' = session /\ writer' = writer /\ pc'[p] = "chat"
    BY <1>20 DEF SyncRow, OnlyMoves, TypeOK, Owned, Syncing
  <2>2. FileFits(k)'
    BY <1>f, <2>1 DEF FileFits
  <2>3. HeaderFits(p)'
    BY <1>w, <2>1 DEF Fits, HeaderFits
  <2>4. SessionFits(p, k)'
    BY <1>w, <2>1 DEF Fits, SessionFits, Chatting, Syncing
  <2>5. MessagesFit(p, k)'
    BY <1>w, <2>1 DEF Fits, MessagesFit, WrittenNow
  <2>6. QED
    BY <1>w, <2>1, <2>2, <2>3, <2>4, <2>5, Assemble DEF Fits
<1>21. ASSUME SyncFails(p) \/ Leave(p) PROVE SavedInv(k)'
  <2>1. OnlyMoves(p) /\ ~HasWriter(p)' /\ entry' = entry /\ entry # "absent"
    BY <1>21, <1>o DEF SyncFails, Leave, LeaveTo, Syncing, HasWriter, OnlyMoves, TypeOK
  <2>2. file' = file \/ \E r \in Pending(p) : file' \in CutAppends(file, r)
    BY <1>21 DEF SyncFails, Leave
  <2>3. QED
    BY <2>1, <2>2, DropWriter
<1>22. QED
  BY <1>0, <1>1, <1>2, <1>3, <1>4, <1>5, <1>6, <1>7, <1>8, <1>9, <1>10, <1>11, <1>12,
     <1>13, <1>14, <1>15, <1>16, <1>17, <1>18, <1>19, <1>20, <1>21

LEMMA InitSaved ==
  ASSUME Init, NEW k \in Nat
  PROVE  SavedInv(k)
<1>1. Loaded(file).messages = << >>
  BY DEF Init, Loaded, NoContent
<1>2. PinnedUpTo(<< >>, k)
  BY EmptySeq DEF PinnedUpTo
<1>3. QED
  BY <1>1, <1>2 DEF Init, SavedInv, FileFits, HasWriter

(* While the prompt keeps one length and no model change fails under the   *)
(* CLI, every writer describes its file.                                   *)
LEMMA SavedAlways ==
  ASSUME NEW k, PromptLens = {k}, "cli_model" \notin FaultPoints
  PROVE  Spec => [](TypeOK /\ Owned /\ SavedInv(k))
<1>1. k \in Nat
  BY StoreAssumption
<1>2. Init => TypeOK /\ Owned /\ SavedInv(k)
  BY <1>1, InitTyped, InitSaved
<1>3. TypeOK /\ Owned /\ SavedInv(k) /\ [Next]_vars => (TypeOK /\ Owned /\ SavedInv(k))'
  <2> SUFFICES ASSUME TypeOK, Owned, SavedInv(k), [Next]_vars
               PROVE  (TypeOK /\ Owned /\ SavedInv(k))'
    OBVIOUS
  <2>1. CASE Next
    <3>1. TypeOK' /\ Owned'
      BY <2>1, TypedStep
    <3>2. SavedInv(k)'
      BY <1>1, <2>1, <3>1, SavedStep
    <3>3. QED
      BY <3>1, <3>2
  <2>2. CASE UNCHANGED vars
    <3>1. TypeOK' /\ Owned'
      BY <2>2 DEF vars, TypeOK, Owned, HasWriter
    <3>2. ASSUME NEW p \in Procs, HasWriter(p)'
          PROVE  Fits(p, k)'
      BY <2>2, <3>2 DEF vars, SavedInv, HasWriter, Fits, HeaderFits, SessionFits,
                        MessagesFit, WrittenNow
    <3>3. FileFits(k)' /\ \A p \in Procs : pc'[p] # "out" => entry' # "absent"
      BY <2>2 DEF vars, SavedInv, FileFits
    <3>4. QED
      BY <3>1, <3>2, <3>3 DEF SavedInv
  <2>3. QED
    BY <2>1, <2>2
<1>4. QED
  BY <1>2, <1>3, PTL DEF Spec

LEMMA SavedInvSynced ==
  ASSUME TypeOK, Owned, NEW k \in Nat, SavedInv(k)
  PROVE  SyncedMeansSaved
<1> SUFFICES ASSUME NEW p \in Procs, pc[p] = "upsert"
             PROVE  /\ Readable(file)
                    /\ Conversation(Loaded(file).messages) = Conversation(session[p].messages)
                    /\ Loaded(file).usage = session[p].usage
                    /\ Loaded(file).model = writer[p].model
  BY DEF SyncedMeansSaved
<1>1. HasWriter(p) /\ Fits(p, k)
  BY DEF Owned, Syncing, SavedInv
<1>2. Loaded(file) = file.good
  BY <1>1 DEF Fits, HeaderFits, Loaded
<1>3. Readable(file) /\ Loaded(file).usage = session[p].usage /\ Loaded(file).model = writer[p].model
  BY <1>1, <1>2 DEF Fits, HeaderFits, SessionFits, SavedInv, FileFits, Readable
<1>4. /\ PinnedUpTo(file.good.messages, k) /\ PinnedUpTo(session[p].messages, k)
      /\ Len(file.good.messages) = Len(session[p].messages) /\ k <= Len(session[p].messages)
      /\ \A i \in k+1..Len(session[p].messages) :
           file.good.messages[i] = session[p].messages[i]
  BY <1>1, <1>2 DEF Fits, SessionFits, MessagesFit, WrittenNow, SavedInv, FileFits,
                    Chatting, Syncing
<1>5. file.good.messages \in Seq(Message) /\ session[p].messages \in Seq(Message)
  BY DEF TypeOK, Owned, Chatting, Syncing, File, Content, Session
<1>6. Conversation(file.good.messages) = Conversation(session[p].messages)
  BY <1>4, <1>5, SameConversation
<1>7. QED
  BY <1>2, <1>3, <1>6

(* A sync that has appended its last record has saved the conversation,    *)
(* the totals and the model, whatever was interrupted before it and        *)
(* whoever had the chat before (SessionWriter::sync), provided that the    *)
(* prompt never changes its length and no failed model change is ignored.  *)
(* Both provisos are needed: the two runs named after them break it.       *)
THEOREM SyncedMeansSavedAlways ==
  ASSUME NEW k, PromptLens = {k}, "cli_model" \notin FaultPoints
  PROVE  Spec => []SyncedMeansSaved
<1>1. k \in Nat
  BY StoreAssumption
<1>2. TypeOK /\ Owned /\ SavedInv(k) => SyncedMeansSaved
  BY <1>1, SavedInvSynced
<1>3. QED
  BY <1>2, SavedAlways, PTL

(* Under the same provisos no crash or failed append leaves an invalid     *)
(* record in the middle of the file, so the chat can always be reopened    *)
(* (SessionStore::resume, log.rs replay).                                  *)
THEOREM OnlyTailInvalidAlways ==
  ASSUME NEW k, PromptLens = {k}, "cli_model" \notin FaultPoints
  PROVE  Spec => []OnlyTailInvalid
<1>1. SavedInv(k) => OnlyTailInvalid
  BY DEF SavedInv, FileFits, OnlyTailInvalid
<1>2. QED
  BY <1>1, SavedAlways, PTL

-----------------------------------------------------------------------------
(* Lists of messages that agree at both ends, as CompactionKeeps says it.  *)
LEMMA KeepsEndsIsCompactionKeeps ==
  ASSUME NEW old \in Seq(Message), NEW new \in Seq(Message),
         KeepsEnds(old, new, RecentStart(old, KeepTurns))
  PROVE  CompactionKeeps(old, new)
<1> DEFINE k == PinnedLen(old)
<1>1. Len(old) \in Nat /\ Len(new) \in Nat
  BY LenProperties
<1>2. /\ k \in 0..Len(old) /\ k <= Len(new) /\ PinnedLen(new) = k
      /\ \A i \in 1..k : new[i] = old[i] /\ Pinned(old[i])
  BY PinnedLenFacts DEF KeepsEnds
<1>3. SubSeq(new, 1, k) = SubSeq(old, 1, k)
  <2> HIDE DEF k
  <2>1. \A i \in 1..k : old[i] \in Message /\ new[i] \in Message
    BY <1>1, <1>2, ElementOfSeq
  <2>2. /\ SubSeq(new, 1, k) \in Seq(Message) /\ Len(SubSeq(new, 1, k)) = k
        /\ \A i \in 1..k : SubSeq(new, 1, k)[i] = new[i]
    BY <1>1, <1>2, <2>1, SubSeqProperties
  <2>3. /\ SubSeq(old, 1, k) \in Seq(Message) /\ Len(SubSeq(old, 1, k)) = k
        /\ \A i \in 1..k : SubSeq(old, 1, k)[i] = old[i]
    BY <1>1, <1>2, <2>1, SubSeqProperties
  <2>4. \A i \in 1..Len(SubSeq(new, 1, k)) : SubSeq(new, 1, k)[i] = SubSeq(old, 1, k)[i]
    BY <1>2, <2>2, <2>3
  <2>5. QED
    BY <2>2, <2>3, <2>4, SeqEqual
<1>4. ASSUME NEW i \in UserPositions(old),
             Cardinality({j \in UserPositions(old) : j >= i}) <= KeepTurns
      PROVE  IsSuffixFrom(i, old, new)
  <2>1. KeepTurns \in Nat
    BY StoreAssumption
  <2>2. RecentStart(old, KeepTurns) <= i
    BY <1>4, <2>1, RecentStartReaches
  <2>3. RecentStart(old, KeepTurns) \in 1..Len(old) + 1
    BY <2>1, RecentStartInRange
  <2>4. i \in 1..Len(old) /\ ~Pinned(old[i])
    BY DEF UserPositions, Pinned
  <2>5. k < i
    BY <1>1, <1>2, <2>4
  <2> DEFINE d == Len(new) - Len(old)
             len == Len(old) - i + 1
             m == Len(new) - len + 1
             sn == SubSeq(new, m, Len(new))
             so == SubSeq(old, i, Len(old))
  <2>6. \A j \in i..Len(old) : j + d \in 1..Len(new) /\ new[j + d] = old[j]
    <3>1. ASSUME NEW j \in i..Len(old)
          PROVE  j \in 1..Len(old) /\ RecentStart(old, KeepTurns) <= j /\ k < j
      BY <1>1, <1>2, <2>2, <2>3, <2>4, <2>5
    <3>2. QED
      BY <3>1 DEF KeepsEnds
  <2>7. i + d \in 1..Len(new)
    BY <1>1, <2>4, <2>6
  <2>8. m = i + d /\ m \in 1..Len(new) + 1 /\ i \in 1..Len(old) + 1 /\ len <= Len(new)
    BY <1>1, <2>4, <2>7
  <2>9. /\ sn \in Seq(Message) /\ Len(sn) = Len(new) - m + 1
        /\ \A j \in 1..Len(sn) : sn[j] = new[m + j - 1]
    BY <2>8, SuffixProperties
  <2>10. /\ so \in Seq(Message) /\ Len(so) = Len(old) - i + 1
         /\ \A j \in 1..Len(so) : so[j] = old[i + j - 1]
    BY <2>8, SuffixProperties
  <2> HIDE DEF sn, so
  <2>11. Len(sn) = Len(so)
    BY <1>1, <2>4, <2>8, <2>9, <2>10
  <2>12. ASSUME NEW j \in 1..Len(sn)
         PROVE  sn[j] = so[j]
    <3>1. i + j - 1 \in i..Len(old) /\ m + j - 1 = (i + j - 1) + d
      BY <1>1, <2>4, <2>8, <2>10, <2>11
    <3>2. new[m + j - 1] = old[i + j - 1]
      BY <2>6, <3>1
    <3>3. QED
      BY <2>9, <2>10, <2>11, <3>2
  <2>13. sn = so
    BY <2>9, <2>10, <2>11, <2>12, SeqEqual
  <2>14. QED
    BY <2>8, <2>13 DEF IsSuffixFrom, sn, so
<1>5. QED
  BY <1>2, <1>3, <1>4 DEF CompactionKeeps

(* Masking, summarizing, or both.                                          *)
LEMMA CompactedKeepsEnds ==
  ASSUME NEW msgs \in Seq(Message), NEW mask \in BOOLEAN, NEW summarize \in BOOLEAN,
         NEW id \in Nat
  PROVE  KeepsEnds(msgs, Compacted(msgs, mask, summarize, id), RecentStart(msgs, KeepTurns))
<1> DEFINE e == RecentStart(msgs, KeepTurns)
           masked == Masked(msgs, mask)
           summary == [role |-> "summary", id |-> id]
           short == Summarized(masked, KeepTurns, summary)
<1>1. KeepTurns \in Nat /\ Len(msgs) \in Nat
  BY StoreAssumption, LenProperties
<1>2. e \in Nat
  BY <1>1, RecentStartInRange
<1>3. /\ masked \in Seq(Message) /\ Len(masked) = Len(msgs)
      /\ KeepsEnds(msgs, masked, e) /\ UserPositions(masked) = UserPositions(msgs)
  <2>1. CASE mask
    BY <1>2, <2>1, MaskType, MaskKeepsEnds DEF Masked, Message
  <2>2. CASE ~mask
    <3>1. masked = msgs
      BY <2>2 DEF Masked
    <3>2. PinnedLen(msgs) \in 0..Len(msgs)
      BY PinnedLenInRange
    <3>3. \A i \in 1..Len(msgs) : i + (Len(msgs) - Len(msgs)) = i
      BY <1>1
    <3>4. KeepsEnds(msgs, msgs, e)
      BY <1>1, <3>2, <3>3 DEF KeepsEnds
    <3>5. QED
      BY <3>1, <3>4
  <2>3. QED
    BY <2>1, <2>2
<1>4. RecentStart(masked, KeepTurns) = e
  BY <1>3 DEF RecentStart
<1>5. summary \in Message /\ ~Pinned(summary)
  BY DEF Message, Role, Pinned
<1> HIDE DEF masked, summary, e
<1>6. short \in Seq(Message) /\ KeepsEnds(masked, short, e)
  BY <1>1, <1>3, <1>4, <1>5, SummarizedType, SummarizeKeepsEnds
<1> HIDE DEF short
<1>7. KeepsEnds(msgs, short, e)
  BY <1>2, <1>3, <1>6, KeepsEndsTwice
<1>8. Compacted(msgs, mask, summarize, id) \in {masked, short}
  BY DEF Compacted, masked, short, summary
<1>9. QED
  BY <1>3, <1>7, <1>8 DEF e

LEMMA CompactedKeeps ==
  ASSUME NEW msgs \in Seq(Message), NEW mask \in BOOLEAN, NEW summarize \in BOOLEAN,
         NEW id \in Nat
  PROVE  CompactionKeeps(msgs, Compacted(msgs, mask, summarize, id))
<1>1. Compacted(msgs, mask, summarize, id) \in Seq(Message)
  BY CompactedType
<1>2. QED
  BY <1>1, CompactedKeepsEnds, KeepsEndsIsCompactionKeeps

(* The only step that adds to a session's compactions is a compaction.     *)
LEMMA OnlyCompactChatCompacts ==
  ASSUME TypeOK, Owned, Next, NEW q \in Procs,
         session[q] # NoSession, session'[q] # NoSession,
         session'[q].compactions > session[q].compactions
  PROVE  \E mask, summarize \in BOOLEAN : CompactChat(q, mask, summarize)
<1> USE DEF Goto, SetSession, SetWriter, SetCursor, Release
<1>0. PICK p \in Procs :
        \/ \E m \in Models : Create(p, m) \/ StartFails(p, m) \/ SetModel(p, m)
                              \/ SetModelFails(p, m)
        \/ \E m \in Models, n \in PromptLens : StartChat(p, m, n)
        \/ \E n \in PromptLens : CreateRow(p, n) \/ CreateFails(p, n) \/ Pin(p, n)
        \/ \E role \in Role : AddMessage(p, role)
        \/ \E mask, summarize \in BOOLEAN : CompactChat(p, mask, summarize)
        \/ CreateMeta(p) \/ ResumeOpen(p) \/ ResumeFails(p) \/ ResumeRead(p)
        \/ SyncBegin(p) \/ SyncCheckpoint(p) \/ SyncMessage(p) \/ SyncMessagesDone(p)
        \/ SyncUsage(p) \/ SyncRow(p) \/ SyncFails(p)
        \/ Leave(p) \/ Reindex(p)
        \/ DeleteOpen(p) \/ DeleteLock(p) \/ DeleteUnlink(p) \/ DeleteRow(p)
  BY DEF Next
<1>1. session[q] \in Session /\ session[q].compactions \in Nat
  BY DEF TypeOK, Session
<1>2. ~(session[q].compactions > session[q].compactions)
  BY <1>1
<1>3. session' # session
  BY <1>2
<1>4. ASSUME \/ \E m \in Models : Create(p, m) \/ StartFails(p, m)
             \/ ResumeRead(p) \/ Leave(p)
      PROVE  FALSE
  <2>1. session' = [session EXCEPT ![p] = session'[p]]
    BY <1>4 DEF Create, StartFails, ResumeRead, Leave, TypeOK
  <2>2. CASE session'[p] = NoSession
    BY <1>2, <2>1, <2>2 DEF TypeOK
  <2>3. CASE session'[p] # NoSession
    <3>1. pc[p] \in {"out", "open"}
      BY <1>4, <2>3 DEF Create, StartFails, ResumeRead, Leave, TypeOK
    <3>2. session[p] = NoSession
      BY <3>1 DEF Owned, Opened, Chatting, Syncing
    <3>3. QED
      BY <1>2, <2>1, <3>2 DEF TypeOK
  <2>4. QED
    BY <2>2, <2>3
<1>5. ASSUME \/ \E m \in Models, n \in PromptLens : StartChat(p, m, n)
             \/ \E n \in PromptLens : CreateRow(p, n) \/ CreateFails(p, n) \/ Pin(p, n)
             \/ \E role \in Role : AddMessage(p, role)
      PROVE  FALSE
  <2>1. /\ \A r \in Procs \ {p} : session'[r] = session[r]
        /\ session'[p].compactions = session[p].compactions
    <3>1. pc[p] \in {"resumed", "meta", "row", "chat"}
      BY <1>5 DEF StartChat, CreateRow, CreateFails, Pin, AddMessage
    <3>2. session[p] \in Session
      BY <3>1 DEF Owned, TypeOK, Opened, Chatting
    <3>3. CASE \E role \in Role : AddMessage(p, role)
      BY <3>2, <3>3 DEF AddMessage, TypeOK, Session
    <3>4. CASE \/ \E m \in Models, n \in PromptLens : StartChat(p, m, n)
               \/ \E n \in PromptLens : CreateRow(p, n) \/ CreateFails(p, n) \/ Pin(p, n)
      <4>1. \E n \in PromptLens : session' = [session EXCEPT ![p] =
              [session[p] EXCEPT !.messages = SetSystem(session[p].messages, Prompt(n))]]
        BY <3>4 DEF StartChat, CreateRow, CreateFails, Pin
      <4>2. QED
        BY <3>2, <4>1 DEF TypeOK, Session
    <3>5. QED
      BY <1>5, <3>3, <3>4
  <2>2. CASE p = q
    BY <1>2, <2>1, <2>2
  <2>3. CASE p # q
    BY <1>2, <2>1, <2>3
  <2>4. QED
    BY <2>2, <2>3
<1>6. ASSUME NEW mask \in BOOLEAN, NEW summarize \in BOOLEAN, CompactChat(p, mask, summarize)
      PROVE  p = q
  BY <1>2, <1>6 DEF CompactChat, TypeOK
<1>7. ~(\E m \in Models : SetModel(p, m) \/ SetModelFails(p, m))
  BY <1>3 DEF SetModel, SetModelFails
<1>8. ~(CreateMeta(p) \/ ResumeOpen(p) \/ ResumeFails(p))
  BY <1>3 DEF CreateMeta, ResumeOpen, ResumeFails
<1>9. ~(SyncBegin(p) \/ SyncCheckpoint(p) \/ SyncMessage(p) \/ SyncMessagesDone(p))
  BY <1>3 DEF SyncBegin, SyncCheckpoint, SyncMessage, SyncMessagesDone
<1>10. ~(SyncUsage(p) \/ SyncRow(p) \/ SyncFails(p) \/ Reindex(p))
  BY <1>3 DEF SyncUsage, SyncRow, SyncFails, Reindex
<1>11. ~(DeleteOpen(p) \/ DeleteLock(p) \/ DeleteUnlink(p) \/ DeleteRow(p))
  BY <1>3 DEF DeleteOpen, DeleteLock, DeleteUnlink, DeleteRow
<1>12. QED
  BY <1>0, <1>4, <1>5, <1>6, <1>7, <1>8, <1>9, <1>10, <1>11

(* A compaction keeps the prompt and, whatever it masks or summarizes,     *)
(* every stretch at the end of the chat that starts with a user message    *)
(* and holds at most KeepTurns of them (Agent::compact_with, compact.rs    *)
(* recent_start): no step of any process shortens the recent turns.        *)
THEOREM RecentTurnsAreKept == Spec => RecentTurnsKept
<1>1. TypeOK /\ Owned /\ [Next]_vars =>
        [\A p \in Procs :
           session[p] # NoSession /\ session'[p] # NoSession
             /\ session'[p].compactions > session[p].compactions
           => CompactionKeeps(session[p].messages, session'[p].messages)]_vars
  <2> SUFFICES ASSUME TypeOK, Owned, Next, NEW p \in Procs,
                      session[p] # NoSession, session'[p] # NoSession,
                      session'[p].compactions > session[p].compactions
               PROVE  CompactionKeeps(session[p].messages, session'[p].messages)
    OBVIOUS
  <2>1. PICK mask \in BOOLEAN, summarize \in BOOLEAN : CompactChat(p, mask, summarize)
    BY OnlyCompactChatCompacts
  <2>2. session[p] \in Session /\ session[p].messages \in Seq(Message) /\ nextId \in Nat
    BY DEF TypeOK, Session
  <2>3. session'[p].messages = Compacted(session[p].messages, mask, summarize, nextId)
    BY <2>1, <2>2 DEF CompactChat, SetSession, TypeOK, Session
  <2>4. QED
    BY <2>2, <2>3, CompactedKeeps
<1>2. QED
  BY <1>1, TypedAlways, PTL DEF Spec, RecentTurnsKept

-----------------------------------------------------------------------------
(* What a step does to the conversation that reopening the chat would show *)
(* and to the one of the process that saves it: the kinds of step that the *)
(* two results below tell apart.                                           *)
Shown == Loaded(file).messages

WritesNext(p) ==
  /\ pc[p] = "messages" /\ ~Rewrites(p) /\ cursor[p] < Len(session[p].messages)
  /\ Len(Shown) = cursor[p]
  /\ Shown' = Append(Shown, session[p].messages[cursor[p] + 1])
WritesAll(p) == pc[p] = "messages" /\ Rewrites(p) /\ Shown' = session[p].messages

Idle(p) ==
  /\ ~HasWriter(p) /\ ~HasWriter(p)'
  /\ Shown' = Shown /\ entry' \in {entry, "unlinked"}
  /\ row' \in {row, NoRow} \/ Reindex(p)
Drops(p) ==
  /\ HasWriter(p) /\ ~HasWriter(p)'
  /\ Shown' = Shown \/ WritesNext(p) \/ WritesAll(p)
  /\ entry' = entry /\ row' = row
Takes(p) ==
  /\ ~HasWriter(p) /\ HasWriter(p)' /\ ~Rewrites(p)'
  /\ Shown' = Shown /\ session'[p].messages = Shown
  /\ entry' = entry \/ (entry = "absent" /\ entry' = "linked" /\ p \notin Savers')
  /\ row' = row

Holds(p) == HasWriter(p) /\ HasWriter(p)' /\ p \in Savers' /\ entry' = entry
Renews(p, k) ==
  /\ Holds(p) /\ Shown' = Shown
  /\ session'[p].messages = SetSystem(session[p].messages, Prompt(k))
  /\ Rewrites(p)' = Rewrites(p)
  /\ \/ p \in Savers /\ row' = row
     \/ CreateRow(p, k)
Adds(p) ==
  /\ Holds(p) /\ p \in Savers /\ pc[p] = "chat"
  /\ Shown' = Shown /\ Rewrites(p)' = Rewrites(p) /\ row' = row
  /\ \E role \in {"user", "assistant", "tool"} :
       /\ role # "user" => Conversation(session[p].messages) # << >>
       /\ session'[p].messages = Append(session[p].messages, [role |-> role, id |-> nextId])
Compacts(p) ==
  /\ Holds(p) /\ p \in Savers /\ pc[p] = "chat"
  /\ Shown' = Shown /\ Rewrites(p)' /\ row' = row
  /\ \E mask, summarize \in BOOLEAN :
       session'[p].messages = Compacted(session[p].messages, mask, summarize, nextId)
Saves(p) ==
  /\ Holds(p) /\ p \in Savers
  /\ WritesNext(p) \/ WritesAll(p)
  /\ ~Rewrites(p)' /\ session'[p] = session[p] /\ row' = row
Rests(p) ==
  /\ HasWriter(p) /\ HasWriter(p)' /\ entry' = entry
  /\ p \in Savers <=> p \in Savers'
  /\ Shown' = Shown /\ session'[p] = session[p] /\ Rewrites(p)' = Rewrites(p)
  /\ row' = row \/ SyncRow(p)

HeaderKept == Loaded(file).header => Loaded(file').header

StepOf(p, k) ==
  /\ OnlyMoves(p) /\ HeaderKept
  /\ \/ Idle(p) \/ Drops(p) \/ Takes(p) \/ Renews(p, k) \/ Adds(p) \/ Compacts(p)
     \/ Saves(p) \/ Rests(p)

(* A writer that fits rewrites exactly when the session was compacted.     *)
LEMMA FitsRewrites ==
  ASSUME NEW k, NEW p \in Procs, MessagesFit(p, k), writer[p] \in SessionWriter,
         session[p].messages \in Seq(Message)
  PROVE  /\ Rewrites(p) <=> session[p].compactions # writer[p].compactions
         /\ Rewrites(p) \in BOOLEAN
<1>1. Len(session[p].messages) \in Nat /\ writer[p].written \in Nat
  BY LenProperties DEF SessionWriter
<1>2. QED
  BY <1>1 DEF MessagesFit, Rewrites

LEMMA FitsRewritesNext ==
  ASSUME NEW k, NEW p \in Procs, MessagesFit(p, k)', writer'[p] \in SessionWriter,
         session'[p].messages \in Seq(Message)
  PROVE  /\ Rewrites(p)' <=> session'[p].compactions # writer'[p].compactions
         /\ Rewrites(p)' \in BOOLEAN
<1>1. Len(session'[p].messages) \in Nat /\ writer'[p].written \in Nat
  BY LenProperties DEF SessionWriter
<1>2. QED
  BY <1>1 DEF MessagesFit, Rewrites

LEMMA ReplayedHeader ==
  ASSUME NEW c \in Content, NEW r \in Record
  PROVE  c.header => Replayed(c, r).header
BY RecordCases DEF Replayed, Content

(* The record that a process is writing, when its writer fits.             *)
LEMMA PendingEffect ==
  ASSUME TypeOK, Owned, NEW k \in Nat, SavedInv(k), NEW p \in Procs, NEW r \in Pending(p)
  PROVE  /\ HasWriter(p) /\ file.tail = NoTail /\ Shown = file.good.messages
         /\ r \in Record /\ file.good \in Content /\ file \in File
         /\ LET new == Replayed(file.good, r).messages
            IN  \/ new = Shown
                \/ /\ pc[p] = "messages" /\ ~Rewrites(p) /\ cursor[p] < Len(session[p].messages)
                   /\ Len(Shown) = cursor[p]
                   /\ new = Append(Shown, session[p].messages[cursor[p] + 1])
                \/ pc[p] = "messages" /\ Rewrites(p) /\ new = session[p].messages
<1>1. HasWriter(p)
  BY DEF Pending, Owned, Opened, Syncing
<1>2. file.tail = NoTail /\ Fits(p, k)
  BY <1>1 DEF SavedInv, Fits, HeaderFits
<1>3. r \in Record /\ file.good \in Content /\ file \in File /\ Loaded(file) = file.good
  BY <1>2, PendingType DEF TypeOK, File, Loaded
<1>4. CASE pc[p] # "messages"
  <2>1. r.type \in {"meta", "usage"}
    BY <1>4 DEF Pending
  <2>2. QED
    BY <1>1, <1>2, <1>3, <2>1, ReplayedMessages DEF Shown
<1>5. CASE pc[p] = "messages" /\ Rewrites(p)
  <2>1. r = [type |-> "checkpoint", messages |-> session[p].messages]
    BY <1>5 DEF Pending
  <2>2. r.type = "checkpoint" /\ r.messages = session[p].messages
    BY <2>1
  <2>3. QED
    BY <1>1, <1>2, <1>3, <1>5, <2>2, ReplayedMessages DEF Shown
<1>6. CASE pc[p] = "messages" /\ ~Rewrites(p)
  <2>1. /\ cursor[p] < Len(session[p].messages)
        /\ r.type = "message" /\ r.message = session[p].messages[cursor[p] + 1]
    BY <1>6 DEF Pending
  <2>2. Len(file.good.messages) = cursor[p]
    BY <1>2, <1>6 DEF Rewrites, Fits, MessagesFit, WrittenNow
  <2>3. Replayed(file.good, r).messages = Append(file.good.messages, r.message)
    BY <1>3, <2>1, ReplayedMessages DEF Content
  <2>4. QED
    BY <1>1, <1>2, <1>3, <1>6, <2>1, <2>2, <2>3 DEF Shown
<1>7. QED
  BY <1>4, <1>5, <1>6

(* The same record cut short, and appended as a whole.                     *)
LEMMA CutEffect ==
  ASSUME TypeOK, Owned, NEW k \in Nat, SavedInv(k), NEW p \in Procs,
         NEW r \in Pending(p), file' \in CutAppends(file, r)
  PROVE  /\ HasWriter(p) /\ HeaderKept
         /\ Shown' = Shown \/ WritesNext(p) \/ WritesAll(p)
<1>1. /\ HasWriter(p) /\ file.tail = NoTail /\ Shown = file.good.messages
      /\ r \in Record /\ file.good \in Content /\ file \in File
  BY PendingEffect
<1>2. Loaded(file') \in {file.good, Replayed(file.good, r)} /\ Loaded(file) = file.good
  BY <1>1, CutFacts DEF Loaded
<1>3. HeaderKept
  BY <1>1, <1>2, ReplayedHeader DEF HeaderKept
<1>4. CASE Shown' = Shown
  BY <1>1, <1>3, <1>4
<1>5. CASE Shown' # Shown
  <2>1. Shown' = Replayed(file.good, r).messages
    BY <1>1, <1>2, <1>5 DEF Shown
  <2>2. QED
    BY <1>1, <1>3, <1>5, <2>1, PendingEffect DEF WritesNext, WritesAll
<1>6. QED
  BY <1>4, <1>5

LEMMA AppendEffect ==
  ASSUME TypeOK, Owned, NEW k \in Nat, SavedInv(k), NEW p \in Procs,
         NEW r \in Pending(p), file' = AppendTo(file, r)
  PROVE  /\ HeaderKept /\ Shown' = Replayed(file.good, r).messages
         /\ Shown' = Shown \/ WritesNext(p) \/ WritesAll(p)
<1>1. /\ HasWriter(p) /\ file.tail = NoTail /\ Shown = file.good.messages
      /\ r \in Record /\ file.good \in Content /\ file \in File
  BY PendingEffect
<1>2. Loaded(file') = Replayed(file.good, r) /\ Loaded(file) = file.good
  BY <1>1, AppendFacts
<1>3. HeaderKept /\ Shown' = Replayed(file.good, r).messages
  BY <1>1, <1>2, ReplayedHeader DEF HeaderKept, Shown
<1>4. QED
  BY <1>1, <1>3, PendingEffect DEF WritesNext, WritesAll

(* A model record, whole or cut short, changes no message.                 *)
LEMMA ModelEffect ==
  ASSUME TypeOK, file.tail = NoTail, NEW m \in Models,
         \/ file' = AppendTo(file, [type |-> "model", model |-> m])
         \/ file' \in CutAppends(file, [type |-> "model", model |-> m])
         \/ file' = file
  PROVE  HeaderKept /\ Shown' = Shown
<1> DEFINE r == [type |-> "model", model |-> m]
<1>1. r \in Record /\ file \in File /\ file.good \in Content
  BY DEF Record, TypeOK, File
<1>2. Loaded(file) = file.good
  BY DEF Loaded
<1>3. r.type = "model"
  OBVIOUS
<1> HIDE DEF r
<1>4. Replayed(file.good, r).messages = file.good.messages
  BY <1>1, <1>3, ReplayedMessages
<1>5. file.good.header => Replayed(file.good, r).header
  BY <1>1, ReplayedHeader
<1>6. Loaded(file') \in {file.good, Replayed(file.good, r)}
  BY <1>1, <1>2, AppendFacts, CutFacts DEF r
<1>7. QED
  BY <1>2, <1>4, <1>5, <1>6 DEF HeaderKept, Shown

(* Steps that leave the process without a writer.                          *)
LEMMA DropsSteps ==
  ASSUME TypeOK, Owned, NEW k \in Nat, SavedInv(k), "cli_model" \notin FaultPoints, NEW p \in Procs,
         \/ \E m \in Models : StartFails(p, m) \/ SetModelFails(p, m)
         \/ \E n \in PromptLens : CreateFails(p, n)
         \/ SyncFails(p) \/ Leave(p)
  PROVE  StepOf(p, k)
<1> USE DEF Goto, SetSession, SetWriter, SetCursor, Release
<1>1. OnlyMoves(p) /\ ~HasWriter(p)' /\ entry' = entry /\ row' = row
  BY DEF StartFails, SetModelFails, CreateFails, SyncFails, Leave, MayFail, LeaveTo, HasWriter,
         OnlyMoves, TypeOK
<1>2. HeaderKept /\ (Shown' = Shown \/ (HasWriter(p) /\ (WritesNext(p) \/ WritesAll(p))))
  <2>1. CASE file' = file
    BY <2>1 DEF HeaderKept, Shown
  <2>2. CASE \E r \in Pending(p) : file' \in CutAppends(file, r)
    BY <2>2, CutEffect
  <2>3. CASE \E m \in Models : StartFails(p, m) \/ SetModelFails(p, m)
    <3>1. HasWriter(p)
      BY <2>3 DEF StartFails, SetModelFails, Owned, Opened
    <3>2. file.tail = NoTail
      BY <3>1 DEF SavedInv, Fits, HeaderFits
    <3>3. \E m \in Models : file' \in CutAppends(file, [type |-> "model", model |-> m])
      BY <2>3 DEF StartFails, SetModelFails
    <3>4. QED
      BY <3>2, <3>3, ModelEffect
  <2>4. QED
    BY <2>1, <2>2, <2>3 DEF CreateFails, SyncFails, Leave
<1>3. QED
  BY <1>1, <1>2 DEF StepOf, Drops, Idle

LEMMA IdleSteps ==
  ASSUME TypeOK, Owned, TypeOK', NEW k \in Nat, SavedInv(k), NEW p \in Procs,
         \/ ResumeOpen(p) \/ ResumeFails(p) \/ Reindex(p)
         \/ DeleteOpen(p) \/ DeleteLock(p) \/ DeleteUnlink(p) \/ DeleteRow(p)
  PROVE  StepOf(p, k)
<1> USE DEF Goto, Release
<1>1. OnlyMoves(p) /\ file' = file /\ writer' = writer
  BY DEF ResumeOpen, ResumeFails, Reindex, DeleteOpen, DeleteLock, DeleteUnlink, DeleteRow,
         OnlyMoves, TypeOK
<1>2. ~HasWriter(p)
  BY DEF ResumeOpen, ResumeFails, Reindex, DeleteOpen, DeleteLock, DeleteUnlink, DeleteRow,
         Owned, Opened, Chatting, Syncing
<1>3. entry' \in {entry, "unlinked"} /\ (row' \in {row, NoRow} \/ Reindex(p))
  BY DEF ResumeOpen, ResumeFails, Reindex, DeleteOpen, DeleteLock, DeleteUnlink, DeleteRow
<1>4. QED
  BY <1>1, <1>2, <1>3 DEF StepOf, Idle, HasWriter, HeaderKept, Shown

(* Steps that take a writer.                                               *)
LEMMA TakesSteps ==
  ASSUME TypeOK, Owned, TypeOK', Owned', NEW k \in Nat, SavedInv(k), SavedInv(k)',
         NEW p \in Procs, (\E m \in Models : Create(p, m)) \/ ResumeRead(p)
  PROVE  StepOf(p, k)
<1> USE DEF Goto, SetSession, SetWriter
<1>1. CASE \E m \in Models : Create(p, m)
  <2>1. PICK m \in Models : Create(p, m)
    BY <1>1
  <2>2. /\ OnlyMoves(p) /\ file' = file /\ row' = row /\ pc'[p] = "meta"
        /\ entry = "absent" /\ entry' = "linked" /\ pc[p] = "out"
        /\ session'[p] = [messages |-> <<>>, compactions |-> 0, usage |-> 0]
        /\ writer'[p] = [written |-> 0, compactions |-> 0, usage |-> 0, model |-> m]
    BY <2>1 DEF Create, OnlyMoves, TypeOK
  <2>3. ~HasWriter(p) /\ HasWriter(p)' /\ p \notin Savers'
    BY <2>2 DEF Owned, Opened, Chatting, Syncing, Savers
  <2>4. Shown = << >>
    BY <2>2 DEF SavedInv, FileFits, Loaded, Shown, NoContent
  <2>5. ~Rewrites(p)'
    BY <2>2, EmptySeq DEF Rewrites
  <2>6. QED
    BY <2>2, <2>3, <2>4, <2>5 DEF StepOf, Takes, HeaderKept, Shown
<1>2. CASE ResumeRead(p)
  <2> DEFINE c == Loaded(file)
  <2>1. /\ OnlyMoves(p) /\ entry' = entry /\ row' = row /\ pc[p] = "open" /\ pc'[p] = "resumed"
        /\ file' = [file EXCEPT !.good = c, !.tail = NoTail]
        /\ session'[p] = [messages |-> c.messages, compactions |-> c.checkpoints,
                          usage |-> c.usage]
        /\ writer'[p] = [written |-> Len(c.messages), compactions |-> c.checkpoints,
                         usage |-> c.usage, model |-> c.model]
    BY <1>2 DEF ResumeRead, Repaired, OnlyMoves, TypeOK
  <2>2. ~HasWriter(p) /\ HasWriter(p)'
    BY <2>1 DEF Owned, Opened, Chatting, Syncing
  <2>3. c \in Content /\ file' = [file EXCEPT !.good = c, !.tail = NoTail] /\ file \in File
    BY <2>1, LoadedType DEF TypeOK
  <2> HIDE DEF c
  <2>4. Loaded(file') = c
    BY <2>3 DEF File, Loaded
  <2>5. Len(c.messages) \in Nat
    BY <2>3, LenProperties DEF Content
  <2>6. ~Rewrites(p)'
    BY <2>1, <2>5 DEF Rewrites
  <2>7. QED
    BY <2>1, <2>2, <2>4, <2>6 DEF StepOf, Takes, HeaderKept, Shown, c
<1>3. QED
  BY <1>1, <1>2

(* Steps that write only what is not a message, or nothing at all.         *)
LEMMA RestsSteps ==
  ASSUME TypeOK, Owned, TypeOK', Owned', NEW k \in Nat, SavedInv(k), SavedInv(k)',
         NEW p \in Procs,
         \/ \E m \in Models : SetModel(p, m)
         \/ CreateMeta(p) \/ SyncBegin(p) \/ SyncMessagesDone(p) \/ SyncUsage(p) \/ SyncRow(p)
  PROVE  StepOf(p, k)
<1> USE DEF Goto, SetSession, SetWriter, SetCursor
<1>1. HasWriter(p)
  BY DEF SetModel, CreateMeta, SyncBegin, SyncMessagesDone, SyncUsage, SyncRow,
         Owned, Opened, Syncing
<1>2. /\ Fits(p, k) /\ file.tail = NoTail /\ writer[p] \in SessionWriter
      /\ session[p] \in Session /\ pc[p] \in Opened \cup Chatting
  BY <1>1 DEF SavedInv, TypeOK, Owned, HasWriter, Opened, Chatting, Syncing, Fits, HeaderFits
<1>3. /\ OnlyMoves(p) /\ entry' = entry /\ session' = session
      /\ row' = row \/ SyncRow(p)
      /\ pc'[p] \in Chatting <=> pc[p] \in Chatting
      /\ pc'[p] \in {"row"} \cup Chatting /\ pc[p] # "resumed"
  BY DEF SetModel, CreateMeta, SyncBegin, SyncMessagesDone, SyncUsage, SyncRow,
         OnlyMoves, TypeOK, Chatting, Syncing
<1>4. writer'[p].compactions = writer[p].compactions /\ writer'[p] \in SessionWriter
  <2>1. CASE \E m \in Models : SetModel(p, m)
    <3>1. \E m \in Models : writer'[p] = [writer[p] EXCEPT !.model = m]
      BY <2>1 DEF SetModel, TypeOK
    <3>2. QED
      BY <1>2, <3>1 DEF SessionWriter
  <2>2. CASE SyncMessagesDone(p)
    <3>1. writer'[p] = [writer[p] EXCEPT !.written = Len(session[p].messages)]
      BY <2>2 DEF SyncMessagesDone, TypeOK
    <3>2. Len(session[p].messages) \in Nat
      BY <1>2, LenProperties DEF Session
    <3>3. QED
      BY <1>2, <3>1, <3>2 DEF SessionWriter
  <2>3. CASE SyncUsage(p)
    <3>1. writer'[p] = [writer[p] EXCEPT !.usage = session[p].usage]
      BY <2>3 DEF SyncUsage, TypeOK
    <3>2. QED
      BY <1>2, <3>1 DEF SessionWriter, Session
  <2>4. CASE CreateMeta(p) \/ SyncBegin(p) \/ SyncRow(p)
    BY <1>2, <2>4 DEF CreateMeta, SyncBegin, SyncRow
  <2>5. QED
    BY <2>1, <2>2, <2>3, <2>4
<1>5. HasWriter(p)'
  BY <1>4, NoneAssumption DEF HasWriter
<1>6. p \in Savers <=> p \in Savers'
  BY <1>1, <1>3, <1>5 DEF Savers
<1>7. Rewrites(p)' = Rewrites(p)
  <2>1. Fits(p, k)'
    BY <1>5 DEF SavedInv
  <2>2. session[p].messages \in Seq(Message) /\ session'[p] = session[p]
    BY <1>2, <1>3 DEF Session
  <2>3. QED
    BY <1>2, <1>4, <2>1, <2>2, FitsRewrites, FitsRewritesNext DEF Fits
<1>8. HeaderKept /\ Shown' = Shown
  <2>1. CASE file' = file
    BY <2>1 DEF HeaderKept, Shown
  <2>2. CASE \E m \in Models : SetModel(p, m)
    BY <1>2, <2>2, ModelEffect DEF SetModel
  <2>3. CASE CreateMeta(p) \/ SyncUsage(p)
    <3>1. CASE file' = file
      BY <2>1, <3>1
    <3>2. CASE \E r \in Pending(p) : file' = AppendTo(file, r)
      <4>1. pc[p] # "messages"
        BY <2>3 DEF CreateMeta, SyncUsage
      <4>2. QED
        BY <3>2, <4>1, AppendEffect DEF WritesNext, WritesAll
    <3>3. QED
      BY <2>3, <3>1, <3>2 DEF CreateMeta, SyncUsage
  <2>4. QED
    BY <2>1, <2>2, <2>3 DEF SyncBegin, SyncMessagesDone, SyncRow
<1>9. QED
  BY <1>1, <1>3, <1>5, <1>6, <1>7, <1>8 DEF StepOf, Rests

(* Steps that renew the prompt.                                            *)
LEMMA RenewsSteps ==
  ASSUME TypeOK, Owned, TypeOK', Owned', NEW k \in Nat, SavedInv(k), SavedInv(k)',
         PromptLens = {k}, NEW p \in Procs,
         \/ \E m \in Models, n \in PromptLens : StartChat(p, m, n)
         \/ \E n \in PromptLens : CreateRow(p, n) \/ (Pin(p, n) /\ HasWriter(p))
  PROVE  StepOf(p, k)
<1> USE DEF Goto, SetSession, SetWriter, SetCursor
<1>1. HasWriter(p)
  BY DEF StartChat, CreateRow, Owned, Opened
<1>2. /\ Fits(p, k) /\ file.tail = NoTail /\ writer[p] \in SessionWriter
      /\ session[p] \in Session
  BY <1>1 DEF SavedInv, TypeOK, Owned, HasWriter, Opened, Chatting, Syncing, Fits, HeaderFits
<1>3. /\ OnlyMoves(p) /\ entry' = entry /\ pc'[p] = "chat"
      /\ session'[p] = [session[p] EXCEPT !.messages = SetSystem(session[p].messages, Prompt(k))]
      /\ (pc[p] \in {"resumed", "chat"} /\ row' = row) \/ CreateRow(p, k)
  BY DEF StartChat, CreateRow, Pin, OnlyMoves, TypeOK
<1>4. /\ session'[p].messages = SetSystem(session[p].messages, Prompt(k))
      /\ session'[p].compactions = session[p].compactions
  BY <1>2, <1>3 DEF Session
<1>5. writer'[p].compactions = writer[p].compactions /\ writer'[p] \in SessionWriter
  <2>1. writer' = writer \/ \E m \in Models : writer'[p] = [writer[p] EXCEPT !.model = m]
    BY DEF StartChat, CreateRow, Pin, TypeOK
  <2>2. QED
    BY <1>2, <2>1 DEF SessionWriter
<1>6. HasWriter(p)'
  BY <1>5, NoneAssumption DEF HasWriter
<1>7. Rewrites(p)' = Rewrites(p)
  <2>1. Fits(p, k)'
    BY <1>6 DEF SavedInv
  <2>2. session[p].messages \in Seq(Message)
    BY <1>2 DEF Session
  <2>3. session'[p].messages \in Seq(Message)
    BY <1>4, <2>2, PromptType, SetSystemType
  <2>4. QED
    BY <1>2, <1>4, <1>5, <2>1, <2>2, <2>3, FitsRewrites, FitsRewritesNext DEF Fits
<1>8. HeaderKept /\ Shown' = Shown
  <2>1. CASE file' = file
    BY <2>1 DEF HeaderKept, Shown
  <2>2. CASE \E m \in Models : file' = AppendTo(file, [type |-> "model", model |-> m])
    BY <1>2, <2>2, ModelEffect
  <2>3. QED
    BY <2>1, <2>2 DEF StartChat, CreateRow, Pin
<1>9. p \in Savers' /\ ((p \in Savers /\ row' = row) \/ CreateRow(p, k))
  BY <1>1, <1>3, <1>6 DEF Savers, Chatting
<1>10. QED
  BY <1>1, <1>3, <1>4, <1>6, <1>7, <1>8, <1>9 DEF StepOf, Renews, Holds

(* Steps that change the conversation.                                     *)
LEMMA ChatSteps ==
  ASSUME TypeOK, Owned, TypeOK', Owned', NEW k \in Nat, SavedInv(k), SavedInv(k)',
         NEW p \in Procs, HasWriter(p),
         \/ \E role \in Role : AddMessage(p, role)
         \/ \E mask, summarize \in BOOLEAN : CompactChat(p, mask, summarize)
  PROVE  StepOf(p, k)
<1> USE DEF SetSession
<1>1. /\ OnlyMoves(p) /\ entry' = entry /\ file' = file /\ writer' = writer /\ row' = row
      /\ pc[p] = "chat" /\ pc' = pc
  BY DEF AddMessage, CompactChat, OnlyMoves, TypeOK
<1>2. /\ Fits(p, k) /\ writer[p] \in SessionWriter /\ session[p] \in Session
      /\ session[p].messages \in Seq(Message)
  BY <1>1 DEF SavedInv, TypeOK, Owned, HasWriter, Chatting, Session
<1>3. /\ Fits(p, k)' /\ HasWriter(p)' /\ writer'[p] = writer[p] /\ session'[p] \in Session
      /\ session'[p].messages \in Seq(Message)
  BY <1>1 DEF SavedInv, TypeOK, Owned, HasWriter, Chatting, Session
<1>4. p \in Savers /\ p \in Savers' /\ HeaderKept /\ Shown' = Shown
  BY <1>1, <1>3 DEF Savers, Chatting, HeaderKept, Shown
<1>5. CASE \E role \in Role : AddMessage(p, role)
  <2>1. PICK role \in Role : AddMessage(p, role)
    BY <1>5
  <2>2. /\ role \in {"user", "assistant", "tool"}
        /\ role # "user" => Conversation(session[p].messages) # << >>
    BY <2>1 DEF AddMessage
  <2>3. /\ session'[p].messages = Append(session[p].messages, [role |-> role, id |-> nextId])
        /\ session'[p].compactions = session[p].compactions
    BY <1>2, <2>1 DEF AddMessage, TypeOK, Session
  <2>4. Rewrites(p)' = Rewrites(p)
    BY <1>2, <1>3, <2>3, FitsRewrites, FitsRewritesNext DEF Fits
  <2>5. Adds(p)
    BY <1>1, <1>3, <1>4, <2>2, <2>3, <2>4 DEF Adds, Holds
  <2>6. QED
    BY <1>1, <1>4, <2>5 DEF StepOf
<1>6. CASE \E mask, summarize \in BOOLEAN : CompactChat(p, mask, summarize)
  <2>1. PICK mask \in BOOLEAN, summarize \in BOOLEAN : CompactChat(p, mask, summarize)
    BY <1>6
  <2>2. /\ session'[p].messages = Compacted(session[p].messages, mask, summarize, nextId)
        /\ session'[p].compactions = session[p].compactions + 1
    BY <1>2, <2>1 DEF CompactChat, TypeOK, Session
  <2>3. writer[p].compactions <= session[p].compactions
        /\ writer[p].compactions \in Nat /\ session[p].compactions \in Nat
    BY <1>2 DEF Fits, MessagesFit, SessionWriter, Session
  <2>4. session'[p].compactions # writer'[p].compactions
    BY <1>3, <2>2, <2>3
  <2>5. Rewrites(p)'
    BY <2>4 DEF Rewrites
  <2>6. Compacts(p)
    BY <1>1, <1>3, <1>4, <2>2, <2>5 DEF Compacts, Holds
  <2>7. QED
    BY <1>1, <1>4, <2>6 DEF StepOf
<1>7. QED
  BY <1>5, <1>6

(* Without a writer, what happens to a chat concerns nobody else.          *)
LEMMA UnsavedSteps ==
  ASSUME TypeOK, NEW k \in Nat, NEW p \in Procs, ~HasWriter(p),
         \/ \E n \in PromptLens : Pin(p, n)
         \/ \E role \in Role : AddMessage(p, role)
         \/ \E mask, summarize \in BOOLEAN : CompactChat(p, mask, summarize)
  PROVE  StepOf(p, k)
<1> USE DEF SetSession
<1>1. OnlyMoves(p) /\ entry' = entry /\ file' = file /\ writer' = writer /\ row' = row
  BY DEF Pin, AddMessage, CompactChat, OnlyMoves, TypeOK
<1>2. QED
  BY <1>1 DEF StepOf, Idle, HeaderKept, Shown, HasWriter

(* Steps that write messages.                                              *)
LEMMA SavesSteps ==
  ASSUME TypeOK, Owned, TypeOK', Owned', NEW k \in Nat, SavedInv(k), SavedInv(k)',
         NEW p \in Procs, SyncCheckpoint(p) \/ SyncMessage(p)
  PROVE  StepOf(p, k)
<1> USE DEF Goto, SetWriter, SetCursor
<1>1. /\ OnlyMoves(p) /\ entry' = entry /\ session' = session /\ row' = row
      /\ pc[p] = "messages" /\ pc'[p] \in {"messages", "usage"} /\ HasWriter(p)
  BY DEF SyncCheckpoint, SyncMessage, OnlyMoves, TypeOK, Owned, Syncing
<1>2. /\ writer[p] \in SessionWriter /\ session[p] \in Session
      /\ session[p].messages \in Seq(Message)
  BY <1>1 DEF TypeOK, Owned, HasWriter, Chatting, Syncing, Session
<1>3. HasWriter(p)' /\ p \in Savers /\ p \in Savers'
  BY <1>1 DEF Owned, Savers, Chatting, Syncing
<1>4. PICK r \in Pending(p) : file' = AppendTo(file, r)
  BY DEF SyncCheckpoint, SyncMessage
<1>5. HeaderKept /\ (WritesNext(p) \/ WritesAll(p))
  <2>1. HeaderKept /\ Shown' = Replayed(file.good, r).messages
    BY <1>4, AppendEffect
  <2>2. CASE Rewrites(p)
    <3>1. r = [type |-> "checkpoint", messages |-> session[p].messages]
      BY <1>1, <2>2 DEF Pending
    <3>2. r.type = "checkpoint" /\ r.messages = session[p].messages
      BY <3>1
    <3>3. r \in Record /\ file.good \in Content
      BY PendingEffect
    <3>4. QED
      BY <1>1, <2>1, <2>2, <3>2, <3>3, ReplayedMessages DEF WritesAll
  <2>3. CASE ~Rewrites(p)
    <3>1. cursor[p] < Len(session[p].messages)
          /\ r.type = "message" /\ r.message = session[p].messages[cursor[p] + 1]
      BY <1>1, <2>3 DEF Pending
    <3>2. r \in Record /\ file.good \in Content /\ Shown = file.good.messages
      BY PendingEffect
    <3>3. Replayed(file.good, r).messages = Append(file.good.messages, r.message)
      BY <3>1, <3>2, ReplayedMessages DEF Content
    <3>4. Len(file.good.messages) = cursor[p]
      BY <1>1, <2>3 DEF SavedInv, Rewrites, Fits, MessagesFit, WrittenNow
    <3>5. QED
      BY <1>1, <2>1, <2>3, <3>1, <3>2, <3>3, <3>4 DEF WritesNext
  <2>4. QED
    BY <2>1, <2>2, <2>3
<1>6. ~Rewrites(p)'
  <2>1. CASE SyncCheckpoint(p)
    <3>1. writer'[p].compactions = session[p].compactions
          /\ writer'[p].written = Len(session[p].messages)
      BY <1>2, <2>1 DEF SyncCheckpoint, TypeOK, SessionWriter
    <3>2. Len(session[p].messages) \in Nat
      BY <1>2, LenProperties
    <3>3. QED
      BY <1>1, <3>1, <3>2 DEF Rewrites
  <2>2. CASE SyncMessage(p)
    BY <1>1, <2>2 DEF SyncMessage, Rewrites
  <2>3. QED
    BY <2>1, <2>2
<1>7. QED
  BY <1>1, <1>3, <1>5, <1>6 DEF StepOf, Saves, Holds

LEMMA StepKinds ==
  ASSUME TypeOK, Owned, TypeOK', Owned', Next, NEW k \in Nat, PromptLens = {k},
         "cli_model" \notin FaultPoints, SavedInv(k), SavedInv(k)'
  PROVE  \E p \in Procs : StepOf(p, k)
<1>0. PICK p \in Procs :
        \/ \E m \in Models : Create(p, m) \/ StartFails(p, m) \/ SetModel(p, m)
                              \/ SetModelFails(p, m)
        \/ \E m \in Models, n \in PromptLens : StartChat(p, m, n)
        \/ \E n \in PromptLens : CreateRow(p, n) \/ CreateFails(p, n) \/ Pin(p, n)
        \/ \E role \in Role : AddMessage(p, role)
        \/ \E mask, summarize \in BOOLEAN : CompactChat(p, mask, summarize)
        \/ CreateMeta(p) \/ ResumeOpen(p) \/ ResumeFails(p) \/ ResumeRead(p)
        \/ SyncBegin(p) \/ SyncCheckpoint(p) \/ SyncMessage(p) \/ SyncMessagesDone(p)
        \/ SyncUsage(p) \/ SyncRow(p) \/ SyncFails(p)
        \/ Leave(p) \/ Reindex(p)
        \/ DeleteOpen(p) \/ DeleteLock(p) \/ DeleteUnlink(p) \/ DeleteRow(p)
  BY DEF Next
<1>1. CASE \/ \E m \in Models : StartFails(p, m) \/ SetModelFails(p, m)
           \/ \E n \in PromptLens : CreateFails(p, n)
           \/ SyncFails(p) \/ Leave(p)
  BY <1>1, DropsSteps
<1>2. CASE \/ ResumeOpen(p) \/ ResumeFails(p) \/ Reindex(p)
           \/ DeleteOpen(p) \/ DeleteLock(p) \/ DeleteUnlink(p) \/ DeleteRow(p)
  BY <1>2, IdleSteps
<1>3. CASE (\E m \in Models : Create(p, m)) \/ ResumeRead(p)
  BY <1>3, TakesSteps
<1>4. CASE \/ \E m \in Models : SetModel(p, m)
           \/ CreateMeta(p) \/ SyncBegin(p) \/ SyncMessagesDone(p) \/ SyncUsage(p) \/ SyncRow(p)
  BY <1>4, RestsSteps
<1>5. CASE \/ \E m \in Models, n \in PromptLens : StartChat(p, m, n)
           \/ \E n \in PromptLens : CreateRow(p, n)
  BY <1>5, RenewsSteps
<1>6. CASE \E n \in PromptLens : Pin(p, n)
  BY <1>6, RenewsSteps, UnsavedSteps
<1>7. CASE \/ \E role \in Role : AddMessage(p, role)
           \/ \E mask, summarize \in BOOLEAN : CompactChat(p, mask, summarize)
  BY <1>7, ChatSteps, UnsavedSteps
<1>8. CASE SyncCheckpoint(p) \/ SyncMessage(p)
  BY <1>8, SavesSteps
<1>9. QED
  BY <1>0, <1>1, <1>2, <1>3, <1>4, <1>5, <1>6, <1>7, <1>8

-----------------------------------------------------------------------------
(* What SavedChat says of the store: its three variables, seen from the    *)
(* process that has the writer.                                            *)
LEMMA View ==
  ASSUME Owned, NEW p \in Procs, HasWriter(p)
  PROVE  /\ p \in Savers => /\ OpenConversation = Conversation(session[p].messages)
                            /\ EarlierRewritten = Rewrites(p)
         /\ p \notin Savers => OpenConversation = NoChat /\ EarlierRewritten = FALSE
<1>1. Savers \subseteq {p}
  BY DEF Owned, Savers
<1>2. CASE p \in Savers
  <2>1. Savers = {p}
    BY <1>1, <1>2
  <2>2. EarlierRewritten <=> Rewrites(p)
    BY <2>1 DEF EarlierRewritten
  <2>3. EarlierRewritten \in BOOLEAN /\ Rewrites(p) \in BOOLEAN
    BY DEF EarlierRewritten, Rewrites
  <2>4. EarlierRewritten = Rewrites(p)
    BY <2>2, <2>3
  <2>5. QED
    BY <1>2, <2>1, <2>4 DEF OpenConversation
<1>3. CASE p \notin Savers
  <2>1. Savers = {}
    BY <1>1, <1>3
  <2>2. QED
    BY <1>3, <2>1 DEF OpenConversation, EarlierRewritten
<1>4. QED
  BY <1>2, <1>3

LEMMA ViewNext ==
  ASSUME Owned', NEW p \in Procs, HasWriter(p)'
  PROVE  /\ p \in Savers' => /\ OpenConversation' = Conversation(session'[p].messages)
                             /\ EarlierRewritten' = Rewrites(p)'
         /\ p \notin Savers' => OpenConversation' = NoChat /\ EarlierRewritten' = FALSE
<1>1. Savers' \subseteq {p}
  BY DEF Owned, Savers
<1>2. CASE p \in Savers'
  <2>1. Savers' = {p}
    BY <1>1, <1>2
  <2>2. EarlierRewritten' <=> Rewrites(p)'
    BY <2>1 DEF EarlierRewritten
  <2>3. EarlierRewritten' \in BOOLEAN /\ Rewrites(p)' \in BOOLEAN
    BY DEF EarlierRewritten, Rewrites
  <2>4. EarlierRewritten' = Rewrites(p)'
    BY <2>2, <2>3
  <2>5. QED
    BY <1>2, <2>1, <2>4 DEF OpenConversation
<1>3. CASE p \notin Savers'
  <2>1. Savers' = {}
    BY <1>1, <1>3
  <2>2. QED
    BY <1>3, <2>1 DEF OpenConversation, EarlierRewritten
<1>4. QED
  BY <1>2, <1>3

(* No process saves the chat.                                              *)
LEMMA NobodySaves ==
  ASSUME \A q \in Procs : ~HasWriter(q)
  PROVE  OpenConversation = NoChat /\ EarlierRewritten = FALSE
BY DEF Savers, OpenConversation, EarlierRewritten

LEMMA NobodySavesNext ==
  ASSUME \A q \in Procs : ~HasWriter(q)'
  PROVE  OpenConversation' = NoChat /\ EarlierRewritten' = FALSE
BY DEF Savers, OpenConversation, EarlierRewritten

(* A process that saves the chat knows what is in the file.                *)
LEMMA SaverFacts ==
  ASSUME TypeOK, Owned, NEW k \in Nat, SavedInv(k), NEW p \in Procs, HasWriter(p)
  PROVE  /\ Shown = file.good.messages /\ Shown \in Seq(Message) /\ PinnedUpTo(Shown, k)
         /\ session[p].messages \in Seq(Message) /\ cursor[p] \in Nat
         /\ p \in Savers => PinnedUpTo(session[p].messages, k)
         /\ p \in Savers /\ pc[p] # "resumed" => k <= Len(session[p].messages)
         /\ p \notin Savers => session[p].messages = << >> /\ Shown = << >>
         /\ ~Rewrites(p) =>
              /\ Len(Shown) <= Len(session[p].messages)
              /\ \A i \in k+1..Len(Shown) : Shown[i] = session[p].messages[i]
<1>1. /\ Fits(p, k) /\ file.tail = NoTail /\ writer[p] \in SessionWriter
      /\ session[p] \in Session /\ pc[p] \in Opened \cup Chatting
  BY DEF SavedInv, TypeOK, Owned, HasWriter, Opened, Chatting, Syncing, Fits, HeaderFits
<1>2. Shown = file.good.messages /\ Shown \in Seq(Message) /\ PinnedUpTo(Shown, k)
  BY <1>1, LoadedType DEF SavedInv, FileFits, Shown, Loaded, TypeOK, File, Content
<1>3. session[p].messages \in Seq(Message) /\ cursor[p] \in Nat
  BY <1>1 DEF Session, TypeOK
<1>4. /\ p \in Savers => PinnedUpTo(session[p].messages, k)
      /\ p \in Savers /\ pc[p] # "resumed" => k <= Len(session[p].messages)
  BY <1>1, <1>2 DEF Fits, SessionFits, Savers
<1>5. ASSUME p \notin Savers
      PROVE  session[p].messages = << >> /\ Shown = << >>
  <2>1. pc[p] \in {"meta", "row"}
    BY <1>1, <1>5 DEF Savers, Opened
  <2>2. session[p].messages = << >> /\ writer[p].written = 0
    BY <1>1, <2>1 DEF Fits, SessionFits
  <2>3. Len(Shown) = 0
    BY <1>1, <1>2, <2>1, <2>2 DEF Fits, MessagesFit, WrittenNow
  <2>4. QED
    BY <1>2, <2>2, <2>3, EmptySeq
<1>6. ASSUME ~Rewrites(p)
      PROVE  /\ Len(Shown) <= Len(session[p].messages)
             /\ \A i \in k+1..Len(Shown) : Shown[i] = session[p].messages[i]
  <2>1. writer[p].compactions = session[p].compactions
    BY <1>6 DEF Rewrites
  <2>2. Len(Shown) = WrittenNow(p)
    BY <1>1, <1>2 DEF Fits, MessagesFit
  <2>3. QED
    BY <1>1, <1>2, <2>1, <2>2 DEF Fits, MessagesFit
<1>7. QED
  BY <1>2, <1>3, <1>4, <1>5, <1>6

(* What a save in progress writes is a Grow or a full rewrite.             *)
LEMMA WriteIsSave ==
  ASSUME TypeOK, Owned, NEW k \in Nat, SavedInv(k), TypeOK', FileFits(k)',
         NEW p \in Procs, HasWriter(p), WritesNext(p) \/ WritesAll(p)
  PROVE  /\ p \in Savers
         /\ Promise!Grow \/ (EarlierRewritten /\ SavedConversation' = OpenConversation)
<1>1. pc[p] = "messages"
  BY DEF WritesNext, WritesAll
<1>2. p \in Savers
  BY <1>1 DEF Savers, Chatting, Syncing
<1>3. OpenConversation = Conversation(session[p].messages) /\ EarlierRewritten = Rewrites(p)
  BY <1>2, View
<1>4. SavedConversation = Conversation(Shown) /\ SavedConversation' = Conversation(Shown')
  BY DEF SavedConversation, Shown
<1>5. CASE WritesAll(p)
  BY <1>2, <1>3, <1>4, <1>5 DEF WritesAll
<1>6. CASE WritesNext(p)
  <2> DEFINE S == session[p].messages
             e == S[cursor[p] + 1]
  <2>1. /\ ~Rewrites(p) /\ cursor[p] < Len(S) /\ Len(Shown) = cursor[p]
        /\ Shown' = Append(Shown, e)
    BY <1>6 DEF WritesNext
  <2>2. /\ Shown \in Seq(Message) /\ PinnedUpTo(Shown, k) /\ S \in Seq(Message)
        /\ cursor[p] \in Nat /\ PinnedUpTo(S, k) /\ Len(Shown) <= Len(S)
        /\ \A i \in k+1..Len(Shown) : Shown[i] = S[i]
    BY <1>2, <2>1, SaverFacts
  <2>3. Len(S) \in Nat /\ cursor[p] + 1 \in 1..Len(S)
    BY <2>1, <2>2, LenProperties
  <2>4. e \in Message
    BY <2>2, <2>3, ElementOfSeq
  <2> HIDE DEF e, S
  <2>5. /\ Shown' \in Seq(Message) /\ Len(Shown') = cursor[p] + 1
        /\ Shown'[cursor[p] + 1] = e
        /\ \A i \in 1..cursor[p] : Shown'[i] = Shown[i]
    BY <2>1, <2>2, <2>4, AppendProperties
  <2>6. PinnedUpTo(Shown', k)
    BY DEF FileFits, Shown
  <2>7. \A i \in k+1..Len(Shown) : Shown[i] = Shown'[i]
    <3>1. k+1..Len(Shown) \subseteq 1..cursor[p]
      BY <2>1, <2>2
    <3>2. QED
      BY <2>5, <3>1
  <2>8. Len(Shown) <= Len(Shown') /\ Len(Shown') <= Len(S)
    BY <2>1, <2>2, <2>3, <2>5
  <2>9. ASSUME NEW i \in k+1..Len(Shown')
        PROVE  Shown'[i] = S[i]
    <3>1. CASE i = cursor[p] + 1
      BY <2>5, <3>1 DEF e
    <3>2. CASE i # cursor[p] + 1
      <4>1. i \in k+1..Len(Shown) /\ i \in 1..cursor[p]
        BY <2>1, <2>2, <2>5, <3>2
      <4>2. QED
        BY <2>2, <2>5, <4>1
    <3>3. QED
      BY <3>1, <3>2
  <2>10. Promise!IsPrefix(Conversation(Shown), Conversation(Shown'))
    BY <2>2, <2>5, <2>6, <2>7, <2>8, ConversationPrefix DEF Promise!IsPrefix
  <2>11. Promise!IsPrefix(Conversation(Shown'), Conversation(S))
    BY <2>2, <2>5, <2>6, <2>8, <2>9, ConversationPrefix DEF Promise!IsPrefix
  <2>12. Promise!Grow
    BY <1>3, <1>4, <2>1, <2>10, <2>11 DEF Promise!Grow, S
  <2>13. QED
    BY <1>2, <2>12
<1>7. QED
  BY <1>5, <1>6

LEMMA IdleStutters ==
  ASSUME NEW p \in Procs, OnlyMoves(p), Idle(p)
  PROVE  UNCHANGED Promise!vars
<1>1. Savers' = Savers /\ p \notin Savers
  BY DEF Idle, OnlyMoves, Savers, HasWriter
<1>2. SavedConversation' = SavedConversation
  BY DEF Idle, SavedConversation, Shown
<1>3. OpenConversation' = OpenConversation
  <2>1. CASE Savers = {}
    BY <1>1, <2>1 DEF OpenConversation
  <2>2. CASE Savers # {}
    <3>1. (CHOOSE q \in Savers : TRUE) \in Procs \ {p}
      BY <1>1, <2>2 DEF Savers
    <3>2. session'[CHOOSE q \in Savers : TRUE] = session[CHOOSE q \in Savers : TRUE]
      BY <3>1 DEF OnlyMoves
    <3>3. QED
      BY <1>1, <2>2, <3>2 DEF OpenConversation
  <2>3. QED
    BY <2>1, <2>2
<1>4. EarlierRewritten' = EarlierRewritten
  <2>1. \A q \in Savers : q \in Procs \ {p}
    BY <1>1 DEF Savers
  <2>2. \A q \in Savers : Rewrites(q)' <=> Rewrites(q)
    BY <2>1 DEF OnlyMoves, Rewrites
  <2>3. EarlierRewritten' <=> EarlierRewritten
    BY <1>1, <2>2 DEF EarlierRewritten
  <2>4. EarlierRewritten' \in BOOLEAN /\ EarlierRewritten \in BOOLEAN
    BY DEF EarlierRewritten
  <2>5. QED
    BY <2>3, <2>4
<1>5. QED
  BY <1>2, <1>3, <1>4 DEF Promise!vars

(* Every step of the store is a step of SavedChat, or none.                *)
LEMMA PromiseStep ==
  ASSUME TypeOK, Owned, TypeOK', Owned', NEW k \in Nat, PromptLens = {k},
         SavedInv(k), SavedInv(k)', NEW p \in Procs, StepOf(p, k)
  PROVE  [Promise!Next]_(Promise!vars)
<1>1. FileFits(k) /\ FileFits(k)' /\ OnlyMoves(p)
  BY DEF SavedInv, StepOf
<1>2. SavedConversation = Conversation(Shown) /\ SavedConversation' = Conversation(Shown')
  BY DEF SavedConversation, Shown
<1>3. Shown \in Seq(Message) /\ PinnedUpTo(Shown, k)
  BY <1>1, LoadedType DEF FileFits, Shown, TypeOK, Content
<1>4. SavedConversation \in Seq(Message)
  BY <1>2, <1>3, ConversationFacts
<1>5. CASE Idle(p)
  BY <1>1, <1>5, IdleStutters
<1>6. CASE Drops(p)
  <2>1. HasWriter(p) /\ ~HasWriter(p)' /\ (Shown' = Shown \/ WritesNext(p) \/ WritesAll(p))
    BY <1>6 DEF Drops
  <2>2. \A q \in Procs : ~HasWriter(q)'
    BY <1>1, <2>1 DEF OnlyMoves, Owned, HasWriter
  <2>3. OpenConversation' = NoChat /\ EarlierRewritten' = FALSE
    BY <2>2, NobodySavesNext
  <2>4. CASE p \notin Savers
    <3>1. OpenConversation = NoChat /\ EarlierRewritten = FALSE
      BY <2>1, <2>4, View
    <3>2. Shown' = Shown
      BY <1>1, <2>1, <2>4, WriteIsSave
    <3>3. QED
      BY <1>2, <2>3, <3>1, <3>2 DEF Promise!vars
  <2>5. CASE p \in Savers
    <3>1. OpenConversation = Conversation(session[p].messages)
      BY <2>1, <2>5, View
    <3>2. OpenConversation # NoChat
      BY <2>1, <2>5, <3>1, SaverFacts, ConversationFacts, NoneAssumption
    <3>3. Shown' = Shown \/ Promise!Grow
          \/ (EarlierRewritten /\ SavedConversation' = OpenConversation)
      BY <1>1, <2>1, WriteIsSave
    <3>4. Promise!Close
      BY <1>2, <2>3, <3>2, <3>3 DEF Promise!Close
    <3>5. QED
      BY <3>4 DEF Promise!Next
  <2>6. QED
    BY <2>4, <2>5
<1>7. CASE Takes(p)
  <2>1. /\ ~HasWriter(p) /\ HasWriter(p)' /\ ~Rewrites(p)' /\ Shown' = Shown
        /\ session'[p].messages = Shown
    BY <1>7 DEF Takes
  <2>2. \A q \in Procs : ~HasWriter(q)
    BY <1>1, <2>1 DEF OnlyMoves, Owned, HasWriter
  <2>3. OpenConversation = NoChat /\ EarlierRewritten = FALSE
    BY <2>2, NobodySaves
  <2>4. CASE p \notin Savers'
    <3>1. OpenConversation' = NoChat /\ EarlierRewritten' = FALSE
      BY <2>1, <2>4, ViewNext
    <3>2. QED
      BY <1>2, <2>1, <2>3, <3>1 DEF Promise!vars
  <2>5. CASE p \in Savers'
    <3>1. OpenConversation' = Conversation(Shown) /\ EarlierRewritten' = FALSE
      BY <2>1, <2>5, ViewNext DEF Rewrites
    <3>2. Promise!Open
      BY <1>2, <2>1, <2>3, <3>1 DEF Promise!Open
    <3>3. QED
      BY <3>2 DEF Promise!Next
  <2>6. QED
    BY <2>4, <2>5
<1>8. CASE Renews(p, k) \/ Adds(p) \/ Compacts(p) \/ Saves(p)
  <2>1. HasWriter(p) /\ HasWriter(p)' /\ p \in Savers'
    BY <1>8 DEF Renews, Adds, Compacts, Saves, Holds
  <2>2. OpenConversation' = Conversation(session'[p].messages) /\ EarlierRewritten' = Rewrites(p)'
    BY <2>1, ViewNext
  <2>3. session[p].messages \in Seq(Message)
    BY <2>1, SaverFacts
  <2>4. p \in Savers => /\ OpenConversation = Conversation(session[p].messages)
                        /\ EarlierRewritten = Rewrites(p)
                        /\ OpenConversation # NoChat
                        /\ PinnedUpTo(session[p].messages, k)
    <3> SUFFICES ASSUME p \in Savers
                 PROVE  /\ OpenConversation = Conversation(session[p].messages)
                        /\ EarlierRewritten = Rewrites(p)
                        /\ OpenConversation # NoChat
                        /\ PinnedUpTo(session[p].messages, k)
      OBVIOUS
    <3>1. /\ OpenConversation = Conversation(session[p].messages)
          /\ EarlierRewritten = Rewrites(p)
      BY <2>1, View
    <3>2. PinnedUpTo(session[p].messages, k)
      BY <2>1, SaverFacts
    <3>3. Conversation(session[p].messages) \in Seq(Message)
      BY <2>3, <3>2, ConversationFacts
    <3>4. QED
      BY <3>1, <3>2, <3>3, NoneAssumption
  <2>5. session'[p].messages \in Seq(Message) /\ PinnedUpTo(session'[p].messages, k)
    <3>1. pc'[p] \in Chatting \cup {"resumed"}
      BY <2>1 DEF Savers
    <3>2. session'[p] \in Session
      BY <2>1, <3>1 DEF TypeOK, Owned, HasWriter, Opened
    <3>3. file'.tail = NoTail /\ FileFits(k)' /\ SessionFits(p, k)'
      BY <2>1 DEF SavedInv, Fits, HeaderFits
    <3>4. QED
      BY <3>1, <3>2, <3>3 DEF Session, SessionFits, FileFits, Loaded
  <2>6. CASE Renews(p, k)
    <3>1. /\ Shown' = Shown /\ Rewrites(p)' = Rewrites(p)
          /\ session'[p].messages = SetSystem(session[p].messages, Prompt(k))
      BY <2>6 DEF Renews
    <3>2. CASE p \in Savers
      <4>1. Conversation(session'[p].messages) = Conversation(session[p].messages)
        BY <2>3, <2>4, <3>1, <3>2, PromptType, SetSystemKeepsRest
      <4>2. QED
        BY <1>2, <2>2, <2>4, <3>1, <3>2, <4>1 DEF Promise!vars
    <3>3. CASE p \notin Savers
      <4>1. session[p].messages = << >> /\ Shown = << >>
        BY <2>1, <3>3, SaverFacts
      <4>2. PinnedUpTo(<< >>, k) /\ << >> \in Seq(Message)
        BY EmptySeq DEF PinnedUpTo
      <4>3. Conversation(session'[p].messages) = Conversation(<< >>)
        <5>1. /\ Prompt(k) \in Seq(Message) /\ Len(Prompt(k)) = k
              /\ \A i \in 1..k : Pinned(Prompt(k)[i])
          BY PromptType
        <5>2. Conversation(SetSystem(<< >>, Prompt(k))) = Conversation(<< >>)
          BY <4>2, <5>1, SetSystemKeepsRest
        <5>3. QED
          BY <3>1, <4>1, <5>2
      <4>4. OpenConversation = NoChat /\ EarlierRewritten = FALSE
        BY <2>1, <3>3, View
      <4>5. Rewrites(p)' = FALSE
        <5>1. /\ SessionFits(p, k) /\ pc[p] \in {"meta", "row"} /\ writer[p] \in SessionWriter
          BY <2>1, <3>3 DEF SavedInv, Fits, Owned, Savers, Opened, TypeOK, HasWriter
        <5>2. /\ writer[p].compactions = session[p].compactions
              /\ writer[p].written = 0 /\ session[p].messages = << >>
          BY <5>1 DEF SessionFits
        <5>3. Rewrites(p) = FALSE
          BY <5>2, EmptySeq DEF Rewrites
        <5>4. QED
          BY <3>1, <5>3
      <4>6. Promise!Open
        BY <1>2, <2>2, <3>1, <4>1, <4>3, <4>4, <4>5 DEF Promise!Open
      <4>7. QED
        BY <4>6 DEF Promise!Next
    <3>4. QED
      BY <3>2, <3>3
  <2>7. CASE Adds(p)
    <3>1. /\ p \in Savers /\ Shown' = Shown /\ Rewrites(p)' = Rewrites(p)
      BY <2>7 DEF Adds
    <3>2. PICK role \in {"user", "assistant", "tool"} :
            session'[p].messages = Append(session[p].messages, [role |-> role, id |-> nextId])
      BY <2>7 DEF Adds
    <3> DEFINE e == [role |-> role, id |-> nextId]
               conv == Conversation(session[p].messages)
    <3>3. e \in Message /\ ~Pinned(e)
      BY DEF Message, Role, Pinned, TypeOK
    <3>4. pc[p] # "resumed" /\ k <= Len(session[p].messages)
      BY <2>1, <2>7, SaverFacts DEF Adds
    <3>5. Conversation(session'[p].messages) = Append(conv, e)
      BY <2>3, <2>4, <3>1, <3>2, <3>3, <3>4, ConversationAppend
    <3>6. conv \in Seq(Message)
      BY <2>3, <2>4, <3>1, ConversationFacts
    <3> HIDE DEF e, conv
    <3>7. /\ Append(conv, e) \in Seq(Message) /\ Len(Append(conv, e)) = Len(conv) + 1
          /\ \A i \in 1..Len(conv) : Append(conv, e)[i] = conv[i]
      BY <3>3, <3>6, AppendProperties
    <3>8. SubSeq(conv, 1, Len(conv)) = SubSeq(Append(conv, e), 1, Len(conv))
      BY <3>3, <3>6, AppendKeeps
    <3>9. Len(conv) <= Len(conv) + 1
      BY <3>6, LenProperties
    <3>10. Promise!IsPrefix(conv, Append(conv, e))
      BY <3>7, <3>8, <3>9 DEF Promise!IsPrefix
    <3>11. Promise!Say
      BY <1>2, <2>2, <2>4, <3>1, <3>5, <3>7, <3>10 DEF Promise!Say, conv
    <3>12. QED
      BY <3>11 DEF Promise!Next
  <2>8. CASE Compacts(p)
    <3>1. p \in Savers /\ Shown' = Shown /\ Rewrites(p)'
      BY <2>8 DEF Compacts
    <3>2. EarlierRewritten' = TRUE
      BY <2>2, <3>1 DEF Rewrites
    <3>3. Conversation(session'[p].messages) \in Seq(Message)
      BY <2>5, ConversationFacts
    <3>4. Promise!Rewrite
      BY <1>2, <2>2, <2>4, <3>1, <3>2, <3>3 DEF Promise!Rewrite
    <3>5. QED
      BY <3>4 DEF Promise!Next
  <2>9. CASE Saves(p)
    <3>1. /\ p \in Savers
          /\ WritesNext(p) \/ WritesAll(p)
          /\ ~Rewrites(p)' /\ session'[p] = session[p]
      BY <2>9 DEF Saves
    <3>2. Promise!Grow \/ (EarlierRewritten /\ SavedConversation' = OpenConversation)
      BY <1>1, <2>1, <3>1, WriteIsSave
    <3>3. EarlierRewritten' = FALSE /\ OpenConversation' = OpenConversation
      BY <2>2, <2>4, <3>1 DEF Rewrites
    <3>4. Promise!Save
      BY <2>4, <3>1, <3>2, <3>3 DEF Promise!Save
    <3>5. QED
      BY <3>4 DEF Promise!Next
  <2>10. QED
    BY <1>8, <2>6, <2>7, <2>8, <2>9
<1>9. CASE Rests(p)
  <2>1. /\ HasWriter(p) /\ HasWriter(p)'
        /\ p \in Savers <=> p \in Savers'
        /\ Shown' = Shown /\ session'[p] = session[p] /\ Rewrites(p)' = Rewrites(p)
    BY <1>9 DEF Rests
  <2>2. OpenConversation' = OpenConversation /\ EarlierRewritten' = EarlierRewritten
    <3>1. CASE p \in Savers
      <4>1. /\ OpenConversation = Conversation(session[p].messages)
            /\ EarlierRewritten = Rewrites(p)
        BY <2>1, <3>1, View
      <4>2. /\ OpenConversation' = Conversation(session'[p].messages)
            /\ EarlierRewritten' = Rewrites(p)'
        BY <2>1, <3>1, ViewNext
      <4>3. QED
        BY <2>1, <4>1, <4>2
    <3>2. CASE p \notin Savers
      <4>1. OpenConversation = NoChat /\ EarlierRewritten = FALSE
        BY <2>1, <3>2, View
      <4>2. OpenConversation' = NoChat /\ EarlierRewritten' = FALSE
        BY <2>1, <3>2, ViewNext
      <4>3. QED
        BY <4>1, <4>2
    <3>3. QED
      BY <3>1, <3>2
  <2>3. QED
    BY <1>2, <2>1, <2>2 DEF Promise!vars
<1>10. QED
  BY <1>5, <1>6, <1>7, <1>8, <1>9 DEF StepOf

(* Whatever processes open, extend, compact, save, close and delete the    *)
(* chat, and wherever they stop, what is saved is what SavedChat promises: *)
(* a longer part of the conversation at every save, or the whole of it     *)
(* after a compaction (SessionWriter::sync, SessionStore::resume).  The    *)
(* provisos are those of SyncedMeansSavedAlways.                           *)
THEOREM ImplementsSavedChat ==
  ASSUME NEW k, PromptLens = {k}, "cli_model" \notin FaultPoints
  PROVE  Spec => KeepsPromise
<1>1. k \in Nat
  BY StoreAssumption
<1>2. Init => Promise!Init
  <2> SUFFICES ASSUME Init PROVE Promise!Init
    OBVIOUS
  <2>1. OpenConversation = NoChat /\ EarlierRewritten = FALSE
    BY NobodySaves DEF Init, HasWriter
  <2>2. SavedConversation = Conversation(<< >>)
    BY DEF Init, SavedConversation, Loaded, NoContent
  <2>3. PinnedUpTo(<< >>, 0) /\ << >> \in Seq(Message) /\ Len(<< >>) <= 0
    BY EmptySeq DEF PinnedUpTo
  <2>4. Conversation(<< >>) = << >>
    BY <2>3, ConversationFacts
  <2>5. QED
    BY <2>1, <2>2, <2>4 DEF Promise!Init
<1>3. TypeOK /\ Owned /\ SavedInv(k) /\ (TypeOK /\ Owned /\ SavedInv(k))' /\ [Next]_vars
        => [Promise!Next]_(Promise!vars)
  <2> SUFFICES ASSUME TypeOK, Owned, SavedInv(k), TypeOK', Owned', SavedInv(k)', [Next]_vars
               PROVE  [Promise!Next]_(Promise!vars)
    OBVIOUS
  <2>1. CASE Next
    <3>1. PICK p \in Procs : StepOf(p, k)
      BY <1>1, <2>1, StepKinds
    <3>2. QED
      BY <1>1, <3>1, PromiseStep
  <2>2. CASE UNCHANGED vars
    <3>1. SavedConversation' = SavedConversation
      BY <2>2 DEF vars, SavedConversation
    <3>2. Savers' = Savers
      BY <2>2 DEF vars, Savers, HasWriter
    <3>3. OpenConversation' = OpenConversation
      BY <2>2, <3>2 DEF vars, OpenConversation
    <3>4. EarlierRewritten' = EarlierRewritten
      BY <2>2, <3>2 DEF vars, EarlierRewritten, Rewrites
    <3>5. QED
      BY <3>1, <3>3, <3>4 DEF Promise!vars
  <2>3. QED
    BY <2>1, <2>2
<1>4. QED
  BY <1>2, <1>3, SavedAlways, PTL DEF Spec, KeepsPromise, Promise!Spec
-----------------------------------------------------------------------------
(* A conversation, as far as it is saved, has a user message in it: what   *)
(* the chat holds open, what its file shows, and, once anything is counted *)
(* in its index row, what that counted.                                    *)
OpensWithUser(msgs, k) == k < Len(msgs) => UserPositions(msgs) # {}

SpeaksAfter(p, k) ==
  /\ OpensWithUser(session[p].messages, k)
  /\ UserPositions(Shown) # {} => UserPositions(session[p].messages) # {}
  /\ ~Rewrites(p) /\ Len(Shown) <= k /\ k < Len(session[p].messages)
       => session[p].messages[k + 1].role = "user"

Spoken(k) ==
  /\ OpensWithUser(Shown, k)
  /\ \A p \in Procs : HasWriter(p) => SpeaksAfter(p, k)

RowFits ==
  /\ entry = "absent" => row = NoRow
  /\ row # NoRow /\ entry = "linked" =>
       Loaded(file).header /\ (row.messages > 0 => UserPositions(Shown) # {})

LEMMA UsersArePastPrompt ==
  ASSUME NEW msgs, NEW k \in Nat, PinnedUpTo(msgs, k), NEW i \in UserPositions(msgs)
  PROVE  i \in k+1..Len(msgs) /\ i \in 1..Len(msgs) /\ msgs[i].role = "user"
<1>1. i \in 1..Len(msgs) /\ msgs[i].role = "user"
  BY DEF UserPositions
<1>2. ~(i <= k)
  BY <1>1 DEF PinnedUpTo, Pinned
<1>3. QED
  BY <1>1, <1>2

(* A row that counts messages is one of a conversation with a user in it.  *)
LEMMA RowCounts ==
  ASSUME NEW model, NEW msgs \in Seq(Message), NEW k \in Nat, PinnedUpTo(msgs, k),
         OpensWithUser(msgs, k), RowOf(model, msgs).messages > 0
  PROVE  UserPositions(msgs) # {}
<1> DEFINE counted == {i \in 1..Len(msgs) : msgs[i].role \notin {"system", "summary"}}
<1> SUFFICES ASSUME UserPositions(msgs) = {} PROVE FALSE
  OBVIOUS
<1>1. ~(k < Len(msgs)) /\ Len(msgs) \in Nat
  BY LenProperties DEF OpensWithUser
<1>2. counted = {}
  BY <1>1 DEF PinnedUpTo, Pinned
<1>3. Cardinality(counted) = 0
  BY <1>2, FS_EmptySet
<1>4. RowOf(model, msgs).messages = Cardinality(counted)
  BY DEF RowOf
<1>5. QED
  BY <1>3, <1>4

(* Of a list's user messages there is a last one.                          *)
LEMMA LastUser ==
  ASSUME NEW S, NEW msgs \in Seq(S), UserPositions(msgs) # {}
  PROVE  \E i \in UserPositions(msgs) : {j \in UserPositions(msgs) : j >= i} = {i}
<1> DEFINE U == UserPositions(msgs)
           T == {Len(msgs) - i : i \in U}
<1>1. Len(msgs) \in Nat /\ U \subseteq 1..Len(msgs)
  BY LenProperties DEF UserPositions
<1>2. T \subseteq Nat /\ T # {}
  BY <1>1
<1>3. PICK x \in T : \A y \in T : x <= y
  <2> HIDE DEF T
  <2>1. QED
    BY <1>2, LeastNat
<1>4. PICK i \in U : x = Len(msgs) - i
  BY <1>3
<1>5. \A j \in U : Len(msgs) - i <= Len(msgs) - j
  BY <1>3, <1>4
<1> HIDE DEF U
<1>6. {j \in U : j >= i} = {i}
  BY <1>1, <1>5
<1>7. QED
  BY <1>6 DEF U

(* Compaction keeps the last turn, and is not done without a turn.         *)
LEMMA CompactedSpeaks ==
  ASSUME NEW msgs \in Seq(Message), NEW k \in Nat, PinnedUpTo(msgs, k), k <= Len(msgs),
         OpensWithUser(msgs, k), NEW mask \in BOOLEAN, NEW summarize \in BOOLEAN, NEW id \in Nat,
         KeepTurns # 0
  PROVE  LET new == Compacted(msgs, mask, summarize, id)
         IN  /\ OpensWithUser(new, k)
             /\ UserPositions(msgs) # {} => UserPositions(new) # {}
<1> DEFINE new == Compacted(msgs, mask, summarize, id)
<1>1. KeepTurns \in Nat /\ KeepTurns >= 1 /\ Len(msgs) \in Nat
  BY StoreAssumption, LenProperties
<1>2. CASE UserPositions(msgs) = {}
  <2> DEFINE masked == Masked(msgs, mask)
  <2>1. Len(msgs) = k
    BY <1>1, <1>2 DEF OpensWithUser
  <2>2. masked \in Seq(Message) /\ Len(masked) = Len(msgs) /\ PinnedUpTo(masked, k)
    BY MaskType, MaskKeepsPinned DEF Masked, Message
  <2>3. PinnedLen(masked) = k
    BY <2>1, <2>2, PinnedLenIs
  <2>4. RecentStart(masked, KeepTurns) \in 1..k + 1
    BY <1>1, <2>1, <2>2, RecentStartInRange
  <2>5. ~CanSummarize(masked, KeepTurns)
    BY <2>3, <2>4 DEF CanSummarize, SummaryEnd
  <2>6. new = masked
    BY <2>5 DEF Compacted
  <2>7. Len(new) = k
    BY <2>1, <2>2, <2>6
  <2> HIDE DEF new
  <2>8. OpensWithUser(new, k)
    BY <2>7 DEF OpensWithUser
  <2>9. QED
    BY <1>2, <2>8 DEF new
<1>3. CASE UserPositions(msgs) # {}
  <2>1. PICK i \in UserPositions(msgs) : {j \in UserPositions(msgs) : j >= i} = {i}
    BY <1>3, LastUser
  <2>2. Cardinality({j \in UserPositions(msgs) : j >= i}) <= KeepTurns
    BY <1>1, <2>1, FS_Singleton
  <2>3. RecentStart(msgs, KeepTurns) <= i
    BY <1>1, <2>2, RecentStartReaches
  <2>4. i \in k+1..Len(msgs) /\ i \in 1..Len(msgs) /\ msgs[i].role = "user"
    BY UsersArePastPrompt
  <2>5. PinnedLen(msgs) = k
    BY PinnedLenIs
  <2>6. PinnedLen(msgs) < i
    BY <1>1, <2>4, <2>5
  <2>7. KeepsEnds(msgs, new, RecentStart(msgs, KeepTurns))
    BY CompactedKeepsEnds
  <2> HIDE DEF new
  <2>8. /\ i + (Len(new) - Len(msgs)) \in 1..Len(new)
        /\ new[i + (Len(new) - Len(msgs))] = msgs[i]
    BY <2>3, <2>4, <2>6, <2>7 DEF KeepsEnds
  <2>9. UserPositions(new) # {}
    BY <2>4, <2>8 DEF UserPositions
  <2>10. QED
    BY <2>9 DEF OpensWithUser, new
<1>4. QED
  BY <1>2, <1>3

LEMMA RenewedSpeaks ==
  ASSUME NEW k \in PromptLens, NEW msgs \in Seq(Message), PinnedUpTo(msgs, k)
  PROVE  LET new == SetSystem(msgs, Prompt(k))
         IN  /\ UserPositions(new) = UserPositions(msgs)
             /\ k < Len(new) => k < Len(msgs) /\ new[k + 1] = msgs[k + 1]
<1> DEFINE new == SetSystem(msgs, Prompt(k))
<1>1. /\ k \in Nat /\ Prompt(k) \in Seq(Message) /\ Len(Prompt(k)) = k
      /\ \A i \in 1..k : Pinned(Prompt(k)[i]) /\ Len(msgs) \in Nat
  BY PromptType, LenProperties
<1>2. /\ Len(new) = IF k <= Len(msgs) THEN Len(msgs) ELSE k
      /\ PinnedUpTo(new, k)
      /\ \A i \in k+1..Len(msgs) : new[i] = msgs[i]
  BY <1>1, SetSystemKeepsRest
<1> HIDE DEF new
<1>3. k < Len(new) => k < Len(msgs) /\ new[k + 1] = msgs[k + 1]
  BY <1>1, <1>2, LenProperties
<1>4. ASSUME NEW i \in UserPositions(new)
      PROVE  i \in UserPositions(msgs)
  <2>1. i \in k+1..Len(new) /\ i \in 1..Len(new) /\ new[i].role = "user"
    BY <1>1, <1>2, UsersArePastPrompt
  <2>2. i \in k+1..Len(msgs) /\ i \in 1..Len(msgs)
    BY <1>1, <1>2, <2>1, LenProperties
  <2>3. QED
    BY <1>2, <2>1, <2>2 DEF UserPositions
<1>5. ASSUME NEW i \in UserPositions(msgs)
      PROVE  i \in UserPositions(new)
  <2>1. i \in k+1..Len(msgs) /\ i \in 1..Len(msgs) /\ msgs[i].role = "user"
    BY <1>1, UsersArePastPrompt
  <2>2. i \in 1..Len(new)
    BY <1>1, <1>2, <2>1, LenProperties
  <2>3. QED
    BY <1>2, <2>1, <2>2 DEF UserPositions
<1>6. QED
  BY <1>3, <1>4, <1>5 DEF new

LEMMA AppendedSpeaks ==
  ASSUME NEW msgs \in Seq(Message), NEW e \in Message
  PROVE  LET new == Append(msgs, e)
         IN  /\ Len(new) = Len(msgs) + 1 /\ new[Len(msgs) + 1] = e
             /\ \A i \in 1..Len(msgs) : new[i] = msgs[i]
             /\ UserPositions(msgs) \subseteq UserPositions(new)
             /\ e.role = "user" => Len(msgs) + 1 \in UserPositions(new)
<1> DEFINE new == Append(msgs, e)
<1>1. /\ Len(new) = Len(msgs) + 1 /\ new[Len(msgs) + 1] = e /\ Len(msgs) \in Nat
      /\ \A i \in 1..Len(msgs) : new[i] = msgs[i]
  BY AppendProperties, LenProperties
<1> HIDE DEF new
<1>2. QED
  BY <1>1 DEF UserPositions, new

(* What is written of a conversation that opens with a user does too.      *)
LEMMA WriteSpeaks ==
  ASSUME TypeOK, Owned, NEW k \in Nat, SavedInv(k), FileFits(k)', TypeOK', Spoken(k),
         NEW p \in Procs, HasWriter(p), WritesNext(p) \/ WritesAll(p)
  PROVE  /\ OpensWithUser(Shown', k)
         /\ UserPositions(Shown) # {} => UserPositions(Shown') # {}
         /\ UserPositions(Shown') # {} => UserPositions(session[p].messages) # {}
<1>1. SpeaksAfter(p, k)
  BY DEF Spoken
<1>2. CASE WritesAll(p)
  BY <1>1, <1>2 DEF WritesAll, SpeaksAfter
<1>3. CASE WritesNext(p)
  <2> DEFINE S == session[p].messages
             e == S[cursor[p] + 1]
             c == cursor[p]
  <2>1. /\ ~Rewrites(p) /\ c < Len(S) /\ Len(Shown) = c /\ Shown' = Append(Shown, e)
    BY <1>3 DEF WritesNext
  <2>2. /\ Shown \in Seq(Message) /\ S \in Seq(Message) /\ c \in Nat
    BY SaverFacts
  <2>3. Len(S) \in Nat /\ c + 1 \in 1..Len(S)
    BY <2>1, <2>2, LenProperties
  <2>4. e \in Message
    BY <2>2, <2>3, ElementOfSeq
  <2>5. /\ OpensWithUser(S, k)
        /\ c <= k /\ k < Len(S) => S[k + 1].role = "user"
        /\ OpensWithUser(Shown, k)
    BY <1>1, <2>1 DEF SpeaksAfter, Spoken
  <2>e. c = k => e = S[k + 1]
    OBVIOUS
  <2> HIDE DEF e, S, c
  <2>6. /\ Len(Shown') = c + 1
        /\ UserPositions(Shown) \subseteq UserPositions(Shown')
        /\ e.role = "user" => c + 1 \in UserPositions(Shown')
    BY <2>1, <2>2, <2>4, AppendedSpeaks
  <2>7. PinnedUpTo(Shown', k)
    BY DEF FileFits, Shown
  <2>8. OpensWithUser(Shown', k)
    <3>1. CASE c > k
      BY <2>1, <2>2, <2>5, <2>6, <3>1 DEF OpensWithUser
    <3>2. CASE c = k
      <4>1. e.role = "user"
        BY <2>e, <2>1, <2>2, <2>5, <3>2
      <4>2. QED
        BY <2>6, <4>1 DEF OpensWithUser
    <3>3. CASE c < k
      BY <2>2, <2>6, <3>3 DEF OpensWithUser
    <3>4. QED
      BY <2>2, <3>1, <3>2, <3>3
  <2>9. ASSUME UserPositions(Shown') # {}
        PROVE  UserPositions(S) # {}
    <3>1. PICK i \in UserPositions(Shown') : TRUE
      BY <2>9
    <3>2. i \in k+1..Len(Shown')
      BY <2>7, UsersArePastPrompt
    <3>3. k < Len(S)
      BY <2>2, <2>3, <2>6, <3>2
    <3>4. QED
      BY <2>5, <3>3 DEF OpensWithUser
  <2>10. QED
    BY <2>6, <2>8, <2>9 DEF S
<1>4. QED
  BY <1>2, <1>3

(* The other processes' chats are as they were.                            *)
LEMMA SpokenAssemble ==
  ASSUME Owned', NEW k \in Nat, Spoken(k), NEW p \in Procs, OnlyMoves(p),
         OpensWithUser(Shown', k), Shown' = Shown \/ HasWriter(p)' \/ HasWriter(p), Owned,
         HasWriter(p)' => SpeaksAfter(p, k)'
  PROVE  Spoken(k)'
<1>1. ASSUME NEW q \in Procs, HasWriter(q)'
      PROVE  SpeaksAfter(q, k)'
  <2>1. CASE q = p
    BY <1>1, <2>1
  <2>2. CASE q # p
    <3>1. /\ session'[q] = session[q] /\ writer'[q] = writer[q]
      BY <2>2 DEF OnlyMoves
    <3>2. HasWriter(q)
      BY <1>1, <3>1 DEF HasWriter
    <3>3. ~HasWriter(p)' /\ ~HasWriter(p)
      BY <1>1, <2>2, <3>2 DEF Owned
    <3>4. Shown' = Shown
      BY <3>3
    <3>5. SpeaksAfter(q, k)
      BY <3>2 DEF Spoken
    <3>6. QED
      BY <3>1, <3>4, <3>5 DEF SpeaksAfter, Rewrites
  <2>3. QED
    BY <2>1, <2>2
<1>2. QED
  BY <1>1 DEF Spoken

LEMMA SpokenStep ==
  ASSUME TypeOK, Owned, TypeOK', Owned', NEW k \in Nat, PromptLens = {k}, KeepTurns # 0,
         SavedInv(k), SavedInv(k)', Spoken(k), NEW p \in Procs, StepOf(p, k)
  PROVE  Spoken(k)'
<1>1. FileFits(k)' /\ OnlyMoves(p) /\ OpensWithUser(Shown, k)
  BY DEF SavedInv, StepOf, Spoken
<1>2. CASE Idle(p)
  BY <1>1, <1>2, SpokenAssemble DEF Idle
<1>3. CASE Drops(p)
  <2>1. HasWriter(p) /\ ~HasWriter(p)' /\ (Shown' = Shown \/ WritesNext(p) \/ WritesAll(p))
    BY <1>3 DEF Drops
  <2>2. OpensWithUser(Shown', k)
    BY <1>1, <2>1, WriteSpeaks
  <2>3. QED
    BY <1>1, <2>1, <2>2, SpokenAssemble
<1>4. CASE Takes(p)
  <2>1. HasWriter(p)' /\ Shown' = Shown /\ session'[p].messages = Shown
    BY <1>4 DEF Takes
  <2>2. Shown \in Seq(Message)
    BY LoadedType DEF TypeOK, Shown, Content
  <2>3. ~(Len(Shown) <= k /\ k < Len(Shown))
    BY <2>2, LenProperties
  <2>4. SpeaksAfter(p, k)'
    BY <1>1, <2>1, <2>3 DEF SpeaksAfter, OpensWithUser
  <2>5. QED
    BY <1>1, <2>1, <2>4, SpokenAssemble
<1>5. CASE Rests(p)
  <2>1. HasWriter(p) /\ Shown' = Shown /\ session'[p] = session[p] /\ Rewrites(p)' = Rewrites(p)
    BY <1>5 DEF Rests
  <2>2. SpeaksAfter(p, k)
    BY <2>1 DEF Spoken
  <2>3. SpeaksAfter(p, k)'
    BY <2>1, <2>2 DEF SpeaksAfter, OpensWithUser
  <2>4. QED
    BY <1>1, <2>1, <2>3, SpokenAssemble
<1>6. CASE Renews(p, k) \/ Adds(p) \/ Compacts(p) \/ Saves(p)
  <2>1. HasWriter(p) /\ HasWriter(p)'
    BY <1>6 DEF Renews, Adds, Compacts, Saves, Holds
  <2>2. SpeaksAfter(p, k)
    BY <2>1 DEF Spoken
  <2>3. session[p].messages \in Seq(Message) /\ Shown \in Seq(Message)
    BY <2>1, SaverFacts
  <2>n. Len(session[p].messages) \in Nat /\ Len(Shown) \in Nat
    BY <2>3, LenProperties
  <2>4. CASE Renews(p, k)
    <3>1. /\ Shown' = Shown /\ Rewrites(p)' = Rewrites(p)
          /\ session'[p].messages = SetSystem(session[p].messages, Prompt(k))
      BY <2>4 DEF Renews
    <3>2. PinnedUpTo(session[p].messages, k)
      <4>1. CASE p \in Savers
        BY <2>1, <4>1, SaverFacts
      <4>2. CASE p \notin Savers
        <5>1. session[p].messages = << >>
          BY <2>1, <4>2, SaverFacts
        <5>2. QED
          BY <5>1, EmptySeq DEF PinnedUpTo
      <4>3. QED
        BY <4>1, <4>2
    <3>3. /\ UserPositions(session'[p].messages) = UserPositions(session[p].messages)
          /\ k < Len(session'[p].messages) =>
               /\ k < Len(session[p].messages)
               /\ session'[p].messages[k + 1] = session[p].messages[k + 1]
      BY <2>3, <3>1, <3>2, RenewedSpeaks
    <3>4. SpeaksAfter(p, k)'
      BY <2>2, <3>1, <3>3 DEF SpeaksAfter, OpensWithUser
    <3>5. QED
      BY <1>1, <2>1, <3>1, <3>4, SpokenAssemble
  <2>5. CASE Adds(p)
    <3>1. Shown' = Shown /\ Rewrites(p)' = Rewrites(p) /\ p \in Savers /\ pc[p] = "chat"
      BY <2>5 DEF Adds
    <3>2. PICK role \in {"user", "assistant", "tool"} :
            /\ role # "user" => Conversation(session[p].messages) # << >>
            /\ session'[p].messages = Append(session[p].messages, [role |-> role, id |-> nextId])
      BY <2>5 DEF Adds
    <3> DEFINE S == session[p].messages
               new == session'[p].messages
               e == [role |-> role, id |-> nextId]
    <3>3. PinnedUpTo(S, k) /\ k <= Len(S)
      BY <2>1, <3>1, SaverFacts
    <3>4. role # "user" => k < Len(S)
      BY <2>3, <2>n, <3>2, <3>3, ConversationFacts
    <3>5. e \in Message /\ e.role = role
      BY DEF Message, Role, TypeOK
    <3>6. /\ OpensWithUser(S, k)
          /\ UserPositions(Shown) # {} => UserPositions(S) # {}
          /\ ~Rewrites(p) /\ Len(Shown) <= k /\ k < Len(S) => S[k + 1].role = "user"
      BY <2>2 DEF SpeaksAfter
    <3>7. new = Append(S, e) /\ S \in Seq(Message)
      BY <2>3, <3>2
    <3>8. Len(S) \in Nat
      BY <2>n
    <3> HIDE DEF S, e, new
    <3>9. /\ Len(new) = Len(S) + 1 /\ new[Len(S) + 1] = e
          /\ \A i \in 1..Len(S) : new[i] = S[i]
          /\ UserPositions(S) \subseteq UserPositions(new)
          /\ role = "user" => Len(S) + 1 \in UserPositions(new)
      BY <3>5, <3>7, AppendedSpeaks
    <3>10. UserPositions(new) # {}
      <4>1. CASE role = "user"
        BY <3>9, <4>1
      <4>2. CASE role # "user"
        BY <3>4, <3>6, <3>9, <4>2 DEF OpensWithUser
      <4>3. QED
        BY <4>1, <4>2
    <3>11. ASSUME ~Rewrites(p), Len(Shown) <= k
           PROVE  new[k + 1].role = "user"
      <4>1. CASE k < Len(S)
        <5>1. k + 1 \in 1..Len(S)
          BY <3>8, <4>1
        <5>2. QED
          BY <3>6, <3>9, <3>11, <4>1, <5>1
      <4>2. CASE ~(k < Len(S))
        BY <3>3, <3>4, <3>5, <3>8, <3>9, <4>2
      <4>3. QED
        BY <4>1, <4>2
    <3>12. SpeaksAfter(p, k)'
      BY <3>1, <3>10, <3>11 DEF SpeaksAfter, OpensWithUser, new
    <3>13. QED
      BY <1>1, <2>1, <3>1, <3>12, SpokenAssemble
  <2>6. CASE Compacts(p)
    <3>1. Shown' = Shown /\ Rewrites(p)' /\ p \in Savers /\ pc[p] = "chat"
      BY <2>6 DEF Compacts
    <3>2. PICK mask \in BOOLEAN, summarize \in BOOLEAN :
            session'[p].messages = Compacted(session[p].messages, mask, summarize, nextId)
      BY <2>6 DEF Compacts
    <3>3. PinnedUpTo(session[p].messages, k) /\ k <= Len(session[p].messages)
      BY <2>1, <3>1, SaverFacts
    <3>4. /\ OpensWithUser(session[p].messages, k) /\ nextId \in Nat
          /\ UserPositions(Shown) # {} => UserPositions(session[p].messages) # {}
      BY <2>2 DEF SpeaksAfter, TypeOK
    <3>5. /\ OpensWithUser(session'[p].messages, k)
          /\ UserPositions(session[p].messages) # {} => UserPositions(session'[p].messages) # {}
      BY <2>3, <3>2, <3>3, <3>4, CompactedSpeaks
    <3>6. SpeaksAfter(p, k)'
      BY <3>1, <3>4, <3>5 DEF SpeaksAfter, OpensWithUser
    <3>7. QED
      BY <1>1, <2>1, <3>1, <3>6, SpokenAssemble
  <2>7. CASE Saves(p)
    <3>1. /\ session'[p] = session[p]
          /\ WritesNext(p) \/ WritesAll(p)
      BY <2>7 DEF Saves
    <3>2. /\ OpensWithUser(Shown', k)
          /\ UserPositions(Shown') # {} => UserPositions(session[p].messages) # {}
      BY <1>1, <2>1, <3>1, WriteSpeaks
    <3>3. ASSUME Len(Shown') <= k, k < Len(session[p].messages)
          PROVE  session[p].messages[k + 1].role = "user"
      <4>1. CASE WritesAll(p)
        BY <2>n, <3>3, <4>1 DEF WritesAll
      <4>2. CASE WritesNext(p)
        <5>1. ~Rewrites(p) /\ Len(Shown') = Len(Shown) + 1
          <6>1. session[p].messages[cursor[p] + 1] \in Message
            <7>1. cursor[p] \in Nat
              BY <2>1, SaverFacts
            <7>2. cursor[p] + 1 \in 1..Len(session[p].messages)
              BY <2>n, <4>2, <7>1 DEF WritesNext
            <7>3. QED
              BY <2>3, <7>2, ElementOfSeq
          <6>2. QED
            BY <2>3, <4>2, <6>1, AppendedSpeaks DEF WritesNext
        <5>2. Len(Shown) <= k
          BY <2>n, <3>3, <5>1
        <5>3. QED
          BY <2>2, <3>3, <5>1, <5>2 DEF SpeaksAfter
      <4>3. QED
        BY <3>1, <4>1, <4>2
    <3>4. SpeaksAfter(p, k)'
      BY <2>2, <3>1, <3>2, <3>3 DEF SpeaksAfter, OpensWithUser
    <3>5. QED
      BY <1>1, <2>1, <3>2, <3>4, SpokenAssemble
  <2>8. QED
    BY <1>6, <2>4, <2>5, <2>6, <2>7
<1>7. QED
  BY <1>2, <1>3, <1>4, <1>5, <1>6 DEF StepOf

(* Users that the file shows are still there after a step.                 *)
LEMMA UsersStay ==
  ASSUME TypeOK, Owned, TypeOK', NEW k \in Nat, SavedInv(k), SavedInv(k)', Spoken(k),
         NEW p \in Procs, StepOf(p, k), UserPositions(Shown) # {}
  PROVE  UserPositions(Shown') # {}
<1>1. FileFits(k)'
  BY DEF SavedInv
<1>2. Shown' = Shown \/ (HasWriter(p) /\ (WritesNext(p) \/ WritesAll(p)))
  BY DEF StepOf, Idle, Drops, Takes, Renews, Adds, Compacts, Saves, Rests, Holds
<1>3. QED
  BY <1>1, <1>2, WriteSpeaks

LEMMA RowStep ==
  ASSUME TypeOK, Owned, TypeOK', NEW k \in Nat, SavedInv(k), SavedInv(k)', Spoken(k),
         RowFits, NEW p \in Procs, StepOf(p, k)
  PROVE  RowFits'
<1> USE DEF Goto, SetSession
<1>1. HeaderKept /\ (UserPositions(Shown) # {} => UserPositions(Shown') # {})
  BY UsersStay DEF StepOf
<1>2. entry' \in {entry, "unlinked"} \/ (entry = "absent" /\ entry' = "linked" /\ row' = row)
  BY DEF StepOf, Idle, Drops, Takes, Renews, Adds, Compacts, Saves, Rests, Holds
<1>3. row' \in {row, NoRow} \/ Reindex(p) \/ CreateRow(p, k) \/ SyncRow(p)
  BY DEF StepOf, Idle, Drops, Takes, Renews, Adds, Compacts, Saves, Rests
<1>4. CASE row' \in {row, NoRow}
  BY <1>1, <1>2, <1>4 DEF RowFits, HeaderKept
<1>5. CASE Reindex(p)
  <2>1. entry' = entry /\ file' = file
        /\ row' = IF entry = "linked" /\ Readable(file)
                  THEN RowOf(Loaded(file).model, Loaded(file).messages) ELSE NoRow
    BY <1>5 DEF Reindex
  <2>2. Shown \in Seq(Message) /\ PinnedUpTo(Shown, k) /\ OpensWithUser(Shown, k)
    BY LoadedType DEF TypeOK, Shown, Content, SavedInv, FileFits, Spoken
  <2>3. CASE entry = "linked" /\ Readable(file)
    <3>1. row'.messages > 0 => UserPositions(Shown) # {}
      BY <2>1, <2>2, <2>3, RowCounts DEF Shown
    <3>2. QED
      BY <2>1, <2>3, <3>1 DEF RowFits, Readable, Shown
  <2>4. CASE ~(entry = "linked" /\ Readable(file))
    BY <2>1, <2>4 DEF RowFits
  <2>5. QED
    BY <2>3, <2>4
<1>6. CASE CreateRow(p, k)
  <2>1. /\ entry' = entry /\ file' = file /\ pc[p] = "row"
        /\ row' = RowOf(writer[p].model, << >>)
    BY <1>6 DEF CreateRow
  <2>2. HasWriter(p)
    BY <2>1 DEF Owned, Opened
  <2>3. entry # "absent" /\ Loaded(file).header
    BY <2>1, <2>2 DEF SavedInv, Fits, HeaderFits, Loaded
  <2>4. << >> \in Seq(Message) /\ PinnedUpTo(<< >>, k) /\ OpensWithUser(<< >>, k)
    BY EmptySeq DEF PinnedUpTo, OpensWithUser
  <2>5. UserPositions(<< >>) = {}
    BY EmptySeq DEF UserPositions
  <2>6. ~(row'.messages > 0)
    BY <2>1, <2>4, <2>5, RowCounts
  <2>7. QED
    BY <2>1, <2>3, <2>6 DEF RowFits
<1>7. CASE SyncRow(p)
  <2>1. /\ entry' = entry /\ file' = file /\ pc[p] = "upsert"
        /\ row' = RowOf(writer[p].model, session[p].messages)
    BY <1>7 DEF SyncRow
  <2>2. HasWriter(p) /\ p \in Savers
    BY <2>1 DEF Owned, Syncing, Chatting, Savers
  <2>3. Fits(p, k) /\ entry # "absent" /\ SpeaksAfter(p, k)
    BY <2>1, <2>2 DEF SavedInv, Spoken
  <2>4. Loaded(file).header
    BY <2>1, <2>3 DEF Fits, HeaderFits, Loaded
  <2>5. /\ session[p].messages \in Seq(Message) /\ PinnedUpTo(session[p].messages, k)
        /\ Shown = file.good.messages
    BY <2>2, SaverFacts
  <2>6. Len(Shown) = Len(session[p].messages) /\ Len(session[p].messages) \in Nat
    BY <2>1, <2>3, <2>5, LenProperties DEF Fits, SessionFits, MessagesFit, WrittenNow
  <2>7. \A i \in k+1..Len(Shown) : Shown[i] = session[p].messages[i]
    BY <2>1, <2>3, <2>5, <2>6 DEF Fits, SessionFits, MessagesFit, WrittenNow
  <2>8. ASSUME row'.messages > 0
        PROVE  UserPositions(Shown) # {}
    <3>1. UserPositions(session[p].messages) # {}
      BY <2>1, <2>3, <2>5, <2>8, RowCounts DEF SpeaksAfter
    <3>2. PICK i \in UserPositions(session[p].messages) : TRUE
      BY <3>1
    <3>3. i \in k+1..Len(Shown) /\ i \in 1..Len(Shown) /\ session[p].messages[i].role = "user"
      BY <2>5, <2>6, UsersArePastPrompt
    <3>4. i \in UserPositions(Shown)
      BY <2>7, <3>3 DEF UserPositions
    <3>5. QED
      BY <3>4
  <2>9. QED
    BY <2>1, <2>3, <2>4, <2>8 DEF RowFits, Shown
<1>8. QED
  BY <1>3, <1>4, <1>5, <1>6, <1>7

LEMMA RowFitsListed ==
  ASSUME TypeOK, NEW k \in Nat, SavedInv(k), RowFits
  PROVE  ListedIsResumable
<1> SUFFICES ASSUME row # NoRow, entry = "linked"
             PROVE  /\ Readable(file)
                    /\ row.messages > 0 =>
                         \E i \in 1..Len(Loaded(file).messages) :
                           Loaded(file).messages[i].role \notin {"system", "summary"}
  BY DEF ListedIsResumable
<1>1. Readable(file)
  BY DEF RowFits, SavedInv, FileFits, Readable
<1>2. ASSUME row.messages > 0
      PROVE  \E i \in 1..Len(Loaded(file).messages) :
               Loaded(file).messages[i].role \notin {"system", "summary"}
  <2>1. UserPositions(Shown) # {}
    BY <1>2 DEF RowFits
  <2>2. PICK i \in 1..Len(Shown) : Shown[i].role = "user"
    BY <2>1 DEF UserPositions
  <2>3. QED
    BY <2>2 DEF Shown
<1>3. QED
  BY <1>1, <1>2

(* A chat that the index lists can be reopened, and has messages when its  *)
(* row says so (index.rs upsert after log.rs append, in sync and reindex), *)
(* if compaction keeps at least one turn, as every policy does             *)
(* (MemoryPolicy), under the provisos of SyncedMeansSavedAlways.           *)
THEOREM ListedIsResumableAlways ==
  ASSUME NEW k, PromptLens = {k}, "cli_model" \notin FaultPoints, KeepTurns # 0
  PROVE  Spec => []ListedIsResumable
<1> DEFINE I == TypeOK /\ Owned /\ SavedInv(k)
           J == Spoken(k) /\ RowFits
<1>1. k \in Nat
  BY StoreAssumption
<1>2. Init => J
  <2> SUFFICES ASSUME Init PROVE J
    OBVIOUS
  <2>1. Shown = << >> /\ row = NoRow /\ \A p \in Procs : ~HasWriter(p)
    BY DEF Init, Shown, Loaded, NoContent, HasWriter
  <2>2. OpensWithUser(<< >>, k)
    BY <1>1, EmptySeq DEF OpensWithUser
  <2>3. QED
    BY <2>1, <2>2 DEF Spoken, RowFits
<1>3. I /\ I' /\ J /\ [Next]_vars => J'
  <2> SUFFICES ASSUME I, I', J, [Next]_vars PROVE J'
    OBVIOUS
  <2>1. CASE Next
    <3>1. PICK p \in Procs : StepOf(p, k)
      BY <1>1, <2>1, StepKinds
    <3>2. Spoken(k)'
      BY <1>1, <3>1, SpokenStep
    <3>3. RowFits'
      BY <1>1, <3>1, RowStep
    <3>4. QED
      BY <3>2, <3>3
  <2>2. CASE UNCHANGED vars
    <3>1. Shown' = Shown /\ RowFits'
      BY <2>2 DEF vars, Shown, RowFits
    <3>2. ASSUME NEW p \in Procs, HasWriter(p)'
          PROVE  SpeaksAfter(p, k)'
      BY <2>2, <3>1, <3>2 DEF vars, Spoken, SpeaksAfter, HasWriter, Rewrites, OpensWithUser
    <3>3. QED
      BY <3>1, <3>2 DEF Spoken
  <2>3. QED
    BY <2>1, <2>2
<1>4. I /\ J => ListedIsResumable
  BY <1>1, RowFitsListed
<1>5. Spec => []I
  BY SavedAlways
<1> HIDE DEF I, J
<1>6. QED
  BY <1>2, <1>3, <1>4, <1>5, PTL DEF Spec
=============================================================================
