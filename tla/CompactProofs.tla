--------------------------- MODULE CompactProofs ---------------------------
(***************************************************************************)
(* Lemmas about the message-list operators of Compact.                     *)
(***************************************************************************)
EXTENDS Compact, SequenceTheorems, FiniteSetTheorems, NaturalsInduction,
        WellFoundedInduction, TLAPS

(* A suffix of a list, empty when it starts one past the end.              *)
LEMMA SuffixProperties ==
  ASSUME NEW S, NEW s \in Seq(S), NEW m \in 1..Len(s) + 1
  PROVE  LET t == SubSeq(s, m, Len(s))
         IN  /\ t \in Seq(S)
             /\ Len(t) = Len(s) - m + 1
             /\ \A i \in 1..Len(t) : t[i] = s[m + i - 1]
<1>1. Len(s) \in Nat /\ \A i \in 1..Len(s) : s[i] \in S
  BY LenProperties, ElementOfSeq
<1>2. CASE m <= Len(s)
  BY <1>1, <1>2, SubSeqProperties
<1>3. CASE m = Len(s) + 1
  <2>1. Len(s) \in Int /\ m \in Int /\ Len(s) < m
    BY <1>1, <1>3
  <2>2. SubSeq(s, m, Len(s)) = << >>
    BY <2>1, SubSeqEmpty
  <2>3. << >> \in Seq(S) /\ Len(<< >>) = 0
    BY EmptySeq
  <2>4. QED
    BY <1>1, <1>3, <2>2, <2>3
<1>4. QED
  BY <1>1, <1>2, <1>3

LEMMA NotLess ==
  ASSUME NEW x \in Nat, NEW y \in Nat, ~(<<x, y>> \in OpToRel(<, Nat))
  PROVE  y <= x
BY DEF OpToRel

(* A nonempty set of natural numbers has a least element.                  *)
LEMMA LeastNat ==
  ASSUME NEW T, T \subseteq Nat, T # {}
  PROVE  \E x \in T : \A y \in T : x <= y
<1>1. PICK x \in T : \A y \in T : ~(<<y, x>> \in OpToRel(<, Nat))
  BY NatLessThanWellFounded, WFMin, Zenon
<1>2. ASSUME NEW y \in T
      PROVE  x <= y
  <2>1. x \in Nat /\ y \in Nat
    OBVIOUS
  <2>2. ~(<<y, x>> \in OpToRel(<, Nat))
    BY <1>1
  <2>3. QED
    BY <2>1, <2>2, NotLess
<1>3. QED
  BY <1>2

(* PinnedLen is well defined on every list.                                *)
LEMMA PinnedExists ==
  ASSUME NEW S, NEW msgs \in Seq(S)
  PROVE  \E n \in 0..Len(msgs) : /\ \A i \in 1..n : Pinned(msgs[i])
                                 /\ n < Len(msgs) => ~Pinned(msgs[n + 1])
<1> DEFINE T == {n \in 0..Len(msgs) : n = Len(msgs) \/ ~Pinned(msgs[n + 1])}
<1>1. Len(msgs) \in Nat
  BY LenProperties
<1>2. T \subseteq Nat /\ Len(msgs) \in T
  BY <1>1
<1>3. PICK n \in T : \A y \in T : n <= y
  <2> HIDE DEF T
  <2>1. T # {}
    BY <1>2
  <2>2. QED
    BY <1>2, <2>1, LeastNat
<1>4. ASSUME NEW i \in 1..n
      PROVE  Pinned(msgs[i])
  <2>1. i - 1 \in 0..Len(msgs) /\ ~(n <= i - 1) /\ i - 1 # Len(msgs) /\ i - 1 + 1 = i
    BY <1>1
  <2>2. i - 1 \notin T
    BY <1>3, <2>1
  <2>3. QED
    BY <2>1, <2>2
<1>5. QED
  BY <1>1, <1>4

LEMMA PinnedLenInRange ==
  ASSUME NEW S, NEW msgs \in Seq(S)
  PROVE  PinnedLen(msgs) \in 0..Len(msgs)
<1> DEFINE Q(n) == /\ \A i \in 1..n : Pinned(msgs[i])
                   /\ n < Len(msgs) => ~Pinned(msgs[n + 1])
<1>1. \E n \in 0..Len(msgs) : Q(n)
  BY PinnedExists
<1>2. PinnedLen(msgs) = CHOOSE m \in 0..Len(msgs) : Q(m)
  BY DEF PinnedLen
<1> HIDE DEF Q
<1>3. QED
  BY <1>1, <1>2

(* The pinned messages of msgs are those among its first k.                *)
PinnedUpTo(msgs, k) == \A i \in 1..Len(msgs) : Pinned(msgs[i]) <=> i <= k

(* The pinned prefix is then k messages long, or the whole list.           *)
LEMMA PinnedLenIs ==
  ASSUME NEW S, NEW msgs \in Seq(S), NEW k \in Nat, PinnedUpTo(msgs, k)
  PROVE  PinnedLen(msgs) = IF k <= Len(msgs) THEN k ELSE Len(msgs)
<1> DEFINE Q(n) == /\ \A i \in 1..n : Pinned(msgs[i])
                   /\ n < Len(msgs) => ~Pinned(msgs[n + 1])
           m == IF k <= Len(msgs) THEN k ELSE Len(msgs)
<1>1. Len(msgs) \in Nat
  BY LenProperties
<1>2. m \in 0..Len(msgs) /\ Q(m)
  BY <1>1 DEF PinnedUpTo
<1>3. ASSUME NEW n \in 0..Len(msgs), Q(n)
      PROVE  n = m
  <2>1. CASE n < m
    BY <1>1, <1>3, <2>1 DEF PinnedUpTo
  <2>2. CASE n > m
    <3>1. m + 1 \in 1..n /\ m + 1 \in 1..Len(msgs) /\ ~(m + 1 <= k)
      BY <1>1, <2>2
    <3>2. QED
      BY <1>3, <3>1 DEF PinnedUpTo
  <2>3. QED
    BY <1>1, <2>1, <2>2
<1> HIDE DEF m, Q
<1>4. PinnedLen(msgs) = CHOOSE n \in 0..Len(msgs) : Q(n)
  BY DEF PinnedLen, Q
<1>5. PinnedLen(msgs) = m
  BY <1>2, <1>3, <1>4
<1>6. QED
  BY <1>5 DEF m

(* Replacing the pinned prefix by another one of length k keeps every      *)
(* message after position k where it was.                                  *)
LEMMA SetSystemKeepsRest ==
  ASSUME NEW S, NEW msgs \in Seq(S), NEW k \in Nat, PinnedUpTo(msgs, k),
         NEW prompt \in Seq(S), Len(prompt) = k, \A i \in 1..k : Pinned(prompt[i])
  PROVE  LET new == SetSystem(msgs, prompt)
         IN  /\ new \in Seq(S)
             /\ Len(new) = IF k <= Len(msgs) THEN Len(msgs) ELSE k
             /\ PinnedUpTo(new, k)
             /\ \A i \in k+1..Len(msgs) : new[i] = msgs[i]
             /\ Conversation(new) = Conversation(msgs)
<1> DEFINE conv == SubSeq(msgs, PinnedLen(msgs) + 1, Len(msgs))
           new == prompt \o conv
<1>1. Len(msgs) \in Nat /\ \A i \in 1..Len(msgs) : msgs[i] \in S
  BY LenProperties, ElementOfSeq
<1>2. PinnedLen(msgs) = IF k <= Len(msgs) THEN k ELSE Len(msgs)
  BY PinnedLenIs
<1>3. /\ conv \in Seq(S)
      /\ Len(conv) = IF k <= Len(msgs) THEN Len(msgs) - k ELSE 0
      /\ k <= Len(msgs) => \A i \in 1..Len(conv) : conv[i] = msgs[k + i]
  <2>1. PinnedLen(msgs) + 1 \in 1..Len(msgs) + 1
    BY <1>1, <1>2
  <2>2. /\ conv \in Seq(S)
        /\ Len(conv) = Len(msgs) - (PinnedLen(msgs) + 1) + 1
        /\ \A i \in 1..Len(conv) : conv[i] = msgs[PinnedLen(msgs) + 1 + i - 1]
    BY <2>1, SuffixProperties
  <2> HIDE DEF conv
  <2>3. Len(conv) = IF k <= Len(msgs) THEN Len(msgs) - k ELSE 0
    BY <1>1, <1>2, <2>2
  <2>4. ASSUME k <= Len(msgs), NEW i \in 1..Len(conv)
        PROVE  conv[i] = msgs[k + i]
    <3>1. PinnedLen(msgs) + 1 + i - 1 = k + i
      BY <1>1, <1>2, <2>3, <2>4
    <3>2. QED
      BY <2>2, <3>1
  <2>5. QED
    BY <2>2, <2>3, <2>4
<1>4. /\ new \in Seq(S)
      /\ Len(new) = k + Len(conv)
      /\ \A i \in 1..k + Len(conv) : new[i] = IF i <= k THEN prompt[i] ELSE conv[i - k]
  BY <1>3, ConcatProperties
<1> HIDE DEF conv, new
<1>5. ASSUME NEW i \in k+1..Len(msgs)
      PROVE  new[i] = msgs[i]
  <2>1. i - k \in 1..Len(conv) /\ i \in 1..k + Len(conv) /\ ~(i <= k)
    BY <1>1, <1>3
  <2>2. new[i] = conv[i - k] /\ conv[i - k] = msgs[k + (i - k)]
    BY <1>1, <1>3, <1>4, <2>1
  <2>3. k + (i - k) = i
    BY <1>1
  <2>4. QED
    BY <2>2, <2>3
<1>6. PinnedUpTo(new, k)
  <2>1. ASSUME NEW i \in 1..Len(new), i > k
        PROVE  ~Pinned(new[i])
    <3>1. i \in k+1..Len(msgs) /\ i \in 1..Len(msgs)
      BY <1>1, <1>3, <1>4, <2>1
    <3>2. QED
      BY <1>5, <2>1, <3>1 DEF PinnedUpTo
  <2>2. ASSUME NEW i \in 1..Len(new), i <= k
        PROVE  Pinned(new[i])
    BY <1>3, <1>4, <2>2
  <2>3. QED
    BY <1>3, <1>4, <2>1, <2>2 DEF PinnedUpTo
<1>7. PinnedLen(new) = k
  BY <1>1, <1>3, <1>4, <1>6, PinnedLenIs
<1>8. SubSeq(new, k + 1, Len(new)) = conv
  <2>1. \A i \in k+1..Len(new) : new[i] \in S
    BY <1>1, <1>3, <1>4, ElementOfSeq
  <2>2. /\ SubSeq(new, k + 1, Len(new)) \in Seq(S)
        /\ Len(SubSeq(new, k + 1, Len(new))) = Len(conv)
        /\ \A i \in 1..Len(conv) : SubSeq(new, k + 1, Len(new))[i] = new[k + 1 + i - 1]
    BY <1>1, <1>3, <1>4, <2>1, SubSeqProperties
  <2>3. ASSUME NEW i \in 1..Len(conv)
        PROVE  SubSeq(new, k + 1, Len(new))[i] = conv[i]
    <3>1. k + 1 + i - 1 = k + i /\ k + i \in 1..k + Len(conv) /\ ~(k + i <= k)
          /\ (k + i) - k = i
      BY <1>3
    <3>2. QED
      BY <1>4, <2>2, <3>1
  <2>4. QED
    BY <1>3, <2>2, <2>3, SeqEqual
<1>9. SetSystem(msgs, prompt) = new /\ Conversation(msgs) = conv
      /\ Conversation(new) = SubSeq(new, k + 1, Len(new))
  BY <1>7 DEF SetSystem, Conversation, conv, new
<1>10. Len(new) = IF k <= Len(msgs) THEN Len(msgs) ELSE k
  BY <1>1, <1>3, <1>4
<1>11. QED
  BY <1>4, <1>5, <1>6, <1>8, <1>9, <1>10

(* Lists that agree after position k have the same conversation.           *)
LEMMA SameConversation ==
  ASSUME NEW S, NEW a \in Seq(S), NEW b \in Seq(S), NEW k \in Nat,
         PinnedUpTo(a, k), PinnedUpTo(b, k), Len(a) = Len(b), k <= Len(a),
         \A i \in k+1..Len(a) : a[i] = b[i]
  PROVE  Conversation(a) = Conversation(b)
<1>1. PinnedLen(a) = k /\ PinnedLen(b) = k
  BY PinnedLenIs
<1>2. Len(a) \in Nat /\ k + 1 \in 1..Len(a) + 1 /\ k + 1 \in 1..Len(b) + 1
  BY LenProperties
<1> DEFINE ca == SubSeq(a, k + 1, Len(a))
           cb == SubSeq(b, k + 1, Len(b))
<1>3. /\ ca \in Seq(S) /\ Len(ca) = Len(a) - (k + 1) + 1
      /\ \A i \in 1..Len(ca) : ca[i] = a[k + 1 + i - 1]
  BY <1>2, SuffixProperties
<1>4. /\ cb \in Seq(S) /\ Len(cb) = Len(b) - (k + 1) + 1
      /\ \A i \in 1..Len(cb) : cb[i] = b[k + 1 + i - 1]
  BY <1>2, SuffixProperties
<1> HIDE DEF ca, cb
<1>5. Len(ca) = Len(cb)
  BY <1>3, <1>4
<1>6. ASSUME NEW i \in 1..Len(ca)
      PROVE  ca[i] = cb[i]
  <2>1. k + 1 + i - 1 \in k+1..Len(a)
    BY <1>2, <1>3
  <2>2. a[k + 1 + i - 1] = b[k + 1 + i - 1]
    BY <2>1
  <2>3. QED
    BY <1>3, <1>4, <1>5, <2>2
<1>7. ca = cb
  BY <1>3, <1>4, <1>5, <1>6, SeqEqual
<1>8. QED
  BY <1>1, <1>7 DEF Conversation, ca, cb

(* The recent turns start at some position of the list, or past its end.   *)
LEMMA RecentStartInRange ==
  ASSUME NEW S, NEW msgs \in Seq(S), NEW keep \in Nat
  PROVE  RecentStart(msgs, keep) \in 1..Len(msgs) + 1
<1> DEFINE users == UserPositions(msgs)
           recent == {i \in users : Cardinality({j \in users : j >= i}) <= keep}
<1>1. Len(msgs) \in Nat
  BY LenProperties
<1>2. recent \subseteq 1..Len(msgs)
  BY DEF UserPositions
<1> HIDE DEF users, recent
<1>3. CASE recent = {}
  BY <1>1, <1>3 DEF RecentStart, users, recent
<1>4. CASE recent # {}
  <2>1. \E i \in recent : \A j \in recent : i <= j
    <3>1. recent \subseteq Nat
      BY <1>1, <1>2
    <3>2. QED
      BY <1>4, <3>1, LeastNat
  <2>2. RecentStart(msgs, keep) = CHOOSE i \in recent : \A j \in recent : i <= j
    BY <1>4 DEF RecentStart, users, recent
  <2>3. RecentStart(msgs, keep) \in recent
    BY <2>1, <2>2
  <2>4. RecentStart(msgs, keep) \in 1..Len(msgs)
    BY <1>2, <2>3
  <2>5. QED
    BY <1>1, <2>4
<1>5. QED
  BY <1>3, <1>4

(* The operators return lists of messages.                                 *)
LEMMA SetSystemType ==
  ASSUME NEW S, NEW msgs \in Seq(S), NEW prompt \in Seq(S)
  PROVE  SetSystem(msgs, prompt) \in Seq(S)
<1>1. PinnedLen(msgs) + 1 \in 1..Len(msgs) + 1
  BY PinnedLenInRange, LenProperties
<1>2. Conversation(msgs) \in Seq(S)
  BY <1>1, SuffixProperties DEF Conversation
<1>3. QED
  BY <1>2, ConcatProperties DEF SetSystem

LEMMA SummarizedType ==
  ASSUME NEW S, NEW msgs \in Seq(S), NEW keep \in Nat, NEW summary \in S
  PROVE  Summarized(msgs, keep, summary) \in Seq(S)
<1>1. Len(msgs) \in Nat /\ \A i \in 1..Len(msgs) : msgs[i] \in S
  BY LenProperties, ElementOfSeq
<1>2. PinnedLen(msgs) \in 0..Len(msgs)
  BY PinnedLenInRange
<1>3. SubSeq(msgs, 1, PinnedLen(msgs)) \in Seq(S)
  BY <1>1, <1>2, SubSeqProperties
<1>4. SummaryEnd(msgs, keep) \in 1..Len(msgs) + 1
  <2>1. RecentStart(msgs, keep) \in 1..Len(msgs) + 1
    BY RecentStartInRange
  <2>2. Len(msgs) \in Nat
    BY <1>1
  <2>3. QED
    BY <1>2, <2>1, <2>2 DEF SummaryEnd
<1>5. SubSeq(msgs, SummaryEnd(msgs, keep), Len(msgs)) \in Seq(S)
  BY <1>4, SuffixProperties
<1>6. <<summary>> \in Seq(S)
  OBVIOUS
<1>7. SubSeq(msgs, 1, PinnedLen(msgs)) \o <<summary>> \in Seq(S)
  BY <1>3, <1>6, ConcatProperties
<1>8. QED
  BY <1>5, <1>7, ConcatProperties DEF Summarized

LEMMA MaskTypeOf ==
  ASSUME NEW M, NEW msgs \in Seq(M), NEW end, \A m \in M : [m EXCEPT !.role = "stub"] \in M
  PROVE  /\ MaskToolOutputs(msgs, end) \in Seq(M)
         /\ Len(MaskToolOutputs(msgs, end)) = Len(msgs)
<1> DEFINE new == MaskToolOutputs(msgs, end)
<1>1. Len(msgs) \in Nat /\ DOMAIN msgs = 1..Len(msgs) /\ \A i \in 1..Len(msgs) : msgs[i] \in M
  BY LenProperties, ElementOfSeq
<1>2. \A i \in 1..Len(msgs) : new[i] \in M
  BY <1>1 DEF MaskToolOutputs
<1>3. new = [i \in 1..Len(msgs) |-> new[i]]
  BY <1>1 DEF MaskToolOutputs
<1> HIDE DEF new
<1>4. new \in [1..Len(msgs) -> M]
  BY <1>2, <1>3
<1>5. new \in Seq(M) /\ Len(new) = Len(msgs)
  BY <1>1, <1>4
<1>6. QED
  BY <1>5 DEF new

LEMMA MaskType ==
  ASSUME NEW Id, NEW msgs \in Seq([role : Role, id : Id]), NEW end
  PROVE  /\ MaskToolOutputs(msgs, end) \in Seq([role : Role, id : Id])
         /\ Len(MaskToolOutputs(msgs, end)) = Len(msgs)
<1>1. \A m \in [role : Role, id : Id] : [m EXCEPT !.role = "stub"] \in [role : Role, id : Id]
  BY DEF Role
<1>2. QED
  BY <1>1, MaskTypeOf

(* Masking tool outputs makes no message a system message.                 *)
LEMMA MaskKeepsPinned ==
  ASSUME NEW Id, NEW msgs \in Seq([role : Role, id : Id]), NEW k \in Nat,
         PinnedUpTo(msgs, k), NEW end
  PROVE  PinnedUpTo(MaskToolOutputs(msgs, end), k)
<1> DEFINE new == MaskToolOutputs(msgs, end)
<1>1. DOMAIN msgs = 1..Len(msgs)
  BY LenProperties
<1>2. \A i \in 1..Len(msgs) : Pinned(new[i]) <=> Pinned(msgs[i])
  BY <1>1 DEF MaskToolOutputs, Pinned
<1>3. Len(new) = Len(msgs)
  BY MaskType
<1> HIDE DEF new
<1>4. PinnedUpTo(new, k)
  BY <1>2, <1>3 DEF PinnedUpTo
<1>5. QED
  BY <1>4 DEF new

(* Summarizing leaves the pinned prefix alone, and the summary that follows*)
(* it is not part of it.                                                   *)
LEMMA SummarizeKeepsPinned ==
  ASSUME NEW S, NEW msgs \in Seq(S), NEW k \in Nat, NEW keep \in Nat,
         PinnedUpTo(msgs, k), k <= Len(msgs), NEW summary \in S, ~Pinned(summary)
  PROVE  LET new == Summarized(msgs, keep, summary)
         IN  new \in Seq(S) /\ Len(new) > k /\ PinnedUpTo(new, k)
<1> DEFINE e == SummaryEnd(msgs, keep)
           head == SubSeq(msgs, 1, k)
           rest == SubSeq(msgs, e, Len(msgs))
           front == head \o <<summary>>
           new == front \o rest
<1>1. Len(msgs) \in Nat /\ \A i \in 1..Len(msgs) : msgs[i] \in S
  BY LenProperties, ElementOfSeq
<1>2. PinnedLen(msgs) = k
  BY PinnedLenIs
<1>3. e \in k+1..Len(msgs)+1
  <2>1. RecentStart(msgs, keep) \in 1..Len(msgs) + 1
    BY RecentStartInRange
  <2>2. Len(msgs) \in Nat
    BY LenProperties
  <2>3. QED
    BY <1>2, <2>1, <2>2 DEF SummaryEnd
<1> HIDE DEF e
<1>4. /\ head \in Seq(S) /\ Len(head) = k
      /\ \A i \in 1..k : head[i] = msgs[i]
  BY <1>1, SubSeqProperties
<1>5. /\ rest \in Seq(S) /\ Len(rest) = Len(msgs) - e + 1
      /\ \A i \in 1..Len(rest) : rest[i] = msgs[e + i - 1]
  <2>1. e \in 1..Len(msgs) + 1
    BY <1>1, <1>3
  <2>2. QED
    BY <2>1, SuffixProperties
<1> HIDE DEF head, rest
<1>6. /\ front \in Seq(S) /\ Len(front) = k + 1
      /\ \A i \in 1..k + 1 : front[i] = IF i <= k THEN head[i] ELSE summary
  <2>1. <<summary>> \in Seq(S) /\ Len(<<summary>>) = 1 /\ <<summary>>[1] = summary
    OBVIOUS
  <2>2. QED
    BY <1>4, <2>1, ConcatProperties
<1> HIDE DEF front
<1>7. /\ new \in Seq(S) /\ Len(new) = k + 1 + Len(rest)
      /\ \A i \in 1..k + 1 + Len(rest) :
           new[i] = IF i <= k + 1 THEN front[i] ELSE rest[i - (k + 1)]
  <2>1. rest \in Seq(S) /\ front \in Seq(S) /\ Len(front) = k + 1
    BY <1>5, <1>6
  <2>2. /\ new \in Seq(S) /\ Len(new) = Len(front) + Len(rest)
        /\ \A i \in 1..Len(front) + Len(rest) :
             new[i] = IF i <= Len(front) THEN front[i] ELSE rest[i - Len(front)]
    BY <2>1, ConcatProperties
  <2>3. QED
    BY <2>1, <2>2
<1> HIDE DEF new
<1>8. Len(rest) \in Nat
  BY <1>1, <1>3, <1>5
<1>9. ASSUME NEW i \in 1..Len(new)
      PROVE  Pinned(new[i]) <=> i <= k
  <2>1. CASE i <= k
    <3>1. i \in 1..k /\ i \in 1..k + 1 /\ i \in 1..k + 1 + Len(rest) /\ i \in 1..Len(msgs)
      BY <1>1, <1>7, <1>8, <2>1
    <3>2. new[i] = msgs[i]
      BY <1>4, <1>6, <1>7, <2>1, <3>1
    <3>3. QED
      BY <3>1, <3>2 DEF PinnedUpTo
  <2>2. CASE i = k + 1
    BY <1>6, <1>7, <1>8, <2>2
  <2>3. CASE i > k + 1
    <3>1. i - (k + 1) \in 1..Len(rest) /\ new[i] = rest[i - (k + 1)]
      BY <1>7, <1>8, <2>3
    <3>2. e + (i - (k + 1)) - 1 \in k+1..Len(msgs)
      BY <1>1, <1>3, <1>5, <3>1
    <3>3. ~Pinned(msgs[e + (i - (k + 1)) - 1])
      BY <1>1, <3>2 DEF PinnedUpTo
    <3>4. QED
      BY <1>5, <2>3, <3>1, <3>3
  <2>4. QED
    BY <1>7, <1>8, <2>1, <2>2, <2>3
<1>10. Summarized(msgs, keep, summary) = new
  BY <1>2 DEF Summarized, new, front, head, rest, e
<1>11. QED
  BY <1>7, <1>8, <1>9, <1>10 DEF PinnedUpTo

(* PinnedLen is the only length of which its definition holds.             *)
LEMMA PinnedLenFacts ==
  ASSUME NEW S, NEW msgs \in Seq(S)
  PROVE  /\ PinnedLen(msgs) \in 0..Len(msgs)
         /\ \A i \in 1..PinnedLen(msgs) : Pinned(msgs[i])
         /\ PinnedLen(msgs) < Len(msgs) => ~Pinned(msgs[PinnedLen(msgs) + 1])
<1> DEFINE Q(n) == /\ \A i \in 1..n : Pinned(msgs[i])
                   /\ n < Len(msgs) => ~Pinned(msgs[n + 1])
<1>1. \E n \in 0..Len(msgs) : Q(n)
  BY PinnedExists
<1>2. PinnedLen(msgs) = CHOOSE m \in 0..Len(msgs) : Q(m)
  BY DEF PinnedLen
<1> HIDE DEF Q
<1>3. PinnedLen(msgs) \in 0..Len(msgs) /\ Q(PinnedLen(msgs))
  BY <1>1, <1>2
<1>4. QED
  BY <1>3 DEF Q

LEMMA PinnedLenUnique ==
  ASSUME NEW S, NEW msgs \in Seq(S), NEW n \in 0..Len(msgs),
         \A i \in 1..n : Pinned(msgs[i]),
         n < Len(msgs) => ~Pinned(msgs[n + 1])
  PROVE  PinnedLen(msgs) = n
<1>1. Len(msgs) \in Nat
  BY LenProperties
<1>2. /\ PinnedLen(msgs) \in 0..Len(msgs)
      /\ \A i \in 1..PinnedLen(msgs) : Pinned(msgs[i])
      /\ PinnedLen(msgs) < Len(msgs) => ~Pinned(msgs[PinnedLen(msgs) + 1])
  BY PinnedLenFacts
<1>3. CASE PinnedLen(msgs) < n
  <2>1. PinnedLen(msgs) + 1 \in 1..n /\ PinnedLen(msgs) < Len(msgs)
    BY <1>1, <1>2, <1>3
  <2>2. QED
    BY <1>2, <2>1
<1>4. CASE n < PinnedLen(msgs)
  <2>1. n + 1 \in 1..PinnedLen(msgs) /\ n < Len(msgs)
    BY <1>1, <1>2, <1>4
  <2>2. QED
    BY <1>2, <2>1
<1>5. QED
  BY <1>1, <1>2, <1>3, <1>4

(* The recent turns include every stretch at the end that holds at most    *)
(* keep user messages and starts with one.                                 *)
LEMMA RecentStartReaches ==
  ASSUME NEW S, NEW msgs \in Seq(S), NEW keep \in Nat, NEW i \in UserPositions(msgs),
         Cardinality({j \in UserPositions(msgs) : j >= i}) <= keep
  PROVE  RecentStart(msgs, keep) <= i
<1> DEFINE users == UserPositions(msgs)
           recent == {j \in users : Cardinality({l \in users : l >= j}) <= keep}
<1>1. i \in recent
  OBVIOUS
<1>2. recent \subseteq Nat
  BY LenProperties DEF UserPositions
<1>3. \E j \in recent : \A l \in recent : j <= l
  <2> HIDE DEF recent
  <2>1. QED
    BY <1>1, <1>2, LeastNat
<1>4. RecentStart(msgs, keep) = CHOOSE j \in recent : \A l \in recent : j <= l
  BY <1>1 DEF RecentStart
<1> HIDE DEF recent, users
<1>5. \A l \in recent : RecentStart(msgs, keep) <= l
  BY <1>3, <1>4
<1>6. QED
  BY <1>1, <1>5

(* What compaction leaves of a list: its pinned prefix, and, from position *)
(* e on, what follows the prefix, at the end of the new list.              *)
KeepsEnds(old, new, e) ==
  /\ Len(new) \in Nat /\ PinnedLen(old) <= Len(new)
  /\ PinnedLen(new) = PinnedLen(old)
  /\ \A i \in 1..PinnedLen(old) : new[i] = old[i]
  /\ \A i \in 1..Len(old) : e <= i /\ PinnedLen(old) < i =>
       /\ i + (Len(new) - Len(old)) \in 1..Len(new)
       /\ new[i + (Len(new) - Len(old))] = old[i]

LEMMA MaskKeepsEnds ==
  ASSUME NEW Id, NEW msgs \in Seq([role : Role, id : Id]), NEW end \in Nat
  PROVE  LET new == MaskToolOutputs(msgs, end)
         IN  /\ KeepsEnds(msgs, new, end)
             /\ UserPositions(new) = UserPositions(msgs)
<1> DEFINE new == MaskToolOutputs(msgs, end)
           k == PinnedLen(msgs)
<1>1. DOMAIN msgs = 1..Len(msgs) /\ Len(msgs) \in Nat
  BY LenProperties
<1>2. new \in Seq([role : Role, id : Id]) /\ Len(new) = Len(msgs)
  BY MaskType
<1>3. \A i \in 1..Len(msgs) : msgs[i] \in [role : Role, id : Id]
  BY ElementOfSeq
<1>4. \A i \in 1..Len(msgs) :
        /\ Pinned(new[i]) <=> Pinned(msgs[i])
        /\ new[i].role = "user" <=> msgs[i].role = "user"
        /\ Pinned(msgs[i]) \/ end <= i => new[i] = msgs[i]
  BY <1>1, <1>3 DEF MaskToolOutputs, Pinned
<1>5. /\ k \in 0..Len(msgs)
      /\ \A i \in 1..k : Pinned(msgs[i])
      /\ k < Len(msgs) => ~Pinned(msgs[k + 1])
  BY PinnedLenFacts
<1> HIDE DEF new, k
<1>6. \A i \in 1..k : i \in 1..Len(msgs)
  BY <1>1, <1>5
<1>7. k \in 0..Len(new) /\ \A i \in 1..k : Pinned(new[i]) /\ new[i] = msgs[i]
  BY <1>2, <1>4, <1>5, <1>6
<1>8. k < Len(new) => ~Pinned(new[k + 1])
  BY <1>1, <1>2, <1>4, <1>5
<1>9. PinnedLen(new) = k
  BY <1>2, <1>7, <1>8, PinnedLenUnique
<1>10. UserPositions(new) = UserPositions(msgs)
  BY <1>2, <1>4 DEF UserPositions
<1>11. ASSUME NEW i \in 1..Len(msgs), end <= i
       PROVE  /\ i + (Len(new) - Len(msgs)) \in 1..Len(new)
              /\ new[i + (Len(new) - Len(msgs))] = msgs[i]
  BY <1>1, <1>2, <1>4, <1>11
<1>12. PinnedLen(msgs) = k /\ k <= Len(new) /\ Len(new) \in Nat
  BY <1>1, <1>2, <1>5 DEF k
<1>13. KeepsEnds(msgs, new, end)
  BY <1>7, <1>9, <1>11, <1>12 DEF KeepsEnds
<1>14. QED
  BY <1>10, <1>13 DEF new

(* A summary stands for what is between the prefix and the recent turns.   *)
LEMMA SummarizeKeepsEnds ==
  ASSUME NEW S, NEW msgs \in Seq(S), NEW keep \in Nat, NEW summary \in S, ~Pinned(summary)
  PROVE  KeepsEnds(msgs, Summarized(msgs, keep, summary), RecentStart(msgs, keep))
<1> DEFINE k == PinnedLen(msgs)
           e == SummaryEnd(msgs, keep)
           head == SubSeq(msgs, 1, k)
           rest == SubSeq(msgs, e, Len(msgs))
           front == head \o <<summary>>
           new == front \o rest
<1>1. Len(msgs) \in Nat /\ \A i \in 1..Len(msgs) : msgs[i] \in S
  BY LenProperties, ElementOfSeq
<1>2. k \in 0..Len(msgs) /\ \A i \in 1..k : Pinned(msgs[i])
  BY PinnedLenFacts
<1>3. /\ e \in k+1..Len(msgs)+1 /\ e \in 1..Len(msgs)+1
      /\ \A i \in 1..Len(msgs) : RecentStart(msgs, keep) <= i /\ k < i => e <= i
  <2>1. RecentStart(msgs, keep) \in 1..Len(msgs) + 1
    BY RecentStartInRange
  <2>2. QED
    BY <1>1, <1>2, <2>1 DEF SummaryEnd
<1> HIDE DEF e, k
<1>4. /\ head \in Seq(S) /\ Len(head) = k
      /\ \A i \in 1..k : head[i] = msgs[i]
  <2>1. \A i \in 1..k : msgs[i] \in S
    BY <1>1, <1>2
  <2>2. QED
    BY <1>1, <1>2, <2>1, SubSeqProperties
<1>5. /\ rest \in Seq(S) /\ Len(rest) = Len(msgs) - e + 1
      /\ \A i \in 1..Len(rest) : rest[i] = msgs[e + i - 1]
  BY <1>3, SuffixProperties
<1> HIDE DEF head, rest
<1>6. /\ front \in Seq(S) /\ Len(front) = k + 1
      /\ \A i \in 1..k + 1 : front[i] = IF i <= k THEN head[i] ELSE summary
  <2>1. <<summary>> \in Seq(S) /\ Len(<<summary>>) = 1 /\ <<summary>>[1] = summary
    OBVIOUS
  <2>2. QED
    BY <1>2, <1>4, <2>1, ConcatProperties
<1> HIDE DEF front
<1>7. /\ new \in Seq(S) /\ Len(new) = k + 1 + Len(rest)
      /\ \A i \in 1..k + 1 + Len(rest) :
           new[i] = IF i <= k + 1 THEN front[i] ELSE rest[i - (k + 1)]
  <2>1. /\ new \in Seq(S) /\ Len(new) = Len(front) + Len(rest)
        /\ \A i \in 1..Len(front) + Len(rest) :
             new[i] = IF i <= Len(front) THEN front[i] ELSE rest[i - Len(front)]
    BY <1>5, <1>6, ConcatProperties
  <2>2. QED
    BY <1>6, <2>1
<1> HIDE DEF new
<1>8. Len(rest) \in Nat
  BY <1>1, <1>2, <1>3, <1>5
<1>9. ASSUME NEW i \in 1..k
      PROVE  new[i] = msgs[i]
  <2>1. i \in 1..k + 1 /\ i \in 1..k + 1 + Len(rest) /\ i <= k + 1 /\ i <= k
    BY <1>2, <1>8
  <2>2. QED
    BY <1>4, <1>6, <1>7, <2>1
<1>10. new[k + 1] = summary
  <2>1. k + 1 \in 1..k + 1 + Len(rest) /\ k + 1 \in 1..k + 1 /\ ~(k + 1 <= k)
    BY <1>2, <1>8
  <2>2. QED
    BY <1>6, <1>7, <2>1
<1>11. PinnedLen(new) = k
  <2>1. k \in 0..Len(new) /\ \A i \in 1..k : Pinned(new[i])
    BY <1>2, <1>7, <1>8, <1>9
  <2>2. k < Len(new) => ~Pinned(new[k + 1])
    BY <1>10
  <2>3. QED
    BY <1>7, <2>1, <2>2, PinnedLenUnique
<1>12. ASSUME NEW i \in 1..Len(msgs), RecentStart(msgs, keep) <= i, k < i
       PROVE  /\ i + (Len(new) - Len(msgs)) \in 1..Len(new)
              /\ new[i + (Len(new) - Len(msgs))] = msgs[i]
  <2>1. e <= i
    BY <1>3, <1>12
  <2> DEFINE j == i + (Len(new) - Len(msgs))
  <2>2. /\ j \in 1..k + 1 + Len(rest) /\ ~(j <= k + 1)
        /\ j - (k + 1) \in 1..Len(rest) /\ e + (j - (k + 1)) - 1 = i
    BY <1>1, <1>2, <1>3, <1>5, <1>7, <1>8, <2>1
  <2> HIDE DEF j
  <2>3. new[j] = rest[j - (k + 1)] /\ rest[j - (k + 1)] = msgs[i]
    BY <1>5, <1>7, <2>2
  <2>4. QED
    BY <1>7, <2>2, <2>3 DEF j
<1>13. Len(new) \in Nat /\ k <= Len(new)
  BY <1>2, <1>7, <1>8
<1>14. KeepsEnds(msgs, new, RecentStart(msgs, keep))
  BY <1>9, <1>11, <1>12, <1>13 DEF KeepsEnds, k
<1>15. Summarized(msgs, keep, summary) = new
  BY DEF Summarized, new, front, head, rest, e, k
<1>16. QED
  BY <1>14, <1>15

(* Two compactions that keep the ends, one after the other.                *)
LEMMA KeepsEndsTwice ==
  ASSUME NEW S, NEW a \in Seq(S), NEW b \in Seq(S), NEW c \in Seq(S), NEW e \in Nat,
         KeepsEnds(a, b, e), KeepsEnds(b, c, e), Len(a) = Len(b)
  PROVE  KeepsEnds(a, c, e)
<1>1. Len(a) \in Nat /\ Len(b) \in Nat /\ Len(c) \in Nat /\ PinnedLen(a) \in Nat
  BY LenProperties, PinnedLenInRange
<1>2. PinnedLen(b) = PinnedLen(a) /\ PinnedLen(c) = PinnedLen(a) /\ PinnedLen(a) <= Len(c)
  BY DEF KeepsEnds
<1>3. \A i \in 1..PinnedLen(a) : c[i] = a[i]
  BY <1>2 DEF KeepsEnds
<1>4. ASSUME NEW i \in 1..Len(a), e <= i, PinnedLen(a) < i
      PROVE  /\ i + (Len(c) - Len(a)) \in 1..Len(c)
             /\ c[i + (Len(c) - Len(a))] = a[i]
  <2>1. i + (Len(b) - Len(a)) = i
    BY <1>1
  <2>2. b[i] = a[i]
    BY <1>4, <2>1 DEF KeepsEnds
  <2>3. QED
    BY <1>2, <1>4, <2>2 DEF KeepsEnds
<1>5. QED
  BY <1>1, <1>2, <1>3, <1>4 DEF KeepsEnds


(* The conversation of a list whose pinned messages are its first k.       *)
LEMMA ConversationFacts ==
  ASSUME NEW S, NEW msgs \in Seq(S), NEW k \in Nat, PinnedUpTo(msgs, k)
  PROVE  /\ Conversation(msgs) \in Seq(S)
         /\ Len(msgs) <= k => Conversation(msgs) = << >>
         /\ k <= Len(msgs) => /\ Len(Conversation(msgs)) = Len(msgs) - k
                              /\ \A i \in 1..Len(msgs) - k : Conversation(msgs)[i] = msgs[k + i]
<1> DEFINE n == PinnedLen(msgs)
           conv == SubSeq(msgs, n + 1, Len(msgs))
<1>1. Len(msgs) \in Nat /\ n = IF k <= Len(msgs) THEN k ELSE Len(msgs)
  BY LenProperties, PinnedLenIs
<1> HIDE DEF n
<1>2. n + 1 \in 1..Len(msgs) + 1
  BY <1>1
<1>3. /\ conv \in Seq(S) /\ Len(conv) = Len(msgs) - (n + 1) + 1
      /\ \A i \in 1..Len(conv) : conv[i] = msgs[n + 1 + i - 1]
  BY <1>2, SuffixProperties
<1> HIDE DEF conv
<1>4. ASSUME Len(msgs) <= k
      PROVE  conv = << >>
  <2>1. Len(conv) = 0
    BY <1>1, <1>3, <1>4
  <2>2. QED
    BY <1>3, <2>1, EmptySeq
<1>5. ASSUME k <= Len(msgs)
      PROVE  /\ Len(conv) = Len(msgs) - k
             /\ \A i \in 1..Len(msgs) - k : conv[i] = msgs[k + i]
  <2>1. Len(conv) = Len(msgs) - k /\ n = k
    BY <1>1, <1>3, <1>5
  <2>2. \A i \in 1..Len(msgs) - k : n + 1 + i - 1 = k + i
    BY <1>1, <2>1
  <2>3. QED
    BY <1>3, <2>1, <2>2
<1>6. Conversation(msgs) = conv
  BY DEF Conversation, conv, n
<1>7. QED
  BY <1>3, <1>4, <1>5, <1>6

(* A new message that is not pinned is said at the end of the conversation.*)
LEMMA ConversationAppend ==
  ASSUME NEW S, NEW msgs \in Seq(S), NEW k \in Nat, PinnedUpTo(msgs, k), k <= Len(msgs),
         NEW e \in S, ~Pinned(e)
  PROVE  Conversation(Append(msgs, e)) = Append(Conversation(msgs), e)
<1> DEFINE new == Append(msgs, e)
           conv == Conversation(msgs)
           said == Append(conv, e)
<1>1. Len(msgs) \in Nat
  BY LenProperties
<1>2. /\ new \in Seq(S) /\ Len(new) = Len(msgs) + 1 /\ new[Len(msgs) + 1] = e
      /\ \A i \in 1..Len(msgs) : new[i] = msgs[i]
  BY AppendProperties
<1> HIDE DEF new
<1>3. PinnedUpTo(new, k)
  <2>1. ASSUME NEW i \in 1..Len(new)
        PROVE  Pinned(new[i]) <=> i <= k
    <3>1. CASE i = Len(msgs) + 1
      BY <1>1, <1>2, <3>1
    <3>2. CASE i # Len(msgs) + 1
      <4>1. i \in 1..Len(msgs)
        BY <1>1, <1>2, <3>2
      <4>2. QED
        BY <1>2, <4>1 DEF PinnedUpTo
    <3>3. QED
      BY <3>1, <3>2
  <2>2. QED
    BY <2>1 DEF PinnedUpTo
<1>4. /\ conv \in Seq(S) /\ Len(conv) = Len(msgs) - k
      /\ \A i \in 1..Len(msgs) - k : conv[i] = msgs[k + i]
  BY ConversationFacts
<1>5. /\ Conversation(new) \in Seq(S) /\ Len(Conversation(new)) = Len(msgs) + 1 - k
      /\ \A i \in 1..Len(msgs) + 1 - k : Conversation(new)[i] = new[k + i]
  <2>1. k <= Len(new)
    BY <1>1, <1>2
  <2>2. QED
    BY <1>2, <1>3, <2>1, ConversationFacts
<1> HIDE DEF conv
<1>6. /\ said \in Seq(S) /\ Len(said) = Len(conv) + 1 /\ said[Len(conv) + 1] = e
      /\ \A i \in 1..Len(conv) : said[i] = conv[i]
  BY <1>4, AppendProperties
<1> HIDE DEF said
<1>7. Len(said) = Len(Conversation(new))
  BY <1>1, <1>4, <1>5, <1>6
<1>8. ASSUME NEW i \in 1..Len(said)
      PROVE  Conversation(new)[i] = said[i]
  <2>1. i \in 1..Len(msgs) + 1 - k
    BY <1>1, <1>4, <1>6
  <2>2. CASE i = Len(conv) + 1
    <3>1. k + i = Len(msgs) + 1
      BY <1>1, <1>4, <2>2
    <3>2. QED
      BY <1>2, <1>5, <1>6, <2>1, <2>2, <3>1
  <2>3. CASE i # Len(conv) + 1
    <3>1. i \in 1..Len(conv) /\ i \in 1..Len(msgs) - k /\ k + i \in 1..Len(msgs)
      BY <1>1, <1>4, <1>6, <2>3
    <3>2. QED
      BY <1>2, <1>4, <1>5, <1>6, <2>1, <3>1
  <2>4. QED
    BY <2>2, <2>3
<1>9. Conversation(new) = said
  BY <1>5, <1>6, <1>7, <1>8, SeqEqual
<1>10. QED
  BY <1>9 DEF said, new, conv

(* A list that goes as far as another one after the prompt has a prefix of *)
(* its conversation.                                                       *)
LEMMA ConversationPrefix ==
  ASSUME NEW S, NEW a \in Seq(S), NEW b \in Seq(S), NEW k \in Nat,
         PinnedUpTo(a, k), PinnedUpTo(b, k), Len(a) <= Len(b),
         \A i \in k+1..Len(a) : a[i] = b[i]
  PROVE  LET x == Conversation(a) y == Conversation(b)
         IN  /\ x \in Seq(S) /\ y \in Seq(S)
             /\ Len(x) <= Len(y) /\ SubSeq(x, 1, Len(x)) = SubSeq(y, 1, Len(x))
<1> DEFINE x == Conversation(a)
           y == Conversation(b)
<1>1. Len(a) \in Nat /\ Len(b) \in Nat /\ x \in Seq(S) /\ y \in Seq(S)
  BY LenProperties, ConversationFacts
<1>2. Len(x) \in Nat /\ Len(y) \in Nat
  BY <1>1, LenProperties
<1>3. Len(x) <= Len(y) /\ \A i \in 1..Len(x) : x[i] = y[i]
  <2>1. CASE Len(a) <= k
    <3>1. x = << >>
      BY <2>1, ConversationFacts
    <3>2. Len(x) = 0
      BY <3>1, EmptySeq
    <3>3. QED
      BY <1>2, <3>2
  <2>2. CASE k <= Len(a)
    <3>1. k <= Len(b)
      BY <1>1, <2>2
    <3>2. /\ Len(x) = Len(a) - k /\ \A i \in 1..Len(a) - k : x[i] = a[k + i]
      BY <2>2, ConversationFacts
    <3>3. /\ Len(y) = Len(b) - k /\ \A i \in 1..Len(b) - k : y[i] = b[k + i]
      BY <3>1, ConversationFacts
    <3> HIDE DEF x, y
    <3>4. ASSUME NEW i \in 1..Len(x)
          PROVE  x[i] = y[i]
      <4>1. i \in 1..Len(a) - k /\ i \in 1..Len(b) - k /\ k + i \in k+1..Len(a)
        BY <1>1, <3>2
      <4>2. QED
        BY <3>2, <3>3, <4>1
    <3>5. QED
      BY <1>1, <3>2, <3>3, <3>4
  <2>3. QED
    BY <1>1, <2>1, <2>2
<1> HIDE DEF x, y
<1>4. /\ SubSeq(x, 1, Len(x)) \in Seq(S) /\ Len(SubSeq(x, 1, Len(x))) = Len(x)
      /\ \A i \in 1..Len(x) : SubSeq(x, 1, Len(x))[i] = x[i]
  <2>1. \A i \in 1..Len(x) : x[i] \in S
    BY <1>1, ElementOfSeq
  <2>2. QED
    BY <1>1, <1>2, <2>1, SubSeqProperties
<1>5. /\ SubSeq(y, 1, Len(x)) \in Seq(S) /\ Len(SubSeq(y, 1, Len(x))) = Len(x)
      /\ \A i \in 1..Len(x) : SubSeq(y, 1, Len(x))[i] = y[i]
  <2>1. \A i \in 1..Len(x) : i \in 1..Len(y) /\ y[i] \in S
    BY <1>1, <1>2, <1>3, ElementOfSeq
  <2>2. QED
    BY <1>1, <1>2, <1>3, <2>1, SubSeqProperties
<1>6. SubSeq(x, 1, Len(x)) = SubSeq(y, 1, Len(x))
  <2>1. \A i \in 1..Len(SubSeq(x, 1, Len(x))) :
          SubSeq(x, 1, Len(x))[i] = SubSeq(y, 1, Len(x))[i]
    BY <1>3, <1>4, <1>5
  <2>2. QED
    BY <1>4, <1>5, <2>1, SeqEqual
<1>7. QED
  BY <1>1, <1>3, <1>6 DEF x, y


(* What was said before a list's last element is its beginning.            *)
LEMMA AppendKeeps ==
  ASSUME NEW S, NEW s \in Seq(S), NEW e \in S
  PROVE  SubSeq(s, 1, Len(s)) = SubSeq(Append(s, e), 1, Len(s))
<1> DEFINE t == Append(s, e)
<1>1. /\ Len(s) \in Nat /\ t \in Seq(S) /\ Len(t) = Len(s) + 1
      /\ \A i \in 1..Len(s) : t[i] = s[i] /\ s[i] \in S
  BY LenProperties, AppendProperties, ElementOfSeq
<1> HIDE DEF t
<1>2. /\ SubSeq(s, 1, Len(s)) \in Seq(S) /\ Len(SubSeq(s, 1, Len(s))) = Len(s)
      /\ \A i \in 1..Len(s) : SubSeq(s, 1, Len(s))[i] = s[i]
  BY <1>1, SubSeqProperties
<1>3. /\ SubSeq(t, 1, Len(s)) \in Seq(S) /\ Len(SubSeq(t, 1, Len(s))) = Len(s)
      /\ \A i \in 1..Len(s) : SubSeq(t, 1, Len(s))[i] = t[i]
  BY <1>1, SubSeqProperties
<1>4. \A i \in 1..Len(SubSeq(s, 1, Len(s))) :
        SubSeq(s, 1, Len(s))[i] = SubSeq(t, 1, Len(s))[i]
  BY <1>1, <1>2, <1>3
<1>5. SubSeq(s, 1, Len(s)) = SubSeq(t, 1, Len(s))
  BY <1>2, <1>3, <1>4, SeqEqual
<1>6. QED
  BY <1>5 DEF t
=============================================================================
