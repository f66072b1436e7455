------------------------------ MODULE ToolParts ------------------------------
(***************************************************************************)
(* The parts of MCTools that theorems are about, as instances over its     *)
(* places v1 to v17, and what is proved of each: that its first states     *)
(* have its inductive invariant, that each of its steps keeps it, and that *)
(* the invariant gives the part's property.  The properties themselves are *)
(* theorems of MCTools, where the parts are composed; the rules on disk    *)
(* (ApprovalRules) are a specification of their own.                       *)
(***************************************************************************)
EXTENDS ApprovalRules, Sequences, FiniteSets, TLAPS, FiniteSetTheorems, WellFoundedInduction

CONSTANTS
  NoRule,
  CliRules,                                           \* CliApprovals
  Items, Pieces, StreamTurns, MaxTotal,               \* StreamMappers
  Children, Timeout, DrainGrace, Slack, Half, MaxChunks, \* ShellCall
  PathNames, LinkTargets, AskedPaths, WrittenPaths,   \* Confined
  EvalKeys, EvalFaults,                               \* EvalRuns
  ModelSpecs, ChatEfforts,                            \* ModelChoice
  KeyProviders, KeyTexts,                             \* ApiKeys
  MaxLines, Unread,                                   \* McpServe
  Calls, HttpPieces, MaxRetries, MaxDelay,            \* Http
  Moves                                               \* FileWrites

VARIABLES v1, v2, v3, v4, v5, v6, v7, v8, v9, v10, v11, v12, v13, v14, v15, v16, v17

-----------------------------------------------------------------------------
(* The rules on disk: no rule that the user did not grant is ever stored   *)
(* or used, for any number of processes, rules and failed saves; and a     *)
(* granted rule is never lost as long as the processes work on the project *)
(* one after another.                                                      *)

(* The initial state has no rules at all.                                  *)
LEMMA InitSafe == Init => Safe
<1> SUFFICES ASSUME Init PROVE Safe
  OBVIOUS
<1>1. TypeOK
  <2>1. policy \in [Procs -> SUBSET Rules] /\ temp \in [Procs -> SUBSET Rules]
    BY DEF Init
  <2>2. call \in [Procs -> Rules \cup {NoCall}]
    BY DEF Init
  <2>3. pc \in [Procs -> {"out", "ready", "asking", "saving"}]
    BY DEF Init
  <2>4. /\ stored \subseteq Rules /\ granted \subseteq Rules /\ kept \subseteq Rules
        /\ ran \subseteq [rule : Rules, by : {"rule", "user"}]
        /\ shared \in BOOLEAN
    BY DEF Init
  <2>5. faults \in 0..MaxFaults
    BY RulesAssumption DEF Init, RulesAssumption
  <2> QED
    BY <2>1, <2>2, <2>3, <2>4, <2>5 DEF TypeOK
<1>2. OnlyGranted /\ Known
  BY DEF Init, OnlyGranted, Known
<1> QED
  BY <1>1, <1>2 DEF Safe

(* Every step keeps the rules within what was granted.                     *)
LEMMA SafeStep == Safe /\ [Next]_vars => Safe'
<1> SUFFICES ASSUME Safe, [Next]_vars PROVE Safe'
  OBVIOUS
<1> USE RulesAssumption DEF RulesAssumption, Safe, TypeOK, OnlyGranted, Known, Goto
<1>1. CASE UNCHANGED vars
  BY <1>1 DEF vars
<1>2. ASSUME NEW p \in Procs, Open(p) PROVE Safe'
  <2>1. temp[p] = {}
    BY <1>2 DEF Open
  <2> QED
    BY <1>2, <2>1 DEF Open
<1>3. ASSUME NEW p \in Procs, NEW rule \in Rules, Covered(p, rule) PROVE Safe'
  BY <1>3 DEF Covered
<1>4. ASSUME NEW p \in Procs, NEW rule \in Rules, Asked(p, rule) PROVE Safe'
  BY <1>4 DEF Asked
<1>5. ASSUME NEW p \in Procs, NEW approved \in BOOLEAN, AnsweredOnce(p, approved) PROVE Safe'
  BY <1>5 DEF AnsweredOnce
<1>6. ASSUME NEW p \in Procs, Remember(p) PROVE Safe'
  BY <1>6 DEF Remember
<1>7. ASSUME NEW p \in Procs, Persist(p) PROVE Safe'
  BY <1>7 DEF Persist, Saved
<1>8. ASSUME NEW p \in Procs, SaveFails(p) PROVE Safe'
  BY <1>8 DEF SaveFails, Saved
<1>9. ASSUME NEW p \in Procs, Leave(p) PROVE Safe'
  BY <1>9 DEF Leave
<1> QED
  BY <1>1, <1>2, <1>3, <1>4, <1>5, <1>6, <1>7, <1>8, <1>9 DEF Next

(* Only what the user answered "always" to ever runs unasked: every        *)
(* interleaving of loads, answers, saves, failed saves and deaths of any   *)
(* number of processes keeps OnlyGranted.                                  *)
THEOREM OnlyGrantedAlways == Spec => []OnlyGranted
<1>1. Safe => OnlyGranted
  BY DEF Safe
<1> QED
  BY InitSafe, SafeStep, <1>1, PTL DEF Spec

(* A process that works alone never saves less than the file has.          *)
LEMMA AloneStep ==
  ASSUME Safe, Alone, [Next]_vars
  PROVE  Alone'
<1> USE RulesAssumption DEF RulesAssumption, Safe, TypeOK, Known, Alone, Goto
<1>1. CASE UNCHANGED vars
  BY <1>1 DEF vars
<1>2. ASSUME NEW p \in Procs, Open(p) PROVE Alone'
  BY <1>2 DEF Open
<1>3. ASSUME NEW p \in Procs, NEW rule \in Rules, Covered(p, rule) PROVE Alone'
  BY <1>3 DEF Covered
<1>4. ASSUME NEW p \in Procs, NEW rule \in Rules, Asked(p, rule) PROVE Alone'
  BY <1>4 DEF Asked
<1>5. ASSUME NEW p \in Procs, NEW approved \in BOOLEAN, AnsweredOnce(p, approved) PROVE Alone'
  BY <1>5 DEF AnsweredOnce
<1>6. ASSUME NEW p \in Procs, Remember(p) PROVE Alone'
  BY <1>6 DEF Remember
<1>7. ASSUME NEW p \in Procs, Persist(p) PROVE Alone'
  <2> SUFFICES ASSUME ~shared PROVE Alone'
    BY <1>7 DEF Persist, Saved
  <2>1. kept' \subseteq stored'
    BY <1>7 DEF Persist, Saved
  <2>2. pc' = [pc EXCEPT ![p] = "ready"] /\ stored' = temp[p] /\ policy' = policy
    BY <1>7 DEF Persist, Saved
  <2>3. temp[p] \subseteq policy[p]
    BY <1>7 DEF Persist
  <2>4. \A q \in Procs : pc[q] # "out" => q = p
    BY <1>7 DEF Persist
  <2> QED
    BY <2>1, <2>2, <2>3, <2>4
<1>8. ASSUME NEW p \in Procs, SaveFails(p) PROVE Alone'
  BY <1>8 DEF SaveFails, Saved
<1>9. ASSUME NEW p \in Procs, Leave(p) PROVE Alone'
  BY <1>9 DEF Leave
<1> QED
  BY <1>1, <1>2, <1>3, <1>4, <1>5, <1>6, <1>7, <1>8, <1>9 DEF Next

(* "Always allow" means from now on, through failed saves and deaths at    *)
(* any point, for any number of processes as long as no two are at work at *)
(* once.  The condition is needed: rules_lost shows two losing a rule.     *)
THEOREM FromNowOnUnsharedAlways == Spec => []FromNowOnUnshared
<1>1. Init => Safe /\ Alone
  BY InitSafe DEF Init, Alone
<1>2. (Safe /\ Alone) /\ [Next]_vars => (Safe /\ Alone)'
  BY SafeStep, AloneStep
<1>3. Safe /\ Alone => FromNowOnUnshared
  BY DEF Alone, FromNowOnUnshared, FromNowOn
<1> QED
  BY <1>1, <1>2, <1>3, PTL DEF Spec

-----------------------------------------------------------------------------
HttpCalls == INSTANCE Http WITH
        MaxPieces <- HttpPieces, api <- v1, phase <- v2, attempt <- v3, delay <- v4, requests <- v5,
        last <- v6, token <- v7, sent <- v8, how <- v9, pieces <- v10,
        tokens <- v11, complete <- v12, known <- v13, sawCall <- v14,
        usage <- v15, reason <- v16, out <- v17

ASSUME HttpAssumption == HttpPieces \in Nat /\ MaxRetries \in Nat /\ MaxDelay \in Nat

(* A request to a provider: a bounded number of attempts, and a stream     *)
(* that gives each call once, whatever the server sends and in what order. *)

(* What a sequence has of a set, when one is appended.                     *)
LEMMA ChosenIs ==
  ASSUME NEW s, NEW M, NEW j \in Nat
  PROVE  /\ IsFiniteSet(HttpCalls!Places(s, M, j))
         /\ HttpCalls!Chosen(s, M, j) = Cardinality(HttpCalls!Places(s, M, j))
         /\ HttpCalls!Chosen(s, M, j) \in Nat
<1>1. IsFiniteSet(1 .. j)
  BY FS_Interval
<1>2. IsFiniteSet(HttpCalls!Places(s, M, j))
  <2>1. HttpCalls!Places(s, M, j) \subseteq 1 .. j
    BY DEF HttpCalls!Places
  <2> QED
    BY <1>1, <2>1, FS_Subset
<1>3. HttpCalls!Chosen(s, M, j) = Cardinality(HttpCalls!Places(s, M, j))
  BY Zenon DEF HttpCalls!Chosen, HttpCalls!Cardinality, Cardinality
<1> QED
  BY <1>2, <1>3, FS_CardinalityType

LEMMA SelectsMore ==
  ASSUME NEW S, NEW s \in Seq(S), NEW M, NEW t \in Seq(M), HttpCalls!Selects(s, M, t), NEW e
  PROVE  /\ e \notin M => HttpCalls!Selects(Append(s, e), M, t)
         /\ e \in M => HttpCalls!Selects(Append(s, e), M, Append(t, e))
<1> DEFINE n == Len(s)
           u == Append(s, e)
           Of(j) == HttpCalls!Places(s, M, j)
           OfMore(j) == HttpCalls!Places(u, M, j)
<1>1. n \in Nat /\ DOMAIN s = 1 .. n
  OBVIOUS
<1>2. DOMAIN u = 1 .. (n + 1) /\ Len(u) = n + 1 /\ u[n + 1] = e /\ \A j \in 1 .. n : u[j] = s[j]
  OBVIOUS
<1> HIDE DEF n, u
<1>3. ASSUME NEW j \in 0 .. n PROVE HttpCalls!Chosen(u, M, j) = HttpCalls!Chosen(s, M, j)
  <2>1. Of(j) = OfMore(j)
    BY <1>1, <1>2 DEF HttpCalls!Places
  <2>2. j \in Nat
    BY <1>1
  <2> QED
    BY <2>1, <2>2, ChosenIs
<1>4. HttpCalls!Chosen(u, M, n + 1) = HttpCalls!Chosen(s, M, n) + (IF e \in M THEN 1 ELSE 0)
  <2>1. OfMore(n + 1) = IF e \in M THEN Of(n) \cup {n + 1} ELSE Of(n)
    BY <1>1, <1>2 DEF HttpCalls!Places
  <2>2. n + 1 \notin Of(n) /\ n + 1 \in Nat
    BY <1>1 DEF HttpCalls!Places
  <2>3. /\ IsFiniteSet(Of(n)) /\ HttpCalls!Chosen(s, M, n) = Cardinality(Of(n))
        /\ HttpCalls!Chosen(u, M, n + 1) = Cardinality(OfMore(n + 1))
        /\ HttpCalls!Chosen(s, M, n) \in Nat
    BY <1>1, <2>2, ChosenIs
  <2>4. Cardinality(Of(n) \cup {n + 1}) = Cardinality(Of(n)) + 1
    BY <2>2, <2>3, FS_AddElement
  <2> QED
    BY <2>1, <2>3, <2>4
<1>5. Len(t) = HttpCalls!Chosen(s, M, n) /\ \A j \in 1 .. n : s[j] \in M => s[j] = t[HttpCalls!Chosen(s, M, j)]
  BY <1>1 DEF HttpCalls!Selects, n
<1>6. ASSUME NEW j \in 1 .. n, s[j] \in M PROVE HttpCalls!Chosen(s, M, j) \in 1 .. Len(t)
  <2>1. Of(j) \subseteq Of(n) /\ j \in Of(j) /\ j \in Nat
    BY <1>1, <1>6 DEF HttpCalls!Places
  <2>2. /\ IsFiniteSet(Of(j)) /\ IsFiniteSet(Of(n)) /\ HttpCalls!Chosen(s, M, n) = Cardinality(Of(n))
        /\ HttpCalls!Chosen(s, M, j) = Cardinality(Of(j)) /\ HttpCalls!Chosen(s, M, j) \in Nat
    BY <1>1, <2>1, ChosenIs
  <2>3. Cardinality(Of(j)) <= Cardinality(Of(n)) /\ Cardinality(Of(j)) # 0
    BY <2>1, <2>2, FS_Subset, FS_EmptySet
  <2> QED
    BY <1>5, <2>2, <2>3
<1>7. ASSUME e \notin M PROVE HttpCalls!Selects(u, M, t)
  <2>1. HttpCalls!Chosen(s, M, n) \in Nat
    BY <1>1, ChosenIs
  <2>2. Len(t) = HttpCalls!Chosen(u, M, n + 1)
    BY <1>4, <1>5, <1>7, <2>1
  <2>3. \A j \in 1 .. (n + 1) : u[j] \in M => j \in 1 .. n
    BY <1>1, <1>2, <1>7
  <2>4. \A j \in 1 .. n : u[j] \in M => u[j] = t[HttpCalls!Chosen(u, M, j)]
    BY <1>1, <1>2, <1>3, <1>5
  <2> QED
    BY <1>2, <2>2, <2>3, <2>4 DEF HttpCalls!Selects
<1>8. ASSUME e \in M PROVE HttpCalls!Selects(u, M, Append(t, e))
  <2>1. HttpCalls!Chosen(u, M, n + 1) = Len(t) + 1
    BY <1>4, <1>5, <1>8
  <2>2. /\ Len(Append(t, e)) = Len(t) + 1 /\ Append(t, e)[Len(t) + 1] = e
        /\ \A i \in 1 .. Len(t) : Append(t, e)[i] = t[i]
    OBVIOUS
  <2>3. ASSUME NEW j \in 1 .. n, u[j] \in M PROVE u[j] = Append(t, e)[HttpCalls!Chosen(u, M, j)]
    BY <1>1, <1>2, <1>3, <1>5, <1>6, <2>2, <2>3
  <2>4. \A j \in 1 .. (n + 1) : j \in 1 .. n \/ j = n + 1
    BY <1>1
  <2> QED
    BY <1>2, <2>1, <2>2, <2>3, <2>4 DEF HttpCalls!Selects
<1> QED
  BY <1>7, <1>8 DEF u

(* What the stream has to say of a call, and what it says of others.       *)
LEMMA NotOf ==
  ASSUME NEW c
  PROVE  /\ \A x : <<"error", x>> \notin HttpCalls!Of(c) /\ <<"usage", x>> \notin HttpCalls!Of(c)
                   /\ <<"done", x>> \notin HttpCalls!Of(c)
         /\ <<"text">> \notin HttpCalls!Of(c)
         /\ \A d, k : d # c => /\ <<"start", d>> \notin HttpCalls!Of(c) /\ <<"end", d>> \notin HttpCalls!Of(c)
                               /\ <<"args", <<d, k>>>> \notin HttpCalls!Of(c)
<1>1. \A e \in HttpCalls!Of(c) :
        e[1] \in {"start", "end", "args"} /\ (e[2] = c \/ (e[1] = "args" /\ e[2][1] = c))
  BY DEF HttpCalls!Of
<1>2. <<"text">>[1] = "text" /\ \A x, y : <<x, y>>[1] = x /\ <<x, y>>[2] = y
  OBVIOUS
<1>3. /\ \A x : <<"error", x>> \notin HttpCalls!Of(c) /\ <<"usage", x>> \notin HttpCalls!Of(c)
                /\ <<"done", x>> \notin HttpCalls!Of(c)
      /\ <<"text">> \notin HttpCalls!Of(c)
  BY <1>1, <1>2
<1>4. ASSUME NEW d, NEW k, d # c
      PROVE  /\ <<"start", d>> \notin HttpCalls!Of(c) /\ <<"end", d>> \notin HttpCalls!Of(c)
             /\ <<"args", <<d, k>>>> \notin HttpCalls!Of(c)
  BY <1>4 DEF HttpCalls!Of
<1> QED
  BY <1>3, <1>4

LEMMA IsOf ==
  ASSUME NEW c
  PROVE  /\ <<"start", c>> \in HttpCalls!Of(c) /\ <<"end", c>> \in HttpCalls!Of(c)
         /\ \A k \in 0 .. HttpPieces : <<"args", <<c, k>>>> \in HttpCalls!Of(c)
BY DEF HttpCalls!Of

LEMMA ArgsIn ==
  ASSUME HttpCalls!HttpTypes, NEW c \in Calls
  PROVE  HttpCalls!Args(c) \in Seq(HttpCalls!Of(c))
<1>1. HttpPieces \in Nat /\ v10[c] \in 0 .. HttpPieces
  BY HttpAssumption DEF HttpCalls!HttpTypes
<1>2. \A k \in 1 .. v10[c] : <<"args", <<c, k>>>> \in HttpCalls!Of(c)
  <2>1. 1 .. v10[c] \subseteq 0 .. HttpPieces
    BY <1>1
  <2> QED
    BY <2>1, IsOf
<1>3. [k \in 1 .. v10[c] |-> <<"args", <<c, k>>>>] \in Seq(HttpCalls!Of(c))
  BY <1>1, <1>2
<1>4. HttpCalls!All(c) = <<c, 0>> /\ <<"args", <<c, 0>>>> \in HttpCalls!Of(c)
  <2>1. 0 \in 0 .. HttpPieces
    BY <1>1
  <2> QED
    BY <2>1, IsOf DEF HttpCalls!All
<1>5. \A e \in HttpCalls!Of(c) : <<e>> \in Seq(HttpCalls!Of(c))
  OBVIOUS
<1> QED
  BY <1>3, <1>4, <1>5 DEF HttpCalls!Args

LEMMA Joined ==
  ASSUME NEW S, NEW a \in S, NEW s \in Seq(S), NEW b \in S
  PROVE  /\ <<a>> \o s \o <<>> \in Seq(S) /\ <<a>> \o s \o <<b>> \in Seq(S)
         /\ <<a>> \o s \o <<b>> = Append(<<a>> \o s \o <<>>, b)
         /\ <<a>> \o Append(s, b) \o <<>> = Append(<<a>> \o s \o <<>>, b)
<1>1. <<a>> \in Seq(S) /\ <<b>> \in Seq(S)
  OBVIOUS
<1>2. <<a>> \o s \in Seq(S)
  BY <1>1
<1>3. <<a>> \o s \o <<>> = <<a>> \o s
  BY <1>2
<1>4. <<a>> \o s \o <<b>> = Append(<<a>> \o s, b)
  BY <1>2
<1>5. <<a>> \o Append(s, b) \in Seq(S) /\ <<a>> \o Append(s, b) = Append(<<a>> \o s, b)
  OBVIOUS
<1>6. <<a>> \o Append(s, b) \o <<>> = <<a>> \o Append(s, b)
  BY <1>5
<1> QED
  BY <1>2, <1>3, <1>4, <1>5, <1>6

LEMMA ToldIn ==
  ASSUME HttpCalls!HttpTypes, NEW c \in Calls
  PROVE  HttpCalls!Told(c) \in Seq(HttpCalls!Of(c))
<1>1. HttpCalls!Args(c) \in Seq(HttpCalls!Of(c)) /\ <<>> \in Seq(HttpCalls!Of(c))
  BY ArgsIn
<1>2. /\ <<<<"start", c>>>> \o HttpCalls!Args(c) \o <<>> \in Seq(HttpCalls!Of(c))
      /\ <<<<"start", c>>>> \o HttpCalls!Args(c) \o <<<<"end", c>>>> \in Seq(HttpCalls!Of(c))
  BY <1>1, IsOf, Joined
<1> QED
  BY <1>1, <1>2 DEF HttpCalls!Told

LEMMA ToldSame ==
  ASSUME NEW c, v8'[c] = v8[c] \/ (v8[c] = "finished" /\ v8'[c] = "closed"), v9'[c] = v9[c], v10'[c] = v10[c]
  PROVE  HttpCalls!Told(c)' = HttpCalls!Told(c)
<1>1. HttpCalls!Args(c)' = HttpCalls!Args(c)
  BY DEF HttpCalls!Args, HttpCalls!All
<1> QED
  BY <1>1 DEF HttpCalls!Told

LEMMA ToldStart ==
  ASSUME NEW c, v8[c] = "none", v8'[c] = "open", v10'[c] = 0, v9'[c] \in {"deltas", "start", "end"}
  PROVE  /\ HttpCalls!Told(c) = <<>>
         /\ HttpCalls!Told(c)' = IF v9'[c] = "start" THEN Append(Append(<<>>, <<"start", c>>), <<"args", HttpCalls!All(c)>>)
                                 ELSE Append(<<>>, <<"start", c>>)
<1>1. HttpCalls!Told(c) = <<>> /\ HttpCalls!Told(c)' = <<<<"start", c>>>> \o HttpCalls!Args(c)' \o <<>>
  BY DEF HttpCalls!Told
<1>2. HttpCalls!Args(c)' = IF v9'[c] = "start" THEN <<<<"args", HttpCalls!All(c)>>>> ELSE <<>>
  <2>1. [k \in 1 .. 0 |-> <<"args", <<c, k>>>>] = <<>>
    OBVIOUS
  <2>2. HttpCalls!All(c)' = HttpCalls!All(c)
    BY DEF HttpCalls!All
  <2> QED
    BY <2>1, <2>2 DEF HttpCalls!Args
<1>3. \A a, b : <<a>> \o <<>> \o <<>> = Append(<<>>, a) /\ <<a>> \o <<b>> \o <<>> = Append(Append(<<>>, a), b)
  OBVIOUS
<1> QED
  BY <1>1, <1>2, <1>3

LEMMA ToldDelta ==
  ASSUME HttpCalls!HttpTypes, NEW c \in Calls, v8[c] = "open", v8'[c] = "open", v9[c] = "deltas", v9'[c] = "deltas",
         v10[c] < HttpPieces, v10'[c] = v10[c] + 1
  PROVE  HttpCalls!Told(c)' = Append(HttpCalls!Told(c), <<"args", <<c, v10'[c]>>>>)
<1>1. HttpPieces \in Nat /\ v10[c] \in 0 .. HttpPieces
  BY HttpAssumption DEF HttpCalls!HttpTypes
<1>2. HttpCalls!Args(c)' = Append(HttpCalls!Args(c), <<"args", <<c, v10'[c]>>>>)
  <2>1. \A n \in Nat : [k \in 1 .. (n + 1) |-> <<"args", <<c, k>>>>]
                       = Append([k \in 1 .. n |-> <<"args", <<c, k>>>>], <<"args", <<c, n + 1>>>>)
    OBVIOUS
  <2> QED
    BY <1>1, <2>1 DEF HttpCalls!Args
<1>3. <<"args", <<c, v10'[c]>>>> \in HttpCalls!Of(c) /\ HttpCalls!Args(c) \in Seq(HttpCalls!Of(c))
  <2>1. v10'[c] \in 0 .. HttpPieces
    BY <1>1
  <2> QED
    BY <2>1, IsOf, ArgsIn
<1> QED
  BY <1>2, <1>3, IsOf, Joined DEF HttpCalls!Told

LEMMA ToldEnd ==
  ASSUME HttpCalls!HttpTypes, NEW c \in Calls, v8[c] = "open", v8'[c] \in {"finished", "closed"},
         v9'[c] = v9[c], v10'[c] = v10[c]
  PROVE  HttpCalls!Told(c)' = IF v9[c] = "end"
           THEN Append(Append(HttpCalls!Told(c), <<"args", HttpCalls!All(c)>>), <<"end", c>>)
           ELSE Append(HttpCalls!Told(c), <<"end", c>>)
<1>1. HttpCalls!Args(c) \in Seq(HttpCalls!Of(c)) /\ <<"args", HttpCalls!All(c)>> \in HttpCalls!Of(c)
  <2>1. 0 \in 0 .. HttpPieces
    BY HttpAssumption
  <2> QED
    BY <2>1, IsOf, ArgsIn DEF HttpCalls!All
<1>2. HttpCalls!Args(c)' = IF v9[c] = "end" THEN Append(HttpCalls!Args(c), <<"args", HttpCalls!All(c)>>)
                           ELSE HttpCalls!Args(c)
  <2>1. \A e : Append(<<>>, e) = <<e>>
    OBVIOUS
  <2> QED
    BY <2>1 DEF HttpCalls!Args, HttpCalls!All
<1>3. HttpCalls!Args(c)' \in Seq(HttpCalls!Of(c))
  BY <1>1, <1>2
<1>4. /\ HttpCalls!Told(c) = <<<<"start", c>>>> \o HttpCalls!Args(c) \o <<>>
      /\ HttpCalls!Told(c)' = <<<<"start", c>>>> \o HttpCalls!Args(c)' \o <<<<"end", c>>>>
  BY DEF HttpCalls!Told
<1>5. HttpCalls!Told(c)' = Append(<<<<"start", c>>>> \o HttpCalls!Args(c)' \o <<>>, <<"end", c>>)
  BY <1>3, <1>4, IsOf, Joined
<1>6. \A b \in HttpCalls!Of(c) : <<<<"start", c>>>> \o Append(HttpCalls!Args(c), b) \o <<>>
                                 = Append(<<<<"start", c>>>> \o HttpCalls!Args(c) \o <<>>, b)
  BY <1>1, IsOf, Joined
<1> QED
  BY <1>1, <1>2, <1>4, <1>5, <1>6

(* What the stream gives, after one more event or two.                     *)
LEMMA OwnSeq == ASSUME NEW S, NEW s \in Seq(S) PROVE s \in Seq({s[j] : j \in DOMAIN s})
OBVIOUS

LEMMA SeqMore == ASSUME NEW S, NEW s \in Seq(S), NEW T PROVE s \in Seq(S \cup T)
OBVIOUS

LEMMA GivenSame ==
  ASSUME HttpCalls!Given, v17' = v17, \A c \in Calls : HttpCalls!Told(c)' = HttpCalls!Told(c)
  PROVE  HttpCalls!Given'
BY DEF HttpCalls!Given

LEMMA GivenTwo ==
  ASSUME HttpCalls!HttpTypes, HttpCalls!Given, NEW e, NEW f, v17' = Append(Append(v17, e), f),
         \A c \in Calls :
           \/ /\ e \notin HttpCalls!Of(c) /\ f \notin HttpCalls!Of(c)
              /\ HttpCalls!Told(c)' = HttpCalls!Told(c)
           \/ /\ e \in HttpCalls!Of(c) /\ f \in HttpCalls!Of(c)
              /\ HttpCalls!Told(c)' = Append(Append(HttpCalls!Told(c), e), f)
  PROVE  HttpCalls!Given' /\ v17' \in Seq({v17'[j] : j \in DOMAIN v17'})
<1>1. PICK S : v17 \in Seq(S) /\ S = {v17[j] : j \in DOMAIN v17} \cup {e, f}
  BY SeqMore DEF HttpCalls!HttpTypes
<1>2. Append(v17, e) \in Seq(S) /\ Append(Append(v17, e), f) \in Seq(S)
  BY <1>1
<1>3. ASSUME NEW c \in Calls
      PROVE  HttpCalls!Selects(v17', HttpCalls!Of(c), HttpCalls!Told(c)')
  <2>1. HttpCalls!Selects(v17, HttpCalls!Of(c), HttpCalls!Told(c)) /\ HttpCalls!Told(c) \in Seq(HttpCalls!Of(c))
    BY ToldIn DEF HttpCalls!Given
  <2>2. CASE /\ e \notin HttpCalls!Of(c) /\ f \notin HttpCalls!Of(c)
             /\ HttpCalls!Told(c)' = HttpCalls!Told(c)
    <3>1. HttpCalls!Selects(Append(v17, e), HttpCalls!Of(c), HttpCalls!Told(c))
      BY <1>1, <2>1, <2>2, SelectsMore
    <3> QED
      BY <1>2, <2>1, <2>2, <3>1, SelectsMore
  <2>3. CASE /\ e \in HttpCalls!Of(c) /\ f \in HttpCalls!Of(c)
             /\ HttpCalls!Told(c)' = Append(Append(HttpCalls!Told(c), e), f)
    <3>1. HttpCalls!Selects(Append(v17, e), HttpCalls!Of(c), Append(HttpCalls!Told(c), e))
      BY <1>1, <2>1, <2>3, SelectsMore
    <3>2. Append(HttpCalls!Told(c), e) \in Seq(HttpCalls!Of(c))
      BY <2>1, <2>3
    <3> QED
      BY <1>2, <2>3, <3>1, <3>2, SelectsMore
  <2> QED
    BY <2>2, <2>3
<1>4. HttpCalls!Given'
  BY <1>3 DEF HttpCalls!Given, HttpCalls!Of
<1> QED
  BY <1>2, <1>4, OwnSeq

LEMMA GivenOne ==
  ASSUME HttpCalls!HttpTypes, HttpCalls!Given, NEW e, v17' = Append(v17, e),
         \A c \in Calls :
           \/ e \notin HttpCalls!Of(c) /\ HttpCalls!Told(c)' = HttpCalls!Told(c)
           \/ e \in HttpCalls!Of(c) /\ HttpCalls!Told(c)' = Append(HttpCalls!Told(c), e)
  PROVE  HttpCalls!Given' /\ v17' \in Seq({v17'[j] : j \in DOMAIN v17'})
<1>1. PICK S : v17 \in Seq(S) /\ S = {v17[j] : j \in DOMAIN v17} \cup {e}
  BY SeqMore DEF HttpCalls!HttpTypes
<1>2. Append(v17, e) \in Seq(S)
  BY <1>1
<1>3. ASSUME NEW c \in Calls
      PROVE  HttpCalls!Selects(v17', HttpCalls!Of(c), HttpCalls!Told(c)')
  <2>1. HttpCalls!Selects(v17, HttpCalls!Of(c), HttpCalls!Told(c)) /\ HttpCalls!Told(c) \in Seq(HttpCalls!Of(c))
    BY ToldIn DEF HttpCalls!Given
  <2> QED
    BY <1>1, <2>1, SelectsMore
<1>4. HttpCalls!Given'
  BY <1>3 DEF HttpCalls!Given, HttpCalls!Of
<1> QED
  BY <1>2, <1>4, OwnSeq

LEMMA HttpInit == HttpCalls!Init => HttpCalls!HttpKept
<1> SUFFICES ASSUME HttpCalls!Init PROVE HttpCalls!HttpKept
  OBVIOUS
<1>1. /\ v1 \in {"anthropic", "openai"} /\ v2 = "sending" /\ v3 = 0 /\ v4 = 0 /\ v5 = 0
      /\ v6 = [answer |-> "none", asked |-> 0, waited |-> 0]
      /\ v8 = [c \in Calls |-> "none"] /\ v9 = [c \in Calls |-> "deltas"]
      /\ v10 = [c \in Calls |-> 0] /\ v11 = 0 /\ v12 = FALSE
      /\ v13 = [c \in {} |-> {}] /\ v14 = FALSE /\ v15 = 0 /\ v16 = "none" /\ v17 = <<>>
  BY DEF HttpCalls!Init
<1>2. DOMAIN v13 = {} /\ 0 \in 0 .. HttpPieces
  BY <1>1, HttpAssumption
<1>3. HttpCalls!HttpTypes
  <2>1. v6 \in [answer : {"none", "ok", "busy", "refused", "unreachable", "broken"}, asked : Nat, waited : Nat]
    BY <1>1
  <2>2. v17 \in Seq({v17[j] : j \in DOMAIN v17})
    BY <1>1
  <2>3. /\ v8 \in [Calls -> {"none", "open", "finished", "closed"}] /\ v9 \in [Calls -> {"deltas", "start", "end"}]
        /\ v10 \in [Calls -> 0 .. HttpPieces]
    BY <1>1, <1>2
  <2> QED
    BY <1>1, <1>2, <2>1, <2>2, <2>3 DEF HttpCalls!HttpTypes
<1>4. HttpCalls!Attempts
  BY <1>1, HttpAssumption DEF HttpCalls!Attempts
<1>5. \A c \in Calls : HttpCalls!Knows(c)
  BY <1>1, <1>2 DEF HttpCalls!Knows
<1>6. ~HttpCalls!Done
  BY <1>1 DEF HttpCalls!Done
<1>7. HttpCalls!Counts
  BY <1>1, <1>6 DEF HttpCalls!Counts
<1>8. HttpCalls!Given
  <2>1. \A M : HttpCalls!Chosen(<<>>, M, 0) = 0
    <3>1. \A M : HttpCalls!Places(<<>>, M, 0) = {}
      BY DEF HttpCalls!Places
    <3> QED
      BY <3>1, ChosenIs, FS_EmptySet
  <2>2. \A c \in Calls : HttpCalls!Told(c) = <<>>
    BY <1>1 DEF HttpCalls!Told
  <2>3. Len(<<>>) = 0 /\ DOMAIN <<>> = {}
    OBVIOUS
  <2> QED
    BY <1>1, <2>1, <2>2, <2>3 DEF HttpCalls!Given, HttpCalls!Selects
<1> QED
  BY <1>3, <1>4, <1>5, <1>6, <1>7, <1>8 DEF HttpCalls!HttpKept, HttpCalls!AnswerWhole

(* Requests.                                                               *)
LEMMA RequestsCounted ==
  ASSUME HttpCalls!HttpTypes, HttpCalls!Attempts,
         \/ HttpCalls!Succeeds \/ HttpCalls!Busy \/ HttpCalls!Refused \/ HttpCalls!Unreachable
         \/ HttpCalls!Wait \/ HttpCalls!Cancelled \/ HttpCalls!Cancel
  PROVE  /\ HttpCalls!Attempts' /\ v2' \in {"sending", "waiting", "streaming", "ended"}
         /\ v3' \in Nat /\ v4' \in Nat /\ v5' \in Nat
         /\ v6' \in [answer : {"none", "ok", "busy", "refused", "unreachable", "broken"}, asked : Nat, waited : Nat]
<1> USE HttpAssumption
<1>1. /\ v3 \in Nat /\ v4 \in Nat /\ v5 \in Nat
      /\ v6 \in [answer : {"none", "ok", "busy", "refused", "unreachable", "broken"}, asked : Nat, waited : Nat]
      /\ v2 \in {"sending", "waiting", "streaming", "ended"}
  BY DEF HttpCalls!HttpTypes
<1>2. /\ v6.asked \in Nat /\ v6.waited \in Nat
      /\ v6.answer \in {"none", "ok", "busy", "refused", "unreachable", "broken"}
  BY <1>1
<1>3. ASSUME NEW answer \in {"busy", "refused", "unreachable", "broken"}, NEW asked \in Nat,
             HttpCalls!Asked(answer, asked)
      PROVE  /\ v5' = v5 + 1 /\ v6'.answer = answer /\ v6'.asked = asked /\ v6'.waited = 0
             /\ v6' \in [answer : {"none", "ok", "busy", "refused", "unreachable", "broken"}, asked : Nat, waited : Nat]
  BY <1>3 DEF HttpCalls!Asked
<1>4. ASSUME NEW answer \in {"busy", "refused", "unreachable", "broken"}, NEW asked \in Nat,
             HttpCalls!Asked(answer, asked), v2 = "sending", v2' = "ended", v3' = v3, v4' = v4
      PROVE  HttpCalls!Attempts' /\ v5' \in Nat
  <2>1. v5' = v5 + 1 /\ v6'.waited = 0
    BY <1>3, <1>4
  <2> QED
    BY <1>1, <1>4, <2>1 DEF HttpCalls!Attempts
<1>5. ASSUME NEW answer \in {"busy", "unreachable"}, NEW asked \in Nat, NEW delays,
             HttpCalls!Asked(answer, asked), v2 = "sending", ~HttpCalls!GivesUp, HttpCalls!Retry(delays),
             \A d \in delays : d \in 0 .. MaxDelay /\ HttpCalls!Least(asked, MaxDelay) <= d
      PROVE  HttpCalls!Attempts' /\ v2' = "waiting" /\ v3' \in Nat /\ v4' \in Nat /\ v5' \in Nat
  <2>1. v5' = v5 + 1 /\ v6'.waited = 0 /\ v6'.asked = asked /\ v6'.answer = answer
    BY <1>3, <1>5
  <2>2. v2' = "waiting" /\ v3' = v3 + 1 /\ v4' \in 0 .. MaxDelay /\ HttpCalls!Least(asked, MaxDelay) <= v4'
    BY <1>5 DEF HttpCalls!Retry
  <2>3. v3 < MaxRetries /\ v5 = v3
    BY <1>1, <1>5 DEF HttpCalls!GivesUp, HttpCalls!Attempts
  <2>4. v4' \in Nat /\ v4' <= MaxDelay /\ v6'.waited + v4' = v4'
    <3>1. v4' \in Nat /\ v4' <= MaxDelay
      BY <2>2
    <3>2. \A n \in Nat : 0 + n = n
      OBVIOUS
    <3>3. v6'.waited = 0
      BY <2>1
    <3>4. v6'.waited + v4' = v4'
      BY <3>1, <3>2, <3>3, Zenon
    <3> QED
      BY <3>1, <3>4
  <2>5. HttpCalls!Least(v6.asked, MaxDelay)' = HttpCalls!Least(asked, MaxDelay)
    BY <2>1 DEF HttpCalls!Least
  <2>6. /\ HttpCalls!Least(v6.asked, MaxDelay)' <= v6'.waited + v4' /\ v6'.waited + v4' <= MaxDelay
        /\ v6'.waited <= MaxDelay
    <3>1. HttpCalls!Least(v6.asked, MaxDelay)' <= v6'.waited + v4'
      BY <2>2, <2>4, <2>5, Zenon
    <3>2. v6'.waited + v4' <= MaxDelay
      BY <2>4, Zenon
    <3>3. 0 <= MaxDelay
      OBVIOUS
    <3>4. v6'.waited <= MaxDelay
      BY <2>1, <3>3, Zenon
    <3> QED
      BY <3>1, <3>2, <3>4
  <2>7. v5' = v3' /\ v3' <= MaxRetries /\ v5' > 0 /\ v5' <= MaxRetries + 1 /\ v5' \in Nat /\ v3' \in Nat
    BY <1>1, <2>1, <2>2, <2>3
  <2>8. v6'.answer \in {"busy", "unreachable"}
    BY <2>1
  <2> QED
    BY <2>2, <2>4, <2>6, <2>7, <2>8 DEF HttpCalls!Attempts
<1>6. \A d \in HttpCalls!Backoff : d \in 0 .. MaxDelay
  BY Zenon DEF HttpCalls!Backoff
<1>7. /\ \A d \in 0 .. MaxDelay : HttpCalls!Least(0, MaxDelay) <= d
      /\ \A asked \in Nat : HttpCalls!Least(asked, MaxDelay) \in 0 .. MaxDelay
  BY DEF HttpCalls!Least
<1>8. CASE HttpCalls!Succeeds
  <2>1. /\ v2' = "streaming" /\ v3' = 0 /\ v5' = 0 /\ v4' = v4
        /\ v6' = [answer |-> "ok", asked |-> 0, waited |-> 0]
    <3>1. v6' = [v6 EXCEPT !.answer = "ok", !.waited = 0, !.asked = 0]
      BY <1>8 DEF HttpCalls!Succeeds
    <3> QED
      BY <1>1, <1>8, <3>1 DEF HttpCalls!Succeeds
  <2>2. v6'.waited = 0
    BY <2>1
  <2> QED
    BY <1>1, <2>1, <2>2 DEF HttpCalls!Attempts
<1>9. CASE HttpCalls!Busy
  <2>1. PICK asked \in {0, 1, MaxDelay + 1} :
          /\ HttpCalls!Asked("busy", asked)
          /\ IF HttpCalls!GivesUp THEN HttpCalls!Fails("status")
             ELSE HttpCalls!Retry(IF asked > 0 THEN {HttpCalls!RetryAfter(asked)} ELSE HttpCalls!Backoff)
    BY <1>9 DEF HttpCalls!Busy
  <2>2. v2 = "sending" /\ asked \in Nat
    BY <1>9 DEF HttpCalls!Busy
  <2>3. CASE HttpCalls!GivesUp
    <3>1. v2' = "ended" /\ v3' = v3 /\ v4' = v4
      BY <2>1, <2>3 DEF HttpCalls!Fails
    <3> QED
      BY <1>1, <1>3, <1>4, <2>1, <2>2, <3>1
  <2>4. CASE ~HttpCalls!GivesUp
    <3> DEFINE delays == IF asked > 0 THEN {HttpCalls!RetryAfter(asked)} ELSE HttpCalls!Backoff
    <3>1. \A d \in delays : d \in 0 .. MaxDelay /\ HttpCalls!Least(asked, MaxDelay) <= d
      <4>1. HttpCalls!RetryAfter(asked) = HttpCalls!Least(asked, MaxDelay)
        BY DEF HttpCalls!RetryAfter
      <4>2. HttpCalls!Least(asked, MaxDelay) <= HttpCalls!Least(asked, MaxDelay)
        BY <1>7, <2>2
      <4>3. asked > 0 \/ asked = 0
        BY <2>2
      <4> QED
        BY <1>6, <1>7, <2>2, <4>1, <4>2, <4>3
    <3>2. HttpCalls!Retry(delays)
      BY <2>1, <2>4
    <3> HIDE DEF delays
    <3> QED
      BY <1>3, <1>5, <2>1, <2>2, <2>4, <3>1, <3>2
  <2> QED
    BY <2>3, <2>4
<1>10. CASE HttpCalls!Refused
  <2>1. v2 = "sending" /\ v2' = "ended" /\ v3' = v3 /\ v4' = v4 /\ HttpCalls!Asked("refused", 0)
    BY <1>10 DEF HttpCalls!Refused, HttpCalls!Fails
  <2> QED
    BY <1>1, <1>3, <1>4, <2>1
<1>11. CASE HttpCalls!Unreachable
  <2>1. v2 = "sending"
    BY <1>11 DEF HttpCalls!Unreachable
  <2>2. CASE HttpCalls!Asked("unreachable", 0) /\ HttpCalls!GivesUp /\ HttpCalls!Fails("network")
    <3>1. v2' = "ended" /\ v3' = v3 /\ v4' = v4
      BY <2>2 DEF HttpCalls!Fails
    <3> QED
      BY <1>1, <1>3, <1>4, <2>1, <2>2, <3>1
  <2>3. CASE HttpCalls!Asked("unreachable", 0) /\ ~HttpCalls!GivesUp /\ HttpCalls!Retry(HttpCalls!Backoff)
    <3>1. \A d \in HttpCalls!Backoff : d \in 0 .. MaxDelay /\ HttpCalls!Least(0, MaxDelay) <= d
      BY <1>6, <1>7
    <3> QED
      BY <1>3, <1>5, <2>1, <2>3, <3>1
  <2>4. CASE HttpCalls!Asked("broken", 0) /\ HttpCalls!Fails("network")
    <3>1. v2' = "ended" /\ v3' = v3 /\ v4' = v4
      BY <2>4 DEF HttpCalls!Fails
    <3> QED
      BY <1>1, <1>3, <1>4, <2>1, <2>4, <3>1
  <2> QED
    BY <1>11, <2>2, <2>3, <2>4 DEF HttpCalls!Unreachable
<1>12. CASE HttpCalls!Wait
  <2>1. v2 = "waiting" /\ v3' = v3 /\ v5' = v5
    BY <1>12 DEF HttpCalls!Wait
  <2>2. CASE v4 > 0
    <3>1. v2' = v2 /\ v4' = v4 - 1 /\ v6' = [answer |-> v6.answer, asked |-> v6.asked, waited |-> v6.waited + 1]
      <4>1. v6' = [v6 EXCEPT !.waited = v6.waited + 1]
        BY <1>12, <2>2 DEF HttpCalls!Wait
      <4> QED
        BY <1>1, <1>12, <2>2, <4>1 DEF HttpCalls!Wait
    <3>2. v6'.answer = v6.answer /\ v6'.asked = v6.asked /\ v6'.waited = v6.waited + 1
      BY <3>1
    <3>3. v4' \in Nat /\ v6'.waited + v4' = v6.waited + v4
      BY <1>1, <1>2, <2>2, <3>1, <3>2
    <3>4. v5 > 0
      BY <1>1, <1>2, <2>1, <2>2 DEF HttpCalls!Attempts
    <3>5. v6' \in [answer : {"none", "ok", "busy", "refused", "unreachable", "broken"}, asked : Nat, waited : Nat]
      BY <1>2, <3>1
    <3>6. HttpCalls!Least(v6.asked, MaxDelay)' = HttpCalls!Least(v6.asked, MaxDelay)
      BY <3>2 DEF HttpCalls!Least
    <3> QED
      BY <1>1, <1>2, <2>1, <2>2, <3>1, <3>2, <3>3, <3>4, <3>5, <3>6 DEF HttpCalls!Attempts
  <2>3. CASE v4 = 0
    <3>1. v2' = "sending" /\ v4' = v4 /\ v6' = v6
      BY <1>12, <2>3 DEF HttpCalls!Wait
    <3>2. HttpCalls!Least(v6.asked, MaxDelay)' = HttpCalls!Least(v6.asked, MaxDelay)
      BY <3>1 DEF HttpCalls!Least
    <3> QED
      BY <1>1, <1>2, <2>1, <2>3, <3>1, <3>2 DEF HttpCalls!Attempts
  <2> QED
    BY <1>1, <2>2, <2>3
<1>13. CASE HttpCalls!Cancelled \/ HttpCalls!Cancel
  <2>1. v3' = v3 /\ v4' = v4 /\ v5' = v5 /\ v6' = v6 /\ (v2' = v2 \/ v2' = "ended")
    BY <1>13 DEF HttpCalls!Cancelled, HttpCalls!Cancel, HttpCalls!sending
  <2>2. HttpCalls!Least(v6.asked, MaxDelay)' = HttpCalls!Least(v6.asked, MaxDelay)
    BY <2>1 DEF HttpCalls!Least
  <2> QED
    BY <1>1, <2>1, <2>2 DEF HttpCalls!Attempts
<1> QED
  BY <1>8, <1>9, <1>10, <1>11, <1>12, <1>13

(* Events given.                                                           *)
LEMMA Yields ==
  ASSUME HttpCalls!HttpTypes
  PROVE  /\ \A e : HttpCalls!Yield(<<e>>) => v17' = Append(v17, e)
         /\ \A e, f : HttpCalls!Yield(<<e, f>>) => v17' = Append(Append(v17, e), f)
         /\ \A e, f : HttpCalls!Yield(<<e>> \o <<f>>) => v17' = Append(Append(v17, e), f)
         /\ \A e : HttpCalls!Yield(<<e>> \o <<>>) => v17' = Append(v17, e)
         /\ \A e : HttpCalls!Yield(<<>> \o <<e>>) => v17' = Append(v17, e)
<1>1. v17 \in Seq({v17[j] : j \in DOMAIN v17})
  BY DEF HttpCalls!HttpTypes
<1>2. ASSUME NEW S, NEW s \in Seq(S)
      PROVE  /\ \A e : s \o <<e>> = Append(s, e)
             /\ \A e, f : s \o <<e, f>> = Append(Append(s, e), f)
  OBVIOUS
<1>3. /\ \A e, f : <<e>> \o <<f>> = <<e, f>>
      /\ \A e : <<e>> \o <<>> = <<e>> /\ <<>> \o <<e>> = <<e>>
  <2>1. ASSUME NEW e, NEW f PROVE <<e>> \o <<f>> = <<e, f>>
    <3>1. <<e>> \in Seq({e, f}) /\ <<f>> \in Seq({e, f})
      OBVIOUS
    <3>2. <<e>> \o <<f>> = Append(<<e>>, f)
      BY <3>1
    <3>3. <<e, f>> = Append(<<e>>, f)
      OBVIOUS
    <3> QED
      BY <3>2, <3>3, Zenon
  <2>2. ASSUME NEW S, NEW s \in Seq(S) PROVE s \o <<>> = s /\ <<>> \o s = s
    OBVIOUS
  <2>3. ASSUME NEW e PROVE <<e>> \in Seq({e})
    OBVIOUS
  <2> QED
    BY <2>1, <2>2, <2>3
<1> QED
  BY <1>1, <1>2, <1>3 DEF HttpCalls!Yield

LEMMA DoneAfter ==
  ASSUME HttpCalls!HttpTypes
  PROVE  /\ \A e : v17' = Append(v17, e) =>
              /\ HttpCalls!Last(v17)' = e
              /\ HttpCalls!Done' = (e[1] = "done")
         /\ \A e, f : v17' = Append(Append(v17, e), f) =>
              /\ HttpCalls!Last(v17)' = f /\ v17'[Len(v17') - 1] = e
              /\ HttpCalls!Done' = (f[1] = "done")
<1>1. v17 \in Seq({v17[j] : j \in DOMAIN v17})
  BY DEF HttpCalls!HttpTypes
<1>2. ASSUME NEW S, NEW s \in Seq(S)
      PROVE  /\ \A e : Append(s, e)[Len(Append(s, e))] = e /\ Append(s, e) # <<>>
             /\ \A e, f : /\ Append(Append(s, e), f)[Len(Append(Append(s, e), f))] = f
                          /\ Append(Append(s, e), f) # <<>>
                          /\ Append(Append(s, e), f)[Len(Append(Append(s, e), f)) - 1] = e
  <2>1. \A e : Append(s, e)[Len(Append(s, e))] = e /\ Append(s, e) # <<>>
    OBVIOUS
  <2>2. ASSUME NEW e, NEW f
        PROVE  /\ Append(Append(s, e), f)[Len(Append(Append(s, e), f))] = f
               /\ Append(Append(s, e), f) # <<>>
               /\ Append(Append(s, e), f)[Len(Append(Append(s, e), f)) - 1] = e
    <3>1. Append(s, e) \in Seq(S \cup {e, f}) /\ Len(Append(s, e)) = Len(s) + 1 /\ Len(s) \in Nat
      OBVIOUS
    <3>2. /\ Len(Append(Append(s, e), f)) = Len(s) + 2
          /\ Append(Append(s, e), f)[Len(s) + 2] = f
          /\ Append(Append(s, e), f)[Len(s) + 1] = Append(s, e)[Len(s) + 1]
          /\ Append(Append(s, e), f) # <<>>
      BY <3>1
    <3> QED
      BY <2>1, <3>1, <3>2
  <2> QED
    BY <2>1, <2>2
<1>3. ASSUME NEW e, v17' = Append(v17, e)
      PROVE  HttpCalls!Last(v17)' = e /\ HttpCalls!Done' = (e[1] = "done")
  <2>1. HttpCalls!Last(v17)' = e /\ v17' # <<>>
    BY <1>1, <1>2, <1>3 DEF HttpCalls!Last
  <2> QED
    BY <2>1 DEF HttpCalls!Done
<1>4. ASSUME NEW e, NEW f, v17' = Append(Append(v17, e), f)
      PROVE  /\ HttpCalls!Last(v17)' = f /\ v17'[Len(v17') - 1] = e
             /\ HttpCalls!Done' = (f[1] = "done")
  <2>1. HttpCalls!Last(v17)' = f /\ v17'[Len(v17') - 1] = e /\ v17' # <<>>
    BY <1>1, <1>2, <1>4 DEF HttpCalls!Last
  <2> QED
    BY <2>1 DEF HttpCalls!Done
<1> QED
  BY <1>3, <1>4

LEMMA HttpSends ==
  ASSUME HttpCalls!HttpKept,
         \/ HttpCalls!Succeeds \/ HttpCalls!Busy \/ HttpCalls!Refused \/ HttpCalls!Unreachable
         \/ HttpCalls!Wait \/ HttpCalls!Cancelled \/ HttpCalls!Cancel
  PROVE  HttpCalls!HttpKept'
<1> USE DEF HttpCalls!HttpKept, HttpCalls!AnswerWhole
<1>1. /\ v1' = v1 /\ v8' = v8 /\ v9' = v9 /\ v10' = v10 /\ v11' = v11 /\ v12' = v12 /\ v13' = v13
      /\ v14' = v14 /\ v15' = v15 /\ v16' = v16 /\ v2 # "ended"
  BY DEF HttpCalls!Succeeds, HttpCalls!Busy, HttpCalls!Refused, HttpCalls!Unreachable, HttpCalls!Wait,
     HttpCalls!Cancelled, HttpCalls!Cancel, HttpCalls!server, HttpCalls!decoder
<1>2. \/ v17' = v17
      \/ v17 = <<>> /\ v2' = "ended" /\ \E x : v17' = <<<<"error", x>>>>
  <2>1. v2 \in {"sending", "waiting"} => v17 = <<>>
    BY DEF HttpCalls!HttpTypes
  <2>2. \A x : HttpCalls!Fails(x) => v2' = "ended" /\ v17' = <<<<"error", x>>>>
    BY DEF HttpCalls!Fails
  <2>3. \A d : HttpCalls!Retry(d) => v17' = v17
    BY DEF HttpCalls!Retry
  <2>4. CASE HttpCalls!Busy
    BY <2>1, <2>2, <2>3, <2>4 DEF HttpCalls!Busy
  <2>5. CASE HttpCalls!Refused
    BY <2>1, <2>2, <2>5 DEF HttpCalls!Refused
  <2>6. CASE HttpCalls!Unreachable
    BY <2>1, <2>2, <2>3, <2>6 DEF HttpCalls!Unreachable
  <2>7. CASE HttpCalls!Cancelled
    BY <2>1, <2>7 DEF HttpCalls!Cancelled, HttpCalls!HttpTypes
  <2>8. CASE HttpCalls!Succeeds \/ HttpCalls!Wait \/ HttpCalls!Cancel
    BY <2>8 DEF HttpCalls!Succeeds, HttpCalls!Wait, HttpCalls!Cancel
  <2> QED
    BY <2>4, <2>5, <2>6, <2>7, <2>8
<1>3. /\ HttpCalls!Attempts' /\ v2' \in {"sending", "waiting", "streaming", "ended"}
      /\ v3' \in Nat /\ v4' \in Nat /\ v5' \in Nat
      /\ v6' \in [answer : {"none", "ok", "busy", "refused", "unreachable", "broken"}, asked : Nat, waited : Nat]
  BY RequestsCounted
<1>4. v2' \in {"sending", "waiting"} => v2 \in {"sending", "waiting"}
  BY DEF HttpCalls!Succeeds, HttpCalls!Busy, HttpCalls!Refused, HttpCalls!Unreachable, HttpCalls!Wait,
     HttpCalls!Cancelled, HttpCalls!Cancel, HttpCalls!sending
<1>5. \A c \in Calls : HttpCalls!Told(c)' = HttpCalls!Told(c)
  BY <1>1, ToldSame
<1>6. HttpCalls!Given' /\ v17' \in Seq({v17'[j] : j \in DOMAIN v17'}) /\ ~HttpCalls!Done'
  <2>1. ~HttpCalls!Done
    BY <1>1 DEF HttpCalls!Counts
  <2>2. CASE v17' = v17
    <3>1. ~HttpCalls!Done'
      BY <2>1, <2>2 DEF HttpCalls!Done, HttpCalls!Last
    <3> QED
      BY <1>5, <2>2, <3>1, GivenSame DEF HttpCalls!HttpTypes
  <2>3. ASSUME NEW x, v17 = <<>>, v17' = <<<<"error", x>>>>
        PROVE  HttpCalls!Given' /\ v17' \in Seq({v17'[j] : j \in DOMAIN v17'}) /\ ~HttpCalls!Done'
    <3> DEFINE e == <<"error", x>>
    <3>1. e[1] = "error" /\ \A c : e \notin HttpCalls!Of(c)
      BY NotOf
    <3> HIDE DEF e
    <3>2. v17' = Append(v17, e)
      BY <2>3 DEF e
    <3> QED
      BY <1>5, <3>1, <3>2, GivenOne, DoneAfter
  <2> QED
    BY <1>2, <2>2, <2>3
<1>7. HttpCalls!HttpTypes'
  BY <1>1, <1>2, <1>3, <1>4, <1>6 DEF HttpCalls!HttpTypes
<1>8. \A c \in Calls : HttpCalls!Knows(c)'
  BY <1>1 DEF HttpCalls!Knows
<1>9. HttpCalls!Counts'
  BY <1>1, <1>6 DEF HttpCalls!Counts, HttpCalls!OpenCalls
<1> QED
  BY <1>3, <1>6, <1>7, <1>8, <1>9

(* A step of the stream.                                                   *)
LEMMA StreamKept ==
  ASSUME HttpCalls!HttpKept, v2 = "streaming", HttpCalls!Stays,
         v8' \in [Calls -> {"none", "open", "finished", "closed"}],
         v9' \in [Calls -> {"deltas", "start", "end"}], v10' \in [Calls -> 0 .. HttpPieces],
         v11' \in Nat, v12' \in BOOLEAN, v14' \in BOOLEAN, v16' \in {"none", "cut", "tool_use", "end_turn"},
         \A c \in DOMAIN v13' : v13'[c] \in [delta : BOOLEAN, ended : BOOLEAN],
         \A c \in Calls : HttpCalls!Knows(c)',
         v14' = (\E c \in Calls : v8'[c] # "none"),
         IF v1 = "anthropic"
         THEN /\ v15' = v11' /\ v12' = (v16' # "none")
              /\ v12' => HttpCalls!OpenCalls' = {} /\ v16' \in {"cut", IF v14' THEN "tool_use" ELSE "end_turn"}
         ELSE v16' = "none",
         HttpCalls!Given', v17' \in Seq({v17'[j] : j \in DOMAIN v17'}), ~HttpCalls!Done'
  PROVE  HttpCalls!HttpKept'
<1> USE DEF HttpCalls!HttpKept, HttpCalls!AnswerWhole
<1>1. v1' = v1 /\ v2' = v2 /\ v3' = v3 /\ v4' = v4 /\ v5' = v5 /\ v6' = v6 /\ v7' = v7
  BY DEF HttpCalls!Stays
<1>2. HttpCalls!HttpTypes'
  BY <1>1 DEF HttpCalls!HttpTypes
<1>3. HttpCalls!Attempts'
  BY <1>1 DEF HttpCalls!Attempts, HttpCalls!Least
<1>4. HttpCalls!Counts'
  BY <1>1 DEF HttpCalls!Counts
<1> QED
  BY <1>2, <1>3, <1>4

LEMMA TextSent == HttpCalls!HttpKept /\ HttpCalls!SendText => HttpCalls!HttpKept'
<1> SUFFICES ASSUME HttpCalls!HttpKept, HttpCalls!SendText PROVE HttpCalls!HttpKept'
  OBVIOUS
<1> USE DEF HttpCalls!HttpKept, HttpCalls!AnswerWhole
<1>1. /\ v2 = "streaming" /\ HttpCalls!Stays /\ v11' = 1 /\ v12 = FALSE
      /\ v8' = v8 /\ v9' = v9 /\ v10' = v10 /\ v12' = v12 /\ v13' = v13 /\ v14' = v14 /\ v16' = v16
      /\ v1 = "anthropic" => v15' = 1
      /\ HttpCalls!Yield(<<<<"text">>>>)
  BY DEF HttpCalls!SendText, HttpCalls!Streaming, HttpCalls!UpdateUsage, HttpCalls!HttpTypes
<1>2. v17' = Append(v17, <<"text">>)
  BY <1>1, Yields
<1>3. \A c \in Calls : HttpCalls!Told(c)' = HttpCalls!Told(c)
  BY <1>1, ToldSame
<1>4. HttpCalls!Given' /\ v17' \in Seq({v17'[j] : j \in DOMAIN v17'})
  BY <1>2, <1>3, NotOf, GivenOne
<1>5. ~HttpCalls!Done'
  <2>1. <<"text">>[1] = "text"
    OBVIOUS
  <2> QED
    BY <1>2, <2>1, DoneAfter
<1>6. HttpCalls!Stays => v1' = v1
  BY DEF HttpCalls!Stays
<1>7. \A c \in Calls : HttpCalls!Knows(c)'
  BY <1>1, <1>6 DEF HttpCalls!Knows
<1>8. /\ v8' \in [Calls -> {"none", "open", "finished", "closed"}]
      /\ v9' \in [Calls -> {"deltas", "start", "end"}] /\ v10' \in [Calls -> 0 .. HttpPieces]
      /\ v11' \in Nat /\ v12' \in BOOLEAN /\ v14' \in BOOLEAN /\ v16' \in {"none", "cut", "tool_use", "end_turn"}
      /\ \A c \in DOMAIN v13' : v13'[c] \in [delta : BOOLEAN, ended : BOOLEAN]
  BY <1>1 DEF HttpCalls!HttpTypes
<1>9. /\ v14' = (\E c \in Calls : v8'[c] # "none")
      /\ IF v1 = "anthropic"
         THEN /\ v15' = v11' /\ v12' = (v16' # "none")
              /\ v12' => HttpCalls!OpenCalls' = {} /\ v16' \in {"cut", IF v14' THEN "tool_use" ELSE "end_turn"}
         ELSE v16' = "none"
  BY <1>1 DEF HttpCalls!Counts
<1> QED
  BY <1>1, <1>4, <1>5, <1>7, <1>8, <1>9, StreamKept

LEMMA ReasonSent == HttpCalls!HttpKept /\ HttpCalls!SendReason => HttpCalls!HttpKept'
<1> SUFFICES ASSUME HttpCalls!HttpKept, HttpCalls!SendReason PROVE HttpCalls!HttpKept'
  OBVIOUS
<1> USE DEF HttpCalls!HttpKept, HttpCalls!AnswerWhole
<1>1. /\ v2 = "streaming" /\ HttpCalls!Stays /\ v1 = "anthropic" /\ HttpCalls!OpenCalls = {}
      /\ v11' = v11 + 1 /\ v15' = v11' /\ v12' = TRUE /\ v17' = v17
      /\ v16' \in {"cut", IF v14 THEN "tool_use" ELSE "end_turn"}
      /\ v8' = v8 /\ v9' = v9 /\ v10' = v10 /\ v13' = v13 /\ v14' = v14
  BY DEF HttpCalls!SendReason, HttpCalls!Streaming, HttpCalls!UpdateUsage
<1>2. \A c \in Calls : HttpCalls!Told(c)' = HttpCalls!Told(c)
  BY <1>1, ToldSame
<1>3. HttpCalls!Given' /\ v17' \in Seq({v17'[j] : j \in DOMAIN v17'})
  BY <1>1, <1>2, GivenSame DEF HttpCalls!HttpTypes
<1>4. ~HttpCalls!Done'
  BY <1>1 DEF HttpCalls!Done, HttpCalls!Last, HttpCalls!Counts
<1>5. HttpCalls!Stays => v1' = v1
  BY DEF HttpCalls!Stays
<1>6. \A c \in Calls : HttpCalls!Knows(c)'
  BY <1>1, <1>5 DEF HttpCalls!Knows
<1>7. /\ v8' \in [Calls -> {"none", "open", "finished", "closed"}]
      /\ v9' \in [Calls -> {"deltas", "start", "end"}] /\ v10' \in [Calls -> 0 .. HttpPieces]
      /\ v11' \in Nat /\ v12' \in BOOLEAN /\ v14' \in BOOLEAN /\ v16' \in {"none", "cut", "tool_use", "end_turn"}
      /\ \A c \in DOMAIN v13' : v13'[c] \in [delta : BOOLEAN, ended : BOOLEAN]
  BY <1>1 DEF HttpCalls!HttpTypes
<1>8. /\ v14' = (\E c \in Calls : v8'[c] # "none")
      /\ v15' = v11' /\ v12' = (v16' # "none") /\ HttpCalls!OpenCalls' = {}
      /\ v16' \in {"cut", IF v14' THEN "tool_use" ELSE "end_turn"}
  BY <1>1 DEF HttpCalls!Counts, HttpCalls!OpenCalls
<1> QED
  BY <1>1, <1>3, <1>4, <1>6, <1>7, <1>8, StreamKept

(* A call begins, goes on and ends.                                        *)
LEMMA CallStarted ==
  ASSUME HttpCalls!HttpKept, NEW c \in Calls, HttpCalls!StartCall(c)
  PROVE  HttpCalls!HttpKept'
<1> USE DEF HttpCalls!HttpKept, HttpCalls!AnswerWhole
<1>1. /\ v2 = "streaming" /\ HttpCalls!Stays /\ v12 = FALSE /\ v8[c] = "none"
      /\ v8' = [v8 EXCEPT ![c] = "open"] /\ v10' = v10 /\ v11' = v11 /\ v12' = v12
      /\ v14' = TRUE /\ v15' = v15 /\ v16' = v16
  BY DEF HttpCalls!StartCall, HttpCalls!Streaming, HttpCalls!DecodeStart, HttpCalls!HttpTypes
<1>2. PICK h \in {"deltas", "start", "end"} : v9' = [v9 EXCEPT ![c] = h] /\ (v1 = "anthropic" => h # "end")
  BY DEF HttpCalls!StartCall
<1>3. /\ v8 \in [Calls -> {"none", "open", "finished", "closed"}]
      /\ v9 \in [Calls -> {"deltas", "start", "end"}] /\ v10 \in [Calls -> 0 .. HttpPieces]
  BY DEF HttpCalls!HttpTypes
<1>4. /\ v8'[c] = "open" /\ v9'[c] = h
      /\ \A d \in Calls : d # c => v8'[d] = v8[d] /\ v9'[d] = v9[d]
  BY <1>1, <1>2, <1>3
<1>5. v10[c] = 0
  BY <1>1, <1>3, HttpAssumption DEF HttpCalls!Knows
<1>6. v13' = [d \in DOMAIN v13 \cup {c} |-> IF d = c THEN [delta |-> (h = "start"), ended |-> FALSE] ELSE v13[d]]
  BY <1>4 DEF HttpCalls!StartCall, HttpCalls!DecodeStart, HttpCalls!Know
<1>7. /\ DOMAIN v13' = DOMAIN v13 \cup {c} /\ v13'[c] = [delta |-> (h = "start"), ended |-> FALSE]
      /\ \A d \in DOMAIN v13 : d # c => v13'[d] = v13[d]
  BY <1>6
<1>8. /\ h = "start" => v17' = Append(Append(v17, <<"start", c>>), <<"args", HttpCalls!All(c)>>)
      /\ h # "start" => v17' = Append(v17, <<"start", c>>)
  <2>1. HttpCalls!Yield(<<<<"start", c>>>> \o (IF h = "start" THEN <<<<"args", HttpCalls!All(c)>>>> ELSE <<>>))
    BY <1>4, Zenon DEF HttpCalls!StartCall, HttpCalls!DecodeStart
  <2>2. /\ h = "start" => HttpCalls!Yield(<<<<"start", c>>>> \o <<<<"args", HttpCalls!All(c)>>>>)
        /\ h # "start" => HttpCalls!Yield(<<<<"start", c>>>> \o <<>>)
    BY <2>1, Zenon
  <2> QED
    BY <2>2, Yields
<1>9. /\ HttpCalls!Told(c) = <<>>
      /\ HttpCalls!Told(c)' = IF h = "start" THEN Append(Append(<<>>, <<"start", c>>), <<"args", HttpCalls!All(c)>>)
                              ELSE Append(<<>>, <<"start", c>>)
  BY <1>1, <1>4, <1>5, ToldStart
<1>10. \A d \in Calls : d # c => HttpCalls!Told(d)' = HttpCalls!Told(d)
  BY <1>1, <1>4, ToldSame
<1>11. /\ <<"start", c>> \in HttpCalls!Of(c) /\ <<"args", HttpCalls!All(c)>> \in HttpCalls!Of(c)
       /\ \A d : d # c => <<"start", c>> \notin HttpCalls!Of(d) /\ <<"args", HttpCalls!All(c)>> \notin HttpCalls!Of(d)
  <2>1. 0 \in 0 .. HttpPieces
    BY HttpAssumption
  <2> QED
    BY <2>1, IsOf, NotOf DEF HttpCalls!All
<1>12. HttpCalls!Given' /\ v17' \in Seq({v17'[j] : j \in DOMAIN v17'})
  <2>1. CASE h = "start"
    BY <1>8, <1>9, <1>10, <1>11, <2>1, GivenTwo
  <2>2. CASE h # "start"
    BY <1>8, <1>9, <1>10, <1>11, <2>2, GivenOne
  <2> QED
    BY <2>1, <2>2
<1>13. ~HttpCalls!Done'
  <2>1. <<"start", c>>[1] = "start" /\ <<"args", HttpCalls!All(c)>>[1] = "args"
    OBVIOUS
  <2> QED
    BY <1>8, <2>1, DoneAfter
<1>14. v1' = v1
  BY <1>1 DEF HttpCalls!Stays
<1>15. HttpCalls!Knows(c)'
  <2>1. v13'[c].ended = FALSE /\ v13'[c].delta = (h = "start")
    BY <1>7
  <2>2. v10'[c] = 0 /\ ~(v10'[c] > 0)
    BY <1>1, <1>5
  <2>3. c \in DOMAIN v13' /\ v8'[c] = "open" /\ v9'[c] = h
    BY <1>4, <1>7
  <2>4. h = "end" => v1' = "openai"
    BY <1>2, <1>14 DEF HttpCalls!HttpTypes
  <2>5. v13'[c].delta = (v9'[c] = "start" \/ v10'[c] > 0)
    BY <2>1, <2>2, <2>3
  <2> QED
    BY <2>1, <2>2, <2>3, <2>4, <2>5 DEF HttpCalls!Knows
<1>16. ASSUME NEW d \in Calls, d # c PROVE HttpCalls!Knows(d)'
  <2>1. d \in DOMAIN v13' <=> d \in DOMAIN v13
    BY <1>7, <1>16
  <2>2. HttpCalls!Knows(d)
    OBVIOUS
  <2> QED
    BY <1>1, <1>4, <1>7, <1>14, <1>16, <2>1, <2>2 DEF HttpCalls!Knows
<1>17. /\ v8' \in [Calls -> {"none", "open", "finished", "closed"}]
       /\ v9' \in [Calls -> {"deltas", "start", "end"}] /\ v10' \in [Calls -> 0 .. HttpPieces]
       /\ v11' \in Nat /\ v12' \in BOOLEAN /\ v14' \in BOOLEAN /\ v16' \in {"none", "cut", "tool_use", "end_turn"}
  BY <1>1, <1>2, <1>3 DEF HttpCalls!HttpTypes
<1>18. \A d \in DOMAIN v13' : v13'[d] \in [delta : BOOLEAN, ended : BOOLEAN]
  <2>1. [delta |-> (h = "start"), ended |-> FALSE] \in [delta : BOOLEAN, ended : BOOLEAN]
    OBVIOUS
  <2> QED
    BY <1>7, <2>1 DEF HttpCalls!HttpTypes
<1>19. /\ v14' = (\E d \in Calls : v8'[d] # "none")
       /\ IF v1 = "anthropic"
          THEN /\ v15' = v11' /\ v12' = (v16' # "none")
               /\ v12' => HttpCalls!OpenCalls' = {} /\ v16' \in {"cut", IF v14' THEN "tool_use" ELSE "end_turn"}
          ELSE v16' = "none"
  BY <1>1, <1>4 DEF HttpCalls!Counts
<1> QED
  BY <1>1, <1>12, <1>13, <1>15, <1>16, <1>17, <1>18, <1>19, StreamKept

LEMMA DeltaSent ==
  ASSUME HttpCalls!HttpKept, NEW c \in Calls, HttpCalls!SendDelta(c)
  PROVE  HttpCalls!HttpKept'
<1> USE DEF HttpCalls!HttpKept, HttpCalls!AnswerWhole
<1>1. /\ v2 = "streaming" /\ HttpCalls!Stays /\ v8[c] = "open" /\ v9[c] = "deltas" /\ v10[c] < HttpPieces
      /\ v10' = [v10 EXCEPT ![c] = v10[c] + 1]
      /\ v8' = v8 /\ v9' = v9 /\ v11' = v11 /\ v12' = v12 /\ v14' = v14 /\ v15' = v15 /\ v16' = v16
  BY DEF HttpCalls!SendDelta, HttpCalls!Streaming, HttpCalls!DecodeDelta
<1>2. /\ v8 \in [Calls -> {"none", "open", "finished", "closed"}]
      /\ v9 \in [Calls -> {"deltas", "start", "end"}] /\ v10 \in [Calls -> 0 .. HttpPieces]
      /\ HttpPieces \in Nat
  BY HttpAssumption DEF HttpCalls!HttpTypes
<1>3. v10'[c] = v10[c] + 1 /\ v10'[c] \in 1 .. HttpPieces /\ \A d \in Calls : d # c => v10'[d] = v10[d]
  BY <1>1, <1>2
<1>4. c \in DOMAIN v13 /\ v13[c] \in [delta : BOOLEAN, ended : BOOLEAN] /\ ~v13[c].ended
  BY <1>1 DEF HttpCalls!Knows, HttpCalls!HttpTypes
<1>5. v13' = [v13 EXCEPT ![c].delta = TRUE] /\ HttpCalls!Yield(<<<<"args", <<c, v10'[c]>>>>>>)
  BY <1>4, Zenon DEF HttpCalls!SendDelta, HttpCalls!DecodeDelta
<1>6. /\ DOMAIN v13' = DOMAIN v13 /\ v13'[c] \in [delta : BOOLEAN, ended : BOOLEAN]
      /\ v13'[c].delta = TRUE /\ ~v13'[c].ended
      /\ \A d \in DOMAIN v13 : d # c => v13'[d] = v13[d]
  <2>1. ASSUME NEW r \in [delta : BOOLEAN, ended : BOOLEAN]
        PROVE  /\ [r EXCEPT !.delta = TRUE] \in [delta : BOOLEAN, ended : BOOLEAN]
               /\ [r EXCEPT !.delta = TRUE].delta = TRUE /\ [r EXCEPT !.delta = TRUE].ended = r.ended
    OBVIOUS
  <2>2. PICK r \in [delta : BOOLEAN, ended : BOOLEAN] :
          r.delta = TRUE /\ r.ended = v13[c].ended /\ v13' = [v13 EXCEPT ![c] = r]
    BY <1>4, <1>5, <2>1
  <2>3. /\ DOMAIN v13' = DOMAIN v13 /\ v13'[c] = r /\ \A d \in DOMAIN v13 : d # c => v13'[d] = v13[d]
    BY <1>4, <2>2
  <2> QED
    BY <1>4, <2>2, <2>3
<1>7. v17' = Append(v17, <<"args", <<c, v10'[c]>>>>)
  BY <1>5, Yields
<1>8. HttpCalls!Told(c)' = Append(HttpCalls!Told(c), <<"args", <<c, v10'[c]>>>>)
  BY <1>1, <1>3, ToldDelta
<1>9. \A d \in Calls : d # c => HttpCalls!Told(d)' = HttpCalls!Told(d)
  BY <1>1, <1>3, ToldSame
<1>10. /\ <<"args", <<c, v10'[c]>>>> \in HttpCalls!Of(c)
       /\ \A d : d # c => <<"args", <<c, v10'[c]>>>> \notin HttpCalls!Of(d)
  <2>1. v10'[c] \in 0 .. HttpPieces
    BY <1>2, <1>3
  <2> QED
    BY <2>1, IsOf, NotOf
<1>11. HttpCalls!Given' /\ v17' \in Seq({v17'[j] : j \in DOMAIN v17'})
  BY <1>7, <1>8, <1>9, <1>10, GivenOne
<1>12. ~HttpCalls!Done'
  <2>1. <<"args", <<c, v10'[c]>>>>[1] = "args"
    OBVIOUS
  <2> QED
    BY <1>7, <2>1, DoneAfter
<1>13. v1' = v1
  BY <1>1 DEF HttpCalls!Stays
<1>14. HttpCalls!Knows(c)'
  <2>1. ~v13'[c].ended /\ v13'[c].delta = TRUE
    BY <1>6
  <2>2. c \in DOMAIN v13' /\ v8'[c] = "open" /\ v9'[c] = "deltas" /\ v10'[c] > 0
    BY <1>1, <1>2, <1>3, <1>4, <1>6
  <2>3. v13'[c].delta = (v9'[c] = "start" \/ v10'[c] > 0)
    BY <2>1, <2>2
  <2> QED
    BY <2>1, <2>2, <2>3 DEF HttpCalls!Knows
<1>15. ASSUME NEW d \in Calls, d # c PROVE HttpCalls!Knows(d)'
  <2>1. d \in DOMAIN v13' <=> d \in DOMAIN v13
    BY <1>6
  <2>2. HttpCalls!Knows(d)
    OBVIOUS
  <2> QED
    BY <1>1, <1>3, <1>6, <1>13, <1>15, <2>1, <2>2 DEF HttpCalls!Knows
<1>16. /\ v8' \in [Calls -> {"none", "open", "finished", "closed"}]
       /\ v9' \in [Calls -> {"deltas", "start", "end"}] /\ v10' \in [Calls -> 0 .. HttpPieces]
       /\ v11' \in Nat /\ v12' \in BOOLEAN /\ v14' \in BOOLEAN /\ v16' \in {"none", "cut", "tool_use", "end_turn"}
  <2>1. v10' \in [Calls -> 0 .. HttpPieces]
    BY <1>1, <1>2, <1>3
  <2> QED
    BY <1>1, <1>2, <2>1 DEF HttpCalls!HttpTypes
<1>17. \A d \in DOMAIN v13' : v13'[d] \in [delta : BOOLEAN, ended : BOOLEAN]
  BY <1>6 DEF HttpCalls!HttpTypes
<1>18. /\ v14' = (\E d \in Calls : v8'[d] # "none")
       /\ IF v1 = "anthropic"
          THEN /\ v15' = v11' /\ v12' = (v16' # "none")
               /\ v12' => HttpCalls!OpenCalls' = {} /\ v16' \in {"cut", IF v14' THEN "tool_use" ELSE "end_turn"}
          ELSE v16' = "none"
  BY <1>1 DEF HttpCalls!Counts, HttpCalls!OpenCalls
<1> QED
  BY <1>1, <1>11, <1>12, <1>14, <1>15, <1>16, <1>17, <1>18, StreamKept

(* What ending a call leaves, in the decoder and in what is given.         *)
LEMMA CallOver ==
  ASSUME HttpCalls!HttpKept, NEW c \in Calls, v2 = "streaming", HttpCalls!Stays,
         v8[c] \in {"open", "finished"}, NEW s \in {"finished", "closed"}, v8[c] = "finished" => s = "closed",
         v8' = [v8 EXCEPT ![c] = s], s = "finished" => v1 = "openai",
         v9[c] = "deltas" => v10[c] > 0,
         IF v1 = "openai" THEN HttpCalls!EndCall(c) ELSE HttpCalls!StopBlock(c),
         v9' = v9, v10' = v10, v11' = v11, v12' = v12, v14' = v14, v15' = v15, v16' = v16
  PROVE  HttpCalls!HttpKept'
<1> USE DEF HttpCalls!HttpKept, HttpCalls!AnswerWhole
<1>1. /\ v8 \in [Calls -> {"none", "open", "finished", "closed"}]
      /\ v9 \in [Calls -> {"deltas", "start", "end"}] /\ v10 \in [Calls -> 0 .. HttpPieces]
      /\ v1 \in {"anthropic", "openai"}
      /\ \A d \in DOMAIN v13 : v13[d] \in [delta : BOOLEAN, ended : BOOLEAN]
  BY DEF HttpCalls!HttpTypes
<1>2. v8'[c] = s /\ \A d \in Calls : d # c => v8'[d] = v8[d]
  BY <1>1
<1>3. v1' = v1
  BY DEF HttpCalls!Stays
<1>4. \A d \in Calls : d # c => HttpCalls!Told(d)' = HttpCalls!Told(d)
  BY <1>2, ToldSame
<1>5. /\ <<"end", c>> \in HttpCalls!Of(c) /\ <<"args", HttpCalls!All(c)>> \in HttpCalls!Of(c)
      /\ \A d : d # c => <<"end", c>> \notin HttpCalls!Of(d) /\ <<"args", HttpCalls!All(c)>> \notin HttpCalls!Of(d)
  <2>1. 0 \in 0 .. HttpPieces
    BY HttpAssumption
  <2> QED
    BY <2>1, IsOf, NotOf DEF HttpCalls!All
<1>6. <<"end", c>>[1] = "end"
  OBVIOUS
<1>7. ~HttpCalls!Done
  BY DEF HttpCalls!Counts
<1>8. HttpCalls!Given' /\ v17' \in Seq({v17'[j] : j \in DOMAIN v17'}) /\ ~HttpCalls!Done'
  <2>1. CASE v8[c] = "finished"
    <3>1. v1 = "openai" /\ c \in DOMAIN v13 /\ v13[c].ended
      BY <2>1 DEF HttpCalls!Knows
    <3>2. v17' = v17
      BY <3>1 DEF HttpCalls!EndCall
    <3>3. \A d \in Calls : HttpCalls!Told(d)' = HttpCalls!Told(d)
      BY <1>2, <1>4, <2>1, ToldSame
    <3>4. ~HttpCalls!Done'
      BY <1>7, <3>2 DEF HttpCalls!Done, HttpCalls!Last
    <3> QED
      BY <3>2, <3>3, <3>4, GivenSame DEF HttpCalls!HttpTypes
  <2>2. CASE v8[c] = "open"
    <3>1. HttpCalls!Told(c)' = IF v9[c] = "end"
            THEN Append(Append(HttpCalls!Told(c), <<"args", HttpCalls!All(c)>>), <<"end", c>>)
            ELSE Append(HttpCalls!Told(c), <<"end", c>>)
      BY <1>2, <2>2, ToldEnd
    <3>2. /\ c \in DOMAIN v13 /\ ~v13[c].ended /\ v13[c].delta = (v9[c] = "start" \/ v10[c] > 0)
          /\ v10[c] > 0 => v9[c] = "deltas"
          /\ v9[c] = "end" => v1 = "openai"
      BY <2>2 DEF HttpCalls!Knows
    <3>3. CASE v9[c] = "end"
      <4>1. ~v13[c].delta /\ v1 = "openai"
        BY <3>2, <3>3
      <4>2. HttpCalls!Yield(<<<<"args", HttpCalls!All(c)>>>> \o <<<<"end", c>>>>)
        BY <3>2, <4>1, Zenon DEF HttpCalls!EndCall
      <4>3. v17' = Append(Append(v17, <<"args", HttpCalls!All(c)>>), <<"end", c>>)
        BY <4>2, Yields
      <4>4. HttpCalls!Told(c)' = Append(Append(HttpCalls!Told(c), <<"args", HttpCalls!All(c)>>), <<"end", c>>)
        BY <3>1, <3>3
      <4> QED
        BY <1>4, <1>5, <1>6, <4>3, <4>4, GivenTwo, DoneAfter
    <3>4. CASE v9[c] # "end"
      <4>1. v13[c].delta
        BY <1>1, <3>2, <3>4
      <4>2. v17' = Append(v17, <<"end", c>>)
        <5>1. CASE v1 = "openai"
          <6>1. HttpCalls!Yield(<<>> \o <<<<"end", c>>>>)
            BY <3>2, <4>1, <5>1, Zenon DEF HttpCalls!EndCall
          <6> QED
            BY <6>1, Yields
        <5>2. CASE v1 # "openai"
          <6>1. HttpCalls!Yield(<<<<"end", c>>>>)
            BY <3>2, <5>2, Zenon DEF HttpCalls!StopBlock
          <6> QED
            BY <6>1, Yields
        <5> QED
          BY <5>1, <5>2
      <4>3. HttpCalls!Told(c)' = Append(HttpCalls!Told(c), <<"end", c>>)
        BY <3>1, <3>4
      <4> QED
        BY <1>4, <1>5, <1>6, <4>2, <4>3, GivenOne, DoneAfter
    <3> QED
      BY <3>3, <3>4
  <2> QED
    BY <2>1, <2>2
<1>9. /\ \A d \in DOMAIN v13' : v13'[d] \in [delta : BOOLEAN, ended : BOOLEAN]
      /\ \A d \in Calls : d # c => (d \in DOMAIN v13' <=> d \in DOMAIN v13) /\ (d \in DOMAIN v13 => v13'[d] = v13[d])
      /\ IF v1 = "openai" THEN c \in DOMAIN v13' /\ v13'[c].ended ELSE c \notin DOMAIN v13'
  <2>1. v8[c] = "finished" => v1 = "openai"
    BY DEF HttpCalls!Knows
  <2>2. v1 = "openai" => c \in DOMAIN v13
    BY DEF HttpCalls!Knows
  <2>3. CASE v1 = "openai" /\ v13[c].ended
    <3>1. v13' = v13
      BY <2>2, <2>3 DEF HttpCalls!EndCall
    <3> QED
      BY <1>1, <2>2, <2>3, <3>1
  <2>4. CASE v1 = "openai" /\ ~v13[c].ended
    <3>1. v13' = [v13 EXCEPT ![c].ended = TRUE] /\ v13[c] \in [delta : BOOLEAN, ended : BOOLEAN]
      BY <1>1, <2>2, <2>4 DEF HttpCalls!EndCall
    <3>2. ASSUME NEW r \in [delta : BOOLEAN, ended : BOOLEAN]
          PROVE  /\ [r EXCEPT !.ended = TRUE] \in [delta : BOOLEAN, ended : BOOLEAN]
                 /\ [r EXCEPT !.ended = TRUE].ended = TRUE
      OBVIOUS
    <3>3. PICK r \in [delta : BOOLEAN, ended : BOOLEAN] : r.ended = TRUE /\ v13' = [v13 EXCEPT ![c] = r]
      BY <3>1, <3>2
    <3>4. /\ DOMAIN v13' = DOMAIN v13 /\ v13'[c] = r /\ \A d \in DOMAIN v13 : d # c => v13'[d] = v13[d]
      BY <2>2, <2>4, <3>3
    <3> QED
      BY <1>1, <2>2, <2>4, <3>3, <3>4
  <2>5. CASE v1 # "openai"
    <3>1. c \in DOMAIN v13
      BY <2>1, <2>5 DEF HttpCalls!Knows
    <3>2. v13' = HttpCalls!Restrict(v13, DOMAIN v13 \ {c})
      BY <2>5, <3>1 DEF HttpCalls!StopBlock
    <3>3. DOMAIN v13' = DOMAIN v13 \ {c} /\ \A d \in DOMAIN v13 \ {c} : v13'[d] = v13[d]
      BY <3>2 DEF HttpCalls!Restrict
    <3> QED
      BY <1>1, <2>5, <3>3
  <2> QED
    BY <2>3, <2>4, <2>5
<1>10. HttpCalls!Knows(c)'
  BY <1>1, <1>2, <1>3, <1>9 DEF HttpCalls!Knows
<1>11. ASSUME NEW d \in Calls, d # c PROVE HttpCalls!Knows(d)'
  <2>1. HttpCalls!Knows(d)
    OBVIOUS
  <2> QED
    BY <1>2, <1>3, <1>9, <1>11, <2>1 DEF HttpCalls!Knows
<1>12. /\ v8' \in [Calls -> {"none", "open", "finished", "closed"}]
       /\ v9' \in [Calls -> {"deltas", "start", "end"}] /\ v10' \in [Calls -> 0 .. HttpPieces]
       /\ v11' \in Nat /\ v12' \in BOOLEAN /\ v14' \in BOOLEAN /\ v16' \in {"none", "cut", "tool_use", "end_turn"}
  BY <1>1 DEF HttpCalls!HttpTypes
<1>13. /\ v14' = (\E d \in Calls : v8'[d] # "none")
       /\ IF v1 = "anthropic"
          THEN /\ v15' = v11' /\ v12' = (v16' # "none")
               /\ v12' => HttpCalls!OpenCalls' = {} /\ v16' \in {"cut", IF v14' THEN "tool_use" ELSE "end_turn"}
          ELSE v16' = "none"
  <2>1. (\E d \in Calls : v8'[d] # "none") <=> (\E d \in Calls : v8[d] # "none")
    BY <1>2
  <2>2. HttpCalls!OpenCalls' \subseteq HttpCalls!OpenCalls
    BY <1>2 DEF HttpCalls!OpenCalls
  <2> QED
    BY <2>1, <2>2 DEF HttpCalls!Counts
<1> QED
  BY <1>8, <1>9, <1>10, <1>11, <1>12, <1>13, StreamKept

LEMMA CallEnded ==
  ASSUME HttpCalls!HttpKept, NEW c \in Calls, HttpCalls!FinishArgs(c) \/ HttpCalls!CloseCall(c)
  PROVE  HttpCalls!HttpKept'
<1>1. CASE HttpCalls!FinishArgs(c)
  <2>1. /\ v2 = "streaming" /\ HttpCalls!Stays /\ v8[c] = "open" /\ v8' = [v8 EXCEPT ![c] = "finished"]
        /\ v1 = "openai" /\ HttpCalls!EndCall(c) /\ (v9[c] = "deltas" => v10[c] > 0)
        /\ v9' = v9 /\ v10' = v10 /\ v11' = v11 /\ v12' = v12 /\ v14' = v14 /\ v15' = v15 /\ v16' = v16
    BY <1>1 DEF HttpCalls!FinishArgs, HttpCalls!Streaming
  <2> QED
    BY <2>1, CallOver
<1>2. CASE HttpCalls!CloseCall(c)
  <2>1. /\ v2 = "streaming" /\ HttpCalls!Stays /\ v8[c] \in {"open", "finished"}
        /\ v8' = [v8 EXCEPT ![c] = "closed"] /\ (v9[c] = "deltas" => v10[c] > 0)
        /\ IF v1 = "openai" THEN HttpCalls!EndCall(c) ELSE HttpCalls!StopBlock(c)
        /\ v9' = v9 /\ v10' = v10 /\ v11' = v11 /\ v12' = v12 /\ v14' = v14 /\ v15' = v15 /\ v16' = v16
    BY <1>2 DEF HttpCalls!CloseCall, HttpCalls!Streaming, HttpCalls!OpenCalls
  <2> QED
    BY <2>1, CallOver
<1> QED
  BY <1>1, <1>2

(* The answer's end, and a stream that breaks off.                         *)
LEMMA EndSent == HttpCalls!HttpKept /\ HttpCalls!SendEnd => HttpCalls!HttpKept'
<1> SUFFICES ASSUME HttpCalls!HttpKept, HttpCalls!SendEnd PROVE HttpCalls!HttpKept'
  OBVIOUS
<1> USE DEF HttpCalls!HttpKept, HttpCalls!AnswerWhole
<1>1. /\ v2 = "streaming" /\ HttpCalls!OpenCalls = {} /\ (v1 = "anthropic" => v12)
      /\ v11' = IF v1 = "openai" THEN v11 + 1 ELSE v11
      /\ v12' = TRUE /\ v2' = "ended"
      /\ v1' = v1 /\ v3' = v3 /\ v4' = v4 /\ v5' = v5 /\ v6' = v6 /\ v7' = v7
      /\ v8' = v8 /\ v9' = v9 /\ v10' = v10 /\ v13' = v13 /\ v14' = v14 /\ v15' = v15 /\ v16' = v16
  BY DEF HttpCalls!SendEnd, HttpCalls!Streaming, HttpCalls!DecodeEnd, HttpCalls!decoder
<1>2. /\ v1 \in {"anthropic", "openai"} /\ v8 \in [Calls -> {"none", "open", "finished", "closed"}]
      /\ v14 \in BOOLEAN /\ v11 \in Nat
  BY DEF HttpCalls!HttpTypes
<1>3. PICK cut \in BOOLEAN : HttpCalls!DecodeEnd(cut, v11')
  BY DEF HttpCalls!SendEnd
<1>4. PICK total : total = IF v1 = "anthropic" THEN v15 ELSE v11'
  OBVIOUS
<1>5. PICK stop : stop = IF v1 = "openai" THEN (IF cut THEN "cut" ELSE "none") ELSE v16
  OBVIOUS
<1>6. PICK why : why = IF stop # "none" THEN stop ELSE IF v14 THEN "tool_use" ELSE "end_turn"
  OBVIOUS
<1>7. HttpCalls!Yield(<<<<"usage", total>>, <<"done", why>>>>)
  BY <1>3, <1>4, <1>5, <1>6, Zenon DEF HttpCalls!DecodeEnd
<1>8. v17' = Append(Append(v17, <<"usage", total>>), <<"done", why>>)
  BY <1>7, Yields
<1>9. total = v11'
  BY <1>1, <1>2, <1>4 DEF HttpCalls!Counts
<1>10. \A c \in Calls : v8[c] \in {"none", "closed"}
  BY <1>1, <1>2 DEF HttpCalls!OpenCalls
<1>11. v14 = (\E c \in Calls : v8[c] = "closed")
  BY <1>10 DEF HttpCalls!Counts
<1>12. why = "cut" \/ ((why = "tool_use") = (\E c \in Calls : v8[c] = "closed"))
  BY <1>1, <1>2, <1>5, <1>6, <1>11 DEF HttpCalls!Counts
<1>13. /\ HttpCalls!Last(v17)' = <<"done", why>> /\ v17'[Len(v17') - 1] = <<"usage", total>>
  BY <1>8, DoneAfter
<1>14. HttpCalls!EndsWell'
  <2>1. <<"done", why>>[2] = why
    OBVIOUS
  <2> QED
    BY <1>1, <1>9, <1>10, <1>12, <1>13, <2>1 DEF HttpCalls!EndsWell
<1>15. HttpCalls!Given' /\ v17' \in Seq({v17'[j] : j \in DOMAIN v17'})
  <2>1. \A c \in Calls : HttpCalls!Told(c)' = HttpCalls!Told(c)
    BY <1>1, ToldSame
  <2>2. \A c : <<"usage", total>> \notin HttpCalls!Of(c) /\ <<"done", why>> \notin HttpCalls!Of(c)
    BY NotOf
  <2>3. PICK u : u = <<"usage", total>>
    OBVIOUS
  <2>4. PICK d : d = <<"done", why>>
    OBVIOUS
  <2>5. v17' = Append(Append(v17, u), d) /\ \A c : u \notin HttpCalls!Of(c) /\ d \notin HttpCalls!Of(c)
    BY <1>8, <2>2, <2>3, <2>4, Zenon
  <2>6. HttpCalls!HttpTypes /\ HttpCalls!Given
    OBVIOUS
  <2>7. \A c \in Calls :
          \/ /\ u \notin HttpCalls!Of(c) /\ d \notin HttpCalls!Of(c)
             /\ HttpCalls!Told(c)' = HttpCalls!Told(c)
          \/ /\ u \in HttpCalls!Of(c) /\ d \in HttpCalls!Of(c)
             /\ HttpCalls!Told(c)' = Append(Append(HttpCalls!Told(c), u), d)
    BY <2>1, <2>5
  <2>8. v17' = Append(Append(v17, u), d)
    BY <2>5
  <2> HIDE DEF HttpCalls!HttpKept, HttpCalls!AnswerWhole
  <2> QED
    BY <2>6, <2>7, <2>8, GivenTwo
<1>16. HttpCalls!HttpTypes'
  BY <1>1, <1>2, <1>15 DEF HttpCalls!HttpTypes
<1>17. HttpCalls!Attempts'
  BY <1>1 DEF HttpCalls!Attempts, HttpCalls!Least
<1>18. \A c \in Calls : HttpCalls!Knows(c)'
  BY <1>1 DEF HttpCalls!Knows
<1>19. HttpCalls!Counts'
  BY <1>1, <1>2 DEF HttpCalls!Counts, HttpCalls!OpenCalls
<1> QED
  BY <1>14, <1>15, <1>16, <1>17, <1>18, <1>19

LEMMA StreamCut == HttpCalls!HttpKept /\ HttpCalls!Cut => HttpCalls!HttpKept'
<1> SUFFICES ASSUME HttpCalls!HttpKept, HttpCalls!Cut PROVE HttpCalls!HttpKept'
  OBVIOUS
<1> USE DEF HttpCalls!HttpKept, HttpCalls!AnswerWhole
<1>1. /\ v2 = "streaming" /\ v2' = "ended"
      /\ v1' = v1 /\ v3' = v3 /\ v4' = v4 /\ v5' = v5 /\ v6' = v6 /\ v7' = v7
      /\ v8' = v8 /\ v9' = v9 /\ v10' = v10 /\ v11' = v11 /\ v12' = v12
      /\ v13' = v13 /\ v14' = v14 /\ v15' = v15 /\ v16' = v16
  BY DEF HttpCalls!Cut, HttpCalls!Streaming, HttpCalls!server, HttpCalls!decoder
<1>2. PICK e : HttpCalls!Yield(<<<<"error", e>>>>)
  BY DEF HttpCalls!Cut
<1>3. v17' = Append(v17, <<"error", e>>)
  BY <1>2, Yields
<1>4. HttpCalls!Given' /\ v17' \in Seq({v17'[j] : j \in DOMAIN v17'})
  <2>1. \A c \in Calls : HttpCalls!Told(c)' = HttpCalls!Told(c)
    BY <1>1, ToldSame
  <2>2. \A c : <<"error", e>> \notin HttpCalls!Of(c)
    BY NotOf
  <2>3. PICK d : d = <<"error", e>>
    OBVIOUS
  <2>4. v17' = Append(v17, d) /\ \A c : d \notin HttpCalls!Of(c)
    BY <1>3, <2>2, <2>3, Zenon
  <2> QED
    BY <2>1, <2>4, GivenOne
<1>5. ~HttpCalls!Done'
  <2>1. <<"error", e>>[1] = "error"
    OBVIOUS
  <2> QED
    BY <1>3, <2>1, DoneAfter
<1>6. HttpCalls!HttpTypes'
  BY <1>1, <1>4 DEF HttpCalls!HttpTypes
<1>7. HttpCalls!Attempts'
  BY <1>1 DEF HttpCalls!Attempts, HttpCalls!Least
<1>8. \A c \in Calls : HttpCalls!Knows(c)'
  BY <1>1 DEF HttpCalls!Knows
<1>9. HttpCalls!Counts'
  BY <1>1, <1>5 DEF HttpCalls!Counts, HttpCalls!OpenCalls
<1> QED
  BY <1>4, <1>5, <1>6, <1>7, <1>8, <1>9

LEMMA HttpStep == HttpCalls!HttpKept /\ (HttpCalls!Next \/ UNCHANGED HttpCalls!vars) => HttpCalls!HttpKept'
<1>1. ASSUME HttpCalls!HttpKept, UNCHANGED HttpCalls!vars PROVE HttpCalls!HttpKept'
  <2>1. /\ v1' = v1 /\ v2' = v2 /\ v3' = v3 /\ v4' = v4 /\ v5' = v5 /\ v6' = v6
        /\ v8' = v8 /\ v9' = v9 /\ v10' = v10 /\ v11' = v11 /\ v12' = v12
        /\ v13' = v13 /\ v14' = v14 /\ v15' = v15 /\ v16' = v16 /\ v17' = v17
    BY <1>1 DEF HttpCalls!vars, HttpCalls!sending, HttpCalls!server, HttpCalls!decoder
  <2>2. HttpCalls!Given'
    <3>1. \A c \in Calls : HttpCalls!Told(c)' = HttpCalls!Told(c)
      BY <2>1, ToldSame
    <3> QED
      BY <1>1, <2>1, <3>1, GivenSame DEF HttpCalls!HttpKept, HttpCalls!AnswerWhole
  <2>3. (HttpCalls!Done' <=> HttpCalls!Done) /\ (HttpCalls!EndsWell => HttpCalls!EndsWell')
    BY <2>1 DEF HttpCalls!Done, HttpCalls!Last, HttpCalls!EndsWell
  <2>4. HttpCalls!HttpTypes' /\ HttpCalls!Attempts'
    BY <1>1, <2>1 DEF HttpCalls!HttpKept, HttpCalls!HttpTypes, HttpCalls!Attempts, HttpCalls!Least
  <2>5. \A c \in Calls : HttpCalls!Knows(c)'
    BY <1>1, <2>1 DEF HttpCalls!HttpKept, HttpCalls!Knows
  <2>6. HttpCalls!Counts'
    BY <1>1, <2>1, <2>3 DEF HttpCalls!HttpKept, HttpCalls!Counts, HttpCalls!OpenCalls
  <2> QED
    BY <1>1, <2>2, <2>3, <2>4, <2>5, <2>6 DEF HttpCalls!HttpKept, HttpCalls!AnswerWhole
<1>2. ASSUME HttpCalls!HttpKept, HttpCalls!Next PROVE HttpCalls!HttpKept'
  BY <1>2, HttpSends, TextSent, ReasonSent, CallStarted, DeltaSent, CallEnded, EndSent, StreamCut
  DEF HttpCalls!Next
<1> QED
  BY <1>1, <1>2

(* Why an answer is whole, and comes from few requests.                    *)
LEMMA HttpGives == HttpCalls!HttpKept => HttpCalls!AnswerOnce
<1> SUFFICES ASSUME HttpCalls!HttpKept PROVE HttpCalls!RetriesAreBounded
  BY DEF HttpCalls!HttpKept, HttpCalls!AnswerOnce
<1>1. v6 \in [answer : {"none", "ok", "busy", "refused", "unreachable", "broken"}, asked : Nat, waited : Nat]
  BY DEF HttpCalls!HttpKept, HttpCalls!HttpTypes
<1>2. v6.waited \in Nat /\ v6.waited + 0 = v6.waited
  BY <1>1
<1> QED
  BY <1>2 DEF HttpCalls!HttpKept, HttpCalls!Attempts, HttpCalls!RetriesAreBounded

-----------------------------------------------------------------------------
McpServer == INSTANCE McpServe WITH
        kinds <- v1, phase <- v2,
        record <- v3, input <- v4, queue <- v5, writer <- v6,
        written <- v7, returned <- v8

(* What could not be read is no line.                                      *)
ASSUME UnreadAssumption == Unread \notin Nat \ {0}

(* The MCP server's answers: one to each request, whatever is read and     *)
(* however the tasks of the lines overlap.                                 *)

(* A queue of which one is written.                                        *)
LEMMA Queued ==
  ASSUME NEW S, NEW s \in Seq(S), NEW q \in Seq(S)
  PROVE  /\ s \o q \in Seq(S) /\ s \o <<>> = s
         /\ \A i \in S : Append(q, i) \in Seq(S) /\ s \o Append(q, i) = Append(s \o q, i)
         /\ q # <<>> => /\ Tail(q) \in Seq(S) /\ Append(s, Head(q)) \in Seq(S)
                        /\ Append(s, Head(q)) \o Tail(q) = s \o q
<1>1. s \o q \in Seq(S) /\ s \o <<>> = s
  OBVIOUS
<1>2. ASSUME NEW i \in S PROVE Append(q, i) \in Seq(S) /\ s \o Append(q, i) = Append(s \o q, i)
  OBVIOUS
<1>3. ASSUME q # <<>> PROVE Tail(q) \in Seq(S) /\ Append(s, Head(q)) \in Seq(S)
  BY <1>3
<1>4. ASSUME q # <<>> PROVE Append(s, Head(q)) \o Tail(q) = s \o q
  BY <1>4
<1> QED
  BY <1>1, <1>2, <1>3, <1>4

(* What a sequence holds.                                                  *)
LEMMA PieceAt == ASSUME NEW S, NEW s \in Seq(S) PROVE \A i \in DOMAIN s : s[i] \in S
OBVIOUS

LEMMA McpInit == McpServer!Init => McpServer!Served
<1> SUFFICES ASSUME McpServer!Init PROVE McpServer!Served
  OBVIOUS
<1>1. v1 = <<>> /\ v2 = <<>> /\ v3 = <<>> /\ v5 = <<>> /\ v7 = <<>> /\ v4 = "open" /\ v6 = "writing" /\ v8 = ""
  BY DEF McpServer!Init
<1>2. McpServer!Answers = <<>>
  <2>1. <<>> \in Seq(Nat) /\ \A q \in Seq(Nat) : q \o <<>> = q
    OBVIOUS
  <2> QED
    BY <1>1, <2>1 DEF McpServer!Answers
<1>3. McpServer!ServeTypes
  <2>1. \A S : <<>> \in Seq(S)
    OBVIOUS
  <2> QED
    BY <1>1, <2>1 DEF McpServer!ServeTypes
<1>4. DOMAIN v1 = {} /\ DOMAIN McpServer!Answers = {}
  <2>1. DOMAIN <<>> = {}
    OBVIOUS
  <2> QED
    BY <1>1, <1>2, <2>1
<1>5. v8 # "ok" /\ v6 # "ended"
  BY <1>1
<1> QED
  BY <1>3, <1>4, <1>5 DEF McpServer!Served, McpServer!LineStates, McpServer!OneEach, McpServer!AllAnswered

LEMMA McpAnswers ==
  ASSUME McpServer!ServeTypes, v7' = v7, NEW i \in Nat \cup {Unread}, McpServer!Answer(i)
  PROVE  /\ v5' \in Seq(Nat \cup {Unread}) /\ McpServer!Answers \in Seq(Nat \cup {Unread})
         /\ McpServer!Answers' = IF v6 = "writing" THEN Append(McpServer!Answers, i) ELSE McpServer!Answers
<1> DEFINE S == Nat \cup {Unread}
<1>1. v5 \in Seq(S) /\ v7 \in Seq(S) /\ i \in S
  BY DEF McpServer!ServeTypes
<1>2. v5' = IF v6 = "writing" THEN Append(v5, i) ELSE v5
  BY DEF McpServer!Answer
<1> HIDE DEF S
<1>3. v7 \o v5 \in Seq(S) /\ Append(v5, i) \in Seq(S) /\ v7 \o Append(v5, i) = Append(v7 \o v5, i)
  BY <1>1, Queued
<1> QED
  BY <1>1, <1>2, <1>3 DEF McpServer!Answers, S

(* One answer more, to a line that is done and had none.                   *)
LEMMA OneMore ==
  ASSUME NEW S, NEW s \in Seq(S), NEW i, \A j \in DOMAIN s : s[j] # i,
         \A j, k \in DOMAIN s : s[j] = s[k] => j = k
  PROVE  LET t == Append(s, i) IN
         /\ \A j, k \in DOMAIN t : t[j] = t[k] => j = k
         /\ DOMAIN t = DOMAIN s \cup {Len(s) + 1} /\ t[Len(s) + 1] = i /\ \A j \in DOMAIN s : t[j] = s[j]
<1> DEFINE t == Append(s, i)
<1>1. /\ DOMAIN t = 1 .. (Len(s) + 1) /\ DOMAIN s = 1 .. Len(s) /\ Len(s) \in Nat
      /\ t[Len(s) + 1] = i /\ \A j \in DOMAIN s : t[j] = s[j]
  OBVIOUS
<1> HIDE DEF t
<1>2. DOMAIN t = DOMAIN s \cup {Len(s) + 1} /\ Len(s) + 1 \notin DOMAIN s
  BY <1>1
<1>3. \A j, k \in DOMAIN t : t[j] = t[k] => j = k
  BY <1>1, <1>2
<1> QED
  BY <1>1, <1>2, <1>3 DEF t

(* The answers after a step that leaves them as they are.                  *)
LEMMA McpSame ==
  ASSUME McpServer!OneEach, McpServer!AllAnswered, McpServer!Answers' = McpServer!Answers,
         v4 = "ended" => v4' = "ended", v6 = "failed" => v6' = "failed",
         \A i \in DOMAIN v1 : i \in DOMAIN v1' /\ v1'[i] = v1[i] /\ (v2[i] = "done" => v2'[i] = "done"),
         \A i \in DOMAIN v1' : v1'[i] \in McpServer!Requests /\ v2'[i] = "done" =>
           i \in DOMAIN v1 /\ v2[i] = "done"
  PROVE  McpServer!OneEach' /\ McpServer!AllAnswered'
<1>1. McpServer!OneEach'
  BY DEF McpServer!OneEach, McpServer!Requests
<1>2. McpServer!AllAnswered'
  BY DEF McpServer!AllAnswered, McpServer!Requests
<1> QED
  BY <1>1, <1>2

(* The answers after one to a line that is now done, or to what could not  *)
(* be read.                                                                *)
LEMMA McpMore ==
  ASSUME McpServer!ServeTypes, McpServer!LineStates, McpServer!OneEach, McpServer!AllAnswered,
         v1' = v1, v6' = v6, v7' = v7, v4 = "ended" => v4' = "ended",
         NEW i \in Nat \cup {Unread}, McpServer!Answer(i),
         \A j \in DOMAIN McpServer!Answers : McpServer!Answers[j] # i,
         \/ i = Unread /\ v4' = "ended"
         \/ i \in DOMAIN v1 /\ v1[i] \in McpServer!Requests /\ v2'[i] = "done",
         \A k \in DOMAIN v1 : k # i => (v2'[k] = "done" <=> v2[k] = "done"),
         i \in DOMAIN v1 => v2[i] # "done"
  PROVE  McpServer!OneEach' /\ McpServer!AllAnswered'
<1>1. PICK a : a = McpServer!Answers
  OBVIOUS
<1>2. PICK b : b = McpServer!Answers'
  OBVIOUS
<1>3. a \in Seq(Nat \cup {Unread}) /\ b = IF v6 = "writing" THEN Append(a, i) ELSE a
  BY <1>1, <1>2, McpAnswers
<1>4. /\ \A j, k \in DOMAIN a : a[j] = a[k] => j = k
      /\ \A j \in DOMAIN a : a[j] # i
  BY <1>1 DEF McpServer!OneEach
<1>5. CASE v6 = "writing"
  <2>1. /\ \A j, k \in DOMAIN b : b[j] = b[k] => j = k
        /\ DOMAIN b = DOMAIN a \cup {Len(a) + 1} /\ b[Len(a) + 1] = i /\ \A j \in DOMAIN a : b[j] = a[j]
    BY <1>3, <1>4, <1>5, OneMore
  <2>2. McpServer!OneEach'
    BY <1>1, <1>2, <2>1 DEF McpServer!OneEach, McpServer!Requests
  <2>3. McpServer!AllAnswered'
    BY <1>1, <1>2, <1>5, <2>1 DEF McpServer!AllAnswered, McpServer!Requests
  <2> QED
    BY <2>2, <2>3
<1>6. CASE v6 # "writing"
  <2>1. McpServer!Answers' = McpServer!Answers
    BY <1>1, <1>2, <1>3, <1>6
  <2>2. McpServer!OneEach'
    BY <2>1 DEF McpServer!OneEach, McpServer!Requests
  <2>3. ASSUME v6 # "failed" PROVE i \notin DOMAIN v1
    BY <1>6, <2>3 DEF McpServer!ServeTypes, McpServer!LineStates, McpServer!TasksDone
  <2>4. McpServer!AllAnswered'
    BY <2>1, <2>3, <1>6 DEF McpServer!AllAnswered, McpServer!Requests
  <2> QED
    BY <2>2, <2>4
<1> QED
  BY <1>5, <1>6

(* Reading.                                                                *)
LEMMA McpReads ==
  ASSUME McpServer!Served,
         (\E k \in McpServer!Kinds : McpServer!ReadLine(k)) \/ McpServer!ReadFails \/ McpServer!EndOfInput
  PROVE  McpServer!Served'
<1> USE DEF McpServer!Served
<1>1. ASSUME NEW k \in McpServer!Kinds, McpServer!ReadLine(k) PROVE McpServer!Served'
  <2>1. /\ v1' = Append(v1, k) /\ v2' = Append(v2, IF k = "blank" THEN "done" ELSE "handed")
        /\ v3' = Append(v3, [made |-> 0, left |-> 0]) /\ v4 = "open"
        /\ v4' = v4 /\ v5' = v5 /\ v6' = v6 /\ v7' = v7 /\ v8' = v8
    BY <1>1 DEF McpServer!ReadLine
  <2>2. /\ DOMAIN v1 = 1 .. Len(v1) /\ DOMAIN v2 = 1 .. Len(v1) /\ Len(v1) \in Nat
        /\ DOMAIN v3 = 1 .. Len(v1)
    BY DEF McpServer!ServeTypes
  <2>3. McpServer!ServeTypes'
    <3>1. [made |-> 0, left |-> 0] \in [made : Nat, left : Nat]
      OBVIOUS
    <3>2. v3' \in Seq([made : Nat, left : Nat]) /\ Len(v3') = Len(v3) + 1
      BY <2>1, <3>1 DEF McpServer!ServeTypes
    <3>3. v1' \in Seq(McpServer!Kinds) /\ Len(v1') = Len(v1) + 1
      BY <2>1 DEF McpServer!ServeTypes
    <3>4. v2' \in Seq({"handed", "deciding", "running", "ran", "done"}) /\ Len(v2') = Len(v2) + 1
      BY <2>1 DEF McpServer!ServeTypes
    <3> QED
      BY <2>1, <3>2, <3>3, <3>4 DEF McpServer!ServeTypes
  <2>4. /\ \A i \in DOMAIN v1 : v1'[i] = v1[i] /\ v2'[i] = v2[i] /\ v3'[i] = v3[i]
        /\ DOMAIN v1' = DOMAIN v1 \cup {Len(v1) + 1} /\ DOMAIN v2' = DOMAIN v1'
        /\ v1'[Len(v1) + 1] = k /\ v2'[Len(v1) + 1] = IF k = "blank" THEN "done" ELSE "handed"
    BY <2>1, <2>2 DEF McpServer!ServeTypes
  <2>5. McpServer!LineStates'
    <3>1. v6 # "ended" /\ v8 # "ok"
      BY <2>1 DEF McpServer!LineStates
    <3> QED
      BY <2>1, <2>4, <3>1 DEF McpServer!LineStates
  <2>6. McpServer!Answers' = McpServer!Answers
    BY <2>1 DEF McpServer!Answers
  <2> QED
    BY <2>1, <2>3, <2>4, <2>5, <2>6, McpSame DEF McpServer!Requests
<1>2. CASE McpServer!ReadFails
  <2>1. /\ v4 = "open" /\ v4' = "ended" /\ McpServer!Answer(Unread) /\ v1' = v1 /\ v2' = v2 /\ v3' = v3
        /\ v6' = v6 /\ v7' = v7 /\ v8' = v8
    BY <1>2 DEF McpServer!ReadFails
  <2>2. McpServer!ServeTypes'
    BY <2>1, McpAnswers DEF McpServer!ServeTypes
  <2>3. McpServer!LineStates'
    BY <2>1 DEF McpServer!LineStates, McpServer!TasksDone
  <2>4. Unread \notin DOMAIN v1
    BY UnreadAssumption DEF McpServer!ServeTypes
  <2>5. \A j \in DOMAIN McpServer!Answers : McpServer!Answers[j] # Unread
    BY <2>1, <2>4 DEF McpServer!OneEach
  <2> QED
    BY <2>1, <2>2, <2>3, <2>4, <2>5, McpMore
<1>3. CASE McpServer!EndOfInput
  <2>1. /\ v4' = "ended" /\ v1' = v1 /\ v2' = v2 /\ v3' = v3 /\ v5' = v5
        /\ v6' = v6 /\ v7' = v7 /\ v8' = v8
    BY <1>3 DEF McpServer!EndOfInput
  <2>2. McpServer!ServeTypes'
    BY <2>1 DEF McpServer!ServeTypes
  <2>3. McpServer!LineStates'
    BY <2>1 DEF McpServer!LineStates, McpServer!TasksDone
  <2>4. McpServer!Answers' = McpServer!Answers
    BY <2>1 DEF McpServer!Answers
  <2> QED
    BY <2>1, <2>2, <2>3, <2>4, McpSame
<1> QED
  BY <1>1, <1>2, <1>3

(* The tasks of the lines.                                                 *)
LEMMA McpHandles ==
  ASSUME McpServer!Served, NEW i \in DOMAIN v1, McpServer!HandleLine(i) \/ McpServer!AnswerCall(i)
  PROVE  McpServer!Served'
<1> USE DEF McpServer!Served
<1>0. v1' = v1 /\ v3' = v3 /\ v4' = v4 /\ v6' = v6 /\ v7' = v7 /\ v8' = v8
  BY DEF McpServer!HandleLine, McpServer!AnswerCall
<1>1. /\ v2' = [v2 EXCEPT ![i] = "done"] /\ v2[i] \in {"handed", "ran"}
      /\ v2[i] = "handed" => v1[i] # "call"
      /\ v2[i] = "ran" => v3[i].left = 0
  BY DEF McpServer!HandleLine, McpServer!AnswerCall, McpServer!Joined
<1>2. i \in Nat /\ DOMAIN v2 = DOMAIN v1 /\ DOMAIN v3 = DOMAIN v1
  BY DEF McpServer!ServeTypes
<1>3. v2'[i] = "done" /\ \A k \in DOMAIN v1 : k # i => v2'[k] = v2[k]
  BY <1>1, <1>2
<1>4. \/ McpServer!Answer(i) /\ v1[i] \in McpServer!Requests
      \/ v5' = v5 /\ v1[i] \notin McpServer!Requests
  <2>1. v2[i] = "ran" => v1[i] \in McpServer!Requests
    BY DEF McpServer!LineStates, McpServer!Requests
  <2> QED
    BY <1>1, <2>1 DEF McpServer!HandleLine, McpServer!AnswerCall, McpServer!Joined
<1>5. McpServer!ServeTypes'
  <2>1. v5' \in Seq(Nat \cup {Unread})
    BY <1>0, <1>2, <1>4, McpAnswers DEF McpServer!ServeTypes
  <2>2. v2' \in Seq({"handed", "deciding", "running", "ran", "done"}) /\ Len(v2') = Len(v2)
    BY <1>1, <1>2 DEF McpServer!ServeTypes
  <2> QED
    BY <1>0, <2>1, <2>2 DEF McpServer!ServeTypes
<1>6. McpServer!LineStates'
  <2>1. v6 # "ended" /\ v8 # "ok"
    BY <1>1, <1>2 DEF McpServer!LineStates, McpServer!TasksDone
  <2>2. v1[i] = "call" => v2[i] = "ran" /\ v3[i].made > 0 /\ v3[i].left = 0
    BY <1>1 DEF McpServer!LineStates
  <2> QED
    BY <1>0, <1>3, <2>1, <2>2 DEF McpServer!LineStates
<1>7. \A j \in DOMAIN McpServer!Answers : McpServer!Answers[j] # i
  <2>1. i # Unread
    <3>1. i \in Nat \ {0}
      BY DEF McpServer!ServeTypes
    <3> QED
      BY <3>1, UnreadAssumption
  <2> QED
    BY <1>1, <2>1 DEF McpServer!OneEach
<1>8. CASE McpServer!Answer(i) /\ v1[i] \in McpServer!Requests
  BY <1>0, <1>1, <1>2, <1>3, <1>5, <1>6, <1>7, <1>8, McpMore
<1>9. CASE v5' = v5 /\ v1[i] \notin McpServer!Requests
  <2>1. McpServer!Answers' = McpServer!Answers
    BY <1>0, <1>9 DEF McpServer!Answers
  <2> QED
    BY <1>0, <1>3, <1>5, <1>6, <1>9, <2>1, McpSame
<1> QED
  BY <1>4, <1>8, <1>9

LEMMA McpCalls ==
  ASSUME McpServer!Served, NEW i \in DOMAIN v1,
         \/ McpServer!BeginCall(i) \/ McpServer!Decide(i) \/ McpServer!ToolEnds(i)
         \/ McpServer!ForwardRecord(i)
  PROVE  McpServer!Served'
<1> USE DEF McpServer!Served
<1>0. v1' = v1 /\ v4' = v4 /\ v5' = v5 /\ v6' = v6 /\ v7' = v7 /\ v8' = v8
  BY DEF McpServer!BeginCall, McpServer!Decide, McpServer!ToolEnds, McpServer!ForwardRecord
<1>1. /\ DOMAIN v2 = DOMAIN v1 /\ DOMAIN v3 = DOMAIN v1
      /\ v3[i] \in [made : Nat, left : Nat] /\ v3[i].made \in Nat /\ v3[i].left \in Nat
  <2>1. DOMAIN v2 = DOMAIN v1 /\ DOMAIN v3 = DOMAIN v1
    BY DEF McpServer!ServeTypes
  <2>2. v3[i] \in [made : Nat, left : Nat]
    BY <2>1, PieceAt DEF McpServer!ServeTypes
  <2> QED
    BY <2>1, <2>2
<1>2. \/ v3' = v3
      \/ /\ v3' = [v3 EXCEPT ![i] = [made |-> v3[i].made + 1, left |-> v3[i].left + 1]]
         /\ v2[i] = "deciding"
      \/ /\ v3[i].left > 0 /\ v3' = [v3 EXCEPT ![i] = [made |-> v3[i].made, left |-> v3[i].left - 1]]
         /\ v2' = v2
  <2>1. CASE McpServer!ForwardRecord(i)
    <3>1. v3[i].left > 0 /\ v2' = v2 /\ v3' = [v3 EXCEPT ![i].left = v3[i].left - 1]
      BY <2>1 DEF McpServer!ForwardRecord
    <3>2. [v3[i] EXCEPT !.left = v3[i].left - 1] = [made |-> v3[i].made, left |-> v3[i].left - 1]
      BY <1>1
    <3> QED
      BY <3>1, <3>2
  <2>2. CASE McpServer!Decide(i)
    BY <2>2 DEF McpServer!Decide
  <2> QED
    BY <2>1, <2>2 DEF McpServer!BeginCall, McpServer!ToolEnds
<1>3. \/ v2' = v2
      \/ /\ v2[i] # "done"
         /\ \E p \in {"deciding", "running", "ran"} :
              /\ v2' = [v2 EXCEPT ![i] = p]
              /\ \/ p = "deciding" /\ v1[i] = "call"
                 \/ v2[i] = "running" /\ v3' = v3
                 \/ /\ v2[i] = "deciding"
                    /\ v3' = [v3 EXCEPT ![i] = [made |-> v3[i].made + 1, left |-> v3[i].left + 1]]
  <2>1. CASE McpServer!BeginCall(i)
    BY <2>1 DEF McpServer!BeginCall
  <2>2. CASE McpServer!Decide(i)
    <3>1. PICK p \in {"running", "ran"} : v2' = [v2 EXCEPT ![i] = p]
      BY <2>2 DEF McpServer!Decide
    <3> QED
      BY <2>2, <3>1 DEF McpServer!Decide
  <2>3. CASE McpServer!ToolEnds(i)
    <3>1. PICK p \in {"ran", "deciding"} : v2' = [v2 EXCEPT ![i] = p]
      BY <2>3 DEF McpServer!ToolEnds
    <3> QED
      BY <2>3, <3>1 DEF McpServer!ToolEnds
  <2>4. CASE McpServer!ForwardRecord(i)
    BY <2>4 DEF McpServer!ForwardRecord
  <2> QED
    BY <2>1, <2>2, <2>3, <2>4
<1>4. McpServer!ServeTypes'
  <2>1. v3' \in Seq([made : Nat, left : Nat]) /\ Len(v3') = Len(v3)
    <3>1. \A r \in [made : Nat, left : Nat] :
            LET t == [v3 EXCEPT ![i] = r] IN t \in Seq([made : Nat, left : Nat]) /\ Len(t) = Len(v3)
      BY <1>1 DEF McpServer!ServeTypes
    <3>2. /\ [made |-> v3[i].made + 1, left |-> v3[i].left + 1] \in [made : Nat, left : Nat]
          /\ v3[i].left > 0 => [made |-> v3[i].made, left |-> v3[i].left - 1] \in [made : Nat, left : Nat]
      BY <1>1
    <3> QED
      BY <1>2, <3>1, <3>2 DEF McpServer!ServeTypes
  <2>2. v2' \in Seq({"handed", "deciding", "running", "ran", "done"}) /\ Len(v2') = Len(v2)
    <3>1. \A p \in {"deciding", "running", "ran"} :
            LET t == [v2 EXCEPT ![i] = p]
            IN t \in Seq({"handed", "deciding", "running", "ran", "done"}) /\ Len(t) = Len(v2)
      BY <1>1 DEF McpServer!ServeTypes
    <3>2. v2' = v2 \/ \E p \in {"deciding", "running", "ran"} : v2' = [v2 EXCEPT ![i] = p]
      BY <1>3
    <3> QED
      BY <3>1, <3>2 DEF McpServer!ServeTypes
  <2> QED
    BY <1>0, <2>1, <2>2 DEF McpServer!ServeTypes
<1>5. \A k \in DOMAIN v1 : k # i => v2'[k] = v2[k] /\ v3'[k] = v3[k]
  BY <1>1, <1>2, <1>3
<1>6. /\ v2[i] # "done" => v2'[i] # "done"
      /\ v2[i] = "done" => v2' = v2
  BY <1>1, <1>3
<1>7. /\ v2'[i] \in {"deciding", "running", "ran"} => v1[i] = "call"
      /\ v2'[i] \in {"running", "ran"} => v3'[i].made > 0
      /\ v1[i] = "call" /\ v2'[i] = "done" => v3'[i].made > 0 /\ v3'[i].left = 0
  BY <1>1, <1>2, <1>3 DEF McpServer!LineStates
<1>8. McpServer!LineStates'
  <2>1. \A k \in DOMAIN v1 :
          /\ v2'[k] \in {"deciding", "running", "ran"} => v1[k] = "call"
          /\ v2'[k] \in {"running", "ran"} => v3'[k].made > 0
          /\ v1[k] = "call" /\ v2'[k] = "done" => v3'[k].made > 0 /\ v3'[k].left = 0
    BY <1>5, <1>7 DEF McpServer!LineStates
  <2>2. McpServer!TasksDone => McpServer!TasksDone'
    <3>1. McpServer!TasksDone => v2' = v2
      BY <1>1, <1>6 DEF McpServer!TasksDone
    <3> QED
      BY <3>1 DEF McpServer!TasksDone
  <2> QED
    BY <1>0, <2>1, <2>2 DEF McpServer!LineStates
<1>9. McpServer!Answers' = McpServer!Answers
  BY <1>0 DEF McpServer!Answers
<1> QED
  BY <1>0, <1>4, <1>5, <1>6, <1>8, <1>9, McpSame

(* The writer, and the server's end.                                       *)
LEMMA McpWrites ==
  ASSUME McpServer!Served,
         \/ McpServer!WriteAnswer \/ McpServer!WriteFails \/ McpServer!WriterEnds
         \/ McpServer!Return \/ UNCHANGED McpServer!vars
  PROVE  McpServer!Served'
<1> USE DEF McpServer!Served
<1>0. v1' = v1 /\ v2' = v2 /\ v3' = v3 /\ v4' = v4
  BY DEF McpServer!WriteAnswer, McpServer!WriteFails, McpServer!WriterEnds, McpServer!Return, McpServer!vars
<1>1. CASE McpServer!WriteAnswer
  <2>1. v5 # <<>> /\ v5' = Tail(v5) /\ v7' = Append(v7, Head(v5)) /\ v6' = v6 /\ v8' = v8
    BY <1>1 DEF McpServer!WriteAnswer
  <2>2. /\ v5' \in Seq(Nat \cup {Unread}) /\ v7' \in Seq(Nat \cup {Unread})
        /\ McpServer!Answers' = McpServer!Answers
    <3> DEFINE S == Nat \cup {Unread}
    <3>1. v5 \in Seq(S) /\ v7 \in Seq(S)
      BY DEF McpServer!ServeTypes
    <3> HIDE DEF S
    <3>2. Tail(v5) \in Seq(S) /\ Append(v7, Head(v5)) \in Seq(S) /\ Append(v7, Head(v5)) \o Tail(v5) = v7 \o v5
      BY <2>1, <3>1, Queued
    <3> QED
      BY <2>1, <3>2 DEF McpServer!Answers, S
  <2>3. McpServer!ServeTypes'
    BY <1>0, <2>1, <2>2 DEF McpServer!ServeTypes
  <2>4. McpServer!LineStates'
    BY <1>0, <2>1 DEF McpServer!LineStates, McpServer!TasksDone
  <2> QED
    BY <1>0, <2>1, <2>2, <2>3, <2>4, McpSame
<1>2. CASE McpServer!WriteFails
  <2>1. v5' = <<>> /\ v6' = "failed" /\ v6 = "writing" /\ v7' = v7 /\ v8' = v8
    BY <1>2 DEF McpServer!WriteFails
  <2>2. McpServer!ServeTypes'
    BY <1>0, <2>1 DEF McpServer!ServeTypes
  <2>3. McpServer!LineStates'
    BY <1>0, <2>1 DEF McpServer!LineStates, McpServer!TasksDone
  <2>4. DOMAIN McpServer!Answers' \subseteq DOMAIN McpServer!Answers
        /\ \A j \in DOMAIN McpServer!Answers' : McpServer!Answers'[j] = McpServer!Answers[j]
    <3> DEFINE S == Nat \cup {Unread}
    <3>1. v5 \in Seq(S) /\ v7 \in Seq(S)
      BY DEF McpServer!ServeTypes
    <3> HIDE DEF S
    <3>2. v7 \o <<>> = v7
      BY <3>1, Queued
    <3>3. DOMAIN v7 \subseteq DOMAIN (v7 \o v5) /\ \A j \in DOMAIN v7 : v7[j] = (v7 \o v5)[j]
      BY <3>1
    <3> QED
      BY <2>1, <3>2, <3>3 DEF McpServer!Answers
  <2>5. McpServer!OneEach'
    BY <1>0, <2>4 DEF McpServer!OneEach
  <2>6. McpServer!AllAnswered'
    BY <2>1 DEF McpServer!AllAnswered
  <2> QED
    BY <2>2, <2>3, <2>5, <2>6
<1>3. CASE McpServer!WriterEnds \/ McpServer!Return \/ UNCHANGED McpServer!vars
  <2>1. /\ v5' = v5 /\ v7' = v7
        /\ (v6' = v6 \/ (v6' = "ended" /\ v6 = "writing" /\ v4 = "ended" /\ McpServer!TasksDone))
        /\ \/ v8' = v8
           \/ v8' = "error"
           \/ v8' = "ok" /\ v6 = "ended" /\ McpServer!TasksDone /\ v6' = v6
    <3>1. CASE McpServer!WriterEnds
      BY <3>1 DEF McpServer!WriterEnds
    <3>2. CASE McpServer!Return
      BY <3>2 DEF McpServer!Return
    <3>3. CASE UNCHANGED McpServer!vars
      BY <3>3 DEF McpServer!vars
    <3> QED
      BY <1>3, <3>1, <3>2, <3>3
  <2>2. McpServer!ServeTypes'
    BY <1>0, <2>1 DEF McpServer!ServeTypes
  <2>3. McpServer!LineStates'
    BY <1>0, <2>1 DEF McpServer!LineStates, McpServer!TasksDone
  <2>4. McpServer!Answers' = McpServer!Answers
    BY <2>1 DEF McpServer!Answers
  <2> QED
    BY <1>0, <2>1, <2>2, <2>3, <2>4, McpSame
<1> QED
  BY <1>1, <1>2, <1>3

LEMMA McpStep == McpServer!Served /\ (McpServer!Next \/ UNCHANGED McpServer!vars) => McpServer!Served'
BY McpReads, McpHandles, McpCalls, McpWrites DEF McpServer!Next

(* Why each request is answered once.                                      *)
LEMMA McpGives == McpServer!Served => McpServer!AnsweredAsAsked
<1> SUFFICES ASSUME McpServer!Served PROVE McpServer!AnsweredAsAsked
  OBVIOUS
<1> USE DEF McpServer!Served
<1>1. ASSUME NEW i
      PROVE  \/ /\ McpServer!Times(i) = 0 /\ \A j \in DOMAIN McpServer!Answers : McpServer!Answers[j] # i
             \/ McpServer!Times(i) = 1 /\ \E j \in DOMAIN McpServer!Answers : McpServer!Answers[j] = i
  <2> DEFINE At == {j \in DOMAIN McpServer!Answers : McpServer!Answers[j] = i}
  <2>1. McpServer!Times(i) = Cardinality(At)
    BY Zenon DEF McpServer!Times, McpServer!Cardinality, Cardinality
  <2>2. CASE \A j \in DOMAIN McpServer!Answers : McpServer!Answers[j] # i
    <3>1. At = {}
      BY <2>2
    <3> QED
      BY <2>1, <2>2, <3>1, FS_EmptySet
  <2>3. ASSUME NEW j \in DOMAIN McpServer!Answers, McpServer!Answers[j] = i PROVE McpServer!Times(i) = 1
    <3>1. At = {j}
      BY <2>3 DEF McpServer!OneEach
    <3> QED
      BY <2>1, <3>1, FS_Singleton
  <2> QED
    BY <2>2, <2>3
<1>2. \A i \in DOMAIN v1 : i # Unread
  BY UnreadAssumption DEF McpServer!ServeTypes
<1>3. ASSUME NEW i \in DOMAIN v1
      PROVE  /\ McpServer!Times(i) <= (IF v1[i] \in McpServer!Requests THEN 1 ELSE 0)
             /\ McpServer!Times(i) > 0 => v1[i] \in McpServer!Requests /\ v2[i] = "done"
  BY <1>1, <1>2 DEF McpServer!OneEach
<1>4. ASSUME NEW i \in DOMAIN v1, v8 = "ok", v1[i] \in McpServer!Requests PROVE McpServer!Times(i) = 1
  <2>1. v6 # "failed" /\ v2[i] = "done"
    BY <1>4 DEF McpServer!LineStates, McpServer!TasksDone, McpServer!ServeTypes
  <2> QED
    BY <1>1, <1>4, <2>1 DEF McpServer!AllAnswered
<1>5. ASSUME NEW i \in DOMAIN v1, v1[i] = "call", McpServer!Times(i) > 0
      PROVE  v3[i].made > 0 /\ v3[i].left = 0
  BY <1>3, <1>5 DEF McpServer!LineStates
<1>6. McpServer!Times(Unread) <= 1
  BY <1>1
<1> QED
  BY <1>3, <1>4, <1>5, <1>6 DEF McpServer!AnsweredAsAsked

-----------------------------------------------------------------------------
(* An evaluation's keys are run in the order of their numbers.             *)
EvalOrder == [k \in 1 .. EvalKeys |-> k]
Eval == INSTANCE EvalRuns WITH
        Keys <- EvalOrder, MaxFaults <- EvalFaults, lines <- v1, exists <- v2,
        pc <- v3, done <- v4, at <- v5, row <- v6, over <- v7, faults <- v8

ASSUME EvalAssumption == EvalKeys \in Nat \ {0}

(* An evaluation's rows.                                                   *)
(* v1 lines, v2 exists, v3 pc, v4 done, v5 at, v6 row, v7 over, v8 faults. *)
LEMMA EvalKeysAre ==
  /\ Len(EvalOrder) = EvalKeys /\ Eval!ToSet(EvalOrder) = 1 .. EvalKeys /\ Eval!ToSet(EvalOrder) # {}
  /\ \A j \in 1 .. EvalKeys : EvalOrder[j] = j
  /\ \A r \in Eval!Row \cup {Eval!Torn} : r.key \in 1 .. EvalKeys
<1> USE EvalAssumption DEF EvalAssumption, EvalOrder
<1>1. Len(EvalOrder) = EvalKeys /\ DOMAIN EvalOrder = 1 .. EvalKeys
  OBVIOUS
<1>2. Eval!ToSet(EvalOrder) = 1 .. EvalKeys
  BY DEF Eval!ToSet
<1>3. 1 \in 1 .. EvalKeys
  OBVIOUS
<1> QED
  BY <1>1, <1>2, <1>3 DEF Eval!Row, Eval!Torn

(* A piece is written on the last line: if the line was empty it may count,*)
(* and otherwise what the line counted for is lost.                        *)
EvalPiece == Eval!Row \cup {Eval!Torn}

LEMMA EvalPut ==
  ASSUME Eval!EvalTypes, NEW piece \in EvalPiece, v1' = Eval!Put(piece)
  PROVE  /\ v1' \in Seq(Seq(EvalPiece)) /\ v1' # <<>> /\ v1'[Len(v1')] # <<>>
         /\ Eval!Counted' \subseteq Eval!Counted \cup
              (IF ~Eval!Unended /\ piece.status = "ended" THEN {piece.key} ELSE {})
         /\ ~Eval!Unended => Eval!Counted \subseteq Eval!Counted'
         /\ ~Eval!Unended /\ piece.status = "ended" => piece.key \in Eval!Counted'
         /\ \E a \in Eval!ToSet(EvalOrder) : Eval!Counted \subseteq Eval!Counted' \cup {a}
         /\ Eval!EachOnce /\ (Eval!Unended \/ piece.status # "ended" \/ piece.key \notin Eval!Counted)
              => Eval!EachOnce'
<1> DEFINE n == Len(v1)
<1>1. v1 \in Seq(Seq(EvalPiece)) /\ n \in Nat \ {0} /\ DOMAIN v1 = 1 .. n
  BY DEF Eval!EvalTypes, EvalPiece
<1>2. v1[n] \in Seq(EvalPiece)
  BY <1>1
<1>3. PICK l : l = Append(v1[n], piece)
  OBVIOUS
<1>4. l \in Seq(EvalPiece) /\ Len(l) = Len(v1[n]) + 1 /\ (v1[n] = <<>> => l[1] = piece) /\ l # <<>>
  BY <1>2, <1>3
<1>5. v1' = [v1 EXCEPT ![n] = l]
  BY <1>3 DEF Eval!Put
<1> HIDE DEF n
<1>6. /\ v1' \in Seq(Seq(EvalPiece)) /\ DOMAIN v1' = 1 .. n /\ Len(v1') = n
      /\ v1'[n] = l /\ \A i \in 1 .. n : i # n => v1'[i] = v1[i]
  BY <1>1, <1>4, <1>5
<1>7. Eval!Counts(l) <=> (~Eval!Unended /\ piece.status = "ended")
  <2>1. Len(v1[n]) \in Nat /\ (Len(v1[n]) = 0 <=> v1[n] = <<>>)
    BY <1>2
  <2>2. Len(l) = 1 <=> v1[n] = <<>>
    BY <1>4, <2>1
  <2> QED
    BY <1>4, <2>2 DEF Eval!Counts, Eval!Unended, n
<1>8. Eval!Counts(v1[n]) => Eval!Unended
  BY <1>2 DEF Eval!Counts, Eval!Unended, n
<1>9. Eval!Counted = {v1[i][1].key : i \in {j \in 1 .. n : Eval!Counts(v1[j])}}
  BY <1>1 DEF Eval!Counted
<1>10. Eval!Counted' = {v1'[i][1].key : i \in {j \in 1 .. n : Eval!Counts(v1'[j])}}
  BY <1>6 DEF Eval!Counted, Eval!Counts
<1>11. ~Eval!Unended => v1[n] = <<>>
  BY DEF Eval!Unended, n
<1>12. Eval!Counted' \subseteq Eval!Counted \cup
              (IF ~Eval!Unended /\ piece.status = "ended" THEN {piece.key} ELSE {})
  <2>1. \A i \in 1 .. n : i # n /\ Eval!Counts(v1'[i]) => v1'[i][1].key \in Eval!Counted
    BY <1>6, <1>9
  <2>2. Eval!Counts(v1'[n]) => ~Eval!Unended /\ piece.status = "ended" /\ v1'[n][1].key = piece.key
    BY <1>4, <1>6, <1>7, <1>11
  <2> QED
    BY <1>10, <2>1, <2>2
<1>13. ~Eval!Unended => Eval!Counted \subseteq Eval!Counted'
  BY <1>6, <1>8, <1>9, <1>10
<1>14. ~Eval!Unended /\ piece.status = "ended" => piece.key \in Eval!Counted'
  BY <1>1, <1>4, <1>6, <1>7, <1>10, <1>11
<1>15. \E a \in Eval!ToSet(EvalOrder) : Eval!Counted \subseteq Eval!Counted' \cup {a}
  <2>1. PICK b : b \in Eval!ToSet(EvalOrder)
    BY EvalKeysAre
  <2>2. CASE Eval!Counts(v1[n])
    <3>1. v1[n][1] \in EvalPiece
      BY <1>2, <2>2 DEF Eval!Counts
    <3>2. v1[n][1].key \in Eval!ToSet(EvalOrder)
      BY <3>1, EvalKeysAre DEF EvalPiece
    <3>3. Eval!Counted \subseteq Eval!Counted' \cup {v1[n][1].key}
      BY <1>6, <1>9, <1>10
    <3> QED
      BY <3>2, <3>3
  <2>3. CASE ~Eval!Counts(v1[n])
    <3>1. Eval!Counted \subseteq Eval!Counted'
      BY <1>6, <1>9, <1>10, <2>3
    <3> QED
      BY <2>1, <3>1
  <2> QED
    BY <2>2, <2>3
<1>16. ASSUME Eval!EachOnce, Eval!Unended \/ piece.status # "ended" \/ piece.key \notin Eval!Counted
       PROVE  Eval!EachOnce'
  <2>1. \A i \in 1 .. n : i # n /\ Eval!Counts(v1[i]) => v1[i][1].key \in Eval!Counted
    BY <1>9
  <2>2. Eval!Counts(l) => l[1] = piece /\ piece.key \notin Eval!Counted
    BY <1>4, <1>7, <1>11, <1>16
  <2> SUFFICES ASSUME NEW i \in 1 .. n, NEW j \in 1 .. n, i # j, Eval!Counts(v1'[i]), Eval!Counts(v1'[j])
               PROVE  v1'[i][1].key # v1'[j][1].key
    BY <1>6 DEF Eval!EachOnce, Eval!Counts
  <2>3. CASE i = n
    BY <1>6, <2>1, <2>2, <2>3
  <2>4. CASE j = n
    BY <1>6, <2>1, <2>2, <2>4
  <2>5. CASE i # n /\ j # n
    BY <1>1, <1>6, <1>16, <2>5 DEF Eval!EachOnce
  <2> QED
    BY <2>3, <2>4, <2>5
<1> QED
  BY <1>1, <1>4, <1>6, <1>12, <1>13, <1>14, <1>15, <1>16

(* The newline changes nothing that counts.                                *)
LEMMA EvalNewline ==
  ASSUME Eval!EvalTypes, v1' = Append(v1, <<>>)
  PROVE  /\ v1' \in Seq(Seq(EvalPiece)) /\ v1' # <<>> /\ ~Eval!Unended'
         /\ Eval!Counted' = Eval!Counted /\ (Eval!EachOnce => Eval!EachOnce')
<1>1. v1 \in Seq(Seq(EvalPiece)) /\ <<>> \in Seq(EvalPiece) /\ Len(v1) \in Nat
  BY DEF Eval!EvalTypes, EvalPiece
<1> DEFINE n == Len(v1)
<1>2. /\ v1' \in Seq(Seq(EvalPiece)) /\ Len(v1') = n + 1 /\ DOMAIN v1' = 1 .. (n + 1)
      /\ v1'[n + 1] = <<>> /\ DOMAIN v1 = 1 .. n /\ \A i \in 1 .. n : v1'[i] = v1[i]
  BY <1>1
<1>3. ~Eval!Counts(<<>>)
  BY DEF Eval!Counts
<1> HIDE DEF n
<1>4. \A i \in DOMAIN v1' : Eval!Counts(v1'[i]) <=> (i \in DOMAIN v1 /\ Eval!Counts(v1[i]))
  BY <1>1, <1>2, <1>3 DEF n
<1>5. Eval!Counted' = Eval!Counted
  <2>1. Eval!Counted' = {v1'[i][1].key : i \in {j \in DOMAIN v1' : Eval!Counts(v1'[j])}}
    BY DEF Eval!Counted, Eval!Counts
  <2>2. Eval!Counted = {v1[i][1].key : i \in {j \in DOMAIN v1 : Eval!Counts(v1[j])}}
    BY DEF Eval!Counted
  <2>3. \A i \in DOMAIN v1 : i \in DOMAIN v1' /\ v1'[i] = v1[i]
    BY <1>1, <1>2 DEF n
  <2> QED
    BY <1>4, <2>1, <2>2, <2>3
<1>6. Eval!EachOnce => Eval!EachOnce'
  BY <1>1, <1>2, <1>4 DEF Eval!EachOnce, Eval!Counts, n
<1>7. ~Eval!Unended'
  BY <1>2 DEF Eval!Unended
<1> QED
  BY <1>1, <1>2, <1>5, <1>6, <1>7

(* While the file stays as it is, so does what its lines count for.        *)
LEMMA EvalSame ==
  ASSUME v1' = v1
  PROVE  Eval!Counted' = Eval!Counted /\ (Eval!Unended' <=> Eval!Unended) /\ (Eval!EachOnce => Eval!EachOnce')
BY DEF Eval!Counted, Eval!Counts, Eval!Unended, Eval!EachOnce

(* The keys before the one in turn.                                        *)
LEMMA EvalBefore ==
  /\ v5 = 1 => Eval!Before = {}
  /\ v5 \in 1 .. EvalKeys =>
       /\ EvalOrder[v5] \in Eval!ToSet(EvalOrder) /\ EvalOrder[v5] \notin Eval!Before
       /\ v5' = v5 + 1 => Eval!Before' = Eval!Before \cup {EvalOrder[v5]}
  /\ v5 \in Nat /\ v5 > EvalKeys => Eval!ToSet(EvalOrder) \subseteq Eval!Before
  /\ v5' = v5 => Eval!Before' = Eval!Before
<1> USE EvalAssumption DEF EvalAssumption, Eval!Before
<1>1. v5 = 1 => Eval!Before = {}
  OBVIOUS
<1>2. ASSUME v5 \in 1 .. EvalKeys
      PROVE  /\ EvalOrder[v5] \in Eval!ToSet(EvalOrder) /\ EvalOrder[v5] \notin Eval!Before
             /\ v5' = v5 + 1 => Eval!Before' = Eval!Before \cup {EvalOrder[v5]}
  <2>1. \A j \in 1 .. v5 : j \in 1 .. EvalKeys /\ EvalOrder[j] = j
    BY <1>2, EvalKeysAre
  <2>2. EvalOrder[v5] \in Eval!ToSet(EvalOrder) /\ EvalOrder[v5] \notin Eval!Before
    BY <1>2, <2>1, EvalKeysAre
  <2>3. ASSUME v5' = v5 + 1 PROVE Eval!Before' = Eval!Before \cup {EvalOrder[v5]}
    <3>1. v5' - 1 = v5
      BY <1>2, <2>3
    <3>2. Eval!Before' = {EvalOrder[j] : j \in 1 .. v5}
      BY <3>1
    <3>3. 1 .. v5 = 1 .. (v5 - 1) \cup {v5}
      BY <1>2
    <3> QED
      BY <3>2, <3>3
  <2> QED
    BY <2>2, <2>3
<1>3. v5 \in Nat /\ v5 > EvalKeys => Eval!ToSet(EvalOrder) \subseteq Eval!Before
  <2> SUFFICES ASSUME v5 \in Nat, v5 > EvalKeys, NEW k \in 1 .. EvalKeys
               PROVE  k \in Eval!Before
    BY EvalKeysAre
  <2>1. k \in 1 .. (v5 - 1) /\ EvalOrder[k] = k
    BY EvalKeysAre
  <2> QED
    BY <2>1
<1>4. v5' = v5 => Eval!Before' = Eval!Before
  OBVIOUS
<1> QED
  BY <1>1, <1>2, <1>3, <1>4

LEMMA EvalInit == Eval!Init => Eval!EvalInv
<1> SUFFICES ASSUME Eval!Init PROVE Eval!EvalInv
  OBVIOUS
<1> USE DEF Eval!Init
<1>1. /\ v1 = <<<<>>>> /\ Len(v1) = 1 /\ DOMAIN v1 = 1 .. 1 /\ v1[1] = <<>> /\ Len(v1[1]) = 0
      /\ v1 \in Seq(Seq(EvalPiece)) /\ v1 # <<>>
  OBVIOUS
<1>2. Eval!EvalTypes
  <2>1. v3 = "off" /\ v7 = FALSE /\ v5 = 1 /\ v8 = 0 /\ v7 \in BOOLEAN
    OBVIOUS
  <2> QED
    BY <1>1, <2>1 DEF Eval!EvalTypes, EvalPiece
<1>3. Eval!Counted = {} /\ Eval!EachOnce /\ ~Eval!Unended
  BY <1>1 DEF Eval!Counted, Eval!Counts, Eval!EachOnce, Eval!Unended
<1> QED
  BY <1>2, <1>3 DEF Eval!EvalInv, Eval!CountedOnce, Eval!LittleLost

(* What a run finds finished is what the lines count for.                  *)
LEMMA EvalFinished ==
  ASSUME Eval!EvalTypes
  PROVE  /\ Eval!FinishedRuns = Eval!Counted
         /\ {r.key : r \in {q \in Eval!Rows : q.status = "ended"}} = Eval!Counted
<1>1. v1 \in Seq(Seq(EvalPiece)) /\ Eval!Torn.status = "torn"
  BY DEF Eval!EvalTypes, EvalPiece, Eval!Torn
<1>2. \A i \in DOMAIN v1 : Len(v1[i]) = 1 =>
        /\ v1[i][1] \in EvalPiece
        /\ v1[i][1] # Eval!Torn => v1[i][1].status \in {"ended", "rate_limited"}
  <2> SUFFICES ASSUME NEW i \in DOMAIN v1, Len(v1[i]) = 1
               PROVE  /\ v1[i][1] \in EvalPiece
                      /\ v1[i][1] # Eval!Torn => v1[i][1].status \in {"ended", "rate_limited"}
    OBVIOUS
  <2>1. v1[i] \in Seq(EvalPiece)
    BY <1>1
  <2>2. v1[i][1] \in EvalPiece
    BY <2>1
  <2> QED
    BY <2>2 DEF EvalPiece, Eval!Row
<1>3. Eval!Rows = {v1[i][1] : i \in {j \in DOMAIN v1 : Len(v1[j]) = 1 /\ v1[j][1] # Eval!Torn}}
  BY DEF Eval!Rows, Eval!ToSet
<1>4. {q \in Eval!Rows : q.status # "rate_limited"} = {v1[i][1] : i \in {j \in DOMAIN v1 : Eval!Counts(v1[j])}}
  BY <1>1, <1>2, <1>3 DEF Eval!Counts
<1>5. {q \in Eval!Rows : q.status = "ended"} = {v1[i][1] : i \in {j \in DOMAIN v1 : Eval!Counts(v1[j])}}
  BY <1>1, <1>2, <1>3 DEF Eval!Counts
<1> DEFINE Good == {v1[i][1] : i \in {j \in DOMAIN v1 : Eval!Counts(v1[j])}}
<1>6. {r.key : r \in Good} = Eval!Counted
  BY DEF Eval!Counted
<1> HIDE DEF Good
<1> QED
  BY <1>4, <1>5, <1>6 DEF Eval!FinishedRuns, Good

LEMMA EvalStart ==
  ASSUME Eval!EvalInv, NEW resume \in BOOLEAN, Eval!Start(resume)
  PROVE  Eval!EvalInv'
<1> USE DEF Eval!EvalInv
<1>1. /\ v3 = "off" /\ (resume \/ ~v2) /\ v4' = (IF resume THEN Eval!FinishedRuns ELSE {})
      /\ v2' = TRUE /\ v3' = "next" /\ v5' = 1 /\ v7' = FALSE /\ v1' = v1 /\ v6' = v6 /\ v8' = v8
  BY DEF Eval!Start
<1>2. Eval!EvalTypes'
  <2>1. v2' /\ ~v7' /\ v7' \in BOOLEAN
    BY <1>1, Zenon
  <2>2. v1' \in Seq(Seq(Eval!Row \cup {Eval!Torn})) /\ v1' # <<>> /\ v8' \in Nat
    BY <1>1 DEF Eval!EvalTypes
  <2>3. v5' \in Nat \ {0}
    BY <1>1
  <2> QED
    BY <1>1, <2>1, <2>2, <2>3 DEF Eval!EvalTypes
<1>3. Eval!Counted' = Eval!Counted /\ (Eval!Unended' <=> Eval!Unended) /\ Eval!EachOnce'
  BY <1>1, EvalSame DEF Eval!CountedOnce
<1>4. Eval!Before' = {}
  BY <1>1 DEF Eval!Before
<1>5. Eval!Counted \subseteq v4' /\ v4' \subseteq Eval!Counted
  <2>1. CASE resume
    BY <1>1, <2>1, EvalFinished
  <2>2. CASE ~resume
    <3>1. v1 = <<<<>>>>
      BY <1>1, <2>2 DEF Eval!EvalTypes
    <3>2. DOMAIN v1 = 1 .. 1 /\ Len(v1[1]) = 0
      BY <3>1
    <3>3. Eval!Counted = {}
      BY <3>2 DEF Eval!Counted, Eval!Counts
    <3> QED
      BY <1>1, <2>2, <3>3
  <2> QED
    BY <2>1, <2>2
<1>6. Eval!CountedOnce'
  BY <1>1, <1>3, <1>5 DEF Eval!CountedOnce
<1>7. Eval!LittleLost'
  <2>1. Eval!Passed' \subseteq Eval!Counted'
    BY <1>1, <1>3, <1>4, <1>5 DEF Eval!Passed
  <2>2. Eval!Lost(Eval!Passed)'
    BY <2>1, EvalKeysAre DEF Eval!Lost
  <2> QED
    BY <1>1, <1>3, <2>2 DEF Eval!LittleLost
<1> QED
  BY <1>2, <1>6, <1>7

LEMMA EvalSkip ==
  ASSUME Eval!EvalInv, Eval!Skip
  PROVE  Eval!EvalInv'
<1> USE DEF Eval!EvalInv
<1>1. /\ v3 = "next" /\ v5 <= EvalKeys /\ EvalOrder[v5] \in v4 /\ v5' = v5 + 1
      /\ UNCHANGED <<v1, v2, v3, v4, v6, v7, v8>>
  BY EvalKeysAre DEF Eval!Skip
<1>2. v5 \in 1 .. EvalKeys
  BY <1>1, EvalAssumption DEF Eval!EvalTypes, EvalAssumption
<1>3. Eval!EvalTypes'
  BY <1>1, <1>2 DEF Eval!EvalTypes
<1>4. Eval!Counted' = Eval!Counted /\ (Eval!Unended' <=> Eval!Unended) /\ Eval!EachOnce'
  BY <1>1, EvalSame DEF Eval!CountedOnce
<1>5. v4' \cup Eval!Before' = v4 \cup Eval!Before
  BY <1>1, <1>2, EvalBefore
<1>6. Eval!CountedOnce'
  BY <1>1, <1>4, <1>5 DEF Eval!CountedOnce
<1>7. Eval!Passed' = Eval!Passed
  BY <1>1, <1>5 DEF Eval!Passed
<1>8. Eval!LittleLost'
  BY <1>1, <1>4, <1>7 DEF Eval!LittleLost, Eval!Lost, Eval!EvalTypes
<1> QED
  BY <1>3, <1>6, <1>8

(* The steps that leave the file, the keys done and the key in turn.       *)
LEMMA EvalOnlyPc ==
  ASSUME Eval!EvalInv, UNCHANGED <<v1, v2, v4, v5, v7, v8>>,
         \/ v3 = "next" /\ v5 <= EvalKeys /\ EvalOrder[v5] \notin v4 /\ v3' = "running"
         \/ v3 = "running" /\ v3' = "off"
         \/ /\ v3 = "running" /\ v3' = "row" /\ v6' \in Eval!Row /\ v6'.key = EvalOrder[v5]
  PROVE  Eval!EvalInv'
<1> USE DEF Eval!EvalInv
<1>1. Eval!EvalTypes'
  BY EvalKeysAre DEF Eval!EvalTypes
<1>2. Eval!Counted' = Eval!Counted /\ (Eval!Unended' <=> Eval!Unended) /\ Eval!EachOnce'
  BY EvalSame DEF Eval!CountedOnce
<1>3. Eval!Before' = Eval!Before
  BY EvalBefore
<1>4. Eval!CountedOnce'
  BY <1>2, <1>3 DEF Eval!CountedOnce
<1>5. Eval!Passed' = Eval!Passed
  BY <1>3 DEF Eval!Passed
<1>6. Eval!LittleLost'
  BY <1>2, <1>5 DEF Eval!LittleLost, Eval!Lost, Eval!EvalTypes
<1> QED
  BY <1>1, <1>4, <1>6

LEMMA EvalOneRun ==
  ASSUME Eval!EvalInv,
         Eval!Begin \/ (\E s \in {"ended", "rate_limited"} : Eval!RunOne(s)) \/ Eval!CannotRun
  PROVE  Eval!EvalInv'
<1>1. CASE Eval!Begin
  BY <1>1, EvalOnlyPc, EvalKeysAre DEF Eval!Begin
<1>2. ASSUME NEW s \in {"ended", "rate_limited"}, Eval!RunOne(s) PROVE Eval!EvalInv'
  <2>1. v3 = "running" /\ v6' = [key |-> EvalOrder[v5], status |-> s] /\ v3' = "row"
        /\ UNCHANGED <<v1, v2, v4, v5, v7, v8>>
    BY <1>2 DEF Eval!RunOne
  <2>2. v5 \in 1 .. EvalKeys
    BY <2>1, EvalKeysAre DEF Eval!EvalInv, Eval!EvalTypes
  <2>3. EvalOrder[v5] \in Eval!ToSet(EvalOrder)
    BY <2>2, EvalBefore
  <2>4. v6' \in Eval!Row /\ v6'.key = EvalOrder[v5]
    BY <2>1, <2>3 DEF Eval!Row
  <2> QED
    BY <2>1, <2>4, EvalOnlyPc
<1>3. CASE Eval!CannotRun
  BY <1>3, EvalOnlyPc DEF Eval!CannotRun
<1> QED
  BY <1>1, <1>2, <1>3

LEMMA EvalWriteRow ==
  ASSUME Eval!EvalInv, Eval!WriteRow
  PROVE  Eval!EvalInv'
<1> USE DEF Eval!EvalInv
<1>1. /\ v3 = "row" /\ v1' = Eval!Put(v6) /\ v3' = "newline" /\ UNCHANGED <<v2, v4, v5, v6, v7, v8>>
  BY DEF Eval!WriteRow
<1>2. /\ v6 \in Eval!Row /\ v6.key = EvalOrder[v5] /\ v5 \in 1 .. EvalKeys /\ EvalOrder[v5] \notin v4
      /\ v2 /\ ~v7 /\ v8 \in Nat
  BY <1>1, EvalKeysAre DEF Eval!EvalTypes
<1>3. v6 \in EvalPiece
  BY <1>2 DEF EvalPiece
<1>4. EvalOrder[v5] \in Eval!ToSet(EvalOrder) /\ EvalOrder[v5] \notin Eval!Before /\ Eval!Before' = Eval!Before
  BY <1>1, <1>2, EvalBefore
<1>5. Eval!Counted \subseteq v4 \cup Eval!Before /\ v6.key \notin Eval!Counted /\ Eval!EachOnce
  BY <1>1, <1>2, <1>4 DEF Eval!CountedOnce
<1>6. /\ v1' \in Seq(Seq(EvalPiece)) /\ v1' # <<>>
      /\ Eval!Counted' \subseteq Eval!Counted \cup {EvalOrder[v5]}
      /\ ~Eval!Unended => Eval!Counted \subseteq Eval!Counted'
      /\ ~Eval!Unended /\ v6.status = "ended" => EvalOrder[v5] \in Eval!Counted'
      /\ \E a \in Eval!ToSet(EvalOrder) : Eval!Counted \subseteq Eval!Counted' \cup {a}
      /\ Eval!EachOnce'
  BY <1>1, <1>2, <1>3, <1>5, EvalPut
<1>7. Eval!EvalTypes'
  BY <1>1, <1>2, <1>6 DEF Eval!EvalTypes, EvalPiece
<1>8. Eval!CountedOnce'
  BY <1>1, <1>4, <1>5, <1>6 DEF Eval!CountedOnce
<1>9. /\ Eval!Passed = v4 \cup Eval!Before
      /\ Eval!Passed' = Eval!Passed \cup (IF v6.status = "ended" THEN {EvalOrder[v5]} ELSE {})
  BY <1>1, <1>4 DEF Eval!Passed
<1>10. Eval!Lost(Eval!Passed)
  BY <1>1 DEF Eval!LittleLost
<1>11. Eval!Lost(Eval!Passed)'
  <2>1. CASE Eval!Unended
    <3>1. v8 > 0 /\ Eval!Passed \subseteq Eval!Counted
      BY <1>1, <1>2, <1>10, <2>1 DEF Eval!LittleLost, Eval!Lost
    <3>2. \E a, b \in Eval!ToSet(EvalOrder) : Eval!Passed' \subseteq Eval!Counted' \cup {a, b}
      BY <1>4, <1>6, <1>9, <3>1
    <3> QED
      BY <1>1, <3>1, <3>2 DEF Eval!Lost
  <2>2. CASE ~Eval!Unended
    <3>1. \A keys : keys \subseteq Eval!Counted => keys \subseteq Eval!Counted'
      BY <1>6, <2>2
    <3>2. v8 = 0 => Eval!Passed' \subseteq Eval!Counted'
      BY <1>6, <1>9, <1>10, <2>2 DEF Eval!Lost
    <3>3. \E a, b \in Eval!ToSet(EvalOrder) : Eval!Passed' \subseteq Eval!Counted' \cup {a, b}
      BY <1>6, <1>9, <1>10, <2>2 DEF Eval!Lost
    <3> QED
      BY <1>1, <3>2, <3>3 DEF Eval!Lost
  <2> QED
    BY <2>1, <2>2
<1>12. Eval!LittleLost'
  BY <1>1, <1>11 DEF Eval!LittleLost
<1> QED
  BY <1>7, <1>8, <1>12

LEMMA EvalEndLine ==
  ASSUME Eval!EvalInv, Eval!EndLine
  PROVE  Eval!EvalInv'
<1> USE DEF Eval!EvalInv
<1>1. /\ v3 = "newline" /\ v1' = Append(v1, <<>>)
      /\ v3' = (IF v6.status = "rate_limited" THEN "off" ELSE "next") /\ v5' = v5 + 1
      /\ UNCHANGED <<v2, v4, v6, v7, v8>>
  BY DEF Eval!EndLine
<1>2. /\ v6 \in Eval!Row /\ v6.key = EvalOrder[v5] /\ v5 \in 1 .. EvalKeys
      /\ v2 /\ ~v7 /\ v8 \in Nat /\ v5 + 1 \in Nat \ {0}
  BY <1>1, EvalKeysAre DEF Eval!EvalTypes
<1>3. v6.status \in {"ended", "rate_limited"}
  BY <1>2 DEF Eval!Row
<1>4. /\ v1' \in Seq(Seq(EvalPiece)) /\ v1' # <<>> /\ ~Eval!Unended'
      /\ Eval!Counted' = Eval!Counted /\ Eval!EachOnce'
  BY <1>1, EvalNewline DEF Eval!CountedOnce
<1>5. Eval!Before' = Eval!Before \cup {EvalOrder[v5]}
  BY <1>1, <1>2, EvalBefore
<1>6. Eval!EvalTypes'
  BY <1>1, <1>2, <1>4 DEF Eval!EvalTypes, EvalPiece
<1>7. Eval!CountedOnce'
  BY <1>1, <1>4, <1>5 DEF Eval!CountedOnce
<1>8. Eval!LittleLost'
  <2>1. CASE v6.status = "rate_limited"
    BY <1>1, <1>2, <1>4, <2>1 DEF Eval!LittleLost
  <2>2. CASE v6.status = "ended"
    <3>1. v3' = "next" /\ Eval!Passed' = Eval!Passed
      BY <1>1, <1>5, <2>2 DEF Eval!Passed
    <3>2. Eval!Lost(Eval!Passed)
      BY <1>1 DEF Eval!LittleLost
    <3> QED
      BY <1>1, <1>4, <3>1, <3>2 DEF Eval!LittleLost, Eval!Lost
  <2> QED
    BY <1>3, <2>1, <2>2
<1> QED
  BY <1>6, <1>7, <1>8

LEMMA EvalFinish ==
  ASSUME Eval!EvalInv, Eval!Finish
  PROVE  Eval!EvalInv'
<1> USE DEF Eval!EvalInv
<1>1. v3 = "next" /\ v5 > EvalKeys /\ v3' = "off" /\ v7' = TRUE /\ UNCHANGED <<v1, v2, v4, v5, v6, v8>>
  BY EvalKeysAre DEF Eval!Finish
<1>2. Eval!EvalTypes'
  BY <1>1 DEF Eval!EvalTypes
<1>3. Eval!Counted' = Eval!Counted /\ (Eval!Unended' <=> Eval!Unended) /\ Eval!EachOnce'
  BY <1>1, EvalSame DEF Eval!CountedOnce
<1>4. Eval!CountedOnce'
  BY <1>1, <1>3 DEF Eval!CountedOnce
<1>5. Eval!ToSet(EvalOrder) \subseteq Eval!Passed
  BY <1>1, EvalBefore DEF Eval!EvalTypes, Eval!Passed
<1>6. Eval!Lost(Eval!Passed)
  BY <1>1 DEF Eval!LittleLost
<1>7. Eval!LittleLost'
  BY <1>1, <1>3, <1>5, <1>6 DEF Eval!LittleLost, Eval!Lost
<1> QED
  BY <1>2, <1>4, <1>7

LEMMA EvalDie ==
  ASSUME Eval!EvalInv, NEW torn \in BOOLEAN, Eval!Die(torn)
  PROVE  Eval!EvalInv'
<1> USE DEF Eval!EvalInv
<1>1. /\ v3 # "off" /\ v3' = "off" /\ v8' = v8 + 1 /\ UNCHANGED <<v2, v4, v5, v6, v7>>
      /\ v1' = (IF torn THEN Eval!Put(Eval!Torn) ELSE v1)
  BY DEF Eval!Die
<1>2. v2 /\ ~v7 /\ v8 \in Nat
  BY <1>1 DEF Eval!EvalTypes
<1>3. v1' \in Seq(Seq(EvalPiece)) /\ v1' # <<>> /\ Eval!EachOnce'
  <2>1. CASE torn
    <3>1. Eval!Torn \in EvalPiece /\ Eval!Torn.status = "torn"
      BY DEF EvalPiece, Eval!Torn
    <3> QED
      BY <1>1, <2>1, <3>1, EvalPut DEF Eval!CountedOnce
  <2>2. CASE ~torn
    BY <1>1, <2>2, EvalSame DEF Eval!CountedOnce, Eval!EvalTypes, EvalPiece
  <2> QED
    BY <2>1, <2>2
<1>4. Eval!EvalTypes'
  BY <1>1, <1>2, <1>3 DEF Eval!EvalTypes, EvalPiece
<1>5. Eval!CountedOnce'
  BY <1>1, <1>3 DEF Eval!CountedOnce
<1>6. Eval!LittleLost'
  BY <1>1, <1>2 DEF Eval!LittleLost
<1> QED
  BY <1>4, <1>5, <1>6

LEMMA EvalStep == Eval!EvalInv /\ [Eval!Next]_(Eval!vars) => Eval!EvalInv'
<1> SUFFICES ASSUME Eval!EvalInv, [Eval!Next]_(Eval!vars) PROVE Eval!EvalInv'
  OBVIOUS
<1>1. CASE UNCHANGED Eval!vars
  <2>1. UNCHANGED <<v1, v2, v3, v4, v5, v6, v7, v8>>
    BY <1>1 DEF Eval!vars
  <2>2. Eval!Counted' = Eval!Counted /\ (Eval!Unended' <=> Eval!Unended) /\ Eval!EachOnce' /\ Eval!Before' = Eval!Before
    BY <2>1, EvalSame, EvalBefore DEF Eval!EvalInv, Eval!CountedOnce
  <2> QED
    BY <2>1, <2>2 DEF Eval!EvalInv, Eval!EvalTypes, Eval!CountedOnce, Eval!LittleLost, Eval!Lost, Eval!Passed
<1>2. CASE Eval!Next
  BY <1>2, EvalStart, EvalSkip, EvalOneRun, EvalWriteRow, EvalEndLine, EvalFinish, EvalDie DEF Eval!Next
<1> QED
  BY <1>1, <1>2

LEMMA EvalRunsOnce == Eval!EvalInv => Eval!RunsOnce
<1> SUFFICES ASSUME Eval!EvalInv PROVE Eval!RunsOnce
  OBVIOUS
<1> USE DEF Eval!EvalInv
<1>1. ASSUME NEW i \in DOMAIN v1, NEW j \in DOMAIN v1, i # j, Len(v1[i]) = 1, Len(v1[j]) = 1
      PROVE  \/ v1[i][1].key # v1[j][1].key
             \/ {v1[i][1].status, v1[j][1].status} \cap {"rate_limited", "torn"} # {}
  <2>1. v1[i] \in Seq(EvalPiece) /\ v1[j] \in Seq(EvalPiece)
    BY DEF Eval!EvalTypes, EvalPiece
  <2> HIDE DEF Eval!EvalInv
  <2>2. v1[i][1] \in EvalPiece /\ v1[j][1] \in EvalPiece
    <3>1. \A line \in Seq(EvalPiece) : Len(line) = 1 => line[1] \in EvalPiece
      OBVIOUS
    <3> QED
      BY <1>1, <2>1, <3>1
  <2>3. \A p \in EvalPiece : p.status \in {"ended", "rate_limited", "torn"}
    BY DEF EvalPiece, Eval!Row, Eval!Torn
  <2> QED
    BY <1>1, <2>2, <2>3 DEF Eval!EvalInv, Eval!CountedOnce, Eval!EachOnce, Eval!Counts
<1>2. ASSUME v3 = "off", v7
      PROVE  Cardinality(Eval!Missing) <= 2 * v8
  <2>1. Eval!Lost(Eval!ToSet(EvalOrder)) /\ v8 \in Nat
    BY <1>2 DEF Eval!LittleLost, Eval!EvalTypes
  <2>2. Eval!Missing = Eval!ToSet(EvalOrder) \ Eval!Counted
    BY EvalFinished DEF Eval!Missing
  <2>3. CASE v8 = 0
    <3>1. Eval!Missing = {}
      BY <2>1, <2>2, <2>3 DEF Eval!Lost
    <3> QED
      BY <2>3, <3>1, FS_EmptySet
  <2>4. CASE v8 # 0
    <3>1. PICK a, b : Eval!Missing \subseteq {a, b}
      BY <2>1, <2>2 DEF Eval!Lost
    <3>2. IsFiniteSet({a}) /\ Cardinality({a}) = 1
      BY FS_Singleton
    <3>3. IsFiniteSet({a} \cup {b}) /\ Cardinality({a} \cup {b}) \in {1, 2}
      BY <3>2, FS_AddElement
    <3>4. Eval!Missing \in SUBSET ({a} \cup {b})
      BY <3>1
    <3>5. IsFiniteSet(Eval!Missing) /\ Cardinality(Eval!Missing) <= Cardinality({a} \cup {b})
      BY <3>3, <3>4, FS_Subset
    <3>6. Cardinality(Eval!Missing) \in Nat
      BY <3>5, FS_CardinalityType
    <3> QED
      BY <2>1, <2>4, <3>3, <3>5, <3>6
  <2> QED
    BY <2>1, <2>3, <2>4
<1>3. v3 = "off" /\ v7 => Cardinality(Eval!Missing) <= 2 * v8
  BY <1>2
<1>4. Eval!Cardinality(Eval!Missing) = Cardinality(Eval!Missing)
  BY DEF Eval!Cardinality, Cardinality
<1> HIDE DEF Eval!EvalInv
<1> QED
  BY <1>1, <1>3, <1>4 DEF Eval!RunsOnce

-----------------------------------------------------------------------------
ShellTool == INSTANCE ShellCall WITH
        procs <- v1, holds <- v2, written <- v3,
        unread <- v4, head <- v5, tail <- v6, omitted <- v7, reader <- v8,
        phase <- v9, ending <- v10, drain <- v11, token <- v12, now <- v13,
        since <- v14

(* The tool waits for the pipes (DRAIN_GRACE) for less than the turn gives *)
(* it beyond its own timeout (Tool::timeout).                              *)
ASSUME ShellAssumption ==
  /\ "sh" \notin Children
  /\ Timeout \in Nat /\ DrainGrace \in Nat /\ Slack \in Nat /\ 0 < DrainGrace /\ DrainGrace < Slack

(* A shell call and its end.                                               *)
LEMMA ShellInit == ShellTool!Init => ShellTool!CallInv
<1> SUFFICES ASSUME ShellTool!Init PROVE ShellTool!CallInv
  OBVIOUS
<1> USE ShellAssumption DEF ShellAssumption, ShellTool!Init, ShellTool!Pipes
<1>1. ShellTool!CallTypes
  BY DEF ShellTool!CallTypes
<1>2. ShellTool!GroupKilled /\ ShellTool!HeardOut /\ ShellTool!OwnTimeoutFirst /\ ShellTool!InTime
  BY DEF ShellTool!GroupKilled, ShellTool!HeardOut, ShellTool!OwnTimeoutFirst, ShellTool!InTime
<1>3. ShellTool!Counted
  BY DEF ShellTool!Counted
<1> QED
  BY <1>1, <1>2, <1>3 DEF ShellTool!CallInv

LEMMA ShellWrites ==
  ASSUME ShellTool!CallInv, NEW p \in ShellTool!All, NEW s \in ShellTool!Pipes, ShellTool!Write(p, s)
  PROVE  ShellTool!CallInv'
<1> USE DEF ShellTool!CallInv, ShellTool!CallTypes
<1>1. ShellTool!CallTypes'
  BY DEF ShellTool!Write, ShellTool!call
<1>2. ShellTool!Counted'
  <2> SUFFICES ASSUME NEW t \in ShellTool!Pipes
               PROVE  /\ (v5[t] + v6[t] + v7[t] + v4[t] = v3[t])'
                      /\ (v8[t] = "ended" => v4[t] = 0 /\ ShellTool!Holders(t) = {})'
    BY DEF ShellTool!Counted
  <2>1. /\ v5[t] \in Nat /\ v6[t] \in Nat /\ v7[t] \in Nat /\ v4[t] \in Nat /\ v3[t] \in Nat
        /\ v5[t] + v6[t] + v7[t] + v4[t] = v3[t]
        /\ v8[t] = "ended" => v4[t] = 0 /\ ShellTool!Holders(t) = {}
    BY DEF ShellTool!Counted
  <2>2. p \in ShellTool!Holders(s) /\ ShellTool!Holders(t)' = ShellTool!Holders(t)
    BY DEF ShellTool!Write, ShellTool!Holders, ShellTool!Alive
  <2>3. v5' = v5 /\ v6' = v6 /\ v7' = v7 /\ v8' = v8
    BY DEF ShellTool!Write
  <2>4. CASE t = s
    BY <2>1, <2>2, <2>3, <2>4 DEF ShellTool!Write
  <2>5. CASE t # s
    <3>1. v3'[t] = v3[t] /\ v4'[t] = v4[t]
      BY <2>5 DEF ShellTool!Write
    <3> QED
      BY <3>1, <2>1, <2>2, <2>3
  <2> QED
    BY <2>4, <2>5
<1>3. ShellTool!GroupKilled' /\ ShellTool!OwnTimeoutFirst' /\ ShellTool!HeardOut'
  BY DEF ShellTool!Write, ShellTool!call, ShellTool!GroupKilled, ShellTool!HeardOut, ShellTool!OwnTimeoutFirst, ShellTool!NoneEscaped
<1>4. ShellTool!InTime'
  BY DEF ShellTool!Write, ShellTool!call, ShellTool!InTime
<1> QED
  BY <1>1, <1>2, <1>3, <1>4
LEMMA ShellReads ==
  ASSUME ShellTool!CallInv, NEW s \in ShellTool!Pipes, ShellTool!ReadChunk(s)
  PROVE  ShellTool!CallInv'
<1> USE DEF ShellTool!CallInv, ShellTool!CallTypes
<1>1. v3' = v3 /\ v8' = v8 /\ v4' = [v4 EXCEPT ![s] = @ - 1] /\ v4[s] > 0 /\ v8[s] = "reading"
  BY DEF ShellTool!ReadChunk
<1>2. ShellTool!CallTypes' /\ \A t \in ShellTool!Pipes : (v5[t] + v6[t] + v7[t] + v4[t] = v3[t])'
  <2>1. CASE v5[s] < Half
    <3>1. v5' = [v5 EXCEPT ![s] = @ + 1] /\ v6' = v6 /\ v7' = v7
      BY <2>1 DEF ShellTool!ReadChunk, ShellTool!Push
    <3> QED
      BY <1>1, <3>1 DEF ShellTool!ReadChunk, ShellTool!call, ShellTool!Counted
  <2>2. CASE ~(v5[s] < Half)
    <3>1. /\ v5' = v5 /\ v6' = [v6 EXCEPT ![s] = IF @ < Half THEN @ + 1 ELSE @]
          /\ v7' = [v7 EXCEPT ![s] = IF v6[s] < Half THEN @ ELSE @ + 1]
      BY <2>2 DEF ShellTool!ReadChunk, ShellTool!Push
    <3>2. \A t \in ShellTool!Pipes : (v5[t] + v6[t] + v7[t] + v4[t] = v3[t])'
      BY <1>1, <3>1 DEF ShellTool!Counted
    <3> QED
      BY <1>1, <3>1, <3>2 DEF ShellTool!ReadChunk, ShellTool!call
  <2> QED
    BY <2>1, <2>2
<1>3. ShellTool!Counted'
  <2> SUFFICES ASSUME NEW t \in ShellTool!Pipes, v8[t] = "ended"
               PROVE  v4'[t] = 0 /\ ShellTool!Holders(t)' = {}
    BY <1>1, <1>2 DEF ShellTool!Counted
  <2>1. t # s /\ v4[t] = 0 /\ ShellTool!Holders(t) = {}
    BY <1>1 DEF ShellTool!Counted
  <2> QED
    BY <1>1, <2>1 DEF ShellTool!ReadChunk, ShellTool!Holders, ShellTool!Alive
<1>4. ShellTool!GroupKilled' /\ ShellTool!OwnTimeoutFirst' /\ ShellTool!HeardOut' /\ ShellTool!InTime'
  BY DEF ShellTool!ReadChunk, ShellTool!call, ShellTool!GroupKilled, ShellTool!HeardOut, ShellTool!OwnTimeoutFirst, ShellTool!NoneEscaped, ShellTool!InTime
<1> QED
  BY <1>2, <1>3, <1>4

LEMMA ShellReadsEnd ==
  ASSUME ShellTool!CallInv, NEW s \in ShellTool!Pipes, ShellTool!ReadEnd(s)
  PROVE  ShellTool!CallInv'
<1> USE DEF ShellTool!CallInv, ShellTool!CallTypes
<1>1. ShellTool!CallTypes'
  BY DEF ShellTool!ReadEnd, ShellTool!call
<1>2. ShellTool!Counted'
  <2> SUFFICES ASSUME NEW t \in ShellTool!Pipes, v8'[t] = "ended"
               PROVE  v4[t] = 0 /\ ShellTool!Holders(t)' = {}
    BY DEF ShellTool!Counted, ShellTool!ReadEnd
  <2>1. ShellTool!Holders(t)' = ShellTool!Holders(t)
    BY DEF ShellTool!ReadEnd, ShellTool!Holders, ShellTool!Alive
  <2>2. t = s \/ v8[t] = "ended"
    BY DEF ShellTool!ReadEnd
  <2> QED
    BY <2>1, <2>2 DEF ShellTool!ReadEnd, ShellTool!Counted
<1>3. ShellTool!GroupKilled' /\ ShellTool!OwnTimeoutFirst' /\ ShellTool!InTime'
  BY DEF ShellTool!ReadEnd, ShellTool!call, ShellTool!GroupKilled, ShellTool!OwnTimeoutFirst, ShellTool!InTime
<1>4. ShellTool!HeardOut'
  BY DEF ShellTool!ReadEnd, ShellTool!call, ShellTool!HeardOut, ShellTool!NoneEscaped
<1> QED
  BY <1>1, <1>2, <1>3, <1>4

(* A step of the command: it may start or end processes, and close pipes.  *)
LEMMA ShellRuns ==
  ASSUME ShellTool!CallInv, NEW p \in ShellTool!All,
         ShellTool!Escape(p) \/ ShellTool!CloseOutput(p) \/ ShellTool!Exit(p) \/ \E q \in Children : ShellTool!Fork(p, q)
  PROVE  ShellTool!CallInv'
<1> USE DEF ShellTool!CallInv, ShellTool!CallTypes
<1>1. UNCHANGED <<ShellTool!output, ShellTool!call, v12, v13>>
  BY DEF ShellTool!Escape, ShellTool!CloseOutput, ShellTool!Exit, ShellTool!Fork
<1>2. /\ v1' \in [ShellTool!All -> {"none", "group", "dead", "escaped", "left"}]
      /\ v2' \in [ShellTool!All -> SUBSET ShellTool!Pipes]
  BY DEF ShellTool!Escape, ShellTool!CloseOutput, ShellTool!Exit, ShellTool!Fork, ShellTool!Pipes, ShellTool!All
<1>3. ShellTool!NoneEscaped' => ShellTool!NoneEscaped
  BY DEF ShellTool!Escape, ShellTool!CloseOutput, ShellTool!Exit, ShellTool!Fork, ShellTool!NoneEscaped, ShellTool!Alive, ShellTool!All
<1>4. \A q \in ShellTool!All : v1'[q] = "group" => \E r \in ShellTool!All : v1[r] = "group"
  BY DEF ShellTool!Escape, ShellTool!CloseOutput, ShellTool!Exit, ShellTool!Fork, ShellTool!Alive, ShellTool!All
<1>5. \A t \in ShellTool!Pipes : ShellTool!Holders(t) = {} => ShellTool!Holders(t)' = {}
  <2> SUFFICES ASSUME NEW t \in ShellTool!Pipes, ShellTool!Holders(t) = {}, NEW q \in ShellTool!Holders(t)'
               PROVE  FALSE
    OBVIOUS
  <2>1. q \in ShellTool!All /\ v1'[q] \in {"group", "escaped"} /\ t \in v2'[q]
    BY DEF ShellTool!Holders, ShellTool!Alive
  <2>2. \A r \in ShellTool!All : v1[r] \in {"group", "escaped"} => t \notin v2[r]
    BY DEF ShellTool!Holders, ShellTool!Alive
  <2>3. CASE ShellTool!Escape(p)
    BY <2>1, <2>2, <2>3 DEF ShellTool!Escape
  <2>4. CASE ShellTool!CloseOutput(p)
    BY <2>1, <2>2, <2>4 DEF ShellTool!CloseOutput
  <2>5. CASE ShellTool!Exit(p)
    BY <2>1, <2>2, <2>5 DEF ShellTool!Exit
  <2>6. ASSUME NEW r \in Children, ShellTool!Fork(p, r) PROVE FALSE
    BY <2>1, <2>2, <2>6 DEF ShellTool!Fork, ShellTool!Alive, ShellTool!All
  <2> QED
    BY <2>3, <2>4, <2>5, <2>6
<1>6. ShellTool!CallTypes'
  BY <1>1, <1>2 DEF ShellTool!output, ShellTool!call
<1>7. ShellTool!Counted'
  BY <1>1, <1>5 DEF ShellTool!Counted, ShellTool!output
<1>8. ShellTool!GroupKilled'
  BY <1>1, <1>4 DEF ShellTool!GroupKilled, ShellTool!call
<1>9. ShellTool!HeardOut'
  BY <1>1, <1>3 DEF ShellTool!HeardOut, ShellTool!call, ShellTool!output
<1>10. ShellTool!InTime' /\ ShellTool!OwnTimeoutFirst'
  BY <1>1 DEF ShellTool!InTime, ShellTool!OwnTimeoutFirst, ShellTool!call
<1> QED
  BY <1>6, <1>7, <1>8, <1>9, <1>10
LEMMA ShellKills ==
  ASSUME ShellTool!CallTypes, ShellTool!KillGroup
  PROVE  /\ v1' \in [ShellTool!All -> {"none", "group", "dead", "escaped", "left"}]
         /\ \A p \in ShellTool!All : v1'[p] # "group"
         /\ ShellTool!NoneEscaped' <=> ShellTool!NoneEscaped
         /\ v2' = v2 => \A t \in ShellTool!Pipes : ShellTool!Holders(t) = {} => ShellTool!Holders(t)' = {}
BY DEF ShellTool!CallTypes, ShellTool!KillGroup, ShellTool!NoneEscaped, ShellTool!Holders, ShellTool!Alive

LEMMA ShellEnds ==
  ASSUME ShellTool!CallInv, ShellTool!CommandExits \/ ShellTool!TimesOut
  PROVE  ShellTool!CallInv'
<1>1. /\ v9 = "running" /\ v9' = "draining" /\ v14' = v13 /\ ShellTool!KillGroup
      /\ v10' \in {"exited", "timed out"}
      /\ UNCHANGED <<v2, ShellTool!output, v11, v12, v13>>
  BY DEF ShellTool!CommandExits, ShellTool!TimesOut, ShellTool!Ended
<1>2. /\ v1' \in [ShellTool!All -> {"none", "group", "dead", "escaped", "left"}]
      /\ \A p \in ShellTool!All : v1'[p] # "group"
      /\ \A t \in ShellTool!Pipes : ShellTool!Holders(t) = {} => ShellTool!Holders(t)' = {}
  BY <1>1, ShellKills DEF ShellTool!CallInv
<1>3. ShellTool!CallTypes'
  BY <1>1, <1>2 DEF ShellTool!CallInv, ShellTool!CallTypes, ShellTool!output
<1>4. ShellTool!Counted'
  BY <1>1, <1>2 DEF ShellTool!CallInv, ShellTool!Counted, ShellTool!output
<1>5. ShellTool!GroupKilled' /\ ShellTool!OwnTimeoutFirst'
  BY <1>1, <1>2 DEF ShellTool!GroupKilled, ShellTool!OwnTimeoutFirst
<1>6. ShellTool!InTime'
  <2>1. v13 \in Nat /\ v13 <= Timeout
    BY <1>1 DEF ShellTool!CallInv, ShellTool!CallTypes, ShellTool!InTime
  <2>2. "stdout" \in v11'
    BY <1>1 DEF ShellTool!CallInv, ShellTool!InTime, ShellTool!Pipes
  <2>3. v9' = "draining" /\ v14' = v13 /\ v13' = v13
    BY <1>1
  <2> QED
    BY <2>1, <2>2, <2>3, ShellAssumption DEF ShellAssumption, ShellTool!InTime
<1>7. ShellTool!HeardOut'
  BY <1>1 DEF ShellTool!CallInv, ShellTool!HeardOut, ShellTool!InTime
<1> QED
  BY <1>3, <1>4, <1>5, <1>6, <1>7 DEF ShellTool!CallInv

LEMMA ShellDrains ==
  ASSUME ShellTool!CallInv, ShellTool!Drained \/ ShellTool!Returns
  PROVE  ShellTool!CallInv'
<1> USE DEF ShellTool!CallInv
<1>1. UNCHANGED <<v1, v2, ShellTool!output, v10, v12, v13>> /\ v9 = "draining"
  BY DEF ShellTool!Drained, ShellTool!Returns
<1>2. CASE ShellTool!Drained
  <2>1. /\ v9' = "draining" /\ v14' = v13 /\ v11 # {} /\ v11' = v11 \ {ShellTool!Next1}
        /\ v8[ShellTool!Next1] = "ended" \/ ShellTool!GraceOver
    BY <1>2 DEF ShellTool!Drained
  <2>2. \/ v11 = ShellTool!Pipes /\ ShellTool!Next1 = "stdout" /\ v11' = {"stderr"}
        \/ v11 = {"stderr"} /\ ShellTool!Next1 = "stderr" /\ v11' = {}
    BY <2>1 DEF ShellTool!CallTypes, ShellTool!Next1, ShellTool!Pipes
  <2>3. ShellTool!CallTypes'
    BY <1>1, <2>1, <2>2 DEF ShellTool!CallTypes, ShellTool!output
  <2>4. ShellTool!InTime'
    BY <1>1, <2>1, <2>2, ShellAssumption
       DEF ShellAssumption, ShellTool!InTime, ShellTool!CallTypes, ShellTool!Pipes
  <2>5. ShellTool!HeardOut'
    <3> SUFFICES ASSUME ShellTool!NoneEscaped
                 PROVE  \A s \in ShellTool!Pipes \ v11' : v8[s] = "ended"
      BY <1>1, <2>1 DEF ShellTool!HeardOut, ShellTool!NoneEscaped, ShellTool!output
    <3>1. v13 = v14 /\ ~ShellTool!GraceOver
      BY <1>1, ShellAssumption DEF ShellAssumption, ShellTool!HeardOut, ShellTool!GraceOver, ShellTool!CallTypes
    <3> QED
      BY <1>1, <2>1, <2>2, <3>1 DEF ShellTool!HeardOut, ShellTool!Pipes
  <2>6. ShellTool!Counted' /\ ShellTool!GroupKilled' /\ ShellTool!OwnTimeoutFirst'
    BY <1>1, <2>1 DEF ShellTool!Counted, ShellTool!GroupKilled, ShellTool!OwnTimeoutFirst, ShellTool!output, ShellTool!Holders, ShellTool!Alive
  <2> QED
    BY <2>3, <2>4, <2>5, <2>6
<1>3. CASE ShellTool!Returns
  <2>1. v9' = "returned" /\ v11 = {} /\ v11' = {} /\ v14' = v14
    BY <1>3 DEF ShellTool!Returns
  <2>2. ShellTool!CallTypes' /\ ShellTool!InTime' /\ ShellTool!HeardOut'
    BY <1>1, <2>1 DEF ShellTool!CallTypes, ShellTool!InTime, ShellTool!HeardOut, ShellTool!NoneEscaped, ShellTool!output
  <2>3. ShellTool!Counted' /\ ShellTool!GroupKilled' /\ ShellTool!OwnTimeoutFirst'
    BY <1>1, <2>1 DEF ShellTool!Counted, ShellTool!GroupKilled, ShellTool!OwnTimeoutFirst, ShellTool!output, ShellTool!Holders, ShellTool!Alive
  <2> QED
    BY <2>2, <2>3
<1> QED
  BY <1>2, <1>3

(* The agent's timeout has not come while the call lives.                  *)
LEMMA ShellNeverLate ==
  ASSUME ShellTool!CallInv, v9 \in {"running", "draining"}
  PROVE  v13 < ShellTool!Deadline
<1>1. v13 \in Nat /\ v14 \in Nat /\ v11 \in {ShellTool!Pipes, {"stderr"}, {}}
  BY DEF ShellTool!CallInv, ShellTool!CallTypes
<1>2. v13 <= Timeout + DrainGrace + DrainGrace
  BY <1>1, ShellAssumption DEF ShellAssumption, ShellTool!CallInv, ShellTool!InTime
<1> QED
  BY <1>1, <1>2, ShellAssumption DEF ShellAssumption, ShellTool!Deadline

LEMMA ShellDrops ==
  ASSUME ShellTool!CallInv, ShellTool!CallCancelled \/ ShellTool!CallTimesOut
  PROVE  ShellTool!CallInv'
<1>1. ~ShellTool!CallTimesOut
  <2> SUFFICES ASSUME ShellTool!CallTimesOut PROVE FALSE
    OBVIOUS
  <2>1. v13 < ShellTool!Deadline /\ v13 >= ShellTool!Deadline
    BY ShellNeverLate DEF ShellTool!CallTimesOut, ShellTool!Dropped
  <2>2. v13 \in Nat /\ ShellTool!Deadline \in Nat
    BY ShellAssumption DEF ShellAssumption, ShellTool!CallInv, ShellTool!CallTypes, ShellTool!Deadline
  <2> QED
    BY <2>1, <2>2
<1>2. /\ v9' = "dropped" /\ v10' = "cancelled" /\ ShellTool!KillGroup
      /\ UNCHANGED <<v2, ShellTool!output, v11, v12, v13, v14>>
  BY <1>1 DEF ShellTool!CallCancelled, ShellTool!Dropped
<1>3. /\ v1' \in [ShellTool!All -> {"none", "group", "dead", "escaped", "left"}]
      /\ \A p \in ShellTool!All : v1'[p] # "group"
      /\ \A t \in ShellTool!Pipes : ShellTool!Holders(t) = {} => ShellTool!Holders(t)' = {}
  BY <1>2, ShellKills DEF ShellTool!CallInv
<1>4. ShellTool!CallTypes'
  BY <1>2, <1>3 DEF ShellTool!CallInv, ShellTool!CallTypes, ShellTool!output
<1>5. ShellTool!Counted'
  BY <1>2, <1>3 DEF ShellTool!CallInv, ShellTool!Counted, ShellTool!output
<1>6. ShellTool!GroupKilled' /\ ShellTool!OwnTimeoutFirst' /\ ShellTool!InTime' /\ ShellTool!HeardOut'
  BY <1>2, <1>3 DEF ShellTool!GroupKilled, ShellTool!OwnTimeoutFirst, ShellTool!InTime, ShellTool!HeardOut
<1> QED
  BY <1>4, <1>5, <1>6 DEF ShellTool!CallInv

LEMMA ShellWaits ==
  ASSUME ShellTool!CallInv, ShellTool!Cancel \/ ShellTool!Tick
  PROVE  ShellTool!CallInv'
<1> USE DEF ShellTool!CallInv
<1>1. UNCHANGED <<v1, v2, ShellTool!output, ShellTool!call>> /\ v9 \in {"running", "draining"}
  BY DEF ShellTool!Cancel, ShellTool!Tick
<1>2. CASE ShellTool!Cancel
  <2>1. v12' = TRUE /\ v13' = v13
    BY <1>2 DEF ShellTool!Cancel
  <2>2. ShellTool!CallTypes' /\ ShellTool!InTime' /\ ShellTool!HeardOut'
    BY <1>1, <2>1 DEF ShellTool!CallTypes, ShellTool!InTime, ShellTool!HeardOut, ShellTool!NoneEscaped, ShellTool!output, ShellTool!call
  <2>3. ShellTool!Counted' /\ ShellTool!GroupKilled' /\ ShellTool!OwnTimeoutFirst'
    BY <1>1 DEF ShellTool!Counted, ShellTool!GroupKilled, ShellTool!OwnTimeoutFirst, ShellTool!output, ShellTool!call, ShellTool!Holders, ShellTool!Alive
  <2> QED
    BY <2>2, <2>3
<1>3. CASE ShellTool!Tick
  <2>1. /\ v12' = v12 /\ v13' = v13 + 1 /\ ~ShellTool!Due
        /\ \A s \in ShellTool!Pipes : v8[s] = "reading" => ShellTool!Holders(s) # {}
    BY <1>3 DEF ShellTool!Tick
  <2>2. ShellTool!CallTypes'
    BY <1>1, <2>1 DEF ShellTool!CallTypes, ShellTool!output, ShellTool!call
  <2>3. ShellTool!InTime'
    <3>1. v9 = "running" => v13 < Timeout
      BY <2>1, ShellAssumption DEF ShellAssumption, ShellTool!Due, ShellTool!CallTypes
    <3>2. v9 = "draining" => v11 # {} /\ v13 < v14 + DrainGrace
      BY <2>1, ShellAssumption DEF ShellAssumption, ShellTool!Due, ShellTool!CallTypes, ShellTool!GraceOver
    <3> QED
      BY <1>1, <2>1, <3>1, <3>2, ShellAssumption
         DEF ShellAssumption, ShellTool!CallTypes, ShellTool!InTime, ShellTool!call
  <2>4. ShellTool!HeardOut'
    <3> SUFFICES ASSUME v9 = "draining", ShellTool!NoneEscaped PROVE FALSE
      BY <1>1 DEF ShellTool!HeardOut, ShellTool!NoneEscaped, ShellTool!output, ShellTool!call
    <3>1. v8[ShellTool!Next1] # "ended" /\ v11 # {} /\ ShellTool!Next1 \in ShellTool!Pipes
      BY <2>1 DEF ShellTool!Due, ShellTool!Next1, ShellTool!Pipes
    <3>2. ShellTool!Holders(ShellTool!Next1) # {}
      BY <2>1, <3>1 DEF ShellTool!CallTypes
    <3>3. PICK p \in ShellTool!All : ShellTool!Alive(p)
      BY <3>2 DEF ShellTool!Holders
    <3> QED
      BY <3>3 DEF ShellTool!Alive, ShellTool!NoneEscaped, ShellTool!GroupKilled
  <2>5. ShellTool!Counted' /\ ShellTool!GroupKilled' /\ ShellTool!OwnTimeoutFirst'
    BY <1>1 DEF ShellTool!Counted, ShellTool!GroupKilled, ShellTool!OwnTimeoutFirst, ShellTool!output, ShellTool!call, ShellTool!Holders, ShellTool!Alive
  <2> QED
    BY <2>2, <2>3, <2>4, <2>5
<1> QED
  BY <1>2, <1>3

LEMMA ShellStep == ShellTool!CallInv /\ [ShellTool!Next]_(ShellTool!vars) => ShellTool!CallInv'
<1> SUFFICES ASSUME ShellTool!CallInv, [ShellTool!Next]_(ShellTool!vars) PROVE ShellTool!CallInv'
  OBVIOUS
<1>1. CASE UNCHANGED ShellTool!vars
  BY <1>1 DEF ShellTool!vars, ShellTool!output, ShellTool!call, ShellTool!CallInv, ShellTool!CallTypes, ShellTool!GroupKilled, ShellTool!Counted,
              ShellTool!Holders, ShellTool!Alive, ShellTool!InTime, ShellTool!HeardOut, ShellTool!NoneEscaped, ShellTool!OwnTimeoutFirst
<1>2. CASE ShellTool!Next
  BY <1>2, ShellWrites, ShellReads, ShellReadsEnd, ShellRuns, ShellEnds, ShellDrains, ShellDrops,
     ShellWaits DEF ShellTool!Next
<1> QED
  BY <1>1, <1>2

LEMMA ShellIsOver == ShellTool!CallInv => ShellTool!CallIsOver
<1> SUFFICES ASSUME ShellTool!CallInv PROVE ShellTool!CallIsOver
  OBVIOUS
<1>1. ShellTool!GroupIsGone /\ ShellTool!OwnTimeoutFirst
  BY DEF ShellTool!CallInv, ShellTool!GroupKilled, ShellTool!GroupIsGone
<1>2. ShellTool!OutputAccounted
  <2> SUFFICES ASSUME v9 = "returned", ShellTool!NoneEscaped, NEW s \in ShellTool!Pipes
               PROVE  v5[s] + v6[s] + v7[s] = v3[s]
    BY DEF ShellTool!OutputAccounted
  <2>1. v8[s] = "ended"
    BY DEF ShellTool!CallInv, ShellTool!InTime, ShellTool!HeardOut
  <2>2. v4[s] = 0 /\ v5[s] + v6[s] + v7[s] + v4[s] = v3[s]
    BY <2>1 DEF ShellTool!CallInv, ShellTool!Counted
  <2>3. v5[s] \in Nat /\ v6[s] \in Nat /\ v7[s] \in Nat
    BY DEF ShellTool!CallInv, ShellTool!CallTypes
  <2> QED
    BY <2>2, <2>3
<1> QED
  BY <1>1, <1>2 DEF ShellTool!CallIsOver

-----------------------------------------------------------------------------
ModelOf == INSTANCE ModelChoice WITH
        Specs <- ModelSpecs, Efforts <- ChatEfforts, keys <- v1,
        installed <- v2, host <- v3, selection <- v4, agent <- v5,
        factory <- v6, saved <- v7

(* Models are named by sequences of parts.                                 *)
ASSUME ChoiceAssumption == \A s \in ModelSpecs : s \in Seq(ModelOf!ToSet(s))

(* Which model answers a chat.                                             *)
LEMMA PartsOfSeq ==
  \A S : \A s \in Seq(S) :
    /\ Len(s) = 1 => s[1] \in S /\ <<s[1]>> \in Seq(S) /\ s = <<s[1]>>
    /\ s # <<>> => Head(s) \in S /\ Tail(s) \in Seq(S)
OBVIOUS

LEMMA SpecIsModel == \A s \in ModelSpecs : s \in Seq(ModelOf!Parts)
<1> SUFFICES ASSUME NEW s \in ModelSpecs PROVE s \in Seq(ModelOf!Parts)
  OBVIOUS
<1>1. s \in Seq(ModelOf!ToSet(s))
  BY ChoiceAssumption DEF ChoiceAssumption
<1>2. ModelOf!ToSet(s) \subseteq ModelOf!Parts
  BY DEF ModelOf!Parts
<1> QED
  BY <1>1, <1>2

LEMMA ListedIsModel == \A p \in ModelOf!Known : \A id \in ModelOf!Listed[p] : <<id>> \in Seq(ModelOf!Parts)
BY DEF ModelOf!Parts

LEMMA KnownProviders ==
  ModelOf!Known = {"openai", "anthropic", "xai", "claude-cli", "codex", "grok"}
<1> DEFINE ps == <<"openai", "anthropic", "xai", "claude-cli", "codex", "grok">>
<1>1. DOMAIN ps = 1 .. 6
  OBVIOUS
<1>2. ModelOf!Known = {ps[i] : i \in 1 .. 6}
  BY <1>1 DEF ModelOf!Known, ModelOf!PROVIDERS, ModelOf!ToSet
<1>3. /\ ps[1] = "openai" /\ ps[2] = "anthropic" /\ ps[3] = "xai"
      /\ ps[4] = "claude-cli" /\ ps[5] = "codex" /\ ps[6] = "grok"
  OBVIOUS
<1> HIDE DEF ps
<1>4. \A i \in 1 .. 6 : i = 1 \/ i = 2 \/ i = 3 \/ i = 4 \/ i = 5 \/ i = 6
  OBVIOUS
<1>5. ModelOf!Known = {ps[1], ps[2], ps[3], ps[4], ps[5], ps[6]}
  BY <1>2, <1>4
<1> QED
  BY <1>3, <1>5

LEMMA DefaultListed == \A p \in ModelOf!Known : ModelOf!DefaultModel[p] \in ModelOf!Listed[p]
BY KnownProviders DEF ModelOf!DefaultModel, ModelOf!Listed

(* An id that is listed is listed by a provider that is known.             *)
LEMMA ListerKnown == \A id : ModelOf!Lister(id) \in ModelOf!Known \cup {ModelOf!None}
<1> SUFFICES ASSUME NEW id PROVE ModelOf!Lister(id) \in ModelOf!Known \cup {ModelOf!None}
  OBVIOUS
<1> DEFINE at == {i \in DOMAIN ModelOf!PROVIDERS : id \in ModelOf!Listed[ModelOf!PROVIDERS[i]]}
<1>1. DOMAIN ModelOf!PROVIDERS = 1 .. 6
  BY DEF ModelOf!PROVIDERS
<1>2. at \subseteq 1 .. 6
  BY <1>1
<1>3. CASE at # {}
  <2> DEFINE first == CHOOSE i \in at : \A j \in at : i <= j
  <2> HIDE DEF at
  <2>1. \E i \in at : \A j \in at : i <= j
    <3>1. 1 \in at \/ 2 \in at \/ 3 \in at \/ 4 \in at \/ 5 \in at \/ 6 \in at
      <4>1. \A i \in 1 .. 6 : i = 1 \/ i = 2 \/ i = 3 \/ i = 4 \/ i = 5 \/ i = 6
        OBVIOUS
      <4> QED
        BY <1>2, <1>3, <4>1
    <3> QED
      BY <1>2, <3>1
  <2>2. first \in at
    BY <2>1
  <2> USE DEF at
  <2>3. ModelOf!PROVIDERS[first] \in ModelOf!Known
    BY <2>2 DEF ModelOf!Known, ModelOf!ToSet
  <2> QED
    BY <1>3, <2>3 DEF ModelOf!Lister
<1>4. CASE at = {}
  BY <1>4 DEF ModelOf!Lister
<1> QED
  BY <1>3, <1>4

(* What is resolved is an error or a model of a known provider.            *)
LEMMA ResolveIsChoice ==
  ASSUME NEW p, NEW m \in Seq(ModelOf!Parts)
  PROVE  ModelOf!Resolve(p, m) = ModelOf!Error \/ ModelOf!IsChoice(ModelOf!Resolve(p, m))
<1>1. \A q \in ModelOf!Known, s \in Seq(ModelOf!Parts) : ModelOf!IsChoice(ModelOf!Choice(q, s))
  BY DEF ModelOf!IsChoice, ModelOf!Choice
<1>2. CASE p \notin ModelOf!Known \cup {ModelOf!None}
  BY <1>2 DEF ModelOf!Resolve
<1>3. CASE p \in ModelOf!Known \cup {ModelOf!None} /\ m \in {<<>>, <<"">>}
  <2> DEFINE q == IF p = ModelOf!None THEN "openai" ELSE p
  <2>1. q \in ModelOf!Known /\ <<ModelOf!DefaultModel[q]>> \in Seq(ModelOf!Parts)
    BY <1>3, KnownProviders, DefaultListed, ListedIsModel
  <2>2. ModelOf!Resolve(p, m) = ModelOf!Choice(q, <<ModelOf!DefaultModel[q]>>)
    BY <1>3 DEF ModelOf!Resolve
  <2> QED
    BY <1>1, <2>1, <2>2
<1>4. CASE p \in ModelOf!Known \cup {ModelOf!None} /\ m \notin {<<>>, <<"">>} /\ Len(m) = 1
  <2>1. ModelOf!Resolve(p, m) = ModelOf!ResolveBare(p, m[1])
    BY <1>4 DEF ModelOf!Resolve
  <2>2. m[1] \in ModelOf!Parts /\ <<m[1]>> \in Seq(ModelOf!Parts)
    BY <1>4, PartsOfSeq
  <2>3. ModelOf!Infer(m[1]) \in ModelOf!Known \cup {ModelOf!None}
    BY KnownProviders DEF ModelOf!Infer
  <2> DEFINE q == IF p # ModelOf!None THEN p
                  ELSE IF ModelOf!Lister(m[1]) # ModelOf!None THEN ModelOf!Lister(m[1]) ELSE ModelOf!Infer(m[1])
  <2>4. q \in ModelOf!Known \cup {ModelOf!None}
    BY <1>4, <2>3, ListerKnown
  <2>5. ModelOf!ResolveBare(p, m[1]) = IF q = ModelOf!None THEN ModelOf!Error ELSE ModelOf!Choice(q, <<m[1]>>)
    BY DEF ModelOf!ResolveBare
  <2> QED
    BY <1>1, <2>1, <2>2, <2>4, <2>5
<1>5. CASE p \in ModelOf!Known \cup {ModelOf!None} /\ m \notin {<<>>, <<"">>} /\ Len(m) # 1
  <2>1. m # <<>> /\ Tail(m) \in Seq(ModelOf!Parts)
    BY <1>5, PartsOfSeq
  <2>2. \/ ModelOf!Resolve(p, m) = ModelOf!Error
        \/ Head(m) \in ModelOf!Known /\ ModelOf!Resolve(p, m) = ModelOf!Choice(Head(m), Tail(m))
    BY <1>5 DEF ModelOf!Resolve
  <2> QED
    BY <1>1, <2>1, <2>2
<1> QED
  BY <1>2, <1>3, <1>4, <1>5

LEMMA PinIsChoice ==
  ASSUME NEW c, c = ModelOf!Error \/ ModelOf!IsChoice(c)
  PROVE  ModelOf!Pin(c) = ModelOf!Error \/ ModelOf!IsChoice(ModelOf!Pin(c))
<1>1. /\ <<"claude-sonnet-5-5">> \in Seq(ModelOf!Parts) /\ <<"claude-opus-5-5">> \in Seq(ModelOf!Parts)
      /\ "claude-cli" \in ModelOf!Known
  <2>1. "claude-sonnet-5-5" \in ModelOf!Listed["anthropic"] /\ "claude-opus-5-5" \in ModelOf!Listed["anthropic"]
    BY KnownProviders DEF ModelOf!Listed
  <2> QED
    BY <2>1, KnownProviders, ListedIsModel
<1> QED
  BY <1>1 DEF ModelOf!Pin, ModelOf!IsChoice, ModelOf!Choice

LEMMA ModelsAreChoices ==
  \A p \in ModelOf!Known : \A c \in ModelOf!Models(p) : ModelOf!IsChoice(c)
<1> SUFFICES ASSUME NEW p \in ModelOf!Known, NEW c \in ModelOf!Models(p) PROVE ModelOf!IsChoice(c)
  OBVIOUS
<1>1. PICK id \in (IF p = "claude-cli" THEN ModelOf!Listed["anthropic"] ELSE ModelOf!Listed[p]) :
        c = ModelOf!Resolve(p, <<id>>) /\ c # ModelOf!Error
  BY DEF ModelOf!Models
<1>2. <<id>> \in Seq(ModelOf!Parts)
  BY <1>1, KnownProviders, ListedIsModel
<1> QED
  BY <1>1, <1>2, ResolveIsChoice

(* What a new agent leaves in the factory, and that it is the one chosen.  *)
LEMMA UsesAsChosen ==
  ASSUME NEW f \in ModelOf!Factories, ModelOf!OneEffort(f), NEW c, ModelOf!IsChoice(c)
  PROVE  /\ ModelOf!Built(f, c) \in ModelOf!Factories /\ ModelOf!OneEffort(ModelOf!Built(f, c))
         /\ ModelOf!Built(f, c).effort = f.effort
         /\ ModelOf!AgentOf(ModelOf!Built(f, c), c).provider = c.provider
         /\ ModelOf!AgentOf(ModelOf!Built(f, c), c).model = c.model
         /\ c.provider \in {"claude-cli", "codex"} =>
              ModelOf!AgentOf(ModelOf!Built(f, c), c).effort = f.effort
<1> DEFINE p == c.provider
           g == ModelOf!Built(f, c)
           new == [started |-> TRUE, effort |-> f.effort]
<1>1. /\ f.effort \in ModelOf!SomeEffort /\ f.cached \in [ModelOf!CliBacked -> [started : BOOLEAN, effort : ModelOf!SomeEffort]]
      /\ f = [effort |-> f.effort, cached |-> f.cached]
  BY DEF ModelOf!Factories
<1>2. CASE p \in ModelOf!CliBacked /\ ~f.cached[p].started
  <2>1. g = [effort |-> f.effort, cached |-> [f.cached EXCEPT ![p] = new]]
    BY <1>1, <1>2 DEF ModelOf!Built
  <2>2. new \in [started : BOOLEAN, effort : ModelOf!SomeEffort]
    BY <1>1
  <2> HIDE DEF new
  <2>3. [f.cached EXCEPT ![p] = new] \in [ModelOf!CliBacked -> [started : BOOLEAN, effort : ModelOf!SomeEffort]]
    BY <1>1, <2>2
  <2>4. g \in ModelOf!Factories /\ g.effort = f.effort /\ g.cached = [f.cached EXCEPT ![p] = new]
    BY <1>1, <2>1, <2>3 DEF ModelOf!Factories
  <2>5. \A q \in ModelOf!CliBacked : g.cached[q] = IF q = p THEN new ELSE f.cached[q]
    BY <1>1, <1>2, <2>4
  <2>6. new.started /\ new.effort = f.effort
    BY DEF new
  <2> HIDE DEF g
  <2>7. ModelOf!OneEffort(g)
    BY <2>4, <2>5, <2>6 DEF ModelOf!OneEffort, ModelOf!CliBacked
  <2>8. ModelOf!AgentOf(g, c) = [provider |-> p, model |-> c.model, effort |-> f.effort]
    BY <1>2, <2>5, <2>6 DEF ModelOf!AgentOf
  <2> QED
    BY <2>4, <2>7, <2>8 DEF g
<1>3. CASE ~(p \in ModelOf!CliBacked /\ ~f.cached[p].started)
  <2>1. g = f
    BY <1>3 DEF ModelOf!Built
  <2>2. p \in {"claude-cli", "codex"} => p \in ModelOf!CliBacked /\ f.cached[p].effort = f.effort
    BY <1>3 DEF ModelOf!OneEffort, ModelOf!CliBacked
  <2> HIDE DEF g
  <2> QED
    BY <2>1, <2>2 DEF ModelOf!AgentOf, g
<1> QED
  BY <1>2, <1>3

LEMMA NewFactoryFits ==
  /\ ModelOf!NewFactory \in ModelOf!Factories /\ ModelOf!OneEffort(ModelOf!NewFactory)
  /\ ModelOf!NewFactory.effort = ModelOf!None
BY DEF ModelOf!NewFactory, ModelOf!NoCache, ModelOf!Factories, ModelOf!OneEffort, ModelOf!SomeEffort, ModelOf!CliBacked

(* After a change of the effort no session of another effort is left.      *)
LEMMA SetEffortFits ==
  ASSUME NEW f \in ModelOf!Factories, ModelOf!OneEffort(f), NEW e \in ModelOf!SomeEffort
  PROVE  /\ ModelOf!SetEffort(f, e) \in ModelOf!Factories /\ ModelOf!OneEffort(ModelOf!SetEffort(f, e))
         /\ ModelOf!SetEffort(f, e).effort = e
<1>1. CASE f.effort = e
  BY <1>1 DEF ModelOf!SetEffort
<1>2. CASE f.effort # e
  <2> DEFINE rest == [p \in ModelOf!CliBacked |-> IF p = "grok" THEN f.cached[p] ELSE ModelOf!NoCache[p]]
  <2>1. ModelOf!SetEffort(f, e) = [effort |-> e, cached |-> rest]
    BY <1>2 DEF ModelOf!SetEffort
  <2>2. rest \in [ModelOf!CliBacked -> [started : BOOLEAN, effort : ModelOf!SomeEffort]]
    BY DEF ModelOf!Factories, ModelOf!NoCache, ModelOf!SomeEffort
  <2>3. \A p \in {"claude-cli", "codex"} : ~rest[p].started
    BY DEF ModelOf!NoCache, ModelOf!CliBacked
  <2> HIDE DEF rest
  <2> QED
    BY <2>1, <2>2, <2>3 DEF ModelOf!Factories, ModelOf!OneEffort
<1> QED
  BY <1>1, <1>2

(* The invariant holds at first; every action keeps it by the agent it     *)
(* builds (UseKeeps) or because nothing it is about changes; and it gives  *)
(* the property.                                                           *)
LEMMA ChoiceInit == ModelOf!Init => ModelOf!ChoiceKept
BY NewFactoryFits, KnownProviders DEF ModelOf!Init, ModelOf!ChoiceKept, ModelOf!TypeOK, ModelOf!AnsweredAsSelected,
   ModelOf!SomeEffort, ModelOf!NewFactory

LEMMA UseKeeps ==
  ASSUME NEW f \in ModelOf!Factories, ModelOf!OneEffort(f), NEW c, ModelOf!IsChoice(c) \/ c = ModelOf!Error,
         NEW e, f.effort = e, ModelOf!ChoiceKept, v3' \in {"cli", "app"}, v3' = "cli" => e = ModelOf!None,
         ModelOf!Use(f, c, e), v7' = v7 \/ v7' = ModelOf!Saved(c)
  PROVE  ModelOf!ChoiceKept'
<1>1. ModelOf!IsChoice(c)
  BY DEF ModelOf!Use
<1>2. /\ v6' = ModelOf!Built(f, c) /\ v5' = ModelOf!AgentOf(v6', c)
      /\ v4' = ModelOf!Select(c, e) /\ v1' = v1 /\ v2' = v2
  BY DEF ModelOf!Use
<1>3. /\ v6' \in ModelOf!Factories /\ ModelOf!OneEffort(v6') /\ v6'.effort = e
      /\ v5'.provider = c.provider /\ v5'.model = c.model
      /\ c.provider \in {"claude-cli", "codex"} => v5'.effort = e
  BY <1>1, <1>2, UsesAsChosen
<1>4. v4'.provider = c.provider /\ v4'.model = c.model /\ v4'.effort = e
  BY <1>2 DEF ModelOf!Select
<1>5. ModelOf!TypeOK'
  BY <1>2, <1>3 DEF ModelOf!ChoiceKept, ModelOf!TypeOK, ModelOf!Factories, ModelOf!SomeEffort
<1>6. ModelOf!AnsweredAsSelected'
  BY <1>3, <1>4 DEF ModelOf!AnsweredAsSelected
<1>7. v7' = ModelOf!NoChat \/ (ModelOf!IsChoice(v7'.left) /\ v7' = ModelOf!Saved(v7'.left))
  <2>1. ModelOf!Saved(c).left = c
    BY DEF ModelOf!Saved
  <2> QED
    BY <1>1, <2>1 DEF ModelOf!ChoiceKept
<1>8. (ModelOf!OneEffort(v6))' = ModelOf!OneEffort(v6')
  BY DEF ModelOf!OneEffort
<1> QED
  BY <1>3, <1>5, <1>6, <1>7, <1>8 DEF ModelOf!ChoiceKept, ModelOf!IsChoice, ModelOf!Saved

LEMMA ChoiceStep == ModelOf!ChoiceKept /\ [ModelOf!Next]_(ModelOf!vars) => ModelOf!ChoiceKept'
<1> SUFFICES ASSUME ModelOf!ChoiceKept, [ModelOf!Next]_(ModelOf!vars) PROVE ModelOf!ChoiceKept'
  OBVIOUS
<1>1. /\ v6 \in ModelOf!Factories /\ ModelOf!OneEffort(v6) /\ (v3 = "cli" => v6.effort = ModelOf!None)
      /\ ModelOf!None \in ModelOf!SomeEffort /\ v6.effort \in ModelOf!SomeEffort
  BY DEF ModelOf!ChoiceKept, ModelOf!SomeEffort, ModelOf!Factories
<1>2. v7 # ModelOf!NoChat =>
        LET c == ModelOf!Resolve(v7.provider, v7.model) IN ModelOf!IsChoice(c) \/ c = ModelOf!Error
  <2>1. v7 # ModelOf!NoChat => v7.model \in Seq(ModelOf!Parts)
    BY DEF ModelOf!ChoiceKept, ModelOf!Saved, ModelOf!IsChoice
  <2> QED
    BY <2>1, ResolveIsChoice
<1>3. ASSUME NEW p \in ModelOf!Known \cup {ModelOf!None}, NEW s \in ModelSpecs, ModelOf!Start(p, s)
      PROVE  ModelOf!ChoiceKept'
  <2> DEFINE c == ModelOf!ResolveChoice(p, s)
  <2>1. ModelOf!IsChoice(c) \/ c = ModelOf!Error
    BY SpecIsModel, ResolveIsChoice DEF ModelOf!ResolveChoice
  <2>2. v3' = "cli" /\ ModelOf!Use(ModelOf!NewFactory, c, ModelOf!None) /\ v7' = ModelOf!Saved(c)
    BY <1>3 DEF ModelOf!Start
  <2> QED
    BY <2>1, <2>2, NewFactoryFits, UseKeeps
<1>4. CASE ModelOf!Resume
  <2> DEFINE c == ModelOf!Resolve(v7.provider, v7.model)
  <2>1. v3' = "cli" /\ ModelOf!Use(ModelOf!NewFactory, c, ModelOf!None) /\ v7' = v7 /\ v7 # ModelOf!NoChat
    BY <1>4 DEF ModelOf!Resume
  <2> QED
    BY <1>2, <2>1, NewFactoryFits, UseKeeps
<1>5. ASSUME NEW s \in ModelSpecs, ModelOf!Switch(s)
      PROVE  ModelOf!ChoiceKept'
  <2> DEFINE c == ModelOf!ParseModelSwitch(s)
  <2>1. ModelOf!IsChoice(c) \/ c = ModelOf!Error
    <3>1. <<>> \in Seq(ModelOf!Parts)
      OBVIOUS
    <3> QED
      BY <3>1, SpecIsModel, ResolveIsChoice DEF ModelOf!ParseModelSwitch
  <2>2. v3 = "cli" /\ v3' = v3 /\ ModelOf!Use(v6, c, ModelOf!None) /\ v7' = ModelOf!Saved(c)
    BY <1>5 DEF ModelOf!Switch
  <2> QED
    BY <1>1, <2>1, <2>2, UseKeeps
<1>6. ASSUME NEW p \in ModelOf!Known, NEW c \in ModelOf!Models(p), NEW e \in ChatEfforts \cup {ModelOf!None},
             ModelOf!StartInApp(p, c, e)
      PROVE  ModelOf!ChoiceKept'
  <2>1. v3' = "app" /\ ModelOf!Use(ModelOf!SetEffort(ModelOf!NewFactory, e), c, e) /\ v7' = ModelOf!Saved(c)
    BY <1>6 DEF ModelOf!StartInApp
  <2>2. e \in ModelOf!SomeEffort
    BY DEF ModelOf!SomeEffort
  <2> QED
    BY <2>1, <2>2, NewFactoryFits, SetEffortFits, ModelsAreChoices, UseKeeps
<1>7. CASE ModelOf!Reopen
  <2> DEFINE c == ModelOf!Pin(ModelOf!Resolve(v7.provider, v7.model))
  <2>1. /\ v3' = "app" /\ ModelOf!Use(ModelOf!NewFactory, c, ModelOf!None) /\ v7' = ModelOf!Saved(c)
        /\ v7 # ModelOf!NoChat
    BY <1>7 DEF ModelOf!Reopen
  <2>2. ModelOf!IsChoice(c) \/ c = ModelOf!Error
    BY <1>2, <2>1, PinIsChoice
  <2> QED
    BY <2>1, <2>2, NewFactoryFits, UseKeeps
<1>8. ASSUME NEW p \in ModelOf!Known, NEW c \in ModelOf!Models(p), NEW e \in ChatEfforts \cup {ModelOf!None},
             ModelOf!Prompt(p, c, e)
      PROVE  ModelOf!ChoiceKept'
  <2> DEFINE f == ModelOf!SetEffort(v6, e)
  <2>1. f \in ModelOf!Factories /\ ModelOf!OneEffort(f) /\ f.effort = e
    BY <1>1, SetEffortFits DEF ModelOf!SomeEffort
  <2>2. v3 = "app" /\ v3' = v3
    BY <1>8 DEF ModelOf!Prompt
  <2>3. CASE ModelOf!Use(f, c, e) /\ v7' = ModelOf!Saved(c)
    BY <2>1, <2>2, <2>3, ModelsAreChoices, UseKeeps
  <2>4. CASE v6' = f /\ UNCHANGED <<v1, v2, v4, v5, v7>>
    <3> HIDE DEF f
    <3>1. v6' \in ModelOf!Factories /\ ModelOf!OneEffort(v6') /\ v6'.effort \in ModelOf!SomeEffort
      BY <2>1, <2>4 DEF ModelOf!SomeEffort
    <3>2. (ModelOf!OneEffort(v6))' = ModelOf!OneEffort(v6')
      BY DEF ModelOf!OneEffort
    <3>3. ModelOf!TypeOK'
      BY <2>2, <2>4, <3>1 DEF ModelOf!ChoiceKept, ModelOf!TypeOK, ModelOf!SomeEffort
    <3>4. ModelOf!AnsweredAsSelected'
      BY <2>2, <2>4 DEF ModelOf!ChoiceKept, ModelOf!AnsweredAsSelected
    <3> QED
      BY <2>2, <2>4, <3>1, <3>2, <3>3, <3>4 DEF ModelOf!ChoiceKept, ModelOf!IsChoice, ModelOf!Saved
  <2> QED
    BY <1>8, <2>3, <2>4 DEF ModelOf!Prompt
<1>9. CASE ModelOf!Quit
  <2>1. v3' = "none" /\ v6' = ModelOf!NewFactory /\ UNCHANGED <<v1, v2, v7>>
    BY <1>9 DEF ModelOf!Quit
  <2>2. v6' \in ModelOf!Factories /\ ModelOf!OneEffort(v6') /\ v6'.effort \in ModelOf!SomeEffort
    BY <1>1, <2>1, NewFactoryFits
  <2>3. (ModelOf!OneEffort(v6))' = ModelOf!OneEffort(v6')
    BY DEF ModelOf!OneEffort
  <2>4. ModelOf!TypeOK'
    BY <2>1, <2>2 DEF ModelOf!ChoiceKept, ModelOf!TypeOK, ModelOf!SomeEffort
  <2> QED
    BY <2>1, <2>2, <2>3, <2>4 DEF ModelOf!ChoiceKept, ModelOf!AnsweredAsSelected, ModelOf!IsChoice, ModelOf!Saved
<1>10. ASSUME NEW p \in {"codex"}, ModelOf!Setup(p)
       PROVE  ModelOf!ChoiceKept'
  <2>1. v2' \subseteq ModelOf!CliBacked
    BY <1>10 DEF ModelOf!Setup, ModelOf!ChoiceKept, ModelOf!TypeOK, ModelOf!CliBacked
  <2>2. UNCHANGED <<v1, v3, v4, v5, v6, v7>>
    BY <1>10 DEF ModelOf!Setup
  <2> QED
    BY <2>1, <2>2 DEF ModelOf!ChoiceKept, ModelOf!TypeOK, ModelOf!AnsweredAsSelected, ModelOf!OneEffort,
       ModelOf!IsChoice, ModelOf!Saved
<1>11. CASE UNCHANGED ModelOf!vars
  BY <1>11 DEF ModelOf!vars, ModelOf!ChoiceKept, ModelOf!TypeOK, ModelOf!AnsweredAsSelected, ModelOf!OneEffort,
     ModelOf!IsChoice, ModelOf!Saved
<1> QED
  BY <1>3, <1>4, <1>5, <1>6, <1>7, <1>8, <1>9, <1>10, <1>11 DEF ModelOf!Next

LEMMA ChoiceAnswers == ModelOf!ChoiceKept => ModelOf!ModelAsChosen
<1> SUFFICES ASSUME ModelOf!ChoiceKept PROVE ModelOf!ModelAsChosen
  OBVIOUS
<1>1. ModelOf!ReopenedAsLeft
  <2> SUFFICES ASSUME v7 # ModelOf!NoChat, Len(v7.model) = 1, v7.model # <<"">>
               PROVE  ModelOf!Resolve(v7.provider, v7.model) = v7.left
    BY DEF ModelOf!ReopenedAsLeft
  <2> DEFINE p == v7.provider
             m == v7.model
  <2>1. v7.left = ModelOf!Choice(p, m) /\ p \in ModelOf!Known /\ m \in Seq(ModelOf!Parts)
    <3>1. ModelOf!IsChoice(v7.left) /\ v7 = ModelOf!Saved(v7.left)
      BY DEF ModelOf!ChoiceKept
    <3>2. PICK c : c = v7.left
      OBVIOUS
    <3>3. p = c.provider /\ m = c.model
      <4>1. v7 = [provider |-> c.provider, model |-> c.model, left |-> c]
        BY <3>1, <3>2 DEF ModelOf!Saved
      <4> QED
        BY <4>1
    <3> QED
      BY <3>1, <3>2, <3>3 DEF ModelOf!IsChoice
  <2> HIDE DEF p, m
  <2>2. m = <<m[1]>> /\ m # <<>> /\ Len(m) = 1 /\ m # <<"">>
    <3>1. Len(m) = 1 /\ m # <<"">>
      BY DEF m
    <3> QED
      BY <2>1, <3>1, PartsOfSeq
  <2>3. p # ModelOf!None
    BY <2>1, KnownProviders DEF ModelOf!None
  <2>4. ModelOf!Resolve(p, m) = ModelOf!ResolveBare(p, m[1])
    BY <2>1, <2>2 DEF ModelOf!Resolve
  <2>5. ModelOf!ResolveBare(p, m[1]) = ModelOf!Choice(p, <<m[1]>>)
    BY <2>3 DEF ModelOf!ResolveBare
  <2> QED
    BY <2>1, <2>2, <2>4, <2>5 DEF p, m
<1>2. ModelOf!StartsByDefault
  <2> SUFFICES ASSUME v1 = {}, v2 # {}
               PROVE  ModelOf!Builds(ModelOf!NewFactory, ModelOf!ResolveChoice(ModelOf!None, <<>>))
    BY DEF ModelOf!StartsByDefault
  <2> DEFINE p == ModelOf!DefaultProvider(ModelOf!None, <<>>)
  <2>1. p \in v2 /\ p \in ModelOf!CliBacked
    BY DEF ModelOf!ChoiceKept, ModelOf!TypeOK, ModelOf!CliBacked, ModelOf!DefaultProvider
  <2>2. p \in ModelOf!Known /\ p # ModelOf!None
    BY <2>1, KnownProviders DEF ModelOf!CliBacked, ModelOf!None
  <2> HIDE DEF p
  <2>3. ModelOf!Resolve(p, <<>>) = ModelOf!Choice(p, <<ModelOf!DefaultModel[p]>>)
    BY <2>2 DEF ModelOf!Resolve
  <2>4. ModelOf!ResolveChoice(ModelOf!None, <<>>).provider = p
    BY <2>3 DEF ModelOf!ResolveChoice, ModelOf!Choice, p
  <2> QED
    BY <2>1, <2>4 DEF ModelOf!Builds
<1> QED
  BY <1>1, <1>2 DEF ModelOf!ModelAsChosen, ModelOf!ChoiceKept

-----------------------------------------------------------------------------
KeysOf == INSTANCE ApiKeys WITH
        Providers <- KeyProviders, Texts <- KeyTexts,
        keychain <- v1, locked <- v2, env <- v3, told <- v4

(* Keys are texts.                                                         *)
ASSUME KeysAssumption == \A t \in KeyTexts : t \in Seq({t[i] : i \in DOMAIN t})

(* Which key a provider gets.                                              *)

(* The least and the greatest of some places of a text.                    *)
LEMMA LeastOf == \A T \in SUBSET Nat : T # {} => \E x \in T : \A y \in T : x <= y
<1> SUFFICES ASSUME NEW T \in SUBSET Nat, T # {} PROVE \E x \in T : \A y \in T : x <= y
  OBVIOUS
<1> DEFINE R == OpToRel(<, Nat)
<1>1. \E x \in T : \A y \in T : ~(<<y, x>> \in R)
  <2>1. IsWellFoundedOn(R, Nat)
    BY NatLessThanWellFounded
  <2> HIDE DEF R
  <2> QED
    BY <2>1, WFMin
<1>2. PICK x \in T : \A y \in T : ~(<<y, x>> \in R)
  BY <1>1
<1>3. \A y \in T : ~(y < x)
  BY <1>2 DEF OpToRel
<1> QED
  BY <1>3

LEMMA EndsOf ==
  ASSUME NEW n \in Nat, NEW T \in SUBSET (1 .. n), T # {}
  PROVE  /\ KeysOf!Min(T) \in T /\ KeysOf!Max(T) \in T
         /\ \A i \in T : KeysOf!Min(T) <= i /\ i <= KeysOf!Max(T)
<1>1. \E x \in T : \A y \in T : x <= y
  BY LeastOf
<1>2. \E x \in T : \A y \in T : x >= y
  <2> DEFINE U == {n - i : i \in T}
  <2>1. U \in SUBSET Nat /\ U # {}
    <3>1. \A i \in T : n - i \in Nat
      OBVIOUS
    <3> QED
      BY <3>1
  <2>2. PICK u \in U : \A v \in U : u <= v
    BY <2>1, LeastOf
  <2>3. PICK x \in T : u = n - x
    BY <2>2
  <2>4. \A y \in T : n - y \in U /\ y \in Int
    OBVIOUS
  <2>5. \A y \in T : x >= y
    BY <2>2, <2>3, <2>4
  <2> QED
    BY <2>5
<1>3. KeysOf!Min(T) \in T /\ \A i \in T : KeysOf!Min(T) <= i
  BY <1>1 DEF KeysOf!Min
<1>4. KeysOf!Max(T) \in T /\ \A i \in T : KeysOf!Max(T) >= i
  BY <1>2 DEF KeysOf!Max
<1> DEFINE a == KeysOf!Min(T)
           b == KeysOf!Max(T)
<1> HIDE DEF a, b
<1>5. \A i \in T : b \in Int /\ i \in Int /\ (b >= i => i <= b)
  <2>1. b \in T
    BY <1>4 DEF b
  <2> QED
    BY <2>1
<1> QED
  BY <1>3, <1>4, <1>5 DEF a, b

LEMMA PieceOf ==
  ASSUME NEW S, NEW t \in Seq(S), NEW a \in 1 .. Len(t), NEW b \in a .. Len(t)
  PROVE  /\ SubSeq(t, a, b) \in Seq(S) /\ Len(SubSeq(t, a, b)) = b - a + 1
         /\ \A i \in 1 .. (b - a + 1) : SubSeq(t, a, b)[i] = t[a + i - 1]
OBVIOUS

(* A trimmed text has no white space at its ends, and is what it was if it *)
(* had none.                                                               *)
LEMMA TrimmedTwice ==
  ASSUME NEW S, NEW t \in Seq(S)
  PROVE  KeysOf!Trim(t) \in Seq(S) /\ KeysOf!Trim(KeysOf!Trim(t)) = KeysOf!Trim(t)
<1>1. KeysOf!Trim(<<>>) = <<>>
  BY DEF KeysOf!Trim, KeysOf!Shown, KeysOf!None
<1>2. CASE KeysOf!Shown(t) = {}
  BY <1>1, <1>2 DEF KeysOf!Trim, KeysOf!None
<1>3. CASE KeysOf!Shown(t) # {}
  <2> DEFINE a == KeysOf!Min(KeysOf!Shown(t))
             b == KeysOf!Max(KeysOf!Shown(t))
             s == SubSeq(t, a, b)
             n == b - a + 1
  <2>1. KeysOf!Shown(t) \in SUBSET (1 .. Len(t)) /\ Len(t) \in Nat
    <3>1. DOMAIN t = 1 .. Len(t) /\ Len(t) \in Nat
      OBVIOUS
    <3> QED
      BY <3>1 DEF KeysOf!Shown
  <2>2. a \in KeysOf!Shown(t) /\ b \in KeysOf!Shown(t) /\ a <= b
    BY <1>3, <2>1, EndsOf
  <2>3. a \in 1 .. Len(t) /\ b \in 1 .. Len(t) /\ a <= b /\ t[a] # "blank" /\ t[b] # "blank"
    BY <2>1, <2>2 DEF KeysOf!Shown
  <2> HIDE DEF a, b
  <2>4. s \in Seq(S) /\ Len(s) = n /\ n \in Nat /\ n >= 1 /\ s[1] = t[a] /\ s[n] = t[b]
    <3>1. a \in 1 .. Len(t) /\ b \in a .. Len(t) /\ a \in Int /\ b \in Int
      BY <2>1, <2>3
    <3>2. s \in Seq(S) /\ Len(s) = n /\ \A i \in 1 .. n : s[i] = t[a + i - 1]
      BY <3>1, PieceOf
    <3>3. n \in Nat /\ n >= 1 /\ 1 \in 1 .. n /\ n \in 1 .. n /\ a + 1 - 1 = a /\ a + n - 1 = b
      BY <3>1
    <3> HIDE DEF n, s
    <3> QED
      BY <3>1, <3>2, <3>3
  <2>5. KeysOf!Trim(t) = s
    BY <1>3 DEF KeysOf!Trim, a, b
  <2> HIDE DEF s, n
  <2>6. KeysOf!Shown(s) \in SUBSET (1 .. n) /\ 1 \in KeysOf!Shown(s) /\ n \in KeysOf!Shown(s)
    <3>1. DOMAIN s = 1 .. n
      BY <2>4
    <3> QED
      <4>1. s[1] # "blank" /\ s[n] # "blank" /\ 1 \in 1 .. n /\ n \in 1 .. n
        BY <2>3, <2>4
      <4> QED
        BY <3>1, <4>1 DEF KeysOf!Shown
  <2>7. KeysOf!Min(KeysOf!Shown(s)) = 1 /\ KeysOf!Max(KeysOf!Shown(s)) = n
    <3> DEFINE x == KeysOf!Min(KeysOf!Shown(s))
               y == KeysOf!Max(KeysOf!Shown(s))
    <3>1. x \in KeysOf!Shown(s) /\ y \in KeysOf!Shown(s) /\ x <= 1 /\ n <= y
      BY <2>4, <2>6, EndsOf
    <3> HIDE DEF x, y
    <3>2. x \in 1 .. n /\ y \in 1 .. n
      BY <2>6, <3>1
    <3>3. x = 1 /\ y = n
      BY <2>4, <3>1, <3>2
    <3> QED
      BY <3>3 DEF x, y
  <2>8. SubSeq(s, 1, n) = s
    BY <2>4
  <2>9. KeysOf!Trim(s) = s
    BY <2>6, <2>7, <2>8 DEF KeysOf!Trim
  <2> QED
    BY <2>4, <2>5, <2>9
<1> QED
  BY <1>2, <1>3

LEMMA TextChars == \A t \in KeyTexts : t \in Seq(KeysOf!Chars)
<1> SUFFICES ASSUME NEW t \in KeyTexts PROVE t \in Seq(KeysOf!Chars)
  OBVIOUS
<1> DEFINE S == {t[i] : i \in DOMAIN t}
<1>1. t \in Seq(S)
  BY KeysAssumption DEF KeysAssumption
<1>2. S \subseteq KeysOf!Chars
  BY DEF KeysOf!Chars
<1> HIDE DEF S
<1> QED
  BY <1>1, <1>2

LEMMA KeysInit == KeysOf!Init => KeysOf!KeysKept
<1>1. KeysOf!Trim(<<>>) = <<>>
  BY DEF KeysOf!Trim, KeysOf!Shown, KeysOf!None
<1> QED
  BY <1>1 DEF KeysOf!Init, KeysOf!KeysKept, KeysOf!None

LEMMA KeysStep == KeysOf!KeysKept /\ [KeysOf!Next]_(KeysOf!vars) => KeysOf!KeysKept'
<1> SUFFICES ASSUME KeysOf!KeysKept, [KeysOf!Next]_(KeysOf!vars) PROVE KeysOf!KeysKept'
  OBVIOUS
<1> DEFINE Said == {"nothing", "failed", "saved", "overridden", "removed"}
           SetIn(p) == KeysOf!Trim(v3[p]) # <<>>
<1>1. /\ v1 \in [KeyProviders -> Seq(KeysOf!Chars)] /\ v3 \in [KeyProviders -> Seq(KeysOf!Chars)]
      /\ v4 \in [KeyProviders -> Said]
  BY DEF KeysOf!KeysKept
<1>2. \A p \in KeyProviders :
        /\ KeysOf!Trim(v1[p]) = v1[p]
        /\ v4[p] = "saved" => ~KeysOf!EnvIsSet(p) /\ ~v2 /\ v1[p] # <<>>
        /\ v4[p] = "overridden" => KeysOf!EnvIsSet(p)
        /\ v4[p] = "removed" => v1[p] = <<>>
  BY DEF KeysOf!KeysKept, KeysOf!None
<1>3. ASSUME NEW p \in KeyProviders, NEW t \in KeyTexts, KeysOf!Set(p, t) PROVE KeysOf!KeysKept'
  <2>1. v3' = v3 /\ v2' = v2 /\ (\A q \in KeyProviders : KeysOf!EnvIsSet(q)' = KeysOf!EnvIsSet(q))
    BY <1>3 DEF KeysOf!Set, KeysOf!EnvIsSet
  <2>2. KeysOf!Trim(t) \in Seq(KeysOf!Chars) /\ KeysOf!Trim(KeysOf!Trim(t)) = KeysOf!Trim(t)
    BY TextChars, TrimmedTwice
  <2>3. CASE KeysOf!Trim(t) = <<>> \/ v2
    <3>1. v1' = v1 /\ v4' = [v4 EXCEPT ![p] = "failed"]
      BY <1>3, <2>3 DEF KeysOf!Set
    <3>2. v4' \in [KeyProviders -> Said] /\ \A q \in KeyProviders : v4'[q] = v4[q] \/ v4'[q] = "failed"
      BY <1>1, <3>1
    <3> QED
      BY <1>1, <1>2, <2>1, <3>1, <3>2 DEF KeysOf!KeysKept, KeysOf!None
  <2>4. CASE ~(KeysOf!Trim(t) = <<>> \/ v2)
    <3> DEFINE said == IF KeysOf!EnvIsSet(p) THEN "overridden" ELSE "saved"
    <3>1. v1' = [v1 EXCEPT ![p] = KeysOf!Trim(t)] /\ v4' = [v4 EXCEPT ![p] = said]
      BY <1>3, <2>4 DEF KeysOf!Set
    <3>2. /\ v1' \in [KeyProviders -> Seq(KeysOf!Chars)] /\ v4' \in [KeyProviders -> Said]
          /\ \A q \in KeyProviders \ {p} : v4'[q] = v4[q] /\ v1'[q] = v1[q]
          /\ v4'[p] = said /\ v1'[p] = KeysOf!Trim(t)
      BY <1>1, <2>2, <3>1
    <3>3. \A q \in KeyProviders :
            /\ KeysOf!Trim(v1'[q]) = v1'[q]
            /\ v4'[q] = "saved" => ~KeysOf!EnvIsSet(q) /\ ~v2 /\ v1'[q] # <<>>
            /\ v4'[q] = "overridden" => KeysOf!EnvIsSet(q)
            /\ v4'[q] = "removed" => v1'[q] = <<>>
      <4> TAKE q \in KeyProviders
      <4>1. CASE q = p
        BY <2>2, <2>4, <3>2, <4>1
      <4>2. CASE q # p
        BY <1>2, <3>2, <4>2
      <4> QED
        BY <4>1, <4>2
    <3> QED
      BY <1>1, <2>1, <3>2, <3>3 DEF KeysOf!KeysKept, KeysOf!None
  <2> QED
    BY <2>3, <2>4
<1>4. ASSUME NEW p \in KeyProviders, NEW t \in KeyTexts \cup {<<>>}, KeysOf!Export(p, t) PROVE KeysOf!KeysKept'
  <2>1. v1' = v1 /\ v2' = v2 /\ v3' = [v3 EXCEPT ![p] = t] /\ v4' = [v4 EXCEPT ![p] = "nothing"]
    BY <1>4 DEF KeysOf!Export
  <2>2. t \in Seq(KeysOf!Chars)
    <3>1. <<>> \in Seq(KeysOf!Chars)
      OBVIOUS
    <3> QED
      BY <3>1, TextChars
  <2>3. /\ v3' \in [KeyProviders -> Seq(KeysOf!Chars)] /\ v4' \in [KeyProviders -> Said]
        /\ \A q \in KeyProviders \ {p} : v4'[q] = v4[q] /\ v3'[q] = v3[q]
        /\ v4'[p] = "nothing"
    BY <1>1, <2>1, <2>2
  <2>4. \A q \in KeyProviders \ {p} : KeysOf!EnvIsSet(q)' = KeysOf!EnvIsSet(q)
    BY <2>3 DEF KeysOf!EnvIsSet
  <2> QED
    BY <1>1, <1>2, <2>1, <2>3, <2>4 DEF KeysOf!KeysKept, KeysOf!None
<1>5. ASSUME NEW p \in KeyProviders, KeysOf!Delete(p) PROVE KeysOf!KeysKept'
  <2>1. /\ v2' = v2 /\ v3' = v3 /\ v1' = (IF v2 THEN v1 ELSE [v1 EXCEPT ![p] = <<>>])
        /\ v4' = [v4 EXCEPT ![p] = IF v2 THEN "failed" ELSE "removed"]
    BY <1>5 DEF KeysOf!Delete, KeysOf!None
  <2>2. /\ v1' \in [KeyProviders -> Seq(KeysOf!Chars)] /\ v4' \in [KeyProviders -> Said]
        /\ \A q \in KeyProviders \ {p} : v4'[q] = v4[q] /\ v1'[q] = v1[q]
        /\ (v4'[p] = "failed" /\ v1'[p] = v1[p]) \/ (v4'[p] = "removed" /\ v1'[p] = <<>>)
    BY <1>1, <2>1
  <2>3. \A q \in KeyProviders : KeysOf!EnvIsSet(q)' = KeysOf!EnvIsSet(q)
    BY <2>1 DEF KeysOf!EnvIsSet
  <2>4. KeysOf!Trim(<<>>) = <<>>
    BY DEF KeysOf!Trim, KeysOf!Shown, KeysOf!None
  <2>5. \A q \in KeyProviders :
          /\ KeysOf!Trim(v1'[q]) = v1'[q]
          /\ v4'[q] = "saved" => ~KeysOf!EnvIsSet(q) /\ ~v2 /\ v1'[q] # <<>>
          /\ v4'[q] = "overridden" => KeysOf!EnvIsSet(q)
          /\ v4'[q] = "removed" => v1'[q] = <<>>
    <3> TAKE q \in KeyProviders
    <3>1. CASE q = p
      BY <1>2, <2>2, <2>4, <3>1
    <3>2. CASE q # p
      BY <1>2, <2>2, <3>2
    <3> QED
      BY <3>1, <3>2
  <2> QED
    BY <1>1, <2>1, <2>2, <2>3, <2>5 DEF KeysOf!KeysKept, KeysOf!None
<1>6. CASE KeysOf!Lock
  <2>1. /\ v1' = v1 /\ v3' = v3 /\ v4' = [p \in KeyProviders |-> "nothing"]
    BY <1>6 DEF KeysOf!Lock
  <2> QED
    BY <1>1, <1>2, <2>1 DEF KeysOf!KeysKept
<1>7. CASE UNCHANGED KeysOf!vars
  BY <1>7 DEF KeysOf!vars, KeysOf!KeysKept, KeysOf!EnvIsSet
<1> QED
  BY <1>3, <1>4, <1>5, <1>6, <1>7 DEF KeysOf!Next, KeysOf!None

LEMMA KeysAnswer == KeysOf!KeysKept => KeysOf!StatusIsTrue
<1> SUFFICES ASSUME KeysOf!KeysKept, NEW p \in KeyProviders
             PROVE  LET key == KeysOf!ResolveApiKey(p) IN
                    /\ KeysOf!Status(p) = "variable" <=> key.source = "env"
                    /\ KeysOf!Status(p) = "keychain" <=> key.source = "store"
                    /\ v4[p] = "saved" => key.source = "store"
                    /\ v4[p] = "overridden" => key.source = "env"
                    /\ v4[p] = "removed" => key.source # "store"
                    /\ key.source \in {"env", "store"} => key.text # <<>> /\ KeysOf!Trim(key.text) = key.text
  BY DEF KeysOf!StatusIsTrue
<1>1. KeysOf!EnvIsSet(p) <=> KeysOf!FromEnv(p) # <<>>
  BY DEF KeysOf!EnvIsSet, KeysOf!FromEnv
<1>2. KeysOf!Trim(KeysOf!FromEnv(p)) = KeysOf!FromEnv(p)
  BY TrimmedTwice DEF KeysOf!FromEnv, KeysOf!KeysKept
<1>3. /\ KeysOf!Trim(v1[p]) = v1[p]
      /\ v4[p] = "saved" => ~KeysOf!EnvIsSet(p) /\ ~v2 /\ v1[p] # <<>>
      /\ v4[p] = "overridden" => KeysOf!EnvIsSet(p)
      /\ v4[p] = "removed" => v1[p] = <<>>
  BY DEF KeysOf!KeysKept, KeysOf!None
<1>4. CASE KeysOf!EnvIsSet(p)
  <2>1. KeysOf!Status(p) = "variable"
    BY <1>4 DEF KeysOf!Status
  <2>2. KeysOf!ResolveApiKey(p) = [source |-> "env", text |-> KeysOf!FromEnv(p)]
    BY <1>1, <1>4 DEF KeysOf!ResolveApiKey, KeysOf!Key
  <2> QED
    BY <1>1, <1>2, <1>3, <1>4, <2>1, <2>2
<1>5. CASE ~KeysOf!EnvIsSet(p) /\ ~v2 /\ v1[p] # <<>>
  <2>1. KeysOf!Status(p) = "keychain"
    BY <1>5 DEF KeysOf!Status, KeysOf!None
  <2>2. KeysOf!ResolveApiKey(p) = [source |-> "store", text |-> v1[p]]
    BY <1>1, <1>5 DEF KeysOf!ResolveApiKey, KeysOf!Key, KeysOf!None
  <2> QED
    BY <1>1, <1>2, <1>3, <1>5, <2>1, <2>2
<1>6. CASE ~KeysOf!EnvIsSet(p) /\ (v2 \/ v1[p] = <<>>)
  <2>1. KeysOf!Status(p) = "unconfigured"
    BY <1>6 DEF KeysOf!Status, KeysOf!None
  <2>2. KeysOf!ResolveApiKey(p).source \in {"error", "none"}
    BY <1>1, <1>6 DEF KeysOf!ResolveApiKey, KeysOf!Key, KeysOf!None
  <2> QED
    BY <1>1, <1>2, <1>3, <1>6, <2>1, <2>2
<1> QED
  BY <1>4, <1>5, <1>6

-----------------------------------------------------------------------------
Streams == INSTANCE StreamMappers WITH
        MaxTurns <- StreamTurns, cli <- v1, kind <- v2, said <- v3, at <- v4, current <- v5,
        streamed <- v6, started <- v7, finished <- v8, text <- v9,
        calls <- v10, results <- v11, turn <- v12, total <- v13,
        latest <- v14, baseline <- v15, reported <- v16

(* 0 stands for no item.                                                   *)
ASSUME StreamAssumption == 0 \notin Items /\ Pieces \in Nat

(* What a turn shows of a CLI's stream.                                    *)
(* v1 cli, v2 kind, v3 said, v4 at, v5 current, v6 streamed, v7 started,   *)
(* v8 finished, v9 text, v10 calls, v11 results, v13 total, v14 latest,    *)
(* v15 baseline, v16 reported.                                             *)
LEMMA StreamInit == Streams!Init => Streams!StreamInv
BY StreamAssumption
   DEF StreamAssumption, Streams!Init, Streams!StreamInv, Streams!StreamTypes, Streams!TextsNoted, Streams!TextOnce, Streams!CallsNoted,
       Streams!CallsOnce, Streams!TokensNoted, Streams!None0

LEMMA StreamOpens ==
  ASSUME Streams!StreamInv, NEW i \in Items, Streams!Opens(i)
  PROVE  Streams!StreamInv'
<1> USE DEF Streams!StreamInv
<1>1. /\ v2[i] # "call" /\ v4[i] = "new" /\ v4' = [v4 EXCEPT ![i] = "open"]
      /\ v2[i] = "text" => \A j \in Items : v2[j] = "text" => v4[j] # "open"
      /\ v5' = IF v1 = "claude" /\ v2[i] # "foreign" THEN i ELSE v5
      /\ UNCHANGED <<v1, v2, v3, v6, v7, v8, v9, v10, v11, v12, v13, v14, v15, v16>>
  BY DEF Streams!Opens, Streams!Ours, Streams!vendor, Streams!heard, Streams!tokens
<1>2. Streams!StreamTypes'
  BY <1>1 DEF Streams!StreamTypes
<1>3. Streams!TextsNoted'
  BY <1>1 DEF Streams!StreamTypes, Streams!TextsNoted
<1>4. Streams!TextOnce' /\ Streams!CallsNoted' /\ Streams!CallsOnce'
  BY <1>1 DEF Streams!StreamTypes, Streams!TextOnce, Streams!CallsNoted, Streams!CallsOnce
<1>5. Streams!TokensNoted'
  BY <1>1 DEF Streams!TokensNoted
<1> QED
  BY <1>2, <1>3, <1>4, <1>5

LEMMA StreamPiece ==
  ASSUME Streams!StreamInv, NEW i \in Items, Streams!Piece(i)
  PROVE  Streams!StreamInv'
<1> USE DEF Streams!StreamInv
<1>1. /\ v4[i] = "open" /\ v2[i] # "call" /\ v3' = [v3 EXCEPT ![i] = @ + 1]
      /\ v9' = IF v2[i] # "foreign" THEN [v9 EXCEPT ![i] = @ + 1] ELSE v9
      /\ v2[i] # "foreign" => v6' = CASE v1 = "claude" -> v6 \cup ({v5} \ {0})
                                      [] v1 = "codex" -> v6 \cup {i}
                                      [] OTHER -> v6
      /\ v2[i] = "foreign" => v6' = v6
      /\ UNCHANGED <<v1, v2, v4, v5, v7, v8, v10, v11, v12, v13, v14, v15, v16>>
  BY DEF Streams!Piece, Streams!Ours, Streams!Counted, Streams!vendor, Streams!tokens
<1>2. Streams!StreamTypes'
  BY <1>1 DEF Streams!StreamTypes
<1>3. v1 \in {"claude", "codex"} => v6' = IF v2[i] = "text" THEN v6 \cup {i} ELSE v6
  BY <1>1, StreamAssumption DEF StreamAssumption, Streams!StreamTypes, Streams!TextsNoted
<1>4. Streams!TextsNoted'
  <2>1. \A j \in Items : (v4[j] = "new" => v3[j] = 0)'
    BY <1>1 DEF Streams!StreamTypes, Streams!TextsNoted
  <2>2. \A j \in Items : (v2[j] = "text" /\ v4[j] = "open" /\ v1 = "claude" => v5 = j)'
    BY <1>1 DEF Streams!TextsNoted
  <2>3. ASSUME NEW j \in Items, v2[j] = "text", v4[j] \in {"new", "open"}, v1 # "grok"
        PROVE  (j \in v6') = (v3'[j] > 0)
    <3>1. v6' = IF v2[i] = "text" THEN v6 \cup {i} ELSE v6
      BY <1>3, <2>3 DEF Streams!StreamTypes
    <3>2. (j \in v6) = (v3[j] > 0)
      BY <2>3 DEF Streams!TextsNoted
    <3>3. CASE j = i
      BY <1>1, <2>3, <3>1, <3>3 DEF Streams!StreamTypes
    <3>4. CASE j # i
      BY <1>1, <3>1, <3>2, <3>4 DEF Streams!StreamTypes
    <3> QED
      BY <3>3, <3>4
  <2> QED
    BY <1>1, <2>1, <2>2, <2>3 DEF Streams!TextsNoted
<1>5. Streams!TextOnce'
  BY <1>1 DEF Streams!StreamTypes, Streams!TextOnce
<1>6. Streams!CallsNoted' /\ Streams!CallsOnce' /\ Streams!TokensNoted'
  BY <1>1 DEF Streams!CallsNoted, Streams!CallsOnce, Streams!TokensNoted
<1> QED
  BY <1>2, <1>4, <1>5, <1>6

LEMMA StreamWhole ==
  ASSUME Streams!StreamInv, NEW i \in Items, Streams!Whole(i)
  PROVE  Streams!StreamInv'
<1> USE DEF Streams!StreamInv
<1>1. /\ v4[i] = "open" /\ v2[i] # "call" /\ v4' = [v4 EXCEPT ![i] = "over"]
      /\ v3[i] \in IF v1 = "grok" THEN {Pieces} ELSE {0, Pieces}
      /\ v9' = IF v1 # "grok" /\ v2[i] # "foreign" /\ i \notin v6
               THEN [v9 EXCEPT ![i] = @ + Pieces] ELSE v9
      /\ UNCHANGED <<v1, v2, v3, v5, v6, v7, v8, v10, v11, v12, v13, v14, v15, v16>>
  BY DEF Streams!Whole, Streams!Ours, Streams!Counted, Streams!vendor, Streams!tokens
<1>2. Streams!StreamTypes'
  BY <1>1, StreamAssumption DEF StreamAssumption, Streams!StreamTypes
<1>3. Streams!TextsNoted'
  BY <1>1 DEF Streams!StreamTypes, Streams!TextsNoted
<1>4. Streams!TextOnce'
  <2> SUFFICES ASSUME NEW j \in Items
               PROVE  v9'[j] = IF v2[j] # "text" THEN 0
                               ELSE IF v4'[j] = "over" THEN Pieces ELSE v3[j]
    BY <1>1 DEF Streams!TextOnce
  <2>1. CASE j = i
    <3>1. v2[i] = "text" => v9[i] = v3[i]
      BY <1>1 DEF Streams!TextOnce
    <3>2. v2[i] = "text" /\ v1 # "grok" => (i \in v6) = (v3[i] > 0)
      BY <1>1 DEF Streams!TextsNoted
    <3>3. v2[i] # "text" => v2[i] = "foreign" /\ v9[i] = 0
      BY <1>1 DEF Streams!TextOnce, Streams!StreamTypes
    <3> QED
      BY <1>1, <2>1, <3>1, <3>2, <3>3, StreamAssumption DEF StreamAssumption, Streams!StreamTypes
  <2>2. CASE j # i
    BY <1>1, <2>2 DEF Streams!StreamTypes, Streams!TextOnce
  <2> QED
    BY <2>1, <2>2
<1>5. Streams!CallsNoted' /\ Streams!CallsOnce'
  BY <1>1 DEF Streams!StreamTypes, Streams!CallsNoted, Streams!CallsOnce
<1>6. Streams!TokensNoted'
  BY <1>1 DEF Streams!TokensNoted
<1> QED
  BY <1>2, <1>3, <1>4, <1>5, <1>6

(* A line about a call: announced once, and its result once.               *)
LEMMA StreamCall ==
  ASSUME Streams!StreamInv, NEW i \in Items, Streams!Begins(i) \/ Streams!Message(i) \/ Streams!Ends(i)
  PROVE  Streams!StreamInv'
<1> USE DEF Streams!StreamInv
<1>1. /\ v2[i] = "call" /\ v4' = [v4 EXCEPT ![i] = v4'[i]] /\ v4'[i] \in {"open", "whole", "over"}
      /\ UNCHANGED <<v1, v2, v3, v5, v6, v9, v12, v13, v14, v15, v16>>
  BY DEF Streams!Begins, Streams!Message, Streams!Ends, Streams!vendor, Streams!tokens, Streams!StreamTypes
<1>2. /\ v10' = IF v4[i] = "new" THEN [v10 EXCEPT ![i] = @ + 1] ELSE v10
      /\ v7' = v7 \cup {i}
  <2>1. (i \in v7) = (v4[i] # "new")
    BY <1>1 DEF Streams!CallsNoted
  <2>2. CASE Streams!Begins(i)
    BY <2>1, <2>2 DEF Streams!Begins, Streams!Counted
  <2>3. CASE Streams!Message(i)
    BY <2>1, <2>3 DEF Streams!Message, Streams!Counted
  <2>4. CASE Streams!Ends(i)
    BY <2>1, <2>4 DEF Streams!Ends, Streams!Counted
  <2> QED
    BY <2>2, <2>3, <2>4
<1>3. /\ v11' = IF v4[i] # "over" /\ v4'[i] = "over" THEN [v11 EXCEPT ![i] = @ + 1] ELSE v11
      /\ v4[i] = "over" => v4'[i] = "over"
      /\ v8' = IF v1 = "grok" /\ v4'[i] = "over" THEN v8 \cup {i} ELSE v8
  <2>1. v1 = "grok" => (i \in v8) = (v4[i] = "over")
    BY <1>1 DEF Streams!CallsNoted
  <2>2. CASE Streams!Begins(i)
    BY <2>1, <2>2 DEF Streams!Begins, Streams!StreamTypes
  <2>3. CASE Streams!Message(i)
    BY <2>1, <2>3 DEF Streams!Message, Streams!StreamTypes
  <2>4. CASE Streams!Ends(i)
    <3>1. v4'[i] = "over"
      BY <2>4 DEF Streams!Ends, Streams!StreamTypes
    <3> QED
      BY <2>1, <2>4, <3>1 DEF Streams!Ends, Streams!Counted, Streams!StreamTypes
  <2> QED
    BY <2>2, <2>3, <2>4
<1>4. Streams!StreamTypes'
  BY <1>1, <1>2, <1>3 DEF Streams!StreamTypes
<1>5. Streams!TextsNoted' /\ Streams!TextOnce'
  BY <1>1 DEF Streams!StreamTypes, Streams!TextsNoted, Streams!TextOnce
<1>6. Streams!CallsNoted'
  BY <1>1, <1>2, <1>3 DEF Streams!StreamTypes, Streams!CallsNoted
<1>7. Streams!CallsOnce'
  <2> SUFFICES ASSUME NEW j \in Items
               PROVE  /\ v10'[j] = IF v2[j] = "call" /\ v4'[j] # "new" THEN 1 ELSE 0
                      /\ v11'[j] = IF v2[j] = "call" /\ v4'[j] = "over" THEN 1 ELSE 0
    BY <1>1 DEF Streams!CallsOnce
  <2>1. CASE j = i
    BY <1>1, <1>2, <1>3, <2>1 DEF Streams!StreamTypes, Streams!CallsOnce
  <2>2. CASE j # i
    BY <1>1, <1>2, <1>3, <2>2 DEF Streams!StreamTypes, Streams!CallsOnce
  <2> QED
    BY <2>1, <2>2
<1>8. Streams!TokensNoted'
  BY <1>1 DEF Streams!TokensNoted
<1> QED
  BY <1>4, <1>5, <1>6, <1>7, <1>8

LEMMA StreamUses ==
  ASSUME Streams!StreamInv, Streams!Uses
  PROVE  Streams!StreamInv'
BY DEF Streams!Uses, Streams!vendor, Streams!heard, Streams!StreamInv, Streams!StreamTypes, Streams!TextsNoted, Streams!TextOnce, Streams!CallsNoted,
       Streams!CallsOnce, Streams!TokensNoted

LEMMA StreamEndTurn ==
  ASSUME Streams!StreamInv, Streams!EndTurn
  PROVE  Streams!StreamInv'
<1> USE DEF Streams!StreamInv
<1>1. /\ UNCHANGED <<v1, v2, v5, v8, v13, v14>>
      /\ v16' = IF v1 = "codex" THEN v16 + Streams!UsageOfTurn ELSE v13
      /\ v15' = IF v1 = "codex" /\ v14 # 0 THEN v14 ELSE v15
  BY DEF Streams!EndTurn, Streams!vendor
<1>2. /\ v16' \in Nat /\ v15' \in Nat /\ Streams!TokensNoted'
  BY <1>1 DEF Streams!UsageOfTurn, Streams!StreamTypes, Streams!TokensNoted
<1>3. CASE v1 = "codex"
  <2>1. /\ v6' = {} /\ v7' = {}
        /\ v3' = [i \in Items |-> 0] /\ v4' = [i \in Items |-> "new"]
        /\ v9' = [i \in Items |-> 0] /\ v10' = [i \in Items |-> 0] /\ v11' = [i \in Items |-> 0]
    BY <1>3 DEF Streams!EndTurn, Streams!StartTurn, Streams!None0
  <2>2. Streams!StreamTypes'
    BY <1>1, <1>2, <2>1 DEF Streams!StreamTypes
  <2>3. Streams!TextsNoted' /\ Streams!TextOnce' /\ Streams!CallsNoted' /\ Streams!CallsOnce'
    BY <1>1, <1>3, <2>1 DEF Streams!TextsNoted, Streams!TextOnce, Streams!CallsNoted, Streams!CallsOnce
  <2> QED
    BY <1>2, <2>2, <2>3
<1>4. CASE v1 # "codex"
  <2>1. UNCHANGED <<v6, v7, v3, v4, v9, v10, v11>>
    BY <1>4 DEF Streams!EndTurn, Streams!StartTurn, Streams!heard
  <2> QED
    BY <1>1, <1>2, <2>1 DEF Streams!StreamTypes, Streams!TextsNoted, Streams!TextOnce, Streams!CallsNoted, Streams!CallsOnce
<1> QED
  BY <1>3, <1>4

LEMMA StreamStep == Streams!StreamInv /\ [Streams!Next]_(Streams!vars) => Streams!StreamInv'
<1> SUFFICES ASSUME Streams!StreamInv, [Streams!Next]_(Streams!vars) PROVE Streams!StreamInv'
  OBVIOUS
<1>1. CASE UNCHANGED Streams!vars
  BY <1>1 DEF Streams!vars, Streams!vendor, Streams!heard, Streams!tokens, Streams!StreamInv, Streams!StreamTypes, Streams!TextsNoted, Streams!TextOnce,
              Streams!CallsNoted, Streams!CallsOnce, Streams!TokensNoted
<1>2. CASE Streams!Next
  BY <1>2, StreamOpens, StreamPiece, StreamWhole, StreamCall, StreamUses, StreamEndTurn DEF Streams!Next
<1> QED
  BY <1>1, <1>2

LEMMA StreamSaidOnce == Streams!StreamInv => Streams!TextOnce /\ Streams!CallsOnce /\ Streams!TokensOnce
BY DEF Streams!StreamInv, Streams!StreamTypes, Streams!TokensNoted, Streams!TokensOnce

-----------------------------------------------------------------------------
CliAsks == INSTANCE CliApprovals WITH
        Rules <- CliRules, ask <- v1, mode <- v2, user <- v3, answer <- v4

(* The answers to a CLI's requests.                                        *)
LEMMA CliRanks ==
  /\ CliAsks!Rank("read") = 1 /\ CliAsks!Rank("write") = 2 /\ CliAsks!Rank("outside") = 3
  /\ CliAsks!Rank("network") = 4 /\ CliAsks!Rank("opaque") = 5 /\ CliAsks!Rank("destructive") = 6
<1>1. CliAsks!Order = <<"read", "write", "outside", "network", "opaque", "destructive">> /\ Len(CliAsks!Order) = 6
  BY DEF CliAsks!Order
<1>2. CliAsks!Rank("read") = 1
  BY <1>1 DEF CliAsks!Rank
<1>3. CliAsks!Rank("write") = 2
  BY <1>1 DEF CliAsks!Rank
<1>4. CliAsks!Rank("outside") = 3
  BY <1>1 DEF CliAsks!Rank
<1>5. CliAsks!Rank("network") = 4
  BY <1>1 DEF CliAsks!Rank
<1>6. CliAsks!Rank("opaque") = 5
  BY <1>1 DEF CliAsks!Rank
<1>7. CliAsks!Rank("destructive") = 6
  BY <1>1 DEF CliAsks!Rank
<1> QED
  BY <1>2, <1>3, <1>4, <1>5, <1>6, <1>7

LEMMA CliRiskMax ==
  ASSUME NEW risks \in SUBSET CliAsks!Risk, risks # {}
  PROVE  CliAsks!RiskMax(risks) \in risks
<1>1. \E r \in risks : \A s \in risks : CliAsks!Rank(s) <= CliAsks!Rank(r)
  <2>1. \A s \in CliAsks!Risk : CliAsks!Rank(s) \in 1 .. 6
    BY CliRanks DEF CliAsks!Risk
  <2>2. CASE "destructive" \in risks
    BY <2>1, <2>2, CliRanks
  <2>3. CASE "destructive" \notin risks /\ "opaque" \in risks
    BY <2>3, CliRanks DEF CliAsks!Risk
  <2>4. CASE risks \cap {"destructive", "opaque"} = {} /\ "network" \in risks
    BY <2>4, CliRanks DEF CliAsks!Risk
  <2>5. CASE risks \cap {"destructive", "opaque", "network"} = {} /\ "outside" \in risks
    BY <2>5, CliRanks DEF CliAsks!Risk
  <2>6. CASE risks \cap {"destructive", "opaque", "network", "outside"} = {} /\ "write" \in risks
    BY <2>6, CliRanks DEF CliAsks!Risk
  <2>7. CASE risks \cap {"destructive", "opaque", "network", "outside", "write"} = {}
    <3>1. risks = {"read"}
      BY <2>7 DEF CliAsks!Risk
    <3> QED
      BY <3>1, CliRanks
  <2> QED
    BY <2>2, <2>3, <2>4, <2>5, <2>6, <2>7
<1> QED
  BY <1>1 DEF CliAsks!RiskMax

(* Nothing is decided as delegated, and a question only by the user.       *)
LEMMA CliDecides ==
  ASSUME v2 \in CliAsks!Mode, NEW kind, kind.risk \in CliAsks!Risk, NEW enforced, NEW rules
  PROVE  CliAsks!Decide(kind, enforced, rules).source \in CliAsks!Deciders
<1>1. CliAsks!AutoApproval(kind, v2, enforced, rules) \subseteq {"mode", "rule"}
  BY DEF CliAsks!AutoApproval, CliAsks!Mode, CliAsks!Risk
<1>2. CASE CliAsks!AutoApproval(kind, v2, enforced, rules) # {}
  <2>1. (CHOOSE s \in CliAsks!AutoApproval(kind, v2, enforced, rules) : TRUE) \in {"mode", "rule"}
    BY <1>1, <1>2
  <2> QED
    BY <1>2, <2>1 DEF CliAsks!Decide, CliAsks!Made, CliAsks!Deciders
<1>3. CASE CliAsks!AutoApproval(kind, v2, enforced, rules) = {}
  BY <1>3 DEF CliAsks!Decide, CliAsks!AskGate, CliAsks!Made, CliAsks!Deciders
<1> QED
  BY <1>2, <1>3

LEMMA CliAsked ==
  ASSUME v3 \in CliAsks!Answers, NEW huge
  PROVE  /\ CliAsks!AskGate(huge).source \in CliAsks!Deciders /\ CliAsks!AskUser(huge).source \in CliAsks!Deciders
         /\ CliAsks!OneTime(CliAsks!AskUser(huge)).source \in CliAsks!Deciders
         /\ CliAsks!Approves(CliAsks!OneTime(CliAsks!AskUser(huge))) => v3 \in {"approve", "always", "unsandboxed"}
BY DEF CliAsks!AskGate, CliAsks!AskUser, CliAsks!OneTime, CliAsks!Made, CliAsks!Approves, CliAsks!Answers, CliAsks!Deciders

LEMMA CliOneTime ==
  ASSUME NEW d, d.source \in CliAsks!Deciders
  PROVE  CliAsks!OneTime(d).source \in CliAsks!Deciders
BY DEF CliAsks!OneTime, CliAsks!Made

LEMMA CliDecided ==
  ASSUME NEW legacy, NEW d, d.source \in CliAsks!Deciders
  PROVE  /\ CliAsks!Decided(legacy, d).log = d /\ CliAsks!Decided(legacy, d).log.source # "delegated"
         /\ CliAsks!Decided(legacy, d).reply # "allow_always"
BY DEF CliAsks!Decided, CliAsks!Reply, CliAsks!Accept, CliAsks!Decline, CliAsks!Deciders

LEMMA CliCommand ==
  ASSUME v1 \in CliAsks!CodexCommand, v2 \in CliAsks!Mode, v3 \in CliAsks!Answers
  PROVE  CliAsks!Fits(CliAsks!CommandAnswer(v1))
<1> DEFINE a == CliAsks!CommandAnswer(v1)
<1> SUFFICES CliAsks!Fits(a)
  OBVIOUS
<1>1. v1.by = "codex" /\ v1.what = "command" /\ v1.risk \in CliAsks!Risk
  BY DEF CliAsks!CodexCommand
<1>2. CASE ~v1.named
  <2>1. a = CliAsks!Decided(v1.legacy, CliAsks!Made("deny", "policy"))
    BY <1>2 DEF CliAsks!CommandAnswer
  <2>2. a.log = CliAsks!Made("deny", "policy") /\ a.reply # "allow_always"
    BY <2>1, CliDecided DEF CliAsks!Made, CliAsks!Deciders
  <2> QED
    BY <1>1, <2>2 DEF CliAsks!Fits, CliAsks!Made, CliAsks!Approves
<1>3. CASE v1.named /\ CliAsks!Escalates(v1)
  <2> DEFINE d == CliAsks!OneTime(CliAsks!AskUser(v1.huge))
  <2>1. a = CliAsks!Decided(v1.legacy, d)
    BY <1>3 DEF CliAsks!CommandAnswer
  <2>2. a.log = d /\ a.log.source # "delegated" /\ a.reply # "allow_always"
    BY <2>1, CliAsked, CliDecided
  <2>3. CliAsks!Approves(d) => v3 \in {"approve", "always", "unsandboxed"}
    BY CliAsked
  <2> HIDE DEF d, a
  <2> QED
    BY <1>1, <2>2, <2>3 DEF CliAsks!Fits
<1>4. CASE v1.named /\ ~CliAsks!Escalates(v1)
  <2> DEFINE kind == [risk |-> CliAsks!CommandRiskOf(v1), sandboxed |-> TRUE, network |-> v1.host,
                      rule |-> v1.rule, huge |-> v1.huge]
             d == CliAsks!OneTime(CliAsks!Decide(kind, TRUE, CliRules))
  <2>1. a = CliAsks!Decided(v1.legacy, d)
    BY <1>4 DEF CliAsks!CommandAnswer
  <2>2. kind.risk \in CliAsks!Risk
    <3>1. {v1.risk} \cup (IF v1.host THEN {"network"} ELSE {}) \cup
            (IF v1.cwd = "outside" THEN {"outside"} ELSE {}) \in SUBSET CliAsks!Risk
      BY <1>1 DEF CliAsks!Risk
    <3> QED
      BY <3>1, CliRiskMax DEF CliAsks!CommandRiskOf
  <2>3. a.log.source # "delegated" /\ a.reply # "allow_always"
    <3> HIDE DEF kind
    <3>1. CliAsks!Decide(kind, TRUE, CliRules).source \in CliAsks!Deciders
      BY <2>2, CliDecides
    <3>2. d.source \in CliAsks!Deciders
      BY <3>1, CliOneTime
    <3> HIDE DEF d
    <3> QED
      BY <2>1, <3>2, CliDecided
  <2>4. ~(v1.host \/ v1.reason \/ v1.cwd = "outside")
    BY <1>4 DEF CliAsks!Escalates
  <2> HIDE DEF a
  <2> QED
    BY <1>1, <2>3, <2>4 DEF CliAsks!Fits
<1> QED
  BY <1>2, <1>3, <1>4

LEMMA CliPatch ==
  ASSUME v1 \in CliAsks!CodexPatch, v2 \in CliAsks!Mode, v3 \in CliAsks!Answers
  PROVE  CliAsks!Fits(CliAsks!PatchAnswer(v1))
<1> DEFINE a == CliAsks!PatchAnswer(v1)
           paths == UNION {CliAsks!Paths(c) : c \in v1.changes}
           risks == {"write"} \cup (IF "outside" \in paths \/ v1.grant THEN {"outside"} ELSE {})
                    \cup (IF \E c \in v1.changes : c.deletes THEN {"destructive"} ELSE {})
<1> SUFFICES CliAsks!Fits(a)
  OBVIOUS
<1>1. v1.by = "codex" /\ v1.what = "patch"
  BY DEF CliAsks!CodexPatch
<1>2. CASE v1.changes = {} \/ "protected" \in paths
  <2>1. a = CliAsks!Decided(v1.legacy, CliAsks!Made("deny", "policy"))
    BY <1>2 DEF CliAsks!PatchAnswer
  <2>2. a.log = CliAsks!Made("deny", "policy") /\ a.reply # "allow_always"
    BY <2>1, CliDecided DEF CliAsks!Made, CliAsks!Deciders
  <2> HIDE DEF a
  <2> QED
    BY <1>1, <2>2 DEF CliAsks!Fits, CliAsks!Made, CliAsks!Approves
<1>3. ASSUME ~(v1.changes = {} \/ "protected" \in paths)
      PROVE  \A c \in v1.changes : "protected" \notin {c.path, c.move}
  BY <1>3 DEF CliAsks!Paths
<1>4. CASE ~(v1.changes = {} \/ "protected" \in paths) /\ v1.grant
  <2> DEFINE d == CliAsks!OneTime(CliAsks!AskUser(v1.huge))
  <2>1. a = CliAsks!Decided(v1.legacy, d)
    BY <1>4 DEF CliAsks!PatchAnswer
  <2>2. a.log = d /\ a.log.source # "delegated" /\ a.reply # "allow_always"
    BY <2>1, CliAsked, CliDecided
  <2>3. CliAsks!Approves(d) => v3 \in {"approve", "always", "unsandboxed"}
    BY CliAsked
  <2>4. \A c \in v1.changes : "protected" \notin {c.path, c.move}
    BY <1>3, <1>4
  <2> HIDE DEF d, a
  <2> QED
    BY <1>1, <2>2, <2>3, <2>4 DEF CliAsks!Fits
<1>5. CASE ~(v1.changes = {} \/ "protected" \in paths) /\ ~v1.grant
  <2> DEFINE kind == [risk |-> CliAsks!RiskMax(risks), sandboxed |-> FALSE, network |-> FALSE,
                      rule |-> NoRule, huge |-> v1.huge]
             d == CliAsks!OneTime(CliAsks!Decide(kind, TRUE, CliRules))
  <2>1. a = CliAsks!Decided(v1.legacy, d)
    BY <1>5 DEF CliAsks!PatchAnswer
  <2>2. kind.risk \in CliAsks!Risk
    <3>1. risks \in SUBSET CliAsks!Risk /\ risks # {}
      BY DEF CliAsks!Risk
    <3> QED
      BY <3>1, CliRiskMax
  <2>3. a.log.source # "delegated" /\ a.reply # "allow_always"
    <3> HIDE DEF kind
    <3>1. CliAsks!Decide(kind, TRUE, CliRules).source \in CliAsks!Deciders
      BY <2>2, CliDecides
    <3>2. d.source \in CliAsks!Deciders
      BY <3>1, CliOneTime
    <3> HIDE DEF d
    <3> QED
      BY <2>1, <3>2, CliDecided
  <2>4. \A c \in v1.changes : "protected" \notin {c.path, c.move}
    BY <1>3, <1>5
  <2> HIDE DEF a
  <2> QED
    BY <1>1, <1>5, <2>3, <2>4 DEF CliAsks!Fits
<1> QED
  BY <1>2, <1>4, <1>5

LEMMA CliCodex ==
  ASSUME v1 \in CliAsks!CodexCommand \cup CliAsks!CodexPatch \cup CliAsks!CodexOther, v2 \in CliAsks!Mode, v3 \in CliAsks!Answers
  PROVE  v1.by = "codex" /\ CliAsks!Fits(CliAsks!CodexAnswer(v1))
<1>1. CASE v1 \in CliAsks!CodexCommand
  <2>1. v1.by = "codex" /\ v1.what = "command"
    BY <1>1 DEF CliAsks!CodexCommand
  <2>2. CliAsks!CodexAnswer(v1) = CliAsks!CommandAnswer(v1)
    BY <2>1 DEF CliAsks!CodexAnswer
  <2> QED
    BY <1>1, <2>1, <2>2, CliCommand
<1>2. CASE v1 \in CliAsks!CodexPatch
  <2>1. v1.by = "codex" /\ v1.what = "patch"
    BY <1>2 DEF CliAsks!CodexPatch
  <2>2. CliAsks!CodexAnswer(v1) = CliAsks!PatchAnswer(v1)
    BY <2>1 DEF CliAsks!CodexAnswer
  <2> QED
    BY <1>2, <2>1, <2>2, CliPatch
<1>3. CASE v1 \in CliAsks!CodexOther
  <2>1. v1.by = "codex" /\ v1.what \in {"permissions", "elicitation", "dynamic_tool", "auth_tokens", "unknown"}
    BY <1>3 DEF CliAsks!CodexOther
  <2>2. CASE v1.what = "permissions"
    <3> DEFINE d == CliAsks!OneTime(CliAsks!AskUser(FALSE))
    <3>1. CliAsks!CodexAnswer(v1) = CliAsks!Reply("granted_for_turn", "none_granted", d)
      BY <2>2 DEF CliAsks!CodexAnswer, CliAsks!PermissionsAnswer
    <3>2. d.source \in CliAsks!Deciders /\ (CliAsks!Approves(d) => v3 \in {"approve", "always", "unsandboxed"})
      BY CliAsked
    <3> HIDE DEF d
    <3>3. CliAsks!CodexAnswer(v1).log = d /\ CliAsks!CodexAnswer(v1).reply # "allow_always"
      BY <3>1 DEF CliAsks!Reply
    <3> QED
      BY <2>1, <2>2, <3>2, <3>3 DEF CliAsks!Fits, CliAsks!Deciders
  <2>3. CASE v1.what = "elicitation"
    BY <2>1, <2>3 DEF CliAsks!Fits, CliAsks!CodexAnswer, CliAsks!ElicitationAnswer, CliAsks!Delegated, CliAsks!Denied, CliAsks!Reply,
                      CliAsks!Made, CliAsks!Approves
  <2>4. CASE v1.what \in {"dynamic_tool", "auth_tokens", "unknown"}
    <3>1. CliAsks!CodexAnswer(v1) = CliAsks!Denied("error")
      BY <2>4 DEF CliAsks!CodexAnswer
    <3> QED
      BY <2>1, <2>4, <3>1 DEF CliAsks!Fits, CliAsks!Denied, CliAsks!Reply, CliAsks!Made, CliAsks!Approves
  <2> QED
    BY <2>1, <2>2, <2>3, <2>4
<1> QED
  BY <1>1, <1>2, <1>3

LEMMA CliGrok ==
  ASSUME v1 \in CliAsks!GrokRequest, v3 \in CliAsks!Answers
  PROVE  v1.by = "grok" /\ CliAsks!Fits(CliAsks!GrokAnswer(v1))
<1>1. v1.by = "grok" /\ v1.what \in {"permission", "unknown"}
  BY DEF CliAsks!GrokRequest
<1> QED
  BY <1>1 DEF CliAsks!Fits, CliAsks!GrokAnswer, CliAsks!Delegated, CliAsks!Denied, CliAsks!Reply, CliAsks!Made, CliAsks!Approves

LEMMA CliClaude ==
  ASSUME v1 \in CliAsks!ClaudeRequest, v2 \in CliAsks!Mode, v3 \in CliAsks!Answers
  PROVE  v1.by = "claude" /\ CliAsks!Fits(CliAsks!ClaudeAnswer(v1))
<1> DEFINE a == CliAsks!ClaudeAnswer(v1)
<1> SUFFICES v1.by = "claude" /\ CliAsks!Fits(a)
  OBVIOUS
<1>1. /\ v1.by = "claude"
      /\ v1.what \in {"rozu_tool", "shell", "network", "unknown", "read", "write"}
      /\ v1.what = "read" => v1.place \in {"inside", "outside"}
      /\ v1.what = "write" => v1.place \in CliAsks!Place \cup {"none"}
  BY DEF CliAsks!ClaudeRequest
<1>2. ASSUME NEW d, d.source \in CliAsks!Deciders, a = CliAsks!ClaudeDecided(d)
      PROVE  a.log.source # "delegated" /\ a.reply # "allow_always"
  BY <1>2 DEF CliAsks!ClaudeDecided, CliAsks!Reply, CliAsks!Deciders
<1>3. ASSUME NEW risk \in CliAsks!Risk, NEW network, a = CliAsks!ClaudeDecided(CliAsks!Decide(CliAsks!Builtin(risk, network), FALSE, CliRules))
      PROVE  a.log.source # "delegated" /\ a.reply # "allow_always"
  <2>1. CliAsks!Builtin(risk, network).risk \in CliAsks!Risk
    BY DEF CliAsks!Builtin
  <2>2. CliAsks!Decide(CliAsks!Builtin(risk, network), FALSE, CliRules).source \in CliAsks!Deciders
    BY <2>1, CliDecides
  <2> HIDE DEF a
  <2> QED
    BY <1>2, <1>3, <2>2
<1>4. CASE v1.what = "rozu_tool"
  BY <1>1, <1>4 DEF CliAsks!Fits, CliAsks!ClaudeAnswer, CliAsks!Delegated, CliAsks!Reply, CliAsks!Made, CliAsks!Approves
<1>5. CASE v1.what = "read" /\ v1.place = "inside"
  <2>1. a = CliAsks!ClaudeDecided(CliAsks!Decide(CliAsks!Builtin("read", FALSE), FALSE, CliRules))
    BY <1>5 DEF CliAsks!ClaudeAnswer
  <2>2. a.log.source # "delegated" /\ a.reply # "allow_always"
    BY <1>3, <2>1 DEF CliAsks!Risk
  <2> HIDE DEF a
  <2> QED
    BY <1>1, <1>5, <2>2 DEF CliAsks!Fits
<1>6. CASE v1.what = "read" /\ v1.place = "outside"
  <2>1. a = CliAsks!ClaudeDecided(CliAsks!AskGate(FALSE))
    BY <1>6 DEF CliAsks!ClaudeAnswer
  <2>2. a.log.source # "delegated" /\ a.reply # "allow_always"
    BY <1>2, <2>1, CliAsked
  <2> HIDE DEF a
  <2> QED
    BY <1>1, <1>6, <2>2 DEF CliAsks!Fits
<1>7. CASE v1.what = "write" /\ v1.place \in {"inside", "outside"}
  <2> DEFINE risk == IF v1.place = "inside" THEN "write" ELSE "outside"
  <2>1. a = CliAsks!ClaudeDecided(CliAsks!Decide(CliAsks!Builtin(risk, FALSE), FALSE, CliRules)) /\ risk \in CliAsks!Risk
    BY <1>7 DEF CliAsks!ClaudeAnswer, CliAsks!Risk
  <2> HIDE DEF risk
  <2>2. a.log.source # "delegated" /\ a.reply # "allow_always"
    BY <1>3, <2>1
  <2> HIDE DEF a
  <2> QED
    BY <1>1, <1>7, <2>2 DEF CliAsks!Fits
<1>8. CASE v1.what = "network"
  <2>1. a = CliAsks!ClaudeDecided(CliAsks!Decide(CliAsks!Builtin("network", TRUE), FALSE, CliRules))
    BY <1>8 DEF CliAsks!ClaudeAnswer
  <2>2. a.log.source # "delegated" /\ a.reply # "allow_always"
    BY <1>3, <2>1 DEF CliAsks!Risk
  <2> HIDE DEF a
  <2> QED
    BY <1>1, <1>8, <2>2 DEF CliAsks!Fits
<1>9. CASE v1.what \in {"shell", "unknown"} \/ (v1.what = "write" /\ v1.place \notin {"inside", "outside"})
  <2>1. a = CliAsks!Denied("deny")
    BY <1>9 DEF CliAsks!ClaudeAnswer
  <2> HIDE DEF a
  <2> QED
    BY <1>1, <1>9, <2>1 DEF CliAsks!Fits, CliAsks!Denied, CliAsks!Reply, CliAsks!Made, CliAsks!Approves
<1> QED
  BY <1>1, <1>4, <1>5, <1>6, <1>7, <1>8, <1>9

(* An answer is a vendor's to its request; all of them fit.                *)
LEMMA CliInit == CliAsks!Init => CliAsks!AnswersFit
  BY DEF CliAsks!Init, CliAsks!AnswersFit

LEMMA CliStep == CliAsks!AnswersFit /\ [CliAsks!Next]_(CliAsks!vars) => CliAsks!AnswersFit'
<1> SUFFICES ASSUME CliAsks!AnswersFit, [CliAsks!Next]_(CliAsks!vars) PROVE CliAsks!AnswersFit'
  OBVIOUS
<1>1. CASE UNCHANGED CliAsks!vars
  BY <1>1 DEF CliAsks!AnswersFit, CliAsks!Fits, CliAsks!vars, CliAsks!GrokTarget
<1>2. CASE CliAsks!Respond
  <2>1. UNCHANGED <<v1, v2, v3>>
    BY <1>2 DEF CliAsks!Respond
  <2>2. PICK a : v4' = {a} /\ CliAsks!Fits(a)
    <3>1. CASE v1 \in CliAsks!CodexCommand \cup CliAsks!CodexPatch \cup CliAsks!CodexOther
      <4>1. v1.by = "codex" /\ CliAsks!Fits(CliAsks!CodexAnswer(v1))
        BY <3>1, CliCodex DEF CliAsks!AnswersFit
      <4> QED
        BY <1>2, <4>1 DEF CliAsks!Respond
    <3>2. CASE v1 \in CliAsks!GrokRequest
      <4>1. v1.by = "grok" /\ CliAsks!Fits(CliAsks!GrokAnswer(v1))
        BY <3>2, CliGrok DEF CliAsks!AnswersFit
      <4> QED
        BY <1>2, <4>1 DEF CliAsks!Respond
    <3>3. CASE v1 \in CliAsks!ClaudeRequest
      <4>1. v1.by = "claude" /\ CliAsks!Fits(CliAsks!ClaudeAnswer(v1))
        BY <3>3, CliClaude DEF CliAsks!AnswersFit
      <4> QED
        BY <1>2, <4>1 DEF CliAsks!Respond
    <3> QED
      BY <3>1, <3>2, <3>3 DEF CliAsks!AnswersFit, CliAsks!Requests
  <2>3. \A b \in v4' : CliAsks!Fits(b)'
    BY <2>1, <2>2 DEF CliAsks!Fits, CliAsks!GrokTarget
  <2> QED
    BY <2>1, <2>3 DEF CliAsks!AnswersFit
<1> QED
  BY <1>1, <1>2 DEF CliAsks!Next

LEMMA CliAsksUser ==
  CliAsks!AnswersFit => CliAsks!EscalationsAsked /\ CliAsks!ProtectedRefused /\ CliAsks!DelegatedToServer
BY DEF CliAsks!AnswersFit, CliAsks!Fits, CliAsks!EscalationsAsked, CliAsks!ProtectedRefused, CliAsks!DelegatedToServer

-----------------------------------------------------------------------------
Confine == INSTANCE Confined WITH
        Targets <- LinkTargets, Named <- AskedPaths, Writes <- WrittenPaths,
        link <- v1, phase <- v2, request <- v3, granted <- v4, written <- v5

(* /private is named only by what links lead to: by /etc itself, and not   *)
(* by the link that others move or by a command.                           *)
ASSUME ConfinedAssumption ==
  /\ \A t \in LinkTargets : t \in Seq(PathNames) /\ t # <<>> /\ t[1] # "private"
  /\ \A paths \in AskedPaths : \A p \in paths : p \in Seq(PathNames) /\ p # <<"private", "etc">>

(* What a shell command writes.                                            *)
LEMMA ConfinedShort ==
  ASSUME NEW r, Len(r) > 1 PROVE r \notin {<<>>, <<"o">>, <<"u">>, <<"etc">>}
<1>1. r # <<>>
  OBVIOUS
<1>2. \A x : r # <<x>>
  <2> SUFFICES ASSUME NEW x, r = <<x>> PROVE Len(r) = 1
    OBVIOUS
  <2> QED
    OBVIOUS
<1> QED
  BY <1>1, <1>2

(* Where the link leads, and what a call names, is not a whole directory.  *)
LEMMA ConfinedNames ==
  /\ \A t \in LinkTargets : t \in Seq(PathNames) /\ Len(t) >= 1 /\ t[1] # "private"
  /\ \A paths \in AskedPaths : \A p \in paths :
       p \in Seq(PathNames) /\ Len(p) \in Nat /\ p # <<"private", "etc">>
BY ConfinedAssumption DEF ConfinedAssumption

(* The settings, and what lies where.                                      *)
LEMMA ConfinedShown ==
  ASSUME NEW p \in Seq(PathNames), p # <<"private", "etc">>, v1 \in LinkTargets,
         ~Confine!TooBroad(p, Confine!Real(p))
  PROVE  Confine!Real(p) \notin Confine!Whole
<1>1. Len(p) > 1 /\ Len(Confine!Real(p)) > 1
  BY DEF Confine!TooBroad
<1>2. Confine!Real(p) \notin {<<>>, <<"o">>, <<"u">>, <<"etc">>}
  BY <1>1, ConfinedShort
<1>3. Confine!Real(p) # <<"private", "etc">>
  <2>1. CASE Confine!Under(p, Confine!Link)
    <3>1. Confine!Real(p) = v1 \o SubSeq(p, Len(Confine!Link) + 1, Len(p))
      BY <2>1 DEF Confine!Real
    <3>2. v1 \in Seq(PathNames) /\ Len(v1) >= 1 /\ v1[1] # "private"
      BY ConfinedNames
    <3>3. SubSeq(p, Len(Confine!Link) + 1, Len(p)) \in Seq(PathNames)
      BY DEF Confine!Link
    <3>4. Confine!Real(p)[1] = v1[1]
      BY <3>1, <3>2, <3>3
    <3> QED
      BY <3>2, <3>4
  <2>2. CASE ~Confine!Under(p, Confine!Link) /\ Confine!Under(p, Confine!Etc)
    <3>1. Confine!Real(p) = <<"private">> \o p
      BY <2>2 DEF Confine!Real
    <3>2. Len(<<"private">> \o p) = 1 + Len(p)
      OBVIOUS
    <3> QED
      BY <1>1, <3>1, <3>2
  <2>3. CASE ~Confine!Under(p, Confine!Link) /\ ~Confine!Under(p, Confine!Etc)
    BY <2>3 DEF Confine!Real
  <2> QED
    BY <2>1, <2>2, <2>3
<1> QED
  BY <1>2, <1>3 DEF Confine!Whole, Confine!Home, Confine!Etc

(* What the profile of a call lets through.                                *)
LEMMA ConfinedLets ==
  ASSUME NEW extra, NEW path, Confine!MayWrite(Confine!SeatbeltProfile(Confine!ForWorkspace(extra)), path)
  PROVE  /\ ~Confine!Under(path, Confine!ProtectedDir)
         /\ \E dir \in {Confine!Root, Confine!Temp, Confine!Dev} \cup extra : Confine!Under(path, dir)
<1> DEFINE profile == Confine!SeatbeltProfile(Confine!ForWorkspace(extra))
<1>1. /\ DOMAIN profile = 1 .. 3 /\ ~profile[1].allow /\ ~profile[3].allow
      /\ profile[2].paths = {Confine!Root, Confine!Temp, Confine!Dev} \cup extra
      /\ profile[3].paths = {Confine!ProtectedDir}
  BY DEF Confine!SeatbeltProfile, Confine!ForWorkspace
<1> HIDE DEF profile
<1>2. PICK i \in DOMAIN profile :
        /\ profile[i].allow /\ Confine!Matches(profile[i], path)
        /\ \A j \in DOMAIN profile : Confine!Matches(profile[j], path) => j <= i
  BY DEF Confine!MayWrite, profile
<1>3. i = 2
  BY <1>1, <1>2
<1> QED
  BY <1>1, <1>2, <1>3 DEF Confine!Matches

(* The request that is asked or runs; what runs has what was shown.        *)
LEMMA ConfinedInit == Confine!Init => Confine!GrantedAsShown
  BY DEF Confine!Init, Confine!GrantedAsShown, Confine!WritesAsShown, Confine!NoRequest

LEMMA ConfinedStep == Confine!GrantedAsShown /\ [Confine!Next]_(Confine!vars) => Confine!GrantedAsShown'
<1> SUFFICES ASSUME Confine!GrantedAsShown, [Confine!Next]_(Confine!vars) PROVE Confine!GrantedAsShown'
  OBVIOUS
<1>1. CASE UNCHANGED Confine!vars
  BY <1>1 DEF Confine!GrantedAsShown, Confine!WritesAsShown, Confine!vars
<1>2. ASSUME NEW paths \in AskedPaths, NEW unknown, Confine!Ask(paths, unknown) PROVE Confine!GrantedAsShown'
  <2>1. v2' = "asked" /\ v3' = Confine!Confinement(paths, unknown) /\ UNCHANGED <<v1, v4, v5>> /\ v5 = {}
    BY <1>2 DEF Confine!Ask, Confine!GrantedAsShown, Confine!WritesAsShown
  <2>2. v3'.extra_writes = {Confine!Real(p) : p \in paths \ {p \in paths : Confine!TooBroad(p, Confine!Real(p))}}
    BY <2>1 DEF Confine!Confinement
  <2>3. \A p \in paths : ~Confine!TooBroad(p, Confine!Real(p)) => Confine!Real(p) \notin Confine!Whole
    BY ConfinedNames, ConfinedShown DEF Confine!GrantedAsShown, Confine!WritesAsShown
  <2>4. v3'.extra_writes \cap Confine!Whole = {}
    BY <2>2, <2>3
  <2> QED
    BY <2>1, <2>4 DEF Confine!GrantedAsShown, Confine!WritesAsShown
<1>3. CASE Confine!Approve
  BY <1>3 DEF Confine!Approve, Confine!GrantedAsShown, Confine!WritesAsShown
<1>4. ASSUME NEW path \in WrittenPaths, Confine!Write(path) PROVE Confine!GrantedAsShown'
  <2>1. /\ v2 = "running" /\ UNCHANGED <<v1, v2, v3, v4>> /\ v5' = v5 \cup {Confine!Real(path)}
        /\ Confine!MayWrite(Confine!SeatbeltProfile(Confine!ForWorkspace(v4)), Confine!Real(path))
    BY <1>4 DEF Confine!Write
  <2>2. /\ ~Confine!Under(Confine!Real(path), Confine!ProtectedDir)
        /\ \E dir \in {Confine!Root, Confine!Temp, Confine!Dev} \cup v4 : Confine!Under(Confine!Real(path), dir)
    BY <2>1, ConfinedLets
  <2> DEFINE r == Confine!Real(path)
  <2> HIDE DEF r
  <2>3. v5' = v5 \cup {r} /\ ~Confine!Under(r, Confine!ProtectedDir)
        /\ \E dir \in {Confine!Root, Confine!Temp, Confine!Dev} \cup v4 : Confine!Under(r, dir)
    BY <2>1, <2>2 DEF r
  <2> QED
    BY <2>1, <2>3 DEF Confine!GrantedAsShown, Confine!WritesAsShown
<1>5. CASE Confine!End
  BY <1>5 DEF Confine!End, Confine!NoRequest, Confine!GrantedAsShown, Confine!WritesAsShown
<1>6. ASSUME NEW target \in LinkTargets, Confine!Relink(target) PROVE Confine!GrantedAsShown'
  BY <1>6 DEF Confine!Relink, Confine!GrantedAsShown, Confine!WritesAsShown
<1> QED
  BY <1>1, <1>2, <1>3, <1>4, <1>5, <1>6 DEF Confine!Next

LEMMA ConfinedWrites == Confine!GrantedAsShown => Confine!WritesAsShown
  BY DEF Confine!GrantedAsShown, Confine!WritesAsShown

-----------------------------------------------------------------------------
FileTools == INSTANCE FileWrites WITH
        MaxMoves <- Moves, place <- v1, links <- v2, file <- v3, temps <- v4,
        tool <- v5, path <- v6, phase <- v7, opened <- v8, result <- v9,
        moves <- v10, within <- v11, lifted <- v12, pointed <- v13

(* A write stays in the workspace and is whole, whatever others move and   *)
(* wherever rozu dies while it runs.                                       *)

(* What was in it, and what is beneath it after the step, is within.       *)
LEMMA WithinGrows ==
  ASSUME v11 \subseteq FileTools!Dirs, v11' = FileTools!Reached(v11)
  PROVE  /\ v11' \subseteq FileTools!Dirs /\ v11 \subseteq v11'
         /\ "root" \in v11' /\ FileTools!Closed(v11)'
<1>1. "root" \in FileTools!Dirs
  BY DEF FileTools!Dirs
<1>2. v11' \subseteq FileTools!Dirs /\ v11 \subseteq v11' /\ "root" \in v11'
  BY <1>1 DEF FileTools!Reached
<1>3. ASSUME NEW y \in FileTools!Dirs, FileTools!Parent(y)' \cap v11' # {}
      PROVE  y \in v11'
  BY <1>3 DEF FileTools!Reached, FileTools!Closed
<1> QED
  BY <1>2, <1>3 DEF FileTools!Closed

LEMMA WithinBegins ==
  ASSUME v11' = FileTools!Reached({})
  PROVE  v11' \subseteq FileTools!Dirs /\ "root" \in v11' /\ FileTools!Closed(v11)'
<1>1. "root" \in FileTools!Dirs
  BY DEF FileTools!Dirs
<1>2. v11' \subseteq FileTools!Dirs /\ "root" \in v11'
  BY <1>1 DEF FileTools!Reached
<1>3. ASSUME NEW y \in FileTools!Dirs, FileTools!Parent(y)' \cap v11' # {}
      PROVE  y \in v11'
  BY <1>3 DEF FileTools!Reached, FileTools!Closed
<1> QED
  BY <1>2, <1>3 DEF FileTools!Closed

(* What is above a member of a set that has its members' parents.          *)
LEMMA AboveIn ==
  ASSUME NEW T, NEW x \in T, \A y \in T : FileTools!Parent(y) \subseteq T
  PROVE  FileTools!Above(x) \subseteq T
<1>1. \A S : S \subseteq T => FileTools!Up(S) \subseteq T
  BY DEF FileTools!Up
<1> QED
  BY <1>1 DEF FileTools!Above

LEMMA FilesStart == FileTools!Init => FileTools!StillInside
<1> SUFFICES ASSUME FileTools!Init PROVE FileTools!StillInside
  OBVIOUS
<1>1. FileTools!FileTypes
  BY DEF FileTools!Init, FileTools!FileTypes, FileTools!Dirs, FileTools!Nowhere
<1> QED
  BY <1>1 DEF FileTools!Init, FileTools!StillInside, FileTools!OpenedWithin, FileTools!Descends,
    FileTools!Checked

(* Others: what they move out of the way still was within.                 *)
LEMMA OthersKeep ==
  ASSUME FileTools!StillInside, FileTools!MoveDir \/ FileTools!Point \/ FileTools!Edit
  PROVE  FileTools!StillInside'
<1> USE DEF FileTools!StillInside, FileTools!FileTypes
<1>1. /\ v7' = v7 /\ v8' = v8 /\ v13' = TRUE /\ v11' = FileTools!Reached(v11)
      /\ \/ v1' = v1 /\ v12' = v12
         \/ \E x \in FileTools!Dirs \ {"root"} : \E slot :
              v1' = [v1 EXCEPT ![x] = slot] /\ v12' = v12 \cup ({x} \cap FileTools!ToSet(v8))
      /\ \/ v3' = v3
         \/ \E x \in FileTools!Dirs : v3' = [v3 EXCEPT ![x] = "special"]
  <2>1. ASSUME FileTools!Noted
        PROVE  v7' = v7 /\ v8' = v8 /\ v13' = TRUE /\ v11' = FileTools!Reached(v11)
    BY <2>1 DEF FileTools!Noted
  <2>2. CASE FileTools!MoveDir
    BY <2>1, <2>2 DEF FileTools!MoveDir
  <2>3. CASE FileTools!Point
    BY <2>1, <2>3 DEF FileTools!Point
  <2>4. CASE FileTools!Edit
    BY <2>1, <2>4 DEF FileTools!Edit, FileTools!Dirs
  <2> QED
    BY <2>2, <2>3, <2>4
<1>2. /\ v11' \subseteq FileTools!Dirs /\ v11 \subseteq v11'
      /\ "root" \in v11' /\ FileTools!Closed(v11)'
  BY <1>1, WithinGrows
<1>3. FileTools!FileTypes'
  <2>1. v1' = [x \in FileTools!Dirs |-> v1'[x]] /\ v1'["root"] = FileTools!Nowhere
    <3>1. ASSUME NEW x \in FileTools!Dirs \ {"root"}, NEW slot, v1' = [v1 EXCEPT ![x] = slot]
          PROVE  v1' = [y \in FileTools!Dirs |-> v1'[y]] /\ v1'["root"] = v1["root"]
      <4>1. DOMAIN v1 = FileTools!Dirs /\ "root" \in FileTools!Dirs
        BY DEF FileTools!Dirs
      <4> QED
        BY <3>1, <4>1
    <3> QED
      BY <1>1, <3>1
  <2>2. v3' = [x \in FileTools!Dirs |-> v3'[x]]
    BY <1>1
  <2> QED
    BY <1>1, <1>2, <2>1, <2>2
<1>4. FileTools!OpenedWithin'
  BY <1>1, <1>2 DEF FileTools!OpenedWithin
<1>5. FileTools!Descends'
  <2> SUFFICES ASSUME v12' = {} PROVE FileTools!Descends'
    BY DEF FileTools!Descends
  <2>1. v12 = {} /\ \A i \in 1 .. Len(v8) : v1'[v8[i]] = v1[v8[i]]
    <3>1. ASSUME NEW x \in FileTools!Dirs \ {"root"}, NEW slot, v1' = [v1 EXCEPT ![x] = slot],
                 v12' = v12 \cup ({x} \cap FileTools!ToSet(v8))
          PROVE  v12 = {} /\ \A i \in 1 .. Len(v8) : v1'[v8[i]] = v1[v8[i]]
      <4>1. DOMAIN v8 = 1 .. Len(v8) /\ DOMAIN v1 = FileTools!Dirs
        OBVIOUS
      <4>2. ASSUME NEW i \in 1 .. Len(v8) PROVE v8[i] \in FileTools!Dirs /\ v8[i] # x
        <5>1. v8[i] \in FileTools!Dirs
          OBVIOUS
        <5>2. v8[i] \in FileTools!ToSet(v8)
          BY <4>1 DEF FileTools!ToSet
        <5> QED
          BY <3>1, <5>1, <5>2
      <4> QED
        BY <3>1, <4>1, <4>2
    <3> QED
      BY <1>1, <3>1
  <2> QED
    BY <1>1, <2>1 DEF FileTools!Descends
<1>6. FileTools!Checked'
  BY <1>1 DEF FileTools!Checked
<1> QED
  BY <1>3, <1>4, <1>5, <1>6

(* The call begins at the workspace.                                       *)
LEMMA ResolveKeeps ==
  ASSUME FileTools!StillInside, FileTools!Resolve
  PROVE  FileTools!StillInside'
<1> USE DEF FileTools!StillInside, FileTools!FileTypes
<1>1. /\ \/ v7' = "opening" /\ v8' = <<"root">>
         \/ v7' = "over" /\ v8' = <<>>
      /\ v1' = v1 /\ v3' = v3 /\ v11' = FileTools!Reached({})
  BY DEF FileTools!Resolve, FileTools!Fails, FileTools!Ends, FileTools!world
<1>2. v11' \subseteq FileTools!Dirs /\ "root" \in v11' /\ FileTools!Closed(v11)'
  BY <1>1, WithinBegins
<1>3. FileTools!FileTypes'
  <2>1. <<"root">> \in Seq(FileTools!Dirs) /\ <<>> \in Seq(FileTools!Dirs) /\ <<"root">> # <<>>
    BY DEF FileTools!Dirs
  <2>2. v1' = [x \in FileTools!Dirs |-> v1'[x]] /\ v1'["root"] = FileTools!Nowhere
    BY <1>1
  <2>3. v3' = [x \in FileTools!Dirs |-> v3'[x]]
    BY <1>1
  <2>4. /\ v8' \in Seq(FileTools!Dirs) /\ v7' # "asked"
        /\ v7' \notin {"asked", "over"} => v8' # <<>>
    <3>1. CASE v7' = "opening" /\ v8' = <<"root">>
      BY <2>1, <3>1
    <3>2. CASE v7' = "over" /\ v8' = <<>>
      BY <2>1, <3>2
    <3> QED
      BY <1>1, <3>1, <3>2
  <2> QED
    BY <1>2, <2>2, <2>3, <2>4
<1> QED
  BY <1>1, <1>2, <1>3 DEF FileTools!OpenedWithin, FileTools!Descends, FileTools!Checked

(* The next directory is in the last one, by its name or made there.       *)
LEMMA OpenNextKeeps ==
  ASSUME FileTools!StillInside, FileTools!OpenNext
  PROVE  FileTools!StillInside'
<1> USE DEF FileTools!StillInside, FileTools!FileTypes
<1> DEFINE d == FileTools!Last(v8)
           n == v6[Len(v8)]
<1>1. /\ v7 = "opening" /\ v3' = v3 /\ v12' = v12 /\ v11' = FileTools!Reached(v11)
      /\ \/ v7' = "over" /\ v8' = v8 /\ v1' = v1
         \/ v7' = v7 /\ v1' = v1 /\ \E x \in FileTools!DirAt(d, n) : v8' = Append(v8, x)
         \/ /\ v7' = v7 /\ v8' = Append(v8, "made") /\ "made" \notin v11
            /\ v1' = [v1 EXCEPT !["made"] = <<d, n>>]
  BY DEF FileTools!OpenNext, FileTools!Fails, FileTools!Ends, FileTools!OpenAt
<1>2. /\ v11' \subseteq FileTools!Dirs /\ v11 \subseteq v11'
      /\ "root" \in v11' /\ FileTools!Closed(v11)'
  BY <1>1, WithinGrows
<1>3. v8 # <<>> /\ Len(v8) \in Nat \ {0} /\ d = v8[Len(v8)] /\ d \in v11 /\ d \in FileTools!Dirs
  BY <1>1 DEF FileTools!OpenedWithin, FileTools!Last
<1>4. CASE v7' = "over" /\ v8' = v8 /\ v1' = v1
  <2>1. FileTools!FileTypes'
    BY <1>1, <1>2, <1>4
  <2> QED
    BY <1>1, <1>2, <1>4, <2>1 DEF FileTools!OpenedWithin, FileTools!Descends, FileTools!Checked
<1>5. ASSUME NEW x \in FileTools!DirAt(d, n), v7' = v7, v1' = v1, v8' = Append(v8, x)
      PROVE  FileTools!StillInside'
  <2>1. x \in FileTools!Dirs /\ v1[x] = <<d, n>> /\ v1[x] # FileTools!Nowhere /\ v1[x][1] = d
    BY <1>5 DEF FileTools!DirAt, FileTools!Nowhere
  <2>2. x \in v11
    BY <1>1, <1>3, <2>1 DEF FileTools!OpenedWithin, FileTools!Closed, FileTools!Parent
  <2>3. FileTools!FileTypes'
    BY <1>1, <1>2, <1>3, <1>5, <2>1
  <2>4. FileTools!OpenedWithin'
    BY <1>1, <1>2, <1>5, <2>1, <2>2 DEF FileTools!OpenedWithin
  <2>5. FileTools!Descends'
    BY <1>1, <1>3, <1>5, <2>1 DEF FileTools!Descends
  <2> QED
    BY <1>1, <1>5, <2>3, <2>4, <2>5 DEF FileTools!Checked
<1>6. ASSUME v7' = v7, v8' = Append(v8, "made"), "made" \notin v11, v1' = [v1 EXCEPT !["made"] = <<d, n>>]
      PROVE  FileTools!StillInside'
  <2>1. /\ "made" \in FileTools!Dirs /\ "made" # "root" /\ DOMAIN v1 = FileTools!Dirs
        /\ <<d, n>> # FileTools!Nowhere /\ "root" \in FileTools!Dirs
    BY DEF FileTools!Nowhere, FileTools!Dirs
  <2>2. v1'["made"] = <<d, n>> /\ \A y \in FileTools!Dirs : y # "made" => v1'[y] = v1[y]
    BY <1>6, <2>1
  <2>3. "made" \in v11'
    <3>1. d \in FileTools!Parent("made")'
      BY <2>1, <2>2 DEF FileTools!Parent
    <3> QED
      BY <1>2, <1>3, <2>1, <3>1 DEF FileTools!Closed
  <2>4. FileTools!FileTypes'
    <3>1. v1' = [x \in FileTools!Dirs |-> v1'[x]]
      BY <1>6, <2>1
    <3>2. v1'["root"] = FileTools!Nowhere /\ v3' = [x \in FileTools!Dirs |-> v3'[x]]
      BY <1>1, <2>1, <2>2
    <3>3. v8' \in Seq(FileTools!Dirs) /\ v8' # <<>>
      BY <1>3, <1>6, <2>1
    <3> QED
      BY <1>1, <1>2, <1>6, <3>1, <3>2, <3>3
  <2>5. FileTools!OpenedWithin'
    BY <1>1, <1>2, <1>6, <2>1, <2>3 DEF FileTools!OpenedWithin
  <2>6. \A i \in 1 .. Len(v8) : v8[i] \in FileTools!Dirs /\ v8[i] # "made"
    BY <1>6 DEF FileTools!OpenedWithin
  <2>7. FileTools!Descends'
    BY <1>1, <1>3, <1>6, <2>1, <2>2, <2>6 DEF FileTools!Descends
  <2> QED
    BY <1>1, <1>6, <2>4, <2>5, <2>7 DEF FileTools!Checked
<1> QED
  BY <1>1, <1>4, <1>5, <1>6

(* Nothing that .rozu is made of moved: it is where it was.                *)
LEMMA SettingsStay ==
  ASSUME v1' = v1, v2' = v2
  PROVE  FileTools!Settings' = FileTools!Settings
BY DEF FileTools!Settings, FileTools!Follow, FileTools!Enter, FileTools!IsLink, FileTools!Target,
  FileTools!Plain, FileTools!DirAt, FileTools!FoldLeft, FileTools!MapThenFoldSet

(* What the call does in the directory that it has opened.                 *)
LEMMA WritingKeeps ==
  ASSUME FileTools!StillInside,
         \/ FileTools!OpenDone \/ FileTools!Read \/ FileTools!Stat \/ FileTools!MakeTemp
         \/ FileTools!Fill \/ FileTools!LastCheck \/ FileTools!Rename \/ FileTools!Crash
         \/ UNCHANGED FileTools!vars
  PROVE  FileTools!StillInside'
<1> USE DEF FileTools!StillInside, FileTools!FileTypes
<1>1. v1' = v1 /\ v2' = v2 /\ v8' = v8 /\ v11' = v11 /\ v12' = v12
  BY DEF FileTools!OpenDone, FileTools!Read, FileTools!Stat, FileTools!MakeTemp, FileTools!Fill,
    FileTools!LastCheck, FileTools!Rename, FileTools!Crash, FileTools!Fails, FileTools!Ends,
    FileTools!world, FileTools!ghosts, FileTools!vars
<1>2. v3' = [x \in FileTools!Dirs |-> v3'[x]]
  BY DEF FileTools!OpenDone, FileTools!Read, FileTools!Stat, FileTools!MakeTemp, FileTools!Fill,
    FileTools!LastCheck, FileTools!Rename, FileTools!Crash, FileTools!world, FileTools!vars
<1>3. /\ \/ v7' = v7
         \/ v7 # "asked" /\ v7' # "asked" /\ (v7 = "over" => v7' = "over")
      /\ v7' = "renaming" => \/ v7 = "renaming" /\ v13' = v13
                            \/ FileTools!Settings \cap FileTools!ToSet(v8) = {}
  BY DEF FileTools!OpenDone, FileTools!Read, FileTools!Stat, FileTools!MakeTemp, FileTools!Fill,
    FileTools!LastCheck, FileTools!Rename, FileTools!Crash, FileTools!Fails, FileTools!Ends,
    FileTools!world, FileTools!ghosts, FileTools!vars, FileTools!Check
<1>4. FileTools!FileTypes'
  BY <1>1, <1>2, <1>3
<1>5. FileTools!OpenedWithin'
  BY <1>1, <1>3 DEF FileTools!OpenedWithin, FileTools!Closed, FileTools!Parent
<1>6. FileTools!Descends'
  BY <1>1 DEF FileTools!Descends
<1>7. FileTools!Checked'
  BY <1>1, <1>3, SettingsStay DEF FileTools!Checked, FileTools!ToSet
<1> QED
  BY <1>4, <1>5, <1>6, <1>7

LEMMA FilesStep ==
  FileTools!StillInside /\ (FileTools!Next \/ UNCHANGED FileTools!vars) => FileTools!StillInside'
BY OthersKeep, ResolveKeeps, OpenNextKeeps, WritingKeeps DEF FileTools!Next

(* Only a rename writes, in the last directory opened.                     *)
LEMMA FilesStayInside ==
  ASSUME FileTools!StillInside, FileTools!Next \/ UNCHANGED FileTools!vars
  PROVE  FileTools!StaysInside
<1> USE DEF FileTools!StillInside, FileTools!FileTypes
<1> SUFFICES ASSUME NEW x \in FileTools!Dirs, v3'[x] = "new", v3[x] # "new"
             PROVE  /\ x \in v11
                    /\ FileTools!Above(x) \cap FileTools!Settings # {} => v12 # {} \/ v13
  BY DEF FileTools!StaysInside
<1>1. v7 = "renaming" /\ x = FileTools!Last(v8)
  BY DEF FileTools!Next, FileTools!MoveDir, FileTools!Point, FileTools!Edit, FileTools!Resolve,
    FileTools!OpenNext, FileTools!OpenDone, FileTools!Read, FileTools!Stat, FileTools!MakeTemp,
    FileTools!Fill, FileTools!LastCheck, FileTools!Rename, FileTools!Crash, FileTools!world,
    FileTools!vars, FileTools!Parent0
<1>2. v8 # <<>> /\ Len(v8) \in 1 .. Len(v8) /\ x = v8[Len(v8)]
  BY <1>1 DEF FileTools!Last
<1>3. x \in v11
  BY <1>2 DEF FileTools!OpenedWithin
<1>4. ASSUME v12 = {} PROVE FileTools!Above(x) \subseteq FileTools!ToSet(v8)
  <2>1. ASSUME NEW i \in 1 .. Len(v8)
        PROVE  FileTools!Parent(v8[i]) \subseteq FileTools!ToSet(v8)
    <3>1. CASE i = 1
      BY <1>4, <3>1 DEF FileTools!Descends, FileTools!Parent
    <3>2. CASE i # 1
      <4>1. i - 1 \in 1 .. Len(v8) /\ DOMAIN v8 = 1 .. Len(v8)
        BY <3>2
      <4>2. v8[i - 1] \in FileTools!ToSet(v8)
        BY <4>1 DEF FileTools!ToSet
      <4>3. v1[v8[i]] # FileTools!Nowhere /\ v1[v8[i]][1] = v8[i - 1]
        BY <1>4, <3>2 DEF FileTools!Descends
      <4> QED
        BY <4>2, <4>3 DEF FileTools!Parent
    <3> QED
      BY <3>1, <3>2
  <2>2. DOMAIN v8 = 1 .. Len(v8)
    OBVIOUS
  <2>3. x \in FileTools!ToSet(v8)
    BY <1>2, <2>2 DEF FileTools!ToSet
  <2>4. ASSUME NEW y \in FileTools!ToSet(v8)
        PROVE  FileTools!Parent(y) \subseteq FileTools!ToSet(v8)
    <3>1. PICK i \in 1 .. Len(v8) : y = v8[i]
      BY <2>2 DEF FileTools!ToSet
    <3> QED
      BY <2>1, <3>1
  <2> QED
    BY <2>3, <2>4, AboveIn
<1> QED
  BY <1>1, <1>3, <1>4 DEF FileTools!Checked

(* A file is what it was or the whole new text.                            *)
LEMMA WholeStarts == FileTools!Init => FileTools!StillWhole
BY DEF FileTools!Init, FileTools!StillWhole, FileTools!NotYet, FileTools!FileWhole

LEMMA WholeStep ==
  FileTools!StillWhole /\ (FileTools!Next \/ UNCHANGED FileTools!vars) => FileTools!StillWhole'
<1> SUFFICES ASSUME FileTools!StillWhole, FileTools!Next \/ UNCHANGED FileTools!vars
             PROVE  FileTools!StillWhole'
  OBVIOUS
<1> USE DEF FileTools!StillWhole, FileTools!NotYet, FileTools!FileWhole, FileTools!Fails,
        FileTools!Ends, FileTools!Dropped, FileTools!world, FileTools!Parent0
<1>1. CASE FileTools!MoveDir \/ FileTools!Point
  BY <1>1 DEF FileTools!MoveDir, FileTools!Point, FileTools!Noted
<1>2. CASE FileTools!Edit
  BY <1>2 DEF FileTools!Edit, FileTools!Noted
<1>3. CASE FileTools!Resolve
  BY <1>3 DEF FileTools!Resolve
<1>4. CASE FileTools!OpenNext
  BY <1>4 DEF FileTools!OpenNext
<1>5. CASE FileTools!OpenDone \/ FileTools!Read \/ FileTools!Stat
  BY <1>5 DEF FileTools!OpenDone, FileTools!Read, FileTools!Stat
<1>6. CASE FileTools!MakeTemp \/ FileTools!Fill \/ FileTools!LastCheck
  BY <1>6 DEF FileTools!MakeTemp, FileTools!Fill, FileTools!LastCheck
<1>7. CASE FileTools!Rename
  BY <1>7 DEF FileTools!Rename
<1>8. CASE FileTools!Crash \/ UNCHANGED FileTools!vars
  BY <1>8 DEF FileTools!Crash, FileTools!vars
<1> QED
  BY <1>1, <1>2, <1>3, <1>4, <1>5, <1>6, <1>7, <1>8 DEF FileTools!Next
=============================================================================
