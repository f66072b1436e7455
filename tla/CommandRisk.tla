----------------------------- MODULE CommandRisk -----------------------------
(***************************************************************************)
(* The risk of a shell command line (rozu-tools command_risk.rs) and the   *)
(* "always allow" rules for command lines (command_risk/rules.rs), against *)
(* what a shell would run.                                                 *)
(*                                                                         *)
(* A line is a sequence of characters and of atoms, the words that matter  *)
(* here; each atom stands for a class of programs, options or operands     *)
(* ("cat" for every program with a grammar of reads, "make" for those that *)
(* write the workspace, "out" for a path outside the scope, "$" for all    *)
(* expansions and globs, ";" for all separators but the newline).  Left    *)
(* out: input redirections, descriptors ("2>"), the & and | of redirection *)
(* operators.  Sh is the shell (external): it splits a line with its       *)
(* quotes honoured.                                                        *)
(***************************************************************************)
EXTENDS Integers, Sequences, FiniteSets, SequencesExt

CONSTANTS
  Fragments, \* pieces a line is put together from
  MaxPieces, \* bound on them
  MaxDepth,  \* MAX_DEPTH, of nested scripts
  Granted    \* prefixes of stored rules: sequences of words

VARIABLES line, pieces

Text == Seq(STRING)
Scopes == {"workspace", "empty"}

Init == line = <<>> /\ pieces = 0
Next == pieces < MaxPieces /\ \E f \in Fragments : line' = line \o f /\ pieces' = pieces + 1
Spec == Init /\ [][Next]_<<line, pieces>>

-----------------------------------------------------------------------------
(* CommandRisk.                                                            *)
Order == <<"read", "write", "outside", "network", "opaque", "destructive">>
Rank(r) == CHOOSE i \in 1 .. Len(Order) : Order[i] = r

Risky(risk, network, unrulable) ==
  [risk |-> risk, network |-> network, unrulable |-> unrulable, outside |-> {}]
READ == Risky("read", FALSE, FALSE)
WRITE == Risky("write", FALSE, FALSE)
OUTSIDE == Risky("outside", FALSE, FALSE)
NETWORK == Risky("network", TRUE, FALSE)
OPAQUE == Risky("opaque", FALSE, FALSE)
INLINE == Risky("opaque", FALSE, TRUE)
DESTRUCTIVE == Risky("destructive", FALSE, FALSE)

Worse(a, b) ==
  [risk |-> IF Rank(a.risk) >= Rank(b.risk) THEN a.risk ELSE b.risk,
   network |-> a.network \/ b.network, unrulable |-> a.unrulable \/ b.unrulable,
   outside |-> a.outside \cup b.outside]
Worst(risks, from) == FoldLeft(Worse, from, risks)
Unknown(r) == [r EXCEPT !.outside = @ \cup {"unknown"}]

(* PathScope::target.  Only a path that leads out is outside the scope of  *)
(* a workspace; nothing is inside an empty one.                            *)
Target(w, scope) ==
  IF \E i \in 1 .. Len(w) : w[i] = "$" THEN "unknown"
  ELSE IF scope = "empty" \/ (w # <<>> /\ w[1] = "out") THEN "outside" ELSE "inside"

Sink == <<"null">>
WritesTo(base, paths, scope, risk) ==
  Worst([i \in 1 .. Len(paths) |->
           IF Target(paths[i], scope) = "inside" THEN base
           ELSE [risk EXCEPT !.outside = {Target(paths[i], scope)}]], base)

-----------------------------------------------------------------------------
(* Reading a line.                                                         *)
Between(w, cuts) == [k \in 1 .. Len(cuts) - 1 |-> SubSeq(w, cuts[k] + 1, cuts[k + 1] - 1)]
SplitsAt(w, seps) ==
  Between(w, <<0>> \o SelectSeq([i \in 1 .. Len(w) |-> i], LAMBDA i : w[i] \in seps)
                  \o <<Len(w) + 1>>)
Shown(s) == {i \in 1 .. Len(s) : s[i] # " "}
Trim(s) == IF Shown(s) = {} THEN <<>> ELSE SubSeq(s, Min(Shown(s)), Max(Shown(s)))

(* split_segments: quotes are not looked at.                               *)
Trimmed(parts) == [k \in 1 .. Len(parts) |-> Trim(parts[k])]
SplitSegments(w) == SelectSeq(Trimmed(SplitsAt(w, {";", "nl"})), LAMBDA s : s # <<>>)

(* tokenize: a scan over the characters; a word of a redirection is marked *)
(* by the operator before it.                                              *)
NoWord == [mode |-> "bare", word |-> <<>>, in |-> FALSE, raw |-> <<>>, uncertain |-> FALSE]
Flush(s) ==
  IF s.in THEN [s EXCEPT !.raw = Append(@, [op |-> FALSE, text |-> s.word]),
                         !.word = <<>>, !.in = FALSE] ELSE s
Add(s, c) == [s EXCEPT !.word = Append(@, c), !.in = TRUE]
In(s, m) == [s EXCEPT !.mode = m, !.in = TRUE]
Doubt(s) == [s EXCEPT !.uncertain = TRUE]

(* Variant: an expansion within double quotes is taken as it stands.       *)
ReadDoubleTrusting(s, c) ==
  CASE c = "\"" -> In(s, "bare") [] c = "\\" -> In(s, "doubleEscape") [] OTHER -> Add(s, c)
ReadDouble(s, c) ==
  CASE c = "\"" -> In(s, "bare")
    [] c = "\\" -> In(s, "doubleEscape")
    [] c = "$" -> Doubt(Add(s, c))
    [] OTHER -> Add(s, c)

ReadBare(s, c) ==
  CASE c = " " -> Flush(s)
    [] c = "'" -> In(s, "single")
    [] c = "\"" -> In(s, "double")
    [] c = "\\" -> In(s, "escape")
    [] c = ">" -> [Flush(s) EXCEPT !.raw =
                     IF @ # <<>> /\ Last(@).op /\ ~s.in /\ s.mode = "op" THEN @
                     ELSE Append(@, [op |-> TRUE, text |-> <<>>]), !.mode = "op"]
    [] c = "$" -> Doubt(Add(s, c))
    [] OTHER -> Add(s, c)

ReadChar(s, c) ==
  CASE s.mode = "bare" -> ReadBare(s, c)
    [] s.mode = "op" -> IF c = ">" THEN s ELSE ReadBare([s EXCEPT !.mode = "bare"], c)
    [] s.mode = "single" -> IF c = "'" THEN In(s, "bare") ELSE Add(s, c)
    [] s.mode = "double" -> ReadDouble(s, c)
    [] s.mode = "doubleEscape" ->
         IF c \in {"\"", "\\", "$"} THEN In(Add(s, c), "double")
         ELSE ReadDouble([Add(s, "\\") EXCEPT !.mode = "double"], c)
    [] s.mode = "escape" -> In(Add(s, c), "bare")

Tokens(raw, uncertain) ==
  LET target(i) == raw[i].op /\ i < Len(raw) /\ ~raw[i + 1].op
      plain == SelectSeq([i \in 1 .. Len(raw) |-> i],
                         LAMBDA i : ~raw[i].op /\ ~(i > 1 /\ target(i - 1)))
  IN [words |-> [k \in 1 .. Len(plain) |-> raw[plain[k]].text],
      targets |-> {raw[i + 1].text : i \in {j \in 1 .. Len(raw) : target(j)}},
      uncertain |-> uncertain]
ReadAll(s) == Tokens(Flush(s).raw, s.uncertain \/ s.mode \notin {"bare", "op"})
Tokenize(segment) == ReadAll(FoldLeft(ReadChar, NoWord, segment))

(* classify_redirect: writing a file is opaque, outside it is destructive. *)
ClassifyRedirect(w, scope) ==
  IF w = Sink THEN READ
  ELSE IF Target(w, scope) = "inside" THEN INLINE
  ELSE [DESTRUCTIVE EXCEPT !.unrulable = TRUE, !.outside = {Target(w, scope)}]

-----------------------------------------------------------------------------
(* Programs.                                                               *)
IsFlag(w) == w # <<>> /\ Head(w) \in {"-n", "-x", "-c", "-r", "-exec", "-m", "--"}
HasFlag(args, f) == \E i \in 1 .. Len(args) : args[i] # <<>> /\ Head(args[i]) = f

(* operands: after a "--" everything counts.                               *)
Operands(args) ==
  LET dashes == {i \in 1 .. Len(args) : args[i] = <<"--">>}
      first == IF dashes = {} THEN Len(args) + 1 ELSE CHOOSE i \in dashes : \A j \in dashes : i <= j
      keep == SelectSeq([i \in 1 .. Len(args) |-> i],
                        LAMBDA i : i > first \/ (i < first /\ ~IsFlag(args[i])))
  IN [k \in 1 .. Len(keep) |-> args[keep[k]]]

(* safe_operands: only declared options, up to a "--".                     *)
SafeOperands(args) ==
  \A i \in 1 .. Len(args) :
    IsFlag(args[i]) /\ ~\E j \in 1 .. i : args[j] = <<"--">> => args[i] = <<"-n">>

(* program_name: the name of a program the repository could not have put   *)
(* there; "" (here "./cat") has no identity.                               *)
Programs == {"cat", "make", "cp", "rm", "sed", "curl", "sudo", "sh", "py", "eval", "find", "git",
             "tee", "kill", "cargo", "chmod"}
ProgramName(w) == IF Len(w) = 1 /\ w[1] \in Programs THEN w[1] ELSE "unknown"

(* runs_named_script and named_script_risk.                                *)
RunsNamedScript(args) ==
  IF args = <<>> THEN FALSE
  ELSE IF args[1] = <<"-m">> THEN Len(args) > 1 /\ ~IsFlag(args[2]) ELSE ~IsFlag(args[1])
NamedScriptRisk(args, scope) ==
  IF args[1] # <<"-m">> /\ Target(args[1], scope) = "inside" THEN WRITE ELSE OPAQUE

NetworkRisk(args) == IF SafeOperands(args) THEN NETWORK ELSE Worse(NETWORK, INLINE)

RmRisk(args, scope) ==
  WritesTo(IF HasFlag(args, "-r") THEN DESTRUCTIVE ELSE WRITE, Operands(args), scope, DESTRUCTIVE)
ChmodRisk(args, scope) ==
  WritesTo(IF HasFlag(args, "-r") THEN DESTRUCTIVE ELSE WRITE,
           IF Operands(args) = <<>> THEN <<>> ELSE Tail(Operands(args)), scope, DESTRUCTIVE)
TeeRisk(args, scope) ==
  LET paths == SelectSeq(Operands(args), LAMBDA p : p # Sink)
  IN IF paths = <<>> THEN READ ELSE WritesTo(INLINE, paths, scope, DESTRUCTIVE)
(* cp, ln, install: the last operand; -x stands for -t.                    *)
CpRisk(args, scope) ==
  LET ops == Operands(args)
      written == IF HasFlag(args, "-x") \/ ops = <<>> THEN ops ELSE <<Last(ops)>>
  IN WritesTo(WRITE, written, scope, OUTSIDE)

(* Package managers: installing reaches the network, removing destroys.    *)
CargoRisk(args) ==
  LET ops == Operands(args)
  IN IF ops # <<>> /\ ops[1] = <<"install">> THEN NETWORK
     ELSE IF ops # <<>> /\ ops[1] = <<"remove">> THEN DESTRUCTIVE ELSE WRITE

(* classify_git: always opaque, with what is known of the subcommand.      *)
GitRisk(args) ==
  Worse(INLINE, CASE args = <<>> -> INLINE
                  [] args[1] = <<"install">> -> NETWORK
                  [] args[1] = <<"remove">> /\ HasFlag(Tail(args), "-x") -> DESTRUCTIVE
                  [] args[1] = <<"make">> /\ HasFlag(Tail(args), "-x") -> Unknown(OUTSIDE)
                  [] OTHER -> INLINE)

-----------------------------------------------------------------------------
(* classify_tokens, of each segment of a line, with what words are.        *)
ClassifyTokens(t, scope, depth, Words) ==
  Worst(SetToSeq({ClassifyRedirect(w, scope) : w \in t.targets})
          \o <<Words[t.words, scope, depth]>>,
        IF t.uncertain THEN INLINE ELSE READ)
ClassifySegment(segment, scope, depth, Words) ==
  ClassifyTokens(Tokenize(segment), scope, depth, Words)

Continues(w) == \E i \in 1 .. Len(w) - 1 : w[i] = "\\" /\ w[i + 1] = "nl"

ClassifyDepth(w, scope, depth, Words) ==
  IF depth > MaxDepth THEN Unknown(DESTRUCTIVE)
  ELSE LET segments == SplitSegments(w)
       IN Worst([i \in 1 .. Len(segments) |-> ClassifySegment(segments[i], scope, depth, Words)],
                IF Continues(w) THEN INLINE ELSE READ)

(* A script is classified too; running it is opaque.                       *)
ShellRisk(args, scope, depth, Words) ==
  LET scripts == {i \in 1 .. Len(args) : args[i] # <<>> /\ Head(args[i]) \in {"-c", "-exec"}}
      at == CHOOSE i \in scripts : \A j \in scripts : i <= j
  IN IF scripts # {}
     THEN IF at < Len(args) THEN Worse(ClassifyDepth(args[at + 1], scope, depth + 1, Words), INLINE)
          ELSE INLINE
     ELSE IF RunsNamedScript(args) /\ args[1] # <<"-m">> THEN NamedScriptRisk(args, scope)
     ELSE INLINE

(* classify_find.                                                          *)
FindRisk(args, scope, depth, Words) ==
  LET acts == {i \in 1 .. Len(args) : args[i] \in {<<"-exec">>, <<"-r">>}}
      at == CHOOSE i \in acts : \A j \in acts : i <= j
  IN IF acts = {} THEN IF SafeOperands(args) /\ ~HasFlag(args, "--") THEN READ ELSE INLINE
     ELSE IF args[at] = <<"-r">> THEN DESTRUCTIVE    \* stands for -delete
     ELSE Worse(Words[SubSeq(args, at + 1, Len(args)), scope, depth + 1], INLINE)

Joined(args) ==
  IF args = <<>> THEN <<>> ELSE FoldLeft(LAMBDA a, b : a \o <<" ">> \o b, Head(args), Tail(args))

(* classify_words: a word may be a script, which holds words.              *)
ClassifyWords[words \in Seq(Text), scope \in Scopes, depth \in Nat] ==
  IF depth > MaxDepth THEN INLINE
  ELSE IF words = <<>> THEN READ
  ELSE LET name == ProgramName(Head(words)) args == Tail(words) IN
    CASE name = "sudo" -> Unknown(DESTRUCTIVE)
      [] name = "curl" -> NetworkRisk(args)
      [] name = "py" -> IF RunsNamedScript(args) THEN NamedScriptRisk(args, scope) ELSE INLINE
      [] name = "sh" -> ShellRisk(args, scope, depth, ClassifyWords)
      [] name = "eval" -> Worse(ClassifyDepth(Joined(args), scope, depth + 1, ClassifyWords), INLINE)
      [] name = "find" -> FindRisk(args, scope, depth, ClassifyWords)
      [] name = "git" -> GitRisk(args)
      [] name = "rm" -> RmRisk(args, scope)
      [] name = "chmod" -> ChmodRisk(args, scope)
      [] name = "tee" -> TeeRisk(args, scope)
      [] name = "kill" -> OUTSIDE
      [] name = "cp" -> CpRisk(args, scope)
      [] name = "cat" /\ SafeOperands(args) -> READ
      [] name = "make" -> WRITE
      [] name = "cargo" -> CargoRisk(args)
      [] OTHER -> INLINE

ClassifyCommand(w, scope) == ClassifyDepth(w, scope, 0, ClassifyWords)

-----------------------------------------------------------------------------
(* Rules.                                                                  *)
None == << <<"none">> >>

(* Variant: only destructive commands are kept from the rules.             *)
RuleScopeCheckLoose(w) ==
  LET r == ClassifyCommand(w, "empty") IN r.network \/ r.risk = "destructive"
(* rule_scope_check: what a rule must never cover, wherever it is run.     *)
RuleScopeCheck(w) ==
  LET r == ClassifyCommand(w, "empty") IN r.unrulable \/ r.network \/ r.risk = "destructive"

RulePrefix(words) ==
  LET name == ProgramName(words[1])
  IN IF words = <<>> THEN None
     ELSE IF name \in {"sh", "py"}
          THEN IF Len(words) < 2 THEN None
               ELSE IF words[2] = <<"-m">> THEN SubSeq(words, 1, 3) ELSE SubSeq(words, 1, 2)
     ELSE IF name \in {"make", "cargo", "git"} /\ Len(words) > 1
             /\ ToSet(words[2]) \subseteq Programs \cup {"install", "remove", "in"}
          THEN SubSeq(words, 1, 2) ELSE SubSeq(words, 1, 1)

SuggestRule(w) ==
  IF RuleScopeCheck(w) \/ Len(SplitSegments(w)) # 1 THEN None
  ELSE RulePrefix(Tokenize(SplitSegments(w)[1]).words)

(* A rule is stored as one text and read back word by word.                *)
Stored(rule) == SelectSeq(SplitsAt(Joined(rule), {" ", "nl"}), LAMBDA x : x # <<>>)

RulesAllow(w, rules) ==
  LET segments == SplitSegments(w) IN
  /\ ~RuleScopeCheck(w) /\ segments # <<>>
  /\ \A i \in 1 .. Len(segments) :
       \E rule \in rules : rule # <<>> /\ IsPrefix(rule, Tokenize(segments[i]).words)

-----------------------------------------------------------------------------
(* The shell.  A scan like Tokenize's, over the whole line: quotes hide    *)
(* separators, a backslash before a newline joins lines.                   *)
NoCommand == [words |-> <<>>, targets |-> {}, expands |-> FALSE]
ShStart == [mode |-> "bare", word |-> <<>>, in |-> FALSE, redirect |-> FALSE,
            command |-> NoCommand, commands |-> <<>>]
ShWord(s) ==
  IF ~s.in THEN s
  ELSE [s EXCEPT !.command = IF s.redirect THEN [@ EXCEPT !.targets = @ \cup {s.word}]
                             ELSE [@ EXCEPT !.words = Append(@, s.word)],
                 !.word = <<>>, !.in = FALSE, !.redirect = FALSE]
ShCommand(s) ==
  LET t == ShWord(s) IN [t EXCEPT !.commands = Append(@, t.command), !.command = NoCommand,
                                  !.redirect = FALSE]
ShExpand(s) == [Add(s, "$") EXCEPT !.command.expands = TRUE]
ShChar(s, c) ==
  CASE s.mode = "single" -> IF c = "'" THEN In(s, "bare") ELSE Add(s, c)
    [] s.mode = "escape" -> IF c = "nl" THEN [s EXCEPT !.mode = "bare"] ELSE In(Add(s, c), "bare")
    [] s.mode = "doubleEscape" ->
         IF c = "nl" THEN In(s, "double")
         ELSE IF c \in {"\"", "\\", "$"} THEN In(Add(s, c), "double")
         ELSE In(Add(Add(s, "\\"), c), "double")
    [] s.mode = "double" ->
         (CASE c = "\"" -> In(s, "bare") [] c = "\\" -> In(s, "doubleEscape")
            [] c = "$" -> ShExpand(s) [] OTHER -> Add(s, c))
    [] OTHER ->
         (CASE c = " " -> ShWord(s)
            [] c = "'" -> In(s, "single")
            [] c = "\"" -> In(s, "double")
            [] c = "\\" -> [s EXCEPT !.mode = "escape"]
            [] c = ">" -> [ShWord(s) EXCEPT !.redirect = TRUE]
            [] c \in {";", "nl"} -> ShCommand(s)
            [] c = "$" -> ShExpand(s)
            [] OTHER -> Add(s, c))

(* What runs; a command with a quote left open does not.                   *)
ShRuns(w) ==
  LET s == FoldLeft(ShChar, ShStart, w)
  IN ToSet(IF s.mode \in {"bare", "escape"} THEN ShCommand(s).commands ELSE s.commands)

(* What the words do: a script and the words of -exec are what they are.   *)
DoesWords(words, scope, depth, Script) ==
  LET name == IF words = <<>> THEN "none" ELSE ProgramName(Head(words))
      args == IF words = <<>> THEN <<>> ELSE Tail(words)
      pos(f) == CHOOSE i \in 1 .. Len(args) :
                  /\ args[i] # <<>> /\ Head(args[i]) = f
                  /\ \A j \in 1 .. i - 1 : args[j] = <<>> \/ Head(args[j]) # f
  IN CASE name = "sh" /\ HasFlag(args, "-c") ->
            IF pos("-c") < Len(args) THEN Script[args[pos("-c") + 1], scope, depth + 1] ELSE READ
       [] name = "eval" -> Script[Joined(args), scope, depth + 1]
       [] OTHER -> ClassifyWords[words, scope, 0]
Does[w \in Text, scope \in Scopes, depth \in Nat] ==
  IF depth > MaxDepth + 1 THEN READ
  ELSE Worst(SetToSeq({Worst(SetToSeq({ClassifyRedirect(t, scope) : t \in c.targets})
                             \o <<IF c.expands THEN INLINE ELSE READ>>,
                             DoesWords(c.words, scope, depth, Does)) : c \in ShRuns(w)}), READ)

(* Nothing the shell would do is hidden by the way the line is written: a  *)
(* line is as risky as what it does, or opaque, which asks in every mode   *)
(* (split_segments: quotes "can only add segments").                       *)
NothingHidden ==
  LET seen == ClassifyCommand(line, "workspace").risk
  IN Rank(seen) >= Rank("opaque") \/ Rank(Does[line, "workspace", 0].risk) <= Rank(seen)

(* What stored rules let through is, to the shell too, only commands that  *)
(* begin with the words of a rule, write no file by a redirection, and     *)
(* neither reach the network nor destroy (rules_allow).                    *)
RulesCoverTheirPrefix ==
  RulesAllow(line, Granted) =>
    \A c \in ShRuns(line) \ {NoCommand} :
      /\ \E rule \in Granted : IsPrefix(rule, c.words)
      /\ \A t \in c.targets : t = Sink
      /\ ~c.expands
      /\ LET d == DoesWords(c.words, "empty", 0, Does) IN ~d.network /\ Rank(d.risk) <= Rank("opaque")

(* The rule stored for a line covers it, unless a word of the rule has a   *)
(* space in it and comes back as two (suggest_rule).                       *)
OwnRuleCovers ==
  \A rule \in {SuggestRule(line)} \ {None} : Stored(rule) # rule \/ RulesAllow(line, {rule})
=============================================================================
