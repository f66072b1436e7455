----------------------------- MODULE ShellWords -----------------------------
(***************************************************************************)
(* The shell wrapper of Codex's commands (codex/approvals.rs).  Codex runs *)
(* `/bin/zsh -lc '...'`; the command classifier is to see the script, so   *)
(* the wrapper is taken off (unwrap_shell), or put on first when the       *)
(* command arrives as a list of words (join_argv).                         *)
(*                                                                         *)
(* A word is a sequence over a small alphabet: "a" stands for characters   *)
(* without a meaning to the shell, "$" for expansions (and `), ";" for     *)
(* operators, globs and comments.  Sh is the shell itself (external, POSIX *)
(* 2.2): what one word of a command line means to it.  A leading ~ is left *)
(* out: the script would see it expanded, the classifier unexpanded.       *)
(***************************************************************************)
EXTENDS Naturals, Sequences

CONSTANT MaxLength \* bound: characters of a word

VARIABLE word

Alphabet == {"a", "'", "\"", "\\", "$", ";", " ", "nl"}
None == <<"none">> \* no script: the line is shown to the classifier as it is
Escapable == {"\"", "\\", "$"}

Init == word = <<>>
Next == Len(word) < MaxLength /\ \E c \in Alphabet : word' = Append(word, c)
Spec == Init /\ [][Next]_word

(* A scan is a state: the mode, the text so far and whether a quote was    *)
(* seen; "fail" is for good.                                               *)
Start == [mode |-> "bare", out |-> <<>>, quoted |-> FALSE]
Fail(s) == [s EXCEPT !.mode = "fail"]
Take(s, c) == [s EXCEPT !.out = Append(@, c)]
To(s, m) == [s EXCEPT !.mode = m]

(* Variant: a newline after a backslash is taken as any other character.   *)
BareEscapeAny(s, c) == To(Take(s, c), "bare")
(* A character after a backslash outside quotes; a line continuation is    *)
(* not interpreted.                                                        *)
BareEscape(s, c) == IF c = "nl" THEN Fail(s) ELSE To(Take(s, c), "bare")

(* After a backslash within double quotes it stays, but before a character *)
(* it protects.                                                            *)
DoubleEscape(s, c) ==
  CASE c \in Escapable -> To(Take(s, c), "double")
    [] c = "nl" -> Fail(s)
    [] OTHER -> To(Take(Take(s, "\\"), c), "double")

Bare(s, c) ==
  CASE c = "'" -> [To(s, "single") EXCEPT !.quoted = TRUE]
    [] c = "\"" -> [To(s, "double") EXCEPT !.quoted = TRUE]
    [] c = "\\" -> To(s, "bareEscape")
    [] c \in {" ", "nl", "$", ";"} -> Fail(s)
    [] OTHER -> Take(s, c)

Single(s, c) == IF c = "'" THEN To(s, "bare") ELSE Take(s, c)

Double(s, c) ==
  CASE c = "\"" -> To(s, "bare")
    [] c = "\\" -> To(s, "doubleEscape")
    [] c = "$" -> Fail(s)
    [] OTHER -> Take(s, c)

Read(s, c) ==
  CASE s.mode = "bare" -> Bare(s, c)
    [] s.mode = "single" -> Single(s, c)
    [] s.mode = "double" -> Double(s, c)
    [] s.mode = "bareEscape" -> BareEscape(s, c)
    [] s.mode = "doubleEscape" -> DoubleEscape(s, c)
    [] OTHER -> s

Scan(w) ==
  LET at[n \in 0..Len(w)] == IF n = 0 THEN Start ELSE Read(at[n - 1], w[n])
  IN at[Len(w)]

(* unquote: the script, if the word is a quoted string and nothing else.   *)
Unquote(w) ==
  LET s == Scan(w) IN IF s.mode = "bare" /\ s.quoted THEN s.out ELSE None

(* Variant: a quote within the word is left as it is.                      *)
QuoteBare(w) == <<"'">> \o w \o <<"'">>
(* quote: words without a special character stay, others go in quotes,     *)
(* their own quotes written '\''.                                          *)
Quote(w) ==
  LET at[n \in 0..Len(w)] ==
        IF n = 0 THEN <<>>
        ELSE at[n - 1] \o (IF w[n] = "'" THEN <<"'", "\\", "'", "'">> ELSE <<w[n]>>)
  IN IF w # <<>> /\ \A n \in 1..Len(w) : w[n] = "a" THEN w
     ELSE <<"'">> \o at[Len(w)] \o <<"'">>

-----------------------------------------------------------------------------
(* The shell: one word, with quotes removed.  None when the line is not    *)
(* one word, has an expansion, or a quote is left open.                    *)
Shell(w) ==
  LET n == Len(w)
      (* what character k is: read from the left, like the shell's lexer   *)
      in[k \in 0..n] ==   \* the context after k characters
        IF k = 0 THEN "bare"
        ELSE LET m == in[k - 1] c == w[k] IN
             CASE m = "bare" -> (CASE c = "'" -> "single" [] c = "\"" -> "double"
                                   [] c = "\\" -> "esc" [] OTHER -> "bare")
               [] m = "single" -> IF c = "'" THEN "bare" ELSE "single"
               [] m = "double" -> (CASE c = "\"" -> "bare" [] c = "\\" -> "desc"
                                     [] OTHER -> "double")
               [] m = "esc" -> "bare"
               [] OTHER -> "double"
      Literal(k) ==   \* what character k leaves in the word
        LET m == in[k - 1] c == w[k] IN
        CASE m = "bare" -> IF c \in {"'", "\"", "\\"} THEN <<>> ELSE <<c>>
          [] m = "single" -> IF c = "'" THEN <<>> ELSE <<c>>
          [] m = "double" -> IF c \in {"\"", "\\"} THEN <<>> ELSE <<c>>
          [] m = "esc" -> IF c = "nl" THEN <<>> ELSE <<c>>
          [] OTHER -> IF c \in Escapable THEN <<c>> ELSE IF c = "nl" THEN <<>> ELSE <<"\\", c>>
      out[k \in 0..n] == IF k = 0 THEN <<>> ELSE out[k - 1] \o Literal(k)
      Splits == \E k \in 1..n : in[k - 1] = "bare" /\ w[k] \in {" ", "nl", ";"}
      Expands == \E k \in 1..n : in[k - 1] \in {"bare", "double"} /\ w[k] = "$"
  IN IF in[n] # "bare" \/ Splits \/ Expands THEN None ELSE out[n]

(* The script shown to the classifier is the script the shell will run:    *)
(* whatever unquote returns is what the word means to the shell.           *)
UnquotedIsRun == Unquote(word) # None => Unquote(word) = Shell(word)

(* A word put on a line by join_argv means itself there, and a script put  *)
(* in quotes is the one unwrap_shell takes out again.                      *)
QuotedMeansItself ==
  /\ Shell(Quote(word)) = word
  /\ Quote(word) # word => Unquote(Quote(word)) = word
=============================================================================
