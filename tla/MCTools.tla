------------------------------ MODULE MCTools ------------------------------
(***************************************************************************)
(* What a turn stands on, for TLC: the turn itself (AgentTurn), watched    *)
(* under an OS sandbox or on a machine without one, and saved and resumed  *)
(* (SavedTurns); the rules on disk (ApprovalRules); and the modules of the *)
(* tools, providers and files, each with small bounds.  Only safety is     *)
(* asked of them here.                                                     *)
(*                                                                         *)
(* The modules do not share state.  A behaviour moves one part, and all    *)
(* parts but the rules keep their variables in the same places, v1 to v25; *)
(* the places a part does not use are 0.                                   *)
(***************************************************************************)
EXTENDS ToolParts

CONSTANTS r1, BadCall, NoPrompt, NoAnswer

VARIABLES part, v18, v19, v20, v21, v22, v23, v24, v25

(* A build, a command that writes outside and may be always allowed, the   *)
(* same command with network access and a destructive one.                 *)
ShellKind(risk, network, rule) ==
  [risk |-> risk, sandboxed |-> TRUE, network |-> network, rule |-> rule, huge |-> FALSE]
Build   == ShellKind("write", FALSE, NoRule)
Outside == ShellKind("outside", FALSE, r1)
Fetch   == ShellKind("outside", TRUE, r1)
Remove  == ShellKind("destructive", FALSE, r1)

(* What commands are built from, and the rules that are stored.            *)
RiskFragments ==
  {<<"cat", " ">>, <<"rm", " ", "out">>, <<"make">>, <<"cargo", " ", "install">>,
   <<"sh", " ">>, <<"sh", " ", "-c", " ">>, <<"find", " ", "-exec", " ">>, <<"eval", " ">>,
   <<" ", "out">>, <<" ", "in">>, <<" ", "-x">>,
   <<"'">>, <<"\"">>, <<"\\">>, <<";">>, <<">">>, <<"nl">>, <<"$">>}
RiskGranted == {<< <<"make">> >>, << <<"sh">>, <<"in">> >>}

(* No model, a blank one, a provider's name, ids listed once and twice,    *)
(* ids told by their prefix, an unknown one, models with their provider,   *)
(* also another's, and ids with slashes of their own.                      *)
MCModelSpecs == {<<>>, <<"">>, <<"codex">>, <<"gpt-6.1-sol">>, <<"default">>, <<"grok-next">>,
                 <<"mystery">>, <<"claude-cli", "opus">>, <<"xai", "grok-4.6">>,
                 <<"openai", "">>, <<"openai", "meta", "llama">>, <<"openai", "xai", "grok-4.7">>}

(* Where a link in /o may lead, what a command names outside the workspace *)
(* /u/w and what it writes.                                                *)
MCLinkTargets == {<<"o", "a">>, <<"o", "b">>, <<"u">>, <<"u", "w">>}
MCAskedPaths == {{}, {<<"etc">>}, {<<"etc", "hosts">>}, {<<"o", "link">>}, {<<"o", "a">>},
               {<<"o", "link", "f">>, <<"o">>}}
MCWrittenPaths == {<<"u", "w", "f">>, <<"u", "w", ".rozu", "rules">>, <<"t", "session", "f">>,
                 <<"o", "link", "f">>, <<"o", "link", ".rozu">>, <<"o", "a", "f">>,
                 <<"etc", "hosts">>, <<"u", "f">>}

(* Saved chats of two days, a title with LIKE's wildcard, and what may be  *)
(* asked for: ids and their prefixes, words and the wildcard.              *)
ChatIds == << <<"1", "a">>, <<"1", "b">>, <<"2", "a">> >>
ChatTitles == {<<"a">>, <<"a", "%">>}
ChatQueries == {<<"1">>, <<"1", "a">>, <<"a">>, <<"%">>, <<"x">>}

(* What is typed as a key, or exported as one.                             *)
MCKeyTexts == {<<"k">>, <<"o", "blank">>, <<"blank">>}

-----------------------------------------------------------------------------
WatchedTurn == INSTANCE AgentTurnProofs WITH
        Kinds <- {Outside, Fetch, BadCall}, ApprovalMode <- "auto",
        Enforced <- TRUE, AsksUser <- TRUE, StoredRules <- {},
        Rules <- {r1}, KeepTurns <- 1, MaxSteps <- 2, MaxCalls <- 2,
        MaxTurns <- 1, MaxIds <- 2, Capacity <- 1, pc <- v1,
        cancelled <- v2, messages <- v3, step <- v4, outcome <- v5,
        text <- v6, calls <- v7, index <- v8, verdict <- v9, retry <- v10,
        prompt <- v11, answer <- v12, rules <- v13, events <- v14,
        listening <- v15, feed <- v16, nextId <- v17, turns <- v18,
        answers <- v19, granted <- v20, runs <- v21
BareTurn == INSTANCE AgentTurnProofs WITH
        Kinds <- {Build, Outside, Remove}, ApprovalMode <- "auto",
        Enforced <- FALSE, AsksUser <- TRUE, StoredRules <- {r1},
        Rules <- {r1}, KeepTurns <- 1, MaxSteps <- 2, MaxCalls <- 2,
        MaxTurns <- 2, MaxIds <- 2, Capacity <- 1, pc <- v1,
        cancelled <- v2, messages <- v3, step <- v4, outcome <- v5,
        text <- v6, calls <- v7, index <- v8, verdict <- v9, retry <- v10,
        prompt <- v11, answer <- v12, rules <- v13, events <- v14,
        listening <- v15, feed <- v16, nextId <- v17, turns <- v18,
        answers <- v19, granted <- v20, runs <- v21
SavedChats == INSTANCE SavedTurns WITH
        Kinds <- {BadCall}, ApprovalMode <- "auto", Enforced <- TRUE,
        AsksUser <- TRUE, StoredRules <- {}, Rules <- {r1}, KeepTurns <- 1,
        MaxSteps <- 2, MaxCalls <- 1, MaxTurns <- 3, MaxIds <- 2,
        Capacity <- 1, pc <- v1, cancelled <- v2, messages <- v3,
        step <- v4, outcome <- v5, text <- v6, calls <- v7, index <- v8,
        verdict <- v9, retry <- v10, prompt <- v11, answer <- v12,
        rules <- v13, events <- v14, listening <- v15, feed <- v16,
        nextId <- v17, turns <- v18, answers <- v19, granted <- v20,
        runs <- v21, saved <- v22, writer <- v23, syncing <- v24,
        resumed <- v25
Words == INSTANCE ShellWords WITH
        MaxLength <- 5, word <- v1
Commands == INSTANCE CommandRisk WITH
        Fragments <- RiskFragments, MaxPieces <- 4, MaxDepth <- 1,
        Granted <- RiskGranted, line <- v1, pieces <- v2
PatchTool == INSTANCE Patches WITH
        Lines <- {"a", "b", "c"}, MaxSteps <- 4, MaxDrift <- 1,
        MaxContext <- 1, script <- v1, context <- v2, drift <- v3
Memory == INSTANCE ProjectMemory WITH
        Chats <- {"c", "d"}, Limit <- 5, MaxEdits <- 1, file <- v1,
        pc <- v2, note <- v3, prompt <- v4, raced <- v5, edits <- v6
ReadTools == INSTANCE Reading WITH
        MaxLength <- 4, MaxFileBytes <- 4, Sniff <- 2, LineChars <- 2,
        files <- v1
LogFiles == INSTANCE Logs WITH
        KeyChars <- 2, MaxText <- 3, MaxTokens <- 4, todo <- v1,
        event <- v2, buf <- v3, log <- v4, whole <- v5
Threads == INSTANCE SavedFeed WITH
        MaxTurns <- 2, MaxSteps <- 2, MaxCalls <- 2, MaxPieces <- 1,
        MaxParts <- 5, pc <- v1, by <- v2, cancelled <- v3, step <- v4,
        text <- v5, calls <- v6, index <- v7, saved <- v8, items <- v9,
        thinking <- v10, before <- v11, turns <- v12
Lookup == INSTANCE ChatLookup WITH
        Ids <- ChatIds, Folders <- {"f", "g"}, Titles <- ChatTitles,
        Queries <- ChatQueries, SearchLimit <- 2, MaxClock <- 1,
        rows <- v1, clock <- v2

-----------------------------------------------------------------------------
(* The places after the first n, and that they are not used.               *)
R21 == <<v22, v23, v24, v25>>
R17 == <<v18, v19, v20, v21, R21>>
R16 == <<v17, R17>>
R14 == <<v15, v16, R16>>
R13 == <<v14, R14>>
R12 == <<v13, R13>>
R8 == <<v9, v10, v11, v12, R12>>
R7 == <<v8, R8>>
R6 == <<v7, R7>>
R5 == <<v6, R6>>
R4 == <<v5, R5>>
R3 == <<v4, R4>>
R2 == <<v3, R3>>
R1 == <<v2, R2>>
Rest21 == v22 = 0 /\ v23 = 0 /\ v24 = 0 /\ v25 = 0
Rest17 == v18 = 0 /\ v19 = 0 /\ v20 = 0 /\ v21 = 0 /\ Rest21
Rest16 == v17 = 0 /\ Rest17
Rest14 == v15 = 0 /\ v16 = 0 /\ Rest16
Rest13 == v14 = 0 /\ Rest14
Rest12 == v13 = 0 /\ Rest13
Rest8 == v9 = 0 /\ v10 = 0 /\ v11 = 0 /\ v12 = 0 /\ Rest12
Rest7 == v8 = 0 /\ Rest8
Rest6 == v7 = 0 /\ Rest7
Rest5 == v6 = 0 /\ Rest6
Rest4 == v5 = 0 /\ Rest5
Rest3 == v4 = 0 /\ Rest4
Rest2 == v3 = 0 /\ Rest3
Rest1 == v2 = 0 /\ Rest2

MCInit ==
  /\ Init
  /\ \/ part = "rules" /\ v1 = 0 /\ Rest1
     \/ part = "watched" /\ WatchedTurn!Init /\ Rest21
     \/ part = "bare" /\ BareTurn!Init /\ Rest21
     \/ part = "saved" /\ SavedChats!SavedInit
     \/ part = "cli" /\ CliAsks!Init /\ Rest4
     \/ part = "stream" /\ Streams!Init /\ Rest16
     \/ part = "words" /\ Words!Init /\ Rest1
     \/ part = "risk" /\ Commands!Init /\ Rest2
     \/ part = "patch" /\ PatchTool!Init /\ Rest3
     \/ part = "files" /\ FileTools!Init /\ Rest13
     \/ part = "shell" /\ ShellTool!Init /\ Rest14
     \/ part = "http" /\ HttpCalls!Init /\ Rest17
     \/ part = "choice" /\ ModelOf!Init /\ Rest7
     \/ part = "eval" /\ Eval!Init /\ Rest8
     \/ part = "confined" /\ Confine!Init /\ Rest5
     \/ part = "memory" /\ Memory!Init /\ Rest6
     \/ part = "reading" /\ ReadTools!Init /\ Rest1
     \/ part = "logs" /\ LogFiles!Init /\ Rest5
     \/ part = "mcp" /\ McpServer!Init /\ Rest8
     \/ part = "thread" /\ Threads!Init /\ Rest12
     \/ part = "lookup" /\ Lookup!Init /\ Rest2
     \/ part = "keys" /\ KeysOf!Init /\ Rest4

Move(p, A) == part = p /\ A /\ UNCHANGED <<part, vars>>

MCNext ==
  \/ part = "rules" /\ Next /\ UNCHANGED <<part, v1, R1>>
  \/ Move("watched", WatchedTurn!Next /\ UNCHANGED R21)
  \/ Move("bare", BareTurn!Next /\ UNCHANGED R21)
  \/ Move("saved", SavedChats!SavedNext)
  \/ Move("cli", CliAsks!Next /\ UNCHANGED R4)
  \/ Move("stream", Streams!Next /\ UNCHANGED R16)
  \/ Move("words", Words!Next /\ UNCHANGED R1)
  \/ Move("risk", Commands!Next /\ UNCHANGED R2)
  \/ Move("patch", PatchTool!Next /\ UNCHANGED R3)
  \/ Move("files", FileTools!Next /\ UNCHANGED R13)
  \/ Move("shell", ShellTool!Next /\ UNCHANGED R14)
  \/ Move("http", HttpCalls!Next /\ UNCHANGED R17)
  \/ Move("choice", ModelOf!Next /\ UNCHANGED R7)
  \/ Move("eval", Eval!Next /\ UNCHANGED R8)
  \/ Move("confined", Confine!Next /\ UNCHANGED R5)
  \/ Move("memory", Memory!Next /\ UNCHANGED R6)
  \/ Move("reading", ReadTools!Next /\ UNCHANGED R1)
  \/ Move("logs", LogFiles!Next /\ UNCHANGED R5)
  \/ Move("mcp", McpServer!Next /\ UNCHANGED R8)
  \/ Move("thread", Threads!Next /\ UNCHANGED R12)
  \/ Move("lookup", Lookup!Next /\ UNCHANGED R2)
  \/ Move("keys", KeysOf!Next /\ UNCHANGED R4)

MCSpec == MCInit /\ [][MCNext]_<<part, vars, v1, R1>>

-----------------------------------------------------------------------------
(* Every request of the loop is one that Anthropic and OpenAI accept, with *)
(* each call's results after it, whatever interrupted, failed or compacted *)
(* the turns before, and after a switch of the model; and so after a chat  *)
(* was left and resumed between two syncs (run_turn, request_body, sync).  *)
Ready == v1 = "stream" => SavedChats!Accepted(v3)
HistoryAccepted ==
  /\ part = "watched" => WatchedTurn!HistoryWellFormed /\ Ready
  /\ part = "bare" => BareTurn!HistoryWellFormed /\ Ready
  /\ part = "saved" => SavedChats!ResumedAccepted

(* Each call ran with authority and was reported as what it was            *)
(* (Authorized and FeedComplete, for the machine and the front end of each *)
(* turn in auto mode).                                                     *)
CallsAccountedFor ==
  /\ part = "watched" => WatchedTurn!Authorized /\ WatchedTurn!FeedComplete
  /\ part = "bare" => BareTurn!Authorized /\ BareTurn!FeedComplete

(* The answers to the vendor CLIs' own approval requests (CliApprovals).   *)
CliAsksTheUser ==
  part = "cli" => CliAsks!EscalationsAsked /\ CliAsks!ProtectedRefused /\ CliAsks!DelegatedToServer

(* What a turn shows of a vendor's stream (StreamMappers).                 *)
SaidOnce == part = "stream" => Streams!TextOnce /\ Streams!CallsOnce /\ Streams!TokensOnce

(* A command is what rozu takes it for: the words it unquotes, the risk it *)
(* finds and the rule it offers (ShellWords, CommandRisk).                 *)
CommandsUnderstood ==
  /\ part = "words" => Words!UnquotedIsRun /\ Words!QuotedMeansItself
  /\ part = "risk" =>
       Commands!NothingHidden /\ Commands!RulesCoverTheirPrefix /\ Commands!OwnRuleCovers

(* What an edit leaves on disk: a file is the old text or the whole new    *)
(* one and no temporary file stays; and it stays in the workspace          *)
(* (FileWrites).                                                           *)
EditsAreWhole == part = "files" => FileTools!FileWhole
WritesStayInside == [][part = "files" => FileTools!StaysInside]_v3

(* What a shell command writes, and its end (Confined, ShellCall).         *)
WritesAsShown == part = "confined" => Confine!WritesAsShown
CallIsOver == part = "shell" => ShellTool!CallIsOver

(* A request to a provider, or to the MCP server, is answered once (Http,  *)
(* McpServe); and who a request goes to, with whose key (ModelChoice,      *)
(* ApiKeys).                                                               *)
AnswerOnce ==
  /\ part = "http" => HttpCalls!AnswerOnce
  /\ part = "mcp" => McpServer!AnsweredAsAsked
ModelAsChosen ==
  /\ part = "choice" => ModelOf!ModelAsChosen
  /\ part = "keys" => KeysOf!StatusIsTrue
SavedChatOpens == part = "choice" => ModelOf!SavedChatOpens

(* What was written is what is told or made of it: a patch is the change   *)
(* it was written as (Patches); the model is told what files and pinned    *)
(* notes say, and the user who looks for a saved chat or opens it again    *)
(* what it was (Reading, ProjectMemory, SavedFeed, ChatLookup); and a log  *)
(* is not told keys (Logs).                                                *)
TextsAreTrue ==
  /\ part = "patch" => PatchTool!PatchIsTheChange
  /\ part = "reading" => ReadTools!AnswersAreTrue
  /\ part = "memory" => Memory!PinnedIsTold
  /\ part = "thread" => Threads!OpensAsShown
  /\ part = "lookup" => Lookup!FoundAgain
NoKeyLogged == part = "logs" => LogFiles!NoKeyLogged

(* An evaluation's rows (EvalRuns).                                        *)
RunsOnce == part = "eval" => Eval!RunsOnce

-----------------------------------------------------------------------------
(* Theorems: the properties of the parts that ToolParts is about, for any  *)
(* number of children, items, keys and faults, any paths and any rules.    *)

(* What stands for no rule, no call, no prompt and no answer is none.      *)
ASSUME NoneAssumption ==
  /\ NoRule # r1 /\ BadCall \notin WatchedTurn!Kind
  /\ NoPrompt \notin [id : Nat, retry : BOOLEAN] /\ NoAnswer \notin WatchedTurn!Decision

(* A step moves one part, by a step of it, or none.                        *)
LEMMA PartsApart ==
  ASSUME [MCNext]_<<part, vars, v1, R1>>
  PROVE  /\ part' = part
         /\ part = "watched" => [WatchedTurn!Next]_(WatchedTurn!vars)
         /\ part = "bare" => [BareTurn!Next]_(BareTurn!vars)
         /\ part = "cli" => [CliAsks!Next]_(CliAsks!vars)
         /\ part = "stream" => [Streams!Next]_(Streams!vars)
         /\ part = "shell" => [ShellTool!Next]_(ShellTool!vars)
         /\ part = "eval" => [Eval!Next]_(Eval!vars)
         /\ part = "confined" => [Confine!Next]_(Confine!vars)
         /\ part = "choice" => [ModelOf!Next]_(ModelOf!vars)
         /\ part = "keys" => [KeysOf!Next]_(KeysOf!vars)
         /\ part = "mcp" => (McpServer!Next \/ UNCHANGED McpServer!vars)
         /\ part = "http" => (HttpCalls!Next \/ UNCHANGED HttpCalls!vars)
         /\ part = "files" => (FileTools!Next \/ UNCHANGED FileTools!vars)
<1>1. CASE MCNext
  BY <1>1 DEF MCNext, Move
<1>2. CASE UNCHANGED <<part, vars, v1, R1>>
  <2>1. part' = part /\ UNCHANGED <<v1, v2, v3, v4, v5, v6, v7, v8>>
        /\ UNCHANGED <<v9, v10, v11, v12, v13, v14, v15, v16, v17, v18, v19, v20, v21>>
    BY <1>2 DEF R1, R2, R3, R4, R5, R6, R7, R8, R12, R13, R14, R16, R17
  <2> QED
    BY <2>1 DEF WatchedTurn!vars, WatchedTurn!loop, WatchedTurn!response, WatchedTurn!call,
         WatchedTurn!gate, WatchedTurn!receiver, BareTurn!vars, BareTurn!loop, BareTurn!response,
         BareTurn!call, BareTurn!gate, BareTurn!receiver, CliAsks!vars, Streams!vars, Streams!vendor, Streams!heard, Streams!tokens,
         ShellTool!vars, ShellTool!call, ShellTool!output, Eval!vars, Confine!vars,
         ModelOf!vars, KeysOf!vars, McpServer!vars,
         HttpCalls!vars, HttpCalls!sending, HttpCalls!server, HttpCalls!decoder,
         FileTools!vars, FileTools!world, FileTools!ghosts
<1> QED
  BY <1>1, <1>2

LEMMA PartsStart ==
  ASSUME MCInit
  PROVE  /\ part = "watched" => WatchedTurn!Init
         /\ part = "bare" => BareTurn!Init
         /\ part = "cli" => CliAsks!Init
         /\ part = "stream" => Streams!Init
         /\ part = "shell" => ShellTool!Init
         /\ part = "eval" => Eval!Init
         /\ part = "confined" => Confine!Init
         /\ part = "choice" => ModelOf!Init
         /\ part = "keys" => KeysOf!Init
         /\ part = "mcp" => McpServer!Init
         /\ part = "http" => HttpCalls!Init
         /\ part = "files" => FileTools!Init
BY DEF MCInit

(* The turn on each machine, for which AgentTurnProofs has the lemmas.     *)
LEMMA WatchedFits ==
  /\ {Outside, Fetch, BadCall} \subseteq WatchedTurn!Kind \cup {BadCall} /\ BadCall \notin WatchedTurn!Kind
  /\ {} \subseteq {r1} /\ NoRule \notin {r1}
  /\ "auto" \in WatchedTurn!Mode /\ TRUE \in BOOLEAN /\ TRUE \in BOOLEAN
  /\ 2 \in Nat \ {0} /\ 1 \in Nat /\ 2 \in Nat
  /\ NoPrompt \notin [id : Nat, retry : BOOLEAN] /\ NoAnswer \notin WatchedTurn!Decision
BY NoneAssumption DEF NoneAssumption, Outside, Fetch, ShellKind, WatchedTurn!Kind, WatchedTurn!Risk, WatchedTurn!Mode,
   WatchedTurn!Decision, WatchedTurn!Kind, WatchedTurn!Risk, WatchedTurn!Decision

WatchedInv == WatchedTurn!Authority /\ WatchedTurn!Fed /\ WatchedTurn!Reported

LEMMA WatchedKeeps ==
  /\ WatchedTurn!Init => WatchedInv
  /\ WatchedInv /\ [WatchedTurn!Next]_(WatchedTurn!vars) => WatchedInv'
  /\ WatchedInv => WatchedTurn!Authorized /\ WatchedTurn!FeedComplete
<1>1. WatchedTurn!Init => WatchedInv
  BY WatchedFits, WatchedTurn!InitAuthority, WatchedTurn!InitFeed DEF WatchedInv
<1>2. ASSUME WatchedInv, [WatchedTurn!Next]_(WatchedTurn!vars) PROVE WatchedInv'
  <2>1. WatchedTurn!Authority'
    BY <1>2, WatchedFits, WatchedTurn!AuthorityStep DEF WatchedInv
  <2>2. WatchedTurn!Fed'
    BY <1>2, WatchedFits, WatchedTurn!FedStep DEF WatchedInv
  <2>3. WatchedTurn!Reported'
    BY <1>2, WatchedFits, WatchedTurn!ReportedStep DEF WatchedInv
  <2> QED
    BY <2>1, <2>2, <2>3 DEF WatchedInv
<1>3. ASSUME WatchedInv PROVE WatchedTurn!Authorized /\ WatchedTurn!FeedComplete
  <2>1. WatchedTurn!TypeOK /\ WatchedTurn!Authorized
    BY <1>3 DEF WatchedInv, WatchedTurn!Authority
  <2>2. WatchedTurn!FeedSettled
    BY <1>3, <2>1, WatchedFits, WatchedTurn!FedSettled DEF WatchedInv
  <2>3. WatchedTurn!ApprovalsReported
    BY <1>3, WatchedFits, WatchedTurn!AllReported DEF WatchedInv
  <2> QED
    BY <2>1, <2>2, <2>3 DEF WatchedTurn!FeedComplete
<1> QED
  BY <1>1, <1>2, <1>3

LEMMA BareFits ==
  /\ {Build, Outside, Remove} \subseteq BareTurn!Kind \cup {BadCall} /\ BadCall \notin BareTurn!Kind
  /\ {r1} \subseteq {r1} /\ NoRule \notin {r1}
  /\ "auto" \in BareTurn!Mode /\ FALSE \in BOOLEAN /\ TRUE \in BOOLEAN
  /\ 2 \in Nat \ {0} /\ 1 \in Nat /\ 2 \in Nat
  /\ NoPrompt \notin [id : Nat, retry : BOOLEAN] /\ NoAnswer \notin BareTurn!Decision
BY NoneAssumption DEF NoneAssumption, Build, Outside, Remove, ShellKind, BareTurn!Kind, BareTurn!Risk, BareTurn!Mode,
   BareTurn!Decision, WatchedTurn!Kind, WatchedTurn!Risk, WatchedTurn!Decision

BareInv == BareTurn!Authority /\ BareTurn!Fed /\ BareTurn!Reported

LEMMA BareKeeps ==
  /\ BareTurn!Init => BareInv
  /\ BareInv /\ [BareTurn!Next]_(BareTurn!vars) => BareInv'
  /\ BareInv => BareTurn!Authorized /\ BareTurn!FeedComplete
<1>1. BareTurn!Init => BareInv
  BY BareFits, BareTurn!InitAuthority, BareTurn!InitFeed DEF BareInv
<1>2. ASSUME BareInv, [BareTurn!Next]_(BareTurn!vars) PROVE BareInv'
  <2>1. BareTurn!Authority'
    BY <1>2, BareFits, BareTurn!AuthorityStep DEF BareInv
  <2>2. BareTurn!Fed'
    BY <1>2, BareFits, BareTurn!FedStep DEF BareInv
  <2>3. BareTurn!Reported'
    BY <1>2, BareFits, BareTurn!ReportedStep DEF BareInv
  <2> QED
    BY <2>1, <2>2, <2>3 DEF BareInv
<1>3. ASSUME BareInv PROVE BareTurn!Authorized /\ BareTurn!FeedComplete
  <2>1. BareTurn!TypeOK /\ BareTurn!Authorized
    BY <1>3 DEF BareInv, BareTurn!Authority
  <2>2. BareTurn!FeedSettled
    BY <1>3, <2>1, BareFits, BareTurn!FedSettled DEF BareInv
  <2>3. BareTurn!ApprovalsReported
    BY <1>3, BareFits, BareTurn!AllReported DEF BareInv
  <2> QED
    BY <2>1, <2>2, <2>3 DEF BareTurn!FeedComplete
<1> QED
  BY <1>1, <1>2, <1>3

(* On a machine with an OS sandbox and on one without, no call runs        *)
(* without authority and a front end that listens is told of every call    *)
(* and approval (CallsAccountedFor).                                       *)
THEOREM CallsAccountedForAlways == MCSpec => []CallsAccountedFor
<1> DEFINE Inv == (part = "watched" => WatchedInv) /\ (part = "bare" => BareInv)
<1>1. MCInit => Inv
  BY PartsStart, WatchedKeeps, BareKeeps
<1>2. Inv /\ [MCNext]_<<part, vars, v1, R1>> => Inv'
  BY PartsApart, WatchedKeeps, BareKeeps
<1>3. Inv => CallsAccountedFor
  BY WatchedKeeps, BareKeeps DEF CallsAccountedFor
<1> QED
  BY <1>1, <1>2, <1>3, PTL DEF MCSpec

(* Whatever a vendor's CLI asks for, in whatever mode and with whatever    *)
(* rules: what is more than a sandboxed call of its class is allowed only  *)
(* by the user, the protected directory is never written, and what is left *)
(* to rozu's own server is one of its tools (CliAsksTheUser).              *)
THEOREM CliAsksTheUserAlways == MCSpec => []CliAsksTheUser
<1> DEFINE Inv == part = "cli" => CliAsks!AnswersFit
<1>1. MCInit => Inv
  BY PartsStart, CliInit
<1>2. Inv /\ [MCNext]_<<part, vars, v1, R1>> => Inv'
  BY PartsApart, CliStep
<1>3. Inv => CliAsksTheUser
  BY CliAsksUser DEF CliAsksTheUser
<1> QED
  BY <1>1, <1>2, <1>3, PTL DEF MCSpec

(* Of a CLI's stream, with any items, text in any pieces and any number of *)
(* turns, each text, call and token is told once (SaidOnce).               *)
THEOREM SaidOnceAlways == MCSpec => []SaidOnce
<1> DEFINE Inv == part = "stream" => Streams!StreamInv
<1>1. MCInit => Inv
  BY PartsStart, StreamInit
<1>2. Inv /\ [MCNext]_<<part, vars, v1, R1>> => Inv'
  BY PartsApart, StreamStep
<1>3. Inv => SaidOnce
  BY StreamSaidOnce DEF SaidOnce
<1> QED
  BY <1>1, <1>2, <1>3, PTL DEF MCSpec

(* A shell call that ended, on its own, at its timeout or cancelled, left  *)
(* no process of its group and lost no output unsaid, whatever the         *)
(* children, their output and the timing (CallIsOver).                     *)
THEOREM CallIsOverAlways == MCSpec => []CallIsOver
<1> DEFINE Inv == part = "shell" => ShellTool!CallInv
<1>1. MCInit => Inv
  BY PartsStart, ShellInit
<1>2. Inv /\ [MCNext]_<<part, vars, v1, R1>> => Inv'
  BY PartsApart, ShellStep
<1>3. Inv => CallIsOver
  BY ShellIsOver DEF CallIsOver
<1> QED
  BY <1>1, <1>2, <1>3, PTL DEF MCSpec

(* An approved command writes only where its request showed, whatever it   *)
(* names and wherever a link leads by the time it writes (WritesAsShown).  *)
THEOREM WritesAsShownAlways == MCSpec => []WritesAsShown
<1> DEFINE Inv == part = "confined" => Confine!GrantedAsShown
<1>1. MCInit => Inv
  BY PartsStart, ConfinedInit
<1>2. Inv /\ [MCNext]_<<part, vars, v1, R1>> => Inv'
  BY PartsApart, ConfinedStep
<1>3. Inv => WritesAsShown
  BY ConfinedWrites DEF WritesAsShown
<1> QED
  BY <1>1, <1>2, <1>3, PTL DEF MCSpec

(* However often an evaluation is stopped, killed or resumed, no key has   *)
(* two finished rows, and one that went through its keys misses no more    *)
(* than two of them for each death (RunsOnce).                             *)
THEOREM RunsOnceAlways == MCSpec => []RunsOnce
<1> DEFINE Inv == part = "eval" => Eval!EvalInv
<1>1. MCInit => Inv
  BY PartsStart, EvalInit
<1>2. Inv /\ [MCNext]_<<part, vars, v1, R1>> => Inv'
  BY PartsApart, EvalStep
<1>3. Inv => RunsOnce
  BY EvalRunsOnce DEF RunsOnce
<1> QED
  BY <1>1, <1>2, <1>3, PTL DEF MCSpec

(* Whatever models, efforts and keys the user names, and however builds    *)
(* fail: a chat is answered by the model and with the effort selected for  *)
(* it, reopens with what it was left with, starts as long as a CLI is      *)
(* installed, and what `rozu auth` says of a key is so (ModelAsChosen).    *)
THEOREM ModelAsChosenAlways == MCSpec => []ModelAsChosen
<1> DEFINE Inv == (part = "choice" => ModelOf!ChoiceKept) /\ (part = "keys" => KeysOf!KeysKept)
<1>1. MCInit => Inv
  BY PartsStart, ChoiceInit, KeysInit
<1>2. Inv /\ [MCNext]_<<part, vars, v1, R1>> => Inv'
  BY PartsApart, ChoiceStep, KeysStep
<1>3. Inv => ModelAsChosen
  BY ChoiceAnswers, KeysAnswer DEF ModelAsChosen
<1> QED
  BY <1>1, <1>2, <1>3, PTL DEF MCSpec

(* Whatever a provider sends, however its calls interleave and whenever it *)
(* fails: each call is given once with its arguments in order, and after   *)
(* no more requests and no other waits than the policy allows; and each    *)
(* request to the MCP server is answered once (AnswerOnce).                *)
THEOREM AnswerOnceAlways == MCSpec => []AnswerOnce
<1> DEFINE Inv == (part = "mcp" => McpServer!Served) /\ (part = "http" => HttpCalls!HttpKept)
<1>1. MCInit => Inv
  BY PartsStart, McpInit, HttpInit
<1>2. Inv /\ [MCNext]_<<part, vars, v1, R1>> => Inv'
  BY PartsApart, McpStep, HttpStep
<1>3. Inv => AnswerOnce
  BY McpGives, HttpGives DEF AnswerOnce
<1> QED
  BY <1>1, <1>2, <1>3, PTL DEF MCSpec

(* Whatever others move, link or edit and wherever rozu dies: f is what it *)
(* was or the whole new text, an error has not changed it and no temporary *)
(* file stays behind a call that returned (EditsAreWhole).                 *)
THEOREM EditsAreWholeAlways == MCSpec => []EditsAreWhole
<1> DEFINE Inv == part = "files" => FileTools!StillWhole
<1>1. MCInit => Inv
  BY PartsStart, WholeStarts
<1>2. Inv /\ [MCNext]_<<part, vars, v1, R1>> => Inv'
  BY PartsApart, WholeStep
<1>3. Inv => EditsAreWhole
  BY DEF EditsAreWhole, FileTools!StillWhole
<1> QED
  BY <1>1, <1>2, <1>3, PTL DEF MCSpec

(* However often others move and link while the tool opens directory after *)
(* directory: it writes only in one that was in the workspace during the   *)
(* call, or was put beneath one; and under .rozu only if others moved an   *)
(* opened directory, or anything after the last check (WritesStayInside).  *)
THEOREM WritesStayInsideAlways == MCSpec => WritesStayInside
<1> DEFINE Inv == part = "files" => FileTools!StillInside
<1>1. MCInit => Inv
  BY PartsStart, FilesStart
<1>2. Inv /\ [MCNext]_<<part, vars, v1, R1>> => Inv'
  BY PartsApart, FilesStep
<1>3. Inv /\ [MCNext]_<<part, vars, v1, R1>> => [part = "files" => FileTools!StaysInside]_v3
  BY PartsApart, FilesStayInside
<1> QED
  BY <1>1, <1>2, <1>3, PTL DEF MCSpec, WritesStayInside
=============================================================================
