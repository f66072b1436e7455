------------------------------- MODULE MCApp -------------------------------
(***************************************************************************)
(* The desktop app for TLC: a conversation (AppChat), the activity pill    *)
(* (Pill) and the window around them (AppWindow).  They meet in the        *)
(* tracker's operators and in the threads, one conversation each; a        *)
(* behaviour moves one part and leaves the others at their start.          *)
(***************************************************************************)
EXTENDS AppChat

CONSTANTS Calls, MinDwell, MaxTime, Projects, NoProject, Sessions, NoSession, Models,
          MaxThreads, MaxInputs

(* Calls are told apart by number, and so are those that rozu mcp-serve    *)
(* numbers itself.                                                         *)
ASSUME PillAssumption == Calls \subseteq Nat \ {0} /\ MinDwell \in Nat

(* None is not a project or a chat, and there is room for a thread of each *)
(* chat that is saved at the start.                                        *)
ASSUME WindowAssumption ==
  /\ NoProject \notin Projects /\ NoSession \notin Sessions
  /\ IsFiniteSet(Sessions) /\ MaxThreads \in Nat /\ Cardinality(Sessions) <= MaxThreads

VARIABLES
  part,                                   \* the part that moves
  asker, phase, orb, pill, now, up,       \* Pill
  projects, project, default, threads, made, page, choice, editor, typed, dialog, query,
  search, lookup, forgotten, forgets, workers, folder, onDisk, inputs    \* AppWindow

pillVars == <<asker, phase, orb, pill, now, up>>
windowVars == <<projects, project, default, threads, made, page, choice, editor, typed, dialog,
                query, search, lookup, forgotten, forgets, workers, folder, onDisk, inputs>>

P == INSTANCE Pill
W == INSTANCE AppWindow

MCInit ==
  /\ Init /\ P!Init /\ W!Init
  /\ part \in {"chat", "pill", "window"}
  /\ part # "pill" => asker = "loop"
  /\ part # "window" => folder = [s \in Sessions |-> NoProject] /\ projects = <<>>

MCNext ==
  \/ part = "chat" /\ Next /\ UNCHANGED <<part, pillVars, windowVars>>
  \/ part = "pill" /\ P!Next /\ UNCHANGED <<part, vars, windowVars>>
  \/ part = "window" /\ W!Next /\ UNCHANGED <<part, vars, pillVars>>

MCSpec == MCInit /\ [][MCNext]_<<part, vars, pillVars, windowVars>> /\ Fairness

(* A turn that is stopped stops, and a chat that is deleted goes.          *)
RequestsEnd == StopStops /\ ForgetEnds

(* What the pill shows of the calls (Pill).                                *)
PillShowsCalls == P!PromptShown /\ P!PillCatchesUp
PillNoFlicker == P!NoFlicker

(* What the window keeps and shows of projects, threads and drafts, and of *)
(* a search (AppWindow).                                                   *)
WindowKeepsChats == W!DraftsKept /\ W!ModelOfPage /\ W!SessionOpenOnce /\ W!SearchTruthful
=============================================================================
