----------------------------- MODULE AppWindow -----------------------------
(***************************************************************************)
(* The desktop app's window (rozu-app app.rs, app/search.rs, settings.rs,*)
(* and backend.rs search_chats, saved_chats and forget): its pages, the  *)
(* draft and the model of each, the projects, the threads that stand for *)
(* saved chats, searching them, and deleting them while their workers and*)
(* searches are busy.  AppChat models what happens inside a thread.      *)
(*                                                                       *)
(* The window's handlers run one at a time; beside them run the folder   *)
(* dialog, a search, forget's tasks and the workers of closed chats.  Left*)
(* out: row limits, titles (a query matches some sessions), efforts and  *)
(* the approval mode, which follow the model, and failing reads.         *)
(***************************************************************************)
EXTENDS Naturals, Sequences, SequencesExt

CONSTANTS
  Projects, NoProject,
  Sessions, NoSession, \* chats that are or can be saved
  Models,
  MaxThreads,          \* bound on the threads ever made
  MaxInputs            \* bound on texts typed, models chosen and searches made

VARIABLES
  projects,  \* Settings::projects, in the order added
  project,   \* where New Chat starts
  default,   \* Settings::model
  threads,   \* the open threads: [id, root, session, live, choice]
  made,      \* how many were ever made (next_id)
  page,      \* [at, id]
  choice,    \* the window's model
  editor,    \* the composer and Drafts: [text, active, saved]; "" stands for no draft
  typed,     \* observer: what the user left at each place
  dialog,    \* the folder dialog: {}, or {the message that waits for it, or ""}
  query,     \* the search box
  search,    \* SearchState: [requested, rows, loading, generation]
  lookup,    \* the search's task: {}, or {[stage, query, roots, generation, rows]}
  forgotten, \* SearchState::forgotten
  forgets,   \* forget's tasks: [session, own] (own: it waits for the chat's worker)
  workers,   \* the sessions of closed chats that still save their turn
  folder,    \* of each session that was ever onDisk, its project
  onDisk,    \* the saved sessions
  inputs

place == <<page, choice, editor, typed>>
searching == <<query, search, lookup>>
store == <<folder, onDisk, workers, forgets>>
settings == <<projects, project, default>>
vars == <<place, searching, threads, made, forgotten, store, settings, dialog, inputs>>

Texts == {"a", "b"}
Queries == {"every", "one"}
Matching(q) == IF q = "every" THEN Sessions ELSE {CHOOSE s \in Sessions : TRUE}

Page(at) == [at |-> at, id |-> 0]
Home == Page("home")
ThreadPage(id) == [at |-> "thread", id |-> id]
ProjectKey(p) == [project |-> p, id |-> 0]
ThreadKey(id) == [project |-> NoProject, id |-> id]
NoKey == ThreadKey(MaxThreads + 1)
Keys == {ProjectKey(p) : p \in Projects \cup {NoProject}} \cup {ThreadKey(i) : i \in 1..MaxThreads}

Roots == ToSet(projects)
LastOf(seq) == IF seq = <<>> THEN NoProject ELSE Last(seq)
Locked(ts) == workers \cup {t.session : t \in {u \in ts : u.live}}
NewThread(id, root, session, m) ==
  [id |-> id, root |-> root, session |-> session, live |-> FALSE, choice |-> m]

(* saved_threads of one folder; the chats were saved with model m.       *)
SavedThreads(root, first, m) ==
  LET rows == SetToSeq({s \in onDisk : folder[s] = root}) IN
  {NewThread(first + i, root, rows[i], m) : i \in DOMAIN rows}

Init ==
  /\ folder \in [Sessions -> Projects \cup {NoProject}]
  /\ onDisk = {s \in Sessions : folder[s] # NoProject}
  /\ projects \in {<<p>> : p \in Projects} \cup {<<>>}
  /\ project = LastOf(projects)
  /\ default = CHOOSE m \in Models : TRUE
  /\ choice = default
  /\ threads = IF projects = <<>> THEN {} ELSE SavedThreads(project, 0, default)
  /\ made = Cardinality(threads)
  /\ page = Home
  /\ editor = [text |-> "", active |-> ProjectKey(project), saved |-> [k \in Keys |-> ""]]
  /\ typed = editor.saved
  /\ dialog = {} /\ query = "every" /\ lookup = {}
  /\ search = [requested |-> <<>>, rows |-> {}, loading |-> FALSE, generation |-> 0]
  /\ forgotten = {} /\ forgets = {} /\ workers = {}
  /\ inputs = 0

-----------------------------------------------------------------------------
(* Pages and drafts.                                                     *)

KeyOf(to, root) ==
  CASE to.at = "home" -> ProjectKey(root)
    [] to.at = "thread" -> ThreadKey(to.id)
    [] OTHER -> NoKey

(* Variant: the draft left behind is not saved when the new place has one.*)
SwitchLoses(ed, key) ==
  IF key \in {NoKey, ed.active} THEN ed
  ELSE [text |-> ed.saved[key], active |-> key,
        saved |-> IF ed.saved[key] = "" THEN [ed.saved EXCEPT ![ed.active] = ed.text]
                  ELSE [ed.saved EXCEPT ![key] = ""]]

(* Drafts::switch and the composer's text after it.                      *)
Switch(ed, key) ==
  IF key \in {NoKey, ed.active} THEN ed
  ELSE [text |-> ed.saved[key], active |-> key,
        saved |-> [ed.saved EXCEPT ![ed.active] = ed.text, ![key] = ""]]

(* Drafts::discard_submitted.                                            *)
Discard(ed, key, text) ==
  IF ed.saved[key] = text THEN [ed EXCEPT !.saved[key] = ""] ELSE ed

(* Variant: going home keeps the model of the thread left behind.        *)
OpenedKeeps(to) ==
  /\ page' = to
  /\ choice' = IF to.at = "thread" THEN (CHOOSE t \in threads' : t.id = to.id).choice ELSE choice

(* open, for its page and its model.  A setup or search page keeps both. *)
Opened(to) ==
  /\ page' = to
  /\ choice' = CASE to.at = "thread" -> (CHOOSE t \in threads' : t.id = to.id).choice
                 [] to.at \in {"home", "customize"} -> default'
                 [] OTHER -> choice

Visit(to) ==
  /\ page # to
  /\ UNCHANGED <<typed, searching, threads, made, forgotten, store, settings, dialog, inputs>>
  /\ Opened(to)
  /\ editor' = Switch(editor, KeyOf(to, project))

HasComposer == page.at \in {"home", "thread"}
Input == inputs < MaxInputs /\ inputs' = inputs + 1

Type(text) ==
  /\ HasComposer /\ editor.text # text /\ Input
  /\ editor' = [editor EXCEPT !.text = text]
  /\ typed' = [typed EXCEPT ![KeyOf(page, project)] = text]
  /\ UNCHANGED <<page, choice, searching, threads, made, forgotten, store, settings, dialog>>

(* choose and save_choice: the window, the thread and the saved default. *)
Choose(m) ==
  /\ page.at # "search" /\ m # choice /\ Input
  /\ choice' = m /\ default' = m
  /\ threads' = {IF page = ThreadPage(t.id) THEN [t EXCEPT !.choice = m] ELSE t : t \in threads}
  /\ UNCHANGED <<page, editor, typed, searching, made, forgotten, store, projects, project, dialog>>

(* finish_setup saves what the setup page shows: the model of the thread *)
(* it was opened from, unless another was picked.                        *)
FinishSetup ==
  /\ page.at = "setup"
  /\ default' = choice
  /\ UNCHANGED <<typed, searching, threads, made, forgotten, store, projects, project, dialog, inputs>>
  /\ Opened(Home)
  /\ editor' = Switch(editor, ProjectKey(project))

-----------------------------------------------------------------------------
(* Sending, and the folder dialog.                                       *)

(* start: thread t of ts gets its worker, or fails (it must when the saved*)
(* chat is gone or another worker has it); a new chat may not be saved.  *)
Starts(ts, t) ==
  \/ threads' = ts /\ UNCHANGED <<folder, onDisk>>
  \/ /\ ~t.live /\ t.session \in onDisk \ Locked(ts)
     /\ threads' = (ts \ {t}) \cup {[t EXCEPT !.live = TRUE]}
     /\ UNCHANGED <<folder, onDisk>>
  \/ \E s \in Sessions :
       /\ ~t.live /\ t.session = NoSession /\ folder[s] = NoProject
       /\ threads' = (ts \ {t}) \cup {[t EXCEPT !.live = TRUE, !.session = s]}
       /\ folder' = [folder EXCEPT ![s] = t.root] /\ onDisk' \in {onDisk, onDisk \cup {s}}

(* The rest of a send from home: a thread of its own in project root, with*)
(* model m.  The composer stands at ed.                                  *)
NewChat(ts, id, root, m, ed) ==
  /\ id <= MaxThreads /\ made' = id
  /\ LET t == NewThread(id, root, NoSession, m) IN Starts(ts \cup {t}, t)
  /\ Opened(ThreadPage(id))
  /\ editor' = Switch(ed, ThreadKey(id))

Send ==
  /\ editor.text # ""
  /\ UNCHANGED <<searching, forgotten, workers, forgets, settings, dialog, inputs>>
  /\ \/ /\ page = Home /\ project # NoProject
        /\ NewChat(threads, made + 1, project, choice, [editor EXCEPT !.text = ""])
     \/ \E t \in threads :
          /\ page = ThreadPage(t.id)
          /\ Starts(threads, t)
          /\ Opened(page)
          /\ editor' = [editor EXCEPT !.text = ""]
          /\ UNCHANGED made
  /\ typed' = [typed EXCEPT ![KeyOf(page, project)] = ""]

(* Without a project the message goes back into the composer and waits for*)
(* the folder dialog, which can be opened without one, too.              *)
AskFolder(message) ==
  /\ dialog = {}
  /\ message # "" => page = Home /\ project = NoProject /\ editor.text = message
  /\ dialog' = {message}
  /\ UNCHANGED <<place, searching, threads, made, forgotten, store, settings, inputs>>

DialogCancelled ==
  /\ dialog # {} /\ dialog' = {}
  /\ UNCHANGED <<place, searching, threads, made, forgotten, store, settings, inputs>>

(* pick_project's answer: the folder becomes a project with its saved    *)
(* chats, and the message that waited for it is sent there.              *)
FolderPicked(root, message) ==
  LET new == root \notin Roots
      saved == IF new THEN SavedThreads(root, made, default) ELSE {}
      home == page.at # "setup" \/ message # ""
      ed == IF home THEN Switch(editor, ProjectKey(root)) ELSE editor
  IN
  /\ dialog = {message} /\ dialog' = {}
  /\ made + Cardinality(saved) <= MaxThreads
  /\ projects' = IF new THEN Append(projects, root) ELSE projects
  /\ project' = root
  /\ UNCHANGED <<searching, forgotten, workers, forgets, default, inputs>>
  /\ IF message # "" THEN
       /\ NewChat(threads \cup saved, made + Cardinality(saved) + 1, root, default,
                  Discard(ed, ProjectKey(NoProject), message))
       /\ typed' = [k \in Keys |-> IF k = ProjectKey(NoProject) /\ typed[k] = message THEN ""
                                   ELSE typed[k]]
     ELSE
       /\ threads' = threads \cup saved /\ made' = made + Cardinality(saved)
       /\ UNCHANGED <<folder, onDisk, typed>>
       /\ IF home THEN Opened(Home) ELSE UNCHANGED <<page, choice>>
       /\ editor' = ed

-----------------------------------------------------------------------------
(* Deleting chats, and removing projects.                                *)

(* The workers of closed chats unwind on their own.                      *)
Closing(ts) == {t.session : t \in {u \in ts : u.live}}

(* delete with forget: the thread goes; a task waits for its worker and  *)
(* then deletes its history.                                             *)
Delete(t) ==
  /\ UNCHANGED <<typed, query, lookup, folder, onDisk, settings, dialog, inputs, made>>
  /\ threads' = threads \ {t}
  /\ workers' = workers \cup Closing({t})
  /\ IF t.session = NoSession THEN UNCHANGED <<forgotten, forgets, search>>
     ELSE /\ forgotten' = forgotten \cup {t.session}
          /\ forgets' = forgets \cup {[session |-> t.session, own |-> t.live]}
          /\ search' = [search EXCEPT !.rows = @ \ {t.session}]
  /\ IF page = ThreadPage(t.id)
     THEN Opened(Home) /\ editor' = Switch(editor, ProjectKey(project))
     ELSE UNCHANGED <<page, choice, editor>>

WorkerCloses(s) ==
  /\ s \in workers
  /\ workers' = workers \ {s}
  /\ UNCHANGED <<place, searching, threads, made, forgotten, folder, onDisk, forgets, settings,
                 dialog, inputs>>

(* SessionStore::delete refuses a session that a writer has locked.      *)
Forget(f) ==
  /\ f \in forgets
  /\ f.own => f.session \notin workers
  /\ forgets' = forgets \ {f}
  /\ onDisk' = IF f.session \in Locked(threads) THEN onDisk ELSE onDisk \ {f.session}
  /\ UNCHANGED <<place, searching, threads, made, forgotten, folder, workers, settings,
                 dialog, inputs>>

-----------------------------------------------------------------------------
(* Searching.                                                            *)
(* search_chats: the new request replaces the task of the old one.       *)
Search(q, roots, requested) ==
  IF requested = <<q, roots>> THEN UNCHANGED <<search, lookup>>
  ELSE LET generation == search.generation + 1 IN
       /\ search' = [requested |-> <<q, roots>>, rows |-> {}, loading |-> roots # <<>>,
                     generation |-> generation]
       /\ lookup' = IF roots = <<>> THEN {}
                  ELSE {[stage |-> "delay", query |-> q, roots |-> roots,
                         generation |-> generation, rows |-> {}]}

(* open_search asks again, even for what it asked before.                *)
OpenSearch ==
  /\ page.at # "search" /\ Input
  /\ UNCHANGED <<typed, query, threads, made, forgotten, store, settings, dialog>>
  /\ Opened(Page("search"))
  /\ editor' = editor
  /\ Search(query, projects, <<>>)

TypeQuery(q) ==
  /\ page.at = "search" /\ q # query /\ Input
  /\ query' = q
  /\ Search(q, projects, search.requested)
  /\ UNCHANGED <<place, threads, made, forgotten, store, settings, dialog>>

(* The blocking task reads the index of the folders it was asked for.    *)
SearchReads ==
  \E k \in lookup :
    /\ k.stage = "delay"
    /\ lookup' = {[k EXCEPT !.stage = "read",
                   !.rows = {s \in onDisk \cap Matching(k.query) : folder[s] \in ToSet(k.roots)}]}
    /\ UNCHANGED <<place, query, search, threads, made, forgotten, store, settings, dialog, inputs>>

(* Variant: what was forgotten while the search ran is not filtered.     *)
RowsUnfiltered(rows) == rows

(* SearchState::set_rows.                                                *)
Rows(rows) == rows \ forgotten

SearchAnswers ==
  \E k \in lookup :
    /\ k.stage = "read"
    /\ IF k.generation # search.generation THEN lookup' = {} /\ UNCHANGED search
       ELSE IF k.roots # projects THEN
         IF page.at = "search" THEN Search(query, projects, <<>>)
         ELSE lookup' = {} /\ search' = [search EXCEPT !.requested = <<>>]
       ELSE lookup' = {} /\ search' = [search EXCEPT !.loading = FALSE, !.rows = Rows(k.rows)]
    /\ UNCHANGED <<place, query, threads, made, forgotten, store, settings, dialog, inputs>>

(* Variant: a row opens a thread of its own, whatever is open.           *)
OpenRowAgain(s) ==
  /\ page.at = "search" /\ s \in search.rows \ forgotten /\ folder[s] \in Roots
  /\ UNCHANGED <<typed, searching, forgotten, store, settings, dialog, inputs>>
  /\ made < MaxThreads /\ made' = made + 1
  /\ threads' = threads \cup {NewThread(made + 1, folder[s], s, default)}
  /\ Opened(ThreadPage(made + 1))
  /\ editor' = Switch(editor, ThreadKey(made + 1))

(* open_search_result: a row opens the thread that already has its chat. *)
OpenRow(s) ==
  /\ page.at = "search" /\ s \in search.rows \ forgotten /\ folder[s] \in Roots
  /\ UNCHANGED <<typed, searching, forgotten, store, settings, dialog, inputs>>
  /\ \/ \E t \in threads :
          /\ t.session = s
          /\ UNCHANGED <<threads, made>>
          /\ Opened(ThreadPage(t.id))
          /\ editor' = Switch(editor, ThreadKey(t.id))
     \/ /\ \A t \in threads : t.session # s
        /\ made < MaxThreads /\ made' = made + 1
        /\ threads' = threads \cup {NewThread(made + 1, folder[s], s, default)}
        /\ Opened(ThreadPage(made + 1))
        /\ editor' = Switch(editor, ThreadKey(made + 1))

(* remove_project: its chats close but stay saved.  No project is in the *)
(* list twice.                                                           *)
RemoveProject(root) ==
  LET gone == {t \in threads : t.root = root}
      left == RemoveAt(projects, CHOOSE i \in DOMAIN projects : projects[i] = root)
      closed == \E t \in gone : page = ThreadPage(t.id)
      ed == IF closed THEN Switch(editor, ProjectKey(project)) ELSE editor
      home == closed \/ (page = Home /\ project = root)
  IN
  /\ root \in Roots
  /\ threads' = threads \ gone
  /\ workers' = workers \cup Closing(gone)
  /\ projects' = left
  /\ project' = IF project = root THEN LastOf(left) ELSE project
  /\ UNCHANGED <<typed, query, made, forgotten, folder, onDisk, forgets, default, dialog, inputs>>
  /\ IF home THEN Opened(Home) ELSE UNCHANGED <<page, choice>>
  /\ editor' = IF home THEN Switch(ed, ProjectKey(project')) ELSE ed
  /\ IF page.at = "search" THEN Search(query, left, search.requested)
     ELSE UNCHANGED <<search, lookup>>

Next ==
  \/ \E at \in {"home", "setup", "customize"} : Visit(Page(at))
  \/ \E t \in threads : Visit(ThreadPage(t.id)) \/ Delete(t)
  \/ \E text \in Texts : Type(text)
  \/ \E m \in Models : Choose(m)
  \/ Send \/ FinishSetup
  \/ \E message \in Texts \cup {""} : AskFolder(message)
  \/ DialogCancelled
  \/ \E root \in Projects, message \in dialog : FolderPicked(root, message)
  \/ \E root \in Projects : RemoveProject(root)
  \/ OpenSearch
  \/ \E q \in Queries : TypeQuery(q)
  \/ \E s \in Sessions : OpenRow(s) \/ WorkerCloses(s)
  \/ SearchReads \/ SearchAnswers
  \/ \E f \in forgets : Forget(f)

Spec == Init /\ [][Next]_vars

-----------------------------------------------------------------------------
(* What the user typed stays where it was typed, whatever pages, chats and*)
(* projects are opened, closed, removed or waited for, until it is sent; *)
(* and the composer shows the draft of the page it is on (app.rs Drafts, *)
(* open, send, pick_project, remove_project).                            *)
DraftsKept ==
  /\ HasComposer => editor.active = KeyOf(page, project)
  /\ \A k \in Keys : typed[k] = IF k = editor.active THEN editor.text ELSE editor.saved[k]

(* A message goes to the model its page shows: a thread to its own, a new*)
(* chat to the saved default (app.rs open, choose, save_choice).         *)
ModelOfPage ==
  /\ page = Home => choice = default
  /\ \A t \in threads : page = ThreadPage(t.id) => choice = t.choice

(* No chat is open twice, whether it came from the start, from a folder  *)
(* added again or from a search (app/search.rs open_search_result).      *)
SessionOpenOnce ==
  \A t, u \in threads : t.session = u.session /\ t.session # NoSession => t = u

(* A finished search lists every saved chat of the projects that matches,*)
(* except those being deleted, and nothing that was deleted, although both*)
(* can change while it reads (app/search.rs generation, set_rows).       *)
SearchTruthful ==
  page.at = "search" /\ ~search.loading =>
    LET listed == {s \in search.rows : folder[s] \in Roots} IN
    /\ listed \cap forgotten = {}
    /\ (onDisk \cap Matching(query)) \ forgotten
         \subseteq listed \cup {s \in Sessions : folder[s] \notin Roots}
=============================================================================
