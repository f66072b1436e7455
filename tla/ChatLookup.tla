------------------------------ MODULE ChatLookup ------------------------------
(***************************************************************************)
(* How a saved chat is found again: `rozu sessions`, `--resume` and the    *)
(* app's list and search, all from the rows of the index (rozu-store       *)
(* session.rs resolve and list_matching, session/index.rs; rozu-app        *)
(* backend.rs search_chats).                                               *)
(*                                                                         *)
(* SessionStore models how a row and its file are kept together; here a    *)
(* row is written as a whole.  Ids, titles and queries are sequences of    *)
(* characters, of which "%" is LIKE's wildcard; the case of letters, "_",  *)
(* the cut of long titles and compaction, which leaves a later message to  *)
(* make the title of, are left out.  Ids have one length, as               *)
(* new_session_id makes them, and compare by their place in Ids.           *)
(***************************************************************************)
EXTENDS Naturals, Sequences, FiniteSets, SequencesExt

CONSTANTS
  Ids,          \* the ids, in order
  Folders,
  Titles,       \* first messages
  Queries,
  SearchLimit,  \* SEARCH_LIMIT
  MaxClock

VARIABLES rows, clock
vars == <<rows, clock>>

Anywhere == "anywhere" \* no folder
NotFound == <<>>
Ambiguous == <<"ambiguous">>

Init == rows = <<>> /\ clock = 0

(* create: a chat nobody has spoken to has no title and no messages.       *)
Create(id, folder) ==
  /\ id \notin DOMAIN rows
  /\ rows' = [i \in DOMAIN rows \cup {id} |->
                IF i = id THEN [folder |-> folder, title |-> <<>>, updated |-> clock, messages |-> 0]
                ELSE rows[i]]
  /\ UNCHANGED clock

(* upsert after a turn: the title is the first user message.               *)
Upsert(id, text) ==
  /\ id \in DOMAIN rows
  /\ rows' = [rows EXCEPT ![id] =
       [@ EXCEPT !.updated = clock, !.messages = 1,
                 !.title = IF rows[id].messages = 0 THEN text ELSE @]]
  /\ UNCHANGED clock

Delete(id) ==
  /\ id \in DOMAIN rows
  /\ rows' = [i \in DOMAIN rows \ {id} |-> rows[i]]
  /\ UNCHANGED clock

(* Rows know whole seconds.                                                *)
Tick == clock < MaxClock /\ clock' = clock + 1 /\ UNCHANGED rows

Next ==
  \/ \E i \in DOMAIN Ids :
       \/ \E folder \in Folders : Create(Ids[i], folder)
       \/ \E text \in Titles : Upsert(Ids[i], text)
       \/ Delete(Ids[i])
  \/ Tick

-----------------------------------------------------------------------------
Place(id) == CHOOSE i \in DOMAIN Ids : Ids[i] = id

(* ORDER BY updated DESC, id DESC LIMIT.                                   *)
Newer(a, b) ==
  \/ rows[a].updated > rows[b].updated
  \/ rows[a].updated = rows[b].updated /\ Place(a) > Place(b)
Newest(ids) == SetToSortSeq(ids, Newer)
First(seq, limit) == IF Len(seq) <= limit THEN seq ELSE SubSeq(seq, 1, limit)

Listed(folder) ==
  {id \in DOMAIN rows : rows[id].messages > 0 /\ folder \in {Anywhere, rows[id].folder}}

Holds(text, query) ==
  \E i \in 0..(Len(text) - Len(query)) : SubSeq(text, i + 1, i + Len(query)) = query

(* SQLite's LIKE (external).                                               *)
Like(text, pattern) ==
  LET match[t \in 0..Len(text), p \in 0..Len(pattern)] ==
        CASE p = 0 -> t = 0
          [] p > 0 /\ pattern[p] = "%" -> \E s \in 0..t : match[s, p - 1]
          [] OTHER -> t > 0 /\ p > 0 /\ text[t] = pattern[p] /\ match[t - 1, p - 1]
  IN match[Len(text), Len(pattern)]

Matches(id, query, literal) ==
  \/ query = <<>>
  \/ literal /\ (Holds(rows[id].title, query) \/ IsPrefix(query, id))
  \/ ~literal /\ \/ Like(rows[id].title, <<"%">> \o query \o <<"%">>)
                 \/ Like(id, query \o <<"%">>)

(* list, for the command, and search_titles, for the app.                  *)
ListMatching(folder, query, limit, literal) ==
  First(Newest({id \in Listed(folder) : Matches(id, query, literal)}), limit)

(* Variant: also a chat nobody has spoken to.                              *)
LastOfAll(folder) == {id \in DOMAIN rows : rows[id].folder = folder}
LastOf(folder) == {id \in DOMAIN rows : rows[id].folder = folder /\ rows[id].messages > 0}

(* resolve: the chat --resume names; a prefix may be of any folder's.      *)
ResolveLast(folder) ==
  IF LastOf(folder) = {} THEN NotFound ELSE Newest(LastOf(folder))[1]

Resolve(prefix) ==
  LET ids == {id \in DOMAIN rows : IsPrefix(prefix, id)} IN
  CASE ids = {} -> NotFound
    [] Cardinality(ids) = 1 -> CHOOSE id \in ids : TRUE
    [] Cardinality(ids) > 1 -> IF prefix \in ids THEN prefix ELSE Ambiguous

(* Variant: the rows found so far are cut before they are sorted.          *)
MergedCutFirst(found, more) ==
  Newest(ToSet(First(found \o more, SearchLimit)))

Merged(found, more) == First(Newest(ToSet(found \o more)), SearchLimit)

(* search_chats: folder by folder, each of them once.                      *)
SearchChats(folders, query) ==
  FoldLeft(LAMBDA found, folder :
             Merged(found, ListMatching(folder, query, SearchLimit, TRUE)),
           <<>>, folders)

-----------------------------------------------------------------------------
Everything == Len(Ids)

(* "last" is the chat at the top of its folder's list, and every listed    *)
(* chat is the one its id resumes; a prefix never picks one of several.    *)
(* The app's search finds the newest matches over all its folders, what it *)
(* finds the command's list finds too, and in the same order.              *)
FoundAgain ==
  /\ \A folder \in Folders :
       LET top == ListMatching(folder, <<>>, 1, FALSE) IN
       ResolveLast(folder) = (IF top = <<>> THEN NotFound ELSE top[1])
  /\ \A id \in ToSet(ListMatching(Anywhere, <<>>, Everything, FALSE)) : Resolve(id) = id
  /\ \A query \in Queries :
       LET found == ListMatching(Anywhere, query, Everything, TRUE) IN
       /\ Resolve(query) \in DOMAIN rows \ {query} => ToSet(found) \cap
            {id \in DOMAIN rows : IsPrefix(query, id)} \subseteq {Resolve(query)}
       /\ SearchChats(SetToSeq(Folders), query) = First(found, SearchLimit)
       /\ LET listed == ListMatching(Anywhere, query, Everything, FALSE) IN
          SelectSeq(listed, LAMBDA id : id \in ToSet(found)) = found
=============================================================================
