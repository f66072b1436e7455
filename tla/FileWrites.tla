----------------------------- MODULE FileWrites -----------------------------
(***************************************************************************)
(* write_file and apply_patch on a file f somewhere in the workspace       *)
(* (rozu-tools write.rs, workspace.rs, workspace_file.rs on unix), while   *)
(* others move directories, point links elsewhere and edit the file.       *)
(*                                                                         *)
(* A directory is where it is (place) or, with the file system's root,     *)
(* outside; links[<<d, n>>] leads to a path of the workspace, or to Outside.  *)
(* Each system call is one step; the canonicalize calls of one resolution  *)
(* are one.  A path is taken literally: case-insensitive file systems,     *)
(* ".." and limits on sizes are left out.  What a patch makes of a text is *)
(* in Patches.                                                             *)
(***************************************************************************)
EXTENDS Naturals, Sequences, FiniteSets, SequencesExt

CONSTANT MaxMoves \* bound: what others do

VARIABLES
  place,   \* of each directory: <<parent, name>>, or Nowhere
  links,   \* the links: from <<directory, name>> to a path, or Outside
  file,    \* f in each directory: "old", "new", "part" or "special", no regular file
  temps,   \* of the tool's temporary file: {} or {<<directory, "part" or "whole">>}
  tool,    \* "write" or "patch"
  path,    \* of f's directory: the argument, and then resolved
  phase, opened,  \* the call; WorkspaceFile::directories
  result,  \* "none", "ok", "error"
  moves,
  within,  \* a ghost: directories that were in the workspace since the call, or put beneath one
  lifted,  \* a ghost: opened directories that others moved
  pointed  \* a ghost: others moved something since the last check

world == <<place, links, file>>
ghosts == <<within, lifted, pointed>>
vars == <<world, temps, tool, path, phase, opened, result, moves, ghosts>>

Dirs == {"root", "a", "b", "settings", "made", "ext"}
Names == {"d", "e", ".rozu"}
Nowhere == <<>>
Outside == <<"outside">>
Slots == {"root", "a", "settings"} \X Names
Paths == {<<>>, <<"d">>, <<"d", "e">>, <<".rozu">>}

-----------------------------------------------------------------------------
(* The file system.                                                        *)
DirAt(d, n) == {x \in Dirs : place[x] = <<d, n>>}
IsLink(d, n) == <<d, n>> \in DOMAIN links
Free(d, n) == DirAt(d, n) = {} /\ ~IsLink(d, n)

(* Where a path without links leads: {} or {its directory}.                *)
Plain(p) == FoldLeft(LAMBDA at, n : UNION {DirAt(d, n) : d \in at}, {"root"}, p)

Target(l) == IF l = Outside THEN {"ext"} ELSE Plain(l)
Enter(d, n) == IF IsLink(d, n) THEN Target(links[<<d, n>>]) ELSE DirAt(d, n)
(* canonicalize.                                                           *)
Follow(p) == FoldLeft(LAMBDA at, n : UNION {Enter(d, n) : d \in at}, {"root"}, p)

Parent(x) == IF place[x] = Nowhere THEN {} ELSE {place[x][1]}
Up(S) == S \cup UNION {Parent(y) : y \in S}
(* The directories above x, and x (there are six).                         *)
Above(x) == Up(Up(Up(Up(Up({x})))))
Inside(x) == "root" \in Above(x)

(* S has all that is in a directory of S.                                  *)
Closed(S) == \A y \in Dirs : Parent(y) \cap S # {} => y \in S
(* The workspace, T and all beneath them after the step.                   *)
Reached(T) ==
  {x \in Dirs : \A S \in SUBSET Dirs : T \cup {"root"} \subseteq S /\ Closed(S)' => x \in S}

PathTo(x) == CHOOSE p \in {<<>>} \cup UNION {[1 .. k -> Names] : k \in 1 .. 3} : Plain(p) = {x}

(* What .rozu of the workspace is: {} or {a directory}.                    *)
Settings == Follow(<<".rozu">>)

-----------------------------------------------------------------------------
Init ==
  /\ place = [x \in Dirs |-> CASE x = "a" -> <<"root", "d">> [] x = "b" -> <<"a", "e">>
                               [] x = "settings" -> <<"root", ".rozu">> [] OTHER -> Nowhere]
  /\ links = <<>> /\ file = [x \in Dirs |-> "old"]
  /\ temps = {} /\ tool \in {"write", "patch"} /\ path \in Paths \ {<<>>}
  /\ phase = "asked" /\ opened = <<>> /\ result = "none"
  /\ moves = 0 /\ within = {} /\ lifted = {} /\ pointed = FALSE

-----------------------------------------------------------------------------
(* Others: the user's editor, a build, another tool.                       *)
Noted ==
  /\ moves < MaxMoves /\ moves' = moves + 1
  /\ within' = Reached(within)
  /\ pointed' = TRUE
  /\ UNCHANGED <<temps, tool, path, phase, opened, result>>

MoveDir ==
  \E x \in Dirs \ {"root", "ext"} : \E slot \in Slots \cup {Nowhere} :
    /\ place[x] # Nowhere /\ place[x] # slot
    /\ slot # Nowhere => Free(slot[1], slot[2]) /\ x \notin Above(slot[1])
    /\ place' = [place EXCEPT ![x] = slot]
    /\ lifted' = lifted \cup ({x} \cap ToSet(opened))
    /\ UNCHANGED <<links, file>> /\ Noted

Point ==
  \E slot \in {<<"root", "d">>, <<"root", ".rozu">>} :
    \E to \in (Paths \ {<<>>}) \cup {Outside} :
      /\ DirAt(slot[1], slot[2]) = {}
      /\ links' = [s \in DOMAIN links \cup {slot} |-> IF s = slot THEN to ELSE links[s]]
      /\ UNCHANGED <<place, file, lifted>> /\ Noted

Edit ==
  \E x \in {"a", "b"} :
    /\ file' = [file EXCEPT ![x] = "special"]
    /\ UNCHANGED <<place, links, lifted>> /\ Noted

-----------------------------------------------------------------------------
(* The call.                                                               *)
Ends(r) == phase' = "over" /\ result' = r
Fails == Ends("error") /\ UNCHANGED opened

(* resolve_for_write: the deepest directory that is there, and the rest.   *)
Existing == CHOOSE k \in 0 .. Len(path) :
  /\ Follow(SubSeq(path, 1, k)) # {}
  /\ \A j \in k + 1 .. Len(path) : Follow(SubSeq(path, 1, j)) = {}

(* write_target, and is_protected by name and by place.                    *)
Resolve ==
  /\ phase = "asked"
  /\ LET there == CHOOSE x \in Dirs : x \in Follow(SubSeq(path, 1, Existing))
         rest == SubSeq(path, Existing + 1, Len(path))
         protected == \/ path[1] = ".rozu" \/ Above(there) \cap Settings # {}
                      \/ there = "root" /\ rest # <<>> /\ rest[1] = ".rozu"
     IN IF ~Inside(there) \/ protected \/ (rest = <<>> /\ file[there] = "special")
        THEN Fails /\ UNCHANGED path
        ELSE /\ path' = PathTo(there) \o rest /\ phase' = "opening" /\ opened' = <<"root">>
             /\ UNCHANGED result
  /\ UNCHANGED <<world, temps, tool, moves, lifted, pointed>>
  /\ within' = Reached({})

(* check_directories: no directory on the way is what .rozu is by now.     *)
Check == Settings \cap ToSet(opened) = {}

(* Variant: a link is followed.                                            *)
OpenFollowing(d, n) == Enter(d, n)
(* openat with O_NOFOLLOW: a link is no directory.                         *)
OpenAt(d, n) == DirAt(d, n)

(* The next directory; it is made when there is nothing of its name.       *)
OpenNext ==
  /\ phase = "opening" /\ Len(opened) <= Len(path)
  /\ LET d == Last(opened)
         n == path[Len(opened)]
     IN \/ ~Check /\ Fails /\ UNCHANGED place
        \/ Check /\ IsLink(d, n) /\ OpenAt(d, n) = {} /\ Fails /\ UNCHANGED place
        \/ /\ Check
           /\ \E x \in OpenAt(d, n) : opened' = Append(opened, x)
           /\ UNCHANGED <<phase, result, place>>
        \/ /\ Check /\ Free(d, n)
           /\ IF place["made"] = Nowhere /\ "made" \notin within
              THEN /\ place' = [place EXCEPT !["made"] = <<d, n>>]
                   /\ opened' = Append(opened, "made")
                   /\ UNCHANGED <<phase, result>>
              ELSE Fails /\ UNCHANGED place
  /\ within' = Reached(within)
  /\ UNCHANGED <<links, file, temps, tool, path, moves, lifted, pointed>>

Parent0 == Last(opened)

(* The last check of open; then a patch reads the file.                    *)
OpenDone ==
  /\ phase = "opening" /\ Len(opened) = Len(path) + 1
  /\ IF Check THEN phase' = (IF tool = "patch" THEN "read" ELSE "stat") /\ UNCHANGED <<opened, result>>
     ELSE Fails
  /\ UNCHANGED <<world, temps, tool, path, moves, ghosts>>

(* read.  The patch may not apply, or change nothing.                      *)
Read ==
  /\ phase = "read"
  /\ \/ Fails
     \/ /\ Check /\ file[Parent0] # "special" /\ UNCHANGED opened
        /\ Ends("ok") \/ (phase' = "stat" /\ UNCHANGED result)
  /\ UNCHANGED <<world, temps, tool, path, moves, ghosts>>

(* replace: replacement_metadata, Temporary::new, write_all, check, rename.*)
Stat ==
  /\ phase = "stat"
  /\ IF Check /\ file[Parent0] # "special" THEN phase' = "temp" /\ UNCHANGED <<opened, result>>
     ELSE Fails
  /\ UNCHANGED <<world, temps, tool, path, moves, ghosts>>

MakeTemp ==
  /\ phase = "temp"
  /\ \/ temps' = {<<Parent0, "part">>} /\ phase' = "fill" /\ UNCHANGED <<opened, result>>
     \/ Fails /\ UNCHANGED temps
  /\ UNCHANGED <<world, tool, path, moves, ghosts>>

(* Variant: the temporary file of a failed write stays.                    *)
DroppedNot == temps' = temps
(* Temporary's Drop.                                                       *)
Dropped == temps' = {}

Fill ==
  /\ phase = "fill"
  /\ \/ temps' = {<<Parent0, "whole">>} /\ phase' = "rename" /\ UNCHANGED <<opened, result>>
     \/ Fails /\ Dropped
  /\ UNCHANGED <<world, tool, path, moves, ghosts>>

(* Variant: what was checked before the write is not checked again.        *)
LastCheckNot ==
  /\ phase = "rename" /\ phase' = "renaming"
  /\ pointed' = FALSE
  /\ UNCHANGED <<world, temps, tool, path, opened, result, moves, within, lifted>>
LastCheck ==
  /\ phase = "rename"
  /\ IF Check THEN phase' = "renaming" /\ UNCHANGED <<temps, opened, result>>
     ELSE Fails /\ Dropped
  /\ pointed' = FALSE
  /\ UNCHANGED <<world, tool, path, moves, within, lifted>>

(* renameat, within the one directory.                                     *)
Rename ==
  /\ phase = "renaming"
  /\ \/ /\ file' = [file EXCEPT ![Parent0] = IF temps = {<<Parent0, "whole">>} THEN "new" ELSE "part"]
        /\ temps' = {} /\ Ends("ok") /\ UNCHANGED opened
     \/ Fails /\ Dropped /\ UNCHANGED file
  /\ UNCHANGED <<place, links, tool, path, moves, ghosts>>

(* rozu dies in the middle.                                                *)
Crash ==
  /\ phase \notin {"asked", "over"} /\ phase' = "over" /\ result' = "none"
  /\ UNCHANGED <<world, temps, tool, path, opened, moves, ghosts>>

Next ==
  \/ MoveDir \/ Point \/ Edit
  \/ Resolve \/ OpenNext \/ OpenDone \/ Read
  \/ Stat \/ MakeTemp \/ Fill \/ LastCheck \/ Rename \/ Crash

Spec == Init /\ [][Next]_vars

-----------------------------------------------------------------------------
(* A step of the tool changes f only in a directory that was in the        *)
(* workspace while the call ran, or that others put beneath one that was,  *)
(* whatever links led there; and under what .rozu is by then only if       *)
(* others moved an opened directory during the call, or something after    *)
(* the last check.                                                         *)
StaysInside ==
  \A x \in Dirs : file'[x] = "new" /\ file[x] # "new" =>
    /\ x \in within
    /\ Above(x) \cap Settings # {} => lifted # {} \/ pointed

(* f is never half written: it has what it had or all of the new text, and *)
(* a call that reports an error has not changed it; the temporary file     *)
(* goes with the call, unless rozu died.                                   *)
FileWhole ==
  /\ \A x \in Dirs : file[x] # "part"
  /\ result = "error" => \A x \in Dirs : file[x] # "new"
  /\ result # "none" => temps = {}

-----------------------------------------------------------------------------
(* Why: the inductive invariants of StaysInside and FileWhole.             *)

FileTypes ==
  /\ place = [x \in Dirs |-> place[x]] /\ place["root"] = Nowhere
  /\ file = [x \in Dirs |-> file[x]]
  /\ opened \in Seq(Dirs) /\ within \subseteq Dirs
  /\ phase = "asked" => opened = <<>>
  /\ phase \notin {"asked", "over"} => opened # <<>>

(* What is opened was in the workspace, and so was all that it may open.   *)
OpenedWithin ==
  /\ \A i \in 1 .. Len(opened) : opened[i] \in within
  /\ phase # "asked" => "root" \in within /\ Closed(within)

(* Unless others moved one, each opened directory is in the one before it. *)
Descends ==
  lifted = {} =>
    \A i \in 1 .. Len(opened) :
      IF i = 1 THEN opened[i] = "root"
      ELSE place[opened[i]] # Nowhere /\ place[opened[i]][1] = opened[i - 1]

(* Unless others moved something since, what the last check said holds.    *)
Checked == phase = "renaming" /\ ~pointed => Settings \cap ToSet(opened) = {}

StillInside == FileTypes /\ OpenedWithin /\ Descends /\ Checked

(* f is new only once the call has returned, and what will be renamed is   *)
(* whole.                                                                  *)
NotYet ==
  /\ file = [x \in Dirs |-> file[x]]
  /\ phase \in {"asked", "opening", "read", "stat", "temp", "fill", "rename", "renaming", "over"}
  /\ phase # "over" => result = "none" /\ \A x \in Dirs : file[x] # "new"
  /\ phase \in {"asked", "opening", "read", "stat", "temp"} => temps = {}
  /\ phase \in {"rename", "renaming"} => temps = {<<Parent0, "whole">>}

StillWhole == NotYet /\ FileWhole
=============================================================================
