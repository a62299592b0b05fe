---------------------------- MODULE SettledFolders ----------------------------
(***************************************************************************)
(* Folders with two history variables: whether a folder or a file has      *)
(* changed its place since the deletions now under way began, and whether  *)
(* anything else than deletions with all files came between them.  The     *)
(* code makes no step for either.                                          *)
(***************************************************************************)
EXTENDS Folders

VARIABLES moved, disturbed

Moves ==
    \/ \E f \in Live : parent'[f] \in Place \ {parent[f]}
    \/ \E x \in Listed : loc'[x] \in Place \ {loc[x]}

(* Cascade-files deletions whose calls succeed, dialogs, and new folders.  *)
Calls(c) ==
    \/ CollectFiles(c) \/ CollectChildren(c) \/ CollectReturn(c)
    \/ EraseDone(c) \/ \E x \in File : Erase(c, x)
    \/ \E f \in Folder : CollectDescend(c, f) \/ TreeDescend(c, f)
    \/ TreeChildren(c) \/ TreeDescended(c) \/ TreeFiles(c) \/ TreeRow(c) \/ Drop(c)

Calm ==
    \/ \E c \in Client :
        \/ CloseDialog(c) \/ \E f \in Folder : OpenDialog(c, f)
        \/ \E target \in Place : DeleteFolder(c, "cascade-files", target)
        \/ work[c].action = "cascade-files" /\ Calls(c)
    \/ \E f \in Folder, p \in Place : CreateFolder(f, p)

Even == Quiet /\ object = Listed

Watch ==
    /\ moved' = (~Quiet' /\ (moved \/ Moves))
    /\ disturbed' = (~Even' /\ (disturbed \/ ~Calm))

histories == <<moved, disturbed>>

SettledSpec == Init /\ moved = FALSE /\ disturbed = FALSE /\ [][Next /\ Watch]_<<vars, histories>>

(* Unless something was moved meanwhile, no deletion destroys a file       *)
(* outside the subtree it was asked to delete with its files, whatever     *)
(* else is deleted, created and uploaded at the same time and whatever     *)
(* fails.                                                                  *)
OnlyWithin == [][~moved => DestroysOnlyWithin]_vars

(* Deletions that nothing interferes with but each other, and folders that *)
(* appear meanwhile, lose no object and leave none behind.                 *)
CascadeExactAlone == ~disturbed => NoOrphan /\ RowHasObject

-----------------------------------------------------------------------------
(* Why: the inductive invariant.                                           *)

(* Foreign keys: what holds a folder or a file has a row.                  *)
HoldersLive ==
    /\ \A f \in Folder : parent[f] \in Folder => parent[f] \in Live
    /\ \A x \in File : loc[x] \in Folder => loc[x] \in Live

(* What a walk for folder d may hold: folders and files that are gone or   *)
(* still below d.                                                          *)
Reached(d) == {g \in Folder : parent[g] = Gone \/ Under(g, d)}
Found(d) == {x \in File : loc[x] = Gone \/ InSubtree(x, d)}
Within(d) == [folder : Reached(d), step : {"files", "children", "each", "row"},
              todo : SUBSET Reached(d), names : SUBSET Found(d)]

WalksWithin(w) == w.action = "cascade-files" =>
    w.names \subseteq Found(w.folder) /\ w.stack \in Seq(Within(w.folder))

WithinReach == ~moved => \A c \in Client : WalksWithin(work[c])

(* Only a cascade-files deletion collects, erases, and reaches the files.  *)
NoFiles == [folder : Folder, step : {"children", "each", "row"},
            todo : SUBSET Folder, names : SUBSET File]

ActionFits(w) ==
    /\ w.pc \in {"idle", "dialog"} => w.action = "none"
    /\ w.pc \in {"collect", "erase"} => w.action = "cascade-files"
    /\ w.pc = "tree" /\ w.action # "cascade-files" => w.stack \in Seq(NoFiles)

SettledInv == HoldersLive /\ WithinReach /\ \A c \in Client : ActionFits(work[c])

-----------------------------------------------------------------------------
(* Why deletions are exact.  Sub(g) is what is to go with folder g; what a *)
(* call has left of it is what it has not yet looked at itself.            *)
Sub(g) == {x \in Listed : InSubtree(x, g)}
SubsOf(folders) == {x \in Listed : \E h \in folders : x \in Sub(h)}

CollectLeft(frame) ==
    CASE frame.step = "files" -> Sub(frame.folder)
      [] frame.step = "children" -> Sub(frame.folder) \ FilesIn(frame.folder)
      [] OTHER -> SubsOf(frame.todo)

TreeLeft(frame) ==
    CASE frame.step = "children" -> Sub(frame.folder)
      [] frame.step = "each" -> SubsOf(frame.todo) \union FilesIn(frame.folder)
      [] frame.step = "files" -> FilesIn(frame.folder)
      [] OTHER -> {}

(* The files a call has handed to the call above it on the stack.          *)
Handed(s, i) == IF i = 1 THEN {} ELSE Sub(s[i - 1].folder)

Inside(d) == {g \in Folder : Sub(g) \subseteq Sub(d)}
Meant(d) == {x \in File : x \in Listed => x \in Sub(d)}
Inner(d) == [folder : Inside(d), step : {"files", "children", "each", "row"},
             todo : SUBSET Inside(d), names : SUBSET Meant(d)]

Sound(w) ==
    /\ w.names \subseteq Meant(w.folder)
    /\ w.stack \in Seq(Inner(w.folder))
    /\ w.pc \in {"collect", "tree"} => w.stack[Len(w.stack)].folder = w.folder

Covers(w) ==
    /\ w.pc = "collect" => \A i \in 1..Len(w.stack) :
           Sub(w.stack[i].folder) \intersect object
               \subseteq w.stack[i].names \union CollectLeft(w.stack[i]) \union Handed(w.stack, i)
    /\ w.pc = "erase" => Sub(w.folder) \intersect object \subseteq w.names
    /\ w.pc = "tree" => \A i \in 1..Len(w.stack) :
           Sub(w.stack[i].folder) \subseteq TreeLeft(w.stack[i]) \union Handed(w.stack, i)
    /\ w.pc = "tree" => Sub(w.folder) \intersect object = {}
    /\ w.pc = "drop" => Sub(w.folder) = {}

Doomed(x) == \E c \in Client : work[c].pc \in {"erase", "tree"} /\ x \in Sub(work[c].folder)

Careful(w) == w.pc \notin {"idle", "dialog"} => w.action = "cascade-files" /\ Sound(w) /\ Covers(w)

Exact ==
    /\ object \subseteq Listed
    /\ \A x \in Listed \ object : Doomed(x)
    /\ \A c \in Client : Careful(work[c])

ExactInv == ~disturbed => Exact
=============================================================================
