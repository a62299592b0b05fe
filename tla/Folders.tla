------------------------------- MODULE Folders -------------------------------
(***************************************************************************)
(* The folder tree of one user: table "folders" with its parent_id, the    *)
(* files' folder_id, and the dashboard whose dialogs offer the folders a   *)
(* folder can be moved to or emptied into.  The server does not look at    *)
(* the tree when it changes a parent, and deletes a folder in as many      *)
(* statements and datasource calls as the subtree has folders and files,   *)
(* none of them in a transaction.                                          *)
(***************************************************************************)
EXTENDS Naturals, Sequences, SequencesExt

CONSTANTS
    Folder, File,
    Client,         \* dashboard tabs: each waits for the answer of its request
    Root, Gone, Unborn,
    DeleteActions,  \* values of childrenAction that clients send
    Others,         \* what happens besides the clients' own requests
    Faults

Actions == {"none", "root", "folder", "cascade", "cascade-files"}

ASSUME FoldersAssumption ==
    /\ DeleteActions \subseteq Actions
    /\ Others \subseteq {"create", "upload", "move", "patch"}
    /\ Faults \subseteq {"db", "ds"}
    /\ Root \notin Folder /\ Gone \notin Folder /\ Unborn \notin Folder
    /\ Root # Gone /\ Root # Unborn /\ Gone # Unborn

VARIABLES
    parent,     \* folders.parent_id; Gone or Unborn without a row
    loc,        \* files.folder_id; Gone or Unborn without a row
    object,     \* files whose bytes are in the datasource
    work        \* what each client's dialog or request is doing

vars == <<parent, loc, object, work>>

Place == Folder \union {Root}
Live == {f \in Folder : parent[f] \in Place}
Listed == {f \in File : loc[f] \in Place}
Children(f) == {g \in Folder : parent[g] = f}
FilesIn(f) == {x \in File : loc[x] = f}

(* A set of folders that no parent leads out of, except to the root.       *)
ClosedUp(U) == \A u \in U : parent[u] \in Folder => parent[u] \in U

(* g is f or a descendant of f.                                            *)
Under(g, f) == \A U \in SUBSET Folder : g \in U /\ ClosedUp(U) => f \in U

Frame == [folder : Folder, step : {"files", "children", "each", "row"},
          todo : SUBSET Folder, names : SUBSET File]

Pcs == {"idle", "dialog", "children", "files", "collect", "erase", "tree", "drop"}

Work == [pc : Pcs, folder : Place, action : Actions, target : Place,
         options : SUBSET Folder, stack : Seq(Frame), names : SUBSET File]

TypeOK ==
    /\ parent \in [Folder -> Place \union {Gone, Unborn}]
    /\ loc \in [File -> Place \union {Gone, Unborn}]
    /\ object \subseteq File
    /\ work \in [Client -> Work]

Idle == [pc |-> "idle", folder |-> Root, action |-> "none", target |-> Root,
         options |-> {}, stack |-> <<>>, names |-> {}]

Acyclic == \A S \in SUBSET Folder : S # {} => \E s \in S : parent[s] \notin S

Init ==
    /\ parent \in [Folder -> Place \union {Unborn}]
    /\ Acyclic
    /\ \A f \in Folder : parent[f] # Unborn => parent[f] = Root \/ parent[f] \in Live
    /\ loc \in [File -> Live \union {Root, Unborn}]
    /\ object = Listed
    /\ work = [c \in Client |-> Idle]

At(c, pc) == work[c].pc = pc
Goto(c, pc) == work' = [work EXCEPT ![c].pc = pc]

Finish(c) == work' = [work EXCEPT ![c] = Idle]

(* A row of "folders" goes; ON DELETE SET NULL sends what it held to root. *)
DeleteRow(f) ==
    /\ parent' = [g \in Folder |-> IF g = f THEN Gone ELSE IF parent[g] = f THEN Root ELSE parent[g]]
    /\ loc' = [x \in File |-> IF loc[x] = f THEN Root ELSE loc[x]]

-----------------------------------------------------------------------------
(* The dialogs.                                                            *)

(* Seeded bug: the dialog offers the folder's descendants too. *)
OpenDialogAll(c, f) ==
    /\ At(c, "idle")
    /\ f \in Live
    /\ work' = [work EXCEPT ![c].pc = "dialog", ![c].folder = f, ![c].options = Live \ {f}]
    /\ UNCHANGED <<parent, loc, object>>

(* A client lists the folders and offers all that are not below this one.  *)
OpenDialog(c, f) ==
    /\ At(c, "idle")
    /\ f \in Live
    /\ work' = [work EXCEPT ![c].pc = "dialog", ![c].folder = f,
                            ![c].options = {g \in Live : ~Under(g, f)}]
    /\ UNCHANGED <<parent, loc, object>>

(* PATCH with a parentId: the UPDATE finds no row, violates the foreign    *)
(* key, or sets the parent; the tree is not consulted.                     *)
PatchFolder(c, p) ==
    /\ "patch" \in Others
    /\ At(c, "dialog")
    /\ p \in work[c].options \union {Root}
    /\ \/ /\ work[c].folder \in Live
          /\ p \in Live \union {Root}
          /\ parent' = [parent EXCEPT ![work[c].folder] = p]
       \/ /\ work[c].folder \notin Live \/ p \notin Live \union {Root} \/ "db" \in Faults
          /\ UNCHANGED parent
    /\ Finish(c)
    /\ UNCHANGED <<loc, object>>

FirstPc(action) ==
    CASE action = "none" -> "drop"
      [] action \in {"root", "folder"} -> "children"
      [] action = "cascade" -> "tree"
      [] action = "cascade-files" -> "collect"

Enter(f, step) == [folder |-> f, step |-> step, todo |-> {}, names |-> {}]

FirstStack(action, f) ==
    CASE action = "cascade" -> <<Enter(f, "children")>>
      [] action = "cascade-files" -> <<Enter(f, "files")>>
      [] OTHER -> <<>>

DeleteFolder(c, action, target) ==
    /\ At(c, "dialog")
    /\ action \in DeleteActions
    /\ target \in IF action = "folder" THEN work[c].options ELSE {Root}
    /\ work[c].folder \in Live
    /\ work' = [work EXCEPT ![c] = [pc |-> FirstPc(action), folder |-> work[c].folder,
           action |-> action, target |-> target, options |-> {},
           stack |-> FirstStack(action, work[c].folder), names |-> {}]]
    /\ UNCHANGED <<parent, loc, object>>

CloseDialog(c) ==
    /\ At(c, "dialog")
    /\ Finish(c)
    /\ UNCHANGED <<parent, loc, object>>

-----------------------------------------------------------------------------
(* DELETE with "root" or "folder": two UPDATEs, whose errors are ignored.  *)
MoveChildren(c) ==
    /\ At(c, "children")
    /\ \/ /\ work[c].target \in Live \union {Root}
          /\ parent' = [g \in Folder |->
                 IF parent[g] = work[c].folder THEN work[c].target ELSE parent[g]]
       \/ /\ work[c].target \notin Live \union {Root} \/ "db" \in Faults
          /\ UNCHANGED parent
    /\ Goto(c, "files")
    /\ UNCHANGED <<loc, object>>

MoveContents(c) ==
    /\ At(c, "files")
    /\ \/ /\ work[c].target \in Live \union {Root}
          /\ loc' = [x \in File |-> IF loc[x] = work[c].folder THEN work[c].target ELSE loc[x]]
       \/ /\ work[c].target \notin Live \union {Root} \/ "db" \in Faults
          /\ UNCHANGED loc
    /\ Goto(c, "drop")
    /\ UNCHANGED <<parent, object>>

-----------------------------------------------------------------------------
(* The recursions of "cascade" and "cascade-files".                        *)
Top(c) == Head(work[c].stack)
Step(c, pc, step) == At(c, pc) /\ Top(c).step = step
SetTop(c, frame) == work' = [work EXCEPT ![c].stack = <<frame>> \o Tail(@)]

(* Reading the ids of the child folders.                                   *)
ReadChildren(c, pc) ==
    /\ Step(c, pc, "children")
    /\ SetTop(c, [Top(c) EXCEPT !.step = "each", !.todo = Children(Top(c).folder)])

(* Seeded bug: a child that was visited stays in the list. *)
DescendAgain(c, pc, f, step) ==
    /\ Step(c, pc, "each")
    /\ f \in Top(c).todo
    /\ work' = [work EXCEPT ![c].stack = <<Enter(f, step)>> \o @]

Descend(c, pc, f, step) ==
    /\ Step(c, pc, "each")
    /\ f \in Top(c).todo
    /\ work' = [work EXCEPT ![c].stack =
           <<Enter(f, step), [Top(c) EXCEPT !.todo = @ \ {f}]>> \o Tail(@)]

(* collectFolderFileNames.                                                 *)
CollectFiles(c) ==
    /\ Step(c, "collect", "files")
    /\ SetTop(c, [Top(c) EXCEPT !.step = "children", !.names = FilesIn(Top(c).folder)])
    /\ UNCHANGED <<parent, loc, object>>

CollectChildren(c) ==
    /\ ReadChildren(c, "collect")
    /\ UNCHANGED <<parent, loc, object>>

CollectDescend(c, f) ==
    /\ Descend(c, "collect", f, "files")
    /\ UNCHANGED <<parent, loc, object>>

StartErase(c, names) ==
    work' = [work EXCEPT ![c].pc = "erase", ![c].names = names, ![c].stack = <<>>]

(* The stack after the topmost call returned its names to its caller.      *)
Returned(c) ==
    <<[work[c].stack[2] EXCEPT !.names = @ \union Top(c).names]>> \o Tail(Tail(work[c].stack))

CollectReturn(c) ==
    /\ Step(c, "collect", "each")
    /\ Top(c).todo = {}
    /\ IF Len(work[c].stack) = 1
       THEN StartErase(c, Top(c).names)
       ELSE work' = [work EXCEPT ![c].stack = Returned(c)]
    /\ UNCHANGED <<parent, loc, object>>

(* An error unwinds the recursion: what the outermost call has so far is   *)
(* used, the rest is forgotten.                                            *)
CollectFails(c) ==
    /\ "db" \in Faults
    /\ At(c, "collect") /\ Top(c).step # "each"
    /\ StartErase(c, Last(work[c].stack).names)
    /\ UNCHANGED <<parent, loc, object>>

Erase(c, x) ==
    /\ At(c, "erase")
    /\ x \in work[c].names
    /\ object' = object \ {x}
    /\ work' = [work EXCEPT ![c].names = @ \ {x}]
    /\ UNCHANGED <<parent, loc>>

EraseFails(c, x) ==
    /\ "ds" \in Faults
    /\ At(c, "erase")
    /\ x \in work[c].names
    /\ work' = [work EXCEPT ![c].names = @ \ {x}]
    /\ UNCHANGED <<parent, loc, object>>

EraseDone(c) ==
    /\ At(c, "erase")
    /\ work[c].names = {}
    /\ work' = [work EXCEPT ![c].pc = "tree", ![c].stack = <<Enter(work[c].folder, "children")>>]
    /\ UNCHANGED <<parent, loc, object>>

(* deleteFolderTree.                                                       *)
TreeChildren(c) ==
    /\ ReadChildren(c, "tree")
    /\ UNCHANGED <<parent, loc, object>>

TreeDescend(c, f) ==
    /\ Descend(c, "tree", f, "children")
    /\ UNCHANGED <<parent, loc, object>>

(* Seeded bug: no folder's files are deleted, as in a cascade without them. *)
TreeDescendedKeepFiles(c) ==
    /\ Step(c, "tree", "each")
    /\ Top(c).todo = {}
    /\ SetTop(c, [Top(c) EXCEPT !.step = "row"])
    /\ UNCHANGED <<parent, loc, object>>

TreeDescended(c) ==
    /\ Step(c, "tree", "each")
    /\ Top(c).todo = {}
    /\ SetTop(c, [Top(c) EXCEPT
           !.step = IF work[c].action = "cascade-files" THEN "files" ELSE "row"])
    /\ UNCHANGED <<parent, loc, object>>

(* Seeded bug: all that is not in another folder goes. *)
TreeFilesAtRoot(c) ==
    /\ Step(c, "tree", "files")
    /\ loc' = [x \in File |-> IF loc[x] \in {Root, Top(c).folder} THEN Gone ELSE loc[x]]
    /\ SetTop(c, [Top(c) EXCEPT !.step = "row"])
    /\ UNCHANGED <<parent, object>>

TreeFiles(c) ==
    /\ Step(c, "tree", "files")
    /\ loc' = [x \in File |-> IF loc[x] = Top(c).folder THEN Gone ELSE loc[x]]
    /\ SetTop(c, [Top(c) EXCEPT !.step = "row"])
    /\ UNCHANGED <<parent, object>>

TreeRow(c) ==
    /\ Step(c, "tree", "row")
    /\ DeleteRow(Top(c).folder)
    /\ IF Len(work[c].stack) = 1
       THEN work' = [work EXCEPT ![c].pc = "drop", ![c].stack = <<>>]
       ELSE work' = [work EXCEPT ![c].stack = Tail(@)]
    /\ UNCHANGED object

(* An error of any statement ends the recursion; the handler goes on.      *)
TreeFails(c) ==
    /\ "db" \in Faults
    /\ At(c, "tree") /\ Top(c).step # "each"
    /\ work' = [work EXCEPT ![c].pc = "drop", ![c].stack = <<>>]
    /\ UNCHANGED <<parent, loc, object>>

Drop(c) ==
    /\ At(c, "drop")
    /\ DeleteRow(work[c].folder)
    /\ Finish(c)
    /\ UNCHANGED object

DropFails(c) ==
    /\ "db" \in Faults
    /\ At(c, "drop")
    /\ Finish(c)
    /\ UNCHANGED <<parent, loc, object>>

-----------------------------------------------------------------------------
(* The rest of the API, by anyone at any time.                             *)
CreateFolder(f, p) ==
    /\ "create" \in Others
    /\ parent[f] = Unborn
    /\ p \in Live \union {Root}
    /\ parent' = [parent EXCEPT ![f] = p]
    /\ UNCHANGED <<loc, object, work>>

(* An upload stores the object, then inserts the row; the insert fails,    *)
(* and the object is removed again, when the folder has gone.              *)
Upload(x, p) ==
    /\ "upload" \in Others
    /\ loc[x] = Unborn
    /\ p \in Live \union {Root}
    /\ loc' = [loc EXCEPT ![x] = p]
    /\ object' = object \union {x}
    /\ UNCHANGED <<parent, work>>

(* PATCH of a file's folderId, PATCH of a transaction, files attached to a *)
(* new folder, DELETE of a file from its folder.                           *)
MoveFile(x, p) ==
    /\ "move" \in Others
    /\ x \in Listed
    /\ p \in Live \union {Root}
    /\ loc' = [loc EXCEPT ![x] = p]
    /\ UNCHANGED <<parent, object, work>>

Request(c) ==
    \/ MoveChildren(c) \/ MoveContents(c)
    \/ CollectFiles(c) \/ CollectChildren(c) \/ CollectReturn(c) \/ CollectFails(c)
    \/ EraseDone(c)
    \/ \E x \in File : Erase(c, x) \/ EraseFails(c, x)
    \/ \E f \in Folder : CollectDescend(c, f) \/ TreeDescend(c, f)
    \/ TreeChildren(c) \/ TreeDescended(c) \/ TreeFiles(c) \/ TreeRow(c) \/ TreeFails(c)
    \/ Drop(c) \/ DropFails(c)

Dialog(c) ==
    \/ CloseDialog(c)
    \/ \E f \in Folder : OpenDialog(c, f)
    \/ \E p \in Place : PatchFolder(c, p)
    \/ \E action \in Actions, target \in Place : DeleteFolder(c, action, target)

Next ==
    \/ \E c \in Client : Dialog(c) \/ Request(c)
    \/ \E f \in Folder, p \in Place : CreateFolder(f, p)
    \/ \E x \in File, p \in Place : Upload(x, p) \/ MoveFile(x, p)

Spec == Init /\ [][Next]_vars

(* A request being served goes on: each call returns or fails.             *)
FairSpec == Spec /\ \A c \in Client : WF_vars(Request(c))

-----------------------------------------------------------------------------
InSubtree(x, f) == loc[x] \in Folder /\ Under(loc[x], f)

(* Acyclic, above: every folder is reached from the root.  The walks of    *)
(* collectFolderFileNames, deleteFolderTree and folderParentChain end only *)
(* if it holds, and the listing starts from the root.                      *)

(* "Every file within them": no request destroys a row or an object of a   *)
(* file that is not, at that moment, below the folder of a cascade-files   *)
(* deletion that is running.                                               *)
DestroysOnlyWithin == \A x \in Listed :
    loc'[x] = Gone \/ x \in object \ object' =>
        \E c \in Client : work[c].action = "cascade-files" /\ InSubtree(x, work[c].folder)

Quiet == \A c \in Client : work[c].pc \in {"idle", "dialog"}

(* Once no deletion is under way, every object is that of a row: what a    *)
(* deletion removes from the listing it removes from storage.              *)
NoOrphan == Quiet => object \subseteq Listed

(* Once no deletion is under way, every file listed still has its bytes.   *)
RowHasObject == Quiet => Listed \subseteq object
=============================================================================
