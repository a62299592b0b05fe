--------------------------- MODULE ReferenceFolders ---------------------------
(***************************************************************************)
(* The folders of one user in the TypeScript server.  A move looks for a   *)
(* cycle one folder at a time and then sets the parent; a deletion works   *)
(* through the subtree in one transaction, whose rows are locked and whose *)
(* changes are not seen until it commits, and deletes the objects after.   *)
(* Breadcrumbs and exports read the tree one folder at a time.             *)
(***************************************************************************)
EXTENDS Naturals, Sequences

CONSTANTS
    Folder, File,
    Req,            \* browser tabs, each with one request at a time
    Scene,          \* the situations: what each tab does, whether a deletion may name any
                    \* folder as the target, and whether calls fail
    MaxRequests,    \* bound on the requests of a tab
    Root, Gone, Unborn

Row == Folder \union File
Place == Folder \union {Root}
ChildrenActions == {"none", "root", "folder", "cascade", "cascade-files"}
Kinds == ChildrenActions \union {"move", "create", "add", "remove", "upload", "chain", "export"}

ReferenceFoldersAssumption ==
    /\ Folder \intersect File = {} /\ {Root, Gone, Unborn} \intersect Row = {}
    /\ Scene \subseteq [may: [Req -> SUBSET Kinds], anyTarget: BOOLEAN, faults: BOOLEAN]
    /\ MaxRequests \in Nat

VARIABLES
    scene,
    place,      \* Folder.parentId and File.folderId; Gone or Unborn without a row
    object,     \* files with an object in the datasource
    dirty,      \* what the transaction of a request has changed: rows and their new places
    work,       \* what each tab is doing
    made,       \* requests made
    still       \* files an export is bound to meet: they and what is above them stay

vars == <<scene, place, object, dirty, work, made, still>>

Idle == [pc |-> "idle"]
NoChange == <<>>
Live == {f \in Folder : place[f] \in Place}
Listed == {x \in File : place[x] \in Place}

(* The folders that a place leads to, going up: itself and what is above.  *)
ClosedUp(U) == \A g \in U : place[g] \in Folder => place[g] \in U
Chain(p) == {g \in Folder : \A U \in SUBSET Folder : {p} \intersect Folder \subseteq U /\ ClosedUp(U) => g \in U}

Rooted(f) == \E g \in Chain(f) : place[g] = Root
Acyclic == \A f \in Live : Rooted(f)
Under(f) == {x \in Listed : f \in Chain(place[x])}

TypeOK ==
    /\ scene \in Scene
    /\ place \in [Row -> Place \union {Gone, Unborn}]
    /\ object \subseteq File
    /\ \A c \in Req : /\ DOMAIN dirty[c] \subseteq Row
                      /\ \A r \in DOMAIN dirty[c] : dirty[c][r] \in Place \union {Gone}
    /\ \A c \in Req : dirty[c] # NoChange => work[c].pc \in {"files", "tree", "commit"}
    /\ made \in [Req -> 0..MaxRequests] /\ still \in [Req -> SUBSET File]

Init ==
    /\ scene \in Scene
    /\ place \in [Row -> Place \union {Unborn}]
    /\ \A r \in Row : place[r] \in Folder => place[r] \in Live
    /\ Acyclic
    /\ object = Listed
    /\ dirty = [c \in Req |-> NoChange]
    /\ work = [c \in Req |-> Idle]
    /\ made = [c \in Req |-> 0]
    /\ still = [c \in Req |-> {}]

-----------------------------------------------------------------------------
(* The database: statements see what is committed and their own changes.   *)
View(c) == [r \in Row |-> IF r \in DOMAIN dirty[c] THEN dirty[c][r] ELSE place[r]]
FoldersIn(c, f) == {g \in Folder : View(c)[g] = f}
FilesIn(c, f) == {x \in File : View(c)[x] = f}
Exists(c, r) == View(c)[r] \notin {Gone, Unborn}

(* A statement waits for a row that another transaction has changed, for a *)
(* folder it refers to that another has deleted, and for references of     *)
(* others to a folder it deletes.                                          *)
Free(c, rows) == \A d \in Req \ {c} : rows \intersect DOMAIN dirty[d] = {}
Stands(c, p) == p \in Folder => Free(c, {p}) \/ \A d \in Req \ {c} : p \in DOMAIN dirty[d] => dirty[d][p] # Gone
Unreferenced(c, f) == \A d \in Req \ {c} : \A r \in DOMAIN dirty[d] : dirty[d][r] # f

MayDelete(c, f) ==
    Free(c, {f} \union FoldersIn(c, f) \union FilesIn(c, f)) /\ Unreferenced(c, f)

Moved(rows, p) == [r \in rows |-> p]
Over(changes, old) == [r \in DOMAIN changes \union DOMAIN old |->
                         IF r \in DOMAIN changes THEN changes[r] ELSE old[r]]
RowDeleted(c, f) == [r \in {f} \union FoldersIn(c, f) \union FilesIn(c, f) |-> IF r = f THEN Gone ELSE Root]

Write(c, changes) == dirty' = [dirty EXCEPT ![c] = Over(changes, @)] /\ UNCHANGED place
WriteAlone(changes) == place' = Over(changes, place) /\ UNCHANGED dirty
Rollback(c) == dirty' = [dirty EXCEPT ![c] = NoChange] /\ UNCHANGED place

Goto(c, state) == work' = [work EXCEPT ![c] = state]
Finish(c) == Goto(c, Idle)

-----------------------------------------------------------------------------
(* PATCH with a parent: refused if it is the folder itself or not there;   *)
(* then what is above it is read, one folder at a time.                    *)
Patch(c, f, p) ==
    /\ f \in Live /\ p # f /\ p \in Live \union {Root}
    /\ Goto(c, IF p = Root THEN [pc |-> "set", folder |-> f, target |-> p]
               ELSE [pc |-> "walk", folder |-> f, target |-> p, at |-> place[p]])
    /\ UNCHANGED <<place, object, dirty>>

\* Seeded bug: only the parent of the destination is looked at.
WalkOnce(c) ==
    /\ work[c].pc = "walk"
    /\ IF work[c].at = work[c].folder THEN Finish(c)
       ELSE Goto(c, [pc |-> "set", folder |-> work[c].folder, target |-> work[c].target])
    /\ UNCHANGED <<place, object, dirty>>

Walk(c) ==
    /\ work[c].pc = "walk"
    /\ CASE work[c].at = work[c].folder -> Finish(c)
         [] work[c].at = Root ->
              Goto(c, [pc |-> "set", folder |-> work[c].folder, target |-> work[c].target])
         [] OTHER -> Goto(c, [work[c] EXCEPT !.at = IF @ \in Live THEN place[@] ELSE Root])
    /\ UNCHANGED <<place, object, dirty>>

(* The UPDATE, unless the folder is gone or the destination is.            *)
SetParent(c) ==
    LET f == work[c].folder
        p == work[c].target
    IN  /\ work[c].pc = "set"
        /\ Free(c, {f}) /\ Stands(c, p)
        /\ IF f \in Live /\ p \in Live \union {Root}
           THEN WriteAlone(Moved({f}, p)) ELSE UNCHANGED <<place, dirty>>
        /\ Finish(c)
        /\ UNCHANGED object

(* POST: a folder, with files of the user put into it.                     *)
Create(c, g, p, xs) ==
    /\ place[g] = Unborn /\ p \in Live \union {Root} /\ xs \subseteq Listed
    /\ Goto(c, [pc |-> "create", folder |-> g, target |-> p, files |-> xs])
    /\ UNCHANGED <<place, object, dirty>>

CreateRow(c) ==
    LET w == work[c] IN
    /\ w.pc = "create"
    /\ Stands(c, w.target) /\ Free(c, w.files)
    /\ IF place[w.folder] = Unborn /\ w.target \in Live \union {Root} /\ w.files \subseteq Listed
       THEN WriteAlone(Over(Moved({w.folder}, w.target), Moved(w.files, w.folder)))
       ELSE UNCHANGED <<place, dirty>>
    /\ Finish(c)
    /\ UNCHANGED object

(* PUT: a file into the folder, unless it is there.                        *)
AddFile(c, f, x) ==
    /\ f \in Live /\ x \in Listed /\ place[x] # f
    /\ Goto(c, [pc |-> "connect", folder |-> f, file |-> x])
    /\ UNCHANGED <<place, object, dirty>>

Connect(c) ==
    LET w == work[c] IN
    /\ w.pc = "connect"
    /\ Free(c, {w.file}) /\ Stands(c, w.folder)
    /\ IF w.folder \in Live /\ w.file \in Listed
       THEN WriteAlone(Moved({w.file}, w.folder)) ELSE UNCHANGED <<place, dirty>>
    /\ Finish(c)
    /\ UNCHANGED object

(* DELETE of a file from the folder, if it is there.                       *)
RemoveFile(c, f, x) ==
    /\ f \in Live /\ place[x] = f
    /\ Goto(c, [pc |-> "disconnect", folder |-> f, file |-> x])
    /\ UNCHANGED <<place, object, dirty>>

Disconnect(c) ==
    LET w == work[c] IN
    /\ w.pc = "disconnect"
    /\ Free(c, {w.file})
    /\ IF w.folder \in Live /\ place[w.file] = w.folder
       THEN WriteAlone(Moved({w.file}, Root)) ELSE UNCHANGED <<place, dirty>>
    /\ Finish(c)
    /\ UNCHANGED object

(* A file uploaded into a folder.                                          *)
Upload(c, x, p) ==
    /\ place[x] = Unborn /\ p \in Live \union {Root} /\ Stands(c, p)
    /\ WriteAlone(Moved({x}, p))
    /\ object' = object \union {x}
    /\ UNCHANGED work

-----------------------------------------------------------------------------
(* The dialog of a deletion.  It lists the folders that hang together with *)
(* the root and not through this one, and asks what to do with the content *)
(* if the list it was opened from counts any.                              *)
Offered(f) == {g \in Live : f \notin Chain(g) /\ Rooted(g)}

OpenDialog(c, f) ==
    /\ f \in Live
    /\ Goto(c, [pc |-> "dialog", folder |-> f, options |-> Offered(f),
                content |-> FoldersIn(c, f) \union FilesIn(c, f) # {}])
    /\ UNCHANGED <<place, object, dirty>>

CloseDialog(c) ==
    /\ work[c].pc = "dialog"
    /\ Finish(c)
    /\ UNCHANGED <<place, object, dirty>>

Targets(c) == IF scene.anyTarget THEN Folder ELSE work[c].options

(* The first statement of each childrenAction; a target that is not there  *)
(* is refused.                                                             *)
Delete(c, action, target) ==
    LET f == work[c].folder IN
    /\ work[c].pc = "dialog"
    /\ action \in scene.may[c]
    /\ work[c].content <=> action # "none"
    /\ target \in IF action = "folder" THEN Targets(c) ELSE {Root}
    /\ Goto(c, IF f \notin Live \/ target \notin Live \union {Root} THEN Idle
               ELSE CASE action = "none" -> [pc |-> "drop", folder |-> f]
                      [] action \in {"root", "folder"} ->
                           [pc |-> "children", folder |-> f, target |-> target]
                      [] OTHER ->
                           [pc |-> "tree", folder |-> f, files |-> action = "cascade-files", names |-> {},
                            stack |-> <<[folder |-> f, step |-> "children", todo |-> {}]>>])
    /\ UNCHANGED <<place, object, dirty>>

(* Content to the root or to the target, which rolls back if it is gone.   *)
MoveContent(c, pc, rows, next) ==
    /\ work[c].pc = pc
    /\ Free(c, rows) /\ Stands(c, work[c].target)
    /\ IF rows = {} \/ work[c].target = Root \/ Exists(c, work[c].target)
       THEN Write(c, Moved(rows, work[c].target)) /\ Goto(c, [work[c] EXCEPT !.pc = next])
       ELSE Rollback(c) /\ Finish(c)
    /\ UNCHANGED object

MoveChildren(c) == MoveContent(c, "children", FoldersIn(c, work[c].folder), "files")
MoveFiles(c) == MoveContent(c, "files", FilesIn(c, work[c].folder), "commit")

-----------------------------------------------------------------------------
(* deleteRecursive.                                                        *)
Top(c) == Head(work[c].stack)
At(c, step) == work[c].pc = "tree" /\ Top(c).step = step
SetTop(c, frame) == [work[c] EXCEPT !.stack = <<frame>> \o Tail(@)]

ReadChildren(c) ==
    /\ At(c, "children")
    /\ Goto(c, SetTop(c, [Top(c) EXCEPT !.step = "each", !.todo = FoldersIn(c, Top(c).folder)]))
    /\ UNCHANGED <<place, object, dirty>>

Descend(c, g) ==
    /\ At(c, "each") /\ g \in Top(c).todo
    /\ Goto(c, [work[c] EXCEPT !.stack = <<[folder |-> g, step |-> "children", todo |-> {}],
                                           [Top(c) EXCEPT !.todo = @ \ {g}]>> \o Tail(@)])
    /\ UNCHANGED <<place, object, dirty>>

Descended(c) ==
    /\ At(c, "each") /\ Top(c).todo = {}
    /\ Goto(c, SetTop(c, [Top(c) EXCEPT !.step = IF work[c].files THEN "names" ELSE "row"]))
    /\ UNCHANGED <<place, object, dirty>>

ReadNames(c) ==
    /\ At(c, "names")
    /\ Goto(c, [SetTop(c, [Top(c) EXCEPT !.step = "files"]) EXCEPT !.names = @ \union FilesIn(c, Top(c).folder)])
    /\ UNCHANGED <<place, object, dirty>>

DeleteFiles(c) ==
    LET rows == FilesIn(c, Top(c).folder) IN
    /\ At(c, "files")
    /\ Free(c, rows)
    /\ Write(c, Moved(rows, Gone))
    /\ Goto(c, SetTop(c, [Top(c) EXCEPT !.step = "row"]))
    /\ UNCHANGED object

\* Seeded bug: the names that were read are deleted though the rows are not.
DeleteRowErasing(c) ==
    LET f == Top(c).folder IN
    /\ At(c, "row")
    /\ MayDelete(c, f)
    /\ IF Exists(c, f)
       THEN /\ Write(c, RowDeleted(c, f))
            /\ Goto(c, IF Len(work[c].stack) = 1 THEN [work[c] EXCEPT !.pc = "commit"]
                       ELSE [work[c] EXCEPT !.stack = Tail(@)])
       ELSE Rollback(c) /\ Goto(c, [pc |-> "erase", names |-> work[c].names])
    /\ UNCHANGED object

(* The row of the folder; one that another request has deleted rolls the   *)
(* whole transaction back.                                                 *)
DeleteRow(c) ==
    LET f == Top(c).folder IN
    /\ At(c, "row")
    /\ MayDelete(c, f)
    /\ IF Exists(c, f)
       THEN /\ Write(c, RowDeleted(c, f))
            /\ Goto(c, IF Len(work[c].stack) = 1 THEN [work[c] EXCEPT !.pc = "commit"]
                       ELSE [work[c] EXCEPT !.stack = Tail(@)])
       ELSE Rollback(c) /\ Finish(c)
    /\ UNCHANGED object

(* A transaction that waits for another comes to its time limit, or the    *)
(* database finds that each waits for the other.                           *)
Waits(c) ==
    \/ work[c].pc = "children" /\ ~(Free(c, FoldersIn(c, work[c].folder)) /\ Stands(c, work[c].target))
    \/ work[c].pc = "files" /\ ~(Free(c, FilesIn(c, work[c].folder)) /\ Stands(c, work[c].target))
    \/ At(c, "files") /\ ~Free(c, FilesIn(c, Top(c).folder))
    \/ At(c, "row") /\ ~MayDelete(c, Top(c).folder)

TimesOut(c) ==
    /\ Waits(c)
    /\ Rollback(c) /\ Finish(c)
    /\ UNCHANGED object

Commit(c) ==
    /\ work[c].pc = "commit"
    /\ place' = View(c)
    /\ dirty' = [dirty EXCEPT ![c] = NoChange]
    /\ Goto(c, IF "names" \in DOMAIN work[c] THEN [pc |-> "erase", names |-> work[c].names]
               ELSE [pc |-> "drop", folder |-> work[c].folder])
    /\ UNCHANGED object

Erase(c) ==
    /\ work[c].pc = "erase"
    /\ IF work[c].names = {} THEN Finish(c) /\ UNCHANGED object
       ELSE LET x == CHOOSE y \in work[c].names : TRUE IN
            object' = object \ {x} /\ Goto(c, [work[c] EXCEPT !.names = @ \ {x}])
    /\ UNCHANGED <<place, dirty>>

(* The folder itself, after the transaction that emptied it.               *)
Drop(c) ==
    LET f == work[c].folder IN
    /\ work[c].pc = "drop"
    /\ MayDelete(c, f)
    /\ IF f \in Live THEN WriteAlone(RowDeleted(c, f)) ELSE UNCHANGED <<place, dirty>>
    /\ Finish(c)
    /\ UNCHANGED object

-----------------------------------------------------------------------------
(* GET of a folder: the chain above it, until the root, a folder that is   *)
(* gone, or, on the public page, one that is not public.                   *)
ReadFolder(c, f) ==
    /\ f \in Live
    /\ Goto(c, [pc |-> "chain", at |-> place[f]])
    /\ UNCHANGED <<place, object, dirty>>

ReadPublicFolder(c, f) ==
    /\ f \in Live
    /\ Goto(c, [pc |-> "public", at |-> place[f]])
    /\ UNCHANGED <<place, object, dirty>>

BuildParentChain(c) ==
    /\ work[c].pc = "chain"
    /\ Goto(c, IF work[c].at \in Live THEN [work[c] EXCEPT !.at = place[@]] ELSE Idle)
    /\ UNCHANGED <<place, object, dirty>>

BuildPublicParentChain(c) ==
    /\ work[c].pc = "public"
    /\ \E public \in BOOLEAN :
         Goto(c, IF public /\ work[c].at \in Live THEN [work[c] EXCEPT !.at = place[@]] ELSE Idle)
    /\ UNCHANGED <<place, object, dirty>>

(* The export: first the tree, a folder with its files and the ids of its  *)
(* children at a time, then the objects that are there.                    *)
Export(c, f) ==
    /\ f \in Live
    /\ Goto(c, [pc |-> "export", folder |-> f, todo |-> {f}, found |-> {}])
    /\ UNCHANGED <<place, object, dirty>>

\* Seeded bug: children are looked for among the files' folders only.
GetFolderTreeFlat(c, f) ==
    /\ work[c].pc = "export" /\ f \in work[c].todo
    /\ Goto(c, [work[c] EXCEPT !.todo = (@ \ {f}) \union {g \in Folder : place[g] = f /\ f = work[c].folder},
                               !.found = @ \union {x \in File : place[x] = f}])
    /\ UNCHANGED <<place, object, dirty>>

GetFolderTree(c, f) ==
    /\ work[c].pc = "export" /\ f \in work[c].todo
    /\ Goto(c, [work[c] EXCEPT !.todo = (@ \ {f}) \union {g \in Folder : place[g] = f},
                               !.found = @ \union {x \in File : place[x] = f}])
    /\ UNCHANGED <<place, object, dirty>>

BeginZip(c) ==
    /\ work[c].pc = "export" /\ work[c].todo = {}
    /\ Goto(c, [pc |-> "zip", todo |-> work[c].found, zip |-> {}, unread |-> {}])
    /\ UNCHANGED <<place, object, dirty>>

AddFolderToZip(c, x) ==
    /\ work[c].pc = "zip" /\ x \in work[c].todo
    /\ Goto(c, [work[c] EXCEPT !.todo = @ \ {x}, !.zip = @ \union ({x} \intersect object)])
    /\ UNCHANGED <<place, object, dirty>>

(* One the datasource fails to read is logged and passed over.             *)
SkipUnread(c, x) ==
    /\ scene.faults
    /\ work[c].pc = "zip" /\ x \in work[c].todo
    /\ Goto(c, [work[c] EXCEPT !.todo = @ \ {x}, !.unread = @ \union {x}])
    /\ UNCHANGED <<place, object, dirty>>

EndZip(c) ==
    /\ work[c].pc = "zip" /\ work[c].todo = {}
    /\ Finish(c)
    /\ UNCHANGED <<place, object, dirty>>

(* A call fails, or the process dies: the transaction is rolled back, and  *)
(* what is not yet erased stays.                                           *)
Fails(c) ==
    /\ scene.faults /\ work[c].pc \notin {"idle", "dialog"}
    /\ Rollback(c) /\ Finish(c)
    /\ UNCHANGED object

-----------------------------------------------------------------------------
Begins(c, kind) ==
    CASE kind = "move" -> \E f \in Folder, p \in Place : Patch(c, f, p)
      [] kind = "create" -> \E g \in Folder, p \in Place, xs \in {{}} \union {{x} : x \in File} : Create(c, g, p, xs)
      [] kind = "add" -> \E f \in Folder, x \in File : AddFile(c, f, x)
      [] kind = "remove" -> \E f \in Folder, x \in File : RemoveFile(c, f, x)
      [] kind = "upload" -> \E x \in File, p \in Place : Upload(c, x, p)
      [] kind = "chain" -> \E f \in Folder : ReadFolder(c, f) \/ ReadPublicFolder(c, f)
      [] kind = "export" -> \E f \in Folder : Export(c, f)
      [] OTHER -> \E f \in Folder : OpenDialog(c, f)

Begin(c) ==
    /\ work[c] = Idle /\ made[c] < MaxRequests
    /\ made' = [made EXCEPT ![c] = @ + 1]
    /\ \E kind \in scene.may[c] : Begins(c, kind)

Step(c) ==
    \/ Walk(c) \/ SetParent(c) \/ CreateRow(c) \/ Connect(c) \/ Disconnect(c)
    \/ MoveChildren(c) \/ MoveFiles(c) \/ Drop(c)
    \/ ReadChildren(c) \/ Descended(c) \/ ReadNames(c) \/ DeleteFiles(c) \/ DeleteRow(c)
    \/ TimesOut(c) \/ Commit(c) \/ Erase(c)
    \/ BuildParentChain(c) \/ BuildPublicParentChain(c)
    \/ BeginZip(c) \/ EndZip(c)
    \/ \E g \in Folder : Descend(c, g) \/ GetFolderTree(c, g)
    \/ \E x \in File : AddFolderToZip(c, x) \/ SkipUnread(c, x)

Chosen(c) == CloseDialog(c) \/ \E action \in ChildrenActions, target \in Place : Delete(c, action, target)

(* An export begins with what is below its folder; whatever moves then, or *)
(* has something above it move, is no longer expected.                     *)
Stays(c) ==
    IF work'[c].pc = "export" /\ work[c].pc = "idle" THEN Under(work'[c].folder)
    ELSE IF work'[c].pc \notin {"export", "zip"} THEN {}
    ELSE {x \in still[c] : x \in object' /\ \A r \in {x} \union Chain(place[x]) : place'[r] = place[r]}

Next ==
    /\ \E c \in Req :
         \/ Begin(c)
         \/ (Step(c) \/ Chosen(c) \/ Fails(c)) /\ UNCHANGED made
    /\ still' = [c \in Req |-> Stays(c)]
    /\ UNCHANGED scene

(* Every request goes on.                                                  *)
Fairness == \A c \in Req : WF_vars(Step(c) /\ UNCHANGED <<made, scene>> /\ still' = [d \in Req |-> Stays(d)])

Spec == Init /\ [][Next]_vars /\ Fairness

-----------------------------------------------------------------------------
(* One tab works alone, or no request but a deletion with all it holds     *)
(* takes files from a folder or puts any there.                            *)
FilesStay == \A c \in Req : \A d \in Req \ {c} : scene.may[c] # {} =>
    scene.may[d] \intersect {"add", "remove", "create", "upload", "root", "folder"} = {}

(* Whatever deletions overlap, and wherever one fails: a file keeps its    *)
(* object as long as it has a row; and where nothing fails the object goes *)
(* with the row, as long as no file comes or goes meanwhile.               *)
CascadeExact == FilesStay =>
    /\ Listed \subseteq object
    /\ ~scene.faults => \A x \in object \ Listed :
         \E c \in Req : work[c].pc = "erase" /\ x \in work[c].names

(* No folder is ever below itself.                                         *)
TreeStays == Acyclic

(* An export holds every file that was below the folder all along, but     *)
(* those that could not be read.                                           *)
ExportWhole == \A c \in Req :
    work[c].pc = "zip" /\ work[c].todo = {} => still[c] \subseteq work[c].zip \union work[c].unread

(* Every request is answered.                                              *)
RequestsEnd == \A c \in Req : []<>(work[c].pc \in {"idle", "dialog"})
=============================================================================
