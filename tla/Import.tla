-------------------------------- MODULE Import --------------------------------
(***************************************************************************)
(* The import of an export of a server into another: of version 4 and 3 by *)
(* the TypeScript server ("zipline4", "zipline3") and of version 4 by the  *)
(* Go server ("zipfast4").  The rows are written one by one, in no         *)
(* transaction, while other imports and the users of the server are at     *)
(* work.  Left out: metrics, thumbnails, settings, and the logins that     *)
(* version 3 makes together with their user.                               *)
(***************************************************************************)
EXTENDS Naturals

CONSTANTS
    User, Folder, File, Tag, Item,  \* the ids of the rows an export has
    Exports,    \* the exports an administrator may have at hand
    Op,         \* requests to import
    Hows,       \* the servers and formats, see Order
    Me,         \* the administrator who imports
    Kept,       \* in the place of a request in the id of a row that keeps its own
    None,
    MaxEdits    \* bound on the moves of folders and removals of users

Row == User \union Folder \union File \union Tag \union Item
Id == [by: Op \union {Kept}, of: Row]
ItemKinds == {"oauth", "quota", "passkey", "url", "invite"}

(* An export: the kind of each item, the owner of each row, the folder a   *)
(* folder or a file is in, the files of a tag, the rows whose name a row   *)
(* of the administrator of the importing server has, and the folders with  *)
(* one name.                                                               *)
Export == [kind: [Item -> ItemKinds], owner: [Row -> User \union {None}],
           up: [Folder \union File -> Folder \union {None}], tagged: [Tag -> SUBSET File],
           taken: SUBSET Row, twins: SUBSET Folder]

(* No set of folders is closed under their parents: they form trees.       *)
Trees(e) == \A S \in SUBSET Folder : S # {} => \E d \in S : e.up[d] \notin S

ImportAssumption ==
    /\ Exports \subseteq Export /\ \A e \in Exports : Trees(e)
    /\ Hows \subseteq {"zipline4", "zipline3", "zipfast4"}
    /\ User \intersect (Folder \union File \union Tag \union Item) = {}
    /\ Folder \intersect (File \union Tag \union Item) = {}
    /\ File \intersect (Tag \union Item) = {} /\ Tag \intersect Item = {}
    /\ None \notin Row /\ Kept \notin Op
    /\ None # Me /\ {None, Me} \intersect Id = {}
    /\ MaxEdits \in Nat

VARIABLES
    how, export,    \* the importing server and the format, and the export
    db,             \* the rows that come from the export, by id
    op,             \* what each import is doing
    edits,          \* how often the users intervened
    raced           \* a user moved a folder, or went, while an import was at work

vars == <<how, export, db, op, edits, raced>>

Idle == [pc |-> "idle"]

Zipfast == how = "zipfast4"
Kind(x) == CASE x \in User -> "user" [] x \in Folder -> "folder" [] x \in File -> "file"
             [] x \in Tag -> "tag" [] x \in Item -> export.kind[x]

(* The kinds a request imports, one after the other.                       *)
Order ==
    [zipline4 |-> <<"user", "oauth", "quota", "passkey", "folder", "link", "file", "tag", "url", "invite">>,
     zipline3 |-> <<"user", "file", "folder", "url">>,
     zipfast4 |-> <<"user", "quota", "oauth", "tag", "folder", "link", "file", "url", "invite">>]

Handled(x) == \E i \in DOMAIN Order[how] : Order[how][i] = Kind(x)
Rank(kind) == CHOOSE i \in DOMAIN Order[how] : Order[how][i] = kind

TypeOK ==
    /\ how \in Hows /\ export \in Exports /\ edits \in 0..MaxEdits /\ raced \in BOOLEAN
    /\ DOMAIN db \subseteq Id
    /\ \A p \in DOMAIN db :
        db[p].owner \in DOMAIN db \union {Me, None} /\ db[p].up \in DOMAIN db \union {None}
        /\ db[p].files \subseteq DOMAIN db
    /\ \A o \in Op : op[o] = Idle \/
        /\ op[o].pc \in {"run", "done", "failed"} /\ op[o].merge \in User \union {None}
        /\ op[o].todo \subseteq Row /\ op[o].links \subseteq Folder
        /\ op[o].seen \in Row \union {None}
        /\ op[o].map \in [Row -> Id \union {Me, None}]

Init ==
    /\ how \in Hows /\ export \in Exports
    /\ db = <<>>
    /\ op = [o \in Op |-> Idle]
    /\ edits = 0 /\ raced = FALSE

Running(o) == op[o].pc = "run"
Ids(x) == {p \in DOMAIN db : p.of = x}
Owned(x) == export.owner[x] # None

(* Names in use: by the rows of the administrator, by a row of the export  *)
(* already imported, or by a folder of the same name.                      *)
Same(x) == IF x \in export.twins THEN export.twins ELSE {x}
InUse(x) == x \in export.taken \/ Ids(x) # {}
InUseBy(x, owner) ==
    \/ owner = Me /\ x \in export.taken
    \/ \E p \in DOMAIN db : p.of \in Same(x) /\ db[p].owner = owner

Keep(x, y) == [p \in DOMAIN db \union {x} |-> IF p = x THEN y ELSE db[p]]

(* The row is the next of its kind to be handled by o.                     *)
IsNext(o, x) ==
    /\ Running(o) /\ x \in op[o].todo /\ op[o].seen = None
    /\ \A y \in op[o].todo : Rank(Kind(x)) <= Rank(Kind(y))
    /\ op[o].links # {} => Rank(Kind(x)) < Rank("link")

-----------------------------------------------------------------------------
(* A request.  links are the folders whose parent is to be set, map is     *)
(* where each row went, seen the row found missing and about to be made.   *)
Begin(o, merge) ==
    /\ op[o] = Idle
    /\ merge # None => ~Zipfast
    /\ op' = [op EXCEPT ![o] = [pc |-> "run", merge |-> merge, seen |-> None,
                todo |-> {x \in Row : Handled(x)},
                links |-> IF Zipfast THEN {d \in Folder : export.up[d] # None} ELSE {},
                map |-> [x \in Row |-> None]]]
    /\ UNCHANGED <<how, export, db, edits, raced>>

Skip(o, x) == op' = [op EXCEPT ![o].todo = @ \ {x}] /\ UNCHANGED db
Found(o, x) == op' = [op EXCEPT ![o].seen = x, ![o].todo = @ \ {x}] /\ UNCHANGED db

(* The row x is written under id p.                                        *)
Write(o, x, p, r) ==
    /\ db' = Keep(p, r)
    /\ op' = [op EXCEPT ![o].map[x] = p, ![o].seen = None, ![o].todo = @ \ {x},
                        ![o].links = IF how = "zipline4" /\ x \in Folder /\ export.up[x] # None
                                     THEN @ \union {x} ELSE @]
Abort(o) == op' = [op EXCEPT ![o].pc = "failed"] /\ UNCHANGED db

(* Seeded bug: the rows of a user who is there already are given to them.  *)
FindUserThere(o, x) ==
    /\ x \in User /\ IsNext(o, x) /\ ~Zipfast
    /\ IF x = op[o].merge
       THEN op' = [op EXCEPT ![o].map[x] = Me, ![o].todo = @ \ {x}] /\ UNCHANGED db
       ELSE IF Ids(x) # {}
            THEN \E p \in Ids(x) : op' = [op EXCEPT ![o].map[x] = p, ![o].todo = @ \ {x}] /\ UNCHANGED db
            ELSE IF InUse(x) THEN Skip(o, x) ELSE Found(o, x)
    /\ UNCHANGED <<how, export, edits, raced>>

(* A user with a name or id in use is left out, and all that is theirs.    *)
FindUser(o, x) ==
    /\ x \in User /\ IsNext(o, x) /\ ~Zipfast
    /\ IF x = op[o].merge
       THEN op' = [op EXCEPT ![o].map[x] = Me, ![o].todo = @ \ {x}] /\ UNCHANGED db
       ELSE IF InUse(x) THEN Skip(o, x) ELSE Found(o, x)
    /\ UNCHANGED <<how, export, edits, raced>>

Owner(o, x) == IF Owned(x) THEN op[o].map[export.owner[x]] ELSE None

(* What is taken for the row, kind by kind: one with a unique name, or one *)
(* of the same owner.  Version 3 looks for no folder of the name; a tag is *)
(* looked for with the time it was made, which an imported tag lacks.      *)
OAuthExists(x) == Kind(x) = "oauth" /\ InUse(x)
QuotaExists(o, x) == Kind(x) = "quota" /\ InUseBy(x, Owner(o, x))
PasskeyExists(o, x) == Kind(x) = "passkey" /\ InUseBy(x, Owner(o, x))
FolderExists(o, x) == x \in Folder /\ how = "zipline4" /\ InUseBy(x, Owner(o, x))
FileExists(x) == x \in File /\ InUse(x)
UrlExists(o, x) == Kind(x) = "url" /\ how = "zipline4" /\ InUseBy(x, Owner(o, x))
UrlExists3(x) == Kind(x) = "url" /\ how = "zipline3" /\ InUse(x)
InviteExists(o, x) == Kind(x) = "invite" /\ InUseBy(x, Owner(o, x))

Exists(o, x) ==
    \/ OAuthExists(x) \/ QuotaExists(o, x) \/ PasskeyExists(o, x)
    \/ FolderExists(o, x) \/ FileExists(x)
    \/ UrlExists(o, x) \/ UrlExists3(x) \/ InviteExists(o, x)

Find(o, x) ==
    /\ x \in Row \ User /\ IsNext(o, x) /\ ~Zipfast
    /\ IF Owner(o, x) = None \/ Exists(o, x) THEN Skip(o, x) ELSE Found(o, x)
    /\ UNCHANGED <<how, export, edits, raced>>

(* The database refuses a second row under a unique name.                  *)
Clashes(x, owner) ==
    CASE x \in User \/ x \in Tag \/ Kind(x) \in {"oauth", "invite"} -> InUse(x)
      [] Kind(x) = "quota" -> InUseBy(x, owner)
      [] OTHER -> FALSE

There(p) == p \in DOMAIN db \union {Me, None}
Plain(owner) == [owner |-> owner, up |-> None, files |-> {}]

CreateUser(o) ==
    /\ Running(o) /\ op[o].seen \in User
    /\ LET x == op[o].seen IN
        IF Clashes(x, None) THEN Abort(o) ELSE Write(o, x, [by |-> o, of |-> x], Plain(None))
    /\ UNCHANGED <<how, export, edits, raced>>

CreateItem(o) ==
    /\ Running(o) /\ op[o].seen \in Item
    /\ LET x == op[o].seen IN
        IF ~There(Owner(o, x)) \/ Clashes(x, Owner(o, x)) THEN Abort(o)
        ELSE Write(o, x, [by |-> o, of |-> x], Plain(Owner(o, x)))
    /\ UNCHANGED <<how, export, edits, raced>>

(* Seeded bug: no second pass, so the parent must have been made before.   *)
CreateFolderAtOnce(o) ==
    /\ Running(o) /\ op[o].seen \in Folder /\ how = "zipline4"
    /\ LET x == op[o].seen
           up == IF export.up[x] = None THEN None ELSE op[o].map[export.up[x]] IN
        IF ~There(Owner(o, x)) \/ ~There(up) THEN Abort(o)
        ELSE /\ db' = Keep([by |-> o, of |-> x], [owner |-> Owner(o, x), up |-> up, files |-> {}])
             /\ op' = [op EXCEPT ![o].map[x] = [by |-> o, of |-> x], ![o].seen = None]
    /\ UNCHANGED <<how, export, edits, raced>>

(* The folders are made without their parents.                             *)
CreateFolder(o) ==
    /\ Running(o) /\ op[o].seen \in Folder /\ how = "zipline4"
    /\ LET x == op[o].seen IN
        IF ~There(Owner(o, x)) THEN Abort(o)
        ELSE Write(o, x, [by |-> o, of |-> x], Plain(Owner(o, x)))
    /\ UNCHANGED <<how, export, edits, raced>>

(* Version 3 makes the files first and a folder only with all of its own.  *)
CreateFolder3(o) ==
    /\ Running(o) /\ op[o].seen \in Folder /\ how = "zipline3"
    /\ LET x == op[o].seen
           p == [by |-> o, of |-> x]
           files == {f \in File : export.up[f] = x}
           ids == {op[o].map[f] : f \in files} IN
        IF None \in ids THEN op' = [op EXCEPT ![o].seen = None] /\ UNCHANGED db
        ELSE IF ~There(Owner(o, x)) \/ ~(ids \subseteq DOMAIN db) THEN Abort(o)
        ELSE /\ db' = [q \in DOMAIN db \union {p} |->
                        IF q = p THEN Plain(Owner(o, x))
                        ELSE IF q \in ids THEN [db[q] EXCEPT !.up = p] ELSE db[q]]
             /\ op' = [op EXCEPT ![o].map[x] = p, ![o].seen = None]
    /\ UNCHANGED <<how, export, edits, raced>>

(* The second pass: folders this request made get the parent it made.      *)
Link(o, d) ==
    /\ Running(o) /\ how = "zipline4" /\ d \in op[o].links /\ op[o].seen = None
    /\ \A x \in op[o].todo : Rank(Kind(x)) > Rank("link")
    /\ LET p == op[o].map[d]
           up == op[o].map[export.up[d]] IN
        IF up = None THEN op' = [op EXCEPT ![o].links = @ \ {d}] /\ UNCHANGED db
        ELSE IF ~There(p) \/ ~There(up) THEN Abort(o)
        ELSE db' = [db EXCEPT ![p].up = up] /\ op' = [op EXCEPT ![o].links = @ \ {d}]
    /\ UNCHANGED <<how, export, edits, raced>>

(* A file whose folder was left out is in none.                            *)
CreateFile(o) ==
    /\ Running(o) /\ op[o].seen \in File
    /\ LET x == op[o].seen
           up == IF export.up[x] = None \/ how = "zipline3" THEN None ELSE op[o].map[export.up[x]] IN
        IF ~There(Owner(o, x)) \/ ~There(up) THEN Abort(o)
        ELSE Write(o, x, [by |-> o, of |-> x], [owner |-> Owner(o, x), up |-> up, files |-> {}])
    /\ UNCHANGED <<how, export, edits, raced>>

(* One file of the tag that was left out, or a tag of that name, ends the  *)
(* whole import.                                                           *)
CreateTag(o) ==
    /\ Running(o) /\ op[o].seen \in Tag
    /\ LET x == op[o].seen
           ids == {op[o].map[f] : f \in export.tagged[x]} IN
        IF ~There(Owner(o, x)) \/ Clashes(x, Owner(o, x)) \/ ~(ids \subseteq DOMAIN db)
        THEN Abort(o)
        ELSE Write(o, x, [by |-> o, of |-> x], [owner |-> Owner(o, x), up |-> None, files |-> ids])
    /\ UNCHANGED <<how, export, edits, raced>>

-----------------------------------------------------------------------------
(* The Go server keeps the ids.  A row whose id is there is not written, a *)
(* row the database refuses is left out; neither ends the import.          *)
KeptId(x) == IF x = None THEN None ELSE [by |-> Kept, of |-> x]

Insert(o, x) ==
    /\ IsNext(o, x) /\ Zipfast
    /\ LET owner == KeptId(export.owner[x])
           up == IF x \in File THEN KeptId(export.up[x]) ELSE None
           refused == \/ ~There(owner) \/ ~There(up) \/ Clashes(x, owner)
                      \/ owner = None /\ x \notin User \union File \union Tag /\ Kind(x) # "url" IN
        IF KeptId(x) \in DOMAIN db \/ refused THEN Skip(o, x)
        ELSE Write(o, x, KeptId(x), [owner |-> owner, up |-> up, files |-> {}])
    /\ UNCHANGED <<how, export, edits, raced>>

(* Every folder of the export that is there, made by this import or not,   *)
(* gets the parent it has in the export.                                   *)
LinkKept(o, d) ==
    /\ Running(o) /\ Zipfast /\ d \in op[o].links
    /\ \A x \in op[o].todo : Rank(Kind(x)) > Rank("link")
    /\ db' = IF {KeptId(d), KeptId(export.up[d])} \subseteq DOMAIN db
             THEN [db EXCEPT ![KeptId(d)].up = KeptId(export.up[d])] ELSE db
    /\ op' = [op EXCEPT ![o].links = @ \ {d}]
    /\ UNCHANGED <<how, export, edits, raced>>

Done(o) ==
    /\ Running(o) /\ op[o].todo = {} /\ op[o].links = {} /\ op[o].seen = None
    /\ op' = [op EXCEPT ![o].pc = "done"]
    /\ UNCHANGED <<how, export, db, edits, raced>>

(* The database, the connection or the process fails.                      *)
Fails(o) ==
    /\ Running(o)
    /\ Abort(o)
    /\ UNCHANGED <<how, export, edits, raced>>
-----------------------------------------------------------------------------
(* The users of the server meanwhile.  A folder is moved into one of its   *)
(* owner's that is not below it; a user who is removed takes along what    *)
(* the database cascades to.                                               *)
Folders == {p \in DOMAIN db : p.of \in Folder}
Up(S) == {db[p].up : p \in S} \ {None}

(* The folders over p, itself included: what is in every set that has p    *)
(* and the parents of all of its own.                                      *)
Over(p) == {q \in Folders : \A S \in SUBSET Folders : p \in S /\ Up(S) \subseteq S => q \in S}

Edit == /\ edits < MaxEdits /\ edits' = edits + 1
        /\ raced' = (raced \/ \E o \in Op : Running(o))
        /\ UNCHANGED <<how, export, op>>

MoveFolder(p, q) ==
    /\ Edit
    /\ q # None => db[q].owner = db[p].owner /\ p \notin Over(q)
    /\ db' = [db EXCEPT ![p].up = q]

RemoveUser(u) ==
    /\ Edit
    /\ LET gone == {u} \union {p \in DOMAIN db : db[p].owner = u /\
                    Kind(p.of) \in {"oauth", "quota", "passkey", "folder", "invite"}} IN
        db' = [p \in DOMAIN db \ gone |->
                [owner |-> IF db[p].owner = u THEN None ELSE db[p].owner,
                 up |-> IF db[p].up \in gone THEN None ELSE db[p].up,
                 files |-> db[p].files]]

Request(o) ==
    \/ \E m \in User \union {None} : Begin(o, m)
    \/ \E x \in Row : FindUser(o, x) \/ Find(o, x) \/ Insert(o, x)
    \/ CreateUser(o) \/ CreateItem(o) \/ CreateFolder(o) \/ CreateFolder3(o)
    \/ CreateFile(o) \/ CreateTag(o) \/ Done(o) \/ Fails(o)
    \/ \E d \in Folder : Link(o, d) \/ LinkKept(o, d)

Next ==
    \/ \E o \in Op : Request(o)
    \/ \E p \in Folders : \E q \in Folders \union {None} : MoveFolder(p, q)
    \/ \E u \in {p \in DOMAIN db : p.of \in User} : RemoveUser(u)

Spec == Init /\ [][Next]_vars

-----------------------------------------------------------------------------
(* However often an export is imported, at once or again, a row comes over *)
(* once, unless it came into the administrator's own account (merge), or   *)
(* it is a URL whose owner is gone: a user is made once, and what is       *)
(* theirs only by the request that made them.                              *)
UnmergedOnce == \A p, q \in DOMAIN db :
    p # q /\ p.of = q.of =>
        \/ Me \in {db[p].owner, db[q].owner}
        \/ Kind(p.of) = "url" /\ None \in {db[p].owner, db[q].owner}

(* What an undisturbed import has done: each row with an imported owner is *)
(* there under the folder, and with the files, it had, unless its name was *)
(* in use or it is a folder with the name of another.  Version 3 leaves a  *)
(* folder out that misses a file, and all tags; the Go server a file that  *)
(* misses its folder, another user's, and the files of a tag.              *)
At(o, x) == IF x = None THEN None ELSE op[o].map[x]

Whole(o, x) ==
    LET p == At(o, x) IN
    /\ p \in DOMAIN db
    /\ db[p].owner = Owner(o, x)
    /\ (x \in Folder /\ how # "zipline3") \/ x \in File => db[p].up = At(o, export.up[x])
    /\ x \in Tag /\ ~Zipfast => db[p].files = {At(o, f) : f \in export.tagged[x]}

LeftOut(o, x) ==
    \/ how = "zipline3" /\ x \in Folder /\ \E f \in File : export.up[f] = x /\ At(o, f) = None
    \/ Zipfast /\ x \in File /\ export.up[x] # None /\ At(o, export.up[x]) = None

Delivered == \A o \in Op :
    op[o].pc = "done" /\ edits = 0 /\ (\A other \in Op \ {o} : op[other] = Idle) =>
        \A x \in Row \ (User \union export.taken \union export.twins) :
            Handled(x) /\ Owner(o, x) # None =>
                Whole(o, x) \/ LeftOut(o, x)

(* No folder gets into itself, if nobody moves a folder while an import is *)
(* at work; in the Go server, which sets the parent of folders that were   *)
(* there before, if nobody ever does.                                      *)
Acyclic == \A p \in Folders : db[p].up # None => p \notin Over(db[p].up)
AcyclicAtRest == ~raced /\ (Zipfast => edits = 0) => Acyclic
=============================================================================
