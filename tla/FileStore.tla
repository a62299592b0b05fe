------------------------------ MODULE FileStore ------------------------------
(***************************************************************************)
(* The two places an uploaded file lives in: its row in table "files"      *)
(* (PostgreSQL) and its object in the datasource, stored under the row's   *)
(* name.  No transaction spans the two.  Every handler and background task *)
(* that touches them is a sequence of single steps, each of which can fail *)
(* and between any two of which another goroutine may run or the process   *)
(* may die.                                                                *)
(*                                                                         *)
(* An element of Op is one goroutine slot: a request handler, or the       *)
(* deleteFiles / maxViews task at work on one target of its list.          *)
(***************************************************************************)
EXTENDS Naturals, FiniteSets

CONSTANTS
    File,       \* ids minted by cuid.New(), each used by one upload
    Name,       \* names: datasource keys and values of column files.name
    EmptyName,  \* the empty string, a name no upload chooses
    NamesOf,    \* the names an uploader or a rename may give each file
    Op,         \* goroutine slots
    Tasks,      \* those of the background tasks; the others serve requests
    Backend,    \* "local" or "s3"
    Kinds,      \* the endpoints and tasks in use
    Faults,     \* what the environment may do wrong
    NoFile, NoName, Torn

AllKinds == {"upload", "delete", "expire", "serve", "bulk", "detach", "rename", "requery"}
AllFaults == {"crash", "ds", "db", "ack"}

ASSUME NamesAssumption ==
    /\ NamesOf \in [File -> SUBSET Name]
    /\ EmptyName \in Name
    /\ NoName \notin Name
    /\ NoFile \notin File
    /\ Torn \notin File \union {NoFile}
ASSUME ConfigAssumption ==
    /\ Tasks \subseteq Op
    /\ Backend \in {"local", "s3"}
    /\ Kinds \subseteq AllKinds
    /\ Faults \subseteq AllFaults

VARIABLES
    row,        \* files.name of each file; NoName when there is no row
    object,     \* whose bytes each key holds; NoFile when there is no object
    started,    \* files whose upload has begun
    acked,      \* files whose upload was answered with success
    expired,    \* files past deletes_at or at max_views
    requested,  \* files a user or an admin has asked to delete
    op          \* what each goroutine is doing

vars == <<row, object, started, acked, expired, requested, op>>

(* A file somebody is entitled to have removed. *)
condemned == expired \union requested

PC == {"put", "insert", "undo", "dropObj", "dropRow",
       "rmRow", "rmObj", "move", "moveDrop", "update", "probe"}

Busy == [pc: PC, file: File, name: Name, to: Name \union {NoName}, strict: BOOLEAN]

Idle == [pc |-> "idle", file |-> NoFile, name |-> NoName, to |-> NoName, strict |-> FALSE]

TypeOK ==
    /\ row \in [File -> Name \union {NoName}]
    /\ object \in [Name -> File \union {NoFile, Torn}]
    /\ started \subseteq File
    /\ acked \subseteq File
    /\ expired \subseteq File
    /\ requested \subseteq File
    /\ op \in [Op -> Busy \union {Idle}]

Init ==
    /\ row = [f \in File |-> NoName]
    /\ object = [n \in Name |-> NoFile]
    /\ started = {}
    /\ acked = {}
    /\ expired = {}
    /\ requested = {}
    /\ op = [o \in Op |-> Idle]

-----------------------------------------------------------------------------
(* Goroutine bookkeeping. *)

Start(o, pc, f, n, m, strict) ==
    /\ op[o].pc = "idle"
    /\ op' = [op EXCEPT ![o] = [pc |-> pc, file |-> f, name |-> n, to |-> m, strict |-> strict]]

Goto(o, pc) == op' = [op EXCEPT ![o].pc = pc]

Finish(o) == op' = [op EXCEPT ![o] = Idle]

(* SELECT: the handler reads the row and keeps this copy of its name. *)
Reads(o, kind, pc, f, m, strict) ==
    /\ kind \in Kinds
    /\ row[f] # NoName
    /\ Start(o, pc, f, row[f], m, strict)

(* DELETE FROM files WHERE id = f, whatever the row has become. *)
DeleteRow(f) == row' = [row EXCEPT ![f] = NoName]

(* Datasource.Delete: a missing object is not an error. *)
DeleteObject(n) == object' = [object EXCEPT ![n] = NoFile]

-----------------------------------------------------------------------------
(* Upload: put the object, insert the row, remove the object when the      *)
(* insert fails.                                                           *)

UploadBegin(o, f) ==
    /\ "upload" \in Kinds
    /\ f \notin started
    /\ \E n \in NamesOf[f] \ {EmptyName} : Start(o, "put", f, n, NoName, FALSE)
    /\ started' = started \union {f}
    /\ UNCHANGED <<row, object, acked, expired, requested>>

UploadPut(o) ==
    /\ op[o].pc = "put"
    /\ object' = [object EXCEPT ![op[o].name] = op[o].file]
    /\ Goto(o, "insert")
    /\ UNCHANGED <<row, started, acked, expired, requested>>

(* A failed Put may leave nothing new, or a truncated object: nothing       *)
(* removes it.                                                             *)
UploadPutFails(o) ==
    /\ "ds" \in Faults
    /\ op[o].pc = "put"
    /\ object' \in {object, [object EXCEPT ![op[o].name] = Torn]}
    /\ Finish(o)
    /\ UNCHANGED <<row, started, acked, expired, requested>>

UploadInsert(o) ==
    /\ op[o].pc = "insert"
    /\ row' = [row EXCEPT ![op[o].file] = op[o].name]
    /\ acked' = acked \union {op[o].file}
    /\ Finish(o)
    /\ UNCHANGED <<object, started, expired, requested>>

(* Seeded bug: a failed insert is not rolled back. *)
UploadInsertFailsNoUndo(o) ==
    /\ op[o].pc = "insert"
    /\ "db" \in Faults
    /\ Finish(o)
    /\ UNCHANGED <<row, object, started, acked, expired, requested>>

(* "db": the insert is refused.  "ack": it commits and its answer is lost. *)
UploadInsertFails(o) ==
    /\ op[o].pc = "insert"
    /\ \/ "db" \in Faults /\ UNCHANGED row
       \/ "ack" \in Faults /\ row' = [row EXCEPT ![op[o].file] = op[o].name]
    /\ Goto(o, "undo")
    /\ UNCHANGED <<object, started, acked, expired, requested>>

UploadUndo(o) ==
    /\ op[o].pc = "undo"
    /\ \/ DeleteObject(op[o].name)
       \/ "ds" \in Faults /\ UNCHANGED object
    /\ Finish(o)
    /\ UNCHANGED <<row, started, acked, expired, requested>>

-----------------------------------------------------------------------------
(* Removal, object first: expiry and max-views while serving, the          *)
(* deleteFiles and maxViews tasks, and the bulk delete.                    *)

(* The deadline passes, or the last permitted view is counted. *)
Expire(f) ==
    /\ row[f] # NoName
    /\ expired' = expired \union {f}
    /\ UNCHANGED <<row, object, started, acked, requested, op>>

(* Seeded bug: the SELECT of the task lost its WHERE. *)
ExpireBeginAll(o, f) ==
    /\ Reads(o, "expire", "dropObj", f, NoName, TRUE)
    /\ UNCHANGED <<row, object, started, acked, expired, requested>>

(* A task is strict: it leaves the row alone when the object could not be  *)
(* deleted and tries again at its next tick.                               *)
ExpireBegin(o, f) ==
    /\ f \in expired
    /\ Reads(o, "expire", "dropObj", f, NoName, TRUE)
    /\ UNCHANGED <<row, object, started, acked, expired, requested>>

(* A request for the file goes on to the row even so.                      *)
ServeBegin(o, f) ==
    /\ f \in expired
    /\ Reads(o, "serve", "dropObj", f, NoName, FALSE)
    /\ UNCHANGED <<row, object, started, acked, expired, requested>>

BulkBegin(o, f) ==
    /\ Reads(o, "bulk", "dropObj", f, NoName, FALSE)
    /\ requested' = requested \union {f}
    /\ UNCHANGED <<row, object, started, acked, expired>>

(* The bulk delete without delete_datasourceFiles keeps the object.        *)
DetachBegin(o, f) ==
    /\ Reads(o, "detach", "dropRow", f, NoName, FALSE)
    /\ requested' = requested \union {f}
    /\ UNCHANGED <<row, object, started, acked, expired>>

(* Seeded bug: deleting a missing object is an error. *)
DropObjectMissingIsError(o) ==
    /\ op[o].pc = "dropObj"
    /\ DeleteObject(op[o].name)
    /\ IF object[op[o].name] = NoFile THEN Finish(o) ELSE Goto(o, "dropRow")
    /\ UNCHANGED <<row, started, acked, expired, requested>>

DropObject(o) ==
    /\ op[o].pc = "dropObj"
    /\ DeleteObject(op[o].name)
    /\ Goto(o, "dropRow")
    /\ UNCHANGED <<row, started, acked, expired, requested>>

DropObjectFails(o) ==
    /\ "ds" \in Faults
    /\ op[o].pc = "dropObj"
    /\ IF op[o].strict THEN Finish(o) ELSE Goto(o, "dropRow")
    /\ UNCHANGED <<row, object, started, acked, expired, requested>>

DropRow(o) ==
    /\ op[o].pc = "dropRow"
    /\ DeleteRow(op[o].file)
    /\ Finish(o)
    /\ UNCHANGED <<object, started, acked, expired, requested>>

DropRowFails(o) ==
    /\ "db" \in Faults
    /\ op[o].pc = "dropRow"
    /\ Finish(o)
    /\ UNCHANGED <<row, object, started, acked, expired, requested>>

-----------------------------------------------------------------------------
(* Removal, row first: a user's delete, an admin's delete of a user with   *)
(* its files, a folder's cascade, clear_zeros.                             *)

DeleteBegin(o, f) ==
    /\ Reads(o, "delete", "rmRow", f, NoName, FALSE)
    /\ requested' = requested \union {f}
    /\ UNCHANGED <<row, object, started, acked, expired>>

RemoveRow(o) ==
    /\ op[o].pc = "rmRow"
    /\ DeleteRow(op[o].file)
    /\ Goto(o, "rmObj")
    /\ UNCHANGED <<object, started, acked, expired, requested>>

RemoveRowFails(o) ==
    /\ "db" \in Faults
    /\ op[o].pc = "rmRow"
    /\ Finish(o)
    /\ UNCHANGED <<row, object, started, acked, expired, requested>>

RemoveObject(o) ==
    /\ op[o].pc = "rmObj"
    /\ \/ DeleteObject(op[o].name)
       \/ "ds" \in Faults /\ UNCHANGED object
    /\ Finish(o)
    /\ UNCHANGED <<row, started, acked, expired, requested>>

-----------------------------------------------------------------------------
(* Rename: the object first, its failure only logged, then the row.        *)

RenameBegin(o, f, m) ==
    /\ Reads(o, "rename", IF m # EmptyName /\ m # row[f] THEN "move" ELSE "update",
             f, m, FALSE)
    /\ UNCHANGED <<row, object, started, acked, expired, requested>>

(* Local: os.Rename, atomic, replacing the target. *)
MoveLocal(o) ==
    /\ op[o].pc = "move"
    /\ Backend = "local"
    /\ object[op[o].name] # NoFile
    /\ object' = [object EXCEPT ![op[o].to] = object[op[o].name], ![op[o].name] = NoFile]
    /\ Goto(o, "update")
    /\ UNCHANGED <<row, started, acked, expired, requested>>

(* S3: CopyObject, then RemoveObject. *)
MoveCopy(o) ==
    /\ op[o].pc = "move"
    /\ Backend = "s3"
    /\ object[op[o].name] # NoFile
    /\ object' = [object EXCEPT ![op[o].to] = object[op[o].name]]
    /\ Goto(o, "moveDrop")
    /\ UNCHANGED <<row, started, acked, expired, requested>>

MoveDrop(o) ==
    /\ op[o].pc = "moveDrop"
    /\ \/ DeleteObject(op[o].name)
       \/ "ds" \in Faults /\ UNCHANGED object
    /\ Goto(o, "update")
    /\ UNCHANGED <<row, started, acked, expired, requested>>

MoveFails(o) ==
    /\ op[o].pc = "move"
    /\ "ds" \in Faults \/ object[op[o].name] = NoFile
    /\ Goto(o, "update")
    /\ UNCHANGED <<row, object, started, acked, expired, requested>>

(* Seeded bug: the update inserts a row that is gone. *)
RenameUpdateUpsert(o) ==
    /\ op[o].pc = "update"
    /\ row' = [row EXCEPT ![op[o].file] = op[o].to]
    /\ Finish(o)
    /\ UNCHANGED <<object, started, acked, expired, requested>>

(* UPDATE files SET name WHERE id: no effect when the row is gone.         *)
RenameUpdate(o) ==
    /\ op[o].pc = "update"
    /\ row' = IF row[op[o].file] = NoName THEN row
              ELSE [row EXCEPT ![op[o].file] = op[o].to]
    /\ Finish(o)
    /\ UNCHANGED <<object, started, acked, expired, requested>>

RenameUpdateFails(o) ==
    /\ "db" \in Faults
    /\ op[o].pc = "update"
    /\ Finish(o)
    /\ UNCHANGED <<row, object, started, acked, expired, requested>>

-----------------------------------------------------------------------------
(* requery_size with forceDelete: a row whose object's size cannot be had  *)
(* is deleted, whether the object is missing or the lookup failed.         *)

RequeryBegin(o, f) ==
    /\ Reads(o, "requery", "probe", f, NoName, FALSE)
    /\ UNCHANGED <<row, object, started, acked, expired, requested>>

RequeryMissing(o) ==
    /\ op[o].pc = "probe"
    /\ object[op[o].name] = NoFile \/ "ds" \in Faults
    /\ Goto(o, "dropRow")
    /\ UNCHANGED <<row, object, started, acked, expired, requested>>

RequeryPresent(o) ==
    /\ op[o].pc = "probe"
    /\ object[op[o].name] # NoFile
    /\ Finish(o)
    /\ UNCHANGED <<row, object, started, acked, expired, requested>>

-----------------------------------------------------------------------------
(* The process dies: the database and the datasource survive, goroutines   *)
(* do not.                                                                 *)
Crash ==
    /\ "crash" \in Faults
    /\ op # [o \in Op |-> Idle]
    /\ op' = [o \in Op |-> Idle]
    /\ UNCHANGED <<row, object, started, acked, expired, requested>>

Request(o) == \E f \in File :
    \/ UploadBegin(o, f)
    \/ ServeBegin(o, f)
    \/ BulkBegin(o, f)
    \/ DetachBegin(o, f)
    \/ DeleteBegin(o, f)
    \/ \E m \in NamesOf[f] : RenameBegin(o, f, m)
    \/ RequeryBegin(o, f)

Continues(o) ==
    \/ UploadPut(o) \/ UploadPutFails(o)
    \/ UploadInsert(o) \/ UploadInsertFails(o) \/ UploadUndo(o)
    \/ DropObject(o) \/ DropObjectFails(o) \/ DropRow(o) \/ DropRowFails(o)
    \/ RemoveRow(o) \/ RemoveRowFails(o) \/ RemoveObject(o)
    \/ MoveLocal(o) \/ MoveCopy(o) \/ MoveDrop(o) \/ MoveFails(o)
    \/ RenameUpdate(o) \/ RenameUpdateFails(o)
    \/ RequeryMissing(o) \/ RequeryPresent(o)

Next ==
    \/ \E o \in Op \ Tasks : Request(o)
    \/ \E t \in Tasks, f \in File : ExpireBegin(t, f)
    \/ \E o \in Op : Continues(o)
    \/ \E f \in File : Expire(f)
    \/ Crash

Spec == Init /\ [][Next]_vars

(* tasks.run calls a task at start-up and at every tick, and each call goes *)
(* over every target it selects; the storage and the database do not       *)
(* refuse for ever.                                                        *)
TaskFairness == \A t \in Tasks :
    /\ \A f \in File : SF_vars(ExpireBegin(t, f))
    /\ SF_vars(DropObject(t))
    /\ SF_vars(DropRow(t))
    /\ WF_vars(Continues(t))

FairSpec == Spec /\ TaskFairness

-----------------------------------------------------------------------------
(* Properties. *)

(* An uploader was told "stored": unless somebody became entitled to have  *)
(* the file removed, its row exists and its bytes are in the datasource,   *)
(* across crashes, failed calls and races.  (Upload stores, then records;  *)
(* only the removal paths delete.)                                         *)
AckedDurable == \A f \in acked \ condemned :
    /\ row[f] # NoName
    /\ \E n \in NamesOf[f] : object[n] = f

(* An object whose file has no row at that key belongs to a goroutine that *)
(* is about to insert the row or to delete the object.  (Upload's rollback *)
(* and the row-first deletes.)                                             *)
NoLeak == \A n \in Name : object[n] # NoFile =>
    \E f \in File :
        /\ object[n] = f
        /\ \/ row[f] = n
           \/ \E o \in Op : op[o].file = f /\ op[o].name = n
                            /\ op[o].pc \in {"insert", "undo", "rmObj"}

(* The deleteFiles and maxViews tasks erase a file completely: they never  *)
(* let go of the row while the object is still there.                      *)
ExpiryLeavesNothing == \A f \in expired :
    row[f] = NoName => \A n \in NamesOf[f] : object[n] # f

(* Every expired file is erased in the end, object and row, though each    *)
(* attempt may fail or die half way.                                       *)
ExpiredEventuallyErased == \A f \in File :
    []<>(f \in expired => row[f] = NoName /\ \A n \in NamesOf[f] : object[n] # f)

-----------------------------------------------------------------------------
(* What FileStore shows of FileCatalog's state. *)
Uploading(f) == \E o \in Op : op[o].file = f /\ op[o].pc \in {"put", "insert"}

Phase == [f \in File |->
    IF row[f] # NoName THEN "stored"
    ELSE IF f \notin started \/ Uploading(f) THEN "new" ELSE "gone"]

Catalog == INSTANCE FileCatalog WITH phase <- Phase

(* FileStore implements FileCatalog. *)
ImplementsCatalog == Catalog!CatalogSpec

-----------------------------------------------------------------------------
(* Why FileStore implements FileCatalog, and why an acknowledged file is   *)
(* durable: inductive invariants, each conjunct kept by every step from a  *)
(* state where all of them hold.                                           *)

(* Rows, acknowledgements and work are about files whose upload has begun. *)
KnownFiles ==
    /\ acked \subseteq started
    /\ \A f \in File : row[f] # NoName => f \in started
    /\ \A o \in Op : op[o].pc # "idle" =>
         /\ op[o].file \in started
         /\ op[o].pc \in {"move", "moveDrop", "update"} => op[o].to # NoName
         /\ op[o].pc # "probe"

(* Until its row is inserted a file is known to its uploader alone, and an *)
(* uploader that takes its object back never acknowledged it.              *)
UploaderAlone == \A o \in Op :
    /\ op[o].pc \in {"put", "insert"} =>
          /\ row[op[o].file] = NoName
          /\ \A p \in Op \ {o} : op[p].file # op[o].file
    /\ op[o].pc \in {"put", "insert", "undo"} => op[o].file \notin acked

(* Whoever is about to delete a row or an object is entitled to.           *)
RemoverEntitled == \A o \in Op :
    op[o].pc \in {"dropObj", "dropRow", "rmRow", "rmObj"} => op[o].file \in condemned

CatalogInv ==
    /\ TypeOK
    /\ KnownFiles
    /\ UploaderAlone
    /\ RemoverEntitled

(* No two files are given one name, but any may be renamed to the empty    *)
(* one; renames replace a name in one step, or are not in use; no requery. *)
DurableInstance ==
    /\ \A f, g \in File : f # g => NamesOf[f] \intersect NamesOf[g] \subseteq {EmptyName}
    /\ Backend = "local" \/ "rename" \notin Kinds
    /\ "requery" \notin Kinds

(* Rows and goroutines keep to the names given to their file.              *)
NamesOwned ==
    /\ \A f \in File : row[f] # NoName => row[f] \in NamesOf[f]
    /\ \A o \in Op : op[o].pc # "idle" =>
         /\ op[o].name \in NamesOf[op[o].file]
         /\ op[o].pc \in {"move", "update"} =>
               "rename" \in Kinds /\ op[o].to \in NamesOf[op[o].file]
         /\ op[o].pc = "move" => op[o].to \notin {EmptyName, op[o].name}
         /\ op[o].pc = "put" => op[o].name # EmptyName
         /\ op[o].pc # "moveDrop"

(* Nothing is stored under a file's names before its Put, its own bytes    *)
(* are after it, and never any other's once it is acknowledged.            *)
BytesOwned ==
    /\ object[EmptyName] = NoFile
    /\ \A f \in File \ started : \A n \in NamesOf[f] : object[n] = NoFile
    /\ \A f \in acked : \A n \in NamesOf[f] : object[n] \in {f, NoFile}
    /\ \A o \in Op :
         /\ op[o].pc = "put" => \A n \in NamesOf[op[o].file] : object[n] = NoFile
         /\ op[o].pc = "insert" =>
              /\ object[op[o].name] = op[o].file
              /\ \A n \in NamesOf[op[o].file] : object[n] \in {op[o].file, NoFile}

DurableInv ==
    /\ CatalogInv
    /\ NamesOwned
    /\ BytesOwned
    /\ AckedDurable
=============================================================================
