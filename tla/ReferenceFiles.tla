---------------------------- MODULE ReferenceFiles ----------------------------
(***************************************************************************)
(* Files in the TypeScript server.  Unlike the Go server (FileStore) it    *)
(* creates the row of an upload before it stores the object, compares a    *)
(* name with the names in use before it takes it, and a deletion by id     *)
(* deletes the object under the name the row had at that moment.           *)
(***************************************************************************)
EXTENDS Naturals, FiniteSets

CONSTANTS
    File,       \* ids, each used by one upload of one user
    Name,       \* names, and keys of the datasource
    Op,         \* requests and tasks at work at once
    MaxFiles,   \* the quota of the user, BY_FILES
    NoFile, NoName

ASSUME ReferenceFilesAssumption ==
    /\ IsFiniteSet(File) /\ IsFiniteSet(Op) /\ Op # {}
    /\ MaxFiles \in Nat
    /\ NoFile \notin File /\ NoName \notin Name

VARIABLES
    row,        \* the name of each file, NoName when it has no row
    object,     \* whose bytes are stored under a name
    started,    \* files whose upload has begun
    acked,      \* files whose upload was answered with success
    condemned,  \* files somebody asked to remove, or that are past their time
    contested,  \* files whose name was taken while a request held it, or never compared
    disturbed,  \* files whose requests crossed or failed, or whose object stays behind
    op,         \* what each request is doing
    datasource  \* where the server is configured to keep objects

vars == <<row, object, started, acked, condemned, contested, disturbed, op, datasource>>

Steps == {"name", "create", "put", "rmRow", "rmObj", "dropObj", "dropRow", "purgeRow",
          "move", "erase", "update", "probe"}
Idle == [pc |-> "idle"]
Busy == [pc: Steps, file: File, name: Name \union {NoName}, to: Name \union {NoName},
         strict: BOOLEAN]

TypeOK ==
    /\ row \in [File -> Name \union {NoName}]
    /\ object \in [Name -> File \union {NoFile}]
    /\ acked \subseteq started /\ started \subseteq File
    /\ condemned \subseteq File /\ contested \subseteq File /\ disturbed \subseteq File
    /\ op \in [Op -> Busy \union {Idle}]
    /\ datasource \in {"local", "s3"}

Init ==
    /\ row = [f \in File |-> NoName]
    /\ object = [n \in Name |-> NoFile]
    /\ started = {} /\ acked = {} /\ condemned = {} /\ contested = {} /\ disturbed = {}
    /\ op = [o \in Op |-> Idle]
    /\ datasource \in {"local", "s3"}

Rows == {f \in File : row[f] # NoName}
Named(n) == {f \in File : row[f] = n}
Working(f) == {o \in Op : op[o] # Idle /\ op[o].file = f}

(* Files whose requests, other than o, have read or chosen name n.         *)
Holding(o, n) == {op[p].file : p \in {q \in Op \ {o} : op[q] # Idle /\ n \in {op[q].name, op[q].to}}}

(* Request o puts file f, its row or its bytes, under name n.              *)
Contest(o, f, n) ==
    LET others == Holding(o, n) \ {f} IN
    contested' = IF others = {} THEN contested ELSE contested \union others \union {f}

(* Requests at work on f that act on the name they have read: all but a    *)
(* deletion by id that has not deleted the row.                            *)
Committed(f) == {o \in Working(f) : op[o].pc # "rmRow"}

Disturbs(o, f) == disturbed' = IF Committed(f) \ {o} = {} THEN disturbed ELSE disturbed \union {f}

Start(o, pc, f, n, to, strict) ==
    /\ op[o] = Idle
    /\ op' = [op EXCEPT ![o] = [pc |-> pc, file |-> f, name |-> n, to |-> to, strict |-> strict]]

Goto(o, pc) == op' = [op EXCEPT ![o].pc = pc]
Finish(o) == op' = [op EXCEPT ![o] = Idle]
Disturb(o) == disturbed' = disturbed \union {op[o].file}

(* A handler reads the row of f and keeps its name.                        *)
Reads(o, pc, f, to, strict) ==
    /\ row[f] # NoName
    /\ Start(o, pc, f, row[f], to, strict)
    /\ Disturbs(o, f)

-----------------------------------------------------------------------------
(* Upload: the quota, then a name nobody has, then the row, then the       *)
(* object.                                                                 *)

(* Seeded bug: the file about to be uploaded is not counted. *)
CheckQuotaShort(o, f) ==
    /\ f \notin started
    /\ Cardinality(Rows) <= MaxFiles
    /\ Start(o, "name", f, NoName, NoName, FALSE)
    /\ started' = started \union {f}
    /\ UNCHANGED <<row, object, acked, condemned, contested, disturbed>>

CheckQuota(o, f) ==
    /\ f \notin started
    /\ Cardinality(Rows) + 1 <= MaxFiles
    /\ Start(o, "name", f, NoName, NoName, FALSE)
    /\ started' = started \union {f}
    /\ UNCHANGED <<row, object, acked, condemned, contested, disturbed>>

(* A random or dated name is drawn until no row has it; one the uploader   *)
(* chose is refused if a row has it (RequestFails).                        *)
GetFilename(o, n) ==
    /\ op[o].pc = "name"
    /\ Named(n) = {}
    /\ op' = [op EXCEPT ![o].pc = "create", ![o].name = n]
    /\ UNCHANGED <<row, object, started, acked, condemned, contested, disturbed>>

(* A name in use is kept where it is a uuid or made of words, which are    *)
(* drawn once, and where an image is compressed: the name compared has the *)
(* extension of the file sent, and the one stored that of the new format.  *)
UncheckedName(o, n) ==
    /\ op[o].pc = "name"
    /\ Named(n) # {}
    /\ op' = [op EXCEPT ![o].pc = "create", ![o].name = n]
    /\ contested' = contested \union Named(n) \union {op[o].file}
    /\ UNCHANGED <<row, object, started, acked, condemned, disturbed>>

CreateRow(o) ==
    /\ op[o].pc = "create"
    /\ row' = [row EXCEPT ![op[o].file] = op[o].name]
    /\ Contest(o, op[o].file, op[o].name)
    /\ Goto(o, "put")
    /\ UNCHANGED <<object, started, acked, condemned, disturbed>>

(* The upload is answered whatever became of the row meanwhile.            *)
PutObject(o) ==
    /\ op[o].pc = "put"
    /\ object' = [object EXCEPT ![op[o].name] = op[o].file]
    /\ acked' = acked \union {op[o].file}
    /\ Finish(o)
    /\ UNCHANGED <<row, started, condemned, contested, disturbed>>

(* S3: an error is logged and the put returns, so that the upload is       *)
(* answered without an object.                                             *)
PutObjectLost(o) ==
    /\ datasource = "s3" /\ op[o].pc = "put"
    /\ acked' = acked \union {op[o].file}
    /\ Finish(o)
    /\ Disturb(o)
    /\ UNCHANGED <<row, object, started, condemned, contested>>

-----------------------------------------------------------------------------
(* Deletion of one file: the row by id, then the object under the name of  *)
(* the deleted row.                                                        *)
DeleteFile(o, f) ==
    /\ row[f] # NoName
    /\ Start(o, "rmRow", f, row[f], NoName, TRUE)
    /\ condemned' = condemned \union {f}
    /\ UNCHANGED <<row, object, started, acked, contested, disturbed>>

(* Seeded bug: the name read before is kept. *)
DeleteRowStale(o) ==
    /\ op[o].pc = "rmRow"
    /\ row[op[o].file] # NoName
    /\ op' = [op EXCEPT ![o].pc = "rmObj"]
    /\ row' = [row EXCEPT ![op[o].file] = NoName]
    /\ Disturbs(o, op[o].file)
    /\ UNCHANGED <<object, started, acked, condemned, contested>>

DeleteRow(o) ==
    /\ op[o].pc = "rmRow"
    /\ row[op[o].file] # NoName
    /\ op' = [op EXCEPT ![o].pc = "rmObj", ![o].name = row[op[o].file]]
    /\ row' = [row EXCEPT ![op[o].file] = NoName]
    /\ Disturbs(o, op[o].file)
    /\ UNCHANGED <<object, started, acked, condemned, contested>>

(* The files of a user, or those an administrator saw to be empty: names   *)
(* read, rows deleted, objects deleted under the names read.               *)
Purge(o, f) ==
    /\ Reads(o, "purgeRow", f, NoName, TRUE)
    /\ condemned' = condemned \union {f}
    /\ UNCHANGED <<row, object, started, acked, contested>>

PurgeRow(o) ==
    /\ op[o].pc = "purgeRow"
    /\ row' = [row EXCEPT ![op[o].file] = NoName]
    /\ Goto(o, "rmObj")
    /\ UNCHANGED <<object, started, acked, condemned, contested, disturbed>>

DeleteObject(o) ==
    /\ op[o].pc = "rmObj"
    /\ object' = [object EXCEPT ![op[o].name] = NoFile]
    /\ Finish(o)
    /\ UNCHANGED <<row, started, acked, condemned, contested, disturbed>>

-----------------------------------------------------------------------------
(* Objects first: the bulk transaction, and the tasks and requests that    *)
(* find a file expired or viewed often enough.  The tasks go on to the     *)
(* rows whatever the datasource says (they are not strict).                *)
BulkDelete(o, f, objects) ==
    /\ row[f] # NoName
    /\ Start(o, IF objects THEN "dropObj" ELSE "dropRow", f, row[f], NoName, TRUE)
    /\ condemned' = condemned \union {f}
    /\ IF objects THEN Disturbs(o, f) ELSE disturbed' = disturbed \union {f}
    /\ UNCHANGED <<row, object, started, acked, contested>>

RemoveOnAccess(o, f) ==
    /\ Reads(o, "dropObj", f, NoName, TRUE)
    /\ condemned' = condemned \union {f}
    /\ UNCHANGED <<row, object, started, acked, contested>>

RemoveByTask(o, f) ==
    /\ Reads(o, "dropObj", f, NoName, FALSE)
    /\ condemned' = condemned \union {f}
    /\ UNCHANGED <<row, object, started, acked, contested>>

DropObject(o) ==
    /\ op[o].pc = "dropObj"
    /\ object' = [object EXCEPT ![op[o].name] = NoFile]
    /\ Goto(o, "dropRow")
    /\ UNCHANGED <<row, started, acked, condemned, contested, disturbed>>

(* The object stays: a task does not look, and S3 logs the error and       *)
(* returns.                                                                *)
DropObjectFails(o) ==
    /\ op[o].pc = "dropObj" /\ (~op[o].strict \/ datasource = "s3")
    /\ Goto(o, "dropRow")
    /\ Disturb(o)
    /\ UNCHANGED <<row, object, started, acked, condemned, contested>>

(* deleteMany, or a delete whose refusal is caught.                        *)
DropRow(o) ==
    /\ op[o].pc = "dropRow"
    /\ row' = [row EXCEPT ![op[o].file] = NoName]
    /\ Finish(o)
    /\ UNCHANGED <<object, started, acked, condemned, contested, disturbed>>

(* requery_size with forceDelete: the row of a file whose object is not    *)
(* there, which may be one that is being uploaded, is deleted.             *)
Requery(o, f) ==
    /\ Reads(o, "probe", f, NoName, TRUE)
    /\ UNCHANGED <<row, object, started, acked, condemned, contested>>

Probe(o) ==
    /\ op[o].pc = "probe"
    /\ IF object[op[o].name] = NoFile
       THEN Goto(o, "dropRow") /\ condemned' = condemned \union {op[o].file}
       ELSE Finish(o) /\ UNCHANGED condemned
    /\ UNCHANGED <<row, object, started, acked, contested, disturbed>>

(* S3: an object that could not be read passes for one that is not there.  *)
ProbeFails(o) ==
    /\ datasource = "s3" /\ op[o].pc = "probe"
    /\ Goto(o, "dropRow")
    /\ condemned' = condemned \union {op[o].file}
    /\ Disturb(o)
    /\ UNCHANGED <<row, object, started, acked, contested>>

-----------------------------------------------------------------------------
(* Rename: a name no other row has, then the object, then the row. *)

(* Seeded bug: names in use are not looked up. *)
RenameAnyway(o, f, n) ==
    /\ n # row[f]
    /\ Reads(o, "move", f, n, TRUE)
    /\ UNCHANGED <<row, object, started, acked, condemned, contested>>

Rename(o, f, n) ==
    /\ n # row[f] /\ Named(n) = {}
    /\ Reads(o, "move", f, n, TRUE)
    /\ UNCHANGED <<row, object, started, acked, condemned, contested>>

(* rename(2): a missing object is an error, an existing target is gone.    *)
MoveObject(o) ==
    /\ datasource = "local" /\ op[o].pc = "move"
    /\ object[op[o].name] # NoFile
    /\ object' = [object EXCEPT ![op[o].to] = object[op[o].name], ![op[o].name] = NoFile]
    /\ Goto(o, "update")
    /\ Contest(o, op[o].file, op[o].to)
    /\ UNCHANGED <<row, started, acked, condemned, disturbed>>

(* S3: the object is copied to its new key, and deleted under the old one. *)
CopyObject(o) ==
    /\ datasource = "s3" /\ op[o].pc = "move"
    /\ object[op[o].name] # NoFile
    /\ object' = [object EXCEPT ![op[o].to] = object[op[o].name]]
    /\ Goto(o, "erase")
    /\ Contest(o, op[o].file, op[o].to)
    /\ UNCHANGED <<row, started, acked, condemned, disturbed>>

EraseObject(o) ==
    /\ op[o].pc = "erase"
    /\ object' = [object EXCEPT ![op[o].name] = NoFile]
    /\ Goto(o, "update")
    /\ UNCHANGED <<row, started, acked, condemned, contested, disturbed>>

(* An object of more than 5 GB is copied in parts, and stays under the old *)
(* key as well.                                                            *)
CopyLargeObject(o) ==
    /\ datasource = "s3" /\ op[o].pc = "move"
    /\ object[op[o].name] # NoFile
    /\ object' = [object EXCEPT ![op[o].to] = object[op[o].name]]
    /\ Goto(o, "update")
    /\ Contest(o, op[o].file, op[o].to)
    /\ Disturb(o)
    /\ UNCHANGED <<row, started, acked, condemned>>

UpdateName(o) ==
    /\ op[o].pc = "update"
    /\ row[op[o].file] # NoName
    /\ row' = [row EXCEPT ![op[o].file] = op[o].to]
    /\ Contest(o, op[o].file, op[o].to)
    /\ Finish(o)
    /\ UNCHANGED <<object, started, acked, condemned, disturbed>>

-----------------------------------------------------------------------------
(* A refused check, a row that is gone, a failing datasource or database,  *)
(* or the death of the process: the request ends where it is.  (So does a  *)
(* deletion by id whose object S3 failed to delete, with success.)         *)
RequestFails(o) ==
    /\ op[o] # Idle
    /\ Finish(o)
    /\ Disturb(o)
    /\ UNCHANGED <<row, object, started, acked, condemned, contested>>

(* A request turns to a file, or goes on with the file it has.             *)
Begins(o, f) ==
    \/ CheckQuota(o, f) \/ DeleteFile(o, f) \/ Purge(o, f) \/ Requery(o, f)
    \/ RemoveOnAccess(o, f) \/ RemoveByTask(o, f)
    \/ \E b \in BOOLEAN : BulkDelete(o, f, b)
    \/ \E n \in Name : Rename(o, f, n)

Continues(o) ==
    \/ \E n \in Name : GetFilename(o, n) \/ UncheckedName(o, n)
    \/ CreateRow(o) \/ PutObject(o) \/ PutObjectLost(o)
    \/ DeleteRow(o) \/ PurgeRow(o) \/ DeleteObject(o)
    \/ DropObject(o) \/ DropObjectFails(o) \/ DropRow(o) \/ Probe(o) \/ ProbeFails(o)
    \/ MoveObject(o) \/ CopyObject(o) \/ EraseObject(o) \/ CopyLargeObject(o)
    \/ UpdateName(o) \/ RequestFails(o)

Next ==
    /\ UNCHANGED datasource
    /\ \E o \in Op : (\E f \in File : Begins(o, f)) \/ Continues(o)

Spec == Init /\ [][Next]_vars

-----------------------------------------------------------------------------
(* A file quota is overshot by no more than the uploads at work at once,   *)
(* less one: each counts the rows first and adds its own later.            *)
QuotaBounded == Cardinality(Rows) <= MaxFiles + Cardinality(Op) - 1

(* A file that was acknowledged and that nobody asked to remove has its    *)
(* row and its own bytes under the name in it, unless its name was         *)
(* contested, its requests crossed, one failed or, on S3, passed over a    *)
(* call of the datasource that failed, or a rename of it stands between    *)
(* object and row.                                                         *)
AckedServed == \A f \in acked \ (condemned \union contested \union disturbed) :
    \/ row[f] # NoName /\ object[row[f]] = f
    \/ \E o \in Working(f) : op[o].pc = "update" /\ object[op[o].to] = f

(* An object belongs to a row, or to a request at work on it, unless its   *)
(* name was contested, two requests had the file at once, one failed or    *)
(* passed over a failed call of the datasource, or the file has more than  *)
(* 5 GB and was renamed on S3.  (An upload whose row is deleted before the *)
(* object is stored leaves the object.)                                    *)
NothingLeft == \A n \in Name : object[n] # NoFile =>
    LET f == object[n] IN
        \/ f \in contested \union disturbed
        \/ row[f] = n
        \/ Working(f) # {}
=============================================================================
