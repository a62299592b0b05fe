----------------------------- MODULE UserExports -----------------------------
(***************************************************************************)
(* A user's exports of all files as one zip in the temp directory, which   *)
(* clear_temp empties.  zipline records the export first, writes the zip   *)
(* after the request has been answered, and completes the record when the  *)
(* zip is closed; zipfast writes the zip within the request and records it *)
(* when it is whole.  A deletion takes the zip first on zipline and the    *)
(* record first on zipfast.  The settings page lists exports as they were  *)
(* at its last poll, and lets any of them be deleted, finished or not.     *)
(***************************************************************************)
EXTENDS Naturals, FiniteSets

CONSTANTS
    Servers,    \* "zipline", the TypeScript server, and "zipfast", the Go server
    File, Export,
    None

UserExportsAssumption ==
    /\ Servers \subseteq {"zipline", "zipfast"}
    /\ IsFiniteSet(File) /\ \A value \in {"running", "done"} \union SUBSET File : value # None

VARIABLES
    server,
    objects,    \* files of the user, with a row and an object
    record,     \* the rows: None, running or done
    zip,        \* the files that were written for an export
    disk,       \* exports whose zip is in the temp directory
    making,     \* exports being written: the files still to go through, or None
    removing,   \* exports in the middle of their deletion
    sweep,      \* exports whose zip clear_temp has found
    up,         \* whether the server runs
    shown,      \* what the page lists
    stayed,     \* the files that have been there since an export began, and were not unreadable
    taken       \* exports whose zip a deletion or clear_temp removed

vars == <<server, objects, record, zip, disk, making, removing, sweep, up, shown, stayed, taken>>

Init ==
    /\ server \in Servers
    /\ objects = File
    /\ record = [e \in Export |-> None] /\ shown = record
    /\ zip = [e \in Export |-> {}] /\ stayed = zip
    /\ disk = {} /\ removing = {} /\ sweep = {} /\ taken = {}
    /\ making = record
    /\ up = TRUE

Started(e) == record[e] # None \/ making[e] # None \/ stayed[e] # {} \/ e \in disk \union taken

(* What ends with the process: whatever it was doing, but not what is in   *)
(* the temp directory or in the database.                                  *)
Dies ==
    /\ up' = FALSE
    /\ making' = [e \in Export |-> None]
    /\ removing' = {} /\ sweep' = {}

-----------------------------------------------------------------------------
(* POST: the files are listed; zipline records the export before the zip   *)
(* is opened.                                                              *)
Begin(e) ==
    /\ up /\ ~Started(e)
    /\ server = "zipline" => objects # {}
    /\ making' = [making EXCEPT ![e] = objects]
    /\ stayed' = [stayed EXCEPT ![e] = objects]
    /\ disk' = disk \union {e}
    /\ record' = [record EXCEPT ![e] = IF server = "zipline" THEN "running" ELSE @]
    /\ UNCHANGED <<server, objects, zip, removing, sweep, up, shown, taken>>

(* A file whose object is gone by now is skipped. *)
AddFile(e, f) ==
    /\ making[e] \notin {None, {}} /\ f \in making[e]
    /\ making' = [making EXCEPT ![e] = @ \ {f}]
    /\ zip' = [zip EXCEPT ![e] = @ \union ({f} \intersect objects)]
    /\ UNCHANGED <<server, objects, record, disk, removing, sweep, up, shown, stayed, taken>>

(* A file the datasource fails to read, or to read to its end, is logged   *)
(* and passed over, and the export goes on.                                *)
SkipUnread(e, f) ==
    /\ making[e] \notin {None, {}} /\ f \in making[e]
    /\ making' = [making EXCEPT ![e] = @ \ {f}]
    /\ stayed' = [stayed EXCEPT ![e] = @ \ {f}]
    /\ UNCHANGED <<server, objects, record, zip, disk, removing, sweep, up, shown, taken>>

(* zipline, when the stream is closed: the size is taken from the file and *)
(* written to the row.  If either is gone, nobody handles the rejection    *)
(* and the process ends.                                                   *)
CloseZip(e) ==
    /\ server = "zipline" /\ making[e] = {}
    /\ IF e \in disk /\ record[e] = "running"
         THEN /\ record' = [record EXCEPT ![e] = "done"]
              /\ making' = [making EXCEPT ![e] = None]
              /\ UNCHANGED <<removing, sweep, up>>
         ELSE record' = record /\ Dies
    /\ UNCHANGED <<server, objects, zip, disk, shown, stayed, taken>>

(* zipfast, when the archive is closed: the row is inserted ... *)
Insert(e) ==
    /\ server = "zipfast" /\ making[e] = {}
    /\ record' = [record EXCEPT ![e] = "done"]
    /\ making' = [making EXCEPT ![e] = None]
    /\ UNCHANGED <<server, objects, zip, disk, removing, sweep, up, shown, stayed, taken>>

(* ... or, where that fails or the client has gone, the zip is removed. *)
InsertFails(e) ==
    /\ server = "zipfast" /\ making[e] = {}
    /\ disk' = disk \ {e}
    /\ making' = [making EXCEPT ![e] = None]
    /\ UNCHANGED <<server, objects, record, zip, removing, sweep, up, shown, stayed, taken>>

-----------------------------------------------------------------------------
(* DELETE of an export that was listed: one that is gone is an error.  The *)
(* page names it in the query, as zipline expects; zipfast in the path.    *)
Delete(e) ==
    /\ up /\ shown[e] # None /\ record[e] # None /\ e \notin removing
    /\ IF server = "zipline"
         THEN disk' = disk \ {e} /\ taken' = taken \union {e} /\ record' = record
         ELSE record' = [record EXCEPT ![e] = None] /\ UNCHANGED <<disk, taken>>
    /\ removing' = removing \union {e}
    /\ UNCHANGED <<server, objects, zip, making, sweep, up, shown, stayed>>

(* Its second half. *)
Deleted(e) ==
    /\ e \in removing
    /\ removing' = removing \ {e}
    /\ record' = [record EXCEPT ![e] = None]
    /\ disk' = disk \ {e} /\ taken' = taken \union {e}
    /\ UNCHANGED <<server, objects, zip, making, sweep, up, shown, stayed>>

(* clear_temp reads the directory and removes what it found, one by one;   *)
(* zipline ends at one that is gone, zipfast goes on.                      *)
ClearTemp ==
    /\ up /\ sweep = {} /\ disk # {}
    /\ sweep' = disk
    /\ UNCHANGED <<server, objects, record, zip, disk, making, removing, up, shown, stayed, taken>>

ClearOne(e) ==
    /\ e \in sweep
    /\ sweep' = IF e \notin disk /\ server = "zipline" THEN {} ELSE sweep \ {e}
    /\ disk' = disk \ {e}
    /\ taken' = taken \union ({e} \intersect disk)
    /\ UNCHANGED <<server, objects, record, zip, making, removing, up, shown, stayed>>

DeleteFile(f) ==
    /\ up /\ f \in objects
    /\ objects' = objects \ {f}
    /\ stayed' = [e \in Export |-> stayed[e] \ {f}]
    /\ UNCHANGED <<server, record, zip, disk, making, removing, sweep, up, shown, taken>>

(* The page polls. *)
Poll ==
    /\ up /\ shown # record
    /\ shown' = record
    /\ UNCHANGED <<server, objects, record, zip, disk, making, removing, sweep, up, stayed, taken>>

Crash == up /\ Dies /\ UNCHANGED <<server, objects, record, zip, disk, shown, stayed, taken>>

Restart ==
    /\ ~up /\ up' = TRUE
    /\ UNCHANGED <<server, objects, record, zip, disk, making, removing, sweep, shown, stayed, taken>>

Next ==
    \/ \E e \in Export : Begin(e) \/ CloseZip(e) \/ Insert(e) \/ InsertFails(e)
                           \/ Delete(e) \/ Deleted(e) \/ ClearOne(e)
    \/ \E e \in Export, f \in File : AddFile(e, f) \/ SkipUnread(e, f)
    \/ \E f \in File : DeleteFile(f)
    \/ ClearTemp \/ Poll \/ Crash \/ Restart

Spec == Init /\ [][Next]_vars

-----------------------------------------------------------------------------
(* An export that is done can be downloaded, and holds every file that has *)
(* been there all along but those that could not be read, unless its zip   *)
(* was removed on purpose; and on zipline no zip is without its record.    *)
ExportServed == \A e \in Export :
    /\ record[e] = "done" /\ e \in disk => stayed[e] \subseteq zip[e]
    /\ record[e] = "done" /\ e \notin disk => e \in taken
    /\ server = "zipline" /\ e \in disk => record[e] # None
=============================================================================
