------------------------------- MODULE MCTasks -------------------------------
(***************************************************************************)
(* The process of the Go server.                                           *)
(*                                                                         *)
(* Its background goroutines together: the deleteFiles and maxViews tasks  *)
(* of FileStore and the scanner of Thumbnails, beside a handler that       *)
(* uploads.  Nothing is shared but the process: a crash ends them all.     *)
(*                                                                         *)
(* Its configuration: two settings, one of which an environment variable   *)
(* overrides; either PATCHes and setups come one at a time and calls to    *)
(* the database fail, or two of each overlap and none does.                *)
(***************************************************************************)
EXTENDS Settings, TLC

CONSTANTS
    OneKey, OtherKey, v1, v2, p1, p2, s1, s2,
    f1, a1, empty, upload, deleteFiles, maxViews, video, scan, jpg,
    NoFile, NoName, Torn, NoThumb

VARIABLES
    instance,
    row, object, started, acked, expired, requested, op,
    present, thumb, thumbObject, output, todo, stage

fileVars == <<row, object, started, acked, expired, requested, op>>
thumbVars == <<present, thumb, thumbObject, output, todo, stage>>
allVars == <<instance, vars, fileVars, thumbVars>>

Overlap == INSTANCE Settings WITH Val <- {v1}, Faults <- FALSE

ASSUME SettingsAssumption /\ Overlap!SettingsAssumption

Store == INSTANCE FileStore WITH
    File <- {f1}, Name <- {a1, empty}, EmptyName <- empty, NamesOf <- f1 :> {a1},
    Op <- {upload, deleteFiles, maxViews}, Tasks <- {deleteFiles, maxViews}, Backend <- "local",
    Kinds <- {"upload", "expire"}, Faults <- {"crash", "ds", "db", "ack"}

Thumbs == INSTANCE Thumbnails WITH
    Video <- {video}, Pass <- {scan}, Format <- {jpg}, FormatOf <- scan :> jpg,
    Threads <- 1, Faults <- {"crash", "ds", "db", "decode", "delete"},
    object <- thumbObject

MCInit ==
    /\ instance \in {"tasks", "alone", "overlap"}
    /\ Init /\ Store!Init /\ Thumbs!Init

TasksNext ==
    \/ Store!Next /\ UNCHANGED thumbVars
    \/ Thumbs!Next /\ UNCHANGED fileVars
    \/ Store!Crash /\ Thumbs!Crash

(* One request at a time.                                                  *)
OneAtATime == Next /\ work'[p2] = Idle /\ work'[s2] = Idle

MCNext ==
    /\ UNCHANGED instance
    /\ \/ instance = "tasks" /\ TasksNext /\ UNCHANGED vars
       \/ instance = "alone" /\ OneAtATime /\ UNCHANGED <<fileVars, thumbVars>>
       \/ instance = "overlap" /\ Overlap!Next /\ UNCHANGED <<fileVars, thumbVars>>

Fairness == instance = "tasks" => Store!TaskFairness /\ Thumbs!ScanFairness

MCSpec == MCInit /\ [][MCNext]_allVars /\ Fairness

(* Every expired file is erased in the end, object and row, though each    *)
(* attempt may fail or die half way; and no task lets go of the row while  *)
(* the object is still there.                                              *)
ExpiredErased ==
    /\ instance = "tasks" => Store!ExpiredEventuallyErased
    /\ []Store!ExpiryLeavesNothing

(* Every video that is not deleted gets a thumbnail, whatever fails or     *)
(* crashes on the way, as the scanner comes back to it.                    *)
EventuallyThumbnailed == instance = "tasks" => Thumbs!EventuallyThumbnailed
=============================================================================
