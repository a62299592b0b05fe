------------------------------ MODULE MCDurable ------------------------------
(***************************************************************************)
(* The files of the Go server.  The first step of a behaviour chooses one  *)
(* of four instances of FileStore, which differ in the names a file may be *)
(* given, the goroutines that are tasks, the backend, the endpoints in use *)
(* and the faults, and the behaviour stays in it.                          *)
(***************************************************************************)
EXTENDS QuietStore, TLC

CONSTANTS f1, f2, a1, b1, a2, empty, o1, o2, t1

VARIABLE instance

Endpoints == {"upload", "delete", "expire", "serve", "bulk", "detach", "rename"}
TwoFilesNames == f1 :> {a1, b1, empty} @@ f2 :> {a2, empty}
OneFileNames == f1 :> {a1, b1, empty} @@ f2 :> {}
OneNameEach == f1 :> {a1} @@ f2 :> {a2}

(* Two request handlers and a task on one file that is renamed.            *)
Local == INSTANCE FileStore WITH NamesOf <- OneFileNames

(* One request handler, so that no two renames of a file overlap.          *)
S3 == INSTANCE FileStore WITH NamesOf <- OneFileNames, Tasks <- {o2, t1}, Backend <- "s3"

(* Two files under every fault; nothing is renamed.                        *)
Faulty == INSTANCE FileStore WITH
    NamesOf <- OneNameEach, Backend <- "s3", Kinds <- Endpoints \ {"rename"}

(* The datasource answers and the process stays up.                        *)
Quiet == INSTANCE FileStore WITH
    NamesOf <- OneNameEach, Backend <- "s3", Faults <- {"db"},
    Kinds <- {"upload", "delete", "expire", "serve", "bulk", "requery"}

-----------------------------------------------------------------------------
MCInit == Init /\ quiet = TRUE /\ instance \in {"local", "s3", "faulty", "quiet"}

MCNext ==
    /\ UNCHANGED instance
    /\ \/ instance = "local" /\ Local!Next
       \/ instance = "s3" /\ S3!Next
       \/ instance = "faulty" /\ Faulty!Next
       \/ instance = "quiet" /\ Quiet!Next
    /\ Watch

MCSpec == MCInit /\ [][MCNext]_<<instance, vars, quiet>>
=============================================================================
