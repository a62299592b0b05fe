----------------------------- MODULE Thumbnails -----------------------------
(***************************************************************************)
(* Thumbnail generation.  A pass selects the videos that have no row in    *)
(* table "thumbnails" and works through them with a bounded pool of        *)
(* goroutines; each extracts a frame to a temporary file, stores it in the *)
(* datasource and inserts the row.  The background scanner runs one pass   *)
(* at a time; every POST /api/server/thumbnails runs a pass of its own     *)
(* beside it, over the same files.                                         *)
(***************************************************************************)
EXTENDS Naturals, FiniteSets

CONSTANTS
    Video,      \* files whose type is video/* and whose size is positive
    Pass,       \* passes that may run at once
    Format,     \* values of features.thumbnails.format
    FormatOf,   \* the format each pass was configured with
    Threads,    \* features.thumbnails.numThreads
    Faults,     \* what the environment may do wrong
    NoThumb

AllFaults == {"crash", "ds", "db", "decode", "delete"}

ASSUME ThumbnailsAssumption ==
    /\ FormatOf \in [Pass -> Format]
    /\ NoThumb \notin Format
    /\ Threads \in Nat \ {0}
    /\ Faults \subseteq AllFaults

VARIABLES
    present,    \* videos with a row in "files" (and their object)
    thumb,      \* format in thumbnails.path of each video's row, or NoThumb
    object,     \* thumbnail objects: <<video, format>>
    output,     \* frames extracted to the temporary directory, under the same name
    todo,       \* what a pass selected and has not dispatched
    stage       \* how far a pass's goroutine for a video is

vars == <<present, thumb, object, output, todo, stage>>

Stages == {"none", "extract", "read", "put", "insert", "drop"}

TypeOK ==
    /\ present \subseteq Video
    /\ thumb \in [Video -> Format \union {NoThumb}]
    /\ object \subseteq Video \X Format
    /\ output \subseteq Video \X Format
    /\ todo \in [Pass -> SUBSET Video]
    /\ stage \in [Pass -> [Video -> Stages]]

Init ==
    /\ present = Video
    /\ thumb = [v \in Video |-> NoThumb]
    /\ object = {}
    /\ output = {}
    /\ todo = [p \in Pass |-> {}]
    /\ stage = [p \in Pass |-> [v \in Video |-> "none"]]

Working(p) == {v \in Video : stage[p][v] # "none"}

(* ".thumbnail.<id>.<format>" and "zipfast-thumb-<id>.<format>".           *)
ThumbnailKey(p, v) == <<v, FormatOf[p]>>

Goto(p, v, s) == stage' = [stage EXCEPT ![p][v] = s]

(* generateOne returns: its deferred calls remove the temporary output.    *)
Return(p, v) ==
    /\ Goto(p, v, "none")
    /\ output' = output \ {ThumbnailKey(p, v)}

-----------------------------------------------------------------------------
(* Seeded bug: videos with a left-over temporary output are taken to be in *)
(* progress.                                                               *)
SelectSkipsLeftovers(p) ==
    /\ todo[p] = {} /\ Working(p) = {}
    /\ todo' = [todo EXCEPT ![p] = {v \in present : thumb[v] = NoThumb /\ ThumbnailKey(p, v) \notin output}]
    /\ todo'[p] # {}
    /\ UNCHANGED <<present, thumb, object, output, stage>>

(* A pass ends when its last goroutine does; the next selects afresh.      *)
Select(p) ==
    /\ todo[p] = {} /\ Working(p) = {}
    /\ todo' = [todo EXCEPT ![p] = {v \in present : thumb[v] = NoThumb}]
    /\ todo'[p] # {}
    /\ UNCHANGED <<present, thumb, object, output, stage>>

Dispatch(p, v) ==
    /\ v \in todo[p]
    /\ Cardinality(Working(p)) < Threads
    /\ todo' = [todo EXCEPT ![p] = @ \ {v}]
    /\ Goto(p, v, "extract")
    /\ UNCHANGED <<present, thumb, object, output>>

(* A video deleted since it was selected has no source any more.           *)
Extract(p, v) ==
    /\ stage[p][v] = "extract"
    /\ IF v \in present
       THEN Goto(p, v, "read") /\ output' = output \union {ThumbnailKey(p, v)}
       ELSE Return(p, v)
    /\ UNCHANGED <<present, thumb, object, todo>>

ExtractFails(p, v) ==
    /\ Faults \intersect {"ds", "decode"} # {}
    /\ stage[p][v] = "extract"
    /\ Return(p, v)
    /\ UNCHANGED <<present, thumb, object, todo>>

(* The output's name is the same for every pass with this format: another  *)
(* goroutine on this video may have removed it.                            *)
Read(p, v) ==
    /\ stage[p][v] = "read"
    /\ IF ThumbnailKey(p, v) \in output
       THEN Goto(p, v, "put") /\ UNCHANGED output
       ELSE Return(p, v)
    /\ UNCHANGED <<present, thumb, object, todo>>

Put(p, v) ==
    /\ stage[p][v] = "put"
    /\ object' = object \union {ThumbnailKey(p, v)}
    /\ Goto(p, v, "insert")
    /\ UNCHANGED <<present, thumb, output, todo>>

(* Seeded bug: the error of Put is ignored. *)
PutFailsIgnored(p, v) ==
    /\ "ds" \in Faults
    /\ stage[p][v] = "put"
    /\ Goto(p, v, "insert")
    /\ UNCHANGED <<present, thumb, object, output, todo>>

PutFails(p, v) ==
    /\ "ds" \in Faults
    /\ stage[p][v] = "put"
    /\ Return(p, v)
    /\ UNCHANGED <<present, thumb, object, todo>>

(* INSERT ... ON CONFLICT (file_id) DO NOTHING inserted the row.           *)
Insert(p, v) ==
    /\ stage[p][v] = "insert"
    /\ v \in present
    /\ thumb[v] = NoThumb
    /\ thumb' = [thumb EXCEPT ![v] = FormatOf[p]]
    /\ Return(p, v)
    /\ UNCHANGED <<present, object, todo>>

(* It did not: the video is gone (foreign key), has its row already, or    *)
(* the database failed.                                                    *)
InsertRefused(p, v) ==
    /\ stage[p][v] = "insert"
    /\ v \notin present \/ thumb[v] # NoThumb \/ "db" \in Faults
    /\ Goto(p, v, "drop")
    /\ UNCHANGED <<present, thumb, object, output, todo>>

DropObject(p, v) ==
    /\ stage[p][v] = "drop"
    /\ \/ object' = object \ {ThumbnailKey(p, v)}
       \/ "ds" \in Faults /\ UNCHANGED object
    /\ Return(p, v)
    /\ UNCHANGED <<present, thumb, todo>>

-----------------------------------------------------------------------------
(* The video is deleted; its thumbnail's row goes with it (ON DELETE       *)
(* CASCADE).  No handler deletes the thumbnail's object.                   *)
DeleteVideo(v) ==
    /\ "delete" \in Faults
    /\ v \in present
    /\ present' = present \ {v}
    /\ thumb' = [thumb EXCEPT ![v] = NoThumb]
    /\ UNCHANGED <<object, output, todo, stage>>

(* Goroutines die; the temporary outputs stay behind.                      *)
Crash ==
    /\ "crash" \in Faults
    /\ todo' = [p \in Pass |-> {}]
    /\ stage' = [p \in Pass |-> [v \in Video |-> "none"]]
    /\ UNCHANGED <<present, thumb, object, output>>

GenerateOne(p, v) ==
    \/ Extract(p, v) \/ ExtractFails(p, v) \/ Read(p, v)
    \/ Put(p, v) \/ PutFails(p, v)
    \/ Insert(p, v) \/ InsertRefused(p, v) \/ DropObject(p, v)

Next ==
    \/ \E p \in Pass : Select(p) \/ \E v \in Video : Dispatch(p, v) \/ GenerateOne(p, v)
    \/ \E v \in Video : DeleteVideo(v)
    \/ Crash

Spec == Init /\ [][Next]_vars

(* The scanner selects at every tick, the pool dispatches while it has a   *)
(* free slot, no call hangs, and no step fails or is cut short by a crash   *)
(* every time it is tried.                                                 *)
ScanFairness == \A p \in Pass :
    /\ SF_vars(Select(p))
    /\ \A v \in Video :
        /\ SF_vars(Dispatch(p, v))
        /\ SF_vars(Extract(p, v))
        /\ SF_vars(Read(p, v))
        /\ SF_vars(Put(p, v))
        /\ SF_vars(Insert(p, v))
        /\ WF_vars(GenerateOne(p, v))

FairSpec == Spec /\ ScanFairness

-----------------------------------------------------------------------------
(* A thumbnail the database points to can be served: its object exists.    *)
(* (What streamThumbnail relies on; a duplicate's object is dropped "so it *)
(* isn't orphaned", which must not drop the one in use.)                   *)
RowHasObject == \A v \in Video : thumb[v] # NoThumb => <<v, thumb[v]>> \in object

(* Every video that is not deleted gets a thumbnail, whatever fails or     *)
(* crashes on the way, as the scanner comes back to it.                    *)
EventuallyThumbnailed == \A v \in Video :
    []<>(v \in present => thumb[v] # NoThumb /\ <<v, thumb[v]>> \in object)
=============================================================================
