---------------------------- MODULE ThumbnailPool ----------------------------
(***************************************************************************)
(* Thumbnails in the TypeScript server: a pool of worker threads, spawned  *)
(* when there are videos to work on and shut down when idle, which asks    *)
(* the main thread for its database queries, and the task that pairs the   *)
(* stored thumbnails with their rows again.  A query that the database     *)
(* refuses is a rejection nobody handles: it ends the server, which is     *)
(* started again.                                                          *)
(***************************************************************************)
EXTENDS Naturals, FiniteSets

CONSTANTS
    NVideos,    \* videos are numbered in the order the task finds them
    Threads,    \* features.thumbnails.num_threads
    NWorkers,   \* ids for worker threads
    NBatches,   \* ids for batches
    PoolScene   \* situations

Videos == 1..NVideos
Worker == 1..NWorkers
Batch == 1..NBatches

(* A situation: the videos, those ffmpeg cannot read, and what may happen: *)
(* the death of a worker or the deletion of a file, reruns and cleanings,  *)
(* how often, and how many batches at once (bounds).                       *)
ThumbnailPoolAssumption ==
    /\ NVideos \in Nat /\ Threads \in Nat \ {0} /\ NWorkers \in Nat /\ NBatches \in Nat
    /\ \A s \in PoolScene :
        /\ DOMAIN s = {"videos", "bad", "may", "faults", "reruns", "cleans", "batches"}
        /\ s.videos \subseteq Videos /\ s.bad \subseteq Videos /\ s.may \subseteq {"death", "delete"}
        /\ {s.faults, s.reruns, s.cleans} \subseteq Nat /\ s.batches \in 0..NBatches

VARIABLES
    scene,      \* the situation
    file,       \* videos with a row
    thumb,      \* videos with a row for their thumbnail
    object,     \* videos with a stored thumbnail
    pool,       \* workers of the pool
    alive,      \* worker threads that run
    kill,       \* workers asked to exit
    failed, exited,  \* workers whose error, or exit, the main thread has yet to see
    busy, timer,     \* the pool's count of batches, and whether its idle timer runs
    batch,      \* what each batch is at
    cleaner,    \* the cleaning task
    faults, reruns, cleans,  \* how many of each there were
    died        \* a worker died since the server started

poolVars == <<pool, kill, failed, exited, busy, timer, died>>
data == <<scene, file, thumb, object>>
counts == <<faults, reruns, cleans>>
vars == <<scene, file, thumb, object, pool, alive, kill, failed, exited, busy, timer, batch, cleaner,
          faults, reruns, cleans, died>>

Free == [pc |-> "free"]
Steps == {"next", "extract", "remove", "put", "look", "create", "update", "done"}
Quiet == [pc |-> "quiet"]

TypeOK ==
    /\ scene \in PoolScene
    /\ file \subseteq scene.videos /\ thumb \subseteq file /\ object \subseteq Videos
    /\ pool \subseteq Worker /\ alive \subseteq Worker /\ kill \subseteq alive
    /\ failed \subseteq Worker /\ exited \subseteq Worker
    /\ busy \in Nat /\ timer \in BOOLEAN /\ died \in BOOLEAN
    /\ \A b \in Batch : batch[b] = Free \/
        /\ batch[b].pc \in Steps /\ batch[b].worker \in Worker
        /\ batch[b].todo \subseteq Videos /\ batch[b].video \in Videos \union {0}
    /\ cleaner = Quiet \/
        /\ cleaner.pc \in {"rows", "objects", "records"}
        /\ cleaner.objects \subseteq Videos /\ cleaner.rows \subseteq Videos

Init ==
    /\ scene \in PoolScene
    /\ file = scene.videos /\ thumb = {} /\ object = {}
    /\ pool = {} /\ alive = {} /\ kill = {} /\ failed = {} /\ exited = {}
    /\ busy = 0 /\ timer = FALSE /\ died = FALSE
    /\ batch = [b \in Batch |-> Free]
    /\ cleaner = Quiet
    /\ faults = 0 /\ reruns = 0 /\ cleans = 0

Least(S) == CHOOSE v \in S : \A w \in S : v <= w
At(b, pc) == batch[b] # Free /\ batch[b].pc = pc
Running(b) == batch[b] # Free /\ batch[b].pc # "done"
Goto(b, pc) == batch' = [batch EXCEPT ![b].pc = pc]
Unseen == failed \union exited

-----------------------------------------------------------------------------
(* The pool, in the main thread. *)

(* The files are dealt out to the workers in turn.                         *)
Index(S, v) == Cardinality({w \in S : w < v})
Share(ids, workers, w) == {v \in ids : Index(ids, v) % Cardinality(workers) = Index(workers, w)}

(* Workers are spawned only for a pool that has none.                      *)
Spawned == CHOOSE S \in SUBSET (Worker \ (alive \union Unseen)) : Cardinality(S) = Threads

(* A message to a worker that has died is lost, and counted.               *)
Dispatch(ids) ==
    LET workers == IF pool = {} THEN Spawned ELSE pool
        given == {w \in workers : Share(ids, workers, w) # {}}
        free == {b \in 1..scene.batches : batch[b] = Free} IN
    /\ ids # {}
    /\ pool = {} => Cardinality(Worker \ (alive \union Unseen)) >= Threads
    /\ pool' = workers
    /\ alive' = IF pool = {} THEN alive \union workers ELSE alive
    /\ Cardinality(given) <= Cardinality(free)
    /\ pool \subseteq alive \/ busy < scene.batches  \* bound: messages lost on one death
    /\ batch' = [b \in Batch |->
        LET w == {x \in given \intersect alive' : Index(given, x) = Index(free, b)} IN
        IF b \notin free \/ w = {} THEN batch[b]
        ELSE [pc |-> "next", worker |-> Least(w), todo |-> Share(ids, workers, Least(w)), video |-> 0]]
    /\ busy' = busy + Cardinality(given)
    /\ timer' = FALSE

(* The task, at each interval and when the server starts: the videos that  *)
(* have no thumbnail, those under way included.                            *)
Task ==
    /\ Dispatch(file \ thumb)
    /\ UNCHANGED <<scene, file, thumb, object, kill, failed, exited, cleaner, counts, died>>

(* All of them, for an administrator.                                      *)
Rerun ==
    /\ reruns < scene.reruns /\ reruns' = reruns + 1
    /\ Dispatch(file)
    /\ UNCHANGED <<scene, file, thumb, object, kill, failed, exited, cleaner, faults, cleans, died>>

(* Seeded bug: nothing waits for the last batch. *)
OnBatchDoneForgets ==
    /\ busy' = IF busy = 0 THEN 0 ELSE busy - 1
    /\ timer' = timer

OnBatchDone ==
    /\ busy' = IF busy = 0 THEN 0 ELSE busy - 1
    /\ timer' = (timer \/ busy' = 0)

OnDone(b) ==
    /\ At(b, "done")
    /\ batch' = [batch EXCEPT ![b] = Free]
    /\ OnBatchDone
    /\ UNCHANGED <<scene, file, thumb, object, pool, alive, kill, failed, exited, cleaner, counts, died>>

(* The error of a worker counts as one batch done, its exit as none.       *)
OnError(w) ==
    /\ w \in failed
    /\ failed' = failed \ {w} /\ exited' = exited \union {w}
    /\ OnBatchDone
    /\ UNCHANGED <<data, pool, alive, kill, batch, cleaner, counts, died>>

OnExit(w) ==
    /\ w \in exited
    /\ exited' = exited \ {w}
    /\ pool' = pool \ {w}
    /\ UNCHANGED <<data, alive, kill, failed, busy, timer, batch, cleaner, counts, died>>

IdleTimer ==
    /\ timer /\ timer' = FALSE
    /\ kill' = kill \union (pool \intersect alive)
    /\ pool' = {} /\ busy' = 0
    /\ UNCHANGED <<data, alive, failed, exited, batch, cleaner, counts, died>>

-----------------------------------------------------------------------------
(* A worker: the files of a batch one by one, batches at the same time.    *)
Gone(w) == [b \in Batch |-> IF Running(b) /\ batch[b].worker = w THEN Free ELSE batch[b]]

Exit(w) ==
    /\ w \in kill
    /\ kill' = kill \ {w} /\ alive' = alive \ {w} /\ exited' = exited \union {w}
    /\ batch' = Gone(w)
    /\ UNCHANGED <<data, pool, failed, busy, timer, cleaner, counts, died>>

Death(w) ==
    /\ "death" \in scene.may /\ faults < scene.faults /\ faults' = faults + 1
    /\ w \in alive
    /\ alive' = alive \ {w} /\ kill' = kill \ {w} /\ failed' = failed \union {w}
    /\ batch' = Gone(w)
    /\ died' = TRUE
    /\ UNCHANGED <<data, pool, exited, busy, timer, cleaner, reruns, cleans>>

Work == <<poolVars, alive, cleaner, counts>>

NextFile(b) ==
    /\ At(b, "next")
    /\ IF batch[b].todo = {} THEN Goto(b, "done")
       ELSE LET v == Least(batch[b].todo) IN
            batch' = [batch EXCEPT ![b].todo = @ \ {v}, ![b].video = v,
                                   ![b].pc = IF v \in file THEN "extract" ELSE "next"]
    /\ UNCHANGED <<data, Work>>

(* A video that cannot be read ends its batch.                             *)
Extract(b) ==
    /\ At(b, "extract")
    /\ Goto(b, IF batch[b].video \in scene.bad THEN "done"
               ELSE IF batch[b].video \in object THEN "remove" ELSE "put")
    /\ UNCHANGED <<data, Work>>

RemoveOld(b) ==
    /\ At(b, "remove")
    /\ object' = object \ {batch[b].video}
    /\ Goto(b, "put")
    /\ UNCHANGED <<scene, file, thumb, Work>>

PutThumbnail(b) ==
    /\ At(b, "put")
    /\ object' = object \union {batch[b].video}
    /\ Goto(b, "look")
    /\ UNCHANGED <<scene, file, thumb, Work>>

Look(b) ==
    /\ At(b, "look")
    /\ Goto(b, IF batch[b].video \in thumb THEN "update" ELSE "create")
    /\ UNCHANGED <<data, Work>>

(* The server ends, with all its threads, and starts again.                *)
ServerEnds ==
    /\ pool' = {} /\ alive' = {} /\ kill' = {} /\ failed' = {} /\ exited' = {}
    /\ busy' = 0 /\ timer' = FALSE /\ died' = FALSE
    /\ batch' = [b \in Batch |-> Free]
    /\ cleaner' = Quiet
    /\ UNCHANGED <<data, counts>>

CreateRow(b) ==
    /\ At(b, "create")
    /\ IF batch[b].video \in file \ thumb
       THEN /\ thumb' = thumb \union {batch[b].video}
            /\ Goto(b, "next")
            /\ UNCHANGED <<scene, file, object, Work>>
       ELSE ServerEnds

UpdateRow(b) ==
    /\ At(b, "update")
    /\ IF batch[b].video \in thumb
       THEN Goto(b, "next") /\ UNCHANGED <<data, Work>>
       ELSE ServerEnds

-----------------------------------------------------------------------------
(* cleanThumbnails: lists the objects, then the rows; deletes the objects  *)
(* without a row, then the rows without an object.                         *)
ListObjects ==
    /\ cleaner = Quiet /\ cleans < scene.cleans /\ cleans' = cleans + 1
    /\ cleaner' = [pc |-> "rows", objects |-> object, rows |-> {}]
    /\ UNCHANGED <<data, poolVars, alive, batch, faults, reruns>>

ListRows ==
    /\ cleaner.pc = "rows"
    /\ cleaner' = [pc |-> "objects", objects |-> cleaner.objects \ thumb,
                   rows |-> thumb \ cleaner.objects]
    /\ UNCHANGED <<data, poolVars, alive, batch, counts>>

DeleteOrphan ==
    /\ cleaner.pc = "objects"
    /\ IF cleaner.objects = {} THEN cleaner' = [cleaner EXCEPT !.pc = "records"] /\ UNCHANGED object
       ELSE \E v \in cleaner.objects :
            cleaner' = [cleaner EXCEPT !.objects = @ \ {v}] /\ object' = object \ {v}
    /\ UNCHANGED <<scene, file, thumb, poolVars, alive, batch, counts>>

DeleteRecord ==
    /\ cleaner.pc = "records"
    /\ IF cleaner.rows = {} THEN cleaner' = Quiet /\ UNCHANGED thumb
       ELSE \E v \in cleaner.rows :
            cleaner' = [cleaner EXCEPT !.rows = @ \ {v}] /\ thumb' = thumb \ {v}
    /\ UNCHANGED <<scene, file, object, poolVars, alive, batch, counts>>

(* The row of the thumbnail goes with the file's, its object stays.        *)
DeleteFile(v) ==
    /\ "delete" \in scene.may /\ faults < scene.faults /\ faults' = faults + 1
    /\ v \in file
    /\ file' = file \ {v} /\ thumb' = thumb \ {v}
    /\ UNCHANGED <<scene, object, poolVars, alive, batch, cleaner, reruns, cleans>>

Step(b) == NextFile(b) \/ Extract(b) \/ RemoveOld(b) \/ PutThumbnail(b) \/ Look(b)
           \/ CreateRow(b) \/ UpdateRow(b)
Clean == ListObjects \/ ListRows \/ DeleteOrphan \/ DeleteRecord

Next ==
    \/ Task \/ Rerun \/ IdleTimer \/ Clean
    \/ \E b \in Batch : OnDone(b) \/ Step(b)
    \/ \E w \in Worker : OnError(w) \/ OnExit(w) \/ Exit(w) \/ Death(w)
    \/ \E v \in Videos : DeleteFile(v)

Spec == Init /\ [][Next]_vars

(* Threads and the event loop run, and the interval comes round.           *)
Fairness ==
    /\ WF_vars(Task) /\ WF_vars(Clean)
    /\ \A b \in Batch : WF_vars(OnDone(b)) /\ WF_vars(Step(b))
    /\ \A w \in Worker : WF_vars(OnError(w)) /\ WF_vars(OnExit(w)) /\ WF_vars(Exit(w))

FairSpec == Spec /\ Fairness

-----------------------------------------------------------------------------
(* While no worker dies, the pool's count is that of its batches, an idle  *)
(* pool is about to be shut down, and no worker is asked to exit while it  *)
(* has work.                                                               *)
PoolKnowsWork == ~died =>
    /\ busy = Cardinality({b \in Batch : batch[b] # Free})
    /\ pool # {} /\ busy = 0 => timer
    /\ \A b \in Batch : Running(b) => batch[b].worker \notin kill

(* A video gets its thumbnail, whatever deletions, rerun and cleaning go   *)
(* on and though the server may end over it, if ffmpeg can read it and     *)
(* fewer videos than threads cannot be read.                               *)
EveryVideoServed == \A v \in Videos :
    []<>(v \in scene.videos \ scene.bad => v \in thumb \/ v \notin file)
=============================================================================
