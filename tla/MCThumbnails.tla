----------------------------- MODULE MCThumbnails -----------------------------
(***************************************************************************)
(* What follows a stored upload: small instances of Thumbnails, of         *)
(* ThumbnailPool and of Notices side by side, one of which takes steps.    *)
(***************************************************************************)
EXTENDS Thumbnails, Sequences, TLC

CONSTANTS
    v1, v2, scan, manual, jpg, webp,
    NVideos, PoolThreads, NWorkers, NBatches, PoolScene    \* the pool of zipline

VARIABLE instance

-----------------------------------------------------------------------------
(* zipfast: the scanner, and a pass that a POST started after the format   *)
(* was changed.                                                            *)
FormatChanged == scan :> jpg @@ manual :> webp

(* Both passes, one goroutine each, under every fault.                     *)
Faulty == INSTANCE Thumbnails WITH Threads <- 1, Faults <- AllFaults

(* Both passes with two goroutines; the datasource answers, no crash.      *)
Quiet == INSTANCE Thumbnails WITH Threads <- 2, Faults <- {"db", "decode", "delete"}

-----------------------------------------------------------------------------
(* zipline: the pool of worker threads.                                    *)
VARIABLES poolScene, file, thumbRow, thumbObject, pool, alive, kill, failed, exited, busy, timer, batch,
          cleaner, faults, reruns, cleans, died

poolVars == <<poolScene, file, thumbRow, thumbObject, pool, alive, kill, failed, exited, busy, timer, batch,
              cleaner, faults, reruns, cleans, died>>

Pool == INSTANCE ThumbnailPool WITH
    Threads <- PoolThreads, scene <- poolScene, thumb <- thumbRow, object <- thumbObject

ASSUME PoolAssumption == Pool!ThumbnailPoolAssumption

(* A file is deleted while two threads work and the cleaning runs; ffmpeg  *)
(* cannot read one video of three; a worker dies; there is nothing to do.  *)
PoolSituation(videos, unreadable, may, r, c, n) ==
    [videos |-> videos, bad |-> unreadable, may |-> may, faults |-> 1, reruns |-> r, cleans |-> c,
     batches |-> n]
NoVideos == PoolSituation({}, {}, {}, 0, 0, 0)
PoolSituations ==
    {PoolSituation({1, 2}, {}, {"delete"}, 0, 1, 2), PoolSituation({1, 2, 3}, {1}, {}, 1, 0, 3),
     PoolSituation({1, 2}, {}, {"death"}, 1, 0, 2), NoVideos}

-----------------------------------------------------------------------------
(* Either server: the webhooks and the visitor's page.                     *)
VARIABLES host, template, value, answer, discord, http, visit, frames, said, running

noticeVars == <<host, template, value, answer, discord, http, visit, frames, said, running>>

(* Templates, and what their holes stand for.                              *)
T(t) == [is |-> "text", say |-> t]
H(p) == [is |-> "hole", of |-> p, mod |-> "none"]
Length(p) == [is |-> "hole", of |-> p, mod |-> "length"]
Exists(p, yes, no) == <<[is |-> "open", of |-> p]>> \o yes \o <<[is |-> "middle"]>>
                          \o no \o <<[is |-> "close"]>>
Is(s) == [kind |-> "text", is |-> s]
Be(k) == [kind |-> k]

Properties == {"name", "user", "size", "link"}
Templates ==
    {<<T("a"), H("name")>>, <<H("size"), H("user")>>, <<Length("name"), T("a")>>,
     Exists("name", <<H("user")>>, <<T("b")>>) \o <<H("size")>>,
     Exists("name", <<H("name")>> \o Exists("user", <<T("c"), H("size")>>, <<T("d")>>) \o <<T("e")>>,
            <<H("size")>>),
     Exists("name", <<T("a")>>, Exists("user", <<H("size")>>, <<>>) \o <<T("b")>>)}

(* A name may hold a hole for the user, and the user's name one for the    *)
(* size, but not the other way round.                                      *)
Meaning(n, u, z) ==
    ("name" :> n) @@ ("user" :> u) @@ ("size" :> z) @@ ("link" :> Is(<<T("l")>>))

Meanings ==
    {Meaning(Is(<<T("n")>>), Is(<<T("u")>>), Be("number")),
     Meaning(Is(<<H("user"), T("n")>>), Is(<<H("size")>>), Be("number")),
     Meaning(Is(<<>>), Is(<<T("u")>>), Be("unknown")),
     Meaning(Be("null"), Be("absent"), Be("number")),
     Meaning(Be("undecodable"), Be("secret"), Be("unknown"))}

No == INSTANCE Notices WITH
    Notified <- {"zipline", "zipfast"}, Prop <- Properties, Template <- Templates, Values <- Meanings,
    Depth <- 4, alive <- running

ASSUME No!NoticesAssumption

-----------------------------------------------------------------------------
Zipfast == {"faulty", "quiet"}

-----------------------------------------------------------------------------
(* What belongs to a part that is not looked at does not matter.           *)
MCInit ==
    /\ instance \in Zipfast \union {"pool", "notices"}
    /\ Init /\ Pool!Init /\ No!Init
    /\ (instance # "pool") = (poolScene = NoVideos)
    /\ instance # "notices" =>
        /\ host = "zipfast" /\ template = CHOOSE t \in Templates : TRUE
        /\ value = CHOOSE v \in Meanings : TRUE

ZipfastNext ==
    /\ UNCHANGED <<instance, poolVars, noticeVars>>
    /\ \/ instance = "faulty" /\ Faulty!Next
       \/ instance = "quiet" /\ Quiet!Next

PoolNext == instance = "pool" /\ Pool!Next /\ UNCHANGED <<instance, vars, noticeVars>>

NoticesNext == instance = "notices" /\ No!Next /\ UNCHANGED <<instance, vars, poolVars>>

mcVars == <<vars, instance, poolVars, noticeVars>>

MCSpec ==
    MCInit /\ [][ZipfastNext \/ PoolNext \/ NoticesNext]_mcVars /\ Pool!Fairness /\ No!Fairness

-----------------------------------------------------------------------------
(* While no worker dies, the pool's count is that of its batches, an idle  *)
(* pool is about to be shut down, and no worker is asked to exit while it  *)
(* has work.                                                               *)
PoolKnowsWork == Pool!TypeOK /\ Pool!PoolKnowsWork

(* What zipline says of an upload is what its template means.              *)
SaidRight == No!SaidRight

(* Every rendering ends, and what an upload or a visit started is answered *)
(* unless the process ends.  A video gets its thumbnail in the reference   *)
(* server, whatever deletions, reruns, cleaning and deaths of workers go   *)
(* on and though the server may end over it, if ffmpeg can read it and     *)
(* fewer videos than threads cannot be read.                               *)
FollowUpsEnd == Pool!EveryVideoServed /\ No!NoticesEnd
=============================================================================
