------------------------------ MODULE MCRequests ------------------------------
(***************************************************************************)
(* What stands between the routes and their callers: the chunks of an      *)
(* upload, and the rate limiter, one at a time.                            *)
(*                                                                         *)
(* One upload of a few chunks and two requests at once.  Either the client *)
(* is the web client, which sends each chunk once and in turn, and storage *)
(* is local; or chunks are sent at once, again and in any order,           *)
(* clear_temp runs, and storage checks the length.  The process may die in *)
(* both.                                                                   *)
(*                                                                         *)
(* Three keys and an exempt one, and two requests at once.  The table of   *)
(* the limiter has room for all keys, or is past its cap with the second.  *)
(***************************************************************************)
EXTENDS PartialUpload, TLC

CONSTANTS u1, r1, r2, k1, k2, k3, ke

CONSTANTS
    Key, Exempt, Burst, Cost, IdleTTL, PruneInterval, MaxWait, NoKey, NoVerdict,
    Room, Cap           \* how many entries the two tables may hold

VARIABLES instance, entries, level, idle, pruned, waiting, verdict

limiterVars == <<entries, level, idle, pruned, waiting, verdict>>
allVars == <<instance, vars, limiterVars>>

Patient == INSTANCE PartialUpload WITH
    MaxSends <- 1, InOrder <- TRUE, LengthChecked <- FALSE, Clearing <- FALSE

Checked == INSTANCE PartialUpload WITH
    InOrder <- FALSE, LengthChecked <- TRUE, Clearing <- TRUE

Roomy == INSTANCE RateLimiter WITH MaxEntries <- Room

Tight == INSTANCE RateLimiter WITH MaxEntries <- Cap

ASSUME TablesAssumption == Roomy!RateLimiterAssumption /\ Tight!RateLimiterAssumption

MCInit ==
    /\ instance \in {"patient", "checked", "roomy", "tight"}
    /\ Init /\ Tight!Init

MCNext ==
    /\ UNCHANGED instance
    /\ \/ instance = "patient" /\ Patient!Next /\ UNCHANGED limiterVars
       \/ instance = "checked" /\ Checked!Next /\ UNCHANGED limiterVars
       \/ instance = "roomy" /\ Roomy!Next /\ UNCHANGED vars
       \/ instance = "tight" /\ Tight!Next /\ UNCHANGED vars

MCSpec == MCInit /\ [][MCNext]_allVars

(* With room for every key the limiter answers as buckets kept for ever    *)
(* would; with too many keys it may forget them all, but nothing else.     *)
ImplementsBuckets ==
    /\ Tight!ImplementsBuckets
    /\ [][instance = "roomy" =>
            Roomy!Buckets!Next \/ UNCHANGED <<Roomy!Remembered, verdict>>]_allVars

Symmetry == Permutations({k1, k2}) \union Permutations(Request)
=============================================================================
