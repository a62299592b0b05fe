----------------------------- MODULE RateLimiter -----------------------------
(***************************************************************************)
(* The rate-limit middleware.  Its table holds a token bucket for each key *)
(* (identity, method and path) seen lately: a request for a key without an *)
(* entry starts with a full bucket, entries idle for longer than a time to *)
(* live are evicted now and then, and the table is emptied when it grows   *)
(* past a cap.  A request reads the clock before it waits for the mutex,   *)
(* and the table stores the time it read.                                  *)
(*                                                                         *)
(* Time is kept as ages: how many ticks ago a bucket was touched, the last *)
(* pruning happened, a waiting request read the clock.                     *)
(***************************************************************************)
EXTENDS Integers, FiniteSets

CONSTANTS
    Key,            \* identity|method|path
    Exempt,         \* those of allow-listed or bypassing identities, or of chunks
    Request,        \* goroutines serving requests
    Burst, Cost,    \* ratelimit.max, and the ticks that earn one token
    IdleTTL, PruneInterval, MaxEntries,
    MaxWait,        \* how long a request may wait for the mutex
    NoKey, NoVerdict

(* rlRate: Max events per Window, in ticks' worth of tokens.               *)
Full == Burst * Cost

RateLimiterAssumption ==
    /\ Burst \in Nat \ {0} /\ Cost \in Nat \ {0}
    /\ IdleTTL \in Nat /\ PruneInterval \in Nat /\ MaxEntries \in Nat /\ MaxWait \in Nat
    /\ Exempt \subseteq Key
    /\ IsFiniteSet(Key)
    /\ NoKey \notin Key

VARIABLES
    entries,    \* keys that have an entry
    level,      \* what the bucket of each entry holds now
    idle,       \* the age of its lastSeen
    pruned,     \* the age of lastPrune
    waiting,    \* the key a request waits to look up, and the age of its clock
    verdict     \* the answer given last

vars == <<entries, level, idle, pruned, waiting, verdict>>

NotWaiting == [key |-> NoKey, age |-> 0]

TypeOK ==
    /\ entries \subseteq Key
    /\ level \in [Key -> 0..Full]
    /\ idle \in [Key -> Nat]
    /\ pruned \in Nat
    /\ waiting \in [Request -> [key : Key, age : 0..MaxWait] \union {NotWaiting}]

Init ==
    /\ entries = {}
    /\ level = [k \in Key |-> Full]
    /\ idle = [k \in Key |-> 0]
    /\ pruned = 0
    /\ waiting = [r \in Request |-> NotWaiting]
    /\ verdict = NoVerdict

(* Ages are not told apart beyond what pruning compares them with.         *)
Older(age, horizon) == IF age <= horizon THEN age + 1 ELSE age

(* rate.Limiter: a bucket earns its rate and holds no more than its burst. *)
Refilled(l) == IF l < Full THEN l + 1 ELSE l

Tick ==
    /\ \A r \in Request : waiting[r].key # NoKey => waiting[r].age < MaxWait
    /\ level' = [k \in Key |-> IF k \in entries THEN Refilled(level[k]) ELSE level[k]]
    /\ idle' = [k \in Key |-> IF k \in entries THEN Older(idle[k], IdleTTL + MaxWait) ELSE idle[k]]
    /\ pruned' = Older(pruned, PruneInterval + MaxWait)
    /\ waiting' = [r \in Request |-> IF waiting[r].key = NoKey THEN NotWaiting
                                     ELSE [key |-> waiting[r].key, age |-> waiting[r].age + 1]]
    /\ UNCHANGED <<entries, verdict>>

-----------------------------------------------------------------------------
(* A request that is exempt passes without touching the table.             *)
Pass(k) ==
    /\ k \in Exempt
    /\ verdict' = [key |-> k, admitted |-> TRUE]
    /\ UNCHANGED <<entries, level, idle, pruned, waiting>>

(* allow reads the clock ...                                               *)
Arrive(r, k) ==
    /\ waiting[r] = NotWaiting
    /\ k \in Key \ Exempt
    /\ waiting' = [waiting EXCEPT ![r] = [key |-> k, age |-> 0]]
    /\ UNCHANGED <<entries, level, idle, pruned, verdict>>

(* Since its last request no longer than the time to live has passed.      *)
Stays(k, now) == idle[k] - now <= IdleTTL

(* maybePruneLocked at a clock that was read "now" ticks ago.              *)
Kept(now) == {k \in entries : Stays(k, now)}

OverCap(S) == Cardinality(S) > MaxEntries

Due(now) == OverCap(entries) \/ pruned - now >= PruneInterval

AfterPrune(now) ==
    IF ~Due(now) THEN entries
    ELSE IF OverCap(Kept(now)) THEN {} ELSE Kept(now)

(* Seeded bug: lastSeen is set when the entry is made only. *)
DecideUntouched(r) ==
    LET k == waiting[r].key
        now == waiting[r].age
        had == IF k \in AfterPrune(now) THEN level[k] ELSE Full
    IN
    /\ k # NoKey
    /\ pruned' = IF Due(now) THEN now ELSE pruned
    /\ entries' = AfterPrune(now) \union {k}
    /\ level' = [level EXCEPT ![k] = IF had >= Cost THEN had - Cost ELSE had]
    /\ idle' = [idle EXCEPT ![k] = IF k \in AfterPrune(now) THEN @ ELSE now]
    /\ verdict' = [key |-> k, admitted |-> had >= Cost]
    /\ waiting' = [waiting EXCEPT ![r] = NotWaiting]

(* ... and, holding the mutex, prunes, looks the key up or enters it with  *)
(* a full bucket, and takes a token if there is one.                       *)
Decide(r) ==
    LET k == waiting[r].key
        now == waiting[r].age
        had == IF k \in AfterPrune(now) THEN level[k] ELSE Full
    IN
    /\ k # NoKey
    /\ pruned' = IF Due(now) THEN now ELSE pruned
    /\ entries' = AfterPrune(now) \union {k}
    /\ level' = [level EXCEPT ![k] = IF had >= Cost THEN had - Cost ELSE had]
    /\ idle' = [idle EXCEPT ![k] = now]
    /\ verdict' = [key |-> k, admitted |-> had >= Cost]
    /\ waiting' = [waiting EXCEPT ![r] = NotWaiting]

Next ==
    \/ Tick
    \/ \E k \in Key : Pass(k) \/ \E r \in Request : Arrive(r, k)
    \/ \E r \in Request : Decide(r)

Spec == Init /\ [][Next]_vars

-----------------------------------------------------------------------------
(* The table stays bounded however many identities call: it is pruned or   *)
(* emptied as soon as it has passed its cap.                               *)
TableBounded == Cardinality(entries) <= MaxEntries + 1

(* A bucket is forgotten only when it is full again, so that forgetting it *)
(* makes no difference: what idleness allows the pruner to evict has       *)
(* earned its whole burst.                                                 *)
EvictsOnlyFull == \A k \in entries, now \in 0..MaxWait :
    ~Stays(k, now) => level[k] = Full

(* The middleware answers as if every bucket were kept for ever, but for   *)
(* the times a table with too many keys is emptied.  (A bucket fills       *)
(* within the time to live, the wait for the mutex included.)              *)
Remembered == [k \in Key |-> IF k \in entries THEN level[k] ELSE Full]

Buckets == INSTANCE TokenBuckets WITH
    bucket <- Remembered, Crowded <- Cardinality(Key \ Exempt) > MaxEntries

ImplementsBuckets == Buckets!BucketsSpec
=============================================================================
