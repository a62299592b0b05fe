-------------------------- MODULE ThumbnailsProofs --------------------------
(***************************************************************************)
(* A row of "thumbnails" points to an object, whatever fails, crashes or   *)
(* is deleted, if no two passes that run at once use one format; and what  *)
(* the pool of worker threads of the reference server knows of its work,   *)
(* for any videos, workers and batches.                                    *)
(***************************************************************************)
EXTENDS MCThumbnails, FiniteSetTheorems, TLAPS

OwnFormat == \A p, q \in Pass : FormatOf[p] = FormatOf[q] => p = q

(* What a pass is about to make is not what a row points to, and is there  *)
(* when the row is inserted.                                               *)
Candidates == \A p \in Pass, v \in Video :
    /\ v \in todo[p] \/ stage[p][v] # "none" => thumb[v] # FormatOf[p]
    /\ stage[p][v] # "none" => v \notin todo[p]
    /\ stage[p][v] = "insert" => ThumbnailKey(p, v) \in object

ThumbInv ==
    /\ TypeOK
    /\ Candidates
    /\ RowHasObject

LEMMA TypeStep ==
    ASSUME TypeOK, [Next]_vars
    PROVE  TypeOK'
<1> USE ThumbnailsAssumption DEF TypeOK, Stages
<1>1. ASSUME NEW p \in Pass, Select(p) PROVE TypeOK'
  BY <1>1 DEF Select
<1>2. ASSUME NEW p \in Pass, NEW v \in Video, NEW s \in Stages, Goto(p, v, s)
      PROVE  stage' \in [Pass -> [Video -> Stages]]
  BY <1>2 DEF Goto
<1>3. ASSUME NEW p \in Pass, NEW v \in Video, Dispatch(p, v) PROVE TypeOK'
  <2>1. stage' \in [Pass -> [Video -> Stages]]
    BY <1>2, <1>3 DEF Dispatch
  <2> QED BY <1>3, <2>1 DEF Dispatch
<1>7. ASSUME NEW p \in Pass, NEW v \in Video, GenerateOne(p, v) PROVE TypeOK'
  <2>1. ThumbnailKey(p, v) \in Video \X Format
    BY DEF ThumbnailKey
  <2>2. \E s \in Stages : Goto(p, v, s)
    BY <1>7 DEF GenerateOne, Extract, ExtractFails, Read, Put, PutFails, Insert,
         InsertRefused, DropObject, Return
  <2>3. stage' \in [Pass -> [Video -> Stages]]
    BY <1>2, <2>2
  <2> HIDE DEF Stages
  <2>4. CASE Extract(p, v) \/ ExtractFails(p, v) \/ Read(p, v)
    BY <2>1, <2>3, <2>4 DEF Extract, ExtractFails, Read, Return
  <2>5. CASE Put(p, v) \/ PutFails(p, v) \/ DropObject(p, v)
    BY <2>1, <2>3, <2>5 DEF Put, PutFails, DropObject, Return
  <2>6. CASE Insert(p, v) \/ InsertRefused(p, v)
    BY <2>1, <2>3, <2>6 DEF Insert, InsertRefused, Return
  <2> QED BY <1>7, <2>4, <2>5, <2>6 DEF GenerateOne
<1>4. ASSUME NEW v \in Video, DeleteVideo(v) PROVE TypeOK'
  BY <1>4 DEF DeleteVideo
<1>5. CASE Crash
  BY <1>5 DEF Crash
<1>6. CASE UNCHANGED vars
  BY <1>6 DEF vars
<1> QED BY <1>1, <1>3, <1>4, <1>5, <1>6, <1>7 DEF Next

(* A goroutine's step changes no other goroutine's stage, and no object    *)
(* but its own key.                                                        *)
LEMMA GenerateOneStep ==
    ASSUME TypeOK, NEW p \in Pass, NEW v \in Video, GenerateOne(p, v)
    PROVE  /\ stage[p][v] # "none" /\ UNCHANGED <<present, todo>>
           /\ \A q \in Pass, w \in Video :
                 ~(q = p /\ w = v) => stage'[q][w] = stage[q][w]
           /\ \/ UNCHANGED <<thumb, object>> /\ stage'[p][v] # "insert"
              \/ /\ UNCHANGED thumb /\ stage'[p][v] = "insert"
                 /\ object' = object \union {ThumbnailKey(p, v)}
              \/ /\ stage[p][v] = "insert" /\ stage'[p][v] = "none" /\ UNCHANGED object
                 /\ thumb' = [thumb EXCEPT ![v] = FormatOf[p]]
              \/ /\ UNCHANGED thumb /\ object' = object \ {ThumbnailKey(p, v)}
                 /\ stage'[p][v] = "none"
<1> USE DEF TypeOK, Goto, Return
<1>1. CASE Extract(p, v) \/ ExtractFails(p, v) \/ Read(p, v) \/ PutFails(p, v)
           \/ InsertRefused(p, v)
  BY <1>1 DEF Extract, ExtractFails, Read, PutFails, InsertRefused
<1>2. CASE Put(p, v)
  BY <1>2 DEF Put
<1>3. CASE Insert(p, v)
  BY <1>3 DEF Insert
<1>4. CASE DropObject(p, v)
  BY <1>4 DEF DropObject
<1> QED BY <1>1, <1>2, <1>3, <1>4 DEF GenerateOne

LEMMA InvStep ==
    ASSUME OwnFormat, ThumbInv, [Next]_vars
    PROVE  Candidates' /\ RowHasObject'
<1>0. TypeOK /\ Candidates /\ RowHasObject
      /\ \A p \in Pass : FormatOf[p] \in Format /\ FormatOf[p] # NoThumb
  BY ThumbnailsAssumption DEF ThumbInv
<1>1. ASSUME NEW p \in Pass, Select(p) PROVE Candidates' /\ RowHasObject'
  <2>1. /\ UNCHANGED <<thumb, object, stage>>
        /\ \A v \in Video : v \in todo'[p] => thumb[v] = NoThumb /\ stage[p][v] = "none"
        /\ \A q \in Pass \ {p} : todo'[q] = todo[q]
        /\ \A v \in Video : stage[p][v] = "none"
    BY <1>0, <1>1 DEF Select, TypeOK, Working
  <2>2. RowHasObject'
    BY <1>0, <2>1 DEF RowHasObject
  <2>3. ASSUME NEW q \in Pass, NEW v \in Video
        PROVE  /\ v \in todo'[q] \/ stage'[q][v] # "none" => thumb'[v] # FormatOf[q]
               /\ stage'[q][v] # "none" => v \notin todo'[q]
               /\ stage'[q][v] = "insert" => ThumbnailKey(q, v) \in object'
    <3>1. CASE q = p
      BY <1>0, <2>1, <3>1
    <3>2. CASE q # p
      BY <1>0, <2>1, <3>2 DEF Candidates
    <3> QED BY <3>1, <3>2
  <2> QED BY <2>2, <2>3 DEF Candidates, ThumbnailKey
<1>2. ASSUME NEW p \in Pass, NEW v \in Video, Dispatch(p, v)
      PROVE  Candidates' /\ RowHasObject'
  <2>1. /\ UNCHANGED <<thumb, object>> /\ v \in todo[p]
        /\ \A q \in Pass : todo'[q] \subseteq todo[q]
        /\ v \notin todo'[p]
        /\ \A q \in Pass, w \in Video :
              stage'[q][w] = stage[q][w] \/ (q = p /\ w = v /\ stage'[q][w] = "extract")
    BY <1>0, <1>2 DEF Dispatch, Goto, TypeOK
  <2> QED BY <1>0, <2>1 DEF Candidates, RowHasObject, ThumbnailKey
<1>3. ASSUME NEW p \in Pass, NEW v \in Video, GenerateOne(p, v)
      PROVE  Candidates' /\ RowHasObject'
  <2>1. stage[p][v] # "none" /\ todo' = todo /\ thumb[v] # FormatOf[p]
    BY <1>0, <1>3, GenerateOneStep DEF Candidates
  <2>2. \A q \in Pass, w \in Video : ~(q = p /\ w = v) => stage'[q][w] = stage[q][w]
    BY <1>0, <1>3, GenerateOneStep
  <2>3. \A q \in Pass, w \in Video : ThumbnailKey(q, w) = ThumbnailKey(p, v) => q = p /\ w = v
    BY DEF OwnFormat, ThumbnailKey
  <2>4. CASE UNCHANGED <<thumb, object>> /\ stage'[p][v] # "insert"
    BY <1>0, <2>1, <2>2, <2>4 DEF Candidates, RowHasObject, ThumbnailKey
  <2>5. CASE UNCHANGED thumb /\ stage'[p][v] = "insert" /\ object' = object \union {ThumbnailKey(p, v)}
    BY <1>0, <2>1, <2>2, <2>5 DEF Candidates, RowHasObject, ThumbnailKey
  <2>6. CASE /\ stage[p][v] = "insert" /\ stage'[p][v] = "none" /\ UNCHANGED object
             /\ thumb' = [thumb EXCEPT ![v] = FormatOf[p]]
    <3>1. ThumbnailKey(p, v) \in object
      BY <1>0, <2>6 DEF Candidates
    <3>2. thumb'[v] = FormatOf[p] /\ \A w \in Video : w # v => thumb'[w] = thumb[w]
      BY <1>0, <2>6 DEF TypeOK
    <3>3. RowHasObject'
      BY <1>0, <2>6, <3>1, <3>2 DEF RowHasObject, ThumbnailKey
    <3>4. v \notin todo'[p]
      BY <1>0, <2>1 DEF Candidates
    <3> QED BY <1>0, <2>1, <2>2, <2>6, <3>2, <3>3, <3>4 DEF Candidates, OwnFormat, ThumbnailKey
  <2>7. CASE UNCHANGED thumb /\ object' = object \ {ThumbnailKey(p, v)} /\ stage'[p][v] = "none"
    <3>1. Candidates'
      BY <1>0, <2>1, <2>2, <2>3, <2>7 DEF Candidates, ThumbnailKey
    <3>2. ASSUME NEW w \in Video, thumb[w] # NoThumb PROVE <<w, thumb[w]>> # ThumbnailKey(p, v)
      BY <2>1 DEF ThumbnailKey
    <3> QED BY <1>0, <2>7, <3>1, <3>2 DEF RowHasObject
  <2> QED BY <1>0, <1>3, <2>4, <2>5, <2>6, <2>7, GenerateOneStep
<1>4. ASSUME NEW v \in Video, DeleteVideo(v) PROVE Candidates' /\ RowHasObject'
  <2>1. /\ UNCHANGED <<object, todo, stage>>
        /\ \A w \in Video : thumb'[w] = thumb[w] \/ thumb'[w] = NoThumb
    BY <1>0, <1>4 DEF DeleteVideo, TypeOK
  <2> QED BY <1>0, <2>1 DEF Candidates, RowHasObject, ThumbnailKey
<1>5. CASE Crash
  BY <1>0, <1>5 DEF Crash, Candidates, RowHasObject
<1>6. CASE UNCHANGED vars
  BY <1>0, <1>6 DEF vars, Candidates, RowHasObject, ThumbnailKey
<1> QED BY <1>1, <1>2, <1>3, <1>4, <1>5, <1>6 DEF Next

(* Passes with formats of their own never drop each other's thumbnails, so *)
(* streamThumbnail finds the object of every row.                          *)
THEOREM ThumbnailServed ==
    ASSUME OwnFormat
    PROVE  Spec => []RowHasObject
<1>1. Init => ThumbInv
  BY ThumbnailsAssumption DEF Init, ThumbInv, TypeOK, Candidates, RowHasObject, Stages
<1>2. ThumbInv /\ [Next]_vars => ThumbInv'
  BY TypeStep, InvStep DEF ThumbInv
<1>3. ThumbInv => RowHasObject
  BY DEF ThumbInv
<1> QED BY <1>1, <1>2, <1>3, PTL DEF Spec

-----------------------------------------------------------------------------
(* The pool of worker threads.                                             *)
(* The pool's tables of batches and of the cleaning task have their types. *)
Work == [pc: Pool!Steps, worker: Pool!Worker, todo: SUBSET Pool!Videos, video: Pool!Videos \union {0}]
AtWork == {r \in Work : r.pc \in {"next", "done"} \/ r.video # 0}
Cleaning == [pc: {"rows", "objects", "records"}, objects: SUBSET Pool!Videos, rows: SUBSET Pool!Videos]

PoolTyped ==
    /\ Pool!TypeOK
    /\ batch \in [Pool!Batch -> AtWork \union {Pool!Free}]
    /\ cleaner \in Cleaning \union {Pool!Quiet}

Taken == {b \in Pool!Batch : batch[b] # Pool!Free}

(* While no worker dies, who has a batch is in the pool, who is in the     *)
(* pool runs and is not asked to exit, who has exited does not run, and    *)
(* the timer runs only when nothing is under way.                          *)
Sane ==
    /\ busy = Cardinality(Taken)
    /\ timer => busy = 0
    /\ pool # {} /\ busy = 0 => timer
    /\ failed = {} /\ pool \subseteq alive /\ pool \intersect kill = {}
    /\ alive \intersect exited = {}
    /\ \A b \in Pool!Batch : batch[b] # Pool!Free => batch[b].worker \in pool

PoolInv == PoolTyped /\ (~died => Sane)

-----------------------------------------------------------------------------
LEMMA PoolCardinality == \A S : Pool!Cardinality(S) = Cardinality(S)
  BY DEF Cardinality, Pool!Cardinality

(* The first of some videos or workers.                                    *)
LEMMA LeastIs ==
    ASSUME NEW S \in SUBSET Nat, S # {}
    PROVE  Pool!Least(S) \in S /\ \A v \in S : Pool!Least(S) <= v
<1> DEFINE R == OpToRel(<, Nat)
<1>1. IsWellFoundedOn(R, Nat)
  BY NatLessThanWellFounded, Zenon
<1> HIDE DEF R
<1>2. PICK m \in S : \A n \in S : ~ (<<n, m>> \in R)
  BY <1>1, WFMin, Zenon
<1>3. ASSUME NEW n \in Nat, n < m PROVE <<n, m>> \in R
  BY <1>3 DEF R, OpToRel
<1>4. \A n \in S : n \in Nat /\ m \in Nat /\ ~ (n < m)
  BY <1>2, <1>3
<1>5. \A n \in S : m <= n
  BY <1>4
<1> QED
  BY <1>5 DEF Pool!Least

(* Counting those before it numbers the members of a finite set from 0.    *)
LEMMA Ranks ==
    ASSUME NEW S \in SUBSET Nat, IsFiniteSet(S)
    PROVE  /\ Cardinality(S) \in Nat
           /\ \A v \in S : Pool!Index(S, v) \in 0..(Cardinality(S) - 1)
           /\ \A v, u \in S : Pool!Index(S, v) = Pool!Index(S, u) => v = u
           /\ \A n \in 0..(Cardinality(S) - 1) : \E v \in S : Pool!Index(S, v) = n
<1> DEFINE Below(v) == {w \in S : w < v}
<1>1. Cardinality(S) \in Nat
  BY FS_CardinalityType
<1>2. ASSUME NEW v \in S
      PROVE  /\ IsFiniteSet(Below(v)) /\ Pool!Index(S, v) = Cardinality(Below(v))
             /\ Pool!Index(S, v) \in 0..(Cardinality(S) - 1)
  <2>1. Below(v) \in SUBSET S /\ Below(v) # S
    BY <1>2
  <2>2. IsFiniteSet(Below(v)) /\ Cardinality(Below(v)) <= Cardinality(S) /\ Cardinality(Below(v)) # Cardinality(S)
    BY <2>1, FS_Subset
  <2>3. Cardinality(Below(v)) \in Nat
    BY <2>2, FS_CardinalityType
  <2>4. Cardinality(Below(v)) \in 0..(Cardinality(S) - 1)
    BY <1>1, <2>2, <2>3
  <2> QED
    BY <2>2, <2>4, PoolCardinality DEF Pool!Index
<1>3. ASSUME NEW v \in S, NEW u \in S, v < u PROVE Pool!Index(S, v) # Pool!Index(S, u)
  <2>0. v \in Nat /\ u \in Nat /\ \A w \in S : w < v => w < u
    BY <1>3
  <2>1. IsFiniteSet(Below(u)) /\ Pool!Index(S, v) = Cardinality(Below(v)) /\ Pool!Index(S, u) = Cardinality(Below(u))
    BY <1>2
  <2>3. v \in Below(u) /\ v \notin Below(v)
    BY <1>3, <2>0
  <2>4. \A w \in Below(v) : w \in Below(u)
    BY <1>3, <2>0
  <2>2. Cardinality(Below(v)) # Cardinality(Below(u))
    BY <2>1, <2>3, <2>4, FS_Subset
  <2> QED
    BY <2>1, <2>2
<1>4. \A v, u \in S : Pool!Index(S, v) = Pool!Index(S, u) => v = u
  <2> TAKE v, u \in S
  <2>1. v \in Nat /\ u \in Nat
    OBVIOUS
  <2> QED
    BY <2>1, <1>3
<1> DEFINE f == [v \in S |-> Pool!Index(S, v)]
           N == 0..(Cardinality(S) - 1)
<1>5. f \in Injection(S, N)
  BY <1>2, <1>4 DEF Injection, IsInjective
<1>6. IsFiniteSet(N) /\ Cardinality(N) = Cardinality(S)
  <2>0. 0 \in Int /\ Cardinality(S) - 1 \in Int
    BY <1>1
  <2>1. IsFiniteSet(N) /\ Cardinality(N) = IF 0 > Cardinality(S) - 1 THEN 0 ELSE (Cardinality(S) - 1) - 0 + 1
    BY SMTT(60), <2>0, FS_Interval
  <2> QED
    BY <1>1, <2>1
<1>7. f \in Surjection(S, N)
  BY <1>5, <1>6, FS_Injection
<1>8. \A n \in N : \E v \in S : Pool!Index(S, v) = n
  BY <1>7 DEF Surjection
<1> QED
  BY <1>1, <1>2, <1>4, <1>8

(* As many of F have the rank of a member of G as G has members.           *)
LEMMA Paired ==
    ASSUME NEW G \in SUBSET Nat, NEW F \in SUBSET Nat, IsFiniteSet(G), IsFiniteSet(F),
           Cardinality(G) <= Cardinality(F)
    PROVE  LET P == {b \in F : \E x \in G : Pool!Index(G, x) = Pool!Index(F, b)}
           IN  IsFiniteSet(P) /\ Cardinality(P) = Cardinality(G)
<1> DEFINE P == {b \in F : \E x \in G : Pool!Index(G, x) = Pool!Index(F, b)}
           f == [x \in G |-> CHOOSE b \in F : Pool!Index(G, x) = Pool!Index(F, b)]
<1>1. /\ Cardinality(G) \in Nat /\ Cardinality(F) \in Nat
      /\ \A x \in G : Pool!Index(G, x) \in 0..(Cardinality(G) - 1)
      /\ \A n \in 0..(Cardinality(F) - 1) : \E b \in F : Pool!Index(F, b) = n
  BY Ranks
<1>2. \A x, y \in G : Pool!Index(G, x) = Pool!Index(G, y) => x = y
  BY Ranks
<1>3. \A x, y \in F : Pool!Index(F, x) = Pool!Index(F, y) => x = y
  BY Ranks
<1>4. ASSUME NEW x \in G PROVE f[x] \in F /\ Pool!Index(G, x) = Pool!Index(F, f[x])
  <2>1. Pool!Index(G, x) \in 0..(Cardinality(F) - 1)
    BY <1>1
  <2>2. \E b \in F : Pool!Index(G, x) = Pool!Index(F, b)
    BY <1>1, <2>1
  <2> QED
    BY <2>2
<1> HIDE DEF f
<1>5. \A x \in G : f[x] \in P
  BY <1>4
<1>6. \A b \in P : \E x \in G : f[x] = b
  BY <1>3, <1>4
<1>7. \A x, y \in G : f[x] = f[y] => x = y
  BY <1>2, <1>4
<1>8. f \in [G -> P]
  BY <1>5 DEF f
<1> HIDE DEF P
<1>9. f \in Bijection(G, P)
  BY <1>6, <1>7, <1>8 DEF Bijection, Injection, Surjection, IsInjective
<1>10. ExistsBijection(G, P)
  BY <1>9 DEF ExistsBijection
<1>11. IsFiniteSet(P) /\ Cardinality(P) = Cardinality(G)
  BY <1>10, FS_Bijection
<1> QED
  BY <1>11 DEF P

-----------------------------------------------------------------------------
LEMMA PoolFinite ==
    /\ IsFiniteSet(Pool!Worker) /\ IsFiniteSet(Pool!Batch) /\ IsFiniteSet(Pool!Videos)
    /\ Pool!Worker \subseteq Nat /\ Pool!Batch \subseteq Nat /\ Pool!Videos \subseteq Nat /\ 0 \notin Pool!Videos
<1>1. NVideos \in Nat /\ NWorkers \in Nat /\ NBatches \in Nat
  BY PoolAssumption DEF Pool!ThumbnailPoolAssumption
<1>2. IsFiniteSet(1..NVideos) /\ IsFiniteSet(1..NWorkers) /\ IsFiniteSet(1..NBatches)
  BY <1>1, FS_Interval
<1> QED
  BY <1>1, <1>2 DEF Pool!Worker, Pool!Batch, Pool!Videos

LEMMA FreeIsNoWork ==
    /\ \A r \in AtWork : r # Pool!Free
    /\ PoolTyped => \A b \in Pool!Batch : batch[b] # Pool!Free => batch[b] \in AtWork
<1>1. ASSUME NEW r \in AtWork PROVE r # Pool!Free
  <2>1. r.pc \in Pool!Steps /\ Pool!Free.pc = "free"
    BY DEF AtWork, Work, Pool!Free
  <2> QED
    BY <2>1 DEF Pool!Steps
<1> QED
  BY <1>1 DEF PoolTyped

LEMMA TakenFinite == IsFiniteSet(Taken) /\ Cardinality(Taken) \in Nat
<1>1. IsFiniteSet(Taken)
  BY PoolFinite, FS_Subset DEF Taken
<1> QED
  BY <1>1, FS_CardinalityType

(* The workers of a batch are there: those of the pool, or new ones that   *)
(* are not running and whose end has been seen.                            *)
Gets == IF pool = {} THEN Pool!Spawned ELSE pool

LEMMA GetsWorkers ==
    ASSUME PoolTyped, pool = {} => Pool!Cardinality(Pool!Worker \ (alive \union Pool!Unseen)) >= PoolThreads
    PROVE  /\ Gets \in SUBSET Pool!Worker /\ Gets # {} /\ IsFiniteSet(Gets)
           /\ pool = {} => Gets \intersect alive = {} /\ Gets \intersect exited = {}
<1>1. CASE pool # {}
  <2>1. Gets = pool /\ pool \in SUBSET Pool!Worker
    BY <1>1 DEF Gets, PoolTyped, Pool!TypeOK
  <2> QED
    BY <1>1, <2>1, PoolFinite, FS_Subset
<1>2. CASE pool = {}
  <2> DEFINE F == Pool!Worker \ (alive \union Pool!Unseen)
             G == 1..PoolThreads
             P == {b \in F : \E x \in G : Pool!Index(G, x) = Pool!Index(F, b)}
  <2>1. PoolThreads \in Nat \ {0}
    BY PoolAssumption DEF Pool!ThumbnailPoolAssumption
  <2>2. F \in SUBSET Nat /\ IsFiniteSet(F)
    BY PoolFinite, FS_Subset
  <2>3. G \in SUBSET Nat /\ IsFiniteSet(G) /\ Cardinality(G) = PoolThreads
    BY <2>1, FS_Interval
  <2>4. Cardinality(G) <= Cardinality(F)
    <3>1. Cardinality(F) \in Nat
      BY <2>2, FS_CardinalityType
    <3>2. Cardinality(F) >= PoolThreads
      BY <1>2, PoolCardinality
    <3> QED
      BY <2>1, <2>3, <3>1, <3>2
  <2> HIDE DEF F, G
  <2>5. Cardinality(P) = Cardinality(G)
    BY <2>2, <2>3, <2>4, Paired
  <2>6. P \in SUBSET F /\ Pool!Cardinality(P) = PoolThreads
    BY <2>3, <2>5, PoolCardinality
  <2>7. Pool!Spawned \in SUBSET F /\ Pool!Cardinality(Pool!Spawned) = PoolThreads
    BY <2>6 DEF Pool!Spawned, F
  <2>8. Gets = Pool!Spawned
    BY <1>2 DEF Gets
  <2>9. IsFiniteSet(Gets)
    BY <2>2, <2>7, <2>8, FS_Subset
  <2>10. Gets # {}
    BY <2>1, <2>7, <2>8, <2>9, FS_EmptySet, PoolCardinality
  <2> QED
    BY <2>7, <2>8, <2>9, <2>10 DEF F, Pool!Unseen
<1> QED
  BY <1>1, <1>2

(* Some worker gets a share of what there is.                              *)
LEMMA SomeoneGets ==
    ASSUME NEW ids \in SUBSET Pool!Videos, ids # {}, NEW W \in SUBSET Pool!Worker, W # {}
    PROVE  \E w \in W : Pool!Share(ids, W, w) # {}
<1>1. W \in SUBSET Nat /\ IsFiniteSet(W) /\ ids \in SUBSET Nat /\ IsFiniteSet(ids)
  BY PoolFinite, FS_Subset
<1>2. PICK v \in ids : TRUE
  OBVIOUS
<1>3. Cardinality(W) \in Nat /\ Cardinality(W) # 0
  BY <1>1, FS_CardinalityType, FS_EmptySet
<1>4. Pool!Index(ids, v) \in Nat
  <2>1. Cardinality(ids) \in Nat /\ Pool!Index(ids, v) \in 0..(Cardinality(ids) - 1)
    BY <1>1, Ranks
  <2> QED
    BY <2>1
<1> DEFINE k == Pool!Index(ids, v) % Cardinality(W)
<1>5. k \in 0..(Cardinality(W) - 1)
  BY <1>3, <1>4
<1> HIDE DEF k
<1>6. PICK w \in W : Pool!Index(W, w) = k
  BY <1>1, <1>5, Ranks
<1>7. v \in Pool!Share(ids, W, w)
  BY <1>6, PoolCardinality DEF k, Pool!Share
<1> QED
  BY <1>7

-----------------------------------------------------------------------------
(* What is dealt out: who gets a share, the ids that are free for batches, *)
(* and whose batch gets the id b.                                          *)
Given(ids) == {w \in Gets : Pool!Share(ids, Gets, w) # {}}
Unused == {b \in 1..poolScene.batches : batch[b] = Pool!Free}
Dealt(ids, b) == {x \in Given(ids) \intersect alive' : Pool!Index(Given(ids), x) = Pool!Index(Unused, b)}
Begun(ids, w) == [pc |-> "next", worker |-> w, todo |-> Pool!Share(ids, Gets, w), video |-> 0]

LEMMA Deals ==
    ASSUME NEW ids, Pool!Dispatch(ids)
    PROVE  /\ ids # {} /\ timer' = FALSE /\ pool' = Gets
           /\ pool = {} => Pool!Cardinality(Pool!Worker \ (alive \union Pool!Unseen)) >= PoolThreads
           /\ alive' = IF pool = {} THEN alive \union Gets ELSE alive
           /\ Pool!Cardinality(Given(ids)) <= Pool!Cardinality(Unused)
           /\ busy' = busy + Pool!Cardinality(Given(ids))
           /\ batch' = [b \in Pool!Batch |-> IF b \notin Unused \/ Dealt(ids, b) = {} THEN batch[b]
                                             ELSE Begun(ids, Pool!Least(Dealt(ids, b)))]
  BY DEF Pool!Dispatch, Gets, Given, Unused, Dealt, Begun

LEMMA DealKeeps ==
    ASSUME PoolInv, NEW ids \in SUBSET Pool!Videos, Pool!Dispatch(ids),
           UNCHANGED <<poolScene, file, thumbRow, thumbObject, kill, failed, exited, cleaner, died>>
    PROVE  PoolInv'
<1> DEFINE G == Given(ids)
           P == {b \in Unused : \E x \in G : Pool!Index(G, x) = Pool!Index(Unused, b)}
<1>1. /\ ids # {} /\ timer' = FALSE /\ pool' = Gets
      /\ pool = {} => Pool!Cardinality(Pool!Worker \ (alive \union Pool!Unseen)) >= PoolThreads
      /\ alive' = IF pool = {} THEN alive \union Gets ELSE alive
      /\ Pool!Cardinality(G) <= Pool!Cardinality(Unused)
      /\ busy' = busy + Pool!Cardinality(G)
      /\ batch' = [b \in Pool!Batch |-> IF b \notin Unused \/ Dealt(ids, b) = {} THEN batch[b]
                                        ELSE Begun(ids, Pool!Least(Dealt(ids, b)))]
  BY Deals
<1>2. PoolTyped
  BY DEF PoolInv
<1>3. /\ Gets \in SUBSET Pool!Worker /\ Gets # {} /\ IsFiniteSet(Gets)
      /\ pool = {} => Gets \intersect alive = {} /\ Gets \intersect exited = {}
  BY <1>1, <1>2, GetsWorkers
<1>4. G \in SUBSET Gets /\ G \in SUBSET Nat /\ IsFiniteSet(G)
  BY <1>3, PoolFinite, FS_Subset DEF Given
<1>5. Cardinality(G) \in Nat /\ Cardinality(G) # 0
  <2>1. \E w \in Gets : Pool!Share(ids, Gets, w) # {}
    BY <1>1, <1>3, SomeoneGets
  <2>2. G # {}
    BY <2>1 DEF Given
  <2> QED
    BY <1>4, <2>2, FS_CardinalityType, FS_EmptySet
<1>6. Unused \in SUBSET Pool!Batch /\ Unused \in SUBSET Nat /\ IsFiniteSet(Unused)
  <2>1. poolScene \in PoolScene
    BY <1>2 DEF PoolTyped, Pool!TypeOK
  <2>2. poolScene.batches \in 0..NBatches /\ NBatches \in Nat
    BY <2>1, PoolAssumption DEF Pool!ThumbnailPoolAssumption
  <2>3. Unused \in SUBSET Pool!Batch
    BY <2>2 DEF Unused, Pool!Batch
  <2> QED
    BY <2>3, PoolFinite, FS_Subset
<1>7. ASSUME NEW b \in Pool!Batch, b \in Unused, Dealt(ids, b) # {}
      PROVE  /\ Pool!Least(Dealt(ids, b)) \in G /\ Pool!Least(Dealt(ids, b)) \in Pool!Worker
             /\ batch'[b] = Begun(ids, Pool!Least(Dealt(ids, b))) /\ batch'[b] \in AtWork
             /\ batch'[b] # Pool!Free /\ batch'[b].worker \in G
  <2>1. Dealt(ids, b) \in SUBSET Nat /\ Dealt(ids, b) \in SUBSET G
    BY <1>4 DEF Dealt
  <2>2. Pool!Least(Dealt(ids, b)) \in Dealt(ids, b)
    BY <1>7, <2>1, LeastIs
  <2>3. PICK w \in G : w = Pool!Least(Dealt(ids, b))
    BY <2>1, <2>2
  <2>4. w \in Pool!Worker /\ Pool!Share(ids, Gets, w) \in SUBSET Pool!Videos
    BY <1>3, <1>4 DEF Pool!Share
  <2>5. batch'[b] = Begun(ids, w)
    BY <1>1, <1>7, <2>3
  <2>6. Begun(ids, w) \in AtWork /\ Begun(ids, w).worker = w
    BY <2>4 DEF Begun, AtWork, Work, Pool!Steps
  <2> QED
    BY <2>3, <2>4, <2>5, <2>6, FreeIsNoWork
<1>8. ASSUME NEW b \in Pool!Batch, b \notin Unused \/ Dealt(ids, b) = {}
      PROVE  batch'[b] = batch[b]
  BY <1>1, <1>8
<1>9. PoolTyped'
  <2>1. batch' \in [Pool!Batch -> AtWork \union {Pool!Free}]
    <3>1. \A b \in Pool!Batch : batch'[b] \in AtWork \union {Pool!Free}
      BY <1>2, <1>7, <1>8 DEF PoolTyped
    <3> QED
      BY <1>1, <3>1
  <2>2. \A b \in Pool!Batch : batch'[b] = Pool!Free \/
            /\ batch'[b].pc \in Pool!Steps /\ batch'[b].worker \in Pool!Worker
            /\ batch'[b].todo \subseteq Pool!Videos /\ batch'[b].video \in Pool!Videos \union {0}
    BY <2>1 DEF AtWork, Work
  <2>3. busy' \in Nat
    <3>1. busy \in Nat
      BY <1>2 DEF PoolTyped, Pool!TypeOK
    <3> QED
      BY <1>1, <1>5, <3>1, PoolCardinality
  <2>4. pool' \subseteq Pool!Worker /\ alive' \subseteq Pool!Worker /\ kill' \subseteq alive'
    BY <1>1, <1>2, <1>3 DEF PoolTyped, Pool!TypeOK
  <2>5. timer' \in BOOLEAN
    BY <1>1
  <2> QED
    BY <1>2, <2>1, <2>2, <2>3, <2>4, <2>5 DEF PoolTyped, Pool!TypeOK
<1>10. ASSUME ~died' PROVE Sane'
  <2>1. Sane
    BY <1>10 DEF PoolInv
  <2>2. Gets \subseteq alive'
    BY <1>1, <2>1 DEF Gets, Sane
  <2>3. ASSUME NEW b \in Pool!Batch
        PROVE  Dealt(ids, b) # {} <=> \E x \in G : Pool!Index(G, x) = Pool!Index(Unused, b)
    BY <1>4, <2>2 DEF Dealt
  <2>4. Taken' = Taken \union P
    <3>1. \A b \in Pool!Batch : batch'[b] # Pool!Free <=> batch[b] # Pool!Free \/ b \in P
      <4> TAKE b \in Pool!Batch
      <4>1. CASE b \in P
        BY <1>6, <1>7, <2>3, <4>1
      <4>2. CASE b \notin P
        BY <1>8, <2>3, <4>2
      <4> QED
        BY <4>1, <4>2
    <3> QED
      BY <1>6, <3>1 DEF Taken
  <2>5. IsFiniteSet(P) /\ Cardinality(P) = Cardinality(G)
    <3>1. Cardinality(G) <= Cardinality(Unused)
      BY <1>1, PoolCardinality
    <3> QED
      BY <1>4, <1>6, <3>1, Paired
  <2>6. Taken \intersect P = {}
    BY DEF Taken, Unused
  <2>7. IsFiniteSet(Taken) /\ Cardinality(Taken) \in Nat /\ busy = Cardinality(Taken)
    BY <2>1, TakenFinite DEF Sane
  <2> HIDE DEF P, G
  <2>8. Cardinality(Taken') = busy'
    <3>1. Cardinality(Taken \union P) = Cardinality(Taken) + Cardinality(P) - Cardinality(Taken \intersect P)
      BY <2>5, <2>7, FS_Union
    <3>2. Cardinality(Taken \intersect P) = 0
      BY <2>6, FS_EmptySet
    <3>3. busy' = busy + Cardinality(G)
      BY <1>1, PoolCardinality
    <3> QED
      BY <1>5, <2>4, <2>5, <2>7, <3>1, <3>2, <3>3
  <2>9. busy' # 0
    <3>1. busy' = busy + Cardinality(G)
      BY <1>1, PoolCardinality
    <3> QED
      BY <1>5, <2>7, <3>1
  <2>10. \A b \in Pool!Batch : batch'[b] # Pool!Free => batch'[b].worker \in Gets
    <3> TAKE b \in Pool!Batch
    <3>1. CASE b \in Unused /\ Dealt(ids, b) # {}
      BY <1>4, <1>7, <3>1
    <3>2. CASE b \notin Unused \/ Dealt(ids, b) = {}
      BY <1>8, <2>1, <3>2 DEF Sane, Gets
    <3> QED
      BY <3>1, <3>2
  <2>11. pool' \intersect kill' = {} /\ alive' \intersect exited' = {} /\ failed' = {}
    <3>1. kill \subseteq alive
      BY <1>2 DEF PoolTyped, Pool!TypeOK
    <3>2. CASE pool = {}
      BY <1>1, <1>3, <2>1, <3>1, <3>2 DEF Sane
    <3>3. CASE pool # {}
      BY <1>1, <2>1, <3>3 DEF Sane, Gets
    <3> QED
      BY <3>2, <3>3
  <2>12. busy' = Cardinality(Taken)'
    BY <2>8
  <2> QED
    BY <1>1, <2>2, <2>9, <2>10, <2>11, <2>12 DEF Sane
<1> QED
  BY <1>9, <1>10 DEF PoolInv

-----------------------------------------------------------------------------
(* A step that leaves the pool as it is, and one that is a batch's own.    *)
LEMMA DataKeeps ==
    ASSUME PoolInv, file' \subseteq poolScene.videos, thumbRow' \subseteq file',
           thumbObject' \subseteq Pool!Videos, cleaner' \in Cleaning \union {Pool!Quiet},
           UNCHANGED <<poolScene, pool, alive, kill, failed, exited, busy, timer, died, batch>>
    PROVE  PoolInv'
<1>1. PoolTyped'
  <2>1. cleaner' = Pool!Quiet \/
            /\ cleaner'.pc \in {"rows", "objects", "records"}
            /\ cleaner'.objects \subseteq Pool!Videos /\ cleaner'.rows \subseteq Pool!Videos
    BY DEF Cleaning
  <2> QED
    BY <2>1 DEF PoolInv, PoolTyped, Pool!TypeOK
<1>2. ~died' => Sane'
  <2> SUFFICES ASSUME ~died' PROVE Sane'
    OBVIOUS
  <2>1. Sane
    BY DEF PoolInv
  <2>2. Cardinality(Taken)' = Cardinality(Taken)
    BY DEF Taken
  <2> QED
    BY <2>1, <2>2 DEF Sane
<1> QED
  BY <1>1, <1>2 DEF PoolInv

LEMMA Goes ==
    ASSUME PoolInv, NEW b \in Pool!Batch, batch[b] # Pool!Free,
           NEW r \in AtWork, r.worker = batch[b].worker, batch' = [batch EXCEPT ![b] = r],
           thumbRow' \subseteq file, thumbObject' \subseteq Pool!Videos,
           UNCHANGED <<poolScene, file, pool, alive, kill, failed, exited, busy, timer, died, cleaner>>
    PROVE  PoolInv'
<1>1. batch \in [Pool!Batch -> AtWork \union {Pool!Free}]
  BY DEF PoolInv, PoolTyped
<1>2. batch'[b] = r /\ r # Pool!Free /\ \A c \in Pool!Batch \ {b} : batch'[c] = batch[c]
  BY <1>1, FreeIsNoWork
<1>3. batch' \in [Pool!Batch -> AtWork \union {Pool!Free}]
  BY <1>1
<1>4. \A c \in Pool!Batch : batch'[c] = Pool!Free \/
          /\ batch'[c].pc \in Pool!Steps /\ batch'[c].worker \in Pool!Worker
          /\ batch'[c].todo \subseteq Pool!Videos /\ batch'[c].video \in Pool!Videos \union {0}
  BY <1>3 DEF AtWork, Work
<1>5. PoolTyped'
  BY <1>3, <1>4 DEF PoolInv, PoolTyped, Pool!TypeOK
<1>6. ASSUME ~died' PROVE Sane'
  <2>1. Sane
    BY <1>6 DEF PoolInv
  <2>2. Taken' = Taken
    BY <1>2 DEF Taken
  <2>3. Cardinality(Taken)' = Cardinality(Taken)
    BY <2>2
  <2>4. \A c \in Pool!Batch : batch'[c] # Pool!Free => batch'[c].worker \in pool
    BY <1>2, <2>1 DEF Sane
  <2> QED
    BY <2>1, <2>3, <2>4 DEF Sane
<1> QED
  BY <1>5, <1>6 DEF PoolInv

(* A server that starts has a pool of nobody.                              *)
LEMMA Afresh ==
    ASSUME /\ pool' = {} /\ alive' = {} /\ kill' = {} /\ failed' = {} /\ exited' = {}
           /\ busy' = 0 /\ timer' = FALSE
           /\ batch' = [b \in Pool!Batch |-> Pool!Free]
           /\ cleaner' = Pool!Quiet
           /\ died' \in BOOLEAN,
           poolScene' \in PoolScene, file' \subseteq poolScene'.videos, thumbRow' \subseteq file',
           thumbObject' \subseteq Pool!Videos
    PROVE  PoolInv'
<1>1. PoolTyped'
  BY DEF PoolTyped, Pool!TypeOK
<1>2. Sane'
  <2>1. Taken' = {}
    BY DEF Taken
  <2>2. Cardinality(Taken)' = 0
    BY <2>1, FS_EmptySet
  <2> QED
    BY <2>2 DEF Sane
<1> QED
  BY <1>1, <1>2 DEF PoolInv

(* The steps of a batch.                                                   *)
LEMMA BatchKeeps ==
    ASSUME PoolInv, NEW b \in Pool!Batch, Pool!Step(b)
    PROVE  PoolInv'
<1>1. PICK r : r = batch[b]
  OBVIOUS
<1>2. batch[b] # Pool!Free
  BY DEF Pool!Step, Pool!NextFile, Pool!Extract, Pool!RemoveOld, Pool!PutThumbnail, Pool!Look,
     Pool!CreateRow, Pool!UpdateRow, Pool!At
<1>3. r \in AtWork /\ r.pc \in Pool!Steps /\ r.worker \in Pool!Worker /\ r.todo \in SUBSET Pool!Videos
      /\ r.video \in Pool!Videos \union {0} /\ (r.pc \in {"next", "done"} \/ r.video # 0)
  BY <1>1, <1>2, FreeIsNoWork DEF PoolInv, AtWork, Work
<1>4. batch \in [Pool!Batch -> AtWork \union {Pool!Free}] /\ thumbObject \subseteq Pool!Videos /\ thumbRow \subseteq file
      /\ poolScene \in PoolScene /\ file \subseteq poolScene.videos
  BY DEF PoolInv, PoolTyped, Pool!TypeOK
<1>5. \A pc \in Pool!Steps : r.video # 0 \/ pc = "done" =>
          [r EXCEPT !.pc = pc] \in AtWork /\ [r EXCEPT !.pc = pc].worker = r.worker
  BY <1>3 DEF AtWork, Work
<1>6. ASSUME NEW pc \in Pool!Steps, Pool!Goto(b, pc), r.video # 0 \/ pc = "done", thumbRow' \subseteq file, thumbObject' \subseteq Pool!Videos,
             UNCHANGED <<poolScene, file, pool, alive, kill, failed, exited, busy, timer, died, cleaner>>
      PROVE  PoolInv'
  <2>1. batch' = [batch EXCEPT ![b] = [r EXCEPT !.pc = pc]]
    BY <1>1, <1>4, <1>6 DEF Pool!Goto
  <2>2. PICK q \in AtWork : q = [r EXCEPT !.pc = pc]
    BY <1>5, <1>6
  <2> QED
    BY <1>1, <1>2, <1>5, <1>6, <2>1, <2>2, Goes
<1> USE DEF Pool!Work, Pool!poolVars, Pool!data, Pool!counts
<1>7. CASE Pool!NextFile(b)
  <2>1. CASE r.todo = {}
    <3>1. Pool!Goto(b, "done") /\ "done" \in Pool!Steps
      BY <1>1, <1>7, <2>1 DEF Pool!NextFile, Pool!Steps
    <3> QED
      BY <1>4, <1>6, <1>7, <3>1 DEF Pool!NextFile
  <2>2. CASE r.todo # {}
    <3>1. PICK v : v = Pool!Least(r.todo)
      OBVIOUS
    <3>2. v \in Pool!Videos
      BY <1>3, <2>2, <3>1, LeastIs, PoolFinite
    <3>3. PICK pc \in Pool!Steps : pc = IF v \in file THEN "extract" ELSE "next"
      BY DEF Pool!Steps
    <3>4. PICK q : q = [r EXCEPT !.todo = @ \ {v}, !.video = v, !.pc = pc]
      OBVIOUS
    <3>5. q \in AtWork /\ q.worker = r.worker
      BY <1>3, <3>2, <3>4, PoolFinite DEF Pool!Videos, AtWork, Work
    <3>6. batch' = [batch EXCEPT ![b] = q]
      <4>1. batch' = [batch EXCEPT ![b].todo = @ \ {v}, ![b].video = v, ![b].pc = pc]
        BY <1>1, <1>7, <2>2, <3>1, <3>3 DEF Pool!NextFile
      <4> QED
        BY <1>1, <1>4, <3>4, <4>1
    <3> QED
      BY <1>1, <1>2, <1>4, <1>7, <3>5, <3>6, Goes DEF Pool!NextFile
  <2> QED
    BY <2>1, <2>2
<1>8. CASE Pool!Extract(b)
  <2>1. r.video # 0 /\ \E pc \in Pool!Steps : Pool!Goto(b, pc)
    BY <1>1, <1>3, <1>8 DEF Pool!At, Pool!Extract, Pool!Steps
  <2> QED
    BY <1>4, <1>6, <1>8, <2>1 DEF Pool!Extract
<1>9. CASE Pool!RemoveOld(b)
  <2>1. r.video # 0 /\ Pool!Goto(b, "put") /\ "put" \in Pool!Steps
    BY <1>1, <1>3, <1>9 DEF Pool!At, Pool!RemoveOld, Pool!Steps
  <2> QED
    BY <1>4, <1>6, <1>9, <2>1 DEF Pool!RemoveOld
<1>10. CASE Pool!PutThumbnail(b)
  <2>1. r.video # 0 /\ Pool!Goto(b, "look") /\ "look" \in Pool!Steps
    BY <1>1, <1>3, <1>10 DEF Pool!At, Pool!PutThumbnail, Pool!Steps
  <2>2. r.video \in Pool!Videos
    BY <1>1, <1>3, <1>10 DEF Pool!PutThumbnail, Pool!At
  <2> QED
    BY <1>1, <1>4, <1>6, <1>10, <2>1, <2>2 DEF Pool!PutThumbnail
<1>11. CASE Pool!Look(b)
  <2>1. r.video # 0 /\ \E pc \in Pool!Steps : Pool!Goto(b, pc)
    BY <1>1, <1>3, <1>11 DEF Pool!At, Pool!Look, Pool!Steps
  <2> QED
    BY <1>4, <1>6, <1>11, <2>1 DEF Pool!Look
<1>12. ASSUME Pool!ServerEnds PROVE PoolInv'
  BY <1>4, <1>12, Afresh DEF Pool!ServerEnds
<1>13. CASE Pool!CreateRow(b)
  <2>1. CASE r.video \in file \ thumbRow
    <3>1. /\ r.video # 0 /\ Pool!Goto(b, "next") /\ "next" \in Pool!Steps
          /\ thumbRow' = thumbRow \union {r.video}
      BY <1>1, <1>3, <1>13, <2>1 DEF Pool!At, Pool!CreateRow, Pool!Steps
    <3> QED
      BY <1>1, <1>4, <1>6, <1>13, <2>1, <3>1 DEF Pool!CreateRow
  <2>2. CASE r.video \notin file \ thumbRow
    BY <1>1, <1>12, <1>13, <2>2 DEF Pool!CreateRow
  <2> QED
    BY <2>1, <2>2
<1>14. CASE Pool!UpdateRow(b)
  <2>1. CASE r.video \in thumbRow
    <3>1. r.video # 0 /\ Pool!Goto(b, "next") /\ "next" \in Pool!Steps
      BY <1>1, <1>3, <1>14, <2>1 DEF Pool!At, Pool!UpdateRow, Pool!Steps
    <3> QED
      BY <1>1, <1>4, <1>6, <1>14, <2>1, <3>1 DEF Pool!UpdateRow
  <2>2. CASE r.video \notin thumbRow
    BY <1>1, <1>12, <1>14, <2>2 DEF Pool!UpdateRow
  <2> QED
    BY <2>1, <2>2
<1> QED
  BY <1>7, <1>8, <1>9, <1>10, <1>11, <1>13, <1>14 DEF Pool!Step

-----------------------------------------------------------------------------
(* A batch is over: it was one of those counted.                           *)
LEMMA OneLess ==
    ASSUME PoolTyped, NEW b \in Pool!Batch, batch[b] # Pool!Free, batch' = [batch EXCEPT ![b] = Pool!Free]
    PROVE  Cardinality(Taken') = Cardinality(Taken) - 1 /\ Cardinality(Taken) # 0
<1>1. Taken' = Taken \ {b} /\ b \in Taken
  BY DEF Taken, PoolTyped
<1>2. IsFiniteSet(Taken) /\ Cardinality(Taken) \in Nat
  BY TakenFinite
<1> QED
  BY <1>1, <1>2, FS_RemoveElement, FS_EmptySet

LEMMA DoneKeeps ==
    ASSUME PoolInv, NEW b \in Pool!Batch, Pool!OnDone(b)
    PROVE  PoolInv'
<1> USE DEF Pool!counts
<1>1. /\ batch[b] # Pool!Free /\ batch' = [batch EXCEPT ![b] = Pool!Free]
      /\ busy' = (IF busy = 0 THEN 0 ELSE busy - 1) /\ timer' = (timer \/ busy' = 0)
      /\ UNCHANGED <<poolScene, file, thumbRow, thumbObject, pool, alive, kill, failed, exited, cleaner, died>>
  BY DEF Pool!OnDone, Pool!OnBatchDone, Pool!At
<1>2. PoolTyped /\ busy \in Nat
  BY DEF PoolInv, PoolTyped, Pool!TypeOK
<1>3. PoolTyped'
  <2>1. busy' \in Nat /\ timer' \in BOOLEAN
    BY <1>1, <1>2 DEF PoolTyped, Pool!TypeOK
  <2>2. batch' \in [Pool!Batch -> AtWork \union {Pool!Free}]
    BY <1>1, <1>2 DEF PoolTyped
  <2>3. \A c \in Pool!Batch : batch'[c] = Pool!Free \/
            /\ batch'[c].pc \in Pool!Steps /\ batch'[c].worker \in Pool!Worker
            /\ batch'[c].todo \subseteq Pool!Videos /\ batch'[c].video \in Pool!Videos \union {0}
    BY <2>2 DEF AtWork, Work
  <2> QED
    BY <1>1, <1>2, <2>1, <2>2, <2>3 DEF PoolTyped, Pool!TypeOK
<1>4. ASSUME ~died' PROVE Sane'
  <2>1. Sane
    BY <1>1, <1>4 DEF PoolInv
  <2>2. Cardinality(Taken') = Cardinality(Taken) - 1 /\ Cardinality(Taken) # 0 /\ busy = Cardinality(Taken)
    BY <1>1, <1>2, <2>1, OneLess DEF Sane
  <2>3. busy' = Cardinality(Taken') /\ busy # 0
    BY <1>1, <1>2, <2>2
  <2>4. busy' = Cardinality(Taken)'
    BY <2>3
  <2>5. (timer' => busy' = 0) /\ (pool' # {} /\ busy' = 0 => timer')
    BY <1>1, <2>1, <2>3 DEF Sane
  <2>6. \A c \in Pool!Batch : batch'[c] # Pool!Free => batch'[c].worker \in pool'
    BY <1>1, <1>2, <2>1 DEF Sane, PoolTyped
  <2> QED
    BY <1>1, <2>1, <2>4, <2>5, <2>6 DEF Sane
<1> QED
  BY <1>3, <1>4 DEF PoolInv

(* What happens to a worker.                                               *)
LEMMA WorkerKeeps ==
    ASSUME PoolInv, NEW w \in Pool!Worker,
           Pool!OnError(w) \/ Pool!OnExit(w) \/ Pool!Exit(w) \/ Pool!Death(w)
    PROVE  PoolInv'
<1> USE DEF Pool!data, Pool!counts
<1>1. PoolTyped /\ busy \in Nat /\ pool \subseteq Pool!Worker /\ kill \subseteq alive /\ alive \subseteq Pool!Worker
      /\ batch \in [Pool!Batch -> AtWork \union {Pool!Free}]
  BY DEF PoolInv, PoolTyped, Pool!TypeOK
<1>2. /\ pool' \subseteq Pool!Worker /\ kill' \subseteq alive' /\ alive' \subseteq Pool!Worker
      /\ busy' \in Nat /\ timer' \in BOOLEAN /\ died' \in BOOLEAN
      /\ failed' \subseteq Pool!Worker /\ exited' \subseteq Pool!Worker
      /\ UNCHANGED <<poolScene, file, thumbRow, thumbObject, cleaner>>
      /\ batch' \in [Pool!Batch -> AtWork \union {Pool!Free}]
  <2>1. CASE Pool!OnError(w)
    <3>1. busy' \in Nat /\ timer' \in BOOLEAN
      BY <1>1, <2>1 DEF PoolTyped, Pool!TypeOK, Pool!OnError, Pool!OnBatchDone
    <3> QED
      BY <1>1, <2>1, <3>1 DEF PoolTyped, Pool!TypeOK, Pool!OnError
  <2>2. CASE Pool!OnExit(w)
    BY <1>1, <2>2 DEF PoolTyped, Pool!TypeOK, Pool!OnExit
  <2>3. ASSUME batch' = Pool!Gone(w) PROVE batch' \in [Pool!Batch -> AtWork \union {Pool!Free}]
    BY <1>1, <2>3 DEF Pool!Gone
  <2>4. CASE Pool!Exit(w)
    BY <1>1, <2>3, <2>4 DEF PoolTyped, Pool!TypeOK, Pool!Exit
  <2>5. CASE Pool!Death(w)
    BY <1>1, <2>3, <2>5 DEF PoolTyped, Pool!TypeOK, Pool!Death
  <2> QED
    BY <2>1, <2>2, <2>4, <2>5
<1>3. PoolTyped'
  <2>1. \A c \in Pool!Batch : batch'[c] = Pool!Free \/
            /\ batch'[c].pc \in Pool!Steps /\ batch'[c].worker \in Pool!Worker
            /\ batch'[c].todo \subseteq Pool!Videos /\ batch'[c].video \in Pool!Videos \union {0}
    BY <1>2 DEF AtWork, Work
  <2> QED
    BY <1>1, <1>2, <2>1 DEF PoolTyped, Pool!TypeOK
<1>4. ASSUME ~died' PROVE Sane'
  <2>1. ~Pool!Death(w) /\ Sane
    BY <1>4 DEF PoolInv, Pool!Death, Pool!OnError, Pool!OnExit, Pool!Exit
  <2>2. ~Pool!OnError(w)
    BY <2>1 DEF Pool!OnError, Sane
  <2>3. CASE Pool!OnExit(w)
    <3>1. pool' = pool /\ exited' = exited \ {w}
          /\ UNCHANGED <<alive, kill, failed, busy, timer, batch>>
      BY <2>1, <2>3 DEF Pool!OnExit, Sane
    <3>2. Cardinality(Taken)' = Cardinality(Taken)
      BY <3>1 DEF Taken
    <3> QED
      BY <2>1, <3>1, <3>2 DEF Sane
  <2>4. CASE Pool!Exit(w)
    <3>1. w \notin pool /\ kill' = kill \ {w} /\ alive' = alive \ {w} /\ exited' = exited \union {w}
          /\ UNCHANGED <<pool, failed, busy, timer>>
      BY <2>1, <2>4 DEF Pool!Exit, Sane
    <3>2. batch' = batch
      BY <1>1, <2>1, <2>4, <3>1 DEF Pool!Exit, Pool!Gone, Pool!Running, Sane
    <3>3. Cardinality(Taken)' = Cardinality(Taken)
      BY <3>2 DEF Taken
    <3> QED
      BY <2>1, <3>1, <3>2, <3>3 DEF Sane
  <2> QED
    BY <2>1, <2>2, <2>3, <2>4
<1> QED
  BY <1>3, <1>4 DEF PoolInv

(* The idle pool is shut down.                                             *)
LEMMA IdleKeeps ==
    ASSUME PoolInv, Pool!IdleTimer
    PROVE  PoolInv'
<1> USE DEF Pool!data, Pool!counts
<1>1. /\ timer /\ timer' = FALSE /\ kill' = kill \union (pool \intersect alive) /\ pool' = {} /\ busy' = 0
      /\ UNCHANGED <<poolScene, file, thumbRow, thumbObject, alive, failed, exited, batch, cleaner, died>>
  BY DEF Pool!IdleTimer
<1>2. PoolTyped'
  BY <1>1 DEF PoolInv, PoolTyped, Pool!TypeOK
<1>3. ASSUME ~died' PROVE Sane'
  <2>1. Sane /\ Cardinality(Taken) = 0
    BY <1>1, <1>3 DEF PoolInv, Sane
  <2>2. Taken = {}
    BY <2>1, TakenFinite, FS_EmptySet
  <2>3. Cardinality(Taken)' = Cardinality(Taken)
    BY <1>1 DEF Taken
  <2> QED
    BY <1>1, <2>1, <2>2, <2>3 DEF Sane, Taken
<1> QED
  BY <1>2, <1>3 DEF PoolInv

LEMMA CleanKeeps ==
    ASSUME PoolInv, Pool!Clean
    PROVE  PoolInv'
<1>1. cleaner \in Cleaning \union {Pool!Quiet} /\ thumbObject \subseteq Pool!Videos /\ thumbRow \subseteq file
      /\ poolScene \in PoolScene /\ file \subseteq poolScene.videos
  BY DEF PoolInv, PoolTyped, Pool!TypeOK
<1>2. file \subseteq Pool!Videos
  BY <1>1, PoolAssumption DEF Pool!ThumbnailPoolAssumption
<1>3. Pool!Quiet.pc = "quiet"
  BY DEF Pool!Quiet
<1> USE DEF Pool!data, Pool!poolVars, Pool!counts
<1>4. CASE Pool!ListObjects
  <2>1. cleaner' \in Cleaning
    BY <1>1, <1>4 DEF Pool!ListObjects, Cleaning
  <2> QED
    BY <1>1, <1>4, <2>1, DataKeeps DEF Pool!ListObjects
<1>5. CASE Pool!ListRows
  <2>1. cleaner \in Cleaning
    BY <1>1, <1>3, <1>5 DEF Pool!ListRows
  <2>2. cleaner' \in Cleaning
    BY <1>1, <1>2, <1>5, <2>1 DEF Pool!ListRows, Cleaning
  <2> QED
    BY <1>1, <1>5, <2>2, DataKeeps DEF Pool!ListRows
<1>6. CASE Pool!DeleteOrphan
  <2>1. cleaner \in Cleaning
    BY <1>1, <1>3, <1>6 DEF Pool!DeleteOrphan
  <2>2. cleaner' \in Cleaning /\ thumbObject' \subseteq thumbObject
    BY <1>6, <2>1 DEF Pool!DeleteOrphan, Cleaning
  <2> QED
    BY <1>1, <1>6, <2>2, DataKeeps DEF Pool!DeleteOrphan
<1>7. CASE Pool!DeleteRecord
  <2>1. cleaner \in Cleaning
    BY <1>1, <1>3, <1>7 DEF Pool!DeleteRecord
  <2>2. cleaner' \in Cleaning \union {Pool!Quiet} /\ thumbRow' \subseteq thumbRow
    BY <1>7, <2>1 DEF Pool!DeleteRecord, Cleaning
  <2> QED
    BY <1>1, <1>7, <2>2, DataKeeps DEF Pool!DeleteRecord
<1> QED
  BY <1>4, <1>5, <1>6, <1>7 DEF Pool!Clean

LEMMA PoolNextKeeps == PoolInv /\ [Pool!Next]_(Pool!vars) => PoolInv'
<1> SUFFICES ASSUME PoolInv, [Pool!Next]_(Pool!vars) PROVE PoolInv'
  OBVIOUS
<1>1. /\ cleaner \in Cleaning \union {Pool!Quiet} /\ thumbObject \subseteq Pool!Videos /\ thumbRow \subseteq file
      /\ poolScene \in PoolScene /\ file \subseteq poolScene.videos
  BY DEF PoolInv, PoolTyped, Pool!TypeOK
<1>2. file \subseteq Pool!Videos
  BY <1>1, PoolAssumption DEF Pool!ThumbnailPoolAssumption
<1>3. CASE Pool!Task
  BY <1>2, <1>3, DealKeeps DEF Pool!Task
<1>4. CASE Pool!Rerun
  BY <1>2, <1>4, DealKeeps DEF Pool!Rerun
<1>5. CASE \E v \in Pool!Videos : Pool!DeleteFile(v)
  <2>1. PICK v \in Pool!Videos : Pool!DeleteFile(v)
    BY <1>5
  <2> QED
    BY <1>1, <2>1, DataKeeps DEF Pool!DeleteFile, Pool!poolVars
<1>6. CASE UNCHANGED Pool!vars
  BY <1>1, <1>6, DataKeeps DEF Pool!vars
<1> QED
  BY <1>3, <1>4, <1>5, <1>6, IdleKeeps, CleanKeeps, DoneKeeps, BatchKeeps, WorkerKeeps DEF Pool!Next

(* While no worker has died since the server started, the pool's count is  *)
(* that of the batches that are with a worker, an idle pool is about to be *)
(* shut down, and no worker with work is asked to exit: however batches of *)
(* several tasks and reruns end, and though exits are seen late            *)
(* (lib/tasks/thumbnailPool.ts).                                          *)
THEOREM PoolCounts == Pool!Spec => []PoolKnowsWork
<1>1. Pool!Init => PoolInv
  <2> SUFFICES ASSUME Pool!Init PROVE PoolInv
    OBVIOUS
  <2>1. poolScene \in PoolScene /\ file = poolScene.videos
    BY DEF Pool!Init
  <2>2. PoolTyped
    BY <2>1 DEF Pool!Init, PoolTyped, Pool!TypeOK
  <2>3. Taken = {}
    BY DEF Pool!Init, Taken
  <2>4. Cardinality(Taken) = 0
    BY <2>3, FS_EmptySet
  <2>5. Sane
    BY <2>4 DEF Pool!Init, Sane
  <2> QED
    BY <2>2, <2>5 DEF PoolInv
<1>2. PoolInv => PoolKnowsWork
  <2> SUFFICES ASSUME PoolInv PROVE PoolKnowsWork
    OBVIOUS
  <2>1. Pool!TypeOK
    BY DEF PoolInv, PoolTyped
  <2>2. ASSUME ~died PROVE /\ busy = Pool!Cardinality({b \in Pool!Batch : batch[b] # Pool!Free})
                           /\ pool # {} /\ busy = 0 => timer
                           /\ \A b \in Pool!Batch : Pool!Running(b) => batch[b].worker \notin kill
    BY <2>2, PoolCardinality DEF PoolInv, Sane, Taken, Pool!Running
  <2> QED
    BY <2>1, <2>2 DEF PoolKnowsWork, Pool!PoolKnowsWork
<1> QED
  BY <1>1, <1>2, PoolNextKeeps, PTL DEF Pool!Spec
=============================================================================
