------------------------- MODULE PartialUploadProofs -------------------------
(***************************************************************************)
(* Whatever the number of chunks, uploads and requests, what is stored     *)
(* holds its chunks in order, and on storage that checks the length it is  *)
(* the whole file, but for chunks that two requests wrote at once: a hole  *)
(* in a chunk file or in what was copied from it is one of those.          *)
(*                                                                         *)
(* Whatever the clocks and the interleavings, the rate limiter answers as  *)
(* buckets kept for ever would, unless its table is crowded: an entry that *)
(* is not full was touched lately, as its idle time is at most what the    *)
(* bucket has earned since, and the wait for the mutex; so an entry the    *)
(* pruner may evict is full, and forgetting it changes nothing.            *)
(***************************************************************************)
EXTENDS MCRequests, SequenceTheorems, FiniteSetTheorems, WellFoundedInduction, TLAPS

(* Chunks apart by at least their distance in the body.  (With Ascending   *)
(* alone, that a body of full length is complete would need an induction.) *)
Spread(body) ==
    \A i \in 1..Len(body), j \in 1..Len(body) :
        i <= j => body[i].chunk + (j - i) <= body[j].chunk

(* What is copied comes before what is still to be copied.                 *)
Progress(r) == /\ Spread(req[r].body)
               /\ \A i \in 1..Len(req[r].body), c \in req[r].todo : req[r].body[i].chunk < c
               /\ ~At(r, "copy") => req[r].body = <<>>

IInv == /\ TypeOK
        /\ \A r \in Request : Progress(r)
        /\ \A f \in files : Spread(f.body) /\ (LengthChecked => FullLength(f.body))

(* Holes come from chunks opened again while they were being written.      *)
Shown(u, body, marked) == \A i \in 1..Len(body) :
                            body[i].has = "holed" => <<u, body[i].chunk>> \in marked

Holes == /\ \A f \in Upload \X Chunks :
              temp[f].has = "holed" \/ temp[f].late # {} => f \in overlapped
         /\ \A r \in Request : Shown(req[r].up, req[r].body, overlapped)
         /\ \A f \in files : Shown(f.up, f.body, overlapped)

-----------------------------------------------------------------------------
LEMMA Smallest ==
    ASSUME NEW T \in SUBSET Nat, T # {}
    PROVE  \E m \in T : \A n \in T : m <= n
<1> DEFINE R == OpToRel(<, Nat)
<1>1. IsWellFoundedOn(R, Nat)
  BY NatLessThanWellFounded, Zenon
<1> HIDE DEF R
<1>2. \E m \in T : \A n \in T : ~ (<<n, m>> \in R)
  BY <1>1, WFMin, Zenon
<1>3. ASSUME NEW m \in Nat, NEW n \in Nat, n < m PROVE <<n, m>> \in R
  BY <1>3 DEF R, OpToRel
<1>4. PICK m \in T : \A n \in T : ~ (<<n, m>> \in R)
  BY <1>2
<1>5. ASSUME NEW n \in T PROVE m <= n
  <2>1. m \in Nat /\ n \in Nat /\ ~ (n < m)
    BY <1>3, <1>4
  <2> QED BY <2>1
<1> QED BY <1>5

LEMMA ChunkType ==
    ASSUME NEW body \in Seq(Piece), NEW i \in 1..Len(body)
    PROVE  body[i].chunk \in 0..Last /\ body[i].chunk \in Nat
<1>1. body[i] \in Piece
  BY ElementOfSeq
<1> QED BY <1>1, PartialUploadAssumption DEF Piece, Chunks

LEMMA NextChunkSmallest ==
    ASSUME NEW todo \in SUBSET Chunks, todo # {}
    PROVE  NextChunk(todo) \in todo /\ \A d \in todo : NextChunk(todo) <= d
<1>1. \E c \in todo : \A d \in todo : c <= d
  BY Smallest, PartialUploadAssumption DEF Chunks
<1> QED BY <1>1 DEF NextChunk

(* Two places of a sequence that grew by one.                              *)
LEMMA Places ==
    ASSUME NEW n \in Nat, NEW m \in Nat, m = n + 1,
           NEW i \in 1..m, NEW j \in 1..m, i <= j
    PROVE  /\ i <= n => n \in 1..n /\ i \in 1..n
           /\ j <= n \/ i = m \/ (i <= n /\ j = m)
  OBVIOUS

LEMMA SpreadAppend ==
    ASSUME NEW body \in Seq(Piece), Spread(body), NEW p \in Piece,
           \A i \in 1..Len(body) : body[i].chunk < p.chunk
    PROVE  Append(body, p) \in Seq(Piece) /\ Spread(Append(body, p))
<1> DEFINE b == Append(body, p)
<1>1. /\ b \in Seq(Piece) /\ Len(b) = Len(body) + 1 /\ Len(body) \in Nat
      /\ b[Len(b)] = p /\ \A i \in 1..Len(body) : b[i] = body[i]
  BY AppendProperties, LenProperties
<1>2. \A i \in 1..Len(b) : b[i].chunk \in Nat
  BY <1>1, ChunkType
<1>p. p.chunk \in Nat
  BY PartialUploadAssumption DEF Piece, Chunks
<1>n. Len(b) \in Nat /\ Len(b) = Len(body) + 1 /\ Len(body) \in Nat
  BY <1>1
<1> HIDE DEF b
<1>3. ASSUME NEW i \in 1..Len(b), NEW j \in 1..Len(b), i <= j
      PROVE  b[i].chunk + (j - i) <= b[j].chunk
  <2>1. CASE j <= Len(body)
    <3>1. i \in 1..Len(body) /\ j \in 1..Len(body)
      BY <1>n, <1>3, <2>1
    <3> QED BY <1>1, <1>3, <3>1 DEF Spread
  <2>2. CASE i = Len(b)
    <3>1. j = i /\ j - i = 0
      BY <1>1, <1>3, <2>2
    <3> QED BY <1>2, <3>1
  <2>3. CASE i <= Len(body) /\ j = Len(b)
    <3>1. Len(body) \in 1..Len(body) /\ i \in 1..Len(body)
      BY <1>n, <1>3, <2>3, Places
    <3>2. body[i].chunk + (Len(body) - i) <= body[Len(body)].chunk
      BY <3>1, <2>3 DEF Spread
    <3>3. body[Len(body)].chunk + 1 <= p.chunk
      BY <1>1, <1>2, <1>p, <3>1
    <3>4. b[i].chunk = body[i].chunk /\ b[j].chunk = p.chunk /\ body[i].chunk \in Nat
          /\ body[Len(body)].chunk \in Nat
      BY <1>1, <2>3, <3>1, ChunkType
    <3> QED BY <1>1, <1>p, <2>3, <3>2, <3>3, <3>4
  <2>4. j <= Len(body) \/ i = Len(b) \/ (i <= Len(body) /\ j = Len(b))
    BY <1>n, <1>3, Places
  <2> QED BY <2>1, <2>2, <2>3, <2>4
<1>4. Spread(b)
  BY <1>3 DEF Spread
<1> QED BY <1>1, <1>4 DEF b

LEMMA SpreadFacts ==
    ASSUME NEW body \in Seq(Piece), Spread(body)
    PROVE  /\ Ascending(body)
           /\ FullLength(body) =>
                \A i \in 1..Len(body) : body[i].chunk = i - 1 /\ body[i].has # "short"
<1>1. /\ Len(body) \in Nat
      /\ \A i \in 1..Len(body) : body[i].chunk \in 0..Last /\ body[i].chunk \in Nat
  BY ChunkType, LenProperties
<1>2. Ascending(body)
  <2>1. ASSUME NEW i \in 1..Len(body), NEW j \in 1..Len(body), i < j
        PROVE  body[i].chunk < body[j].chunk
    <3>1. body[i].chunk + (j - i) <= body[j].chunk
      BY <1>1, <2>1 DEF Spread
    <3> QED BY <1>1, <2>1, <3>1
  <2> QED BY <2>1 DEF Ascending
<1>3. ASSUME FullLength(body), NEW i \in 1..Len(body)
      PROVE  body[i].chunk = i - 1 /\ body[i].has # "short"
  <2>1. Len(body) = Last + 1 /\ 1 \in 1..Len(body) /\ Len(body) \in 1..Len(body)
    BY <1>1, <1>3, PartialUploadAssumption DEF FullLength
  <2>2. /\ body[1].chunk + (i - 1) <= body[i].chunk
        /\ body[i].chunk + (Len(body) - i) <= body[Len(body)].chunk
    BY <1>3, <2>1 DEF Spread
  <2>3. body[1].chunk \in Nat /\ body[i].chunk \in Nat /\ body[Len(body)].chunk \in 0..Last
    BY <1>1, <2>1
  <2>4. body[i].chunk = i - 1
    BY <2>1, <2>2, <2>3, PartialUploadAssumption
  <2> QED BY <1>3, <2>4 DEF FullLength
<1> QED BY <1>2, <1>3

-----------------------------------------------------------------------------
LEMMA InitOK == Init => IInv
<1> SUFFICES ASSUME Init PROVE IInv
  OBVIOUS
<1>1. TypeOK
  BY PartialUploadAssumption DEF Init, TypeOK, Content, NoFile, Answers
<1>2. ASSUME NEW r \in Request PROVE Progress(r)
  BY DEF Init, Progress, Idle, Spread, At
<1> QED BY <1>1, <1>2 DEF IInv, Init

(* A step that replaces the record of one request.                         *)
LEMMA OneRequest ==
    ASSUME IInv, NEW r \in Request, NEW x,
           req' = [req EXCEPT ![r] = x],
           x = Idle \/ (x \in Busy /\ (x.pc \in {"list", "copy"} => x.chunk = Last)),
           Spread(x.body), \A i \in 1..Len(x.body), c \in x.todo : x.body[i].chunk < c,
           x.pc # "copy" => x.body = <<>>,
           temp' \in [Upload \X Chunks -> Content],
           sends' \in [Upload \X Chunks -> 0..MaxSends],
           answer' \in [Upload \X Chunks -> Answers],
           files' \subseteq [up: Upload, body: Seq(Piece)],
           \A f \in files' : Spread(f.body) /\ (LengthChecked => FullLength(f.body)),
           overlapped' \subseteq Upload \X Chunks
    PROVE  IInv'
<1>1. DOMAIN req = Request /\ DOMAIN req' = Request
  BY DEF IInv, TypeOK
<1>2. /\ req'[r] = x
      /\ \A q \in Request : q # r => req'[q] = req[q]
  BY <1>1
<1>3. \A q \in Request : \/ req'[q] = Idle
                         \/ /\ req'[q] \in Busy
                            /\ req'[q].pc \in {"list", "copy"} => req'[q].chunk = Last
  BY <1>2 DEF IInv, TypeOK
<1>4. \A q \in Request : Progress(q)'
  BY <1>2 DEF IInv, Progress, At
<1> QED BY <1>1, <1>3, <1>4 DEF IInv, TypeOK

LEMMA TempType ==
    ASSUME IInv, NEW f \in Upload \X Chunks, NEW v \in Content
    PROVE  [temp EXCEPT ![f] = v] \in [Upload \X Chunks -> Content]
  BY DEF IInv, TypeOK

LEMMA AnswerType ==
    ASSUME IInv, NEW f \in Upload \X Chunks, NEW v \in Answers
    PROVE  [answer EXCEPT ![f] = v] \in [Upload \X Chunks -> Answers]
  BY DEF IInv, TypeOK

(* What a request that is not idle is known to hold.                       *)
LEMMA BusyFacts ==
    ASSUME IInv, NEW r \in Request, req[r].pc # "idle"
    PROVE  /\ req[r] \in Busy /\ req[r].up \in Upload /\ req[r].chunk \in Chunks
           /\ req[r].todo \subseteq Chunks /\ req[r].body \in Seq(Piece)
           /\ req[r].pc \in {"list", "copy"} => req[r].chunk = Last
           /\ Target(r) \in Upload \X Chunks
           /\ temp[Target(r)] \in Content /\ answer[Target(r)] \in Answers
  BY DEF IInv, TypeOK, Idle, Busy, Target

(* What r leaves in the file it had open.                                  *)
LEMMA LeaveType ==
    ASSUME IInv, NEW r \in Request, req[r].pc # "idle",
           NEW has \in {"none", "short", "holed", "full"}, Leave(r, has)
    PROVE  temp' \in [Upload \X Chunks -> Content]
<1>1. temp[Target(r)] \in Content /\ Target(r) \in Upload \X Chunks
  BY BusyFacts
<1>2. [has |-> has, by |-> temp[Target(r)].by \ {r}, late |-> temp[Target(r)].late \ {r}]
        \in Content
  BY <1>1 DEF Content
<1> QED BY <1>1, <1>2, TempType DEF Leave

LEMMA OutcomesType ==
    ASSUME NEW file \in Content, NEW r
    PROVE  Outcomes(file, r) \subseteq {"none", "short", "holed", "full"}
  BY DEF Outcomes, Content

LEMMA FilesSame ==
    ASSUME IInv, UNCHANGED files
    PROVE  /\ files' \subseteq [up: Upload, body: Seq(Piece)]
           /\ \A f \in files' : Spread(f.body) /\ (LengthChecked => FullLength(f.body))
  BY DEF IInv, TypeOK

(* An answer, and the request is over.                                     *)
LEMMA ReplyStep ==
    ASSUME IInv, NEW r \in Request, req[r].pc # "idle", NEW a \in {"ok", "failed"}, Reply(r, a),
           UNCHANGED sends, temp' \in [Upload \X Chunks -> Content],
           files' \subseteq [up: Upload, body: Seq(Piece)],
           \A f \in files' : Spread(f.body) /\ (LengthChecked => FullLength(f.body)),
           overlapped' \subseteq Upload \X Chunks
    PROVE  IInv'
<1>1. answer' \in [Upload \X Chunks -> Answers]
  <2>1. answer[Target(r)] \in Answers
    BY BusyFacts, Zenon
  <2>2. a \in Answers
    BY DEF Answers
  <2>3. (IF answer[Target(r)] = r THEN a ELSE answer[Target(r)]) \in Answers
    BY <2>1, <2>2
  <2> QED BY <2>3, AnswerType, BusyFacts DEF Reply
<1>2. /\ Idle.body = <<>> /\ Idle.todo = {} /\ Idle.pc = "idle"
      /\ Spread(Idle.body)
  BY DEF Idle, Spread
<1>3. sends' \in [Upload \X Chunks -> 0..MaxSends]
  BY DEF IInv, TypeOK
<1> QED BY <1>1, <1>2, <1>3, OneRequest DEF Reply

(* The record of a request moves on within Busy.                           *)
LEMMA BusyStep ==
    ASSUME IInv, NEW r \in Request, NEW x \in Busy, req' = [req EXCEPT ![r] = x],
           x.pc \in {"list", "copy"} => x.chunk = Last,
           Spread(x.body), \A i \in 1..Len(x.body), c \in x.todo : x.body[i].chunk < c,
           x.pc # "copy" => x.body = <<>>,
           temp' \in [Upload \X Chunks -> Content],
           UNCHANGED <<sends, answer, files>>,
           overlapped' \subseteq Upload \X Chunks
    PROVE  IInv'
<1>1. /\ sends' \in [Upload \X Chunks -> 0..MaxSends]
      /\ answer' \in [Upload \X Chunks -> Answers]
  BY DEF IInv, TypeOK
<1> QED BY <1>1, OneRequest, FilesSame

-----------------------------------------------------------------------------
LEMMA ClientStep ==
    ASSUME IInv,
           (\E r \in Request, u \in Upload, c \in Chunks : Send(r, u, c))
             \/ (\E u \in Upload, c \in Chunks : GiveUp(u, c))
    PROVE  IInv'
<1>1. ASSUME NEW r \in Request, NEW u \in Upload, NEW c \in Chunks, Send(r, u, c) PROVE IInv'
  <2> DEFINE x == Begun(u, c)
  <2>0. <<>> \in Seq(Piece) /\ Spread(<<>>)
    BY EmptySeq DEF Spread
  <2>1. /\ x \in Busy /\ x.pc = "open" /\ x.body = <<>> /\ x.todo = {}
        /\ Spread(x.body)
    BY <2>0 DEF Begun, Busy
  <2>5. req' = [req EXCEPT ![r] = x]
    BY <1>1 DEF Send
  <2> HIDE DEF x
  <2>2. sends' \in [Upload \X Chunks -> 0..MaxSends]
    <3>1. sends[<<u, c>>] \in 0..MaxSends /\ sends[<<u, c>>] < MaxSends
      BY <1>1 DEF Send, IInv, TypeOK
    <3>2. sends[<<u, c>>] + 1 \in 0..MaxSends
      BY <3>1, PartialUploadAssumption
    <3> QED BY <1>1, <3>2 DEF Send, IInv, TypeOK
  <2>3. answer' \in [Upload \X Chunks -> Answers]
    BY <1>1, AnswerType DEF Send, Answers
  <2>4. temp' \in [Upload \X Chunks -> Content]
    BY <1>1 DEF Send, IInv, TypeOK
  <2>6. UNCHANGED files /\ overlapped' \subseteq Upload \X Chunks
    BY <1>1 DEF Send, IInv, TypeOK
  <2> QED BY <2>1, <2>2, <2>3, <2>4, <2>5, <2>6, OneRequest, FilesSame
<1>2. ASSUME NEW u \in Upload, NEW c \in Chunks, GiveUp(u, c) PROVE IInv'
  <2>1. answer' \in [Upload \X Chunks -> Answers]
    BY <1>2, AnswerType DEF GiveUp, Answers
  <2> QED BY <1>2, <2>1 DEF GiveUp, IInv, TypeOK, Progress, At
<1> QED BY <1>1, <1>2

LEMMA WriterStep ==
    ASSUME IInv, NEW r \in Request, Refuse(r) \/ Open(r) \/ Write(r) \/ WriteFails(r)
    PROVE  IInv'
<1>0. req[r].pc # "idle" /\ ~At(r, "copy")
  BY DEF Refuse, Open, Write, WriteFails, At
<1>b. /\ req[r].body = <<>> /\ Spread(req[r].body)
      /\ \A i \in 1..Len(req[r].body), c \in req[r].todo : req[r].body[i].chunk < c
  BY <1>0 DEF IInv, Progress
<1>t. temp[Target(r)] \in Content /\ Target(r) \in Upload \X Chunks
  BY <1>0, BusyFacts
<1>o. overlapped' \subseteq Upload \X Chunks
  <2>1. overlapped \subseteq Upload \X Chunks
    BY DEF IInv, TypeOK
  <2>2. overlapped' = overlapped \/ Open(r)
    BY DEF Refuse, Write, WriteFails
  <2> QED BY <1>t, <2>1, <2>2 DEF Open
<1>1. CASE Open(r)
  <2> DEFINE x == [req[r] EXCEPT !.pc = "write"]
  <2>1. /\ x \in Busy /\ x.pc = "write" /\ x.body = req[r].body /\ x.todo = req[r].todo
    BY <1>0, BusyFacts DEF Busy
  <2>2. req' = [req EXCEPT ![r] = x]
    BY <1>1 DEF Open
  <2> HIDE DEF x
  <2>3. temp' \in [Upload \X Chunks -> Content]
    <3> DEFINE v == [has |-> "short", by |-> temp[Target(r)].by \union {r},
                     late |-> temp[Target(r)].by]
    <3>1. v \in Content
      BY <1>t DEF Content
    <3>2. temp' = [temp EXCEPT ![Target(r)] = v]
      BY <1>1 DEF Open
    <3> QED BY <1>t, <3>1, <3>2, TempType
  <2>4. UNCHANGED <<sends, answer, files>>
    BY <1>1 DEF Open
  <2> QED BY <1>b, <1>o, <2>1, <2>2, <2>3, <2>4, BusyStep
<1>2. CASE Write(r)
  <2>1. temp' \in [Upload \X Chunks -> Content]
    <3>1. PICK has \in Outcomes(temp[Target(r)], r) : Leave(r, has)
      BY <1>2 DEF Write
    <3>2. has \in {"none", "short", "holed", "full"}
      BY <1>t, <3>1, OutcomesType
    <3> QED BY <1>0, <3>1, <3>2, LeaveType
  <2>2. CASE req[r].chunk = Last
    <3> DEFINE x == [req[r] EXCEPT !.pc = "list"]
    <3>1. /\ x \in Busy /\ x.pc = "list" /\ x.body = req[r].body /\ x.todo = req[r].todo
          /\ x.chunk = Last
      BY <1>0, <2>2, BusyFacts DEF Busy
    <3>2. req' = [req EXCEPT ![r] = x]
      BY <1>2, <2>2 DEF Write
    <3> HIDE DEF x
    <3>3. UNCHANGED <<sends, answer, files>>
      BY <1>2, <2>2 DEF Write
    <3> QED BY <1>b, <1>o, <2>1, <3>1, <3>2, <3>3, BusyStep
  <2>3. CASE req[r].chunk # Last
    <3>1. Reply(r, "ok") /\ UNCHANGED <<sends, files>>
      BY <1>2, <2>3 DEF Write
    <3> QED BY <1>0, <1>o, <2>1, <3>1, ReplyStep, FilesSame
  <2> QED BY <2>2, <2>3
<1>3. CASE WriteFails(r)
  <2>1. temp' \in [Upload \X Chunks -> Content]
    <3>1. Leave(r, temp[Target(r)].has)
      BY <1>3 DEF WriteFails
    <3>2. temp[Target(r)].has \in {"none", "short", "holed", "full"}
      BY <1>t DEF Content
    <3> QED BY <1>0, <3>1, <3>2, LeaveType
  <2>2. Reply(r, "failed") /\ UNCHANGED <<sends, files>>
    BY <1>3 DEF WriteFails
  <2> QED BY <1>0, <1>o, <2>1, <2>2, ReplyStep, FilesSame
<1>4. CASE Refuse(r)
  <2>1. Reply(r, "failed") /\ UNCHANGED <<temp, sends, files>>
    BY <1>4 DEF Refuse
  <2>2. temp' \in [Upload \X Chunks -> Content]
    BY <2>1 DEF IInv, TypeOK
  <2> QED BY <1>0, <1>o, <2>1, <2>2, ReplyStep, FilesSame
<1> QED BY <1>1, <1>2, <1>3, <1>4

(* Copying a chunk keeps what is copied before what remains.               *)
LEMMA CopyStep ==
    ASSUME IInv, NEW r \in Request, Copy(r)
    PROVE  IInv'
<1> DEFINE todo == req[r].todo
           body == req[r].body
           c == NextChunk(todo)
           f == <<req[r].up, c>>
           p == [chunk |-> c, has |-> temp[f].has]
           x == [req[r] EXCEPT !.todo = todo \ {c}, !.body = Append(body, p)]
<1>0. /\ req[r].pc = "copy" /\ todo # {}
      /\ Spread(body) /\ \A i \in 1..Len(body), d \in todo : body[i].chunk < d
  BY DEF Copy, At, IInv, Progress
<1>1. /\ req[r] \in Busy /\ todo \subseteq Chunks /\ body \in Seq(Piece)
      /\ req[r].up \in Upload /\ req[r].chunk = Last
  BY <1>0, BusyFacts
<1>2. c \in todo /\ \A d \in todo : c <= d
  BY <1>0, <1>1, NextChunkSmallest
<1>3. f \in Upload \X Chunks /\ temp[f] \in Content
  BY <1>1, <1>2 DEF IInv, TypeOK
<1>o. overlapped' \subseteq Upload \X Chunks
  BY DEF Copy, IInv, TypeOK
<1>7. CASE temp[f].has = "none"
  <2>1. Reply(r, "failed") /\ UNCHANGED <<temp, sends, files>>
    BY <1>7 DEF Copy
  <2>2. temp' \in [Upload \X Chunks -> Content]
    BY <2>1 DEF IInv, TypeOK
  <2> QED BY <1>0, <1>o, <2>1, <2>2, ReplyStep, FilesSame
<1>8. CASE temp[f].has # "none"
  <2>0. p \in Piece /\ p.chunk = c
    BY <1>1, <1>2, <1>3, <1>8 DEF Piece, Content
  <2>4. Append(body, p) \in Seq(Piece) /\ Spread(Append(body, p))
    BY <1>0, <1>1, <1>2, <2>0, SpreadAppend
  <2>5. x \in Busy /\ x.pc = "copy" /\ x.body = Append(body, p) /\ x.todo = todo \ {c}
        /\ x.chunk = Last
    BY <1>0, <1>1, <2>4 DEF Busy
  <2>6. ASSUME NEW i \in 1..Len(Append(body, p)), NEW d \in todo \ {c}
        PROVE  Append(body, p)[i].chunk < d
    <3>1. c < d
      <4>1. c \in Nat /\ d \in Nat /\ c <= d /\ c # d
        BY <1>1, <1>2, PartialUploadAssumption DEF Chunks
      <4> QED BY <4>1
    <3>2. CASE i \in 1..Len(body)
      BY <1>0, <1>1, <3>2, AppendProperties, LenProperties
    <3>3. CASE i = Len(body) + 1
      BY <1>1, <2>0, <3>1, <3>3, AppendProperties, LenProperties
    <3> QED BY <1>1, <3>2, <3>3, AppendProperties, LenProperties
  <2>1. /\ temp' = [temp EXCEPT ![f] = NoFile]
        /\ UNCHANGED <<sends, answer, files>>
    BY <1>8 DEF Copy
  <2>2. req' = [req EXCEPT ![r] = x]
    BY <1>8 DEF Copy
  <2>n. NoFile \in Content
    BY DEF NoFile, Content
  <2>3. temp' \in [Upload \X Chunks -> Content]
    BY <1>3, <2>1, <2>n, TempType
  <2>7. /\ Spread(x.body) /\ \A i \in 1..Len(x.body), d \in x.todo : x.body[i].chunk < d
        /\ x \in Busy /\ x.pc = "copy" /\ x.chunk = Last
    BY <2>4, <2>5, <2>6, Zenon
  <2> HIDE DEF x, p, f, c, todo, body
  <2> QED BY <1>o, <2>7, <2>1, <2>2, <2>3, BusyStep
<1> QED BY <1>7, <1>8

LEMMA ListStep ==
    ASSUME IInv, NEW r \in Request, List(r)
    PROVE  IInv'
<1> DEFINE x == [req[r] EXCEPT !.pc = "copy", !.todo = Listed(req[r].up)]
<1>0. req[r].pc = "list" /\ req[r].body = <<>> /\ Spread(req[r].body)
  BY DEF List, At, IInv, Progress
<1>1. /\ x \in Busy /\ x.pc = "copy" /\ x.chunk = Last /\ x.body = <<>>
      /\ Spread(x.body) /\ \A i \in 1..Len(x.body), c \in x.todo : x.body[i].chunk < c
  <2>1. Listed(req[r].up) \subseteq Chunks
    BY DEF Listed
  <2>2. x \in Busy /\ x.pc = "copy" /\ x.chunk = Last /\ x.body = <<>>
    BY <1>0, <2>1, BusyFacts DEF Busy
  <2> HIDE DEF x
  <2> QED BY <2>2 DEF Spread
<1>2. /\ UNCHANGED <<sends, files>> /\ temp' \in [Upload \X Chunks -> Content]
      /\ overlapped' \subseteq Upload \X Chunks
  BY DEF List, IInv, TypeOK
<1>3. CASE Listed(req[r].up) = {}
  <2>1. Reply(r, "failed")
    BY <1>3 DEF List
  <2> QED BY <1>0, <1>2, <2>1, ReplyStep, FilesSame
<1>4. CASE Listed(req[r].up) # {}
  <2>1. req' = [req EXCEPT ![r] = x] /\ UNCHANGED answer
    BY <1>4 DEF List
  <2> HIDE DEF x
  <2> QED BY <1>1, <1>2, <2>1, BusyStep
<1> QED BY <1>3, <1>4

LEMMA EndStep ==
    ASSUME IInv, NEW r \in Request, CopyFails(r) \/ Store(r) \/ StoreFails(r)
    PROVE  IInv'
<1>0. req[r].pc = "copy" /\ Spread(req[r].body) /\ UNCHANGED sends
  BY DEF CopyFails, Store, StoreFails, At, IInv, Progress
<1>o. overlapped' \subseteq Upload \X Chunks
  BY DEF CopyFails, Store, StoreFails, IInv, TypeOK
<1>1. CASE CopyFails(r)
  <2>1. Reply(r, "failed") /\ UNCHANGED files
    BY <1>1 DEF CopyFails
  <2>2. <<req[r].up, NextChunk(req[r].todo)>> \in Upload \X Chunks
    BY <1>0, <1>1, BusyFacts, NextChunkSmallest DEF CopyFails
  <2>3. temp' \in [Upload \X Chunks -> Content]
    <3>1. NoFile \in Content
      BY DEF NoFile, Content
    <3> QED BY <1>1, <2>2, <3>1, TempType DEF CopyFails
  <2> QED BY <1>0, <1>o, <2>1, <2>3, ReplyStep, FilesSame
<1>2. CASE Store(r)
  <2>1. /\ Reply(r, "ok") /\ UNCHANGED temp
        /\ files' = files \union {[up |-> req[r].up, body |-> req[r].body]}
        /\ LengthChecked => FullLength(req[r].body)
    BY <1>2 DEF Store
  <2>2. temp' \in [Upload \X Chunks -> Content]
    BY <2>1 DEF IInv, TypeOK
  <2>3. req[r].up \in Upload /\ req[r].body \in Seq(Piece)
    BY <1>0, BusyFacts
  <2>4. /\ files' \subseteq [up: Upload, body: Seq(Piece)]
        /\ \A f \in files' : Spread(f.body) /\ (LengthChecked => FullLength(f.body))
    BY <1>0, <2>1, <2>3 DEF IInv, TypeOK
  <2> QED BY <1>0, <1>o, <2>1, <2>2, <2>4, ReplyStep
<1>3. CASE StoreFails(r)
  <2>1. Reply(r, "failed") /\ UNCHANGED <<temp, files>>
    BY <1>3 DEF StoreFails
  <2>2. temp' \in [Upload \X Chunks -> Content]
    BY <2>1 DEF IInv, TypeOK
  <2> QED BY <1>0, <1>o, <2>1, <2>2, ReplyStep, FilesSame
<1> QED BY <1>1, <1>2, <1>3

LEMMA OutsideStep ==
    ASSUME IInv,
           (\E u \in Upload, c \in Chunks : ClearChunk(u, c))
             \/ (\E r \in Request : ClearAssembled(r)) \/ Crash \/ UNCHANGED vars
    PROVE  IInv'
<1>1. ASSUME NEW u \in Upload, NEW c \in Chunks, ClearChunk(u, c) PROVE IInv'
  <2>1. temp' \in [Upload \X Chunks -> Content]
    <3>1. NoFile \in Content
      BY DEF NoFile, Content
    <3> QED BY <1>1, <3>1, TempType DEF ClearChunk
  <2> QED BY <1>1, <2>1 DEF ClearChunk, IInv, TypeOK, Progress, At
<1>2. ASSUME NEW r \in Request, ClearAssembled(r) PROVE IInv'
  <2> DEFINE x == [req[r] EXCEPT !.gone = TRUE]
  <2>1. req[r].pc = "copy"
    BY <1>2 DEF ClearAssembled, At
  <2>2. /\ x \in Busy /\ x.pc = "copy" /\ x.chunk = Last
        /\ x.body = req[r].body /\ x.todo = req[r].todo
    BY <2>1, BusyFacts DEF Busy
  <2>3. req' = [req EXCEPT ![r] = x] /\ UNCHANGED <<sends, answer, files>>
    BY <1>2 DEF ClearAssembled
  <2>4. /\ temp' \in [Upload \X Chunks -> Content]
        /\ overlapped' \subseteq Upload \X Chunks
    BY <1>2 DEF ClearAssembled, IInv, TypeOK
  <2>5. /\ Spread(req[r].body)
        /\ \A i \in 1..Len(req[r].body), c \in req[r].todo : req[r].body[i].chunk < c
    BY DEF IInv, Progress
  <2> HIDE DEF x
  <2> QED BY <2>2, <2>3, <2>4, <2>5, BusyStep
<1>3. CASE Crash
  <2>1. \A r \in Request : req'[r] = Idle
    BY <1>3 DEF Crash
  <2>2. temp' \in [Upload \X Chunks -> Content]
    <3>1. ASSUME NEW f \in Upload \X Chunks
          PROVE  [temp[f] EXCEPT !.by = {}, !.late = {}] \in Content
      <4>1. temp[f] \in Content
        BY DEF IInv, TypeOK
      <4> QED BY <4>1 DEF Content
    <3> QED BY <1>3, <3>1 DEF Crash
  <2>3. answer' \in [Upload \X Chunks -> Answers]
    BY <1>3 DEF Crash, IInv, TypeOK, Answers
  <2>4. TypeOK'
    BY <1>3, <2>1, <2>2, <2>3 DEF Crash, IInv, TypeOK
  <2>5. \A r \in Request : Progress(r)'
    BY <2>1 DEF Progress, At, Idle, Spread
  <2> QED BY <1>3, <2>4, <2>5 DEF Crash, IInv
<1>4. CASE UNCHANGED vars
  BY <1>4 DEF vars, IInv, TypeOK, Progress, At
<1> QED BY <1>1, <1>2, <1>3, <1>4

(* A hole in a file, or in what is copied of it, is disclosed.             *)
LEMMA OverlappedGrows == ASSUME [Next]_vars PROVE overlapped \subseteq overlapped'
  BY DEF vars, Next, Send, GiveUp, ClearChunk, Refuse, Open, Write, WriteFails, List, Copy,
         CopyFails, Store, StoreFails, ClearAssembled, Crash

LEMMA StillShown ==
    ASSUME NEW u, NEW body, Shown(u, body, overlapped), overlapped \subseteq overlapped'
    PROVE  Shown(u, body, overlapped')
  BY DEF Shown

(* What each step does to the files, the requests and what is stored.      *)
LEMMA HolesKept ==
    ASSUME Holes, overlapped \subseteq overlapped',
           \A f \in Upload \X Chunks :
              \/ temp'[f] = temp[f]
              \/ temp'[f].has = "holed" \/ temp'[f].late # {} => f \in overlapped',
           \A r \in Request :
              \/ req'[r].up = req[r].up /\ req'[r].body = req[r].body
              \/ Shown(req'[r].up, req'[r].body, overlapped') \/ req'[r].body = <<>>,
           \A f \in files' : \/ f \in files
                             \/ \E r \in Request : f.up = req[r].up /\ f.body = req[r].body
    PROVE  Holes'
<1>1. \A f \in Upload \X Chunks : temp'[f].has = "holed" \/ temp'[f].late # {} => f \in overlapped'
  BY DEF Holes
<1>2. ASSUME NEW r \in Request PROVE Shown(req'[r].up, req'[r].body, overlapped')
  <2>1. CASE req'[r].up = req[r].up /\ req'[r].body = req[r].body
    BY <2>1 DEF Holes, Shown
  <2>2. CASE req'[r].body = <<>>
    BY <2>2 DEF Shown
  <2> QED BY <2>1, <2>2
<1>3. ASSUME NEW f \in files' PROVE Shown(f.up, f.body, overlapped')
  <2>1. Shown(f.up, f.body, overlapped)
    BY DEF Holes
  <2> QED BY <2>1, StillShown
<1> QED BY <1>1, <1>2, <1>3 DEF Holes

LEMMA OneFile ==
    ASSUME IInv, NEW g \in Upload \X Chunks, NEW v, temp' = [temp EXCEPT ![g] = v],
           v.has = "holed" \/ v.late # {} => g \in overlapped'
    PROVE  \A f \in Upload \X Chunks :
              \/ temp'[f] = temp[f]
              \/ temp'[f].has = "holed" \/ temp'[f].late # {} => f \in overlapped'
  BY DEF IInv, TypeOK

LEMMA EmptyHasNoHole == NoFile.has # "holed" /\ NoFile.late = {}
  BY DEF NoFile

(* What becomes of the requests when one of them ends or moves on.         *)
LEMMA OthersShown ==
    ASSUME IInv, NEW r \in Request, NEW x, req' = [req EXCEPT ![r] = x],
           \/ x.up = req[r].up /\ x.body = req[r].body
           \/ Shown(x.up, x.body, overlapped') \/ x.body = <<>>
    PROVE  \A q \in Request :
              \/ req'[q].up = req[q].up /\ req'[q].body = req[q].body
              \/ Shown(req'[q].up, req'[q].body, overlapped') \/ req'[q].body = <<>>
<1>1. req'[r] = x /\ \A q \in Request : q # r => req'[q] = req[q]
  BY DEF IInv, TypeOK
<1>2. ASSUME NEW q \in Request, q # r PROVE req'[q].up = req[q].up /\ req'[q].body = req[q].body
  BY <1>1, <1>2
<1>3. \/ req'[r].up = req[r].up /\ req'[r].body = req[r].body
      \/ Shown(req'[r].up, req'[r].body, overlapped') \/ req'[r].body = <<>>
  BY <1>1 DEF Shown
<1> QED BY <1>2, <1>3

LEMMA ReplyShown ==
    ASSUME IInv, NEW r \in Request, NEW a, Reply(r, a)
    PROVE  \A q \in Request :
              \/ req'[q].up = req[q].up /\ req'[q].body = req[q].body
              \/ Shown(req'[q].up, req'[q].body, overlapped') \/ req'[q].body = <<>>
<1>1. Idle.body = <<>>
  BY DEF Idle
<1> QED BY <1>1, OthersShown DEF Reply

(* A request leaves a hole only in a file truncated under it.              *)
LEMMA LeaveHoles ==
    ASSUME IInv, Holes, NEW r \in Request, req[r].pc # "idle",
           NEW has \in Outcomes(temp[Target(r)], r), Leave(r, has), overlapped \subseteq overlapped'
    PROVE  \A f \in Upload \X Chunks :
              \/ temp'[f] = temp[f]
              \/ temp'[f].has = "holed" \/ temp'[f].late # {} => f \in overlapped'
<1> DEFINE g == Target(r)
           v == [has |-> has, by |-> temp[g].by \ {r}, late |-> temp[g].late \ {r}]
<1>1. g \in Upload \X Chunks
  BY BusyFacts
<1>2. temp' = [temp EXCEPT ![g] = v]
  BY DEF Leave
<1>3. v.has = has /\ (v.late # {} => temp[g].late # {})
  OBVIOUS
<1>4. has = "holed" => temp[g].has = "holed" \/ temp[g].late # {}
  BY DEF Outcomes
<1>5. temp[g].has = "holed" \/ temp[g].late # {} => g \in overlapped'
  BY <1>1 DEF Holes
<1> HIDE DEF g, v
<1> QED BY <1>1, <1>2, <1>3, <1>4, <1>5, OneFile

LEMMA WriterHoles ==
    ASSUME IInv, Holes, overlapped \subseteq overlapped', NEW r \in Request,
           Refuse(r) \/ Open(r) \/ Write(r) \/ WriteFails(r)
    PROVE  Holes'
<1>0. req[r].pc # "idle" /\ files' = files
  BY DEF Refuse, Open, Write, WriteFails, At
<1>t. temp[Target(r)] \in Content /\ Target(r) \in Upload \X Chunks
  BY <1>0, BusyFacts
<1>1. CASE Refuse(r)
  BY <1>0, <1>1, ReplyShown, HolesKept DEF Refuse
<1>2. CASE Open(r)
  <2> DEFINE g == Target(r)
             v == [has |-> "short", by |-> temp[g].by \union {r}, late |-> temp[g].by]
             x == [req[r] EXCEPT !.pc = "write"]
  <2>1. temp' = [temp EXCEPT ![g] = v] /\ req' = [req EXCEPT ![r] = x]
    BY <1>2 DEF Open
  <2>2. v.has # "holed" /\ (v.late # {} => g \in overlapped')
    BY <1>2 DEF Open
  <2>3. x.up = req[r].up /\ x.body = req[r].body
    BY <1>0, BusyFacts DEF Busy
  <2>4. g \in Upload \X Chunks
    BY <1>t
  <2> HIDE DEF g, v, x
  <2>5. \A f \in Upload \X Chunks :
              \/ temp'[f] = temp[f]
              \/ temp'[f].has = "holed" \/ temp'[f].late # {} => f \in overlapped'
    BY <2>1, <2>2, <2>4, OneFile
  <2>6. \A q \in Request :
              \/ req'[q].up = req[q].up /\ req'[q].body = req[q].body
              \/ Shown(req'[q].up, req'[q].body, overlapped') \/ req'[q].body = <<>>
    BY <2>1, <2>3, OthersShown
  <2> QED BY <1>0, <2>5, <2>6, HolesKept
<1>3. CASE Write(r)
  <2>1. \A f \in Upload \X Chunks :
              \/ temp'[f] = temp[f]
              \/ temp'[f].has = "holed" \/ temp'[f].late # {} => f \in overlapped'
    BY <1>0, <1>3, LeaveHoles DEF Write
  <2>2. \A q \in Request :
              \/ req'[q].up = req[q].up /\ req'[q].body = req[q].body
              \/ Shown(req'[q].up, req'[q].body, overlapped') \/ req'[q].body = <<>>
    <3>1. CASE req[r].chunk = Last
      <4> DEFINE x == [req[r] EXCEPT !.pc = "list"]
      <4>1. x.up = req[r].up /\ x.body = req[r].body
        BY <1>0, BusyFacts DEF Busy
      <4>2. req' = [req EXCEPT ![r] = x]
        BY <1>3, <3>1 DEF Write
      <4> HIDE DEF x
      <4> QED BY <4>1, <4>2, OthersShown
    <3>2. CASE req[r].chunk # Last
      BY <1>3, <3>2, ReplyShown DEF Write
    <3> QED BY <3>1, <3>2
  <2> QED BY <1>0, <2>1, <2>2, HolesKept
<1>4. CASE WriteFails(r)
  <2> DEFINE g == Target(r)
             v == [has |-> temp[g].has, by |-> temp[g].by \ {r}, late |-> temp[g].late \ {r}]
  <2>1. temp' = [temp EXCEPT ![g] = v]
    BY <1>4 DEF WriteFails, Leave
  <2>2. v.has = "holed" \/ v.late # {} => temp[g].has = "holed" \/ temp[g].late # {}
    OBVIOUS
  <2>3. temp[g].has = "holed" \/ temp[g].late # {} => g \in overlapped'
    BY <1>t DEF Holes
  <2>4. g \in Upload \X Chunks
    BY <1>t
  <2> HIDE DEF g, v
  <2>5. \A f \in Upload \X Chunks :
              \/ temp'[f] = temp[f]
              \/ temp'[f].has = "holed" \/ temp'[f].late # {} => f \in overlapped'
    BY <2>1, <2>2, <2>3, <2>4, OneFile
  <2>6. Reply(r, "failed")
    BY <1>4 DEF WriteFails
  <2> QED BY <1>0, <2>5, <2>6, ReplyShown, HolesKept
<1> QED BY <1>1, <1>2, <1>3, <1>4

(* What is appended has a hole if the chunk file has.                      *)
LEMMA CopyHoles ==
    ASSUME IInv, Holes, overlapped \subseteq overlapped', NEW r \in Request, Copy(r)
    PROVE  Holes'
<1> DEFINE body == req[r].body
           c == NextChunk(req[r].todo)
           f == <<req[r].up, c>>
           p == [chunk |-> c, has |-> temp[f].has]
           x == [req[r] EXCEPT !.todo = @ \ {c}, !.body = Append(@, p)]
<1>0. req[r].pc = "copy" /\ req[r].todo # {} /\ files' = files
  BY DEF Copy, At
<1>1. /\ req[r] \in Busy /\ req[r].todo \subseteq Chunks /\ body \in Seq(Piece)
      /\ req[r].up \in Upload
  BY <1>0, BusyFacts
<1>2. c \in Chunks /\ f \in Upload \X Chunks
  BY <1>0, <1>1, NextChunkSmallest
<1>3. CASE temp[f].has = "none"
  <2>1. Reply(r, "failed") /\ UNCHANGED temp
    BY <1>3 DEF Copy
  <2> QED BY <1>0, <2>1, ReplyShown, HolesKept
<1>4. CASE temp[f].has # "none"
  <2>1. temp' = [temp EXCEPT ![f] = NoFile] /\ req' = [req EXCEPT ![r] = x]
    BY <1>4 DEF Copy
  <2>2. x.up = req[r].up /\ x.body = Append(body, p)
    BY <1>1 DEF Busy
  <2>3. p.has = "holed" => f \in overlapped'
    BY <1>2 DEF Holes
  <2>4. Shown(req[r].up, body, overlapped')
    <3>1. Shown(req[r].up, body, overlapped)
      BY DEF Holes
    <3> QED BY <3>1, StillShown
  <2>5. Append(body, p) \in Seq(Piece) /\ p.chunk = c
    <3>1. p \in Piece
      BY <1>2, <1>4 DEF Piece, Content, IInv, TypeOK
    <3> QED BY <1>1, <3>1, AppendProperties
  <2>6. ASSUME NEW i \in 1..Len(Append(body, p)), Append(body, p)[i].has = "holed"
        PROVE  <<req[r].up, Append(body, p)[i].chunk>> \in overlapped'
    <3>1. p \in Piece
      BY <1>2, <1>4 DEF Piece, Content, IInv, TypeOK
    <3>2. CASE i \in 1..Len(body)
      BY <1>1, <2>4, <2>6, <3>1, <3>2, AppendProperties DEF Shown
    <3>3. CASE i = Len(body) + 1
      BY <1>1, <2>3, <2>5, <2>6, <3>1, <3>3, AppendProperties
    <3> QED BY <1>1, <3>1, <3>2, <3>3, AppendProperties, LenProperties
  <2>7. Shown(x.up, x.body, overlapped')
    BY <2>2, <2>6 DEF Shown
  <2>8. \A q \in Request :
              \/ req'[q].up = req[q].up /\ req'[q].body = req[q].body
              \/ Shown(req'[q].up, req'[q].body, overlapped') \/ req'[q].body = <<>>
    <3> HIDE DEF x
    <3> QED BY <2>1, <2>7, OthersShown
  <2>9. \A g \in Upload \X Chunks :
              \/ temp'[g] = temp[g]
              \/ temp'[g].has = "holed" \/ temp'[g].late # {} => g \in overlapped'
    BY <1>2, <2>1, EmptyHasNoHole, OneFile
  <2> QED BY <1>0, <2>8, <2>9, HolesKept
<1> QED BY <1>3, <1>4

(* Listing, failing and storing.                                           *)
LEMMA EndHoles ==
    ASSUME IInv, Holes, overlapped \subseteq overlapped', NEW r \in Request,
           List(r) \/ CopyFails(r) \/ Store(r) \/ StoreFails(r) \/ ClearAssembled(r)
    PROVE  Holes'
<1>0. req[r].pc # "idle"
  BY DEF List, CopyFails, Store, StoreFails, ClearAssembled, At
<1>1. CASE List(r)
  <2>1. CASE Listed(req[r].up) = {}
    BY <1>1, <2>1, ReplyShown, HolesKept DEF List
  <2>2. CASE Listed(req[r].up) # {}
    <3> DEFINE x == [req[r] EXCEPT !.pc = "copy", !.todo = Listed(req[r].up)]
    <3>1. x.up = req[r].up /\ x.body = req[r].body
      BY <1>0, BusyFacts DEF Busy
    <3>2. req' = [req EXCEPT ![r] = x] /\ UNCHANGED <<temp, files>>
      BY <1>1, <2>2 DEF List
    <3> HIDE DEF x
    <3>3. \A q \in Request :
              \/ req'[q].up = req[q].up /\ req'[q].body = req[q].body
              \/ Shown(req'[q].up, req'[q].body, overlapped') \/ req'[q].body = <<>>
      BY <3>1, <3>2, OthersShown
    <3> QED BY <3>2, <3>3, HolesKept
  <2> QED BY <2>1, <2>2
<1>2. CASE CopyFails(r)
  <2>1. <<req[r].up, NextChunk(req[r].todo)>> \in Upload \X Chunks
    BY <1>0, <1>2, BusyFacts, NextChunkSmallest DEF CopyFails
  <2>2. \A g \in Upload \X Chunks :
              \/ temp'[g] = temp[g]
              \/ temp'[g].has = "holed" \/ temp'[g].late # {} => g \in overlapped'
    BY <1>2, <2>1, EmptyHasNoHole, OneFile DEF CopyFails
  <2>3. Reply(r, "failed") /\ UNCHANGED files
    BY <1>2 DEF CopyFails
  <2> QED BY <2>2, <2>3, ReplyShown, HolesKept
<1>3. CASE Store(r)
  <2>1. /\ Reply(r, "ok") /\ UNCHANGED temp
        /\ files' = files \union {[up |-> req[r].up, body |-> req[r].body]}
    BY <1>3 DEF Store
  <2>2. \A f \in files' : \/ f \in files
                          \/ \E q \in Request : f.up = req[q].up /\ f.body = req[q].body
    BY <2>1
  <2> QED BY <2>1, <2>2, ReplyShown, HolesKept
<1>4. CASE StoreFails(r)
  BY <1>4, ReplyShown, HolesKept DEF StoreFails
<1>5. CASE ClearAssembled(r)
  <2> DEFINE x == [req[r] EXCEPT !.gone = TRUE]
  <2>1. x.up = req[r].up /\ x.body = req[r].body
    BY <1>0, BusyFacts DEF Busy
  <2>2. req' = [req EXCEPT ![r] = x] /\ UNCHANGED <<temp, files>>
    BY <1>5 DEF ClearAssembled
  <2> HIDE DEF x
  <2>3. \A q \in Request :
            \/ req'[q].up = req[q].up /\ req'[q].body = req[q].body
            \/ Shown(req'[q].up, req'[q].body, overlapped') \/ req'[q].body = <<>>
    BY <2>1, <2>2, OthersShown
  <2> QED BY <2>2, <2>3, HolesKept
<1> QED BY <1>1, <1>2, <1>3, <1>4, <1>5

LEMMA OtherHoles ==
    ASSUME IInv, Holes, overlapped \subseteq overlapped',
           \/ \E r \in Request, u \in Upload, c \in Chunks : Send(r, u, c)
           \/ \E u \in Upload, c \in Chunks : GiveUp(u, c) \/ ClearChunk(u, c)
           \/ Crash \/ UNCHANGED vars
    PROVE  Holes'
<1>1. ASSUME NEW r \in Request, NEW u \in Upload, NEW c \in Chunks, Send(r, u, c) PROVE Holes'
  <2>1. Begun(u, c).body = <<>>
    BY DEF Begun
  <2> QED BY <1>1, <2>1, OthersShown, HolesKept DEF Send
<1>2. ASSUME NEW u \in Upload, NEW c \in Chunks, GiveUp(u, c) PROVE Holes'
  BY <1>2, HolesKept DEF GiveUp
<1>3. ASSUME NEW u \in Upload, NEW c \in Chunks, ClearChunk(u, c) PROVE Holes'
  <2>1. \A g \in Upload \X Chunks :
              \/ temp'[g] = temp[g]
              \/ temp'[g].has = "holed" \/ temp'[g].late # {} => g \in overlapped'
    BY <1>3, EmptyHasNoHole, OneFile DEF ClearChunk
  <2> QED BY <1>3, <2>1, HolesKept DEF ClearChunk
<1>4. CASE Crash
  <2>1. ASSUME NEW f \in Upload \X Chunks
        PROVE  temp'[f].has = "holed" \/ temp'[f].late # {} => f \in overlapped'
    <3>1. temp'[f].has = temp[f].has /\ temp'[f].late = {}
      BY <1>4 DEF Crash, IInv, TypeOK, Content
    <3> QED BY <3>1 DEF Holes
  <2>2. \A r \in Request : req'[r].body = <<>>
    BY <1>4 DEF Crash, Idle
  <2> QED BY <1>4, <2>1, <2>2, HolesKept DEF Crash
<1>5. CASE UNCHANGED vars
  BY <1>5, HolesKept DEF vars
<1> QED BY <1>1, <1>2, <1>3, <1>4, <1>5

LEMMA InvarianceOfIInv == IInv /\ [Next]_vars => IInv'
  BY ClientStep, WriterStep, ListStep, CopyStep, EndStep, OutsideStep DEF Next

LEMMA Invariance == Spec => [](IInv /\ Holes)
<1>1. Init => Holes
  BY DEF Init, Holes, Shown, NoFile, Idle
<1>2. IInv /\ Holes /\ [Next]_vars => Holes'
  <2> SUFFICES ASSUME IInv, Holes, [Next]_vars PROVE Holes'
    OBVIOUS
  <2>1. overlapped \subseteq overlapped'
    BY OverlappedGrows
  <2> QED BY <2>1, WriterHoles, CopyHoles, EndHoles, OtherHoles DEF Next
<1> QED BY <1>1, <1>2, InitOK, InvarianceOfIInv, PTL DEF Spec

-----------------------------------------------------------------------------
(* In every instance, whatever is repeated, lost, cleared or cut short:    *)
(* the assembly never stores chunks out of order or twice.                 *)
THEOREM Order == Spec => []StoredInOrder
<1>1. IInv => StoredInOrder
  BY SpreadFacts DEF IInv, TypeOK, StoredInOrder
<1> QED BY <1>1, Invariance, PTL

(* On storage that checks the length announced, the same gives the whole   *)
(* file: Last + 1 chunks in order leave no room for a gap, and a hole can  *)
(* only be in a chunk that two requests wrote at once.                     *)
THEOREM Whole == LengthChecked => (Spec => []StoredWhole)
<1> SUFFICES ASSUME LengthChecked PROVE Spec => []StoredWhole
  OBVIOUS
<1>1. IInv /\ Holes => StoredWhole
  <2> SUFFICES ASSUME IInv, Holes, NEW f \in files
               PROVE  /\ Len(f.body) = Last + 1
                      /\ \A i \in 1..Len(f.body) :
                           /\ f.body[i].chunk = i - 1
                           /\ \/ f.body[i].has = "full"
                              \/ f.body[i].has = "holed" /\ <<f.up, i - 1>> \in overlapped
    BY DEF StoredWhole
  <2>1. f.body \in Seq(Piece) /\ Spread(f.body) /\ FullLength(f.body)
    BY DEF IInv, TypeOK
  <2>2. Len(f.body) = Last + 1
    BY <2>1 DEF FullLength
  <2>3. ASSUME NEW i \in 1..Len(f.body)
        PROVE  /\ f.body[i].chunk = i - 1
               /\ \/ f.body[i].has = "full"
                  \/ f.body[i].has = "holed" /\ <<f.up, i - 1>> \in overlapped
    <3>1. f.body[i].chunk = i - 1 /\ f.body[i].has # "short"
      BY <2>1, SpreadFacts
    <3>2. f.body[i].has \in {"short", "holed", "full"}
      <4>1. f.body[i] \in Piece
        BY <2>1, ElementOfSeq
      <4> QED BY <4>1 DEF Piece
    <3>3. f.body[i].has = "holed" => <<f.up, f.body[i].chunk>> \in overlapped
      BY DEF Holes, Shown
    <3> QED BY <3>1, <3>2, <3>3
  <2> QED BY <2>2, <2>3
<1> QED BY <1>1, Invariance, PTL

-----------------------------------------------------------------------------
(* The rate limiter (RateLimiter), for any table and any clock.            *)

LEMMA LimiterFinite == \A S : Tight!IsFiniteSet(S) <=> IsFiniteSet(S)
  BY DEF IsFiniteSet, Tight!IsFiniteSet

LEMMA LimiterCardinality == \A S : Tight!Cardinality(S) = Cardinality(S)
  BY DEF Cardinality, Tight!Cardinality

(* A whole burst is earned within the time to live.                        *)
FillsInTime == Tight!Full + MaxWait <= IdleTTL + 1

TableInv ==
    /\ Tight!TypeOK
    /\ entries \subseteq Key \ Exempt
    /\ \A r \in Request : waiting[r].key \in (Key \ Exempt) \union {NoKey}
    /\ \A k \in entries : level[k] = Tight!Full \/ idle[k] <= level[k] + MaxWait

LEMMA FullFacts ==
    ASSUME Tight!RateLimiterAssumption
    PROVE  /\ Tight!Full \in Nat /\ Cost \in Nat /\ Cost <= Tight!Full /\ Tight!Full - Cost \in 0..Tight!Full
           /\ IdleTTL \in Nat /\ PruneInterval \in Nat
           /\ Cap \in Nat /\ MaxWait \in Nat
<1>1. Burst \in Nat /\ Cost \in Nat /\ Burst >= 1 /\ Cost >= 1
  BY DEF Tight!RateLimiterAssumption
<1>2. Burst * Cost \in Nat /\ Burst * Cost >= Cost
  BY <1>1, SMT
<1> QED BY <1>1, <1>2 DEF Tight!Full, Tight!RateLimiterAssumption

LEMMA OlderType ==
    ASSUME NEW a \in Nat, NEW h \in Nat
    PROVE  Tight!Older(a, h) \in Nat /\ Tight!Older(a, h) <= a + 1
  BY DEF Tight!Older

LEMMA RefilledType ==
    ASSUME Tight!RateLimiterAssumption, NEW l \in 0..Tight!Full
    PROVE  Tight!Refilled(l) \in 0..Tight!Full /\ (Tight!Refilled(l) = Tight!Full \/ Tight!Refilled(l) = l + 1)
  BY FullFacts DEF Tight!Refilled

(* What pruning leaves is part of the table.                               *)
LEMMA AfterPruneSubset ==
    ASSUME NEW now PROVE Tight!AfterPrune(now) \subseteq entries
  BY DEF Tight!AfterPrune, Tight!Kept

(* Either pruning empties a crowded table, or what it evicts is full.      *)
LEMMA EvictedIsFull ==
    ASSUME Tight!RateLimiterAssumption, FillsInTime, TableInv, NEW now \in 0..MaxWait, NEW k \in entries,
           ~Tight!Stays(k, now)
    PROVE  level[k] = Tight!Full
<1>1. level[k] \in 0..Tight!Full /\ idle[k] \in Nat /\ now \in Nat
  BY FullFacts DEF TableInv, Tight!TypeOK
<1>2. idle[k] > IdleTTL
  BY <1>1, FullFacts DEF Tight!Stays
<1>3. level[k] = Tight!Full \/ idle[k] <= level[k] + MaxWait
  BY DEF TableInv
<1> QED BY <1>1, <1>2, <1>3, FullFacts DEF FillsInTime

LEMMA InitTable ==
    ASSUME Tight!RateLimiterAssumption PROVE Tight!Init => TableInv
  BY FullFacts DEF Tight!Init, TableInv, Tight!TypeOK, Tight!NotWaiting

LEMMA TickTable == ASSUME Tight!RateLimiterAssumption, TableInv, Tight!Tick PROVE TableInv'
<1>0. IdleTTL + MaxWait \in Nat /\ PruneInterval + MaxWait \in Nat
  BY FullFacts
<1>1. level' \in [Key -> 0..Tight!Full]
  BY RefilledType DEF Tight!Tick, TableInv, Tight!TypeOK
<1>2. idle' \in [Key -> Nat] /\ pruned' \in Nat
  BY <1>0, OlderType DEF Tight!Tick, TableInv, Tight!TypeOK
<1>3. /\ waiting' \in [Request -> [key : Key, age : 0..MaxWait] \union {Tight!NotWaiting}]
      /\ \A r \in Request : waiting'[r].key \in (Key \ Exempt) \union {NoKey}
  <2> SUFFICES ASSUME NEW r \in Request
               PROVE  /\ waiting'[r] \in [key : Key, age : 0..MaxWait] \union {Tight!NotWaiting}
                      /\ waiting'[r].key \in (Key \ Exempt) \union {NoKey}
    BY DEF Tight!Tick
  <2>1. CASE waiting[r].key = NoKey
    BY <2>1 DEF Tight!Tick, Tight!NotWaiting
  <2>2. CASE waiting[r].key # NoKey
    <3>1. waiting[r] \in [key : Key, age : 0..MaxWait] /\ waiting[r].age < MaxWait
      BY <2>2 DEF Tight!Tick, TableInv, Tight!TypeOK, Tight!NotWaiting
    <3>2. waiting[r].age + 1 \in 0..MaxWait
      BY <3>1, FullFacts
    <3>3. waiting'[r] = [key |-> waiting[r].key, age |-> waiting[r].age + 1]
      BY <2>2 DEF Tight!Tick
    <3> QED BY <3>1, <3>2, <3>3 DEF TableInv
  <2> QED BY <2>1, <2>2
<1>4. ASSUME NEW k \in entries PROVE level'[k] = Tight!Full \/ idle'[k] <= level'[k] + MaxWait
  <2>1. k \in Key /\ level[k] \in 0..Tight!Full /\ idle[k] \in Nat
    BY DEF TableInv, Tight!TypeOK
  <2>2. level'[k] = Tight!Refilled(level[k]) /\ idle'[k] = Tight!Older(idle[k], IdleTTL + MaxWait)
    BY <2>1 DEF Tight!Tick
  <2>3. Tight!Older(idle[k], IdleTTL + MaxWait) \in Nat /\ Tight!Older(idle[k], IdleTTL + MaxWait) <= idle[k] + 1
    BY <1>0, <2>1, OlderType
  <2>4. Tight!Refilled(level[k]) = Tight!Full \/ Tight!Refilled(level[k]) = level[k] + 1
    BY <2>1, RefilledType
  <2>5. level[k] = Tight!Full => Tight!Refilled(level[k]) = Tight!Full
    BY <2>1, FullFacts DEF Tight!Refilled
  <2>6. level[k] = Tight!Full \/ idle[k] <= level[k] + MaxWait
    BY DEF TableInv
  <2> QED BY <2>1, <2>2, <2>3, <2>4, <2>5, <2>6, FullFacts
<1>5. entries' = entries
  BY DEF Tight!Tick
<1> QED BY <1>1, <1>2, <1>3, <1>4, <1>5 DEF TableInv, Tight!TypeOK

LEMMA ArriveTable ==
    ASSUME Tight!RateLimiterAssumption, TableInv, NEW r \in Request, NEW k \in Key, Tight!Arrive(r, k)
    PROVE  TableInv'
<1>1. [key |-> k, age |-> 0] \in [key : Key, age : 0..MaxWait] /\ k \in Key \ Exempt
  BY FullFacts DEF Tight!Arrive
<1> QED BY <1>1 DEF Tight!Arrive, TableInv, Tight!TypeOK

(* A request that finds the table pruned to S takes its token.  (Decide of *)
(* either table, whatever its room.)                                       *)
Had(k, S) == IF k \in S THEN level[k] ELSE Tight!Full
Left(k, S) == IF Had(k, S) >= Cost THEN Had(k, S) - Cost ELSE Had(k, S)

Takes(r, k, now, S) ==
    /\ k = waiting[r].key /\ k # NoKey /\ now = waiting[r].age
    /\ pruned' \in {pruned, now}
    /\ entries' = S \union {k}
    /\ level' = [level EXCEPT ![k] = Left(k, S)]
    /\ idle' = [idle EXCEPT ![k] = now]
    /\ verdict' = [key |-> k, admitted |-> Had(k, S) >= Cost]
    /\ waiting' = [waiting EXCEPT ![r] = Tight!NotWaiting]

(* What it finds: what pruning leaves, or nothing if the table was crowded.*)
Pruned(now, S) == S = entries \/ S = Tight!Kept(now)

LEMMA TightTakes ==
    ASSUME NEW r \in Request, Tight!Decide(r), NEW k, k = waiting[r].key, NEW now, now = waiting[r].age
    PROVE  \E S : /\ Takes(r, k, now, S)
                  /\ Pruned(now, S) \/ (S = {} /\ Tight!OverCap(Tight!Kept(now)))
<1>1. Takes(r, k, now, Tight!AfterPrune(now))
  BY DEF Tight!Decide, Takes, Had, Left
<1>2. \/ Pruned(now, Tight!AfterPrune(now))
      \/ Tight!AfterPrune(now) = {} /\ Tight!OverCap(Tight!Kept(now))
  BY DEF Tight!AfterPrune, Pruned
<1> QED BY <1>1, <1>2

LEMMA RoomyTakes ==
    ASSUME NEW r \in Request, Roomy!Decide(r), NEW k, k = waiting[r].key, NEW now, now = waiting[r].age
    PROVE  \E S : /\ Takes(r, k, now, S)
                  /\ Pruned(now, S) \/ (S = {} /\ Roomy!OverCap(Tight!Kept(now)))
<1>1. Takes(r, k, now, Roomy!AfterPrune(now))
  BY DEF Roomy!Decide, Takes, Had, Left, Tight!Full, Roomy!Full, Tight!NotWaiting, Roomy!NotWaiting
<1>2. Roomy!Kept(now) = Tight!Kept(now)
  BY DEF Roomy!Kept, Tight!Kept, Roomy!Stays, Tight!Stays
<1>3. \/ Pruned(now, Roomy!AfterPrune(now))
      \/ Roomy!AfterPrune(now) = {} /\ Roomy!OverCap(Tight!Kept(now))
  BY <1>2 DEF Roomy!AfterPrune, Pruned
<1> QED BY <1>1, <1>3

(* What a request knows of itself.                                         *)
LEMMA WaitingFacts ==
    ASSUME Tight!RateLimiterAssumption, TableInv, NEW r \in Request, waiting[r].key # NoKey
    PROVE  waiting[r].key \in Key \ Exempt /\ waiting[r].age \in 0..MaxWait
  BY DEF TableInv, Tight!TypeOK, Tight!NotWaiting

LEMMA HadType ==
    ASSUME Tight!RateLimiterAssumption, TableInv, NEW k \in Key, NEW S
    PROVE  Had(k, S) \in 0..Tight!Full /\ Left(k, S) \in 0..Tight!Full
<1>1. Had(k, S) \in 0..Tight!Full
  BY FullFacts DEF TableInv, Tight!TypeOK, Had
<1>2. PICK h : h = Had(k, S)
  OBVIOUS
<1>3. (IF h >= Cost THEN h - Cost ELSE h) \in 0..Tight!Full
  BY <1>1, <1>2, FullFacts
<1> QED BY <1>1, <1>2, <1>3 DEF Left

LEMMA TakesTable ==
    ASSUME Tight!RateLimiterAssumption, TableInv, NEW r \in Request, NEW k, NEW now, NEW S,
           S \subseteq entries, Takes(r, k, now, S)
    PROVE  TableInv'
<1>1. k \in Key \ Exempt /\ now \in 0..MaxWait
  BY WaitingFacts DEF Takes
<1>3. Left(k, S) \in 0..Tight!Full
  BY <1>1, HadType
<1>4. /\ level' = [level EXCEPT ![k] = Left(k, S)]
      /\ idle' = [idle EXCEPT ![k] = now]
      /\ entries' = S \union {k}
      /\ waiting' = [waiting EXCEPT ![r] = Tight!NotWaiting]
      /\ pruned' \in {pruned, now}
  BY DEF Takes
<1>5. now \in Nat /\ now <= MaxWait
  BY <1>1, FullFacts
<1>6. entries' \subseteq Key \ Exempt
  BY <1>1, <1>4 DEF TableInv
<1>7. level' \in [Key -> 0..Tight!Full] /\ idle' \in [Key -> Nat] /\ pruned' \in Nat
  BY <1>1, <1>3, <1>4, <1>5 DEF TableInv, Tight!TypeOK
<1>8. /\ waiting' \in [Request -> [key : Key, age : 0..MaxWait] \union {Tight!NotWaiting}]
      /\ \A q \in Request : waiting'[q].key \in (Key \ Exempt) \union {NoKey}
  BY <1>4 DEF TableInv, Tight!TypeOK, Tight!NotWaiting
<1>9. ASSUME NEW j \in entries' PROVE level'[j] = Tight!Full \/ idle'[j] <= level'[j] + MaxWait
  <2>1. CASE j = k
    <3>1. level'[j] \in 0..Tight!Full /\ idle'[j] = now
      BY <1>1, <1>4, <1>7, <2>1 DEF TableInv, Tight!TypeOK
    <3> QED BY <3>1, <1>5, FullFacts
  <2>2. CASE j # k
    <3>1. j \in entries /\ j \in Key
      BY <1>4, <1>6, <2>2
    <3>2. level'[j] = level[j] /\ idle'[j] = idle[j]
      BY <1>4, <2>2, <3>1 DEF TableInv, Tight!TypeOK
    <3> QED BY <3>1, <3>2 DEF TableInv
  <2> QED BY <2>1, <2>2
<1> QED BY <1>6, <1>7, <1>8, <1>9 DEF TableInv, Tight!TypeOK

(* What the two tables have in common.                                     *)
LEMMA Alike ==
    /\ Roomy!vars = Tight!vars /\ (Roomy!Tick <=> Tight!Tick)
    /\ \A k \in Key : (Roomy!Pass(k) <=> Tight!Pass(k)) /\ \A r \in Request : Roomy!Arrive(r, k) <=> Tight!Arrive(r, k)
<1>1. Roomy!vars = Tight!vars /\ Roomy!Full = Tight!Full /\ Roomy!NotWaiting = Tight!NotWaiting
  BY DEF Roomy!vars, Tight!vars, Roomy!Full, Tight!Full, Roomy!NotWaiting, Tight!NotWaiting
<1>2. Roomy!Tick <=> Tight!Tick
  BY <1>1, Zenon DEF Roomy!Tick, Tight!Tick, Roomy!Older, Tight!Older, Roomy!Refilled, Tight!Refilled
<1>3. ASSUME NEW k \in Key PROVE Roomy!Pass(k) <=> Tight!Pass(k)
  BY DEF Roomy!Pass, Tight!Pass
<1>4. ASSUME NEW k \in Key, NEW r \in Request PROVE Roomy!Arrive(r, k) <=> Tight!Arrive(r, k)
  BY <1>1 DEF Roomy!Arrive, Tight!Arrive
<1> QED BY <1>1, <1>2, <1>3, <1>4

LEMMA DecideTable ==
    ASSUME Tight!RateLimiterAssumption, TableInv, NEW r \in Request, Tight!Decide(r) \/ Roomy!Decide(r)
    PROVE  TableInv'
<1>1. PICK k, now : k = waiting[r].key /\ now = waiting[r].age
  OBVIOUS
<1>t. \E S : Takes(r, k, now, S) /\ (Pruned(now, S) \/ S = {})
  <2>1. CASE Tight!Decide(r)
    <3>1. \E S : Takes(r, k, now, S) /\ (Pruned(now, S) \/ (S = {} /\ Tight!OverCap(Tight!Kept(now))))
      BY <1>1, <2>1, TightTakes
    <3> QED BY <3>1
  <2>2. CASE Roomy!Decide(r)
    <3>1. \E S : Takes(r, k, now, S) /\ (Pruned(now, S) \/ (S = {} /\ Roomy!OverCap(Tight!Kept(now))))
      BY <1>1, <2>2, RoomyTakes
    <3> QED BY <3>1
  <2> QED BY <2>1, <2>2
<1>2. PICK S : Takes(r, k, now, S) /\ (Pruned(now, S) \/ S = {})
  BY <1>t
<1>3. S \subseteq entries
  BY <1>2 DEF Pruned, Tight!Kept
<1> QED BY <1>2, <1>3, TakesTable

LEMMA TableStep ==
    ASSUME Tight!RateLimiterAssumption, TableInv,
           [Tight!Next]_(Tight!vars) \/ [Roomy!Next]_(Roomy!vars)
    PROVE  TableInv'
<1>1. CASE UNCHANGED Tight!vars
  BY <1>1 DEF Tight!vars, TableInv, Tight!TypeOK
<1>2. ASSUME NEW k \in Key, Tight!Pass(k) PROVE TableInv'
  BY <1>2 DEF Tight!Pass, TableInv, Tight!TypeOK
<1>3. CASE Tight!Next
  BY <1>2, <1>3, TickTable, ArriveTable, DecideTable DEF Tight!Next
<1>4. CASE Roomy!Next
  BY <1>2, <1>4, Alike, TickTable, ArriveTable, DecideTable DEF Roomy!Next
<1> QED BY <1>1, <1>3, <1>4, Alike DEF Roomy!vars, Tight!vars

LEMMA TableInvariant ==
    ASSUME Tight!RateLimiterAssumption PROVE Tight!Spec => []TableInv
<1>1. Tight!Init => TableInv
  BY InitTable
<1>2. TableInv /\ [Tight!Next]_(Tight!vars) => TableInv'
  BY TableStep
<1> QED BY <1>1, <1>2, PTL DEF Tight!Spec

-----------------------------------------------------------------------------
(* Only full buckets are evicted, whatever the order in which requests get *)
(* the mutex, if a burst is earned within the time to live.                *)
THEOREM ForgetsOnlyFull ==
    ASSUME Tight!RateLimiterAssumption, FillsInTime PROVE Tight!Spec => []Tight!EvictsOnlyFull
<1>1. TableInv => Tight!EvictsOnlyFull
  BY EvictedIsFull DEF Tight!EvictsOnlyFull
<1>2. Tight!Spec => []TableInv
  BY TableInvariant
<1> QED BY <1>1, <1>2, PTL

-----------------------------------------------------------------------------
(* The table never holds more than its cap and one entry, whatever the     *)
(* clocks: a request that finds it past the cap prunes it, and empties it  *)
(* if that is not enough.                                                  *)
LEMMA AfterPruneBounded ==
    ASSUME Tight!RateLimiterAssumption, NEW now, IsFiniteSet(entries)
    PROVE  IsFiniteSet(Tight!AfterPrune(now)) /\ Cardinality(Tight!AfterPrune(now)) <= Cap
<1>0. IsFiniteSet(Tight!AfterPrune(now)) /\ Cardinality(Tight!AfterPrune(now)) \in Nat
  BY AfterPruneSubset, FS_Subset, FS_CardinalityType
<1>1. CASE ~Tight!Due(now)
  BY <1>0, <1>1, FullFacts, LimiterCardinality DEF Tight!AfterPrune, Tight!Due, Tight!OverCap
<1>2. CASE Tight!Due(now) /\ Tight!OverCap(Tight!Kept(now))
  BY <1>0, <1>2, FullFacts, FS_EmptySet DEF Tight!AfterPrune
<1>3. CASE Tight!Due(now) /\ ~Tight!OverCap(Tight!Kept(now))
  BY <1>0, <1>3, FullFacts, LimiterCardinality DEF Tight!AfterPrune, Tight!OverCap
<1> QED BY <1>0, <1>1, <1>2, <1>3

THEOREM TableStaysBounded ==
    ASSUME Tight!RateLimiterAssumption PROVE Tight!Spec => []Tight!TableBounded
<1> DEFINE Crowd == IsFiniteSet(entries) /\ Cardinality(entries) <= Cap + 1
<1>1. Tight!Init => Crowd
  BY FS_EmptySet, FullFacts DEF Tight!Init
<1>2. Crowd /\ [Tight!Next]_(Tight!vars) => Crowd'
  <2> SUFFICES ASSUME Crowd, [Tight!Next]_(Tight!vars) PROVE Crowd'
    OBVIOUS
  <2>1. ASSUME NEW r \in Request, Tight!Decide(r) PROVE Crowd'
    <3> DEFINE now == waiting[r].age
               k == waiting[r].key
    <3>1. entries' = Tight!AfterPrune(now) \union {k}
      BY <2>1 DEF Tight!Decide
    <3>2. IsFiniteSet(Tight!AfterPrune(now)) /\ Cardinality(Tight!AfterPrune(now)) <= Cap
      BY AfterPruneBounded
    <3>3. Cardinality(Tight!AfterPrune(now)) \in Nat
      BY <3>2, FS_CardinalityType
    <3>4. /\ IsFiniteSet(Tight!AfterPrune(now) \union {k})
          /\ \/ Cardinality(Tight!AfterPrune(now) \union {k}) = Cardinality(Tight!AfterPrune(now))
             \/ Cardinality(Tight!AfterPrune(now) \union {k}) = Cardinality(Tight!AfterPrune(now)) + 1
      BY <3>2, FS_AddElement
    <3> HIDE DEF now, k
    <3> QED BY <3>1, <3>2, <3>3, <3>4, FullFacts
  <2>2. CASE UNCHANGED entries
    BY <2>2
  <2> QED BY <2>1, <2>2 DEF Tight!Next, Tight!vars, Tight!Tick, Tight!Pass, Tight!Arrive
<1>3. Crowd => Tight!TableBounded
  BY LimiterCardinality DEF Tight!TableBounded
<1> QED BY <1>1, <1>2, <1>3, PTL DEF Tight!Spec

-----------------------------------------------------------------------------
(* Decide is a step of TokenBuckets: it forgets nothing but full buckets,  *)
(* or everything when the table is crowded.                                *)
Afresh(k) ==
    /\ Tight!Remembered' = [[j \in Key |-> Tight!Full] EXCEPT ![k] = Tight!Full - Cost]
    /\ Tight!Buckets!Verdict(k, TRUE)

LEMMA TakesAfresh ==
    ASSUME Tight!RateLimiterAssumption, TableInv, NEW r \in Request, NEW k, NEW now, Takes(r, k, now, {})
    PROVE  k \in Key /\ Afresh(k)
<1>1. k \in Key \ Exempt /\ level \in [Key -> 0..Tight!Full]
  BY WaitingFacts DEF Takes, TableInv, Tight!TypeOK
<1>2. Had(k, {}) = Tight!Full /\ Left(k, {}) = Tight!Full - Cost /\ Had(k, {}) >= Cost
  BY FullFacts DEF Had, Left
<1>3. entries' = {k} /\ level' = [level EXCEPT ![k] = Tight!Full - Cost]
  BY <1>2 DEF Takes
<1>4. \A j \in Key : (IF j \in entries' THEN level'[j] ELSE Tight!Full)
                    = IF j = k THEN Tight!Full - Cost ELSE Tight!Full
  BY <1>1, <1>3
<1>5. Tight!Remembered' = [[j \in Key |-> Tight!Full] EXCEPT ![k] = Tight!Full - Cost]
  BY <1>1, <1>4 DEF Tight!Remembered
<1>6. verdict' = [key |-> k, admitted |-> TRUE]
  <2>1. (Had(k, {}) >= Cost) = TRUE
    BY <1>2
  <2> QED BY <2>1 DEF Takes
<1> QED BY <1>1, <1>5, <1>6 DEF Afresh, Tight!Buckets!Verdict

LEMMA TakesOne ==
    ASSUME Tight!RateLimiterAssumption, FillsInTime, TableInv,
           NEW r \in Request, NEW k, NEW now, NEW S, Pruned(now, S), Takes(r, k, now, S)
    PROVE  k \in Key /\ (Tight!Buckets!Admit(k) \/ Tight!Buckets!Refuse(k))
<1>1. k \in Key \ Exempt /\ now \in 0..MaxWait /\ level \in [Key -> 0..Tight!Full]
  BY WaitingFacts DEF Takes, TableInv, Tight!TypeOK
<1>2. S \subseteq entries
  BY DEF Pruned, Tight!Kept
<1>3. \A j \in entries : j \notin S => level[j] = Tight!Full
  <2>1. ASSUME NEW j \in entries, j \notin S PROVE level[j] = Tight!Full
    <3>1. ~Tight!Stays(j, now)
      BY <2>1 DEF Pruned, Tight!Kept
    <3> QED BY <1>1, <3>1, EvictedIsFull
  <2> QED BY <2>1
<1>4. \A j \in Key : Tight!Remembered[j] = Had(j, S)
  BY <1>2, <1>3 DEF Tight!Remembered, Had
<1>5. \A j \in Key : Tight!Remembered'[j] = IF j = k THEN Left(k, S) ELSE Had(j, S)
  BY <1>1 DEF Takes, Tight!Remembered, Had
<1>6. Tight!Remembered' = [Tight!Remembered EXCEPT ![k] = Left(k, S)]
  BY <1>1, <1>4, <1>5 DEF Tight!Remembered
<1>7. PICK h : h = Had(k, S)
  OBVIOUS
<1>8. h \in 0..Tight!Full /\ Tight!Remembered[k] = h /\ verdict' = [key |-> k, admitted |-> h >= Cost]
  BY <1>1, <1>4, <1>7, HadType DEF Takes
<1>9. CASE h >= Cost
  <2>1. Left(k, S) = h - Cost
    BY <1>7, <1>9 DEF Left
  <2>2. (h >= Cost) = TRUE
    BY <1>9
  <2>3. verdict' = [key |-> k, admitted |-> TRUE]
    BY <1>8, <2>2
  <2>4. Tight!Buckets!Admit(k)
    BY <1>6, <1>8, <1>9, <2>1, <2>3 DEF Tight!Buckets!Admit, Tight!Buckets!Verdict
  <2> QED BY <1>1, <2>4
<1>10. CASE ~(h >= Cost)
  <2>1. h < Cost
    BY <1>8, <1>10, FullFacts
  <2>2. Left(k, S) = h
    BY <1>7, <1>10 DEF Left
  <2>3. Tight!Remembered' = Tight!Remembered
    BY <1>1, <1>6, <1>8, <2>2 DEF Tight!Remembered
  <2>4. (h >= Cost) = FALSE
    BY <1>10
  <2>5. verdict' = [key |-> k, admitted |-> FALSE]
    BY <1>8, <2>4
  <2>6. Tight!Buckets!Refuse(k)
    BY <1>1, <1>8, <2>1, <2>3, <2>5 DEF Tight!Buckets!Refuse, Tight!Buckets!Verdict
  <2> QED BY <1>1, <2>6
<1> QED BY <1>9, <1>10

(* More keys than the table has room for.                                  *)
LEMMA CrowdedTable ==
    ASSUME Tight!RateLimiterAssumption, TableInv, NEW now
    PROVE  /\ Cardinality(Tight!Kept(now)) <= Cardinality(Key \ Exempt)
           /\ Cardinality(Tight!Kept(now)) \in Nat /\ Cardinality(Key \ Exempt) \in Nat
<1>1. IsFiniteSet(Key \ Exempt)
  BY FS_Subset, LimiterFinite DEF Tight!RateLimiterAssumption
<1>2. Tight!Kept(now) \subseteq Key \ Exempt
  BY DEF Tight!Kept, TableInv
<1> QED BY <1>1, <1>2, FS_Subset, FS_CardinalityType

LEMMA TightDecides ==
    ASSUME Tight!RateLimiterAssumption, FillsInTime, TableInv, NEW r \in Request, Tight!Decide(r)
    PROVE  Tight!Buckets!Next
<1>1. PICK k, now : k = waiting[r].key /\ now = waiting[r].age
  OBVIOUS
<1>t. \E S : /\ Takes(r, k, now, S)
             /\ Pruned(now, S) \/ (S = {} /\ Tight!OverCap(Tight!Kept(now)))
  BY <1>1, TightTakes
<1>2. PICK S : /\ Takes(r, k, now, S)
               /\ Pruned(now, S) \/ (S = {} /\ Tight!OverCap(Tight!Kept(now)))
  BY <1>t
<1>3. CASE Pruned(now, S)
  BY <1>2, <1>3, TakesOne DEF Tight!Buckets!Next
<1>4. CASE S = {} /\ Tight!OverCap(Tight!Kept(now))
  <2>1. k \in Key /\ Afresh(k)
    BY <1>2, <1>4, TakesAfresh
  <2>2. Tight!Cardinality(Key \ Exempt) > Cap
    BY <1>4, CrowdedTable, LimiterCardinality, FullFacts DEF Tight!OverCap
  <2>3. Tight!Buckets!AdmitAfresh(k)
    BY <2>1, <2>2 DEF Afresh, Tight!Buckets!AdmitAfresh
  <2> QED BY <2>1, <2>3 DEF Tight!Buckets!Next
<1> QED BY <1>2, <1>3, <1>4

LEMMA TickBuckets == ASSUME Tight!RateLimiterAssumption, TableInv, Tight!Tick PROVE Tight!Buckets!Tick
<1>1. \A k \in Key : Tight!Remembered'[k] = Tight!Buckets!Refilled(Tight!Remembered[k])
  BY FullFacts DEF Tight!Tick, TableInv, Tight!TypeOK, Tight!Remembered, Tight!Refilled, Tight!Buckets!Refilled
<1>2. Tight!Remembered' = [k \in Key |-> Tight!Buckets!Refilled(Tight!Remembered[k])]
  BY <1>1 DEF Tight!Remembered
<1> QED BY <1>2 DEF Tight!Tick, Tight!Buckets!Tick

LEMMA BucketsStart == Tight!Init => Tight!Buckets!Init
  BY DEF Tight!Init, Tight!Remembered, Tight!Buckets!Init

LEMMA TightBuckets ==
    ASSUME Tight!RateLimiterAssumption, FillsInTime, TableInv, [Tight!Next]_(Tight!vars)
    PROVE  [Tight!Buckets!Next]_<<Tight!Remembered, verdict>>
<1>1. CASE UNCHANGED Tight!vars
  BY <1>1 DEF Tight!vars, Tight!Remembered
<1>2. ASSUME NEW k \in Key, Tight!Pass(k) PROVE Tight!Buckets!Next
  <2>1. Tight!Buckets!Pass(k)
    BY <1>2 DEF Tight!Pass, Tight!Remembered, Tight!Buckets!Pass, Tight!Buckets!Verdict
  <2> QED BY <2>1 DEF Tight!Buckets!Next
<1>3. ASSUME NEW k \in Key, NEW r \in Request, Tight!Arrive(r, k)
      PROVE  UNCHANGED <<Tight!Remembered, verdict>>
  BY <1>3 DEF Tight!Arrive, Tight!Remembered
<1>4. Tight!Tick => Tight!Buckets!Next
  BY TickBuckets DEF Tight!Buckets!Next
<1> QED BY <1>1, <1>2, <1>3, <1>4, TightDecides DEF Tight!Next

(* The roomy table implements the same buckets, crowded only if the keys   *)
(* are too many for it as well.                                            *)
LEMMA RoomyDecides ==
    ASSUME Tight!RateLimiterAssumption, Roomy!RateLimiterAssumption, FillsInTime, TableInv,
           NEW r \in Request, Roomy!Decide(r)
    PROVE  \E k \in Key : \/ Tight!Buckets!Admit(k) \/ Tight!Buckets!Refuse(k)
                          \/ Afresh(k) /\ Cardinality(Key \ Exempt) > Room
<1>1. PICK k, now : k = waiting[r].key /\ now = waiting[r].age
  OBVIOUS
<1>t. \E S : /\ Takes(r, k, now, S)
             /\ Pruned(now, S) \/ (S = {} /\ Roomy!OverCap(Tight!Kept(now)))
  BY <1>1, RoomyTakes
<1>2. PICK S : /\ Takes(r, k, now, S)
               /\ Pruned(now, S) \/ (S = {} /\ Roomy!OverCap(Tight!Kept(now)))
  BY <1>t
<1>3. CASE Pruned(now, S)
  BY <1>2, <1>3, TakesOne
<1>4. CASE S = {} /\ Roomy!OverCap(Tight!Kept(now))
  <2>1. k \in Key /\ Afresh(k)
    BY <1>2, <1>4, TakesAfresh
  <2>2. Room \in Nat
    BY DEF Roomy!RateLimiterAssumption
  <2>3. Roomy!Cardinality(Tight!Kept(now)) = Cardinality(Tight!Kept(now))
    BY DEF Roomy!Cardinality, Cardinality
  <2>4. Cardinality(Key \ Exempt) > Room
    BY <1>4, <2>2, <2>3, CrowdedTable DEF Roomy!OverCap
  <2> QED BY <2>1, <2>4
<1> QED BY <1>2, <1>3, <1>4

LEMMA SameBuckets ==
    /\ Roomy!Remembered = Tight!Remembered /\ Roomy!Full = Tight!Full
    /\ Roomy!Remembered' = Tight!Remembered'
    /\ Roomy!Buckets!Tick <=> Tight!Buckets!Tick
    /\ \A k \in Key : /\ Roomy!Buckets!Pass(k) <=> Tight!Buckets!Pass(k)
                      /\ Roomy!Buckets!Admit(k) <=> Tight!Buckets!Admit(k)
                      /\ Roomy!Buckets!Refuse(k) <=> Tight!Buckets!Refuse(k)
<1>1. /\ Roomy!Remembered = Tight!Remembered /\ Roomy!Full = Tight!Full
      /\ Roomy!Remembered' = Tight!Remembered'
  BY DEF Roomy!Remembered, Tight!Remembered, Roomy!Full, Tight!Full
<1>2. Roomy!Buckets!Tick <=> Tight!Buckets!Tick
  BY <1>1 DEF Roomy!Buckets!Tick, Tight!Buckets!Tick, Roomy!Buckets!Refilled, Tight!Buckets!Refilled
<1>3. ASSUME NEW k \in Key
      PROVE  /\ Roomy!Buckets!Pass(k) <=> Tight!Buckets!Pass(k)
             /\ Roomy!Buckets!Admit(k) <=> Tight!Buckets!Admit(k)
             /\ Roomy!Buckets!Refuse(k) <=> Tight!Buckets!Refuse(k)
  BY <1>1 DEF Roomy!Buckets!Pass, Tight!Buckets!Pass, Roomy!Buckets!Admit, Tight!Buckets!Admit,
              Roomy!Buckets!Refuse, Tight!Buckets!Refuse, Roomy!Buckets!Verdict, Tight!Buckets!Verdict
<1> QED BY <1>1, <1>2, <1>3

LEMMA RoomyBuckets ==
    ASSUME Tight!RateLimiterAssumption, Roomy!RateLimiterAssumption, FillsInTime, Cap <= Room, TableInv,
           Roomy!Next
    PROVE  /\ Roomy!Buckets!Next \/ UNCHANGED <<Roomy!Remembered, verdict>>
           /\ [Tight!Buckets!Next]_<<Tight!Remembered, verdict>>
<1>1. CASE Tight!Tick
  BY <1>1, TickBuckets, SameBuckets DEF Roomy!Buckets!Next, Tight!Buckets!Next
<1>2. ASSUME NEW k \in Key, Tight!Pass(k) PROVE Roomy!Buckets!Next /\ Tight!Buckets!Next
  <2>1. Tight!Buckets!Pass(k)
    BY <1>2 DEF Tight!Pass, Tight!Remembered, Tight!Buckets!Pass, Tight!Buckets!Verdict
  <2> QED BY <2>1, SameBuckets DEF Roomy!Buckets!Next, Tight!Buckets!Next
<1>3. ASSUME NEW k \in Key, NEW r \in Request, Tight!Arrive(r, k)
      PROVE  UNCHANGED <<Roomy!Remembered, Tight!Remembered, verdict>>
  <2>1. UNCHANGED <<Tight!Remembered, verdict>>
    BY <1>3 DEF Tight!Arrive, Tight!Remembered
  <2> QED BY <2>1, SameBuckets
<1>4. ASSUME NEW r \in Request, Roomy!Decide(r) PROVE Roomy!Buckets!Next /\ Tight!Buckets!Next
  <2>1. PICK k \in Key : \/ Tight!Buckets!Admit(k) \/ Tight!Buckets!Refuse(k)
                         \/ Afresh(k) /\ Cardinality(Key \ Exempt) > Room
    BY <1>4, RoomyDecides
  <2>2. CASE Tight!Buckets!Admit(k) \/ Tight!Buckets!Refuse(k)
    BY <2>2, SameBuckets DEF Roomy!Buckets!Next, Tight!Buckets!Next
  <2>3. CASE Afresh(k) /\ Cardinality(Key \ Exempt) > Room
    <3>1. Cardinality(Key \ Exempt) \in Nat /\ Room \in Nat /\ Cap \in Nat
      BY CrowdedTable, FullFacts DEF Roomy!RateLimiterAssumption
    <3>2. Roomy!Cardinality(Key \ Exempt) > Room /\ Tight!Cardinality(Key \ Exempt) > Cap
      BY <2>3, <3>1 DEF Roomy!Cardinality, Tight!Cardinality, Cardinality
    <3>3. Tight!Buckets!AdmitAfresh(k)
      BY <2>3, <3>2 DEF Afresh, Tight!Buckets!AdmitAfresh
    <3>4. Roomy!Buckets!AdmitAfresh(k)
      BY <2>3, <3>2, SameBuckets DEF Afresh, Roomy!Buckets!AdmitAfresh, Roomy!Buckets!Verdict, Tight!Buckets!Verdict
    <3> QED BY <3>3, <3>4 DEF Roomy!Buckets!Next, Tight!Buckets!Next
  <2> QED BY <2>1, <2>2, <2>3
<1> QED BY <1>1, <1>2, <1>3, <1>4, Alike DEF Roomy!Next

(* Whatever the clocks, the interleavings and the prune interval: a table  *)
(* with too many keys forgets buckets as it admits a request, and one with *)
(* room for all keys answers as if it kept every bucket for ever, if a     *)
(* burst is earned within the time to live.                                *)
THEOREM LimiterKeepsBuckets ==
    ASSUME FillsInTime, Cap <= Room PROVE MCSpec => ImplementsBuckets
<1>a. Tight!RateLimiterAssumption /\ Roomy!RateLimiterAssumption
  BY TablesAssumption
<1>1. MCInit => TableInv /\ Tight!Buckets!Init
  BY <1>a, InitTable, BucketsStart DEF MCInit
<1>2. TableInv /\ [MCNext]_allVars =>
        /\ TableInv'
        /\ [Tight!Buckets!Next]_<<Tight!Remembered, verdict>>
        /\ [instance = "roomy" => (Roomy!Buckets!Next \/ UNCHANGED <<Roomy!Remembered, verdict>>)]_allVars
  <2> SUFFICES ASSUME TableInv, [MCNext]_allVars
               PROVE  /\ TableInv'
                      /\ [Tight!Buckets!Next]_<<Tight!Remembered, verdict>>
                      /\ [instance = "roomy" => (Roomy!Buckets!Next \/ UNCHANGED <<Roomy!Remembered, verdict>>)]_allVars
    OBVIOUS
  <2>1. CASE UNCHANGED limiterVars
    <3>1. UNCHANGED <<Tight!vars, Tight!Remembered, Roomy!Remembered, verdict>>
      BY <2>1 DEF limiterVars, Tight!vars, Tight!Remembered, Roomy!Remembered
    <3> QED BY <1>a, <3>1, TableStep
  <2>2. CASE Tight!Next /\ instance = "tight"
    <3>1. TableInv'
      BY <1>a, <2>2, TableStep
    <3>2. [Tight!Buckets!Next]_<<Tight!Remembered, verdict>>
      BY <1>a, <2>2, TightBuckets
    <3> QED BY <2>2, <3>1, <3>2
  <2>3. CASE Roomy!Next /\ instance = "roomy"
    <3>1. TableInv'
      BY <1>a, <2>3, TableStep
    <3> QED BY <1>a, <2>3, <3>1, RoomyBuckets
  <2> QED BY <2>1, <2>2, <2>3 DEF MCNext, allVars
<1> QED BY <1>1, <1>2, PTL DEF MCSpec, ImplementsBuckets, Tight!ImplementsBuckets, Tight!Buckets!BucketsSpec
=============================================================================
