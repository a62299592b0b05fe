---------------------------- MODULE PartialUpload ----------------------------
(***************************************************************************)
(* Uploads sent in chunks.  Each request carries one chunk, which its      *)
(* handler writes to a temporary file named after the upload and the byte  *)
(* range; the request that carries the last chunk then lists the upload's  *)
(* chunk files, appends them to one another in the order of their offsets, *)
(* removing each, stores the result as an object and inserts its row.      *)
(* Nothing counts the chunks: the size recorded is the one the client      *)
(* announced.  A chunk is one unit of length.                              *)
(***************************************************************************)
EXTENDS Naturals, Sequences, FiniteSets

CONSTANTS
    Upload,         \* uploads, each with an identifier of its own
    Last,           \* the offset of the last chunk; the first is 0
    Request,        \* goroutines serving requests
    MaxSends,       \* how often a client sends a chunk
    InOrder,        \* whether a client waits for each chunk to be accepted
    LengthChecked,  \* S3 refuses an object shorter than announced, Local does not
    Clearing,       \* whether an administrator runs clear_temp
    Crashing,       \* whether the process may die
    NoUpload

Chunks == 0..Last

ASSUME PartialUploadAssumption ==
    /\ Last \in Nat
    /\ MaxSends \in Nat \ {0}
    /\ {InOrder, LengthChecked, Clearing, Crashing} \subseteq BOOLEAN
    /\ Request \intersect {"none", "ok", "failed"} = {}
    /\ NoUpload \notin Upload

VARIABLES
    temp,       \* what the file of each chunk holds, and who is writing it
    req,        \* what each goroutine is doing
    sends,      \* how often each chunk was sent
    answer,     \* what the client knows of each chunk, or the request it waits for
    files,      \* rows with their objects: the upload, and the chunks it holds
    overlapped  \* (history) chunks opened again while they were being written

vars == <<temp, req, sends, answer, files, overlapped>>

(* A chunk file is not there, is short of its chunk, has its length with   *)
(* zeros where nobody has written, or has the chunk.  by are the           *)
(* goroutines that have it open, late those under whom it was truncated.   *)
Content == [has: {"none", "short", "holed", "full"}, by: SUBSET Request, late: SUBSET Request]
NoFile == [has |-> "none", by |-> {}, late |-> {}]
Answers == {"none", "ok", "failed"} \union Request
Piece == [chunk: Chunks, has: {"short", "holed", "full"}]
Busy == [pc: {"open", "write", "list", "copy"}, up: Upload, chunk: Chunks,
         todo: SUBSET Chunks, body: Seq(Piece), gone: BOOLEAN]
Idle == [pc |-> "idle", up |-> NoUpload, chunk |-> 0, todo |-> {}, body |-> <<>>, gone |-> FALSE]
Begun(u, c) == [pc |-> "open", up |-> u, chunk |-> c, todo |-> {}, body |-> <<>>, gone |-> FALSE]

TypeOK ==
    /\ temp \in [Upload \X Chunks -> Content]
    /\ sends \in [Upload \X Chunks -> 0..MaxSends]
    /\ answer \in [Upload \X Chunks -> Answers]
    /\ DOMAIN req = Request
    /\ \A r \in Request : \/ req[r] = Idle
                          \/ /\ req[r] \in Busy
                             /\ req[r].pc \in {"list", "copy"} => req[r].chunk = Last
    /\ files \subseteq [up: Upload, body: Seq(Piece)]
    /\ overlapped \subseteq Upload \X Chunks

Init ==
    /\ temp = [f \in Upload \X Chunks |-> NoFile]
    /\ req = [r \in Request |-> Idle]
    /\ sends = [f \in Upload \X Chunks |-> 0]
    /\ answer = [f \in Upload \X Chunks |-> "none"]
    /\ files = {} /\ overlapped = {}

At(r, pc) == req[r].pc = pc
Target(r) == <<req[r].up, req[r].chunk>>

(* The answer a client that has given up on a request no longer hears.     *)
Reply(r, a) ==
    /\ answer' = [answer EXCEPT ![Target(r)] = IF @ = r THEN a ELSE @]
    /\ req' = [req EXCEPT ![r] = Idle]

-----------------------------------------------------------------------------
(* Clients.  The web client sends a chunk once the one before is accepted. *)
Send(r, u, c) ==
    /\ req[r] = Idle
    /\ answer[u, c] \in {"none", "failed"}
    /\ sends[u, c] < MaxSends
    /\ InOrder => \A b \in 0..(c - 1) : answer[u, b] = "ok"
    /\ sends' = [sends EXCEPT ![<<u, c>>] = @ + 1]
    /\ answer' = [answer EXCEPT ![<<u, c>>] = r]
    /\ req' = [req EXCEPT ![r] = Begun(u, c)]
    /\ UNCHANGED <<temp, files, overlapped>>

(* A client gives up waiting, while its request is still being served; it  *)
(* then knows no more than if the chunk had been refused.                  *)
GiveUp(u, c) ==
    /\ answer[u, c] \in Request
    /\ answer' = [answer EXCEPT ![<<u, c>>] = "failed"]
    /\ UNCHANGED <<temp, req, sends, files, overlapped>>

-----------------------------------------------------------------------------
(* Refused before the chunk is read: not allowed, malformed, no identifier. *)
Refuse(r) ==
    /\ At(r, "open")
    /\ Reply(r, "failed")
    /\ UNCHANGED <<temp, sends, files, overlapped>>

(* uploadWriteFile creates the chunk's file or truncates the one there ... *)
Open(r) ==
    /\ At(r, "open")
    /\ LET file == temp[Target(r)] IN
        /\ temp' = [temp EXCEPT ![Target(r)] =
                      [has |-> "short", by |-> file.by \union {r}, late |-> file.by]]
        /\ overlapped' = overlapped \union (IF file.by = {} THEN {} ELSE {Target(r)})
    /\ req' = [req EXCEPT ![r].pc = "write"]
    /\ UNCHANGED <<sends, answer, files>>

(* What r makes of a file it has open: one that was truncated under it may *)
(* have a hole before the offset r had reached.  What it writes after the  *)
(* file was removed is lost with it.                                       *)
Outcomes(file, r) ==
    IF r \notin file.by THEN {file.has}
    ELSE IF r \in file.late /\ file.has # "full" THEN {"holed", "full"} ELSE {"full"}

Leave(r, has) ==
    temp' = [temp EXCEPT ![Target(r)] = [has |-> has, by |-> @.by \ {r}, late |-> @.late \ {r}]]

(* ... and copies the chunk into it.                                       *)
Write(r) ==
    /\ At(r, "write")
    /\ \E has \in Outcomes(temp[Target(r)], r) : Leave(r, has)
    /\ IF req[r].chunk = Last
         THEN req' = [req EXCEPT ![r].pc = "list"] /\ UNCHANGED answer
         ELSE Reply(r, "ok")
    /\ UNCHANGED <<sends, files, overlapped>>

(* Seeded bug: the error of uploadWriteFile is dropped. *)
WriteFailsUnseen(r) ==
    /\ At(r, "write")
    /\ Leave(r, temp[Target(r)].has)
    /\ Reply(r, "ok")
    /\ UNCHANGED <<sends, files, overlapped>>

(* The body breaks off or the disk is full: the file stays as it is.       *)
WriteFails(r) ==
    /\ At(r, "write")
    /\ Leave(r, temp[Target(r)].has)
    /\ Reply(r, "failed")
    /\ UNCHANGED <<sends, files, overlapped>>

(* uploadAssembleChunks: the chunk files there are when it lists them.     *)
Listed(u) == {c \in Chunks : temp[u, c].has # "none"}

List(r) ==
    /\ At(r, "list")
    /\ IF Listed(req[r].up) = {}
         THEN Reply(r, "failed")
         ELSE /\ req' = [req EXCEPT ![r].pc = "copy", ![r].todo = Listed(req[r].up)]
              /\ UNCHANGED answer
    /\ UNCHANGED <<temp, sends, files, overlapped>>

(* Seeded bug: sorted the other way round. *)
NextHighest(todo) == CHOOSE c \in todo : \A d \in todo : d <= c

(* sort.Slice by start offset.                                             *)
NextChunk(todo) == CHOOSE c \in todo : \A d \in todo : c <= d

(* Appends the next chunk file and removes it.                             *)
Copy(r) ==
    /\ At(r, "copy") /\ req[r].todo # {}
    /\ LET c == NextChunk(req[r].todo)
           f == <<req[r].up, c>> IN
        IF temp[f].has = "none"
          THEN Reply(r, "failed") /\ UNCHANGED temp
          ELSE /\ temp' = [temp EXCEPT ![f] = NoFile]
               /\ req' = [req EXCEPT
                    ![r].todo = @ \ {c},
                    ![r].body = Append(@, [chunk |-> c, has |-> temp[f].has])]
               /\ UNCHANGED answer
    /\ UNCHANGED <<sends, files, overlapped>>

(* A chunk that cannot be read is removed all the same.                    *)
CopyFails(r) ==
    /\ At(r, "copy") /\ req[r].todo # {}
    /\ temp' = [temp EXCEPT ![<<req[r].up, NextChunk(req[r].todo)>>] = NoFile]
    /\ Reply(r, "failed")
    /\ UNCHANGED <<sends, files, overlapped>>

(* The assembled file has the length announced; a hole does not show in it. *)
FullLength(body) == Len(body) = Last + 1 /\ \A i \in 1..Len(body) : body[i].has # "short"

(* The object is stored under a name of its own, and the row inserted.     *)
Store(r) ==
    /\ At(r, "copy") /\ req[r].todo = {}
    /\ ~req[r].gone
    /\ LengthChecked => FullLength(req[r].body)
    /\ files' = files \union {[up |-> req[r].up, body |-> req[r].body]}
    /\ Reply(r, "ok")
    /\ UNCHANGED <<temp, sends, overlapped>>

(* The file is refused, cannot be stored, or its row cannot be inserted    *)
(* and the object is deleted again.  The chunk files are gone by now.      *)
StoreFails(r) ==
    /\ At(r, "copy") /\ req[r].todo = {}
    /\ Reply(r, "failed")
    /\ UNCHANGED <<temp, sends, files, overlapped>>

-----------------------------------------------------------------------------
(* sactClearTemp removes what is in the directory entry by entry, a chunk  *)
(* file or the file a request is assembling.                               *)
ClearChunk(u, c) ==
    /\ Clearing
    /\ temp[u, c].has # "none"
    /\ temp' = [temp EXCEPT ![<<u, c>>] = NoFile]
    /\ UNCHANGED <<req, sends, answer, files, overlapped>>

ClearAssembled(r) ==
    /\ Clearing
    /\ At(r, "copy") /\ ~req[r].gone
    /\ req' = [req EXCEPT ![r].gone = TRUE]
    /\ UNCHANGED <<temp, sends, answer, files, overlapped>>

(* The process dies; the temporary directory outlives it.                  *)
Crash ==
    /\ Crashing
    /\ \E r \in Request : req[r] # Idle
    /\ req' = [r \in Request |-> Idle]
    /\ temp' = [f \in Upload \X Chunks |-> [temp[f] EXCEPT !.by = {}, !.late = {}]]
    /\ answer' = [f \in Upload \X Chunks |->
                    IF answer[f] \in Request THEN "failed" ELSE answer[f]]
    /\ UNCHANGED <<sends, files, overlapped>>

Next ==
    \/ \E r \in Request, u \in Upload, c \in Chunks : Send(r, u, c)
    \/ \E u \in Upload, c \in Chunks : GiveUp(u, c) \/ ClearChunk(u, c)
    \/ \E r \in Request : \/ Refuse(r) \/ Open(r) \/ Write(r) \/ WriteFails(r)
                          \/ List(r) \/ Copy(r) \/ CopyFails(r)
                          \/ Store(r) \/ StoreFails(r) \/ ClearAssembled(r)
    \/ Crash

Spec == Init /\ [][Next]_vars

-----------------------------------------------------------------------------
(* Whatever the chunks' order of arrival, repetitions and losses, what is  *)
(* stored holds each chunk at most once and in the order of the offsets.   *)
Ascending(body) == \A i \in 1..Len(body), j \in 1..Len(body) :
                        i < j => body[i].chunk < body[j].chunk

StoredInOrder == \A f \in files : Ascending(f.body)

(* What is stored is the whole file: "concatenates every chunk temp file   *)
(* for identifier in ascending start-offset order" (upload_routes.go).     *)
(* Local storage needs a client that never sends a chunk twice, and no     *)
(* clear_temp; storage that checks the length needs neither.  But a chunk  *)
(* that was opened again while a request still wrote it may keep zeros,    *)
(* which the length does not tell; no other chunk may.                     *)
StoredWhole == \A f \in files :
    /\ Len(f.body) = Last + 1
    /\ \A i \in 1..Len(f.body) :
         /\ f.body[i].chunk = i - 1
         /\ \/ f.body[i].has = "full"
            \/ f.body[i].has = "holed" /\ <<f.up, i - 1>> \in overlapped
=============================================================================
