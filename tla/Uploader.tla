------------------------------- MODULE Uploader -------------------------------
(***************************************************************************)
(* The upload pages of the dashboard and what the TypeScript server does   *)
(* with their requests.  A press of the button sends the small files in    *)
(* batches and then the big ones in chunks, each chunk once the one before *)
(* is answered.  The server keeps the sessions of chunked uploads in       *)
(* memory, and a worker thread puts the chunks of a session together.      *)
(* Nothing on the server counts the chunks.                                *)
(***************************************************************************)
EXTENDS Naturals, FiniteSets

CONSTANTS
    Local,          \* files on the user's disk, numbered
    Big,            \* those of at least chunks.max bytes
    Last,           \* the number of the last chunk of a big one; the first is 0
    BatchSize,      \* FILES_PER_REQUEST
    MaxLength,      \* files.maxFileSize, in chunks
    Scene,          \* the situations: the page for files or for text, the files at hand, the
                    \* options to choose, and whether requests are lost, the process dies of
                    \* something else, and files, entries and temporary files are removed
    MaxPresses,     \* bound on the presses of the button
    MaxSessions,    \* bound on the chunked uploads begun
    NoChunk, NoSession

Chunks == 0..Last
Press == 1..MaxPresses
Session == 1..MaxSessions

Choice == [deletesAt: {"default", "never", "soon"}, maxViews: {"none", "some"},
           password: {"none", "set"}]

UploaderAssumption ==
    /\ Local \subseteq Nat /\ IsFiniteSet(Local) /\ Big \subseteq Local
    /\ Last \in Nat \ {0} /\ BatchSize \in Nat \ {0} /\ MaxLength \in Nat
    /\ Scene \subseteq [text: BOOLEAN, files: SUBSET Local, choices: SUBSET Choice, faults: BOOLEAN]
    /\ \A s \in Scene : s.text => s.files \intersect Big = {}
    /\ NoSession \notin Session /\ NoChunk \notin Chunks

VARIABLES
    list,       \* the files shown on the page
    scene,      \* the situation
    options,    \* the store of upload options
    call,       \* the calls of upload(), one for each press
    loading,    \* whether the page is busy
    wire,       \* requests sent and not heard of
    unheard,    \* whether a chunk was sent and never answered
    up,         \* whether the process runs
    part,       \* chunked uploads: session, chunks, row, object and worker
    rows        \* files stored from batches

vars == <<list, scene, options, call, loading, wire, unheard, up, part, rows>>
pageVars == <<list, scene, options, call, loading>>

Unchosen == [deletesAt |-> "default", maxViews |-> "none", password |-> "none"]
NotPressed == [at |-> "none"]
NotBegun == [live |-> FALSE, length |-> 0, temp |-> {}, file |-> 0, press |-> 0, row |-> "none",
             object |-> {}, worker |-> "none", todo |-> {}, entry |-> "none", options |-> Unchosen,
             deletesAt |-> "none", disturbed |-> FALSE]

Init ==
    /\ list = {}
    /\ scene \in Scene
    /\ options = Unchosen
    /\ call = [p \in Press |-> NotPressed]
    /\ loading = FALSE
    /\ wire = {} /\ unheard = FALSE
    /\ up = TRUE
    /\ part = [s \in Session |-> NotBegun]
    /\ rows = {}

-----------------------------------------------------------------------------
(* The page.                                                               *)

(* Files dropped, or pasted, which works while the page is busy too; and a *)
(* text added.                                                             *)
Drop(f) ==
    /\ ~scene.text /\ f \in scene.files \ list
    /\ list' = list \union {f}
    /\ UNCHANGED <<scene, options, call, loading, wire, unheard, up, part, rows>>

AddText(f) ==
    /\ scene.text /\ f \in scene.files \ list
    /\ list' = list \union {f}
    /\ UNCHANGED <<scene, options, call, loading, wire, unheard, up, part, rows>>

(* A file taken back, which the busy page does not offer; and a text.      *)
Remove(f) ==
    /\ ~scene.text /\ f \in list /\ ~loading
    /\ list' = list \ {f}
    /\ UNCHANGED <<scene, options, call, loading, wire, unheard, up, part, rows>>

RemoveText(f) ==
    /\ scene.text /\ f \in list
    /\ list' = list \ {f}
    /\ UNCHANGED <<scene, options, call, loading, wire, unheard, up, part, rows>>

ClearAll ==
    /\ list # {} /\ (scene.text \/ ~loading)
    /\ list' = {}
    /\ UNCHANGED <<scene, options, call, loading, wire, unheard, up, part, rows>>

(* The form of the options: what the browser keeps, and what it is to      *)
(* forget after an upload.                                                 *)
ChooseOption(o) ==
    /\ options' = [o EXCEPT !.password = options.password]
    /\ options' # options
    /\ UNCHANGED <<list, scene, call, loading, wire, unheard, up, part, rows>>

ChooseEphemeral(o) ==
    /\ options' = [options EXCEPT !.password = o.password]
    /\ options' # options
    /\ UNCHANGED <<list, scene, call, loading, wire, unheard, up, part, rows>>

ClearSettings ==
    /\ options # Unchosen
    /\ options' = Unchosen
    /\ UNCHANGED <<list, scene, call, loading, wire, unheard, up, part, rows>>

(* clearEphemeral, after a batch upload and never after chunks.            *)
ClearedEphemeral == [options EXCEPT !.password = "none"]

(* The page for text keeps what it uploaded.                               *)
EmptyList == IF scene.text THEN list ELSE {}

(* A header is sent for what is neither the default nor left out or zero ... *)
ApplyUploadHeaders(o) == [h \in {k \in DOMAIN o : o[k] \notin {"default", "none"}} |-> o[h]]

(* ... and read back; without one the configuration decides.               *)
ParseHeaders(headers) ==
    [h \in DOMAIN Unchosen |-> IF h \in DOMAIN headers THEN headers[h] ELSE Unchosen[h]]

Batch(S) == {f \in S : Cardinality({g \in S : g < f}) < BatchSize}
First(S) == CHOOSE f \in S : \A g \in S : f <= g

Request(o, p, files, chunk, id) ==
    [press |-> p, files |-> files, chunk |-> chunk, id |-> id, headers |-> ApplyUploadHeaders(o),
     answer |-> "none"]

(* The next batch of small files, with the big ones left for later.        *)
SendFiles(p, o, small, big, others) ==
    /\ wire' = others \union {Request(o, p, Batch(small), NoChunk, NoSession)}
    /\ call' = [call EXCEPT ![p] = [at |-> "files", options |-> o, small |-> small \ Batch(small), big |-> big]]
    /\ loading' = TRUE

(* The loop over the chunks waits for each answer but the last: with the   *)
(* last chunk of a file it sends the first one of the next.                *)
Looping(o, f, id, next, big) ==
    [at |-> "chunks", options |-> o, file |-> f, id |-> id, next |-> next, ready |-> FALSE, big |-> big]

SendChunk(p, o, f, c, id, big, others) ==
    LET request == Request(o, p, {f}, c, id) IN
    /\ loading' = TRUE
    /\ IF c < Last
       THEN /\ wire' = others \union {request}
            /\ call' = [call EXCEPT ![p] = Looping(o, f, id, c + 1, big)]
       ELSE IF big = {}
       THEN /\ wire' = others \union {request}
            /\ call' = [call EXCEPT ![p] = [at |-> "end", options |-> o]]
       ELSE /\ wire' = others \union {request, Request(o, p, {First(big)}, 0, NoSession)}
            /\ call' = [call EXCEPT ![p] = Looping(o, First(big), NoSession, 1, big \ {First(big)})]

(* uploadPartialFiles, or the end of upload().                             *)
GoOnWithBig(p, o, big, others) ==
    IF big # {}
    THEN SendChunk(p, o, First(big), 0, NoSession, big \ {First(big)}, others)
    ELSE /\ call' = [call EXCEPT ![p] = [at |-> "end", options |-> o]]
         /\ wire' = others
         /\ loading' = FALSE

(* The button.                                                             *)
Upload(p) ==
    /\ call[p] = NotPressed /\ \A q \in Press : q < p => call[q] # NotPressed
    /\ list # {} /\ ~loading
    /\ IF list \subseteq Big
       THEN GoOnWithBig(p, options, list, wire)
       ELSE SendFiles(p, options, list \ Big, list \intersect Big, wire)
    /\ UNCHANGED <<list, scene, options, unheard, up, part, rows>>

(* The answer to a batch: the next one, or the end; what failed stays in   *)
(* the list.                                                               *)
LoadFiles(r) ==
    LET p == r.press
        others == wire \ {r}
    IN  /\ r.chunk = NoChunk /\ r.answer # "none"
        /\ IF r.answer = "ok" /\ call[p].small # {}
           THEN /\ SendFiles(p, call[p].options, call[p].small, call[p].big, others)
                /\ UNCHANGED <<list, options>>
           ELSE /\ GoOnWithBig(p, call[p].options, call[p].big, others)
                /\ list' = IF r.answer = "ok" THEN EmptyList ELSE list
                /\ options' = IF r.answer = "ok" THEN ClearedEphemeral ELSE options
        /\ UNCHANGED <<scene, unheard, up, part, rows>>

(* The answer to a chunk, which lets the loop go on.  The list is emptied  *)
(* with the last chunk of any file.                                        *)
LoadChunk(r) ==
    LET p == r.press IN
    /\ r.chunk # NoChunk /\ r.answer = "ok"
    /\ wire' = wire \ {r}
    /\ IF r.chunk = Last
       THEN list' = {} /\ loading' = FALSE /\ UNCHANGED call
       ELSE /\ call' = [call EXCEPT ![p].ready = TRUE, ![p].id = r.id]
            /\ UNCHANGED <<list, loading>>
    /\ UNCHANGED <<scene, options, unheard, up, part, rows>>

\* Seeded bug: the loop goes on after an error.
LoadRefusalGoesOn(r) ==
    /\ r.chunk # NoChunk /\ r.answer = "error"
    /\ wire' = wire \ {r}
    /\ call' = IF r.chunk = Last THEN call ELSE [call EXCEPT ![r.press].ready = TRUE]
    /\ list' = {} /\ loading' = FALSE
    /\ UNCHANGED <<scene, options, unheard, up, part, rows>>

\* Seeded bug: the page stays busy after an error.
LoadRefusalBusy(r) ==
    /\ r.chunk # NoChunk /\ r.answer = "error"
    /\ wire' = wire \ {r}
    /\ call' = IF r.chunk = Last THEN call ELSE [call EXCEPT ![r.press].at = "hung"]
    /\ list' = {}
    /\ UNCHANGED <<scene, options, loading, unheard, up, part, rows>>

(* An error ends the loop where it is: it waits for ever, and what is left *)
(* of the press is not sent.                                               *)
LoadRefusal(r) ==
    /\ r.chunk # NoChunk /\ r.answer = "error"
    /\ wire' = wire \ {r}
    /\ call' = IF r.chunk = Last THEN call ELSE [call EXCEPT ![r.press].at = "hung"]
    /\ list' = {} /\ loading' = FALSE
    /\ UNCHANGED <<scene, options, unheard, up, part, rows>>

(* Nothing listens for a chunk that gets no answer.                        *)
HearNothing(r) ==
    /\ r.chunk # NoChunk /\ r.answer = "lost"
    /\ wire' = wire \ {r}
    /\ call' = IF r.chunk = Last THEN call ELSE [call EXCEPT ![r.press].at = "hung"]
    /\ unheard' = TRUE
    /\ UNCHANGED <<list, scene, options, loading, up, part, rows>>

(* The loop wakes up.                                                      *)
NextChunk(p) ==
    /\ call[p].at = "chunks" /\ call[p].ready
    /\ SendChunk(p, call[p].options, call[p].file, call[p].next, call[p].id, call[p].big, wire)
    /\ UNCHANGED <<list, scene, options, unheard, up, part, rows>>

-----------------------------------------------------------------------------
(* The server.                                                             *)

Answer(r, a, id) == wire' = (wire \ {r}) \union {[r EXCEPT !.answer = a, !.id = id]}

(* POST /api/upload: the files one by one, until one is refused.           *)
ServeFiles(r, done) ==
    /\ up /\ r.chunk = NoChunk /\ r.answer = "none"
    /\ rows' = rows \union {[press |-> r.press, file |-> f, options |-> ParseHeaders(r.headers)] : f \in done}
    /\ Answer(r, IF done = r.files THEN "ok" ELSE "error", NoSession)
    /\ UNCHANGED <<pageVars, unheard, up, part>>

(* The session of a chunk: a new one with the first chunk, which already   *)
(* counts it.                                                              *)
NextSession == {s \in Session : part[s] = NotBegun /\ \A q \in Session : q < s => part[q] # NotBegun}
SessionOf(r) == IF r.chunk = 0 THEN NextSession
                ELSE {s \in Session : s = r.id /\ part[s].live}
Opened(r, s) ==
    IF r.chunk # 0 THEN part[s]
    ELSE [part[s] EXCEPT !.live = TRUE, !.length = 1, !.file = First(r.files), !.press = r.press]

Serving(r) == up /\ r.chunk # NoChunk /\ r.answer = "none"
Fits(session) == session.length + 1 <= MaxLength
DeletePartial(session) == [session EXCEPT !.live = FALSE, !.temp = {}]

ServeNoSession(r) ==
    /\ Serving(r) /\ r.chunk # 0 /\ SessionOf(r) = {}
    /\ Answer(r, "error", r.id)
    /\ UNCHANGED <<pageVars, unheard, up, part, rows>>

ServeTooLarge(r, s) ==
    /\ Serving(r)
    /\ ~Fits(Opened(r, s))
    /\ part' = [part EXCEPT ![s] = DeletePartial(Opened(r, s))]
    /\ Answer(r, "error", r.id)
    /\ UNCHANGED <<pageVars, unheard, up, rows>>

(* The quota refuses it.                                                   *)
ServeOverQuota(r, s) ==
    /\ Serving(r)
    /\ part' = [part EXCEPT ![s] = DeletePartial(Opened(r, s))]
    /\ Answer(r, "error", r.id)
    /\ UNCHANGED <<pageVars, unheard, up, rows>>

Counted(r, s, temp) == [Opened(r, s) EXCEPT !.length = @ + 1, !.temp = @ \union temp]

(* The chunk cannot be moved to its place, or the extension or the name of *)
(* the file is refused with the last one: the session stays.               *)
ServeFailing(r, s, temp) ==
    /\ Serving(r) /\ Fits(Opened(r, s))
    /\ part' = [part EXCEPT ![s] = Counted(r, s, temp)]
    /\ Answer(r, "error", r.id)
    /\ UNCHANGED <<pageVars, unheard, up, rows>>

ServeChunk(r, s) ==
    /\ Serving(r) /\ Fits(Opened(r, s))
    /\ part' = [part EXCEPT ![s] =
         IF r.chunk < Last THEN Counted(r, s, {r.chunk})
         ELSE [Counted(r, s, {r.chunk}) EXCEPT !.live = FALSE, !.row = "pending", !.worker = "start",
                                               !.options = ParseHeaders(r.headers)]]
    /\ Answer(r, "ok", s)
    /\ UNCHANGED <<pageVars, unheard, up, rows>>

(* A request, or its answer, does not arrive.                              *)
Lose(r) ==
    /\ scene.faults /\ r.answer # "lost"
    /\ Answer(r, "lost", r.id)
    /\ UNCHANGED <<pageVars, unheard, up, part, rows>>

-----------------------------------------------------------------------------
(* The worker of an upload.                                                *)

(* Sessions and workers die with the process.                              *)
DieWith(parts) ==
    /\ up' = FALSE
    /\ part' = [s \in Session |-> [parts[s] EXCEPT !.live = FALSE,
                                     !.worker = IF @ \in {"none", "ended"} THEN @ ELSE "dead"]]
    /\ wire' = {IF r.answer = "none" THEN [r EXCEPT !.answer = "lost"] ELSE r : r \in wire}
    /\ UNCHANGED <<pageVars, unheard, rows>>

(* A step that updates a row, which ends the process if there is none.     *)
Stepped(s, exists, new) ==
    IF exists
    THEN part' = [part EXCEPT ![s] = new] /\ UNCHANGED <<pageVars, wire, unheard, up, rows>>
    ELSE DieWith([part EXCEPT ![s] = new])

Begin(s) ==
    /\ part[s].worker = "start"
    /\ Stepped(s, TRUE, [part[s] EXCEPT !.worker = "copy", !.todo = part[s].temp, !.entry = "PENDING"])

HasEntry(s) == part[s].entry # "cleared"
PendingEntry(s, status) == IF HasEntry(s) THEN status ELSE "cleared"

(* A chunk that is gone ends the process too: nothing hears the error.     *)
Copy(s) ==
    LET c == First(part[s].todo)
        found == c \in part[s].temp
    IN  /\ part[s].worker = "copy" /\ part[s].todo # {}
        /\ Stepped(s, found /\ HasEntry(s),
              IF found THEN [part[s] EXCEPT !.object = @ \union {c}, !.temp = @ \ {c}, !.todo = @ \ {c},
                                            !.entry = PendingEntry(s, "PROCESSING")]
              ELSE part[s])

(* failPartial; the row of the file stays.                                 *)
CopyFails(s) ==
    /\ part[s].worker = "copy"
    /\ Stepped(s, HasEntry(s), [part[s] EXCEPT !.worker = "ended", !.temp = {}, !.object = {},
                                               !.entry = PendingEntry(s, "FAILED")])

Complete(s) ==
    /\ part[s].worker = "copy" /\ part[s].todo = {}
    /\ Stepped(s, HasEntry(s), [part[s] EXCEPT !.worker = "record", !.entry = PendingEntry(s, "COMPLETE")])

(* runComplete.                                                            *)
RunComplete(s) ==
    LET present == part[s].row = "pending" IN
    /\ part[s].worker = "record"
    /\ Stepped(s, present, IF present THEN [part[s] EXCEPT !.worker = "ended", !.row = "stored",
                                              !.deletesAt = part[s].options.deletesAt]
                           ELSE part[s])

-----------------------------------------------------------------------------
(* The file is deleted in another tab, or its entry cleared.               *)
DeleteFile(s) ==
    /\ scene.faults /\ up /\ part[s].row \in {"pending", "stored"}
    /\ part' = [part EXCEPT ![s].row = "gone", ![s].object = {}]
    /\ UNCHANGED <<pageVars, wire, unheard, up, rows>>

ClearEntry(s) ==
    /\ scene.faults /\ up /\ part[s].entry \notin {"none", "cleared"}
    /\ part' = [part EXCEPT ![s].entry = "cleared"]
    /\ UNCHANGED <<pageVars, wire, unheard, up, rows>>

(* clearTemp, one file of the directory.                                   *)
ClearTemp(s, c) ==
    /\ scene.faults /\ up /\ c \in part[s].temp
    /\ part' = [part EXCEPT ![s].temp = @ \ {c}, ![s].disturbed = TRUE]
    /\ UNCHANGED <<pageVars, wire, unheard, up, rows>>

Crash == scene.faults /\ up /\ DieWith(part)

Start ==
    /\ ~up
    /\ up' = TRUE
    /\ UNCHANGED <<pageVars, wire, unheard, part, rows>>

-----------------------------------------------------------------------------
Serve(r) ==
    \/ \E done \in SUBSET r.files : ServeFiles(r, done)
    \/ ServeNoSession(r)
    \/ \E s \in SessionOf(r) :
         \/ ServeTooLarge(r, s) \/ ServeOverQuota(r, s) \/ ServeChunk(r, s)
         \/ \E temp \in {{}, {r.chunk}} : ServeFailing(r, s, temp)

Load(r) == LoadFiles(r) \/ LoadChunk(r) \/ LoadRefusal(r) \/ HearNothing(r)

Work(s) == Begin(s) \/ Copy(s) \/ CopyFails(s) \/ Complete(s) \/ RunComplete(s)

Next ==
    \/ \E f \in Local : Drop(f) \/ AddText(f) \/ Remove(f) \/ RemoveText(f)
    \/ ClearAll
    \/ \E o \in scene.choices : ChooseOption(o) \/ ChooseEphemeral(o)
    \/ ClearSettings
    \/ \E p \in Press : Upload(p) \/ NextChunk(p)
    \/ \E r \in wire : Serve(r) \/ Lose(r) \/ Load(r)
    \/ \E s \in Session : Work(s) \/ DeleteFile(s) \/ ClearEntry(s)
    \/ \E s \in Session, c \in Chunks : ClearTemp(s, c)
    \/ Crash \/ Start

(* Every request is answered or lost, every answer is heard, and the loop  *)
(* over the chunks wakes up every 100 ms.                                  *)
Fairness ==
    /\ WF_vars(\E r \in wire : Serve(r) \/ Lose(r))
    /\ WF_vars(\E r \in wire : Load(r))
    /\ WF_vars(\E p \in Press : NextChunk(p))

Spec == Init /\ [][Next]_vars /\ Fairness

-----------------------------------------------------------------------------
(* A file recorded as stored in chunks holds every chunk, unless its chunk *)
(* files were cleared away under it: the server leaves it to the page to   *)
(* send the last chunk only when all the others were accepted.             *)
StoredComplete ==
    \A s \in Session : part[s].row = "stored" /\ ~part[s].disturbed => part[s].object = Chunks

(* What is stored has the options of the press that sent it, whatever was  *)
(* chosen, or cleared, since.                                              *)
AsChosen ==
    /\ \A row \in rows : row.options = call[row.press].options
    /\ \A s \in Session : part[s].row = "stored" =>
         /\ part[s].options = call[part[s].press].options
         /\ part[s].deletesAt = part[s].options.deletesAt

(* A busy page becomes usable again, unless a chunk was never answered.    *)
PageSettles == []<>(~loading \/ unheard)
=============================================================================
