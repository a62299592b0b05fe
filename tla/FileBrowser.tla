------------------------------ MODULE FileBrowser ------------------------------
(***************************************************************************)
(* The files page of the web client against the TypeScript server.  A tab  *)
(* shows pages out of a cache keyed by what was asked for; the dialog of a *)
(* file, the dialog that edits its details and the selection keep copies   *)
(* of their own, and every change asks for the page anew once answered.    *)
(***************************************************************************)
EXTENDS Naturals, Sequences, FiniteSets, SequencesExt, TLC

CONSTANTS
    Files,      \* the files, newest first
    Tag, Limit, \* tags, and values of the field "max views"
    Tab,        \* browser tabs of one user, each with one change on its way
    Match,      \* what each search finds; the empty search finds every file
    PerPage, Pages,
    Scene,      \* the situations: what each tab does, and how the files are at first
    MaxCalls,   \* bound on the changes of a tab
    None

File == ToSet(Files)
Query == DOMAIN Match
All == ""
Key == Query \X Pages
Row == [fav: BOOLEAN, folder: BOOLEAN, tags: SUBSET Tag, limit: Limit \union {None}]
Doings == {"search", "page", "refocus", "open", "tags", "edit", "star", "folder", "delete", "select",
           "bulkDelete", "bulkStar", "bulkFolder", "newTag", "dropTag"}

FileBrowserAssumption ==
    /\ All \in Query /\ Match[All] = File /\ \A q \in Query : Match[q] \subseteq File
    /\ PerPage \in Nat \ {0} /\ Pages \subseteq Nat \ {0} /\ 1 \in Pages /\ MaxCalls \in Nat
    /\ Scene \subseteq [may: [Tab -> SUBSET Doings], rows: [File -> Row], tags: SUBSET Tag]

VARIABLES
    scene,
    row,        \* the rows of the files, None once deleted
    tags,       \* the rows of the tags
    typed,      \* the search a tab's user has typed
    asked,      \* the search that is asked for, 300 ms behind
    at,         \* the page number
    cache,      \* the answers a tab has had
    pending,    \* tabs that have asked for their page
    current,    \* the file whose dialog is open
    focused,    \* tabs where the field of the tags has the focus
    value,      \* the tags picked in that field
    toggled,    \* those picked or unpicked for the file shown
    form,       \* the dialog of the details
    selected,   \* copies of the selected files
    call,       \* the change on its way
    calls,      \* changes made
    owed        \* files a tab has changed since it last loaded its page

view == <<typed, asked, at, cache, pending>>
dialog == <<current, focused, value, toggled, form>>
vars == <<scene, row, tags, view, dialog, selected, call, calls, owed>>

Idle == [pc |-> "idle"]
Closed == [open |-> FALSE]
Alive == {f \in File : row[f] # None}
May(t, doing) == doing \in scene.may[t]

KeyOf(q, a, n) == <<IF q = All THEN All ELSE a, n>>
KeyNow(t) == KeyOf(typed[t], asked[t], at[t])
Shown(t) == cache[t][KeyNow(t)]
IdsOf(page) == {page[i].id : i \in DOMAIN page}
Copy(page, f) == page[CHOOSE i \in DOMAIN page : page[i].id = f]
Present(page, f) == IF f \in IdsOf(page) THEN f ELSE None
OpenFile(t) == Present(Shown(t), current[t])
Resting(t) == call[t] = Idle /\ t \notin pending /\ asked[t] = typed[t]

TypeOK ==
    /\ scene \in Scene /\ row \in [File -> Row \union {None}] /\ tags \subseteq Tag
    /\ typed \in [Tab -> Query] /\ asked \in [Tab -> Query] /\ at \in [Tab -> Pages]
    /\ pending \subseteq Tab /\ focused \subseteq Tab
    /\ current \in [Tab -> File \union {None}] /\ value \in [Tab -> SUBSET Tag]
    /\ \A t \in Tab, k \in Key : Len(cache[t][k]) <= PerPage
    /\ calls \in [Tab -> 0..MaxCalls] /\ owed \in [Tab -> SUBSET File]

Init ==
    /\ scene \in Scene
    /\ row = scene.rows /\ tags = scene.tags
    /\ typed = [t \in Tab |-> All] /\ asked = typed /\ at = [t \in Tab |-> 1]
    /\ cache = [t \in Tab |-> [k \in Key |-> <<>>]]
    /\ pending = Tab
    /\ current = [t \in Tab |-> None] /\ focused = {}
    /\ value = [t \in Tab |-> {}] /\ toggled = [t \in Tab |-> {}]
    /\ form = [t \in Tab |-> Closed]
    /\ selected = [t \in Tab |-> {}]
    /\ call = [t \in Tab |-> Idle] /\ calls = [t \in Tab |-> 0]
    /\ owed = [t \in Tab |-> {}]

-----------------------------------------------------------------------------
(* What follows the page: the file the dialog shows is dropped when it is  *)
(* not on it, and the form of the details starts again whenever the file   *)
(* it is given is another object.                                          *)
\* Seeded bug: the file shown is kept whatever the page holds.
SetFilesKeeps(f, page) == f

SetFiles(f, page) == Present(page, f)

FormOf(page, f) == [open |-> TRUE, of |-> f, limit |-> IF f = None THEN None ELSE Copy(page, f).limit]

\* Seeded bug: the form starts again only when the dialog opens.
ResetAtOpening(frm, page, f) == IF ~frm.open THEN Closed ELSE frm

Reset(frm, page, f) == IF ~frm.open THEN Closed ELSE FormOf(page, f)

Rerender(t, page) ==
    LET nav == SetFiles(current[t], page)
        f == Present(page, nav)
    IN
    /\ current' = [current EXCEPT ![t] = nav]
    /\ form' = IF page = Shown(t) THEN form ELSE [form EXCEPT ![t] = Reset(@, page, f)]
    /\ focused' = IF f = None THEN focused \ {t} ELSE focused
    /\ toggled' = IF f = None THEN [toggled EXCEPT ![t] = {}] ELSE toggled
    /\ UNCHANGED value

(* A tab turns to another key: what the cache holds is shown, and asked    *)
(* for anew.                                                               *)
Turn(t, q, a, n) ==
    /\ typed' = [typed EXCEPT ![t] = q] /\ asked' = [asked EXCEPT ![t] = a] /\ at' = [at EXCEPT ![t] = n]
    /\ pending' = IF KeyOf(q, a, n) = KeyNow(t) THEN pending ELSE pending \union {t}
    /\ Rerender(t, cache[t][KeyOf(q, a, n)])
    /\ UNCHANGED <<cache, scene, row, tags, selected, call, calls, owed>>

(* The dialogs cover the page.                                             *)
Uncovered(t) == OpenFile(t) = None

Type(t, q) == May(t, "search") /\ Uncovered(t) /\ q # typed[t] /\ Turn(t, q, asked[t], at[t])
Debounce(t) == asked[t] # typed[t] /\ Turn(t, typed[t], typed[t], at[t])
GoToPage(t, n) ==
    May(t, "page") /\ Uncovered(t) /\ typed[t] = All /\ n # at[t] /\ Turn(t, All, asked[t], n)

(* GET /api/user/files: the page of the matches, in order.                 *)
Listing(q, n) ==
    LET found == SelectSeq(Files, LAMBDA f : f \in Alive \intersect Match[q])
        last == IF n * PerPage < Len(found) THEN n * PerPage ELSE Len(found)
        ids == SubSeq(found, (n - 1) * PerPage + 1, last)
    IN  [i \in DOMAIN ids |-> [id |-> ids[i], fav |-> row[ids[i]].fav, folder |-> row[ids[i]].folder,
                               tags |-> row[ids[i]].tags, limit |-> row[ids[i]].limit]]

Load(t) ==
    LET page == Listing(KeyNow(t)[1], at[t]) IN
    /\ t \in pending
    /\ pending' = pending \ {t}
    /\ cache' = [cache EXCEPT ![t][KeyNow(t)] = page]
    /\ Rerender(t, page)
    /\ owed' = [owed EXCEPT ![t] = {}]
    /\ UNCHANGED <<typed, asked, at, scene, row, tags, selected, call, calls>>

Refocus(t) ==
    /\ May(t, "refocus") /\ t \notin pending /\ pending' = pending \union {t}
    /\ UNCHANGED <<typed, asked, at, cache, dialog, scene, row, tags, selected, call, calls, owed>>

-----------------------------------------------------------------------------
(* The dialog of a file: opened on a click, left, and turned to the files  *)
(* before and after with the arrow keys, whatever has the focus.           *)
ShowFile(t, f) ==
    /\ current' = [current EXCEPT ![t] = f]
    /\ toggled' = [toggled EXCEPT ![t] = {}]
    /\ form' = [form EXCEPT ![t] = Reset(@, Shown(t), f)]
    /\ UNCHANGED <<value, view, scene, row, tags, selected, call, calls, owed>>

OpenDialog(t, f) ==
    /\ May(t, "open") /\ Uncovered(t) /\ f \in IdsOf(Shown(t))
    /\ ShowFile(t, f) /\ UNCHANGED focused

CloseDialog(t) ==
    /\ ~Uncovered(t) /\ ~form[t].open /\ t \notin focused
    /\ ShowFile(t, None) /\ UNCHANGED focused

Neighbour(t, f) ==
    LET page == Shown(t) IN
    \E i, j \in DOMAIN page : /\ page[i].id = OpenFile(t) /\ page[j].id = f
                              /\ i + 1 = j \/ j + 1 = i

Arrow(t, f) == ~Uncovered(t) /\ Neighbour(t, f) /\ ShowFile(t, f) /\ UNCHANGED focused

-----------------------------------------------------------------------------
(* Changes.  A request leaves with what the tab knew, is checked, is       *)
(* applied, and when it is answered the tab asks for its page.             *)
Send(t, request) ==
    /\ call[t] = Idle /\ calls[t] < MaxCalls
    /\ call' = [call EXCEPT ![t] = request]
    /\ calls' = [calls EXCEPT ![t] = @ + 1]
    /\ UNCHANGED <<view, scene, row, tags, owed>>

On(kind, files, on) ==
    [pc |-> "sent", kind |-> kind, files |-> files, on |-> on, tags |-> {}, meant |-> {},
     of |-> None, limit |-> None, tag |-> None]

FocusTags(t) ==
    /\ May(t, "tags") /\ ~Uncovered(t) /\ ~form[t].open /\ t \notin focused
    /\ focused' = focused \union {t}
    /\ UNCHANGED <<current, value, toggled, form, view, scene, row, tags, selected, call, calls, owed>>

Toggle(set, g) == IF g \in set THEN set \ {g} ELSE set \union {g}

HandleValueSelect(t, g) ==
    /\ t \in focused /\ g \in tags \union value[t]
    /\ value' = [value EXCEPT ![t] = Toggle(@, g)]
    /\ toggled' = [toggled EXCEPT ![t] = Toggle(@, g)]
    /\ UNCHANGED <<current, focused, form, view, scene, row, tags, selected, call, calls, owed>>

(* The field loses the focus: what is picked in it is saved for the file   *)
(* shown, if it is not what the copy of the file says.  The component      *)
(* outlives the file, and what is picked with it.                          *)
HandleTagsUpdate(t) ==
    LET f == OpenFile(t)
        has == Copy(Shown(t), f).tags
        meant == (has \ toggled[t]) \union (toggled[t] \ has)
    IN
    /\ t \in focused /\ focused' = focused \ {t}
    /\ IF value[t] = has
       THEN UNCHANGED <<view, scene, row, tags, call, calls, owed>>
       ELSE Send(t, [On("tags", {f}, FALSE) EXCEPT !.tags = value[t], !.meant = meant])
    /\ toggled' = [toggled EXCEPT ![t] = {}]
    /\ UNCHANGED <<current, value, form, selected>>

OpenDetails(t) ==
    /\ May(t, "edit") /\ ~Uncovered(t) /\ ~form[t].open /\ t \notin focused
    /\ form' = [form EXCEPT ![t] = FormOf(Shown(t), OpenFile(t))]
    /\ UNCHANGED <<current, focused, value, toggled, view, scene, row, tags, selected, call, calls, owed>>

EditDetails(t, l) ==
    /\ form[t].open /\ ~Uncovered(t) /\ form[t].limit # l
    /\ form' = [form EXCEPT ![t].limit = l]
    /\ UNCHANGED <<current, focused, value, toggled, view, scene, row, tags, selected, call, calls, owed>>

CloseDetails(t) ==
    /\ form[t].open /\ ~Uncovered(t)
    /\ form' = [form EXCEPT ![t] = Closed]
    /\ UNCHANGED <<current, focused, value, toggled, view, scene, row, tags, selected, call, calls, owed>>

HandleSave(t) ==
    /\ form[t].open /\ ~Uncovered(t)
    /\ Send(t, [On("details", {OpenFile(t)}, FALSE) EXCEPT !.of = form[t].of, !.limit = form[t].limit])
    /\ UNCHANGED <<dialog, selected>>

(* The star, the folder and the bin of one file.                           *)
FavoriteFile(t, f) == May(t, "star") /\ Send(t, On("star", {f}, ~Copy(Shown(t), f).fav))
FolderFile(t, f) == May(t, "folder") /\ Send(t, On("folder", {f}, ~Copy(Shown(t), f).folder))
DeleteFile(t, f) == May(t, "delete") /\ Send(t, On("delete", {f}, ~Uncovered(t)))

OneFile(t, f) ==
    /\ f \in IdsOf(Shown(t)) /\ (Uncovered(t) \/ OpenFile(t) = f) /\ ~form[t].open /\ t \notin focused
    /\ FavoriteFile(t, f) \/ FolderFile(t, f) \/ DeleteFile(t, f)
    /\ UNCHANGED <<dialog, selected>>

(* The selection outlives the page it was made on.                         *)
Select(t, f) ==
    /\ May(t, "select") /\ Uncovered(t) /\ f \in IdsOf(Shown(t))
    /\ LET same == {s \in selected[t] : s.id = f} IN
       selected' = [selected EXCEPT ![t] = IF same # {} THEN @ \ same ELSE @ \union {Copy(Shown(t), f)}]
    /\ UNCHANGED <<view, dialog, scene, row, tags, call, calls, owed>>

SelectedIds(t) == {s.id : s \in selected[t]}

BulkDelete(t) == May(t, "bulkDelete") /\ Send(t, On("bulkDelete", SelectedIds(t), FALSE)) /\ UNCHANGED selected
BulkFavorite(t) ==
    /\ May(t, "bulkStar")
    /\ Send(t, On("bulkStar", SelectedIds(t), \E s \in selected[t] : ~s.fav))
    /\ UNCHANGED selected
HandleAddFolder(t) ==
    /\ May(t, "bulkFolder")
    /\ Send(t, On("bulkFolder", SelectedIds(t), TRUE))
    /\ selected' = [selected EXCEPT ![t] = {}]

Bulk(t) ==
    /\ selected[t] # {} /\ Uncovered(t)
    /\ BulkDelete(t) \/ BulkFavorite(t) \/ HandleAddFolder(t)
    /\ UNCHANGED dialog

CreateTag(t, g) == May(t, "newTag") /\ Send(t, [On("newTag", {}, FALSE) EXCEPT !.tag = g])
DeleteTag(t, g) == May(t, "dropTag") /\ g \in tags /\ Send(t, [On("dropTag", {}, FALSE) EXCEPT !.tag = g])

ManageTag(t, g) ==
    /\ Uncovered(t)
    /\ CreateTag(t, g) \/ DeleteTag(t, g)
    /\ UNCHANGED <<dialog, selected>>

-----------------------------------------------------------------------------
(* The server.                                                             *)
Goto(t, pc) == call' = [call EXCEPT ![t].pc = pc]
Kind(t, kinds) == call[t].kind \in kinds

(* Is the file there, and every tag of the request?                        *)
Check(t) ==
    /\ call[t].pc = "sent"
    /\ LET known == CASE Kind(t, {"tags"}) -> call[t].files \subseteq Alive /\ call[t].tags \subseteq tags
                      [] Kind(t, {"newTag"}) -> call[t].tag \notin tags
                      [] Kind(t, {"dropTag"}) -> call[t].tag \in tags
                      [] Kind(t, {"bulkDelete", "bulkStar", "bulkFolder"}) -> call[t].files \intersect Alive # {}
                      [] OTHER -> call[t].files \subseteq Alive
       IN  Goto(t, IF known THEN "checked" ELSE "refused")
    /\ UNCHANGED <<scene, row, tags, view, dialog, selected, calls, owed>>

(* The row as the request leaves it.  A tag deleted since the check is     *)
(* left out, or fails the statement (ApplyFails).                          *)
Written(r, c) ==
    CASE c.kind = "tags" -> [r EXCEPT !.tags = c.tags \intersect tags]
      [] c.kind = "details" /\ c.limit # None -> [r EXCEPT !.limit = c.limit]
      [] c.kind \in {"star", "bulkStar"} -> [r EXCEPT !.fav = c.on]
      [] c.kind \in {"folder", "bulkFolder"} -> [r EXCEPT !.folder = c.on]
      [] OTHER -> r

(* A deleted file, also of a bulk deletion; a deleted tag, which leaves    *)
(* the files it was on; a new one.                                         *)
Removed(c) == c.kind \in {"delete", "bulkDelete"}
Untagged(r, c) == IF c.kind = "dropTag" THEN [r EXCEPT !.tags = @ \ {c.tag}] ELSE r
TagsAfter(c) ==
    CASE c.kind = "newTag" -> tags \union {c.tag}
      [] c.kind = "dropTag" -> tags \ {c.tag}
      [] OTHER -> tags

Apply(t) ==
    LET c == call[t]
        hit == c.files \intersect Alive
    IN
    /\ c.pc = "checked"
    /\ c.files = {} \/ hit # {}
    /\ row' = [f \in File |->
                 IF f \notin Alive \/ (f \in hit /\ Removed(c)) THEN None
                 ELSE IF f \in hit THEN Written(row[f], c) ELSE Untagged(row[f], c)]
    /\ tags' = TagsAfter(c)
    /\ owed' = [owed EXCEPT ![t] = @ \union {f \in File : row'[f] # row[f]}]
    /\ Goto(t, "done")
    /\ UNCHANGED <<scene, view, dialog, selected, calls>>

ApplyFails(t) ==
    /\ call[t].pc = "checked"
    /\ \/ call[t].files # {} /\ call[t].files \intersect Alive = {}
       \/ Kind(t, {"tags"}) /\ ~(call[t].tags \subseteq tags)
       \/ Kind(t, {"newTag"}) /\ call[t].tag \in tags
    /\ Goto(t, "refused")
    /\ UNCHANGED <<scene, row, tags, view, dialog, selected, calls, owed>>

(* The answer: a deletion closes the dialog it was asked for in, a save    *)
(* that of the details, a bulk deletion drops the selection; then the page *)
(* is asked for, save when saving the details failed or a tag was made.    *)
MutateFiles(t) ==
    pending' = IF Kind(t, {"newTag"}) \/ (Kind(t, {"details"}) /\ call[t].pc # "done")
               THEN pending ELSE pending \union {t}

Answer(t) ==
    LET ok == call[t].pc = "done" IN
    /\ call[t].pc \in {"done", "refused"}
    /\ call' = [call EXCEPT ![t] = Idle]
    /\ MutateFiles(t)
    /\ IF ok /\ Kind(t, {"delete"}) /\ call[t].on
       THEN /\ current' = [current EXCEPT ![t] = None] /\ focused' = focused \ {t}
            /\ toggled' = [toggled EXCEPT ![t] = {}]
            /\ form' = [form EXCEPT ![t] = Reset(@, Shown(t), None)]
       ELSE /\ form' = IF ok /\ Kind(t, {"details"}) THEN [form EXCEPT ![t] = Closed] ELSE form
            /\ UNCHANGED <<current, focused, toggled>>
    /\ selected' = IF Kind(t, {"bulkDelete"}) THEN [selected EXCEPT ![t] = {}] ELSE selected
    /\ UNCHANGED <<value, typed, asked, at, cache, scene, row, tags, calls, owed>>

-----------------------------------------------------------------------------
Next == \E t \in Tab :
    \/ \E q \in Query : Type(t, q)
    \/ \E n \in Pages : GoToPage(t, n)
    \/ Debounce(t) \/ Load(t) \/ Refocus(t)
    \/ \E f \in File : OpenDialog(t, f) \/ Arrow(t, f) \/ OneFile(t, f) \/ Select(t, f)
    \/ CloseDialog(t)
    \/ FocusTags(t) \/ HandleTagsUpdate(t)
    \/ \E g \in Tag : HandleValueSelect(t, g) \/ ManageTag(t, g)
    \/ OpenDetails(t) \/ CloseDetails(t) \/ HandleSave(t)
    \/ \E l \in Limit \union {None} : EditDetails(t, l)
    \/ Bulk(t)
    \/ Check(t) \/ Apply(t) \/ ApplyFails(t) \/ Answer(t)

Spec == Init /\ [][Next]_vars
-----------------------------------------------------------------------------
(* What the dialog of the details sends to a file comes from that file, or *)
(* was typed while that file was shown: not from the one shown before the  *)
(* arrow keys, a new page or a deletion put another in its place.          *)
OwnDetails == \A t \in Tab : call[t].pc = "sent" /\ call[t].kind = "details" =>
    call[t].files = {call[t].of}

(* A file's dialog opens on a click.  Once a search, a page or a deletion  *)
(* has taken the file away, it does not come back when the file does.      *)
ReopenStepFormula == \A t \in Tab : OpenFile(t) = None /\ OpenFile(t)' # None =>
    \E f \in File : OpenDialog(t, f)

(* A tab at rest shows what it has changed itself, also when the request   *)
(* was refused: every answer but those that changed nothing asks for the   *)
(* page again.                                                             *)
OwnChangesShown == \A t \in Tab : Resting(t) => owed[t] = {}

(* Saving the tags of a file writes the tags it was shown with, changed by *)
(* what was picked and unpicked for it.                                    *)
TagsAsPicked == \A t \in Tab : call[t].pc = "sent" /\ call[t].kind = "tags" =>
    call[t].tags = call[t].meant
=============================================================================
