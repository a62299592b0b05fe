---------------------------- MODULE ReferenceViews ----------------------------
(***************************************************************************)
(* What visitors see of the TypeScript server, and how often.  A file is   *)
(* sent by /raw, which holds the view about to be counted against the      *)
(* limit, counts a browser once per window, and counts after the object    *)
(* was read; its page and its owner's copy do not count.  A short URL      *)
(* counts each redirect, and its page each one behind a password.  At the  *)
(* limit, or once expired, the item goes: the object, then the row.  The   *)
(* maxviews task removes what it selected in one transaction.              *)
(*                                                                         *)
(* Limits are not changed while the model runs (ViewLimit.tla has owners   *)
(* who change them); a URL that is disabled is one without a row.          *)
(***************************************************************************)
EXTENDS Naturals, FiniteSets

CONSTANTS
    File, Url,  \* items that have a row and a maxViews
    Visitor,    \* browsers: an address and a user agent
    Request,    \* requests the server handles at once
    Task,       \* the maxviews task
    Limits,     \* values of maxViews; 0 is for the handlers no limit
    DeleteOnMaxViews,
    MaxLost,    \* how many updates of a file's counter may fail
    NoItem

Item == File \union Url

ReferenceViewsAssumption ==
    /\ File \intersect Url = {} /\ NoItem \notin Item
    /\ Request \intersect Task = {}
    /\ IsFiniteSet(Request) /\ Limits \subseteq Nat /\ MaxLost \in Nat
    /\ DeleteOnMaxViews \in BOOLEAN

VARIABLES
    there,      \* items that have a row
    views,      \* views in the row
    limit,      \* maxViews in the row
    object,     \* files that have an object
    due,        \* files whose deletesAt has passed
    locked,     \* items with a password
    asked,      \* <<v, i>>: browser v shows the form for the password of i
    token,      \* <<v, i>>: browser v has an access token for i
    recent,     \* viewsCache: <<v, i>> when v was counted within the window
    served,     \* visits answered with the content and meant to count
    lost,       \* how many of them could not be counted
    job         \* what each request, and the task, is doing

vars == <<there, views, limit, object, due, locked, asked, token, recent, served, lost, job>>
rest == <<limit, locked>>
doors == <<asked, token>>

Idle == [pc |-> "idle", item |-> NoItem, who |-> NoItem, files |-> {}, urls |-> {}]

TypeOK ==
    /\ there \subseteq Item /\ object \subseteq File /\ due \subseteq File /\ locked \subseteq Item
    /\ views \in [Item -> Nat] /\ limit \in [Item -> Limits]
    /\ served \in [Item -> Nat] /\ lost \in [Item -> 0..MaxLost]
    /\ asked \subseteq Visitor \X locked /\ token \subseteq Visitor \X locked
    /\ recent \subseteq Visitor \X File
    /\ job \in [Request \union Task ->
                  [pc: {"idle", "read", "stream", "count", "dropObj", "dropRow", "sweep"},
                   item: Item \union {NoItem}, who: Visitor \union {NoItem},
                   files: SUBSET File, urls: SUBSET Url]]

Init ==
    /\ there = Item /\ object = File
    /\ views = [i \in Item |-> 0]
    /\ limit \in [Item -> Limits]
    /\ due = {}
    /\ locked \in SUBSET Item
    /\ asked = {} /\ token = {} /\ recent = {}
    /\ served = [i \in Item |-> 0]
    /\ lost = [i \in Item |-> 0]
    /\ job = [r \in Request \union Task |-> Idle]

Goes(r, pc, v, i) == job' = [job EXCEPT ![r] = [Idle EXCEPT !.pc = pc, !.who = v, !.item = i]]
Goto(r, pc) == job' = [job EXCEPT ![r].pc = pc]
Finish(r) == job' = [job EXCEPT ![r] = Idle]

(* verifyAccessToken, which looks at the id in the token and its expiry.   *)
Opened(v, i) == i \in locked => <<v, i>> \in token

(* maxViews is tested as a boolean first: 0 never holds a view back.       *)
Limited(i, n) == limit[i] # 0 /\ n >= limit[i]
Over(i, n) == limit[i] # 0 /\ n > limit[i]

(* The item goes, when the server is set to remove at the limit; the       *)
(* request is answered "not found" whatever comes of it.                   *)
Removes(r, i) == Goes(r, IF i \in File THEN "dropObj" ELSE "dropRow", NoItem, i)

-----------------------------------------------------------------------------
(* Files. *)

(* GET /raw/:id.  A range that does not begin at 0 is not a view, nor is a   *)
(* second one within the window; the limit is held against the count this  *)
(* request would leave.                                                    *)
Raw(r, v, f, isView) ==
    LET counts == isView /\ <<v, f>> \notin recent
        future == views[f] + IF counts THEN 1 ELSE 0
    IN
    /\ job[r] = Idle /\ f \in there
    /\ \/ f \in due /\ Removes(r, f)
       \/ /\ f \notin due /\ Opened(v, f)
          /\ \/ Over(f, future) /\ DeleteOnMaxViews /\ Removes(r, f)
             \/ ~Over(f, future) /\ Goes(r, IF counts THEN "read" ELSE "stream", v, f)
    /\ UNCHANGED <<there, views, object, due, recent, served, lost, doors, rest>>

(* The route of the files: the page, of a text or where its owner wants    *)
(* that, and always behind a password; otherwise what /raw does.           *)
FilesRoute(r, v, f) == f \notin locked /\ \E isView \in BOOLEAN : Raw(r, v, f, isView)

(* GET /api/user/files/:id/raw, for the owner: the limit is held against   *)
(* the views counted so far, before the password, and nothing is counted.  *)
OwnRaw(r, v, f) ==
    /\ job[r] = Idle /\ f \in there
    /\ \/ f \in due /\ Removes(r, f)
       \/ f \notin due /\ Limited(f, views[f]) /\ DeleteOnMaxViews /\ Removes(r, f)
       \/ f \notin due /\ ~Limited(f, views[f]) /\ Opened(v, f) /\ Goes(r, "stream", v, f)
    /\ UNCHANGED <<there, views, object, due, recent, served, lost, doors, rest>>

(* The object is read.  One that is gone is not found and does not count;  *)
(* otherwise the browser is entered in the cache.                          *)
ReadObject(r) ==
    LET f == job[r].item IN
    /\ job[r].pc \in {"read", "stream"}
    /\ IF f \in object /\ job[r].pc = "read"
         THEN recent' = recent \union {<<job[r].who, f>>} /\ Goto(r, "count")
         ELSE recent' = recent /\ Finish(r)
    /\ UNCHANGED <<there, views, object, due, served, lost, doors, rest>>

(* VIEW_WINDOW is over. *)
Forget(v, f) ==
    /\ <<v, f>> \in recent
    /\ recent' = recent \ {<<v, f>>}
    /\ UNCHANGED <<there, views, object, due, served, lost, job, doors, rest>>

(* GET /view/:id.  The page says "gone" or "expired" and removes nothing;  *)
(* it shows the file, whose content comes from /raw, or asks for the       *)
(* password.                                                               *)
ViewPage(v, f) ==
    /\ f \in there /\ ~Limited(f, views[f]) /\ f \notin due
    /\ ~Opened(v, f)
    /\ asked' = asked \union {<<v, f>>}
    /\ UNCHANGED <<there, views, object, due, recent, token, served, lost, job, rest>>

Expire(f) ==
    /\ f \in there \ due
    /\ due' = due \union {f}
    /\ UNCHANGED <<there, views, object, recent, served, lost, job, doors, rest>>

-----------------------------------------------------------------------------
(* Short URLs. *)

(* Both handlers of a short URL, once it is found; e is what they do when  *)
(* the password is asked for.                                              *)
Visit(r, v, u, e) ==
    /\ job[r] = Idle /\ u \in there
    /\ \/ Limited(u, views[u]) /\ DeleteOnMaxViews /\ Removes(r, u) /\ UNCHANGED asked
       \/ ~Limited(u, views[u]) /\ Opened(v, u) /\ Goes(r, "count", v, u) /\ UNCHANGED asked
       \/ ~Limited(u, views[u]) /\ ~Opened(v, u) /\ e /\ UNCHANGED job
    /\ UNCHANGED <<there, views, object, due, recent, token, served, lost, rest>>

(* The short URL itself: without a token its page is where it leads.       *)
VisitUrl(r, v, u) == Visit(r, v, u, UNCHANGED asked)

(* GET /view/url/:id: the form for the password, or the destination.       *)
UrlPage(r, v, u) == Visit(r, v, u, asked' = asked \union {<<v, u>>})

-----------------------------------------------------------------------------
(* The forms for a password, and the routes they are posted to: the right  *)
(* one gives a token ...                                                   *)
FileForm(v, f) == <<v, f>> \in asked
UrlForm(v, u) == <<v, u>> \in asked

Gains(v, i) ==
    /\ i \in there
    /\ asked' = asked \ {<<v, i>>}
    /\ token' = token \union {<<v, i>>}
    /\ UNCHANGED <<there, views, object, due, recent, served, lost, job, rest>>

UnlockFile(v, f) == FileForm(v, f) /\ Gains(v, f)
UnlockUrl(v, u) == UrlForm(v, u) /\ Gains(v, u)

(* ... that is good for five minutes. *)
TokenExpires(v, i) ==
    /\ <<v, i>> \in token
    /\ token' = token \ {<<v, i>>}
    /\ UNCHANGED <<there, views, object, due, recent, asked, served, lost, job, rest>>

(* The counter is incremented where it is, and the content is sent.  The   *)
(* row of a file may be gone, which is logged; without that of a URL the   *)
(* update throws and nobody is redirected.                                 *)
Count(r) ==
    LET i == job[r].item IN
    /\ job[r].pc = "count"
    /\ views' = IF i \in there THEN [views EXCEPT ![i] = @ + 1] ELSE views
    /\ served' = IF i \in there \union File THEN [served EXCEPT ![i] = @ + 1] ELSE served
    /\ Finish(r)
    /\ UNCHANGED <<there, object, due, recent, lost, doors, rest>>

(* A file is sent although its view could not be counted. *)
CountFails(r) ==
    LET i == job[r].item IN
    /\ job[r].pc = "count" /\ i \in File /\ lost[i] < MaxLost
    /\ served' = [served EXCEPT ![i] = @ + 1]
    /\ lost' = [lost EXCEPT ![i] = @ + 1]
    /\ Finish(r)
    /\ UNCHANGED <<there, views, object, due, recent, doors, rest>>

DropObject(r) ==
    /\ job[r].pc = "dropObj"
    /\ object' = object \ {job[r].item}
    /\ Goto(r, "dropRow")
    /\ UNCHANGED <<there, views, due, recent, served, lost, doors, rest>>

(* A row another request removed first makes the delete throw: for a file  *)
(* that is logged, for a URL the visitor gets an error.                    *)
DropRow(r) ==
    /\ job[r].pc = "dropRow"
    /\ there' = there \ {job[r].item}
    /\ Finish(r)
    /\ UNCHANGED <<views, object, due, recent, served, lost, doors, rest>>

-----------------------------------------------------------------------------
(* The task selects with views >= maxViews, for which 0 is a limit ... *)
Sweep(t) ==
    LET spent == {i \in there : views[i] >= limit[i]} IN
    /\ DeleteOnMaxViews
    /\ job[t] = Idle /\ spent # {}
    /\ job' = [job EXCEPT ![t].pc = "sweep", ![t].files = spent \intersect File, ![t].urls = spent \intersect Url]
    /\ UNCHANGED <<there, views, object, due, recent, served, lost, doors, rest>>

(* ... deletes the objects one by one ... *)
SweepObject(t, f) ==
    /\ job[t].pc = "sweep" /\ f \in job[t].files \intersect object
    /\ object' = object \ {f}
    /\ UNCHANGED <<there, views, due, recent, served, lost, job, doors, rest>>

(* ... and then the rows, by id, in one transaction. *)
SweepRows(t) ==
    /\ job[t].pc = "sweep" /\ job[t].files \intersect object = {}
    /\ there' = there \ (job[t].files \union job[t].urls)
    /\ Finish(t)
    /\ UNCHANGED <<views, object, due, recent, served, lost, doors, rest>>

Next ==
    \/ \E r \in Request, v \in Visitor, f \in File :
         OwnRaw(r, v, f) \/ FilesRoute(r, v, f) \/ \E isView \in BOOLEAN : Raw(r, v, f, isView)
    \/ \E r \in Request, v \in Visitor, u \in Url : VisitUrl(r, v, u) \/ UrlPage(r, v, u)
    \/ \E r \in Request : ReadObject(r) \/ Count(r) \/ CountFails(r) \/ DropObject(r) \/ DropRow(r)
    \/ \E v \in Visitor, f \in File : ViewPage(v, f) \/ Forget(v, f) \/ UnlockFile(v, f)
    \/ \E v \in Visitor, u \in Url : UnlockUrl(v, u)
    \/ \E v \in Visitor, i \in Item : TokenExpires(v, i)
    \/ \E f \in File : Expire(f)
    \/ \E t \in Task : Sweep(t) \/ SweepRows(t) \/ \E f \in File : SweepObject(t, f)

Spec == Init /\ [][Next]_vars

-----------------------------------------------------------------------------
(* A limit is overshot by no more than the requests handled at once, less  *)
(* the one entitled to the last view, and the views that were not counted; *)
(* nobody counts after the row is gone who was not counting before.        *)
OvershootBounded == \A i \in Item :
    limit[i] # 0 => served[i] + 1 <= limit[i] + Cardinality(Request) + lost[i]

(* What goes for its views has had them, or has expired; an item without   *)
(* a limit is not removed.                                                 *)
RemovesOnlySpent == \A i \in Item :
    (i \in there \ there' \/ i \in object \ object') => i \in due \/ Limited(i, views[i])
=============================================================================
