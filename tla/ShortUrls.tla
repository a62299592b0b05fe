------------------------------ MODULE ShortUrls ------------------------------
(***************************************************************************)
(* The short URLs of one account: the page that lists them and its dialogs *)
(* in several tabs, and the routes behind them.  A creation compares the   *)
(* number of URLs with the quota and looks the vanity name up before it    *)
(* writes; an edit looks the name up too.  The edit dialog holds a copy of *)
(* the row as it was listed and sends what differs from it, and the limit  *)
(* in any case.  What is listed comes from a cache that each call asks to  *)
(* be read again, under a key that depends on the view.                    *)
(***************************************************************************)
EXTENDS Naturals, FiniteSets

CONSTANTS
    Url,        \* ids, taken as URLs are made
    Vanity,     \* vanity names
    Tab,
    MaxUrls,    \* the account's quota
    Scene,      \* what the users of the tabs may do, with how many calls (bound),
                \* and how each tab lists
    None

Fields == {"vanity", "limit", "locked", "on"}
Values(f) == CASE f = "vanity" -> Vanity \union {None}
               [] f = "limit" -> {None, "few"}
               [] OTHER -> BOOLEAN

ShortUrlsAssumption ==
    /\ IsFiniteSet(Url) /\ IsFiniteSet(Tab) /\ Tab # {}
    /\ MaxUrls \in Nat \ {0} /\ None \notin Vanity

VARIABLES
    deeds,      \* what each tab's user does: a member of Scene
    urls,       \* the rows, by id
    made,       \* ids that have been given to a URL
    view,       \* how each tab lists: as cards, as a table, or searching it
    listed,     \* the rows in each tab's cache
    again,      \* tabs whose cache was asked to be read again
    dialog,     \* the edit dialog: which URL, as listed, and as typed
    post,       \* the call of each tab that is under way
    posts,      \* how many it may still make
    unread      \* <<kind, u>>: what a tab has done since its cache was read

vars == <<deeds, urls, made, view, listed, again, dialog, post, posts, unread>>
pageVars == <<deeds, view, listed, again, dialog, posts, unread>>

Plain == [vanity |-> None, limit |-> None, locked |-> FALSE, on |-> TRUE]
Closed == [of |-> None, was |-> Plain, form |-> Plain, touched |-> {}]
Quiet == [kind |-> None, at |-> None, of |-> None, body |-> << >>, meant |-> {}]

Live == {u \in Url : urls[u] # None}

Init ==
    /\ made = {CHOOSE u \in Url : TRUE}
    /\ urls = [u \in Url |-> IF u \in made THEN Plain ELSE None]
    /\ \E s \in Scene : deeds = s.may /\ view = s.view /\ posts = s.calls
    /\ listed = [t \in Tab |-> urls]
    /\ again = {}
    /\ dialog = [t \in Tab |-> Closed]
    /\ post = [t \in Tab |-> Quiet]
    /\ unread = [t \in Tab |-> {}]

-----------------------------------------------------------------------------
(* The page. *)

(* GET: a search leaves the passwords out, otherwise there is at least     *)
(* whether there is one.                                                   *)
Fetched(t) == [u \in Url |->
    IF urls[u] = None \/ view[t] # "search" THEN urls[u] ELSE [urls[u] EXCEPT !.locked = FALSE]]

Cards(t) == {u \in Url : view[t] = "grid" /\ listed[t][u] # None}
TableRows(t) == {u \in Url : view[t] # "grid" /\ listed[t][u] # None}

(* A call, with what its user means to change. *)
Calls(t, kind, at, u, body, meant) ==
    /\ post[t] = Quiet /\ posts[t] > 0
    /\ post' = [post EXCEPT ![t] = [kind |-> kind, at |-> at, of |-> u, body |-> body, meant |-> meant]]
    /\ posts' = [posts EXCEPT ![t] = @ - 1]
    /\ UNCHANGED <<deeds, urls, made, view, listed, again, dialog, unread>>

(* The dialog to shorten a URL. *)
NewUrl(vanity) == [Plain EXCEPT !.vanity = vanity]
Shorten(t, vanity) == "shorten" \in deeds[t] /\ Calls(t, "post", "count", None, NewUrl(vanity), Fields)

(* setSelectedUrl: the dialog gets the row as it is listed, and its fields *)
(* are set from it.                                                        *)
Opens(t, u) ==
    /\ deeds[t] \intersect Fields # {}
    /\ dialog[t] = Closed
    /\ dialog' = [dialog EXCEPT ![t] =
         [of |-> u, was |-> listed[t][u], form |-> [listed[t][u] EXCEPT !.locked = FALSE], touched |-> {}]]
    /\ UNCHANGED <<deeds, urls, made, view, listed, again, post, posts, unread>>

EditCard(t, u) == u \in Cards(t) /\ Opens(t, u)
EditRow(t, u) == u \in TableRows(t) /\ Opens(t, u)

(* A password can be typed where none is known to be there. *)
Type(t, f, v) ==
    /\ dialog[t].of # None /\ f \in deeds[t]
    /\ dialog[t].form[f] # v
    /\ f = "locked" => ~dialog[t].was.locked
    /\ dialog' = [dialog EXCEPT ![t].form[f] = v, ![t].touched = @ \union {f}]
    /\ UNCHANGED <<deeds, urls, made, view, listed, again, post, posts, unread>>

Close(t) ==
    /\ dialog[t] # Closed
    /\ dialog' = [dialog EXCEPT ![t] = Closed]
    /\ UNCHANGED <<deeds, urls, made, view, listed, again, post, posts, unread>>

(* handleSave: the limit, and what differs from the row as it was listed.  *)
(* A name that was cleared is not among it.                                *)
Sent(d) ==
    {"limit"}
      \union {f \in {"vanity"} : d.form[f] \notin {None, d.was[f]}}
      \union {f \in {"locked"} : d.form[f]}
      \union {f \in {"on"} : d.form[f] # d.was[f]}

Save(t) ==
    /\ dialog[t].of # None
    /\ Calls(t, "patch", "find", dialog[t].of, [f \in Sent(dialog[t]) |-> dialog[t].form[f]],
             dialog[t].touched)

(* handleRemovePassword, offered where the list says there is one. *)
Unprotect(t) ==
    /\ dialog[t].was.locked
    /\ Calls(t, "patch", "find", dialog[t].of, [f \in {"locked"} |-> FALSE], {"locked"})

Delete(t, u) ==
    /\ "delete" \in deeds[t] /\ u \in Cards(t) \union TableRows(t)
    /\ Calls(t, "delete", "write", u, << >>, {})

-----------------------------------------------------------------------------
(* The routes. *)

Turns(t, at) == post' = [post EXCEPT ![t].at = at]

(* POST: the URLs of the account are counted ... *)
CountUrls(t) ==
    /\ post[t].at = "count"
    /\ Turns(t, IF Cardinality(Live) + 1 > MaxUrls THEN "error" ELSE "vanity")
    /\ UNCHANGED <<urls, made, pageVars>>

(* PATCH: the URL is looked up. *)
FindUrl(t) ==
    /\ post[t].at = "find"
    /\ Turns(t, IF post[t].of \in Live THEN "vanity" ELSE "error")
    /\ UNCHANGED <<urls, made, pageVars>>

(* ... and either of them looks for a URL that has the name, be it the one *)
(* that is edited.                                                         *)
CheckVanity(t) ==
    LET wanted == IF "vanity" \in DOMAIN post[t].body THEN post[t].body["vanity"] ELSE None IN
    /\ post[t].at = "vanity"
    /\ Turns(t, IF wanted # None /\ \E u \in Live : urls[u].vanity = wanted THEN "error" ELSE "write")
    /\ UNCHANGED <<urls, made, pageVars>>

Create(t, u) ==
    /\ post[t].at = "write" /\ post[t].kind = "post" /\ made # Url
    /\ u = CHOOSE x \in Url \ made : TRUE
    /\ urls' = [urls EXCEPT ![u] = post[t].body]
    /\ made' = made \union {u}
    /\ post' = [post EXCEPT ![t].at = "done", ![t].of = u]
    /\ UNCHANGED pageVars

(* A URL that is gone by now makes the update throw. *)
Update(t) ==
    LET u == post[t].of  b == post[t].body IN
    /\ post[t].at = "write" /\ post[t].kind = "patch"
    /\ urls' = IF u \in Live
                 THEN [urls EXCEPT ![u] = [f \in Fields |-> IF f \in DOMAIN b THEN b[f] ELSE urls[u][f]]]
                 ELSE urls
    /\ Turns(t, IF u \in Live THEN "done" ELSE "error")
    /\ UNCHANGED <<made, pageVars>>

Erase(t) ==
    /\ post[t].at = "write" /\ post[t].kind = "delete"
    /\ urls' = [urls EXCEPT ![post[t].of] = None]
    /\ Turns(t, IF post[t].of \in Live THEN "done" ELSE "error")
    /\ UNCHANGED <<made, pageVars>>

-----------------------------------------------------------------------------
(* The caches each answer has read again: a deletion, failed or not, those *)
(* of every view; a creation that of the cards alone; an edit not that of  *)
(* a search, whose key says what is searched.                              *)
Reads(t) == CASE post[t].kind = "delete" -> TRUE
              [] post[t].kind = "patch" -> post[t].at = "done" /\ view[t] # "search"
              [] OTHER -> post[t].at = "done" /\ view[t] = "grid"

(* The answer.  After an edit the dialog is closed, whatever it shows now. *)
Answer(t) ==
    /\ post[t].at \in {"done", "error"}
    /\ again' = again \union {s \in {t} : Reads(t)}
    /\ dialog' = [dialog EXCEPT ![t] =
         IF post[t].kind = "patch" /\ post[t].at = "done" THEN Closed ELSE @]
    /\ unread' = [unread EXCEPT ![t] =
         @ \union {d \in {<<post[t].kind, post[t].of>>} : post[t].at = "done"}]
    /\ post' = [post EXCEPT ![t] = Quiet]
    /\ UNCHANGED <<deeds, urls, made, view, listed, posts>>

(* The list is read, as asked or because the tab comes to the front. *)
Refetch(t) ==
    /\ t \in again \/ listed[t] # Fetched(t)
    /\ listed' = [listed EXCEPT ![t] = Fetched(t)]
    /\ again' = again \ {t}
    /\ unread' = [unread EXCEPT ![t] = {}]
    /\ UNCHANGED <<deeds, urls, made, view, dialog, post, posts>>

Next == \E t \in Tab :
    \/ \E v \in Vanity \union {None} : Shorten(t, v)
    \/ \E u \in Url : EditCard(t, u) \/ EditRow(t, u) \/ Delete(t, u) \/ Create(t, u)
    \/ \E f \in Fields : \E v \in Values(f) : Type(t, f, v)
    \/ Close(t) \/ Save(t) \/ Unprotect(t)
    \/ CountUrls(t) \/ FindUrl(t) \/ CheckVanity(t) \/ Update(t) \/ Erase(t)
    \/ Answer(t) \/ Refetch(t)

Spec == Init /\ [][Next]_vars

-----------------------------------------------------------------------------
(* The quota is passed, and a vanity name shared, by no more URLs than     *)
(* calls can be under way together: both are looked up before the row is   *)
(* written, and nothing in the table forbids either.                       *)
UrlsBounded ==
    /\ Cardinality(Live) + 1 <= MaxUrls + Cardinality(Tab)
    /\ \A w \in Vanity : Cardinality({u \in Live : urls[u].vanity = w}) <= Cardinality(Tab)

(* An edit on its way sends what its user changed, apart from the limit,   *)
(* which goes along as it was listed: what other tabs have changed in the  *)
(* meantime stays.                                                         *)
OwnEdits == \A t \in Tab :
    post[t].kind = "patch" => DOMAIN post[t].body \subseteq post[t].meant \union {"limit"}

(* A tab lists what it has itself done, except that a table does not show  *)
(* what was shortened, nor the result of a search what was edited, until   *)
(* the tab is left and looked at again.                                    *)
OwnShown == \A t \in Tab \ again : \A d \in unread[t] :
    d[1] # "delete" /\ (d[1] = "patch" => view[t] = "search") /\ (d[1] = "post" => view[t] # "grid")
=============================================================================
