------------------------------ MODULE MCDashboard ------------------------------
(***************************************************************************)
(* The web client against the TypeScript server, one part of it at a time. *)
(* The upload page with files of one chunk and of three, two browsers that *)
(* sign in, and the pages of the files and of the short URLs in two tabs   *)
(* have a few situations each, chosen at the start.  On the pages of the   *)
(* settings, two tabs work on different parts and on settings that depend  *)
(* on each other, or one tab changes any setting of any part while the     *)
(* process dies and starts.                                                *)
(***************************************************************************)
EXTENDS ClientPages, Sequences, TLC

CONSTANTS
    u1, b1, b2,
    left, right, any, Tab, Openable, Enters, FromEnv, MostEntries, MostSaves,
    x1, x2, x3, g1, t1, t2

VARIABLES instance, stored, live, up, tab, cache, asked, saves

svVars == <<stored, live, up, tab, cache, asked, saves>>
allVars == <<instance, vars, upVars, svVars, fbVars, suVars>>

Sv == INSTANCE ServerSettings WITH
    MayOpen <- Openable, Entry <- Enters, MaxEntries <- MostEntries, MaxSaves <- MostSaves

ASSUME SignInAssumption /\ Sv!ServerSettingsAssumption

-----------------------------------------------------------------------------
(* The situations of the upload page.                                      *)
Chosen == [deletesAt |-> "soon", maxViews |-> "some", password |-> "set"]
Situation(text, files, choices, faults) ==
    [text |-> text, files |-> files, choices |-> choices, faults |-> faults]
UploadSituations ==
    {Situation(TRUE, {1, 2}, {Chosen}, FALSE), Situation(FALSE, {1, 2}, {}, FALSE),
     Situation(FALSE, {2, 3}, {Chosen}, FALSE), Situation(FALSE, {2, 3, 4}, {}, FALSE),
     Situation(FALSE, {2, 3}, {}, TRUE)}

(* What is done in the settings while others sign in.                      *)
SignInSituations ==
    {{"patch", "logout", "endOthers", "endOne"}, {"secret", "enable", "disable"},
     {"logout", "endOthers", "keyOptions", "saveKey", "removeKey"}}

(* Those of the files page; the search finds the second file.              *)
ThreeFiles == <<x1, x2, x3>>
Finds == ("" :> {x1, x2, x3}) @@ ("x2" :> {x2})
PlainRow == [fav |-> FALSE, folder |-> FALSE, tags |-> {}, limit |-> None]
Page(a, b) ==
    [may |-> (t1 :> a) @@ (t2 :> b), tags |-> {g1},
     rows |-> (x1 :> [PlainRow EXCEPT !.limit = "few"]) @@ (x2 :> [PlainRow EXCEPT !.tags = {g1}]) @@ (x3 :> PlainRow)]
PageSituations ==
    {Page({"open", "edit", "search"}, {"delete"}), Page({"open", "tags", "delete"}, {"dropTag", "newTag"}),
     Page({"select", "bulkStar", "bulkDelete"}, {"star"}), Page({"select", "bulkStar", "bulkDelete", "page"}, {}),
     Page({"search", "page", "open", "delete"}, {}), Page({"select", "bulkFolder", "refocus"}, {"folder"})}

(* Those of the short URLs: creations, edits and deletions in both tabs.   *)
UrlScenes(a, shows1, n1, b, shows2, n2) ==
    [may |-> (t1 :> a) @@ (t2 :> b), view |-> (t1 :> shows1) @@ (t2 :> shows2),
     calls |-> (t1 :> n1) @@ (t2 :> n2)]
UrlSituations ==
    {UrlScenes({"shorten"}, "grid", 1, {"shorten", "delete"}, "table", 2),
     UrlScenes({"vanity"}, "table", 1, {"shorten"}, "search", 1),
     UrlScenes({"locked"}, "search", 1, {"delete", "locked"}, "grid", 1),
     UrlScenes({"limit"}, "search", 1, {"on"}, "table", 1)}

(* What is entered in the forms of the settings, or sent by a client that  *)
(* is no form; Forms has their names and needs none of what is chosen here.*)
Forms == INSTANCE ServerSettings WITH
    MayOpen <- {}, Entry <- {}, MaxEntries <- 0, MaxSaves <- 0
LinkedEntry == {<<"oauthGoogleClientId", "new">>, <<"oauthGoogleClientSecret", "new">>,
                <<"oauthGoogleClientSecret", "empty">>, <<"websiteTos", "new">>,
                <<"websiteTos", "empty">>, <<"websiteExternalLinks", "odd">>,
                <<"pwaTitle", "empty">>, <<"pwaEnabled", "on">>, <<"mfaPasskeysEnabled", "on">>,
                <<"mfaPasskeysRpID", "new">>, <<"mfaPasskeysOrigin", "new">>}

AnyEntry == {<<k, IF k \in Forms!Off THEN "on" ELSE IF k \in Forms!Switch THEN "off" ELSE "new">> :
                k \in Forms!Setting \ Forms!Redirects}
            \union {<<k, "odd">> : k \in Forms!SiteSchema["odd"] \union Forms!AccessSchema["odd"]}

PartsOf == [t \in Tab |-> CASE t = left -> {"oauth", "pwa"}
                            [] t = right -> {"website", "mfa"}
                            [] OTHER -> Forms!Part]
EntryOf == [t \in Tab |-> IF t = any THEN AnyEntry ELSE LinkedEntry]
SavesOf == [t \in Tab |-> IF t = left THEN 2 ELSE 1]
EntriesOf == [t \in Tab |-> IF t = any THEN 1 ELSE 3]

-----------------------------------------------------------------------------
(* What belongs to a part that is not looked at does not matter.           *)
Parked(it, scenes) == it = CHOOSE s \in scenes : TRUE

MCInit ==
    /\ instance \in {"upload", "signin", "files", "urls", "tabs", "parts"}
    /\ IF instance \in {"tabs", "parts"} THEN Sv!Init
       ELSE stored = Sv!Defaults /\ up = TRUE
            /\ live = {} /\ tab = {} /\ cache = {} /\ asked = {} /\ saves = {}
    /\ Init /\ Up!Init /\ Fb!Init /\ Su!Init
    /\ instance # "upload" => Parked(upScene, UploadScene)
    /\ instance # "signin" => Parked(scene, Scene)
    /\ instance # "files" => Parked(fbScene, PageScene)
    /\ instance # "urls" => \E s \in UrlScene : Parked(s, UrlScene) /\ deeds = s.may /\ view = s.view /\ posts = s.calls

(* A form that is opened when nothing may be saved any more is no use.     *)
SettingsNext ==
    /\ \/ instance = "tabs" /\ (Sv!Step(left) \/ Sv!Step(right) \/ Sv!Start)
       \/ instance = "parts" /\ (Sv!Step(any) \/ Sv!Crash \/ Sv!Start)
    /\ \A t \in Tab : tab'[t].at = "form" => saves[t] < MostSaves[t]

MCNext ==
    /\ UNCHANGED instance
    /\ \/ instance = "upload" /\ Up!Next /\ UNCHANGED <<vars, svVars, fbVars, suVars>>
       \/ instance = "signin" /\ Next /\ UNCHANGED <<svVars, upVars, fbVars, suVars>>
       \/ instance = "files" /\ Fb!Next /\ UNCHANGED <<vars, upVars, svVars, suVars>>
       \/ instance = "urls" /\ Su!Next /\ UNCHANGED <<vars, upVars, svVars, fbVars>>
       \/ instance \in {"tabs", "parts"} /\ SettingsNext /\ UNCHANGED <<vars, upVars, fbVars, suVars>>

MCSpec == MCInit /\ [][MCNext]_allVars /\ Up!Fairness /\ Fairness

-----------------------------------------------------------------------------
(* Two tabs on different parts: what was saved in one stays.  One at a     *)
(* time: the server runs with what is stored.                              *)
SettingsKept == (instance = "tabs" => Sv!EditsStand) /\ (instance = "parts" => Sv!LiveIsRow)

(* The process starts again with whatever has been stored, but for values  *)
(* that have their JSON type and no meaning.                               *)
StartsUnlessOdd == instance \in {"tabs", "parts"} => Sv!StartsUnlessOdd

(* Neither the upload page nor the sign-in forms stay disabled.            *)
ClientsSettle == Up!PageSettles /\ FormsSettle
=============================================================================
