------------------------------ MODULE ClientPages ------------------------------
(***************************************************************************)
(* The web client against the TypeScript server: signing in (SignIn),      *)
(* beside the upload page (Uploader), the page of the files (FileBrowser)  *)
(* and that of the short URLs (ShortUrls), which take no step together.    *)
(***************************************************************************)
EXTENDS SignIn

CONSTANTS
    Local, Big, LastChunk, BatchSize, MaxLength,    \* files to upload
    UploadScene, MaxPresses, MaxUploads, NoChunk, NoSession,
    PageTab,            \* tabs
    NewestFirst, Tag, Limit, Found, PerPage, Pages, PageScene, MaxCalls,
    Url, Vanity, MaxUrls, UrlScene

VARIABLES
    upScene, list, options, press, loading, wire, unheard, running, part, rows,
    fbScene, row, tags, typed, searched, at, copies, pending, current, focused, value, toggled,
    form, selected, call, calls, owed,
    deeds, urls, made, view, listed, again, dialog, post, posts, unread

upVars == <<upScene, list, options, press, loading, wire, unheard, running, part, rows>>
fbVars == <<fbScene, row, tags, typed, searched, at, copies, pending, current, focused, value, toggled,
            form, selected, call, calls, owed>>
suVars == <<deeds, urls, made, view, listed, again, dialog, post, posts, unread>>

Up == INSTANCE Uploader WITH
    Last <- LastChunk, MaxSessions <- MaxUploads, Scene <- UploadScene,
    scene <- upScene, call <- press, up <- running
Fb == INSTANCE FileBrowser WITH
    Files <- NewestFirst, Tab <- PageTab, Match <- Found, Scene <- PageScene,
    scene <- fbScene, asked <- searched, cache <- copies
Su == INSTANCE ShortUrls WITH Tab <- PageTab, Scene <- UrlScene

ASSUME PagesAssumption ==
    Up!UploaderAssumption /\ Fb!FileBrowserAssumption /\ Su!ShortUrlsAssumption

-----------------------------------------------------------------------------
(* What is recorded as stored is whole, with the options it was sent with. *)
UploadsKept == Up!StoredComplete /\ Up!AsChosen

(* The dialogs of a file's and of a URL's details write what is theirs,    *)
(* and a tab shows what it has itself done; what is looked up before it is *)
(* written, a quota and a name, is passed by no more than the calls that   *)
(* are under way.  No file's dialog comes back by itself.                  *)
OwnDetails ==
    /\ Fb!OwnDetails /\ Fb!OwnChangesShown
    /\ Su!OwnEdits /\ Su!OwnShown /\ Su!UrlsBounded
NeverReopens == [][Fb!ReopenStepFormula]_fbVars
=============================================================================
