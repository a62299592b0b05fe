# zipfast, verified: TLA+ models of the two servers and their dashboard

The repository holds one program twice. zipfast is a file and URL sharing server
in Go (`src/cmd`, `src/internal`); it aims at full parity (`src/README.md:33`)
with zipline, the TypeScript server it is a port of, which is kept under
`src/web` together with the dashboard both of them serve. Either server runs as
one process over a PostgreSQL database and a datasource, which is a directory or
an S3 bucket. This directory holds TLA+ modules that model the stateful core of
both servers and the dashboard's own state, TLC configurations that check them
on small instances, and proofs that TLAPS checks for every instance.
`PROJECT.json` lists the components, the runs, the theorems, the hazards, and
for each definition the source lines it stands for.

    tlc -config MCFolders_folders.cfg MCFolders     # a run
    tlapm FoldersProofs.tla                         # the proofs of a module

1. [The system](#1-the-system)
2. [Modules](#2-modules)
3. [Runs](#3-runs)
4. [Fairness](#4-fairness)
5. [Proofs](#5-proofs)
6. [Where the program and its documentation differ](#6-where-the-program-and-its-documentation-differ)
7. [What is not modelled](#7-what-is-not-modelled)
8. [Plan](#8-plan)

## 1. The system

Go paths are under `src/internal/`, TypeScript paths under `src/web/src/`.
"Both" means that each server has an implementation of its own and both are
modelled, in one module where the steps agree and in two where they do not.

| component | state it keeps | operations | shares state with |
|---|---|---|---|
| files, zipfast (`server/upload_routes.go`, `user_routes.go`, `user_extra_routes.go`, `tasks/`) | rows of `files`; objects keyed by `files.name` | upload with rollback, delete, bulk delete, rename, expiry by task and on access, requery of sizes, clear_zeros | every one of these works on the same rows and keys |
| files, zipline (`server/routes/api/upload/`, `lib/api/upload.ts`, `server/routes/api/user/files/`) | the same, rows first | upload under a quota, delete, bulk delete, rename | the quota is a sum over the rows |
| accounts, zipline (`lib/oauth/`, `server/routes/api/users/`) | `users` with roles and provider links | sign-up, link and unlink by a provider, roles, deletion | every handler that checks a role it read before |
| datasource (both) | a directory, or a bucket | Put, Get, Delete, Rename | storage, thumbnails, partial uploads, folders |
| partial uploads, zipfast (`server/upload_routes.go`, `upload/headers.go`) | chunk files in the temp directory | write a chunk, on the last one assemble, check and store | clear_temp, export zips in the same directory |
| upload page (`components/pages/upload/`, `server/routes/api/upload/partial.ts`, `offload/partial.ts`) | the page's list, options and requests; zipline's chunk sessions, pending rows and temp files | send small files in one request, big ones in chunks; join them in a worker thread; clear what is left | rows of `files`, temp directory |
| thumbnails (both: `thumbnails/`, `media/`; `offload/thumbnails.ts`, `lib/tasks/`) | rows of `thumbnails`, their objects, temp outputs; zipline's pool of worker threads, its queue and its batches | zipfast's scanner and manual pass; zipline's timer, rerun, cleaning | each other; deletion of the video |
| serving and view limits (both: `server/serve_routes.go`, `embed.go`; `server/routes/raw/`, `urls.dy.ts`) | `views`, `max_views` of `files` and `urls`; zipline's access tokens | compare, serve, count, remove at the limit | maxViews task, PATCH of the limit |
| folders (both: `server/user_routes.go`; `server/routes/api/user/folders/`) | `parent_id` of folders, `folder_id` of files | create, move, five ways to delete, attach and detach files, zip | uploads into a folder, dashboards in several tabs |
| settings and first setup, zipfast (`config/`, `server/server_routes.go`, `auth_routes.go`) | one JSON row with `first_setup`; the process's `Config` pointer | PATCH, reload, first setup, restart | every handler reads the pointer |
| settings, zipline (`components/pages/serverSettings/`, `server/routes/api/server/settings/`, `lib/config/`) | the forms of each tab, a column per setting, the validated configuration | enter, save, reload, start | forms of other tabs; the environment |
| rate limiter, zipfast (`server/ratelimit.go`) | a map from client to tokens and last time | allow, prune, reset when full | all requests |
| background tasks (both: `tasks/`, `lib/tasks/`) | a ticker each | deleteFiles, maxViews, clearInvites, metrics, thumbnails | files, views, invites, thumbnails |
| invites (both) | `invites.uses`, `max_uses`, users | register, count, delete, sweep | clearInvites, unique user names |
| sessions, second factors and passkeys, zipline (`server/session.ts`, `server/routes/api/auth/`, `client/pages/auth/`) | session rows, cookies, TOTP secrets, passkeys, challenges; the pages' dialogs | sign in by password, code or passkey; sign out; end other sessions; switch codes on and off; add and remove passkeys | two browsers of one account |
| file browser (`components/pages/files/`, `components/file/`) | caches of lists and searches, selections, dialogs and forms of a tab | list, search, page, open, edit, tag, bulk actions | the same rows from another tab |
| short URLs, zipline (`components/pages/urls/`, `server/routes/api/user/urls/`) | `urls`; the dialogs and lists of a tab | create under a quota and a vanity name, edit, delete | view limits, other tabs |
| exports (both: `server/export_routes.go`; `server/routes/api/user/export.ts`) | rows of `exports`, zips in the temp directory | create in the background, list, download, delete | clear_temp, files |
| importer (both: `importer/`; `server/routes/api/server/import/`) | the ids it maps | insert an export of another instance, row by row | all tables |
| webhooks, embeds, templates (both: `parser/`, `webhooks/`; `lib/parser/`, `lib/webhooks/`) | none that outlives a call | fill a template, notify, render the visitor's page | what was uploaded |
| public folders, upload options and names, media, schema, command line, statistics, layout | no state of their own, or read-only | | |

### How the parts meet

A request handler, a goroutine in zipfast and an asynchronous function in
zipline, issues one SQL statement or one datasource call after another.
Nothing is locked between two of them: apart from a few transactions (zipfast's
OAuth sign-up, zipline's deletions of folders) none spans a read and the write
based on it, and none can span the database and the datasource. Background
tasks do the same in the same process. The rate limiter's map (a mutex),
zipfast's settings pointer and zipline's configuration and thread pool are the
shared memory that matters. The process can die between any two calls; what it
then leaves are rows, objects and files in the temp directory, which the next
process finds. The dashboard holds copies of rows in caches, forms and dialogs,
reads some of them again and writes back what the user saw.

So five things make this code hard to test, and the models are about them:

- two stores without a common transaction: a failure between the two steps must
  leave what a later attempt can finish, and must not lose what was acknowledged;
- reads that are used after somebody else has written (a row's name, a counter,
  the settings blob, a dialog's copy of the folder tree);
- background passes that meet each other and the handlers on the same row, and
  come back to what an earlier pass left half done;
- tables, quotas and counters at their limit;
- a page whose copy of the state is older than what it is applied to.

### What makes each part correct

What one would ask of each part; sections 5 and 6 say under which conditions the
code keeps it.

| component | properties |
|---|---|
| files | an acknowledged file keeps its row and its bytes until somebody entitled has it removed; tasks erase the object before the row and get every expired file in the end; nothing the code could have removed is leaked; a quota is overshot only by uploads at work together |
| accounts | an account keeps a way to sign in; the SUPERADMIN stays |
| partial uploads, upload page | what is stored is every chunk, whole, once, in order, with the options chosen; no page waits for ever |
| thumbnails | a row points to an object that exists; the pool knows what is under way; every readable video gets a thumbnail |
| view limits, invites | the overshoot is bounded by the requests at work; only what has reached its limit is removed; the uses are the accounts made |
| folders | the tree stays a tree; a deletion destroys its subtree, rows and objects together, and nothing else, and ends |
| settings | a setting changes only by the save that names it; the live configuration is the stored one; setup stays done; the server can start with what it stored |
| rate limiter | forgetting a client never gives it tokens; the table is bounded; a client sees the bucket it would see if nothing were ever forgotten |
| sessions | who was told to be signed in is served as that account; an ended session stays ended; nobody is locked out by a secret that cannot be read |
| file browser, short URLs | a dialog writes the values of its own file; a tab shows what it did; a dialog does not come back by itself |
| exports, importer | each file once, whole; a row comes over once; no folder into itself |
| webhooks, templates | what is said is what the template means; every rendering ends |

The hazards, each at the line where it bites and with the properties that would
notice it, are in `PROJECT.json` under `hazards`.

## 2. Modules

Each module models one component. An element of a set of actors (`Op`, `Client`,
`Request`, `Req`, `Pass`, `Visitor`, `Tab`, `Browser`, ...) is a slot in which
one handler, one pass or one page at a time runs; its program counter (`pc`,
`stage`) says which call comes next, and the record beside it holds the
handler's local variables, so that what was read early is what is used late. One
action is one call to the database, the datasource or the file system with what
the handler does until the next one. Failures are actions of their own
(`...Fails`), enabled by a constant (`Faults`), so that an instance says which
of them it withstands. An operator marked *Seeded bug* is a variant of the
definition after it, with a mistake somebody could make there; nothing uses it
but the mutants of `PROJECT.json`, which show that each property would notice.

| module | stands for | state |
|---|---|---|
| `FileCatalog` | what the store promises: a file is new, stored or gone | `phase`, `acked`, `condemned` |
| `FileStore` | zipfast's files: `uploadProcessPart`, `userDeleteFile`, the rename of `userPatchFile`, `uexDeleteTransaction`, `sactClearZeros`, `sactRequerySize`, `deleteFiles` and `maxViews` of `tasks/`, the check of `deletes_at` when serving, both datasources | `row` is `files.name`, `object` what each key holds, `op` the goroutines; `acked`, `expired`, `requested` |
| `QuietStore` | `FileStore`, with a record of whether anything has gone wrong | `quiet` |
| `ReferenceFiles` | zipline's files on either datasource: rows first, quota, rename, deletions | `datasource`, `row`, `object`, `op`; `acked`, `condemned`, `contested`, `disturbed` |
| `Accounts` | zipline's accounts: setup, users and roles, sign-up, linking and unlinking | `account`, `firstSetup`, `req`; `condemned`, `alone` |
| `Folders` | zipfast's folder handlers, both recursions statement by statement, and the dialogs that choose their arguments | `parent`, `loc` (a file's folder), `object`, `work` with a stack of frames |
| `SettledFolders` | `Folders`, with a record of whether deletions were left alone | `moved`, `disturbed` |
| `ReferenceFolders` | zipline's folders: transactions, zips, uploads | `place`, `object`, `dirty` (what a transaction has written), `work` |
| `PartialUpload` | zipfast's chunks: `handleUploadPartial`, `uploadAssembleChunks`, `sactClearTemp` | `temp`, `req`, `answer`, `files` (what was stored, chunk by chunk); `overlapped` |
| `Uploader` | the upload page, and zipline's sessions of chunks and its joining worker | `list`, `options`, `call`, `wire`, `part`, `rows` |
| `Thumbnails` | zipfast's scanner and manual pass | `thumb` (the row), `object`, `output`, `todo` and `stage` of each pass |
| `ThumbnailPool` | zipline's pool of worker threads: batches, messages, timer, deaths, cleaning | `thumb`, `object`, `pool`, `busy`, `batch`, `cleaner` |
| `ViewLimit` | zipfast's checks, counts and removals at the raw route, the embed page and the redirect; the maxViews task | `views`, `limit`, `served`, `lost`, `peak`, `work` |
| `ReferenceViews` | the same in zipline, with passwords, tokens and the window of recent views | `views`, `recent`, `token`, `asked`, `job` |
| `Settings` | zipfast's PATCH of the settings, `ReloadSettings`, setup, start | `stored`, `first`, `live`, `work`; `founders`, `stale`, `overlapped`, `closed` |
| `ServerSettings` | the forms of the settings page, zipline's PATCH, validation, start | `stored`, `live`, `tab`, `cache`, `asked` |
| `TokenBuckets` | what a client of the limiter sees: a bucket for ever | `bucket`, `verdict` |
| `RateLimiter` | the middleware: `RateLimit`, `allow`, `maybePruneLocked`; times are kept as ages | `entries`, `level`, `idle`, `pruned`, `waiting`, `verdict` |
| `Invites` | registration, deletion and sweep of invites, both servers | `row`, `uses`, `maxUses`, `accounts`, `reg`, `sweep`; `via`, `lost`, `stale` |
| `SignIn` | zipline's sessions, TOTP and passkeys and the pages that use them | `session`, `cookie`, `totp`, `keys`, `challenge`, `page`, `req`; `as` |
| `FileBrowser` | the files page: lists, search, dialogs, tags, bulk actions | `row`, `tags`, `cache`, `current`, `value`, `form`, `selected` |
| `ShortUrls` | the URLs page and zipline's handlers for it | `urls`, `listed`, `dialog`, `post` |
| `UserExports` | exports of a user, both servers | `record`, `zip`, `disk`, `making`, `sweep` |
| `Import` | the importers of both servers | `db` (the rows that came over), `op`, `export` |
| `Notices` | webhooks, the template parser and a visitor's page, both servers | `discord`, `http`, `visit`, `frames`, `said` |

`FileStore` implements `FileCatalog`, and `RateLimiter` implements
`TokenBuckets`; the mappings are the `INSTANCE ... WITH` at the end of each
detailed module. A file is *new* in the catalog until its row is inserted,
*stored* as long as it has one and *gone* after; a bucket is the entry's, or a
full one when there is no entry.

Two modules put components side by side that take no step together, for the
proofs and the runs alike: `FolderServers` (`SettledFolders`, `ReferenceFolders`,
`UserExports`) and `ClientPages` (`SignIn`, `Uploader`, `FileBrowser`,
`ShortUrls`). The `MC` modules do the same for the other components and for
several instances of one: `MCTasks` puts the background goroutines of `FileStore`
and of `Thumbnails` in one process, where a crash ends both. Their sets and
bounds are constants too, which only a `.cfg` gives a value. What a run checks of
a conjunction of components is therefore a formula with a meaning for every
value, and the proof modules extend these modules to prove it as it stands.

Choices that shape the models:

- **Objects are their bytes' owner.** `object[n]` says whose bytes a key holds,
  or `Torn`; that is all durability can tell apart.
- **The two servers store in opposite orders.** zipfast puts the object and then
  inserts the row; zipline creates the row and then puts the object, so its
  uploads under way can be listed, renamed and deleted.
- **Deletion is two orders.** zipfast's `DELETE /api/user/files/:id` removes the
  row and then the object under the name it read; tasks, bulk deletion and expiry
  on access remove the object first. Both are in `FileStore`, since they meet.
- **An insert that fails may have worked.** With `"ack"` in `Faults` the INSERT
  of an upload commits and its answer is lost, so that the handler removes the
  object of a row that is there.
- **`s3.Rename` is two calls** (copy, delete), a local one is one.
- **Chunks are written in two calls.** `Open` truncates, `Write` fills; a crash or
  an error leaves the file `short`. Another request may open it between the two:
  the first then goes on at its own offset, so that the file may get its length
  with zeros before that offset (`holed`). Of a stored file each chunk counts
  towards its length unless it is short; local storage takes the length announced
  on trust, S3 refuses a body of another length (`LengthChecked`).
- **zipline's S3 datasource hides its errors.** `put`, `get` and `delete` log them
  and return: an upload is acknowledged without an object (`PutObjectLost`), a
  deletion goes on to the row (`DropObjectFails`), and an object that cannot be
  read is taken for a missing one (`ProbeFails`). A rename is a copy and a delete,
  and of more than 5 GB a copy only (`CopyLargeObject`).
- **What cannot be read is not zipped.** Both servers log a file the datasource
  fails to read and go on with the export (`SkipUnread`).
- **The dashboard is part of `Folders` and `PartialUpload`.** The dialogs exclude
  a folder's descendants, but from a list read when they open; the uploader
  sends one chunk after the other and repeats none (`InOrder`, `MaxSends = 1`).
- **Pages act in situations.** `Uploader`, `FileBrowser`, `ShortUrls`, `SignIn`
  and `ReferenceFolders` take a constant `Scene`, the set of things a tab or a
  browser may do in a behaviour; an instance is a set of such scenes, so that
  each pair of features that share state meets without all of them at once.
  `PoolScene` of `ThumbnailPool` is a set of situations (the videos, those that
  cannot be read, what may fail, how many passes come).
- **Templates are read as text.** In `Notices` a template is a sequence of texts,
  holes and the quotes and bars of conditionals. zipline's regular expression finds
  branches by the first piece that may end them, so those of nested conditionals are
  cut (`Found`); their author means the marks that belong together (`Meant`).
  `Full` opens holes `Depth` times; a bound too small would violate `SaidRight`.
- **History variables** record what the properties speak about: `acked`,
  `requested`, `condemned`, `served`, `lost`, `peak`, `via`, `stale`, `founders`,
  `as`. Some say only that something has not happened, so that a
  property with a condition is a formula about states, the same in a run and in
  a theorem: `quiet` (no crash, no failed call to the datasource, no lost
  answer, no detached or renamed file), `moved` (something was moved while a
  deletion ran), `disturbed` in `SettledFolders` (a step other than those of
  cascade-files deletions whose calls succeed, dialogs and new folders came
  while one ran), `overlapped` in `Settings` (two requests were at work at once)
  and in `PartialUpload` (the chunks opened again while being written), `closed`
  (no request was under way at some time after setup was marked as done),
  `contested` and `disturbed` in `ReferenceFiles` (a name was taken while a
  request held it; the requests of a file crossed or failed, or S3 hid a failure
  from one of them or left the object under its old key).
  Two are read by guards: each installer creates one administrator, and only where
  there is one can somebody PATCH (`founders`), which may be before setup is
  marked as done; and at most `MaxLost` counts of an item fail (`lost`).

## 3. Runs

A run's module puts a few instances side by side where one set of constants
cannot show everything; the first step of a behaviour chooses one. All of them
allow the system to stop, since files, uploads, videos and requests are used up;
that nothing stops half way is what the liveness properties say.

| run | instances | what holds | distinct states |
|---|---|---|---|
| `durable` (`MCDurable`) | `local` and `s3`: one file, three names (one of them empty), three goroutines, every fault; `faulty`: two files on S3, no renames; `quiet`: two files, only the database fails, with requery | `AckedDurable`, `NoLeakWhenQuiet`; `FileStore` implements `FileCatalog` | 277,731 |
| `fo_folders` (`MCFolders`) | zipfast: `tree`, one tab, three folders, a file, every operation and fault; `cascade`, two cascade-files deletions at once; `ends`, two deletions while folders and files are created and moved; zipline: two tabs in four scenes; exports of two files on either server, some of them unreadable | `Acyclic`, `CascadeExactAlone`, `OnlyWithin`, `CascadeExact` and `TreeStays` of zipline, `ExportWhole`, every request ends (`TabsEnd`) | 693,714 |
| `import` (`MCImport`) | six exports of two users, two folders, two files, a tag and one item of each kind; two imports, three formats and servers, one intervention by a user | `ImportedOnce`, `Delivered` | 1,651,445 |
| `counters` (`MCCounters`) | zipfast's views with and without owners who change limits; zipline's with passwords; two items, two requests, the task, limits of one and two, one lost count; invites on both servers, two requests, three names | `OvershootBounded`, `InviteOvershootBounded`, `UsesAreAccounts`, `OnlySpentRemoved`, `EventuallySwept` | 957,646 |
| `requests` (`MCRequests`) | `patient`: the uploader on local storage; `checked`: any order, repetitions and clear_temp on S3; three chunks, two requests, crashes; the limiter with room for three entries and for one, three keys and an exempt one, a burst of two | `StoredInOrder`, `StoredWhole`, `ImplementsBuckets` | 1,672,172 |
| `reference` (`MCReference`) | zipline, local and on S3 whose calls fail silently: three files, two names, two requests, a quota of one; two accounts, two providers, two requests, apart from each other or not | `QuotaBounded`, `AckedServed`, `NothingLeft`, `AccountsKept` | 1,699,048 |
| `thumbnails` (`MCThumbnails`) | zipfast: two videos, two passes with formats of their own, every fault, or two goroutines per pass; zipline's pool: a deletion, an unreadable video, a worker that dies; notices on either server, six templates, two of them with a conditional in a branch of another | `RowHasObject`, `PoolKnowsWork`, `SaidRight`, `FollowUpsEnd` | 343,334 |
| `tasks` (`MCTasks`) | one file and one video, an upload, deleteFiles, maxViews and the scanner, every fault; settings `alone`: one request at a time, failing calls; `overlap`: two PATCHes and two setups | `ExpiredErased`, `EventuallyThumbnailed`, `LiveIsStoredAlone`, `SetupStays` | 160,233 |
| `dashboard` (`MCDashboard`) | the upload page in five scenes; two browsers of one account in three; the files page in two tabs in six; the URLs page in four; the settings page in two tabs with linked settings, or one tab with every setting while the process dies and starts, values without a meaning among what is sent | `UploadsKept`, `AccountsSafe`, `OwnDetails`, `SettingsKept`, `StartsUnlessOdd`, `EndedStays`, `NeverReopens`, `ClientsSettle` | 267,066 |
| `tags` (`MCTags`) | one tab, the dialog of a tagged file | **violated** `TagsAsPicked`: entering and leaving the field erases the tags | |
| `redirect` (`MCRedirect`) | one tab, the OAuth form | **violated** `KeepsStarting`: a redirect URI alone ends the server, now and at every start | |
| `passkey` (`SignIn`) | two browsers of one account | **violated** `SignedInAs`: a passkey used over an ended session signs nobody in | |

Why these bounds are enough:

- *Actors.* The hazards are between two; a third in `durable` (a task beside two
  handlers) adds the case where one undoes while two race. The proofs have no bound.
- *Names.* Two and the empty one: a rename needs a name to come from and one to
  go to, and the empty name is the one value both datasources treat apart. In
  `reference` two names for three files, so that files meet on a name.
- *Files.* Two, where files can meet at all: names private to a file make them
  independent. Three in `reference`, for the quota.
- *Folders.* Three make a chain with a folder in the middle, which each of the
  recursions enters, passes through and returns to; `MCFolders` leaves out trees
  that differ only in the folders' names.
- *Chunks.* Three: a first, a last and one that can be missing between them.
  Twice is enough to send a chunk, since what a third could find is what the
  second found.
- *The limiter.* A burst of two takes two ticks to earn; `IdleTTL = 2` is the
  shortest for which the assumption of the proof holds with `MaxWait = 1`, that
  is, where eviction is just late enough. Ages are counted only as far as they
  are compared (`Older`).
- *Views, invites.* With two requests a limit of one is overshot by one, the
  bound, and a limit of two is the first that is reached by a request that did
  not start it.
- *Sessions.* Three sessions, two secrets and one challenge at a time: each
  browser can replace its session once, and a secret can be drawn again while
  the first is being confirmed.
- *Imports.* Each export differs from the others in what collides (a name taken,
  twins, an owner that does not exist); one intervention is enough to invalidate
  what an import has read.

Every property of a passing run has a mutant: the code with one plausible mistake
(a lost rollback, a swapped order, a missing check) with which TLC finds the
property violated in that run.

## 4. Fairness

Safety needs none. The liveness properties assume:

- `FileStore!TaskFairness`: `tasks.run` executes a task at start and at every
  tick, over all targets its query returns (`tasks/tasks.go:59-89`), so each
  target is taken up again and again (`SF` of `ExpireBegin`: a crash, or a file
  another goroutine is busy with, may put it off, not prevent it); neither the
  storage nor the database refuses for ever (`SF` of `DropObject` and
  `DropRow`); a goroutine that has begun goes on (`WF` of `Continues`).
- `Thumbnails!ScanFairness`: the scanner selects at every tick, its pool
  dispatches whenever a slot is free, and none of extracting, reading, storing
  and inserting fails every time it is tried (`SF` of each). A video that cannot
  be decoded at all is outside this assumption, and never gets a thumbnail.
- `Invites`: clearInvites runs at every tick (`WF` of `SweepAtOnce` and
  `SelectExpired`) and none of its calls fails for ever (`SF` of `SelectUsed`
  and `DeleteSelected`). The interval is assumed to be positive; zipline never
  starts a task whose interval is 0 or longer than a timer can hold.
- `ThumbnailPool`: the task's timer fires, threads that run go on, and the
  events they cause reach the main thread (`WF` of each step).
- `Folders`, `ReferenceFolders`, `Notices`, `SignIn`: each call of a request
  under way returns or fails (`WF` of a request's next step). What is assumed is
  that neither the database nor the datasource hangs.
- `Uploader`: each request of the page is answered or lost, and what the page
  does by itself it does (`WF`).

There is no fairness of users, of clients, of uploads or of crashes.

## 5. Proofs

Theorems whose property a run checks:

| theorem | says | needs |
|---|---|---|
| `FileStoreProofs!Refinement` (`ImplementsCatalog`) | `FileStore` implements `FileCatalog`: a file is stored once and goes once, is acknowledged only as it is stored, and if acknowledged goes only when somebody was entitled to remove it | requery_size does not run |
| `FileStoreProofs!Durability` (`AckedDurable`) | an acknowledged file nobody may remove has its row and its bytes | names private to a file (the empty one apart); renames are local or not in use; no requery |
| `FileStoreProofs!LeaksNothing` (`NoLeakWhenQuiet`) | until the first trouble every object has its row, or a goroutine about to insert the row or delete the object | names private to a file |
| `FoldersProofs!OneTabKeepsTree` (`Acyclic`) | the folders stay a tree | one tab; any calls may fail |
| `FoldersProofs!DeletesOnlyWithin` (`OnlyWithin`) | a cascade-files deletion destroys no row and no object outside the subtree it was given, unless something is moved while it runs | nothing |
| `FoldersProofs!DeletionsAreExact` (`CascadeExactAlone`) | cascade-files deletions that nothing but one another, dialogs and new folders comes between end with exactly the objects of the files still listed, whatever subtrees they share | nothing |
| `FoldersProofs!ReferenceCascade` (`CascadeExact`) | in zipline a file keeps its object as long as it has its row, and where nothing fails the object goes with the row, unless another tab fills or empties folders meanwhile | nothing |
| `FoldersProofs!ReferenceTree` (`TreeStays`) | in zipline the folders stay a tree | one tab at a time moves folders below others, and no dialog offers a folder what is below it (`OneMover`) |
| `FoldersProofs!ExportsAreWhole` (`ExportWhole`) | the zip of a folder holds every file that was below it all along, the zip of all files every file that stayed, but those that could not be read, and neither is lost unless somebody takes it | nothing |
| `PartialUploadProofs!Order` (`StoredInOrder`) | what is stored has each chunk at most once and in order | nothing |
| `PartialUploadProofs!Whole` (`StoredWhole`) | what is stored has every chunk, whole, but for holes in chunks that were opened again while being written | storage checks the length |
| `PartialUploadProofs!LimiterKeepsBuckets` (`ImplementsBuckets`) | two limiters of different room implement `TokenBuckets`: every answer is that of buckets kept for ever, but for the resets of a table with more keys than it has room for | a burst is earned within the time to live, `Full + MaxWait <= IdleTTL + 1`; `Cap <= Room`: the roomier one has room for its keys |
| `ThumbnailsProofs!PoolCounts` (`PoolKnowsWork`) | while no worker has died the count of zipline's pool is that of the batches with a worker, an idle pool is about to be shut down, and no worker with work is asked to exit | nothing |
| `ThumbnailsProofs!ThumbnailServed` (`RowHasObject`) | a row points to an object that exists | passes have formats of their own |
| `AdminProofs!RunsWhatIsStored` (`LiveIsStoredAlone`) | while requests come one at a time the server runs with what is stored, and a setting changes only by the PATCH that names it | nothing; calls may fail |
| `AdminProofs!SetupFinal` (`SetupStays`) | setup that is done with no request under way stays done, whatever overlaps, fails or dies later; and it does so at once while requests come one at a time | nothing |
| `LimitsProofs!ViewsOvershoot` (`OvershootBounded`) | on either server a view limit is overshot by at most the requests at work, less one, and the views that could not be counted | nothing |
| `LimitsProofs!SpentOnly` (`OnlySpentRemoved`) | as long as no limit is changed, neither row nor object goes before the item has had the views of its limit or has expired | 0 is not among the limits |
| `LimitsProofs!InviteOvershoot` (`InviteOvershootBounded`) | in zipfast an invite admits at most its uses, the registrations at work less one, and the counts that failed; in zipline, which claims the use first, its uses, unless a claim was written over a newer one | nothing |
| `LimitsProofs!UsesCounted` (`UsesAreAccounts`) | the uses of an invite are the accounts made with it, less those about to be counted or lost | nothing |
| `ReferenceFilesProofs!QuotaExceededByFew` (`QuotaBounded`) | a file quota is exceeded by at most the uploads at work, less one | nothing |
| `ReferenceFilesProofs!AckedFilesServed` (`AckedServed`) | an acknowledged file nobody asked to remove has its row and its own bytes under the name in it, unless its name was contested, its requests crossed or failed, or S3 hid a failed call from one of them | nothing |
| `ReferenceFilesProofs!NothingIsLeft` (`NothingLeft`) | with the same exceptions, and that of files over 5 GB renamed on S3, an object is under the name in its file's row or a request is at work on its file | nothing |
| `ReferenceFilesProofs!AccountsKeep` (`AccountsKept`) | as long as no two requests concern an account at once, it keeps a password or a link until its deletion begins; no SUPERADMIN is demoted or deleted, whatever interleaves | nothing |
| `SignInProofs!SignInSafe` (`AccountsSafe`) | who was told to be signed in is served as that account until the session is ended; no account asks for codes its owner cannot read; a challenge makes one passkey | no passkey is used over the cookie of an earlier session (`~PasskeyOver`) |
| `SignInProofs!EndedForGood` (`EndedStays`) | a session that has been ended does not come back | nothing |
| `SignInProofs!UploadsWhole` (`UploadsKept`) | what the upload page sends and zipline records as stored is whole and has the options of its press, whatever is lost or refused and whoever dies | nothing |
| `SignInProofs!DetailsAreOwn` (`OwnDetails`) | the dialogs of a file and of a URL write what is theirs; a tab at rest shows what it has done itself; the quota of URLs is passed, and a vanity shared, by no more than one call of each tab | nothing |
| `SignInProofs!FilesReopen` (`NeverReopens`) | no step but a click on a file opens its dialog | nothing |
| `SignInProofs!SettingsKeep` (`SettingsKept`) | two tabs of the settings with parts of their own undo nothing of one another; with one tab the server runs with the row, whenever it dies and starts | forms send no stale values and no redirect URI, and the environment gives a provider all or nothing (`PartsApart`) |
| `SignInProofs!StartsAgain` (`StartsUnlessOdd`) | the server can start with whatever was saved, until a value of the right JSON type that has no meaning was | `PartsApart` |
| `AdminProofs!ImportsOnce` (`ImportedOnce`) | however often an export is imported, at once or again, a row comes over once (merged users, and the URLs of nobody, apart); no import puts a folder into itself unless folders are moved while it works | the folders of the exports are trees (`Trees`) |
| `AdminProofs!ImportsDeliver` (`Delivered`) | an import that nobody comes between brings over each row, under the folder and with the files it had, unless its name was in use, its owner or what it hangs on was left out (zipline takes no tags of version 3, zipfast no files of tags) | the folders of the exports are trees |

Theorems about parts of those runs:

| theorem | says | needs |
|---|---|---|
| `FileStoreProofs!ExpiryErases` | the row of an expired file goes only after its object (`ExpiryLeavesNothing`, the safety half of the run's `ExpiredErased`) | files are uploaded and removed by the tasks only |
| `PartialUploadProofs!ForgetsOnlyFull` | what the limiter evicts as idle is full | a burst is earned within the time to live |
| `PartialUploadProofs!TableStaysBounded` | at most one entry over the cap | nothing |
| `TypeCorrect` of `FileStoreProofs`, `FoldersProofs`, `ReferenceFilesProofs`, `SignInProofs` | every variable keeps its type; an id never stands for a name, the stacks of both recursions are what their steps expect | nothing |

Beyond the hypotheses in the last column the theorems use only the assumptions on
constants that the modules state: constants are of their types, and the markers
(`NoFile`, `Torn`, ...) are not ids. The modules `ASSUME` them, and a module that
takes instances `ASSUME`s those of its instances. `Settings`, `ViewLimit`,
`ReferenceViews`, `RateLimiter`, `Accounts` and `SignIn` name theirs; these are
hypotheses of the theorems, and the `MC` module asserts them of what it runs. What a
proof asks beyond the types is defined beside it (`OneTab`, `DurableInstance`,
`OneMover`, `FillsInTime`, `OwnFormat`, `PartsApart`). Sets of files, folders,
goroutines and keys are of any size, infinite where no cardinality is compared.

The hypotheses mark what is really so. `~PasskeyOver` leaves out what finding 3
below refutes, and `PartsApart` entering redirect URIs (finding 2) and forms filled
from a stale copy: a tab's parts are its own, and what one holds after a crash is
not sent. `Trees` is a property of exports, since a server whose folders have a ring
exports the ring. Names private to a file, formats of passes, one tab and checked
lengths leave out the remarks of section 6 under which the program does lose files,
thumbnails, the tree and chunks. What a theorem says under a condition of its own
(`StartsUnlessOdd`, `SetupStays`, `StoredWhole`, `AckedServed`) leaves out a remark
of section 6 as well. A limit of 0, which zipline's PATCH lets through
(`z.number().min(0)`), is one its task takes for reached and its handlers for none,
so that the item goes before its first view.

The inductive invariants, which are the argument in each case:

- *Catalog.* `UploaderAlone`: until the row is inserted nobody but its uploader
  knows a file, so nobody else can remove it, and an uploader that takes its
  object back never acknowledged it. `RemoverEntitled`: whoever is at a deleting
  step was let in by a check of expiry or by a request. `KnownFiles` ties both to
  uploads that have begun.
- *Durability* adds `NamesOwned` (rows and goroutines keep to the names of their
  file) and `BytesOwned` (under a file's names there is nothing before its Put,
  and never another's bytes once it is acknowledged). `AckedDurable` itself is
  the last conjunct: a local rename takes one of the file's names to another and
  may lose only against a deletion, which is entitled. On S3 the copy and the
  delete are two steps and two renames at once lose both copies; this is why the
  theorem leaves that case out, not a gap of the proof.
- *Leaks.* `QuietInv` adds to the type that as long as all is quiet whoever works
  on a file knows it by the name in its row (`OneName`: nothing renames), and
  that each object has its row or somebody at the step that will see to it
  (`ObjectsKnown`). A goroutine gives that up only by deleting the object or
  inserting the row.
- *Expiry.* `AtHome`: a file's bytes are under one name, that of its row as long as
  it has one; `Erasing`: a task that has come to the row has erased them, since it
  gives up when the object cannot be deleted, and nobody puts the file again.
- *Folders, the tree.* `Walking` describes the stacks; `TreeInv` adds that parents
  are live (`ParentsLive`) and that what a tab is about to attach a folder to is
  not below it (`Chosen`), which stays true while the dialog is open because no
  other tab moves anything.
- *Folders, what a deletion reaches.* `SettledInv`: until something is moved,
  what a walk holds, each folder in its frames and each file it has collected, is
  gone or is still below the folder it was given (`WithinReach`), and the steps
  of a walk are those of its action (`ActionFits`). A step of another tab may
  remove folders from under the walk, but then reaches everything below them by
  the foreign keys, so that nothing is left outside.
- *Folders, exact deletions.* `ExactInv`: objects belong to listed files, and a
  listed file without its object is about to be unlisted by a deletion that has
  come to its erasing steps (`Doomed`). Each walk is `Careful`: its stack is sound,
  and what it has been given is covered, the subtree of each frame by what it has
  collected, what it has left, and what it has handed to the call above. The lemma
  that carries it across the steps of others is `Thinned`: under the steps that
  do not disturb, each subtree only loses what is no longer listed.
- *Folders of zipline, deletions.* `ReInv`: a row is changed by one transaction at
  a time (`Locked`); the names a deletion has read are those of rows it deletes, or
  has deleted, unless it finds its folder gone and rolls back (`Certain`, `Named`);
  what it erases after the commit has no row (`Erased`). Without failures an
  object without row is therefore one that a request is about to erase.
- *Folders of zipline, the tree.* `NoRing` says that no set of folders is closed
  under their parents. A mover checks first and writes later, so what it is about
  to move a folder below is `Clear` of the folder as far as its walk has come; a
  transaction that empties a folder into another `Sends` only its children; and no
  row points to one that is gone or about to go (`Keyed`).
- *Exports.* A file that was below the folder all along has been found or is below a
  folder that is still to be read (`Reading`), and what is to be zipped, in the
  zip or unreadable has all of them (`Zipping`); of all files, what stayed and can
  be read is in the zip or still to be read (`ExInv`).
- *Partial uploads.* `Progress`: what a request has appended lies below what it
  has still to append, and is spread out (`Spread`): of any two of its pieces the
  chunks are at least as far apart as the pieces. A stored body as long as the
  upload that is spread out has no room for a gap or a repetition. `Holes`: a hole,
  in a chunk file or in what was copied from it, is in a chunk that was opened
  again while it was being written.
- *Upload page.* A request carries the options of its press, which waits for its
  answer and for no other but that to a last chunk (`Waiting`); the chunks before
  the one under way are in the temp files of a session that is live and has not
  been disturbed (`Accepted`), and at the end in its object or on the worker's
  list (`Whole`, part of `Sound`).
- *Limiter.* `TableInv`: an entry is full, or has earned a unit for each tick
  since its last use, up to the wait for the mutex; hence what has been idle for
  longer than the time to live is full.
- *Views.* `Counted`: what was served is what is counted, and what was lost;
  `Bounded`: what was served, the visitors admitted but not yet served and one
  more are at most the highest limit, the visitors and the lost counts.
- *Invites.* `Counted` and `Bounded` say the same of zipfast's registrations.
  zipline's are `Claims`: the accounts made and those claimed are within the uses,
  and the uses within the limit, of an invite no claim was written over. `Ways`
  separates the steps of the servers, and `Unissued` starts an invite from zero.
- *Settings.* `Alone`: until two requests overlap, what the one at work has read
  is what is stored, and the server runs with that, but between the write and the
  reload of a PATCH or after a reload that failed. `Over`: the flag is cleared and
  no PATCH under way has read it set, so that every later write carries it cleared;
  that is so when no request is under way. An administrator can log in before the
  flag is cleared, so a PATCH may have read it set; while requests come one at a
  time, what it has read is what is stored (`FlagRead`).
- *Settings of zipline.* `SoundRow`: in the row nothing is blank that a PATCH turns
  into null, and a provider has all its credentials or none, which the schema of
  the body alone does not ensure. `SoundTab`: a form differs from the row in what
  was entered only (`FormSound`), so that a save leaves alone what it does not
  change, and what a tab reads back can be served with (`Runs`), unless the row
  holds a value without a meaning (`OddRow`). Who stored that is about to end the
  process or has (`Condemned`), and it does not start again (`Down`).
- *Imports, once.* `OnceInv`: users and tags are written when there is none of
  them yet; every other row belongs to whom its request made of its owner
  (`OwnersMakers`). A user is there once, so that two rows of one owner are of one
  request, which writes each once. Files whose owner is gone are there once
  (`FilesOnce`).
- *Imports, no ring.* `TreeInv`: the folders of an import at work hang as in the
  export (`HangAsExported`), so that a ring would be one in the export, by way of
  `NoRing`, which says that no set of folders is closed under their parents.
- *Imports, whole.* `SoloInv`, of an import alone: rows are handled kind by kind
  (`InOrder`), the database has what the request wrote (`Mine`), and parents are
  set after all folders are there (`ToLink`); so what a row hangs on is settled when the
  row comes, and stays (`Brought`).
- *Thumbnails.* `Candidates`: a pass about to drop an object has met the row of a
  pass with another format, hence another key.
- *Thumbnail pool.* `Sane`, as long as no worker has died: `busy` is the number of
  batches taken, each by a worker of the pool; a worker of the pool runs and is not
  asked to exit; the timer runs just when there is a pool and nothing under way.
- *Files of zipline.* A file that is neither contested nor disturbed owns the name
  in its row and the names its requests hold (`RowsOwnName`, `HeldNames`), so no
  step on another file touches its objects, and the requests on it come one at a
  time (`FileOK`: `Alone`, `Located`, `Phases`, `Served`). For the quota, the rows
  and the uploads that have counted them and not yet added theirs are together
  within the bound (`Quota`).
- *Accounts of zipline.* `SignInKept`: as long as no two requests have concerned an
  account at once, what a request has read of it still holds when it writes
  (`ReadHolds`), so a link that is removed is not the last way to sign in.
  `TargetsBelow`: whom a request is about to demote or delete was no SUPERADMIN
  when it looked, and no row becomes one.
- *Files page.* `BrowserInv`: the file a dialog shows is on the page its tab
  displays, and an open form is that file's (`ShowsOwn`); what a tab has changed
  and not seen is being read again, or will be when the change is answered
  (`SeesOwn`).
- *Short URLs.* `UrlsInv`: a form equals the row as listed but for what was typed
  (`AsListed`); the rows, and the creations past the count, are at most the quota
  less one and the tabs (`InQuota`); the rows of a name, and the calls about to
  write it, at most the tabs (`InTurn`).
- *Sign-in.* `Knows`: a request goes on with the session its cookie named when it
  was checked, and a session has had one owner only; a request that switches
  codes on carries a secret that is in its user's authenticator. `Challenges`: a
  challenge is in the cache, with one request, or in one passkey.

What stays with TLC, and why:

- *Liveness* (`TabsEnd`, `EventuallySwept`, `EventuallyThumbnailed`, `FollowUpsEnd`,
  `ClientsSettle`, and in `ExpiredErased` that expired files are erased in the end):
  the prover has no rules for fairness and `ENABLED`.
- *Rendered templates* (`SaidRight`): what `Full` and the loop say for templates of
  every depth needs induction with an operator as its parameter, which the prover
  cannot instantiate.

Every other property of a passing run is stated by a theorem. Of these
`ImplementsCatalog` and `ImplementsBuckets` are the refinements.

## 6. Where the program and its documentation differ

Three disagreements have a run that shows them (`PROJECT.json`, `findings`):

1. **The field of the tags belongs to no file** (`tags`). The picked tags are
   initialised once for all files the dialog shows; entering and leaving the field
   of a tagged file erases its tags, and the page reports them as saved
   (`FileModal.tsx:142`).
2. **A redirect URI ends the server** (`redirect`). The PATCH of the settings takes
   an OAuth redirect URI without id and secret, and the reload that validates the
   whole configuration refuses it and exits (`validate.ts:417`), as does every
   start from then on.
3. **A passkey over an ended session signs nobody in** (`passkey`).
   `saveSession` reuses the id in the cookie, whose row is gone
   (`webauthn.ts:181`).

Others were met while modelling. Each shows as a restriction of an instance, an
action the properties allow, or a remark.

**Files, folders, thumbnails**

- Names are not unique in zipfast. The API promises "1014: 'File with this name
  already exists'" (`lib/api/errors.ts:17`); uploads and renames do not look, and
  the second file of a name replaces the bytes of the first
  (`upload_routes.go:290`, `user_routes.go:438`). Names are private to a file in
  `durable`.
- `sactRequerySize` takes any error of the lookup for a missing object, and with
  `forceDelete` deletes the row of a file that is there
  (`server_actions_routes.go:271`, against the comment at `:227`).
- Two overlapping renames of a file on S3 can delete both copies
  (`datasource/s3.go:299`). `s3` has one handler that renames. After a rename
  whose UPDATE failed, the row has the old name and the bytes the new one
  (`user_routes.go:437`).
- Expiry on access ignores an error of the object deletion and deletes the row
  (`serve_routes.go:203`), which leaks the object; the tasks do not.
- A request that uploads several files and fails on a later one leaves the earlier
  ones stored, though its answer is an error. `UploadInsert` acknowledges each
  file at its insert, which asks more of the code, not less.
- In zipline a failed put leaves a row without object, and a deletion followed by
  a new upload under the name can erase the new file. Its S3 datasource logs the
  errors of `put`, `get` and `delete` and returns (`S3.ts:150-231`): an upload is
  answered with the URL of a file that has no object (`upload/index.ts:232-283`), a
  deletion drops the row and leaves the object, requery_size takes an object it
  cannot read for a missing one. A rename of an object over 5 GB leaves it under
  the old key too (`S3.ts:405-428`). Such files are `disturbed`.
- Both servers leave out of an export what they fail to read, with no more than a
  line in the log (`export_routes.go:98-128`, `user/export.ts:156-160`,
  `folders/[id]/export.ts:57-61`).
- Two accepted moves can close a cycle of folders, on both servers. "1016: 'Cannot
  move folder into one of its descendants'" (`errors.ts:19`) is enforced in
  zipfast by the dialog alone, on a list that goes stale (`user_routes.go:755`),
  and in zipline before the write (`folders/[id]/index.ts:196-240`); its deletion
  with `childrenAction: 'folder'` takes a target inside the deleted folder
  (`:284-316`). Walks then never end.
- A file moved between the two walks of a cascade-files deletion loses its object
  and keeps its row, or the reverse (`user_routes.go:858`); zipline's `findMany`
  and `deleteMany` have the same window. Two of zipline's deletions can deadlock,
  which the database or the transaction's time limit ends.
- A repeated chunk or a repeated last request makes local storage accept a shorter
  file under the announced size (`upload_routes.go:563`). A second request for a
  chunk truncates the file (`:724`) under a first that still writes at its offset
  (`:729`); what the first writes then comes after zeros, the length is right, and S3
  accepts the upload with the hole. `overlapped` marks such chunks. The first chunk without
  an identifier is refused (`upload_routes.go:494-498`), though the dashboard sends
  it so; `Send` starts where an identifier exists. In zipline a first chunk is
  counted twice (`partial.ts:119`, `:136-141`).
- The loser of an insert removes the winner's thumbnail when both passes use one
  format and so one key (`thumbnails.go:328`). The manual action with `rerun`
  regenerates nothing (`server_actions_routes.go:306`), and the object of a
  thumbnail outlives its video.
- In zipline's pool a refused query ends the whole server, an unreadable video ends
  its batch, the count of busy workers is off after a death, and cleaning can
  delete an object under a worker.

**Limits and accounts**

- maxViews removes a file it selected though its limit was raised since
  (`tasks.go:161`): `OnlySpentRemoved` is checked without changes of limits.
- zipline counts a raw view after the object is read and once per window, so that
  the view page and the owner never count; an access token stays good for five
  minutes after the password was changed.
- `EnforceURLQuota` is called nowhere (`quota.go:140`) and chunked uploads do not
  check a quota, where `STATUS.md:55` says quotas are enforced.
- A token bucket admits up to twice `max` within one window, where the comment
  speaks of a limit per window (`ratelimit.go:70-76`); with a window longer than
  ten minutes eviction forgets buckets that are not full, and the reset of a full
  table forgives everybody. `AdmitAfresh` is that reset.
- zipline writes `uses: invite.uses + 1` from what it read; two registrations lose
  one. `stale` marks such an invite.
- Two setups at once create two administrators (`auth_routes.go:380`).
- Concurrent unlinks can remove the last way to sign in, though the description
  promises that one remains: `LoginMethodKept` speaks of requests that leave an
  account to one another. zipfast has no handlers to link and unlink.
- A login challenge is good for two concurrent POSTs before it is deleted; an API
  token's PATCH of its user adds a session row each time; the page checks error
  1039 where the server throws 1038; a passkey saved after its challenge expired
  stays on the device only.

**Settings, notices, exports, imports**

- Overlapping PATCHes of the settings lose one update, and can leave an earlier
  configuration live (`server_routes.go:543`): `LiveIsStoredAlone` is about one
  request at a time. `a.Cfg` is replaced without a lock or an atomic
  (`server.go:68`); `Swap` is one step, a torn pointer is not modelled.
- Setup can open again. It inserts the administrator (`auth_routes.go:370`) before
  it clears first_setup (`:380`), where the comment above says "so this endpoint
  can't be used again". A PATCH of that administrator may read the flag set
  (`server_routes.go:524`), in between or after that setup failed or died; a second
  setup clears it, and the PATCH writes back what it read (`:543`). So a setup
  under way at the same time is what `SetupStays` leaves out.
- zipline's PATCH takes values that the schema of the configuration refuses: a
  negative rate-limit window (`settings/index.ts:355`, against `validate.ts:374-378`),
  external links given as JSON text of another shape (`:248-258`, against
  `validate.ts:230-236`), and likewise embeds (`:65-88`). Each ends the process at the
  reload and at every later start, as in finding 2; the run `dashboard` enters them
  (`"odd"`), and `StartsUnlessOdd` excepts rows that hold one.
- zipline's cross-field checks look at the body only; a form whose cache is stale
  undoes the last save of another tab; `WEBSITE_LOGIN_BACKGROUND_BLUR` has a type
  of its own in the environment.
- zipline's parser ends the branches of a conditional at the first `"||"` and `"]}`
  (`parser/index.ts:52`), so a conditional in a branch of another is cut and the
  page shows its remains. `Legible` names the nested templates that come out right
  all the same: conditionals in first branches only, and all of them met.
- zipline's parser scans again what it inserted, so a value that refers to itself
  is filled for ever and blocks the one thread; `Refers` assumes that values do
  not. Names are decoded twice. `webhooks/index.ts` starts the Discord webhook
  without a handler for its rejection, so an unreachable one ends the process.
  zipfast's webhook text is constant (`webhooks.go:48-50`), though the package
  comment says administrators can interpolate.
- Deleting an export of zipline that still runs, or clear_temp meanwhile, rejects
  in a callback nobody catches, and every other export stays in progress; the
  dashboard deletes and downloads with `?id=`, where zipfast's routes are
  `/api/user/export/{id}` (`export_routes.go:39-40`).
- A second folder of one name is dropped by an import; a file in a folder that did
  not come over is left out by zipfast's importer, whose insert violates the foreign
  key (`LeftOut`), where zipline puts it into no folder; an existing tag aborts a
  zipline import as a whole, though the page says conflicts "will be skipped and
  logged"; zipfast's importer loses tags, undoes moves when it is retried
  (`importer.go:336`, against the comment at `:8`), and reads the raw export where
  the page posts `{export4, config}`.

**Dashboard**

- Files page: a deleted tag stays picked and refuses every save; reading again
  while editing resets the form; values of the row as listed are sent with every
  save; arrow keys while typing turn to another file; a search keeps the page
  number and hides the paginator; bulk actions keep stale copies.
- Upload page: an override name is sent though it is ignored for several files;
  ephemeral options persist; small files of a failed batch, and what is pasted
  during an upload, vanish when a chunked file ends; a lost chunk leaves the page
  busy; clearing what a worker needs ends the process.
- URLs page: an edit with the URL's own vanity is refused; clearing the vanity is
  never sent, though the form offers it (`EditUrlModal.tsx:82`, `:126`); an answer
  closes whichever dialog is open by then.

## 7. What is not modelled

`PROJECT.json` has the reason for every component. In short:

- *Data.* Bytes, paths, MIME types, formats of names, the modifiers of the template
  language, the columns of an imported row, statistics. Nothing above depends on
  them; the parsers are pure functions.
- *Access control.* Who may call what is left to tests, apart from roles that are
  read before they are used (`Accounts`) and sessions (`SignIn`).
- *Cryptography.* Hashes, codes and passkey signatures are right or wrong.
- *The database.* Statements are atomic and see what is committed, as PostgreSQL's
  default isolation gives single statements; the pool and the migrations are left
  out.
- *Several processes.* Either program runs as one.
- *Registration pages, API tokens, statistics and metrics, layout, themes and
  viewers*, and zipfast's public folders, whose password token keeps no state.

## 8. Plan

The modules planned are written, and every safety property of the passing runs is
proved. What is left:

- *Stronger theorems.* `SettingsKept` and `StartsUnlessOdd` with several saves after a
  crash, which needs an invariant for a form filled from a stale copy; `Delivered`
  of imports that overlap, for the rows that neither drops.
- *Components modelled in part.* `PROJECT.json` says which operations are missing
  from the datasource, public folders, background tasks, upload options, media,
  database access and process start.
- *Liveness and `SaidRight`* can be proved once a prover with rules for fairness, or
  with induction over data, is at hand; the invariants above are what such proofs
  would rest on.
