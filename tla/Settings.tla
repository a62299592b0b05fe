------------------------------ MODULE Settings ------------------------------
(***************************************************************************)
(* The settings: one row with a blob of overrides and the first_setup      *)
(* flag, and the live configuration rebuilt from it after each change.  A  *)
(* PATCH reads the row, merges its key, writes the row back and reloads;   *)
(* setup reads the row, creates the first administrator and writes the row *)
(* back.                                                                   *)
(***************************************************************************)
CONSTANTS
    Key,        \* settings
    EnvKey,     \* those an environment variable overrides
    Val,        \* values
    Default,    \* a key that is not in the blob: the built-in value
    FromEnv,    \* the value of the variables
    Patcher,    \* goroutines serving PATCH requests
    Installer,  \* goroutines serving setup requests
    Faults      \* whether calls to the database fail

SettingsAssumption ==
    /\ EnvKey \subseteq Key
    /\ Default \notin Val /\ FromEnv \notin Val
    /\ Patcher \intersect Installer = {}
    /\ Faults \in BOOLEAN

VARIABLES
    stored,     \* the blob
    first,      \* first_setup
    live,       \* the configuration in App.Cfg
    founders,   \* setups that created an administrator, who can log in
    stale,      \* whether the latest reload, or the load at startup, failed
    work,       \* what each goroutine is doing
    overlapped, \* history: whether two requests were under way at once
                \* since the process started
    closed      \* history: whether no request was under way at some time
                \* after first_setup was cleared

vars == <<stored, first, live, founders, stale, work, overlapped, closed>>

(* ApplySettings: a key that is not in the blob keeps its default.         *)
Blob == [Key -> Val \union {Default}]
Config == [Key -> Val \union {Default, FromEnv}]
Op == Patcher \union Installer
Idle == [pc |-> "idle"]
PatchWork == [pc: {"merge", "reload", "swap"}, key: Key, val: Val, blob: Blob, first: BOOLEAN]
SetupWork == [pc: {"create", "mark"}, blob: Blob]

TypeOK ==
    /\ stored \in Blob /\ first \in BOOLEAN
    /\ live \in Config
    /\ founders \subseteq Installer
    /\ stale \in BOOLEAN
    /\ DOMAIN work = Op
    /\ \A p \in Patcher : work[p] = Idle \/ work[p] \in PatchWork
    /\ \A s \in Installer : work[s] = Idle \/ work[s] \in SetupWork
    /\ overlapped \in BOOLEAN /\ closed \in BOOLEAN

(* BuildEffective: defaults, then the blob, then the environment.          *)
Effective(blob) == [k \in Key |-> IF k \in EnvKey THEN FromEnv ELSE blob[k]]
NoBlob == [k \in Key |-> Default]

Init ==
    /\ stored = NoBlob
    /\ first = TRUE
    /\ live = Effective(stored)
    /\ founders = {}
    /\ stale = FALSE
    /\ work = [o \in Op |-> Idle]
    /\ overlapped = FALSE /\ closed = FALSE

At(o, pc) == work[o].pc = pc
Goto(o, pc) == work' = [work EXCEPT ![o].pc = pc]
Finish(o) == work' = [work EXCEPT ![o] = Idle]

-----------------------------------------------------------------------------
(* PATCH of the settings, by an administrator who has logged in: there is  *)
(* one from the insert on, which may be before the flag is cleared.        *)
PatchLoad(p, k, v) ==
    /\ founders # {}
    /\ work[p] = Idle
    /\ work' = [work EXCEPT ![p] = [pc |-> "merge", key |-> k, val |-> v,
                                    blob |-> stored, first |-> first]]
    /\ UNCHANGED <<stored, first, live, founders, stale>>

Merged(w) == [w.blob EXCEPT ![w.key] = w.val]

(* Seeded bug: the flag is written with its default. *)
PatchSaveResets(p) ==
    /\ At(p, "merge")
    /\ stored' = Merged(work[p])
    /\ first' = TRUE
    /\ Goto(p, "reload")
    /\ UNCHANGED <<live, founders, stale>>

(* The whole row is written, blob and flag, as read and merged.            *)
PatchSave(p) ==
    /\ At(p, "merge")
    /\ stored' = Merged(work[p])
    /\ first' = work[p].first
    /\ Goto(p, "reload")
    /\ UNCHANGED <<live, founders, stale>>

(* Either database call refused: 500, and nothing is reloaded.             *)
PatchFails(p) ==
    /\ Faults
    /\ At(p, "merge")
    /\ Finish(p)
    /\ UNCHANGED <<stored, first, live, founders, stale>>

(* Seeded bug: the reload uses the blob the request began with. *)
ReloadEarlier(p) ==
    /\ At(p, "reload")
    /\ Goto(p, "swap")
    /\ UNCHANGED <<stored, first, live, founders, stale>>

(* ReloadSettings reads the row again ...                                  *)
Reload(p) ==
    /\ At(p, "reload")
    /\ work' = [work EXCEPT ![p].pc = "swap", ![p].blob = stored]
    /\ UNCHANGED <<stored, first, live, founders, stale>>

(* ... keeps the current configuration when it cannot ...                  *)
ReloadFails(p) ==
    /\ Faults
    /\ At(p, "reload")
    /\ stale' = TRUE
    /\ Finish(p)
    /\ UNCHANGED <<stored, first, live, founders>>

(* ... and swaps the new one in; the PATCH has been answered.              *)
Swap(p) ==
    /\ At(p, "swap")
    /\ live' = Effective(work[p].blob)
    /\ stale' = FALSE
    /\ Finish(p)
    /\ UNCHANGED <<stored, first, founders>>

-----------------------------------------------------------------------------
(* handleAuthSetup: refused unless first_setup is set.                     *)
SetupLoad(s) ==
    /\ work[s] = Idle
    /\ s \notin founders
    /\ first
    /\ work' = [work EXCEPT ![s] = [pc |-> "create", blob |-> stored]]
    /\ UNCHANGED <<stored, first, live, founders, stale>>

(* The administrator is inserted ...                                       *)
SetupCreate(s) ==
    /\ At(s, "create")
    /\ founders' = founders \union {s}
    /\ Goto(s, "mark")
    /\ UNCHANGED <<stored, first, live, stale>>

(* ... unless the name is taken or the insert fails ...                    *)
SetupRefused(s) ==
    /\ At(s, "create")
    /\ Finish(s)
    /\ UNCHANGED <<stored, first, live, founders, stale>>

(* ... and the row is written back with the flag cleared.                  *)
SetupMark(s) ==
    /\ At(s, "mark")
    /\ stored' = work[s].blob
    /\ first' = FALSE
    /\ Finish(s)
    /\ UNCHANGED <<live, founders, stale>>

(* If that fails the administrator exists all the same.                    *)
SetupMarkFails(s) ==
    /\ Faults
    /\ At(s, "mark")
    /\ Finish(s)
    /\ UNCHANGED <<stored, first, live, founders, stale>>

-----------------------------------------------------------------------------
(* The process starts again: main overlays the blob on the environment, or *)
(* does without it when it cannot be read.                                 *)
Restart ==
    /\ \E fails \in {FALSE} \union {Faults} :
          /\ live' = Effective(IF fails THEN NoBlob ELSE stored)
          /\ stale' = fails
    /\ work' = [o \in Op |-> Idle]
    /\ overlapped' = FALSE
    /\ UNCHANGED <<stored, first, founders>>

Request ==
    \/ \E p \in Patcher, k \in Key, v \in Val : PatchLoad(p, k, v)
    \/ \E p \in Patcher : \/ PatchSave(p) \/ PatchFails(p)
                          \/ Reload(p) \/ ReloadFails(p) \/ Swap(p)
    \/ \E s \in Installer : \/ SetupLoad(s) \/ SetupCreate(s) \/ SetupRefused(s)
                            \/ SetupMark(s) \/ SetupMarkFails(s)

Together == \E o, q \in Op : o # q /\ work[o] # Idle /\ work[q] # Idle

AllIdle == \A o \in Op : work[o] = Idle

Next ==
    /\ \/ Request /\ overlapped' = (overlapped \/ Together')
       \/ Restart
    /\ closed' = (closed \/ (AllIdle' /\ ~first'))

Spec == Init /\ [][Next]_vars

-----------------------------------------------------------------------------
(* "Merge the request's (flat) top-level keys into the stored blob": a     *)
(* setting changes only by the PATCH that names it.                        *)
ChangesOnlyNamed == \A k \in Key : stored'[k] # stored[k] =>
    \E p \in Patcher : At(p, "merge") /\ work[p].key = k /\ work[p].val = stored'[k]
                       /\ work'[p].pc = "reload"

(* "Apply the saved settings to the live config so the change takes effect *)
(* immediately (no restart)": with no PATCH or restart half done, and no   *)
(* failed load, the server runs with what is stored.                       *)
LiveIsStored == AllIdle /\ ~stale => live = Effective(stored)

(* One request at a time, whatever fails and whenever the process starts   *)
(* again: the server runs with what is stored, and a setting changes only  *)
(* by the PATCH that names it.                                             *)
LiveIsStoredAlone ==
    [](~overlapped => LiveIsStored) /\ [][~overlapped' => ChangesOnlyNamed]_vars

(* "Mark the install as set up so this endpoint can't be used again"       *)
(* (auth_routes.go): once first_setup is cleared with no request under     *)
(* way, it stays cleared for good, whatever overlaps, fails or dies later; *)
(* and it stays cleared at once if requests come one at a time.  (A PATCH  *)
(* that read the row while a setup had the administrator but not yet the   *)
(* flag, or after that setup had died or failed, sets the flag again if a  *)
(* setup clears it before the PATCH writes.)                               *)
SetupStays ==
    /\ [](closed => ~first)
    /\ [][~overlapped' /\ ~first => ~first']_vars
=============================================================================
