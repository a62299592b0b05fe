----------------------------- MODULE AdminProofs -----------------------------
(***************************************************************************)
(* What an administrator does: the settings of the Go server, and imports. *)
(*                                                                         *)
(* Settings, for any number of settings, values and goroutines.  While     *)
(* requests come one at a time the server runs with what is stored and a   *)
(* PATCH changes what it names, whatever calls fail.  Once first_setup is  *)
(* cleared and no PATCH under way has read it set, every PATCH carries the *)
(* cleared flag and no write of the row can bring setup back; so it is     *)
(* when no request is under way, and while requests come one at a time.    *)
(*                                                                         *)
(* Imports, for any exports, requests, edits by users, and all three       *)
(* importers.  A row comes over once: a user is made once, and what is     *)
(* theirs only by the request that made them (OnceInv).  No folder gets    *)
(* into itself: a ring would be one in the export (TreeInv).  And an       *)
(* import alone brings every row over (SoloInv): rows are handled kind by  *)
(* kind, so that what a row hangs on is settled before.                    *)
(***************************************************************************)
EXTENDS Settings, MCImport, TLAPS


LEMMA EffectiveType ==
    ASSUME NEW blob \in Blob
    PROVE  Effective(blob) \in Config
  BY DEF Blob, Config, Effective

LEMMA NoBlobType == NoBlob \in Blob
  BY DEF NoBlob, Blob

(* What a goroutine that is not idle carries.                              *)
LEMMA PatchFacts ==
    ASSUME SettingsAssumption, TypeOK, NEW p \in Patcher, work[p] # Idle
    PROVE  /\ work[p] \in PatchWork /\ p \in Op /\ p \notin Installer
           /\ work[p].key \in Key /\ work[p].val \in Val
           /\ work[p].blob \in Blob /\ work[p].first \in BOOLEAN
  BY DEF SettingsAssumption, TypeOK, Op, PatchWork

LEMMA SetupFacts ==
    ASSUME SettingsAssumption, TypeOK, NEW s \in Installer, work[s] # Idle
    PROVE  /\ work[s] \in SetupWork /\ s \in Op /\ s \notin Patcher
           /\ work[s].blob \in Blob
  BY DEF SettingsAssumption, TypeOK, Op, SetupWork

(* The record of one goroutine is replaced.                                *)
Works ==
    /\ DOMAIN work = Op
    /\ \A p \in Patcher : work[p] = Idle \/ work[p] \in PatchWork
    /\ \A s \in Installer : work[s] = Idle \/ work[s] \in SetupWork

LEMMA WorkStep ==
    ASSUME SettingsAssumption, TypeOK, NEW o \in Op, NEW w, work' = [work EXCEPT ![o] = w],
           o \in Patcher => w \in PatchWork \/ w = Idle,
           o \in Installer => w \in SetupWork \/ w = Idle
    PROVE  Works' /\ work'[o] = w /\ \A q \in Op \ {o} : work'[q] = work[q]
  BY DEF SettingsAssumption, TypeOK, Op, Works

-----------------------------------------------------------------------------
(* What a step of one PATCH does to everything but the other goroutines.   *)
PatchSteps(p) ==
    \/ /\ work[p] = Idle
       /\ work'[p].pc = "merge" /\ work'[p].blob = stored /\ work'[p].first = first
       /\ UNCHANGED <<stored, first, live, stale>>
    \/ /\ At(p, "merge") /\ work'[p].pc = "reload"
       /\ stored' = Merged(work[p]) /\ first' = work[p].first
       /\ UNCHANGED <<live, stale>>
    \/ /\ At(p, "merge") /\ work'[p] = Idle
       /\ UNCHANGED <<stored, first, live, stale>>
    \/ /\ At(p, "reload") /\ work'[p].pc = "swap" /\ work'[p].blob = stored
       /\ UNCHANGED <<stored, first, live, stale>>
    \/ /\ At(p, "reload") /\ work'[p] = Idle /\ stale'
       /\ UNCHANGED <<stored, first, live>>
    \/ /\ At(p, "swap") /\ work'[p] = Idle
       /\ live' = Effective(work[p].blob) /\ stale' = FALSE
       /\ UNCHANGED <<stored, first>>

LEMMA PatchStep ==
    ASSUME SettingsAssumption, TypeOK, overlapped' \in BOOLEAN, closed' \in BOOLEAN, NEW p \in Patcher,
           (\E k \in Key, v \in Val : PatchLoad(p, k, v))
             \/ PatchSave(p) \/ PatchFails(p) \/ Reload(p) \/ ReloadFails(p) \/ Swap(p)
    PROVE  TypeOK' /\ PatchSteps(p) /\ \A q \in Op \ {p} : work'[q] = work[q]
<1>0. p \in Op /\ p \notin Installer /\ Idle.pc = "idle"
  BY DEF SettingsAssumption, Op, Idle
<1> SUFFICES /\ Works' /\ PatchSteps(p) /\ founders' = founders
             /\ stored' \in Blob /\ first' \in BOOLEAN /\ live' \in Config
             /\ stale' \in BOOLEAN
             /\ \A q \in Op \ {p} : work'[q] = work[q]
  BY DEF TypeOK, Works
<1>1. ASSUME NEW k \in Key, NEW v \in Val, PatchLoad(p, k, v)
      PROVE  /\ Works' /\ PatchSteps(p) /\ \A q \in Op \ {p} : work'[q] = work[q]
             /\ UNCHANGED <<stored, first, live, founders, stale>>
  <2> DEFINE w == [pc |-> "merge", key |-> k, val |-> v, blob |-> stored, first |-> first]
  <2>1. w \in PatchWork /\ w.pc = "merge" /\ w.blob = stored /\ w.first = first
    BY DEF PatchWork, TypeOK
  <2>2. work' = [work EXCEPT ![p] = w] /\ work[p] = Idle
    BY <1>1 DEF PatchLoad
  <2> HIDE DEF w
  <2>3. Works' /\ work'[p] = w /\ \A q \in Op \ {p} : work'[q] = work[q]
    BY <1>0, <2>1, <2>2, WorkStep
  <2>4. UNCHANGED <<stored, first, live, founders, stale>>
    BY <1>1 DEF PatchLoad
  <2> QED BY <2>1, <2>2, <2>3, <2>4 DEF PatchSteps
<1>2. CASE PatchSave(p)
  <2> DEFINE w == [work[p] EXCEPT !.pc = "reload"]
  <2>1. At(p, "merge") /\ work[p] # Idle
    BY <1>0, <1>2 DEF PatchSave, At
  <2>2. work[p] \in PatchWork /\ work[p].blob \in Blob /\ work[p].first \in BOOLEAN
        /\ work[p].key \in Key /\ work[p].val \in Val
    BY <2>1, PatchFacts
  <2>3. w \in PatchWork /\ w.pc = "reload"
    BY <2>2 DEF PatchWork
  <2>4. work' = [work EXCEPT ![p] = w]
    BY <1>2 DEF PatchSave, Goto
  <2>5. stored' = Merged(work[p]) /\ first' = work[p].first /\ UNCHANGED <<live, founders, stale>>
    BY <1>2 DEF PatchSave
  <2>6. Merged(work[p]) \in Blob
    BY <2>2 DEF Merged, Blob
  <2> HIDE DEF w
  <2>7. Works' /\ work'[p] = w /\ \A q \in Op \ {p} : work'[q] = work[q]
    BY <1>0, <2>3, <2>4, WorkStep
  <2> QED BY <2>1, <2>2, <2>3, <2>5, <2>6, <2>7 DEF PatchSteps, TypeOK
<1>3. CASE PatchFails(p) \/ ReloadFails(p)
  <2>1. work' = [work EXCEPT ![p] = Idle]
    BY <1>3 DEF PatchFails, ReloadFails, Finish
  <2>2. Works' /\ work'[p] = Idle /\ \A q \in Op \ {p} : work'[q] = work[q]
    BY <1>0, <2>1, WorkStep
  <2>3. UNCHANGED <<stored, first, live, founders>>
        /\ \/ stale' = stale /\ At(p, "merge")
           \/ stale' = TRUE /\ At(p, "reload")
    BY <1>3 DEF PatchFails, ReloadFails
  <2> QED BY <2>2, <2>3 DEF PatchSteps, TypeOK
<1>4. CASE Reload(p)
  <2> DEFINE w == [work[p] EXCEPT !.pc = "swap", !.blob = stored]
  <2>1. At(p, "reload") /\ work[p] # Idle
    BY <1>0, <1>4 DEF Reload, At
  <2>2. work[p] \in PatchWork
    BY <2>1, PatchFacts
  <2>3. w \in PatchWork /\ w.pc = "swap" /\ w.blob = stored
    BY <2>2 DEF PatchWork, TypeOK
  <2>4. work' = [work EXCEPT ![p] = w]
    BY <1>0, <1>4 DEF Reload, TypeOK
  <2>5. UNCHANGED <<stored, first, live, founders, stale>>
    BY <1>4 DEF Reload
  <2> HIDE DEF w
  <2>6. Works' /\ work'[p] = w /\ \A q \in Op \ {p} : work'[q] = work[q]
    BY <1>0, <2>3, <2>4, WorkStep
  <2> QED BY <2>1, <2>3, <2>5, <2>6 DEF PatchSteps, TypeOK
<1>5. CASE Swap(p)
  <2>1. At(p, "swap") /\ work[p] # Idle
    BY <1>0, <1>5 DEF Swap, At
  <2>2. work[p].blob \in Blob
    BY <2>1, PatchFacts
  <2>3. work' = [work EXCEPT ![p] = Idle]
    BY <1>5 DEF Swap, Finish
  <2>4. Works' /\ work'[p] = Idle /\ \A q \in Op \ {p} : work'[q] = work[q]
    BY <1>0, <2>3, WorkStep
  <2>5. /\ live' = Effective(work[p].blob) /\ stale' = FALSE
        /\ UNCHANGED <<stored, first, founders>>
    BY <1>5 DEF Swap
  <2>6. live' \in Config
    BY <2>2, <2>5, EffectiveType
  <2> QED BY <2>1, <2>4, <2>5, <2>6 DEF PatchSteps, TypeOK
<1> QED BY <1>1, <1>2, <1>3, <1>4, <1>5 DEF TypeOK

(* What a step of one setup does to everything but the other goroutines.   *)
SetupSteps(s) ==
    /\ UNCHANGED <<live, stale>>
    /\ \/ /\ work[s] = Idle
          /\ work'[s].pc = "create" /\ work'[s].blob = stored
          /\ UNCHANGED <<stored, first>>
       \/ /\ At(s, "create") /\ work'[s].pc = "mark" /\ work'[s].blob = work[s].blob
          /\ UNCHANGED <<stored, first>>
       \/ /\ At(s, "create") /\ work'[s] = Idle
          /\ UNCHANGED <<stored, first>>
       \/ /\ At(s, "mark") /\ work'[s] = Idle
          /\ stored' = work[s].blob /\ first' = FALSE
       \/ /\ At(s, "mark") /\ work'[s] = Idle /\ Faults
          /\ UNCHANGED <<stored, first>>

LEMMA SetupStep ==
    ASSUME SettingsAssumption, TypeOK, overlapped' \in BOOLEAN, closed' \in BOOLEAN, NEW s \in Installer,
           SetupLoad(s) \/ SetupCreate(s) \/ SetupRefused(s) \/ SetupMark(s) \/ SetupMarkFails(s)
    PROVE  TypeOK' /\ SetupSteps(s) /\ \A q \in Op \ {s} : work'[q] = work[q]
<1>0. s \in Op /\ s \notin Patcher /\ Idle.pc = "idle"
  BY DEF SettingsAssumption, Op, Idle
<1> SUFFICES /\ Works' /\ SetupSteps(s) /\ founders' \subseteq Installer
             /\ stored' \in Blob /\ first' \in BOOLEAN
             /\ UNCHANGED <<live, stale>>
             /\ \A q \in Op \ {s} : work'[q] = work[q]
  BY DEF TypeOK, Works
<1>1. CASE SetupLoad(s)
  <2> DEFINE w == [pc |-> "create", blob |-> stored]
  <2>1. w \in SetupWork /\ w.pc = "create" /\ w.blob = stored
    BY DEF SetupWork, TypeOK
  <2>2. work' = [work EXCEPT ![s] = w] /\ work[s] = Idle /\ first
    BY <1>1 DEF SetupLoad
  <2>3. UNCHANGED <<stored, first, live, founders, stale>>
    BY <1>1 DEF SetupLoad
  <2> HIDE DEF w
  <2>4. Works' /\ work'[s] = w /\ \A q \in Op \ {s} : work'[q] = work[q]
    BY <1>0, <2>1, <2>2, WorkStep
  <2> QED BY <2>1, <2>2, <2>3, <2>4 DEF SetupSteps, TypeOK
<1>2. CASE SetupCreate(s)
  <2> DEFINE w == [work[s] EXCEPT !.pc = "mark"]
  <2>1. At(s, "create") /\ work[s] \in SetupWork
    BY <1>0, <1>2, SetupFacts DEF SetupCreate, At
  <2>2. w \in SetupWork /\ w.pc = "mark" /\ w.blob = work[s].blob
    BY <2>1 DEF SetupWork
  <2>3. work' = [work EXCEPT ![s] = w]
    BY <1>2 DEF SetupCreate, Goto
  <2>4. UNCHANGED <<stored, first, live, stale>> /\ founders' \subseteq Installer
    BY <1>2 DEF SetupCreate, TypeOK
  <2> HIDE DEF w
  <2>5. Works' /\ work'[s] = w /\ \A q \in Op \ {s} : work'[q] = work[q]
    BY <1>0, <2>2, <2>3, WorkStep
  <2> QED BY <2>1, <2>2, <2>4, <2>5 DEF SetupSteps, TypeOK
<1>3. CASE SetupRefused(s) \/ SetupMark(s) \/ SetupMarkFails(s)
  <2>1. work' = [work EXCEPT ![s] = Idle]
    BY <1>3 DEF SetupRefused, SetupMark, SetupMarkFails, Finish
  <2>2. Works' /\ work'[s] = Idle /\ \A q \in Op \ {s} : work'[q] = work[q]
    BY <1>0, <2>1, WorkStep
  <2>3. CASE SetupMark(s)
    <3>1. At(s, "mark") /\ work[s].blob \in Blob
      BY <1>0, <2>3, SetupFacts DEF SetupMark, At
    <3>2. /\ stored' = work[s].blob /\ first' = FALSE
          /\ UNCHANGED <<live, founders, stale>>
      BY <2>3 DEF SetupMark
    <3> QED BY <2>2, <3>1, <3>2 DEF SetupSteps, TypeOK
  <2>4. CASE SetupRefused(s) \/ SetupMarkFails(s)
    <3>1. UNCHANGED <<stored, first, live, founders, stale>>
      BY <2>4 DEF SetupRefused, SetupMarkFails
    <3>2. At(s, "create") \/ (Faults /\ At(s, "mark"))
      BY <2>4 DEF SetupRefused, SetupMarkFails
    <3> QED BY <2>2, <3>1, <3>2 DEF SetupSteps, TypeOK
  <2> QED BY <1>3, <2>3, <2>4
<1> QED BY <1>1, <1>2, <1>3

LEMMA RestartStep ==
    ASSUME SettingsAssumption, TypeOK, closed' \in BOOLEAN, Restart
    PROVE  /\ TypeOK'
           /\ \A o \in Op : work'[o] = Idle
           /\ ~stale' => live' = Effective(stored)
           /\ UNCHANGED <<stored, first>>
<1>1. PICK fails \in {FALSE} \union {Faults} :
          live' = Effective(IF fails THEN NoBlob ELSE stored) /\ stale' = fails
  BY DEF Restart
<1>2. live' \in Config /\ stale' \in BOOLEAN
  BY <1>1, EffectiveType, NoBlobType DEF SettingsAssumption, TypeOK
<1>3. /\ DOMAIN work' = Op
      /\ \A o \in Op : work'[o] = Idle
  BY DEF Restart
<1>4. UNCHANGED <<stored, first, founders>> /\ overlapped' = FALSE
  BY DEF Restart
<1> QED BY <1>1, <1>2, <1>3, <1>4 DEF TypeOK, Op

(* All a step can be; the proofs below split on it.                        *)
LEMMA Steps ==
    ASSUME SettingsAssumption, TypeOK, Next
    PROVE  /\ TypeOK'
           /\ closed' = (closed \/ (AllIdle' /\ ~first'))
           /\ \/ /\ overlapped' = (overlapped \/ Together')
                 /\ \/ \E p \in Patcher : PatchSteps(p) /\ \A q \in Op \ {p} : work'[q] = work[q]
                    \/ \E s \in Installer : SetupSteps(s) /\ \A q \in Op \ {s} : work'[q] = work[q]
              \/ /\ \A o \in Op : work'[o] = Idle
                 /\ ~stale' => live' = Effective(stored)
                 /\ UNCHANGED <<stored, first>>
<1>0. closed' = (closed \/ (AllIdle' /\ ~first')) /\ closed' \in BOOLEAN
  BY DEF Next, TypeOK
<1>1. CASE Request /\ overlapped' = (overlapped \/ Together')
  <2>1. overlapped' \in BOOLEAN
    BY <1>1 DEF TypeOK, Together
  <2>2. \/ \E p \in Patcher :
             (\E k \in Key, v \in Val : PatchLoad(p, k, v))
               \/ PatchSave(p) \/ PatchFails(p) \/ Reload(p) \/ ReloadFails(p) \/ Swap(p)
        \/ \E s \in Installer :
             SetupLoad(s) \/ SetupCreate(s) \/ SetupRefused(s) \/ SetupMark(s) \/ SetupMarkFails(s)
    BY <1>1 DEF Request
  <2> QED BY <1>0, <1>1, <2>1, <2>2, PatchStep, SetupStep
<1>2. CASE Restart
  BY <1>0, <1>2, RestartStep
<1> QED BY <1>1, <1>2 DEF Next

LEMMA InitType ==
    ASSUME SettingsAssumption, Init
    PROVE  TypeOK
<1>1. stored \in Blob /\ live \in Config
  BY NoBlobType, EffectiveType DEF Init
<1> QED BY <1>1 DEF Init, TypeOK, Op

-----------------------------------------------------------------------------
(* One request at a time.                                                  *)

(* Nobody works beside another; what the one at work read is what is       *)
(* stored; and but for the PATCH that has written, or a failed load, so is *)
(* what the server runs with.                                              *)
Alone == ~overlapped =>
    /\ ~Together
    /\ \A p \in Patcher : At(p, "merge") \/ At(p, "swap") => work[p].blob = stored
    /\ \A s \in Installer : At(s, "create") \/ At(s, "mark") => work[s].blob = stored
    /\ \/ stale
       \/ \E p \in Patcher : At(p, "reload") \/ At(p, "swap")
       \/ live = Effective(stored)

(* The goroutine of a step is the only one there is, before and after it.  *)
LEMMA OnlyOne ==
    ASSUME Alone, NEW o \in Op, ~overlapped', overlapped' = (overlapped \/ Together'),
           \A q \in Op \ {o} : work'[q] = work[q], work[o] # Idle \/ work'[o] # Idle
    PROVE  ~overlapped /\ ~Together' /\ \A q \in Op \ {o} : work[q] = Idle /\ work'[q] = Idle
  BY DEF Alone, Together

LEMMA AloneStep ==
    ASSUME SettingsAssumption, TypeOK, Alone, Next
    PROVE  Alone' /\ (~overlapped' => ChangesOnlyNamed)
<1> SUFFICES ASSUME ~overlapped'
             PROVE  /\ ~Together' /\ ChangesOnlyNamed
                    /\ \A p \in Patcher : At(p, "merge")' \/ At(p, "swap")' => work'[p].blob = stored'
                    /\ \A s \in Installer : At(s, "create")' \/ At(s, "mark")' => work'[s].blob = stored'
                    /\ \/ stale'
                       \/ \E p \in Patcher : At(p, "reload")' \/ At(p, "swap")'
                       \/ live' = Effective(stored')
  BY DEF Alone
<1>0. /\ Patcher \subseteq Op /\ Installer \subseteq Op /\ Idle.pc = "idle"
      /\ Patcher \intersect Installer = {}
  BY DEF SettingsAssumption, Op, Idle
<1>1. ASSUME NEW p \in Patcher, PatchSteps(p), \A q \in Op \ {p} : work'[q] = work[q],
             overlapped' = (overlapped \/ Together')
      PROVE  /\ ~Together' /\ ChangesOnlyNamed
             /\ At(p, "merge")' \/ At(p, "swap")' => work'[p].blob = stored'
             /\ stale' \/ At(p, "reload")' \/ At(p, "swap")' \/ live' = Effective(stored')
             /\ \A q \in Op \ {p} : work'[q] = Idle
  <2>1. work[p] # Idle \/ work'[p] # Idle
    BY <1>0, <1>1 DEF PatchSteps, At
  <2>2. ~overlapped /\ ~Together' /\ \A q \in Op \ {p} : work[q] = Idle /\ work'[q] = Idle
    BY <1>0, <1>1, <2>1, OnlyOne
  <2>3. At(p, "merge") \/ At(p, "swap") => work[p].blob = stored
    BY <2>2 DEF Alone
  <2>4. stale \/ At(p, "reload") \/ At(p, "swap") \/ live = Effective(stored)
    BY <1>0, <2>2 DEF Alone, At
  <2>5. ChangesOnlyNamed
    <3>1. ASSUME At(p, "merge"), work'[p].pc = "reload", stored' = Merged(work[p]),
                 NEW k \in Key, stored'[k] # stored[k]
          PROVE  At(p, "merge") /\ work[p].key = k /\ work[p].val = stored'[k]
                 /\ work'[p].pc = "reload"
      <4>1. stored' = [stored EXCEPT ![work[p].key] = work[p].val]
        BY <2>3, <3>1 DEF Merged
      <4>2. DOMAIN stored = Key
        BY DEF TypeOK, Blob
      <4> QED BY <3>1, <4>1, <4>2
    <3> QED BY <1>1, <3>1 DEF PatchSteps, ChangesOnlyNamed
  <2>6. At(p, "merge")' \/ At(p, "swap")' => work'[p].blob = stored'
    BY <1>0, <1>1 DEF PatchSteps, At
  <2>7. stale' \/ At(p, "reload")' \/ At(p, "swap")' \/ live' = Effective(stored')
    BY <1>0, <1>1, <2>3, <2>4 DEF PatchSteps, At
  <2> QED BY <2>2, <2>5, <2>6, <2>7
<1>2. ASSUME NEW s \in Installer, SetupSteps(s), \A q \in Op \ {s} : work'[q] = work[q],
             overlapped' = (overlapped \/ Together')
      PROVE  /\ ~Together' /\ stored' = stored
             /\ At(s, "create")' \/ At(s, "mark")' => work'[s].blob = stored'
             /\ stale' \/ live' = Effective(stored')
             /\ \A q \in Op \ {s} : work'[q] = Idle
  <2>1. work[s] # Idle \/ work'[s] # Idle
    BY <1>0, <1>2 DEF SetupSteps, At
  <2>2. ~overlapped /\ ~Together' /\ \A q \in Op \ {s} : work[q] = Idle /\ work'[q] = Idle
    BY <1>0, <1>2, <2>1, OnlyOne
  <2>3. At(s, "create") \/ At(s, "mark") => work[s].blob = stored
    BY <2>2 DEF Alone
  <2>4. stale \/ live = Effective(stored)
    BY <1>0, <2>2 DEF Alone, At
  <2>5. stored' = stored /\ live' = live /\ stale' = stale
    BY <1>2, <2>3 DEF SetupSteps
  <2>6. At(s, "create")' \/ At(s, "mark")' => work'[s].blob = stored'
    BY <1>0, <1>2, <2>3, <2>5 DEF SetupSteps, At
  <2> QED BY <2>2, <2>4, <2>5, <2>6
<1>3. CASE \E p \in Patcher : PatchSteps(p) /\ (\A q \in Op \ {p} : work'[q] = work[q])
                               /\ overlapped' = (overlapped \/ Together')
  <2>1. PICK p \in Patcher : PatchSteps(p) /\ (\A q \in Op \ {p} : work'[q] = work[q])
                              /\ overlapped' = (overlapped \/ Together')
    BY <1>3
  <2>2. \A s \in Installer : ~At(s, "create")' /\ ~At(s, "mark")'
    BY <1>0, <1>1, <2>1 DEF At
  <2>3. \A q \in Patcher \ {p} : ~At(q, "merge")' /\ ~At(q, "swap")'
    BY <1>0, <1>1, <2>1 DEF At
  <2> QED BY <1>1, <2>1, <2>2, <2>3
<1>4. CASE \E s \in Installer : SetupSteps(s) /\ (\A q \in Op \ {s} : work'[q] = work[q])
                                /\ overlapped' = (overlapped \/ Together')
  <2>1. PICK s \in Installer : SetupSteps(s) /\ (\A q \in Op \ {s} : work'[q] = work[q])
                               /\ overlapped' = (overlapped \/ Together')
    BY <1>4
  <2>2. \A p \in Patcher : ~At(p, "merge")' /\ ~At(p, "swap")'
    BY <1>0, <1>2, <2>1 DEF At
  <2>3. \A q \in Installer \ {s} : ~At(q, "create")' /\ ~At(q, "mark")'
    BY <1>0, <1>2, <2>1 DEF At
  <2> QED BY <1>2, <2>1, <2>2, <2>3 DEF ChangesOnlyNamed
<1>5. CASE /\ \A o \in Op : work'[o] = Idle
           /\ ~stale' => live' = Effective(stored)
           /\ UNCHANGED <<stored, first>>
  BY <1>0, <1>5 DEF Together, At, ChangesOnlyNamed
<1> QED BY <1>3, <1>4, <1>5, Steps

(* Every instance, under every fault.                                      *)
THEOREM RunsWhatIsStored ==
    ASSUME SettingsAssumption
    PROVE  Spec => LiveIsStoredAlone
<1>1. Init => TypeOK /\ Alone
  <2> SUFFICES ASSUME Init PROVE TypeOK /\ Alone
    OBVIOUS
  <2>1. \A o \in Op : work[o] = Idle /\ Idle.pc = "idle"
    BY DEF Init, Idle
  <2>2. Patcher \subseteq Op /\ Installer \subseteq Op
    BY DEF Op
  <2>3. live = Effective(stored)
    BY DEF Init
  <2> QED BY <2>1, <2>2, <2>3, InitType DEF Alone, Together, At
<1>2. TypeOK /\ Alone /\ [Next]_vars => TypeOK' /\ Alone' /\ [~overlapped' => ChangesOnlyNamed]_vars
  <2> SUFFICES ASSUME TypeOK, Alone, [Next]_vars
               PROVE  TypeOK' /\ Alone' /\ [~overlapped' => ChangesOnlyNamed]_vars
    OBVIOUS
  <2>1. CASE Next
    BY <2>1, Steps, AloneStep
  <2>2. CASE UNCHANGED vars
    BY <2>2 DEF vars, TypeOK, Alone, Together, At
  <2> QED BY <2>1, <2>2
<1>3. TypeOK /\ Alone => (~overlapped => LiveIsStored)
  <2>1. Patcher \subseteq Op /\ Idle.pc = "idle"
    BY DEF Op, Idle
  <2> QED BY <2>1 DEF Alone, LiveIsStored, AllIdle, At
<1> QED BY <1>1, <1>2, <1>3, PTL DEF Spec, LiveIsStoredAlone

-----------------------------------------------------------------------------
(* First setup.                                                            *)

(* Setup is over: no PATCH under way would set the flag again.             *)
Over ==
    /\ ~first
    /\ \A p \in Patcher : At(p, "merge") => ~work[p].first

(* While requests come one at a time, what a PATCH has read of the flag is *)
(* what is stored.                                                         *)
FlagRead == ~overlapped => \A p \in Patcher : At(p, "merge") => work[p].first = first

LEMMA OverStep ==
    ASSUME SettingsAssumption, TypeOK, Over, Next
    PROVE  Over'
<1>0. /\ Patcher \subseteq Op /\ Installer \subseteq Op /\ Idle.pc = "idle"
      /\ Patcher \intersect Installer = {}
  BY DEF SettingsAssumption, Op, Idle
<1>1. ASSUME NEW p \in Patcher, PatchSteps(p), \A q \in Op \ {p} : work'[q] = work[q]
      PROVE  Over'
  <2>1. ~first'
    BY <1>1 DEF PatchSteps, Over
  <2>2. At(p, "merge")' => ~work'[p].first
    BY <1>0, <1>1 DEF PatchSteps, Over, At
  <2> QED BY <1>0, <1>1, <2>1, <2>2 DEF Over, At
<1>2. ASSUME NEW s \in Installer, SetupSteps(s), \A q \in Op \ {s} : work'[q] = work[q]
      PROVE  Over'
  <2>1. ~first'
    BY <1>2 DEF SetupSteps, Over
  <2> QED BY <1>0, <1>2, <2>1 DEF Over, At
<1>3. CASE (\A o \in Op : work'[o] = Idle) /\ UNCHANGED <<stored, first>>
  BY <1>0, <1>3 DEF Over, At
<1> QED BY <1>1, <1>2, <1>3, Steps

LEMMA FlagReadStep ==
    ASSUME SettingsAssumption, TypeOK, Alone, FlagRead, Next
    PROVE  FlagRead' /\ (~overlapped' /\ ~first => ~first')
<1>0. /\ Patcher \subseteq Op /\ Installer \subseteq Op /\ Idle.pc = "idle"
      /\ Patcher \intersect Installer = {}
  BY DEF SettingsAssumption, Op, Idle
<1>1. ASSUME NEW p \in Patcher, PatchSteps(p), \A q \in Op \ {p} : work'[q] = work[q],
             overlapped' = (overlapped \/ Together')
      PROVE  FlagRead' /\ (~overlapped' /\ ~first => ~first')
  <2> SUFFICES ASSUME ~overlapped'
               PROVE  /\ \A q \in Patcher : At(q, "merge")' => work'[q].first = first'
                      /\ ~first => ~first'
    BY DEF FlagRead
  <2>1. ~overlapped /\ ~Together'
    BY <1>1
  <2>2. /\ At(p, "merge")' => work'[p].first = first'
        /\ ~first => ~first'
    BY <1>0, <1>1, <2>1 DEF PatchSteps, FlagRead, At
  <2>3. ASSUME NEW q \in Patcher, q # p, At(q, "merge")' PROVE work'[q].first = first'
    <3>1. work'[p] = Idle
      BY <1>0, <2>1, <2>3 DEF Together, At
    <3>2. work[q] = work'[q] /\ q \in Op /\ p \in Op
      BY <1>0, <1>1, <2>3
    <3>3. first' = first \/ At(p, "merge")
      BY <1>1 DEF PatchSteps
    <3>4. CASE first' = first
      BY <2>1, <2>3, <3>2, <3>4 DEF FlagRead, At
    <3>5. CASE first' # first
      <4>1. work'[p].pc = "reload"
        BY <1>0, <1>1, <3>5 DEF PatchSteps, At
      <4> QED BY <1>0, <3>1, <4>1
    <3> QED BY <3>4, <3>5
  <2> QED BY <2>2, <2>3
<1>2. ASSUME NEW s \in Installer, SetupSteps(s), \A q \in Op \ {s} : work'[q] = work[q],
             overlapped' = (overlapped \/ Together')
      PROVE  FlagRead' /\ (~overlapped' /\ ~first => ~first')
  <2>1. ~first => ~first'
    BY <1>2 DEF SetupSteps
  <2>2. ASSUME ~overlapped', NEW q \in Patcher, At(q, "merge")' PROVE work'[q].first = first'
    <3>1. ~overlapped /\ ~Together' /\ q # s /\ q \in Op /\ s \in Op
      BY <1>0, <1>2, <2>2
    <3>2. work'[s] = Idle /\ work'[q] = work[q] /\ work[q] # Idle
      BY <1>0, <1>2, <2>2, <3>1 DEF Together, At
    <3>3. first' = first \/ At(s, "mark")
      BY <1>2 DEF SetupSteps
    <3>4. CASE first' = first
      BY <2>2, <3>1, <3>2, <3>4 DEF FlagRead, At
    <3>5. CASE At(s, "mark")
      <4>1. Together
        BY <1>0, <3>1, <3>2, <3>5 DEF Together, At
      <4> QED BY <3>1, <4>1 DEF Alone
    <3> QED BY <3>3, <3>4, <3>5
  <2> QED BY <2>1, <2>2 DEF FlagRead
<1>3. CASE (\A o \in Op : work'[o] = Idle) /\ UNCHANGED <<stored, first>>
  BY <1>0, <1>3 DEF FlagRead, At
<1> QED BY <1>1, <1>2, <1>3, Steps

(* Every instance, under every fault: any settings, PATCHes, setups and    *)
(* restarts.                                                               *)
THEOREM SetupFinal ==
    ASSUME SettingsAssumption
    PROVE  Spec => SetupStays
<1>0. Patcher \subseteq Op /\ Idle.pc = "idle"
  BY DEF Op, Idle
<1>1. Init => TypeOK /\ Alone /\ FlagRead /\ (closed => Over)
  <2> SUFFICES ASSUME Init PROVE TypeOK /\ Alone /\ FlagRead /\ (closed => Over)
    OBVIOUS
  <2>1. \A o \in Op : work[o] = Idle /\ Idle.pc = "idle"
    BY DEF Init, Idle
  <2>2. Patcher \subseteq Op /\ Installer \subseteq Op
    BY DEF Op
  <2>3. live = Effective(stored) /\ ~closed
    BY DEF Init
  <2> QED BY <2>1, <2>2, <2>3, InitType DEF Alone, FlagRead, Together, At
<1>2. TypeOK /\ Alone /\ FlagRead /\ (closed => Over) /\ [Next]_vars =>
        /\ TypeOK' /\ Alone' /\ FlagRead' /\ (closed => Over)'
        /\ [~overlapped' /\ ~first => ~first']_vars
  <2> SUFFICES ASSUME TypeOK, Alone, FlagRead, closed => Over, [Next]_vars
               PROVE  /\ TypeOK' /\ Alone' /\ FlagRead' /\ (closed => Over)'
                      /\ [~overlapped' /\ ~first => ~first']_vars
    OBVIOUS
  <2>1. CASE Next
    <3>1. TypeOK' /\ Alone'
      BY <2>1, Steps, AloneStep
    <3>2. FlagRead' /\ (~overlapped' /\ ~first => ~first')
      BY <2>1, FlagReadStep
    <3>3. closed' => Over'
      <4>1. closed' => closed \/ (AllIdle' /\ ~first')
        BY <2>1, Steps
      <4>2. closed => Over'
        BY <2>1, OverStep
      <4>3. AllIdle' /\ ~first' => Over'
        BY <1>0 DEF AllIdle, Over, At
      <4> QED BY <4>1, <4>2, <4>3
    <3> QED BY <3>1, <3>2, <3>3
  <2>2. CASE UNCHANGED vars
    BY <2>2 DEF vars, TypeOK, Alone, FlagRead, Over, Together, At
  <2> QED BY <2>1, <2>2
<1>3. (closed => Over) => (closed => ~first)
  BY DEF Over
<1> QED BY <1>1, <1>2, <1>3, PTL DEF Spec, SetupStays

-----------------------------------------------------------------------------
(* Imports.                                                                  *)

(* The id under which request o writes row x.                                *)
Written(o, x) == [by |-> IF Im!Zipfast THEN Kept ELSE o, of |-> x]

Requests == [pc: {"run", "done", "failed"}, merge: User \union {None}, todo: SUBSET Im!Row,
             links: SUBSET Folder, seen: Im!Row \union {None}, map: [Im!Row -> Im!Id \union {Me, None}]]

Rec == [owner: Im!Id \union {Me, None}, up: Im!Id \union {Me, None}, files: SUBSET Im!Id]

(* Parents are folders, and owners are users.                                *)
Linked ==
    /\ \A p \in DOMAIN db : db[p].owner \in {u \in DOMAIN db : u.of \in User} \union {Me, None}
    /\ \A p \in Im!Folders : db[p].up \in Im!Folders \union {None}

ImportType ==
    /\ how \in {"zipline4", "zipline3", "zipfast4"} /\ export \in Im!Export /\ Im!Trees(export)
    /\ edits \in Nat /\ raced \in BOOLEAN
    /\ db \in [DOMAIN db -> Rec] /\ DOMAIN db \subseteq Im!Id
    /\ op = [o \in Importer |-> op[o]]
    /\ \A o \in Importer : op[o] = Im!Idle \/ op[o] \in Requests
    /\ \A o \in Importer : op[o] # Im!Idle => op[o].seen \notin op[o].todo
    /\ \A o \in Importer : op[o] # Im!Idle /\ how = "zipfast4" => op[o].seen = None
    /\ Linked

(* A row goes to the id its request writes, a user to the administrator in   *)
(* case of a merge; and whoever wrote a row has begun.                       *)
Mapped ==
    /\ \A o \in Importer : op[o] # Im!Idle => \A x \in Im!Row :
        op[o].map[x] \in {None, Written(o, x)} \/ (x \in User /\ op[o].map[x] = Me)
    /\ \A o \in Importer : op[o] # Im!Idle => \A d \in op[o].links :
        export.up[d] # None /\ (how = "zipline4" => op[o].map[d] = Written(o, d))
    /\ \A p \in DOMAIN db : IF Im!Zipfast THEN p.by = Kept ELSE p.by \in Importer /\ op[p.by] # Im!Idle

(* What a request is about to make has an owner.                             *)
SeenOwned == \A o \in Importer :
    op[o] # Im!Idle /\ op[o].seen \in Im!Row \ User => Im!Owner(o, op[o].seen) # None

UsersOnce == \A p, q \in DOMAIN db : p.of \in User /\ q.of = p.of => q = p
TagsOnce == \A p, q \in DOMAIN db : p.of \in Tag /\ q.of = p.of => q = p

(* What a request wrote belongs to whom that request made of its owner, or   *)
(* to nobody since that user is gone.                                        *)
OwnersMakers == \A p \in DOMAIN db : p.of \notin User =>
    /\ db[p].owner \in {Me, None, [by |-> p.by, of |-> export.owner[p.of]]}
    /\ db[p].owner = None => Im!Kind(p.of) \in {"file", "tag", "url"}

(* A file whose owner is gone is there once, and no request that has found   *)
(* it missing comes too late.                                                *)
FilesOnce ==
    /\ \A p, q \in DOMAIN db : p.of \in File /\ q.of = p.of /\ q # p /\ db[p].owner = None => db[q].owner = Me
    /\ \A o \in Importer : op[o] # Im!Idle /\ op[o].seen \in File /\ Im!Owner(o, op[o].seen) \in DOMAIN db =>
        \A q \in DOMAIN db : q.of = op[o].seen => db[q].owner = Me

OnceInv == ~Im!Zipfast => SeenOwned /\ UsersOnce /\ TagsOnce /\ OwnersMakers /\ FilesOnce

(* No set of folders is closed under their parents.                          *)
NoRing == \A S \in SUBSET Im!Folders : S # {} => \E p \in S : db[p].up \notin S

(* The folders of an import at work hang as in the export.                   *)
HangAsExported ==
    /\ ~raced /\ how = "zipline4" => \A p \in Im!Folders :
        op[p.by].pc = "run" => db[p].up \in {None, [by |-> p.by, of |-> export.up[p.of]]}
    /\ Im!Zipfast /\ edits = 0 => \A p \in Im!Folders : db[p].up \in {None, [by |-> Kept, of |-> export.up[p.of]]}

TreeInv == HangAsExported /\ (~raced /\ (Im!Zipfast => edits = 0) => NoRing)

-----------------------------------------------------------------------------
(* An import alone.                                                          *)
Busy(o) == op[o].todo \union ({op[o].seen} \ {None})

(* Rows are handled kind by kind, and all of them.                           *)
InOrder(o) ==
    /\ \A x \in Busy(o) : Im!Handled(x)
    /\ \A x \in Im!Row, y \in Busy(o) : Im!Handled(x) /\ x \notin Busy(o) => Im!Rank(Im!Kind(x)) <= Im!Rank(Im!Kind(y))
    /\ op[o].seen # None => \A y \in op[o].todo : Im!Rank(Im!Kind(op[o].seen)) <= Im!Rank(Im!Kind(y))
    /\ op[o].pc = "done" => Busy(o) = {} /\ op[o].links = {}

(* What is in the database is what the request has written.                  *)
Mine(o) ==
    /\ \A p \in DOMAIN db : p.of \notin Busy(o) /\ op[o].map[p.of] = p
    /\ \A x \in Im!Row : op[o].map[x] \in DOMAIN db \union {Me, None}
    /\ \A x \in Im!Row : Im!Zipfast => op[o].map[x] # Me
    /\ \A x \in Busy(o) : op[o].map[x] = None

(* The second pass sets the parents when all folders have been handled.      *)
ToLink(o) == \A d \in Folder \ op[o].links :
    export.up[d] # None /\ (Im!Zipfast \/ op[o].map[d] # None) /\ how # "zipline3" => Busy(o) \intersect Folder = {}

(* A row that has been handled is as it should be in the end, but for the    *)
(* folders whose parent is to be set.                                        *)
Arrived(o, x) ==
    LET p == op[o].map[x] IN
    /\ p \in DOMAIN db
    /\ db[p].owner = Im!Owner(o, x)
    /\ x \in File => db[p].up = Im!At(o, export.up[x])
    /\ x \in Folder /\ how # "zipline3" =>
        db[p].up = IF x \in op[o].links THEN None ELSE Im!At(o, export.up[x])
    /\ x \in Tag /\ ~Im!Zipfast => db[p].files = {Im!At(o, f) : f \in export.tagged[x]}

Plainly == Im!Row \ (User \union export.taken \union export.twins)

Brought(o) == \A x \in Plainly :
    Im!Handled(x) /\ x \notin Busy(o) /\ Im!Owner(o, x) # None => Arrived(o, x) \/ Im!LeftOut(o, x)

AloneAtWork(o) ==
    op[o].pc \in {"run", "done"} /\ edits = 0 /\ \A other \in Importer \ {o} : op[other] = Im!Idle

SoloInv ==
    /\ (\A o \in Importer : op[o] = Im!Idle) => DOMAIN db = {}
    /\ \A o \in Importer : op[o] # Im!Idle /\ AloneAtWork(o) =>
        InOrder(o) /\ Mine(o) /\ ToLink(o) /\ Brought(o)

-----------------------------------------------------------------------------
(* The steps of a request, by what they do to it and to the database.        *)
Begins(o, w) ==
    /\ op[o] = Im!Idle /\ op' = [op EXCEPT ![o] = w] /\ w \in Requests /\ w.seen \notin w.todo
    /\ w.pc = "run" /\ w.seen = None /\ w.todo = {x \in Im!Row : Im!Handled(x)}
    /\ w.links = IF Im!Zipfast THEN {d \in Folder : export.up[d] # None} ELSE {}
    /\ w.map = [x \in Im!Row |-> None]
    /\ UNCHANGED <<how, export, db, edits, raced>>

Goes(o, w) ==
    /\ op[o] \in Requests /\ op[o].pc = "run" /\ op[o].seen \notin op[o].todo
    /\ op' = [op EXCEPT ![o] = w] /\ w \in Requests /\ w.seen \notin w.todo
    /\ UNCHANGED <<how, export, edits, raced>>

Refused(o, x) ==
    \/ ~Im!There(Im!KeptId(export.owner[x]))
    \/ x \in File /\ ~Im!There(Im!KeptId(export.up[x]))
    \/ Im!Clashes(x, Im!KeptId(export.owner[x]))
    \/ export.owner[x] = None

Missed(o, x) ==
    IF Im!Zipfast THEN Im!KeptId(x) \in DOMAIN db \/ Refused(o, x)
    ELSE Im!Owner(o, x) = None \/ Im!Exists(o, x)

Looks(o, x, w) ==
    /\ Goes(o, w) /\ UNCHANGED db
    /\ Im!IsNext(o, x)
    /\ w.pc = "run" /\ w.todo = op[o].todo \ {x} /\ w.links = op[o].links
    /\ \/ w.seen = None /\ w.map = op[o].map /\ (x \in User \/ Missed(o, x))
       \/ w.seen = None /\ x \in User /\ ~Im!Zipfast /\ w.map = [op[o].map EXCEPT ![x] = Me]
       \/ w.seen = x /\ ~Im!Zipfast /\ w.map = op[o].map
          /\ (x \in User \/ (Im!Owner(o, x) # None /\ ~Im!Exists(o, x)))

Parent(o, x) ==
    IF x \notin File \/ how = "zipline3" \/ export.up[x] = None THEN None
    ELSE IF Im!Zipfast THEN Written(o, export.up[x]) ELSE op[o].map[export.up[x]]

(* Row x is written; a folder of version 3 gets its files.                   *)
MadeOf(o, x, owner, files) ==
    LET p == Written(o, x)
        r == [owner |-> owner, up |-> Parent(o, x), files |-> files]
        ids == {op[o].map[f] : f \in {f \in File : export.up[f] = x}} IN
    /\ owner = IF Im!Zipfast THEN Im!KeptId(export.owner[x])
               ELSE IF x \in User THEN None ELSE Im!Owner(o, x)
    /\ x \in User \union Tag => ~Im!InUse(x)
    /\ Parent(o, x) \in DOMAIN db \union {Me, None}
    /\ x \in Tag /\ ~Im!Zipfast => files = {op[o].map[f] : f \in export.tagged[x]}
    /\ IF how = "zipline3" /\ x \in Folder
       THEN /\ ids \subseteq DOMAIN db
            /\ db' = [q \in DOMAIN db \union {p} |->
                        IF q = p THEN r ELSE IF q \in ids THEN [db[q] EXCEPT !.up = p] ELSE db[q]]
       ELSE db' = [q \in DOMAIN db \union {p} |-> IF q = p THEN r ELSE db[q]]

Makes(o, x, w) ==
    /\ Goes(o, w)
    /\ IF Im!Zipfast THEN Im!IsNext(o, x) /\ Written(o, x) \notin DOMAIN db ELSE op[o].seen = x
    /\ w.pc = "run" /\ w.seen = None /\ w.todo = op[o].todo \ {x}
    /\ w.links = IF how = "zipline4" /\ x \in Folder /\ export.up[x] # None
                 THEN op[o].links \union {x} ELSE op[o].links
    /\ w.map = [op[o].map EXCEPT ![x] = Written(o, x)]
    /\ \E owner \in DOMAIN db \union {Me, None}, files \in SUBSET Im!Id : MadeOf(o, x, owner, files)

(* A folder of version 3 that misses a file.                                 *)
Drops(o, x, w) ==
    /\ Goes(o, w) /\ UNCHANGED db
    /\ how = "zipline3" /\ x \in Folder /\ op[o].seen = x
    /\ w = [op[o] EXCEPT !.seen = None]
    /\ \E f \in File : export.up[f] = x /\ op[o].map[f] = None

Joins(o, d, w) ==
    /\ Goes(o, w)
    /\ how # "zipline3" /\ d \in op[o].links /\ d \in Folder /\ (~Im!Zipfast => op[o].seen = None)
    /\ \A x \in op[o].todo : Im!Rank(Im!Kind(x)) > Im!Rank("link")
    /\ w = [op[o] EXCEPT !.links = @ \ {d}]
    /\ LET p == IF Im!Zipfast THEN Written(o, d) ELSE op[o].map[d]
           up == IF Im!Zipfast THEN Im!KeptId(export.up[d]) ELSE op[o].map[export.up[d]] IN
        \/ UNCHANGED db /\ (IF Im!Zipfast THEN p \notin DOMAIN db \/ up \notin DOMAIN db ELSE up = None)
        \/ /\ up # None /\ Im!There(p) /\ Im!There(up) /\ (Im!Zipfast => {p, up} \subseteq DOMAIN db)
           /\ db' = [db EXCEPT ![p].up = up]

Stops(o, w) ==
    /\ Goes(o, w) /\ UNCHANGED db
    /\ \/ w = [op[o] EXCEPT !.pc = "failed"]
       \/ w = [op[o] EXCEPT !.pc = "done"] /\ op[o].todo = {} /\ op[o].links = {} /\ op[o].seen = None

-----------------------------------------------------------------------------
LEMMA ImportFacts ==
    /\ None \notin Im!Row /\ Kept \notin Importer /\ None # Me /\ None \notin Im!Id /\ Me \notin Im!Id
    /\ \A e \in Exports : e \in Im!Export /\ Im!Trees(e)
    /\ Hows \subseteq {"zipline4", "zipline3", "zipfast4"}
  BY ImportAssumption DEF Im!ImportAssumption

LEMMA RowSplit ==
    ASSUME NEW x \in Im!Row
    PROVE  /\ x \in User => x \notin Folder /\ x \notin File /\ x \notin Tag /\ x \notin Item
           /\ x \in Folder => x \notin User /\ x \notin File /\ x \notin Tag /\ x \notin Item
           /\ x \in File => x \notin User /\ x \notin Folder /\ x \notin Tag /\ x \notin Item
           /\ x \in Tag => x \notin User /\ x \notin Folder /\ x \notin File /\ x \notin Item
           /\ x \in Item => x \notin User /\ x \notin Folder /\ x \notin File /\ x \notin Tag
           /\ x \in User \/ x \in Folder \/ x \in File \/ x \in Tag \/ x \in Item
  BY ImportAssumption DEF Im!ImportAssumption, Im!Row

LEMMA RowKinds ==
    /\ \A x \in User : x \in Im!Row /\ Im!Kind(x) = "user"
    /\ \A x \in Folder : x \in Im!Row /\ Im!Kind(x) = "folder"
    /\ \A x \in File : x \in Im!Row /\ Im!Kind(x) = "file"
    /\ \A x \in Tag : x \in Im!Row /\ Im!Kind(x) = "tag"
    /\ \A x \in Item : x \in Im!Row /\ Im!Kind(x) = export.kind[x]
  <1>1. \A x \in User \union Folder \union File \union Tag \union Item : x \in Im!Row
    BY DEF Im!Row
  <1> QED BY <1>1, RowSplit DEF Im!Kind

LEMMA RunFacts ==
    ASSUME ImportType, NEW o \in Importer, Im!Running(o)
    PROVE  /\ op = [q \in Importer |-> op[q]] /\ op[o] # Im!Idle
           /\ op[o] \in Requests /\ op[o].seen \notin op[o].todo /\ op[o].pc = "run"
           /\ Im!Zipfast => op[o].seen = None
  <1>1. op[o] # Im!Idle /\ op[o].pc = "run"
    BY DEF Im!Running, Im!Idle
  <1> QED BY <1>1 DEF ImportType, Im!Zipfast

LEMMA GoesFacts ==
    ASSUME ImportType, NEW o \in Importer, Im!Running(o), NEW w \in Requests, w.seen \notin w.todo,
           op' = [op EXCEPT ![o] = w], UNCHANGED <<how, export, edits, raced>>
    PROVE  Goes(o, w)
  BY RunFacts DEF Goes

LEMMA BeginShape ==
    ASSUME ImportType, NEW o \in Importer, NEW m \in User \union {None}, Im!Begin(o, m)
    PROVE  \E w : Begins(o, w)
  <1> DEFINE w == [pc |-> "run", merge |-> m, seen |-> None,
                   todo |-> {x \in Im!Row : Im!Handled(x)},
                   links |-> IF Im!Zipfast THEN {d \in Folder : export.up[d] # None} ELSE {},
                   map |-> [x \in Im!Row |-> None]]
  <1>1. w \in Requests /\ w.seen \notin w.todo
    BY ImportFacts DEF Requests
  <1>2. Begins(o, w)
    BY <1>1 DEF Begins, Im!Begin
  <1> QED BY <1>2

(* The row that is looked at is noted, or not.                               *)
LEMMA LookShape ==
    ASSUME ImportType, NEW o \in Importer, NEW x \in Im!Row, Im!IsNext(o, x),
           UNCHANGED <<how, export, edits, raced, db>>, x \in User \/ Missed(o, x),
           op' = [op EXCEPT ![o].todo = @ \ {x}]
    PROVE  \E w : Looks(o, x, w)
  <1> DEFINE w == [op[o] EXCEPT !.todo = @ \ {x}]
  <1>1. op[o] \in Requests /\ Im!Running(o) /\ op[o].seen = None /\ op' = [op EXCEPT ![o] = w]
    BY RunFacts DEF Im!IsNext
  <1>2. /\ w \in Requests /\ w.seen = None /\ w.todo = op[o].todo \ {x} /\ w.pc = "run"
        /\ w.links = op[o].links /\ w.map = op[o].map
    BY <1>1 DEF Requests, Im!Running
  <1> HIDE DEF w
  <1>3. Goes(o, w)
    <2>1. w.seen \notin w.todo
      BY <1>1, <1>2, ImportFacts DEF Requests
    <2> QED BY <1>1, <1>2, <2>1, GoesFacts
  <1>4. Looks(o, x, w)
    BY <1>2, <1>3 DEF Looks
  <1> QED BY <1>4

LEMMA MergeShape ==
    ASSUME ImportType, NEW o \in Importer, NEW x \in User, Im!IsNext(o, x), ~Im!Zipfast,
           UNCHANGED <<how, export, edits, raced, db>>,
           op' = [op EXCEPT ![o].map[x] = Me, ![o].todo = @ \ {x}]
    PROVE  \E w : Looks(o, x, w)
  <1> DEFINE w == [op[o] EXCEPT !.map[x] = Me, !.todo = @ \ {x}]
  <1>0. op[o] \in Requests /\ Im!Running(o) /\ op[o].seen = None /\ op = [q \in Importer |-> op[q]]
    BY RunFacts DEF Im!IsNext
  <1>9. op' = [op EXCEPT ![o] = w]
    BY <1>0
  <1>1. op[o] \in Requests /\ Im!Running(o) /\ op[o].seen = None /\ op' = [op EXCEPT ![o] = w]
    BY <1>0, <1>9
  <1>2. /\ w \in Requests /\ w.seen = None /\ w.todo = op[o].todo \ {x} /\ w.pc = "run"
        /\ w.links = op[o].links /\ w.map = [op[o].map EXCEPT ![x] = Me]
    BY <1>1, RowKinds DEF Requests, Im!Running
  <1> HIDE DEF w
  <1>3. Goes(o, w)
    <2>1. w.seen \notin w.todo
      BY <1>1, <1>2, ImportFacts DEF Requests
    <2> QED BY <1>1, <1>2, <2>1, GoesFacts
  <1>4. Looks(o, x, w)
    BY <1>2, <1>3 DEF Looks
  <1> QED BY <1>4

LEMMA FoundShape ==
    ASSUME ImportType, NEW o \in Importer, NEW x \in Im!Row, Im!IsNext(o, x), ~Im!Zipfast,
           UNCHANGED <<how, export, edits, raced, db>>,
           x \in User \/ (Im!Owner(o, x) # None /\ ~Im!Exists(o, x)),
           op' = [op EXCEPT ![o].seen = x, ![o].todo = @ \ {x}]
    PROVE  \E w : Looks(o, x, w)
  <1> DEFINE w == [op[o] EXCEPT !.seen = x, !.todo = @ \ {x}]
  <1>0. op[o] \in Requests /\ Im!Running(o) /\ op[o].seen = None /\ op = [q \in Importer |-> op[q]]
    BY RunFacts DEF Im!IsNext
  <1>9. op' = [op EXCEPT ![o] = w]
    BY <1>0
  <1>1. op[o] \in Requests /\ Im!Running(o) /\ op[o].seen = None /\ op' = [op EXCEPT ![o] = w]
    BY <1>0, <1>9
  <1>2. /\ w \in Requests /\ w.seen = x /\ w.todo = op[o].todo \ {x} /\ w.pc = "run"
        /\ w.links = op[o].links /\ w.map = op[o].map
    BY <1>1, RowKinds DEF Requests, Im!Running
  <1> HIDE DEF w
  <1>3. Goes(o, w)
    <2>1. w.seen \notin w.todo
      BY <1>1, <1>2, ImportFacts DEF Requests
    <2> QED BY <1>1, <1>2, <2>1, GoesFacts
  <1>4. Looks(o, x, w)
    BY <1>2, <1>3 DEF Looks
  <1> QED BY <1>4

LEMMA FindUserShape ==
    ASSUME ImportType, NEW o \in Importer, NEW x \in Im!Row, Im!FindUser(o, x)
    PROVE  \E w : Looks(o, x, w)
  <1> x \in User /\ Im!IsNext(o, x) /\ ~Im!Zipfast /\ UNCHANGED <<how, export, edits, raced, db>>
    BY DEF Im!FindUser, Im!Skip, Im!Found
  <1>1. CASE op' = [op EXCEPT ![o].map[x] = Me, ![o].todo = @ \ {x}]
    BY <1>1, MergeShape
  <1>2. CASE op' = [op EXCEPT ![o].todo = @ \ {x}]
    BY <1>2, LookShape
  <1>3. CASE op' = [op EXCEPT ![o].seen = x, ![o].todo = @ \ {x}]
    BY <1>3, FoundShape
  <1> QED BY <1>1, <1>2, <1>3 DEF Im!FindUser, Im!Skip, Im!Found

LEMMA FindShape ==
    ASSUME ImportType, NEW o \in Importer, NEW x \in Im!Row, Im!Find(o, x)
    PROVE  \E w : Looks(o, x, w)
  <1> x \notin User /\ Im!IsNext(o, x) /\ ~Im!Zipfast /\ UNCHANGED <<how, export, edits, raced, db>>
    BY DEF Im!Find, Im!Skip, Im!Found
  <1>1. CASE Im!Owner(o, x) = None \/ Im!Exists(o, x)
    BY <1>1, LookShape DEF Im!Find, Im!Skip, Missed
  <1>2. CASE ~(Im!Owner(o, x) = None \/ Im!Exists(o, x))
    BY <1>2, FoundShape DEF Im!Find, Im!Found
  <1> QED BY <1>1, <1>2

LEMMA FreshId ==
    ASSUME ImportType, NEW o \in Importer, NEW x \in Im!Row
    PROVE  /\ Written(o, x) \in Im!Id /\ Written(o, x).of = x
           /\ Im!Zipfast => Written(o, x) = Im!KeptId(x)
           /\ ~Im!Zipfast => Written(o, x) = [by |-> o, of |-> x] /\ Written(o, x).by = o
           /\ Im!Zipfast => Written(o, x).by = Kept
           /\ Written(o, x) # None /\ Written(o, x) # Me
  <1>1. Written(o, x) \in Im!Id
    BY DEF Written, Im!Id
  <1> QED BY <1>1, ImportFacts DEF Written, Im!KeptId

(* The request's record when it writes, and the row.                         *)
LEMMA MakeShape ==
    ASSUME ImportType, NEW o \in Importer, NEW x \in Im!Row, Im!Running(o),
           IF Im!Zipfast THEN Im!IsNext(o, x) /\ Written(o, x) \notin DOMAIN db ELSE op[o].seen = x,
           NEW owner \in DOMAIN db \union {Me, None}, NEW files \in SUBSET Im!Id,
           owner = IF Im!Zipfast THEN Im!KeptId(export.owner[x])
                   ELSE IF x \in User THEN None ELSE Im!Owner(o, x),
           x \in User \union Tag => ~Im!InUse(x),
           Parent(o, x) \in DOMAIN db \union {Me, None},
           x \in Tag /\ ~Im!Zipfast => files = {op[o].map[f] : f \in export.tagged[x]},
           ~(how = "zipline3" /\ x \in Folder),
           Im!Write(o, x, Written(o, x), [owner |-> owner, up |-> Parent(o, x), files |-> files]),
           UNCHANGED <<how, export, edits, raced>>
    PROVE  \E w : Makes(o, x, w)
  <1> DEFINE links == IF how = "zipline4" /\ x \in Folder /\ export.up[x] # None
                      THEN op[o].links \union {x} ELSE op[o].links
             w == [op[o] EXCEPT !.map[x] = Written(o, x), !.seen = None, !.todo = @ \ {x}, !.links = links]
             r == [owner |-> owner, up |-> Parent(o, x), files |-> files]
  <1>0. op[o] \in Requests /\ op = [q \in Importer |-> op[q]] /\ op[o].pc = "run" /\ links \in SUBSET Folder
        /\ op[o].seen \notin op[o].todo
    BY RunFacts DEF Requests
  <1>1. op' = [op EXCEPT ![o] = w]
    <2>1. op' = [op EXCEPT ![o].map[x] = Written(o, x), ![o].seen = None, ![o].todo = @ \ {x},
                           ![o].links = links]
      BY DEF Im!Write
    <2> HIDE DEF links
    <2> QED BY <1>0, <2>1
  <1>2. /\ w \in Requests /\ w.seen = None /\ w.todo = op[o].todo \ {x} /\ w.pc = "run"
        /\ w.links = links /\ w.map = [op[o].map EXCEPT ![x] = Written(o, x)]
    <2> HIDE DEF links
    <2> QED BY <1>0, FreshId DEF Requests
  <1> HIDE DEF w
  <1>3. Goes(o, w)
    <2>1. w.seen \notin w.todo
      BY <1>0, <1>2, ImportFacts DEF Requests
    <2> QED BY <1>1, <1>2, <2>1, GoesFacts
  <1>4. db' = [q \in DOMAIN db \union {Written(o, x)} |-> IF q = Written(o, x) THEN r ELSE db[q]]
    BY DEF Im!Write, Im!Keep
  <1>5. Makes(o, x, w)
    <2>1. MadeOf(o, x, owner, files)
      BY <1>4 DEF MadeOf
    <2> QED BY <1>2, <1>3, <2>1 DEF Makes
  <1> QED BY <1>5

LEMMA StopShape ==
    ASSUME ImportType, NEW o \in Importer, Im!Running(o), Im!Abort(o), UNCHANGED <<how, export, edits, raced>>
    PROVE  \E w : Stops(o, w)
  <1> DEFINE w == [op[o] EXCEPT !.pc = "failed"]
  <1>1. op[o] \in Requests /\ op[o].seen \notin op[o].todo /\ op' = [op EXCEPT ![o] = w] /\ UNCHANGED db
    BY RunFacts DEF Im!Abort
  <1>2. w \in Requests /\ w.seen = op[o].seen /\ w.todo = op[o].todo
    BY <1>1 DEF Requests
  <1>3. Stops(o, w)
    BY <1>1, <1>2, GoesFacts DEF Stops
  <1> QED BY <1>3

LEMMA ClashFacts ==
    ASSUME NEW x \in User \union Tag, NEW owner
    PROVE  Im!Clashes(x, owner) <=> Im!InUse(x)
  <1>1. Im!Kind(x) # "quota"
    BY RowKinds
  <1> QED BY <1>1 DEF Im!Clashes

Answers(o) == (\E w : Stops(o, w)) \/ (\E x \in Im!Row : \E w : Makes(o, x, w) \/ Drops(o, x, w))

LEMMA CreateUserShape ==
    ASSUME ImportType, NEW o \in Importer, Im!CreateUser(o)
    PROVE  Answers(o)
  <1> DEFINE x == op[o].seen
  <1>1. Im!Running(o) /\ x \in User /\ x \in Im!Row /\ UNCHANGED <<how, export, edits, raced>>
    BY RowKinds DEF Im!CreateUser
  <1>4. ~Im!Zipfast
    BY <1>1, RunFacts, ImportFacts
  <1>2. CASE Im!Clashes(x, None)
    BY <1>1, <1>2, StopShape DEF Im!CreateUser, Answers
  <1>3. CASE ~Im!Clashes(x, None)
    <2>1. x \notin Folder /\ x \notin File /\ x \notin Tag
      BY <1>1, RowSplit
    <2>2. Im!Write(o, x, Written(o, x), [owner |-> None, up |-> Parent(o, x), files |-> {}])
      BY <1>1, <1>3, <1>4, <2>1, FreshId DEF Im!CreateUser, Parent, Im!Plain
    <2>3. ~Im!InUse(x)
      BY <1>1, <1>3, ClashFacts
    <2>4. Parent(o, x) = None
      BY <2>1 DEF Parent
    <2>5. \E w : Makes(o, x, w)
      BY <1>1, <1>4, <2>1, <2>2, <2>3, <2>4, MakeShape
    <2> QED BY <1>1, <2>5 DEF Answers
  <1> QED BY <1>2, <1>3

LEMMA CreateItemShape ==
    ASSUME ImportType, NEW o \in Importer, Im!CreateItem(o)
    PROVE  Answers(o)
  <1> DEFINE x == op[o].seen
  <1>1. Im!Running(o) /\ x \in Item /\ x \in Im!Row /\ UNCHANGED <<how, export, edits, raced>>
    BY RowKinds DEF Im!CreateItem
  <1>4. ~Im!Zipfast
    BY <1>1, RunFacts, ImportFacts
  <1>2. CASE ~Im!There(Im!Owner(o, x)) \/ Im!Clashes(x, Im!Owner(o, x))
    BY <1>1, <1>2, StopShape DEF Im!CreateItem, Answers
  <1>3. CASE ~(~Im!There(Im!Owner(o, x)) \/ Im!Clashes(x, Im!Owner(o, x)))
    <2>1. x \notin Folder /\ x \notin File /\ x \notin Tag /\ x \notin User
      BY <1>1, RowSplit
    <2>4. Parent(o, x) = None
      BY <2>1 DEF Parent
    <2>2. Im!Write(o, x, Written(o, x), [owner |-> Im!Owner(o, x), up |-> Parent(o, x), files |-> {}])
      BY <1>1, <1>3, <1>4, <2>4, FreshId DEF Im!CreateItem, Im!Plain
    <2>3. Im!Owner(o, x) \in DOMAIN db \union {Me, None}
      BY <1>3 DEF Im!There
    <2>5. \E w : Makes(o, x, w)
      BY <1>1, <1>4, <2>1, <2>2, <2>3, <2>4, MakeShape
    <2> QED BY <1>1, <2>5 DEF Answers
  <1> QED BY <1>2, <1>3

LEMMA CreateFolderShape ==
    ASSUME ImportType, NEW o \in Importer, Im!CreateFolder(o)
    PROVE  Answers(o)
  <1> DEFINE x == op[o].seen
  <1>1. Im!Running(o) /\ x \in Folder /\ x \in Im!Row /\ UNCHANGED <<how, export, edits, raced>>
        /\ how = "zipline4"
    BY RowKinds DEF Im!CreateFolder
  <1>4. ~Im!Zipfast
    BY <1>1 DEF Im!Zipfast
  <1>2. CASE ~Im!There(Im!Owner(o, x))
    BY <1>1, <1>2, StopShape DEF Im!CreateFolder, Answers
  <1>3. CASE Im!There(Im!Owner(o, x))
    <2>1. x \notin Tag /\ x \notin File /\ x \notin User
      BY <1>1, RowSplit
    <2>4. Parent(o, x) = None
      BY <2>1 DEF Parent
    <2>2. Im!Write(o, x, Written(o, x), [owner |-> Im!Owner(o, x), up |-> Parent(o, x), files |-> {}])
      BY <1>1, <1>3, <1>4, <2>4, FreshId DEF Im!CreateFolder, Im!Plain
    <2>3. Im!Owner(o, x) \in DOMAIN db \union {Me, None}
      BY <1>3 DEF Im!There
    <2>5. \E w : Makes(o, x, w)
      BY <1>1, <1>4, <2>1, <2>2, <2>3, <2>4, MakeShape
    <2> QED BY <1>1, <2>5 DEF Answers
  <1> QED BY <1>2, <1>3

LEMMA CreateFileShape ==
    ASSUME ImportType, NEW o \in Importer, Im!CreateFile(o)
    PROVE  Answers(o)
  <1> DEFINE x == op[o].seen
  <1>1. Im!Running(o) /\ x \in File /\ x \in Im!Row /\ UNCHANGED <<how, export, edits, raced>>
    BY RowKinds DEF Im!CreateFile
  <1>4. ~Im!Zipfast
    BY <1>1, RunFacts, ImportFacts
  <1>5. Parent(o, x) = IF export.up[x] = None \/ how = "zipline3" THEN None ELSE op[o].map[export.up[x]]
    BY <1>1, <1>4 DEF Parent
  <1>2. CASE ~Im!There(Im!Owner(o, x)) \/ ~Im!There(Parent(o, x))
    BY <1>1, <1>2, <1>5, StopShape DEF Im!CreateFile, Answers
  <1>3. CASE Im!There(Im!Owner(o, x)) /\ Im!There(Parent(o, x))
    <2>1. x \notin Folder /\ x \notin Tag /\ x \notin User
      BY <1>1, RowSplit
    <2>2. Im!Write(o, x, Written(o, x), [owner |-> Im!Owner(o, x), up |-> Parent(o, x), files |-> {}])
      <3>1. Written(o, x) = [by |-> o, of |-> x]
        BY <1>1, <1>4, FreshId
      <3>2. Im!Write(o, x, [by |-> o, of |-> x], [owner |-> Im!Owner(o, x), up |-> Parent(o, x), files |-> {}])
        BY <1>3, <1>5 DEF Im!CreateFile
      <3> QED BY <3>1, <3>2
    <2>3. Im!Owner(o, x) \in DOMAIN db \union {Me, None} /\ Parent(o, x) \in DOMAIN db \union {Me, None}
      BY <1>3 DEF Im!There
    <2>5. \E w : Makes(o, x, w)
      BY <1>1, <1>4, <2>1, <2>2, <2>3, MakeShape
    <2> QED BY <1>1, <2>5 DEF Answers
  <1> QED BY <1>2, <1>3

LEMMA CreateTagShape ==
    ASSUME ImportType, NEW o \in Importer, Im!CreateTag(o)
    PROVE  Answers(o)
  <1> DEFINE x == op[o].seen
             ids == {op[o].map[f] : f \in export.tagged[x]}
  <1>1. Im!Running(o) /\ x \in Tag /\ x \in Im!Row /\ UNCHANGED <<how, export, edits, raced>>
    BY RowKinds DEF Im!CreateTag
  <1>4. ~Im!Zipfast
    BY <1>1, RunFacts, ImportFacts
  <1>2. CASE ~Im!There(Im!Owner(o, x)) \/ Im!Clashes(x, Im!Owner(o, x)) \/ ~(ids \subseteq DOMAIN db)
    BY <1>1, <1>2, StopShape DEF Im!CreateTag, Answers
  <1>3. CASE ~(~Im!There(Im!Owner(o, x)) \/ Im!Clashes(x, Im!Owner(o, x)) \/ ~(ids \subseteq DOMAIN db))
    <2>1. x \notin Folder /\ x \notin File /\ x \notin User
      BY <1>1, RowSplit
    <2>4. Parent(o, x) = None
      BY <2>1 DEF Parent
    <2>2. Im!Write(o, x, Written(o, x), [owner |-> Im!Owner(o, x), up |-> Parent(o, x), files |-> ids])
      BY <1>1, <1>3, <1>4, <2>4, FreshId DEF Im!CreateTag
    <2>3. Im!Owner(o, x) \in DOMAIN db \union {Me, None} /\ ids \in SUBSET Im!Id
      BY <1>3 DEF Im!There, ImportType
    <2>6. ~Im!InUse(x)
      BY <1>1, <1>3, ClashFacts
    <2> HIDE DEF ids
    <2>5. \E w : Makes(o, x, w)
      BY <1>1, <1>4, <2>1, <2>2, <2>3, <2>4, <2>6, MakeShape DEF ids
    <2> QED BY <1>1, <2>5 DEF Answers
  <1> QED BY <1>2, <1>3

LEMMA CreateFolder3Shape ==
    ASSUME ImportType, NEW o \in Importer, Im!CreateFolder3(o)
    PROVE  Answers(o)
  <1> DEFINE x == op[o].seen
             p == Written(o, x)
             ids == {op[o].map[f] : f \in {f \in File : export.up[f] = x}}
  <1>1. /\ Im!Running(o) /\ x \in Folder /\ x \in Im!Row /\ UNCHANGED <<how, export, edits, raced>>
        /\ how = "zipline3" /\ x \notin User /\ x \notin Tag /\ x \notin File /\ ~Im!Zipfast
    BY RowKinds, RowSplit DEF Im!CreateFolder3, Im!Zipfast
  <1>2. op = [q \in Importer |-> op[q]] /\ op[o] \in Requests /\ op[o].seen \notin op[o].todo /\ op[o].pc = "run"
    BY <1>1, RunFacts
  <1>3. p = [by |-> o, of |-> x] /\ Parent(o, x) = None
    BY <1>1, FreshId DEF Parent
  <1>4. CASE None \in ids
    <2> DEFINE w == [op[o] EXCEPT !.seen = None]
    <2>1. op' = [op EXCEPT ![o] = w] /\ UNCHANGED db
      BY <1>2, <1>4 DEF Im!CreateFolder3
    <2>2. w \in Requests /\ w.seen \notin w.todo
      BY <1>2, ImportFacts DEF Requests
    <2>3. Drops(o, x, w)
      BY <1>1, <1>4, <2>1, <2>2, GoesFacts DEF Drops
    <2> QED BY <1>1, <2>3 DEF Answers
  <1>5. CASE None \notin ids /\ (~Im!There(Im!Owner(o, x)) \/ ~(ids \subseteq DOMAIN db))
    BY <1>1, <1>5, StopShape DEF Im!CreateFolder3, Answers
  <1>6. CASE None \notin ids /\ Im!There(Im!Owner(o, x)) /\ ids \subseteq DOMAIN db
    <2> DEFINE w == [op[o] EXCEPT !.map[x] = p, !.seen = None]
               owner == Im!Owner(o, x)
               r == [owner |-> owner, up |-> None, files |-> {}]
    <2>1. /\ op' = [op EXCEPT ![o].map[x] = [by |-> o, of |-> x], ![o].seen = None]
          /\ db' = [q \in DOMAIN db \union {p} |->
                        IF q = p THEN r ELSE IF q \in ids THEN [db[q] EXCEPT !.up = p] ELSE db[q]]
      BY <1>1, <1>3, <1>6 DEF Im!CreateFolder3, Im!Plain
    <2>2. op' = [op EXCEPT ![o] = w]
      BY <1>2, <1>3, <2>1
    <2>3. /\ w \in Requests /\ w.seen = None /\ w.todo = op[o].todo \ {x} /\ w.pc = "run"
          /\ w.links = op[o].links /\ w.map = [op[o].map EXCEPT ![x] = Written(o, x)]
      <3>1. op[o].todo \ {x} = op[o].todo
        BY <1>2
      <3> QED BY <1>1, <1>2, <3>1, FreshId DEF Requests
    <2> HIDE DEF w
    <2>4. w.seen \notin w.todo
      BY <2>3, <1>2, ImportFacts DEF Requests
    <2>5. Goes(o, w)
      BY <1>1, <2>2, <2>3, <2>4, GoesFacts
    <2>6. owner \in DOMAIN db \union {Me, None} /\ {} \in SUBSET Im!Id
      BY <1>6 DEF Im!There
    <2>7. Makes(o, x, w)
      <3>1. w.links = IF how = "zipline4" /\ x \in Folder /\ export.up[x] # None
                      THEN op[o].links \union {x} ELSE op[o].links
        BY <1>1, <2>3
      <3>2. MadeOf(o, x, owner, {})
        BY <1>1, <1>3, <1>6, <2>1 DEF MadeOf
      <3> QED BY <1>1, <2>3, <2>5, <2>6, <3>1, <3>2 DEF Makes
    <2> QED BY <1>1, <2>7 DEF Answers
  <1> QED BY <1>4, <1>5, <1>6

LEMMA InsertShape ==
    ASSUME ImportType, NEW o \in Importer, NEW x \in Im!Row, Im!Insert(o, x)
    PROVE  \E w : Looks(o, x, w) \/ Makes(o, x, w)
  <1> DEFINE owner == Im!KeptId(export.owner[x])
             up == IF x \in File THEN Im!KeptId(export.up[x]) ELSE None
             refused == \/ ~Im!There(owner) \/ ~Im!There(up) \/ Im!Clashes(x, owner)
                        \/ owner = None /\ x \notin User \union File \union Tag /\ Im!Kind(x) # "url"
  <1>1. Im!IsNext(o, x) /\ Im!Running(o) /\ Im!Zipfast /\ how = "zipfast4" /\ UNCHANGED <<how, export, edits, raced>>
    BY DEF Im!Insert, Im!IsNext, Im!Zipfast
  <1>2. Im!KeptId(x) = Written(o, x)
    BY <1>1, FreshId
  <1>3. CASE Im!KeptId(x) \in DOMAIN db \/ refused
    <2>1. Im!Skip(o, x)
      BY <1>3 DEF Im!Insert
    <2>2. Missed(o, x)
      <3>1. export.owner[x] # None => owner # None
        BY <1>1, FreshId, ImportFacts DEF Im!KeptId, ImportType, Im!Export, Im!Row, Im!Id
      <3>2. Im!There(None)
        BY DEF Im!There
      <3> QED BY <1>1, <1>3, <3>1, <3>2 DEF Missed, Refused
    <2>3. \E w : Looks(o, x, w)
      BY <1>1, <2>1, <2>2, LookShape DEF Im!Skip
    <2> QED BY <2>3
  <1>4. CASE ~(Im!KeptId(x) \in DOMAIN db \/ refused)
    <2>1. up = Parent(o, x)
      BY <1>1, FreshId DEF Parent, Im!KeptId, Written
    <2>2. owner \in DOMAIN db \union {Me, None} /\ up \in DOMAIN db \union {Me, None}
      BY <1>4 DEF Im!There
    <2>3. Im!Write(o, x, Written(o, x), [owner |-> owner, up |-> Parent(o, x), files |-> {}])
      BY <1>2, <1>4, <2>1 DEF Im!Insert
    <2>4. x \in User \union Tag => ~Im!InUse(x)
      BY <1>4, ClashFacts
    <2>5. \E w : Makes(o, x, w)
      BY <1>1, <1>2, <1>4, <2>1, <2>2, <2>3, <2>4, MakeShape
    <2> QED BY <2>5
  <1> QED BY <1>3, <1>4

LEMMA LinkShape ==
    ASSUME ImportType, NEW o \in Importer, NEW d \in Folder, Im!Link(o, d)
    PROVE  (\E w : Joins(o, d, w)) \/ (\E w : Stops(o, w))
  <1> DEFINE p == op[o].map[d]
             up == op[o].map[export.up[d]]
             w == [op[o] EXCEPT !.links = @ \ {d}]
  <1>1. /\ Im!Running(o) /\ ~Im!Zipfast /\ d \in op[o].links /\ op[o].seen = None /\ how # "zipline3"
        /\ \A x \in op[o].todo : Im!Rank(Im!Kind(x)) > Im!Rank("link")
        /\ UNCHANGED <<how, export, edits, raced>>
    BY DEF Im!Link, Im!Zipfast
  <1>2. op = [q \in Importer |-> op[q]] /\ op[o] \in Requests /\ op[o].seen \notin op[o].todo
    BY <1>1, RunFacts
  <1>3. w \in Requests /\ w.seen \notin w.todo
    BY <1>2 DEF Requests
  <1>4. CASE up # None /\ (~Im!There(p) \/ ~Im!There(up))
    BY <1>1, <1>4, StopShape DEF Im!Link
  <1>5. CASE up = None
    <2>1. op' = [op EXCEPT ![o] = w] /\ UNCHANGED db
      BY <1>2, <1>5 DEF Im!Link
    <2> QED BY <1>1, <1>2, <1>3, <1>5, <2>1, GoesFacts DEF Joins
  <1>6. CASE up # None /\ Im!There(p) /\ Im!There(up)
    <2>1. op' = [op EXCEPT ![o] = w] /\ db' = [db EXCEPT ![p].up = up]
      BY <1>2, <1>6 DEF Im!Link
    <2> QED BY <1>1, <1>2, <1>3, <1>6, <2>1, GoesFacts DEF Joins
  <1> QED BY <1>4, <1>5, <1>6

LEMMA LinkKeptShape ==
    ASSUME ImportType, NEW o \in Importer, NEW d \in Folder, Im!LinkKept(o, d)
    PROVE  \E w : Joins(o, d, w)
  <1> DEFINE p == Im!KeptId(d)
             up == Im!KeptId(export.up[d])
             w == [op[o] EXCEPT !.links = @ \ {d}]
  <1>1. /\ Im!Running(o) /\ Im!Zipfast /\ d \in op[o].links /\ how # "zipline3"
        /\ \A x \in op[o].todo : Im!Rank(Im!Kind(x)) > Im!Rank("link")
        /\ UNCHANGED <<how, export, edits, raced>>
    BY DEF Im!LinkKept, Im!Zipfast
  <1>2. op = [q \in Importer |-> op[q]] /\ op[o] \in Requests /\ op[o].seen \notin op[o].todo
    BY <1>1, RunFacts
  <1>3. w \in Requests /\ w.seen \notin w.todo
    BY <1>2 DEF Requests
  <1>4. p = Written(o, d)
    BY <1>1, RowKinds, FreshId
  <1>5. op' = [op EXCEPT ![o] = w]
    BY <1>2 DEF Im!LinkKept
  <1>6. Goes(o, w)
    BY <1>1, <1>2, <1>3, <1>5, GoesFacts
  <1>7. CASE {p, up} \subseteq DOMAIN db
    <2>1. db' = [db EXCEPT ![p].up = up]
      BY <1>7 DEF Im!LinkKept
    <2>2. up # None /\ Im!There(p) /\ Im!There(up)
      BY <1>7, ImportFacts DEF ImportType, Im!There
    <2> QED BY <1>1, <1>4, <1>6, <1>7, <2>1, <2>2 DEF Joins
  <1>8. CASE ~({p, up} \subseteq DOMAIN db)
    <2>1. UNCHANGED db
      BY <1>8 DEF Im!LinkKept
    <2> QED BY <1>1, <1>4, <1>6, <1>8, <2>1 DEF Joins
  <1> QED BY <1>7, <1>8

LEMMA DoneShape ==
    ASSUME ImportType, NEW o \in Importer, Im!Done(o)
    PROVE  \E w : Stops(o, w)
  <1> DEFINE w == [op[o] EXCEPT !.pc = "done"]
  <1>1. /\ Im!Running(o) /\ op[o].todo = {} /\ op[o].links = {} /\ op[o].seen = None
        /\ UNCHANGED <<how, export, db, edits, raced>>
    BY DEF Im!Done
  <1>2. op = [q \in Importer |-> op[q]] /\ op[o] \in Requests
    BY <1>1, RunFacts
  <1>3. w \in Requests /\ w.seen \notin w.todo
    BY <1>1, <1>2 DEF Requests
  <1>4. op' = [op EXCEPT ![o] = w]
    BY <1>2 DEF Im!Done
  <1> QED BY <1>1, <1>3, <1>4, GoesFacts DEF Stops

Does(o) ==
    \/ \E w : Begins(o, w) \/ Stops(o, w)
    \/ \E x \in Im!Row : \E w : Looks(o, x, w) \/ Makes(o, x, w) \/ Drops(o, x, w)
    \/ \E d \in Folder : \E w : Joins(o, d, w)

(* A user moves a folder, or is removed.                                     *)
Moves(p, q) == p \in Im!Folders /\ q \in Im!Folders \union {None} /\ Im!MoveFolder(p, q)
Leaves(u) == u \in DOMAIN db /\ u.of \in User /\ Im!RemoveUser(u)

LEMMA ImportSteps ==
    ASSUME ImportType, Im!Next
    PROVE  \/ \E o \in Importer : Does(o)
           \/ \E p, q : Moves(p, q)
           \/ \E u : Leaves(u)
  <1>1. CASE \E o \in Importer : Im!Request(o)
    <2> PICK o \in Importer : Im!Request(o)
      BY <1>1
    <2>1. CASE \E m \in User \union {None} : Im!Begin(o, m)
      BY <2>1, BeginShape DEF Does
    <2>2. CASE \E x \in Im!Row : Im!FindUser(o, x) \/ Im!Find(o, x) \/ Im!Insert(o, x)
      BY <2>2, FindUserShape, FindShape, InsertShape DEF Does
    <2>3. CASE Im!CreateUser(o) \/ Im!CreateItem(o) \/ Im!CreateFolder(o) \/ Im!CreateFolder3(o)
               \/ Im!CreateFile(o) \/ Im!CreateTag(o)
      BY <2>3, CreateUserShape, CreateItemShape, CreateFolderShape, CreateFolder3Shape, CreateFileShape,
         CreateTagShape DEF Does, Answers
    <2>4. CASE Im!Done(o)
      BY <2>4, DoneShape DEF Does
    <2>5. CASE Im!Fails(o)
      BY <2>5, StopShape DEF Does, Im!Fails
    <2>6. CASE \E d \in Folder : Im!Link(o, d) \/ Im!LinkKept(o, d)
      BY <2>6, LinkShape, LinkKeptShape DEF Does
    <2>7. \/ \E m \in User \union {None} : Im!Begin(o, m)
          \/ \E x \in Im!Row : Im!FindUser(o, x) \/ Im!Find(o, x) \/ Im!Insert(o, x)
          \/ Im!CreateUser(o) \/ Im!CreateItem(o) \/ Im!CreateFolder(o) \/ Im!CreateFolder3(o)
             \/ Im!CreateFile(o) \/ Im!CreateTag(o)
          \/ Im!Done(o) \/ Im!Fails(o)
          \/ \E d \in Folder : Im!Link(o, d) \/ Im!LinkKept(o, d)
      BY Zenon DEF Im!Request
    <2> QED BY <2>1, <2>2, <2>3, <2>4, <2>5, <2>6, <2>7
  <1>2. CASE \E p \in Im!Folders : \E q \in Im!Folders \union {None} : Im!MoveFolder(p, q)
    BY <1>2 DEF Moves
  <1>3. CASE \E u \in {p \in DOMAIN db : p.of \in User} : Im!RemoveUser(u)
    BY <1>3 DEF Leaves
  <1> QED BY <1>1, <1>2, <1>3 DEF Im!Next

(* The database and the requests after each kind of step.                    *)
LEMMA GoesTo ==
    ASSUME ImportType, NEW o \in Importer, NEW w, Goes(o, w)
    PROVE  /\ op' = [q \in Importer |-> op'[q]] /\ op'[o] = w /\ \A q \in Importer \ {o} : op'[q] = op[q]
           /\ op'[o] # Im!Idle => op'[o].seen \notin op'[o].todo
           /\ op[o] # Im!Idle
  BY DEF Goes, ImportType, Im!Idle, Requests

LEMMA BeginsTo ==
    ASSUME ImportType, NEW o \in Importer, NEW w, Begins(o, w)
    PROVE  /\ op' = [q \in Importer |-> op'[q]] /\ op'[o] = w /\ \A q \in Importer \ {o} : op'[q] = op[q]
  BY DEF Begins, ImportType

LEMMA MadeRow ==
    ASSUME ImportType, Mapped, NEW o \in Importer, NEW x \in Im!Row, NEW w, Makes(o, x, w)
    PROVE  LET p == Written(o, x) IN
           /\ DOMAIN db' = DOMAIN db \union {p} /\ p \in Im!Id /\ p.of = x
           /\ db' \in [DOMAIN db' -> Rec]
           /\ db'[p].owner = IF Im!Zipfast THEN Im!KeptId(export.owner[x])
                             ELSE IF x \in User THEN None ELSE Im!Owner(o, x)
           /\ db'[p].owner \in {u \in DOMAIN db : u.of \in User} \union {Me, None}
           /\ db'[p].up = Parent(o, x) /\ Parent(o, x) \in DOMAIN db \union {Me, None}
           /\ x \in Tag /\ ~Im!Zipfast => db'[p].files = {op[o].map[f] : f \in export.tagged[x]}
           /\ \A q \in DOMAIN db : q # p =>
                /\ db'[q].owner = db[q].owner /\ db'[q].files = db[q].files
                /\ db'[q].up = IF how = "zipline3" /\ x \in Folder /\ q.of \in File /\ export.up[q.of] = x
                                  /\ op[o].map[q.of] = q
                               THEN p ELSE db[q].up
  <1> DEFINE p == Written(o, x)
             ids == {op[o].map[f] : f \in {f \in File : export.up[f] = x}}
  <1>1. p \in Im!Id /\ p.of = x
    BY FreshId
  <1>9. PICK owner \in DOMAIN db \union {Me, None}, files \in SUBSET Im!Id : MadeOf(o, x, owner, files)
    BY DEF Makes
  <1>2. /\ owner = IF Im!Zipfast THEN Im!KeptId(export.owner[x])
                   ELSE IF x \in User THEN None ELSE Im!Owner(o, x)
        /\ Parent(o, x) \in DOMAIN db \union {Me, None}
        /\ x \in Tag /\ ~Im!Zipfast => files = {op[o].map[f] : f \in export.tagged[x]}
    BY <1>9 DEF MadeOf
  <1>8. owner \in {u \in DOMAIN db : u.of \in User} \union {Me, None}
    <2>1. export.owner[x] \in User \union {None}
      BY DEF ImportType, Im!Export
    <2>2. Im!KeptId(export.owner[x]) = None \/ Im!KeptId(export.owner[x]).of \in User
      BY <2>1 DEF Im!KeptId
    <2>3. Im!Owner(o, x) \in {None, Me} \/ Im!Owner(o, x).of \in User
      <3>1. op[o] # Im!Idle
        BY GoesTo DEF Makes
      <3>2. \A u \in User : op[o].map[u] \in {None, Me, Written(o, u)} /\ Written(o, u).of = u
        BY <3>1, RowKinds, FreshId DEF Mapped
      <3> QED BY <2>1, <3>2 DEF Im!Owner, Im!Owned
    <2> QED BY <1>2, <2>2, <2>3
  <1> DEFINE r == [owner |-> owner, up |-> Parent(o, x), files |-> files]
  <1>3. r \in Rec /\ r.owner = owner /\ r.up = Parent(o, x) /\ r.files = files
    BY <1>2 DEF Rec, ImportType
  <1>4. \A q \in DOMAIN db : db[q] \in Rec
    BY DEF ImportType
  <1> HIDE DEF r, p
  <1>5. \A q \in DOMAIN db : /\ [db[q] EXCEPT !.up = p] \in Rec
                             /\ [db[q] EXCEPT !.up = p].owner = db[q].owner
                             /\ [db[q] EXCEPT !.up = p].files = db[q].files
                             /\ [db[q] EXCEPT !.up = p].up = p
    BY <1>1, <1>4 DEF Rec
  <1>6. CASE how = "zipline3" /\ x \in Folder
    <2>1. db' = [q \in DOMAIN db \union {p} |->
                   IF q = p THEN r ELSE IF q \in ids THEN [db[q] EXCEPT !.up = p] ELSE db[q]]
      BY <1>9, <1>6 DEF r, p, MadeOf
    <2>2. \A q \in DOMAIN db : q \in ids <=> q.of \in File /\ export.up[q.of] = x /\ op[o].map[q.of] = q
      <3>1. op[o] # Im!Idle
        BY GoesTo DEF Makes
      <3>2. \A f \in File : op[o].map[f] \in {None, Written(o, f)} /\ Written(o, f).of = f
        BY <3>1, RowKinds, RowSplit, FreshId DEF Mapped
      <3> QED BY <3>2, ImportFacts DEF ImportType
    <2> HIDE DEF ids
    <2>3. /\ DOMAIN db' = DOMAIN db \union {p} /\ db' \in [DOMAIN db' -> Rec] /\ db'[p] = r
          /\ \A q \in DOMAIN db : q # p =>
                db'[q] = IF q \in ids THEN [db[q] EXCEPT !.up = p] ELSE db[q]
      BY <2>1, <1>3, <1>4, <1>5
    <2>4. \A q \in DOMAIN db : q # p =>
                /\ db'[q].owner = db[q].owner /\ db'[q].files = db[q].files
                /\ db'[q].up = IF q.of \in File /\ export.up[q.of] = x /\ op[o].map[q.of] = q
                               THEN p ELSE db[q].up
      <3> TAKE q \in DOMAIN db
      <3> HAVE q # p
      <3>1. CASE q \in ids
        <4>1. db'[q] = [db[q] EXCEPT !.up = p]
          BY <3>1, <2>3
        <4>2. db'[q].owner = db[q].owner /\ db'[q].files = db[q].files /\ db'[q].up = p
          BY <4>1, <1>5
        <4>3. q.of \in File /\ export.up[q.of] = x /\ op[o].map[q.of] = q
          BY <3>1, <2>2
        <4> QED BY <4>2, <4>3
      <3>2. CASE q \notin ids
        BY <3>2, <2>2, <2>3
      <3> QED BY <3>1, <3>2
    <2> QED BY <1>1, <1>2, <1>3, <1>6, <1>8, <2>3, <2>4 DEF p
  <1>7. CASE ~(how = "zipline3" /\ x \in Folder)
    <2>1. db' = [q \in DOMAIN db \union {p} |-> IF q = p THEN r ELSE db[q]]
      BY <1>9, <1>7 DEF r, p, MadeOf
    <2>3. /\ DOMAIN db' = DOMAIN db \union {p} /\ db' \in [DOMAIN db' -> Rec] /\ db'[p] = r
          /\ \A q \in DOMAIN db : q # p => db'[q] = db[q]
      BY <2>1, <1>3, <1>4
    <2> QED BY <1>1, <1>2, <1>3, <1>7, <1>8, <2>3 DEF p
  <1> QED BY <1>6, <1>7

LEMMA LeftRows ==
    ASSUME ImportType, NEW u, Leaves(u)
    PROVE  /\ DOMAIN db' \subseteq DOMAIN db /\ u \notin DOMAIN db' /\ u \in DOMAIN db /\ u.of \in User
           /\ db' \in [DOMAIN db' -> Rec]
           /\ \A q \in DOMAIN db \ DOMAIN db' : q = u \/ (db[q].owner = u /\ q.of \notin User)
           /\ \A q \in DOMAIN db' :
                /\ db'[q].owner = IF db[q].owner = u THEN None ELSE db[q].owner
                /\ db'[q].up = IF db[q].up \in DOMAIN db \ DOMAIN db' THEN None ELSE db[q].up
                /\ db[q].owner = u =>
                    Im!Kind(q.of) \notin {"oauth", "quota", "passkey", "folder", "invite"}
           /\ edits' = edits + 1 /\ UNCHANGED <<how, export, op>>
           /\ raced' = (raced \/ \E o \in Importer : Im!Running(o))
  <1> DEFINE gone == {u} \union {p \in DOMAIN db : db[p].owner = u /\
                    Im!Kind(p.of) \in {"oauth", "quota", "passkey", "folder", "invite"}}
  <1>1. /\ db' = [p \in DOMAIN db \ gone |->
                [owner |-> IF db[p].owner = u THEN None ELSE db[p].owner,
                 up |-> IF db[p].up \in gone THEN None ELSE db[p].up,
                 files |-> db[p].files]]
        /\ edits' = edits + 1 /\ UNCHANGED <<how, export, op>> /\ u \in DOMAIN db /\ u.of \in User
        /\ raced' = (raced \/ \E o \in Importer : Im!Running(o))
    BY DEF Leaves, Im!RemoveUser, Im!Edit
  <1>2. \A q \in DOMAIN db : db[q] \in Rec
    BY DEF ImportType
  <1>3. DOMAIN db' = DOMAIN db \ gone /\ gone = DOMAIN db \ DOMAIN db'
    BY <1>1
  <1>4. \A q \in DOMAIN db' : db'[q] =
                [owner |-> IF db[q].owner = u THEN None ELSE db[q].owner,
                 up |-> IF db[q].up \in gone THEN None ELSE db[q].up,
                 files |-> db[q].files]
    BY <1>1
  <1>5. \A q \in DOMAIN db' : db'[q] \in Rec
    BY <1>2, <1>3, <1>4 DEF Rec
  <1>6. db' \in [DOMAIN db' -> Rec]
    BY <1>1, <1>5
  <1>7. \A q \in gone : q = u \/ (db[q].owner = u /\ q.of \notin User)
    BY RowKinds
  <1> QED BY <1>1, <1>3, <1>4, <1>6, <1>7

LEMMA MovedRows ==
    ASSUME ImportType, NEW p, NEW q, Moves(p, q)
    PROVE  /\ DOMAIN db' = DOMAIN db /\ p \in Im!Folders /\ q \in Im!Folders \union {None}
           /\ q # None => p \notin Im!Over(q)
           /\ db' \in [DOMAIN db' -> Rec]
           /\ \A r \in DOMAIN db : /\ db'[r].owner = db[r].owner /\ db'[r].files = db[r].files
                                   /\ db'[r].up = IF r = p THEN q ELSE db[r].up
           /\ edits' = edits + 1 /\ UNCHANGED <<how, export, op>>
           /\ raced' = (raced \/ \E o \in Importer : Im!Running(o))
  <1>1. /\ db' = [db EXCEPT ![p].up = q] /\ p \in DOMAIN db /\ q \in Im!Id \union {Me, None}
        /\ \A r \in DOMAIN db : db[r] \in Rec
        /\ edits' = edits + 1 /\ UNCHANGED <<how, export, op>> /\ (q # None => p \notin Im!Over(q))
        /\ raced' = (raced \/ \E o \in Importer : Im!Running(o))
    BY DEF Moves, Im!MoveFolder, Im!Edit, ImportType, Im!Folders
  <1>2. [db[p] EXCEPT !.up = q] \in Rec /\ [db[p] EXCEPT !.up = q].owner = db[p].owner
        /\ [db[p] EXCEPT !.up = q].files = db[p].files /\ [db[p] EXCEPT !.up = q].up = q
    BY <1>1 DEF Rec
  <1>3. db' = [r \in DOMAIN db |-> IF r = p THEN [db[p] EXCEPT !.up = q] ELSE db[r]]
    BY <1>1 DEF ImportType
  <1>4. p \in Im!Folders /\ q \in Im!Folders \union {None}
    BY DEF Moves
  <1> QED BY <1>1, <1>2, <1>3, <1>4

LEMMA JoinedRows ==
    ASSUME ImportType, Mapped, NEW o \in Importer, NEW d \in Folder, NEW w, Joins(o, d, w)
    PROVE  LET p == Written(o, d)
               up == Written(o, export.up[d]) IN
           /\ export.up[d] \in Folder /\ export.up[d] # None
           /\ ~Im!Zipfast => op[o].map[d] = p
           /\ \/ UNCHANGED db /\ (IF Im!Zipfast THEN p \notin DOMAIN db \/ up \notin DOMAIN db
                                  ELSE op[o].map[export.up[d]] = None)
              \/ /\ DOMAIN db' = DOMAIN db /\ db' \in [DOMAIN db' -> Rec]
                 /\ p \in DOMAIN db /\ up \in DOMAIN db /\ db'[p].up = up
                 /\ ~Im!Zipfast => op[o].map[export.up[d]] = up
                 /\ \A q \in DOMAIN db : /\ db'[q].owner = db[q].owner /\ db'[q].files = db[q].files
                                         /\ q # p => db'[q].up = db[q].up
  <1> DEFINE p == Written(o, d)
             up == Written(o, export.up[d])
             at == IF Im!Zipfast THEN p ELSE op[o].map[d]
             to == IF Im!Zipfast THEN Im!KeptId(export.up[d]) ELSE op[o].map[export.up[d]]
  <1>1. op[o] # Im!Idle /\ d \in op[o].links /\ how # "zipline3"
    BY GoesTo DEF Joins
  <1>2. export.up[d] \in Folder /\ export.up[d] # None
    BY <1>1 DEF Mapped, ImportType, Im!Export
  <1>3. ~Im!Zipfast => how = "zipline4"
    BY <1>1 DEF ImportType, Im!Zipfast
  <1>4. at = p /\ p # None /\ p # Me /\ (~Im!Zipfast => op[o].map[d] = p)
    BY <1>1, <1>3, FreshId, RowKinds DEF Mapped
  <1>5. to \in {None, up} /\ up # None /\ up # Me /\ (Im!Zipfast => to = up)
    BY <1>1, <1>2, FreshId, RowKinds, RowSplit DEF Mapped
  <1> HIDE DEF at, to
  <1>6. \/ UNCHANGED db /\ (IF Im!Zipfast THEN at \notin DOMAIN db \/ to \notin DOMAIN db ELSE to = None)
        \/ to # None /\ Im!There(at) /\ Im!There(to) /\ db' = [db EXCEPT ![at].up = to]
    BY <1>4 DEF Joins, at, to
  <1>7. CASE UNCHANGED db /\ (IF Im!Zipfast THEN at \notin DOMAIN db \/ to \notin DOMAIN db ELSE to = None)
    BY <1>2, <1>4, <1>5, <1>7 DEF to
  <1>8. CASE to # None /\ Im!There(at) /\ Im!There(to) /\ db' = [db EXCEPT ![at].up = to]
    <2>1. to = up /\ p \in DOMAIN db /\ up \in DOMAIN db
      BY <1>4, <1>5, <1>8 DEF Im!There
    <2>2. \A q \in DOMAIN db : db[q] \in Rec
      BY DEF ImportType
    <2> HIDE DEF p, up
    <2>3. [db[p] EXCEPT !.up = up] \in Rec /\ [db[p] EXCEPT !.up = up].owner = db[p].owner
          /\ [db[p] EXCEPT !.up = up].files = db[p].files /\ [db[p] EXCEPT !.up = up].up = up
      BY <2>1, <2>2 DEF Rec, ImportType
    <2>4. db' = [r \in DOMAIN db |-> IF r = p THEN [db[p] EXCEPT !.up = up] ELSE db[r]]
      BY <1>4, <1>8, <2>1 DEF ImportType
    <2>5. /\ DOMAIN db' = DOMAIN db /\ db' \in [DOMAIN db' -> Rec] /\ db'[p].up = up
          /\ \A q \in DOMAIN db : /\ db'[q].owner = db[q].owner /\ db'[q].files = db[q].files
                                  /\ q # p => db'[q].up = db[q].up
      <3>1. DOMAIN db' = DOMAIN db /\ \A r \in DOMAIN db : db'[r] \in Rec
        BY <2>2, <2>3, <2>4
      <3>2. db' \in [DOMAIN db' -> Rec]
        BY <2>4, <3>1
      <3>3. db'[p] = [db[p] EXCEPT !.up = up] /\ \A q \in DOMAIN db : q # p => db'[q] = db[q]
        BY <2>1, <2>4
      <3>4. db'[p].up = up
        BY <3>3, <2>3
      <3>5. ASSUME NEW q \in DOMAIN db
            PROVE  db'[q].owner = db[q].owner /\ db'[q].files = db[q].files
        BY <3>3, <2>3
      <3> QED BY <3>1, <3>2, <3>3, <3>4, <3>5
    <2>6. ~Im!Zipfast => op[o].map[export.up[d]] = up
      BY <2>1 DEF to
    <2> QED BY <1>2, <1>4, <2>1, <2>5, <2>6 DEF p, up
  <1> QED BY <1>6, <1>7, <1>8

-----------------------------------------------------------------------------
(* Types, and where rows go.                                                 *)
LEMMA SameWords ==
    ASSUME UNCHANGED <<how, export>>
    PROVE  /\ Im!Zipfast' <=> Im!Zipfast
           /\ \A o, x : Written(o, x)' = Written(o, x)
           /\ \A x : Im!Kind(x)' = Im!Kind(x)
           /\ \A x : Im!KeptId(x)' = Im!KeptId(x)
           /\ \A x : Im!Handled(x)' <=> Im!Handled(x)
           /\ \A k : Im!Rank(k)' = Im!Rank(k)
  <1>1. (Im!Zipfast' <=> Im!Zipfast) /\ \A x : Im!Kind(x)' = Im!Kind(x)
    BY DEF Im!Zipfast, Im!Kind
  <1>2. \A o, x : Written(o, x)' = Written(o, x)
    BY DEF Written, Im!Zipfast
  <1>3. \A x : Im!KeptId(x)' = Im!KeptId(x)
    BY DEF Im!KeptId
  <1>4. \A x : Im!Handled(x)' <=> Im!Handled(x)
    BY <1>1 DEF Im!Handled
  <1>5. \A k : Im!Rank(k)' = Im!Rank(k)
    BY DEF Im!Rank
  <1> QED BY <1>1, <1>2, <1>3, <1>4, <1>5

Base == ImportType /\ Mapped

LEMMA BaseGoes ==
    ASSUME Base, NEW o \in Importer, NEW w, Goes(o, w), w.seen # None => ~Im!Zipfast,
           \A x \in Im!Row : w.map[x] \in {op[o].map[x], Written(o, x)} \/ (x \in User /\ w.map[x] = Me),
           \A d \in w.links : export.up[d] # None /\ (how = "zipline4" => w.map[d] = Written(o, d)),
           db' \in [DOMAIN db' -> Rec], DOMAIN db' \subseteq Im!Id, Linked',
           \A p \in DOMAIN db' : p \in DOMAIN db \/ p = Written(o, p.of)
    PROVE  Base'
  <1>1. /\ op' = [q \in Importer |-> op'[q]] /\ op'[o] = w /\ \A q \in Importer \ {o} : op'[q] = op[q]
        /\ op[o] # Im!Idle /\ w \in Requests /\ w.seen \notin w.todo /\ w # Im!Idle
        /\ UNCHANGED <<how, export, edits, raced>>
    <2>1. w \in Requests => w # Im!Idle
      BY DEF Requests, Im!Idle
    <2> QED BY <2>1, GoesTo DEF Base, Goes
  <1>2. ImportType'
    <2>1. \A q \in Importer : op'[q] = Im!Idle \/ op'[q] \in Requests
      BY <1>1 DEF Base, ImportType
    <2>2. \A q \in Importer : op'[q] # Im!Idle => op'[q].seen \notin op'[q].todo
      BY <1>1 DEF Base, ImportType
    <2>3. \A q \in Importer : op'[q] # Im!Idle /\ how' = "zipfast4" => op'[q].seen = None
      BY <1>1 DEF Base, ImportType, Im!Zipfast
    <2> QED BY <1>1, <2>1, <2>2, <2>3 DEF Base, ImportType
  <1>3. Mapped'
    <2>1. ASSUME NEW q \in Importer, op'[q] # Im!Idle, NEW x \in Im!Row
          PROVE  op'[q].map[x] \in {None, Written(q, x)} \/ (x \in User /\ op'[q].map[x] = Me)
      <3>1. CASE q = o
        BY <3>1, <1>1 DEF Base, Mapped
      <3>2. CASE q # o
        BY <3>2, <2>1, <1>1 DEF Base, Mapped
      <3> QED BY <3>1, <3>2
    <2>2. ASSUME NEW q \in Importer, op'[q] # Im!Idle, NEW d \in op'[q].links
          PROVE  export.up[d] # None /\ (how = "zipline4" => op'[q].map[d] = Written(q, d))
      <3>1. CASE q = o
        BY <3>1, <2>2, <1>1
      <3>2. CASE q # o
        BY <3>2, <2>2, <1>1 DEF Base, Mapped
      <3> QED BY <3>1, <3>2
    <2>3. ASSUME NEW p \in DOMAIN db'
          PROVE  IF Im!Zipfast THEN p.by = Kept ELSE p.by \in Importer /\ op'[p.by] # Im!Idle
      <3>1. CASE p \in DOMAIN db
        BY <3>1, <1>1 DEF Base, Mapped
      <3>2. CASE p = Written(o, p.of)
        <4>1. p.of \in Im!Row
          BY DEF Im!Id
        <4> QED BY <3>2, <4>1, <1>1, FreshId DEF Base
      <3> QED BY <3>1, <3>2
    <2> QED BY <2>1, <2>2, <2>3, <1>1, SameWords DEF Mapped
  <1> QED BY <1>2, <1>3 DEF Base

LEMMA LookBase ==
    ASSUME Base, NEW o \in Importer, NEW x \in Im!Row, NEW w, Looks(o, x, w)
    PROVE  Base'
  <1>1. /\ Goes(o, w) /\ db' = db /\ w.links = op[o].links /\ (w.seen # None => ~Im!Zipfast)
        /\ w.map = op[o].map \/ (x \in User /\ w.map = [op[o].map EXCEPT ![x] = Me])
        /\ op[o] \in Requests /\ op[o] # Im!Idle
    BY GoesTo DEF Looks, Base, Goes
  <1>2. \A y \in Im!Row : w.map[y] \in {op[o].map[y], Written(o, y)} \/ (y \in User /\ w.map[y] = Me)
    BY <1>1 DEF Requests
  <1>3. ASSUME NEW d \in w.links
        PROVE  export.up[d] # None /\ (how = "zipline4" => w.map[d] = Written(o, d))
    <2>1. (d \in Im!Row /\ d # x) \/ w.map = op[o].map
      BY <1>1, RowKinds, RowSplit DEF Requests
    <2> QED BY <1>1, <2>1 DEF Base, Mapped, Requests
  <1>4. Linked'
    BY <1>1 DEF Base, ImportType, Linked, Im!Folders
  <1>5. \A p \in DOMAIN db' : p \in DOMAIN db \/ p = Written(o, p.of)
    BY <1>1
  <1>6. db' \in [DOMAIN db' -> Rec] /\ DOMAIN db' \subseteq Im!Id
    BY <1>1 DEF Base, ImportType
  <1> QED BY <1>1, <1>2, <1>3, <1>4, <1>5, <1>6, BaseGoes

LEMMA SameRowsBase ==
    ASSUME Base, NEW o \in Importer, NEW w, Goes(o, w), UNCHANGED db, w.seen # None => ~Im!Zipfast,
           w.map = op[o].map, w.links \subseteq op[o].links
    PROVE  Base'
  <1>1. op[o] \in Requests /\ op[o] # Im!Idle
    BY GoesTo DEF Base, Goes
  <1>2. \A y \in Im!Row : w.map[y] \in {op[o].map[y], Written(o, y)} \/ (y \in User /\ w.map[y] = Me)
    OBVIOUS
  <1>3. \A d \in w.links : export.up[d] # None /\ (how = "zipline4" => w.map[d] = Written(o, d))
    BY <1>1 DEF Base, Mapped
  <1>4. Linked'
    BY DEF Base, ImportType, Linked, Im!Folders
  <1>6. db' \in [DOMAIN db' -> Rec] /\ DOMAIN db' \subseteq Im!Id
    BY DEF Base, ImportType
  <1> QED BY <1>2, <1>3, <1>4, <1>6, BaseGoes

LEMMA MakeBase ==
    ASSUME Base, NEW o \in Importer, NEW x \in Im!Row, NEW w, Makes(o, x, w)
    PROVE  Base'
  <1> DEFINE p == Written(o, x)
  <1>1. /\ Goes(o, w) /\ w.map = [op[o].map EXCEPT ![x] = p] /\ w.seen = None
        /\ op[o] \in Requests /\ op[o] # Im!Idle
        /\ w.links = IF how = "zipline4" /\ x \in Folder /\ export.up[x] # None
                     THEN op[o].links \union {x} ELSE op[o].links
    BY GoesTo DEF Makes, Base, Goes
  <1>2. \A y \in Im!Row : w.map[y] \in {op[o].map[y], Written(o, y)} \/ (y \in User /\ w.map[y] = Me)
    BY <1>1 DEF Requests
  <1>3. ASSUME NEW d \in w.links
        PROVE  export.up[d] # None /\ (how = "zipline4" => w.map[d] = Written(o, d))
    <2>1. CASE d = x /\ d \notin op[o].links
      BY <2>1, <1>1 DEF Requests
    <2>2. CASE d \in op[o].links
      <3>1. export.up[d] # None /\ (how = "zipline4" => op[o].map[d] = Written(o, d)) /\ d \in Im!Row
        BY <2>2, <1>1, RowKinds DEF Base, Mapped, Requests
      <3> QED BY <3>1, <1>1 DEF Requests
    <2> QED BY <2>1, <2>2, <1>1
  <1>4. /\ DOMAIN db' = DOMAIN db \union {p} /\ p \in Im!Id /\ p.of = x
        /\ db' \in [DOMAIN db' -> Rec]
        /\ db'[p].owner \in {u \in DOMAIN db : u.of \in User} \union {Me, None}
        /\ db'[p].up = Parent(o, x) /\ Parent(o, x) \in DOMAIN db \union {Me, None}
        /\ \A q \in DOMAIN db : q # p =>
             /\ db'[q].owner = db[q].owner
             /\ q.of \notin File => db'[q].up = db[q].up
    BY MadeRow DEF Base
  <1> HIDE DEF p
  <1>5. Linked'
    <2>1. \A q \in DOMAIN db' : db'[q].owner \in {u \in DOMAIN db' : u.of \in User} \union {Me, None}
      BY <1>4 DEF Base, ImportType, Linked
    <2>2. ASSUME NEW q \in Im!Folders' PROVE db'[q].up \in Im!Folders' \union {None}
      <3>1. q \in DOMAIN db' /\ q.of \in Folder /\ q.of \notin File /\ Im!Folders \subseteq Im!Folders'
        BY <1>4, RowKinds, RowSplit DEF Im!Folders
      <3>2. CASE q = p
        BY <3>1, <3>2, <1>4 DEF Parent
      <3>3. CASE q # p
        BY <3>1, <3>3, <1>4 DEF Base, ImportType, Linked, Im!Folders
      <3> QED BY <3>2, <3>3
    <2> QED BY <2>1, <2>2 DEF Linked
  <1>6. \A q \in DOMAIN db' : q \in DOMAIN db \/ q = Written(o, q.of)
    BY <1>4 DEF p
  <1>7. DOMAIN db' \subseteq Im!Id
    BY <1>4 DEF Base, ImportType
  <1>8. Goes(o, w) /\ (w.seen # None => ~Im!Zipfast) /\ db' \in [DOMAIN db' -> Rec]
    BY <1>1, <1>4
  <1> QED BY <1>2, <1>3, <1>5, <1>6, <1>7, <1>8, BaseGoes

LEMMA JoinBase ==
    ASSUME Base, NEW o \in Importer, NEW d \in Folder, NEW w, Joins(o, d, w)
    PROVE  Base'
  <1> DEFINE p == Written(o, d)
             up == Written(o, export.up[d])
  <1>1. /\ Goes(o, w) /\ w.map = op[o].map /\ w.seen = op[o].seen /\ w.links \subseteq op[o].links
        /\ op[o] \in Requests /\ op[o] # Im!Idle
    <2>1. Goes(o, w) /\ w = [op[o] EXCEPT !.links = @ \ {d}]
      BY DEF Joins
    <2>2. op[o] \in Requests /\ op[o] # Im!Idle
      BY <2>1, GoesTo DEF Base, Goes
    <2> QED BY <2>1, <2>2 DEF Requests
  <1>2. w.seen # None => ~Im!Zipfast
    BY <1>1 DEF Base, ImportType, Im!Zipfast
  <1>3. CASE UNCHANGED db
    BY <1>1, <1>2, <1>3, SameRowsBase
  <1>4. CASE db' # db
    <2>1. /\ DOMAIN db' = DOMAIN db /\ db' \in [DOMAIN db' -> Rec]
          /\ p \in DOMAIN db /\ up \in DOMAIN db /\ db'[p].up = up /\ export.up[d] \in Folder
          /\ \A q \in DOMAIN db : db'[q].owner = db[q].owner /\ (q # p => db'[q].up = db[q].up)
      BY <1>4, JoinedRows DEF Base
    <2>2. up.of = export.up[d]
      BY <2>1, RowKinds, FreshId DEF Base
    <2> HIDE DEF p, up
    <2>3. Linked'
      BY <2>1, <2>2 DEF Base, ImportType, Linked, Im!Folders
    <2>4. \A y \in Im!Row : w.map[y] \in {op[o].map[y], Written(o, y)} \/ (y \in User /\ w.map[y] = Me)
      BY <1>1
    <2>5. \A c \in w.links : export.up[c] # None /\ (how = "zipline4" => w.map[c] = Written(o, c))
      BY <1>1 DEF Base, Mapped
    <2>6. DOMAIN db' \subseteq Im!Id
      BY <2>1 DEF Base, ImportType
    <2> QED BY <1>1, <1>2, <2>1, <2>3, <2>4, <2>5, <2>6, BaseGoes
  <1> QED BY <1>3, <1>4

LEMMA BeginBase ==
    ASSUME Base, NEW o \in Importer, NEW w, Begins(o, w)
    PROVE  Base'
  <1>1. /\ op' = [q \in Importer |-> op'[q]] /\ op'[o] = w /\ \A q \in Importer \ {o} : op'[q] = op[q]
        /\ w \in Requests /\ w.seen \notin w.todo /\ w.seen = None /\ w.map = [x \in Im!Row |-> None]
        /\ w.links = IF Im!Zipfast THEN {d \in Folder : export.up[d] # None} ELSE {}
        /\ UNCHANGED <<how, export, db, edits, raced>>
    BY BeginsTo DEF Base, Begins
  <1>2. ImportType'
    <2>1. \A q \in Importer : op'[q] = Im!Idle \/ op'[q] \in Requests
      BY <1>1 DEF Base, ImportType
    <2>2. \A q \in Importer : op'[q] # Im!Idle => op'[q].seen \notin op'[q].todo
      BY <1>1 DEF Base, ImportType
    <2>3. \A q \in Importer : op'[q] # Im!Idle /\ how' = "zipfast4" => op'[q].seen = None
      BY <1>1 DEF Base, ImportType
    <2>4. Linked'
      BY <1>1 DEF Base, ImportType, Linked, Im!Folders
    <2> QED BY <1>1, <2>1, <2>2, <2>3, <2>4 DEF Base, ImportType
  <1>3. Mapped'
    <2>1. ASSUME NEW q \in Importer, op'[q] # Im!Idle, NEW x \in Im!Row
          PROVE  op'[q].map[x] \in {None, Written(q, x)} \/ (x \in User /\ op'[q].map[x] = Me)
      BY <2>1, <1>1 DEF Base, Mapped
    <2>2. ASSUME NEW q \in Importer, op'[q] # Im!Idle, NEW d \in op'[q].links
          PROVE  export.up[d] # None /\ (how = "zipline4" => op'[q].map[d] = Written(q, d))
      <3>1. CASE q = o
        <4>1. Im!Zipfast /\ export.up[d] # None
          BY <3>1, <2>2, <1>1
        <4> QED BY <4>1 DEF Im!Zipfast
      <3>2. CASE q # o
        BY <3>2, <2>2, <1>1 DEF Base, Mapped
      <3> QED BY <3>1, <3>2
    <2>3. ASSUME NEW p \in DOMAIN db'
          PROVE  IF Im!Zipfast THEN p.by = Kept ELSE p.by \in Importer /\ op'[p.by] # Im!Idle
      <3>1. w # Im!Idle
        BY <1>1 DEF Requests, Im!Idle
      <3> QED BY <3>1, <1>1 DEF Base, Mapped
    <2> QED BY <2>1, <2>2, <2>3, <1>1, SameWords DEF Mapped
  <1> QED BY <1>2, <1>3 DEF Base

LEMMA EditBase ==
    ASSUME Base, UNCHANGED <<how, export, op>>, edits' \in Nat, raced' \in BOOLEAN,
           db' \in [DOMAIN db' -> Rec], DOMAIN db' \subseteq DOMAIN db, Linked'
    PROVE  Base'
  <1>1. ImportType'
    BY DEF Base, ImportType
  <1>2. Mapped'
    BY SameWords DEF Base, Mapped
  <1> QED BY <1>1, <1>2 DEF Base

LEMMA MoveBase ==
    ASSUME Base, NEW p, NEW q, Moves(p, q)
    PROVE  Base'
  <1>1. /\ DOMAIN db' = DOMAIN db /\ p \in Im!Folders /\ q \in Im!Folders \union {None}
        /\ db' \in [DOMAIN db' -> Rec]
        /\ \A r \in DOMAIN db : db'[r].owner = db[r].owner /\ db'[r].up = IF r = p THEN q ELSE db[r].up
        /\ edits' = edits + 1 /\ UNCHANGED <<how, export, op>>
        /\ raced' = (raced \/ \E o \in Importer : Im!Running(o))
    BY MovedRows DEF Base
  <1>2. Linked'
    BY <1>1 DEF Base, ImportType, Linked, Im!Folders
  <1>3. edits' \in Nat /\ raced' \in BOOLEAN
    BY <1>1 DEF Base, ImportType
  <1> QED BY <1>1, <1>2, <1>3, EditBase

LEMMA LeaveBase ==
    ASSUME Base, NEW u, Leaves(u)
    PROVE  Base'
  <1>1. /\ DOMAIN db' \subseteq DOMAIN db /\ db' \in [DOMAIN db' -> Rec]
        /\ \A q \in DOMAIN db \ DOMAIN db' : q = u \/ (db[q].owner = u /\ q.of \notin User)
        /\ \A q \in DOMAIN db' :
             /\ db'[q].owner = IF db[q].owner = u THEN None ELSE db[q].owner
             /\ db'[q].up = IF db[q].up \in DOMAIN db \ DOMAIN db' THEN None ELSE db[q].up
        /\ u \in DOMAIN db /\ u.of \in User
        /\ edits' = edits + 1 /\ UNCHANGED <<how, export, op>>
        /\ raced' = (raced \/ \E o \in Importer : Im!Running(o))
    BY LeftRows DEF Base
  <1>2. Linked'
    <2>1. \A q \in DOMAIN db' : db'[q].owner \in {v \in DOMAIN db' : v.of \in User} \union {Me, None}
      BY <1>1 DEF Base, ImportType, Linked
    <2>2. \A q \in Im!Folders' : db'[q].up \in Im!Folders' \union {None}
      BY <1>1 DEF Base, ImportType, Linked, Im!Folders
    <2> QED BY <2>1, <2>2 DEF Linked
  <1>3. edits' \in Nat /\ raced' \in BOOLEAN
    BY <1>1 DEF Base, ImportType
  <1> QED BY <1>1, <1>2, <1>3, EditBase

(* Every step keeps the types and the map.                                   *)
LEMMA BaseInit ==
    ASSUME Im!Init
    PROVE  Base
  <1>1. /\ how \in Hows /\ export \in Exports /\ db = <<>> /\ edits = 0 /\ raced = FALSE
        /\ op = [o \in Importer |-> Im!Idle]
    BY DEF Im!Init
  <1>2. DOMAIN db = {} /\ db \in [DOMAIN db -> Rec]
    BY <1>1
  <1>3. how \in {"zipline4", "zipline3", "zipfast4"} /\ export \in Im!Export /\ Im!Trees(export)
    BY <1>1, ImportFacts
  <1> QED BY <1>1, <1>2, <1>3 DEF Base, ImportType, Mapped, Linked, Im!Folders

LEMMA StopBase ==
    ASSUME Base, NEW o \in Importer, NEW w, Stops(o, w)
    PROVE  Base'
  <1>1. Goes(o, w) /\ UNCHANGED db
    BY DEF Stops
  <1>2. op[o] \in Requests /\ op[o] # Im!Idle
    BY <1>1, GoesTo DEF Base, Goes
  <1>3. w.map = op[o].map /\ w.links \subseteq op[o].links /\ w.seen = op[o].seen
    BY <1>2 DEF Stops, Requests
  <1>4. w.seen # None => ~Im!Zipfast
    BY <1>2, <1>3 DEF Base, ImportType, Im!Zipfast
  <1> QED BY <1>1, <1>3, <1>4, SameRowsBase

LEMMA DropBase ==
    ASSUME Base, NEW o \in Importer, NEW x, NEW w, Drops(o, x, w)
    PROVE  Base'
  <1>1. Goes(o, w) /\ UNCHANGED db
    BY DEF Drops
  <1>2. op[o] \in Requests
    BY <1>1 DEF Goes
  <1>3. w.map = op[o].map /\ w.links \subseteq op[o].links /\ w.seen = None
    BY <1>2 DEF Drops, Requests
  <1> QED BY <1>1, <1>3, SameRowsBase

LEMMA BaseStep ==
    ASSUME Base, [Im!Next]_(Im!vars)
    PROVE  Base'
  <1>1. CASE UNCHANGED Im!vars
    BY <1>1, SameWords DEF Im!vars, Base, ImportType, Mapped, Linked, Im!Folders
  <1>2. ASSUME NEW o \in Importer, Does(o) PROVE Base'
    BY <1>2, LookBase, MakeBase, JoinBase, BeginBase, StopBase, DropBase DEF Does
  <1>3. CASE Im!Next
    BY <1>2, <1>3, ImportSteps, MoveBase, LeaveBase DEF Base
  <1> QED BY <1>1, <1>3

-----------------------------------------------------------------------------
(* A row comes over once.                                                    *)
LEMMA OnceInit ==
    ASSUME Im!Init
    PROVE  OnceInv
  <1>1. db = <<>> /\ op = [o \in Importer |-> Im!Idle]
    BY DEF Im!Init
  <1>2. DOMAIN db = {}
    BY <1>1
  <1> QED BY <1>1, <1>2 DEF OnceInv, SeenOwned, UsersOnce, TagsOnce, OwnersMakers, FilesOnce

LEMMA OnceFacts ==
    ASSUME Base, OnceInv, ~Im!Zipfast
    PROVE  SeenOwned /\ UsersOnce /\ TagsOnce /\ OwnersMakers /\ FilesOnce
  BY DEF OnceInv

(* The owner of a row that a request writes.                                 *)
LEMMA OwnerFacts ==
    ASSUME Base, ~Im!Zipfast, NEW o \in Importer, op[o] # Im!Idle, NEW x \in Im!Row
    PROVE  LET u == [by |-> o, of |-> export.owner[x]] IN
           \/ Im!Owner(o, x) \in {Me, None}
           \/ Im!Owner(o, x) = u /\ export.owner[x] \in User
  <1>1. export.owner[x] \in User \union {None}
    BY DEF Base, ImportType, Im!Export
  <1>2. CASE export.owner[x] \in User
    <2>1. export.owner[x] \in Im!Row
      BY <1>2, RowKinds
    <2>2. op[o].map[export.owner[x]] \in {Me, None, Written(o, export.owner[x])}
      BY <2>1 DEF Base, Mapped
    <2> QED BY <1>2, <2>1, <2>2, FreshId DEF Base, Im!Owner, Im!Owned
  <1>3. CASE export.owner[x] = None
    BY <1>3 DEF Im!Owner, Im!Owned
  <1> QED BY <1>1, <1>2, <1>3

(* No row is written and no owner changes.                                   *)
LEMMA OnceSame ==
    ASSUME Base, OnceInv, UNCHANGED <<how, export>>, DOMAIN db' = DOMAIN db,
           \A p \in DOMAIN db : db'[p].owner = db[p].owner,
           \A q \in Importer : op'[q] # Im!Idle =>
             \/ op'[q].seen \notin Im!Row \ User
             \/ op[q] # Im!Idle /\ op'[q].seen = op[q].seen /\ op'[q].map = op[q].map
             \/ /\ op[q] # Im!Idle /\ op'[q].map = op[q].map /\ Im!Owner(q, op'[q].seen) # None
                /\ op'[q].seen \in File => ~Im!InUse(op'[q].seen)
    PROVE  OnceInv'
  <1> SUFFICES ASSUME ~Im!Zipfast
               PROVE  SeenOwned' /\ UsersOnce' /\ TagsOnce' /\ OwnersMakers' /\ FilesOnce'
    BY SameWords DEF OnceInv
  <1>1. SeenOwned /\ UsersOnce /\ TagsOnce /\ OwnersMakers /\ FilesOnce
    BY OnceFacts
  <1>2. \A q, x : op'[q].map = op[q].map => Im!Owner(q, x)' = Im!Owner(q, x)
    BY DEF Im!Owner, Im!Owned
  <1>3. SeenOwned'
    BY <1>1, <1>2 DEF SeenOwned
  <1>4. UsersOnce' /\ TagsOnce'
    BY <1>1 DEF UsersOnce, TagsOnce
  <1>5. OwnersMakers'
    BY <1>1, SameWords DEF OwnersMakers
  <1>6. FilesOnce'
    <2>1. \A p, q \in DOMAIN db' : p.of \in File /\ q.of = p.of /\ q # p /\ db'[p].owner = None => db'[q].owner = Me
      BY <1>1 DEF FilesOnce
    <2>2. ASSUME NEW o \in Importer, op'[o] # Im!Idle, op'[o].seen \in File,
                 Im!Owner(o, op[o].seen)' \in DOMAIN db', NEW q \in DOMAIN db', q.of = op'[o].seen
          PROVE  db'[q].owner = Me
      <3>1. op'[o].seen \in Im!Row \ User
        BY <2>2, RowKinds, RowSplit
      <3>2. CASE op[o] # Im!Idle /\ op'[o].seen = op[o].seen /\ op'[o].map = op[o].map
        <4>1. Im!Owner(o, op[o].seen)' = Im!Owner(o, op[o].seen)
          BY <3>2 DEF Im!Owner, Im!Owned
        <4> QED BY <1>1, <2>2, <3>2, <4>1 DEF FilesOnce
      <3>3. CASE ~Im!InUse(op'[o].seen)
        BY <2>2, <3>3 DEF Im!InUse, Im!Ids
      <3> QED BY <2>2, <3>1, <3>2, <3>3
    <2> QED BY <2>1, <2>2 DEF FilesOnce
  <1> QED BY <1>3, <1>4, <1>5, <1>6

LEMMA BeginOnce ==
    ASSUME Base, OnceInv, NEW o \in Importer, NEW w, Begins(o, w)
    PROVE  OnceInv'
  <1>1. /\ op'[o] = w /\ (\A q \in Importer \ {o} : op'[q] = op[q]) /\ w.seen = None
        /\ UNCHANGED <<how, export, db>>
    BY BeginsTo DEF Base, Begins
  <1>2. None \notin Im!Row
    BY ImportFacts
  <1> QED BY <1>1, <1>2, OnceSame

(* The request keeps what it sees, or sees nothing.                          *)
LEMMA GoOnce ==
    ASSUME Base, OnceInv, NEW o \in Importer, NEW w, Goes(o, w), DOMAIN db' = DOMAIN db,
           \A p \in DOMAIN db : db'[p].owner = db[p].owner,
           w.seen = None \/ w.seen \in User \/ (w.map = op[o].map /\ (w.seen = op[o].seen
             \/ (Im!Owner(o, w.seen) # None /\ (w.seen \in File => ~Im!InUse(w.seen)))))
    PROVE  OnceInv'
  <1>1. /\ op'[o] = w /\ (\A q \in Importer \ {o} : op'[q] = op[q]) /\ op[o] # Im!Idle
        /\ UNCHANGED <<how, export>>
    BY GoesTo DEF Base, Goes
  <1>2. None \notin Im!Row
    BY ImportFacts
  <1>3. \A q \in Importer : op'[q] # Im!Idle =>
             \/ op'[q].seen \notin Im!Row \ User
             \/ op[q] # Im!Idle /\ op'[q].seen = op[q].seen /\ op'[q].map = op[q].map
             \/ /\ op[q] # Im!Idle /\ op'[q].map = op[q].map /\ Im!Owner(q, op'[q].seen) # None
                /\ op'[q].seen \in File => ~Im!InUse(op'[q].seen)
    BY <1>1, <1>2
  <1> QED BY <1>1, <1>3, OnceSame

LEMMA LookOnce ==
    ASSUME Base, OnceInv, NEW o \in Importer, NEW x \in Im!Row, NEW w, Looks(o, x, w)
    PROVE  OnceInv'
  <1>1. x \in File /\ Im!InUse(x) => Im!Exists(o, x)
    BY DEF Im!Exists, Im!FileExists
  <1> QED BY <1>1, GoOnce DEF Looks

LEMMA StopOnce ==
    ASSUME Base, OnceInv, NEW o \in Importer, NEW w, Stops(o, w)
    PROVE  OnceInv'
  <1>1. Goes(o, w) /\ UNCHANGED db /\ op[o] \in Requests
    BY DEF Stops, Goes
  <1>2. w.seen = op[o].seen /\ w.map = op[o].map
    BY <1>1 DEF Stops, Requests
  <1> QED BY <1>1, <1>2, GoOnce

LEMMA DropOnce ==
    ASSUME Base, OnceInv, NEW o \in Importer, NEW x, NEW w, Drops(o, x, w)
    PROVE  OnceInv'
  <1>1. Goes(o, w) /\ UNCHANGED db /\ op[o] \in Requests
    BY DEF Drops, Goes
  <1>2. w.seen = None
    BY <1>1 DEF Drops, Requests
  <1> QED BY <1>1, <1>2, GoOnce

LEMMA JoinOnce ==
    ASSUME Base, OnceInv, NEW o \in Importer, NEW d \in Folder, NEW w, Joins(o, d, w)
    PROVE  OnceInv'
  <1>1. Goes(o, w) /\ op[o] \in Requests
    BY DEF Joins, Goes
  <1>2. w.seen = op[o].seen /\ w.map = op[o].map
    BY <1>1 DEF Joins, Requests
  <1>3. DOMAIN db' = DOMAIN db /\ \A p \in DOMAIN db : db'[p].owner = db[p].owner
    BY JoinedRows DEF Base
  <1> QED BY <1>1, <1>2, <1>3, GoOnce

LEMMA MoveOnce ==
    ASSUME Base, OnceInv, NEW p, NEW q, Moves(p, q)
    PROVE  OnceInv'
  <1>1. /\ DOMAIN db' = DOMAIN db /\ (\A r \in DOMAIN db : db'[r].owner = db[r].owner)
        /\ UNCHANGED <<how, export, op>>
    BY MovedRows DEF Base
  <1> QED BY <1>1, OnceSame

(* A user or a tag is written when there is none; a file whose user was made *)
(* by another request finds its own user gone.                               *)
LEMMA MakeOnce ==
    ASSUME Base, OnceInv, NEW o \in Importer, NEW x \in Im!Row, NEW w, Makes(o, x, w)
    PROVE  OnceInv'
  <1> SUFFICES ASSUME ~Im!Zipfast
               PROVE  SeenOwned' /\ UsersOnce' /\ TagsOnce' /\ OwnersMakers' /\ FilesOnce'
    BY SameWords DEF OnceInv, Makes, Goes
  <1> DEFINE p == Written(o, x)
             u == export.owner[x]
  <1>1. SeenOwned /\ UsersOnce /\ TagsOnce /\ OwnersMakers /\ FilesOnce
    BY OnceFacts
  <1>2. /\ op'[o] = w /\ (\A q \in Importer \ {o} : op'[q] = op[q]) /\ op[o] # Im!Idle
        /\ UNCHANGED <<how, export>> /\ op[o].seen = x /\ w.seen = None
    BY GoesTo DEF Base, Makes, Goes
  <1>3. /\ DOMAIN db' = DOMAIN db \union {p} /\ p.of = x
        /\ db'[p].owner = IF x \in User THEN None ELSE Im!Owner(o, x)
        /\ db'[p].owner \in DOMAIN db \union {Me, None}
        /\ \A q \in DOMAIN db : q # p => db'[q].owner = db[q].owner
    BY MadeRow DEF Base
  <1>4. p = [by |-> o, of |-> x] /\ p.by = o
    BY FreshId DEF Base
  <1>5. x \in User \union Tag => \A q \in DOMAIN db : q.of # x
    BY DEF Makes, MadeOf, Im!InUse, Im!Ids
  <1>6. x \notin User => Im!Owner(o, x) \in {Me, [by |-> o, of |-> u]}
    BY <1>1, <1>2, OwnerFacts DEF SeenOwned
  <1>7. x \notin User => db'[p].owner \in {Me, [by |-> o, of |-> u]} /\ db'[p].owner # None
    BY <1>1, <1>2, <1>3, <1>6 DEF SeenOwned
  <1> HIDE DEF p, u
  <1>8. SeenOwned'
    <2> SUFFICES ASSUME NEW q \in Importer, op'[q] # Im!Idle, op'[q].seen \in Im!Row \ User
                 PROVE  Im!Owner(q, op[q].seen)' # None
      BY DEF SeenOwned
    <2>1. q # o
      BY <1>2, ImportFacts
    <2>2. op'[q] = op[q] /\ Im!Owner(q, op[q].seen)' = Im!Owner(q, op[q].seen)
      BY <1>2, <2>1 DEF Im!Owner, Im!Owned
    <2> QED BY <1>1, <2>2 DEF SeenOwned
  <1>9. UsersOnce' /\ TagsOnce'
    BY <1>1, <1>3, <1>5 DEF UsersOnce, TagsOnce
  <1>10. OwnersMakers'
    <2> SUFFICES ASSUME NEW q \in DOMAIN db', q.of \notin User
                 PROVE  /\ db'[q].owner \in {Me, None, [by |-> q.by, of |-> export.owner[q.of]]}
                        /\ db'[q].owner = None => Im!Kind(q.of) \in {"file", "tag", "url"}
      BY <1>2, SameWords DEF OwnersMakers
    <2>1. CASE q = p
      BY <1>3, <1>4, <1>7, <2>1 DEF u
    <2>2. CASE q # p
      BY <1>1, <1>3, <2>2 DEF OwnersMakers
    <2> QED BY <2>1, <2>2
  <1>11. FilesOnce'
    <2>1. ASSUME x \in File, NEW q \in DOMAIN db, q.of = x, q # p
          PROVE  db[q].owner = Me \/ db'[p].owner = Me
      <3>1. x \notin User
        BY <2>1, RowSplit
      <3>2. CASE Im!Owner(o, x) \in DOMAIN db
        BY <1>1, <1>2, <2>1, <3>2 DEF FilesOnce
      <3>3. CASE Im!Owner(o, x) \notin DOMAIN db
        <4>1. db'[p].owner = Me
          BY <1>3, <1>7, <3>1, <3>3
        <4>2. db'[p].owner = Im!Owner(o, x)
          BY <1>3, <3>1
        <4> QED BY <4>1, <4>2
      <3> QED BY <3>2, <3>3
    <2>2. ASSUME NEW r \in DOMAIN db', NEW q \in DOMAIN db', r.of \in File, q.of = r.of, q # r, db'[r].owner = None
          PROVE  db'[q].owner = Me
      <3>1. CASE r = p
        BY <1>3, <1>7, <2>2, <3>1, RowSplit
      <3>2. CASE r # p /\ q = p
        BY <1>3, <2>1, <2>2, <3>2, ImportFacts
      <3>3. CASE r # p /\ q # p
        BY <1>1, <1>3, <2>2, <3>3 DEF FilesOnce
      <3> QED BY <3>1, <3>2, <3>3
    <2>3. ASSUME NEW e \in Importer, op'[e] # Im!Idle, op'[e].seen \in File,
                 Im!Owner(e, op[e].seen)' \in DOMAIN db', NEW q \in DOMAIN db', q.of = op'[e].seen
          PROVE  db'[q].owner = Me
      <3>1. e # o /\ op'[e] = op[e]
        BY <1>2, <2>3, ImportFacts, RowKinds
      <3>2. Im!Owner(e, op[e].seen)' = Im!Owner(e, op[e].seen)
        BY <1>2, <3>1 DEF Im!Owner, Im!Owned
      <3> DEFINE y == op[e].seen
                 v == Im!Owner(e, y)
      <3>3. y \in Im!Row /\ y \in File /\ op[e] # Im!Idle
        BY <2>3, <3>1, RowKinds
      <3>4. v \in {Me, None} \/ (v = [by |-> e, of |-> export.owner[y]] /\ export.owner[y] \in User)
        BY <3>3, OwnerFacts
      <3>5. v # p
        BY <1>4, <3>1, <3>4, ImportFacts, FreshId DEF p, Base
      <3>6. v \in DOMAIN db
        BY <1>3, <2>3, <3>2, <3>5
      <3>7. CASE q # p
        BY <1>1, <1>3, <2>3, <3>1, <3>3, <3>6, <3>7 DEF FilesOnce
      <3>8. CASE q = p
        <4>1. y = x /\ x \notin User
          BY <1>3, <2>3, <3>1, <3>3, <3>8, RowSplit
        <4>2. v = [by |-> e, of |-> u] /\ u \in User
          BY <3>4, <3>6, <4>1, ImportFacts DEF u, Base, ImportType
        <4>3. ASSUME db'[p].owner # Me PROVE FALSE
          <5>1. db'[p].owner = [by |-> o, of |-> u] /\ db'[p].owner \in DOMAIN db
            BY <1>3, <1>7, <4>1, <4>3
          <5>2. [by |-> o, of |-> u] # [by |-> e, of |-> u]
            BY <3>1
          <5> QED BY <1>1, <3>6, <4>2, <5>1, <5>2 DEF UsersOnce
        <4> QED BY <3>8, <4>3
      <3> QED BY <3>7, <3>8
    <2> QED BY <2>2, <2>3 DEF FilesOnce
  <1> QED BY <1>8, <1>9, <1>10, <1>11

LEMMA LeaveOnce ==
    ASSUME Base, OnceInv, NEW u, Leaves(u)
    PROVE  OnceInv'
  <1> SUFFICES ASSUME ~Im!Zipfast
               PROVE  SeenOwned' /\ UsersOnce' /\ TagsOnce' /\ OwnersMakers' /\ FilesOnce'
    BY SameWords, LeftRows DEF OnceInv, Base
  <1>1. SeenOwned /\ UsersOnce /\ TagsOnce /\ OwnersMakers /\ FilesOnce
    BY OnceFacts
  <1>2. /\ DOMAIN db' \subseteq DOMAIN db /\ u \in DOMAIN db /\ u # Me /\ u # None
        /\ \A q \in DOMAIN db' :
             /\ db'[q].owner = IF db[q].owner = u THEN None ELSE db[q].owner
             /\ db[q].owner = u =>
                 Im!Kind(q.of) \notin {"oauth", "quota", "passkey", "folder", "invite"}
        /\ UNCHANGED <<how, export, op>>
    BY LeftRows, ImportFacts DEF Base, ImportType
  <1>3. SeenOwned'
    BY <1>1, <1>2 DEF SeenOwned, Im!Owner, Im!Owned
  <1>4. UsersOnce' /\ TagsOnce'
    BY <1>1, <1>2 DEF UsersOnce, TagsOnce
  <1>5. OwnersMakers'
    <2> SUFFICES ASSUME NEW q \in DOMAIN db', q.of \notin User
                 PROVE  /\ db'[q].owner \in {Me, None, [by |-> q.by, of |-> export.owner[q.of]]}
                        /\ db'[q].owner = None => Im!Kind(q.of) \in {"file", "tag", "url"}
      BY <1>2, SameWords DEF OwnersMakers
    <2>1. q.of \in Im!Row
      BY <1>2 DEF Base, ImportType, Im!Id
    <2>2. Im!Kind(q.of) \in {"folder", "file", "tag", "oauth", "quota", "passkey", "url", "invite"}
      BY <2>1, RowKinds, RowSplit DEF Base, ImportType, Im!Export, Im!ItemKinds
    <2> QED BY <1>1, <1>2, <2>2 DEF OwnersMakers
  <1>6. FilesOnce'
    <2>1. ASSUME NEW p \in DOMAIN db', NEW q \in DOMAIN db', p.of \in File, q.of = p.of, q # p, db'[p].owner = None
          PROVE  db'[q].owner = Me
      <3>1. p.of \notin User /\ p \in DOMAIN db /\ q \in DOMAIN db
        BY <1>2, <2>1, RowKinds, RowSplit
      <3>2. CASE db[p].owner = None
        BY <1>1, <1>2, <2>1, <3>1, <3>2 DEF FilesOnce
      <3>3. CASE db[p].owner = u
        <4> DEFINE v == export.owner[p.of]
        <4>1. u = [by |-> p.by, of |-> v]
          BY <1>1, <1>2, <3>1, <3>3 DEF OwnersMakers
        <4>2. db[q].owner # None
          BY <1>1, <1>2, <2>1, <3>1, <3>3 DEF FilesOnce
        <4>3. CASE db[q].owner = [by |-> q.by, of |-> v]
          <5>1. p.by # q.by
            BY <2>1, <3>1 DEF Base, ImportType, Im!Id
          <5>2. db[q].owner \in DOMAIN db /\ db[q].owner.of = v /\ db[q].owner # u /\ u.of = v /\ v \in User
            <6>1. db[q].owner # u
              BY <4>1, <4>3, <5>1
            <6>2. db[q].owner \in {t \in DOMAIN db : t.of \in User} \union {Me, None}
              BY <3>1 DEF Base, ImportType, Linked
            <6>3. db[q].owner \in Im!Id
              <7>1. v \in User
                BY LeftRows, <4>1 DEF Base
              <7>2. q.by \in Importer
                BY <3>1 DEF Base, Mapped
              <7> QED BY <4>3, <7>1, <7>2, RowKinds DEF Im!Id
            <6>4. u.of = v /\ u.of \in User /\ db[q].owner.of = v
              BY <4>1, <4>3, LeftRows DEF Base
            <6> QED BY <6>1, <6>2, <6>3, <6>4, ImportFacts
          <5> QED BY <1>1, <1>2, <5>2 DEF UsersOnce
        <4>4. CASE db[q].owner = Me
          BY <1>2, <2>1, <4>4
        <4> QED BY <1>1, <2>1, <3>1, <4>2, <4>3, <4>4 DEF OwnersMakers
      <3> QED BY <1>2, <2>1, <3>2, <3>3
    <2>2. ASSUME NEW e \in Importer, op'[e] # Im!Idle, op'[e].seen \in File,
                 Im!Owner(e, op[e].seen)' \in DOMAIN db', NEW q \in DOMAIN db', q.of = op'[e].seen
          PROVE  db'[q].owner = Me
      <3>1. Im!Owner(e, op[e].seen)' = Im!Owner(e, op[e].seen)
        BY <1>2 DEF Im!Owner, Im!Owned
      <3>2. db[q].owner = Me
        BY <1>1, <1>2, <2>2, <3>1 DEF FilesOnce
      <3> QED BY <1>2, <2>2, <3>2
    <2> QED BY <2>1, <2>2 DEF FilesOnce
  <1> QED BY <1>3, <1>4, <1>5, <1>6

LEMMA OnceStep ==
    ASSUME Base, OnceInv, [Im!Next]_(Im!vars)
    PROVE  OnceInv'
  <1>1. CASE UNCHANGED Im!vars
    BY <1>1, OnceSame DEF Im!vars
  <1>2. ASSUME NEW o \in Importer, Does(o) PROVE OnceInv'
    BY <1>2, LookOnce, MakeOnce, JoinOnce, BeginOnce, StopOnce, DropOnce DEF Does
  <1>3. CASE Im!Next
    BY <1>2, <1>3, ImportSteps, MoveOnce, LeaveOnce DEF Base
  <1> QED BY <1>1, <1>3

LEMMA OnceHolds ==
    ASSUME Base, OnceInv
    PROVE  Im!UnmergedOnce
  <1> SUFFICES ASSUME NEW p \in DOMAIN db, NEW q \in DOMAIN db, p # q, p.of = q.of
               PROVE  \/ Me \in {db[p].owner, db[q].owner}
                      \/ Im!Kind(p.of) = "url" /\ None \in {db[p].owner, db[q].owner}
    BY DEF Im!UnmergedOnce
  <1> DEFINE u == export.owner[p.of]
  <1>1. p \in Im!Id /\ q \in Im!Id /\ p.by # q.by /\ p.of \in Im!Row
    BY DEF Base, ImportType, Im!Id
  <1>2. ~Im!Zipfast
    BY <1>1 DEF Base, Mapped
  <1>3. SeenOwned /\ UsersOnce /\ TagsOnce /\ OwnersMakers /\ FilesOnce
    BY <1>2, OnceFacts
  <1>4. p.of \notin User /\ p.of \notin Tag
    BY <1>3 DEF UsersOnce, TagsOnce
  <1>5. /\ db[p].owner \in {Me, None, [by |-> p.by, of |-> u]}
        /\ db[q].owner \in {Me, None, [by |-> q.by, of |-> u]}
        /\ None \in {db[p].owner, db[q].owner} => Im!Kind(p.of) \in {"file", "tag", "url"}
    BY <1>3, <1>4 DEF OwnersMakers
  <1>6. CASE {db[p].owner, db[q].owner} \intersect {Me, None} = {}
    <2>1. db[p].owner = [by |-> p.by, of |-> u] /\ db[q].owner = [by |-> q.by, of |-> u]
      BY <1>5, <1>6
    <2>2. db[p].owner # db[q].owner /\ db[p].owner.of = u /\ db[q].owner.of = u
      BY <1>1, <2>1
    <2>3. /\ db[p].owner \in {t \in DOMAIN db : t.of \in User}
          /\ db[q].owner \in {t \in DOMAIN db : t.of \in User}
      BY <1>6 DEF Base, ImportType, Linked
    <2> QED BY <1>3, <2>2, <2>3 DEF UsersOnce
  <1>7. CASE None \in {db[p].owner, db[q].owner}
    <2>1. CASE p.of \in File
      BY <1>3, <1>7, <2>1 DEF FilesOnce
    <2>2. CASE p.of \notin File
      <3>1. Im!Kind(p.of) # "file" /\ Im!Kind(p.of) # "tag"
        BY <1>1, <1>4, <2>2, RowKinds, RowSplit DEF Base, ImportType, Im!Export, Im!ItemKinds
      <3> QED BY <1>5, <1>7, <3>1
    <2> QED BY <2>1, <2>2
  <1> QED BY <1>5, <1>6, <1>7

-----------------------------------------------------------------------------
(* The folders of an import form trees.                                      *)
LEMMA TreeInit ==
    ASSUME Im!Init
    PROVE  TreeInv
  <1>1. db = <<>>
    BY DEF Im!Init
  <1>2. Im!Folders = {}
    BY <1>1 DEF Im!Folders
  <1> QED BY <1>2 DEF TreeInv, HangAsExported, NoRing

(* The folders that are left have no new parents.                            *)
LEMMA FewerNoRing ==
    ASSUME Base', NoRing,
           \A p \in Im!Folders' : db'[p].up = None \/ (p \in Im!Folders /\ db'[p].up = db[p].up)
    PROVE  NoRing'
  <1> SUFFICES ASSUME NEW S \in SUBSET Im!Folders', S # {}, \A p \in S : db'[p].up \in S
               PROVE  FALSE
    BY DEF NoRing
  <1>1. None \notin S
    BY ImportFacts DEF Base, ImportType, Im!Folders
  <1>2. S \subseteq Im!Folders /\ \A p \in S : db[p].up = db'[p].up
    BY <1>1
  <1> QED BY <1>2 DEF NoRing

(* A step of a request that makes no folder hang elsewhere.                  *)
LEMMA GoTree ==
    ASSUME Base, Base', TreeInv, NEW o \in Importer, NEW w, Goes(o, w),
           \A p \in Im!Folders' : db'[p].up = None \/ (p \in Im!Folders /\ db'[p].up = db[p].up)
    PROVE  TreeInv'
  <1>1. /\ op'[o] = w /\ (\A q \in Importer \ {o} : op'[q] = op[q])
        /\ op[o].pc = "run" /\ UNCHANGED <<how, export, edits, raced>>
    BY GoesTo DEF Base, Goes
  <1>2. HangAsExported'
    <2>1. ASSUME ~raced, how = "zipline4", NEW p \in Im!Folders', op'[p.by].pc = "run"
          PROVE  db'[p].up \in {None, [by |-> p.by, of |-> export.up[p.of]]}
      <3>1. p.by \in Importer
        BY <1>1, <2>1 DEF Base, Mapped, Im!Folders, Im!Zipfast
      <3>2. op[p.by].pc = "run"
        BY <1>1, <2>1, <3>1
      <3> QED BY <2>1, <3>2 DEF TreeInv, HangAsExported
    <2>2. ASSUME Im!Zipfast, edits = 0, NEW p \in Im!Folders'
          PROVE  db'[p].up \in {None, [by |-> Kept, of |-> export.up[p.of]]}
      BY <2>2 DEF TreeInv, HangAsExported
    <2> QED BY <1>1, <2>1, <2>2, SameWords DEF HangAsExported
  <1>3. ~raced /\ (Im!Zipfast => edits = 0) => NoRing'
    BY FewerNoRing DEF TreeInv
  <1> QED BY <1>1, <1>2, <1>3, SameWords DEF TreeInv

LEMMA BeginTree ==
    ASSUME Base, TreeInv, NEW o \in Importer, NEW w, Begins(o, w)
    PROVE  TreeInv'
  <1>1. /\ op'[o] = w /\ (\A q \in Importer \ {o} : op'[q] = op[q]) /\ op[o] = Im!Idle
        /\ UNCHANGED <<how, export, edits, raced, db>>
    BY BeginsTo DEF Base, Begins
  <1>2. HangAsExported'
    <2>1. ASSUME ~raced, how = "zipline4", NEW p \in Im!Folders, op'[p.by].pc = "run"
          PROVE  db[p].up \in {None, [by |-> p.by, of |-> export.up[p.of]]}
      <3>1. p.by \in Importer /\ p.by # o
        BY <1>1, <2>1 DEF Base, Mapped, Im!Folders, Im!Zipfast
      <3> QED BY <1>1, <2>1, <3>1 DEF TreeInv, HangAsExported
    <2> QED BY <1>1, <2>1, SameWords DEF TreeInv, HangAsExported, Im!Folders
  <1> QED BY <1>1, <1>2, SameWords DEF TreeInv, NoRing, Im!Folders

LEMMA SameTree ==
    ASSUME Base, Base', TreeInv, NEW o \in Importer, NEW w, Goes(o, w), UNCHANGED db
    PROVE  TreeInv'
  <1>1. Im!Folders' = Im!Folders /\ \A p \in Im!Folders' : db'[p].up = db[p].up
    BY DEF Im!Folders
  <1> QED BY <1>1, GoTree

LEMMA MakeTree ==
    ASSUME Base, Base', TreeInv, NEW o \in Importer, NEW x \in Im!Row, NEW w, Makes(o, x, w)
    PROVE  TreeInv'
  <1> DEFINE p == Written(o, x)
  <1>1. /\ DOMAIN db' = DOMAIN db \union {p} /\ p.of = x /\ db'[p].up = Parent(o, x)
        /\ \A q \in DOMAIN db : q # p /\ q.of \notin File => db'[q].up = db[q].up
    BY MadeRow DEF Base
  <1> HIDE DEF p
  <1>2. ASSUME NEW q \in Im!Folders'
        PROVE  db'[q].up = None \/ (q \in Im!Folders /\ db'[q].up = db[q].up)
    <2>1. q \in DOMAIN db' /\ q.of \in Folder /\ q.of \notin File
      BY <1>2, RowKinds, RowSplit DEF Im!Folders
    <2>2. CASE q = p
      BY <1>1, <2>1, <2>2 DEF Parent
    <2>3. CASE q # p
      BY <1>1, <2>1, <2>3 DEF Im!Folders
    <2> QED BY <2>2, <2>3
  <1> QED BY <1>2, GoTree DEF Makes

LEMMA JoinTree ==
    ASSUME Base, Base', TreeInv, NEW o \in Importer, NEW d \in Folder, NEW w, Joins(o, d, w)
    PROVE  TreeInv'
  <1>1. CASE UNCHANGED db
    BY <1>1, SameTree DEF Joins
  <1>2. CASE db' # db
    <2> DEFINE p == Written(o, d)
               up == Written(o, export.up[d])
    <2>1. /\ DOMAIN db' = DOMAIN db /\ p \in DOMAIN db /\ up \in DOMAIN db /\ db'[p].up = up
          /\ \A q \in DOMAIN db : q # p => db'[q].up = db[q].up
      BY <1>2, JoinedRows DEF Base
    <2>2. /\ p.of = d /\ up = [by |-> p.by, of |-> export.up[d]] /\ (Im!Zipfast => p.by = Kept)
      BY RowKinds, FreshId DEF Base, Written
    <2>3. /\ op'[o] = w /\ (\A q \in Importer \ {o} : op'[q] = op[q])
          /\ op[o].pc = "run" /\ UNCHANGED <<how, export, edits, raced>>
      BY GoesTo DEF Base, Goes, Joins
    <2>4. Im!Folders' = Im!Folders
      BY <2>1 DEF Im!Folders
    <2>5. ~Im!Zipfast => p.by = o /\ how = "zipline4"
      BY RowKinds, FreshId DEF Base, ImportType, Joins, Im!Zipfast
    <2> HIDE DEF p, up
    <2>6. HangAsExported'
      <3>1. ASSUME ~raced, how = "zipline4", NEW q \in Im!Folders, op'[q.by].pc = "run"
            PROVE  db'[q].up \in {None, [by |-> q.by, of |-> export.up[q.of]]}
        <4>1. q.by \in Importer /\ q \in DOMAIN db
          BY <2>3, <3>1 DEF Base, Mapped, Im!Folders, Im!Zipfast
        <4>2. op[q.by].pc = "run"
          BY <2>3, <3>1, <4>1
        <4>3. CASE q = p
          BY <2>1, <2>2, <4>3
        <4>4. CASE q # p
          BY <2>1, <3>1, <4>1, <4>2, <4>4 DEF TreeInv, HangAsExported
        <4> QED BY <4>3, <4>4
      <3>2. ASSUME Im!Zipfast, edits = 0, NEW q \in Im!Folders
            PROVE  db'[q].up \in {None, [by |-> Kept, of |-> export.up[q.of]]}
        <4>1. CASE q = p
          BY <2>1, <2>2, <3>2, <4>1
        <4>2. CASE q # p
          BY <2>1, <3>2, <4>2 DEF TreeInv, HangAsExported, Im!Folders
        <4> QED BY <4>1, <4>2
      <3> QED BY <2>3, <2>4, <3>1, <3>2, SameWords DEF HangAsExported
    <2>7. ASSUME ~raced, Im!Zipfast => edits = 0
          PROVE  NoRing'
      <3> SUFFICES ASSUME NEW S \in SUBSET Im!Folders, S # {}, \A q \in S : db'[q].up \in S
                   PROVE  FALSE
        BY <2>4 DEF NoRing
      <3>1. p \in S
        <4>1. p \notin S => \A q \in S : db[q].up \in S
          BY <2>1 DEF Im!Folders
        <4> QED BY <2>7, <4>1 DEF TreeInv, NoRing
      <3> DEFINE T == {e \in Folder : [by |-> p.by, of |-> e] \in S}
      <3>2. d \in T
        <4>1. p = [by |-> p.by, of |-> d]
          BY <2>1, <2>2 DEF Base, ImportType, Im!Id
        <4> QED BY <3>1, <4>1
      <3>3. ASSUME NEW e \in T PROVE export.up[e] \in T
        <4> DEFINE r == [by |-> p.by, of |-> e]
        <4>1. r \in S /\ r \in Im!Folders /\ r.by = p.by /\ r.of = e
          BY <3>3
        <4>2. db'[r].up \in {None, [by |-> p.by, of |-> export.up[e]]}
          <5>1. CASE Im!Zipfast
            BY <2>2, <2>3, <2>4, <2>6, <2>7, <4>1, <5>1, SameWords DEF HangAsExported
          <5>2. CASE ~Im!Zipfast
            <6>1. op'[p.by].pc = "run"
              <7>1. w.pc = "run"
                BY DEF Joins, Goes
              <7> QED BY <2>3, <2>5, <5>2, <7>1
            <6> QED BY <2>3, <2>4, <2>5, <2>6, <2>7, <4>1, <5>2, <6>1 DEF HangAsExported
          <5> QED BY <5>1, <5>2
        <4>3. db'[r].up \in S /\ db'[r].up # None
          BY <4>1, ImportFacts DEF Base, ImportType, Im!Folders
        <4>4. [by |-> p.by, of |-> export.up[e]] \in Im!Folders
          BY <4>2, <4>3
        <4>5. export.up[e] \in Folder
          BY <4>4 DEF Im!Folders
        <4> QED BY <4>2, <4>3, <4>5
      <3>4. Im!Trees(export)
        BY DEF Base, ImportType
      <3> HIDE DEF T
      <3>5. T \subseteq Folder
        BY DEF T
      <3> QED BY <3>2, <3>3, <3>4, <3>5 DEF Im!Trees
    <2> QED BY <2>3, <2>6, <2>7, SameWords DEF TreeInv
  <1> QED BY <1>1, <1>2

(* Nobody is at work, or the premise is gone.                                *)
LEMMA EditTree ==
    ASSUME Base, TreeInv, UNCHANGED <<how, export, op>>, edits' = edits + 1,
           raced' = (raced \/ \E o \in Importer : Im!Running(o)),
           Im!Folders' \subseteq Im!Folders, ~Im!Zipfast /\ NoRing => NoRing'
    PROVE  TreeInv'
  <1>1. edits' # 0
    BY DEF Base, ImportType
  <1>2. ~raced' => ~raced /\ \A o \in Importer : op[o].pc # "run"
    BY DEF Im!Running
  <1>3. how = "zipline4" => \A p \in Im!Folders : p.by \in Importer
    BY DEF Base, Mapped, Im!Folders, Im!Zipfast
  <1>4. HangAsExported'
    BY <1>1, <1>2, <1>3, SameWords DEF HangAsExported
  <1>5. ~raced' /\ (Im!Zipfast' => edits' = 0) => NoRing'
    BY <1>1, <1>2, SameWords DEF TreeInv
  <1> QED BY <1>4, <1>5 DEF TreeInv

LEMMA MoveTree ==
    ASSUME Base, TreeInv, NEW p, NEW q, Moves(p, q)
    PROVE  TreeInv'
  <1>1. /\ DOMAIN db' = DOMAIN db /\ p \in Im!Folders /\ q \in Im!Folders \union {None}
        /\ (q # None => p \notin Im!Over(q))
        /\ \A r \in DOMAIN db : db'[r].up = IF r = p THEN q ELSE db[r].up
        /\ edits' = edits + 1 /\ UNCHANGED <<how, export, op>>
        /\ raced' = (raced \/ \E o \in Importer : Im!Running(o))
    BY MovedRows DEF Base
  <1>2. Im!Folders' = Im!Folders /\ None \notin Im!Folders /\ Im!Folders \subseteq DOMAIN db
    BY <1>1, ImportFacts DEF Im!Folders, Base, ImportType
  <1>3. ASSUME NoRing PROVE NoRing'
    <2> SUFFICES ASSUME NEW S \in SUBSET Im!Folders, S # {}, \A r \in S : db'[r].up \in S
                 PROVE  FALSE
      BY <1>2 DEF NoRing
    <2>1. p \in S
      <3>1. p \notin S => \A r \in S : db[r].up \in S
        BY <1>1, <1>2
      <3> QED BY <1>3, <3>1 DEF NoRing
    <2>2. q \in S /\ q # None
      BY <1>1, <1>2, <2>1
    <2>3. PICK T \in SUBSET Im!Folders : q \in T /\ Im!Up(T) \subseteq T /\ p \notin T
      BY <1>1, <2>2 DEF Im!Over
    <2>4. S \intersect T \in SUBSET Im!Folders /\ S \intersect T # {}
      BY <2>2, <2>3
    <2>5. ASSUME NEW r \in S \intersect T PROVE db[r].up \in S \intersect T
      <3>1. r # p /\ db[r].up \in S
        BY <1>1, <1>2, <2>3, <2>5
      <3>2. db[r].up \in T
        BY <1>2, <2>3, <2>5, <3>1 DEF Im!Up
      <3> QED BY <3>1, <3>2
    <2> QED BY <1>3, <2>4, <2>5 DEF NoRing
  <1> QED BY <1>1, <1>2, <1>3, EditTree

LEMMA LeaveTree ==
    ASSUME Base, Base', TreeInv, NEW u, Leaves(u)
    PROVE  TreeInv'
  <1>1. /\ DOMAIN db' \subseteq DOMAIN db
        /\ \A q \in DOMAIN db' : db'[q].up \in {None, db[q].up}
        /\ edits' = edits + 1 /\ UNCHANGED <<how, export, op>>
        /\ raced' = (raced \/ \E o \in Importer : Im!Running(o))
    BY LeftRows DEF Base
  <1>2. Im!Folders' \subseteq Im!Folders /\ Im!Folders' \subseteq DOMAIN db'
    BY <1>1 DEF Im!Folders
  <1>3. ASSUME NoRing PROVE NoRing'
    <2>1. \A q \in Im!Folders' : db'[q].up = None \/ (q \in Im!Folders /\ db'[q].up = db[q].up)
      BY <1>1, <1>2
    <2> QED BY <1>3, <2>1, FewerNoRing
  <1> QED BY <1>1, <1>2, <1>3, EditTree

LEMMA TreeStep ==
    ASSUME Base, TreeInv, [Im!Next]_(Im!vars)
    PROVE  TreeInv'
  <1>0. Base'
    BY BaseStep
  <1>1. CASE UNCHANGED Im!vars
    BY <1>1, SameWords DEF Im!vars, TreeInv, HangAsExported, NoRing, Im!Folders
  <1>2. ASSUME NEW o \in Importer, Does(o) PROVE TreeInv'
    <2>1. ASSUME NEW x \in Im!Row, NEW w, Looks(o, x, w) PROVE TreeInv'
      BY <1>0, <2>1, SameTree DEF Looks
    <2>2. ASSUME NEW x \in Im!Row, NEW w, Drops(o, x, w) PROVE TreeInv'
      BY <1>0, <2>2, SameTree DEF Drops
    <2>3. ASSUME NEW w, Stops(o, w) PROVE TreeInv'
      BY <1>0, <2>3, SameTree DEF Stops
    <2> QED BY <1>0, <1>2, <2>1, <2>2, <2>3, MakeTree, JoinTree, BeginTree DEF Does
  <1>3. CASE Im!Next
    BY <1>0, <1>2, <1>3, ImportSteps, MoveTree, LeaveTree DEF Base
  <1> QED BY <1>1, <1>3

(* A folder over its own parent would be in a ring: with all that it is over. *)
LEMMA TreeHolds ==
    ASSUME Base, TreeInv
    PROVE  Im!AcyclicAtRest
  <1> SUFFICES ASSUME NoRing, NEW p \in Im!Folders, db[p].up # None, p \in Im!Over(db[p].up)
               PROVE  FALSE
    BY DEF TreeInv, Im!AcyclicAtRest, Im!Acyclic
  <1>0. \A r \in Im!Folders : db[r].up \in Im!Folders \union {None}
    BY DEF Base, ImportType, Linked
  <1> DEFINE S == {r \in Im!Folders : \A T \in SUBSET Im!Folders : r \in T /\ Im!Up(T) \subseteq T => p \in T}
  <1>1. db[p].up \in S
    BY <1>0 DEF Im!Over
  <1>2. ASSUME NEW r \in S PROVE db[r].up \in S
    <2>1. CASE r = p
      BY <1>1, <2>1
    <2>2. CASE r # p
      <3>1. db[r].up # None
        <4> SUFFICES ASSUME db[r].up = None PROVE FALSE
          OBVIOUS
        <4>1. {r} \in SUBSET Im!Folders /\ Im!Up({r}) \subseteq {r}
          BY DEF Im!Up
        <4> QED BY <2>2, <4>1
      <3>2. db[r].up \in Im!Folders
        BY <1>0, <3>1
      <3>3. ASSUME NEW T \in SUBSET Im!Folders, db[r].up \in T, Im!Up(T) \subseteq T
            PROVE  p \in T
        <4>1. T \union {r} \in SUBSET Im!Folders /\ Im!Up(T \union {r}) \subseteq T \union {r}
          BY <3>3 DEF Im!Up
        <4>2. p \in T \union {r}
          BY <4>1
        <4> QED BY <2>2, <4>2
      <3> QED BY <3>2, <3>3
    <2> QED BY <2>1, <2>2
  <1>3. S \in SUBSET Im!Folders /\ S # {}
    BY <1>1
  <1> HIDE DEF S
  <1> QED BY <1>2, <1>3 DEF NoRing

(* However often an export is imported, at once or again, a row comes over   *)
(* once, and no import puts a folder into itself (zipline's import route,    *)
(* the Go server's importer).                                                *)
THEOREM ImportsOnce == ImportSpec => []ImportedOnce
  <1> DEFINE Inv == Base /\ OnceInv /\ TreeInv
  <1>1. Im!Init => Inv
    BY BaseInit, OnceInit, TreeInit
  <1>2. Inv /\ [Im!Next]_(Im!vars) => Inv'
    BY BaseStep, OnceStep, TreeStep
  <1>3. Inv => ImportedOnce
    BY OnceHolds, TreeHolds DEF ImportedOnce
  <1> QED BY <1>1, <1>2, <1>3, PTL DEF ImportSpec, Im!Spec

-----------------------------------------------------------------------------
(* An import alone brings each row over.                                     *)
LEMMA RankIs ==
    ASSUME NEW k, NEW i \in DOMAIN Im!Order[how], Im!Order[how][i] = k,
           \A j \in DOMAIN Im!Order[how] : Im!Order[how][j] = k => j = i
    PROVE  Im!Rank(k) = i
  BY DEF Im!Rank

LEMMA Order4 ==
    ASSUME how = "zipline4"
    PROVE  /\ Im!Rank("user") = 1 /\ Im!Rank("oauth") = 2 /\ Im!Rank("quota") = 3 /\ Im!Rank("passkey") = 4
           /\ Im!Rank("folder") = 5 /\ Im!Rank("link") = 6 /\ Im!Rank("file") = 7 /\ Im!Rank("tag") = 8
           /\ Im!Rank("url") = 9 /\ Im!Rank("invite") = 10
           /\ \A i \in DOMAIN Im!Order[how] : Im!Order[how][i] \in {"user", "oauth", "quota", "passkey", "folder", "link",
                                                 "file", "tag", "url", "invite"}
           /\ \E i \in DOMAIN Im!Order[how] : Im!Order[how][i] = "folder"
           /\ \E i \in DOMAIN Im!Order[how] : Im!Order[how][i] = "file"
  <1>1. Im!Order[how] = <<"user", "oauth", "quota", "passkey", "folder", "link", "file", "tag", "url", "invite">>
    BY DEF Im!Order
  <1>2. DOMAIN Im!Order[how] = 1..10
    BY <1>1
  <1>3. /\ Im!Order[how][1] = "user" /\ Im!Order[how][2] = "oauth" /\ Im!Order[how][3] = "quota"
        /\ Im!Order[how][4] = "passkey" /\ Im!Order[how][5] = "folder" /\ Im!Order[how][6] = "link"
        /\ Im!Order[how][7] = "file" /\ Im!Order[how][8] = "tag" /\ Im!Order[how][9] = "url"
        /\ Im!Order[how][10] = "invite"
    BY <1>1
  <1>4. \A i \in 1..10 : i = 1 \/ i = 2 \/ i = 3 \/ i = 4 \/ i = 5 \/ i = 6 \/ i = 7 \/ i = 8 \/ i = 9 \/ i = 10
    OBVIOUS
  <1>5. 1 \in 1..10 /\ 2 \in 1..10 /\ 3 \in 1..10 /\ 4 \in 1..10 /\ 5 \in 1..10 /\ 6 \in 1..10 /\ 7 \in 1..10
        /\ 8 \in 1..10 /\ 9 \in 1..10 /\ 10 \in 1..10
    OBVIOUS
  <1>6. Im!Rank("user") = 1 /\ Im!Rank("oauth") = 2 /\ Im!Rank("quota") = 3 /\ Im!Rank("passkey") = 4
    BY <1>2, <1>3, <1>4, <1>5, RankIs
  <1>7. Im!Rank("folder") = 5 /\ Im!Rank("link") = 6 /\ Im!Rank("file") = 7
    BY <1>2, <1>3, <1>4, <1>5, RankIs
  <1>8. Im!Rank("tag") = 8 /\ Im!Rank("url") = 9 /\ Im!Rank("invite") = 10
    BY <1>2, <1>3, <1>4, <1>5, RankIs
  <1> QED BY <1>2, <1>3, <1>4, <1>5, <1>6, <1>7, <1>8

LEMMA Order3 ==
    ASSUME how = "zipline3"
    PROVE  /\ Im!Rank("user") = 1 /\ Im!Rank("file") = 2 /\ Im!Rank("folder") = 3 /\ Im!Rank("url") = 4
           /\ \A i \in DOMAIN Im!Order[how] : Im!Order[how][i] \in {"user", "file", "folder", "url"}
           /\ \E i \in DOMAIN Im!Order[how] : Im!Order[how][i] = "folder"
           /\ \E i \in DOMAIN Im!Order[how] : Im!Order[how][i] = "file"
  <1>1. Im!Order[how] = <<"user", "file", "folder", "url">>
    BY DEF Im!Order
  <1>2. DOMAIN Im!Order[how] = 1..4
    BY <1>1
  <1>3. /\ Im!Order[how][1] = "user" /\ Im!Order[how][2] = "file" /\ Im!Order[how][3] = "folder"
        /\ Im!Order[how][4] = "url"
    BY <1>1
  <1>4. \A i \in 1..4 : i = 1 \/ i = 2 \/ i = 3 \/ i = 4
    OBVIOUS
  <1>5. 1 \in 1..4 /\ 2 \in 1..4 /\ 3 \in 1..4 /\ 4 \in 1..4
    OBVIOUS
  <1>6. Im!Rank("user") = 1 /\ Im!Rank("file") = 2 /\ Im!Rank("folder") = 3 /\ Im!Rank("url") = 4
    BY <1>2, <1>3, <1>4, <1>5, RankIs
  <1> QED BY <1>2, <1>3, <1>4, <1>5, <1>6

LEMMA OrderFast ==
    ASSUME Im!Zipfast
    PROVE  /\ Im!Rank("user") = 1 /\ Im!Rank("quota") = 2 /\ Im!Rank("oauth") = 3 /\ Im!Rank("tag") = 4
           /\ Im!Rank("folder") = 5 /\ Im!Rank("link") = 6 /\ Im!Rank("file") = 7 /\ Im!Rank("url") = 8
           /\ Im!Rank("invite") = 9
           /\ \A i \in DOMAIN Im!Order[how] : Im!Order[how][i] \in {"user", "quota", "oauth", "tag", "folder", "link",
                                                 "file", "url", "invite"}
           /\ \E i \in DOMAIN Im!Order[how] : Im!Order[how][i] = "folder"
           /\ \E i \in DOMAIN Im!Order[how] : Im!Order[how][i] = "file"
  <1>1. Im!Order[how] = <<"user", "quota", "oauth", "tag", "folder", "link", "file", "url", "invite">>
    BY DEF Im!Order, Im!Zipfast
  <1>2. DOMAIN Im!Order[how] = 1..9
    BY <1>1
  <1>3. /\ Im!Order[how][1] = "user" /\ Im!Order[how][2] = "quota" /\ Im!Order[how][3] = "oauth"
        /\ Im!Order[how][4] = "tag" /\ Im!Order[how][5] = "folder" /\ Im!Order[how][6] = "link"
        /\ Im!Order[how][7] = "file" /\ Im!Order[how][8] = "url" /\ Im!Order[how][9] = "invite"
    BY <1>1
  <1>4. \A i \in 1..9 : i = 1 \/ i = 2 \/ i = 3 \/ i = 4 \/ i = 5 \/ i = 6 \/ i = 7 \/ i = 8 \/ i = 9
    OBVIOUS
  <1>5. 1 \in 1..9 /\ 2 \in 1..9 /\ 3 \in 1..9 /\ 4 \in 1..9 /\ 5 \in 1..9 /\ 6 \in 1..9 /\ 7 \in 1..9
        /\ 8 \in 1..9 /\ 9 \in 1..9
    OBVIOUS
  <1>6. Im!Rank("user") = 1 /\ Im!Rank("quota") = 2 /\ Im!Rank("oauth") = 3 /\ Im!Rank("tag") = 4
    BY <1>2, <1>3, <1>4, <1>5, RankIs
  <1>7. Im!Rank("folder") = 5 /\ Im!Rank("link") = 6 /\ Im!Rank("file") = 7
    BY <1>2, <1>3, <1>4, <1>5, RankIs
  <1>8. Im!Rank("url") = 8 /\ Im!Rank("invite") = 9
    BY <1>2, <1>3, <1>4, <1>5, RankIs
  <1> QED BY <1>2, <1>3, <1>4, <1>5, <1>6, <1>7, <1>8

(* Users come first, tags after files, and folders before what hangs on      *)
(* them: files, or the links; in version 3 the files come before.            *)
LEMMA RankFacts ==
    ASSUME ImportType
    PROVE  /\ \A x \in Im!Row \ User, u \in User : Im!Handled(x) => ~(Im!Rank(Im!Kind(x)) <= Im!Rank(Im!Kind(u)))
           /\ \A d \in Folder : Im!Handled(d)
           /\ \A f \in File : Im!Handled(f)
           /\ how # "zipline3" => \A d \in Folder, f \in File : ~(Im!Rank(Im!Kind(f)) <= Im!Rank(Im!Kind(d)))
           /\ how # "zipline3" => \A d \in Folder : ~(Im!Rank(Im!Kind(d)) > Im!Rank("link"))
           /\ how = "zipline3" => \A d \in Folder, f \in File : ~(Im!Rank(Im!Kind(d)) <= Im!Rank(Im!Kind(f)))
           /\ ~Im!Zipfast => \A t \in Tag, f \in File : Im!Handled(t) => ~(Im!Rank(Im!Kind(t)) <= Im!Rank(Im!Kind(f)))
  <1>1. \A x \in Im!Row \ User : Im!Kind(x) # "user"
    BY RowKinds, RowSplit DEF ImportType, Im!Export, Im!ItemKinds
  <1>2. CASE how = "zipline4"
    <2>1. ~Im!Zipfast
      BY <1>2 DEF Im!Zipfast
    <2> QED BY <1>1, <1>2, <2>1, Order4, RowKinds DEF Im!Handled
  <1>3. CASE how = "zipline3"
    <2>1. \A t \in Tag : ~Im!Handled(t)
      BY <1>3, Order3, RowKinds DEF Im!Handled
    <2> QED BY <1>1, <1>3, <2>1, Order3, RowKinds DEF Im!Handled
  <1>4. CASE Im!Zipfast
    <2>1. how # "zipline3"
      BY <1>4 DEF Im!Zipfast
    <2> QED BY <1>1, <1>4, <2>1, OrderFast, RowKinds DEF Im!Handled
  <1> QED BY <1>2, <1>3, <1>4 DEF ImportType, Im!Zipfast

(* What a row that has been handled depends on is not at work any more.      *)
LEMMA Settled ==
    ASSUME ImportType, NEW o \in Importer, op[o] \in Requests, InOrder(o), ToLink(o),
           NEW x \in Im!Row \ User, Im!Handled(x), x \notin Busy(o), NEW y \in Busy(o)
    PROVE  /\ y \in Im!Row /\ y # x /\ export.owner[x] # y
           /\ x \in File /\ how # "zipline3" => export.up[x] # y
           /\ x \in Folder /\ how # "zipline3" /\ op[o].map[x] # None /\ x \notin op[o].links => export.up[x] # y
           /\ x \in Tag /\ ~Im!Zipfast => y \notin export.tagged[x]
           /\ how = "zipline3" /\ x \in Folder => y \notin File
  <1>1. y \in Im!Row /\ y # x /\ Im!Rank(Im!Kind(x)) <= Im!Rank(Im!Kind(y))
    BY DEF Requests, Busy, InOrder
  <1>2. export.owner[x] # y
    <2>1. export.owner[x] \in User \union {None}
      BY DEF ImportType, Im!Export
    <2> QED BY <1>1, <2>1, RankFacts, ImportFacts
  <1>3. x \in File /\ how # "zipline3" => export.up[x] # y
    <2>1. x \in File => export.up[x] \in Folder \union {None}
      BY DEF ImportType, Im!Export
    <2> QED BY <1>1, <2>1, RankFacts, ImportFacts
  <1>4. x \in Folder /\ how # "zipline3" /\ op[o].map[x] # None /\ x \notin op[o].links => export.up[x] # y
    <2>1. x \in Folder => export.up[x] \in Folder \union {None}
      BY DEF ImportType, Im!Export
    <2> QED BY <1>1, <2>1, ImportFacts DEF ToLink
  <1>5. x \in Tag /\ ~Im!Zipfast => y \notin export.tagged[x]
    <2>1. x \in Tag => export.tagged[x] \in SUBSET File
      BY DEF ImportType, Im!Export
    <2> QED BY <1>1, <2>1, RankFacts
  <1>6. how = "zipline3" /\ x \in Folder => y \notin File
    BY <1>1, RankFacts
  <1> QED BY <1>1, <1>2, <1>3, <1>4, <1>5, <1>6

(* The rows there are stay, but for the files of a folder of version 3.      *)
RowsKept(o, y, v) ==
    /\ DOMAIN db \subseteq DOMAIN db'
    /\ \A q \in DOMAIN db :
        /\ db'[q].owner = db[q].owner /\ db'[q].files = db[q].files
        /\ db'[q].up = IF how = "zipline3" /\ y \in Folder /\ q.of \in File /\ export.up[q.of] = y
                          /\ op[o].map[q.of] = q /\ v # op[o].map[y]
                       THEN v ELSE db[q].up

(* It stays as it is when another row goes somewhere.                        *)
LEMMA StaysBrought ==
    ASSUME Base, NEW o \in Importer, op[o] \in Requests, op[o] # Im!Idle, InOrder(o), ToLink(o),
           NEW x \in Im!Row \ User, Im!Handled(x), x \notin Busy(o), NEW y \in Busy(o), NEW v, NEW w,
           op'[o] = w, w.map = [op[o].map EXCEPT ![y] = v],
           w.links = op[o].links \/ w.links = op[o].links \union {y},
           UNCHANGED <<how, export>>, RowsKept(o, y, v),
           Im!Owner(o, x)' # None
    PROVE  Im!Owner(o, x) # None /\ (Arrived(o, x) \/ Im!LeftOut(o, x) => Arrived(o, x)' \/ Im!LeftOut(o, x)')
  <1> DEFINE p == op[o].map[x]
  <1>1. /\ y \in Im!Row /\ y # x /\ export.owner[x] # y
        /\ x \in File /\ how # "zipline3" => export.up[x] # y
        /\ x \in Folder /\ how # "zipline3" /\ op[o].map[x] # None /\ x \notin op[o].links => export.up[x] # y
        /\ x \in Tag /\ ~Im!Zipfast => y \notin export.tagged[x]
        /\ how = "zipline3" /\ x \in Folder => y \notin File
    BY Settled DEF Base
  <1>2. /\ DOMAIN op[o].map = Im!Row /\ \A z : z # y => w.map[z] = op[o].map[z]
        /\ w.map[y] = v
    BY <1>1 DEF Requests
  <1>3. Im!Owner(o, x)' = Im!Owner(o, x)
    BY <1>1, <1>2 DEF Im!Owner, Im!Owned
  <1>4. op'[o].map[x] = p /\ (x \in w.links <=> x \in op[o].links)
    BY <1>1, <1>2
  <1>5. ASSUME Arrived(o, x) PROVE Arrived(o, x)'
    <2>1. /\ p \in DOMAIN db /\ db[p].owner = Im!Owner(o, x)
          /\ x \in File => db[p].up = Im!At(o, export.up[x])
          /\ x \in Folder /\ how # "zipline3" =>
                db[p].up = IF x \in op[o].links THEN None ELSE Im!At(o, export.up[x])
          /\ x \in Tag /\ ~Im!Zipfast => db[p].files = {Im!At(o, f) : f \in export.tagged[x]}
      BY <1>5 DEF Arrived
    <2>2. p.of = x /\ p # None
      <3>1. p \in {None, Written(o, x)}
        BY DEF Base, Mapped
      <3> QED BY <2>1, <3>1, FreshId, ImportFacts DEF Base, ImportType
    <2>3. p \in DOMAIN db' /\ db'[p].owner = Im!Owner(o, x)' /\ db'[p].files = db[p].files
      BY <1>3, <2>1 DEF RowsKept
    <2>4. x \in File => db'[p].up = Im!At(o, export.up[x])'
      <3> SUFFICES ASSUME x \in File PROVE db'[p].up = Im!At(o, export.up[x])'
        OBVIOUS
      <3>1. CASE export.up[x] = y
        <4>1. how = "zipline3" /\ y # None
          BY <1>1, <3>1, ImportFacts
        <4>2. y \in Folder
          BY <3>1, <4>1 DEF Base, ImportType, Im!Export
        <4>3. db'[p].up = v
          BY <2>1, <2>2, <3>1, <4>1, <4>2 DEF Im!At, RowsKept
        <4> QED BY <1>2, <3>1, <4>1, <4>3 DEF Im!At
      <3>2. CASE export.up[x] # y
        <4>1. db'[p].up = db[p].up
          BY <2>1, <2>2, <3>2 DEF RowsKept
        <4>2. Im!At(o, export.up[x])' = Im!At(o, export.up[x])
          BY <1>2, <3>2 DEF Im!At
        <4> QED BY <2>1, <4>1, <4>2
      <3> QED BY <3>1, <3>2
    <2>5. x \in Folder /\ how # "zipline3" => db'[p].up = IF x \in w.links THEN None ELSE Im!At(o, export.up[x])'
      <3> SUFFICES ASSUME x \in Folder, how # "zipline3"
                   PROVE  db'[p].up = IF x \in w.links THEN None ELSE Im!At(o, export.up[x])'
        OBVIOUS
      <3>1. db'[p].up = db[p].up
        BY <2>1 DEF RowsKept
      <3>2. x \notin op[o].links => Im!At(o, export.up[x])' = Im!At(o, export.up[x])
        BY <1>1, <1>2, <2>2 DEF Im!At
      <3> QED BY <1>4, <2>1, <3>1, <3>2
    <2>6. x \in Tag /\ ~Im!Zipfast => db'[p].files = {Im!At(o, f)' : f \in export.tagged[x]}
      <3> SUFFICES ASSUME x \in Tag, ~Im!Zipfast
                   PROVE  db[p].files = {Im!At(o, f)' : f \in export.tagged[x]}
        BY <2>3
      <3>1. \A f \in export.tagged[x] : Im!At(o, f)' = Im!At(o, f)
        BY <1>1, <1>2 DEF Im!At
      <3> QED BY <2>1, <3>1
    <2> QED BY <1>4, <2>3, <2>4, <2>5, <2>6, SameWords DEF Arrived
  <1>6. ASSUME Im!LeftOut(o, x) PROVE Im!LeftOut(o, x)'
    <2>1. CASE how = "zipline3" /\ x \in Folder /\ \E f \in File : export.up[f] = x /\ Im!At(o, f) = None
      <3> PICK f \in File : export.up[f] = x /\ Im!At(o, f) = None
        BY <2>1
      <3>1. Im!At(o, f)' = None
        BY <1>1, <1>2, <2>1 DEF Im!At
      <3> QED BY <2>1, <3>1 DEF Im!LeftOut
    <2>2. CASE Im!Zipfast /\ x \in File /\ export.up[x] # None /\ Im!At(o, export.up[x]) = None
      <3>1. Im!At(o, export.up[x])' = None
        BY <1>1, <1>2, <2>2 DEF Im!At, Im!Zipfast
      <3> QED BY <2>2, <3>1, SameWords DEF Im!LeftOut
    <2> QED BY <1>6, <2>1, <2>2 DEF Im!LeftOut
  <1> QED BY <1>3, <1>5, <1>6

(* It is enough to look at the request that takes the step.                  *)
LEMMA GoSolo ==
    ASSUME Base, SoloInv, NEW o \in Importer, NEW w, Goes(o, w),
           w.pc # "failed" /\ InOrder(o) /\ Mine(o) /\ ToLink(o) /\ Brought(o) =>
             InOrder(o)' /\ Mine(o)' /\ ToLink(o)' /\ Brought(o)'
    PROVE  SoloInv'
  <1>1. /\ op'[o] = w /\ (\A q \in Importer \ {o} : op'[q] = op[q]) /\ op[o] # Im!Idle
        /\ op[o].pc = "run" /\ w # Im!Idle /\ UNCHANGED edits
    <2>1. w \in Requests => w # Im!Idle
      BY DEF Requests, Im!Idle
    <2> QED BY <2>1, GoesTo DEF Base, Goes
  <1>2. ASSUME NEW e \in Importer, op'[e] # Im!Idle, AloneAtWork(e)'
        PROVE  InOrder(e)' /\ Mine(e)' /\ ToLink(e)' /\ Brought(e)'
    <2>1. e = o
      BY <1>1, <1>2 DEF AloneAtWork
    <2>2. AloneAtWork(o) /\ w.pc # "failed"
      BY <1>1, <1>2, <2>1 DEF AloneAtWork
    <2>3. InOrder(o) /\ Mine(o) /\ ToLink(o) /\ Brought(o)
      BY <1>1, <2>2 DEF SoloInv
    <2> QED BY <2>1, <2>2, <2>3
  <1> QED BY <1>1, <1>2 DEF SoloInv

LEMMA InOrderAfter ==
    ASSUME Base, NEW o \in Importer, NEW w, Goes(o, w), InOrder(o), NEW x \in Busy(o),
           Busy(o)' = Busy(o) \ {x}, w.seen = None, w.pc = "run",
           \A y \in Busy(o) \ {x} : Im!Rank(Im!Kind(x)) <= Im!Rank(Im!Kind(y))
    PROVE  InOrder(o)'
  <1>1. op'[o] = w /\ UNCHANGED <<how, export>>
    BY GoesTo DEF Base, Goes
  <1>2. (\A y : Im!Handled(y)' <=> Im!Handled(y)) /\ \A y : Im!Rank(Im!Kind(y))' = Im!Rank(Im!Kind(y))
    BY <1>1, SameWords DEF Im!Rank, Im!Kind
  <1> QED BY <1>1, <1>2 DEF InOrder

LEMMA MineAfter ==
    ASSUME Base, NEW o \in Importer, NEW w, Goes(o, w), Mine(o), NEW x \in Busy(o), Busy(o)' = Busy(o) \ {x},
           NEW v \in DOMAIN db' \union {Me, None}, w.map = [op[o].map EXCEPT ![x] = v], Im!Zipfast => v # Me,
           DOMAIN db \subseteq DOMAIN db', \A q \in DOMAIN db' \ DOMAIN db : q.of = x /\ q = v
    PROVE  Mine(o)'
  <1>1. op'[o] = w /\ UNCHANGED <<how, export>> /\ op[o] \in Requests /\ w \in Requests
    BY GoesTo DEF Base, Goes
  <1>2. x \in Im!Row
    BY <1>1, ImportFacts DEF Busy, Requests
  <1>3. w.map[x] = v /\ \A y \in Im!Row : y # x => w.map[y] = op[o].map[y]
    BY <1>1, <1>2 DEF Requests
  <1>4. \A p \in DOMAIN db' : p.of \notin Busy(o)' /\ op'[o].map[p.of] = p
    <2> TAKE p \in DOMAIN db'
    <2>1. CASE p \in DOMAIN db
      <3>1. p.of \in Im!Row
        BY <2>1 DEF Base, ImportType, Im!Id
      <3>2. p.of \notin Busy(o) /\ op[o].map[p.of] = p
        BY <2>1 DEF Mine
      <3>3. p.of # x /\ w.map[p.of] = p
        BY <1>3, <3>1, <3>2
      <3> QED BY <1>1, <3>2, <3>3
    <2>2. CASE p \notin DOMAIN db
      BY <1>1, <1>3, <2>2
    <2> QED BY <2>1, <2>2
  <1>5. \A y \in Im!Row : op'[o].map[y] \in DOMAIN db' \union {Me, None} /\ (Im!Zipfast => op'[o].map[y] # Me)
    BY <1>1, <1>3 DEF Mine
  <1>6. \A y \in Busy(o)' : op'[o].map[y] = None
    <2> TAKE y \in Busy(o)'
    <2>1. y \in Busy(o) /\ y # x /\ y \in Im!Row
      BY <1>1, ImportFacts DEF Busy, Requests
    <2> QED BY <1>1, <1>3, <2>1 DEF Mine
  <1> QED BY <1>1, <1>4, <1>5, <1>6, SameWords DEF Mine

(* A row is passed over for a reason.                                        *)
LEMMA MissedLeftOut ==
    ASSUME Base, NEW o \in Importer, op[o] \in Requests, op[o] # Im!Idle, InOrder(o), Mine(o), NEW x \in Plainly,
           Im!IsNext(o, x), Missed(o, x), Im!Owner(o, x) # None
    PROVE  Im!LeftOut(o, x)
  <1>1. x \in Im!Row /\ x \notin User /\ x \notin export.taken /\ x \notin export.twins /\ x \in Busy(o)
    BY ImportFacts DEF Plainly, Im!IsNext, Busy
  <1>2. \A p \in DOMAIN db : p.of # x
    BY <1>1 DEF Mine
  <1>3. ~Im!InUse(x) /\ \A owner : ~Im!InUseBy(x, owner)
    BY <1>1, <1>2 DEF Im!InUse, Im!Ids, Im!InUseBy, Im!Same
  <1>4. ~Im!Exists(o, x) /\ \A owner : ~Im!Clashes(x, owner)
    BY <1>1, <1>3 DEF Im!Exists, Im!OAuthExists, Im!QuotaExists, Im!PasskeyExists, Im!FolderExists, Im!FileExists,
       Im!UrlExists, Im!UrlExists3, Im!InviteExists, Im!Clashes
  <1>5. Im!Zipfast /\ (Im!KeptId(x) \in DOMAIN db \/ Refused(o, x))
    BY <1>4 DEF Missed
  <1>6. Refused(o, x)
    BY <1>1, <1>2, <1>5, FreshId DEF Base
  <1>7. export.owner[x] # None /\ export.owner[x] \in User /\ export.owner[x] \in Im!Row
    BY <1>1, RowKinds DEF Im!Owner, Im!Owned, Base, ImportType, Im!Export
  <1>8. Im!There(Im!KeptId(export.owner[x]))
    <2>1. op[o].map[export.owner[x]] # None /\ op[o].map[export.owner[x]] # Me
          /\ op[o].map[export.owner[x]] \in DOMAIN db
      BY <1>5, <1>7 DEF Im!Owner, Im!Owned, Mine
    <2>2. op[o].map[export.owner[x]] = Im!KeptId(export.owner[x])
      BY <1>5, <1>7, <2>1, FreshId DEF Base, Mapped
    <2> QED BY <2>1, <2>2 DEF Im!There
  <1>9. x \in File /\ ~Im!There(Im!KeptId(export.up[x]))
    BY <1>4, <1>6, <1>7, <1>8 DEF Refused
  <1>10. export.up[x] # None /\ export.up[x] \in Folder /\ export.up[x] \in Im!Row
    <2>1. export.up[x] # None
      BY <1>9 DEF Im!There, Im!KeptId
    <2> QED BY <1>9, <2>1, RowKinds DEF Base, ImportType, Im!Export
  <1>11. op[o].map[export.up[x]] = None
    <2>1. op[o].map[export.up[x]] \in {None, Im!KeptId(export.up[x])}
      BY <1>5, <1>10, RowSplit, FreshId DEF Base, Mapped
    <2>2. op[o].map[export.up[x]] \in DOMAIN db \union {Me, None} /\ op[o].map[export.up[x]] # Me
      BY <1>5, <1>10 DEF Mine
    <2> QED BY <1>9, <2>1, <2>2 DEF Im!There
  <1> QED BY <1>5, <1>9, <1>10, <1>11 DEF Im!LeftOut, Im!At

LEMMA LookSolo ==
    ASSUME Base, SoloInv, NEW o \in Importer, NEW x \in Im!Row, NEW w, Looks(o, x, w)
    PROVE  SoloInv'
  <1> SUFFICES ASSUME InOrder(o), Mine(o), ToLink(o), Brought(o)
               PROVE  InOrder(o)' /\ Mine(o)' /\ ToLink(o)' /\ Brought(o)'
    BY GoSolo DEF Looks
  <1>1. /\ Goes(o, w) /\ op'[o] = w /\ UNCHANGED <<how, export, db>> /\ op[o] \in Requests /\ op[o] # Im!Idle
        /\ op[o].seen = None /\ x \in op[o].todo /\ w.pc = "run" /\ w.todo = op[o].todo \ {x}
        /\ w.links = op[o].links /\ w \in Requests
        /\ \A y \in op[o].todo : Im!Rank(Im!Kind(x)) <= Im!Rank(Im!Kind(y))
    BY GoesTo DEF Looks, Goes, Base, Im!IsNext
  <1>2. Busy(o) = op[o].todo /\ x \in Busy(o) /\ x # None
    BY <1>1, ImportFacts DEF Busy
  <1>3. op[o].map[x] = None
    BY <1>2 DEF Mine
  <1>4. CASE w.seen = x
    <2>1. w.map = op[o].map /\ Busy(o)' = Busy(o)
      BY <1>1, <1>2, <1>4 DEF Looks, Busy
    <2>2. InOrder(o)'
      <3>1. (\A y : Im!Handled(y)' <=> Im!Handled(y)) /\ \A y : Im!Rank(Im!Kind(y))' = Im!Rank(Im!Kind(y))
        BY <1>1, SameWords DEF Im!Rank, Im!Kind
      <3>2. Im!Rank(Im!Kind(op[o].seen))' = Im!Rank(Im!Kind(x))
        BY <1>1, <1>4 DEF Im!Rank, Im!Kind
      <3> QED BY <1>1, <1>2, <1>4, <2>1, <3>1, <3>2 DEF InOrder
    <2>3. Mine(o)' /\ ToLink(o)'
      BY <1>1, <2>1, SameWords DEF Mine, ToLink
    <2>4. Brought(o)'
      BY <1>1, <2>1, SameWords DEF Brought, Plainly, Arrived, Im!LeftOut, Im!At, Im!Owner, Im!Owned
    <2> QED BY <2>2, <2>3, <2>4
  <1>5. CASE w.seen = None
    <2>1. Busy(o)' = Busy(o) \ {x}
      BY <1>1, <1>2, <1>5 DEF Busy
    <2>2. PICK v \in {Me, None} : /\ w.map = [op[o].map EXCEPT ![x] = v] /\ (Im!Zipfast => v # Me)
                                  /\ v # None => x \in User
      BY <1>1, <1>2, <1>3, <1>5, ImportFacts DEF Looks, Requests
    <2>3. x \notin User => Missed(o, x)
      BY <1>2, <1>5 DEF Looks
    <2>4. InOrder(o)'
      BY <1>1, <1>2, <1>5, <2>1, InOrderAfter
    <2>5. Mine(o)'
      <3>1. \A q \in DOMAIN db' \ DOMAIN db : q.of = x /\ q = v
        BY <1>1
      <3> QED BY <1>1, <1>2, <2>1, <2>2, <3>1, MineAfter
    <2>6. ToLink(o)'
      <3>1. \A d \in Folder : w.map[d] = None => op[o].map[d] = None
        BY <1>1, <1>3, <2>2 DEF Requests
      <3>2. \A d \in Folder : w.map[d] # None => op[o].map[d] # None
        BY <1>1, <2>2, RowKinds, RowSplit DEF Requests
      <3> QED BY <1>1, <2>1, <3>2, SameWords DEF ToLink
    <2>7. Brought(o)'
      <3> SUFFICES ASSUME NEW z \in Plainly, Im!Handled(z), z \notin Busy(o)', Im!Owner(o, z)' # None
                   PROVE  Arrived(o, z)' \/ Im!LeftOut(o, z)'
        BY <1>1, SameWords DEF Brought, Plainly
      <3>1. z \in Im!Row \ User
        BY DEF Plainly
      <3>2. CASE z # x
        <4>1. z \notin Busy(o)
          BY <2>1, <3>2
        <4>2. RowsKept(o, x, v)
          BY <1>1, <1>3, <2>2, RowSplit DEF RowsKept
        <4>3. Im!Owner(o, z) # None /\ (Arrived(o, z) \/ Im!LeftOut(o, z) => Arrived(o, z)' \/ Im!LeftOut(o, z)')
          BY <1>1, <1>2, <2>2, <3>1, <4>1, <4>2, StaysBrought
        <4> QED BY <4>1, <4>3 DEF Brought
      <3>3. CASE z = x
        <4>1. w.map = op[o].map
          BY <1>1, <1>3, <2>2, <3>1, <3>3 DEF Requests
        <4>2. Im!Owner(o, x) # None
          BY <1>1, <3>3, <4>1 DEF Im!Owner, Im!Owned
        <4>3. Im!LeftOut(o, x)
          BY <1>1, <2>3, <3>1, <3>3, <4>2, MissedLeftOut DEF Looks
        <4>4. Im!LeftOut(o, x)'
          BY <1>1, <4>1, <4>3, SameWords DEF Im!LeftOut, Im!At
        <4> QED BY <3>3, <4>4
      <3> QED BY <3>2, <3>3
    <2> QED BY <2>4, <2>5, <2>6, <2>7
  <1> QED BY <1>4, <1>5 DEF Looks

LEMMA MakeFacts ==
    ASSUME Base, NEW o \in Importer, NEW x \in Im!Row, NEW w, Makes(o, x, w), InOrder(o), Mine(o)
    PROVE  /\ Goes(o, w) /\ op'[o] = w /\ op[o] \in Requests /\ w \in Requests /\ op[o] # Im!Idle
           /\ UNCHANGED <<how, export>> /\ x \in Busy(o) /\ Busy(o)' = Busy(o) \ {x} /\ w.seen = None
           /\ w.pc = "run" /\ \A y \in Busy(o) \ {x} : Im!Rank(Im!Kind(x)) <= Im!Rank(Im!Kind(y))
           /\ op[o].map[x] = None /\ Written(o, x) \notin DOMAIN db
  <1>1. /\ Goes(o, w) /\ op'[o] = w /\ op[o] \in Requests /\ w \in Requests /\ op[o] # Im!Idle
        /\ UNCHANGED <<how, export>> /\ w.seen = None /\ w.pc = "run" /\ w.todo = op[o].todo \ {x}
        /\ op[o].seen \notin op[o].todo
    BY GoesTo DEF Makes, Goes, Base
  <1>2. x # None /\ ((op[o].seen = None /\ x \in op[o].todo) \/ op[o].seen = x)
    BY ImportFacts DEF Makes, Im!IsNext
  <1>3. x \in Busy(o) /\ Busy(o)' = Busy(o) \ {x}
    BY <1>1, <1>2, ImportFacts DEF Busy
  <1>4. \A y \in Busy(o) \ {x} : Im!Rank(Im!Kind(x)) <= Im!Rank(Im!Kind(y))
    <2>1. CASE Im!Zipfast
      BY <1>1, <2>1 DEF Makes, Im!IsNext, Busy
    <2>2. CASE ~Im!Zipfast
      BY <1>1, <2>2, ImportFacts DEF Makes, InOrder, Busy
    <2> QED BY <2>1, <2>2
  <1>5. op[o].map[x] = None /\ Written(o, x) \notin DOMAIN db
    BY <1>3, FreshId DEF Mine, Base
  <1> QED BY <1>1, <1>3, <1>4, <1>5

(* The row that is written is as it was in the export.                       *)
LEMMA MadeArrives ==
    ASSUME Base, NEW o \in Importer, NEW x \in Im!Row \ User, NEW w, Makes(o, x, w),
           InOrder(o), Mine(o), ToLink(o), Im!Owner(o, x)' # None
    PROVE  Arrived(o, x)'
  <1> DEFINE p == Written(o, x)
             up == export.up[x]
             u == export.owner[x]
  <1>1. /\ op'[o] = w /\ op[o] \in Requests /\ op[o] # Im!Idle /\ UNCHANGED <<how, export>> /\ x \in Busy(o)
        /\ op[o].map[x] = None
    BY MakeFacts
  <1>2. w.map[x] = p /\ \A y \in Im!Row : y # x => w.map[y] = op[o].map[y]
    BY <1>1 DEF Makes, Requests
  <1>3. /\ DOMAIN db' = DOMAIN db \union {p} /\ p.of = x
        /\ db'[p].owner = IF Im!Zipfast THEN Im!KeptId(u) ELSE Im!Owner(o, x)
        /\ db'[p].owner \in DOMAIN db \union {Me, None}
        /\ db'[p].up = Parent(o, x) /\ Parent(o, x) \in DOMAIN db \union {Me, None}
        /\ x \in Tag /\ ~Im!Zipfast => db'[p].files = {op[o].map[f] : f \in export.tagged[x]}
    BY MadeRow DEF Base
  <1> HIDE DEF p
  <1>4. u \in User \union {None} /\ (u \in User => u \in Im!Row /\ u # x)
    BY RowKinds DEF Base, ImportType, Im!Export
  <1>5. Im!Owner(o, x)' = Im!Owner(o, x) /\ u # None
    BY <1>1, <1>2, <1>4 DEF Im!Owner, Im!Owned
  <1>6. db'[p].owner = Im!Owner(o, x)'
    <2>1. CASE Im!Zipfast
      <3>1. Im!KeptId(u) \in DOMAIN db /\ Im!KeptId(u).of = u
        BY <1>3, <1>4, <1>5, <2>1, FreshId DEF Base
      <3>2. op[o].map[u] = Im!KeptId(u)
        BY <3>1 DEF Mine
      <3> QED BY <1>3, <1>5, <2>1, <3>2 DEF Im!Owner, Im!Owned
    <2> QED BY <1>3, <1>5, <2>1
  <1>7. ASSUME x \in File PROVE db'[p].up = Im!At(o, export.up[x])'
    <2>1. up \in Folder \union {None} /\ (up \in Folder => up \in Im!Row /\ up # x /\ up # None)
      BY <1>7, RowKinds, RowSplit, ImportFacts DEF Base, ImportType, Im!Export
    <2>2. up # None => Im!At(o, export.up[x])' = op[o].map[up]
      BY <1>1, <1>2, <2>1 DEF Im!At
    <2>3. CASE up = None
      BY <1>1, <1>3, <2>3 DEF Parent, Im!At
    <2>4. CASE up # None /\ how = "zipline3"
      <3>1. up \in Busy(o)
        BY <1>1, <1>7, <2>1, <2>4, RankFacts DEF InOrder, Base
      <3>2. op[o].map[up] = None
        BY <3>1 DEF Mine
      <3> QED BY <1>3, <2>2, <2>4, <3>2 DEF Parent
    <2>5. CASE up # None /\ how # "zipline3" /\ ~Im!Zipfast
      BY <1>3, <1>7, <2>2, <2>5 DEF Parent
    <2>6. CASE up # None /\ how # "zipline3" /\ Im!Zipfast
      <3>1. Parent(o, x) = Written(o, up)
        BY <1>7, <2>6 DEF Parent
      <3>2. Written(o, up) \in DOMAIN db /\ Written(o, up).of = up
        BY <1>3, <2>1, <2>6, <3>1, FreshId DEF Base
      <3>3. op[o].map[up] = Written(o, up)
        BY <3>2 DEF Mine
      <3> QED BY <1>3, <2>2, <2>6, <3>1, <3>3
    <2> QED BY <2>3, <2>4, <2>5, <2>6
  <1>8. ASSUME x \in Folder, how # "zipline3"
        PROVE  db'[p].up = IF x \in w.links THEN None ELSE Im!At(o, export.up[x])'
    <2>1. db'[p].up = None
      BY <1>3, <1>8, RowKinds, RowSplit DEF Parent
    <2>2. x \notin w.links => up = None
      <3> SUFFICES ASSUME x \notin w.links, up # None PROVE FALSE
        OBVIOUS
      <3>1. how # "zipline4" /\ x \notin op[o].links
        BY <1>8 DEF Makes
      <3>2. Im!Zipfast
        BY <1>8, <3>1 DEF Base, ImportType, Im!Zipfast
      <3> QED BY <1>1, <1>8, <3>1, <3>2 DEF ToLink
    <2>3. up = None => Im!At(o, export.up[x])' = None
      BY <1>1 DEF Im!At
    <2> QED BY <2>1, <2>2, <2>3
  <1>9. ASSUME x \in Tag, ~Im!Zipfast PROVE db'[p].files = {Im!At(o, f)' : f \in export.tagged[x]}
    <2>1. \A f \in export.tagged[x] : Im!At(o, f)' = op[o].map[f]
      <3> TAKE f \in export.tagged[x]
      <3>1. f \in File
        BY <1>9 DEF Base, ImportType, Im!Export
      <3>2. f \in Im!Row /\ f # None /\ f # x
        BY <1>9, <3>1, RowKinds, RowSplit, ImportFacts
      <3> QED BY <1>1, <1>2, <3>2 DEF Im!At
    <2> QED BY <1>3, <1>9, <2>1
  <1> QED BY <1>1, <1>2, <1>3, <1>6, <1>7, <1>8, <1>9, SameWords DEF Arrived

LEMMA MakeSolo ==
    ASSUME Base, SoloInv, NEW o \in Importer, NEW x \in Im!Row, NEW w, Makes(o, x, w)
    PROVE  SoloInv'
  <1> SUFFICES ASSUME InOrder(o), Mine(o), ToLink(o), Brought(o)
               PROVE  InOrder(o)' /\ Mine(o)' /\ ToLink(o)' /\ Brought(o)'
    BY GoSolo DEF Makes
  <1> DEFINE p == Written(o, x)
  <1>1. /\ Goes(o, w) /\ op'[o] = w /\ op[o] \in Requests /\ op[o] # Im!Idle
        /\ UNCHANGED <<how, export>> /\ x \in Busy(o) /\ Busy(o)' = Busy(o) \ {x} /\ w.seen = None
        /\ w.pc = "run" /\ \A y \in Busy(o) \ {x} : Im!Rank(Im!Kind(x)) <= Im!Rank(Im!Kind(y))
        /\ op[o].map[x] = None /\ p \notin DOMAIN db
    BY MakeFacts
  <1>2. /\ DOMAIN db' = DOMAIN db \union {p} /\ p.of = x /\ p # None /\ (Im!Zipfast => p # Me)
        /\ \A q \in DOMAIN db : q # p =>
             /\ db'[q].owner = db[q].owner /\ db'[q].files = db[q].files
             /\ db'[q].up = IF how = "zipline3" /\ x \in Folder /\ q.of \in File /\ export.up[q.of] = x
                               /\ op[o].map[q.of] = q
                            THEN p ELSE db[q].up
    BY MadeRow, FreshId DEF Base
  <1>3. /\ w.map = [op[o].map EXCEPT ![x] = p]
        /\ w.links = IF how = "zipline4" /\ x \in Folder /\ export.up[x] # None
                     THEN op[o].links \union {x} ELSE op[o].links
    BY DEF Makes
  <1> HIDE DEF p
  <1>4. InOrder(o)'
    BY <1>1, InOrderAfter
  <1>5. Mine(o)'
    <2>1. p \in DOMAIN db' \union {Me, None} /\ DOMAIN db \subseteq DOMAIN db'
          /\ \A q \in DOMAIN db' \ DOMAIN db : q.of = x /\ q = p
      BY <1>2
    <2> QED BY <1>1, <1>2, <1>3, <2>1, MineAfter
  <1>6. ToLink(o)'
    <2> SUFFICES ASSUME NEW d \in Folder \ w.links, export.up[d] # None, Im!Zipfast \/ w.map[d] # None,
                        how # "zipline3"
                 PROVE  Busy(o)' \intersect Folder = {}
      BY <1>1, SameWords DEF ToLink
    <2>1. CASE d = x
      <3>1. how # "zipline4" /\ x \notin op[o].links
        BY <1>3, <2>1
      <3>2. Im!Zipfast
        BY <3>1 DEF Base, ImportType, Im!Zipfast
      <3> QED BY <1>1, <2>1, <3>1, <3>2 DEF ToLink
    <2>2. CASE d # x
      <3>1. d \notin op[o].links /\ w.map[d] = op[o].map[d]
        BY <1>1, <1>3, <2>2 DEF Requests
      <3> QED BY <1>1, <3>1 DEF ToLink
    <2> QED BY <2>1, <2>2
  <1>7. Brought(o)'
    <2> SUFFICES ASSUME NEW z \in Plainly, Im!Handled(z), z \notin Busy(o)', Im!Owner(o, z)' # None
                 PROVE  Arrived(o, z)' \/ Im!LeftOut(o, z)'
      BY <1>1, SameWords DEF Brought, Plainly
    <2>1. z \in Im!Row \ User
      BY DEF Plainly
    <2>2. CASE z # x
      <3>1. z \notin Busy(o)
        BY <1>1, <2>2
      <3>2. RowsKept(o, x, p)
        BY <1>1, <1>2 DEF RowsKept
      <3>3. Im!Owner(o, z) # None /\ (Arrived(o, z) \/ Im!LeftOut(o, z) => Arrived(o, z)' \/ Im!LeftOut(o, z)')
        BY <1>1, <1>3, <2>1, <3>1, <3>2, StaysBrought
      <3> QED BY <3>1, <3>3 DEF Brought
    <2>3. CASE z = x
      BY <2>1, <2>3, MadeArrives
    <2> QED BY <2>2, <2>3
  <1> QED BY <1>4, <1>5, <1>6, <1>7

LEMMA DropSolo ==
    ASSUME Base, SoloInv, NEW o \in Importer, NEW x \in Im!Row, NEW w, Drops(o, x, w)
    PROVE  SoloInv'
  <1> SUFFICES ASSUME InOrder(o), Mine(o), ToLink(o), Brought(o)
               PROVE  InOrder(o)' /\ Mine(o)' /\ ToLink(o)' /\ Brought(o)'
    BY GoSolo DEF Drops
  <1>1. /\ Goes(o, w) /\ op'[o] = w /\ op[o] \in Requests /\ op[o] # Im!Idle /\ op[o].pc = "run"
        /\ UNCHANGED <<how, export, db>> /\ op[o].seen = x /\ x \notin op[o].todo /\ x # None
        /\ how = "zipline3" /\ x \in Folder
    BY GoesTo, ImportFacts DEF Drops, Goes, Base
  <1>2. w.seen = None /\ w.pc = "run" /\ w.todo = op[o].todo /\ w.links = op[o].links /\ w.map = op[o].map
    BY <1>1 DEF Drops, Requests
  <1>3. x \in Busy(o) /\ Busy(o)' = Busy(o) \ {x}
    BY <1>1, <1>2 DEF Busy
  <1>4. op[o].map[x] = None /\ w.map = [op[o].map EXCEPT ![x] = None]
    BY <1>1, <1>2, <1>3 DEF Mine, Requests
  <1>5. InOrder(o)'
    <2>1. \A y \in Busy(o) \ {x} : Im!Rank(Im!Kind(x)) <= Im!Rank(Im!Kind(y))
      BY <1>1 DEF InOrder, Busy
    <2> QED BY <1>1, <1>2, <1>3, <2>1, InOrderAfter
  <1>6. Mine(o)'
    <2>1. None \in DOMAIN db' \union {Me, None} /\ DOMAIN db \subseteq DOMAIN db' /\ None # Me
          /\ \A q \in DOMAIN db' \ DOMAIN db : q.of = x /\ q = None
      BY <1>1, ImportFacts
    <2> QED BY <1>1, <1>3, <1>4, <2>1, MineAfter
  <1>7. ToLink(o)'
    BY <1>1 DEF ToLink
  <1>8. Brought(o)'
    <2> SUFFICES ASSUME NEW z \in Plainly, Im!Handled(z), z \notin Busy(o)', Im!Owner(o, z)' # None
                 PROVE  Arrived(o, z)' \/ Im!LeftOut(o, z)'
      BY <1>1, SameWords DEF Brought, Plainly
    <2>1. z \in Im!Row \ User
      BY DEF Plainly
    <2>2. CASE z # x
      <3>1. z \notin Busy(o)
        BY <1>3, <2>2
      <3>2. RowsKept(o, x, None)
        BY <1>1, <1>4 DEF RowsKept
      <3>3. Im!Owner(o, z) # None /\ (Arrived(o, z) \/ Im!LeftOut(o, z) => Arrived(o, z)' \/ Im!LeftOut(o, z)')
        BY <1>1, <1>2, <1>3, <1>4, <2>1, <3>1, <3>2, StaysBrought
      <3> QED BY <3>1, <3>3 DEF Brought
    <2>3. CASE z = x
      <3> PICK f \in File : export.up[f] = x /\ op[o].map[f] = None
        BY DEF Drops
      <3>1. Im!At(o, f)' = None
        BY <1>1, <1>2 DEF Im!At
      <3> QED BY <1>1, <2>3, <3>1 DEF Im!LeftOut
    <2> QED BY <2>2, <2>3
  <1> QED BY <1>5, <1>6, <1>7, <1>8

LEMMA JoinSolo ==
    ASSUME Base, SoloInv, NEW o \in Importer, NEW d \in Folder, NEW w, Joins(o, d, w)
    PROVE  SoloInv'
  <1> SUFFICES ASSUME InOrder(o), Mine(o), ToLink(o), Brought(o)
               PROVE  InOrder(o)' /\ Mine(o)' /\ ToLink(o)' /\ Brought(o)'
    BY GoSolo DEF Joins
  <1> DEFINE p == Written(o, d)
             up == Written(o, export.up[d])
             at == op[o].map[export.up[d]]
  <1>1. /\ op'[o] = w /\ op[o] \in Requests /\ op[o] # Im!Idle /\ op[o].pc = "run"
        /\ UNCHANGED <<how, export>> /\ d \in op[o].links /\ how # "zipline3" /\ op[o].seen = None
        /\ \A x \in op[o].todo : Im!Rank(Im!Kind(x)) > Im!Rank("link")
    BY GoesTo DEF Joins, Goes, Base, ImportType, Im!Zipfast
  <1>2. w.seen = op[o].seen /\ w.pc = "run" /\ w.todo = op[o].todo /\ w.links = op[o].links \ {d} /\ w.map = op[o].map
    BY <1>1 DEF Joins, Requests
  <1>3. Busy(o)' = Busy(o) /\ Busy(o) = op[o].todo
    BY <1>1, <1>2 DEF Busy
  <1>4. /\ export.up[d] \in Folder /\ export.up[d] # None
        /\ \/ UNCHANGED db /\ (IF Im!Zipfast THEN p \notin DOMAIN db \/ up \notin DOMAIN db ELSE at = None)
           \/ /\ DOMAIN db' = DOMAIN db /\ db'[p].up = up /\ up \in DOMAIN db
              /\ ~Im!Zipfast => at = up
              /\ \A q \in DOMAIN db : q # p => db'[q].up = db[q].up
        /\ DOMAIN db' = DOMAIN db
        /\ \A q \in DOMAIN db : db'[q].owner = db[q].owner /\ db'[q].files = db[q].files
    BY JoinedRows DEF Base
  <1>5. p.of = d /\ up.of = export.up[d] /\ export.up[d] \in Im!Row /\ d \in Im!Row /\ d # None
    BY <1>4, RowKinds, FreshId, ImportFacts DEF Base
  <1> HIDE DEF p, up
  <1>6. InOrder(o)'
    <2>1. (\A y : Im!Handled(y)' <=> Im!Handled(y)) /\ \A y : Im!Rank(Im!Kind(y))' = Im!Rank(Im!Kind(y))
      BY <1>1, SameWords DEF Im!Rank, Im!Kind
    <2> QED BY <1>1, <1>2, <1>3, <2>1 DEF InOrder
  <1>7. Mine(o)'
    BY <1>1, <1>2, <1>3, <1>4, SameWords DEF Mine
  <1>8. ToLink(o)'
    <2>1. Busy(o) \intersect Folder = {}
      BY <1>1, <1>3, RankFacts DEF Base
    <2> QED BY <1>3, <2>1 DEF ToLink
  <1>9. (up \in DOMAIN db => at = up) /\ (up \notin DOMAIN db => at = None)
    <2>1. export.up[d] \notin User /\ up # Me /\ None # Me
      BY <1>4, <1>5, RowSplit, FreshId, ImportFacts DEF Base, up
    <2>2. at \in {None, up}
      BY <1>1, <1>5, <2>1 DEF Base, Mapped, up
    <2>3. at \in DOMAIN db \union {Me, None}
      BY <1>5 DEF Mine
    <2>4. up \in DOMAIN db => at = up
      BY <1>5 DEF Mine
    <2> QED BY <2>1, <2>2, <2>3, <2>4
  <1>10. Brought(o)'
    <2> SUFFICES ASSUME NEW z \in Plainly, Im!Handled(z), z \notin Busy(o)', Im!Owner(o, z)' # None
                 PROVE  Arrived(o, z)' \/ Im!LeftOut(o, z)'
      BY <1>1, SameWords DEF Brought, Plainly
    <2>1. z \in Im!Row \ User
      BY DEF Plainly
    <2>2. (\A x : Im!At(o, x)' = Im!At(o, x)) /\ Im!Owner(o, z)' = Im!Owner(o, z)
      BY <1>1, <1>2 DEF Im!At, Im!Owner, Im!Owned
    <2>3. Arrived(o, z) \/ Im!LeftOut(o, z)
      BY <1>3, <2>2 DEF Brought
    <2>4. CASE Im!LeftOut(o, z)
      BY <1>1, <2>2, <2>4, SameWords DEF Im!LeftOut
    <2>5. CASE Arrived(o, z)
      <3> DEFINE r == op[o].map[z]
      <3>1. /\ r \in DOMAIN db /\ db[r].owner = Im!Owner(o, z)
            /\ z \in File => db[r].up = Im!At(o, export.up[z])
            /\ z \in Folder /\ how # "zipline3" =>
                db[r].up = IF z \in op[o].links THEN None ELSE Im!At(o, export.up[z])
            /\ z \in Tag /\ ~Im!Zipfast => db[r].files = {Im!At(o, f) : f \in export.tagged[z]}
        BY <2>5 DEF Arrived
      <3>2. r = Written(o, z) /\ r.of = z
        BY <1>1, <2>1, <3>1, FreshId, ImportFacts DEF Base, Mapped, ImportType
      <3>3. z # d => db'[r].up = db[r].up
        BY <1>4, <1>5, <3>1, <3>2
      <3>4. z = d => db'[r].up = Im!At(o, export.up[z])
        <4> SUFFICES ASSUME z = d PROVE db'[r].up = at
          BY <1>4 DEF Im!At
        <4>1. r = p /\ db[r].up = None
          BY <1>1, <3>1, <3>2 DEF p
        <4> QED BY <1>4, <1>9, <3>1, <4>1
      <3>5. z \in File => db'[r].up = Im!At(o, export.up[z])'
        BY <2>1, <2>2, <3>1, <3>3, <3>4, <1>1
      <3>6. z \in Folder /\ how # "zipline3" =>
                db'[r].up = IF z \in w.links THEN None ELSE Im!At(o, export.up[z])'
        <4>1. Im!At(o, export.up[z])' = Im!At(o, export.up[z])
          BY <1>1, <2>2
        <4> QED BY <1>2, <3>1, <3>3, <3>4, <4>1
      <3>7. z \in Tag /\ ~Im!Zipfast => db'[r].files = {Im!At(o, f)' : f \in export.tagged[z]}
        BY <1>4, <2>2, <3>1
      <3>8. r \in DOMAIN db' /\ db'[r].owner = Im!Owner(o, z)'
        BY <1>4, <2>2, <3>1
      <3> QED BY <1>1, <1>2, <3>5, <3>6, <3>7, <3>8, SameWords DEF Arrived
    <2> QED BY <2>3, <2>4, <2>5
  <1> QED BY <1>6, <1>7, <1>8, <1>10

LEMMA StopSolo ==
    ASSUME Base, SoloInv, NEW o \in Importer, NEW w, Stops(o, w)
    PROVE  SoloInv'
  <1> SUFFICES ASSUME w.pc # "failed", InOrder(o), Mine(o), ToLink(o), Brought(o)
               PROVE  InOrder(o)' /\ Mine(o)' /\ ToLink(o)' /\ Brought(o)'
    BY GoSolo DEF Stops
  <1>1. /\ op'[o] = w /\ op[o] \in Requests /\ UNCHANGED <<how, export, db>>
    BY GoesTo DEF Stops, Goes, Base
  <1>2. /\ w = [op[o] EXCEPT !.pc = "done"] /\ op[o].todo = {} /\ op[o].links = {} /\ op[o].seen = None
        /\ w.map = op[o].map /\ w.todo = {} /\ w.links = {} /\ w.seen = None
    <2>1. w # [op[o] EXCEPT !.pc = "failed"]
      BY <1>1 DEF Requests
    <2> QED BY <1>1, <2>1 DEF Stops, Requests
  <1>3. Busy(o)' = {} /\ Busy(o) = {}
    BY <1>1, <1>2 DEF Busy
  <1>4. InOrder(o)'
    BY <1>1, <1>2, <1>3 DEF InOrder
  <1>5. Mine(o)' /\ ToLink(o)'
    BY <1>1, <1>2, <1>3, SameWords DEF Mine, ToLink
  <1>6. Brought(o)'
    BY <1>1, <1>2, <1>3, SameWords DEF Brought, Plainly, Arrived, Im!LeftOut, Im!At, Im!Owner, Im!Owned
  <1> QED BY <1>4, <1>5, <1>6

LEMMA BeginSolo ==
    ASSUME Base, SoloInv, NEW o \in Importer, NEW w, Begins(o, w)
    PROVE  SoloInv'
  <1>1. /\ op'[o] = w /\ (\A q \in Importer \ {o} : op'[q] = op[q]) /\ op[o] = Im!Idle
        /\ w \in Requests /\ w # Im!Idle /\ w.pc = "run" /\ w.seen = None /\ w.todo = {x \in Im!Row : Im!Handled(x)}
        /\ w.links = IF Im!Zipfast THEN {d \in Folder : export.up[d] # None} ELSE {}
        /\ w.map = [x \in Im!Row |-> None]
        /\ UNCHANGED <<how, export, db, edits, raced>>
    <2>1. w \in Requests => w # Im!Idle
      BY DEF Requests, Im!Idle
    <2> QED BY <2>1, BeginsTo DEF Base, Begins
  <1>2. ASSUME NEW e \in Importer, op'[e] # Im!Idle, AloneAtWork(e)'
        PROVE  InOrder(e)' /\ Mine(e)' /\ ToLink(e)' /\ Brought(e)'
    <2>1. e = o
      BY <1>1, <1>2 DEF AloneAtWork
    <2>2. DOMAIN db' = {}
      <3>1. \A q \in Importer : op[q] = Im!Idle
        BY <1>1, <1>2, <2>1 DEF AloneAtWork
      <3> QED BY <1>1, <3>1 DEF SoloInv
    <2>3. Busy(o)' = {x \in Im!Row : Im!Handled(x)}
      BY <1>1 DEF Busy
    <2>4. InOrder(o)'
      BY <1>1, <2>3, SameWords DEF InOrder
    <2>5. Mine(o)'
      BY <1>1, <2>2, <2>3, ImportFacts DEF Mine
    <2>6. ToLink(o)'
      BY <1>1, RowKinds, SameWords DEF ToLink
    <2>7. Brought(o)'
      BY <1>1, <2>3, SameWords DEF Brought, Plainly
    <2> QED BY <2>1, <2>4, <2>5, <2>6, <2>7
  <1> QED BY <1>1, <1>2 DEF SoloInv

LEMMA EditSolo ==
    ASSUME Base, SoloInv, UNCHANGED op, edits' = edits + 1, DOMAIN db' \subseteq DOMAIN db
    PROVE  SoloInv'
  <1>1. edits' # 0
    BY DEF Base, ImportType
  <1> QED BY <1>1 DEF SoloInv, AloneAtWork

LEMMA SoloStep ==
    ASSUME Base, SoloInv, [Im!Next]_(Im!vars)
    PROVE  SoloInv'
  <1>1. CASE UNCHANGED Im!vars
    <2>1. UNCHANGED <<how, export, db, op, edits, raced>>
      BY <1>1 DEF Im!vars
    <2>2. \A o : AloneAtWork(o)' <=> AloneAtWork(o)
      BY <2>1 DEF AloneAtWork
    <2>3. \A o : InOrder(o)' <=> InOrder(o)
      <3> TAKE o
      <3>1. (\A y : Im!Handled(y)' <=> Im!Handled(y)) /\ \A y : Im!Rank(Im!Kind(y))' = Im!Rank(Im!Kind(y))
        BY <2>1, SameWords DEF Im!Rank, Im!Kind
      <3>2. Im!Rank(Im!Kind(op[o].seen))' = Im!Rank(Im!Kind(op[o].seen))
        BY <2>1 DEF Im!Rank, Im!Kind
      <3>3. Busy(o)' = Busy(o)
        BY <2>1 DEF Busy
      <3> QED BY <2>1, <3>1, <3>2, <3>3 DEF InOrder
    <2>4. \A o : (Mine(o)' <=> Mine(o)) /\ (ToLink(o)' <=> ToLink(o))
      BY <2>1, SameWords DEF Mine, ToLink, Busy
    <2>5. \A o : Brought(o)' <=> Brought(o)
      BY <2>1, SameWords DEF Brought, Busy, Plainly, Arrived, Im!LeftOut, Im!At, Im!Owner, Im!Owned
    <2> QED BY <2>1, <2>2, <2>3, <2>4, <2>5 DEF SoloInv
  <1>2. ASSUME NEW o \in Importer, Does(o) PROVE SoloInv'
    BY <1>2, LookSolo, MakeSolo, JoinSolo, BeginSolo, StopSolo, DropSolo DEF Does
  <1>3. ASSUME NEW p, NEW q, Moves(p, q) PROVE SoloInv'
    BY <1>3, MovedRows, EditSolo DEF Base
  <1>4. ASSUME NEW u, Leaves(u) PROVE SoloInv'
    BY <1>4, LeftRows, EditSolo DEF Base
  <1>5. CASE Im!Next
    BY <1>2, <1>3, <1>4, <1>5, ImportSteps DEF Base
  <1> QED BY <1>1, <1>5

LEMMA SoloHolds ==
    ASSUME Base, SoloInv
    PROVE  Im!Delivered
  <1> SUFFICES ASSUME NEW o \in Importer, op[o].pc = "done", edits = 0,
                      \A other \in Importer \ {o} : op[other] = Im!Idle,
                      NEW x \in Plainly, Im!Handled(x), Im!Owner(o, x) # None
               PROVE  Im!Whole(o, x) \/ Im!LeftOut(o, x)
    BY DEF Im!Delivered, Plainly
  <1>1. op[o] # Im!Idle /\ AloneAtWork(o) /\ x \in Im!Row /\ x # None
    BY ImportFacts DEF AloneAtWork, Im!Idle, Plainly
  <1>2. Busy(o) = {} /\ op[o].links = {}
    BY <1>1 DEF SoloInv, InOrder
  <1>3. Arrived(o, x) \/ Im!LeftOut(o, x)
    BY <1>1, <1>2 DEF SoloInv, Brought
  <1>4. Arrived(o, x) => Im!Whole(o, x)
    BY <1>1, <1>2 DEF Arrived, Im!Whole, Im!At
  <1> QED BY <1>3, <1>4

(* An import nobody comes between brings each row over, under the folder and *)
(* with the files it had, unless its name was in use or what it hangs on was *)
(* left out (zipline's import routes, the Go server's importer).             *)
THEOREM ImportsDeliver == ImportSpec => []Delivered
  <1> DEFINE Inv == Base /\ SoloInv
  <1>1. Im!Init => Inv
    <2>1. Im!Init => SoloInv
      BY DEF Im!Init, SoloInv
    <2> QED BY <2>1, BaseInit
  <1>2. Inv /\ [Im!Next]_(Im!vars) => Inv'
    BY BaseStep, SoloStep
  <1>3. Inv => Delivered
    BY SoloHolds DEF Delivered
  <1> QED BY <1>1, <1>2, <1>3, PTL DEF ImportSpec, Im!Spec
=============================================================================
